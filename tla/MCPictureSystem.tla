---------------------------- MODULE MCPictureSystem ----------------------------
(* Model checking of PictureSystem: the symmetry of its constants. *)
EXTENDS PictureSystem, TLC

Symmetry ==
    Permutations(Users) \union Permutations(Keys)
        \union Permutations(Requests) \union Permutations(Workers)
================================================================================
