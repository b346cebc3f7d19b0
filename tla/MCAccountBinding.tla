--------------------------- MODULE MCAccountBinding ---------------------------
(* Model checking of AccountBinding: the symmetry of its constants. *)
EXTENDS AccountBinding, TLC

Symmetry ==
    Permutations(Identities) \union Permutations(Emails)
        \union Permutations(Accounts) \union Permutations(Requests)
===============================================================================
