--------------------------- MODULE MCRefreshTokens ---------------------------
(* Model checking of RefreshTokens: the symmetry of its constants. *)
EXTENDS RefreshTokens, TLC

Symmetry ==
    Permutations(Tokens) \union Permutations(Families)
        \union Permutations(Requests) \union Permutations(Purgers)
==============================================================================
