----------------------------- MODULE SessionChain -----------------------------
(****************************************************************************)
(* What refresh-token rotation promises, without the table, the locks or    *)
(* the requests: a session is opened once, holds one current token, passes  *)
(* it on to a token never used before, and once it has ended stays ended.   *)
(****************************************************************************)
CONSTANTS Tokens, Families, None

VARIABLES
    current,  \* the token of each session that can still be rotated, or None
    opened,   \* sessions opened so far
    used      \* tokens issued so far

vars == <<current, opened, used>>

Init ==
    /\ current = [f \in Families |-> None]
    /\ opened = {}
    /\ used = {}

Open(f, t) ==
    /\ f \notin opened
    /\ t \notin used
    /\ current' = [current EXCEPT ![f] = t]
    /\ opened' = opened \union {f}
    /\ used' = used \union {t}

Rotate(f, t) ==
    /\ current[f] # None
    /\ t \notin used
    /\ current' = [current EXCEPT ![f] = t]
    /\ used' = used \union {t}
    /\ UNCHANGED opened

\* a logout, a detected reuse, or a purge that deletes the rows of several
End(F) ==
    /\ \A f \in F : current[f] # None
    /\ current' = [f \in Families |-> IF f \in F THEN None ELSE current[f]]
    /\ UNCHANGED <<opened, used>>

Next ==
    \/ \E f \in Families, t \in Tokens : Open(f, t) \/ Rotate(f, t)
    \/ \E F \in SUBSET Families : End(F)

Spec == Init /\ [][Next]_vars
===============================================================================
