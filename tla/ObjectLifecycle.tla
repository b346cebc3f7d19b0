---------------------------- MODULE ObjectLifecycle ----------------------------
(****************************************************************************)
(* What the picture flow promises of every stored object, without requests, *)
(* transactions, leases or workers: it is staged once, may become the       *)
(* picture of one user, is retired in the very step that takes its place,   *)
(* and only a staged or a retired object goes away.                         *)
(****************************************************************************)
CONSTANTS Users, Keys, None

VARIABLES
    picture,  \* the picture of each user, or None
    stage     \* of each key: "unused", "staged", "current", "retired" or "gone"

vars == <<picture, stage>>

Init ==
    /\ picture = [u \in Users |-> None]
    /\ stage = [k \in Keys |-> "unused"]

Store(k) ==
    /\ stage[k] = "unused"
    /\ stage' = [stage EXCEPT ![k] = "staged"]
    /\ UNCHANGED picture

\* k becomes the picture of u, or none does; the old picture is retired
Change(u, k) ==
    /\ k = None \/ stage[k] = "staged"
    /\ stage' = [j \in Keys |-> IF j = k THEN "current"
                                ELSE IF j = picture[u] THEN "retired"
                                ELSE stage[j]]
    /\ picture' = [picture EXCEPT ![u] = k]

Remove(k) ==
    /\ stage[k] \in {"unused", "staged", "retired"}
    /\ stage' = [stage EXCEPT ![k] = "gone"]
    /\ UNCHANGED picture

Next ==
    \/ \E k \in Keys : Store(k) \/ Remove(k)
    \/ \E u \in Users, k \in Keys \union {None} : Change(u, k)

Spec == Init /\ [][Next]_vars
================================================================================
