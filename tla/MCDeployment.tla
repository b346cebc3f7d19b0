----------------------------- MODULE MCDeployment -----------------------------
(* Model checking of Deployment: databases of the first schema and of the last. *)
EXTENDS Deployment

CONSTANTS u1, u2, t1, t2, f1, f2, a, b

Emails == [address : {a, b}, spelling : {"lower", "mixed", "spaces"}]

Account(email, facebookId, picture) ==
    [email |-> email, facebookId |-> facebookId, picture |-> picture]

Sessions(family) == [t \in {t1, t2} |-> [user |-> u1, family |-> family]]

Ann == Account([address |-> a, spelling |-> "mixed"], f1, "url")

MCDatabases ==
    {[applied |-> 0, users |-> <<>>, tokens |-> <<>>]}
    \union {[applied |-> 1, tokens |-> Sessions(Null),
             users |-> [u \in {u1, u2} |-> IF u = u1 THEN Ann ELSE Account(e, f, "none")]] :
               e \in Emails, f \in {Null, f1, f2}}
    \union {[applied |-> Latest, tokens |-> Sessions(t1),
             users |-> [u \in {u1} |-> Account([address |-> a, spelling |-> "lower"], Null, "key")]]}
===============================================================================
