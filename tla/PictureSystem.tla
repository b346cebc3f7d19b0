----------------------------- MODULE PictureSystem -----------------------------
(****************************************************************************)
(* Profile pictures as a whole: the requests of PictureChange and the       *)
(* workers of Outbox over one bucket and one outbox table.                  *)
(****************************************************************************)
EXTENDS Naturals, Sequences, FiniteSets

CONSTANTS
    Users, Keys, Requests, Workers, None,
    BatchSize, MaxAttempts, AmbiguousCommit,
    MaxRequestFaults,  \* bound, see PictureChange
    MaxWorkerFaults    \* bound, see Outbox

ASSUME NoneAssumption == None \notin Keys /\ None \notin Users

ASSUME BoundsAssumption ==
    /\ BatchSize \in Nat \ {0} /\ MaxAttempts \in Nat \ {0}
    /\ AmbiguousCommit \in BOOLEAN
    /\ MaxRequestFaults \in Nat /\ MaxWorkerFaults \in Nat

VARIABLES
    picture, drawn, req, lost, requestFaults,  \* PictureChange
    worker, tries, workerFaults,                     \* Outbox
    objects, events                                  \* both

requestVars == <<picture, drawn, req, lost, requestFaults>>
workerVars == <<worker, tries, workerFaults>>
vars == <<requestVars, workerVars, objects, events>>

Worker == INSTANCE Outbox WITH faults <- workerFaults, MaxFaults <- MaxWorkerFaults

NewEvent(k) == Worker!NewEvent(k)

Change == INSTANCE PictureChange WITH faults <- requestFaults, MaxFaults <- MaxRequestFaults

TypeOK == Change!TypeOK /\ Worker!TypeOK

Init ==
    /\ Change!Init
    /\ worker = [w \in Workers |-> Worker!IdleWorker]
    /\ tries = [k \in Keys |-> 0]
    /\ workerFaults = 0

Next ==
    \/ Change!Next /\ UNCHANGED workerVars
    \/ Worker!WorkerNext /\ UNCHANGED requestVars

Spec == Init /\ [][Next]_vars

\* A request that runs is run on, and gets a row lock in its turn (SF); the poll
\* timer is re-armed whatever a run did, a batch that runs goes on, and the
\* database clock advances.
Fairness ==
    /\ \A r \in Requests : SF_vars(Change!RequestStep(r) /\ UNCHANGED workerVars)
    /\ \A w \in Workers :
         /\ WF_vars(Worker!Claim(w) /\ UNCHANGED requestVars)
         /\ WF_vars(Worker!WorkerStep(w) /\ UNCHANGED requestVars)
    /\ \A i \in 1..Cardinality(Keys) :
         WF_vars(i \in DOMAIN events /\ Worker!LeaseLapses(i) /\ UNCHANGED requestVars)

FairSpec == Spec /\ Fairness

----------------------------------------------------------------------------
Referenced(k) == \E u \in Users : picture[u] = k

InFlight(k) == \E r \in Requests : req[r].new = k

\* a key is stored once: it is unused until its upload, and never again
Stage(k) ==
    IF k \notin drawn \/ \E r \in Requests : Change!At(r, "upload") /\ req[r].new = k
      THEN "unused"
    ELSE IF k \notin objects THEN "gone"
    ELSE IF Referenced(k) THEN "current"
    ELSE IF Worker!Scheduled(k) THEN "retired"
    ELSE "staged"

Lifecycle == INSTANCE ObjectLifecycle WITH stage <- [k \in Keys |-> Stage(k)]

(* Properties *)

\* ADR-0016, "no broken pictures": the object a profile names is in the bucket,
\* whatever other changes, discarded uploads and late workers delete.
PictureIntact == \A u \in Users : picture[u] # None => picture[u] \in objects

\* A replaced picture is scheduled for deletion once, by the change that
\* replaced it, and is nobody's picture again.
ScheduledOnceAndUnreferenced ==
    /\ \A i \in DOMAIN events : ~Referenced(events[i].key)
    /\ \A i, j \in DOMAIN events : events[i].key = events[j].key => i = j

\* No object is forgotten: each stored one is somebody's picture, or has an
\* event that will delete it, or a request that still owns it; the others were
\* left behind by a failure.
EveryObjectAccountedFor ==
    \A k \in objects : Referenced(k) \/ Worker!Pending(k) \/ InFlight(k) \/ k \in lost

\* The one way a picture is lost is change-profile-picture.ts:43: an error of
\* COMMIT is taken for a save that did not happen, and the request discards its
\* upload, which is the picture by now.  No worker, no refused or concurrent
\* change and no crash takes a picture's object, also when COMMITs may be in
\* doubt; and where none is, nothing does.
PicturesLostInDoubtOnly ==
    [][\A u \in Users :
         \/ picture'[u] \in objects' \union {None}
         \/ picture'[u] = picture[u] /\ picture[u] \notin objects
         \/ /\ AmbiguousCommit
            /\ \E r \in Requests : Change!Discard(r) /\ req[r].new = picture'[u]]_vars

\* Requests and workers together keep the life of every object: staged,
\* current, retired, gone, in that order and each once.
ImplementsObjectLifecycle == Lifecycle!Spec

\* An object that is nobody's picture, and that no failure left behind, is
\* deleted in the end.
UnusedObjectsDeleted ==
    \A k \in Keys :
        (k \in objects /\ ~Referenced(k) /\ k \notin lost)
            ~> (k \notin objects \/ Referenced(k) \/ k \in lost)

\* Every change is answered: nobody waits for a user's row for ever.
ChangesAnswered == \A r \in Requests : ~Change!At(r, "idle") ~> Change!At(r, "idle")
================================================================================
