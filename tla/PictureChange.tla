----------------------------- MODULE PictureChange -----------------------------
(****************************************************************************)
(* PUT and DELETE /users/picture: upload under a fresh key, compare-and-set *)
(* of the profile's picture key together with the outbox event that         *)
(* schedules deleting the replaced object, or deleting the upload again.    *)
(* No transaction spans the upload; savePicture has one of its own.         *)
(* A request for a missing user is a 404 before anything is stored, and is  *)
(* left out; name and initials are left out with it.                        *)
(****************************************************************************)
EXTENDS Naturals, Sequences

CONSTANTS
    Users,
    Keys,             \* object keys; a request draws one never used before
    Requests,
    None,             \* no picture
    NewEvent(_),      \* the outbox event that schedules deleting a key
    AmbiguousCommit,  \* may a COMMIT take effect and yet be reported as an error?
    MaxFaults         \* bound: storage errors, database errors, crashes

VARIABLES
    picture,  \* users.picture_key, committed
    objects,  \* the bucket
    events,   \* the outbox
    drawn,    \* keys drawn so far
    req,      \* the requests in progress
    lost,     \* history: keys of uploads that a failure left in the bucket
    faults

vars == <<picture, objects, events, drawn, req, lost, faults>>

IdleRequest == [pc |-> "idle", user |-> None, new |-> None, old |-> None]

TypeOK ==
    /\ picture \in [Users -> Keys \union {None}]
    /\ objects \subseteq drawn
    /\ drawn \subseteq Keys
    /\ req \in [Requests -> [pc : {"idle", "upload", "save", "commit", "discard"},
                             user : Users \union {None},
                             new : Keys \union {None}, old : Keys \union {None}]]
    /\ lost \subseteq drawn
    /\ faults \in 0..MaxFaults

Init ==
    /\ picture = [u \in Users |-> None]
    /\ objects = {}
    /\ events = << >>
    /\ drawn = {}
    /\ req = [r \in Requests |-> IdleRequest]
    /\ lost = {}
    /\ faults = 0

----------------------------------------------------------------------------
At(r, step) == req[r].pc = step

Answer(r) == req' = [req EXCEPT ![r] = IdleRequest]

Fault == faults < MaxFaults /\ faults' = faults + 1

\* the object the request has stored is left in the bucket for good
Leave(r) == lost' = lost \union ({req[r].new} \intersect objects)

\* Mutant: the key is not random, it may be one that was used and deleted.
StartPutReusing(r, u, k) ==
    /\ At(r, "idle")
    /\ k \notin objects /\ \A s \in Requests : req[s].new # k
    /\ drawn' = drawn \union {k}
    /\ req' = [req EXCEPT ![r] = [pc |-> "upload", user |-> u, new |-> k, old |-> picture[u]]]
    /\ UNCHANGED <<picture, objects, events, lost, faults>>

\* PUT: read the current key, draw a fresh one
StartPut(r, u, k) ==
    /\ At(r, "idle")
    /\ k \notin drawn
    /\ drawn' = drawn \union {k}
    /\ req' = [req EXCEPT ![r] = [pc |-> "upload", user |-> u, new |-> k, old |-> picture[u]]]
    /\ UNCHANGED <<picture, objects, events, lost, faults>>

\* DELETE: nothing to upload
StartDelete(r, u) ==
    /\ At(r, "idle")
    /\ req' = [req EXCEPT ![r] = [pc |-> "save", user |-> u, new |-> None, old |-> picture[u]]]
    /\ UNCHANGED <<picture, objects, events, drawn, lost, faults>>

Upload(r) ==
    /\ At(r, "upload")
    /\ objects' = objects \union {req[r].new}
    /\ req' = [req EXCEPT ![r].pc = "save"]
    /\ UNCHANGED <<picture, events, drawn, lost, faults>>

\* the storage reports an error: 500, with nothing to discard, though the
\* object may have been stored
UploadFails(r, stored) ==
    /\ At(r, "upload")
    /\ Fault
    /\ objects' = IF stored THEN objects \union {req[r].new} ELSE objects
    /\ lost' = IF stored THEN lost \union {req[r].new} ELSE lost
    /\ Answer(r)
    /\ UNCHANGED <<picture, events, drawn>>

\* Mutant: the row is locked when it is read, and held until the answer.
UserInUse(r) ==
    \E s \in Requests \ {r} : ~At(s, "idle") /\ req[s].user = req[r].user

\* the user's row is locked by the open transaction of another change
UserLocked(r) == \E s \in Requests \ {r} : At(s, "commit") /\ req[s].user = req[r].user

\* Mutant: UPDATE ... WHERE id = $1, whatever the picture is by now.
SetWithoutCompare(r) ==
    /\ At(r, "save")
    /\ ~UserLocked(r)
    /\ req' = [req EXCEPT ![r].pc = "commit"]
    /\ UNCHANGED <<picture, objects, events, drawn, lost, faults>>

\* UPDATE ... WHERE id = $1 AND picture_key IS NOT DISTINCT FROM the key read
CompareAndSet(r) ==
    /\ At(r, "save")
    /\ ~UserLocked(r)
    /\ req' = [req EXCEPT ![r].pc = IF picture[req[r].user] = req[r].old
                                      THEN "commit" ELSE "discard"]
    /\ UNCHANGED <<picture, objects, events, drawn, lost, faults>>

\* Mutant: the event names the new picture.
SaveSchedulingNew(r) ==
    /\ picture' = [picture EXCEPT ![req[r].user] = req[r].new]
    /\ events' = IF req[r].old = None THEN events
                 ELSE Append(events, NewEvent(req[r].new))

\* Mutant: no event.
SaveWithoutEvent(r) ==
    /\ picture' = [picture EXCEPT ![req[r].user] = req[r].new]
    /\ UNCHANGED events

\* what the transaction of savePicture changes: the profile, and the event of
\* the replaced picture when there was one
Save(r) ==
    /\ picture' = [picture EXCEPT ![req[r].user] = req[r].new]
    /\ events' = IF req[r].old = None THEN events
                 ELSE Append(events, NewEvent(req[r].old))

\* 200
Commit(r) ==
    /\ At(r, "commit")
    /\ Save(r)
    /\ Answer(r)
    /\ UNCHANGED <<objects, drawn, lost, faults>>

\* savePicture throws: what it changed is rolled back ...
SaveFails(r) ==
    /\ At(r, "save") \/ At(r, "commit")
    /\ Fault
    /\ req' = [req EXCEPT ![r].pc = "discard"]
    /\ UNCHANGED <<picture, objects, events, drawn, lost>>

\* ... or its COMMIT took effect, and only the answer to it was lost
CommitUnreported(r) ==
    /\ AmbiguousCommit
    /\ At(r, "commit")
    /\ Fault
    /\ Save(r)
    /\ req' = [req EXCEPT ![r].pc = "discard"]
    /\ UNCHANGED <<objects, drawn, lost>>

\* Mutant: the replaced picture is deleted.
DiscardOld(r) ==
    /\ At(r, "discard")
    /\ objects' = objects \ {req[r].old}
    /\ Answer(r)
    /\ UNCHANGED <<picture, events, drawn, lost, faults>>

\* Mutant: the 409 leaves the upload behind.
DiscardNothing(r) ==
    /\ At(r, "discard")
    /\ Answer(r)
    /\ UNCHANGED <<picture, objects, events, drawn, lost, faults>>

\* discardUpload, then the 409 or the original error; a DELETE has no upload
Discard(r) ==
    /\ At(r, "discard")
    /\ objects' = objects \ {req[r].new}
    /\ Answer(r)
    /\ UNCHANGED <<picture, events, drawn, lost, faults>>

\* .catch(() => undefined)
DiscardFails(r) ==
    /\ At(r, "discard")
    /\ Fault
    /\ Leave(r)
    /\ Answer(r)
    /\ UNCHANGED <<picture, objects, events, drawn>>

\* The process dies, before or after an upload in flight has reached the
\* bucket; PostgreSQL rolls its open transaction back.
Crash(r, stored) ==
    /\ ~At(r, "idle")
    /\ Fault
    /\ objects' = IF stored /\ At(r, "upload") THEN objects \union {req[r].new} ELSE objects
    /\ lost' = lost \union ({req[r].new} \intersect objects')
    /\ Answer(r)
    /\ UNCHANGED <<picture, events, drawn>>

----------------------------------------------------------------------------
RequestStep(r) ==
    \/ Upload(r) \/ CompareAndSet(r) \/ Commit(r) \/ Discard(r)

RequestFault(r) ==
    \/ \E stored \in BOOLEAN : UploadFails(r, stored) \/ Crash(r, stored)
    \/ SaveFails(r) \/ CommitUnreported(r) \/ DiscardFails(r)

Next ==
    \E r \in Requests :
        \/ \E u \in Users : StartDelete(r, u) \/ \E k \in Keys : StartPut(r, u, k)
        \/ RequestStep(r)
        \/ RequestFault(r)

Spec == Init /\ [][Next]_vars

================================================================================
