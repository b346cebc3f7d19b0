------------------------- MODULE PictureSystem_proofs -------------------------
(****************************************************************************)
(* PictureSystem, for any number of users, requests, keys and workers: no   *)
(* object is deleted twice or forgotten; and, when a COMMIT that took       *)
(* effect is never reported as an error, no picture is broken and the       *)
(* system refines ObjectLifecycle.                                          *)
(****************************************************************************)
EXTENDS PictureSystem, SequenceTheorems, WellFoundedInduction, TLAPS

\* The key a request has drawn is its own until its COMMIT; one that fails may
\* have taken effect all the same.
OwnKey(q) == q.new # None /\ (AmbiguousCommit => q.pc # "discard")

\* What a request holds at each of its steps: its own key is nobody's picture
\* and is not scheduled; it is stored from the upload on; and a request that
\* has locked the row knows the picture it replaces.
RequestOK(q) ==
    /\ q.pc = "idle" => q = Change!IdleRequest
    /\ q.pc # "idle" => q.user \in Users
    /\ q.pc = "upload" => q.new # None /\ q.new \notin objects
    /\ q.new # None => q.new \in drawn
    /\ OwnKey(q) => ~Referenced(q.new) /\ ~Worker!Scheduled(q.new)
    /\ q.pc \in {"save", "commit"} /\ q.new # None => q.new \in objects
    /\ q.pc = "commit" => picture[q.user] = q.old

\* Two requests never draw one key, nor lock one row.
RequestsApart ==
    \A r, s \in Requests :
        r # s =>
            /\ req[r].new # None => req[r].new # req[s].new
            /\ ~(req[r].pc = "commit" /\ req[s].pc = "commit" /\ req[r].user = req[s].user)

\* A picture is one user's, and is drawn; what an event names is drawn too and,
\* once the event is done, deleted.
TablesOK ==
    /\ \A u, v \in Users : picture[u] = picture[v] /\ picture[u] # None => u = v
    /\ \A u \in Users : picture[u] # None => picture[u] \in drawn
    /\ \A i \in DOMAIN events : /\ events[i].key \in drawn
                                /\ events[i].done => events[i].key \notin objects

\* A worker that is about to complete an event has deleted its object.
WorkersOK ==
    \A w \in Workers :
        /\ worker[w].pc = "idle" => worker[w].batch = {}
        /\ worker[w].pc = "complete" /\ worker[w].batch # {} =>
             events[Worker!Current(w)].key \notin objects

IInv ==
    /\ TypeOK
    /\ \A r \in Requests : RequestOK(req[r])
    /\ RequestsApart
    /\ TablesOK
    /\ WorkersOK
    /\ ~AmbiguousCommit => PictureIntact
    /\ ScheduledOnceAndUnreferenced
    /\ EveryObjectAccountedFor

-------------------------------------------------------------------------------
\* The invariant holds initially: nothing is stored, scheduled or in progress.
LEMMA InitInvariant == Init => IInv
<1> SUFFICES ASSUME Init PROVE IInv
  OBVIOUS
<1> USE NoneAssumption, BoundsAssumption DEF Init, Change!Init
<1>1. events = << >> /\ DOMAIN events = {}
  OBVIOUS
<1>2. Change!TypeOK
  BY DEF Change!TypeOK, Change!IdleRequest
<1>3. Worker!TypeOK
  BY <1>1, EmptySeq DEF Worker!TypeOK, Worker!IdleWorker
<1>4. \A r \in Requests : RequestOK(req[r])
  BY DEF RequestOK, OwnKey, Change!IdleRequest
<1>5. RequestsApart /\ WorkersOK
  BY DEF RequestsApart, WorkersOK, Change!IdleRequest, Worker!IdleWorker
<1>6. TablesOK /\ PictureIntact /\ ScheduledOnceAndUnreferenced /\ EveryObjectAccountedFor
  BY <1>1 DEF TablesOK, PictureIntact, ScheduledOnceAndUnreferenced, EveryObjectAccountedFor
<1>7. QED
  BY <1>2, <1>3, <1>4, <1>5, <1>6 DEF IInv, TypeOK

\* A set of natural numbers has a least element.
LEMMA LeastElement ==
  ASSUME NEW S \in SUBSET Nat, S # {}
  PROVE  \E i \in S : \A j \in S : i <= j
<1> DEFINE R == {p \in Nat \X Nat : p[1] < p[2]}
<1>1. IsWellFoundedOn(R, Nat)
  BY NatLessThanWellFounded DEF OpToRel
<1>2. PICK i \in S : \A j \in S : ~ (<<j, i>> \in R)
  <2> HIDE DEF R
  <2> QED BY <1>1, WFMin
<1>3. ASSUME NEW j \in S PROVE i <= j
  <2>1. i \in Nat /\ j \in Nat
    OBVIOUS
  <2>2. j < i => <<j, i>> \in R
    BY <2>1
  <2>3. ~(j < i)
    <3> HIDE DEF R
    <3> QED BY <2>2, <1>2
  <2> QED BY <2>1, <2>3
<1>4. QED
  BY <1>3

\* Events are numbered from 1, and a batch is a set of such numbers.
LEMMA AtWorkers ==
  ASSUME IInv
  PROVE  /\ events \in Seq(Worker!Event) /\ Len(events) \in Nat
         /\ DOMAIN events = 1..Len(events)
         /\ \A i \in DOMAIN events : i \in Nat /\ events[i] \in Worker!Event
                                     /\ events[i].key \in Keys /\ Worker!Scheduled(events[i].key)
         /\ worker \in [Workers -> [pc : {"idle", "handle", "complete", "fail"},
                                    batch : SUBSET (DOMAIN events)]]
         /\ \A w \in Workers : worker[w].batch # {} =>
              Worker!Current(w) \in worker[w].batch /\ Worker!Current(w) \in DOMAIN events
<1>1. Worker!TypeOK
  BY DEF IInv, TypeOK
<1>2. /\ events \in Seq(Worker!Event)
      /\ worker \in [Workers -> [pc : {"idle", "handle", "complete", "fail"},
                                 batch : SUBSET (DOMAIN events)]]
  BY <1>1 DEF Worker!TypeOK
<1>3. Len(events) \in Nat /\ DOMAIN events = 1..Len(events)
  BY <1>2, LenProperties
<1>4. ASSUME NEW i \in DOMAIN events
      PROVE  i \in Nat /\ events[i] \in Worker!Event /\ events[i].key \in Keys
             /\ Worker!Scheduled(events[i].key)
  <2>1. i \in 1..Len(events) /\ i \in Nat
    BY <1>3
  <2>2. events[i] \in Worker!Event
    BY <1>2, <2>1, ElementOfSeq
  <2>3. QED
    BY <2>1, <2>2 DEF Worker!Event, Worker!Scheduled
<1>5. ASSUME NEW w \in Workers, worker[w].batch # {}
      PROVE  Worker!Current(w) \in worker[w].batch /\ Worker!Current(w) \in DOMAIN events
  <2>1. worker[w].batch \subseteq DOMAIN events /\ worker[w].batch \subseteq Nat
    BY <1>2, <1>3
  <2>2. \E i \in worker[w].batch : \A j \in worker[w].batch : i <= j
    BY <1>5, <2>1, LeastElement
  <2>3. QED
    BY <2>1, <2>2 DEF Worker!Current
<1>6. QED
  BY <1>2, <1>3, <1>4, <1>5

-------------------------------------------------------------------------------
(* Steps of a request *)

RequestType == [pc : {"idle", "upload", "save", "commit", "discard"},
                user : Users \union {None},
                new : Keys \union {None}, old : Keys \union {None}]

\* What the invariant says of one request, and of the keys in the tables.
LEMMA AtRequest ==
  ASSUME IInv, NEW r \in Requests
  PROVE  /\ req \in [Requests -> RequestType] /\ req[r] \in RequestType /\ RequestOK(req[r])
         /\ picture \in [Users -> Keys \union {None}]
         /\ objects \subseteq drawn /\ drawn \subseteq Keys /\ lost \subseteq drawn
         /\ requestFaults \in 0..MaxRequestFaults
         /\ None \notin Keys
         /\ \A k \in Keys : Referenced(k) => k \in drawn
         /\ ~AmbiguousCommit => \A k \in Keys : Referenced(k) => k \in objects
         /\ \A k \in Keys : Worker!Scheduled(k) => k \in drawn
<1>1. Change!TypeOK
  BY DEF IInv, TypeOK
<1>2. /\ req \in [Requests -> RequestType]
      /\ picture \in [Users -> Keys \union {None}]
      /\ objects \subseteq drawn /\ drawn \subseteq Keys /\ lost \subseteq drawn
      /\ requestFaults \in 0..MaxRequestFaults
  BY <1>1 DEF Change!TypeOK, RequestType
<1>3. /\ \A k \in Keys : Referenced(k) => k \in drawn
      /\ ~AmbiguousCommit => \A k \in Keys : Referenced(k) => k \in objects
  BY NoneAssumption DEF IInv, TablesOK, PictureIntact, Referenced
<1>4. \A k \in Keys : Worker!Scheduled(k) => k \in drawn
  BY DEF IInv, TablesOK, Worker!Scheduled
<1>5. QED
  BY <1>2, <1>3, <1>4, NoneAssumption DEF IInv

\* A step of a request that leaves the profiles and the outbox alone, and
\* stores or deletes no object but its own, preserves the invariant if what it
\* then holds is in order and what it has stored is still its own or lost. A
\* request that discards stores nothing.
LEMMA RequestMove ==
  ASSUME IInv, NEW r \in Requests, NEW q \in RequestType,
         req' = [req EXCEPT ![r] = q],
         UNCHANGED <<picture, events, workerVars>>,
         requestFaults' \in 0..MaxRequestFaults,
         drawn \subseteq drawn', drawn' \subseteq Keys,
         lost \subseteq lost', lost' \subseteq drawn', objects' \subseteq drawn',
         \A k \in Keys : k # req[r].new => (k \in objects' <=> k \in objects),
         req[r].pc = "discard" => objects' \subseteq objects,
         req[r].new \in objects' => req[r].new \in {q.new} \union lost',
         RequestOK(q)',
         q.new # None => \A s \in Requests \ {r} : req[s].new # q.new,
         q.pc = "commit" => \A s \in Requests \ {r} :
                                ~(req[s].pc = "commit" /\ req[s].user = q.user)
  PROVE  IInv'
<1>1. /\ \A s \in Requests : req'[s] = IF s = r THEN q ELSE req[s]
      /\ req' \in [Requests -> RequestType]
      /\ drawn \subseteq Keys /\ objects \subseteq Keys /\ objects' \subseteq Keys
      /\ None \notin Keys
  BY AtRequest
<1>2. OwnKey(req[r]) => ~Referenced(req[r].new) /\ ~Worker!Scheduled(req[r].new)
  BY AtRequest DEF RequestOK
<1>3. TypeOK'
  <2>1. Change!TypeOK'
    BY <1>1, AtRequest DEF Change!TypeOK, RequestType
  <2>2. objects' \subseteq Keys
    BY <1>1
  <2>3. Worker!TypeOK'
    BY <2>2 DEF IInv, TypeOK, Worker!TypeOK, workerVars
  <2>4. QED
    BY <2>1, <2>3 DEF TypeOK
<1>4. ASSUME NEW s \in Requests PROVE RequestOK(req[s])'
  <2>1. CASE s = r
    BY <1>1, <2>1 DEF RequestOK, OwnKey, Referenced, Worker!Scheduled
  <2>2. CASE s # r
    <3>1. /\ req'[s] = req[s] /\ req[s] \in RequestType /\ RequestOK(req[s])
      BY <1>1, <2>2, AtRequest
    <3>2. req[s].new # None => /\ req[s].new \in Keys /\ req[s].new # req[r].new
                               /\ (req[s].new \in objects' <=> req[s].new \in objects)
      BY <2>2, <3>1 DEF IInv, RequestsApart, RequestType
    <3>3. QED
      BY <3>1, <3>2 DEF RequestOK, OwnKey, Referenced, Worker!Scheduled
  <2>3. QED
    BY <2>1, <2>2
<1>5. RequestsApart'
  BY <1>1 DEF IInv, RequestsApart
<1>6. ASSUME ~AmbiguousCommit, NEW k \in Keys, Referenced(k) PROVE k \in objects' <=> k \in objects
  BY <1>1, <1>2, <1>6 DEF OwnKey
<1>7. ASSUME NEW k \in Keys, Worker!Scheduled(k) PROVE k \in objects' => k \in objects
  BY <1>1, <1>2, <1>7 DEF OwnKey
<1>8. TablesOK'
  <2>1. ASSUME NEW i \in DOMAIN events, events[i].done
        PROVE  events[i].key \notin objects'
    <3>1. events[i].key \in Keys /\ Worker!Scheduled(events[i].key)
      BY <1>1 DEF IInv, TablesOK, Worker!Scheduled
    <3>2. QED
      BY <1>7, <2>1, <3>1 DEF IInv, TablesOK
  <2>2. QED
    BY <2>1, AtRequest DEF IInv, TablesOK
<1>9. WorkersOK'
  <2>1. ASSUME NEW w \in Workers, worker[w].pc = "complete", worker[w].batch # {},
               events[Worker!Current(w)].key \in objects'
        PROVE  events[Worker!Current(w)].key \in objects
    BY <1>7, <2>1, AtWorkers
  <2>2. QED
    BY <2>1 DEF IInv, WorkersOK, workerVars, Worker!Current
<1>10. ~AmbiguousCommit => PictureIntact'
  BY <1>6, AtRequest DEF IInv, PictureIntact, Referenced
<1>11. ScheduledOnceAndUnreferenced'
  BY DEF IInv, ScheduledOnceAndUnreferenced, Referenced
<1>12. EveryObjectAccountedFor'
  <2>1. ASSUME NEW k \in objects'
        PROVE  \/ Referenced(k) \/ Worker!Pending(k) \/ k \in lost'
               \/ \E s \in Requests : req'[s].new = k
    <3>1. CASE k = req[r].new
      BY <1>1, <2>1, <3>1
    <3>2. CASE k # req[r].new
      <4>1. k \in objects /\ k \in Keys
        BY <1>1, <2>1, <3>2
      <4>2. ASSUME NEW s \in Requests, req[s].new = k PROVE req'[s].new = k
        BY <1>1, <3>2, <4>2
      <4>3. QED
        BY <4>1, <4>2 DEF IInv, EveryObjectAccountedFor, InFlight
    <3>3. QED
      BY <3>1, <3>2
  <2>2. QED
    BY <2>1 DEF EveryObjectAccountedFor, Referenced, Worker!Pending, InFlight
<1>13. QED
  BY <1>3, <1>4, <1>5, <1>8, <1>9, <1>10, <1>11, <1>12 DEF IInv

\* A request that ends holds nothing.
LEMMA AnswerMove ==
  ASSUME IInv, NEW r \in Requests, Change!Answer(r),
         UNCHANGED <<picture, events, drawn, workerVars>>,
         requestFaults' \in 0..MaxRequestFaults,
         lost \subseteq lost', lost' \subseteq drawn, objects' \subseteq drawn,
         \A k \in Keys : k # req[r].new => (k \in objects' <=> k \in objects),
         req[r].pc = "discard" => objects' \subseteq objects,
         req[r].new \in objects' => req[r].new \in lost'
  PROVE  IInv'
<1>1. Change!IdleRequest \in RequestType
  BY DEF Change!IdleRequest, RequestType
<1>2. Change!IdleRequest.new = None /\ Change!IdleRequest.pc = "idle"
  BY DEF Change!IdleRequest
<1>3. RequestOK(Change!IdleRequest)'
  BY <1>2 DEF RequestOK, OwnKey
<1>4. req' = [req EXCEPT ![r] = Change!IdleRequest]
  BY DEF Change!Answer
<1>5. drawn \subseteq drawn' /\ drawn' \subseteq Keys
  BY AtRequest
<1>6. QED
  BY <1>1, <1>2, <1>3, <1>4, <1>5, RequestMove

\* A PUT draws a key nobody has drawn.
LEMMA StartPutStep ==
  ASSUME IInv, UNCHANGED workerVars,
         NEW r \in Requests, NEW u \in Users, NEW k \in Keys, Change!StartPut(r, u, k)
  PROVE  IInv'
<1> DEFINE q == [pc |-> "upload", user |-> u, new |-> k, old |-> picture[u]]
<1>1. /\ req[r].pc = "idle" /\ k \notin drawn /\ drawn' = drawn \union {k}
      /\ req' = [req EXCEPT ![r] = q]
      /\ UNCHANGED <<picture, objects, events, lost, requestFaults>>
  BY DEF Change!StartPut, Change!At
<1>2. req[r].new = None /\ None \notin objects
  BY <1>1, AtRequest DEF RequestOK, Change!IdleRequest
<1>3. q \in RequestType
  BY AtRequest DEF RequestType
<1>4. k # None /\ k \notin objects /\ ~Referenced(k) /\ ~Worker!Scheduled(k)
  BY <1>1, AtRequest
<1>5. RequestOK(q)'
  BY <1>1, <1>4 DEF RequestOK, OwnKey, Referenced, Worker!Scheduled
<1>6. \A s \in Requests : req[s].new # k
  BY <1>1, <1>4, AtRequest DEF RequestOK
<1>7. /\ drawn \subseteq drawn' /\ drawn' \subseteq Keys /\ lost' \subseteq drawn'
      /\ objects' \subseteq drawn' /\ requestFaults' \in 0..MaxRequestFaults
  BY <1>1, AtRequest
<1>8. QED
  BY <1>1, <1>2, <1>3, <1>5, <1>6, <1>7, RequestMove

\* A DELETE draws none.
LEMMA StartDeleteStep ==
  ASSUME IInv, UNCHANGED workerVars,
         NEW r \in Requests, NEW u \in Users, Change!StartDelete(r, u)
  PROVE  IInv'
<1> DEFINE q == [pc |-> "save", user |-> u, new |-> None, old |-> picture[u]]
<1>1. /\ req[r].pc = "idle"
      /\ req' = [req EXCEPT ![r] = q]
      /\ UNCHANGED <<picture, objects, events, drawn, lost, requestFaults>>
  BY DEF Change!StartDelete, Change!At
<1>2. req[r].new = None /\ None \notin objects
  BY <1>1, AtRequest DEF RequestOK, Change!IdleRequest
<1>3. q \in RequestType
  BY AtRequest DEF RequestType
<1>4. RequestOK(q)'
  BY DEF RequestOK, OwnKey
<1>5. /\ drawn \subseteq drawn' /\ drawn' \subseteq Keys /\ lost' \subseteq drawn'
      /\ objects' \subseteq drawn' /\ requestFaults' \in 0..MaxRequestFaults
  BY <1>1, AtRequest
<1>6. QED
  BY <1>1, <1>2, <1>3, <1>4, <1>5, RequestMove

\* A step that only moves a request on keeps what it has drawn apart from the
\* others'.
LEMMA PcMove ==
  ASSUME IInv, UNCHANGED workerVars, NEW r \in Requests,
         NEW pc \in {"save", "commit", "discard"}, req[r].pc \notin {"idle", "discard"},
         req' = [req EXCEPT ![r].pc = pc],
         UNCHANGED <<picture, events, drawn, lost>>,
         requestFaults' \in 0..MaxRequestFaults,
         objects' \in {objects, objects \union {req[r].new}},
         objects' # objects => req[r].new # None,
         pc \in {"save", "commit"} /\ req[r].new # None => req[r].new \in objects',
         pc = "commit" => /\ picture[req[r].user] = req[r].old
                          /\ \A s \in Requests \ {r} :
                                ~(req[s].pc = "commit" /\ req[s].user = req[r].user)
  PROVE  IInv'
<1> SUFFICES ASSUME NEW q, q = [req[r] EXCEPT !.pc = pc]
             PROVE  IInv'
  OBVIOUS
<1>1. req[r] \in RequestType /\ RequestOK(req[r])
  BY AtRequest
<1>2. /\ q \in RequestType /\ q.pc = pc /\ q.new = req[r].new /\ q.user = req[r].user
      /\ q.old = req[r].old
  BY <1>1 DEF RequestType
<1>3. req' = [req EXCEPT ![r] = q]
  OBVIOUS
<1>4. RequestOK(q)'
  BY <1>1, <1>2 DEF RequestOK, OwnKey, Referenced, Worker!Scheduled
<1>5. q.new # None => \A s \in Requests \ {r} : req[s].new # q.new
  BY <1>2 DEF IInv, RequestsApart
<1>6. /\ drawn \subseteq drawn' /\ drawn' \subseteq Keys /\ lost' \subseteq drawn'
      /\ objects' \subseteq drawn'
  BY <1>1, AtRequest DEF RequestOK
<1>7. QED
  BY <1>2, <1>3, <1>4, <1>5, <1>6, RequestMove

\* The steps of a request on its way.
LEMMA ProgressStep ==
  ASSUME IInv, UNCHANGED workerVars, NEW r \in Requests,
         Change!Upload(r) \/ Change!CompareAndSet(r) \/ Change!SaveFails(r)
  PROVE  IInv'
<1>1. RequestOK(req[r]) /\ requestFaults \in 0..MaxRequestFaults
  BY AtRequest
<1>2. CASE Change!Upload(r)
  BY <1>1, <1>2, PcMove DEF Change!Upload, Change!At, RequestOK
<1>3. CASE Change!SaveFails(r)
  <2>1. requestFaults' \in 0..MaxRequestFaults
    BY <1>1, <1>3, BoundsAssumption DEF Change!SaveFails, Change!Fault
  <2>2. QED
    BY <1>3, <2>1, PcMove DEF Change!SaveFails, Change!At
<1>4. CASE Change!CompareAndSet(r)
  <2>1. /\ req[r].pc = "save" /\ ~Change!UserLocked(r)
        /\ UNCHANGED <<picture, objects, events, drawn, lost, requestFaults>>
    BY <1>4 DEF Change!CompareAndSet, Change!At
  <2>2. CASE picture[req[r].user] = req[r].old
    <3>1. req' = [req EXCEPT ![r].pc = "commit"]
      BY <1>4, <2>2 DEF Change!CompareAndSet
    <3>2. QED
      BY <1>1, <2>1, <2>2, <3>1, PcMove DEF RequestOK, Change!UserLocked, Change!At
  <2>3. CASE picture[req[r].user] # req[r].old
    <3>1. req' = [req EXCEPT ![r].pc = "discard"]
      BY <1>4, <2>3 DEF Change!CompareAndSet
    <3>2. QED
      BY <1>1, <2>1, <3>1, PcMove
  <2>4. QED
    BY <2>2, <2>3
<1>5. QED
  BY <1>2, <1>3, <1>4

\* The steps that end a request without changing the profile.
LEMMA EndStep ==
  ASSUME IInv, UNCHANGED workerVars, NEW r \in Requests,
         \/ \E stored \in BOOLEAN : Change!UploadFails(r, stored) \/ Change!Crash(r, stored)
         \/ Change!Discard(r) \/ Change!DiscardFails(r)
  PROVE  IInv'
<1>1. /\ req[r] \in RequestType /\ RequestOK(req[r]) /\ requestFaults \in 0..MaxRequestFaults
      /\ objects \subseteq drawn /\ lost \subseteq drawn
  BY AtRequest
<1>2. req[r].pc = "upload" => req[r].new \in drawn
  BY <1>1 DEF RequestOK
<1>3. ASSUME NEW stored \in BOOLEAN, Change!UploadFails(r, stored) PROVE IInv'
  <2>1. requestFaults' \in 0..MaxRequestFaults
    BY <1>1, <1>3, BoundsAssumption DEF Change!UploadFails, Change!Fault
  <2>2. req[r].new \notin objects
    BY <1>1, <1>3 DEF Change!UploadFails, Change!At, RequestOK
  <2>3. QED
    BY <1>1, <1>2, <1>3, <2>1, <2>2, AnswerMove DEF Change!UploadFails, Change!At
<1>4. ASSUME NEW stored \in BOOLEAN, Change!Crash(r, stored) PROVE IInv'
  <2>1. requestFaults' \in 0..MaxRequestFaults
    BY <1>1, <1>4, BoundsAssumption DEF Change!Crash, Change!Fault
  <2>2. objects' \subseteq drawn /\ objects' \in {objects, objects \union {req[r].new}}
    BY <1>1, <1>2, <1>4 DEF Change!Crash, Change!At
  <2>3. lost' = lost \union ({req[r].new} \intersect objects')
    BY <1>4 DEF Change!Crash
  <2>4. QED
    BY <1>1, <1>4, <2>1, <2>2, <2>3, AnswerMove DEF Change!Crash, Change!At
<1>5. CASE Change!Discard(r)
  BY <1>1, <1>5, AnswerMove DEF Change!Discard
<1>6. CASE Change!DiscardFails(r)
  <2>1. requestFaults' \in 0..MaxRequestFaults
    BY <1>1, <1>6, BoundsAssumption DEF Change!DiscardFails, Change!Fault
  <2>2. QED
    BY <1>1, <1>6, <2>1, AnswerMove DEF Change!DiscardFails, Change!Leave
<1>7. QED
  BY <1>3, <1>4, <1>5, <1>6

\* What the transaction does to the tables: the request's key takes the place
\* of the one it has read, which is scheduled.
LEMMA SaveEffect ==
  ASSUME IInv, NEW r \in Requests, Change!At(r, "commit"), Change!Save(r),
         NEW u, NEW n, NEW o, u = req[r].user, n = req[r].new, o = req[r].old
  PROVE  /\ u \in Users /\ picture[u] = o /\ n \in Keys \union {None} /\ o \in Keys \union {None}
         /\ picture' = [picture EXCEPT ![u] = n]
         /\ o # None => o \in drawn /\ Referenced(o) /\ ~Worker!Scheduled(o)
         /\ ~AmbiguousCommit /\ o # None => o \in objects
         /\ n # None => n \in objects /\ ~Referenced(n) /\ ~Worker!Scheduled(n) /\ n # o
         /\ \A k \in Keys : Referenced(k)' <=> (k = n \/ (Referenced(k) /\ k # o))
         /\ \A k \in Keys : Worker!Scheduled(k)' <=> (Worker!Scheduled(k) \/ k = o)
         /\ \A k \in Keys : Worker!Pending(k) \/ k = o => Worker!Pending(k)'
         /\ events' \in Seq(Worker!Event)
         /\ DOMAIN events \subseteq DOMAIN events'
         /\ \A i \in DOMAIN events : events'[i] = events[i]
         /\ \A i \in DOMAIN events' \ DOMAIN events :
              events'[i].key = o /\ ~events'[i].done /\ i = Len(events) + 1
<1>1. /\ req[r].pc = "commit" /\ req[r] \in RequestType /\ RequestOK(req[r])
      /\ picture \in [Users -> Keys \union {None}] /\ objects \subseteq Keys /\ None \notin Keys
  BY AtRequest DEF Change!At
<1>2. /\ u \in Users /\ picture[u] = o /\ n \in Keys \union {None} /\ o \in Keys \union {None}
      /\ n # None => n \in objects /\ ~Referenced(n) /\ ~Worker!Scheduled(n)
  BY <1>1 DEF RequestOK, OwnKey, RequestType
<1>3. /\ o # None => o \in drawn /\ Referenced(o) /\ ~Worker!Scheduled(o)
      /\ ~AmbiguousCommit /\ o # None => o \in objects
  BY <1>2 DEF IInv, TablesOK, PictureIntact, ScheduledOnceAndUnreferenced, Worker!Scheduled,
              Referenced
<1>4. n # None => n # o
  BY <1>2, <1>3
<1>5. /\ picture' = [picture EXCEPT ![u] = n]
      /\ events' = IF o = None THEN events ELSE Append(events, Worker!NewEvent(o))
  BY DEF Change!Save, NewEvent
<1>6. ASSUME NEW k \in Keys PROVE Referenced(k)' <=> (k = n \/ (Referenced(k) /\ k # o))
  <2>1. \A v \in Users : picture'[v] = IF v = u THEN n ELSE picture[v]
    BY <1>1, <1>2, <1>5
  <2>2. \A v \in Users : picture[v] = o /\ o # None => v = u
    BY <1>2 DEF IInv, TablesOK
  <2>3. k # None
    BY <1>1
  <2>4. QED
    BY <1>2, <2>1, <2>2, <2>3 DEF Referenced
<1>7. /\ events' \in Seq(Worker!Event)
      /\ DOMAIN events \subseteq DOMAIN events'
      /\ \A i \in DOMAIN events : events'[i] = events[i]
      /\ \A i \in DOMAIN events' \ DOMAIN events :
           events'[i].key = o /\ ~events'[i].done /\ i = Len(events) + 1
      /\ o # None => Len(events) + 1 \in DOMAIN events' /\ events'[Len(events) + 1].key = o
                     /\ ~events'[Len(events) + 1].done
  <2>1. /\ events \in Seq(Worker!Event) /\ Len(events) \in Nat /\ DOMAIN events = 1..Len(events)
    BY AtWorkers
  <2>2. CASE o = None
    BY <1>5, <2>1, <2>2
  <2>3. CASE o # None
    <3>1. Worker!NewEvent(o) \in Worker!Event /\ Worker!NewEvent(o).key = o
          /\ ~Worker!NewEvent(o).done
      BY <1>2, <2>3, BoundsAssumption DEF Worker!NewEvent, Worker!Event
    <3>2. /\ events' \in Seq(Worker!Event) /\ Len(events') = Len(events) + 1
          /\ \A i \in 1..Len(events) : events'[i] = events[i]
          /\ events'[Len(events) + 1] = Worker!NewEvent(o)
      BY <1>5, <2>1, <2>3, <3>1, AppendProperties
    <3>3. DOMAIN events' = 1..(Len(events) + 1)
      BY <3>2, LenProperties
    <3>4. QED
      BY <2>1, <2>3, <3>1, <3>2, <3>3
  <2>4. QED
    BY <2>2, <2>3
<1>8. \A k \in Keys : Worker!Scheduled(k)' <=> (Worker!Scheduled(k) \/ k = o)
  BY <1>1, <1>7 DEF Worker!Scheduled
<1>9. \A k \in Keys : Worker!Pending(k) \/ k = o => Worker!Pending(k)'
  BY <1>1, <1>7 DEF Worker!Pending
<1>10. QED
  BY <1>2, <1>3, <1>4, <1>5, <1>6, <1>7, <1>8, <1>9

\* It replaces one user's picture and schedules the old one in one step, after
\* which the request holds nothing, or may hold what is a picture now.
LEMMA SaveStep ==
  ASSUME IInv, UNCHANGED workerVars, NEW r \in Requests, NEW q \in RequestType,
         Change!At(r, "commit"), Change!Save(r),
         req' = [req EXCEPT ![r] = q],
         q.pc # "commit", q.new \in {None, req[r].new}, RequestOK(q)',
         UNCHANGED <<objects, drawn, lost>>, requestFaults' \in 0..MaxRequestFaults
  PROVE  IInv'
<1> SUFFICES ASSUME NEW u, NEW n, NEW o, u = req[r].user, n = req[r].new, o = req[r].old
             PROVE  IInv'
  OBVIOUS
<1>1. /\ u \in Users /\ picture[u] = o /\ n \in Keys \union {None} /\ o \in Keys \union {None}
      /\ picture' = [picture EXCEPT ![u] = n]
      /\ o # None => o \in drawn /\ Referenced(o) /\ ~Worker!Scheduled(o)
      /\ n # None => n \in objects /\ ~Referenced(n) /\ ~Worker!Scheduled(n) /\ n # o
      /\ \A k \in Keys : Referenced(k)' <=> (k = n \/ (Referenced(k) /\ k # o))
      /\ \A k \in Keys : Worker!Scheduled(k)' <=> (Worker!Scheduled(k) \/ k = o)
      /\ \A k \in Keys : Worker!Pending(k) \/ k = o => Worker!Pending(k)'
  BY SaveEffect
<1>2. /\ events' \in Seq(Worker!Event)
      /\ DOMAIN events \subseteq DOMAIN events'
      /\ \A i \in DOMAIN events : events'[i] = events[i]
      /\ \A i \in DOMAIN events' \ DOMAIN events :
           events'[i].key = o /\ ~events'[i].done /\ i = Len(events) + 1
      /\ UNCHANGED <<objects, drawn, lost>>
  BY SaveEffect
<1>3. /\ req \in [Requests -> RequestType] /\ picture \in [Users -> Keys \union {None}]
      /\ objects \subseteq Keys /\ objects \subseteq drawn /\ drawn \subseteq Keys /\ None \notin Keys
      /\ \A i \in DOMAIN events : events[i].key \in Keys
  BY AtRequest, AtWorkers
<1>5. /\ req' \in [Requests -> RequestType]
      /\ \A s \in Requests : req'[s] = IF s = r THEN q ELSE req[s]
  BY <1>3
<1>6. /\ picture' \in [Users -> Keys \union {None}]
      /\ \A v \in Users : picture'[v] = IF v = u THEN n ELSE picture[v]
  BY <1>1, <1>3
<1>7. TypeOK'
  <2>1. Change!TypeOK'
    BY <1>2, <1>5, <1>6 DEF IInv, TypeOK, Change!TypeOK, RequestType
  <2>2. Worker!TypeOK'
    BY <1>2 DEF IInv, TypeOK, Worker!TypeOK, workerVars
  <2>3. QED
    BY <2>1, <2>2 DEF TypeOK
<1>8. req[r].pc = "commit"
  BY DEF Change!At
<1>9. ASSUME NEW s \in Requests PROVE RequestOK(req[s])'
  <2>1. CASE s = r
    BY <1>5, <2>1 DEF RequestOK, OwnKey, Referenced, Worker!Scheduled
  <2>2. CASE s # r
    <3>1. req'[s] = req[s] /\ req[s] \in RequestType /\ RequestOK(req[s])
      BY <1>5, <2>2, AtRequest
    <3>2. OwnKey(req[s]) => /\ req[s].new \in Keys /\ req[s].new # n
                            /\ ~Referenced(req[s].new) /\ req[s].new # o
                            /\ ~Worker!Scheduled(req[s].new)
      BY <1>1, <2>2, <3>1 DEF IInv, RequestsApart, RequestOK, OwnKey, RequestType
    <3>3. OwnKey(req[s]) => ~Referenced(req[s].new)' /\ ~Worker!Scheduled(req[s].new)'
      BY <1>1, <3>1, <3>2
    <3>4. req[s].pc = "commit" => picture'[req[s].user] = req[s].old
      <4>1. req[s].pc = "commit" => req[s].user # u /\ req[s].user \in Users
        BY <1>8, <2>2, <3>1 DEF IInv, RequestsApart, RequestOK
      <4>2. QED
        BY <1>6, <3>1, <4>1 DEF RequestOK
    <3>5. QED
      BY <1>2, <3>1, <3>3, <3>4 DEF RequestOK, OwnKey
  <2>3. QED
    BY <2>1, <2>2
<1>10. RequestsApart'
  BY <1>5 DEF IInv, RequestsApart
<1>11. TablesOK'
  <2>1. \A v, w \in Users : picture'[v] = picture'[w] /\ picture'[v] # None => v = w
    BY <1>1, <1>6 DEF IInv, TablesOK, Referenced
  <2>4. \A v \in Users : picture'[v] # None => picture'[v] \in drawn
    BY <1>1, <1>3, <1>6 DEF IInv, TablesOK
  <2>2. ASSUME NEW i \in DOMAIN events'
        PROVE  events'[i].key \in drawn /\ (events'[i].done => events'[i].key \notin objects)
    <3>1. CASE i \in DOMAIN events
      BY <1>2, <3>1 DEF IInv, TablesOK
    <3>2. CASE i \notin DOMAIN events
      <4>1. o # None
        BY <2>2, <3>2 DEF Change!Save
      <4>2. QED
        BY <1>1, <1>2, <1>3, <2>2, <3>2, <4>1
    <3>3. QED
      BY <3>1, <3>2
  <2>3. QED
    BY <1>2, <2>1, <2>2, <2>4 DEF TablesOK
<1>12. WorkersOK'
  <2>1. ASSUME NEW w \in Workers, worker[w].batch # {}
        PROVE  /\ Worker!Current(w)' = Worker!Current(w)
               /\ events'[Worker!Current(w)] = events[Worker!Current(w)]
    BY <1>2, <2>1, AtWorkers DEF Worker!Current, workerVars
  <2>2. QED
    BY <1>2, <2>1 DEF IInv, WorkersOK, workerVars
<1>13. ~AmbiguousCommit => PictureIntact'
  BY <1>1, <1>2, <1>6 DEF IInv, PictureIntact
<1>14. ScheduledOnceAndUnreferenced'
  <2>1. ASSUME NEW i \in DOMAIN events
        PROVE  /\ events[i].key \in Keys /\ Worker!Scheduled(events[i].key)
               /\ ~Referenced(events[i].key) /\ events[i].key # n /\ events[i].key # o
    BY <1>1, <1>3 DEF IInv, ScheduledOnceAndUnreferenced, Worker!Scheduled
  <2>2. \A i \in DOMAIN events' \ DOMAIN events : o \in Keys
    BY <1>1, <1>2 DEF Change!Save
  <2>3. ASSUME NEW i \in DOMAIN events', NEW v \in Users
        PROVE  picture'[v] # events'[i].key
    <3>1. CASE i \in DOMAIN events
      BY <1>2, <1>6, <2>1, <3>1 DEF Referenced
    <3>2. CASE i \notin DOMAIN events
      <4>1. events'[i].key = o /\ o \in Keys /\ n # o
        BY <1>1, <1>2, <1>3, <2>2, <3>2
      <4>2. picture[v] = o => v = u
        BY <1>1, <1>3, <4>1 DEF IInv, TablesOK
      <4>3. QED
        BY <1>6, <4>1, <4>2
    <3>3. QED
      BY <3>1, <3>2
  <2>4. \A i, j \in DOMAIN events' : events'[i].key = events'[j].key => i = j
    BY <1>2, <2>1 DEF IInv, ScheduledOnceAndUnreferenced
  <2>5. QED
    BY <2>3, <2>4 DEF ScheduledOnceAndUnreferenced, Referenced
<1>15. EveryObjectAccountedFor'
  <2>1. ASSUME NEW k \in objects
        PROVE  Referenced(k)' \/ Worker!Pending(k)' \/ k \in lost
               \/ \E s \in Requests : req'[s].new = k
    <3>1. k \in Keys
      BY <1>3
    <3>2. CASE Referenced(k)
      BY <1>1, <3>1, <3>2
    <3>3. CASE Worker!Pending(k)
      BY <1>1, <3>1, <3>3
    <3>4. ASSUME NEW s \in Requests, req[s].new = k
          PROVE  Referenced(k)' \/ req'[s].new = k
      BY <1>1, <1>5, <3>1, <3>4
    <3>5. QED
      BY <3>2, <3>3, <3>4 DEF IInv, EveryObjectAccountedFor, InFlight
  <2>2. QED
    BY <1>2, <2>1 DEF EveryObjectAccountedFor, InFlight
<1>16. QED
  BY <1>7, <1>9, <1>10, <1>11, <1>12, <1>13, <1>14, <1>15 DEF IInv

\* A commit ends its request, unless the answer to it was lost.
LEMMA CommitStep ==
  ASSUME IInv, UNCHANGED workerVars, NEW r \in Requests,
         Change!Commit(r) \/ Change!CommitUnreported(r)
  PROVE  IInv'
<1>1. /\ Change!At(r, "commit") /\ req[r].pc = "commit" /\ Change!Save(r)
      /\ UNCHANGED <<objects, drawn, lost>>
  BY DEF Change!Commit, Change!CommitUnreported, Change!At
<1>2. /\ req[r] \in RequestType /\ RequestOK(req[r]) /\ requestFaults \in 0..MaxRequestFaults
  BY AtRequest
<1>3. CASE Change!Commit(r)
  <2> SUFFICES ASSUME NEW q, q = Change!IdleRequest PROVE IInv'
    OBVIOUS
  <2>1. q \in RequestType /\ q.pc = "idle" /\ q.new = None
    BY DEF Change!IdleRequest, RequestType
  <2>2. RequestOK(q)'
    BY <2>1 DEF RequestOK, OwnKey
  <2>3. req' = [req EXCEPT ![r] = q] /\ requestFaults' = requestFaults
    BY <1>3 DEF Change!Commit, Change!Answer
  <2>4. QED
    BY <1>1, <1>2, <2>1, <2>2, <2>3, SaveStep
<1>4. CASE Change!CommitUnreported(r)
  <2> SUFFICES ASSUME NEW q, q = [req[r] EXCEPT !.pc = "discard"] PROVE IInv'
    OBVIOUS
  <2>1. q \in RequestType /\ q.pc = "discard" /\ q.new = req[r].new /\ q.user = req[r].user
    BY <1>2 DEF RequestType
  <2>2. AmbiguousCommit /\ requestFaults' \in 0..MaxRequestFaults
    BY <1>2, <1>4, BoundsAssumption DEF Change!CommitUnreported, Change!Fault
  <2>3. RequestOK(q)'
    BY <1>1, <1>2, <2>1, <2>2 DEF RequestOK, OwnKey
  <2>4. req' = [req EXCEPT ![r] = q]
    BY <1>4 DEF Change!CommitUnreported
  <2>5. QED
    BY <1>1, <2>1, <2>2, <2>3, <2>4, SaveStep
<1>5. QED
  BY <1>3, <1>4

-------------------------------------------------------------------------------
(* Steps of a worker *)

WorkerType == [pc : {"idle", "handle", "complete", "fail"}, batch : SUBSET (DOMAIN events)]

\* Entries of the outbox that are replaced by others still make an outbox.
LEMMA SameLength ==
  ASSUME NEW n \in Nat, NEW e, e \in [1..n -> Worker!Event]
  PROVE  e \in Seq(Worker!Event) /\ DOMAIN e = 1..n
<1>1. e \in UNION {[1..m -> Worker!Event] : m \in Nat}
  OBVIOUS
<1>2. QED
  BY <1>1, SeqDef

\* A step of a worker that deletes only scheduled objects and marks only events
\* whose object is gone preserves the invariant.
LEMMA WorkerMove ==
  ASSUME IInv, UNCHANGED requestVars,
         events' \in Seq(Worker!Event), DOMAIN events' = DOMAIN events,
         \A i \in DOMAIN events :
            /\ events'[i].key = events[i].key
            /\ events'[i].done => events[i].done \/ events[i].key \notin objects,
         objects' \subseteq objects,
         \A k \in objects \ objects' : Worker!Scheduled(k),
         worker' \in [Workers -> WorkerType],
         \A w \in Workers :
            /\ worker'[w].pc = "idle" => worker'[w].batch = {}
            /\ worker'[w].pc = "complete" =>
                 /\ worker'[w].batch = worker[w].batch
                 /\ \/ worker[w].pc = "complete"
                    \/ events[Worker!Current(w)].key \notin objects',
         tries' \in [Keys -> Nat],
         workerFaults' \in 0..MaxWorkerFaults
  PROVE  IInv'
<1>1. \A k \in Keys : Worker!Scheduled(k)' <=> Worker!Scheduled(k)
  BY DEF Worker!Scheduled
<1>2. \A k \in Keys : Referenced(k)' <=> Referenced(k)
  BY DEF Referenced, requestVars
<1>3. ASSUME NEW k \in objects, ~Worker!Scheduled(k) PROVE k \in objects'
  BY <1>3
<1>4. objects \subseteq Keys /\ objects \subseteq drawn /\ None \notin Keys
  BY AtRequest, NoneAssumption DEF IInv, TypeOK, Change!TypeOK
<1>5. TypeOK'
  <2>1. Change!TypeOK'
    BY <1>4 DEF IInv, TypeOK, Change!TypeOK, requestVars
  <2>2. objects' \subseteq Keys
    BY <1>4
  <2>3. Worker!TypeOK'
    BY <2>2 DEF WorkerType, Worker!TypeOK
  <2>4. QED
    BY <2>1, <2>3 DEF TypeOK
<1>6. ASSUME NEW r \in Requests PROVE RequestOK(req[r])'
  <2>1. RequestOK(req[r]) /\ req[r] \in RequestType
    BY AtRequest
  <2>2. req[r].new # None => req[r].new \in Keys
    BY <2>1 DEF RequestType
  <2>3. OwnKey(req[r]) => ~Worker!Scheduled(req[r].new)
    BY <2>1 DEF RequestOK
  <2>4. OwnKey(req[r]) /\ req[r].new \in objects => req[r].new \in objects'
    BY <1>3, <2>3
  <2>5. QED
    BY <2>1, <2>4 DEF RequestOK, OwnKey, Referenced, Worker!Scheduled, requestVars
<1>7. RequestsApart'
  BY DEF IInv, RequestsApart, requestVars
<1>8. TablesOK'
  BY DEF IInv, TablesOK, requestVars
<1>9. WorkersOK'
  <2>1. ASSUME NEW w \in Workers, worker'[w].pc = "complete", worker'[w].batch # {}
        PROVE  events'[Worker!Current(w)'].key \notin objects'
    <3>1. worker'[w].batch = worker[w].batch
      BY <2>1
    <3>2. Worker!Current(w)' = Worker!Current(w) /\ Worker!Current(w) \in DOMAIN events
      BY <2>1, <3>1, AtWorkers DEF Worker!Current
    <3>3. events[Worker!Current(w)].key \notin objects'
      BY <2>1, <3>1 DEF IInv, WorkersOK
    <3>4. QED
      BY <3>2, <3>3
  <2>2. QED
    BY <2>1 DEF WorkersOK
<1>10. ASSUME ~AmbiguousCommit PROVE PictureIntact'
  <2>1. ASSUME NEW u \in Users, picture[u] # None PROVE picture[u] \in objects'
    <3>1. picture[u] \in objects /\ picture[u] \in Keys
      BY <1>4, <1>10, <2>1 DEF IInv, PictureIntact
    <3>2. ~Worker!Scheduled(picture[u])
      BY DEF IInv, ScheduledOnceAndUnreferenced, Referenced, Worker!Scheduled
    <3>3. QED
      BY <1>3, <3>1, <3>2
  <2>2. QED
    BY <2>1 DEF PictureIntact, requestVars
<1>11. ScheduledOnceAndUnreferenced'
  BY DEF IInv, ScheduledOnceAndUnreferenced, Referenced, requestVars
<1>12. EveryObjectAccountedFor'
  <2>1. ASSUME NEW k \in objects', Worker!Pending(k) PROVE Worker!Pending(k)'
    BY <2>1 DEF Worker!Pending
  <2>2. QED
    BY <2>1 DEF IInv, EveryObjectAccountedFor, Referenced, InFlight, requestVars
<1>13. QED
  BY <1>5, <1>6, <1>7, <1>8, <1>9, <1>10, <1>11, <1>12 DEF IInv

\* What the invariant says of the workers and their events, as a step needs it.
LEMMA WorkersTyped ==
  ASSUME IInv
  PROVE  /\ worker \in [Workers -> WorkerType]
         /\ \A w \in Workers : worker[w].pc = "idle" => worker[w].batch = {}
         /\ tries \in [Keys -> Nat] /\ workerFaults \in 0..MaxWorkerFaults
BY AtWorkers DEF IInv, TypeOK, Worker!TypeOK, WorkersOK, WorkerType

\* A lease that lapses changes no key and completes nothing.
LEMMA LeaseLapsesStep ==
  ASSUME IInv, UNCHANGED requestVars, NEW i \in DOMAIN events, Worker!LeaseLapses(i)
  PROVE  IInv'
<1> SUFFICES ASSUME NEW e, e = [events[i] EXCEPT !.lease = "lapsed"]
             PROVE  IInv'
  OBVIOUS
<1>1. /\ Len(events) \in Nat /\ DOMAIN events = 1..Len(events)
      /\ \A j \in DOMAIN events : events[j] \in Worker!Event
      /\ events = [j \in DOMAIN events |-> events[j]]
  BY AtWorkers, LenProperties
<1>2. e \in Worker!Event /\ e.key = events[i].key /\ e.done = events[i].done
  BY <1>1 DEF Worker!Event
<1>3. events' = [events EXCEPT ![i] = e] /\ UNCHANGED <<objects, worker, tries, workerFaults>>
  BY DEF Worker!LeaseLapses
<1>4. \A j \in DOMAIN events : events'[j] = IF j = i THEN e ELSE events[j]
  BY <1>3
<1>5. events' \in [1..Len(events) -> Worker!Event]
  BY <1>1, <1>2, <1>3
<1>6. events' \in Seq(Worker!Event) /\ DOMAIN events' = DOMAIN events
  BY <1>1, <1>5, SameLength
<1>7. QED
  BY <1>2, <1>3, <1>4, <1>6, WorkersTyped, WorkerMove

\* A claim takes events and leases them, and completes none.
LEMMA ClaimStep ==
  ASSUME IInv, UNCHANGED requestVars, NEW w \in Workers, Worker!Claim(w)
  PROVE  IInv'
<1> SUFFICES ASSUME NEW B, B = Worker!NextBatch
             PROVE  IInv'
  OBVIOUS
<1>1. /\ Len(events) \in Nat /\ DOMAIN events = 1..Len(events)
      /\ \A j \in DOMAIN events : events[j] \in Worker!Event
  BY AtWorkers
<1>2. B \subseteq DOMAIN events /\ \A j \in B : events[j].attempts < MaxAttempts
  BY DEF Worker!NextBatch, Worker!Ready, Worker!Claimable
<1>3. /\ worker' = [worker EXCEPT ![w] = [pc |-> "handle", batch |-> B]]
      /\ events' = [i \in DOMAIN events |->
                      IF i \in B THEN [events[i] EXCEPT !.attempts = @ + 1, !.lease = "held"]
                                 ELSE events[i]]
      /\ UNCHANGED <<objects, tries, workerFaults>>
  BY DEF Worker!Claim
<1>4. ASSUME NEW j \in DOMAIN events
      PROVE  events'[j] \in Worker!Event /\ events'[j].key = events[j].key
             /\ events'[j].done = events[j].done
  <2>1. CASE j \in B
    <3>1. /\ events'[j] = [events[j] EXCEPT !.attempts = events[j].attempts + 1, !.lease = "held"]
          /\ events[j].attempts < MaxAttempts
      BY <1>2, <1>3, <2>1
    <3>2. /\ events[j].key \in Keys /\ events[j].attempts + 1 \in 0..MaxAttempts
          /\ events[j].done \in BOOLEAN
          /\ DOMAIN events[j] = {"key", "attempts", "lease", "done"}
          /\ events[j] = [key |-> events[j].key, attempts |-> events[j].attempts,
                          lease |-> events[j].lease, done |-> events[j].done]
      BY <1>1, <3>1, BoundsAssumption DEF Worker!Event
    <3>3. events'[j] = [key |-> events[j].key, attempts |-> events[j].attempts + 1,
                        lease |-> "held", done |-> events[j].done]
      BY <3>1, <3>2
    <3>4. QED
      BY <3>2, <3>3 DEF Worker!Event
  <2>2. CASE j \notin B
    BY <1>1, <1>3, <2>2
  <2>3. QED
    BY <2>1, <2>2
<1>5. events' \in [1..Len(events) -> Worker!Event]
  BY <1>1, <1>3, <1>4
<1>6. events' \in Seq(Worker!Event) /\ DOMAIN events' = DOMAIN events
  BY <1>1, <1>5, SameLength
<1>7. /\ worker' \in [Workers -> WorkerType]
      /\ \A v \in Workers : \/ worker'[v] = worker[v]
                            \/ worker'[v] = [pc |-> "handle", batch |-> B]
  BY <1>2, <1>3, WorkersTyped DEF WorkerType
<1>8. QED
  BY <1>3, <1>4, <1>6, <1>7, WorkersTyped, WorkerMove

\* A deletion takes one scheduled object, and its worker completes the event
\* only if the object is gone.
LEMMA DeleteStep ==
  ASSUME IInv, UNCHANGED requestVars, NEW w \in Workers,
         Worker!Delete(w) \/ Worker!DeleteFails(w)
  PROVE  IInv'
<1> SUFFICES ASSUME NEW k, k = events[Worker!Current(w)].key
             PROVE  IInv'
  OBVIOUS
<1>1. worker[w].pc = "handle" /\ worker[w].batch # {} /\ UNCHANGED events
  BY DEF Worker!Delete, Worker!DeleteFails, Worker!Handling
<1>2. k \in Keys /\ Worker!Scheduled(k) /\ Worker!Current(w) \in DOMAIN events
  BY <1>1, AtWorkers
<1>3. /\ objects' \subseteq objects /\ objects \ objects' \subseteq {k}
      /\ Worker!Delete(w) => k \notin objects'
  BY DEF Worker!Delete, Worker!DeleteFails
<1>4. tries' = [tries EXCEPT ![k] = tries[k] + 1] /\ workerFaults' \in 0..MaxWorkerFaults
  BY WorkersTyped, BoundsAssumption
  DEF Worker!Delete, Worker!DeleteFails, Worker!Try, Worker!Fault
<1>5. tries' \in [Keys -> Nat]
  BY <1>2, <1>4, WorkersTyped
<1>6. \/ worker' = [worker EXCEPT ![w].pc = "complete"] /\ k \notin objects'
      \/ worker' = [worker EXCEPT ![w].pc = "fail"]
  BY <1>3 DEF Worker!Delete, Worker!DeleteFails
<1>7. worker' \in [Workers -> WorkerType]
  BY <1>6, WorkersTyped DEF WorkerType
<1>8. ASSUME NEW v \in Workers
      PROVE  /\ worker'[v].pc = "idle" => worker'[v].batch = {}
             /\ worker'[v].pc = "complete" =>
                  /\ worker'[v].batch = worker[v].batch
                  /\ worker[v].pc = "complete" \/ events[Worker!Current(v)].key \notin objects'
  <2>1. CASE v = w
    <3>1. worker[w] \in WorkerType
      BY WorkersTyped
    <3>2. \/ worker'[w].pc = "complete" /\ worker'[w].batch = worker[w].batch /\ k \notin objects'
          \/ worker'[w].pc = "fail"
      BY <1>6, <3>1, WorkersTyped DEF WorkerType
    <3>3. QED
      BY <2>1, <3>2
  <2>2. CASE v # w
    BY <1>6, <2>2, WorkersTyped DEF WorkerType
  <2>3. QED
    BY <2>1, <2>2
<1>9. events' \in Seq(Worker!Event) /\ DOMAIN events' = DOMAIN events
  BY <1>1, AtWorkers
<1>10. QED
  BY <1>1, <1>2, <1>3, <1>4, <1>5, <1>7, <1>8, <1>9, WorkerMove

\* A worker that leaves an event, marked processed or not, has no more than the
\* rest of its batch.
LEMMA AdvanceStep ==
  ASSUME IInv, UNCHANGED requestVars, NEW w \in Workers, Worker!Complete(w) \/ Worker!Fail(w)
  PROVE  IInv'
<1> SUFFICES ASSUME NEW c, c = Worker!Current(w),
                    NEW e, e = [events[c] EXCEPT !.done = TRUE, !.lease = "none"],
                    NEW x, x = [pc |-> IF worker[w].batch \ {c} = {} THEN "idle" ELSE "handle",
                                batch |-> worker[w].batch \ {c}]
             PROVE  IInv'
  OBVIOUS
<1>1. /\ worker[w].pc \in {"complete", "fail"} /\ worker[w].batch # {}
      /\ worker' = [worker EXCEPT ![w] = x]
      /\ UNCHANGED <<objects, tries, workerFaults>>
      /\ \/ events' = events
         \/ worker[w].pc = "complete" /\ events' = [events EXCEPT ![c] = e]
  BY DEF Worker!Complete, Worker!Fail, Worker!Handling, Worker!Advance
<1>2. /\ Len(events) \in Nat /\ DOMAIN events = 1..Len(events) /\ events \in Seq(Worker!Event)
      /\ c \in DOMAIN events
      /\ \A j \in DOMAIN events : events[j] \in Worker!Event
  BY <1>1, AtWorkers
<1>3. e \in Worker!Event /\ e.key = events[c].key
  BY <1>2 DEF Worker!Event
<1>4. worker[w].pc = "complete" => events[c].key \notin objects
  BY <1>1 DEF IInv, WorkersOK
<1>5. /\ events' \in Seq(Worker!Event) /\ DOMAIN events' = DOMAIN events
      /\ \A i \in DOMAIN events :
            /\ events'[i].key = events[i].key
            /\ events'[i].done => events[i].done \/ events[i].key \notin objects
  <2>1. CASE events' = events
    BY <1>2, <2>1
  <2>2. CASE worker[w].pc = "complete" /\ events' = [events EXCEPT ![c] = e]
    <3>1. \A j \in DOMAIN events : events'[j] = IF j = c THEN e ELSE events[j]
      BY <2>2
    <3>2. events' \in [1..Len(events) -> Worker!Event]
      BY <1>2, <1>3, <2>2, LenProperties
    <3>3. QED
      BY <1>2, <1>3, <1>4, <2>2, <3>1, <3>2, SameLength
  <2>3. QED
    BY <1>1, <2>1, <2>2
<1>6. x \in WorkerType /\ x.pc \in {"idle", "handle"} /\ (x.pc = "idle" => x.batch = {})
  BY WorkersTyped DEF WorkerType
<1>7. /\ worker' \in [Workers -> WorkerType]
      /\ \A v \in Workers : worker'[v] = IF v = w THEN x ELSE worker[v]
  BY <1>1, <1>6, WorkersTyped
<1>8. QED
  BY <1>1, <1>5, <1>6, <1>7, WorkersTyped, WorkerMove

\* A batch that is abandoned is left as it is.
LEMMA AbandonStep ==
  ASSUME IInv, UNCHANGED requestVars, NEW w \in Workers, Worker!Abandon(w)
  PROVE  IInv'
<1>1. /\ worker' = [worker EXCEPT ![w] = Worker!IdleWorker]
      /\ workerFaults' \in 0..MaxWorkerFaults
      /\ UNCHANGED <<events, objects, tries>>
  BY WorkersTyped, BoundsAssumption DEF Worker!Abandon, Worker!Fault
<1>2. /\ Worker!IdleWorker \in WorkerType /\ Worker!IdleWorker.pc = "idle"
      /\ Worker!IdleWorker.batch = {}
  BY DEF Worker!IdleWorker, WorkerType
<1>3. /\ worker' \in [Workers -> WorkerType]
      /\ \A v \in Workers : worker'[v] = IF v = w THEN Worker!IdleWorker ELSE worker[v]
  BY <1>1, <1>2, WorkersTyped
<1>4. events' \in Seq(Worker!Event) /\ DOMAIN events' = DOMAIN events
  BY <1>1, AtWorkers
<1>5. QED
  BY <1>1, <1>2, <1>3, <1>4, WorkersTyped, WorkerMove

-------------------------------------------------------------------------------
\* Every step preserves the invariant.
LEMMA NextInvariant == IInv /\ [Next]_vars => IInv'
<1> SUFFICES ASSUME IInv, [Next]_vars PROVE IInv'
  OBVIOUS
<1>1. ASSUME NEW r \in Requests, UNCHANGED workerVars,
             \/ \E u \in Users : Change!StartDelete(r, u) \/ \E k \in Keys : Change!StartPut(r, u, k)
             \/ Change!RequestStep(r)
             \/ Change!RequestFault(r)
      PROVE  IInv'
  <2>1. QED
    BY <1>1, StartPutStep, StartDeleteStep, ProgressStep, EndStep, CommitStep
    DEF Change!RequestStep, Change!RequestFault
<1>2. CASE Change!Next /\ UNCHANGED workerVars
  BY <1>1, <1>2 DEF Change!Next
<1>3. CASE Worker!WorkerNext /\ UNCHANGED requestVars
  BY <1>3, ClaimStep, DeleteStep, AdvanceStep, AbandonStep, LeaseLapsesStep
  DEF Worker!WorkerNext, Worker!WorkerStep
<1>4. CASE UNCHANGED vars
  <2>1. IInv' <=> IInv
    BY <1>4 DEF vars, requestVars, workerVars, IInv, TypeOK, Change!TypeOK, Worker!TypeOK,
                RequestOK, OwnKey, RequestsApart, TablesOK, WorkersOK, PictureIntact,
                ScheduledOnceAndUnreferenced, EveryObjectAccountedFor, Referenced, InFlight,
                Worker!Scheduled, Worker!Pending, Worker!Current, Worker!Event
  <2>2. QED
    BY <2>1
<1>5. QED
  BY <1>2, <1>3, <1>4 DEF Next

\* The invariant holds in every reachable state.
THEOREM Invariant == Spec => []IInv
<1>1. IInv /\ [Next]_vars => IInv'
  BY NextInvariant
<1>2. QED
  BY <1>1, InitInvariant, PTL DEF Spec

\* Type correctness of requests, profiles, bucket and outbox.
THEOREM TypeCorrect == Spec => []TypeOK
<1>1. IInv => TypeOK
  BY DEF IInv
<1>2. QED
  BY <1>1, Invariant, PTL

\* No broken pictures (PictureIntact), if a COMMIT that took effect is never
\* reported as an error: the object a profile names is in the bucket, whatever
\* other changes, discarded uploads and late workers delete.
THEOREM NoBrokenPictures ==
  ASSUME ~AmbiguousCommit
  PROVE  Spec => []PictureIntact
<1>1. IInv => PictureIntact
  BY DEF IInv
<1>2. QED
  BY <1>1, Invariant, PTL

\* A replaced picture is scheduled once and is nobody's again, even when a
\* COMMIT that took effect is reported as an error
\* (ScheduledOnceAndUnreferenced).
THEOREM RetiredOnce == Spec => []ScheduledOnceAndUnreferenced
<1>1. IInv => ScheduledOnceAndUnreferenced
  BY DEF IInv
<1>2. QED
  BY <1>1, Invariant, PTL

\* No object is forgotten (EveryObjectAccountedFor): each stored one is a
\* picture, is to be deleted, belongs to a request, or was left by a failure,
\* also when a COMMIT that took effect is reported as an error.
THEOREM NothingForgotten == Spec => []EveryObjectAccountedFor
<1>1. IInv => EveryObjectAccountedFor
  BY DEF IInv
<1>2. QED
  BY <1>1, Invariant, PTL

-------------------------------------------------------------------------------
(* How a picture can be lost *)

\* No picture is lost in the step.
KeepsPictures == \A u \in Users : /\ picture'[u] = picture[u]
                                  /\ picture[u] \in objects => picture[u] \in objects'

\* What PicturesLostInDoubtOnly says of one step.
LostInDoubtOnly ==
    \A u \in Users :
        \/ picture'[u] \in objects' \union {None}
        \/ picture'[u] = picture[u] /\ picture[u] \notin objects
        \/ /\ AmbiguousCommit
           /\ \E r \in Requests : Change!Discard(r) /\ req[r].new = picture'[u]

\* A save puts a stored object in the place of another.
LEMMA SavedIsStored ==
  ASSUME IInv, NEW r \in Requests, Change!Commit(r) \/ Change!CommitUnreported(r)
  PROVE  LostInDoubtOnly
<1> SUFFICES ASSUME NEW u, NEW n, NEW o, u = req[r].user, n = req[r].new, o = req[r].old,
                    NEW v \in Users
             PROVE  \/ picture'[v] \in objects' \union {None}
                    \/ picture'[v] = picture[v] /\ picture[v] \notin objects
  BY DEF LostInDoubtOnly
<1>1. Change!At(r, "commit") /\ Change!Save(r) /\ UNCHANGED objects
  BY DEF Change!Commit, Change!CommitUnreported
<1>2. picture' = [picture EXCEPT ![u] = n] /\ n \in objects \union {None}
  BY <1>1, SaveEffect
<1>3. picture'[v] = IF v = u THEN n ELSE picture[v]
  BY <1>2, AtRequest
<1>4. QED
  BY <1>1, <1>2, <1>3

\* A discard takes a picture only from a save that was in doubt.
LEMMA DiscardInDoubt ==
  ASSUME IInv, NEW r \in Requests, Change!Discard(r)
  PROVE  LostInDoubtOnly
<1> SUFFICES ASSUME NEW u \in Users, picture[u] \in objects, picture[u] \notin objects'
             PROVE  AmbiguousCommit /\ req[r].new = picture[u]
  BY DEF LostInDoubtOnly, Change!Discard
<1>1. req[r].new = picture[u] /\ req[r].pc = "discard" /\ RequestOK(req[r])
  BY AtRequest DEF Change!Discard, Change!At
<1>2. picture[u] # None /\ Referenced(req[r].new)
  BY <1>1, AtRequest DEF Referenced
<1>3. ~OwnKey(req[r])
  BY <1>1, <1>2 DEF RequestOK
<1>4. QED
  BY <1>1, <1>2, <1>3 DEF OwnKey

\* A worker deletes what is scheduled, which is nobody's picture.
LEMMA WorkersKeepPictures ==
  ASSUME IInv, UNCHANGED requestVars, Worker!WorkerNext
  PROVE  KeepsPictures
<1>1. UNCHANGED picture
  BY DEF requestVars
<1>2. ASSUME NEW w \in Workers, Worker!Delete(w) \/ Worker!DeleteFails(w)
      PROVE  KeepsPictures
  <2> SUFFICES ASSUME NEW k, k = events[Worker!Current(w)].key PROVE KeepsPictures
    OBVIOUS
  <2>1. worker[w].batch # {} /\ objects' \in {objects, objects \ {k}}
    BY <1>2 DEF Worker!Delete, Worker!DeleteFails, Worker!Handling
  <2>2. ~Referenced(k)
    BY <2>1, AtWorkers DEF IInv, ScheduledOnceAndUnreferenced
  <2>3. QED
    BY <1>1, <2>1, <2>2 DEF KeepsPictures, Referenced
<1>3. CASE UNCHANGED objects
  BY <1>1, <1>3 DEF KeepsPictures
<1>4. QED
  BY <1>2, <1>3 DEF Worker!WorkerNext, Worker!WorkerStep, Worker!LeaseLapses, Worker!Claim,
                    Worker!Complete, Worker!Fail, Worker!Abandon

\* A picture is lost only to the discard of a save whose COMMIT was in doubt
\* (PicturesLostInDoubtOnly): to no worker, no other change and no crash, and
\* to nothing at all where COMMITs are never in doubt.
THEOREM LossNeedsDoubt == Spec => PicturesLostInDoubtOnly
<1>1. ASSUME KeepsPictures PROVE LostInDoubtOnly
  BY <1>1 DEF KeepsPictures, LostInDoubtOnly
<1>2. IInv /\ [Next]_vars => [LostInDoubtOnly]_vars
  <2> SUFFICES ASSUME IInv, Next PROVE LostInDoubtOnly
    OBVIOUS
  <2>1. ASSUME NEW r \in Requests,
               \/ \E u \in Users : Change!StartDelete(r, u) \/ \E k \in Keys : Change!StartPut(r, u, k)
               \/ Change!RequestStep(r)
               \/ Change!RequestFault(r)
        PROVE  LostInDoubtOnly
    <3>1. CASE Change!Commit(r) \/ Change!CommitUnreported(r)
      BY <3>1, SavedIsStored
    <3>2. CASE Change!Discard(r)
      BY <3>2, DiscardInDoubt
    <3>3. CASE UNCHANGED picture /\ objects \subseteq objects'
      BY <1>1, <3>3 DEF KeepsPictures
    <3>4. QED
      BY <2>1, <3>1, <3>2, <3>3
      DEF Change!StartDelete, Change!StartPut, Change!RequestStep, Change!Upload,
          Change!CompareAndSet, Change!RequestFault, Change!UploadFails, Change!Crash,
          Change!SaveFails, Change!DiscardFails
  <2>2. CASE Change!Next
    BY <2>1, <2>2 DEF Change!Next
  <2>3. CASE Worker!WorkerNext /\ UNCHANGED requestVars
    BY <1>1, <2>3, WorkersKeepPictures
  <2>4. QED
    BY <2>2, <2>3 DEF Next
<1>3. QED
  BY <1>2, Invariant, PTL DEF Spec, PicturesLostInDoubtOnly, LostInDoubtOnly

-------------------------------------------------------------------------------
(* The refinement of ObjectLifecycle *)

Uploading(k) == \E r \in Requests : Change!At(r, "upload") /\ req[r].new = k

\* The stage of a key before and after a step, case by case.
LEMMA Stages ==
  ASSUME NEW k
  PROVE  /\ k \notin drawn \/ Uploading(k) => Stage(k) = "unused"
         /\ k \in drawn /\ ~Uploading(k) =>
              /\ k \notin objects => Stage(k) = "gone"
              /\ k \in objects /\ Referenced(k) => Stage(k) = "current"
              /\ k \in objects /\ ~Referenced(k) /\ Worker!Scheduled(k) => Stage(k) = "retired"
              /\ k \in objects /\ ~Referenced(k) /\ ~Worker!Scheduled(k) => Stage(k) = "staged"
         /\ k \notin drawn' \/ Uploading(k)' => Stage(k)' = "unused"
         /\ k \in drawn' /\ ~Uploading(k)' =>
              /\ k \notin objects' => Stage(k)' = "gone"
              /\ k \in objects' /\ Referenced(k)' => Stage(k)' = "current"
              /\ k \in objects' /\ ~Referenced(k)' /\ Worker!Scheduled(k)' => Stage(k)' = "retired"
              /\ k \in objects' /\ ~Referenced(k)' /\ ~Worker!Scheduled(k)' => Stage(k)' = "staged"
BY DEF Stage, Uploading

\* A key of which nothing changes keeps its stage.
LEMMA SameStage ==
  ASSUME NEW k,
         (k \in drawn' /\ ~Uploading(k)') <=> (k \in drawn /\ ~Uploading(k)),
         k \in objects' <=> k \in objects,
         Referenced(k)' <=> Referenced(k),
         Worker!Scheduled(k)' <=> Worker!Scheduled(k)
  PROVE  Stage(k)' = Stage(k)
BY Stages

\* Steps that change the stage of at most one key, and no profile.
LEMMA OneStage ==
  ASSUME NEW k \in Keys, UNCHANGED picture,
         \A j \in Keys \ {k} : Stage(j)' = Stage(j),
         \/ Stage(k)' = Stage(k)
         \/ Stage(k) = "unused" /\ Stage(k)' = "staged"
         \/ Stage(k) \in {"unused", "staged", "retired"} /\ Stage(k)' = "gone"
  PROVE  [Lifecycle!Next]_(Lifecycle!vars)
<1>1. CASE Stage(k)' = Stage(k)
  BY <1>1 DEF Lifecycle!vars
<1>2. CASE Stage(k) = "unused" /\ Stage(k)' = "staged"
  <2>1. \A j \in Keys : Stage(j)' = IF j = k THEN "staged" ELSE Stage(j)
    BY <1>2
  <2>2. Lifecycle!Store(k)
    BY <1>2, <2>1 DEF Lifecycle!Store
  <2>3. QED
    BY <2>2 DEF Lifecycle!Next
<1>3. CASE Stage(k) \in {"unused", "staged", "retired"} /\ Stage(k)' = "gone"
  <2>1. Lifecycle!Remove(k)
    BY <1>3 DEF Lifecycle!Remove
  <2>2. QED
    BY <2>1 DEF Lifecycle!Next
<1>4. QED
  BY <1>1, <1>2, <1>3

\* Steps that change none.
LEMMA NoStage ==
  ASSUME UNCHANGED picture, \A j \in Keys : Stage(j)' = Stage(j)
  PROVE  [Lifecycle!Next]_(Lifecycle!vars)
BY DEF Lifecycle!vars

\* A step of a request that leaves the profiles and the outbox alone can only
\* change the stage of the key the request has drawn.
LEMMA RequestStage ==
  ASSUME IInv, NEW r \in Requests, NEW q, req' = [req EXCEPT ![r] = q],
         UNCHANGED <<picture, events, drawn>>, q.pc # "upload",
         \A k \in Keys : k # req[r].new => (k \in objects' <=> k \in objects)
  PROVE  /\ \A k \in Keys \ {req[r].new} : Stage(k)' = Stage(k)
         /\ \A k \in Keys : ~Uploading(k)' <=> (~Uploading(k) \/ k = req[r].new)
         /\ \A k \in Keys : Referenced(k)' <=> Referenced(k)
         /\ \A k \in Keys : Worker!Scheduled(k)' <=> Worker!Scheduled(k)
<1>1. \A s \in Requests : req'[s] = IF s = r THEN q ELSE req[s]
  BY AtRequest
<1>2. ASSUME NEW k \in Keys PROVE ~Uploading(k)' <=> (~Uploading(k) \/ k = req[r].new)
  <2>1. \A s \in Requests \ {r} : req[s].new = k => k # req[r].new
    BY NoneAssumption DEF IInv, RequestsApart
  <2>2. QED
    BY <1>1, <2>1 DEF Uploading, Change!At
<1>3. /\ \A k \in Keys : Referenced(k)' <=> Referenced(k)
      /\ \A k \in Keys : Worker!Scheduled(k)' <=> Worker!Scheduled(k)
  BY DEF Referenced, Worker!Scheduled
<1>4. ASSUME NEW k \in Keys, k # req[r].new PROVE Stage(k)' = Stage(k)
  BY <1>2, <1>3, <1>4, SameStage
<1>5. QED
  BY <1>2, <1>3, <1>4

\* The key of a request that is at a step is unused while it is uploaded, and
\* then staged until the change commits.
LEMMA DrawnStage ==
  ASSUME ~AmbiguousCommit, IInv, NEW r \in Requests, req[r].new # None
  PROVE  /\ req[r].new \in Keys /\ req[r].new \in drawn
         /\ ~Referenced(req[r].new) /\ ~Worker!Scheduled(req[r].new)
         /\ req[r].pc = "upload" => Stage(req[r].new) = "unused"
         /\ req[r].pc # "upload" =>
              /\ ~Uploading(req[r].new)
              /\ Stage(req[r].new) = IF req[r].new \in objects THEN "staged" ELSE "gone"
<1> SUFFICES ASSUME NEW k, k = req[r].new
             PROVE  /\ k \in Keys /\ k \in drawn /\ ~Referenced(k) /\ ~Worker!Scheduled(k)
                    /\ req[r].pc = "upload" => Stage(k) = "unused"
                    /\ req[r].pc # "upload" =>
                         ~Uploading(k) /\ Stage(k) = IF k \in objects THEN "staged" ELSE "gone"
  OBVIOUS
<1>1. k \in Keys /\ k \in drawn /\ ~Referenced(k) /\ ~Worker!Scheduled(k)
  BY AtRequest DEF RequestOK, OwnKey, RequestType
<1>2. Uploading(k) <=> req[r].pc = "upload"
  BY DEF IInv, RequestsApart, Uploading, Change!At
<1>3. QED
  BY <1>1, <1>2, Stages

\* The steps that leave every object where it is.
LEMMA QuietSteps ==
  ASSUME IInv, NEW r \in Requests,
         \/ \E u \in Users : Change!StartDelete(r, u) \/ \E k \in Keys : Change!StartPut(r, u, k)
         \/ Change!CompareAndSet(r) \/ Change!SaveFails(r) \/ Change!DiscardFails(r)
  PROVE  [Lifecycle!Next]_(Lifecycle!vars)
<1>1. ASSUME NEW u \in Users, NEW k \in Keys, Change!StartPut(r, u, k)
      PROVE  [Lifecycle!Next]_(Lifecycle!vars)
  <2> SUFFICES ASSUME NEW q, q = [pc |-> "upload", user |-> u, new |-> k, old |-> picture[u]]
               PROVE  [Lifecycle!Next]_(Lifecycle!vars)
    OBVIOUS
  <2>1. /\ req[r].pc = "idle" /\ k \notin drawn /\ drawn' = drawn \union {k}
        /\ req' = [req EXCEPT ![r] = q] /\ UNCHANGED <<picture, objects, events>>
    BY <1>1 DEF Change!StartPut, Change!At
  <2>2. \A s \in Requests : req'[s] = IF s = r THEN q ELSE req[s]
    BY <2>1, AtRequest
  <2>3. ASSUME NEW j \in Keys
        PROVE  (j \in drawn' /\ ~Uploading(j)') <=> (j \in drawn /\ ~Uploading(j))
    <3>1. CASE j = k
      BY <2>1, <2>2, <3>1 DEF Uploading, Change!At
    <3>2. CASE j # k
      BY <2>1, <2>2, <3>2 DEF Uploading, Change!At
    <3>3. QED
      BY <3>1, <3>2
  <2>4. \A j \in Keys : Stage(j)' = Stage(j)
    BY <2>1, <2>3, SameStage DEF Referenced, Worker!Scheduled
  <2>5. QED
    BY <2>1, <2>4, NoStage
<1>2. ASSUME NEW q, req' = [req EXCEPT ![r] = q], q.pc # "upload", req[r].pc # "upload",
             UNCHANGED <<picture, objects, events, drawn>>
      PROVE  [Lifecycle!Next]_(Lifecycle!vars)
  <2>1. \A s \in Requests : req'[s] = IF s = r THEN q ELSE req[s]
    BY <1>2, AtRequest
  <2>2. \A k \in Keys : Uploading(k)' <=> Uploading(k)
    BY <1>2, <2>1 DEF Uploading, Change!At
  <2>3. \A k \in Keys : Stage(k)' = Stage(k)
    BY <1>2, <2>2, SameStage DEF Referenced, Worker!Scheduled
  <2>4. QED
    BY <1>2, <2>3, NoStage
<1>3. ASSUME NEW u \in Users, Change!StartDelete(r, u)
      PROVE  [Lifecycle!Next]_(Lifecycle!vars)
  <2> DEFINE q == [pc |-> "save", user |-> u, new |-> None, old |-> picture[u]]
  <2>1. /\ req' = [req EXCEPT ![r] = q] /\ q.pc # "upload" /\ req[r].pc # "upload"
        /\ UNCHANGED <<picture, objects, events, drawn>>
    BY <1>3 DEF Change!StartDelete, Change!At
  <2> HIDE DEF q
  <2>2. QED
    BY <1>2, <2>1
<1>4. ASSUME Change!CompareAndSet(r) \/ Change!SaveFails(r)
      PROVE  [Lifecycle!Next]_(Lifecycle!vars)
  <2>1. PICK pc \in {"commit", "discard"} : req' = [req EXCEPT ![r].pc = pc]
    BY <1>4 DEF Change!CompareAndSet, Change!SaveFails
  <2>2. /\ req[r].pc # "upload" /\ UNCHANGED <<picture, objects, events, drawn>>
    BY <1>4 DEF Change!CompareAndSet, Change!SaveFails, Change!At
  <2>3. [req[r] EXCEPT !.pc = pc].pc = pc
    BY AtRequest DEF RequestType
  <2>4. QED
    BY <1>2, <2>1, <2>2, <2>3
<1>5. CASE Change!DiscardFails(r)
  <2>1. /\ req' = [req EXCEPT ![r] = Change!IdleRequest] /\ Change!IdleRequest.pc = "idle"
        /\ req[r].pc = "discard" /\ UNCHANGED <<picture, objects, events, drawn>>
    BY <1>5 DEF Change!DiscardFails, Change!Answer, Change!IdleRequest, Change!At
  <2>2. QED
    BY <1>2, <2>1
<1>6. QED
  BY <1>1, <1>3, <1>4, <1>5

\* A request that uploads, ends or dies stages or removes the key it has drawn.
LEMMA DrawnSteps ==
  ASSUME ~AmbiguousCommit, IInv, NEW r \in Requests,
         \/ Change!Upload(r) \/ Change!Discard(r)
         \/ \E stored \in BOOLEAN : Change!UploadFails(r, stored) \/ Change!Crash(r, stored)
  PROVE  [Lifecycle!Next]_(Lifecycle!vars)
<1> SUFFICES ASSUME NEW k, k = req[r].new PROVE [Lifecycle!Next]_(Lifecycle!vars)
  OBVIOUS
<1>1. Change!IdleRequest.pc = "idle" /\ req[r] \in RequestType
  BY AtRequest DEF Change!IdleRequest
<1>2. /\ UNCHANGED <<picture, events, drawn>>
      /\ \A j \in Keys : j # k => (j \in objects' <=> j \in objects)
      /\ req[r].pc # "upload" => objects' \subseteq objects
  BY DEF Change!Upload, Change!Discard, Change!UploadFails, Change!Crash, Change!At
<1>3. PICK q : req' = [req EXCEPT ![r] = q] /\ q.pc # "upload"
  <2>1. CASE Change!Upload(r)
    <3>1. req' = [req EXCEPT ![r] = [req[r] EXCEPT !.pc = "save"]]
      BY <2>1 DEF Change!Upload
    <3>2. [req[r] EXCEPT !.pc = "save"].pc = "save"
      BY <1>1 DEF RequestType
    <3>3. QED
      BY <3>1, <3>2
  <2>2. CASE ~Change!Upload(r)
    <3>1. req' = [req EXCEPT ![r] = Change!IdleRequest]
      BY <2>2 DEF Change!Discard, Change!UploadFails, Change!Crash, Change!Answer
    <3>2. QED
      BY <1>1, <3>1
  <2>3. QED
    BY <2>1, <2>2
<1>4. /\ \A j \in Keys \ {k} : Stage(j)' = Stage(j)
      /\ \A j \in Keys : ~Uploading(j)' <=> (~Uploading(j) \/ j = k)
      /\ \A j \in Keys : Referenced(j)' <=> Referenced(j)
      /\ \A j \in Keys : Worker!Scheduled(j)' <=> Worker!Scheduled(j)
  BY <1>2, <1>3, RequestStage
<1>5. CASE k = None
  BY <1>2, <1>4, <1>5, NoneAssumption, NoStage
<1>6. CASE k # None
  <2>1. /\ k \in Keys /\ k \in drawn /\ ~Referenced(k) /\ ~Worker!Scheduled(k)
        /\ req[r].pc = "upload" => Stage(k) = "unused"
        /\ req[r].pc # "upload" =>
             ~Uploading(k) /\ Stage(k) = IF k \in objects THEN "staged" ELSE "gone"
    BY <1>6, DrawnStage
  <2>2. Stage(k)' = IF k \in objects' THEN "staged" ELSE "gone"
    BY <1>2, <1>4, <2>1, Stages
  <2>3. QED
    BY <1>2, <1>4, <2>1, <2>2, OneStage
<1>7. QED
  BY <1>5, <1>6

\* A commit is the change of one user's picture.
LEMMA CommitChanges ==
  ASSUME ~AmbiguousCommit, IInv, NEW r \in Requests, Change!Commit(r)
  PROVE  Lifecycle!Next
<1> SUFFICES ASSUME NEW u, NEW n, NEW o, u = req[r].user, n = req[r].new, o = req[r].old
             PROVE  Lifecycle!Next
  OBVIOUS
<1>1. /\ u \in Users /\ picture[u] = o /\ n \in Keys \union {None} /\ o \in Keys \union {None}
      /\ picture' = [picture EXCEPT ![u] = n]
      /\ o # None => o \in objects /\ Referenced(o) /\ ~Worker!Scheduled(o)
      /\ n # None => n \in objects /\ ~Referenced(n) /\ ~Worker!Scheduled(n) /\ n # o
      /\ \A k \in Keys : Referenced(k)' <=> (k = n \/ (Referenced(k) /\ k # o))
      /\ \A k \in Keys : Worker!Scheduled(k)' <=> (Worker!Scheduled(k) \/ k = o)
      /\ req' = [req EXCEPT ![r] = Change!IdleRequest]
      /\ UNCHANGED <<objects, drawn>>
  BY SaveEffect DEF Change!Commit, Change!Answer
<1>2. /\ req[r].pc = "commit" /\ Change!IdleRequest.pc = "idle" /\ None \notin Keys
      /\ objects \subseteq drawn
      /\ \A s \in Requests : req'[s] = IF s = r THEN Change!IdleRequest ELSE req[s]
  BY <1>1, AtRequest DEF Change!Commit, Change!At, Change!IdleRequest
<1>3. \A k \in Keys : Uploading(k)' <=> Uploading(k)
  BY <1>2 DEF Uploading, Change!At
<1>4. \A k \in Keys : Uploading(k) => k \notin objects
  BY AtRequest DEF Uploading, Change!At, RequestOK
<1>5. n # None => Stage(n) = "staged"
  BY <1>1, <1>2, <1>4, Stages
<1>6. ASSUME NEW k \in Keys
      PROVE  Stage(k)' = IF k = n THEN "current" ELSE IF k = o THEN "retired" ELSE Stage(k)
  <2>1. CASE k = n
    BY <1>1, <1>2, <1>3, <1>4, <2>1, Stages
  <2>2. CASE k # n /\ k = o
    BY <1>1, <1>2, <1>3, <1>4, <2>2, Stages
  <2>3. CASE k # n /\ k # o
    BY <1>1, <1>3, <2>3, SameStage
  <2>4. QED
    BY <2>1, <2>2, <2>3
<1>7. Lifecycle!Change(u, n)
  BY <1>1, <1>2, <1>5, <1>6 DEF Lifecycle!Change
<1>8. QED
  BY <1>1, <1>7 DEF Lifecycle!Next

\* A worker removes a retired object, or changes no stage.
LEMMA WorkerSteps ==
  ASSUME IInv, UNCHANGED requestVars, Worker!WorkerNext
  PROVE  [Lifecycle!Next]_(Lifecycle!vars)
<1>1. /\ UNCHANGED <<picture, drawn, req>>
      /\ \A k \in Keys : Uploading(k)' <=> Uploading(k)
      /\ \A k \in Keys : Referenced(k)' <=> Referenced(k)
  BY DEF requestVars, Uploading, Referenced, Change!At
<1>2. ASSUME NEW w \in Workers, Worker!Delete(w) \/ Worker!DeleteFails(w)
      PROVE  [Lifecycle!Next]_(Lifecycle!vars)
  <2> SUFFICES ASSUME NEW k, k = events[Worker!Current(w)].key
               PROVE  [Lifecycle!Next]_(Lifecycle!vars)
    OBVIOUS
  <2>1. /\ worker[w].batch # {} /\ UNCHANGED events
        /\ objects' \in {objects, objects \ {k}}
    BY <1>2 DEF Worker!Delete, Worker!DeleteFails, Worker!Handling
  <2>2. k \in Keys /\ Worker!Scheduled(k) /\ k \in drawn /\ ~Referenced(k)
    <3>1. Worker!Current(w) \in DOMAIN events /\ k \in Keys
      BY <2>1, AtWorkers
    <3>2. QED
      BY <3>1 DEF IInv, TablesOK, ScheduledOnceAndUnreferenced, Referenced, Worker!Scheduled
  <2>3. ~Uploading(k)
    BY <2>2, AtRequest, NoneAssumption DEF Uploading, Change!At, RequestOK, OwnKey
  <2>4. \A j \in Keys : Worker!Scheduled(j)' <=> Worker!Scheduled(j)
    BY <2>1 DEF Worker!Scheduled
  <2>5. \A j \in Keys \ {k} : Stage(j)' = Stage(j)
    BY <1>1, <2>1, <2>4, SameStage
  <2>6. \/ Stage(k)' = Stage(k)
        \/ Stage(k) = "retired" /\ Stage(k)' = "gone"
    BY <1>1, <2>1, <2>2, <2>3, <2>4, Stages
  <2>7. QED
    BY <1>1, <2>2, <2>5, <2>6, OneStage
<1>3. ASSUME UNCHANGED objects, DOMAIN events' = DOMAIN events,
             \A i \in DOMAIN events : events'[i].key = events[i].key
      PROVE  [Lifecycle!Next]_(Lifecycle!vars)
  <2>1. \A j \in Keys : Worker!Scheduled(j)' <=> Worker!Scheduled(j)
    BY <1>3 DEF Worker!Scheduled
  <2>2. \A j \in Keys : Stage(j)' = Stage(j)
    BY <1>1, <1>3, <2>1, SameStage
  <2>3. QED
    BY <1>1, <2>2, NoStage
<1>4. ASSUME NEW w \in Workers, Worker!Claim(w)
      PROVE  [Lifecycle!Next]_(Lifecycle!vars)
  <2>1. /\ UNCHANGED objects
        /\ events' = [i \in DOMAIN events |->
                        IF i \in Worker!NextBatch
                          THEN [events[i] EXCEPT !.attempts = @ + 1, !.lease = "held"]
                          ELSE events[i]]
    BY <1>4 DEF Worker!Claim
  <2>2. \A i \in DOMAIN events : events'[i].key = events[i].key
    BY <2>1, AtWorkers DEF Worker!Event
  <2>3. QED
    BY <1>3, <2>1, <2>2
<1>5. ASSUME NEW c, NEW e, c \in DOMAIN events => e.key = events[c].key,
             events' = [events EXCEPT ![c] = e], UNCHANGED objects
      PROVE  [Lifecycle!Next]_(Lifecycle!vars)
  BY <1>3, <1>5
<1>6. ASSUME NEW w \in Workers, Worker!Complete(w)
      PROVE  [Lifecycle!Next]_(Lifecycle!vars)
  <2>1. /\ events' = [events EXCEPT ![Worker!Current(w)] =
                        [events[Worker!Current(w)] EXCEPT !.done = TRUE, !.lease = "none"]]
        /\ UNCHANGED objects
    BY <1>6 DEF Worker!Complete
  <2>2. \A i \in DOMAIN events :
            [events[i] EXCEPT !.done = TRUE, !.lease = "none"].key = events[i].key
    BY AtWorkers DEF Worker!Event
  <2>3. QED
    BY <1>5, <2>1, <2>2
<1>7. ASSUME NEW i \in DOMAIN events, Worker!LeaseLapses(i)
      PROVE  [Lifecycle!Next]_(Lifecycle!vars)
  <2>1. /\ events' = [events EXCEPT ![i] = [events[i] EXCEPT !.lease = "lapsed"]]
        /\ UNCHANGED objects
    BY <1>7 DEF Worker!LeaseLapses
  <2>2. [events[i] EXCEPT !.lease = "lapsed"].key = events[i].key
    BY AtWorkers DEF Worker!Event
  <2>3. QED
    BY <1>5, <2>1, <2>2
<1>8. ASSUME NEW w \in Workers, Worker!Fail(w) \/ Worker!Abandon(w)
      PROVE  [Lifecycle!Next]_(Lifecycle!vars)
  BY <1>3, <1>8 DEF Worker!Fail, Worker!Abandon
<1>9. QED
  BY <1>2, <1>4, <1>6, <1>7, <1>8 DEF Worker!WorkerNext, Worker!WorkerStep

\* Requests and workers together keep the life of every object
\* (ImplementsObjectLifecycle): staged, current, retired, gone, in that order
\* and each once, and a picture replaced in the very step that retires it.
THEOREM Refinement ==
  ASSUME ~AmbiguousCommit
  PROVE  Spec => ImplementsObjectLifecycle
<1>1. Init => Lifecycle!Init
  <2>1. Init => \A k \in Keys : Stage(k) = "unused"
    BY DEF Init, Change!Init, Stage
  <2>2. QED
    BY <2>1 DEF Init, Change!Init, Lifecycle!Init
<1>2. IInv /\ [Next]_vars => [Lifecycle!Next]_(Lifecycle!vars)
  <2> SUFFICES ASSUME IInv, [Next]_vars PROVE [Lifecycle!Next]_(Lifecycle!vars)
    OBVIOUS
  <2>1. ASSUME NEW r \in Requests,
               \/ \E u \in Users : Change!StartDelete(r, u) \/ \E k \in Keys : Change!StartPut(r, u, k)
               \/ Change!RequestStep(r)
               \/ Change!RequestFault(r)
        PROVE  [Lifecycle!Next]_(Lifecycle!vars)
    <3>1. ~Change!CommitUnreported(r)
      BY DEF Change!CommitUnreported
    <3>2. QED
      BY <2>1, <3>1, QuietSteps, DrawnSteps, CommitChanges
      DEF Change!RequestStep, Change!RequestFault
  <2>2. CASE Change!Next
    BY <2>1, <2>2 DEF Change!Next
  <2>3. CASE UNCHANGED vars
    <3>1. UNCHANGED picture /\ \A k \in Keys : Stage(k)' = Stage(k)
      BY <2>3 DEF vars, requestVars, Stage, Referenced, Worker!Scheduled, Change!At
    <3>2. QED
      BY <3>1, NoStage
  <2>4. QED
    BY <2>2, <2>3, WorkerSteps DEF Next
<1>3. QED
  BY <1>1, <1>2, Invariant, PTL DEF Spec, ImplementsObjectLifecycle, Lifecycle!Spec
===============================================================================
