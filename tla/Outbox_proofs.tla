------------------------------ MODULE Outbox_proofs ------------------------------
(****************************************************************************)
(* Outbox, for any number of workers, events, attempts and faults: an event *)
(* marked processed has had its object deleted, and the storage is asked no *)
(* more often than the event was claimed.                                   *)
(*                                                                          *)
(* A claim gives its worker the right to one try of each event of its       *)
(* batch.  Several workers may hold such a right to one event, each since a *)
(* lease that has lapsed; the rights and the tries together are never more  *)
(* than the attempts that were recorded.                                    *)
(****************************************************************************)
EXTENDS Outbox, FiniteSetTheorems, SequenceTheorems, WellFoundedInduction, TLAPS

Least(S) == CHOOSE i \in S : \A j \in S : i <= j

\* the workers that may still try event i
Holders(i) ==
    {w \in Workers :
        /\ i \in worker[w].batch
        /\ ~(worker[w].pc \in {"complete", "fail"} /\ i = Least(worker[w].batch))}

KeysDistinct == \A i, j \in DOMAIN events : events[i].key = events[j].key => i = j

WorkersOK ==
    \A w \in Workers :
        /\ worker[w].pc = "idle" => worker[w].batch = {}
        /\ worker[w].pc = "complete" /\ worker[w].batch # {} =>
             events[Least(worker[w].batch)].key \notin objects

Accounted ==
    /\ \A i \in DOMAIN events :
         tries[events[i].key] + Cardinality(Holders(i)) <= events[i].attempts
    /\ \A k \in Keys : ~Scheduled(k) => tries[k] = 0

IInv == TypeOK /\ KeysDistinct /\ WorkersOK /\ DoneMeansDeleted /\ Accounted

----------------------------------------------------------------------------
\* A set of natural numbers has a least element.
LEMMA LeastIn ==
  ASSUME NEW S \in SUBSET Nat, S # {}
  PROVE  Least(S) \in S
<1> DEFINE R == {ss \in Nat \X Nat : ss[1] < ss[2]}
<1>1. IsWellFoundedOn(OpToRel(<, Nat), Nat)
  BY NatLessThanWellFounded
<1>2. IsWellFoundedOn(R, Nat)
  BY <1>1 DEF OpToRel
<1>3. PICK x \in S : \A y \in S : ~ (<<y, x>> \in R)
  <2> HIDE DEF R
  <2> QED BY <1>2, WFMin
<1>4. \A y \in S : x <= y
  <2> TAKE y \in S
  <2>1. x \in Nat /\ y \in Nat
    OBVIOUS
  <2>2. y < x => <<y, x>> \in R
    BY <2>1
  <2>3. ~(y < x)
    <3> HIDE DEF R
    <3> QED BY <2>2, <1>3
  <2> QED BY <2>1, <2>3
<1> QED BY <1>4 DEF Least

\* Events are numbered from 1; a batch is a set of such numbers.
LEMMA Numbers ==
  ASSUME IInv
  PROVE  /\ Len(events) \in Nat /\ DOMAIN events = 1..Len(events)
         /\ \A i \in DOMAIN events : i \in Nat /\ events[i] \in Event
         /\ \A w \in Workers : worker[w].batch \subseteq DOMAIN events
<1>1. events \in Seq(Event)
  BY DEF IInv, TypeOK
<1>2. Len(events) \in Nat /\ DOMAIN events = 1..Len(events)
  BY <1>1, LenProperties
<1>3. \A i \in DOMAIN events : i \in Nat /\ events[i] \in Event
  BY <1>1, <1>2, ElementOfSeq
<1>4. \A w \in Workers : worker[w].batch \subseteq DOMAIN events
  BY DEF IInv, TypeOK
<1> QED BY <1>2, <1>3, <1>4

LEMMA CurrentIn ==
  ASSUME IInv, NEW w \in Workers, worker[w].batch # {}
  PROVE  /\ Current(w) = Least(worker[w].batch)
         /\ Current(w) \in worker[w].batch /\ Current(w) \in DOMAIN events
<1>1. Current(w) = Least(worker[w].batch)
  BY DEF Current, Least
<1>2. worker[w].batch \subseteq DOMAIN events /\ worker[w].batch \subseteq Nat
  BY Numbers
<1> QED BY <1>1, <1>2, LeastIn

\* Holders are workers, so there are finitely many.
LEMMA HoldersFinite ==
  ASSUME NEW i
  PROVE  IsFiniteSet(Holders(i)) /\ Cardinality(Holders(i)) \in Nat
<1>1. IsFiniteSet(Workers) /\ Holders(i) \in SUBSET Workers
  BY BoundsAssumption DEF Holders
<1>2. IsFiniteSet(Holders(i))
  BY <1>1, FS_Subset
<1> QED BY <1>2, FS_CardinalityType

LEMMA InitIInv == Init => IInv
<1> SUFFICES ASSUME Init PROVE IInv
  OBVIOUS
<1>1. events = << >> /\ DOMAIN events = {}
  BY DEF Init
<1>2. TypeOK
  BY <1>1, BoundsAssumption, EmptySeq DEF Init, TypeOK, IdleWorker
<1>3. WorkersOK
  BY DEF Init, WorkersOK, IdleWorker
<1> QED BY <1>1, <1>2, <1>3 DEF IInv, KeysDistinct, DoneMeansDeleted, Accounted, Scheduled, Init

----------------------------------------------------------------------------
\* A sequence of which every entry is changed for another event.
LEMMA SameLength ==
  ASSUME NEW n \in Nat, NEW e, e \in [1..n -> Event]
  PROVE  e \in Seq(Event) /\ DOMAIN e = 1..n
<1>1. e \in UNION {[1..m -> Event] : m \in Nat}
  OBVIOUS
<1> QED BY <1>1, SeqDef

\* Entries change, workers and keys do not: what is left to show is pointwise.
LEMMA EventsChange ==
  ASSUME IInv, DOMAIN events' = DOMAIN events,
         \A i \in DOMAIN events : events'[i].key = events[i].key
  PROVE  KeysDistinct' /\ \A k \in Keys : Scheduled(k)' <=> Scheduled(k)
BY DEF IInv, KeysDistinct, Scheduled

\* The clock passes a lease.
LEMMA LeaseLapsesStep ==
  ASSUME IInv, NEW i \in DOMAIN events, LeaseLapses(i)
  PROVE  IInv'
<1>1. /\ Len(events) \in Nat /\ DOMAIN events = 1..Len(events)
      /\ \A j \in DOMAIN events : events[j] \in Event
  BY Numbers
<1> DEFINE e == [events[i] EXCEPT !.lease = "lapsed"]
<1>2. e \in Event /\ e.key = events[i].key /\ e.attempts = events[i].attempts
      /\ e.done = events[i].done
  BY <1>1 DEF Event
<1>3. events' = [events EXCEPT ![i] = e]
  BY DEF LeaseLapses
<1> HIDE DEF e
<1>4. events \in [1..Len(events) -> Event]
  BY LenProperties DEF IInv, TypeOK
<1>5. /\ events' \in [1..Len(events) -> Event] /\ DOMAIN events' = DOMAIN events
      /\ \A j \in DOMAIN events :
           /\ events'[j].key = events[j].key /\ events'[j].done = events[j].done
           /\ events'[j].attempts = events[j].attempts
  BY <1>1, <1>2, <1>3, <1>4
<1>6. UNCHANGED <<objects, worker, tries, faults>>
  BY DEF LeaseLapses
<1>7. TypeOK'
  <2>1. events' \in Seq(Event)
    BY <1>1, <1>5, SameLength
  <2> QED BY <1>5, <1>6, <2>1 DEF IInv, TypeOK
<1>8. WorkersOK'
  <2>1. ASSUME NEW w \in Workers, worker[w].batch # {}
        PROVE  events'[Least(worker[w].batch)].key = events[Least(worker[w].batch)].key
    BY <1>5, <2>1, CurrentIn
  <2> QED BY <1>6, <2>1 DEF IInv, WorkersOK
<1>9. Accounted'
  <2>1. \A j : Holders(j)' = Holders(j)
    BY <1>6 DEF Holders
  <2> QED BY <1>5, <1>6, <2>1, EventsChange DEF IInv, Accounted
<1> QED BY <1>5, <1>6, <1>7, <1>8, <1>9, EventsChange DEF IInv, DoneMeansDeleted

\* An idle worker claims events.
LEMMA ClaimStep ==
  ASSUME IInv, NEW w \in Workers, Claim(w)
  PROVE  IInv'
<1> DEFINE B == NextBatch
<1>1. /\ Len(events) \in Nat /\ DOMAIN events = 1..Len(events)
      /\ \A j \in DOMAIN events : j \in Nat /\ events[j] \in Event
      /\ \A v \in Workers : worker[v].batch \subseteq DOMAIN events
  BY Numbers
<1>2. /\ B \subseteq DOMAIN events
      /\ \A j \in B : events[j].attempts < MaxAttempts /\ ~events[j].done
  BY DEF NextBatch, Ready, Claimable
<1>3. /\ worker[w].pc = "idle" /\ worker[w].batch = {}
      /\ worker' = [worker EXCEPT ![w] = [pc |-> "handle", batch |-> B]]
      /\ UNCHANGED <<objects, tries, faults>>
  BY DEF Claim, IInv, WorkersOK
<1>4. events' = [j \in DOMAIN events |->
                   IF j \in B THEN [events[j] EXCEPT !.attempts = @ + 1, !.lease = "held"]
                              ELSE events[j]]
  BY DEF Claim
<1> HIDE DEF B
<1>5. ASSUME NEW j \in DOMAIN events
      PROVE  /\ events'[j] \in Event /\ events'[j].key = events[j].key
             /\ events'[j].done = events[j].done
             /\ events'[j].attempts = IF j \in B THEN events[j].attempts + 1
                                                 ELSE events[j].attempts
  <2>1. CASE j \in B
    <3>1. events'[j] = [events[j] EXCEPT !.attempts = @ + 1, !.lease = "held"]
      BY <1>4, <2>1
    <3>2. events[j] \in Event /\ events[j].attempts + 1 \in 0..MaxAttempts
      BY <1>1, <1>2, <2>1, BoundsAssumption DEF Event
    <3> QED BY <2>1, <3>1, <3>2 DEF Event
  <2>2. CASE j \notin B
    BY <1>1, <1>4, <2>2
  <2> QED BY <2>1, <2>2
<1>6. DOMAIN events' = DOMAIN events /\ events' \in [1..Len(events) -> Event]
  BY <1>1, <1>4, <1>5
<1>7. \A v \in Workers :
        worker'[v] = IF v = w THEN [pc |-> "handle", batch |-> B] ELSE worker[v]
  BY <1>3 DEF IInv, TypeOK
<1>8. TypeOK'
  <2>1. events' \in Seq(Event)
    BY <1>1, <1>6, SameLength
  <2>2. worker' \in [Workers -> [pc : {"idle", "handle", "complete", "fail"},
                                 batch : SUBSET (DOMAIN events)]]
    BY <1>2, <1>3 DEF IInv, TypeOK
  <2> QED BY <1>3, <1>6, <2>1, <2>2 DEF IInv, TypeOK
<1>9. WorkersOK'
  <2>1. ASSUME NEW v \in Workers, worker[v].batch # {}
        PROVE  events'[Least(worker[v].batch)].key = events[Least(worker[v].batch)].key
    BY <1>5, <2>1, CurrentIn
  <2> QED BY <1>3, <1>7, <2>1 DEF IInv, WorkersOK
<1>10. Accounted'
  <2>1. ASSUME NEW j \in DOMAIN events
        PROVE  tries'[events'[j].key] + Cardinality(Holders(j)') <= events'[j].attempts
    <3>1. /\ tries[events[j].key] + Cardinality(Holders(j)) <= events[j].attempts
          /\ tries[events[j].key] \in Nat /\ events[j].attempts \in Nat
      BY <1>1 DEF IInv, Accounted, TypeOK, Event
    <3>2. IsFiniteSet(Holders(j)) /\ Cardinality(Holders(j)) \in Nat /\ w \notin Holders(j)
      BY <1>3, HoldersFinite DEF Holders
    <3>3. CASE j \in B
      <4>1. Holders(j)' = Holders(j) \cup {w}
        BY <1>7, <3>3 DEF Holders
      <4>2. Cardinality(Holders(j)') = Cardinality(Holders(j)) + 1
        BY <3>2, <4>1, FS_AddElement
      <4> QED BY <1>3, <1>5, <3>1, <3>2, <3>3, <4>2
    <3>4. CASE j \notin B
      <4>1. Holders(j)' = Holders(j)
        BY <1>3, <1>7, <3>4 DEF Holders
      <4> QED BY <1>3, <1>5, <3>1, <3>4, <4>1
    <3> QED BY <3>3, <3>4
  <2>2. \A k \in Keys : ~Scheduled(k)' => tries'[k] = 0
    BY <1>3, <1>5, <1>6, EventsChange DEF IInv, Accounted
  <2> QED BY <1>6, <2>1, <2>2 DEF Accounted
<1>11. KeysDistinct' /\ DoneMeansDeleted'
  BY <1>3, <1>5, <1>6, EventsChange DEF IInv, DoneMeansDeleted
<1> QED BY <1>8, <1>9, <1>10, <1>11 DEF IInv

\* A worker asks the storage to delete the object of its current event.
LEMMA TryStep ==
  ASSUME IInv, NEW w \in Workers, Delete(w) \/ DeleteFails(w)
  PROVE  IInv'
<1> DEFINE c == Current(w)
<1>1. /\ Len(events) \in Nat /\ DOMAIN events = 1..Len(events)
      /\ \A j \in DOMAIN events : j \in Nat /\ events[j] \in Event
  BY Numbers
<1>2. /\ worker[w].pc = "handle" /\ worker[w].batch # {} /\ events' = events
      /\ tries' = [tries EXCEPT ![events[c].key] = @ + 1]
  BY DEF Delete, DeleteFails, Handling, Try
<1>3. c = Least(worker[w].batch) /\ c \in worker[w].batch /\ c \in DOMAIN events
  BY <1>2, CurrentIn
<1>4. /\ objects' \in {objects, objects \ {events[c].key}}
      /\ faults' \in 0..MaxFaults
  BY BoundsAssumption DEF Delete, DeleteFails, Fault, IInv, TypeOK
<1>5. PICK pc \in {"complete", "fail"} :
        /\ worker' = [worker EXCEPT ![w].pc = pc]
        /\ pc = "complete" => objects' = objects \ {events[c].key}
  BY DEF Delete, DeleteFails
<1> HIDE DEF c
<1>6. \A v \in Workers :
        /\ worker'[v].batch = worker[v].batch
        /\ worker'[v].pc = IF v = w THEN pc ELSE worker[v].pc
  BY <1>5 DEF IInv, TypeOK
<1>7. TypeOK'
  <2>1. worker' \in [Workers -> [pc : {"idle", "handle", "complete", "fail"},
                                 batch : SUBSET (DOMAIN events)]]
    BY <1>5 DEF IInv, TypeOK
  <2>2. tries' \in [Keys -> Nat] /\ objects' \subseteq Keys
    <3>1. events[c].key \in Keys /\ tries \in [Keys -> Nat] /\ objects \subseteq Keys
      BY <1>1, <1>3 DEF IInv, TypeOK, Event
    <3>2. tries[events[c].key] + 1 \in Nat
      BY <3>1
    <3> QED BY <1>2, <1>4, <3>1, <3>2
  <2> QED BY <1>2, <1>4, <2>1, <2>2 DEF IInv, TypeOK
<1>8. WorkersOK'
  <2>1. ASSUME NEW v \in Workers
        PROVE  /\ worker'[v].pc = "idle" => worker'[v].batch = {}
               /\ worker'[v].pc = "complete" /\ worker'[v].batch # {} =>
                    events'[Least(worker'[v].batch)].key \notin objects'
    <3>1. CASE v = w
      BY <1>2, <1>3, <1>5, <1>6, <3>1
    <3>2. CASE v # w
      BY <1>2, <1>4, <1>6, <3>2 DEF IInv, WorkersOK
    <3> QED BY <3>1, <3>2
  <2> QED BY <2>1 DEF WorkersOK
<1>9. Accounted'
  <2>1. ASSUME NEW j \in DOMAIN events
        PROVE  tries'[events[j].key] + Cardinality(Holders(j)') <= events[j].attempts
    <3>1. /\ tries[events[j].key] + Cardinality(Holders(j)) <= events[j].attempts
          /\ tries[events[j].key] \in Nat /\ events[j].attempts \in Nat
          /\ events[j].key \in Keys /\ events[c].key \in Keys
      BY <1>1, <1>3 DEF IInv, Accounted, TypeOK, Event
    <3>2. IsFiniteSet(Holders(j)) /\ Cardinality(Holders(j)) \in Nat
      BY HoldersFinite
    <3>3. CASE j = c
      <4>1. w \in Holders(j) /\ Holders(j)' = Holders(j) \ {w}
        BY <1>2, <1>3, <1>5, <1>6, <3>3 DEF Holders
      <4>2. Cardinality(Holders(j)') = Cardinality(Holders(j)) - 1
        BY <3>2, <4>1, FS_RemoveElement
      <4>3. tries'[events[j].key] = tries[events[j].key] + 1
        BY <1>2, <3>1, <3>3 DEF IInv, TypeOK
      <4> QED BY <3>1, <3>2, <4>2, <4>3
    <3>4. CASE j # c
      <4>1. Holders(j)' = Holders(j)
        BY <1>2, <1>3, <1>6, <3>4 DEF Holders
      <4>2. events[j].key # events[c].key
        BY <1>3, <3>4 DEF IInv, KeysDistinct
      <4>3. tries'[events[j].key] = tries[events[j].key]
        BY <1>2, <3>1, <4>2 DEF IInv, TypeOK
      <4> QED BY <3>1, <4>1, <4>3
    <3> QED BY <3>3, <3>4
  <2>2. ASSUME NEW k \in Keys, ~Scheduled(k)
        PROVE  tries'[k] = 0
    <3>1. k # events[c].key
      BY <1>3, <2>2 DEF Scheduled
    <3> QED BY <1>2, <2>2, <3>1 DEF IInv, Accounted, TypeOK
  <2> QED BY <1>2, <2>1, <2>2 DEF Accounted, Scheduled
<1>10. KeysDistinct' /\ DoneMeansDeleted'
  BY <1>2, <1>4 DEF IInv, KeysDistinct, DoneMeansDeleted
<1> QED BY <1>7, <1>8, <1>9, <1>10 DEF IInv

\* A worker records what became of its current event, and goes on to the next.
LEMMA AdvanceStep ==
  ASSUME IInv, NEW w \in Workers, Complete(w) \/ Fail(w)
  PROVE  IInv'
<1> DEFINE c == Current(w)
           rest == worker[w].batch \ {c}
           e == [events[c] EXCEPT !.done = TRUE, !.lease = "none"]
<1>1. /\ Len(events) \in Nat /\ DOMAIN events = 1..Len(events)
      /\ \A j \in DOMAIN events : j \in Nat /\ events[j] \in Event
  BY Numbers
<1>2. /\ worker[w].pc \in {"complete", "fail"} /\ worker[w].batch # {}
      /\ worker' = [worker EXCEPT ![w] = [pc |-> IF rest = {} THEN "idle" ELSE "handle",
                                          batch |-> rest]]
      /\ UNCHANGED <<objects, tries, faults>>
  BY DEF Complete, Fail, Handling, Advance
<1>3. c = Least(worker[w].batch) /\ c \in worker[w].batch /\ c \in DOMAIN events
  BY <1>2, CurrentIn
<1>4. \/ events' = events
      \/ worker[w].pc = "complete" /\ events' = [events EXCEPT ![c] = e]
  BY <1>1, <1>3 DEF Complete, Fail, Handling
<1>5. e \in Event /\ e.key = events[c].key /\ e.attempts = events[c].attempts
  BY <1>1, <1>3 DEF Event
<1> HIDE DEF c, e
<1>6. events \in [1..Len(events) -> Event]
  BY LenProperties DEF IInv, TypeOK
<1>7. /\ events' \in [1..Len(events) -> Event] /\ DOMAIN events' = DOMAIN events
      /\ \A j \in DOMAIN events :
           /\ events'[j].key = events[j].key
           /\ events'[j].attempts = events[j].attempts
           /\ events'[j].done => events[j].done \/ (j = c /\ worker[w].pc = "complete")
  BY <1>1, <1>3, <1>4, <1>5, <1>6
<1> HIDE DEF rest
<1>8. \A v \in Workers :
        worker'[v] = IF v = w THEN [pc |-> IF rest = {} THEN "idle" ELSE "handle",
                                    batch |-> rest]
                              ELSE worker[v]
  BY <1>2 DEF IInv, TypeOK
<1>9. TypeOK'
  <2>1. events' \in Seq(Event)
    BY <1>1, <1>7, SameLength
  <2>2. rest \subseteq DOMAIN events
    BY Numbers DEF rest
  <2>3. worker' \in [Workers -> [pc : {"idle", "handle", "complete", "fail"},
                                 batch : SUBSET (DOMAIN events)]]
    BY <1>2, <2>2 DEF IInv, TypeOK
  <2> QED BY <1>2, <1>7, <2>1, <2>3 DEF IInv, TypeOK
<1>10. WorkersOK'
  <2>1. ASSUME NEW v \in Workers
        PROVE  /\ worker'[v].pc = "idle" => worker'[v].batch = {}
               /\ worker'[v].pc = "complete" /\ worker'[v].batch # {} =>
                    events'[Least(worker'[v].batch)].key \notin objects'
    <3>1. CASE v = w
      <4>1. PICK pc \in {"idle", "handle"} :
              worker'[v] = [pc |-> pc, batch |-> rest] /\ (pc = "idle" => rest = {})
        BY <1>8, <3>1
      <4>2. worker'[v].pc = pc /\ worker'[v].batch = rest
        BY <4>1
      <4> QED BY <4>1, <4>2
    <3>2. CASE v # w
      <4>1. worker'[v] = worker[v]
        BY <1>8, <3>2
      <4>2. worker[v].batch # {} =>
              events'[Least(worker[v].batch)].key = events[Least(worker[v].batch)].key
        BY <1>7, CurrentIn
      <4> QED BY <1>2, <4>1, <4>2 DEF IInv, WorkersOK
    <3> QED BY <3>1, <3>2
  <2> QED BY <2>1 DEF WorkersOK
<1>11. Accounted'
  <2>1. ASSUME NEW j \in DOMAIN events
        PROVE  Holders(j)' = Holders(j)
    <3>1. w \in Holders(j)' <=> w \in Holders(j)
      BY <1>2, <1>3, <1>8 DEF Holders, rest
    <3>2. \A v \in Workers : v # w => (v \in Holders(j)' <=> v \in Holders(j))
      BY <1>8 DEF Holders
    <3>3. Holders(j)' \subseteq Workers /\ Holders(j) \subseteq Workers
      BY DEF Holders
    <3> QED BY <3>1, <3>2, <3>3
  <2> QED BY <1>2, <1>7, <2>1, EventsChange DEF IInv, Accounted
<1>12. KeysDistinct' /\ DoneMeansDeleted'
  <2>1. worker[w].pc = "complete" => events[c].key \notin objects
    BY <1>2, <1>3 DEF IInv, WorkersOK
  <2> QED BY <1>2, <1>7, <2>1, EventsChange DEF IInv, DoneMeansDeleted
<1> QED BY <1>9, <1>10, <1>11, <1>12 DEF IInv

\* A worker leaves the rest of its batch.
LEMMA AbandonStep ==
  ASSUME IInv, NEW w \in Workers, Abandon(w)
  PROVE  IInv'
<1>1. /\ worker' = [worker EXCEPT ![w] = IdleWorker] /\ faults' \in 0..MaxFaults
      /\ UNCHANGED <<events, objects, tries>>
  BY BoundsAssumption DEF Abandon, Fault, IInv, TypeOK
<1>2. \A v \in Workers : worker'[v] = IF v = w THEN IdleWorker ELSE worker[v]
  BY <1>1 DEF IInv, TypeOK
<1>3. TypeOK'
  BY <1>1 DEF IInv, TypeOK, IdleWorker
<1>4. WorkersOK'
  BY <1>1, <1>2 DEF IInv, WorkersOK, IdleWorker
<1>5. Accounted'
  <2>1. ASSUME NEW j \in DOMAIN events
        PROVE  tries[events[j].key] + Cardinality(Holders(j)') <= events[j].attempts
    <3>1. /\ tries[events[j].key] + Cardinality(Holders(j)) <= events[j].attempts
          /\ tries[events[j].key] \in Nat /\ events[j].attempts \in Nat
      BY Numbers DEF IInv, Accounted, TypeOK, Event
    <3>2. IsFiniteSet(Holders(j)) /\ Cardinality(Holders(j)) \in Nat
      BY HoldersFinite
    <3>3. Holders(j)' \in SUBSET Holders(j)
      BY <1>2 DEF Holders, IdleWorker
    <3>4. Cardinality(Holders(j)') <= Cardinality(Holders(j)) /\ Cardinality(Holders(j)') \in Nat
      BY <3>2, <3>3, FS_Subset, FS_CardinalityType
    <3> QED BY <3>1, <3>2, <3>4
  <2> QED BY <1>1, <2>1 DEF IInv, Accounted, Scheduled
<1> QED BY <1>1, <1>3, <1>4, <1>5 DEF IInv, KeysDistinct, DoneMeansDeleted

\* A picture change schedules an object.
LEMMA PublishStep ==
  ASSUME IInv, NEW k \in Keys, Publish(k)
  PROVE  IInv'
<1> DEFINE n == Len(events)
<1>1. /\ n \in Nat /\ DOMAIN events = 1..n
      /\ \A j \in DOMAIN events : j \in Nat /\ events[j] \in Event
      /\ \A w \in Workers : worker[w].batch \subseteq DOMAIN events
  BY Numbers
<1>2. NewEvent(k) \in Event /\ NewEvent(k).key = k /\ NewEvent(k).attempts = 0
      /\ NewEvent(k).done = FALSE
  BY BoundsAssumption DEF NewEvent, Event
<1>3. /\ k \in objects /\ ~Scheduled(k) /\ UNCHANGED <<objects, worker, tries, faults>>
      /\ events' = Append(events, NewEvent(k))
  BY DEF Publish
<1>4. /\ events' \in Seq(Event) /\ Len(events') = n + 1 /\ DOMAIN events' = 1..(n + 1)
      /\ \A j \in 1..n : events'[j] = events[j]
      /\ events'[n + 1] = NewEvent(k)
  <2>1. events \in Seq(Event)
    BY DEF IInv, TypeOK
  <2> QED BY <1>2, <1>3, <2>1
<1> HIDE DEF n
<1>5. TypeOK'
  <2>1. worker' \in [Workers -> [pc : {"idle", "handle", "complete", "fail"},
                                 batch : SUBSET (DOMAIN events')]]
    BY <1>1, <1>3, <1>4 DEF IInv, TypeOK
  <2> QED BY <1>3, <1>4, <2>1 DEF IInv, TypeOK
<1>6. KeysDistinct' /\ DoneMeansDeleted'
  BY <1>1, <1>2, <1>3, <1>4 DEF IInv, KeysDistinct, DoneMeansDeleted, Scheduled
<1>7. WorkersOK'
  <2>1. ASSUME NEW w \in Workers, worker[w].batch # {}
        PROVE  events'[Least(worker[w].batch)] = events[Least(worker[w].batch)]
    BY <1>1, <1>4, <2>1, CurrentIn
  <2> QED BY <1>3, <2>1 DEF IInv, WorkersOK
<1>8. Accounted'
  <2>1. \A j : Holders(j)' = Holders(j)
    BY <1>3 DEF Holders
  <2>2. Holders(n + 1) = {}
    BY <1>1 DEF Holders
  <2>3. tries[k] = 0 /\ Cardinality(Holders(n + 1)) = 0
    BY <1>3, <2>2, FS_EmptySet DEF IInv, Accounted
  <2>4. ASSUME NEW j \in 1..(n + 1)
        PROVE  tries[events'[j].key] + Cardinality(Holders(j)) <= events'[j].attempts
    <3>1. CASE j = n + 1
      BY <1>2, <1>4, <2>3, <3>1
    <3>2. CASE j \in 1..n
      BY <1>1, <1>4, <3>2 DEF IInv, Accounted
    <3> QED BY <1>1, <3>1, <3>2
  <2>5. ASSUME NEW key \in Keys, ~Scheduled(key)'
        PROVE  tries[key] = 0
    <3>1. ~Scheduled(key)
      BY <1>1, <1>4, <2>5 DEF Scheduled
    <3> QED BY <3>1 DEF IInv, Accounted
  <2> QED BY <1>3, <1>4, <2>1, <2>4, <2>5 DEF Accounted
<1> QED BY <1>5, <1>6, <1>7, <1>8 DEF IInv

LEMMA NextIInv == IInv /\ [Next]_vars => IInv'
<1> SUFFICES ASSUME IInv, [Next]_vars PROVE IInv'
  OBVIOUS
<1>1. CASE UNCHANGED vars
  BY <1>1 DEF vars, IInv, TypeOK, KeysDistinct, WorkersOK, DoneMeansDeleted, Accounted,
              Holders, Scheduled
<1> QED BY <1>1, ClaimStep, TryStep, AdvanceStep, AbandonStep, LeaseLapsesStep, PublishStep
        DEF Next, WorkerNext, WorkerStep

\* The invariant holds in every reachable state.
THEOREM Invariant == Spec => []IInv
<1> QED BY InitIInv, NextIInv, PTL DEF Spec

\* Type correctness of the outbox.
THEOREM TypeCorrect == Spec => []TypeOK
<1>1. IInv => TypeOK
  BY DEF IInv
<1> QED BY <1>1, Invariant, PTL

\* An event marked processed has had its object deleted (DoneMeansDeleted),
\* whatever the leases, the workers and the storage do.
THEOREM DeletedWhenDone == Spec => []DoneMeansDeleted
<1>1. IInv => DoneMeansDeleted
  BY DEF IInv
<1> QED BY <1>1, Invariant, PTL

\* The storage is asked to delete an object no more often than its event was
\* claimed, and that is MaxAttempts times at most (TriesBounded), however workers
\* overlap.
THEOREM BoundedTries == Spec => []TriesBounded
<1>1. IInv => TriesBounded
  <2> SUFFICES ASSUME IInv, NEW i \in DOMAIN events
               PROVE  /\ tries[events[i].key] <= events[i].attempts
                      /\ events[i].attempts <= MaxAttempts
    BY DEF TriesBounded
  <2>1. /\ tries[events[i].key] + Cardinality(Holders(i)) <= events[i].attempts
        /\ tries[events[i].key] \in Nat /\ events[i].attempts \in Nat
    BY Numbers DEF IInv, Accounted, TypeOK, Event
  <2>2. Cardinality(Holders(i)) \in Nat
    BY HoldersFinite
  <2>3. tries[events[i].key] <= events[i].attempts
    BY <2>1, <2>2
  <2>4. events[i].attempts <= MaxAttempts
    BY Numbers, BoundsAssumption DEF Event
  <2> QED BY <2>3, <2>4
<1> QED BY <1>1, Invariant, PTL
===============================================================================
