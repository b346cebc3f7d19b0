-------------------------------- MODULE Outbox --------------------------------
(****************************************************************************)
(* The transactional outbox of profile pictures: the outbox_events table    *)
(* and the workers (the timer of each instance, the npm script) that claim  *)
(* its events under a lease and delete the objects they name.               *)
(*                                                                          *)
(* An event is its position in "events", the order of its serial id.  Time  *)
(* is abstracted to what the claim reads of locked_until: NULL, in the      *)
(* future ("held") or in the past ("lapsed"); a held lease may lapse at any *)
(* moment, so a worker may be slower than its lease.  last_error is left    *)
(* out: nothing reads it.                                                   *)
(****************************************************************************)
EXTENDS Naturals, Sequences, FiniteSets

CONSTANTS
    Keys,         \* object keys
    Workers,
    BatchSize,    \* Outbox.batchSize
    MaxAttempts,  \* Outbox.maxAttempts
    MaxFaults     \* bound: failed deletions, failed updates, crashed workers

ASSUME BoundsAssumption ==
    /\ BatchSize \in Nat \ {0}
    /\ MaxAttempts \in Nat \ {0}
    /\ MaxFaults \in Nat
    /\ IsFiniteSet(Workers)

VARIABLES
    events,   \* outbox_events, by id
    objects,  \* the bucket: keys of the stored objects
    worker,   \* the workers' progress
    tries,    \* history: how often the object of each event was asked to be deleted
    faults

vars == <<events, objects, worker, tries, faults>>

Event == [key : Keys, attempts : 0..MaxAttempts,
          lease : {"none", "held", "lapsed"}, done : BOOLEAN]

NewEvent(k) == [key |-> k, attempts |-> 0, lease |-> "none", done |-> FALSE]

IdleWorker == [pc |-> "idle", batch |-> {}]

TypeOK ==
    /\ events \in Seq(Event)
    /\ objects \subseteq Keys
    /\ worker \in [Workers -> [pc : {"idle", "handle", "complete", "fail"},
                               batch : SUBSET (DOMAIN events)]]
    /\ tries \in [Keys -> Nat]
    /\ faults \in 0..MaxFaults

Init ==
    /\ events = << >>
    /\ objects \in SUBSET Keys
    /\ worker = [w \in Workers |-> IdleWorker]
    /\ tries = [k \in Keys |-> 0]
    /\ faults = 0

----------------------------------------------------------------------------
Scheduled(k) == \E i \in DOMAIN events : events[i].key = k

Pending(k) == \E i \in DOMAIN events : events[i].key = k /\ ~events[i].done

\* Mutant: locked_until IS NULL only, a lapsed lease frees nothing.
ClaimableOnce(i) ==
    ~events[i].done /\ events[i].attempts < MaxAttempts /\ events[i].lease = "none"

\* Mutant: the attempts are counted, never compared.
ClaimableForever(i) == ~events[i].done /\ events[i].lease # "held"

\* processed_at IS NULL AND attempts < $3 AND (locked_until IS NULL OR locked_until < now())
Claimable(i) ==
    /\ ~events[i].done
    /\ events[i].attempts < MaxAttempts
    /\ events[i].lease # "held"

Ready == {i \in DOMAIN events : Claimable(i)}

\* ORDER BY id LIMIT $1
NextBatch == {i \in Ready : Cardinality({j \in Ready : j < i}) < BatchSize}

\* One statement: the lease and the attempt are recorded with the claim.
\* FOR UPDATE SKIP LOCKED makes concurrent claims take turns on each row.
Claim(w) ==
    /\ worker[w].pc = "idle"
    /\ Ready # {}
    /\ worker' = [worker EXCEPT ![w] = [pc |-> "handle", batch |-> NextBatch]]
    /\ events' = [i \in DOMAIN events |->
                    IF i \in NextBatch
                      THEN [events[i] EXCEPT !.attempts = @ + 1, !.lease = "held"]
                      ELSE events[i]]
    /\ UNCHANGED <<objects, tries, faults>>

\* locked_until passes, whatever the worker that holds the lease is doing
LeaseLapses(i) ==
    /\ events[i].lease = "held"
    /\ events' = [events EXCEPT ![i].lease = "lapsed"]
    /\ UNCHANGED <<objects, worker, tries, faults>>

\* events of a batch are processed one by one, in the order of their ids
Current(w) == CHOOSE i \in worker[w].batch : \A j \in worker[w].batch : i <= j

Handling(w, step) == worker[w].pc = step /\ worker[w].batch # {}

Fault == faults < MaxFaults /\ faults' = faults + 1

Try(w) == tries' = [tries EXCEPT ![events[Current(w)].key] = @ + 1]

\* deleting a missing key succeeds
Delete(w) ==
    /\ Handling(w, "handle")
    /\ objects' = objects \ {events[Current(w)].key}
    /\ worker' = [worker EXCEPT ![w].pc = "complete"]
    /\ Try(w)
    /\ UNCHANGED <<events, faults>>

\* the storage reports an error, having deleted the object or not
DeleteFails(w) ==
    /\ Handling(w, "handle")
    /\ Fault
    /\ objects' \in {objects, objects \ {events[Current(w)].key}}
    /\ worker' = [worker EXCEPT ![w].pc = "fail"]
    /\ Try(w)
    /\ UNCHANGED events

Advance(w) ==
    LET rest == worker[w].batch \ {Current(w)}
    IN  worker' = [worker EXCEPT ![w] = [pc |-> IF rest = {} THEN "idle" ELSE "handle",
                                         batch |-> rest]]

\* completeOutboxEvent, by id alone: the lease may have passed to another worker
Complete(w) ==
    /\ Handling(w, "complete")
    /\ events' = [events EXCEPT ![Current(w)].done = TRUE, ![Current(w)].lease = "none"]
    /\ Advance(w)
    /\ UNCHANGED <<objects, tries, faults>>

\* Mutant: a failed event is marked processed.
FailCompletes(w) ==
    /\ Handling(w, "fail")
    /\ events' = [events EXCEPT ![Current(w)].done = TRUE]
    /\ Advance(w)
    /\ UNCHANGED <<objects, tries, faults>>

\* Mutant: a failed event is retried at once, without being claimed.
FailRetries(w) ==
    /\ Handling(w, "fail")
    /\ worker' = [worker EXCEPT ![w].pc = "handle"]
    /\ UNCHANGED <<events, objects, tries, faults>>

\* failOutboxEvent: the lease stays, it is the retry delay
Fail(w) ==
    /\ Handling(w, "fail")
    /\ Advance(w)
    /\ UNCHANGED <<events, objects, tries, faults>>

\* completeOutboxEvent or failOutboxEvent throws, or the process dies: the rest
\* of the batch is left to its lease.
Abandon(w) ==
    /\ worker[w].pc # "idle"
    /\ Fault
    /\ worker' = [worker EXCEPT ![w] = IdleWorker]
    /\ UNCHANGED <<events, objects, tries>>

\* the transaction of a picture change, seen from here: it schedules a stored
\* object that no event names yet
Publish(k) ==
    /\ k \in objects
    /\ ~Scheduled(k)
    /\ events' = Append(events, NewEvent(k))
    /\ UNCHANGED <<objects, worker, tries, faults>>

----------------------------------------------------------------------------
WorkerStep(w) == Delete(w) \/ DeleteFails(w) \/ Complete(w) \/ Fail(w)

WorkerNext ==
    \/ \E w \in Workers : Claim(w) \/ WorkerStep(w) \/ Abandon(w)
    \/ \E i \in DOMAIN events : LeaseLapses(i)

Next == WorkerNext \/ \E k \in Keys : Publish(k)

Spec == Init /\ [][Next]_vars

\* The poll timer is re-armed whatever a run did, a batch that runs goes on,
\* and the database clock advances.
Fairness ==
    /\ \A w \in Workers : WF_vars(Claim(w)) /\ WF_vars(WorkerStep(w))
    /\ \A i \in 1..Cardinality(Keys) : WF_vars(i \in DOMAIN events /\ LeaseLapses(i))

FairSpec == Spec /\ Fairness

----------------------------------------------------------------------------
(* Properties *)

\* An event marked processed has had its object deleted, in every order in
\* which slow, failing and overlapping workers can finish.
DoneMeansDeleted ==
    \A i \in DOMAIN events : events[i].done => events[i].key \notin objects

\* No overlap of workers asks the storage for one object more often than the
\* event was claimed, and no event is claimed more than MaxAttempts times.
TriesBounded ==
    \A i \in DOMAIN events :
        tries[events[i].key] <= events[i].attempts /\ events[i].attempts <= MaxAttempts

\* With fewer faults than attempts every scheduled object is deleted and its
\* event marked, even if a worker dies between the two.
EventuallyDeleted ==
    \A k \in Keys : Scheduled(k) ~> (~Pending(k) /\ k \notin objects)
==============================================================================
