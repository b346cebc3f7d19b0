------------------------- MODULE RefreshTokens_proofs -------------------------
(* Proofs about RefreshTokens, for any number of tokens, families, requests *)
(* and purge jobs, and any lifetime, grace window and bounds.               *)
EXTENDS RefreshTokens, TLAPS

\* What a request holds at each of its steps.  It works on a token that was
\* issued and remembers its family; the rows it has locked are live; a rotation
\* that won has locked its token, and what it is about to insert is a new live
\* token of the same family.
RequestOK(r) ==
    /\ r.pc \in {"idle", "decide", "rotate", "scan"} => r.dirty = {}
    /\ r.pc # "commit" => r.newTok = Null
    /\ r.pc \notin {"idle", "decide"} => r.stamp \in Nat
    /\ r.pc # "idle" => /\ r.tok \in issued
                        /\ r.family \in Families
                        /\ fate[r.family] # "unused"
                        /\ rows[r.tok] # Null => rows[r.tok].family = r.family
    /\ r.pc = "decide" => r.seen \in Row
    /\ r.pc \in {"save", "commit"} => r.dirty = {r.tok}
    /\ r.pc = "commit" => /\ r.newTok \in Tokens \ issued
                          /\ r.newRow \in Row
                          /\ r.newRow.family = r.family
                          /\ r.newRow.revokedAt = Null
    /\ \A t \in r.dirty : Live(t)

\* A purge only scans and deletes, and what it has locked is there.
PurgeOK(r) ==
    /\ r.pc \in {"idle", "scan", "visit"}
    /\ r.pc # "idle" => r.stamp \in Nat
    /\ r.pc # "visit" => r.dirty = {}
    /\ r.newTok = Null
    /\ \A t \in r.dirty : rows[t] # Null

\* A row is locked by one transaction.
LocksExclusive ==
    \A p, q \in Procs : p # q => proc[p].dirty \intersect proc[q].dirty = {}

\* Two rotations never insert the same token.
InsertsDistinct ==
    \A p, q \in Procs :
        p # q /\ proc[p].newTok # Null => proc[p].newTok # proc[q].newTok

\* Stored tokens were issued, in families that were opened.
Stored ==
    \A t \in Tokens : rows[t] # Null => t \in issued /\ fate[rows[t].family] # "unused"

\* OneLiveTokenPerFamily, token by token.
OneLive ==
    \A t, u \in Tokens :
        Live(t) /\ Live(u) /\ rows[t].family = rows[u].family => t = u

\* The inductive invariant.
IInv ==
    /\ TypeOK
    /\ \A p \in Requests : RequestOK(proc[p])
    /\ \A w \in Purgers : PurgeOK(proc[w])
    /\ LocksExclusive
    /\ InsertsDistinct
    /\ Stored
    /\ OneLive

-------------------------------------------------------------------------------
\* The invariant holds initially: the table is empty and nothing is in progress.
LEMMA InitInvariant == Init => IInv
<1> SUFFICES ASSUME Init PROVE IInv
  OBVIOUS
<1> USE NullAssumption, TimesAssumption DEF Init, Idle, Procs
<1>1. TypeOK
  BY DEF TypeOK, Steps, Progress
<1>2. \A p \in Requests : RequestOK(proc[p])
  BY DEF RequestOK
<1>3. \A w \in Purgers : PurgeOK(proc[w])
  BY DEF PurgeOK
<1>4. LocksExclusive /\ InsertsDistinct
  BY DEF LocksExclusive, InsertsDistinct
<1>5. Stored /\ OneLive
  BY DEF Stored, OneLive, Live
<1>6. QED
  BY <1>1, <1>2, <1>3, <1>4, <1>5 DEF IInv

\* A step that moves one process on and leaves the table alone preserves the
\* invariant, if what the process then holds is in order.
LEMMA Move ==
  ASSUME IInv, NEW p \in Procs, NEW r \in Progress,
         proc' = [proc EXCEPT ![p] = r],
         UNCHANGED <<rows, issued, known, fate, now>>,
         faults' \in 0..MaxFaults,
         p \in Requests => RequestOK(r),
         p \in Purgers => PurgeOK(r),
         \A q \in Procs \ {p} : r.dirty \intersect proc[q].dirty = {},
         r.newTok # Null => \A q \in Procs \ {p} : proc[q].newTok # r.newTok
  PROVE  IInv'
<1>1. TypeOK'
  BY DEF IInv, TypeOK
<1>2. proc \in [Procs -> Progress] /\ \A q \in Procs : proc'[q] = IF q = p THEN r ELSE proc[q]
  BY DEF IInv, TypeOK
<1>3. ASSUME NEW q \in Requests PROVE RequestOK(proc[q])'
  <2>1. RequestOK(proc'[q])
    BY <1>2 DEF IInv, Procs
  <2>2. QED
    BY <2>1 DEF RequestOK, Live
<1>4. ASSUME NEW w \in Purgers PROVE PurgeOK(proc[w])'
  <2>1. PurgeOK(proc'[w])
    BY <1>2 DEF IInv, Procs
  <2>2. QED
    BY <2>1 DEF PurgeOK
<1>5. LocksExclusive'
  BY <1>2 DEF IInv, LocksExclusive
<1>6. InsertsDistinct'
  BY <1>2 DEF IInv, InsertsDistinct
<1>7. Stored' /\ OneLive'
  BY DEF IInv, Stored, OneLive, Live
<1>8. QED
  BY <1>1, <1>3, <1>4, <1>5, <1>6, <1>7 DEF IInv

\* ... in particular a step that ends it, whether it commits nothing or rolls back.
LEMMA FinishMove ==
  ASSUME IInv, NEW p \in Procs, Finish(p),
         UNCHANGED <<rows, issued, known, fate, now>>,
         faults' \in 0..MaxFaults
  PROVE  IInv'
<1>1. Idle \in Progress
  BY DEF Idle, Progress, Steps
<1>2. RequestOK(Idle) /\ PurgeOK(Idle)
  BY NullAssumption DEF RequestOK, PurgeOK, Idle
<1>3. Idle.dirty = {} /\ Idle.newTok = Null
  BY DEF Idle
<1>4. QED
  BY <1>1, <1>2, <1>3, Move DEF Finish

\* What the invariant says of one request and of one purge.
LEMMA AtRequest ==
  ASSUME IInv, NEW p \in Requests
  PROVE  /\ p \in Procs /\ proc[p] \in Progress /\ RequestOK(proc[p])
         /\ \A q \in Procs \ {p} : proc[p].dirty \intersect proc[q].dirty = {}
         /\ now \in Nat
BY DEF IInv, TypeOK, LocksExclusive, Procs

LEMMA AtPurger ==
  ASSUME IInv, NEW w \in Purgers
  PROVE  /\ w \in Procs /\ proc[w] \in Progress /\ PurgeOK(proc[w])
         /\ \A q \in Procs \ {w} : proc[w].dirty \intersect proc[q].dirty = {}
         /\ now \in Nat
BY DEF IInv, TypeOK, LocksExclusive, Procs

LEMMA RequestMove ==
  ASSUME IInv, NEW p \in Requests, NEW r \in Progress,
         proc' = [proc EXCEPT ![p] = r],
         UNCHANGED <<rows, issued, known, fate, now, faults>>,
         RequestOK(r),
         \A q \in Procs \ {p} : r.dirty \intersect proc[q].dirty = {},
         r.newTok # Null => \A q \in Procs \ {p} : proc[q].newTok # r.newTok
  PROVE  IInv'
BY Move, ProcsAssumption DEF IInv, TypeOK, Procs

LEMMA PurgeMove ==
  ASSUME IInv, NEW w \in Purgers, NEW r \in Progress,
         proc' = [proc EXCEPT ![w] = r],
         UNCHANGED <<rows, issued, known, fate, now, faults>>,
         PurgeOK(r),
         \A q \in Procs \ {w} : r.dirty \intersect proc[q].dirty = {}
  PROVE  IInv'
<1>1. r.newTok = Null
  BY DEF PurgeOK
<1>2. QED
  BY <1>1, Move, ProcsAssumption DEF IInv, TypeOK, Procs

-------------------------------------------------------------------------------
(* Steps that leave the table alone *)

\* A request that starts holds nothing yet.
LEMMA RefreshLoadStep ==
  ASSUME IInv, NEW p \in Requests, NEW t \in known, RefreshLoad(p, t)
  PROVE  IInv'
<1> DEFINE r == [proc[p] EXCEPT !.pc = "decide", !.tok = t,
                                !.family = rows[t].family, !.seen = rows[t]]
<1>1. /\ t \in issued /\ t \in Tokens
      /\ rows[t] \in Row /\ rows[t].family \in Families /\ fate[rows[t].family] # "unused"
  BY DEF IInv, TypeOK, Row, Stored, RefreshLoad
<1>2. proc[p] \in Progress /\ proc[p].dirty = {} /\ proc[p].newTok = Null
  BY AtRequest DEF RefreshLoad, At, RequestOK
<1>3. r \in Progress
  BY <1>1, <1>2 DEF Progress, Steps
<1>4. RequestOK(r)
  BY <1>1, <1>2 DEF RequestOK, Progress
<1>5. proc' = [proc EXCEPT ![p] = r]
  BY DEF RefreshLoad
<1>6. r.dirty = {} /\ r.newTok = Null
  BY <1>2 DEF Progress
<1>7. QED
  BY <1>3, <1>4, <1>5, <1>6, RequestMove DEF RefreshLoad

LEMMA LogoutLoadStep ==
  ASSUME IInv, NEW p \in Requests, NEW t \in known, LogoutLoad(p, t)
  PROVE  IInv'
<1> DEFINE r == [proc[p] EXCEPT !.pc = "scan", !.tok = t,
                                !.family = rows[t].family, !.stamp = now]
<1>1. /\ t \in issued /\ t \in Tokens
      /\ rows[t] \in Row /\ rows[t].family \in Families /\ fate[rows[t].family] # "unused"
  BY DEF IInv, TypeOK, Row, Stored, LogoutLoad
<1>2. proc[p] \in Progress /\ proc[p].dirty = {} /\ proc[p].newTok = Null /\ now \in Nat
  BY AtRequest DEF LogoutLoad, At, RequestOK
<1>3. r \in Progress
  BY <1>1, <1>2 DEF Progress, Steps
<1>4. RequestOK(r)
  BY <1>1, <1>2 DEF RequestOK, Progress
<1>5. proc' = [proc EXCEPT ![p] = r]
  BY DEF LogoutLoad
<1>6. r.dirty = {} /\ r.newTok = Null
  BY <1>2 DEF Progress
<1>7. QED
  BY <1>3, <1>4, <1>5, <1>6, RequestMove DEF LogoutLoad

\* The decision of a refresh only drops what it read and keeps the time.
LEMMA DecideStep ==
  ASSUME IInv, NEW p \in Requests, ReuseDetected(p) \/ BeginRotation(p)
  PROVE  IInv'
<1> DEFINE r(pc) == [proc[p] EXCEPT !.pc = pc, !.seen = Null, !.stamp = now]
<1>1. proc[p] \in Progress /\ RequestOK(proc[p]) /\ now \in Nat /\ proc[p].pc = "decide"
  BY AtRequest DEF ReuseDetected, BeginRotation, At
<1>2. proc[p].dirty = {} /\ proc[p].newTok = Null
  BY <1>1 DEF RequestOK
<1>3. r("scan") \in Progress /\ r("rotate") \in Progress
  BY <1>1 DEF Progress, Steps
<1>4. RequestOK(r("scan")) /\ RequestOK(r("rotate"))
  BY <1>1, <1>2 DEF RequestOK, Progress
<1>5. \A pc \in Steps : r(pc).dirty = {} /\ r(pc).newTok = Null
  BY <1>1, <1>2 DEF Progress
<1>6. CASE ReuseDetected(p)
  <2>1. proc' = [proc EXCEPT ![p] = r("scan")]
    BY <1>6 DEF ReuseDetected
  <2>2. QED
    BY <1>3, <1>4, <1>5, <1>6, <2>1, RequestMove DEF ReuseDetected, Steps
<1>7. CASE BeginRotation(p)
  <2>1. proc' = [proc EXCEPT ![p] = r("rotate")]
    BY <1>7 DEF BeginRotation
  <2>2. QED
    BY <1>3, <1>4, <1>5, <1>7, <2>1, RequestMove DEF BeginRotation, Steps
<1>8. QED
  BY <1>6, <1>7

\* The conditional UPDATE locks a live row that nobody else holds.
LEMMA RotateWonStep ==
  ASSUME IInv, NEW p \in Requests, RotateWon(p)
  PROVE  IInv'
<1> DEFINE r == [proc[p] EXCEPT !.pc = "save", !.dirty = {proc[p].tok}]
<1>1. /\ p \in Procs /\ proc[p] \in Progress /\ RequestOK(proc[p]) /\ proc[p].pc = "rotate"
      /\ Live(proc[p].tok) /\ ~LockedByOther(p, proc[p].tok)
  BY AtRequest DEF RotateWon, At
<1>2. proc[p].tok \in Tokens /\ proc[p].newTok = Null /\ rows[proc[p].tok].family = proc[p].family
  BY <1>1 DEF RequestOK, IInv, TypeOK, Live
<1>3. r \in Progress
  BY <1>1, <1>2 DEF Progress, Steps
<1>4. RequestOK(r)
  BY <1>1, <1>2 DEF RequestOK, Progress
<1>5. proc' = [proc EXCEPT ![p] = r]
  BY DEF RotateWon
<1>6. r.dirty = {proc[p].tok} /\ r.newTok = Null
  BY <1>1, <1>2 DEF Progress
<1>7. \A q \in Procs \ {p} : r.dirty \intersect proc[q].dirty = {}
  BY <1>1, <1>6 DEF LockedByOther
<1>8. QED
  BY <1>3, <1>4, <1>5, <1>6, <1>7, RequestMove DEF RotateWon

\* The successor is a token nobody has and nobody else is about to insert.
LEMMA SaveStep ==
  ASSUME IInv, NEW p \in Requests, NEW t \in Tokens, Save(p, t)
  PROVE  IInv'
<1> DEFINE r == [proc[p] EXCEPT !.pc = "commit", !.newTok = t,
                                !.newRow = NewRow(proc[p].family)]
<1>1. /\ proc[p] \in Progress /\ RequestOK(proc[p]) /\ proc[p].pc = "save" /\ now \in Nat
      /\ \A q \in Procs \ {p} : proc[p].dirty \intersect proc[q].dirty = {}
      /\ t \notin issued /\ \A q \in Procs : proc[q].newTok # t
  BY AtRequest DEF Save, At, Fresh
<1>2. proc[p].family \in Families
  BY <1>1 DEF RequestOK
<1>3. NewRow(proc[p].family) \in Row
  BY <1>1, <1>2, TimesAssumption DEF NewRow, Row
<1>4. r \in Progress
  BY <1>1, <1>3 DEF Progress, Steps
<1>5. RequestOK(r)
  BY <1>1, <1>3 DEF RequestOK, Progress, NewRow
<1>6. proc' = [proc EXCEPT ![p] = r]
  BY DEF Save
<1>7. r.dirty = proc[p].dirty /\ r.newTok = t
  BY <1>1 DEF Progress
<1>8. /\ \A q \in Procs \ {p} : r.dirty \intersect proc[q].dirty = {}
      /\ \A q \in Procs \ {p} : proc[q].newTok # r.newTok
  BY <1>1, <1>7
<1>9. QED
  BY <1>4, <1>5, <1>6, <1>8, RequestMove DEF Save

\* What a statement does to the locals of its process keeps their type.
LEMMA StatementType ==
  ASSUME NEW q \in Progress, NEW ts \in SUBSET Tokens, NEW d \in SUBSET Tokens
  PROVE  /\ [q EXCEPT !.pc = "visit", !.targets = ts] \in Progress
         /\ [q EXCEPT !.targets = ts, !.dirty = d] \in Progress
BY DEF Progress, Steps

LEMMA ScanFamilyStep ==
  ASSUME IInv, NEW p \in Requests, ScanFamily(p)
  PROVE  IInv'
<1> DEFINE r == [proc[p] EXCEPT !.pc = "visit", !.targets = LiveIn(proc[p].family)]
<1>1. proc[p] \in Progress /\ RequestOK(proc[p]) /\ proc[p].pc = "scan"
  BY AtRequest DEF ScanFamily, At
<1>2. proc[p].dirty = {} /\ proc[p].newTok = Null /\ LiveIn(proc[p].family) \in SUBSET Tokens
  BY <1>1 DEF RequestOK, LiveIn
<1>3. r \in Progress
  BY <1>1, <1>2, StatementType
<1>4. RequestOK(r)
  BY <1>1, <1>2 DEF RequestOK, Progress
<1>5. proc' = [proc EXCEPT ![p] = r]
  BY DEF ScanFamily
<1>6. r.dirty = {} /\ r.newTok = Null
  BY <1>1, <1>2 DEF Progress
<1>7. QED
  BY <1>3, <1>4, <1>5, <1>6, RequestMove DEF ScanFamily

\* A row is added to the locked ones only if nobody else holds it and it is live.
LEMMA RevokeRowStep ==
  ASSUME IInv, NEW p \in Requests, NEW t \in Tokens, RevokeRow(p, t)
  PROVE  IInv'
<1> DEFINE d == IF Live(t) THEN proc[p].dirty \union {t} ELSE proc[p].dirty
           r == [proc[p] EXCEPT !.targets = @ \ {t}, !.dirty = d]
<1>1. /\ proc[p] \in Progress /\ RequestOK(proc[p]) /\ proc[p].pc = "visit"
      /\ \A q \in Procs \ {p} : proc[p].dirty \intersect proc[q].dirty = {}
      /\ ~LockedByOther(p, t)
  BY AtRequest DEF RevokeRow, At
<1>2. proc[p].newTok = Null /\ d \in SUBSET Tokens /\ \A u \in d : Live(u)
  BY <1>1 DEF RequestOK, Progress
<1> HIDE DEF d
<1>3. r \in Progress
  <2>1. proc[p].targets \ {t} \in SUBSET Tokens
    BY <1>1 DEF Progress
  <2> QED BY <1>1, <1>2, <2>1, StatementType
<1>4. RequestOK(r)
  BY <1>1, <1>2 DEF RequestOK, Progress
<1>5. proc' = [proc EXCEPT ![p] = r]
  BY DEF RevokeRow, d
<1>6. r.dirty = d /\ r.newTok = Null
  BY <1>1, <1>2 DEF Progress
<1>7. \A q \in Procs \ {p} : r.dirty \intersect proc[q].dirty = {}
  BY <1>1, <1>6 DEF LockedByOther, d
<1>8. QED
  BY <1>3, <1>4, <1>5, <1>6, <1>7, RequestMove DEF RevokeRow

\* The steps of a purge before it commits.
LEMMA PurgeStartStep ==
  ASSUME IInv, NEW w \in Purgers, PurgeStart(w)
  PROVE  IInv'
<1> DEFINE r == [proc[w] EXCEPT !.pc = "scan", !.stamp = now]
<1>1. proc[w] \in Progress /\ PurgeOK(proc[w]) /\ now \in Nat /\ proc[w].dirty = {}
  BY AtPurger DEF PurgeStart, At, PurgeOK
<1>2. r \in Progress
  BY <1>1 DEF Progress, Steps
<1>3. PurgeOK(r) /\ r.dirty = {}
  BY <1>1 DEF PurgeOK, Progress
<1>4. proc' = [proc EXCEPT ![w] = r]
  BY DEF PurgeStart
<1>5. QED
  BY <1>2, <1>3, <1>4, PurgeMove DEF PurgeStart

LEMMA ScanExpiredStep ==
  ASSUME IInv, NEW w \in Purgers, ScanExpired(w)
  PROVE  IInv'
<1> DEFINE r == [proc[w] EXCEPT !.pc = "visit", !.targets = ExpiredBefore(w)]
<1>1. proc[w] \in Progress /\ PurgeOK(proc[w]) /\ proc[w].pc = "scan" /\ proc[w].dirty = {}
  BY AtPurger DEF ScanExpired, At, PurgeOK
<1>2. ExpiredBefore(w) \in SUBSET Tokens
  BY DEF ExpiredBefore
<1>3. r \in Progress
  BY <1>1, <1>2, StatementType
<1>4. PurgeOK(r) /\ r.dirty = {}
  BY <1>1 DEF PurgeOK, Progress
<1>5. proc' = [proc EXCEPT ![w] = r]
  BY DEF ScanExpired
<1>6. QED
  BY <1>3, <1>4, <1>5, PurgeMove DEF ScanExpired

LEMMA DeleteRowStep ==
  ASSUME IInv, NEW w \in Purgers, NEW t \in Tokens, DeleteRow(w, t)
  PROVE  IInv'
<1> DEFINE d == IF t \in ExpiredBefore(w) THEN proc[w].dirty \union {t} ELSE proc[w].dirty
           r == [proc[w] EXCEPT !.targets = @ \ {t}, !.dirty = d]
<1>1. /\ proc[w] \in Progress /\ PurgeOK(proc[w]) /\ proc[w].pc = "visit"
      /\ \A q \in Procs \ {w} : proc[w].dirty \intersect proc[q].dirty = {}
      /\ ~LockedByOther(w, t)
  BY AtPurger DEF DeleteRow, At
<1>2. d \in SUBSET Tokens /\ \A u \in d : rows[u] # Null
  BY <1>1 DEF PurgeOK, Progress, ExpiredBefore
<1>3. \A q \in Procs \ {w} : d \intersect proc[q].dirty = {}
  BY <1>1 DEF LockedByOther
<1> HIDE DEF d
<1>4. r \in Progress
  <2>1. proc[w].targets \ {t} \in SUBSET Tokens
    BY <1>1 DEF Progress
  <2> QED BY <1>1, <1>2, <2>1, StatementType
<1>5. PurgeOK(r)
  BY <1>1, <1>2 DEF PurgeOK, Progress
<1>6. proc' = [proc EXCEPT ![w] = r]
  BY DEF DeleteRow, d
<1>7. r.dirty = d
  BY <1>1 DEF Progress
<1>8. QED
  BY <1>3, <1>4, <1>5, <1>6, <1>7, PurgeMove DEF DeleteRow

\* The steps after which a process holds nothing and nothing was changed.
LEMMA GiveUpStep ==
  ASSUME IInv, NEW p \in Procs,
         Reject(p) \/ RotateLost(p) \/ TokensExhausted(p) \/ Abort(p) \/ DeadlockVictim(p)
  PROVE  IInv'
<1>1. /\ Finish(p)
      /\ UNCHANGED <<rows, issued, known, fate, now>>
  BY DEF Reject, RotateLost, TokensExhausted, Abort, DeadlockVictim
<1>2. faults' \in 0..MaxFaults
  BY TimesAssumption
  DEF Reject, RotateLost, TokensExhausted, Abort, DeadlockVictim, IInv, TypeOK
<1>3. QED
  BY <1>1, <1>2, FinishMove

-------------------------------------------------------------------------------
(* Steps that change the table *)

\* What a step may do to the table without disturbing a process that does not
\* take it: keep the rows that process has locked, bring no issued token back
\* and move none to another family.
Respects(q) ==
    /\ proc'[q] = proc[q]
    /\ issued \subseteq issued'
    /\ proc[q].newTok \notin issued' \ issued
    /\ \A f \in Families : fate[f] # "unused" => fate'[f] # "unused"
    /\ \A t \in issued : rows'[t] # Null =>
           rows[t] # Null /\ rows'[t].family = rows[t].family
    /\ \A t \in proc[q].dirty : rows'[t] = rows[t]

LEMMA RequestUndisturbed ==
  ASSUME IInv, NEW q \in Requests, Respects(q)
  PROVE  RequestOK(proc[q])'
<1>1. RequestOK(proc[q]) /\ proc[q] \in Progress
  BY AtRequest
<1>2. QED
  BY <1>1 DEF RequestOK, Respects, Live, Progress

LEMMA PurgerUndisturbed ==
  ASSUME IInv, NEW q \in Purgers, Respects(q)
  PROVE  PurgeOK(proc[q])'
<1>1. PurgeOK(proc[q]) /\ proc[q] \in Progress
  BY AtPurger
<1>2. QED
  BY <1>1 DEF PurgeOK, Respects

\* A process that has finished holds nothing.
LEMMA Finished ==
  ASSUME IInv, NEW p \in Procs, Finish(p)
  PROVE  /\ proc' \in [Procs -> Progress]
         /\ proc'[p] = Idle
         /\ \A q \in Procs \ {p} : proc'[q] = proc[q]
         /\ p \in Requests => RequestOK(proc[p])'
         /\ p \in Purgers => PurgeOK(proc[p])'
         /\ LocksExclusive'
         /\ InsertsDistinct'
<1>1. proc \in [Procs -> Progress]
  BY DEF IInv, TypeOK
<1>2. Idle \in Progress
  BY DEF Idle, Progress, Steps
<1>3. /\ proc' \in [Procs -> Progress]
      /\ proc'[p] = Idle
      /\ \A q \in Procs \ {p} : proc'[q] = proc[q]
  BY <1>1, <1>2 DEF Finish
<1>4. RequestOK(proc[p])' /\ PurgeOK(proc[p])'
  BY <1>3, NullAssumption DEF RequestOK, PurgeOK, Idle
<1>5. Idle.dirty = {} /\ Idle.newTok = Null
  BY DEF Idle
<1>6. LocksExclusive'
  BY <1>3, <1>5 DEF IInv, LocksExclusive
<1>7. InsertsDistinct'
  BY <1>3, <1>5 DEF IInv, InsertsDistinct
<1>8. QED
  BY <1>3, <1>4, <1>6, <1>7

LEMMA TickStep ==
  ASSUME IInv, Tick PROVE IInv'
<1> USE TimesAssumption
<1>1. TypeOK'
  BY DEF IInv, TypeOK, Tick
<1>2. ASSUME NEW q \in Requests PROVE RequestOK(proc[q])'
  BY DEF IInv, Tick, RequestOK, Live
<1>3. ASSUME NEW q \in Purgers PROVE PurgeOK(proc[q])'
  BY DEF IInv, Tick, PurgeOK
<1>4. LocksExclusive' /\ InsertsDistinct' /\ Stored' /\ OneLive'
  BY DEF IInv, Tick, LocksExclusive, InsertsDistinct, Stored, OneLive, Live
<1>5. QED
  BY <1>1, <1>2, <1>3, <1>4 DEF IInv

\* A login puts a token nobody has in a family nobody opened.
LEMMA LoginStep ==
  ASSUME IInv, NEW t \in Tokens, NEW f \in Families, Login(t, f) PROVE IInv'
<1>1. /\ t \notin issued /\ rows[t] = Null /\ fate[f] = "unused"
      /\ \A q \in Procs : proc[q].newTok # t
      /\ UNCHANGED <<proc, now, faults>>
  BY DEF Login, Fresh, IInv, Stored
<1>2. NewRow(f) \in Row /\ NewRow(f).family = f
  BY TimesAssumption DEF NewRow, Row, IInv, TypeOK
<1>3. /\ rows \in [Tokens -> Row \union {Null}]
      /\ fate \in [Families -> {"unused", "active", "expired", "revoked"}]
      /\ issued \subseteq Tokens /\ known \subseteq issued
  BY DEF IInv, TypeOK
<1>4. /\ rows' = [rows EXCEPT ![t] = NewRow(f)] /\ issued' = issued \union {t}
      /\ fate' = [fate EXCEPT ![f] = "active"]
      /\ known' \in {known, known \union {t}}
  BY DEF Login, Deliver
<1>5. TypeOK'
  <2>1. rows' \in [Tokens -> Row \union {Null}]
    BY <1>2, <1>3, <1>4
  <2>2. fate' \in [Families -> {"unused", "active", "expired", "revoked"}]
    BY <1>3, <1>4
  <2>3. issued' \subseteq Tokens /\ known' \subseteq issued'
    BY <1>3, <1>4
  <2>4. QED
    BY <1>1, <2>1, <2>2, <2>3 DEF IInv, TypeOK
<1>6. \A u \in Tokens : u # t => rows'[u] = rows[u]
  BY <1>3, <1>4
<1>7. rows'[t] = NewRow(f) /\ \A g \in Families : g # f => fate'[g] = fate[g]
  BY <1>3, <1>4
<1>8. fate'[f] = "active"
  BY <1>3, <1>4
<1>9. ASSUME NEW q \in Procs, \A u \in proc[q].dirty : u \in Tokens /\ rows[u] # Null
      PROVE  Respects(q)
  BY <1>1, <1>3, <1>4, <1>6, <1>7, <1>8, <1>9 DEF Respects
<1>10. ASSUME NEW q \in Requests PROVE RequestOK(proc[q])'
  <2>1. \A u \in proc[q].dirty : u \in Tokens /\ rows[u] # Null
    BY AtRequest DEF RequestOK, Live, Progress
  <2>2. QED
    BY <1>9, <2>1, RequestUndisturbed DEF Procs
<1>11. ASSUME NEW q \in Purgers PROVE PurgeOK(proc[q])'
  <2>1. \A u \in proc[q].dirty : u \in Tokens /\ rows[u] # Null
    BY AtPurger DEF PurgeOK, Progress
  <2>2. QED
    BY <1>9, <2>1, PurgerUndisturbed DEF Procs
<1>12. LocksExclusive' /\ InsertsDistinct'
  BY <1>1 DEF IInv, LocksExclusive, InsertsDistinct
<1>13. Stored'
  <2>1. ASSUME NEW u \in Tokens, rows'[u] # Null
        PROVE  u \in issued' /\ fate'[rows'[u].family] # "unused"
    <3>1. CASE u = t
      BY <1>2, <1>4, <1>7, <1>8, <3>1
    <3>2. CASE u # t
      BY <1>1, <1>4, <1>6, <1>7, <1>8, <2>1, <3>2, <1>3 DEF IInv, Stored, Row
    <3>3. QED
      BY <3>1, <3>2
  <2>2. QED
    BY <2>1 DEF Stored
<1>14. OneLive'
  <2>1. ASSUME NEW u \in Tokens, u # t, rows'[u] # Null PROVE rows'[u].family # f
    BY <1>1, <1>6, <2>1 DEF IInv, Stored
  <2>2. QED
    BY <1>2, <1>6, <1>7, <2>1 DEF IInv, OneLive, Live
<1>15. QED
  BY <1>5, <1>10, <1>11, <1>12, <1>13, <1>14 DEF IInv

\* The rows a transaction has revoked keep everything but revoked_at.
LEMMA RevokedRows ==
  ASSUME IInv, NEW p \in Requests, proc[p].stamp \in Nat
  PROVE  /\ Revoked(p) \in [Tokens -> Row \union {Null}]
         /\ \A t \in proc[p].dirty : /\ rows[t] \in Row /\ Revoked(p)[t] \in Row
                                     /\ Revoked(p)[t].family = rows[t].family
                                     /\ Revoked(p)[t].revokedAt # Null
         /\ \A t \in Tokens \ proc[p].dirty : Revoked(p)[t] = rows[t]
<1>1. /\ rows \in [Tokens -> Row \union {Null}]
      /\ proc[p].dirty \subseteq Tokens
      /\ \A t \in proc[p].dirty : rows[t] # Null
  BY AtRequest DEF IInv, TypeOK, Progress, RequestOK, Live
<1>2. \A t \in proc[p].dirty : rows[t] \in Row
  BY <1>1
<1>3. ASSUME NEW t \in proc[p].dirty
      PROVE  LET r == [rows[t] EXCEPT !.revokedAt = proc[p].stamp]
             IN  r \in Row /\ r.family = rows[t].family /\ r.revokedAt # Null
  BY <1>2, NullAssumption DEF Row
<1>4. QED
  BY <1>1, <1>2, <1>3 DEF Revoked

\* A rotation replaces the one live token of its family.
LEMMA CommitRotationStep ==
  ASSUME IInv, NEW p \in Requests, CommitRotation(p) PROVE IInv'
<1> DEFINE t == proc[p].tok
           n == proc[p].newTok
<1>1. /\ p \in Procs /\ proc[p] \in Progress /\ RequestOK(proc[p]) /\ proc[p].pc = "commit"
      /\ \A q \in Procs \ {p} : proc[p].dirty \intersect proc[q].dirty = {}
  BY AtRequest DEF CommitRotation, At
<1>2. /\ t \in issued /\ proc[p].dirty = {t} /\ Live(t) /\ rows[t].family = proc[p].family
      /\ n \in Tokens /\ n \notin issued /\ proc[p].stamp \in Nat
      /\ proc[p].newRow \in Row /\ proc[p].newRow.family = proc[p].family
      /\ proc[p].newRow.revokedAt = Null /\ fate[proc[p].family] # "unused"
  BY <1>1 DEF RequestOK, Live
<1>3. /\ rows \in [Tokens -> Row \union {Null}]
      /\ issued \subseteq Tokens /\ known \subseteq issued
      /\ rows[n] = Null
  BY <1>2 DEF IInv, TypeOK, Stored
<1>4. /\ Revoked(p) \in [Tokens -> Row \union {Null}]
      /\ rows[t] \in Row /\ Revoked(p)[t] \in Row
      /\ Revoked(p)[t].family = rows[t].family /\ Revoked(p)[t].revokedAt # Null
      /\ \A u \in Tokens : u # t => Revoked(p)[u] = rows[u]
  BY <1>2, RevokedRows
<1>5. /\ rows' = [Revoked(p) EXCEPT ![n] = proc[p].newRow] /\ issued' = issued \union {n}
      /\ known' \in {known, known \union {n}}
      /\ UNCHANGED <<fate, now, faults>> /\ Finish(p)
  BY DEF CommitRotation, Deliver
<1> HIDE DEF n, t
<1>6. /\ rows'[n] = proc[p].newRow /\ n # t
      /\ rows'[t] = Revoked(p)[t]
      /\ \A u \in Tokens : u # t /\ u # n => rows'[u] = rows[u]
  BY <1>2, <1>3, <1>4, <1>5
<1>7. TypeOK'
  <2>1. rows' \in [Tokens -> Row \union {Null}]
    BY <1>2, <1>4, <1>5
  <2>2. issued' \subseteq Tokens /\ known' \subseteq issued'
    BY <1>2, <1>3, <1>5
  <2>3. QED
    BY <1>1, <1>5, <2>1, <2>2, Finished DEF IInv, TypeOK
<1>8. ASSUME NEW q \in Procs \ {p}, proc[q].newTok # n,
             \A u \in proc[q].dirty : u \in Tokens /\ rows[u] # Null
      PROVE  Respects(q)
  <2>1. proc'[q] = proc[q]
    BY <1>1, <1>5, Finished
  <2>2. \A u \in proc[q].dirty : u # t /\ u # n
    BY <1>1, <1>2, <1>3, <1>8
  <2>3. \A u \in issued : rows'[u] # Null =>
            rows[u] # Null /\ rows'[u].family = rows[u].family
    BY <1>2, <1>3, <1>4, <1>6 DEF Live
  <2>4. QED
    BY <1>5, <1>6, <1>8, <2>1, <2>2, <2>3 DEF Respects
<1>9. ASSUME NEW q \in Procs \ {p} PROVE proc[q].newTok # n
  BY <1>1, <1>2, NullAssumption DEF IInv, InsertsDistinct, n
<1>10. ASSUME NEW q \in Requests PROVE RequestOK(proc[q])'
  <2>1. CASE q = p
    BY <1>1, <1>5, <2>1, Finished
  <2>2. CASE q # p
    <3>1. \A u \in proc[q].dirty : u \in Tokens /\ rows[u] # Null
      BY AtRequest DEF RequestOK, Live, Progress
    <3>2. QED
      BY <1>8, <1>9, <2>2, <3>1, RequestUndisturbed DEF Procs
  <2>3. QED
    BY <2>1, <2>2
<1>11. ASSUME NEW q \in Purgers PROVE PurgeOK(proc[q])'
  <2>1. \A u \in proc[q].dirty : u \in Tokens /\ rows[u] # Null
    BY AtPurger DEF PurgeOK, Progress
  <2>2. QED
    BY <1>8, <1>9, <2>1, PurgerUndisturbed, ProcsAssumption DEF Procs
<1>12. LocksExclusive' /\ InsertsDistinct'
  BY <1>1, <1>5, Finished
<1>13. Stored'
  <2>1. ASSUME NEW u \in Tokens, rows'[u] # Null
        PROVE  u \in issued' /\ fate'[rows'[u].family] # "unused"
    BY <1>2, <1>4, <1>5, <1>6, <2>1 DEF IInv, Stored
  <2>2. QED
    BY <2>1 DEF Stored
<1>14. OneLive'
  <2>1. ASSUME NEW u \in Tokens, rows'[u] # Null, rows'[u].revokedAt = Null, u # n
        PROVE  u # t /\ rows'[u] = rows[u] /\ rows'[u].family # proc[p].family
    BY <1>2, <1>3, <1>4, <1>6, <2>1 DEF IInv, OneLive, Live
  <2>2. QED
    BY <1>2, <1>6, <2>1 DEF IInv, OneLive, Live
<1>15. QED
  BY <1>7, <1>10, <1>11, <1>12, <1>13, <1>14 DEF IInv

\* A revocation ends live tokens and starts none.
LEMMA CommitRevocationStep ==
  ASSUME IInv, NEW p \in Requests, CommitRevocation(p) PROVE IInv'
<1>1. /\ p \in Procs /\ proc[p] \in Progress /\ RequestOK(proc[p]) /\ proc[p].pc = "visit"
      /\ \A q \in Procs \ {p} : proc[p].dirty \intersect proc[q].dirty = {}
  BY AtRequest DEF CommitRevocation, At
<1>2. /\ proc[p].stamp \in Nat /\ proc[p].family \in Families
      /\ \A t \in proc[p].dirty : t \in Tokens /\ Live(t)
  BY <1>1 DEF RequestOK, Progress
<1>3. /\ Revoked(p) \in [Tokens -> Row \union {Null}]
      /\ \A t \in proc[p].dirty : /\ rows[t] \in Row /\ Revoked(p)[t] \in Row
                                  /\ Revoked(p)[t].family = rows[t].family
                                  /\ Revoked(p)[t].revokedAt # Null
      /\ \A t \in Tokens \ proc[p].dirty : Revoked(p)[t] = rows[t]
  BY <1>2, RevokedRows
<1>4. /\ rows' = Revoked(p)
      /\ fate' = [fate EXCEPT ![proc[p].family] = "revoked"]
      /\ UNCHANGED <<issued, known, now, faults>> /\ Finish(p)
  BY DEF CommitRevocation
<1>5. fate \in [Families -> {"unused", "active", "expired", "revoked"}]
  BY DEF IInv, TypeOK
<1>6. /\ fate' \in [Families -> {"unused", "active", "expired", "revoked"}]
      /\ \A f \in Families : fate[f] # "unused" => fate'[f] # "unused"
  BY <1>4, <1>5
<1>7. \A t \in Tokens : rows'[t] # Null =>
          rows[t] # Null /\ rows'[t].family = rows[t].family /\ (Live(t)' => Live(t))
  BY <1>2, <1>3, <1>4 DEF Live
<1>8. TypeOK'
  BY <1>1, <1>3, <1>4, <1>6, Finished DEF IInv, TypeOK
<1>9. ASSUME NEW q \in Procs \ {p}, \A u \in proc[q].dirty : u \in Tokens
      PROVE  Respects(q)
  <2>1. proc'[q] = proc[q]
    BY <1>1, <1>4, Finished
  <2>2. \A u \in proc[q].dirty : rows'[u] = rows[u]
    BY <1>1, <1>3, <1>4, <1>9
  <2>3. \A u \in issued : u \in Tokens
    BY DEF IInv, TypeOK
  <2>4. QED
    BY <1>4, <1>6, <1>7, <2>1, <2>2, <2>3 DEF Respects
<1>10. ASSUME NEW q \in Requests PROVE RequestOK(proc[q])'
  <2>1. CASE q = p
    BY <1>1, <1>4, <2>1, Finished
  <2>2. CASE q # p
    <3>1. \A u \in proc[q].dirty : u \in Tokens
      BY AtRequest DEF Progress
    <3>2. QED
      BY <1>9, <2>2, <3>1, RequestUndisturbed DEF Procs
  <2>3. QED
    BY <2>1, <2>2
<1>11. ASSUME NEW q \in Purgers PROVE PurgeOK(proc[q])'
  <2>1. \A u \in proc[q].dirty : u \in Tokens
    BY AtPurger DEF Progress
  <2>2. QED
    BY <1>9, <2>1, PurgerUndisturbed, ProcsAssumption DEF Procs
<1>12. LocksExclusive' /\ InsertsDistinct'
  BY <1>1, <1>4, Finished
<1>13. Stored'
  <2>1. ASSUME NEW u \in Tokens, rows'[u] # Null
        PROVE  u \in issued' /\ fate'[rows'[u].family] # "unused"
    <3>1. rows[u] \in Row \/ rows[u] = Null
      BY DEF IInv, TypeOK
    <3>2. rows[u].family \in Families
      BY <1>7, <2>1, <3>1 DEF Row
    <3>3. QED
      BY <1>4, <1>6, <1>7, <2>1, <3>2 DEF IInv, Stored
  <2>2. QED
    BY <2>1 DEF Stored
<1>14. OneLive'
  BY <1>7 DEF IInv, OneLive, Live
<1>15. QED
  BY <1>8, <1>10, <1>11, <1>12, <1>13, <1>14 DEF IInv

\* A purge only takes rows away.
LEMMA CommitPurgeStep ==
  ASSUME IInv, NEW w \in Purgers, CommitPurge(w) PROVE IInv'
<1>1. /\ w \in Procs /\ proc[w] \in Progress
      /\ \A q \in Procs \ {w} : proc[w].dirty \intersect proc[q].dirty = {}
  BY AtPurger
<1>2. /\ rows' = [t \in Tokens |-> IF t \in proc[w].dirty THEN Null ELSE rows[t]]
      /\ UNCHANGED <<issued, known, now, faults>> /\ Finish(w)
  BY DEF CommitPurge
<1>3. /\ rows \in [Tokens -> Row \union {Null}]
      /\ fate \in [Families -> {"unused", "active", "expired", "revoked"}]
  BY DEF IInv, TypeOK
<1>4. /\ fate' \in [Families -> {"unused", "active", "expired", "revoked"}]
      /\ \A f \in Families : fate[f] # "unused" => fate'[f] # "unused"
  BY <1>3 DEF CommitPurge
<1>5. \A t \in Tokens : rows'[t] # Null => rows[t] # Null /\ rows'[t] = rows[t]
  BY <1>2
<1>6. TypeOK'
  BY <1>1, <1>2, <1>3, <1>4, Finished DEF IInv, TypeOK
<1>7. ASSUME NEW q \in Procs \ {w}, \A u \in proc[q].dirty : u \in Tokens
      PROVE  Respects(q)
  <2>1. proc'[q] = proc[q]
    BY <1>1, <1>2, Finished
  <2>2. \A u \in proc[q].dirty : rows'[u] = rows[u]
    BY <1>1, <1>2, <1>7
  <2>3. \A u \in issued : u \in Tokens
    BY DEF IInv, TypeOK
  <2>4. QED
    BY <1>2, <1>4, <1>5, <2>1, <2>2, <2>3 DEF Respects
<1>8. ASSUME NEW q \in Requests PROVE RequestOK(proc[q])'
  <2>1. \A u \in proc[q].dirty : u \in Tokens
    BY AtRequest DEF Progress
  <2>2. QED
    BY <1>7, <2>1, RequestUndisturbed, ProcsAssumption DEF Procs
<1>9. ASSUME NEW q \in Purgers PROVE PurgeOK(proc[q])'
  <2>1. CASE q = w
    BY <1>1, <1>2, <2>1, Finished
  <2>2. CASE q # w
    <3>1. \A u \in proc[q].dirty : u \in Tokens
      BY AtPurger DEF Progress
    <3>2. QED
      BY <1>7, <2>2, <3>1, PurgerUndisturbed DEF Procs
  <2>3. QED
    BY <2>1, <2>2
<1>10. LocksExclusive' /\ InsertsDistinct'
  BY <1>1, <1>2, Finished
<1>11. Stored'
  <2>1. ASSUME NEW u \in Tokens, rows'[u] # Null
        PROVE  u \in issued' /\ fate'[rows'[u].family] # "unused"
    BY <1>2, <1>3, <1>4, <1>5, <2>1 DEF IInv, Stored, Row
  <2>2. QED
    BY <2>1 DEF Stored
<1>12. OneLive'
  BY <1>5 DEF IInv, OneLive, Live
<1>13. QED
  BY <1>6, <1>8, <1>9, <1>10, <1>11, <1>12 DEF IInv

-------------------------------------------------------------------------------
\* Every step preserves the invariant.
LEMMA NextInvariant == IInv /\ [Next]_vars => IInv'
<1> SUFFICES ASSUME IInv, [Next]_vars PROVE IInv'
  OBVIOUS
<1>1. CASE Tick
  BY <1>1, TickStep
<1>2. CASE \E t \in Tokens, f \in Families : Login(t, f)
  BY <1>2, LoginStep
<1>3. CASE \E p \in Requests, t \in known : RefreshLoad(p, t) \/ LogoutLoad(p, t)
  BY <1>3, RefreshLoadStep, LogoutLoadStep
<1>4. ASSUME NEW p \in Requests, RequestStep(p) PROVE IInv'
  <2>1. CASE ReuseDetected(p) \/ BeginRotation(p)
    BY <2>1, DecideStep
  <2>2. CASE Reject(p) \/ RotateLost(p) \/ TokensExhausted(p)
    BY <2>2, GiveUpStep DEF Procs
  <2>3. CASE RotateWon(p)
    BY <2>3, RotateWonStep
  <2>4. CASE \E t \in Tokens : Save(p, t)
    BY <2>4, SaveStep
  <2>5. CASE CommitRotation(p)
    BY <2>5, CommitRotationStep
  <2>6. CASE ScanFamily(p)
    BY <2>6, ScanFamilyStep
  <2>7. CASE \E t \in Tokens : RevokeRow(p, t)
    BY <2>7, RevokeRowStep
  <2>8. CASE CommitRevocation(p)
    BY <2>8, CommitRevocationStep
  <2>9. QED
    BY <1>4, <2>1, <2>2, <2>3, <2>4, <2>5, <2>6, <2>7, <2>8 DEF RequestStep
<1>5. ASSUME NEW w \in Purgers, PurgeStart(w) \/ PurgeStep(w) PROVE IInv'
  <2>1. CASE PurgeStart(w)
    BY <2>1, PurgeStartStep
  <2>2. CASE ScanExpired(w)
    BY <2>2, ScanExpiredStep
  <2>3. CASE \E t \in Tokens : DeleteRow(w, t)
    BY <2>3, DeleteRowStep
  <2>4. CASE CommitPurge(w)
    BY <2>4, CommitPurgeStep
  <2>5. QED
    BY <1>5, <2>1, <2>2, <2>3, <2>4 DEF PurgeStep
<1>6. CASE \E p \in Procs : Abort(p) \/ DeadlockVictim(p)
  BY <1>6, GiveUpStep
<1>7. CASE UNCHANGED vars
  BY <1>7 DEF vars, IInv, TypeOK, RequestOK, PurgeOK, LocksExclusive, InsertsDistinct,
              Stored, OneLive, Live
<1>8. QED
  BY <1>1, <1>2, <1>3, <1>4, <1>5, <1>6, <1>7 DEF Next

\* The invariant holds in every reachable state.
THEOREM Invariant == Spec => []IInv
<1>1. QED
  BY InitInvariant, NextInvariant, PTL DEF Spec

\* Type correctness (TypeOK), for every value of the constants.
THEOREM TypeCorrect == Spec => []TypeOK
<1>1. IInv => TypeOK
  BY DEF IInv
<1>2. QED
  BY <1>1, Invariant, PTL

\* At most one live token per family (OneLiveTokenPerFamily), whatever the
\* number of concurrent refreshes, logouts and purges and wherever they fail.
THEOREM OneLiveToken == Spec => []OneLiveTokenPerFamily
<1>1. IInv => OneLiveTokenPerFamily
  BY DEF IInv, OneLive, OneLiveTokenPerFamily, LiveIn
<1>2. QED
  BY <1>1, Invariant, PTL
-------------------------------------------------------------------------------
(* What a request holds while it revokes a family, and what follows from it *)

\* A statement over a family still has to visit at most one row, and then has
\* locked none; the rows it visits and the one it has locked are of its family;
\* the token presented, while it can be rotated, is one of them.
RevocationOK(r) ==
    /\ r.pc # "visit" => r.targets = {}
    /\ \A t \in r.targets \union r.dirty :
           t \in issued /\ (rows[t] # Null => rows[t].family = r.family)
    /\ \A t, u \in r.targets : t = u
    /\ r.targets # {} => r.dirty = {}
    /\ r.pc = "visit" /\ Live(r.tok) => r.tok \in r.targets \union r.dirty

\* The second inductive invariant, relative to the first.
JInv ==
    /\ \A p \in Requests : RevocationOK(proc[p])
    /\ SessionSurvives

\* What a step does to the tokens that were issued before it: none is brought
\* back, moved to another family or made live again.
Ages ==
    /\ issued \subseteq issued'
    /\ \A t \in issued : rows'[t] # Null =>
           /\ rows[t] # Null
           /\ rows'[t].family = rows[t].family
           /\ rows'[t].revokedAt = Null => rows[t].revokedAt = Null

\* The steps that change the table.
TableStep ==
    \/ \E t \in Tokens, f \in Families : Login(t, f)
    \/ \E p \in Requests : CommitRotation(p) \/ CommitRevocation(p)
    \/ \E w \in Purgers : CommitPurge(w)

\* Every other step leaves it, and the fate of the families, alone.
LEMMA OtherSteps ==
  ASSUME [Next]_vars, ~TableStep
  PROVE  UNCHANGED <<rows, issued, fate>>
<1> USE DEF TableStep
<1>1. CASE Tick
  BY <1>1 DEF Tick
<1>2. CASE \E p \in Requests, t \in known : RefreshLoad(p, t) \/ LogoutLoad(p, t)
  BY <1>2 DEF RefreshLoad, LogoutLoad
<1>3. ASSUME NEW p \in Requests, RequestStep(p) PROVE UNCHANGED <<rows, issued, fate>>
  BY <1>3 DEF RequestStep, ReuseDetected, Reject, BeginRotation, RotateWon, RotateLost,
              Save, TokensExhausted, ScanFamily, RevokeRow
<1>4. ASSUME NEW w \in Purgers, PurgeStart(w) \/ PurgeStep(w)
      PROVE  UNCHANGED <<rows, issued, fate>>
  BY <1>4 DEF PurgeStart, PurgeStep, ScanExpired, DeleteRow
<1>5. CASE \E p \in Procs : Abort(p) \/ DeadlockVictim(p)
  BY <1>5 DEF Abort, DeadlockVictim
<1>6. CASE UNCHANGED vars
  BY <1>6 DEF vars
<1>7. QED
  BY <1>1, <1>2, <1>3, <1>4, <1>5, <1>6 DEF Next

\* What a login does to the table.
LEMMA LoginEffect ==
  ASSUME IInv, NEW t \in Tokens, NEW f \in Families, Login(t, f)
  PROVE  /\ t \notin issued /\ issued' = issued \union {t}
         /\ fate[f] = "unused" /\ fate'[f] = "active"
         /\ \A g \in Families \ {f} : fate'[g] = fate[g]
         /\ rows'[t] # Null /\ rows'[t].family = f /\ rows'[t].revokedAt = Null
         /\ \A u \in Tokens \ {t} : rows'[u] = rows[u]
         /\ proc' = proc
<1>1. NewRow(f) \in Row /\ NewRow(f).family = f /\ NewRow(f).revokedAt = Null
  BY TimesAssumption DEF NewRow, Row, IInv, TypeOK
<1>2. NewRow(f) # Null
  BY <1>1, NullAssumption
<1>3. /\ rows \in [Tokens -> Row \union {Null}]
      /\ fate \in [Families -> {"unused", "active", "expired", "revoked"}]
  BY DEF IInv, TypeOK
<1>4. QED
  BY <1>1, <1>2, <1>3 DEF Login, Fresh

\* ... and a rotation: its token gives way to a new one of the same family.
LEMMA RotationEffect ==
  ASSUME IInv, NEW p \in Requests, CommitRotation(p)
  PROVE  LET t == proc[p].tok
             n == proc[p].newTok
             f == proc[p].family
         IN  /\ f \in Families /\ t \in Tokens /\ Live(t) /\ rows[t].family = f
             /\ n \in Tokens /\ n \notin issued /\ issued' = issued \union {n}
             /\ UNCHANGED fate
             /\ rows'[n] # Null /\ rows'[n].family = f /\ rows'[n].revokedAt = Null
             /\ rows'[t].family = f /\ rows'[t].revokedAt # Null
             /\ \A u \in Tokens \ {t, n} : rows'[u] = rows[u]
<1>1. proc[p] \in Progress /\ RequestOK(proc[p]) /\ proc[p].pc = "commit"
  BY AtRequest DEF CommitRotation, At
<1>2. /\ proc[p].dirty = {proc[p].tok} /\ proc[p].stamp \in Nat
      /\ Live(proc[p].tok) /\ rows[proc[p].tok].family = proc[p].family
      /\ proc[p].family \in Families /\ proc[p].tok \in issued
      /\ proc[p].newTok \in Tokens /\ proc[p].newTok \notin issued
      /\ proc[p].newRow \in Row /\ proc[p].newRow # Null
      /\ proc[p].newRow.family = proc[p].family /\ proc[p].newRow.revokedAt = Null
  BY <1>1, NullAssumption DEF RequestOK, Live
<1>3. proc[p].tok \in Tokens /\ proc[p].tok # proc[p].newTok
  BY <1>2 DEF IInv, TypeOK
<1>4. /\ Revoked(p) \in [Tokens -> Row \union {Null}]
      /\ Revoked(p)[proc[p].tok].family = proc[p].family
      /\ Revoked(p)[proc[p].tok].revokedAt # Null
      /\ \A u \in Tokens \ {proc[p].tok} : Revoked(p)[u] = rows[u]
  BY <1>2, RevokedRows
<1>5. rows' = [Revoked(p) EXCEPT ![proc[p].newTok] = proc[p].newRow]
      /\ issued' = issued \union {proc[p].newTok} /\ UNCHANGED fate
  BY DEF CommitRotation
<1>6. /\ rows'[proc[p].newTok] = proc[p].newRow
      /\ \A u \in Tokens \ {proc[p].newTok} : rows'[u] = Revoked(p)[u]
  BY <1>2, <1>4, <1>5
<1>7. QED
  BY <1>2, <1>3, <1>4, <1>5, <1>6

\* ... and a revocation: the rows it has locked are revoked.
LEMMA RevocationEffect ==
  ASSUME IInv, NEW p \in Requests, CommitRevocation(p)
  PROVE  /\ proc[p].family \in Families /\ fate[proc[p].family] # "unused"
         /\ fate'[proc[p].family] = "revoked"
         /\ \A g \in Families \ {proc[p].family} : fate'[g] = fate[g]
         /\ UNCHANGED issued
         /\ proc[p].targets = {} /\ proc[p].pc = "visit"
         /\ \A t \in proc[p].dirty : /\ rows'[t].family = rows[t].family
                                     /\ rows'[t].revokedAt # Null
         /\ \A t \in Tokens \ proc[p].dirty : rows'[t] = rows[t]
         /\ \A t \in proc[p].dirty : t \in Tokens /\ Live(t)
<1>1. proc[p] \in Progress /\ RequestOK(proc[p]) /\ proc[p].pc = "visit"
  BY AtRequest DEF CommitRevocation, At
<1>2. /\ proc[p].stamp \in Nat /\ proc[p].family \in Families
      /\ fate[proc[p].family] # "unused"
      /\ \A t \in proc[p].dirty : t \in Tokens /\ Live(t)
  BY <1>1 DEF RequestOK, Progress
<1>3. fate \in [Families -> {"unused", "active", "expired", "revoked"}]
  BY DEF IInv, TypeOK
<1>4. /\ rows' = Revoked(p) /\ UNCHANGED issued /\ proc[p].targets = {}
      /\ fate' = [fate EXCEPT ![proc[p].family] = "revoked"]
  BY DEF CommitRevocation
<1>5. /\ \A t \in proc[p].dirty : /\ Revoked(p)[t].family = rows[t].family
                                  /\ Revoked(p)[t].revokedAt # Null
      /\ \A t \in Tokens \ proc[p].dirty : Revoked(p)[t] = rows[t]
  BY <1>2, RevokedRows
<1>6. QED
  BY <1>1, <1>2, <1>3, <1>4, <1>5

\* No step un-revokes, brings back or moves a token issued before it.
LEMMA StepAges ==
  ASSUME IInv, [Next]_vars
  PROVE  Ages
<1>1. issued \subseteq Tokens
  BY DEF IInv, TypeOK
<1>2. CASE ~TableStep
  BY <1>2, OtherSteps DEF Ages
<1>3. ASSUME NEW t \in Tokens, NEW f \in Families, Login(t, f) PROVE Ages
  BY <1>1, <1>3, LoginEffect DEF Ages
<1>4. ASSUME NEW p \in Requests, CommitRotation(p) PROVE Ages
  BY <1>1, <1>4, RotationEffect DEF Ages, Live
<1>5. ASSUME NEW p \in Requests, CommitRevocation(p) PROVE Ages
  BY <1>1, <1>5, RevocationEffect DEF Ages, Live
<1>6. ASSUME NEW w \in Purgers, CommitPurge(w) PROVE Ages
  BY <1>1, <1>6 DEF Ages, CommitPurge
<1>7. QED
  BY <1>2, <1>3, <1>4, <1>5, <1>6 DEF TableStep


\* A request that does not move keeps what it holds in order.
LEMMA RevocationUndisturbed ==
  ASSUME IInv, Ages, NEW p \in Requests, RevocationOK(proc[p]), proc'[p] = proc[p]
  PROVE  RevocationOK(proc[p])'
<1>1. RequestOK(proc[p]) /\ proc[p] \in Progress
  BY AtRequest
<1>2. proc[p].pc = "visit" => proc[p].tok \in issued
  BY <1>1 DEF RequestOK
<1>3. QED
  BY <1>2 DEF RevocationOK, Ages, Live

\* What a step leaves one request with: what it had, nothing, or the outcome
\* of one of its own steps, which leave the table alone.
LEMMA RequestMoves ==
  ASSUME IInv, [Next]_vars, NEW p \in Requests
  PROVE  \/ proc'[p] = proc[p]
         \/ proc'[p] = Idle
         \/ \E t \in known : RefreshLoad(p, t) \/ LogoutLoad(p, t)
         \/ ReuseDetected(p) \/ BeginRotation(p) \/ RotateWon(p) \/ ScanFamily(p)
         \/ \E t \in Tokens : Save(p, t) \/ RevokeRow(p, t)
<1>1. proc \in [Procs -> Progress] /\ p \in Procs
  BY DEF IInv, TypeOK, Procs
<1>2. CASE Tick \/ (\E t \in Tokens, f \in Families : Login(t, f)) \/ UNCHANGED vars
  BY <1>2 DEF Tick, Login, vars
<1>3. ASSUME NEW q \in Procs, Finish(q) PROVE proc'[p] = proc[p] \/ proc'[p] = Idle
  BY <1>1, <1>3 DEF Finish
<1>4. ASSUME NEW q \in Requests, NEW t \in known, RefreshLoad(q, t) \/ LogoutLoad(q, t), q # p
      PROVE  proc'[p] = proc[p]
  BY <1>1, <1>4 DEF RefreshLoad, LogoutLoad
<1>5. ASSUME NEW q \in Requests, RequestStep(q) PROVE \/ Finish(q)
                                                     \/ q = p
                                                     \/ proc'[p] = proc[p]
  BY <1>1, <1>5 DEF RequestStep, ReuseDetected, Reject, BeginRotation, RotateWon, RotateLost,
       Save, TokensExhausted, CommitRotation, ScanFamily, RevokeRow, CommitRevocation
<1>6. ASSUME RequestStep(p)
      PROVE  \/ Finish(p)
             \/ ReuseDetected(p) \/ BeginRotation(p) \/ RotateWon(p) \/ ScanFamily(p)
             \/ \E t \in Tokens : Save(p, t) \/ RevokeRow(p, t)
  BY <1>6 DEF RequestStep, Reject, RotateLost, TokensExhausted, CommitRotation, CommitRevocation
<1>7. ASSUME NEW w \in Purgers, PurgeStart(w) \/ PurgeStep(w)
      PROVE  Finish(w) \/ proc'[p] = proc[p]
  BY <1>1, <1>7, ProcsAssumption DEF PurgeStart, PurgeStep, ScanExpired, DeleteRow, CommitPurge
<1>8. ASSUME NEW q \in Procs, Abort(q) \/ DeadlockVictim(q) PROVE Finish(q)
  BY <1>8 DEF Abort, DeadlockVictim
<1>9. QED
  BY <1>2, <1>3, <1>4, <1>5, <1>6, <1>7, <1>8 DEF Next, Procs

\* The outcome of a request's own step is in order.
LEMMA OwnStep ==
  ASSUME IInv, NEW p \in Requests, RevocationOK(proc[p]),
         \/ \E t \in known : RefreshLoad(p, t) \/ LogoutLoad(p, t)
         \/ ReuseDetected(p) \/ BeginRotation(p) \/ RotateWon(p) \/ ScanFamily(p)
         \/ \E t \in Tokens : Save(p, t) \/ RevokeRow(p, t)
  PROVE  RevocationOK(proc[p])'
<1>1. /\ proc \in [Procs -> Progress] /\ p \in Procs
      /\ proc[p] \in Progress /\ RequestOK(proc[p])
  BY AtRequest DEF IInv, TypeOK
<1>2. ASSUME NEW t \in known, RefreshLoad(p, t) \/ LogoutLoad(p, t)
      PROVE  RevocationOK(proc[p])'
  <2>1. /\ proc'[p].pc \in {"decide", "scan"}
        /\ proc'[p].targets = proc[p].targets /\ proc'[p].dirty = proc[p].dirty
        /\ proc[p].pc = "idle"
    <3>1. CASE RefreshLoad(p, t)
      BY <1>1, <3>1 DEF RefreshLoad, At, Progress
    <3>2. CASE LogoutLoad(p, t)
      BY <1>1, <3>2 DEF LogoutLoad, At, Progress
    <3>3. QED
      BY <1>2, <3>1, <3>2
  <2>2. proc[p].targets = {} /\ proc[p].dirty = {}
    BY <1>1, <2>1 DEF RequestOK, RevocationOK
  <2>3. QED
    BY <2>1, <2>2 DEF RevocationOK
<1>3. CASE ReuseDetected(p) \/ BeginRotation(p)
  <2>1. /\ proc'[p].pc \in {"rotate", "scan"}
        /\ proc'[p].targets = proc[p].targets /\ proc'[p].dirty = proc[p].dirty
        /\ proc[p].pc = "decide"
    BY <1>1, <1>3 DEF ReuseDetected, BeginRotation, At, Progress
  <2>2. proc[p].targets = {} /\ proc[p].dirty = {}
    BY <1>1, <2>1 DEF RequestOK, RevocationOK
  <2>3. QED
    BY <2>1, <2>2 DEF RevocationOK
<1>4. CASE RotateWon(p)
  <2>1. /\ proc'[p].pc = "save" /\ proc'[p].targets = proc[p].targets
        /\ proc'[p].dirty = {proc[p].tok} /\ proc'[p].family = proc[p].family
        /\ proc[p].pc = "rotate" /\ UNCHANGED <<rows, issued>>
    BY <1>1, <1>4 DEF RotateWon, At, Progress
  <2>2. /\ proc[p].targets = {} /\ proc[p].tok \in issued
        /\ rows[proc[p].tok] # Null => rows[proc[p].tok].family = proc[p].family
    BY <1>1, <2>1 DEF RequestOK, RevocationOK
  <2>3. QED
    BY <2>1, <2>2 DEF RevocationOK
<1>5. ASSUME NEW t \in Tokens, Save(p, t) PROVE RevocationOK(proc[p])'
  <2>1. /\ proc'[p].pc = "commit" /\ proc'[p].targets = proc[p].targets
        /\ proc'[p].dirty = proc[p].dirty /\ proc'[p].family = proc[p].family
        /\ proc[p].pc = "save" /\ UNCHANGED <<rows, issued>>
    BY <1>1, <1>5 DEF Save, At, Progress
  <2>2. QED
    BY <2>1 DEF RevocationOK
<1>6. CASE ScanFamily(p)
  <2>1. /\ proc'[p].pc = "visit" /\ proc'[p].targets = LiveIn(proc[p].family)
        /\ proc'[p].dirty = proc[p].dirty /\ proc'[p].family = proc[p].family
        /\ proc'[p].tok = proc[p].tok
        /\ proc[p].pc = "scan" /\ UNCHANGED <<rows, issued>>
    BY <1>1, <1>6 DEF ScanFamily, At, Progress
  <2>2. /\ proc[p].dirty = {} /\ proc[p].tok \in Tokens
        /\ rows[proc[p].tok] # Null => rows[proc[p].tok].family = proc[p].family
    BY <1>1, <2>1 DEF RequestOK, IInv, TypeOK
  <2>3. \A t \in LiveIn(proc[p].family) :
            t \in Tokens /\ t \in issued /\ rows[t].family = proc[p].family
    BY DEF LiveIn, Live, IInv, Stored
  <2>4. \A t, u \in LiveIn(proc[p].family) : t = u
    BY DEF LiveIn, IInv, OneLive
  <2>5. Live(proc[p].tok) => proc[p].tok \in LiveIn(proc[p].family)
    BY <2>2 DEF LiveIn, Live
  <2> HIDE DEF RevocationOK
  <2>6. QED
    BY <2>1, <2>2, <2>3, <2>4, <2>5 DEF RevocationOK, Live
<1>7. ASSUME NEW t \in Tokens, RevokeRow(p, t) PROVE RevocationOK(proc[p])'
  <2>1. /\ proc'[p].pc = "visit" /\ proc'[p].targets = proc[p].targets \ {t}
        /\ proc'[p].dirty = IF Live(t) THEN proc[p].dirty \union {t} ELSE proc[p].dirty
        /\ proc'[p].family = proc[p].family /\ proc'[p].tok = proc[p].tok
        /\ proc[p].pc = "visit" /\ t \in proc[p].targets /\ UNCHANGED <<rows, issued>>
    BY <1>1, <1>7 DEF RevokeRow, At, Progress
  <2>2. proc'[p].targets = {}
    BY <2>1 DEF RevocationOK
  <2>3. \A u \in proc'[p].dirty : u \in proc[p].targets \union proc[p].dirty
    BY <2>1
  <2>4. Live(proc[p].tok) => proc[p].tok \in proc'[p].dirty
    BY <2>1 DEF RevocationOK
  <2>5. QED
    BY <2>1, <2>2, <2>3, <2>4 DEF RevocationOK, Live
<1>8. QED
  BY <1>2, <1>3, <1>4, <1>5, <1>6, <1>7

\* No step leaves a request with locks or rows to visit that it should not have.
LEMMA RevocationStep ==
  ASSUME IInv, [Next]_vars, NEW p \in Requests, RevocationOK(proc[p])
  PROVE  RevocationOK(proc[p])'
<1>1. CASE proc'[p] = proc[p]
  BY <1>1, StepAges, RevocationUndisturbed
<1>2. CASE proc'[p] = Idle
  BY <1>2 DEF RevocationOK, Idle
<1>3. QED
  BY <1>1, <1>2, RequestMoves, OwnStep

\* A session loses its live token only by a revocation of its own family or by
\* the purge, which both record its end.
LEMMA SurvivalStep ==
  ASSUME IInv, JInv, [Next]_vars
  PROVE  SessionSurvives'
<1> SUFFICES ASSUME NEW f \in Families, fate'[f] = "active"
             PROVE  \E t \in Tokens : rows'[t] # Null /\ rows'[t].revokedAt = Null
                                      /\ rows'[t].family = f
  BY DEF SessionSurvives, LiveIn, Live
<1>1. fate[f] = "active" =>
          \E t \in Tokens : rows[t] # Null /\ rows[t].revokedAt = Null /\ rows[t].family = f
  BY DEF JInv, SessionSurvives, LiveIn, Live
<1>2. issued \subseteq Tokens /\ \A t \in Tokens : rows[t] # Null => t \in issued
  BY DEF IInv, TypeOK, Stored
<1>3. CASE ~TableStep
  BY <1>1, <1>3, OtherSteps
<1>4. ASSUME NEW t \in Tokens, NEW g \in Families, Login(t, g)
      PROVE  \E u \in Tokens : rows'[u] # Null /\ rows'[u].revokedAt = Null
                               /\ rows'[u].family = f
  BY <1>1, <1>2, <1>4, LoginEffect
<1>5. ASSUME NEW p \in Requests, CommitRotation(p)
      PROVE  \E u \in Tokens : rows'[u] # Null /\ rows'[u].revokedAt = Null
                               /\ rows'[u].family = f
  <2>1. CASE f = proc[p].family
    BY <1>5, <2>1, RotationEffect
  <2>2. CASE f # proc[p].family
    BY <1>1, <1>2, <1>5, <2>2, RotationEffect
  <2>3. QED
    BY <2>1, <2>2
<1>6. ASSUME NEW p \in Requests, CommitRevocation(p)
      PROVE  \E u \in Tokens : rows'[u] # Null /\ rows'[u].revokedAt = Null
                               /\ rows'[u].family = f
  <2>1. f # proc[p].family /\ fate[f] = "active"
    BY <1>6, RevocationEffect
  <2>2. \A t \in proc[p].dirty : rows[t] # Null => rows[t].family = proc[p].family
    BY DEF JInv, RevocationOK
  <2>3. QED
    BY <1>1, <1>6, <2>1, <2>2, RevocationEffect
<1>7. ASSUME NEW w \in Purgers, CommitPurge(w)
      PROVE  \E u \in Tokens : rows'[u] # Null /\ rows'[u].revokedAt = Null
                               /\ rows'[u].family = f
  <2>1. fate[f] = "active" /\ LiveIn(f) \intersect proc[w].dirty = {}
    BY <1>7 DEF CommitPurge
  <2>2. PICK t \in Tokens : rows[t] # Null /\ rows[t].revokedAt = Null /\ rows[t].family = f
    BY <1>1, <2>1
  <2>3. t \notin proc[w].dirty
    BY <2>1, <2>2 DEF LiveIn, Live
  <2>4. QED
    BY <1>7, <2>2, <2>3 DEF CommitPurge
<1>8. QED
  BY <1>3, <1>4, <1>5, <1>6, <1>7 DEF TableStep

\* The second invariant holds in every reachable state.
THEOREM RequestInvariant == Spec => []JInv
<1>1. Init => JInv
  BY DEF Init, JInv, RevocationOK, SessionSurvives, Idle, Procs
<1>2. IInv /\ JInv /\ [Next]_vars => JInv'
  <2> SUFFICES ASSUME IInv, JInv, [Next]_vars PROVE JInv'
    OBVIOUS
  <2>1. ASSUME NEW p \in Requests PROVE RevocationOK(proc[p])'
    BY RevocationStep DEF JInv
  <2>2. QED
    BY <2>1, SurvivalStep DEF JInv
<1>3. QED
  BY <1>1, <1>2, Invariant, PTL DEF Spec

\* A session nobody ended has its live token (SessionSurvives): no rollback,
\* lost race, replay within the grace or revocation of another family costs it.
THEOREM SessionsSurvive == Spec => []SessionSurvives
<1>1. JInv => SessionSurvives
  BY DEF JInv
<1>2. QED
  BY <1>1, RequestInvariant, PTL

\* A request is in no cycle of waits (RequestsNeverDeadlock): one that waits
\* for a row holds none, so nobody waits for it.
THEOREM NoDeadlock == Spec => []RequestsNeverDeadlock
<1>1. ASSUME IInv, JInv PROVE RequestsNeverDeadlock
  <2> SUFFICES ASSUME NEW p \in Requests, NEW D \in SUBSET Procs, p \in D, Deadlocked(D)
               PROVE  FALSE
    BY DEF RequestsNeverDeadlock, InDeadlock
  <2>1. Wants(p) # {} /\ \E q \in D : proc[p].dirty \intersect Wants(q) # {}
    BY DEF Deadlocked, Blocked, Blocks
  <2>2. RequestOK(proc[p]) /\ RevocationOK(proc[p])
    BY <1>1 DEF IInv, JInv
  <2>3. proc[p].dirty = {}
    BY <2>1, <2>2 DEF Wants, At, RequestOK, RevocationOK
  <2>4. QED
    BY <2>1, <2>3
<1>2. QED
  BY <1>1, Invariant, RequestInvariant, PTL

\* The token presented to a request that revokes its family is dead once the
\* revocation commits (RevocationKillsPresentedToken).
THEOREM PresentedTokenDies == Spec => RevocationKillsPresentedToken
<1>1. ASSUME IInv, JInv, NEW p \in Requests, NEW t \in Tokens,
             CommitRevocation(p), proc[p].tok = t
      PROVE  ~Live(t)'
  <2>1. Live(t) => t \in proc[p].dirty
    BY <1>1, RevocationEffect DEF JInv, RevocationOK
  <2>2. QED
    BY <1>1, <2>1, RevocationEffect DEF Live
<1>2. IInv /\ JInv => (\A p \in Requests, t \in Tokens :
                          (CommitRevocation(p) /\ proc[p].tok = t) => ~Live(t)')
  BY <1>1
<1>3. QED
  BY <1>2, Invariant, RequestInvariant, PTL DEF RevocationKillsPresentedToken


-------------------------------------------------------------------------------
(* The refinement: every step of RefreshTokens is one of SessionChain, or none *)

\* The token of each family that can be rotated, and the families opened: what
\* the refinement mapping substitutes for current and opened.
Sole(S) == IF S = {} THEN Null ELSE CHOOSE t \in S : TRUE

Current(f) == Sole(LiveIn(f))

Opened == {f \in Families : fate[f] # "unused"}

\* The one element of a singleton is chosen.
LEMMA SoleElement == \A t : Sole({t}) = t
BY DEF Sole

\* A family has at most one token to choose from, so two states in which the
\* same token is live have the same current token.
LEMMA CurrentToken ==
  ASSUME IInv, NEW f \in Families
  PROVE  /\ \A t \in LiveIn(f) : LiveIn(f) = {t} /\ Current(f) = t
         /\ LiveIn(f) = {} <=> Current(f) = Null
<1>1. \A t \in LiveIn(f) : LiveIn(f) = {t}
  BY DEF IInv, OneLive, LiveIn
<1>2. LiveIn(f) \subseteq Tokens
  BY DEF LiveIn
<1>3. \A t \in LiveIn(f) : Current(f) = t
  BY <1>1, SoleElement DEF Current
<1>4. LiveIn(f) = {} => Current(f) = Null
  BY DEF Current, Sole
<1>5. LiveIn(f) # {} => Current(f) # Null
  BY <1>2, <1>3, NullAssumption
<1>6. QED
  BY <1>1, <1>3, <1>4, <1>5

\* The initial states map to those of SessionChain.
LEMMA InitRefines == Init => Chain!Init
<1> SUFFICES ASSUME Init PROVE Chain!Init
  OBVIOUS
<1>1. \A f \in Families : LiveIn(f) = {} /\ fate[f] = "unused"
  BY DEF Init, LiveIn, Live
<1>2. QED
  BY <1>1 DEF Chain!Init, Init

\* A step after which every family has the live tokens it had, and no family or
\* token is new, maps to a stutter.
LEMMA Stutters ==
  ASSUME UNCHANGED <<rows, issued, fate>>
  PROVE  UNCHANGED Chain!vars
BY DEF Chain!vars, LiveIn, Live

\* A login opens a session.
LEMMA LoginRefines ==
  ASSUME IInv, IInv', NEW t \in Tokens, NEW f \in Families, Login(t, f)
  PROVE  Chain!Open(f, t)
<1>1. LiveIn(f)' = {t}
  <2>1. ASSUME NEW u \in Tokens, u # t, rows'[u] # Null PROVE rows'[u].family # f
    BY <2>1, LoginEffect DEF IInv, Stored
  <2>2. QED
    BY <2>1, LoginEffect DEF LiveIn, Live
<1>2. \A g \in Families \ {f} : LiveIn(g)' = LiveIn(g)
  <2>1. rows[t] = Null
    BY LoginEffect DEF IInv, Stored
  <2>2. QED
    BY <2>1, LoginEffect DEF LiveIn, Live
<1>3. Opened' = Opened \union {f} /\ f \notin Opened /\ t \notin issued
      /\ issued' = issued \union {t}
  BY LoginEffect DEF Opened
<1>4. Current(f)' = t /\ \A g \in Families \ {f} : Current(g)' = Current(g)
  BY <1>1, <1>2, SoleElement DEF Current
<1>5. [g \in Families |-> Current(g)]' = [[g \in Families |-> Current(g)] EXCEPT ![f] = t]
  BY <1>4
<1>6. QED
  BY <1>3, <1>5 DEF Chain!Open, Current, Sole, Opened

\* A rotation passes the session on to a token never used before.
LEMMA RotationRefines ==
  ASSUME IInv, NEW p \in Requests, CommitRotation(p)
  PROVE  Chain!Rotate(proc[p].family, proc[p].newTok)
<1> SUFFICES ASSUME NEW f, NEW t, NEW n,
                    f = proc[p].family, t = proc[p].tok, n = proc[p].newTok
             PROVE  Chain!Rotate(f, n)
  OBVIOUS
<1>1. /\ f \in Families /\ t \in Tokens /\ t \in LiveIn(f) /\ rows[t].family = f
      /\ n \in Tokens /\ n \notin issued /\ issued' = issued \union {n} /\ UNCHANGED fate
      /\ rows'[n] # Null /\ rows'[n].family = f /\ rows'[n].revokedAt = Null
      /\ rows'[t].family = f /\ rows'[t].revokedAt # Null
      /\ \A u \in Tokens \ {t, n} : rows'[u] = rows[u]
  BY RotationEffect DEF LiveIn
<1>2. rows[n] = Null
  BY <1>1 DEF IInv, Stored
<1>3. LiveIn(f) = {t} /\ Current(f) # Null
  BY <1>1, CurrentToken
<1>4. LiveIn(f)' = {n}
  <2>1. \A u \in Tokens \ {t} : Live(u) => rows[u].family # f
    BY <1>1 DEF IInv, OneLive, LiveIn
  <2>2. \A u \in Tokens \ {n} : ~(Live(u)' /\ rows'[u].family = f)
    BY <1>1, <2>1 DEF Live
  <2>3. n \in Tokens /\ Live(n)' /\ rows'[n].family = f
    BY <1>1 DEF Live
  <2>4. QED
    BY <2>2, <2>3 DEF LiveIn
<1>5. \A g \in Families \ {f} : LiveIn(g)' = LiveIn(g)
  BY <1>1, <1>2 DEF LiveIn, Live
<1>6. Current(f)' = n /\ \A g \in Families \ {f} : Current(g)' = Current(g)
  BY <1>4, <1>5, SoleElement DEF Current
<1>7. [g \in Families |-> Current(g)]' = [[g \in Families |-> Current(g)] EXCEPT ![f] = n]
  BY <1>6
<1>8. QED
  BY <1>1, <1>3, <1>7 DEF Chain!Rotate, Current, Sole

\* A step that opens no session and makes no token live ends some sessions.
LEMMA EndRefines ==
  ASSUME IInv, UNCHANGED issued, Opened' = Opened,
         \A f \in Families : LiveIn(f)' \subseteq LiveIn(f)
  PROVE  \E F \in SUBSET Families : Chain!End(F)
<1> DEFINE F == {f \in Families : LiveIn(f) # {} /\ LiveIn(f)' = {}}
<1>1. \A f \in F : Current(f) # Null /\ Current(f)' = Null
  BY CurrentToken DEF Current, Sole
<1>2. ASSUME NEW f \in Families \ F PROVE LiveIn(f)' = LiveIn(f)
  <2>1. CASE LiveIn(f) = {}
    BY <2>1
  <2>2. CASE LiveIn(f)' # {}
    <3>1. PICK t \in LiveIn(f)' : TRUE
      BY <2>2
    <3>2. t \in LiveIn(f)
      BY <3>1
    <3>3. LiveIn(f) = {t}
      BY <3>2, CurrentToken
    <3>4. QED
      BY <3>1, <3>3
  <2>3. QED
    BY <2>1, <2>2
<1>3. \A f \in Families \ F : Current(f)' = Current(f)
  BY <1>2 DEF Current
<1>4. [f \in Families |-> Current(f)]' =
          [f \in Families |-> IF f \in F THEN Null ELSE Current(f)]
  BY <1>1, <1>3
<1>5. Chain!End(F)
  BY <1>1, <1>4 DEF Chain!End, Current, Sole, Opened
<1>6. QED
  BY <1>5

\* Every step maps to a step of SessionChain or to a stutter.
LEMMA NextRefines == IInv /\ IInv' /\ [Next]_vars => [Chain!Next]_Chain!vars
<1> SUFFICES ASSUME IInv, IInv', [Next]_vars PROVE [Chain!Next]_Chain!vars
  OBVIOUS
<1>1. CASE ~TableStep
  BY <1>1, OtherSteps, Stutters
<1>2. ASSUME NEW t \in Tokens, NEW f \in Families, Login(t, f) PROVE Chain!Next
  BY <1>2, LoginRefines DEF Chain!Next
<1>3. ASSUME NEW p \in Requests, CommitRotation(p) PROVE Chain!Next
  BY <1>3, RotationRefines, RotationEffect DEF Chain!Next
<1>4. ASSUME NEW p \in Requests, CommitRevocation(p) PROVE Chain!Next
  <2>1. \A f \in Families : LiveIn(f)' \subseteq LiveIn(f)
    BY <1>4, RevocationEffect DEF LiveIn, Live
  <2>2. Opened' = Opened
    BY <1>4, RevocationEffect DEF Opened
  <2>3. QED
    BY <1>4, <2>1, <2>2, RevocationEffect, EndRefines DEF Chain!Next
<1>5. ASSUME NEW w \in Purgers, CommitPurge(w) PROVE Chain!Next
  <2>1. \A f \in Families : LiveIn(f)' \subseteq LiveIn(f)
    BY <1>5 DEF CommitPurge, LiveIn, Live
  <2>2. Opened' = Opened /\ UNCHANGED issued
    BY <1>5 DEF CommitPurge, Opened
  <2>3. QED
    BY <2>1, <2>2, EndRefines DEF Chain!Next
<1>6. QED
  BY <1>1, <1>2, <1>3, <1>4, <1>5 DEF TableStep

\* The sessions of the table are session chains (ImplementsSessionChain).
THEOREM Refinement == Spec => ImplementsSessionChain
<1>1. QED
  BY InitRefines, NextRefines, Invariant, PTL DEF Spec, ImplementsSessionChain, Chain!Spec
===============================================================================
