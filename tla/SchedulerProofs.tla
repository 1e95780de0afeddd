--------------------------- MODULE SchedulerProofs ---------------------------
(***************************************************************************)
(* Theorems about one task's row, its runs and its retries, for every limit *)
(* on retries and backoffs and any number of runs, crashes and peer writes. *)
(***************************************************************************)
EXTENDS Scheduler, Orders, FiniteSetTheorems

---------------------------------------------------------------------------
(* The inductive invariants *)

\* A row whose status agrees with its claim.
RowOK(r) ==
    /\ r \in Row
    /\ r.st \in {"claimed", "running"} => r.by # None
    /\ r.st = "running" => r.lease # None

\* The loops from which nobody has taken the row.
Holders == {l \in Leases : run[l] = "loop"} \ lost

\* Such a loop is the one the row names, so there is at most one.
RunInv ==
    /\ row.st = "running" /\ row.by = Peer => row.lease = Peer
    /\ \A l \in Holders : verifyLeaseStillHeld(l)

\* The run the row names is in its agent loop.
Open == row.st = "running" /\ row.by = Me /\ row.lease \in Leases /\ run[row.lease] = "loop"

Unpaid == IF Open THEN 1 ELSE 0

\* A firing belongs to a due row, and intake to an event listener.
DueInv ==
    /\ fire # "absent" => row.next = "due"
    /\ intake => kind = "event"

\* A deferred task pays for each start of its loop with a failure or a fault,
\* and can start only while it has retries left.
RetryInv ==
    /\ row.st \in {"claimed", "running"} => row.next = "due"
    /\ row.cf <= DeferredMaxRetries + 1
    /\ row.st \in {"pending", "claimed", "running"} /\ row.next # "none" =>
           row.cf <= DeferredMaxRetries
    /\ row.lease \in Live => row.cf <= DeferredMaxRetries /\ row.st # "completed"
    /\ row.st \notin {"completed", "cancelled"} \/ row.lease \in Live =>
           starts <= row.cf + faults + Unpaid
    /\ starts <= DeferredMaxRetries + 1 + faults

DeferredInv == DueInv /\ IF kind = "deferred" THEN RetryInv ELSE starts = 0

---------------------------------------------------------------------------
(* Writes of the row *)

\* The counter's cap is above both limits.
LEMMA CapAboveLimits ==
    CfCap \in Nat /\ DeferredMaxRetries \in Nat /\ DeferredMaxRetries + 1 <= CfCap
<1>1. DeferredMaxRetries \in Nat /\ MaxBackoffs \in Nat
  BY SchedulerAssumption
<1> DEFINE S == {DeferredMaxRetries, MaxBackoffs}
           b == DeferredMaxRetries + MaxBackoffs
<1>2. S \in SUBSET Nat /\ S # {} /\ b \in Nat /\ DeferredMaxRetries \in S
  BY <1>1
<1>3. \A k \in S : k <= b
  BY <1>1
<1>4. Max(S) \in Nat /\ DeferredMaxRetries <= Max(S)
  <2> HIDE DEF S, b
  <2> QED BY <1>2, <1>3, MaxOfNaturals
<1> QED BY <1>1, <1>4 DEF CfCap

\* A failure counts one more, up to the cap.
LEMMA FailedRow ==
    ASSUME NEW r \in Row
    PROVE  /\ Failed(r) \in Row /\ RowOK(Failed(r))
           /\ Failed(r).st = "failed" /\ Failed(r).by = r.by /\ Failed(r).lease = r.lease
           /\ Failed(r).next = r.next /\ Failed(r).ran = r.ran
           /\ Failed(r).cf <= r.cf + 1
           /\ r.cf < CfCap => Failed(r).cf = r.cf + 1
<1> DEFINE m == Min({r.cf + 1, CfCap})
<1>1. r.cf \in 0..CfCap /\ CfCap \in Nat
  BY CapAboveLimits DEF Row
<1>2. {r.cf + 1, CfCap} \in SUBSET Nat /\ {r.cf + 1, CfCap} # {}
  BY <1>1
<1>3. m \in {r.cf + 1, CfCap} /\ m <= r.cf + 1 /\ m <= CfCap
  BY <1>2, MinOfNaturals
<1>4. m \in 0..CfCap /\ (r.cf < CfCap => m = r.cf + 1)
  BY <1>1, <1>3
<1>5. Failed(r) = [r EXCEPT !.st = "failed", !.cf = m]
  BY DEF Failed
<1> HIDE DEF m
<1>6. Failed(r) \in Row
  BY <1>4, <1>5 DEF Row
<1>7. /\ Failed(r).st = "failed" /\ Failed(r).by = r.by /\ Failed(r).lease = r.lease
      /\ Failed(r).next = r.next /\ Failed(r).ran = r.ran /\ Failed(r).cf = m
  BY <1>5 DEF Row
<1> QED BY <1>3, <1>4, <1>6, <1>7 DEF RowOK

\* A freed row is pending and nobody's.
LEMMA FreedRow ==
    ASSUME NEW r \in Row, NEW next \in {"none", "future", "due"}
    PROVE  /\ Freed(r) \in Row /\ RowOK(Freed(r)) /\ RowOK(Due(Freed(r), next))
           /\ Freed(r).st = "pending" /\ Freed(r).by = None /\ Freed(r).lease = None
           /\ Freed(r).next = r.next /\ Freed(r).cf = r.cf
           /\ Due(Freed(r), next).st = "pending" /\ Due(Freed(r), next).by = None
           /\ Due(Freed(r), next).lease = None
           /\ Due(Freed(r), next).next = next /\ Due(Freed(r), next).cf = r.cf
BY DEF Freed, Due, Row, RowOK

\* Re-arming leaves the row, or makes it pending; it never counts a failure.
LEMMA RearmedRow ==
    ASSUME kind \in Kinds, NEW r, RowOK(r), NEW completion \in BOOLEAN, NEW pending \in BOOLEAN
    PROVE  /\ RowOK(Rearmed(r, completion, pending))
           /\ Rearmed(r, completion, pending).cf = r.cf
           /\ \/ Rearmed(r, completion, pending) = r
              \/ /\ Rearmed(r, completion, pending).st = "pending"
                 /\ Rearmed(r, completion, pending).by \in {r.by, None}
<1> DEFINE x == Rearmed(r, completion, pending)
           nxt == IF pending /\ (completion \/ r.cf < MaxBackoffs) THEN "future" ELSE "none"
<1> SUFFICES RowOK(x) /\ x.cf = r.cf /\ (x = r \/ (x.st = "pending" /\ x.by \in {r.by, None}))
  OBVIOUS
<1>1. r \in Row /\ "future" \in {"none", "future", "due"} /\ nxt \in {"none", "future", "due"}
  BY DEF RowOK
<1>2. kind \in {"cron", "heartbeat", "consolidation", "event", "deferred"}
  BY SchedulerAssumption
<1>3. CASE Seeded
  <2>1. x = Due([r EXCEPT !.st = "pending"], "future")
    <3>1. kind # "cron" /\ kind # "event" /\ kind # "deferred"
      BY <1>3 DEF Seeded
    <3> QED BY <1>3, <3>1 DEF Rearmed, rescheduleHeartbeat
  <2> HIDE DEF x
  <2> QED BY <1>1, <2>1 DEF Due, Row, RowOK
<1>4. CASE ~Seeded
  <2>1. x \in {r, Due(Freed(r), "future"), Due(Freed(r), nxt)}
    BY <1>2, <1>4 DEF Seeded, Rearmed, rescheduleCronTask, resetEventTask, retryDeferredTask
  <2> HIDE DEF x, nxt
  <2>2. CASE x = r
    BY <2>2
  <2>3. ASSUME NEW n \in {"none", "future", "due"}, x = Due(Freed(r), n)
        PROVE  RowOK(x) /\ x.cf = r.cf /\ x.st = "pending" /\ x.by = None
    BY <1>1, <2>3, FreedRow
  <2>4. x # r => RowOK(x) /\ x.cf = r.cf /\ x.st = "pending" /\ x.by = None
    BY <1>1, <2>1, <2>3
  <2> QED BY <2>2, <2>4
<1> QED BY <1>3, <1>4

\* A deferred task is re-armed while it has retries left, and left alone after
\* its completion and after its last failure.
LEMMA RetriedRow ==
    ASSUME kind = "deferred", NEW r \in Row, NEW completion \in BOOLEAN, NEW pending
    PROVE  Rearmed(r, completion, pending) =
               IF completion \/ r.cf > DeferredMaxRetries THEN r ELSE Due(Freed(r), "future")
BY DEF Seeded, Rearmed, retryDeferredTask

\* A parked row.
LEMMA ParkedRow ==
    ASSUME NEW r \in Row
    PROVE  /\ RowOK(Parked(r)) /\ Parked(r).st = "failed" /\ Parked(r).by = None
           /\ Parked(r).lease = None /\ Parked(r).next = "none" /\ Parked(r).cf = r.cf
<1>1. Parked(r) = [r EXCEPT !.st = "failed", !.by = None, !.lease = None, !.next = "none"]
  BY DEF Parked, Due, Freed, Row
<1> QED BY <1>1 DEF Row, RowOK

\* An evicted row is nobody's and counts one more failure.
LEMMA EvictedRow ==
    ASSUME NEW r \in Row
    PROVE  /\ RowOK(Evicted(r)) /\ Evicted(r).st = "pending" /\ Evicted(r).by = None
           /\ Evicted(r).lease = None /\ Evicted(r).next \in {"none", "future"}
           /\ Evicted(r).cf = Failed(r).cf
           /\ kind = "deferred" /\ Evicted(r).next # "none" =>
                  Evicted(r).cf <= DeferredMaxRetries
<1> DEFINE nxt == IF kind = "event" \/ (kind = "deferred" /\ Freed(Failed(r)).cf > DeferredMaxRetries)
                  THEN "none" ELSE "future"
<1>1. Evicted(r) = Due(Freed(Failed(r)), nxt)
  BY DEF Evicted, Freed
<1>2. Failed(r) \in Row /\ Failed(r).cf \in Nat /\ DeferredMaxRetries \in Nat
  BY FailedRow, CapAboveLimits DEF Row
<1>3. nxt \in {"none", "future", "due"} /\ nxt \in {"none", "future"}
  OBVIOUS
<1>4. kind = "deferred" /\ nxt # "none" => ~ (Freed(Failed(r)).cf > DeferredMaxRetries)
  OBVIOUS
<1> HIDE DEF nxt
<1>5. Freed(Failed(r)).cf = Failed(r).cf
  BY <1>2, <1>3, FreedRow
<1>6. /\ RowOK(Evicted(r)) /\ Evicted(r).st = "pending" /\ Evicted(r).by = None
      /\ Evicted(r).lease = None /\ Evicted(r).next = nxt /\ Evicted(r).cf = Failed(r).cf
  BY <1>1, <1>2, <1>3, FreedRow
<1> QED BY <1>2, <1>3, <1>4, <1>5, <1>6

\* A healed row is pending, or as it was; the deferred one counts a failure.
LEMMA HealedRow ==
    ASSUME kind \in Kinds, intake \in BOOLEAN, NEW r, RowOK(r), Stuck(r)
    PROVE  /\ RowOK(Healed(r))
           /\ Healed(r) = r \/ (Healed(r).st = "pending" /\ Healed(r).by \in {r.by, None})
           /\ kind = "deferred" => /\ Healed(r).lease = None /\ Healed(r).cf = r.cf + 1
                                   /\ Healed(r).cf <= DeferredMaxRetries
                                   /\ Healed(r).st = "pending"
<1>1. CASE kind # "deferred"
  <2>1. Healed(r) = Rearmed(r, FALSE, intake)
    BY <1>1 DEF Healed
  <2>2. FALSE \in BOOLEAN /\ RowOK(Rearmed(r, FALSE, intake))
    BY RearmedRow
  <2>3. \/ Rearmed(r, FALSE, intake) = r
        \/ Rearmed(r, FALSE, intake).st = "pending" /\ Rearmed(r, FALSE, intake).by \in {r.by, None}
    BY RearmedRow
  <2> QED BY <1>1, <2>1, <2>2, <2>3
<1>2. CASE kind = "deferred"
  <2> DEFINE q == [r EXCEPT !.cf = @ + 1]
  <2>1. r \in Row /\ r.cf \in Nat /\ r.cf < DeferredMaxRetries /\ DeferredMaxRetries \in Nat
        /\ DeferredMaxRetries <= CfCap /\ CfCap \in Nat
    BY <1>2, CapAboveLimits DEF Stuck, RowOK, Row
  <2>2. q \in Row /\ q.cf = r.cf + 1
    BY <2>1 DEF Row
  <2>3. Healed(r) = retryDeferredTask(q)
    BY <1>2 DEF Healed
  <2> HIDE DEF q
  <2>4. ~(q.cf > DeferredMaxRetries) /\ q.cf <= DeferredMaxRetries
    BY <2>1, <2>2
  <2>5. Healed(r) = Due(Freed(q), "future")
    BY <2>3, <2>4 DEF retryDeferredTask
  <2>6. "future" \in {"none", "future", "due"}
    OBVIOUS
  <2>7. /\ RowOK(Healed(r)) /\ Healed(r).st = "pending" /\ Healed(r).by = None
        /\ Healed(r).lease = None /\ Healed(r).cf = q.cf
    BY <2>2, <2>5, <2>6, FreedRow
  <2> QED BY <2>2, <2>4, <2>7
<1> QED BY <1>1, <1>2

\* The row a run leaves behind, before it is re-armed.
LEMMA OutcomeRow ==
    ASSUME RowOK(row), NEW ok \in BOOLEAN, NEW soft \in BOOLEAN, NEW l
    PROVE  /\ RowOK(Outcome(ok, soft, l))
           /\ Outcome(ok, soft, l).by = row.by /\ Outcome(ok, soft, l).lease = row.lease
           /\ Outcome(ok, soft, l).next = row.next /\ Outcome(ok, soft, l).st # "running"
           /\ ok /\ row.st # "running" => Outcome(ok, soft, l) = row
           /\ ok /\ row.st = "running" =>
                  Outcome(ok, soft, l).st = "completed" /\ Outcome(ok, soft, l).cf = 0
           /\ ~ok => Outcome(ok, soft, l).st = "failed" /\ Outcome(ok, soft, l).cf = Failed(row).cf
<1>1. row \in Row /\ 0 \in 0..CfCap
  BY CapAboveLimits DEF RowOK
<1>2. CASE ok /\ row.st = "running"
  <2>1. Outcome(ok, soft, l) = [row EXCEPT !.st = "completed", !.cf = 0, !.ran = TRUE]
    BY <1>2 DEF Outcome, Completed
  <2> QED BY <1>1, <1>2, <2>1 DEF Row, RowOK
<1>3. CASE ok /\ row.st # "running"
  <2>1. Outcome(ok, soft, l) = row
    BY <1>3 DEF Outcome, Completed
  <2> QED BY <1>3, <2>1
<1>4. CASE ~ok
  <2>1. PICK b \in BOOLEAN : Outcome(ok, soft, l) = [Failed(row) EXCEPT !.ran = b]
    <3>1. (Failed(row).ran \/ soft) \in BOOLEAN
      OBVIOUS
    <3> QED BY <1>4, <3>1 DEF Outcome
  <2>2. /\ Failed(row) \in Row /\ Failed(row).st = "failed" /\ Failed(row).by = row.by
        /\ Failed(row).lease = row.lease /\ Failed(row).next = row.next
    BY <1>1, FailedRow
  <2> QED BY <1>4, <2>1, <2>2 DEF Row, RowOK
<1> QED BY <1>2, <1>3, <1>4

---------------------------------------------------------------------------
(* The tick *)

\* What phase 0 makes of the row and of its firing.
EvictedTo(stale, r, f) ==
    \/ r = row /\ f = fire
    \/ /\ stale
       /\ \/ row.st = "claimed" /\ r = Freed(row)
          \/ row.st = "running" /\ r = Evicted(row)
          \/ row.st \notin {"claimed", "running"} /\ Stuck(row) /\ r = Healed(row)
       /\ f = IF r.next # row.next THEN "absent" ELSE fire

Running(r) == [r EXCEPT !.st = "running", !.by = Me, !.lease = NewLease]

\* What the rest of the tick makes of them: nothing, a release, or a new run of
\* a row that this host had claimed or that has a firing.
TickedTo(r, f) ==
    /\ fire' # "absent" => f # "absent" \/ r.next = "due"
    /\ fire' \in {f, "pending", "consumed"} /\ beat' \in {beat, NewLease}
    /\ \/ row' = r /\ run' = run
       \/ /\ row' = Released(r) /\ run' = run
          /\ r.st = "pending" \/ (r.st = "claimed" /\ r.by = Me)
       \/ /\ row' = Running(r) /\ run' = [run EXCEPT ![NewLease] = "settle"]
          /\ \/ r.st = "claimed" /\ r.by = Me
             \/ r.st = "pending" /\ (f # "absent" \/ r.next = "due")

\* A claimed row of this host is claimed already.
LEMMA RunningRow ==
    ASSUME NEW r \in Row
    PROVE  /\ r.by = Me => [r EXCEPT !.st = "running", !.lease = NewLease] = Running(r)
           /\ [Claimed(r) EXCEPT !.st = "running", !.lease = NewLease] = Running(r)
           /\ Released(Released(r)) = Released(r) /\ Released(r) \in Row
           /\ Released(r).st = "pending" /\ Released(r).next = r.next
BY DEF Running, Claimed, Released, Row

\* A hand is what it is made of.
LEMMA HandParts ==
    ASSUME NEW r, NEW f, NEW s
    PROVE  Hand(r, f, s).row = r /\ Hand(r, f, s).fire = f /\ Hand(r, f, s).start = s
BY DEF Hand

\* phase0Eviction
LEMMA EvictionCases ==
    ASSUME RowOK(row), kind \in Kinds, intake \in BOOLEAN, NEW stale \in BOOLEAN
    PROVE  \E r, f : /\ EvictedTo(stale, r, f) /\ RowOK(r)
                     /\ phase0Eviction(Hand(row, fire, None), stale) = Hand(r, f, None)
<1> DEFINE h == Hand(row, fire, None)
<1> SUFFICES \E r, f : /\ EvictedTo(stale, r, f) /\ RowOK(r)
                       /\ phase0Eviction(h, stale) = Hand(r, f, None)
  OBVIOUS
<1>1. h.row = row /\ h.fire = fire
  BY HandParts
<1>2. \A r : Put(h, r) = Hand(r, IF r.next # row.next THEN "absent" ELSE fire, None)
  BY HandParts DEF Put
<1>3. row \in Row /\ "none" \in {"none", "future", "due"}
  BY DEF RowOK
<1>4. CASE phase0Eviction(h, stale) = h
  BY <1>4 DEF EvictedTo
<1> HIDE DEF h
<1>5. CASE stale /\ row.st = "claimed"
  <2>1. phase0Eviction(h, stale) = Put(h, Freed(row))
    BY <1>1, <1>5 DEF phase0Eviction, Stuck
  <2>2. RowOK(Freed(row))
    BY <1>3, FreedRow
  <2> QED BY <1>2, <1>5, <2>1, <2>2 DEF EvictedTo
<1>6. CASE stale /\ row.st = "running"
  <2>1. phase0Eviction(h, stale) = Put(h, Evicted(row))
    BY <1>1, <1>6 DEF phase0Eviction, Stuck
  <2>2. RowOK(Evicted(row))
    BY <1>3, EvictedRow
  <2> QED BY <1>2, <1>6, <2>1, <2>2 DEF EvictedTo
<1>7. CASE stale /\ row.st \notin {"claimed", "running"} /\ Stuck(row)
  <2>1. phase0Eviction(h, stale) = Put(h, Healed(row))
    BY <1>1, <1>7 DEF phase0Eviction
  <2>2. RowOK(Healed(row))
    BY <1>7, HealedRow
  <2> QED BY <1>2, <1>7, <2>1, <2>2 DEF EvictedTo
<1>8. \/ ~stale \/ row.st \in {"claimed", "running"} \/ Stuck(row)
      \/ stale /\ row.st \notin {"claimed", "running"} /\ ~Stuck(row)
  OBVIOUS
<1>9. CASE ~stale \/ (row.st \notin {"claimed", "running"} /\ ~Stuck(row))
  <2>1. phase0Eviction(h, stale) = h
    BY <1>1, <1>9 DEF phase0Eviction
  <2> QED BY <1>4, <2>1
<1> QED BY <1>5, <1>6, <1>7, <1>9

\* phase1Schedule, phase3Run and the consumer lane.
LEMMA TickCases ==
    ASSUME RowOK(row), kind \in Kinds, intake \in BOOLEAN,
           fire \in {"absent", "pending", "processing", "consumed", "dead"},
           NEW stale \in BOOLEAN, NEW over \in BOOLEAN, NEW here \in BOOLEAN,
           Tick(stale, over, here)
    PROVE  \E r, f : EvictedTo(stale, r, f) /\ RowOK(r) /\ TickedTo(r, f)
<1>1. PICK r, f : /\ EvictedTo(stale, r, f) /\ RowOK(r)
                  /\ phase0Eviction(Hand(row, fire, None), stale) = Hand(r, f, None)
  BY EvictionCases
<1>2. PICK g : /\ Scheduled(stale, here) = Hand(r, g, None)
               /\ g = f \/ (g = "pending" /\ r.st = "pending" /\ r.next = "due")
  <2>1. Scheduled(stale, here) = phase1Schedule(Hand(r, f, None), here)
    BY <1>1 DEF Scheduled
  <2>2. phase1Schedule(Hand(r, f, None), here) \in {Hand(r, f, None), Hand(r, "pending", None)}
        /\ (phase1Schedule(Hand(r, f, None), here) # Hand(r, f, None) =>
              r.st = "pending" /\ r.next = "due")
    BY HandParts DEF phase1Schedule
  <2> QED BY <2>1, <2>2
<1>3. r \in Row
  BY <1>1 DEF RowOK
<1>4. /\ row' = Ticked(stale, over, here).row /\ fire' = Ticked(stale, over, here).fire
      /\ run' = Launched(Ticked(stale, over, here))
      /\ beat' = IF Ticked(stale, over, here).start = None THEN beat
                 ELSE Ticked(stale, over, here).start
  BY DEF Tick
<1> DEFINE h3 == phase3Run(Hand(r, g, None), over)
           h  == processPendingTaskFire(h3, over)
<1>5. /\ row' = h.row /\ fire' = h.fire
      /\ h.start = None => run' = run /\ beat' = beat
      /\ h.start # None => run' = [run EXCEPT ![h.start] = "settle"] /\ beat' = h.start
  BY <1>2, <1>4 DEF Ticked, Launched
<1>6. g # "absent" => f # "absent" \/ r.next = "due"
  BY <1>2
<1>7. NewLease # None
  <2>1. (Leases \ Live) \ {row.lease} # {} /\ (Leases \ Live) \ {row.lease} \in SUBSET Nat
    BY DEF Tick, Leases
  <2>2. NewLease \in Leases
    BY <2>1, MinOfNaturals DEF NewLease
  <2> QED BY <2>2, SchedulerAssumption
<1>8. CASE r.st = "claimed" /\ r.by = Me /\ ~over
  <2>1. h3 = Hand(Running(r), g, NewLease)
    <3>1. h3 = runTask(r, g)
      BY <1>8, HandParts DEF phase3Run
    <3>2. [r EXCEPT !.st = "running", !.lease = NewLease] = Running(r)
      BY <1>3, <1>8, RunningRow
    <3> QED BY <3>1, <3>2 DEF runTask
  <2>2. Running(r).st = "running" /\ Running(r).by = Me
    BY <1>3 DEF Running, Row
  <2> HIDE DEF h3
  <2>3. h = h3
    BY <2>1, <2>2, HandParts DEF processPendingTaskFire
  <2> HIDE DEF h
  <2>4. /\ row' = Running(r) /\ fire' = g /\ run' = [run EXCEPT ![NewLease] = "settle"]
        /\ beat' = NewLease
    <3>1. h.row = Running(r) /\ h.fire = g /\ h.start = NewLease
      BY <2>1, <2>3, HandParts
    <3> QED BY <1>5, <1>7, <3>1
  <2> QED BY <1>1, <1>2, <1>6, <1>8, <2>4 DEF TickedTo
<1>9. CASE r.st = "claimed" /\ r.by = Me /\ over
  <2>1. h3 = Hand(Released(r), g, None)
    BY <1>9, HandParts DEF phase3Run
  <2>2. Released(r).st = "pending"
    BY <1>3, RunningRow
  <2> HIDE DEF h3
  <2>3. h = h3 \/ h = Hand(Released(Released(r)), g, None)
    BY <1>9, <2>1, <2>2, HandParts DEF processPendingTaskFire
  <2>4. h = Hand(Released(r), g, None)
    BY <1>3, <2>1, <2>3, RunningRow
  <2> HIDE DEF h
  <2> QED BY <1>1, <1>2, <1>5, <1>6, <1>9, <2>4, HandParts DEF TickedTo
<1>10. CASE ~(r.st = "claimed" /\ r.by = Me)
  <2>1. h3 = Hand(r, g, None)
    BY <1>10, HandParts DEF phase3Run
  <2> HIDE DEF h3
  <2>2. \/ h = h3
        \/ g = "pending" /\ r.st # "pending" /\ h = Hand(r, "consumed", None)
        \/ g = "pending" /\ r.st = "pending" /\ h = Hand(Released(r), g, None)
        \/ g = "pending" /\ r.st = "pending"
           /\ h = runTask(Claimed(r), "consumed")
    BY <2>1, HandParts DEF processPendingTaskFire
  <2>3. runTask(Claimed(r), "consumed") = Hand(Running(r), "consumed", NewLease)
    BY <1>3, RunningRow DEF runTask
  <2> HIDE DEF h
  <2>4. CASE h = h3
    BY <1>1, <1>2, <1>5, <1>6, <2>1, <2>4, HandParts DEF TickedTo
  <2>5. CASE g = "pending" /\ r.st # "pending" /\ h = Hand(r, "consumed", None)
    BY <1>1, <1>2, <1>5, <1>6, <2>5, HandParts DEF TickedTo
  <2>6. CASE g = "pending" /\ r.st = "pending" /\ h = Hand(Released(r), g, None)
    BY <1>1, <1>2, <1>5, <1>6, <2>6, HandParts DEF TickedTo
  <2>7. CASE g = "pending" /\ r.st = "pending" /\ h = Hand(Running(r), "consumed", NewLease)
    <3>1. /\ row' = Running(r) /\ fire' = "consumed" /\ run' = [run EXCEPT ![NewLease] = "settle"]
          /\ beat' = NewLease
      <4>1. h.row = Running(r) /\ h.fire = "consumed" /\ h.start = NewLease
        BY <2>7, HandParts
      <4> QED BY <1>5, <1>7, <4>1
    <3> QED BY <1>1, <1>2, <1>6, <2>7, <3>1 DEF TickedTo
  <2> QED BY <2>2, <2>3, <2>4, <2>5, <2>6, <2>7
<1> QED BY <1>8, <1>9, <1>10

---------------------------------------------------------------------------
(* Types *)

Fires == {"absent", "pending", "processing", "consumed", "dead"}

\* A tick that launches a run has a lease for it.
LEMMA FreshLease ==
    ASSUME NEW stale, NEW over, NEW here, Tick(stale, over, here)
    PROVE  NewLease \in Leases /\ NewLease \notin Live /\ NewLease # row.lease /\ NewLease # None
<1> DEFINE S == (Leases \ Live) \ {row.lease}
<1>1. S # {} /\ S \in SUBSET Nat
  BY DEF Tick, Leases
<1>2. NewLease \in S
  BY <1>1, MinOfNaturals DEF NewLease
<1> QED BY <1>2, SchedulerAssumption

\* Faults are counted up to their bound.
LEMMA FaultBound ==
    ASSUME faults \in 0..MaxFaults, NEW n \in Nat, Fault(n)
    PROVE  faults' \in 0..MaxFaults /\ faults' = faults + n
BY SchedulerAssumption DEF Fault

\* A tick pays for a stall.
LEMMA TickFault ==
    ASSUME NEW stale \in BOOLEAN, NEW over \in BOOLEAN, NEW here, Tick(stale, over, here)
    PROVE  \E n \in Nat : Fault(n) /\ (Stalled(stale) => n >= 1)
<1>1. CASE Stalled(stale) /\ over
  BY <1>1 DEF Tick
<1>2. CASE Stalled(stale) /\ ~over
  BY <1>2 DEF Tick
<1>3. CASE ~Stalled(stale) /\ over
  BY <1>3 DEF Tick
<1>4. CASE ~Stalled(stale) /\ ~over
  BY <1>4 DEF Tick
<1> QED BY <1>1, <1>2, <1>3, <1>4

\* The rows a tick writes.
LEMMA TickRows ==
    ASSUME NEW r, RowOK(r), NewLease \in Leases, NewLease # None
    PROVE  /\ RowOK(Released(r)) /\ Released(r).st = "pending" /\ Released(r).by = None
           /\ Released(r).lease = r.lease /\ Released(r).next = r.next /\ Released(r).cf = r.cf
           /\ RowOK(Running(r)) /\ Running(r).st = "running" /\ Running(r).by = Me
           /\ Running(r).lease = NewLease /\ Running(r).next = r.next /\ Running(r).cf = r.cf
BY SchedulerAssumption DEF RowOK, Row, Released, Running

\* A crash in the consumer lane finds the row pending, with a firing.
LEMMA CrashFiringRow ==
    ASSUME RowOK(row), CrashFiring
    PROVE  /\ row.st = "pending" /\ (fire # "absent" \/ row.next = "due")
           /\ \E r \in {row, Claimed(row), [Claimed(row) EXCEPT !.st = "running"]} :
                Boot(r, "processing")
<1>1. phase0Eviction(Hand(row, fire, None), FALSE) = Hand(row, fire, None)
  BY DEF phase0Eviction
<1>2. PICK g : /\ Scheduled(FALSE, TRUE) = Hand(row, g, None)
               /\ g = fire \/ (g = "pending" /\ row.st = "pending" /\ row.next = "due")
  <2>1. Scheduled(FALSE, TRUE) = phase1Schedule(Hand(row, fire, None), TRUE)
    BY <1>1 DEF Scheduled
  <2>2. phase1Schedule(Hand(row, fire, None), TRUE) \in {Hand(row, fire, None), Hand(row, "pending", None)}
        /\ (phase1Schedule(Hand(row, fire, None), TRUE) # Hand(row, fire, None) =>
              row.st = "pending" /\ row.next = "due")
    BY HandParts DEF phase1Schedule
  <2> QED BY <2>1, <2>2
<1> DEFINE h == phase3Run(Hand(row, g, None), FALSE)
<1>3. /\ h.fire = "pending" /\ h.row.st = "pending"
      /\ \E r \in {h.row, Claimed(h.row), [Claimed(h.row) EXCEPT !.st = "running"]} :
           Boot(r, "processing")
  BY <1>2 DEF CrashFiring
<1>4. h = Hand(row, g, None)
  <2>1. CASE row.st = "claimed" /\ row.by = Me
    <3>1. h = runTask(row, g)
      BY <2>1, HandParts DEF phase3Run
    <3> HIDE DEF h
    <3>2. h.row = [row EXCEPT !.st = "running", !.lease = NewLease]
      BY <3>1, HandParts DEF runTask
    <3>3. h.row.st = "running"
      BY <3>2 DEF RowOK, Row
    <3> QED BY <1>3, <3>3
  <2>2. CASE ~(row.st = "claimed" /\ row.by = Me)
    BY <2>2, HandParts DEF phase3Run
  <2> QED BY <2>1, <2>2
<1> HIDE DEF h
<1>5. h.row = row /\ h.fire = g
  BY <1>4, HandParts
<1> QED BY <1>2, <1>3, <1>5

\* Boot recovery writes a row whose status agrees with its claim.
LEMMA BootType ==
    ASSUME TypeOK, NEW r, RowOK(r) \/ (r \in Row /\ r.st = "running" /\ r.by = Me),
           NEW f \in Fires, Boot(r, f)
    PROVE  TypeOK'
<1>1. /\ Fault(1) /\ row' = BootReset(r) /\ fire' = f /\ run' = [l \in Leases |-> "none"]
      /\ lost' = {} /\ beat' = None /\ UNCHANGED <<kind, intake, starts>>
  BY DEF Boot
<1>2. r \in Row /\ "none" \in {"none", "future", "due"}
  BY DEF RowOK
<1>3. RowOK(row')
  BY <1>1, <1>2, FreedRow DEF BootReset
<1>4. faults' \in 0..MaxFaults
  BY <1>1, FaultBound DEF TypeOK
<1> QED BY <1>1, <1>3, <1>4 DEF TypeOK, RowOK, Fires

\* Ticks and crashes keep the types.
LEMMA TickType ==
    ASSUME TypeOK,
           \/ \E stale, over, here \in BOOLEAN : Tick(stale, over, here)
           \/ Restart \/ CrashFiring \/ \E l \in Leases : CrashFinishing(l)
    PROVE  TypeOK'
<1>1. RowOK(row) /\ row \in Row /\ fire \in Fires
  BY DEF TypeOK, RowOK, Fires
<1>2. ASSUME NEW stale \in BOOLEAN, NEW over \in BOOLEAN, NEW here \in BOOLEAN,
             Tick(stale, over, here)
      PROVE  TypeOK'
  <2>1. PICK r, f : EvictedTo(stale, r, f) /\ RowOK(r) /\ TickedTo(r, f)
    BY <1>1, <1>2, TickCases DEF TypeOK
  <2>2. NewLease \in Leases /\ NewLease # None
    BY <1>2, FreshLease
  <2>3. RowOK(row')
    BY <2>1, <2>2, TickRows DEF TickedTo
  <2>4. f \in Fires /\ fire' \in Fires
    BY <1>1, <2>1 DEF EvictedTo, TickedTo, Fires
  <2>5. run' \in [Leases -> {"none", "settle", "loop"}]
    BY <2>1, <2>2 DEF TickedTo, TypeOK
  <2>6. faults' \in 0..MaxFaults
    BY <1>2, TickFault, FaultBound DEF TypeOK
  <2>7. lost' \in SUBSET Leases /\ UNCHANGED <<kind, intake, starts>>
    BY <1>2 DEF Tick, Lose, TypeOK
  <2>8. beat' \in Leases \cup {None}
    BY <2>1, <2>2 DEF TickedTo, TypeOK
  <2> QED BY <2>8, <2>3, <2>4, <2>5, <2>6, <2>7 DEF TypeOK, RowOK, Fires
<1>3. CASE Restart
  BY <1>1, <1>3, BootType DEF Restart
<1>4. CASE CrashFiring
  <2>1. PICK r \in {row, Claimed(row), [Claimed(row) EXCEPT !.st = "running"]} :
          Boot(r, "processing")
    BY <1>1, <1>4, CrashFiringRow
  <2>2. RowOK(r) \/ (r \in Row /\ r.st = "running" /\ r.by = Me)
    BY <1>1, SchedulerAssumption DEF Claimed, RowOK, Row
  <2>3. "processing" \in Fires
    BY DEF Fires
  <2> QED BY <2>1, <2>2, <2>3, BootType
<1>5. ASSUME NEW l \in Leases, CrashFinishing(l)
      PROVE  TypeOK'
  <2>1. PICK ok \in BOOLEAN : Boot(Outcome(ok, TRUE, l), fire)
    BY <1>5 DEF CrashFinishing
  <2>2. RowOK(Outcome(ok, TRUE, l))
    BY <1>1, OutcomeRow
  <2> QED BY <1>1, <2>1, <2>2, BootType
<1> QED BY <1>2, <1>3, <1>4, <1>5

\* A write of the row keeps its firing or leaves it behind.
LEMMA WriteFire ==
    ASSUME fire \in Fires, NEW r, Write(r)
    PROVE  row' = r /\ fire' \in Fires /\ (fire' # "absent" => r.next = row.next /\ fire' = fire)
BY DEF Write, Fires

\* What a run writes when it does not begin its loop, and when it ends.
LEMMA RunWrites ==
    ASSUME TypeOK, NEW l \in Leases,
           \/ SkipEmpty(l)
           \/ \E permanent \in BOOLEAN : Invalid(l, permanent)
           \/ row.lease = l /\ \E ok, soft \in BOOLEAN : Finish(l, ok, soft)
    PROVE  /\ RowOK(row') /\ row'.st # "running" /\ row'.by \in {row.by, None}
           /\ fire' \in Fires /\ (fire' # "absent" => row'.next = row.next /\ fire' = fire)
           /\ row.lease = l /\ run' = [run EXCEPT ![l] = "none"]
           /\ UNCHANGED <<kind, faults, starts>> /\ intake' \in {intake, FALSE}
           /\ lost' = lost \ {l} /\ beat' = None
<1>1. /\ RowOK(row) /\ row \in Row /\ fire \in Fires /\ kind \in Kinds /\ intake \in BOOLEAN
      /\ "none" \in {"none", "future", "due"} /\ FALSE \in BOOLEAN
      /\ "future" \in {"none", "future", "due"}
  BY DEF TypeOK, RowOK, Fires
<1>2. CASE SkipEmpty(l)
  <2>1. /\ Write(resetEventTask(row, FALSE, FALSE)) /\ row.lease = l /\ row.st = "running"
        /\ run' = [run EXCEPT ![l] = "none"] /\ UNCHANGED <<kind, intake, faults, starts>>
        /\ lost' = lost \ {l} /\ beat' = None
    BY <1>2 DEF SkipEmpty, End, verifyLeaseStillHeld
  <2>2. resetEventTask(row, FALSE, FALSE) = Due(Freed(row), "none")
    BY <2>1 DEF resetEventTask
  <2>3. Write(Due(Freed(row), "none"))
    BY <2>1, <2>2
  <2>4. row' = Due(Freed(row), "none")
    BY <1>1, <2>3, WriteFire
  <2> QED BY <1>1, <2>1, <2>3, <2>4, WriteFire, FreedRow
<1>3. ASSUME NEW permanent \in BOOLEAN, Invalid(l, permanent)
      PROVE  /\ RowOK(row') /\ row'.st # "running" /\ row'.by \in {row.by, None}
             /\ fire' \in Fires /\ (fire' # "absent" => row'.next = row.next /\ fire' = fire)
             /\ row.lease = l /\ run' = [run EXCEPT ![l] = "none"]
             /\ UNCHANGED <<kind, faults, starts>> /\ intake' \in {intake, FALSE}
             /\ lost' = lost \ {l} /\ beat' = None
  <2>1. /\ row.lease = l /\ run' = [run EXCEPT ![l] = "none"]
        /\ UNCHANGED <<kind, faults, starts>> /\ intake' \in {intake, FALSE}
        /\ lost' = lost \ {l} /\ beat' = None
    BY <1>1, <1>3 DEF Invalid, End, verifyLeaseStillHeld
  <2>2. RowOK(Failed(row)) /\ Failed(row) \in Row /\ Failed(row).by = row.by
        /\ Failed(row).st = "failed"
    BY <1>1, FailedRow
  <2>3. PICK r : r \in {Parked(Failed(row)), Rearmed(Failed(row), FALSE, FALSE)} /\ Write(r)
    BY <1>3 DEF Invalid
  <2>4. RowOK(r) /\ r.st # "running" /\ r.by \in {row.by, None}
    <3>1. CASE r = Parked(Failed(row))
      BY <2>2, <3>1, ParkedRow
    <3>2. CASE r = Rearmed(Failed(row), FALSE, FALSE)
      BY <1>1, <2>2, <3>2, RearmedRow
    <3> QED BY <2>3, <3>1, <3>2
  <2> QED BY <1>1, <2>1, <2>3, <2>4, WriteFire
<1>4. ASSUME row.lease = l, NEW ok \in BOOLEAN, NEW soft \in BOOLEAN, Finish(l, ok, soft)
      PROVE  /\ RowOK(row') /\ row'.st # "running" /\ row'.by \in {row.by, None}
             /\ fire' \in Fires /\ (fire' # "absent" => row'.next = row.next /\ fire' = fire)
             /\ row.lease = l /\ run' = [run EXCEPT ![l] = "none"]
             /\ UNCHANGED <<kind, faults, starts>> /\ intake' \in {intake, FALSE}
             /\ lost' = lost \ {l} /\ beat' = None
  <2> DEFINE o == Outcome(ok, soft, l)
  <2>1. /\ Write(Rearmed(o, ok, intake)) /\ run' = [run EXCEPT ![l] = "none"]
        /\ UNCHANGED <<kind, intake, faults, starts>> /\ lost' = lost \ {l} /\ beat' = None
    BY <1>4 DEF Finish, End
  <2>2. RowOK(o) /\ o.by = row.by
    BY <1>1, OutcomeRow
  <2>3. o.st # "running"
    BY <1>1, OutcomeRow
  <2> HIDE DEF o
  <2>4. RowOK(Rearmed(o, ok, intake))
    BY <1>1, <2>2, RearmedRow
  <2>5. Rearmed(o, ok, intake).st # "running" /\ Rearmed(o, ok, intake).by \in {row.by, None}
    <3>1. \/ Rearmed(o, ok, intake) = o
          \/ /\ Rearmed(o, ok, intake).st = "pending"
             /\ Rearmed(o, ok, intake).by \in {o.by, None}
      BY <1>1, <2>2, RearmedRow
    <3> QED BY <2>2, <2>3, <3>1
  <2> QED BY <1>1, <1>4, <2>1, <2>4, <2>5, WriteFire
<1> QED BY <1>2, <1>3, <1>4

\* Events, time, retention and the peer.
LEMMA EnvironmentRows ==
    ASSUME TypeOK,
           \/ EventArrives \/ Reconcile \/ Cancel \/ Elapse \/ Expire \/ Prune
           \/ PeerClaims \/ PeerRuns \/ PeerRearms \/ PeerFrees
    PROVE  TypeOK'
<1>1. /\ RowOK(row) /\ row \in Row /\ fire \in Fires /\ kind \in Kinds
      /\ "none" \in {"none", "future", "due"} /\ TRUE \in BOOLEAN /\ FALSE \in BOOLEAN
      /\ 0 \in Nat /\ 1 \in Nat /\ faults \in 0..MaxFaults
  BY DEF TypeOK, RowOK, Fires
<1>2. RowOK(Claimed(row))
  BY <1>1, SchedulerAssumption DEF Claimed, Row, RowOK
<1>3. CASE EventArrives \/ Reconcile
  <2>1. /\ row' \in {row, Claimed(row)} /\ intake' \in {intake, TRUE}
        /\ UNCHANGED <<kind, fire, run, beat, faults, starts, lost>>
    BY <1>3 DEF EventArrives, Reconcile, onEvent
  <2>2. RowOK(row')
    BY <1>1, <1>2, <2>1
  <2> QED BY <2>1, <2>2 DEF TypeOK, RowOK
<1>4. CASE Cancel \/ PeerClaims \/ PeerFrees
  <2>1. /\ Fault(1) /\ lost' \in SUBSET Leases /\ UNCHANGED <<kind, fire, run, beat, intake, starts>>
        /\ row' \in {[row EXCEPT !.st = "cancelled"], [row EXCEPT !.st = "claimed", !.by = Peer],
                     Freed(row)}
    BY <1>4 DEF Cancel, PeerClaims, PeerFrees, Lose, TypeOK
  <2>2. RowOK(row')
    <3>1. RowOK([row EXCEPT !.st = "cancelled"]) /\ RowOK([row EXCEPT !.st = "claimed", !.by = Peer])
      BY <1>1, SchedulerAssumption DEF Row, RowOK
    <3> QED BY <1>1, <2>1, <3>1, FreedRow
  <2>3. faults' \in 0..MaxFaults
    BY <1>1, <2>1, FaultBound
  <2> QED BY <2>1, <2>2, <2>3 DEF TypeOK, RowOK
<1>5. CASE Elapse \/ PeerRuns
  <2>1. /\ UNCHANGED <<kind, fire, run, beat, intake, faults, starts, lost>>
        /\ \/ row' = [row EXCEPT !.next = "due"]
           \/ row.by = Peer /\ row' = [row EXCEPT !.st = "running", !.lease = Peer]
    BY <1>5 DEF Elapse, PeerRuns
  <2>2. RowOK(row')
    BY <1>1, <2>1, SchedulerAssumption DEF Row, RowOK
  <2> QED BY <2>1, <2>2 DEF TypeOK, RowOK
<1>6. CASE Expire
  <2>1. \E n \in Nat : Fault(n)
    BY <1>6 DEF Expire
  <2>2. faults' \in 0..MaxFaults
    BY <1>1, <2>1, FaultBound
  <2> QED BY <1>6, <2>2 DEF Expire, TypeOK
<1>7. CASE Prune
  BY <1>7 DEF Prune, TypeOK
<1>8. CASE PeerRearms
  <2> DEFINE c == [row EXCEPT !.st = "completed", !.cf = 0, !.ran = TRUE]
  <2>1. RowOK(c)
    <3>1. 0 \in 0..CfCap
      BY CapAboveLimits
    <3> QED BY <1>1, <3>1 DEF Row, RowOK
  <2>2. PICK r : /\ r \in {Evicted(row), Rearmed(c, TRUE, FALSE), Rearmed(Failed(row), FALSE, FALSE)}
                 /\ Write(r)
    BY <1>8 DEF PeerRearms
  <2>3. RowOK(Failed(row))
    BY <1>1, FailedRow
  <2> HIDE DEF c
  <2>4. RowOK(r)
    BY <1>1, <2>1, <2>2, <2>3, EvictedRow, RearmedRow
  <2>5. \E n \in Nat : Fault(n)
    BY <1>8 DEF PeerRearms
  <2>6. faults' \in 0..MaxFaults
    BY <1>1, <2>5, FaultBound
  <2>7. row' = r /\ fire' \in Fires
    BY <1>1, <2>2, WriteFire
  <2>8. lost' \in SUBSET Leases /\ UNCHANGED <<kind, run, beat, intake, starts>>
    BY <1>8 DEF PeerRearms, Lose, TypeOK
  <2> QED BY <2>4, <2>6, <2>7, <2>8 DEF TypeOK, RowOK, Fires
<1> QED BY <1>3, <1>4, <1>5, <1>6, <1>7, <1>8

\* The run of the task.
LEMMA RunType ==
    ASSUME TypeOK, NEW l \in Leases,
           \/ Abort(l) \/ SkipEmpty(l) \/ Begin(l)
           \/ \E permanent \in BOOLEAN : Invalid(l, permanent)
           \/ \E ok, soft \in BOOLEAN : Finish(l, ok, soft)
    PROVE  TypeOK'
<1>1. CASE Abort(l) \/ Begin(l)
  <2>1. starts' \in Nat
    <3>1. starts' \in {starts, starts + 1} /\ starts \in Nat
      BY <1>1 DEF Abort, Begin, TypeOK
    <3> QED BY <3>1
  <2>2. intake' \in BOOLEAN
    <3>1. intake' = intake \/ intake' = (intake /\ kind # "event")
      BY <1>1 DEF Abort, Begin
    <3> QED BY <3>1 DEF TypeOK
  <2> QED BY <1>1, <2>1, <2>2 DEF Abort, Begin, End, TypeOK
<1>2. CASE \/ SkipEmpty(l)
           \/ \E permanent \in BOOLEAN : Invalid(l, permanent)
           \/ row.lease = l /\ \E ok, soft \in BOOLEAN : Finish(l, ok, soft)
  <2>1. /\ RowOK(row') /\ fire' \in Fires /\ run' = [run EXCEPT ![l] = "none"]
        /\ UNCHANGED <<kind, faults, starts>> /\ intake' \in {intake, FALSE}
        /\ lost' = lost \ {l} /\ beat' = None
    BY <1>2, RunWrites
  <2> QED BY <2>1 DEF TypeOK, RowOK, Fires
<1>3. CASE row.lease # l /\ \E ok, soft \in BOOLEAN : Finish(l, ok, soft)
  BY <1>3 DEF Finish, End, TypeOK
<1> QED BY <1>1, <1>2, <1>3

\* The task's row, its firing and its runs stay in their domains: a claimed row
\* names its holder and a running one its lease, whatever ticks, runs, peers and
\* crashes write (scheduler.ts, the tasks row).
THEOREM SchedulerTypeCorrect == Spec => []TypeOK
<1>1. Init => TypeOK
  <2> SUFFICES ASSUME Init PROVE TypeOK
    OBVIOUS
  <2>1. 0 \in 0..CfCap /\ 0 \in 0..MaxFaults
    BY CapAboveLimits, SchedulerAssumption
  <2>2. row \in Row
    BY <2>1 DEF Init, Row
  <2> QED BY <2>1, <2>2 DEF Init, TypeOK
<1>2. TypeOK /\ [Next]_vars => TypeOK'
  <2>1. TypeOK /\ UNCHANGED vars => TypeOK'
    BY DEF TypeOK, vars
  <2> QED BY <2>1, TickType, EnvironmentRows, RunType DEF Next
<1> QED BY <1>1, <1>2, PTL DEF Spec

---------------------------------------------------------------------------
(* One run at a time *)

\* A step begins no loop, and takes the row from no loop that it does not mark.
LEMMA KeptRuns ==
    ASSUME RunInv, row'.st = "running" /\ row'.by = Peer => row'.lease = Peer,
           Holders' \subseteq Holders,
           \/ row'.st = row.st /\ row'.by = row.by /\ row'.lease = row.lease
           \/ \A l \in Holders' : ~verifyLeaseStillHeld(l)
    PROVE  RunInv'
BY DEF RunInv, verifyLeaseStillHeld

\* A run the row is taken from is marked.
LEMMA Taken ==
    ASSUME Lose, \A l \in Leases : run'[l] = "loop" => run[l] = "loop"
    PROVE  Holders' \subseteq Holders /\ \A l \in Holders' : ~verifyLeaseStillHeld(l)
BY DEF Lose, Holders

\* A tick takes the row only from a run that looks stale, and starts no loop.
LEMMA TickRuns ==
    ASSUME TypeOK, RunInv, NEW stale \in BOOLEAN, NEW over \in BOOLEAN, NEW here \in BOOLEAN,
           Tick(stale, over, here)
    PROVE  RunInv'
<1>1. PICK r, f : EvictedTo(stale, r, f) /\ RowOK(r) /\ TickedTo(r, f)
  BY TickCases DEF TypeOK, RowOK
<1>2. NewLease \in Leases /\ NewLease # None /\ None # Peer /\ Me # Peer
  BY FreshLease, SchedulerAssumption
<1>3. \A l \in Leases : run'[l] = "loop" => run[l] = "loop"
  BY <1>1, <1>2 DEF TickedTo, TypeOK
<1>4. /\ Holders' \subseteq Holders
      /\ stale => \A l \in Holders' : ~verifyLeaseStillHeld(l)
  <2>1. CASE stale
    BY <1>3, <2>1, Taken DEF Tick
  <2>2. CASE ~stale
    BY <1>3, <2>2 DEF Tick, Holders
  <2> QED BY <2>1, <2>2
<1>5. r = row \/ (stale /\ r.st = "pending")
  <2>1. /\ RowOK(row) /\ row \in Row /\ kind \in Kinds /\ intake \in BOOLEAN
        /\ "none" \in {"none", "future", "due"}
    BY DEF TypeOK, RowOK
  <2> QED BY <1>1, <2>1, FreedRow, EvictedRow, HealedRow DEF EvictedTo
<1>6. CASE row' = r
  BY <1>4, <1>5, <1>6, KeptRuns DEF RunInv
<1>7. CASE row' # r
  <2>1. \/ row' = Released(r) \/ row' = Running(r)
    BY <1>1, <1>7 DEF TickedTo
  <2>2. row'.st = "running" /\ row'.by = Peer => row'.lease = Peer
    BY <1>1, <1>2, <2>1, TickRows
  <2>3. r.st \in {"pending", "claimed"}
    BY <1>1, <1>7 DEF TickedTo
  <2>4. \A l \in Holders' : ~verifyLeaseStillHeld(l)
    BY <1>4, <1>5, <2>3 DEF verifyLeaseStillHeld
  <2> QED BY <1>4, <2>2, <2>4, KeptRuns
<1> QED BY <1>6, <1>7

\* A loop begins with the row, and the run that ends was the one the row named
\* or leaves the row alone.
LEMMA RunRuns ==
    ASSUME TypeOK, RunInv, NEW l \in Leases,
           \/ Abort(l) \/ SkipEmpty(l) \/ Begin(l)
           \/ \E permanent \in BOOLEAN : Invalid(l, permanent)
           \/ \E ok, soft \in BOOLEAN : Finish(l, ok, soft)
    PROVE  RunInv'
<1>1. ASSUME run' = [run EXCEPT ![l] = "none"], lost' = lost \ {l}
      PROVE  Holders' \subseteq Holders /\ l \notin Holders'
  BY <1>1 DEF Holders, TypeOK
<1>2. CASE Abort(l)
  BY <1>1, <1>2, KeptRuns DEF Abort, End, RunInv
<1>3. CASE Begin(l)
  <2>1. /\ verifyLeaseStillHeld(l) /\ row' = row /\ lost' = lost
        /\ run' = [run EXCEPT ![l] = "loop"]
    BY <1>3 DEF Begin
  <2>2. \A k \in Holders' : k = l \/ k \in Holders
    BY <2>1 DEF Holders, TypeOK
  <2> QED BY <2>1, <2>2 DEF RunInv, verifyLeaseStillHeld
<1>4. CASE row.lease # l /\ \E ok, soft \in BOOLEAN : Finish(l, ok, soft)
  BY <1>1, <1>4, KeptRuns DEF Finish, End, RunInv
<1>5. CASE \/ SkipEmpty(l)
           \/ \E permanent \in BOOLEAN : Invalid(l, permanent)
           \/ row.lease = l /\ \E ok, soft \in BOOLEAN : Finish(l, ok, soft)
  <2>1. /\ row'.st # "running" /\ row.lease = l
        /\ run' = [run EXCEPT ![l] = "none"] /\ lost' = lost \ {l}
    BY <1>5, RunWrites
  <2>2. \A k \in Holders' : ~verifyLeaseStillHeld(k)
    BY <1>1, <2>1 DEF verifyLeaseStillHeld
  <2> QED BY <1>1, <2>1, <2>2, KeptRuns
<1> QED BY <1>2, <1>3, <1>4, <1>5

\* The row boot recovery writes, in every crash.
LEMMA BootRows ==
    ASSUME TypeOK, Restart \/ CrashFiring \/ \E l \in Leases : CrashFinishing(l)
    PROVE  /\ Live' = {} /\ faults' = faults + 1
           /\ \/ row' = row \/ row'.st # "running"
           /\ row'.by \in {row.by, Me, None}
<1>1. RowOK(row) /\ row \in Row /\ "none" \in {"none", "future", "due"} /\ 1 \in Nat
      /\ TRUE \in BOOLEAN
  BY DEF TypeOK, RowOK
<1>2. ASSUME NEW r \in Row, NEW f, Boot(r, f)
      PROVE  /\ Live' = {} /\ faults' = faults + 1
             /\ row' = r \/ row'.st # "running"
             /\ r.st = "running" /\ r.by = Me => row'.st # "running"
             /\ row'.by \in {r.by, None}
  <2>1. /\ Fault(1) /\ row' = BootReset(r) /\ run' = [l \in Leases |-> "none"]
    BY <1>2 DEF Boot
  <2>2. Freed(r).st = "pending" /\ Freed(r).by = None
    BY <1>1, FreedRow
  <2>3. Live' = {}
    BY <2>1 DEF Live
  <2>4. faults' = faults + 1
    BY <2>1 DEF Fault
  <2> QED BY <2>1, <2>2, <2>3, <2>4 DEF BootReset
<1>3. CASE Restart
  BY <1>1, <1>2, <1>3 DEF Restart
<1>4. CASE CrashFiring
  <2>1. PICK r \in {row, Claimed(row), [Claimed(row) EXCEPT !.st = "running"]} :
          Boot(r, "processing")
    BY <1>1, <1>4, CrashFiringRow
  <2>2. /\ r \in Row
        /\ \/ r = row
           \/ r.by = Me /\ r.st \in {"claimed", "running"}
    BY <1>1, SchedulerAssumption DEF Claimed, RowOK, Row
  <2>3. /\ Live' = {} /\ faults' = faults + 1
        /\ row' = r \/ row'.st # "running"
        /\ r.st = "running" /\ r.by = Me => row'.st # "running"
        /\ row'.by \in {r.by, None}
    BY <1>2, <2>1, <2>2
  <2> QED BY <2>2, <2>3
<1>5. ASSUME NEW l \in Leases, CrashFinishing(l)
      PROVE  /\ Live' = {} /\ faults' = faults + 1
             /\ row'.st # "running" /\ row'.by \in {row.by, None}
  <2>1. PICK ok \in BOOLEAN : Boot(Outcome(ok, TRUE, l), fire)
    BY <1>5 DEF CrashFinishing
  <2>2. /\ Outcome(ok, TRUE, l) \in Row /\ Outcome(ok, TRUE, l).by = row.by
        /\ Outcome(ok, TRUE, l).st # "running"
    BY <1>1, OutcomeRow DEF RowOK
  <2> QED BY <1>2, <2>1, <2>2
<1> QED BY <1>3, <1>4, <1>5

\* Crashes, events, time and the peer.
LEMMA EnvironmentRuns ==
    ASSUME TypeOK, RunInv,
           \/ Restart \/ CrashFiring \/ \E l \in Leases : CrashFinishing(l)
           \/ EventArrives \/ Reconcile \/ Cancel \/ Elapse \/ Expire \/ Prune
           \/ PeerClaims \/ PeerRuns \/ PeerRearms \/ PeerFrees
    PROVE  RunInv'
<1>1. /\ RowOK(row) /\ row \in Row /\ kind \in Kinds /\ None # Peer /\ Me # Peer
      /\ "none" \in {"none", "future", "due"} /\ TRUE \in BOOLEAN /\ FALSE \in BOOLEAN
  BY SchedulerAssumption DEF TypeOK, RowOK
<1>2. CASE Restart \/ CrashFiring \/ \E l \in Leases : CrashFinishing(l)
  <2>1. /\ Live' = {}
        /\ \/ row' = row \/ row'.st # "running"
    BY <1>2, BootRows
  <2>2. Holders' = {}
    BY <2>1 DEF Holders, Live
  <2> QED BY <2>1, <2>2, KeptRuns DEF RunInv
<1>3. CASE EventArrives \/ Reconcile
  <2>1. /\ Holders' = Holders
        /\ \/ row' = row
           \/ row.st = "pending" /\ row' = Claimed(row)
    BY <1>3 DEF EventArrives, Reconcile, onEvent, Holders
  <2>2. CASE row' = row
    BY <2>1, <2>2, KeptRuns DEF RunInv
  <2>3. CASE row.st = "pending" /\ row' = Claimed(row)
    <3>1. row'.st = "claimed"
      BY <1>1, <2>3 DEF Claimed, Row
    <3> QED BY <2>1, <2>3, <3>1, KeptRuns DEF verifyLeaseStillHeld
  <2> QED BY <2>1, <2>2, <2>3
<1>4. CASE Cancel \/ PeerClaims \/ PeerFrees
  <2>1. /\ Lose /\ run' = run
        /\ row' \in {[row EXCEPT !.st = "cancelled"], [row EXCEPT !.st = "claimed", !.by = Peer],
                     Freed(row)}
    BY <1>4 DEF Cancel, PeerClaims, PeerFrees
  <2>2. row'.st # "running"
    <3>1. /\ [row EXCEPT !.st = "cancelled"].st # "running"
          /\ [row EXCEPT !.st = "claimed", !.by = Peer].st # "running"
      BY <1>1 DEF Row
    <3> QED BY <1>1, <2>1, <3>1, FreedRow
  <2> QED BY <2>1, <2>2, Taken, KeptRuns
<1>5. CASE Elapse
  <2>1. row' = [row EXCEPT !.next = "due"] /\ Holders' = Holders
    BY <1>5 DEF Elapse, Holders
  <2>2. row'.st = row.st /\ row'.by = row.by /\ row'.lease = row.lease
    BY <1>1, <2>1 DEF Row
  <2> QED BY <2>1, <2>2, KeptRuns DEF RunInv
<1>6. CASE Expire \/ Prune
  <2>1. row' = row /\ Holders' = Holders
    BY <1>6 DEF Expire, Prune, Holders
  <2> QED BY <2>1, KeptRuns DEF RunInv
<1>7. CASE PeerRuns
  <2>1. /\ row' = [row EXCEPT !.st = "running", !.lease = Peer] /\ Holders' = Holders
        /\ row.st = "claimed"
    BY <1>7 DEF PeerRuns, Holders
  <2>2. row'.lease = Peer
    BY <1>1, <2>1 DEF Row
  <2> QED BY <2>1, <2>2, KeptRuns DEF verifyLeaseStillHeld
<1>8. CASE PeerRearms
  <2> DEFINE c == [row EXCEPT !.st = "completed", !.cf = 0, !.ran = TRUE]
  <2>1. RowOK(c) /\ c.st # "running"
    <3>1. 0 \in 0..CfCap
      BY CapAboveLimits
    <3> QED BY <1>1, <3>1 DEF Row, RowOK
  <2>2. PICK r : /\ r \in {Evicted(row), Rearmed(c, TRUE, FALSE), Rearmed(Failed(row), FALSE, FALSE)}
                 /\ row' = r
    BY <1>8 DEF PeerRearms, Write
  <2>3. RowOK(Failed(row)) /\ Failed(row).st = "failed"
    BY <1>1, FailedRow
  <2> HIDE DEF c
  <2>4. Rearmed(c, TRUE, FALSE).st # "running"
    BY <1>1, <2>1, RearmedRow
  <2>5. Rearmed(Failed(row), FALSE, FALSE).st # "running"
    BY <1>1, <2>3, RearmedRow
  <2>6. Evicted(row).st # "running"
    BY <1>1, EvictedRow
  <2>7. Lose /\ run' = run
    BY <1>8 DEF PeerRearms
  <2> QED BY <2>2, <2>4, <2>5, <2>6, <2>7, Taken, KeptRuns
<1> QED BY <1>2, <1>3, <1>4, <1>5, <1>6, <1>7, <1>8

LEMMA RunInvCorrect == Spec => []RunInv
<1>1. Init => RunInv
  BY SchedulerAssumption DEF Init, RunInv, Holders
<1>2. TypeOK /\ RunInv /\ [Next]_vars => RunInv'
  <2>1. RunInv /\ UNCHANGED vars => RunInv'
    BY DEF RunInv, Holders, verifyLeaseStillHeld, vars
  <2> QED BY <2>1, TickRuns, RunRuns, EnvironmentRuns DEF Next
<1> QED BY <1>1, <1>2, SchedulerTypeCorrect, PTL DEF Spec

\* Two agent loops of a task work side by side on this host only when the row was
\* taken from one of them, by a stall, a cancel or a peer, after that loop had
\* begun: a run that lost the row earlier stops at the verification after the
\* settle delay, and a superseded run that ends leaves its successor's row alone
\* (verifyLeaseStillHeld and the lease checks of runTask in scheduler.ts).
THEOREM OneRunAtATimeCorrect == Spec => []OneRunAtATime
<1>1. RunInv => OneRunAtATime
  <2> SUFFICES ASSUME RunInv PROVE Cardinality(Holders) <= 1
    BY DEF OneRunAtATime, Holders
  <2>1. CASE Holders = {}
    BY <2>1, FS_EmptySet
  <2>2. CASE Holders # {}
    <3>1. Holders = {row.lease}
      BY <2>2 DEF RunInv, verifyLeaseStillHeld
    <3>2. Cardinality({row.lease}) = 1
      BY FS_Singleton
    <3> QED BY <3>1, <3>2
  <2> QED BY <2>1, <2>2
<1> QED BY <1>1, RunInvCorrect, PTL

---------------------------------------------------------------------------
(* Retries of a deferred task *)

\* The numbers of the account.
LEMMA Account ==
    ASSUME TypeOK
    PROVE  /\ row.cf \in Nat /\ row.cf <= CfCap /\ faults \in Nat /\ starts \in Nat
           /\ Unpaid \in {0, 1} /\ (Open <=> Unpaid = 1)
           /\ DeferredMaxRetries \in Nat /\ CfCap \in Nat /\ DeferredMaxRetries + 1 <= CfCap
BY CapAboveLimits DEF TypeOK, Row, Unpaid

LEMMA MoreFaults ==
    ASSUME NEW a \in Nat, NEW d \in Nat, NEW b \in Nat, NEW c \in Nat, c >= b, a <= d + 1 + b
    PROVE  a <= d + 1 + c
OBVIOUS

\* A row that leaves its run pays for the start with a failure or a fault.
LEMMA PaidRow ==
    ASSUME TypeOK, TypeOK', RetryInv,
           row.st \notin {"completed", "cancelled"} \/ row.lease \in Live,
           row'.lease \notin Live' \/ row'.cf <= DeferredMaxRetries,
           row'.st \notin {"claimed", "running", "completed"}, starts' = starts, faults' >= faults,
           row.cf + faults + Unpaid <= row'.cf + faults',
           row'.cf <= DeferredMaxRetries + 1,
           row'.st = "pending" /\ row'.next # "none" => row'.cf <= DeferredMaxRetries
    PROVE  RetryInv'
<1>1. ~Open' /\ Unpaid' = 0
  BY DEF Open, Unpaid
<1>2. starts <= row.cf + faults + Unpaid
  BY DEF RetryInv
<1>3. /\ row.cf \in Nat /\ faults \in Nat /\ starts \in Nat /\ Unpaid \in {0, 1}
      /\ row'.cf \in Nat /\ faults' \in Nat /\ DeferredMaxRetries \in Nat
  BY Account, CapAboveLimits DEF TypeOK, Row
<1>4. starts' <= row'.cf + faults' + Unpaid'
  BY <1>1, <1>2, <1>3
<1>5. starts' <= DeferredMaxRetries + 1 + faults'
  <2>1. starts <= DeferredMaxRetries + 1 + faults
    BY DEF RetryInv
  <2> QED BY <1>3, <2>1, MoreFaults
<1> QED BY <1>4, <1>5 DEF RetryInv

\* A completed task starts no more.
LEMMA CompletedRow ==
    ASSUME TypeOK, TypeOK', RetryInv, row'.st = "completed", row'.cf = 0, row'.lease \notin Live',
           starts' = starts, faults' >= faults
    PROVE  RetryInv'
<1>1. /\ faults \in Nat /\ faults' \in Nat /\ starts \in Nat /\ DeferredMaxRetries \in Nat
  BY Account DEF TypeOK
<1>2. starts' <= DeferredMaxRetries + 1 + faults' /\ row'.cf <= DeferredMaxRetries + 1
  <2>1. starts <= DeferredMaxRetries + 1 + faults
    BY DEF RetryInv
  <2>2. starts <= DeferredMaxRetries + 1 + faults'
    BY <1>1, <2>1, MoreFaults
  <2>3. 0 <= DeferredMaxRetries + 1
    BY <1>1
  <2> QED BY <2>2, <2>3
<1> QED BY <1>2 DEF RetryInv

\* A row left alone stays accounted for when other runs end and faults happen.
LEMMA SameRow ==
    ASSUME TypeOK, TypeOK', RetryInv, row' = row, starts' = starts, faults' >= faults,
           row.lease \in Live' => row.lease \in Live, Open' \/ ~Open \/ faults' >= faults + 1
    PROVE  RetryInv'
<1>1. /\ row.cf \in Nat /\ faults \in Nat /\ starts \in Nat /\ Unpaid \in {0, 1}
      /\ faults' \in Nat /\ DeferredMaxRetries \in Nat
      /\ Unpaid' \in {0, 1} /\ (Open <=> Unpaid = 1) /\ (Open' <=> Unpaid' = 1)
  BY Account DEF TypeOK, Unpaid
<1>2. row.cf + faults + Unpaid <= row.cf + faults' + Unpaid'
  BY <1>1
<1>3. starts <= row.cf + faults + Unpaid => starts' <= row'.cf + faults' + Unpaid'
  BY <1>1, <1>2
<1>4. starts' <= DeferredMaxRetries + 1 + faults'
  <2>1. starts <= DeferredMaxRetries + 1 + faults
    BY DEF RetryInv
  <2> QED BY <1>1, <2>1, MoreFaults
<1> QED BY <1>3, <1>4 DEF RetryInv

\* The row a tick works on, after eviction and healing.
LEMMA EvictedRetries ==
    ASSUME TypeOK, DueInv, RetryInv, kind = "deferred", NEW stale, NEW r, NEW f,
           EvictedTo(stale, r, f), faults' \in Nat, faults' >= faults,
           Stalled(stale) => faults' >= faults + 1
    PROVE  /\ r.cf <= DeferredMaxRetries + 1
           /\ r.st \in {"pending", "claimed", "running"} /\ r.next # "none" =>
                  r.cf <= DeferredMaxRetries
           /\ r.st \in {"pending", "claimed"} => starts <= r.cf + faults'
           /\ f # "absent" => r.next = "due"
           /\ r = row \/ (r.st = "pending" /\ r.lease = None)
<1>1. /\ RowOK(row) /\ row \in Row /\ kind \in Kinds /\ intake \in BOOLEAN
      /\ "none" \in {"none", "future", "due"}
  BY DEF TypeOK, RowOK
<1>2. /\ row.cf \in Nat /\ row.cf <= CfCap /\ faults \in Nat /\ starts \in Nat
      /\ Unpaid \in {0, 1} /\ (Open <=> Unpaid = 1)
      /\ DeferredMaxRetries \in Nat /\ CfCap \in Nat /\ DeferredMaxRetries + 1 <= CfCap
  BY Account
<1>3. f # "absent" => r.next = "due"
  BY DEF EvictedTo, DueInv
<1>4. CASE r = row
  <2>1. row.st \in {"pending", "claimed"} => starts <= row.cf + faults + Unpaid /\ ~Open
    BY DEF RetryInv, Open
  <2>2. row.st \in {"pending", "claimed"} => starts <= row.cf + faults'
    BY <1>2, <2>1
  <2> QED BY <1>3, <1>4, <2>2 DEF RetryInv
<1>5. CASE row.st = "claimed" /\ r = Freed(row)
  <2>1. r.st = "pending" /\ r.lease = None /\ r.cf = row.cf /\ r.next = row.next
    BY <1>1, <1>5, FreedRow
  <2>2. starts <= row.cf + faults + Unpaid /\ ~Open /\ row.cf <= DeferredMaxRetries
    BY <1>5 DEF RetryInv, Open
  <2>3. starts <= r.cf + faults' /\ r.cf <= DeferredMaxRetries + 1
    BY <1>2, <2>1, <2>2
  <2> QED BY <1>3, <2>1, <2>2, <2>3
<1>6. CASE stale /\ row.st = "running" /\ r = Evicted(row)
  <2>1. /\ r.st = "pending" /\ r.lease = None /\ r.cf = Failed(row).cf
        /\ r.next # "none" => r.cf <= DeferredMaxRetries
    BY <1>1, <1>6, EvictedRow
  <2>2. row.cf <= DeferredMaxRetries /\ starts <= row.cf + faults + Unpaid
    BY <1>6 DEF RetryInv
  <2>3. row.cf < CfCap
    BY <1>2, <2>2
  <2>4. r.cf = row.cf + 1
    BY <1>1, <2>1, <2>3, FailedRow
  <2>5. starts <= r.cf + faults' /\ r.cf <= DeferredMaxRetries + 1
    BY <1>2, <2>2, <2>4
  <2> QED BY <1>3, <2>1, <2>5
<1>7. CASE row.st \notin {"claimed", "running"} /\ Stuck(row) /\ r = Healed(row)
  <2>1. /\ r.st = "pending" /\ r.lease = None /\ r.cf = row.cf + 1 /\ r.cf <= DeferredMaxRetries
    BY <1>1, <1>7, HealedRow
  <2>2. row.st = "failed"
    BY <1>7 DEF Stuck
  <2>3. starts <= row.cf + faults + Unpaid
    BY <2>2 DEF RetryInv
  <2>4. starts <= r.cf + faults' /\ r.cf <= DeferredMaxRetries + 1
    BY <1>2, <2>1, <2>3
  <2> QED BY <1>3, <2>1, <2>4
<1> QED BY <1>4, <1>5, <1>6, <1>7 DEF EvictedTo

\* A tick starts a run only of a row with retries left.
LEMMA TickRetries ==
    ASSUME TypeOK, TypeOK', DueInv, RetryInv, kind = "deferred",
           NEW stale \in BOOLEAN, NEW over \in BOOLEAN, NEW here \in BOOLEAN,
           Tick(stale, over, here)
    PROVE  RetryInv'
<1>1. PICK r, f : EvictedTo(stale, r, f) /\ RowOK(r) /\ TickedTo(r, f)
  BY TickCases DEF TypeOK, RowOK
<1>2. /\ NewLease \in Leases /\ NewLease # None /\ NewLease \notin Live /\ NewLease # row.lease
      /\ starts' = starts /\ None \notin Leases
  BY FreshLease, SchedulerAssumption DEF Tick
<1>3. faults' \in Nat /\ faults' >= faults /\ (Stalled(stale) => faults' >= faults + 1)
  <2>1. PICK n \in Nat : Fault(n) /\ (Stalled(stale) => n >= 1)
    BY TickFault
  <2>2. faults' = faults + n /\ faults \in Nat
    BY <2>1 DEF Fault, TypeOK
  <2>3. Stalled(stale) => faults' >= faults + 1
    BY <2>1, <2>2
  <2> QED BY <2>2, <2>3
<1>4. /\ r.cf <= DeferredMaxRetries + 1
      /\ r.st \in {"pending", "claimed", "running"} /\ r.next # "none" =>
             r.cf <= DeferredMaxRetries
  BY <1>1, <1>3, EvictedRetries
<1>5. r.st \in {"pending", "claimed"} => starts <= r.cf + faults'
  BY <1>1, <1>3, EvictedRetries
<1>6. f # "absent" => r.next = "due"
  BY <1>1, <1>3, EvictedRetries
<1>7. r = row \/ (r.st = "pending" /\ r.lease = None)
  BY <1>1, <1>3, EvictedRetries
<1>8. starts' <= DeferredMaxRetries + 1 + faults'
  <2>1. starts <= DeferredMaxRetries + 1 + faults
    BY DEF RetryInv
  <2> QED BY <1>2, <1>3, <2>1, Account, MoreFaults
<1>9. Unpaid' \in {0, 1} /\ starts \in Nat /\ faults' \in Nat
  BY <1>3 DEF Unpaid, TypeOK
<1>10. ASSUME row'.cf = r.cf, r.cf \in Nat, r.st \in {"pending", "claimed"}
       PROVE  starts' <= row'.cf + faults' + Unpaid'
  <2>1. starts <= r.cf + faults'
    BY <1>5, <1>10
  <2> QED BY <1>2, <1>9, <1>10, <2>1
<1>11. r.cf \in Nat /\ None \notin Live
  BY <1>1, <1>2 DEF RowOK, Row, Live
<1>12. CASE row' = r /\ run' = run
  <2>1. Live' = Live
    BY <1>12 DEF Live
  <2>2. CASE r = row
    BY <1>2, <1>3, <1>12, <2>1, <2>2, SameRow DEF Open
  <2>3. CASE r.st = "pending" /\ r.lease = None
    BY <1>4, <1>8, <1>10, <1>11, <1>12, <2>1, <2>3 DEF RetryInv
  <2> QED BY <1>7, <2>2, <2>3
<1>13. CASE /\ row' = Released(r) /\ run' = run
            /\ r.st = "pending" \/ (r.st = "claimed" /\ r.by = Me)
  <2>1. /\ row'.st = "pending" /\ row'.lease = r.lease /\ row'.next = r.next /\ row'.cf = r.cf
    BY <1>1, <1>2, <1>13, TickRows
  <2>2. Live' = Live
    BY <1>13 DEF Live
  <2>3. r.lease \in Live => r.cf <= DeferredMaxRetries
    BY <1>7, <1>11 DEF RetryInv
  <2> QED BY <1>4, <1>8, <1>10, <1>11, <1>13, <2>1, <2>2, <2>3 DEF RetryInv
<1>14. CASE /\ row' = Running(r)
            /\ \/ r.st = "claimed" /\ r.by = Me
               \/ r.st = "pending" /\ (f # "absent" \/ r.next = "due")
  <2>1. row'.st = "running" /\ row'.next = r.next /\ row'.cf = r.cf
    BY <1>1, <1>2, <1>14, TickRows
  <2>2. r.next = "due"
    <3>1. CASE r.st = "pending"
      BY <1>6, <1>14, <3>1
    <3>2. CASE r.st = "claimed"
      BY <1>7, <3>2 DEF RetryInv
    <3> QED BY <1>14, <3>1, <3>2
  <2>3. r.cf <= DeferredMaxRetries
    BY <1>4, <1>14, <2>2
  <2> QED BY <1>4, <1>8, <1>10, <1>11, <1>14, <2>1, <2>2, <2>3 DEF RetryInv
<1> QED BY <1>1, <1>12, <1>13, <1>14 DEF TickedTo

\* A run starts its loop with retries left, and pays when it fails.
LEMMA RunRetries ==
    ASSUME TypeOK, TypeOK', RetryInv, kind = "deferred", NEW l \in Leases,
           \/ Abort(l) \/ SkipEmpty(l) \/ Begin(l)
           \/ \E permanent \in BOOLEAN : Invalid(l, permanent)
           \/ \E ok, soft \in BOOLEAN : Finish(l, ok, soft)
    PROVE  RetryInv'
<1>1. /\ RowOK(row) /\ row \in Row /\ fire \in Fires /\ kind \in Kinds /\ intake \in BOOLEAN
      /\ run \in [Leases -> {"none", "settle", "loop"}] /\ None \notin Leases
      /\ "future" \in {"none", "future", "due"} /\ FALSE \in BOOLEAN
  BY SchedulerAssumption DEF TypeOK, RowOK, Fires
<1>2. /\ row.cf \in Nat /\ row.cf <= CfCap /\ faults \in Nat /\ starts \in Nat
      /\ Unpaid \in {0, 1} /\ (Open <=> Unpaid = 1)
      /\ DeferredMaxRetries \in Nat /\ CfCap \in Nat /\ DeferredMaxRetries + 1 <= CfCap
  BY Account
<1>3. CASE Begin(l)
  <2>1. /\ run[l] = "settle" /\ row.st = "running" /\ row.by = Me /\ row.lease = l
        /\ run' = [run EXCEPT ![l] = "loop"] /\ starts' = starts + 1 /\ row' = row
        /\ faults' = faults
    BY <1>3 DEF Begin, verifyLeaseStillHeld
  <2>2. ~Open /\ Unpaid = 0
    BY <2>1 DEF Open, Unpaid
  <2>3. Open' /\ Unpaid' = 1
    BY <1>1, <2>1 DEF Open, Unpaid
  <2>4. l \in Live
    BY <2>1 DEF Live
  <2>5. starts <= row.cf + faults + Unpaid /\ row.cf <= DeferredMaxRetries
    BY <2>1, <2>4 DEF RetryInv
  <2>6. starts' <= row'.cf + faults' + Unpaid'
    BY <1>2, <2>1, <2>2, <2>3, <2>5
  <2>7. starts' <= DeferredMaxRetries + 1 + faults'
    BY <1>2, <2>1, <2>2, <2>5
  <2> QED BY <2>1, <2>5, <2>6, <2>7 DEF RetryInv
<1>4. CASE Abort(l) \/ (row.lease # l /\ \E ok, soft \in BOOLEAN : Finish(l, ok, soft))
  <2>1. /\ row' = row /\ starts' = starts /\ faults' = faults /\ run' = [run EXCEPT ![l] = "none"]
        /\ run[l] = "settle" \/ row.lease # l
    BY <1>4 DEF Abort, Finish, End
  <2>2. Open => Open'
    BY <1>1, <2>1 DEF Open
  <2>3. row.lease \in Live' => row.lease \in Live
    BY <1>1, <2>1 DEF Live
  <2> QED BY <1>2, <2>1, <2>2, <2>3, SameRow
<1>5. CASE SkipEmpty(l)
  BY <1>5 DEF SkipEmpty, EmptyRearm
<1>6. ASSUME RowOK(row'), run' = [run EXCEPT ![l] = "none"], row.lease = l, l \in Live,
             UNCHANGED <<faults, starts>>, row'.lease \in {l, None},
             row'.cf = Failed(row).cf, row'.st \in {"failed", "pending"},
             row'.st = "pending" => row'.cf <= DeferredMaxRetries
      PROVE  RetryInv'
  <2>1. row.cf <= DeferredMaxRetries
    BY <1>6 DEF RetryInv
  <2>2. row.cf < CfCap
    BY <1>2, <2>1
  <2>3. row'.cf = row.cf + 1
    BY <1>1, <1>6, <2>2, FailedRow
  <2>4. row.cf + faults + Unpaid <= row'.cf + faults' /\ faults' >= faults
        /\ row'.cf <= DeferredMaxRetries + 1
    BY <1>2, <1>6, <2>1, <2>3
  <2>5. row'.lease \notin Live'
    BY <1>1, <1>6 DEF Live
  <2> QED BY <1>6, <2>4, <2>5, PaidRow
<1>7. ASSUME NEW o \in Row, o.st = "failed", o.cf = Failed(row).cf, o.lease = row.lease,
             row.lease = l, row' = Rearmed(o, FALSE, intake) \/ row' = Rearmed(o, FALSE, FALSE)
      PROVE  /\ row'.lease \in {l, None} /\ row'.cf = Failed(row).cf
             /\ row'.st \in {"failed", "pending"}
             /\ row'.st = "pending" => row'.cf <= DeferredMaxRetries
  <2>1. row' = IF o.cf > DeferredMaxRetries THEN o ELSE Due(Freed(o), "future")
    BY <1>1, <1>7, RetriedRow
  <2>2. /\ Due(Freed(o), "future").st = "pending" /\ Due(Freed(o), "future").lease = None
        /\ Due(Freed(o), "future").cf = o.cf
    BY <1>1, <1>7, FreedRow
  <2>3. o.cf \in Nat
    BY DEF Row
  <2>4. CASE o.cf > DeferredMaxRetries
    BY <1>7, <2>1, <2>4
  <2>5. CASE ~(o.cf > DeferredMaxRetries)
    BY <1>2, <1>7, <2>1, <2>2, <2>3, <2>5
  <2> QED BY <2>4, <2>5
<1>8. ASSUME NEW permanent \in BOOLEAN, Invalid(l, permanent)
      PROVE  RetryInv'
  <2>1. /\ RowOK(row') /\ run' = [run EXCEPT ![l] = "none"] /\ row.lease = l
        /\ UNCHANGED <<faults, starts>>
    BY <1>8, RunWrites
  <2>2. l \in Live
    BY <1>8 DEF Invalid, Live
  <2>3. /\ Failed(row) \in Row /\ Failed(row).st = "failed" /\ Failed(row).lease = row.lease
    BY <1>1, FailedRow
  <2>4. row' = Parked(Failed(row)) \/ row' = Rearmed(Failed(row), FALSE, FALSE)
    BY <1>8 DEF Invalid, Write
  <2>5. CASE row' = Parked(Failed(row))
    <3>1. row'.st = "failed" /\ row'.lease = None /\ row'.cf = Failed(row).cf
      BY <2>3, <2>5, ParkedRow
    <3> QED BY <1>6, <2>1, <2>2, <3>1
  <2>6. CASE row' = Rearmed(Failed(row), FALSE, FALSE)
    <3>1. /\ row'.lease \in {l, None} /\ row'.cf = Failed(row).cf
          /\ row'.st \in {"failed", "pending"}
          /\ row'.st = "pending" => row'.cf <= DeferredMaxRetries
      BY <1>7, <2>1, <2>3, <2>6
    <3> QED BY <1>6, <2>1, <2>2, <3>1
  <2> QED BY <2>4, <2>5, <2>6
<1>9. ASSUME row.lease = l, NEW ok \in BOOLEAN, NEW soft \in BOOLEAN, Finish(l, ok, soft)
      PROVE  RetryInv'
  <2> DEFINE o == Outcome(ok, soft, l)
  <2>1. /\ RowOK(row') /\ run' = [run EXCEPT ![l] = "none"] /\ UNCHANGED <<faults, starts>>
    BY <1>9, RunWrites
  <2>2. /\ l \in Live /\ row' = Rearmed(o, ok, intake)
    BY <1>9 DEF Finish, Live, Write
  <2>3. o \in Row /\ o.lease = row.lease
    BY <1>1, OutcomeRow DEF RowOK
  <2>4. /\ ok /\ row.st # "running" => o = row
        /\ ok /\ row.st = "running" => o.st = "completed" /\ o.cf = 0
    <3>1. ASSUME ok, row.st # "running" PROVE o = row
      <4>1. o = Completed(l)
        BY <3>1 DEF Outcome
      <4> QED BY <3>1, <4>1 DEF Completed
    <3>2. ASSUME ok, row.st = "running" PROVE o.st = "completed" /\ o.cf = 0
      <4>1. o = [row EXCEPT !.st = "completed", !.cf = 0, !.ran = TRUE]
        BY <3>2 DEF Outcome, Completed
      <4> QED BY <1>1, <4>1 DEF Row
    <3> QED BY <3>1, <3>2
  <2>5. ASSUME ~ok PROVE o.st = "failed" /\ o.cf = Failed(row).cf
    BY <1>1, <2>5, OutcomeRow
  <2> HIDE DEF o
  <2>6. CASE ~ok
    <3>1. row' = Rearmed(o, FALSE, intake)
      BY <2>2, <2>6
    <3>2. /\ row'.lease \in {l, None} /\ row'.cf = Failed(row).cf
          /\ row'.st \in {"failed", "pending"}
          /\ row'.st = "pending" => row'.cf <= DeferredMaxRetries
      BY <1>7, <1>9, <2>3, <2>5, <2>6, <3>1
    <3> QED BY <1>6, <1>9, <2>1, <2>2, <3>2
  <2>7. CASE ok
    <3>1. row' = o
      BY <2>2, <2>3, <2>7, RetriedRow
    <3>2. row'.lease \notin Live'
      BY <1>1, <1>9, <2>1, <2>3, <3>1 DEF Live
    <3>3. CASE o.st = "completed" /\ o.cf = 0
      BY <1>2, <2>1, <3>1, <3>2, <3>3, CompletedRow
    <3>4. CASE row.st # "running" /\ o = row
      <4>1. ~Open
        BY <3>4 DEF Open
      <4> QED BY <1>2, <2>1, <2>3, <3>1, <3>2, <3>4, <4>1, SameRow
    <3> QED BY <2>4, <2>7, <3>3, <3>4
  <2> QED BY <2>6, <2>7
<1> QED BY <1>3, <1>4, <1>5, <1>8, <1>9

\* A due row that is claimed, or goes on running, keeps its account.
LEMMA HeldRow ==
    ASSUME TypeOK, TypeOK', RetryInv,
           row.st \in {"pending", "claimed", "running"}, row.next = "due",
           row'.st \in {"claimed", "running"}, row'.next = "due", row'.cf = row.cf,
           starts' = starts, faults' >= faults, ~Open \/ faults' >= faults + 1
    PROVE  RetryInv'
<1>1. /\ row.cf \in Nat /\ faults \in Nat /\ starts \in Nat /\ Unpaid \in {0, 1}
      /\ faults' \in Nat /\ DeferredMaxRetries \in Nat
      /\ Unpaid' \in {0, 1} /\ (Open <=> Unpaid = 1)
  BY Account DEF TypeOK, Unpaid
<1>2. starts <= row.cf + faults + Unpaid /\ row.cf <= DeferredMaxRetries
  BY DEF RetryInv
<1>3. starts' <= row'.cf + faults' + Unpaid' /\ row'.cf <= DeferredMaxRetries + 1
  BY <1>1, <1>2
<1>4. starts' <= DeferredMaxRetries + 1 + faults'
  <2>1. starts <= DeferredMaxRetries + 1 + faults
    BY DEF RetryInv
  <2> QED BY <1>1, <2>1, MoreFaults
<1> QED BY <1>2, <1>3, <1>4 DEF RetryInv

\* A crash is a fault, and pays for the run that it ends.
LEMMA BootRetries ==
    ASSUME TypeOK, TypeOK', DueInv, RetryInv, kind = "deferred",
           Restart \/ CrashFiring \/ \E l \in Leases : CrashFinishing(l)
    PROVE  RetryInv'
<1>1. /\ RowOK(row) /\ row \in Row /\ "none" \in {"none", "future", "due"} /\ TRUE \in BOOLEAN
  BY DEF TypeOK, RowOK
<1>2. /\ row.cf \in Nat /\ row.cf <= CfCap /\ faults \in Nat /\ starts \in Nat
      /\ Unpaid \in {0, 1} /\ (Open <=> Unpaid = 1)
      /\ DeferredMaxRetries \in Nat /\ CfCap \in Nat /\ DeferredMaxRetries + 1 <= CfCap
  BY Account
<1>3. Live' = {} /\ faults' = faults + 1
  BY BootRows
<1>4. starts' = starts /\ faults' >= faults /\ faults' >= faults + 1
  <2>1. starts' = starts
    BY DEF Restart, CrashFiring, CrashFinishing, Boot
  <2> QED BY <1>2, <1>3, <2>1
<1>5. CASE row' = row
  BY <1>3, <1>4, <1>5, SameRow
<1>6. ASSUME row'.st = "pending", row'.cf = row.cf, row.st \in {"pending", "claimed", "running"},
             row.next = "due"
      PROVE  RetryInv'
  <2>1. row.cf <= DeferredMaxRetries
    BY <1>6 DEF RetryInv
  <2>2. row.cf + faults + Unpaid <= row'.cf + faults' /\ row'.cf <= DeferredMaxRetries
        /\ row'.cf <= DeferredMaxRetries + 1
    BY <1>2, <1>3, <1>6, <2>1
  <2> QED BY <1>3, <1>4, <1>6, <2>2, PaidRow
<1>7. CASE Restart
  <2>1. row' = row \/ (row.st = "running" /\ row' = Freed(row))
    BY <1>7 DEF Restart, Boot, BootReset
  <2>2. row.st = "running" => row.next = "due"
    BY DEF RetryInv
  <2>3. Freed(row).st = "pending" /\ Freed(row).cf = row.cf
    BY <1>1, FreedRow
  <2> QED BY <1>5, <1>6, <2>1, <2>2, <2>3
<1>8. CASE CrashFiring
  <2> DEFINE q == [Claimed(row) EXCEPT !.st = "running"]
  <2>1. PICK r \in {row, Claimed(row), q} : Boot(r, "processing")
    BY <1>1, <1>8, CrashFiringRow
  <2>2. row.st = "pending" /\ row.next = "due"
    BY <1>1, <1>8, CrashFiringRow DEF DueInv
  <2>3. /\ Claimed(row).st = "claimed" /\ Claimed(row).next = row.next /\ Claimed(row).cf = row.cf
        /\ q \in Row /\ q.st = "running" /\ q.by = Me /\ q.cf = row.cf
    BY <1>1 DEF Claimed, Row
  <2>4. row' = BootReset(r)
    BY <2>1 DEF Boot
  <2> HIDE DEF q
  <2>5. row' = row \/ row' = Claimed(row) \/ row' = Freed(q)
    BY <2>1, <2>2, <2>3, <2>4 DEF BootReset
  <2>6. Freed(q).st = "pending" /\ Freed(q).cf = q.cf
    BY <1>1, <2>3, FreedRow
  <2>7. CASE row' = Claimed(row)
    BY <1>4, <2>2, <2>3, <2>7, HeldRow
  <2>8. CASE row' = Freed(q)
    BY <1>6, <2>2, <2>3, <2>6, <2>8
  <2> QED BY <1>5, <2>5, <2>7, <2>8
<1>9. ASSUME NEW l \in Leases, CrashFinishing(l)
      PROVE  RetryInv'
  <2>1. PICK ok \in BOOLEAN : Boot(Outcome(ok, TRUE, l), fire)
    BY <1>9 DEF CrashFinishing
  <2> DEFINE o == Outcome(ok, TRUE, l)
  <2>2. o.st # "running"
    BY <1>1, OutcomeRow
  <2>3. row' = o
    BY <2>1, <2>2 DEF Boot, BootReset
  <2>4. /\ ok /\ row.st # "running" => o = row
        /\ ok /\ row.st = "running" => o.st = "completed" /\ o.cf = 0
    <3>1. ASSUME ok, row.st # "running" PROVE o = row
      <4>1. o = Completed(l)
        BY <3>1 DEF Outcome
      <4> QED BY <3>1, <4>1 DEF Completed
    <3>2. ASSUME ok, row.st = "running" PROVE o.st = "completed" /\ o.cf = 0
      <4>1. o = [row EXCEPT !.st = "completed", !.cf = 0, !.ran = TRUE]
        BY <3>2 DEF Outcome, Completed
      <4> QED BY <1>1, <4>1 DEF Row
    <3> QED BY <3>1, <3>2
  <2>5. ASSUME ~ok PROVE o.st = "failed" /\ o.cf = Failed(row).cf
    <3>1. TRUE \in BOOLEAN /\ RowOK(row)
      BY <1>1
    <3>2. (~ok) => o.st = "failed" /\ o.cf = Failed(row).cf
      BY <3>1, OutcomeRow
    <3> QED BY <2>5, <3>2
  <2>6. row.lease \in Live
    BY <1>9 DEF CrashFinishing, Live
  <2>7. row.cf <= DeferredMaxRetries
    BY <2>6 DEF RetryInv
  <2> HIDE DEF o
  <2>8. CASE ok /\ row.st = "running"
    BY <1>3, <1>4, <2>3, <2>4, <2>8, CompletedRow
  <2>9. CASE ok /\ row.st # "running"
    BY <1>5, <2>3, <2>4, <2>9
  <2>10. CASE ~ok
    <3>1. row.cf < CfCap
      BY <1>2, <2>7
    <3>2. row'.cf = row.cf + 1 /\ row'.st = "failed"
      BY <1>1, <2>3, <2>5, <2>10, <3>1, FailedRow
    <3>3. row.cf + faults + Unpaid <= row'.cf + faults' /\ row'.cf <= DeferredMaxRetries + 1
      BY <1>2, <1>3, <2>7, <3>2
    <3> QED BY <1>3, <1>4, <2>6, <3>2, <3>3, PaidRow
  <2> QED BY <2>8, <2>9, <2>10
<1> QED BY <1>7, <1>8, <1>9

\* Events, time, retention and the peer.
LEMMA EnvironmentRetries ==
    ASSUME TypeOK, TypeOK', RunInv, DueInv, RetryInv, kind = "deferred",
           \/ EventArrives \/ Reconcile \/ Cancel \/ Elapse \/ Expire \/ Prune
           \/ PeerClaims \/ PeerRuns \/ PeerRearms \/ PeerFrees
    PROVE  RetryInv'
<1>1. /\ RowOK(row) /\ row \in Row /\ fire \in Fires /\ kind \in Kinds
      /\ "none" \in {"none", "future", "due"} /\ "future" \in {"none", "future", "due"}
      /\ TRUE \in BOOLEAN /\ FALSE \in BOOLEAN
      /\ None \notin Leases /\ Peer \notin Leases /\ None # Peer /\ Me # Peer
  BY SchedulerAssumption DEF TypeOK, RowOK, Fires
<1>2. /\ row.cf \in Nat /\ row.cf <= CfCap /\ faults \in Nat /\ starts \in Nat
      /\ Unpaid \in {0, 1} /\ (Open <=> Unpaid = 1)
      /\ DeferredMaxRetries \in Nat /\ CfCap \in Nat /\ DeferredMaxRetries + 1 <= CfCap
  BY Account
<1>3. Live' = Live /\ run' = run /\ starts' = starts
  BY DEF EventArrives, Reconcile, Cancel, Elapse, Expire, Prune, PeerClaims, PeerRuns,
         PeerRearms, PeerFrees, Live
<1>4. None \notin Live /\ Peer \notin Live
  BY <1>1 DEF Live
<1>5. CASE EventArrives \/ Reconcile
  BY <1>5 DEF EventArrives, Reconcile, DueInv
<1>6. ASSUME Fault(1)
      PROVE  faults' = faults + 1 /\ faults' >= faults /\ faults' >= faults + 1
  BY <1>2, <1>6 DEF Fault
<1>7. CASE Cancel
  <2>1. row' = [row EXCEPT !.st = "cancelled"] /\ Fault(1)
    BY <1>7 DEF Cancel
  <2>2. row'.st = "cancelled" /\ row'.cf = row.cf /\ row'.lease = row.lease
    BY <1>1, <2>1 DEF Row
  <2>3. faults' = faults + 1 /\ faults' >= faults
    BY <1>6, <2>1
  <2>4. row.cf <= DeferredMaxRetries + 1 /\ (row.lease \in Live => row.cf <= DeferredMaxRetries)
    BY DEF RetryInv
  <2>5. row.cf + faults + Unpaid <= row'.cf + faults'
    BY <1>2, <2>2, <2>3
  <2>6. CASE row.st # "completed" \/ row.lease \in Live
    BY <1>3, <1>7, <2>2, <2>3, <2>4, <2>5, <2>6, PaidRow DEF Cancel
  <2>7. CASE row.lease \notin Live
    <3>1. starts <= DeferredMaxRetries + 1 + faults
      BY DEF RetryInv
    <3>2. starts' <= DeferredMaxRetries + 1 + faults'
      BY <1>2, <1>3, <2>3, <3>1
    <3> QED BY <1>3, <2>2, <2>4, <2>7, <3>2 DEF RetryInv
  <2> QED BY <2>6, <2>7
<1>8. CASE Elapse
  <2>1. /\ row' = [row EXCEPT !.next = "due"] /\ faults' = faults /\ row.next = "future"
    BY <1>8 DEF Elapse
  <2>2. /\ row'.st = row.st /\ row'.cf = row.cf /\ row'.lease = row.lease /\ row'.by = row.by
        /\ row'.next = "due"
    BY <1>1, <2>1 DEF Row
  <2>3. Unpaid' = Unpaid
    BY <1>3, <2>2 DEF Unpaid, Open
  <2> QED BY <1>3, <2>1, <2>2, <2>3 DEF RetryInv
<1>9. CASE Expire \/ Prune
  <2>1. row' = row
    BY <1>9 DEF Expire, Prune
  <2>2. faults' >= faults
    <3>1. faults' = faults \/ \E n \in Nat : faults' = faults + n
      BY <1>9 DEF Expire, Prune, Fault
    <3> QED BY <1>2, <3>1
  <2>3. Open' \/ ~Open
    BY <1>3, <2>1 DEF Open
  <2> QED BY <1>3, <2>1, <2>2, <2>3, SameRow
<1>10. CASE PeerClaims
  <2>1. /\ row' = [row EXCEPT !.st = "claimed", !.by = Peer] /\ Fault(1) /\ row.next = "due"
        /\ row.st \in {"pending", "claimed", "running"}
    BY <1>10 DEF PeerClaims
  <2>2. row'.st = "claimed" /\ row'.next = "due" /\ row'.cf = row.cf
    BY <1>1, <2>1 DEF Row
  <2> QED BY <1>3, <1>6, <2>1, <2>2, HeldRow
<1>11. CASE PeerRuns
  <2>1. /\ row' = [row EXCEPT !.st = "running", !.lease = Peer] /\ faults' = faults
        /\ row.st = "claimed"
    BY <1>11 DEF PeerRuns
  <2>2. row'.st = "running" /\ row'.next = row.next /\ row'.cf = row.cf
    BY <1>1, <2>1 DEF Row
  <2>3. row.next = "due" /\ ~Open
    BY <2>1 DEF RetryInv, Open
  <2>4. faults' >= faults
    BY <1>2, <2>1
  <2> QED BY <1>3, <2>1, <2>2, <2>3, <2>4, HeldRow
<1>12. CASE PeerFrees
  <2>1. row' = Freed(row) /\ Fault(1) /\ row.st \in {"claimed", "running"}
    BY <1>12 DEF PeerFrees
  <2>2. row'.st = "pending" /\ row'.cf = row.cf /\ row'.lease = None
    BY <1>1, <2>1, FreedRow
  <2>3. row.cf <= DeferredMaxRetries
    BY <2>1 DEF RetryInv
  <2>4. row.cf + faults + Unpaid <= row'.cf + faults' /\ row'.cf <= DeferredMaxRetries
        /\ row'.cf <= DeferredMaxRetries + 1
    BY <1>2, <1>6, <2>1, <2>2, <2>3
  <2> QED BY <1>3, <1>4, <1>6, <2>1, <2>2, <2>4, PaidRow
<1>13. CASE PeerRearms
  <2> DEFINE c == [row EXCEPT !.st = "completed", !.cf = 0, !.ran = TRUE]
  <2>1. c \in Row /\ c.st = "completed" /\ c.cf = 0 /\ c.lease = row.lease
    <3>1. 0 \in 0..CfCap
      BY CapAboveLimits
    <3> QED BY <1>1, <3>1 DEF Row
  <2>2. /\ row.st = "running"
        /\ \/ row' = Evicted(row)
           \/ row.by = Peer /\ row' = Rearmed(c, TRUE, FALSE)
           \/ row.by = Peer /\ row' = Rearmed(Failed(row), FALSE, FALSE)
    BY <1>13 DEF PeerRearms, Write
  <2>3. faults' >= faults
    <3>1. \E n \in Nat : faults' = faults + n
      BY <1>13 DEF PeerRearms, Fault
    <3> QED BY <1>2, <3>1
  <2>4. row.cf <= DeferredMaxRetries
    BY <2>2 DEF RetryInv
  <2>5. row.cf < CfCap
    BY <1>2, <2>4
  <2>6. /\ Failed(row) \in Row /\ Failed(row).cf = row.cf + 1 /\ Failed(row).st = "failed"
        /\ Failed(row).lease = row.lease
    BY <1>1, <2>5, FailedRow
  <2>7. row.by = Peer => row.lease \notin Live
    BY <1>4, <2>2 DEF RunInv
  <2> HIDE DEF c
  <2>8. ASSUME row'.cf = row.cf + 1, row'.lease \notin Live, row'.st \in {"pending", "failed"},
               row'.st = "pending" /\ row'.next # "none" => row'.cf <= DeferredMaxRetries
        PROVE  RetryInv'
    <3>1. faults' \in Nat
      BY DEF TypeOK
    <3>2. row.cf + faults + Unpaid <= row'.cf + faults' /\ row'.cf <= DeferredMaxRetries + 1
      BY <1>2, <2>3, <2>4, <2>8, <3>1
    <3> QED BY <1>3, <2>2, <2>3, <2>8, <3>2, PaidRow
  <2>9. CASE row' = Evicted(row)
    <3>1. /\ row'.st = "pending" /\ row'.lease = None /\ row'.cf = row.cf + 1
      BY <1>1, <2>6, <2>9, EvictedRow
    <3>2. row'.next # "none" => row'.cf <= DeferredMaxRetries
      BY <1>1, <2>9, EvictedRow
    <3> QED BY <1>4, <2>8, <3>1, <3>2
  <2>10. CASE row.by = Peer /\ row' = Rearmed(c, TRUE, FALSE)
    <3>1. row' = c
      BY <2>1, <2>10, RetriedRow
    <3> QED BY <1>3, <2>1, <2>3, <2>7, <2>10, <3>1, CompletedRow
  <2>11. CASE row.by = Peer /\ row' = Rearmed(Failed(row), FALSE, FALSE)
    <3>1. row' = IF Failed(row).cf > DeferredMaxRetries THEN Failed(row)
                 ELSE Due(Freed(Failed(row)), "future")
      BY <1>1, <2>6, <2>11, RetriedRow
    <3>2. CASE Failed(row).cf > DeferredMaxRetries
      BY <2>6, <2>7, <2>8, <2>11, <3>1, <3>2
    <3>3. CASE ~(Failed(row).cf > DeferredMaxRetries)
      <4>1. row'.st = "pending" /\ row'.lease = None /\ row'.cf = Failed(row).cf
        BY <1>1, <2>6, <3>1, <3>3, FreedRow
      <4>2. row'.cf <= DeferredMaxRetries
        BY <1>2, <2>6, <3>3, <4>1
      <4> QED BY <1>4, <2>6, <2>8, <4>1, <4>2
    <3> QED BY <3>2, <3>3
  <2> QED BY <2>2, <2>9, <2>10, <2>11
<1> QED BY <1>5, <1>7, <1>8, <1>9, <1>10, <1>11, <1>12, <1>13

\* A firing outlives no due time, and only events reach the intake.
LEMMA DueStep ==
    ASSUME TypeOK, DueInv, [Next]_vars
    PROVE  DueInv'
<1>1. /\ RowOK(row) /\ row \in Row /\ fire \in Fires
      /\ "none" \in {"none", "future", "due"} /\ TRUE \in BOOLEAN
  BY DEF TypeOK, RowOK, Fires
<1>2. ASSUME NEW stale \in BOOLEAN, NEW over \in BOOLEAN, NEW here \in BOOLEAN,
             Tick(stale, over, here)
      PROVE  DueInv'
  <2>1. PICK r, f : EvictedTo(stale, r, f) /\ RowOK(r) /\ TickedTo(r, f)
    BY <1>1, <1>2, TickCases DEF TypeOK
  <2>2. NewLease \in Leases /\ NewLease # None
    BY <1>2, FreshLease
  <2>3. row'.next = r.next
    BY <2>1, <2>2, TickRows DEF TickedTo
  <2>4. f # "absent" => r.next = "due"
    BY <2>1 DEF EvictedTo, DueInv
  <2>5. intake' = intake /\ kind' = kind
    BY <1>2 DEF Tick
  <2> QED BY <2>1, <2>3, <2>4, <2>5 DEF TickedTo, DueInv
<1>3. ASSUME NEW l \in Leases,
             \/ SkipEmpty(l)
             \/ \E permanent \in BOOLEAN : Invalid(l, permanent)
             \/ row.lease = l /\ \E ok, soft \in BOOLEAN : Finish(l, ok, soft)
      PROVE  DueInv'
  <2>1. /\ fire' # "absent" => row'.next = row.next /\ fire' = fire
        /\ kind' = kind /\ intake' \in {intake, FALSE}
    BY <1>3, RunWrites
  <2>2. intake' => intake
    BY <2>1
  <2>3. fire' # "absent" => row'.next = "due"
    BY <2>1 DEF DueInv
  <2> QED BY <2>1, <2>2, <2>3 DEF DueInv
<1>4. ASSUME NEW l \in Leases,
             \/ Abort(l) \/ Begin(l)
             \/ row.lease # l /\ \E ok, soft \in BOOLEAN : Finish(l, ok, soft)
      PROVE  DueInv'
  <2>1. UNCHANGED <<kind, row, fire>>
    BY <1>4 DEF Abort, Begin, Finish
  <2>2. intake' => intake
    BY <1>4 DEF Abort, Begin, Finish
  <2> QED BY <2>1, <2>2 DEF DueInv
<1>5. ASSUME NEW r \in Row, r.next = row.next, NEW f, Boot(r, f), f # "absent" => row.next = "due"
      PROVE  DueInv'
  <2>1. Freed(r).next = r.next
    BY <1>1, FreedRow
  <2>2. row' = BootReset(r) /\ fire' = f /\ kind' = kind /\ intake' = intake
    BY <1>5 DEF Boot
  <2>3. row'.next = row.next
    BY <1>5, <2>1, <2>2 DEF BootReset
  <2> QED BY <1>5, <2>2, <2>3 DEF DueInv
<1>6. CASE Restart
  BY <1>1, <1>5, <1>6 DEF Restart, DueInv
<1>7. CASE CrashFiring
  <2>1. PICK r \in {row, Claimed(row), [Claimed(row) EXCEPT !.st = "running"]} :
          Boot(r, "processing")
    BY <1>1, <1>7, CrashFiringRow
  <2>2. row.next = "due"
    BY <1>1, <1>7, CrashFiringRow DEF DueInv
  <2>3. r \in Row /\ r.next = row.next
    BY <1>1, SchedulerAssumption DEF Claimed, Row
  <2> QED BY <1>5, <2>1, <2>2, <2>3
<1>8. ASSUME NEW l \in Leases, CrashFinishing(l)
      PROVE  DueInv'
  <2>1. PICK ok \in BOOLEAN : Boot(Outcome(ok, TRUE, l), fire)
    BY <1>8 DEF CrashFinishing
  <2>2. Outcome(ok, TRUE, l) \in Row /\ Outcome(ok, TRUE, l).next = row.next
    BY <1>1, OutcomeRow DEF RowOK
  <2> QED BY <1>5, <2>1, <2>2 DEF DueInv
<1>9. CASE PeerRearms
  <2>1. PICK r : Write(r)
    BY <1>9 DEF PeerRearms
  <2>2. fire' # "absent" => row'.next = row.next /\ fire' = fire
    BY <1>1, <2>1, WriteFire
  <2> QED BY <1>9, <2>2 DEF PeerRearms, DueInv
<1>10. CASE EventArrives \/ Reconcile \/ Cancel \/ PeerClaims \/ PeerRuns \/ PeerFrees
  <2>1. /\ kind' = kind /\ fire' = fire /\ (intake' = intake \/ kind = "event")
        /\ row' \in {row, Claimed(row), [row EXCEPT !.st = "cancelled"],
                     [row EXCEPT !.st = "claimed", !.by = Peer],
                     [row EXCEPT !.st = "running", !.lease = Peer], Freed(row)}
    BY <1>10 DEF EventArrives, Reconcile, onEvent, Cancel, PeerClaims, PeerRuns, PeerFrees
  <2>2. row'.next = row.next
    BY <1>1, <2>1 DEF Claimed, Freed, Row
  <2> QED BY <2>1, <2>2 DEF DueInv
<1>11. CASE Elapse
  <2>1. row'.next = "due"
    BY <1>1, <1>11 DEF Elapse, Row
  <2> QED BY <1>11, <2>1 DEF Elapse, DueInv
<1>12. CASE Expire \/ Prune
  BY <1>12 DEF Expire, Prune, DueInv
<1>13. CASE UNCHANGED vars
  BY <1>13 DEF vars, DueInv
<1> QED BY <1>2, <1>3, <1>4, <1>6, <1>7, <1>8, <1>9, <1>10, <1>11, <1>12, <1>13 DEF Next

\* A task keeps its type, and only deferred ones count their starts.
LEMMA KindStep ==
    ASSUME [Next]_vars
    PROVE  kind' = kind /\ (kind # "deferred" => starts' = starts)
<1>1. \A stale, over, here : Tick(stale, over, here) => UNCHANGED <<kind, starts>>
  BY DEF Tick
<1>2. \A r, f : Boot(r, f) => UNCHANGED <<kind, starts>>
  BY DEF Boot
<1>3. Restart \/ CrashFiring \/ (\E l \in Leases : CrashFinishing(l)) => UNCHANGED <<kind, starts>>
  BY <1>2 DEF Restart, CrashFiring, CrashFinishing
<1>4. \A l \in Leases :
        \/ Abort(l) \/ SkipEmpty(l) \/ Begin(l)
        \/ \E permanent \in BOOLEAN : Invalid(l, permanent)
        \/ \E ok, soft \in BOOLEAN : Finish(l, ok, soft)
        => kind' = kind /\ (kind # "deferred" => starts' = starts)
  BY DEF Abort, SkipEmpty, Begin, Invalid, Finish
<1>5. \/ EventArrives \/ Reconcile \/ Cancel \/ Elapse \/ Expire \/ Prune
      \/ PeerClaims \/ PeerRuns \/ PeerRearms \/ PeerFrees
      => UNCHANGED <<kind, starts>>
  BY DEF EventArrives, Reconcile, Cancel, Elapse, Expire, Prune, PeerClaims, PeerRuns, PeerRearms,
         PeerFrees
<1> QED BY <1>1, <1>3, <1>4, <1>5 DEF Next, vars

\* The agent loop of a deferred task starts at most DEFERRED_MAX_RETRIES + 1 times,
\* plus once for every crash or interference: no order of failures, evictions,
\* healing, re-arming and restarts gives it one more (retryDeferredTask,
\* healStuckTasks and phase0Eviction of scheduler.ts).
THEOREM RetriesBoundedCorrect == Spec => []RetriesBounded
<1>1. Init => DeferredInv
  <2> SUFFICES ASSUME Init PROVE DeferredInv
    OBVIOUS
  <2>1. /\ row.st = "pending" /\ row.lease = None /\ row.cf = 0 /\ starts = 0 /\ faults = 0
        /\ Live = {} /\ ~Open /\ Unpaid = 0 /\ DueInv
    BY DEF Init, Live, Open, Unpaid, DueInv
  <2>2. 0 <= DeferredMaxRetries /\ 0 <= DeferredMaxRetries + 1 /\ 0 <= DeferredMaxRetries + 1 + 0
    BY CapAboveLimits
  <2> QED BY <2>1, <2>2 DEF DeferredInv, RetryInv
<1>2. TypeOK /\ TypeOK' /\ RunInv /\ DeferredInv /\ [Next]_vars => DeferredInv'
  <2> SUFFICES ASSUME TypeOK, TypeOK', RunInv, DeferredInv, [Next]_vars PROVE DeferredInv'
    OBVIOUS
  <2>1. DueInv /\ DueInv' /\ kind' = kind
    BY DueStep, KindStep DEF DeferredInv
  <2>2. CASE kind # "deferred"
    BY <2>1, <2>2, KindStep DEF DeferredInv
  <2>3. CASE kind = "deferred"
    <3>1. RetryInv
      BY <2>3 DEF DeferredInv
    <3>2. RetryInv /\ UNCHANGED vars => RetryInv'
      BY DEF vars, RetryInv, Live, Unpaid, Open
    <3>3. RetryInv'
      BY <2>1, <2>3, <3>1, <3>2, TickRetries, RunRetries, BootRetries, EnvironmentRetries DEF Next
    <3> QED BY <2>1, <2>3, <3>3 DEF DeferredInv
  <2> QED BY <2>2, <2>3
<1>3. TypeOK /\ DeferredInv => RetriesBounded
  <2>1. TypeOK /\ starts = 0 => RetriesBounded
    BY CapAboveLimits DEF TypeOK, RetriesBounded
  <2> QED BY <2>1 DEF DeferredInv, RetryInv, RetriesBounded
<1> QED BY <1>1, <1>2, <1>3, SchedulerTypeCorrect, RunInvCorrect, PTL DEF Spec

=============================================================================
