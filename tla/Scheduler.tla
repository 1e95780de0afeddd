----------------------------- MODULE Scheduler -----------------------------
(***************************************************************************)
(* One host's task scheduler (packages/agent/src/scheduler.ts) and the row  *)
(* of one task: the tick that reaps, enqueues and fires, the run of the     *)
(* agent loop under a lease, and the re-arming of the row when the run ends.*)
(* The row is replicated: a changeset of a peer may replace it between any  *)
(* two steps, and the peer is part of the environment.                      *)
(*                                                                         *)
(* tick, onEvent and each stretch of runTask between two awaits are         *)
(* synchronous, hence one step each.  They are made of several              *)
(* transactions, and a crash may fall between two of those.                 *)
(*                                                                         *)
(* A due time is kept as "none", "future" or "due".  A firing row is keyed  *)
(* by the task and its due time, so a new due time starts with no firing;   *)
(* the firing of a past one is only ever consumed as stale, without effect. *)
(***************************************************************************)
EXTENDS Naturals, FiniteSets, FiniteSetsExt

CONSTANTS
    Kinds,               \* task types
    DeferredMaxRetries,  \* DEFERRED_MAX_RETRIES
    MaxBackoffs,         \* MAX_EVENT_TASK_FAILURE_BACKOFFS
    MaxRuns,             \* bound: runs alive at once, and leases told apart
    MaxFaults,           \* bound: crashes, stalls, cancels, peer writes, spent budgets
    None, Me, Peer       \* no host, this host, any other

Leases == 1..MaxRuns

\* consecutive_failures is compared with the two limits only.
CfCap == Max({DeferredMaxRetries, MaxBackoffs}) + 1

ASSUME SchedulerAssumption ==
    /\ {DeferredMaxRetries, MaxBackoffs, MaxRuns, MaxFaults} \subseteq Nat
    /\ Kinds \subseteq {"cron", "heartbeat", "consolidation", "event", "deferred"}
    /\ None # Me /\ None # Peer /\ Me # Peer /\ {None, Peer} \cap Leases = {}

VARIABLES
    kind,    \* the task's type
    row,     \* the tasks row as this host sees it
    fire,    \* claim_state of the task_fire row for the row's due time
    run,     \* run[l] : the run that holds, or held, lease l
    beat,    \* the lease in the task's entry of runningTasks, or None
    intake,  \* event intake rows of the task's thread are pending
    faults,
    starts,  \* history: agent loops started for a deferred task
    lost     \* history: runs whose row was taken while their agent loop ran

vars == <<kind, row, fire, run, beat, intake, faults, starts, lost>>

Row == [st : {"pending", "claimed", "running", "completed", "failed", "cancelled"},
        by : {None, Me, Peer}, lease : Leases \cup {None, Peer},
        next : {"none", "future", "due"}, cf : 0..CfCap, ran : BOOLEAN]

Init ==
    /\ kind \in Kinds
    /\ row = [st |-> "pending", by |-> None, lease |-> None,
              next |-> IF kind = "event" THEN "none" ELSE "future", cf |-> 0, ran |-> FALSE]
    /\ fire = "absent"
    /\ run = [l \in Leases |-> "none"] /\ beat = None
    /\ intake = FALSE /\ faults = 0 /\ starts = 0 /\ lost = {}

---------------------------------------------------------------------------
(* Writes of the row *)

Failed(r) == [r EXCEPT !.st = "failed", !.cf = Min({@ + 1, CfCap})]

Freed(r) == [r EXCEPT !.st = "pending", !.by = None, !.lease = None]

Due(r, next) == [r EXCEPT !.next = next]

rescheduleCronTask(r) == Due(Freed(r), "future")

\* Leaves the claim and the lease where they are.
rescheduleHeartbeat(r) == Due([r EXCEPT !.st = "pending"], "future")

\* Mutant: the comparison is one too generous.
retryOneMore(r) ==
    IF r.cf > DeferredMaxRetries + 1 THEN r ELSE Due(Freed(r), "future")

retryDeferredTask(r) ==
    IF r.cf > DeferredMaxRetries THEN r ELSE Due(Freed(r), "future")

resetEventTask(r, completion, pending) ==
    IF r.st = "cancelled" THEN r
    ELSE Due(Freed(r), IF pending /\ (completion \/ r.cf < MaxBackoffs)
                       THEN "future" ELSE "none")

\* The system's own tasks, on a fixed cadence.
Seeded == kind \in {"heartbeat", "consolidation"}

\* The helpers called one after the other, each for its own types.
Rearmed(r, completion, pending) ==
    CASE Seeded            -> rescheduleHeartbeat(r)
      [] kind = "cron"     -> rescheduleCronTask(r)
      [] kind = "event"    -> resetEventTask(r, completion, pending)
      [] kind = "deferred" -> IF completion THEN r ELSE retryDeferredTask(r)

\* parkTask: nothing re-arms a parked row.
Parked(r) == [Due(Freed(r), "none") EXCEPT !.st = "failed"]

\* Eviction of a running row.  An event listener waits for its next event, a
\* deferred task out of retries stays pending without a due time.
Evicted(r) ==
    LET f == [Failed(r) EXCEPT !.st = "pending", !.by = None, !.lease = None]
    IN  Due(f, IF kind = "event" \/ (kind = "deferred" /\ f.cf > DeferredMaxRetries)
               THEN "none" ELSE "future")

\* Mutant: the healer before completed rows were added to it.
StuckFailedOnly(r) ==
    /\ r.by # None /\ r.st = "failed" /\ kind # "consolidation"
    /\ kind = "deferred" => r.cf < DeferredMaxRetries

\* What healStuckTasks selects: a terminal row that still bears a claim, of
\* any type but consolidation.
Stuck(r) ==
    /\ r.by # None
    /\ \/ kind = "heartbeat" /\ r.st \in {"failed", "cancelled", "completed"}
       \/ kind = "event" /\ r.st \in {"failed", "completed"}
       \/ kind = "cron" /\ r.st = "failed"
       \/ kind = "deferred" /\ r.st = "failed" /\ r.cf < DeferredMaxRetries

\* The deferred arm counts one more failure before it retries.
Healed(r) ==
    IF kind = "deferred" THEN retryDeferredTask([r EXCEPT !.cf = @ + 1])
    ELSE Rearmed(r, FALSE, intake)

---------------------------------------------------------------------------
(* tick.  A tick works on the row, its firing and the lease of the run that  *)
(* it launches.                                                             *)

Hand(r, f, lease) == [row |-> r, fire |-> f, start |-> lease]

Live == {l \in Leases : run[l] # "none"}

\* randomUUID: a lease neither a run nor the row has.
NewLease == Min((Leases \ Live) \ {row.lease})

\* A write of a new due time leaves its firing behind.
Put(h, r) == Hand(r, IF r.next # h.row.next THEN "absent" ELSE h.fire, h.start)

phase0Eviction(h, stale) ==
    IF ~stale THEN h
    ELSE CASE h.row.st = "claimed" -> Put(h, Freed(h.row))
           [] h.row.st = "running" -> Put(h, Evicted(h.row))
           [] Stuck(h.row)         -> Put(h, Healed(h.row))
           [] OTHER                -> h

\* Insert-or-ignore: a firing row in any state is the fence.
phase1Schedule(h, here) ==
    IF h.row.st = "pending" /\ h.row.next = "due" /\ here /\ h.fire = "absent"
    THEN Hand(h.row, "pending", h.start) ELSE h

Released(r) == [r EXCEPT !.st = "pending", !.by = None]

runTask(r, f) == Hand([r EXCEPT !.st = "running", !.lease = NewLease], f, NewLease)

phase3Run(h, over) ==
    IF h.row.st # "claimed" \/ h.row.by # Me THEN h
    ELSE IF over THEN Hand(Released(h.row), h.fire, h.start) ELSE runTask(h.row, h.fire)

Claimed(r) == [r EXCEPT !.st = "claimed", !.by = Me]

\* The consumer lane: release a firing whose task this host already holds,
\* consume one another host holds, defer one for the budget, else fire it.
processPendingTaskFire(h, over) ==
    IF h.fire # "pending" \/ (h.row.st \in {"claimed", "running"} /\ h.row.by = Me) THEN h
    ELSE IF h.row.st # "pending" THEN Hand(h.row, "consumed", h.start)
    ELSE IF over THEN Hand(Released(h.row), h.fire, h.start)
    ELSE runTask(Claimed(h.row), "consumed")

Scheduled(stale, here) == phase1Schedule(phase0Eviction(Hand(row, fire, None), stale), here)

Ticked(stale, over, here) ==
    processPendingTaskFire(phase3Run(Scheduled(stale, here), over), over)

Fault(n) == faults + n <= MaxFaults /\ faults' = faults + n

\* The row looks stale although its holder, this host, is at work and its
\* heartbeat timer runs.  An agent loop that has no entry in runningTasks goes
\* stale by itself, in any stretch of ten minutes without progress.
Stalled(stale) ==
    /\ stale /\ row.by = Me
    /\ \/ row.st = "claimed"
       \/ /\ row.st = "running" /\ row.lease \in Live
          /\ run[row.lease] = "settle" \/ beat = row.lease

verifyLeaseStillHeld(l) == row.st = "running" /\ row.by = Me /\ row.lease = l

\* The row is taken from the run that holds it, in its agent loop by now.
Lose == lost' = lost \cup {l \in Leases : run[l] = "loop" /\ verifyLeaseStillHeld(l)}

Launched(h) == IF h.start = None THEN run ELSE [run EXCEPT ![h.start] = "settle"]

Tick(stale, over, here) ==
    /\ (Leases \ Live) \ {row.lease} # {}
    /\ Fault((IF Stalled(stale) THEN 1 ELSE 0) + (IF over THEN 1 ELSE 0))
    /\ IF stale THEN Lose ELSE UNCHANGED lost
    /\ LET h == Ticked(stale, over, here)
       IN  /\ row' = h.row
           /\ fire' = h.fire
           /\ run' = Launched(h)
           /\ beat' = IF h.start = None THEN beat ELSE h.start
    /\ UNCHANGED <<kind, intake, starts>>

---------------------------------------------------------------------------
(* The run *)

\* After the settle delay: abort unless the row still shows this run's lease.
\* An event run folds the pending intake into its wakeup and retires it.
Write(r) == row' = r /\ fire' = (IF r.next # row.next THEN "absent" ELSE fire)

\* runningTasks is keyed by the task: whichever run ends takes the entry with
\* it, its successor's too.
End(l) ==
    /\ run' = [run EXCEPT ![l] = "none"]
    /\ lost' = lost \ {l}
    /\ beat' = None

Abort(l) ==
    /\ run[l] = "settle" /\ ~verifyLeaseStillHeld(l)
    /\ End(l)
    /\ UNCHANGED <<kind, row, fire, intake, faults, starts>>

EmptyRearm == kind = "event" /\ row.ran /\ ~intake

SkipEmpty(l) ==
    /\ run[l] = "settle" /\ verifyLeaseStillHeld(l) /\ EmptyRearm
    /\ Write(resetEventTask(row, FALSE, FALSE))
    /\ End(l)
    /\ UNCHANGED <<kind, intake, faults, starts>>

\* Mutant: the loop begins without another look at the row.
BeginUnverified(l) ==
    /\ run[l] = "settle" /\ ~EmptyRearm
    /\ run' = [run EXCEPT ![l] = "loop"]
    /\ intake' = (intake /\ kind # "event")
    /\ starts' = IF kind = "deferred" THEN starts + 1 ELSE starts
    /\ UNCHANGED <<kind, row, fire, beat, faults, lost>>

Begin(l) ==
    /\ run[l] = "settle" /\ verifyLeaseStillHeld(l) /\ ~EmptyRearm
    /\ run' = [run EXCEPT ![l] = "loop"]
    /\ intake' = (intake /\ kind # "event")
    /\ starts' = IF kind = "deferred" THEN starts + 1 ELSE starts
    /\ UNCHANGED <<kind, row, fire, beat, faults, lost>>

\* The model hint fails validation, after the wakeup was written.
Invalid(l, permanent) ==
    /\ run[l] = "settle" /\ verifyLeaseStillHeld(l) /\ ~EmptyRearm
    /\ Write(IF permanent /\ ~Seeded THEN Parked(Failed(row))
             ELSE Rearmed(Failed(row), FALSE, FALSE))
    /\ End(l)
    /\ intake' = (intake /\ kind # "event")
    /\ UNCHANGED <<kind, faults, starts>>

\* The row a run leaves behind; the completion is a CAS on status and lease.
\* half is the state between its two transactions.
Completed(l) ==
    IF row.st = "running"
    THEN [row EXCEPT !.st = "completed", !.cf = 0, !.ran = TRUE] ELSE row

Outcome(ok, soft, l) ==
    IF ok THEN Completed(l) ELSE [Failed(row) EXCEPT !.ran = @ \/ soft]

\* Mutant: a superseded run re-arms the row all the same.
FinishUnfenced(l, ok, soft) ==
    /\ run[l] = "loop"
    /\ Write(Rearmed(Outcome(ok, soft, l), ok, intake))
    /\ End(l)
    /\ UNCHANGED <<kind, intake, faults, starts>>

Finish(l, ok, soft) ==
    /\ run[l] = "loop"
    /\ IF row.lease = l THEN Write(Rearmed(Outcome(ok, soft, l), ok, intake))
       ELSE UNCHANGED <<row, fire>>
    /\ End(l)
    /\ UNCHANGED <<kind, intake, faults, starts>>

---------------------------------------------------------------------------
(* Events *)

\* onEvent: a listener that is not pending keeps its state.
onEvent(r) == IF r.st = "pending" THEN Claimed(r) ELSE r

EventArrives ==
    /\ kind = "event" /\ ~intake
    /\ intake' = TRUE
    /\ row' \in {row, onEvent(row)}
    /\ UNCHANGED <<kind, fire, run, beat, faults, starts, lost>>

\* Mutant: the reconciler raises an advisory and leaves the listener alone.
ReconcileAdvises == intake /\ row.st = "pending" /\ UNCHANGED vars

\* The intake reconciler repeats the event for rows nobody has folded.
Reconcile ==
    /\ intake /\ row.st = "pending"
    /\ row' = onEvent(row)
    /\ UNCHANGED <<kind, fire, run, beat, intake, faults, starts, lost>>

\* A cancel writes the status and nothing else; the tool refuses heartbeats
\* and nothing else, the web route refuses rows that are neither pending nor held.
Cancel ==
    /\ row.st # "cancelled"
    /\ kind # "heartbeat" \/ row.st \in {"pending", "claimed", "running"}
    /\ Fault(1) /\ Lose
    /\ row' = [row EXCEPT !.st = "cancelled"]
    /\ UNCHANGED <<kind, fire, run, beat, intake, starts>>

---------------------------------------------------------------------------
(* Time, retention, crashes *)

Elapse ==
    /\ row.next = "future"
    /\ row' = [row EXCEPT !.next = "due"]
    /\ UNCHANGED <<kind, fire, run, beat, intake, faults, starts, lost>>

\* deadLetterExpiredDurableWork: a firing past its five minutes, in any state.
Expire ==
    /\ fire \in {"pending", "processing", "consumed"}
    /\ Fault(IF fire = "pending" THEN 1 ELSE 0)
    /\ fire' = "dead"
    /\ UNCHANGED <<kind, row, run, beat, intake, starts, lost>>

\* Mutant: dead letters are never pruned.
PruneConsumed ==
    /\ fire = "consumed"
    /\ fire' = "absent"
    /\ UNCHANGED <<kind, row, run, beat, intake, faults, starts, lost>>

\* pruneConsumedDurableWork and pruneExpiredDeadLetters.
Prune ==
    /\ fire \in {"consumed", "dead"}
    /\ fire' = "absent"
    /\ UNCHANGED <<kind, row, run, beat, intake, faults, starts, lost>>

\* Mutant: the claim is cleared and the status forgotten.
BootClearsClaim(r) ==
    IF r.st = "running" /\ r.by = Me THEN [r EXCEPT !.by = None, !.lease = None] ELSE r

\* STALE_TASK_RESET_SQL; a firing is not among what boot recovery resets.
BootReset(r) == IF r.st = "running" /\ r.by = Me THEN Freed(r) ELSE r

Boot(r, f) ==
    /\ Fault(1)
    /\ row' = BootReset(r)
    /\ fire' = f
    /\ run' = [l \in Leases |-> "none"]
    /\ lost' = {} /\ beat' = None
    /\ UNCHANGED <<kind, intake, starts>>

Restart == Boot(row, fire)

\* A crash between the transactions of the consumer lane: after the claim of
\* the firing, after the bridge, after runTask.
CrashFiring ==
    LET h == phase3Run(Scheduled(FALSE, TRUE), FALSE)
    IN  /\ (Leases \ Live) \ {row.lease} # {}
        /\ h.fire = "pending" /\ h.row.st = "pending"
        /\ \E r \in {h.row, Claimed(h.row),
                     [Claimed(h.row) EXCEPT !.st = "running"]} : Boot(r, "processing")

\* A crash between the outcome's transaction and the re-arming one.
CrashFinishing(l) ==
    /\ run[l] = "loop" /\ row.lease = l
    /\ \E ok \in BOOLEAN : Boot(Outcome(ok, TRUE, l), fire)

---------------------------------------------------------------------------
(* A peer's changesets for the row *)

\* The peer claims the task it saw pending, this host's claim notwithstanding.
PeerClaims ==
    /\ row.st \in {"pending", "claimed", "running"} /\ row.by # Peer
    /\ row.next = "due" \/ kind = "event"
    /\ Fault(1) /\ Lose
    /\ row' = [row EXCEPT !.st = "claimed", !.by = Peer]
    /\ UNCHANGED <<kind, fire, run, beat, intake, starts>>

PeerRuns ==
    /\ row.st = "claimed" /\ row.by = Peer
    /\ row' = [row EXCEPT !.st = "running", !.lease = Peer]
    /\ UNCHANGED <<kind, fire, run, beat, intake, faults, starts, lost>>

\* Its own run ends, or it evicts a run, its own or one of this host that it
\* has not heard from.
PeerRearms ==
    /\ row.st = "running"
    /\ Fault(IF row.by = Peer THEN 0 ELSE 1) /\ Lose
    /\ \E r \in {Evicted(row)} \cup
               (IF row.by # Peer THEN {}
                ELSE {Rearmed([row EXCEPT !.st = "completed", !.cf = 0, !.ran = TRUE], TRUE, FALSE),
                      Rearmed(Failed(row), FALSE, FALSE)}) : Write(r)
    /\ UNCHANGED <<kind, run, beat, intake, starts>>

\* It resets a claim that looks old to it: the run that followed is unheard of.
PeerFrees ==
    /\ row.st \in {"claimed", "running"} /\ row.by = Me
    /\ Fault(1) /\ Lose
    /\ row' = Freed(row)
    /\ UNCHANGED <<kind, fire, run, beat, intake, starts>>

Next ==
    \/ \E stale, over, here \in BOOLEAN : Tick(stale, over, here)
    \/ \E l \in Leases :
         \/ Abort(l) \/ SkipEmpty(l) \/ Begin(l) \/ CrashFinishing(l)
         \/ \E permanent \in BOOLEAN : Invalid(l, permanent)
         \/ \E ok, soft \in BOOLEAN : Finish(l, ok, soft)
    \/ EventArrives \/ Reconcile \/ Cancel
    \/ Elapse \/ Expire \/ Prune \/ Restart \/ CrashFiring
    \/ PeerClaims \/ PeerRuns \/ PeerRearms \/ PeerFrees

Spec == Init /\ [][Next]_vars

\* The poll timer ticks, now and then with a row found stale; the other
\* timers run; the settle delay and the agent loop end.
Fairness ==
    /\ WF_vars(Tick(FALSE, FALSE, TRUE)) /\ WF_vars(Tick(TRUE, FALSE, TRUE))
    /\ WF_vars(Elapse) /\ WF_vars(Prune) /\ WF_vars(fire = "processing" /\ Expire)
    /\ WF_vars(Reconcile)
    /\ \A l \in Leases :
         WF_vars(Abort(l) \/ SkipEmpty(l) \/ Begin(l) \/ \E ok, soft \in BOOLEAN : Finish(l, ok, soft))

FairSpec == Spec /\ Fairness

---------------------------------------------------------------------------
(* Properties *)

\* Types, and what a status says of the claim: a claimed row names its
\* holder, a running one its lease too.
TypeOK ==
    /\ kind \in Kinds /\ row \in Row
    /\ fire \in {"absent", "pending", "processing", "consumed", "dead"}
    /\ run \in [Leases -> {"none", "settle", "loop"}]
    /\ beat \in Leases \cup {None} /\ lost \in SUBSET Leases /\ intake \in BOOLEAN
    /\ faults \in 0..MaxFaults /\ starts \in Nat
    /\ row.st \in {"claimed", "running"} => row.by # None
    /\ row.st = "running" => row.lease # None

\* Two agent loops of the task work side by side on this host only when the
\* row was taken from one of them, by a stall, a cancel or a peer, after that
\* loop had begun: a run that lost the row earlier stops at the verification,
\* and no superseded run frees the row of its successor when it ends.
OneRunAtATime == Cardinality({l \in Leases : run[l] = "loop"} \ lost) <= 1

\* A deferred task is retried DEFERRED_MAX_RETRIES times: whatever fails,
\* evicts or heals it, its agent loop starts at most once more, plus once for
\* every crash or interference.
RetriesBounded == starts <= DeferredMaxRetries + 1 + faults

\* A due task is eventually taken up, re-armed or cancelled, once the faults
\* have stopped; a fenced one waits for its firing to be pruned.
DueIsHandled ==
    (row.st = "pending" /\ row.next = "due") ~> ~(row.st = "pending" /\ row.next = "due")

\* Terminal rows that bear a claim and that the healer leaves alone, against its
\* comments (scheduler.ts:679, 745): its predicate omits consolidation, and a
\* cron task that is completed.
Unhealed ==
    \/ kind = "consolidation" /\ row.st \in {"failed", "completed"}
    \/ kind = "cron" /\ row.st = "completed"

Over == row.st = "cancelled" \/ (row.st = "failed" /\ row.by = None) \/ Unhealed

\* A recurring task that was claimed, run, failed or completed is pending
\* again in the end, unless it was cancelled or parked, or a crash between its
\* terminal write and its re-arming left it where the healer does not look.
Recurs == (kind # "deferred") => [](row.st # "pending" => <>(row.st = "pending" \/ Over))

\* An event that reached the intake is folded into a run in the end, also when
\* it arrived while the listener was running, claimed or evicted.
IntakeFolded == intake ~> (~intake \/ Over)

=============================================================================
