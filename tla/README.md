# Verification of bound's distributed core

bound runs one process per host.  Every host keeps a local SQLite database and a
set of websockets: a *spoke* is connected to the *hub* and to nothing else, the
hub is connected to every spoke.  This directory models how work and data move
between hosts and survive faults, and how a host runs agents on them: the queue
that wakes a thread, the loop that runs it, the tasks that start one by the clock
and the inference another host does for it.  All source paths are relative to
`packages/`.

## 1. Inventory

| Component | State | Operations | Hard behaviour |
|---|---|---|---|
| Durable work table (`core/src/durable-work.ts`) | one row per `(kind, idempotency_key)`: claim state, claim token, attempts, last error, deadline, reclassify count | insert, claim, acknowledge, release, transfer, expire, dead-letter, redrive, reset, prune, purge | every UPDATE is guarded by state and token because claims, timers and acknowledgements race |
| Spool transport (`sync/src/ws-transport.ts`, `ws-server.ts`, `ws-client.ts`) | peer connections, a send latch per socket | push on insert, drain on connect, sweep every 30 s, receive, acknowledge | lost and late acknowledgements, refused sends, reconnects, crashes with a transfer outstanding |
| Consumers (`agent/src/relay-processor.ts`, `scheduler.ts`, `webhook-intake-reconciler.ts`) | the claims whose handler is running | claim, acknowledge, release, consume a multipart set, fail | a handler that outlives its claim |
| Operator (`agent/src/workspool-command.ts`) | none | purge, redrive | run against rows that are on the wire or being executed |
| Boot recovery (`cli/src/commands/start/bootstrap.ts`) | none | reset rows left by a crash | which rows have no live owner |
| Changelog replication (`core/src/change-log.ts`, `sync/src/reducers.ts`, `peer-cursor.ts`, `shared/src/hlc.ts`) | change_log, cursors per peer, a clock | local write, flush, push, ack, drain, prune | entries skipped by a refused flush, last-writer-wins ties, pruning ahead of a peer |
| Backfill: consistency stream and row pull (`sync/src/ws-transport.ts`, `core/src/consistency.ts`) | the request pending on the spoke, the streams the hub owes, parked frames | request, page, diff, push, pull, acknowledge, time out, resume | stale pages, backpressure in the middle, a timeout racing late answers |
| Dispatch (`core/src/dispatch.ts`, `thread-executor.ts`, `cli/src/commands/start/server.ts`, `web/src/server/websocket.ts`) | wakeup rows, client tool calls, one lock per thread, the tool session of a thread | enqueue, claim, acknowledge, yield, re-drain, time out; subscribe, answer, close, expire, cancel | a message that arrives as the loop ends, a run that outlives its timeout, a client that leaves with calls in hand |
| Scheduler (`agent/src/scheduler.ts`, `task-resolution.ts`) | replicated task rows with claim and lease, the firing of the due time | tick (evict, heal, schedule, run, fire), settle delay, end of run, event, cancel | two hosts run the same task, a crash between two writes, a firing that fences its own retry |
| Relay streams (`agent/src/relay-stream$.ts`, `relay-processor.ts`) | reorder buffer, timers, the host being asked; the inference at the other host | request, chunk, heartbeat, end, error, cancel, time out, fail over | loss, reordering, a late answer of a host given up |
| Agent loop (`loop/src/modular-agent-loop.ts`, `agent/src/bound-agent-loop.ts`) | turn state, retry counters, guard chains | infer, retry, fall back, call tools, yield, cancel | a cancel between two awaits, retries of four kinds, guards that must end a runaway |
| Sandbox filesystem (`sandbox/src/cluster-fs.ts`, `fs-persist.ts`) | file snapshot | diff, persist | optimistic concurrency |
| Connectors (`platforms/src/leader-election.ts`) | leadership | claim, heartbeat, take over | stale leader |
| Hybrid logical clock (`shared/src/hlc.ts`) | none; the last stamp is the log's | generate, merge | string order, overflow, clocks out of step |
| Drivers, prompt building, crypto, web, terminal, CLI | | | not modelled (section 6) |

What makes each part correct: no step loses the last copy of durable work, a
claim or transfer is ended only by its own generation, finished work is fenced,
retries end (durable work); stamps grow along causality (clock); a host's log
ends in its rows, acknowledgements are real, no path replaces a row by an older
one, and hosts converge on what the backfill compares (replication); no wakeup is
left without a run to claim it, a claim is settled by its own run, a result that
woke the thread is seen, every tool call resolves (dispatch); no two loops that own
a task work at once, a due task is handled and recurs (scheduler); a stream is
delivered in order, acknowledged after delivery, and ends unless the remote call
hangs (relay); a run stops when asked, ends when it repeats itself, and has the
results of what it ran in the thread before it goes on (agent loop); a write based
on a stale file is refused (sandbox); one leader per platform (connectors).

`PROJECT.json` lists the same components with their status, and the hazards of
the code at the line where each one bites.

## 2. Modules

* `WorkTable` - one host's `durable_work` table.  A table is a function from
  identities of work to rows; every exported function of `durable-work.ts` that
  writes is one operator with the function's own name.  Time guards (stale,
  expired, past retention) are the set argument `S`: callers choose it freely, so
  timers may run in any order.
* `WorkSpool` extends `WorkTable` with the hosts.  `rows[h]` is the table and
  survives a crash; `live[h]` is the set of claims whose handler runs in the
  process and `abandoned[h]` those of them the thread executor no longer waits for;
  `Threads` groups the wakeups of a thread; `conn` and `pressed` are the sockets and
  their latches; `net` the frames a socket accepted and the other side has not
  handled.  One action per handler: `Produce` (insertDurableWork and the
  durable_work:written listener), `Receive` / `ReceiveAck` (handleSpoolTransfer /
  handleSpoolTransferAck), `Connect` (the open handlers: addPeer, the auto-redrive
  of exhausted dead letters, the drain), `Disconnect`, `ClearPressure`, `SelfHeal`,
  `Advertise`, `Sweep`, the consumers `Claim`, `Acknowledge`, `Release`,
  `ConsumeParts`, `Fail`, `ConsumePendingDispatch`, `RejectPending`, `ResetDispatch`
  (the thread executor puts its thread's claimed rows back at a yield, a failure or
  its timeout, after which the abandoned handler runs on), and `Restart`, `Redrive`,
  `Prune`, `Purge`.  The last five variables are history, read by the properties
  only.
* `MCWorkSpool` gives the constants their values for TLC.
* `WorkSpoolProofs`, `ReplicationProofs`, `DispatchProofs`, `SchedulerProofs`,
  `RelayStreamProofs`, `AgentLoopProofs` and `HlcProofs` hold the theorems about the
  module they are named after (section 4); `Orders` the lemmas they share: the order
  of stamps, and least and greatest numbers of a set.
* `Hlc` - generateHlc and mergeHlc on stamps, pairs of a timestamp and a counter.
* `HlcClock` extends `Hlc` with hosts that stamp local writes and replayed
  entries and with the order of the *strings* (`TextBefore`): the counter is padded
  to a fixed number of digits, and one that has outgrown it (`Wide`) compares by its
  leading digits.
* `ChangeLog` extends `Hlc`: one host's outbox (createChangeLogEntry, pruning),
  the reducers (`Wins`, `applyEvent`, `applySnapshotRow`) and the backfill's diff
  (`MustPush`, `MustPull`).
* `Replication` extends `ChangeLog` with the hosts: rows `db[h]`, log `log[h]`,
  the sync_state cursors, the sockets (`conn`, `pressed`, `chan`), the spoke's
  backfill and the streams the hub owes it.  `Write`, `ReceivePush` (replay,
  cursor, acknowledgement and the flush of the new entry in one turn),
  `ReceiveAck`, `Open` (addPeer, drainChangelog, the initial backfill's request),
  `Disconnect`, `Restart`, `ClearPressure`, the backfill `StartBackfill`,
  `ReceiveConsistencyRequest`, `StreamPage`, `ReceivePage`, `DiffRow`, `EndDiff`,
  `ReceiveRowPullRequest`, `StreamRow`, `ReceiveRow`, `ReceiveRowPullAck`,
  `Timeout`, and `Prune`.  `Compared` are the rows of the twelve tables a backfill
  compares, pushes and pulls; the other synced tables (agents, connector_handles,
  webhooks, rss_feeds, client_sessions) travel by the change log alone.

* `Dispatch` - one thread.  `wake` are its dispatch_message rows, `call` its
  client_tool_call rows, `lock` and `run` the executor's lock and the runs alive,
  abandoned ones included; `session`, `conn` and `hand` the clients, of which those
  in `Serves` have the tool; `unseen` and `muted` are history: results no run has
  seen, and those whose wakeup the queue took for a duplicate (`Duplicates`).  A
  step is what one handler does up to its first await, so the claim is part of the
  action that triggers it (`Arrive`, `Retrigger`, `ToolResult`, `CloseConnection`,
  `ExpireScan`, `Restart`), and so is the next batch in `Yield` and `EndRun`.
  `MCDispatch` gives it constants.
* `Scheduler` - one task of any of the five types on this host.  `row` is the task's
  row, `fire` the durable firing of its due time, `run[l]` the run with lease l, `beat`
  the task's entry of runningTasks, which is keyed by the task; `lost` (history) are the
  runs whose row was taken while their loop ran.  `Tick` is the
  whole of tick(): `phase0Eviction` (with the healer), `phase1Schedule`,
  `phase3Run` and `processPendingTaskFire`, one after the other.  Then the run
  (`Abort`, `SkipEmpty`, `Begin`, `Invalid`, `Finish`), events (`EventArrives`,
  `Reconcile`), `Cancel`, retention, crashes between transactions (`CrashFiring`,
  `CrashFinishing`) and what a peer's changesets do to the row (`Peer...`).
* `OrderedStream` - what a relayed inference promises: the parts of one answer after
  the other, each answer's in ascending order, no part twice, nothing after the end.
* `RelayStream` - createRelayStream$ at the requester (`Open`, `Tick`, `ReadError`,
  `Timeout`, `Abort`; `fold` is the state of its reducer) and executeInference at the
  hosts (`Start`, `Refuse`, `Flush`, `Finish`, `Fail`, `TakeCancel`, `Drop`), with
  rows that arrive in any order (`Arrive`) or never (`Lose`) and hosts that die: `Die`
  ends the calls that run and forgets the cancels held in memory, while a request not
  taken up yet is a row and survives.  An end row carries chunks or none ("bare").
  `Abstract` maps it to `OrderedStream`: the host being asked, the parts delivered,
  and whether the stream is over.
* `AgentLoop` - one run of the loop.  `pc` is where it is; a step goes from one
  await to the next, so `Cancel` and `Queue` fall in between.  `Turn`, the model call
  (`Silence`, `Retry`, `FallBack`, `Fail`), what it answers (`Cut`, `Think`, `Answer`,
  `AskTools` with the guards before tools) and the round of tools: `Execute`, `Persist`
  or `Throw` (a write that throws goes to handleTurnError), `AfterPersistence` (the
  yield, client calls, the memory threshold, relaying) and `RelayReturns`, with the
  guards after tools.  `owed` are the calls that ran or were asked for and have no
  result in the thread.

Abstractions.  An identity stands for the row id and its `(kind,
idempotency_key)` pair, which producers mint together and transfers carry
unchanged; the payload is opaque.  A claim token is a number fresh per piece of
work (the code draws UUIDs).  A batch of the drain holds 100 rows, more than any
instance has, so a drain sends one frame per peer.  `net` is a set: a frame sent
twice before it is handled is delivered once or, after `Lose` and a re-send,
again; frames overtake each other, which is weaker than a websocket's order and
covers the frames of two successive connections.  `Lose` is the loss of what a
dying socket had buffered.

In `Replication` a stamp has no site, which only orders equal stamps of two
hosts; a row is its `modified_at` and a value, and its hash is that value; each
row stands for a table of its own, so pages, pull batches and the diff advance a
row at a time; a push frame carries one entry (a batch that fits is one frame in
the code, one that does not is halved, and `last_sent` moves after the last
frame either way, which `Sent` keeps).  Channels are in order and both ends of a
connection die together with what they hold.  Clocks do not run backwards and
are not in step with each other.  Pages a disconnected peer left half served are
forgotten by removePeer.  `seen` and `written` are history.

In `Dispatch` a row is its state and the run that claimed it; a claim token is
the run's slot, reused only when the run has ended and then bearing no row; the
model's choice of call ids is the constant `Id`.  In `Scheduler` times are
"future", "due" or none, and one flag of `Tick` stands for the ages of claims and
heartbeats, which no other step reads; a firing belongs to the due time and is
absent again when the row gets a new one; leases are reused when neither a run nor
the row has them.  In `RelayStream` a row of a host that is no longer asked is
read by nobody, because each host has a stream id of its own, so only the rows of
the present stream are kept.  Heartbeats past `MaxSeq` are not sent one by one: a
call that runs with its host up counts as one that goes on sending them.  In
`AgentLoop` calls and errors are signatures, and a round says only which of its
calls run here and which in a client; `limited` is the router's set of marked
backends.

## 3. Runs

| Run | Instance | Shows |
|---|---|---|
| `spool_uplink` | spoke a to hub, one row, every fault, timer, command and consumer outcome, 2 generations | `TypeOK`, `Custody`, `GenerationFence`, `FencePersists` |
| `spool_consumers` | two rows on one host, one for the host and one a thread's wakeup for the in-process sentinel, 2 generations each | `NoConcurrentExecution`, `GenerationFence` |
| `spool_settle` | a to hub under fairness, a row that is never acknowledged, 7 generations | `WireBudget`, `TransfersEnd` |
| `replication_safety` | hub and spoke, two rows, 2 writes of equal `modified_at`, one fault | `TypeOK`, `LogEndsInTable`, `ConfirmedWasHandled`, `OnlyNewerReplaces` |
| `replication_live` | hub and spoke, one row, 2 writes on clocks out of step, no ties, one fault, under fairness | `Converges` |
| `replication_forward` | hub and two spokes, two rows of which the backfill compares one, one write, pruning, no fault, under fairness | `Converges` |
| `hlc_overflow` | one host, a padding of one hex digit, 17 entries on one timestamp | violation of `CausalOrder` |
| `dispatch` | one message, three client calls of which the third reuses the first one's id, up to two to a turn, one connection, two faults (timeouts, restarts) | `TypeOK`, `NoStrandedWakeup`, `ClaimsAreHeld`, `WokenResultsAreSeen`, `ConsumedByItsRun` |
| `dispatch_live` | one message, one call, three connections of which the second lacks the tool, one fault, under fairness | `MessagesHandled`, `DeliveredResolve` |
| `scheduler` | a task of each of the five types, three runs alive at once, two faults, under fairness | `TypeOK`, `OneRunAtATime`, `RetriesBounded`, `DueIsHandled`, `Recurs`, `IntakeFolded` |
| `relay_stream` | two hosts, rows numbered 0 to 2, a gap of 2 cycles, one fault, under fairness | `TypeOK`, `AckedWasDelivered`, `AnswersWhole`, `DeliversInOrder` (refinement of `OrderedStream`), `StreamEnds`, `AbandonedStops` |
| `agent_loop` | two backends, two call signatures, two tool names, thresholds of 1 to 3, under fairness | `TypeOK`, `ToolResultsKept`, `StatusTruthful`, `NudgedOnce`, `StopsWhenAsked`, `RunawayEnds` |

The violation of `CausalOrder` is expected: the property is what the comment at
`hlc.ts:5` says of the strings, and the counterexample what the code does when a
counter outgrows its padding.

Bounds.  One row is enough for every property of the transfer protocol because
rows interact only through the shared latch and the multipart claim; the latter
is what the second row of `spool_consumers` is for.  `MaxGen` bounds the tokens
minted per row: two generations are what a late acknowledgement needs to meet a
newer transfer, or a handler to outlive its claim beside the next one; seven let the
budget run out.  `MaxAttempts` and
`ReclassifyBudget` are 3 in the code and 1 (or 0) here; the theorems keep them
arbitrary.  Deadlock is not checked: with the bounds reached and no operator at
work the system may legitimately stop.

In `Replication`, `MaxFaults` counts lost connections, restarts, latched sockets
and timers that fire while an answer is on its way; one fault, at every point of
the exchange, is what each mechanism of recovery is for.  `MaxWall` (readings of
the clocks) and `MaxWrites` let a write lose to a concurrent newer one
(`replication_live`) and to an equally old one (`replication_safety`), whose
second row makes streams of several frames; `MaxCount`
bounds the counters: an entry past it is not written, which blocks the channel
that carries it, so a behaviour the bound cut short could only make `Converges`
fail; `replication_forward` never reaches it.  The third
host of `replication_forward` is what forwarding and a late joiner need.  In
`HlcClock` the padding is one hex digit instead of the code's four, and a counter may
outgrow it by one digit.

In `Dispatch` two calls make the barrier matter (the first result must not
resume the thread), the third is a later turn that reuses an id, two slots a run that
outlives its timeout beside its successor, and two faults a restart after it.  Take-over
between connections is the business of `dispatch_live`, whose second connection lacks
the tool and is the client the barrier waits behind.  In
`Scheduler` faults count spurious staleness, budget deferrals, cancels, crashes and
a peer's interference; two of them let a crash meet a split brain; three leases are
a run, its successor and the row's.
`DeferredMaxRetries` is the code's 2,
`MaxBackoffs` (the failures an event listener retries by itself) is smaller.  In
`RelayStream` three rows give a gap with a row on either side, and a second host
the failover; faults are lost rows, dead hosts and unroutable requests.  The code
waits 6 cycles for a gap and the run 2.  In `AgentLoop` the thresholds keep the
code's order (a nudge before the abort, routing errors before other ones) at the
smallest values that allow it.

Fairness (`FairSpec`).  The sweep runs on an interval timer, the client
reconnects with backoff for ever, a socket with room reports it (the liveness
timer of the client, the drain callback of the server), and a frame that reached
a connected host is dispatched.  Nothing is assumed of consumers, of losses or
of the operator.  In `Replication` handlers, streams and the periodic backfill
run for ever and clients reconnect for ever; faults are finite, as `Converges`
says.  In `Dispatch` a run goes on, timers fire, and a client that stays connected
answers what it holds: a silent one is closed by the liveness sweep or, without a
session, its calls are expired by the scan.  `DeliveredResolve` excepts a thread whose
session does not serve the tool.  In `Scheduler` the poll timer ticks,
sees a stale row as stale, and every run ends (the loop's own timeouts); retention
runs.  In `RelayStream` the poll interval ticks, the first-token deadline fires when
no chunk comes and the timeout between rows when no row comes, and a host takes up the
request or the cancel that reached it; of a model call that runs nothing is assumed,
which is why `StreamEnds` has an exception.  In `AgentLoop` every model call ends - by
an answer, a fault or the silence timeout - and every tool returns; a call at another
host that hangs behind its heartbeats does not meet this, and only a cancel ends it,
not a queued message.  Nothing is assumed of what the model answers, which is why
`RunawayEnds` speaks of a model that repeats itself and `StopsWhenAsked` of any.

### Disagreements between code and documentation

Each of these was met while translating the code, and the models do what the code
does.  The properties that hold claim none of what these texts say: where one of them
meets a disagreement it has an exception, which is named here.  `hlc_overflow` shows one
of them by a counterexample.

Durable work and replication:

* A row refused by the hub's pressured socket is re-driven by neither `drain()` nor
  the sweep and stays pending on a connection that stays up; the sweep's comment
  (`ws-transport.ts:1117`) says otherwise.
* On a spoke (`SelfHeal`) an ordinary frame clears the latch,
  `recoverFromBackpressure` then finds nothing to recover and the parked row stays
  pending until a reconnect; `ws-client.ts:315` counts on "the next organic write".
* Boot recovery resets rows for the sentinel `local` only; a row addressed to the
  host's own site stays `processing`.  `scheduler.ts:1535` and `2125` count on the
  reset.
* A push refused by a full socket is never retried and the acknowledgement of the
  next one moves the confirmed watermark past it.
* Pruning follows `last_received`, what peers sent, and deletes entries nobody
  confirmed.
* On equal `modified_at` the spoke pulls the hub's row and the reducer drops it, at
  every backfill; each host keeps its own.
* The reconnect drain starts at the optimistic `last_sent` and omits what the dead
  connection lost; `ws-transport.ts:631` says "since last confirmed HLC".
* A consumed row with a deadline expires into a dead letter that `workspool
  redrive` runs again; R-DW20 calls re-driving a consumed row a no-op.
  `FencePersists` excepts redriven rows.
* At the executor's timeout the rows of the thread go back to pending while the
  abandoned handler runs on: two handlers of one row, which `NoConcurrentExecution`
  excepts as it does redrives and deletions.
* The consumed fence is pruned after an hour although a sender may redeliver
  later; `durable-work.ts:1072` calls a redelivered transfer idempotent.
* A dead letter redriven after exhaustion keeps its label, so its later expiry is
  undone by the reconnect auto-redrive (`durable-work.ts:800`).
* A clock counter past four hex digits sorts before the shorter ones
  (`hlc.ts:5` says "String comparison preserves causal order"; `hlc_overflow`).
  `NarrowInOrder` states what is left.
* Five synced tables take no part in the backfill, so what a refused flush, a lost
  frame or pruning made their change log skip is never repaired; the documentation
  (`concepts/sync.md`) promises every write to every host.  `Converges` speaks of the
  rows in `Compared`.

The other replication ones do not contradict `Converges`: the backfill compares rows,
not logs, and repairs what the changelog skips in its twelve tables, except ties
(`replication_live` forbids equal `modified_at`).

Dispatch:

* A call claimed by a connection that unsubscribed and came back is not redelivered
  (`websocket.ts:296` skips a call it has claimed), and the expiry scan spares the
  thread because it has a session (`server.ts:1264`).
* After a restart a session without the tool spares the dead connection's call from
  the scan and is not handed it (`websocket.ts:311`), although the scan's comment says
  that a dead connection "expires as before".  `DeliveredResolve` excepts such a session.
* A wakeup is dropped when a consumed row has the same key, so a model that reuses
  a call id within the hour of retention is not resumed; the comment at
  `dispatch.ts:129` says clients do so every turn and the id is free again once
  acknowledged, which only the legacy queue keeps.  `WokenResultsAreSeen` excepts it.
* A result is discarded when any expired entry has the same call id.
* The drain loop, the expiry scan and boot recovery resume a thread without looking
  at the barrier of outstanding calls (`server.ts:1184` does).
* A second client that attaches is handed a call the first is still executing.
* After the executor's timeout the abandoned run is not aborted and works on beside
  its successor; a cancelled run may still dispatch client calls.

Scheduler:

* A cancel writes the status alone (`tools/cancel.ts:106`, `routes/tasks.ts:112`);
  the run that holds the lease re-arms the task when it ends, although
  `scheduler.ts:712` calls cancellation "a deliberate terminal action".
* After a crash with the task running, the reset row has the same due time and a
  consumed or dead firing, which fences it until the dead letter is pruned (seven
  days; the comment at `scheduler.ts:1640` speaks of an hour).
* A budget deferral keeps the firing's five minutes and can expire into the same
  fence; the comment calls it "a cheap retry loop with correct convergence".
* A crash between the completion's transaction and the re-arming one leaves a cron
  row `completed`, which the healer does not select: its comment (`scheduler.ts:745`)
  has both in one step, "so cron never wedges in 'completed'".  The same crash wedges a
  consolidation task, failed or completed: the healer's predicate (755-758) leaves the
  type out although its comment (679) says "across all task types" and its switch has
  an arm for it (781).  `Recurs` excepts both (`Unhealed`).
* A run that was superseded deletes its successor's entry of runningTasks when it ends
  (`scheduler.ts:2742`), and the successor is no longer refreshed by the timer, which
  `agent-system.md:842` says updates "all currently running tasks".  `beat` models it.
* An evicted deferred task out of retries becomes pending without a due time; the
  comment says it is left failed.
* The claim's raw UPDATEs do not move `modified_at`, so a peer's older write can win.

Relay:

* Every eligible host is asked: concatMap goes on after a success (the test "Only
  first host is tried" uses one host).  An abort asks and cancels the remaining ones.
* The acknowledgement of an error row is chained behind throwError and never runs.
* A timeout in the middle of an answer appends the next host's whole answer.
* Gap cycles count inbox events, so a burst of arrivals can skip a chunk that is
  merely late.
* A host that sends heartbeats for ever after its first chunk is never given up; the
  design (`2026-03-25-service-channel.md:417`) has the stream expire "with no new
  chunks".  `StreamEnds` excepts it (`Hung`).
* A retriable error row does not fail over.
* A cancel that overtakes its request is remembered in memory (`pendingCancels`) and its
  row acknowledged: after a crash the request, a durable row, is executed for nobody.
  `AbandonedStops` excepts it as it does a lost cancel.

Agent loop:

* A default backend that answers 429 with no other of its tier is tried again at
  once and for ever: `onRateLimitError` resolves the default although it is marked
  and resets the transport retries ("Return a retry decision when a fallback is
  found").
* `callModel` throws before any chunk is handed over, so the partial text that
  `onModelErrorTerminal` means to "salvage" is always empty.
* Over the memory threshold the run ends with client calls persisted and neither
  dispatched nor answered.
* The result of a client call relayed to another host, or its refusal, joins the batch
  after the batch was persisted; the comment (`bound-agent-loop.ts:1637`) has it
  "persisted into the live frame before the next inference turn".  `ToolResultsKept`
  excepts what is owed by a remote host.
* The decision for a degenerate turn goes before abort and yield; a cancelled run is
  reported as completed; a silence retry opens a new stream after a cancel.
* A failure in `afterRun` is assigned to the result after it was returned.

## 4. Proofs

Every invariant, every action property and the refinement that section 3 shows to hold
is also a theorem, for every value of the constants that the ASSUMEs of the modules allow:
any hosts, work, rows, calls, leases and any budgets and thresholds.  A theorem is
named after its property with `Correct` appended (`TypeCorrect`,
`DispatchTypeCorrect` ... for the type invariants).  None of the properties is
inductive as it stands; each proof first shows an inductive invariant, which TLC
checked on the run's instance, and has one lemma per action or group of actions.

`WorkSpoolProofs` (`SpoolAssumption`, `BudgetAssumption`).

* `Custody`: an acknowledgement deletes a row on the word of a frame.  `CustodyInv`
  adds `WireInv` (a transfer travels along the row's route, an acknowledgement comes
  from the next hop and that host has held what it acknowledges) and `HeldInv`
  (a row present in a table is recorded in `held`).  Every statement except
  insertion, the transfer acknowledgement and deletion keeps the set of present
  rows (`ClaimPresence` ... `TerminalPresence`), so most actions are quiet
  (`QuietCustody`); the others are argued one by one.
* `FencePersists`, `NoConcurrentExecution`, `GenerationFence`, `WireBudget`: the many
  actions are first reduced to what can happen to one row (`RowStep`: kept and
  perhaps rewritten, put on the wire, inserted, handed over, deleted, taken, settled,
  reset, redriven), once and for all (`NextRows`).  On that rest `RouteInv` (only the
  addressee consumes), `LiveInv` (a running claim is the one its row bears, or the
  row expired under it, or the thread executor gave its run up) and `BudgetInv`
  (every generation on the wire is paid for by an attempt, a reclassification or a
  redrive).

`ReplicationProofs` (`ReplicationAssumption`, `ChangeLogAssumption`; the hosts are
finitely many).  `WireInv` is `HostInv` (tables, outboxes and what processes
remember are well-formed; outboxes are finite and carry versions; written values are
numbered) and `SendInv` (what a socket carries is true of what its sender has
handled, latches guard open connections, only stream frames are parked).
`ConfirmedWasHandled` is part of it: an acknowledgement on the wire names a stamp
its sender has handled, so believing it is safe.  Every step does one of four things
to the tables (`TableStep`): nothing, a row and an entry stamped after all others
(`Logged`), a pulled row without an entry (`Pulled`), or pruning (`Pruned`).
`OnlyNewerReplaces` and `LogEndsInTable` follow from it: a new entry becomes the only
newest of its row, a pulled row wins only over something older, and pruning removes
entries below a cursor, so a newest entry stays the newest.

`DispatchProofs` (`DispatchAssumption`).  `QueueInv` (the queue, the lock and the
runs: a claimed row is held by the run that has the lock) and `ClientInv` (calls,
connections and clients) give `TypeOK`, `ClaimsAreHeld`, `ConsumedByItsRun` and
`NoStrandedWakeup`.  `WokenResultsAreSeen` needs `ResultsInv` (the wakeup of a result
nobody has seen is pending, unless it was taken for a duplicate).  Nothing is assumed
of call ids: a reused one is what `muted` records, and `FreshWakeup` shows that every
other result gets a wakeup of its own.

`SchedulerProofs` (`SchedulerAssumption`).  `RunInv`: a loop from which nobody has
taken the row (`Holders`) is the one the row names; this is `OneRunAtATime` made
inductive, and needs both the verification before a loop begins and the lease guard of
a run that ends.  `RetriesBounded` needs
`DeferredInv`, an account in which every start of a deferred task's loop is paid for
by a recorded failure or a fault, and a start that has not ended is the one open
item.

`RelayStreamProofs` (`Bounds`).  `StreamInv` is `AskInv` (nothing was delivered from
a host not asked yet) and, for the stream being read, `SentInv` (rows are the numbers
the executor has used, the end is the last) and `FoldInv` (a claimed row is buffered,
a settled one lies behind the next number, everything behind it was delivered,
skipped or empty, nothing ahead of it was delivered).  `CycleFacts` says what one
cycle of the reducer makes of any buffer; `ChunksExist` that no cycle is stuck.
`AckedWasDelivered` and `AnswersWhole` follow, and `DeliversInOrder`, the refinement:
initial states map to initial states and every step to a step of `OrderedStream` or a
stutter (`HandedInOrder`, `NothingHanded`).

`AgentLoopProofs` (`Thresholds`).  `LoopInv` adds to `TypeOK` the shape of the
records and that a chain which did not end the run is below its threshold;
`ToolResultsKept` needs `OwedInv` (a result is missing from the thread only between the
execution of its round and its persistence, or after a write threw), `NudgedOnce`
`NudgeInv`, which relates the flag of the nudge to the length of the chain between two
rounds and, more weakly, from the execution of a round to its guards (`Unjudged`).

`HlcProofs` (`ClockConstants`, a hypothesis of the theorem).  `NarrowInOrder`, what
is left of `CausalOrder` when counters overflow, is proved and not model-checked.
`AfterLast` is its heart: the last stamp of the query is the greatest *string*, not
the greatest stamp, and a stamp generated from it with a counter that fits still
sorts after every string of the log, the overflowed ones included, because those
sort among the shorter ones by their leading digits.  `StepInserts` reduces both
actions to such a stamp.

Only model-checked, because the prover has neither fairness nor ENABLED: the
liveness properties `TransfersEnd`, `Converges`, `MessagesHandled`,
`DeliveredResolve`, `DueIsHandled`, `Recurs`, `IntakeFolded`, `StreamEnds`,
`AbandonedStops`, `StopsWhenAsked` and `RunawayEnds`.  No module uses RECURSIVE;
what the library states by induction with an operator parameter cannot be used, and
the two places that need induction (`MaxOfNaturals`, `ChunksExist`) argue from the
least counterexample instead.

## 5. Plan

What could be proved next: safety parts of the liveness arguments, for example that
in `Scheduler` a due row always has a step that handles it or a fence that will be
lifted, and that in `Replication` a finished backfill leaves no row of the spoke
behind the page it was compared with.  A stronger abstract specification would be
one for `WorkSpool`: a set of work that is produced, held by at least one host and
consumed, of which `Custody` is the heart.

Components that could follow: `Connections` (duplicate connections of one peer and
the late close), `RelayWait` (a response racing its timer), `ClusterFs` (optimistic
concurrency) and `LeaderElection`.

## 6. Not modelled

Snapshot seeding (no longer started by seedNewPeer) and `--reseed`; column chunks
of oversized rows; the merge of message metadata and rows without `modified_at`;
the legacy relay outbox, superseded by durable work; single-host log retention.
Of dispatch: the legacy dispatch_queue for wakeups (BOUND_DURABLE_DISPATCH=0),
deferred results of background jobs, auxiliary threads, an acknowledgement that
throws (`server.ts:1108`).  Of the scheduler: the legacy and compare modes of
TASK_FIRE_MODE, malformed firings, dependencies between tasks, rotation of
threads, a crash inside the folding of intake, advisories.  Of the relay: multipart
requests, trace data, rows that do not parse, `relay-wait$`.  Of the agent loop:
exceptions from preparing a frame, `maxTurns`, forced
thinking, the file system's persistence after a run.

Prompt building, summary extraction, model drivers, the web and terminal
interfaces and the command line - most of the repository's lines - are sequential
transformations and presentation, where the unit tests beside them reach what a
model would; encryption and signing are assumed to work, so a frame arrives intact
or not at all.  The models cover the part of the code in which processes, timers,
databases and hosts meet, about a fifteenth of its lines.
