------------------------------ MODULE Dispatch ------------------------------
(***************************************************************************)
(* Dispatch of one thread: wakeups in the durable queue                     *)
(* (packages/core/src/dispatch.ts), the executor that drains them under the *)
(* thread's lock (thread-executor.ts), the runs it starts (handleThread in  *)
(* cli/src/commands/start/server.ts) and the tools that run in a client at  *)
(* the other end of a websocket (web/src/server/websocket.ts).              *)
(*                                                                         *)
(* JavaScript handlers run to completion, so a step of the model is what    *)
(* one handler does up to its first await.  Claiming is part of the handler *)
(* that triggers it: handleThread reaches claimPending synchronously.       *)
(***************************************************************************)
EXTENDS Naturals, FiniteSets, FiniteSetsExt

CONSTANTS
    Msgs,       \* user messages and notifications that wake the thread
    MaxConns,   \* bound: websocket connections; an id is never used again
    Serves,     \* connections whose session offers the tool; others bear other tools
    CallIds,    \* ids the model gives its tool calls
    Id,         \* Id[e] : the id of the e-th client tool call of the thread
    MaxCalls,   \* bound: client tool calls
    MaxTurn,    \* bound: client tool calls of one turn
    MaxRuns,    \* bound: runs alive at once (the lock's holder and abandoned ones)
    MaxFaults,  \* bound: timeouts and restarts
    None

Calls == 1..MaxCalls
Conns == 1..MaxConns
Runs  == 1..MaxRuns
Keys  == Msgs \cup CallIds  \* idempotency keys: a message id, or tool-result:<thread>:<call id>

ASSUME DispatchAssumption ==
    /\ {MaxCalls, MaxTurn, MaxConns, MaxFaults} \subseteq Nat /\ MaxRuns \in Nat \ {0}
    /\ Serves \subseteq Conns /\ Id \in [Calls -> CallIds]
    /\ None \notin Conns \cup Runs \cup Calls
    /\ Msgs \cap CallIds = {}

VARIABLES
    wake,     \* wake[k] : the dispatch_message row with key k, and the run that claimed it
    call,     \* call[e] : the client_tool_call row e and the connection it is claimed by
    lock,     \* the run holding the thread's lock
    run,      \* run[r] : the run in slot r
    timer,    \* a handleThread is scheduled by setTimeout
    conn,     \* conn[c] : "new", "open" or "closed"
    session,  \* the tool-bearing connection subscribed to the thread
    hand,     \* hand[c] : calls delivered to c's client and not answered by it
    faults,   \* timeouts and restarts so far
    unseen,   \* history: calls whose result was persisted since the last claim
    muted,    \* history: those of them whose wakeup was taken for a duplicate
    dropped   \* history: a cancel ended calls since the last claim

client == <<conn, session, hand>>
vars == <<wake, call, lock, run, timer, client, faults, unseen, muted, dropped>>

NoRow == [st |-> "absent", tok |-> None]
Idle  == [ph |-> "idle", conn |-> None]

Init ==
    /\ wake = [k \in Keys |-> NoRow]
    /\ call = [e \in Calls |-> [st |-> "absent", by |-> None]]
    /\ lock = None /\ run = [r \in Runs |-> Idle] /\ timer = FALSE
    /\ conn = [c \in Conns |-> "new"] /\ session = None /\ hand = [c \in Conns |-> {}]
    /\ faults = 0 /\ unseen = {} /\ muted = {} /\ dropped = FALSE

---------------------------------------------------------------------------
(* The queue *)

\* enqueueMessage, enqueueNotification, enqueueToolResult: a row in any state
\* of the same key makes the insert a no-op.
Enqueue(w, ks) ==
    [k \in Keys |-> IF k \in ks /\ w[k].st = "absent"
                    THEN [st |-> "pending", tok |-> None] ELSE w[k]]

Pending(w) == {k \in Keys : w[k].st = "pending"}

Claim(w, r) ==
    [k \in Keys |-> IF w[k].st = "pending" THEN [st |-> "processing", tok |-> r] ELSE w[k]]

\* A yield or a timeout gives back every claim of the thread.
ResetProcessing(w) ==
    [k \in Keys |-> IF w[k].st = "processing" THEN [st |-> "pending", tok |-> None] ELSE w[k]]

\* The acknowledgement of a run's batch is fenced by the claim token.
AcknowledgeBatch(w, r) ==
    [k \in Keys |-> IF w[k] = [st |-> "processing", tok |-> r]
                    THEN [st |-> "consumed", tok |-> None] ELSE w[k]]

AcknowledgeUnfenced(w, r) ==
    [k \in Keys |-> IF w[k].st = "processing"
                    THEN [st |-> "consumed", tok |-> None] ELSE w[k]]

---------------------------------------------------------------------------
(* Client tool calls *)

Outstanding(cs) == {e \in Calls : cs[e].st \in {"pending", "processing"}}

\* The connection handed a new call, and the run's connectionId.
Provider == IF session \in Serves THEN session ELSE None

IdsOf(es) == {Id[e] : e \in es}

\* A row that is claimed or settled swallows the wakeup of a later result of its
\* id: the key has no turn in it, and clients use call_1, call_2 in every turn.
Duplicates(w, es) == {e \in es : w[Id[e]].st \in {"processing", "consumed"}}

\* The calls of the set es get a terminal status and an error as their result.
Expire(es) == [e \in Calls |-> IF e \in es THEN [call[e] EXCEPT !.st = "expired"] ELSE call[e]]

---------------------------------------------------------------------------
(* handleThread: take the lock, claim what is pending, start a run.  The     *)
(* rest of the handler may enqueue more (late), and persist results (new),   *)
(* after the claim.  rs is the run table the new run is added to.            *)

StartRun(w, late, rs, new) ==
    LET free == {r \in Runs : rs[r] = Idle}
        r    == Min(free)
    IN  /\ free # {}
        /\ wake' = Enqueue(Claim(w, r), late)
        /\ run' = [rs EXCEPT ![r] = [ph |-> "model", conn |-> Provider]]
        /\ lock' = r
        /\ unseen' = new /\ muted' = Duplicates(Claim(w, r), new)
        /\ dropped' = FALSE

\* Nothing to claim, or the lock is held: the trigger leaves the queue as it is.
NoRun(w, lk, rs, new) ==
    /\ wake' = w /\ lock' = lk /\ run' = rs
    /\ unseen' = unseen \cup new /\ muted' = muted \cup Duplicates(wake, new)
    /\ UNCHANGED dropped

HandleThread(w, new) ==
    IF lock = None /\ Pending(w) # {}
    THEN StartRun(w, {}, run, {})
    ELSE NoRun(w, lock, run, new)

\* A message:created handler for the role tool_result: the barrier.
Resume(w, cs, new) ==
    IF Outstanding(cs) = {} THEN HandleThread(w, new) ELSE NoRun(w, lock, run, new)

\* emitToolCancel walks the calls es, all expired before the first message
\* is emitted: the first wakeup of the walk starts the run, the others follow.
CancelResults(es, cs) ==
    /\ call' = cs
    /\ LET fresh == Pending(Enqueue(wake, IdsOf(es)))
       IN IF lock = None /\ Outstanding(cs) = {} /\ fresh # {}
          THEN \E e \in es :
                 LET w == Enqueue(wake, {Id[e]})
                 IN  /\ Pending(w) # {}
                     /\ StartRun(w, IdsOf(es \ {e}), run, es \ {e})
          ELSE NoRun(Enqueue(wake, IdsOf(es)), lock, run, es)

---------------------------------------------------------------------------
(* Triggers *)

\* A user message, a notification or a task completion; not held by the barrier.
Arrive(m) ==
    /\ wake[m].st = "absent"
    /\ HandleThread(Enqueue(wake, {m}), {})
    /\ UNCHANGED <<call, timer, client, faults>>

Retrigger ==
    /\ timer
    /\ timer' = FALSE
    /\ HandleThread(wake, {})
    /\ UNCHANGED <<call, client, faults>>

---------------------------------------------------------------------------
(* Runs *)

\* The turn ends in client tool calls: they are enqueued, offered to the
\* subscribed session, and the loop stops.
DispatchCalls(r, n) ==
    LET es == {e \in Calls : call[e].st = "absent"}
        ds == {e \in es : Cardinality({d \in es : d < e}) < n}
    IN  /\ run[r].ph = "model" /\ run[r].conn # None
        /\ Cardinality(es) >= n
        /\ \A d, e \in ds : Id[d] = Id[e] => d = e
        /\ call' = [e \in Calls |->
                      IF e \notin ds THEN call[e]
                      ELSE IF Provider # None
                      THEN [st |-> "processing", by |-> Provider]
                      ELSE [st |-> "pending", by |-> run[r].conn]]
        /\ hand' = IF Provider = None THEN hand ELSE [hand EXCEPT ![Provider] = @ \cup ds]
        /\ run' = [run EXCEPT ![r].ph = "ending"]
        /\ UNCHANGED <<wake, lock, timer, conn, session, faults, unseen, muted, dropped>>

\* A final answer, a cancel or an error ends the loop.
FinishRun(r) ==
    /\ run[r].ph = "model"
    /\ run' = [run EXCEPT ![r].ph = "ending"]
    /\ UNCHANGED <<wake, call, lock, timer, client, faults, unseen, muted, dropped>>

\* The run sees pending wakeups between turns and returns to be batched again.
\* An abandoned run's return value goes nowhere.
Yield(r) ==
    LET rs == [run EXCEPT ![r] = Idle]
    IN  /\ run[r].ph = "model" /\ Pending(wake) # {}
        /\ IF lock = r THEN StartRun(ResetProcessing(wake), {}, rs, {})
                       ELSE NoRun(wake, lock, rs, {})
        /\ UNCHANGED <<call, timer, client, faults>>

EndRunUndrained(r) ==
    /\ run[r].ph = "ending"
    /\ NoRun(AcknowledgeBatch(wake, r), IF lock = r THEN None ELSE lock,
             [run EXCEPT ![r] = Idle], {})
    /\ UNCHANGED <<call, timer, client, faults>>

EndRunUnfenced(r) ==
    LET rs == [run EXCEPT ![r] = Idle]
        w  == AcknowledgeUnfenced(wake, r)
    IN  /\ run[r].ph = "ending"
        /\ IF lock # r THEN NoRun(w, lock, rs, {})
           ELSE IF Pending(w) # {} THEN StartRun(w, {}, rs, {})
           ELSE NoRun(w, None, rs, {})
        /\ UNCHANGED <<call, timer, client, faults>>

\* The batch is acknowledged; the executor drains what arrived meanwhile, or
\* releases the lock.
EndRun(r) ==
    LET rs == [run EXCEPT ![r] = Idle]
        w  == AcknowledgeBatch(wake, r)
    IN  /\ run[r].ph = "ending"
        /\ IF lock # r THEN NoRun(w, lock, rs, {})
           ELSE IF Pending(w) # {} THEN StartRun(w, {}, rs, {})
           ELSE NoRun(w, None, rs, {})
        /\ UNCHANGED <<call, timer, client, faults>>

TimeoutSilent(r) ==
    /\ lock = r /\ faults < MaxFaults
    /\ faults' = faults + 1
    /\ \E s \in Runs : run[s] = Idle
    /\ NoRun(ResetProcessing(wake), None, run, {})
    /\ UNCHANGED <<call, client, timer>>

\* The executor gives the run up: it releases the claims and the lock and asks
\* for a retrigger.  The run itself is not stopped.
Timeout(r) ==
    /\ lock = r /\ faults < MaxFaults
    /\ faults' = faults + 1
    /\ \E s \in Runs : run[s] = Idle
    /\ NoRun(ResetProcessing(wake), None, run, {})
    /\ timer' = TRUE
    /\ UNCHANGED <<call, client>>

---------------------------------------------------------------------------
(* Clients *)

\* session:configure / thread:subscribe of a tool-bearing client: it becomes
\* the thread's session and is handed the calls it can serve.
Subscribe(c) ==
    LET es == IF c \in Serves THEN {e \in Outstanding(call) : call[e].by # c} ELSE {}
    IN  /\ conn[c] \in {"new", "open"} /\ session # c
        /\ \A b \in 1..(c - 1) : conn[b] # "new"
        /\ conn' = [conn EXCEPT ![c] = "open"]
        /\ session' = c
        /\ call' = [e \in Calls |->
                      IF e \in es THEN [st |-> "processing", by |-> c] ELSE call[e]]
        /\ hand' = [hand EXCEPT ![c] = @ \cup es]
        /\ UNCHANGED <<wake, lock, run, timer, faults, unseen, muted, dropped>>

\* thread:unsubscribe: the client stays connected and keeps its calls.
Unsubscribe(c) ==
    /\ conn[c] = "open" /\ session = c
    /\ session' = None
    /\ UNCHANGED <<wake, call, lock, run, timer, conn, hand, faults, unseen, muted, dropped>>

ToolResultTooLate(c, e) ==
    /\ conn[c] = "open" /\ e \in hand[c]
    /\ hand' = [hand EXCEPT ![c] = @ \ {e}]
    /\ UNCHANGED <<wake, call, lock, run, timer, conn, session, faults, unseen, muted, dropped>>

ToolResultNoWakeup(c, e) ==
    /\ conn[c] = "open" /\ e \in hand[c]
    /\ hand' = [hand EXCEPT ![c] = @ \ {e}]
    /\ call' = [call EXCEPT ![e].st = "acknowledged"]
    /\ Resume(wake, call', {e})
    /\ UNCHANGED <<timer, conn, session, faults>>

\* tool:result.  A call id of an expired call is taken for a late result.
ToolResult(c, e) ==
    /\ conn[c] = "open" /\ e \in hand[c]
    /\ hand' = [hand EXCEPT ![c] = @ \ {e}]
    /\ LET same == {x \in Outstanding(call) : Id[x] = Id[e]}
       IN IF same = {} \/ \E x \in Calls : call[x].st = "expired" /\ Id[x] = Id[e]
          THEN UNCHANGED <<call, wake, lock, run, unseen, muted, dropped>>
          ELSE LET x == Min(same)
               IN  /\ call' = [call EXCEPT ![x].st = "acknowledged"]
                   /\ Resume(Enqueue(wake, {Id[e]}), call', {x})
    /\ UNCHANGED <<timer, conn, session, faults>>

CloseKeepsSession(c) ==
    /\ conn[c] = "open"
    /\ conn' = [conn EXCEPT ![c] = "closed"]
    /\ hand' = [hand EXCEPT ![c] = {}]
    /\ LET es == {e \in Outstanding(call) : call[e].by = c}
       IN IF es = {} THEN UNCHANGED <<call, wake, lock, run, unseen, muted, dropped>>
          ELSE CancelResults(es, Expire(es))
    /\ UNCHANGED <<session, timer, faults>>

\* The socket closed, or the liveness sweep closed it.
CloseConnection(c) ==
    /\ conn[c] = "open"
    /\ conn' = [conn EXCEPT ![c] = "closed"]
    /\ session' = IF session = c THEN None ELSE session
    /\ hand' = [hand EXCEPT ![c] = {}]
    /\ LET es == {e \in Outstanding(call) : call[e].by = c}
       IN IF es = {} THEN UNCHANGED <<call, wake, lock, run, unseen, muted, dropped>>
          ELSE CancelResults(es, Expire(es))
    /\ UNCHANGED <<timer, faults>>

\* The TTL scan: calls of a thread without a session, old enough.  It triggers
\* the thread itself, whatever the barrier says.
ExpireScan ==
    /\ session = None
    /\ \E es \in SUBSET Outstanding(call) \ {{}} :
         LET cs == Expire(es)
             w  == Enqueue(wake, IdsOf(es))
         IN IF Outstanding(cs) = {} \/ lock # None \/ Pending(w) = {}
            THEN CancelResults(es, cs)
            ELSE /\ call' = cs
                 /\ StartRun(w, {}, run, {})
    /\ UNCHANGED <<timer, client, faults>>

\* POST /cancel: the calls end without a result, nothing is triggered.
CancelThread ==
    /\ Outstanding(call) # {}
    /\ call' = Expire(Outstanding(call))
    /\ dropped' = TRUE
    /\ UNCHANGED <<wake, lock, run, timer, client, faults, unseen, muted>>

---------------------------------------------------------------------------
(* The process stops and starts: bootstrap resets the claims, the recovery  *)
(* scan triggers the thread.  A pending call alone triggers it too, to no   *)
(* effect.  Sessions of dead connections are reaped.                        *)

RestartKeepsClaims ==
    /\ faults < MaxFaults
    /\ faults' = faults + 1
    /\ timer' = FALSE
    /\ conn' = [c \in Conns |-> IF conn[c] = "open" THEN "closed" ELSE conn[c]]
    /\ session' = None
    /\ hand' = [c \in Conns |-> {}]
    /\ NoRun(wake, None, [r \in Runs |-> Idle], {})
    /\ UNCHANGED <<call>>

Restart ==
    LET w  == ResetProcessing(wake)
        rs == [r \in Runs |-> Idle]
    IN  /\ faults < MaxFaults
        /\ faults' = faults + 1
        /\ timer' = FALSE
        /\ conn' = [c \in Conns |-> IF conn[c] = "open" THEN "closed" ELSE conn[c]]
        /\ session' = None
        /\ hand' = [c \in Conns |-> {}]
        /\ IF Pending(w) # {}
           THEN LET r == Min(Runs)
                IN  /\ wake' = Claim(w, r) /\ lock' = r
                    /\ run' = [rs EXCEPT ![r] = [ph |-> "model", conn |-> None]]
                    /\ unseen' = {} /\ muted' = {} /\ dropped' = FALSE
           ELSE NoRun(w, None, rs, {})
        /\ UNCHANGED <<call>>

\* Consumed rows leave the table an hour after they were settled.  A message's
\* row may as well stay: its id does not come back.
Prune(k) ==
    /\ wake[k].st = "consumed"
    /\ wake' = [wake EXCEPT ![k] = NoRow]
    /\ UNCHANGED <<call, lock, run, timer, client, faults, unseen, muted, dropped>>

---------------------------------------------------------------------------

RunStep(r) ==
    \/ \E n \in 1..MaxTurn : DispatchCalls(r, n)
    \/ FinishRun(r)
    \/ Yield(r)
    \/ EndRun(r)

Next ==
    \/ \E m \in Msgs : Arrive(m)
    \/ Retrigger
    \/ \E r \in Runs : RunStep(r) \/ Timeout(r)
    \/ \E c \in Conns : Subscribe(c) \/ Unsubscribe(c) \/ CloseConnection(c)
                        \/ \E e \in Calls : ToolResult(c, e)
    \/ ExpireScan
    \/ CancelThread
    \/ Restart
    \/ \E k \in CallIds : Prune(k)

\* A run goes on, a scheduled timer fires, the scan's interval timer fires, and
\* a client that stays connected answers the calls it was handed.
Fairness ==
    /\ WF_vars(\E r \in Runs : RunStep(r))
    /\ WF_vars(Retrigger)
    /\ WF_vars(ExpireScan)
    /\ WF_vars(\E c \in Conns, e \in Calls : ToolResult(c, e))

Spec == Init /\ [][Next]_vars

FairSpec == Spec /\ Fairness

---------------------------------------------------------------------------
(* Properties *)

\* Every variable stays in its domain; the session and the clients holding
\* calls are open connections, and the lock is held by a live run.
TypeOK ==
    /\ session # None => conn[session] = "open"
    /\ \A c \in Conns : hand[c] # {} => conn[c] = "open"
    /\ lock # None => run[lock].ph # "idle"
    /\ wake \in [Keys -> [st : {"absent", "pending", "processing", "consumed"},
                          tok : Runs \cup {None}]]
    /\ call \in [Calls -> [st : {"absent", "pending", "processing", "acknowledged", "expired"},
                           by : Conns \cup {None}]]
    /\ lock \in Runs \cup {None}
    /\ run \in [Runs -> [ph : {"idle", "model", "ending"}, conn : Conns \cup {None}]]
    /\ timer \in BOOLEAN
    /\ conn \in [Conns -> {"new", "open", "closed"}]
    /\ session \in Conns \cup {None}
    /\ hand \in [Conns -> SUBSET Calls]
    /\ faults \in 0..MaxFaults
    /\ unseen \subseteq Calls /\ muted \subseteq unseen /\ dropped \in BOOLEAN

\* Nobody waits for a trigger that will not come: while no run holds the
\* thread and none is scheduled, no message is pending, and a tool result is
\* pending only behind the barrier or after a cancel (server.ts:1150,
\* thread-executor.ts:91).
NoStrandedWakeup ==
    lock = None /\ ~timer =>
        \A k \in Pending(wake) : k \notin Msgs /\ (Outstanding(call) # {} \/ dropped)

\* A claimed row belongs to the run that holds the lock, through timeouts,
\* yields, abandoned runs and restarts (dispatch.ts:427).
ClaimsAreHeld ==
    \A k \in Keys : wake[k].st = "processing" =>
        lock # None /\ wake[k].tok = lock

\* A persisted tool result is seen, unless its wakeup was taken for a duplicate
\* of an earlier one: once no call is outstanding, a run that claims after the
\* result is active or scheduled (server.ts:1150, thread-executor.ts:91).  The
\* exception is a call id used again after its wakeup was claimed or settled,
\* which the comment at dispatch.ts:129-136 wants to be woken too.
WokenResultsAreSeen ==
    unseen \ muted # {} /\ Outstanding(call) = {} /\ lock = None /\ ~timer => dropped

\* A row is consumed only when the run that claimed it last ends: an abandoned
\* run that ends late settles nothing of its successor's (dispatch.ts:389).
ConsumedByItsRun ==
    [][\A k \in Keys : wake[k].st # "consumed" /\ wake'[k].st = "consumed" =>
        /\ wake[k].st = "processing"
        /\ run[wake[k].tok].ph = "ending" /\ run'[wake[k].tok].ph # "ending"]_vars

\* Every message that woke the thread is consumed in the end.
MessagesHandled == \A m \in Msgs : wake[m].st = "pending" ~> wake[m].st = "consumed"

\* A call a client was handed does not stay open for ever: a connected client
\* answers it, a closed one's calls are reaped, and after a restart the scan or
\* the next session that serves the tool takes them over.  Only a session that
\* does not serve it keeps the call waiting: it is handed nothing
\* (websocket.ts:311), and its thread is spared by the scan (server.ts:1263).
DeliveredResolve ==
    \A e \in Calls :
        call[e].st = "processing" ~>
            e \notin Outstanding(call) \/ (session # None /\ session \notin Serves)

=============================================================================
