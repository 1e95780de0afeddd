--------------------------- MODULE DispatchProofs ---------------------------
(***************************************************************************)
(* Theorems about the dispatch of one thread, for every set of messages,    *)
(* calls, connections and runs and any number of timeouts and restarts.     *)
(***************************************************************************)
EXTENDS Dispatch, Orders

---------------------------------------------------------------------------
(* The inductive invariants *)

WakeRow == [st : {"absent", "pending", "processing", "consumed"}, tok : Runs \cup {None}]
Wake    == [Keys -> WakeRow]
CallRow == [st : {"absent", "pending", "processing", "acknowledged", "expired"},
            by : Conns \cup {None}]
RunRow  == [ph : {"idle", "model", "ending"}, conn : Conns \cup {None}]

\* The queue, the lock and the runs; a claimed row is held by the lock's run.
QueueInv ==
    /\ wake \in Wake /\ lock \in Runs \cup {None} /\ run \in [Runs -> RunRow]
    /\ lock # None => run[lock].ph # "idle"
    /\ unseen \subseteq Calls /\ muted \subseteq unseen /\ dropped \in BOOLEAN
    /\ ClaimsAreHeld

\* The calls, the connections and the clients.
ClientInv ==
    /\ call \in [Calls -> CallRow]
    /\ conn \in [Conns -> {"new", "open", "closed"}]
    /\ session \in Conns \cup {None} /\ (session # None => conn[session] = "open")
    /\ hand \in [Conns -> SUBSET Calls] /\ \A c \in Conns : hand[c] # {} => conn[c] = "open"
    /\ timer \in BOOLEAN /\ faults \in 0..MaxFaults

Base == QueueInv /\ ClientInv

\* The wakeup of a result nobody has seen is pending, unless it was taken for a
\* duplicate.
ResultsInv == \A e \in unseen \ muted : wake[Id[e]].st = "pending"

---------------------------------------------------------------------------
(* The queue *)

\* Every statement on the queue leaves a queue behind.
LEMMA QueueTypes ==
    ASSUME NEW w \in Wake, NEW r \in Runs, NEW ks
    PROVE  /\ Enqueue(w, ks) \in Wake /\ Claim(w, r) \in Wake
           /\ ResetProcessing(w) \in Wake /\ AcknowledgeBatch(w, r) \in Wake
BY DEF Wake, WakeRow, Enqueue, Claim, ResetProcessing, AcknowledgeBatch

\* A slot that is free is found.
LEMMA FreeSlot ==
    ASSUME NEW rs, {r \in Runs : rs[r] = Idle} # {}
    PROVE  Min({r \in Runs : rs[r] = Idle}) \in Runs
<1>1. {r \in Runs : rs[r] = Idle} \in SUBSET Nat
  BY DispatchAssumption DEF Runs
<1>2. Min({r \in Runs : rs[r] = Idle}) \in {r \in Runs : rs[r] = Idle}
  BY <1>1, MinOfNaturals
<1> QED BY <1>2

\* A run that starts holds the lock and every claim.
LEMMA StartRunQueue ==
    ASSUME NEW w \in Wake, NEW late, NEW rs \in [Runs -> RunRow], NEW new \in SUBSET Calls,
           session \in Conns \cup {None},
           \A k \in Keys : w[k].st # "processing",
           StartRun(w, late, rs, new)
    PROVE  /\ QueueInv' /\ lock' \in Runs /\ unseen' = new /\ dropped' = FALSE
<1> DEFINE r == Min({s \in Runs : rs[s] = Idle})
<1>1. /\ {s \in Runs : rs[s] = Idle} # {}
      /\ wake' = Enqueue(Claim(w, r), late)
      /\ run' = [rs EXCEPT ![r] = [ph |-> "model", conn |-> Provider]]
      /\ lock' = r /\ unseen' = new /\ muted' \subseteq new /\ dropped' = FALSE
  BY DEF StartRun, Duplicates
<1>2. r \in Runs
  BY <1>1, FreeSlot
<1> HIDE DEF r
<1>3. Provider \in Conns \cup {None}
  BY DEF Provider
<1>4. wake' \in Wake
  BY <1>1, <1>2, QueueTypes
<1>5. run' \in [Runs -> RunRow] /\ run'[r].ph = "model"
  BY <1>1, <1>2, <1>3 DEF RunRow
<1>6. r # None
  BY <1>2, DispatchAssumption
<1>7. ClaimsAreHeld'
  BY <1>1, <1>2, <1>6 DEF ClaimsAreHeld, Enqueue, Claim
<1>8. QueueInv'
  BY <1>1, <1>2, <1>4, <1>5, <1>7 DEF QueueInv
<1> QED BY <1>1, <1>2, <1>8

\* A run that starts consumes and deletes no row; what arrives late is pending.
LEMMA StartRunRows ==
    ASSUME NEW w, NEW late, NEW rs, NEW new, StartRun(w, late, rs, new), NEW k \in Keys
    PROVE  /\ wake'[k].st = "consumed" => w[k].st = "consumed"
           /\ wake'[k].st = "absent" => w[k].st = "absent"
           /\ k \notin late => (w[k].st = "absent" => wake'[k].st = "absent")
           /\ k \in late => (w[k].st = "absent" => wake'[k].st = "pending")
BY DEF StartRun, Enqueue, Claim

\* A run that starts ends no other.
LEMMA StartRunRuns ==
    ASSUME NEW w, NEW late, NEW rs \in [Runs -> RunRow], NEW new,
           StartRun(w, late, rs, new), NEW s \in Runs, rs[s].ph # "ending"
    PROVE  run'[s].ph # "ending"
<1> DEFINE r == Min({t \in Runs : rs[t] = Idle})
<1>1. /\ {t \in Runs : rs[t] = Idle} # {}
      /\ run' = [rs EXCEPT ![r] = [ph |-> "model", conn |-> Provider]]
  BY DEF StartRun
<1>2. r \in Runs
  BY <1>1, FreeSlot
<1> HIDE DEF r
<1>3. CASE s = r
  <2>1. run'[s] = [ph |-> "model", conn |-> Provider]
    BY <1>1, <1>2, <1>3
  <2> QED BY <2>1
<1>4. CASE s # r
  BY <1>1, <1>4
<1> QED BY <1>3, <1>4

\* A trigger that starts nothing leaves the claims with the lock's run.
LEMMA NoRunQueue ==
    ASSUME NEW w \in Wake, NEW lk \in Runs \cup {None}, NEW rs \in [Runs -> RunRow],
           NEW new \in SUBSET Calls, unseen \subseteq Calls, muted \subseteq unseen, dropped \in BOOLEAN,
           lk # None => rs[lk].ph # "idle",
           \A k \in Keys : w[k].st = "processing" => lk # None /\ w[k].tok = lk,
           NoRun(w, lk, rs, new)
    PROVE  QueueInv'
BY DEF NoRun, QueueInv, ClaimsAreHeld, Duplicates

\* handleThread, on a queue that differs from the stored one in new rows alone.
LEMMA HandleThreadQueue ==
    ASSUME Base, NEW w \in Wake, NEW new \in SUBSET Calls,
           \A k \in Keys : w[k].st = "processing" => w[k] = wake[k],
           HandleThread(w, new)
    PROVE  QueueInv'
<1>1. /\ run \in [Runs -> RunRow] /\ session \in Conns \cup {None}
      /\ lock \in Runs \cup {None} /\ (lock # None => run[lock].ph # "idle")
      /\ unseen \subseteq Calls /\ muted \subseteq unseen /\ dropped \in BOOLEAN
  BY DEF Base, QueueInv, ClientInv
<1>2. \A k \in Keys : w[k].st = "processing" => lock # None /\ w[k].tok = lock
  BY DEF Base, QueueInv, ClaimsAreHeld
<1>3. CASE lock = None /\ Pending(w) # {}
  <2>1. StartRun(w, {}, run, {}) /\ {} \in SUBSET Calls
    BY <1>3 DEF HandleThread
  <2>2. \A k \in Keys : w[k].st # "processing"
    BY <1>2, <1>3
  <2> QED BY <1>1, <2>1, <2>2, StartRunQueue
<1>4. CASE ~(lock = None /\ Pending(w) # {})
  <2>1. NoRun(w, lock, run, new)
    BY <1>4 DEF HandleThread
  <2> QED BY <1>1, <1>2, <2>1, NoRunQueue
<1> QED BY <1>3, <1>4

\* An enqueued row is pending, nothing else changes.
LEMMA EnqueueRows ==
    ASSUME NEW w \in Wake, NEW ks
    PROVE  /\ Enqueue(w, ks) \in Wake
           /\ \A k \in Keys : /\ Enqueue(w, ks)[k].st = "processing" => Enqueue(w, ks)[k] = w[k]
                              /\ Enqueue(w, ks)[k].st = "consumed" => w[k].st = "consumed"
                              /\ Enqueue(w, ks)[k].st = "absent" <=> w[k].st = "absent" /\ k \notin ks
                              /\ w[k].st = "pending" => Enqueue(w, ks)[k].st = "pending"
                              /\ Enqueue(w, ks)[k].st = "pending" =>
                                     w[k].st = "pending" \/ (w[k].st = "absent" /\ k \in ks)
                              /\ k \in ks /\ w[k].st = "absent" => Enqueue(w, ks)[k].st = "pending"
BY DEF Wake, WakeRow, Enqueue

\* emitToolCancel keeps the claims with the lock's run.
LEMMA CancelResultsQueue ==
    ASSUME Base, NEW es \in SUBSET Calls, NEW cs, CancelResults(es, cs)
    PROVE  QueueInv'
<1>1. /\ run \in [Runs -> RunRow] /\ session \in Conns \cup {None} /\ wake \in Wake
      /\ lock \in Runs \cup {None} /\ (lock # None => run[lock].ph # "idle")
      /\ unseen \subseteq Calls /\ muted \subseteq unseen /\ dropped \in BOOLEAN
  BY DEF Base, QueueInv, ClientInv
<1>2. \A ks : \A k \in Keys : Enqueue(wake, ks)[k].st = "processing" =>
                  lock # None /\ Enqueue(wake, ks)[k].tok = lock
  BY <1>1, EnqueueRows DEF Base, QueueInv, ClaimsAreHeld
<1>3. CASE NoRun(Enqueue(wake, IdsOf(es)), lock, run, es)
  BY <1>1, <1>2, <1>3, NoRunQueue, EnqueueRows
<1>4. ASSUME lock = None, NEW e \in es,
             StartRun(Enqueue(wake, {Id[e]}), IdsOf(es \ {e}), run, es \ {e})
      PROVE  QueueInv'
  <2>1. /\ Enqueue(wake, {Id[e]}) \in Wake /\ es \ {e} \in SUBSET Calls
        /\ \A k \in Keys : Enqueue(wake, {Id[e]})[k].st # "processing"
    BY <1>1, <1>2, <1>4, EnqueueRows
  <2> QED BY <1>1, <1>4, <2>1, StartRunQueue
<1> QED BY <1>3, <1>4 DEF CancelResults

---------------------------------------------------------------------------
(* Types and claims *)

\* Messages, timers and tool-less steps of a run.
LEMMA TriggerBase ==
    ASSUME Base, Retrigger \/ \E m \in Msgs : Arrive(m)
    PROVE  Base'
<1>1. wake \in Wake /\ {} \in SUBSET Calls
  BY DEF Base, QueueInv
<1>2. ASSUME NEW m \in Msgs, Arrive(m)
      PROVE  Base'
  <2>1. HandleThread(Enqueue(wake, {m}), {})
    BY <1>2 DEF Arrive
  <2>2. QueueInv'
    BY <1>1, <2>1, EnqueueRows, HandleThreadQueue
  <2> QED BY <1>2, <2>2 DEF Arrive, Base, ClientInv, client
<1>3. CASE Retrigger
  <2>1. HandleThread(wake, {})
    BY <1>3 DEF Retrigger
  <2>2. QueueInv'
    BY <1>1, <2>1, HandleThreadQueue
  <2> QED BY <1>3, <2>2 DEF Retrigger, Base, ClientInv, client
<1> QED BY <1>2, <1>3

\* A turn's client calls go to the subscribed session, which is open.
LEMMA DispatchCallsBase ==
    ASSUME Base, NEW r \in Runs, NEW n, DispatchCalls(r, n)
    PROVE  Base'
<1> DEFINE es == {e \in Calls : call[e].st = "absent"}
           ds == {e \in es : Cardinality({d \in es : d < e}) < n}
<1>1. /\ call' = [e \in Calls |->
                    IF e \notin ds THEN call[e]
                    ELSE IF Provider # None
                    THEN [st |-> "processing", by |-> Provider]
                    ELSE [st |-> "pending", by |-> run[r].conn]]
      /\ hand' = (IF Provider = None THEN hand ELSE [hand EXCEPT ![Provider] = @ \cup ds])
      /\ run' = [run EXCEPT ![r].ph = "ending"]
      /\ UNCHANGED <<wake, lock, timer, conn, session, faults, unseen, muted, dropped>>
  BY DEF DispatchCalls
<1>2. ds \in SUBSET Calls
  OBVIOUS
<1> HIDE DEF ds, es
<1>3. Provider \in Conns \cup {None} /\ (Provider # None => Provider = session)
  BY DEF Provider, Base, ClientInv
<1>4. run \in [Runs -> RunRow] /\ run[r].conn \in Conns \cup {None}
  BY DEF Base, QueueInv, RunRow
<1>5. call' \in [Calls -> CallRow]
  BY <1>1, <1>3, <1>4 DEF Base, ClientInv, CallRow
<1>6. hand' \in [Conns -> SUBSET Calls] /\ \A c \in Conns : hand'[c] # {} => conn[c] = "open"
  BY <1>1, <1>2, <1>3 DEF Base, ClientInv
<1>7. ClientInv'
  BY <1>1, <1>5, <1>6 DEF Base, ClientInv
<1>8. run' \in [Runs -> RunRow] /\ \A s \in Runs : run[s].ph # "idle" => run'[s].ph # "idle"
  BY <1>1, <1>4 DEF RunRow
<1>9. QueueInv'
  BY <1>1, <1>8 DEF Base, QueueInv, ClaimsAreHeld
<1> QED BY <1>7, <1>9 DEF Base

\* The table of runs without run r.
LEMMA WithoutRun ==
    ASSUME Base, NEW r \in Runs
    PROVE  /\ [run EXCEPT ![r] = Idle] \in [Runs -> RunRow]
           /\ lock # None /\ lock # r => [run EXCEPT ![r] = Idle][lock].ph # "idle"
BY DEF Base, QueueInv, RunRow, Idle

\* The end of a run, by an answer, a yield or the executor's timeout.
LEMMA RunBase ==
    ASSUME Base, NEW r \in Runs, FinishRun(r) \/ Yield(r) \/ EndRun(r) \/ Timeout(r)
    PROVE  Base'
<1>1. /\ wake \in Wake /\ run \in [Runs -> RunRow] /\ session \in Conns \cup {None}
      /\ lock \in Runs \cup {None} /\ (lock # None => run[lock].ph # "idle")
      /\ unseen \subseteq Calls /\ muted \subseteq unseen /\ dropped \in BOOLEAN /\ {} \in SUBSET Calls
      /\ \A k \in Keys : wake[k].st = "processing" => lock # None /\ wake[k].tok = lock
  BY DEF Base, QueueInv, ClientInv, ClaimsAreHeld
<1>2. None \notin Runs
  BY DispatchAssumption
<1>3. CASE FinishRun(r)
  <2>1. run' \in [Runs -> RunRow] /\ \A s \in Runs : run[s].ph # "idle" => run'[s].ph # "idle"
    BY <1>1, <1>3 DEF FinishRun, RunRow
  <2>2. QueueInv'
    BY <1>1, <1>3, <2>1 DEF FinishRun, QueueInv, ClaimsAreHeld
  <2> QED BY <1>3, <2>2 DEF FinishRun, Base, ClientInv, client
<1> DEFINE rs == [run EXCEPT ![r] = Idle]
<1>4. rs \in [Runs -> RunRow] /\ (lock # None /\ lock # r => rs[lock].ph # "idle")
  BY WithoutRun
<1> HIDE DEF rs
<1>5. ResetProcessing(wake) \in Wake /\ \A k \in Keys : ResetProcessing(wake)[k].st # "processing"
  BY <1>1, QueueTypes DEF ResetProcessing
<1>6. CASE Yield(r)
  <2>1. IF lock = r THEN StartRun(ResetProcessing(wake), {}, rs, {})
                    ELSE NoRun(wake, lock, rs, {})
    BY <1>6 DEF Yield, rs
  <2>2. CASE lock = r
    <3>1. QueueInv'
      BY <1>1, <1>4, <1>5, <2>1, <2>2, StartRunQueue
    <3> QED BY <1>6, <3>1 DEF Yield, Base, ClientInv, client
  <2>3. CASE lock # r
    <3>1. QueueInv'
      BY <1>1, <1>4, <2>1, <2>3, NoRunQueue
    <3> QED BY <1>6, <3>1 DEF Yield, Base, ClientInv, client
  <2> QED BY <2>2, <2>3
<1>7. CASE EndRun(r)
  <2> DEFINE w == AcknowledgeBatch(wake, r)
  <2>1. IF lock # r THEN NoRun(w, lock, rs, {})
        ELSE IF Pending(w) # {} THEN StartRun(w, {}, rs, {}) ELSE NoRun(w, None, rs, {})
    BY <1>7 DEF EndRun, rs
  <2>2. w \in Wake
    BY <1>1, QueueTypes
  <2>3. \A k \in Keys : w[k].st = "processing" => lock # None /\ lock # r /\ w[k].tok = lock
    BY <1>1 DEF AcknowledgeBatch, Wake, WakeRow
  <2> HIDE DEF w
  <2>4. CASE lock # r
    <3>1. QueueInv'
      BY <1>1, <1>4, <2>1, <2>2, <2>3, <2>4, NoRunQueue
    <3> QED BY <1>7, <3>1 DEF EndRun, Base, ClientInv, client
  <2>5. CASE lock = r /\ Pending(w) # {}
    <3>1. \A k \in Keys : w[k].st # "processing"
      BY <2>3, <2>5
    <3>2. QueueInv'
      BY <1>1, <1>4, <2>1, <2>2, <3>1, <2>5, StartRunQueue
    <3> QED BY <1>7, <3>2 DEF EndRun, Base, ClientInv, client
  <2>6. CASE lock = r /\ Pending(w) = {}
    <3>1. NoRun(w, None, rs, {}) /\ \A k \in Keys : w[k].st # "processing"
      BY <2>1, <2>3, <2>6
    <3>2. QueueInv'
      BY <1>1, <1>4, <2>2, <3>1, NoRunQueue
    <3> QED BY <1>7, <3>2 DEF EndRun, Base, ClientInv, client
  <2> QED BY <2>4, <2>5, <2>6
<1>8. CASE Timeout(r)
  <2>1. NoRun(ResetProcessing(wake), None, run, {}) /\ faults < MaxFaults /\ faults' = faults + 1
        /\ timer' = TRUE /\ UNCHANGED <<call, client>>
    BY <1>8 DEF Timeout
  <2>2. QueueInv'
    BY <1>1, <1>5, <2>1, NoRunQueue
  <2>3. faults' \in 0..MaxFaults
    BY <2>1, DispatchAssumption DEF Base, ClientInv
  <2> QED BY <2>1, <2>2, <2>3 DEF Base, ClientInv, client
<1> QED BY <1>3, <1>6, <1>7, <1>8

\* Calls that expire are calls.
LEMMA ExpireType ==
    ASSUME call \in [Calls -> CallRow], NEW es
    PROVE  Expire(es) \in [Calls -> CallRow]
BY DEF Expire, CallRow

\* What a client does, or is done to it, when it comes, answers and goes.
LEMMA ClientBase ==
    ASSUME Base, NEW c \in Conns,
           \/ Subscribe(c) \/ Unsubscribe(c) \/ CloseConnection(c)
           \/ \E e \in Calls : ToolResult(c, e)
    PROVE  Base'
<1>1. /\ call \in [Calls -> CallRow] /\ conn \in [Conns -> {"new", "open", "closed"}]
      /\ hand \in [Conns -> SUBSET Calls] /\ wake \in Wake
      /\ \A d \in Conns : hand[d] # {} => conn[d] = "open"
      /\ session \in Conns \cup {None} /\ (session # None => conn[session] = "open")
  BY DEF Base, QueueInv, ClientInv
<1>2. CASE Subscribe(c)
  <2> DEFINE es == IF c \in Serves THEN {e \in Outstanding(call) : call[e].by # c} ELSE {}
  <2>1. /\ conn' = [conn EXCEPT ![c] = "open"] /\ session' = c
        /\ call' = [e \in Calls |-> IF e \in es THEN [st |-> "processing", by |-> c] ELSE call[e]]
        /\ hand' = [hand EXCEPT ![c] = @ \cup es]
        /\ UNCHANGED <<wake, lock, run, timer, faults, unseen, muted, dropped>>
    BY <1>2 DEF Subscribe
  <2>2. es \in SUBSET Calls
    BY DEF Outstanding
  <2> HIDE DEF es
  <2>3. call' \in [Calls -> CallRow]
    BY <1>1, <2>1 DEF CallRow
  <2>4. /\ conn' \in [Conns -> {"new", "open", "closed"}] /\ conn'[c] = "open"
        /\ hand' \in [Conns -> SUBSET Calls]
        /\ \A d \in Conns : hand'[d] # {} => conn'[d] = "open"
    BY <1>1, <2>1, <2>2
  <2>5. ClientInv'
    BY <2>1, <2>3, <2>4 DEF Base, ClientInv
  <2>6. QueueInv'
    BY <2>1 DEF Base, QueueInv, ClaimsAreHeld
  <2> QED BY <2>5, <2>6 DEF Base
<1>3. CASE Unsubscribe(c)
  <2>1. session' = None /\ UNCHANGED <<wake, call, lock, run, timer, conn, hand, faults, unseen, muted, dropped>>
    BY <1>3 DEF Unsubscribe
  <2> QED BY <2>1 DEF Base, ClientInv, QueueInv, ClaimsAreHeld
<1>4. CASE CloseConnection(c)
  <2> DEFINE es == {e \in Outstanding(call) : call[e].by = c}
  <2>1. /\ conn' = [conn EXCEPT ![c] = "closed"]
        /\ session' = (IF session = c THEN None ELSE session)
        /\ hand' = [hand EXCEPT ![c] = {}]
        /\ IF es = {} THEN UNCHANGED <<call, wake, lock, run, unseen, muted, dropped>>
           ELSE CancelResults(es, Expire(es))
        /\ UNCHANGED <<timer, faults>>
    BY <1>4 DEF CloseConnection
  <2>2. es \in SUBSET Calls
    BY DEF Outstanding
  <2> HIDE DEF es
  <2>3. /\ conn' \in [Conns -> {"new", "open", "closed"}] /\ session' \in Conns \cup {None}
        /\ (session' # None => conn'[session'] = "open")
        /\ hand' \in [Conns -> SUBSET Calls]
        /\ \A d \in Conns : hand'[d] # {} => conn'[d] = "open"
    BY <1>1, <2>1
  <2>4. CASE es = {}
    BY <2>1, <2>3, <2>4 DEF Base, ClientInv, QueueInv, ClaimsAreHeld
  <2>5. CASE es # {}
    <3>1. QueueInv'
      BY <2>1, <2>2, <2>5, CancelResultsQueue
    <3>2. call' \in [Calls -> CallRow]
      BY <1>1, <2>1, <2>5, ExpireType DEF CancelResults
    <3> QED BY <2>1, <2>3, <3>1, <3>2 DEF Base, ClientInv
  <2> QED BY <2>4, <2>5
<1>5. ASSUME NEW e \in Calls, ToolResult(c, e)
      PROVE  Base'
  <2>1. /\ hand' = [hand EXCEPT ![c] = @ \ {e}] /\ UNCHANGED <<timer, conn, session, faults>>
        /\ \/ UNCHANGED <<call, wake, lock, run, unseen, muted, dropped>>
           \/ \E x : /\ call' = [call EXCEPT ![x].st = "acknowledged"]
                     /\ x = Min({y \in Outstanding(call) : Id[y] = Id[e]})
                     /\ {y \in Outstanding(call) : Id[y] = Id[e]} # {}
                     /\ Resume(Enqueue(wake, {Id[e]}), call', {x})
    BY <1>5 DEF ToolResult
  <2>2. /\ hand' \in [Conns -> SUBSET Calls]
        /\ \A d \in Conns : hand'[d] # {} => conn'[d] = "open"
    BY <1>1, <2>1
  <2>3. CASE UNCHANGED <<call, wake, lock, run, unseen, muted, dropped>>
    BY <2>1, <2>2, <2>3 DEF Base, ClientInv, QueueInv, ClaimsAreHeld
  <2>4. ASSUME NEW x, call' = [call EXCEPT ![x].st = "acknowledged"],
               x = Min({y \in Outstanding(call) : Id[y] = Id[e]}),
               {y \in Outstanding(call) : Id[y] = Id[e]} # {},
               Resume(Enqueue(wake, {Id[e]}), call', {x})
        PROVE  Base'
    <3>1. {y \in Outstanding(call) : Id[y] = Id[e]} \in SUBSET Nat
      BY DispatchAssumption DEF Outstanding, Calls
    <3>2. x \in Calls
      BY <2>4, <3>1, MinOfNaturals DEF Outstanding
    <3>3. call' \in [Calls -> CallRow]
      <4>1. [call[x] EXCEPT !.st = "acknowledged"] \in CallRow
        BY <1>1, <3>2 DEF CallRow
      <4>2. call' = [call EXCEPT ![x] = [call[x] EXCEPT !.st = "acknowledged"]]
        BY <1>1, <2>4, <3>2
      <4> QED BY <1>1, <3>2, <4>1, <4>2
    <3>4. /\ Enqueue(wake, {Id[e]}) \in Wake /\ {x} \in SUBSET Calls
          /\ \A k \in Keys : Enqueue(wake, {Id[e]})[k].st = "processing" =>
                                 Enqueue(wake, {Id[e]})[k] = wake[k]
      BY <1>1, <3>2, EnqueueRows
    <3>5. QueueInv'
      <4>1. CASE Outstanding(call') = {}
        BY <2>4, <3>4, <4>1, HandleThreadQueue DEF Resume
      <4>2. CASE Outstanding(call') # {}
        <5>1. NoRun(Enqueue(wake, {Id[e]}), lock, run, {x})
          BY <2>4, <4>2 DEF Resume
        <5>2. /\ run \in [Runs -> RunRow] /\ lock \in Runs \cup {None}
              /\ (lock # None => run[lock].ph # "idle")
              /\ unseen \subseteq Calls /\ muted \subseteq unseen /\ dropped \in BOOLEAN
          BY DEF Base, QueueInv
        <5>3. \A k \in Keys : Enqueue(wake, {Id[e]})[k].st = "processing" =>
                  lock # None /\ Enqueue(wake, {Id[e]})[k].tok = lock
          BY <3>4 DEF Base, QueueInv, ClaimsAreHeld
        <5> QED BY <3>4, <5>1, <5>2, <5>3, NoRunQueue
      <4> QED BY <4>1, <4>2
    <3> QED BY <2>1, <2>2, <3>3, <3>5 DEF Base, ClientInv
  <2> QED BY <2>1, <2>3, <2>4
<1> QED BY <1>2, <1>3, <1>4, <1>5

\* Expiry, cancels, retention and restarts.
LEMMA KeeperBase ==
    ASSUME Base, ExpireScan \/ CancelThread \/ Restart \/ \E k \in CallIds : Prune(k)
    PROVE  Base'
<1>1. /\ call \in [Calls -> CallRow] /\ wake \in Wake /\ run \in [Runs -> RunRow]
      /\ session \in Conns \cup {None} /\ unseen \subseteq Calls /\ muted \subseteq unseen /\ dropped \in BOOLEAN
      /\ \A k \in Keys : wake[k].st = "processing" => lock # None /\ wake[k].tok = lock
  BY DEF Base, QueueInv, ClientInv, ClaimsAreHeld
<1>2. CASE ExpireScan
  <2>1. PICK es \in SUBSET Outstanding(call) :
          \/ CancelResults(es, Expire(es))
          \/ lock = None /\ call' = Expire(es) /\ StartRun(Enqueue(wake, IdsOf(es)), {}, run, {})
    BY <1>2 DEF ExpireScan
  <2>2. es \in SUBSET Calls /\ {} \in SUBSET Calls
    BY DEF Outstanding
  <2>3. QueueInv'
    <3>1. CASE CancelResults(es, Expire(es))
      BY <2>2, <3>1, CancelResultsQueue
    <3>2. CASE lock = None /\ StartRun(Enqueue(wake, IdsOf(es)), {}, run, {})
      <4>1. /\ Enqueue(wake, IdsOf(es)) \in Wake
            /\ \A k \in Keys : Enqueue(wake, IdsOf(es))[k].st # "processing"
        BY <1>1, <3>2, EnqueueRows
      <4> QED BY <1>1, <2>2, <3>2, <4>1, StartRunQueue
    <3> QED BY <2>1, <3>1, <3>2
  <2>4. call' = Expire(es) /\ UNCHANGED <<timer, client, faults>>
    BY <1>2, <2>1 DEF CancelResults, ExpireScan
  <2>5. call' \in [Calls -> CallRow]
    BY <1>1, <2>4, ExpireType
  <2> QED BY <2>3, <2>4, <2>5 DEF Base, ClientInv, client
<1>3. CASE CancelThread
  <2>1. /\ call' = Expire(Outstanding(call)) /\ dropped' = TRUE
        /\ UNCHANGED <<wake, lock, run, timer, client, faults, unseen, muted>>
    BY <1>3 DEF CancelThread
  <2>2. call' \in [Calls -> CallRow]
    BY <1>1, <2>1, ExpireType
  <2> QED BY <2>1, <2>2 DEF Base, ClientInv, QueueInv, ClaimsAreHeld, client
<1>4. CASE Restart
  <2> DEFINE w  == ResetProcessing(wake)
             rs == [r \in Runs |-> Idle]
             r1 == Min(Runs)
  <2>1. /\ faults < MaxFaults /\ faults' = faults + 1 /\ timer' = FALSE
        /\ conn' = [c \in Conns |-> IF conn[c] = "open" THEN "closed" ELSE conn[c]]
        /\ session' = None /\ hand' = [c \in Conns |-> {}] /\ call' = call
        /\ \/ /\ wake' = Claim(w, r1) /\ lock' = r1
              /\ run' = [rs EXCEPT ![r1] = [ph |-> "model", conn |-> None]]
              /\ unseen' = {} /\ muted' = {} /\ dropped' = FALSE
           \/ NoRun(w, None, rs, {})
    BY <1>4 DEF Restart
  <2>2. ClientInv'
    <3>1. faults' \in 0..MaxFaults
      BY <2>1, DispatchAssumption DEF Base, ClientInv
    <3> QED BY <2>1, <3>1 DEF Base, ClientInv
  <2>3. w \in Wake /\ \A k \in Keys : w[k].st # "processing"
    <3>1. 1 \in Runs
      BY DispatchAssumption DEF Runs
    <3> QED BY <1>1, <3>1, QueueTypes DEF ResetProcessing
  <2>4. rs \in [Runs -> RunRow]
    BY DEF RunRow, Idle
  <2>5. r1 \in Runs /\ r1 # None
    <3>1. Runs \in SUBSET Nat /\ Runs # {}
      <4>1. 1 \in Runs
        BY DispatchAssumption DEF Runs
      <4> QED BY <4>1, DispatchAssumption DEF Runs
    <3> QED BY <3>1, MinOfNaturals, DispatchAssumption
  <2> HIDE DEF w, rs, r1
  <2>6. CASE NoRun(w, None, rs, {})
    <3>1. {} \in SUBSET Calls /\ None \in Runs \cup {None}
      OBVIOUS
    <3>2. unseen \subseteq Calls /\ muted \subseteq unseen /\ dropped \in BOOLEAN
      BY <1>1
    <3>3. QueueInv'
      BY <2>3, <2>4, <2>6, <3>1, <3>2, NoRunQueue
    <3> QED BY <2>2, <3>3 DEF Base
  <2>7. CASE /\ wake' = Claim(w, r1) /\ lock' = r1
             /\ run' = [rs EXCEPT ![r1] = [ph |-> "model", conn |-> None]]
             /\ unseen' = {} /\ muted' = {} /\ dropped' = FALSE
    <3>1. wake' \in Wake
      BY <2>3, <2>5, <2>7, QueueTypes
    <3>2. run' \in [Runs -> RunRow] /\ run'[r1].ph = "model"
      BY <2>4, <2>5, <2>7 DEF RunRow
    <3>3. ClaimsAreHeld'
      BY <2>3, <2>5, <2>7 DEF ClaimsAreHeld, Claim
    <3> QED BY <2>2, <2>5, <2>7, <3>1, <3>2, <3>3 DEF Base, QueueInv
  <2> QED BY <2>1, <2>6, <2>7
<1>5. ASSUME NEW k \in CallIds, Prune(k)
      PROVE  Base'
  <2>1. /\ wake' = [wake EXCEPT ![k] = NoRow] /\ k \in Keys
        /\ UNCHANGED <<call, lock, run, timer, client, faults, unseen, muted, dropped>>
    BY <1>5 DEF Prune, Keys
  <2>2. wake' \in Wake
    BY <1>1, <2>1 DEF Wake, WakeRow, NoRow
  <2>3. ClaimsAreHeld'
    BY <1>1, <2>1 DEF ClaimsAreHeld, Wake, NoRow
  <2> QED BY <2>1, <2>2, <2>3 DEF Base, QueueInv, ClientInv, client
<1> QED BY <1>2, <1>3, <1>4, <1>5

LEMMA BaseCorrect == Spec => []Base
<1>1. Init => Base
  <2> SUFFICES ASSUME Init PROVE Base
    OBVIOUS
  <2>1. wake \in Wake /\ call \in [Calls -> CallRow] /\ run \in [Runs -> RunRow]
    BY DEF Init, Wake, WakeRow, CallRow, RunRow, NoRow, Idle
  <2>2. ClaimsAreHeld
    BY DEF Init, ClaimsAreHeld, NoRow
  <2>3. faults \in 0..MaxFaults
    BY DispatchAssumption DEF Init
  <2> QED BY <2>1, <2>2, <2>3 DEF Init, Base, QueueInv, ClientInv
<1>2. Base /\ [Next]_vars => Base'
  <2>1. Base /\ UNCHANGED vars => Base'
    BY DEF Base, QueueInv, ClientInv, ClaimsAreHeld, vars, client
  <2> QED BY <2>1, TriggerBase, DispatchCallsBase, RunBase, ClientBase, KeeperBase
          DEF Next, RunStep
<1> QED BY <1>1, <1>2, PTL DEF Spec

\* Every variable of the dispatch stays in its domain; the thread's session and
\* the clients that hold calls are open connections, and the lock is held by a
\* run that is alive, through timeouts, closes and restarts.
THEOREM DispatchTypeCorrect == Spec => []TypeOK
<1>1. Base => TypeOK
  BY DEF Base, QueueInv, ClientInv, TypeOK, Wake, WakeRow, CallRow, RunRow
<1> QED BY <1>1, BaseCorrect, PTL

\* A claimed wakeup belongs to the run that holds the thread's lock: a timeout, a
\* yield and boot recovery give back every claim they orphan, and an abandoned
\* run holds none (resetProcessing, claimPending, dispatch.ts).
THEOREM ClaimsAreHeldCorrect == Spec => []ClaimsAreHeld
<1>1. Base => ClaimsAreHeld
  BY DEF Base, QueueInv
<1> QED BY <1>1, BaseCorrect, PTL

---------------------------------------------------------------------------
(* Acknowledgements *)

\* No row is consumed by this step.
NothingConsumed == \A k \in Keys : wake'[k].st = "consumed" => wake[k].st = "consumed"

\* A trigger consumes nothing.
LEMMA TriggersConsumeNothing ==
    ASSUME Base, NEW ks, NEW new \in SUBSET Calls
    PROVE  /\ HandleThread(Enqueue(wake, ks), new) => NothingConsumed
           /\ NoRun(Enqueue(wake, ks), lock, run, new) => NothingConsumed
<1>1. /\ run \in [Runs -> RunRow] /\ session \in Conns \cup {None} /\ wake \in Wake
      /\ {} \in SUBSET Calls
  BY DEF Base, QueueInv, ClientInv
<1>2. /\ Enqueue(wake, ks) \in Wake
      /\ \A k \in Keys : Enqueue(wake, ks)[k].st = "consumed" => wake[k].st = "consumed"
      /\ \A k \in Keys : Enqueue(wake, ks)[k].st = "processing" =>
             lock # None /\ Enqueue(wake, ks)[k].tok = lock
  BY <1>1, EnqueueRows DEF Base, QueueInv, ClaimsAreHeld
<1>3. NoRun(Enqueue(wake, ks), lock, run, new) => NothingConsumed
  BY <1>2 DEF NoRun, NothingConsumed
<1>4. ASSUME lock = None, StartRun(Enqueue(wake, ks), {}, run, {})
      PROVE  NothingConsumed
  <2>1. \A k \in Keys : Enqueue(wake, ks)[k].st # "processing"
    BY <1>2, <1>4
  <2>2. \A k \in Keys : wake'[k].st = "consumed" => Enqueue(wake, ks)[k].st = "consumed"
    BY <1>4, StartRunRows
  <2> QED BY <1>2, <2>2 DEF NothingConsumed
<1>5. HandleThread(Enqueue(wake, ks), new) => NothingConsumed
  <2> SUFFICES ASSUME HandleThread(Enqueue(wake, ks), new) PROVE NothingConsumed
    OBVIOUS
  <2>1. \/ NoRun(Enqueue(wake, ks), lock, run, new)
        \/ lock = None /\ StartRun(Enqueue(wake, ks), {}, run, {})
    BY DEF HandleThread
  <2>2. CASE NoRun(Enqueue(wake, ks), lock, run, new)
    BY <1>3, <2>2
  <2>3. CASE lock = None /\ StartRun(Enqueue(wake, ks), {}, run, {})
    BY <1>4, <2>3
  <2> QED BY <2>1, <2>2, <2>3
<1> QED BY <1>3, <1>5

\* Nor do the results a cancel writes.
LEMMA CancelsConsumeNothing ==
    ASSUME Base, NEW es \in SUBSET Calls, NEW cs, CancelResults(es, cs)
    PROVE  NothingConsumed
<1>1. /\ run \in [Runs -> RunRow] /\ session \in Conns \cup {None} /\ wake \in Wake
  BY DEF Base, QueueInv, ClientInv
<1>2. CASE NoRun(Enqueue(wake, IdsOf(es)), lock, run, es)
  BY <1>2, TriggersConsumeNothing
<1>3. ASSUME lock = None, NEW e \in es,
             StartRun(Enqueue(wake, {Id[e]}), IdsOf(es \ {e}), run, es \ {e})
      PROVE  NothingConsumed
  <2>1. /\ Enqueue(wake, {Id[e]}) \in Wake /\ es \ {e} \in SUBSET Calls
        /\ \A k \in Keys : Enqueue(wake, {Id[e]})[k].st # "processing"
        /\ \A k \in Keys : Enqueue(wake, {Id[e]})[k].st = "consumed" => wake[k].st = "consumed"
    BY <1>1, <1>3, EnqueueRows DEF Base, QueueInv, ClaimsAreHeld
  <2>2. \A k \in Keys : wake'[k].st = "consumed" => Enqueue(wake, {Id[e]})[k].st = "consumed"
    BY <1>3, StartRunRows
  <2> QED BY <2>1, <2>2 DEF NothingConsumed
<1> QED BY <1>2, <1>3 DEF CancelResults

\* Only the end of a run consumes rows.
LEMMA OthersConsumeNothing ==
    ASSUME Base, Next, ~ \E r \in Runs : EndRun(r)
    PROVE  NothingConsumed
<1>1. /\ run \in [Runs -> RunRow] /\ session \in Conns \cup {None} /\ wake \in Wake
      /\ {} \in SUBSET Calls
  BY DEF Base, QueueInv, ClientInv
<1>2. CASE UNCHANGED wake
  BY <1>2 DEF NothingConsumed
<1>3. ASSUME NEW m \in Msgs, Arrive(m)
      PROVE  NothingConsumed
  BY <1>1, <1>3, TriggersConsumeNothing DEF Arrive
<1>4. CASE Retrigger
  <2>1. Enqueue(wake, {}) = wake
    BY <1>1 DEF Enqueue, Wake
  <2>2. HandleThread(Enqueue(wake, {}), {})
    BY <1>4, <2>1 DEF Retrigger
  <2> QED BY <1>1, <2>2, TriggersConsumeNothing
<1>5. ASSUME NEW r \in Runs, Yield(r)
      PROVE  NothingConsumed
  <2>1. /\ ResetProcessing(wake) \in Wake
        /\ \A k \in Keys : /\ ResetProcessing(wake)[k].st # "processing"
                           /\ ResetProcessing(wake)[k].st = "consumed" => wake[k].st = "consumed"
    BY <1>1, QueueTypes DEF ResetProcessing
  <2>2. [run EXCEPT ![r] = Idle] \in [Runs -> RunRow]
    BY WithoutRun
  <2>3. CASE StartRun(ResetProcessing(wake), {}, [run EXCEPT ![r] = Idle], {})
    <3>1. \A k \in Keys : wake'[k].st = "consumed" => ResetProcessing(wake)[k].st = "consumed"
      BY <2>3, StartRunRows
    <3> QED BY <2>1, <3>1 DEF NothingConsumed
  <2>4. CASE wake' = wake
    BY <2>4 DEF NothingConsumed
  <2> QED BY <1>5, <2>3, <2>4 DEF Yield, NoRun
<1>6. ASSUME NEW r \in Runs, Timeout(r)
      PROVE  NothingConsumed
  BY <1>1, <1>6 DEF Timeout, NoRun, ResetProcessing, NothingConsumed
<1>7. ASSUME NEW c \in Conns, CloseConnection(c)
      PROVE  NothingConsumed
  <2> DEFINE es == {e \in Outstanding(call) : call[e].by = c}
  <2>1. wake' = wake \/ CancelResults(es, Expire(es))
    BY <1>7 DEF CloseConnection
  <2>2. es \in SUBSET Calls
    BY DEF Outstanding
  <2> HIDE DEF es
  <2> QED BY <1>2, <2>1, <2>2, CancelsConsumeNothing
<1>8. ASSUME NEW c \in Conns, NEW e \in Calls, ToolResult(c, e)
      PROVE  NothingConsumed
  <2> DEFINE same == {y \in Outstanding(call) : Id[y] = Id[e]}
  <2>1. \/ wake' = wake
        \/ same # {} /\ Resume(Enqueue(wake, {Id[e]}), call', {Min(same)})
    BY <1>8 DEF ToolResult
  <2>2. same \in SUBSET Nat /\ same \subseteq Calls
    BY DispatchAssumption DEF Outstanding, Calls
  <2>3. same # {} => {Min(same)} \in SUBSET Calls
    BY <2>2, MinOfNaturals
  <2> HIDE DEF same
  <2>4. CASE wake' = wake
    BY <1>2, <2>4
  <2>5. CASE same # {} /\ Resume(Enqueue(wake, {Id[e]}), call', {Min(same)})
    BY <2>3, <2>5, TriggersConsumeNothing DEF Resume
  <2> QED BY <2>1, <2>4, <2>5
<1>9. CASE ExpireScan
  <2>1. PICK es \in SUBSET Outstanding(call) :
          \/ CancelResults(es, Expire(es))
          \/ lock = None /\ Pending(Enqueue(wake, IdsOf(es))) # {}
             /\ StartRun(Enqueue(wake, IdsOf(es)), {}, run, {})
    BY <1>9 DEF ExpireScan
  <2>2. es \in SUBSET Calls
    BY DEF Outstanding
  <2>3. CASE lock = None /\ Pending(Enqueue(wake, IdsOf(es))) # {}
             /\ StartRun(Enqueue(wake, IdsOf(es)), {}, run, {})
    <3>1. HandleThread(Enqueue(wake, IdsOf(es)), {})
      BY <2>3 DEF HandleThread
    <3> QED BY <1>1, <3>1, TriggersConsumeNothing
  <2> QED BY <2>1, <2>2, <2>3, CancelsConsumeNothing
<1>10. CASE Restart
  <2>1. \/ wake' = ResetProcessing(wake)
        \/ wake' = Claim(ResetProcessing(wake), Min(Runs))
    BY <1>10 DEF Restart, NoRun
  <2> QED BY <2>1 DEF ResetProcessing, Claim, NothingConsumed
<1>11. ASSUME NEW k \in CallIds, Prune(k)
       PROVE  NothingConsumed
  BY <1>1, <1>11 DEF Prune, NoRow, NothingConsumed, Wake
<1>12. ASSUME NEW r \in Runs, FinishRun(r) \/ \E n \in 1..MaxTurn : DispatchCalls(r, n)
       PROVE  UNCHANGED wake
  BY <1>12 DEF FinishRun, DispatchCalls
<1>13. ASSUME NEW c \in Conns, Subscribe(c) \/ Unsubscribe(c)
       PROVE  UNCHANGED wake
  BY <1>13 DEF Subscribe, Unsubscribe
<1>14. CASE CancelThread
  BY <1>2, <1>14 DEF CancelThread
<1> QED BY <1>2, <1>3, <1>4, <1>5, <1>6, <1>7, <1>8, <1>9, <1>10, <1>11, <1>12, <1>13, <1>14
        DEF Next, RunStep

\* A wakeup is consumed by the end of the run that claimed it and by nothing
\* else: a run that the executor gave up, and that ends late, acknowledges
\* nothing of its successor's batch (the token fence of acknowledgeBatch).
THEOREM ConsumedByItsRunCorrect == Spec => ConsumedByItsRun
<1> DEFINE Fenced == \A k \in Keys : wake[k].st # "consumed" /\ wake'[k].st = "consumed" =>
                         /\ wake[k].st = "processing"
                         /\ run[wake[k].tok].ph = "ending" /\ run'[wake[k].tok].ph # "ending"
<1>1. Base /\ [Next]_vars => [Fenced]_vars
  <2> SUFFICES ASSUME Base, Next PROVE Fenced
    OBVIOUS
  <2>1. CASE ~ \E r \in Runs : EndRun(r)
    BY <2>1, OthersConsumeNothing DEF NothingConsumed
  <2>2. ASSUME NEW r \in Runs, EndRun(r)
        PROVE  Fenced
    <3> DEFINE w  == AcknowledgeBatch(wake, r)
               rs == [run EXCEPT ![r] = Idle]
    <3>1. session \in Conns \cup {None} /\ {} \in SUBSET Calls
      BY DEF Base, ClientInv
    <3>2. /\ run \in [Runs -> RunRow] /\ wake \in Wake
          /\ \A k \in Keys : wake[k].st = "processing" => lock # None /\ wake[k].tok = lock
      BY DEF Base, QueueInv, ClientInv, ClaimsAreHeld
    <3>3. \A k \in Keys : wake[k].st # "consumed" /\ w[k].st = "consumed" =>
              wake[k].st = "processing" /\ wake[k].tok = r
      BY <3>2 DEF AcknowledgeBatch
    <3>4. w \in Wake /\ rs \in [Runs -> RunRow] /\ rs[r].ph = "idle"
      BY <3>2, QueueTypes, WithoutRun DEF Idle
    <3>5. \A k \in Keys : w[k].st = "processing" => lock # r
      BY <3>2 DEF AcknowledgeBatch, Wake, WakeRow
    <3>6. /\ run[r].ph = "ending"
          /\ \/ wake' = w /\ run' = rs
             \/ lock = r /\ StartRun(w, {}, rs, {})
      BY <2>2 DEF EndRun, NoRun
    <3> HIDE DEF w, rs
    <3>7. /\ \A k \in Keys : wake'[k].st = "consumed" => w[k].st = "consumed"
          /\ run'[r].ph # "ending"
      <4>1. CASE wake' = w /\ run' = rs
        BY <3>4, <4>1
      <4>2. CASE lock = r /\ StartRun(w, {}, rs, {})
        <5>1. \A k \in Keys : w[k].st # "processing"
          BY <3>5, <4>2
        <5>2. w \in Wake /\ rs \in [Runs -> RunRow] /\ StartRun(w, {}, rs, {})
          BY <3>4, <4>2
        <5>3. \A k \in Keys : wake'[k].st = "consumed" => w[k].st = "consumed"
          BY <5>2, StartRunRows
        <5>4. rs[r].ph # "ending"
          BY <3>4
        <5>5. run'[r].ph # "ending"
          BY <5>2, <5>4, StartRunRuns
        <5> QED BY <5>3, <5>5
      <4> QED BY <3>6, <4>1, <4>2
    <3> QED BY <3>3, <3>6, <3>7
  <2> QED BY <2>1, <2>2
<1> QED BY <1>1, BaseCorrect, PTL DEF Spec, ConsumedByItsRun

---------------------------------------------------------------------------
(* Wakeups *)

\* The keys of tool results are no messages.
LEMMA ResultKeys ==
    ASSUME NEW es \in SUBSET Calls
    PROVE  IdsOf(es) \subseteq CallIds /\ IdsOf(es) \cap Msgs = {} /\ IdsOf(es) \subseteq Keys
BY DispatchAssumption DEF IdsOf, Keys

\* A run that starts strands nothing.
LEMMA StartedHolds ==
    ASSUME lock' \in Runs
    PROVE  NoStrandedWakeup'
BY DispatchAssumption DEF NoStrandedWakeup

\* handleThread leaves nothing pending without a run.
LEMMA HandleThreadWakes ==
    ASSUME Base, NEW w \in Wake, NEW new,
           \A k \in Keys : w[k].st = "processing" => w[k] = wake[k],
           HandleThread(w, new)
    PROVE  NoStrandedWakeup'
<1>1. /\ run \in [Runs -> RunRow] /\ session \in Conns \cup {None} /\ {} \in SUBSET Calls
      /\ \A k \in Keys : w[k].st = "processing" => lock # None
  BY DEF Base, QueueInv, ClientInv, ClaimsAreHeld
<1>2. CASE lock = None /\ Pending(w) # {}
  <2>1. StartRun(w, {}, run, {}) /\ \A k \in Keys : w[k].st # "processing"
    BY <1>1, <1>2 DEF HandleThread
  <2>2. lock' \in Runs
    BY <1>1, <2>1, StartRunQueue
  <2> QED BY <2>2, StartedHolds
<1>3. CASE ~(lock = None /\ Pending(w) # {})
  <2>1. wake' = w /\ lock' = lock
    BY <1>3 DEF HandleThread, NoRun
  <2> QED BY <1>3, <2>1 DEF NoStrandedWakeup, Pending
<1> QED BY <1>2, <1>3

\* A row a result adds waits for a call that is outstanding, or is claimed.
LEMMA CancelResultsWakes ==
    ASSUME Base, NoStrandedWakeup, NEW es \in SUBSET Calls, NEW cs, timer' = timer,
           CancelResults(es, cs)
    PROVE  NoStrandedWakeup'
<1>1. /\ run \in [Runs -> RunRow] /\ session \in Conns \cup {None} /\ wake \in Wake
      /\ \A k \in Keys : wake[k].st = "processing" => lock # None
  BY DEF Base, QueueInv, ClientInv, ClaimsAreHeld
<1> DEFINE w == Enqueue(wake, IdsOf(es))
<1>2. CASE lock = None /\ Outstanding(cs) = {} /\ Pending(w) # {}
  <2>1. PICK e \in es : StartRun(Enqueue(wake, {Id[e]}), IdsOf(es \ {e}), run, es \ {e})
    BY <1>2 DEF CancelResults
  <2>2. /\ Enqueue(wake, {Id[e]}) \in Wake /\ es \ {e} \in SUBSET Calls
        /\ \A k \in Keys : Enqueue(wake, {Id[e]})[k].st # "processing"
    BY <1>1, <1>2, EnqueueRows
  <2>3. lock' \in Runs
    BY <1>1, <2>1, <2>2, StartRunQueue
  <2> QED BY <2>3, StartedHolds
<1>3. CASE ~(lock = None /\ Outstanding(cs) = {} /\ Pending(w) # {})
  <2>1. wake' = w /\ lock' = lock /\ call' = cs
    BY <1>3 DEF CancelResults, NoRun
  <2>2. \A k \in Keys : w[k].st = "pending" =>
            wake[k].st = "pending" \/ (wake[k].st = "absent" /\ k \in IdsOf(es))
    BY <1>1, EnqueueRows
  <2>3. \A k \in IdsOf(es) : k \notin Msgs
    BY ResultKeys
  <2> HIDE DEF w
  <2>4. SUFFICES ASSUME lock = None, ~timer, NEW k \in Pending(w)
                 PROVE  k \notin Msgs /\ Outstanding(cs) # {}
    BY <2>1 DEF NoStrandedWakeup
  <2>5. Outstanding(cs) # {}
    BY <1>3, <2>4
  <2>6. k \notin Msgs
    BY <2>2, <2>3, <2>4 DEF NoStrandedWakeup, Pending
  <2> QED BY <2>5, <2>6
<1> QED BY <1>2, <1>3

\* A step that adds no wakeup and settles no call strands nothing.
LEMMA QuietStep ==
    ASSUME NoStrandedWakeup, lock' = lock, timer' = timer, dropped' = dropped,
           \A k \in Keys : wake'[k].st = "pending" => wake[k].st = "pending",
           \A e \in Calls : e \in Outstanding(call) => e \in Outstanding(call')
    PROVE  NoStrandedWakeup'
<1> SUFFICES ASSUME lock = None, ~timer, NEW k \in Pending(wake')
             PROVE  k \notin Msgs /\ (Outstanding(call') # {} \/ dropped)
  BY DEF NoStrandedWakeup, Pending
<1>1. k \notin Msgs /\ (Outstanding(call) # {} \/ dropped)
  BY DEF NoStrandedWakeup, Pending
<1>2. Outstanding(call) # {} => Outstanding(call') # {}
  BY DEF Outstanding
<1> QED BY <1>1, <1>2

\* The triggers and the steps of a run.
LEMMA RunWakes ==
    ASSUME Base, NoStrandedWakeup,
           \/ \E m \in Msgs : Arrive(m)
           \/ Retrigger
           \/ \E r \in Runs : RunStep(r) \/ Timeout(r)
    PROVE  NoStrandedWakeup'
<1>1. /\ run \in [Runs -> RunRow] /\ session \in Conns \cup {None} /\ wake \in Wake
      /\ {} \in SUBSET Calls /\ call \in [Calls -> CallRow]
      /\ \A k \in Keys : wake[k].st = "processing" => lock # None /\ wake[k].tok = lock
  BY DEF Base, QueueInv, ClientInv, ClaimsAreHeld
<1>2. ASSUME NEW m \in Msgs, Arrive(m)
      PROVE  NoStrandedWakeup'
  <2>1. HandleThread(Enqueue(wake, {m}), {})
    BY <1>2 DEF Arrive
  <2> QED BY <1>1, <2>1, EnqueueRows, HandleThreadWakes
<1>3. CASE Retrigger
  <2>1. HandleThread(wake, {})
    BY <1>3 DEF Retrigger
  <2> QED BY <1>1, <2>1, HandleThreadWakes
<1>4. ASSUME NEW r \in Runs, NEW n \in 1..MaxTurn, DispatchCalls(r, n)
      PROVE  NoStrandedWakeup'
  <2> DEFINE es == {e \in Calls : call[e].st = "absent"}
             ds == {e \in es : Cardinality({d \in es : d < e}) < n}
  <2>1. /\ UNCHANGED <<wake, lock, timer, dropped>>
        /\ call' = [e \in Calls |->
                      IF e \notin ds THEN call[e]
                      ELSE IF Provider # None
                      THEN [st |-> "processing", by |-> Provider]
                      ELSE [st |-> "pending", by |-> run[r].conn]]
    BY <1>4 DEF DispatchCalls
  <2> HIDE DEF ds
  <2>2. \A e \in Calls : e \in Outstanding(call) => e \in Outstanding(call')
    BY <2>1 DEF Outstanding
  <2> QED BY <2>1, <2>2, QuietStep
<1>5. ASSUME NEW r \in Runs, FinishRun(r)
      PROVE  NoStrandedWakeup'
  BY <1>5, QuietStep DEF FinishRun
<1>6. ASSUME NEW r \in Runs, Yield(r)
      PROVE  NoStrandedWakeup'
  <2>1. CASE lock = r
    <3>1. StartRun(ResetProcessing(wake), {}, [run EXCEPT ![r] = Idle], {})
      BY <1>6, <2>1 DEF Yield
    <3>2. /\ ResetProcessing(wake) \in Wake /\ [run EXCEPT ![r] = Idle] \in [Runs -> RunRow]
          /\ \A k \in Keys : ResetProcessing(wake)[k].st # "processing"
      BY <1>1, QueueTypes, WithoutRun DEF ResetProcessing
    <3>3. lock' \in Runs
      BY <1>1, <3>1, <3>2, StartRunQueue
    <3> QED BY <3>3, StartedHolds
  <2>2. CASE lock # r
    BY <1>6, <2>2, QuietStep DEF Yield, NoRun
  <2> QED BY <2>1, <2>2
<1>7. ASSUME NEW r \in Runs, EndRun(r)
      PROVE  NoStrandedWakeup'
  <2> DEFINE w  == AcknowledgeBatch(wake, r)
             rs == [run EXCEPT ![r] = Idle]
  <2>1. /\ IF lock # r THEN NoRun(w, lock, rs, {})
           ELSE IF Pending(w) # {} THEN StartRun(w, {}, rs, {}) ELSE NoRun(w, None, rs, {})
        /\ UNCHANGED <<call, timer>>
    BY <1>7 DEF EndRun
  <2>2. w \in Wake /\ rs \in [Runs -> RunRow]
    BY <1>1, QueueTypes, WithoutRun
  <2>3. \A k \in Keys : /\ w[k].st = "processing" => lock # r
                        /\ w[k].st = "pending" => wake[k].st = "pending"
    BY <1>1 DEF AcknowledgeBatch, Wake, WakeRow
  <2> HIDE DEF w, rs
  <2>4. CASE lock # r
    BY <2>1, <2>3, <2>4, QuietStep DEF NoRun
  <2>5. CASE lock = r /\ Pending(w) # {}
    <3>1. lock' \in Runs
      BY <1>1, <2>1, <2>2, <2>3, <2>5, StartRunQueue
    <3> QED BY <3>1, StartedHolds
  <2>6. CASE lock = r /\ Pending(w) = {}
    <3>1. wake' = w
      BY <2>1, <2>6 DEF NoRun
    <3> QED BY <2>6, <3>1 DEF NoStrandedWakeup
  <2> QED BY <2>4, <2>5, <2>6
<1>8. ASSUME NEW r \in Runs, Timeout(r)
      PROVE  NoStrandedWakeup'
  BY <1>8 DEF Timeout, NoStrandedWakeup
<1> QED BY <1>2, <1>3, <1>4, <1>5, <1>6, <1>7, <1>8 DEF RunStep

\* Clients, the scan, a cancel, a restart and pruning.
LEMMA ClientWakes ==
    ASSUME Base, NoStrandedWakeup,
           \/ \E c \in Conns : Subscribe(c) \/ Unsubscribe(c) \/ CloseConnection(c)
                               \/ \E e \in Calls : ToolResult(c, e)
           \/ ExpireScan \/ CancelThread \/ Restart
           \/ \E k \in CallIds : Prune(k)
    PROVE  NoStrandedWakeup'
<1>1. /\ run \in [Runs -> RunRow] /\ session \in Conns \cup {None} /\ wake \in Wake
      /\ {} \in SUBSET Calls /\ call \in [Calls -> CallRow]
      /\ \A k \in Keys : wake[k].st = "processing" => lock # None /\ wake[k].tok = lock
  BY DEF Base, QueueInv, ClientInv, ClaimsAreHeld
<1>2. ASSUME NEW c \in Conns, Subscribe(c)
      PROVE  NoStrandedWakeup'
  <2> DEFINE es == IF c \in Serves THEN {e \in Outstanding(call) : call[e].by # c} ELSE {}
  <2>1. /\ UNCHANGED <<wake, lock, timer, dropped>>
        /\ call' = [e \in Calls |-> IF e \in es THEN [st |-> "processing", by |-> c] ELSE call[e]]
    BY <1>2 DEF Subscribe
  <2> HIDE DEF es
  <2>2. \A e \in Calls : e \in Outstanding(call) => e \in Outstanding(call')
    BY <2>1 DEF Outstanding
  <2> QED BY <2>1, <2>2, QuietStep
<1>3. ASSUME NEW c \in Conns, Unsubscribe(c)
      PROVE  NoStrandedWakeup'
  BY <1>3, QuietStep DEF Unsubscribe
<1>4. ASSUME NEW c \in Conns, CloseConnection(c)
      PROVE  NoStrandedWakeup'
  <2> DEFINE es == {e \in Outstanding(call) : call[e].by = c}
  <2>1. /\ timer' = timer
        /\ \/ UNCHANGED <<call, wake, lock, dropped>>
           \/ CancelResults(es, Expire(es))
    BY <1>4 DEF CloseConnection
  <2>2. es \in SUBSET Calls
    BY DEF Outstanding
  <2> HIDE DEF es
  <2>3. CASE UNCHANGED <<call, wake, lock, dropped>>
    BY <2>1, <2>3, QuietStep
  <2>4. CASE CancelResults(es, Expire(es))
    BY <2>1, <2>2, <2>4, CancelResultsWakes
  <2> QED BY <2>1, <2>3, <2>4
<1>5. ASSUME NEW c \in Conns, NEW e \in Calls, ToolResult(c, e)
      PROVE  NoStrandedWakeup'
  <2>1. PICK new :
          /\ timer' = timer
          /\ \/ UNCHANGED <<call, wake, lock, dropped>>
             \/ Resume(Enqueue(wake, {Id[e]}), call', new)
    BY <1>5 DEF ToolResult
  <2>2. CASE UNCHANGED <<call, wake, lock, dropped>>
    BY <2>1, <2>2, QuietStep
  <2>3. CASE HandleThread(Enqueue(wake, {Id[e]}), new)
    BY <1>1, <2>3, EnqueueRows, HandleThreadWakes
  <2>4. CASE Outstanding(call') # {} /\ NoRun(Enqueue(wake, {Id[e]}), lock, run, new)
    <3>1. /\ wake' = Enqueue(wake, {Id[e]}) /\ lock' = lock /\ dropped' = dropped
      BY <2>4 DEF NoRun
    <3>2. \A k \in Keys : wake'[k].st = "pending" => wake[k].st = "pending" \/ k = Id[e]
      BY <1>1, <3>1, EnqueueRows
    <3>3. Id[e] \notin Msgs
      BY DispatchAssumption
    <3> QED BY <2>1, <2>4, <3>1, <3>2, <3>3 DEF NoStrandedWakeup, Pending
  <2> QED BY <2>1, <2>2, <2>3, <2>4 DEF Resume
<1>6. CASE ExpireScan
  <2>1. PICK es \in SUBSET Outstanding(call) :
          \/ CancelResults(es, Expire(es))
          \/ lock = None /\ Pending(Enqueue(wake, IdsOf(es))) # {}
             /\ StartRun(Enqueue(wake, IdsOf(es)), {}, run, {})
    BY <1>6 DEF ExpireScan
  <2>2. es \in SUBSET Calls /\ timer' = timer
    BY <1>6 DEF Outstanding, ExpireScan
  <2>3. CASE CancelResults(es, Expire(es))
    BY <2>2, <2>3, CancelResultsWakes
  <2>4. CASE lock = None /\ Pending(Enqueue(wake, IdsOf(es))) # {}
             /\ StartRun(Enqueue(wake, IdsOf(es)), {}, run, {})
    <3>1. HandleThread(Enqueue(wake, IdsOf(es)), {})
      BY <2>4 DEF HandleThread
    <3> QED BY <1>1, <3>1, EnqueueRows, HandleThreadWakes
  <2> QED BY <2>1, <2>3, <2>4
<1>7. CASE CancelThread
  BY <1>7 DEF CancelThread, NoStrandedWakeup
<1>8. CASE Restart
  <2> DEFINE w == ResetProcessing(wake)
  <2>1. IF Pending(w) # {} THEN lock' = Min(Runs) ELSE wake' = w
    BY <1>8 DEF Restart, NoRun
  <2>2. Min(Runs) \in Runs
    <3>1. Runs \in SUBSET Nat /\ Runs # {}
      BY DispatchAssumption DEF Runs
    <3> QED BY <3>1, MinOfNaturals
  <2> HIDE DEF w
  <2>3. CASE Pending(w) # {}
    BY <2>1, <2>2, <2>3, StartedHolds
  <2>4. CASE Pending(w) = {}
    BY <2>1, <2>4 DEF NoStrandedWakeup
  <2> QED BY <2>3, <2>4
<1>9. ASSUME NEW k \in CallIds, Prune(k)
      PROVE  NoStrandedWakeup'
  <2>1. wake' = [wake EXCEPT ![k] = NoRow] /\ UNCHANGED <<call, lock, timer, dropped>>
    BY <1>9 DEF Prune
  <2>2. \A j \in Keys : wake'[j].st = "pending" => wake[j].st = "pending"
    BY <1>1, <2>1 DEF NoRow, Wake
  <2> QED BY <2>1, <2>2, QuietStep
<1> QED BY <1>2, <1>3, <1>4, <1>5, <1>6, <1>7, <1>8, <1>9

\* Nobody waits for a trigger that will not come: whenever the thread has
\* neither a run nor a scheduled retrigger, no message is pending in its queue,
\* and a tool result is pending only behind the barrier or after a cancel
\* (tryExecuteThread's drain loop, thread-executor.ts; the barrier, server.ts).
THEOREM NoStrandedWakeupCorrect == Spec => []NoStrandedWakeup
<1>1. Init => NoStrandedWakeup
  BY DEF Init, NoStrandedWakeup, Pending, NoRow
<1>2. Base /\ NoStrandedWakeup /\ [Next]_vars => NoStrandedWakeup'
  <2>1. NoStrandedWakeup /\ UNCHANGED vars => NoStrandedWakeup'
    BY DEF NoStrandedWakeup, Pending, Outstanding, vars
  <2> QED BY <2>1, RunWakes, ClientWakes DEF Next
<1> QED BY <1>1, <1>2, BaseCorrect, PTL DEF Spec

---------------------------------------------------------------------------
(* Tool results *)

\* What an enqueued key that is not taken for a duplicate leaves: a pending row.
LEMMA FreshWakeup ==
    ASSUME NEW w \in Wake, NEW es \in SUBSET Calls, NEW ks, NEW e \in es \ Duplicates(w, es),
           Id[e] \in ks
    PROVE  Id[e] \in Keys /\ Enqueue(w, ks)[Id[e]].st = "pending"
<1>1. Id[e] \in Keys /\ w[Id[e]].st \in {"absent", "pending"}
  BY DispatchAssumption DEF Duplicates, Keys, Wake, WakeRow
<1> QED BY <1>1, EnqueueRows

\* No run starts: pending rows stay, and the new results' rows are pending.
LEMMA NoRunResults ==
    ASSUME Base, ResultsInv, NEW w, NEW lk, NEW rs, NEW new \in SUBSET Calls,
           NoRun(w, lk, rs, new),
           \A k \in Keys : wake[k].st = "pending" => w[k].st = "pending",
           \A e \in new \ Duplicates(wake, new) : w[Id[e]].st = "pending"
    PROVE  ResultsInv'
<1>1. /\ wake' = w /\ unseen' = unseen \cup new
      /\ muted' = muted \cup Duplicates(wake, new)
  BY DEF NoRun
<1>2. \A e \in unseen \ muted : Id[e] \in Keys /\ w[Id[e]].st = "pending"
  BY DispatchAssumption DEF ResultsInv, Base, QueueInv, Keys
<1> QED BY <1>1, <1>2 DEF ResultsInv

\* A run starts: what it did not claim came after the claim and is pending.
LEMMA StartRunResults ==
    ASSUME NEW w \in Wake, NEW rs, NEW new \in SUBSET Calls, StartRun(w, IdsOf(new), rs, new)
    PROVE  ResultsInv'
<1> DEFINE r == Min({s \in Runs : rs[s] = Idle})
<1>1. /\ {s \in Runs : rs[s] = Idle} # {}
      /\ wake' = Enqueue(Claim(w, r), IdsOf(new))
      /\ unseen' = new /\ muted' = Duplicates(Claim(w, r), new)
  BY DEF StartRun
<1>2. r \in Runs
  BY <1>1, FreeSlot
<1> HIDE DEF r
<1>3. Claim(w, r) \in Wake
  BY <1>2, QueueTypes
<1>4. \A e \in new : Id[e] \in IdsOf(new)
  BY DEF IdsOf
<1>5. \A e \in new \ Duplicates(Claim(w, r), new) :
          Enqueue(Claim(w, r), IdsOf(new))[Id[e]].st = "pending"
  BY <1>3, <1>4, FreshWakeup
<1> QED BY <1>1, <1>5 DEF ResultsInv

\* A run that starts with nothing after it leaves no result unseen.
LEMMA StartRunSees ==
    ASSUME NEW w, NEW late, NEW rs, StartRun(w, late, rs, {})
    PROVE  ResultsInv'
BY DEF StartRun, ResultsInv

\* handleThread and the barrier, on the wakeups of the results new.
LEMMA ResumeResults ==
    ASSUME Base, ResultsInv, NEW w, NEW new \in SUBSET Calls,
           HandleThread(w, new) \/ NoRun(w, lock, run, new),
           \A k \in Keys : wake[k].st = "pending" => w[k].st = "pending",
           \A e \in new \ Duplicates(wake, new) : w[Id[e]].st = "pending"
    PROVE  ResultsInv'
<1>1. CASE NoRun(w, lock, run, new)
  BY <1>1, NoRunResults
<1>2. CASE StartRun(w, {}, run, {})
  BY <1>2, StartRunSees
<1> QED BY <1>1, <1>2 DEF HandleThread

\* emitToolCancel enqueues a wakeup for each result it writes.
LEMMA CancelResultsSeen ==
    ASSUME Base, ResultsInv, NEW es \in SUBSET Calls, NEW cs, CancelResults(es, cs)
    PROVE  ResultsInv'
<1>1. wake \in Wake
  BY DEF Base, QueueInv
<1>2. CASE NoRun(Enqueue(wake, IdsOf(es)), lock, run, es)
  <2>1. \A e \in es : Id[e] \in IdsOf(es)
    BY DEF IdsOf
  <2>2. \A e \in es \ Duplicates(wake, es) : Enqueue(wake, IdsOf(es))[Id[e]].st = "pending"
    BY <1>1, <2>1, FreshWakeup
  <2> QED BY <1>1, <1>2, <2>2, EnqueueRows, NoRunResults
<1>3. ASSUME NEW e \in es,
             StartRun(Enqueue(wake, {Id[e]}), IdsOf(es \ {e}), run, es \ {e})
      PROVE  ResultsInv'
  <2>1. Enqueue(wake, {Id[e]}) \in Wake /\ es \ {e} \in SUBSET Calls
    BY <1>1, EnqueueRows
  <2> QED BY <1>3, <2>1, StartRunResults
<1> QED BY <1>2, <1>3 DEF CancelResults

\* A step that touches no row of a result.
LEMMA QuietResults ==
    ASSUME ResultsInv, unseen' = unseen, muted' = muted, wake' = wake
    PROVE  ResultsInv'
BY DEF ResultsInv

\* The triggers and the steps of a run.
LEMMA RunResults ==
    ASSUME Base, ResultsInv,
           \/ \E m \in Msgs : Arrive(m)
           \/ Retrigger
           \/ \E r \in Runs : RunStep(r) \/ Timeout(r)
    PROVE  ResultsInv'
<1>1. wake \in Wake /\ {} \in SUBSET Calls
  BY DEF Base, QueueInv
<1> DEFINE Kept(w) == \A k \in Keys : wake[k].st = "pending" => w[k].st = "pending"
<1>2. ASSUME NEW w, NEW lk, NEW rs, Kept(w), NoRun(w, lk, rs, {})
      PROVE  ResultsInv'
  BY <1>1, <1>2, NoRunResults
<1>3. /\ Kept(wake) /\ Kept(ResetProcessing(wake)) /\ \A r \in Runs : Kept(AcknowledgeBatch(wake, r))
      /\ \A m \in Msgs : Kept(Enqueue(wake, {m}))
  BY <1>1, EnqueueRows DEF ResetProcessing, AcknowledgeBatch
<1> HIDE DEF Kept
<1>4. ASSUME NEW w, Kept(w), HandleThread(w, {})
      PROVE  ResultsInv'
  BY <1>2, <1>4, StartRunSees DEF HandleThread
<1>5. ASSUME NEW m \in Msgs, Arrive(m)
      PROVE  ResultsInv'
  BY <1>3, <1>4, <1>5 DEF Arrive
<1>6. CASE Retrigger
  BY <1>3, <1>4, <1>6 DEF Retrigger
<1>7. ASSUME NEW r \in Runs, FinishRun(r) \/ \E n \in 1..MaxTurn : DispatchCalls(r, n)
      PROVE  ResultsInv'
  BY <1>7, QuietResults DEF FinishRun, DispatchCalls
<1>8. ASSUME NEW r \in Runs, Yield(r)
      PROVE  ResultsInv'
  <2>1. \/ StartRun(ResetProcessing(wake), {}, [run EXCEPT ![r] = Idle], {})
        \/ NoRun(wake, lock, [run EXCEPT ![r] = Idle], {})
    BY <1>8 DEF Yield
  <2> QED BY <1>2, <1>3, <2>1, StartRunSees
<1>9. ASSUME NEW r \in Runs, EndRun(r)
      PROVE  ResultsInv'
  <2>1. \/ StartRun(AcknowledgeBatch(wake, r), {}, [run EXCEPT ![r] = Idle], {})
        \/ NoRun(AcknowledgeBatch(wake, r), lock, [run EXCEPT ![r] = Idle], {})
        \/ NoRun(AcknowledgeBatch(wake, r), None, [run EXCEPT ![r] = Idle], {})
    BY <1>9 DEF EndRun
  <2> QED BY <1>2, <1>3, <2>1, StartRunSees
<1>10. ASSUME NEW r \in Runs, Timeout(r)
       PROVE  ResultsInv'
  BY <1>2, <1>3, <1>10 DEF Timeout
<1> QED BY <1>5, <1>6, <1>7, <1>8, <1>9, <1>10 DEF RunStep

\* Clients, the scan, a cancel, a restart and pruning.
LEMMA ClientResults ==
    ASSUME Base, ResultsInv,
           \/ \E c \in Conns : Subscribe(c) \/ Unsubscribe(c) \/ CloseConnection(c)
                               \/ \E e \in Calls : ToolResult(c, e)
           \/ ExpireScan \/ CancelThread \/ Restart
           \/ \E k \in CallIds : Prune(k)
    PROVE  ResultsInv'
<1>1. /\ wake \in Wake /\ {} \in SUBSET Calls /\ unseen \subseteq Calls
      /\ \A e \in Calls : Id[e] \in Keys
  BY DispatchAssumption DEF Base, QueueInv, Keys
<1>2. ASSUME \/ CancelThread
             \/ \E c \in Conns : Subscribe(c) \/ Unsubscribe(c)
      PROVE  ResultsInv'
  BY <1>2, QuietResults DEF Subscribe, Unsubscribe, CancelThread
<1>3. ASSUME NEW c \in Conns, CloseConnection(c)
      PROVE  ResultsInv'
  <2> DEFINE es == {e \in Outstanding(call) : call[e].by = c}
  <2>1. UNCHANGED <<wake, unseen, muted>> \/ CancelResults(es, Expire(es))
    BY <1>3 DEF CloseConnection
  <2>2. es \in SUBSET Calls
    BY DEF Outstanding
  <2> HIDE DEF es
  <2> QED BY <2>1, <2>2, QuietResults, CancelResultsSeen
<1>4. ASSUME NEW c \in Conns, NEW e \in Calls, ToolResult(c, e)
      PROVE  ResultsInv'
  <2> DEFINE same == {y \in Outstanding(call) : Id[y] = Id[e]}
             x    == Min(same)
  <2>1. \/ UNCHANGED <<wake, unseen, muted>>
        \/ same # {} /\ Resume(Enqueue(wake, {Id[e]}), call', {x})
    BY <1>4 DEF ToolResult
  <2>2. CASE UNCHANGED <<wake, unseen, muted>>
    BY <2>2, QuietResults
  <2>3. CASE same # {} /\ Resume(Enqueue(wake, {Id[e]}), call', {x})
    <3>1. same \in SUBSET Nat
      BY DispatchAssumption DEF Outstanding, Calls
    <3>2. x \in same
      BY <2>3, <3>1, MinOfNaturals
    <3>3. x \in Calls /\ Id[x] = Id[e] /\ {x} \in SUBSET Calls
      BY <3>2 DEF Outstanding
    <3> HIDE DEF x, same
    <3>4. \A d \in {x} \ Duplicates(wake, {x}) : Enqueue(wake, {Id[e]})[Id[d]].st = "pending"
      BY <1>1, <3>3, FreshWakeup
    <3>5. \/ HandleThread(Enqueue(wake, {Id[e]}), {x})
          \/ NoRun(Enqueue(wake, {Id[e]}), lock, run, {x})
      BY <2>3 DEF Resume
    <3> QED BY <1>1, <3>3, <3>4, <3>5, EnqueueRows, ResumeResults
  <2> QED BY <2>1, <2>2, <2>3
<1>5. CASE ExpireScan
  <2>1. PICK es \in SUBSET Outstanding(call) :
          \/ CancelResults(es, Expire(es))
          \/ StartRun(Enqueue(wake, IdsOf(es)), {}, run, {})
    BY <1>5 DEF ExpireScan
  <2>2. es \in SUBSET Calls
    BY DEF Outstanding
  <2> QED BY <2>1, <2>2, CancelResultsSeen, StartRunSees
<1>6. CASE Restart
  <2> DEFINE w == ResetProcessing(wake)
  <2>1. unseen' = {} \/ NoRun(w, None, [r \in Runs |-> Idle], {})
    BY <1>6 DEF Restart
  <2>2. \A k \in Keys : wake[k].st = "pending" => w[k].st = "pending"
    BY <1>1 DEF ResetProcessing
  <2> HIDE DEF w
  <2>3. CASE unseen' = {}
    BY <2>3 DEF ResultsInv
  <2>4. CASE NoRun(w, None, [r \in Runs |-> Idle], {})
    BY <1>1, <2>2, <2>4, NoRunResults
  <2> QED BY <2>1, <2>3, <2>4
<1>7. ASSUME NEW k \in CallIds, Prune(k)
      PROVE  ResultsInv'
  <2>1. /\ wake[k].st = "consumed" /\ wake' = [wake EXCEPT ![k] = NoRow]
        /\ unseen' = unseen /\ muted' = muted
    BY <1>7 DEF Prune
  <2>2. \A j \in Keys : j = k \/ wake'[j] = wake[j]
    BY <1>1, <2>1 DEF Wake
  <2> QED BY <1>1, <2>1, <2>2 DEF ResultsInv
<1> QED BY <1>2, <1>3, <1>4, <1>5, <1>6, <1>7

\* A persisted tool result is seen, whatever ids the calls of the thread have:
\* whenever no call is outstanding, a run that claimed after the result was
\* written is active or scheduled, unless a cancel dropped the turn or the
\* queue took the result's wakeup for a duplicate of a claimed or settled one
\* (enqueueToolResult's key, dispatch.ts:144).
THEOREM WokenResultsAreSeenCorrect == Spec => []WokenResultsAreSeen
<1>1. Init => ResultsInv
  BY DEF Init, ResultsInv
<1>2. Base /\ ResultsInv /\ [Next]_vars => ResultsInv'
  <2>1. ResultsInv /\ UNCHANGED vars => ResultsInv'
    BY DEF ResultsInv, vars
  <2> QED BY <2>1, RunResults, ClientResults DEF Next
<1>3. Base /\ ResultsInv /\ NoStrandedWakeup => WokenResultsAreSeen
  <2> SUFFICES ASSUME Base, ResultsInv, NoStrandedWakeup,
                      unseen \ muted # {}, Outstanding(call) = {}, lock = None, ~timer
               PROVE  dropped
    BY DEF WokenResultsAreSeen
  <2>1. PICK e \in unseen \ muted : TRUE
    OBVIOUS
  <2>2. e \in Calls /\ wake[Id[e]].st = "pending" /\ Id[e] \in Keys
    BY DispatchAssumption DEF Base, QueueInv, ResultsInv, Keys
  <2> QED BY <2>2 DEF NoStrandedWakeup, Pending
<1> QED BY <1>1, <1>2, <1>3, BaseCorrect, NoStrandedWakeupCorrect, PTL DEF Spec

=============================================================================
