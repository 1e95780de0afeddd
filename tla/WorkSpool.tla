----------------------------- MODULE WorkSpool -----------------------------
(***************************************************************************)
(* The durable-work spool: every host keeps one durable_work table (module  *)
(* WorkTable) and rows hop from table to table over SPOOL_TRANSFER and      *)
(* SPOOL_TRANSFER_ACK frames (packages/sync/src/ws-transport.ts) until the  *)
(* host they are addressed to claims, executes and retires them             *)
(* (packages/agent/src/relay-processor.ts).  The hosts form a star: a spoke *)
(* is connected to the hub only, the hub forwards.                          *)
(***************************************************************************)
EXTENDS WorkTable

CONSTANTS
    Site, Hub,          \* the hosts, and the one that forwards
    Origin,             \* Origin[w] : the host whose producer inserts w
    HasTtl,             \* work whose kind registers a finite ttlMs
    Threads,            \* the sets of dispatch_message rows that belong to one thread
    Poison,             \* work a receiver's validateDurableWork refuses
    PreCapable,         \* hosts that advertise work_spool_capable from boot
    SendsMayThrow,      \* can sendFrame return false on an unpressured link?
    MaxGen,             \* bound: tokens minted per piece of work
    MaxProduce,         \* bound: producer calls per piece of work
    MaxRedrive          \* bound: operator redrives per row

ASSUME SpoolAssumption ==
    /\ Hub \in Site
    /\ Local \notin Site
    /\ Target \in [Work -> Site \cup {Local}]
    /\ Origin \in [Work -> Site]
    /\ HasTtl \subseteq Work
    /\ Poison \subseteq Work
    /\ \A T \in Threads : T \subseteq {w \in Work : Target[w] = Local}
    /\ PreCapable \subseteq Site
    /\ SendsMayThrow \in BOOLEAN
    /\ MaxGen \in Nat /\ MaxProduce \in Nat /\ MaxRedrive \in Nat

VARIABLES
    rows,       \* rows[h] : host h's durable_work table (survives a crash)
    live,       \* live[h] : claims <<w, tok>> whose handler runs in h's process
    abandoned,  \* abandoned[h] : those of them whose run the thread executor gave up
    conn,       \* <<h, p>> : p is in h's peerConnections
    pressed,    \* <<h, p>> : h's socket to p has sendState "pressured"
    capable,    \* hosts whose work_spool_capable bit has been synced
    net,        \* frames accepted by a socket and not yet handled
    gen,        \* gen[w] : tokens minted for w so far (randomUUID is fresh)
    produced,   \* produced[w] : rows inserted for w by its producer
    (* history, read by the properties only *)
    held,       \* held[h] : work ever inserted in h's table
    retired,    \* retired[h] : work ever consumed on h
    disposed,   \* disposed[h] : work whose row retention or the operator deleted
    shipped,    \* shipped[h][w] : generations of h's present row put on the wire
    redriven    \* redriven[h][w] : operator redrives of h's dead letter

hostVars == <<rows, live, abandoned, gen>>
linkVars == <<conn, pressed, capable>>
history  == <<held, retired, disposed, shipped, redriven>>
vars     == <<hostVars, linkVars, net, produced, history>>

Link == {l \in Site \X Site : l[1] # l[2] /\ Hub \in {l[1], l[2]}}

Entry == [w : Work, tok : Nat, ttl : BOOLEAN]

Frame == [typ : {"transfer", "ack"}, src : Site, dst : Site, ents : SUBSET Entry]

Init ==
    /\ rows = [h \in Site |-> [w \in Work |-> Absent]]
    /\ live = [h \in Site |-> {}]
    /\ abandoned = [h \in Site |-> {}]
    /\ conn = {} /\ pressed = {} /\ capable = PreCapable /\ net = {}
    /\ gen = [w \in Work |-> 0] /\ produced = [w \in Work |-> 0]
    /\ held = [h \in Site |-> {}]
    /\ retired = [h \in Site |-> {}]
    /\ disposed = [h \in Site |-> {}]
    /\ shipped = [h \in Site |-> [w \in Work |-> 0]]
    /\ redriven = [h \in Site |-> [w \in Work |-> 0]]

---------------------------------------------------------------------------
(* Routing and sending *)

\* resolveSpoolNextHop(Target[w]) = p on h: a spoke sends everything to the
\* hub, the hub sends to the connected final destination.
NextHop(c, h, w, p) ==
    /\ <<h, p>> \in c
    /\ IF h = Hub THEN p = Target[w] ELSE p = Hub

\* Rows that may leave h: in-process rows and rows for h itself never do.
PeerTargeted(h, w) == Target[w] \notin {h, Local}

\* Work of S that h would put on its link to p.
Batch(c, h, p, S) == {w \in S : PeerTargeted(h, w) /\ NextHop(c, h, w, p)}

Mint(S) == [w \in Work |-> IF w \in S THEN gen[w] + 1 ELSE gen[w]]

CanMint(S) == \A w \in S : gen[w] < MaxGen

TransferFrame(h, p, t, S) ==
    [typ |-> "transfer", src |-> h, dst |-> p,
     ents |-> {[w |-> w, tok |-> t[w].tok, ttl |-> t[w].ttl] : w \in S}]

\* What sendFrame may answer on a link that is not pressured.  The server
\* queues the frame that fills the buffer and latches after it; the client
\* refuses that frame and latches.  Either may fail without latching.
SendResult(h, ok, press) ==
    /\ ok \/ press \/ SendsMayThrow
    /\ press => (ok <=> h = Hub)

\* The peers in P that get a frame offered: connected, advertising, not
\* latched, and with something to carry.
Offered(c, latched, h, t, P) ==
    {p \in P : /\ <<h, p>> \in c \ latched /\ p \in capable
               /\ Batch(c, h, p, InState(t, "pending") \cup InState(t, "transferring")) # {}}

\* drainDurableWorkSpool for the peers P of h, from table t, links c and
\* latched sockets: rows already transferring are sent again under their own
\* token, pending ones begin a transfer; a refused batch rolls back what it
\* began.  A batch of 100 rows holds every model's Work, so one frame per peer.
Drain(c, latched, h, t, P) ==
    \E ok \in SUBSET Offered(c, latched, h, t, P), press \in SUBSET Offered(c, latched, h, t, P) :
        LET begun  == UNION {Batch(c, h, p, InState(t, "pending")) : p \in ok}
            after  == beginDurableWorkTransfer(t, begun, Mint(begun))
            all(p) == Batch(c, h, p, InState(after, "transferring"))
        IN  /\ \A p \in Offered(c, latched, h, t, P) : SendResult(h, p \in ok, p \in press)
            /\ CanMint(begun)
            /\ rows' = [rows EXCEPT ![h] = after]
            /\ gen' = Mint(begun)
            /\ net' = net \cup {TransferFrame(h, p, after, all(p)) : p \in ok}
            /\ pressed' = latched \cup {<<h, p>> : p \in press}
            /\ shipped' = [shipped EXCEPT ![h] =
                            [w \in Work |-> IF w \in begun THEN @[w] + 1 ELSE @[w]]]

\* The durable_work:written listener of h for the freshly inserted rows N of
\* table t: each row is pushed in a frame of its own if its next hop is
\* connected, advertises the spool and its socket takes the frame; otherwise it
\* stays (or is rolled back to) pending.  frames and latched are what the rest
\* of the step leaves on the wire and in the sockets.
Push(h, t, N, frames, latched) ==
    LET to(p) == IF <<h, p>> \in conn \ pressed /\ p \in capable
                 THEN Batch(conn, h, p, N) ELSE {}
    IN \E sent \in SUBSET N, press \in SUBSET Site :
        LET after == beginDurableWorkTransfer(t, sent, Mint(sent))
        IN  /\ sent \subseteq UNION {to(p) : p \in Site}
            /\ \A p \in Site : \A w \in to(p) \ sent : p \in press \/ SendsMayThrow
            /\ \A p \in press : \E w \in to(p) : w \in sent <=> h = Hub
            /\ CanMint(sent)
            /\ rows' = [rows EXCEPT ![h] = after]
            /\ gen' = Mint(sent)
            /\ net' = frames \cup UNION {{TransferFrame(h, p, after, {w}) : w \in sent \cap to(p)}
                                         : p \in Site}
            /\ pressed' = latched \cup {<<h, p>> : p \in press}
            /\ shipped' = [shipped EXCEPT ![h] =
                            [w \in Work |-> IF w \in sent THEN 1
                                            ELSE IF w \in N THEN 0 ELSE @[w]]]
            /\ held' = [held EXCEPT ![h] = @ \cup N]

---------------------------------------------------------------------------
(* Producers and the spool protocol *)

\* A producer on w's origin inserts w.  The same call repeated while a row
\* exists is ignored by the fence, hence a stutter.
Produce(w) ==
    LET h == Origin[w] IN
    /\ produced[w] < MaxProduce
    /\ rows[h][w].st = "absent"
    /\ produced' = [produced EXCEPT ![w] = @ + 1]
    /\ Push(h, insertDurableWork(rows[h], {w}, [v \in Work |-> v \in HasTtl]), {w}, net, pressed)
    /\ UNCHANGED <<live, abandoned, conn, capable, retired, disposed, redriven>>

\* handleSpoolTransfer: insert what is new, forward it if it is not for this
\* host, acknowledge everything that is durable here; a malformed entry is
\* neither inserted nor acknowledged.
Receive(f) ==
    LET h    == f.dst
        good == {e \in f.ents : e.w \notin Poison}
        new  == {e.w : e \in good} \cap InState(rows[h], "absent")
        ttl  == [w \in Work |-> \E e \in f.ents : e.w = w /\ e.ttl]
        back == <<h, f.src>>
        ack  == [typ |-> "ack", src |-> h, dst |-> f.src, ents |-> good]
    IN
    /\ f \in net /\ f.typ = "transfer" /\ back \in conn
    /\ \E ok, press \in BOOLEAN :
        /\ IF good = {} \/ back \in pressed THEN ~ok /\ ~press ELSE SendResult(h, ok, press)
        /\ Push(h, insertDurableWork(rows[h], {e.w : e \in good}, ttl), new,
                (net \ {f}) \cup (IF ok THEN {ack} ELSE {}),
                pressed \cup (IF press THEN {back} ELSE {}))
    /\ UNCHANGED <<live, abandoned, conn, capable, produced, retired, disposed, redriven>>

\* handleSpoolTransferAck: the echoed token names the one generation to retire.
ReceiveAck(f) ==
    /\ f \in net /\ f.typ = "ack" /\ <<f.dst, f.src>> \in conn
    /\ rows' = [rows EXCEPT ![f.dst] = acknowledgeDurableWorkTransfer(@, f.ents)]
    /\ net' = net \ {f}
    /\ UNCHANGED <<live, abandoned, gen, linkVars, produced, history>>

\* A frame buffered in a socket that dies, or sent into one already dead.
Lose(f) ==
    /\ f \in net
    /\ net' = net \ {f}
    /\ UNCHANGED <<hostVars, linkVars, produced, history>>

\* A fresh connection: addPeer, the reconnect auto-redrive of recent
\* transfer-exhausted dead letters (S), then the drain.  A peer that does not
\* advertise the spool gets neither.
Connect(h, p) ==
    /\ <<h, p>> \in Link \ conn
    /\ conn' = conn \cup {<<h, p>>}
    /\ \E S \in SUBSET (IF p \in capable THEN Reclassifiable(rows[h], p) ELSE {}) :
            Drain(conn \cup {<<h, p>>}, pressed, h,
                  reclassifyTransferExhaustedDeadLetters(rows[h], S, p), {p})
    /\ UNCHANGED <<live, abandoned, capable, produced, held, retired, disposed, redriven>>

\* Mutant: a socket's latch outlives its connection.
DisconnectKeepsLatch(h, p) ==
    /\ <<h, p>> \in conn
    /\ conn' = conn \ {<<h, p>>}
    /\ UNCHANGED <<hostVars, pressed, capable, net, produced, history>>

\* removePeer; frames on their way may still arrive on the other side.
Disconnect(h, p) ==
    /\ <<h, p>> \in conn
    /\ conn' = conn \ {<<h, p>>}
    /\ pressed' = pressed \ {<<h, p>>}
    /\ UNCHANGED <<hostVars, capable, net, produced, history>>

\* The buffer has emptied.  The client's recoverFromBackpressure clears the latch
\* and drains the spool, which may fill the buffer and latch again; the server's
\* drain handler resumes snapshots, row pulls and consistency streams, none of
\* which is the spool.
ClearPressure(h, p) ==
    /\ <<h, p>> \in pressed
    /\ \/ /\ h = Hub
          /\ pressed' = pressed \ {<<h, p>>}
          /\ UNCHANGED <<rows, gen, net, shipped>>
       \/ /\ h # Hub
          /\ Drain(conn, pressed \ {<<h, p>>}, h, rows[h], {p})
    /\ UNCHANGED <<live, abandoned, conn, capable, produced, held, retired, disposed, redriven>>

\* Another frame of a spoke (a changelog push, an acknowledgement) finds room in
\* the latched socket: send clears the latch, and nothing drains.
SelfHeal(h, p) ==
    /\ h # Hub /\ <<h, p>> \in pressed
    /\ pressed' = pressed \ {<<h, p>>}
    /\ UNCHANGED <<hostVars, conn, capable, net, produced, history>>

\* The peer's hosts row arrives with work_spool_capable set; nothing drains.
Advertise(p) ==
    /\ p \in Site \ capable
    /\ capable' = capable \cup {p}
    /\ UNCHANGED <<hostVars, conn, pressed, net, produced, history>>

\* sweepAndRedriveStaleDurableWork: rows past expires_at (E) are dead-lettered
\* first, then rows transferring for too long (S) are charged; only if some
\* were are the connected peers drained.
Sweep(h, E, S) ==
    LET expired == deadLetterExpiredDurableWork(rows[h], E)
        swept   == sweepStaleTransferringDurableWork(expired, S)
    IN
    /\ E \subseteq Expirable(rows[h])
    /\ S \subseteq InState(expired, "transferring")
    /\ E \cup S # {}
    /\ IF S = {}
       THEN /\ rows' = [rows EXCEPT ![h] = expired]
            /\ UNCHANGED <<gen, net, pressed, shipped>>
       ELSE Drain(conn, pressed, h, swept, Site)
    /\ UNCHANGED <<live, abandoned, conn, capable, produced, held, retired, disposed, redriven>>

---------------------------------------------------------------------------
(* Consumers on the addressed host *)

\* A host claims rows addressed to its site id or to the local sentinel.
Consumes(h, w) == Target[w] \in {h, Local}

\* A step of h's consumers: its table becomes t, its running claims L.
Settle(h, t, L) ==
    /\ rows' = [rows EXCEPT ![h] = t]
    /\ live' = [live EXCEPT ![h] = L]
    /\ abandoned' = [abandoned EXCEPT ![h] = @ \cap L]
    /\ retired' = [retired EXCEPT ![h] = @ \cup InState(t, "consumed")]
    /\ UNCHANGED <<linkVars, net, produced, held, disposed, shipped, redriven>>

\* One selection of pending rows becomes this process's claims.
Claim(h, S) ==
    /\ S # {} /\ S \subseteq {w \in InState(rows[h], "pending") : Consumes(h, w)}
    /\ CanMint(S)
    /\ gen' = Mint(S)
    /\ Settle(h, claimDurableWorkByIds(rows[h], S, Mint(S)),
              live[h] \cup {<<w, gen[w] + 1>> : w \in S})

\* The handler succeeded: acknowledge; a claim lost meanwhile is only logged.
Acknowledge(h, w, tok) ==
    /\ <<w, tok>> \in live[h]
    /\ Settle(h, acknowledgeDurableWork(rows[h], w, tok), live[h] \ {<<w, tok>>})
    /\ UNCHANGED gen

\* A retryable outcome: budget deferral, or a part whose sibling is taken.
Release(h, w, tok) ==
    /\ <<w, tok>> \in live[h]
    /\ Settle(h, releaseDurableWorkClaim(rows[h], w, tok), live[h] \ {<<w, tok>>})
    /\ UNCHANGED gen

\* The last part of a multipart request retires all its siblings S at once.
ConsumeParts(h, w, tok, S) ==
    LET t == claimAndConsumeDurableWorkByIds(rows[h], S, w, tok) IN
    /\ <<w, tok>> \in live[h]
    /\ w \in S /\ S \subseteq {v \in Work : Consumes(h, v)}
    /\ t # rows[h]
    /\ CanMint(S \ {w})
    /\ gen' = Mint(S \ {w})
    /\ Settle(h, t, live[h] \ {<<w, tok>>})

\* A response that cannot be addressed is terminal at once; an infrastructure
\* failure only at the attempt cap, below it the row stays processing with no
\* handler.
Fail(h, w, tok, unroutable) ==
    LET dead == OwnedBy(rows[h], w, "processing", tok)
                /\ (unroutable \/ rows[h][w].att >= MaxAttempts)
    IN
    /\ <<w, tok>> \in live[h]
    /\ Settle(h, IF dead THEN deadLetterClaimedDurableWork(rows[h], w, tok) ELSE rows[h],
              live[h] \ {<<w, tok>>})
    /\ UNCHANGED gen

\* A nested loop closes the wakeup of a tool call it resolved inline.
ConsumePendingDispatch(h, w) ==
    /\ rows[h][w].st = "pending" /\ Target[w] = Local
    /\ Settle(h, consumePendingDispatchByIdempotencyKey(rows[h], w), live[h])
    /\ UNCHANGED gen

\* The intake reconciler gives up on intake whose task is gone.
RejectPending(h, w) ==
    /\ rows[h][w].st = "pending" /\ Consumes(h, w)
    /\ Settle(h, deadLetterPendingDurableWork(rows[h], w), live[h])
    /\ UNCHANGED gen

\* The claims on a thread's rows T whose run the executor still waits for.
Awaited(h, T) == {c \in live[h] \ abandoned[h] : c[1] \in T}

\* The thread executor resets the rows of its thread when the run it waits for
\* yielded or failed, and when it does not answer within the run timeout.  In the
\* first two cases the run has returned; in the last it goes on.
ResetDispatch(h, T, returned) ==
    /\ Awaited(h, T) # {}
    /\ rows' = [rows EXCEPT ![h] = resetProcessingDurableDispatchForThread(@, T)]
    /\ \/ /\ returned
          /\ live' = [live EXCEPT ![h] = @ \ Awaited(h, T)]
          /\ UNCHANGED abandoned
       \/ /\ ~returned
          /\ abandoned' = [abandoned EXCEPT ![h] = @ \cup Awaited(h, T)]
          /\ UNCHANGED live
    /\ UNCHANGED <<gen, linkVars, net, produced, history>>

---------------------------------------------------------------------------
(* The process and its keepers *)

\* A crash and the boot recovery of the next process.  Links of h are gone;
\* no handler survives.
Restart(h) ==
    /\ rows' = [rows EXCEPT ![h] =
                    resetTransferringLocalDurableWork(resetProcessingDurableWork(@, Local))]
    /\ live' = [live EXCEPT ![h] = {}]
    /\ abandoned' = [abandoned EXCEPT ![h] = {}]
    /\ conn' = {l \in conn : l[1] # h}
    /\ pressed' = {l \in pressed : l[1] # h}
    /\ UNCHANGED <<gen, capable, net, produced, history>>

\* workspool redrive --id
Redrive(h, w) ==
    /\ redriven[h][w] < MaxRedrive
    /\ \/ /\ rows[h][w].st = "transferring"
          /\ rows' = [rows EXCEPT ![h] = redriveTransferringDurableWork(@, w)]
          /\ UNCHANGED redriven
       \/ /\ rows[h][w].st = "dead_letter"
          /\ rows' = [rows EXCEPT ![h] = redriveDeadLetterDurableWork(@, w, w \in HasTtl)]
          /\ redriven' = [redriven EXCEPT ![h][w] = @ + 1]
    /\ UNCHANGED <<live, abandoned, gen, linkVars, net, produced, held, retired, disposed, shipped>>

\* Rows S leave h's table: the pruning loop's retention, or workspool purge.
Delete(h, S) ==
    /\ S # {}
    /\ rows' = [rows EXCEPT ![h] = DeleteRows(@, S)]
    /\ disposed' = [disposed EXCEPT ![h] = @ \cup S]
    /\ UNCHANGED <<live, abandoned, gen, linkVars, net, produced, held, retired, shipped, redriven>>

\* One hour, the shorter retention, outlasts any frame on its way to h.
Prune(h, S) ==
    /\ S \subseteq Prunable(rows[h])
    /\ \A f \in net : f.dst # h
    /\ Delete(h, S)

Purge(h, S, force) == S \subseteq Purgeable(rows[h], force) /\ Delete(h, S)

---------------------------------------------------------------------------
Transport ==
    \/ \E f \in net : Receive(f) \/ ReceiveAck(f) \/ Lose(f)
    \/ \E h, p \in Site : Connect(h, p) \/ Disconnect(h, p)
    \/ \E h, p \in Site : ClearPressure(h, p) \/ SelfHeal(h, p)
    \/ \E p \in Site : Advertise(p)
    \/ \E h \in Site : \E E, S \in SUBSET Work : Sweep(h, E, S)

Consumer ==
    \E h \in Site :
        \/ \E S \in SUBSET Work : Claim(h, S)
        \/ \E c \in live[h] :
              \/ Acknowledge(h, c[1], c[2])
              \/ Release(h, c[1], c[2])
              \/ \E S \in SUBSET Work : ConsumeParts(h, c[1], c[2], S)
              \/ \E unroutable \in BOOLEAN : Fail(h, c[1], c[2], unroutable)
        \/ \E w \in Work : ConsumePendingDispatch(h, w) \/ RejectPending(h, w)
        \/ \E T \in Threads, returned \in BOOLEAN : ResetDispatch(h, T, returned)

Keeper ==
    \E h \in Site :
        \/ Restart(h)
        \/ \E w \in Work : Redrive(h, w)
        \/ \E S \in SUBSET Work : Prune(h, S)
        \/ \E S \in SUBSET Work, force \in BOOLEAN : Purge(h, S, force)

Next == (\E w \in Work : Produce(w)) \/ Transport \/ Consumer \/ Keeper

Spec == Init /\ [][Next]_vars

---------------------------------------------------------------------------
(* Safety *)

TypeOK ==
    /\ rows \in [Site -> Table]
    /\ live \in [Site -> SUBSET (Work \X Nat)]
    /\ abandoned \in [Site -> SUBSET (Work \X Nat)]
    /\ \A h \in Site : abandoned[h] \subseteq live[h]
    /\ conn \subseteq Link /\ pressed \subseteq conn
    /\ capable \subseteq Site
    /\ net \subseteq Frame
    /\ gen \in [Work -> Nat]
    /\ produced \in [Work -> Nat]
    /\ held \in [Site -> SUBSET Work]
    /\ retired \in [Site -> SUBSET Work]
    /\ disposed \in [Site -> SUBSET Work]
    /\ shipped \in [Site -> [Work -> Nat]]
    /\ redriven \in [Site -> [Work -> Nat]]

\* The one host a row of h may be handed to.
Successor(h, w, p) == PeerTargeted(h, w) /\ NextHop(Link, h, w, p)

\* R-DW11: a host that ever held a piece of work still has its row, or handed
\* it to a next hop that durably inserted it, or lost it to retention or the
\* operator.  Lost frames, crashes, late and repeated acknowledgements never
\* retire the only copy.
Custody ==
    \A h \in Site : \A w \in held[h] :
        \/ rows[h][w].st # "absent"
        \/ w \in disposed[h]
        \/ \E p \in Site : Successor(h, w, p) /\ w \in held[p]

\* Two handlers of one host run the same work at the same time only if the
\* operator redrove its dead letter, its row was deleted under the first, or the
\* thread executor's timeout gave the first up.  Expiry, boot recovery, releases
\* and the reset of a thread that yielded never start a second one.
NoConcurrentExecution ==
    \A h \in Site : \A c, d \in live[h] :
        c[1] = d[1] /\ c # d
            => redriven[h][c[1]] > 0 \/ c[1] \in disposed[h] \/ {c, d} \cap abandoned[h] # {}

\* The fence of consumed work outlives every redelivery: until retention or
\* the operator touch it the row blocks a second insertion and a second claim.
FencePersists ==
    \A h \in Site : \A w \in retired[h] :
        redriven[h][w] = 0 /\ w \notin disposed[h]
            => rows[h][w].st \in {"consumed", "dead_letter"}

\* Automatic redelivery terminates: sweeps, reconnect drains and reconnect
\* reclassifications together put a bounded number of transfer generations of
\* one row on the wire; only the operator's redrive buys another.
WireBudget ==
    \A h \in Site : \A w \in Work :
        shipped[h][w] <= (ReclassifyBudget + 1) * (MaxAttempts + 1) + redriven[h][w]

\* A claimed or transferring row is retired only by its own generation.  The
\* handler that ends in the step is the one that holds the row's present token,
\* never one whose claim was reset, expired or redriven meanwhile; a transfer is
\* retired by an acknowledgement that echoes the present token.
GenerationFence ==
    [][\A h \in Site : \A w \in Work :
        LET r == rows[h][w] IN
        r.st \in {"processing", "transferring"} /\ rows'[h][w].st \in {"consumed", "absent"}
            => \/ r.st = "processing" /\ <<w, r.tok>> \in live[h] \ live'[h]
               \/ r.st = "transferring" /\ \E f \in net \ net' :
                    f.typ = "ack" /\ f.dst = h /\ \E e \in f.ents : e.w = w /\ e.tok = r.tok]_vars

---------------------------------------------------------------------------
(* Liveness.  The sweep runs on an interval timer, a client reconnects with   *)
(* backoff for ever, a socket that has room says so, and a frame that reaches *)
(* a connected host is dispatched.  Nothing is assumed of consumers, of       *)
(* losses, or of the operator.                                                *)

Fairness ==
    /\ \A h \in Site, w \in Work :
            WF_vars(\E E \in SUBSET Work, S \in SUBSET Work : w \in S /\ Sweep(h, E, S))
    /\ \A h \in Site, p \in Site : WF_vars(Connect(h, p)) /\ WF_vars(ClearPressure(h, p))
    /\ \A h \in Site :
            WF_vars(\E f \in net : f.dst = h /\ (Receive(f) \/ ReceiveAck(f)))

FairSpec == Spec /\ Fairness

\* No transfer is in flight for ever and none is repeated for ever: whatever is
\* lost, late or refused, the acknowledgement or the sweep's attempt budget ends
\* it, and reconnects do not start it over without limit.
TransfersEnd == \A h \in Site, w \in Work : <>[](rows[h][w].st # "transferring")

=============================================================================
