---------------------------- MODULE Replication ----------------------------
(***************************************************************************)
(* Replication of the synced tables between a hub and its spokes            *)
(* (packages/sync/src/ws-transport.ts, ws-server.ts, ws-client.ts): local   *)
(* writes are flushed to the connected peers as CHANGELOG_PUSH frames,      *)
(* applied last-writer-wins, logged again and forwarded; cursors per peer   *)
(* record what was sent, received and confirmed; a spoke's backfill         *)
(* compares its rows with the hub's and pushes or pulls what differs.       *)
(***************************************************************************)
EXTENDS ChangeLog, Sequences

CONSTANTS
    Hub,        \* the host every spoke is connected to
    Compared,   \* the rows of the tables a backfill covers: twelve of the seventeen
    MaxWall,    \* bound: readings of the wall clocks
    MaxWrites,  \* bound: local writes
    MaxFaults,  \* bound: lost connections, restarts, latches and early timeouts
    Ties        \* may two writes of one row carry the same modified_at?

ASSUME ReplicationAssumption ==
    /\ Hub \in Site /\ IsFiniteSet(Site)
    /\ Compared \subseteq Row /\ Compared # {}
    /\ MaxWall \in Nat /\ MaxWrites \in Nat /\ MaxFaults \in Nat
    /\ Ties \in BOOLEAN

Spoke == Site \ {Hub}

Link == {l \in Site \X Site : l[1] # l[2] /\ Hub \in {l[1], l[2]}}

VARIABLES
    (* on disk *)
    db,         \* db[h][r] : host h's version of row r
    log,        \* log[h] : host h's change_log
    cursor,     \* cursor[<<h, p>>] : h's sync_state row for peer p
    joined,     \* spokes the hub has a sync_state row for
    (* in memory *)
    conn,       \* <<h, p>> : p is in h's peerConnections
    pressed,    \* <<h, p>> : h's socket to p has sendState "pressured"
    chan,       \* chan[<<h, p>>] : frames h's socket took and p has not handled
    opened,     \* spokes whose process has opened a connection (hasOpenedOnce)
    backfill,   \* backfill[p] : spoke p's runBackfill
    paging,     \* paging[p] : consistency stream the hub owes p
    pulling,    \* pulling[p] : row-pull stream the hub owes p
    parked,     \* parked[p] : stream frames refused by p's socket
    wall,       \* wall[h] : the last reading of h's clock; clocks are not in step
    (* history and bounds *)
    written,    \* the versions written so far, with their row
    faults,     \* faults so far
    seen        \* seen[h] : <<p, n>> : h handled p's push stamped n

disk    == <<db, log>>
streams == <<paging, pulling, parked>>
spoke   == <<opened, backfill>>
vars    == <<disk, cursor, joined, conn, pressed, chan, spoke, streams, wall, written, faults, seen>>

Cursor == [sent : Stamp, received : Stamp, confirmed : Stamp]

Request == [rid : Nat, left : SUBSET Row]

Backfill == [phase : {"idle", "asked", "diff", "pulling"}, rid : Nat, first : BOOLEAN,
             left : SUBSET Row, got : [Row -> Version], pulls : SUBSET Row]

Idle == [phase |-> "idle", rid |-> 0, first |-> FALSE, left |-> Compared,
         got |-> [r \in Row |-> Missing], pulls |-> {}]

Init ==
    /\ db = [h \in Site |-> [r \in Row |-> Missing]]
    /\ log = [h \in Site |-> {}]
    /\ cursor = [l \in Link |-> [sent |-> Zero, received |-> Zero, confirmed |-> Zero]]
    /\ joined = {} /\ conn = {} /\ pressed = {}
    /\ chan = [l \in Link |-> <<>>]
    /\ opened = {} /\ backfill = [p \in Spoke |-> Idle]
    /\ paging = [p \in Spoke |-> [rid |-> 0, left |-> {}]]
    /\ pulling = [p \in Spoke |-> [rid |-> 0, left |-> {}]]
    /\ parked = [p \in Spoke |-> <<>>]
    /\ wall = [h \in Site |-> 1]
    /\ written = {} /\ faults = 0 /\ seen = [h \in Site |-> {}]

---------------------------------------------------------------------------
(* Frames and sending *)

Push(e) == [type |-> "changelog_push", entry |-> e]

Ack(n) == [type |-> "changelog_ack", cursor |-> n]

ConsistencyRequest(b) == [type |-> "consistency_request", rid |-> b.rid, left |-> b.left]

\* kind is consistency_response or row_pull_response.
Image(kind, rid, r, last) ==
    [type |-> kind, rid |-> rid, row |-> r, ver |-> db[Hub][r], last |-> last]

RowPullRequest(b) == [type |-> "row_pull_request", rid |-> b.rid, left |-> b.pulls]

RowPullAck == [type |-> "row_pull_ack"]

Nothing == [p \in Site |-> <<>>]

Only(p, s) == [Nothing EXCEPT ![p] = s]

\* sendFrame on n frames in a row takes the first k.  A latched socket takes
\* none.  The server queues the frame that fills the buffer and latches after
\* it; the client latches and refuses once earlier frames fill the buffer.
Takes(h, p, buffered, n, k, latch) ==
    IF <<h, p>> \in pressed
    THEN k = 0 /\ ~latch
    ELSE \/ k = n /\ (latch => h = Hub)
         \/ k < n /\ latch /\ (k > 0 \/ (h # Hub /\ buffered # <<>>))

LastPush(s) == {i \in DOMAIN s : s[i].type = "changelog_push"
                    /\ \A j \in i + 1..Len(s) : s[j].type # "changelog_push"}

\* Mutant: the optimistic send also moves the confirmed watermark.
SentConfirms(cur, s, k) ==
    IF \E i \in LastPush(s) : i <= k
    THEN [cur EXCEPT !.sent = s[CHOOSE i \in LastPush(s) : TRUE].entry.hlc,
                     !.confirmed = s[CHOOSE i \in LastPush(s) : TRUE].entry.hlc]
    ELSE cur

\* last_sent moves to the last entry once every entry offered was taken.
Sent(cur, s, k) ==
    IF \E i \in LastPush(s) : i <= k
    THEN [cur EXCEPT !.sent = s[CHOOSE i \in LastPush(s) : TRUE].entry.hlc]
    ELSE cur

\* h offers each connected peer p the frames out[p], in order, starting from
\* channels ch and cursors cur; k[p] of them are taken.
Offer(h, c, ch, cur, out, k) ==
    LET P == {p \in Site : <<h, p>> \in c /\ out[p] # <<>>} IN
    /\ DOMAIN k = Site
    /\ \E latch \in SUBSET P :
        /\ faults + Cardinality(latch) <= MaxFaults
        /\ \A p \in Site : IF p \in P THEN Takes(h, p, ch[<<h, p>>], Len(out[p]), k[p], p \in latch)
                               ELSE k[p] = 0
        /\ pressed' = pressed \cup {<<h, p>> : p \in latch}
        /\ faults' = faults + Cardinality(latch)
    /\ chan' = [l \in Link |-> IF l[1] = h THEN ch[l] \o SubSeq(out[l[2]], 1, k[l[2]]) ELSE ch[l]]
    /\ cursor' = [l \in Link |-> IF l[1] = h THEN Sent(cur[l], out[l[2]], k[l[2]]) ELSE cur[l]]

\* How many frames each peer may take.
Counts(out) == [Site -> {0} \cup UNION {1..Len(out[p]) : p \in Site}]

\* Echo suppression: an entry goes to every peer but the site it came from.
Flush(e) == [p \in Site |-> IF e.site # p THEN <<Push(e)>> ELSE <<>>]

\* drainChangelog's query: everything past last_sent, in order.
Missed(h, p, cur) == {e \in log[h] : Before(cur[<<h, p>>].sent, e.hlc) /\ e.site # p}

---------------------------------------------------------------------------
(* Local writes and the changelog protocol *)

\* What a host's clock may read next: it does not run backwards.
Readings(h) == wall[h]..MaxWall

\* insertRow, updateRow or softDelete on h, and the flush of its entry.
Write(h, r) ==
    \E now \in Readings(h) :
    LET v == [mod |-> now, val |-> Cardinality(written) + 1] IN
    /\ Cardinality(written) < MaxWrites
    /\ Ties \/ \A w \in written : w.row = r => w.ver.mod # now
    /\ written' = written \cup {[row |-> r, ver |-> v]}
    /\ db' = [db EXCEPT ![h][r] = v]
    /\ \E n \in Stamps(log[h], now, Zero) :
        LET out == Flush([hlc |-> n, row |-> r, site |-> h, ver |-> v]) IN
        /\ log' = [log EXCEPT ![h] = createChangeLogEntry(@, n, r, h, v)]
        /\ \E k \in Counts(out) : Offer(h, conn, chan, cursor, out, k)
    /\ wall' = [wall EXCEPT ![h] = now]
    /\ UNCHANGED <<joined, conn, spoke, streams, seen>>

\* The next frame h handles from p, of the given type.
Next1(h, p, type) ==
    /\ {<<h, p>>, <<p, h>>} \subseteq Link
    /\ <<h, p>> \in conn
    /\ chan[<<p, h>>] # <<>> /\ Head(chan[<<p, h>>]).type = type

Frame(h, p) == Head(chan[<<p, h>>])

Rest(h, p) == [chan EXCEPT ![<<p, h>>] = Tail(@)]

\* handleChangelogPush: replay; an applied entry is logged again under its own
\* site with a merged stamp.  last_received moves and the acknowledgement goes
\* out whether or not it was applied; the flush of the new entry follows in the
\* same turn.
ReceivePush(h, p) ==
    /\ Next1(h, p, "changelog_push")
    /\ LET e   == Frame(h, p).entry
           cur == [cursor EXCEPT ![<<h, p>>].received = e.hlc]
       IN
       /\ db' = [db EXCEPT ![h] = applyEvent(@, e)]
       /\ seen' = [seen EXCEPT ![h] = @ \cup {<<p, e.hlc>>}]
       /\ \/ /\ ~Wins(db[h][e.row], e.ver)
             /\ \E k \in Counts(Only(p, <<Ack(e.hlc)>>)) :
                    Offer(h, conn, Rest(h, p), cur, Only(p, <<Ack(e.hlc)>>), k)
             /\ UNCHANGED <<log, wall>>
          \/ /\ Wins(db[h][e.row], e.ver)
             /\ \E now \in Readings(h) : \E n \in Stamps(log[h], now, e.hlc) :
                LET fl  == Flush([e EXCEPT !.hlc = n])
                    out == [fl EXCEPT ![p] = <<Ack(e.hlc)>> \o @]
                IN  /\ wall' = [wall EXCEPT ![h] = now]
                    /\ log' = [log EXCEPT ![h] = createChangeLogEntry(@, n, e.row, e.site, e.ver)]
                    /\ \E k \in Counts(out) : Offer(h, conn, Rest(h, p), cur, out, k)
    /\ UNCHANGED <<joined, conn, spoke, streams, written>>

\* handleChangelogAck
ReceiveAck(h, p) ==
    /\ Next1(h, p, "changelog_ack")
    /\ chan' = Rest(h, p)
    /\ cursor' = [cursor EXCEPT ![<<h, p>>] = [@ EXCEPT !.sent = Frame(h, p).cursor,
                                                       !.confirmed = Frame(h, p).cursor]]
    /\ UNCHANGED <<disk, joined, conn, pressed, spoke, streams, wall, written, faults, seen>>

---------------------------------------------------------------------------
(* Connections *)

\* The open handlers: addPeer, on the hub seedNewPeer (which only makes sure of
\* the sync_state row), and drainChangelog.  A spoke's first open also starts
\* the initial backfill, whose request follows the drain.
Open(h, p) ==
    LET c    == conn \cup {<<h, p>>}
        init == h # Hub /\ h \notin opened /\ backfill[h].phase = "idle"
    IN
    /\ <<h, p>> \in Link \ conn
    /\ h # Hub => <<p, h>> \in conn
    /\ conn' = c
    /\ joined' = IF h = Hub THEN joined \cup {p} ELSE joined
    /\ opened' = IF h = Hub THEN opened ELSE opened \cup {h}
    /\ \E s \in Ascending(Missed(h, p, cursor)) :
        LET ask == IF init THEN <<ConsistencyRequest(backfill[h])>> ELSE <<>>
            out == Only(p, [i \in DOMAIN s |-> Push(s[i])] \o ask)
        IN  \E k \in Counts(out) :
            /\ Offer(h, c, chan, cursor, out, k)
            /\ backfill' = IF init /\ k[p] = Len(out[p])
                           THEN [backfill EXCEPT ![h] = [@ EXCEPT !.phase = "asked", !.first = TRUE]]
                           ELSE backfill
    /\ UNCHANGED <<disk, streams, wall, written, seen>>

\* What the loss of the connections of the spokes in S leaves behind.
Drop(S) ==
    LET gone == {l \in Link : {l[1], l[2]} \cap S # {}} IN
    /\ conn' = conn \ gone
    /\ pressed' = pressed \ gone
    /\ chan' = [l \in Link |-> IF l \in gone THEN <<>> ELSE chan[l]]
    /\ paging' = [p \in Spoke |-> IF p \in S THEN [paging[p] EXCEPT !.left = {}] ELSE paging[p]]
    /\ pulling' = [p \in Spoke |-> IF p \in S THEN [pulling[p] EXCEPT !.left = {}] ELSE pulling[p]]
    /\ parked' = [p \in Spoke |-> IF p \in S THEN <<>> ELSE parked[p]]
    /\ faults < MaxFaults
    /\ faults' = faults + 1

\* A connection dies with what its two sockets still held.
Disconnect(p) ==
    /\ <<Hub, p>> \in conn \/ <<p, Hub>> \in conn
    /\ Drop({p})
    /\ UNCHANGED <<disk, cursor, joined, spoke, wall, written, seen>>

\* The process on h dies and boots again.
Restart(h) ==
    /\ Drop(IF h = Hub THEN Spoke ELSE {h})
    /\ opened' = opened \ {h}
    /\ backfill' = IF h = Hub THEN backfill
                   ELSE [backfill EXCEPT ![h] = [Idle EXCEPT !.rid = backfill[h].rid + 1]]
    /\ UNCHANGED <<disk, cursor, joined, wall, written, seen>>

\* Mutant: the streams are not resumed.
ClearPressureOnly(h, p) ==
    /\ <<h, p>> \in pressed
    /\ pressed' = pressed \ {<<h, p>>}
    /\ UNCHANGED <<disk, cursor, joined, conn, chan, spoke, streams, wall, written, faults, seen>>

\* The buffer has emptied.  The server's drain handler resumes the streams; the
\* client's recoverFromBackpressure re-drives the spool (module WorkSpool).
\* Neither drains the changelog.
ClearPressure(h, p) ==
    /\ <<h, p>> \in pressed
    /\ pressed' = pressed \ {<<h, p>>}
    /\ IF h = Hub
       THEN /\ chan' = [chan EXCEPT ![<<h, p>>] = @ \o parked[p]]
            /\ parked' = [parked EXCEPT ![p] = <<>>]
       ELSE UNCHANGED <<chan, parked>>
    /\ UNCHANGED <<disk, cursor, joined, conn, spoke, paging, pulling, wall, written, faults, seen>>

---------------------------------------------------------------------------
(* Backfill: the spoke asks for the hub's row states, pushes what the hub     *)
(* lacks and pulls what it lacks itself, of the tables compared.              *)

Connected(p) == <<p, Hub>> \in conn

\* runBackfill from its timers: the running guard, then requestConsistency,
\* which asks for the tables an earlier, timed-out exchange did not reach: of
\* SYNCED_TABLES here, which lacks agents, connector_handles, webhooks, rss_feeds
\* and client_sessions.
StartBackfill(p) ==
    LET out == Only(Hub, <<ConsistencyRequest(backfill[p])>>) IN
    /\ Connected(p) /\ backfill[p].phase = "idle"
    /\ \E k \in Counts(out) :
        /\ Offer(p, conn, chan, cursor, out, k)
        /\ backfill' = IF k[Hub] = 1
                       THEN [backfill EXCEPT ![p] = [@ EXCEPT !.phase = "asked", !.first = FALSE]]
                       ELSE backfill
    /\ UNCHANGED <<disk, joined, conn, opened, streams, wall, written, seen>>

\* One image of a stream: sent, or parked until the socket drains.
SendImage(p, f, ch) ==
    IF <<Hub, p>> \in pressed
    THEN /\ parked' = [parked EXCEPT ![p] = Append(@, f)]
         /\ chan' = ch
         /\ UNCHANGED <<cursor, pressed, faults>>
    ELSE /\ \E k \in Counts(Only(p, <<f>>)) : Offer(Hub, conn, ch, cursor, Only(p, <<f>>), k)
         /\ UNCHANGED parked

IsParked(p, kind) == \E i \in DOMAIN parked[p] : parked[p][i].type = kind

\* streamConsistencyPages: the next page of the rows q still owes.
SendPage(p, q, ch) ==
    \E r \in q.left :
        /\ SendImage(p, Image("consistency_response", q.rid, r, q.left = {r}), ch)
        /\ paging' = [paging EXCEPT ![p] = [q EXCEPT !.left = @ \ {r}]]
        /\ UNCHANGED <<disk, joined, conn, spoke, pulling, wall, written, seen>>

\* handleConsistencyRequest keeps the tables of its own list and sends the first
\* page at once.
ReceiveConsistencyRequest(p) ==
    /\ Next1(Hub, p, "consistency_request")
    /\ SendPage(p, [rid |-> Frame(Hub, p).rid, left |-> Frame(Hub, p).left \cap Compared],
                Rest(Hub, p))

\* Each further page follows in a turn of its own.
StreamPage(p) ==
    /\ <<Hub, p>> \in conn /\ ~IsParked(p, "consistency_response")
    /\ SendPage(p, paging[p], chan)

\* handleConsistencyResponse: pages of a request that is no longer pending are
\* dropped; the last page completes the exchange and the diff begins.
ReceivePage(p) ==
    LET f == Frame(p, Hub)
        b == backfill[p]
    IN
    /\ Next1(p, Hub, "consistency_response")
    /\ chan' = Rest(p, Hub)
    /\ backfill' =
        IF b.phase = "asked" /\ f.rid = b.rid
        THEN [backfill EXCEPT ![p] = [b EXCEPT !.got = [@ EXCEPT ![f.row] = f.ver],
                                               !.left = IF f.last THEN Compared ELSE @ \ {f.row},
                                               !.phase = IF f.last THEN "diff" ELSE @]]
        ELSE backfill
    /\ UNCHANGED <<disk, cursor, joined, conn, pressed, opened, streams, wall, written, faults, seen>>

\* One table of executeBackfill's loop: the local row as it is now against the
\* hub's as it was when its page left.  A push is a fresh change_log entry of
\* this site.
DiffRow(p, r) ==
    LET b    == backfill[p]
        mine == db[p][r]
    IN
    /\ b.phase = "diff" /\ r \in b.left
    /\ backfill' = [backfill EXCEPT ![p] =
            [b EXCEPT !.left = @ \ {r},
                      !.pulls = IF MustPull(mine, b.got[r]) THEN @ \cup {r} ELSE @]]
    /\ \/ /\ MustPush(mine, b.got[r])
          /\ \E now \in Readings(p) : \E n \in Stamps(log[p], now, Zero) :
             LET out == Flush([hlc |-> n, row |-> r, site |-> p, ver |-> mine]) IN
             /\ wall' = [wall EXCEPT ![p] = now]
             /\ log' = [log EXCEPT ![p] = createChangeLogEntry(@, n, r, p, mine)]
             /\ \E k \in Counts(out) : Offer(p, conn, chan, cursor, out, k)
       \/ /\ ~MustPush(mine, b.got[r])
          /\ UNCHANGED <<log, wall, cursor, pressed, chan, faults>>
    /\ UNCHANGED <<db, joined, conn, opened, streams, written, seen>>

\* The backfill of p ends; the next one starts from the first table.
Done(p) == [Idle EXCEPT !.rid = backfill[p].rid]

\* sendRowPullAck, of an initial backfill only and not checked.
FinalAck(p) == Only(Hub, IF backfill[p].first THEN <<RowPullAck>> ELSE <<>>)

\* Every table was compared.  Nothing to pull: done.  Otherwise requestRowPull,
\* whose refusal fails the backfill.
EndDiff(p) ==
    LET b   == backfill[p]
        out == IF b.pulls = {} THEN FinalAck(p) ELSE Only(Hub, <<RowPullRequest(b)>>)
    IN
    /\ b.phase = "diff" /\ b.left = {}
    /\ \E k \in Counts(out) :
        /\ Offer(p, conn, chan, cursor, out, k)
        /\ backfill' = [backfill EXCEPT ![p] =
                IF b.pulls # {} /\ k[Hub] = 1 THEN [b EXCEPT !.phase = "pulling"] ELSE Done(p)]
    /\ UNCHANGED <<disk, joined, conn, opened, streams, wall, written, seen>>

\* streamRowPullPages: the next row of the rows q still owes, as it is now.
SendRow(p, q, ch) ==
    \E r \in q.left :
        /\ SendImage(p, Image("row_pull_response", q.rid, r, q.left = {r}), ch)
        /\ pulling' = [pulling EXCEPT ![p] = [q EXCEPT !.left = @ \ {r}]]
        /\ UNCHANGED <<disk, joined, conn, spoke, paging, wall, written, seen>>

\* handleRowPullRequest
ReceiveRowPullRequest(p) ==
    /\ Next1(Hub, p, "row_pull_request")
    /\ SendRow(p, [rid |-> Frame(Hub, p).rid, left |-> Frame(Hub, p).left], Rest(Hub, p))

StreamRow(p) ==
    /\ <<Hub, p>> \in conn /\ ~IsParked(p, "row_pull_response")
    /\ SendRow(p, pulling[p], chan)

\* handleRowPullResponse: rows are applied whether or not their request is
\* still pending, and are not logged.
ReceiveRow(p) ==
    LET f    == Frame(p, Hub)
        over == f.last /\ backfill[p].phase = "pulling" /\ f.rid = backfill[p].rid
        out  == IF over THEN FinalAck(p) ELSE Nothing
    IN
    /\ Next1(p, Hub, "row_pull_response")
    /\ db' = [db EXCEPT ![p] = applySnapshotRow(@, f.row, f.ver)]
    /\ backfill' = IF over THEN [backfill EXCEPT ![p] = Done(p)] ELSE backfill
    /\ \E k \in Counts(out) : Offer(p, conn, Rest(p, Hub), cursor, out, k)
    /\ UNCHANGED <<log, joined, conn, opened, streams, wall, written, seen>>

\* handleRowPullAck: both cursors jump to the hub's wall clock, then a drain.
ReceiveRowPullAck(p) ==
    /\ Next1(Hub, p, "row_pull_ack")
    /\ \E now \in Readings(Hub) :
        LET n   == generateHlc(now, Zero)
            cur == [cursor EXCEPT ![<<Hub, p>>] = [@ EXCEPT !.received = n, !.sent = n]]
        IN
        /\ wall' = [wall EXCEPT ![Hub] = now]
        /\ \E s \in Ascending(Missed(Hub, p, cur)) :
           LET out == Only(p, [i \in DOMAIN s |-> Push(s[i])]) IN
           \E k \in Counts(out) : Offer(Hub, conn, Rest(Hub, p), cur, out, k)
    /\ UNCHANGED <<disk, joined, conn, spoke, streams, written, seen>>

\* No frame of p's pending request can arrive any more.
Orphaned(p) ==
    /\ paging[p].left = {} /\ pulling[p].left = {} /\ parked[p] = <<>>
    /\ \A i \in DOMAIN chan[<<Hub, p>>] :
            chan[<<Hub, p>>][i].type \in {"changelog_push", "changelog_ack"}
    /\ \A i \in DOMAIN chan[<<p, Hub>>] :
            chan[<<p, Hub>>][i].type \notin {"consistency_request", "row_pull_request"}

\* The five-minute timers.  What a consistency exchange collected is kept for
\* the next request; a row pull starts over.
Timeout(p) ==
    LET b == backfill[p] IN
    /\ b.phase \in {"asked", "pulling"}
    /\ \/ Orphaned(p) /\ UNCHANGED faults
       \/ ~Orphaned(p) /\ faults < MaxFaults /\ faults' = faults + 1
    /\ backfill' = [backfill EXCEPT ![p] =
            IF b.phase = "asked" THEN [b EXCEPT !.phase = "idle", !.rid = @ + 1]
            ELSE [Idle EXCEPT !.rid = b.rid + 1]]
    /\ UNCHANGED <<disk, cursor, joined, conn, pressed, chan, opened, streams, wall, written, seen>>

---------------------------------------------------------------------------
(* Pruning *)

\* Peers with a sync_state row on h.
Tracked(h) == IF h = Hub THEN joined ELSE {Hub}

\* A turn of startPruningLoop.
Prune(h) ==
    LET L == pruneChangeLog(log[h], {cursor[<<h, p>>].received : p \in Tracked(h)}) IN
    /\ L # log[h]
    /\ log' = [log EXCEPT ![h] = L]
    /\ UNCHANGED <<db, cursor, joined, conn, pressed, chan, spoke, streams, wall, written, faults, seen>>

---------------------------------------------------------------------------
Changelog(h, p) == ReceivePush(h, p) \/ ReceiveAck(h, p)

HubServes(p) ==
    \/ ReceiveConsistencyRequest(p) \/ StreamPage(p)
    \/ ReceiveRowPullRequest(p) \/ StreamRow(p) \/ ReceiveRowPullAck(p)

SpokeBackfills(p) ==
    \/ StartBackfill(p) \/ ReceivePage(p) \/ (\E r \in Row : DiffRow(p, r))
    \/ EndDiff(p) \/ ReceiveRow(p) \/ Timeout(p)

Next ==
    \/ \E h \in Site, r \in Row : Write(h, r)
    \/ \E l \in Link : \/ Changelog(l[1], l[2]) \/ Open(l[1], l[2]) \/ ClearPressure(l[1], l[2])
    \/ \E p \in Spoke : Disconnect(p) \/ HubServes(p) \/ SpokeBackfills(p)
    \/ \E h \in Site : Restart(h) \/ Prune(h)

Spec == Init /\ [][Next]_vars

\* Handlers run, streams advance, timers fire and clients reconnect for ever.
Fairness ==
    /\ \A l \in Link : /\ WF_vars(Changelog(l[1], l[2])) /\ WF_vars(Open(l[1], l[2]))
                       /\ WF_vars(ClearPressure(l[1], l[2]))
    /\ \A p \in Spoke : WF_vars(HubServes(p)) /\ WF_vars(SpokeBackfills(p))

FairSpec == Spec /\ Fairness

---------------------------------------------------------------------------
(* Properties *)

FrameType ==
    [type : {"changelog_push"}, entry : Entry]
    \cup [type : {"changelog_ack"}, cursor : Stamp]
    \cup [type : {"consistency_request", "row_pull_request"}, rid : Nat, left : SUBSET Row]
    \cup [type : {"consistency_response", "row_pull_response"}, rid : Nat, row : Row,
          ver : Version, last : BOOLEAN]
    \cup [type : {"row_pull_ack"}]

\* The variables have their types; a latch belongs to an open connection, and a
\* stream frame is parked only while the latch that refused it is set.
TypeOK ==
    /\ db \in [Site -> [Row -> Version]]
    /\ log \in [Site -> SUBSET Entry]
    /\ cursor \in [Link -> Cursor]
    /\ joined \subseteq Spoke /\ opened \subseteq Spoke
    /\ conn \subseteq Link /\ pressed \subseteq conn
    /\ chan \in [Link -> Seq(FrameType)]
    /\ backfill \in [Spoke -> Backfill]
    /\ paging \in [Spoke -> Request] /\ pulling \in [Spoke -> Request]
    /\ parked \in [Spoke -> Seq(FrameType)]
    /\ \A p \in Spoke : parked[p] # <<>> => <<Hub, p>> \in pressed
    /\ written \subseteq [row : Row, ver : Version]
    /\ wall \in [Site -> Nat] /\ faults \in Nat
    /\ seen \in [Site -> SUBSET (Site \X Stamp)]

\* The newest entry a host logged for a row is the version the host holds,
\* unless a pull, which is not logged, has since replaced it by a newer one.  So
\* a peer that replays the log in the order drainChangelog sends it ends with
\* the current row.
LogEndsInTable ==
    \A h \in Site : \A e \in log[h] :
        Newest(log[h], e.row, e) =>
            \/ db[h][e.row] = e.ver
            \/ h # Hub /\ db[h][e.row].mod > e.ver.mod

\* last_confirmed is a true acknowledgement watermark: it only ever names a
\* stamp of this host that the peer has handled.
ConfirmedWasHandled ==
    \A l \in Link : cursor[l].confirmed # Zero => <<l[1], cursor[l].confirmed>> \in seen[l[2]]

\* Replication never replaces a row by one that is not newer: whatever path a
\* version takes - push, echo, backfill, stale page, repeated pull - only a local
\* write may do that.
OnlyNewerReplaces ==
    [][\A h \in Site, r \in Row :
          db'[h][r] # db[h][r] /\ written' = written
              => db[h][r] = Missing \/ db'[h][r].mod > db[h][r].mod]_vars

\* Once faults and writes stop, every host ends with the same rows in the tables
\* a backfill compares, whatever was refused, lost or pruned on the way.  A row
\* of the other synced tables has the change log alone, which repairs neither a
\* refused flush, nor a lost frame, nor what was pruned.
Converges == <>[](\A h \in Site, r \in Compared : db[h][r] = db[Hub][r])

============================================================================
