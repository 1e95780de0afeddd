------------------------- MODULE ReplicationProofs -------------------------
(***************************************************************************)
(* Theorems about replication, for every finite set of hosts, any rows and  *)
(* any number of writes, lost connections, restarts and full sockets.       *)
(***************************************************************************)
EXTENDS Replication, Orders, FiniteSetTheorems

---------------------------------------------------------------------------
(* The inductive invariants *)

\* The frames of a sequence.
Frames(s) == {s[i] : i \in DOMAIN s}

\* What a frame from l[1] to l[2] tells is true: an acknowledgement names a push
\* its sender has handled (sn is seen), and a push carries a version.
Good(sn, l, f) ==
    /\ f.type = "changelog_ack" => <<l[2], f.cursor>> \in sn[l[1]]
    /\ f.type = "changelog_push" => f.entry.ver # Missing

Streamed(f) == f.type \in {"consistency_response", "row_pull_response"}

\* The sockets: what they carry is true, the latches guard open connections, and
\* what was confirmed was handled.
SendInv ==
    /\ chan \in [Link -> Seq(FrameType)] /\ cursor \in [Link -> Cursor]
    /\ pressed \subseteq conn /\ faults \in Nat
    /\ parked \in [Spoke -> Seq(FrameType)]
    /\ \A p \in Spoke : parked[p] # <<>> => <<Hub, p>> \in pressed
    /\ \A p \in Spoke : \A f \in Frames(parked[p]) : Streamed(f)
    /\ \A l \in Link : \A f \in Frames(chan[l]) : Good(seen, l, f)
    /\ ConfirmedWasHandled

\* A log is finite and every entry carries a version.
LogOK(L) == IsFiniteSet(L) /\ \A e \in L : e.ver # Missing

\* Tables, logs and what the processes remember have their types; the values
\* written are numbered.
HostInv ==
    /\ db \in [Site -> [Row -> Version]]
    /\ log \in [Site -> SUBSET Entry] /\ \A h \in Site : LogOK(log[h])
    /\ joined \subseteq Spoke /\ opened \subseteq Spoke /\ conn \subseteq Link
    /\ backfill \in [Spoke -> Backfill]
    /\ paging \in [Spoke -> Request] /\ pulling \in [Spoke -> Request]
    /\ written \subseteq [row : Row, ver : Version] /\ IsFiniteSet(written)
    /\ \A w \in written : w.ver.val <= Cardinality(written)
    /\ wall \in [Site -> Nat]
    /\ seen \in [Site -> SUBSET (Site \X Stamp)]

WireInv == HostInv /\ SendInv

---------------------------------------------------------------------------
(* Links, frames and sequences *)

LEMMA LinkParts ==
    ASSUME NEW l \in Link
    PROVE  /\ l[1] \in Site /\ l[2] \in Site /\ l[1] # l[2] /\ l = <<l[1], l[2]>>
           /\ <<l[2], l[1]>> \in Link
BY DEF Link

LEMMA SpokeLinks ==
    ASSUME NEW p \in Spoke
    PROVE  /\ p \in Site /\ Hub \in Site /\ p # Hub
           /\ <<Hub, p>> \in Link /\ <<p, Hub>> \in Link
BY ReplicationAssumption DEF Spoke, Link

\* A frame has the fields of its type.
LEMMA FrameFields ==
    ASSUME NEW f \in FrameType
    PROVE  /\ f.type = "changelog_push" => f.entry \in Entry
           /\ f.type = "changelog_ack" => f.cursor \in Stamp
           /\ f.type \in {"consistency_request", "row_pull_request"} =>
                  f.rid \in Nat /\ f.left \in SUBSET Row
           /\ Streamed(f) => /\ f.rid \in Nat /\ f.row \in Row /\ f.ver \in Version
                             /\ f.last \in BOOLEAN
<1>1. f.type = "changelog_push" => f.entry \in Entry
  BY DEF FrameType
<1>2. f.type = "changelog_ack" => f.cursor \in Stamp
  BY DEF FrameType
<1>3. f.type \in {"consistency_request", "row_pull_request"} =>
          f.rid \in Nat /\ f.left \in SUBSET Row
  BY DEF FrameType
<1>4. Streamed(f) => f.rid \in Nat /\ f.row \in Row /\ f.ver \in Version /\ f.last \in BOOLEAN
  BY DEF FrameType, Streamed
<1> QED BY <1>1, <1>2, <1>3, <1>4

\* The frames the handlers build.
LEMMA FramesMade ==
    ASSUME db \in [Site -> [Row -> Version]]
    PROVE  /\ \A e \in Entry : Push(e) \in FrameType
           /\ \A n \in Stamp : Ack(n) \in FrameType
           /\ \A b \in Backfill : ConsistencyRequest(b) \in FrameType /\ RowPullRequest(b) \in FrameType
           /\ \A kind \in {"consistency_response", "row_pull_response"}, rid \in Nat, r \in Row,
                 last \in BOOLEAN : Image(kind, rid, r, last) \in FrameType
           /\ RowPullAck \in FrameType
<1>1. \A e \in Entry : Push(e) \in FrameType
  BY DEF FrameType, Push
<1>2. \A n \in Stamp : Ack(n) \in FrameType
  BY DEF FrameType, Ack
<1>3. \A b \in Backfill : ConsistencyRequest(b) \in FrameType /\ RowPullRequest(b) \in FrameType
  <2> SUFFICES ASSUME NEW b \in Backfill
               PROVE  ConsistencyRequest(b) \in FrameType /\ RowPullRequest(b) \in FrameType
    OBVIOUS
  <2>1. b.rid \in Nat /\ b.left \in SUBSET Row /\ b.pulls \in SUBSET Row
    BY DEF Backfill
  <2> QED BY <2>1 DEF FrameType, ConsistencyRequest, RowPullRequest
<1>4. \A kind \in {"consistency_response", "row_pull_response"}, rid \in Nat, r \in Row,
         last \in BOOLEAN : Image(kind, rid, r, last) \in FrameType
  <2> SUFFICES ASSUME NEW kind \in {"consistency_response", "row_pull_response"}, NEW rid \in Nat,
                      NEW r \in Row, NEW last \in BOOLEAN
               PROVE  Image(kind, rid, r, last) \in FrameType
    OBVIOUS
  <2>1. db[Hub][r] \in Version
    BY ReplicationAssumption
  <2> QED BY <2>1 DEF FrameType, Image
<1>5. RowPullAck \in FrameType
  BY DEF FrameType, RowPullAck
<1> QED BY <1>1, <1>2, <1>3, <1>4, <1>5

\* The frames of composed sequences are frames of their parts.
LEMMA FramesConcat ==
    ASSUME NEW T, NEW s \in Seq(T), NEW t \in Seq(T)
    PROVE  s \o t \in Seq(T) /\ Frames(s \o t) \subseteq Frames(s) \cup Frames(t)
BY DEF Frames

LEMMA FramesAppend ==
    ASSUME NEW T, NEW s \in Seq(T), NEW f \in T
    PROVE  Append(s, f) \in Seq(T) /\ Frames(Append(s, f)) \subseteq Frames(s) \cup {f}
BY DEF Frames

LEMMA FramesOne ==
    ASSUME NEW T, NEW f \in T
    PROVE  <<f>> \in Seq(T) /\ Frames(<<f>>) = {f}
BY DEF Frames

LEMMA FramesNone ==
    ASSUME NEW T
    PROVE  <<>> \in Seq(T) /\ Frames(<<>>) = {}
BY DEF Frames

LEMMA FramesTail ==
    ASSUME NEW T, NEW s \in Seq(T), s # <<>>
    PROVE  /\ Tail(s) \in Seq(T) /\ Frames(Tail(s)) \subseteq Frames(s)
           /\ Head(s) \in Frames(s) /\ Head(s) \in T
BY DEF Frames

\* So are the first k of them.
LEMMA FramesTaken ==
    ASSUME NEW T, NEW s \in Seq(T), NEW k \in Nat, k <= Len(s)
    PROVE  SubSeq(s, 1, k) \in Seq(T) /\ Frames(SubSeq(s, 1, k)) \subseteq Frames(s)
BY DEF Frames
---------------------------------------------------------------------------
(* Sending *)

\* Sending moves the optimistic watermark only.
LEMMA SentCursor ==
    ASSUME NEW cur \in Cursor, NEW s \in Seq(FrameType), NEW k
    PROVE  /\ Sent(cur, s, k) \in Cursor
           /\ Sent(cur, s, k).confirmed = cur.confirmed
<1>1. CASE \E i \in LastPush(s) : i <= k
  <2> DEFINE j == CHOOSE i \in LastPush(s) : TRUE
  <2>1. j \in LastPush(s)
    BY <1>1
  <2>2. s[j] \in FrameType /\ s[j].type = "changelog_push"
    BY <2>1 DEF LastPush
  <2>3. s[j].entry.hlc \in Stamp
    BY <2>2, FrameFields DEF Entry
  <2>4. Sent(cur, s, k) = [cur EXCEPT !.sent = s[j].entry.hlc]
    BY <1>1 DEF Sent
  <2> HIDE DEF j
  <2> QED BY <2>3, <2>4 DEF Cursor
<1>2. CASE ~ \E i \in LastPush(s) : i <= k
  BY <1>2 DEF Sent
<1> QED BY <1>1, <1>2

\* What h's offer of the frames out does to the channels, the latches and the
\* cursors.
LEMMA OfferEffect ==
    ASSUME NEW h \in Site, NEW c \in SUBSET Link, NEW ch \in [Link -> Seq(FrameType)],
           NEW cur \in [Link -> Cursor], NEW out \in [Site -> Seq(FrameType)],
           NEW k \in Counts(out), Offer(h, c, ch, cur, out, k),
           pressed \subseteq c, faults \in Nat
    PROVE  /\ chan' \in [Link -> Seq(FrameType)] /\ cursor' \in [Link -> Cursor]
           /\ pressed \subseteq pressed' /\ pressed' \subseteq c /\ faults' \in Nat
           /\ \A l \in Link : cursor'[l].confirmed = cur[l].confirmed
           /\ \A l \in Link : l[1] # h => chan'[l] = ch[l]
           /\ \A l \in Link : Frames(chan'[l]) \subseteq Frames(ch[l]) \cup Frames(out[l[2]])
<1> DEFINE P == {p \in Site : <<h, p>> \in c /\ out[p] # <<>>}
<1>1. PICK latch \in SUBSET P :
        /\ \A p \in Site : IF p \in P THEN Takes(h, p, ch[<<h, p>>], Len(out[p]), k[p], p \in latch)
                               ELSE k[p] = 0
        /\ pressed' = pressed \cup {<<h, p>> : p \in latch}
        /\ faults' = faults + Cardinality(latch)
  BY DEF Offer
<1>2. /\ chan' = [l \in Link |-> IF l[1] = h THEN ch[l] \o SubSeq(out[l[2]], 1, k[l[2]]) ELSE ch[l]]
      /\ cursor' = [l \in Link |-> IF l[1] = h THEN Sent(cur[l], out[l[2]], k[l[2]]) ELSE cur[l]]
  BY DEF Offer
<1>3. \A p \in Site : Len(out[p]) \in Nat /\ k[p] \in Nat
  BY DEF Counts
<1>4. \A p \in Site : k[p] <= Len(out[p])
  <2> SUFFICES ASSUME NEW p \in Site PROVE k[p] <= Len(out[p])
    OBVIOUS
  <2>1. CASE p \in P
    <3>1. k[p] = 0 \/ k[p] = Len(out[p]) \/ k[p] < Len(out[p])
      BY <1>1, <2>1 DEF Takes
    <3> QED BY <1>3, <3>1
  <2>2. CASE p \notin P
    BY <1>1, <1>3, <2>2
  <2> QED BY <2>1, <2>2
<1>5. pressed \subseteq pressed' /\ pressed' \subseteq c
  BY <1>1
<1>6. faults' \in Nat
  <2>1. latch \subseteq Site /\ IsFiniteSet(Site)
    BY ReplicationAssumption
  <2>2. IsFiniteSet(latch)
    BY <2>1, FS_Subset
  <2>3. Cardinality(latch) \in Nat
    BY <2>2, FS_CardinalityType
  <2> QED BY <1>1, <2>3
<1> HIDE DEF P
<1>7. \A l \in Link : /\ SubSeq(out[l[2]], 1, k[l[2]]) \in Seq(FrameType)
                      /\ Frames(SubSeq(out[l[2]], 1, k[l[2]])) \subseteq Frames(out[l[2]])
  <2> SUFFICES ASSUME NEW l \in Link
               PROVE  /\ SubSeq(out[l[2]], 1, k[l[2]]) \in Seq(FrameType)
                      /\ Frames(SubSeq(out[l[2]], 1, k[l[2]])) \subseteq Frames(out[l[2]])
    OBVIOUS
  <2>1. l[2] \in Site
    BY LinkParts
  <2>2. out[l[2]] \in Seq(FrameType) /\ k[l[2]] \in Nat /\ k[l[2]] <= Len(out[l[2]])
    BY <1>3, <1>4, <2>1
  <2> QED BY <2>2, FramesTaken
<1>8. \A l \in Link : /\ chan'[l] \in Seq(FrameType)
                      /\ l[1] # h => chan'[l] = ch[l]
                      /\ Frames(chan'[l]) \subseteq Frames(ch[l]) \cup Frames(out[l[2]])
  <2> SUFFICES ASSUME NEW l \in Link
               PROVE  /\ chan'[l] \in Seq(FrameType)
                      /\ l[1] # h => chan'[l] = ch[l]
                      /\ Frames(chan'[l]) \subseteq Frames(ch[l]) \cup Frames(out[l[2]])
    OBVIOUS
  <2>1. CASE l[1] # h
    BY <1>2, <2>1
  <2>2. CASE l[1] = h
    <3>1. chan'[l] = ch[l] \o SubSeq(out[l[2]], 1, k[l[2]])
      BY <1>2, <2>2
    <3> DEFINE t == SubSeq(out[l[2]], 1, k[l[2]])
    <3>2. t \in Seq(FrameType) /\ Frames(t) \subseteq Frames(out[l[2]]) /\ chan'[l] = ch[l] \o t
      BY <1>7, <3>1
    <3> HIDE DEF t
    <3>3. chan'[l] \in Seq(FrameType) /\ Frames(chan'[l]) \subseteq Frames(ch[l]) \cup Frames(t)
      BY <3>2, FramesConcat
    <3> QED BY <2>2, <3>2, <3>3
  <2> QED BY <2>1, <2>2
<1>9. \A l \in Link : cursor'[l] \in Cursor /\ cursor'[l].confirmed = cur[l].confirmed
  <2> SUFFICES ASSUME NEW l \in Link
               PROVE  cursor'[l] \in Cursor /\ cursor'[l].confirmed = cur[l].confirmed
    OBVIOUS
  <2>1. out[l[2]] \in Seq(FrameType)
    BY LinkParts
  <2> QED BY <1>2, <2>1, SentCursor
<1>10. chan' \in [Link -> Seq(FrameType)] /\ cursor' \in [Link -> Cursor]
  BY <1>2, <1>8, <1>9
<1> QED BY <1>5, <1>6, <1>8, <1>9, <1>10
\* Channels without some frames, and cursors with the same confirmations.
Fewer(ch, cur) ==
    /\ ch \in [Link -> Seq(FrameType)] /\ cur \in [Link -> Cursor]
    /\ \A l \in Link : Frames(ch[l]) \subseteq Frames(chan[l])
    /\ \A l \in Link : cur[l].confirmed = cursor[l].confirmed

\* Frames for the peers of h that are true once the step is taken.
Truthful(h, out) ==
    /\ out \in [Site -> Seq(FrameType)]
    /\ \A l \in Link : l[1] = h => \A f \in Frames(out[l[2]]) : Good(seen', l, f)

SeenGrows == \A g \in Site : seen[g] \subseteq seen'[g]

\* An offer of true frames keeps the sockets true.
LEMMA OfferSend ==
    ASSUME SendInv, NEW h \in Site, NEW c \in SUBSET Link, pressed \subseteq c, conn' = c,
           NEW ch, NEW cur, Fewer(ch, cur), NEW out, Truthful(h, out),
           NEW k \in Counts(out), Offer(h, c, ch, cur, out, k), SeenGrows, parked' = parked
    PROVE  SendInv'
<1> USE DEF Fewer, Truthful, SeenGrows
<1>1. faults \in Nat
  BY DEF SendInv
<1>2. /\ chan' \in [Link -> Seq(FrameType)] /\ cursor' \in [Link -> Cursor]
      /\ pressed \subseteq pressed' /\ pressed' \subseteq c /\ faults' \in Nat
      /\ \A l \in Link : cursor'[l].confirmed = cur[l].confirmed
      /\ \A l \in Link : l[1] # h => chan'[l] = ch[l]
      /\ \A l \in Link : Frames(chan'[l]) \subseteq Frames(ch[l]) \cup Frames(out[l[2]])
  BY <1>1, OfferEffect, Zenon
<1>3. /\ chan' \in [Link -> Seq(FrameType)] /\ cursor' \in [Link -> Cursor]
      /\ pressed \subseteq pressed' /\ pressed' \subseteq c /\ faults' \in Nat
  BY <1>2
<1>4. \A l \in Link : cursor'[l].confirmed = cur[l].confirmed
  BY <1>2
<1>5. \A l \in Link : /\ l[1] # h => chan'[l] = ch[l]
                      /\ Frames(chan'[l]) \subseteq Frames(ch[l]) \cup Frames(out[l[2]])
  BY <1>2
<1>6. \A l \in Link : \A f \in Frames(chan[l]) : Good(seen', l, f)
  BY LinkParts DEF SendInv, Good
<1>7. \A l \in Link : \A f \in Frames(chan'[l]) : Good(seen', l, f)
  <2> SUFFICES ASSUME NEW l \in Link, NEW f \in Frames(chan'[l])
               PROVE  Good(seen', l, f)
    OBVIOUS
  <2>1. CASE l[1] # h
    <3>1. f \in Frames(chan[l])
      BY <1>5, <2>1
    <3> QED BY <1>6, <3>1
  <2>2. CASE l[1] = h
    <3>1. f \in Frames(chan[l]) \/ f \in Frames(out[l[2]])
      BY <1>5
    <3> QED BY <1>6, <2>2, <3>1
  <2> QED BY <2>1, <2>2
<1>8. ConfirmedWasHandled'
  <2> SUFFICES ASSUME NEW l \in Link, cursor'[l].confirmed # Zero
               PROVE  <<l[1], cursor'[l].confirmed>> \in seen'[l[2]]
    BY DEF ConfirmedWasHandled
  <2>1. cursor'[l].confirmed = cursor[l].confirmed
    BY <1>4
  <2>2. <<l[1], cursor[l].confirmed>> \in seen[l[2]]
    BY <2>1 DEF SendInv, ConfirmedWasHandled
  <2> QED BY <2>1, <2>2, LinkParts
<1>9. /\ parked' \in [Spoke -> Seq(FrameType)]
      /\ \A p \in Spoke : parked'[p] # <<>> => <<Hub, p>> \in pressed'
      /\ \A p \in Spoke : \A f \in Frames(parked'[p]) : Streamed(f)
  BY <1>3 DEF SendInv
<1> QED BY <1>3, <1>7, <1>8, <1>9 DEF SendInv

\* The frame h takes from p, and the channels without it.
LEMMA Taking ==
    ASSUME SendInv, NEW h, NEW p, NEW type, Next1(h, p, type)
    PROVE  /\ h \in Site /\ p \in Site /\ <<h, p>> \in Link /\ <<p, h>> \in Link /\ h # p
           /\ Frame(h, p) \in FrameType /\ Frame(h, p).type = type
           /\ Frame(h, p) \in Frames(chan[<<p, h>>]) /\ Good(seen, <<p, h>>, Frame(h, p))
           /\ Rest(h, p) \in [Link -> Seq(FrameType)]
           /\ \A l \in Link : Frames(Rest(h, p)[l]) \subseteq Frames(chan[l])
<1>1. /\ <<h, p>> \in Link /\ <<p, h>> \in Link /\ chan[<<p, h>>] # <<>>
      /\ Head(chan[<<p, h>>]).type = type /\ chan[<<p, h>>] \in Seq(FrameType)
  BY DEF Next1, SendInv
<1>2. h \in Site /\ p \in Site /\ h # p
  BY <1>1 DEF Link
<1>3. /\ Tail(chan[<<p, h>>]) \in Seq(FrameType)
      /\ Frames(Tail(chan[<<p, h>>])) \subseteq Frames(chan[<<p, h>>])
      /\ Frame(h, p) \in Frames(chan[<<p, h>>]) /\ Frame(h, p) \in FrameType
  BY <1>1, FramesTail DEF Frame
<1>4. Rest(h, p) = [chan EXCEPT ![<<p, h>>] = Tail(chan[<<p, h>>])]
  BY DEF Rest
<1>5. /\ Rest(h, p) \in [Link -> Seq(FrameType)]
      /\ \A l \in Link : Frames(Rest(h, p)[l]) \subseteq Frames(chan[l])
  BY <1>1, <1>3, <1>4 DEF SendInv
<1>6. Good(seen, <<p, h>>, Frame(h, p))
  BY <1>1, <1>3 DEF SendInv
<1> QED BY <1>1, <1>2, <1>3, <1>5, <1>6 DEF Frame

\* Taking frames away keeps the sockets true.
LEMMA TakeSend ==
    ASSUME SendInv, NEW ch \in [Link -> Seq(FrameType)], chan' = ch,
           \A l \in Link : Frames(ch[l]) \subseteq Frames(chan[l]),
           UNCHANGED <<conn, pressed, parked, faults, seen, cursor>>
    PROVE  SendInv'
BY DEF SendInv, Good, ConfirmedWasHandled

\* An image is sent, or parked behind the latch.
LEMMA ImageSend ==
    ASSUME SendInv, conn \in SUBSET Link, NEW p \in Spoke, NEW f \in FrameType, Streamed(f),
           NEW ch \in [Link -> Seq(FrameType)],
           \A l \in Link : Frames(ch[l]) \subseteq Frames(chan[l]),
           SendImage(p, f, ch), UNCHANGED <<conn, seen>>
    PROVE  SendInv'
<1>1. p \in Site /\ Hub \in Site
  BY SpokeLinks
<1>2. CASE <<Hub, p>> \in pressed
  <2>1. /\ parked' = [parked EXCEPT ![p] = Append(parked[p], f)] /\ chan' = ch
        /\ UNCHANGED <<cursor, pressed, faults>>
    BY <1>2 DEF SendImage
  <2>2. /\ Append(parked[p], f) \in Seq(FrameType)
        /\ Frames(Append(parked[p], f)) \subseteq Frames(parked[p]) \cup {f}
    BY FramesAppend DEF SendInv
  <2>3. /\ parked' \in [Spoke -> Seq(FrameType)]
        /\ \A q \in Spoke : parked'[q] # <<>> => <<Hub, q>> \in pressed'
        /\ \A q \in Spoke : \A g \in Frames(parked'[q]) : Streamed(g)
    BY <1>2, <2>1, <2>2 DEF SendInv
  <2>4. \A l \in Link : \A g \in Frames(chan'[l]) : Good(seen', l, g)
    BY <2>1 DEF SendInv, Good
  <2>5. ConfirmedWasHandled'
    BY <2>1 DEF SendInv, ConfirmedWasHandled
  <2> QED BY <2>1, <2>3, <2>4, <2>5 DEF SendInv
<1>3. CASE <<Hub, p>> \notin pressed
  <2>1. PICK k \in Counts(Only(p, <<f>>)) : Offer(Hub, conn, ch, cursor, Only(p, <<f>>), k)
    BY <1>3 DEF SendImage
  <2>2. parked' = parked
    BY <1>3 DEF SendImage
  <2>3. <<f>> \in Seq(FrameType) /\ Frames(<<f>>) = {f} /\ <<>> \in Seq(FrameType) /\ Frames(<<>>) = {}
    BY FramesOne, FramesNone
  <2>4. /\ Only(p, <<f>>) \in [Site -> Seq(FrameType)]
        /\ \A q \in Site : Frames(Only(p, <<f>>)[q]) \subseteq {f}
    BY <1>1, <2>3 DEF Only, Nothing
  <2>5. \A l \in Link : l[1] = Hub => \A g \in Frames(Only(p, <<f>>)[l[2]]) : Good(seen', l, g)
    BY <2>4, LinkParts DEF Good, Streamed
  <2>6. pressed \subseteq conn /\ Fewer(ch, cursor) /\ Truthful(Hub, Only(p, <<f>>)) /\ SeenGrows
    BY <2>4, <2>5 DEF SendInv, Fewer, Truthful, SeenGrows
  <2> QED BY <1>1, <2>1, <2>2, <2>6, OfferSend
<1> QED BY <1>2, <1>3
---------------------------------------------------------------------------
(* Stamps, entries and outgoing frames *)

\* The stamp of a new entry is after every stamp of its log.
LEMMA StampsExceed ==
    ASSUME NEW L \in SUBSET Entry, NEW now \in Nat, NEW remote \in Stamp,
           NEW n \in Stamps(L, now, remote)
    PROVE  n \in Stamp /\ \A e \in L : Before(e.hlc, n)
<1>1. PICK t \in Last(L) :
          n = IF remote = Zero THEN generateHlc(now, t) ELSE mergeHlc(now, t, remote)
  BY DEF Stamps
<1>2. \A e \in L : e.hlc \in Stamp
  BY DEF Entry
<1>3. t \in Stamp /\ \A e \in L : ~Before(t, e.hlc)
  BY <1>1, <1>2 DEF Last, Zero, Stamp
<1>4. n \in Stamp /\ Before(t, n)
  BY <1>1, <1>3, GenerateExceeds, MergeExceeds
<1>5. ASSUME NEW e \in L PROVE Before(e.hlc, n)
  <2>1. Before(e.hlc, t) \/ e.hlc = t
    BY <1>2, <1>3, BeforeTotal
  <2> QED BY <1>2, <1>3, <1>4, <2>1, BeforeTransitive
<1> QED BY <1>4, <1>5

LEMMA ZeroIsStamp == Zero \in Stamp
BY DEF Zero, Stamp

\* The flush of an entry offers the entry and nothing else.
LEMMA FlushFrames ==
    ASSUME db \in [Site -> [Row -> Version]], NEW e \in Entry
    PROVE  /\ Flush(e) \in [Site -> Seq(FrameType)]
           /\ \A p \in Site : Frames(Flush(e)[p]) \subseteq {Push(e)}
<1>1. Push(e) \in FrameType
  BY FramesMade
<1>2. /\ <<Push(e)>> \in Seq(FrameType) /\ Frames(<<Push(e)>>) = {Push(e)}
      /\ <<>> \in Seq(FrameType) /\ Frames(<<>>) = {}
  BY <1>1, FramesOne, FramesNone
<1> HIDE DEF Push
<1> QED BY <1>2 DEF Flush

\* Frames for one peer.
LEMMA OnlyFrames ==
    ASSUME NEW p \in Site, NEW s \in Seq(FrameType)
    PROVE  /\ Only(p, s) \in [Site -> Seq(FrameType)]
           /\ \A q \in Site : Frames(Only(p, s)[q]) \subseteq Frames(s)
           /\ Only(p, s)[p] = s
<1>1. <<>> \in Seq(FrameType) /\ Frames(<<>>) = {}
  BY FramesNone
<1> QED BY <1>1 DEF Only, Nothing

\* A drain sends the entries of the log that the peer lacks, in pushes.
LEMMA DrainFrames ==
    ASSUME db \in [Site -> [Row -> Version]], NEW S \in SUBSET Entry, IsFiniteSet(S),
           NEW s \in Ascending(S)
    PROVE  /\ [i \in DOMAIN s |-> Push(s[i])] \in Seq(FrameType)
           /\ \A f \in Frames([i \in DOMAIN s |-> Push(s[i])]) : \E e \in S : f = Push(e)
<1>1. PICK n \in Nat : n = Cardinality(S)
  BY FS_CardinalityType
<1>2. s \in [1..n -> S]
  BY <1>1 DEF Ascending
<1>3. \A e \in S : Push(e) \in FrameType
  BY FramesMade
<1>4. DOMAIN s = 1..n /\ \A i \in 1..n : s[i] \in S /\ Push(s[i]) \in FrameType
  BY <1>2, <1>3
<1> DEFINE t == [i \in DOMAIN s |-> Push(s[i])]
<1>5. t \in [1..n -> FrameType]
  BY <1>4
<1>6. DOMAIN t = 1..n /\ \A i \in 1..n : t[i] = Push(s[i])
  BY <1>4
<1> HIDE DEF t
<1>7. t \in Seq(FrameType)
  BY <1>5
<1>8. \A f \in Frames(t) : \E e \in S : f = Push(e)
  BY <1>4, <1>6 DEF Frames
<1> QED BY <1>7, <1>8 DEF t
---------------------------------------------------------------------------
(* What a step does to a host's table and log *)

\* Host h records entry e: the newest of its log, and its table has e's version.
Logged(h, e) ==
    /\ e \in Entry /\ e.ver # Missing
    /\ log' = [log EXCEPT ![h] = @ \cup {e}]
    /\ db' = [db EXCEPT ![h] = [@ EXCEPT ![e.row] = e.ver]]
    /\ \A f \in log[h] : Before(f.hlc, e.hlc)
    /\ (written' # written \/ db' = db \/ Wins(db[h][e.row], e.ver))

\* Spoke p applies a row it pulled, without an entry.
Pulled(p, r, v) ==
    /\ log' = log
    /\ db' = [db EXCEPT ![p] = applySnapshotRow(@, r, v)]

\* Host h forgets the entries that are not after some cursor of R.
Pruned(h, R) ==
    /\ db' = db
    /\ log' = [log EXCEPT ![h] = pruneChangeLog(@, R)]

TableStep ==
    \/ UNCHANGED <<db, log>>
    \/ \E h \in Site : \E e \in Entry : Logged(h, e)
    \/ \E p \in Spoke, r \in Row, v \in Version : Pulled(p, r, v)
    \/ \E h \in Site, R \in SUBSET Stamp : Pruned(h, R)

LEMMA LoggedTypes ==
    ASSUME HostInv, NEW h \in Site, NEW e, Logged(h, e)
    PROVE  /\ db' \in [Site -> [Row -> Version]] /\ log' \in [Site -> SUBSET Entry]
           /\ \A g \in Site : LogOK(log'[g])
<1>1. e.row \in Row /\ e.ver \in Version /\ e \in Entry
  BY DEF Logged, Entry
<1>2. db' \in [Site -> [Row -> Version]] /\ log' \in [Site -> SUBSET Entry]
  BY <1>1 DEF Logged, HostInv
<1>3. LogOK(log[h] \cup {e})
  <2>1. IsFiniteSet(log[h] \cup {e})
    BY FS_AddElement DEF HostInv, LogOK
  <2> QED BY <2>1 DEF HostInv, LogOK, Logged
<1>4. \A g \in Site : log'[g] = IF g = h THEN log[h] \cup {e} ELSE log[g]
  BY DEF Logged, HostInv
<1>5. \A g \in Site : LogOK(log'[g])
  BY <1>3, <1>4 DEF HostInv
<1> QED BY <1>2, <1>5

\* The pushes of an entry with a version are true.
LEMMA PushGood ==
    ASSUME NEW e \in Entry, e.ver # Missing, NEW l, NEW sn
    PROVE  Good(sn, l, Push(e))
BY DEF Good, Push

LEMMA ReadingsAreNat ==
    ASSUME HostInv, NEW h \in Site, NEW now \in Readings(h)
    PROVE  now \in Nat
BY ReplicationAssumption DEF HostInv, Readings

\* A local write.
LEMMA WriteStep ==
    ASSUME WireInv, NEW h \in Site, NEW r \in Row, Write(h, r)
    PROVE  WireInv' /\ TableStep
<1>1. HostInv /\ SendInv
  BY DEF WireInv
<1>2. PICK now \in Readings(h) :
        LET v == [mod |-> now, val |-> Cardinality(written) + 1] IN
        /\ written' = written \cup {[row |-> r, ver |-> v]}
        /\ db' = [db EXCEPT ![h][r] = v]
        /\ \E n \in Stamps(log[h], now, Zero) :
            LET out == Flush([hlc |-> n, row |-> r, site |-> h, ver |-> v]) IN
            /\ log' = [log EXCEPT ![h] = createChangeLogEntry(@, n, r, h, v)]
            /\ \E k \in Counts(out) : Offer(h, conn, chan, cursor, out, k)
        /\ wall' = [wall EXCEPT ![h] = now]
        /\ UNCHANGED <<joined, conn, spoke, streams, seen>>
  BY DEF Write
<1> DEFINE v == [mod |-> now, val |-> Cardinality(written) + 1]
<1>3. PICK n \in Stamps(log[h], now, Zero) :
        LET out == Flush([hlc |-> n, row |-> r, site |-> h, ver |-> v]) IN
        /\ log' = [log EXCEPT ![h] = createChangeLogEntry(@, n, r, h, v)]
        /\ \E k \in Counts(out) : Offer(h, conn, chan, cursor, out, k)
  BY <1>2
<1> DEFINE e   == [hlc |-> n, row |-> r, site |-> h, ver |-> v]
           out == Flush(e)
<1>4. now \in Nat
  BY <1>1, ReadingsAreNat
<1>5. Cardinality(written) \in Nat /\ IsFiniteSet(written)
  BY <1>1, FS_CardinalityType DEF HostInv
<1>6. v \in Version /\ v # Missing /\ v.val = Cardinality(written) + 1
  BY <1>4, <1>5 DEF Version, Missing
<1>7. /\ written' = written \cup {[row |-> r, ver |-> v]}
      /\ db' = [db EXCEPT ![h] = [@ EXCEPT ![r] = v]] /\ wall' = [wall EXCEPT ![h] = now]
      /\ UNCHANGED <<joined, conn, spoke, streams, seen>>
  BY <1>2
<1>8. log[h] \in SUBSET Entry
  BY <1>1 DEF HostInv
<1>9. n \in Stamp /\ \A f \in log[h] : Before(f.hlc, n)
  BY <1>4, <1>8, StampsExceed, ZeroIsStamp
<1> HIDE DEF v
<1>10. e \in Entry /\ e.ver = v /\ e.row = r /\ e.hlc = n
  BY <1>6, <1>9 DEF Entry
<1>11. PICK k \in Counts(out) : Offer(h, conn, chan, cursor, out, k)
  BY <1>3
<1>12. log' = [log EXCEPT ![h] = @ \cup {e}]
  BY <1>3 DEF createChangeLogEntry
<1> HIDE DEF e
<1>13. [row |-> r, ver |-> v] \notin written
  <2>1. \A w \in written : w.ver.val # Cardinality(written) + 1
    BY <1>1, <1>5 DEF HostInv, Version
  <2> QED BY <1>6, <2>1
<1>14. Logged(h, e)
  BY <1>6, <1>7, <1>9, <1>10, <1>12, <1>13 DEF Logged
<1>15. HostInv'
  <2>1. /\ db' \in [Site -> [Row -> Version]] /\ log' \in [Site -> SUBSET Entry]
        /\ \A g \in Site : LogOK(log'[g])
    BY <1>1, <1>14, LoggedTypes
  <2>2. /\ IsFiniteSet(written') /\ Cardinality(written') = Cardinality(written) + 1
    BY <1>5, <1>7, <1>13, FS_AddElement
  <2>3. \A w \in written' : w.ver.val <= Cardinality(written')
    <3> SUFFICES ASSUME NEW w \in written' PROVE w.ver.val <= Cardinality(written) + 1
      BY <2>2
    <3>1. CASE w \in written
      <4>1. w.ver.val \in Nat /\ w.ver.val <= Cardinality(written)
        BY <1>1, <3>1 DEF HostInv, Version
      <4> QED BY <1>5, <4>1
    <3>2. CASE w = [row |-> r, ver |-> v]
      BY <1>5, <1>6, <3>2
    <3> QED BY <1>7, <3>1, <3>2
  <2>4. written' \subseteq [row : Row, ver : Version] /\ wall' \in [Site -> Nat]
    BY <1>1, <1>4, <1>6, <1>7 DEF HostInv
  <2> QED BY <1>1, <1>7, <2>1, <2>2, <2>3, <2>4 DEF HostInv, spoke, streams
<1>16. SendInv'
  <2>1. db \in [Site -> [Row -> Version]] /\ conn \in SUBSET Link
    BY <1>1 DEF HostInv
  <2>2. /\ out \in [Site -> Seq(FrameType)]
        /\ \A p \in Site : Frames(out[p]) \subseteq {Push(e)}
    BY <1>10, <2>1, FlushFrames
  <2>3. \A l \in Link : l[1] = h => \A f \in Frames(out[l[2]]) : Good(seen', l, f)
    <3> SUFFICES ASSUME NEW l \in Link, NEW f \in Frames(out[l[2]]) PROVE Good(seen', l, f)
      OBVIOUS
    <3>1. f = Push(e)
      BY <2>2, LinkParts
    <3>2. Good(seen', l, Push(e))
      BY <1>6, <1>10, PushGood
    <3> QED BY <3>1, <3>2
  <2>4. conn' = conn /\ parked' = parked /\ seen' = seen /\ pressed \subseteq conn
    BY <1>1, <1>7 DEF streams, SendInv
  <2>5. Fewer(chan, cursor) /\ Truthful(h, out) /\ SeenGrows
    BY <1>1, <2>2, <2>3, <2>4 DEF SendInv, Fewer, Truthful, SeenGrows
  <2> HIDE DEF out
  <2> QED BY <1>1, <1>11, <2>1, <2>4, <2>5, OfferSend
<1> QED BY <1>10, <1>14, <1>15, <1>16 DEF WireInv, TableStep
---------------------------------------------------------------------------
(* The changelog protocol *)

\* An entry received is replayed, logged again, acknowledged and forwarded.
LEMMA ReceivePushStep ==
    ASSUME WireInv, NEW h \in Site, NEW p \in Site, ReceivePush(h, p)
    PROVE  WireInv' /\ TableStep
<1>1. HostInv /\ SendInv
  BY DEF WireInv
<1>2. Next1(h, p, "changelog_push")
  BY DEF ReceivePush
<1>3. PICK e : e = Frame(h, p).entry
  OBVIOUS
<1>4. /\ <<h, p>> \in Link /\ <<p, h>> \in Link /\ h # p
      /\ Frame(h, p) \in FrameType /\ Frame(h, p).type = "changelog_push"
      /\ Good(seen, <<p, h>>, Frame(h, p))
  BY <1>1, <1>2, Taking
<1>5. e \in Entry /\ e.ver # Missing
  BY <1>3, <1>4, FrameFields DEF Good
<1>6. e.hlc \in Stamp /\ e.row \in Row /\ e.site \in Site /\ e.ver \in Version
  BY <1>5 DEF Entry
<1>7. PICK cur : cur = [cursor EXCEPT ![<<h, p>>].received = e.hlc]
  OBVIOUS
<1>8. PICK ch : ch = Rest(h, p)
  OBVIOUS
<1>9. /\ ch \in [Link -> Seq(FrameType)]
      /\ \A l \in Link : Frames(ch[l]) \subseteq Frames(chan[l])
  BY <1>1, <1>2, <1>8, Taking
<1>10. cur \in [Link -> Cursor] /\ \A l \in Link : cur[l].confirmed = cursor[l].confirmed
  <2>1. cursor \in [Link -> Cursor]
    BY <1>1 DEF SendInv
  <2>2. [cursor[<<h, p>>] EXCEPT !.received = e.hlc] \in Cursor
    BY <1>4, <1>6, <2>1 DEF Cursor
  <2>3. [cursor[<<h, p>>] EXCEPT !.received = e.hlc].confirmed = cursor[<<h, p>>].confirmed
    BY <1>4, <2>1 DEF Cursor
  <2> QED BY <1>4, <1>7, <2>1, <2>2, <2>3
<1>11. /\ db' = [db EXCEPT ![h] = applyEvent(@, e)]
      /\ seen' = [seen EXCEPT ![h] = @ \cup {<<p, e.hlc>>}]
      /\ UNCHANGED <<joined, conn, spoke, streams, written>>
  BY <1>3 DEF ReceivePush
<1>12. /\ seen' \in [Site -> SUBSET (Site \X Stamp)] /\ \A g \in Site : seen[g] \subseteq seen'[g]
      /\ <<p, e.hlc>> \in seen'[h]
  BY <1>1, <1>6, <1>11 DEF HostInv
<1>13. /\ db \in [Site -> [Row -> Version]] /\ conn \in SUBSET Link /\ wall \in [Site -> Nat]
       /\ log[h] \in SUBSET Entry /\ pressed \subseteq conn
  BY <1>1 DEF HostInv, SendInv
<1>14. Ack(e.hlc) \in FrameType /\ Good(seen', <<h, p>>, Ack(e.hlc))
  BY <1>6, <1>12, <1>13, FramesMade DEF Good, Ack
<1>15. <<Ack(e.hlc)>> \in Seq(FrameType) /\ Frames(<<Ack(e.hlc)>>) = {Ack(e.hlc)}
  BY <1>14, FramesOne
<1>16. conn' = conn /\ parked' = parked
  BY <1>11 DEF streams
<1>17. ASSUME NEW out \in [Site -> Seq(FrameType)], NEW k \in Counts(out),
              Offer(h, conn, ch, cur, out, k),
              \A q \in Site : \A f \in Frames(out[q]) :
                  (f = Ack(e.hlc) /\ q = p) \/ \E d \in Entry : f = Push(d) /\ d.ver # Missing
       PROVE  SendInv'
  <2>1. \A l \in Link : l[1] = h => \A f \in Frames(out[l[2]]) : Good(seen', l, f)
    <3> SUFFICES ASSUME NEW l \in Link, l[1] = h, NEW f \in Frames(out[l[2]])
                 PROVE  Good(seen', l, f)
      OBVIOUS
    <3>1. l[2] \in Site /\ l = <<h, l[2]>>
      BY LinkParts
    <3>2. CASE f = Ack(e.hlc) /\ l[2] = p
      BY <1>14, <3>1, <3>2
    <3>3. CASE \E d \in Entry : f = Push(d) /\ d.ver # Missing
      BY <3>3, PushGood
    <3> QED BY <1>17, <3>1, <3>2, <3>3
  <2>2. Fewer(ch, cur) /\ Truthful(h, out) /\ SeenGrows
    BY <1>9, <1>10, <1>12, <2>1 DEF Fewer, Truthful, SeenGrows
  <2>3. Offer(h, conn, ch, cur, out, k)
    BY <1>17
  <2> QED BY <1>1, <1>13, <1>16, <2>2, <2>3, OfferSend
<1>18. CASE ~Wins(db[h][e.row], e.ver)
  <2>1. /\ \E k \in Counts(Only(p, <<Ack(e.hlc)>>)) :
               Offer(h, conn, ch, cur, Only(p, <<Ack(e.hlc)>>), k)
        /\ UNCHANGED <<log, wall>>
    BY <1>3, <1>18, <1>7, <1>8 DEF ReceivePush
  <2>2. db' = db
    BY <1>11, <1>13, <1>18 DEF applyEvent
  <2>3. HostInv'
    BY <1>1, <1>11, <1>12, <2>1, <2>2 DEF HostInv, spoke, streams
  <2>4. PICK out : out = Only(p, <<Ack(e.hlc)>>)
    OBVIOUS
  <2>5. PICK k \in Counts(out) : Offer(h, conn, ch, cur, out, k)
    BY <2>1, <2>4
  <2>6. out \in [Site -> Seq(FrameType)] /\ \A q \in Site : Frames(out[q]) \subseteq {Ack(e.hlc)}
    BY <1>15, <2>4, OnlyFrames
  <2>7. \A q \in Site : \A f \in Frames(out[q]) : f = Ack(e.hlc) /\ q = p
    <3>1. \A q \in Site : q # p => out[q] = <<>>
      BY <2>4 DEF Only, Nothing
    <3> QED BY <2>6, <3>1, FramesNone
  <2>8. SendInv'
    BY <1>17, <2>5, <2>6, <2>7
  <2> QED BY <2>1, <2>2, <2>3, <2>8 DEF WireInv, TableStep
<1>19. CASE Wins(db[h][e.row], e.ver)
  <2>1. PICK now \in Readings(h) : \E n \in Stamps(log[h], now, e.hlc) :
          LET fl  == Flush([e EXCEPT !.hlc = n])
              out == [fl EXCEPT ![p] = <<Ack(e.hlc)>> \o @]
          IN  /\ wall' = [wall EXCEPT ![h] = now]
              /\ log' = [log EXCEPT ![h] = createChangeLogEntry(@, n, e.row, e.site, e.ver)]
              /\ \E k \in Counts(out) : Offer(h, conn, ch, cur, out, k)
    BY <1>3, <1>19, <1>7, <1>8 DEF ReceivePush
  <2>2. PICK n \in Stamps(log[h], now, e.hlc) :
          LET fl  == Flush([e EXCEPT !.hlc = n])
              out == [fl EXCEPT ![p] = <<Ack(e.hlc)>> \o @]
          IN  /\ wall' = [wall EXCEPT ![h] = now]
              /\ log' = [log EXCEPT ![h] = createChangeLogEntry(@, n, e.row, e.site, e.ver)]
              /\ \E k \in Counts(out) : Offer(h, conn, ch, cur, out, k)
    BY <2>1
  <2>3. now \in Nat
    BY <1>1, ReadingsAreNat
  <2>4. n \in Stamp /\ \A f \in log[h] : Before(f.hlc, n)
    BY <1>6, <1>13, <2>3, StampsExceed
  <2>5. PICK d : d = [e EXCEPT !.hlc = n]
    OBVIOUS
  <2>6. /\ d \in Entry /\ d.ver = e.ver /\ d.row = e.row /\ d.hlc = n
        /\ d = [hlc |-> n, row |-> e.row, site |-> e.site, ver |-> e.ver]
    BY <1>5, <2>4, <2>5 DEF Entry
  <2>7. log' = [log EXCEPT ![h] = @ \cup {d}] /\ wall' = [wall EXCEPT ![h] = now]
    BY <2>2, <2>6 DEF createChangeLogEntry
  <2>8. db' = [db EXCEPT ![h] = [@ EXCEPT ![d.row] = d.ver]]
    BY <1>11, <1>19, <2>6 DEF applyEvent
  <2>9. Logged(h, d)
    BY <1>5, <1>19, <2>4, <2>6, <2>7, <2>8 DEF Logged
  <2>10. HostInv'
    <3>1. /\ db' \in [Site -> [Row -> Version]] /\ log' \in [Site -> SUBSET Entry]
          /\ \A g \in Site : LogOK(log'[g])
      BY <1>1, <2>9, LoggedTypes
    <3>2. wall' \in [Site -> Nat]
      BY <1>13, <2>3, <2>7
    <3> QED BY <1>1, <1>11, <1>12, <3>1, <3>2 DEF HostInv, spoke, streams
  <2>11. PICK fl : fl = Flush(d)
    OBVIOUS
  <2>12. PICK out : out = [fl EXCEPT ![p] = <<Ack(e.hlc)>> \o @]
    OBVIOUS
  <2>13. PICK k \in Counts(out) : Offer(h, conn, ch, cur, out, k)
    BY <2>2, <2>5, <2>11, <2>12
  <2>14. /\ fl \in [Site -> Seq(FrameType)] /\ \A q \in Site : Frames(fl[q]) \subseteq {Push(d)}
    BY <1>13, <2>6, <2>11, FlushFrames
  <2>15. /\ <<Ack(e.hlc)>> \o fl[p] \in Seq(FrameType)
         /\ Frames(<<Ack(e.hlc)>> \o fl[p]) \subseteq {Ack(e.hlc), Push(d)}
    BY <1>15, <2>14, FramesConcat
  <2>16. /\ out \in [Site -> Seq(FrameType)]
         /\ \A q \in Site : \A f \in Frames(out[q]) : (f = Ack(e.hlc) /\ q = p) \/ f = Push(d)
    BY <2>12, <2>14, <2>15
  <2>17. SendInv'
    BY <1>5, <1>17, <2>6, <2>13, <2>16
  <2> QED BY <2>6, <2>9, <2>10, <2>17 DEF WireInv, TableStep
<1> QED BY <1>18, <1>19

\* An acknowledgement moves both watermarks to a push the peer handled.
LEMMA ReceiveAckStep ==
    ASSUME WireInv, NEW h \in Site, NEW p \in Site, ReceiveAck(h, p)
    PROVE  WireInv' /\ TableStep
<1>1. HostInv /\ SendInv
  BY DEF WireInv
<1>2. Next1(h, p, "changelog_ack")
  BY DEF ReceiveAck
<1>3. PICK n : n = Frame(h, p).cursor
  OBVIOUS
<1>4. /\ <<h, p>> \in Link
      /\ Frame(h, p) \in FrameType /\ Frame(h, p).type = "changelog_ack"
      /\ Good(seen, <<p, h>>, Frame(h, p))
  BY <1>1, <1>2, Taking
<1>5. n \in Stamp /\ <<h, n>> \in seen[p]
  BY <1>3, <1>4, FrameFields DEF Good
<1>6. /\ chan' = Rest(h, p)
      /\ cursor' = [cursor EXCEPT ![<<h, p>>] = [@ EXCEPT !.sent = n, !.confirmed = n]]
      /\ UNCHANGED <<disk, joined, conn, pressed, spoke, streams, wall, written, faults, seen>>
  BY <1>3 DEF ReceiveAck
<1>7. /\ chan' \in [Link -> Seq(FrameType)]
      /\ \A l \in Link : Frames(chan'[l]) \subseteq Frames(chan[l])
  BY <1>1, <1>2, <1>6, Taking
<1>8. [cursor[<<h, p>>] EXCEPT !.sent = n, !.confirmed = n] \in Cursor
      /\ [cursor[<<h, p>>] EXCEPT !.sent = n, !.confirmed = n].confirmed = n
  <2>1. cursor[<<h, p>>] \in Cursor
    BY <1>1, <1>4 DEF SendInv
  <2> QED BY <1>5, <2>1 DEF Cursor
<1>9. /\ cursor' \in [Link -> Cursor] /\ cursor'[<<h, p>>].confirmed = n
      /\ \A l \in Link : l # <<h, p>> => cursor'[l] = cursor[l]
  BY <1>1, <1>4, <1>6, <1>8 DEF SendInv
<1>10. ConfirmedWasHandled'
  <2> SUFFICES ASSUME NEW l \in Link, cursor'[l].confirmed # Zero
               PROVE  <<l[1], cursor'[l].confirmed>> \in seen[l[2]]
    BY <1>6 DEF ConfirmedWasHandled
  <2>1. CASE l = <<h, p>>
    BY <1>5, <1>9, <2>1
  <2>2. CASE l # <<h, p>>
    BY <1>1, <1>9, <2>2 DEF SendInv, ConfirmedWasHandled
  <2> QED BY <2>1, <2>2
<1>11. \A l \in Link : \A f \in Frames(chan'[l]) : Good(seen', l, f)
  BY <1>1, <1>6, <1>7 DEF SendInv
<1>12. SendInv'
  BY <1>1, <1>6, <1>7, <1>9, <1>10, <1>11 DEF SendInv, streams
<1>13. HostInv'
  BY <1>1, <1>6 DEF HostInv, disk, spoke, streams
<1> QED BY <1>6, <1>12, <1>13 DEF WireInv, TableStep, disk
---------------------------------------------------------------------------
(* Connections *)

\* Requests, images and the pull's acknowledgement claim nothing about entries.
LEMMA PlainGood ==
    ASSUME NEW f, f.type \notin {"changelog_ack", "changelog_push"}, NEW l, NEW sn
    PROVE  Good(sn, l, f)
BY DEF Good

\* Frames for one peer, each a push of an entry of the log or a plain frame.
LEMMA OnlyTruthful ==
    ASSUME NEW h \in Site, NEW p \in Site, NEW s \in Seq(FrameType),
           \A f \in Frames(s) : \/ f.type \notin {"changelog_ack", "changelog_push"}
                                \/ \E e \in Entry : f = Push(e) /\ e.ver # Missing
    PROVE  Truthful(h, Only(p, s))
<1>1. \A l \in Link : \A f \in Frames(s) : Good(seen', l, f)
  BY PlainGood, PushGood
<1>2. /\ Only(p, s) \in [Site -> Seq(FrameType)]
      /\ \A q \in Site : Frames(Only(p, s)[q]) \subseteq Frames(s)
  BY OnlyFrames
<1> QED BY <1>1, <1>2, LinkParts DEF Truthful

\* The entries a drain sends.
LEMMA DrainTruthful ==
    ASSUME HostInv, NEW h \in Site, NEW S \in SUBSET log[h], NEW s \in Ascending(S)
    PROVE  /\ [i \in DOMAIN s |-> Push(s[i])] \in Seq(FrameType)
           /\ \A f \in Frames([i \in DOMAIN s |-> Push(s[i])]) :
                  \E e \in Entry : f = Push(e) /\ e.ver # Missing
<1>1. /\ db \in [Site -> [Row -> Version]] /\ S \in SUBSET Entry
      /\ IsFiniteSet(log[h]) /\ \A e \in S : e \in Entry /\ e.ver # Missing
  BY DEF HostInv, LogOK
<1>2. IsFiniteSet(S)
  BY <1>1, FS_Subset
<1>3. /\ [i \in DOMAIN s |-> Push(s[i])] \in Seq(FrameType)
      /\ \A f \in Frames([i \in DOMAIN s |-> Push(s[i])]) : \E e \in S : f = Push(e)
  BY <1>1, <1>2, DrainFrames
<1> QED BY <1>1, <1>3

\* A connection opens and its peer is sent what it missed.
LEMMA OpenStep ==
    ASSUME WireInv, NEW h \in Site, NEW p \in Site, Open(h, p)
    PROVE  WireInv' /\ TableStep
<1>1. HostInv /\ SendInv
  BY DEF WireInv
<1> DEFINE c == conn \cup {<<h, p>>}
           init == h # Hub /\ h \notin opened /\ backfill[h].phase = "idle"
           ask == IF init THEN <<ConsistencyRequest(backfill[h])>> ELSE <<>>
<1>2. /\ <<h, p>> \in Link /\ conn' = c
      /\ joined' = IF h = Hub THEN joined \cup {p} ELSE joined
      /\ opened' = IF h = Hub THEN opened ELSE opened \cup {h}
      /\ UNCHANGED <<disk, streams, wall, written, seen>>
  BY DEF Open
<1>3. PICK s \in Ascending(Missed(h, p, cursor)) :
        LET out == Only(p, [i \in DOMAIN s |-> Push(s[i])] \o ask) IN
        \E k \in Counts(out) :
            /\ Offer(h, c, chan, cursor, out, k)
            /\ backfill' = IF init /\ k[p] = Len(out[p])
                           THEN [backfill EXCEPT ![h] = [@ EXCEPT !.phase = "asked", !.first = TRUE]]
                           ELSE backfill
  BY DEF Open
<1>4. PICK t : t = [i \in DOMAIN s |-> Push(s[i])]
  OBVIOUS
<1>5. PICK out : out = Only(p, t \o ask)
  OBVIOUS
<1>6. PICK k \in Counts(out) :
            /\ Offer(h, c, chan, cursor, out, k)
            /\ backfill' \in {backfill,
                   [backfill EXCEPT ![h] = [@ EXCEPT !.phase = "asked", !.first = TRUE]]}
            /\ backfill' # backfill => init
  BY <1>3, <1>4, <1>5
<1>7. init => h \in Spoke
  BY DEF Spoke
<1>8. ask \in Seq(FrameType) /\ \A f \in Frames(ask) : f.type \notin {"changelog_ack", "changelog_push"}
  <2>1. CASE init
    <3>1. backfill[h] \in Backfill /\ db \in [Site -> [Row -> Version]]
      BY <1>1, <1>7, <2>1 DEF HostInv
    <3>2. ConsistencyRequest(backfill[h]) \in FrameType
      BY <3>1, FramesMade
    <3>3. ConsistencyRequest(backfill[h]).type = "consistency_request"
      BY DEF ConsistencyRequest
    <3>4. ask = <<ConsistencyRequest(backfill[h])>>
      BY <2>1
    <3> HIDE DEF ask
    <3> QED BY <3>2, <3>3, <3>4, FramesOne
  <2>2. CASE ~init
    BY <2>2, FramesNone
  <2> QED BY <2>1, <2>2
<1>9. /\ t \in Seq(FrameType)
      /\ \A f \in Frames(t) : \E e \in Entry : f = Push(e) /\ e.ver # Missing
  <2>1. Missed(h, p, cursor) \in SUBSET log[h]
    BY DEF Missed
  <2> QED BY <1>1, <1>4, <2>1, DrainTruthful
<1>10. backfill' \in [Spoke -> Backfill]
  <2>1. backfill \in [Spoke -> Backfill]
    BY <1>1 DEF HostInv
  <2>2. h \in Spoke => [backfill[h] EXCEPT !.phase = "asked", !.first = TRUE] \in Backfill
    BY <2>1 DEF Backfill
  <2> QED BY <1>6, <1>7, <2>1, <2>2
<1> HIDE DEF ask, init
<1>11. t \o ask \in Seq(FrameType) /\ Frames(t \o ask) \subseteq Frames(t) \cup Frames(ask)
  BY <1>8, <1>9, FramesConcat
<1>12. \A f \in Frames(t \o ask) : \/ f.type \notin {"changelog_ack", "changelog_push"}
                                   \/ \E e \in Entry : f = Push(e) /\ e.ver # Missing
  BY <1>8, <1>9, <1>11
<1>13. Truthful(h, out)
  BY <1>5, <1>11, <1>12, OnlyTruthful
<1>14. HostInv'
  <2>1. p # Hub => h = Hub
    BY <1>2 DEF Link
  <2>2. joined' \subseteq Spoke /\ opened' \subseteq Spoke /\ conn' \subseteq Link
    BY <1>1, <1>2, <2>1 DEF HostInv, Spoke, Link
  <2> QED BY <1>1, <1>2, <1>10, <2>2 DEF HostInv, disk, streams
<1>15. SendInv'
  <2>1. /\ c \in SUBSET Link /\ pressed \subseteq c /\ conn' = c /\ parked' = parked
        /\ Fewer(chan, cursor) /\ SeenGrows
    BY <1>1, <1>2 DEF HostInv, SendInv, Fewer, SeenGrows, streams
  <2> HIDE DEF c
  <2> QED BY <1>1, <1>6, <1>13, <2>1, OfferSend
<1> QED BY <1>2, <1>14, <1>15 DEF WireInv, TableStep, disk
\* Connections die with what their sockets held.
LEMMA DropSend ==
    ASSUME HostInv, SendInv, NEW S \in SUBSET Spoke, Drop(S), UNCHANGED <<cursor, seen>>
    PROVE  /\ SendInv' /\ conn' \subseteq Link
           /\ paging' \in [Spoke -> Request] /\ pulling' \in [Spoke -> Request]
<1> DEFINE gone == {l \in Link : {l[1], l[2]} \cap S # {}}
<1>1. /\ conn' = conn \ gone /\ pressed' = pressed \ gone
      /\ chan' = [l \in Link |-> IF l \in gone THEN <<>> ELSE chan[l]]
      /\ paging' = [p \in Spoke |-> IF p \in S THEN [paging[p] EXCEPT !.left = {}] ELSE paging[p]]
      /\ pulling' = [p \in Spoke |-> IF p \in S THEN [pulling[p] EXCEPT !.left = {}] ELSE pulling[p]]
      /\ parked' = [p \in Spoke |-> IF p \in S THEN <<>> ELSE parked[p]]
      /\ faults' = faults + 1
  BY DEF Drop
<1>2. \A p \in Spoke \ S : <<Hub, p>> \notin gone
  BY DEF Spoke
<1>3. \A p \in Spoke : /\ [paging[p] EXCEPT !.left = {}] \in Request /\ paging[p] \in Request
                       /\ [pulling[p] EXCEPT !.left = {}] \in Request /\ pulling[p] \in Request
  BY DEF HostInv, Request
<1>4. paging' \in [Spoke -> Request] /\ pulling' \in [Spoke -> Request]
  BY <1>1, <1>3
<1> HIDE DEF gone
<1>5. <<>> \in Seq(FrameType) /\ Frames(<<>>) = {}
  BY FramesNone
<1>6. /\ chan' \in [Link -> Seq(FrameType)]
      /\ \A l \in Link : Frames(chan'[l]) \subseteq Frames(chan[l])
  BY <1>1, <1>5 DEF SendInv
<1>7. /\ parked' \in [Spoke -> Seq(FrameType)]
      /\ \A p \in Spoke : Frames(parked'[p]) \subseteq Frames(parked[p])
  BY <1>1, <1>5 DEF SendInv
<1>8. \A p \in Spoke : parked'[p] # <<>> => <<Hub, p>> \in pressed'
  BY <1>1, <1>2 DEF SendInv
<1>9. pressed' \subseteq conn' /\ faults' \in Nat
  BY <1>1 DEF SendInv
<1>10. \A l \in Link : \A f \in Frames(chan'[l]) : Good(seen', l, f)
  BY <1>6 DEF SendInv
<1>11. \A p \in Spoke : \A f \in Frames(parked'[p]) : Streamed(f)
  BY <1>7 DEF SendInv
<1>12. ConfirmedWasHandled' /\ cursor' \in [Link -> Cursor]
  BY DEF SendInv, ConfirmedWasHandled
<1>13. SendInv'
  BY <1>6, <1>7, <1>8, <1>9, <1>10, <1>11, <1>12 DEF SendInv
<1>14. conn' \subseteq Link
  BY <1>1 DEF HostInv
<1> QED BY <1>4, <1>13, <1>14

LEMMA IdleType == Idle \in Backfill /\ \A n \in Nat : [Idle EXCEPT !.rid = n] \in Backfill
<1>1. [r \in Row |-> Missing] \in [Row -> Version]
  BY DEF Missing, Version
<1>2. Idle \in Backfill
  BY <1>1, ReplicationAssumption DEF Idle, Backfill
<1> HIDE DEF Idle
<1> QED BY <1>2 DEF Backfill

LEMMA DisconnectStep ==
    ASSUME WireInv, NEW p \in Spoke, Disconnect(p)
    PROVE  WireInv' /\ TableStep
<1>1. Drop({p}) /\ UNCHANGED <<disk, cursor, joined, spoke, wall, written, seen>>
  BY DEF Disconnect
<1>2. /\ SendInv' /\ conn' \subseteq Link
      /\ paging' \in [Spoke -> Request] /\ pulling' \in [Spoke -> Request]
  BY <1>1, DropSend DEF WireInv
<1>3. HostInv'
  BY <1>1, <1>2 DEF WireInv, HostInv, disk, spoke
<1> QED BY <1>1, <1>2, <1>3 DEF WireInv, TableStep, disk

LEMMA RestartStep ==
    ASSUME WireInv, NEW h \in Site, Restart(h)
    PROVE  WireInv' /\ TableStep
<1> DEFINE S == IF h = Hub THEN Spoke ELSE {h}
<1>1. /\ Drop(S) /\ opened' = opened \ {h}
      /\ backfill' = IF h = Hub THEN backfill
                     ELSE [backfill EXCEPT ![h] = [Idle EXCEPT !.rid = backfill[h].rid + 1]]
      /\ UNCHANGED <<disk, cursor, joined, wall, written, seen>>
  BY DEF Restart
<1>2. S \in SUBSET Spoke
  BY DEF Spoke
<1> HIDE DEF S
<1>3. /\ SendInv' /\ conn' \subseteq Link
      /\ paging' \in [Spoke -> Request] /\ pulling' \in [Spoke -> Request]
  BY <1>1, <1>2, DropSend DEF WireInv
<1>4. backfill' \in [Spoke -> Backfill]
  <2>1. backfill \in [Spoke -> Backfill]
    BY DEF WireInv, HostInv
  <2>2. CASE h = Hub
    BY <1>1, <2>1, <2>2
  <2>3. CASE h # Hub
    <3>1. h \in Spoke
      BY <2>3 DEF Spoke
    <3>2. backfill[h].rid + 1 \in Nat
      BY <2>1, <3>1 DEF Backfill
    <3>3. [Idle EXCEPT !.rid = backfill[h].rid + 1] \in Backfill
      BY <3>2, IdleType
    <3> QED BY <1>1, <2>1, <2>3, <3>1, <3>3
  <2> QED BY <2>2, <2>3
<1>5. HostInv'
  BY <1>1, <1>3, <1>4 DEF WireInv, HostInv, disk
<1> QED BY <1>1, <1>3, <1>5 DEF WireInv, TableStep, disk

\* A socket drains: parked frames go out.
LEMMA ClearPressureStep ==
    ASSUME WireInv, NEW h \in Site, NEW p \in Site, <<h, p>> \in Link, ClearPressure(h, p)
    PROVE  WireInv' /\ TableStep
<1>1. HostInv /\ SendInv
  BY DEF WireInv
<1>2. /\ pressed' = pressed \ {<<h, p>>}
      /\ UNCHANGED <<disk, cursor, joined, conn, spoke, paging, pulling, wall, written, faults, seen>>
  BY DEF ClearPressure
<1>3. HostInv'
  BY <1>1, <1>2 DEF HostInv, disk, spoke
<1>4. CASE h = Hub
  <2>1. /\ chan' = [chan EXCEPT ![<<h, p>>] = chan[<<h, p>>] \o parked[p]]
        /\ parked' = [parked EXCEPT ![p] = <<>>]
    BY <1>4 DEF ClearPressure
  <2>2. p \in Spoke
    BY <1>4 DEF Link, Spoke
  <2>3. /\ chan[<<h, p>>] \o parked[p] \in Seq(FrameType)
        /\ Frames(chan[<<h, p>>] \o parked[p]) \subseteq Frames(chan[<<h, p>>]) \cup Frames(parked[p])
    BY <1>1, <2>2, FramesConcat DEF SendInv
  <2>4. \A f \in Frames(parked[p]) : Good(seen', <<h, p>>, f)
    BY <1>1, <2>2, PlainGood DEF SendInv, Streamed
  <2>5. \A f \in Frames(chan[<<h, p>>] \o parked[p]) : Good(seen', <<h, p>>, f)
    BY <1>1, <1>2, <2>3, <2>4 DEF SendInv
  <2>6. /\ chan' \in [Link -> Seq(FrameType)]
        /\ \A l \in Link : \A f \in Frames(chan'[l]) : Good(seen', l, f)
    BY <1>1, <1>2, <2>1, <2>3, <2>5 DEF SendInv
  <2>7. <<>> \in Seq(FrameType) /\ Frames(<<>>) = {}
    BY FramesNone
  <2>8. /\ parked' \in [Spoke -> Seq(FrameType)]
        /\ \A q \in Spoke : parked'[q] # <<>> => <<Hub, q>> \in pressed'
        /\ \A q \in Spoke : \A f \in Frames(parked'[q]) : Streamed(f)
    BY <1>1, <1>2, <2>1, <2>7 DEF SendInv
  <2>9. ConfirmedWasHandled' /\ cursor' \in [Link -> Cursor]
    BY <1>1, <1>2 DEF SendInv, ConfirmedWasHandled
  <2>10. SendInv'
    BY <1>1, <1>2, <2>6, <2>8, <2>9 DEF SendInv
  <2> QED BY <1>2, <1>3, <2>10 DEF WireInv, TableStep, disk
<1>5. CASE h # Hub
  <2>1. UNCHANGED <<chan, parked>>
    BY <1>5 DEF ClearPressure
  <2>2. \A q \in Spoke : parked'[q] # <<>> => <<Hub, q>> \in pressed'
    BY <1>1, <1>2, <1>5, <2>1 DEF SendInv
  <2>3. ConfirmedWasHandled'
    BY <1>1, <1>2 DEF SendInv, ConfirmedWasHandled
  <2>4. SendInv'
    BY <1>1, <1>2, <2>1, <2>2, <2>3 DEF SendInv
  <2> QED BY <1>2, <1>3, <2>4 DEF WireInv, TableStep, disk
<1> QED BY <1>4, <1>5
---------------------------------------------------------------------------
(* Backfill *)

\* A socket offer while connections, parked frames and seen stay as they are.
LEMMA QuietOffer ==
    ASSUME WireInv, NEW h \in Site, NEW ch, NEW cur, Fewer(ch, cur), NEW out, Truthful(h, out),
           \E k \in Counts(out) : Offer(h, conn, ch, cur, out, k),
           UNCHANGED <<conn, parked, seen>>
    PROVE  SendInv'
<1>1. PICK k \in Counts(out) : Offer(h, conn, ch, cur, out, k)
  OBVIOUS
<1>2. /\ SendInv /\ conn \in SUBSET Link /\ pressed \subseteq conn /\ conn' = conn
      /\ SeenGrows /\ parked' = parked
  BY DEF WireInv, HostInv, SendInv, SeenGrows
<1> QED BY <1>1, <1>2, OfferSend

LEMMA SameSockets ==
    ASSUME WireInv
    PROVE  Fewer(chan, cursor)
BY DEF WireInv, SendInv, Fewer

\* The channels after a frame is taken, with the same cursors.
LEMMA TakenSockets ==
    ASSUME WireInv, NEW h, NEW p, NEW type, Next1(h, p, type)
    PROVE  Fewer(Rest(h, p), cursor)
<1>1. /\ Rest(h, p) \in [Link -> Seq(FrameType)]
      /\ \A l \in Link : Frames(Rest(h, p)[l]) \subseteq Frames(chan[l])
  BY Taking DEF WireInv
<1> QED BY <1>1 DEF WireInv, SendInv, Fewer

\* A single plain frame, or none, for one peer.
LEMMA OneTruthful ==
    ASSUME NEW h \in Site, NEW p \in Site, NEW f \in FrameType,
           f.type \notin {"changelog_ack", "changelog_push"}
    PROVE  Truthful(h, Only(p, <<f>>)) /\ Truthful(h, Only(p, <<>>)) /\ Truthful(h, Nothing)
<1>1. <<f>> \in Seq(FrameType) /\ Frames(<<f>>) = {f} /\ <<>> \in Seq(FrameType) /\ Frames(<<>>) = {}
  BY FramesOne, FramesNone
<1>2. Truthful(h, Only(p, <<f>>))
  BY <1>1, OnlyTruthful
<1>3. Truthful(h, Only(p, <<>>))
  BY <1>1, OnlyTruthful
<1>4. Nothing \in [Site -> Seq(FrameType)] /\ \A q \in Site : Frames(Nothing[q]) = {}
  BY <1>1 DEF Nothing
<1>5. Truthful(h, Nothing)
  BY <1>4, LinkParts DEF Truthful
<1> QED BY <1>2, <1>3, <1>5

\* The fields of a backfill that the steps change.
LEMMA BackfillTypes ==
    ASSUME NEW b \in Backfill, NEW r \in Row, NEW v \in Version, NEW first \in BOOLEAN,
           NEW phase \in {"idle", "asked", "diff", "pulling"}, NEW rows \in SUBSET Row,
           NEW pulls \in SUBSET Row, NEW n \in Nat
    PROVE  /\ [b EXCEPT !.phase = phase] \in Backfill
           /\ [b EXCEPT !.phase = phase, !.first = first] \in Backfill
           /\ [b EXCEPT !.phase = phase, !.rid = n] \in Backfill
           /\ [b EXCEPT !.got = [@ EXCEPT ![r] = v], !.left = rows, !.phase = phase] \in Backfill
           /\ [b EXCEPT !.left = rows, !.pulls = pulls] \in Backfill
<1>1. [b EXCEPT !.phase = phase] \in Backfill /\ [b EXCEPT !.phase = phase, !.first = first] \in Backfill
  BY DEF Backfill
<1>2. [b EXCEPT !.phase = phase, !.rid = n] \in Backfill
  BY DEF Backfill
<1>3. [b EXCEPT !.left = rows, !.pulls = pulls] \in Backfill
  BY DEF Backfill
<1>4. [b.got EXCEPT ![r] = v] \in [Row -> Version]
  BY DEF Backfill
<1>5. \A g \in [Row -> Version] : [b EXCEPT !.got = g, !.left = rows, !.phase = phase] \in Backfill
  BY DEF Backfill
<1>6. [b EXCEPT !.got = [@ EXCEPT ![r] = v], !.left = rows, !.phase = phase] \in Backfill
  BY <1>4, <1>5
<1> QED BY <1>1, <1>2, <1>3, <1>6

LEMMA StartBackfillStep ==
    ASSUME WireInv, NEW p \in Spoke, StartBackfill(p)
    PROVE  WireInv' /\ TableStep
<1>1. PICK out : out = Only(Hub, <<ConsistencyRequest(backfill[p])>>)
  OBVIOUS
<1>2. PICK k \in Counts(out) :
        /\ Offer(p, conn, chan, cursor, out, k)
        /\ backfill' \in {backfill,
               [backfill EXCEPT ![p] = [@ EXCEPT !.phase = "asked", !.first = FALSE]]}
  BY <1>1 DEF StartBackfill
<1>3. UNCHANGED <<disk, joined, conn, opened, streams, wall, written, seen>>
  BY DEF StartBackfill
<1>4. /\ backfill \in [Spoke -> Backfill] /\ backfill[p] \in Backfill
      /\ db \in [Site -> [Row -> Version]] /\ p \in Site /\ Hub \in Site
  BY SpokeLinks DEF WireInv, HostInv
<1>5. Truthful(p, out)
  <2>1. ConsistencyRequest(backfill[p]) \in FrameType
    BY <1>4, FramesMade
  <2>2. ConsistencyRequest(backfill[p]).type = "consistency_request"
    BY DEF ConsistencyRequest
  <2> QED BY <1>1, <1>4, <2>1, <2>2, OneTruthful
<1>6. SendInv'
  <2>1. UNCHANGED <<conn, parked, seen>>
    BY <1>3 DEF streams
  <2> QED BY <1>2, <1>4, <1>5, <2>1, SameSockets, QuietOffer
<1>7. backfill' \in [Spoke -> Backfill]
  <2>1. [backfill[p] EXCEPT !.phase = "asked", !.first = FALSE] \in Backfill
    BY <1>4 DEF Backfill
  <2> QED BY <1>2, <1>4, <2>1
<1>8. HostInv'
  BY <1>3, <1>7 DEF WireInv, HostInv, disk, streams
<1> QED BY <1>3, <1>6, <1>8 DEF WireInv, TableStep, disk

\* The hub serves the next row of a stream.
LEMMA SendPageStep ==
    ASSUME WireInv, NEW p \in Spoke, NEW q \in Request, NEW ch, Fewer(ch, cursor), SendPage(p, q, ch)
    PROVE  WireInv' /\ TableStep
<1>1. PICK r \in q.left :
        /\ SendImage(p, Image("consistency_response", q.rid, r, q.left = {r}), ch)
        /\ paging' = [paging EXCEPT ![p] = [q EXCEPT !.left = @ \ {r}]]
        /\ UNCHANGED <<disk, joined, conn, spoke, pulling, wall, written, seen>>
  BY DEF SendPage
<1>2. PICK f : f = Image("consistency_response", q.rid, r, q.left = {r})
  OBVIOUS
<1>3. q.rid \in Nat /\ r \in Row /\ [q EXCEPT !.left = @ \ {r}] \in Request
  BY <1>1 DEF Request
<1>4. f \in FrameType /\ Streamed(f)
  <2>1. db \in [Site -> [Row -> Version]] /\ (q.left = {r}) \in BOOLEAN
    BY DEF WireInv, HostInv
  <2>2. f \in FrameType
    BY <1>2, <1>3, <2>1, FramesMade
  <2>3. f.type = "consistency_response"
    BY <1>2 DEF Image
  <2> QED BY <2>2, <2>3 DEF Streamed
<1>5. SendInv'
  <2>1. /\ SendInv /\ conn \in SUBSET Link /\ ch \in [Link -> Seq(FrameType)]
        /\ \A l \in Link : Frames(ch[l]) \subseteq Frames(chan[l])
    BY DEF WireInv, HostInv, Fewer
  <2> QED BY <1>1, <1>2, <1>4, <2>1, ImageSend
<1>6. HostInv'
  BY <1>1, <1>3 DEF WireInv, HostInv, disk, spoke
<1> QED BY <1>1, <1>5, <1>6 DEF WireInv, TableStep, disk

LEMMA SendRowStep ==
    ASSUME WireInv, NEW p \in Spoke, NEW q \in Request, NEW ch, Fewer(ch, cursor), SendRow(p, q, ch)
    PROVE  WireInv' /\ TableStep
<1>1. PICK r \in q.left :
        /\ SendImage(p, Image("row_pull_response", q.rid, r, q.left = {r}), ch)
        /\ pulling' = [pulling EXCEPT ![p] = [q EXCEPT !.left = @ \ {r}]]
        /\ UNCHANGED <<disk, joined, conn, spoke, paging, wall, written, seen>>
  BY DEF SendRow
<1>2. PICK f : f = Image("row_pull_response", q.rid, r, q.left = {r})
  OBVIOUS
<1>3. q.rid \in Nat /\ r \in Row /\ [q EXCEPT !.left = @ \ {r}] \in Request
  BY <1>1 DEF Request
<1>4. f \in FrameType /\ Streamed(f)
  <2>1. db \in [Site -> [Row -> Version]] /\ (q.left = {r}) \in BOOLEAN
    BY DEF WireInv, HostInv
  <2>2. f \in FrameType
    BY <1>2, <1>3, <2>1, FramesMade
  <2>3. f.type = "row_pull_response"
    BY <1>2 DEF Image
  <2> QED BY <2>2, <2>3 DEF Streamed
<1>5. SendInv'
  <2>1. /\ SendInv /\ conn \in SUBSET Link /\ ch \in [Link -> Seq(FrameType)]
        /\ \A l \in Link : Frames(ch[l]) \subseteq Frames(chan[l])
    BY DEF WireInv, HostInv, Fewer
  <2> QED BY <1>1, <1>2, <1>4, <2>1, ImageSend
<1>6. HostInv'
  BY <1>1, <1>3 DEF WireInv, HostInv, disk, spoke
<1> QED BY <1>1, <1>5, <1>6 DEF WireInv, TableStep, disk
\* The streams the hub serves, and the pull's acknowledgement.
LEMMA HubServesStep ==
    ASSUME WireInv, NEW p \in Spoke, HubServes(p)
    PROVE  WireInv' /\ TableStep
<1>1. HostInv /\ SendInv /\ p \in Site /\ Hub \in Site /\ <<Hub, p>> \in Link
  BY SpokeLinks DEF WireInv
<1>2. ASSUME NEW type \in {"consistency_request", "row_pull_request"}, Next1(Hub, p, type)
      PROVE  /\ [rid |-> Frame(Hub, p).rid, left |-> Frame(Hub, p).left] \in Request
             /\ [rid |-> Frame(Hub, p).rid, left |-> Frame(Hub, p).left \cap Compared] \in Request
             /\ Fewer(Rest(Hub, p), cursor)
  <2>1. Frame(Hub, p) \in FrameType /\ Frame(Hub, p).type = type
    BY <1>1, <1>2, Taking
  <2>2. Frame(Hub, p).rid \in Nat /\ Frame(Hub, p).left \in SUBSET Row
    BY <2>1, FrameFields
  <2> QED BY <1>2, <2>2, TakenSockets DEF Request
<1>3. CASE ReceiveConsistencyRequest(p)
  <2>1. /\ Next1(Hub, p, "consistency_request")
        /\ SendPage(p, [rid |-> Frame(Hub, p).rid, left |-> Frame(Hub, p).left \cap Compared],
                    Rest(Hub, p))
    BY <1>3 DEF ReceiveConsistencyRequest
  <2> QED BY <1>2, <2>1, SendPageStep
<1>4. CASE ReceiveRowPullRequest(p)
  <2>1. /\ Next1(Hub, p, "row_pull_request")
        /\ SendRow(p, [rid |-> Frame(Hub, p).rid, left |-> Frame(Hub, p).left], Rest(Hub, p))
    BY <1>4 DEF ReceiveRowPullRequest
  <2> QED BY <1>2, <2>1, SendRowStep
<1>5. CASE StreamPage(p)
  <2>1. SendPage(p, paging[p], chan) /\ paging[p] \in Request
    BY <1>1, <1>5 DEF StreamPage, HostInv
  <2> QED BY <2>1, SameSockets, SendPageStep
<1>6. CASE StreamRow(p)
  <2>1. SendRow(p, pulling[p], chan) /\ pulling[p] \in Request
    BY <1>1, <1>6 DEF StreamRow, HostInv
  <2> QED BY <2>1, SameSockets, SendRowStep
<1>7. CASE ReceiveRowPullAck(p)
  <2>1. /\ Next1(Hub, p, "row_pull_ack")
        /\ UNCHANGED <<disk, joined, conn, spoke, streams, written, seen>>
    BY <1>7 DEF ReceiveRowPullAck
  <2>2. PICK now \in Readings(Hub) :
          LET n   == generateHlc(now, Zero)
              cur == [cursor EXCEPT ![<<Hub, p>>] = [@ EXCEPT !.received = n, !.sent = n]]
          IN
          /\ wall' = [wall EXCEPT ![Hub] = now]
          /\ \E s \in Ascending(Missed(Hub, p, cur)) :
             LET out == Only(p, [i \in DOMAIN s |-> Push(s[i])]) IN
             \E k \in Counts(out) : Offer(Hub, conn, Rest(Hub, p), cur, out, k)
    BY <1>7 DEF ReceiveRowPullAck
  <2>3. PICK n : n = generateHlc(now, Zero)
    OBVIOUS
  <2>4. PICK cur : cur = [cursor EXCEPT ![<<Hub, p>>] = [@ EXCEPT !.received = n, !.sent = n]]
    OBVIOUS
  <2>5. PICK s \in Ascending(Missed(Hub, p, cur)) :
             LET out == Only(p, [i \in DOMAIN s |-> Push(s[i])]) IN
             \E k \in Counts(out) : Offer(Hub, conn, Rest(Hub, p), cur, out, k)
    BY <2>2, <2>3, <2>4
  <2>6. PICK t : t = [i \in DOMAIN s |-> Push(s[i])]
    OBVIOUS
  <2>7. PICK out : out = Only(p, t)
    OBVIOUS
  <2>8. \E k \in Counts(out) : Offer(Hub, conn, Rest(Hub, p), cur, out, k)
    BY <2>5, <2>6, <2>7
  <2>9. now \in Nat
    BY <1>1, ReadingsAreNat
  <2>10. n \in Stamp
    BY <2>3, <2>9, ZeroIsStamp, GenerateExceeds
  <2>11. Fewer(Rest(Hub, p), cur)
    <3>1. Fewer(Rest(Hub, p), cursor)
      BY <2>1, TakenSockets
    <3>2. cursor \in [Link -> Cursor] /\ cursor[<<Hub, p>>] \in Cursor
      BY <1>1 DEF SendInv
    <3>3. /\ [cursor[<<Hub, p>>] EXCEPT !.received = n, !.sent = n] \in Cursor
          /\ [cursor[<<Hub, p>>] EXCEPT !.received = n, !.sent = n].confirmed
                = cursor[<<Hub, p>>].confirmed
      BY <2>10, <3>2 DEF Cursor
    <3>4. cur \in [Link -> Cursor] /\ \A l \in Link : cur[l].confirmed = cursor[l].confirmed
      BY <1>1, <2>4, <3>2, <3>3
    <3> QED BY <3>1, <3>4 DEF Fewer
  <2>12. Truthful(Hub, out)
    <3>1. Missed(Hub, p, cur) \in SUBSET log[Hub]
      BY DEF Missed
    <3>2. /\ t \in Seq(FrameType)
          /\ \A f \in Frames(t) : \E e \in Entry : f = Push(e) /\ e.ver # Missing
      BY <1>1, <2>6, <3>1, DrainTruthful
    <3> QED BY <1>1, <2>7, <3>2, OnlyTruthful
  <2>13. SendInv'
    <3>1. UNCHANGED <<conn, parked, seen>>
      BY <2>1 DEF streams
    <3> QED BY <1>1, <2>8, <2>11, <2>12, <3>1, QuietOffer
  <2>14. HostInv'
    <3>1. wall' \in [Site -> Nat]
      BY <1>1, <2>2, <2>9 DEF HostInv
    <3> QED BY <1>1, <2>1, <3>1 DEF HostInv, disk, spoke, streams
  <2> QED BY <2>1, <2>13, <2>14 DEF WireInv, TableStep, disk
<1> QED BY <1>3, <1>4, <1>5, <1>6, <1>7 DEF HubServes

LEMMA ReceivePageStep ==
    ASSUME WireInv, NEW p \in Spoke, ReceivePage(p)
    PROVE  WireInv' /\ TableStep
<1>1. HostInv /\ SendInv /\ p \in Site
  BY SpokeLinks DEF WireInv
<1>2. PICK f : f = Frame(p, Hub)
  OBVIOUS
<1>3. PICK b : b = backfill[p]
  OBVIOUS
<1>4. /\ Next1(p, Hub, "consistency_response") /\ chan' = Rest(p, Hub)
      /\ UNCHANGED <<disk, cursor, joined, conn, pressed, opened, streams, wall, written, faults, seen>>
  BY DEF ReceivePage
<1>5. \/ backfill' = backfill
      \/ backfill' = [backfill EXCEPT ![p] =
            [b EXCEPT !.got = [@ EXCEPT ![f.row] = f.ver],
                      !.left = IF f.last THEN Compared ELSE @ \ {f.row},
                      !.phase = IF f.last THEN "diff" ELSE @]]
  BY <1>2, <1>3 DEF ReceivePage
<1>6. f.row \in Row /\ f.ver \in Version /\ f.last \in BOOLEAN
  <2>1. f \in FrameType /\ f.type = "consistency_response"
    BY <1>1, <1>2, <1>4, Taking
  <2> QED BY <2>1, FrameFields DEF Streamed
<1>7. b \in Backfill /\ backfill \in [Spoke -> Backfill]
  BY <1>1, <1>3 DEF HostInv
<1>8. [b EXCEPT !.got = [@ EXCEPT ![f.row] = f.ver],
                !.left = IF f.last THEN Compared ELSE @ \ {f.row},
                !.phase = IF f.last THEN "diff" ELSE @] \in Backfill
  <2>1. PICK rows \in SUBSET Row : rows = IF f.last THEN Compared ELSE b.left \ {f.row}
    BY <1>7, ReplicationAssumption DEF Backfill
  <2>2. PICK phase \in {"idle", "asked", "diff", "pulling"} :
            phase = IF f.last THEN "diff" ELSE b.phase
    BY <1>7 DEF Backfill
  <2>3. [b EXCEPT !.got = [@ EXCEPT ![f.row] = f.ver], !.left = rows, !.phase = phase] \in Backfill
    BY <1>6, <1>7, BackfillTypes
  <2> QED BY <2>1, <2>2, <2>3
<1>9. backfill' \in [Spoke -> Backfill]
  BY <1>5, <1>7, <1>8
<1>10. SendInv'
  <2>1. /\ Rest(p, Hub) \in [Link -> Seq(FrameType)]
        /\ \A l \in Link : Frames(Rest(p, Hub)[l]) \subseteq Frames(chan[l])
    BY <1>1, <1>4, Taking
  <2>2. UNCHANGED <<conn, pressed, parked, faults, seen, cursor>>
    BY <1>4 DEF streams
  <2> QED BY <1>1, <1>4, <2>1, <2>2, TakeSend
<1>11. HostInv'
  BY <1>1, <1>4, <1>9 DEF HostInv, disk, streams
<1> QED BY <1>4, <1>10, <1>11 DEF WireInv, TableStep, disk

\* A row the hub lacks is logged again and pushed; one it has newer is put down
\* for the pull.
LEMMA DiffRowStep ==
    ASSUME WireInv, NEW p \in Spoke, NEW r \in Row, DiffRow(p, r)
    PROVE  WireInv' /\ TableStep
<1>1. HostInv /\ SendInv /\ p \in Site
  BY SpokeLinks DEF WireInv
<1>2. PICK b : b = backfill[p]
  OBVIOUS
<1>3. PICK mine : mine = db[p][r]
  OBVIOUS
<1>4. /\ backfill' = [backfill EXCEPT ![p] =
            [b EXCEPT !.left = @ \ {r},
                      !.pulls = IF MustPull(mine, b.got[r]) THEN @ \cup {r} ELSE @]]
      /\ UNCHANGED <<db, joined, conn, opened, streams, written, seen>>
  BY <1>2, <1>3 DEF DiffRow
<1>5. backfill' \in [Spoke -> Backfill]
  <2>1. b \in Backfill /\ backfill \in [Spoke -> Backfill]
    BY <1>1, <1>2 DEF HostInv
  <2>2. PICK pulls \in SUBSET Row : pulls = IF MustPull(mine, b.got[r]) THEN b.pulls \cup {r} ELSE b.pulls
    BY <2>1 DEF Backfill
  <2>3. b.left \ {r} \in SUBSET Row
    BY <2>1 DEF Backfill
  <2>4. [b EXCEPT !.left = b.left \ {r}, !.pulls = pulls] \in Backfill
    BY <2>1, <2>3 DEF Backfill
  <2> QED BY <1>4, <2>1, <2>2, <2>4
<1>6. db \in [Site -> [Row -> Version]] /\ mine \in Version /\ log[p] \in SUBSET Entry
  BY <1>1, <1>3 DEF HostInv
<1>7. CASE MustPush(mine, b.got[r])
  <2>1. PICK now \in Readings(p) : \E n \in Stamps(log[p], now, Zero) :
          LET out == Flush([hlc |-> n, row |-> r, site |-> p, ver |-> mine]) IN
          /\ wall' = [wall EXCEPT ![p] = now]
          /\ log' = [log EXCEPT ![p] = createChangeLogEntry(@, n, r, p, mine)]
          /\ \E k \in Counts(out) : Offer(p, conn, chan, cursor, out, k)
    BY <1>2, <1>3, <1>7 DEF DiffRow
  <2>2. PICK n \in Stamps(log[p], now, Zero) :
          LET out == Flush([hlc |-> n, row |-> r, site |-> p, ver |-> mine]) IN
          /\ wall' = [wall EXCEPT ![p] = now]
          /\ log' = [log EXCEPT ![p] = createChangeLogEntry(@, n, r, p, mine)]
          /\ \E k \in Counts(out) : Offer(p, conn, chan, cursor, out, k)
    BY <2>1
  <2>3. PICK e : e = [hlc |-> n, row |-> r, site |-> p, ver |-> mine]
    OBVIOUS
  <2>4. now \in Nat
    BY <1>1, ReadingsAreNat
  <2>5. n \in Stamp /\ \A f \in log[p] : Before(f.hlc, n)
    BY <1>6, <2>4, StampsExceed, ZeroIsStamp
  <2>6. e \in Entry /\ e.ver = mine /\ e.row = r /\ e.hlc = n /\ mine # Missing
    BY <1>1, <1>6, <1>7, <2>3, <2>5 DEF Entry, MustPush
  <2>7. PICK out : out = Flush(e)
    OBVIOUS
  <2>8. /\ wall' = [wall EXCEPT ![p] = now] /\ log' = [log EXCEPT ![p] = @ \cup {e}]
        /\ \E k \in Counts(out) : Offer(p, conn, chan, cursor, out, k)
    BY <2>2, <2>3, <2>7 DEF createChangeLogEntry
  <2>9. db' = db /\ db' = [db EXCEPT ![p] = [@ EXCEPT ![e.row] = e.ver]]
    BY <1>1, <1>3, <1>4, <1>6, <2>6
  <2>10. Logged(p, e)
    BY <2>5, <2>6, <2>8, <2>9 DEF Logged
  <2>11. HostInv'
    <3>1. /\ db' \in [Site -> [Row -> Version]] /\ log' \in [Site -> SUBSET Entry]
          /\ \A g \in Site : LogOK(log'[g])
      BY <1>1, <2>10, LoggedTypes
    <3>2. wall' \in [Site -> Nat]
      BY <1>1, <2>4, <2>8 DEF HostInv
    <3> QED BY <1>1, <1>4, <1>5, <3>1, <3>2 DEF HostInv, streams
  <2>12. SendInv'
    <3>1. out \in [Site -> Seq(FrameType)] /\ \A q \in Site : Frames(out[q]) \subseteq {Push(e)}
      BY <1>6, <2>6, <2>7, FlushFrames
    <3>2. \A l \in Link : Good(seen', l, Push(e))
      BY <2>6, PushGood
    <3>3. Truthful(p, out)
      BY <3>1, <3>2, LinkParts DEF Truthful
    <3>4. UNCHANGED <<conn, parked, seen>>
      BY <1>4 DEF streams
    <3> QED BY <1>1, <2>8, <3>3, <3>4, SameSockets, QuietOffer
  <2> QED BY <1>1, <2>6, <2>10, <2>11, <2>12 DEF WireInv, TableStep
<1>8. CASE ~MustPush(mine, b.got[r])
  <2>1. UNCHANGED <<log, wall, cursor, pressed, chan, faults>>
    BY <1>2, <1>3, <1>8 DEF DiffRow
  <2>2. HostInv'
    BY <1>1, <1>4, <1>5, <2>1 DEF HostInv, streams
  <2>3. ConfirmedWasHandled'
    BY <1>1, <1>4, <2>1 DEF SendInv, ConfirmedWasHandled
  <2>4. SendInv'
    BY <1>1, <1>4, <2>1, <2>3 DEF SendInv, streams
  <2> QED BY <1>4, <2>1, <2>2, <2>4 DEF WireInv, TableStep
<1> QED BY <1>7, <1>8
LEMMA FinalAckTruthful ==
    ASSUME WireInv, NEW p \in Spoke
    PROVE  Truthful(p, FinalAck(p)) /\ Truthful(p, Nothing)
<1>1. p \in Site /\ Hub \in Site /\ db \in [Site -> [Row -> Version]]
  BY SpokeLinks DEF WireInv, HostInv
<1>2. RowPullAck \in FrameType /\ RowPullAck.type \notin {"changelog_ack", "changelog_push"}
  <2>1. RowPullAck \in FrameType
    BY <1>1, FramesMade
  <2> QED BY <2>1 DEF RowPullAck
<1>3. FinalAck(p) = Only(Hub, <<RowPullAck>>) \/ FinalAck(p) = Only(Hub, <<>>)
  BY DEF FinalAck
<1> QED BY <1>1, <1>2, <1>3, OneTruthful

LEMMA DoneType ==
    ASSUME WireInv, NEW p \in Spoke
    PROVE  Done(p) \in Backfill
<1>1. backfill[p].rid \in Nat
  BY DEF WireInv, HostInv, Backfill
<1> QED BY <1>1, IdleType DEF Done

LEMMA EndDiffStep ==
    ASSUME WireInv, NEW p \in Spoke, EndDiff(p)
    PROVE  WireInv' /\ TableStep
<1>1. HostInv /\ SendInv /\ p \in Site /\ Hub \in Site
  BY SpokeLinks DEF WireInv
<1>2. PICK b : b = backfill[p]
  OBVIOUS
<1>3. PICK out : out = IF b.pulls = {} THEN FinalAck(p) ELSE Only(Hub, <<RowPullRequest(b)>>)
  OBVIOUS
<1>4. PICK k \in Counts(out) :
        /\ Offer(p, conn, chan, cursor, out, k)
        /\ backfill' = [backfill EXCEPT ![p] =
                IF b.pulls # {} /\ k[Hub] = 1 THEN [b EXCEPT !.phase = "pulling"] ELSE Done(p)]
  BY <1>2, <1>3 DEF EndDiff
<1>5. UNCHANGED <<disk, joined, conn, opened, streams, wall, written, seen>>
  BY DEF EndDiff
<1>6. b \in Backfill /\ backfill \in [Spoke -> Backfill] /\ db \in [Site -> [Row -> Version]]
  BY <1>1, <1>2 DEF HostInv
<1>7. backfill' \in [Spoke -> Backfill]
  <2>1. [b EXCEPT !.phase = "pulling"] \in Backfill
    BY <1>6 DEF Backfill
  <2>2. Done(p) \in Backfill
    BY DoneType
  <2> QED BY <1>4, <1>6, <2>1, <2>2
<1>8. Truthful(p, out)
  <2>1. RowPullRequest(b) \in FrameType
    BY <1>6, FramesMade
  <2>2. RowPullRequest(b).type = "row_pull_request"
    BY DEF RowPullRequest
  <2>3. Truthful(p, Only(Hub, <<RowPullRequest(b)>>))
    BY <1>1, <2>1, <2>2, OneTruthful
  <2> QED BY <1>3, <2>3, FinalAckTruthful
<1>9. SendInv'
  <2>1. UNCHANGED <<conn, parked, seen>>
    BY <1>5 DEF streams
  <2> QED BY <1>1, <1>4, <1>8, <2>1, SameSockets, QuietOffer
<1>10. HostInv'
  BY <1>1, <1>5, <1>7 DEF HostInv, disk, streams
<1> QED BY <1>5, <1>9, <1>10 DEF WireInv, TableStep, disk

LEMMA ReceiveRowStep ==
    ASSUME WireInv, NEW p \in Spoke, ReceiveRow(p)
    PROVE  WireInv' /\ TableStep
<1>1. HostInv /\ SendInv /\ p \in Site /\ Hub \in Site
  BY SpokeLinks DEF WireInv
<1>2. PICK f : f = Frame(p, Hub)
  OBVIOUS
<1>3. PICK out : /\ out \in {FinalAck(p), Nothing}
                 /\ \E k \in Counts(out) : Offer(p, conn, Rest(p, Hub), cursor, out, k)
  BY DEF ReceiveRow
<1>4. /\ Next1(p, Hub, "row_pull_response")
      /\ db' = [db EXCEPT ![p] = applySnapshotRow(@, f.row, f.ver)]
      /\ backfill' = backfill \/ backfill' = [backfill EXCEPT ![p] = Done(p)]
      /\ UNCHANGED <<log, joined, conn, opened, streams, wall, written, seen>>
  BY <1>2 DEF ReceiveRow
<1>5. f.row \in Row /\ f.ver \in Version
  <2>1. f \in FrameType /\ f.type = "row_pull_response"
    BY <1>1, <1>2, <1>4, Taking
  <2> QED BY <2>1, FrameFields DEF Streamed
<1>6. Pulled(p, f.row, f.ver)
  BY <1>4 DEF Pulled
<1>7. backfill' \in [Spoke -> Backfill]
  BY <1>1, <1>4, DoneType DEF HostInv
<1>8. db' \in [Site -> [Row -> Version]]
  <2>1. db[p] \in [Row -> Version] /\ db \in [Site -> [Row -> Version]]
    BY <1>1 DEF HostInv
  <2>2. applySnapshotRow(db[p], f.row, f.ver) \in [Row -> Version]
    BY <1>5, <2>1 DEF applySnapshotRow
  <2> QED BY <1>4, <2>1, <2>2
<1>9. SendInv'
  <2>1. UNCHANGED <<conn, parked, seen>>
    BY <1>4 DEF streams
  <2>2. Truthful(p, out) /\ Fewer(Rest(p, Hub), cursor)
    BY <1>3, <1>4, FinalAckTruthful, TakenSockets
  <2> QED BY <1>1, <1>3, <2>1, <2>2, QuietOffer
<1>10. HostInv'
  BY <1>1, <1>4, <1>7, <1>8 DEF HostInv, streams
<1> QED BY <1>5, <1>6, <1>9, <1>10 DEF WireInv, TableStep

LEMMA TimeoutStep ==
    ASSUME WireInv, NEW p \in Spoke, Timeout(p)
    PROVE  WireInv' /\ TableStep
<1>1. HostInv /\ SendInv
  BY DEF WireInv
<1>2. PICK b : b = backfill[p]
  OBVIOUS
<1>3. /\ faults' = faults \/ faults' = faults + 1
      /\ backfill' = [backfill EXCEPT ![p] =
            IF b.phase = "asked" THEN [b EXCEPT !.phase = "idle", !.rid = @ + 1]
            ELSE [Idle EXCEPT !.rid = b.rid + 1]]
      /\ UNCHANGED <<disk, cursor, joined, conn, pressed, chan, opened, streams, wall, written, seen>>
  BY <1>2 DEF Timeout
<1>4. backfill' \in [Spoke -> Backfill]
  <2>1. b \in Backfill /\ backfill \in [Spoke -> Backfill] /\ b.rid + 1 \in Nat
    BY <1>1, <1>2 DEF HostInv, Backfill
  <2>2. \A n \in Nat : [b EXCEPT !.phase = "idle", !.rid = n] \in Backfill
    BY <2>1 DEF Backfill
  <2>3. [b EXCEPT !.phase = "idle", !.rid = @ + 1] \in Backfill
    BY <2>1, <2>2
  <2>4. [Idle EXCEPT !.rid = b.rid + 1] \in Backfill
    BY <2>1, IdleType
  <2> QED BY <1>3, <2>1, <2>3, <2>4
<1>5. HostInv'
  BY <1>1, <1>3, <1>4 DEF HostInv, disk, streams
<1>6. ConfirmedWasHandled'
  BY <1>1, <1>3 DEF SendInv, ConfirmedWasHandled
<1>7. faults' \in Nat
  BY <1>1, <1>3 DEF SendInv
<1>8. SendInv'
  BY <1>1, <1>3, <1>6, <1>7 DEF SendInv, streams
<1> QED BY <1>3, <1>5, <1>8 DEF WireInv, TableStep, disk

LEMMA PruneStep ==
    ASSUME WireInv, NEW h \in Site, Prune(h)
    PROVE  WireInv' /\ TableStep
<1>1. HostInv /\ SendInv
  BY DEF WireInv
<1>2. PICK R : R = {cursor[<<h, p>>].received : p \in Tracked(h)}
  OBVIOUS
<1>3. /\ log' = [log EXCEPT ![h] = pruneChangeLog(log[h], R)]
      /\ pruneChangeLog(log[h], R) # log[h]
      /\ UNCHANGED <<db, cursor, joined, conn, pressed, chan, spoke, streams, wall, written, faults, seen>>
  BY <1>2 DEF Prune
<1>4. R \in SUBSET Stamp
  <2> SUFFICES ASSUME NEW p \in Tracked(h), h # Hub => h \in Spoke
               PROVE  cursor[<<h, p>>].received \in Stamp
    BY <1>2 DEF Spoke
  <2>1. <<h, p>> \in Link
    <3>1. CASE h = Hub
      <4>1. p \in Spoke
        BY <1>1, <3>1 DEF Tracked, HostInv
      <4> QED BY <3>1, <4>1, SpokeLinks
    <3>2. CASE h # Hub
      BY <3>2, SpokeLinks DEF Tracked
    <3> QED BY <3>1, <3>2
  <2> QED BY <1>1, <2>1 DEF SendInv, Cursor
<1>5. Pruned(h, R)
  BY <1>3 DEF Pruned
<1>6. log' \in [Site -> SUBSET Entry] /\ \A g \in Site : log'[g] \subseteq log[g]
  <2>1. pruneChangeLog(log[h], R) \subseteq log[h]
    BY DEF pruneChangeLog
  <2> QED BY <1>1, <1>3, <2>1 DEF HostInv
<1>7. \A g \in Site : LogOK(log'[g])
  BY <1>1, <1>6, FS_Subset DEF HostInv, LogOK
<1>8. HostInv'
  BY <1>1, <1>3, <1>6, <1>7 DEF HostInv, spoke, streams
<1>9. ConfirmedWasHandled'
  BY <1>1, <1>3 DEF SendInv, ConfirmedWasHandled
<1>10. SendInv'
  BY <1>1, <1>3, <1>9 DEF SendInv, streams
<1> QED BY <1>4, <1>5, <1>8, <1>10 DEF WireInv, TableStep

---------------------------------------------------------------------------
(* The theorems *)

LEMMA StutterStep ==
    ASSUME WireInv, UNCHANGED vars
    PROVE  WireInv' /\ TableStep
<1>1. HostInv'
  BY DEF WireInv, HostInv, vars, disk, spoke, streams
<1>2. ConfirmedWasHandled'
  BY DEF WireInv, SendInv, ConfirmedWasHandled, vars
<1>3. SendInv'
  BY <1>2 DEF WireInv, SendInv, vars, streams
<1> QED BY <1>1, <1>3 DEF WireInv, TableStep, vars, disk

\* Every step keeps the sockets and the hosts as they should be and is one of
\* four things for tables and logs.
LEMMA NextStep ==
    ASSUME WireInv, [Next]_vars
    PROVE  WireInv' /\ TableStep
<1>1. ASSUME NEW l \in Link,
             Changelog(l[1], l[2]) \/ Open(l[1], l[2]) \/ ClearPressure(l[1], l[2])
      PROVE  WireInv' /\ TableStep
  <2>1. l[1] \in Site /\ l[2] \in Site /\ <<l[1], l[2]>> \in Link
    BY LinkParts
  <2> QED BY <1>1, <2>1, ReceivePushStep, ReceiveAckStep, OpenStep, ClearPressureStep DEF Changelog
<1>2. ASSUME NEW p \in Spoke, Disconnect(p) \/ HubServes(p) \/ SpokeBackfills(p)
      PROVE  WireInv' /\ TableStep
  BY <1>2, DisconnectStep, HubServesStep, StartBackfillStep, ReceivePageStep, DiffRowStep,
     EndDiffStep, ReceiveRowStep, TimeoutStep DEF SpokeBackfills
<1> QED BY <1>1, <1>2, WriteStep, RestartStep, PruneStep, StutterStep DEF Next

LEMMA InitWire == Init => WireInv
<1> SUFFICES ASSUME Init PROVE WireInv
  OBVIOUS
<1>1. <<>> \in Seq(FrameType) /\ Frames(<<>>) = {}
  BY FramesNone
<1>2. Missing \in Version /\ Zero \in Stamp
  BY ZeroIsStamp DEF Missing, Version
<1>3. HostInv
  <2>1. db \in [Site -> [Row -> Version]] /\ wall \in [Site -> Nat]
    BY <1>2 DEF Init
  <2>2. log \in [Site -> SUBSET Entry] /\ \A h \in Site : LogOK(log[h])
    BY FS_EmptySet DEF Init, LogOK
  <2>3. backfill \in [Spoke -> Backfill]
    BY IdleType DEF Init
  <2>4. paging \in [Spoke -> Request] /\ pulling \in [Spoke -> Request]
    BY DEF Init, Request
  <2>5. written = {} /\ IsFiniteSet(written)
    BY FS_EmptySet DEF Init
  <2> QED BY <2>1, <2>2, <2>3, <2>4, <2>5 DEF Init, HostInv
<1>4. SendInv
  <2>1. chan \in [Link -> Seq(FrameType)] /\ \A l \in Link : Frames(chan[l]) = {}
    BY <1>1 DEF Init
  <2>2. parked \in [Spoke -> Seq(FrameType)]
        /\ \A p \in Spoke : parked[p] = <<>> /\ Frames(parked[p]) = {}
    BY <1>1 DEF Init
  <2>3. cursor \in [Link -> Cursor] /\ \A l \in Link : cursor[l].confirmed = Zero
    BY <1>2 DEF Init, Cursor
  <2> QED BY <2>1, <2>2, <2>3 DEF Init, SendInv, ConfirmedWasHandled
<1> QED BY <1>3, <1>4 DEF WireInv

LEMMA WireCorrect == Spec => []WireInv
<1>1. WireInv /\ [Next]_vars => WireInv'
  BY NextStep
<1> QED BY <1>1, InitWire, PTL DEF Spec

\* Tables, logs, cursors, sockets and streams keep their types; a latch belongs
\* to an open connection and a frame is parked only behind a latch.
THEOREM ReplicationTypeCorrect == Spec => []TypeOK
<1>1. WireInv => TypeOK
  BY DEF WireInv, HostInv, SendInv, TypeOK
<1> QED BY <1>1, WireCorrect, PTL

\* last_confirmed only ever names a stamp the peer has handled
\* (handleChangelogAck), through lost connections, restarts and refused frames.
THEOREM ConfirmedWasHandledCorrect == Spec => []ConfirmedWasHandled
<1>1. WireInv => ConfirmedWasHandled
  BY DEF WireInv, SendInv
<1> QED BY <1>1, WireCorrect, PTL
---------------------------------------------------------------------------
(* What the tables may do: every step is one of the four of TableStep *)

\* Replication never replaces a row by one that is not newer
\* (applyLWWReducer, applySnapshotRows): only a local write may.
THEOREM OnlyNewerReplacesCorrect == Spec => OnlyNewerReplaces
<1> DEFINE NewerOnly == \A h \in Site, r \in Row :
              db'[h][r] # db[h][r] /\ written' = written
                  => db[h][r] = Missing \/ db'[h][r].mod > db[h][r].mod
<1>1. ASSUME WireInv, [Next]_vars PROVE NewerOnly
  <2> SUFFICES ASSUME NEW h \in Site, NEW r \in Row, db'[h][r] # db[h][r], written' = written
               PROVE  Wins(db[h][r], db'[h][r])
    BY DEF Wins
  <2>1. TableStep /\ db \in [Site -> [Row -> Version]]
    BY <1>1, NextStep DEF WireInv, HostInv
  <2>2. ASSUME NEW g \in Site, NEW e \in Entry, Logged(g, e)
        PROVE  Wins(db[h][r], db'[h][r])
    <3>1. Wins(db[g][e.row], e.ver) /\ db' = [db EXCEPT ![g] = [@ EXCEPT ![e.row] = e.ver]]
      BY <2>2 DEF Logged
    <3>2. g = h
      BY <2>1, <3>1
    <3>3. db'[h] = [db[h] EXCEPT ![e.row] = e.ver]
      BY <2>1, <3>1, <3>2
    <3>4. e.row = r /\ db'[h][r] = e.ver
      BY <2>1, <3>3
    <3> QED BY <3>1, <3>2, <3>4
  <2>3. ASSUME NEW p \in Spoke, NEW q \in Row, NEW v \in Version, Pulled(p, q, v)
        PROVE  Wins(db[h][r], db'[h][r])
    <3>1. db' = [db EXCEPT ![p] = applySnapshotRow(@, q, v)]
      BY <2>3 DEF Pulled
    <3>2. p = h
      BY <2>1, <3>1
    <3>3. db'[h] = applySnapshotRow(db[h], q, v)
      BY <2>1, <3>1, <3>2
    <3>4. Wins(db[h][q], v) /\ db'[h] = [db[h] EXCEPT ![q] = v]
      BY <3>3 DEF applySnapshotRow
    <3>5. q = r /\ db'[h][r] = v
      BY <2>1, <3>4
    <3> QED BY <3>4, <3>5
  <2> QED BY <2>1, <2>2, <2>3 DEF TableStep, Pruned
<1>2. WireInv /\ [Next]_vars => NewerOnly
  BY <1>1
<1> QED BY <1>2, WireCorrect, PTL DEF Spec, OnlyNewerReplaces

\* One host: its outbox L ends in its table t, which on a spoke may have pulled a
\* newer row since.
Ends(h, L, t) ==
    \A e \in L : Newest(L, e.row, e) =>
        \/ t[e.row] = e.ver
        \/ h # Hub /\ t[e.row].mod > e.ver.mod

\* An entry stamped after all the others becomes the only newest one of its row
\* and leaves the newest entries of the other rows as they were.
LEMMA LoggedEnds ==
    ASSUME NEW h \in Site, NEW L \in SUBSET Entry, NEW t \in [Row -> Version], NEW e \in Entry,
           \A f \in L : Before(f.hlc, e.hlc), Ends(h, L, t)
    PROVE  Ends(h, L \cup {e}, [t EXCEPT ![e.row] = e.ver])
<1> DEFINE M == L \cup {e}
           u == [t EXCEPT ![e.row] = e.ver]
<1> SUFFICES ASSUME NEW f \in M, Newest(M, f.row, f)
             PROVE  u[f.row] = f.ver \/ (h # Hub /\ u[f.row].mod > f.ver.mod)
  BY DEF Ends
<1>1. e.row \in Row /\ f.row \in Row
  BY DEF Entry
<1>2. CASE f = e
  BY <1>1, <1>2
<1>3. CASE f # e
  <2>1. f \in L /\ Before(f.hlc, e.hlc)
    BY <1>3
  <2>2. f.row # e.row
    BY <2>1 DEF Newest
  <2>3. Newest(L, f.row, f)
    BY <2>1 DEF Newest
  <2>4. u[f.row] = t[f.row]
    BY <1>1, <2>2
  <2> QED BY <2>1, <2>3, <2>4 DEF Ends
<1> QED BY <1>2, <1>3

\* A pulled row that wins is newer than the newest entry of its row.
LEMMA PulledEnds ==
    ASSUME NEW h \in Spoke, NEW L \in SUBSET Entry, LogOK(L), NEW t \in [Row -> Version],
           NEW r \in Row, NEW v \in Version, Ends(h, L, t)
    PROVE  Ends(h, L, applySnapshotRow(t, r, v))
<1>1. CASE ~Wins(t[r], v)
  BY <1>1 DEF applySnapshotRow
<1>2. CASE Wins(t[r], v)
  <2> DEFINE u == [t EXCEPT ![r] = v]
  <2>1. applySnapshotRow(t, r, v) = u
    BY <1>2 DEF applySnapshotRow
  <2> SUFFICES ASSUME NEW e \in L, Newest(L, e.row, e)
               PROVE  u[e.row] = e.ver \/ (h # Hub /\ u[e.row].mod > e.ver.mod)
    BY <2>1 DEF Ends
  <2>2. /\ e.row \in Row /\ e.ver \in Version /\ e.ver.mod \in Nat
        /\ e.ver # Missing /\ h # Hub
    BY DEF Entry, Version, LogOK, Spoke
  <2>3. t[e.row] = e.ver \/ t[e.row].mod > e.ver.mod
    BY DEF Ends
  <2>4. CASE e.row # r
    <3>1. u[e.row] = t[e.row]
      BY <2>2, <2>4
    <3> QED BY <2>2, <2>3, <3>1
  <2>5. CASE e.row = r
    <3>1. u[e.row] = v
      BY <2>5
    <3>2. t[r] # Missing
      BY <2>2, <2>3, <2>5 DEF Missing
    <3>3. v.mod > t[r].mod
      BY <1>2, <3>2 DEF Wins
    <3>4. v.mod \in Nat /\ t[r].mod \in Nat
      BY DEF Version
    <3>5. v.mod > e.ver.mod
      BY <2>2, <2>3, <2>5, <3>3, <3>4
    <3> QED BY <2>2, <3>1, <3>5
  <2> QED BY <2>4, <2>5
<1> QED BY <1>1, <1>2

\* What pruning leaves is everything after the least cursor: an entry that is the
\* newest of its row afterwards was so before.
LEMMA PrunedEnds ==
    ASSUME NEW h \in Site, NEW L \in SUBSET Entry, NEW t, NEW R \in SUBSET Stamp, Ends(h, L, t)
    PROVE  Ends(h, pruneChangeLog(L, R), t)
<1> DEFINE M == {f \in L : \E c \in R : Before(c, f.hlc)}
<1>1. Ends(h, M, t)
  <2> SUFFICES ASSUME NEW e \in M, Newest(M, e.row, e)
               PROVE  t[e.row] = e.ver \/ (h # Hub /\ t[e.row].mod > e.ver.mod)
    BY DEF Ends
  <2>1. PICK c \in R : Before(c, e.hlc)
    OBVIOUS
  <2>2. ASSUME NEW f \in L, f.row = e.row, Before(e.hlc, f.hlc)
        PROVE  FALSE
    <3>1. c \in Stamp /\ e.hlc \in Stamp /\ f.hlc \in Stamp
      BY DEF Entry
    <3>2. Before(c, f.hlc)
      BY <2>1, <2>2, <3>1, BeforeTransitive
    <3>3. f \in M
      BY <3>2
    <3> QED BY <2>2, <3>3 DEF Newest
  <2>3. e \in L /\ Newest(L, e.row, e)
    BY <2>2 DEF Newest
  <2> QED BY <2>3 DEF Ends
<1> QED BY <1>1 DEF pruneChangeLog

\* The outbox of a host never ends in a version the host's table has lost: the
\* newest entry of a row is what the table holds, or on a spoke something newer
\* was pulled (createChangeLogEntry, applySnapshotRows, pruneChangeLog).
THEOREM LogEndsInTableCorrect == Spec => []LogEndsInTable
<1>1. LogEndsInTable <=> \A h \in Site : Ends(h, log[h], db[h])
  BY DEF LogEndsInTable, Ends
<1>2. LogEndsInTable' <=> \A h \in Site : Ends(h, log'[h], db'[h])
  BY DEF LogEndsInTable, Ends
<1>3. Init => LogEndsInTable
  BY DEF Init, LogEndsInTable
<1>4. ASSUME WireInv, LogEndsInTable, [Next]_vars
      PROVE  LogEndsInTable'
  <2> SUFFICES ASSUME NEW h \in Site PROVE Ends(h, log'[h], db'[h])
    BY <1>2
  <2>1. /\ TableStep /\ db \in [Site -> [Row -> Version]] /\ log \in [Site -> SUBSET Entry]
        /\ LogOK(log[h]) /\ Ends(h, log[h], db[h])
    BY <1>1, <1>4, NextStep DEF WireInv, HostInv
  <2>2. ASSUME NEW g \in Site, NEW e \in Entry, Logged(g, e)
        PROVE  Ends(h, log'[h], db'[h])
    <3>1. /\ log' = [log EXCEPT ![g] = @ \cup {e}] /\ \A f \in log[g] : Before(f.hlc, e.hlc)
          /\ db' = [db EXCEPT ![g] = [@ EXCEPT ![e.row] = e.ver]]
      BY <2>2 DEF Logged
    <3>2. CASE g # h
      BY <2>1, <3>1, <3>2
    <3>3. CASE g = h
      <4>1. log'[h] = log[h] \cup {e} /\ db'[h] = [db[h] EXCEPT ![e.row] = e.ver]
        BY <2>1, <3>1, <3>3
      <4>2. log[h] \in SUBSET Entry /\ db[h] \in [Row -> Version]
        BY <2>1
      <4>3. Ends(h, log[h] \cup {e}, [db[h] EXCEPT ![e.row] = e.ver])
        BY <2>1, <3>1, <3>3, <4>2, LoggedEnds
      <4> QED BY <4>1, <4>3
    <3> QED BY <3>2, <3>3
  <2>3. ASSUME NEW p \in Spoke, NEW r \in Row, NEW v \in Version, Pulled(p, r, v)
        PROVE  Ends(h, log'[h], db'[h])
    <3>1. log' = log /\ db' = [db EXCEPT ![p] = applySnapshotRow(@, r, v)]
      BY <2>3 DEF Pulled
    <3>2. CASE p # h
      BY <2>1, <3>1, <3>2
    <3>3. CASE p = h
      <4>1. db'[h] = applySnapshotRow(db[h], r, v)
        BY <2>1, <3>1, <3>3
      <4>2. log[h] \in SUBSET Entry /\ db[h] \in [Row -> Version]
        BY <2>1
      <4>3. Ends(h, log[h], applySnapshotRow(db[h], r, v))
        BY <2>1, <3>3, <4>2, PulledEnds
      <4> QED BY <3>1, <4>1, <4>3
    <3> QED BY <3>2, <3>3
  <2>4. ASSUME NEW g \in Site, NEW R \in SUBSET Stamp, Pruned(g, R)
        PROVE  Ends(h, log'[h], db'[h])
    <3>1. db' = db /\ log' = [log EXCEPT ![g] = pruneChangeLog(@, R)]
      BY <2>4 DEF Pruned
    <3>2. log'[h] = log[h] \/ log'[h] = pruneChangeLog(log[h], R)
      BY <2>1, <3>1
    <3>3. Ends(h, pruneChangeLog(log[h], R), db[h])
      BY <2>1, PrunedEnds
    <3> QED BY <2>1, <3>1, <3>2, <3>3
  <2> QED BY <2>1, <2>2, <2>3, <2>4 DEF TableStep
<1>5. WireInv /\ LogEndsInTable /\ [Next]_vars => LogEndsInTable'
  BY <1>4
<1> QED BY <1>3, <1>5, WireCorrect, PTL DEF Spec

============================================================================
