-------------------------- MODULE WorkSpoolProofs --------------------------
(***************************************************************************)
(* Theorems about the durable-work spool for every set of hosts, every set  *)
(* of work, every routing and every value of the budgets.                   *)
(***************************************************************************)
EXTENDS WorkSpool, TLAPS

---------------------------------------------------------------------------
(* Every statement of durable-work.ts leaves a table behind. *)

\* Every row a statement writes is a row.
LEMMA RowShapes ==
    ASSUME NEW r \in Row, NEW e \in LastError, NEW k \in Nat
    PROVE  /\ Absent \in Row
           /\ DeadLettered(r, e) \in Row /\ Repended(r) \in Row /\ Retired(r) \in Row
           /\ Claimed(r, k) \in Row /\ Released(r) \in Row /\ ClaimRetired(r) \in Row
           /\ ChargeTransfer(r) \in Row /\ Reopened(r) \in Row
<1>1. Absent \in Row
  BY DEF Row, Absent, ClaimState, LastError
<1>2. DeadLettered(r, e) \in Row /\ Repended(r) \in Row /\ Retired(r) \in Row
  BY DEF Row, DeadLettered, Repended, Retired, ClaimState
<1>3. r.att \in Nat /\ r.att + 1 \in Nat /\ r.rec + 1 \in Nat
  BY DEF Row
<1>4. Claimed(r, k) \in Row
  <2>1. \A n \in Nat : [r EXCEPT !.st = "processing", !.tok = k, !.att = n] \in Row
    BY DEF Row, ClaimState
  <2> QED BY <1>3, <2>1 DEF Claimed
<1>5. Released(r) \in Row
  <2>1. \A n \in Nat : [r EXCEPT !.st = "pending", !.tok = 0, !.att = n] \in Row
    BY DEF Row, ClaimState
  <2>2. (IF r.att > 0 THEN r.att - 1 ELSE 0) \in Nat
    BY <1>3
  <2> QED BY <2>1, <2>2 DEF Released
<1>6. ClaimRetired(r) \in Row
  <2>1. \A n \in Nat : [r EXCEPT !.st = "consumed", !.tok = 0, !.att = n] \in Row
    BY DEF Row, ClaimState
  <2> QED BY <1>3, <2>1 DEF ClaimRetired
<1>7. Reopened(r) \in Row
  <2>1. \A n \in Nat : [r EXCEPT !.st = "pending", !.tok = 0, !.err = "none",
                                 !.att = 0, !.rec = n] \in Row
    BY DEF Row, ClaimState, LastError
  <2> QED BY <1>3, <2>1 DEF Reopened
<1>8. ChargeTransfer(r) \in Row
  <2>1. DeadLettered(r, "exhausted") \in Row
    BY DEF Row, DeadLettered, ClaimState, LastError
  <2>2. \A n \in Nat : [r EXCEPT !.st = "pending", !.tok = 0, !.att = n] \in Row
    BY DEF Row, ClaimState
  <2> QED BY <1>3, <2>1, <2>2 DEF ChargeTransfer
<1> QED BY <1>1, <1>2, <1>4, <1>5, <1>6, <1>7, <1>8

\* Insertion, claims and their outcomes.
LEMMA ClaimTables ==
    ASSUME NEW t \in Table, NEW S, NEW ttl \in [Work -> BOOLEAN], NEW g \in [Work -> Nat],
           NEW w, NEW tok
    PROVE  /\ insertDurableWork(t, S, ttl) \in Table
           /\ claimDurableWorkByIds(t, S, g) \in Table
           /\ acknowledgeDurableWork(t, w, tok) \in Table
           /\ releaseDurableWorkClaim(t, w, tok) \in Table
           /\ claimAndConsumeDurableWorkByIds(t, S, w, tok) \in Table
           /\ consumePendingDispatchByIdempotencyKey(t, w) \in Table
<1>1. insertDurableWork(t, S, ttl) \in Table
  <2>1. \A b \in BOOLEAN : [Absent EXCEPT !.st = "pending", !.ttl = b] \in Row
    BY DEF Row, Absent, ClaimState, LastError
  <2>2. \A v \in Work : t[v] \in Row /\ [Absent EXCEPT !.st = "pending", !.ttl = ttl[v]] \in Row
    BY <2>1 DEF Table
  <2> QED BY <2>2 DEF insertDurableWork, Table
<1>2. \A v \in Work : /\ Claimed(t[v], g[v]) \in Row /\ Retired(t[v]) \in Row
                      /\ Released(t[v]) \in Row /\ ClaimRetired(t[v]) \in Row
  BY RowShapes DEF Table, LastError
<1>3. claimDurableWorkByIds(t, S, g) \in Table
  BY <1>2 DEF claimDurableWorkByIds, Table
<1>4. acknowledgeDurableWork(t, w, tok) \in Table
  BY <1>2 DEF acknowledgeDurableWork, Table
<1>5. releaseDurableWorkClaim(t, w, tok) \in Table
  BY <1>2 DEF releaseDurableWorkClaim, Table
<1>6. claimAndConsumeDurableWorkByIds(t, S, w, tok) \in Table
  BY <1>2 DEF claimAndConsumeDurableWorkByIds, Table
<1>7. consumePendingDispatchByIdempotencyKey(t, w) \in Table
  BY <1>2 DEF consumePendingDispatchByIdempotencyKey, Table
<1> QED BY <1>1, <1>3, <1>4, <1>5, <1>6, <1>7

\* Transfers.
LEMMA TransferTables ==
    ASSUME NEW t \in Table, NEW S, NEW g \in [Work -> Nat], NEW w, NEW p
    PROVE  /\ beginDurableWorkTransfer(t, S, g) \in Table
           /\ acknowledgeDurableWorkTransfer(t, S) \in Table
           /\ sweepStaleTransferringDurableWork(t, S) \in Table
           /\ redriveTransferringDurableWork(t, w) \in Table
           /\ reclassifyTransferExhaustedDeadLetters(t, S, p) \in Table
<1>1. beginDurableWorkTransfer(t, S, g) \in Table
  BY DEF beginDurableWorkTransfer, Table, Row, ClaimState
<1>2. acknowledgeDurableWorkTransfer(t, S) \in Table
  BY DEF acknowledgeDurableWorkTransfer, Absent, Table, Row, ClaimState, LastError
<1>3. \A v \in Work : ChargeTransfer(t[v]) \in Row
  BY RowShapes DEF Table, LastError
<1>4. sweepStaleTransferringDurableWork(t, S) \in Table
  BY <1>3 DEF sweepStaleTransferringDurableWork, Table
<1>5. redriveTransferringDurableWork(t, w) \in Table
  BY <1>3 DEF redriveTransferringDurableWork, Table
<1>6. reclassifyTransferExhaustedDeadLetters(t, S, p) \in Table
  <2>1. \A v \in Work : Reopened(t[v]) \in Row
    BY RowShapes DEF Table, LastError
  <2> QED BY <2>1 DEF reclassifyTransferExhaustedDeadLetters, Table
<1> QED BY <1>1, <1>2, <1>4, <1>5, <1>6

\* Terminal states, recovery, operator and retention.
LEMMA TerminalTables ==
    ASSUME NEW t \in Table, NEW S, NEW w, NEW tok, NEW site, NEW ttl \in BOOLEAN
    PROVE  /\ deadLetterExpiredDurableWork(t, S) \in Table
           /\ deadLetterClaimedDurableWork(t, w, tok) \in Table
           /\ deadLetterPendingDurableWork(t, w) \in Table
           /\ resetProcessingDurableWork(t, site) \in Table
           /\ resetTransferringLocalDurableWork(t) \in Table
           /\ resetProcessingDurableDispatchForThread(t, S) \in Table
           /\ redriveDeadLetterDurableWork(t, w, ttl) \in Table
           /\ DeleteRows(t, S) \in Table
<1>1. deadLetterExpiredDurableWork(t, S) \in Table
  BY DEF deadLetterExpiredDurableWork, DeadLettered, Table, Row, ClaimState, LastError
<1>2. \A v \in Work : DeadLettered(t[v], "failed") \in Row
  BY DEF DeadLettered, Table, Row, ClaimState, LastError
<1>3. deadLetterClaimedDurableWork(t, w, tok) \in Table
  BY <1>2 DEF deadLetterClaimedDurableWork, Table
<1>4. deadLetterPendingDurableWork(t, w) \in Table
  BY <1>2 DEF deadLetterPendingDurableWork, Table
<1>5. resetProcessingDurableWork(t, site) \in Table
  BY DEF resetProcessingDurableWork, Repended, Table, Row, ClaimState
<1>6. resetTransferringLocalDurableWork(t) \in Table
  BY DEF resetTransferringLocalDurableWork, Repended, Table, Row, ClaimState
<1>7. redriveDeadLetterDurableWork(t, w, ttl) \in Table
  BY DEF redriveDeadLetterDurableWork, Table, Row, ClaimState
<1>8. DeleteRows(t, S) \in Table
  BY DEF DeleteRows, Absent, Table, Row, ClaimState, LastError
<1>9. resetProcessingDurableDispatchForThread(t, S) \in Table
  BY DEF resetProcessingDurableDispatchForThread, Repended, Table, Row, ClaimState
<1> QED BY <1>1, <1>3, <1>4, <1>5, <1>6, <1>7, <1>8, <1>9

---------------------------------------------------------------------------
(* Type correctness *)

LEMMA InitTypeOK == Init => TypeOK
<1> SUFFICES ASSUME Init PROVE TypeOK
  OBVIOUS
<1>1. Absent \in Row
  BY DEF Row, Absent, ClaimState, LastError
<1>2. rows \in [Site -> Table]
  BY <1>1 DEF Init, Table
<1>3. /\ live \in [Site -> SUBSET (Work \X Nat)]
      /\ abandoned \in [Site -> SUBSET (Work \X Nat)]
      /\ \A h \in Site : abandoned[h] \subseteq live[h]
      /\ conn \subseteq Link /\ pressed \subseteq conn /\ capable \subseteq Site
      /\ net \subseteq Frame
  BY SpoolAssumption DEF Init
<1>4. gen \in [Work -> Nat] /\ produced \in [Work -> Nat]
  BY DEF Init
<1>5. /\ held \in [Site -> SUBSET Work] /\ retired \in [Site -> SUBSET Work]
      /\ disposed \in [Site -> SUBSET Work]
  BY DEF Init
<1>6. shipped \in [Site -> [Work -> Nat]] /\ redriven \in [Site -> [Work -> Nat]]
  BY DEF Init
<1> QED BY <1>2, <1>3, <1>4, <1>5, <1>6 DEF TypeOK

\* Fresh generations are numbers.
LEMMA MintType ==
    ASSUME TypeOK, NEW S
    PROVE  Mint(S) \in [Work -> Nat]
BY DEF Mint, TypeOK

\* A transfer frame between two hosts is a frame.
LEMMA FrameType ==
    ASSUME NEW t \in Table, NEW S \in SUBSET Work, NEW h \in Site, NEW p \in Site
    PROVE  TransferFrame(h, p, t, S) \in Frame
<1>1. \A w \in S : [w |-> w, tok |-> t[w].tok, ttl |-> t[w].ttl] \in Entry
  BY DEF Table, Row, Entry
<1>2. {[w |-> w, tok |-> t[w].tok, ttl |-> t[w].ttl] : w \in S} \in SUBSET Entry
  BY <1>1
<1> QED BY <1>2 DEF TransferFrame, Frame

\* A drain keeps the table, the tokens, the wire and the sockets well formed.
LEMMA DrainType ==
    ASSUME TypeOK, NEW c \in SUBSET Link, NEW latched \in SUBSET c, NEW h \in Site,
           NEW t \in Table, NEW P \in SUBSET Site, Drain(c, latched, h, t, P)
    PROVE  /\ rows' \in [Site -> Table]
           /\ gen' \in [Work -> Nat]
           /\ net' \subseteq Frame
           /\ pressed' \subseteq c
           /\ shipped' \in [Site -> [Work -> Nat]]
<1> DEFINE O == Offered(c, latched, h, t, P)
<1>1. PICK ok \in SUBSET O, press \in SUBSET O :
        LET begun  == UNION {Batch(c, h, p, InState(t, "pending")) : p \in ok}
            after  == beginDurableWorkTransfer(t, begun, Mint(begun))
            all(p) == Batch(c, h, p, InState(after, "transferring"))
        IN  /\ rows' = [rows EXCEPT ![h] = after]
            /\ gen' = Mint(begun)
            /\ net' = net \cup {TransferFrame(h, p, after, all(p)) : p \in ok}
            /\ pressed' = latched \cup {<<h, p>> : p \in press}
            /\ shipped' = [shipped EXCEPT ![h] =
                            [w \in Work |-> IF w \in begun THEN @[w] + 1 ELSE @[w]]]
  BY DEF Drain
<1> DEFINE begun  == UNION {Batch(c, h, p, InState(t, "pending")) : p \in ok}
           after  == beginDurableWorkTransfer(t, begun, Mint(begun))
           all(p) == Batch(c, h, p, InState(after, "transferring"))
<1>2. after \in Table
  BY MintType, TransferTables
<1>3. \A p \in O : p \in Site /\ <<h, p>> \in c
  BY DEF Offered
<1>4. \A p : all(p) \in SUBSET Work
  BY DEF Batch, InState
<1>5. rows' \in [Site -> Table]
  BY <1>1, <1>2 DEF TypeOK
<1>6. gen' \in [Work -> Nat]
  BY <1>1, MintType
<1>7. net' \subseteq Frame
  <2>1. \A p \in ok : TransferFrame(h, p, after, all(p)) \in Frame
    BY <1>2, <1>3, <1>4, FrameType
  <2> HIDE DEF after, all, begun
  <2> QED BY <1>1, <2>1 DEF TypeOK, after, all, begun
<1>8. pressed' \subseteq c
  BY <1>1, <1>3
<1>9. shipped' \in [Site -> [Work -> Nat]]
  <2> HIDE DEF begun
  <2>1. [w \in Work |-> IF w \in begun THEN shipped[h][w] + 1 ELSE shipped[h][w]] \in [Work -> Nat]
    BY DEF TypeOK
  <2>2. shipped' = [shipped EXCEPT ![h] =
            [w \in Work |-> IF w \in begun THEN shipped[h][w] + 1 ELSE shipped[h][w]]]
    BY <1>1 DEF TypeOK, begun
  <2> QED BY <2>1, <2>2 DEF TypeOK
<1> QED BY <1>5, <1>6, <1>7, <1>8, <1>9

\* So does the push of freshly inserted rows.
LEMMA PushType ==
    ASSUME TypeOK, NEW h \in Site, NEW t \in Table, NEW N \in SUBSET Work,
           NEW frames \in SUBSET Frame, NEW latched \in SUBSET conn,
           Push(h, t, N, frames, latched)
    PROVE  /\ rows' \in [Site -> Table]
           /\ gen' \in [Work -> Nat]
           /\ net' \subseteq Frame
           /\ pressed' \subseteq conn
           /\ shipped' \in [Site -> [Work -> Nat]]
           /\ held' \in [Site -> SUBSET Work]
<1> DEFINE to(p) == IF <<h, p>> \in conn \ pressed /\ p \in capable
                    THEN Batch(conn, h, p, N) ELSE {}
<1>1. PICK sent \in SUBSET N, press \in SUBSET Site :
        LET after == beginDurableWorkTransfer(t, sent, Mint(sent))
        IN  /\ sent \subseteq UNION {to(p) : p \in Site}
            /\ \A p \in Site : \A w \in to(p) \ sent : p \in press \/ SendsMayThrow
            /\ \A p \in press : \E w \in to(p) : w \in sent <=> h = Hub
            /\ CanMint(sent)
            /\ rows' = [rows EXCEPT ![h] = after]
            /\ gen' = Mint(sent)
            /\ net' = frames \cup UNION {{TransferFrame(h, p, after, {w}) : w \in sent \cap to(p)}
                                         : p \in Site}
            /\ pressed' = latched \cup {<<h, p>> : p \in press}
            /\ shipped' = [shipped EXCEPT ![h] =
                            [w \in Work |-> IF w \in sent THEN 1
                                            ELSE IF w \in N THEN 0 ELSE @[w]]]
            /\ held' = [held EXCEPT ![h] = @ \cup N]
  BY DEF Push
<1> DEFINE after == beginDurableWorkTransfer(t, sent, Mint(sent))
<1>2. after \in Table
  BY MintType, TransferTables
<1>3. rows' \in [Site -> Table]
  BY <1>1, <1>2 DEF TypeOK
<1>4. gen' \in [Work -> Nat]
  BY <1>1, MintType
<1>5. net' \subseteq Frame
  <2>1. \A p \in Site : \A w \in sent : TransferFrame(h, p, after, {w}) \in Frame
    BY <1>2, FrameType
  <2>2. net' = frames \cup UNION {{TransferFrame(h, p, after, {w}) : w \in sent \cap to(p)}
                                  : p \in Site}
    BY <1>1
  <2> HIDE DEF after, to
  <2>3. ASSUME NEW f \in net' PROVE f \in Frame
    <3>1. f \in frames \/ \E p \in Site : \E w \in sent \cap to(p) : f = TransferFrame(h, p, after, {w})
      BY <2>2, <2>3
    <3> QED BY <2>1, <3>1
  <2> QED BY <2>3
<1>6. pressed' \subseteq conn
  BY <1>1
<1>7. shipped' \in [Site -> [Work -> Nat]]
  <2>1. [w \in Work |-> IF w \in sent THEN 1 ELSE IF w \in N THEN 0 ELSE shipped[h][w]]
            \in [Work -> Nat]
    BY DEF TypeOK
  <2>2. shipped' = [shipped EXCEPT ![h] =
            [w \in Work |-> IF w \in sent THEN 1 ELSE IF w \in N THEN 0 ELSE shipped[h][w]]]
    BY <1>1 DEF TypeOK
  <2> QED BY <2>1, <2>2 DEF TypeOK
<1>8. held' \in [Site -> SUBSET Work]
  BY <1>1 DEF TypeOK
<1> QED BY <1>3, <1>4, <1>5, <1>6, <1>7, <1>8

\* Consumers only touch their host's table, claims and retired set.
LEMMA SettleType ==
    ASSUME TypeOK, NEW h \in Site, NEW t \in Table, NEW L \in SUBSET (Work \X Nat),
           Settle(h, t, L), gen' \in [Work -> Nat]
    PROVE  TypeOK'
<1>1. InState(t, "consumed") \in SUBSET Work
  BY DEF InState
<1>2. /\ rows' \in [Site -> Table]
      /\ live' \in [Site -> SUBSET (Work \X Nat)]
      /\ abandoned' \in [Site -> SUBSET (Work \X Nat)]
      /\ \A k \in Site : abandoned'[k] \subseteq live'[k]
      /\ retired' \in [Site -> SUBSET Work]
  BY <1>1 DEF Settle, TypeOK
<1> QED BY <1>2 DEF Settle, TypeOK, linkVars

\* One step of the transport preserves the types.
LEMMA TransportType == TypeOK /\ Transport => TypeOK'
<1> SUFFICES ASSUME TypeOK, Transport PROVE TypeOK'
  OBVIOUS
<1>1. ASSUME NEW f \in net, Receive(f) PROVE TypeOK'
  <2> DEFINE h    == f.dst
             good == {e \in f.ents : e.w \notin Poison}
             new  == {e.w : e \in good} \cap InState(rows[h], "absent")
             ttl  == [w \in Work |-> \E e \in f.ents : e.w = w /\ e.ttl]
             back == <<h, f.src>>
             ack  == [typ |-> "ack", src |-> h, dst |-> f.src, ents |-> good]
             t    == insertDurableWork(rows[h], {e.w : e \in good}, ttl)
  <2>1. f \in Frame /\ h \in Site /\ f.src \in Site /\ f.ents \in SUBSET Entry
    BY DEF TypeOK, Frame
  <2>2. back \in conn
    BY <1>1 DEF Receive
  <2>3. PICK ok \in BOOLEAN, press \in BOOLEAN :
          Push(h, t, new, (net \ {f}) \cup (IF ok THEN {ack} ELSE {}),
               pressed \cup (IF press THEN {back} ELSE {}))
    BY <1>1 DEF Receive
  <2>4. rows[h] \in Table /\ ttl \in [Work -> BOOLEAN] /\ gen \in [Work -> Nat]
    BY <2>1 DEF TypeOK
  <2>5. t \in Table
    <3> HIDE DEF ttl, h
    <3> QED BY <2>4, ClaimTables
  <2>6. new \in SUBSET Work
    BY DEF InState
  <2>7. ack \in Frame
    BY <2>1 DEF Frame
  <2>8. (net \ {f}) \cup (IF ok THEN {ack} ELSE {}) \in SUBSET Frame
    BY <2>7 DEF TypeOK
  <2>9. pressed \cup (IF press THEN {back} ELSE {}) \in SUBSET conn
    BY <2>2 DEF TypeOK
  <2> HIDE DEF t, new, ack, back, h
  <2>10. /\ rows' \in [Site -> Table] /\ gen' \in [Work -> Nat] /\ net' \subseteq Frame
         /\ pressed' \subseteq conn /\ shipped' \in [Site -> [Work -> Nat]]
         /\ held' \in [Site -> SUBSET Work]
    BY <2>1, <2>3, <2>5, <2>6, <2>8, <2>9, PushType DEF h
  <2>11. UNCHANGED <<live, abandoned, conn, capable, produced, retired, disposed, redriven>>
    BY <1>1 DEF Receive
  <2> QED BY <2>10, <2>11 DEF TypeOK
<1>2. ASSUME NEW f \in net, ReceiveAck(f) PROVE TypeOK'
  <2>1. rows' \in [Site -> Table]
    BY <1>2, TransferTables, MintType DEF TypeOK, ReceiveAck
  <2> QED BY <1>2, <2>1 DEF ReceiveAck, TypeOK, linkVars, history
<1>3. ASSUME NEW f \in net, Lose(f) PROVE TypeOK'
  BY <1>3 DEF Lose, TypeOK, hostVars, linkVars, history
<1>4. ASSUME NEW h \in Site, NEW p \in Site, Connect(h, p) PROVE TypeOK'
  <2> DEFINE c == conn \cup {<<h, p>>}
  <2>1. c \in SUBSET Link /\ pressed \in SUBSET c
    BY <1>4 DEF Connect, TypeOK
  <2>2. PICK S : Drain(c, pressed, h,
                       reclassifyTransferExhaustedDeadLetters(rows[h], S, p), {p})
    BY <1>4 DEF Connect
  <2>3. reclassifyTransferExhaustedDeadLetters(rows[h], S, p) \in Table
    BY TransferTables, MintType DEF TypeOK
  <2>4. /\ rows' \in [Site -> Table] /\ gen' \in [Work -> Nat] /\ net' \subseteq Frame
        /\ pressed' \subseteq c /\ shipped' \in [Site -> [Work -> Nat]]
    <3> HIDE DEF c
    <3>1. {p} \in SUBSET Site
      OBVIOUS
    <3> QED BY <2>1, <2>2, <2>3, <3>1, DrainType
  <2> QED BY <1>4, <2>1, <2>4 DEF Connect, TypeOK
<1>5. ASSUME NEW h \in Site, NEW p \in Site, Disconnect(h, p) PROVE TypeOK'
  BY <1>5 DEF Disconnect, TypeOK, hostVars, history
<1>6. ASSUME NEW h \in Site, NEW p \in Site, ClearPressure(h, p) PROVE TypeOK'
  <2>1. CASE pressed' = pressed \ {<<h, p>>} /\ UNCHANGED <<rows, gen, net, shipped>>
    BY <1>6, <2>1 DEF ClearPressure, TypeOK
  <2>2. CASE Drain(conn, pressed \ {<<h, p>>}, h, rows[h], {p})
    <3>1. /\ rows' \in [Site -> Table] /\ gen' \in [Work -> Nat] /\ net' \subseteq Frame
          /\ pressed' \subseteq conn /\ shipped' \in [Site -> [Work -> Nat]]
      <4>1. /\ {p} \in SUBSET Site /\ conn \in SUBSET Link
            /\ pressed \ {<<h, p>>} \in SUBSET conn /\ rows[h] \in Table
        BY DEF TypeOK
      <4> QED BY <2>2, <4>1, DrainType
    <3> QED BY <1>6, <3>1 DEF ClearPressure, TypeOK
  <2> QED BY <1>6, <2>1, <2>2 DEF ClearPressure
<1>7. ASSUME NEW h \in Site, NEW p \in Site, SelfHeal(h, p) PROVE TypeOK'
  BY <1>7 DEF SelfHeal, TypeOK, hostVars, history
<1>8. ASSUME NEW p \in Site, Advertise(p) PROVE TypeOK'
  BY <1>8 DEF Advertise, TypeOK, hostVars, history
<1>9. ASSUME NEW h \in Site, NEW E \in SUBSET Work, NEW S \in SUBSET Work, Sweep(h, E, S)
      PROVE  TypeOK'
  <2> DEFINE expired == deadLetterExpiredDurableWork(rows[h], E)
             swept   == sweepStaleTransferringDurableWork(expired, S)
  <2>1. expired \in Table
    BY TerminalTables DEF TypeOK
  <2>2. swept \in Table
    BY <2>1, TransferTables, MintType
  <2>3. /\ rows' \in [Site -> Table] /\ gen' \in [Work -> Nat] /\ net' \subseteq Frame
        /\ pressed' \subseteq conn /\ shipped' \in [Site -> [Work -> Nat]]
    <3>1. CASE S = {}
      BY <1>9, <2>1, <3>1 DEF Sweep, TypeOK
    <3>2. CASE S # {}
      <4>1. Drain(conn, pressed, h, swept, Site)
        BY <1>9, <3>2 DEF Sweep
      <4> HIDE DEF swept
      <4> QED BY <2>2, <4>1, DrainType DEF TypeOK
    <3> QED BY <3>1, <3>2
  <2>4. UNCHANGED <<live, abandoned, conn, capable, produced, held, retired, disposed, redriven>>
    BY <1>9 DEF Sweep
  <2> QED BY <2>3, <2>4 DEF TypeOK
<1> QED BY <1>1, <1>2, <1>3, <1>4, <1>5, <1>6, <1>7, <1>8, <1>9 DEF Transport

\* One step of a consumer preserves the types.
LEMMA ConsumerType == TypeOK /\ Consumer => TypeOK'
<1> SUFFICES ASSUME TypeOK, NEW h \in Site,
                    \/ \E S \in SUBSET Work : Claim(h, S)
                    \/ \E c \in live[h] :
                          \/ Acknowledge(h, c[1], c[2])
                          \/ Release(h, c[1], c[2])
                          \/ \E S \in SUBSET Work : ConsumeParts(h, c[1], c[2], S)
                          \/ \E unroutable \in BOOLEAN : Fail(h, c[1], c[2], unroutable)
                    \/ \E w \in Work : ConsumePendingDispatch(h, w) \/ RejectPending(h, w)
                    \/ \E T \in Threads, returned \in BOOLEAN : ResetDispatch(h, T, returned)
             PROVE  TypeOK'
  BY DEF Consumer
<1>1. /\ rows[h] \in Table /\ gen \in [Work -> Nat]
      /\ live[h] \in SUBSET (Work \X Nat)
      /\ \A S : Mint(S) \in [Work -> Nat]
      /\ \A c : live[h] \ {c} \in SUBSET (Work \X Nat)
      /\ [w \in Work |-> TRUE] \in [Work -> BOOLEAN]
  BY MintType DEF TypeOK
<1>2. ASSUME NEW S \in SUBSET Work, Claim(h, S) PROVE TypeOK'
  <2>1. live[h] \cup {<<w, gen[w] + 1>> : w \in S} \in SUBSET (Work \X Nat)
    BY <1>1
  <2>2. claimDurableWorkByIds(rows[h], S, Mint(S)) \in Table
    BY <1>1, ClaimTables
  <2> QED BY <1>1, <1>2, <2>1, <2>2, SettleType DEF Claim
<1>3. ASSUME NEW w, NEW tok, Acknowledge(h, w, tok) PROVE TypeOK'
  <2>1. acknowledgeDurableWork(rows[h], w, tok) \in Table
    BY <1>1, ClaimTables
  <2> QED BY <1>1, <1>3, <2>1, SettleType DEF Acknowledge
<1>4. ASSUME NEW w, NEW tok, Release(h, w, tok) PROVE TypeOK'
  <2>1. releaseDurableWorkClaim(rows[h], w, tok) \in Table
    BY <1>1, ClaimTables
  <2> QED BY <1>1, <1>4, <2>1, SettleType DEF Release
<1>5. ASSUME NEW w, NEW tok, NEW S \in SUBSET Work, ConsumeParts(h, w, tok, S) PROVE TypeOK'
  <2>1. claimAndConsumeDurableWorkByIds(rows[h], S, w, tok) \in Table
    BY <1>1, ClaimTables
  <2> QED BY <1>1, <1>5, <2>1, SettleType DEF ConsumeParts
<1>6. ASSUME NEW w \in Work, NEW tok, NEW unroutable \in BOOLEAN, Fail(h, w, tok, unroutable)
      PROVE  TypeOK'
  <2> DEFINE dead == OwnedBy(rows[h], w, "processing", tok)
                     /\ (unroutable \/ rows[h][w].att >= MaxAttempts)
             t    == IF dead THEN deadLetterClaimedDurableWork(rows[h], w, tok) ELSE rows[h]
  <2>1. deadLetterClaimedDurableWork(rows[h], w, tok) \in Table
    BY <1>1, TerminalTables
  <2>2. t \in Table
    BY <1>1, <2>1
  <2>3. Settle(h, t, live[h] \ {<<w, tok>>}) /\ gen' = gen
    BY <1>6 DEF Fail
  <2> HIDE DEF t
  <2> QED BY <1>1, <2>2, <2>3, SettleType
<1>7. ASSUME NEW w \in Work, ConsumePendingDispatch(h, w) PROVE TypeOK'
  <2>1. consumePendingDispatchByIdempotencyKey(rows[h], w) \in Table
    BY <1>1, ClaimTables
  <2> QED BY <1>1, <1>7, <2>1, SettleType DEF ConsumePendingDispatch
<1>8. ASSUME NEW w \in Work, RejectPending(h, w) PROVE TypeOK'
  <2>1. deadLetterPendingDurableWork(rows[h], w) \in Table
    BY <1>1, TerminalTables
  <2> QED BY <1>1, <1>8, <2>1, SettleType DEF RejectPending
<1>9. ASSUME NEW T \in Threads, NEW returned \in BOOLEAN, ResetDispatch(h, T, returned)
      PROVE  TypeOK'
  <2>1. resetProcessingDurableDispatchForThread(rows[h], T) \in Table
    BY <1>1, TerminalTables
  <2>2. rows' \in [Site -> Table]
    BY <1>9, <2>1 DEF ResetDispatch, TypeOK
  <2>3. Awaited(h, T) \subseteq live[h] /\ Awaited(h, T) \cap abandoned[h] = {}
    BY DEF Awaited
  <2> DEFINE A == Awaited(h, T)
  <2>4. \/ live' = [live EXCEPT ![h] = live[h] \ A] /\ abandoned' = abandoned
        \/ abandoned' = [abandoned EXCEPT ![h] = abandoned[h] \cup A] /\ live' = live
    BY <1>9 DEF ResetDispatch
  <2> HIDE DEF A
  <2>5. /\ live' \in [Site -> SUBSET (Work \X Nat)] /\ abandoned' \in [Site -> SUBSET (Work \X Nat)]
        /\ \A k \in Site : abandoned'[k] \subseteq live'[k]
    <3>1. A \subseteq live[h] /\ A \cap abandoned[h] = {}
      BY <2>3 DEF A
    <3>2. CASE live' = [live EXCEPT ![h] = live[h] \ A] /\ abandoned' = abandoned
      BY <3>1, <3>2 DEF TypeOK
    <3>3. CASE abandoned' = [abandoned EXCEPT ![h] = abandoned[h] \cup A] /\ live' = live
      BY <3>1, <3>3 DEF TypeOK
    <3> QED BY <2>4, <3>2, <3>3
  <2> QED BY <1>9, <2>2, <2>5 DEF ResetDispatch, TypeOK, linkVars, history
<1>10. \A c \in live[h] : c[1] \in Work
  BY <1>1
<1> QED BY <1>2, <1>3, <1>4, <1>5, <1>6, <1>7, <1>8, <1>9, <1>10

\* One step of boot recovery, the operator or retention preserves the types.
LEMMA KeeperType == TypeOK /\ Keeper => TypeOK'
<1> SUFFICES ASSUME TypeOK, NEW h \in Site,
                    \/ Restart(h)
                    \/ \E w \in Work : Redrive(h, w)
                    \/ \E S \in SUBSET Work : Delete(h, S)
             PROVE  TypeOK'
  BY DEF Keeper, Prune, Purge
<1>1. rows[h] \in Table /\ gen \in [Work -> Nat]
  BY DEF TypeOK
<1>2. CASE Restart(h)
  <2>1. resetTransferringLocalDurableWork(resetProcessingDurableWork(rows[h], Local)) \in Table
    <3>1. resetProcessingDurableWork(rows[h], Local) \in Table
      BY <1>1, TerminalTables
    <3> QED BY <3>1, TerminalTables
  <2>2. rows' \in [Site -> Table]
    BY <1>2, <2>1 DEF Restart, TypeOK
  <2>3. /\ live' \in [Site -> SUBSET (Work \X Nat)] /\ abandoned' \in [Site -> SUBSET (Work \X Nat)]
        /\ \A k \in Site : abandoned'[k] \subseteq live'[k]
    BY <1>2 DEF Restart, TypeOK
  <2>4. conn' \subseteq Link /\ pressed' \subseteq conn'
    BY <1>2 DEF Restart, TypeOK
  <2> QED BY <1>2, <2>2, <2>3, <2>4 DEF Restart, TypeOK, history
<1>3. ASSUME NEW w \in Work, Redrive(h, w) PROVE TypeOK'
  <2>1. /\ redriveTransferringDurableWork(rows[h], w) \in Table
        /\ redriveDeadLetterDurableWork(rows[h], w, w \in HasTtl) \in Table
    <3>1. (w \in HasTtl) \in BOOLEAN
      OBVIOUS
    <3>2. redriveTransferringDurableWork(rows[h], w) \in Table
      BY <1>1, TransferTables
    <3>3. redriveDeadLetterDurableWork(rows[h], w, w \in HasTtl) \in Table
      BY <1>1, <3>1, TerminalTables, Zenon
    <3> QED BY <3>2, <3>3
  <2>2. rows' \in [Site -> Table]
    BY <1>3, <2>1 DEF Redrive, TypeOK
  <2>3. redriven' \in [Site -> [Work -> Nat]]
    <3>1. [redriven EXCEPT ![h][w] = @ + 1] \in [Site -> [Work -> Nat]]
      <4>1. redriven[h] \in [Work -> Nat] /\ redriven[h][w] + 1 \in Nat
        BY DEF TypeOK
      <4>2. [redriven[h] EXCEPT ![w] = redriven[h][w] + 1] \in [Work -> Nat]
        BY <4>1
      <4> QED BY <4>2 DEF TypeOK
    <3> QED BY <1>3, <3>1 DEF Redrive, TypeOK
  <2>4. UNCHANGED <<live, abandoned, gen, linkVars, net, produced, held, retired, disposed, shipped>>
    BY <1>3 DEF Redrive
  <2> QED BY <2>2, <2>3, <2>4 DEF TypeOK, linkVars
<1>4. ASSUME NEW S \in SUBSET Work, Delete(h, S) PROVE TypeOK'
  <2>1. DeleteRows(rows[h], S) \in Table
    BY <1>1, TerminalTables
  <2>2. rows' \in [Site -> Table] /\ disposed' \in [Site -> SUBSET Work]
    BY <1>4, <2>1 DEF Delete, TypeOK
  <2> QED BY <1>4, <2>2 DEF Delete, TypeOK, linkVars
<1> QED BY <1>2, <1>3, <1>4

\* A producer's insertion preserves the types.
LEMMA ProduceType ==
    ASSUME TypeOK, NEW w \in Work, Produce(w)
    PROVE  TypeOK'
<1> DEFINE h   == Origin[w]
           ttl == [v \in Work |-> v \in HasTtl]
           t   == insertDurableWork(rows[h], {w}, ttl)
<1>1. /\ h \in Site /\ rows[h] \in Table /\ gen \in [Work -> Nat] /\ ttl \in [Work -> BOOLEAN]
      /\ {w} \in SUBSET Work /\ net \in SUBSET Frame /\ pressed \in SUBSET conn
  BY SpoolAssumption DEF TypeOK
<1>2. t \in Table
  <2> HIDE DEF ttl, h
  <2> QED BY <1>1, ClaimTables
<1>3. Push(h, t, {w}, net, pressed)
  BY DEF Produce
<1>4. produced' \in [Work -> Nat]
  <2>1. produced \in [Work -> Nat] /\ produced[w] + 1 \in Nat
    BY DEF TypeOK
  <2> QED BY <2>1 DEF Produce
<1>5. UNCHANGED <<live, abandoned, conn, capable, retired, disposed, redriven>>
  BY DEF Produce
<1> HIDE DEF t, h
<1>6. /\ rows' \in [Site -> Table] /\ gen' \in [Work -> Nat] /\ net' \subseteq Frame
      /\ pressed' \subseteq conn /\ shipped' \in [Site -> [Work -> Nat]]
      /\ held' \in [Site -> SUBSET Work]
  BY <1>1, <1>2, <1>3, PushType
<1> QED BY <1>4, <1>5, <1>6 DEF TypeOK

\* Every step preserves the types.
LEMMA NextTypeOK == TypeOK /\ [Next]_vars => TypeOK'
<1> SUFFICES ASSUME TypeOK, [Next]_vars PROVE TypeOK'
  OBVIOUS
<1>1. CASE UNCHANGED vars
  BY <1>1 DEF vars, hostVars, linkVars, history, TypeOK
<1> QED BY <1>1, ProduceType, TransportType, ConsumerType, KeeperType DEF Next

\* Whatever hosts, work, routing and budgets: tables hold well-formed rows, a
\* latched socket is a connected one, and the wire carries frames between hosts.
THEOREM TypeCorrect == Spec => []TypeOK
<1>1. Init => TypeOK
  BY InitTypeOK
<1>2. TypeOK /\ [Next]_vars => TypeOK'
  BY NextTypeOK
<1> QED BY <1>1, <1>2, PTL DEF Spec

---------------------------------------------------------------------------
(* Custody.  By itself it is not inductive: an acknowledgement deletes a row *)
(* on the word of a frame, so the invariant must say what a frame on the     *)
(* wire guarantees, and that presence in a table is recorded in held.        *)

\* A transfer travels towards the row's destination; an acknowledgement comes
\* from the host it was sent to, and that host has held what it acknowledges.
WireInv ==
    \A f \in net : \A e \in f.ents :
        IF f.typ = "transfer" THEN Successor(f.src, e.w, f.dst)
        ELSE Successor(f.dst, e.w, f.src) /\ e.w \in held[f.src]

HeldInv == \A h \in Site : \A w \in Work : rows[h][w].st # "absent" => w \in held[h]

CustodyInv == WireInv /\ HeldInv /\ Custody

Present(t, w) == t[w].st # "absent"

SamePresence(t, u) == \A w \in Work : Present(u, w) <=> Present(t, w)

\* Apart from insertion, the transfer ack and deletion, no statement makes a
\* row appear or disappear.
LEMMA ClaimPresence ==
    ASSUME NEW t \in Table, NEW S, NEW g, NEW w, NEW tok
    PROVE  /\ SamePresence(t, claimDurableWorkByIds(t, S, g))
           /\ SamePresence(t, acknowledgeDurableWork(t, w, tok))
           /\ SamePresence(t, releaseDurableWorkClaim(t, w, tok))
           /\ SamePresence(t, consumePendingDispatchByIdempotencyKey(t, w))
<1>1. SamePresence(t, claimDurableWorkByIds(t, S, g))
  BY DEF SamePresence, Present, claimDurableWorkByIds, Claimed, Table, Row
<1>2. SamePresence(t, acknowledgeDurableWork(t, w, tok))
  BY DEF SamePresence, Present, acknowledgeDurableWork, OwnedBy, Retired, Table, Row
<1>3. SamePresence(t, releaseDurableWorkClaim(t, w, tok))
  BY DEF SamePresence, Present, releaseDurableWorkClaim, OwnedBy, Released, Table, Row
<1>4. SamePresence(t, consumePendingDispatchByIdempotencyKey(t, w))
  BY DEF SamePresence, Present, consumePendingDispatchByIdempotencyKey, Retired, Table, Row
<1> QED BY <1>1, <1>2, <1>3, <1>4

LEMMA PartsPresence ==
    ASSUME NEW t \in Table, NEW S, NEW w \in S, NEW tok
    PROVE  SamePresence(t, claimAndConsumeDurableWorkByIds(t, S, w, tok))
BY DEF SamePresence, Present, claimAndConsumeDurableWorkByIds, OwnedBy, Retired, ClaimRetired,
       Table, Row

LEMMA TransferPresence ==
    ASSUME NEW t \in Table, NEW S, NEW g, NEW w, NEW p
    PROVE  /\ SamePresence(t, beginDurableWorkTransfer(t, S, g))
           /\ SamePresence(t, sweepStaleTransferringDurableWork(t, S))
           /\ SamePresence(t, redriveTransferringDurableWork(t, w))
           /\ SamePresence(t, reclassifyTransferExhaustedDeadLetters(t, S, p))
<1>1. SamePresence(t, beginDurableWorkTransfer(t, S, g))
  BY DEF SamePresence, Present, beginDurableWorkTransfer, Table, Row
<1>2. \A r \in Row : ChargeTransfer(r).st # "absent"
  <2> SUFFICES ASSUME NEW r \in Row PROVE ChargeTransfer(r).st # "absent"
    OBVIOUS
  <2>1. DeadLettered(r, "exhausted").st = "dead_letter"
    BY DEF DeadLettered, Row
  <2>2. \A n : [r EXCEPT !.st = "pending", !.tok = 0, !.att = n].st = "pending"
    BY DEF Row
  <2> QED BY <2>1, <2>2 DEF ChargeTransfer
<1>3. SamePresence(t, sweepStaleTransferringDurableWork(t, S))
  BY <1>2 DEF SamePresence, Present, sweepStaleTransferringDurableWork, Table
<1>4. SamePresence(t, redriveTransferringDurableWork(t, w))
  BY <1>2 DEF SamePresence, Present, redriveTransferringDurableWork, Table
<1>5. SamePresence(t, reclassifyTransferExhaustedDeadLetters(t, S, p))
  <2>1. \A r \in Row : Reopened(r).st = "pending"
    BY DEF Reopened, Row
  <2> QED BY <2>1 DEF SamePresence, Present, reclassifyTransferExhaustedDeadLetters,
                      Reclassifiable, InState, Table
<1> QED BY <1>1, <1>3, <1>4, <1>5

LEMMA TerminalPresence ==
    ASSUME NEW t \in Table, NEW S, NEW w, NEW tok, NEW site, NEW ttl
    PROVE  /\ SamePresence(t, deadLetterExpiredDurableWork(t, S))
           /\ SamePresence(t, deadLetterClaimedDurableWork(t, w, tok))
           /\ SamePresence(t, deadLetterPendingDurableWork(t, w))
           /\ SamePresence(t, resetProcessingDurableWork(t, site))
           /\ SamePresence(t, resetTransferringLocalDurableWork(t))
           /\ SamePresence(t, resetProcessingDurableDispatchForThread(t, S))
           /\ SamePresence(t, redriveDeadLetterDurableWork(t, w, ttl))
<1>1. \A r \in Row : \A e : DeadLettered(r, e).st = "dead_letter"
  BY DEF DeadLettered, Row
<1>2. SamePresence(t, deadLetterExpiredDurableWork(t, S))
  BY <1>1 DEF SamePresence, Present, deadLetterExpiredDurableWork, Expirable, Table
<1>3. SamePresence(t, deadLetterClaimedDurableWork(t, w, tok))
  BY <1>1 DEF SamePresence, Present, deadLetterClaimedDurableWork, OwnedBy, Table
<1>4. SamePresence(t, deadLetterPendingDurableWork(t, w))
  BY <1>1 DEF SamePresence, Present, deadLetterPendingDurableWork, Table
<1>5. SamePresence(t, resetProcessingDurableWork(t, site))
  BY DEF SamePresence, Present, resetProcessingDurableWork, Repended, Table, Row
<1>6. SamePresence(t, resetTransferringLocalDurableWork(t))
  BY DEF SamePresence, Present, resetTransferringLocalDurableWork, Repended, Table, Row
<1>7. SamePresence(t, redriveDeadLetterDurableWork(t, w, ttl))
  BY DEF SamePresence, Present, redriveDeadLetterDurableWork, Table, Row
<1>8. SamePresence(t, resetProcessingDurableDispatchForThread(t, S))
  BY DEF SamePresence, Present, resetProcessingDurableDispatchForThread, Repended, Table, Row
<1> QED BY <1>2, <1>3, <1>4, <1>5, <1>6, <1>7, <1>8

\* What a step that neither inserts nor deletes has to show.
LEMMA QuietCustody ==
    ASSUME TypeOK, CustodyInv, held' = held,
           \A h \in Site : disposed[h] \subseteq disposed'[h],
           \A h \in Site : SamePresence(rows[h], rows'[h]),
           \A f \in net' \ net : f.typ = "transfer" /\ \A e \in f.ents : Successor(f.src, e.w, f.dst)
    PROVE  CustodyInv'
<1>1. WireInv'
  BY DEF CustodyInv, WireInv, Successor, PeerTargeted, NextHop
<1>2. HeldInv'
  BY DEF CustodyInv, HeldInv, SamePresence, Present
<1>3. Custody'
  <2> SUFFICES ASSUME NEW h \in Site, NEW w \in held[h]
               PROVE  \/ rows'[h][w].st # "absent" \/ w \in disposed'[h]
                      \/ \E p \in Site : Successor(h, w, p) /\ w \in held[p]
    BY DEF Custody, Successor, PeerTargeted, NextHop
  <2>1. w \in Work
    BY DEF TypeOK
  <2> QED BY <2>1 DEF CustodyInv, Custody, SamePresence, Present
<1> QED BY <1>1, <1>2, <1>3 DEF CustodyInv

\* A step that changes one host's table only, and not which rows it has.
LEMMA OneTable ==
    ASSUME TypeOK, NEW h \in Site, NEW t \in Table, SamePresence(rows[h], t),
           rows' = [rows EXCEPT ![h] = t]
    PROVE  \A k \in Site : SamePresence(rows[k], rows'[k])
BY DEF TypeOK, SamePresence

\* Rows of a batch may leave h for p.
LEMMA BatchSuccessor ==
    ASSUME NEW c \in SUBSET Link, NEW h, NEW p, NEW S, NEW w \in Batch(c, h, p, S)
    PROVE  Successor(h, w, p)
BY DEF Batch, Successor, NextHop

LEMMA FrameEntries ==
    ASSUME NEW h, NEW p, NEW t, NEW S, \A w \in S : Successor(h, w, p)
    PROVE  LET f == TransferFrame(h, p, t, S)
           IN  f.typ = "transfer" /\ \A e \in f.ents : Successor(f.src, e.w, f.dst)
BY DEF TransferFrame

\* A drain re-drives rows along their route and drops none.
LEMMA DrainCustody ==
    ASSUME TypeOK, NEW c \in SUBSET Link, NEW latched, NEW h \in Site, NEW t \in Table, NEW P,
           SamePresence(rows[h], t), Drain(c, latched, h, t, P)
    PROVE  /\ \A k \in Site : SamePresence(rows[k], rows'[k])
           /\ \A f \in net' \ net : f.typ = "transfer" /\ \A e \in f.ents : Successor(f.src, e.w, f.dst)
<1> DEFINE O == Offered(c, latched, h, t, P)
<1>1. PICK ok \in SUBSET O :
        LET begun  == UNION {Batch(c, h, p, InState(t, "pending")) : p \in ok}
            after  == beginDurableWorkTransfer(t, begun, Mint(begun))
            all(p) == Batch(c, h, p, InState(after, "transferring"))
        IN  /\ rows' = [rows EXCEPT ![h] = after]
            /\ net' = net \cup {TransferFrame(h, p, after, all(p)) : p \in ok}
  BY DEF Drain
<1> DEFINE begun  == UNION {Batch(c, h, p, InState(t, "pending")) : p \in ok}
           after  == beginDurableWorkTransfer(t, begun, Mint(begun))
           all(p) == Batch(c, h, p, InState(after, "transferring"))
<1>2. after \in Table /\ SamePresence(t, after)
  BY MintType, TransferTables, TransferPresence
<1>3. \A p : \A w \in all(p) : Successor(h, w, p)
  BY BatchSuccessor
<1>4. rows' = [rows EXCEPT ![h] = after] /\ net' = net \cup {TransferFrame(h, p, after, all(p)) : p \in ok}
  BY <1>1
<1> HIDE DEF after, all, begun
<1>5. SamePresence(rows[h], after)
  BY <1>2 DEF SamePresence
<1>6. \A k \in Site : SamePresence(rows[k], rows'[k])
  BY <1>2, <1>4, <1>5, OneTable
<1>7. ASSUME NEW f \in net' \ net
      PROVE  f.typ = "transfer" /\ \A e \in f.ents : Successor(f.src, e.w, f.dst)
  <2>1. PICK p \in ok : f = TransferFrame(h, p, after, all(p))
    BY <1>4, <1>7
  <2> QED BY <1>3, <2>1, FrameEntries
<1> QED BY <1>6, <1>7

\* A host that inserts the new rows N of table t, pushes them and puts the
\* frames on the wire keeps custody, provided what it acknowledges is held.
LEMMA PushCustody ==
    ASSUME TypeOK, CustodyInv, NEW h \in Site, NEW t \in Table, NEW N \in SUBSET Work,
           NEW frames, NEW latched, Push(h, t, N, frames, latched), disposed' = disposed,
           \A w \in Work : Present(t, w) <=> Present(rows[h], w) \/ w \in N,
           \A f \in frames \ net : /\ f.typ = "ack" /\ f.src = h
                                   /\ \A e \in f.ents : /\ Successor(f.dst, e.w, h)
                                                        /\ e.w \in held[h] \cup N
    PROVE  CustodyInv'
<1> DEFINE to(p) == IF <<h, p>> \in conn \ pressed /\ p \in capable
                    THEN Batch(conn, h, p, N) ELSE {}
<1>1. PICK sent \in SUBSET N, press \in SUBSET Site :
        LET after == beginDurableWorkTransfer(t, sent, Mint(sent))
        IN  /\ sent \subseteq UNION {to(p) : p \in Site}
            /\ \A p \in Site : \A w \in to(p) \ sent : p \in press \/ SendsMayThrow
            /\ \A p \in press : \E w \in to(p) : w \in sent <=> h = Hub
            /\ CanMint(sent)
            /\ rows' = [rows EXCEPT ![h] = after]
            /\ gen' = Mint(sent)
            /\ net' = frames \cup UNION {{TransferFrame(h, p, after, {w}) : w \in sent \cap to(p)}
                                         : p \in Site}
            /\ pressed' = latched \cup {<<h, p>> : p \in press}
            /\ shipped' = [shipped EXCEPT ![h] =
                            [w \in Work |-> IF w \in sent THEN 1
                                            ELSE IF w \in N THEN 0 ELSE @[w]]]
            /\ held' = [held EXCEPT ![h] = @ \cup N]
  BY DEF Push
<1> DEFINE after == beginDurableWorkTransfer(t, sent, Mint(sent))
<1>2. after \in Table /\ SamePresence(t, after)
  BY MintType, TransferTables, TransferPresence
<1>3. /\ rows' = [rows EXCEPT ![h] = after] /\ held' = [held EXCEPT ![h] = @ \cup N]
      /\ net' = frames \cup UNION {{TransferFrame(h, p, after, {w}) : w \in sent \cap to(p)}
                                   : p \in Site}
  BY <1>1
<1>4. \A p : \A w \in to(p) : Successor(h, w, p)
  BY BatchSuccessor DEF TypeOK
<1> HIDE DEF after, to
<1>5. held'[h] = held[h] \cup N /\ \A k \in Site : held[k] \subseteq held'[k]
  BY <1>3 DEF TypeOK
<1>6. /\ rows'[h] = after
      /\ \A k \in Site \ {h} : rows'[k] = rows[k] /\ held'[k] = held[k]
  BY <1>3 DEF TypeOK
<1>7. \A w \in Work : rows'[h][w].st # "absent" <=> rows[h][w].st # "absent" \/ w \in N
  BY <1>2, <1>6 DEF SamePresence, Present
<1>8. HeldInv'
  BY <1>5, <1>6, <1>7 DEF CustodyInv, HeldInv
<1>9. Custody'
  <2> SUFFICES ASSUME NEW k \in Site, NEW w \in held'[k]
               PROVE  \/ rows'[k][w].st # "absent" \/ w \in disposed[k]
                      \/ \E p \in Site : Successor(k, w, p) /\ w \in held'[p]
    BY DEF Custody, Successor, PeerTargeted, NextHop
  <2>1. CASE k = h /\ w \in N
    BY <1>7, <2>1
  <2>2. CASE w \in held[k]
    <3>1. w \in Work
      BY <2>2 DEF TypeOK
    <3>2. rows[k][w].st # "absent" => rows'[k][w].st # "absent"
      BY <1>6, <1>7, <3>1
    <3> QED BY <1>5, <2>2, <3>2 DEF CustodyInv, Custody
  <2> QED BY <1>5, <1>6, <2>1, <2>2
<1>10. WireInv'
  <2> SUFFICES ASSUME NEW f \in net', NEW e \in f.ents
               PROVE  IF f.typ = "transfer" THEN Successor(f.src, e.w, f.dst)
                      ELSE Successor(f.dst, e.w, f.src) /\ e.w \in held'[f.src]
    BY DEF WireInv, Successor, PeerTargeted, NextHop
  <2>1. CASE f \in net
    <3>1. f.src \in Site
      BY <2>1 DEF TypeOK, Frame
    <3> QED BY <1>5, <2>1, <3>1 DEF CustodyInv, WireInv
  <2>2. CASE f \in frames \ net
    BY <1>5, <2>2
  <2>3. CASE f \notin frames
    <3>1. PICK p \in Site : \E w \in sent \cap to(p) : f = TransferFrame(h, p, after, {w})
      BY <1>3, <2>3
    <3>2. PICK w \in sent \cap to(p) : f = TransferFrame(h, p, after, {w})
      BY <3>1
    <3>3. \A v \in {w} : Successor(h, v, p)
      BY <1>4, <3>2
    <3> QED BY <3>2, <3>3, FrameEntries
  <2> QED BY <2>1, <2>2, <2>3
<1> QED BY <1>8, <1>9, <1>10 DEF CustodyInv

\* The transport keeps custody.
LEMMA TransportCustody == TypeOK /\ CustodyInv /\ Transport => CustodyInv'
<1> SUFFICES ASSUME TypeOK, CustodyInv, Transport PROVE CustodyInv'
  OBVIOUS
<1>1. \A k \in Site : rows[k] \in Table /\ SamePresence(rows[k], rows[k])
  BY DEF TypeOK, SamePresence
<1>2. ASSUME NEW f \in net, Receive(f) PROVE CustodyInv'
  <2> DEFINE h    == f.dst
             good == {e \in f.ents : e.w \notin Poison}
             ids  == {e.w : e \in good}
             new  == ids \cap InState(rows[h], "absent")
             ttl  == [w \in Work |-> \E e \in f.ents : e.w = w /\ e.ttl]
             ack  == [typ |-> "ack", src |-> h, dst |-> f.src, ents |-> good]
             t    == insertDurableWork(rows[h], ids, ttl)
  <2>1. f \in Frame /\ h \in Site /\ f.src \in Site /\ f.ents \in SUBSET Entry /\ f.typ = "transfer"
    BY <1>2 DEF TypeOK, Frame, Receive
  <2>2. PICK ok \in BOOLEAN, press \in BOOLEAN :
          Push(h, t, new, (net \ {f}) \cup (IF ok THEN {ack} ELSE {}),
               pressed \cup (IF press THEN {<<h, f.src>>} ELSE {}))
    BY <1>2 DEF Receive
  <2>3. t \in Table
    <3>1. rows[h] \in Table /\ ttl \in [Work -> BOOLEAN] /\ gen \in [Work -> Nat]
      BY <2>1 DEF TypeOK
    <3> HIDE DEF ttl, h, ids
    <3> QED BY <3>1, ClaimTables
  <2>4. \A w \in Work : Present(t, w) <=> Present(rows[h], w) \/ w \in new
    <3>1. \A b : [Absent EXCEPT !.st = "pending", !.ttl = b].st = "pending"
      BY DEF Absent
    <3> HIDE DEF ttl, h, ids
    <3> QED BY <3>1 DEF Present, insertDurableWork, InState
  <2>5. \A e \in good : Successor(f.src, e.w, h)
    BY <2>1 DEF CustodyInv, WireInv
  <2>6. \A e \in good : e.w \in held[h] \cup new
    <3> SUFFICES ASSUME NEW e \in good PROVE e.w \in held[h] \cup new
      OBVIOUS
    <3>1. e.w \in Work /\ e.w \in ids
      BY <2>1 DEF Entry
    <3>2. CASE rows[h][e.w].st = "absent"
      BY <3>1, <3>2 DEF InState
    <3>3. CASE rows[h][e.w].st # "absent"
      BY <2>1, <3>1, <3>3 DEF CustodyInv, HeldInv
    <3> QED BY <3>2, <3>3
  <2>7. ack.typ = "ack" /\ ack.src = h /\ ack.dst = f.src /\ ack.ents = good
    OBVIOUS
  <2>8. new \in SUBSET Work
    BY DEF InState
  <2>9. disposed' = disposed
    BY <1>2 DEF Receive
  <2> HIDE DEF t, new, ack, good, h
  <2>10. \A g \in ((net \ {f}) \cup (IF ok THEN {ack} ELSE {})) \ net :
            /\ g.typ = "ack" /\ g.src = h
            /\ \A e \in g.ents : Successor(g.dst, e.w, h) /\ e.w \in held[h] \cup new
    BY <2>5, <2>6, <2>7
  <2>11. h \in Site
    BY <2>1
  <2> QED BY <2>2, <2>3, <2>4, <2>8, <2>9, <2>10, <2>11, PushCustody
<1>3. ASSUME NEW f \in net, ReceiveAck(f) PROVE CustodyInv'
  <2>1. /\ f \in Frame /\ f.dst \in Site /\ f.src \in Site /\ f.typ = "ack"
        /\ net' = net \ {f} /\ held' = held /\ disposed' = disposed
        /\ rows' = [rows EXCEPT ![f.dst] = acknowledgeDurableWorkTransfer(rows[f.dst], f.ents)]
    BY <1>3 DEF TypeOK, Frame, ReceiveAck, history
  <2>2. \A k \in Site : \A w \in Work :
            \/ rows'[k][w].st = rows[k][w].st
            \/ rows'[k][w].st = "absent" /\ k = f.dst /\ \E e \in f.ents : e.w = w
    BY <2>1 DEF TypeOK, acknowledgeDurableWorkTransfer, Absent
  <2>3. WireInv'
    BY <2>1 DEF CustodyInv, WireInv, Successor, PeerTargeted, NextHop
  <2>4. HeldInv'
    BY <2>1, <2>2 DEF CustodyInv, HeldInv
  <2>5. Custody'
    <3> SUFFICES ASSUME NEW k \in Site, NEW w \in held[k]
                 PROVE  \/ rows'[k][w].st # "absent" \/ w \in disposed[k]
                        \/ \E p \in Site : Successor(k, w, p) /\ w \in held[p]
      BY <2>1 DEF Custody, Successor, PeerTargeted, NextHop
    <3>1. w \in Work
      BY DEF TypeOK
    <3>2. CASE rows'[k][w].st = rows[k][w].st
      BY <3>2 DEF CustodyInv, Custody
    <3>3. CASE k = f.dst /\ \E e \in f.ents : e.w = w
      <4>1. Successor(f.dst, w, f.src) /\ w \in held[f.src]
        BY <2>1, <3>3 DEF CustodyInv, WireInv
      <4> QED BY <2>1, <3>3, <4>1
    <3> QED BY <2>2, <3>1, <3>2, <3>3
  <2> QED BY <2>3, <2>4, <2>5 DEF CustodyInv
<1>4. ASSUME NEW f \in net, Lose(f) PROVE CustodyInv'
  BY <1>1, <1>4, QuietCustody DEF Lose, hostVars, history
<1>5. ASSUME NEW h \in Site, NEW p \in Site, Connect(h, p) PROVE CustodyInv'
  <2> DEFINE c == conn \cup {<<h, p>>}
  <2>1. c \in SUBSET Link
    BY <1>5 DEF Connect, TypeOK
  <2>2. PICK S : Drain(c, pressed, h,
                       reclassifyTransferExhaustedDeadLetters(rows[h], S, p), {p})
    BY <1>5 DEF Connect
  <2>3. /\ reclassifyTransferExhaustedDeadLetters(rows[h], S, p) \in Table
        /\ SamePresence(rows[h], reclassifyTransferExhaustedDeadLetters(rows[h], S, p))
    BY <1>1, TransferTables, TransferPresence, MintType
  <2>4. held' = held /\ disposed' = disposed
    BY <1>5 DEF Connect
  <2> HIDE DEF c
  <2> QED BY <2>1, <2>2, <2>3, <2>4, DrainCustody, QuietCustody
<1>6. ASSUME NEW h \in Site, NEW p \in Site, Disconnect(h, p) PROVE CustodyInv'
  BY <1>1, <1>6, QuietCustody DEF Disconnect, hostVars, history
<1>7. ASSUME NEW h \in Site, NEW p \in Site, ClearPressure(h, p) PROVE CustodyInv'
  <2>1. held' = held /\ disposed' = disposed
    BY <1>7 DEF ClearPressure
  <2>2. CASE UNCHANGED <<rows, gen, net, shipped>>
    BY <1>1, <2>1, <2>2, QuietCustody
  <2>3. CASE Drain(conn, pressed \ {<<h, p>>}, h, rows[h], {p})
    <3>1. conn \in SUBSET Link
      BY DEF TypeOK
    <3> QED BY <1>1, <2>1, <2>3, <3>1, DrainCustody, QuietCustody
  <2> QED BY <1>7, <2>2, <2>3 DEF ClearPressure
<1>8. ASSUME NEW h \in Site, NEW p \in Site, SelfHeal(h, p) PROVE CustodyInv'
  BY <1>1, <1>8, QuietCustody DEF SelfHeal, hostVars, history
<1>9. ASSUME NEW p \in Site, Advertise(p) PROVE CustodyInv'
  BY <1>1, <1>9, QuietCustody DEF Advertise, hostVars, history
<1>10. ASSUME NEW h \in Site, NEW E \in SUBSET Work, NEW S \in SUBSET Work, Sweep(h, E, S)
      PROVE  CustodyInv'
  <2> DEFINE expired == deadLetterExpiredDurableWork(rows[h], E)
             swept   == sweepStaleTransferringDurableWork(expired, S)
  <2>1. expired \in Table /\ SamePresence(rows[h], expired)
    BY <1>1, TerminalTables, TerminalPresence
  <2>2. swept \in Table /\ SamePresence(expired, swept)
    BY <2>1, TransferTables, TransferPresence, MintType
  <2>3. SamePresence(rows[h], swept)
    BY <2>1, <2>2 DEF SamePresence
  <2>4. held' = held /\ disposed' = disposed
    BY <1>10 DEF Sweep
  <2>5. CASE S = {}
    <3>1. rows' = [rows EXCEPT ![h] = expired] /\ net' = net
      BY <1>10, <2>5 DEF Sweep
    <3> HIDE DEF expired
    <3> QED BY <2>1, <2>4, <3>1, OneTable, QuietCustody
  <2>6. CASE S # {}
    <3>1. Drain(conn, pressed, h, swept, Site) /\ conn \in SUBSET Link
      BY <1>10, <2>6 DEF Sweep, TypeOK
    <3> HIDE DEF swept
    <3> QED BY <2>2, <2>3, <2>4, <3>1, DrainCustody, QuietCustody
  <2> QED BY <2>5, <2>6
<1> QED BY <1>2, <1>3, <1>4, <1>5, <1>6, <1>7, <1>8, <1>9, <1>10 DEF Transport

\* A consumer's step that keeps every row present keeps custody.
LEMMA SettleCustody ==
    ASSUME TypeOK, CustodyInv, NEW h \in Site, NEW t \in Table, NEW L,
           Settle(h, t, L), SamePresence(rows[h], t)
    PROVE  CustodyInv'
<1>1. rows' = [rows EXCEPT ![h] = t] /\ net' = net /\ held' = held /\ disposed' = disposed
  BY DEF Settle
<1> QED BY <1>1, OneTable, QuietCustody

\* Consumers keep custody.
LEMMA ConsumerCustody == TypeOK /\ CustodyInv /\ Consumer => CustodyInv'
<1> SUFFICES ASSUME TypeOK, CustodyInv, NEW h \in Site,
                    \/ \E S \in SUBSET Work : Claim(h, S)
                    \/ \E c \in live[h] :
                          \/ Acknowledge(h, c[1], c[2])
                          \/ Release(h, c[1], c[2])
                          \/ \E S \in SUBSET Work : ConsumeParts(h, c[1], c[2], S)
                          \/ \E unroutable \in BOOLEAN : Fail(h, c[1], c[2], unroutable)
                    \/ \E w \in Work : ConsumePendingDispatch(h, w) \/ RejectPending(h, w)
                    \/ \E T \in Threads, returned \in BOOLEAN : ResetDispatch(h, T, returned)
             PROVE  CustodyInv'
  BY DEF Consumer
<1>1. /\ rows[h] \in Table /\ gen \in [Work -> Nat] /\ \A S : Mint(S) \in [Work -> Nat]
      /\ [w \in Work |-> TRUE] \in [Work -> BOOLEAN] /\ SamePresence(rows[h], rows[h])
  BY MintType DEF TypeOK, SamePresence
<1>2. ASSUME NEW S \in SUBSET Work, Claim(h, S) PROVE CustodyInv'
  BY <1>1, <1>2, ClaimTables, ClaimPresence, SettleCustody DEF Claim
<1>3. ASSUME NEW w, NEW tok, Acknowledge(h, w, tok) PROVE CustodyInv'
  BY <1>1, <1>3, ClaimTables, ClaimPresence, SettleCustody DEF Acknowledge
<1>4. ASSUME NEW w, NEW tok, Release(h, w, tok) PROVE CustodyInv'
  BY <1>1, <1>4, ClaimTables, ClaimPresence, SettleCustody DEF Release
<1>5. ASSUME NEW w, NEW tok, NEW S \in SUBSET Work, ConsumeParts(h, w, tok, S) PROVE CustodyInv'
  BY <1>1, <1>5, ClaimTables, PartsPresence, SettleCustody DEF ConsumeParts
<1>6. ASSUME NEW w, NEW tok, NEW unroutable \in BOOLEAN, Fail(h, w, tok, unroutable) PROVE CustodyInv'
  <2>1. \E L : \/ Settle(h, deadLetterClaimedDurableWork(rows[h], w, tok), L)
               \/ Settle(h, rows[h], L)
    BY <1>6 DEF Fail
  <2>2. /\ deadLetterClaimedDurableWork(rows[h], w, tok) \in Table
        /\ SamePresence(rows[h], deadLetterClaimedDurableWork(rows[h], w, tok))
    BY <1>1, TerminalTables, TerminalPresence
  <2> QED BY <1>1, <2>1, <2>2, SettleCustody
<1>7. ASSUME NEW w \in Work, ConsumePendingDispatch(h, w) PROVE CustodyInv'
  BY <1>1, <1>7, ClaimTables, ClaimPresence, SettleCustody DEF ConsumePendingDispatch
<1>8. ASSUME NEW w \in Work, RejectPending(h, w) PROVE CustodyInv'
  BY <1>1, <1>8, TerminalTables, TerminalPresence, SettleCustody DEF RejectPending
<1>9. ASSUME NEW T \in Threads, NEW returned \in BOOLEAN, ResetDispatch(h, T, returned)
      PROVE  CustodyInv'
  <2> DEFINE t == resetProcessingDurableDispatchForThread(rows[h], T)
  <2>1. t \in Table /\ SamePresence(rows[h], t)
    BY <1>1, TerminalTables, TerminalPresence
  <2>2. rows' = [rows EXCEPT ![h] = t] /\ net' = net /\ held' = held /\ disposed' = disposed
    BY <1>9 DEF ResetDispatch, history
  <2> HIDE DEF t
  <2> QED BY <2>1, <2>2, OneTable, QuietCustody
<1> QED BY <1>2, <1>3, <1>4, <1>5, <1>6, <1>7, <1>8, <1>9

\* Crashes, the operator and retention keep custody, or record what they drop.
LEMMA KeeperCustody == TypeOK /\ CustodyInv /\ Keeper => CustodyInv'
<1> SUFFICES ASSUME TypeOK, CustodyInv, NEW h \in Site,
                    \/ Restart(h)
                    \/ \E w \in Work : Redrive(h, w)
                    \/ \E S \in SUBSET Work : Delete(h, S)
             PROVE  CustodyInv'
  BY DEF Keeper, Prune, Purge
<1>1. rows[h] \in Table /\ gen \in [Work -> Nat]
  BY DEF TypeOK
<1>2. CASE Restart(h)
  <2> DEFINE t == resetProcessingDurableWork(rows[h], Local)
             u == resetTransferringLocalDurableWork(t)
  <2>1. t \in Table /\ SamePresence(rows[h], t)
    BY <1>1, TerminalTables, TerminalPresence
  <2>2. u \in Table /\ SamePresence(t, u)
    BY <2>1, TerminalTables, TerminalPresence
  <2>3. SamePresence(rows[h], u)
    BY <2>1, <2>2 DEF SamePresence
  <2>4. rows' = [rows EXCEPT ![h] = u] /\ net' = net /\ held' = held /\ disposed' = disposed
    BY <1>2 DEF Restart, history
  <2> HIDE DEF u
  <2> QED BY <2>2, <2>3, <2>4, OneTable, QuietCustody
<1>3. ASSUME NEW w \in Work, Redrive(h, w) PROVE CustodyInv'
  <2>1. PICK t \in {redriveTransferringDurableWork(rows[h], w),
                    redriveDeadLetterDurableWork(rows[h], w, w \in HasTtl)} :
            rows' = [rows EXCEPT ![h] = t]
    BY <1>3 DEF Redrive
  <2>2. (w \in HasTtl) \in BOOLEAN
    OBVIOUS
  <2>3. t \in Table /\ SamePresence(rows[h], t)
    BY <1>1, <2>1, <2>2, TransferTables, TransferPresence, TerminalTables, TerminalPresence, Zenon
  <2>4. net' = net /\ held' = held /\ disposed' = disposed
    BY <1>3 DEF Redrive
  <2> QED BY <2>1, <2>3, <2>4, OneTable, QuietCustody
<1>4. ASSUME NEW S \in SUBSET Work, Delete(h, S) PROVE CustodyInv'
  <2>1. net' = net /\ held' = held
    BY <1>4 DEF Delete
  <2>2. \A k \in Site : \A w \in Work :
            \/ rows'[k][w] = rows[k][w]
            \/ rows'[k][w].st = "absent" /\ w \in disposed'[k]
    BY <1>4 DEF Delete, DeleteRows, Absent, TypeOK
  <2>3. \A k \in Site : disposed[k] \subseteq disposed'[k]
    BY <1>4 DEF Delete, TypeOK
  <2>4. WireInv'
    BY <2>1 DEF CustodyInv, WireInv, Successor, PeerTargeted, NextHop
  <2>5. HeldInv'
    BY <2>1, <2>2 DEF CustodyInv, HeldInv
  <2>6. Custody'
    <3> SUFFICES ASSUME NEW k \in Site, NEW w \in held[k]
                 PROVE  \/ rows'[k][w].st # "absent" \/ w \in disposed'[k]
                        \/ \E p \in Site : Successor(k, w, p) /\ w \in held[p]
      BY <2>1 DEF Custody, Successor, PeerTargeted, NextHop
    <3>1. w \in Work
      BY DEF TypeOK
    <3> QED BY <2>2, <2>3, <3>1 DEF CustodyInv, Custody
  <2> QED BY <2>4, <2>5, <2>6 DEF CustodyInv
<1> QED BY <1>2, <1>3, <1>4

\* A producer's insertion keeps custody.
LEMMA ProduceCustody ==
    ASSUME TypeOK, CustodyInv, NEW w \in Work, Produce(w)
    PROVE  CustodyInv'
<1> DEFINE h   == Origin[w]
           ttl == [v \in Work |-> v \in HasTtl]
           t   == insertDurableWork(rows[h], {w}, ttl)
<1>1. /\ h \in Site /\ rows[h] \in Table /\ gen \in [Work -> Nat] /\ ttl \in [Work -> BOOLEAN]
      /\ {w} \in SUBSET Work
  BY SpoolAssumption DEF TypeOK
<1>2. t \in Table
  <2> HIDE DEF ttl, h
  <2> QED BY <1>1, ClaimTables
<1>3. \A v \in Work : Present(t, v) <=> Present(rows[h], v) \/ v \in {w}
  <2>1. \A b : [Absent EXCEPT !.st = "pending", !.ttl = b].st = "pending"
    BY DEF Absent
  <2> HIDE DEF ttl, h
  <2> QED BY <2>1 DEF Present, insertDurableWork
<1>4. Push(h, t, {w}, net, pressed) /\ disposed' = disposed
  BY DEF Produce
<1> HIDE DEF t, h
<1> QED BY <1>1, <1>2, <1>3, <1>4, PushCustody

\* Durable work is never lost (R-DW11), whatever the hosts, the routing, the
\* losses, crashes and reconnects: a host that ever inserted a row still has it,
\* or its next hop inserted it, or retention or the operator deleted it.
THEOREM CustodyCorrect == Spec => []Custody
<1>1. Init => CustodyInv
  BY DEF Init, CustodyInv, WireInv, HeldInv, Custody, Absent
<1>2. TypeOK /\ CustodyInv /\ [Next]_vars => CustodyInv'
  <2> SUFFICES ASSUME TypeOK, CustodyInv, [Next]_vars PROVE CustodyInv'
    OBVIOUS
  <2>1. CASE UNCHANGED vars
    BY <2>1 DEF vars, hostVars, linkVars, history, CustodyInv, WireInv, HeldInv, Custody,
                Successor, PeerTargeted, NextHop
  <2> QED BY <2>1, ProduceCustody, TransportCustody, ConsumerCustody, KeeperCustody DEF Next
<1>3. CustodyInv => Custody
  BY DEF CustodyInv
<1> QED BY <1>1, <1>2, <1>3, TypeCorrect, PTL DEF Spec

---------------------------------------------------------------------------
(* What one step makes of one row.  Every property below is a property of   *)
(* one row of one host: the steps of the whole system are first reduced to   *)
(* the few things that can happen to it.                                     *)

\* r is what the transport's housekeeping makes of h's row for w: as it was,
\* charged for a transfer, expired, or reopened for a reconnected peer.
Rewritten(h, w, r) ==
    \/ r = rows[h][w]
    \/ rows[h][w].st = "transferring" /\ r = ChargeTransfer(rows[h][w])
    \/ rows[h][w].st \notin {"absent", "dead_letter"} /\ \E e \in LastError : r = DeadLettered(rows[h][w], e)
    \/ /\ rows[h][w].st = "dead_letter" /\ rows[h][w].rec < ReclassifyBudget
       /\ PeerTargeted(h, w) /\ r = Reopened(rows[h][w])

Kept(h, w) == Rewritten(h, w, rows'[h][w]) /\ shipped'[h][w] = shipped[h][w]

\* A transfer generation of the row is put on the wire.
Begun(h, w) ==
    \E r \in Row :
        /\ Rewritten(h, w, r) /\ r.st = "pending" /\ PeerTargeted(h, w)
        /\ rows'[h][w].st = "transferring"
        /\ rows'[h][w].att = r.att /\ rows'[h][w].rec = r.rec
        /\ shipped'[h][w] = shipped[h][w] + 1

Inserted(h, w) ==
    /\ rows[h][w].st = "absent" /\ rows'[h][w].att = 0 /\ rows'[h][w].rec = 0
    /\ \/ rows'[h][w].st = "pending" /\ shipped'[h][w] = 0
       \/ rows'[h][w].st = "transferring" /\ shipped'[h][w] = 1 /\ PeerTargeted(h, w)

\* The row was handed over.
Acked(h, w) ==
    /\ rows[h][w].st = "transferring" /\ rows'[h][w] = Absent
    /\ shipped'[h][w] = shipped[h][w]
    /\ \E f \in net \ net' : /\ f.typ = "ack" /\ f.dst = h
                             /\ \E e \in f.ents : e.w = w /\ e.tok = rows[h][w].tok

\* Retention or the operator deleted it.
Deleted(h, w) ==
    /\ rows[h][w].st \in {"pending", "consumed", "dead_letter"} /\ rows'[h][w] = Absent
    /\ w \in disposed'[h] /\ shipped'[h][w] = shipped[h][w]

\* A consumer takes it, or another row's consumer or the reconciler closes it.
Taken(h, w) ==
    /\ Consumes(h, w) /\ rows[h][w].st = "pending"
    /\ rows'[h][w].st \in {"processing", "consumed", "dead_letter"}
    /\ shipped'[h][w] = shipped[h][w]

\* The handler of the present claim ends, and with it the claim.
Settled(h, w) ==
    /\ rows[h][w].st = "processing" /\ <<w, rows[h][w].tok>> \in live[h] \ live'[h]
    /\ rows'[h][w].st \in {"pending", "consumed", "dead_letter"}
    /\ shipped'[h][w] = shipped[h][w]

\* Boot recovery or the thread executor puts it back: no handler of it is running
\* that the executor waits for.
Reset(h, w) ==
    /\ rows[h][w].st \in {"processing", "transferring"} /\ rows'[h][w].st = "pending"
    /\ Target[w] = Local /\ shipped'[h][w] = shipped[h][w]
    /\ \A c \in live'[h] : c[1] = w => c \in abandoned'[h]

\* The operator redrives a dead letter.
Redriven(h, w) ==
    /\ rows[h][w].st = "dead_letter" /\ rows'[h][w].st = "pending"
    /\ rows'[h][w].att = rows[h][w].att /\ rows'[h][w].rec = rows[h][w].rec
    /\ redriven'[h][w] = redriven[h][w] + 1 /\ shipped'[h][w] = shipped[h][w]

RowStep(h, w) ==
    \/ Kept(h, w) \/ Begun(h, w) \/ Inserted(h, w) \/ Acked(h, w) \/ Deleted(h, w)
    \/ Taken(h, w) \/ Settled(h, w) \/ Reset(h, w) \/ Redriven(h, w)

\* A claim starts with the generation that its row bears; one given up stays so.
LiveStep(h) ==
    /\ \A c \in live'[h] :
        \/ c \in live[h]
        \/ /\ rows[h][c[1]].st = "pending" /\ Consumes(h, c[1])
           /\ rows'[h][c[1]].st = "processing" /\ rows'[h][c[1]].tok = c[2]
           /\ \A d \in live'[h] : d[1] = c[1] => d = c \/ d \in live[h]
    /\ abandoned[h] \cap live'[h] \subseteq abandoned'[h]

\* Histories grow.
HistoryStep(h) ==
    /\ disposed[h] \subseteq disposed'[h]
    /\ \A w \in Work : redriven'[h][w] >= redriven[h][w]
    /\ \A w \in retired'[h] : w \in retired[h] \/ rows'[h][w].st = "consumed"

---------------------------------------------------------------------------
(* The inductive invariants *)

\* Consumers touch only rows addressed to their host.
RouteInv ==
    \A h \in Site : \A w \in Work :
        rows[h][w].st \in {"processing", "consumed"} \/ w \in retired[h] => Consumes(h, w)

\* Until the operator or retention intervene, a running claim is the one its row
\* bears, or the row has expired under it, or its run was given up.
LiveInv ==
    \A h \in Site : \A c \in live[h] :
        /\ Consumes(h, c[1])
        /\ redriven[h][c[1]] = 0 /\ c[1] \notin disposed[h] /\ c \notin abandoned[h] =>
               \/ rows[h][c[1]].st = "processing" /\ rows[h][c[1]].tok = c[2]
               \/ rows[h][c[1]].st = "dead_letter"

Epoch == MaxAttempts + 1

\* A generation on the wire, or the one that died there, is not yet charged.
Uncharged(r) == IF r.st \in {"transferring", "dead_letter"} THEN 1 ELSE 0

\* Every generation put on the wire is paid for by an attempt, a reclassification
\* or a redrive.
BudgetInv ==
    \A h \in Site : \A w \in Work :
        IF PeerTargeted(h, w)
        THEN /\ rows[h][w].att <= MaxAttempts /\ rows[h][w].rec <= ReclassifyBudget
             /\ IF rows[h][w].st = "absent"
                THEN shipped[h][w] <= (ReclassifyBudget + 1) * Epoch + redriven[h][w]
                ELSE shipped[h][w] <= rows[h][w].rec * Epoch + rows[h][w].att + redriven[h][w]
                                      + Uncharged(rows[h][w])
        ELSE shipped[h][w] = 0

---------------------------------------------------------------------------
(* Every step is made of row steps. *)

\* What the writes do to the fields the budget counts.
LEMMA RowFields ==
    ASSUME NEW r \in Row, NEW e
    PROVE  /\ DeadLettered(r, e).st = "dead_letter" /\ DeadLettered(r, e).att = r.att
           /\ DeadLettered(r, e).rec = r.rec
           /\ Reopened(r).st = "pending" /\ Reopened(r).att = 0 /\ Reopened(r).rec = r.rec + 1
           /\ r.att >= MaxAttempts => ChargeTransfer(r) = DeadLettered(r, "exhausted")
           /\ ~(r.att >= MaxAttempts) => /\ ChargeTransfer(r).st = "pending"
                                         /\ ChargeTransfer(r).att = r.att + 1
                                         /\ ChargeTransfer(r).rec = r.rec
<1>1. /\ DeadLettered(r, e).st = "dead_letter" /\ DeadLettered(r, e).att = r.att
      /\ DeadLettered(r, e).rec = r.rec
  BY DEF DeadLettered, Row
<1>2. Reopened(r).st = "pending" /\ Reopened(r).att = 0 /\ Reopened(r).rec = r.rec + 1
  BY DEF Reopened, Row
<1>3. \A n : /\ [r EXCEPT !.st = "pending", !.tok = 0, !.att = n].st = "pending"
             /\ [r EXCEPT !.st = "pending", !.tok = 0, !.att = n].att = n
             /\ [r EXCEPT !.st = "pending", !.tok = 0, !.att = n].rec = r.rec
  BY DEF Row
<1> QED BY <1>1, <1>2, <1>3 DEF ChargeTransfer

\* Housekeeping leaves a row.
LEMMA RewrittenRow ==
    ASSUME TypeOK, NEW h \in Site, NEW w \in Work, NEW r, Rewritten(h, w, r)
    PROVE  r \in Row
<1>1. rows[h][w] \in Row /\ 0 \in Nat /\ "none" \in LastError
  BY DEF TypeOK, Table, LastError
<1>2. /\ \A e \in LastError : DeadLettered(rows[h][w], e) \in Row
      /\ ChargeTransfer(rows[h][w]) \in Row /\ Reopened(rows[h][w]) \in Row
  BY <1>1, RowShapes
<1> QED BY <1>1, <1>2 DEF Rewritten

\* Rows of a host whose table and counters stay are kept.
LEMMA KeptRows ==
    ASSUME NEW h, rows'[h] = rows[h], shipped'[h] = shipped[h]
    PROVE  \A w \in Work : Kept(h, w)
BY DEF Kept, Rewritten

\* One host's rows are rewritten; none goes on the wire.
LEMMA RewrittenRows ==
    ASSUME TypeOK, NEW h \in Site, NEW t, rows' = [rows EXCEPT ![h] = t], shipped' = shipped,
           \A w \in Work : Rewritten(h, w, t[w])
    PROVE  \A k \in Site : \A w \in Work : Kept(k, w)
<1>1. \A k \in Site : rows'[k] = IF k = h THEN t ELSE rows[k]
  BY DEF TypeOK
<1>2. \A w \in Work : Kept(h, w)
  BY <1>1 DEF Kept
<1>3. \A k \in Site \ {h} : \A w \in Work : Kept(k, w)
  BY <1>1, KeptRows
<1> QED BY <1>2, <1>3

\* A drain puts pending rows on the wire, after the housekeeping that led to it.
LEMMA DrainRows ==
    ASSUME TypeOK, NEW c \in SUBSET Link, NEW latched, NEW h \in Site, NEW t \in Table, NEW P,
           \A w \in Work : Rewritten(h, w, t[w]), Drain(c, latched, h, t, P)
    PROVE  \A k \in Site : \A w \in Work : Kept(k, w) \/ Begun(k, w)
<1> DEFINE O == Offered(c, latched, h, t, P)
<1>1. PICK ok \in SUBSET O :
        LET begun  == UNION {Batch(c, h, p, InState(t, "pending")) : p \in ok}
            after  == beginDurableWorkTransfer(t, begun, Mint(begun))
        IN  /\ rows' = [rows EXCEPT ![h] = after]
            /\ shipped' = [shipped EXCEPT ![h] =
                            [w \in Work |-> IF w \in begun THEN @[w] + 1 ELSE @[w]]]
  BY DEF Drain
<1> DEFINE begun  == UNION {Batch(c, h, p, InState(t, "pending")) : p \in ok}
           g      == Mint(begun)
           after  == beginDurableWorkTransfer(t, begun, g)
<1>2. \A w \in begun : w \in Work /\ t[w].st = "pending" /\ PeerTargeted(h, w)
  BY DEF Batch, InState
<1>3. /\ rows' = [rows EXCEPT ![h] = after]
      /\ shipped' = [shipped EXCEPT ![h] =
            [w \in Work |-> IF w \in begun THEN shipped[h][w] + 1 ELSE shipped[h][w]]]
  BY <1>1
<1>4. \A w \in Work : after[w] = IF w \in begun THEN [t[w] EXCEPT !.st = "transferring", !.tok = g[w]]
                                 ELSE t[w]
  BY <1>2 DEF beginDurableWorkTransfer
<1> HIDE DEF begun, after, g
<1>5. /\ rows'[h] = after
      /\ \A w \in Work : shipped'[h][w] = IF w \in begun THEN shipped[h][w] + 1 ELSE shipped[h][w]
      /\ \A k \in Site \ {h} : rows'[k] = rows[k] /\ shipped'[k] = shipped[k]
  BY <1>3 DEF TypeOK
<1>6. ASSUME NEW w \in begun PROVE Begun(h, w)
  <2>1. /\ t[w] \in Row /\ Rewritten(h, w, t[w]) /\ t[w].st = "pending" /\ PeerTargeted(h, w)
    BY <1>2 DEF Table
  <2>2. /\ rows'[h][w].st = "transferring" /\ rows'[h][w].att = t[w].att
        /\ rows'[h][w].rec = t[w].rec
    BY <1>2, <1>4, <1>5, <2>1 DEF Row
  <2> QED BY <1>2, <1>5, <2>1, <2>2 DEF Begun
<1>7. ASSUME NEW w \in Work \ begun PROVE Kept(h, w)
  BY <1>4, <1>5 DEF Kept
<1> QED BY <1>5, <1>6, <1>7, KeptRows

\* New rows are inserted, and pushed or not.
LEMMA PushRows ==
    ASSUME TypeOK, NEW h \in Site, NEW t \in Table, NEW N \in SUBSET Work,
           NEW frames, NEW latched, Push(h, t, N, frames, latched),
           \A w \in Work \ N : t[w] = rows[h][w],
           \A w \in N : /\ rows[h][w].st = "absent" /\ t[w].st = "pending"
                        /\ t[w].att = 0 /\ t[w].rec = 0
    PROVE  \A k \in Site : \A w \in Work : Kept(k, w) \/ Inserted(k, w)
<1> DEFINE to(p) == IF <<h, p>> \in conn \ pressed /\ p \in capable
                    THEN Batch(conn, h, p, N) ELSE {}
<1>1. PICK sent \in SUBSET N :
        LET after == beginDurableWorkTransfer(t, sent, Mint(sent))
        IN  /\ sent \subseteq UNION {to(p) : p \in Site}
            /\ rows' = [rows EXCEPT ![h] = after]
            /\ shipped' = [shipped EXCEPT ![h] =
                            [w \in Work |-> IF w \in sent THEN 1
                                            ELSE IF w \in N THEN 0 ELSE @[w]]]
  BY DEF Push
<1> DEFINE g     == Mint(sent)
           after == beginDurableWorkTransfer(t, sent, g)
<1>2. \A w \in sent : w \in N /\ w \in Work /\ PeerTargeted(h, w)
  BY <1>1 DEF Batch
<1>3. /\ rows' = [rows EXCEPT ![h] = after]
      /\ shipped' = [shipped EXCEPT ![h] =
            [w \in Work |-> IF w \in sent THEN 1 ELSE IF w \in N THEN 0 ELSE shipped[h][w]]]
  BY <1>1
<1>4. \A w \in Work : after[w] = IF w \in sent THEN [t[w] EXCEPT !.st = "transferring", !.tok = g[w]]
                                 ELSE t[w]
  BY <1>2 DEF beginDurableWorkTransfer
<1> HIDE DEF after, g
<1>5. /\ rows'[h] = after
      /\ \A w \in Work : shipped'[h][w] = IF w \in sent THEN 1 ELSE IF w \in N THEN 0
                                          ELSE shipped[h][w]
      /\ \A k \in Site \ {h} : rows'[k] = rows[k] /\ shipped'[k] = shipped[k]
  BY <1>3 DEF TypeOK
<1>6. ASSUME NEW w \in N PROVE Inserted(h, w)
  <2>1. t[w] \in Row /\ w \in Work
    BY DEF Table
  <2>2. CASE w \in sent
    <3>1. rows'[h][w] = [t[w] EXCEPT !.st = "transferring", !.tok = g[w]]
      BY <1>4, <1>5, <2>1, <2>2
    <3>2. rows'[h][w].st = "transferring" /\ rows'[h][w].att = t[w].att /\ rows'[h][w].rec = t[w].rec
      BY <2>1, <3>1 DEF Row
    <3> QED BY <1>2, <1>5, <2>1, <2>2, <3>2 DEF Inserted
  <2>3. CASE w \notin sent
    BY <1>4, <1>5, <2>1, <2>3 DEF Inserted
  <2> QED BY <2>2, <2>3
<1>7. ASSUME NEW w \in Work \ N PROVE Kept(h, w)
  <2>1. w \notin sent
    BY <1>2
  <2> QED BY <1>4, <1>5, <2>1 DEF Kept, Rewritten
<1> QED BY <1>5, <1>6, <1>7, KeptRows

RowSteps == \A h \in Site : LiveStep(h) /\ HistoryStep(h) /\ \A w \in Work : RowStep(h, w)

\* A step of neither consumers nor keepers.
LEMMA QuietHistory ==
    ASSUME TypeOK, UNCHANGED <<live, abandoned, retired, disposed, redriven>>
    PROVE  \A h \in Site : LiveStep(h) /\ HistoryStep(h)
<1>1. \A h \in Site : \A w \in Work : redriven[h][w] >= redriven[h][w]
  BY DEF TypeOK
<1> QED BY <1>1 DEF LiveStep, HistoryStep

\* Insertion of the rows S.
LEMMA InsertedTable ==
    ASSUME NEW t \in Table, NEW S, NEW ttl, NEW w \in Work
    PROVE  /\ w \in S /\ t[w].st = "absent" =>
                  /\ insertDurableWork(t, S, ttl)[w].st = "pending"
                  /\ insertDurableWork(t, S, ttl)[w].att = 0
                  /\ insertDurableWork(t, S, ttl)[w].rec = 0
           /\ ~(w \in S /\ t[w].st = "absent") => insertDurableWork(t, S, ttl)[w] = t[w]
<1>1. \A b : /\ [Absent EXCEPT !.st = "pending", !.ttl = b].st = "pending"
             /\ [Absent EXCEPT !.st = "pending", !.ttl = b].att = 0
             /\ [Absent EXCEPT !.st = "pending", !.ttl = b].rec = 0
  BY DEF Absent
<1> QED BY <1>1 DEF insertDurableWork

LEMMA ProduceRows ==
    ASSUME TypeOK, NEW w \in Work, Produce(w)
    PROVE  RowSteps
<1> DEFINE h   == Origin[w]
           ttl == [v \in Work |-> v \in HasTtl]
           t   == insertDurableWork(rows[h], {w}, ttl)
<1>1. /\ h \in Site /\ rows[h] \in Table /\ ttl \in [Work -> BOOLEAN] /\ {w} \in SUBSET Work
      /\ gen \in [Work -> Nat]
  BY SpoolAssumption DEF TypeOK
<1>2. t \in Table
  <2> HIDE DEF ttl, h
  <2> QED BY <1>1, ClaimTables
<1>3. Push(h, t, {w}, net, pressed) /\ UNCHANGED <<live, abandoned, retired, disposed, redriven>>
  BY DEF Produce
<1>4. rows[h][w].st = "absent"
  BY DEF Produce
<1>5. /\ \A v \in Work \ {w} : t[v] = rows[h][v]
      /\ t[w].st = "pending" /\ t[w].att = 0 /\ t[w].rec = 0
  BY <1>1, <1>4, InsertedTable
<1> HIDE DEF t, h
<1>6. \A k \in Site : \A v \in Work : Kept(k, v) \/ Inserted(k, v)
  BY <1>1, <1>2, <1>3, <1>4, <1>5, PushRows
<1> QED BY <1>3, <1>6, QuietHistory DEF RowSteps, RowStep

\* Expiry and the sweep rewrite rows.
LEMMA SweptRows ==
    ASSUME TypeOK, NEW h \in Site, NEW E, NEW S, NEW w \in Work
    PROVE  /\ Rewritten(h, w, deadLetterExpiredDurableWork(rows[h], E)[w])
           /\ Rewritten(h, w, sweepStaleTransferringDurableWork(
                                  deadLetterExpiredDurableWork(rows[h], E), S)[w])
<1> DEFINE x == deadLetterExpiredDurableWork(rows[h], E)
           r == rows[h][w]
<1> SUFFICES Rewritten(h, w, x[w]) /\ Rewritten(h, w, sweepStaleTransferringDurableWork(x, S)[w])
  OBVIOUS
<1>1. r \in Row
  BY DEF TypeOK, Table
<1>2. \/ x[w] = r
      \/ r.st \notin {"absent", "dead_letter"} /\ \E e \in LastError : x[w] = DeadLettered(r, e)
  <2>1. r.err \in LastError /\ "expired" \in LastError
    BY <1>1 DEF Row, LastError
  <2>2. (IF r.err = "none" THEN "expired" ELSE r.err) \in LastError
    BY <2>1
  <2> QED BY <2>2 DEF deadLetterExpiredDurableWork, Expirable
<1> HIDE DEF x
<1>3. Rewritten(h, w, x[w])
  BY <1>2 DEF Rewritten
<1>4. sweepStaleTransferringDurableWork(x, S)[w] =
        IF w \in S /\ x[w].st = "transferring" THEN ChargeTransfer(x[w]) ELSE x[w]
  BY DEF sweepStaleTransferringDurableWork
<1>5. CASE x[w] = r
  BY <1>3, <1>4, <1>5 DEF Rewritten
<1>6. CASE \E e \in LastError : x[w] = DeadLettered(r, e)
  <2>1. x[w].st = "dead_letter"
    BY <1>1, <1>6, RowFields
  <2> QED BY <1>3, <1>4, <2>1
<1> QED BY <1>2, <1>5, <1>6

\* So does the reconnect's reclassification, of rows for the peer only.
LEMMA ReclassifiedRows ==
    ASSUME TypeOK, NEW h \in Site, NEW p \in Site, h # p, NEW S, NEW w \in Work
    PROVE  Rewritten(h, w, reclassifyTransferExhaustedDeadLetters(rows[h], S, p)[w])
<1>1. CASE w \in S \cap Reclassifiable(rows[h], p)
  <2>1. PeerTargeted(h, w) /\ rows[h][w].st = "dead_letter" /\ rows[h][w].rec < ReclassifyBudget
    BY <1>1, SpoolAssumption DEF Reclassifiable, InState, PeerTargeted
  <2>2. reclassifyTransferExhaustedDeadLetters(rows[h], S, p)[w] = Reopened(rows[h][w])
    BY <1>1 DEF reclassifyTransferExhaustedDeadLetters
  <2> QED BY <2>1, <2>2 DEF Rewritten
<1>2. CASE w \notin S \cap Reclassifiable(rows[h], p)
  BY <1>2 DEF reclassifyTransferExhaustedDeadLetters, Rewritten
<1> QED BY <1>1, <1>2

LEMMA TransportRows == TypeOK /\ Transport => RowSteps
<1> SUFFICES ASSUME TypeOK, Transport PROVE RowSteps
  OBVIOUS
<1>1. \A k \in Site : rows[k] \in Table
  BY DEF TypeOK
<1>2. ASSUME NEW f \in net, Receive(f) PROVE RowSteps
  <2> DEFINE h    == f.dst
             good == {e \in f.ents : e.w \notin Poison}
             ids  == {e.w : e \in good}
             new  == ids \cap InState(rows[h], "absent")
             ttl  == [w \in Work |-> \E e \in f.ents : e.w = w /\ e.ttl]
             ack  == [typ |-> "ack", src |-> h, dst |-> f.src, ents |-> good]
             t    == insertDurableWork(rows[h], ids, ttl)
  <2>1. h \in Site
    BY DEF TypeOK, Frame
  <2>2. PICK ok \in BOOLEAN, press \in BOOLEAN :
          Push(h, t, new, (net \ {f}) \cup (IF ok THEN {ack} ELSE {}),
               pressed \cup (IF press THEN {<<h, f.src>>} ELSE {}))
    BY <1>2 DEF Receive
  <2>3. t \in Table
    <3>1. rows[h] \in Table /\ ttl \in [Work -> BOOLEAN] /\ gen \in [Work -> Nat]
      BY <2>1 DEF TypeOK
    <3> HIDE DEF ttl, h, ids
    <3> QED BY <3>1, ClaimTables
  <2>4. new \in SUBSET Work /\ \A w \in Work : w \in new <=> w \in ids /\ rows[h][w].st = "absent"
    BY DEF InState
  <2>5. /\ \A w \in Work \ new : t[w] = rows[h][w]
        /\ \A w \in new : /\ rows[h][w].st = "absent" /\ t[w].st = "pending"
                          /\ t[w].att = 0 /\ t[w].rec = 0
    <3> HIDE DEF ttl, ids, new, h
    <3> QED BY <1>1, <2>1, <2>4, InsertedTable
  <2>6. UNCHANGED <<live, abandoned, retired, disposed, redriven>>
    BY <1>2 DEF Receive
  <2> HIDE DEF t, new, ack, h
  <2>7. \A k \in Site : \A w \in Work : Kept(k, w) \/ Inserted(k, w)
    BY <2>1, <2>2, <2>3, <2>4, <2>5, PushRows
  <2> QED BY <2>6, <2>7, QuietHistory DEF RowSteps, RowStep
<1>3. ASSUME NEW f \in net, ReceiveAck(f) PROVE RowSteps
  <2>1. /\ f.dst \in Site /\ f.typ = "ack" /\ net' = net \ {f}
        /\ rows' = [rows EXCEPT ![f.dst] = acknowledgeDurableWorkTransfer(rows[f.dst], f.ents)]
        /\ shipped' = shipped /\ UNCHANGED <<live, abandoned, retired, disposed, redriven>>
    BY <1>3 DEF TypeOK, Frame, ReceiveAck, history
  <2>2. ASSUME NEW k \in Site, NEW w \in Work PROVE Kept(k, w) \/ Acked(k, w)
    <3>1. CASE k # f.dst
      BY <2>1, <3>1, KeptRows DEF TypeOK
    <3>2. CASE k = f.dst /\ \E e \in f.ents : e.w = w /\ OwnedBy(rows[f.dst], w, "transferring", e.tok)
      <4>1. rows'[k][w] = Absent
        BY <2>1, <3>2 DEF TypeOK, acknowledgeDurableWorkTransfer
      <4>2. f \in net \ net'
        BY <2>1
      <4> QED BY <2>1, <3>2, <4>1, <4>2 DEF Acked, OwnedBy
    <3>3. CASE k = f.dst /\ ~\E e \in f.ents : e.w = w /\ OwnedBy(rows[f.dst], w, "transferring", e.tok)
      <4>1. rows'[k][w] = rows[k][w]
        BY <2>1, <3>3 DEF TypeOK, acknowledgeDurableWorkTransfer
      <4> QED BY <2>1, <4>1 DEF Kept, Rewritten
    <3> QED BY <3>1, <3>2, <3>3
  <2> QED BY <2>1, <2>2, QuietHistory DEF RowSteps, RowStep
<1>4. ASSUME UNCHANGED <<rows, shipped, live, abandoned, retired, disposed, redriven>> PROVE RowSteps
  BY <1>4, KeptRows, QuietHistory DEF RowSteps, RowStep
<1>5. ASSUME NEW h \in Site, NEW p \in Site, Connect(h, p) PROVE RowSteps
  <2> DEFINE c == conn \cup {<<h, p>>}
  <2>1. c \in SUBSET Link /\ h # p
    BY <1>5 DEF Connect, TypeOK, Link
  <2>2. PICK S : Drain(c, pressed, h,
                       reclassifyTransferExhaustedDeadLetters(rows[h], S, p), {p})
    BY <1>5 DEF Connect
  <2>3. reclassifyTransferExhaustedDeadLetters(rows[h], S, p) \in Table
    BY <1>1, TransferTables, MintType
  <2>4. UNCHANGED <<live, abandoned, retired, disposed, redriven>>
    BY <1>5 DEF Connect
  <2> HIDE DEF c
  <2>5. \A k \in Site : \A w \in Work : Kept(k, w) \/ Begun(k, w)
    BY <2>1, <2>2, <2>3, DrainRows, ReclassifiedRows
  <2> QED BY <2>4, <2>5, QuietHistory DEF RowSteps, RowStep
<1>6. ASSUME NEW h \in Site, NEW p \in Site, ClearPressure(h, p) PROVE RowSteps
  <2>1. UNCHANGED <<live, abandoned, retired, disposed, redriven>>
    BY <1>6 DEF ClearPressure
  <2>2. CASE UNCHANGED <<rows, gen, net, shipped>>
    BY <1>4, <2>1, <2>2
  <2>3. CASE Drain(conn, pressed \ {<<h, p>>}, h, rows[h], {p})
    <3>1. conn \in SUBSET Link /\ \A w \in Work : Rewritten(h, w, rows[h][w])
      BY DEF TypeOK, Rewritten
    <3>2. \A k \in Site : \A w \in Work : Kept(k, w) \/ Begun(k, w)
      BY <1>1, <2>3, <3>1, DrainRows
    <3> QED BY <2>1, <3>2, QuietHistory DEF RowSteps, RowStep
  <2> QED BY <1>6, <2>2, <2>3 DEF ClearPressure
<1>7. ASSUME NEW h \in Site, NEW E \in SUBSET Work, NEW S \in SUBSET Work, Sweep(h, E, S)
      PROVE  RowSteps
  <2> DEFINE expired == deadLetterExpiredDurableWork(rows[h], E)
             swept   == sweepStaleTransferringDurableWork(expired, S)
  <2>1. expired \in Table
    BY <1>1, TerminalTables
  <2>2. swept \in Table
    BY <2>1, TransferTables, MintType
  <2>3. \A w \in Work : Rewritten(h, w, expired[w]) /\ Rewritten(h, w, swept[w])
    BY SweptRows
  <2>4. UNCHANGED <<live, abandoned, retired, disposed, redriven>>
    BY <1>7 DEF Sweep
  <2>5. CASE S = {}
    <3>1. rows' = [rows EXCEPT ![h] = expired] /\ shipped' = shipped
      BY <1>7, <2>5 DEF Sweep
    <3> HIDE DEF expired, swept
    <3> QED BY <2>3, <2>4, <3>1, RewrittenRows, QuietHistory DEF RowSteps, RowStep
  <2>6. CASE S # {}
    <3>1. Drain(conn, pressed, h, swept, Site) /\ conn \in SUBSET Link
      BY <1>7, <2>6 DEF Sweep, TypeOK
    <3> HIDE DEF expired, swept
    <3>2. \A k \in Site : \A w \in Work : Kept(k, w) \/ Begun(k, w)
      BY <2>2, <2>3, <3>1, DrainRows
    <3> QED BY <2>4, <3>2, QuietHistory DEF RowSteps, RowStep
  <2> QED BY <2>5, <2>6
<1>8. ASSUME NEW h \in Site, NEW p \in Site, Disconnect(h, p) \/ SelfHeal(h, p) \/ Advertise(p)
      PROVE  RowSteps
  BY <1>4, <1>8 DEF Disconnect, SelfHeal, Advertise, hostVars, history
<1>9. ASSUME NEW f \in net, Lose(f) PROVE RowSteps
  BY <1>4, <1>9 DEF Lose, hostVars, history
<1> QED BY <1>2, <1>3, <1>5, <1>6, <1>7, <1>8, <1>9 DEF Transport

\* A consumer's step: other hosts' rows stay, and the rows of the host are kept,
\* taken or settled.
LEMMA SettleRows ==
    ASSUME TypeOK, NEW h \in Site, NEW t, NEW L, Settle(h, t, L), LiveStep(h),
           \A w \in Work : t[w] = rows[h][w] \/ Taken(h, w) \/ Settled(h, w)
    PROVE  RowSteps
<1>1. /\ \A k \in Site : rows'[k] = IF k = h THEN t ELSE rows[k]
      /\ \A k \in Site : live'[k] = IF k = h THEN L ELSE live[k]
      /\ \A k \in Site : abandoned'[k] = IF k = h THEN abandoned[k] \cap L ELSE abandoned[k]
      /\ shipped' = shipped /\ disposed' = disposed /\ redriven' = redriven
      /\ \A k \in Site : retired'[k] = IF k = h THEN retired[k] \cup InState(t, "consumed")
                                       ELSE retired[k]
  BY DEF Settle, TypeOK
<1>2. \A k \in Site : LiveStep(k)
  BY <1>1 DEF LiveStep
<1>3. \A k \in Site : HistoryStep(k)
  <2>1. \A k \in Site : \A w \in Work : redriven'[k][w] >= redriven[k][w]
    BY <1>1 DEF TypeOK
  <2>2. \A k \in Site : \A w \in retired'[k] : w \in retired[k] \/ rows'[k][w].st = "consumed"
    <3>1. \A w \in InState(t, "consumed") : t[w].st = "consumed"
      BY DEF InState
    <3> QED BY <1>1, <3>1
  <2> QED BY <1>1, <2>1, <2>2 DEF HistoryStep
<1>4. \A w \in Work : RowStep(h, w)
  BY <1>1 DEF RowStep, Kept, Rewritten
<1>5. \A k \in Site \ {h} : \A w \in Work : RowStep(k, w)
  BY <1>1, KeptRows DEF RowStep
<1> QED BY <1>2, <1>3, <1>4, <1>5 DEF RowSteps

\* A consumer that starts no handler.
LEMMA FewerClaims ==
    ASSUME NEW h, live'[h] \subseteq live[h], abandoned[h] \cap live'[h] \subseteq abandoned'[h]
    PROVE  LiveStep(h)
BY DEF LiveStep

LEMMA ConsumerRows == TypeOK /\ Consumer => RowSteps
<1> SUFFICES ASSUME TypeOK, NEW h \in Site,
                    \/ \E S \in SUBSET Work : Claim(h, S)
                    \/ \E c \in live[h] :
                          \/ Acknowledge(h, c[1], c[2])
                          \/ Release(h, c[1], c[2])
                          \/ \E S \in SUBSET Work : ConsumeParts(h, c[1], c[2], S)
                          \/ \E unroutable \in BOOLEAN : Fail(h, c[1], c[2], unroutable)
                    \/ \E w \in Work : ConsumePendingDispatch(h, w) \/ RejectPending(h, w)
                    \/ \E T \in Threads, returned \in BOOLEAN : ResetDispatch(h, T, returned)
             PROVE  RowSteps
  BY DEF Consumer
<1>1. /\ rows[h] \in Table /\ gen \in [Work -> Nat] /\ live[h] \in SUBSET (Work \X Nat)
      /\ \A w \in Work : rows[h][w] \in Row
  BY DEF TypeOK, Table
<1>2. ASSUME NEW t, NEW L, Settle(h, t, L)
      PROVE  /\ rows'[h] = t /\ live'[h] = L /\ shipped'[h] = shipped[h]
             /\ abandoned'[h] = abandoned[h] \cap L
  BY <1>2 DEF Settle, TypeOK
<1>3. ASSUME NEW S \in SUBSET Work, Claim(h, S) PROVE RowSteps
  <2> DEFINE g == Mint(S)
             t == claimDurableWorkByIds(rows[h], S, g)
             L == live[h] \cup {<<w, gen[w] + 1>> : w \in S}
  <2>1. Settle(h, t, L) /\ \A w \in S : rows[h][w].st = "pending" /\ Consumes(h, w)
    BY <1>3 DEF Claim, InState
  <2>2. \A w \in S : g[w] = gen[w] + 1
    BY DEF Mint
  <2>3. \A w \in Work : t[w] = IF w \in S THEN Claimed(rows[h][w], g[w]) ELSE rows[h][w]
    BY <2>1 DEF claimDurableWorkByIds
  <2>4. \A r \in Row : \A k : Claimed(r, k).st = "processing" /\ Claimed(r, k).tok = k
    BY DEF Claimed, Row
  <2>5. /\ rows'[h] = t /\ live'[h] = L /\ shipped'[h] = shipped[h]
        /\ abandoned'[h] = abandoned[h] \cap L
    BY <1>2, <2>1
  <2> HIDE DEF t, g
  <2>6. \A w \in S : t[w].st = "processing" /\ t[w].tok = gen[w] + 1
    BY <1>1, <2>2, <2>3, <2>4
  <2>7. \A w \in S : Taken(h, w)
    BY <2>1, <2>5, <2>6 DEF Taken
  <2>8. LiveStep(h)
    <3> SUFFICES ASSUME NEW c \in L, c \notin live[h]
                 PROVE  /\ rows[h][c[1]].st = "pending" /\ Consumes(h, c[1])
                        /\ rows'[h][c[1]].st = "processing" /\ rows'[h][c[1]].tok = c[2]
                        /\ \A d \in L : d[1] = c[1] => d = c \/ d \in live[h]
      BY <2>5 DEF LiveStep
    <3>1. PICK w \in S : c = <<w, gen[w] + 1>>
      OBVIOUS
    <3>2. ASSUME NEW d \in L, d[1] = c[1], d \notin live[h] PROVE d = c
      <4>1. PICK v \in S : d = <<v, gen[v] + 1>>
        BY <3>2
      <4> QED BY <3>1, <3>2, <4>1
    <3> QED BY <2>1, <2>5, <2>6, <3>1, <3>2
  <2> HIDE DEF L
  <2> QED BY <2>1, <2>3, <2>7, <2>8, SettleRows
<1>4. ASSUME NEW c \in live[h], NEW t, Settle(h, t, live[h] \ {<<c[1], c[2]>>}),
             \A w \in Work :
                \/ t[w] = rows[h][w]
                \/ /\ w = c[1] /\ OwnedBy(rows[h], c[1], "processing", c[2])
                   /\ t[w].st \in {"pending", "consumed", "dead_letter"}
                \/ /\ Consumes(h, w) /\ rows[h][w].st = "pending" /\ t[w].st = "consumed"
      PROVE  RowSteps
  <2>1. /\ rows'[h] = t /\ live'[h] = live[h] \ {<<c[1], c[2]>>} /\ shipped'[h] = shipped[h]
        /\ abandoned'[h] = abandoned[h] \cap live'[h]
    BY <1>2, <1>4
  <2>2. c = <<c[1], c[2]>>
    BY <1>1
  <2>3. ASSUME NEW w \in Work, w = c[1], OwnedBy(rows[h], c[1], "processing", c[2]),
               t[w].st \in {"pending", "consumed", "dead_letter"}
        PROVE  Settled(h, w)
    <3>1. <<w, rows[h][w].tok>> = c
      BY <2>2, <2>3 DEF OwnedBy
    <3> QED BY <2>1, <2>2, <2>3, <3>1 DEF Settled, OwnedBy
  <2>4. ASSUME NEW w \in Work, Consumes(h, w), rows[h][w].st = "pending", t[w].st = "consumed"
        PROVE  Taken(h, w)
    BY <2>1, <2>4 DEF Taken
  <2>5. LiveStep(h)
    BY <2>1, FewerClaims
  <2> QED BY <1>4, <2>3, <2>4, <2>5, SettleRows
<1>5. \A r \in Row : \A e : /\ Retired(r).st = "consumed" /\ ClaimRetired(r).st = "consumed"
                            /\ DeadLettered(r, e).st = "dead_letter"
  BY DEF Retired, ClaimRetired, DeadLettered, Row
<1>6. \A r \in Row : Released(r).st = "pending"
  <2> SUFFICES ASSUME NEW r \in Row PROVE Released(r).st = "pending"
    OBVIOUS
  <2>1. \A n : [r EXCEPT !.st = "pending", !.tok = 0, !.att = n].st = "pending"
    BY DEF Row
  <2> QED BY <2>1 DEF Released
<1>7. ASSUME NEW c \in live[h], Acknowledge(h, c[1], c[2]) PROVE RowSteps
  <2> DEFINE t == acknowledgeDurableWork(rows[h], c[1], c[2])
  <2>1. Settle(h, t, live[h] \ {<<c[1], c[2]>>})
    BY <1>7 DEF Acknowledge
  <2>2. \A w \in Work : \/ t[w] = rows[h][w]
                        \/ /\ w = c[1] /\ OwnedBy(rows[h], c[1], "processing", c[2])
                           /\ t[w] = Retired(rows[h][w])
    BY <1>1 DEF acknowledgeDurableWork, Table
  <2> HIDE DEF t
  <2> QED BY <1>1, <1>4, <1>5, <2>1, <2>2
<1>8. ASSUME NEW c \in live[h], Release(h, c[1], c[2]) PROVE RowSteps
  <2> DEFINE t == releaseDurableWorkClaim(rows[h], c[1], c[2])
  <2>1. Settle(h, t, live[h] \ {<<c[1], c[2]>>})
    BY <1>8 DEF Release
  <2>2. \A w \in Work : \/ t[w] = rows[h][w]
                        \/ /\ w = c[1] /\ OwnedBy(rows[h], c[1], "processing", c[2])
                           /\ t[w] = Released(rows[h][w])
    BY <1>1 DEF releaseDurableWorkClaim, Table
  <2> HIDE DEF t
  <2> QED BY <1>1, <1>4, <1>6, <2>1, <2>2
<1>9. ASSUME NEW c \in live[h], NEW S \in SUBSET Work, ConsumeParts(h, c[1], c[2], S) PROVE RowSteps
  <2> DEFINE t == claimAndConsumeDurableWorkByIds(rows[h], S, c[1], c[2])
  <2>1. /\ Settle(h, t, live[h] \ {<<c[1], c[2]>>}) /\ \A v \in S : Consumes(h, v)
        /\ c[1] \in S
    BY <1>9 DEF ConsumeParts
  <2>2. \A w \in Work : \/ t[w] = rows[h][w]
                        \/ /\ w = c[1] /\ OwnedBy(rows[h], c[1], "processing", c[2])
                           /\ t[w] = Retired(rows[h][w])
                        \/ /\ w \in S /\ rows[h][w].st = "pending"
                           /\ t[w] = ClaimRetired(rows[h][w])
    BY <1>1, <2>1 DEF claimAndConsumeDurableWorkByIds, Table
  <2> HIDE DEF t
  <2>3. \A w \in Work :
            \/ t[w] = rows[h][w]
            \/ /\ w = c[1] /\ OwnedBy(rows[h], c[1], "processing", c[2])
               /\ t[w].st \in {"pending", "consumed", "dead_letter"}
            \/ /\ Consumes(h, w) /\ rows[h][w].st = "pending" /\ t[w].st = "consumed"
    BY <1>1, <1>5, <2>1, <2>2
  <2> QED BY <1>4, <2>1, <2>3
<1>10. ASSUME NEW c \in live[h], NEW unroutable \in BOOLEAN, Fail(h, c[1], c[2], unroutable)
       PROVE  RowSteps
  <2>1. PICK t \in {deadLetterClaimedDurableWork(rows[h], c[1], c[2]), rows[h]} :
          Settle(h, t, live[h] \ {<<c[1], c[2]>>})
    BY <1>10 DEF Fail
  <2>2. \A w \in Work : \/ t[w] = rows[h][w]
                        \/ /\ w = c[1] /\ OwnedBy(rows[h], c[1], "processing", c[2])
                           /\ t[w] = DeadLettered(rows[h][w], "failed")
    BY <1>1, <2>1 DEF deadLetterClaimedDurableWork, Table
  <2> QED BY <1>1, <1>4, <1>5, <2>1, <2>2
<1>11. ASSUME NEW v \in Work, ConsumePendingDispatch(h, v) \/ RejectPending(h, v) PROVE RowSteps
  <2>1. PICK t \in {consumePendingDispatchByIdempotencyKey(rows[h], v),
                    deadLetterPendingDurableWork(rows[h], v)} : Settle(h, t, live[h])
    BY <1>11 DEF ConsumePendingDispatch, RejectPending
  <2>2. rows[h][v].st = "pending" /\ Consumes(h, v)
    BY <1>11 DEF ConsumePendingDispatch, RejectPending, Consumes
  <2>3. \A w \in Work : \/ t[w] = rows[h][w]
                        \/ w = v /\ t[w] \in {Retired(rows[h][w]), DeadLettered(rows[h][w], "failed")}
    BY <1>1, <2>1 DEF consumePendingDispatchByIdempotencyKey, deadLetterPendingDurableWork, Table
  <2>4. /\ rows'[h] = t /\ live'[h] = live[h] /\ shipped'[h] = shipped[h]
        /\ abandoned'[h] = abandoned[h] \cap live'[h]
    BY <1>2, <2>1
  <2>5. \A w \in Work : t[w] = rows[h][w] \/ Taken(h, w)
    BY <1>1, <1>5, <2>2, <2>3, <2>4 DEF Taken
  <2>6. LiveStep(h)
    BY <2>4, FewerClaims
  <2> QED BY <2>1, <2>5, <2>6, SettleRows
<1>12. ASSUME NEW T \in Threads, NEW returned \in BOOLEAN, ResetDispatch(h, T, returned)
       PROVE  RowSteps
  <2> DEFINE t == resetProcessingDurableDispatchForThread(rows[h], T)
  <2>1. rows' = [rows EXCEPT ![h] = t] /\ UNCHANGED <<retired, disposed, shipped, redriven>>
    BY <1>12 DEF ResetDispatch, history
  <2>2. \A r \in Row : Repended(r).st = "pending"
    BY DEF Repended, Row
  <2>3. \A w \in Work : \/ t[w] = rows[h][w]
                        \/ /\ Target[w] = Local /\ rows[h][w].st = "processing" /\ w \in T
                           /\ t[w].st = "pending"
    BY <1>1, <2>2 DEF resetProcessingDurableDispatchForThread
  <2> HIDE DEF t
  <2>4. /\ \A k \in Site : rows'[k] = IF k = h THEN t ELSE rows[k]
        /\ \A k \in Site : live'[k] \subseteq live[k]
        /\ \A k \in Site : abandoned[k] \subseteq abandoned'[k]
    <3> DEFINE A == Awaited(h, T)
    <3>1. \/ live' = [live EXCEPT ![h] = live[h] \ A] /\ abandoned' = abandoned
          \/ abandoned' = [abandoned EXCEPT ![h] = abandoned[h] \cup A] /\ live' = live
      BY <1>12 DEF ResetDispatch
    <3> HIDE DEF A
    <3> QED BY <2>1, <3>1 DEF TypeOK
  <2>5. \A c \in live'[h] : c[1] \in T => c \in abandoned'[h]
    BY <1>12 DEF ResetDispatch, Awaited, TypeOK
  <2>6. \A w \in Work : RowStep(h, w)
    BY <2>1, <2>3, <2>4, <2>5 DEF RowStep, Reset, Kept, Rewritten
  <2>7. \A k \in Site \ {h} : \A w \in Work : RowStep(k, w)
    BY <2>1, <2>4, KeptRows DEF RowStep
  <2>8. \A k \in Site : HistoryStep(k)
    <3>1. \A k \in Site : \A w \in Work : redriven'[k][w] >= redriven[k][w]
      BY <2>1 DEF TypeOK
    <3> QED BY <2>1, <3>1 DEF HistoryStep
  <2>9. \A k \in Site : LiveStep(k)
    BY <2>4, FewerClaims
  <2> QED BY <2>6, <2>7, <2>8, <2>9 DEF RowSteps
<1> QED BY <1>3, <1>7, <1>8, <1>9, <1>10, <1>11, <1>12

LEMMA KeeperRows == TypeOK /\ Keeper => RowSteps
<1> SUFFICES ASSUME TypeOK, NEW h \in Site,
                    \/ Restart(h)
                    \/ \E w \in Work : Redrive(h, w)
                    \/ \E S \in SUBSET Work, force \in BOOLEAN :
                          S \subseteq Prunable(rows[h]) \cup Purgeable(rows[h], force) /\ Delete(h, S)
             PROVE  RowSteps
  BY DEF Keeper, Prune, Purge
<1>1. rows[h] \in Table /\ \A w \in Work : rows[h][w] \in Row
  BY DEF TypeOK, Table
<1>2. CASE Restart(h)
  <2> DEFINE t == resetProcessingDurableWork(rows[h], Local)
             u == resetTransferringLocalDurableWork(t)
  <2>1. /\ rows' = [rows EXCEPT ![h] = u] /\ live' = [live EXCEPT ![h] = {}]
        /\ abandoned' = [abandoned EXCEPT ![h] = {}]
        /\ UNCHANGED <<retired, disposed, shipped, redriven>>
    BY <1>2 DEF Restart, history
  <2>2. \A r \in Row : Repended(r).st = "pending"
    BY DEF Repended, Row
  <2>3. \A w \in Work : \/ u[w] = rows[h][w]
                        \/ /\ Target[w] = Local /\ rows[h][w].st \in {"processing", "transferring"}
                           /\ u[w].st = "pending"
    BY <1>1, <2>2 DEF resetProcessingDurableWork, resetTransferringLocalDurableWork
  <2> HIDE DEF u
  <2>4. /\ \A k \in Site : rows'[k] = IF k = h THEN u ELSE rows[k]
        /\ live'[h] = {} /\ \A k \in Site : live'[k] \subseteq live[k]
        /\ \A k \in Site : abandoned[k] \cap live'[k] \subseteq abandoned'[k]
    BY <2>1 DEF TypeOK
  <2>5. \A w \in Work : RowStep(h, w)
    BY <2>1, <2>3, <2>4 DEF RowStep, Reset, Kept, Rewritten
  <2>6. \A k \in Site \ {h} : \A w \in Work : RowStep(k, w)
    BY <2>1, <2>4, KeptRows DEF RowStep
  <2>7. \A k \in Site : HistoryStep(k)
    <3>1. \A k \in Site : \A w \in Work : redriven'[k][w] >= redriven[k][w]
      BY <2>1 DEF TypeOK
    <3> QED BY <2>1, <3>1 DEF HistoryStep
  <2> QED BY <2>4, <2>5, <2>6, <2>7, FewerClaims DEF RowSteps
<1>3. ASSUME NEW v \in Work, Redrive(h, v) PROVE RowSteps
  <2>1. UNCHANGED <<live, abandoned, retired, disposed, shipped>>
    BY <1>3 DEF Redrive
  <2>2. CASE /\ rows[h][v].st = "transferring" /\ UNCHANGED redriven
             /\ rows' = [rows EXCEPT ![h] = redriveTransferringDurableWork(rows[h], v)]
    <3>1. \A w \in Work : Rewritten(h, w, redriveTransferringDurableWork(rows[h], v)[w])
      BY <1>1, <2>2 DEF redriveTransferringDurableWork, Rewritten, Table
    <3> QED BY <2>1, <2>2, <3>1, RewrittenRows, QuietHistory DEF RowSteps, RowStep
  <2>3. CASE /\ rows[h][v].st = "dead_letter"
             /\ rows' = [rows EXCEPT ![h] = redriveDeadLetterDurableWork(rows[h], v, v \in HasTtl)]
             /\ redriven' = [redriven EXCEPT ![h][v] = @ + 1]
    <3> DEFINE ttl == v \in HasTtl
               t == redriveDeadLetterDurableWork(rows[h], v, ttl)
    <3>1. rows' = [rows EXCEPT ![h] = t]
      BY <2>3
    <3>2. ttl \in BOOLEAN
      OBVIOUS
    <3> HIDE DEF ttl
    <3>3. \A w \in Work : IF w = v THEN t[w] = [rows[h][v] EXCEPT !.st = "pending", !.tok = 0, !.ttl = ttl]
                          ELSE t[w] = rows[h][w]
      BY <1>1, <2>3 DEF redriveDeadLetterDurableWork, Table
    <3>4. /\ t[v].st = "pending" /\ t[v].att = rows[h][v].att /\ t[v].rec = rows[h][v].rec
      BY <1>1, <3>2, <3>3 DEF Row
    <3> HIDE DEF t
    <3>5. \A k \in Site : rows'[k] = IF k = h THEN t ELSE rows[k]
      BY <3>1 DEF TypeOK
    <3>6. /\ redriven'[h][v] = redriven[h][v] + 1
          /\ \A k \in Site : \A w \in Work : redriven'[k][w] \in {redriven[k][w], redriven[k][w] + 1}
      BY <2>3 DEF TypeOK
    <3>7. \A k \in Site : \A w \in Work : redriven'[k][w] >= redriven[k][w]
      <4>1. \A k \in Site : \A w \in Work : redriven[k][w] \in Nat
        BY DEF TypeOK
      <4> QED BY <3>6, <4>1
    <3>8. \A w \in Work : RowStep(h, w)
      BY <2>1, <2>3, <3>3, <3>4, <3>5, <3>6 DEF RowStep, Redriven, Kept, Rewritten
    <3>9. \A k \in Site \ {h} : \A w \in Work : RowStep(k, w)
      BY <2>1, <3>5, KeptRows DEF RowStep
    <3> QED BY <2>1, <3>7, <3>8, <3>9, FewerClaims DEF RowSteps, HistoryStep
  <2> QED BY <1>3, <2>2, <2>3 DEF Redrive
<1>4. ASSUME NEW S \in SUBSET Work, NEW force \in BOOLEAN, Delete(h, S),
             S \subseteq Prunable(rows[h]) \cup Purgeable(rows[h], force)
      PROVE  RowSteps
  <2>1. /\ rows' = [rows EXCEPT ![h] = DeleteRows(rows[h], S)]
        /\ disposed' = [disposed EXCEPT ![h] = @ \cup S]
        /\ UNCHANGED <<live, abandoned, retired, shipped, redriven>>
    BY <1>4 DEF Delete
  <2>2. \A w \in S : rows[h][w].st \in {"pending", "consumed", "dead_letter"}
    BY <1>4 DEF Prunable, Purgeable, InState
  <2>3. /\ \A k \in Site : rows'[k] = IF k = h THEN DeleteRows(rows[h], S) ELSE rows[k]
        /\ \A k \in Site : disposed'[k] = IF k = h THEN disposed[k] \cup S ELSE disposed[k]
    BY <2>1 DEF TypeOK
  <2>4. \A w \in Work : RowStep(h, w)
    BY <2>1, <2>2, <2>3 DEF RowStep, Deleted, Kept, Rewritten, DeleteRows
  <2>5. \A k \in Site \ {h} : \A w \in Work : RowStep(k, w)
    BY <2>1, <2>3, KeptRows DEF RowStep
  <2>6. \A k \in Site : HistoryStep(k)
    <3>1. \A k \in Site : \A w \in Work : redriven'[k][w] >= redriven[k][w]
      BY <2>1 DEF TypeOK
    <3> QED BY <2>1, <2>3, <3>1 DEF HistoryStep
  <2> QED BY <2>1, <2>4, <2>5, <2>6, FewerClaims DEF RowSteps
<1> QED BY <1>2, <1>3, <1>4

LEMMA NextRows == TypeOK /\ [Next]_vars => RowSteps
<1> SUFFICES ASSUME TypeOK, [Next]_vars PROVE RowSteps
  OBVIOUS
<1>1. CASE UNCHANGED vars
  BY <1>1, KeptRows, QuietHistory DEF vars, hostVars, history, RowSteps, RowStep
<1> QED BY <1>1, ProduceRows, TransportRows, ConsumerRows, KeeperRows DEF Next

---------------------------------------------------------------------------
(* The fence of consumed work, and one handler at a time *)

\* Housekeeping makes a row pending only out of a transfer, or for a peer.
LEMMA RewrittenState ==
    ASSUME TypeOK, NEW h \in Site, NEW w \in Work, NEW r, Rewritten(h, w, r)
    PROVE  \/ r = rows[h][w]
           \/ r.st = "dead_letter" /\ rows[h][w].st # "absent"
           \/ r.st = "pending" /\ rows[h][w].st = "transferring"
           \/ r.st = "pending" /\ rows[h][w].st = "dead_letter" /\ PeerTargeted(h, w)
<1>1. rows[h][w] \in Row
  BY DEF TypeOK, Table
<1>2. \A e : DeadLettered(rows[h][w], e).st = "dead_letter"
  BY <1>1, RowFields
<1>3. Reopened(rows[h][w]).st = "pending"
  BY <1>1, RowFields
<1>4. ChargeTransfer(rows[h][w]).st \in {"pending", "dead_letter"}
  BY <1>1, <1>2, RowFields
<1> QED BY <1>2, <1>3, <1>4 DEF Rewritten

\* The status of a row after a step that consumers of its host have no part in.
LEMMA KeptState ==
    ASSUME TypeOK, NEW h \in Site, NEW w \in Work, Consumes(h, w),
           rows[h][w].st \notin {"absent", "transferring"},
           Kept(h, w) \/ Begun(h, w) \/ Inserted(h, w) \/ Acked(h, w)
    PROVE  rows'[h][w] = rows[h][w] \/ rows'[h][w].st = "dead_letter"
<1>1. ~PeerTargeted(h, w)
  BY DEF PeerTargeted, Consumes
<1>2. Kept(h, w)
  BY <1>1 DEF Begun, Inserted, Acked
<1> QED BY <1>1, <1>2, RewrittenState DEF Kept

LEMMA RouteStep ==
    ASSUME TypeOK, RouteInv, RowSteps
    PROVE  RouteInv'
<1> SUFFICES ASSUME NEW h \in Site, NEW w \in Work,
                    rows'[h][w].st \in {"processing", "consumed"} \/ w \in retired'[h]
             PROVE  Consumes(h, w)
  BY DEF RouteInv, Consumes
<1>1. RowStep(h, w) /\ HistoryStep(h)
  BY DEF RowSteps
<1>2. ASSUME rows'[h][w].st \in {"processing", "consumed"} PROVE Consumes(h, w)
  <2>1. Absent.st = "absent"
    BY DEF Absent
  <2>2. Kept(h, w) => rows'[h][w] = rows[h][w]
    BY <1>2, RewrittenState DEF Kept
  <2> QED BY <1>1, <1>2, <2>1, <2>2 DEF RowStep, Begun, Inserted, Acked, Deleted, Taken, Settled,
                                       Reset, Redriven, RouteInv
<1> QED BY <1>1, <1>2 DEF HistoryStep, RouteInv

LEMMA RouteInvCorrect == Spec => []RouteInv
<1>1. Init => RouteInv
  BY DEF Init, RouteInv, Absent
<1> QED BY <1>1, NextRows, RouteStep, TypeCorrect, PTL DEF Spec

\* The fence of consumed work outlives every redelivery, crash and expiry, on any
\* number of hosts: until retention or the operator touch it, the row of consumed
\* work blocks a second insertion and a second claim (insertDurableWork's INSERT
\* OR IGNORE and the guards on claim_state).
THEOREM FencePersistsCorrect == Spec => []FencePersists
<1>1. Init => FencePersists
  BY DEF Init, FencePersists
<1>2. TypeOK /\ RouteInv /\ FencePersists /\ RowSteps => FencePersists'
  <2> SUFFICES ASSUME TypeOK, RouteInv, FencePersists, RowSteps, NEW h \in Site,
                      NEW w \in retired'[h], redriven'[h][w] = 0, w \notin disposed'[h]
               PROVE  rows'[h][w].st \in {"consumed", "dead_letter"}
    BY DEF FencePersists
  <2>1. HistoryStep(h)
    BY DEF RowSteps
  <2>2. CASE w \notin retired[h]
    BY <2>1, <2>2 DEF HistoryStep
  <2>3. CASE w \in retired[h]
    <3>1. w \in Work /\ redriven[h][w] \in Nat
      BY <2>3 DEF TypeOK
    <3>2. redriven[h][w] = 0 /\ w \notin disposed[h]
      BY <2>1, <3>1 DEF HistoryStep
    <3>3. rows[h][w].st \in {"consumed", "dead_letter"} /\ Consumes(h, w) /\ RowStep(h, w)
      BY <2>3, <3>1, <3>2 DEF FencePersists, RouteInv, RowSteps
    <3>4. CASE Kept(h, w) \/ Begun(h, w) \/ Inserted(h, w) \/ Acked(h, w)
      BY <3>1, <3>3, <3>4, KeptState
    <3>5. ~Redriven(h, w)
      BY <3>2 DEF Redriven
    <3> QED BY <3>3, <3>4, <3>5 DEF RowStep, Deleted, Taken, Settled, Reset
  <2> QED BY <2>2, <2>3
<1> QED BY <1>1, <1>2, NextRows, RouteInvCorrect, TypeCorrect, PTL DEF Spec

LEMMA LiveInvStep ==
    ASSUME TypeOK, LiveInv, RowSteps, live' \in [Site -> SUBSET (Work \X Nat)]
    PROVE  LiveInv'
<1> SUFFICES ASSUME NEW h \in Site, NEW c \in live'[h]
             PROVE  /\ Consumes(h, c[1])
                    /\ redriven'[h][c[1]] = 0 /\ c[1] \notin disposed'[h] /\ c \notin abandoned'[h] =>
                           \/ rows'[h][c[1]].st = "processing" /\ rows'[h][c[1]].tok = c[2]
                           \/ rows'[h][c[1]].st = "dead_letter"
  BY DEF LiveInv, Consumes
<1>1. /\ LiveStep(h) /\ HistoryStep(h) /\ c[1] \in Work /\ RowStep(h, c[1])
      /\ c = <<c[1], c[2]>> /\ redriven[h][c[1]] \in Nat
  <2>1. c[1] \in Work /\ c = <<c[1], c[2]>>
    OBVIOUS
  <2> QED BY <2>1 DEF RowSteps, TypeOK
<1>2. CASE c \notin live[h]
  BY <1>1, <1>2 DEF LiveStep
<1>3. CASE c \in live[h]
  <2>1. Consumes(h, c[1])
    BY <1>3 DEF LiveInv
  <2> SUFFICES ASSUME redriven'[h][c[1]] = 0, c[1] \notin disposed'[h], c \notin abandoned'[h]
               PROVE  \/ rows'[h][c[1]].st = "processing" /\ rows'[h][c[1]].tok = c[2]
                      \/ rows'[h][c[1]].st = "dead_letter"
    BY <2>1
  <2>2. redriven[h][c[1]] = 0 /\ c[1] \notin disposed[h] /\ c \notin abandoned[h]
    BY <1>1 DEF HistoryStep, LiveStep
  <2>3. \/ rows[h][c[1]].st = "processing" /\ rows[h][c[1]].tok = c[2]
        \/ rows[h][c[1]].st = "dead_letter"
    BY <1>3, <2>2 DEF LiveInv
  <2>4. CASE Kept(h, c[1]) \/ Begun(h, c[1]) \/ Inserted(h, c[1]) \/ Acked(h, c[1])
    BY <1>1, <2>1, <2>3, <2>4, KeptState
  <2>5. ~Redriven(h, c[1])
    BY <2>2 DEF Redriven
  <2>6. ~Settled(h, c[1])
    BY <1>1, <2>3 DEF Settled
  <2>7. ~Reset(h, c[1]) /\ ~Taken(h, c[1]) /\ ~Deleted(h, c[1])
    BY <2>3 DEF Reset, Taken, Deleted
  <2> QED BY <1>1, <2>4, <2>5, <2>6, <2>7 DEF RowStep
<1> QED BY <1>2, <1>3

\* No host ever runs two handlers of the same work at once, whatever expires,
\* crashes, is redelivered, released or reset at a yield, unless the operator redrove
\* its dead letter, its row was deleted under the first handler, or the thread
\* executor's timeout gave the first up (claimDurableWorkByIds, the claim_token guards
\* of its outcomes, resetProcessingDurableDispatchForThread).
THEOREM NoConcurrentExecutionCorrect == Spec => []NoConcurrentExecution
<1>1. Init => LiveInv /\ NoConcurrentExecution
  BY DEF Init, LiveInv, NoConcurrentExecution
<1>2. TypeOK /\ TypeOK' /\ LiveInv /\ RowSteps => LiveInv'
  BY LiveInvStep DEF TypeOK
<1>3. TypeOK /\ TypeOK' /\ LiveInv /\ NoConcurrentExecution /\ RowSteps => NoConcurrentExecution'
  <2> SUFFICES ASSUME TypeOK, TypeOK', LiveInv, NoConcurrentExecution, RowSteps, NEW h \in Site,
                      NEW c \in live'[h], NEW d \in live'[h], c[1] = d[1], c # d
               PROVE  \/ redriven'[h][c[1]] > 0 \/ c[1] \in disposed'[h]
                      \/ c \in abandoned'[h] \/ d \in abandoned'[h]
    BY DEF NoConcurrentExecution
  <2>1. /\ LiveStep(h) /\ HistoryStep(h) /\ c[1] \in Work /\ redriven[h][c[1]] \in Nat
        /\ redriven'[h][c[1]] \in Nat
    <3>1. c[1] \in Work
      BY DEF TypeOK
    <3> QED BY <3>1 DEF RowSteps, TypeOK
  <2>2. redriven[h][c[1]] > 0 \/ c[1] \in disposed[h] =>
            redriven'[h][c[1]] > 0 \/ c[1] \in disposed'[h]
    BY <2>1 DEF HistoryStep
  <2>3. CASE c \in live[h] /\ d \in live[h]
    BY <2>1, <2>2, <2>3 DEF NoConcurrentExecution, LiveStep
  <2>4. ASSUME NEW a \in live'[h], NEW b \in live'[h], a[1] = b[1], a # b, a \notin live[h],
               redriven[h][a[1]] \in Nat
        PROVE  redriven[h][a[1]] > 0 \/ a[1] \in disposed[h] \/ b \in abandoned'[h]
    <3>1. rows[h][a[1]].st = "pending" /\ b \in live[h]
      BY <2>1, <2>4 DEF LiveStep
    <3>2. ~(redriven[h][a[1]] = 0 /\ a[1] \notin disposed[h] /\ b \notin abandoned[h])
      BY <2>4, <3>1 DEF LiveInv
    <3> QED BY <2>1, <2>4, <3>2 DEF LiveStep
  <2> QED BY <2>1, <2>2, <2>3, <2>4
<1> QED BY <1>1, <1>2, <1>3, NextRows, TypeCorrect, PTL DEF Spec

\* A claimed or transferring row is retired only by its own generation, on any
\* number of hosts: the handler that ends in the step holds its present claim (not
\* one reset, expired or redriven meanwhile), or an acknowledgement is taken that
\* echoes its present token (the claim_token guards of acknowledgeDurableWork
\* and acknowledgeDurableWorkTransfer).
THEOREM GenerationFenceCorrect == Spec => GenerationFence
<1> DEFINE Fenced == \A h \in Site : \A w \in Work :
        LET r == rows[h][w] IN
        r.st \in {"processing", "transferring"} /\ rows'[h][w].st \in {"consumed", "absent"}
            => \/ r.st = "processing" /\ <<w, r.tok>> \in live[h] \ live'[h]
               \/ r.st = "transferring" /\ \E f \in net \ net' :
                    f.typ = "ack" /\ f.dst = h /\ \E e \in f.ents : e.w = w /\ e.tok = r.tok
<1>1. TypeOK /\ RowSteps => Fenced
  <2> SUFFICES ASSUME TypeOK, RowSteps, NEW h \in Site, NEW w \in Work,
                      rows[h][w].st \in {"processing", "transferring"},
                      rows'[h][w].st \in {"consumed", "absent"}
               PROVE  \/ rows[h][w].st = "processing" /\ <<w, rows[h][w].tok>> \in live[h] \ live'[h]
                      \/ rows[h][w].st = "transferring" /\ \E f \in net \ net' :
                           /\ f.typ = "ack" /\ f.dst = h
                           /\ \E e \in f.ents : e.w = w /\ e.tok = rows[h][w].tok
    OBVIOUS
  <2>1. RowStep(h, w)
    BY DEF RowSteps
  <2>2. ~Kept(h, w)
    BY RewrittenState DEF Kept
  <2>3. Acked(h, w) \/ Settled(h, w)
    BY <2>1, <2>2 DEF RowStep, Begun, Inserted, Deleted, Taken, Reset, Redriven
  <2> QED BY <2>3 DEF Acked, Settled
<1>2. TypeOK /\ [Next]_vars => [Fenced]_vars
  BY <1>1, NextRows
<1> QED BY <1>2, TypeCorrect, PTL DEF Spec, GenerationFence

---------------------------------------------------------------------------
(* The wire budget *)

\* Products of counters.
LEMMA Products ==
    ASSUME NEW n \in Nat, NEW m \in Nat, NEW e \in Nat, n <= m
    PROVE  /\ n * e \in Nat /\ (n + 1) * e = n * e + e
           /\ n * e <= m * e
<1>1. n * e \in Nat
  OBVIOUS
<1>2. (n + 1) * e = n * e + e
  OBVIOUS
<1>3. n * e <= m * e
  <2>1. PICK k \in Nat : m = n + k
    <3>1. m - n \in Nat /\ m = n + (m - n)
      OBVIOUS
    <3> QED BY <3>1
  <2>2. m * e = n * e + k * e
    BY <2>1
  <2>3. k * e \in Nat
    OBVIOUS
  <2> QED BY <1>1, <2>2, <2>3
<1> QED BY <1>1, <1>2, <1>3

\* What a row with counters rec, att owes: the generations put on the wire, but
\* for the operator's redrives.
Paid(r) == r.rec * Epoch + r.att + Uncharged(r)

LEMMA PaidType ==
    ASSUME NEW r \in Row
    PROVE  /\ r.rec \in Nat /\ r.att \in Nat /\ Epoch \in Nat /\ r.rec * Epoch \in Nat
           /\ Uncharged(r) \in {0, 1} /\ Paid(r) \in Nat
           /\ MaxAttempts \in Nat /\ ReclassifyBudget \in Nat
           /\ (ReclassifyBudget + 1) * Epoch \in Nat
<1>1. r.rec \in Nat /\ r.att \in Nat /\ Epoch \in Nat /\ ReclassifyBudget + 1 \in Nat
      /\ MaxAttempts \in Nat /\ ReclassifyBudget \in Nat
  BY BudgetAssumption DEF Row, Epoch
<1>2. r.rec * Epoch \in Nat
  BY <1>1, Products
<1>3. (ReclassifyBudget + 1) * Epoch \in Nat
  <2>1. ReclassifyBudget + 1 <= ReclassifyBudget + 1
    BY <1>1
  <2> QED BY <1>1, <2>1, Products
<1>4. Uncharged(r) \in {0, 1}
  BY DEF Uncharged
<1> QED BY <1>1, <1>2, <1>3, <1>4 DEF Paid

\* No row can owe more than the budget.
LEMMA PaidBound ==
    ASSUME NEW r \in Row, r.att <= MaxAttempts, r.rec <= ReclassifyBudget
    PROVE  Paid(r) <= (ReclassifyBudget + 1) * Epoch
<1>1. /\ r.rec \in Nat /\ r.att \in Nat /\ Epoch \in Nat /\ r.rec * Epoch \in Nat
      /\ Uncharged(r) \in {0, 1} /\ ReclassifyBudget \in Nat /\ MaxAttempts \in Nat
  BY PaidType
<1>2. /\ r.rec * Epoch <= ReclassifyBudget * Epoch /\ ReclassifyBudget * Epoch \in Nat
      /\ (ReclassifyBudget + 1) * Epoch = ReclassifyBudget * Epoch + Epoch
  <2>1. ReclassifyBudget <= ReclassifyBudget
    BY <1>1
  <2> QED BY <1>1, <2>1, Products
<1>3. r.att + Uncharged(r) <= Epoch
  BY <1>1 DEF Epoch
<1> HIDE DEF Epoch
<1> QED BY <1>1, <1>2, <1>3 DEF Paid

\* Housekeeping never lowers what a row has paid, and keeps it within the budget.
LEMMA RewrittenPaid ==
    ASSUME TypeOK, NEW h \in Site, NEW w \in Work, NEW r, Rewritten(h, w, r),
           rows[h][w].att <= MaxAttempts, rows[h][w].rec <= ReclassifyBudget
    PROVE  /\ r.att <= MaxAttempts /\ r.rec <= ReclassifyBudget
           /\ Paid(rows[h][w]) <= Paid(r)
           /\ r.st = "absent" <=> rows[h][w].st = "absent"
<1> DEFINE o == rows[h][w]
<1>1. o \in Row /\ r \in Row
  BY RewrittenRow DEF TypeOK, Table
<1>2. /\ o.rec \in Nat /\ o.att \in Nat /\ Epoch \in Nat /\ o.rec * Epoch \in Nat
      /\ Uncharged(o) \in {0, 1} /\ MaxAttempts \in Nat /\ ReclassifyBudget \in Nat
      /\ Paid(o) \in Nat /\ o.att <= MaxAttempts /\ o.rec <= ReclassifyBudget
  BY <1>1, PaidType
<1>3. CASE r = o
  BY <1>2, <1>3
<1>4. ASSUME r.st = "dead_letter", r.att = o.att, r.rec = o.rec, o.st # "absent"
      PROVE  /\ r.att <= MaxAttempts /\ r.rec <= ReclassifyBudget /\ Paid(o) <= Paid(r)
             /\ r.st = "absent" <=> o.st = "absent"
  <2>1. Uncharged(r) = 1
    BY <1>4 DEF Uncharged
  <2>2. Paid(o) <= Paid(r)
    <3> HIDE DEF o
    <3> QED BY <1>2, <1>4, <2>1 DEF Paid
  <2> QED BY <1>4, <2>2
<1>5. CASE o.st # "absent" /\ \E e \in LastError : r = DeadLettered(o, e)
  BY <1>1, <1>4, <1>5, RowFields
<1>6. CASE o.st = "transferring" /\ r = ChargeTransfer(o)
  <2>1. CASE o.att >= MaxAttempts
    BY <1>1, <1>4, <1>6, <2>1, RowFields
  <2>2. CASE ~(o.att >= MaxAttempts)
    <3>1. r.st = "pending" /\ r.att = o.att + 1 /\ r.rec = o.rec
      BY <1>1, <1>6, <2>2, RowFields
    <3>2. Uncharged(r) = 0 /\ Uncharged(o) = 1
      BY <1>6, <3>1 DEF Uncharged
    <3>3. Paid(o) <= Paid(r) /\ r.att <= MaxAttempts
      <4> HIDE DEF o
      <4> QED BY <1>2, <2>2, <3>1, <3>2 DEF Paid
    <3> QED BY <1>6, <3>1, <3>3
  <2> QED BY <2>1, <2>2
<1>7. CASE o.st = "dead_letter" /\ o.rec < ReclassifyBudget /\ r = Reopened(o)
  <2>1. r.st = "pending" /\ r.att = 0 /\ r.rec = o.rec + 1
    BY <1>1, <1>7, RowFields
  <2>2. Uncharged(r) = 0 /\ Uncharged(o) = 1
    BY <1>7, <2>1 DEF Uncharged
  <2>3. (o.rec + 1) * Epoch = o.rec * Epoch + Epoch
    <3>1. o.rec <= o.rec
      BY <1>2
    <3> QED BY <1>2, <3>1, Products
  <2>4. r.rec * Epoch = o.rec * Epoch + MaxAttempts + 1
    BY <1>2, <2>1, <2>3 DEF Epoch
  <2>5. Paid(o) <= Paid(r) /\ r.att <= MaxAttempts /\ r.rec <= ReclassifyBudget
    <3> HIDE DEF o
    <3> QED BY <1>2, <1>7, <2>1, <2>2, <2>4 DEF Paid
  <2> QED BY <1>7, <2>1, <2>5
<1> QED BY <1>3, <1>5, <1>6, <1>7 DEF Rewritten

\* BudgetInv, one row at a time.
Within(h, w) ==
    /\ rows[h][w].att <= MaxAttempts /\ rows[h][w].rec <= ReclassifyBudget
    /\ IF rows[h][w].st = "absent"
       THEN shipped[h][w] <= (ReclassifyBudget + 1) * Epoch + redriven[h][w]
       ELSE shipped[h][w] <= Paid(rows[h][w]) + redriven[h][w]

LEMMA BudgetRows ==
    ASSUME TypeOK
    PROVE  BudgetInv <=> \A h \in Site : \A w \in Work :
                             IF PeerTargeted(h, w) THEN Within(h, w) ELSE shipped[h][w] = 0
<1>1. \A h \in Site : \A w \in Work :
        rows[h][w].rec * Epoch + rows[h][w].att + redriven[h][w] + Uncharged(rows[h][w])
            = Paid(rows[h][w]) + redriven[h][w]
  <2> SUFFICES ASSUME NEW h \in Site, NEW w \in Work
               PROVE  rows[h][w].rec * Epoch + rows[h][w].att + redriven[h][w]
                          + Uncharged(rows[h][w]) = Paid(rows[h][w]) + redriven[h][w]
    OBVIOUS
  <2>1. /\ rows[h][w].rec * Epoch \in Nat /\ rows[h][w].att \in Nat
        /\ Uncharged(rows[h][w]) \in {0, 1}
    BY PaidType DEF TypeOK, Table
  <2>2. redriven[h][w] \in Nat
    BY DEF TypeOK
  <2> QED BY <2>1, <2>2 DEF Paid
<1> QED BY <1>1 DEF BudgetInv, Within

\* More redrives, and a row that owes more, cover what is on the wire.
LEMMA Covered ==
    ASSUME NEW s \in Nat, NEW p \in Nat, NEW q \in Nat, NEW n \in Nat, NEW m \in Nat,
           s <= p + n, p <= q, m >= n
    PROVE  s <= q + m
OBVIOUS

\* One row pays for every generation that it puts on the wire.
LEMMA WithinStep ==
    ASSUME TypeOK, TypeOK', RowSteps, NEW h \in Site, NEW w \in Work, PeerTargeted(h, w),
           Within(h, w), RouteInv
    PROVE  Within(h, w)'
<1> DEFINE o == rows[h][w]
           q == rows'[h][w]
           top == (ReclassifyBudget + 1) * Epoch
<1>1. o \in Row /\ q \in Row
  BY DEF TypeOK, Table
<1>2. /\ shipped[h][w] \in Nat /\ shipped'[h][w] \in Nat /\ redriven[h][w] \in Nat
      /\ redriven'[h][w] \in Nat
  BY DEF TypeOK
<1>3. /\ Paid(o) \in Nat /\ Paid(q) \in Nat /\ Epoch \in Nat /\ top \in Nat
      /\ MaxAttempts \in Nat /\ ReclassifyBudget \in Nat /\ 0 * Epoch = 0
      /\ 0 <= MaxAttempts /\ 0 <= ReclassifyBudget
  BY <1>1, PaidType
<1>4. redriven'[h][w] >= redriven[h][w] /\ RowStep(h, w)
  BY DEF RowSteps, HistoryStep
<1>5. /\ o.att <= MaxAttempts /\ o.rec <= ReclassifyBudget
      /\ o.st = "absent" => shipped[h][w] <= top + redriven[h][w]
      /\ o.st # "absent" => shipped[h][w] <= Paid(o) + redriven[h][w]
  BY DEF Within
<1>6. Paid(o) <= top
  BY <1>1, <1>5, PaidBound
<1> SUFFICES /\ q.att <= MaxAttempts /\ q.rec <= ReclassifyBudget
             /\ q.st = "absent" => shipped'[h][w] <= top + redriven'[h][w]
             /\ q.st # "absent" => shipped'[h][w] <= Paid(q) + redriven'[h][w]
  BY DEF Within, Paid, Epoch, Uncharged
<1> HIDE DEF top
<1>7. ASSUME q = Absent, shipped'[h][w] = shipped[h][w]
      PROVE  /\ q.att <= MaxAttempts /\ q.rec <= ReclassifyBudget /\ q.st = "absent"
             /\ shipped'[h][w] <= top + redriven'[h][w]
  <2>1. Absent.att = 0 /\ Absent.rec = 0 /\ Absent.st = "absent"
    BY DEF Absent
  <2>2. shipped[h][w] <= top + redriven[h][w]
    BY <1>2, <1>3, <1>5, <1>6
  <2>3. shipped'[h][w] <= top + redriven'[h][w]
    BY <1>2, <1>3, <1>4, <1>7, <2>2
  <2> QED BY <1>3, <1>7, <2>1, <2>3
<1>8. CASE Acked(h, w) \/ Deleted(h, w)
  BY <1>7, <1>8 DEF Acked, Deleted
<1>9. ~Taken(h, w) /\ ~Settled(h, w) /\ ~Reset(h, w)
  BY DEF Taken, Settled, Reset, RouteInv, Consumes, PeerTargeted
<1>10. CASE Kept(h, w)
  <2>1. /\ q.att <= MaxAttempts /\ q.rec <= ReclassifyBudget /\ Paid(o) <= Paid(q)
        /\ q.st = "absent" <=> o.st = "absent"
    BY <1>5, <1>10, RewrittenPaid DEF Kept
  <2>2. shipped'[h][w] = shipped[h][w]
    BY <1>10 DEF Kept
  <2> HIDE DEF o, q
  <2>3. o.st = "absent" => shipped'[h][w] <= top + redriven'[h][w]
    BY <1>2, <1>3, <1>4, <1>5, <2>2
  <2>4. o.st # "absent" => shipped'[h][w] <= Paid(q) + redriven'[h][w]
    BY <1>2, <1>3, <1>4, <1>5, <2>1, <2>2, Covered
  <2> QED BY <2>1, <2>3, <2>4
<1>11. CASE Begun(h, w)
  <2>1. PICK r \in Row : /\ Rewritten(h, w, r) /\ r.st = "pending"
                         /\ q.st = "transferring" /\ q.att = r.att /\ q.rec = r.rec
                         /\ shipped'[h][w] = shipped[h][w] + 1
    BY <1>11 DEF Begun
  <2>2. /\ r.att <= MaxAttempts /\ r.rec <= ReclassifyBudget /\ Paid(o) <= Paid(r)
        /\ o.st # "absent"
    BY <1>5, <2>1, RewrittenPaid
  <2>3. r.rec * Epoch \in Nat /\ r.att \in Nat /\ Paid(r) \in Nat
    BY PaidType
  <2>4. Uncharged(r) = 0 /\ Uncharged(q) = 1
    BY <2>1 DEF Uncharged
  <2> HIDE DEF o, q
  <2>5. Paid(q) = Paid(r) + 1
    BY <2>1, <2>3, <2>4 DEF Paid
  <2>6. shipped[h][w] <= Paid(r) + redriven'[h][w]
    BY <1>2, <1>3, <1>4, <1>5, <2>2, <2>3, Covered
  <2>7. shipped'[h][w] <= Paid(q) + redriven'[h][w]
    BY <1>2, <2>1, <2>3, <2>5, <2>6
  <2> QED BY <2>1, <2>2, <2>7
<1>12. CASE Inserted(h, w)
  <2>1. q.att = 0 /\ q.rec = 0 /\ q.st # "absent"
    BY <1>12 DEF Inserted
  <2>2. shipped'[h][w] <= Uncharged(q)
    BY <1>12 DEF Inserted, Uncharged
  <2>3. Uncharged(q) \in {0, 1}
    BY <1>1, PaidType
  <2> HIDE DEF o, q
  <2>4. Paid(q) = Uncharged(q)
    BY <1>3, <2>1, <2>3 DEF Paid
  <2>5. shipped'[h][w] <= Paid(q) + redriven'[h][w]
    BY <1>2, <2>2, <2>3, <2>4
  <2> QED BY <1>3, <2>1, <2>5
<1>13. CASE Redriven(h, w)
  <2>1. /\ o.st = "dead_letter" /\ q.st = "pending" /\ q.att = o.att /\ q.rec = o.rec
        /\ redriven'[h][w] = redriven[h][w] + 1 /\ shipped'[h][w] = shipped[h][w]
    BY <1>13 DEF Redriven
  <2>2. Uncharged(o) = 1 /\ Uncharged(q) = 0
    BY <2>1 DEF Uncharged
  <2>3. o.rec * Epoch \in Nat /\ o.att \in Nat
    BY <1>1, PaidType
  <2> HIDE DEF o, q
  <2>4. Paid(o) = Paid(q) + 1
    BY <2>1, <2>2, <2>3 DEF Paid
  <2>5. shipped'[h][w] <= Paid(q) + redriven'[h][w]
    BY <1>2, <1>3, <1>5, <2>1, <2>4
  <2> QED BY <1>5, <2>1, <2>5
<1> QED BY <1>4, <1>8, <1>9, <1>10, <1>11, <1>12, <1>13 DEF RowStep

\* Automatic redelivery terminates: sweeps, reconnect drains and reclassifications
\* together put at most (ReclassifyBudget + 1) * (MaxAttempts + 1) transfer
\* generations of a row on the wire, and one more for each redrive by the operator
\* (ChargeTransfer's attempts, the reconnect's reclassify_count).
THEOREM WireBudgetCorrect == Spec => []WireBudget
<1>1. Init => BudgetInv
  <2> SUFFICES ASSUME Init, NEW h \in Site, NEW w \in Work
               PROVE  IF PeerTargeted(h, w) THEN Within(h, w) ELSE shipped[h][w] = 0
    BY InitTypeOK, BudgetRows
  <2>1. /\ rows[h][w] = Absent /\ shipped[h][w] = 0 /\ redriven[h][w] = 0
        /\ Absent.att = 0 /\ Absent.rec = 0 /\ Absent.st = "absent" /\ Absent \in Row
    BY RowShapes DEF Init, Absent, Row, ClaimState, LastError
  <2>2. (ReclassifyBudget + 1) * Epoch \in Nat /\ MaxAttempts \in Nat /\ ReclassifyBudget \in Nat
    BY <2>1, PaidType
  <2>3. 0 <= (ReclassifyBudget + 1) * Epoch + 0 /\ 0 <= MaxAttempts /\ 0 <= ReclassifyBudget
    <3> DEFINE top == (ReclassifyBudget + 1) * Epoch
    <3> HIDE DEF top
    <3> QED BY <2>2 DEF top
  <2> QED BY <2>1, <2>3 DEF Within
<1>2. TypeOK /\ TypeOK' /\ RouteInv /\ BudgetInv /\ RowSteps => BudgetInv'
  <2> SUFFICES ASSUME TypeOK, TypeOK', RouteInv, BudgetInv, RowSteps PROVE BudgetInv'
    OBVIOUS
  <2>1. ASSUME NEW h \in Site, NEW w \in Work
        PROVE  IF PeerTargeted(h, w) THEN Within(h, w)' ELSE shipped'[h][w] = 0
    <3>1. IF PeerTargeted(h, w) THEN Within(h, w) ELSE shipped[h][w] = 0
      BY <2>1, BudgetRows
    <3>2. CASE PeerTargeted(h, w)
      BY <3>1, <3>2, WithinStep
    <3>3. CASE ~PeerTargeted(h, w)
      BY <3>1, <3>3 DEF RowSteps, RowStep, Kept, Begun, Inserted, Acked, Deleted, Taken, Settled,
                        Reset, Redriven
    <3> QED BY <3>2, <3>3
  <2>2. (\A h \in Site : \A w \in Work :
            IF PeerTargeted(h, w) THEN Within(h, w) ELSE shipped[h][w] = 0)'
    BY <2>1 DEF PeerTargeted
  <2> QED BY <2>2, BudgetRows, PTL
<1>3. TypeOK /\ BudgetInv => WireBudget
  <2> SUFFICES ASSUME TypeOK, BudgetInv, NEW h \in Site, NEW w \in Work
               PROVE  shipped[h][w] <= (ReclassifyBudget + 1) * (MaxAttempts + 1) + redriven[h][w]
    BY DEF WireBudget
  <2> DEFINE top == (ReclassifyBudget + 1) * Epoch
  <2>1. rows[h][w] \in Row /\ shipped[h][w] \in Nat /\ redriven[h][w] \in Nat
    BY DEF TypeOK, Table
  <2>2. top \in Nat /\ Paid(rows[h][w]) \in Nat
    BY <2>1, PaidType
  <2>3. IF PeerTargeted(h, w) THEN Within(h, w) ELSE shipped[h][w] = 0
    BY BudgetRows
  <2>4. CASE ~PeerTargeted(h, w)
    <3>1. shipped[h][w] <= top + redriven[h][w]
      <4> HIDE DEF top
      <4> QED BY <2>1, <2>2, <2>3, <2>4
    <3> QED BY <3>1 DEF Epoch
  <2>5. CASE PeerTargeted(h, w)
    <3>1. Paid(rows[h][w]) <= top
      BY <2>1, <2>3, <2>5, PaidBound DEF Within
    <3>2. \/ shipped[h][w] <= top + redriven[h][w]
          \/ shipped[h][w] <= Paid(rows[h][w]) + redriven[h][w]
      BY <2>3, <2>5 DEF Within
    <3>3. shipped[h][w] <= top + redriven[h][w]
      <4> HIDE DEF top
      <4> QED BY <2>1, <2>2, <3>1, <3>2
    <3> QED BY <3>3 DEF Epoch
  <2> QED BY <2>4, <2>5
<1> QED BY <1>1, <1>2, <1>3, NextRows, RouteInvCorrect, TypeCorrect, PTL DEF Spec

=============================================================================
