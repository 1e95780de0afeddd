------------------------- MODULE RelayStreamProofs -------------------------
(***************************************************************************)
(* Theorems about RelayStream, for any number of hosts and rows and any     *)
(* patience with gaps, and the refinement of OrderedStream.                 *)
(***************************************************************************)
EXTENDS RelayStream, Orders

\* What the requester keeps has its type, and nothing was delivered from a host
\* that was not asked yet.
AskInv ==
    /\ fold \in [next : 0..(MaxSeq + 1), buf : SUBSET Seqs, gap : 0..(MaxGap - 1),
                 end : -1..MaxSeq, ended : BOOLEAN]
    /\ out \in Seq(Hosts \X Seqs)
    /\ \A x \in ToSet(out) : x[1] <= host

\* The rows of the stream being read are the ones its executor has numbered; the
\* end is the last of them, after which the executor numbers no more.
SentInv ==
    /\ \A s \in Seqs : s >= seq => row[s] = NoRow
    /\ \A s \in Seqs : s < seq => row[s].at # "absent"
    /\ \A s \in Seqs : row[s].kind \in Ends => s = seq - 1 /\ exec[host] = "finished"
    /\ exec[host] \in {"asked", "running"} => seq <= MaxSeq

\* A claimed row is in the buffer and a settled one behind the next number;
\* everything behind it was delivered or given up, and nothing ahead of it.
FoldInv ==
    /\ \A s \in Seqs : row[s].at = "processing" <=> s \in fold.buf
    /\ \A s \in Seqs : row[s].at = "consumed" => s < fold.next
    /\ Accounted(0..(fold.next - 1), out, skipped)
    /\ \A x \in ToSet(out) : x[1] = host => x[2] < fold.next
    /\ fold.end >= 0 => row[fold.end].kind \in Ends
    /\ fold.ended => fold.end >= 0 /\ fold.end < fold.next

StreamInv == TypeOK /\ AskInv /\ (Live => SentInv /\ FoldInv)
---------------------------------------------------------------------------
(* One cycle of the reducer *)

LEMMA FirstMissingFacts ==
    ASSUME NEW m \in 0..(MaxSeq + 1), NEW B \in SUBSET Seqs
    PROVE  /\ FirstMissing(m, B) \in m..(MaxSeq + 1)
           /\ FirstMissing(m, B) \notin B
           /\ \A s \in m..(FirstMissing(m, B) - 1) : s \in B
<1>1. PICK S : S = {k \in m..(MaxSeq + 1) : k \notin B}
  OBVIOUS
<1>2. MaxSeq \in Nat /\ MaxSeq + 1 \notin B
  BY Bounds DEF Seqs
<1>3. S \in SUBSET Nat /\ MaxSeq + 1 \in S
  BY <1>1, <1>2
<1>4. Min(S) \in S /\ \A k \in S : Min(S) <= k
  BY <1>3, MinOfNaturals
<1>5. FirstMissing(m, B) = Min(S)
  BY <1>1 DEF FirstMissing
<1>6. Min(S) \in m..(MaxSeq + 1) /\ Min(S) \notin B
  BY <1>1, <1>4
<1>7. ASSUME NEW s \in m..(Min(S) - 1) PROVE s \in B
  <2>1. s \in m..(MaxSeq + 1) /\ s < Min(S)
    BY <1>2, <1>6
  <2>2. s \notin S
    BY <1>2, <1>4, <1>6, <2>1
  <2> QED BY <1>1, <2>1, <2>2
<1> QED BY <1>5, <1>6, <1>7

\* The end is known once its row has been read, and stays the same.
LEMMA EndFacts ==
    ASSUME TypeOK, AskInv, SentInv, FoldInv
    PROVE  /\ EndSeen \in -1..MaxSeq
           /\ EndSeen >= 0 => row[EndSeen].kind \in Ends
           /\ fold.end >= 0 => EndSeen = fold.end
<1>1. PICK E : E = {s \in Waiting : row[s].kind \in Ends}
  OBVIOUS
<1>2. EndSeen = IF E = {} THEN fold.end ELSE Max(E)
  BY <1>1 DEF EndSeen
<1>3. fold.end \in -1..MaxSeq /\ MaxSeq \in Nat /\ seq \in 0..(MaxSeq + 1)
  BY Bounds DEF AskInv, TypeOK
<1>4. E \in SUBSET Nat /\ E \subseteq Seqs /\ \A k \in E : k <= MaxSeq
  BY <1>1, <1>3 DEF Waiting, Seqs
<1>5. CASE E = {}
  BY <1>2, <1>3, <1>5 DEF FoldInv
<1>6. CASE E # {}
  <2>1. Max(E) \in E
    BY <1>3, <1>4, <1>6, MaxOfNaturals
  <2>2. Max(E) \in Seqs /\ row[Max(E)].kind \in Ends
    BY <1>1, <1>4, <2>1
  <2>3. Max(E) = seq - 1
    BY <2>2 DEF SentInv
  <2>4. ASSUME fold.end >= 0 PROVE fold.end = seq - 1
    <3>1. fold.end \in Seqs /\ row[fold.end].kind \in Ends
      BY <1>3, <2>4 DEF FoldInv, Seqs
    <3> QED BY <3>1 DEF SentInv
  <2> QED BY <1>2, <1>3, <1>6, <2>2, <2>3, <2>4 DEF Seqs
<1> QED BY <1>5, <1>6

\* What a cycle c makes of the buffer B with the end at e: the numbers taken are
\* the next ones, the late ones lie behind, the ones jumped over are not there
\* and something after them is.
Folds(B, e, c) ==
    /\ c.take \subseteq B /\ c.late \subseteq B /\ c.buf = B \ (c.take \cup c.late)
    /\ c.next \in 0..(MaxSeq + 1) /\ fold.next <= c.next
    /\ c.gap \in 0..(MaxGap - 1) /\ c.end = e /\ c.ended \in BOOLEAN
    /\ \A s \in c.take : fold.next <= s /\ s < c.next
    /\ \A s \in c.late : s < fold.next
    /\ c.jumped \subseteq Seqs
    /\ \A s \in c.jumped : s \notin B /\ fold.next <= s /\ \E b \in B : s < b
    /\ \A s \in 0..(c.next - 1) : s < fold.next \/ s \in c.take \/ s \in c.jumped
    /\ c.ended => fold.ended \/ (e >= 0 /\ e < c.next)
    /\ c.done => c.ended /\ c.jumped = {}

LEMMA CycleFacts ==
    ASSUME AskInv, NEW B \in SUBSET Seqs, NEW e \in -1..MaxSeq
    PROVE  Folds(B, e, Cycle(B, e))
<1>1. /\ MaxSeq \in Nat /\ MaxGap \in Nat \ {0} /\ fold.next \in 0..(MaxSeq + 1)
      /\ fold.gap \in 0..(MaxGap - 1) /\ fold.ended \in BOOLEAN
  BY Bounds DEF AskInv
<1> DEFINE n == FirstMissing(fold.next, B)
           take == fold.next..(n - 1)
           rest == B \ take
           ended == fold.ended \/ (n > fold.next /\ e >= 0 /\ n > e)
           gap == (IF n > fold.next THEN 0 ELSE fold.gap) + (IF rest = {} THEN 0 ELSE 1)
           limit == rest # {} /\ gap >= MaxGap
           late == {s \in rest : limit /\ s < n}
           jump == IF limit /\ late = {} THEN Min(rest) ELSE n
           c == [take |-> take, late |-> late, jumped |-> n..(jump - 1),
                 done |-> ended /\ rest = {},
                 next |-> jump, buf |-> rest \ late, gap |-> IF limit THEN 0 ELSE gap,
                 end |-> e, ended |-> ended]
<1>2. Cycle(B, e) = c
  BY DEF Cycle
<1> HIDE DEF c, jump, late, limit, gap, ended, rest, take, n
<1>3. n \in fold.next..(MaxSeq + 1) /\ n \notin B /\ \A s \in fold.next..(n - 1) : s \in B
  BY <1>1, FirstMissingFacts DEF n
<1>4. take = fold.next..(n - 1)
  BY DEF take
<1>5. rest = B \ take
  BY DEF rest
<1>6. ended \in BOOLEAN /\ (ended => fold.ended \/ (e >= 0 /\ n > e))
  BY <1>1 DEF ended
<1>7. (IF limit THEN 0 ELSE gap) \in 0..(MaxGap - 1)
  BY <1>1 DEF gap, limit
<1>8. limit => rest # {}
  BY DEF limit
<1>9. late = {s \in rest : limit /\ s < n}
  BY DEF late
<1>10. jump = IF limit /\ late = {} THEN Min(rest) ELSE n
  BY DEF jump
<1>11. /\ c.take = take /\ c.late = late /\ c.jumped = n..(jump - 1) /\ c.next = jump
       /\ c.buf = rest \ late /\ c.gap = (IF limit THEN 0 ELSE gap) /\ c.end = e
       /\ c.ended = ended /\ (c.done <=> ended /\ rest = {})
  BY DEF c
<1>12. rest \in SUBSET Seqs /\ late \subseteq rest /\ take \subseteq B
  BY <1>3, <1>4, <1>5, <1>9
<1>13. n \in 0..(MaxSeq + 1) /\ fold.next <= n /\ n \in Nat /\ fold.next \in Nat
  BY <1>1, <1>3
<1>14. /\ c.take \subseteq B /\ c.late \subseteq B /\ c.end = e
       /\ c.gap \in 0..(MaxGap - 1) /\ c.ended \in BOOLEAN
  BY <1>5, <1>6, <1>7, <1>11, <1>12
<1>15. CASE limit /\ late = {}
  <2>1. rest # {} /\ rest \in SUBSET Nat
    BY <1>8, <1>12, <1>15 DEF Seqs
  <2>2. jump \in rest /\ \A k \in rest : jump <= k
    BY <1>10, <1>15, <2>1, MinOfNaturals
  <2>3. jump \in Seqs /\ n <= jump
    BY <1>9, <1>12, <1>13, <1>15, <2>2 DEF Seqs
  <2>4. \A s \in n..(jump - 1) : s \in Seqs /\ s \notin rest /\ s < jump
    BY <1>1, <1>13, <2>2, <2>3 DEF Seqs
  <2>5. \A s \in n..(jump - 1) : s \notin take /\ fold.next <= s
    BY <1>4, <1>13
  <2>6. \A s \in c.jumped : s \in Seqs /\ s \notin B /\ fold.next <= s /\ \E b \in B : s < b
    BY <1>5, <1>11, <2>2, <2>4, <2>5
  <2>7. jump \in 0..(MaxSeq + 1) /\ fold.next <= jump
    BY <1>1, <1>13, <2>3 DEF Seqs
  <2>8. \A s \in c.take : fold.next <= s /\ s < c.next
    BY <1>4, <1>11, <1>13, <2>3 DEF Seqs
  <2>9. \A s \in 0..(c.next - 1) : s < fold.next \/ s \in c.take \/ s \in c.jumped
    BY <1>4, <1>11, <1>13, <2>7
  <2>10. ~c.done /\ c.buf = B \ (c.take \cup c.late)
    BY <1>5, <1>11, <2>1
  <2>11. c.ended => fold.ended \/ (e >= 0 /\ e < c.next)
    BY <1>6, <1>11, <1>13, <2>3 DEF Seqs
  <2>12. /\ c.next \in 0..(MaxSeq + 1) /\ fold.next <= c.next /\ c.jumped \subseteq Seqs
         /\ \A s \in c.late : s < fold.next
    BY <1>11, <1>15, <2>6, <2>7
  <2> QED BY <1>2, <1>14, <2>6, <2>8, <2>9, <2>10, <2>11, <2>12 DEF Folds
<1>16. CASE ~(limit /\ late = {})
  <2>1. jump = n /\ c.jumped = {}
    BY <1>10, <1>11, <1>13, <1>16
  <2>2. \A s \in c.take : fold.next <= s /\ s < c.next
    BY <1>4, <1>11, <1>13, <2>1
  <2>3. \A s \in c.late : s < fold.next
    <3> SUFFICES ASSUME NEW s \in late PROVE s < fold.next
      BY <1>11
    <3>1. s \in Seqs /\ s < n /\ s \notin take
      BY <1>5, <1>9, <1>12
    <3> QED BY <1>4, <1>13, <3>1 DEF Seqs
  <2>4. \A s \in 0..(c.next - 1) : s < fold.next \/ s \in c.take
    BY <1>4, <1>11, <1>13, <2>1
  <2>5. c.ended => fold.ended \/ (e >= 0 /\ e < c.next)
    BY <1>6, <1>11, <1>13, <2>1
  <2>6. c.buf = B \ (c.take \cup c.late) /\ (c.done => c.ended)
    BY <1>5, <1>11
  <2>7. c.next \in 0..(MaxSeq + 1) /\ fold.next <= c.next
    BY <1>11, <1>13, <2>1
  <2> QED BY <1>2, <1>14, <2>1, <2>2, <2>3, <2>4, <2>5, <2>6, <2>7 DEF Folds
<1> QED BY <1>15, <1>16
---------------------------------------------------------------------------
(* What is handed on *)

LEMMA ToSetConcat ==
    ASSUME NEW T, NEW p \in Seq(T), NEW q \in Seq(T)
    PROVE  ToSet(p \o q) = ToSet(p) \cup ToSet(q)
<1>1. Len(p) \in Nat /\ Len(q) \in Nat /\ Len(p \o q) = Len(p) + Len(q)
  OBVIOUS
<1>2. \A i \in 1..Len(p) : (p \o q)[i] = p[i] /\ i \in 1..(Len(p) + Len(q))
  BY <1>1
<1>3. \A i \in 1..Len(q) : (p \o q)[Len(p) + i] = q[i] /\ Len(p) + i \in 1..(Len(p) + Len(q))
  BY <1>1
<1>4. \A i \in 1..(Len(p) + Len(q)) : i \in 1..Len(p) \/ i - Len(p) \in 1..Len(q)
  BY <1>1
<1>5. \A i \in 1..(Len(p) + Len(q)) :
        (p \o q)[i] = IF i \in 1..Len(p) THEN p[i] ELSE q[i - Len(p)]
  BY <1>1
<1>6. /\ ToSet(p) = {p[i] : i \in 1..Len(p)} /\ ToSet(q) = {q[i] : i \in 1..Len(q)}
      /\ ToSet(p \o q) = {(p \o q)[i] : i \in 1..(Len(p) + Len(q))}
  BY <1>1 DEF ToSet
<1>7. ToSet(p) \subseteq ToSet(p \o q)
  BY <1>2, <1>6
<1>8. ToSet(q) \subseteq ToSet(p \o q)
  BY <1>3, <1>6
<1>9. ToSet(p \o q) \subseteq ToSet(p) \cup ToSet(q)
  BY <1>4, <1>5, <1>6
<1> QED BY <1>7, <1>8, <1>9

LEMMA ChunksFacts ==
    ASSUME NEW S \in SUBSET Seqs, host \in Hosts, out \in Seq(Hosts \X Seqs), NEW q \in Chunks(S)
    PROVE  /\ out \o q \in Seq(Hosts \X Seqs)
           /\ ToSet(out \o q) = ToSet(out) \cup ({host} \X Content(S))
<1>1. PICK C : C = Content(S)
  OBVIOUS
<1>2. q \in SeqOf({host} \X C, MaxSeq + 1) /\ ToSet(q) = {host} \X C /\ C \subseteq Seqs
  BY <1>1 DEF Chunks, Content
<1>3. PICK k \in 0..(MaxSeq + 1) : q \in [1..k -> {host} \X C]
  BY <1>2 DEF SeqOf
<1>4. k \in Nat
  BY Bounds
<1>5. q \in Seq(Hosts \X Seqs)
  BY <1>2, <1>3, <1>4
<1>6. out \o q \in Seq(Hosts \X Seqs)
  BY <1>5
<1>7. ToSet(out \o q) = ToSet(out) \cup ToSet(q)
  BY <1>5, ToSetConcat
<1> QED BY <1>1, <1>2, <1>6, <1>7

\* q lists the chunks of host h with the numbers S in order.
Enumerates(q, h, S) ==
    ToSet(q) = {h} \X S /\ \A i, j \in DOMAIN q : i < j => q[i][2] < q[j][2]

LEMMA AppendLargest ==
    ASSUME NEW h, NEW m \in Nat, NEW S \in SUBSET (0..(m - 1)), NEW k \in 0..m,
           NEW q \in [1..k -> {h} \X S], Enumerates(q, h, S)
    PROVE  \E p \in [1..(k + 1) -> {h} \X (S \cup {m})] : Enumerates(p, h, S \cup {m})
<1>1. PICK p : p = [i \in 1..(k + 1) |-> IF i = k + 1 THEN <<h, m>> ELSE q[i]]
  OBVIOUS
<1>2. k \in Nat /\ k + 1 \in 1..(k + 1) /\ \A i \in 1..(k + 1) : i # k + 1 => i \in 1..k
  OBVIOUS
<1>3. p[k + 1] = <<h, m>> /\ \A i \in 1..k : i \in 1..(k + 1) /\ p[i] = q[i]
  BY <1>1, <1>2
<1>4. \A i \in 1..k : q[i] \in {h} \X S /\ q[i][2] \in 0..(m - 1)
  OBVIOUS
<1>5. DOMAIN p = 1..(k + 1) /\ DOMAIN q = 1..k
  BY <1>1
<1>6. p \in [1..(k + 1) -> {h} \X (S \cup {m})]
  BY <1>1, <1>2, <1>4
<1>7. ToSet(p) = {h} \X (S \cup {m})
  <2>1. ToSet(q) = {q[i] : i \in 1..k} /\ ToSet(p) = {p[i] : i \in 1..(k + 1)}
    BY <1>5 DEF ToSet
  <2>2. ToSet(p) \subseteq ToSet(q) \cup {<<h, m>>}
    <3> SUFFICES ASSUME NEW i \in 1..(k + 1) PROVE p[i] \in ToSet(q) \cup {<<h, m>>}
      BY <2>1
    <3>1. CASE i = k + 1
      BY <1>3, <3>1
    <3>2. CASE i # k + 1
      BY <1>2, <1>3, <2>1, <3>2
    <3> QED BY <3>1, <3>2
  <2>3. ToSet(q) \subseteq ToSet(p) /\ <<h, m>> \in ToSet(p)
    BY <1>2, <1>3, <2>1
  <2>4. ToSet(q) = {h} \X S
    BY DEF Enumerates
  <2>5. {h} \X (S \cup {m}) = ({h} \X S) \cup {<<h, m>>}
    OBVIOUS
  <2> QED BY <2>2, <2>3, <2>4, <2>5
<1>8. ASSUME NEW i \in 1..(k + 1), NEW j \in 1..(k + 1), i < j
      PROVE  p[i][2] < p[j][2]
  <2>1. i \in 1..k
    BY <1>2, <1>8
  <2>2. CASE j = k + 1
    BY <1>3, <1>4, <2>1, <2>2
  <2>3. CASE j # k + 1
    <3>1. j \in 1..k
      BY <1>2, <2>3
    <3>2. q[i][2] < q[j][2]
      BY <1>5, <1>8, <2>1, <3>1 DEF Enumerates
    <3> QED BY <1>3, <2>1, <3>1, <3>2
  <2> QED BY <2>2, <2>3
<1> QED BY <1>5, <1>6, <1>7, <1>8 DEF Enumerates

\* Every set of numbers has its chunks in order, so that no cycle is stuck.
LEMMA ChunksExist ==
    ASSUME NEW S \in SUBSET Seqs
    PROVE  Chunks(S) # {}
<1> DEFINE Listed(m) == \A T \in SUBSET (0..(m - 1)) :
                          \E k \in 0..m : \E q \in [1..k -> {host} \X T] : Enumerates(q, host, T)
           Bad == {m \in Nat : ~Listed(m)}
<1>1. Bad = {}
  <2> SUFFICES ASSUME Bad # {} PROVE FALSE
    OBVIOUS
  <2>1. PICK m \in Bad : \A k \in Bad : m <= k
    BY LeastNatural
  <2>2. m \in Nat /\ ~Listed(m)
    BY <2>1
  <2>3. m # 0
    <3> SUFFICES Listed(0)
      BY <2>2
    <3> SUFFICES ASSUME NEW T \in SUBSET (0..(0 - 1))
                 PROVE  \E k \in 0..0 : \E q \in [1..k -> {host} \X T] : Enumerates(q, host, T)
      OBVIOUS
    <3>1. T = {}
      OBVIOUS
    <3>2. <<>> \in [1..0 -> {host} \X {}] /\ Enumerates(<<>>, host, {})
      BY DEF Enumerates, ToSet
    <3>3. 0 \in 0..0
      OBVIOUS
    <3> QED BY <3>1, <3>2, <3>3
  <2>4. m - 1 \in Nat /\ ~(m <= m - 1)
    BY <2>2, <2>3
  <2>5. m - 1 \notin Bad
    BY <2>1, <2>4
  <2>6. m - 1 \in Nat /\ Listed(m - 1)
    BY <2>4, <2>5
  <2> HIDE DEF Bad
  <2>7. ASSUME NEW T \in SUBSET (0..(m - 1))
        PROVE  \E k \in 0..m : \E q \in [1..k -> {host} \X T] : Enumerates(q, host, T)
    <3>1. PICK U : U = T \ {m - 1}
      OBVIOUS
    <3>2. U \in SUBSET (0..((m - 1) - 1))
      BY <2>2, <2>6, <3>1
    <3>3. PICK k \in 0..(m - 1) : \E q \in [1..k -> {host} \X U] : Enumerates(q, host, U)
      BY <2>6, <3>2
    <3>4. PICK q \in [1..k -> {host} \X U] : Enumerates(q, host, U)
      BY <3>3
    <3>5. k \in 0..m /\ k + 1 \in 0..m
      BY <2>2
    <3>6. CASE m - 1 \in T
      <4>1. U \cup {m - 1} = T
        BY <3>1, <3>6
      <4>2. \E p \in [1..(k + 1) -> {host} \X (U \cup {m - 1})] : Enumerates(p, host, U \cup {m - 1})
        BY <2>6, <3>2, <3>4, AppendLargest
      <4> QED BY <3>5, <4>1, <4>2
    <3>7. CASE m - 1 \notin T
      <4>1. U = T
        BY <3>1, <3>7
      <4> QED BY <3>4, <3>5, <4>1
    <3> QED BY <3>6, <3>7
  <2> QED BY <2>2, <2>7
<1>2. MaxSeq + 1 \in Nat /\ (MaxSeq + 1) - 1 = MaxSeq
  BY Bounds
<1>3. Content(S) \in SUBSET (0..((MaxSeq + 1) - 1))
  BY <1>2 DEF Seqs, Content
<1>4. Listed(MaxSeq + 1)
  BY <1>1, <1>2
<1>5. PICK k \in 0..(MaxSeq + 1) : \E q \in [1..k -> {host} \X Content(S)] : Enumerates(q, host, Content(S))
  BY <1>4, <1>3
<1>6. PICK q \in [1..k -> {host} \X Content(S)] : Enumerates(q, host, Content(S))
  BY <1>5
<1>7. q \in SeqOf({host} \X Content(S), MaxSeq + 1)
  BY <1>6 DEF SeqOf
<1> QED BY <1>6, <1>7 DEF Chunks, Enumerates

---------------------------------------------------------------------------
(* The executors and the spool *)

Cancels == {"none", "sent", "taken", "lost"}
Execs == {"none", "asked", "running", "aborting", "dropped", "finished", "dead"}
Errs == {"absent", "sent", "pending", "processing", "lost"}

\* A step that sends no row and changes none: an executor that has ended does not
\* go on, and one that is asked was not forgotten.
LEMMA QuietStep ==
    ASSUME StreamInv, UNCHANGED <<askVars, row, seq>>,
           exec' \in [Hosts -> Execs], cancel' \in [Hosts -> Cancels], err' \in Errs,
           ASSUME Live
           PROVE  /\ exec'[host] # "none"
                  /\ exec[host] = "finished" => exec'[host] = "finished"
                  /\ exec'[host] \in {"asked", "running"} => exec[host] \in {"asked", "running"}
    PROVE  StreamInv'
<1>1. UNCHANGED <<host, st, fold, out, timedOut, answered, skipped, row, seq>>
  BY DEF askVars
<1>2. TypeOK'
  BY <1>1 DEF StreamInv, TypeOK, Live, Cancels, Execs, Errs
<1>3. AskInv'
  BY <1>1 DEF StreamInv, AskInv
<1>4. ASSUME Live' PROVE SentInv' /\ FoldInv'
  <2>1. Live /\ SentInv /\ FoldInv
    BY <1>1, <1>4 DEF StreamInv, Live
  <2>2. SentInv'
    BY <1>1, <2>1 DEF SentInv
  <2>3. FoldInv'
    BY <1>1, <2>1 DEF FoldInv, Accounted
  <2> QED BY <2>2, <2>3
<1> QED BY <1>2, <1>3, <1>4 DEF StreamInv

\* The spool delivers or loses a row that was on its way.
LEMMA CarryStep ==
    ASSUME StreamInv, Live, UNCHANGED <<askVars, err, seq, exec, cancel>>,
           NEW s \in Seqs, row[s].at = "sent", NEW a \in {"pending", "lost"},
           row' = [row EXCEPT ![s].at = a]
    PROVE  StreamInv'
<1>1. UNCHANGED <<host, st, fold, out, timedOut, answered, skipped, err, seq, exec, cancel>>
  BY DEF askVars
<1>2. TypeOK /\ AskInv /\ SentInv /\ FoldInv
  BY DEF StreamInv
<1>3. row \in [Seqs -> [kind : {"none", "chunk", "beat", "end", "bare"},
                        at : {"absent", "sent", "pending", "processing", "consumed", "lost"}]]
  BY <1>2 DEF TypeOK
<1>4. row' \in [Seqs -> [kind : {"none", "chunk", "beat", "end", "bare"},
                         at : {"absent", "sent", "pending", "processing", "consumed", "lost"}]]
  BY <1>3
<1>5. \A t \in Seqs : t # s => row'[t] = row[t]
  BY <1>3
<1>6. row'[s].kind = row[s].kind /\ row'[s].at = a
  BY <1>3
<1>7. \A t \in Seqs : row'[t].kind = row[t].kind
  BY <1>5, <1>6
<1>8. s \notin fold.buf /\ s < seq /\ fold.buf \subseteq Seqs
  <2>1. s \in Nat /\ seq \in Nat
    BY <1>2, Bounds DEF TypeOK, Seqs
  <2>2. row[s] # NoRow
    BY DEF NoRow
  <2> QED BY <1>2, <2>1, <2>2 DEF SentInv, FoldInv, AskInv
<1>9. TypeOK'
  BY <1>1, <1>2, <1>4, <1>5, <1>8 DEF TypeOK, Live
<1>10. AskInv'
  BY <1>1, <1>2 DEF AskInv
<1>11. SentInv'
  <2>1. \A t \in Seqs : t >= seq => row'[t] = NoRow
    <3>1. \A t \in Seqs : t >= seq => t # s
      BY <1>2, <1>8, Bounds DEF TypeOK, Seqs
    <3> QED BY <1>2, <1>5, <3>1 DEF SentInv
  <2>2. \A t \in Seqs : t < seq => row'[t].at # "absent"
    BY <1>2, <1>5, <1>6 DEF SentInv
  <2> QED BY <1>1, <1>2, <1>7, <2>1, <2>2 DEF SentInv
<1>12. FoldInv'
  <2>1. \A t \in Seqs : row'[t].at = "processing" <=> t \in fold.buf
    BY <1>2, <1>5, <1>6, <1>8 DEF FoldInv
  <2>2. \A t \in Seqs : row'[t].at = "consumed" => t < fold.next
    BY <1>2, <1>5, <1>6 DEF FoldInv
  <2>3. fold.end >= 0 => fold.end \in Seqs
    BY <1>2, Bounds DEF TypeOK, Seqs
  <2>4. \A t \in 0..(fold.next - 1) : t \in Seqs
    BY <1>2, Bounds DEF TypeOK, Seqs
  <2>5. Accounted(0..(fold.next - 1), out, skipped)'
    BY <1>1, <1>2, <1>7, <2>4 DEF FoldInv, Accounted
  <2> QED BY <1>1, <1>2, <1>7, <2>1, <2>2, <2>3, <2>5 DEF FoldInv
<1> QED BY <1>9, <1>10, <1>11, <1>12 DEF StreamInv

\* The executor of the stream being read sends its next row.
LEMMA SendStep ==
    ASSUME StreamInv, Live, UNCHANGED <<askVars, err, cancel>>,
           seq <= MaxSeq, NEW kind \in {"chunk", "beat", "end", "bare"},
           exec[host] # "finished", exec' \in [Hosts -> Execs],
           kind \in Ends => exec'[host] = "finished",
           kind \notin Ends => seq < MaxSeq,
           exec'[host] # "none", exec'[host] \in {"asked", "running"} => kind \notin Ends,
           row' = [row EXCEPT ![seq] = [kind |-> kind, at |-> "sent"]], seq' = seq + 1
    PROVE  StreamInv'
<1>1. UNCHANGED <<host, st, fold, out, timedOut, answered, skipped, err, cancel>>
  BY DEF askVars
<1>2. TypeOK /\ AskInv /\ SentInv /\ FoldInv
  BY DEF StreamInv
<1>3. row \in [Seqs -> [kind : {"none", "chunk", "beat", "end", "bare"},
                        at : {"absent", "sent", "pending", "processing", "consumed", "lost"}]]
  BY <1>2 DEF TypeOK
<1>4. seq \in Nat /\ MaxSeq \in Nat /\ seq \in Seqs /\ seq' \in 0..(MaxSeq + 1)
  BY <1>2, Bounds DEF TypeOK, Seqs
<1>5. /\ \A t \in Seqs : t # seq => row'[t] = row[t]
      /\ row'[seq] = [kind |-> kind, at |-> "sent"]
      /\ row' \in [Seqs -> [kind : {"none", "chunk", "beat", "end", "bare"},
                            at : {"absent", "sent", "pending", "processing", "consumed", "lost"}]]
  BY <1>3, <1>4
<1>6. row'[seq].kind = kind /\ row'[seq].at = "sent"
  BY <1>5
<1>7. row[seq] = NoRow /\ row[seq].kind = "none" /\ row[seq].at = "absent"
  BY <1>2, <1>4 DEF SentInv, NoRow
<1>8. \A t \in Seqs : row[t].kind \notin Ends
  BY <1>2 DEF SentInv
<1>9. seq \notin fold.buf /\ fold.buf \subseteq Seqs
  BY <1>2, <1>4, <1>7 DEF FoldInv, AskInv
<1>10. TypeOK'
  BY <1>1, <1>2, <1>4, <1>5, <1>9 DEF TypeOK, Live, Execs
<1>11. AskInv'
  BY <1>1, <1>2 DEF AskInv
<1>12. SentInv'
  <2>1. \A t \in Seqs : t >= seq' => row'[t] = NoRow
    <3>1. \A t \in Seqs : t >= seq' => t # seq /\ t >= seq
      BY <1>4 DEF Seqs
    <3> QED BY <1>2, <1>5, <3>1 DEF SentInv
  <2>2. \A t \in Seqs : t < seq' => row'[t].at # "absent"
    <3>1. \A t \in Seqs : t < seq' => t = seq \/ t < seq
      BY <1>4 DEF Seqs
    <3> QED BY <1>2, <1>5, <1>6, <3>1 DEF SentInv
  <2>3. \A t \in Seqs : row'[t].kind \in Ends => t = seq' - 1 /\ exec'[host] = "finished"
    <3>1. seq' - 1 = seq
      BY <1>4
    <3> QED BY <1>5, <1>6, <1>8, <3>1
  <2>4. exec'[host] \in {"asked", "running"} => seq' <= MaxSeq
    BY <1>4
  <2> QED BY <1>1, <2>1, <2>2, <2>3, <2>4 DEF SentInv
<1>13. FoldInv'
  <2>1. \A t \in Seqs : row'[t].at = "processing" <=> t \in fold.buf
    BY <1>2, <1>5, <1>6, <1>9 DEF FoldInv
  <2>2. \A t \in Seqs : row'[t].at = "consumed" => t < fold.next
    BY <1>2, <1>5, <1>6 DEF FoldInv
  <2>3. fold.end < 0 /\ ~fold.ended
    <3>1. fold.end >= 0 => fold.end \in Seqs
      BY <1>2, Bounds DEF TypeOK, Seqs
    <3>2. ~(fold.end >= 0)
      BY <1>2, <1>8, <3>1 DEF FoldInv
    <3> QED BY <1>2, <3>2, Bounds DEF FoldInv, TypeOK
  <2>4. \A t \in 0..(fold.next - 1) : t \in Seqs
    BY <1>2, Bounds DEF TypeOK, Seqs
  <2>5. \A t \in Seqs : row[t].kind \in Empty => row'[t].kind \in Empty
    BY <1>5, <1>7 DEF Empty
  <2>6. Accounted(0..(fold.next - 1), out, skipped)'
    BY <1>1, <1>2, <2>4, <2>5 DEF FoldInv, Accounted
  <2>7. ~(fold.end >= 0)
    BY <1>2, <2>3, Bounds DEF TypeOK
  <2> QED BY <1>1, <1>2, <2>1, <2>2, <2>3, <2>6, <2>7 DEF FoldInv
<1> QED BY <1>10, <1>11, <1>12, <1>13 DEF StreamInv
---------------------------------------------------------------------------
(* The requester *)

\* The next host is asked, or the stream is over.
LEMMA AdvanceStep ==
    ASSUME StreamInv, host \in 0..N, NEW o \in Seq(Hosts \X Seqs),
           \A x \in ToSet(o) : x[1] <= host,
           NEW t, NEW cs \in [Hosts -> Cancels], Advance(o, t, exec, cs)
    PROVE  StreamInv' /\ out' = o /\ host' \in host..(N + 1)
<1>1. N \in Nat \ {0} /\ MaxSeq \in Nat /\ MaxGap \in Nat \ {0}
  BY Bounds
<1>2. /\ out' = o /\ cancel' = cs /\ fold' = Fresh /\ err' = "absent" /\ seq' = 0
      /\ row' = [s \in Seqs |-> NoRow]
  BY DEF Advance, NewStream
<1>3. \/ host' = N + 1 /\ st' \in {"completed", "failed"} /\ exec' = exec
      \/ /\ host < N /\ st' = "live" /\ host' = host + 1
         /\ exec' = [exec EXCEPT ![host + 1] = "asked"]
  BY DEF Advance, Finished
<1>4. exec \in [Hosts -> Execs]
  BY DEF StreamInv, TypeOK, Execs
<1>5. /\ host' \in 0..(N + 1) /\ host' \in host..(N + 1) /\ host < host'
      /\ st' = "live" <=> host' \in Hosts
  BY <1>1, <1>3 DEF Hosts
<1>6. exec' \in [Hosts -> Execs]
  BY <1>3, <1>4 DEF Execs
<1>7. st' = "live" => exec'[host'] = "asked"
  BY <1>1, <1>3, <1>4 DEF Hosts
<1>8. /\ fold'.next = 0 /\ fold'.buf = {} /\ fold'.gap = 0 /\ fold'.end = -1 /\ fold'.ended = FALSE
      /\ fold' \in [next : 0..(MaxSeq + 1), buf : SUBSET Seqs, gap : 0..(MaxGap - 1),
                    end : -1..MaxSeq, ended : BOOLEAN]
  BY <1>1, <1>2 DEF Fresh
<1>9. \A s \in Seqs : row'[s] = NoRow /\ row'[s].kind = "none" /\ row'[s].at = "absent"
  BY <1>2 DEF NoRow
<1>10. row' \in [Seqs -> [kind : {"none", "chunk", "beat", "end", "bare"},
                          at : {"absent", "sent", "pending", "processing", "consumed", "lost"}]]
  BY <1>2 DEF NoRow
<1>11. st' \in {"idle", "live", "completed", "failed"}
  BY <1>3
<1>12. seq' \in 0..(MaxSeq + 1) /\ fold'.next \in 0..(MaxSeq + 1) /\ fold'.gap \in 0..(MaxGap - 1)
       /\ fold'.end \in -1..MaxSeq
  BY <1>1, <1>2, <1>8
<1>13. TypeOK'
  BY <1>2, <1>5, <1>6, <1>7, <1>8, <1>10, <1>11, <1>12 DEF TypeOK, Live, Cancels, Execs
<1>14. \A x \in ToSet(o) : x[1] <= host' /\ x[1] # host'
  <2>1. \A x \in ToSet(o) : x \in Hosts \X Seqs
    BY DEF ToSet
  <2>2. \A x \in ToSet(o) : x[1] \in Nat
    BY <1>1, <2>1 DEF Hosts
  <2> QED BY <1>1, <1>5, <2>2
<1>15. AskInv'
  BY <1>2, <1>8, <1>14 DEF AskInv
<1>16. ASSUME Live' PROVE SentInv' /\ FoldInv'
  <2>1. SentInv'
    <3>1. \A s \in Seqs : ~(s < seq')
      BY <1>1, <1>2 DEF Seqs
    <3>2. seq' <= MaxSeq
      BY <1>1, <1>2
    <3> QED BY <1>9, <3>1, <3>2 DEF SentInv, Ends
  <2>2. 0..(fold'.next - 1) = {} /\ ~(fold'.end >= 0)
    BY <1>8
  <2>3. Accounted(0..(fold.next - 1), out, skipped)'
    BY <2>2 DEF Accounted
  <2> QED BY <1>2, <1>8, <1>9, <1>14, <2>1, <2>2, <2>3 DEF FoldInv
<1> QED BY <1>2, <1>5, <1>13, <1>15, <1>16 DEF StreamInv

\* A step of the abstract stream, and what AnswersWhole asks of a step.
Ordered == [Abstract!Step]_(Abstract!vars)

Whole ==
    /\ answered' # answered => Accounted(0..(seq - 1), out', skipped')
    /\ \A p \in skipped' \ skipped : row'[p[2]].at \in {"sent", "lost"}

\* Handing on the chunks S of the current host, all of them new, is a step of the
\* ordered stream whatever else happens to the host.
LEMMA HandedInOrder ==
    ASSUME host \in 0..N, host' \in host..(N + 1), st \notin {"completed", "failed"},
           NEW S \in SUBSET Seqs, \A s \in S, x \in ToSet(out) : x[1] = host => x[2] < s,
           NEW q \in Abstract!Ascending(host, S), out' = out \o q
    PROVE  Ordered
<1>1. N \in Nat
  BY Bounds
<1>2. PICK m : m = IF host > N THEN N ELSE host
  OBVIOUS
<1>3. m = host
  BY <1>1, <1>2
<1>4. (IF host' > N THEN N ELSE host') \in m..N
  BY <1>1, <1>3
<1>5. \A s \in S, d \in Abstract!Delivered(m) : d < s
  BY <1>3 DEF Abstract!Delivered, Abstract!ToSet, ToSet
<1>6. S \in SUBSET (0..MaxSeq)
  BY DEF Seqs
<1>7. \E T \in SUBSET (0..MaxSeq) :
        /\ \A s \in T, d \in Abstract!Delivered(m) : d < s
        /\ \E r \in Abstract!Ascending(m, T) : out' = out \o r
  BY <1>3, <1>5, <1>6
<1>8. (st' \in {"completed", "failed"}) \in BOOLEAN
  OBVIOUS
<1>9. Abstract!Step
  BY <1>2, <1>4, <1>7, <1>8 DEF Abstract!Step
<1> QED BY <1>9 DEF Ordered

\* So is handing on nothing.
LEMMA NothingHanded ==
    ASSUME host \in 0..N, host' \in host..(N + 1), st \notin {"completed", "failed"},
           out \in Seq(Hosts \X Seqs), out' = out
    PROVE  Ordered
<1>1. <<>> \in Abstract!SeqOf({host} \X {}, MaxSeq + 1)
  <2>1. 0 \in 0..(MaxSeq + 1) /\ <<>> \in [1..0 -> {host} \X {}]
    BY Bounds
  <2> QED BY <2>1 DEF Abstract!SeqOf
<1>2. <<>> \in Abstract!Ascending(host, {})
  BY <1>1 DEF Abstract!Ascending, Abstract!ToSet
<1>3. out' = out \o <<>>
  OBVIOUS
<1> QED BY <1>2, <1>3, HandedInOrder

LEMMA LiveHost ==
    ASSUME StreamInv, Live
    PROVE  /\ host \in Hosts /\ host \in 0..N /\ st \notin {"completed", "failed"}
           /\ out \in Seq(Hosts \X Seqs) /\ \A x \in ToSet(out) : x[1] <= host
BY Bounds DEF StreamInv, TypeOK, AskInv, Live, Hosts

LEMMA OpenStep ==
    ASSUME StreamInv, Open
    PROVE  StreamInv' /\ Ordered /\ Whole
<1>1. st = "idle" /\ Advance(out, timedOut, exec, cancel) /\ UNCHANGED <<answered, skipped>>
  BY DEF Open
<1>2. host \in 0..N
  BY <1>1, Bounds DEF StreamInv, TypeOK, Advance
<1>3. /\ cancel \in [Hosts -> Cancels] /\ out \in Seq(Hosts \X Seqs)
      /\ \A x \in ToSet(out) : x[1] <= host
  BY DEF StreamInv, TypeOK, AskInv, Cancels
<1>4. StreamInv' /\ out' = out /\ host' \in host..(N + 1)
  BY <1>1, <1>2, <1>3, AdvanceStep
<1>5. Ordered
  BY <1>1, <1>2, <1>3, <1>4, NothingHanded
<1> QED BY <1>1, <1>4, <1>5 DEF Whole

LEMMA GiveUpType ==
    ASSUME StreamInv
    PROVE  GiveUp \in [Hosts -> Cancels]
BY DEF StreamInv, TypeOK, GiveUp, Cancels

LEMMA TimeoutStep ==
    ASSUME StreamInv, Timeout
    PROVE  StreamInv' /\ Ordered /\ Whole
<1>1. Live /\ Advance(out, TRUE, exec, GiveUp) /\ UNCHANGED <<answered, skipped>>
  BY DEF Timeout
<1>2. StreamInv' /\ out' = out /\ host' \in host..(N + 1)
  BY <1>1, LiveHost, GiveUpType, AdvanceStep
<1>3. Ordered
  BY <1>1, <1>2, LiveHost, NothingHanded
<1> QED BY <1>1, <1>2, <1>3 DEF Whole

LEMMA AbortStep ==
    ASSUME StreamInv, Abort
    PROVE  StreamInv' /\ Ordered /\ Whole
<1>1. /\ Live /\ host' = N + 1 /\ st' \in {"completed", "failed"}
      /\ exec' = [h \in Hosts |-> IF h > host THEN "asked" ELSE exec[h]]
      /\ cancel' = [h \in Hosts |-> IF h >= host THEN "sent" ELSE cancel[h]]
      /\ fold' = Fresh /\ row' = [s \in Seqs |-> NoRow] /\ err' = "absent" /\ seq' = 0
      /\ UNCHANGED <<out, answered, skipped>>
  BY DEF Abort, NewStream, Finished
<1>2. N \in Nat \ {0} /\ MaxSeq \in Nat /\ MaxGap \in Nat \ {0}
  BY Bounds
<1>3. exec' \in [Hosts -> Execs] /\ cancel' \in [Hosts -> Cancels]
  BY <1>1 DEF StreamInv, TypeOK, Execs, Cancels
<1>4. row' \in [Seqs -> [kind : {"none", "chunk", "beat", "end", "bare"},
                         at : {"absent", "sent", "pending", "processing", "consumed", "lost"}]]
  BY <1>1 DEF NoRow
<1>5. /\ fold'.next = 0 /\ fold'.gap = 0 /\ fold'.end = -1
      /\ fold' \in [next : 0..(MaxSeq + 1), buf : SUBSET Seqs, gap : 0..(MaxGap - 1),
                    end : -1..MaxSeq, ended : BOOLEAN]
  BY <1>1, <1>2 DEF Fresh
<1>6. ~Live' /\ host' \notin Hosts /\ host' \in 0..(N + 1) /\ host' \in host..(N + 1)
  BY <1>1, <1>2, LiveHost DEF Live, Hosts
<1>7. TypeOK'
  BY <1>1, <1>2, <1>3, <1>4, <1>5, <1>6 DEF TypeOK, Live, Execs, Cancels
<1>8. AskInv'
  <2>1. \A x \in ToSet(out) : x \in Hosts \X Seqs
    BY <1>1, LiveHost DEF ToSet
  <2>2. \A x \in ToSet(out) : x[1] <= N + 1
    BY <1>2, <2>1 DEF Hosts
  <2> QED BY <1>1, <1>5, <2>2, LiveHost DEF AskInv
<1>9. Ordered
  BY <1>1, <1>6, LiveHost, NothingHanded
<1> QED BY <1>1, <1>6, <1>7, <1>8, <1>9 DEF StreamInv, Whole
Rows == [Seqs -> [kind : {"none", "chunk", "beat", "end", "bare"},
                  at : {"absent", "sent", "pending", "processing", "consumed", "lost"}]]

\* Settling the rows S keeps their kinds.
LEMMA SettledFacts ==
    ASSUME row \in Rows, NEW S
    PROVE  /\ Settled(S) \in Rows
           /\ \A s \in Seqs : /\ Settled(S)[s].kind = row[s].kind
                              /\ Settled(S)[s].at = IF s \in S THEN "consumed"
                                                    ELSE IF s \in Waiting THEN "processing"
                                                    ELSE row[s].at
                              /\ s \notin S /\ s \notin Waiting => Settled(S)[s] = row[s]
<1> SUFFICES ASSUME NEW s \in Seqs
             PROVE  /\ Settled(S)[s] \in [kind : {"none", "chunk", "beat", "end", "bare"},
                          at : {"absent", "sent", "pending", "processing", "consumed", "lost"}]
                    /\ Settled(S)[s].kind = row[s].kind
                    /\ Settled(S)[s].at = IF s \in S THEN "consumed"
                                          ELSE IF s \in Waiting THEN "processing" ELSE row[s].at
                    /\ s \notin S /\ s \notin Waiting => Settled(S)[s] = row[s]
  BY DEF Settled, Rows
<1>1. row[s] \in [kind : {"none", "chunk", "beat", "end", "bare"},
                  at : {"absent", "sent", "pending", "processing", "consumed", "lost"}]
  BY DEF Rows
<1>2. Settled(S)[s] = IF s \in S THEN [row[s] EXCEPT !.at = "consumed"]
                      ELSE IF s \in Waiting THEN [row[s] EXCEPT !.at = "processing"] ELSE row[s]
  BY DEF Settled
<1>3. CASE s \in S
  BY <1>1, <1>2, <1>3
<1>4. CASE s \notin S /\ s \in Waiting
  BY <1>1, <1>2, <1>4
<1>5. CASE s \notin S /\ s \notin Waiting
  BY <1>1, <1>2, <1>5
<1> QED BY <1>3, <1>4, <1>5

LEMMA ReadErrorStep ==
    ASSUME StreamInv, ReadError
    PROVE  StreamInv' /\ Ordered /\ Whole
<1>1. /\ Live /\ err' = "processing" /\ row' = Settled({}) /\ st' = "failed" /\ host' = N + 1
      /\ cancel' = GiveUp /\ UNCHANGED <<fold, out, timedOut, seq, exec, answered, skipped>>
  BY DEF ReadError
<1>2. TypeOK /\ AskInv /\ N \in Nat
  BY Bounds DEF StreamInv
<1>3. row' \in Rows
  BY <1>1, <1>2, SettledFacts DEF TypeOK, Rows
<1>4. ~Live' /\ host' \notin Hosts /\ host' \in 0..(N + 1) /\ host' \in host..(N + 1)
  BY <1>1, <1>2, LiveHost DEF Live, Hosts
<1>5. TypeOK'
  BY <1>1, <1>2, <1>3, <1>4, GiveUpType DEF TypeOK, Live, Rows, Cancels
<1>6. AskInv'
  <2>1. \A x \in ToSet(out) : x \in Hosts \X Seqs
    BY <1>1, LiveHost DEF ToSet
  <2>2. \A x \in ToSet(out) : x[1] <= N + 1
    BY <1>2, <2>1 DEF Hosts
  <2> QED BY <1>1, <1>2, <2>2 DEF AskInv
<1>7. Ordered
  BY <1>1, <1>4, LiveHost, NothingHanded
<1>8. Whole
  BY <1>1 DEF Whole
<1> QED BY <1>4, <1>5, <1>6, <1>7, <1>8 DEF StreamInv

LEMMA TickStep ==
    ASSUME StreamInv, Tick
    PROVE  StreamInv' /\ Ordered /\ Whole
<1>1. Live /\ TypeOK /\ AskInv /\ SentInv /\ FoldInv
  BY DEF Tick, StreamInv
<1>2. PICK B : B = fold.buf \cup Waiting
  OBVIOUS
<1>3. PICK e : e = EndSeen
  OBVIOUS
<1>4. PICK c : c = Cycle(B, e)
  OBVIOUS
<1>5. PICK q \in Chunks(c.take) :
        /\ skipped' = skipped \cup {<<host, s>> : s \in c.jumped}
        /\ \/ /\ c.done
              /\ answered' = answered \cup {host}
              /\ Advance(out \o q, timedOut, exec, cancel)
           \/ /\ ~c.done
              /\ fold' = [next |-> c.next, buf |-> c.buf, gap |-> c.gap, end |-> c.end,
                          ended |-> c.ended]
              /\ row' = Settled(c.take \cup c.late)
              /\ out' = out \o q
              /\ UNCHANGED <<host, st, timedOut, err, seq, exec, cancel, answered, faults>>
  BY <1>2, <1>3, <1>4 DEF Tick
<1>6. /\ e \in -1..MaxSeq /\ (e >= 0 => row[e].kind \in Ends) /\ (fold.end >= 0 => e = fold.end)
  BY <1>1, <1>3, EndFacts
<1>7. B \in SUBSET Seqs
  BY <1>1, <1>2 DEF AskInv, Waiting
<1>8. Folds(B, e, c)
  BY <1>1, <1>4, <1>6, <1>7, CycleFacts
<1>9. MaxSeq \in Nat /\ fold.next \in Nat /\ seq \in 0..(MaxSeq + 1) /\ c.next \in 0..(MaxSeq + 1)
  BY <1>1, <1>8, Bounds DEF TypeOK, Folds
<1>10. c.take \in SUBSET Seqs /\ host \in Hosts /\ host \in 0..N
  BY <1>1, <1>7, <1>8, LiveHost DEF Folds
<1>11. /\ out \o q \in Seq(Hosts \X Seqs)
       /\ ToSet(out \o q) = ToSet(out) \cup ({host} \X Content(c.take))
  BY <1>1, <1>5, <1>10, ChunksFacts DEF AskInv
<1>12. \A s \in Content(c.take) : s \in Seqs /\ s \in c.take /\ fold.next <= s /\ s < c.next
  BY <1>8, <1>10 DEF Folds, Content
<1>13. \A s \in B : row[s].at \in {"pending", "processing"}
  BY <1>1, <1>2, <1>7 DEF FoldInv, Waiting
<1>14. Accounted(0..(c.next - 1), out \o q, skipped')
  <2> SUFFICES ASSUME NEW s \in 0..(c.next - 1)
               PROVE  row[s].kind \in Empty \/ <<host, s>> \in ToSet(out \o q) \cup skipped'
    BY DEF Accounted
  <2>1. s < fold.next \/ s \in c.take \/ s \in c.jumped
    BY <1>8 DEF Folds
  <2>2. CASE s < fold.next
    <3>1. s \in 0..(fold.next - 1)
      BY <1>9, <2>2
    <3>2. row[s].kind \in Empty \/ <<host, s>> \in ToSet(out) \cup skipped
      BY <1>1, <3>1 DEF FoldInv, Accounted
    <3> QED BY <1>5, <1>11, <3>2
  <2>3. CASE s \in c.take
    BY <1>11, <2>3 DEF Content
  <2>4. CASE s \in c.jumped
    BY <1>5, <2>4
  <2> QED BY <2>1, <2>2, <2>3, <2>4
<1>15. c.ended => e >= 0 /\ e < c.next
  <2>1. fold.ended => fold.end >= 0 /\ fold.end < fold.next
    BY <1>1 DEF FoldInv
  <2> QED BY <1>6, <1>8, <1>9, <2>1 DEF Folds
<1>16. e >= 0 => e = seq - 1
  BY <1>1, <1>6 DEF SentInv, Seqs
<1>17. \A s \in Content(c.take), x \in ToSet(out) : x[1] = host => x[2] < s
  <2> SUFFICES ASSUME NEW s \in Content(c.take), NEW x \in ToSet(out), x[1] = host
               PROVE  x[2] < s
    OBVIOUS
  <2>1. x \in Hosts \X Seqs
    BY <1>1 DEF AskInv, ToSet
  <2>2. x[2] \in Nat /\ x[2] < fold.next /\ s \in Nat /\ fold.next <= s
    BY <1>1, <1>9, <1>12, <2>1 DEF FoldInv, Seqs
  <2> QED BY <1>9, <2>2
<1>18. q \in Abstract!Ascending(host, Content(c.take)) /\ Content(c.take) \in SUBSET Seqs
  BY <1>5, <1>12 DEF Chunks, Abstract!Ascending, SeqOf, Abstract!SeqOf, ToSet, Abstract!ToSet
<1>19. \A x \in ToSet(out \o q) : x[1] <= host
  <2>1. \A x \in {host} \X Content(c.take) : x[1] = host
    OBVIOUS
  <2> QED BY <1>1, <1>10, <1>11, <2>1 DEF AskInv, Hosts
<1>20. ASSUME c.done, answered' = answered \cup {host}, Advance(out \o q, timedOut, exec, cancel)
       PROVE  StreamInv' /\ Ordered /\ Whole
  <2>1. cancel \in [Hosts -> Cancels]
    BY <1>1 DEF TypeOK, Cancels
  <2>2. StreamInv' /\ out' = out \o q /\ host' \in host..(N + 1)
    BY <1>10, <1>11, <1>19, <1>20, <2>1, AdvanceStep
  <2>3. Ordered
    BY <1>1, <1>10, <1>17, <1>18, <2>2, LiveHost, HandedInOrder
  <2>4. skipped' = skipped
    BY <1>5, <1>8, <1>20 DEF Folds
  <2>5. \A s \in 0..(seq - 1) : s \in 0..(c.next - 1)
    BY <1>8, <1>9, <1>15, <1>16, <1>20 DEF Folds
  <2>6. Accounted(0..(seq - 1), out', skipped')
    BY <1>14, <2>2, <2>5 DEF Accounted
  <2> QED BY <2>2, <2>3, <2>4, <2>6 DEF Whole
<1>21. ASSUME fold' = [next |-> c.next, buf |-> c.buf, gap |-> c.gap, end |-> c.end,
                       ended |-> c.ended],
              row' = Settled(c.take \cup c.late), out' = out \o q,
              UNCHANGED <<host, st, timedOut, err, seq, exec, cancel, answered, faults>>
       PROVE  StreamInv' /\ Ordered /\ Whole
  <2>1. /\ row \in Rows /\ row' \in Rows
        /\ \A s \in Seqs : /\ row'[s].kind = row[s].kind
                           /\ row'[s].at = IF s \in c.take \cup c.late THEN "consumed"
                                           ELSE IF s \in Waiting THEN "processing" ELSE row[s].at
                           /\ s \notin c.take \cup c.late /\ s \notin Waiting => row'[s] = row[s]
    BY <1>1, <1>21, SettledFacts DEF TypeOK, Rows
  <2>2. /\ fold'.next = c.next /\ fold'.buf = B \ (c.take \cup c.late) /\ fold'.end = e
        /\ fold'.ended = c.ended /\ fold'.gap = c.gap
    BY <1>8, <1>21 DEF Folds
  <2>3. fold' \in [next : 0..(MaxSeq + 1), buf : SUBSET Seqs, gap : 0..(MaxGap - 1),
                   end : -1..MaxSeq, ended : BOOLEAN]
    <3>1. /\ c.next \in 0..(MaxSeq + 1) /\ c.buf \in SUBSET Seqs /\ c.gap \in 0..(MaxGap - 1)
          /\ c.end \in -1..MaxSeq /\ c.ended \in BOOLEAN
      BY <1>6, <1>7, <1>8 DEF Folds
    <3> QED BY <1>21, <3>1
  <2>4. \A s \in Seqs : row'[s].at = "processing" <=> s \in fold'.buf
    <3> SUFFICES ASSUME NEW s \in Seqs
                 PROVE  row'[s].at = "processing" <=> s \in B \ (c.take \cup c.late)
      BY <2>2
    <3>1. s \in Waiting <=> row[s].at = "pending"
      BY DEF Waiting
    <3>2. row[s].at = "processing" <=> s \in fold.buf
      BY <1>1 DEF FoldInv
    <3> QED BY <1>2, <2>1, <3>1, <3>2
  <2>5. AskInv'
    BY <1>11, <1>19, <1>21, <2>3 DEF AskInv
  <2>6. TypeOK'
    <3>1. /\ fold'.next \in 0..(MaxSeq + 1) /\ fold'.gap \in 0..(MaxGap - 1)
          /\ fold'.end \in -1..MaxSeq /\ fold'.buf \subseteq Seqs
      BY <2>3
    <3> QED BY <1>1, <1>21, <2>1, <2>4, <3>1 DEF TypeOK, Rows, Live
  <2>7. SentInv'
    <3>1. ASSUME NEW s \in Seqs, s >= seq PROVE row'[s] = NoRow
      <4>1. row[s] = NoRow /\ row[s].at = "absent"
        BY <1>1, <3>1 DEF SentInv, NoRow
      <4>2. s \notin B
        BY <1>13, <4>1
      <4> QED BY <1>2, <1>8, <2>1, <4>1, <4>2 DEF Folds
    <3>2. \A s \in Seqs : s < seq => row'[s].at # "absent"
      BY <1>1, <2>1 DEF SentInv
    <3> QED BY <1>1, <1>21, <2>1, <3>1, <3>2 DEF SentInv
  <2>8. FoldInv'
    <3>1. ASSUME NEW s \in Seqs, row'[s].at = "consumed" PROVE s < c.next
      <4>1. s \in Nat /\ c.next \in Nat /\ fold.next <= c.next
        BY <1>8, <1>9 DEF Folds, Seqs
      <4>2. CASE s \in c.take
        BY <1>8, <4>2 DEF Folds
      <4>3. CASE s \in c.late
        <5>1. s < fold.next
          BY <1>8, <4>3 DEF Folds
        <5> QED BY <1>9, <4>1, <5>1
      <4>4. CASE s \notin c.take \cup c.late
        <5>1. row[s].at = "consumed"
          BY <2>1, <3>1, <4>4
        <5>2. s < fold.next
          BY <1>1, <5>1 DEF FoldInv
        <5> QED BY <1>9, <4>1, <5>2
      <4> QED BY <4>2, <4>3, <4>4
    <3>2. \A s \in 0..(c.next - 1) : s \in Seqs
      BY <1>9 DEF Seqs
    <3>3. Accounted(0..(fold.next - 1), out, skipped)'
      BY <1>14, <1>21, <2>1, <2>2, <3>2 DEF Accounted
    <3>4. ASSUME NEW x \in ToSet(out \o q), x[1] = host PROVE x[2] < c.next
      <4>1. CASE x \in ToSet(out)
        <5>1. x \in Hosts \X Seqs
          BY <1>1, <4>1 DEF AskInv, ToSet
        <5>2. x[2] \in Nat /\ x[2] < fold.next /\ fold.next <= c.next /\ c.next \in Nat
          BY <1>1, <1>8, <1>9, <3>4, <4>1, <5>1 DEF FoldInv, Folds, Seqs
        <5> QED BY <1>9, <5>2
      <4>2. CASE x \in {host} \X Content(c.take)
        BY <1>12, <4>2
      <4> QED BY <1>11, <3>4, <4>1, <4>2
    <3>5. fold'.end >= 0 => row'[fold'.end].kind \in Ends
      BY <1>6, <2>1, <2>2 DEF Seqs
    <3>6. fold'.ended => fold'.end >= 0 /\ fold'.end < fold'.next
      BY <1>15, <2>2
    <3> QED BY <1>21, <2>2, <2>4, <3>1, <3>3, <3>4, <3>5, <3>6 DEF FoldInv
  <2>9. Ordered
    <3>1. host' \in host..(N + 1)
      BY <1>10, <1>21, Bounds
    <3> QED BY <1>1, <1>10, <1>17, <1>18, <1>21, <3>1, LiveHost, HandedInOrder
  <2>10. Whole
    <3>1. ASSUME \A s \in c.jumped : row'[s].at \in {"sent", "lost"},
                  NEW p \in skipped' \ skipped
           PROVE  row'[p[2]].at \in {"sent", "lost"}
      <4>1. PICK s \in c.jumped : p = <<host, s>>
        BY <1>5, <3>1
      <4>2. p[2] = s
        BY <4>1
      <4> QED BY <3>1, <4>2
    <3> SUFFICES ASSUME NEW s \in c.jumped PROVE row'[s].at \in {"sent", "lost"}
      BY <1>21, <3>1 DEF Whole
    <3>2. s \in Seqs /\ s \notin B /\ fold.next <= s /\ \E b \in B : s < b
      BY <1>8 DEF Folds
    <3>3. row'[s] = row[s]
      BY <1>2, <1>8, <2>1, <3>2 DEF Folds
    <3>4. row[s].at # "absent"
      <4>1. PICK b \in B : s < b
        BY <3>2
      <4>2. b \in Seqs /\ row[b].at # "absent"
        BY <1>7, <1>13
      <4>3. ~(b >= seq)
        BY <1>1, <4>2 DEF SentInv, NoRow
      <4>4. s < seq
        BY <1>9, <3>2, <4>1, <4>2, <4>3 DEF Seqs
      <4> QED BY <1>1, <3>2, <4>4 DEF SentInv
    <3>5. row[s].at # "pending" /\ row[s].at # "processing"
      BY <1>1, <1>2, <3>2 DEF FoldInv, Waiting
    <3>6. row[s].at # "consumed"
      <4>1. ~(s < fold.next)
        BY <1>9, <3>2 DEF Seqs
      <4> QED BY <1>1, <3>2, <4>1 DEF FoldInv
    <3>7. row[s].at \in {"absent", "sent", "pending", "processing", "consumed", "lost"}
      BY <2>1, <3>2 DEF Rows
    <3> QED BY <3>3, <3>4, <3>5, <3>6, <3>7
  <2> QED BY <1>1, <1>21, <2>5, <2>6, <2>7, <2>8, <2>9, <2>10 DEF StreamInv
<1> QED BY <1>5, <1>20, <1>21
---------------------------------------------------------------------------
(* The steps together *)

\* The executors and the spool leave the requester alone.
LEMMA AskUnchanged ==
    ASSUME UNCHANGED askVars
    PROVE  Ordered /\ Whole
<1>1. UNCHANGED <<host, st, out, answered, skipped>>
  BY DEF askVars
<1>2. Ordered
  BY <1>1 DEF Ordered, Abstract!vars
<1>3. Whole
  BY <1>1 DEF Whole
<1> QED BY <1>2, <1>3

LEMMA ExecutorStep ==
    ASSUME StreamInv, NEW h \in Hosts,
           Drop(h) \/ Start(h) \/ Refuse(h) \/ Fail(h) \/ TakeCancel(h) \/ Die(h)
    PROVE  StreamInv' /\ Ordered /\ Whole
<1>1. /\ UNCHANGED <<askVars, row, seq>> /\ (err' = err \/ err' = "sent")
      /\ cancel' = cancel \/ \E y \in {"taken", "lost"} : cancel' = [cancel EXCEPT ![h] = y]
      /\ \E x \in {"dropped", "running", "finished", "dead", "aborting", exec[h]} :
           /\ exec' = [exec EXCEPT ![h] = x]
           /\ exec[h] = "finished" => x = "finished"
           /\ x \in {"asked", "running"} => exec[h] \in {"asked", "running"}
  <2>1. CASE Die(h)
    <3>1. exec \in [Hosts -> Execs]
      BY DEF StreamInv, TypeOK, Execs
    <3>2. CASE exec[h] \in {"running", "aborting"} /\ exec' = [exec EXCEPT ![h] = "dead"] /\ cancel' = cancel
      BY <2>1, <3>2 DEF Die, rowVars
    <3>3. CASE UNCHANGED exec /\ cancel' = [cancel EXCEPT ![h] = "lost"]
      <4>1. exec' = [exec EXCEPT ![h] = exec[h]]
        BY <3>1, <3>3
      <4> QED BY <2>1, <3>3, <4>1 DEF Die, rowVars
    <3> QED BY <2>1, <3>2, <3>3 DEF Die
  <2>2. CASE ~Die(h)
    BY <2>2 DEF Drop, Start, Refuse, Fail, TakeCancel, rowVars
  <2> QED BY <2>1, <2>2
<1>2. PICK x \in {"dropped", "running", "finished", "dead", "aborting", exec[h]} :
           /\ exec' = [exec EXCEPT ![h] = x]
           /\ exec[h] = "finished" => x = "finished"
           /\ x \in {"asked", "running"} => exec[h] \in {"asked", "running"}
  BY <1>1
<1>3. exec \in [Hosts -> Execs] /\ cancel \in [Hosts -> Cancels] /\ err \in Errs
  BY DEF StreamInv, TypeOK, Execs, Cancels, Errs
<1>4. exec' \in [Hosts -> Execs] /\ cancel' \in [Hosts -> Cancels] /\ err' \in Errs
  <2>1. x \in Execs
    BY <1>2, <1>3 DEF Execs
  <2>2. exec' \in [Hosts -> Execs]
    BY <1>2, <1>3, <2>1
  <2>3. cancel' \in [Hosts -> Cancels]
    BY <1>1, <1>3 DEF Cancels
  <2>4. err' \in Errs
    BY <1>1, <1>3 DEF Errs
  <2> QED BY <2>2, <2>3, <2>4
<1>5. ASSUME Live
      PROVE  /\ exec'[host] # "none"
             /\ exec[host] = "finished" => exec'[host] = "finished"
             /\ exec'[host] \in {"asked", "running"} => exec[host] \in {"asked", "running"}
  <2>1. host \in Hosts /\ exec[host] # "none"
    BY <1>5 DEF StreamInv, TypeOK
  <2>2. exec'[host] = IF h = host THEN x ELSE exec[host]
    BY <1>2, <1>3, <2>1
  <2> QED BY <1>2, <2>1, <2>2
<1>6. StreamInv'
  BY <1>1, <1>4, <1>5, QuietStep
<1> QED BY <1>1, <1>6, AskUnchanged

LEMMA FlushStep ==
    ASSUME StreamInv, NEW h \in Hosts, Flush(h)
    PROVE  StreamInv' /\ Ordered /\ Whole
<1>1. /\ exec[h] = "running" /\ Live /\ host = h /\ seq < MaxSeq
      /\ UNCHANGED <<askVars, err, exec, cancel>>
  BY DEF Flush, Read
<1>2. PICK kind \in {"chunk", "beat"} :
        row' = [row EXCEPT ![seq] = [kind |-> kind, at |-> "sent"]] /\ seq' = seq + 1
  BY <1>1 DEF Flush, Sent, Read
<1>3. exec \in [Hosts -> Execs] /\ seq <= MaxSeq
  BY <1>1, Bounds DEF StreamInv, TypeOK, Execs
<1>4. StreamInv'
  BY <1>1, <1>2, <1>3, SendStep DEF Ends
<1> QED BY <1>1, <1>4, AskUnchanged

LEMMA FinishStep ==
    ASSUME StreamInv, NEW h \in Hosts, Finish(h)
    PROVE  StreamInv' /\ Ordered /\ Whole
<1>1. /\ exec[h] = "running" /\ exec' = [exec EXCEPT ![h] = "finished"]
      /\ UNCHANGED <<askVars, err, cancel>> /\ \E kind \in Ends : Sent(h, kind)
  BY DEF Finish
<1>2. exec \in [Hosts -> Execs] /\ cancel \in [Hosts -> Cancels] /\ err \in Errs
  BY DEF StreamInv, TypeOK, Execs, Cancels, Errs
<1>3. exec' \in [Hosts -> Execs] /\ exec'[h] = "finished" /\ \A g \in Hosts : g # h => exec'[g] = exec[g]
  BY <1>1, <1>2 DEF Execs
<1>4. CASE Read(h)
  <2>1. PICK kind \in Ends :
          /\ Live /\ host = h /\ seq' = seq + 1
          /\ row' = [row EXCEPT ![seq] = [kind |-> kind, at |-> "sent"]]
    BY <1>1, <1>4 DEF Read, Sent
  <2>2. seq <= MaxSeq
    BY <1>1, <2>1 DEF StreamInv, SentInv
  <2>3. StreamInv'
    BY <1>1, <1>3, <2>1, <2>2, SendStep DEF Ends
  <2> QED BY <1>1, <2>3, AskUnchanged
<1>5. CASE ~Read(h)
  <2>1. UNCHANGED <<askVars, row, seq>> /\ cancel' \in [Hosts -> Cancels] /\ err' \in Errs
    BY <1>1, <1>2, <1>5 DEF Sent
  <2>2. ASSUME Live
        PROVE  /\ exec'[host] # "none"
               /\ exec[host] = "finished" => exec'[host] = "finished"
               /\ exec'[host] \in {"asked", "running"} => exec[host] \in {"asked", "running"}
    <3>1. host \in Hosts /\ exec[host] # "none" /\ host # h
      BY <1>5, <2>2 DEF StreamInv, TypeOK, Read
    <3> QED BY <1>3, <3>1
  <2>3. StreamInv'
    BY <1>3, <2>1, <2>2, QuietStep
  <2> QED BY <1>1, <2>3, AskUnchanged
<1> QED BY <1>4, <1>5

LEMMA SpoolStep ==
    ASSUME StreamInv, Arrive \/ Lose
    PROVE  StreamInv' /\ Ordered /\ Whole
<1>1. /\ Live /\ UNCHANGED <<askVars, seq, exec>>
      /\ \/ \E s \in Seqs : \E a \in {"pending", "lost"} :
              row[s].at = "sent" /\ row' = [row EXCEPT ![s].at = a] /\ UNCHANGED <<err, cancel>>
         \/ /\ UNCHANGED row /\ (err' = err \/ err' \in {"pending", "lost"})
            /\ cancel' = cancel \/ \E h \in Hosts : cancel' = [cancel EXCEPT ![h] = "lost"]
  BY DEF Arrive, Lose
<1>2. CASE \E s \in Seqs : \E a \in {"pending", "lost"} :
              row[s].at = "sent" /\ row' = [row EXCEPT ![s].at = a] /\ UNCHANGED <<err, cancel>>
  <2>1. PICK s \in Seqs : \E a \in {"pending", "lost"} :
              row[s].at = "sent" /\ row' = [row EXCEPT ![s].at = a] /\ UNCHANGED <<err, cancel>>
    BY <1>2
  <2>2. StreamInv'
    BY <1>1, <2>1, CarryStep
  <2> QED BY <1>1, <2>2, AskUnchanged
<1>3. CASE /\ UNCHANGED row /\ (err' = err \/ err' \in {"pending", "lost"})
           /\ cancel' = cancel \/ \E h \in Hosts : cancel' = [cancel EXCEPT ![h] = "lost"]
  <2>1. exec \in [Hosts -> Execs] /\ cancel \in [Hosts -> Cancels] /\ err \in Errs
    BY DEF StreamInv, TypeOK, Execs, Cancels, Errs
  <2>2. cancel' \in [Hosts -> Cancels] /\ err' \in Errs
    BY <1>3, <2>1 DEF Cancels, Errs
  <2>3. Live => exec'[host] # "none"
    BY <1>1 DEF StreamInv, TypeOK
  <2>4. StreamInv'
    BY <1>1, <1>3, <2>1, <2>2, <2>3, QuietStep
  <2> QED BY <1>1, <2>4, AskUnchanged
<1> QED BY <1>1, <1>2, <1>3

LEMMA StutterStep ==
    ASSUME StreamInv, UNCHANGED vars
    PROVE  StreamInv' /\ Ordered /\ Whole
<1>1. UNCHANGED <<askVars, row, seq, err, exec, cancel>>
  BY DEF vars, rowVars
<1>2. exec' \in [Hosts -> Execs] /\ cancel' \in [Hosts -> Cancels] /\ err' \in Errs
  BY <1>1 DEF StreamInv, TypeOK, Execs, Cancels, Errs
<1>3. Live => exec'[host] # "none"
  BY <1>1 DEF StreamInv, TypeOK
<1>4. StreamInv'
  BY <1>1, <1>2, <1>3, QuietStep
<1> QED BY <1>1, <1>4, AskUnchanged

LEMMA NextStep ==
    ASSUME StreamInv, [Next]_vars
    PROVE  StreamInv' /\ Ordered /\ Whole
<1>1. ASSUME NEW h \in Hosts,
             Drop(h) \/ Start(h) \/ Refuse(h) \/ Flush(h) \/ Finish(h) \/ Fail(h)
             \/ TakeCancel(h) \/ Die(h)
      PROVE  StreamInv' /\ Ordered /\ Whole
  BY <1>1, ExecutorStep, FlushStep, FinishStep
<1> QED BY <1>1, OpenStep, ReadErrorStep, TickStep, TimeoutStep, AbortStep, SpoolStep, StutterStep
        DEF Next

LEMMA InitStream == Init => StreamInv
<1> SUFFICES ASSUME Init PROVE StreamInv
  OBVIOUS
<1>1. N \in Nat \ {0} /\ MaxSeq \in Nat /\ MaxGap \in Nat \ {0}
  BY Bounds
<1>2. /\ fold.next = 0 /\ fold.gap = 0 /\ fold.end = -1
      /\ fold \in [next : 0..(MaxSeq + 1), buf : SUBSET Seqs, gap : 0..(MaxGap - 1),
                   end : -1..MaxSeq, ended : BOOLEAN]
  BY <1>1 DEF Init, Fresh
<1>3. ~Live /\ host \notin Hosts /\ host \in 0..(N + 1)
  BY <1>1 DEF Init, Live, Hosts
<1>4. row \in Rows
  BY DEF Init, Rows, NoRow
<1>5. TypeOK
  BY <1>1, <1>2, <1>3, <1>4 DEF Init, TypeOK, Rows
<1>6. AskInv
  BY <1>2 DEF Init, AskInv, ToSet
<1> QED BY <1>3, <1>5, <1>6 DEF StreamInv

LEMMA StreamCorrect == Spec => []StreamInv
<1>1. StreamInv /\ [Next]_vars => StreamInv'
  BY NextStep
<1> QED BY <1>1, InitStream, PTL DEF Spec

\* Every variable of the requester, the executors and the rows keeps its type;
\* what is buffered is claimed.
THEOREM RelayTypeCorrect == Spec => []TypeOK
<1>1. StreamInv => TypeOK
  BY DEF StreamInv
<1> QED BY <1>1, StreamCorrect, PTL

\* A row is acknowledged only once its chunks were delivered or given up
\* (createStreamReducer), in whatever order rows arrive and whichever are lost.
THEOREM AckedWasDeliveredCorrect == Spec => []AckedWasDelivered
<1>1. ASSUME StreamInv PROVE AckedWasDelivered
  <2> SUFFICES ASSUME Live, NEW s \in Seqs, row[s].at = "consumed"
               PROVE  row[s].kind \in Empty \/ <<host, s>> \in ToSet(out) \cup skipped
    BY DEF AckedWasDelivered, Accounted
  <2>1. FoldInv /\ TypeOK
    BY <1>1 DEF StreamInv
  <2>2. s \in 0..(fold.next - 1)
    BY <2>1, Bounds DEF FoldInv, TypeOK, Seqs
  <2> QED BY <2>1, <2>2 DEF FoldInv, Accounted
<1> QED BY <1>1, StreamCorrect, PTL

\* A stream counts as answered only when every chunk sent before the end was
\* delivered or skipped, and only rows that have not arrived are skipped.
THEOREM AnswersWholeCorrect == Spec => AnswersWhole
<1>1. StreamInv /\ [Next]_vars => Whole
  BY NextStep
<1> QED BY <1>1, StreamCorrect, PTL DEF Spec, AnswersWhole, Whole

\* The stream handed to the agent loop implements OrderedStream.
THEOREM DeliversInOrderCorrect == Spec => DeliversInOrder
<1>1. Init => Abstract!Init
  BY Bounds DEF Init, Abstract!Init
<1>2. StreamInv /\ [Next]_vars => [Abstract!Step]_(Abstract!vars)
  BY NextStep DEF Ordered
<1> QED BY <1>1, <1>2, StreamCorrect, PTL DEF Spec, DeliversInOrder, Abstract!Spec

============================================================================
