----------------------------- MODULE HlcProofs -----------------------------
(***************************************************************************)
(* A new stamp of the padded width sorts after everything in its log.       *)
(***************************************************************************)
EXTENDS HlcClock, Orders

---------------------------------------------------------------------------
ClockType ==
    /\ stamps \in [Host -> SUBSET Stamp]
    /\ wall \in [Host -> Nat]

LEMMA LeadingType == 
    ASSUME ClockConstants, NEW c \in Nat
    PROVE  Leading(c) \in Int /\ (~Wide(c) => Leading(c) = c)
BY DEF ClockConstants, Leading, Wide

\* What follows the last stamp of a log, by string order, follows every stamp in
\* it, if it has the padded width or a timestamp of its own.
LEMMA AfterLast ==
    ASSUME ClockConstants, NEW S \in SUBSET Stamp, NEW last \in LastText(S), NEW t \in S,
           NEW n \in Stamp, Before(last, n), ~Wide(n[2]) \/ n[1] # t[1]
    PROVE  TextBefore(t, n)
<1>1. last \in Stamp /\ t \in Stamp /\ ~TextBefore(last, t)
  BY DEF LastText, Stamp, Zero
<1>2. /\ last[1] \in Nat /\ last[2] \in Nat /\ t[1] \in Nat /\ t[2] \in Nat
      /\ n[1] \in Nat /\ n[2] \in Nat
  BY <1>1 DEF Stamp
<1>3. t[1] <= last[1] /\ (t[1] = last[1] => Leading(t[2]) <= Leading(last[2]))
  BY <1>1, <1>2, LeadingType DEF TextBefore
<1>4. CASE n[1] # t[1]
  BY <1>2, <1>3, <1>4 DEF Before, TextBefore
<1>5. CASE n[1] = t[1]
  <2>1. last[1] = n[1] /\ last[2] < n[2] /\ ~Wide(n[2])
    BY <1>2, <1>3, <1>5 DEF Before
  <2>2. ~Wide(last[2])
    BY <1>2, <2>1 DEF ClockConstants, Wide
  <2>3. Leading(last[2]) = last[2] /\ Leading(n[2]) = n[2] /\ Leading(t[2]) \in Int
    BY <1>2, <2>1, <2>2, LeadingType
  <2> QED BY <1>2, <1>3, <1>5, <2>1, <2>3 DEF TextBefore
<1> QED BY <1>4, <1>5

\* An action of the clock inserts one stamp that exceeds the last of its log.
LEMMA StepInserts ==
    ASSUME ClockConstants, ClockType, Next
    PROVE  \E h \in Host, now \in Nat : \E last \in LastText(stamps[h]), n \in Stamp :
              Before(last, n) /\ Insert(h, now, n)
<1>1. \A h \in Host : LastText(stamps[h]) \subseteq Stamp
  BY DEF LastText, ClockType, Stamp, Zero
<1>2. ASSUME NEW h \in Host, LocalWrite(h)
      PROVE  \E now \in Nat : \E last \in LastText(stamps[h]), n \in Stamp :
                Before(last, n) /\ Insert(h, now, n)
  <2>1. PICK now \in wall[h]..MaxWall, last \in LastText(stamps[h]) :
            Insert(h, now, generateHlc(now, last))
    BY <1>2 DEF LocalWrite
  <2>2. now \in Nat /\ last \in Stamp
    BY <1>1 DEF ClockConstants, ClockType
  <2> QED BY <2>1, <2>2, GenerateExceeds
<1>3. ASSUME NEW h \in Host, NEW g \in Host, Replay(h, g)
      PROVE  \E now \in Nat : \E last \in LastText(stamps[h]), n \in Stamp :
                Before(last, n) /\ Insert(h, now, n)
  <2>1. PICK now \in wall[h]..MaxWall, last \in LastText(stamps[h]), remote \in stamps[g] :
            Insert(h, now, mergeHlc(now, last, remote))
    BY <1>3 DEF Replay
  <2>2. now \in Nat /\ last \in Stamp /\ remote \in Stamp
    BY <1>1 DEF ClockConstants, ClockType
  <2> QED BY <2>1, <2>2, MergeExceeds
<1> QED BY <1>2, <1>3 DEF Next

\* Stamps are pairs of numbers and clocks read numbers.
LEMMA ClockTypeCorrect == ASSUME ClockConstants PROVE Spec => []ClockType
<1>1. Init => ClockType
  BY DEF Init, ClockType
<1>2. ASSUME ClockType, [Next]_vars PROVE ClockType'
  <2>1. CASE UNCHANGED vars
    BY <1>2, <2>1 DEF vars, ClockType
  <2>2. CASE Next
    <3>1. PICK h \in Host, now \in Nat, n \in Stamp : Insert(h, now, n)
      BY <1>2, <2>2, StepInserts
    <3> QED BY <1>2, <3>1 DEF Insert, ClockType
  <2> QED BY <1>2, <2>1, <2>2
<1> QED BY <1>1, <1>2, PTL DEF Spec

\* A stamp that keeps the padded width, or opens a new millisecond, sorts after
\* every stamp already in its log, whatever the wall clocks read, whatever is
\* replayed from other hosts, and also after other counters have overflowed.
THEOREM NarrowInOrderCorrect == ASSUME ClockConstants PROVE Spec => NarrowInOrder
<1> DEFINE InOrder == \A h \in Host : \A s \in stamps'[h] \ stamps[h], t \in stamps[h] :
                          ~Wide(s[2]) \/ s[1] # t[1] => TextBefore(t, s)
<1>1. ASSUME ClockType, [Next]_vars PROVE [InOrder]_vars
  <2>1. CASE UNCHANGED vars
    BY <2>1
  <2>2. CASE Next
    <3>1. PICK h \in Host, now \in Nat : \E last \in LastText(stamps[h]), n \in Stamp :
              Before(last, n) /\ Insert(h, now, n)
      BY <1>1, <2>2, StepInserts
    <3>2. PICK last \in LastText(stamps[h]), n \in Stamp : Before(last, n) /\ Insert(h, now, n)
      BY <3>1
    <3>3. ASSUME NEW g \in Host, NEW s \in stamps'[g] \ stamps[g], NEW t \in stamps[g],
                 ~Wide(s[2]) \/ s[1] # t[1]
          PROVE  TextBefore(t, s)
      <4>1. g = h /\ s = n /\ stamps[h] \in SUBSET Stamp
        BY <1>1, <3>2, <3>3 DEF Insert, ClockType
      <4> QED BY <3>2, <3>3, <4>1, AfterLast
    <3> QED BY <3>3
  <2> QED BY <1>1, <2>1, <2>2
<1> QED BY <1>1, ClockTypeCorrect, PTL DEF Spec, NarrowInOrder
============================================================================
