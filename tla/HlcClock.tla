----------------------------- MODULE HlcClock ------------------------------
(***************************************************************************)
(* The strings of hybrid logical clock values, as createChangeLogEntry      *)
(* (packages/core/src/change-log.ts) makes and SQLite compares them: hosts  *)
(* stamp local writes and entries received from each other, each stamp      *)
(* relative to the last one in its log.                                     *)
(***************************************************************************)
EXTENDS Hlc, FiniteSets

CONSTANTS
    Host,       \* the hosts
    Base,       \* digits of the counter's base (16 in the code)
    Limit,      \* counters below Limit have the padded width (16^4)
    MaxWall,    \* bound: readings of the wall clocks
    MaxStamps   \* bound: entries per log

\* What the theorems about the clock presuppose of the constants.
ClockConstants ==
    /\ Base \in Nat \ {0} /\ Limit \in Nat /\ Limit % Base = 0
    /\ MaxWall \in Nat /\ MaxStamps \in Nat

VARIABLES
    stamps,     \* stamps[h] : the stamps in h's change_log, its primary key
    wall        \* wall[h] : the last reading of h's clock

vars == <<stamps, wall>>

\* The first digits of a counter, as many as the padding gives every counter.
\* One more digit follows when the counter has outgrown the padding.
Leading(c) == IF c < Limit THEN c ELSE c \div Base

Wide(c) == c >= Limit

\* Where the leading digits agree, the shorter counter has its underscore where
\* the longer has its last digit: 0 to 9 sort before it, a to f after it.
LastDigit(c, d) ==
    \/ Wide(c) /\ ~Wide(d) /\ c % Base < 10
    \/ ~Wide(c) /\ Wide(d) /\ d % Base >= 10
    \/ (Wide(c) <=> Wide(d)) /\ c < d

\* String comparison.
TextBefore(s, t) ==
    \/ s[1] < t[1]
    \/ /\ s[1] = t[1]
       /\ \/ Leading(s[2]) < Leading(t[2])
          \/ Leading(s[2]) = Leading(t[2]) /\ LastDigit(s[2], t[2])

\* ORDER BY hlc DESC LIMIT 1; an empty log counts as HLC_ZERO.
LastText(S) == {t \in S \cup {Zero} : \A s \in S : ~TextBefore(t, s)}

Init == stamps = [h \in Host |-> {}] /\ wall = [h \in Host |-> 1]

\* The INSERT of the new stamp; a stamp already there violates the key and the
\* transaction rolls back.  Bounds: MaxStamps, and one digit past the padding.
Insert(h, now, s) ==
    /\ s \notin stamps[h] /\ Cardinality(stamps[h]) < MaxStamps /\ s[2] < Limit * Base
    /\ stamps' = [stamps EXCEPT ![h] = @ \cup {s}]
    /\ wall' = [wall EXCEPT ![h] = now]

LocalWrite(h) ==
    \E now \in wall[h]..MaxWall, last \in LastText(stamps[h]) :
        Insert(h, now, generateHlc(now, last))

Replay(h, g) ==
    \E now \in wall[h]..MaxWall, last \in LastText(stamps[h]), remote \in stamps[g] :
        Insert(h, now, mergeHlc(now, last, remote))

Next == \E h \in Host : LocalWrite(h) \/ \E g \in Host \ {h} : Replay(h, g)

Spec == Init /\ [][Next]_vars

\* A new stamp sorts after every stamp its host had before, also when some of
\* those have outgrown the padding: only a stamp that itself outgrows it can sort
\* wrong, and only among the stamps of its own millisecond.
NarrowInOrder ==
    [][\A h \in Host : \A s \in stamps'[h] \ stamps[h], t \in stamps[h] :
          ~Wide(s[2]) \/ s[1] # t[1] => TextBefore(t, s)]_vars

\* What hlc.ts says: string comparison preserves causal order.
CausalOrder ==
    [][\A h \in Host : \A s \in stamps'[h] \ stamps[h], t \in stamps[h] : TextBefore(t, s)]_vars
============================================================================
