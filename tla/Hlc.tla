-------------------------------- MODULE Hlc --------------------------------
(***************************************************************************)
(* Hybrid logical clock values (packages/shared/src/hlc.ts).  A stamp is    *)
(* the timestamp and the counter of the string                              *)
(* {timestamp}_{counter}_{site}; the site, which orders equal stamps of two *)
(* hosts, is left out.                                                      *)
(***************************************************************************)
EXTENDS Integers

Stamp == Nat \X Nat

\* HLC_ZERO
Zero == <<0, 0>>

\* The order of the stamps as pairs of numbers.
Before(s, t) == s[1] < t[1] \/ (s[1] = t[1] /\ s[2] < t[2])

Larger(m, n) == IF m < n THEN n ELSE m

generateHlc(now, last) == IF now > last[1] THEN <<now, 0>> ELSE <<last[1], last[2] + 1>>

\* The counter is one above both counters, whichever timestamp won.
mergeHlc(now, local, remote) ==
    IF now > local[1] /\ now > remote[1]
    THEN <<now, 0>>
    ELSE <<Larger(now, Larger(local[1], remote[1])), Larger(local[2], remote[2]) + 1>>
============================================================================
