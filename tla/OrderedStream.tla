--------------------------- MODULE OrderedStream ---------------------------
(***************************************************************************)
(* What a consumer of a relayed model call may rely on, whatever the       *)
(* transport between the hosts does: the chunks come from one host after   *)
(* another, no host is gone back to, a host's chunks come in the order it  *)
(* numbered them and none twice, and nothing follows the end.              *)
(***************************************************************************)
EXTENDS Naturals, Sequences, SequencesExt

CONSTANTS
    N,      \* the number of hosts that can serve the call
    MaxSeq  \* the highest sequence number of a host's stream

VARIABLES
    host,   \* the host whose chunks may come next, 0 before the first
    out,    \* the chunks delivered: pairs of a host and its sequence number
    over    \* the stream has completed or failed

vars == <<host, out, over>>

Init == host = 0 /\ out = <<>> /\ over = FALSE

\* The numbers of host h that have been delivered.
Delivered(h) == {e[2] : e \in {x \in ToSet(out) : x[1] = h}}

\* The chunks of host h with the numbers S, in order; there is one such sequence.
Ascending(h, S) ==
    {q \in SeqOf({h} \X S, MaxSeq + 1) :
        ToSet(q) = {h} \X S /\ \A i, j \in DOMAIN q : i < j => q[i][2] < q[j][2]}

\* Some chunks of the current host, all of them newer than what it has sent,
\* possibly none; then perhaps the turn of a later host, or the end.
Step ==
    /\ ~over
    /\ \E S \in SUBSET (0..MaxSeq) :
        /\ \A s \in S, d \in Delivered(host) : d < s
        /\ \E q \in Ascending(host, S) : out' = out \o q
    /\ host' \in host..N
    /\ over' \in BOOLEAN

Spec == Init /\ [][Step]_vars
=============================================================================
