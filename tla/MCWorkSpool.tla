---------------------------- MODULE MCWorkSpool ----------------------------
(* Instances of WorkSpool: a hub and its spokes, one or two pieces of work. *)
EXTENDS WorkSpool

CONSTANTS a, hub, w1, w2, local

\* w1 goes from spoke a to the hub.
UplinkTarget == [x \in {w1} |-> hub]
UplinkOrigin == [x \in {w1} |-> a]

\* w1 and w2 are consumed where they are produced: w1 addressed to the host,
\* w2 to the in-process sentinel.
ConsumerTarget == [x \in {w1, w2} |-> IF x = w1 THEN hub ELSE local]
ConsumerOrigin == [x \in {w1, w2} |-> hub]

=============================================================================
