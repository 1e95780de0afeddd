---------------------------- MODULE RelayStream ----------------------------
(***************************************************************************)
(* A model call served by another host (relay-stream$.ts and the executor  *)
(* in relay-processor.ts).  The requester asks the eligible hosts in turn. *)
(* The host asked runs the model and sends numbered rows: chunks, empty    *)
(* heartbeats and one end, or an error.  The durable work spool carries    *)
(* the rows, in any order and sometimes not at all.  The requester folds   *)
(* the rows it finds into a buffer, hands the chunks on in order, waits    *)
(* some cycles for a missing number and then skips it, and cancels a host  *)
(* that it gives up.                                                       *)
(***************************************************************************)
EXTENDS Integers, Sequences, SequencesExt, FiniteSetsExt

CONSTANTS
    N,          \* the number of eligible hosts, asked in this order
    MaxSeq,     \* bound: the last number an executor may use
    MaxGap,     \* cycles waited for a missing number (MAX_GAP_CYCLES)
    MaxFaults   \* bound: rows lost, hosts that die, requests that cannot be routed

ASSUME Bounds == N \in Nat \ {0} /\ MaxSeq \in Nat /\ MaxGap \in Nat \ {0} /\ MaxFaults \in Nat

VARIABLES
    host,       \* the host being waited for, 0 before the call, N + 1 after the last
    st,         \* the requester: "idle", "live", or how the stream ended
    fold,       \* the reducer's state for the current host
    out,        \* the chunks handed to the agent loop, pairs of a host and a number
    timedOut,   \* timeoutOccurred: some host has timed out
    row,        \* per number of the current stream, its row and where that is
    err,        \* where the current stream's error row is
    seq,        \* the next number the current stream's executor uses
    exec,       \* per host, how far its executor is
    cancel,     \* per host, where the requester's cancel is
    answered,   \* history: the hosts whose stream was read to its end
    skipped,    \* history: the pairs that the gap rule jumped over
    faults

askVars == <<host, st, fold, out, timedOut, answered, skipped>>
rowVars == <<row, err, seq>>
vars == <<askVars, rowVars, exec, cancel, faults>>

Hosts == 1..N
Seqs == 0..MaxSeq
Live == st = "live"

\* Host h's stream is being read.  Every host asked gets a stream id of its own,
\* and rows of any other stream wait in the spool for their deadline and change
\* nothing, so they are left out.
Read(h) == Live /\ host = h

\* A stream's fold before its first row: nothing buffered, number 0 expected.
Fresh == [next |-> 0, buf |-> {}, gap |-> 0, end |-> -1, ended |-> FALSE]

NoRow == [kind |-> "none", at |-> "absent"]

\* The end may carry the last chunks or none; a heartbeat never carries any.
Ends == {"end", "bare"}
Empty == {"beat", "bare"}

Init ==
    /\ host = 0 /\ st = "idle" /\ fold = Fresh /\ out = <<>> /\ timedOut = FALSE
    /\ row = [s \in Seqs |-> NoRow] /\ err = "absent" /\ seq = 0
    /\ exec = [h \in Hosts |-> "none"]
    /\ cancel = [h \in Hosts |-> "none"]
    /\ answered = {} /\ skipped = {}
    /\ faults = 0

Fault == faults < MaxFaults /\ faults' = faults + 1
NoFault == UNCHANGED faults

---------------------------------------------------------------------------
(* The requester *)

\* The stream is over after its last host: with nothing emitted it fails if
\* some host timed out and completes otherwise.
Finished(o, t) == IF o = <<>> /\ t THEN "failed" ELSE "completed"

NewStream ==
    /\ fold' = Fresh
    /\ row' = [s \in Seqs |-> NoRow] /\ err' = "absent" /\ seq' = 0

\* concatMap subscribes to the next host as soon as the one before completes,
\* however it completed; a request that cannot be routed fails the stream.
\* ex and cs are the executors and the cancels the step leaves otherwise.
Advance(o, t, ex, cs) ==
    /\ out' = o /\ timedOut' = t /\ cancel' = cs
    /\ NewStream
    /\ \/ /\ host = N
          /\ st' = Finished(o, t) /\ host' = N + 1
          /\ exec' = ex
          /\ NoFault
       \/ /\ host < N
          /\ st' = "live" /\ host' = host + 1
          /\ exec' = [ex EXCEPT ![host + 1] = "asked"]
          /\ NoFault
       \/ /\ host < N /\ Fault
          /\ st' = "failed" /\ host' = N + 1
          /\ exec' = ex

\* The agent loop opens the stream: the first host is asked.
Open ==
    /\ st = "idle"
    /\ Advance(out, timedOut, exec, cancel)
    /\ UNCHANGED <<answered, skipped>>

\* The numbers of the current host whose rows wait to be read.
Waiting == {s \in Seqs : row[s].at = "pending"}

\* The number of the end, once its row has been read.
EndSeen ==
    LET ends == {s \in Waiting : row[s].kind \in Ends}
    IN  IF ends = {} THEN fold.end ELSE Max(ends)

\* The first number from n on that is not in B.
FirstMissing(n, B) == Min({m \in n..(MaxSeq + 1) : m \notin B})

\* Mutant: a gap is skipped up to the last number in the buffer.
CycleJumpsFar(B, e) ==
    LET n == FirstMissing(fold.next, B)
        rest == B \ (fold.next..(n - 1))
        ended == fold.ended \/ (n > fold.next /\ e >= 0 /\ n > e)
        gap == (IF n > fold.next THEN 0 ELSE fold.gap) + (IF rest = {} THEN 0 ELSE 1)
        limit == rest # {} /\ gap >= MaxGap
        jump == IF limit THEN Max(rest) ELSE n
    IN  [take |-> fold.next..(n - 1), late |-> {}, jumped |-> n..(jump - 1),
         done |-> ended /\ rest = {}, next |-> jump, buf |-> rest,
         gap |-> IF limit THEN 0 ELSE gap, end |-> e, ended |-> ended]

\* Mutant: after a gap the lowest number in the buffer is next, also a late one.
CycleGoesBack(B, e) ==
    LET n == FirstMissing(fold.next, B)
        rest == B \ (fold.next..(n - 1))
        ended == fold.ended \/ (n > fold.next /\ e >= 0 /\ n > e)
        gap == (IF n > fold.next THEN 0 ELSE fold.gap) + (IF rest = {} THEN 0 ELSE 1)
        limit == rest # {} /\ gap >= MaxGap
        jump == IF limit THEN Min(rest) ELSE n
    IN  [take |-> fold.next..(n - 1), late |-> {}, jumped |-> n..(jump - 1),
         done |-> ended /\ rest = {}, next |-> jump, buf |-> rest,
         gap |-> IF limit THEN 0 ELSE gap, end |-> e, ended |-> ended]

\* Mutant: at the limit the whole buffer is given up.
CycleDropsBuffer(B, e) ==
    LET n == FirstMissing(fold.next, B)
        rest == B \ (fold.next..(n - 1))
        ended == fold.ended \/ (n > fold.next /\ e >= 0 /\ n > e)
        gap == (IF n > fold.next THEN 0 ELSE fold.gap) + (IF rest = {} THEN 0 ELSE 1)
        limit == rest # {} /\ gap >= MaxGap
    IN  [take |-> fold.next..(n - 1), late |-> IF limit THEN rest ELSE {}, jumped |-> {},
         done |-> ended /\ rest = {}, next |-> n, buf |-> IF limit THEN {} ELSE rest,
         gap |-> IF limit THEN 0 ELSE gap, end |-> e, ended |-> ended]

\* What one cycle of the reducer makes of the buffer B with the end at e: the
\* numbers it takes in order, then either the stream is done, or the wait for
\* a missing number grows and, at its limit, late numbers are dropped or the
\* missing ones skipped.
Cycle(B, e) ==
    LET n == FirstMissing(fold.next, B)
        rest == B \ (fold.next..(n - 1))
        ended == fold.ended \/ (n > fold.next /\ e >= 0 /\ n > e)
        gap == (IF n > fold.next THEN 0 ELSE fold.gap) + (IF rest = {} THEN 0 ELSE 1)
        limit == rest # {} /\ gap >= MaxGap
        late == {s \in rest : limit /\ s < n}
        jump == IF limit /\ late = {} THEN Min(rest) ELSE n
    IN  [take |-> fold.next..(n - 1), late |-> late, jumped |-> n..(jump - 1),
         done |-> ended /\ rest = {},
         next |-> jump, buf |-> rest \ late, gap |-> IF limit THEN 0 ELSE gap,
         end |-> e, ended |-> ended]

\* The numbers in S that carry chunks.
Content(S) == {s \in S : row[s].kind \notin Empty}

\* The chunks of the numbers S in order; there is one such sequence.
Chunks(S) ==
    {q \in SeqOf({host} \X Content(S), MaxSeq + 1) :
        /\ ToSet(q) = {host} \X Content(S)
        /\ \A i, j \in DOMAIN q : i < j => q[i][2] < q[j][2]}

\* Mutant: the rows read are not claimed.
SettledUnclaimed(S) ==
    [s \in Seqs |-> IF s \in S THEN [row[s] EXCEPT !.at = "consumed"] ELSE row[s]]

\* The rows after a read: what was waiting is claimed, what is in S acknowledged.
Settled(S) ==
    [s \in Seqs |->
        IF s \in S THEN [row[s] EXCEPT !.at = "consumed"]
        ELSE IF s \in Waiting THEN [row[s] EXCEPT !.at = "processing"]
        ELSE row[s]]

\* The cancels after the requester gives up on the current host.
GiveUp == [cancel EXCEPT ![host] = "sent"]

\* An error row fails the whole stream.  The settling of rows is chained behind
\* the thrown error and so never runs: what was claimed stays claimed.
ReadError ==
    /\ Live /\ err = "pending"
    /\ err' = "processing"
    /\ row' = Settled({})
    /\ st' = "failed" /\ host' = N + 1
    /\ cancel' = GiveUp
    /\ UNCHANGED <<fold, out, timedOut, seq, exec, answered, skipped, faults>>

\* A poll or an arrival: the reducer claims the waiting rows, folds them, the
\* chunks are emitted and then their rows acknowledged.
Tick ==
    /\ Live /\ err # "pending"
    /\ Waiting # {} \/ fold.buf # {} \/ fold.ended
    /\ \E c \in {Cycle(fold.buf \cup Waiting, EndSeen)} : \E q \in Chunks(c.take) :
        /\ skipped' = skipped \cup {<<host, s>> : s \in c.jumped}
        /\ \/ /\ c.done
              /\ answered' = answered \cup {host}
              /\ Advance(out \o q, timedOut, exec, cancel)
           \/ /\ ~c.done
              /\ fold' = [next |-> c.next, buf |-> c.buf, gap |-> c.gap, end |-> c.end,
                          ended |-> c.ended]
              /\ row' = Settled(c.take \cup c.late)
              /\ out' = out \o q
              /\ UNCHANGED <<host, st, timedOut, err, seq, exec, cancel, answered, faults>>

\* Mutant: only the first chunk has a deadline.
TimeoutFirstOnly ==
    /\ Live /\ \A e \in ToSet(out) : e[1] # host
    /\ Advance(out, TRUE, exec, GiveUp)
    /\ UNCHANGED <<answered, skipped>>

\* The deadline for the first chunk, or the limit between two signs of life:
\* the host is cancelled and the next one asked, whatever was emitted before.
Timeout ==
    /\ Live
    /\ Advance(out, TRUE, exec, GiveUp)
    /\ UNCHANGED <<answered, skipped>>

\* The loop is aborted: the current host is cancelled.  concatMap still asks
\* every host that is left, and each is cancelled at once.
Abort ==
    /\ Live
    /\ st' = Finished(out, timedOut) /\ host' = N + 1
    /\ exec' = [h \in Hosts |-> IF h > host THEN "asked" ELSE exec[h]]
    /\ cancel' = [h \in Hosts |-> IF h >= host THEN "sent" ELSE cancel[h]]
    /\ NewStream
    /\ UNCHANGED <<out, timedOut, answered, skipped, faults>>

---------------------------------------------------------------------------
(* The executor of a host *)

\* The request is dropped: its deadline has passed, or a cancel came first.
Drop(h) ==
    /\ exec[h] = "asked"
    /\ exec' = [exec EXCEPT ![h] = "dropped"]
    /\ UNCHANGED <<askVars, rowVars, cancel, faults>>

\* Mutant: a cancel that came first is not looked up.
StartAnyway(h) ==
    /\ exec[h] = "asked"
    /\ exec' = [exec EXCEPT ![h] = "running"]
    /\ UNCHANGED <<askVars, rowVars, cancel, faults>>

\* The request is taken from the host's work table and the model call starts.
Start(h) ==
    /\ exec[h] = "asked" /\ cancel[h] # "taken"
    /\ exec' = [exec EXCEPT ![h] = "running"]
    /\ UNCHANGED <<askVars, rowVars, cancel, faults>>

\* The host cannot serve the model, or the context does not resolve.
Refuse(h) ==
    /\ exec[h] = "asked" /\ cancel[h] # "taken"
    /\ exec' = [exec EXCEPT ![h] = "finished"]
    /\ err' = IF Read(h) THEN "sent" ELSE err
    /\ UNCHANGED <<askVars, row, seq, cancel, faults>>

Sent(h, kind) ==
    IF Read(h)
    THEN /\ row' = [row EXCEPT ![seq] = [kind |-> kind, at |-> "sent"]]
         /\ seq' = seq + 1
    ELSE UNCHANGED <<row, seq>>

\* A flush of the chunk buffer, or the heartbeat timer.  A call that goes on past
\* the bound is one that stays running: its heartbeats are not numbered any more,
\* but keep the requester waiting (Progress).
Flush(h) ==
    /\ exec[h] = "running" /\ Read(h) /\ seq < MaxSeq
    /\ \E kind \in {"chunk", "beat"} : Sent(h, kind)
    /\ UNCHANGED <<askVars, err, exec, cancel, faults>>

\* The model has answered: the rest of the buffer, if any, goes out as the end.
Finish(h) ==
    /\ exec[h] = "running" /\ \E kind \in Ends : Sent(h, kind)
    /\ exec' = [exec EXCEPT ![h] = "finished"]
    /\ UNCHANGED <<askVars, err, cancel, faults>>

\* The model call failed, or its loop has noticed the abort.
Fail(h) ==
    /\ exec[h] \in {"running", "aborting"}
    /\ exec' = [exec EXCEPT ![h] = "finished"]
    /\ err' = IF Read(h) THEN "sent" ELSE err
    /\ UNCHANGED <<askVars, row, seq, cancel, faults>>

\* A cancel aborts a running call; before the request it is remembered
\* (pendingCancels), and after the end it does nothing.
TakeCancel(h) ==
    /\ cancel[h] = "sent"
    /\ cancel' = [cancel EXCEPT ![h] = "taken"]
    /\ exec' = [exec EXCEPT ![h] = IF @ = "running" THEN "aborting" ELSE @]
    /\ UNCHANGED <<askVars, rowVars, faults>>

\* The host crashes and comes back.  A running call is gone, and its request
\* was acknowledged when the call was launched.  A request not taken yet is a row
\* of the work table and still there; a cancel remembered for it was acknowledged
\* and is forgotten.
Die(h) ==
    /\ Fault
    /\ \/ /\ exec[h] \in {"running", "aborting"}
          /\ exec' = [exec EXCEPT ![h] = "dead"]
          /\ UNCHANGED cancel
       \/ /\ exec[h] = "asked" /\ cancel[h] = "taken"
          /\ cancel' = [cancel EXCEPT ![h] = "lost"]
          /\ UNCHANGED exec
    /\ UNCHANGED <<askVars, rowVars>>

---------------------------------------------------------------------------
(* The spool between the hosts *)

Arrive ==
    /\ Live
    /\ \/ \E s \in Seqs :
            /\ row[s].at = "sent"
            /\ row' = [row EXCEPT ![s].at = "pending"]
            /\ UNCHANGED err
       \/ /\ err = "sent"
          /\ err' = "pending"
          /\ UNCHANGED row
    /\ UNCHANGED <<askVars, exec, seq, cancel, faults>>

Lose ==
    /\ Live /\ Fault
    /\ \/ \E s \in Seqs :
            /\ row[s].at = "sent"
            /\ row' = [row EXCEPT ![s].at = "lost"]
            /\ UNCHANGED <<err, cancel>>
       \/ /\ err = "sent"
          /\ err' = "lost"
          /\ UNCHANGED <<row, cancel>>
       \/ \E h \in Hosts :
            /\ cancel[h] = "sent"
            /\ cancel' = [cancel EXCEPT ![h] = "lost"]
            /\ UNCHANGED <<row, err>>
    /\ UNCHANGED <<askVars, exec, seq>>

Next ==
    \/ Open \/ ReadError \/ Tick \/ Timeout \/ Abort
    \/ \E h \in Hosts :
        Drop(h) \/ Start(h) \/ Refuse(h) \/ Flush(h) \/ Finish(h) \/ Fail(h)
        \/ TakeCancel(h) \/ Die(h)
    \/ Arrive \/ Lose

\* Nothing of the current host's stream is on its way or being made.
Silent ==
    /\ exec[host] \in {"dropped", "finished", "dead"}
    /\ err \notin {"sent", "pending"}
    /\ \A s \in Seqs : row[s].at \notin {"sent", "pending"}

\* No chunk of the current host was handed on: the first-token deadline runs.
FirstAwaited == \A e \in ToSet(out) : e[1] # host

\* What the requester and the spool do of themselves: the poll interval ticks,
\* rows that are not lost arrive, a silent host runs into the timeout between
\* rows, and one that only sends heartbeats into the deadline for its first
\* chunk.  Heartbeats reset the former, so that after the first chunk nothing
\* makes the requester give up a running call.
Progress == ReadError \/ Tick \/ Arrive \/ (Live /\ (Silent \/ FirstAwaited) /\ Timeout)

\* A host takes its request and its cancel up, and an aborted call stops.  The
\* executor has no timeout of its own: a model call that runs may hang.
Executes ==
    \E h \in Hosts :
        \/ Drop(h) \/ Start(h) \/ Refuse(h) \/ TakeCancel(h)
        \/ exec[h] = "aborting" /\ Fail(h)

Fairness == WF_vars(Progress) /\ WF_vars(Executes)

Spec == Init /\ [][Next]_vars

FairSpec == Spec /\ Fairness

---------------------------------------------------------------------------
(* Properties *)

\* Every variable stays in its domain; what is buffered is claimed, and the
\* fold is about a host that was asked.
TypeOK ==
    /\ host \in 0..(N + 1) /\ st \in {"idle", "live", "completed", "failed"}
    /\ Live <=> host \in Hosts
    /\ Live => exec[host] # "none" /\ \A s \in fold.buf : row[s].at = "processing"
    /\ fold.next \in 0..(MaxSeq + 1) /\ fold.gap \in 0..(MaxGap - 1) /\ fold.end \in -1..MaxSeq
    /\ seq \in 0..(MaxSeq + 1)
    /\ row \in [Seqs -> [kind : {"none", "chunk", "beat", "end", "bare"},
                        at : {"absent", "sent", "pending", "processing", "consumed", "lost"}]]
    /\ err \in {"absent", "sent", "pending", "processing", "lost"}
    /\ cancel \in [Hosts -> {"none", "sent", "taken", "lost"}]
    /\ exec \in [Hosts -> {"none", "asked", "running", "aborting", "dropped", "finished", "dead"}]

\* The chunks of numbers S of the current host were delivered, or given up.
Accounted(S, o, k) ==
    \A s \in S : row[s].kind \in Empty \/ <<host, s>> \in ToSet(o) \cup k

\* A row is acknowledged only once its chunks were delivered or given up as
\* late: createStreamReducer claims, delivers and then acknowledges.
AckedWasDelivered == Live => Accounted({s \in Seqs : row[s].at = "consumed"}, out, skipped)

\* A stream counts as answered only when every chunk its executor sent before
\* the end was delivered, but for the ones the gap rule skipped, and the gap
\* rule never skips a number whose row has arrived (createStreamReducer).
AnswersWhole ==
    [][/\ answered' # answered => Accounted(0..(seq - 1), out', skipped')
       /\ \A p \in skipped' \ skipped : row'[p[2]].at \in {"sent", "lost"}]_vars

Abstract ==
    INSTANCE OrderedStream WITH
        host <- IF host > N THEN N ELSE host,
        over <- st \in {"completed", "failed"}

\* The stream handed to the agent loop is an ordered one: a host's chunks in
\* the order of their numbers and none twice, hosts in turn, nothing after the
\* end (createRelayStream$ behind any transport).
DeliversInOrder == Abstract!Spec

\* The model call being read hangs on a host that is up, with a chunk delivered.
Hung == Live /\ exec[host] = "running" /\ ~FirstAwaited

\* Every relayed call comes to an end, with an answer, an error or a timeout,
\* through lost rows, gaps, crashed and silent hosts and hosts that never send a
\* first chunk; the one exception is a call that hangs later with its heartbeat
\* going on (the two timeouts of createRelayStream$).
StreamEnds == []<>~Live \/ <>[]Hung

\* A host that works for a stream nobody reads any more stops, also when the
\* cancel overtook the request: every way to leave a host sends one, and the host
\* remembers it (the finalize of createRelayStream$, pendingCancels in
\* relay-processor.ts).  The exceptions are a cancel lost on its way and one
\* forgotten in a crash of the host, since pendingCancels is in memory only and
\* the cancel's row was acknowledged; the request then runs.
AbandonedStops ==
    \A h \in Hosts :
        LET Working == exec[h] \in {"asked", "running", "aborting"} /\ ~Read(h)
        IN  Working ~> ~Working \/ cancel[h] = "lost"
=============================================================================
