---------------------------- MODULE AgentLoop -----------------------------
(***************************************************************************)
(* One run of the agent loop: ModularAgentLoop (packages/loop) with the    *)
(* hooks of BoundAgentLoop (packages/agent).  A turn calls the model, and  *)
(* its answer either ends the run or asks for tools, whose results go into *)
(* the frame of the next turn.  A user may cancel the run and a queued     *)
(* message may ask it to yield at any moment; model calls fail, fall       *)
(* silent, are rate limited or come back with nothing; and a model that    *)
(* repeats itself is stopped by the circuit breakers of loop-guards.ts,    *)
(* there being no cap on the number of turns.                              *)
(***************************************************************************)
EXTENDS Integers, FiniteSets

CONSTANTS
    Backends,       \* the local backends, all of one tier
    Default,        \* the router's default backend
    Sigs,           \* the signatures a round of tool calls may have
    Names,          \* the names of tools
    MaxTransient,   \* maxTransientRetries
    MaxSilence,     \* MAX_SILENCE_RETRIES
    MaxDegenerate,  \* degenerateRetryMax
    MaxTruncated,   \* MAX_CONSECUTIVE_TRUNCATED_TURNS
    MaxDuplicate,   \* MAX_CONSECUTIVE_DUPLICATE_TOOL_CALLS
    MaxError,       \* MAX_CONSECUTIVE_ERROR_TOOL_CALLS
    NudgeAt,        \* ERROR_SIGNATURE_NUDGE_AT
    MaxRouting      \* MAX_CONSECUTIVE_ROUTING_ERROR_TOOL_CALLS

ASSUME Thresholds ==
    /\ Default \in Backends
    /\ {MaxTransient, MaxSilence, MaxDegenerate} \subseteq Nat
    /\ {MaxTruncated, MaxDuplicate, MaxError, NudgeAt, MaxRouting} \subseteq Nat \ {0}
    /\ NudgeAt < MaxError

VARIABLES
    pc,          \* where the run is
    aborted,     \* this.aborted
    yielded,     \* this.yielded
    queued,      \* config.shouldYield(): a message waits for this thread
    local,       \* config.connectionId: the thread's client is connected here
    last,        \* lastModelResolution: the backend asked
    limited,     \* the backends the router holds for rate limited
    attempt,     \* silence retries of the current model call, 0 outside one
    transport,   \* transportRetries
    degenerate,  \* degenerateRetries
    trunc,       \* the chain of turns with a truncated call
    dup,         \* the chain of turns with identical calls
    err,         \* the chains of rounds with the identical error, and with the identical
                 \* routing error, and errorNudgeInjected
    round,       \* the tool calls of the turn: some run here, some on a client
    result,      \* the AgentLoopResult
    recorded,    \* history: the status of the last turn row
    owed,        \* history: what ran here, on a client of this host or on a remote one,
                 \* or was never sent, and has no result in the thread
    nudges       \* history: the nudges of the current error chain

retryVars == <<last, limited, transport, degenerate>>
chainVars == <<trunc, dup, err, nudges>>
stopVars == <<aborted, yielded, queued, local>>
vars == <<pc, stopVars, retryVars, chainVars, attempt, round, result, recorded, owed>>

Done == pc = "done"

\* No chain: nothing to compare the next turn with.
NoChain == [n |-> 0, sig |-> "none"]

\* A chain after a turn with signature sig; "none" breaks it.
Chain(c, sig) ==
    IF sig = "none" THEN NoChain
    ELSE [n |-> IF c.sig = sig THEN c.n + 1 ELSE 1, sig |-> sig]

NoRound == [server |-> FALSE, client |-> FALSE]

Rounds == [server : BOOLEAN, client : BOOLEAN] \ {NoRound}

\* What the calls run here returned: "ok" if one of them succeeded, else the
\* signature of the errors, "route" for one that names the right tool.
Results == {"ok", "err", "route"}

\* The run is over with outcome o.
End(o, error) == pc' = "done" /\ result' = [outcome |-> o, error |-> error]

Going == UNCHANGED result

Init ==
    /\ pc = "idle"
    /\ aborted \in BOOLEAN /\ yielded = FALSE /\ queued = FALSE /\ local \in BOOLEAN
    /\ last = "none" /\ limited = {}
    /\ attempt = 0 /\ transport = 0 /\ degenerate = 0
    /\ trunc = NoChain /\ dup = NoChain /\ nudges = 0
    /\ err = [same |-> NoChain, routing |-> NoChain, nudged |-> FALSE]
    /\ round = NoRound
    /\ result = [outcome |-> "none", error |-> FALSE]
    /\ recorded = "none" /\ owed = {}

---------------------------------------------------------------------------
(* Turns and model calls *)

\* The model is resolved, here or at another host, or the run fails.
Resolve ==
    /\ pc = "idle"
    /\ \/ /\ End("model-resolution-failed", TRUE)
          /\ UNCHANGED last
       \/ /\ pc' = "turn" /\ Going
          /\ last' \in {Default, "remote"}
    /\ UNCHANGED <<stopVars, limited, transport, degenerate, chainVars, attempt, round,
                   recorded, owed>>

\* Mutant: a turn does not look at the abort flag.
TurnUnchecked ==
    /\ pc = "turn"
    /\ \/ /\ queued
          /\ End("yielded", FALSE)
          /\ UNCHANGED recorded
       \/ /\ ~queued
          /\ pc' = "stream"
          /\ Going /\ UNCHANGED recorded
    /\ UNCHANGED <<stopVars, retryVars, chainVars, attempt, round, owed>>

\* A turn begins: an abort is recorded, a queued message ends the run, and
\* otherwise the model is called.
Turn ==
    /\ pc = "turn"
    /\ \/ /\ aborted
          /\ recorded' = "aborted"
          /\ End(IF queued THEN "yielded" ELSE "aborted", FALSE)
       \/ /\ ~aborted /\ queued
          /\ End("yielded", FALSE)
          /\ UNCHANGED recorded
       \/ /\ ~aborted /\ ~queued
          /\ pc' = "stream"
          /\ Going /\ UNCHANGED recorded
    /\ UNCHANGED <<stopVars, retryVars, chainVars, attempt, round, owed>>

\* A model call is open.  One that a silence retry opened after the run was
\* asked to stop is doomed: it breaks off at its first chunk.
Calling == pc \in {"stream", "doomed"}

\* The status of a turn that failed.
Failure == IF aborted THEN "aborted" ELSE "error"

\* A silence timeout is retried within the call, whether or not the run has
\* been asked to stop.
Silence ==
    /\ Calling /\ last # "remote" /\ attempt < MaxSilence
    /\ attempt' = attempt + 1
    /\ pc' = IF aborted \/ queued THEN "doomed" ELSE "stream"
    /\ UNCHANGED <<stopVars, retryVars, chainVars, round, result, recorded, owed>>

\* What may go wrong with a call: a transport or server fault, a 529, a 429, a
\* 402 or a message about a quota, and everything else, the last silence too.
Faults == {"transient", "overloaded", "limited", "quota", "fatal"}

Transient(fault) == fault \in {"transient", "overloaded"}

\* Mutant: one retry too many.
RetryOneMore(fault) ==
    /\ Calling /\ Transient(fault) /\ transport <= MaxTransient
    /\ transport' = transport + 1
    /\ pc' = "turn" /\ Going
    /\ attempt' = 0
    /\ UNCHANGED <<stopVars, last, limited, degenerate, chainVars, round, recorded, owed>>

\* handleModelError retries a transient fault a bounded number of times a run.
Retry(fault) ==
    /\ Calling /\ Transient(fault) /\ transport < MaxTransient
    /\ transport' = transport + 1
    /\ pc' = "turn" /\ Going
    /\ attempt' = 0
    /\ UNCHANGED <<stopVars, last, limited, degenerate, chainVars, round, recorded, owed>>

\* A call was refused for a rate limit and its retries are used up.
Limited(fault) ==
    /\ Calling
    /\ fault \in {"overloaded", "limited", "quota"}
    /\ Transient(fault) => transport = MaxTransient

\* Another backend of the failed one's tier that is not limited.
SameTier == Backends \ (limited \cup {last})

\* onRateLimitError: the backend is marked and the call goes to one of its
\* tier, to a remote host of the tier if there is one, and else for a 429 or a
\* 529 to what resolveModel(undefined) gives, which is the default backend,
\* limited or not.  The transport retries start again.
FallBack(fault) ==
    /\ Limited(fault) /\ last # "remote"
    /\ limited' = limited \cup {last}
    /\ \/ last' \in SameTier
       \/ SameTier = {} /\ last' = "remote"
       \/ SameTier = {} /\ fault # "quota" /\ last' = Default
    /\ transport' = 0
    /\ pc' = "turn" /\ Going
    /\ attempt' = 0
    /\ UNCHANGED <<stopVars, degenerate, chainVars, round, recorded, owed>>

\* onModelErrorTerminal: the turn is recorded and the run ends with an error.
Fail(fault) ==
    /\ Calling
    /\ Transient(fault) => transport = MaxTransient
    /\ Limited(fault) => last = "remote" \/ SameTier = {}
    /\ limited' = IF Limited(fault) THEN limited \cup ({last} \cap Backends) ELSE limited
    /\ recorded' = Failure
    /\ End("completed", TRUE)
    /\ attempt' = 0
    /\ UNCHANGED <<stopVars, last, transport, degenerate, chainVars, round, owed>>

\* A rate limit runs out.
LimitLifts ==
    /\ ~Done
    /\ \E b \in limited : limited' = limited \ {b}
    /\ UNCHANGED <<pc, stopVars, last, transport, degenerate, chainVars, attempt, round,
                   result, recorded, owed>>

---------------------------------------------------------------------------
(* The answer *)

\* Mutant: the turn's status allows one retry more than the retry does.
TerminalLater == degenerate > MaxDegenerate

\* isTerminalDegenerateTurn, of a turn with thoughts alone.
Terminal == degenerate >= MaxDegenerate

\* The status recordParsedTurn gives; thoughts is for a degenerate turn.
Status(ab, thoughts) ==
    IF ab THEN "aborted" ELSE IF thoughts /\ Terminal THEN "error" ELSE "success"

\* checkDegenerateRetry: the model is told and asked again, or the run ends.
Degenerate ==
    \/ /\ degenerate >= MaxDegenerate
       /\ End("completed", TRUE)
       /\ UNCHANGED degenerate
    \/ /\ degenerate < MaxDegenerate
       /\ degenerate' = degenerate + 1
       /\ pc' = "turn" /\ Going

\* The abort flag or the queued message is seen on a chunk: what came before is
\* recorded as aborted, and the decision for a degenerate turn goes before the
\* one to stop or to yield.
Cut ==
    /\ Calling /\ (aborted \/ queued)
    /\ yielded' = (yielded \/ ~aborted)
    /\ aborted' = TRUE
    /\ recorded' = Status(TRUE, FALSE)
    /\ \/ Degenerate
       \/ /\ End(IF yielded' THEN "yielded" ELSE "completed", FALSE)
          /\ UNCHANGED degenerate
    /\ attempt' = 0
    /\ UNCHANGED <<queued, local, last, limited, transport, chainVars, round, owed>>

\* The model ends its answer with thoughts alone.
Think ==
    /\ pc = "stream"
    /\ recorded' = Status(aborted, TRUE)
    /\ Degenerate
    /\ attempt' = 0
    /\ UNCHANGED <<stopVars, last, limited, transport, chainVars, round, owed>>

\* handleFinalResponse: a text, or nothing at all.
Answer ==
    /\ pc = "stream"
    /\ recorded' = Status(aborted, FALSE)
    /\ End("completed", FALSE)
    /\ attempt' = 0
    /\ UNCHANGED <<stopVars, retryVars, chainVars, round, owed>>

\* Mutant: identical calls are counted only while they are truncated.
PreGuardsTruncatedOnly(r, sig, name) ==
    /\ trunc' = Chain(trunc, name)
    /\ \/ /\ trunc'.n >= MaxTruncated
          /\ End("guard:truncated", TRUE) /\ UNCHANGED <<dup, round>>
       \/ /\ trunc'.n < MaxTruncated
          /\ dup' = Chain(dup, IF name = "none" THEN "none" ELSE sig)
          /\ \/ dup'.n >= MaxDuplicate /\ End("guard:duplicate", TRUE) /\ UNCHANGED round
             \/ dup'.n < MaxDuplicate /\ pc' = "tools" /\ round' = r /\ Going

\* runPreExecutionGuards, for calls r with signature sig, the first truncated
\* one of which has this name.
PreGuards(r, sig, name) ==
    /\ trunc' = Chain(trunc, name)
    /\ \/ /\ trunc'.n >= MaxTruncated
          /\ End("guard:truncated", TRUE) /\ UNCHANGED <<dup, round>>
       \/ /\ trunc'.n < MaxTruncated
          /\ dup' = Chain(dup, sig)
          /\ \/ dup'.n >= MaxDuplicate /\ End("guard:duplicate", TRUE) /\ UNCHANGED round
             \/ dup'.n < MaxDuplicate /\ pc' = "tools" /\ round' = r /\ Going

\* The model asks for tools.  A truncated call is answered here with an error.
AskTools ==
    /\ pc = "stream"
    /\ recorded' = Status(aborted, FALSE)
    /\ \E r \in Rounds, sig \in Sigs, name \in Names \cup {"none"} :
        /\ name # "none" => r.server
        /\ PreGuards(r, sig, name)
    /\ attempt' = 0
    /\ UNCHANGED <<stopVars, retryVars, err, nudges, owed>>

---------------------------------------------------------------------------
(* A round of tools *)

\* The signature toolErrorSignature gives a round that returned res.
ErrorOf(res) == IF round.server /\ res # "ok" THEN res ELSE "none"

\* Mutant: a new chain keeps the flag of the nudge.
ErrorsKeepNudge(res) ==
    [same |-> Chain(err.same, ErrorOf(res)),
     routing |-> Chain(err.routing, IF res = "route" THEN ErrorOf(res) ELSE "none"),
     nudged |-> err.nudged]

\* recordToolErrorSignatures: both chains; a new error chain may be nudged again.
Errors(res) ==
    [same |-> Chain(err.same, ErrorOf(res)),
     routing |-> Chain(err.routing, IF res = "route" THEN ErrorOf(res) ELSE "none"),
     nudged |-> err.nudged /\ ErrorOf(res) # "none" /\ ErrorOf(res) = err.same.sig]

\* The nudges given in the chain that e goes on with.
NudgesIn(e) == IF e.same.n > 1 THEN nudges ELSE 0

\* runPostExecutionGuards over the error chains.
PostGuards ==
    \/ /\ err.routing.n >= MaxRouting
       /\ End("guard:routing-error", TRUE)
       /\ UNCHANGED <<err, nudges>>
    \/ /\ err.routing.n < MaxRouting /\ err.same.n >= MaxError
       /\ End("guard:identical-error", TRUE)
       /\ UNCHANGED <<err, nudges>>
    \/ /\ err.routing.n < MaxRouting /\ err.same.n < MaxError
       /\ pc' = "turn" /\ Going
       /\ \E nudge \in {~err.nudged /\ err.same.n >= NudgeAt} :
            /\ err' = [err EXCEPT !.nudged = @ \/ nudge]
            /\ nudges' = IF nudge THEN nudges + 1 ELSE nudges

\* The end of afterToolPersistence: a queued message makes the run yield, and
\* otherwise the guards look at the errors.
Continue ==
    /\ round' = NoRound
    /\ \/ /\ queued
          /\ yielded' = TRUE
          /\ End("yielded", FALSE)
          /\ UNCHANGED <<err, nudges>>
       \/ /\ ~queued
          /\ PostGuards
          /\ UNCHANGED yielded

\* What a step of a round leaves alone.
Outside == UNCHANGED <<aborted, queued, local, retryVars, trunc, dup, attempt>>

\* The debt of a round whose calls have run here.
Ran == IF round.server THEN {"server"} ELSE {}

\* Mutant: the run yields to a queued message once the tools have run.
ExecuteYields(res) ==
    /\ pc = "tools"
    /\ err' = Errors(res) /\ nudges' = NudgesIn(Errors(res))
    /\ owed' = owed \cup Ran
    /\ \/ queued /\ yielded' = TRUE /\ End("yielded", FALSE)
       \/ ~queued /\ pc' = "ran" /\ Going /\ UNCHANGED yielded
    /\ Outside /\ UNCHANGED <<round, recorded>>

\* executeToolRoundTrip runs the calls of the round that are to run here, one
\* after the other and whether or not the run was asked to stop meanwhile; the
\* error chains are brought up to date and large results put aside.
Execute(res) ==
    /\ pc = "tools"
    /\ err' = Errors(res) /\ nudges' = NudgesIn(Errors(res))
    /\ owed' = owed \cup Ran
    /\ pc' = "ran" /\ Going
    /\ Outside /\ UNCHANGED <<yielded, round, recorded>>

\* persistToolMessages writes the calls and the results there are.
Persist ==
    /\ pc = "ran"
    /\ owed' = owed \ {"server"}
    /\ pc' = "kept" /\ Going
    /\ Outside /\ UNCHANGED <<yielded, err, nudges, round, recorded>>

\* The final response or the results of a round cannot be written: what throws
\* in a turn ends the run with a row of its own (handleTurnError).
Throw ==
    /\ pc \in {"stream", "ran"}
    /\ recorded' = Failure
    /\ End("model-failed", TRUE)
    /\ attempt' = 0
    /\ UNCHANGED <<stopVars, retryVars, chainVars, round, owed>>

\* afterToolPersistence.  Over its memory limit the sandbox ends the run, before
\* the client's calls go out.  These are queued for a client connected here,
\* which ends the run, refused if no host has the client, or relayed to the host
\* that has it; what the two latter return joins a batch already persisted.
AfterPersistence ==
    /\ pc = "kept"
    /\ \/ /\ End("completed", FALSE)
          /\ owed' = owed \cup (IF round.client THEN {"unsent"} ELSE {})
          /\ UNCHANGED <<yielded, err, nudges, round>>
       \/ /\ ~round.client
          /\ Continue
          /\ UNCHANGED owed
       \/ /\ round.client /\ local
          /\ End("completed", FALSE)
          /\ owed' = owed \cup {"client"}
          /\ UNCHANGED <<yielded, err, nudges, round>>
       \/ /\ round.client /\ ~local
          /\ Continue
          /\ owed' = owed \cup {"remote"}
       \/ /\ round.client /\ ~local
          /\ pc' = "relay" /\ Going
          /\ owed' = owed \cup {"remote"}
          /\ UNCHANGED <<yielded, err, nudges, round>>
    /\ Outside /\ UNCHANGED recorded

\* The relayed calls have returned, timed out or been given up by a cancel.
RelayReturns ==
    /\ pc = "relay"
    /\ Continue
    /\ Outside /\ UNCHANGED <<recorded, owed>>

---------------------------------------------------------------------------
(* The outside *)

\* The run is cancelled; the thread executor's timeout is no such cancel, it
\* lets go of a run that goes on.
Cancel ==
    /\ ~Done /\ ~aborted
    /\ aborted' = TRUE
    /\ UNCHANGED <<pc, yielded, queued, local, retryVars, chainVars, attempt, round, result,
                   recorded, owed>>

\* A message for the thread is queued.
Queue ==
    /\ ~Done /\ ~queued
    /\ queued' = TRUE
    /\ UNCHANGED <<pc, aborted, yielded, local, retryVars, chainVars, attempt, round, result,
                   recorded, owed>>

\* What the loop does by itself.
Run ==
    \/ Resolve \/ Turn \/ Silence
    \/ \E fault \in Faults : Retry(fault) \/ FallBack(fault) \/ Fail(fault)
    \/ Cut \/ Think \/ Answer \/ AskTools
    \/ \E res \in Results : Execute(res)
    \/ Persist \/ Throw \/ AfterPersistence \/ RelayReturns

Next == Run \/ LimitLifts \/ Cancel \/ Queue

Spec == Init /\ [][Next]_vars

\* Every call of the model ends, by an answer, a fault or the silence timeout,
\* and every tool returns: the loop goes on until its run is over.  A remote call
\* that hangs with its heartbeat going on (RelayStream) does not end so; a cancel
\* ends it, a queued message does not.
FairSpec == Spec /\ WF_vars(Run)

---------------------------------------------------------------------------
(* Properties *)

Chains(S, max) == {NoChain} \cup [n : 1..max, sig : S]

\* Every variable stays in its domain, and no counter passes its limit.
TypeOK ==
    /\ pc \in {"idle", "turn", "stream", "doomed", "tools", "ran", "kept", "relay", "done"}
    /\ {aborted, yielded, queued, local} \subseteq BOOLEAN
    /\ last \in Backends \cup {"remote", "none"} /\ limited \subseteq Backends
    /\ attempt \in 0..MaxSilence /\ transport \in 0..MaxTransient
    /\ degenerate \in 0..MaxDegenerate
    /\ trunc \in Chains(Names, MaxTruncated) /\ dup \in Chains(Sigs, MaxDuplicate)
    /\ err.same \in Chains(Results, MaxError) /\ err.routing \in Chains({"route"}, MaxRouting)
    /\ pc \in {"tools", "ran", "kept", "relay"} => round \in Rounds
    /\ Done <=> result.outcome # "none"

\* The model is about to be asked, or is being asked.
Asking == pc = "turn" \/ Calling

\* A call that ran here has its result in the thread when the model is asked
\* again and when the run ends, also if a cancel, a queued message or a guard
\* ends it while tools run, unless writing the result failed, and then the run
\* does not go on; nor does it go on past calls left to a client connected here
\* (beforeToolRoundTrip: "Finish execution and persist every tool result first").
ToolResultsKept ==
    /\ "server" \in owed /\ Done => result.outcome = "model-failed"
    /\ Asking => owed \subseteq {"remote"}

\* The turn rows tell how the run went: a run that ends with an error other
\* than a guard's or a failed resolution, which has no turn, has a last row
\* "error" (or "aborted"), and a row "error" is never followed by a turn that
\* recovers (recordParsedTurn and isTerminalDegenerateTurn against
\* checkDegenerateRetry, handleTurnError).
StatusTruthful ==
    /\ Done /\ result.error /\ result.outcome \in {"completed", "model-failed"}
        => recorded \in {"error", "aborted"}
    /\ recorded = "error" => Done /\ result.error

\* The identical-error guard aborts a run only after one corrective nudge in
\* the same chain of errors, and no chain is nudged twice.
NudgedOnce ==
    /\ nudges <= 1
    /\ result.outcome = "guard:identical-error" => nudges = 1

\* A run that is cancelled, or that a queued message asks to yield, comes to
\* an end, whatever the model and the providers go on doing.
StopsWhenAsked == (aborted \/ queued) ~> Done

\* Retries are bounded and repetition is broken off: a run that never ends
\* goes on falling back between rate-limited backends, or goes on varying its
\* calls, truncating different tools or none, and getting something other than
\* the same error.
RunawayEnds ==
    \/ <>Done
    \/ []<><<\E fault \in Faults : FallBack(fault)>>_vars
    \/ /\ []<><<pc' = "tools" /\ dup'.n = 1>>_vars
       /\ []<><<pc' = "tools" /\ trunc'.n <= 1>>_vars
       /\ []<><<pc = "tools" /\ err'.same.n <= 1>>_vars
=============================================================================
