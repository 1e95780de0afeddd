-------------------------- MODULE AgentLoopProofs --------------------------
(***************************************************************************)
(* Theorems about a run of the agent loop, for every set of backends, tools *)
(* and signatures and every value of the retry limits and the breakers'     *)
(* thresholds.                                                              *)
(***************************************************************************)
EXTENDS AgentLoop, TLAPS

---------------------------------------------------------------------------
(* The inductive invariant *)

Outcomes == {"none", "completed", "aborted", "yielded", "model-resolution-failed", "model-failed",
             "guard:truncated", "guard:duplicate", "guard:routing-error",
             "guard:identical-error"}

\* The round has run and the guards have not looked at its errors yet.
Unjudged == pc \in {"ran", "kept", "relay"}

\* A chain that did not end the run is below its threshold.
ChainsOpen ==
    ~Done => /\ trunc.n < MaxTruncated /\ dup.n < MaxDuplicate
             /\ ~Unjudged => err.same.n < MaxError /\ err.routing.n < MaxRouting

\* What TypeOK leaves open: the shape of the records, and that a model was
\* resolved before it is called.
Shapes ==
    /\ err \in [same : Chains(Results, MaxError), routing : Chains({"route"}, MaxRouting),
                nudged : BOOLEAN]
    /\ result \in [outcome : Outcomes, error : BOOLEAN]
    /\ pc \notin {"idle", "done"} => last \in Backends \cup {"remote"}

LoopInv == TypeOK /\ Shapes /\ ChainsOpen

\* The flag of the nudge counts the nudges of the chain, and between two rounds
\* it tells whether the chain has reached NudgeAt; from the execution of a round
\* to the guards the decision about it is open.
NudgeInv ==
    /\ nudges = (IF err.nudged THEN 1 ELSE 0)
    /\ pc \in {"idle", "turn", "stream", "doomed", "tools"} =>
           (err.nudged <=> err.same.n >= NudgeAt)
    /\ Unjudged => /\ err.same.n > NudgeAt => err.nudged
                   /\ err.nudged => err.same.n >= NudgeAt
    /\ result.outcome = "guard:identical-error" => err.nudged

---------------------------------------------------------------------------
(* Chains *)

\* A chain below its threshold is still a chain after one more turn.
LEMMA ChainStep ==
    ASSUME NEW S, NEW max \in Nat \ {0}, NEW c \in Chains(S, max), NEW sig \in S \cup {"none"},
           c.n < max
    PROVE  /\ Chain(c, sig) \in Chains(S, max)
           /\ c.n \in Nat
<1>1. c = NoChain \/ c \in [n : 1..max, sig : S]
  BY DEF Chains
<1>2. c.n \in Nat /\ c.n + 1 \in 1..max
  BY <1>1 DEF NoChain
<1>3. CASE sig = "none"
  BY <1>2, <1>3 DEF Chain, Chains
<1>4. CASE sig # "none"
  BY <1>2, <1>4 DEF Chain, Chains
<1> QED BY <1>2, <1>3, <1>4

\* The length of a chain is a number up to its threshold.
LEMMA ChainLength ==
    ASSUME NEW S, NEW max \in Nat, NEW c \in Chains(S, max)
    PROVE  c.n \in 0..max /\ (c.n = 0 => c = NoChain)
BY DEF Chains, NoChain

\* The records the two error chains form after a round.
LEMMA ErrorShape ==
    ASSUME LoopInv, pc = "tools", NEW res \in Results
    PROVE  /\ Errors(res) \in [same : Chains(Results, MaxError),
                               routing : Chains({"route"}, MaxRouting), nudged : BOOLEAN]
           /\ Errors(res).same = Chain(err.same, ErrorOf(res))
<1>1. ErrorOf(res) \in Results \cup {"none"}
  BY DEF ErrorOf
<1>2. MaxError \in Nat \ {0} /\ MaxRouting \in Nat \ {0}
  BY Thresholds
<1>3. /\ err.same \in Chains(Results, MaxError) /\ err.same.n < MaxError
      /\ err.routing \in Chains({"route"}, MaxRouting) /\ err.routing.n < MaxRouting
  BY DEF LoopInv, Shapes, ChainsOpen, Unjudged, Done
<1>4. Chain(err.same, ErrorOf(res)) \in Chains(Results, MaxError)
  BY <1>1, <1>2, <1>3, ChainStep
<1> DEFINE route == IF res = "route" THEN ErrorOf(res) ELSE "none"
<1>5. route \in {"route"} \cup {"none"}
  BY DEF ErrorOf
<1>6. Chain(err.routing, route) \in Chains({"route"}, MaxRouting)
  <2> HIDE DEF route
  <2> QED BY <1>2, <1>3, <1>5, ChainStep
<1>7. (err.nudged /\ ErrorOf(res) # "none" /\ ErrorOf(res) = err.same.sig) \in BOOLEAN
  OBVIOUS
<1> QED BY <1>4, <1>6, <1>7 DEF Errors

---------------------------------------------------------------------------
(* Types *)

\* A run that ends has an outcome.
LEMMA EndShape ==
    ASSUME NEW o \in Outcomes \ {"none"}, NEW b \in BOOLEAN, End(o, b)
    PROVE  /\ pc' = "done" /\ result' \in [outcome : Outcomes, error : BOOLEAN]
           /\ result'.outcome = o /\ result'.error = b /\ result'.outcome # "none"
BY DEF End

\* What is left of the loop's invariant when the chains, the round and the
\* backends stay as they are.
LEMMA KeepsLoop ==
    ASSUME LoopInv, ~Done, UNCHANGED <<trunc, dup, err>>,
           pc' \in {"turn", "stream", "doomed", "done"},
           Unjudged => pc' = "done",
           {aborted', yielded', queued', local'} \subseteq BOOLEAN,
           attempt' \in 0..MaxSilence, transport' \in 0..MaxTransient,
           degenerate' \in 0..MaxDegenerate,
           last' \in Backends \cup {"remote", "none"}, limited' \subseteq Backends,
           pc' # "done" => last' \in Backends \cup {"remote"} /\ result' = result,
           pc' = "done" => result' \in [outcome : Outcomes, error : BOOLEAN]
                           /\ result'.outcome # "none"
    PROVE  LoopInv'
BY DEF LoopInv, TypeOK, Shapes, ChainsOpen, Unjudged, Done

\* The turn's begin, the model's calls, their faults and the answers without
\* tools keep the loop's types.
LEMMA CallLoop ==
    ASSUME LoopInv,
           \/ Resolve \/ Turn \/ Silence \/ Cut \/ Think \/ Answer \/ Throw
           \/ \E fault \in Faults : Retry(fault) \/ FallBack(fault) \/ Fail(fault)
    PROVE  LoopInv'
<1> USE DEF stopVars, retryVars, chainVars
<1>1. /\ aborted \in BOOLEAN /\ yielded \in BOOLEAN /\ queued \in BOOLEAN /\ local \in BOOLEAN
      /\ attempt \in 0..MaxSilence /\ transport \in 0..MaxTransient
      /\ degenerate \in 0..MaxDegenerate
      /\ last \in Backends \cup {"remote", "none"} /\ limited \subseteq Backends
  BY DEF LoopInv, TypeOK
<1>2. /\ MaxSilence \in Nat /\ MaxTransient \in Nat /\ MaxDegenerate \in Nat
      /\ Default \in Backends
      /\ 0 \in 0..MaxSilence /\ 0 \in 0..MaxTransient
  BY Thresholds
<1>3. pc \notin {"idle", "done"} => last \in Backends \cup {"remote"}
  BY DEF LoopInv, Shapes
<1>4. CASE Resolve
  <2>1. CASE End("model-resolution-failed", TRUE) /\ last' = last
    BY <1>4, <2>1, EndShape, <1>1, <1>2, <1>3, KeepsLoop DEF Resolve, Outcomes, Done, Calling, Unjudged
  <2>2. CASE pc' = "turn" /\ result' = result /\ last' \in {Default, "remote"}
    BY <1>4, <2>2, <1>1, <1>2, <1>3, KeepsLoop DEF Resolve, Done, Calling, Unjudged
  <2> QED BY <1>4, <2>1, <2>2 DEF Resolve, Going
<1>5. CASE Turn
  <2>1. CASE pc' = "stream" /\ result' = result
    BY <1>5, <2>1, <1>1, <1>2, <1>3, KeepsLoop DEF Turn, Done, Calling, Unjudged
  <2>2. CASE End("yielded", FALSE) \/ End("aborted", FALSE)
    BY <1>5, <2>2, EndShape, <1>1, <1>2, <1>3, KeepsLoop DEF Turn, Outcomes, Done, Calling, Unjudged
  <2> QED BY <1>5, <2>1, <2>2 DEF Turn, Going
<1>6. CASE Silence
  BY <1>6, <1>1, <1>2, <1>3, KeepsLoop DEF Silence, Done, Calling, Unjudged
<1>7. ASSUME Degenerate PROVE /\ degenerate' \in 0..MaxDegenerate
                              /\ End("completed", TRUE) \/ (pc' = "turn" /\ result' = result)
  <2>1. degenerate' \in 0..MaxDegenerate
    <3>1. degenerate' = degenerate \/ (degenerate < MaxDegenerate /\ degenerate' = degenerate + 1)
      BY <1>7 DEF Degenerate
    <3> QED BY <3>1, <1>1, <1>2
  <2> QED BY <1>7, <2>1 DEF Degenerate, Going
<1>8. CASE Cut
  <2>1. /\ degenerate' \in 0..MaxDegenerate
        /\ \/ pc' = "turn" /\ result' = result
           \/ End("completed", TRUE) \/ End("yielded", FALSE) \/ End("completed", FALSE)
    <3>1. CASE Degenerate
      BY <1>7, <3>1
    <3>2. CASE degenerate' = degenerate /\ End(IF yielded' THEN "yielded" ELSE "completed", FALSE)
      BY <1>1, <3>2
    <3> QED BY <1>8, <3>1, <3>2 DEF Cut
  <2>2. {aborted', yielded', queued', local'} \subseteq BOOLEAN
    BY <1>8, <1>1 DEF Cut
  <2>3. CASE pc' = "turn" /\ result' = result
    BY <1>8, <2>1, <2>2, <2>3, <1>1, <1>2, <1>3, KeepsLoop DEF Cut, Done, Calling, Unjudged
  <2>4. CASE End("completed", TRUE) \/ End("yielded", FALSE) \/ End("completed", FALSE)
    BY <1>8, <2>1, <2>2, <2>4, EndShape, <1>1, <1>2, <1>3, KeepsLoop DEF Cut, Outcomes, Done, Calling, Unjudged
  <2> QED BY <2>1, <2>3, <2>4
<1>9. CASE Think
  <2>1. CASE End("completed", TRUE)
    BY <1>7, <1>9, <2>1, EndShape, <1>1, <1>2, <1>3, KeepsLoop DEF Think, Outcomes, Done, Calling, Unjudged
  <2>2. CASE pc' = "turn" /\ result' = result
    BY <1>7, <1>9, <2>2, <1>1, <1>2, <1>3, KeepsLoop DEF Think, Done, Calling, Unjudged
  <2> QED BY <1>7, <1>9, <2>1, <2>2 DEF Think
<1>10. CASE Answer
  BY <1>10, EndShape, <1>1, <1>2, <1>3, KeepsLoop DEF Answer, Outcomes, Done, Calling, Unjudged
<1>11. ASSUME NEW fault \in Faults, Retry(fault)
      PROVE  LoopInv'
  BY <1>11, <1>1, <1>2, <1>3, KeepsLoop DEF Retry, Going, Done, Calling, Unjudged
<1>12. ASSUME NEW fault \in Faults, FallBack(fault)
      PROVE  LoopInv'
  BY <1>12, <1>1, <1>2, <1>3, KeepsLoop DEF FallBack, Limited, SameTier, Going, Done, Calling, Unjudged
<1>13. ASSUME NEW fault \in Faults, Fail(fault)
       PROVE  LoopInv'
  BY <1>13, EndShape, <1>1, <1>2, <1>3, KeepsLoop DEF Fail, Limited, Outcomes, Done, Calling, Unjudged
<1>14. CASE Throw
  BY <1>14, EndShape, <1>1, <1>2, <1>3, KeepsLoop DEF Throw, Outcomes, Done, Unjudged
<1> QED BY <1>4, <1>5, <1>6, <1>8, <1>9, <1>10, <1>11, <1>12, <1>13, <1>14

\* A question for tools passes the guards before execution, or ends the run.
LEMMA AskLoop ==
    ASSUME LoopInv, AskTools
    PROVE  LoopInv'
<1>1. PICK r \in Rounds, sig \in Sigs, name \in Names \cup {"none"} : PreGuards(r, sig, name)
  BY DEF AskTools
<1>2. /\ trunc' = Chain(trunc, name) /\ trunc' \in Chains(Names, MaxTruncated)
      /\ trunc'.n \in Nat
  <2>1. trunc \in Chains(Names, MaxTruncated) /\ trunc.n < MaxTruncated
    BY DEF LoopInv, TypeOK, ChainsOpen, Done, AskTools
  <2> QED BY <1>1, <2>1, ChainStep, ChainLength, Thresholds DEF PreGuards
<1>3. Chain(dup, sig) \in Chains(Sigs, MaxDuplicate)
  <2>1. dup \in Chains(Sigs, MaxDuplicate) /\ dup.n < MaxDuplicate
    BY DEF LoopInv, TypeOK, ChainsOpen, Done, AskTools
  <2> QED BY <2>1, ChainStep, Thresholds
<1>4. /\ pc = "stream" /\ attempt' = 0
      /\ UNCHANGED <<stopVars, retryVars, err, nudges, owed>>
  BY DEF AskTools
<1>5. dup' \in Chains(Sigs, MaxDuplicate)
  BY <1>1, <1>3 DEF PreGuards, LoopInv, TypeOK
<1>6. \/ pc' = "done" /\ result' \in [outcome : Outcomes, error : BOOLEAN]
         /\ result'.outcome # "none"
      \/ pc' = "tools" /\ round' \in Rounds /\ result' = result
         /\ trunc'.n < MaxTruncated /\ dup'.n < MaxDuplicate
  BY <1>1, EndShape DEF PreGuards, Going, Outcomes
<1>7. TypeOK' /\ Shapes'
  BY <1>2, <1>4, <1>5, <1>6, Thresholds
     DEF LoopInv, TypeOK, Shapes, Done, stopVars, retryVars
<1>8. ChainsOpen'
  BY <1>4, <1>6 DEF LoopInv, ChainsOpen, Unjudged, Done
<1> QED BY <1>7, <1>8 DEF LoopInv

\* The part of the invariant that a round of tools touches.
LEMMA KeepsRound ==
    ASSUME LoopInv, ~Done, {aborted', yielded', queued', local'} \subseteq BOOLEAN,
           UNCHANGED <<retryVars, trunc, dup, attempt>>,
           err' \in [same : Chains(Results, MaxError), routing : Chains({"route"}, MaxRouting),
                     nudged : BOOLEAN],
           \/ pc' = "done" /\ result' \in [outcome : Outcomes, error : BOOLEAN]
              /\ result'.outcome # "none"
           \/ pc' \in {"ran", "kept", "relay"} /\ round' \in Rounds /\ result' = result
              /\ pc # "idle"
           \/ pc' = "turn" /\ result' = result /\ pc # "idle"
              /\ err'.same.n < MaxError /\ err'.routing.n < MaxRouting
    PROVE  LoopInv'
BY DEF LoopInv, TypeOK, Shapes, ChainsOpen, Unjudged, Done, retryVars

\* What follows the results ends the run or begins a turn with chains below
\* their thresholds.
LEMMA ContinueShape ==
    ASSUME LoopInv, Continue
    PROVE  /\ yielded' \in BOOLEAN
           /\ err' \in [same : Chains(Results, MaxError), routing : Chains({"route"}, MaxRouting),
                        nudged : BOOLEAN]
           /\ \/ pc' = "done" /\ result' \in [outcome : Outcomes, error : BOOLEAN]
                 /\ result'.outcome # "none"
              \/ pc' = "turn" /\ result' = result
                 /\ err'.same.n < MaxError /\ err'.routing.n < MaxRouting
<1>1. /\ err \in [same : Chains(Results, MaxError), routing : Chains({"route"}, MaxRouting),
                  nudged : BOOLEAN]
      /\ yielded \in BOOLEAN
  BY DEF LoopInv, Shapes, TypeOK
<1>2. CASE queued
  <2>1. yielded' = TRUE /\ End("yielded", FALSE) /\ err' = err
    BY <1>2 DEF Continue
  <2> QED BY <1>1, <2>1, EndShape DEF Outcomes
<1>3. CASE ~queued
  <2>1. yielded' \in BOOLEAN /\ PostGuards
    BY <1>1, <1>3 DEF Continue
  <2>2. CASE err' = err /\ (End("guard:routing-error", TRUE) \/ End("guard:identical-error", TRUE))
    BY <1>1, <2>1, <2>2, EndShape DEF Outcomes
  <2>3. CASE /\ err.routing.n < MaxRouting /\ err.same.n < MaxError
             /\ pc' = "turn" /\ result' = result
             /\ \E b : err' = [err EXCEPT !.nudged = @ \/ b]
    <3>1. PICK c \in BOOLEAN : err' = [err EXCEPT !.nudged = c]
      BY <2>3
    <3> QED BY <1>1, <2>1, <2>3, <3>1
  <2> QED BY <2>1, <2>2, <2>3 DEF PostGuards, Going
<1> QED BY <1>2, <1>3

\* Tool calls that run, are persisted, go out or return keep the loop's types.
LEMMA ToolsLoop ==
    ASSUME LoopInv,
           Persist \/ AfterPersistence \/ RelayReturns \/ \E res \in Results : Execute(res)
    PROVE  LoopInv'
<1>1. /\ {aborted, yielded, queued, local} \subseteq BOOLEAN /\ yielded \in BOOLEAN
      /\ err \in [same : Chains(Results, MaxError), routing : Chains({"route"}, MaxRouting),
                  nudged : BOOLEAN]
  BY DEF LoopInv, TypeOK, Shapes
<1>2. /\ pc \in {"tools", "ran", "kept", "relay"} /\ ~Done /\ round \in Rounds
      /\ UNCHANGED <<aborted, queued, local, retryVars, trunc, dup, attempt>>
  BY DEF Persist, AfterPersistence, RelayReturns, Execute, Outside, Done, LoopInv, TypeOK
<1>3. CASE Continue
  BY <1>1, <1>2, <1>3, ContinueShape, KeepsRound
<1>4. CASE End("completed", FALSE) /\ UNCHANGED <<yielded, err>>
  BY <1>1, <1>2, <1>4, KeepsRound DEF End, Outcomes
<1>5. CASE pc' \in {"kept", "relay"} /\ Going /\ UNCHANGED <<yielded, err, round>>
  BY <1>1, <1>2, <1>5, KeepsRound DEF Going
<1>6. ASSUME NEW res \in Results, Execute(res)
      PROVE  LoopInv'
  <2>1. /\ pc = "tools" /\ pc' = "ran" /\ err' = Errors(res) /\ result' = result
        /\ UNCHANGED <<yielded, round>>
    BY <1>6 DEF Execute, Going
  <2>2. Errors(res) \in [same : Chains(Results, MaxError),
                         routing : Chains({"route"}, MaxRouting), nudged : BOOLEAN]
    BY <2>1, ErrorShape
  <2> QED BY <1>1, <1>2, <2>1, <2>2, KeepsRound
<1> QED BY <1>3, <1>4, <1>5, <1>6 DEF Persist, AfterPersistence, RelayReturns

\* The outside and the lifting of a limit keep the loop's types.
LEMMA OutsideLoop ==
    ASSUME LoopInv, LimitLifts \/ Cancel \/ Queue
    PROVE  LoopInv'
BY DEF LoopInv, TypeOK, Shapes, ChainsOpen, Unjudged, Done, LimitLifts, Cancel, Queue, stopVars,
       retryVars, chainVars

LEMMA LoopInvCorrect == Spec => []LoopInv
<1>1. Init => LoopInv
  <2> SUFFICES ASSUME Init PROVE LoopInv
    OBVIOUS
  <2>1. \A S, max : NoChain \in Chains(S, max)
    BY DEF Chains
  <2>2. TypeOK
    <3>1. 0 \in 0..MaxSilence /\ 0 \in 0..MaxTransient /\ 0 \in 0..MaxDegenerate
      BY Thresholds
    <3>2. {aborted, yielded, queued, local} \subseteq BOOLEAN
      BY DEF Init
    <3> QED BY <2>1, <3>1, <3>2 DEF Init, TypeOK, Done
  <2>3. Shapes
    BY <2>1 DEF Init, Shapes, Outcomes
  <2>4. ChainsOpen
    BY Thresholds DEF Init, ChainsOpen, NoChain
  <2> QED BY <2>2, <2>3, <2>4 DEF LoopInv
<1>2. LoopInv /\ [Next]_vars => LoopInv'
  <2>1. LoopInv /\ UNCHANGED vars => LoopInv'
    BY DEF LoopInv, TypeOK, Shapes, ChainsOpen, Unjudged, Done, vars, stopVars, retryVars, chainVars
  <2> QED BY <2>1, CallLoop, AskLoop, ToolsLoop, OutsideLoop DEF Next, Run
<1> QED BY <1>1, <1>2, PTL DEF Spec

\* Every counter of the agent loop stays within its limit - retries, silences,
\* degenerate answers and the chains of the breakers - and a run that is over
\* has an outcome (handleModelError, checkDegenerateRetry, loop-guards.ts).
THEOREM LoopTypeCorrect == Spec => []TypeOK
<1>1. LoopInv => TypeOK
  BY DEF LoopInv
<1> QED BY <1>1, LoopInvCorrect, PTL

---------------------------------------------------------------------------
(* Results of tools *)

\* A result of a call that ran here is missing from the thread only between the
\* execution and the persistence of its round, or for good when the write threw;
\* debts to a client connected here end the run.
OwedInv ==
    /\ "server" \in owed => pc = "ran" \/ (Done /\ result.outcome = "model-failed")
    /\ ~Done => owed \subseteq {"server", "remote"}

\* The steps of a round keep track of what is owed.
LEMMA RoundOwes ==
    ASSUME OwedInv, Throw \/ Persist \/ AfterPersistence \/ RelayReturns
                    \/ \E res \in Results : Execute(res)
    PROVE  OwedInv'
<1>1. \A o, b : End(o, b) => Done' /\ result'.outcome = o
  BY DEF End, Done
<1>2. ~Done /\ owed \subseteq {"server", "remote"}
  BY DEF OwedInv, Done, Throw, Persist, AfterPersistence, RelayReturns, Execute
<1>3. CASE Throw
  BY <1>1, <1>2, <1>3 DEF Throw, OwedInv
<1>4. CASE Persist
  BY <1>2, <1>4 DEF Persist, OwedInv
<1>5. CASE AfterPersistence \/ RelayReturns
  <2>1. "server" \notin owed
    BY <1>2, <1>5 DEF OwedInv, AfterPersistence, RelayReturns, Done
  <2>2. CASE End("completed", FALSE) /\ owed' \subseteq owed \cup {"unsent", "client"}
    BY <1>1, <1>2, <2>1, <2>2 DEF OwedInv
  <2>3. CASE owed' \subseteq owed \cup {"remote"}
    BY <1>2, <2>1, <2>3 DEF OwedInv
  <2> QED BY <1>5, <2>2, <2>3 DEF AfterPersistence, RelayReturns
<1>6. ASSUME NEW res \in Results, Execute(res)
      PROVE  OwedInv'
  BY <1>2, <1>6 DEF Execute, Ran, OwedInv
<1> QED BY <1>3, <1>4, <1>5, <1>6

\* A tool call that ran here has its result in the thread when the model is
\* asked again and when the run ends, whatever ends it, unless writing the
\* result threw; no turn begins while a client connected here works on a call
\* (executeToolRoundTrip, persistToolMessages, afterToolPersistence and the
\* guards, in this order).
THEOREM ToolResultsKeptCorrect == Spec => []ToolResultsKept
<1>1. Init => OwedInv
  BY DEF Init, OwedInv
<1>2. OwedInv /\ [Next]_vars => OwedInv'
  <2> SUFFICES ASSUME OwedInv, [Next]_vars PROVE OwedInv'
    OBVIOUS
  <2>1. CASE UNCHANGED vars
    BY <2>1 DEF vars, OwedInv, Done
  <2>2. CASE \/ Resolve \/ Turn \/ Silence \/ Cut \/ Think \/ Answer \/ AskTools
             \/ \E fault \in Faults : Retry(fault) \/ FallBack(fault) \/ Fail(fault)
    <3>1. pc # "done" /\ pc # "ran" /\ owed' = owed
      BY <2>2 DEF Resolve, Turn, Silence, Cut, Think, Answer, AskTools, Retry, FallBack, Fail,
                  Calling, Limited
    <3> QED BY <3>1 DEF OwedInv, Done
  <2>3. CASE LimitLifts \/ Cancel \/ Queue
    BY <2>3 DEF LimitLifts, Cancel, Queue, OwedInv, Done
  <2> QED BY <2>1, <2>2, <2>3, RoundOwes DEF Next, Run
<1>3. OwedInv => ToolResultsKept
  BY DEF OwedInv, ToolResultsKept, Asking, Calling, Done
<1> QED BY <1>1, <1>2, <1>3, PTL DEF Spec

---------------------------------------------------------------------------
(* The rows of the turns *)

\* A step that ends the run by a guard, or goes on without a row.
LEMMA KeepsStatus ==
    ASSUME StatusTruthful, ~Done, recorded' = recorded,
           \/ pc' # "done"
           \/ ~(result'.error /\ result'.outcome \in {"completed", "model-failed"})
    PROVE  StatusTruthful'
BY DEF StatusTruthful, Done

\* The decision about a degenerate turn agrees with the status of its row.
LEMMA ThinkStatus ==
    ASSUME StatusTruthful, degenerate \in Nat, Think
    PROVE  StatusTruthful'
<1>1. MaxDegenerate \in Nat
  BY Thresholds
<1>2. CASE degenerate >= MaxDegenerate
  <2>1. Terminal /\ ~(degenerate < MaxDegenerate)
    BY <1>1, <1>2 DEF Terminal
  <2>2. recorded' \in {"error", "aborted"}
    BY <2>1 DEF Think, Status
  <2>3. End("completed", TRUE)
    BY <2>1 DEF Think, Degenerate
  <2> QED BY <2>2, <2>3 DEF End, StatusTruthful, Done
<1>3. CASE degenerate < MaxDegenerate
  <2>1. ~Terminal /\ ~(degenerate >= MaxDegenerate)
    BY <1>1, <1>3 DEF Terminal
  <2>2. recorded' # "error"
    BY <2>1 DEF Think, Status
  <2>3. pc' = "turn"
    BY <2>1 DEF Think, Degenerate
  <2> QED BY <2>2, <2>3 DEF StatusTruthful, Done
<1> QED BY <1>1, <1>2, <1>3

\* A round of tools writes no row of a turn and ends the run without an error,
\* or by a guard.
LEMMA ToolsStatus ==
    ASSUME StatusTruthful,
           Persist \/ AfterPersistence \/ RelayReturns \/ \E res \in Results : Execute(res)
    PROVE  StatusTruthful'
<1>1. recorded' = recorded /\ ~Done
  BY DEF Persist, AfterPersistence, RelayReturns, Execute, Done
<1>2. ASSUME NEW o, NEW b, End(o, b), o \notin {"completed", "model-failed"} \/ b = FALSE
      PROVE  StatusTruthful'
  <2>1. ~(result'.error /\ result'.outcome \in {"completed", "model-failed"})
    BY <1>2 DEF End
  <2> QED BY <1>1, <2>1, KeepsStatus
<1>3. CASE Continue
  <2>1. pc' = "turn" \/ End("yielded", FALSE) \/ End("guard:routing-error", TRUE)
        \/ End("guard:identical-error", TRUE)
    BY <1>3 DEF Continue, PostGuards
  <2>2. CASE pc' = "turn"
    BY <1>1, <2>2, KeepsStatus
  <2> QED BY <2>1, <1>2, <2>2
<1>4. CASE pc' \in {"ran", "kept", "relay"}
  BY <1>1, <1>4, KeepsStatus
<1> QED BY <1>2, <1>3, <1>4 DEF Persist, AfterPersistence, RelayReturns, Execute

\* The rows of the turns tell how the run went: an error the loop reports is in
\* the last row, and a row "error" is never followed by a turn that recovers
\* (recordParsedTurn and isTerminalDegenerateTurn against checkDegenerateRetry).
THEOREM StatusTruthfulCorrect == Spec => []StatusTruthful
<1>1. Init => StatusTruthful
  BY DEF Init, StatusTruthful, Done
<1>2. StatusTruthful /\ LoopInv /\ [Next]_vars => StatusTruthful'
  <2> SUFFICES ASSUME StatusTruthful, LoopInv, [Next]_vars PROVE StatusTruthful'
    OBVIOUS
  <2>1. CASE UNCHANGED vars
    BY <2>1 DEF vars, StatusTruthful, Done
  <2>2. CASE Silence \/ LimitLifts \/ Cancel \/ Queue
             \/ \E fault \in Faults : Retry(fault) \/ FallBack(fault)
    <3>1. recorded' = recorded /\ ~Done /\ result' = result
      BY <2>2 DEF Silence, LimitLifts, Cancel, Queue, Retry, FallBack, Limited, Calling, Going,
                  Done
    <3>2. pc' # "done"
      BY <2>2, <3>1 DEF Silence, LimitLifts, Cancel, Queue, Retry, FallBack, Done
    <3> QED BY <3>1, <3>2, KeepsStatus
  <2>3. CASE Resolve
    <3>1. recorded' = recorded /\ ~Done /\ (pc' = "turn" \/ End("model-resolution-failed", TRUE))
      BY <2>3 DEF Resolve, Done
    <3>2. pc' = "turn" \/ ~(result'.error /\ result'.outcome \in {"completed", "model-failed"})
      BY <3>1 DEF End
    <3> QED BY <3>1, <3>2, KeepsStatus
  <2>4. CASE Turn
    <3>1. /\ ~Done /\ recorded' \in {recorded, "aborted"}
          /\ pc' = "stream" \/ End("yielded", FALSE) \/ End("aborted", FALSE)
      BY <2>4 DEF Turn, Done
    <3>2. recorded' # "error"
      BY <3>1 DEF StatusTruthful
    <3>3. pc' # "done" \/ ~(result'.error /\ result'.outcome \in {"completed", "model-failed"})
      BY <3>1 DEF End
    <3> QED BY <3>2, <3>3 DEF StatusTruthful, Done
  <2>5. CASE Cut
    BY <2>5 DEF Cut, Status, StatusTruthful
  <2>6. CASE Think
    BY <2>6, ThinkStatus, Thresholds DEF LoopInv, TypeOK
  <2>7. CASE Answer
    <3>1. recorded' # "error" /\ End("completed", FALSE)
      BY <2>7 DEF Answer, Status
    <3>2. ~(result'.error /\ result'.outcome \in {"completed", "model-failed"})
      BY <3>1 DEF End
    <3> QED BY <3>1, <3>2 DEF StatusTruthful
  <2>8. CASE AskTools
    <3>1. recorded' # "error"
      BY <2>8 DEF AskTools, Status
    <3>2. pc' = "tools" \/ End("guard:truncated", TRUE) \/ End("guard:duplicate", TRUE)
      BY <2>8 DEF AskTools, PreGuards
    <3>3. pc' # "done" \/ ~(result'.error /\ result'.outcome \in {"completed", "model-failed"})
      BY <3>2 DEF End
    <3> QED BY <3>1, <3>3 DEF StatusTruthful, Done
  <2>9. ASSUME NEW fault \in Faults, Fail(fault)
        PROVE  StatusTruthful'
    <3>1. recorded' \in {"error", "aborted"} /\ End("completed", TRUE)
      BY <2>9 DEF Fail, Failure
    <3> QED BY <3>1 DEF End, StatusTruthful, Done
  <2>10. CASE Throw
    <3>1. recorded' \in {"error", "aborted"} /\ End("model-failed", TRUE)
      BY <2>10 DEF Throw, Failure
    <3> QED BY <3>1 DEF End, StatusTruthful, Done
  <2> QED BY <2>1, <2>2, <2>3, <2>4, <2>5, <2>6, <2>7, <2>8, <2>9, <2>10, ToolsStatus
          DEF Next, Run
<1> QED BY <1>1, <1>2, LoopInvCorrect, PTL DEF Spec

---------------------------------------------------------------------------
(* Nudges *)

\* After a round: the nudges counted for the chain are those its flag tells,
\* and a chain longer than NudgeAt was nudged.
LEMMA NudgeOfRound ==
    ASSUME LoopInv, NudgeInv, pc = "tools", NEW res \in Results
    PROVE  /\ NudgesIn(Errors(res)) = (IF Errors(res).nudged THEN 1 ELSE 0)
           /\ Errors(res).same.n > NudgeAt => Errors(res).nudged
           /\ Errors(res).nudged => Errors(res).same.n >= NudgeAt
<1> DEFINE sig == ErrorOf(res)
           c   == err.same
           d   == Chain(err.same, ErrorOf(res))
           nd  == err.nudged /\ ErrorOf(res) # "none" /\ ErrorOf(res) = err.same.sig
<1>1. Errors(res).same = d /\ Errors(res).nudged = nd
  BY DEF Errors
<1>2. c.n \in Nat /\ (c.n = 0 => c.sig = "none") /\ NudgeAt \in Nat \ {0}
  BY ChainLength, Thresholds DEF LoopInv, Shapes, NoChain
<1>3. err.nudged <=> c.n >= NudgeAt
  BY DEF NudgeInv
<1>4. nudges = (IF err.nudged THEN 1 ELSE 0)
  BY DEF NudgeInv
<1>5. CASE sig # "none" /\ c.sig = sig
  <2>1. d.n = c.n + 1 /\ c.n >= 1 /\ d.n > 1
    BY <1>2, <1>5 DEF Chain
  <2>2. nd <=> err.nudged
    BY <1>5
  <2>3. NudgesIn(Errors(res)) = nudges
    BY <1>1, <2>1 DEF NudgesIn
  <2> HIDE DEF d, nd, c
  <2>4. (d.n > NudgeAt => nd) /\ (nd => d.n >= NudgeAt)
    BY <1>2, <1>3, <2>1, <2>2
  <2> QED BY <1>1, <1>4, <2>2, <2>3, <2>4
<1>6. CASE ~(sig # "none" /\ c.sig = sig)
  <2>1. d.n \in {0, 1}
    BY <1>6 DEF Chain, NoChain
  <2>2. ~nd
    BY <1>6
  <2>3. NudgesIn(Errors(res)) = 0
    BY <1>1, <2>1 DEF NudgesIn
  <2> HIDE DEF d, nd, c
  <2>4. ~(d.n > NudgeAt)
    BY <1>2, <2>1
  <2> QED BY <1>1, <2>2, <2>3, <2>4
<1> QED BY <1>5, <1>6

\* The guards nudge a chain that reached NudgeAt once and abort only a nudged one.
LEMMA ContinueNudge ==
    ASSUME LoopInv, NudgeInv, Unjudged, Continue
    PROVE  NudgeInv'
<1>1. /\ err \in [same : Chains(Results, MaxError), routing : Chains({"route"}, MaxRouting),
                  nudged : BOOLEAN]
      /\ nudges = (IF err.nudged THEN 1 ELSE 0) /\ result.outcome = "none"
      /\ err.same.n > NudgeAt => err.nudged
      /\ err.nudged => err.same.n >= NudgeAt
  BY DEF LoopInv, TypeOK, Shapes, NudgeInv, Unjudged, Done
<1>2. err.same.n \in Nat /\ NudgeAt \in Nat /\ MaxError \in Nat /\ NudgeAt < MaxError
  BY <1>1, ChainLength, Thresholds
<1>3. ASSUME NEW o, NEW b, End(o, b), err' = err, nudges' = nudges,
             o = "guard:identical-error" => err.nudged
      PROVE  NudgeInv'
  BY <1>1, <1>3 DEF End, NudgeInv, Unjudged
<1>4. CASE queued
  BY <1>3, <1>4 DEF Continue
<1>5. CASE ~queued
  <2>1. PostGuards
    BY <1>5 DEF Continue
  <2>2. CASE End("guard:routing-error", TRUE) /\ UNCHANGED <<err, nudges>>
    BY <1>3, <2>2
  <2>3. CASE err.same.n >= MaxError /\ End("guard:identical-error", TRUE) /\ UNCHANGED <<err, nudges>>
    <3>1. err.same.n > NudgeAt
      BY <1>2, <2>3
    <3> QED BY <1>1, <1>3, <2>3, <3>1
  <2>4. CASE /\ pc' = "turn" /\ result' = result
             /\ \E nudge \in {~err.nudged /\ err.same.n >= NudgeAt} :
                  /\ err' = [err EXCEPT !.nudged = @ \/ nudge]
                  /\ nudges' = IF nudge THEN nudges + 1 ELSE nudges
    <3>1. CASE ~err.nudged /\ err.same.n >= NudgeAt
      <4>1. err' = [err EXCEPT !.nudged = TRUE] /\ nudges' = nudges + 1
        BY <2>4, <3>1
      <4>2. nudges = 0
        BY <1>1, <3>1
      <4>3. err'.same = err.same /\ err'.nudged = TRUE
        BY <1>1, <4>1
      <4> QED BY <1>1, <2>4, <3>1, <4>1, <4>2, <4>3 DEF NudgeInv, Unjudged
    <3>2. CASE ~(~err.nudged /\ err.same.n >= NudgeAt)
      <4>1. err' = [err EXCEPT !.nudged = err.nudged] /\ nudges' = nudges
        BY <1>1, <2>4, <3>2
      <4>2. err' = err
        BY <1>1, <4>1
      <4>3. err.nudged <=> err.same.n >= NudgeAt
        BY <1>1, <3>2
      <4> QED BY <1>1, <2>4, <4>1, <4>2, <4>3 DEF NudgeInv, Unjudged
    <3> QED BY <3>1, <3>2
  <2> QED BY <2>1, <2>2, <2>3, <2>4 DEF PostGuards, Going
<1> QED BY <1>4, <1>5

\* A round of tools keeps the count of the nudges.
LEMMA ToolsNudge ==
    ASSUME LoopInv, NudgeInv,
           Persist \/ AfterPersistence \/ RelayReturns \/ \E res \in Results : Execute(res)
    PROVE  NudgeInv'
<1>1. ASSUME NEW res \in Results, Execute(res)
      PROVE  NudgeInv'
  <2>1. /\ pc = "tools" /\ pc' = "ran" /\ result' = result /\ err' = Errors(res)
        /\ nudges' = NudgesIn(Errors(res)) /\ result.outcome = "none"
    BY <1>1 DEF Execute, Going, LoopInv, TypeOK, Done
  <2>2. /\ NudgesIn(Errors(res)) = (IF Errors(res).nudged THEN 1 ELSE 0)
        /\ Errors(res).same.n > NudgeAt => Errors(res).nudged
        /\ Errors(res).nudged => Errors(res).same.n >= NudgeAt
    BY <2>1, NudgeOfRound
  <2> QED BY <2>1, <2>2 DEF NudgeInv, Unjudged
<1>2. ASSUME Persist \/ AfterPersistence \/ RelayReturns
      PROVE  NudgeInv'
  <2>1. Unjudged /\ result.outcome = "none"
    BY <1>2 DEF Persist, AfterPersistence, RelayReturns, Unjudged, LoopInv, TypeOK, Done
  <2>2. CASE Continue
    BY <2>1, <2>2, ContinueNudge
  <2>3. CASE End("completed", FALSE) /\ UNCHANGED <<err, nudges>>
    BY <2>1, <2>3 DEF End, NudgeInv, Unjudged
  <2>4. CASE pc' \in {"kept", "relay"} /\ result' = result /\ UNCHANGED <<err, nudges>>
    BY <2>1, <2>4 DEF NudgeInv, Unjudged
  <2> QED BY <1>2, <2>2, <2>3, <2>4 DEF Persist, AfterPersistence, RelayReturns, Going
<1> QED BY <1>1, <1>2

\* No error chain is nudged twice, and the identical-error guard ends a run
\* only after a nudge in that very chain, however routing errors, successes,
\* relayed calls and client calls interrupt it (recordToolErrorSignatures,
\* runPostExecutionGuards).
THEOREM NudgedOnceCorrect == Spec => []NudgedOnce
<1>1. Init => NudgeInv
  BY Thresholds DEF Init, NudgeInv, NoChain
<1>2. LoopInv /\ NudgeInv /\ [Next]_vars => NudgeInv'
  <2> SUFFICES ASSUME LoopInv, NudgeInv, [Next]_vars PROVE NudgeInv'
    OBVIOUS
  <2>1. CASE UNCHANGED vars
    BY <2>1 DEF vars, chainVars, NudgeInv, Unjudged
  <2>2. CASE Throw
    <3>1. UNCHANGED <<err, nudges>> /\ End("model-failed", TRUE)
      BY <2>2 DEF Throw, chainVars
    <3> QED BY <3>1 DEF End, NudgeInv, Unjudged
  <2>3. CASE \/ Resolve \/ Turn \/ Silence \/ Cut \/ Think \/ Answer \/ AskTools
             \/ \E fault \in Faults : Retry(fault) \/ FallBack(fault) \/ Fail(fault)
             \/ LimitLifts \/ Cancel \/ Queue
    <3>1. UNCHANGED <<err, nudges>>
      BY <2>3 DEF Resolve, Turn, Silence, Cut, Think, Answer, AskTools, Retry, FallBack, Fail,
                  LimitLifts, Cancel, Queue, chainVars
    <3>2. result' = result \/ \E o \in Outcomes : \E b : End(o, b) /\ o # "guard:identical-error"
      BY <2>3 DEF Resolve, Turn, Silence, Cut, Think, Answer, AskTools, Retry, FallBack, Fail,
                  LimitLifts, Cancel, Queue, Degenerate, PreGuards, Going, Outcomes
    <3>3. result' = result \/ result'.outcome # "guard:identical-error"
      BY <3>2 DEF End
    <3>4. \/ pc' = pc
          \/ /\ pc \in {"idle", "turn", "stream", "doomed"}
             /\ pc' \in {"turn", "stream", "doomed", "tools", "done"}
      BY <2>3 DEF Resolve, Turn, Silence, Cut, Think, Answer, AskTools, Retry, FallBack, Fail,
                  LimitLifts, Cancel, Queue, Degenerate, PreGuards, End, Calling, Limited
    <3> QED BY <3>1, <3>3, <3>4 DEF NudgeInv, Unjudged
  <2> QED BY <2>1, <2>2, <2>3, ToolsNudge DEF Next, Run
<1>3. NudgeInv => NudgedOnce
  BY DEF NudgeInv, NudgedOnce
<1> QED BY <1>1, <1>2, <1>3, LoopInvCorrect, PTL DEF Spec

=============================================================================
