----------------------------- MODULE WorkTable -----------------------------
(***************************************************************************)
(* One host's durable_work table and the guarded UPDATE / DELETE statements *)
(* of packages/core/src/durable-work.ts.  A table is a function from work   *)
(* identities to rows; every operator below is one exported function of the *)
(* source and returns the table it leaves behind.                           *)
(*                                                                          *)
(* A member of Work stands for the row id and its (kind, idempotency_key)   *)
(* pair at once: producers mint them together and a transfer carries both   *)
(* unchanged.  A time guard (stale, expired, past retention) becomes the    *)
(* argument S, the set of rows whose clock has run out: the callers choose  *)
(* it freely, so every order of the timers is explored.                     *)
(***************************************************************************)
EXTENDS Integers, FiniteSets

CONSTANTS
    Work,               \* identities of pieces of durable work
    Local,              \* LOCAL_WORK_TARGET, the in-process sentinel
    Target,             \* Target[w] : the row's target_site_id
    MaxAttempts,        \* DURABLE_WORK_MAX_ATTEMPTS
    ReclassifyBudget    \* TRANSFER_EXHAUSTED_RECLASSIFY_BUDGET

ASSUME BudgetAssumption == MaxAttempts \in Nat /\ ReclassifyBudget \in Nat

ClaimState == {"absent", "pending", "processing", "transferring",
               "consumed", "dead_letter"}

\* last_error: NULL, 'expired', TRANSFER_EXHAUSTED_LAST_ERROR, anything else
LastError == {"none", "expired", "exhausted", "failed"}

\* tok is claim_token (0 is NULL), ttl says whether expires_at is set, rec is
\* reclassify_count.  dead_lettered_at and consumed_at follow from st.
Row == [st : ClaimState, tok : Nat, att : Nat, err : LastError,
        ttl : BOOLEAN, rec : Nat]

Table == [Work -> Row]

Absent == [st |-> "absent", tok |-> 0, att |-> 0, err |-> "none",
           ttl |-> FALSE, rec |-> 0]

InState(t, st) == {w \in Work : t[w].st = st}

\* The row w of t is still owned by generation tok in state st.
OwnedBy(t, w, st, tok) == t[w].st = st /\ t[w].tok = tok

DeadLettered(r, err) ==
    [r EXCEPT !.st = "dead_letter", !.tok = 0, !.err = err, !.ttl = TRUE]

Repended(r) == [r EXCEPT !.st = "pending", !.tok = 0]

Retired(r) == [r EXCEPT !.st = "consumed", !.tok = 0]

Claimed(r, tok) ==
    [r EXCEPT !.st = "processing", !.tok = tok, !.att = r.att + 1]

Released(r) ==
    [r EXCEPT !.st = "pending", !.tok = 0, !.att = IF r.att > 0 THEN r.att - 1 ELSE 0]

\* A row that claimAndConsumeDurableWorkByIds claims and retires at once.
ClaimRetired(r) == [r EXCEPT !.st = "consumed", !.tok = 0, !.att = r.att + 1]

---------------------------------------------------------------------------
(* Insertion and claims *)

\* Mutant: INSERT OR REPLACE, a redelivery overwrites the fence.
insertReplacing(t, S, ttl) ==
    [w \in Work |->
        IF w \in S THEN [Absent EXCEPT !.st = "pending", !.ttl = ttl[w]] ELSE t[w]]

\* INSERT OR IGNORE: an existing row, whatever its state, is the fence.
insertDurableWork(t, S, ttl) ==
    [w \in Work |->
        IF w \in S /\ t[w].st = "absent"
        THEN [Absent EXCEPT !.st = "pending", !.ttl = ttl[w]]
        ELSE t[w]]

\* g[w] is the generation minted for w by this call.
claimDurableWorkByIds(t, S, g) ==
    [w \in Work |->
        IF w \in S /\ t[w].st = "pending"
        THEN Claimed(t[w], g[w])
        ELSE t[w]]

\* Mutant: the claim is retired by row id, whoever holds it by now.
acknowledgeById(t, w, tok) ==
    IF t[w].st = "processing" THEN [t EXCEPT ![w] = Retired(@)] ELSE t

acknowledgeDurableWork(t, w, tok) ==
    IF OwnedBy(t, w, "processing", tok)
    THEN [t EXCEPT ![w] = Retired(@)] ELSE t

releaseDurableWorkClaim(t, w, tok) ==
    IF OwnedBy(t, w, "processing", tok)
    THEN [t EXCEPT ![w] = Released(@)] ELSE t

\* The whole set S is retired, or (some member neither pending nor held by
\* the caller's own generation) the transaction rolls back.
claimAndConsumeDurableWorkByIds(t, S, w, tok) ==
    IF \A v \in S : IF v = w THEN OwnedBy(t, w, "processing", tok)
                             ELSE t[v].st = "pending"
    THEN [v \in Work |->
            IF v \notin S THEN t[v]
            ELSE IF v = w THEN Retired(t[v]) ELSE ClaimRetired(t[v])]
    ELSE t

consumePendingDispatchByIdempotencyKey(t, w) ==
    IF Target[w] = Local /\ t[w].st = "pending"
    THEN [t EXCEPT ![w] = Retired(@)] ELSE t

---------------------------------------------------------------------------
(* Transfers *)

beginDurableWorkTransfer(t, S, g) ==
    [w \in Work |->
        IF w \in S /\ t[w].st = "pending"
        THEN [t[w] EXCEPT !.st = "transferring", !.tok = g[w]]
        ELSE t[w]]

\* Mutant: the ack is matched by row id, not by the echoed generation.
acknowledgeAnyGeneration(t, entries) ==
    [w \in Work |->
        IF t[w].st = "transferring" /\ \E e \in entries : e.w = w THEN Absent ELSE t[w]]

\* entries is the ack's set of [w, tok] pairs.
acknowledgeDurableWorkTransfer(t, entries) ==
    [w \in Work |->
        IF \E e \in entries : e.w = w /\ OwnedBy(t, w, "transferring", e.tok)
        THEN Absent ELSE t[w]]

\* Mutant: at the cap the row is deleted instead of dead-lettered.
ChargeDiscards(r) ==
    IF r.att >= MaxAttempts THEN Absent ELSE [Repended(r) EXCEPT !.att = @ + 1]

\* A transferring row goes back to pending with the attempt charged, or, at
\* the cap, becomes a transfer-exhausted dead letter.
ChargeTransfer(r) ==
    IF r.att >= MaxAttempts
    THEN DeadLettered(r, "exhausted")
    ELSE [r EXCEPT !.st = "pending", !.tok = 0, !.att = r.att + 1]

\* Mutant: a row that was never charged is not stale.
sweepSparesUncharged(t, S) ==
    [w \in Work |->
        IF w \in S /\ t[w].st = "transferring" /\ t[w].att > 0 THEN ChargeTransfer(t[w]) ELSE t[w]]

sweepStaleTransferringDurableWork(t, S) ==
    [w \in Work |->
        IF w \in S /\ t[w].st = "transferring" THEN ChargeTransfer(t[w]) ELSE t[w]]

redriveTransferringDurableWork(t, w) ==
    IF t[w].st = "transferring"
    THEN [t EXCEPT ![w] = ChargeTransfer(@)] ELSE t

\* The WHERE clause of the reconnect auto-redrive towards peer.
Reclassifiable(t, peer) ==
    {w \in InState(t, "dead_letter") :
        /\ t[w].err = "exhausted"
        /\ Target[w] = peer
        /\ t[w].rec < ReclassifyBudget}

\* Mutant: reclassify_count is not bumped.
reclassifyUncounted(t, S, peer) ==
    [w \in Work |->
        IF w \in S \cap Reclassifiable(t, peer)
        THEN [Repended(t[w]) EXCEPT !.err = "none", !.att = 0] ELSE t[w]]

Reopened(r) ==
    [r EXCEPT !.st = "pending", !.tok = 0, !.err = "none", !.att = 0, !.rec = r.rec + 1]

reclassifyTransferExhaustedDeadLetters(t, S, peer) ==
    [w \in Work |->
        IF w \in S \cap Reclassifiable(t, peer)
        THEN Reopened(t[w])
        ELSE t[w]]

---------------------------------------------------------------------------
(* Terminal states, boot recovery and the operator's commands *)

\* The expiry predicate spares dead letters only.
Expirable(t) ==
    {w \in Work : t[w].st \notin {"absent", "dead_letter"} /\ t[w].ttl}

\* Mutant: an expired claim goes back to pending while its handler runs.
expireReleases(t, S) ==
    [w \in Work |-> IF w \in S \cap Expirable(t) THEN Repended(t[w]) ELSE t[w]]

deadLetterExpiredDurableWork(t, S) ==
    [w \in Work |->
        IF w \in S \cap Expirable(t)
        THEN DeadLettered(t[w], IF t[w].err = "none" THEN "expired" ELSE t[w].err)
        ELSE t[w]]

\* deadLetterDurableWork, which retires by id alone, is exported and has no caller.
deadLetterClaimedDurableWork(t, w, tok) ==
    IF OwnedBy(t, w, "processing", tok)
    THEN [t EXCEPT ![w] = DeadLettered(@, "failed")] ELSE t

deadLetterPendingDurableWork(t, w) ==
    IF t[w].st = "pending"
    THEN [t EXCEPT ![w] = DeadLettered(@, "failed")] ELSE t

resetProcessingDurableWork(t, site) ==
    [w \in Work |->
        IF Target[w] = site /\ t[w].st = "processing" THEN Repended(t[w]) ELSE t[w]]

\* T is the set of dispatch_message rows of one thread (dispatch.ts); whether the
\* claimant still runs is not asked.
resetProcessingDurableDispatchForThread(t, T) ==
    [w \in Work |->
        IF w \in T /\ Target[w] = Local /\ t[w].st = "processing" THEN Repended(t[w]) ELSE t[w]]

resetTransferringLocalDurableWork(t) ==
    [w \in Work |->
        IF Target[w] = Local /\ t[w].st = "transferring" THEN Repended(t[w]) ELSE t[w]]

\* Attempts, last_error and reclassify_count survive a redrive; the deadline
\* is the one registered for the kind.
redriveDeadLetterDurableWork(t, w, ttl) ==
    IF t[w].st = "dead_letter"
    THEN [t EXCEPT ![w] = [@ EXCEPT !.st = "pending", !.tok = 0, !.ttl = ttl]] ELSE t

\* Consumed fences past the hour and dead letters past their retention.
Prunable(t) == InState(t, "consumed") \cup {w \in InState(t, "dead_letter") : t[w].ttl}

\* purge --all-unclaimed reaches peer-targeted pending rows only with --force;
\* --dead-lettered never reaches a pending row.
Purgeable(t, force) ==
    InState(t, "dead_letter")
    \cup {w \in InState(t, "pending") : force \/ Target[w] = Local}

DeleteRows(t, S) == [w \in Work |-> IF w \in S THEN Absent ELSE t[w]]

=============================================================================
