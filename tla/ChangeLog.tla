----------------------------- MODULE ChangeLog -----------------------------
(***************************************************************************)
(* One host's side of replication: the change_log outbox                    *)
(* (packages/core/src/change-log.ts), the reducers that merge remote rows   *)
(* (packages/sync/src/reducers.ts), the diff that decides what a backfill   *)
(* moves (packages/core/src/consistency.ts) and the pruning of the outbox   *)
(* (packages/sync/src/pruning.ts).                                          *)
(*                                                                          *)
(* Stamps are compared as pairs of numbers (module Hlc), which is how the   *)
(* strings compare while a counter has four digits (module HlcClock).       *)
(***************************************************************************)
EXTENDS Hlc, FiniteSets

CONSTANTS
    Row,        \* the rows of the synced tables, each in a table of its own
    Site,       \* the hosts
    MaxCount    \* bound: counter of a stamp

ASSUME ChangeLogAssumption == MaxCount \in Nat

\* modified_at and the content of a row; a soft delete is a version too.
Version == [mod : Nat, val : Nat]

Missing == [mod |-> 0, val |-> 0]

Entry == [hlc : Stamp, row : Row, site : Site, ver : Version]

---------------------------------------------------------------------------
(* Stamps *)

\* The last stamp of the log L, HLC_ZERO if there is none.
Last(L) == {t \in {Zero} \cup {e.hlc : e \in L} : \A e \in L : ~Before(t, e.hlc)}

\* Mutant: the last stamp of the log is not consulted.
StampsOfRemote(L, now, remote) ==
    {s \in {mergeHlc(now, Zero, remote)} : s[2] <= MaxCount}

\* The stamp createChangeLogEntry gives the next entry of L; remote is HLC_ZERO
\* for a local write, for which mergeHlc and generateHlc agree.
Stamps(L, now, remote) ==
    {s \in {IF remote = Zero THEN generateHlc(now, t) ELSE mergeHlc(now, t, remote) : t \in Last(L)} :
        s[2] <= MaxCount}

createChangeLogEntry(L, s, r, site, v) ==
    L \cup {[hlc |-> s, row |-> r, site |-> site, ver |-> v]}

\* The entries of S in the order of their stamps (ORDER BY hlc ASC).
Ascending(S) ==
    {s \in [1..Cardinality(S) -> S] : \A i, j \in DOMAIN s : i < j => Before(s[i].hlc, s[j].hlc)}

---------------------------------------------------------------------------
(* Reducers *)

\* Mutant: a version as old as the local one replaces it.
WinsTies(old, new) == old = Missing \/ new.mod >= old.mod

\* applyLWWReducer and applyAppendOnlyReducer on a row with modified_at: insert
\* what is missing, replace only by something strictly newer.
Wins(old, new) == old = Missing \/ new.mod > old.mod

applyEvent(t, e) == IF Wins(t[e.row], e.ver) THEN [t EXCEPT ![e.row] = e.ver] ELSE t

\* applySnapshotRows: the conflict clause compares modified_at the same way.
applySnapshotRow(t, r, v) == IF Wins(t[r], v) THEN [t EXCEPT ![r] = v] ELSE t

---------------------------------------------------------------------------
(* The backfill's diff of a local row against the hub's (mergeDiffEntries) *)

\* Mutant: the diff of keys alone, which misses changed rows.
MustPushMissing(local, remote) == local # Missing /\ remote = Missing

\* localOnly or localNewerMismatch
MustPush(local, remote) ==
    local # Missing /\ (remote = Missing \/ (local # remote /\ local.mod > remote.mod))

\* Mutant: only rows both sides have are pulled.
MustPullKnown(local, remote) ==
    remote # Missing /\ local # Missing /\ local # remote /\ ~(local.mod > remote.mod)

\* remoteOnly or remoteNewerMismatch, where ties go
MustPull(local, remote) ==
    remote # Missing /\ local # remote /\ ~(local # Missing /\ local.mod > remote.mod)

---------------------------------------------------------------------------
(* Pruning *)

\* getMinConfirmedHlc over the last_received cursors R, then the DELETE.
pruneChangeLog(L, R) ==
    IF R = {} \/ Zero \in R THEN L ELSE {e \in L : \E c \in R : Before(c, e.hlc)}

\* The newest entry of L for row r is e.
Newest(L, r, e) == e \in L /\ e.row = r /\ \A f \in L : f.row = r => ~Before(e.hlc, f.hlc)
============================================================================
