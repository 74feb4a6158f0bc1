------------------------------- MODULE Handler -------------------------------
(***************************************************************************)
(* The remote version store and transaction table behind the abstract     *)
(* class Handler (src/include/versiondb/request/handler.h).  The repository *)
(* has only the interface; each action below is the behaviour the          *)
(* interface comments and the callers in transaction-operation.cpp rely    *)
(* on.  A call is served atomically; a served call either takes effect and *)
(* answers, or answers IsError() and changes nothing.                      *)
(*                                                                         *)
(* store[k] is the version list of key k: store[k][i] is version i-1.      *)
(* Version 0 is the pseudo version GetVersionList creates for a new key    *)
(* (deleted, visible from 0 to kMaxTimeStamp).  An uploaded version is     *)
(* dirty (begin = end = -1) and locks its predecessor (tx_id of the        *)
(* predecessor = writer) until CommitVersion or DeleteVersion.             *)
(***************************************************************************)
EXTENDS Integers, Sequences

CONSTANTS
    Keys,          \* keys of the one table modelled
    TxIds,         \* transaction ids
    kEmptyTxId,    \* VersionEntry::kEmptyTxId
    kMaxTimeStamp, \* VersionEntry::kMaxTimeStamp, larger than any ts reached
    Preloaded      \* keys that already hold a committed version 1

ASSUME Preloaded \subseteq Keys /\ kEmptyTxId \notin TxIds

VARIABLES
    store,    \* store[k]: the version list of k
    txns,     \* txns[t]: the TxnEntry of t at the handler, or NoTxn
    readcnt   \* readcnt[t][k]: read counters on k held by t (outstanding)

hvars == <<store, txns, readcnt>>

kDefaultBeginTs == -1
kDefaultEndTs == -1
kDefaultVersion == -1
kDefaultCommitTs == -1   \* TxnEntry::kDefaultCommitTs
kDefaultMaxTs == 0       \* VersionEntry::kDefaultMaxTs
\* The entry slot of a transaction the handler has not created.
NoTxn == [status |-> "NoTxn", cts |-> kDefaultCommitTs, lb |-> -1]

TxnStatus == {"Ongoing", "Committed", "WaitForAborting", "Aborting", "Aborted"}

TsMax(a, b) == IF a >= b THEN a ELSE b

(* A VersionEntry as the handler answers it, its version number included. *)
(* The field by (the transaction that uploaded the version, kEmptyTxId for *)
(* the initial ones) is history kept for the properties; no code reads it. *)
VersionEntry(k, i) ==
    LET r == store[k][i] IN
    [ver |-> i - 1, tx |-> r.tx, begin |-> r.begin, end |-> r.end,
     maxc |-> r.maxc, del |-> r.del, by |-> r.by]

\* VersionEntry() and VersionEntry::Reset, as the caller's result holds it
\* before the handler answers (max_commit_ts_ -1, is_deleted_ true).
DefaultVersionEntry ==
    [ver |-> kDefaultVersion, tx |-> kEmptyTxId, begin |-> kDefaultBeginTs,
     end |-> kDefaultEndTs, maxc |-> -1, del |-> TRUE, by |-> kEmptyTxId]

\* The pseudo version 0 of a key no one has written; for a key in Preloaded
\* it is followed by a committed version 1 written at timestamp 1.
PseudoVersion(k) ==
    [tx |-> kEmptyTxId, begin |-> 0,
     end |-> IF k \in Preloaded THEN 1 ELSE kMaxTimeStamp,
     maxc |-> kDefaultMaxTs, del |-> TRUE, by |-> kEmptyTxId]
LoadedVersion ==
    [tx |-> kEmptyTxId, begin |-> 1, end |-> kMaxTimeStamp,
     maxc |-> kDefaultMaxTs, del |-> FALSE, by |-> kEmptyTxId]

HInit ==
    /\ store = [k \in Keys |-> IF k \in Preloaded
                                THEN <<PseudoVersion(k), LoadedVersion>>
                                ELSE <<PseudoVersion(k)>>]
    /\ txns = [t \in TxIds |-> NoTxn]
    /\ readcnt = [t \in TxIds |-> [k \in Keys |-> 0]]

Release(t, k) == readcnt' = [readcnt EXCEPT ![t][k] = @ - 1]

(* GetVersionList(key, time): the latest two versions, newest first (the  *)
(* default entry stands in for a missing second one), and one more read   *)
(* counter held by the caller.                                            *)
GetVersionListReply(k) ==
    LET n == Len(store[k]) IN
    <<VersionEntry(k, n),
      IF n > 1 THEN VersionEntry(k, n - 1) ELSE DefaultVersionEntry>>

GetVersionList(t, k) ==
    /\ readcnt' = [readcnt EXCEPT ![t][k] = @ + 1]
    /\ UNCHANGED <<store, txns>>

(* UploadVersion: fails if version v exists (a w-w conflict); otherwise   *)
(* appends the dirty version, locks its predecessor and answers the       *)
(* predecessor's max_commit_ts.                                           *)
UploadVersionOK(k, v) == v = Len(store[k])

UploadVersionReply(k, v) == store[k][v].maxc

UploadVersion(t, k, v, del) ==
    /\ UploadVersionOK(k, v)
    /\ store' = [store EXCEPT ![k] =
                   Append([@ EXCEPT ![v].tx = t],
                          [tx |-> t, begin |-> kDefaultBeginTs,
                           end |-> kDefaultEndTs, maxc |-> 0, del |-> del,
                           by |-> t])]
    /\ UNCHANGED <<txns, readcnt>>

(* CommitVersion(key, v, expect_txn_id, begin, end, tx_id): v becomes     *)
(* visible from cts, its predecessor ends at cts and is unlocked; the     *)
(* writer's read counter on the predecessor is released with it.          *)
CommitVersionOK(t, k, v) ==
    /\ v + 1 <= Len(store[k]) /\ v >= 1
    /\ store[k][v + 1].tx = t

CommitVersion(t, k, v, cts) ==
    /\ CommitVersionOK(t, k, v)
    /\ store' = [store EXCEPT
                   ![k][v + 1] = [@ EXCEPT !.begin = cts, !.end = kMaxTimeStamp,
                                           !.tx = kEmptyTxId],
                   ![k][v] = [@ EXCEPT !.end = cts, !.tx = kEmptyTxId]]
    /\ Release(t, k)
    /\ UNCHANGED txns

(* DeleteVersion(key, v): removes the dirty version v of its sender and   *)
(* unlocks the predecessor.                                               *)
DeleteVersionOK(t, k, v) ==
    /\ v + 1 = Len(store[k]) /\ v >= 1
    /\ store[k][v + 1].tx = t /\ store[k][v + 1].end = kDefaultEndTs

DeleteVersion(t, k, v) ==
    /\ DeleteVersionOK(t, k, v)
    /\ store' = [store EXCEPT ![k] = [SubSeq(@, 1, v) EXCEPT ![v].tx = kEmptyTxId]]
    /\ UNCHANGED <<txns, readcnt>>

(* UpdateMaxCommitTsAndReread(key, v, cts): max_commit_ts of v becomes at *)
(* least cts; answers v as it is now (the default entry if v is gone) and *)
(* releases the caller's read counter.                                    *)
UpdateMaxCommitTsAndRereadReply(k, v, cts) ==
    IF v + 1 <= Len(store[k]) /\ v >= 0
    THEN [VersionEntry(k, v + 1) EXCEPT !.maxc = TsMax(@, cts)]
    ELSE DefaultVersionEntry

UpdateMaxCommitTsAndReread(t, k, v, cts) ==
    /\ store' = IF v + 1 <= Len(store[k]) /\ v >= 0
                THEN [store EXCEPT ![k][v + 1].maxc = TsMax(@, cts)]
                ELSE store
    /\ Release(t, k)
    /\ UNCHANGED txns

ReleaseReadCounter(t, k) ==
    /\ Release(t, k)
    /\ UNCHANGED <<store, txns>>

(* NewTxn(entry, local_time): (re)creates the TxnEntry, Ongoing, no commit *)
(* timestamp, lower bound the local time.                                 *)
NewTxn(t, local) ==
    /\ txns' = [txns EXCEPT ![t] = [status |-> "Ongoing", cts |-> kDefaultCommitTs,
                                    lb |-> local]]
    /\ UNCHANGED <<store, readcnt>>

(* SetCommitTimestamp(t, proposed): fixes and answers the commit timestamp, *)
(* at least the commit lower bound.                                       *)
SetCommitTimestampReply(t, p) == TsMax(p, txns[t].lb)

SetCommitTimestamp(t, p) ==
    /\ txns' = [txns EXCEPT ![t].cts = SetCommitTimestampReply(t, p)]
    /\ UNCHANGED <<store, readcnt>>

(* UpdateCommitLowerBound(u, b): raises u's lower bound to b; answers u's  *)
(* TxnEntry.                                                              *)
UpdateCommitLowerBound(u, b) ==
    /\ txns' = [txns EXCEPT ![u].lb = TsMax(@, b)]
    /\ UNCHANGED <<store, readcnt>>

UpdateTxnStatus(t, s) ==
    /\ txns' = [txns EXCEPT ![t].status = s]
    /\ UNCHANGED <<store, readcnt>>

VersionRec == [tx : TxIds \cup {kEmptyTxId}, begin : Int, end : Int,
               maxc : Int, del : BOOLEAN, by : TxIds \cup {kEmptyTxId}]

HTypeOK ==
    /\ \A k \in Keys : store[k] \in Seq(VersionRec) /\ Len(store[k]) >= 1
    /\ txns \in [TxIds -> [status : TxnStatus \cup {"NoTxn"}, cts : Int, lb : Int]]
    /\ readcnt \in [TxIds -> [Keys -> Nat]]
=============================================================================
