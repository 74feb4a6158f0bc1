---------------------------- MODULE TxnExecution ----------------------------
(***************************************************************************)
(* TransactionExecution (src/src/transaction/transaction-execution.cpp)   *)
(* and its operation chain (transaction-operation.cpp), one execution per  *)
(* session, all driven by one executor thread and talking to the Handler.  *)
(*                                                                         *)
(* exec[t] is the execution of session t.  Its operation_vector_ is kept   *)
(* as op, the operation at the bottom of the stack ("None" when empty),    *)
(* and kids, the handler calls that operation and the fan-out children it  *)
(* pushed above it have outstanding: a call is "wait" until the handler    *)
(* answers, "ret" once answered (IsFinished) and "next" once its NextImpl  *)
(* ran (move_to_next_).  One action of a session is one MoveForward pass   *)
(* of the executor's Advance loop over that execution, with the request    *)
(* dispatch that follows in the same pass when the stack became empty.     *)
(***************************************************************************)
EXTENDS Handler, SequencesExt, Relation

CONSTANTS
    Program,    \* Program[t]: the requests of session t, in order
    NoKey,      \* the key field of a request that has none
    MaxFaults,  \* how many handler calls may answer IsError() in a run
    LostReplies \* whether a call that took effect may still answer IsError()

ASSUME MaxFaults \in Nat /\ NoKey \notin Keys /\ LostReplies \in BOOLEAN

VARIABLES
    clock,    \* the executor's LocalTimeProvider (time_value_ + count_)
    exec,     \* exec[t]: the TransactionExecution of session t
    crashed,  \* TransactionExecution::Recover threw: the executor is gone
    faults    \* handler calls answered IsError() so far

vars == <<clock, exec, crashed, faults, store, txns, readcnt>>

ReqOps == {"Begin", "Read", "Insert", "Upsert", "Update", "Delete",
           "Commit", "Abort"}

\* Result: note is the OperationRequest's finished flag set by Notify.
NoResult == [note |-> FALSE, err |-> FALSE, null |-> FALSE, del |-> FALSE,
             status |-> "Ongoing"]

\* A handler call issued by an operation; idx is the read- or write-set
\* entry it is about, arg its timestamp or status argument.
Kid(m, k, v, arg, idx) ==
    [m |-> m, key |-> k, ver |-> v, arg |-> arg, idx |-> idx,
     st |-> "wait", err |-> FALSE, reply |-> "none"]

\* TransactionExecution::Reset, before the session is launched.
NewExecution(t) ==
    [pc |-> 0, cur |-> 0, op |-> "None", kids |-> <<>>, status |-> "Ongoing",
     fin |-> FALSE, rs |-> <<>>, ws |-> <<>>, cts |-> -1, maxw |-> -1,
     local |-> -1, res |-> [i \in 1..Len(Program[t]) |-> NoResult]]

Init ==
    /\ HInit
    /\ clock = 2
    /\ exec = [t \in TxIds |-> NewExecution(t)]
    /\ crashed = FALSE
    /\ faults = 0

-----------------------------------------------------------------------------
(* LocalState: read set and write set, scanned newest first.              *)

FindInReadSet(s, k) == SelectLastInSeq(s.rs, LAMBDA e : e.key = k)
FindInWriteSet(s, k) == SelectLastInSeq(s.ws, LAMBDA e : e.key = k)

\* The pools hand out the entry at pop_index_, growing by one when full
\* (Resize), and Release gives back the last one: a sequence with Append
\* and Front.  A recycled read entry keeps what it held; nothing reads it
\* before InternalRead fills it, so it is given a fixed placeholder.
InsertReadSet(rs) ==
    Append(rs, [key |-> NoKey, ver |-> kDefaultVersion, begin |-> kDefaultBeginTs,
                del |-> TRUE, upd |-> FALSE, rel |-> TRUE, by |-> kEmptyTxId])
ReleaseReadSet(rs) == Front(rs)
NewWriteSetEntry(ws, k, ver, del, rd, req) ==
    Append(ws, [key |-> k, ver |-> ver, del |-> del, rd |-> rd, pp |-> FALSE,
                req |-> req])

\* InsertWriteSet for the read entry i, which the write supersedes.
StageWrite(s, i, del) ==
    [s EXCEPT !.rs[i].upd = TRUE,
              !.ws = NewWriteSetEntry(@, s.rs[i].key, s.rs[i].ver + 1, del, i,
                                      s.cur)]

\* Result setters of the current request (each one notifies).
ResFinished(s) == [s EXCEPT !.res[s.cur].note = TRUE]
ResErr(s) == [s EXCEPT !.res[s.cur].err = TRUE, !.res[s.cur].note = TRUE]
ResNull(s) == [s EXCEPT !.res[s.cur].null = TRUE, !.res[s.cur].note = TRUE]
ResDeleted(s) == [s EXCEPT !.res[s.cur].del = TRUE, !.res[s.cur].note = TRUE]
ResStatus(s, st) ==
    [s EXCEPT !.res[s.cur].status = st, !.res[s.cur].note = TRUE]

-----------------------------------------------------------------------------
(* The client entry points: each resets the result and calls an operation. *)

Begin(s) ==
    [s EXCEPT !.op = "InitTxn", !.kids = <<Kid("NewTxn", NoKey, 0, s.local, 0)>>]

\* ReadOutsideOperation::Reset + CallImpl: a fresh read-set slot (its
\* content is whatever the slot held; no code reads it before InternalRead)
\* and GetVersionList at the local timestamp.  Read, Insert and Upsert.
ReadOutsideCall(s, k, op) ==
    [s EXCEPT !.op = op,
              !.rs = InsertReadSet(@),
              !.kids = <<Kid("GetVersionList", k, 0, s.local, Len(s.rs) + 1)>>]

\* Mutant: the staged Update never calls SetFinished.
UpdateCallSilent(s, k) ==
    LET i == FindInReadSet(s, k) IN
    IF i = 0 \/ (s.rs[i].del /\ s.rs[i].ver > 0) THEN ResErr(s)
    ELSE StageWrite(s, i, FALSE)
\* UpdateOperation::CallImpl, finished synchronously.
UpdateCall(s, k) ==
    LET i == FindInReadSet(s, k) IN
    IF i = 0 \/ (s.rs[i].del /\ s.rs[i].ver > 0) THEN ResErr(s)
    ELSE ResFinished(StageWrite(s, i, FALSE))

\* DeleteOperation::CallImpl, finished synchronously.
DeleteCall(s, k) ==
    LET w == FindInWriteSet(s, k)
        i == FindInReadSet(s, k)
    IN  IF w # 0
        THEN IF s.ws[w].del THEN ResErr(s)
             ELSE ResFinished([s EXCEPT !.ws[w].del = TRUE])
        ELSE IF i # 0
        THEN IF s.rs[i].del THEN ResErr(s)
             ELSE ResFinished(StageWrite(s, i, TRUE))
        ELSE ResErr(s)

\* Upload::Reset + CallImpl: one UploadVersion per write-set entry.
UploadCall(s) ==
    [s EXCEPT !.op = "Upload",
              !.kids = [j \in 1..Len(s.ws) |->
                          Kid("UploadVersion", s.ws[j].key, s.ws[j].ver,
                              s.ws[j].del, j)]]

\* TransactionExecution::Abort: CleanStack, reset the result and call
\* UpdateTxnStatusToAbort.
AbortCall(s) ==
    [s EXCEPT !.res[s.cur] = NoResult, !.op = "UpdateTxnStatusToAbort",
              !.kids = <<Kid("UpdateTxnStatus", NoKey, 0, "Aborted", 0)>>]

\* The end of a MoveForward pass in which an operation returned Abort():
\* status is forced to kAborted and the execution re-enters Abort.
AbortExec(s) == AbortCall([s EXCEPT !.status = "Aborted"])

\* The Advance loop's dispatch of the session's next request
\* (TransactionRequest::CurrentRequest and the switch on its type).
DispatchRequest(t, s) ==
    LET r == Program[t][s.pc]
        s1 == [s EXCEPT !.cur = s.pc, !.pc = s.pc + 1,
                        !.res[s.pc] = NoResult]
    IN  CASE r.op = "Begin"  -> Begin(s1)
          [] r.op \in {"Read", "Insert", "Upsert"} ->
                ReadOutsideCall(s1, r.key, r.op)
          [] r.op = "Update" -> UpdateCall(s1, r.key)
          [] r.op = "Delete" -> DeleteCall(s1, r.key)
          [] r.op = "Commit" -> UploadCall(s1)
          [] r.op = "Abort"  -> AbortCall(s1)

\* After a pass that emptied the stack, the same Advance iteration hands
\* the execution its next request.
AfterPass(t, s) ==
    IF s.op = "None" /\ ~s.fin /\ s.pc \in 1..Len(Program[t])
    THEN DispatchRequest(t, s) ELSE s

Done(s) == [s EXCEPT !.op = "None", !.kids = <<>>]

-----------------------------------------------------------------------------
(* NextImpl of the operations.                                             *)

Ret(s) == {j \in DOMAIN s.kids : s.kids[j].st = "ret"}
\* Mutant: move_to_next_ never set.
ToNextStay(kid) == kid
ToNext(kid) == [kid EXCEPT !.st = "next"]
\* IsFinished of a fan-out operation: every child is cascade-finished.
AllNext(s) == \A j \in DOMAIN s.kids : s.kids[j].st = "next"

\* Children of a fan-out over read- or write-set entries, in index order.
ReadCalls(s, I, m, arg) ==
    LET q == SetToSortSeq(I, <) IN
    [j \in 1..Len(q) |-> Kid(m, s.rs[q[j]].key, s.rs[q[j]].ver, arg, q[j])]
WriteCalls(s, I, m, arg) ==
    LET q == SetToSortSeq(I, <) IN
    [j \in 1..Len(q) |-> Kid(m, s.ws[q[j]].key, s.ws[q[j]].ver, arg, q[j])]

\* PickVisibleVersion: the visible version of a pair, as a set of 0 or 1.
InternalPickVisibleVersion(v1, v2) ==
    LET c == IF v1.end # kDefaultEndTs THEN {v1}
             ELSE IF v2.ver # kDefaultVersion THEN {v2} ELSE {}
    IN  {r \in c : ~r.del \/ r.ver > 0}

PickVisibleVersion(vl) ==
    IF vl[1].ver > vl[2].ver THEN InternalPickVisibleVersion(vl[1], vl[2])
    ELSE IF vl[1].ver < vl[2].ver THEN InternalPickVisibleVersion(vl[2], vl[1])
    ELSE {}

\* ReadOutsideOperation::InternalRead: fill the read-set slot, answer.
InternalRead(s) ==
    LET kid == s.kids[1]
        vis == PickVisibleVersion(kid.reply)
        Entry(v) == [key |-> kid.key, ver |-> v.ver, begin |-> v.begin,
                     del |-> v.del, upd |-> FALSE, rel |-> TRUE, by |-> v.by]
    IN  IF vis = {}
        THEN ResNull([s EXCEPT !.rs[kid.idx] =
                        [key |-> kid.key, ver |-> 0, begin |-> 0, del |-> TRUE,
                         upd |-> FALSE, rel |-> TRUE, by |-> kEmptyTxId]])
        ELSE LET v == CHOOSE x \in vis : TRUE IN
             IF v.del THEN ResDeleted([s EXCEPT !.rs[kid.idx] = Entry(v)])
             ELSE ResFinished([s EXCEPT !.rs[kid.idx] = Entry(v)])

\* ReadOutsideOperation::NextImpl: on error the slot is released.
ReadOutsideNext(s) ==
    IF s.kids[1].err THEN ResErr([s EXCEPT !.rs = ReleaseReadSet(@)])
    ELSE InternalRead(s)

InsertNextImpl(s, k) ==
    LET i == FindInReadSet(s, k) IN
    IF i # 0 /\ s.rs[i].del THEN ResFinished(StageWrite(s, i, FALSE))
    ELSE ResErr(s)

UpsertNextImpl(s, k) ==
    LET i == FindInReadSet(s, k) IN
    IF i # 0 THEN ResFinished(StageWrite(s, i, FALSE)) ELSE s

\* UploadVersionEntry::NextImpl of the answered children.
\* Mutant: need_post_processing_ not set after a successful upload.
MarkUploadedNot(w) == w
MarkUploaded(w) == [w EXCEPT !.pp = TRUE]
UploadKids(s, R) ==
    LET ok == {j \in R : ~s.kids[j].err} IN
    [s EXCEPT !.kids = [j \in DOMAIN s.kids |->
                          IF j \in R THEN ToNext(s.kids[j]) ELSE s.kids[j]],
              !.ws = [j \in DOMAIN s.ws |->
                          IF j \in ok THEN MarkUploaded(s.ws[j]) ELSE s.ws[j]],
              !.maxw = Max({s.maxw} \cup {s.kids[j].reply : j \in ok}),
              !.status = IF ok = R THEN s.status ELSE "WaitForAborting"]

\* SetCommitTsOperation::CallImpl's candidate, local the fresh local time.
SetCommitTsProposal(s, local) ==
    Max({s.maxw + 1, local} \cup
        {IF FindInWriteSet(s, e.key) # 0 THEN e.begin + 1 ELSE e.begin :
           e \in ToSet(s.rs)})

SetCommitTsCall(s, c) ==
    LET p == SetCommitTsProposal(s, c) IN
    [s EXCEPT !.op = "SetCommitTs", !.local = c, !.cts = p,
              !.kids = <<Kid("SetCommitTimestamp", NoKey, 0, p, 0)>>]

\* Validate::Reset: the read entries no write of this txn superseded.
ValidateIndices(s) == {i \in 1..Len(s.rs) : ~s.rs[i].upd}

ValidateCall(s, cts) ==
    [s EXCEPT !.op = "Validate", !.cts = cts,
              !.kids = ReadCalls(s, ValidateIndices(s),
                                 "UpdateMaxCommitTsAndReread", cts)]

\* UpdateReadEntryMaxCommitTs::NextImpl: abort on error, on a missing
\* version or when a newer version ended the read one before cts ...
RereadAborts(s, kid) ==
    \/ kid.err
    \/ kid.reply.ver = kDefaultVersion
    \/ s.cts > kid.reply.end
\* ... and push the lower bound of the transaction that locks it.
\* Mutant: the lock on the reread version is ignored.
RereadLockedIgnored(s, kid) == FALSE
RereadLocked(s, kid) == kid.reply.tx # kEmptyTxId

\* PushConflictTxnCommitTsLowerBound::NextImpl.
PushAborts(s, kid) ==
    \/ kid.err
    \/ kid.reply.status = "Committed" /\ kid.reply.cts <= s.cts
    \/ /\ kid.reply.status = "Ongoing"
       /\ kid.reply.cts # kDefaultCommitTs /\ kid.reply.cts <= s.cts

IsReread(kid) == kid.m = "UpdateMaxCommitTsAndReread"

ValidateKidNext(s, kid) ==
    IF IsReread(kid) /\ ~RereadAborts(s, kid) /\ RereadLocked(s, kid)
    THEN Kid("UpdateCommitLowerBound", kid.key, 0,
             [tx |-> kid.reply.tx, lb |-> s.cts + 1], kid.idx)
    ELSE ToNext(kid)

KidAborts(s, kid) ==
    IF IsReread(kid) THEN RereadAborts(s, kid) ELSE PushAborts(s, kid)

ValidateKids(s, R) ==
    [s EXCEPT !.kids = [j \in DOMAIN s.kids |->
                          IF j \in R THEN ValidateKidNext(s, s.kids[j])
                          ELSE s.kids[j]],
              !.rs = [i \in DOMAIN s.rs |->
                        IF \E j \in R : IsReread(s.kids[j]) /\ ~s.kids[j].err
                                        /\ s.kids[j].idx = i
                        THEN [s.rs[i] EXCEPT !.rel = FALSE] ELSE s.rs[i]],
              !.status = IF \E j \in R : KidAborts(s, s.kids[j])
                         THEN "WaitForAborting" ELSE s.status]

ValidateNext(s) ==
    IF s.status = "WaitForAborting" THEN AbortExec(s)
    ELSE [s EXCEPT !.op = "WriteToLog", !.kids = <<>>]

\* PostProcessingAfterCommit/AfterAbort::Reset: the uploaded entries.
PostProcessIndices(s) == {j \in 1..Len(s.ws) : s.ws[j].pp}

CommitStatusNextImpl(s) ==
    [ResStatus(s, "Committed") EXCEPT
        !.op = "PostProcessingAfterCommit",
        !.kids = WriteCalls(s, PostProcessIndices(s), "CommitVersion", s.cts)]

\* PostProcessingCommitEntryAfterCommit::NextImpl: the read entry the
\* write superseded no longer needs its counter released.
PostCommitKids(s, R) ==
    [s EXCEPT !.kids = [j \in DOMAIN s.kids |->
                          IF j \in R THEN ToNext(s.kids[j]) ELSE s.kids[j]],
              !.rs = [i \in DOMAIN s.rs |->
                        IF \E j \in R : s.ws[s.kids[j].idx].rd = i
                        THEN [s.rs[i] EXCEPT !.rel = FALSE] ELSE s.rs[i]]]

AbortStatusNextImpl(s) ==
    [ResStatus(s, "Aborted") EXCEPT
        !.op = "PostProcessingAfterAbort",
        !.kids = WriteCalls(s, PostProcessIndices(s), "DeleteVersion", 0)]

\* Mutant: need_release_ is not consulted.
ReleaseIndicesAll(s) == 1..Len(s.rs)
\* Mutant: the entries a write superseded are skipped.
ReleaseIndicesNotUpdated(s) == {i \in 1..Len(s.rs) : s.rs[i].rel /\ ~s.rs[i].upd}
\* ReleaseReadCounter::Reset: the read entries still holding a counter.
ReleaseIndices(s) == {i \in 1..Len(s.rs) : s.rs[i].rel}

\* PostProcessingDeleteEntryAfterAbort::NextImpl releases nothing: the
\* read entry's need_post_processing_ it tests is never set.
PostAbortNextImpl(s) ==
    [s EXCEPT !.op = "ReleaseReadCounter",
              !.kids = ReadCalls(s, ReleaseIndices(s), "ReleaseReadCounter", 0)]

ReleaseKids(s, R) ==
    [s EXCEPT !.kids = [j \in DOMAIN s.kids |->
                          IF j \in R THEN ToNext(s.kids[j]) ELSE s.kids[j]],
              !.rs = [i \in DOMAIN s.rs |->
                        IF \E j \in R : s.kids[j].idx = i
                        THEN [s.rs[i] EXCEPT !.rel = FALSE] ELSE s.rs[i]]]

Finish(s, st) == [Done(s) EXCEPT !.status = st, !.fin = TRUE]
-----------------------------------------------------------------------------
(* The executor's steps of session t.                                       *)

Step(t, s1) ==
    /\ exec' = [exec EXCEPT ![t] = s1]
    /\ UNCHANGED <<crashed, faults, hvars>>

\* Recover() throws out of the executor thread.
Recover ==
    /\ crashed' = TRUE
    /\ UNCHANGED <<clock, exec, faults, hvars>>

Answered(s, op) == ~crashed /\ s.op = op /\ s.kids[1].st = "ret"

\* LaunchRequests binds the session to a slot: TransactionTask::Reset,
\* TransactionExecution::Reset, a new txn id and GetTime.
Launch(t) ==
    /\ ~crashed /\ exec[t].pc = 0
    /\ clock' = clock + 1
    /\ Step(t, [exec[t] EXCEPT !.pc = 1, !.local = clock])

\* MoveForward finds the stack empty; the next request is dispatched.
Dispatch(t) ==
    LET s == exec[t] IN
    /\ ~crashed /\ s.op = "None" /\ ~s.fin /\ s.pc \in 1..Len(Program[t])
    /\ Step(t, DispatchRequest(t, s))
    /\ UNCHANGED clock

\* InitTxnOperation::NextImpl: on error a new txn id and local time and
\* NewTxn again; otherwise the Begin request is answered.
InitTxnNext(t) ==
    LET s == exec[t] IN
    /\ Answered(s, "InitTxn")
    /\ IF s.kids[1].err
       THEN /\ clock' = clock + 1
            /\ Step(t, [s EXCEPT !.local = clock,
                          !.kids = <<Kid("NewTxn", NoKey, 0, clock, 0)>>])
       ELSE /\ Step(t, AfterPass(t, ResFinished(Done(s))))
            /\ UNCHANGED clock

ReadNext(t) ==
    /\ Answered(exec[t], "Read")
    /\ Step(t, AfterPass(t, Done(ReadOutsideNext(exec[t]))))
    /\ UNCHANGED clock

\* The ReadOutside child and then its Insert parent finish in one pass.
InsertNext(t) ==
    LET s == exec[t] IN
    /\ Answered(s, "Insert")
    /\ Step(t, AfterPass(t, Done(InsertNextImpl(ReadOutsideNext(s),
                                                s.kids[1].key))))
    /\ UNCHANGED clock

UpsertNext(t) ==
    LET s == exec[t] IN
    /\ Answered(s, "Upsert")
    /\ Step(t, AfterPass(t, Done(UpsertNextImpl(ReadOutsideNext(s),
                                                s.kids[1].key))))
    /\ UNCHANGED clock

\* A pass over Upload and its UploadVersionEntry children; when they are
\* all done, Upload::NextImpl aborts or calls SetCommitTsOperation, which
\* takes a new local time (ResetTime), proposes a commit timestamp, adopts
\* it (SetCommitTs, SetTime) and sends it to the handler.
UploadStep(t) ==
    LET s == exec[t]
        s1 == UploadKids(s, Ret(s))
    IN
    /\ ~crashed /\ s.op = "Upload" /\ (Ret(s) # {} \/ AllNext(s))
    /\ IF ~AllNext(s1) \/ s1.status = "WaitForAborting"
       THEN /\ Step(t, IF AllNext(s1) THEN AbortExec(s1) ELSE s1)
            /\ UNCHANGED clock
       ELSE /\ Step(t, SetCommitTsCall(s1, clock))
            /\ clock' = TsMax(clock + 1, SetCommitTsProposal(s1, clock))

\* SetCommitTsOperation::NextImpl: adopt the handler's timestamp, Validate.
SetCommitTsNext(t) ==
    LET s == exec[t]
        kid == s.kids[1]
    IN
    /\ Answered(s, "SetCommitTs")
    /\ IF kid.err \/ kid.reply < 0
       THEN Step(t, AbortExec(s)) /\ UNCHANGED clock
       ELSE /\ Step(t, ValidateCall(s, kid.reply))
            /\ clock' = TsMax(clock, kid.reply)

ValidateStep(t) ==
    LET s == exec[t]
        s1 == ValidateKids(s, Ret(s))
    IN
    /\ ~crashed /\ s.op = "Validate" /\ (Ret(s) # {} \/ AllNext(s))
    /\ Step(t, IF AllNext(s1) THEN ValidateNext(s1) ELSE s1)
    /\ UNCHANGED clock

\* WriteToLog finishes in its CallImpl (Constant::ENABLE_LOG is false);
\* the next pass calls UpdateTxnStatusToCommit.
\* Mutant: the versions are committed before the status is.
WriteToLogNextSkipStatus(t) ==
    /\ ~crashed /\ exec[t].op = "WriteToLog"
    /\ Step(t, CommitStatusNextImpl(exec[t]))
    /\ UNCHANGED clock
WriteToLogNext(t) ==
    /\ ~crashed /\ exec[t].op = "WriteToLog"
    /\ Step(t, [exec[t] EXCEPT !.op = "UpdateTxnStatusToCommit",
                  !.kids = <<Kid("UpdateTxnStatus", NoKey, 0, "Committed", 0)>>])
    /\ UNCHANGED clock

CommitStatusNext(t) ==
    /\ Answered(exec[t], "UpdateTxnStatusToCommit")
    /\ IF exec[t].kids[1].err THEN Recover
       ELSE Step(t, CommitStatusNextImpl(exec[t])) /\ UNCHANGED clock

\* A fan-out pass whose failed children call Recover.
PostStep(t, op, Kids(_, _), Parent(_)) ==
    LET s == exec[t]
        s1 == Kids(s, Ret(s))
    IN
    /\ ~crashed /\ s.op = op /\ (Ret(s) # {} \/ AllNext(s))
    /\ IF \E j \in Ret(s) : s.kids[j].err THEN Recover
       ELSE Step(t, IF AllNext(s1) THEN Parent(s1) ELSE s1) /\ UNCHANGED clock

PostCommitStep(t) ==
    PostStep(t, "PostProcessingAfterCommit", PostCommitKids,
             LAMBDA s : Finish(s, "Committed"))

AbortStatusNext(t) ==
    /\ Answered(exec[t], "UpdateTxnStatusToAbort")
    /\ IF exec[t].kids[1].err THEN Recover
       ELSE Step(t, AbortStatusNextImpl(exec[t])) /\ UNCHANGED clock

PostAbortStep(t) ==
    PostStep(t, "PostProcessingAfterAbort",
             LAMBDA s, R : [s EXCEPT !.kids = [j \in DOMAIN s.kids |->
                              IF j \in R THEN ToNext(s.kids[j]) ELSE s.kids[j]]],
             PostAbortNextImpl)

ReleaseStep(t) ==
    PostStep(t, "ReleaseReadCounter", ReleaseKids,
             LAMBDA s : Finish(s, "Aborted"))

Executor(t) ==
    \/ Launch(t) \/ Dispatch(t) \/ InitTxnNext(t) \/ ReadNext(t)
    \/ InsertNext(t) \/ UpsertNext(t) \/ UploadStep(t) \/ SetCommitTsNext(t)
    \/ ValidateStep(t) \/ WriteToLogNext(t) \/ CommitStatusNext(t)
    \/ PostCommitStep(t) \/ AbortStatusNext(t) \/ PostAbortStep(t)
    \/ ReleaseStep(t)
-----------------------------------------------------------------------------
(* The handler serves one outstanding call of session t.                   *)

Waiting(t, j, m) == ~crashed /\ exec[t].kids[j].st = "wait" /\ exec[t].kids[j].m = m

\* The reply reaches the executor; with LostReplies the call may have taken
\* effect and still answer IsError() (a reply lost on the way back).
Answer(t, j, r) ==
    /\ \/ /\ exec' = [exec EXCEPT ![t].kids[j].st = "ret", ![t].kids[j].reply = r]
          /\ UNCHANGED faults
       \/ /\ LostReplies /\ faults < MaxFaults
          /\ exec' = [exec EXCEPT ![t].kids[j].st = "ret", ![t].kids[j].err = TRUE]
          /\ faults' = faults + 1
    /\ UNCHANGED <<clock, crashed>>

Fail(t, j) ==
    /\ exec' = [exec EXCEPT ![t].kids[j].st = "ret", ![t].kids[j].err = TRUE]
    /\ UNCHANGED <<clock, crashed, hvars>>

ServeNewTxn(t, j) ==
    /\ Waiting(t, j, "NewTxn")
    /\ NewTxn(t, exec[t].kids[j].arg) /\ Answer(t, j, "void")

ServeGetVersionList(t, j) ==
    LET k == exec[t].kids[j].key IN
    /\ Waiting(t, j, "GetVersionList")
    /\ GetVersionList(t, k) /\ Answer(t, j, GetVersionListReply(k))

\* A w-w conflict is answered IsError() like any failure.
ServeUploadVersion(t, j) ==
    LET kid == exec[t].kids[j] IN
    /\ Waiting(t, j, "UploadVersion")
    /\ \/ /\ UploadVersion(t, kid.key, kid.ver, kid.arg)
          /\ Answer(t, j, UploadVersionReply(kid.key, kid.ver))
       \/ /\ ~UploadVersionOK(kid.key, kid.ver)
          /\ Fail(t, j) /\ UNCHANGED faults

ServeSetCommitTimestamp(t, j) ==
    LET p == exec[t].kids[j].arg IN
    /\ Waiting(t, j, "SetCommitTimestamp")
    /\ SetCommitTimestamp(t, p) /\ Answer(t, j, SetCommitTimestampReply(t, p))

ServeUpdateMaxCommitTsAndReread(t, j) ==
    LET kid == exec[t].kids[j] IN
    /\ Waiting(t, j, "UpdateMaxCommitTsAndReread")
    /\ UpdateMaxCommitTsAndReread(t, kid.key, kid.ver, kid.arg)
    /\ Answer(t, j, UpdateMaxCommitTsAndRereadReply(kid.key, kid.ver, kid.arg))

ServeUpdateCommitLowerBound(t, j) ==
    LET a == exec[t].kids[j].arg IN
    /\ Waiting(t, j, "UpdateCommitLowerBound")
    /\ UpdateCommitLowerBound(a.tx, a.lb)
    /\ Answer(t, j, [txns[a.tx] EXCEPT !.lb = TsMax(@, a.lb)])

ServeUpdateTxnStatus(t, j) ==
    /\ Waiting(t, j, "UpdateTxnStatus")
    /\ UpdateTxnStatus(t, exec[t].kids[j].arg) /\ Answer(t, j, "void")

ServeCommitVersion(t, j) ==
    LET kid == exec[t].kids[j] IN
    /\ Waiting(t, j, "CommitVersion")
    /\ CommitVersion(t, kid.key, kid.ver, kid.arg) /\ Answer(t, j, "void")

ServeDeleteVersion(t, j) ==
    LET kid == exec[t].kids[j] IN
    /\ Waiting(t, j, "DeleteVersion")
    /\ DeleteVersion(t, kid.key, kid.ver) /\ Answer(t, j, "void")

ServeReleaseReadCounter(t, j) ==
    /\ Waiting(t, j, "ReleaseReadCounter")
    /\ ReleaseReadCounter(t, exec[t].kids[j].key) /\ Answer(t, j, "void")

\* Any call may fail (a remote or network error) without taking effect.
HandlerError(t, j) ==
    /\ ~crashed /\ faults < MaxFaults /\ exec[t].kids[j].st = "wait"
    /\ Fail(t, j) /\ faults' = faults + 1

HandlerServes(t) ==
    \E j \in DOMAIN exec[t].kids :
        \/ ServeNewTxn(t, j) \/ ServeGetVersionList(t, j)
        \/ ServeUploadVersion(t, j) \/ ServeSetCommitTimestamp(t, j)
        \/ ServeUpdateMaxCommitTsAndReread(t, j)
        \/ ServeUpdateCommitLowerBound(t, j) \/ ServeUpdateTxnStatus(t, j)
        \/ ServeCommitVersion(t, j) \/ ServeDeleteVersion(t, j)
        \/ ServeReleaseReadCounter(t, j)

\* Every session finished, or the executor died: nothing more happens.
Terminated ==
    /\ crashed \/ \A t \in TxIds : exec[t].fin
    /\ UNCHANGED vars

Next ==
    \/ \E t \in TxIds : Executor(t) \/ HandlerServes(t)
    \/ \E t \in TxIds : \E j \in DOMAIN exec[t].kids : HandlerError(t, j)
    \/ Terminated

\* The executor's loop visits every bound slot on each pass, and the
\* handler answers every call it is sent: both are weakly fair.  Failures
\* are not: a run may see none.
Fairness == \A t \in TxIds : WF_vars(Executor(t)) /\ WF_vars(HandlerServes(t))

Spec == Init /\ [][Next]_vars /\ Fairness

-----------------------------------------------------------------------------
(* Properties                                                              *)

ReadEntry == [key : Keys \cup {NoKey}, ver : Int, begin : Int, del : BOOLEAN,
              upd : BOOLEAN, rel : BOOLEAN, by : TxIds \cup {kEmptyTxId}]
WriteEntry == [key : Keys, ver : Nat, del : BOOLEAN, rd : Nat, pp : BOOLEAN,
               req : Nat]

TypeOK ==
    /\ HTypeOK
    /\ clock \in Nat /\ crashed \in BOOLEAN /\ faults \in 0..MaxFaults
    /\ \A t \in TxIds :
        /\ exec[t].status \in TxnStatus /\ exec[t].fin \in BOOLEAN
        /\ exec[t].rs \in Seq(ReadEntry) /\ exec[t].ws \in Seq(WriteEntry)
        /\ exec[t].pc \in 0..Len(Program[t]) + 1
        /\ \A j \in DOMAIN exec[t].kids :
              exec[t].kids[j].st \in {"wait", "ret", "next"}
(* The transactions the handler records as committed.                      *)
CommittedTxns == {t \in TxIds : txns[t].status = "Committed"}

Reads(t) == {<<e.key, e.ver, e.by>> : e \in ToSet(exec[t].rs)}
Writes(t) == {<<w.key, w.ver>> : w \in ToSet(exec[t].ws)}

\* u must precede t in any serial order: t read what u wrote (w-r), t wrote
\* a later version of a key u wrote (w-w), or t overwrote a version u read
\* (r-w, the anti-dependency).
MustPrecede(u, t) ==
    /\ u # t
    /\ \/ \E r \in Reads(t) : r[3] = u
       \/ \E w \in Writes(t), x \in Writes(u) : w[1] = x[1] /\ x[2] < w[2]
       \/ \E w \in Writes(t), r \in Reads(u) : w[1] = r[1] /\ r[2] < w[2]

(* The OCC protocol (Upload's version locks, SetCommitTs, Validate's       *)
(* reread of every read version and the push of a locking transaction's    *)
(* commit lower bound) admits only conflict-serializable histories: the    *)
(* conflict graph over the committed transactions has no cycle.            *)
ConflictSerializable ==
    LET C == CommittedTxns
    IN  IsIrreflexive(TransitiveClosure([p \in C \X C |-> MustPrecede(p[1], p[2])], C), C)

(* Every read counter GetVersionList took is released by the time the     *)
(* transaction finished: by Validate's reread, by CommitVersion of a write *)
(* that superseded the read, or by the abort path's ReleaseReadCounter of  *)
(* the entries still marked need_release_.  (TypeOK keeps every counter    *)
(* non-negative: none is released twice.)                                  *)
ReadCountersReleased ==
    \A t \in TxIds : exec[t].fin => \A k \in Keys : readcnt[t][k] = 0

Versions(k) == {store[k][i] : i \in DOMAIN store[k]}

Installed(t, w) ==
    /\ w.ver + 1 <= Len(store[w.key])
    /\ store[w.key][w.ver + 1].by = t
    /\ store[w.key][w.ver + 1].begin = exec[t].cts

(* A finished transaction leaves no version locked or dirty: commit        *)
(* installs every staged write at the commit timestamp (post-processing of  *)
(* the entries Upload marked need_post_processing_) and abort deletes every *)
(* version it uploaded.                                                    *)
FinishedLeavesNoDirtyVersions ==
    \A t \in TxIds : exec[t].fin =>
        /\ \A k \in Keys : \A v \in Versions(k) : v.tx # t
        /\ exec[t].status = "Committed" =>
              \A j \in DOMAIN exec[t].ws : Installed(t, exec[t].ws[j])
        /\ exec[t].status = "Aborted" =>
              \A k \in Keys : \A v \in Versions(k) : v.by # t

(* Every session's last request is answered: the executor loop drives each *)
(* execution through commit or abort and its cleanup to finished, or the   *)
(* executor stops in Recover.                                              *)
Termination == <>(crashed \/ \A t \in TxIds : exec[t].fin)

(* The committed history of a key: the writers of its versions that are   *)
(* committed in the store or whose writer the handler records committed.  *)
Counted(v) ==
    /\ v.by # kEmptyTxId
    /\ v.end # kDefaultEndTs \/ txns[v.by].status = "Committed"
CommittedChain(k) ==
    LET c == SelectSeq(store[k], Counted) IN [i \in DOMAIN c |-> c[i].by]

Abstract == INSTANCE CommittedStore WITH
                kv <- [k \in Keys |-> CommittedChain(k)], committed <- CommittedTxns

(* The store implements CommittedStore: UpdateTxnStatus(Committed) is the   *)
(* single step at which all of a transaction's uploaded versions join the  *)
(* committed history (CommitVersion afterwards only finalizes them), no    *)
(* aborted or dirty version ever joins it, and none ever leaves it.        *)
CommittedStoreRefined == Abstract!Spec

(* Every request's Result is notified before the session's next request  *)
(* is dispatched, and the last one by the time the execution finishes:     *)
(* each exit of every operation chain (success, error, abort, the status   *)
(* of Commit or Abort) ends in a Result setter, or a client that Wait()s   *)
(* for it hangs while the executor moves on.  Recover ends the executor.   *)
RequestsAnswered ==
    ~crashed =>
        \A t \in TxIds : \A i \in DOMAIN Program[t] :
            i < exec[t].cur \/ (i = exec[t].cur /\ exec[t].fin)
                => exec[t].res[i].note

(* spec.md: Insert fails when the key already exists.  No write an       *)
(* Insert stages lies over a live write of the same transaction to that   *)
(* key: InsertOperation::NextImpl decides on the read-set entry alone,     *)
(* which comes from the store, where the transaction's own write is not    *)
(* yet visible.                                                            *)
InsertNotOverOwnWrite ==
    \A t \in TxIds : \A j \in DOMAIN exec[t].ws :
        LET w == exec[t].ws[j] IN
        Program[t][w.req].op = "Insert" =>
            \A i \in 1..j - 1 : exec[t].ws[i].key = w.key => exec[t].ws[i].del

-----------------------------------------------------------------------------
(* What spec.md says and the code does not do (violation runs).           *)

(* spec.md: conflicts are with a different in-flight writer; a transaction *)
(* running alone, whose requests all succeeded, commits.                   *)
SoloTransactionCommits ==
    \A t \in TxIds :
        /\ TxIds = {t} /\ exec[t].fin /\ Last(Program[t]).op = "Commit"
        /\ \A i \in DOMAIN Program[t] : i < Len(Program[t]) => ~exec[t].res[i].err
        => exec[t].status = "Committed"

(* spec.md: the abort path deletes the uploaded versions and releases the *)
(* read counters first and updates the status at the handler to Aborted   *)
(* last: a transaction the handler shows aborted holds nothing.           *)
AbortedAfterCleanup ==
    \A t \in TxIds : txns[t].status = "Aborted" =>
        /\ \A k \in Keys : \A v \in Versions(k) : v.tx # t
        /\ \A k \in Keys : readcnt[t][k] = 0

(* spec.md: a request whose Result is an error (key exists, failed read)   *)
(* stages no write.                                                        *)
ErrorResultStagesNoWrite ==
    \A t \in TxIds : \A j \in DOMAIN exec[t].ws :
        LET i == exec[t].ws[j].req IN ~exec[t].res[i].err
=============================================================================
