------------------------------ MODULE TaskSlots ------------------------------
(***************************************************************************)
(* The slots both executors own: a vector of TransactionTask               *)
(* (transaction-task.h), each a TransactionExecution with its              *)
(* TransactionRequest (transaction-request.cpp), and the visit of one slot *)
(* in Advance, which both executors write the same way. The execution is   *)
(* abstracted to what an executor sees of it: idle, waiting for the        *)
(* handler on the request it was handed, answered, or post-processing a    *)
(* Commit or Abort whose client has been notified, and whether that        *)
(* post-processing finished it. TxnExecution.tla models what it            *)
(* does in between.                                                        *)
(***************************************************************************)
EXTENDS Integers, Sequences, SequencesExt, FiniteSets

CONSTANTS
    Sessions,      \* the session ids the clients use (int64_t in the code)
    SlotCount,     \* concurrent_txn_count_
    Prog,          \* the request kinds every session issues, in order
    IntMax,        \* INT64_MAX, scaled down
    ExecutorCount, \* the count the SimpleTxnIDGeneratorFactory is made with
    ExecutorId     \* executor_id_ of this executor

ASSUME /\ Sessions \subseteq Int
       /\ SlotCount \in Nat \ {0}
       /\ Prog \in Seq({"Begin", "Op", "ReadDataStore", "Commit", "Abort"})
       /\ ExecutorCount \in 1..IntMax /\ ExecutorId \in 0..ExecutorCount - 1

Slots == 1..SlotCount
\* A request: its session and its position in the session's program.
Request == [sid : Sessions, n : 1..Len(Prog)]
NoRequest == [sid |-> 0, n |-> 0]
Kind(r) == Prog[r.n]
\* The transaction of the session a request belongs to: the number of
\* Begins up to it.
TxnOf(n) == Cardinality({m \in 1..n : Prog[m] = "Begin"})

\* The txn id generator. SimpleTxnIDGeneratorFactory: interval_ is
\* INT64_MAX / count; GetTxnIDGenerator(executor_id) makes a generator with
\* start_ = interval_ * executor_id, end_ = start_ + interval_, id_ = start_.
IdInterval == IntMax \div ExecutorCount
IdBase(e) == IdInterval * e
IdRange(e) == IdBase(e)..IdBase(e) + IdInterval - 1

\* SimpleTxnIDGenerator::GenerateID: id_++, and back to start_ at end_.
\* (Mutant: the wrap tested with > instead of ==.)
GenerateIDWrapLate(id) ==
    IF id + 1 > IdBase(ExecutorId) + IdInterval THEN IdBase(ExecutorId) ELSE id + 1
GenerateID(id) ==
    IF id + 1 = IdBase(ExecutorId) + IdInterval THEN IdBase(ExecutorId) ELSE id + 1

\* TransactionTask::Reset(session_id): the execution is reset elsewhere;
\* the TransactionRequest is cleared, in_use_ set and session_id_ rebound.
\* (Mutant: session_id_ not rebound.)
ResetKeepsSession(t, s) == [t EXCEPT !.in_use = TRUE, !.queue = <<>>, !.current = 0]
Reset(t, s) == [t EXCEPT !.in_use = TRUE, !.session_id = s,
                         !.queue = <<>>, !.current = 0]
\* TransactionTask::Release: in_use_ only; session_id_ keeps its value.
\* (Mutant: the slot is never given back.)
ReleaseKeepsInUse(t) == t
Release(t) == [t EXCEPT !.in_use = FALSE]
\* TransactionRequest::PushRequest.
PushRequest(t, r) == [t EXCEPT !.queue = Append(@, r)]
\* TransactionExecution::Reset as the executor sees it; ResetTxnIDAndTime
\* takes the txn id from GenerateID.
ExecReset(id) == [st |-> "idle", req |-> NoRequest, finished |-> FALSE,
                  status |-> "None", txn_id |-> id]

\* TransactionRequest::CurrentRequest: the next request not yet handed out,
\* or nullptr when current_ has reached the end of the queue.
HasCurrentRequest(t) == t.current < Len(t.queue)
CurrentRequest(t) == t.queue[t.current + 1]
TakeCurrentRequest(t) == [t EXCEPT !.current = @ + 1]

\* MoveForward, as the executor sees it (transaction-execution.cpp:126-173).
\* An answered call's operation is finished, and its Next() completes the
\* request (SetFinished or SetError notifies the client), which leaves the
\* stack idle; for a Commit or Abort that Next() is the status update's
\* (UpdateTxnStatusToCommit/ToAbort::NextImpl), which notifies the client
\* with SetStatus and Calls the post-processing, so the stack stays busy.
\* The post-processing is tested only at the next MoveForward (the loop
\* does not revisit an index); once its calls are answered that Next()
\* SetFinished()es the transaction.
MoveForward(e) ==
    CASE e.st = "answered" /\ Kind(e.req) \in {"Commit", "Abort"} ->
              [e EXCEPT !.st = "post"]
      [] e.st = "answered" -> [e EXCEPT !.st = "idle"]
      [] e.st = "posted"   -> [e EXCEPT !.st = "idle", !.finished = TRUE]
      [] OTHER             -> e

VARIABLES
    task,                \* task[i]: in_use_, session_id_, the TransactionRequest
    exec,                \* exec[i]: the TransactionExecution as the executor sees it
    active_txn_number,   \* active_txn_number_
    answered,            \* per session: results notified
    commit_count, abort_count,
    txn_id_gen,          \* id_ of the executor's SimpleTxnIDGenerator, which
                         \* every slot's execution shares
    result,              \* result[i]: result_ of slot i's execution, the one
                         \* Result object all its requests are answered in
    result_of            \* result_of[s][n]: the slot whose result_ request n of
                         \* session s points to (OperationRequest::result_), 0 if unset

slotVars == <<task, exec, active_txn_number, answered, commit_count, abort_count,
              txn_id_gen, result, result_of>>

\* The constructors: concurrent_txn_count_ tasks with in_use_ false and
\* session_id_ 0, active_txn_number_ 0; the executions' txn_id_ is not set
\* before their first Reset (-1 here; no code reads it), and the generator
\* starts at start_.
InitSlots ==
    /\ task = [i \in Slots |-> [in_use |-> FALSE, session_id |-> 0,
                                queue |-> <<>>, current |-> 0]]
    /\ exec = [i \in Slots |-> ExecReset(-1)]
    /\ txn_id_gen = IdBase(ExecutorId)
    /\ result = [i \in Slots |-> [req |-> NoRequest, val |-> "pending"]]
    /\ result_of = [s \in Sessions |-> [n \in 1..Len(Prog) |-> 0]]
    /\ active_txn_number = 0
    /\ answered = [s \in Sessions |-> 0]
    /\ commit_count = 0 /\ abort_count = 0

\* The handler answers the call of the request slot i is running. A Commit
\* ends committed or aborted; an Abort ends aborted. Or it answers the
\* post-processing's calls (CommitVersion or DeleteVersion, and the read
\* counter releases), which a post-processing without entries has none
\* of: finished when first tested.
HandlerAnswers(i) ==
    /\ \/ /\ exec[i].st = "waiting"
          /\ \E outcome \in CASE Kind(exec[i].req) = "Commit" -> {"Committed", "Aborted"}
                             [] Kind(exec[i].req) = "Abort"  -> {"Aborted"}
                             [] OTHER                        -> {"None"} :
                exec' = [exec EXCEPT ![i].st = "answered", ![i].status = outcome]
       \/ /\ exec[i].st = "post"
          /\ exec' = [exec EXCEPT ![i].st = "posted"]
    /\ UNCHANGED <<task, active_txn_number, answered, commit_count, abort_count,
                   txn_id_gen, result, result_of>>

\* (Mutant: the InUse() test dropped.)
VisitedAll(i) == TRUE
\* Advance visits slot i only if it is InUse().
Visited(i) == task[i].in_use

\* The switch over operation_type_ hands request r to the idle execution
\* mf. Every kind calls an operation that waits for the handler, except
\* ReadDataStore. rds says how the executor treats that kind: "none", no case
\* for it (the switch's default: break); "nodriver", datastore_driver unset
\* (result_.Reset only); "driver", TransactionExecution::ReadDataStore,
\* which calls ReadDataStoreOperation (the data store answers like the
\* handler) if need_to_read_outside_ is set and SetFinished()es otherwise.
Dispatched(mf, r, rds, need) ==
    IF Kind(r) # "ReadDataStore" \/ (rds = "driver" /\ need)
    THEN [mf EXCEPT !.st = "waiting", !.req = r]
    ELSE [mf EXCEPT !.req = r]
NotifiedAtDispatch(r, rds, need) ==
    Kind(r) = "ReadDataStore" /\ rds = "driver" /\ ~need

\* The Result setter MoveForward's completing operation calls: SetStatus
\* for a Commit or Abort, SetFinished (or SetError, SetNull...) otherwise.
ResultSetter(e) == IF Kind(e.req) \in {"Commit", "Abort"} THEN e.status ELSE "done"

\* Every case of the switch starts with result_.Reset(GetCurrentRequest()),
\* which makes the request's result_ point to it (Result::Reset calls
\* OperationRequest::SetResult), except a ReadDataStore with no case.
ResetsResult(r, rds) == Kind(r) # "ReadDataStore" \/ rds # "none"

\* What one visit makes of slot i: MoveForward, which notifies the answered
\* request's client; if idle and not finished, hand the execution its next
\* request.
Visit(i, rds, need) ==
    LET mf       == MoveForward(exec[i])
        r        == CurrentRequest(task[i])
        dispatch == mf.st = "idle" /\ ~mf.finished /\ HasCurrentRequest(task[i])
        answer   == IF exec[i].st = "answered"
                    THEN [result[i] EXCEPT !.val = ResultSetter(exec[i])] ELSE result[i]
        reset    == dispatch /\ ResetsResult(r, rds)
    IN [e   |-> IF dispatch THEN Dispatched(mf, r, rds, need) ELSE mf,
        t   |-> IF dispatch THEN TakeCurrentRequest(task[i]) ELSE task[i],
        now |-> dispatch /\ NotifiedAtDispatch(r, rds, need),
        res |-> IF reset
                THEN [req |-> r, val |-> IF NotifiedAtDispatch(r, rds, need)
                                         THEN "done" ELSE "pending"]
                ELSE answer,
        of  |-> IF reset THEN [result_of EXCEPT ![r.sid][r.n] = i] ELSE result_of]

\* The visit of slot i in Advance's loop; a finished transaction is counted,
\* its slot Released and active_txn_number_ decremented. A slot that is not
\* InUse is skipped. need is the need_to_read_outside_ flag the client set
\* on a ReadDataStore request.
AdvanceTask(i, rds) ==
    \/ /\ Visited(i)
       /\ \E need \in BOOLEAN :
          LET v == Visit(i, rds, need) IN
          /\ exec' = [exec EXCEPT ![i] = v.e]
          /\ task' = [task EXCEPT ![i] = IF v.e.finished THEN Release(v.t) ELSE v.t]
          /\ active_txn_number' = active_txn_number - (IF v.e.finished THEN 1 ELSE 0)
          /\ abort_count' = abort_count +
                (IF v.e.finished /\ v.e.status = "Aborted" THEN 1 ELSE 0)
          /\ commit_count' = commit_count +
                (IF v.e.finished /\ v.e.status = "Committed" THEN 1 ELSE 0)
          /\ answered' = [s \in Sessions |-> answered[s]
                + (IF exec[i].st = "answered" /\ exec[i].req.sid = s THEN 1 ELSE 0)
                + (IF v.now /\ v.e.req.sid = s THEN 1 ELSE 0)]
          /\ result' = [result EXCEPT ![i] = v.res]
          /\ result_of' = v.of
          /\ UNCHANGED txn_id_gen
    \/ /\ ~Visited(i)
       /\ UNCHANGED slotVars

\* Slot f is bound: TransactionTask::Reset resets its execution, which
\* takes the next txn id.
ResetExec(f) ==
    /\ txn_id_gen' = GenerateID(txn_id_gen)
    /\ exec' = [exec EXCEPT ![f] = ExecReset(GenerateID(txn_id_gen))]

\* Whether the visit of slot i finishes a transaction.
FinishesIn(i) == Visited(i) /\ MoveForward(exec[i]).finished

AllAnswered == \A s \in Sessions : answered[s] = Len(Prog)

\* The slots' part of the type invariant.
SlotsTypeOK ==
    /\ active_txn_number \in 0..SlotCount
    /\ \A i \in Slots : /\ task[i].current \in 0..Len(task[i].queue)
                        /\ exec[i].st \in {"idle", "waiting", "answered", "post", "posted"}
                        /\ result[i].req \in Request \cup {NoRequest}
    /\ result_of \in [Sessions -> [1..Len(Prog) -> 0..SlotCount]]
    /\ txn_id_gen \in IdRange(ExecutorId)

\* Txn ids (SimpleTxnIDGenerator::GenerateID, called by every Reset of a
\* slot's execution through the generator all slots share): the
\* transactions running at once have distinct ids, and none is an id the
\* range of another executor holds, as spec.md's one disjoint range per
\* executor requires. GenerateID wraps to start_ when id_ reaches end_.
TxnIdsUnique ==
    /\ \A i, j \in Slots :
          i # j /\ task[i].in_use /\ task[j].in_use => exec[i].txn_id # exec[j].txn_id
    /\ \A i \in Slots : task[i].in_use =>
          \A e \in (0..ExecutorCount - 1) \ {ExecutorId} : exec[i].txn_id \notin IdRange(e)
====
