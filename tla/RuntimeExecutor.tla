--------------------------- MODULE RuntimeExecutor ---------------------------
(***************************************************************************)
(* The streaming executor RuntimeTransactionExecutor                       *)
(* (runtime-transaction-executor.cpp) with its TransactionTask slots       *)
(* (transaction-task.h) and their TransactionRequest queues                *)
(* (transaction-request.cpp).                                              *)
(*                                                                         *)
(* Client threads AddRequest into the bounded MPMC queue, which drops a    *)
(* request when it is full. The executor thread runs Run's loop:           *)
(* LaunchRequests reads one request at a time and binds a Begin to the     *)
(* first free slot or appends any other request to the first slot whose    *)
(* session_id_ matches; Advance visits the slots in order. A               *)
(* TransactionExecution is abstracted to what the executor sees of it      *)
(* (TaskSlots.tla). The                                                    *)
(* commit protocol itself is TxnExecution.tla.                             *)
(***************************************************************************)
EXTENDS TaskSlots

CONSTANTS
    Capacity,      \* the capacity of request_queue_pool_
    Pipelined      \* TRUE: a client adds a request without Wait()ing for
                   \* the previous one's result

ASSUME /\ Capacity \in Nat \ {0}
       /\ Pipelined \in BOOLEAN

VARIABLES
    request_queue_pool,  \* the MPMC queue
    current_request,     \* current_request_
    pc, idx,             \* where the executor thread is in Run
    sent,                \* per session: requests added
    got,                 \* per session: results the client has read
    seen                 \* per session: the Result it read last

vars == <<request_queue_pool, current_request, pc, idx, sent, got, seen, slotVars>>

ownVars == <<request_queue_pool, current_request, pc, idx, sent, got, seen>>

\* The constructor: the slots, an empty queue, current_request_ nullptr.
Init ==
    /\ InitSlots
    /\ request_queue_pool = <<>>
    /\ current_request = NoRequest
    /\ pc = "check" /\ idx = 1
    /\ sent = [s \in Sessions |-> 0]
    /\ got = [s \in Sessions |-> 0]
    /\ seen = [s \in Sessions |-> [req |-> NoRequest, val |-> "pending"]]

(***************************************************************************)
(* Client side.                                                            *)
(***************************************************************************)

\* AddRequest: request_queue_pool_.write is folly's non-blocking write,
\* which returns false when the queue is full; AddRequest ignores it, and
\* the request is dropped. A client that Wait()s adds its next request
\* once it has read the last one's result.
AddRequest(s) ==
    /\ sent[s] < Len(Prog)
    /\ Pipelined \/ got[s] = sent[s]
    /\ request_queue_pool' = IF Len(request_queue_pool) < Capacity
                             THEN Append(request_queue_pool, [sid |-> s, n |-> sent[s] + 1])
                             ELSE request_queue_pool
    /\ sent' = [sent EXCEPT ![s] = @ + 1]
    /\ UNCHANGED <<current_request, pc, idx, got, seen, slotVars>>

\* Wait() returns once Notify has run on the executor thread; the client
\* then reads the Result its request's result_ points to, in a step of its
\* own thread.
ReadResult(s) ==
    /\ got[s] < answered[s]
    /\ seen' = [seen EXCEPT ![s] = result[result_of[s][got[s] + 1]]]
    /\ got' = [got EXCEPT ![s] = @ + 1]
    /\ UNCHANGED <<request_queue_pool, current_request, pc, idx, sent, slotVars>>

(***************************************************************************)
(* Executor side: Run, LaunchRequests, Advance.                            *)
(***************************************************************************)

\* Run: while (!request_queue_pool_.isEmpty() || active_txn_number_ > 0).
\* When the loop condition is false Run returns; a caller that has more
\* requests calls Run again, which is the same test taken later.
RunLoop ==
    /\ pc = "check"
    /\ request_queue_pool # <<>> \/ active_txn_number > 0
    /\ pc' = "launch"
    /\ UNCHANGED <<request_queue_pool, current_request, idx, sent, got, seen, slotVars>>

\* LaunchRequests, top of the loop: read the next request into
\* current_request_, or break out when the queue is empty.
LaunchRead ==
    /\ pc = "launch" /\ current_request = NoRequest
    /\ request_queue_pool # <<>>
    /\ current_request' = Head(request_queue_pool)
    /\ request_queue_pool' = Tail(request_queue_pool)
    /\ UNCHANGED <<pc, idx, sent, got, seen, slotVars>>

ToAdvance == pc' = "advance" /\ idx' = 1

LaunchEmpty ==
    /\ pc = "launch" /\ current_request = NoRequest
    /\ request_queue_pool = <<>>
    /\ ToAdvance
    /\ UNCHANGED <<request_queue_pool, current_request, sent, got, seen, slotVars>>

\* The scan for a slot that is not InUse(), lowest index first.
FreeSlots == {i \in Slots : ~task[i].in_use}
\* (Mutant: the scan runs from the highest index.)
FirstFreeHighest == Max(FreeSlots)
FirstFree == Min(FreeSlots)

\* A Begin: return, keeping current_request_, when every slot is counted
\* active; otherwise Reset(session_id) the first free slot (which resets its
\* execution and clears its TransactionRequest), count it, and push the Begin.
LaunchBegin ==
    /\ pc = "launch" /\ current_request # NoRequest
    /\ Kind(current_request) = "Begin"
    /\ \/ /\ active_txn_number >= SlotCount
          /\ ToAdvance
          /\ UNCHANGED <<request_queue_pool, current_request, sent, got, seen, slotVars>>
       \/ /\ active_txn_number < SlotCount
          /\ FreeSlots # {}
          /\ task' = [task EXCEPT ![FirstFree] =
                        PushRequest(Reset(@, current_request.sid), current_request)]
          /\ ResetExec(FirstFree)
          /\ active_txn_number' = active_txn_number + 1
          /\ current_request' = NoRequest
          /\ UNCHANGED <<request_queue_pool, pc, idx, sent, answered,
                         commit_count, abort_count, result, result_of, got, seen>>

\* The scan for the slot of a session: the first whose session_id_ matches,
\* whether or not it is InUse().
SessionSlots(s) == {i \in Slots : task[i].session_id = s}
SessionSlot(s) == Min(SessionSlots(s))

\* Any other request is pushed onto the TransactionRequest of that slot.
LaunchOther ==
    /\ pc = "launch" /\ current_request # NoRequest
    /\ Kind(current_request) # "Begin"
    /\ SessionSlots(current_request.sid) # {}
    /\ task' = [task EXCEPT ![SessionSlot(current_request.sid)] =
                  PushRequest(@, current_request)]
    /\ current_request' = NoRequest
    /\ UNCHANGED <<request_queue_pool, active_txn_number, exec, pc, idx,
                   sent, answered, commit_count, abort_count, txn_id_gen,
                   result, result_of, got, seen>>

\* One iteration of Advance's loop over slot i (the visit of TaskSlots);
\* SendBatch after the last slot hands the batched calls to the handler.
AdvanceSlot(i) ==
    /\ pc = "advance" /\ idx = i
    /\ AdvanceTask(i, "none")
    /\ IF i = SlotCount THEN pc' = "check" /\ idx' = 1
                        ELSE pc' = "advance" /\ idx' = i + 1
    /\ UNCHANGED <<request_queue_pool, current_request, sent, got, seen>>


\* Every client has its last result and Run has nothing left: the system
\* stops here.
Terminated == pc = "check" /\ AllAnswered /\ UNCHANGED vars

ExecutorStep ==
    \/ RunLoop \/ LaunchRead \/ LaunchEmpty \/ LaunchBegin \/ LaunchOther
    \/ \E i \in Slots : AdvanceSlot(i)

Next ==
    \/ \E s \in Sessions : AddRequest(s) \/ ReadResult(s)
    \/ \E i \in Slots : HandlerAnswers(i) /\ UNCHANGED ownVars
    \/ ExecutorStep
    \/ Terminated

\* The executor thread never stops while Run's condition holds; the handler
\* answers every call it was sent; a client keeps issuing its program.
Fairness ==
    /\ WF_vars(ExecutorStep)
    /\ \A i \in Slots : WF_vars(HandlerAnswers(i) /\ UNCHANGED ownVars)
    /\ \A s \in Sessions : WF_vars(AddRequest(s)) /\ WF_vars(ReadResult(s))

Spec == Init /\ [][Next]_vars /\ Fairness

(***************************************************************************)
(* Properties.                                                             *)
(***************************************************************************)

\* Types; active_txn_number_ stays within 0..concurrent_txn_count_.
TypeOK ==
    /\ request_queue_pool \in Seq(Request)
    /\ Len(request_queue_pool) <= Capacity
    /\ current_request \in Request \cup {NoRequest}
    /\ SlotsTypeOK
    /\ pc \in {"check", "launch", "advance"} /\ idx \in Slots
    /\ \A s \in Sessions : got[s] \in 0..answered[s]

\* Session routing (LaunchRequests, runtime-transaction-executor.cpp:87-95):
\* the lookup takes the first slot whose session_id_ matches, without asking
\* InUse(), and a released slot keeps its session_id_ (0 before first use).
\* Every request a slot holds is of the session and transaction it was
\* bound for by its Begin, and no released slot holds a request it never
\* handed to its execution.
RoutedToOwnTxn ==
    \A i \in Slots :
        /\ \A j \in 1..Len(task[i].queue) :
              /\ task[i].queue[j].sid = task[i].session_id
              /\ TxnOf(task[i].queue[j].n) = TxnOf(task[i].queue[1].n)
        /\ ~task[i].in_use => task[i].current = Len(task[i].queue)

\* The throws of LaunchRequests ("no empty txn task", "no session task",
\* runtime-transaction-executor.cpp:80-83 and 98-101) are never reached: a
\* Begin let through the active_txn_number_ test finds a free slot, and any
\* other request finds a slot bound to its session.
LaunchNeverThrows ==
    pc = "launch" /\ current_request # NoRequest =>
        IF Kind(current_request) = "Begin"
        THEN active_txn_number >= SlotCount \/ FreeSlots # {}
        ELSE SessionSlots(current_request.sid) # {}

\* The Result a client reads once Wait() returns is its own request's,
\* completed: spec.md has each Result delivered to its waiting caller.  All
\* requests of a slot share the execution's one result_, which the next
\* dispatch on that slot (result_.Reset in Begin, Commit, ...) overwrites,
\* and a finished transaction's slot can be rebound to another session
\* while its client has been notified but not yet read.
ResultReadIsOwn ==
    \A s \in Sessions : got[s] > 0 =>
        /\ seen[s].req = [sid |-> s, n |-> got[s]]
        /\ seen[s].val # "pending"

\* Every request every client issues is eventually answered: Run keeps
\* launching and advancing until all sessions have their last result.
Termination == <>AllAnswered

====
