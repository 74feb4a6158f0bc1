-------------------------- MODULE AllAtOnceExecutor --------------------------
(***************************************************************************)
(* The batch executor AllAtOnceTransactionExecutor                         *)
(* (all-at-once-transaction-executor.cpp).                                 *)
(*                                                                         *)
(* AddRequest stores a request at push_index_ of a plain vector; nothing   *)
(* in it is synchronized, so the caller adds requests and calls Run on one *)
(* thread. LaunchRequests expects a Begin at pop_index_, binds it to a     *)
(* free slot at or after last_index and pushes the following requests onto *)
(* the same slot up to the first Commit or Abort. Advance passes over the  *)
(* slots again and again until a pass finishes at least one transaction.   *)
(***************************************************************************)
EXTENDS TaskSlots

CONSTANT DataStoreDriver   \* whether datastore_driver is set

ASSUME DataStoreDriver \in BOOLEAN

VARIABLES
    pool,          \* request_queue_pool_[0 .. push_index_-1]; push_index_ = Len(pool)
    pop_index,     \* pop_index_: the requests of pool consumed
    last_index,    \* LaunchRequests' last_index: where the slot scan starts
    has_finished,  \* Advance's has_finished_txn
    pc, idx,       \* where the thread is: with the caller, in Run, in Advance
    sent,          \* per session: requests added
    failure        \* what stopped the thread: an assert, a throw, a null read

ownVars == <<pool, pop_index, last_index, has_finished, pc, idx, sent, failure>>
vars == <<ownVars, slotVars>>

Init ==
    /\ InitSlots
    /\ pool = <<>> /\ pop_index = 0 /\ last_index = 0 /\ has_finished = FALSE
    /\ pc = "caller" /\ idx = 1
    /\ sent = [s \in Sessions |-> 0]
    /\ failure = "none"

(***************************************************************************)
(* The caller.                                                             *)
(***************************************************************************)

\* The request positions of session s's next transaction: from its Begin to
\* its Commit or Abort.
NextTxn(s) ==
    LET ends == {m \in sent[s] + 1..Len(Prog) : Prog[m] \in {"Commit", "Abort"}}
    IN sent[s] + 1..Min(ends)

\* The AddRequest calls of one transaction, one after the other
\* (request_queue_pool_[push_index_++] = request): a transaction's requests
\* are contiguous in the buffer, which LaunchRequests requires.
AddTxn(s) ==
    /\ pc = "caller" /\ sent[s] < Len(Prog)
    /\ pool' = pool \o [m \in 1..Cardinality(NextTxn(s)) |-> [sid |-> s, n |-> sent[s] + m]]
    /\ sent' = [sent EXCEPT ![s] = Max(NextTxn(s))]
    /\ UNCHANGED <<pop_index, last_index, has_finished, pc, idx, failure>>
    /\ UNCHANGED slotVars

\* The caller calls Run.
CallRun ==
    /\ pc = "caller" /\ pc' = "check"
    /\ UNCHANGED <<pool, pop_index, last_index, has_finished, idx, sent, failure>>
    /\ UNCHANGED slotVars

(***************************************************************************)
(* Run: while (pop_index_ != push_index_ || active_txn_number_ > 0)        *)
(* { LaunchRequests(); Advance(); }                                        *)
(***************************************************************************)
RunLoop ==
    /\ pc = "check"
    /\ \/ /\ pop_index # Len(pool) \/ active_txn_number > 0
          /\ pc' = "launch" /\ last_index' = 0
       \/ /\ pop_index = Len(pool) /\ active_txn_number = 0
          /\ pc' = "caller" /\ UNCHANGED last_index
    /\ UNCHANGED <<pool, pop_index, has_finished, idx, sent, failure>>
    /\ UNCHANGED slotVars

Fail(why) ==
    /\ failure' = why /\ pc' = "stopped"
    /\ UNCHANGED <<pool, pop_index, last_index, has_finished, idx, sent>>
    /\ UNCHANGED slotVars

ToAdvance ==
    /\ pc' = "advance" /\ idx' = 1 /\ has_finished' = FALSE
    /\ UNCHANGED <<pool, pop_index, last_index, sent, failure>>
    /\ UNCHANGED slotVars

\* The scan for a slot that is not InUse(), from last_index on.
ScanSlots == {i \in Slots : i > last_index /\ ~task[i].in_use}

\* The inner loop's stop: pop_index_++ and read request_queue_pool_[pop_index_]
\* until a Commit or an Abort. The positions of pool it reads after the
\* Begin at b, up to the one it stops at, or up to one past push_index_ if
\* there is none.
\* (Mutant: the loop stops at a Commit only.)
TxnEndCommitOnly(b) ==
    LET ends == {j \in b + 1..Len(pool) : Kind(pool[j]) = "Commit"}
    IN IF ends = {} THEN Len(pool) + 1 ELSE Min(ends)
TxnEnd(b) ==
    LET ends == {j \in b + 1..Len(pool) : Kind(pool[j]) \in {"Commit", "Abort"}}
    IN IF ends = {} THEN Len(pool) + 1 ELSE Min(ends)

\* One iteration of LaunchRequests' loop. The assert that the request at
\* pop_index_ is a Begin; with a slot free, Reset it, push the Begin and the
\* rest of the transaction, each checked (assert) to be of the same session;
\* then last_index++ and pop_index_++. With every slot active, break.
LaunchTxn ==
    /\ pc = "launch" /\ pop_index < Len(pool)
    /\ LET b   == pop_index + 1
           r   == pool[b]
           e   == TxnEnd(b)
       IN \/ /\ Kind(r) # "Begin"
             /\ Fail("assert")
          \/ /\ Kind(r) = "Begin" /\ active_txn_number >= SlotCount
             /\ ToAdvance
          \/ /\ Kind(r) = "Begin" /\ active_txn_number < SlotCount
             /\ ScanSlots = {}
             /\ Fail("throw")                         \* "no empty txn task"
          \/ /\ Kind(r) = "Begin" /\ active_txn_number < SlotCount
             /\ ScanSlots # {}
             /\ \/ /\ e > Len(pool)
                   /\ Fail("null")    \* reads request_queue_pool_[push_index_]
                \/ /\ e <= Len(pool)
                   /\ \E j \in b + 1..e : pool[j].sid # r.sid
                   /\ Fail("assert")
                \/ /\ e <= Len(pool)
                   /\ \A j \in b + 1..e : pool[j].sid = r.sid
                   /\ LET f == Min(ScanSlots) IN
                      /\ task' = [task EXCEPT ![f] =
                            [Reset(@, r.sid) EXCEPT !.queue = SubSeq(pool, b, e)]]
                      /\ ResetExec(f)
                      /\ active_txn_number' = active_txn_number + 1
                      /\ last_index' = f
                   /\ pop_index' = e
                   /\ UNCHANGED <<pool, has_finished, pc, idx, sent, failure,
                                  answered, commit_count, abort_count, result,
                                  result_of>>

LaunchDone ==
    /\ pc = "launch" /\ pop_index >= Len(pool)
    /\ ToAdvance

\* One visit of Advance's pass; after the last slot SendBatch, and another
\* pass unless this one finished a transaction.
AdvanceSlot(i) ==
    /\ pc = "advance" /\ idx = i
    /\ AdvanceTask(i, IF DataStoreDriver THEN "driver" ELSE "nodriver")
    /\ has_finished' = (has_finished \/ FinishesIn(i))
    /\ IF i < SlotCount THEN pc' = "advance" /\ idx' = i + 1
       ELSE IF has_finished' THEN pc' = "check" /\ idx' = 1
       ELSE pc' = "advance" /\ idx' = 1
    /\ UNCHANGED <<pool, pop_index, last_index, sent, failure>>

ExecutorStep ==
    \/ RunLoop \/ LaunchTxn \/ LaunchDone \/ \E i \in Slots : AdvanceSlot(i)

Next ==
    \/ \E s \in Sessions : AddTxn(s)
    \/ CallRun
    \/ \E i \in Slots : HandlerAnswers(i) /\ UNCHANGED ownVars
    \/ ExecutorStep

\* Run runs to its end once called; the handler answers every call; the
\* caller, whose turn comes back each time Run returns, adds every
\* transaction of its sessions (strong fairness, as the caller's turn is
\* intermittent) and calls Run again.
Fairness ==
    /\ WF_vars(ExecutorStep)
    /\ \A i \in Slots : WF_vars(HandlerAnswers(i) /\ UNCHANGED ownVars)
    /\ \A s \in Sessions : SF_vars(AddTxn(s))
    /\ WF_vars(CallRun)

Spec == Init /\ [][Next]_vars /\ Fairness

(***************************************************************************)
(* Properties.                                                             *)
(***************************************************************************)

TypeOK ==
    /\ pool \in Seq(Request)
    /\ pop_index \in 0..Len(pool)
    /\ last_index \in 0..SlotCount
    /\ SlotsTypeOK
    /\ pc \in {"caller", "check", "launch", "advance"} /\ idx \in Slots

\* LaunchRequests (all-at-once-transaction-executor.cpp:46-107) never stops
\* the thread when the caller adds whole transactions: the request at
\* pop_index_ is always a Begin (the assert at line 56), the inner loop
\* finds the transaction's Commit or Abort before push_index_ instead of
\* dereferencing the empty entry there (line 74), every request it pushes is
\* of the Begin's session (the assert at line 78), and the scan from
\* last_index finds a free slot whenever active_txn_number_ says one is free
\* (the throw at line 97).
LaunchRequestsSafe == failure = "none"

\* Every request the caller adds is answered: Advance's passes (each ending
\* only when a transaction finished) and Run's loop get every transaction
\* of the buffer bound and finished.
Termination == <>AllAnswered

====
