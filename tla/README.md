# TLA+ models of the fugue transaction engine

These modules model the transaction engine of this repository: the
optimistic-concurrency commit protocol that `TransactionExecution` and its chain
of `TransactionOperation`s (`src/src/transaction/`) run against a remote
`Handler`, driven by an executor loop, together with the `LocalTimeProvider` that
supplies its timestamps.

## The system

| Part | Code | Role |
|---|---|---|
| Executor | `runtime-transaction-executor.cpp`, `all-at-once-transaction-executor.cpp` | One thread. It binds client sessions to slots (`LaunchRequests`). It then loops (`Advance`): for every bound slot it calls `MoveForward`, hands an idle execution its session's next request, and releases finished slots. |
| TransactionExecution | `transaction-execution.cpp` | The per-session state machine. It holds the operation stack `operation_vector_`, the read and write sets (`LocalState`), the commit timestamps and the status. `MoveForward` makes one pass over the stack: every operation whose handler calls have answered runs its `NextImpl`, which may push or chain the next operation in the same pass. |
| Operations | `transaction-operation.cpp` | Read/Insert/Upsert: `ReadOutsideOperation` calls `GetVersionList`, then `PickVisibleVersion` fills a read-set entry. Update/Delete: synchronous writes into the write set. Commit: `Upload` (one `UploadVersion` per write), `SetCommitTsOperation`, `Validate` (one `UpdateMaxCommitTsAndReread` per read not superseded by a write; a locked version spawns `PushConflictTxnCommitTsLowerBound`), `WriteToLog`, `UpdateTxnStatusToCommit`, `PostProcessingAfterCommit` (`CommitVersion` per uploaded write). Abort: `UpdateTxnStatusToAbort`, `PostProcessingAfterAbort` (`DeleteVersion` per uploaded write), `ReleaseReadCounter` (per read entry still `need_release_`). |
| Handler | `include/versiondb/request/handler.h` (interface only) | The remote multi-version store and transaction table. An uploaded version is dirty and locks its predecessor until `CommitVersion` or `DeleteVersion`. `GetVersionList` takes a read counter that a later call must release. |
| LocalTimeProvider | `local-time-provider.cpp` | `GetTime` counts up from a base and refreshes the base from the wall clock every `TIME_PROVIDER_INTERVAL` calls. `SetTime` adopts a commit timestamp. |

Every handler call is asynchronous: an operation issues it in `CallImpl`, and
`MoveForward` later observes `IsFinished()` and runs `NextImpl`. The
transactions of different sessions interleave at those points only. They share
nothing locally; all interaction goes through the handler's versions, locks,
read counters and transaction entries.

## Modules

* **`TimeProvider.tla`**: `LocalTimeProvider`.
  * Variables: `time_value` and `count` (the two fields), `wall` (the system
    clock, free to move either way), plus `got` and `floor` (the last value
    returned and the highest value adopted by `SetTime`; both are history kept
    for the properties).
  * Actions: `GetTime`, `SetTime`, and `WallMoves` for the environment.
* **`Handler.tla`**: the handler calls the engine makes, one atomic step each.
  * `store[k]` is the version list of key `k`. Entry `i` is version `i-1`, and
    version 0 is the pseudo version `GetVersionList` creates for a new key.
  * `txns[t]` is the `TxnEntry`.
  * `readcnt[t][k]` counts the read counters `t` holds.
  * Each version carries `by`, the transaction that uploaded it. This is
    history for the properties; no code reads it.
  * The repository has only the interface. The behaviour comes from its
    comments and spec.md (marked in `PROJECT.json` under `map`).
* **`TxnExecution.tla`** (extends `Handler`): `TransactionExecution`, the
  operations and the runtime executor's `Advance`.
  * `exec[t]` is session `t`'s execution:
    * `pc` and `cur`: the request cursor;
    * `op`: the operation at the bottom of the stack;
    * `kids`: the handler calls outstanding for that operation and for the
      fan-out children above it. Each call is `wait` (not answered), `ret`
      (`IsFinished`) or `next` (`NextImpl` ran, `move_to_next_`);
    * `rs` and `ws`: the read and write sets;
    * `status`, `cts` (commit timestamp), `maxw` (max commit ts of writers),
      `local` (`commit_timestamp_local_`);
    * `res`: the `Result` of each request.
  * The `LocalState` pools are sequences. `InsertReadSet` and
    `NewWriteSetEntry` take the entry at `pop_index_`; the pool grows by one
    when it is full, so the sequence is unbounded. `ReleaseReadSet` drops the
    last read entry. A recycled read entry's stale content is never read
    before `InternalRead` fills it, so the model gives it a placeholder.
  * `clock` is the executor's time provider as one counter (`time_value_ + count_`);
    `TimeProvider.tla` handles its refresh separately.
  * One executor action is one `MoveForward` pass over one session, plus the
    dispatch in the same `Advance` iteration when the stack emptied. For
    example, `ValidateStep` runs every answered reread's `NextImpl`, creates
    the push children and aborts or goes on to `WriteToLog` when all are done.
    A trailing `SetFinished`, status change or `Abort()` of the pass is part
    of the same action.
  * The handler actions `Serve*` answer one outstanding call. `HandlerError`
    answers one with `IsError()` and no effect, at most `MaxFaults` times per
    run.
  * `Recover` (an exception out of the executor) sets `crashed`.
  * Fault model, `LostReplies`: a call whose effect the handler applied may
    still answer `IsError()`, as when its reply is lost or times out. This
    also counts against `MaxFaults`.
  * Refinement: `Abstract` instantiates `CommittedStore`.
    * `kv[k]` maps to `CommittedChain(k)`: the writers of the versions of
      `k` that are committed in the store (`end_ts` set) or whose writer
      the transaction table records Committed.
    * `committed` maps to the transactions the table records Committed.
* **`MC_TxnExecution.tla`**: the programs the runs replay. Each has two
  sessions `t1`, `t2` and keys `k1`, `k2`, or one session for the violation
  runs.
* **`CommittedStore.tla`**: the abstract promise of the commit protocol. It
  has `kv[k]`, the writers of the committed versions of `k` (oldest first),
  and `committed`. One action, `Commit(t)`, appends one version of `t` to
  every key of some set `W` at once.
* **`TaskSlots.tla`**: what both executors share.
  * The `TransactionTask` slots (`transaction-task.h`): `in_use_`,
    `session_id_` and the `TransactionRequest` queue with its `current_`
    cursor.
  * `Reset`, `Release`, `PushRequest`, `CurrentRequest`.
  * The visit of one slot in `Advance` (`AdvanceTask`): `MoveForward`, the
    dispatch of the next request, and on a finished transaction the
    count, `Release` and `active_txn_number_--`.
  * The execution is abstracted to idle / waiting / answered / post /
    posted and whether it is finished. `HandlerAnswers(i)` answers the
    call of slot `i` (a Commit may end committed or aborted), or the
    post-processing's calls. `MoveForward` follows
    `TransactionExecution::MoveForward`: an answered Commit or Abort runs
    the status update's `NextImpl`, which notifies the client with
    `SetStatus` (`transaction-operation.cpp:657`, `:1021`) and calls the
    post-processing; that is tested only at the next `MoveForward`, whose
    `NextImpl` calls `SetFinished` (`:703-704`, `:920-921`). So the client
    is notified at least one `Advance` pass before its slot is released,
    and between those passes `LaunchRequests` runs.
  * The executor's `TxnIdGenerator` (`txn_id_gen`, the generator's `id_`).
    `ResetExec` is `TransactionExecution::Reset` on a slot bind: it calls
    `GenerateID` and stores the id in the execution. `IdInterval`/`IdBase`
    are the factory's split of `INT64_MAX` (scaled down to `IntMax`) among
    `ExecutorCount` executors. `GenerateID` increments and wraps to the
    executor's base when it reaches the end of its interval.
  * `ReadDataStore` dispatch (`Dispatched`, `NotifiedAtDispatch`). The
    all-at-once executor calls `execution->ReadDataStore` when a
    `datastore_driver` is set (`"driver"`). Otherwise (`"nodriver"`) it only
    resets the result and never notifies. If the request needs to read
    outside (a free choice `need`), the execution waits for the data store,
    which answers like the handler. If not, the result is notified at
    dispatch. The runtime executor has no case for it (`"none"`): the
    request is consumed and never answered.
  * The execution's one `Result` (`result[i]`). Every dispatch calls
    `result_.Reset(GetCurrentRequest())` (`ResetsResult`), which points the
    request's `result_` at it (`result_of`). `ResultSetter` is the setter
    the completing operation calls. `TransactionExecution::Reset` leaves
    `result_` alone, so a rebound slot keeps the last session's `Result`
    until its first dispatch.
* **`RuntimeExecutor.tla`** (extends `TaskSlots`):
  `RuntimeTransactionExecutor`.
  * State: `request_queue_pool` (the bounded MPMC queue), `current_request`,
    `pc`/`idx` (where the executor thread is in `Run`), `sent`, and per
    client `got`/`seen` (the results it has read and the last one).
  * Client steps: `AddRequest(s)` (folly's `write` does not block: on a
    full queue it returns false, which `AddRequest` ignores, and the
    request is lost), and `ReadResult(s)`, which is `Wait()`
    returning after `Notify` and the client reading the `Result` its
    request points to, on its own thread. A client either reads each
    result before its next request (`Pipelined = FALSE`) or pipelines.
  * Executor steps: `RunLoop`, then `LaunchRead`/`LaunchEmpty` and
    `LaunchBegin` (return and keep `current_request_` when every slot is
    active; otherwise bind the first free slot). `LaunchOther` goes to the
    first slot whose `session_id_` matches, in use or not. `AdvanceSlot(i)`
    is one iteration of `Advance`.
  * `Terminated` is the final stutter, once every client has its last
    result.
* **`AllAtOnceExecutor.tla`** (extends `TaskSlots`):
  `AllAtOnceTransactionExecutor`.
  * State: `pool` (the buffer up to `push_index_`), `pop_index`,
    `last_index`, `has_finished`, `pc`/`idx`, `sent`, and `failure` (what
    stopped the thread).
  * The caller adds whole transactions (`AddTxn`) and calls `Run`
    (`CallRun`), both on the one thread the unsynchronized buffer allows.
  * `LaunchTxn` is one iteration of `LaunchRequests`' loop with every exit
    of the code:
    * the assert that a Begin is at `pop_index_`;
    * the break when every slot is active;
    * the "no empty txn task" throw;
    * the read of the empty entry at `push_index_` when a transaction has
      no end yet;
    * the same-session assert;
    * the bind of the first free slot after `last_index`.
  * `AdvanceSlot` repeats `Advance`'s passes until one finishes a
    transaction.
* **`MC_RuntimeExecutor.tla`, `MC_AllAtOnceExecutor.tla`**: the per-session
  programs (`OneTxn`: Begin, Op, Commit; `TwoTxns`: that plus Begin, Abort).

A request that the code finishes synchronously (`Update`, `Delete`) leaves the
stack empty. The next `Dispatch` step stands for the next `Advance` pass
handing over the following request.

## Properties

* **`TxnExecution.tla`**
  * `ConflictSerializable`: the conflict graph over the transactions the
    handler marked committed (edges w-r via `by`, w-w by version order, r-w
    from a read version to a later written one) has no cycle. This is the
    point of Validate's lock check and the commit-lower-bound push.
  * `InsertNotOverOwnWrite` (no run; see Observations): no Insert stages
    a write over a live write of its own transaction to that key.
  * `RequestsAnswered`: every request's `Result` is notified before the
    session's next request is dispatched, and the last one by the time the
    execution finishes. `Advance` dispatches as soon as the stack is idle,
    so an operation exit that skips its `Result` setter would hang a client
    that `Wait()`s.
  * `ReadCountersReleased`: a finished transaction holds no read counter.
  * `FinishedLeavesNoDirtyVersions`: a finished transaction has no version
    locked or dirty. A committed one installed every write at its commit
    timestamp; an aborted one left no version of its own.
  * `Termination`: every session finishes, or the executor stopped in
    `Recover`.
  * `CommittedStoreRefined`: the store implements `CommittedStore`.
    `UpdateTxnStatus(Committed)` is the one step at which all of a
    transaction's versions join the committed history. No aborted or dirty
    version ever joins it, and none ever leaves it.
* **`TimeProvider.tla`**
  * `NotBelowAdoptedTs`: after `SetTime(t)`, no `GetTime` returns less than `t`.
* **`RuntimeExecutor.tla`**
  * `RoutedToOwnTxn` (the `runtime_misroute` violation): every request a
    slot holds is of the session and the transaction its Begin bound it
    for, and a released slot holds no request it has not handed on. The
    session lookup ignores `InUse()`, and a slot keeps its `session_id_`
    while it post-processes and after its release.
  * `LaunchNeverThrows`: neither "no empty txn task" nor "no session task"
    is reached.
  * `Termination`: every request of every client is answered.
  * `ResultReadIsOwn` (violation run): the `Result` a woken client reads is
    its own request's, completed.
* **`TaskSlots.tla`** (checked in both executor runs)
  * `TxnIdsUnique`: no two bound slots hold the same transaction id, and no
    bound slot holds an id of another executor's interval. `GenerateID`'s
    wrap at `simple-txn-id-generator.cpp:8` is what could break either.
* **`AllAtOnceExecutor.tla`**
  * `LaunchRequestsSafe`: `LaunchRequests` never asserts, throws or reads
    the empty entry at `push_index_`.
  * `Termination`: every request the caller adds is answered.

Each passing run's `TypeOK` also bounds its counters
(`active_txn_number_` within `0..concurrent_txn_count_`, the queue within
its capacity, cursors within their queues).

## Runs

| Run | cfg | Shows |
|---|---|---|
| `timeprovider` | `TimeProvider.cfg` | The adopted commit timestamp is a floor for later local times. Bounds: interval 2, wall clock 0..4, times below 6. Both refreshes and `SetTime` before and after one happen. |
| `writeskew` | `TxnExecution_writeskew.cfg` | Each session reads `k1` and `k2`, then `t1` updates `k2` and `t2` updates `k1`. Every interleaving of the two commits leaves a serializable history that refines `CommittedStore`, and both finish. No faults. |
| `insertrace` | `TxnExecution_insertrace.cfg` | `t1` inserts `k1` while `t2` upserts and deletes it, and one handler call, any one, may fail. Covers w-w conflicts at upload, partial upload failure, retried `NewTxn`, failed reads and `Recover`. Refinement holds. |
| `readabort` | `TxnExecution_readabort.cfg` | `t1` reads `k1`, inserts `k2` and aborts, while `t2` updates `k2` and commits, with one fault. Every `Result` is notified in order, read counters are released and no dirty version is left. This covers the Abort request and the release of read counters. |
| `readupsert` | `TxnExecution_readupsert.cfg` | **Violation.** A transaction running alone reads `k1` and then upserts it. Validate finds the transaction's own upload lock on the read version (`transaction-operation.cpp:516`), pushes its own lower bound and aborts. |
| `readinsert` | `TxnExecution_readinsert.cfg` | **Violation.** `Read k1; Insert k1` where Insert's `GetVersionList` fails. The request answers an error, yet `InsertOperation::NextImpl` finds the older read entry and stages a write that commits. |
| `lostreply` | `TxnExecution_lostreply.cfg` | **Violation.** One session inserts `k1`, and the `UploadVersion` is applied but answers an error. `need_post_processing_` stays false (`transaction-operation.cpp:291`), so the abort never deletes the version: it stays dirty and locks its predecessor. |
| `runtime` | `RuntimeExecutor.cfg` | Two sessions (ids 0 and 1; 0 is also a fresh slot's `session_id_`), two slots, a queue of 2, and clients that `Wait()`, each running one transaction. This is the workload the executor serves correctly: nothing throws, everything is answered, and executor 1 of 3 hands out distinct ids from its own interval, wrapping for the second. A session with a second transaction is misrouted (`runtime_misroute`); more sessions than slots block (`runtime_hol`). |
| `runtime_misroute` | `RuntimeExecutor_misroute.cfg` | **Violation.** One session that `Wait()`s, two slots, a committed then an aborted transaction. The Commit's `SetStatus` wakes the client while slot 1 is still post-processing. Its next Begin binds slot 2, and its Abort is pushed onto slot 1, the first whose `session_id_` matches (`runtime-transaction-executor.cpp:91`). Slot 1 finishes and is released without handing it out, so the client's `Wait()` never returns. |
| `runtime_hol` | `RuntimeExecutor_hol.cfg` | **Violation.** Two sessions, one transaction each, one slot. A Begin that finds the slot taken stays in `current_request_` (`runtime-transaction-executor.cpp:66`). The slot holder's Commit queues behind it, so the executor spins forever. If the queue is empty instead, `Run` returns with that Begin stranded. |
| `resultrace` | `RuntimeExecutor_result.cfg` | **Violation** (51 states). Session 1's Commit is notified and its slot released. The executor binds session 0's Begin to that slot and dispatches it. `result_.Reset` overwrites the execution's one `Result`, and session 1's client, reading after `Wait()`, sees session 0's pending Begin instead of Committed (`transaction-execution.cpp:403`). `PullResult`, which would copy the result into the request's own cache, is never called. |
| `allatonce` | `AllAtOnceExecutor.cfg` | Two sessions with two transactions each, added whole, over two slots. Begins wait in the buffer for a slot, `Advance` makes several passes, and `Run` is called more than once. The first transaction of each session issues a `ReadDataStore` with a driver set. `LaunchRequests` stays safe, everything is answered, and executor 1 of 3 hands out distinct ids from its own interval across the wrap. |

**Bounds.**
* Commit protocol runs:
  * Two sessions and two keys with 4 to 5 requests each. That is the
    smallest setting where write skew, w-w conflicts on one key, a conflict
    push in both directions and an abort racing a commit all happen.
  * `kMaxTimeStamp = 100` stands for `INT64_MAX`, since no timestamp reached
    gets near it.
  * One fault per run reaches every error branch.
* Executor runs:
  * Two slots and two sessions. Runtime: one transaction per session in
    the passing run, two in `runtime_misroute` and `resultrace`, so slots
    are reused and a released slot still carries an old `session_id_`.
    All-at-once: two transactions per session, more than there are slots.
  * Session id 0 is the id a never-used slot reports.
  * Id generator: `INT64_MAX` is scaled to 8 (runtime, 3 executors, an
    interval of 2 ids for two binds) or 13 (all-at-once, 3 executors, 4 ids
    for four binds), so the generator wraps to its base in both runs. The
    ids stay distinct because each run binds exactly one interval's worth;
    the half of `TxnIdsUnique` that compares running transactions could
    only fail with more binds than ids, which a scaled-down interval makes
    an artefact of the scaling. The extra `GenerateID` of the `NewTxn`
    retry (`transaction-operation.cpp:1270`, `ResetTxnIDAndTime`) is not
    in the executor models; `TxnExecution.tla` models that retry.
* Each mutant check listed in `PROJECT.json` breaks its property within
  these bounds.

**Fairness.**
* `Advance` visits every bound slot on every pass, so each session's
  executor actions are weakly fair, and so is the executor thread of both
  executors.
* A handler call that was sent is eventually answered, so the handler's
  answer actions are weakly fair.
* The runtime executor's clients are weakly fair: a client keeps issuing
  its program, and a thread woken by `Notify` eventually runs and reads
  its result (`ReadResult`).
* The batch executor's caller shares the thread with `Run`. Its turn comes
  back each time `Run` returns, so it is only intermittently enabled, and
  `AddTxn` is strongly fair. `CallRun` is weakly fair.
* Faults are not fair: a run may see none.

## Observations without a run

* **Double Insert** (`transaction-operation.cpp:1061`).
  `Begin; Insert k1; Insert k1; Commit` (`Program <- DoubleInsert`,
  `TxIds = {t1}`) finds the second Insert succeeding: its read goes to the
  store, where the first Insert is not yet visible, and `InsertOperation`
  does not look at its own write set. spec.md says it errors.
  `InsertNotOverOwnWrite` is violated within 9 states.
* **Local time goes back** (`local-time-provider.cpp:25`). With
  `TimeProvider.cfg`'s constants and `PROPERTY StrictlyIncreasing`,
  `GetTime` returns w, w + 1, then w again (w the wall clock at start, 0
  or 1 in the traces TLC reports): the refresh drops `count_`. spec.md
  promises strictly increasing timestamps.
* **Dropped request** (`runtime-transaction-executor.cpp:42`). With
  `Capacity = 1` in `RuntimeExecutor.cfg`, the second client's Begin
  meets a full queue, `write` returns false, and `Termination` is
  violated.
* **Pipelined misroute** (`runtime-transaction-executor.cpp:91`). A client
  that pipelines can queue the next Begin of its session, and then a
  request of the new transaction, while the old slot still carries the
  session. The lookup takes the first matching slot whether or not it is
  in use. With `Pipelined = TRUE`, `RoutedToOwnTxn` is violated even when
  post-processing is instant.
* **Batch capacity** (`all-at-once-transaction-executor.cpp:41`).
  `push_index_` is never reset. After `capacity` `AddRequest` calls over
  the executor's lifetime, the write goes past the vector: undefined
  behaviour, not modelled.

* **ReadDataStore in the runtime executor**
  (`runtime-transaction-executor.cpp:190`). The dispatch switch has no case
  for it, and its `default: break;` consumes the request without answering.
  A client that `Wait()`s hangs. With a `ReadDataStore` in the runtime
  programs, `Termination` is violated. spec.md lists it as a client request.
* **ReadDataStore without a driver** (`all-at-once-transaction-executor.cpp:196`).
  `datastore_driver` is never set anywhere in the repository. Without it,
  the executor resets the result and never notifies, and `Termination` is
  violated with `DataStoreDriver = FALSE`.
* **Lost `GetVersionList` reply** (`transaction-operation.cpp:887`). Take
  the `readupsert` program with `LostReplies = TRUE` and one fault. If the
  read's counter was taken but the reply errs, `ReadOutsideOperation`
  releases the read set without the counter, and `ReadCountersReleased` is
  violated.

* **Abort order** (`transaction-execution.cpp:397`). `Abort()` marks the
  transaction Aborted at the handler before deleting its versions and
  releasing its read counters. spec.md puts the status update last, so
  another transaction can find the writer Aborted while its dirty versions
  still lock their predecessors. `AbortedAfterCleanup` is violated with
  `Program <- InsertRace`, `MaxFaults = 0`.
* **Batch results** (`all-at-once-transaction-executor.cpp:132-215`). In
  the all-at-once executor every request of a transaction is answered in
  the same `result_`. The caller can read only after `Run` returns, when
  that `Result` holds the transaction's last answer, or a later
  transaction's on the same slot. This is the same root cause as
  `resultrace`. The all-at-once model has no read step for its caller, so
  TLC does not check this case.

None of these has a run of its own, because of the limit on runs. The
cfg changes they name reproduce them. Batch capacity is undefined
behaviour, and batch results are read from the code, not checked by TLC.

## Not modelled

* The enabled-log path of `WriteToLog` (logging is off,
  `Constant::ENABLE_LOG`).
* The ReadDataStore operation's interaction with a real data store. The
  data store is an interface with no implementation, so its answer is
  modelled like a handler answer.
* In the executor modules, the commit protocol is abstracted to a handler
  answer. `TxnExecution.tla` models it with each session owning a slot.
  Composing the two would multiply states without a question that either
  alone cannot ask.
* Writing past the batch buffer's capacity (undefined behaviour).
* Checkpoint and kickout (`tx-checkpoint.h`, `kickout.h`). These are abstract
  classes: `MoveNext` and `Current` are pure virtual, and the inline
  methods only forward to `Handler` and `TxLog` calls, which have no
  implementation either. No engine code invokes them, so there is no
  behaviour of the repository to check.
* The data store, the log, and key and record
  serialization. These are interfaces without an implementation here, or
  pure I/O.
* The memory ordering of `HandlerResult`'s plain `is_finished_` and
  `is_error_` flags. A handler answering from another thread races with
  the executor's polling, but every model takes an answer as one atomic
  step, and TLC has no weak-memory semantics. This is listed as a hazard
  without a property.
* `OperationRequest::Wait`'s condition-variable handshake. Its predicate
  wait under the mutex cannot lose a `Notify`. The unlocked fast-path read
  of `is_finished_` is a data race, but either value it can read leads to
  a correct return. The client's `Wait()` is therefore one step.
