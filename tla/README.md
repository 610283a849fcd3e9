# Verification of the Crynux Bridge

Crynux Bridge stands between applications and Crynux Relay. It accepts inference
and fine-tuning tasks over HTTP, keeps them in a database, submits them to Relay,
follows them until they end, validates them, and stores their results. This
directory holds TLA+ models of the parts that decide what happens to a task, from the
request that creates it to the deletion of its results, the TLC runs that check
them on small instances, and theorems proved with TLAPS.

## The system

| Component | State | Operations | Interacts with |
|---|---|---|---|
| Task engine (`src/taskengine`) | rows of `inference_tasks`: status, relay flags, the one operation of the row and its result, VRF data | main loop: expand, apply results, dispatch; request and result workers; recovery at start | Relay over batch requests; workers and main loop meet only in the operation columns |
| Expansion and creator abort (`scheduler.go`, `abort.go`) | `client_tasks`: status, repeat_expanded, creator_cancelled, failed_count | expand a client task into rows; abort it on request of its creator | HTTP goroutines beside the main loop, on the same rows |
| Relay (`src/relay`; the service is external) | status, abort reason and model files per commitment | create, status, validate, cancel, result download | moves tasks on by itself |
| Client task reads (`client_task_phase.go`, `engine.go`) | none | status, phase and result of a client task, from two queries | read only, beside the engine |
| Poll scheduling (`progression.go`) | next_action_at | when a row is looked at again | main loop |
| Heartbeat creation (`src/tasks/heartbeat_task.go`) | none of its own; counts pending rows | creates tasks up to limits per client and slot | `CreateTask`, `CountPending` |
| SDFT processing (`src/tasks/process_tasks.go`, `process_sd_ft_tasks.go`) | rows of type SDFT, rounds of their client task | one goroutine per row; rounds, retries | Relay, result directory |
| Result waiters (`src/models/inference_task.go`) | none | wait for a group, a task, a result | rows written by SDFT processing |
| Cleanup (`cleanup_inference_results.go`) | none | deletes old rows, client tasks, directories | beside everything that reads them |
| API keys (`src/models/client.go`, `src/api/ratelimit`, `api_key.go`) | used_count, limits, in-memory limiters | validate, count a use, limit the rate | concurrent HTTP requests |
| Task trace store (`src/tasktrace`) | bounded in-memory traces and indexes | start, register, record, finish, evict | called from the engine and handlers |
| Task arguments, model pinning, canonical JSON | none | conversions of documents | creation of tasks and members |
| HTTP handlers, configuration, migrations | none that changes at run time | validation and layout of requests | the engine's methods |

What is hard here. A row has at most one operation, but its result is stored by a
worker and applied later, when other rows of its validation group have moved on.
A lost answer says nothing about Relay. A crash may fall between any two
statements, and a request may reach Relay after its sender is gone. Some updates
concern a whole group, or the siblings of the row whose result is applied. Aborts
run in other goroutines and talk to Relay between their read and their write. Relay
ends tasks by its own timeouts. The goroutines of fine-tuning write each other's rows
from old copies, keep part of their progress in files and part in memory, and forget the
latter. Limits on requests and heartbeat tasks are counted in several queries while
others create and finish tasks. `PROJECT.json` lists these hazards by line.

What makes it correct: an operation is never orphaned; a group is validated once at a
time and with its VRF data; a lost mutation is asked about before it is repeated; what
Relay ended stays ended; results are taken only from successful tasks; a client task is
decided once, as its rows say, and clients are told nothing else; an abort that was
reported stays true; a fine-tuning client task that reads success has a result; quota
and committed tasks agree; limits hold however counts and creations interleave;
everything ends. Where the documents promise more than the code keeps, the promise is stated too,
and a run or a further configuration shows the counterexample.

## Modules

The engine and what surrounds it:

- `InferenceTask`: the vocabulary of one row, and the operators that look at one row:
  `relayStatusToLocal`, `Finished`, `terminalStatuses`, `isChainTaskTerminal`,
  `isReadyForValidation`.
- `Relay`: the external service, one item of a batch at a time. It is idempotent, as the
  outcomes `already_exists`, `already_applied`, `already_cancelled` say. Whether it
  refuses a creation is a constant (`Rejected`), what a node records as its model files is
  chosen when it takes the task.
- `ClientTask`: the abstract specification. A client task runs, then succeeds with a first
  result or fails without one, once. What its rows do afterwards changes nothing.
- `TaskEngine`: the rows of one expanded client task, the main loop, the workers, crash
  and recovery. Columns are functions from rows to values. `Dispatch(t)` is
  `loadDueTasks`, `decideOperation`, `markRunning` and the start of the worker.
  `Answer...(t)` is a worker's request to Relay and `writeOperationCompleted`;
  `WorkerFails(t)` is every way it ends otherwise. `Apply...(t)` is the one transaction of
  `applyOperationResult`, with the sibling cancellation and the recalculation of the
  client task that end it (`ApplyTail`). `Crash`, `RecoverOperations`, `RecoverGroup`,
  `RecoverClientTask` and `RecoveryFails` follow `recover` statement by statement.
  `LateRequest` is a mutation that reaches Relay after its worker timed out or died.
  `KeepsPromise` instantiates `ClientTask` with the decision of the client task and the
  set of downloaded rows.
  `Dispatch` may be one step here: without an abort only the main loop and the workers write rows,
  and a worker writes only rows with a running operation, which are not dispatched. Recovery comes
  before the loop.
- `Reconciliation` adds two history variables to `TaskEngine`: which rows a lost
  mutation left unresolved, and for which of them a status query has failed since.
- `BatchWorkers` adds to that the rest of a worker's batch: after a row's answer is stored, a later write
  of the same worker may fail and `writeBatchFailure` ends the operation that the row has by then.
- `CreatorAbort` puts `expandDueClientTasks`/`expandClientTask` and `AbortClientTask`
  beside the engine. Both read in one step and write in a later one. So does the dispatch here, as an
  abort may commit in between: `DecideRow` is `loadDueTasks` and `decideOperation` for a row,
  `MarkDecided` is `markRunning` on the row as it is then, and `DispatchEnds` drops what found no
  place in a pool. The abort's two requests to Relay are steps as well, the cancellation item by item.
- `ClientReads`: what `Status` and `StatusBatch` may answer while the engine runs. A
  request reads the client task in one query and its rows in another. Because a client
  task is decided once, the possible answers in a state are those of a first query that saw
  `running` or what is there now, so no variable is needed for requests in progress.

Fine-tuning, which does not go through the engine:

- `SDFTGroup`: the rows of one round (`process_tasks.go`). Each goroutine is a program
  counter, its copy of its own row, and its copies of the group (`view`). Every request to
  Relay and every transaction is a step, except that the request of a status query and the
  write of its answer are one. `ReadGroup`, `SyncCopy`, `DecideSubmitter`, `DecideAgain` and
  `Submit` are the election of the goroutine that submits a group's validation.
- `SDFTRounds`: the rounds of client tasks (`process_sd_ft_tasks.go`) with the waiters and
  the cleanup. A goroutine is its program counter, its copy of the client task's row and the
  round it follows. `Rename`, `Complete`, `Continue`, `CountFailure` and `Retry` are the
  separate writes. A statement that ends with an error may have been committed: `Store` and `SaveRound`
  say what it leaves behind. The four `Clean...` steps are the
  phases of one cleanup.

Creation:

- `TraceStore`: the trace store as operators from store to store, one per locked call.
- `Creation`: one API key with its administration, the rate limiter, concurrent requests
  (single, batch and fine-tuning), the engine's and SDFT's growth of the rows, and the trace
  store that all of them write to.
- `Heartbeat`: the loop of `heartbeat_task.go`, one query or transaction per step, with
  `CountPending`'s two queries per slot, beside expansion and ends of rows.

The theorems: `TaskEngineProofs` about the engine alone; `AgreementProofs`, which extends it, about
the engine and Relay together, with `Reconciliation`; `CreatorAbortProofs`, which extends that, about
`CreatorAbort`, `ClientReads` and rows that are validated alone; `TraceStoreProofs`, on which
`CreationProofs` rests; `SDFTGroupProofs`, `SDFTRoundsProofs` and `HeartbeatProofs`.

`MCTaskEngine`, `MCReconciliation`, `MCBatchWorkers`, `MCCreatorAbort`, `MCClientReads`, `MCSDFTGroup`,
`MCCreation` and `MCHeartbeat` are instances for TLC; `SDFTRounds` needs none.

Definitions named `..._Something` after a comment "Mutant" are plausible mistakes in the
definition that follows. No specification uses them. They are put in its place to see that
the properties notice.

### What is abstracted

- **Time.** In the engine a row whose `next_action_at` lies ahead may be dispatched at any moment,
  and a heartbeat row may exceed its queue limit at any answer that says it is queued. So no
  property depends on a delay. `Heartbeat` counts hours and `Creation` ticks of the limiter's
  period; their clocks never go back.
- **Batches and pools.** Items of a batch succeed or fail one by one, which includes the
  failure of a whole batch; only `BatchWorkers` keeps a worker's batch together. Its writes end whatever
  operation a row has by then; the worker displaced so only has its request modelled from then on, not the
  writes it could make on the operation after. Rows may wait arbitrarily long before their dispatch, which
  includes a full pool. Starvation by limits is not covered.
- **Transactions** are single steps. `applyOperationResult` is one also against the abort: on a
  database with weaker isolation its unlocked read leaves a lost update that the model
  does not show. In `CreatorAbort` rows are read and marked one by one, in any order, while the code reads
  all due rows in five queries and marks a batch in one transaction: the model has more interleavings.
- **Data.** A commitment is the row itself. Every row has one from its creation on
  (`expandClientTask`, `newVSSMembers`), so the abort's branch for rows without one is left out.
  In the engine the VRF decision is a constant of the group (`VSSGroups`), in `SDFTGroup` it is
  chosen when it is stored: it is a function of Relay's seed. The seed is there whenever
  Relay has the task. GPU assignment is part of the "files".
- **Order.** `sequence ASC, id ASC` is the order of ids in the engine: a primary has its sequence
  long before its members exist, and the two members are interchangeable. In `SDFTGroup`
  the sequence numbers are variables, because the submitter depends on them.
- **Files of an engine result** are downloaded and installed in one step, which fails or succeeds.
- **Data errors** in a stored result (seed, arguments) do not occur.
- **Late requests** to Relay are modelled for the engine, not in `SDFTGroup`; there a request that
  changed Relay may be answered with an error (`Answered`).
- **Sampling.** `Heartbeat` lets any eligible entry be sampled. There is one heartbeat goroutine, and its
  configuration does not change. Its rows are primaries.

## Runs

The engine's instances use the rows of one client task: one validation group of three rows, or one or two
repeats validated alone. Three rows are what `validationGroupReady` and `scheduleSiblingCancellation` require of
a group, and two repeats are enough for one to fail and one to succeed. `FewStatuses` leaves out the
intermediate statuses that the engine treats like `Created`; `CalmStatuses` lets Relay end no task before it is
validated; `RunStatuses` adds a task that runs, `SoloStatuses` is what a task validated alone goes through. In
`sdft_group` the losers of a validation end as `EndAborted`, not as `EndGroupRefund`, after which the goroutine
does less. `MaxFaults` bounds crashes, failed requests, temporary errors and lost tasks together. One fault
already leaves a request in flight while the engine retries; two allow a crash during recovery, or a failure of
the reconciliation, and three both.

| Run | Instance | Shows |
|---|---|---|
| `group` | a group, all ends, 1 fault, recovery may fail, Relay may lose a task | types; downloads only after success; the client task says what its rows say; an end Relay reported is never replaced |
| `group_calm` | a group, no end before validation, no refusal, 2 faults, recovery may fail, with the history of `Reconciliation` | one validation owner; a lost mutation is repeated only after a status query, applied or failed |
| `mismatch` | a group that may record two file sets or none, no end before validation, 1 fault, recovery may fail, Relay may lose a task | no mixed group is ever validated; a row whose node recorded its files is validated with its VRF data and its whole group |
| `live_group` | a group, no fault | every row ends |
| `live_repeats` | two heartbeat repeats, one refused by Relay, temporary errors of all mutations, 2 faults, status requests | the queue-limit abort sticks and its cancellation is tried; a failed client task has no row that runs; clients are told only what is decided, and an end they were told stands; the client task ends |
| `abort` | two repeats; abort, expansion and two-step dispatch in any order; 1 fault of any kind | no orphaned operation; Relay runs nothing of what was expanded and reported as aborted; the client task is decided once, as `ClientTask` says |
| `sdft_group` | a round of three rows, with or without group validation, 1 fault, restart, refusal, abort or loss | at most one submitter with a ready task; a selected group is never validated alone; validation follows the storing of VRF data; no second life of a finished row |
| `sdft_rounds` | one client task, 3 retries, 1 continuation, 2 restarts, failed statements or lost answers, expiry | success has its result until it expires; repeated rounds are no more than errors; no failure goes uncounted; what was taken up is decided if no statement fails |
| `creation` | 2 requests over 3 APIs, batches of 2, use limit 1 or none, 1 change of the key, 1 crash or lost answer, 2 traces | counted uses are committed tasks, within the limit of a live key; the limiter follows the key; indexes lead to live traces, and each trace is found by its rows |
| `heartbeat` | 7 tasks, 3 hours, a total or a shared slot, 2 faults | the hour's limit holds, restarts included; tasks in flight are at most twice the total |

The bounds of the later runs: three failed rounds and a fourth reach the branch that gives up (`FailedCount >
3`), and two faults interrupt two of count, save and rename, or one of them again in its repetition. Three
client tasks against two traces force an eviction while a request is still registering rows. Seven heartbeat
tasks exceed both configurations' limits (1 in flight in total, batch 2; 4 per hour). Two members of a
fine-tuning group are symmetric, as are requests and the files of a row.

Deadlock is not checked: once every row is finished, the key is used up or the bounded tasks
are spent, nothing is left to do.

Two runs show where the code departs from its documents; each states what a document says and
ends with the shortest counterexample TLC found.

| Run | Shows |
|---|---|
| `abort_expand_race` | an abort between the two steps of expansion is reported as done; the rows are created and run all the same (`scheduler.go:121` reads `repeat_expanded` again, not the status; `docs/task_lifecycle.md:55`) |
| `sdft_result_lost` | after the rename of a finished checkpoint one failed update leaves the copy at success and the row running (`process_sd_ft_tasks.go:233`); nothing writes it again before a restart |

### Further instances

More configurations lie beside the runs (`tlc -config <name>.cfg <module>`). Eleven state what a document
promises and the code does not keep; TLC finds each violated, without faults or with the few that its cfg
allows. The runs check what the code does keep in these places: `RecordedHasVRF` for `ValidationHasVRF`,
`RetryIsReconciled` for `ReconcileBeforeRetry`, `NothingRunsAfterAbort` for `CancelledStaysStopped`,
`CancellationEnds` for `AbortedIsNotQueued`, `FinalPhaseStands` for `PhaseFitsStatus`, `InFlightIsBounded` for
`TotalIsKept`, `RepeatsAreErrors` for `FollowedOnce`.

| Configuration | Module | Violated | Shows |
|---|---|---|---|
| `abort_dispatch_race` | `MCCreatorAbort` | `CancelledStaysStopped` | an operation decided before an abort is marked after it (`dispatch.go:275` asks for `operation_status` only) and brings the row back (`docs/task_lifecycle.md:62`); `abort_row` shows that it is stopped again |
| `refused_group` | `MCTaskEngine` | `FailedMeansFinished` | a refused validation ends its whole group (`progression.go:124`), and a stored status answer reopens a member of the failed client task (`docs/task_engine.md:366`) |
| `refused_result` | `MCTaskEngine` | `ClientTaskOutcome` | the same after a refusal for want of model files: the reopened group is validated, as an aborted member without files is passed over (`model_file.go:76`), and a failed client task gets a result (`docs/task_engine.md:346`, `364`) |
| `no_files` | `MCTaskEngine` | `ValidationHasVRF` | a task the VRF selects whose node records no model files is validated alone and without VRF data (`progression.go:351`, `docs/task_engine.md:328`) |
| `temporary_cancel` | `MCTaskEngine` | `AbortedIsNotQueued` | a temporary error ends a cancellation like a success (`progression.go:131`, `docs/task_engine.md:309`) |
| `recovery_fails` | `MCTaskEngine` | `NoOrphanOperation` | if `recover` fails the loop starts anyway, beside operations without workers (`scheduler.go:18`, `docs/task_engine.md:246`) |
| `retry_unreconciled` | `MCReconciliation` | `ReconcileBeforeRetry` | a failed status query clears `operation_unknown` (`dispatch.go:462`), and a lost creation is repeated unreconciled (`docs/task_engine.md:311`) |
| `batch_failure` | `MCBatchWorkers` | `ReconcileBeforeRetry` | a worker that fails after storing one row's answer ends the next operation of that row, a creation, as if it were its own (`dispatch.go:472`); it is repeated unreconciled (`docs/task_engine.md:311`) |
| `read_race` | `MCClientReads` | `PhaseFitsStatus` | an answer `running` with a final phase: the rows are read after the client task (`engine.go:154`, `docs/task_engine.md:66`) |
| `heartbeat_total` | `MCHeartbeat` | `TotalIsKept` | a client task expanded between the two queries of `CountPending` is in neither: tasks in flight exceed the total (`docs/heartbeat_tasks.md:19`, `140`) |
| `sdft_round_twice` | `SDFTRounds` | `FollowedOnce` | the insert of the next round is committed though its call fails (`process_sd_ft_tasks.go:272`); its repetition adds a second round after the same one (`docs/sdft_tasks.md:7`) |

Two more pass. `reconcile` (`MCReconciliation`): `RetryIsReconciled` for one heartbeat row at a Relay that
refuses, ends and loses tasks, with 3 faults, temporary errors and failing recovery. `abort_row`
(`MCCreatorAbort`, under `AFairSpec`): one row, an abort and 3 faults of any kind; `AbortSettles`, a row that a
decision made before the abort brings back is stopped again and stays so.

### Behaviour seen beside the runs

Met with other instances of the same modules, or while reading. The passing runs leave these cases out by
their instances, as said here, or their properties do not speak of them.

Engine:

- After the refusal of `refused_group` two members of one group can own a validation at once. This is why
  `group_calm` lets Relay end no task before its validation and has nodes record the same files.
- With `ExecFiles` as in `refused_result` the properties of `group` that compare the client task with its
  rows fail as that run shows; `group` has nodes that record their files.
- A primary first read as terminal still gets two members (`progression.go:276`,
  `docs/task_lifecycle.md:109`).
- When the owner of a lost group validation has been read again, the validation is repeated although
  the other members have not (`decideOperation` looks at the owner's flags only).
- An abort that drops a row's operation makes the worker's next write fail with `errOperationNotRunning`, by
  which its whole batch is marked failed.
- A row that an abort ended may be `Created` again, for a while, under a client task that was
  reported as aborted (`abort_dispatch_race`). Its task is over at Relay, so it ends with the next status answer.

Fine-tuning:

- No member submits while the views of all goroutines hold sequence 0 for a ready row; the round then
  waits for Relay's timeout. The second look before a submission does not ask who leads, so the goroutine
  of a task that has ended may submit beside the leader's.
- The write after a creation may replace an `EndAborted` that a sibling wrote, and a downloaded row can fall
  back to `EndSuccess` and be downloaded again.
- `failed_count` may exceed the failed rounds when a statement after the count fails, and pass
  `MaxRetries + 1` when the update that gives up does.
- Rounds grow old in the order of their ids in the model, repeated rounds included.
- `lastID` passes over a client task whose rows commit after those of a higher id, and a failed first query
  ends its goroutine; both are repaired by the next restart only. Hence `TakenUpIsDecided` is
  about client tasks taken up and about runs without failed statements.

Creation and heartbeat:

- The fine-tuning API counts no use of the key. A commit whose answer is lost is reported as failed,
  though task and use stand. `saveTaskRecords` can leave a client task without rows.
- A refused request still reserves a token (`ratelimit.go:35`), so a client that waits as told may be
  refused again. The limiter is lost in a restart, and its burst stays until then. Two concurrent changes of the rate
  limit may leave row and limiter disagreeing, which is why `LimiterFollowsKey` speaks of completed changes.
- `newVSSMembers` (`progression.go:406`) gives the members of a heartbeat row no quantization key, by which
  `CountPending` selects: unfinished members are not counted in flight (`docs/heartbeat_tasks.md:136`
  counts every unfinished row).
- A creator abort tells the trace store nothing.
- A member of a heartbeat row's group may be aborted for its queue time while a node takes its task. The
  bridge then compares the files of the other two (`model_file.go:76` passes over an aborted row), and Relay
  validates the three: with `HeartbeatLimit = TRUE` and a group TLC finds `NoMixedGroupValidated` violated
  without any fault. Likewise `ClientTaskOutcome`: a client task that failed gets a result when Relay reports
  a success for a row aborted here.
- A creation that outlived its worker may create a task again that Relay has lost, and another node may run
  it with other files than the row has recorded. So with `RelayMayForget = TRUE` two faults (one is the loss)
  break `NoMixedGroupValidated` and `ClientTaskOutcome`; `mismatch` and `group` have one.

### Fairness

`FairSpec` of `TaskEngine` assumes, per row, that a step of the row (dispatch, answer, failure,
application) is taken if one stays possible. The loop scans for ever in id and due order, workers end by
their timeout, and every row has one operation at most. A bridge that is down is started again
(`Recover`). Relay moves an unfinished task on or times it out (`RelayMoves`). Faults are bounded,
so they end. No fairness is assumed of faults, late requests, or which answer Relay gives.

`AFairSpec` of `CreatorAbort` assumes the same of the steps of a row (`LoopStep`), with the two steps of dispatch
in place of one, and besides that a decision of a row that stays possible again and again is marked in the end:
`DispatchEnds` drops decisions when a pool is full, and pools are freed by the workers' timeout.

`FairSpec` of `SDFTRounds` assumes weak fairness of the scan (`TakeUp`), which repeats for ever, of each
client task's goroutine (`ClientStep`), and of the end of a round (`RoundEnds`), which Relay's timeouts bring
about. None is assumed of restarts, failed statements, cleanup or requests.

## Proofs

TLC checks the instances above. The theorems hold for every value of the constants that the modules'
assumptions admit: any rows, groups, client tasks, requests, limits and bounds on faults. The
assumptions say what the code or its configuration check ensures: ids are numbers, a group
has one primary and three rows when the VRF selects it, limits and periods are in range. Every safety invariant and
action property of a passing run is stated by a theorem; some have hypotheses, given below with their reason.

### The engine alone

`TaskEngineProofs`, without hypotheses but for recovery:

- `TypeCorrect`: `Spec => []TypeOK`. One lemma per action; `failedCount` needs that the
  groups are finitely many.
- `OperationsHaveWorkers` (`NoOrphanOperation`), if recovery does not fail. The invariant `WorkerInv`
  adds that nothing is running once recovery has reset the operations, which carries the
  fact over from recovery to the loop. When `recover` fails it is false, see above.
- `DownloadsAreJustified` (`DownloadOnlyAfterSuccess`). The invariant `SuccessInv` adds what links a local
  success to Relay: a stored answer that says success is true, and success at Relay is
  never left, not by late requests either.
- `QueueAbortSticks` (`HeartbeatAbortSticks`). A row could be reopened by the outcome of a creation
  dispatched before the abort, or by being created again as a member. `StageInv` excludes
  both: an outstanding creation belongs to a pending row, no row of a group under validation is
  pending (or the group's abort would overtake a creation), and members are created only for a
  row that is alone in its group.
- `ValidationsHaveVRF` (`RecordedHasVRF`). A row that is ready has its seed, or is one that the VRF selects and has
  no files recorded, in the row or in a stored answer; a seed of a selected group means that its three rows
  exist. Nothing is assumed of nodes; `no_files` shows what becomes of a task without files.
- `EngineKeepsPromise`: `Spec => KeepsPromise`, the refinement of `ClientTask`. The invariant `PromiseInv`
  says that a client task without a decision has no result; it holds because every step that changes
  a row's status recalculates the client task in the same transaction
  (`RecalculateKeepsPromise`), and every other step stutters (`PromiseStutters`). Recovery changes
  no status and recalculates alone.

### The engine and Relay

`AgreementProofs` assumes that Relay forgets no task, that the queue limit of heartbeat rows is off, and, where
the VRF selects groups, that nodes record the files of every task they take (`FilesRecorded`). All are needed: a
lost task may be created again by a late request, the queue limit aborts a row whose task may still run, and
without files a refused group may be validated in the end. TLC has counterexamples for each (see above and
`refused_result`). `RowsAgreeWithRelay` is the inductive invariant, for a "unit", the rows that are validated
together. What a row says holds of its task, and so does what a stored answer says, however late it is applied.
A unit under validation has settled at Relay. A validation that was refused is `Hopeless`: no later one of its
unit can succeed, so the abort that follows is not overtaken by a success. A request that outlived its worker
repeats what was decided. From it:

- `ValidatedGroupsAgree` (`NoMixedGroupValidated`): the worker compares the files that Relay compares.
- `ReportedEndsStay` (`RelayEndStays`): `EndInv` says that a row with an end of Relay has no operation
  left that could change it.
- `OutcomeIsJustified` (`ClientTaskOutcome`): `OutcomeInv` says that a client task fails only when all its
  tasks are lost, and `AloneInv` that no group can grow then.

Two theorems stand apart. `OneOwner` (`OneValidationOwner`) is about a calm Relay (`CalmRelay`): it aborts no task
and refuses none, and all nodes record the same files. `group_calm` is such an instance; once a validation
is refused and an older answer is applied a group may have two owners. Nothing is hopeless then, so `CalmInv`: no
row is aborted and nothing is cancelled; `OwnerInv`: whoever validates is the first row of its unit (`CalmGroups`).

`LossesAreReconciled` (`RetryIsReconciled`) is about `HSpec`, for any groups, nodes and Relay, lost tasks and
the queue limit included. Its invariant `LossInv` says that an unresolved row whose status query has not failed
is marked `opUnknown` and has no operation at work but a status query.

### Rows validated alone, and the creator's abort

`CreatorAbortProofs` shows without hypotheses that types and `KeepsPromise` hold with expansion, abort and the
dispatch in two steps beside the engine (`AbortTypeCorrect`, `AbortKeepsPromise`), and `NoOrphanOperation` if
recovery does not fail (`AbortLeavesNoOrphan`). The other theorems are about client tasks without validation
groups (`VSSGroups = {}`, as in `live_repeats` and `abort`) and a Relay that forgets nothing.

Without the abort, now with the queue limit and with Relay's own aborts, `SingleRowsAgree` is their
invariant: `SingleInv` relates row, operation, stored answer and late
requests to the task, `ClientInv` the client task to its rows. From it `FailedIsFinished`
(`FailedMeansFinished`), `SingleRowsStay` (a finished row stays finished), `ToldWhatIsDecided` (`ToldIsDecided`) and
`FinalPhasesStand` (`FinalPhaseStands`).

With the abort (ordinary clients) `SingleInv` is too strong: an operation decided before the abort and marked
after it may bring the row back, so a row may leave its end, and an operation need not fit the status of its
row. `CancelInv` says of each row what its task at Relay bears out: its status (an aborted row is refused or
aborted at Relay, too), its operation, decided or started, its stored answer and its late requests. `AbortInv`
adds that what the abort has cancelled is over at Relay and that there are no rows before the expansion
(`AbortedRowsAgree`). So `AbortedTasksAreOver` (`NothingRunsAfterAbort`): whatever is brought back, Relay has
nothing of it that waits or runs.

### Fine-tuning

`SDFTGroupProofs`, without hypotheses, lost tasks included. In `GroupInv`, a copy of a row, however old, agrees
with the row and with Relay (`Agrees`), because a row leaves its creation once and an end at Relay is
final. The election: from its choice to its submission a goroutine knows of every other row that it comes
later in the sequence or that it is dead at Relay and no longer pending. Both are stable, and two ready rows cannot
each come before the other (`OneElected`). `GroupTypeCorrect` has to show that sequence numbers stay within
`MaxSeq`, which counts the creations that faults can bring about. `SelectedAsGroup`,
`DataBeforeValidation` and `FinishedRowsStay` follow from the same invariant.

`SDFTRoundsProofs`, without hypotheses. An insert that is committed and reported as failed makes the rounds a tree
rather than a chain. `RoundsInv` (`RoundsAreOrdered`) says of each client task: every round follows an earlier one
that ended, and ended without FINISH; the expired rounds come first; a goroutine past its choice
holds the last round, or one that is followed already and is about to be followed again (`Held`); only a renamed,
finished checkpoint completes a client task (`Completed`); retried failures are no more than `failed_count`,
or fewer while a count is still to be made (`Counted`); `failed_count` passes `MaxRetries + 1` by the
number of faults at most (`Bounded`); and repeated rounds are no more than faults, and fewer while the
goroutine holds a round that is followed (`Doubled`): each repetition has an error of its own. From it
`RoundsTypeCorrect`, `CompletedIsServed`, `RepeatsAreLost` (`RepeatsAreErrors`) and `RetriesAreCounted`.

### Creation and heartbeat

`TraceStoreProofs` shows that every call of the store keeps `StoreInv`: traces are listed once, and the indexes
hold exactly the entries of the traces there are. `CreationProofs` puts it beside requests and engine
(`TraceInv`): `EntriesLiveOn`, `TracesStayFound`. `UsesAreCounted` and `QuotaHolds` rest on `QuotaInv`: what was
counted was committed, so it is not counted twice. `LimiterFollows` rests on `LimiterInv`: a copy of the row
that a request holds is stale only while a change is on its way to the limiter. `CreationTypeCorrect` is about
types.

`HeartbeatProofs`: `HourInv` says that the counter is what the database holds since the counted hour began,
and that the plan fits what is left; hence `HourlyLimitHolds`. The total needs a witness (`TotalInv`): let B be the
tasks that waited for their expansion when the iteration began. No count overlooks a waiting task, so
B is within the total; what the two queries overlook is in B; so tasks in flight are at most the total and B
again (`InFlightStaysBounded`). Sums over slots are counted as the cardinality of a set of pairs.

### What stays with TLC

Liveness under fairness: `EveryRowFinishes`, `ClientTaskEnds`, `CancellationEnds`,
`AbortSettles` and `TakenUpIsDecided`. TLAPS
has neither `ENABLED` nor a way from fairness to progress. The violation runs are counterexamples, which only
TLC gives. No recursive definition is proved about; a bound or an extreme over a set comes from the
well-foundedness of the numbers.

With one fault and a Relay that may lose tasks (`mismatch`: and nodes that record no files),
`NoMixedGroupValidated`, `RelayEndStays` and `ClientTaskOutcome` are checked by `mismatch` and `group` only; the
theorems are about a Relay that loses none.

## Not modelled yet, and the plan

1. The iteration of the main loop over several client tasks, with worker pools, query limits and results that
   cannot be applied: starvation and the row that blocks the loop.
2. Poll times (`statusSyncNextActionAt`) against the configured bounds, as arithmetic over durations.
3. Late requests in `SDFTGroup`; cleanup beside the engine's rows.
4. Proofs: `NoMixedGroupValidated` at a Relay that loses tasks to which no request is late, and with nodes
   that record no files; `NothingRunsAfterAbort` for groups; a refinement of the heartbeat counts by an atomic count.

Stay out: validation and layout in the handlers, configuration, migrations, roles of keys and document
conversions. They keep no state that changes at run time, or only rearrange data.
