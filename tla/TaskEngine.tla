----------------------------- MODULE TaskEngine -----------------------------
(***************************************************************************)
(* The main loop of the task engine, its request workers and its recovery, *)
(* over the rows of one expanded client task.                              *)
(*                                                                         *)
(* The database columns of inference_tasks are the functions below, one    *)
(* entry per row.  The main loop dispatches an operation for a row         *)
(* (Dispatch), a worker sends it to Relay and stores what came back        *)
(* (Answer..., WorkerFails), and a later iteration applies what is stored  *)
(* in one transaction (Apply...).  A crash loses the workers but neither   *)
(* the rows nor the requests that are already on their way.                *)
(*                                                                         *)
(* Time is abstracted: a row whose next_action_at lies in the future may   *)
(* be dispatched at any moment, so no property depends on a delay.         *)
(***************************************************************************)
EXTENDS Relay

CONSTANTS
  TaskID,          \* TaskID[t]: the validation group of row t
  Primary,         \* the rows created by repeat expansion
  VSSGroups,       \* the groups whose VRF number selects validation
  HeartbeatLimit,  \* the rows belong to the heartbeat client, which has a queue limit
  FaultyOps,       \* operation types whose request may fail or time out
  TemporaryOps,    \* operation types that Relay may answer with temporary_error
  MaxFaults,       \* bound on failures, crashes and temporary errors
  RelayMayForget,  \* Relay may lose an unfinished task
  RecoveryMayFail  \* a statement of recover() may fail

Groups == {TaskID[t] : t \in Task}
GroupRows(g) == {t \in Task : TaskID[t] = g}

ASSUME EngineAssumption ==
  /\ Task \subseteq Nat
  /\ TaskID \in [Task -> Groups]
  /\ Primary \subseteq Task
  /\ \A g \in Groups : Cardinality(GroupRows(g) \cap Primary) = 1
  /\ \A g \in VSSGroups : Cardinality(GroupRows(g)) = 3
  /\ HeartbeatLimit \in BOOLEAN /\ RelayMayForget \in BOOLEAN /\ RecoveryMayFail \in BOOLEAN
  /\ FaultyOps \subseteq OperationType /\ TemporaryOps \subseteq MutationOp
  /\ MaxFaults \in Nat

VARIABLES
  status,              \* status[t]: local lifecycle status, or "absent"
  abortReason,         \* abort_reason
  relayChecked,        \* relay_checked
  relayFound,          \* relay_found
  opUnknown,           \* operation_unknown
  validationSubmitted, \* validation_submitted
  siblingCancel,       \* sibling_cancellation_required
  seedSaved,           \* sampling_seed, vrf_number and vrf_proof are stored
  modelFiles,          \* selected_execution_model_files
  op,                  \* operation_type
  opStatus,            \* operation_status
  opResult,            \* operation_result
  clientStatus,        \* ClientTask.Status
  failedCount,         \* ClientTask.FailedCount
  mode,                \* "up", "down" or "recovering"
  recheck,             \* groups that recover() has still to mark unchecked
  worker,              \* worker[t]: what the live worker of t's operation does
  late,                \* mutation requests sent by workers that are gone
  faults               \* faults so far

rowVars    == <<abortReason, relayChecked, relayFound, validationSubmitted, seedSaved, modelFiles>>
opVars     == <<op, opStatus, opResult>>
clientVars == <<clientStatus, failedCount>>
envVars    == <<mode, recheck, worker, late, faults>>
vars == <<status, siblingCancel, opUnknown, rowVars, opVars, clientVars, envVars, relayVars>>

Result == [outcome : Outcome, status : ChainStatus, reason : AbortReason,
           files : ExecFiles \cup {NoFiles}]
NoResult == [outcome |-> "none", status |-> "NotFound", reason |-> "None", files |-> NoFiles]

Request == [task : Task, op : MutationOp, unit : SUBSET Task]

TypeOK ==
  /\ RelayTypeOK
  /\ status \in [Task -> TaskStatus \cup {"absent"}]
  /\ abortReason \in [Task -> AbortReason]
  /\ relayChecked \in [Task -> BOOLEAN]
  /\ relayFound \in [Task -> BOOLEAN]
  /\ opUnknown \in [Task -> BOOLEAN]
  /\ validationSubmitted \in [Task -> BOOLEAN]
  /\ siblingCancel \in [Task -> BOOLEAN]
  /\ seedSaved \in [Task -> BOOLEAN]
  /\ modelFiles \in [Task -> ExecFiles \cup {NoFiles}]
  /\ op \in [Task -> OperationType]
  /\ opStatus \in [Task -> OperationStatus]
  /\ opResult \in [Task -> Result]
  /\ clientStatus \in {"running", "success", "failed"}
  /\ failedCount \in Nat
  /\ mode \in {"up", "down", "recovering"}
  /\ recheck \subseteq Groups
  /\ worker \in [Task -> {"idle", "request", "refuse"}]
  /\ late \subseteq Request
  /\ faults \in 0..MaxFaults

\* The rows exist as expandClientTask creates them, the members do not yet.
Init ==
  /\ RelayInit
  /\ status = [t \in Task |-> IF t \in Primary THEN "Pending" ELSE "absent"]
  /\ abortReason = [t \in Task |-> "None"]
  /\ relayChecked = [t \in Task |-> FALSE]
  /\ relayFound = [t \in Task |-> FALSE]
  /\ opUnknown = [t \in Task |-> FALSE]
  /\ validationSubmitted = [t \in Task |-> FALSE]
  /\ siblingCancel = [t \in Task |-> FALSE]
  /\ seedSaved = [t \in Task |-> FALSE]
  /\ modelFiles = [t \in Task |-> NoFiles]
  /\ op = [t \in Task |-> "none"]
  /\ opStatus = [t \in Task |-> "none"]
  /\ opResult = [t \in Task |-> NoResult]
  /\ clientStatus = "running"
  /\ failedCount = 0
  /\ mode = "up"
  /\ recheck = {}
  /\ worker = [t \in Task |-> "idle"]
  /\ late = {}
  /\ faults = 0

-----------------------------------------------------------------------------
\* Helpers on groups and on the client task.

\* UPDATE ... SET f = v WHERE id IN S
SetAll(f, S, v) == [t \in Task |-> IF t \in S THEN v ELSE f[t]]

\* The existing rows with the same task_id, when the statuses are st.
MembersIn(st, t) == {u \in Task : TaskID[u] = TaskID[t] /\ st[u] # "absent"}
Members(t) == MembersIn(status, t)

\* hasValidationTimeout and validationGroupReady
HasValidationTimeout(S) ==
  \E u \in S : status[u] = "EndAborted" /\ abortReason[u] = "CreatorValidationTimeout"
ValidationGroupReady(S) ==
  /\ Cardinality(S) = 3
  /\ ~HasValidationTimeout(S)
  /\ \A u \in S : IsReadyForValidation(status[u]) \/ status[u] = "EndAborted"

\* Mutant: every ready member may own the validation.
IsValidationOwner_Any(t) == IsReadyForValidation(status[t])

\* The first ready member; Relay's sequence follows the creation order of rows.
IsValidationOwner(t) ==
  /\ IsReadyForValidation(status[t])
  /\ \A u \in Members(t) : IsReadyForValidation(status[u]) => t \leq u

\* Mutant: only checks that files are recorded, not that they agree.
ModelFilesAgree_Recorded(S) == \A u \in S : modelFiles[u] = NoFiles => status[u] = "EndAborted"

\* CheckGroupExecutionModelFiles
ModelFilesAgree(S) ==
  /\ \A u \in S : modelFiles[u] = NoFiles => status[u] = "EndAborted"
  /\ \A u, v \in S : NoFiles \notin {modelFiles[u], modelFiles[v]}
                       => modelFiles[u] = modelFiles[v]

\* scheduleSiblingCancellation: the rows it marks after t was set to st[t].
SiblingsToCancel(st, t) ==
  IF st[t] = "EndAborted" /\ Cardinality(MembersIn(st, t)) = 3
  THEN {u \in MembersIn(st, t) \ {t} : st[u] \notin TerminalStatus}
  ELSE {}

\* recalculateClientTask over the statuses st
Existing(st) == {t \in Task : st[t] # "absent"}
FailedGroups(st) ==
  {g \in Groups :
     LET S == GroupRows(g) \cap Existing(st)
     IN  S # {} /\ \A t \in S : Finished(st[t]) /\ st[t] # "ResultDownloaded"}
\* Mutant: the first finished row fails the client task.
RecalculateClientTask_FirstRow(st) ==
  IF clientStatus # "running" THEN UNCHANGED clientVars
  ELSE /\ failedCount' = Cardinality(FailedGroups(st))
       /\ clientStatus' = IF \E t \in Task : st[t] = "ResultDownloaded" THEN "success"
                          ELSE IF \E t \in Existing(st) : Finished(st[t]) THEN "failed"
                          ELSE "running"
\* Mutant: a decided client task is decided anew.
RecalculateClientTask_Anew(st) ==
  /\ failedCount' = Cardinality(FailedGroups(st))
  /\ clientStatus' = IF \E t \in Task : st[t] = "ResultDownloaded" THEN "success"
                     ELSE IF \A t \in Existing(st) : Finished(st[t]) THEN "failed"
                     ELSE "running"
RecalculateClientTask(st) ==
  IF clientStatus # "running" \/ Existing(st) = {}
  THEN UNCHANGED clientVars
  ELSE /\ failedCount' = Cardinality(FailedGroups(st))
       /\ clientStatus' =
            IF \E t \in Task : st[t] = "ResultDownloaded" THEN "success"
            ELSE IF \A t \in Existing(st) : Finished(st[t]) THEN "failed"
            ELSE "running"

-----------------------------------------------------------------------------
\* Dispatch: one due row gets one operation.

\* Mutant: without the query on EndSuccess.
LoadedAsDue_NoResults(t) ==
  status[t] \notin {"absent"} \cup TerminalStatus /\ opStatus[t] = "none"

\* loadDueTasks: the union of its five queries.
LoadedAsDue(t) ==
  /\ status[t] # "absent"
  /\ opStatus[t] = "none"
  /\ \/ siblingCancel[t]
     \/ status[t] = "EndSuccess"
     \/ status[t] \in {"ScoreReady", "ErrorReported"}
     \/ status[t] = "Pending" /\ relayChecked[t] /\ ~relayFound[t] /\ ~opUnknown[t]
     \/ /\ \/ opUnknown[t] \/ ~relayChecked[t] \/ relayFound[t]
           \/ status[t] \in {"Created", "Started", "ParamsUploaded", "Validated"}
        /\ status[t] \notin TerminalStatus

\* Mutant: a finished row is left alone before its cancellation is looked at.
DecideOperation_FinishedFirst(t) ==
  IF opUnknown[t] \/ ~relayChecked[t] THEN "sync_status"
  ELSE IF Finished(status[t])         THEN "none"
  ELSE IF siblingCancel[t]            THEN "cancel"
  ELSE IF status[t] = "EndSuccess"    THEN "result"
  ELSE IF status[t] = "Pending" /\ ~relayFound[t] THEN "create"
  ELSE IF IsReadyForValidation(status[t]) /\ ~validationSubmitted[t] THEN "validate"
  ELSE "sync_status"

\* Whether a row that is up for validation is to submit it.
SubmitsValidation(t) ==
  /\ IsReadyForValidation(status[t]) /\ ~validationSubmitted[t]
  /\ \/ Cardinality(Members(t)) = 1
     \/ ValidationGroupReady(Members(t)) /\ IsValidationOwner(t)

DecideOperation(t) ==
  IF opUnknown[t] \/ ~relayChecked[t] THEN "sync_status"
  ELSE IF siblingCancel[t]            THEN "cancel"
  ELSE IF status[t] = "EndSuccess"    THEN "result"
  ELSE IF Finished(status[t])         THEN "none"
  ELSE IF status[t] = "Pending" /\ ~relayFound[t] THEN "create"
  ELSE IF SubmitsValidation(t)        THEN "validate"
  ELSE "sync_status"

\* The worker of the operation decided for t: a validation worker works on the
\* group as decideOperation read it.
WorkerFor(t) ==
  IF /\ DecideOperation(t) = "validate"
     /\ Cardinality(Members(t)) = 3
     /\ ~ModelFilesAgree(Members(t))
  THEN "refuse" ELSE "request"

\* markRunning, which looks at operation_status only, and the start of the worker.
MarkRunning(t, o, w) ==
  /\ opStatus[t] = "none"
  /\ op' = [op EXCEPT ![t] = o]
  /\ opStatus' = [opStatus EXCEPT ![t] = "running"]
  /\ opResult' = [opResult EXCEPT ![t] = NoResult]
  /\ worker' = [worker EXCEPT ![t] = w]
  /\ UNCHANGED <<status, siblingCancel, opUnknown, rowVars, clientVars,
                 mode, recheck, late, faults, relayVars>>

\* loadDueTasks, decideOperation and markRunning are one step here.  One goroutine
\* runs the loop, and what runs beside it in this module writes only rows with a
\* running operation: nothing that was read for t has changed when t is marked.
\* An abort does change it, see CreatorAbort.
Dispatch(t) ==
  /\ mode = "up"
  /\ LoadedAsDue(t)
  /\ DecideOperation(t) # "none"
  /\ MarkRunning(t, DecideOperation(t), WorkerFor(t))

-----------------------------------------------------------------------------
\* The request workers.

Working(t, o) == worker[t] # "idle" /\ opStatus[t] = "running" /\ op[t] = o

\* A temporary error counts as a fault.
CountTemporary(t, out) ==
  IF out = "temporary_error"
    THEN op[t] \in TemporaryOps /\ faults < MaxFaults /\ faults' = faults + 1
    ELSE UNCHANGED faults

\* writeOperationCompleted
WriteCompleted(t, result) ==
  /\ opStatus' = [opStatus EXCEPT ![t] = "completed"]
  /\ opResult' = [opResult EXCEPT ![t] = result]
  /\ worker' = [worker EXCEPT ![t] = "idle"]
  /\ UNCHANGED <<op, status, siblingCancel, opUnknown, rowVars, clientVars, mode, recheck, late>>

WriteOutcome(t, out) ==
  /\ WriteCompleted(t, [NoResult EXCEPT !.outcome = out])
  /\ CountTemporary(t, out)

AnswerStatus(t) ==
  /\ Working(t, "sync_status")
  /\ WriteCompleted(t, [outcome |-> "none", status |-> rstatus[t],
                        reason |-> rreason[t], files |-> rfiles[t]])
  /\ UNCHANGED <<faults, relayVars>>

AnswerCreate(t) ==
  /\ Working(t, "create")
  /\ \E out \in Outcome : RelayCreate(t, out) /\ WriteOutcome(t, out)

\* The worker itself refuses a group whose model files differ.
AnswerValidate(t) ==
  /\ Working(t, "validate")
  /\ IF worker[t] = "refuse"
     THEN WriteOutcome(t, "permanent_error") /\ UNCHANGED relayVars
     ELSE \E out \in Outcome : RelayValidate(Members(t), out) /\ WriteOutcome(t, out)

AnswerCancel(t) ==
  /\ Working(t, "cancel")
  /\ \E out \in Outcome : RelayCancel(t, out) /\ WriteOutcome(t, out)

\* The result is downloaded and installed; Relay serves it only on success.
AnswerResult(t) ==
  /\ Working(t, "result")
  /\ rstatus[t] \in {"EndSuccess", "EndGroupSuccess"}
  /\ WriteOutcome(t, "downloaded")
  /\ UNCHANGED relayVars

RequestOf(t) == [task |-> t, op |-> op[t], unit |-> Members(t)]
InFlight(S) == {RequestOf(t) : t \in {u \in S : op[u] \in MutationOp /\ worker[u] = "request"}}

\* Mutant: only a lost creation is thought to leave Relay unknown.
LeavesUnknown_Create(o) == o = "create"

\* A lost mutation may have taken effect, a lost read cannot have.
LeavesUnknown(o) == o \in MutationOp

\* writeBatchFailure: timeout, lost response, server error or panic.  The
\* request may still be on its way.  operation_unknown is written either way.
\* The write is guarded by operation_status, not by the operation it is about:
\* here a worker only meets its own, see BatchWorkers.
WorkerFails(t) ==
  /\ faults < MaxFaults
  /\ worker[t] # "idle" /\ opStatus[t] = "running" /\ op[t] \in FaultyOps
  /\ opStatus' = [opStatus EXCEPT ![t] = "failed"]
  /\ opUnknown' = [opUnknown EXCEPT ![t] = LeavesUnknown(op[t])]
  /\ worker' = [worker EXCEPT ![t] = "idle"]
  /\ \E lost \in SUBSET InFlight({t}) : late' = late \cup lost
  /\ faults' = faults + 1
  /\ UNCHANGED <<op, opResult, status, siblingCancel, rowVars, clientVars, mode, recheck, relayVars>>

-----------------------------------------------------------------------------
\* Applying a stored operation result, one transaction per row.

Applicable(t, o) == mode = "up" /\ opStatus[t] = "completed" /\ op[t] = o

\* The tail of the transaction: clear the operation, mark the siblings,
\* recalculate the client task.  st and sib are the new columns before it.
ApplyTail(t, st, sib) ==
  /\ status' = st
  /\ siblingCancel' = SetAll(sib, SiblingsToCancel(st, t), TRUE)
  /\ op' = [op EXCEPT ![t] = "none"]
  /\ opStatus' = [opStatus EXCEPT ![t] = "none"]
  /\ opResult' = [opResult EXCEPT ![t] = NoResult]
  /\ RecalculateClientTask(st)
  /\ UNCHANGED <<envVars, relayVars>>

\* A failed operation is only rescheduled; after an unknown validation the
\* whole group has to be read again.
ApplyFailed(t) ==
  /\ mode = "up" /\ opStatus[t] = "failed"
  /\ relayChecked' = IF opUnknown[t] /\ op[t] = "validate"
                     THEN SetAll(relayChecked, Members(t), FALSE) ELSE relayChecked
  /\ op' = [op EXCEPT ![t] = "none"]
  /\ opStatus' = [opStatus EXCEPT ![t] = "none"]
  /\ opResult' = [opResult EXCEPT ![t] = NoResult]
  /\ UNCHANGED <<status, abortReason, relayFound, validationSubmitted, seedSaved, modelFiles,
                 siblingCancel, opUnknown, clientVars, envVars, relayVars>>

\* Relay does not know the commitment.
ApplyStatusNotFound(t) ==
  /\ Applicable(t, "sync_status")
  /\ opResult[t].status = "NotFound"
  /\ relayChecked' = [relayChecked EXCEPT ![t] = TRUE]
  /\ relayFound' = [relayFound EXCEPT ![t] = FALSE]
  /\ opUnknown' = [opUnknown EXCEPT ![t] = FALSE]
  /\ ApplyTail(t, IF status[t] = "Pending" THEN status
                  ELSE [status EXCEPT ![t] = "EndAborted"],
               [siblingCancel EXCEPT ![t] = FALSE])
  /\ UNCHANGED <<abortReason, validationSubmitted, seedSaved, modelFiles>>

\* Mutant: Relay's status always wins.
KeepsLocalAbort_Never(t) == FALSE

\* A row aborted here whose cancellation is still owed keeps its status.
KeepsLocalAbort(t) ==
  /\ status[t] = "EndAborted" /\ siblingCancel[t]
  /\ ~IsChainTaskTerminal(opResult[t].status)

ApplyStatusKeepsAbort(t) ==
  /\ Applicable(t, "sync_status")
  /\ opResult[t].status # "NotFound"
  /\ KeepsLocalAbort(t)
  /\ relayChecked' = [relayChecked EXCEPT ![t] = TRUE]
  /\ relayFound' = [relayFound EXCEPT ![t] = TRUE]
  /\ opUnknown' = [opUnknown EXCEPT ![t] = FALSE]
  /\ ApplyTail(t, status, siblingCancel)
  /\ UNCHANGED <<abortReason, validationSubmitted, seedSaved, modelFiles>>

\* heartbeatQueuedTimedOut: a heartbeat task waited too long in Relay's queue.
ApplyStatusTimedOut(t) ==
  /\ Applicable(t, "sync_status")
  /\ HeartbeatLimit /\ opResult[t].status = "Queued"
  /\ ~KeepsLocalAbort(t)
  /\ abortReason' = [abortReason EXCEPT ![t] = "CreatorCancelled"]
  /\ relayChecked' = [relayChecked EXCEPT ![t] = TRUE]
  /\ relayFound' = [relayFound EXCEPT ![t] = TRUE]
  /\ opUnknown' = [opUnknown EXCEPT ![t] = FALSE]
  /\ ApplyTail(t, [status EXCEPT ![t] = "EndAborted"], [siblingCancel EXCEPT ![t] = TRUE])
  /\ UNCHANGED <<validationSubmitted, seedSaved, modelFiles>>

\* persistVRFAndMembers: the VRF data of a primary, and the two members that
\* the VRF asks for once Relay has frozen the execution model files.
NeedsVRF(t) ==
  /\ ~seedSaved[t]
  /\ TaskID[t] \in VSSGroups => opResult[t].files # NoFiles
\* Mutant: the count of existing rows is off by one.
NewMembers_OffByOne(t) ==
  IF NeedsVRF(t) /\ TaskID[t] \in VSSGroups /\ Cardinality(Members(t)) = 0
  THEN GroupRows(TaskID[t]) \ {t} ELSE {}
NewMembers(t) ==
  IF NeedsVRF(t) /\ TaskID[t] \in VSSGroups /\ Cardinality(Members(t)) = 1
  THEN GroupRows(TaskID[t]) \ {t} ELSE {}

\* The ordinary path of applyRelayStatus.
ApplyStatus(t) ==
  LET local == RelayStatusToLocal(opResult[t].status) IN
  /\ Applicable(t, "sync_status")
  /\ opResult[t].status # "NotFound"
  /\ ~KeepsLocalAbort(t)
  /\ abortReason' = [abortReason EXCEPT ![t] = opResult[t].reason]
  /\ relayChecked' = [relayChecked EXCEPT ![t] = TRUE]
  /\ relayFound' = [relayFound EXCEPT ![t] = TRUE]
  /\ opUnknown' = [opUnknown EXCEPT ![t] = FALSE]
  /\ modelFiles' = [modelFiles EXCEPT ![t] = opResult[t].files]
  /\ seedSaved' = IF NeedsVRF(t) THEN SetAll(seedSaved, {t} \cup NewMembers(t), TRUE)
                  ELSE seedSaved
  /\ ApplyTail(t, SetAll([status EXCEPT ![t] = local], NewMembers(t), "Pending"),
               IF local = "Created" THEN siblingCancel
               ELSE [siblingCancel EXCEPT ![t] = FALSE])
  /\ UNCHANGED validationSubmitted

CreationAccepted(out)   == out \in {"created", "already_exists"}
\* Mutant: a repeated validation is taken for a failed one.
ValidationAccepted_Once(out) == out = "validated"
ValidationAccepted(out) == out \in {"validated", "already_applied"}

ApplyCreate(t) ==
  LET out == opResult[t].outcome IN
  /\ Applicable(t, "create")
  /\ IF CreationAccepted(out)
     THEN /\ relayChecked' = [relayChecked EXCEPT ![t] = TRUE]
          /\ relayFound' = [relayFound EXCEPT ![t] = TRUE]
          /\ opUnknown' = [opUnknown EXCEPT ![t] = FALSE]
          /\ UNCHANGED abortReason
          /\ ApplyTail(t, [status EXCEPT ![t] = "Created"], siblingCancel)
     ELSE /\ UNCHANGED <<relayChecked, relayFound, opUnknown>>
          /\ IF out = "temporary_error"
             THEN UNCHANGED abortReason /\ ApplyTail(t, status, siblingCancel)
             ELSE /\ abortReason' = [abortReason EXCEPT ![t] = "CreatorCancelled"]
                  /\ ApplyTail(t, [status EXCEPT ![t] = "EndAborted"], siblingCancel)
  /\ UNCHANGED <<validationSubmitted, seedSaved, modelFiles>>

\* The owner's outcome concerns the whole group.
ApplyValidate(t) ==
  LET out == opResult[t].outcome IN
  /\ Applicable(t, "validate")
  /\ validationSubmitted' = IF ValidationAccepted(out)
                            THEN SetAll(validationSubmitted, Members(t), TRUE)
                            ELSE validationSubmitted
  /\ ApplyTail(t, IF ValidationAccepted(out) \/ out = "temporary_error" THEN status
                  ELSE SetAll(status, Members(t), "EndAborted"),
               siblingCancel)
  /\ UNCHANGED <<abortReason, relayChecked, relayFound, opUnknown, seedSaved, modelFiles>>

\* Every cancellation outcome ends the cancellation.
ApplyCancel(t) ==
  /\ Applicable(t, "cancel")
  /\ abortReason' = IF status[t] = "EndAborted"
                    THEN [abortReason EXCEPT ![t] = "CreatorCancelled"] ELSE abortReason
  /\ ApplyTail(t, status, [siblingCancel EXCEPT ![t] = FALSE])
  /\ UNCHANGED <<relayChecked, relayFound, opUnknown, validationSubmitted, seedSaved, modelFiles>>

ApplyDownload(t) ==
  /\ Applicable(t, "result")
  /\ ApplyTail(t, [status EXCEPT ![t] = "ResultDownloaded"], siblingCancel)
  /\ UNCHANGED <<opUnknown, rowVars>>

-----------------------------------------------------------------------------
\* Process crash and recovery.

\* The bridge process dies with its workers; requests may survive it.
Crash ==
  /\ mode # "down" /\ faults < MaxFaults
  /\ mode' = "down"
  /\ recheck' = {}
  /\ worker' = [t \in Task |-> "idle"]
  /\ \E lost \in SUBSET InFlight(Task) : late' = late \cup lost
  /\ faults' = faults + 1
  /\ UNCHANGED <<status, siblingCancel, opUnknown, rowVars, opVars, clientVars, relayVars>>

\* Mutant: only interrupted mutations are reset.
Interrupted_Mutations == {t \in Task : opStatus[t] = "running" /\ op[t] \in MutationOp}
Interrupted == {t \in Task : opStatus[t] = "running"}

\* recover(), first statement pair: read the running operations, reset them.
RecoverOperations ==
  /\ mode = "down"
  /\ mode' = "recovering"
  /\ recheck' = {TaskID[t] : t \in {u \in Interrupted : op[u] = "validate"}}
  /\ op' = SetAll(op, Interrupted, "none")
  /\ opStatus' = SetAll(opStatus, Interrupted, "none")
  /\ opUnknown' = SetAll(opUnknown, Interrupted, TRUE)
  /\ UNCHANGED <<opResult, status, siblingCancel, rowVars, clientVars, worker, late, faults, relayVars>>

\* recover(), the loop over interrupted validations: one statement per group.
RecoverGroup(g) ==
  /\ mode = "recovering" /\ g \in recheck
  /\ recheck' = recheck \ {g}
  /\ relayChecked' = SetAll(relayChecked, GroupRows(g) \cap Existing(status), FALSE)
  /\ UNCHANGED <<status, abortReason, relayFound, validationSubmitted, seedSaved, modelFiles,
                 siblingCancel, opUnknown, opVars, clientVars, mode, worker, late, faults, relayVars>>

\* recover(), the recalculation of the running client task; the loop starts.
RecoverClientTask ==
  /\ mode = "recovering" /\ recheck = {}
  /\ mode' = "up"
  /\ RecalculateClientTask(status)
  /\ UNCHANGED <<status, siblingCancel, opUnknown, rowVars, opVars, recheck, worker, late, faults, relayVars>>

\* run() only logs an error of recover() and starts the loop.
RecoveryFails ==
  /\ RecoveryMayFail /\ mode \in {"down", "recovering"}
  /\ mode' = "up"
  /\ recheck' = {}
  /\ UNCHANGED <<status, siblingCancel, opUnknown, rowVars, opVars, clientVars,
                 worker, late, faults, relayVars>>

-----------------------------------------------------------------------------
\* Relay's own steps, and requests that arrive after their worker is gone.

RelayMoves(t) ==
  /\ RelayProgress(t)
  /\ UNCHANGED <<status, siblingCancel, opUnknown, rowVars, opVars, clientVars, envVars>>

RelayLoses(t) ==
  /\ RelayMayForget /\ faults < MaxFaults
  /\ RelayForget(t)
  /\ faults' = faults + 1
  /\ UNCHANGED <<status, siblingCancel, opUnknown, rowVars, opVars, clientVars,
                 mode, recheck, worker, late>>

LateRequest(r) ==
  /\ r \in late
  /\ late' = late \ {r}
  /\ \E out \in Outcome :
       CASE r.op = "create"   -> RelayCreate(r.task, out)
         [] r.op = "validate" -> RelayValidate(r.unit, out)
         [] r.op = "cancel"   -> RelayCancel(r.task, out)
  /\ UNCHANGED <<status, siblingCancel, opUnknown, rowVars, opVars, clientVars,
                 mode, recheck, worker, faults>>

-----------------------------------------------------------------------------
Answer(t) ==
  \/ AnswerStatus(t) \/ AnswerCreate(t) \/ AnswerValidate(t)
  \/ AnswerCancel(t) \/ AnswerResult(t)

Apply(t) ==
  \/ ApplyFailed(t)
  \/ ApplyStatusNotFound(t) \/ ApplyStatusKeepsAbort(t)
  \/ ApplyStatusTimedOut(t) \/ ApplyStatus(t)
  \/ ApplyCreate(t) \/ ApplyValidate(t) \/ ApplyCancel(t) \/ ApplyDownload(t)

Recover == RecoverOperations \/ (\E g \in Groups : RecoverGroup(g)) \/ RecoverClientTask

\* What goes on beside the main loop.
Beside ==
  \/ \E t \in Task : Answer(t) \/ WorkerFails(t)
  \/ Crash \/ Recover \/ RecoveryFails
  \/ \E t \in Task : RelayMoves(t) \/ RelayLoses(t)
  \/ \E r \in late : LateRequest(r)

Next == (\E t \in Task : Dispatch(t) \/ Apply(t)) \/ Beside

Spec == Init /\ [][Next]_vars

-----------------------------------------------------------------------------
\* Fairness.  The main loop scans forever and takes every due row and every
\* stored result in its turn, and a worker ends by its timeout at the latest: so
\* a row that waits for the bridge is served.  A bridge that went down is
\* started again, and Relay moves every unfinished task on or times it out.
RowStep(t) == Dispatch(t) \/ Answer(t) \/ WorkerFails(t) \/ Apply(t)

Fairness ==
  /\ \A t \in Task : WF_vars(RowStep(t)) /\ WF_vars(RelayMoves(t))
  /\ WF_vars(Recover)

FairSpec == Spec /\ Fairness

-----------------------------------------------------------------------------
\* Safety.

\* While the main loop runs, a worker stands behind every running operation:
\* markRunning and the start of the worker, the worker's deferred writes and
\* recover() together leave no row that waits for an answer nobody will write.
NoOrphanOperation ==
  mode = "up" => \A t \in Task : opStatus[t] = "running" => worker[t] # "idle"

\* A validation group has at most one validation operation at any time.
OneValidationOwner ==
  \A g \in Groups : Cardinality({t \in GroupRows(g) : op[t] = "validate"}) \leq 1

\* A result is requested and kept only for a task that Relay ended with success.
DownloadOnlyAfterSuccess ==
  \A t \in Task :
    status[t] \in {"EndSuccess", "ResultDownloaded"} \/ op[t] = "result"
      => rstatus[t] \in {"EndSuccess", "EndGroupSuccess"}

\* The client task says success exactly when a result is in hand, and until it
\* is decided its failed_count is the number of groups that failed.
ClientTaskOutcome ==
  /\ clientStatus = "success" <=> \E t \in Task : status[t] = "ResultDownloaded"
  /\ clientStatus = "running" => failedCount = Cardinality(FailedGroups(status))

\* A failed client task has no row left that still runs.
FailedMeansFinished ==
  clientStatus = "failed" => \A t \in Existing(status) : Finished(status[t])

\* A validation is only submitted for a task whose VRF data is stored, and for
\* the whole group when the VRF selects it, provided that the task's node
\* recorded its model files: without them a selected task gets neither.
RecordedHasVRF ==
  \A t \in Task :
    op[t] = "validate" /\ (TaskID[t] \in VSSGroups => modelFiles[t] # NoFiles) =>
      /\ seedSaved[t]
      /\ TaskID[t] \in VSSGroups => Cardinality(Members(t)) = 3

\* As docs/task_engine.md says it, of every task: VRF data are persisted before
\* validation.
ValidationHasVRF ==
  \A t \in Task : op[t] = "validate" =>
    /\ seedSaved[t]
    /\ TaskID[t] \in VSSGroups => Cardinality(Members(t)) = 3

\* Relay never validates a group whose members ran different model files,
\* whatever requests were repeated, delayed or refused.
NoMixedGroupValidated ==
  \A g \in VSSGroups :
    (\E t \in GroupRows(g) : rstatus[t] \in {"GroupValidated", "EndGroupSuccess"})
      => Cardinality({rfiles[t] : t \in GroupRows(g)} \ {NoFiles}) \leq 1

\* A row that is finished stays finished, if it is validated alone; only a success Relay reports
\* after a local abort reopens it, for the download.
FinishedStays ==
  [][\A t \in Task : Finished(status[t]) => status'[t] \in TerminalStatus]_vars

\* The end that Relay reported for a task is never replaced by another one: not
\* by the outcome of a validation that concerns the whole group, nor by an
\* older answer that is applied late.
RelayEndStays ==
  [][\A t \in Task :
       /\ status[t] \in {"EndGroupRefund", "EndInvalidated", "ResultDownloaded"}
            => status'[t] = status[t]
       /\ status[t] = "EndSuccess" => status'[t] \in {"EndSuccess", "ResultDownloaded"}]_vars

\* A heartbeat task aborted for its queue time keeps that status until Relay
\* itself reports an end, however operations fail and repeat meanwhile.
HeartbeatAbortSticks ==
  [][\A t \in Task :
       HeartbeatLimit /\ status[t] = "EndAborted" /\ siblingCancel[t]
         => status'[t] \in TerminalStatus]_vars

\* As docs/task_engine.md says it, by which a temporary error leaves a cancellation
\* owed: once nothing is owed any more to a row that the bridge aborted, its task does
\* not wait in Relay's queue.
AbortedIsNotQueued ==
  \A t \in Task :
    /\ status[t] = "EndAborted" /\ abortReason[t] = "CreatorCancelled"
    /\ ~siblingCancel[t] /\ op[t] = "none"
    => rstatus[t] # "Queued"

\* The rows keep the promise that a client task makes to its client, see
\* ClientTask: no recalculation, whichever transaction it is part of, decides
\* it twice, on the wrong rows, or not at all when a result comes in.
CT == INSTANCE ClientTask
        WITH Row <- Task, outcome <- clientStatus,
             results <- {t \in Task : status[t] = "ResultDownloaded"}
KeepsPromise == CT!Spec

-----------------------------------------------------------------------------
\* Liveness, under FairSpec.

\* Every row is brought to an end.
EveryRowFinishes ==
  \A t \in Task : status[t] # "absent" ~> Finished(status[t])

\* The client task is decided.
ClientTaskEnds == <>(clientStatus # "running")

\* A cancellation that is owed is tried and then no longer owed.
CancellationEnds == \A t \in Task : siblingCancel[t] ~> ~siblingCancel[t]
=============================================================================
