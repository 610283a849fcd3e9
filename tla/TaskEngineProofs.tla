-------------------------- MODULE TaskEngineProofs --------------------------
(***************************************************************************)
(* Theorems about TaskEngine for any number of rows and groups, any Relay  *)
(* statuses and any number of faults.                                      *)
(***************************************************************************)
EXTENDS TaskEngine, FiniteSetTheorems, TLAPS

-----------------------------------------------------------------------------
\* Relay keeps its types.
LEMMA RelayProgressType ==
  ASSUME RelayTypeOK, NEW t \in Task, RelayProgress(t) PROVE RelayTypeOK'
  BY RelayAssumption DEF RelayProgress, RelayTypeOK, AbortReason

\* A task that Relay loses leaves its maps well typed.
LEMMA RelayForgetType ==
  ASSUME RelayTypeOK, NEW t \in Task, RelayForget(t) PROVE RelayTypeOK'
  BY DEF RelayForget, RelayTypeOK, AbortReason, ChainStatus

\* Creation, whatever its outcome, keeps the types of Relay.
LEMMA RelayCreateType ==
  ASSUME RelayTypeOK, NEW t \in Task, NEW out, RelayCreate(t, out) PROVE RelayTypeOK'
  BY DEF RelayCreate, RelayTypeOK, relayVars, ChainStatus

\* So does the validation of any set of commitments,
LEMMA RelayValidateType ==
  ASSUME RelayTypeOK, NEW unit, NEW out, RelayValidate(unit, out) PROVE RelayTypeOK'
  BY DEF RelayValidate, ValidateUnit, RelayTypeOK, relayVars, ChainStatus, AbortReason

\* and so does the cancellation of one of them.
LEMMA RelayCancelType ==
  ASSUME RelayTypeOK, NEW t \in Task, NEW out, RelayCancel(t, out) PROVE RelayTypeOK'
  BY DEF RelayCancel, RelayTypeOK, relayVars, ChainStatus, AbortReason

-----------------------------------------------------------------------------
\* The values that the engine stores.
LEMMA NoResultType == NoResult \in Result
  BY DEF NoResult, Result, Outcome, ChainStatus, AbortReason

\* A mutation outcome alone is a storable operation result.
LEMMA OutcomeType ==
  ASSUME NEW out \in Outcome PROVE [NoResult EXCEPT !.outcome = out] \in Result
  BY DEF NoResult, Result, Outcome, ChainStatus, AbortReason

\* relayStatusToLocal always yields a local status.
LEMMA LocalStatusType ==
  ASSUME NEW c PROVE RelayStatusToLocal(c) \in TaskStatus
  BY DEF RelayStatusToLocal, TaskStatus

\* decideOperation always yields an operation type.
LEMMA DecisionType ==
  ASSUME NEW t PROVE DecideOperation(t) \in OperationType
  BY DEF DecideOperation, OperationType

\* Finitely many rows form finitely many groups, so failed groups can be counted.
LEMMA GroupsFinite == IsFiniteSet(Groups)
  <1>1. TaskID \in Surjection(Task, Groups)
    BY EngineAssumption DEF Surjection, Groups
  <1>2. QED
    BY <1>1, FS_Surjection, RelayAssumption

\* Recalculation keeps the types of the client task.
LEMMA RecalculateType ==
  ASSUME TypeOK, NEW st, RecalculateClientTask(st)
  PROVE  clientStatus' \in {"running", "success", "failed"} /\ failedCount' \in Nat
  <1>1. Cardinality(FailedGroups(st)) \in Nat
    BY GroupsFinite, FS_Subset, FS_CardinalityType DEF FailedGroups
  <1>2. QED
    BY <1>1 DEF TypeOK, RecalculateClientTask, clientVars

-----------------------------------------------------------------------------
\* Every step keeps the types.
LEMMA MarkRunningType ==
  ASSUME TypeOK, NEW t \in Task, NEW o \in OperationType, NEW w \in {"request", "refuse"},
         MarkRunning(t, o, w)
  PROVE  TypeOK'
  BY NoResultType DEF TypeOK, MarkRunning, RelayTypeOK, OperationStatus, rowVars, clientVars, relayVars

LEMMA WorkerType == ASSUME NEW t \in Task PROVE WorkerFor(t) \in {"request", "refuse"}
  BY DEF WorkerFor

LEMMA DispatchType == ASSUME TypeOK, NEW t \in Task, Dispatch(t) PROVE TypeOK'
  BY DecisionType, WorkerType, MarkRunningType DEF Dispatch

\* writeOperationCompleted keeps the types if the result has its type.
LEMMA WriteCompletedType ==
  ASSUME TypeOK, NEW t \in Task, NEW result \in Result, WriteCompleted(t, result),
         RelayTypeOK', faults' \in 0..MaxFaults
  PROVE  TypeOK'
  BY DEF TypeOK, WriteCompleted, OperationStatus, rowVars, clientVars

\* Every worker's answer keeps the types.
LEMMA AnswerType == ASSUME TypeOK, NEW t \in Task, Answer(t) PROVE TypeOK'
  <1>a. ASSUME NEW out \in Outcome, RelayTypeOK', WriteOutcome(t, out) PROVE TypeOK'
    <2>1. faults' \in 0..MaxFaults
      BY <1>a, EngineAssumption DEF WriteOutcome, CountTemporary, TypeOK
    <2>2. QED
      BY <1>a, <2>1, OutcomeType, WriteCompletedType DEF WriteOutcome
  <1>u. ASSUME UNCHANGED relayVars PROVE RelayTypeOK'
    BY <1>u DEF TypeOK, RelayTypeOK, relayVars
  <1>r. RelayTypeOK
    BY DEF TypeOK
  <1>1. CASE AnswerStatus(t)
    <2>1. [outcome |-> "none", status |-> rstatus[t], reason |-> rreason[t], files |-> rfiles[t]]
             \in Result
      BY DEF TypeOK, RelayTypeOK, Result, Outcome
    <2>2. faults' \in 0..MaxFaults /\ RelayTypeOK'
      BY <1>1, <1>u DEF AnswerStatus, TypeOK
    <2>3. QED
      BY <1>1, <2>1, <2>2, WriteCompletedType DEF AnswerStatus
  <1>2. CASE AnswerCreate(t)
    BY <1>2, <1>a, <1>r, RelayCreateType DEF AnswerCreate
  <1>3. CASE AnswerValidate(t)
    BY <1>3, <1>a, <1>r, <1>u, RelayValidateType DEF AnswerValidate, Outcome
  <1>4. CASE AnswerCancel(t)
    BY <1>4, <1>a, <1>r, RelayCancelType DEF AnswerCancel
  <1>5. CASE AnswerResult(t)
    BY <1>5, <1>a, <1>u DEF AnswerResult, Outcome
  <1>6. QED
    BY <1>1, <1>2, <1>3, <1>4, <1>5 DEF Answer

\* A failed worker keeps the types; its request may become a late one.
LEMMA WorkerFailsType == ASSUME TypeOK, NEW t \in Task, WorkerFails(t) PROVE TypeOK'
  <1>1. \A lost \in SUBSET InFlight({t}) : lost \subseteq Request
    BY DEF InFlight, RequestOf, Request, Members, MembersIn, TypeOK
  <1>2. late' \subseteq Request
    BY <1>1 DEF WorkerFails, TypeOK
  <1>3. faults' \in 0..MaxFaults
    BY EngineAssumption DEF WorkerFails, TypeOK
  <1>4. QED
    BY <1>2, <1>3
    DEF TypeOK, WorkerFails, LeavesUnknown, RelayTypeOK, OperationStatus, rowVars, clientVars, relayVars

\* The tail of every transaction, once the new statuses and flags are typed.
LEMMA ApplyTailType ==
  ASSUME TypeOK, NEW t \in Task, NEW st \in [Task -> TaskStatus \cup {"absent"}],
         NEW sib \in [Task -> BOOLEAN], ApplyTail(t, st, sib)
  PROVE  /\ RelayTypeOK'
         /\ status' \in [Task -> TaskStatus \cup {"absent"}]
         /\ siblingCancel' \in [Task -> BOOLEAN]
         /\ op' \in [Task -> OperationType]
         /\ opStatus' \in [Task -> OperationStatus]
         /\ opResult' \in [Task -> Result]
         /\ clientStatus' \in {"running", "success", "failed"}
         /\ failedCount' \in Nat
         /\ mode' \in {"up", "down", "recovering"}
         /\ recheck' \subseteq Groups
         /\ worker' \in [Task -> {"idle", "request", "refuse"}]
         /\ late' \subseteq Request
         /\ faults' \in 0..MaxFaults
  <1>1. clientStatus' \in {"running", "success", "failed"} /\ failedCount' \in Nat
    BY RecalculateType DEF ApplyTail
  <1>2. siblingCancel' \in [Task -> BOOLEAN]
    BY DEF ApplyTail, SetAll
  <1>3. QED
    BY <1>1, <1>2, NoResultType
    DEF ApplyTail, TypeOK, RelayTypeOK, OperationType, OperationStatus, envVars, relayVars

\* Every application of a stored result keeps the types.
LEMMA ApplyType == ASSUME TypeOK, NEW t \in Task, Apply(t) PROVE TypeOK'
  <1>f. SetAll(relayChecked, Members(t), FALSE) \in [Task -> BOOLEAN]
    BY DEF SetAll, TypeOK
  <1>s. /\ status \in [Task -> TaskStatus \cup {"absent"}]
        /\ siblingCancel \in [Task -> BOOLEAN]
        /\ \A s \in TaskStatus : [status EXCEPT ![t] = s] \in [Task -> TaskStatus \cup {"absent"}]
        /\ \A b \in BOOLEAN : [siblingCancel EXCEPT ![t] = b] \in [Task -> BOOLEAN]
    BY DEF TypeOK
  <1>1. CASE ApplyFailed(t)
    BY <1>1, <1>f, NoResultType
    DEF ApplyFailed, TypeOK, RelayTypeOK, OperationType, OperationStatus, clientVars, envVars, relayVars
  <1>2. CASE ApplyStatusNotFound(t)
    BY <1>2, <1>s, ApplyTailType DEF ApplyStatusNotFound, TypeOK, TaskStatus
  <1>3. CASE ApplyStatusKeepsAbort(t)
    BY <1>3, <1>s, ApplyTailType DEF ApplyStatusKeepsAbort, TypeOK
  <1>4. CASE ApplyStatusTimedOut(t)
    BY <1>4, <1>s, ApplyTailType DEF ApplyStatusTimedOut, TypeOK, TaskStatus, AbortReason
  <1>5. CASE ApplyStatus(t)
    <2> DEFINE local == RelayStatusToLocal(opResult[t].status)
               st  == SetAll([status EXCEPT ![t] = local], NewMembers(t), "Pending")
               sib == IF local = "Created" THEN siblingCancel
                      ELSE [siblingCancel EXCEPT ![t] = FALSE]
    <2>1. st \in [Task -> TaskStatus \cup {"absent"}] /\ sib \in [Task -> BOOLEAN]
      BY <1>s, LocalStatusType DEF SetAll, TaskStatus
    <2>2. ApplyTail(t, st, sib)
      BY <1>5 DEF ApplyStatus
    <2>3. /\ opResult[t].reason \in AbortReason
          /\ opResult[t].files \in ExecFiles \cup {NoFiles}
      BY DEF TypeOK, Result
    <2>4. seedSaved' \in [Task -> BOOLEAN]
      BY <1>5 DEF ApplyStatus, SetAll, TypeOK
    <2>5. QED
      BY <1>5, <2>1, <2>2, <2>3, <2>4, ApplyTailType DEF ApplyStatus, TypeOK
  <1>6. CASE ApplyCreate(t)
    <2>1. /\ relayChecked' \in [Task -> BOOLEAN] /\ relayFound' \in [Task -> BOOLEAN]
          /\ opUnknown' \in [Task -> BOOLEAN] /\ abortReason' \in [Task -> AbortReason]
      BY <1>6 DEF ApplyCreate, TypeOK, AbortReason
    <2>2. \E st \in [Task -> TaskStatus \cup {"absent"}] : ApplyTail(t, st, siblingCancel)
      BY <1>6, <1>s DEF ApplyCreate, TaskStatus
    <2>3. QED
      BY <1>6, <1>s, <2>1, <2>2, ApplyTailType DEF ApplyCreate, TypeOK
  <1>7. CASE ApplyValidate(t)
    <2>1. validationSubmitted' \in [Task -> BOOLEAN]
      BY <1>7 DEF ApplyValidate, SetAll, TypeOK
    <2>2. SetAll(status, Members(t), "EndAborted") \in [Task -> TaskStatus \cup {"absent"}]
      BY <1>s DEF SetAll, TaskStatus
    <2>3. \E st \in [Task -> TaskStatus \cup {"absent"}] : ApplyTail(t, st, siblingCancel)
      BY <1>7, <1>s, <2>2 DEF ApplyValidate
    <2>4. QED
      BY <1>7, <1>s, <2>1, <2>3, ApplyTailType DEF ApplyValidate, TypeOK
  <1>8. CASE ApplyCancel(t)
    BY <1>8, <1>s, ApplyTailType DEF ApplyCancel, TypeOK, AbortReason
  <1>9. CASE ApplyDownload(t)
    BY <1>9, <1>s, ApplyTailType DEF ApplyDownload, TypeOK, TaskStatus, rowVars
  <1>10. QED
    BY <1>1, <1>2, <1>3, <1>4, <1>5, <1>6, <1>7, <1>8, <1>9 DEF Apply

\* A crash keeps the types; the requests under way become late ones.
LEMMA CrashType == ASSUME TypeOK, Crash PROVE TypeOK'
  <1>1. \A lost \in SUBSET InFlight(Task) : lost \subseteq Request
    BY DEF InFlight, RequestOf, Request, Members, MembersIn
  <1>2. late' \subseteq Request
    BY <1>1 DEF Crash, TypeOK
  <1>3. faults' \in 0..MaxFaults
    BY EngineAssumption DEF Crash, TypeOK
  <1>4. QED
    BY <1>2, <1>3 DEF TypeOK, Crash, RelayTypeOK, rowVars, opVars, clientVars, relayVars

\* Every statement of recover, and its failure, keeps the types.
LEMMA RecoverType == ASSUME TypeOK, Recover \/ RecoveryFails PROVE TypeOK'
  <1>1. CASE RecoverOperations
    <2>1. recheck' \subseteq Groups
      BY <1>1 DEF RecoverOperations, Interrupted, Groups
    <2>2. /\ op' \in [Task -> OperationType] /\ opStatus' \in [Task -> OperationStatus]
          /\ opUnknown' \in [Task -> BOOLEAN]
      BY <1>1 DEF RecoverOperations, SetAll, TypeOK, OperationType, OperationStatus
    <2>3. QED
      BY <1>1, <2>1, <2>2 DEF RecoverOperations, TypeOK, RelayTypeOK, rowVars, clientVars, relayVars
  <1>2. ASSUME NEW g \in Groups, RecoverGroup(g) PROVE TypeOK'
    <2>1. relayChecked' \in [Task -> BOOLEAN]
      BY <1>2 DEF RecoverGroup, SetAll, TypeOK
    <2>2. QED
      BY <1>2, <2>1 DEF RecoverGroup, TypeOK, RelayTypeOK, opVars, clientVars, relayVars
  <1>3. CASE RecoverClientTask
    <2>1. clientStatus' \in {"running", "success", "failed"} /\ failedCount' \in Nat
      BY <1>3, RecalculateType DEF RecoverClientTask
    <2>2. QED
      BY <1>3, <2>1 DEF RecoverClientTask, TypeOK, RelayTypeOK, rowVars, opVars, relayVars
  <1>4. CASE RecoveryFails
    <2>1. faults' \in 0..MaxFaults
      BY <1>4, EngineAssumption DEF RecoveryFails, TypeOK
    <2>2. QED
      BY <1>4, <2>1 DEF RecoveryFails, TypeOK, RelayTypeOK, rowVars, opVars, clientVars, relayVars
  <1>5. QED
    BY <1>1, <1>2, <1>3, <1>4 DEF Recover

\* Relay's own steps and late requests keep the types.
LEMMA RelayType ==
  ASSUME TypeOK,
         \/ \E t \in Task : RelayMoves(t) \/ RelayLoses(t)
         \/ \E r \in late : LateRequest(r)
  PROVE  TypeOK'
  <1>r. RelayTypeOK
    BY DEF TypeOK
  <1>1. ASSUME NEW t \in Task, RelayMoves(t) PROVE TypeOK'
    BY <1>1, <1>r, RelayProgressType DEF RelayMoves, TypeOK, rowVars, opVars, clientVars, envVars
  <1>2. ASSUME NEW t \in Task, RelayLoses(t) PROVE TypeOK'
    <2>1. faults' \in 0..MaxFaults
      BY <1>2, EngineAssumption DEF RelayLoses, TypeOK
    <2>2. RelayTypeOK'
      BY <1>2, <1>r, RelayForgetType DEF RelayLoses
    <2>3. QED
      BY <1>2, <2>1, <2>2 DEF RelayLoses, TypeOK, rowVars, opVars, clientVars
  <1>3. ASSUME NEW r \in late, LateRequest(r) PROVE TypeOK'
    <2>1. r \in Request
      BY DEF TypeOK
    <2>2. RelayTypeOK'
      BY <1>3, <1>r, <2>1, RelayCreateType, RelayValidateType, RelayCancelType
      DEF LateRequest, Request, MutationOp
    <2>3. QED
      BY <1>3, <2>2 DEF LateRequest, TypeOK, rowVars, opVars, clientVars
  <1>4. QED
    BY <1>1, <1>2, <1>3

\* The rows as expandClientTask creates them are well typed.
LEMMA InitType == Init => TypeOK
  <1> SUFFICES ASSUME Init PROVE TypeOK
    OBVIOUS
  <1>1. RelayTypeOK
    BY DEF Init, RelayInit, RelayTypeOK, ChainStatus, AbortReason
  <1>2. QED
    BY <1>1, NoResultType, EngineAssumption
    DEF Init, TypeOK, TaskStatus, AbortReason, OperationType, OperationStatus

\* The type invariant is inductive.
LEMMA NextType == TypeOK /\ [Next]_vars => TypeOK'
  <1> SUFFICES ASSUME TypeOK, [Next]_vars PROVE TypeOK'
    OBVIOUS
  <1>1. CASE UNCHANGED vars
    BY <1>1 DEF vars, rowVars, opVars, clientVars, envVars, relayVars, TypeOK, RelayTypeOK
  <1>2. CASE Next
    BY <1>2, DispatchType, AnswerType, WorkerFailsType, ApplyType, CrashType, RecoverType, RelayType
    DEF Next, Beside
  <1>3. QED
    BY <1>1, <1>2

\* Every column, request and Relay status keeps its type: in particular the
\* engine never stores an operation or a status outside the code's enums.
THEOREM TypeCorrect == Spec => []TypeOK
  BY InitType, NextType, PTL DEF Spec

-----------------------------------------------------------------------------
\* No orphaned operation.

\* During recovery no row is running any more, so that none is left when the
\* loop starts; while it runs, an operation and its worker begin and end in the
\* same step.
WorkerInv ==
  /\ mode = "up" => \A t \in Task : opStatus[t] = "running" => worker[t] # "idle"
  /\ mode = "recovering" => \A t \in Task : opStatus[t] # "running"

\* A row is marked running together with the start of its worker.
LEMMA MarkedHasWorker ==
  ASSUME TypeOK, WorkerInv, mode = "up", NEW t \in Task, NEW o, NEW w \in {"request", "refuse"},
         MarkRunning(t, o, w)
  PROVE  WorkerInv'
  BY DEF MarkRunning, WorkerInv, TypeOK

\* Every step of a bridge whose recovery does not fail preserves WorkerInv.
LEMMA WorkerInvStep ==
  ASSUME RecoveryMayFail = FALSE, TypeOK, WorkerInv, [Next]_vars PROVE WorkerInv'
  <1>1. ASSUME NEW t \in Task, Dispatch(t) PROVE WorkerInv'
    BY <1>1, WorkerType, MarkedHasWorker DEF Dispatch
  <1>2. ASSUME NEW t \in Task, NEW r, WriteCompleted(t, r) PROVE WorkerInv'
    BY <1>2 DEF WriteCompleted, WorkerInv, TypeOK
  <1>3. ASSUME NEW t \in Task, Answer(t) PROVE WorkerInv'
    BY <1>2, <1>3
    DEF Answer, AnswerStatus, AnswerCreate, AnswerValidate, AnswerCancel, AnswerResult, WriteOutcome
  <1>4. ASSUME NEW t \in Task, WorkerFails(t) PROVE WorkerInv'
    BY <1>4 DEF WorkerFails, WorkerInv, TypeOK
  <1>5. ASSUME NEW t \in Task, Apply(t) PROVE WorkerInv'
    <2>1. /\ opStatus' = [opStatus EXCEPT ![t] = "none"]
          /\ UNCHANGED <<mode, worker>>
      BY <1>5
      DEF Apply, ApplyFailed, ApplyStatusNotFound, ApplyStatusKeepsAbort, ApplyStatusTimedOut,
          ApplyStatus, ApplyCreate, ApplyValidate, ApplyCancel, ApplyDownload, ApplyTail, envVars
    <2>2. QED
      BY <2>1 DEF WorkerInv, TypeOK
  <1>6. CASE Crash
    BY <1>6 DEF Crash, WorkerInv
  <1>7. CASE RecoverOperations
    BY <1>7 DEF RecoverOperations, WorkerInv, SetAll, Interrupted
  <1>8. ASSUME NEW g \in Groups, RecoverGroup(g) PROVE WorkerInv'
    BY <1>8 DEF RecoverGroup, WorkerInv, opVars
  <1>9. CASE RecoverClientTask
    BY <1>9 DEF RecoverClientTask, WorkerInv, opVars
  <1>10. ASSUME NEW t \in Task, RelayMoves(t) \/ RelayLoses(t) PROVE WorkerInv'
    BY <1>10 DEF RelayMoves, RelayLoses, WorkerInv, opVars, envVars
  <1>11. ASSUME NEW r \in late, LateRequest(r) PROVE WorkerInv'
    BY <1>11 DEF LateRequest, WorkerInv, opVars
  <1>12. CASE UNCHANGED vars
    BY <1>12 DEF vars, opVars, envVars, WorkerInv
  <1>13. QED
    BY <1>1, <1>3, <1>4, <1>5, <1>6, <1>7, <1>8, <1>9, <1>10, <1>11, <1>12
    DEF Next, Beside, Recover, RecoveryFails

\* If no statement of recover() fails, then while the main loop runs every
\* running operation has its worker, across any number of crashes.
THEOREM OperationsHaveWorkers ==
  ASSUME RecoveryMayFail = FALSE PROVE Spec => []NoOrphanOperation
  <1>1. Init => WorkerInv
    BY DEF Init, WorkerInv
  <1>2. TypeOK /\ WorkerInv /\ [Next]_vars => WorkerInv'
    BY WorkerInvStep
  <1>3. WorkerInv => NoOrphanOperation
    BY DEF WorkerInv, NoOrphanOperation
  <1>4. QED
    BY <1>1, <1>2, <1>3, TypeCorrect, PTL DEF Spec

-----------------------------------------------------------------------------
\* Downloads follow a success that Relay reported.

RelaySuccess(t) == rstatus[t] \in {"EndSuccess", "EndGroupSuccess"}

\* The download property with what carries it from Relay to the row: a stored
\* answer may only say success when Relay does.
SuccessInv ==
  \A t \in Task :
    \/ status[t] \in {"EndSuccess", "ResultDownloaded"}
    \/ op[t] = "result"
    \/ opResult[t].status \in {"EndSuccess", "EndGroupSuccess"}
    => RelaySuccess(t)

\* Success is final at Relay.
LEMMA RelaySuccessStays ==
  ASSUME RelayTypeOK, NEW u \in Task, RelaySuccess(u),
         \/ UNCHANGED relayVars
         \/ \E t \in Task : RelayProgress(t) \/ RelayForget(t)
         \/ \E t \in Task, out \in Outcome : RelayCreate(t, out) \/ RelayCancel(t, out)
         \/ \E unit \in SUBSET Task, out \in Outcome : RelayValidate(unit, out)
  PROVE  RelaySuccess(u)'
  <1>1. CASE UNCHANGED relayVars
    BY <1>1 DEF relayVars, RelaySuccess
  <1>2. ASSUME NEW t \in Task, RelayProgress(t) PROVE RelaySuccess(u)'
    <2>1. Onward(rstatus[u]) = {}
      BY DEF RelaySuccess, Onward
    <2>2. QED
      BY <1>2, <2>1 DEF RelayProgress, RelaySuccess, RelayTypeOK
  <1>3. ASSUME NEW t \in Task, RelayForget(t) PROVE RelaySuccess(u)'
    BY <1>3 DEF RelayForget, RelaySuccess, RelayTypeOK, ChainTaskTerminal
  <1>4. ASSUME NEW t \in Task, NEW out \in Outcome, RelayCreate(t, out) PROVE RelaySuccess(u)'
    BY <1>4 DEF RelayCreate, RelaySuccess, RelayTypeOK, relayVars
  <1>5. ASSUME NEW t \in Task, NEW out \in Outcome, RelayCancel(t, out) PROVE RelaySuccess(u)'
    BY <1>5 DEF RelayCancel, RelaySuccess, RelayTypeOK, relayVars
  <1>6. ASSUME NEW unit \in SUBSET Task, NEW out \in Outcome, RelayValidate(unit, out)
        PROVE RelaySuccess(u)'
    BY <1>6 DEF RelayValidate, ValidateUnit, RelayReady, RelaySuccess, relayVars
  <1>7. QED
    BY <1>1, <1>2, <1>3, <1>4, <1>5, <1>6

\* Only a success of Relay becomes the local EndSuccess.
LEMMA LocalSuccess ==
  ASSUME NEW c
  PROVE  /\ RelayStatusToLocal(c) = "EndSuccess" => c \in {"EndSuccess", "EndGroupSuccess"}
         /\ RelayStatusToLocal(c) # "ResultDownloaded"
  BY DEF RelayStatusToLocal

\* A download is only decided for a row in EndSuccess.
LEMMA DecidesResult ==
  ASSUME NEW t \in Task, DecideOperation(t) = "result" PROVE status[t] = "EndSuccess"
  BY DEF DecideOperation

\* What Relay can do in one step of the system.
LEMMA RelayStep ==
  ASSUME TypeOK, [Next]_vars
  PROVE  \/ UNCHANGED relayVars
         \/ \E t \in Task : RelayProgress(t) \/ RelayForget(t)
         \/ \E t \in Task, out \in Outcome : RelayCreate(t, out) \/ RelayCancel(t, out)
         \/ \E unit \in SUBSET Task, out \in Outcome : RelayValidate(unit, out)
  <1>1. ASSUME NEW t \in Task, Dispatch(t) \/ WorkerFails(t) \/ Apply(t) PROVE UNCHANGED relayVars
    BY <1>1
    DEF Dispatch, MarkRunning, WorkerFails, Apply, ApplyFailed, ApplyStatusNotFound, ApplyStatusKeepsAbort,
        ApplyStatusTimedOut, ApplyStatus, ApplyCreate, ApplyValidate, ApplyCancel, ApplyDownload, ApplyTail
  <1>2. ASSUME NEW t \in Task, Answer(t) PROVE
             \/ UNCHANGED relayVars
             \/ \E out \in Outcome : RelayCreate(t, out) \/ RelayCancel(t, out)
             \/ \E unit \in SUBSET Task, out \in Outcome : RelayValidate(unit, out)
    <2>1. Members(t) \in SUBSET Task
      BY DEF Members, MembersIn
    <2>2. QED
      BY <1>2, <2>1
      DEF Answer, AnswerStatus, AnswerCreate, AnswerValidate, AnswerCancel, AnswerResult
  <1>3. CASE Crash \/ Recover \/ RecoveryFails
    BY <1>3 DEF Crash, Recover, RecoverOperations, RecoverGroup, RecoverClientTask, RecoveryFails
  <1>4. ASSUME NEW t \in Task, RelayMoves(t) \/ RelayLoses(t) PROVE RelayProgress(t) \/ RelayForget(t)
    BY <1>4 DEF RelayMoves, RelayLoses
  <1>5. ASSUME NEW r \in late, LateRequest(r) PROVE
             \/ \E t \in Task, out \in Outcome : RelayCreate(t, out) \/ RelayCancel(t, out)
             \/ \E unit \in SUBSET Task, out \in Outcome : RelayValidate(unit, out)
    <2>1. r.task \in Task /\ r.unit \in SUBSET Task /\ r.op \in MutationOp
      BY DEF TypeOK, Request
    <2>2. QED
      BY <1>5, <2>1 DEF LateRequest, MutationOp
  <1>6. CASE UNCHANGED vars
    BY <1>6 DEF vars
  <1>7. QED
    BY <1>1, <1>2, <1>3, <1>4, <1>5, <1>6 DEF Next, Beside

\* Every step preserves SuccessInv: local success rests on success at Relay.
LEMMA SuccessInvStep ==
  ASSUME TypeOK, SuccessInv, [Next]_vars PROVE SuccessInv'
  <1>r. \A u \in Task : RelaySuccess(u) => RelaySuccess(u)'
    BY RelayStep, RelaySuccessStays DEF TypeOK
  <1>n. NoResult.status = "NotFound"
    BY DEF NoResult
  <1>k. ASSUME UNCHANGED <<status, op, opResult>> PROVE SuccessInv'
    BY <1>k, <1>r DEF SuccessInv
  <1>1. ASSUME NEW t \in Task, Dispatch(t) PROVE SuccessInv'
    BY <1>1, <1>r, <1>n, DecidesResult DEF Dispatch, MarkRunning, SuccessInv, TypeOK
  <1>2. ASSUME NEW t \in Task, NEW r \in Result, WriteCompleted(t, r),
               r.status \in {"EndSuccess", "EndGroupSuccess"} => RelaySuccess(t)'
        PROVE SuccessInv'
    BY <1>2, <1>r DEF WriteCompleted, SuccessInv, TypeOK
  <1>3. ASSUME NEW t \in Task, Answer(t) PROVE SuccessInv'
    <2>1. ASSUME NEW out \in Outcome, WriteOutcome(t, out) PROVE SuccessInv'
      <3>1. [NoResult EXCEPT !.outcome = out].status = "NotFound"
        BY DEF NoResult
      <3>2. QED
        BY <2>1, <3>1, <1>2, OutcomeType DEF WriteOutcome
    <2>2. CASE AnswerStatus(t)
      <3> DEFINE r == [outcome |-> "none", status |-> rstatus[t], reason |-> rreason[t],
                       files |-> rfiles[t]]
      <3>1. r \in Result
        BY DEF TypeOK, RelayTypeOK, Result, Outcome
      <3>2. r.status \in {"EndSuccess", "EndGroupSuccess"} => RelaySuccess(t)'
        BY <1>r DEF RelaySuccess
      <3>3. WriteCompleted(t, r)
        BY <2>2 DEF AnswerStatus
      <3>4. QED
        BY <3>1, <3>2, <3>3, <1>2
    <2>3. CASE AnswerCreate(t) \/ AnswerCancel(t)
      BY <2>1, <2>3 DEF AnswerCreate, AnswerCancel
    <2>4. CASE AnswerValidate(t) \/ AnswerResult(t)
      BY <2>1, <2>4 DEF AnswerValidate, AnswerResult, Outcome
    <2>5. QED
      BY <1>3, <2>2, <2>3, <2>4 DEF Answer
  <1>4. ASSUME NEW t \in Task, WorkerFails(t) \/ RelayMoves(t) \/ RelayLoses(t) PROVE SuccessInv'
    BY <1>4, <1>k DEF WorkerFails, RelayMoves, RelayLoses, opVars
  <1>5. ASSUME NEW t \in Task, NEW st, NEW sib, ApplyTail(t, st, sib),
               \A u \in Task : st[u] \in {"EndSuccess", "ResultDownloaded"} => RelaySuccess(u)
        PROVE SuccessInv'
    BY <1>5, <1>r, <1>n DEF ApplyTail, SuccessInv, TypeOK
  <1>6. ASSUME NEW t \in Task, Apply(t) PROVE SuccessInv'
    <2>s. \A s \in TaskStatus \ {"EndSuccess", "ResultDownloaded"}, u \in Task :
             [status EXCEPT ![t] = s][u] \in {"EndSuccess", "ResultDownloaded"} => RelaySuccess(u)
      BY DEF SuccessInv, TypeOK
    <2>u. \A u \in Task : status[u] \in {"EndSuccess", "ResultDownloaded"} => RelaySuccess(u)
      BY DEF SuccessInv
    <2>1. CASE ApplyFailed(t)
      BY <2>1, <1>r, <1>n DEF ApplyFailed, SuccessInv, TypeOK
    <2>2. CASE ApplyStatusNotFound(t)
      BY <2>2, <1>5, <2>s, <2>u DEF ApplyStatusNotFound, TaskStatus
    <2>3. CASE ApplyStatusKeepsAbort(t)
      BY <2>3, <1>5, <2>u DEF ApplyStatusKeepsAbort
    <2>4. CASE ApplyStatusTimedOut(t)
      BY <2>4, <1>5, <2>s DEF ApplyStatusTimedOut, TaskStatus
    <2>5. CASE ApplyStatus(t)
      <3> DEFINE local == RelayStatusToLocal(opResult[t].status)
                 st  == SetAll([status EXCEPT ![t] = local], NewMembers(t), "Pending")
                 sib == IF local = "Created" THEN siblingCancel
                        ELSE [siblingCancel EXCEPT ![t] = FALSE]
      <3>1. ApplyTail(t, st, sib)
        BY <2>5 DEF ApplyStatus
      <3>2. local \in {"EndSuccess", "ResultDownloaded"} => RelaySuccess(t)
        BY LocalSuccess DEF SuccessInv
      <3>3. \A u \in Task : st[u] \in {"EndSuccess", "ResultDownloaded"} => RelaySuccess(u)
        BY <3>2, <2>u DEF SetAll, TypeOK
      <3>4. QED
        BY <3>1, <3>3, <1>5
    <2>6. CASE ApplyCreate(t)
      BY <2>6, <1>5, <2>s, <2>u DEF ApplyCreate, TaskStatus
    <2>7. CASE ApplyValidate(t)
      <3>1. \A u \in Task : SetAll(status, Members(t), "EndAborted")[u]
                               \in {"EndSuccess", "ResultDownloaded"} => RelaySuccess(u)
        BY <2>u DEF SetAll
      <3>2. QED
        BY <2>7, <3>1, <2>u, <1>5 DEF ApplyValidate
    <2>8. CASE ApplyCancel(t)
      BY <2>8, <1>5, <2>u DEF ApplyCancel
    <2>9. CASE ApplyDownload(t)
      <3>1. RelaySuccess(t)
        BY <2>9 DEF ApplyDownload, Applicable, SuccessInv
      <3>2. \A u \in Task : [status EXCEPT ![t] = "ResultDownloaded"][u]
                               \in {"EndSuccess", "ResultDownloaded"} => RelaySuccess(u)
        BY <3>1, <2>u DEF TypeOK
      <3>3. QED
        BY <2>9, <3>2, <1>5 DEF ApplyDownload
    <2>10. QED
      BY <1>6, <2>1, <2>2, <2>3, <2>4, <2>5, <2>6, <2>7, <2>8, <2>9 DEF Apply
  <1>7. CASE Crash \/ RecoveryFails \/ RecoverClientTask \/ \E g \in Groups : RecoverGroup(g)
    BY <1>7, <1>k DEF Crash, RecoveryFails, RecoverClientTask, RecoverGroup, opVars
  <1>8. CASE RecoverOperations
    BY <1>8, <1>r DEF RecoverOperations, SetAll, SuccessInv
  <1>9. ASSUME NEW r \in late, LateRequest(r) PROVE SuccessInv'
    BY <1>9, <1>k DEF LateRequest, opVars
  <1>10. CASE UNCHANGED vars
    BY <1>10, <1>k DEF vars, opVars
  <1>11. QED
    BY <1>1, <1>3, <1>4, <1>6, <1>7, <1>8, <1>9, <1>10 DEF Next, Beside, Recover

\* The bridge asks for a result, and keeps one, only for a task that Relay ended
\* with success, whatever fails, is repeated or arrives late.
THEOREM DownloadsAreJustified == Spec => []DownloadOnlyAfterSuccess
  <1>1. Init => SuccessInv
    BY DEF Init, SuccessInv, NoResult
  <1>2. TypeOK /\ SuccessInv /\ [Next]_vars => SuccessInv'
    BY SuccessInvStep
  <1>3. SuccessInv => DownloadOnlyAfterSuccess
    BY DEF SuccessInv, RelaySuccess, DownloadOnlyAfterSuccess
  <1>4. QED
    BY <1>1, <1>2, <1>3, TypeCorrect, PTL DEF Spec

-----------------------------------------------------------------------------
\* A heartbeat row that was aborted for its queue time stays ended.

\* What the operation of a row says about the lifecycle of its group while the
\* request is out: a creation is for a pending row, and a validation for a
\* group that has no pending row, even if the group is read again later.
StageInv ==
  \A t \in Task :
    /\ op[t] # "none" => status[t] # "absent"
    /\ op[t] = "create" => status[t] = "Pending"
    /\ op[t] = "validate" => \A u \in GroupRows(TaskID[t]) : status[u] # "Pending"

\* Members are created for a row that is alone in its group.
LEMMA NewMembersAreNew ==
  ASSUME NEW t \in Task, status[t] # "absent", NEW u \in NewMembers(t)
  PROVE  /\ u \in Task /\ u # t /\ TaskID[u] = TaskID[t]
         /\ \A v \in GroupRows(TaskID[t]) : v # t => status[v] = "absent"
  <1>1. Members(t) \in SUBSET Task /\ t \in Members(t)
    BY DEF Members, MembersIn
  <1>2. IsFiniteSet(Members(t)) /\ Cardinality(Members(t)) = 1
    BY <1>1, FS_Subset, RelayAssumption DEF NewMembers
  <1>3. PICK x : Members(t) = {x}
    BY <1>2, FS_Singleton
  <1>4. \A v \in GroupRows(TaskID[t]) : v # t => status[v] = "absent"
    BY <1>1, <1>3 DEF Members, MembersIn, GroupRows
  <1>5. QED
    BY <1>4 DEF NewMembers, GroupRows

\* The main loop decides to validate only when no row of the group is pending.
LEMMA DecidesValidate ==
  ASSUME NEW t \in Task, status[t] # "absent", DecideOperation(t) = "validate",
         NEW u \in GroupRows(TaskID[t])
  PROVE  status[u] # "Pending"
  <1>1. t \in Members(t) /\ Members(t) \in SUBSET Task
    BY DEF Members, MembersIn
  <1>2. u \in Members(t) \/ status[u] = "absent"
    BY DEF Members, MembersIn, GroupRows
  <1>3. SubmitsValidation(t) /\ IsReadyForValidation(status[t])
    BY DEF DecideOperation, SubmitsValidation
  <1>4. CASE Cardinality(Members(t)) = 1
    <2>1. IsFiniteSet(Members(t))
      BY <1>1, FS_Subset, RelayAssumption
    <2>2. PICK x : Members(t) = {x}
      BY <2>1, <1>4, FS_Singleton
    <2>3. QED
      BY <1>1, <1>2, <1>3, <2>2 DEF IsReadyForValidation
  <1>5. CASE ValidationGroupReady(Members(t))
    BY <1>2, <1>5 DEF ValidationGroupReady, IsReadyForValidation
  <1>6. QED
    BY <1>3, <1>4, <1>5 DEF SubmitsValidation

\* A decided creation is for a pending row.
LEMMA DecidesCreate ==
  ASSUME NEW t \in Task, DecideOperation(t) = "create" PROVE status[t] = "Pending"
  BY DEF DecideOperation

\* An applied result is good for StageInv if it leaves no row absent, changes
\* other rows only by an abort of a group that is being validated, or makes
\* pending only the members of a row that was alone.
LEMMA ApplyTailStage ==
  ASSUME TypeOK, StageInv, NEW t \in Task, NEW st, NEW sib, ApplyTail(t, st, sib),
         op[t] # "none",
         \A u \in Task : st[u] = "absent" => status[u] = "absent",
         \A u \in Task : u # t =>
           \/ st[u] = status[u]
           \/ op[t] = "validate" /\ u \in GroupRows(TaskID[t]) /\ st[u] = "EndAborted"
           \/ u \in NewMembers(t) /\ st[u] = "Pending",
         st[t] = "Pending" => status[t] = "Pending"
  PROVE  StageInv'
  <1>1. status' = st /\ op' = [op EXCEPT ![t] = "none"]
    BY DEF ApplyTail
  <1>2. SUFFICES ASSUME NEW r \in Task, op'[r] # "none"
        PROVE  /\ st[r] # "absent"
               /\ op'[r] = "create" => st[r] = "Pending"
               /\ op'[r] = "validate" => \A u \in GroupRows(TaskID[r]) : st[u] # "Pending"
    BY <1>1 DEF StageInv, GroupRows
  <1>3. r # t /\ op'[r] = op[r] /\ status[r] # "absent"
    BY <1>1, <1>2 DEF TypeOK, StageInv
  <1>4. st[r] # "absent"
    BY <1>3
  <1>5. status[t] # "absent"
    BY DEF StageInv
  <1>6. r \notin NewMembers(t)
    BY <1>3, <1>5, NewMembersAreNew DEF GroupRows
  <1>7. ASSUME op[r] = "create" PROVE st[r] = "Pending"
    <2>1. status[r] = "Pending"
      BY <1>7 DEF StageInv
    <2>2. ~(op[t] = "validate" /\ r \in GroupRows(TaskID[t]))
      BY <2>1 DEF StageInv
    <2>3. QED
      BY <2>1, <2>2, <1>3, <1>6
  <1>8. ASSUME op[r] = "validate", NEW u \in GroupRows(TaskID[r]) PROVE st[u] # "Pending"
    <2>1. status[u] # "Pending" /\ u \in Task /\ TaskID[u] = TaskID[r]
      BY <1>8 DEF StageInv, GroupRows
    <2>2. u \notin NewMembers(t)
      <3>1. SUFFICES ASSUME u \in NewMembers(t) PROVE FALSE
        OBVIOUS
      <3>2. TaskID[u] = TaskID[t] /\ status[r] = "absent"
        BY <3>1, <2>1, <1>3, <1>5, NewMembersAreNew DEF GroupRows
      <3>3. QED
        BY <3>2, <1>3
    <2>3. QED
      BY <2>1, <2>2
  <1>9. QED
    BY <1>3, <1>4, <1>7, <1>8

\* What applying a result does to the statuses, in the terms of ApplyTailStage.
LEMMA ApplyStage ==
  ASSUME TypeOK, StageInv, NEW t \in Task, Apply(t) PROVE StageInv'
  <1>a. ASSUME op[t] # "none", NEW sib, ApplyTail(t, status, sib) PROVE StageInv'
    BY <1>a, ApplyTailStage
  <1>b. ASSUME op[t] # "none", NEW sib, NEW s \in TaskStatus \ {"Pending"},
               ApplyTail(t, [status EXCEPT ![t] = s], sib)
        PROVE StageInv'
    <2> DEFINE st == [status EXCEPT ![t] = s]
    <2>1. st[t] = s /\ \A u \in Task : u # t => st[u] = status[u]
      BY DEF TypeOK
    <2>2. s # "absent"
      BY DEF TaskStatus
    <2>3. ApplyTail(t, st, sib)
      BY <1>b
    <2> HIDE DEF st
    <2>4. QED
      BY <1>b, <2>1, <2>2, <2>3, ApplyTailStage
  <1>s. {"EndAborted", "Created", "ResultDownloaded"} \subseteq TaskStatus \ {"Pending"}
    BY DEF TaskStatus
  <1>1. CASE ApplyFailed(t)
    BY <1>1 DEF ApplyFailed, StageInv, TypeOK, GroupRows
  <1>2. CASE ApplyStatusNotFound(t)
    BY <1>2, <1>a, <1>b, <1>s DEF ApplyStatusNotFound, Applicable
  <1>3. CASE ApplyStatusKeepsAbort(t)
    BY <1>3, <1>a DEF ApplyStatusKeepsAbort, Applicable
  <1>4. CASE ApplyStatusTimedOut(t)
    BY <1>4, <1>b, <1>s DEF ApplyStatusTimedOut, Applicable
  <1>5. CASE ApplyStatus(t)
    <2> DEFINE local == RelayStatusToLocal(opResult[t].status)
               st  == SetAll([status EXCEPT ![t] = local], NewMembers(t), "Pending")
               sib == IF local = "Created" THEN siblingCancel
                      ELSE [siblingCancel EXCEPT ![t] = FALSE]
    <2>1. ApplyTail(t, st, sib) /\ op[t] = "sync_status"
      BY <1>5 DEF ApplyStatus, Applicable
    <2>2. t \notin NewMembers(t)
      BY DEF NewMembers
    <2>3. local \notin {"absent", "Pending"}
      BY DEF RelayStatusToLocal
    <2>4. /\ st[t] = local
          /\ \A u \in Task : u # t => st[u] = IF u \in NewMembers(t) THEN "Pending" ELSE status[u]
      BY <2>2 DEF SetAll, TypeOK
    <2> HIDE DEF local, st, sib
    <2>5. QED
      BY <2>1, <2>3, <2>4, ApplyTailStage
  <1>6. CASE ApplyCreate(t)
    BY <1>6, <1>a, <1>b, <1>s DEF ApplyCreate, Applicable
  <1>7. CASE ApplyValidate(t)
    <2>1. op[t] = "validate"
      BY <1>7 DEF ApplyValidate, Applicable
    <2>2. \A u \in Task : SetAll(status, Members(t), "EndAborted")[u] =
                              IF u \in Members(t) THEN "EndAborted" ELSE status[u]
      BY DEF SetAll
    <2>3. Members(t) \subseteq GroupRows(TaskID[t])
      BY DEF Members, MembersIn, GroupRows
    <2>4. CASE ApplyTail(t, status, siblingCancel)
      BY <2>1, <2>4, <1>a
    <2>5. CASE ApplyTail(t, SetAll(status, Members(t), "EndAborted"), siblingCancel)
      BY <2>1, <2>2, <2>3, <2>5, ApplyTailStage
    <2>6. QED
      BY <1>7, <2>4, <2>5 DEF ApplyValidate
  <1>8. CASE ApplyCancel(t)
    BY <1>8, <1>a DEF ApplyCancel, Applicable
  <1>9. CASE ApplyDownload(t)
    BY <1>9, <1>b, <1>s DEF ApplyDownload, Applicable
  <1>10. QED
    BY <1>1, <1>2, <1>3, <1>4, <1>5, <1>6, <1>7, <1>8, <1>9 DEF Apply

\* Every step preserves StageInv.
LEMMA StageInvStep ==
  ASSUME TypeOK, StageInv, [Next]_vars PROVE StageInv'
  <1>k. ASSUME UNCHANGED <<status, op>> PROVE StageInv'
    BY <1>k DEF StageInv, GroupRows
  <1>1. ASSUME NEW t \in Task, Dispatch(t) PROVE StageInv'
    <2>1. status[t] # "absent" /\ op' = [op EXCEPT ![t] = DecideOperation(t)] /\ status' = status
      BY <1>1 DEF Dispatch, MarkRunning, LoadedAsDue
    <2>2. QED
      BY <2>1, DecidesCreate, DecidesValidate DEF StageInv, TypeOK, GroupRows
  <1>2. ASSUME NEW t \in Task, Answer(t) PROVE StageInv'
    BY <1>2, <1>k
    DEF Answer, AnswerStatus, AnswerCreate, AnswerValidate, AnswerCancel, AnswerResult,
        WriteOutcome, WriteCompleted
  <1>3. ASSUME NEW t \in Task, WorkerFails(t) \/ RelayMoves(t) \/ RelayLoses(t) PROVE StageInv'
    BY <1>3, <1>k DEF WorkerFails, RelayMoves, RelayLoses, opVars
  <1>4. ASSUME NEW t \in Task, Apply(t) PROVE StageInv'
    BY <1>4, ApplyStage
  <1>5. CASE Crash \/ RecoveryFails \/ RecoverClientTask \/ \E g \in Groups : RecoverGroup(g)
    BY <1>5, <1>k DEF Crash, RecoveryFails, RecoverClientTask, RecoverGroup, opVars
  <1>6. CASE RecoverOperations
    BY <1>6 DEF RecoverOperations, SetAll, StageInv, GroupRows
  <1>7. ASSUME NEW r \in late, LateRequest(r) PROVE StageInv'
    BY <1>7, <1>k DEF LateRequest, opVars
  <1>8. CASE UNCHANGED vars
    BY <1>8, <1>k DEF vars, opVars
  <1>9. QED
    BY <1>1, <1>2, <1>3, <1>4, <1>5, <1>6, <1>7, <1>8 DEF Next, Beside, Recover

\* Relay's ends are ends here.
LEMMA LocalEnd ==
  ASSUME NEW c, IsChainTaskTerminal(c) PROVE RelayStatusToLocal(c) \in TerminalStatus
  BY DEF IsChainTaskTerminal, ChainTaskTerminal, RelayStatusToLocal, TerminalStatus, FinishedStatus

\* No step reopens a row whose local abort still owes its cancellation.
LEMMA AbortSticksStep ==
  ASSUME TypeOK, StageInv, [Next]_vars, NEW t \in Task,
         status[t] = "EndAborted", siblingCancel[t]
  PROVE  status'[t] \in TerminalStatus
  <1>e. "EndAborted" \in TerminalStatus /\ "ResultDownloaded" \in TerminalStatus
    BY DEF TerminalStatus, FinishedStatus
  <1>1. ASSUME NEW u \in Task, Apply(u), ~ApplyStatus(u) PROVE status'[t] \in TerminalStatus
    <2>1. CASE ApplyFailed(u) \/ ApplyStatusKeepsAbort(u) \/ ApplyCancel(u)
      BY <2>1, <1>e DEF ApplyFailed, ApplyStatusKeepsAbort, ApplyCancel, ApplyTail
    <2>2. CASE ApplyStatusNotFound(u)
      BY <2>2, <1>e DEF ApplyStatusNotFound, ApplyTail, TypeOK
    <2>3. CASE ApplyStatusTimedOut(u) \/ ApplyDownload(u)
      <3>1. \/ status' = [status EXCEPT ![u] = "EndAborted"]
            \/ status' = [status EXCEPT ![u] = "ResultDownloaded"]
        BY <2>3 DEF ApplyStatusTimedOut, ApplyDownload, ApplyTail
      <3>2. status'[t] \in {status[t], "EndAborted", "ResultDownloaded"}
        BY <3>1 DEF TypeOK
      <3>3. QED
        BY <3>2, <1>e
    <2>4. CASE ApplyCreate(u)
      <3>1. u # t
        BY <2>4 DEF ApplyCreate, Applicable, StageInv
      <3>2. status'[t] = status[t]
        BY <2>4, <3>1 DEF ApplyCreate, ApplyTail, TypeOK
      <3>3. QED
        BY <3>2, <1>e
    <2>5. CASE ApplyValidate(u)
      BY <2>5, <1>e DEF ApplyValidate, ApplyTail, SetAll
    <2>6. QED
      BY <1>1, <2>1, <2>2, <2>3, <2>4, <2>5 DEF Apply
  <1>2. ASSUME NEW u \in Task, ApplyStatus(u) PROVE status'[t] \in TerminalStatus
    <2>1. status[u] # "absent"
      BY <1>2 DEF ApplyStatus, Applicable, StageInv
    <2>2. t \notin NewMembers(u)
      BY <2>1, NewMembersAreNew DEF GroupRows
    <2>3. status'[t] = IF t = u THEN RelayStatusToLocal(opResult[t].status) ELSE status[t]
      BY <1>2, <2>2 DEF ApplyStatus, ApplyTail, SetAll, TypeOK
    <2>4. t = u => IsChainTaskTerminal(opResult[t].status)
      BY <1>2 DEF ApplyStatus, KeepsLocalAbort
    <2>5. QED
      BY <2>3, <2>4, <1>e, LocalEnd
  <1>3. ASSUME NEW u \in Task, Dispatch(u) \/ Answer(u) \/ WorkerFails(u) \/ RelayMoves(u) \/ RelayLoses(u)
        PROVE status' = status
    BY <1>3
    DEF Dispatch, MarkRunning, Answer, AnswerStatus, AnswerCreate, AnswerValidate, AnswerCancel, AnswerResult,
        WriteOutcome, WriteCompleted, WorkerFails, RelayMoves, RelayLoses
  <1>4. CASE Crash \/ Recover \/ RecoveryFails \/ UNCHANGED vars
    BY <1>4, <1>e DEF Crash, Recover, RecoverOperations, RecoverGroup, RecoverClientTask, RecoveryFails, vars
  <1>5. ASSUME NEW r \in late, LateRequest(r) PROVE status' = status
    BY <1>5 DEF LateRequest
  <1>6. QED
    BY <1>1, <1>2, <1>3, <1>4, <1>5, <1>e DEF Next, Beside

\* A heartbeat task that the bridge aborted for its time in Relay's queue stays
\* ended until its cancellation is settled, whatever other rows of its group,
\* lost requests, late answers and crashes do meanwhile.
THEOREM QueueAbortSticks == Spec => HeartbeatAbortSticks
  <1>1. Init => StageInv
    BY DEF Init, StageInv
  <1>2. TypeOK /\ StageInv /\ [Next]_vars => StageInv'
    BY StageInvStep
  <1>3. TypeOK /\ StageInv /\ [Next]_vars =>
          [\A t \in Task :
             HeartbeatLimit /\ status[t] = "EndAborted" /\ siblingCancel[t]
               => status'[t] \in TerminalStatus]_vars
    BY AbortSticksStep
  <1>4. QED
    BY <1>1, <1>2, <1>3, TypeCorrect, PTL DEF Spec, HeartbeatAbortSticks

-----------------------------------------------------------------------------
\* The rows keep the promise of their client task.

\* A client task that is not decided has no result.
PromiseInv == clientStatus = "running" => \A t \in Task : status[t] # "ResultDownloaded"

\* A step that changes neither the rows' statuses nor the decision.
LEMMA PromiseStutters ==
  ASSUME PromiseInv, UNCHANGED <<status, clientStatus>>
  PROVE  PromiseInv' /\ UNCHANGED <<clientStatus, {t \in Task : status[t] = "ResultDownloaded"}>>
  BY DEF PromiseInv

\* A recalculation over the new statuses decides as the promise says.
LEMMA RecalculateKeepsPromise ==
  ASSUME TypeOK, PromiseInv, RecalculateClientTask(status')
  PROVE  /\ PromiseInv'
         /\ CT!Next \/ UNCHANGED <<clientStatus, {t \in Task : status[t] = "ResultDownloaded"}>>
  <1> DEFINE results == {t \in Task : status[t] = "ResultDownloaded"}
             new     == {t \in Task : status'[t] = "ResultDownloaded"}
  <1>1. CASE clientStatus # "running"
    <2>1. clientStatus' = clientStatus
      BY <1>1 DEF RecalculateClientTask, clientVars
    <2>2. CT!Settled
      BY <1>1, <2>1 DEF CT!Settled
    <2>3. QED
      BY <1>1, <2>1, <2>2 DEF PromiseInv, CT!Next
  <1>2. CASE clientStatus = "running" /\ Existing(status') = {}
    <2>1. results = {} /\ new = {}
      BY <1>2 DEF PromiseInv, Existing
    <2>2. clientStatus' = clientStatus
      BY <1>2 DEF RecalculateClientTask, clientVars
    <2>3. QED
      BY <1>2, <2>1, <2>2 DEF PromiseInv
  <1>3. CASE clientStatus = "running" /\ Existing(status') # {}
    <2>1. results = {}
      BY <1>3 DEF PromiseInv
    <2>2. CASE \E t \in Task : status'[t] = "ResultDownloaded"
      <3>1. clientStatus' = "success" /\ new \in (SUBSET Task) \ {{}}
        BY <1>3, <2>2 DEF RecalculateClientTask
      <3>2. CT!Succeed
        BY <1>3, <2>1, <3>1 DEF CT!Succeed, CT!Undecided
      <3>3. QED
        BY <3>1, <3>2 DEF PromiseInv, CT!Next
    <2>3. CASE ~\E t \in Task : status'[t] = "ResultDownloaded"
      <3>1. new = {} /\ clientStatus' \in {"failed", "running"}
        BY <1>3, <2>3 DEF RecalculateClientTask
      <3>2. clientStatus' = "failed" => CT!Fail
        BY <1>3, <2>1, <3>1 DEF CT!Fail, CT!Undecided
      <3>3. QED
        BY <1>3, <2>1, <3>1, <3>2 DEF PromiseInv, CT!Next
    <2>4. QED
      BY <2>2, <2>3
  <1>4. QED
    BY <1>1, <1>2, <1>3

\* Every step of the engine is a step of the promise, or changes nothing of it.
LEMMA PromiseStep ==
  ASSUME TypeOK, PromiseInv, [Next]_vars
  PROVE  /\ PromiseInv'
         /\ CT!Next \/ UNCHANGED <<clientStatus, {t \in Task : status[t] = "ResultDownloaded"}>>
  <1>1. ASSUME NEW t \in Task, Apply(t), ~ApplyFailed(t) PROVE RecalculateClientTask(status')
    <2>1. \E st, sib : ApplyTail(t, st, sib)
      BY <1>1 DEF Apply, ApplyStatusNotFound, ApplyStatusKeepsAbort, ApplyStatusTimedOut,
                  ApplyStatus, ApplyCreate, ApplyValidate, ApplyCancel, ApplyDownload
    <2>2. QED
      BY <2>1 DEF ApplyTail
  <1>2. CASE RecoverClientTask
    BY <1>2, RecalculateKeepsPromise DEF RecoverClientTask, RecalculateClientTask, Existing, FailedGroups
  <1>3. ASSUME NEW t \in Task,
               Dispatch(t) \/ Answer(t) \/ WorkerFails(t) \/ ApplyFailed(t)
                 \/ RelayMoves(t) \/ RelayLoses(t)
        PROVE UNCHANGED <<status, clientStatus>>
    BY <1>3
    DEF Dispatch, MarkRunning, Answer, AnswerStatus, AnswerCreate, AnswerValidate, AnswerCancel, AnswerResult,
        WriteOutcome, WriteCompleted, WorkerFails, ApplyFailed, RelayMoves, RelayLoses, clientVars
  <1>4. CASE Crash \/ RecoverOperations \/ (\E g \in Groups : RecoverGroup(g)) \/ RecoveryFails
               \/ (\E r \in late : LateRequest(r)) \/ UNCHANGED vars
    <2>1. UNCHANGED <<status, clientStatus>>
      BY <1>4 DEF Crash, RecoverOperations, RecoverGroup, RecoveryFails, LateRequest, vars, clientVars
    <2>2. QED
      BY <2>1, PromiseStutters
  <1>5. QED
    BY <1>1, <1>2, <1>3, <1>4, PromiseStutters, RecalculateKeepsPromise DEF Next, Beside, Recover, Apply

\* The detailed engine implements the promise of ClientTask: its client task is
\* decided once, by the first result or by the end of its last row, whatever
\* rows, groups, faults and crashes there are.
THEOREM EngineKeepsPromise == Spec => KeepsPromise
  <1>1. Init => PromiseInv /\ CT!Init
    BY DEF Init, PromiseInv, CT!Init
  <1>2. TypeOK /\ PromiseInv /\ [Next]_vars =>
          PromiseInv' /\ [CT!Next]_<<clientStatus, {t \in Task : status[t] = "ResultDownloaded"}>>
    BY PromiseStep
  <1>3. QED
    BY <1>1, <1>2, TypeCorrect, PTL DEF Spec, KeepsPromise, CT!Spec

-----------------------------------------------------------------------------
\* A validation has its VRF data.

\* The statuses of a task that a node took, whose execution model files Relay has
\* frozen.
Ran == ChainStatus \ {"NotFound", "Queued", "EndAborted"}

\* A hypothesis on the nodes, where the VRF selects groups: whoever takes a task
\* has its files recorded.  The first theorem of this part does without it.
FilesRecorded == VSSGroups # {} => NoFiles \notin ExecFiles

FilesAreFrozen == VSSGroups # {} => \A t \in Task : rstatus[t] \in Ran => rfiles[t] # NoFiles
AnswersHaveFiles ==
  VSSGroups # {} => \A t \in Task : opResult[t].status \in Ran => opResult[t].files # NoFiles

\* The row is up for validation.
UpForValidation(t) == IsReadyForValidation(status[t]) \/ op[t] = "validate"

FilesKnown == VSSGroups # {} => \A t \in Task : UpForValidation(t) => modelFiles[t] # NoFiles

\* Only the primary row of a group comes without a seed, and the seed of a group
\* that the VRF selects is stored together with its members.
GroupsAreSeeded ==
  \A t \in Task :
    /\ status[t] # "absent" => t \in Primary \/ seedSaved[t]
    /\ seedSaved[t] /\ TaskID[t] \in VSSGroups =>
         \A u \in GroupRows(TaskID[t]) : status[u] # "absent"

\* So a row that is up for validation has its seed, or belongs to a group that the
\* VRF selects and came without files.
SeedOrNoFiles ==
  \A t \in Task : UpForValidation(t) =>
    seedSaved[t] \/ (TaskID[t] \in VSSGroups /\ modelFiles[t] = NoFiles)

SeedInv == GroupsAreSeeded /\ \A t \in Task : UpForValidation(t) => seedSaved[t]

VRFInv == FilesAreFrozen /\ AnswersHaveFiles /\ FilesKnown /\ SeedInv

\* Whatever Relay does, it records files when a node takes a task.
LEMMA FilesStayFrozen ==
  ASSUME FilesRecorded, TypeOK, FilesAreFrozen, [Next]_vars PROVE FilesAreFrozen'
  <1>t. RelayTypeOK
    BY DEF TypeOK
  <1>v. SUFFICES ASSUME VSSGroups # {} PROVE FilesAreFrozen'
    BY DEF FilesAreFrozen
  <1>1. CASE UNCHANGED relayVars
    BY <1>1 DEF relayVars, FilesAreFrozen
  <1>2. ASSUME NEW t \in Task, RelayProgress(t) PROVE FilesAreFrozen'
    <2>1. PICK c \in Onward(rstatus[t]) \cap ChainStatuses :
            /\ rstatus' = [rstatus EXCEPT ![t] = c]
            /\ IF rstatus[t] = "Queued" /\ c # "EndAborted"
                 THEN \E f \in ExecFiles : rfiles' = [rfiles EXCEPT ![t] = f]
                 ELSE UNCHANGED rfiles
      BY <1>2 DEF RelayProgress
    <2>2. rstatus[t] = "Queued" \/ rstatus[t] \in Ran
      BY <2>1, <1>t DEF Onward, Ran, RelayTypeOK
    <2>3. rstatus'[t] \in Ran => rfiles'[t] # NoFiles
      BY <2>1, <2>2, <1>t, <1>v DEF FilesAreFrozen, FilesRecorded, RelayTypeOK, Ran
    <2>4. \A u \in Task \ {t} : rstatus'[u] = rstatus[u] /\ rfiles'[u] = rfiles[u]
      BY <2>1, <1>t DEF RelayTypeOK
    <2>5. QED
      BY <2>3, <2>4 DEF FilesAreFrozen
  <1>3. ASSUME NEW t \in Task, RelayForget(t) PROVE FilesAreFrozen'
    BY <1>3, <1>t DEF RelayForget, RelayTypeOK, FilesAreFrozen, Ran
  <1>4. ASSUME NEW t \in Task, NEW out \in Outcome, RelayCreate(t, out) \/ RelayCancel(t, out)
        PROVE  FilesAreFrozen'
    BY <1>4, <1>t DEF RelayCreate, RelayCancel, RelayTypeOK, FilesAreFrozen, Ran, relayVars
  <1>5. ASSUME NEW unit \in SUBSET Task, NEW out \in Outcome, RelayValidate(unit, out)
        PROVE  FilesAreFrozen'
    <2>1. CASE UNCHANGED relayVars
      BY <2>1 DEF relayVars, FilesAreFrozen
    <2>2. CASE ValidateUnit(unit)
      <3>1. \A u \in Task : rstatus'[u] = rstatus[u] \/ RelayReady(u)
        BY <2>2 DEF ValidateUnit
      <3>2. rfiles' = rfiles /\ \A u \in Task : RelayReady(u) => rstatus[u] \in Ran
        BY <2>2 DEF ValidateUnit, RelayReady, Ran, ChainStatus
      <3>3. QED
        BY <3>1, <3>2 DEF FilesAreFrozen
    <2>3. QED
      BY <1>5, <2>1, <2>2 DEF RelayValidate
  <1>6. QED
    BY <1>1, <1>2, <1>3, <1>4, <1>5, RelayStep

\* A stored answer was read from Relay, or says nothing about a status.
LEMMA AnswersKeepFiles ==
  ASSUME TypeOK, FilesAreFrozen, AnswersHaveFiles, [Next]_vars PROVE AnswersHaveFiles'
  <1>v. SUFFICES ASSUME VSSGroups # {} PROVE AnswersHaveFiles'
    BY DEF AnswersHaveFiles
  <1>n. NoResult.status \notin Ran /\ \A out : [NoResult EXCEPT !.outcome = out].status \notin Ran
    BY DEF NoResult, Ran
  <1>k. ASSUME UNCHANGED opResult PROVE AnswersHaveFiles'
    BY <1>k DEF AnswersHaveFiles
  <1>s. ASSUME NEW t \in Task, NEW r, opResult' = [opResult EXCEPT ![t] = r],
               r.status \in Ran => r.files # NoFiles
        PROVE  AnswersHaveFiles'
    BY <1>s DEF AnswersHaveFiles, TypeOK
  <1>1. ASSUME NEW t \in Task, Dispatch(t) PROVE AnswersHaveFiles'
    BY <1>1, <1>s, <1>n DEF Dispatch, MarkRunning
  <1>2. ASSUME NEW t \in Task, Answer(t) PROVE AnswersHaveFiles'
    <2>1. CASE AnswerStatus(t)
      <3>1. opResult' = [opResult EXCEPT ![t] = [outcome |-> "none", status |-> rstatus[t],
                                                 reason |-> rreason[t], files |-> rfiles[t]]]
        BY <2>1 DEF AnswerStatus, WriteCompleted
      <3>2. rstatus[t] \in Ran => rfiles[t] # NoFiles
        BY <1>v DEF FilesAreFrozen
      <3>3. QED
        BY <3>1, <3>2, <1>s
    <2>2. CASE ~AnswerStatus(t)
      <3>1. PICK out : WriteOutcome(t, out)
        BY <1>2, <2>2 DEF Answer, AnswerCreate, AnswerValidate, AnswerCancel, AnswerResult
      <3>2. opResult' = [opResult EXCEPT ![t] = [NoResult EXCEPT !.outcome = out]]
        BY <3>1 DEF WriteOutcome, WriteCompleted
      <3>3. QED
        BY <3>2, <1>s, <1>n
    <2>3. QED
      BY <2>1, <2>2
  <1>3. ASSUME NEW t \in Task, Apply(t) PROVE AnswersHaveFiles'
    <2>1. opResult' = [opResult EXCEPT ![t] = NoResult]
      BY <1>3 DEF Apply, ApplyFailed, ApplyStatusNotFound, ApplyStatusKeepsAbort, ApplyStatusTimedOut,
                  ApplyStatus, ApplyCreate, ApplyValidate, ApplyCancel, ApplyDownload, ApplyTail
    <2>2. QED
      BY <2>1, <1>s, <1>n
  <1>4. ASSUME NEW t \in Task, WorkerFails(t) \/ RelayMoves(t) \/ RelayLoses(t) PROVE AnswersHaveFiles'
    BY <1>4, <1>k DEF WorkerFails, RelayMoves, RelayLoses, opVars
  <1>5. CASE Crash \/ Recover \/ RecoveryFails \/ UNCHANGED vars
    BY <1>5, <1>k DEF Crash, Recover, RecoverOperations, RecoverGroup, RecoverClientTask,
                      RecoveryFails, vars, opVars
  <1>6. ASSUME NEW r \in late, LateRequest(r) PROVE AnswersHaveFiles'
    BY <1>6, <1>k DEF LateRequest, opVars
  <1>7. QED
    BY <1>1, <1>2, <1>3, <1>4, <1>5, <1>6 DEF Next, Beside

\* A step that stores no seed and no files, creates and deletes no row, and takes
\* none up for validation that was not.
Seedless ==
  /\ UNCHANGED <<seedSaved, modelFiles>>
  /\ \A u \in Task : /\ status'[u] = "absent" <=> status[u] = "absent"
                     /\ UpForValidation(u)' => UpForValidation(u)

\* Such is every step but the ordinary application of a status.
LEMMA SeedlessSteps ==
  ASSUME TypeOK, StageInv, [Next]_vars PROVE Seedless \/ \E t \in Task : ApplyStatus(t)
  <1>k. ASSUME UNCHANGED <<status, op, seedSaved, modelFiles>> PROVE Seedless
    BY <1>k DEF Seedless, UpForValidation
  <1>1. ASSUME NEW t \in Task, Dispatch(t) PROVE Seedless
    <2>1. UNCHANGED <<status, seedSaved, modelFiles>> /\ op' = [op EXCEPT ![t] = DecideOperation(t)]
      BY <1>1 DEF Dispatch, MarkRunning, rowVars
    <2>2. DecideOperation(t) = "validate" => IsReadyForValidation(status[t])
      BY DEF DecideOperation, SubmitsValidation
    <2>3. QED
      BY <2>1, <2>2 DEF Seedless, UpForValidation, TypeOK
  <1>2. ASSUME NEW t \in Task, Answer(t) PROVE Seedless
    BY <1>2, <1>k
    DEF Answer, AnswerStatus, AnswerCreate, AnswerValidate, AnswerCancel, AnswerResult,
        WriteOutcome, WriteCompleted, rowVars
  <1>3. ASSUME NEW t \in Task, WorkerFails(t) \/ RelayMoves(t) \/ RelayLoses(t) PROVE Seedless
    BY <1>3, <1>k DEF WorkerFails, RelayMoves, RelayLoses, opVars, rowVars
  <1>4. ASSUME NEW t \in Task, Apply(t), ~ApplyStatus(t) PROVE Seedless
    <2>1. /\ UNCHANGED <<seedSaved, modelFiles>> /\ op' = [op EXCEPT ![t] = "none"]
      BY <1>4 DEF Apply, ApplyFailed, ApplyStatusNotFound, ApplyStatusKeepsAbort, ApplyStatusTimedOut,
                  ApplyCreate, ApplyValidate, ApplyCancel, ApplyDownload, ApplyTail, rowVars
    <2>2. \/ status' = status
          \/ op[t] # "none" /\ \E s \in {"EndAborted", "Created", "ResultDownloaded"} :
               status' = [status EXCEPT ![t] = s]
          \/ status' = SetAll(status, Members(t), "EndAborted")
      BY <1>4 DEF Apply, Applicable, ApplyFailed, ApplyStatusNotFound, ApplyStatusKeepsAbort,
                  ApplyStatusTimedOut, ApplyCreate, ApplyValidate, ApplyCancel, ApplyDownload, ApplyTail
    <2>3. \A u \in Task : /\ status'[u] = "absent" <=> status[u] = "absent"
                          /\ IsReadyForValidation(status'[u]) => IsReadyForValidation(status[u])
      <3>1. CASE status' = status
        BY <3>1
      <3>2. CASE op[t] # "none" /\ \E s \in {"EndAborted", "Created", "ResultDownloaded"} :
                   status' = [status EXCEPT ![t] = s]
        BY <3>2 DEF StageInv, TypeOK, IsReadyForValidation
      <3>3. CASE status' = SetAll(status, Members(t), "EndAborted")
        BY <3>3 DEF SetAll, Members, MembersIn, IsReadyForValidation
      <3>4. QED
        BY <2>2, <3>1, <3>2, <3>3
    <2>4. QED
      BY <2>1, <2>3 DEF Seedless, UpForValidation, TypeOK
  <1>5. CASE Crash \/ RecoveryFails \/ RecoverClientTask \/ \E g \in Groups : RecoverGroup(g)
    BY <1>5, <1>k DEF Crash, RecoveryFails, RecoverClientTask, RecoverGroup, opVars, rowVars
  <1>6. CASE RecoverOperations
    <2>1. UNCHANGED <<status, seedSaved, modelFiles>> /\ \A u \in Task : op'[u] \in {op[u], "none"}
      BY <1>6 DEF RecoverOperations, SetAll, rowVars
    <2>2. QED
      BY <2>1 DEF Seedless, UpForValidation
  <1>7. ASSUME NEW r \in late, LateRequest(r) PROVE Seedless
    BY <1>7, <1>k DEF LateRequest, opVars, rowVars
  <1>8. CASE UNCHANGED vars
    BY <1>8, <1>k DEF vars, opVars, rowVars
  <1>9. QED
    BY <1>1, <1>2, <1>3, <1>4, <1>5, <1>6, <1>7, <1>8 DEF Next, Beside, Recover, Apply

\* The primary row is the only one of its group without a seed.
LEMMA OnlyPrimaryLacksSeed ==
  ASSUME GroupsAreSeeded, NEW t \in Task, status[t] # "absent", TaskID[t] \in VSSGroups,
         \E u \in GroupRows(TaskID[t]) : status[u] = "absent"
  PROVE  Members(t) = {t}
  <1>1. ASSUME NEW u \in Members(t) PROVE u \in GroupRows(TaskID[t]) \cap Primary
    BY <1>1 DEF GroupsAreSeeded, Members, MembersIn, GroupRows
  <1>2. t \in Members(t)
    BY DEF Members, MembersIn
  <1>3. TaskID[t] \in Groups
    BY DEF Groups
  <1>4. IsFiniteSet(GroupRows(TaskID[t]) \cap Primary)
    BY FS_Subset, RelayAssumption DEF GroupRows
  <1>5. PICK x : GroupRows(TaskID[t]) \cap Primary = {x}
    BY <1>3, <1>4, FS_Singleton, EngineAssumption
  <1>6. QED
    BY <1>1, <1>2, <1>5

\* What applying a status does to the rows of its group.
LEMMA ApplyStatusRows ==
  ASSUME TypeOK, StageInv, NEW t \in Task, ApplyStatus(t)
  PROVE  LET local == RelayStatusToLocal(opResult[t].status) IN
         /\ status[t] # "absent" /\ local # "absent"
         /\ NewMembers(t) \subseteq Task /\ t \notin NewMembers(t)
         /\ \A u \in NewMembers(t) : status[u] = "absent" /\ status'[u] = "Pending" /\ seedSaved'[u]
         /\ \A u \in Task : u # t /\ u \notin NewMembers(t) =>
              status'[u] = status[u] /\ seedSaved'[u] = seedSaved[u]
         /\ status'[t] = local /\ seedSaved'[t] = (seedSaved[t] \/ NeedsVRF(t))
         /\ op'[t] # "validate" /\ \A u \in Task : u # t => op'[u] = op[u]
         /\ modelFiles'[t] = opResult[t].files
         /\ \A u \in Task : u # t => modelFiles'[u] = modelFiles[u]
  <1> DEFINE local == RelayStatusToLocal(opResult[t].status)
             st    == SetAll([status EXCEPT ![t] = local], NewMembers(t), "Pending")
  <1>1. /\ status' = st /\ op' = [op EXCEPT ![t] = "none"]
        /\ seedSaved' = IF NeedsVRF(t) THEN SetAll(seedSaved, {t} \cup NewMembers(t), TRUE)
                        ELSE seedSaved
        /\ modelFiles' = [modelFiles EXCEPT ![t] = opResult[t].files]
        /\ op[t] = "sync_status"
    BY DEF ApplyStatus, ApplyTail, Applicable
  <1>2. status[t] # "absent" /\ local # "absent"
    BY <1>1 DEF StageInv, RelayStatusToLocal
  <1>3. /\ t \notin NewMembers(t) /\ NewMembers(t) \subseteq Task
        /\ \A u \in NewMembers(t) : status[u] = "absent"
    BY <1>2, NewMembersAreNew DEF GroupRows, NewMembers
  <1>4. /\ status'[t] = local
        /\ \A u \in NewMembers(t) : status'[u] = "Pending"
        /\ \A u \in Task : u # t /\ u \notin NewMembers(t) => status'[u] = status[u]
    BY <1>1, <1>3 DEF SetAll, TypeOK
  <1>5. /\ seedSaved'[t] = (seedSaved[t] \/ NeedsVRF(t))
        /\ \A u \in NewMembers(t) : seedSaved'[u]
        /\ \A u \in Task : u # t /\ u \notin NewMembers(t) => seedSaved'[u] = seedSaved[u]
    <2>1. seedSaved[t] \in BOOLEAN /\ (NewMembers(t) # {} => NeedsVRF(t)) /\ NeedsVRF(t) \in BOOLEAN
      BY DEF TypeOK, NewMembers, NeedsVRF
    <2>2. CASE NeedsVRF(t)
      BY <1>1, <1>3, <2>1, <2>2 DEF SetAll
    <2>3. CASE ~NeedsVRF(t)
      BY <1>1, <2>1, <2>3
    <2>4. QED
      BY <2>2, <2>3
  <1>6. /\ op'[t] # "validate" /\ \A u \in Task : u # t => op'[u] = op[u]
        /\ modelFiles'[t] = opResult[t].files
        /\ \A u \in Task : u # t => modelFiles'[u] = modelFiles[u]
    BY <1>1 DEF TypeOK
  <1> HIDE DEF st
  <1>7. QED
    BY <1>2, <1>3, <1>4, <1>5, <1>6

\* What persistVRFAndMembers stores is what the invariants ask for.
LEMMA ApplyStatusSeeds ==
  ASSUME TypeOK, GroupsAreSeeded, SeedOrNoFiles, StageInv, NEW t \in Task, ApplyStatus(t)
  PROVE  GroupsAreSeeded' /\ SeedOrNoFiles'
  <1> DEFINE local == RelayStatusToLocal(opResult[t].status)
  <1>1. /\ status[t] # "absent" /\ local # "absent"
        /\ NewMembers(t) \subseteq Task /\ t \notin NewMembers(t)
        /\ \A u \in NewMembers(t) : status[u] = "absent" /\ status'[u] = "Pending" /\ seedSaved'[u]
        /\ \A u \in Task : u # t /\ u \notin NewMembers(t) =>
             status'[u] = status[u] /\ seedSaved'[u] = seedSaved[u]
        /\ status'[t] = local /\ seedSaved'[t] = (seedSaved[t] \/ NeedsVRF(t))
        /\ op'[t] # "validate" /\ \A u \in Task : u # t => op'[u] = op[u]
        /\ modelFiles'[t] = opResult[t].files
        /\ \A u \in Task : u # t => modelFiles'[u] = modelFiles[u]
    BY ApplyStatusRows
  <1> HIDE DEF local
  <1>2. \A u \in Task : status[u] # "absent" => status'[u] # "absent"
    BY <1>1
  <1>3. ASSUME seedSaved'[t], TaskID[t] \in VSSGroups, NEW u \in GroupRows(TaskID[t])
        PROVE  status'[u] # "absent"
    <2>1. CASE seedSaved[t]
      BY <1>2, <1>3, <2>1 DEF GroupsAreSeeded, GroupRows
    <2>2. CASE ~seedSaved[t]
      <3>1. NeedsVRF(t)
        BY <1>1, <1>3, <2>2
      <3>2. CASE status[u] # "absent"
        BY <1>2, <3>2 DEF GroupRows
      <3>3. CASE status[u] = "absent"
        <4>1. Members(t) = {t}
          BY <1>1, <1>3, <3>3, OnlyPrimaryLacksSeed
        <4>2. Cardinality(Members(t)) = 1
          BY <4>1, FS_Singleton
        <4>3. NewMembers(t) = GroupRows(TaskID[t]) \ {t}
          BY <1>3, <3>1, <4>2 DEF NewMembers
        <4>4. u \in NewMembers(t)
          BY <1>1, <1>3, <3>3, <4>3
        <4>5. QED
          BY <1>1, <4>4
      <3>4. QED
        BY <3>2, <3>3
    <2>3. QED
      BY <2>1, <2>2
  <1>4. ASSUME NEW u \in NewMembers(t), TaskID[u] \in VSSGroups, NEW v \in GroupRows(TaskID[u])
        PROVE  status'[v] # "absent"
    <2>1. NewMembers(t) = GroupRows(TaskID[t]) \ {t} /\ TaskID[u] = TaskID[t]
      BY <1>4 DEF NewMembers, GroupRows
    <2>2. v \in Task /\ (v = t \/ v \in NewMembers(t))
      BY <1>4, <2>1 DEF GroupRows
    <2>3. QED
      BY <1>1, <2>2
  <1>5. GroupsAreSeeded'
    <2> SUFFICES ASSUME NEW u \in Task
                 PROVE  /\ status'[u] # "absent" => u \in Primary \/ seedSaved'[u]
                        /\ seedSaved'[u] /\ TaskID[u] \in VSSGroups =>
                             \A v \in GroupRows(TaskID[u]) : status'[v] # "absent"
      BY DEF GroupsAreSeeded, GroupRows
    <2>1. CASE u = t
      BY <1>1, <1>3, <2>1 DEF GroupsAreSeeded
    <2>2. CASE u \in NewMembers(t)
      BY <1>1, <1>4, <2>2
    <2>3. CASE u # t /\ u \notin NewMembers(t)
      BY <1>1, <1>2, <2>3 DEF GroupsAreSeeded, GroupRows
    <2>4. QED
      BY <2>1, <2>2, <2>3
  <1>6. SeedOrNoFiles'
    <2> SUFFICES ASSUME NEW u \in Task, UpForValidation(u)'
                 PROVE  seedSaved'[u] \/ (TaskID[u] \in VSSGroups /\ modelFiles'[u] = NoFiles)
      BY DEF SeedOrNoFiles
    <2>1. CASE u = t
      BY <1>1, <2>1 DEF NeedsVRF
    <2>2. CASE u \in NewMembers(t)
      BY <1>1, <2>2
    <2>3. CASE u # t /\ u \notin NewMembers(t)
      BY <1>1, <2>3 DEF SeedOrNoFiles, UpForValidation
    <2>4. QED
      BY <2>1, <2>2, <2>3
  <1>7. QED
    BY <1>5, <1>6

\* Every step preserves these invariants.
LEMMA SeedlessKeeps ==
  ASSUME Seedless
  PROVE  /\ GroupsAreSeeded => GroupsAreSeeded'
         /\ SeedOrNoFiles => SeedOrNoFiles'
         /\ FilesKnown => FilesKnown'
         /\ SeedInv => SeedInv'
  BY DEF Seedless, GroupsAreSeeded, SeedOrNoFiles, FilesKnown, SeedInv, GroupRows

LEMMA RecordedStep ==
  ASSUME TypeOK, GroupsAreSeeded, SeedOrNoFiles, StageInv, [Next]_vars
  PROVE  GroupsAreSeeded' /\ SeedOrNoFiles'
  BY SeedlessSteps, SeedlessKeeps, ApplyStatusSeeds

\* So do the rows of groups keep their files, if the nodes record them.
LEMMA FilesKnownStep ==
  ASSUME TypeOK, AnswersHaveFiles, FilesKnown, StageInv, [Next]_vars PROVE FilesKnown'
  <1>1. CASE Seedless
    BY <1>1, SeedlessKeeps
  <1>2. ASSUME NEW t \in Task, ApplyStatus(t), VSSGroups # {}, NEW u \in Task, UpForValidation(u)'
        PROVE  modelFiles'[u] # NoFiles
    <2> DEFINE local == RelayStatusToLocal(opResult[t].status)
    <2>1. /\ \A v \in NewMembers(t) : status[v] = "absent" /\ status'[v] = "Pending"
          /\ \A v \in Task : v # t /\ v \notin NewMembers(t) => status'[v] = status[v]
          /\ status'[t] = local
          /\ op'[t] # "validate" /\ \A v \in Task : v # t => op'[v] = op[v]
          /\ modelFiles'[t] = opResult[t].files
          /\ \A v \in Task : v # t => modelFiles'[v] = modelFiles[v]
      BY <1>2, ApplyStatusRows
    <2>2. CASE u = t
      <3>1. IsReadyForValidation(local)
        BY <1>2, <2>1, <2>2 DEF UpForValidation
      <3>2. opResult[t].status \in Ran
        BY <3>1 DEF IsReadyForValidation, RelayStatusToLocal, Ran, ChainStatus
      <3>3. QED
        BY <1>2, <2>1, <2>2, <3>2 DEF AnswersHaveFiles
    <2>3. CASE u # t
      <3>1. UpForValidation(u)
        BY <1>2, <2>1, <2>3 DEF UpForValidation, IsReadyForValidation
      <3>2. QED
        BY <1>2, <2>1, <2>3, <3>1 DEF FilesKnown
    <2>4. QED
      BY <2>2, <2>3
  <1>3. QED
    BY <1>1, <1>2, SeedlessSteps DEF FilesKnown

LEMMA SeedStep ==
  ASSUME TypeOK, VRFInv, StageInv, [Next]_vars PROVE FilesKnown' /\ SeedInv'
  <1>1. GroupsAreSeeded /\ SeedOrNoFiles
    BY DEF VRFInv, SeedInv, SeedOrNoFiles
  <1>2. GroupsAreSeeded' /\ SeedOrNoFiles' /\ FilesKnown'
    BY <1>1, RecordedStep, FilesKnownStep DEF VRFInv
  <1>3. QED
    BY <1>2 DEF SeedInv, SeedOrNoFiles, FilesKnown

\* A validation is submitted with the VRF data of its task, and with all three
\* rows of a group that the VRF selected, unless the task came without model files;
\* even if Relay forgets tasks, answers are late and the bridge dies between any
\* two steps.
THEOREM ValidationsHaveVRF == Spec => []RecordedHasVRF
  <1>1. Init => GroupsAreSeeded /\ SeedOrNoFiles /\ StageInv
    BY DEF Init, GroupsAreSeeded, SeedOrNoFiles, UpForValidation, IsReadyForValidation, StageInv
  <1>2. TypeOK /\ GroupsAreSeeded /\ SeedOrNoFiles /\ StageInv /\ [Next]_vars =>
          GroupsAreSeeded' /\ SeedOrNoFiles' /\ StageInv'
    BY RecordedStep, StageInvStep
  <1>3. GroupsAreSeeded /\ SeedOrNoFiles => RecordedHasVRF
    <2> SUFFICES ASSUME GroupsAreSeeded, SeedOrNoFiles, NEW t \in Task, op[t] = "validate",
                        TaskID[t] \in VSSGroups => modelFiles[t] # NoFiles
                 PROVE  seedSaved[t] /\ (TaskID[t] \in VSSGroups => Cardinality(Members(t)) = 3)
      BY DEF RecordedHasVRF
    <2>1. seedSaved[t]
      BY DEF SeedOrNoFiles, UpForValidation
    <2>2. TaskID[t] \in VSSGroups => Members(t) = GroupRows(TaskID[t])
      BY <2>1 DEF GroupsAreSeeded, Members, MembersIn, GroupRows
    <2>3. QED
      BY <2>1, <2>2, EngineAssumption
  <1>4. QED
    BY <1>1, <1>2, <1>3, TypeCorrect, PTL DEF Spec

=============================================================================
