-------------------------- MODULE CreatorAbortProofs --------------------------
(***************************************************************************)
(* Theorems about CreatorAbort, and about rows that are validated alone.   *)
(* What the engine keeps by itself, it keeps while its creator aborts, for *)
(* any number of rows and faults.  When no VRF selects a row, what a row   *)
(* says agrees with its task at Relay for the heartbeat client as well, so *)
(* a finished row stays as it is and the client task says what its rows    *)
(* say.  With an abort that may commit while operations are decided and    *)
(* not yet started the rows do not stay, but what they say is still borne  *)
(* out by Relay, so no task of rows that were all stopped waits or runs.   *)
(***************************************************************************)
EXTENDS CreatorAbort, ClientReads, AgreementProofs

\* An abort works on rows and knows where it stands.
ATypeOK ==
  /\ creatorCancelled \in BOOLEAN /\ repeatExpanded \in BOOLEAN /\ expanding \in BOOLEAN
  /\ abort \in [step : {"idle", "unexpanded", "preflight", "cancel", "commit"},
                rows : SUBSET Task, todo : SUBSET Task, cancelled : SUBSET Task]
  /\ decided \in [Task -> [op : OperationType, worker : {"idle", "request", "refuse"}]]
  /\ \A t \in Task : decided[t] # NoDecision => decided[t].worker # "idle"

-----------------------------------------------------------------------------
\* Before the expansion there are no rows, and everything has its type.
LEMMA AInitType == AInit => TypeOK /\ ATypeOK
  <1> SUFFICES ASSUME AInit PROVE TypeOK /\ ATypeOK
    OBVIOUS
  <1>1. RelayTypeOK
    BY DEF AInit, RelayInit, RelayTypeOK, ChainStatus, AbortReason
  <1>2. TypeOK
    BY <1>1, NoResultType, EngineAssumption
    DEF AInit, TypeOK, TaskStatus, AbortReason, OperationType, OperationStatus
  <1>3. ATypeOK
    BY DEF AInit, ATypeOK, NoAbort, NoneDecided, NoDecision, OperationType
  <1>4. QED
    BY <1>2, <1>3

\* The expansion writes a status of the enum.
LEMMA ExpandType ==
  ASSUME TypeOK, ATypeOK, ExpandLoad \/ ExpandCommit PROVE TypeOK' /\ ATypeOK'
  <1>1. status' \in [Task -> TaskStatus \cup {"absent"}]
    BY DEF ExpandLoad, ExpandCommit, SetAll, TypeOK, TaskStatus, vars
  <1>2. QED
    BY <1>1 DEF ExpandLoad, ExpandCommit, TypeOK, ATypeOK, RelayTypeOK, vars, rowVars, opVars,
                clientVars, envVars, relayVars

\* A decision is an operation with a worker.
LEMMA DecideType ==
  ASSUME TypeOK, ATypeOK, DispatchEnds \/ \E t \in Task : DecideRow(t) \/ MarkDecided(t)
  PROVE  TypeOK' /\ ATypeOK'
  <1>1. CASE DispatchEnds
    <2>1. UNCHANGED vars
      BY <1>1 DEF DispatchEnds
    <2>2. TypeOK'
      BY <2>1, NextType
    <2>3. QED
      BY <1>1, <2>2 DEF DispatchEnds, ATypeOK, NoneDecided, NoDecision, OperationType
  <1>2. ASSUME NEW t \in Task, DecideRow(t) PROVE TypeOK' /\ ATypeOK'
    <2> DEFINE new == [op |-> DecideOperation(t), worker |-> WorkerFor(t)]
    <2>1. UNCHANGED vars
      BY <1>2 DEF DecideRow
    <2>2. TypeOK'
      BY <2>1, NextType
    <2>3. new \in [op : OperationType, worker : {"idle", "request", "refuse"}] /\ new.worker # "idle"
      BY DecisionType, WorkerType
    <2>4. decided' = [decided EXCEPT ![t] = new]
      BY <1>2 DEF DecideRow
    <2> HIDE DEF new
    <2>5. ATypeOK'
      BY <1>2, <2>3, <2>4 DEF DecideRow, ATypeOK
    <2>6. QED
      BY <2>2, <2>5
  <1>3. ASSUME NEW t \in Task, MarkDecided(t) PROVE TypeOK' /\ ATypeOK'
    <2>1. /\ decided[t].op \in OperationType /\ decided[t].worker \in {"request", "refuse"}
          /\ MarkRunning(t, decided[t].op, decided[t].worker)
          /\ decided' = [decided EXCEPT ![t] = NoDecision]
      BY <1>3 DEF MarkDecided, ATypeOK
    <2>2. TypeOK'
      BY <2>1, MarkRunningType
    <2>3. ATypeOK'
      BY <1>3, <2>1 DEF MarkDecided, ATypeOK, NoDecision, OperationType
    <2>4. QED
      BY <2>2, <2>3
  <1>4. QED
    BY <1>1, <1>2, <1>3

\* The reads of an abort, and what it stores of Relay's answers.
LEMMA AbortReadsType ==
  ASSUME TypeOK, ATypeOK, AbortLoad \/ AbortPreflight PROVE TypeOK' /\ ATypeOK'
  <1>1. UNCHANGED vars
    BY DEF AbortLoad, AbortPreflight
  <1>2. TypeOK'
    BY <1>1, NextType
  <1>3. ATypeOK'
    BY DEF AbortLoad, AbortPreflight, ATypeOK, NoAbort, Unfinished, Existing
  <1>4. QED
    BY <1>2, <1>3

\* The abort before the expansion fails the client task or leaves it alone.
LEMMA AbortUnexpandedType ==
  ASSUME TypeOK, ATypeOK, AbortUnexpanded PROVE TypeOK' /\ ATypeOK'
  <1>1. /\ clientStatus' \in {"running", "success", "failed"} /\ failedCount' \in Nat
        /\ creatorCancelled' \in BOOLEAN
    <2>1. \/ clientStatus' = "failed" /\ failedCount' = 0 /\ creatorCancelled' = TRUE
          \/ UNCHANGED <<clientStatus, failedCount, creatorCancelled>>
      BY DEF AbortUnexpanded, clientVars
    <2>2. creatorCancelled' \in BOOLEAN
      BY <2>1 DEF ATypeOK
    <2>3. clientStatus' \in {"running", "success", "failed"} /\ failedCount' \in Nat
      BY <2>1 DEF TypeOK
    <2>4. QED
      BY <2>2, <2>3
  <1>2. TypeOK'
    BY <1>1 DEF AbortUnexpanded, TypeOK, RelayTypeOK, rowVars, opVars, envVars, relayVars
  <1>3. ATypeOK'
    BY <1>1 DEF AbortUnexpanded, ATypeOK, NoAbort
  <1>4. QED
    BY <1>2, <1>3

\* One item of the cancellation, as Relay answers it or loses it.
LEMMA AbortCancelType ==
  ASSUME TypeOK, ATypeOK, AbortLost \/ \E t \in Task : AbortCancelOne(t)
  PROVE  TypeOK' /\ ATypeOK'
  <1>1. ASSUME NEW t \in Task, AbortCancelOne(t) PROVE TypeOK' /\ ATypeOK'
    <2>0. PICK out \in Outcome :
            /\ RelayCancel(t, out)
            /\ IF out = "temporary_error"
               THEN faults < MaxFaults /\ faults' = faults + 1
               ELSE UNCHANGED faults
            /\ abort' = [abort EXCEPT
                 !.todo = @ \ {t},
                 !.step = IF abort.todo = {t} THEN "commit" ELSE "cancel",
                 !.cancelled = IF Cancelled(out) THEN @ \cup {t} ELSE @]
      BY <1>1 DEF AbortCancelOne
    <2>1. RelayTypeOK' /\ faults' \in 0..MaxFaults
      <3>1. RelayTypeOK'
        BY <2>0, RelayCancelType DEF TypeOK
      <3>2. faults' \in 0..MaxFaults
        BY <2>0, EngineAssumption DEF TypeOK
      <3>3. QED
        BY <3>1, <3>2
    <2>2. ATypeOK'
      <3>1. PICK C \in SUBSET Task :
              abort' = [abort EXCEPT !.todo = @ \ {t},
                          !.step = IF abort.todo = {t} THEN "commit" ELSE "cancel",
                          !.cancelled = C]
        BY <2>0 DEF ATypeOK
      <3>2. abort' \in [step : {"idle", "unexpanded", "preflight", "cancel", "commit"},
                        rows : SUBSET Task, todo : SUBSET Task, cancelled : SUBSET Task]
        BY <3>1 DEF ATypeOK
      <3>3. QED
        BY <1>1, <3>2 DEF AbortCancelOne, ATypeOK
    <2>3. QED
      BY <1>1, <2>1, <2>2 DEF AbortCancelOne, TypeOK, rowVars, opVars, clientVars
  <1>2. CASE AbortLost
    <2>1. PICK L \in SUBSET Task :
            late' = late \cup {[task |-> t, op |-> "cancel", unit |-> Members(t)] : t \in L}
      BY <1>2 DEF AbortLost, ATypeOK
    <2>2. late' \subseteq Request
      BY <2>1 DEF TypeOK, Request, MutationOp, Members, MembersIn
    <2>3. faults' \in 0..MaxFaults
      BY <1>2, EngineAssumption DEF AbortLost, TypeOK
    <2>4. QED
      BY <1>2, <2>2, <2>3
      DEF AbortLost, TypeOK, ATypeOK, NoAbort, RelayTypeOK, rowVars, opVars, clientVars, relayVars
  <1>3. QED
    BY <1>1, <1>2

\* The commit writes the columns of the cancelled rows.
LEMMA AbortCommitType ==
  ASSUME TypeOK, ATypeOK, AbortCommit PROVE TypeOK' /\ ATypeOK'
  <1> DEFINE st == SetAll(status, abort.cancelled, "EndAborted")
             dropped == {t \in OperationsDropped : worker[t] # "idle"}
  <1>1. ATypeOK'
    BY DEF AbortCommit, ATypeOK, NoAbort, vars
  <1>2. CASE ~StillAbortable
    <2>1. UNCHANGED vars
      BY <1>2 DEF AbortCommit
    <2>2. QED
      BY <1>1, <2>1, NextType
  <1>3. CASE StillAbortable
    <2>1. OperationsDropped \subseteq Task /\ dropped \subseteq Task
      BY DEF OperationsDropped, ATypeOK
    <2>2. /\ status' = st
          /\ abortReason' = SetAll(abortReason, abort.cancelled, "CreatorCancelled")
          /\ siblingCancel' = SetAll(siblingCancel, abort.cancelled, FALSE)
          /\ op' = SetAll(op, OperationsDropped, "none")
          /\ opStatus' = SetAll(opStatus, OperationsDropped, "none")
          /\ opResult' = SetAll(opResult, OperationsDropped, NoResult)
          /\ worker' = SetAll(worker, dropped, "idle")
          /\ late' = late \cup InFlight(dropped)
          /\ (clientStatus' = "failed" /\ UNCHANGED failedCount) \/ RecalculateClientTask(st)
          /\ UNCHANGED <<relayChecked, relayFound, opUnknown, validationSubmitted, seedSaved,
                         modelFiles, mode, recheck, faults, relayVars>>
      BY <1>3 DEF AbortCommit
    <2>3. /\ status' \in [Task -> TaskStatus \cup {"absent"}]
          /\ abortReason' \in [Task -> AbortReason]
          /\ siblingCancel' \in [Task -> BOOLEAN]
      <3> HIDE DEF st, dropped
      <3>1. status' = SetAll(status, abort.cancelled, "EndAborted")
        BY <2>2 DEF st
      <3>2. QED
        BY <2>2, <3>1 DEF SetAll, TypeOK, TaskStatus, AbortReason
    <2>4. /\ op' \in [Task -> OperationType]
          /\ opStatus' \in [Task -> OperationStatus]
          /\ opResult' \in [Task -> Result]
          /\ worker' \in [Task -> {"idle", "request", "refuse"}]
      <3> HIDE DEF st, dropped
      <3>1. QED
        BY <2>2, NoResultType DEF SetAll, TypeOK, OperationType, OperationStatus
    <2>5. late' \subseteq Request
      BY <2>1, <2>2 DEF InFlight, RequestOf, Request, Members, MembersIn, TypeOK
    <2>6. clientStatus' \in {"running", "success", "failed"} /\ failedCount' \in Nat
      <3> HIDE DEF st, dropped
      <3>1. QED
        BY <2>2, RecalculateType DEF TypeOK
    <2>7. QED
      <3> HIDE DEF st, dropped
      <3>1. QED
        BY <1>1, <2>2, <2>3, <2>4, <2>5, <2>6 DEF TypeOK, RelayTypeOK, relayVars
  <1>4. QED
    BY <1>2, <1>3

\* What goes on beside the abort is a step of the engine.
LEMMA EngineNext == EngineStep => Next
  BY DEF EngineStep, Next

\* Every step of the two keeps the types of both.
LEMMA ANextType == TypeOK /\ ATypeOK /\ [ANext]_caVars => TypeOK' /\ ATypeOK'
  <1> SUFFICES ASSUME TypeOK, ATypeOK, [ANext]_caVars PROVE TypeOK' /\ ATypeOK'
    OBVIOUS
  <1>1. CASE EngineStep
    <2>1. TypeOK'
      BY <1>1, EngineNext, NextType
    <2>2. ATypeOK'
      <3>1. /\ expanding' \in BOOLEAN
            /\ abort' = NoAbort \/ abort' = abort
            /\ decided' = NoneDecided \/ decided' = decided
            /\ UNCHANGED <<creatorCancelled, repeatExpanded>>
        BY <1>1 DEF EngineStep, ATypeOK
      <3>2. QED
        BY <3>1 DEF ATypeOK, NoAbort, NoneDecided, NoDecision, OperationType
    <2>3. QED
      BY <2>1, <2>2
  <1>2. CASE UNCHANGED caVars
    <2>1. TypeOK'
      BY <1>2, NextType DEF caVars
    <2>2. QED
      BY <1>2, <2>1 DEF caVars, abortVars, ATypeOK
  <1>3. QED
    BY <1>1, <1>2, ExpandType, DecideType, AbortReadsType, AbortUnexpandedType, AbortCancelType,
       AbortCommitType
    DEF ANext

\* Whatever the creator aborts and whenever, rows and engine keep their types.
THEOREM AbortTypeCorrect == ASpec => [](TypeOK /\ ATypeOK)
  BY AInitType, ANextType, PTL DEF ASpec

-----------------------------------------------------------------------------
\* An abort leaves no orphaned operation: it drops the operations of the rows it
\* cancelled together with their workers.
LEMMA AWorkerInvStep ==
  ASSUME RecoveryMayFail = FALSE, TypeOK, ATypeOK, WorkerInv, [ANext]_caVars PROVE WorkerInv'
  <1>1. CASE EngineStep
    BY <1>1, EngineNext, WorkerInvStep
  <1>2. CASE UNCHANGED <<mode, opStatus, worker>>
    BY <1>2 DEF WorkerInv
  <1>3. CASE AbortCommit
    <2>1. \/ UNCHANGED <<mode, opStatus, worker>>
          \/ /\ opStatus' = SetAll(opStatus, abort.cancelled, "none")
             /\ worker' = SetAll(worker, {t \in abort.cancelled : worker[t] # "idle"}, "idle")
             /\ UNCHANGED mode
      BY <1>3 DEF AbortCommit, OperationsDropped, vars, opVars, envVars
    <2>2. QED
      BY <1>2, <2>1 DEF WorkerInv, SetAll
  <1>4. CASE \/ ExpandLoad \/ ExpandCommit \/ AbortLoad \/ AbortUnexpanded \/ AbortPreflight
             \/ AbortLost \/ DispatchEnds \/ UNCHANGED caVars
             \/ \E t \in Task : AbortCancelOne(t) \/ DecideRow(t)
    BY <1>2, <1>4
    DEF ExpandLoad, ExpandCommit, AbortLoad, AbortUnexpanded, AbortPreflight, AbortLost,
        AbortCancelOne, DispatchEnds, DecideRow, caVars, vars, opVars, envVars
  <1>5. ASSUME NEW t \in Task, MarkDecided(t) PROVE WorkerInv'
    BY <1>5, MarkedHasWorker DEF MarkDecided, ATypeOK
  <1>6. QED
    BY <1>1, <1>3, <1>4, <1>5 DEF ANext

\* If no statement of recover() fails, then while the main loop runs every
\* running operation has its worker, even of a row that an abort took from it.
THEOREM AbortLeavesNoOrphan ==
  ASSUME RecoveryMayFail = FALSE PROVE ASpec => []NoOrphanOperation
  <1>1. AInit => WorkerInv
    BY DEF AInit, WorkerInv
  <1>2. TypeOK /\ ATypeOK /\ WorkerInv /\ [ANext]_caVars => WorkerInv'
    BY AWorkerInvStep
  <1>3. WorkerInv => NoOrphanOperation
    BY DEF WorkerInv, NoOrphanOperation
  <1>4. QED
    BY <1>1, <1>2, <1>3, AbortTypeCorrect, PTL DEF ASpec

-----------------------------------------------------------------------------
\* An abort decides its client task as the promise says.
LEMMA AbortPromise ==
  ASSUME TypeOK, ATypeOK, PromiseInv, AbortCommit \/ AbortUnexpanded \/ ExpandCommit
  PROVE  /\ PromiseInv'
         /\ CT!Next \/ UNCHANGED <<clientStatus, {t \in Task : status[t] = "ResultDownloaded"}>>
  <1> DEFINE results == {t \in Task : status[t] = "ResultDownloaded"}
             new     == {t \in Task : status'[t] = "ResultDownloaded"}
  <1>1. CASE UNCHANGED <<status, clientStatus>>
    BY <1>1, PromiseStutters
  <1>2. CASE RecalculateClientTask(status')
    BY <1>2, RecalculateKeepsPromise
  <1>3. CASE /\ clientStatus \in {"running", "failed"} /\ clientStatus' = "failed"
             /\ \A t \in Task : status'[t] # "ResultDownloaded"
    <2>1. new = {}
      BY <1>3
    <2>2. CASE clientStatus = "running"
      <3>1. results = {}
        BY <2>2 DEF PromiseInv
      <3>2. CT!Fail
        BY <1>3, <2>1, <2>2, <3>1 DEF CT!Fail, CT!Undecided
      <3>3. QED
        BY <1>3, <3>2 DEF CT!Next, PromiseInv
    <2>3. CASE clientStatus = "failed"
      <3>1. CT!Settled
        BY <1>3, <2>3 DEF CT!Settled
      <3>2. QED
        BY <1>3, <3>1 DEF CT!Next, PromiseInv
    <2>4. QED
      BY <1>3, <2>2, <2>3
  <1>4. CASE AbortCommit
    <2> DEFINE st == SetAll(status, abort.cancelled, "EndAborted")
    <2>1. CASE ~StillAbortable
      BY <1>1, <1>4, <2>1 DEF AbortCommit, vars, clientVars
    <2>2. CASE StillAbortable
      <3>1. status' = st /\ ((clientStatus' = "failed" /\ AllStopped(st)) \/ RecalculateClientTask(st))
        BY <1>4, <2>2 DEF AbortCommit
      <3>2. RecalculateClientTask(st) => RecalculateClientTask(status')
        BY <3>1
      <3>3. AllStopped(st) => \A t \in Task : status'[t] # "ResultDownloaded"
        BY <3>1 DEF AllStopped, Existing
      <3>4. clientStatus \in {"running", "failed"}
        BY <2>2 DEF StillAbortable, TypeOK
      <3>5. QED
        BY <1>2, <1>3, <3>1, <3>2, <3>3, <3>4
    <2>3. QED
      BY <2>1, <2>2
  <1>5. CASE AbortUnexpanded
    <2>1. status' = status
      BY <1>5 DEF AbortUnexpanded
    <2>2. CASE clientStatus = "running" /\ ~repeatExpanded
      BY <1>3, <1>5, <2>1, <2>2 DEF AbortUnexpanded, PromiseInv
    <2>3. CASE ~(clientStatus = "running" /\ ~repeatExpanded)
      BY <1>1, <1>5, <2>1, <2>3 DEF AbortUnexpanded, clientVars
    <2>4. QED
      BY <2>2, <2>3
  <1>6. CASE ExpandCommit
    <2>1. clientStatus' = clientStatus /\ status' = SetAll(status, Primary, "Pending")
      BY <1>6 DEF ExpandCommit, clientVars
    <2>2. CASE clientStatus = "running"
      <3>1. results = {} /\ new = {}
        BY <2>1, <2>2 DEF PromiseInv, SetAll
      <3>2. QED
        BY <2>1, <3>1 DEF PromiseInv
    <2>3. CASE clientStatus # "running"
      <3>1. CT!Settled
        BY <2>1, <2>3 DEF CT!Settled
      <3>2. QED
        BY <2>1, <2>3, <3>1 DEF CT!Next, PromiseInv
    <2>4. QED
      BY <2>2, <2>3
  <1>7. QED
    BY <1>4, <1>5, <1>6

\* Every step of engine and creator is a step of the promise, or changes nothing
\* of it.
LEMMA APromiseStep ==
  ASSUME TypeOK, ATypeOK, PromiseInv, [ANext]_caVars
  PROVE  /\ PromiseInv'
         /\ CT!Next \/ UNCHANGED <<clientStatus, {t \in Task : status[t] = "ResultDownloaded"}>>
  <1>1. CASE EngineStep
    BY <1>1, EngineNext, PromiseStep
  <1>2. CASE AbortCommit \/ AbortUnexpanded \/ ExpandCommit
    BY <1>2, AbortPromise
  <1>3. CASE \/ ExpandLoad \/ AbortLoad \/ AbortPreflight \/ AbortLost \/ DispatchEnds
             \/ (\E t \in Task : AbortCancelOne(t) \/ DecideRow(t) \/ MarkDecided(t))
             \/ UNCHANGED caVars
    <2>1. UNCHANGED <<status, clientStatus>>
      BY <1>3 DEF ExpandLoad, AbortLoad, AbortPreflight, AbortLost, AbortCancelOne, DispatchEnds,
                  DecideRow, MarkDecided, MarkRunning, caVars, vars, clientVars
    <2>2. QED
      BY <2>1, PromiseStutters
  <1>4. QED
    BY <1>1, <1>2, <1>3 DEF ANext

\* The engine with a creator that may abort at any time still implements the
\* promise: the client task is decided once, and an abort fails it only while
\* there is no result.
THEOREM AbortKeepsPromise == ASpec => KeepsPromise
  <1>1. AInit => PromiseInv /\ CT!Init
    BY DEF AInit, PromiseInv, CT!Init
  <1>2. TypeOK /\ ATypeOK /\ PromiseInv /\ [ANext]_caVars =>
          PromiseInv' /\ [CT!Next]_<<clientStatus, {t \in Task : status[t] = "ResultDownloaded"}>>
    BY APromiseStep
  <1>3. QED
    BY <1>1, <1>2, AbortTypeCorrect, PTL DEF ASpec, KeepsPromise, CT!Spec

-----------------------------------------------------------------------------
\* Relay has the task, and nobody has asked or will ask to validate it, unless the row
\* itself becomes ready again.
Unvalidated(t) ==
  /\ rstatus[t] \notin AfterValidation \cup {"NotFound"}
  /\ \A r \in late : r.op = "validate" => r.task # t

\* A row against Relay.
SoloRow(t) ==
  /\ status[t] # "absent" => t \in Primary
  /\ status[t] \notin {"absent", "Pending", "EndAborted"} => rstatus[t] # "NotFound"
  /\ IsReadyForValidation(status[t]) => rstatus[t] \in SettledStatus
  /\ status[t] \in {"EndInvalidated", "EndGroupRefund"} => rstatus[t] = status[t]
  /\ status[t] = "EndAborted" =>
       \/ Refused(t)
       \/ rstatus[t] = "EndAborted"
       \/ HeartbeatLimit /\ Unvalidated(t)

\* Its operation fits its status; a finished row has none but for a cancellation owed.
SoloOp(t) ==
  /\ op[t] # "none" => status[t] # "absent"
  /\ op[t] = "create" => status[t] = "Pending"
  /\ op[t] = "validate" => IsReadyForValidation(status[t])
  /\ op[t] = "result" => status[t] = "EndSuccess"
  /\ op[t] = "cancel" => siblingCancel[t]
  /\ siblingCancel[t] => status[t] = "EndAborted" /\ HeartbeatLimit
  /\ Finished(status[t]) /\ ~siblingCancel[t] => op[t] = "none"
  /\ worker[t] # "refuse"

\* A stored answer is still true when it is applied.
SoloAnswer(t) ==
  /\ Answered(t, "create") =>
       \/ opResult[t].outcome \in {"created", "already_exists"} /\ rstatus[t] # "NotFound"
       \/ opResult[t].outcome = "temporary_error"
       \/ opResult[t].outcome = "permanent_error" /\ Refused(t)
  /\ Answered(t, "validate") =>
       \/ opResult[t].outcome \in {"validated", "already_applied", "temporary_error"}
       \/ rstatus[t] = "EndAborted"
  /\ Answered(t, "sync_status") =>
       LET s == opResult[t].status IN
       /\ s = "NotFound" => status[t] = "Pending" \/ (status[t] = "EndAborted" /\ Refused(t))
       /\ s # "NotFound" => rstatus[t] # "NotFound"
       /\ s \in SettledStatus => rstatus[t] \in SettledStatus
       /\ s \in {"EndAborted", "EndInvalidated", "EndGroupRefund"} => rstatus[t] = s
       /\ s \notin SettledStatus \cup {"NotFound"} => Unvalidated(t)
       /\ status[t] = "EndAborted" => s \notin AfterValidation

\* A request on its way to validate asks for one task, which has settled.
SoloLate(r) == r.op = "validate" => r.unit = {r.task} /\ rstatus[r.task] \in SettledStatus

\* Rows that are validated alone agree with Relay.
SingleInv == (\A t \in Task : SoloRow(t) /\ SoloOp(t) /\ SoloAnswer(t)) /\ \A r \in late : SoloLate(r)

\* What of this keeps the rows apart at Relay.
Apart ==
  /\ \A t \in Task : /\ status[t] # "absent" => t \in Primary
                     /\ op[t] # "none" => status[t] # "absent"
                     /\ op[t] = "validate" => rstatus[t] \in SettledStatus
                     /\ worker[t] # "refuse"
  /\ \A r \in late : SoloLate(r)

\* The client task says what its rows say now: it runs while one of them does.
ClientInv ==
  /\ clientStatus = "running" =>
       /\ \A t \in Task : status[t] # "ResultDownloaded"
       /\ Existing(status) # {} => \E t \in Existing(status) : ~Finished(status[t])
  /\ clientStatus = "success" => \E t \in Task : status[t] = "ResultDownloaded"
  /\ clientStatus = "failed" =>
       \A t \in Existing(status) : Finished(status[t]) /\ status[t] # "ResultDownloaded"

-----------------------------------------------------------------------------
\* One step of the task of row t at Relay, which forgets nothing: a validation needs
\* its request.
TaskMoves(t) ==
  \/ rstatus'[t] = rstatus[t]
  \/ /\ rstatus[t] \in {"Queued", "Started", "ParametersUploaded"}
     /\ rstatus'[t] \in {"Started", "ParametersUploaded", "ScoreReady", "ErrorReported", "EndAborted"}
  \/ rstatus[t] = "NotFound" /\ t \notin Rejected /\ rstatus'[t] = "Queued"
  \/ RelayReady(t) /\ rstatus'[t] = "EndAborted"
  \/ /\ rstatus[t] \in {"Validated", "GroupValidated"}
     /\ rstatus'[t] \in {"EndSuccess", "EndGroupSuccess", "EndAborted"}
  \/ /\ RelayReady(t)
     /\ rstatus'[t] \in {"Validated", "GroupValidated", "EndGroupRefund", "EndInvalidated"}
     /\ op[t] = "validate" \/ \E r \in late : r.op = "validate" /\ r.task = t

\* No request to validate row t appears that its own operation did not send.
NoNewRequest(t) ==
  \A r \in late' : r.op = "validate" /\ r.task = t => r \in late \/ op[t] = "validate"

\* A row that no VRF selects is alone: it has no siblings, and is its own members.
LEMMA SoloMembers ==
  ASSUME NEW st, \A u \in Task : st[u] # "absent" => u \in Primary, NEW t \in Task
  PROVE  /\ st[t] # "absent" => MembersIn(st, t) = {t}
         /\ SiblingsToCancel(st, t) = {}
  <1>1. TaskID[t] \in Groups /\ t \in GroupRows(TaskID[t])
    BY DEF Groups, GroupRows
  <1>2. IsFiniteSet(GroupRows(TaskID[t]) \cap Primary)
    BY FS_Subset, RelayAssumption DEF GroupRows
  <1>3. PICK x : GroupRows(TaskID[t]) \cap Primary = {x}
    BY <1>1, <1>2, FS_Singleton, EngineAssumption
  <1>4. MembersIn(st, t) \subseteq {x}
    BY <1>3 DEF MembersIn, GroupRows
  <1>5. MembersIn(st, t) = {} \/ MembersIn(st, t) = {x}
    BY <1>4
  <1>6. Cardinality(MembersIn(st, t)) # 3
    <2>1. Cardinality({}) = 0 /\ Cardinality({x}) = 1
      BY FS_EmptySet, FS_Singleton
    <2>2. QED
      BY <1>5, <2>1
  <1>7. st[t] # "absent" => t \in MembersIn(st, t)
    BY DEF MembersIn
  <1>8. QED
    BY <1>5, <1>6, <1>7 DEF SiblingsToCancel

\* What holds of a task at Relay holds after its next step.
LEMMA SoloRelayKeeps ==
  ASSUME NEW t \in Task, TaskMoves(t), NoNewRequest(t)
  PROVE  /\ rstatus[t] # "NotFound" => rstatus'[t] # "NotFound"
         /\ rstatus[t] \in SettledStatus => rstatus'[t] \in SettledStatus
         /\ rstatus[t] \in {"EndAborted", "EndInvalidated", "EndGroupRefund"} => rstatus'[t] = rstatus[t]
         /\ Refused(t) => Refused(t)'
         /\ Unvalidated(t) /\ op[t] # "validate" => Unvalidated(t)'
  <1>1. Unvalidated(t) /\ op[t] # "validate" => Unvalidated(t)'
    BY DEF TaskMoves, NoNewRequest, Unvalidated, AfterValidation, RelayReady
  <1>2. QED
    BY <1>1 DEF TaskMoves, SettledStatus, AfterValidation, RelayReady, Refused

\* A row that is left alone still agrees with its task.
LEMMA SoloRowKept ==
  ASSUME NEW t \in Task, TaskMoves(t), NoNewRequest(t), SoloRow(t), SoloOp(t),
         status'[t] = status[t], siblingCancel'[t] = siblingCancel[t]
  PROVE  SoloRow(t)'
  <1>1. op[t] = "validate" => status[t] # "EndAborted"
    BY DEF SoloOp, IsReadyForValidation
  <1>2. status[t] = "EndAborted" =>
          \/ Refused(t)'
          \/ rstatus'[t] = "EndAborted"
          \/ HeartbeatLimit /\ Unvalidated(t)'
    <2> SUFFICES ASSUME status[t] = "EndAborted", ~Refused(t), rstatus[t] # "EndAborted"
                 PROVE  HeartbeatLimit /\ Unvalidated(t)'
      BY SoloRelayKeeps
    <2>1. HeartbeatLimit /\ Unvalidated(t)
      BY DEF SoloRow
    <2>2. QED
      BY <1>1, <2>1, SoloRelayKeeps
  <1>3. SoloRow(t)' <=>
          /\ status'[t] # "absent" => t \in Primary
          /\ status'[t] \notin {"absent", "Pending", "EndAborted"} => rstatus'[t] # "NotFound"
          /\ IsReadyForValidation(status'[t]) => rstatus'[t] \in SettledStatus
          /\ status'[t] \in {"EndInvalidated", "EndGroupRefund"} => rstatus'[t] = status'[t]
          /\ status'[t] = "EndAborted" =>
               \/ Refused(t)'
               \/ rstatus'[t] = "EndAborted"
               \/ HeartbeatLimit /\ Unvalidated(t)'
    BY DEF SoloRow
  <1>4. QED
    BY <1>2, <1>3, SoloRelayKeeps DEF SoloRow

\* So does an answer that was stored before.
LEMMA SoloAnswerKept ==
  ASSUME NEW t \in Task, TaskMoves(t), NoNewRequest(t), SoloRow(t), SoloOp(t), SoloAnswer(t),
         status'[t] = status[t],
         opStatus'[t] = "completed" =>
           opStatus[t] = "completed" /\ op'[t] = op[t] /\ opResult'[t] = opResult[t]
  PROVE  SoloAnswer(t)'
  <1>3. \A o : Answered(t, o)' => Answered(t, o) /\ opResult'[t] = opResult[t]
    BY DEF Answered
  <1>4. SoloAnswer(t)' <=>
          /\ Answered(t, "create")' =>
               \/ opResult'[t].outcome \in {"created", "already_exists"} /\ rstatus'[t] # "NotFound"
               \/ opResult'[t].outcome = "temporary_error"
               \/ opResult'[t].outcome = "permanent_error" /\ Refused(t)'
          /\ Answered(t, "validate")' =>
               \/ opResult'[t].outcome \in {"validated", "already_applied", "temporary_error"}
               \/ rstatus'[t] = "EndAborted"
          /\ Answered(t, "sync_status")' =>
               LET s == opResult'[t].status IN
               /\ s = "NotFound" => status'[t] = "Pending" \/ (status'[t] = "EndAborted" /\ Refused(t)')
               /\ s # "NotFound" => rstatus'[t] # "NotFound"
               /\ s \in SettledStatus => rstatus'[t] \in SettledStatus
               /\ s \in {"EndAborted", "EndInvalidated", "EndGroupRefund"} => rstatus'[t] = s
               /\ s \notin SettledStatus \cup {"NotFound"} => Unvalidated(t)'
               /\ status'[t] = "EndAborted" => s \notin AfterValidation
    BY DEF SoloAnswer
  <1>5. Answered(t, "sync_status") => op[t] # "validate"
    BY DEF Answered
  <1>6. CASE Answered(t, "sync_status")
    <2>1. ~Answered(t, "create")' /\ ~Answered(t, "validate")'
      BY <1>3, <1>6 DEF Answered
    <2>2. QED
      BY <1>3, <1>4, <1>5, <1>6, <2>1, SoloRelayKeeps DEF SoloAnswer
  <1>7. CASE ~Answered(t, "sync_status")
    BY <1>3, <1>4, <1>7, SoloRelayKeeps DEF SoloAnswer
  <1>8. QED
    BY <1>6, <1>7

\* Whoever asks Relay to validate asks for one row.
LEMMA SoloActs ==
  ASSUME RelayTypeOK, NEW u \in Task,
         \/ UNCHANGED relayVars
         \/ RelayProgress(u)
         \/ \E out \in Outcome : RelayCreate(u, out) \/ RelayCancel(u, out)
         \/ /\ \E out \in Outcome : RelayValidate({u}, out)
            /\ op[u] = "validate" \/ \E r \in late : r.op = "validate" /\ r.task = u,
         NEW t \in Task
  PROVE  TaskMoves(t)
  <1>1. CASE UNCHANGED relayVars
    BY <1>1 DEF relayVars, TaskMoves
  <1>2. CASE RelayProgress(u) \/ \E out \in Outcome : RelayCreate(u, out) \/ RelayCancel(u, out)
    BY <1>2, SingleEffect DEF TaskMoves
  <1>3. CASE /\ \E out \in Outcome : RelayValidate({u}, out)
             /\ op[u] = "validate" \/ \E r \in late : r.op = "validate" /\ r.task = u
    <2>1. CASE UNCHANGED relayVars
      BY <2>1 DEF relayVars, TaskMoves
    <2>2. CASE ValidateUnit({u})
      <3>1. \/ rstatus'[t] = rstatus[t]
            \/ /\ t = u /\ RelayReady(t)
               /\ rstatus'[t] \in {"Validated", "GroupValidated", "EndGroupRefund",
                                   "EndInvalidated", "EndAborted"}
        BY <2>2, ValidateEffect
      <3>2. QED
        BY <1>3, <3>1 DEF TaskMoves
    <2>3. QED
      BY <1>3, <2>1, <2>2 DEF RelayValidate
  <1>4. QED
    BY <1>1, <1>2, <1>3

LEMMA SinglesAreApart == SingleInv => Apart
  BY DEF SingleInv, SoloRow, SoloOp, Apart

\* What the engine and Relay do to tasks.
LEMMA SoloMoves ==
  ASSUME RelayMayForget = FALSE, TypeOK, Apart, [Next]_vars, NEW t \in Task
  PROVE  TaskMoves(t)
  <1>t. RelayTypeOK
    BY DEF TypeOK
  <1>u. UNCHANGED relayVars => TaskMoves(t)
    BY DEF relayVars, TaskMoves
  <1>1. ASSUME NEW u \in Task, Answer(u) PROVE TaskMoves(t)
    <2>1. status[u] # "absent" => Members(u) = {u}
      BY SoloMembers DEF Apart, Members
    <2>2. CASE AnswerValidate(u)
      <3>1. op[u] = "validate" /\ Members(u) = {u} /\ worker[u] # "refuse"
        BY <2>1, <2>2 DEF AnswerValidate, Working, Apart
      <3>2. \E out \in Outcome : RelayValidate({u}, out)
        BY <2>2, <3>1 DEF AnswerValidate
      <3>3. QED
        BY <1>t, <3>1, <3>2, SoloActs
    <2>3. CASE AnswerCreate(u) \/ AnswerCancel(u)
      <3>1. \E out \in Outcome : RelayCreate(u, out) \/ RelayCancel(u, out)
        BY <2>3 DEF AnswerCreate, AnswerCancel
      <3>2. QED
        BY <1>t, <3>1, SoloActs
    <2>4. CASE AnswerStatus(u) \/ AnswerResult(u)
      BY <1>u, <2>4 DEF AnswerStatus, AnswerResult
    <2>5. QED
      BY <1>1, <2>2, <2>3, <2>4 DEF Answer
  <1>2. ASSUME NEW u \in Task, RelayMoves(u) \/ RelayLoses(u) PROVE TaskMoves(t)
    <2>1. RelayProgress(u)
      BY <1>2 DEF RelayMoves, RelayLoses
    <2>2. QED
      BY <1>t, <2>1, SoloActs
  <1>3. ASSUME NEW r \in late, LateRequest(r) PROVE TaskMoves(t)
    <2>1. r.task \in Task /\ r.op \in {"create", "validate", "cancel"}
      BY DEF TypeOK, Request, MutationOp
    <2>2. \/ r.op = "create" /\ \E out \in Outcome : RelayCreate(r.task, out)
          \/ r.op = "validate" /\ \E out \in Outcome : RelayValidate(r.unit, out)
          \/ r.op = "cancel" /\ \E out \in Outcome : RelayCancel(r.task, out)
      BY <1>3, <2>1 DEF LateRequest
    <2>3. r.op = "validate" => r.unit = {r.task}
      BY DEF Apart, SoloLate
    <2>4. QED
      BY <1>t, <2>1, <2>2, <2>3, SoloActs
  <1>4. ASSUME NEW u \in Task, Dispatch(u) \/ WorkerFails(u) \/ Apply(u) PROVE UNCHANGED relayVars
    BY <1>4
    DEF Dispatch, MarkRunning, WorkerFails, Apply, ApplyFailed, ApplyStatusNotFound, ApplyStatusKeepsAbort,
        ApplyStatusTimedOut, ApplyStatus, ApplyCreate, ApplyValidate, ApplyCancel, ApplyDownload,
        ApplyTail
  <1>5. CASE Crash \/ Recover \/ RecoveryFails \/ UNCHANGED vars
    BY <1>u, <1>5 DEF Crash, Recover, RecoverOperations, RecoverGroup, RecoverClientTask,
                      RecoveryFails, vars
  <1>6. QED
    BY <1>u, <1>1, <1>2, <1>3, <1>4, <1>5 DEF Next, Beside

-----------------------------------------------------------------------------
\* What a step leaves of a row that it is not about.
Left(u) ==
  /\ status'[u] = status[u] /\ siblingCancel'[u] = siblingCancel[u]
  /\ op'[u] \in {op[u], "none"}
  /\ worker'[u] \in {worker[u], "idle"}
  /\ opStatus'[u] = "completed" =>
       opStatus[u] = "completed" /\ op'[u] = op[u] /\ opResult'[u] = opResult[u]

\* Such a row still agrees with its task.
LEMMA SoloLeft ==
  ASSUME SingleInv, NEW u \in Task, TaskMoves(u), NoNewRequest(u), Left(u)
  PROVE  SoloRow(u)' /\ SoloOp(u)' /\ SoloAnswer(u)'
  <1>1. SoloRow(u) /\ SoloOp(u) /\ SoloAnswer(u)
    BY DEF SingleInv
  <1>2. SoloRow(u)'
    BY <1>1, SoloRowKept DEF Left
  <1>3. SoloAnswer(u)'
    BY <1>1, SoloAnswerKept DEF Left
  <1>4. SoloOp(u)'
    BY <1>1 DEF Left, SoloOp
  <1>5. QED
    BY <1>2, <1>3, <1>4

\* Only workers that end by a failure or a crash leave requests behind.
LEMMA SoloRequests ==
  ASSUME TypeOK, Apart, NEW S \in SUBSET Task, NEW r \in InFlight(S), r.op = "validate"
  PROVE  op[r.task] = "validate" /\ SoloLate(r)
  <1>1. PICK t \in S : r = RequestOf(t)
    BY DEF InFlight
  <1>2. r.task = t /\ r.op = op[t] /\ r.unit = Members(t)
    BY <1>1 DEF RequestOf
  <1>3. rstatus[t] \in SettledStatus /\ status[t] # "absent"
    BY <1>2 DEF Apart
  <1>4. Members(t) = {t}
    BY <1>3, SoloMembers DEF Apart, Members
  <1>5. QED
    BY <1>2, <1>3, <1>4 DEF SoloLate

\* Requests on their way stay requests for one settled task.
LEMMA SoloLateStep ==
  ASSUME RelayMayForget = FALSE, TypeOK, Apart, [Next]_vars
  PROVE  (\A r \in late' : SoloLate(r)') /\ \A t \in Task : NoNewRequest(t)
  <1>1. PICK S \in SUBSET Task : late' \subseteq late \cup InFlight(S)
    <2>1. ASSUME NEW t \in Task, Dispatch(t) \/ Answer(t) \/ Apply(t) \/ RelayMoves(t) \/ RelayLoses(t)
          PROVE late' = late
      BY <2>1
      DEF Dispatch, MarkRunning, Answer, AnswerStatus, AnswerCreate, AnswerValidate, AnswerCancel, AnswerResult,
          WriteOutcome, WriteCompleted, RelayMoves, RelayLoses, envVars, Apply, ApplyFailed,
          ApplyStatusNotFound, ApplyStatusKeepsAbort, ApplyStatusTimedOut, ApplyStatus, ApplyCreate,
          ApplyValidate, ApplyCancel, ApplyDownload, ApplyTail
    <2>2. ASSUME NEW t \in Task, WorkerFails(t) PROVE late' \subseteq late \cup InFlight({t})
      BY <2>2 DEF WorkerFails
    <2>3. CASE Crash
      BY <2>3 DEF Crash
    <2>4. CASE Recover \/ RecoveryFails \/ (\E r \in late : LateRequest(r)) \/ UNCHANGED vars
      BY <2>4 DEF Recover, RecoverOperations, RecoverGroup, RecoverClientTask, RecoveryFails,
                  LateRequest, vars, envVars
    <2>5. QED
      BY <2>1, <2>2, <2>3, <2>4 DEF Next, Beside
  <1>2. ASSUME NEW r \in late', r.op = "validate"
        PROVE r \in late \/ op[r.task] = "validate"
    BY <1>1, <1>2, SoloRequests
  <1>3. \A t \in Task : NoNewRequest(t)
    BY <1>2 DEF NoNewRequest
  <1>4. ASSUME NEW r \in late', r.op = "validate" PROVE SoloLate(r)'
    <2>1. SoloLate(r) /\ r.task \in Task
      <3>1. InFlight(S) \subseteq Request
        BY DEF InFlight, RequestOf, Request, Members, MembersIn
      <3>2. QED
        BY <1>1, <1>4, <3>1, SoloRequests DEF Apart, TypeOK, Request
    <2>2. TaskMoves(r.task) /\ NoNewRequest(r.task)
      BY <1>3, <2>1, SoloMoves
    <2>3. QED
      BY <1>4, <2>1, <2>2, SoloRelayKeeps DEF SoloLate
  <1>5. QED
    BY <1>3, <1>4 DEF SoloLate

\* Every step is about one row at most: it dispatches for it, stores its answer or
\* applies one.
LEMMA SoloAbout ==
  ASSUME TypeOK, [Next]_vars, NEW u \in Task
  PROVE  Left(u) \/ Dispatch(u) \/ Answer(u) \/ \E t \in Task : Apply(t)
  <1>1. ASSUME NEW t \in Task, Dispatch(t) \/ WorkerFails(t) PROVE Left(u) \/ Dispatch(u)
    BY <1>1 DEF Dispatch, MarkRunning, WorkerFails, Left, TypeOK
  <1>2. ASSUME NEW t \in Task, Answer(t) PROVE Left(u) \/ Answer(u)
    <2>1. PICK r : WriteCompleted(t, r)
      BY <1>2 DEF Answer, AnswerStatus, AnswerCreate, AnswerValidate, AnswerCancel, AnswerResult,
                  WriteOutcome
    <2>2. QED
      BY <1>2, <2>1 DEF WriteCompleted, Left, TypeOK
  <1>3. CASE RecoverOperations
    BY <1>3 DEF RecoverOperations, SetAll, Interrupted, Left, TypeOK
  <1>4. CASE Crash
    BY <1>4 DEF Crash, Left, opVars, TypeOK
  <1>5. CASE \/ \E g \in Groups : RecoverGroup(g)
             \/ RecoverClientTask \/ RecoveryFails \/ UNCHANGED vars
             \/ \E t \in Task : RelayMoves(t) \/ RelayLoses(t)
             \/ \E r \in late : LateRequest(r)
    <2>1. UNCHANGED <<status, siblingCancel, opVars, worker>>
      BY <1>5 DEF RecoverGroup, RecoverClientTask, RecoveryFails, RelayMoves, RelayLoses, LateRequest,
                  vars, envVars
    <2>2. QED
      BY <2>1 DEF Left, opVars
  <1>6. QED
    BY <1>1, <1>2, <1>3, <1>4, <1>5 DEF Next, Beside, Recover

\* An operation is dispatched only where the row calls for it.
LEMMA SoloDispatch ==
  ASSUME RelayMayForget = FALSE, TypeOK, SingleInv, [Next]_vars, NEW t \in Task, Dispatch(t)
  PROVE  SoloRow(t)' /\ SoloOp(t)' /\ SoloAnswer(t)'
  <1>1. SoloRow(t) /\ SoloOp(t) /\ TaskMoves(t) /\ NoNewRequest(t)
    BY SoloMoves, SoloLateStep, SinglesAreApart DEF SingleInv
  <1>2. /\ LoadedAsDue(t) /\ DecideOperation(t) # "none"
        /\ op'[t] = DecideOperation(t) /\ opStatus'[t] = "running"
        /\ status' = status /\ siblingCancel' = siblingCancel
        /\ worker'[t] = "refuse" => Cardinality(Members(t)) = 3
    <2>1. LoadedAsDue(t) /\ DecideOperation(t) # "none"
          /\ MarkRunning(t, DecideOperation(t), WorkerFor(t))
      BY DEF Dispatch
    <2>2. WorkerFor(t) = "refuse" => Cardinality(Members(t)) = 3
      BY DEF WorkerFor
    <2>3. QED
      BY <2>1, <2>2 DEF MarkRunning, TypeOK
  <1>3. SoloRow(t)'
    BY <1>1, <1>2, SoloRowKept
  <1>4. SoloAnswer(t)'
    BY <1>2 DEF SoloAnswer, Answered
  <1>5. status[t] # "absent"
    BY <1>2 DEF LoadedAsDue
  <1>6. worker'[t] # "refuse"
    <2>1. Members(t) = {t}
      BY <1>5, SoloMembers DEF SingleInv, SoloRow, Members
    <2>2. Cardinality({t}) = 1
      BY FS_Singleton
    <2>3. QED
      BY <1>2, <2>1, <2>2
  <1>7. Finished(status[t]) => siblingCancel[t]
    BY <1>2 DEF LoadedAsDue, Finished, FinishedStatus, TerminalStatus
  <1>8. /\ DecideOperation(t) = "create" => status[t] = "Pending"
        /\ DecideOperation(t) = "validate" => IsReadyForValidation(status[t])
        /\ DecideOperation(t) = "result" => status[t] = "EndSuccess"
        /\ DecideOperation(t) = "cancel" => siblingCancel[t]
    BY DEF DecideOperation, SubmitsValidation
  <1>9. SoloOp(t)'
    BY <1>1, <1>2, <1>5, <1>6, <1>7, <1>8 DEF SoloOp
  <1>10. QED
    BY <1>3, <1>4, <1>9

\* What a worker stores is true when it stores it.
LEMMA SoloAnswered ==
  ASSUME RelayMayForget = FALSE, TypeOK, SingleInv, [Next]_vars, NEW t \in Task, Answer(t)
  PROVE  SoloRow(t)' /\ SoloOp(t)' /\ SoloAnswer(t)'
  <1>1. SoloRow(t) /\ SoloOp(t) /\ TaskMoves(t) /\ NoNewRequest(t)
    BY SoloMoves, SoloLateStep, SinglesAreApart DEF SingleInv
  <1>2. /\ op' = op /\ status' = status /\ siblingCancel' = siblingCancel /\ worker'[t] = "idle"
        /\ late' = late
    BY DEF Answer, AnswerStatus, AnswerCreate, AnswerValidate, AnswerCancel, AnswerResult,
           WriteOutcome, WriteCompleted, TypeOK
  <1>3. SoloRow(t)' /\ SoloOp(t)'
    <2>1. SoloRow(t)'
      BY <1>1, <1>2, SoloRowKept
    <2>2. QED
      BY <1>1, <1>2, <2>1 DEF SoloOp
  <1>a. ASSUME NEW out, WriteOutcome(t, out) PROVE opResult'[t].outcome = out
    <2>1. opResult'[t] = [NoResult EXCEPT !.outcome = out]
      BY <1>a DEF WriteOutcome, WriteCompleted, TypeOK
    <2>2. QED
      BY <2>1 DEF NoResult
  <1>4. CASE AnswerStatus(t)
    <2>1. /\ op[t] = "sync_status" /\ opResult'[t].status = rstatus[t] /\ rstatus' = rstatus
      BY <1>4 DEF AnswerStatus, Working, WriteCompleted, relayVars, TypeOK
    <2>2. rstatus[t] = "NotFound" => status[t] = "Pending" \/ (status[t] = "EndAborted" /\ Refused(t)')
      BY <1>1, <2>1 DEF SoloRow, SoloOp, Refused, Unvalidated
    <2>3. rstatus[t] \notin SettledStatus \cup {"NotFound"} => Unvalidated(t)'
      <3>1. \A r \in late : r.op = "validate" /\ r.task = t => rstatus[t] \in SettledStatus
        BY DEF SingleInv, SoloLate
      <3>2. QED
        BY <1>2, <2>1, <3>1 DEF Unvalidated, SettledStatus
    <2>4. status[t] = "EndAborted" => rstatus[t] \notin AfterValidation
      BY <1>1 DEF SoloRow, Refused, Unvalidated, AfterValidation
    <2>5. QED
      BY <1>2, <1>3, <2>1, <2>2, <2>3, <2>4 DEF SoloAnswer, Answered
  <1>5. CASE AnswerCreate(t)
    <2>1. PICK out \in Outcome : RelayCreate(t, out) /\ WriteOutcome(t, out)
      BY <1>5 DEF AnswerCreate
    <2>2. op[t] = "create" /\ opResult'[t].outcome = out
      BY <1>5, <1>a, <2>1 DEF AnswerCreate, Working
    <2>3. \/ out \in {"created", "already_exists"} /\ rstatus'[t] # "NotFound"
          \/ out = "temporary_error"
          \/ out = "permanent_error" /\ Refused(t)'
      BY <2>1 DEF RelayCreate, Refused, relayVars, TypeOK, RelayTypeOK
    <2>4. QED
      BY <1>2, <1>3, <2>2, <2>3 DEF SoloAnswer, Answered
  <1>6. CASE AnswerValidate(t)
    <2>1. op[t] = "validate" /\ Members(t) = {t} /\ worker[t] # "refuse"
      BY <1>1, <1>6, SoloMembers DEF AnswerValidate, Working, SingleInv, SoloRow, SoloOp, Members
    <2>2. PICK out \in Outcome : RelayValidate({t}, out) /\ WriteOutcome(t, out)
      BY <1>6, <2>1 DEF AnswerValidate
    <2>3. rstatus[t] \in SettledStatus
      BY <1>1, <2>1 DEF SoloRow, SoloOp
    <2>4. \/ out \in {"validated", "already_applied", "temporary_error"}
          \/ rstatus'[t] = "EndAborted"
      BY <2>2, <2>3 DEF RelayValidate, Validatable, AlreadyValidated, RelayReady, SettledStatus,
                        relayVars
    <2>5. QED
      BY <1>2, <1>3, <1>a, <2>1, <2>2, <2>4 DEF SoloAnswer, Answered
  <1>7. CASE AnswerCancel(t)
    <2>1. op[t] = "cancel"
      BY <1>7 DEF AnswerCancel, Working
    <2>2. QED
      BY <1>2, <1>3, <2>1 DEF SoloAnswer, Answered
  <1>8. CASE AnswerResult(t)
    <2>1. op[t] = "result"
      BY <1>8 DEF AnswerResult, Working
    <2>2. QED
      BY <1>2, <1>3, <2>1 DEF SoloAnswer, Answered
  <1>9. QED
    BY <1>4, <1>5, <1>6, <1>7, <1>8 DEF Answer

\* Applying a stored answer of row t touches no other row, and of row t what its kind says.
LEMMA SoloApply ==
  ASSUME VSSGroups = {}, TypeOK, SingleInv, NEW t \in Task, Apply(t)
  PROVE  /\ \A u \in Task : u # t => Left(u)
         /\ op'[t] = "none" /\ opStatus'[t] = "none" /\ worker'[t] = worker[t]
         /\ status'[t] = "absent" => status[t] = "absent"
         /\ SoloRow(t)'
         /\ siblingCancel'[t] => status'[t] = "EndAborted" /\ HeartbeatLimit
         /\ Finished(status[t]) => status'[t] = status[t]
  <1> DEFINE s     == opResult[t].status
             local == RelayStatusToLocal(s)
             Goal  == /\ \A u \in Task : u # t => Left(u)
                      /\ op'[t] = "none" /\ opStatus'[t] = "none" /\ worker'[t] = worker[t]
                      /\ status'[t] = "absent" => status[t] = "absent"
                      /\ SoloRow(t)'
                      /\ siblingCancel'[t] => status'[t] = "EndAborted" /\ HeartbeatLimit
                      /\ Finished(status[t]) => status'[t] = status[t]
             Outcome1(st, sib) ==
               /\ st \in TaskStatus \cup {"absent"}
               /\ st = "absent" => status[t] = "absent"
               /\ st # "absent" => t \in Primary
               /\ st \notin {"absent", "Pending", "EndAborted"} => rstatus[t] # "NotFound"
               /\ IsReadyForValidation(st) => rstatus[t] \in SettledStatus
               /\ st \in {"EndInvalidated", "EndGroupRefund"} => rstatus[t] = st
               /\ st = "EndAborted" =>
                    \/ Refused(t)
                    \/ rstatus[t] = "EndAborted"
                    \/ HeartbeatLimit /\ Unvalidated(t)
               /\ sib => st = "EndAborted" /\ HeartbeatLimit
               /\ Finished(status[t]) => st = status[t]
  <1>i. SoloRow(t) /\ SoloOp(t) /\ SoloAnswer(t)
    BY DEF SingleInv
  <1>m. status[t] # "absent" => Members(t) = {t}
    BY SoloMembers DEF SingleInv, SoloRow, Members
  <1>a. ASSUME NEW st, NEW sib, st \in TaskStatus \cup {"absent"}, Outcome1(st, sib), sib \in BOOLEAN,
               ApplyTail(t, [status EXCEPT ![t] = st], [siblingCancel EXCEPT ![t] = sib])
        PROVE  Goal
    <2> DEFINE ST == [status EXCEPT ![t] = st]
    <2>1. \A u \in Task : ST[u] # "absent" => u \in Primary
      BY <1>a DEF SingleInv, SoloRow, TypeOK
    <2>2. SiblingsToCancel(ST, t) = {}
      BY <2>1, SoloMembers
    <2>3. /\ status' = ST /\ siblingCancel' = [siblingCancel EXCEPT ![t] = sib]
          /\ op' = [op EXCEPT ![t] = "none"] /\ opStatus' = [opStatus EXCEPT ![t] = "none"]
          /\ opResult' = [opResult EXCEPT ![t] = NoResult]
          /\ worker' = worker /\ late' = late /\ rstatus' = rstatus
      BY <1>a, <2>2 DEF ApplyTail, SetAll, TypeOK, envVars, relayVars
    <2>4. status'[t] = st /\ siblingCancel'[t] = sib
      BY <2>3 DEF TypeOK
    <2>5. SoloRow(t)'
      BY <1>a, <2>3, <2>4 DEF SoloRow, Refused, Unvalidated
    <2>6. \A u \in Task : u # t => Left(u)
      BY <2>3 DEF Left, TypeOK
    <2>7. op'[t] = "none" /\ opStatus'[t] = "none" /\ worker'[t] = worker[t]
      BY <2>3 DEF TypeOK
    <2>8. QED
      BY <1>a, <2>4, <2>5, <2>6, <2>7
  <1>s. /\ status = [status EXCEPT ![t] = status[t]]
        /\ siblingCancel = [siblingCancel EXCEPT ![t] = siblingCancel[t]]
        /\ status[t] \in TaskStatus \cup {"absent"} /\ siblingCancel[t] \in BOOLEAN
    BY DEF TypeOK
  <1>o. Outcome1(status[t], siblingCancel[t])
    BY <1>i, <1>s DEF SoloRow, SoloOp
  <1>f. Finished(status[t]) /\ op[t] # "none" => siblingCancel[t] /\ status[t] = "EndAborted"
    BY <1>i DEF SoloOp
  <1>1. CASE ApplyFailed(t)
    <2>1. /\ status' = status /\ siblingCancel' = siblingCancel
          /\ op' = [op EXCEPT ![t] = "none"] /\ opStatus' = [opStatus EXCEPT ![t] = "none"]
          /\ opResult' = [opResult EXCEPT ![t] = NoResult]
          /\ worker' = worker /\ late' = late /\ rstatus' = rstatus
      BY <1>1 DEF ApplyFailed, envVars, relayVars
    <2>2. SoloRow(t)'
      BY <1>i, <2>1 DEF SoloRow, Refused, Unvalidated
    <2>3. \A u \in Task : u # t => Left(u)
      BY <2>1 DEF Left, TypeOK
    <2>4. QED
      BY <1>i, <2>1, <2>2, <2>3 DEF SoloOp, TypeOK
  <1>2. CASE ApplyStatusNotFound(t)
    <2>1. Answered(t, "sync_status") /\ s = "NotFound"
      BY <1>2 DEF ApplyStatusNotFound, Applicable, Answered
    <2>2. status[t] = "Pending" \/ (status[t] = "EndAborted" /\ Refused(t))
      BY <1>i, <2>1 DEF SoloAnswer
    <2>3. /\ [status EXCEPT ![t] = "EndAborted"] = [status EXCEPT ![t] = status[t]]
          \/ status[t] = "Pending"
      BY <2>2
    <2>4. ApplyTail(t, [status EXCEPT ![t] = status[t]], [siblingCancel EXCEPT ![t] = FALSE])
      BY <1>2, <1>s, <2>3 DEF ApplyStatusNotFound
    <2>5. Outcome1(status[t], FALSE)
      BY <1>o, <2>2 DEF IsReadyForValidation
    <2>6. QED
      BY <1>a, <1>s, <2>4, <2>5
  <1>3. CASE ApplyStatusKeepsAbort(t)
    <2>1. ApplyTail(t, [status EXCEPT ![t] = status[t]], [siblingCancel EXCEPT ![t] = siblingCancel[t]])
      BY <1>3, <1>s DEF ApplyStatusKeepsAbort
    <2>2. QED
      BY <1>a, <1>o, <1>s, <2>1
  <1>4. CASE ApplyStatusTimedOut(t)
    <2>1. Answered(t, "sync_status") /\ s = "Queued" /\ HeartbeatLimit /\ ~KeepsLocalAbort(t)
      BY <1>4 DEF ApplyStatusTimedOut, Applicable, Answered
    <2>2. Unvalidated(t) /\ status[t] # "absent"
      BY <1>i, <2>1 DEF SoloAnswer, SoloOp, Answered, SettledStatus, AfterValidation
    <2>3. ~Finished(status[t])
      BY <1>f, <2>1 DEF KeepsLocalAbort, IsChainTaskTerminal, ChainTaskTerminal, Answered
    <2>4. Outcome1("EndAborted", TRUE)
      BY <1>i, <2>1, <2>2, <2>3 DEF SoloRow, TaskStatus, IsReadyForValidation
    <2>5. ApplyTail(t, [status EXCEPT ![t] = "EndAborted"], [siblingCancel EXCEPT ![t] = TRUE])
      BY <1>4 DEF ApplyStatusTimedOut
    <2>6. QED
      BY <1>a, <2>4, <2>5 DEF TaskStatus
  <1>5. CASE ApplyStatus(t)
    <2>1. Answered(t, "sync_status") /\ s # "NotFound" /\ ~KeepsLocalAbort(t) /\ s \in ChainStatus
      BY <1>5 DEF ApplyStatus, Applicable, Answered, TypeOK, Result
    <2>2. NewMembers(t) = {}
      BY DEF NewMembers
    <2>3. PICK sib \in BOOLEAN :
            /\ sib = IF local = "Created" THEN siblingCancel[t] ELSE FALSE
            /\ ApplyTail(t, [status EXCEPT ![t] = local], [siblingCancel EXCEPT ![t] = sib])
      <3>1. SetAll([status EXCEPT ![t] = local], {}, "Pending") = [status EXCEPT ![t] = local]
        BY DEF SetAll, TypeOK
      <3>2. ApplyTail(t, [status EXCEPT ![t] = local],
                      IF local = "Created" THEN siblingCancel
                      ELSE [siblingCancel EXCEPT ![t] = FALSE])
        BY <1>5, <2>2, <3>1 DEF ApplyStatus
      <3>3. QED
        BY <1>s, <3>2
    <2>4. siblingCancel[t] => IsChainTaskTerminal(s) /\ s = "EndAborted"
      <3>1. siblingCancel[t] => status[t] = "EndAborted" /\ IsChainTaskTerminal(s)
        BY <1>i, <2>1 DEF SoloOp, KeepsLocalAbort
      <3>2. status[t] = "EndAborted" => s \notin AfterValidation
        BY <1>i, <2>1 DEF SoloAnswer
      <3>3. QED
        BY <3>1, <3>2 DEF IsChainTaskTerminal, ChainTaskTerminal, AfterValidation
    <2>5. ~sib
      BY <2>3, <2>4 DEF RelayStatusToLocal
    <2>6. Finished(status[t]) => local = status[t]
      BY <1>f, <2>1, <2>4 DEF RelayStatusToLocal, Answered
    <2>7. status[t] # "absent" /\ op[t] # "none"
      BY <1>i, <2>1 DEF SoloOp, Answered
    <2>8. /\ local \in TaskStatus /\ local \notin {"absent", "Pending"}
          /\ IsReadyForValidation(local) => s \in SettledStatus
          /\ local \in {"EndAborted", "EndInvalidated", "EndGroupRefund"} => s = local
      BY <2>1, LocalStatusType, LocalInverse DEF SettledStatus
    <2>9. Outcome1(local, sib)
      BY <1>i, <2>1, <2>5, <2>6, <2>7, <2>8 DEF SoloRow, SoloAnswer
    <2>10. QED
      BY <1>a, <2>3, <2>8, <2>9
  <1>6. CASE ApplyCreate(t)
    <2>1. Answered(t, "create") /\ status[t] = "Pending" /\ ~siblingCancel[t]
      BY <1>6, <1>i DEF ApplyCreate, Applicable, Answered, SoloOp
    <2>2. CASE CreationAccepted(opResult[t].outcome)
      <3>1. ApplyTail(t, [status EXCEPT ![t] = "Created"], [siblingCancel EXCEPT ![t] = siblingCancel[t]])
        BY <1>6, <1>s, <2>2 DEF ApplyCreate
      <3>2. rstatus[t] # "NotFound"
        BY <1>i, <2>1, <2>2 DEF SoloAnswer, CreationAccepted, Refused
      <3>3. QED
        BY <1>a, <1>i, <1>s, <2>1, <3>1, <3>2
        DEF TaskStatus, IsReadyForValidation, SoloRow, Finished, FinishedStatus
    <2>3. CASE opResult[t].outcome = "temporary_error"
      <3>1. ApplyTail(t, [status EXCEPT ![t] = status[t]], [siblingCancel EXCEPT ![t] = siblingCancel[t]])
        BY <1>6, <1>s, <2>3 DEF ApplyCreate, CreationAccepted
      <3>2. QED
        BY <1>a, <1>o, <1>s, <3>1
    <2>4. CASE ~CreationAccepted(opResult[t].outcome) /\ opResult[t].outcome # "temporary_error"
      <3>1. ApplyTail(t, [status EXCEPT ![t] = "EndAborted"], [siblingCancel EXCEPT ![t] = siblingCancel[t]])
        BY <1>6, <1>s, <2>4 DEF ApplyCreate
      <3>2. Refused(t)
        BY <1>i, <2>1, <2>4 DEF SoloAnswer, CreationAccepted
      <3>3. QED
        BY <1>a, <1>i, <1>s, <2>1, <3>1, <3>2
        DEF TaskStatus, IsReadyForValidation, SoloRow, Finished, FinishedStatus
    <2>5. QED
      BY <2>2, <2>3, <2>4
  <1>7. CASE ApplyValidate(t)
    <2>1. Answered(t, "validate") /\ IsReadyForValidation(status[t]) /\ ~siblingCancel[t]
      BY <1>7, <1>i DEF ApplyValidate, Applicable, Answered, SoloOp, IsReadyForValidation
    <2>2. CASE ValidationAccepted(opResult[t].outcome) \/ opResult[t].outcome = "temporary_error"
      <3>1. ApplyTail(t, [status EXCEPT ![t] = status[t]], [siblingCancel EXCEPT ![t] = siblingCancel[t]])
        BY <1>7, <1>s, <2>2 DEF ApplyValidate
      <3>2. QED
        BY <1>a, <1>o, <1>s, <3>1
    <2>3. CASE ~ValidationAccepted(opResult[t].outcome) /\ opResult[t].outcome # "temporary_error"
      <3>1. SetAll(status, Members(t), "EndAborted") = [status EXCEPT ![t] = "EndAborted"]
        BY <1>m, <2>1 DEF SetAll, TypeOK, IsReadyForValidation
      <3>2. ApplyTail(t, [status EXCEPT ![t] = "EndAborted"], [siblingCancel EXCEPT ![t] = siblingCancel[t]])
        BY <1>7, <1>s, <2>3, <3>1 DEF ApplyValidate
      <3>3. rstatus[t] = "EndAborted"
        BY <1>i, <2>1, <2>3 DEF SoloAnswer, ValidationAccepted
      <3>4. ~Finished(status[t]) /\ status[t] # "absent"
        BY <2>1 DEF IsReadyForValidation, Finished, FinishedStatus
      <3>5. QED
        BY <1>a, <1>i, <1>s, <2>1, <3>2, <3>3, <3>4 DEF TaskStatus, IsReadyForValidation, SoloRow
    <2>4. QED
      BY <2>2, <2>3
  <1>8. CASE ApplyCancel(t)
    <2>1. Answered(t, "cancel") /\ siblingCancel[t] /\ status[t] = "EndAborted"
      BY <1>8, <1>i DEF ApplyCancel, Applicable, Answered, SoloOp
    <2>2. ApplyTail(t, [status EXCEPT ![t] = status[t]], [siblingCancel EXCEPT ![t] = FALSE])
      BY <1>8, <1>s DEF ApplyCancel
    <2>3. Outcome1(status[t], FALSE)
      BY <1>o, <2>1
    <2>4. QED
      BY <1>a, <1>s, <2>2, <2>3
  <1>9. CASE ApplyDownload(t)
    <2>1. Answered(t, "result") /\ status[t] = "EndSuccess" /\ ~siblingCancel[t]
      BY <1>9, <1>i DEF ApplyDownload, Applicable, Answered, SoloOp
    <2>2. ApplyTail(t, [status EXCEPT ![t] = "ResultDownloaded"], [siblingCancel EXCEPT ![t] = siblingCancel[t]])
      BY <1>9, <1>s DEF ApplyDownload
    <2>3. QED
      BY <1>a, <1>i, <1>s, <2>1, <2>2
      DEF TaskStatus, IsReadyForValidation, SoloRow, Finished, FinishedStatus
  <1>10. QED
    BY <1>1, <1>2, <1>3, <1>4, <1>5, <1>6, <1>7, <1>8, <1>9 DEF Apply

\* The engine keeps rows that are validated alone in agreement with their tasks.
LEMMA SoloStep ==
  ASSUME VSSGroups = {}, RelayMayForget = FALSE, TypeOK, SingleInv, [Next]_vars
  PROVE  SingleInv'
  <1>1. \A r \in late' : SoloLate(r)'
    BY SoloLateStep, SinglesAreApart
  <1>2. ASSUME NEW u \in Task PROVE SoloRow(u)' /\ SoloOp(u)' /\ SoloAnswer(u)'
    <2>1. TaskMoves(u) /\ NoNewRequest(u)
      BY SoloMoves, SoloLateStep, SinglesAreApart
    <2>2. CASE Left(u)
      BY <2>1, <2>2, SoloLeft
    <2>3. CASE Dispatch(u)
      BY <2>3, SoloDispatch
    <2>4. CASE Answer(u)
      BY <2>4, SoloAnswered
    <2>5. ASSUME NEW t \in Task, Apply(t) PROVE SoloRow(u)' /\ SoloOp(u)' /\ SoloAnswer(u)'
      <3>1. CASE u # t
        BY <2>1, <2>5, <3>1, SoloApply, SoloLeft
      <3>2. CASE u = t
        <4>1. /\ op'[u] = "none" /\ opStatus'[u] = "none" /\ worker'[u] = worker[u] /\ SoloRow(u)'
              /\ siblingCancel'[u] => status'[u] = "EndAborted" /\ HeartbeatLimit
          BY <2>5, <3>2, SoloApply
        <4>2. SoloOp(u)'
          BY <4>1 DEF SoloOp, SingleInv
        <4>3. SoloAnswer(u)'
          BY <4>1 DEF SoloAnswer, Answered
        <4>4. QED
          BY <4>1, <4>2, <4>3
      <3>3. QED
        BY <3>1, <3>2
    <2>6. QED
      BY <2>2, <2>3, <2>4, <2>5, SoloAbout
  <1>3. QED
    BY <1>1, <1>2 DEF SingleInv

\* A finished row is left as it is, and no row appears.
LEMMA SoloFrozen ==
  ASSUME VSSGroups = {}, TypeOK, SingleInv, [Next]_vars, NEW u \in Task
  PROVE  /\ Finished(status[u]) => status'[u] = status[u]
         /\ status'[u] = "absent" <=> status[u] = "absent"
  <1>1. CASE Left(u)
    BY <1>1 DEF Left
  <1>2. CASE Dispatch(u) \/ Answer(u)
    BY <1>2 DEF Dispatch, MarkRunning, Answer, AnswerStatus, AnswerCreate, AnswerValidate, AnswerCancel,
                AnswerResult, WriteOutcome, WriteCompleted
  <1>3. ASSUME NEW t \in Task, Apply(t)
        PROVE  /\ Finished(status[u]) => status'[u] = status[u]
               /\ status'[u] = "absent" <=> status[u] = "absent"
    <2>1. CASE u # t
      BY <1>3, <2>1, SoloApply DEF Left
    <2>2. CASE u = t
      <3>1. /\ Finished(status[u]) => status'[u] = status[u]
            /\ status'[u] = "absent" => status[u] = "absent"
        BY <1>3, <2>2, SoloApply
      <3>2. status[u] = "absent" => status'[u] = "absent"
        <4>1. status[u] = "absent" => ApplyFailed(t)
          BY <1>3, <2>2 DEF Apply, ApplyStatusNotFound, ApplyStatusKeepsAbort, ApplyStatusTimedOut,
                            ApplyStatus, ApplyCreate, ApplyValidate, ApplyCancel, ApplyDownload,
                            Applicable, SingleInv, SoloOp
        <4>2. QED
          BY <4>1 DEF ApplyFailed
      <3>3. QED
        BY <3>1, <3>2
    <2>3. QED
      BY <2>1, <2>2
  <1>4. QED
    BY <1>1, <1>2, <1>3, SoloAbout

\* Before the first step no task is known to Relay and no row has an operation.
LEMMA SoloInit ==
  ASSUME Init PROVE SingleInv
  <1>1. /\ \A t \in Task : /\ status[t] \in {"Pending", "absent"}
                           /\ status[t] = "Pending" => t \in Primary
                           /\ op[t] = "none" /\ opStatus[t] = "none" /\ ~siblingCancel[t]
                           /\ worker[t] = "idle"
        /\ late = {}
    BY DEF Init
  <1>2. ASSUME NEW t \in Task PROVE SoloRow(t) /\ SoloOp(t) /\ SoloAnswer(t)
    <2>1. SoloRow(t)
      BY <1>1 DEF SoloRow, IsReadyForValidation
    <2>2. SoloOp(t)
      BY <1>1 DEF SoloOp, Finished, FinishedStatus
    <2>3. SoloAnswer(t)
      BY <1>1 DEF SoloAnswer, Answered
    <2>4. QED
      BY <2>1, <2>2, <2>3
  <1>3. QED
    BY <1>1, <1>2 DEF SingleInv

\* The client task says what its rows say, as they are now.
LEMMA SoloClientStep ==
  ASSUME VSSGroups = {}, TypeOK, SingleInv, ClientInv, [Next]_vars
  PROVE  ClientInv' /\ (clientStatus # "running" => clientStatus' = clientStatus)
  <1>1. \A u \in Task : /\ Finished(status[u]) => status'[u] = status[u]
                        /\ status'[u] = "absent" <=> status[u] = "absent"
    BY SoloFrozen
  <1>2. Existing(status)' = Existing(status') /\ Existing(status') = Existing(status)
    BY <1>1 DEF Existing
  <1>3. Existing(status) \subseteq Task
    BY DEF Existing
  <1>f. Finished("ResultDownloaded")
    BY DEF Finished, FinishedStatus
  <1>4. CASE UNCHANGED <<status, clientVars>>
    BY <1>2, <1>4 DEF ClientInv, clientVars
  <1>5. CASE RecalculateClientTask(status')
    <2>1. CASE clientStatus # "running"
      <3>1. clientStatus' = clientStatus /\ clientStatus \in {"success", "failed"}
        BY <1>5, <2>1 DEF RecalculateClientTask, clientVars, TypeOK
      <3>2. CASE clientStatus = "success"
        <4>1. PICK t \in Task : status[t] = "ResultDownloaded"
          BY <3>2 DEF ClientInv
        <4>2. status'[t] = "ResultDownloaded"
          BY <1>1, <1>f, <4>1
        <4>3. QED
          BY <3>1, <3>2, <4>2 DEF ClientInv
      <3>3. CASE clientStatus = "failed"
        BY <1>1, <1>2, <1>3, <3>1, <3>3 DEF ClientInv
      <3>4. QED
        BY <3>1, <3>2, <3>3
    <2>2. CASE clientStatus = "running" /\ Existing(status) = {}
      <3>1. clientStatus' = clientStatus
        BY <1>2, <1>5, <2>2 DEF RecalculateClientTask, clientVars
      <3>2. \A t \in Task : status'[t] = "absent"
        BY <1>1, <2>2 DEF Existing
      <3>3. QED
        BY <1>2, <2>2, <3>1, <3>2 DEF ClientInv
    <2>3. CASE clientStatus = "running" /\ Existing(status) # {}
      <3>1. clientStatus' = IF \E t \in Task : status'[t] = "ResultDownloaded" THEN "success"
                            ELSE IF \A t \in Existing(status') : Finished(status'[t]) THEN "failed"
                            ELSE "running"
        BY <1>2, <1>5, <2>3 DEF RecalculateClientTask
      <3>2. QED
        BY <1>2, <1>3, <2>3, <3>1 DEF ClientInv
    <2>4. QED
      BY <2>1, <2>2, <2>3
  <1>6. QED
    BY <1>4, <1>5, ClientSteps DEF clientVars

\* Rows that are validated alone and the client task they belong to agree with Relay.
THEOREM SingleRowsAgree ==
  ASSUME VSSGroups = {}, RelayMayForget = FALSE PROVE Spec => [](TypeOK /\ SingleInv /\ ClientInv)
  <1>1. Init => ClientInv
    <2> SUFFICES ASSUME Init PROVE ClientInv
      OBVIOUS
    <2>1. clientStatus = "running" /\ \A t \in Task : status[t] \in {"Pending", "absent"}
      BY DEF Init
    <2>2. \A t \in Task : ~Finished(status[t]) /\ status[t] # "ResultDownloaded"
      BY <2>1 DEF Finished, FinishedStatus
    <2>3. QED
      BY <2>1, <2>2 DEF ClientInv, Existing
  <1>2. TypeOK /\ SingleInv /\ ClientInv /\ [Next]_vars => (TypeOK /\ SingleInv /\ ClientInv)'
    BY NextType, SoloStep, SoloClientStep
  <1>3. QED
    BY InitType, SoloInit, <1>1, <1>2, PTL DEF Spec

\* A failed client task has no row left that still runs, if its rows are validated alone:
\* no answer, however late, takes a row out of its end.
THEOREM FailedIsFinished ==
  ASSUME VSSGroups = {}, RelayMayForget = FALSE PROVE Spec => []FailedMeansFinished
  <1>1. ClientInv => FailedMeansFinished
    BY DEF ClientInv, FailedMeansFinished
  <1>2. QED
    BY SingleRowsAgree, <1>1, PTL

\* And a finished row stays finished.
THEOREM SingleRowsStay ==
  ASSUME VSSGroups = {}, RelayMayForget = FALSE PROVE Spec => FinishedStays
  <1>1. TypeOK /\ SingleInv /\ [Next]_vars =>
          [\A t \in Task : Finished(status[t]) => status'[t] \in TerminalStatus]_vars
    <2> SUFFICES ASSUME TypeOK, SingleInv, [Next]_vars, NEW t \in Task, Finished(status[t])
                 PROVE  status'[t] \in TerminalStatus
      OBVIOUS
    <2>1. status'[t] = status[t]
      BY SoloFrozen
    <2>2. QED
      BY <2>1 DEF Finished, TerminalStatus
  <1>2. QED
    BY SingleRowsAgree, <1>1, PTL DEF Spec, FinishedStays

\* When the phase says the end.
LEMMA PhaseIs ==
  ASSUME NEW cs, NEW st
  PROVE  /\ Phase(cs, st) = "success" <=> cs = "success" \/ \E t \in Task : st[t] = "ResultDownloaded"
         /\ Phase(cs, st) = "failed" <=>
              /\ ~(cs = "success" \/ \E t \in Task : st[t] = "ResultDownloaded")
              /\ \A t \in Existing(st) : Finished(st[t])
              /\ cs = "failed" \/ Existing(st) # {}
  <1> DEFINE unfinished == {PhaseFromInferenceStatus(st[t]) : t \in {u \in Existing(st) : ~Finished(st[u])}}
             leading    == {i \in DOMAIN PhaseOrder : PhaseOrder[i] \in unfinished}
             told       == cs = "success" \/ \E t \in Task : st[t] = "ResultDownloaded"
             first      == CHOOSE i \in leading : \A j \in leading : i \leq j
  <1>1. DOMAIN PhaseOrder = 1..5
    BY DEF PhaseOrder
  <1>2. \A i \in 1..5 : PhaseOrder[i] \notin {"success", "failed"}
    BY DEF PhaseOrder
  <1>3. leading # {} <=> unfinished # {}
    <2>1. \A s : \E i \in 1..5 : PhaseFromInferenceStatus(s) = PhaseOrder[i]
      <3> SUFFICES ASSUME NEW s PROVE \E i \in 1..5 : PhaseFromInferenceStatus(s) = PhaseOrder[i]
        OBVIOUS
      <3>1. PhaseFromInferenceStatus(s) \in {"running", "validating", "uploading", "finalizing", "queued"}
        BY DEF PhaseFromInferenceStatus
      <3>2. /\ PhaseOrder[1] = "finalizing" /\ PhaseOrder[2] = "uploading" /\ PhaseOrder[3] = "validating"
            /\ PhaseOrder[4] = "running" /\ PhaseOrder[5] = "queued"
        BY DEF PhaseOrder
      <3>3. QED
        BY <3>1, <3>2
    <2>2. QED
      BY <1>1, <2>1
  <1>4. leading # {} => first \in leading
    <2> SUFFICES ASSUME leading # {} PROVE first \in leading
      OBVIOUS
    <2>1. leading \subseteq 1..5
      BY <1>1
    <2>2. \E i \in leading : \A j \in leading : i \leq j
      <3> HIDE DEF leading
      <3>1. PICK k \in leading : TRUE
        OBVIOUS
      <3>2. CASE 1 \in leading
        BY <2>1, <3>2
      <3>3. CASE 1 \notin leading /\ 2 \in leading
        BY <2>1, <3>3
      <3>4. CASE 1 \notin leading /\ 2 \notin leading /\ 3 \in leading
        BY <2>1, <3>4
      <3>5. CASE 1 \notin leading /\ 2 \notin leading /\ 3 \notin leading /\ 4 \in leading
        BY <2>1, <3>5
      <3>6. CASE 1 \notin leading /\ 2 \notin leading /\ 3 \notin leading /\ 4 \notin leading
        BY <2>1, <3>1, <3>6
      <3>7. QED
        BY <3>2, <3>3, <3>4, <3>5, <3>6
    <2>3. QED
      BY <2>2
  <1>5. Phase(cs, st) = CASE told -> "success"
                          [] OTHER -> IF leading # {} THEN PhaseOrder[first]
                                      ELSE IF cs = "failed" \/ Existing(st) # {} THEN "failed"
                                      ELSE "queued"
    BY DEF Phase
  <1>6. leading # {} => PhaseOrder[first] \notin {"success", "failed"}
    BY <1>1, <1>2, <1>4
  <1>7. unfinished # {} <=> \E t \in Existing(st) : ~Finished(st[t])
    OBVIOUS
  <1> HIDE DEF leading, first, unfinished
  <1>8. QED
    BY <1>3, <1>5, <1>6, <1>7

\* A client is told the end of its task only when that is the end, whatever was read before
\* and after a recalculation, the queue limit included.
THEOREM ToldWhatIsDecided ==
  ASSUME VSSGroups = {}, RelayMayForget = FALSE PROVE Spec => []ToldIsDecided
  <1>1. TypeOK /\ ClientInv => ToldIsDecided
    <2> SUFFICES ASSUME TypeOK, ClientInv, NEW cs \in {"running", clientStatus}
                 PROVE  /\ Phase(cs, status) \in {"success", "failed"} => clientStatus = Phase(cs, status)
                        /\ "success" \in {cs, Phase(cs, status)} => ResultRows # {}
      BY DEF ToldIsDecided, StatusAnswers
    <2>1. clientStatus = "success" <=> \E t \in Task : status[t] = "ResultDownloaded"
      <3>1. Existing(status) = {t \in Task : status[t] # "absent"}
        BY DEF Existing
      <3>2. QED
        BY <3>1 DEF ClientInv, TypeOK
    <2>2. Phase(cs, status) = "success" <=> cs = "success" \/ \E t \in Task : status[t] = "ResultDownloaded"
      BY PhaseIs
    <2>3. Phase(cs, status) = "failed" =>
            /\ \A t \in Existing(status) : Finished(status[t])
            /\ cs = "failed" \/ Existing(status) # {}
      BY PhaseIs
    <2>4. ResultRows # {} <=> \E t \in Task : status[t] = "ResultDownloaded"
      BY DEF ResultRows
    <2>5. Phase(cs, status) = "failed" => clientStatus = "failed"
      <3> SUFFICES ASSUME Phase(cs, status) = "failed" PROVE clientStatus = "failed"
        OBVIOUS
      <3>1. clientStatus # "success"
        BY <2>1, <2>2
      <3>2. CASE cs = "failed"
        BY <3>2
      <3>3. CASE cs # "failed"
        BY <2>3, <3>1, <3>3 DEF ClientInv, TypeOK
      <3>4. QED
        BY <3>2, <3>3
    <2>6. QED
      BY <2>1, <2>2, <2>4, <2>5
  <1>2. QED
    BY SingleRowsAgree, <1>1, PTL

\* What was told as the end is told for ever.
THEOREM FinalPhasesStand ==
  ASSUME VSSGroups = {}, RelayMayForget = FALSE PROVE Spec => FinalPhaseStands
  <1>1. TypeOK /\ SingleInv /\ ClientInv /\ [Next]_vars =>
          [Phase(clientStatus, status) \in {"success", "failed"}
             => Phase(clientStatus, status)' = Phase(clientStatus, status)]_vars
    <2> SUFFICES ASSUME TypeOK, SingleInv, ClientInv, [Next]_vars,
                        Phase(clientStatus, status) \in {"success", "failed"}
                 PROVE  Phase(clientStatus', status') = Phase(clientStatus, status)
      OBVIOUS
    <2>1. clientStatus # "running" => clientStatus' = clientStatus
      BY SoloClientStep
    <2>2. \A u \in Task : /\ Finished(status[u]) => status'[u] = status[u]
                          /\ status'[u] = "absent" <=> status[u] = "absent"
      BY SoloFrozen
    <2>3. Existing(status') = Existing(status) /\ Existing(status) \subseteq Task
      BY <2>2 DEF Existing
    <2>4. CASE Phase(clientStatus, status) = "success"
      <3>1. clientStatus = "success"
        BY <2>4, PhaseIs DEF ClientInv, TypeOK, Existing
      <3>2. QED
        BY <2>1, <2>4, <3>1, PhaseIs
    <2>5. CASE Phase(clientStatus, status) = "failed"
      <3>1. /\ \A t \in Existing(status) : Finished(status[t]) /\ status[t] # "ResultDownloaded"
            /\ clientStatus # "success"
            /\ clientStatus = "failed" \/ Existing(status) # {}
        BY <2>3, <2>5, PhaseIs
      <3>2. clientStatus = "failed"
        BY <3>1 DEF ClientInv, TypeOK
      <3>3. \A t \in Existing(status') : Finished(status'[t]) /\ status'[t] # "ResultDownloaded"
        BY <2>2, <2>3, <3>1
      <3>4. \A t \in Task : status'[t] # "ResultDownloaded"
        BY <3>3 DEF Existing
      <3>5. QED
        BY <2>1, <2>5, <3>2, <3>3, <3>4, PhaseIs
    <2>6. QED
      BY <2>4, <2>5
  <1>2. QED
    BY SingleRowsAgree, <1>1, PTL DEF Spec, FinalPhaseStands

-----------------------------------------------------------------------------
\* Rows that their creator aborts.  An operation may be started on a row that was
\* aborted after it was decided, so a row may leave its end again and little is known
\* of how operations fit rows.  What is known of each row is what its task at Relay
\* bears out, whatever operation was decided for it.

\* What the status of a row says is true of its task.
RowStands(t) ==
  /\ status[t] # "absent" => t \in Primary
  /\ status[t] \notin {"absent", "Pending", "EndAborted"} => rstatus[t] # "NotFound"
  /\ IsReadyForValidation(status[t]) => rstatus[t] \in SettledStatus
  /\ status[t] \in {"EndInvalidated", "EndGroupRefund"} => rstatus[t] = status[t]
  /\ status[t] = "EndAborted" => Refused(t) \/ rstatus[t] = "EndAborted"
  /\ ~siblingCancel[t]

\* Operation o with worker w fits the task, though it may not fit the status of its row.
OpFits(o, w, st, rst) ==
  /\ o # "none" => st # "absent"
  /\ o = "validate" => rst \in SettledStatus
  /\ o = "result" => rst # "NotFound"
  /\ w # "refuse"

\* A stored answer is still true when it is applied.
AnswerStands(t) ==
  /\ Answered(t, "create") =>
       \/ opResult[t].outcome \in {"created", "already_exists"} /\ rstatus[t] # "NotFound"
       \/ opResult[t].outcome = "temporary_error"
       \/ opResult[t].outcome = "permanent_error" /\ Refused(t)
  /\ Answered(t, "validate") =>
       \/ opResult[t].outcome \in {"validated", "already_applied", "temporary_error"}
       \/ rstatus[t] = "EndAborted"
  /\ Answered(t, "sync_status") =>
       LET s == opResult[t].status IN
       /\ s = "NotFound" => status[t] = "Pending" \/ (status[t] = "EndAborted" /\ Refused(t))
       /\ s # "NotFound" => rstatus[t] # "NotFound"
       /\ s \in SettledStatus => rstatus[t] \in SettledStatus
       /\ s \in {"EndAborted", "EndInvalidated", "EndGroupRefund"} => rstatus[t] = s

Stands(t) ==
  RowStands(t) /\ OpFits(op[t], worker[t], status[t], rstatus[t]) /\ AnswerStands(t)

\* The same of the operations that are decided and not yet started, and of requests.
CancelInv ==
  /\ \A t \in Task : Stands(t)
  /\ \A t \in Task : OpFits(decided[t].op, decided[t].worker, status[t], rstatus[t])
  /\ \A r \in late : SoloLate(r)

\* The rows that an abort has cancelled are over at Relay, and there are no rows before the
\* expansion.
AbortInv ==
  /\ \A t \in abort.cancelled : rstatus[t] = "EndAborted"
  /\ abort.cancelled \cup abort.todo \subseteq Existing(status)
  /\ Existing(status) # {} => repeatExpanded

LEMMA CancelledAreApart == CancelInv => Apart
  BY DEF CancelInv, Stands, RowStands, OpFits, Apart

\* A row that a step is not about stands as before.
LEMMA LeftStands ==
  ASSUME NEW u \in Task, TaskMoves(u), NoNewRequest(u), Stands(u), Left(u)
  PROVE  Stands(u)'
  <1>r. /\ rstatus[u] # "NotFound" => rstatus'[u] # "NotFound"
        /\ rstatus[u] \in SettledStatus => rstatus'[u] \in SettledStatus
        /\ rstatus[u] \in {"EndAborted", "EndInvalidated", "EndGroupRefund"} => rstatus'[u] = rstatus[u]
        /\ Refused(u) => Refused(u)'
    BY SoloRelayKeeps
  <1>1. RowStands(u)'
    BY <1>r DEF Stands, RowStands, Left
  <1>2. OpFits(op'[u], worker'[u], status'[u], rstatus'[u])
    BY <1>r DEF Stands, OpFits, Left
  <1>3. \A o : Answered(u, o)' => Answered(u, o) /\ opResult'[u] = opResult[u]
    BY DEF Answered, Left
  <1>4. status'[u] = status[u]
    BY DEF Left
  <1>5. AnswerStands(u)'
    BY <1>r, <1>3, <1>4 DEF Stands, AnswerStands
  <1>6. QED
    BY <1>1, <1>2, <1>5 DEF Stands

\* A decision fits the task of its row.
LEMMA DecisionFits ==
  ASSUME TypeOK, CancelInv, NEW t \in Task, LoadedAsDue(t)
  PROVE  OpFits(DecideOperation(t), WorkerFor(t), status[t], rstatus[t])
  <1>1. status[t] # "absent" /\ RowStands(t)
    BY DEF LoadedAsDue, CancelInv, Stands
  <1>2. /\ DecideOperation(t) = "validate" => IsReadyForValidation(status[t])
        /\ DecideOperation(t) = "result" => status[t] = "EndSuccess"
    BY DEF DecideOperation, SubmitsValidation
  <1>3. WorkerFor(t) # "refuse"
    <2>1. Members(t) = {t}
      BY <1>1, SoloMembers DEF CancelInv, Stands, RowStands, Members
    <2>2. Cardinality({t}) = 1
      BY FS_Singleton
    <2>3. QED
      BY <2>1, <2>2 DEF WorkerFor
  <1>4. QED
    BY <1>1, <1>2, <1>3 DEF OpFits, RowStands

\* Starting an operation that fits its task, at once or after it was decided.
LEMMA MarkedStands ==
  ASSUME TypeOK, NEW t \in Task, Stands(t), NEW o, NEW w, MarkRunning(t, o, w),
         OpFits(o, w, status[t], rstatus[t])
  PROVE  Stands(t)' /\ \A u \in Task : u # t => Left(u)
  <1>1. /\ status' = status /\ siblingCancel' = siblingCancel /\ rstatus' = rstatus
        /\ op'[t] = o /\ worker'[t] = w /\ opStatus'[t] = "running"
    BY DEF MarkRunning, relayVars, TypeOK
  <1>2. RowStands(t)' /\ AnswerStands(t)'
    BY <1>1 DEF Stands, RowStands, AnswerStands, Answered, Refused
  <1>3. \A u \in Task : u # t => Left(u)
    BY DEF MarkRunning, Left, TypeOK
  <1>4. QED
    BY <1>1, <1>2, <1>3 DEF Stands

\* What a worker stores is true when it stores it.
LEMMA AnsweredStands ==
  ASSUME TypeOK, CancelInv, NEW t \in Task, Answer(t), TaskMoves(t), NoNewRequest(t)
  PROVE  Stands(t)'
  <1>1. Stands(t)
    BY DEF CancelInv
  <1>2. op' = op /\ status' = status /\ siblingCancel' = siblingCancel /\ worker'[t] = "idle"
    BY DEF Answer, AnswerStatus, AnswerCreate, AnswerValidate, AnswerCancel, AnswerResult,
           WriteOutcome, WriteCompleted, TypeOK
  <1>3. RowStands(t)' /\ OpFits(op'[t], worker'[t], status'[t], rstatus'[t])
    <2>1. RowStands(t)'
      BY <1>1, <1>2, SoloRelayKeeps DEF Stands, RowStands
    <2>2. QED
      BY <1>1, <1>2, <2>1, SoloRelayKeeps DEF Stands, OpFits
  <1>a. ASSUME NEW out, WriteOutcome(t, out) PROVE opResult'[t].outcome = out
    <2>1. opResult'[t] = [NoResult EXCEPT !.outcome = out]
      BY <1>a DEF WriteOutcome, WriteCompleted, TypeOK
    <2>2. QED
      BY <2>1 DEF NoResult
  <1>4. CASE AnswerStatus(t)
    <2>1. op[t] = "sync_status" /\ opResult'[t].status = rstatus[t] /\ rstatus' = rstatus
      BY <1>4 DEF AnswerStatus, Working, WriteCompleted, relayVars, TypeOK
    <2>2. rstatus[t] = "NotFound" => status[t] = "Pending" \/ (status[t] = "EndAborted" /\ Refused(t)')
      BY <1>1, <2>1 DEF Stands, RowStands, OpFits, Refused
    <2>3. AnswerStands(t)'
      BY <1>2, <2>1, <2>2 DEF AnswerStands, Answered
    <2>4. QED
      BY <1>3, <2>3 DEF Stands
  <1>5. CASE AnswerCreate(t)
    <2>1. PICK out \in Outcome : RelayCreate(t, out) /\ WriteOutcome(t, out)
      BY <1>5 DEF AnswerCreate
    <2>2. op[t] = "create" /\ opResult'[t].outcome = out
      BY <1>5, <1>a, <2>1 DEF AnswerCreate, Working
    <2>3. \/ out \in {"created", "already_exists"} /\ rstatus'[t] # "NotFound"
          \/ out = "temporary_error"
          \/ out = "permanent_error" /\ Refused(t)'
      BY <2>1 DEF RelayCreate, Refused, relayVars, TypeOK, RelayTypeOK
    <2>4. AnswerStands(t)'
      BY <1>2, <2>2, <2>3 DEF AnswerStands, Answered
    <2>5. QED
      BY <1>3, <2>4 DEF Stands
  <1>6. CASE AnswerValidate(t)
    <2>1. op[t] = "validate" /\ worker[t] # "refuse" /\ status[t] # "absent"
          /\ rstatus[t] \in SettledStatus
      BY <1>1, <1>6 DEF AnswerValidate, Working, Stands, OpFits
    <2>2. Members(t) = {t}
      BY <2>1, SoloMembers DEF CancelInv, Stands, RowStands, Members
    <2>3. PICK out \in Outcome : RelayValidate({t}, out) /\ WriteOutcome(t, out)
      BY <1>6, <2>1, <2>2 DEF AnswerValidate
    <2>4. \/ out \in {"validated", "already_applied", "temporary_error"}
          \/ rstatus'[t] = "EndAborted"
      BY <2>1, <2>3 DEF RelayValidate, Validatable, AlreadyValidated, RelayReady, SettledStatus,
                        relayVars
    <2>5. AnswerStands(t)'
      BY <1>2, <1>a, <2>1, <2>3, <2>4 DEF AnswerStands, Answered
    <2>6. QED
      BY <1>3, <2>5 DEF Stands
  <1>7. CASE AnswerCancel(t) \/ AnswerResult(t)
    <2>1. op[t] \in {"cancel", "result"}
      BY <1>7 DEF AnswerCancel, AnswerResult, Working
    <2>2. AnswerStands(t)'
      BY <1>2, <2>1 DEF AnswerStands, Answered
    <2>3. QED
      BY <1>3, <2>2 DEF Stands
  <1>8. QED
    BY <1>4, <1>5, <1>6, <1>7 DEF Answer

\* Applying a stored answer of row t touches no other row, and makes of row t what Relay
\* bears out.
LEMMA AppliedStands ==
  ASSUME VSSGroups = {}, HeartbeatLimit = FALSE, TypeOK, CancelInv, NEW t \in Task, Apply(t)
  PROVE  /\ \A u \in Task : u # t => Left(u)
         /\ Stands(t)'
         /\ status'[t] = "absent" <=> status[t] = "absent"
  <1> DEFINE s     == opResult[t].status
             local == RelayStatusToLocal(s)
             Goal  == /\ \A u \in Task : u # t => Left(u)
                      /\ Stands(t)'
                      /\ status'[t] = "absent" <=> status[t] = "absent"
             Borne(st) ==
               /\ st \in TaskStatus
               /\ st \notin {"Pending", "EndAborted"} => rstatus[t] # "NotFound"
               /\ IsReadyForValidation(st) => rstatus[t] \in SettledStatus
               /\ st \in {"EndInvalidated", "EndGroupRefund"} => rstatus[t] = st
               /\ st = "EndAborted" => Refused(t) \/ rstatus[t] = "EndAborted"
  <1>i. RowStands(t) /\ OpFits(op[t], worker[t], status[t], rstatus[t]) /\ AnswerStands(t)
    BY DEF CancelInv, Stands
  <1>w. worker[t] # "refuse" /\ siblingCancel = [siblingCancel EXCEPT ![t] = FALSE]
        /\ siblingCancel[t] = FALSE /\ status = [status EXCEPT ![t] = status[t]]
    BY <1>i DEF OpFits, RowStands, TypeOK
  <1>a. ASSUME NEW st, op[t] # "none", Borne(st),
               ApplyTail(t, [status EXCEPT ![t] = st], siblingCancel)
        PROVE  Goal
    <2> DEFINE ST == [status EXCEPT ![t] = st]
    <2>0. status[t] # "absent" /\ t \in Primary
      BY <1>a, <1>i DEF OpFits, RowStands
    <2>1. \A u \in Task : ST[u] # "absent" => u \in Primary
      BY <2>0 DEF CancelInv, Stands, RowStands, TypeOK
    <2>2. SiblingsToCancel(ST, t) = {}
      BY <2>1, SoloMembers
    <2>3. /\ status' = ST /\ siblingCancel' = siblingCancel
          /\ op' = [op EXCEPT ![t] = "none"] /\ opStatus' = [opStatus EXCEPT ![t] = "none"]
          /\ opResult' = [opResult EXCEPT ![t] = NoResult]
          /\ worker' = worker /\ rstatus' = rstatus
      BY <1>a, <2>2 DEF ApplyTail, SetAll, TypeOK, envVars, relayVars
    <2>4. /\ status'[t] = st /\ ~siblingCancel'[t] /\ op'[t] = "none" /\ opStatus'[t] = "none"
          /\ worker'[t] # "refuse" /\ st # "absent"
      BY <1>a, <1>w, <2>3 DEF TypeOK, TaskStatus
    <2>5. RowStands(t)'
      BY <1>a, <2>0, <2>3, <2>4 DEF RowStands, Refused
    <2>6. \A u \in Task : u # t => Left(u)
      BY <2>3 DEF Left, TypeOK
    <2>7. AnswerStands(t)' /\ OpFits(op'[t], worker'[t], status'[t], rstatus'[t])
      BY <2>4 DEF AnswerStands, Answered, OpFits
    <2>8. QED
      BY <2>0, <2>4, <2>5, <2>6, <2>7 DEF Stands
  <1>o. op[t] # "none" => Borne(status[t])
    BY <1>i DEF RowStands, OpFits, TypeOK
  <1>1. CASE ApplyFailed(t)
    <2>1. /\ status' = status /\ siblingCancel' = siblingCancel
          /\ op' = [op EXCEPT ![t] = "none"] /\ opStatus' = [opStatus EXCEPT ![t] = "none"]
          /\ worker' = worker /\ rstatus' = rstatus /\ opResult' = [opResult EXCEPT ![t] = NoResult]
      BY <1>1 DEF ApplyFailed, envVars, relayVars
    <2>2. RowStands(t)'
      BY <1>i, <2>1 DEF RowStands, Refused
    <2>3. op'[t] = "none" /\ opStatus'[t] = "none"
      BY <2>1 DEF TypeOK
    <2>4. AnswerStands(t)' /\ OpFits(op'[t], worker'[t], status'[t], rstatus'[t])
      BY <1>w, <2>1, <2>3 DEF AnswerStands, Answered, OpFits
    <2>5. \A u \in Task : u # t => Left(u)
      BY <2>1 DEF Left, TypeOK
    <2>6. QED
      BY <2>1, <2>2, <2>4, <2>5 DEF Stands
  <1>2. CASE ApplyStatusNotFound(t)
    <2>1. Answered(t, "sync_status") /\ s = "NotFound"
      BY <1>2 DEF ApplyStatusNotFound, Applicable, Answered
    <2>2. status[t] = "Pending" \/ (status[t] = "EndAborted" /\ Refused(t))
      BY <1>i, <2>1 DEF AnswerStands
    <2>3. ApplyTail(t, [status EXCEPT ![t] = status[t]], siblingCancel)
      <3>1. ApplyTail(t, IF status[t] = "Pending" THEN status
                         ELSE [status EXCEPT ![t] = "EndAborted"], siblingCancel)
        BY <1>2, <1>w DEF ApplyStatusNotFound
      <3>2. CASE status[t] = "Pending"
        BY <1>w, <3>1, <3>2
      <3>3. CASE status[t] = "EndAborted"
        BY <3>1, <3>3
      <3>4. QED
        BY <2>2, <3>2, <3>3
    <2>4. op[t] # "none"
      BY <2>1 DEF Answered
    <2>5. QED
      BY <1>a, <1>o, <2>3, <2>4
  <1>3. CASE ApplyStatusKeepsAbort(t) \/ ApplyStatusTimedOut(t)
    BY <1>3, <1>w DEF ApplyStatusKeepsAbort, KeepsLocalAbort, ApplyStatusTimedOut
  <1>4. CASE ApplyStatus(t)
    <2>1. Answered(t, "sync_status") /\ s # "NotFound" /\ s \in ChainStatus
      BY <1>4 DEF ApplyStatus, Applicable, Answered, TypeOK, Result
    <2>2. ApplyTail(t, [status EXCEPT ![t] = local], siblingCancel)
      <3>1. NewMembers(t) = {}
        BY DEF NewMembers
      <3>2. SetAll([status EXCEPT ![t] = local], {}, "Pending") = [status EXCEPT ![t] = local]
        BY DEF SetAll, TypeOK
      <3>3. ApplyTail(t, SetAll([status EXCEPT ![t] = local], NewMembers(t), "Pending"),
                      IF local = "Created" THEN siblingCancel
                      ELSE [siblingCancel EXCEPT ![t] = FALSE])
        BY <1>4 DEF ApplyStatus
      <3>4. QED
        BY <1>w, <3>1, <3>2, <3>3
    <2>3. /\ local \in TaskStatus /\ local \notin {"absent", "Pending"}
          /\ IsReadyForValidation(local) => s \in SettledStatus
          /\ local \in {"EndAborted", "EndInvalidated", "EndGroupRefund"} => s = local
      BY <2>1, LocalStatusType, LocalInverse DEF SettledStatus
    <2>4. Borne(local)
      BY <1>i, <2>1, <2>3 DEF AnswerStands
    <2>5. op[t] # "none"
      BY <2>1 DEF Answered
    <2>6. QED
      BY <1>a, <2>2, <2>4, <2>5
  <1>5. CASE ApplyCreate(t)
    <2>1. Answered(t, "create") /\ op[t] # "none"
      BY <1>5 DEF ApplyCreate, Applicable, Answered
    <2>2. CASE CreationAccepted(opResult[t].outcome)
      <3>1. ApplyTail(t, [status EXCEPT ![t] = "Created"], siblingCancel)
        BY <1>5, <2>2 DEF ApplyCreate
      <3>2. rstatus[t] # "NotFound"
        BY <1>i, <2>1, <2>2 DEF AnswerStands, CreationAccepted, Refused
      <3>3. Borne("Created")
        BY <3>2 DEF TaskStatus, IsReadyForValidation
      <3>4. QED
        BY <1>a, <2>1, <3>1, <3>3
    <2>3. CASE opResult[t].outcome = "temporary_error"
      <3>1. ApplyTail(t, [status EXCEPT ![t] = status[t]], siblingCancel)
        BY <1>5, <1>w, <2>3 DEF ApplyCreate, CreationAccepted
      <3>2. QED
        BY <1>a, <1>o, <2>1, <3>1
    <2>4. CASE ~CreationAccepted(opResult[t].outcome) /\ opResult[t].outcome # "temporary_error"
      <3>1. ApplyTail(t, [status EXCEPT ![t] = "EndAborted"], siblingCancel)
        BY <1>5, <2>4 DEF ApplyCreate
      <3>2. Refused(t)
        BY <1>i, <2>1, <2>4 DEF AnswerStands, CreationAccepted
      <3>3. Borne("EndAborted")
        BY <3>2 DEF TaskStatus, IsReadyForValidation
      <3>4. QED
        BY <1>a, <2>1, <3>1, <3>3
    <2>5. QED
      BY <2>2, <2>3, <2>4
  <1>6. CASE ApplyValidate(t)
    <2>1. Answered(t, "validate") /\ op[t] # "none"
      BY <1>6 DEF ApplyValidate, Applicable, Answered
    <2>2. CASE ValidationAccepted(opResult[t].outcome) \/ opResult[t].outcome = "temporary_error"
      <3>1. ApplyTail(t, [status EXCEPT ![t] = status[t]], siblingCancel)
        BY <1>6, <1>w, <2>2 DEF ApplyValidate
      <3>2. QED
        BY <1>a, <1>o, <2>1, <3>1
    <2>3. CASE ~ValidationAccepted(opResult[t].outcome) /\ opResult[t].outcome # "temporary_error"
      <3>1. Members(t) = {t}
        BY <1>i, <2>1, SoloMembers DEF OpFits, CancelInv, Stands, RowStands, Members
      <3>2. SetAll(status, Members(t), "EndAborted") = [status EXCEPT ![t] = "EndAborted"]
        BY <3>1 DEF SetAll, TypeOK
      <3>3. ApplyTail(t, [status EXCEPT ![t] = "EndAborted"], siblingCancel)
        BY <1>6, <2>3, <3>2 DEF ApplyValidate
      <3>4. rstatus[t] = "EndAborted"
        BY <1>i, <2>1, <2>3 DEF AnswerStands, ValidationAccepted
      <3>5. Borne("EndAborted")
        BY <3>4 DEF TaskStatus, IsReadyForValidation
      <3>6. QED
        BY <1>a, <2>1, <3>3, <3>5
    <2>4. QED
      BY <2>2, <2>3
  <1>7. CASE ApplyCancel(t)
    <2>1. op[t] # "none" /\ ApplyTail(t, [status EXCEPT ![t] = status[t]], siblingCancel)
      BY <1>7, <1>w DEF ApplyCancel, Applicable
    <2>2. QED
      BY <1>a, <1>o, <2>1
  <1>8. CASE ApplyDownload(t)
    <2>1. op[t] = "result" /\ ApplyTail(t, [status EXCEPT ![t] = "ResultDownloaded"], siblingCancel)
      BY <1>8 DEF ApplyDownload, Applicable
    <2>2. Borne("ResultDownloaded")
      BY <1>i, <2>1 DEF OpFits, TaskStatus, IsReadyForValidation
    <2>3. QED
      BY <1>a, <2>1, <2>2
  <1>9. QED
    BY <1>1, <1>2, <1>3, <1>4, <1>5, <1>6, <1>7, <1>8 DEF Apply

\* What the engine does to rows of which decisions may be stale.
LEMMA EngineStands ==
  ASSUME VSSGroups = {}, RelayMayForget = FALSE, HeartbeatLimit = FALSE, TypeOK, CancelInv, EngineStep
  PROVE  /\ \A u \in Task : /\ TaskMoves(u) /\ NoNewRequest(u) /\ Stands(u)'
                            /\ status'[u] = "absent" <=> status[u] = "absent"
         /\ \A r \in late' : SoloLate(r)'
  <1>a. Apart /\ [Next]_vars
    BY CancelledAreApart, EngineNext
  <1>1. \A r \in late' : SoloLate(r)'
    BY <1>a, SoloLateStep
  <1>2. ASSUME NEW u \in Task
        PROVE  /\ TaskMoves(u) /\ NoNewRequest(u) /\ Stands(u)'
               /\ status'[u] = "absent" <=> status[u] = "absent"
    <2>1. TaskMoves(u) /\ NoNewRequest(u)
      BY <1>a, SoloMoves, SoloLateStep
    <2>2. Stands(u)
      BY DEF CancelInv
    <2>3. CASE Left(u)
      BY <2>1, <2>2, <2>3, LeftStands DEF Left
    <2>4. CASE Dispatch(u)
      <3>1. /\ LoadedAsDue(u) /\ MarkRunning(u, DecideOperation(u), WorkerFor(u))
        BY <2>4 DEF Dispatch
      <3>2. status' = status
        BY <3>1 DEF MarkRunning
      <3>3. QED
        BY <2>1, <2>2, <3>1, <3>2, DecisionFits, MarkedStands
    <2>5. CASE Answer(u)
      <3>1. status' = status
        BY <2>5 DEF Answer, AnswerStatus, AnswerCreate, AnswerValidate, AnswerCancel, AnswerResult,
                    WriteOutcome, WriteCompleted
      <3>2. QED
        BY <2>1, <2>5, <3>1, AnsweredStands
    <2>6. ASSUME NEW t \in Task, Apply(t)
          PROVE  Stands(u)' /\ (status'[u] = "absent" <=> status[u] = "absent")
      <3>1. CASE u # t
        <4>1. Left(u)
          BY <2>6, <3>1, AppliedStands
        <4>2. QED
          BY <2>1, <2>2, <4>1, LeftStands DEF Left
      <3>2. CASE u = t
        BY <2>6, <3>2, AppliedStands
      <3>3. QED
        BY <3>1, <3>2
    <2>7. QED
      BY <1>a, <2>1, <2>3, <2>4, <2>5, <2>6, SoloAbout
  <1>3. QED
    BY <1>1, <1>2

-----------------------------------------------------------------------------
\* The steps of the creator, of the expansion and of the dispatch.
CreatorStep ==
  \/ ExpandLoad \/ ExpandCommit
  \/ AbortLoad \/ AbortUnexpanded \/ AbortPreflight \/ AbortLost \/ AbortCommit
  \/ DispatchEnds
  \/ \E t \in Task : DecideRow(t) \/ MarkDecided(t) \/ AbortCancelOne(t)

\* They move a task at Relay as a cancellation does, and ask for no validation that the
\* engine had not asked for.
LEMMA CreatorMoves ==
  ASSUME TypeOK, ATypeOK, Apart, CreatorStep
  PROVE  /\ \A t \in Task : TaskMoves(t) /\ NoNewRequest(t)
         /\ \A r \in late' : SoloLate(r)'
  <1>t. RelayTypeOK
    BY DEF TypeOK
  <1>1. ASSUME NEW t \in Task PROVE TaskMoves(t)
    <2>1. CASE UNCHANGED relayVars
      BY <2>1 DEF relayVars, TaskMoves
    <2>2. ASSUME NEW u \in Task, AbortCancelOne(u) PROVE TaskMoves(t)
      <3>1. \E out \in Outcome : RelayCancel(u, out)
        BY <2>2 DEF AbortCancelOne
      <3>2. QED
        BY <1>t, <3>1, SoloActs
    <2>3. \/ UNCHANGED relayVars
          \/ \E u \in Task : AbortCancelOne(u)
      BY DEF CreatorStep, ExpandLoad, ExpandCommit, AbortLoad, AbortUnexpanded, AbortPreflight,
             AbortLost, AbortCommit, DispatchEnds, DecideRow, MarkDecided, MarkRunning, vars
    <2>4. QED
      BY <2>1, <2>2, <2>3
  <1>2. \A r \in late' : r.op = "validate" => \/ r \in late
                                              \/ op[r.task] = "validate" /\ SoloLate(r)
    <2>1. CASE late' = late
      BY <2>1
    <2>2. CASE AbortLost
      BY <2>2 DEF AbortLost
    <2>3. CASE AbortCommit
      <3>1. PICK S \in SUBSET Task : late' \subseteq late \cup InFlight(S)
        <4> DEFINE dropped == {t \in OperationsDropped : worker[t] # "idle"}
        <4>1. dropped \in SUBSET Task
          BY DEF OperationsDropped, ATypeOK
        <4>2. late' = late \/ late' = late \cup InFlight(dropped)
          BY <2>3 DEF AbortCommit, vars, envVars
        <4>3. QED
          BY <4>1, <4>2
      <3>2. QED
        BY <3>1, SoloRequests
    <2>4. QED
      BY <2>1, <2>2, <2>3
      DEF CreatorStep, ExpandLoad, ExpandCommit, AbortLoad, AbortUnexpanded, AbortPreflight,
          AbortCancelOne, DispatchEnds, DecideRow, MarkDecided, MarkRunning, vars, envVars
  <1>3. \A t \in Task : NoNewRequest(t)
    BY <1>2 DEF NoNewRequest
  <1>4. ASSUME NEW r \in late', r.op = "validate" PROVE SoloLate(r)'
    <2>1. SoloLate(r) /\ r.task \in Task
      <3>1. CASE r \in late
        BY <3>1 DEF Apart, TypeOK, Request
      <3>2. CASE r \notin late
        <4>1. op[r.task] = "validate" /\ SoloLate(r)
          BY <1>2, <1>4, <3>2
        <4>2. late' \subseteq Request
          BY ANextType DEF CreatorStep, ANext, TypeOK
        <4>4. QED
          BY <4>1, <4>2 DEF Request
      <3>3. QED
        BY <3>1, <3>2
    <2>2. TaskMoves(r.task) /\ NoNewRequest(r.task)
      BY <1>1, <1>3, <2>1
    <2>3. QED
      BY <1>4, <2>1, <2>2, SoloRelayKeeps DEF SoloLate
  <1>5. QED
    BY <1>1, <1>3, <1>4 DEF SoloLate

\* What they do to a row: nothing, its creation, its abort, or the start of what was decided.
LEMMA CreatorAbout ==
  ASSUME TypeOK, ATypeOK, AbortInv, CreatorStep, NEW u \in Task
  PROVE  \/ Left(u)
         \/ /\ ExpandCommit /\ status[u] = "absent"
            /\ status'[u] = IF u \in Primary THEN "Pending" ELSE "absent"
            /\ UNCHANGED <<siblingCancel, opVars, worker, rstatus>>
         \/ /\ AbortCommit /\ u \in abort.cancelled /\ status'[u] = "EndAborted"
            /\ ~siblingCancel'[u] /\ op'[u] = "none" /\ opStatus'[u] = "none"
            /\ worker'[u] \in {worker[u], "idle"} /\ rstatus' = rstatus
         \/ MarkDecided(u)
  <1>1. CASE UNCHANGED <<status, siblingCancel, opVars, worker>>
    BY <1>1 DEF Left, opVars
  <1>2. CASE ExpandCommit
    <2>1. status[u] = "absent"
      BY <1>2 DEF ExpandCommit, AbortInv, Existing
    <2>2. QED
      BY <1>2, <2>1 DEF ExpandCommit, SetAll, opVars, envVars, relayVars
  <1>3. CASE AbortCommit
    <2>1. CASE ~StillAbortable
      BY <1>1, <1>3, <2>1 DEF AbortCommit, vars, opVars, envVars
    <2>2. CASE StillAbortable
      <3> DEFINE dropped == {t \in OperationsDropped : worker[t] # "idle"}
      <3>1. /\ status' = SetAll(status, abort.cancelled, "EndAborted")
            /\ siblingCancel' = SetAll(siblingCancel, abort.cancelled, FALSE)
            /\ op' = SetAll(op, abort.cancelled, "none")
            /\ opStatus' = SetAll(opStatus, abort.cancelled, "none")
            /\ opResult' = SetAll(opResult, abort.cancelled, NoResult)
            /\ worker' = SetAll(worker, dropped, "idle")
            /\ rstatus' = rstatus
        BY <1>3, <2>2 DEF AbortCommit, OperationsDropped, relayVars
      <3> HIDE DEF dropped
      <3>2. CASE u \in abort.cancelled
        BY <1>3, <3>1, <3>2 DEF SetAll
      <3>3. CASE u \notin abort.cancelled
        BY <3>1, <3>3 DEF SetAll, Left
      <3>4. QED
        BY <3>2, <3>3
    <2>3. QED
      BY <2>1, <2>2
  <1>4. ASSUME NEW t \in Task, MarkDecided(t), t # u PROVE Left(u)
    BY <1>4 DEF MarkDecided, MarkRunning, Left, TypeOK
  <1>5. QED
    BY <1>1, <1>2, <1>3, <1>4
    DEF CreatorStep, ExpandLoad, AbortLoad, AbortUnexpanded, AbortPreflight, AbortLost,
        AbortCancelOne, DispatchEnds, DecideRow, vars, opVars, envVars

\* A row that was expanded, aborted or given an operation stands as well.
LEMMA CreatorStands ==
  ASSUME TypeOK, ATypeOK, CancelInv, AbortInv, CreatorStep
  PROVE  /\ \A u \in Task : /\ TaskMoves(u) /\ NoNewRequest(u) /\ Stands(u)'
                            /\ status[u] # "absent" => status'[u] # "absent"
         /\ \A r \in late' : SoloLate(r)'
  <1>1. /\ \A u \in Task : TaskMoves(u) /\ NoNewRequest(u)
        /\ \A r \in late' : SoloLate(r)'
    BY CancelledAreApart, CreatorMoves
  <1>2. ASSUME NEW u \in Task
        PROVE  Stands(u)' /\ (status[u] # "absent" => status'[u] # "absent")
    <2>1. Stands(u)
      BY DEF CancelInv
    <2>2. CASE Left(u)
      BY <1>1, <2>1, <2>2, LeftStands DEF Left
    <2>3. CASE /\ ExpandCommit /\ status[u] = "absent"
               /\ status'[u] = IF u \in Primary THEN "Pending" ELSE "absent"
               /\ UNCHANGED <<siblingCancel, opVars, worker, rstatus>>
      <3>1. op'[u] = "none" /\ ~siblingCancel'[u] /\ worker'[u] # "refuse"
        BY <2>1, <2>3 DEF Stands, OpFits, RowStands, opVars
      <3>2. RowStands(u)'
        BY <2>3, <3>1 DEF RowStands, IsReadyForValidation
      <3>3. AnswerStands(u)' /\ OpFits(op'[u], worker'[u], status'[u], rstatus'[u])
        BY <3>1 DEF AnswerStands, Answered, OpFits
      <3>4. QED
        BY <2>3, <3>2, <3>3 DEF Stands
    <2>4. CASE /\ AbortCommit /\ u \in abort.cancelled /\ status'[u] = "EndAborted"
               /\ ~siblingCancel'[u] /\ op'[u] = "none" /\ opStatus'[u] = "none"
               /\ worker'[u] \in {worker[u], "idle"} /\ rstatus' = rstatus
      <3>1. rstatus'[u] = "EndAborted" /\ u \in Primary
        BY <2>1, <2>4 DEF AbortInv, Existing, Stands, RowStands
      <3>2. RowStands(u)'
        BY <2>4, <3>1 DEF RowStands, IsReadyForValidation
      <3>3. AnswerStands(u)' /\ OpFits(op'[u], worker'[u], status'[u], rstatus'[u])
        BY <2>1, <2>4 DEF AnswerStands, Answered, OpFits, Stands
      <3>4. QED
        BY <2>4, <3>2, <3>3 DEF Stands
    <2>5. CASE MarkDecided(u)
      <3>1. MarkRunning(u, decided[u].op, decided[u].worker) /\ status' = status
        BY <2>5 DEF MarkDecided, MarkRunning
      <3>2. OpFits(decided[u].op, decided[u].worker, status[u], rstatus[u])
        BY DEF CancelInv
      <3>3. QED
        BY <2>1, <3>1, <3>2, MarkedStands
    <2>6. QED
      BY <2>2, <2>3, <2>4, <2>5, CreatorAbout
  <1>3. QED
    BY <1>1, <1>2

\* What is decided fits, and goes on to fit until it is started or dropped.
LEMMA DecidedStep ==
  ASSUME TypeOK, ATypeOK, CancelInv, [ANext]_caVars, NEW u \in Task, TaskMoves(u), NoNewRequest(u),
         status[u] # "absent" => status'[u] # "absent"
  PROVE  OpFits(decided'[u].op, decided'[u].worker, status'[u], rstatus'[u])
  <1>1. CASE decided'[u] = decided[u]
    <2>1. OpFits(decided[u].op, decided[u].worker, status[u], rstatus[u])
      BY DEF CancelInv
    <2>2. QED
      BY <1>1, <2>1, SoloRelayKeeps DEF OpFits
  <1>2. CASE decided'[u] = NoDecision
    BY <1>2 DEF OpFits, NoDecision
  <1>3. CASE DecideRow(u)
    <2> DEFINE new == [op |-> DecideOperation(u), worker |-> WorkerFor(u)]
    <2>1. decided'[u] = new
      BY <1>3 DEF DecideRow, ATypeOK
    <2>2. OpFits(DecideOperation(u), WorkerFor(u), status[u], rstatus[u])
      BY <1>3, DecisionFits DEF DecideRow
    <2>3. new.op = DecideOperation(u) /\ new.worker = WorkerFor(u)
      OBVIOUS
    <2> HIDE DEF new
    <2>4. QED
      BY <2>1, <2>2, <2>3, SoloRelayKeeps DEF OpFits
  <1>4. \/ decided'[u] = decided[u] \/ decided'[u] = NoDecision \/ DecideRow(u)
    <2>1. CASE EngineStep
      BY <2>1 DEF EngineStep, NoneDecided
    <2>2. ASSUME NEW t \in Task, DecideRow(t) \/ MarkDecided(t)
          PROVE  decided'[u] = decided[u] \/ decided'[u] = NoDecision \/ DecideRow(u)
      BY <2>2 DEF DecideRow, MarkDecided, ATypeOK
    <2>3. CASE \/ ExpandLoad \/ ExpandCommit \/ AbortLoad \/ AbortUnexpanded \/ AbortPreflight
               \/ AbortLost \/ AbortCommit \/ DispatchEnds \/ UNCHANGED caVars
               \/ \E t \in Task : AbortCancelOne(t)
      BY <2>3 DEF ExpandLoad, ExpandCommit, AbortLoad, AbortUnexpanded, AbortPreflight, AbortLost,
                  AbortCommit, DispatchEnds, NoneDecided, AbortCancelOne, caVars, abortVars
    <2>4. QED
      BY <2>1, <2>2, <2>3 DEF ANext
  <1>5. QED
    BY <1>1, <1>2, <1>3, <1>4

\* All steps together keep the rows standing.
LEMMA CancelInvStep ==
  ASSUME VSSGroups = {}, RelayMayForget = FALSE, HeartbeatLimit = FALSE,
         TypeOK, ATypeOK, CancelInv, AbortInv, [ANext]_caVars
  PROVE  CancelInv'
  <1>1. /\ \A u \in Task : /\ TaskMoves(u) /\ NoNewRequest(u) /\ Stands(u)'
                           /\ status[u] # "absent" => status'[u] # "absent"
        /\ \A r \in late' : SoloLate(r)'
    <2>1. CASE EngineStep
      BY <2>1, EngineStands
    <2>2. CASE CreatorStep
      BY <2>2, CreatorStands
    <2>3. CASE UNCHANGED caVars
      BY <2>3 DEF caVars, vars, opVars, envVars, relayVars, TaskMoves, NoNewRequest, CancelInv,
                  Stands, RowStands, OpFits, AnswerStands, Answered, Refused, SoloLate
    <2>4. QED
      BY <2>1, <2>2, <2>3 DEF ANext, CreatorStep
  <1>2. \A u \in Task : OpFits(decided'[u].op, decided'[u].worker, status'[u], rstatus'[u])
    BY <1>1, DecidedStep
  <1>3. QED
    BY <1>1, <1>2 DEF CancelInv

\* The rows that an abort has cancelled stay ended at Relay until it is done, and rows come
\* into being once.
LEMMA AbortInvStep ==
  ASSUME VSSGroups = {}, RelayMayForget = FALSE, HeartbeatLimit = FALSE,
         TypeOK, ATypeOK, CancelInv, AbortInv, [ANext]_caVars
  PROVE  AbortInv'
  <1> DEFINE Kept == \A t \in Task : rstatus[t] = "EndAborted" => rstatus'[t] = "EndAborted"
             Same == \A t \in Task : status'[t] = "absent" <=> status[t] = "absent"
  <1>a. abort.cancelled \subseteq Task /\ abort.todo \subseteq Task
    BY DEF ATypeOK
  <1>n. ASSUME Same, abort' = NoAbort, repeatExpanded' = repeatExpanded PROVE AbortInv'
    <2>1. Existing(status)' = Existing(status)
      BY <1>n DEF Existing
    <2>2. abort'.cancelled = {} /\ abort'.todo = {}
      BY <1>n DEF NoAbort
    <2>3. QED
      BY <1>n, <2>1, <2>2 DEF AbortInv
  <1>k. ASSUME Same, Kept, abort' = abort, repeatExpanded' = repeatExpanded PROVE AbortInv'
    <2>1. Existing(status)' = Existing(status)
      BY <1>k DEF Existing
    <2>2. QED
      BY <1>a, <1>k, <2>1 DEF AbortInv
  <1>1. CASE EngineStep
    <2>1. Same
      BY <1>1, EngineStands
    <2>2. Kept
      <3>1. \A t \in Task : TaskMoves(t) /\ NoNewRequest(t)
        BY <1>1, EngineStands
      <3>2. QED
        BY <3>1, SoloRelayKeeps
    <2>3. repeatExpanded' = repeatExpanded /\ (abort' = NoAbort \/ abort' = abort)
      BY <1>1 DEF EngineStep
    <2>4. QED
      BY <1>k, <1>n, <2>1, <2>2, <2>3
  <1>2. CASE UNCHANGED caVars \/ ExpandLoad
    BY <1>2, <1>k DEF ExpandLoad, caVars, vars, abortVars, relayVars
  <1>3. CASE ExpandCommit
    <2>1. Existing(status) = {} /\ repeatExpanded' = TRUE /\ abort' = abort
      BY <1>3 DEF AbortInv, ExpandCommit
    <2>2. abort'.cancelled = {} /\ abort'.todo = {}
      BY <2>1 DEF AbortInv
    <2>3. QED
      BY <2>1, <2>2 DEF AbortInv
  <1>4. CASE AbortUnexpanded \/ AbortLost
    BY <1>4, <1>n DEF AbortUnexpanded, AbortLost
  <1>5. CASE AbortLoad
    <2>1. abort'.cancelled = {} /\ abort'.todo = Unfinished
      BY <1>5 DEF AbortLoad
    <2>2. UNCHANGED <<status, repeatExpanded>>
      BY <1>5 DEF AbortLoad, vars
    <2>3. Unfinished \subseteq Existing(status')
      BY <2>2 DEF Unfinished
    <2>4. QED
      BY <2>1, <2>2, <2>3 DEF AbortInv
  <1>6. CASE AbortPreflight
    <2>1. UNCHANGED <<status, rstatus, repeatExpanded>>
      BY <1>6 DEF AbortPreflight, vars, relayVars
    <2>2. CASE abort' = NoAbort
      BY <1>n, <2>1, <2>2
    <2>3. CASE abort' = [abort EXCEPT !.step = "cancel"]
      <3>1. abort'.cancelled = abort.cancelled /\ abort'.todo = abort.todo
        BY <2>3 DEF ATypeOK
      <3>2. QED
        BY <2>1, <3>1 DEF AbortInv
    <2>4. QED
      BY <1>6, <2>2, <2>3 DEF AbortPreflight
  <1>7. ASSUME NEW t \in Task, AbortCancelOne(t) PROVE AbortInv'
    <2>1. PICK out \in Outcome :
            /\ RelayCancel(t, out)
            /\ abort' = [abort EXCEPT
                 !.todo = @ \ {t},
                 !.step = IF abort.todo = {t} THEN "commit" ELSE "cancel",
                 !.cancelled = IF Cancelled(out) THEN @ \cup {t} ELSE @]
      BY <1>7 DEF AbortCancelOne
    <2>2. /\ abort'.todo = abort.todo \ {t}
          /\ abort'.cancelled = IF Cancelled(out) THEN abort.cancelled \cup {t} ELSE abort.cancelled
      BY <2>1 DEF ATypeOK
    <2>3. Cancelled(out) => rstatus'[t] = "EndAborted"
      BY <2>1 DEF RelayCancel, Cancelled, relayVars, TypeOK, RelayTypeOK
    <2>4. Kept
      <3>1. \A u \in Task : TaskMoves(u) /\ NoNewRequest(u)
        BY <1>7, CreatorStands DEF CreatorStep
      <3>2. QED
        BY <3>1, SoloRelayKeeps
    <2>5. UNCHANGED <<status, repeatExpanded>> /\ t \in abort.todo
      BY <1>7 DEF AbortCancelOne
    <2>6. \A u \in abort'.cancelled : rstatus'[u] = "EndAborted"
      BY <1>a, <2>2, <2>3, <2>4 DEF AbortInv
    <2>7. QED
      BY <2>2, <2>5, <2>6 DEF AbortInv
  <1>8. CASE AbortCommit
    <2>1. abort' = NoAbort /\ repeatExpanded' = repeatExpanded
      BY <1>8 DEF AbortCommit
    <2>2. status' = status \/ status' = SetAll(status, abort.cancelled, "EndAborted")
      BY <1>8 DEF AbortCommit, vars
    <2>3. Same
      BY <2>2 DEF SetAll, AbortInv, Existing
    <2>4. QED
      BY <1>n, <2>1, <2>3
  <1>9. CASE DispatchEnds \/ \E t \in Task : DecideRow(t) \/ MarkDecided(t)
    BY <1>9, <1>k DEF DispatchEnds, DecideRow, MarkDecided, MarkRunning, vars, relayVars
  <1>10. QED
    BY <1>1, <1>2, <1>3, <1>4, <1>5, <1>6, <1>7, <1>8, <1>9 DEF ANext

\* Rows that are validated alone agree with Relay while their creator aborts them, although an
\* abort may commit between the decision for a row and the start of its operation: whatever
\* such a late operation does to a row, Relay bears it out.
THEOREM AbortedRowsAgree ==
  ASSUME VSSGroups = {}, RelayMayForget = FALSE, HeartbeatLimit = FALSE
  PROVE  ASpec => [](TypeOK /\ ATypeOK /\ CancelInv /\ AbortInv)
  <1>1. AInit => AbortInv
    BY DEF AInit, AbortInv, NoAbort, Existing
  <1>2. AInit => CancelInv
    BY DEF AInit, CancelInv, Stands, RowStands, OpFits, AnswerStands, Answered, NoneDecided,
           NoDecision, IsReadyForValidation
  <1>3. TypeOK /\ ATypeOK /\ CancelInv /\ AbortInv /\ [ANext]_caVars => CancelInv'
    BY CancelInvStep
  <1>4. TypeOK /\ ATypeOK /\ CancelInv /\ AbortInv /\ [ANext]_caVars => AbortInv'
    BY AbortInvStep
  <1>5. QED
    BY <1>1, <1>2, <1>3, <1>4, AbortTypeCorrect, PTL DEF ASpec

\* When an abort has stopped the rows of its client task, none of their tasks waits or runs
\* at Relay: no row is aborted here on an answer that Relay did not give.
THEOREM AbortedTasksAreOver ==
  ASSUME VSSGroups = {}, RelayMayForget = FALSE, HeartbeatLimit = FALSE
  PROVE  ASpec => []NothingRunsAfterAbort
  <1>1. CancelInv => NothingRunsAfterAbort
    <2> SUFFICES ASSUME CancelInv, AllStopped(status), NEW t \in Existing(status)
                 PROVE  rstatus[t] \in ChainTaskTerminal \cup {"NotFound"}
      BY DEF NothingRunsAfterAbort
    <2>1. RowStands(t)
      BY DEF CancelInv, Stands, Existing
    <2>2. status[t] \in {"EndAborted", "EndInvalidated", "EndGroupRefund"}
      BY DEF AllStopped, Finished, FinishedStatus
    <2>3. QED
      BY <2>1, <2>2 DEF RowStands, Refused, ChainTaskTerminal
  <1>2. QED
    BY <1>1, AbortedRowsAgree, PTL
=============================================================================
