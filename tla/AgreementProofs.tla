-------------------------- MODULE AgreementProofs ---------------------------
(***************************************************************************)
(* What the rows of the bridge and the tasks of Relay know of each other,  *)
(* when Relay forgets no task and the client is not the heartbeat client:  *)
(* a row that is ready or aborted here stands for a task that Relay has    *)
(* taken out of its queue, a validation that Relay or the worker refused   *)
(* can never succeed later, and a request that is still on its way repeats *)
(* what the engine decided.  From this agreement it follows that the ends  *)
(* Relay reported stay, that Relay validates no group whose model files    *)
(* differ, and that the client task's outcome is the outcome of its rows.  *)
(*                                                                         *)
(* Nodes are assumed to record model files, because what the unit agrees   *)
(* on must be known.                                                       *)
(*                                                                         *)
(* Two parts stand beside it.  Under a Relay that aborts no task itself a  *)
(* group has one validation at a time.  And whatever Relay does, the       *)
(* bridge remembers that the answer to a mutation was lost.                *)
(***************************************************************************)
EXTENDS TaskEngineProofs, Reconciliation

-----------------------------------------------------------------------------
\* Validation units, and what Relay will never undo.

\* The rows that are validated together with t.
UnitOf(t) == IF TaskID[t] \in VSSGroups THEN GroupRows(TaskID[t]) ELSE {t}

\* Relay has finished executing the task, or has refused to create it.
SettledStatus == {"ScoreReady", "ErrorReported", "EndAborted"} \cup AfterValidation
Refused(t) == rstatus[t] = "NotFound" /\ t \in Rejected
Settled(t) == rstatus[t] \in SettledStatus \/ Refused(t)

After(t) == rstatus[t] \in AfterValidation

\* The tasks of t's unit ran the same model files, as far as they ran.
Agree(t) ==
  \A u, v \in UnitOf(t) : NoFiles \notin {rfiles[u], rfiles[v]} => rfiles[u] = rfiles[v]

\* No validation of t's unit that the bridge may send can succeed any more.
Hopeless(t) ==
  /\ \A u \in UnitOf(t) : Settled(u) /\ ~After(u)
  /\ ~Validatable(UnitOf(t)) \/ ~Agree(t)

\* The task has no result and will never have one.
Lost(t) ==
  \/ rstatus[t] \in {"EndAborted", "EndInvalidated", "EndGroupRefund"}
  \/ Refused(t) \/ Hopeless(t)

Answered(t, o) == op[t] = o /\ opStatus[t] = "completed"

\* The row holds the final model files of its task, and no answer that waits to
\* be applied takes them away.
Done(t) ==
  /\ Settled(t) /\ modelFiles[t] = rfiles[t]
  /\ Answered(t, "sync_status") => opResult[t].status \in SettledStatus \cup {"NotFound"}

-----------------------------------------------------------------------------
\* The agreement.

\* Relay records model files when a task leaves its queue, and validates only
\* settled units whose files agree.
RelayInv ==
  \A t \in Task :
    /\ rstatus[t] \in {"NotFound", "Queued"} => rfiles[t] = NoFiles
    /\ After(t) => Agree(t) /\ \A u \in UnitOf(t) : Settled(u)

\* What a stored answer says still holds when it is applied, however late.
StoredCreate(t) ==
  Answered(t, "create") =>
    \/ opResult[t].outcome \in {"created", "already_exists"} /\ rstatus[t] # "NotFound"
    \/ opResult[t].outcome = "temporary_error"
    \/ opResult[t].outcome = "permanent_error" /\ Refused(t)
StoredValidate(t) ==
  Answered(t, "validate") =>
    \/ opResult[t].outcome \in {"validated", "already_applied", "temporary_error"}
    \/ Hopeless(t)
StoredStatus(t) ==
  Answered(t, "sync_status") =>
    /\ opResult[t].status = "NotFound" => status[t] \in {"Pending", "EndAborted"}
    /\ opResult[t].status # "NotFound" => rstatus[t] # "NotFound"
    /\ opResult[t].status \in SettledStatus => Settled(t) /\ opResult[t].files = rfiles[t]
    /\ opResult[t].status \in {"EndAborted", "EndInvalidated", "EndGroupRefund"} =>
         rstatus[t] = opResult[t].status
StoredInv == \A t \in Task : StoredCreate(t) /\ StoredValidate(t) /\ StoredStatus(t)

\* What the status of a row says about its task.
RowAgrees(t) ==
  /\ status[t] \notin {"absent", "Pending", "EndAborted"} => rstatus[t] # "NotFound"
  /\ status[t] \in {"absent", "Pending"} => modelFiles[t] = NoFiles
  /\ IsReadyForValidation(status[t]) => Done(t) /\ (VSSGroups # {} => modelFiles[t] # NoFiles)
  /\ status[t] = "EndAborted" => Done(t) /\ Lost(t)
  /\ status[t] \in {"EndInvalidated", "EndGroupRefund"} => rstatus[t] = status[t]
RowInv == \A t \in Task : RowAgrees(t)

\* A validation is decided when every row of the unit is done, and the worker
\* compares the files that Relay compares.
WorkAgrees(t) ==
  op[t] = "validate" =>
    /\ \A u \in UnitOf(t) : Done(u)
    /\ worker[t] = "request" => Agree(t)
    /\ worker[t] = "refuse" => ~Agree(t)
WorkInv == \A t \in Task : WorkAgrees(t)

\* So does a request that outlived its worker.
LateInv ==
  \A r \in late : r.op = "validate" =>
    /\ r.unit = UnitOf(r.task) /\ Agree(r.task)
    /\ \A u \in r.unit : Settled(u)

\* A row that no VRF selected is the primary row of its group.
SoloInv == \A t \in Task : status[t] # "absent" => t \in Primary \/ TaskID[t] \in VSSGroups

\* What was shown before.
Known == TypeOK /\ StageInv /\ SuccessInv /\ VRFInv

AgreeInv == RelayInv /\ StoredInv /\ RowInv /\ WorkInv /\ LateInv /\ SoloInv

-----------------------------------------------------------------------------
\* Units partition the rows.
LEMMA UnitFacts ==
  ASSUME NEW t \in Task
  PROVE  /\ t \in UnitOf(t) /\ UnitOf(t) \subseteq Task
         /\ \A u \in UnitOf(t) : UnitOf(u) = UnitOf(t) /\ TaskID[u] = TaskID[t]
  BY DEF UnitOf, GroupRows

\* Every task of a unit sees the same agreement,
LEMMA SameUnit ==
  ASSUME NEW t \in Task, NEW u \in UnitOf(t)
  PROVE  (Agree(u) <=> Agree(t)) /\ (Hopeless(u) <=> Hopeless(t))
  BY UnitFacts DEF Agree, Hopeless

\* and tasks of different units are independent.
LEMMA OtherUnit ==
  ASSUME NEW t \in Task, NEW u \in Task, UnitOf(t) # UnitOf(u)
  PROVE  \A v \in UnitOf(t) : v \notin UnitOf(u)
  BY UnitFacts

\* The rows that a validation worker works on are the unit of its row.
LEMMA MembersAreUnit ==
  ASSUME SeedInv, SoloInv, NEW t \in Task, status[t] # "absent", seedSaved[t]
  PROVE  Members(t) = UnitOf(t)
  <1>1. CASE TaskID[t] \in VSSGroups
    BY <1>1 DEF SeedInv, GroupsAreSeeded, UnitOf, Members, MembersIn, GroupRows
  <1>2. CASE TaskID[t] \notin VSSGroups
    <2>1. \A u \in Members(t) : u \in GroupRows(TaskID[t]) \cap Primary
      BY <1>2 DEF SoloInv, Members, MembersIn, GroupRows
    <2>2. t \in Members(t) /\ TaskID[t] \in Groups
      BY DEF Members, MembersIn, Groups
    <2>3. IsFiniteSet(GroupRows(TaskID[t]) \cap Primary)
      BY FS_Subset, RelayAssumption DEF GroupRows
    <2>4. PICK x : GroupRows(TaskID[t]) \cap Primary = {x}
      BY <2>2, <2>3, FS_Singleton, EngineAssumption
    <2>5. Members(t) = {t}
      BY <2>1, <2>2, <2>4
    <2>6. QED
      BY <1>2, <2>5 DEF UnitOf
  <1>3. QED
    BY <1>1, <1>2

-----------------------------------------------------------------------------
\* What Relay does, when it forgets nothing.

\* The one step that touches several tasks.
LEMMA ValidateEffect ==
  ASSUME NEW unit, ValidateUnit(unit)
  PROVE  /\ rfiles' = rfiles
         /\ \A u \in Task :
              \/ rstatus'[u] = rstatus[u] /\ rreason'[u] = rreason[u]
              \/ /\ u \in unit /\ RelayReady(u)
                 /\ rstatus'[u] \in {"Validated", "GroupValidated", "EndGroupRefund",
                                     "EndInvalidated", "EndAborted"}
  BY DEF ValidateUnit

\* The other steps change one task only, and a task that was executed only by
\* a timeout.
LEMMA SingleEffect ==
  ASSUME RelayTypeOK, NEW t \in Task,
         RelayProgress(t) \/ \E out \in Outcome : RelayCreate(t, out) \/ RelayCancel(t, out)
  PROVE  \A u \in Task :
           \/ rstatus'[u] = rstatus[u] /\ rreason'[u] = rreason[u] /\ rfiles'[u] = rfiles[u]
           \/ /\ rstatus[u] \in {"Queued", "Started", "ParametersUploaded"}
              /\ rstatus'[u] \in {"Started", "ParametersUploaded", "ScoreReady", "ErrorReported",
                                  "EndAborted"}
           \/ /\ rstatus[u] = "NotFound" /\ u \notin Rejected /\ rfiles'[u] = rfiles[u]
              /\ rstatus'[u] = "Queued"
           \/ /\ RelayReady(u) /\ rfiles'[u] = rfiles[u]
              /\ rstatus'[u] = "EndAborted" /\ rreason'[u] = "CreatorValidationTimeout"
           \/ /\ rstatus[u] \in {"Validated", "GroupValidated"} /\ rfiles'[u] = rfiles[u]
              /\ rstatus'[u] \in {"EndSuccess", "EndGroupSuccess", "EndAborted"}
  <1> SUFFICES ASSUME NEW u \in Task PROVE
           \/ rstatus'[u] = rstatus[u] /\ rreason'[u] = rreason[u] /\ rfiles'[u] = rfiles[u]
           \/ /\ rstatus[u] \in {"Queued", "Started", "ParametersUploaded"}
              /\ rstatus'[u] \in {"Started", "ParametersUploaded", "ScoreReady", "ErrorReported",
                                  "EndAborted"}
           \/ /\ rstatus[u] = "NotFound" /\ u \notin Rejected /\ rfiles'[u] = rfiles[u]
              /\ rstatus'[u] = "Queued"
           \/ /\ RelayReady(u) /\ rfiles'[u] = rfiles[u]
              /\ rstatus'[u] = "EndAborted" /\ rreason'[u] = "CreatorValidationTimeout"
           \/ /\ rstatus[u] \in {"Validated", "GroupValidated"} /\ rfiles'[u] = rfiles[u]
              /\ rstatus'[u] \in {"EndSuccess", "EndGroupSuccess", "EndAborted"}
    OBVIOUS
  <1>1. CASE RelayProgress(t)
    <2>1. PICK c \in Onward(rstatus[t]) :
            /\ rstatus' = [rstatus EXCEPT ![t] = c]
            /\ IF c = "EndAborted"
                 THEN rreason' = [rreason EXCEPT ![t] =
                        IF RelayReady(t) THEN "CreatorValidationTimeout" ELSE "Other"]
                 ELSE UNCHANGED rreason
            /\ IF rstatus[t] = "Queued" /\ c # "EndAborted"
                 THEN \E f \in ExecFiles : rfiles' = [rfiles EXCEPT ![t] = f]
                 ELSE UNCHANGED rfiles
      BY <1>1 DEF RelayProgress
    <2>2. CASE u # t
      BY <2>1, <2>2 DEF RelayTypeOK
    <2>3. CASE u = t
      <3>1. /\ rstatus'[t] = c
            /\ RelayReady(t) /\ c = "EndAborted" => rreason'[t] = "CreatorValidationTimeout"
            /\ rstatus[t] # "Queued" => rfiles'[t] = rfiles[t]
        BY <2>1 DEF RelayTypeOK
      <3>2. QED
        BY <2>3, <3>1 DEF Onward, RelayReady, RelayTypeOK
    <2>4. QED
      BY <2>2, <2>3
  <1>2. ASSUME NEW out \in Outcome, RelayCreate(t, out) PROVE
           \/ rstatus'[u] = rstatus[u] /\ rreason'[u] = rreason[u] /\ rfiles'[u] = rfiles[u]
           \/ /\ rstatus[u] = "NotFound" /\ u \notin Rejected /\ rfiles'[u] = rfiles[u]
              /\ rstatus'[u] = "Queued"
    BY <1>2 DEF RelayCreate, RelayTypeOK, relayVars
  <1>3. ASSUME NEW out \in Outcome, RelayCancel(t, out) PROVE
           \/ rstatus'[u] = rstatus[u] /\ rreason'[u] = rreason[u] /\ rfiles'[u] = rfiles[u]
           \/ rstatus[u] = "Queued" /\ rstatus'[u] = "EndAborted"
    BY <1>3 DEF RelayCancel, RelayTypeOK, relayVars
  <1>4. QED
    BY <1>1, <1>2, <1>3

\* The requests that reach Relay are creations and cancellations, and
\* validations of settled units whose files agree.
LEMMA RelayActs ==
  ASSUME RelayMayForget = FALSE, Known, AgreeInv, [Next]_vars
  PROVE  \/ UNCHANGED relayVars
         \/ \E t \in Task : \/ RelayProgress(t)
                            \/ \E out \in Outcome : RelayCreate(t, out) \/ RelayCancel(t, out)
         \/ \E t \in Task : /\ \E out \in Outcome : RelayValidate(UnitOf(t), out)
                            /\ Agree(t) /\ \A u \in UnitOf(t) : Settled(u)
  <1> DEFINE Goal ==
         \/ UNCHANGED relayVars
         \/ \E t \in Task : \/ RelayProgress(t)
                            \/ \E out \in Outcome : RelayCreate(t, out) \/ RelayCancel(t, out)
         \/ \E t \in Task : /\ \E out \in Outcome : RelayValidate(UnitOf(t), out)
                            /\ Agree(t) /\ \A u \in UnitOf(t) : Settled(u)
  <1>1. ASSUME NEW t \in Task, Dispatch(t) \/ WorkerFails(t) \/ Apply(t) PROVE UNCHANGED relayVars
    BY <1>1
    DEF Dispatch, MarkRunning, WorkerFails, Apply, ApplyFailed, ApplyStatusNotFound, ApplyStatusKeepsAbort,
        ApplyStatusTimedOut, ApplyStatus, ApplyCreate, ApplyValidate, ApplyCancel, ApplyDownload, ApplyTail
  <1>2. ASSUME NEW t \in Task, AnswerValidate(t) PROVE Goal
    <2>1. op[t] = "validate" /\ status[t] # "absent" /\ seedSaved[t]
      BY <1>2 DEF AnswerValidate, Working, Known, StageInv, VRFInv, SeedInv, UpForValidation
    <2>2. Members(t) = UnitOf(t)
      BY <2>1, MembersAreUnit DEF Known, VRFInv, AgreeInv
    <2>3. CASE worker[t] = "refuse"
      BY <1>2, <2>3 DEF AnswerValidate
    <2>4. CASE worker[t] # "refuse"
      <3>1. worker[t] = "request"
        BY <1>2, <2>4 DEF AnswerValidate, Working, Known, TypeOK
      <3>2. Agree(t) /\ \A u \in UnitOf(t) : Settled(u)
        BY <2>1, <3>1 DEF AgreeInv, WorkInv, WorkAgrees, Done
      <3>3. \E out \in Outcome : RelayValidate(UnitOf(t), out)
        BY <1>2, <2>2, <2>4 DEF AnswerValidate
      <3>4. QED
        BY <3>2, <3>3
    <2>5. QED
      BY <2>3, <2>4
  <1>3. ASSUME NEW t \in Task, Answer(t), ~AnswerValidate(t) PROVE Goal
    BY <1>3 DEF Answer, AnswerStatus, AnswerCreate, AnswerCancel, AnswerResult
  <1>4. CASE Crash \/ Recover \/ RecoveryFails
    BY <1>4 DEF Crash, Recover, RecoverOperations, RecoverGroup, RecoverClientTask, RecoveryFails
  <1>5. ASSUME NEW t \in Task, RelayMoves(t) \/ RelayLoses(t) PROVE RelayProgress(t)
    BY <1>5 DEF RelayMoves, RelayLoses
  <1>6. ASSUME NEW r \in late, LateRequest(r) PROVE Goal
    <2>1. r.task \in Task /\ r.op \in MutationOp
      BY DEF Known, TypeOK, Request
    <2>2. CASE r.op = "validate"
      <3>1. /\ r.unit = UnitOf(r.task) /\ Agree(r.task)
            /\ \A u \in UnitOf(r.task) : Settled(u)
        BY <2>2 DEF AgreeInv, LateInv
      <3>2. \E out \in Outcome : RelayValidate(UnitOf(r.task), out)
        BY <1>6, <2>2, <3>1 DEF LateRequest
      <3>3. QED
        BY <2>1, <3>1, <3>2
    <2>3. CASE r.op # "validate"
      BY <1>6, <2>1, <2>3 DEF LateRequest, MutationOp
    <2>4. QED
      BY <2>2, <2>3
  <1>7. CASE UNCHANGED vars
    BY <1>7 DEF vars
  <1>8. QED
    BY <1>1, <1>2, <1>3, <1>4, <1>5, <1>6, <1>7 DEF Next, Beside

\* What Relay has settled is settled for good, with its files.
RelayKeeps ==
  \A u \in Task :
    /\ rstatus[u] # "NotFound" => rstatus'[u] # "NotFound"
    /\ Refused(u) => Refused(u)'
    /\ Settled(u) => Settled(u)' /\ rfiles'[u] = rfiles[u]
    /\ rstatus[u] \in ChainTaskTerminal => rstatus'[u] = rstatus[u]
    /\ Hopeless(u) => Hopeless(u)'

\* If the tasks of a unit are settled, its agreement does not change.
LEMMA AgreementStays ==
  ASSUME NEW t \in Task, \A u \in UnitOf(t) : rfiles'[u] = rfiles[u]
  PROVE  Agree(t)' <=> Agree(t)
  BY DEF Agree, UnitOf, GroupRows

\* The fate of a task that waits for its validation in vain.
LEMMA HopelessStays ==
  ASSUME NEW t \in Task, Hopeless(t),
         \A u \in UnitOf(t) :
           /\ rfiles'[u] = rfiles[u]
           /\ \/ rstatus'[u] = rstatus[u] /\ rreason'[u] = rreason[u]
              \/ /\ rstatus'[u] = "EndAborted"
                 /\ rreason'[u] = "CreatorValidationTimeout"
  PROVE  Hopeless(t)'
  <1>1. UnitOf(t)' = UnitOf(t)
    BY DEF UnitOf, GroupRows
  <1>2. Agree(t)' <=> Agree(t)
    BY AgreementStays
  <1>3. \A u \in UnitOf(t) : Settled(u)' /\ ~After(u)'
    BY DEF Hopeless, Settled, After, Refused, SettledStatus, AfterValidation
  <1>4. ASSUME Validatable(UnitOf(t))' PROVE Validatable(UnitOf(t))
    <2>1. \A u \in UnitOf(t) : rstatus'[u] = rstatus[u] /\ rreason'[u] = rreason[u]
      BY <1>1, <1>4 DEF Validatable, RelayReady
    <2>2. QED
      BY <1>1, <1>4, <2>1 DEF Validatable, RelayReady
  <1>5. QED
    BY <1>1, <1>2, <1>3, <1>4 DEF Hopeless

\* No step of a Relay that forgets nothing undoes what it settled.
LEMMA RelayKeepsStep ==
  ASSUME RelayMayForget = FALSE, Known, AgreeInv, [Next]_vars PROVE RelayKeeps
  <1>t. RelayTypeOK
    BY DEF Known, TypeOK
  <1>1. CASE UNCHANGED relayVars
    <2>1. rstatus' = rstatus /\ rreason' = rreason /\ rfiles' = rfiles
      BY <1>1 DEF relayVars
    <2>2. \A u \in Task : Hopeless(u) => Hopeless(u)'
      BY <2>1, UnitFacts, HopelessStays
    <2>3. QED
      BY <2>1, <2>2 DEF RelayKeeps, Refused, Settled
  <1>2. ASSUME NEW t \in Task,
               RelayProgress(t) \/ \E out \in Outcome : RelayCreate(t, out) \/ RelayCancel(t, out),
               NEW u \in Task
        PROVE  /\ rstatus[u] # "NotFound" => rstatus'[u] # "NotFound"
               /\ Refused(u) => Refused(u)'
               /\ Settled(u) => Settled(u)' /\ rfiles'[u] = rfiles[u]
               /\ rstatus[u] \in ChainTaskTerminal => rstatus'[u] = rstatus[u]
               /\ Hopeless(u) => Hopeless(u)'
    <2>1. \A v \in Task : Settled(v) /\ ~After(v) =>
            /\ rfiles'[v] = rfiles[v]
            /\ \/ rstatus'[v] = rstatus[v] /\ rreason'[v] = rreason[v]
               \/ rstatus'[v] = "EndAborted" /\ rreason'[v] = "CreatorValidationTimeout"
      BY <1>2, <1>t, SingleEffect DEF Settled, After, Refused, SettledStatus, AfterValidation
    <2>2. Hopeless(u) => Hopeless(u)'
      BY <2>1, UnitFacts, HopelessStays DEF Hopeless
    <2>3. QED
      BY <1>2, <1>t, <2>2, SingleEffect
      DEF Refused, Settled, SettledStatus, AfterValidation, ChainTaskTerminal, RelayReady
  <1>3. ASSUME NEW t \in Task, NEW out \in Outcome, RelayValidate(UnitOf(t), out), Agree(t),
               \A u \in UnitOf(t) : Settled(u), ~UNCHANGED relayVars,
               NEW u \in Task
        PROVE  /\ rstatus[u] # "NotFound" => rstatus'[u] # "NotFound"
               /\ Refused(u) => Refused(u)'
               /\ Settled(u) => Settled(u)' /\ rfiles'[u] = rfiles[u]
               /\ rstatus[u] \in ChainTaskTerminal => rstatus'[u] = rstatus[u]
               /\ Hopeless(u) => Hopeless(u)'
    <2>1. ValidateUnit(UnitOf(t)) /\ Validatable(UnitOf(t))
      BY <1>3 DEF RelayValidate
    <2>2. ASSUME Hopeless(u) PROVE Hopeless(u)'
      <3>1. UnitOf(u) # UnitOf(t)
        BY <1>3, <2>1, <2>2, UnitFacts, SameUnit DEF Hopeless
      <3>2. \A v \in UnitOf(u) : v \in Task /\ v \notin UnitOf(t)
        BY <3>1, OtherUnit, UnitFacts
      <3>3. QED
        BY <2>1, <2>2, <3>2, ValidateEffect, HopelessStays
    <2>3. QED
      BY <2>1, <2>2, ValidateEffect
      DEF Refused, Settled, SettledStatus, AfterValidation, ChainTaskTerminal, RelayReady
  <1>4. QED
    BY <1>1, <1>2, <1>3, RelayActs DEF RelayKeeps

\* Every step preserves RelayInv.
LEMMA RelayInvStep ==
  ASSUME RelayMayForget = FALSE, Known, AgreeInv, [Next]_vars PROVE RelayInv'
  <1>t. RelayTypeOK /\ RelayInv
    BY DEF Known, TypeOK, AgreeInv
  <1>k. RelayKeeps
    BY RelayKeepsStep
  <1>u. \A u \in Task : UnitOf(u)' = UnitOf(u)
    BY DEF UnitOf, GroupRows
  <1>a. ASSUME NEW u \in Task, After(u) \/ (Agree(u) /\ \A v \in UnitOf(u) : Settled(v))
        PROVE  Agree(u)' /\ \A v \in UnitOf(u)' : Settled(v)'
    <2>1. Agree(u) /\ \A v \in UnitOf(u) : Settled(v)
      BY <1>a, <1>t DEF RelayInv
    <2>2. \A v \in UnitOf(u) : Settled(v)' /\ rfiles'[v] = rfiles[v]
      BY <2>1, <1>k, UnitFacts DEF RelayKeeps
    <2>3. QED
      BY <2>1, <2>2, <1>u, AgreementStays
  <1>s. ASSUME \A u \in Task :
                 /\ rstatus'[u] \in {"NotFound", "Queued"} => rfiles'[u] = NoFiles
                 /\ After(u)' => After(u) \/ (Agree(u) /\ \A v \in UnitOf(u) : Settled(v))
        PROVE  RelayInv'
    BY <1>s, <1>a DEF RelayInv
  <1>1. CASE UNCHANGED relayVars
    BY <1>1, <1>s, <1>t DEF RelayInv, relayVars, After
  <1>2. ASSUME NEW t \in Task,
               RelayProgress(t) \/ \E out \in Outcome : RelayCreate(t, out) \/ RelayCancel(t, out)
        PROVE  RelayInv'
    BY <1>2, <1>t, <1>s, SingleEffect DEF RelayInv, After, AfterValidation
  <1>3. ASSUME NEW t \in Task, NEW out \in Outcome, RelayValidate(UnitOf(t), out), Agree(t),
               \A u \in UnitOf(t) : Settled(u), ~UNCHANGED relayVars
        PROVE  RelayInv'
    <2>1. ValidateUnit(UnitOf(t))
      BY <1>3 DEF RelayValidate
    <2>2. ASSUME NEW u \in Task
          PROVE  /\ rstatus'[u] \in {"NotFound", "Queued"} => rfiles'[u] = NoFiles
                 /\ After(u)' => After(u) \/ u \in UnitOf(t)
      BY <2>1, <1>t, ValidateEffect DEF RelayInv, After
    <2>3. \A u \in UnitOf(t) : Agree(u) /\ \A v \in UnitOf(u) : Settled(v)
      BY <1>3, UnitFacts, SameUnit
    <2>4. \A u \in Task :
            /\ rstatus'[u] \in {"NotFound", "Queued"} => rfiles'[u] = NoFiles
            /\ After(u)' => After(u) \/ (Agree(u) /\ \A v \in UnitOf(u) : Settled(v))
      BY <2>2, <2>3
    <2>5. QED
      BY <2>4, <1>s
  <1>4. QED
    BY <1>1, <1>2, <1>3, RelayActs

-----------------------------------------------------------------------------
\* Rows and answers that a step leaves alone.

\* An answer that is stored after a step was stored before it, or tells what
\* Relay says of a settled task.
TrueAnswer(u) ==
  Answered(u, "sync_status")' =>
    \/ Answered(u, "sync_status") /\ opResult'[u] = opResult[u]
    \/ Settled(u) => opResult'[u].status \in SettledStatus \cup {"NotFound"}

\* A lost task stays lost,
LEMMA LostStays ==
  ASSUME RelayKeeps, NEW u \in Task, Lost(u) PROVE Lost(u)'
  BY DEF RelayKeeps, Lost, ChainTaskTerminal

\* and a row that is done stays done unless its files are rewritten.
LEMMA DoneKept ==
  ASSUME RelayKeeps, NEW u \in Task, Done(u), TrueAnswer(u), modelFiles'[u] = modelFiles[u]
  PROVE  Done(u)'
  BY DEF RelayKeeps, Done, TrueAnswer

\* A row whose status and files do not change still agrees with Relay.
LEMMA RowKept ==
  ASSUME RelayKeeps, NEW u \in Task, RowAgrees(u), TrueAnswer(u),
         status'[u] = status[u], modelFiles'[u] = modelFiles[u]
  PROVE  RowAgrees(u)'
  <1>1. Done(u) => Done(u)'
    BY DoneKept
  <1>2. Lost(u) => Lost(u)'
    BY LostStays
  <1>3. /\ rstatus[u] # "NotFound" => rstatus'[u] # "NotFound"
        /\ rstatus[u] \in {"EndInvalidated", "EndGroupRefund"} => rstatus'[u] = rstatus[u]
    BY DEF RelayKeeps, ChainTaskTerminal
  <1>4. QED
    BY <1>1, <1>2, <1>3 DEF RowAgrees

\* A stored answer stays true as Relay goes on.
LEMMA StoredKept ==
  ASSUME RelayKeeps, NEW u \in Task, StoredCreate(u), StoredValidate(u), StoredStatus(u),
         opStatus'[u] = "completed" =>
           op'[u] = op[u] /\ opStatus[u] = "completed" /\ opResult'[u] = opResult[u],
         op[u] # "none" /\ status[u] \in {"Pending", "EndAborted"} =>
           status'[u] \in {"Pending", "EndAborted"}
  PROVE  StoredCreate(u)' /\ StoredValidate(u)' /\ StoredStatus(u)'
  <1>1. StoredCreate(u)' /\ StoredValidate(u)'
    BY DEF RelayKeeps, StoredCreate, StoredValidate, Answered
  <1>2. StoredStatus(u)'
    BY DEF RelayKeeps, StoredStatus, Answered, ChainTaskTerminal
  <1>3. QED
    BY <1>1, <1>2

-----------------------------------------------------------------------------
\* The workers' answers.

\* What a worker stores is true when it stores it.
LEMMA AnswerIsTrue ==
  ASSUME Known, AgreeInv, RelayKeeps, NEW t \in Task, Answer(t)
  PROVE  StoredCreate(t)' /\ StoredValidate(t)' /\ StoredStatus(t)' /\ TrueAnswer(t)
  <1>o. op' = op /\ status' = status /\ status[t] # "absent"
    BY DEF Answer, AnswerStatus, AnswerCreate, AnswerValidate, AnswerCancel, AnswerResult,
           WriteOutcome, WriteCompleted, Working, Known, StageInv
  <1>r. ASSUME NEW out \in Outcome, WriteOutcome(t, out) PROVE opResult'[t].outcome = out
    <2>1. opResult' = [opResult EXCEPT ![t] = [NoResult EXCEPT !.outcome = out]]
      BY <1>r DEF WriteOutcome, WriteCompleted
    <2>2. QED
      BY <2>1 DEF Known, TypeOK, NoResult
  <1>1. CASE AnswerStatus(t)
    <2>1. /\ opResult'[t].status = rstatus[t] /\ opResult'[t].files = rfiles[t]
          /\ op[t] = "sync_status" /\ rstatus' = rstatus /\ rfiles' = rfiles
      BY <1>1 DEF AnswerStatus, WriteCompleted, Working, Known, TypeOK, relayVars
    <2>2. rstatus[t] = "NotFound" => status[t] \in {"Pending", "EndAborted"}
      BY <1>o DEF AgreeInv, RowInv, RowAgrees
    <2>3. rstatus[t] \in SettledStatus => Settled(t)'
      BY <2>1 DEF Settled
    <2>4. StoredStatus(t)'
      BY <2>1, <2>2, <2>3, <1>o DEF StoredStatus
    <2>5. TrueAnswer(t)
      BY <2>1 DEF TrueAnswer, Settled, Refused
    <2>6. QED
      BY <2>1, <2>4, <2>5, <1>o DEF StoredCreate, StoredValidate, Answered
  <1>2. CASE AnswerCreate(t)
    <2>1. op[t] = "create"
      BY <1>2 DEF AnswerCreate, Working
    <2>2. PICK out \in Outcome : RelayCreate(t, out) /\ WriteOutcome(t, out)
      BY <1>2 DEF AnswerCreate
    <2>3. opResult'[t].outcome = out
      BY <2>2, <1>r
    <2>4. \/ out \in {"created", "already_exists"} /\ rstatus'[t] # "NotFound"
          \/ out = "temporary_error"
          \/ out = "permanent_error" /\ Refused(t)'
      BY <2>2 DEF RelayCreate, Refused, Known, TypeOK, RelayTypeOK, relayVars
    <2>5. QED
      BY <2>1, <2>3, <2>4, <1>o DEF StoredCreate, StoredValidate, StoredStatus, TrueAnswer, Answered
  <1>3. CASE AnswerValidate(t)
    <2>1. op[t] = "validate" /\ seedSaved[t]
      BY <1>3 DEF AnswerValidate, Working, Known, VRFInv, SeedInv, UpForValidation
    <2>2. Members(t) = UnitOf(t)
      BY <2>1, <1>o, MembersAreUnit DEF Known, VRFInv, AgreeInv
    <2>3. WorkAgrees(t) /\ \A u \in UnitOf(t) : Settled(u)
      BY <2>1 DEF AgreeInv, WorkInv, WorkAgrees, Done
    <2>4. opResult'[t].outcome \in {"validated", "already_applied", "temporary_error"} \/ Hopeless(t)'
      <3>1. CASE worker[t] = "refuse"
        <4>1. ~Agree(t)
          BY <2>1, <2>3, <3>1 DEF WorkAgrees
        <4>2. \A u \in UnitOf(t) : ~After(u)
          BY <4>1, UnitFacts, SameUnit DEF AgreeInv, RelayInv
        <4>3. Hopeless(t)
          BY <2>3, <4>1, <4>2 DEF Hopeless
        <4>4. QED
          BY <4>3 DEF RelayKeeps
      <3>2. CASE worker[t] # "refuse"
        <4>1. PICK out \in Outcome : RelayValidate(UnitOf(t), out) /\ WriteOutcome(t, out)
          BY <1>3, <2>2, <3>2 DEF AnswerValidate
        <4>2. opResult'[t].outcome = out
          BY <4>1, <1>r
        <4>3. CASE out = "permanent_error"
          <5>1. Hopeless(t)
            BY <4>1, <4>3, <2>3 DEF RelayValidate, Hopeless, AlreadyValidated, After
          <5>2. QED
            BY <5>1 DEF RelayKeeps
        <4>4. CASE out # "permanent_error"
          BY <4>1, <4>2, <4>4 DEF RelayValidate
        <4>5. QED
          BY <4>3, <4>4
      <3>3. QED
        BY <3>1, <3>2
    <2>5. QED
      BY <2>1, <2>4, <1>o DEF StoredCreate, StoredValidate, StoredStatus, TrueAnswer, Answered
  <1>4. CASE AnswerCancel(t) \/ AnswerResult(t)
    <2>1. op[t] \in {"cancel", "result"}
      BY <1>4 DEF AnswerCancel, AnswerResult, Working
    <2>2. QED
      BY <2>1, <1>o DEF StoredCreate, StoredValidate, StoredStatus, TrueAnswer, Answered
  <1>5. QED
    BY <1>1, <1>2, <1>3, <1>4 DEF Answer

-----------------------------------------------------------------------------
\* The transactions that apply an answer.

\* relayStatusToLocal can be read backwards where it matters.
LEMMA LocalInverse ==
  ASSUME NEW c \in ChainStatus, c # "NotFound"
  PROVE  /\ RelayStatusToLocal(c) \notin {"absent", "Pending"}
         /\ IsReadyForValidation(RelayStatusToLocal(c)) => c \in {"ScoreReady", "ErrorReported"}
         /\ RelayStatusToLocal(c) \in {"EndAborted", "EndInvalidated", "EndGroupRefund"} =>
              c = RelayStatusToLocal(c)
  BY DEF RelayStatusToLocal, IsReadyForValidation

\* Every transaction clears the operation of its row, and no other, and leaves
\* Relay and the workers alone.
LEMMA ApplyClears ==
  ASSUME TypeOK, NEW t \in Task, Apply(t)
  PROVE  /\ op' = [op EXCEPT ![t] = "none"] /\ opStatus' = [opStatus EXCEPT ![t] = "none"]
         /\ \A u \in Task : u # t => opResult'[u] = opResult[u]
         /\ UNCHANGED <<worker, late, relayVars>>
         /\ \A u \in Task : TrueAnswer(u)
  <1>1. /\ op' = [op EXCEPT ![t] = "none"] /\ opStatus' = [opStatus EXCEPT ![t] = "none"]
        /\ opResult' = [opResult EXCEPT ![t] = NoResult]
        /\ UNCHANGED <<worker, late, relayVars>>
    BY DEF Apply, ApplyFailed, ApplyStatusNotFound, ApplyStatusKeepsAbort, ApplyStatusTimedOut,
           ApplyStatus, ApplyCreate, ApplyValidate, ApplyCancel, ApplyDownload, ApplyTail, envVars
  <1>2. \A u \in Task : TrueAnswer(u)
    BY <1>1 DEF TypeOK, TrueAnswer, Answered
  <1>3. QED
    BY <1>1, <1>2 DEF TypeOK

\* The ordinary application of a status brings the row to what Relay reported.
LEMMA ApplyStatusAgrees ==
  ASSUME Known, AgreeInv, RelayKeeps, NEW t \in Task, ApplyStatus(t), NEW u \in Task
  PROVE  /\ RowAgrees(u)'
         /\ Done(u) => Done(u)'
         /\ op[u] # "none" /\ u # t => status'[u] = status[u]
         /\ status'[u] # "absent" => u \in Primary \/ TaskID[u] \in VSSGroups
  <1> DEFINE c  == opResult[t].status
             st == SetAll([status EXCEPT ![t] = RelayStatusToLocal(c)], NewMembers(t), "Pending")
  <1>a. Apply(t)
    BY DEF Apply
  <1>c. TypeOK /\ RowAgrees(u)
    BY DEF Known, AgreeInv, RowInv
  <1>d. /\ UNCHANGED relayVars /\ \A v \in Task : TrueAnswer(v)
        /\ opStatus'[t] = "none"
    BY <1>a, <1>c, ApplyClears DEF TypeOK
  <1>1. /\ status' = st /\ modelFiles' = [modelFiles EXCEPT ![t] = opResult[t].files]
        /\ Answered(t, "sync_status") /\ c # "NotFound"
    BY DEF ApplyStatus, ApplyTail, Applicable, Answered
  <1>2. status[t] # "absent" /\ c \in ChainStatus
    BY <1>1, <1>c DEF Known, StageInv, Answered, TypeOK, Result
  <1>3. /\ t \notin NewMembers(t)
        /\ \A v \in NewMembers(t) : v \in Task /\ v # t /\ TaskID[v] = TaskID[t] /\ status[v] = "absent"
        /\ NewMembers(t) # {} => TaskID[t] \in VSSGroups
    BY <1>2, NewMembersAreNew DEF NewMembers, GroupRows
  <1>4. /\ status'[t] = RelayStatusToLocal(c) /\ modelFiles'[t] = opResult[t].files
        /\ \A v \in NewMembers(t) : status'[v] = "Pending" /\ modelFiles'[v] = modelFiles[v]
        /\ \A v \in Task : v # t /\ v \notin NewMembers(t) =>
             status'[v] = status[v] /\ modelFiles'[v] = modelFiles[v]
    BY <1>1, <1>3, <1>c DEF SetAll, TypeOK
  <1>5. /\ rstatus[t] # "NotFound"
        /\ c \in SettledStatus => Settled(t) /\ opResult[t].files = rfiles[t]
        /\ c \in {"EndAborted", "EndInvalidated", "EndGroupRefund"} => rstatus[t] = c
        /\ c \in Ran /\ VSSGroups # {} => opResult[t].files # NoFiles
    BY <1>1 DEF AgreeInv, StoredInv, StoredStatus, Known, VRFInv, AnswersHaveFiles
  <1>6. rstatus' = rstatus /\ rfiles' = rfiles
    BY <1>d DEF relayVars
  <1> HIDE DEF c, st
  <1>7. CASE u = t
    <2>1. ~Answered(t, "sync_status")'
      BY <1>d DEF Answered
    <2>2. c \in SettledStatus => Done(t)'
      BY <1>4, <1>5, <1>6, <2>1, <1>c DEF Done, RelayKeeps
    <2>3. Done(t) => c \in SettledStatus
      BY <1>1 DEF Done, c
    <2>4. /\ IsReadyForValidation(status'[t]) =>
                c \in SettledStatus /\ (VSSGroups # {} => opResult[t].files # NoFiles)
          /\ status'[t] = "EndAborted" => c \in SettledStatus /\ rstatus[t] = "EndAborted"
          /\ status'[t] \in {"EndInvalidated", "EndGroupRefund"} => rstatus[t] = status'[t]
          /\ status'[t] \notin {"absent", "Pending"}
      BY <1>1, <1>2, <1>4, <1>5, LocalInverse DEF SettledStatus, Ran, ChainStatus
    <2>5. rstatus[t] = "EndAborted" => Lost(t)'
      BY <1>6 DEF Lost
    <2>6. RowAgrees(t)'
      BY <1>4, <1>5, <1>6, <2>2, <2>4, <2>5 DEF RowAgrees
    <2>7. QED
      BY <1>2, <1>7, <2>2, <2>3, <2>6 DEF AgreeInv, SoloInv
  <1>8. CASE u \in NewMembers(t)
    <2>1. status[u] = "absent" /\ status'[u] = "Pending" /\ modelFiles'[u] = modelFiles[u]
      BY <1>3, <1>4, <1>8
    <2>2. RowAgrees(u)'
      BY <1>c, <2>1 DEF RowAgrees, IsReadyForValidation
    <2>3. op[u] = "none"
      BY <2>1 DEF Known, StageInv
    <2>4. QED
      BY <1>3, <1>8, <1>d, <2>1, <2>2, <2>3, DoneKept
  <1>9. CASE u # t /\ u \notin NewMembers(t)
    <2>1. status'[u] = status[u] /\ modelFiles'[u] = modelFiles[u]
      BY <1>4, <1>9
    <2>2. QED
      BY <2>1, <1>c, <1>d, RowKept, DoneKept DEF AgreeInv, SoloInv
  <1>10. QED
    BY <1>7, <1>8, <1>9

\* So do the other transactions: a row they abort stands for a lost task.
LEMMA ApplyAgrees ==
  ASSUME HeartbeatLimit = FALSE, Known, AgreeInv, RelayKeeps, NEW t \in Task, Apply(t),
         NEW u \in Task
  PROVE  /\ RowAgrees(u)'
         /\ Done(u) => Done(u)'
         /\ op[u] # "none" /\ u # t => status'[u] \in {status[u], "EndAborted"}
         /\ status'[u] # "absent" => u \in Primary \/ TaskID[u] \in VSSGroups
  <1> DEFINE Goal ==
         /\ RowAgrees(u)'
         /\ Done(u) => Done(u)'
         /\ op[u] # "none" /\ u # t => status'[u] \in {status[u], "EndAborted"}
         /\ status'[u] # "absent" => u \in Primary \/ TaskID[u] \in VSSGroups
  <1>c. TypeOK /\ RowAgrees(u)
    BY DEF Known, AgreeInv, RowInv
  <1>d. /\ UNCHANGED relayVars /\ \A v \in Task : TrueAnswer(v)
        /\ opStatus'[t] = "none"
    BY <1>c, ApplyClears DEF TypeOK
  <1>k. ASSUME status'[u] = status[u], modelFiles'[u] = modelFiles[u] PROVE Goal
    BY <1>k, <1>c, <1>d, RowKept, DoneKept DEF AgreeInv, SoloInv
  <1>1. CASE ApplyFailed(t) \/ ApplyStatusKeepsAbort(t) \/ ApplyCancel(t)
    BY <1>1, <1>k DEF ApplyFailed, ApplyStatusKeepsAbort, ApplyCancel, ApplyTail
  <1>2. CASE ApplyStatusNotFound(t)
    <2>1. status[t] \in {"Pending", "EndAborted"}
      BY <1>2 DEF ApplyStatusNotFound, Applicable, AgreeInv, StoredInv, StoredStatus, Answered
    <2>2. status'[u] = status[u] /\ modelFiles' = modelFiles
      BY <1>2, <1>c, <2>1 DEF ApplyStatusNotFound, ApplyTail, TypeOK
    <2>3. QED
      BY <2>2, <1>k
  <1>3. CASE ApplyStatusTimedOut(t)
    BY <1>3 DEF ApplyStatusTimedOut
  <1>4. CASE ApplyStatus(t)
    BY <1>4, ApplyStatusAgrees
  <1>5. CASE ApplyCreate(t)
    <2>1. Answered(t, "create") /\ status[t] = "Pending" /\ modelFiles' = modelFiles
      BY <1>5 DEF ApplyCreate, Applicable, Answered, Known, StageInv
    <2>2. \/ status' = [status EXCEPT ![t] = "Created"] /\ rstatus[t] # "NotFound"
          \/ status' = status
          \/ status' = [status EXCEPT ![t] = "EndAborted"] /\ Refused(t)
      BY <1>5, <2>1 DEF ApplyCreate, ApplyTail, CreationAccepted, AgreeInv, StoredInv, StoredCreate
    <2>3. CASE u # t \/ status' = status
      BY <2>1, <2>2, <2>3, <1>c, <1>k DEF TypeOK
    <2>4. CASE u = t /\ status' = [status EXCEPT ![t] = "Created"] /\ rstatus[t] # "NotFound"
      <3>1. status'[t] = "Created" /\ rstatus'[t] # "NotFound"
        BY <2>4, <1>c, <1>d DEF TypeOK, relayVars
      <3>2. Done(u) => Done(u)'
        BY <2>1, <1>d, DoneKept
      <3>3. QED
        BY <2>1, <2>4, <3>1, <3>2 DEF RowAgrees, IsReadyForValidation, AgreeInv, SoloInv
    <2>5. CASE u = t /\ status' = [status EXCEPT ![t] = "EndAborted"] /\ Refused(t)
      <3>1. status'[t] = "EndAborted"
        BY <2>5, <1>c DEF TypeOK
      <3>2. modelFiles[t] = rfiles[t]
        BY <2>1, <2>5, <1>c DEF RowAgrees, AgreeInv, RelayInv, Refused
      <3>3. Done(t)' /\ Lost(t)'
        BY <2>1, <2>5, <3>2, <1>d DEF Done, Lost, Settled, Refused, relayVars, Answered
      <3>4. QED
        BY <2>1, <2>5, <3>1, <3>3 DEF RowAgrees, IsReadyForValidation, AgreeInv, SoloInv
    <2>6. QED
      BY <2>2, <2>3, <2>4, <2>5
  <1>6. CASE ApplyValidate(t)
    <2>1. Answered(t, "validate") /\ modelFiles' = modelFiles
      BY <1>6 DEF ApplyValidate, Applicable, Answered
    <2>2. \/ status' = status
          \/ status' = SetAll(status, Members(t), "EndAborted") /\ Hopeless(t)
      BY <1>6, <2>1 DEF ApplyValidate, ApplyTail, ValidationAccepted, AgreeInv, StoredInv, StoredValidate
    <2>3. CASE status' = status \/ u \notin Members(t)
      BY <2>1, <2>2, <2>3, <1>k DEF SetAll
    <2>4. CASE status' = SetAll(status, Members(t), "EndAborted") /\ Hopeless(t) /\ u \in Members(t)
      <3>1. seedSaved[t] /\ status[t] # "absent"
        BY <2>1 DEF Answered, Known, StageInv, VRFInv, SeedInv, UpForValidation
      <3>2. u \in UnitOf(t)
        BY <2>4, <3>1, MembersAreUnit DEF Known, VRFInv, AgreeInv
      <3>3. Done(u) /\ Lost(u)
        BY <2>1, <2>4, <3>2, SameUnit DEF AgreeInv, WorkInv, WorkAgrees, Answered, Lost
      <3>4. Done(u)' /\ Lost(u)'
        BY <2>1, <3>3, <1>d, DoneKept, LostStays
      <3>5. status'[u] = "EndAborted" /\ status[u] # "absent"
        BY <2>4 DEF SetAll, Members, MembersIn
      <3>6. QED
        BY <3>4, <3>5 DEF RowAgrees, IsReadyForValidation, AgreeInv, SoloInv
    <2>5. QED
      BY <2>2, <2>3, <2>4
  <1>7. CASE ApplyDownload(t)
    <2>1. /\ status' = [status EXCEPT ![t] = "ResultDownloaded"] /\ modelFiles' = modelFiles
          /\ op[t] = "result"
      BY <1>7 DEF ApplyDownload, ApplyTail, Applicable, rowVars
    <2>2. status[t] # "absent" /\ rstatus[t] # "NotFound"
      BY <2>1 DEF Known, StageInv, SuccessInv, RelaySuccess
    <2>3. CASE u # t
      BY <2>1, <2>3, <1>c, <1>k DEF TypeOK
    <2>4. CASE u = t
      <3>1. status'[t] = "ResultDownloaded" /\ rstatus'[t] # "NotFound"
        BY <2>1, <2>2, <1>c, <1>d DEF TypeOK, relayVars
      <3>2. Done(t) => Done(t)'
        BY <2>1, <1>d, DoneKept
      <3>3. QED
        BY <2>1, <2>2, <2>4, <3>1, <3>2 DEF RowAgrees, IsReadyForValidation, AgreeInv, SoloInv
    <2>5. QED
      BY <2>3, <2>4
  <1>8. QED
    BY <1>1, <1>2, <1>3, <1>4, <1>5, <1>6, <1>7 DEF Apply

-----------------------------------------------------------------------------
\* The agreement is kept by every step.

\* The steps that apply nothing: a worker that is not answering for u stores
\* nothing in u's row.
Quiet ==
  \/ \E t \in Task : Dispatch(t) \/ Answer(t) \/ WorkerFails(t) \/ RelayMoves(t) \/ RelayLoses(t)
  \/ Crash \/ Recover \/ RecoveryFails
  \/ \E r \in late : LateRequest(r)
  \/ UNCHANGED vars

\* They leave statuses and files alone, and answer only what was asked.
LEMMA QuietEffect ==
  ASSUME Known, Quiet
  PROVE  /\ status' = status /\ modelFiles' = modelFiles
         /\ \A u \in Task : \/ Answer(u)
                            \/ opStatus'[u] = "completed" =>
                                 op'[u] = op[u] /\ opStatus[u] = "completed" /\ opResult'[u] = opResult[u]
  <1>c. TypeOK
    BY DEF Known
  <1>1. ASSUME NEW t \in Task, Dispatch(t) \/ Answer(t) \/ WorkerFails(t) \/ RelayMoves(t) \/ RelayLoses(t)
        PROVE  /\ status' = status /\ modelFiles' = modelFiles
               /\ \A u \in Task : \/ Answer(t) /\ u = t
                                  \/ opStatus'[u] = "completed" =>
                                       /\ op'[u] = op[u] /\ opStatus[u] = "completed"
                                       /\ opResult'[u] = opResult[u]
    <2>1. CASE Dispatch(t)
      BY <2>1, <1>c DEF Dispatch, MarkRunning, rowVars, TypeOK
    <2>2. CASE Answer(t)
      <3>1. /\ status' = status /\ modelFiles' = modelFiles /\ op' = op
            /\ \E r : opResult' = [opResult EXCEPT ![t] = r]
            /\ opStatus' = [opStatus EXCEPT ![t] = "completed"]
        BY <2>2 DEF Answer, AnswerStatus, AnswerCreate, AnswerValidate, AnswerCancel, AnswerResult,
                    WriteOutcome, WriteCompleted, rowVars
      <3>2. QED
        BY <2>2, <3>1, <1>c DEF TypeOK
    <2>3. CASE WorkerFails(t)
      BY <2>3, <1>c DEF WorkerFails, rowVars, TypeOK
    <2>4. CASE RelayMoves(t) \/ RelayLoses(t)
      BY <2>4 DEF RelayMoves, RelayLoses, rowVars, opVars
    <2>5. QED
      BY <1>1, <2>1, <2>2, <2>3, <2>4
  <1>2. CASE Crash \/ RecoveryFails \/ RecoverClientTask \/ (\E g \in Groups : RecoverGroup(g))
               \/ (\E r \in late : LateRequest(r)) \/ UNCHANGED vars
    BY <1>2 DEF Crash, RecoveryFails, RecoverClientTask, RecoverGroup, LateRequest, vars, rowVars, opVars
  <1>3. CASE RecoverOperations
    BY <1>3 DEF RecoverOperations, SetAll, Interrupted, rowVars
  <1>4. QED
    BY <1>1, <1>2, <1>3 DEF Quiet, Recover

\* Every step is quiet or applies an answer.
LEMMA QuietOrApply ==
  ASSUME [Next]_vars PROVE Quiet \/ \E t \in Task : Apply(t)
  BY DEF Next, Beside, Quiet

\* Rows agree, and rows that are done stay done.
LEMMA RowStepAgrees ==
  ASSUME RelayMayForget = FALSE, HeartbeatLimit = FALSE, Known, AgreeInv, [Next]_vars
  PROVE  RowInv' /\ SoloInv' /\ \A u \in Task : Done(u) => Done(u)'
  <1>k. RelayKeeps
    BY RelayKeepsStep
  <1>1. CASE Quiet
    <2>1. status' = status /\ modelFiles' = modelFiles
      BY <1>1, QuietEffect
    <2>2. \A u \in Task : TrueAnswer(u)
      <3>1. \A u \in Task : Answer(u) => TrueAnswer(u)
        BY <1>k, AnswerIsTrue
      <3>2. \A u \in Task :
              (opStatus'[u] = "completed" =>
                 op'[u] = op[u] /\ opStatus[u] = "completed" /\ opResult'[u] = opResult[u])
              => TrueAnswer(u)
        BY DEF TrueAnswer, Answered
      <3>3. QED
        BY <3>1, <3>2, <1>1, QuietEffect
    <2>3. \A u \in Task : RowAgrees(u)' /\ (Done(u) => Done(u)')
      BY <1>k, <2>1, <2>2, RowKept, DoneKept DEF AgreeInv, RowInv
    <2>4. QED
      BY <2>1, <2>3 DEF RowInv, AgreeInv, SoloInv
  <1>2. ASSUME NEW t \in Task, Apply(t) PROVE RowInv' /\ SoloInv' /\ \A u \in Task : Done(u) => Done(u)'
    BY <1>2, <1>k, ApplyAgrees DEF RowInv, SoloInv
  <1>3. QED
    BY <1>1, <1>2, QuietOrApply

\* Stored answers stay true until they are applied.
LEMMA StoredStep ==
  ASSUME RelayMayForget = FALSE, HeartbeatLimit = FALSE, Known, AgreeInv, [Next]_vars
  PROVE  StoredInv'
  <1>k. RelayKeeps
    BY RelayKeepsStep
  <1>i. \A u \in Task : StoredCreate(u) /\ StoredValidate(u) /\ StoredStatus(u)
    BY DEF AgreeInv, StoredInv
  <1>1. CASE Quiet
    <2>1. status' = status
      BY <1>1, QuietEffect
    <2>2. ASSUME NEW u \in Task PROVE StoredCreate(u)' /\ StoredValidate(u)' /\ StoredStatus(u)'
      <3>1. CASE Answer(u)
        BY <1>k, <3>1, AnswerIsTrue
      <3>2. CASE opStatus'[u] = "completed" =>
                   op'[u] = op[u] /\ opStatus[u] = "completed" /\ opResult'[u] = opResult[u]
        BY <1>k, <1>i, <2>1, <3>2, StoredKept
      <3>3. QED
        BY <1>1, <3>1, <3>2, QuietEffect
    <2>3. QED
      BY <2>2 DEF StoredInv
  <1>2. ASSUME NEW t \in Task, Apply(t), NEW u \in Task
        PROVE  StoredCreate(u)' /\ StoredValidate(u)' /\ StoredStatus(u)'
    <2>1. /\ op' = [op EXCEPT ![t] = "none"] /\ opStatus' = [opStatus EXCEPT ![t] = "none"]
          /\ u # t => opResult'[u] = opResult[u]
      BY <1>2, ApplyClears DEF Known
    <2>2. CASE u = t
      BY <2>1, <2>2 DEF StoredCreate, StoredValidate, StoredStatus, Answered, Known, TypeOK
    <2>3. CASE u # t
      <3>1. op'[u] = op[u] /\ opStatus'[u] = opStatus[u] /\ opResult'[u] = opResult[u]
        BY <2>1, <2>3 DEF Known, TypeOK
      <3>2. op[u] # "none" => status'[u] \in {status[u], "EndAborted"}
        BY <1>2, <1>k, <2>3, ApplyAgrees
      <3>3. QED
        BY <1>k, <1>i, <3>1, <3>2, StoredKept
    <2>4. QED
      BY <2>2, <2>3
  <1>3. QED
    BY <1>1, <1>2, QuietOrApply DEF StoredInv

\* The main loop decides to validate a unit whose rows are all done, and its
\* comparison of the stored files is a comparison of Relay's.
LEMMA DispatchAgrees ==
  ASSUME Known, AgreeInv, NEW t \in Task, Dispatch(t), op'[t] = "validate"
  PROVE  /\ \A u \in UnitOf(t) : Done(u)
         /\ worker'[t] = "request" => Agree(t)
         /\ worker'[t] = "refuse" => ~Agree(t)
  <1>1. /\ SubmitsValidation(t) /\ status[t] # "absent"
        /\ worker'[t] = IF Cardinality(Members(t)) = 3 /\ ~ModelFilesAgree(Members(t))
                        THEN "refuse" ELSE "request"
    <2>1. LoadedAsDue(t) /\ MarkRunning(t, DecideOperation(t), WorkerFor(t))
      BY DEF Dispatch
    <2>2. op'[t] = DecideOperation(t) /\ worker'[t] = WorkerFor(t)
      BY <2>1 DEF MarkRunning, Known, TypeOK
    <2>3. SubmitsValidation(t)
      BY <2>2 DEF DecideOperation
    <2>4. QED
      BY <2>1, <2>2, <2>3 DEF WorkerFor, LoadedAsDue
  <1>2. IsReadyForValidation(status[t])
    BY <1>1 DEF SubmitsValidation
  <1>3. Members(t) = UnitOf(t)
    BY <1>1, <1>2, MembersAreUnit DEF Known, VRFInv, SeedInv, UpForValidation, AgreeInv
  <1>4. \A u \in Task : /\ IsReadyForValidation(status[u]) =>
                             Done(u) /\ (VSSGroups # {} => modelFiles[u] # NoFiles)
                        /\ status[u] = "EndAborted" => Done(u)
    BY DEF AgreeInv, RowInv, RowAgrees
  <1>5. CASE Cardinality(Members(t)) = 1
    <2>1. IsFiniteSet(Members(t)) /\ t \in Members(t)
      BY <1>1, RelayAssumption, FS_Subset DEF Members, MembersIn
    <2>2. Members(t) = {t}
      BY <1>5, <2>1, FS_Singleton
    <2>3. Agree(t)
      BY <1>3, <2>2 DEF Agree
    <2>4. worker'[t] = "request"
      BY <1>1, <1>5
    <2>5. QED
      BY <1>2, <1>3, <1>4, <2>2, <2>3, <2>4
  <1>6. CASE ValidationGroupReady(Members(t))
    <2>1. /\ Cardinality(Members(t)) = 3
          /\ \A u \in Members(t) : IsReadyForValidation(status[u]) \/ status[u] = "EndAborted"
      BY <1>6 DEF ValidationGroupReady
    <2>g. VSSGroups # {}
      <3>1. Cardinality({t}) = 1
        BY FS_Singleton
      <3>2. QED
        BY <1>3, <2>1, <3>1 DEF UnitOf
    <2>2. \A u \in UnitOf(t) : /\ Done(u) /\ modelFiles[u] = rfiles[u]
                               /\ modelFiles[u] = NoFiles => status[u] = "EndAborted"
      BY <1>3, <1>4, <2>1, <2>g, UnitFacts DEF Done
    <2>3. ModelFilesAgree(Members(t)) <=> Agree(t)
      BY <1>3, <2>2 DEF ModelFilesAgree, Agree
    <2>4. QED
      BY <1>1, <2>1, <2>2, <2>3
  <1>7. QED
    BY <1>1, <1>5, <1>6 DEF SubmitsValidation

\* What a unit agrees on does not change once it is settled.
LEMMA SettledAgreement ==
  ASSUME RelayKeeps, NEW t \in Task, \A u \in UnitOf(t) : Settled(u)
  PROVE  /\ Agree(t)' <=> Agree(t)
         /\ \A u \in UnitOf(t) : Settled(u)'
  BY UnitFacts, AgreementStays DEF RelayKeeps

\* A validation that is under way keeps its grounds.
LEMMA WorkStep ==
  ASSUME RelayMayForget = FALSE, HeartbeatLimit = FALSE, Known, AgreeInv, [Next]_vars
  PROVE  WorkInv'
  <1>k. RelayKeeps /\ \A u \in Task : Done(u) => Done(u)'
    BY RelayKeepsStep, RowStepAgrees
  <1>u. \A u \in Task : UnitOf(u)' = UnitOf(u)
    BY DEF UnitOf, GroupRows
  <1>a. ASSUME NEW t \in Task, \A u \in UnitOf(t) : Done(u),
               worker'[t] = "request" => Agree(t), worker'[t] = "refuse" => ~Agree(t)
        PROVE  WorkAgrees(t)'
    <2>1. \A u \in UnitOf(t) : Settled(u) /\ Done(u)'
      BY <1>a, <1>k, UnitFacts DEF Done
    <2>2. Agree(t)' <=> Agree(t)
      BY <1>k, <2>1, SettledAgreement
    <2>3. QED
      BY <1>a, <1>u, <2>1, <2>2 DEF WorkAgrees
  <1>b. ASSUME NEW t \in Task, op'[t] = "validate" => op[t] = "validate",
               worker'[t] \in {worker[t], "idle"}
        PROVE  WorkAgrees(t)'
    <2>1. CASE op'[t] = "validate"
      BY <2>1, <1>a, <1>b DEF AgreeInv, WorkInv, WorkAgrees
    <2>2. CASE op'[t] # "validate"
      BY <2>2 DEF WorkAgrees
    <2>3. QED
      BY <2>1, <2>2
  <1>1. ASSUME NEW t \in Task, Dispatch(t), NEW u \in Task PROVE WorkAgrees(u)'
    <2>1. CASE u # t
      <3>1. op'[u] = op[u] /\ worker'[u] = worker[u]
        BY <1>1, <2>1 DEF Dispatch, MarkRunning, Known, TypeOK
      <3>2. QED
        BY <3>1, <1>b
    <2>2. CASE u = t /\ op'[t] = "validate"
      BY <1>1, <2>2, <1>a, DispatchAgrees
    <2>3. CASE u = t /\ op'[t] # "validate"
      BY <2>3 DEF WorkAgrees
    <2>4. QED
      BY <2>1, <2>2, <2>3
  <1>2. ASSUME NEW t \in Task, Answer(t) \/ WorkerFails(t), NEW u \in Task PROVE WorkAgrees(u)'
    <2>1. op' = op /\ worker' = [worker EXCEPT ![t] = "idle"]
      BY <1>2 DEF Answer, AnswerStatus, AnswerCreate, AnswerValidate, AnswerCancel, AnswerResult,
                  WriteOutcome, WriteCompleted, WorkerFails
    <2>2. worker'[u] \in {worker[u], "idle"}
      BY <2>1 DEF Known, TypeOK
    <2>3. QED
      BY <2>1, <2>2, <1>b
  <1>3. ASSUME NEW t \in Task, Apply(t), NEW u \in Task PROVE WorkAgrees(u)'
    <2>1. op' = [op EXCEPT ![t] = "none"] /\ worker' = worker
      BY <1>3, ApplyClears DEF Known
    <2>2. op'[u] = "validate" => op[u] = "validate"
      BY <2>1 DEF Known, TypeOK
    <2>3. QED
      BY <2>1, <2>2, <1>b
  <1>4. ASSUME NEW u \in Task,
               (\E t \in Task : RelayMoves(t) \/ RelayLoses(t)) \/ Crash \/ Recover \/ RecoveryFails
               \/ (\E r \in late : LateRequest(r)) \/ UNCHANGED vars
        PROVE  WorkAgrees(u)'
    <2>1. op'[u] \in {op[u], "none"} /\ worker'[u] \in {worker[u], "idle"}
      BY <1>4 DEF RelayMoves, RelayLoses, Crash, Recover, RecoverOperations, RecoverGroup,
                  RecoverClientTask, RecoveryFails, LateRequest, SetAll, vars, opVars, envVars
    <2>2. QED
      BY <2>1, <1>b
  <1>5. QED
    BY <1>1, <1>2, <1>3, <1>4 DEF Next, Beside, WorkInv

\* A request that outlives its worker is one that the worker would have sent.
LEMMA LateStep ==
  ASSUME RelayMayForget = FALSE, HeartbeatLimit = FALSE, Known, AgreeInv, [Next]_vars
  PROVE  LateInv'
  <1> DEFINE Grounded(r) ==
         r.op = "validate" =>
           /\ r.unit = UnitOf(r.task) /\ Agree(r.task)
           /\ \A u \in UnitOf(r.task) : Settled(u)
  <1>k. RelayKeeps
    BY RelayKeepsStep
  <1>1. \A r \in late : r.task \in Task /\ Grounded(r)
    BY DEF AgreeInv, LateInv, Known, TypeOK, Request
  <1>2. ASSUME NEW r \in InFlight(Task) PROVE r.task \in Task /\ Grounded(r)
    <2>1. PICK t \in Task : r = RequestOf(t) /\ worker[t] = "request"
      BY <1>2 DEF InFlight
    <2>2. r.task = t /\ r.op = op[t] /\ r.unit = Members(t)
      BY <2>1 DEF RequestOf
    <2>3. CASE op[t] = "validate"
      <3>1. Members(t) = UnitOf(t)
        BY <2>3, MembersAreUnit DEF Known, StageInv, VRFInv, SeedInv, UpForValidation, AgreeInv
      <3>2. Agree(t) /\ \A u \in UnitOf(t) : Settled(u)
        BY <2>1, <2>3 DEF AgreeInv, WorkInv, WorkAgrees, Done
      <3>3. QED
        BY <2>2, <3>1, <3>2
    <2>4. QED
      BY <2>2, <2>3
  <1>3. ASSUME NEW r, r.task \in Task, Grounded(r), r.op = "validate"
        PROVE  /\ r.unit = UnitOf(r.task)' /\ Agree(r.task)'
               /\ \A u \in r.unit : Settled(u)'
    <2>1. Agree(r.task)' /\ \A u \in UnitOf(r.task) : Settled(u)'
      BY <1>k, <1>3, SettledAgreement
    <2>2. UnitOf(r.task)' = UnitOf(r.task)
      BY DEF UnitOf, GroupRows
    <2>3. QED
      BY <1>3, <2>1, <2>2
  <1>4. late' \subseteq late \cup InFlight(Task)
    <2>1. ASSUME NEW t \in Task, WorkerFails(t) PROVE late' \subseteq late \cup InFlight(Task)
      <3>1. InFlight({t}) \subseteq InFlight(Task)
        BY DEF InFlight
      <3>2. QED
        BY <2>1, <3>1 DEF WorkerFails
    <2>2. CASE Crash
      BY <2>2 DEF Crash
    <2>3. ASSUME NEW t \in Task, Dispatch(t) \/ Answer(t) PROVE late' = late
      BY <2>3 DEF Dispatch, MarkRunning, Answer, AnswerStatus, AnswerCreate, AnswerValidate, AnswerCancel,
                  AnswerResult, WriteOutcome, WriteCompleted
    <2>4. ASSUME NEW t \in Task, Apply(t) PROVE late' = late
      BY <2>4, ApplyClears DEF Known
    <2>5. CASE (\E t \in Task : RelayMoves(t) \/ RelayLoses(t)) \/ Recover \/ RecoveryFails
                 \/ (\E r \in late : LateRequest(r)) \/ UNCHANGED vars
      BY <2>5 DEF RelayMoves, RelayLoses, Recover, RecoverOperations, RecoverGroup,
                  RecoverClientTask, RecoveryFails, LateRequest, vars, envVars
    <2>6. QED
      BY <2>1, <2>2, <2>3, <2>4, <2>5 DEF Next, Beside
  <1> HIDE DEF Grounded
  <1>5. \A r \in late' : r.task \in Task /\ Grounded(r)
    BY <1>1, <1>2, <1>4
  <1>6. QED
    BY <1>3, <1>5 DEF LateInv

\* The agreement is inductive.
LEMMA AgreeStep ==
  ASSUME FilesRecorded, RelayMayForget = FALSE, HeartbeatLimit = FALSE,
         Known, AgreeInv, [Next]_vars
  PROVE  Known' /\ AgreeInv'
  <1>1. Known'
    BY NextType, StageInvStep, SuccessInvStep, FilesStayFrozen, AnswersKeepFiles, SeedStep
    DEF Known, VRFInv
  <1>2. AgreeInv'
    BY RelayInvStep, RowStepAgrees, StoredStep, WorkStep, LateStep DEF AgreeInv
  <1>3. QED
    BY <1>1, <1>2

\* It holds when the rows of a new client task were created.
LEMMA AgreeInit == Init => Known /\ AgreeInv
  <1> SUFFICES ASSUME Init PROVE Known /\ AgreeInv
    OBVIOUS
  <1>1. Known
    BY InitType DEF Init, RelayInit, Known, StageInv, SuccessInv, VRFInv, FilesAreFrozen,
                    AnswersHaveFiles, FilesKnown, SeedInv, GroupsAreSeeded,
                    UpForValidation, Ran, NoResult, IsReadyForValidation
  <1>2. RelayInv
    BY DEF Init, RelayInit, RelayInv, After, AfterValidation
  <1>3. StoredInv /\ WorkInv
    BY DEF Init, StoredInv, StoredCreate, StoredValidate, StoredStatus, Answered, WorkInv, WorkAgrees
  <1>4. RowInv /\ LateInv /\ SoloInv
    BY DEF Init, RowInv, RowAgrees, IsReadyForValidation, LateInv, SoloInv
  <1>5. QED
    BY <1>1, <1>2, <1>3, <1>4 DEF AgreeInv

\* If Relay forgets no task and the client is not the heartbeat client, the rows
\* and Relay agree in every reachable state.
THEOREM RowsAgreeWithRelay ==
  ASSUME FilesRecorded, RelayMayForget = FALSE, HeartbeatLimit = FALSE PROVE Spec => [](Known /\ AgreeInv)
  <1>1. Known /\ AgreeInv /\ [Next]_vars => (Known /\ AgreeInv)'
    BY AgreeStep
  <1>2. QED
    BY <1>1, AgreeInit, PTL DEF Spec

-----------------------------------------------------------------------------
\* No group of tasks that ran different files is validated.

\* A set whose members are all equal has at most one.
LEMMA AllEqual ==
  ASSUME NEW S, \A x, y \in S : x = y PROVE Cardinality(S) \leq 1
  <1>1. CASE S = {}
    BY <1>1, FS_EmptySet
  <1>2. CASE S # {}
    <2>1. PICK x : S = {x}
      BY <1>2
    <2>2. QED
      BY <2>1, FS_Singleton
  <1>3. QED
    BY <1>1, <1>2

\* Relay validates a group only if its members ran the same model files, however
\* requests for its validation were repeated, delayed, lost or refused by the
\* worker that compared the files.
THEOREM ValidatedGroupsAgree ==
  ASSUME FilesRecorded, RelayMayForget = FALSE, HeartbeatLimit = FALSE PROVE Spec => []NoMixedGroupValidated
  <1>1. AgreeInv => NoMixedGroupValidated
    <2> SUFFICES ASSUME AgreeInv, NEW g \in VSSGroups, NEW t \in GroupRows(g),
                        rstatus[t] \in {"GroupValidated", "EndGroupSuccess"}
                 PROVE  Cardinality({rfiles[u] : u \in GroupRows(g)} \ {NoFiles}) \leq 1
      BY DEF NoMixedGroupValidated
    <2>1. t \in Task /\ UnitOf(t) = GroupRows(g) /\ After(t)
      BY DEF GroupRows, UnitOf, After, AfterValidation
    <2>2. Agree(t)
      BY <2>1 DEF AgreeInv, RelayInv
    <2>3. \A u, v \in GroupRows(g) : NoFiles \notin {rfiles[u], rfiles[v]} => rfiles[u] = rfiles[v]
      BY <2>1, <2>2 DEF Agree
    <2>4. QED
      BY <2>3, AllEqual
  <1>2. QED
    BY <1>1, RowsAgreeWithRelay, PTL

-----------------------------------------------------------------------------
\* The ends that Relay reported stay.

RelaySuccessStatus == {"EndSuccess", "EndGroupSuccess"}

\* A row with an end of Relay has no operation left that could change it: only
\* the download of a success, or one more look at its status.
EndKept(t) ==
  /\ status[t] \in {"EndInvalidated", "EndGroupRefund", "ResultDownloaded"} =>
       op[t] = "none" /\ ~siblingCancel[t]
  /\ status[t] = "EndSuccess" =>
       /\ ~siblingCancel[t] /\ op[t] \in {"none", "result", "sync_status"}
       /\ Answered(t, "sync_status") => opResult[t].status \in RelaySuccessStatus
  /\ op[t] = "result" => status[t] \in {"EndSuccess", "EndAborted"} /\ ~siblingCancel[t]
EndInv == \A t \in Task : EndKept(t)

\* What a transaction does to the row it is about.
LEMMA ApplyOwn ==
  ASSUME HeartbeatLimit = FALSE, Known, AgreeInv, NEW t \in Task, Apply(t)
  PROVE  /\ siblingCancel'[t] => siblingCancel[t]
         /\ \/ status'[t] = status[t] /\ siblingCancel'[t] = siblingCancel[t]
            \/ ~siblingCancel'[t] /\ status'[t] = status[t]
            \/ ~siblingCancel'[t] /\ ApplyStatus(t) /\ status'[t] = RelayStatusToLocal(opResult[t].status)
            \/ /\ ApplyStatus(t) /\ status'[t] = "Created"
               /\ RelayStatusToLocal(opResult[t].status) = "Created"
            \/ ApplyCreate(t) /\ status'[t] \in {"Created", "EndAborted"}
            \/ ApplyValidate(t) /\ status'[t] = "EndAborted"
            \/ ApplyDownload(t) /\ status'[t] = "ResultDownloaded" /\ siblingCancel'[t] = siblingCancel[t]
  <1>c. TypeOK
    BY DEF Known
  <1>s. ASSUME NEW st, NEW sib, ApplyTail(t, st, sib)
        PROVE  status' = st /\ siblingCancel'[t] = sib[t]
    BY <1>s DEF ApplyTail, SetAll, SiblingsToCancel
  <1>f. [siblingCancel EXCEPT ![t] = FALSE][t] = FALSE
    BY <1>c DEF TypeOK
  <1>1. CASE ApplyFailed(t)
    BY <1>1 DEF ApplyFailed
  <1>2. CASE ApplyStatusNotFound(t)
    <2>1. status[t] \in {"Pending", "EndAborted"}
      BY <1>2 DEF ApplyStatusNotFound, Applicable, AgreeInv, StoredInv, StoredStatus, Answered
    <2>2. ~siblingCancel'[t] /\ status'[t] \in {status[t], [status EXCEPT ![t] = "EndAborted"][t]}
                             /\ (status[t] = "Pending" => status'[t] = status[t])
      BY <1>2, <1>s, <1>f DEF ApplyStatusNotFound
    <2>3. QED
      BY <2>1, <2>2, <1>c DEF TypeOK
  <1>3. CASE ApplyStatusKeepsAbort(t)
    BY <1>3, <1>s DEF ApplyStatusKeepsAbort
  <1>4. CASE ApplyStatusTimedOut(t)
    BY <1>4 DEF ApplyStatusTimedOut
  <1>5. CASE ApplyStatus(t)
    <2> DEFINE local == RelayStatusToLocal(opResult[t].status)
               st    == SetAll([status EXCEPT ![t] = local], NewMembers(t), "Pending")
               sib   == IF local = "Created" THEN siblingCancel
                        ELSE [siblingCancel EXCEPT ![t] = FALSE]
    <2>1. ApplyTail(t, st, sib)
      BY <1>5 DEF ApplyStatus
    <2>2. st[t] = local /\ (local # "Created" => ~sib[t]) /\ (sib[t] => siblingCancel[t])
      BY <1>c, <1>f DEF SetAll, NewMembers, TypeOK
    <2> HIDE DEF st, sib
    <2>3. QED
      BY <1>5, <1>s, <2>1, <2>2
  <1>6. CASE ApplyCreate(t)
    <2>1. status' \in {status, [status EXCEPT ![t] = "Created"], [status EXCEPT ![t] = "EndAborted"]}
          /\ siblingCancel'[t] = siblingCancel[t]
      BY <1>6, <1>s DEF ApplyCreate
    <2>2. QED
      BY <1>6, <2>1, <1>c DEF TypeOK
  <1>7. CASE ApplyValidate(t)
    <2>1. status' \in {status, SetAll(status, Members(t), "EndAborted")}
          /\ siblingCancel'[t] = siblingCancel[t]
      BY <1>7, <1>s DEF ApplyValidate
    <2>2. QED
      BY <1>7, <2>1 DEF SetAll
  <1>8. CASE ApplyCancel(t)
    BY <1>8, <1>s, <1>f DEF ApplyCancel
  <1>9. CASE ApplyDownload(t)
    <2>1. status' = [status EXCEPT ![t] = "ResultDownloaded"] /\ siblingCancel'[t] = siblingCancel[t]
      BY <1>9, <1>s DEF ApplyDownload
    <2>2. QED
      BY <1>9, <2>1, <1>c DEF TypeOK
  <1>10. QED
    BY <1>1, <1>2, <1>3, <1>4, <1>5, <1>6, <1>7, <1>8, <1>9 DEF Apply

\* What a transaction does to the other rows: it aborts the rows of a hopeless
\* unit, or creates the members of a group, and marks siblings that are not ended.
LEMMA ApplyOthers ==
  ASSUME HeartbeatLimit = FALSE, Known, AgreeInv, NEW t \in Task, Apply(t),
         NEW u \in Task, u # t
  PROVE  /\ \/ status'[u] = status[u]
            \/ /\ ApplyValidate(t) /\ Hopeless(t) /\ u \in UnitOf(t) /\ u \in Members(t)
               /\ status'[u] = "EndAborted"
            \/ ApplyStatus(t) /\ u \in NewMembers(t) /\ status[u] = "absent" /\ status'[u] = "Pending"
         /\ \/ siblingCancel'[u] = siblingCancel[u]
            \/ status'[u] \notin TerminalStatus /\ u \in MembersIn(status', t) /\ status'[t] # "absent"
  <1>c. TypeOK
    BY DEF Known
  <1> DEFINE Stat == \/ status'[u] = status[u]
                     \/ /\ ApplyValidate(t) /\ Hopeless(t) /\ u \in UnitOf(t) /\ u \in Members(t)
                        /\ status'[u] = "EndAborted"
                     \/ /\ ApplyStatus(t) /\ u \in NewMembers(t) /\ status[u] = "absent"
                        /\ status'[u] = "Pending"
             Sib == \/ siblingCancel'[u] = siblingCancel[u]
                    \/ /\ status'[u] \notin TerminalStatus /\ u \in MembersIn(status', t)
                       /\ status'[t] # "absent"
  <1>s. ASSUME NEW st, NEW sib, ApplyTail(t, st, sib), sib[u] = siblingCancel[u]
        PROVE  Sib /\ status' = st
    <2>1. status' = st /\ siblingCancel' = SetAll(sib, SiblingsToCancel(st, t), TRUE)
      BY <1>s DEF ApplyTail
    <2>2. CASE u \in SiblingsToCancel(st, t)
      <3>1. st[t] = "EndAborted" /\ u \in MembersIn(st, t) /\ st[u] \notin TerminalStatus
        BY <2>2 DEF SiblingsToCancel
      <3>2. QED
        BY <2>1, <3>1
    <2>3. CASE u \notin SiblingsToCancel(st, t)
      BY <2>1, <2>3, <1>s DEF SetAll
    <2>4. QED
      BY <2>1, <2>2, <2>3
  <1>f. [siblingCancel EXCEPT ![t] = FALSE][u] = siblingCancel[u]
    BY <1>c DEF TypeOK
  <1>e. ASSUME NEW s PROVE [status EXCEPT ![t] = s][u] = status[u]
    BY <1>c DEF TypeOK
  <1>g. SUFFICES Stat /\ Sib
    OBVIOUS
  <1>k. status'[u] = status[u] => Stat
    OBVIOUS
  <1> HIDE DEF Sib, Stat
  <1>1. CASE ApplyFailed(t)
    BY <1>1, <1>k DEF ApplyFailed, Sib
  <1>2. CASE ApplyStatusNotFound(t)
    <2>1. PICK st \in {status, [status EXCEPT ![t] = "EndAborted"]} :
            ApplyTail(t, st, [siblingCancel EXCEPT ![t] = FALSE])
      BY <1>2 DEF ApplyStatusNotFound
    <2>2. st[u] = status[u]
      BY <2>1, <1>e
    <2>3. Sib /\ status' = st
      BY <2>1, <1>s, <1>f
    <2>4. QED
      BY <2>2, <2>3, <1>k
  <1>3. CASE ApplyStatusKeepsAbort(t)
    BY <1>3, <1>s, <1>k DEF ApplyStatusKeepsAbort
  <1>4. CASE ApplyStatusTimedOut(t)
    BY <1>4 DEF ApplyStatusTimedOut
  <1>5. CASE ApplyStatus(t)
    <2> DEFINE local == RelayStatusToLocal(opResult[t].status)
               st    == SetAll([status EXCEPT ![t] = local], NewMembers(t), "Pending")
               sib   == IF local = "Created" THEN siblingCancel
                        ELSE [siblingCancel EXCEPT ![t] = FALSE]
    <2>1. ApplyTail(t, st, sib) /\ sib[u] = siblingCancel[u]
      BY <1>5, <1>f DEF ApplyStatus
    <2>2. st[u] = IF u \in NewMembers(t) THEN "Pending" ELSE status[u]
      BY <1>e DEF SetAll
    <2>3. status[t] # "absent"
      BY <1>5 DEF ApplyStatus, Applicable, Known, StageInv
    <2>4. u \in NewMembers(t) => status[u] = "absent"
      BY <2>3, NewMembersAreNew DEF GroupRows
    <2> HIDE DEF st, sib
    <2>5. Sib /\ status' = st
      BY <1>s, <2>1
    <2>6. QED
      BY <1>5, <2>2, <2>4, <2>5 DEF Stat
  <1>6. CASE ApplyCreate(t)
    <2>1. PICK st \in {status, [status EXCEPT ![t] = "Created"], [status EXCEPT ![t] = "EndAborted"]} :
            ApplyTail(t, st, siblingCancel)
      BY <1>6 DEF ApplyCreate
    <2>2. QED
      BY <2>1, <1>s, <1>e, <1>k
  <1>7. CASE ApplyValidate(t)
    <2>1. Answered(t, "validate")
      BY <1>7 DEF ApplyValidate, Applicable, Answered
    <2>2. \/ status' = status
          \/ status' = SetAll(status, Members(t), "EndAborted") /\ Hopeless(t)
      BY <1>7, <2>1 DEF ApplyValidate, ApplyTail, ValidationAccepted, AgreeInv, StoredInv, StoredValidate
    <2>3. Members(t) = UnitOf(t)
      BY <2>1, MembersAreUnit DEF Answered, Known, StageInv, VRFInv, SeedInv, UpForValidation, AgreeInv
    <2>4. Stat
      BY <1>7, <2>2, <2>3 DEF SetAll, Stat
    <2>5. Sib
      BY <1>7, <1>s DEF ApplyValidate
    <2>6. QED
      BY <2>4, <2>5
  <1>8. CASE ApplyCancel(t)
    BY <1>8, <1>s, <1>f, <1>k DEF ApplyCancel
  <1>9. CASE ApplyDownload(t)
    <2>1. ApplyTail(t, [status EXCEPT ![t] = "ResultDownloaded"], siblingCancel)
      BY <1>9 DEF ApplyDownload
    <2>2. Sib /\ status' = [status EXCEPT ![t] = "ResultDownloaded"]
      BY <2>1, <1>s
    <2>3. status'[u] = status[u]
      BY <2>2, <1>e
    <2>4. QED
      BY <2>2, <2>3, <1>k
  <1>10. QED
    BY <1>1, <1>2, <1>3, <1>4, <1>5, <1>6, <1>7, <1>8, <1>9, <1>g DEF Apply

\* A row's operation does not start, and no answer is stored for it, but by the
\* dispatch and the answer of that row; both leave its flags alone.
LEMMA QuietOperations ==
  ASSUME Known, Quiet
  PROVE  /\ siblingCancel' = siblingCancel /\ seedSaved' = seedSaved
         /\ \A u \in Task : op'[u] \in {op[u], "none"} \/ (Dispatch(u) /\ op'[u] = DecideOperation(u))
         /\ \A u \in Task : Answered(u, "sync_status")' =>
              \/ Answered(u, "sync_status") /\ opResult'[u] = opResult[u]
              \/ op[u] = "sync_status" /\ opResult'[u].status = rstatus[u]
  <1>c. TypeOK
    BY DEF Known
  <1>1. siblingCancel' = siblingCancel /\ seedSaved' = seedSaved
    BY DEF Quiet, Dispatch, MarkRunning, Answer, AnswerStatus, AnswerCreate, AnswerValidate, AnswerCancel,
           AnswerResult, WriteOutcome, WriteCompleted, WorkerFails, RelayMoves, RelayLoses, Crash,
           Recover, RecoverOperations, RecoverGroup, RecoverClientTask, RecoveryFails, LateRequest,
           vars, rowVars
  <1>2. ASSUME NEW u \in Task
        PROVE  op'[u] \in {op[u], "none"} \/ (Dispatch(u) /\ op'[u] = DecideOperation(u))
    <2>1. ASSUME NEW t \in Task, Dispatch(t) PROVE op'[u] = IF u = t THEN DecideOperation(t) ELSE op[u]
      BY <2>1, <1>c DEF Dispatch, MarkRunning, TypeOK
    <2>2. ASSUME NEW t \in Task, Answer(t) \/ WorkerFails(t) \/ RelayMoves(t) \/ RelayLoses(t)
          PROVE  op' = op
      BY <2>2 DEF Answer, AnswerStatus, AnswerCreate, AnswerValidate, AnswerCancel,
                  AnswerResult, WriteOutcome, WriteCompleted, WorkerFails, RelayMoves, RelayLoses, opVars
    <2>3. CASE Crash \/ Recover \/ RecoveryFails \/ (\E r \in late : LateRequest(r)) \/ UNCHANGED vars
      BY <2>3 DEF Crash, Recover, RecoverOperations, RecoverGroup, RecoverClientTask, RecoveryFails,
                  LateRequest, SetAll, vars, opVars
    <2>4. QED
      BY <2>1, <2>2, <2>3 DEF Quiet
  <1>3. ASSUME NEW u \in Task, Answered(u, "sync_status")'
        PROVE  \/ Answered(u, "sync_status") /\ opResult'[u] = opResult[u]
               \/ op[u] = "sync_status" /\ opResult'[u].status = rstatus[u]
    <2>1. CASE Answer(u)
      <3>1. op' = op /\ op[u] = "sync_status"
        BY <2>1, <1>3 DEF Answered, Answer, AnswerStatus, AnswerCreate, AnswerValidate, AnswerCancel,
                          AnswerResult, WriteOutcome, WriteCompleted
      <3>2. AnswerStatus(u)
        BY <2>1, <3>1 DEF Answer, AnswerCreate, AnswerValidate, AnswerCancel, AnswerResult, Working
      <3>3. opResult'[u].status = rstatus[u]
        BY <3>2, <1>c DEF AnswerStatus, WriteCompleted, TypeOK
      <3>4. QED
        BY <3>1, <3>3
    <2>2. CASE opStatus'[u] = "completed" =>
                 op'[u] = op[u] /\ opStatus[u] = "completed" /\ opResult'[u] = opResult[u]
      BY <2>2, <1>3 DEF Answered
    <2>3. QED
      BY <2>1, <2>2, QuietEffect
  <1>4. QED
    BY <1>1, <1>2, <1>3

\* Every step preserves EndInv.
LEMMA EndStep ==
  ASSUME HeartbeatLimit = FALSE, Known, AgreeInv, EndInv, [Next]_vars PROVE EndInv'
  <1>c. TypeOK
    BY DEF Known
  <1>t. /\ {"EndInvalidated", "EndGroupRefund", "ResultDownloaded", "EndSuccess", "EndAborted"}
             \subseteq TerminalStatus
    BY DEF TerminalStatus, FinishedStatus
  <1>1. ASSUME Quiet, NEW u \in Task PROVE EndKept(u)'
    <2>1. status' = status /\ siblingCancel' = siblingCancel /\ EndKept(u)
      BY <1>1, QuietEffect, QuietOperations DEF EndInv
    <2>2. CASE op'[u] \in {op[u], "none"}
      <3>1. status[u] = "EndSuccess" /\ Answered(u, "sync_status")' =>
              opResult'[u].status \in RelaySuccessStatus
        BY <1>1, <2>1, QuietOperations
        DEF EndKept, Known, SuccessInv, RelaySuccess, RelaySuccessStatus
      <3>2. QED
        BY <2>1, <2>2, <3>1 DEF EndKept
    <2>3. CASE Dispatch(u) /\ op'[u] = DecideOperation(u)
      <3>1. LoadedAsDue(u) /\ opStatus'[u] = "running"
        BY <2>3, <1>c DEF Dispatch, MarkRunning, TypeOK
      <3>2. status[u] \notin {"EndInvalidated", "EndGroupRefund", "ResultDownloaded"}
        BY <2>1, <3>1, <1>t DEF EndKept, LoadedAsDue
      <3>3. status[u] = "EndSuccess" => op'[u] \in {"result", "sync_status"}
        BY <2>1, <2>3 DEF EndKept, DecideOperation
      <3>4. op'[u] = "result" => status[u] = "EndSuccess"
        BY <2>3, DecidesResult
      <3>5. ~Answered(u, "sync_status")'
        BY <3>1 DEF Answered
      <3>6. QED
        BY <2>1, <3>2, <3>3, <3>4, <3>5 DEF EndKept
    <2>4. QED
      BY <1>1, <2>2, <2>3, QuietOperations
  <1>2. ASSUME NEW t \in Task, Apply(t), NEW u \in Task PROVE EndKept(u)'
    <2>1. /\ op' = [op EXCEPT ![t] = "none"] /\ opStatus' = [opStatus EXCEPT ![t] = "none"]
          /\ u # t => opResult'[u] = opResult[u]
      BY <1>2, <1>c, ApplyClears
    <2>2. EndKept(t) /\ EndKept(u)
      BY DEF EndInv
    <2>3. CASE u = t
      <3>1. op'[t] = "none" /\ opStatus'[t] = "none"
        BY <2>1, <1>c DEF TypeOK
      <3>2. ASSUME status'[t] \in {"EndInvalidated", "EndGroupRefund", "ResultDownloaded", "EndSuccess"}
            PROVE  ~siblingCancel'[t]
        <4>1. ApplyCreate(t) => status[t] = "Pending"
          BY DEF ApplyCreate, Applicable, Known, StageInv
        <4>2. ApplyDownload(t) => ~siblingCancel[t]
          BY <2>2 DEF ApplyDownload, Applicable, EndKept
        <4>3. status'[t] = status[t] => ~siblingCancel[t]
          BY <2>2, <3>2 DEF EndKept
        <4>4. QED
          BY <1>2, <3>2, <4>1, <4>2, <4>3, ApplyOwn
      <3>3. QED
        BY <2>3, <3>1, <3>2 DEF EndKept, Answered
    <2>4. CASE u # t
      <3>1. op'[u] = op[u] /\ opStatus'[u] = opStatus[u] /\ opResult'[u] = opResult[u]
        BY <2>1, <2>4, <1>c DEF TypeOK
      <3>2. \/ status'[u] = status[u] \/ status'[u] = "EndAborted"
            \/ status[u] = "absent" /\ status'[u] = "Pending"
        BY <1>2, <2>4, ApplyOthers
      <3>3. siblingCancel'[u] = siblingCancel[u] \/ status'[u] \notin TerminalStatus
        BY <1>2, <2>4, ApplyOthers
      <3>4. QED
        BY <2>2, <3>1, <3>2, <3>3, <1>t DEF EndKept, Answered
    <2>5. QED
      BY <2>3, <2>4
  <1>3. QED
    BY <1>1, <1>2, QuietOrApply DEF EndInv

\* A row with an end of Relay keeps it in every step.
LEMMA EndStaysStep ==
  ASSUME HeartbeatLimit = FALSE, Known, AgreeInv, EndInv, [Next]_vars, NEW t \in Task
  PROVE  /\ status[t] \in {"EndGroupRefund", "EndInvalidated", "ResultDownloaded"}
              => status'[t] = status[t]
         /\ status[t] = "EndSuccess" => status'[t] \in {"EndSuccess", "ResultDownloaded"}
  <1>c. TypeOK /\ EndKept(t)
    BY DEF Known, EndInv
  <1>1. CASE Quiet
    BY <1>1, QuietEffect
  <1>2. CASE Apply(t)
    <2>1. status'[t] = status[t] \/ op[t] # "none"
      BY <1>2 DEF Apply, ApplyFailed, ApplyStatusNotFound, ApplyStatusKeepsAbort, ApplyStatusTimedOut,
                  ApplyStatus, ApplyCreate, ApplyValidate, ApplyCancel, ApplyDownload, Applicable
    <2>2. CASE status[t] = "EndSuccess"
      <3>1. op[t] \in {"none", "result", "sync_status"}
        BY <1>c, <2>2 DEF EndKept
      <3>2. ApplyStatus(t) => RelayStatusToLocal(opResult[t].status) = "EndSuccess"
        BY <1>c, <2>2 DEF ApplyStatus, Applicable, EndKept, Answered, RelaySuccessStatus, RelayStatusToLocal
      <3>3. ~ApplyCreate(t) /\ ~ApplyValidate(t)
        BY <3>1 DEF ApplyCreate, ApplyValidate, Applicable
      <3>4. QED
        BY <1>2, <2>2, <3>2, <3>3, ApplyOwn
    <2>3. QED
      BY <1>c, <2>1, <2>2 DEF EndKept
  <1>3. ASSUME NEW u \in Task, u # t, Apply(u)
        PROVE  status'[t] = status[t] \/ status[t] \notin
                 {"EndGroupRefund", "EndInvalidated", "ResultDownloaded", "EndSuccess"}
    <2>1. SUFFICES ASSUME status[t] \in {"EndGroupRefund", "EndInvalidated", "ResultDownloaded", "EndSuccess"},
                          Hopeless(u), t \in UnitOf(u)
                   PROVE  FALSE
      BY <1>3, ApplyOthers
    <2>2. rstatus[t] \in {"EndGroupRefund", "EndInvalidated"} \cup RelaySuccessStatus
      BY <2>1 DEF AgreeInv, RowInv, RowAgrees, Known, SuccessInv, RelaySuccess, RelaySuccessStatus
    <2>3. After(t)
      BY <2>2 DEF After, AfterValidation, RelaySuccessStatus
    <2>4. QED
      BY <2>1, <2>3 DEF Hopeless
  <1>4. QED
    BY <1>1, <1>2, <1>3, QuietOrApply

\* The end of a task that Relay reported is never replaced by another one: not by
\* the refusal of a validation, which ends every row of its group, nor by an
\* answer that was stored before it.
THEOREM ReportedEndsStay ==
  ASSUME FilesRecorded, RelayMayForget = FALSE, HeartbeatLimit = FALSE PROVE Spec => RelayEndStays
  <1>1. Init => EndInv
    BY DEF Init, EndInv, EndKept, Answered
  <1>2. (Known /\ AgreeInv) /\ EndInv /\ [Next]_vars => EndInv'
    BY EndStep
  <1>3. (Known /\ AgreeInv) /\ EndInv /\ [Next]_vars =>
          [\A t \in Task :
             /\ status[t] \in {"EndGroupRefund", "EndInvalidated", "ResultDownloaded"}
                  => status'[t] = status[t]
             /\ status[t] = "EndSuccess" => status'[t] \in {"EndSuccess", "ResultDownloaded"}]_vars
    BY EndStaysStep
  <1>4. QED
    BY <1>1, <1>2, <1>3, RowsAgreeWithRelay, PTL DEF Spec, RelayEndStays

-----------------------------------------------------------------------------
\* The outcome of the client task is the outcome of its rows.

\* A row without a seed is the only row of its group; nothing is owed to it, and
\* once it is finished nothing is done for it.
AloneInv ==
  /\ \A t, u \in Existing(status) : t # u /\ TaskID[t] = TaskID[u] => seedSaved[t]
  /\ \A t \in Task :
       /\ siblingCancel[t] => seedSaved[t]
       /\ Finished(status[t]) /\ ~seedSaved[t] => op[t] = "none"

\* A client task fails when all its tasks are lost and no group can grow.
OutcomeInv ==
  /\ clientStatus = "failed" =>
       \A t \in Existing(status) : Lost(t) /\ (seedSaved[t] \/ Finished(status[t]))
  /\ clientStatus = "success" => \E t \in Task : status[t] = "ResultDownloaded"
  /\ clientStatus # "success" => \A t \in Task : status[t] # "ResultDownloaded"
  /\ clientStatus = "running" => failedCount = Cardinality(FailedGroups(status))

\* What a transaction does to seeds and to the set of rows.
LEMMA ApplySeeds ==
  ASSUME Known, NEW t \in Task, Apply(t)
  PROVE  /\ \A u \in Task : seedSaved[u] => seedSaved'[u]
         /\ ApplyStatus(t) /\ NewMembers(t) # {} => ~seedSaved[t] /\ seedSaved'[t]
         /\ ApplyStatus(t) => \A u \in NewMembers(t) : seedSaved'[u]
  <1>1. seedSaved' \in {seedSaved, SetAll(seedSaved, {t} \cup NewMembers(t), TRUE)}
    BY DEF Apply, ApplyFailed, ApplyStatusNotFound, ApplyStatusKeepsAbort, ApplyStatusTimedOut,
           ApplyStatus, ApplyCreate, ApplyValidate, ApplyCancel, ApplyDownload, rowVars
  <1>2. ApplyStatus(t) /\ NewMembers(t) # {} =>
          NeedsVRF(t) /\ seedSaved' = SetAll(seedSaved, {t} \cup NewMembers(t), TRUE)
    BY DEF ApplyStatus, NewMembers
  <1>3. NewMembers(t) \subseteq Task
    BY DEF NewMembers, GroupRows
  <1>4. QED
    BY <1>1, <1>2, <1>3 DEF SetAll, NeedsVRF

\* Rows are created only by an ordinary application of a status, and none is
\* deleted.
LEMMA RowsAreKept ==
  ASSUME HeartbeatLimit = FALSE, Known, AgreeInv, NEW t \in Task, Apply(t), NEW u \in Task
  PROVE  /\ status[u] # "absent" => status'[u] # "absent"
         /\ status'[u] # "absent" => status[u] # "absent" \/ (ApplyStatus(t) /\ u \in NewMembers(t))
         /\ status'[t] # "absent" => status[t] # "absent"
  <1>1. status[t] # "absent" \/ status' = status
    BY DEF Apply, ApplyFailed, ApplyStatusNotFound, ApplyStatusKeepsAbort, ApplyStatusTimedOut,
           ApplyStatus, ApplyCreate, ApplyValidate, ApplyCancel, ApplyDownload, Applicable, Known, StageInv
  <1>2. RelayStatusToLocal(opResult[t].status) # "absent"
    BY DEF RelayStatusToLocal
  <1>3. status[t] # "absent" => status'[t] # "absent"
    BY <1>2, ApplyOwn
  <1>4. u # t => /\ status[u] # "absent" => status'[u] # "absent"
                 /\ status'[u] # "absent" => status[u] # "absent" \/ (ApplyStatus(t) /\ u \in NewMembers(t))
    BY ApplyOthers DEF Members, MembersIn
  <1>5. QED
    BY <1>1, <1>3, <1>4

\* Every step preserves AloneInv.
LEMMA AloneStep ==
  ASSUME HeartbeatLimit = FALSE, Known, AgreeInv, AloneInv, [Next]_vars PROVE AloneInv'
  <1>c. TypeOK
    BY DEF Known
  <1>1. CASE Quiet
    <2>1. status' = status /\ siblingCancel' = siblingCancel /\ seedSaved' = seedSaved
      BY <1>1, QuietEffect, QuietOperations
    <2>2. ASSUME NEW u \in Task, Finished(status[u]), ~seedSaved[u] PROVE op'[u] = "none"
      <3>1. op[u] = "none" /\ ~siblingCancel[u]
        BY <2>2 DEF AloneInv
      <3>2. ~Dispatch(u)
        BY <2>2, <3>1 DEF Dispatch, MarkRunning, LoadedAsDue, Finished, FinishedStatus, TerminalStatus
      <3>3. QED
        BY <1>1, <3>1, <3>2, QuietOperations
    <2>3. QED
      BY <2>1, <2>2 DEF AloneInv, Existing
  <1>2. ASSUME NEW t \in Task, Apply(t) PROVE AloneInv'
    <2>1. ASSUME NEW u \in Task, NEW v \in Task, status'[u] # "absent", status'[v] # "absent",
                 u # v, TaskID[u] = TaskID[v]
          PROVE  seedSaved'[u]
      <3>1. CASE status[u] # "absent" /\ status[v] # "absent"
        BY <1>2, <2>1, <3>1, ApplySeeds DEF AloneInv, Existing
      <3>2. CASE status[u] = "absent"
        BY <1>2, <2>1, <3>2, RowsAreKept, ApplySeeds
      <3>3. CASE status[u] # "absent" /\ status[v] = "absent"
        <4>1. ApplyStatus(t) /\ v \in NewMembers(t)
          BY <1>2, <2>1, <3>3, RowsAreKept
        <4>2. status[t] # "absent"
          BY <4>1 DEF ApplyStatus, Applicable, Known, StageInv
        <4>3. TaskID[v] = TaskID[t] /\ \A w \in GroupRows(TaskID[t]) : w # t => status[w] = "absent"
          BY <4>1, <4>2, NewMembersAreNew
        <4>4. u = t
          BY <2>1, <3>3, <4>3 DEF GroupRows
        <4>5. QED
          BY <1>2, <4>1, <4>4, ApplySeeds
      <3>4. QED
        BY <3>1, <3>2, <3>3
    <2>2. ASSUME NEW u \in Task, siblingCancel'[u] PROVE seedSaved'[u]
      <3>1. CASE siblingCancel[u]
        BY <1>2, <3>1, ApplySeeds DEF AloneInv
      <3>2. CASE ~siblingCancel[u]
        <4>1. u # t
          BY <1>2, <2>2, <3>2, ApplyOwn
        <4>2. u \in MembersIn(status', t) /\ status'[t] # "absent"
          BY <1>2, <2>2, <3>2, <4>1, ApplyOthers
        <4>3. QED
          BY <2>1, <4>1, <4>2 DEF MembersIn
      <3>3. QED
        BY <3>1, <3>2
    <2>3. ASSUME NEW u \in Task, Finished(status'[u]), ~seedSaved'[u] PROVE op'[u] = "none"
      <3>1. op' = [op EXCEPT ![t] = "none"] /\ ~seedSaved[u]
        BY <1>2, <1>c, <2>3, ApplyClears, ApplySeeds
      <3>2. CASE u = t
        BY <3>1, <3>2, <1>c DEF TypeOK
      <3>3. CASE u # t /\ status'[u] = status[u]
        BY <2>3, <3>1, <3>3, <1>c DEF AloneInv, TypeOK
      <3>4. CASE u # t /\ status'[u] # status[u]
        <4>1. ApplyValidate(t) /\ u \in Members(t)
          BY <1>2, <2>3, <3>4, ApplyOthers DEF Finished, FinishedStatus
        <4>2. status[t] # "absent"
          BY <4>1 DEF ApplyValidate, Applicable, Known, StageInv
        <4>3. seedSaved[u]
          BY <3>4, <4>1, <4>2 DEF AloneInv, Existing, Members, MembersIn
        <4>4. QED
          BY <3>1, <4>3
      <3>5. QED
        BY <3>2, <3>3, <3>4
    <2>4. QED
      BY <2>1, <2>2, <2>3 DEF AloneInv, Existing
  <1>3. QED
    BY <1>1, <1>2, QuietOrApply

\* The client task changes only in a recalculation over the new statuses.
LEMMA ClientSteps ==
  ASSUME [Next]_vars PROVE UNCHANGED <<status, clientVars>> \/ RecalculateClientTask(status')
  <1>1. ASSUME NEW t \in Task, Apply(t), ~ApplyFailed(t) PROVE RecalculateClientTask(status')
    <2>1. PICK st, sib : ApplyTail(t, st, sib)
      BY <1>1 DEF Apply, ApplyStatusNotFound, ApplyStatusKeepsAbort, ApplyStatusTimedOut,
                  ApplyStatus, ApplyCreate, ApplyValidate, ApplyCancel, ApplyDownload
    <2>2. QED
      BY <2>1 DEF ApplyTail
  <1>2. CASE RecoverClientTask
    BY <1>2 DEF RecoverClientTask, RecalculateClientTask, Existing, FailedGroups
  <1>3. ASSUME NEW t \in Task,
               Dispatch(t) \/ Answer(t) \/ WorkerFails(t) \/ ApplyFailed(t)
                 \/ RelayMoves(t) \/ RelayLoses(t)
        PROVE UNCHANGED <<status, clientVars>>
    BY <1>3
    DEF Dispatch, MarkRunning, Answer, AnswerStatus, AnswerCreate, AnswerValidate, AnswerCancel, AnswerResult,
        WriteOutcome, WriteCompleted, WorkerFails, ApplyFailed, RelayMoves, RelayLoses, clientVars
  <1>4. CASE Crash \/ RecoverOperations \/ (\E g \in Groups : RecoverGroup(g)) \/ RecoveryFails
               \/ (\E r \in late : LateRequest(r)) \/ UNCHANGED vars
    BY <1>4 DEF Crash, RecoverOperations, RecoverGroup, RecoveryFails, LateRequest, vars, clientVars
  <1>5. QED
    BY <1>1, <1>2, <1>3, <1>4 DEF Next, Beside, Recover, Apply

\* A failed client task stays without a task that could succeed.
LEMMA FailedStays ==
  ASSUME RelayMayForget = FALSE, HeartbeatLimit = FALSE, Known, AgreeInv, AloneInv, OutcomeInv,
         [Next]_vars, clientStatus = "failed", NEW u \in Task, status'[u] # "absent"
  PROVE  Lost(u)' /\ (seedSaved'[u] \/ Finished(status'[u]))
  <1>k. RelayKeeps
    BY RelayKeepsStep
  <1>1. CASE Quiet
    <2>1. status' = status /\ seedSaved' = seedSaved
      BY <1>1, QuietEffect, QuietOperations
    <2>2. QED
      BY <1>k, <2>1, LostStays DEF OutcomeInv, Existing
  <1>2. ASSUME NEW t \in Task, Apply(t) PROVE Lost(u)' /\ (seedSaved'[u] \/ Finished(status'[u]))
    <2>1. status[u] # "absent"
      <3>1. SUFFICES ASSUME ApplyStatus(t), u \in NewMembers(t) PROVE FALSE
        BY <1>2, RowsAreKept
      <3>2. op[t] = "sync_status" /\ status[t] # "absent"
        BY <3>1 DEF ApplyStatus, Applicable, Known, StageInv
      <3>3. ~seedSaved[t]
        BY <1>2, <3>1, ApplySeeds
      <3>4. Finished(status[t])
        BY <3>2, <3>3 DEF OutcomeInv, Existing
      <3>5. QED
        BY <3>2, <3>3, <3>4 DEF AloneInv
    <2>2. Lost(u)' /\ (seedSaved[u] \/ Finished(status[u]))
      BY <1>k, <2>1, LostStays DEF OutcomeInv, Existing
    <2>3. seedSaved[u] => seedSaved'[u]
      BY <1>2, ApplySeeds
    <2>4. ASSUME ~seedSaved[u], Finished(status[u]) PROVE Finished(status'[u])
      <3>1. op[u] = "none"
        BY <2>4 DEF AloneInv
      <3>2. CASE u = t
        <4>1. status' = status
          BY <1>2, <3>1, <3>2
          DEF Apply, ApplyFailed, ApplyStatusNotFound, ApplyStatusKeepsAbort, ApplyStatusTimedOut,
              ApplyStatus, ApplyCreate, ApplyValidate, ApplyCancel, ApplyDownload, Applicable
        <4>2. QED
          BY <2>4, <4>1
      <3>3. CASE u # t
        BY <1>2, <2>1, <2>4, <3>3, ApplyOthers DEF Finished, FinishedStatus
      <3>4. QED
        BY <3>2, <3>3
    <2>5. QED
      BY <2>2, <2>3, <2>4
  <1>3. QED
    BY <1>1, <1>2, QuietOrApply

\* Every step preserves OutcomeInv.
LEMMA OutcomeStep ==
  ASSUME FilesRecorded, RelayMayForget = FALSE, HeartbeatLimit = FALSE,
         Known, AgreeInv, EndInv, AloneInv, OutcomeInv, [Next]_vars
  PROVE  OutcomeInv'
  <1>n. Known' /\ AgreeInv'
    BY AgreeStep
  <1>x. Existing(status)' = Existing(status') /\ FailedGroups(status)' = FailedGroups(status')
    BY DEF Existing, FailedGroups
  <1>l. ASSUME NEW t \in Task, Lost(t)' PROVE status'[t] # "ResultDownloaded"
    <2>1. Hopeless(t)' => ~After(t)'
      BY UnitFacts DEF Hopeless, UnitOf, GroupRows
    <2>2. ~RelaySuccess(t)'
      BY <1>l, <2>1 DEF Lost, Refused, RelaySuccess, After, AfterValidation
    <2>3. QED
      BY <1>n, <2>2 DEF Known, SuccessInv
  <1>f. clientStatus = "failed" =>
          \A t \in Existing(status') : Lost(t)' /\ (seedSaved'[t] \/ Finished(status'[t]))
    BY FailedStays DEF Existing
  <1>s. clientStatus = "success" => \E t \in Task : status'[t] = "ResultDownloaded"
    BY EndStaysStep DEF OutcomeInv
  <1>1. CASE UNCHANGED <<status, clientVars>>
    <2>1. clientStatus' = clientStatus /\ failedCount' = failedCount /\ status' = status
      BY <1>1 DEF clientVars
    <2>2. QED
      BY <2>1, <1>x, <1>f DEF OutcomeInv
  <1>2. CASE RecalculateClientTask(status') /\ clientStatus # "running"
    <2>1. clientStatus' = clientStatus
      BY <1>2 DEF RecalculateClientTask, clientVars
    <2>2. clientStatus \in {"failed", "success"}
      BY <1>2 DEF Known, TypeOK
    <2>3. CASE clientStatus = "failed"
      <3>1. \A t \in Task : status'[t] # "ResultDownloaded"
        BY <1>f, <1>l, <2>3 DEF Existing
      <3>2. QED
        BY <1>x, <1>f, <2>1, <2>3, <3>1 DEF OutcomeInv
    <2>4. CASE clientStatus = "success"
      BY <1>s, <2>1, <2>4 DEF OutcomeInv
    <2>5. QED
      BY <2>2, <2>3, <2>4
  <1>3. CASE RecalculateClientTask(status') /\ clientStatus = "running" /\ Existing(status') = {}
    <2>1. clientStatus' = clientStatus /\ failedCount' = failedCount
      BY <1>3 DEF RecalculateClientTask, clientVars
    <2>2. Existing(status) = {}
      <3>1. \A u \in Task : status[u] # "absent" => status'[u] # "absent"
        BY QuietEffect, QuietOrApply, RowsAreKept
      <3>2. QED
        BY <1>3, <3>1 DEF Existing
    <2>3. FailedGroups(status) = {} /\ FailedGroups(status') = {}
      BY <1>3, <2>2 DEF FailedGroups
    <2>4. \A t \in Task : status'[t] # "ResultDownloaded"
      BY <1>3 DEF Existing
    <2>5. QED
      BY <1>3, <1>x, <2>1, <2>3, <2>4 DEF OutcomeInv
  <1>4. CASE RecalculateClientTask(status') /\ clientStatus = "running" /\ Existing(status') # {}
    <2>1. /\ failedCount' = Cardinality(FailedGroups(status'))
          /\ clientStatus' = IF \E t \in Task : status'[t] = "ResultDownloaded" THEN "success"
                             ELSE IF \A t \in Existing(status') : Finished(status'[t]) THEN "failed"
                             ELSE "running"
      BY <1>4 DEF RecalculateClientTask
    <2>2. ASSUME clientStatus' = "failed", NEW t \in Existing(status')
          PROVE  Lost(t)' /\ Finished(status'[t])
      <3>1. Finished(status'[t]) /\ status'[t] # "ResultDownloaded" /\ t \in Task
        BY <2>1, <2>2 DEF Existing
      <3>2. status'[t] \in {"EndAborted", "EndGroupRefund", "EndInvalidated"}
        BY <3>1 DEF Finished, FinishedStatus
      <3>3. RowAgrees(t)'
        BY <3>1, <1>n DEF AgreeInv, RowInv
      <3>4. Lost(t)'
        BY <3>2, <3>3 DEF RowAgrees, Lost
      <3>5. QED
        BY <3>1, <3>4
    <2>3. QED
      BY <1>x, <2>1, <2>2 DEF OutcomeInv
  <1>5. QED
    BY <1>1, <1>2, <1>3, <1>4, ClientSteps

\* The client task says success exactly when a result is in hand; until it is
\* decided, failed_count counts the groups that failed; and when it says failed,
\* no task is left that could still bring a result.
THEOREM OutcomeIsJustified ==
  ASSUME FilesRecorded, RelayMayForget = FALSE, HeartbeatLimit = FALSE PROVE Spec => []ClientTaskOutcome
  <1>1. Init => EndInv /\ AloneInv /\ OutcomeInv
    <2> SUFFICES ASSUME Init PROVE EndInv /\ AloneInv /\ OutcomeInv
      OBVIOUS
    <2>1. EndInv
      BY DEF Init, EndInv, EndKept, Answered
    <2>2. AloneInv
      <3>1. ASSUME NEW t \in Existing(status), NEW u \in Existing(status), TaskID[t] = TaskID[u]
            PROVE  t = u
        <4>1. t \in Task /\ u \in Task /\ {t, u} \subseteq GroupRows(TaskID[t]) \cap Primary
          BY <3>1 DEF Init, Existing, GroupRows
        <4>2. IsFiniteSet(GroupRows(TaskID[t]) \cap Primary)
          BY FS_Subset, RelayAssumption DEF GroupRows
        <4>3. PICK x : GroupRows(TaskID[t]) \cap Primary = {x}
          BY <4>1, <4>2, FS_Singleton, EngineAssumption DEF Groups
        <4>4. QED
          BY <4>1, <4>3
      <3>2. \A t \in Task : ~siblingCancel[t] /\ op[t] = "none"
        BY DEF Init
      <3>3. QED
        BY <3>1, <3>2 DEF AloneInv
    <2>3. OutcomeInv
      <3>1. FailedGroups(status) = {}
        BY DEF Init, FailedGroups, Existing, Finished, FinishedStatus
      <3>2. QED
        BY <3>1, FS_EmptySet DEF Init, OutcomeInv
    <2>4. QED
      BY <2>1, <2>2, <2>3
  <1>2. (Known /\ AgreeInv) /\ EndInv /\ AloneInv /\ OutcomeInv /\ [Next]_vars =>
          (EndInv /\ AloneInv /\ OutcomeInv)'
    BY EndStep, AloneStep, OutcomeStep
  <1>3. OutcomeInv => ClientTaskOutcome
    BY DEF OutcomeInv, ClientTaskOutcome
  <1>4. QED
    BY <1>1, <1>2, <1>3, RowsAgreeWithRelay, PTL DEF Spec

-----------------------------------------------------------------------------
\* A Relay that aborts no task and refuses none, and nodes that cannot differ: no
\* validation is hopeless then, so nothing makes the bridge abort a row.
CalmRelay ==
  /\ RelayMayForget = FALSE /\ HeartbeatLimit = FALSE
  /\ "EndAborted" \notin ChainStatuses /\ Rejected = {}
  /\ FilesRecorded /\ \A f, g \in ExecFiles : f = g

\* No row is aborted, here or at Relay, and no cancellation is on its way.
CalmInv ==
  /\ \A t \in Task : /\ "EndAborted" \notin {status[t], rstatus[t]}
                     /\ ~siblingCancel[t] /\ op[t] # "cancel"
  /\ \A r \in late : r.op # "cancel"

\* Whoever validates is the first row of its unit, and still ready.
OwnerInv ==
  \A t \in Task : op[t] = "validate" =>
    IsReadyForValidation(status[t]) /\ \A u \in UnitOf(t) : t \leq u

\* A settled unit can be validated.
LEMMA CalmHasHope ==
  ASSUME CalmRelay, TypeOK, CalmInv, NEW t \in Task PROVE ~Hopeless(t)
  <1> SUFFICES ASSUME Hopeless(t) PROVE FALSE
    OBVIOUS
  <1>1. \A u \in UnitOf(t) : RelayReady(u)
    BY UnitFacts DEF Hopeless, Settled, SettledStatus, After, Refused, RelayReady, CalmInv, CalmRelay
  <1>2. Validatable(UnitOf(t))
    BY <1>1, UnitFacts DEF Validatable
  <1>3. Agree(t)
    BY UnitFacts DEF Agree, CalmRelay, TypeOK, RelayTypeOK
  <1>4. QED
    BY <1>2, <1>3 DEF Hopeless

\* No request takes a task out of Relay's queue.
LEMMA CalmAtRelay ==
  ASSUME CalmRelay, TypeOK, CalmInv, [Next]_vars, NEW u \in Task
  PROVE  rstatus'[u] # "EndAborted"
  <1>t. RelayTypeOK /\ rstatus[u] # "EndAborted"
    BY DEF TypeOK, CalmInv
  <1>1. CASE UNCHANGED relayVars
    BY <1>1, <1>t DEF relayVars
  <1>2. ASSUME NEW t \in Task, RelayProgress(t) PROVE rstatus'[u] # "EndAborted"
    BY <1>2, <1>t DEF RelayProgress, RelayTypeOK, CalmRelay
  <1>3. ASSUME NEW t \in Task, NEW out, RelayCreate(t, out) PROVE rstatus'[u] # "EndAborted"
    BY <1>3, <1>t DEF RelayCreate, RelayTypeOK, relayVars
  <1>4. ASSUME NEW unit, NEW out, RelayValidate(unit, out) PROVE rstatus'[u] # "EndAborted"
    <2>1. ASSUME ValidateUnit(unit) PROVE rstatus'[u] # "EndAborted"
      BY <2>1, <1>t DEF ValidateUnit, CalmRelay
    <2>2. QED
      BY <1>1, <1>4, <2>1 DEF RelayValidate
  <1>5. ASSUME NEW t \in Task, Answer(t) PROVE rstatus'[u] # "EndAborted"
    <2>1. ~AnswerCancel(t)
      BY DEF AnswerCancel, Working, CalmInv
    <2>2. QED
      BY <1>1, <1>3, <1>4, <1>5, <2>1
      DEF Answer, AnswerStatus, AnswerCreate, AnswerValidate, AnswerResult
  <1>6. ASSUME NEW r \in late, LateRequest(r) PROVE rstatus'[u] # "EndAborted"
    <2>1. r.task \in Task /\ r.op \in {"create", "validate"}
      BY DEF TypeOK, Request, MutationOp, CalmInv
    <2>2. \/ r.op = "create" /\ \E out \in Outcome : RelayCreate(r.task, out)
          \/ r.op = "validate" /\ \E out \in Outcome : RelayValidate(r.unit, out)
      BY <1>6, <2>1 DEF LateRequest
    <2>3. QED
      BY <1>3, <1>4, <2>1, <2>2
  <1>7. ASSUME NEW t \in Task, RelayMoves(t) \/ RelayLoses(t) PROVE rstatus'[u] # "EndAborted"
    BY <1>2, <1>7 DEF RelayMoves, RelayLoses, CalmRelay
  <1>8. ASSUME NEW t \in Task, Apply(t) PROVE rstatus'[u] # "EndAborted"
    BY <1>1, <1>8, ApplyClears
  <1>9. ASSUME NEW t \in Task, Dispatch(t) \/ WorkerFails(t) PROVE rstatus'[u] # "EndAborted"
    BY <1>1, <1>9 DEF Dispatch, MarkRunning, WorkerFails
  <1>10. CASE Crash \/ Recover \/ RecoveryFails \/ UNCHANGED vars
    BY <1>1, <1>10 DEF Crash, Recover, RecoverOperations, RecoverGroup, RecoverClientTask,
                       RecoveryFails, vars
  <1>11. QED
    BY <1>5, <1>6, <1>7, <1>8, <1>9, <1>10 DEF Next, Beside

\* Requests outlive a worker only when it fails or dies.
LEMMA LateComesFrom ==
  ASSUME [Next]_vars PROVE \E S \in SUBSET Task : late' \subseteq late \cup InFlight(S)
  <1>1. ASSUME NEW t \in Task, Dispatch(t) \/ Answer(t) \/ Apply(t) \/ RelayMoves(t) \/ RelayLoses(t)
        PROVE late' = late
    BY <1>1
    DEF Dispatch, MarkRunning, Answer, AnswerStatus, AnswerCreate, AnswerValidate, AnswerCancel, AnswerResult,
        WriteOutcome, WriteCompleted, RelayMoves, RelayLoses, envVars, Apply, ApplyFailed,
        ApplyStatusNotFound, ApplyStatusKeepsAbort, ApplyStatusTimedOut, ApplyStatus, ApplyCreate,
        ApplyValidate, ApplyCancel, ApplyDownload, ApplyTail
  <1>2. ASSUME NEW t \in Task, WorkerFails(t) PROVE late' \subseteq late \cup InFlight({t})
    BY <1>2 DEF WorkerFails
  <1>3. CASE Crash
    BY <1>3 DEF Crash
  <1>4. CASE Recover \/ RecoveryFails \/ (\E r \in late : LateRequest(r)) \/ UNCHANGED vars
    BY <1>4 DEF Recover, RecoverOperations, RecoverGroup, RecoverClientTask, RecoveryFails,
                LateRequest, vars, envVars
  <1>5. QED
    BY <1>1, <1>2, <1>3, <1>4 DEF Next, Beside

\* Siblings are cancelled only for a row that was aborted.
LEMMA SiblingsOfAborted ==
  ASSUME HeartbeatLimit = FALSE, TypeOK, NEW t \in Task, Apply(t), NEW u \in Task, siblingCancel'[u]
  PROVE  siblingCancel[u] \/ status'[t] = "EndAborted"
  <1>1. ASSUME NEW st, NEW sib, ApplyTail(t, st, sib), sib[u] => siblingCancel[u]
        PROVE  siblingCancel[u] \/ status'[t] = "EndAborted"
    BY <1>1 DEF ApplyTail, SetAll, SiblingsToCancel
  <1>2. [siblingCancel EXCEPT ![t] = FALSE][u] => siblingCancel[u]
    BY DEF TypeOK
  <1>3. CASE ApplyFailed(t)
    BY <1>3 DEF ApplyFailed
  <1>4. CASE ApplyStatusTimedOut(t)
    BY <1>4 DEF ApplyStatusTimedOut
  <1>5. CASE ~ApplyFailed(t) /\ ~ApplyStatusTimedOut(t)
    <2>1. \E st, sib : ApplyTail(t, st, sib) /\ (sib[u] => siblingCancel[u])
      BY <1>2, <1>5
      DEF Apply, ApplyStatusNotFound, ApplyStatusKeepsAbort, ApplyStatus, ApplyCreate, ApplyValidate,
          ApplyCancel, ApplyDownload
    <2>2. QED
      BY <1>1, <2>1
  <1>6. QED
    BY <1>3, <1>4, <1>5

\* No stored answer makes the bridge abort a row.
LEMMA CalmApply ==
  ASSUME CalmRelay, Known, AgreeInv, CalmInv, NEW t \in Task, Apply(t), NEW u \in Task
  PROVE  status'[u] # "EndAborted" /\ ~siblingCancel'[u]
  <1>c. TypeOK /\ ~Hopeless(t) /\ HeartbeatLimit = FALSE
    BY CalmHasHope DEF Known, CalmRelay
  <1>1. status'[t] # "EndAborted"
    <2>1. CASE ApplyStatus(t)
      <3>1. opResult[t].status \in ChainStatus /\ opResult[t].status \notin {"NotFound", "EndAborted"}
        BY <2>1, <1>c DEF ApplyStatus, Applicable, TypeOK, Result, AgreeInv, StoredInv, StoredStatus,
                          Answered, CalmInv
      <3>2. RelayStatusToLocal(opResult[t].status) # "EndAborted"
        BY <3>1, LocalInverse
      <3>3. status'[t] = RelayStatusToLocal(opResult[t].status)
        <4>1. status' = SetAll([status EXCEPT ![t] = RelayStatusToLocal(opResult[t].status)],
                               NewMembers(t), "Pending")
          BY <2>1 DEF ApplyStatus, ApplyTail
        <4>2. QED
          BY <4>1, <1>c DEF SetAll, NewMembers, TypeOK
      <3>4. QED
        BY <3>2, <3>3
    <2>2. CASE ApplyCreate(t)
      <3>1. opResult[t].outcome \in {"created", "already_exists", "temporary_error"}
        BY <2>2 DEF ApplyCreate, Applicable, AgreeInv, StoredInv, StoredCreate, Answered, Refused,
                    CalmRelay
      <3>2. status' \in {status, [status EXCEPT ![t] = "Created"]}
        BY <2>2, <3>1 DEF ApplyCreate, CreationAccepted, ApplyTail
      <3>3. QED
        BY <3>2, <1>c DEF TypeOK, CalmInv
    <2>3. CASE ApplyValidate(t)
      <3>1. opResult[t].outcome \in {"validated", "already_applied", "temporary_error"}
        BY <2>3, <1>c DEF ApplyValidate, Applicable, AgreeInv, StoredInv, StoredValidate, Answered
      <3>2. status' = status
        BY <2>3, <3>1 DEF ApplyValidate, ValidationAccepted, ApplyTail
      <3>3. QED
        BY <3>2 DEF CalmInv
    <2>4. QED
      BY <1>c, <2>1, <2>2, <2>3, ApplyOwn DEF CalmInv
  <1>2. status'[u] # "EndAborted"
    BY <1>1, <1>c, ApplyOthers DEF CalmInv
  <1>3. ~siblingCancel'[u]
    BY <1>1, <1>c, SiblingsOfAborted DEF CalmInv
  <1>4. QED
    BY <1>2, <1>3

\* Calm stays calm.
LEMMA CalmStep ==
  ASSUME CalmRelay, Known, AgreeInv, CalmInv, [Next]_vars PROVE CalmInv'
  <1>c. TypeOK
    BY DEF Known
  <1>1. ASSUME NEW u \in Task
        PROVE  /\ "EndAborted" \notin {status'[u], rstatus'[u]}
               /\ ~siblingCancel'[u] /\ op'[u] # "cancel"
    <2>1. rstatus'[u] # "EndAborted"
      BY <1>c, CalmAtRelay
    <2>2. CASE Quiet
      <3>1. op'[u] \in {op[u], "none"} \/ (Dispatch(u) /\ op'[u] = DecideOperation(u))
        BY <2>2, QuietOperations
      <3>2. DecideOperation(u) # "cancel"
        BY DEF DecideOperation, CalmInv
      <3>3. QED
        BY <2>1, <2>2, <3>1, <3>2, QuietEffect, QuietOperations DEF CalmInv
    <2>3. ASSUME NEW t \in Task, Apply(t)
          PROVE  status'[u] # "EndAborted" /\ ~siblingCancel'[u] /\ op'[u] # "cancel"
      <3>1. op' = [op EXCEPT ![t] = "none"]
        BY <1>c, <2>3, ApplyClears
      <3>2. op'[u] # "cancel"
        BY <1>c, <3>1 DEF TypeOK, CalmInv
      <3>3. QED
        BY <2>3, <3>2, CalmApply
    <2>4. QED
      BY <2>1, <2>2, <2>3, QuietOrApply
  <1>2. \A r \in late' : r.op # "cancel"
    <2>1. PICK S \in SUBSET Task : late' \subseteq late \cup InFlight(S)
      BY LateComesFrom
    <2>2. QED
      BY <2>1 DEF InFlight, RequestOf, CalmInv
  <1>3. QED
    BY <1>1, <1>2 DEF CalmInv

\* Who owns a validation is found among rows that are all ready.
LEMMA OwnerStep ==
  ASSUME CalmRelay, Known, AgreeInv, CalmInv, OwnerInv, [Next]_vars PROVE OwnerInv'
  <1>c. TypeOK /\ HeartbeatLimit = FALSE
    BY DEF Known, CalmRelay
  <1>u. \A t \in Task : UnitOf(t)' = UnitOf(t)
    BY DEF UnitOf, GroupRows
  <1>1. ASSUME NEW t \in Task, op'[t] = "validate"
        PROVE  IsReadyForValidation(status'[t]) /\ \A u \in UnitOf(t) : t \leq u
    <2>1. CASE op[t] = "validate"
      <3>1. IsReadyForValidation(status[t]) /\ \A u \in UnitOf(t) : t \leq u
        BY <2>1 DEF OwnerInv
      <3>2. CASE Quiet
        BY <3>1, <3>2, QuietEffect
      <3>3. ASSUME NEW v \in Task, Apply(v) PROVE status'[t] = status[t]
        <4>1. t # v
          BY <1>1, <1>c, <3>3, ApplyClears DEF TypeOK
        <4>2. status[t] # "absent" /\ status'[t] # "EndAborted"
          BY <3>1, <3>3, CalmApply DEF IsReadyForValidation
        <4>3. QED
          BY <1>c, <3>3, <4>1, <4>2, ApplyOthers
      <3>4. QED
        BY <3>1, <3>2, <3>3, QuietOrApply
    <2>2. CASE op[t] # "validate"
      <3>1. Dispatch(t) /\ DecideOperation(t) = "validate" /\ status' = status
        <4>1. Quiet
          BY <1>1, <1>c, <2>2, QuietOrApply, ApplyClears DEF TypeOK
        <4>2. QED
          BY <1>1, <2>2, <4>1, QuietOperations, QuietEffect
      <3>2. SubmitsValidation(t) /\ status[t] # "absent" /\ IsReadyForValidation(status[t])
        BY <3>1 DEF DecideOperation, Dispatch, MarkRunning, LoadedAsDue, SubmitsValidation
      <3>3. Members(t) = UnitOf(t)
        BY <3>2, MembersAreUnit DEF Known, VRFInv, SeedInv, UpForValidation, AgreeInv
      <3>4. CASE Cardinality(Members(t)) = 1
        <4>1. TaskID[t] \notin VSSGroups
          BY <3>3, <3>4, EngineAssumption DEF UnitOf
        <4>2. UnitOf(t) = {t}
          BY <4>1 DEF UnitOf
        <4>3. t \leq t
          BY EngineAssumption
        <4>4. QED
          BY <3>1, <3>2, <4>2, <4>3
      <3>5. CASE ValidationGroupReady(Members(t)) /\ IsValidationOwner(t)
        <4>1. \A u \in Members(t) : IsReadyForValidation(status[u])
          BY <3>5 DEF ValidationGroupReady, Members, MembersIn, CalmInv
        <4>2. \A u \in Members(t) : t \leq u
          BY <3>5, <4>1 DEF IsValidationOwner
        <4>3. QED
          BY <3>1, <3>2, <3>3, <4>2
      <3>6. QED
        BY <3>2, <3>4, <3>5 DEF SubmitsValidation
    <2>3. QED
      BY <2>1, <2>2
  <1>2. QED
    BY <1>1, <1>u DEF OwnerInv

\* What a calm Relay leaves to the bridge.
THEOREM CalmGroups ==
  ASSUME CalmRelay PROVE Spec => []((Known /\ AgreeInv) /\ EndInv /\ CalmInv /\ OwnerInv)
  <1>1. Init => EndInv /\ CalmInv /\ OwnerInv
    BY DEF Init, RelayInit, EndInv, EndKept, Answered, CalmInv, OwnerInv
  <1>2. (Known /\ AgreeInv) /\ EndInv /\ CalmInv /\ OwnerInv /\ [Next]_vars =>
          (EndInv /\ CalmInv /\ OwnerInv)'
    BY EndStep, CalmStep, OwnerStep DEF CalmRelay
  <1>3. Spec => [](Known /\ AgreeInv)
    BY RowsAgreeWithRelay DEF CalmRelay
  <1>4. QED
    BY <1>1, <1>2, <1>3, PTL DEF Spec

\* If Relay aborts no task and the nodes run the same files, a group has one validation at a
\* time, whatever operations fail and however often the bridge restarts.
THEOREM OneOwner ==
  ASSUME CalmRelay PROVE Spec => []OneValidationOwner
  <1>1. (Known /\ AgreeInv) /\ OwnerInv => OneValidationOwner
    <2> SUFFICES ASSUME Known, AgreeInv, OwnerInv, NEW g \in Groups
                 PROVE  Cardinality({t \in GroupRows(g) : op[t] = "validate"}) \leq 1
      BY DEF OneValidationOwner
    <2>1. ASSUME NEW t \in GroupRows(g), NEW u \in GroupRows(g), op[t] = "validate", op[u] = "validate"
          PROVE  t = u
      <3>1. t \in Task /\ u \in Task /\ TaskID[t] = g /\ TaskID[u] = g
        BY DEF GroupRows
      <3>2. CASE g \in VSSGroups
        <4>1. u \in UnitOf(t) /\ t \in UnitOf(u)
          BY <3>1, <3>2 DEF UnitOf
        <4>2. t \leq u /\ u \leq t
          BY <2>1, <3>1, <4>1 DEF OwnerInv
        <4>3. QED
          BY <3>1, <4>2, EngineAssumption
      <3>3. CASE g \notin VSSGroups
        <4>1. t \in GroupRows(g) \cap Primary /\ u \in GroupRows(g) \cap Primary
          BY <2>1, <3>1, <3>3 DEF Known, StageInv, AgreeInv, SoloInv
        <4>2. IsFiniteSet(GroupRows(g) \cap Primary)
          BY FS_Subset, RelayAssumption DEF GroupRows
        <4>3. PICK x : GroupRows(g) \cap Primary = {x}
          BY <4>2, FS_Singleton, EngineAssumption
        <4>4. QED
          BY <4>1, <4>3
      <3>4. QED
        BY <3>2, <3>3
    <2>2. QED
      BY <2>1, AllEqual
  <1>2. QED
    BY <1>1, CalmGroups, PTL

-----------------------------------------------------------------------------
\* Lost mutations are reconciled.

\* A row whose loss is not forgotten is marked unknown, and only reads Relay.
Reconciles(t) ==
  /\ opUnknown[t]
  /\ opStatus[t] \in {"none", "failed"} \/ op[t] = "sync_status"
LossInv == \A t \in Task : unresolved[t] /\ ~forgotten[t] => Reconciles(t)

\* A step that loses the answer to a mutation leaves its row marked.
LEMMA LossIs ==
  ASSUME TypeOK, [Next]_vars, NEW u \in Task, Loses(u) PROVE Reconciles(u)'
  <1>1. opStatus[u] = "running" /\ opStatus'[u] \in {"none", "failed"} /\ op[u] \in MutationOp
    BY DEF Loses
  <1>2. ASSUME NEW t \in Task, Dispatch(t) \/ Answer(t) \/ Apply(t) \/ RelayMoves(t) \/ RelayLoses(t)
        PROVE FALSE
    <2>1. CASE Dispatch(t) \/ RelayMoves(t) \/ RelayLoses(t)
      BY <1>1, <2>1 DEF Dispatch, MarkRunning, RelayMoves, RelayLoses, opVars, TypeOK
    <2>2. CASE Answer(t)
      <3>1. opStatus' = [opStatus EXCEPT ![t] = "completed"]
        BY <2>2 DEF Answer, AnswerStatus, AnswerCreate, AnswerValidate, AnswerCancel, AnswerResult,
                    WriteOutcome, WriteCompleted
      <3>2. QED
        BY <1>1, <3>1 DEF TypeOK
    <2>3. CASE Apply(t)
      <3>1. opStatus' = [opStatus EXCEPT ![t] = "none"] /\ opStatus[t] # "running"
        BY <2>3, ApplyClears
        DEF Apply, ApplyFailed, ApplyStatusNotFound, ApplyStatusKeepsAbort, ApplyStatusTimedOut,
            ApplyStatus, ApplyCreate, ApplyValidate, ApplyCancel, ApplyDownload, Applicable
      <3>2. QED
        BY <1>1, <3>1 DEF TypeOK
    <2>4. QED
      BY <1>2, <2>1, <2>2, <2>3
  <1>3. ASSUME NEW t \in Task, WorkerFails(t)
        PROVE  opUnknown'[u]
    <2>1. t = u
      BY <1>1, <1>3 DEF WorkerFails, TypeOK
    <2>2. QED
      BY <1>1, <1>3, <2>1 DEF WorkerFails, LeavesUnknown, TypeOK
  <1>4. ASSUME RecoverOperations PROVE opUnknown'[u]
    BY <1>1, <1>4 DEF RecoverOperations, SetAll, Interrupted, TypeOK
  <1>5. ASSUME \/ Crash \/ RecoverClientTask \/ RecoveryFails \/ UNCHANGED vars
               \/ \E g \in Groups : RecoverGroup(g)
               \/ \E r \in late : LateRequest(r)
        PROVE FALSE
    BY <1>1, <1>5 DEF Crash, RecoverClientTask, RecoveryFails, RecoverGroup, LateRequest, vars, opVars
  <1>6. opUnknown'[u]
    BY <1>2, <1>3, <1>4, <1>5 DEF Next, Beside, Recover
  <1>7. QED
    BY <1>1, <1>6 DEF Reconciles

\* Applying an answer leaves every other row as it was, and of a row that
\* reconciles it can only be the status answer, or what a failure left.
LEMMA ReconcilingApply ==
  ASSUME TypeOK, NEW v \in Task, Apply(v), NEW u \in Task, Reconciles(u)
  PROVE  Reconciles(u)' \/ AppliesStatus(u)
  <1>1. op' = [op EXCEPT ![v] = "none"] /\ opStatus' = [opStatus EXCEPT ![v] = "none"]
    BY ApplyClears
  <1>2. opUnknown' = [opUnknown EXCEPT ![v] = FALSE] \/ opUnknown' = opUnknown
    BY DEF Apply, ApplyFailed, ApplyStatusNotFound, ApplyStatusKeepsAbort, ApplyStatusTimedOut,
           ApplyStatus, ApplyCreate, ApplyValidate, ApplyCancel, ApplyDownload
  <1>3. CASE u # v
    <2>1. op'[u] = op[u] /\ opStatus'[u] = opStatus[u]
      BY <1>1, <1>3 DEF TypeOK
    <2>2. opUnknown'[u] = opUnknown[u]
      BY <1>2, <1>3 DEF TypeOK
    <2>3. QED
      BY <2>1, <2>2 DEF Reconciles
  <1>4. CASE u = v /\ ApplyFailed(v)
    <2>1. opUnknown' = opUnknown /\ opStatus'[u] = "none"
      BY <1>1, <1>4 DEF ApplyFailed, TypeOK
    <2>2. QED
      BY <2>1 DEF Reconciles
  <1>5. CASE u = v /\ ~ApplyFailed(v)
    <2>1. opStatus[v] = "completed"
      BY <1>5 DEF Apply, ApplyStatusNotFound, ApplyStatusKeepsAbort, ApplyStatusTimedOut,
                  ApplyStatus, ApplyCreate, ApplyValidate, ApplyCancel, ApplyDownload, Applicable
    <2>2. opStatus'[v] = "none"
      BY <1>1 DEF TypeOK
    <2>3. QED
      BY <1>5, <2>1, <2>2 DEF Reconciles, AppliesStatus
  <1>6. QED
    BY <1>3, <1>4, <1>5

\* A row that reconciles goes on, until the answer is applied or its query fails.
LEMMA ReconcilingStep ==
  ASSUME TypeOK, [Next]_vars, NEW u \in Task, Reconciles(u), ~AppliesStatus(u), ~FailsQuery(u)
  PROVE  Reconciles(u)'
  <1>1. ASSUME NEW t \in Task, Dispatch(t) PROVE Reconciles(u)'
    <2>1. CASE t = u
      <3>1. DecideOperation(u) = "sync_status"
        BY DEF DecideOperation, Reconciles
      <3>2. op'[u] = "sync_status" /\ opUnknown' = opUnknown
        BY <1>1, <2>1, <3>1 DEF Dispatch, MarkRunning, TypeOK
      <3>3. QED
        BY <3>2 DEF Reconciles
    <2>2. CASE t # u
      BY <1>1, <2>2 DEF Dispatch, MarkRunning, TypeOK, Reconciles
    <2>3. QED
      BY <2>1, <2>2
  <1>2. ASSUME NEW t \in Task, Answer(t) PROVE Reconciles(u)'
    <2>1. /\ op' = op /\ opUnknown' = opUnknown /\ opStatus[t] = "running"
          /\ opStatus' = [opStatus EXCEPT ![t] = "completed"]
      BY <1>2 DEF Answer, AnswerStatus, AnswerCreate, AnswerValidate, AnswerCancel, AnswerResult,
                  WriteOutcome, WriteCompleted, Working
    <2>2. QED
      BY <2>1 DEF Reconciles, TypeOK
  <1>3. ASSUME NEW t \in Task, WorkerFails(t) PROVE Reconciles(u)'
    <2>1. /\ op' = op /\ opStatus[t] = "running"
          /\ opStatus' = [opStatus EXCEPT ![t] = "failed"]
          /\ opUnknown' = [opUnknown EXCEPT ![t] = LeavesUnknown(op[t])]
      BY <1>3 DEF WorkerFails
    <2>2. t # u
      BY <2>1 DEF Reconciles, FailsQuery, TypeOK
    <2>3. opStatus'[u] = opStatus[u] /\ opUnknown'[u] = opUnknown[u]
      BY <2>1, <2>2 DEF TypeOK
    <2>4. QED
      BY <2>1, <2>3 DEF Reconciles
  <1>4. ASSUME NEW t \in Task, Apply(t) PROVE Reconciles(u)'
    BY <1>4, ReconcilingApply
  <1>5. CASE RecoverOperations
    BY <1>5 DEF RecoverOperations, SetAll, TypeOK, Reconciles, Interrupted
  <1>6. CASE \/ Crash \/ RecoverClientTask \/ RecoveryFails \/ UNCHANGED vars
             \/ \E g \in Groups : RecoverGroup(g)
             \/ \E r \in late : LateRequest(r)
             \/ \E t \in Task : RelayMoves(t) \/ RelayLoses(t)
    BY <1>6 DEF Crash, RecoverClientTask, RecoveryFails, RecoverGroup, LateRequest, RelayMoves,
                RelayLoses, vars, opVars, Reconciles
  <1>7. QED
    BY <1>1, <1>2, <1>3, <1>4, <1>5, <1>6 DEF Next, Beside, Recover

\* The bridge never forgets by itself that the answer to a mutation was lost: it
\* repeats a mutation of that row only after a status answer was applied to it,
\* or after the query that was to bring one has failed.  No assumption is made
\* about Relay, failures, crashes or recovery.
THEOREM LossesAreReconciled == HSpec => RetryIsReconciled
  <1>1. HInit => TypeOK /\ LossInv
    BY InitType DEF HInit, LossInv
  <1>2. TypeOK /\ LossInv /\ [HNext]_<<vars, historyVars>> => (TypeOK /\ LossInv)'
    <2> SUFFICES ASSUME TypeOK, LossInv, [HNext]_<<vars, historyVars>>
                 PROVE  TypeOK' /\ LossInv'
      OBVIOUS
    <2>n. [Next]_vars
      BY DEF HNext
    <2>1. TypeOK'
      BY <2>n, NextType
    <2>2. ASSUME NEW u \in Task, unresolved'[u], ~forgotten'[u] PROVE Reconciles(u)'
      <3>1. CASE Remember
        <4>1. Loses(u) \/ (unresolved[u] /\ ~AppliesStatus(u))
          BY <2>2, <3>1 DEF Remember
        <4>2. Loses(u) \/ (~forgotten[u] /\ ~FailsQuery(u))
          BY <2>2, <3>1 DEF Remember
        <4>3. CASE Loses(u)
          BY <2>n, <4>3, LossIs
        <4>4. CASE ~Loses(u)
          <5>1. Reconciles(u)
            BY <4>1, <4>2, <4>4 DEF LossInv
          <5>2. QED
            BY <2>n, <4>1, <4>2, <4>4, <5>1, ReconcilingStep
        <4>5. QED
          BY <4>3, <4>4
      <3>2. CASE UNCHANGED <<vars, historyVars>>
        BY <2>2, <3>2 DEF LossInv, Reconciles, vars, opVars, historyVars
      <3>3. QED
        BY <3>1, <3>2 DEF HNext
    <2>3. QED
      BY <2>1, <2>2 DEF LossInv
  <1>3. TypeOK /\ LossInv /\ [HNext]_<<vars, historyVars>> =>
          [\A t \in Task, o \in MutationOp :
             Starts(t, o) => ~unresolved[t] \/ forgotten[t]]_<<vars, historyVars>>
    <2> SUFFICES ASSUME TypeOK, LossInv, HNext, NEW t \in Task, NEW o \in MutationOp, Starts(t, o),
                        unresolved[t], ~forgotten[t]
                 PROVE  FALSE
      OBVIOUS
    <2>1. Reconciles(t) /\ [Next]_vars
      BY DEF LossInv, HNext
    <2>2. opStatus[t] = "none" /\ opStatus'[t] = "running" /\ op'[t] \in MutationOp
      BY DEF Starts
    <2>3. ~AppliesStatus(t) /\ ~FailsQuery(t)
      BY <2>2 DEF AppliesStatus, FailsQuery
    <2>4. Reconciles(t)'
      BY <2>1, <2>3, ReconcilingStep
    <2>5. QED
      BY <2>2, <2>4 DEF Reconciles, MutationOp
  <1>4. QED
    BY <1>1, <1>2, <1>3, PTL DEF HSpec, RetryIsReconciled
=============================================================================
