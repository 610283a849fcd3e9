------------------------------- MODULE Relay -------------------------------
(***************************************************************************)
(* Crynux Relay as the bridge sees it: an external service that keeps one  *)
(* state per task commitment, answers batch mutations idempotently and     *)
(* moves tasks on by itself.  It is not part of the repository; everything *)
(* here is what src/relay and src/taskengine expect of it.                 *)
(***************************************************************************)
EXTENDS InferenceTask

CONSTANTS
  Task,          \* ids of the rows of inference_tasks; each has its own commitment
  ChainStatuses, \* the Relay statuses this instance exposes
  ExecFiles,     \* what a node may record as its execution model files
  NoFiles,       \* no entry recorded
  Rejected       \* the tasks whose creation Relay refuses for good

ASSUME RelayAssumption ==
  /\ IsFiniteSet(Task)
  /\ ChainStatuses \subseteq ChainStatus
  /\ Rejected \subseteq Task

VARIABLES
  rstatus,  \* rstatus[t]: status of t's commitment at Relay
  rreason,  \* rreason[t]: its abort reason
  rfiles    \* rfiles[t]:  the execution model files recorded for it

relayVars == <<rstatus, rreason, rfiles>>

RelayTypeOK ==
  /\ rstatus \in [Task -> ChainStatus]
  /\ rreason \in [Task -> AbortReason]
  /\ rfiles  \in [Task -> ExecFiles \cup {NoFiles}]

RelayInit ==
  /\ rstatus = [t \in Task |-> "NotFound"]
  /\ rreason = [t \in Task |-> "None"]
  /\ rfiles  = [t \in Task |-> NoFiles]

RelayReady(t) == rstatus[t] \in {"ScoreReady", "ErrorReported"}

-----------------------------------------------------------------------------
\* What Relay does by itself.

\* The statuses a task may have next; steps the bridge cannot see are skipped.
Onward(c) ==
  CASE c = "Queued"  -> {"Started", "ParametersUploaded", "ScoreReady", "ErrorReported", "EndAborted"}
    [] c = "Started" -> {"ParametersUploaded", "ScoreReady", "ErrorReported", "EndAborted"}
    [] c = "ParametersUploaded" -> {"ScoreReady", "ErrorReported", "EndAborted"}
    [] c \in {"ScoreReady", "ErrorReported"} -> {"EndAborted"}
    [] c = "Validated" -> {"EndSuccess", "EndAborted"}
    [] c = "GroupValidated" -> {"EndGroupSuccess", "EndAborted"}
    [] OTHER -> {}

\* A node takes the task, executes it, uploads the result; or a timeout aborts
\* it.  The execution model files are frozen when a node takes the task.
RelayProgress(t) ==
  \E c \in Onward(rstatus[t]) \cap ChainStatuses :
    /\ rstatus' = [rstatus EXCEPT ![t] = c]
    /\ IF c = "EndAborted"
         THEN rreason' = [rreason EXCEPT ![t] =
                IF RelayReady(t) THEN "CreatorValidationTimeout" ELSE "Other"]
         ELSE UNCHANGED rreason
    /\ IF rstatus[t] = "Queued" /\ c # "EndAborted"
         THEN \E f \in ExecFiles : rfiles' = [rfiles EXCEPT ![t] = f]
         ELSE UNCHANGED rfiles

\* Relay loses an unfinished task.
RelayForget(t) ==
  /\ rstatus[t] \notin ChainTaskTerminal \cup {"NotFound"}
  /\ rstatus' = [rstatus EXCEPT ![t] = "NotFound"]
  /\ rreason' = [rreason EXCEPT ![t] = "None"]
  /\ rfiles'  = [rfiles EXCEPT ![t] = NoFiles]

-----------------------------------------------------------------------------
\* How Relay answers one item of a batch mutation; out is the item's outcome.

\* Creation is idempotent by commitment.
RelayCreate(t, out) ==
  \/ /\ out = "created"
     /\ rstatus[t] = "NotFound" /\ t \notin Rejected
     /\ rstatus' = [rstatus EXCEPT ![t] = "Queued"]
     /\ UNCHANGED <<rreason, rfiles>>
  \/ /\ out = "already_exists"
     /\ rstatus[t] # "NotFound"
     /\ UNCHANGED relayVars
  \/ /\ out = "permanent_error"
     /\ rstatus[t] = "NotFound" /\ t \in Rejected
     /\ UNCHANGED relayVars
  \/ /\ out = "temporary_error"
     /\ UNCHANGED relayVars

AfterValidation == {"Validated", "GroupValidated", "EndInvalidated",
                    "EndGroupRefund", "EndSuccess", "EndGroupSuccess"}

AlreadyValidated(unit) == \E t \in unit : rstatus[t] \in AfterValidation

\* Every member is ready or aborted, and the creator was not too late.
Validatable(unit) ==
  /\ \A t \in unit : \/ RelayReady(t)
                     \/ /\ rstatus[t] = "EndAborted"
                        /\ rreason[t] # "CreatorValidationTimeout"
  /\ \E t \in unit : RelayReady(t)

\* A single task is validated or rejected; in a group at most one member wins.
ValidateUnit(unit) ==
  LET ready  == {t \in unit : RelayReady(t)}
      won    == IF Cardinality(unit) = 1 THEN "Validated" ELSE "GroupValidated"
      losing == {"EndGroupRefund", "EndInvalidated", "EndAborted"} \cap ChainStatuses
  IN \E winners \in SUBSET ready, lost \in losing :
       /\ Cardinality(winners) \leq 1
       /\ rstatus' = [t \in Task |-> IF t \in winners THEN won
                                     ELSE IF t \in ready THEN lost ELSE rstatus[t]]
       /\ rreason' = [t \in Task |-> IF t \in ready \ winners /\ lost = "EndAborted"
                                     THEN "Other" ELSE rreason[t]]
       /\ UNCHANGED rfiles

\* One validation unit is atomic; a repeated validation is already applied.
RelayValidate(unit, out) ==
  \/ /\ out = "validated"
     /\ Validatable(unit) /\ ~AlreadyValidated(unit)
     /\ ValidateUnit(unit)
  \/ /\ out = "already_applied"
     /\ AlreadyValidated(unit)
     /\ UNCHANGED relayVars
  \/ /\ out = "permanent_error"
     /\ ~Validatable(unit) /\ ~AlreadyValidated(unit)
     /\ UNCHANGED relayVars
  \/ /\ out = "temporary_error"
     /\ UNCHANGED relayVars

\* Creator cancel only takes a queued task.
RelayCancel(t, out) ==
  \/ /\ out = "cancelled"
     /\ rstatus[t] = "Queued"
     /\ rstatus' = [rstatus EXCEPT ![t] = "EndAborted"]
     /\ rreason' = [rreason EXCEPT ![t] = "CreatorCancelled"]
     /\ UNCHANGED rfiles
  \/ /\ out = "already_cancelled"
     /\ rstatus[t] = "EndAborted" /\ rreason[t] = "CreatorCancelled"
     /\ UNCHANGED relayVars
  \/ /\ out = "not_cancellable"
     /\ rstatus[t] \notin {"NotFound", "Queued"}
     /\ ~(rstatus[t] = "EndAborted" /\ rreason[t] = "CreatorCancelled")
     /\ UNCHANGED relayVars
  \/ /\ out = "not_found"
     /\ rstatus[t] = "NotFound"
     /\ UNCHANGED relayVars
  \/ /\ out = "temporary_error"
     /\ UNCHANGED relayVars
=============================================================================
