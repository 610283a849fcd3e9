--------------------------- MODULE InferenceTask ---------------------------
(***************************************************************************)
(* The vocabulary of one row of the table inference_tasks: the local       *)
(* lifecycle statuses, the status that Crynux Relay reports and how it maps *)
(* to the local one, the I/O operation columns, and the predicates of the  *)
(* task engine that depend on one row only.                                *)
(***************************************************************************)
EXTENDS Naturals, FiniteSets

\* models.TaskStatus.  "absent" stands for a row that does not exist (yet).
TaskStatus == {"Pending", "Created", "Started", "ParamsUploaded", "ScoreReady",
               "ErrorReported", "Validated", "EndAborted", "EndGroupRefund",
               "EndInvalidated", "EndSuccess", "ResultDownloaded"}

\* models.ChainTaskStatus, as Relay reports it.  "NotFound" is the absence of
\* the commitment at Relay (BatchStatusItem.Found = false).
ChainStatus == {"NotFound", "Queued", "Started", "ParametersUploaded",
                "ScoreReady", "ErrorReported", "Validated", "GroupValidated",
                "EndAborted", "EndInvalidated", "EndGroupRefund",
                "EndSuccess", "EndGroupSuccess"}

\* models.TaskAbortReason, as far as the engine tells the values apart.
AbortReason == {"None", "CreatorCancelled", "CreatorValidationTimeout", "Other"}

OperationType   == {"none", "create", "sync_status", "validate", "cancel", "result"}
OperationStatus == {"none", "running", "completed", "failed"}

\* Operations whose request changes the state of Relay.
MutationOp == {"create", "validate", "cancel"}

\* relay.BatchOutcome, the outcome of one item of a batch mutation.
Outcome == {"none", "created", "already_exists", "validated", "already_applied",
            "cancelled", "already_cancelled", "not_cancellable", "not_found",
            "permanent_error", "temporary_error", "downloaded"}

\* InferenceTask.Finished: the engine takes no further step for its own sake.
FinishedStatus == {"EndAborted", "EndGroupRefund", "EndInvalidated", "ResultDownloaded"}
Finished(s) == s \in FinishedStatus

\* terminalStatuses(): finished, or successful at Relay and only to be downloaded.
TerminalStatus == FinishedStatus \cup {"EndSuccess"}

\* isReadyForValidation
IsReadyForValidation(s) == s \in {"ScoreReady", "ErrorReported"}

ChainTaskTerminal == {"EndAborted", "EndInvalidated", "EndGroupRefund",
                      "EndSuccess", "EndGroupSuccess"}

\* isChainTaskTerminal
IsChainTaskTerminal(c) == c \in ChainTaskTerminal

\* Mutants of the mapping: a plain cast of the status; the validated task is
\* taken for a successful one.
RelayStatusToLocal_Cast(c) == c
RelayStatusToLocal_Early(c) == IF c \in ChainTaskTerminal \cup {"Validated", "GroupValidated"}
                               THEN "EndSuccess" ELSE "Created"

\* relayStatusToLocal; an unexpected status falls back to Created.
RelayStatusToLocal(c) ==
  CASE c = "Started"            -> "Started"
    [] c = "ParametersUploaded" -> "ParamsUploaded"
    [] c = "ScoreReady"         -> "ScoreReady"
    [] c = "ErrorReported"      -> "ErrorReported"
    [] c \in {"Validated", "GroupValidated"} -> "Validated"
    [] c = "EndAborted"         -> "EndAborted"
    [] c = "EndInvalidated"     -> "EndInvalidated"
    [] c = "EndGroupRefund"     -> "EndGroupRefund"
    [] c \in {"EndSuccess", "EndGroupSuccess"} -> "EndSuccess"
    [] OTHER                    -> "Created"
=============================================================================
