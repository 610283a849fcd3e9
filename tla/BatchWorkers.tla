---------------------------- MODULE BatchWorkers ----------------------------
(***************************************************************************)
(* Reconciliation with workers that serve several rows.  A worker stores    *)
(* the answers of its batch row by row.  When one of these writes cannot be *)
(* made, it marks the operations of the whole batch failed: also of the    *)
(* rows it is done with, which may have the next operation by then.  What a *)
(* write asks for is a running operation, whichever it is.  The worker      *)
(* whose operation is ended so finds nothing to write; only its request can *)
(* still matter.                                                            *)
(***************************************************************************)
EXTENDS Reconciliation

VARIABLE batch \* batch[t]: the operation of a worker that has stored t's answer
               \* and not yet those of its other rows, or "none"

BInit == HInit /\ batch = [t \in Task |-> "none"]

\* writeOperationCompleted for t, with more rows to come.
AnswerInBatch(t) ==
  /\ Answer(t) /\ op[t] # "result"
  /\ batch' = [batch EXCEPT ![t] = op[t]]

\* The worker comes to the end of its batch.
BatchEnds(t) ==
  /\ batch[t] # "none"
  /\ batch' = [batch EXCEPT ![t] = "none"]
  /\ UNCHANGED vars

\* writeBatchFailure, after the write for another row of the batch has failed.
BatchFails(t) ==
  /\ faults < MaxFaults
  /\ batch[t] # "none" /\ opStatus[t] = "running"
  /\ batch' = [batch EXCEPT ![t] = "none"]
  /\ opStatus' = [opStatus EXCEPT ![t] = "failed"]
  /\ opUnknown' = [opUnknown EXCEPT ![t] = LeavesUnknown(batch[t])]
  /\ worker' = [worker EXCEPT ![t] = "idle"]
  /\ late' = late \cup InFlight({t})
  /\ faults' = faults + 1
  /\ UNCHANGED <<op, opResult, status, siblingCancel, rowVars, clientVars, mode, recheck, relayVars>>

BNext ==
  /\ \/ Next /\ batch' = IF mode' = "down" THEN [t \in Task |-> "none"] ELSE batch
     \/ \E t \in Task : AnswerInBatch(t) \/ BatchEnds(t) \/ BatchFails(t)
  /\ Remember

BSpec == BInit /\ [][BNext]_<<vars, historyVars, batch>>
=============================================================================
