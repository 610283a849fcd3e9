--------------------------- MODULE Reconciliation ---------------------------
(***************************************************************************)
(* TaskEngine with a history of its unknown outcomes: which rows had the    *)
(* answer to their own mutation lost and were not read again since, and    *)
(* for which of these a status query failed in between.  The history       *)
(* changes nothing of the engine; it remembers what the column             *)
(* operation_unknown stands for.                                           *)
(***************************************************************************)
EXTENDS TaskEngine

VARIABLES
  unresolved, \* unresolved[t]: a mutation of t was lost, and no status answer applied since
  forgotten   \* forgotten[t]: a status query of t failed since the last loss

historyVars == <<unresolved, forgotten>>

\* The step loses the answer of t's mutation: a failed worker, a restart.
Loses(t) ==
  /\ op[t] \in MutationOp /\ opStatus[t] = "running"
  /\ opStatus'[t] \in {"failed", "none"}

\* The step starts operation o on t.
Starts(t, o) == opStatus[t] = "none" /\ opStatus'[t] = "running" /\ op'[t] = o

\* The step applies t's status answer.  A row has one operation: the query was
\* begun after the loss.
AppliesStatus(t) ==
  op[t] = "sync_status" /\ opStatus[t] = "completed" /\ opStatus'[t] = "none"

\* The step fails t's status query.
FailsQuery(t) ==
  op[t] = "sync_status" /\ opStatus[t] = "running" /\ opStatus'[t] = "failed"

Remember ==
  /\ unresolved' = [t \in Task |-> Loses(t) \/ (unresolved[t] /\ ~AppliesStatus(t))]
  /\ forgotten' = [t \in Task |-> ~Loses(t) /\ (forgotten[t] \/ FailsQuery(t))]

HInit == Init /\ unresolved = [t \in Task |-> FALSE] /\ forgotten = [t \in Task |-> FALSE]
HNext == Next /\ Remember
HSpec == HInit /\ [][HNext]_<<vars, historyVars>>

-----------------------------------------------------------------------------
\* After a lost answer a mutation is only repeated when the row was reconciled
\* with Relay, or when the query that was to do it has failed: no crash, failed
\* recovery, lost task, abort or late request makes the bridge forget a loss.
RetryIsReconciled ==
  [][\A t \in Task, o \in MutationOp :
       Starts(t, o) => ~unresolved[t] \/ forgotten[t]]_<<vars, historyVars>>

\* As docs/task_engine.md says it: a mutation is only repeated after batch status
\* has reconciled it, whatever failed meanwhile.
ReconcileBeforeRetry ==
  [][\A t \in Task, o \in MutationOp :
       Starts(t, o) => ~unresolved[t]]_<<vars, historyVars>>
=============================================================================
