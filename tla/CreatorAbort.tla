---------------------------- MODULE CreatorAbort ----------------------------
(***************************************************************************)
(* A client task from its creation on: the main loop expands it into its   *)
(* primary rows, and its creator may abort it at any time.  Expansion,     *)
(* dispatch and abort each read first and write in a transaction of their  *)
(* own later; the abort runs in another goroutine, and one that found rows *)
(* asks Relay in between, twice, while the engine goes on with the rows.   *)
(* So the one step Dispatch of TaskEngine is two here.                     *)
(***************************************************************************)
EXTENDS TaskEngine

VARIABLES
  creatorCancelled, \* ClientTask.creator_cancelled
  repeatExpanded,   \* ClientTask.repeat_expanded
  expanding,        \* the main loop holds the client task as due for expansion
  abort,            \* the abort request in progress
  decided           \* decided[t]: what the main loop decided for row t and has not marked yet

abortVars == <<creatorCancelled, repeatExpanded, expanding, abort, decided>>
caVars == <<vars, abortVars>>

\* The step an abort request takes next (unexpanded, preflight, cancel, commit),
\* the rows it read, and how far its request to cancel them has come.
NoAbort == [step |-> "idle", rows |-> {}, todo |-> {}, cancelled |-> {}]

NoDecision == [op |-> "none", worker |-> "idle"]
NoneDecided == [t \in Task |-> NoDecision]

\* Before expansion no row exists.
AInit ==
  /\ RelayInit
  /\ status = [t \in Task |-> "absent"]
  /\ abortReason = [t \in Task |-> "None"]
  /\ relayChecked = [t \in Task |-> FALSE]
  /\ relayFound = [t \in Task |-> FALSE]
  /\ opUnknown = [t \in Task |-> FALSE]
  /\ validationSubmitted = [t \in Task |-> FALSE]
  /\ siblingCancel = [t \in Task |-> FALSE]
  /\ seedSaved = [t \in Task |-> FALSE]
  /\ modelFiles = [t \in Task |-> NoFiles]
  /\ op = [t \in Task |-> "none"]
  /\ opStatus = [t \in Task |-> "none"]
  /\ opResult = [t \in Task |-> NoResult]
  /\ clientStatus = "running"
  /\ failedCount = 0
  /\ mode = "up"
  /\ recheck = {}
  /\ worker = [t \in Task |-> "idle"]
  /\ late = {}
  /\ faults = 0
  /\ creatorCancelled = FALSE
  /\ repeatExpanded = FALSE
  /\ expanding = FALSE
  /\ abort = NoAbort
  /\ decided = NoneDecided

-----------------------------------------------------------------------------
\* Expansion, in the main loop.

\* expandDueClientTasks selects the running client tasks not yet expanded.
ExpandLoad ==
  /\ mode = "up" /\ ~expanding
  /\ clientStatus = "running" /\ ~repeatExpanded
  /\ expanding' = TRUE
  /\ UNCHANGED <<vars, creatorCancelled, repeatExpanded, abort, decided>>

\* expandClientTask: one transaction, which looks at repeat_expanded again.
ExpandCommit ==
  /\ mode = "up" /\ expanding
  /\ ~repeatExpanded
  /\ expanding' = FALSE
  /\ repeatExpanded' = TRUE
  /\ status' = SetAll(status, Primary, "Pending")
  /\ UNCHANGED <<siblingCancel, opUnknown, rowVars, opVars, clientVars, envVars, relayVars,
                 creatorCancelled, abort, decided>>

-----------------------------------------------------------------------------
\* Dispatch, in the main loop, in two steps: between them an abort may commit.

\* loadDueTasks reads a row and decideOperation decides on what was read.
DecideRow(t) ==
  /\ mode = "up"
  /\ LoadedAsDue(t) /\ decided[t] = NoDecision
  /\ DecideOperation(t) # "none"
  /\ decided' = [decided EXCEPT ![t] = [op |-> DecideOperation(t), worker |-> WorkerFor(t)]]
  /\ UNCHANGED <<vars, creatorCancelled, repeatExpanded, expanding, abort>>

\* dispatchDecisions: the operation is started as it was decided, on the row as it is now.
MarkDecided(t) ==
  /\ mode = "up" /\ decided[t] # NoDecision
  /\ MarkRunning(t, decided[t].op, decided[t].worker)
  /\ decided' = [decided EXCEPT ![t] = NoDecision]
  /\ UNCHANGED <<creatorCancelled, repeatExpanded, expanding, abort>>

\* The pools are full or a query failed: what is left is decided anew later.
DispatchEnds ==
  /\ mode = "up" /\ decided # NoneDecided
  /\ decided' = NoneDecided
  /\ UNCHANGED <<vars, creatorCancelled, repeatExpanded, expanding, abort>>

-----------------------------------------------------------------------------
\* AbortClientTask, in the goroutine of an HTTP request.
\* The HTTP server does not wait for recovery.

Unfinished == {t \in Existing(status) : ~Finished(status[t])}

\* memberLocallyBlocksCreatorAbort
BlocksCreatorAbort(t) ==
  \/ status[t] = "ResultDownloaded"
  \/ ~Finished(status[t]) /\ status[t] \notin {"Pending", "Created"}

\* loadAbortTarget and the local checks.  Every row has a commitment from its
\* creation on, so all unfinished rows are to be cancelled at Relay.
AbortLoad ==
  /\ mode # "down" /\ abort = NoAbort
  /\ ~(clientStatus = "failed" /\ creatorCancelled)
  /\ clientStatus # "success"
  /\ \A t \in Existing(status) : ~BlocksCreatorAbort(t)
  /\ abort' = [step |-> IF ~repeatExpanded THEN "unexpanded"
                        ELSE IF Unfinished = {} THEN "commit" ELSE "preflight",
               rows |-> Unfinished, todo |-> Unfinished, cancelled |-> {}]
  /\ UNCHANGED <<vars, creatorCancelled, repeatExpanded, expanding, decided>>

\* markUnexpandedClientTaskCancelled
AbortUnexpanded ==
  /\ mode # "down" /\ abort.step = "unexpanded"
  /\ abort' = NoAbort
  /\ IF clientStatus = "running" /\ ~repeatExpanded
     THEN clientStatus' = "failed" /\ creatorCancelled' = TRUE /\ failedCount' = 0
     ELSE UNCHANGED <<clientVars, creatorCancelled>>
  /\ UNCHANGED <<status, siblingCancel, opUnknown, rowVars, opVars, envVars, relayVars,
                 repeatExpanded, expanding, decided>>

\* batchGetTaskStatus and validateAbortPreflight
StillCancellable(t) ==
  \/ rstatus[t] = "Queued"
  \/ rstatus[t] = "EndAborted" /\ rreason[t] = "CreatorCancelled"

AbortPreflight ==
  /\ mode # "down" /\ abort.step = "preflight"
  /\ abort' = IF \A t \in abort.rows : StillCancellable(t)
              THEN [abort EXCEPT !.step = "cancel"] ELSE NoAbort
  /\ UNCHANGED <<vars, creatorCancelled, repeatExpanded, expanding, decided>>

\* Mutant: whatever ends the cancellation counts as cancelled.
Cancelled_Ended(out) == out # "temporary_error"

\* classifyAbortResults
Cancelled(out) == out \in {"cancelled", "already_cancelled"}

\* batchAbortTasks: Relay takes the items of the request one by one.
AbortCancelOne(t) ==
  /\ mode # "down" /\ abort.step = "cancel" /\ t \in abort.todo
  /\ \E out \in Outcome :
       /\ RelayCancel(t, out)
       /\ IF out = "temporary_error"
          THEN "cancel" \in TemporaryOps /\ faults < MaxFaults /\ faults' = faults + 1
          ELSE UNCHANGED faults
       /\ abort' = [abort EXCEPT
            !.todo = @ \ {t},
            !.step = IF abort.todo = {t} THEN "commit" ELSE "cancel",
            !.cancelled = IF Cancelled(out) THEN @ \cup {t} ELSE @]
  /\ UNCHANGED <<status, siblingCancel, opUnknown, rowVars, opVars, clientVars,
                 mode, recheck, worker, late, creatorCancelled, repeatExpanded, expanding, decided>>

\* The answer of a request to Relay is lost, or the handler's context ends; a
\* cancellation may take effect all the same.
AbortLost ==
  /\ mode # "down" /\ abort.step \in {"preflight", "cancel"} /\ faults < MaxFaults
  /\ faults' = faults + 1
  /\ abort' = NoAbort
  /\ \E lost \in SUBSET (IF abort.step = "cancel" THEN abort.todo ELSE {}) :
       late' = late \cup {[task |-> t, op |-> "cancel", unit |-> Members(t)] : t \in lost}
  /\ UNCHANGED <<status, siblingCancel, opUnknown, rowVars, opVars, clientVars,
                 mode, recheck, worker, relayVars, creatorCancelled, repeatExpanded, expanding, decided>>

\* The checks of applyCreatorAbortLocalState on what it reads in its transaction.
StillAbortable ==
  clientStatus # "success" /\ \A t \in Task : status[t] # "ResultDownloaded"

AllStopped(st) ==
  /\ Existing(st) # {}
  /\ \A t \in Existing(st) : Finished(st[t]) /\ st[t] # "ResultDownloaded"

\* The rows whose operation columns are cleared.
OperationsDropped == abort.cancelled

\* applyCreatorAbortLocalState: the cancelled rows are aborted here and their
\* operations dropped; a worker that still runs finds its row not running and
\* writes nothing, so only its request can still matter.
AbortCommit ==
  LET st == SetAll(status, abort.cancelled, "EndAborted")
      dropped == {t \in OperationsDropped : worker[t] # "idle"}
  IN
  /\ mode # "down" /\ abort.step = "commit"
  /\ abort' = NoAbort
  /\ IF ~StillAbortable
     THEN UNCHANGED <<vars, creatorCancelled>>
     ELSE /\ status' = st
          /\ abortReason' = SetAll(abortReason, abort.cancelled, "CreatorCancelled")
          /\ siblingCancel' = SetAll(siblingCancel, abort.cancelled, FALSE)
          /\ op' = SetAll(op, OperationsDropped, "none")
          /\ opStatus' = SetAll(opStatus, OperationsDropped, "none")
          /\ opResult' = SetAll(opResult, OperationsDropped, NoResult)
          /\ worker' = SetAll(worker, dropped, "idle")
          /\ late' = late \cup InFlight(dropped)
          /\ IF abort.cancelled = abort.rows /\ AllStopped(st)
             THEN clientStatus' = "failed" /\ creatorCancelled' = TRUE /\ UNCHANGED failedCount
             ELSE RecalculateClientTask(st) /\ UNCHANGED creatorCancelled
          /\ UNCHANGED <<relayChecked, relayFound, opUnknown, validationSubmitted, seedSaved,
                         modelFiles, mode, recheck, faults, relayVars>>
  /\ UNCHANGED <<repeatExpanded, expanding, decided>>

-----------------------------------------------------------------------------
\* The main loop applies results when it has no decision to dispatch.  A crash
\* ends the request, the expansion and the dispatch that were in progress.
EngineStep ==
  /\ Beside \/ (decided = NoneDecided /\ \E t \in Task : Apply(t))
  /\ IF mode' = "down"
     THEN expanding' = FALSE /\ abort' = NoAbort /\ decided' = NoneDecided
     ELSE UNCHANGED <<expanding, abort, decided>>
  /\ UNCHANGED <<creatorCancelled, repeatExpanded>>

ANext ==
  \/ EngineStep
  \/ ExpandLoad \/ ExpandCommit
  \/ AbortLoad \/ AbortUnexpanded \/ AbortPreflight \/ AbortLost \/ AbortCommit
  \/ DispatchEnds
  \/ \E t \in Task : DecideRow(t) \/ MarkDecided(t) \/ AbortCancelOne(t)

ASpec == AInit /\ [][ANext]_caVars

\* The main loop, as in TaskEngine.  A decision may be dropped when its pool is full,
\* and results wait until the dispatch is over: neither goes on for ever.
LoopStep(t) ==
  DecideRow(t) \/ MarkDecided(t) \/ (EngineStep /\ (Answer(t) \/ WorkerFails(t) \/ Apply(t)))

AFairness ==
  /\ \A t \in Task : /\ SF_caVars(LoopStep(t)) /\ SF_caVars(MarkDecided(t))
                     /\ WF_caVars(EngineStep /\ RelayMoves(t))
  /\ WF_caVars(EngineStep /\ Recover)

AFairSpec == ASpec /\ AFairness

-----------------------------------------------------------------------------
\* An abort that succeeded is the end: the client task is failed, and no row
\* of it is left that could still produce a result.
AbortIsFinal ==
  creatorCancelled =>
    /\ clientStatus = "failed"
    /\ \A t \in Existing(status) : Finished(status[t]) /\ status[t] # "ResultDownloaded"

\* As docs/task_lifecycle.md says it: once an abort has stopped every row there was,
\* the rows remain so; no late answer, repeated request or recovery brings one back.
CancelledStaysStopped ==
  [][creatorCancelled /\ AllStopped(status) => AllStopped(status')]_caVars

\* And then Relay has no task of it that waits or runs.
NothingRunsAfterAbort ==
  creatorCancelled /\ AllStopped(status) =>
    \A t \in Existing(status) : rstatus[t] \in ChainTaskTerminal \cup {"NotFound"}

\* In the end nothing of it is left running here either: a row that an operation
\* decided before the abort brings back is only stopped again, and delivers nothing.
AbortSettles ==
  creatorCancelled /\ AllStopped(status) ~> []AllStopped(status)
=============================================================================
