----------------------------- MODULE Heartbeat -----------------------------
(***************************************************************************)
(* The goroutine that keeps heartbeat tasks in flight, against the engine  *)
(* that expands and finishes them, and against the clock.                  *)
(*                                                                         *)
(* One iteration checks the hour, counts what is in flight per slot with   *)
(* two queries each, picks configuration entries for a batch and creates   *)
(* the batch task by task.  A slot stands for a task type, a model and a   *)
(* quantization identity; entries may share one.  A query or a transaction *)
(* is one step, and the rest of the bridge moves between any two.          *)
(* Weighted sampling is a choice among the eligible entries.               *)
(***************************************************************************)
EXTENDS Naturals, Sequences, FiniteSets, FiniteSetsExt

CONSTANTS
  MaxTasks,        \* bound on the client tasks ever created
  MaxHour,         \* bound on the hours that pass
  MaxFaults,       \* bound on failed statements, lost acknowledgements and restarts
  Configs          \* the values of task.heartbeat_tasks to start with

Task == 1..MaxTasks

\* A configuration has a sequence of entries and the limits over all of them,
\* of which 0 is none.  validateHeartbeatTasksConfig: an entry that may be
\* sampled has a limit of its own.
ASSUME HeartbeatAssumption ==
  /\ MaxTasks \in Nat /\ MaxHour \in Nat /\ MaxFaults \in Nat
  /\ \A c \in Configs :
       /\ c.batchSize \in Nat \ {0} /\ c.maxPerHour \in Nat /\ c.maxTotalPending \in Nat
       /\ c.entries \in Seq([slot : STRING \ {"none"}, ratio : Nat, maxPending : Nat])
       /\ \A i \in DOMAIN c.entries : c.entries[i].ratio > 0 => c.entries[i].maxPending > 0

VARIABLES
  config,       \* appConfig.Task.HeartbeatTasks
  hour,         \* the hour of the wall clock
  slot,         \* slot[t]: the slot of client task t, or "none" before it exists
  createdAt,    \* createdAt[t]: the hour of its created_at
  primary,      \* primary[t]: "absent", "unexpanded", "running" or "finished"
  pc,           \* where the goroutine stands
  currentHour,  \* currentHour
  inHour,       \* tasksCreatedInHour
  batch,        \* batchSize of this iteration
  at,           \* the entry being counted
  rows,         \* result of the first query of CountPending
  pending,      \* pendingCounts, over the slots counted so far
  submissions,  \* the slots of the submissions of this iteration
  faults        \* faults so far

taskVars == <<slot, createdAt, primary>>
loopVars == <<pc, currentHour, inHour, batch, at, rows, pending, submissions>>
vars == <<config, hour, faults, taskVars, loopVars>>

Entries == config.entries
BatchSize == config.batchSize
MaxPerHour == config.maxPerHour
MaxTotalPending == config.maxTotalPending
Slots == {Entries[i].slot : i \in DOMAIN Entries}

Existing == {t \in Task : slot[t] # "none"}
InFlight(s) == {t \in Task : slot[t] = s /\ primary[t] \in {"unexpanded", "running"}}
Active == {i \in DOMAIN Entries : Entries[i].ratio > 0}
\* The sum of the numbers f[s], as the number of pairs <<s, k>> with k up to f[s].
SumOver(f) == Cardinality(UNION {{s} \X (1..f[s]) : s \in DOMAIN f})
Counted(s) == IF s \in DOMAIN pending THEN pending[s] ELSE 0
Picked(s) == Cardinality({i \in DOMAIN submissions : submissions[i] = s})

\* Everything in memory is gone: heartbeatCreateTasks starts again.
Idle(p) ==
  /\ pc' = p /\ batch' = 0 /\ at' = 1 /\ rows' = 0
  /\ pending' = << >> /\ submissions' = << >>

Init ==
  /\ config \in Configs
  /\ hour = 0 /\ faults = 0
  /\ slot = [t \in Task |-> "none"] /\ createdAt = [t \in Task |-> 0]
  /\ primary = [t \in Task |-> "absent"]
  /\ pc = "start" /\ currentHour = 0 /\ inHour = 0 /\ batch = 0
  /\ at = 1 /\ rows = 0 /\ pending = << >> /\ submissions = << >>

-----------------------------------------------------------------------------
\* The goroutine.

\* CountSubmittedSince
SubmittedSince(h) == Cardinality({t \in Existing : createdAt[t] \geq h})

\* heartbeatCreateTasks, up to its loop
StartLoop ==
  /\ pc = "start"
  /\ currentHour' = hour
  /\ inHour' = SubmittedSince(hour)
  /\ Idle("top")
  /\ UNCHANGED <<config, hour, faults, taskVars>>

\* Mutant: a new hour starts with nothing created.
HourChange_Reset ==
  IF hour > currentHour THEN currentHour' = hour /\ inHour' = 0
  ELSE UNCHANGED <<currentHour, inHour>>

\* An hour that has begun is counted from the database: the tasks of a batch
\* that was decided before may already lie in it.
HourChange ==
  IF hour > currentHour THEN currentHour' = hour /\ inHour' = SubmittedSince(hour)
  ELSE UNCHANGED <<currentHour, inHour>>

HourLimited(size) ==
  IF MaxPerHour > 0 /\ size > MaxPerHour - inHour' THEN MaxPerHour - inHour' ELSE size

\* The head of an iteration.  At the hourly limit it sleeps and starts over.
Begin ==
  /\ pc = "top"
  /\ HourChange
  /\ IF MaxPerHour > 0 /\ inHour' \geq MaxPerHour
       THEN UNCHANGED <<pc, batch>>
       ELSE pc' = "rows" /\ batch' = HourLimited(BatchSize)
  /\ at' = 1 /\ rows' = 0 /\ pending' = << >> /\ submissions' = << >>
  /\ UNCHANGED <<config, hour, faults, taskVars>>

\* Only the primary row carries the quantization key that the query asks for;
\* the members of a validation group are not counted, and not modelled here.
PendingRows(s) == Cardinality({t \in Task : slot[t] = s /\ primary[t] = "running"})

Unexpanded(s) == Cardinality({t \in Task : slot[t] = s /\ primary[t] = "unexpanded"})

\* The first query of CountPending, for the next slot that is not counted yet.
\* An entry with ratio 0, or whose slot is counted, is passed over.
CountRows ==
  /\ pc = "rows" /\ at \in DOMAIN Entries
  /\ IF at \in Active /\ Entries[at].slot \notin DOMAIN pending
       THEN pc' = "unexpanded" /\ rows' = PendingRows(Entries[at].slot) /\ UNCHANGED at
       ELSE at' = at + 1 /\ UNCHANGED <<pc, rows>>
  /\ UNCHANGED <<config, hour, faults, taskVars, currentHour, inHour, batch, pending, submissions>>

\* The second query of CountPending.
CountUnexpanded ==
  /\ pc = "unexpanded"
  /\ LET s == Entries[at].slot IN
       pending' = [u \in DOMAIN pending \cup {s} |->
                     IF u = s THEN rows + Unexpanded(s) ELSE pending[u]]
  /\ pc' = "rows" /\ at' = at + 1 /\ rows' = 0
  /\ UNCHANGED <<config, hour, faults, taskVars, currentHour, inHour, batch, submissions>>

\* Mutant: the batch is not shrunk to what is left of the total.
BatchSizeForTotalPending_Unshrunk(size) ==
  IF MaxTotalPending > 0 /\ SumOver(pending) \geq MaxTotalPending THEN 0 ELSE size

\* heartbeatBatchSizeForTotalPending; 0 stands for its "create nothing"
BatchSizeForTotalPending(size) ==
  IF MaxTotalPending = 0 THEN size
  ELSE IF SumOver(pending) \geq MaxTotalPending THEN 0
  ELSE Min({size, MaxTotalPending - SumOver(pending)})

CheckTotal ==
  /\ pc = "rows" /\ at \notin DOMAIN Entries
  /\ IF BatchSizeForTotalPending(batch) = 0
       THEN Idle("top")
       ELSE /\ pc' = "choose" /\ batch' = BatchSizeForTotalPending(batch)
            /\ UNCHANGED <<at, rows, pending, submissions>>
  /\ UNCHANGED <<config, hour, faults, taskVars, currentHour, inHour>>

\* selectHeartbeatTaskConfig: an entry at its limit is still sampled.
Eligible ==
  {i \in Active : Counted(Entries[i].slot) + Picked(Entries[i].slot) \leq Entries[i].maxPending}

\* Mutant: the loop over the batch runs once too often.
BatchFull_OffByOne == Len(submissions) > batch

BatchFull == Len(submissions) \geq batch

Choose ==
  /\ pc = "choose" /\ ~BatchFull
  /\ \E i \in Eligible : submissions' = Append(submissions, Entries[i].slot)
  /\ UNCHANGED <<config, hour, faults, taskVars, pc, currentHour, inHour, batch, at, rows, pending>>

Chosen ==
  /\ pc = "choose" /\ (BatchFull \/ Eligible = {})
  /\ IF submissions = << >> THEN Idle("top")
     ELSE pc' = "create" /\ UNCHANGED <<batch, at, rows, pending, submissions>>
  /\ UNCHANGED <<config, hour, faults, taskVars, currentHour, inHour>>

\* The transaction of Engine.CreateTask for the next submission.
InsertTask ==
  /\ Existing # Task
  /\ LET t == Min(Task \ Existing) IN
       /\ slot' = [slot EXCEPT ![t] = submissions[1]]
       /\ createdAt' = [createdAt EXCEPT ![t] = hour]
       /\ primary' = [primary EXCEPT ![t] = "unexpanded"]

\* The task is created and the loop knows it.
Create ==
  /\ pc = "create"
  /\ InsertTask
  /\ inHour' = inHour + 1
  /\ IF Len(submissions) = 1 THEN Idle("top")
     ELSE submissions' = Tail(submissions) /\ UNCHANGED <<pc, batch, at, rows, pending>>
  /\ UNCHANGED <<config, hour, faults, currentHour>>

-----------------------------------------------------------------------------
\* Faults.

Fault == faults < MaxFaults /\ faults' = faults + 1

\* A count, a sampled entry or its task cannot be had: the iteration is given up.
IterationFails ==
  /\ pc \in {"rows", "unexpanded", "choose"}
  /\ Fault
  /\ Idle("top")
  /\ UNCHANGED <<config, hour, taskVars, currentHour, inHour>>

\* The process restarts, or CreateTask or CountSubmittedSince reports an error.
Restart ==
  /\ Fault
  /\ Idle("start")
  /\ currentHour' = 0 /\ inHour' = 0
  /\ UNCHANGED <<config, hour, taskVars>>

\* CreateTask commits, but its answer is lost.
CreateUnknown ==
  /\ pc = "create" /\ Fault
  /\ InsertTask
  /\ Idle("start")
  /\ currentHour' = 0 /\ inHour' = 0
  /\ UNCHANGED <<config, hour>>

-----------------------------------------------------------------------------
\* The rest of the bridge.

Tick ==
  /\ hour < MaxHour
  /\ hour' = hour + 1
  /\ UNCHANGED <<config, faults, taskVars, loopVars>>

\* expandClientTask: the row replaces the submission in one transaction.
Expand(t) ==
  /\ primary[t] = "unexpanded"
  /\ primary' = [primary EXCEPT ![t] = "running"]
  /\ UNCHANGED <<config, hour, faults, slot, createdAt, loopVars>>

\* A row reaches a status of which nothing follows.
RowEnds(t) ==
  /\ primary[t] = "running"
  /\ primary' = [primary EXCEPT ![t] = "finished"]
  /\ UNCHANGED <<config, hour, faults, slot, createdAt, loopVars>>

Next ==
  \/ StartLoop \/ Begin \/ CountRows \/ CountUnexpanded \/ CheckTotal
  \/ Choose \/ Chosen \/ Create
  \/ IterationFails \/ Restart \/ CreateUnknown \/ Tick
  \/ \E t \in Task : Expand(t) \/ RowEnds(t)

Spec == Init /\ [][Next]_vars

-----------------------------------------------------------------------------
\* Properties.

\* The counters of the loop stay within their types, and what a batch holds
\* is never more than heartbeat_task.go allowed it: the batch fits the hour
\* and the total even while the hour turns over.
HBTypeOK ==
  /\ config \in Configs /\ hour \in 0..MaxHour /\ faults \in 0..MaxFaults
  /\ slot \in [Task -> Slots \cup {"none"}]
  /\ createdAt \in [Task -> 0..hour]
  /\ primary \in [Task -> {"absent", "unexpanded", "running", "finished"}]
  /\ pc \in {"start", "top", "rows", "unexpanded", "choose", "create"}
  /\ currentHour \in 0..hour
  /\ inHour \in 0..MaxTasks
  /\ batch \in 0..BatchSize /\ Len(submissions) \leq batch
  /\ at \in 1..(Len(Entries) + 1) /\ rows \in 0..MaxTasks
  /\ DOMAIN pending \subseteq Slots

\* No hour sees more heartbeat tasks created than max_tasks_per_hour: not
\* when the hour turns over between the check and the creation, not when an
\* acknowledgement is lost, and not after a restart, which forgets the counter.
HourlyLimit ==
  MaxPerHour > 0 =>
    \A h \in 0..hour : Cardinality({t \in Existing : createdAt[t] = h}) \leq MaxPerHour

\* The tasks in flight never exceed twice max_total_pending_tasks.  The limit
\* itself can be exceeded: a task that is expanded between the two queries of
\* CountPending is in neither.  It is counted from then on, so that one
\* iteration at most takes it for room.
InFlightIsBounded ==
  MaxTotalPending > 0 =>
    Cardinality(UNION {InFlight(s) : s \in Slots}) \leq 2 * MaxTotalPending

\* As docs/heartbeat_tasks.md says it: what is in flight and what is created stay
\* within max_total_pending_tasks.
TotalIsKept ==
  MaxTotalPending > 0 =>
    Cardinality(UNION {InFlight(s) : s \in Slots}) \leq MaxTotalPending
=============================================================================
