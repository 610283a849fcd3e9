----------------------------- MODULE TraceStore -----------------------------
(***************************************************************************)
(* The task trace store of the admin API: an in-memory list of the newest  *)
(* MaxTraces traces and four indexes over the rows they list, all under    *)
(* one mutex.  Every operator is one locked call: it takes the store and   *)
(* returns the new one.                                                    *)
(*                                                                         *)
(* Each client task starts at most one trace, so the client task stands    *)
(* for the trace key.  A row is its client task and its role; its own      *)
(* value stands for its commitment and its local id.                       *)
(***************************************************************************)
EXTENDS Naturals, Sequences, FiniteSets, Functions

CONSTANTS
  ClientTask,  \* client tasks
  MaxTraces    \* admin.task_trace_max_tasks

ASSUME TraceAssumption == MaxTraces \in Nat

Row == ClientTask \X {"primary", "member", "retry"}
Client(t) == t[1]
\* The task_id: members share their primary's, a retry has one of its own.
Group(t) == IF t[2] = "retry" THEN t ELSE <<t[1], "primary">>

Index == {"commitment", "taskID", "local", "client"}
\* What row t is filed under.
Filed(t) == [commitment |-> t, taskID |-> Group(t), local |-> t, client |-> Client(t)]
FiledOf(T, i) == {Filed(t)[i] : t \in T}

EmptyStore == [order |-> <<>>, tasks |-> <<>>, named |-> {}, finished |-> {},
               index |-> [i \in Index |-> <<>>]]

\* index[x] = k for all x in X
Point(index, X, k) ==
  [x \in DOMAIN index \cup X |-> IF x \in X THEN k ELSE index[x]]
Forget(index, X) == Restrict(index, DOMAIN index \ X)

\* addTasks
AddTasks(s, k, T) ==
  [s EXCEPT !.tasks[k] = @ \cup T,
            !.index = [i \in Index |-> Point(@[i], FiledOf(T, i), k)]]

\* Mutant: the client index is only cleaned of the trace's own client task.
EvictedEntries_OwnClient(s, k, i) ==
  IF i = "client" THEN s.named \cap {k} ELSE FiledOf(s.tasks[k], i)

\* The entries that eviction of trace k takes out of index i.
EvictedEntries(s, k, i) ==
  FiledOf(s.tasks[k], i) \cup (IF i = "client" THEN s.named \cap {k} ELSE {})

\* evictLocked.  A start adds one trace, so its loop runs at most once.
Evict(s) ==
  IF Len(s.order) \leq MaxTraces THEN s
  ELSE LET k == Head(s.order) IN
       [order |-> Tail(s.order), tasks |-> Forget(s.tasks, {k}),
        named |-> s.named \ {k}, finished |-> s.finished \ {k},
        index |-> [i \in Index |-> Forget(s.index[i], EvictedEntries(s, k, i))]]

\* Trace k, without rows yet; named is {k} if the input names the client task.
NewTrace(s, k, named) ==
  [s EXCEPT !.order = Append(@, k), !.tasks = Point(@, {k}, {}),
            !.named = @ \cup named, !.index.client = Point(@, named, k)]

\* Mutant: nothing is evicted when a trace starts with its rows.
StartTrace_KeepAll(s, k, named, T) ==
  LET new == AddTasks(NewTrace(s, k, named), k, T) IN IF T # {} THEN new ELSE Evict(new)

\* startTrace with the rows known so far.
StartTrace(s, k, named, T) ==
  IF MaxTraces = 0 \/ (T = {} /\ named = {}) THEN s
  ELSE IF k \in DOMAIN s.tasks THEN AddTasks(s, k, T)
  ELSE Evict(AddTasks(NewTrace(s, k, named), k, T))

\* finishTrace: an evicted trace stays away.
FinishTrace(s, k) ==
  IF k \in DOMAIN s.tasks THEN [s EXCEPT !.finished = @ \cup {k}] ELSE s

\* registerClientTasks
RegisterClientTasks(s, c, T) ==
  IF c \in DOMAIN s.index.client /\ s.index.client[c] \in DOMAIN s.tasks
  THEN AddTasks(s, s.index.client[c], T) ELSE s

\* primaryForTaskLocked: the first index that knows the row, as a set.
PrimaryForTask(s, t) ==
  LET known == {i \in Index : Filed(t)[i] \in DOMAIN s.index[i]}
      first == IF "commitment" \in known THEN {"commitment"}
               ELSE IF "taskID" \in known THEN {"taskID"}
               ELSE IF "local" \in known THEN {"local"} ELSE known
  IN {s.index[i][Filed(t)[i]] : i \in first}

\* registerRelatedTasks, for the rows T related to row t.  The code uses the
\* trace it was led to without looking whether it still exists.
RegisterTasks(s, t, T) ==
  IF PrimaryForTask(s, t) = {} THEN s
  ELSE AddTasks(s, CHOOSE k \in PrimaryForTask(s, t) : TRUE, T)

\* recordEvent: files the row, then appends the event.
RecordEvent(s, t) == RegisterTasks(s, t, {t})

\* listTraces: the newest first.
ListTraces(s, limit) ==
  [i \in 1..(IF Len(s.order) < limit THEN Len(s.order) ELSE limit) |->
     s.order[Len(s.order) + 1 - i]]

\* getTrace by task id: the rows of the trace, or nothing.
GetTrace(s, id) ==
  IF id \in DOMAIN s.index.taskID /\ s.index.taskID[id] \in DOMAIN s.tasks
  THEN s.tasks[s.index.taskID[id]] ELSE {}
=============================================================================
