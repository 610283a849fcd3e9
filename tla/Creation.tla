------------------------------ MODULE Creation ------------------------------
(***************************************************************************)
(* The creation of client tasks through the API: an API key with its use   *)
(* limit, the in-memory rate limiter, the requests that create tasks one   *)
(* by one or in a batch, the expansion of what they committed, and the     *)
(* trace store that all of them write to.                                  *)
(*                                                                         *)
(* A request authorizes on a copy of the key's row, asks the rate limiter, *)
(* and then commits each item in a transaction of its own; between any two *)
(* of these steps other requests, the key's administration, the engine and *)
(* a crash may come.  The key is the only one of its client, as every call *)
(* of CreateAPIKey makes a new client id.  Traces, limiter and requests    *)
(* live in memory; key, client tasks and rows survive a crash.             *)
(***************************************************************************)
EXTENDS TraceStore, Integers

CONSTANTS
  Request,       \* concurrent HTTP requests
  Kind,          \* Kind[c]: which API creates client task c
  MaxItems,      \* bound on the items of a batch (100 in the code)
  UseLimits,     \* use limits an administrator may set; negative: unlimited
  DefaultLimit,  \* the use limit of a new key (20 in the code)
  RateLimits,    \* rate limits an administrator may set
  DefaultRate,   \* the rate limit of a new key (1 in the code)
  Period,        \* clock ticks in the limiter's period of one minute
  MaxDebt,       \* bound on refused calls the limiter has reserved for
  Growing,       \* bound: the client tasks that get a second row
  MaxChanges,    \* bound on changes of the key
  MaxFaults      \* bound on crashes and lost commit answers

ASSUME CreationAssumption ==
  /\ Kind \in [ClientTask -> {"engine", "sdft", "finetune"}]
  /\ UseLimits \subseteq Int \ {0} /\ DefaultLimit \in Int
  /\ RateLimits \subseteq Nat \ {0} /\ DefaultRate \in Nat \ {0}
  /\ Growing \subseteq ClientTask
  /\ {MaxItems, Period} \subseteq Nat \ {0}
  /\ {MaxDebt, MaxChanges, MaxFaults} \subseteq Nat

VARIABLES
  key,      \* the client_api_keys row
  limiter,  \* the key's rate.Limiter, or NoLimiter
  changing, \* rate limits stored in the row but not yet in the limiter
  request,  \* request[r]: an HTTP request in progress
  task,     \* task[c]: "none", "unexpanded" or "expanded"
  counted,  \* client tasks committed against the key's quota
  rows,     \* inference_tasks rows
  untold,   \* untold[c]: what a worker still has to tell the trace store
  store,    \* the trace store
  changes, faults  \* counters for the bounds

keyVars   == <<key, counted, changes>>
limitVars == <<limiter, changing>>
taskVars  == <<task, rows>>
vars == <<keyVars, limitVars, request, taskVars, untold, store, faults>>

NoKey     == [live |-> FALSE, used |-> 0, limit |-> 0, rate |-> 0]
NoLimiter == [rate |-> 0, burst |-> 0, tokens |-> 0]
Idle      == [step |-> "idle", rate |-> 0, left |-> 0, task |-> {}]

CreationTypeOK ==
  /\ key \in [live : BOOLEAN, used : Nat, limit : Int, rate : Nat]
  /\ limiter \in [rate : Nat, burst : Nat, tokens : Int]
  /\ changing \subseteq RateLimits
  /\ request \in [Request -> [step : {"idle", "authorized", "create", "trace", "finish"},
                              rate : Nat, left : 0..MaxItems, task : SUBSET ClientTask]]
  /\ \A r \in Request : request[r].step = "idle" <=> request[r].left = 0
  /\ task \in [ClientTask -> {"none", "unexpanded", "expanded"}]
  /\ counted \subseteq ClientTask
  /\ rows \subseteq Row
  /\ untold \in [ClientTask -> {"nothing", "rows", "event"}]

Init ==
  /\ key = NoKey /\ counted = {} /\ changes = 0
  /\ limiter = NoLimiter /\ changing = {}
  /\ request = [r \in Request |-> Idle]
  /\ task = [c \in ClientTask |-> "none"]
  /\ rows = {}
  /\ untold = [c \in ClientTask |-> "nothing"]
  /\ store = EmptyStore
  /\ faults = 0

-----------------------------------------------------------------------------
\* Administration of the key.

\* CreateAPIKey and GenerateAPIKey, for a client id made just now.
CreateAPIKey ==
  /\ key = NoKey
  /\ key' = [live |-> TRUE, used |-> 0, limit |-> DefaultLimit, rate |-> DefaultRate]
  /\ UNCHANGED <<counted, changes, limitVars, request, taskVars, untold, store, faults>>

\* ChangeUseLimit writes the one column of the live row.
ChangeUseLimit(l) ==
  /\ key.live /\ l # key.limit /\ changes < MaxChanges
  /\ key' = [key EXCEPT !.limit = l]
  /\ changes' = changes + 1
  /\ UNCHANGED <<counted, limitVars, request, taskVars, untold, store, faults>>

\* ChangeRateLimit: first the row, one change at a time ...
ChangeRateLimit(n) ==
  /\ key.live /\ n # key.rate /\ changes < MaxChanges /\ changing = {}
  /\ key' = [key EXCEPT !.rate = n]
  /\ changing' = {n}
  /\ changes' = changes + 1
  /\ UNCHANGED <<counted, limiter, request, taskVars, untold, store, faults>>

\* Mutant: a limiter that does not exist yet needs no update.
NewLimit_Existing(n) ==
  IF limiter = NoLimiter THEN NoLimiter ELSE [limiter EXCEPT !.rate = n]

NewLimiter(n) == [rate |-> n, burst |-> n * Period, tokens |-> n * Period]

\* UpdateRateLimit: SetLimit changes the rate and keeps the burst.
NewLimit(n) ==
  IF limiter = NoLimiter THEN NewLimiter(n) ELSE [limiter EXCEPT !.rate = n]

\* ... then the limiter in memory.
UpdateRateLimit(n) ==
  /\ n \in changing
  /\ limiter' = NewLimit(n)
  /\ changing' = changing \ {n}
  /\ UNCHANGED <<keyVars, request, taskVars, untold, store, faults>>

\* DeleteAPIKey: a soft delete, which every later query of the row respects.
DeleteAPIKey ==
  /\ key.live /\ changes < MaxChanges
  /\ key' = [key EXCEPT !.live = FALSE]
  /\ changes' = changes + 1
  /\ UNCHANGED <<counted, limitVars, request, taskVars, untold, store, faults>>

-----------------------------------------------------------------------------
\* A request.

\* validateAuthorization, on a copy of the row.
Authorize(r) ==
  /\ request[r].step = "idle"
  /\ key.live /\ (key.limit > 0 => key.used < key.limit)
  /\ \E n \in 1..MaxItems :
       request' = [request EXCEPT ![r] =
         [step |-> "authorized", rate |-> key.rate, left |-> n, task |-> {}]]
  /\ UNCHANGED <<keyVars, limitVars, taskVars, untold, store, faults>>

\* CheckRateLimit: the limiter is made from the copied rate limit at the first
\* call.  Reserve takes a token in any case; a call that would have to wait for
\* it is refused, and the reservation is not cancelled.
CheckRateLimit(r) ==
  LET l == IF limiter = NoLimiter THEN NewLimiter(request[r].rate) ELSE limiter
      tokens == l.tokens - Period
  IN
  /\ request[r].step = "authorized"
  /\ l.tokens > -MaxDebt * Period
  /\ limiter' = [l EXCEPT !.tokens = tokens]
  /\ request' = IF tokens \geq 0 THEN [request EXCEPT ![r].step = "create"]
                ELSE [request EXCEPT ![r] = Idle]
  /\ UNCHANGED <<keyVars, changing, taskVars, untold, store, faults>>

\* Time passes: a token takes Period ticks at a rate limit of 1.
Tick ==
  /\ limiter # NoLimiter
  /\ limiter.tokens < limiter.burst
  /\ limiter' = [limiter EXCEPT !.tokens =
       IF @ + limiter.rate < limiter.burst THEN @ + limiter.rate ELSE limiter.burst]
  /\ UNCHANGED <<keyVars, changing, request, taskVars, untold, store, faults>>

\* Mutant: one item too many.
NextItem_OffByOne(q) ==
  IF q.left = 0 THEN Idle ELSE [q EXCEPT !.left = @ - 1, !.step = "create", !.task = {}]

\* The batch goes on, or the request has ended.
NextItem(q) ==
  IF q.left = 1 THEN Idle ELSE [q EXCEPT !.left = @ - 1, !.step = "create", !.task = {}]

\* Mutant: the limit is taken from what authorization read, so it is not asked again.
WithinLimit_Unasked == TRUE

\* The condition of the conditional update of used_count.
WithinLimit == key.live /\ (key.limit > 0 => key.used < key.limit)

\* Mutant: an SD fine-tuning task is not counted.
Charges_Engine(c) == Kind[c] = "engine"

\* The raw API counts its tasks, the fine-tuning API does not.
Charges(c) == Kind[c] # "finetune"

\* A client task as its creation leaves it: the engine expands its own later.
Committed(c) ==
  /\ task[c] = "none"
  /\ Kind[c] # "finetune" => WithinLimit
  /\ task' = [task EXCEPT ![c] = IF Kind[c] = "engine" THEN "unexpanded" ELSE "expanded"]
  /\ rows' = IF Kind[c] = "engine" THEN rows ELSE rows \cup {<<c, "primary">>}
  /\ key' = IF Charges(c) THEN [key EXCEPT !.used = @ + 1] ELSE key
  /\ counted' = IF Kind[c] = "finetune" THEN counted ELSE counted \cup {c}

\* createRawTaskAndConsumeQuota and DoCreateTask: one transaction that counts
\* the use and creates the client task.
CreateItem(r, c) ==
  /\ request[r].step = "create"
  /\ Committed(c)
  /\ request' = [request EXCEPT ![r].step = "trace", ![r].task = {c}]
  /\ UNCHANGED <<changes, limitVars, untold, store, faults>>

\* The transaction is rolled back (quota used up, key deleted, item refused,
\* database error), and the batch goes on with its next item.
ItemFails(r) ==
  /\ request[r].step = "create"
  /\ request' = [request EXCEPT ![r] = NextItem(@)]
  /\ UNCHANGED <<keyVars, limitVars, taskVars, untold, store, faults>>

\* The commit succeeds, but its answer is lost: the item is reported as failed.
CommitAnswerLost(r, c) ==
  /\ request[r].step = "create" /\ faults < MaxFaults
  /\ Committed(c)
  /\ request' = [request EXCEPT ![r] = NextItem(@)]
  /\ faults' = faults + 1
  /\ UNCHANGED <<changes, limitVars, untold, store>>

\* The trace starts with the rows that creation returned; only the fine-tuning
\* API does not name the client task.
Trace(r) ==
  /\ request[r].step = "trace"
  /\ \E c \in request[r].task :
       store' = StartTrace(store, c, IF Kind[c] = "finetune" THEN {} ELSE {c},
                           IF Kind[c] = "engine" THEN {} ELSE {<<c, "primary">>})
  /\ request' = [request EXCEPT ![r].step = "finish"]
  /\ UNCHANGED <<keyVars, limitVars, taskVars, untold, faults>>

Finish(r) ==
  /\ request[r].step = "finish"
  /\ \E c \in request[r].task : store' = FinishTrace(store, c)
  /\ request' = [request EXCEPT ![r] = NextItem(@)]
  /\ UNCHANGED <<keyVars, limitVars, taskVars, untold, faults>>

-----------------------------------------------------------------------------
\* Those who work on committed client tasks, as far as the trace store sees.

\* The main loop is one goroutine: it tells the store before it goes on.
LoopIsFree == \A c \in ClientTask : Kind[c] = "engine" => untold[c] = "nothing"

\* expandClientTask commits the primary row ...
Expand(c) ==
  /\ task[c] = "unexpanded" /\ LoopIsFree
  /\ task' = [task EXCEPT ![c] = "expanded"]
  /\ rows' = rows \cup {<<c, "primary">>}
  /\ untold' = [untold EXCEPT ![c] = "rows"]
  /\ UNCHANGED <<keyVars, limitVars, request, store, faults>>

\* ... as an applied result may commit a member, and an SDFT goroutine the row of
\* the next round.
Work(c) ==
  LET t == <<c, IF Kind[c] = "engine" THEN "member" ELSE "retry">> IN
  /\ task[c] = "expanded" /\ untold[c] = "nothing" /\ (Kind[c] = "engine" => LoopIsFree)
  /\ \E T \in SUBSET ((IF c \in Growing THEN {t} ELSE {}) \ rows) :
       /\ rows' = rows \cup T
       /\ untold' = [untold EXCEPT ![c] = IF Kind[c] # "engine" /\ T = {} THEN "event" ELSE "rows"]
  /\ UNCHANGED <<keyVars, limitVars, request, task, store, faults>>

RowsOf(c) == {t \in rows : Client(t) = c}

\* RegisterTraceTasks, or RegisterTask with the row of the round before.
TellRows(c) ==
  /\ untold[c] = "rows"
  /\ store' = IF Kind[c] = "engine" THEN RegisterClientTasks(store, c, RowsOf(c))
              ELSE RegisterTasks(store, <<c, "primary">>, {<<c, "retry">>})
  /\ untold' = [untold EXCEPT ![c] = "event"]
  /\ UNCHANGED <<keyVars, limitVars, request, taskVars, faults>>

\* The event of a change, for the row that changed.
TellEvent(c) ==
  /\ untold[c] = "event"
  /\ \E t \in RowsOf(c) : store' = RecordEvent(store, t)
  /\ untold' = [untold EXCEPT ![c] = "nothing"]
  /\ UNCHANGED <<keyVars, limitVars, request, taskVars, faults>>

Crash ==
  /\ faults < MaxFaults
  /\ faults' = faults + 1
  /\ limiter' = NoLimiter /\ changing' = {}
  /\ request' = [r \in Request |-> Idle]
  /\ untold' = [c \in ClientTask |-> "nothing"]
  /\ store' = EmptyStore
  /\ UNCHANGED <<keyVars, taskVars>>

Next ==
  \/ CreateAPIKey \/ DeleteAPIKey \/ Tick \/ Crash
  \/ \E l \in UseLimits : ChangeUseLimit(l)
  \/ \E n \in RateLimits : ChangeRateLimit(n) \/ UpdateRateLimit(n)
  \/ \E r \in Request : Authorize(r) \/ CheckRateLimit(r) \/ ItemFails(r) \/ Trace(r) \/ Finish(r)
  \/ \E r \in Request, c \in ClientTask : CreateItem(r, c) \/ CommitAnswerLost(r, c)
  \/ \E c \in ClientTask : Expand(c) \/ Work(c) \/ TellRows(c) \/ TellEvent(c)

Spec == Init /\ [][Next]_vars

-----------------------------------------------------------------------------
\* The uses counted on a key are the client tasks committed with it: no crash,
\* rollback, lost answer or second request counts a use without its task or
\* commits a task without its use.
UsesAreTasks == key.used = Cardinality(counted)

\* A client task is only committed against a quota that still has room and a
\* key that is not deleted, however old the copy is that authorized it.
WithinQuota ==
  [][counted' # counted =>
       key.live /\ (key.limit > 0 => Cardinality(counted') \leq key.limit)]_vars

\* Once a change of the rate limit is through, the limiter works at the rate of
\* the row, whichever request made the limiter from whatever copy.
LimiterFollowsKey ==
  limiter # NoLimiter /\ changing = {} => limiter.rate = key.rate

\* Every index entry of the trace store leads to a live trace that lists a row
\* filed there, or was named for it: the store never follows an entry to a trace
\* it evicted.
EntriesAreLive ==
  \A i \in Index : \A x \in DOMAIN store.index[i] :
    LET k == store.index[i][x] IN
    /\ k \in DOMAIN store.tasks
    /\ x \in FiledOf(store.tasks[k], i) \/ (i = "client" /\ x = k /\ k \in store.named)

\* The store holds at most MaxTraces traces, each listed once and for a client
\* task that was really committed, unanswered only while its request is, and finds each
\* again by any of its rows.
TracesAreFound ==
  /\ Len(store.order) = Cardinality(DOMAIN store.tasks) /\ Len(store.order) \leq MaxTraces
  /\ Range(ListTraces(store, MaxTraces)) = DOMAIN store.tasks
  /\ \A k \in DOMAIN store.tasks :
       /\ task[k] # "none"
       /\ k \notin store.finished => \E r \in Request : request[r].step = "finish" /\ k \in request[r].task
       /\ \A t \in store.tasks[k] : t \in rows /\ PrimaryForTask(store, t) = {k}
                                    /\ t \in GetTrace(store, Group(t))
=============================================================================
