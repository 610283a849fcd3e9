---------------------------- MODULE CreationProofs ----------------------------
(***************************************************************************)
(* Theorems about Creation for any number of client tasks and requests,    *)
(* any limits and any number of faults.                                    *)
(***************************************************************************)
EXTENDS Creation, TraceStoreProofs

\* Each action is one of these.
RequestStep(r) == Authorize(r) \/ CheckRateLimit(r) \/ ItemFails(r) \/ Trace(r) \/ Finish(r)
CommitStep(r, c) == CreateItem(r, c) \/ CommitAnswerLost(r, c)
TaskStep(c) == Expand(c) \/ Work(c) \/ TellRows(c) \/ TellEvent(c)
KeyStep ==
  \/ CreateAPIKey \/ DeleteAPIKey \/ \E l \in UseLimits : ChangeUseLimit(l)
  \/ \E n \in RateLimits : ChangeRateLimit(n)

\* The actions, by who takes them.
LEMMA NextIs ==
  Next => \/ KeyStep \/ Tick \/ Crash \/ \E n \in RateLimits : UpdateRateLimit(n)
          \/ \E r \in Request : RequestStep(r)
          \/ \E r \in Request, c \in ClientTask : CommitStep(r, c)
          \/ \E c \in ClientTask : TaskStep(c)
  BY DEF Next, KeyStep, RequestStep, CommitStep, TaskStep

-----------------------------------------------------------------------------
\* The tokens of a new limiter are a number.
LEMMA NewLimiterType ==
  ASSUME NEW n \in Nat PROVE NewLimiter(n) \in [rate : Nat, burst : Nat, tokens : Int]
  <1>1. n * Period \in Nat
    BY CreationAssumption
  <1>2. QED
    BY <1>1 DEF NewLimiter

RequestType == [step : {"idle", "authorized", "create", "trace", "finish"},
                rate : Nat, left : 0..MaxItems, task : SUBSET ClientTask]

\* A batch goes on or its request is idle.
LEMMA NextItemType ==
  ASSUME NEW q \in RequestType, q.left # 0
  PROVE  /\ NextItem(q) \in RequestType
         /\ (NextItem(q).step = "idle" <=> NextItem(q).left = 0)
         /\ NextItem(q).step \in {"idle", "create"}
         /\ NextItem(q).rate \in {0, q.rate}
         /\ NextItem(q).task = {}
  <1>1. CASE q.left = 1
    BY <1>1, CreationAssumption DEF NextItem, Idle, RequestType
  <1>2. CASE q.left # 1
    <2>1. q.left - 1 \in 0..MaxItems /\ q.left - 1 # 0
      BY <1>2, CreationAssumption DEF RequestType
    <2>2. NextItem(q) = [q EXCEPT !.left = @ - 1, !.step = "create", !.task = {}]
      BY <1>2 DEF NextItem
    <2>3. QED
      BY <2>1, <2>2 DEF RequestType
  <1>3. QED
    BY <1>1, <1>2

\* Initially everything is within its type.
LEMMA InitType == Init => CreationTypeOK
  BY CreationAssumption
  DEF Init, CreationTypeOK, NoKey, NoLimiter, Idle

\* The administration of the key writes values of their types.
LEMMA KeyStepType ==
  ASSUME CreationTypeOK, KeyStep PROVE CreationTypeOK'
  <1>1. CASE CreateAPIKey
    BY <1>1, CreationAssumption DEF CreationTypeOK, CreateAPIKey, limitVars, taskVars
  <1>2. CASE DeleteAPIKey
    BY <1>2 DEF CreationTypeOK, DeleteAPIKey, limitVars, taskVars
  <1>3. ASSUME NEW l \in UseLimits, ChangeUseLimit(l) PROVE CreationTypeOK'
    BY <1>3, CreationAssumption DEF CreationTypeOK, ChangeUseLimit, limitVars, taskVars
  <1>4. ASSUME NEW n \in RateLimits, ChangeRateLimit(n) PROVE CreationTypeOK'
    BY <1>4, CreationAssumption DEF CreationTypeOK, ChangeRateLimit, taskVars
  <1>5. QED
    BY <1>1, <1>2, <1>3, <1>4 DEF KeyStep

\* So do the limiter's steps and a crash.
LEMMA LimiterStepType ==
  ASSUME CreationTypeOK, Tick \/ Crash \/ \E n \in RateLimits : UpdateRateLimit(n)
  PROVE  CreationTypeOK'
  <1>1. CASE Tick
    BY <1>1, CreationAssumption DEF CreationTypeOK, Tick, keyVars, taskVars
  <1>2. CASE Crash
    BY <1>2, CreationAssumption DEF CreationTypeOK, Crash, keyVars, taskVars, NoLimiter, Idle
  <1>3. ASSUME NEW n \in RateLimits, UpdateRateLimit(n) PROVE CreationTypeOK'
    <2>1. NewLimit(n) \in [rate : Nat, burst : Nat, tokens : Int]
      BY CreationAssumption, NewLimiterType DEF NewLimit, CreationTypeOK
    <2>2. QED
      BY <1>3, <2>1 DEF CreationTypeOK, UpdateRateLimit, keyVars, taskVars
  <1>4. QED
    BY <1>1, <1>2, <1>3

\* The steps of a request.
LEMMA RequestStepType ==
  ASSUME CreationTypeOK, NEW r \in Request, RequestStep(r) PROVE CreationTypeOK'
  <1>1. CASE Authorize(r)
    BY <1>1, CreationAssumption DEF CreationTypeOK, Authorize, keyVars, limitVars, taskVars
  <1>2. CASE CheckRateLimit(r)
    <2>1. PICK l : l = IF limiter = NoLimiter THEN NewLimiter(request[r].rate) ELSE limiter
      OBVIOUS
    <2>2. l \in [rate : Nat, burst : Nat, tokens : Int]
      BY <2>1, NewLimiterType DEF CreationTypeOK
    <2>3. limiter' = [l EXCEPT !.tokens = l.tokens - Period]
          /\ (request' = [request EXCEPT ![r].step = "create"] \/ request' = [request EXCEPT ![r] = Idle])
          /\ request[r].step = "authorized"
          /\ UNCHANGED <<keyVars, changing, taskVars, untold, store, faults>>
      BY <1>2, <2>1 DEF CheckRateLimit
    <2>4. limiter' \in [rate : Nat, burst : Nat, tokens : Int]
      BY <2>2, <2>3, CreationAssumption
    <2>5. QED
      BY <2>3, <2>4, CreationAssumption DEF CreationTypeOK, keyVars, taskVars, Idle
  <1>3. CASE ItemFails(r) \/ Finish(r)
    <2>1. request[r].left # 0
      BY <1>3 DEF CreationTypeOK, ItemFails, Finish
    <2>2. request' = [request EXCEPT ![r] = NextItem(request[r])]
      BY <1>3 DEF ItemFails, Finish
    <2>3. /\ NextItem(request[r]) \in RequestType
          /\ (NextItem(request[r]).step = "idle" <=> NextItem(request[r]).left = 0)
      BY <2>1, NextItemType DEF CreationTypeOK, RequestType
    <2>4. QED
      BY <1>3, <2>2, <2>3
      DEF CreationTypeOK, ItemFails, Finish, keyVars, limitVars, taskVars, RequestType
  <1>4. CASE Trace(r)
    BY <1>4 DEF CreationTypeOK, Trace, keyVars, limitVars, taskVars
  <1>5. QED
    BY <1>1, <1>2, <1>3, <1>4 DEF RequestStep

\* The two outcomes of a commit.
LEMMA CommitStepType ==
  ASSUME CreationTypeOK, NEW r \in Request, NEW c \in ClientTask, CommitStep(r, c)
  PROVE  CreationTypeOK'
  <1>1. /\ key' \in [live : BOOLEAN, used : Nat, limit : Int, rate : Nat]
        /\ counted' \subseteq ClientTask
        /\ task' \in [ClientTask -> {"none", "unexpanded", "expanded"}]
        /\ rows' \subseteq Row
    BY DEF CommitStep, CreateItem, CommitAnswerLost, Committed, CreationTypeOK, Row
  <1>2. CASE CreateItem(r, c)
    <2>1. [request[r] EXCEPT !.step = "trace", !.task = {c}] \in RequestType
          /\ request[r].left # 0
      BY <1>2 DEF CreationTypeOK, CreateItem, RequestType
    <2>2. request' = [request EXCEPT ![r] = [request[r] EXCEPT !.step = "trace", !.task = {c}]]
      BY <1>2 DEF CreationTypeOK, CreateItem
    <2>3. /\ request' \in [Request -> RequestType]
          /\ \A q \in Request : request'[q].step = "idle" <=> request'[q].left = 0
      BY <2>1, <2>2 DEF CreationTypeOK, RequestType
    <2>4. UNCHANGED <<limiter, changing, untold>>
      BY <1>2 DEF CreateItem, limitVars
    <2>5. QED
      BY <1>1, <2>3, <2>4 DEF CreationTypeOK, RequestType
  <1>3. CASE CommitAnswerLost(r, c)
    <2>1. request[r].left # 0
      BY <1>3 DEF CreationTypeOK, CommitAnswerLost
    <2>2. /\ NextItem(request[r]) \in RequestType
          /\ (NextItem(request[r]).step = "idle" <=> NextItem(request[r]).left = 0)
      BY <2>1, NextItemType DEF CreationTypeOK, RequestType
    <2>3. QED
      BY <1>1, <1>3, <2>2 DEF CreationTypeOK, CommitAnswerLost, limitVars, RequestType
  <1>4. QED
    BY <1>2, <1>3 DEF CommitStep

\* The work on committed client tasks.
LEMMA TaskStepType ==
  ASSUME CreationTypeOK, NEW c \in ClientTask, TaskStep(c) PROVE CreationTypeOK'
  BY DEF CreationTypeOK, TaskStep, Expand, Work, TellRows, TellEvent, Row,
         keyVars, limitVars, taskVars

\* Every step stays within the types.
LEMMA NextType == CreationTypeOK /\ [Next]_vars => CreationTypeOK'
  <1> SUFFICES ASSUME CreationTypeOK, [Next]_vars PROVE CreationTypeOK'
    OBVIOUS
  <1>1. CASE Next
    BY <1>1, NextIs, KeyStepType, LimiterStepType, RequestStepType, CommitStepType, TaskStepType
  <1>2. CASE UNCHANGED vars
    BY <1>2 DEF CreationTypeOK, vars, keyVars, limitVars, taskVars
  <1>3. QED
    BY <1>1, <1>2

\* Whatever requests, administration, workers and crashes do, the rows and the
\* in-memory state stay within their types, and a request has items left exactly
\* while it is in progress.
THEOREM CreationTypeCorrect == Spec => []CreationTypeOK
  BY InitType, NextType, PTL DEF Spec

-----------------------------------------------------------------------------
\* The quota: a client task that was counted was committed, so it is not counted
\* a second time.
QuotaInv ==
  /\ IsFiniteSet(counted) /\ UsesAreTasks
  /\ \A c \in counted : task[c] # "none"

\* A commit counts one use for one client task, or none for none, and only when
\* the limit of the row that it updates leaves room.
LEMMA CommittedCounts ==
  ASSUME CreationTypeOK, QuotaInv, NEW c \in ClientTask, Committed(c)
  PROVE  /\ QuotaInv'
         /\ counted' # counted =>
              key.live /\ (key.limit > 0 => Cardinality(counted') \leq key.limit)
  <1>1. \A d \in ClientTask : task[d] # "none" => task'[d] # "none"
    BY DEF Committed, CreationTypeOK
  <1>2. task'[c] # "none"
    BY DEF Committed, CreationTypeOK
  <1>3. CASE Kind[c] = "finetune"
    <2>1. key' = key /\ counted' = counted
      BY <1>3 DEF Committed, Charges
    <2>2. QED
      BY <1>1, <2>1 DEF QuotaInv, UsesAreTasks, CreationTypeOK
  <1>4. CASE Kind[c] # "finetune"
    <2>1. key'.used = key.used + 1 /\ counted' = counted \cup {c} /\ WithinLimit /\ c \notin counted
      BY <1>4 DEF Committed, Charges, CreationTypeOK, QuotaInv
    <2>2. IsFiniteSet(counted') /\ Cardinality(counted') = Cardinality(counted) + 1
      BY <2>1, FS_AddElement DEF QuotaInv
    <2>3. Cardinality(counted') = key.used + 1 /\ key.used \in Nat /\ key.limit \in Int
      BY <2>2 DEF QuotaInv, UsesAreTasks, CreationTypeOK
    <2>4. QED
      BY <1>1, <1>2, <2>1, <2>2, <2>3 DEF QuotaInv, UsesAreTasks, CreationTypeOK, WithinLimit
  <1>5. QED
    BY <1>3, <1>4

\* Nothing else touches the uses, or what is counted.
LEMMA OthersDoNotCount ==
  ASSUME CreationTypeOK, QuotaInv,
         \/ KeyStep \/ Tick \/ Crash \/ \E n \in RateLimits : UpdateRateLimit(n)
         \/ \E r \in Request : RequestStep(r)
         \/ \E c \in ClientTask : TaskStep(c)
         \/ UNCHANGED vars
  PROVE  QuotaInv' /\ counted' = counted
  <1>1. key'.used = key.used /\ counted' = counted
    <2>1. CASE KeyStep
      BY <2>1 DEF KeyStep, CreateAPIKey, DeleteAPIKey, ChangeUseLimit, ChangeRateLimit, NoKey,
                  CreationTypeOK
    <2>2. CASE ~KeyStep
      BY <2>2 DEF Tick, Crash, UpdateRateLimit, RequestStep, Authorize, CheckRateLimit, ItemFails,
                  Trace, Finish, TaskStep, Expand, Work, TellRows, TellEvent, keyVars, vars
    <2>3. QED
      BY <2>1, <2>2
  <1>2. \A c \in ClientTask : task[c] # "none" => task'[c] # "none"
    BY DEF KeyStep, CreateAPIKey, DeleteAPIKey, ChangeUseLimit, ChangeRateLimit, Tick, Crash,
           UpdateRateLimit, RequestStep, Authorize, CheckRateLimit, ItemFails, Trace, Finish,
           TaskStep, Expand, Work, TellRows, TellEvent, taskVars, vars, CreationTypeOK
  <1>3. QED
    BY <1>1, <1>2 DEF QuotaInv, UsesAreTasks, CreationTypeOK

\* Each step keeps the count and stays within the quota.
LEMMA NextCounts ==
  ASSUME CreationTypeOK, QuotaInv, [Next]_vars
  PROVE  /\ QuotaInv'
         /\ counted' # counted =>
              key.live /\ (key.limit > 0 => Cardinality(counted') \leq key.limit)
  <1>1. ASSUME NEW r \in Request, NEW c \in ClientTask, CommitStep(r, c) PROVE Committed(c)
    BY <1>1 DEF CommitStep, CreateItem, CommitAnswerLost
  <1>2. QED
    BY <1>1, NextIs, CommittedCounts, OthersDoNotCount

\* The count starts with no use and no task.
LEMMA InitCounts == Init => QuotaInv
  BY FS_EmptySet DEF Init, QuotaInv, UsesAreTasks, NoKey

\* However requests, crashes, rollbacks and lost answers interleave, the uses
\* counted on the key are exactly the client tasks committed with it.
THEOREM UsesAreCounted == Spec => []UsesAreTasks
  <1>1. Spec => []QuotaInv
    BY CreationTypeCorrect, InitCounts, NextCounts, PTL DEF Spec
  <1>2. QuotaInv => UsesAreTasks
    BY DEF QuotaInv
  <1>3. QED
    BY <1>1, <1>2, PTL

\* However old the copy of the key is that authorized a request, no commit is
\* counted beyond the limit of the row or on a deleted key.
THEOREM QuotaHolds == Spec => WithinQuota
  <1>1. Spec => []QuotaInv
    BY CreationTypeCorrect, InitCounts, NextCounts, PTL DEF Spec
  <1>2. CreationTypeOK /\ QuotaInv /\ [Next]_vars =>
          [counted' # counted =>
             key.live /\ (key.limit > 0 => Cardinality(counted') \leq key.limit)]_vars
    BY NextCounts
  <1>3. QED
    BY <1>1, <1>2, CreationTypeCorrect, PTL DEF Spec, WithinQuota

-----------------------------------------------------------------------------
\* The rate limiter: until the limiter is made, the copies that requests hold
\* are those of the row, unless a change is on its way to it, which will then
\* make the limiter first or correct it.
LimiterInv ==
  /\ LimiterFollowsKey
  /\ changing \subseteq {key.rate}
  /\ limiter # NoLimiter => limiter.rate > 0
  /\ key.live => key.rate > 0
  /\ key.rate = 0 => /\ limiter = NoLimiter /\ changing = {}
                     /\ \A r \in Request : request[r].step # "authorized"
  /\ \A r \in Request : request[r].step = "authorized" =>
       /\ request[r].rate > 0
       /\ limiter = NoLimiter /\ changing = {} => request[r].rate = key.rate

\* It holds before there is a key.
LEMMA InitLimiter == Init => LimiterInv
  BY DEF Init, LimiterInv, LimiterFollowsKey, NoKey, NoLimiter, Idle

\* A change of the row waits for the change before it to reach the limiter.
LEMMA KeyStepLimiter ==
  ASSUME CreationTypeOK, LimiterInv, KeyStep PROVE LimiterInv'
  <1>1. CASE CreateAPIKey
    BY <1>1, CreationAssumption
    DEF CreationTypeOK, LimiterInv, LimiterFollowsKey, CreateAPIKey, NoKey, limitVars
  <1>2. CASE DeleteAPIKey
    BY <1>2 DEF CreationTypeOK, LimiterInv, LimiterFollowsKey, DeleteAPIKey, limitVars
  <1>3. ASSUME NEW l \in UseLimits, ChangeUseLimit(l) PROVE LimiterInv'
    BY <1>3 DEF CreationTypeOK, LimiterInv, LimiterFollowsKey, ChangeUseLimit, limitVars
  <1>4. ASSUME NEW n \in RateLimits, ChangeRateLimit(n) PROVE LimiterInv'
    BY <1>4, CreationAssumption DEF CreationTypeOK, LimiterInv, LimiterFollowsKey, ChangeRateLimit
  <1>5. QED
    BY <1>1, <1>2, <1>3, <1>4 DEF KeyStep

\* The change then sets the limiter, or makes it.
LEMMA UpdateLimiter ==
  ASSUME CreationTypeOK, LimiterInv, NEW n \in RateLimits, UpdateRateLimit(n) PROVE LimiterInv'
  <1>1. n \in Nat /\ n > 0 /\ n = key.rate
    BY CreationAssumption DEF UpdateRateLimit, LimiterInv
  <1>2. limiter'.rate = n /\ limiter' # NoLimiter
    BY <1>1 DEF UpdateRateLimit, NewLimit, NewLimiter, NoLimiter, CreationTypeOK
  <1>3. changing' = {} /\ key' = key /\ request' = request
    BY <1>1 DEF UpdateRateLimit, LimiterInv, keyVars
  <1>4. QED
    BY <1>1, <1>2, <1>3 DEF LimiterInv, LimiterFollowsKey

\* A request that makes the limiter makes it from the rate of the row, unless a
\* change is on its way.
LEMMA RequestLimiter ==
  ASSUME CreationTypeOK, LimiterInv, NEW r \in Request, RequestStep(r) PROVE LimiterInv'
  <1>1. CASE Authorize(r)
    <2>1. PICK n \in 1..MaxItems : request' = [request EXCEPT ![r] =
            [step |-> "authorized", rate |-> key.rate, left |-> n, task |-> {}]]
      BY <1>1 DEF Authorize
    <2>2. key.live /\ UNCHANGED <<key, limiter, changing>>
      BY <1>1 DEF Authorize, keyVars, limitVars
    <2>3. key.rate > 0 /\ key.rate \in Nat
      BY <2>2 DEF LimiterInv, CreationTypeOK
    <2>4. QED
      BY <2>1, <2>2, <2>3 DEF CreationTypeOK, LimiterInv, LimiterFollowsKey
  <1>2. CASE CheckRateLimit(r)
    <2>1. PICK l : l = IF limiter = NoLimiter THEN NewLimiter(request[r].rate) ELSE limiter
      OBVIOUS
    <2>2. /\ limiter' = [l EXCEPT !.tokens = l.tokens - Period]
          /\ (request' = [request EXCEPT ![r].step = "create"] \/ request' = [request EXCEPT ![r] = Idle])
          /\ request[r].step = "authorized"
          /\ UNCHANGED <<key, changing>>
      BY <1>2, <2>1 DEF CheckRateLimit, keyVars
    <2>3. /\ l.rate = IF limiter = NoLimiter THEN request[r].rate ELSE limiter.rate
          /\ limiter'.rate = l.rate
      BY <2>1, <2>2 DEF NewLimiter, CreationTypeOK
    <2>4. l.rate > 0 /\ (changing = {} => l.rate = key.rate)
      BY <2>2, <2>3 DEF LimiterInv, LimiterFollowsKey, CreationTypeOK
    <2>5. limiter' # NoLimiter /\ key.rate # 0
      BY <2>2, <2>3, <2>4 DEF NoLimiter, LimiterInv
    <2>6. \A q \in Request : request'[q].step = "authorized" => request'[q] = request[q]
      BY <2>2 DEF CreationTypeOK, Idle
    <2>7. QED
      BY <2>2, <2>3, <2>4, <2>5, <2>6 DEF LimiterInv, LimiterFollowsKey
  <1>3. CASE ItemFails(r) \/ Trace(r) \/ Finish(r)
    <2>1. request[r].left # 0
      BY <1>3 DEF CreationTypeOK, ItemFails, Trace, Finish
    <2>2. NextItem(request[r]).step # "authorized"
      BY <2>1, NextItemType DEF CreationTypeOK, RequestType
    <2>3. \A q \in Request : request'[q].step = "authorized" => request'[q] = request[q]
      BY <1>3, <2>2 DEF CreationTypeOK, ItemFails, Trace, Finish
    <2>4. UNCHANGED <<key, limiter, changing>>
      BY <1>3 DEF ItemFails, Trace, Finish, keyVars, limitVars
    <2>5. QED
      BY <2>3, <2>4 DEF LimiterInv, LimiterFollowsKey
  <1>4. QED
    BY <1>1, <1>2, <1>3 DEF RequestStep

\* A commit ends nobody's authorization and changes no rate.
LEMMA CommitLimiter ==
  ASSUME CreationTypeOK, LimiterInv, NEW r \in Request, NEW c \in ClientTask, CommitStep(r, c)
  PROVE  LimiterInv'
  <1>1. request[r].left # 0
    BY DEF CreationTypeOK, CommitStep, CreateItem, CommitAnswerLost
  <1>2. NextItem(request[r]).step # "authorized"
    BY <1>1, NextItemType DEF CreationTypeOK, RequestType
  <1>3. \A q \in Request : request'[q].step = "authorized" => request'[q] = request[q]
    BY <1>2 DEF CreationTypeOK, CommitStep, CreateItem, CommitAnswerLost
  <1>4. key'.rate = key.rate /\ key'.live = key.live /\ UNCHANGED <<limiter, changing>>
    BY DEF CommitStep, CreateItem, CommitAnswerLost, Committed, CreationTypeOK, limitVars
  <1>5. QED
    BY <1>3, <1>4 DEF LimiterInv, LimiterFollowsKey

\* Time and crashes keep it too, and the work on client tasks does not touch it.
LEMMA OtherLimiter ==
  ASSUME CreationTypeOK, LimiterInv,
         Tick \/ Crash \/ (\E c \in ClientTask : TaskStep(c)) \/ UNCHANGED vars
  PROVE  LimiterInv'
  <1>1. CASE Tick
    <2>1. limiter'.rate = limiter.rate /\ UNCHANGED <<key, changing, request>> /\ limiter # NoLimiter
      BY <1>1 DEF Tick, CreationTypeOK, keyVars
    <2>2. QED
      BY <2>1 DEF LimiterInv, LimiterFollowsKey, NoLimiter
  <1>2. CASE Crash
    BY <1>2 DEF Crash, LimiterInv, LimiterFollowsKey, Idle, keyVars
  <1>3. CASE (\E c \in ClientTask : TaskStep(c)) \/ UNCHANGED vars
    <2>1. UNCHANGED <<key, limiter, changing, request>>
      BY <1>3 DEF TaskStep, Expand, Work, TellRows, TellEvent, vars, keyVars, limitVars
    <2>2. QED
      BY <2>1 DEF LimiterInv, LimiterFollowsKey
  <1>4. QED
    BY <1>1, <1>2, <1>3

\* Whichever request makes the limiter and from whatever copy of the key, the
\* limiter works at the rate of the row as soon as no change is on its way.
THEOREM LimiterFollows == Spec => []LimiterFollowsKey
  <1>1. CreationTypeOK /\ LimiterInv /\ [Next]_vars => LimiterInv'
    BY NextIs, KeyStepLimiter, UpdateLimiter, RequestLimiter, CommitLimiter, OtherLimiter
  <1>2. LimiterInv => LimiterFollowsKey
    BY DEF LimiterInv
  <1>3. QED
    BY <1>1, <1>2, InitLimiter, CreationTypeCorrect, PTL DEF Spec

-----------------------------------------------------------------------------
\* The trace store among those who write to it: traces are of committed client
\* tasks and list committed rows, a request names the one client task it
\* committed, and an SDFT goroutine that has a row to tell has committed it.  Only
\* the engine's client tasks wait for their expansion.
TracesAreReal ==
  \A k \in DOMAIN store.tasks :
    /\ task[k] # "none" /\ store.tasks[k] \subseteq rows
    /\ k \notin store.finished =>
         \E r \in Request : request[r].step = "finish" /\ k \in request[r].task
RequestsAreReal ==
  \A r \in Request : request[r].step \in {"trace", "finish"} =>
    \E c \in ClientTask :
      /\ request[r].task = {c} /\ task[c] # "none"
      /\ Kind[c] # "engine" => <<c, "primary">> \in rows
ToldIsReal ==
  \A c \in ClientTask : Kind[c] # "engine" =>
    /\ untold[c] = "rows" => <<c, "retry">> \in rows
    /\ task[c] # "unexpanded"

TraceInv == SoundStore(store) /\ TracesAreReal /\ RequestsAreReal /\ ToldIsReal

\* The limit and the rows of a trace are those of a sound store.
LEMMA TraceInvShows ==
  ASSUME TraceInv PROVE EntriesAreLive /\ TracesAreFound
  <1>1. EntriesAreLive
    BY SoundEntries DEF EntriesAreLive, TraceInv
  <1>2. Len(store.order) \leq MaxTraces /\ Len(store.order) = Cardinality(DOMAIN store.tasks)
        /\ Range(ListTraces(store, MaxTraces)) = DOMAIN store.tasks
    BY SoundOrder DEF TraceInv, SoundStore
  <1>3. ASSUME NEW k \in DOMAIN store.tasks
        PROVE  \A t \in store.tasks[k] : t \in rows /\ PrimaryForTask(store, t) = {k}
                                         /\ t \in GetTrace(store, Group(t))
    BY SoundRows DEF TraceInv, TracesAreReal
  <1>4. QED
    BY <1>1, <1>2, <1>3 DEF TracesAreFound, TraceInv, TracesAreReal

\* Initially, and after a crash, there is no trace.
LEMMA NoTrace ==
  ASSUME store' = EmptyStore, \A r \in Request : request'[r] = Idle,
         \A c \in ClientTask : untold'[c] = "nothing", ToldIsReal, task' = task
  PROVE  TraceInv'
  <1>1. SoundStore(store')
    BY EmptyStoreSound
  <1>2. DOMAIN store'.tasks = {}
    BY DEF EmptyStore
  <1>3. QED
    BY <1>1, <1>2 DEF TraceInv, TracesAreReal, RequestsAreReal, ToldIsReal, Idle

\* So it is at the start.
LEMMA InitTraces == Init => TraceInv
  <1> SUFFICES ASSUME Init PROVE TraceInv
    OBVIOUS
  <1>1. SoundStore(store)
    BY EmptyStoreSound DEF Init
  <1>2. DOMAIN store.tasks = {}
    BY DEF Init, EmptyStore
  <1>3. QED
    BY <1>1, <1>2 DEF Init, TraceInv, TracesAreReal, RequestsAreReal, ToldIsReal, Idle

\* A call of the store keeps its traces real, if the rows it adds are committed
\* and whoever started a trace still has to finish it.
LEMMA CallKeepsReal ==
  ASSUME TraceInv, NEW K \in SUBSET ClientTask, NEW T \in SUBSET rows,
         Grows(store, store', K, T), rows \subseteq rows',
         \A k \in ClientTask : task[k] # "none" => task'[k] # "none",
         \A k \in K : task[k] # "none",
         \A k \in DOMAIN store'.tasks :
           /\ k \notin store'.finished
           /\ k \in K \/ \E r \in Request : request[r].step = "finish" /\ k \in request[r].task
           => \E r \in Request : request'[r].step = "finish" /\ k \in request'[r].task
  PROVE  TracesAreReal'
  <1>1. DOMAIN store.tasks \subseteq ClientTask
    BY StoreFields DEF TraceInv, SoundStore, StoreInv
  <1>2. ASSUME NEW k \in DOMAIN store'.tasks
        PROVE  /\ task'[k] # "none" /\ store'.tasks[k] \subseteq rows'
               /\ k \notin store'.finished =>
                    \E r \in Request : request'[r].step = "finish" /\ k \in request'[r].task
    <2>1. k \in K \/ k \in DOMAIN store.tasks
      BY DEF Grows
    <2>2. task'[k] # "none"
      BY <1>1, <2>1 DEF TraceInv, TracesAreReal
    <2>3. store'.tasks[k] \subseteq rows'
      BY DEF Grows, TraceInv, TracesAreReal
    <2>4. k \notin store'.finished => k \in K \/ (k \in DOMAIN store.tasks /\ k \notin store.finished)
      BY DEF Grows
    <2>5. QED
      BY <2>2, <2>3, <2>4 DEF TraceInv, TracesAreReal
  <1>3. QED
    BY <1>2 DEF TracesAreReal

\* A step that leaves the store alone keeps everything real, if it keeps what is
\* committed and what others have to finish.
LEMMA NoCallKeepsReal ==
  ASSUME TraceInv, store' = store, rows \subseteq rows',
         \A k \in ClientTask : task[k] # "none" => task'[k] # "none",
         \A r \in Request : request[r].step = "finish" => request'[r] = request[r],
         RequestsAreReal', ToldIsReal'
  PROVE  TraceInv'
  <1>1. Grows(store, store', {}, {})
    BY DEF Grows
  <1>2. TracesAreReal'
    BY <1>1, CallKeepsReal
  <1>3. QED
    BY <1>2 DEF TraceInv

\* A request starts the trace of what it committed, and finishes it later.
LEMMA RequestTraces ==
  ASSUME CreationTypeOK, TraceInv, NEW r \in Request, RequestStep(r) PROVE TraceInv'
  <1>1. CASE Authorize(r) \/ CheckRateLimit(r) \/ ItemFails(r)
    <2>1. UNCHANGED <<store, task, rows, untold>> /\ request[r].step # "finish"
      BY <1>1 DEF Authorize, CheckRateLimit, ItemFails, taskVars
    <2>2. \A q \in Request \ {r} : request'[q] = request[q]
      BY <1>1 DEF Authorize, CheckRateLimit, ItemFails, CreationTypeOK
    <2>3. request'[r].step \notin {"trace", "finish"}
      <3>1. CASE ItemFails(r)
        <4>1. request[r].left # 0
          BY <3>1 DEF CreationTypeOK, ItemFails
        <4>2. request'[r] = NextItem(request[r])
          BY <3>1 DEF CreationTypeOK, ItemFails
        <4>3. QED
          BY <4>1, <4>2, NextItemType DEF CreationTypeOK, RequestType
      <3>2. CASE Authorize(r) \/ CheckRateLimit(r)
        BY <3>2 DEF CreationTypeOK, Authorize, CheckRateLimit, Idle
      <3>3. QED
        BY <1>1, <3>1, <3>2
    <2>4. RequestsAreReal' /\ ToldIsReal'
      BY <2>1, <2>2, <2>3 DEF TraceInv, RequestsAreReal, ToldIsReal
    <2>5. QED
      BY <2>1, <2>2, <2>4, NoCallKeepsReal
  <1>2. CASE Trace(r)
    <2>1. PICK c \in ClientTask :
            /\ request[r].task = {c} /\ task[c] # "none"
            /\ Kind[c] # "engine" => <<c, "primary">> \in rows
      BY <1>2 DEF TraceInv, RequestsAreReal, Trace
    <2> DEFINE N == IF Kind[c] = "finetune" THEN {} ELSE {c}
               T == IF Kind[c] = "engine" THEN {} ELSE {<<c, "primary">>}
    <2>2. store' = StartTrace(store, c, N, T)
      BY <1>2, <2>1 DEF Trace
    <2>3. /\ N \in SUBSET {c} /\ T \in SUBSET rows
          /\ T \in SUBSET Row /\ \A t \in T : Client(t) = c
      BY <2>1 DEF Row, Client
    <2>4. SoundStore(store') /\ Grows(store, store', {c}, T)
      <3> HIDE DEF N, T
      <3>1. QED
        BY <2>2, <2>3, StartTraceKeeps DEF TraceInv
    <2>5. /\ \A q \in Request \ {r} : request'[q] = request[q]
          /\ request'[r].step = "finish" /\ request'[r].task = {c}
          /\ UNCHANGED <<task, rows, untold>>
      BY <1>2, <2>1 DEF Trace, CreationTypeOK, taskVars
    <2>6. RequestsAreReal' /\ ToldIsReal'
      BY <2>1, <2>5 DEF TraceInv, RequestsAreReal, ToldIsReal
    <2>7. request[r].step = "trace"
      BY <1>2 DEF Trace
    <2>8. TracesAreReal'
      <3> HIDE DEF N, T
      <3>1. QED
        BY <2>1, <2>3, <2>4, <2>5, <2>7, CallKeepsReal
    <2>9. QED
      BY <2>4, <2>6, <2>8 DEF TraceInv
  <1>3. CASE Finish(r)
    <2>1. PICK c \in ClientTask : request[r].task = {c}
      BY <1>3 DEF TraceInv, RequestsAreReal, Finish
    <2>2. store' = FinishTrace(store, c)
      BY <1>3, <2>1 DEF Finish
    <2>3. /\ SoundStore(store') /\ Grows(store, store', {}, {})
          /\ c \in DOMAIN store'.tasks => c \in store'.finished
      BY <2>2, FinishTraceKeeps DEF TraceInv
    <2>4. request[r].left # 0 /\ UNCHANGED <<task, rows, untold>>
      BY <1>3 DEF CreationTypeOK, Finish, taskVars
    <2>5. \A q \in Request \ {r} : request'[q] = request[q]
      BY <1>3 DEF Finish, CreationTypeOK
    <2>6. request'[r].step \notin {"trace", "finish"}
      <3>1. request'[r] = NextItem(request[r])
        BY <1>3 DEF Finish, CreationTypeOK
      <3>2. QED
        BY <2>4, <3>1, NextItemType DEF CreationTypeOK, RequestType
    <2>7. RequestsAreReal' /\ ToldIsReal'
      <3>1. RequestsAreReal'
        BY <2>4, <2>5, <2>6 DEF TraceInv, RequestsAreReal
      <3>2. ToldIsReal'
        BY <2>4 DEF TraceInv, ToldIsReal
      <3>3. QED
        BY <3>1, <3>2
    <2>8. TracesAreReal'
      BY <2>1, <2>3, <2>4, <2>5, CallKeepsReal
    <2>9. QED
      BY <2>3, <2>7, <2>8 DEF TraceInv
  <1>4. QED
    BY <1>1, <1>2, <1>3 DEF RequestStep

\* A commit precedes the trace that names it.
LEMMA CommitTraces ==
  ASSUME CreationTypeOK, TraceInv, NEW r \in Request, NEW c \in ClientTask, CommitStep(r, c)
  PROVE  TraceInv'
  <1>1. /\ rows \subseteq rows' /\ UNCHANGED <<store, untold>>
        /\ Kind[c] # "engine" => <<c, "primary">> \in rows'
        /\ task'[c] # "none"
        /\ \A k \in ClientTask : task[k] # "none" => task'[k] # "none"
        /\ request[r].step = "create"
    BY DEF CommitStep, CreateItem, CommitAnswerLost, Committed, CreationTypeOK
  <1>2. \A q \in Request \ {r} : request'[q] = request[q]
    BY DEF CommitStep, CreateItem, CommitAnswerLost, CreationTypeOK
  <1>3. request'[r].step \notin {"trace", "finish"} \/ request'[r].task = {c}
    <2>1. CASE CreateItem(r, c)
      BY <2>1 DEF CreateItem, CreationTypeOK
    <2>2. CASE CommitAnswerLost(r, c)
      <3>1. request[r].left # 0 /\ request'[r] = NextItem(request[r])
        BY <2>2 DEF CommitAnswerLost, CreationTypeOK
      <3>2. QED
        BY <3>1, NextItemType DEF CreationTypeOK, RequestType
    <2>3. QED
      BY <2>1, <2>2 DEF CommitStep
  <1>4. RequestsAreReal' /\ ToldIsReal'
    <2>1. \A k \in ClientTask \ {c} : task'[k] = task[k]
      BY DEF CommitStep, CreateItem, CommitAnswerLost, Committed, CreationTypeOK
    <2>2. Kind[c] # "engine" => task'[c] # "unexpanded"
      BY DEF CommitStep, CreateItem, CommitAnswerLost, Committed, CreationTypeOK
    <2>3. QED
      BY <1>1, <1>2, <1>3, <2>1, <2>2 DEF TraceInv, RequestsAreReal, ToldIsReal
  <1>5. QED
    BY <1>1, <1>2, <1>4, NoCallKeepsReal

\* Workers commit rows before they tell the store of them, and tell it of rows of
\* one client task at a time.
LEMMA TaskTraces ==
  ASSUME CreationTypeOK, TraceInv, NEW c \in ClientTask, TaskStep(c) PROVE TraceInv'
  <1>1. CASE Expand(c) \/ Work(c)
    <2>1. UNCHANGED <<store, request>> /\ rows \subseteq rows'
      BY <1>1 DEF Expand, Work
    <2>2. \A k \in ClientTask : task[k] # "none" => task'[k] # "none"
      BY <1>1 DEF Expand, Work, CreationTypeOK
    <2>3. RequestsAreReal'
      BY <2>1, <2>2 DEF TraceInv, RequestsAreReal
    <2>4. ToldIsReal'
      <3>1. CASE Expand(c)
        BY <2>1, <3>1 DEF Expand, TraceInv, ToldIsReal, CreationTypeOK
      <3>2. CASE Work(c)
        BY <2>1, <3>2 DEF Work, TraceInv, ToldIsReal, CreationTypeOK
      <3>3. QED
        BY <1>1, <3>1, <3>2
    <2>5. QED
      BY <2>1, <2>2, <2>3, <2>4, NoCallKeepsReal
  <1>2. CASE TellRows(c) \/ TellEvent(c)
    <2>1. UNCHANGED <<request, task, rows>>
      BY <1>2 DEF TellRows, TellEvent, taskVars
    <2>2. /\ RowsOf(c) \in SUBSET rows /\ RowsOf(c) \in SUBSET Row
          /\ \A t \in RowsOf(c) : Client(t) = c
      BY DEF RowsOf, CreationTypeOK
    <2>3. \E T \in SUBSET rows : SoundStore(store') /\ Grows(store, store', {}, T)
      <3>1. CASE TellRows(c) /\ Kind[c] = "engine"
        <4>1. store' = RegisterClientTasks(store, c, RowsOf(c))
          BY <3>1 DEF TellRows
        <4>2. QED
          BY <2>2, <4>1, RegisterClientTasksKeeps DEF TraceInv
      <3>2. CASE TellRows(c) /\ Kind[c] # "engine"
        <4> DEFINE p == <<c, "primary">>
                   T == {<<c, "retry">>}
        <4>1. store' = RegisterTasks(store, p, T) /\ untold[c] = "rows"
          BY <3>2 DEF TellRows
        <4>2. /\ p \in Row /\ T \in SUBSET Row /\ \A u \in T : Client(u) = Client(p)
              /\ T \in SUBSET rows
          BY <3>2, <4>1 DEF Row, Client, TraceInv, ToldIsReal
        <4>3. QED
          <5> HIDE DEF p, T
          <5>1. QED
            BY <4>1, <4>2, RegisterTasksKeeps DEF TraceInv
      <3>3. CASE TellEvent(c)
        <4>1. PICK t \in RowsOf(c) : store' = RegisterTasks(store, t, {t})
          BY <3>3 DEF TellEvent, RecordEvent
        <4>2. t \in Row /\ {t} \in SUBSET Row /\ {t} \in SUBSET rows
          BY <2>2, <4>1
        <4>3. SoundStore(store') /\ Grows(store, store', {}, {t})
          BY <4>1, <4>2, RegisterTasksKeeps DEF TraceInv
        <4>4. QED
          BY <4>2, <4>3
      <3>4. QED
        BY <1>2, <3>1, <3>2, <3>3
    <2>4. \A d \in ClientTask : untold'[d] = "rows" => untold[d] = "rows"
      BY <1>2 DEF TellRows, TellEvent, CreationTypeOK
    <2>5. RequestsAreReal' /\ ToldIsReal'
      BY <2>1, <2>4 DEF TraceInv, RequestsAreReal, ToldIsReal
    <2>6. TracesAreReal'
      BY <2>1, <2>3, CallKeepsReal
    <2>7. QED
      BY <2>3, <2>5, <2>6 DEF TraceInv
  <1>3. QED
    BY <1>1, <1>2 DEF TaskStep

\* The key and the limiter have nothing to do with traces; a crash loses them all.
LEMMA OtherTraces ==
  ASSUME CreationTypeOK, TraceInv,
         \/ KeyStep \/ Tick \/ Crash \/ \E n \in RateLimits : UpdateRateLimit(n)
         \/ UNCHANGED vars
  PROVE  TraceInv'
  <1>1. CASE Crash
    BY <1>1, NoTrace DEF Crash, taskVars, TraceInv
  <1>2. CASE ~Crash
    <2>1. UNCHANGED <<store, request, task, rows, untold>>
      BY <1>2 DEF KeyStep, CreateAPIKey, DeleteAPIKey, ChangeUseLimit, ChangeRateLimit, Tick,
                  UpdateRateLimit, vars, taskVars
    <2>2. QED
      BY <2>1 DEF TraceInv, TracesAreReal, RequestsAreReal, ToldIsReal
  <1>3. QED
    BY <1>1, <1>2

\* Every reachable state has a sound store of real traces.
LEMMA TraceInvHolds == Spec => []TraceInv
  <1>1. CreationTypeOK /\ TraceInv /\ [Next]_vars => TraceInv'
    BY NextIs, RequestTraces, CommitTraces, TaskTraces, OtherTraces
  <1>2. QED
    BY <1>1, InitTraces, CreationTypeCorrect, PTL DEF Spec

\* No entry of the four indexes ever leads to a trace that was evicted, or to a
\* trace that does not list the row it was filed for.
THEOREM EntriesLiveOn == Spec => []EntriesAreLive
  BY TraceInvHolds, TraceInvShows, PTL

\* The store keeps to its limit, lists each trace of a committed client task once,
\* leaves none unanswered but of a request that is still on its way, and finds
\* each by any of its rows.
THEOREM TracesStayFound == Spec => []TracesAreFound
  BY TraceInvHolds, TraceInvShows, PTL

=============================================================================
