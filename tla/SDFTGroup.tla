----------------------------- MODULE SDFTGroup -----------------------------
(***************************************************************************)
(* The rows of one round of a fine-tuning task and their goroutines.        *)
(*                                                                         *)
(* ProcessTasks scans the table and starts one goroutine per unprocessed   *)
(* row.  A goroutine creates its task at Relay, stores the VRF data and    *)
(* the two members the VRF may ask for, waits, decides with its own view   *)
(* of the group whether it submits the validation, and downloads the        *)
(* result.  In a group every goroutine also writes the rows of the others: *)
(* it reads the group, asks Relay about each row, and writes what it heard.*)
(* An error sends a goroutine back to its start, where it forgets all.     *)
(***************************************************************************)
EXTENDS Relay

CONSTANTS
  First,        \* the row the round starts with; the others are its members
  MayNeedGroup, \* the VRF number may select the round for validation
  MaxFaults,    \* bound on failures, crashes, tasks that Relay aborts, refuses or loses
  MayForget     \* Relay may lose an unfinished task

ASSUME GroupAssumption ==
  /\ First \in Task /\ Cardinality(Task) = 3
  /\ MayNeedGroup \in BOOLEAN /\ MayForget \in BOOLEAN /\ MaxFaults \in Nat

VARIABLES
  dstatus, \* status column
  dreason, \* abort_reason column
  dseq,    \* sequence column, 0 until it is stored
  vrf,     \* what the stored VRF number of the round says: "none", "alone" or "group"
  rseq,    \* the sequence numbers that Relay gave
  go,      \* go[t]: the goroutine of row t
  faults

\* Relay numbers the tasks it creates; one that it lost is created once more.
MaxSeq == Cardinality(Task) + MaxFaults
Copy == [st : TaskStatus, reason : AbortReason, seq : 0..MaxSeq]
Pc == {"idle", "sync", "create", "created", "data", "wait", "group", "groupsync",
       "recheck", "resync", "submit", "await", "download", "finish"}

NoWork == [pc |-> "idle", mem |-> "Pending", view |-> <<>>, todo |-> {}]

dbVars == <<dstatus, dreason, dseq, vrf>>
vars == <<dbVars, rseq, go, faults, relayVars>>

Rows == {t \in Task : dstatus[t] # "absent"}

SGTypeOK ==
  /\ RelayTypeOK
  /\ dstatus \in [Task -> TaskStatus \cup {"absent"}]
  /\ dreason \in [Task -> AbortReason]
  /\ dseq \in [Task -> 0..MaxSeq] /\ rseq \in [Task -> 0..MaxSeq]
  /\ vrf \in {"none", "alone", "group"}
  /\ \A t \in Task :
       /\ DOMAIN go[t] = DOMAIN NoWork
       /\ go[t].pc \in Pc /\ go[t].mem \in TaskStatus
       /\ go[t].todo \subseteq Rows
       /\ go[t].view = <<>> \/ \E S \in SUBSET Task : go[t].view \in [S -> Copy]
  /\ faults \in 0..MaxFaults

Init ==
  /\ RelayInit
  /\ dstatus = [t \in Task |-> IF t = First THEN "Pending" ELSE "absent"]
  /\ dreason = [t \in Task |-> "None"]
  /\ dseq = [t \in Task |-> 0] /\ rseq = [t \in Task |-> 0]
  /\ vrf = "none"
  /\ go = [t \in Task |-> NoWork]
  /\ faults = 0

-----------------------------------------------------------------------------
\* syncTask: the status that a copy with status st gets from Relay's answer c.
SyncStatus(st, c) ==
  CASE c = "NotFound" -> IF st = "Pending" THEN st ELSE "EndAborted"
    [] c = "Queued"   -> IF st = "Pending" THEN "Created" ELSE st
    [] OTHER          -> RelayStatusToLocal(c)

\* Mutant: the whole copy is saved.
WriteSynced_Save(t, old, new) ==
  /\ dstatus' = [dstatus EXCEPT ![t] = new]
  /\ dreason' = IF rreason[t] = "None" THEN dreason ELSE [dreason EXCEPT ![t] = rreason[t]]

\* task.Update after a sync of t's copy, which had status old and now has new.
\* A column is written when the copy changed, whatever the row holds by now; a
\* local abort (abortTaskLocally) is written in any case.
WriteSynced(t, old, new) ==
  /\ dstatus' = IF old = new /\ (rstatus[t] # "NotFound" \/ new = "Pending") THEN dstatus
               ELSE [dstatus EXCEPT ![t] = new]
  /\ dreason' = IF rreason[t] = "None" THEN dreason ELSE [dreason EXCEPT ![t] = rreason[t]]

\* isTaskBeforeValidation, isTaskReadyOrLater
BeforeValidation(st) == st \in {"Created", "Started", "ParamsUploaded"}
ReadyOrLater(st) == IsReadyForValidation(st) \/ st = "Validated" \/ st \in TerminalStatus

\* needsRelayTaskData; the members have their VRF data from the first row.
NeedsRelayTaskData(t) == dseq[t] = 0 \/ vrf = "none"

\* Where a terminal status leads, and where a row goes on that has its data.
End(st) == IF st = "EndSuccess" THEN "download" ELSE "finish"
Onwards(st) == IF BeforeValidation(st)          THEN "wait"
               ELSE IF IsReadyForValidation(st) THEN "group" ELSE "await"

At(t, pc) == go[t].pc = pc
Goto(t, pc, st) == go' = [go EXCEPT ![t] = [NoWork EXCEPT !.pc = pc, !.mem = st]]

\* A request that changed Relay is answered, or fails all the same.
Answered(t, pc) ==
  \/ Goto(t, pc, go[t].mem) /\ UNCHANGED faults
  \/ Goto(t, "sync", "Pending") /\ faults < MaxFaults /\ faults' = faults + 1

\* getUnprocessedTasks
Unprocessed == {t \in Rows : ~Finished(dstatus[t])}

\* Mutant: a task that is ready already is validated at once.
AfterSync_Ready(t, s) ==
  IF s \in TerminalStatus THEN End(s)
  ELSE IF s = "Pending"   THEN "create"
  ELSE IF NeedsRelayTaskData(t) /\ ~IsReadyForValidation(s) THEN "data" ELSE Onwards(s)

AfterSync(t, s) ==
  IF s \in TerminalStatus THEN End(s)
  ELSE IF s = "Pending"   THEN "create"
  ELSE IF NeedsRelayTaskData(t) THEN "data" ELSE Onwards(s)

\* ProcessTasks: a goroutine for every row of a scan that has none.
Start(t) ==
  /\ t \in Unprocessed /\ At(t, "idle")
  /\ Goto(t, "sync", "Pending")
  /\ UNCHANGED <<dbVars, rseq, faults, relayVars>>

\* The scan read the row before its goroutine finished it, and looks for the
\* goroutine after that has ended.
StartLate(t) ==
  /\ t \in Rows \ Unprocessed /\ At(t, "idle") /\ faults < MaxFaults
  /\ Goto(t, "sync", "Pending")
  /\ faults' = faults + 1
  /\ UNCHANGED <<dbVars, rseq, relayVars>>

\* The head of processOneTask: read the row, sync it, and see where it stands.
SyncFirst(t) ==
  LET s == SyncStatus(dstatus[t], rstatus[t]) IN
  /\ At(t, "sync")
  /\ WriteSynced(t, dstatus[t], s)
  /\ Goto(t, AfterSync(t, s), s)
  /\ UNCHANGED <<dseq, vrf, rseq, faults, relayVars>>

\* createTask: the request, and the local end of a task that Relay refuses.
Create(t) ==
  /\ At(t, "create")
  /\ \/ /\ RelayCreate(t, "created")
        /\ \E n \in 1..MaxSeq :
             /\ (\A u \in Task : rseq[u] < n) /\ (n = 1 \/ \E u \in Task : rseq[u] = n - 1)
             /\ rseq' = [rseq EXCEPT ![t] = n]
        /\ Answered(t, "created")
        /\ UNCHANGED dstatus
     \/ /\ faults < MaxFaults /\ faults' = faults + 1
        /\ dstatus' = [dstatus EXCEPT ![t] = "EndAborted"]
        /\ Goto(t, "finish", "EndAborted")
        /\ UNCHANGED <<rseq, relayVars>>
  /\ UNCHANGED <<dreason, dseq, vrf>>

StoreCreated(t) ==
  /\ At(t, "created")
  /\ dstatus' = [dstatus EXCEPT ![t] = "Created"]
  /\ Goto(t, IF NeedsRelayTaskData(t) THEN "data" ELSE "wait", "Created")
  /\ UNCHANGED <<dreason, dseq, vrf, rseq, faults, relayVars>>

\* Mutant: the members are left for a later step.
NewMembers_Later(t) == {}

\* buildValidationTasks, in the step that stores the VRF number.
NewMembers(t) == IF vrf = "none" /\ vrf' = "group" THEN Task \ {t} ELSE {}

\* Sync once more, then one transaction for the sequence, the VRF data and the
\* members if the VRF number asks for them.
StoreRelayData(t) ==
  LET s == SyncStatus(go[t].mem, rstatus[t]) IN
  /\ At(t, "data")
  /\ dreason' = IF rreason[t] = "None" THEN dreason ELSE [dreason EXCEPT ![t] = rreason[t]]
  /\ IF s \in TerminalStatus
     THEN /\ dstatus' = [dstatus EXCEPT ![t] = s]
          /\ Goto(t, End(s), s)
          /\ UNCHANGED <<dseq, vrf>>
     ELSE /\ dseq' = [dseq EXCEPT ![t] = rseq[t]]
          /\ vrf' \in IF vrf # "none" THEN {vrf}
                     ELSE {"alone"} \cup IF MayNeedGroup THEN {"group"} ELSE {}
          /\ dstatus' = [u \in Task |->
               IF u = t THEN IF s = go[t].mem THEN dstatus[t] ELSE s
               ELSE IF u \in NewMembers(t) THEN "Pending" ELSE dstatus[u]]
          /\ Goto(t, Onwards(s), s)
  /\ UNCHANGED <<rseq, faults, relayVars>>

\* The loops that poll Relay for the own row only: until the task is ready, and
\* then until its end.
PollNext(pc, st) ==
  IF st \in TerminalStatus THEN End(st)
  ELSE IF pc = "wait" /\ IsReadyForValidation(st) THEN "group" ELSE pc

Poll(t) ==
  LET s == SyncStatus(go[t].mem, rstatus[t]) IN
  /\ go[t].pc \in {"wait", "await"}
  /\ WriteSynced(t, go[t].mem, s)
  /\ Goto(t, PollNext(go[t].pc, s), s)
  /\ UNCHANGED <<dseq, vrf, rseq, faults, relayVars>>

-----------------------------------------------------------------------------
\* The group, as the goroutine of row t sees it.

\* GetTaskGroup: copies of the rows.
View == [u \in Rows |-> [st |-> dstatus[u], reason |-> dreason[u], seq |-> dseq[u]]]

HasTimeout(v) ==
  \E u \in DOMAIN v : v[u].st = "EndAborted" /\ v[u].reason = "CreatorValidationTimeout"
\* allTasksEligibleForGroupValidation
Eligible(v) == \A u \in DOMAIN v : IsReadyForValidation(v[u].st) \/ v[u].st = "EndAborted"

\* The first ready copy in the order of the sequence column is the goroutine's.
Submits(t, v) ==
  /\ Eligible(v) /\ ~HasTimeout(v)
  /\ IsReadyForValidation(v[t].st)
  /\ \A u \in DOMAIN v \ {t} : IsReadyForValidation(v[u].st) => v[t].seq < v[u].seq

\* Mutant: whoever is ready goes on to submit, group or not.
AsSingle_Any(t) == At(t, "group")

\* Only a task without a group goes on to submit without an election.
AsSingle(t) == At(t, "group") /\ Cardinality(Rows) = 1

ReadGroup(t) ==
  /\ At(t, "group") \/ At(t, "recheck")
  /\ go' = [go EXCEPT ![t] =
       IF AsSingle(t)
       THEN [@ EXCEPT !.pc = "recheck"]
       ELSE [@ EXCEPT !.pc = IF At(t, "group") THEN "groupsync" ELSE "resync",
                      !.view = View, !.todo = Rows]]
  /\ UNCHANGED <<dbVars, rseq, faults, relayVars>>

\* syncTaskGroup, one copy in the order of the sequence column.
SyncCopy(t, u) ==
  LET g == go[t]
      c == g.view[u]
      s == SyncStatus(c.st, rstatus[u])
      r == IF rreason[u] = "None" THEN c.reason ELSE rreason[u]
  IN
  /\ g.pc \in {"groupsync", "resync"}
  /\ u \in g.todo /\ \A w \in g.todo : c.seq <= g.view[w].seq
  /\ WriteSynced(u, c.st, s)
  /\ go' = [go EXCEPT ![t] =
       [g EXCEPT !.todo = g.todo \ {u}, !.view = [g.view EXCEPT ![u] = [c EXCEPT !.st = s, !.reason = r]]]]
  /\ UNCHANGED <<dseq, vrf, rseq, faults, relayVars>>

Synced(t) == go[t].todo = {}

\* All members are ready or later, or Relay gave up waiting: decide who submits.
DecideSubmitter(t) ==
  LET v == go[t].view IN
  /\ At(t, "groupsync") /\ Synced(t)
  /\ IF (\A u \in DOMAIN v : ReadyOrLater(v[u].st)) \/ HasTimeout(v)
     THEN Goto(t, IF Submits(t, v) THEN "recheck" ELSE "await", go[t].mem)
     ELSE Goto(t, "group", go[t].mem)
  /\ UNCHANGED <<dbVars, rseq, faults, relayVars>>

\* The same look at fresh copies before the submission.
DecideAgain(t) ==
  LET v == go[t].view IN
  /\ At(t, "resync") /\ Synced(t)
  /\ IF Eligible(v) /\ ~HasTimeout(v)
     THEN go' = [go EXCEPT ![t].pc = "submit"]
     ELSE Goto(t, "await", go[t].mem)
  /\ UNCHANGED <<dbVars, rseq, faults, relayVars>>

\* validateSingleTask, validateTaskGroup; an error starts the goroutine over.
Submit(t) ==
  /\ At(t, "submit")
  /\ \/ /\ RelayValidate(DOMAIN go[t].view, "validated")
        /\ Answered(t, "await")
     \/ /\ \E out \in {"already_applied", "permanent_error"} : RelayValidate(DOMAIN go[t].view, out)
        /\ Goto(t, "sync", "Pending") /\ UNCHANGED faults
  /\ UNCHANGED <<dbVars, rseq>>

-----------------------------------------------------------------------------
\* downloadTaskResult and the final status.
Download(t) ==
  /\ At(t, "download")
  /\ dstatus' = [dstatus EXCEPT ![t] = "ResultDownloaded"]
  /\ Goto(t, "finish", "ResultDownloaded")
  /\ UNCHANGED <<dreason, dseq, vrf, rseq, faults, relayVars>>

\* cancelQueuedValidationSiblings: best effort, errors are ignored.
Siblings(t) == IF go[t].mem = "EndAborted" /\ Cardinality(Rows) = 3 THEN Task \ {t} ELSE {}

Finish(t) ==
  /\ At(t, "finish")
  /\ LET queued == {u \in Siblings(t) : rstatus[u] = "Queued"} IN
     \E S \in SUBSET queued :
       /\ IF S = queued THEN UNCHANGED faults ELSE faults < MaxFaults /\ faults' = faults + 1
       /\ rstatus' = [u \in Task |-> IF u \in S THEN "EndAborted" ELSE rstatus[u]]
       /\ rreason' = [u \in Task |-> IF u \in S THEN "CreatorCancelled" ELSE rreason[u]]
  /\ go' = [go EXCEPT ![t] = NoWork]
  /\ UNCHANGED <<dbVars, rseq, rfiles>>

-----------------------------------------------------------------------------
\* Faults.

\* A request that changes nothing or a statement fails: the goroutine starts
\* over after a pause.
Fails(t) ==
  /\ ~At(t, "idle") /\ ~At(t, "sync") /\ faults < MaxFaults
  /\ faults' = faults + 1
  /\ Goto(t, "sync", "Pending")
  /\ UNCHANGED <<dbVars, rseq, relayVars>>

\* The bridge restarts.
Crash ==
  /\ faults < MaxFaults
  /\ \E t \in Task : ~At(t, "idle")
  /\ faults' = faults + 1
  /\ go' = [t \in Task |-> NoWork]
  /\ UNCHANGED <<dbVars, rseq, relayVars>>

RelayMoves(t) ==
  /\ RelayProgress(t)
  /\ faults' = IF rreason' = rreason THEN faults ELSE faults + 1
  /\ faults' \leq MaxFaults
  /\ UNCHANGED <<dbVars, rseq, go>>

RelayLoses(t) ==
  /\ MayForget /\ faults < MaxFaults
  /\ RelayForget(t)
  /\ faults' = faults + 1
  /\ UNCHANGED <<dbVars, rseq, go>>

-----------------------------------------------------------------------------
RowStep(t) ==
  \/ SyncFirst(t) \/ Create(t) \/ StoreCreated(t) \/ StoreRelayData(t) \/ Poll(t)
  \/ ReadGroup(t) \/ (\E u \in Task : SyncCopy(t, u))
  \/ DecideSubmitter(t) \/ DecideAgain(t) \/ Submit(t) \/ Download(t) \/ Finish(t)

Next ==
  \/ \E t \in Task : Start(t) \/ StartLate(t) \/ RowStep(t) \/ Fails(t) \/ RelayMoves(t) \/ RelayLoses(t)
  \/ Crash

Spec == Init /\ [][Next]_vars

-----------------------------------------------------------------------------
\* However the goroutines of a group and their stale copies interleave, at most
\* one whose task is ready at Relay submits the validation of the group.  (The
\* second look does not ask again who leads the group, so the goroutine of a
\* task that has ended by then submits all the same.)
OneSubmitter == Cardinality({t \in Task : At(t, "submit") /\ RelayReady(t)}) \leq 1

\* A round that its VRF number selects for validation is never validated as a
\* single task, not even by a goroutine that starts over after a failure.
ValidatedAsGroup == vrf = "group" => \A t \in Task : rstatus[t] # "Validated"

\* Relay validates a task only after the bridge has stored its VRF data and its
\* sequence number, whenever the task became ready.
ValidationHasData ==
  \A t \in Task : rstatus[t] \in AfterValidation => vrf # "none" /\ dseq[t] # 0

\* No goroutine gives a finished row a second life from its old copy of it: the
\* row never waits for its creation again, and no failure turns into a success.
\* (It may be marked Created once more by the goroutine that has just created
\* it, and a downloaded row may fall back to EndSuccess.)
NoSecondLife ==
  [][\A t \in Task : Finished(dstatus[t]) =>
       /\ dstatus'[t] # "Pending"
       /\ dstatus[t] # "ResultDownloaded" =>
            dstatus'[t] \notin {"EndSuccess", "ResultDownloaded"}]_vars
=============================================================================
