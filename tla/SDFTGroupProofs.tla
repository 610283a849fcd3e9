--------------------------- MODULE SDFTGroupProofs ---------------------------
(***************************************************************************)
(* Theorems about SDFTGroup for any statuses that Relay exposes and any    *)
(* number of faults, with and without validation groups.                   *)
(***************************************************************************)
EXTENDS SDFTGroup, FiniteSetTheorems, TLAPS

HasStatus == {"data", "wait", "group", "groupsync", "recheck", "resync", "submit", "await",
              "download", "finish"}
HasData == {"wait", "group", "groupsync", "recheck", "resync", "submit", "await"}
HasView == {"groupsync", "resync", "submit"}

\* The row is past its creation, as it stays; Relay has no task for it any more, as it stays
\* then too.
Left(t) == dstatus[t] \notin {"Pending", "absent"}
Dead(t) == rstatus[t] \in {"NotFound", "EndAborted"}

\* What a final status says of Relay.
Matches(t, st) ==
  /\ st = "EndAborted" => Dead(t)
  /\ st \in {"EndGroupRefund", "EndInvalidated"} => rstatus[t] = st
  /\ st \in {"EndSuccess", "ResultDownloaded"} => rstatus[t] \in {"EndSuccess", "EndGroupSuccess"}

\* A copy of the status of row t, however old.
Agrees(t, st) == (st # "Pending" => Left(t)) /\ Matches(t, st)

\* A row against Relay and against its own columns.
RowInv(t) ==
  /\ Matches(t, dstatus[t])
  /\ rstatus[t] # "NotFound" => rseq[t] # 0
  /\ dseq[t] # 0 => dseq[t] = rseq[t] /\ Left(t) /\ vrf # "none"
  /\ rstatus[t] \in AfterValidation => dseq[t] # 0

\* What the goroutine of row t holds between two of its steps.
WorkInv(t) ==
  /\ go[t].pc # "idle" => dstatus[t] # "absent"
  /\ go[t].pc = "create" => dstatus[t] = "Pending" /\ rstatus[t] = "NotFound"
  /\ go[t].pc \in {"created", "data"} => rseq[t] # 0
  /\ go[t].pc \in HasStatus => go[t].mem # "Pending" /\ Agrees(t, go[t].mem)
  /\ go[t].pc = "download" => go[t].mem = "EndSuccess"
  /\ go[t].pc \in HasData => dseq[t] # 0

\* Its view of the group; and once it was elected, every other row comes after it in
\* the sequence or is dead.
ViewInv(t) ==
  /\ go[t].pc \in HasView => DOMAIN go[t].view = Rows
  /\ go[t].pc \in {"groupsync", "resync"} =>
       /\ \A u \in Rows : Agrees(u, go[t].view[u].st) /\ go[t].view[u].seq \in {0, dseq[u]}
       /\ go[t].view[t].seq = dseq[t]
  /\ go[t].pc \in {"recheck", "resync", "submit"} =>
       \A u \in Rows \ {t} : dseq[t] < dseq[u] \/ (Left(u) /\ Dead(u))

\* The round has one row, or three once the VRF number has selected it.
RoundInv ==
  /\ Rows = IF vrf = "group" THEN Task ELSE {First}
  /\ vrf = "group" => \A t \in Task : rstatus[t] # "Validated"

Views == {<<>>} \cup UNION {[S -> Copy] : S \in SUBSET Task}
Work == [pc : Pc, mem : TaskStatus, view : Views, todo : SUBSET Task]

Typed ==
  /\ RelayTypeOK
  /\ dstatus \in [Task -> TaskStatus \cup {"absent"}]
  /\ dreason \in [Task -> AbortReason]
  /\ dseq \in [Task -> 0..MaxSeq] /\ rseq \in [Task -> 0..MaxSeq]
  /\ vrf \in {"none", "alone", "group"}
  /\ go \in [Task -> Work]
  /\ \A t \in Task : go[t].todo \subseteq Rows
  /\ faults \in 0..MaxFaults

\* The inductive invariant of a round.
GroupInv ==
  /\ Typed /\ RoundInv
  /\ \A t \in Task : RowInv(t) /\ WorkInv(t) /\ ViewInv(t)

\* What no step takes back.
Keeps ==
  /\ \A u \in Task :
       /\ dstatus[u] # "absent" => dstatus'[u] # "absent"
       /\ Left(u) => /\ Left(u)'
                     /\ Dead(u) => Dead(u)'
                     /\ rstatus[u] \in ChainTaskTerminal => rstatus'[u] = rstatus[u]
       /\ dseq[u] # 0 => dseq'[u] = dseq[u]
       /\ rseq[u] # 0 => rseq'[u] # 0
  /\ vrf # "none" => vrf' = vrf

-----------------------------------------------------------------------------
\* Relay's answer makes a copy agree with Relay, and a copy waits for its creation
\* only while Relay knows nothing.
LEMMA SyncMatches ==
  ASSUME Typed, NEW t \in Task, NEW st \in TaskStatus, Matches(t, st)
  PROVE  /\ SyncStatus(st, rstatus[t]) \in TaskStatus
         /\ SyncStatus(st, rstatus[t]) = "Pending" => st = "Pending" /\ rstatus[t] = "NotFound"
         /\ st = "Pending" /\ rstatus[t] = "NotFound" => SyncStatus(st, rstatus[t]) = "Pending"
         /\ Matches(t, SyncStatus(st, rstatus[t]))
         /\ rstatus[t] = "NotFound" => SyncStatus(st, rstatus[t]) \in {"Pending", "EndAborted"}
  <1> DEFINE c == rstatus[t]
             s == SyncStatus(st, c)
  <1>1. c \in ChainStatus
    BY DEF Typed, RelayTypeOK
  <1>2. CASE c = "NotFound"
    BY <1>2 DEF SyncStatus, Matches, Dead, TaskStatus
  <1>3. CASE c = "Queued"
    BY <1>3 DEF SyncStatus, Matches, Dead, TaskStatus
  <1>4. CASE c \notin {"NotFound", "Queued"}
    <2>1. s = RelayStatusToLocal(c)
      BY <1>4 DEF SyncStatus
    <2>2. /\ s \in TaskStatus \ {"Pending", "ResultDownloaded"}
          /\ s = "EndAborted" => c = "EndAborted"
          /\ s \in {"EndGroupRefund", "EndInvalidated"} => c = s
          /\ s = "EndSuccess" => c \in {"EndSuccess", "EndGroupSuccess"}
      BY <1>1, <1>4, <2>1 DEF RelayStatusToLocal, ChainStatus, TaskStatus
    <2>3. QED
      BY <1>4, <2>2 DEF Matches, Dead
  <1>5. QED
    BY <1>2, <1>3, <1>4

\* A copy that agreed with its row still does.
LEMMA AgreesStays ==
  ASSUME Keeps, NEW u \in Task, NEW st, Agrees(u, st)
  PROVE  Agrees(u, st)'
  <1>1. CASE st = "Pending"
    BY <1>1 DEF Agrees, Matches
  <1>2. CASE st # "Pending"
    <2>1. Left(u) /\ Left(u)' /\ (Dead(u) => Dead(u)')
          /\ (rstatus[u] \in ChainTaskTerminal => rstatus'[u] = rstatus[u])
      BY <1>2 DEF Agrees, Keeps
    <2>2. QED
      BY <2>1 DEF Agrees, Matches, Dead, ChainTaskTerminal
  <1>3. QED
    BY <1>1, <1>2

\* The rows are what the VRF number makes them.
LEMMA RowsStay ==
  ASSUME RoundInv, RoundInv', Keeps, vrf # "none"
  PROVE  Rows' = Rows
  BY DEF RoundInv, Keeps

\* What a goroutine holds is not disturbed by the steps of others.
LEMMA OthersStay ==
  ASSUME GroupInv, Keeps, RoundInv', NEW t \in Task, go'[t] = go[t],
         go[t].pc = "create" => dstatus'[t] = "Pending" /\ rstatus'[t] = "NotFound"
  PROVE  WorkInv(t)' /\ ViewInv(t)'
  <1>1. WorkInv(t) /\ ViewInv(t) /\ RowInv(t) /\ RoundInv
    BY DEF GroupInv
  <1>2. WorkInv(t)'
    <2>1. go[t].pc \in HasStatus => Agrees(t, go[t].mem)'
      BY <1>1, AgreesStays DEF WorkInv
    <2>2. /\ dstatus[t] # "absent" => dstatus'[t] # "absent"
          /\ dseq[t] # 0 => dseq'[t] = dseq[t]
          /\ rseq[t] # 0 => rseq'[t] # 0
      BY DEF Keeps
    <2>3. (go[t].mem)' = go[t].mem /\ (go[t].pc)' = go[t].pc
      OBVIOUS
    <2>4. QED
      BY <1>1, <2>1, <2>2, <2>3 DEF WorkInv, Agrees, Matches, Left, Dead, HasStatus, HasData
  <1>3. ViewInv(t)'
    <2>1. CASE go[t].pc \notin HasData
      BY <2>1 DEF ViewInv, HasView, HasData
    <2>2. CASE go[t].pc \in HasData
      <3>1. dseq[t] # 0 /\ vrf # "none"
        BY <1>1, <2>2 DEF WorkInv, RowInv
      <3>2. Rows' = Rows
        BY <1>1, <3>1, RowsStay
      <3>3. \A u \in Task : (dseq[u] # 0 => dseq'[u] = dseq[u]) /\ (Left(u) /\ Dead(u) => Left(u)' /\ Dead(u)')
        BY DEF Keeps
      <3>4. ASSUME go[t].pc \in {"groupsync", "resync"}
            PROVE  /\ \A u \in Rows : Agrees(u, go[t].view[u].st)' /\ go[t].view[u].seq \in {0, dseq'[u]}
                   /\ go[t].view[t].seq = dseq'[t]
        <4>1. /\ \A u \in Rows : Agrees(u, go[t].view[u].st) /\ go[t].view[u].seq \in {0, dseq[u]}
              /\ go[t].view[t].seq = dseq[t] /\ Rows \subseteq Task
          BY <1>1, <3>4 DEF ViewInv, Rows
        <4>2. ASSUME NEW u \in Rows PROVE Agrees(u, go[t].view[u].st)'
          <5>1. u \in Task /\ Agrees(u, go[t].view[u].st)
            BY <4>1
          <5>2. QED
            BY <5>1, AgreesStays
        <4>3. QED
          BY <3>1, <3>3, <4>1, <4>2
      <3>5. ASSUME go[t].pc \in {"recheck", "resync", "submit"}
            PROVE  \A u \in Rows \ {t} : dseq'[t] < dseq'[u] \/ (Left(u)' /\ Dead(u)')
        <4>1. \A u \in Rows \ {t} : u \in Task /\ (dseq[t] < dseq[u] \/ (Left(u) /\ Dead(u)))
          BY <1>1, <3>5 DEF ViewInv, Rows
        <4>2. \A u \in Task : dseq[u] \in Nat
          BY DEF GroupInv, Typed
        <4>3. QED
          BY <3>1, <3>3, <4>1, <4>2
      <3>6. QED
        BY <1>1, <3>2, <3>4, <3>5 DEF ViewInv
    <2>3. QED
      BY <2>1, <2>2
  <1>4. QED
    BY <1>2, <1>3

\* A goroutine that moves on forgets its view of the group.
LEMMA Went ==
  ASSUME Typed, NEW t \in Task, NEW pc \in Pc, NEW st \in TaskStatus, Goto(t, pc, st)
  PROVE  /\ go' \in [Task -> Work]
         /\ \A u \in Task \ {t} : go'[u] = go[u]
         /\ go'[t].pc = pc /\ go'[t].mem = st /\ go'[t].view = <<>> /\ go'[t].todo = {}
  <1> DEFINE w == [NoWork EXCEPT !.pc = pc, !.mem = st]
  <1>1. /\ NoWork \in Work /\ NoWork.view = <<>> /\ NoWork.todo = {}
        /\ DOMAIN NoWork = {"pc", "mem", "view", "todo"}
    BY DEF NoWork, Work, Views, Pc, TaskStatus
  <1>2. go \in [Task -> Work] /\ go' = [go EXCEPT ![t] = w]
    BY DEF Typed, Goto
  <1>3. w \in Work
    BY <1>1 DEF Work
  <1>4. w.pc = pc /\ w.mem = st /\ w.view = <<>> /\ w.todo = {}
    BY <1>1
  <1> HIDE DEF w
  <1>5. go'[t] = w /\ go' \in [Task -> Work] /\ \A u \in Task \ {t} : go'[u] = go[u]
    BY <1>2, <1>3
  <1>6. QED
    BY <1>4, <1>5

\* What a goroutine must hold where it goes, unless it goes with a view or as the elected.
LEMMA WentWell ==
  ASSUME Typed, NEW t \in Task, NEW pc \in Pc, NEW st \in TaskStatus, Goto(t, pc, st),
         pc \notin HasView \cup {"recheck"},
         pc # "idle" => dstatus'[t] # "absent",
         pc = "create" => dstatus'[t] = "Pending" /\ rstatus'[t] = "NotFound",
         pc \in {"created", "data"} => rseq'[t] # 0,
         pc \in HasStatus => st # "Pending" /\ Agrees(t, st)',
         pc = "download" => st = "EndSuccess",
         pc \in HasData => dseq'[t] # 0
  PROVE  WorkInv(t)' /\ ViewInv(t)'
  <1>1. go'[t].pc = pc /\ go'[t].mem = st
    BY Went
  <1>2. WorkInv(t)'
    BY <1>1 DEF WorkInv, Agrees, Matches, Left, Dead
  <1>3. ViewInv(t)'
    BY <1>1 DEF ViewInv, HasView
  <1>4. QED
    BY <1>2, <1>3

\* A step of one goroutine, put together.
LEMMA OneSteps ==
  ASSUME GroupInv, Typed', Keeps, RoundInv', \A u \in Task : RowInv(u)',
         NEW t \in Task, WorkInv(t)', ViewInv(t)',
         \A u \in Task \ {t} :
           /\ go'[u] = go[u]
           /\ go[u].pc = "create" => dstatus'[u] = "Pending" /\ rstatus'[u] = "NotFound"
  PROVE  GroupInv'
  <1>1. ASSUME NEW u \in Task PROVE WorkInv(u)' /\ ViewInv(u)'
    <2>1. CASE u = t
      BY <2>1
    <2>2. CASE u # t
      BY <2>2, OthersStay
    <2>3. QED
      BY <2>1, <2>2
  <1>2. QED
    BY <1>1 DEF GroupInv

\* A step that writes neither a row nor Relay.
LEMMA Quiet ==
  ASSUME GroupInv, UNCHANGED <<dbVars, rseq, relayVars>>
  PROVE  /\ Keeps /\ RoundInv' /\ \A u \in Task : RowInv(u)'
         /\ Rows' = Rows
         /\ \A u \in Task : go[u].pc = "create" => dstatus'[u] = "Pending" /\ rstatus'[u] = "NotFound"
  <1>1. UNCHANGED <<dstatus, dreason, dseq, vrf, rseq, rstatus, rreason, rfiles>>
    BY DEF dbVars, relayVars
  <1>2. Keeps
    BY <1>1 DEF Keeps, Left, Dead
  <1>3. Rows' = Rows
    BY <1>1 DEF Rows
  <1>4. RoundInv'
    BY <1>1, <1>3 DEF GroupInv, RoundInv
  <1>5. \A u \in Task : RowInv(u)'
    BY <1>1 DEF GroupInv, RowInv, Matches, Left, Dead
  <1>6. QED
    BY <1>1, <1>2, <1>3, <1>4, <1>5 DEF GroupInv, WorkInv

\* The columns and Relay keep their types when they do not change.
LEMMA QuietTyped ==
  ASSUME Typed, UNCHANGED <<dbVars, rseq, relayVars>>, go' \in [Task -> Work],
         \A u \in Task : go'[u].todo \subseteq Rows, faults' \in 0..MaxFaults
  PROVE  Typed'
  <1>1. UNCHANGED <<dstatus, dreason, dseq, vrf, rseq, rstatus, rreason, rfiles>>
    BY DEF dbVars, relayVars
  <1>2. Rows' = Rows
    BY <1>1 DEF Rows
  <1>3. RelayTypeOK'
    BY <1>1 DEF Typed, RelayTypeOK
  <1>4. QED
    BY <1>1, <1>2, <1>3 DEF Typed

\* A fault more, or none.
LEMMA FaultTyped ==
  ASSUME Typed, UNCHANGED faults \/ (faults < MaxFaults /\ faults' = faults + 1)
  PROVE  faults' \in 0..MaxFaults
  BY GroupAssumption DEF Typed

\* The steps of a goroutine that forget everything: its start, an error, an end that
\* comes too late; and a decision not to submit.
LEMMA QuietGoto ==
  ASSUME GroupInv, NEW t \in Task, NEW pc \in Pc, NEW st \in TaskStatus, Goto(t, pc, st),
         UNCHANGED <<dbVars, rseq, relayVars>>, faults' \in 0..MaxFaults,
         pc \notin HasView \cup {"recheck"},
         pc # "idle" => dstatus[t] # "absent",
         pc = "create" => dstatus[t] = "Pending" /\ rstatus[t] = "NotFound",
         pc \in {"created", "data"} => rseq[t] # 0,
         pc \in HasStatus => st # "Pending" /\ Agrees(t, st),
         pc = "download" => st = "EndSuccess",
         pc \in HasData => dseq[t] # 0
  PROVE  GroupInv' /\ Keeps
  <1>1. Typed
    BY DEF GroupInv
  <1>2. Keeps /\ RoundInv' /\ (\A u \in Task : RowInv(u)')
        /\ \A u \in Task : go[u].pc = "create" => dstatus'[u] = "Pending" /\ rstatus'[u] = "NotFound"
    BY Quiet
  <1>3. go' \in [Task -> Work] /\ (\A u \in Task \ {t} : go'[u] = go[u]) /\ go'[t].todo = {}
    BY <1>1, Went
  <1>4. Typed'
    <2>1. \A u \in Task : go'[u].todo \subseteq Rows
      BY <1>1, <1>3 DEF Typed
    <2>2. QED
      BY <1>1, <1>3, <2>1, QuietTyped
  <1>5. UNCHANGED <<dstatus, dseq, rseq, rstatus>>
    BY DEF dbVars, relayVars
  <1>6. pc \in HasStatus => Agrees(t, st)'
    BY <1>2, AgreesStays
  <1>7. WorkInv(t)' /\ ViewInv(t)'
    BY <1>1, <1>5, <1>6, WentWell
  <1>8. QED
    BY <1>2, <1>3, <1>4, <1>7, OneSteps

\* A goroutine starts, late or not, or starts over after an error.
LEMMA StartKeeps ==
  ASSUME GroupInv, NEW t \in Task, Start(t) \/ StartLate(t) \/ Fails(t)
  PROVE  GroupInv' /\ Keeps
  <1>1. /\ Goto(t, "sync", "Pending") /\ UNCHANGED <<dbVars, rseq, relayVars>>
        /\ UNCHANGED faults \/ (faults < MaxFaults /\ faults' = faults + 1)
    BY DEF Start, StartLate, Fails
  <1>2. dstatus[t] # "absent"
    BY DEF Start, StartLate, Fails, Unprocessed, Rows, At, GroupInv, WorkInv
  <1>3. faults' \in 0..MaxFaults
    BY <1>1, FaultTyped DEF GroupInv
  <1>4. "sync" \in Pc \ (HasStatus \cup HasData \cup HasView \cup {"recheck"}) /\ "Pending" \in TaskStatus
    BY DEF Pc, HasStatus, HasData, HasView, TaskStatus
  <1>5. QED
    BY <1>1, <1>2, <1>3, <1>4, QuietGoto

\* All goroutines are gone.
LEMMA CrashKeeps ==
  ASSUME GroupInv, Crash
  PROVE  GroupInv' /\ Keeps
  <1>1. /\ go' = [t \in Task |-> NoWork] /\ UNCHANGED <<dbVars, rseq, relayVars>>
        /\ faults < MaxFaults /\ faults' = faults + 1
    BY DEF Crash
  <1>2. Keeps /\ RoundInv' /\ \A u \in Task : RowInv(u)'
    BY <1>1, Quiet
  <1>3. NoWork \in Work /\ NoWork.todo = {} /\ NoWork.pc = "idle"
    BY DEF NoWork, Work, Views, Pc, TaskStatus
  <1>4. Typed'
    <2>1. go' \in [Task -> Work] /\ \A u \in Task : go'[u].todo \subseteq Rows
      BY <1>1, <1>3
    <2>2. QED
      BY <1>1, <2>1, FaultTyped, QuietTyped DEF GroupInv
  <1>5. \A u \in Task : go'[u].pc = "idle"
    BY <1>1, <1>3
  <1>6. \A u \in Task : WorkInv(u)' /\ ViewInv(u)'
    BY <1>5 DEF WorkInv, ViewInv, HasStatus, HasData, HasView
  <1>7. QED
    BY <1>2, <1>4, <1>6 DEF GroupInv

\* A round without a group has one row, and it stays so.
LEMMA SingleRow ==
  ASSUME GroupInv, NEW t \in Task, AsSingle(t)
  PROVE  Rows \ {t} = {}
  <1>1. At(t, "group") /\ Cardinality(Rows) = 1 /\ dstatus[t] # "absent" /\ RoundInv
    BY DEF AsSingle, At, GroupInv, WorkInv
  <1>2. Rows # Task
    BY <1>1, GroupAssumption
  <1>3. t \in Rows
    BY <1>1 DEF Rows
  <1>4. QED
    BY <1>1, <1>2, <1>3 DEF RoundInv

\* The copies of the rows agree with the rows.
LEMMA FreshView ==
  ASSUME GroupInv
  PROVE  /\ View \in [Rows -> Copy] /\ View \in Views /\ Rows \subseteq Task
         /\ \A u \in Rows : Agrees(u, View[u].st) /\ View[u].seq = dseq[u]
  <1>1. Rows \subseteq Task /\ \A u \in Rows : dstatus[u] # "absent"
    BY DEF Rows
  <1>2. View \in [Rows -> Copy]
    BY <1>1 DEF View, Copy, GroupInv, Typed
  <1>3. View \in Views
    BY <1>1, <1>2 DEF Views
  <1>4. \A u \in Rows : View[u].st = dstatus[u] /\ View[u].seq = dseq[u]
    BY DEF View
  <1>5. \A u \in Rows : Agrees(u, dstatus[u])
    BY <1>1 DEF Agrees, Left, GroupInv, RowInv
  <1>6. QED
    BY <1>1, <1>2, <1>3, <1>4, <1>5

\* A goroutine that reads the group has copies that agree.
LEMMA ReadKeeps ==
  ASSUME GroupInv, NEW t \in Task, ReadGroup(t)
  PROVE  GroupInv' /\ Keeps
  <1>1. UNCHANGED <<dbVars, rseq, faults, relayVars>> /\ go[t].pc \in {"group", "recheck"}
    BY DEF ReadGroup, At
  <1>2. UNCHANGED <<dstatus, dseq, vrf, rseq, rstatus>> /\ faults' \in 0..MaxFaults
    BY <1>1 DEF dbVars, relayVars, GroupInv, Typed
  <1>3. Keeps /\ RoundInv' /\ Rows' = Rows /\ (\A u \in Task : RowInv(u)')
        /\ \A u \in Task : go[u].pc = "create" => dstatus'[u] = "Pending" /\ rstatus'[u] = "NotFound"
    BY <1>1, Quiet
  <1>4. go \in [Task -> Work] /\ go[t] \in Work /\ Typed /\ \A u \in Task : go[u].todo \subseteq Rows
    BY DEF GroupInv, Typed
  <1>5. WorkInv(t) /\ ViewInv(t)
    BY DEF GroupInv
  <1>6. PICK w \in Work :
          /\ go' = [go EXCEPT ![t] = w] /\ w.mem = go[t].mem
          /\ \/ AsSingle(t) /\ w.pc = "recheck" /\ w.todo = go[t].todo
             \/ /\ w.view = View /\ w.todo = Rows
                /\ \/ go[t].pc = "group" /\ w.pc = "groupsync"
                   \/ go[t].pc = "recheck" /\ w.pc = "resync"
    <2>1. CASE AsSingle(t)
      <3> DEFINE w == [go[t] EXCEPT !.pc = "recheck"]
      <3>1. w \in Work /\ w.mem = go[t].mem /\ w.pc = "recheck" /\ w.todo = go[t].todo
        BY <1>4 DEF Work, Pc
      <3>2. go' = [go EXCEPT ![t] = w]
        BY <2>1 DEF ReadGroup
      <3> HIDE DEF w
      <3>3. QED
        BY <2>1, <3>1, <3>2
    <2>2. CASE ~AsSingle(t)
      <3> DEFINE p == IF At(t, "group") THEN "groupsync" ELSE "resync"
                 w == [go[t] EXCEPT !.pc = p, !.view = View, !.todo = Rows]
      <3>1. go' = [go EXCEPT ![t] = w]
        BY <2>2 DEF ReadGroup
      <3>2. p \in Pc /\ View \in Views /\ Rows \in SUBSET Task
        BY FreshView DEF Pc
      <3>3. \/ go[t].pc = "group" /\ p = "groupsync"
            \/ go[t].pc = "recheck" /\ p = "resync"
        BY <1>1 DEF At
      <3> HIDE DEF p
      <3>4. w \in Work /\ w.mem = go[t].mem /\ w.pc = p /\ w.view = View /\ w.todo = Rows
        BY <1>4, <3>2 DEF Work
      <3> HIDE DEF w
      <3>5. QED
        BY <3>1, <3>3, <3>4
    <2>3. QED
      BY <2>1, <2>2
  <1>7. go'[t] = w /\ go' \in [Task -> Work] /\ \A u \in Task \ {t} : go'[u] = go[u]
    BY <1>4, <1>6
  <1>8. Typed'
    <2>1. \A u \in Task : go'[u].todo \subseteq Rows
      BY <1>4, <1>6, <1>7
    <2>2. QED
      BY <1>1, <1>2, <1>4, <1>7, <2>1, QuietTyped
  <1>9. w.mem # "Pending" /\ Agrees(t, w.mem) /\ dseq[t] # 0 /\ dstatus[t] # "absent"
    BY <1>1, <1>5, <1>6 DEF WorkInv, HasStatus, HasData
  <1>10. WorkInv(t)'
    <2>1. Agrees(t, w.mem)'
      BY <1>3, <1>9, AgreesStays
    <2>2. w.pc \in {"recheck", "groupsync", "resync"}
      BY <1>6
    <2>3. QED
      BY <1>2, <1>7, <1>9, <2>1, <2>2 DEF WorkInv, Agrees, Matches, Left, Dead
  <1>11. ViewInv(t)'
    <2>1. CASE AsSingle(t) /\ w.pc = "recheck"
      BY <1>3, <1>7, <2>1, SingleRow DEF ViewInv, HasView
    <2>2. CASE w.view = View /\ w.pc \in {"groupsync", "resync"}
      <3>1. w.pc = "resync" => \A u \in Rows \ {t} : dseq[t] < dseq[u] \/ (Left(u) /\ Dead(u))
        BY <1>5, <1>6 DEF ViewInv
      <3>2. \A u \in Rows : Agrees(u, w.view[u].st) /\ w.view[u].seq = dseq[u]
        BY <2>2, FreshView
      <3>3. t \in Rows /\ DOMAIN w.view = Rows
        BY <1>9, <2>2, FreshView DEF Rows
      <3>4. \A u \in Rows : Agrees(u, w.view[u].st)'
        BY <1>3, <3>2, AgreesStays DEF Rows
      <3>5. QED
        BY <1>2, <1>3, <1>7, <2>2, <3>1, <3>2, <3>3, <3>4 DEF ViewInv, Agrees, Matches, Left, Dead, HasView
    <2>3. QED
      BY <1>6, <2>1, <2>2
  <1>12. QED
    BY <1>3, <1>7, <1>8, <1>10, <1>11, OneSteps

\* The elected comes first among the rows that may still be validated.
LEMMA ElectedIsFirst ==
  ASSUME GroupInv, NEW t \in Task, go[t].pc = "groupsync", Submits(t, go[t].view)
  PROVE  \A u \in Rows \ {t} : dseq[t] < dseq[u] \/ (Left(u) /\ Dead(u))
  <1> DEFINE v == go[t].view
  <1>1. /\ DOMAIN v = Rows /\ v[t].seq = dseq[t]
        /\ \A u \in Rows : Agrees(u, v[u].st) /\ v[u].seq \in {0, dseq[u]}
    BY DEF GroupInv, ViewInv, HasView
  <1>2. /\ \A u \in DOMAIN v : IsReadyForValidation(v[u].st) \/ v[u].st = "EndAborted"
        /\ \A u \in DOMAIN v \ {t} : IsReadyForValidation(v[u].st) => v[t].seq < v[u].seq
    BY DEF Submits, Eligible
  <1> HIDE DEF v
  <1>3. TAKE u \in Rows \ {t}
  <1>4. u \in Task /\ dseq[t] \in Nat /\ dseq[u] \in Nat
    BY DEF Rows, GroupInv, Typed
  <1>5. CASE IsReadyForValidation(v[u].st)
    <2>1. dseq[t] < v[u].seq /\ v[u].seq \in {0, dseq[u]}
      BY <1>1, <1>2, <1>5
    <2>2. QED
      BY <1>4, <2>1
  <1>6. CASE v[u].st = "EndAborted"
    BY <1>1, <1>6 DEF Agrees, Matches
  <1>7. QED
    BY <1>1, <1>2, <1>5, <1>6

\* A goroutine decides who submits.
LEMMA DecideKeeps ==
  ASSUME GroupInv, NEW t \in Task, DecideSubmitter(t)
  PROVE  GroupInv' /\ Keeps
  <1>1. UNCHANGED <<dbVars, rseq, faults, relayVars>> /\ go[t].pc = "groupsync"
    BY DEF DecideSubmitter, At
  <1>2. faults' \in 0..MaxFaults /\ Typed /\ go[t].mem \in TaskStatus
    BY <1>1 DEF GroupInv, Typed, Work
  <1>3. /\ dstatus[t] # "absent" /\ dseq[t] # 0
        /\ go[t].mem # "Pending" /\ Agrees(t, go[t].mem)
    BY <1>1 DEF GroupInv, WorkInv, HasStatus, HasData
  <1>4. PICK m \in TaskStatus : m = go[t].mem
    BY <1>2
  <1>5. CASE Goto(t, "await", m) \/ Goto(t, "group", m)
    <2>1. PICK p \in {"await", "group"} : Goto(t, p, m)
      BY <1>5
    <2>2. p \in Pc /\ p \notin HasView \cup {"recheck", "idle", "create", "created", "data", "download"}
      BY DEF Pc, HasView
    <2>3. QED
      BY <1>1, <1>2, <1>3, <1>4, <2>1, <2>2, QuietGoto
  <1>6. CASE Goto(t, "recheck", m) /\ Submits(t, go[t].view)
    <2>1. Keeps /\ RoundInv' /\ Rows' = Rows /\ (\A u \in Task : RowInv(u)')
          /\ \A u \in Task : go[u].pc = "create" => dstatus'[u] = "Pending" /\ rstatus'[u] = "NotFound"
      BY <1>1, Quiet
    <2>2. /\ go' \in [Task -> Work] /\ \A u \in Task \ {t} : go'[u] = go[u]
          /\ go'[t].pc = "recheck" /\ go'[t].mem = m /\ go'[t].todo = {}
      BY <1>2, <1>6, Went DEF Pc
    <2>3. Typed'
      <3>1. \A u \in Task : go'[u].todo \subseteq Rows
        BY <1>2, <2>2 DEF Typed
      <3>2. QED
        BY <1>1, <1>2, <2>2, <3>1, QuietTyped
    <2>4. UNCHANGED <<dstatus, dseq, rseq, rstatus>>
      BY <1>1 DEF dbVars, relayVars
    <2>5. WorkInv(t)'
      <3>1. Agrees(t, m)'
        BY <1>3, <1>4, <2>1, AgreesStays
      <3>2. QED
        BY <1>3, <1>4, <2>2, <2>4, <3>1 DEF WorkInv, Agrees, Matches, Left, Dead
    <2>6. ViewInv(t)'
      BY <1>1, <1>6, <2>1, <2>2, <2>4, ElectedIsFirst DEF ViewInv, Left, Dead, HasView
    <2>7. QED
      BY <2>1, <2>2, <2>3, <2>5, <2>6, OneSteps
  <1>7. QED
    BY <1>4, <1>5, <1>6 DEF DecideSubmitter

\* It decides again, on fresh copies.
LEMMA AgainKeeps ==
  ASSUME GroupInv, NEW t \in Task, DecideAgain(t)
  PROVE  GroupInv' /\ Keeps
  <1>1. UNCHANGED <<dbVars, rseq, faults, relayVars>> /\ go[t].pc = "resync"
    BY DEF DecideAgain, At
  <1>2. faults' \in 0..MaxFaults /\ Typed /\ go[t] \in Work /\ go \in [Task -> Work]
    BY <1>1 DEF GroupInv, Typed
  <1>3. /\ dstatus[t] # "absent" /\ dseq[t] # 0
        /\ go[t].mem # "Pending" /\ Agrees(t, go[t].mem) /\ go[t].mem \in TaskStatus
    BY <1>1, <1>2 DEF GroupInv, WorkInv, HasStatus, HasData, Work
  <1>4. PICK m \in TaskStatus : m = go[t].mem
    BY <1>3
  <1>5. CASE Goto(t, "await", m)
    <2>1. "await" \in Pc /\ "await" \notin HasView
      BY DEF Pc, HasView
    <2>2. QED
      BY <1>1, <1>2, <1>3, <1>4, <1>5, <2>1, QuietGoto
  <1>6. CASE go' = [go EXCEPT ![t].pc = "submit"]
    <2>1. Keeps /\ RoundInv' /\ Rows' = Rows /\ (\A u \in Task : RowInv(u)')
          /\ \A u \in Task : go[u].pc = "create" => dstatus'[u] = "Pending" /\ rstatus'[u] = "NotFound"
      BY <1>1, Quiet
    <2>2. PICK w \in Work : /\ w = [go[t] EXCEPT !.pc = "submit"] /\ w.pc = "submit"
                            /\ w.mem = m /\ w.view = go[t].view /\ w.todo = go[t].todo
      <3> DEFINE w == [go[t] EXCEPT !.pc = "submit"]
      <3>1. w \in Work /\ w.pc = "submit" /\ w.mem = m /\ w.view = go[t].view /\ w.todo = go[t].todo
        BY <1>2, <1>4 DEF Work, Pc
      <3> HIDE DEF w
      <3>2. QED
        BY <3>1 DEF w
    <2>3. go'[t] = w /\ go' \in [Task -> Work] /\ \A u \in Task \ {t} : go'[u] = go[u]
      BY <1>2, <1>6, <2>2
    <2>4. Typed'
      <3>1. \A u \in Task : go'[u].todo \subseteq Rows
        BY <1>2, <2>2, <2>3 DEF Typed
      <3>2. QED
        BY <1>1, <1>2, <2>3, <3>1, QuietTyped
    <2>5. UNCHANGED <<dstatus, dseq, rseq, rstatus>>
      BY <1>1 DEF dbVars, relayVars
    <2>6. WorkInv(t)'
      <3>1. Agrees(t, m)'
        BY <1>3, <1>4, <2>1, AgreesStays
      <3>2. QED
        BY <1>3, <1>4, <2>2, <2>3, <2>5, <3>1 DEF WorkInv, Agrees, Matches, Left, Dead
    <2>7. ViewInv(t)'
      <3>1. DOMAIN w.view = Rows /\ \A u \in Rows \ {t} : dseq[t] < dseq[u] \/ (Left(u) /\ Dead(u))
        BY <1>1, <2>2 DEF GroupInv, ViewInv, HasView
      <3>2. QED
        BY <2>1, <2>2, <2>3, <2>5, <3>1 DEF ViewInv, Left, Dead, HasView
    <2>8. QED
      BY <2>1, <2>3, <2>4, <2>6, <2>7, OneSteps
  <1>7. QED
    BY <1>4, <1>5, <1>6 DEF DecideAgain

-----------------------------------------------------------------------------
\* Relay.

\* A step that no goroutine takes, put together.
LEMMA NoneSteps ==
  ASSUME GroupInv, Typed', Keeps, RoundInv', \A u \in Task : RowInv(u)', go' = go,
         \A u \in Task : go[u].pc = "create" => dstatus'[u] = "Pending" /\ rstatus'[u] = "NotFound"
  PROVE  GroupInv'
  <1>1. ASSUME NEW u \in Task PROVE WorkInv(u)' /\ ViewInv(u)'
    BY OthersStay
  <1>2. QED
    BY <1>1 DEF GroupInv

\* Tasks that Relay moves on, ends or loses, but does not create.
LEMMA RelayGoesOn ==
  ASSUME GroupInv, UNCHANGED <<dbVars, rseq>>,
         \A u \in Task :
           \/ rstatus'[u] = rstatus[u]
           \/ /\ rstatus[u] \notin ChainTaskTerminal \cup {"NotFound"}
              /\ rstatus'[u] \in AfterValidation => dseq[u] # 0
              /\ vrf = "group" => rstatus'[u] # "Validated"
  PROVE  /\ Keeps /\ RoundInv' /\ Rows' = Rows /\ \A u \in Task : RowInv(u)'
         /\ \A u \in Task : go[u].pc = "create" => dstatus'[u] = "Pending" /\ rstatus'[u] = "NotFound"
  <1>1. UNCHANGED <<dstatus, dreason, dseq, vrf, rseq>>
    BY DEF dbVars
  <1>2. \A u \in Task : (Dead(u) => Dead(u)') /\ (rstatus[u] \in ChainTaskTerminal => rstatus'[u] = rstatus[u])
    BY DEF Dead, ChainTaskTerminal
  <1>3. Keeps
    BY <1>1, <1>2 DEF Keeps, Left
  <1>4. Rows' = Rows
    BY <1>1 DEF Rows
  <1>5. RoundInv'
    BY <1>1, <1>4 DEF GroupInv, RoundInv
  <1>6. ASSUME NEW u \in Task PROVE RowInv(u)'
    <2>1. RowInv(u)
      BY DEF GroupInv
    <2>2. Matches(u, dstatus[u])'
      BY <1>1, <1>2, <2>1 DEF RowInv, Matches, ChainTaskTerminal
    <2>3. QED
      BY <1>1, <2>1, <2>2 DEF RowInv, Left
  <1>7. \A u \in Task : go[u].pc = "create" => dstatus'[u] = "Pending" /\ rstatus'[u] = "NotFound"
    BY <1>1 DEF GroupInv, WorkInv
  <1>8. QED
    BY <1>3, <1>4, <1>5, <1>6, <1>7

\* The bridge's variables keep their types when only Relay moves.
LEMMA RelayTyped ==
  ASSUME Typed, UNCHANGED <<dbVars, rseq>>, RelayTypeOK', go' \in [Task -> Work],
         \A u \in Task : go'[u].todo \subseteq Rows, faults' \in 0..MaxFaults
  PROVE  Typed'
  <1>1. UNCHANGED <<dstatus, dreason, dseq, vrf, rseq>>
    BY DEF dbVars
  <1>2. Rows' = Rows
    BY <1>1 DEF Rows
  <1>3. QED
    BY <1>1, <1>2 DEF Typed

\* Relay moves a task on, or loses it.
LEMMA RelayKeeps ==
  ASSUME GroupInv, NEW t \in Task, RelayMoves(t) \/ RelayLoses(t)
  PROVE  GroupInv' /\ Keeps
  <1>1. UNCHANGED <<dbVars, rseq, go>> /\ Typed /\ RelayTypeOK
    BY DEF RelayMoves, RelayLoses, GroupInv, Typed
  <1>2. faults' \in 0..MaxFaults
    BY <1>1, GroupAssumption DEF RelayMoves, RelayLoses, Typed
  <1>3. PICK c \in ChainStatus :
          /\ rstatus' = [rstatus EXCEPT ![t] = c]
          /\ rstatus[t] \notin ChainTaskTerminal \cup {"NotFound"}
          /\ c # "Validated" /\ (c \in AfterValidation => rstatus[t] \in AfterValidation)
    <2>1. CASE RelayMoves(t)
      <3>1. PICK c \in Onward(rstatus[t]) : rstatus' = [rstatus EXCEPT ![t] = c]
        BY <2>1 DEF RelayMoves, RelayProgress
      <3>2. /\ c \in ChainStatus /\ rstatus[t] \notin ChainTaskTerminal \cup {"NotFound"}
            /\ c # "Validated" /\ (c \in AfterValidation => rstatus[t] \in AfterValidation)
        BY <3>1 DEF Onward, ChainStatus, ChainTaskTerminal, AfterValidation
      <3>3. QED
        BY <3>1, <3>2
    <2>2. CASE RelayLoses(t)
      BY <2>2 DEF RelayLoses, RelayForget, ChainStatus, AfterValidation
    <2>3. QED
      BY <2>1, <2>2
  <1>4. RelayTypeOK'
    <2>1. rreason' \in [Task -> AbortReason]
      BY <1>1 DEF RelayMoves, RelayLoses, RelayProgress, RelayForget, RelayTypeOK, AbortReason
    <2>2. rfiles' \in [Task -> ExecFiles \cup {NoFiles}]
      BY <1>1 DEF RelayMoves, RelayLoses, RelayProgress, RelayForget, RelayTypeOK
    <2>3. rstatus' \in [Task -> ChainStatus]
      BY <1>1, <1>3 DEF RelayTypeOK
    <2>4. QED
      BY <2>1, <2>2, <2>3 DEF RelayTypeOK
  <1>5. rstatus'[t] = c /\ \A u \in Task \ {t} : rstatus'[u] = rstatus[u]
    BY <1>1, <1>3 DEF RelayTypeOK
  <1>6. rstatus[t] \in AfterValidation => dseq[t] # 0
    BY DEF GroupInv, RowInv
  <1>7. Keeps /\ RoundInv' /\ (\A u \in Task : RowInv(u)')
        /\ \A u \in Task : go[u].pc = "create" => dstatus'[u] = "Pending" /\ rstatus'[u] = "NotFound"
    <2>1. \A u \in Task :
            \/ rstatus'[u] = rstatus[u]
            \/ /\ rstatus[u] \notin ChainTaskTerminal \cup {"NotFound"}
               /\ rstatus'[u] \in AfterValidation => dseq[u] # 0
               /\ vrf = "group" => rstatus'[u] # "Validated"
      BY <1>3, <1>5, <1>6
    <2>2. QED
      BY <1>1, <2>1, RelayGoesOn
  <1>8. Typed'
    BY <1>1, <1>2, <1>4, RelayTyped DEF Typed
  <1>9. QED
    BY <1>1, <1>7, <1>8, NoneSteps

\* A finished goroutine cancels the siblings that are still queued.
LEMMA FinishKeeps ==
  ASSUME GroupInv, NEW t \in Task, Finish(t)
  PROVE  GroupInv' /\ Keeps
  <1>1. UNCHANGED <<dbVars, rseq, rfiles>> /\ go' = [go EXCEPT ![t] = NoWork] /\ Typed /\ RelayTypeOK
    BY DEF Finish, GroupInv, Typed
  <1>2. PICK S \in SUBSET {u \in Siblings(t) : rstatus[u] = "Queued"} :
          /\ UNCHANGED faults \/ (faults < MaxFaults /\ faults' = faults + 1)
          /\ rstatus' = [u \in Task |-> IF u \in S THEN "EndAborted" ELSE rstatus[u]]
          /\ rreason' = [u \in Task |-> IF u \in S THEN "CreatorCancelled" ELSE rreason[u]]
    BY DEF Finish
  <1>3. RelayTypeOK'
    BY <1>1, <1>2 DEF RelayTypeOK, ChainStatus, AbortReason
  <1>4. \A u \in Task : rstatus'[u] = rstatus[u] \/ (rstatus[u] = "Queued" /\ rstatus'[u] = "EndAborted")
    BY <1>2
  <1>5. NoWork \in Work /\ NoWork.todo = {} /\ NoWork.pc = "idle"
    BY DEF NoWork, Work, Views, Pc, TaskStatus
  <1>6. go' \in [Task -> Work] /\ go'[t].todo = {} /\ go'[t].pc = "idle"
        /\ \A u \in Task \ {t} : go'[u] = go[u]
    BY <1>1, <1>5 DEF Typed
  <1>7. Typed'
    <2>1. \A u \in Task : go'[u].todo \subseteq Rows
      BY <1>1, <1>6 DEF Typed
    <2>2. QED
      BY <1>1, <1>2, <1>3, <1>6, <2>1, FaultTyped, RelayTyped
  <1>8. Keeps /\ RoundInv' /\ (\A u \in Task : RowInv(u)')
        /\ \A u \in Task : go[u].pc = "create" => dstatus'[u] = "Pending" /\ rstatus'[u] = "NotFound"
    <2>1. \A u \in Task :
            \/ rstatus'[u] = rstatus[u]
            \/ /\ rstatus[u] \notin ChainTaskTerminal \cup {"NotFound"}
               /\ rstatus'[u] \in AfterValidation => dseq[u] # 0
               /\ vrf = "group" => rstatus'[u] # "Validated"
      BY <1>4 DEF ChainTaskTerminal, AfterValidation
    <2>2. QED
      BY <1>1, <2>1, RelayGoesOn
  <1>9. WorkInv(t)' /\ ViewInv(t)'
    BY <1>6 DEF WorkInv, ViewInv, HasStatus, HasData, HasView
  <1>10. QED
    BY <1>6, <1>7, <1>8, <1>9, OneSteps

\* A validation is of all rows of the round, and every row that is ready has its data.
LEMMA SubmitKeeps ==
  ASSUME GroupInv, NEW t \in Task, Submit(t)
  PROVE  GroupInv' /\ Keeps
  <1>1. UNCHANGED <<dbVars, rseq>> /\ go[t].pc = "submit" /\ Typed /\ RelayTypeOK
    BY DEF Submit, At, GroupInv, Typed
  <1>2. /\ DOMAIN go[t].view = Rows /\ dseq[t] # 0 /\ dstatus[t] # "absent"
        /\ \A u \in Rows \ {t} : dseq[t] < dseq[u] \/ Dead(u)
        /\ go[t].mem # "Pending" /\ Agrees(t, go[t].mem) /\ go[t].mem \in TaskStatus
    BY <1>1 DEF GroupInv, WorkInv, ViewInv, HasStatus, HasData, HasView, Typed, Work
  <1>3. UNCHANGED <<dstatus, dreason, dseq, vrf, rseq>>
    BY <1>1 DEF dbVars
  <1>4. PICK m \in TaskStatus : m = go[t].mem
    BY <1>2
  <1>5. Goto(t, "await", m) \/ Goto(t, "sync", "Pending")
    BY <1>4 DEF Submit, Answered
  <1>6. faults' \in 0..MaxFaults
    <2>1. UNCHANGED faults \/ (faults < MaxFaults /\ faults' = faults + 1)
      BY DEF Submit, Answered
    <2>2. QED
      BY <1>1, <2>1, FaultTyped
  <1>7. UNCHANGED relayVars \/ ValidateUnit(Rows)
    BY <1>2 DEF Submit, RelayValidate
  <1>8. \A u \in Task : RelayReady(u) /\ u \in Rows => dseq[u] # 0
    <2>1. \A u \in Task : dseq[u] \in Nat
      BY <1>1 DEF Typed
    <2>2. QED
      BY <1>2, <2>1 DEF RelayReady, Dead
  <1>9. /\ RelayTypeOK'
        /\ \A u \in Task :
            \/ rstatus'[u] = rstatus[u]
            \/ /\ rstatus[u] \notin ChainTaskTerminal \cup {"NotFound"}
               /\ rstatus'[u] \in AfterValidation => dseq[u] # 0
               /\ vrf = "group" => rstatus'[u] # "Validated"
    <2>1. CASE UNCHANGED relayVars
      BY <1>1, <2>1 DEF relayVars, RelayTypeOK
    <2>2. CASE ValidateUnit(Rows)
      <3> DEFINE ready == {u \in Rows : RelayReady(u)}
                 won == IF Cardinality(Rows) = 1 THEN "Validated" ELSE "GroupValidated"
      <3>1. PICK winners \in SUBSET ready, lost \in {"EndGroupRefund", "EndInvalidated", "EndAborted"} :
              /\ rstatus' = [u \in Task |-> IF u \in winners THEN won
                                            ELSE IF u \in ready THEN lost ELSE rstatus[u]]
              /\ rreason' = [u \in Task |-> IF u \in ready \ winners /\ lost = "EndAborted"
                                            THEN "Other" ELSE rreason[u]]
              /\ UNCHANGED rfiles
        BY <2>2 DEF ValidateUnit
      <3>2. vrf = "group" => won # "Validated"
        BY GroupAssumption DEF GroupInv, RoundInv
      <3>3. won \in ChainStatus /\ lost \in ChainStatus /\ lost # "Validated"
        BY <3>1 DEF ChainStatus
      <3>4. \A u \in ready : dseq[u] # 0 /\ rstatus[u] \notin ChainTaskTerminal \cup {"NotFound"}
        BY <1>8 DEF Rows, RelayReady, ChainTaskTerminal
      <3> HIDE DEF ready, won
      <3>5. RelayTypeOK'
        BY <1>1, <3>1, <3>3 DEF RelayTypeOK, AbortReason
      <3>6. \A u \in Task : rstatus'[u] = rstatus[u] \/ (u \in ready /\ rstatus'[u] \in {won, lost})
        BY <3>1
      <3>7. QED
        BY <3>2, <3>3, <3>4, <3>5, <3>6
    <2>3. QED
      BY <1>7, <2>1, <2>2
  <1>10. Keeps /\ RoundInv' /\ (\A u \in Task : RowInv(u)')
         /\ \A u \in Task : go[u].pc = "create" => dstatus'[u] = "Pending" /\ rstatus'[u] = "NotFound"
    BY <1>1, <1>9, RelayGoesOn
  <1>11. /\ go' \in [Task -> Work] /\ \A u \in Task \ {t} : go'[u] = go[u]
         /\ go'[t].todo = {}
    BY <1>1, <1>5, Went DEF Pc, TaskStatus
  <1>12. Typed'
    <2>1. \A u \in Task : go'[u].todo \subseteq Rows
      BY <1>1, <1>11 DEF Typed
    <2>2. QED
      BY <1>1, <1>6, <1>9, <1>11, <2>1, RelayTyped
  <1>13. WorkInv(t)' /\ ViewInv(t)'
    <2>1. CASE Goto(t, "await", m)
      <3>1. Agrees(t, m)'
        BY <1>2, <1>4, <1>10, AgreesStays
      <3>2. "await" \in Pc /\ "await" \notin HasView
        BY DEF Pc, HasView
      <3>3. QED
        BY <1>1, <1>2, <1>3, <1>4, <2>1, <3>1, <3>2, WentWell
    <2>2. CASE Goto(t, "sync", "Pending")
      <3>1. "sync" \in Pc /\ "Pending" \in TaskStatus /\ "sync" \notin HasView \cup HasStatus \cup HasData
        BY DEF Pc, HasView, HasStatus, HasData, TaskStatus
      <3>2. QED
        BY <1>1, <1>2, <1>3, <2>2, <3>1, WentWell
    <2>3. QED
      BY <1>5, <2>1, <2>2
  <1>14. QED
    BY <1>10, <1>11, <1>12, <1>13, OneSteps

-----------------------------------------------------------------------------
\* The rows.

\* One row is written, with a status that matches Relay.
LEMMA RowWritten ==
  ASSUME GroupInv, NEW u \in Task, NEW s \in TaskStatus, dstatus[u] # "absent",
         UNCHANGED <<dseq, vrf, rseq, rstatus>>,
         \/ dstatus' = dstatus
         \/ dstatus' = [dstatus EXCEPT ![u] = s] /\ s # "Pending" /\ Matches(u, s)
  PROVE  /\ Keeps /\ RoundInv' /\ Rows' = Rows /\ \A w \in Task : RowInv(w)'
         /\ dstatus' \in [Task -> TaskStatus \cup {"absent"}]
  <1>1. dstatus \in [Task -> TaskStatus \cup {"absent"}] /\ "absent" \notin TaskStatus
    BY DEF GroupInv, Typed, TaskStatus
  <1>2. /\ dstatus' \in [Task -> TaskStatus \cup {"absent"}]
        /\ \A w \in Task \ {u} : dstatus'[w] = dstatus[w]
        /\ dstatus'[u] = dstatus[u] \/ (dstatus'[u] = s /\ s # "Pending" /\ Matches(u, s))
    BY <1>1
  <1>3. \A w \in Task : (dstatus[w] # "absent" => dstatus'[w] # "absent") /\ (Left(w) => Left(w)')
    BY <1>1, <1>2 DEF Left
  <1>4. Keeps
    BY <1>3 DEF Keeps, Dead
  <1>5. Rows' = Rows
    BY <1>1, <1>2 DEF Rows
  <1>6. RoundInv'
    BY <1>5 DEF GroupInv, RoundInv
  <1>7. ASSUME NEW w \in Task PROVE RowInv(w)'
    <2>1. RowInv(w) /\ Matches(w, dstatus[w])
      BY DEF GroupInv, RowInv
    <2>2. Matches(w, dstatus[w])'
      <3>1. CASE dstatus'[w] = dstatus[w]
        BY <2>1, <3>1 DEF Matches, Dead
      <3>2. CASE dstatus'[w] # dstatus[w]
        BY <1>2, <3>2 DEF Matches, Dead
      <3>3. QED
        BY <3>1, <3>2
    <2>3. QED
      BY <1>3, <2>1, <2>2 DEF RowInv
  <1>8. QED
    BY <1>2, <1>4, <1>5, <1>6, <1>7

\* A synced copy is written to its row.
LEMMA SyncWritten ==
  ASSUME GroupInv, NEW u \in Task, NEW st \in TaskStatus, Agrees(u, st), dstatus[u] # "absent",
         WriteSynced(u, st, SyncStatus(st, rstatus[u])), UNCHANGED <<dseq, vrf, rseq, relayVars>>
  PROVE  /\ Keeps /\ RoundInv' /\ Rows' = Rows /\ \A w \in Task : RowInv(w)'
         /\ dstatus' \in [Task -> TaskStatus \cup {"absent"}] /\ dreason' \in [Task -> AbortReason]
         /\ \A w \in Task : dstatus[w] = "Pending" /\ rstatus[w] = "NotFound" => dstatus'[w] = "Pending"
         /\ \E s \in TaskStatus :
              /\ s = SyncStatus(st, rstatus[u]) /\ Agrees(u, s)'
              /\ s = "Pending" => st = "Pending" /\ rstatus[u] = "NotFound"
              /\ rstatus[u] = "NotFound" => s \in {"Pending", "EndAborted"}
  <1>1. Typed /\ UNCHANGED <<dseq, vrf, rseq, rstatus, rreason, rfiles>>
    BY DEF GroupInv, relayVars
  <1>2. PICK s \in TaskStatus :
          /\ s = SyncStatus(st, rstatus[u]) /\ Matches(u, s)
          /\ s = "Pending" => st = "Pending" /\ rstatus[u] = "NotFound"
          /\ st = "Pending" /\ rstatus[u] = "NotFound" => s = "Pending"
          /\ rstatus[u] = "NotFound" => s \in {"Pending", "EndAborted"}
    BY <1>1, SyncMatches DEF Agrees
  <1>3. /\ dstatus' = IF st = s /\ (rstatus[u] # "NotFound" \/ s = "Pending") THEN dstatus
                      ELSE [dstatus EXCEPT ![u] = s]
        /\ dreason' = IF rreason[u] = "None" THEN dreason ELSE [dreason EXCEPT ![u] = rreason[u]]
    BY <1>2 DEF WriteSynced
  <1>4. \/ dstatus' = dstatus /\ s = st
        \/ dstatus' = [dstatus EXCEPT ![u] = s] /\ s # "Pending"
    BY <1>2, <1>3
  <1>5. /\ Keeps /\ RoundInv' /\ Rows' = Rows /\ (\A w \in Task : RowInv(w)')
        /\ dstatus' \in [Task -> TaskStatus \cup {"absent"}]
    <2>1. \/ dstatus' = dstatus
          \/ dstatus' = [dstatus EXCEPT ![u] = s] /\ s # "Pending" /\ Matches(u, s)
      BY <1>2, <1>4
    <2>2. QED
      BY <1>1, <2>1, RowWritten
  <1>6. dreason' \in [Task -> AbortReason]
    BY <1>1, <1>3 DEF Typed, RelayTypeOK
  <1>7. dstatus \in [Task -> TaskStatus \cup {"absent"}]
    BY <1>1 DEF Typed
  <1>8. ASSUME NEW w \in Task, dstatus[w] = "Pending", rstatus[w] = "NotFound"
        PROVE  dstatus'[w] = "Pending"
    <2>1. CASE w # u
      BY <1>4, <1>7, <1>8, <2>1
    <2>2. CASE w = u
      <3>1. st = "Pending"
        BY <1>8, <2>2 DEF Agrees, Left
      <3>2. s = "Pending"
        BY <1>2, <1>8, <2>2, <3>1
      <3>3. QED
        BY <1>4, <1>8, <3>2
    <2>3. QED
      BY <2>1, <2>2
  <1>9. Agrees(u, s)'
    <2>1. Matches(u, s)'
      BY <1>1, <1>2 DEF Matches, Dead
    <2>2. s # "Pending" => Left(u)'
      <3>1. CASE dstatus' = [dstatus EXCEPT ![u] = s] /\ s # "Pending"
        BY <1>7, <3>1 DEF Left, TaskStatus
      <3>2. CASE dstatus' = dstatus /\ s = st
        BY <3>2 DEF Agrees, Left
      <3>3. QED
        BY <1>4, <3>1, <3>2
    <2>3. QED
      BY <2>1, <2>2 DEF Agrees
  <1>10. QED
    BY <1>2, <1>5, <1>6, <1>8, <1>9

\* The types after a step that writes rows.
LEMMA RowsTyped ==
  ASSUME Typed, UNCHANGED <<dseq, vrf, rseq, relayVars>>, Rows' = Rows,
         dstatus' \in [Task -> TaskStatus \cup {"absent"}], dreason' \in [Task -> AbortReason],
         go' \in [Task -> Work], \A u \in Task : go'[u].todo \subseteq Rows,
         faults' \in 0..MaxFaults
  PROVE  Typed'
  <1>1. RelayTypeOK'
    BY DEF Typed, RelayTypeOK, relayVars
  <1>2. QED
    BY <1>1 DEF Typed

\* A goroutine reads its row and syncs it, or polls Relay for it.
LEMMA OwnSyncKeeps ==
  ASSUME GroupInv, NEW t \in Task, SyncFirst(t) \/ Poll(t)
  PROVE  GroupInv' /\ Keeps
  <1>1. /\ UNCHANGED <<dseq, vrf, rseq, faults, relayVars>> /\ Typed /\ dstatus[t] # "absent"
        /\ faults' \in 0..MaxFaults /\ rstatus' = rstatus
    BY DEF SyncFirst, Poll, At, GroupInv, Typed, WorkInv, relayVars
  <1>2. PICK st \in TaskStatus :
          /\ Agrees(t, st) /\ WriteSynced(t, st, SyncStatus(st, rstatus[t]))
          /\ \/ st = dstatus[t] /\ Goto(t, AfterSync(t, SyncStatus(st, rstatus[t])), SyncStatus(st, rstatus[t]))
             \/ /\ st # "Pending" /\ go[t].pc \in {"wait", "await"}
                /\ Goto(t, PollNext(go[t].pc, SyncStatus(st, rstatus[t])), SyncStatus(st, rstatus[t]))
    <2>1. CASE SyncFirst(t)
      <3>1. dstatus[t] \in TaskStatus /\ Agrees(t, dstatus[t])
        BY <1>1 DEF Typed, Agrees, Left, GroupInv, RowInv
      <3>2. QED
        BY <2>1, <3>1 DEF SyncFirst
    <2>2. CASE Poll(t)
      <3>1. go[t].mem \in TaskStatus /\ go[t].mem # "Pending" /\ Agrees(t, go[t].mem)
        BY <2>2 DEF Poll, GroupInv, WorkInv, HasStatus, Typed, Work
      <3>2. QED
        BY <2>2, <3>1 DEF Poll
    <2>3. QED
      BY <2>1, <2>2
  <1>3. /\ Keeps /\ RoundInv' /\ Rows' = Rows /\ (\A w \in Task : RowInv(w)')
        /\ dstatus' \in [Task -> TaskStatus \cup {"absent"}] /\ dreason' \in [Task -> AbortReason]
        /\ \A w \in Task : dstatus[w] = "Pending" /\ rstatus[w] = "NotFound" => dstatus'[w] = "Pending"
    BY <1>1, <1>2, SyncWritten
  <1>4. PICK s \in TaskStatus :
          /\ s = SyncStatus(st, rstatus[t]) /\ Agrees(t, s)'
          /\ s = "Pending" => st = "Pending" /\ rstatus[t] = "NotFound"
          /\ rstatus[t] = "NotFound" => s \in {"Pending", "EndAborted"}
    BY <1>1, <1>2, SyncWritten
  <1>5. RowInv(t) /\ WorkInv(t)
    BY DEF GroupInv
  <1>6. PICK p \in Pc :
          /\ Goto(t, p, s) /\ p \notin HasView \cup {"recheck", "idle", "created"}
          /\ p = "create" => s = "Pending" /\ st = dstatus[t]
          /\ p = "data" => rstatus[t] # "NotFound"
          /\ p # "create" => s # "Pending"
          /\ p = "download" => s = "EndSuccess"
          /\ p \in HasData => dseq[t] # 0
    <2>1. CASE st = dstatus[t] /\ Goto(t, AfterSync(t, s), s)
      <3>1. CASE s \in TerminalStatus
        <4>1. AfterSync(t, s) \in {"download", "finish"} /\ (AfterSync(t, s) = "download" => s = "EndSuccess")
              /\ s # "Pending"
          BY <3>1 DEF AfterSync, End, TerminalStatus, FinishedStatus
        <4>2. QED
          BY <2>1, <4>1 DEF Pc, HasView, HasData
      <3>2. CASE s = "Pending"
        <4>1. AfterSync(t, s) = "create"
          BY <3>2 DEF AfterSync, TerminalStatus, FinishedStatus
        <4>2. QED
          BY <2>1, <3>2, <4>1 DEF Pc, HasView, HasData
      <3>3. CASE s \notin TerminalStatus \cup {"Pending"}
        <4>1. rstatus[t] # "NotFound"
          BY <1>4, <3>3 DEF TerminalStatus, FinishedStatus
        <4>2. CASE NeedsRelayTaskData(t)
          <5>1. AfterSync(t, s) = "data"
            BY <3>3, <4>2 DEF AfterSync
          <5>2. QED
            BY <2>1, <3>3, <4>1, <5>1 DEF Pc, HasView, HasData
        <4>3. CASE ~NeedsRelayTaskData(t)
          <5>1. AfterSync(t, s) \in {"wait", "group", "await"}
            BY <3>3, <4>3 DEF AfterSync, Onwards
          <5>2. QED
            BY <2>1, <3>3, <4>3, <5>1 DEF Pc, HasView, HasData, NeedsRelayTaskData
        <4>4. QED
          BY <4>2, <4>3
      <3>4. QED
        BY <3>1, <3>2, <3>3
    <2>2. CASE /\ st # "Pending" /\ go[t].pc \in {"wait", "await"}
               /\ Goto(t, PollNext(go[t].pc, s), s)
      <3>1. dseq[t] # 0
        BY <1>5, <2>2 DEF WorkInv, HasData
      <3>2. /\ PollNext(go[t].pc, s) \in {"wait", "await", "group", "download", "finish"}
            /\ PollNext(go[t].pc, s) = "download" => s = "EndSuccess"
        BY <2>2 DEF PollNext, End
      <3>3. QED
        BY <1>4, <2>2, <3>1, <3>2 DEF Pc, HasView, HasData
    <2>3. QED
      BY <1>2, <1>4, <2>1, <2>2
  <1>7. go' \in [Task -> Work] /\ (\A u \in Task \ {t} : go'[u] = go[u]) /\ go'[t].todo = {}
    BY <1>1, <1>6, Went
  <1>8. Typed'
    <2>1. \A u \in Task : go'[u].todo \subseteq Rows
      BY <1>1, <1>7 DEF Typed
    <2>2. QED
      BY <1>1, <1>3, <1>7, <2>1, RowsTyped
  <1>9. WorkInv(t)' /\ ViewInv(t)'
    <2>1. dstatus'[t] # "absent"
      BY <1>1, <1>3 DEF Keeps
    <2>2. p = "create" => dstatus'[t] = "Pending" /\ rstatus'[t] = "NotFound"
      BY <1>1, <1>3, <1>4, <1>6
    <2>3. p = "data" => rseq'[t] # 0
      BY <1>1, <1>5, <1>6 DEF RowInv
    <2>4. p \in HasStatus => s # "Pending" /\ Agrees(t, s)'
      BY <1>4, <1>6 DEF HasStatus
    <2>5. QED
      BY <1>1, <1>6, <2>1, <2>2, <2>3, <2>4, WentWell
  <1>10. \A u \in Task : go[u].pc = "create" => dstatus'[u] = "Pending" /\ rstatus'[u] = "NotFound"
    BY <1>1, <1>3 DEF GroupInv, WorkInv
  <1>11. QED
    BY <1>3, <1>7, <1>8, <1>9, <1>10, OneSteps

\* A goroutine writes a status to its own row and goes on, at no change of Relay.
LEMMA OwnRowKeeps ==
  ASSUME GroupInv, NEW t \in Task, NEW pc \in Pc, NEW s \in TaskStatus, Goto(t, pc, s),
         dstatus[t] # "absent", UNCHANGED <<dseq, vrf, rseq, relayVars>>, faults' \in 0..MaxFaults,
         dreason' \in [Task -> AbortReason],
         dstatus' = [dstatus EXCEPT ![t] = s], s # "Pending", Matches(t, s),
         pc \notin HasView \cup {"recheck", "create", "created"},
         pc = "data" => rseq[t] # 0,
         pc = "download" => s = "EndSuccess",
         pc \in HasData => dseq[t] # 0
  PROVE  GroupInv' /\ Keeps
  <1>1. Typed /\ UNCHANGED <<dseq, vrf, rseq, rstatus>>
    BY DEF GroupInv, relayVars
  <1>2. /\ Keeps /\ RoundInv' /\ Rows' = Rows /\ (\A w \in Task : RowInv(w)')
        /\ dstatus' \in [Task -> TaskStatus \cup {"absent"}]
    BY <1>1, RowWritten
  <1>3. go' \in [Task -> Work] /\ (\A u \in Task \ {t} : go'[u] = go[u]) /\ go'[t].todo = {}
    BY <1>1, Went
  <1>4. Typed'
    <2>1. \A u \in Task : go'[u].todo \subseteq Rows
      BY <1>1, <1>3 DEF Typed
    <2>2. QED
      BY <1>1, <1>2, <1>3, <2>1, RowsTyped
  <1>5. dstatus'[t] = s /\ \A u \in Task \ {t} : dstatus'[u] = dstatus[u]
    BY <1>1 DEF Typed
  <1>6. Agrees(t, s)' /\ dstatus'[t] # "absent"
    BY <1>1, <1>5 DEF Agrees, Left, Matches, Dead, TaskStatus
  <1>7. WorkInv(t)' /\ ViewInv(t)'
    BY <1>1, <1>6, WentWell
  <1>8. \A u \in Task \ {t} : go[u].pc = "create" => dstatus'[u] = "Pending" /\ rstatus'[u] = "NotFound"
    BY <1>1, <1>5 DEF GroupInv, WorkInv
  <1>9. QED
    BY <1>2, <1>3, <1>4, <1>7, <1>8, OneSteps

\* The row is marked created, or downloaded.
LEMMA MarkKeeps ==
  ASSUME GroupInv, NEW t \in Task, StoreCreated(t) \/ Download(t)
  PROVE  GroupInv' /\ Keeps
  <1>1. /\ UNCHANGED <<dreason, dseq, vrf, rseq, faults, relayVars>> /\ Typed /\ WorkInv(t)
        /\ go[t].pc \in {"created", "download"}
    BY DEF StoreCreated, Download, At, GroupInv
  <1>2. dstatus[t] # "absent" /\ faults' \in 0..MaxFaults /\ dreason' \in [Task -> AbortReason]
    BY <1>1 DEF WorkInv, Typed
  <1>3. CASE StoreCreated(t)
    <2>1. PICK p \in Pc : /\ Goto(t, p, "Created") /\ p \in {"data", "wait"}
                          /\ p = "wait" => dseq[t] # 0
      <3>1. CASE NeedsRelayTaskData(t)
        BY <1>3, <3>1 DEF StoreCreated, Pc
      <3>2. CASE ~NeedsRelayTaskData(t)
        BY <1>3, <3>2 DEF StoreCreated, Pc, NeedsRelayTaskData
      <3>3. QED
        BY <3>1, <3>2
    <2>2. rseq[t] # 0 /\ dstatus' = [dstatus EXCEPT ![t] = "Created"]
      BY <1>1, <1>3 DEF StoreCreated, At, WorkInv
    <2>3. "Created" \in TaskStatus /\ Matches(t, "Created") /\ p \notin HasView
          /\ (p \in HasData => dseq[t] # 0)
      BY <2>1 DEF TaskStatus, Matches, HasView, HasData
    <2>4. QED
      BY <1>1, <1>2, <2>1, <2>2, <2>3, OwnRowKeeps
  <1>4. CASE Download(t)
    <2>1. Goto(t, "finish", "ResultDownloaded") /\ dstatus' = [dstatus EXCEPT ![t] = "ResultDownloaded"]
      BY <1>4 DEF Download
    <2>2. Matches(t, "EndSuccess")
      BY <1>4 DEF Download, At, GroupInv, WorkInv, HasStatus, Agrees
    <2>3. Matches(t, "ResultDownloaded")
      BY <2>2 DEF Matches
    <2>4. "finish" \in Pc \ (HasView \cup HasData) /\ "ResultDownloaded" \in TaskStatus
      BY DEF Pc, HasView, HasData, TaskStatus
    <2>5. QED
      BY <1>1, <1>2, <2>1, <2>3, <2>4, OwnRowKeeps
  <1>5. QED
    BY <1>3, <1>4

\* A task is created at Relay, or refused.
LEMMA CreateKeeps ==
  ASSUME GroupInv, NEW t \in Task, Create(t)
  PROVE  GroupInv' /\ Keeps
  <1>1. /\ UNCHANGED <<dreason, dseq, vrf>> /\ Typed /\ WorkInv(t)
        /\ go[t].pc = "create" /\ dstatus[t] = "Pending" /\ rstatus[t] = "NotFound"
    BY DEF Create, At, GroupInv, WorkInv
  <1>2. UNCHANGED faults \/ (faults < MaxFaults /\ faults' = faults + 1)
    BY DEF Create, Answered
  <1>3. faults' \in 0..MaxFaults
    BY <1>1, <1>2, FaultTyped
  <1>4. CASE /\ dstatus' = [dstatus EXCEPT ![t] = "EndAborted"] /\ Goto(t, "finish", "EndAborted")
             /\ UNCHANGED <<rseq, relayVars>>
    <2>1. Matches(t, "EndAborted") /\ dstatus[t] # "absent" /\ dreason' \in [Task -> AbortReason]
      BY <1>1 DEF Matches, Dead, Typed
    <2>2. "finish" \in Pc \ (HasView \cup HasData) /\ "EndAborted" \in TaskStatus
      BY DEF Pc, HasView, HasData, TaskStatus
    <2>3. QED
      BY <1>1, <1>3, <1>4, <2>1, <2>2, OwnRowKeeps
  <1>5. CASE /\ RelayCreate(t, "created") /\ Answered(t, "created") /\ UNCHANGED dstatus
             /\ \E n \in 1..MaxSeq : rseq' = [rseq EXCEPT ![t] = n]
    <2>1. /\ rstatus' = [rstatus EXCEPT ![t] = "Queued"] /\ UNCHANGED <<rreason, rfiles>>
          /\ UNCHANGED <<dstatus, dreason, dseq, vrf>>
      BY <1>1, <1>5 DEF RelayCreate
    <2>2. PICK n \in 1..MaxSeq : rseq' = [rseq EXCEPT ![t] = n]
      BY <1>5
    <2>3. MaxSeq \in Nat
      BY GroupAssumption DEF MaxSeq
    <2>4. /\ rseq' \in [Task -> 0..MaxSeq] /\ rseq'[t] # 0
          /\ \A u \in Task \ {t} : rseq'[u] = rseq[u]
      BY <1>1, <2>2, <2>3 DEF Typed
    <2>5. /\ rstatus' \in [Task -> ChainStatus] /\ rstatus'[t] = "Queued"
          /\ \A u \in Task \ {t} : rstatus'[u] = rstatus[u]
      BY <1>1, <2>1 DEF Typed, RelayTypeOK, ChainStatus
    <2>6. Keeps
      BY <1>1, <2>1, <2>4, <2>5 DEF Keeps, Left, Dead
    <2>7. Rows' = Rows
      BY <2>1 DEF Rows
    <2>8. RoundInv'
      BY <2>1, <2>5, <2>7 DEF GroupInv, RoundInv
    <2>9. ASSUME NEW u \in Task PROVE RowInv(u)'
      <3>1. RowInv(u)
        BY DEF GroupInv
      <3>2. CASE u = t
        BY <1>1, <2>1, <2>4, <2>5, <3>1, <3>2 DEF RowInv, Matches, Left, AfterValidation
      <3>3. CASE u # t
        BY <2>1, <2>4, <2>5, <3>1, <3>3 DEF RowInv, Matches, Left, Dead
      <3>4. QED
        BY <3>2, <3>3
    <2>10. PICK m \in TaskStatus : m = go[t].mem
      BY <1>1 DEF Typed, Work
    <2>11. Goto(t, "created", m) \/ Goto(t, "sync", "Pending")
      BY <1>5, <2>10 DEF Answered
    <2>12. go' \in [Task -> Work] /\ (\A u \in Task \ {t} : go'[u] = go[u]) /\ go'[t].todo = {}
      BY <1>1, <2>11, Went DEF Pc, TaskStatus
    <2>13. Typed'
      <3>1. RelayTypeOK'
        BY <1>1, <2>1, <2>5 DEF Typed, RelayTypeOK
      <3>2. \A u \in Task : go'[u].todo \subseteq Rows
        BY <1>1, <2>12 DEF Typed
      <3>3. QED
        BY <1>1, <1>3, <2>1, <2>4, <2>7, <2>12, <3>1, <3>2 DEF Typed
    <2>14. WorkInv(t)' /\ ViewInv(t)'
      <3>1. /\ "created" \in Pc \ (HasView \cup HasStatus \cup HasData)
            /\ "sync" \in Pc \ (HasView \cup HasStatus \cup HasData) /\ "Pending" \in TaskStatus
        BY DEF Pc, HasView, HasStatus, HasData, TaskStatus
      <3>2. dstatus'[t] # "absent"
        BY <1>1, <2>1
      <3>3. CASE Goto(t, "created", m)
        BY <1>1, <2>4, <3>1, <3>2, <3>3, WentWell
      <3>4. CASE Goto(t, "sync", "Pending")
        BY <1>1, <2>4, <3>1, <3>2, <3>4, WentWell
      <3>5. QED
        BY <2>11, <3>3, <3>4
    <2>15. \A u \in Task \ {t} : go[u].pc = "create" => dstatus'[u] = "Pending" /\ rstatus'[u] = "NotFound"
      BY <2>1, <2>5 DEF GroupInv, WorkInv
    <2>16. QED
      BY <2>6, <2>8, <2>9, <2>12, <2>13, <2>14, <2>15, OneSteps
  <1>6. QED
    BY <1>4, <1>5 DEF Create

\* The sequence, the VRF data and the members are stored in one transaction.
LEMMA StoreKeeps ==
  ASSUME GroupInv, NEW t \in Task, StoreRelayData(t)
  PROVE  GroupInv' /\ Keeps
  <1>1. /\ UNCHANGED <<rseq, faults, relayVars>> /\ Typed /\ WorkInv(t) /\ RowInv(t) /\ RoundInv
        /\ go[t].pc = "data"
    BY DEF StoreRelayData, At, GroupInv
  <1>2. UNCHANGED <<rstatus, rreason, rfiles>>
    BY <1>1 DEF relayVars
  <1>3. /\ dstatus[t] # "absent" /\ rseq[t] # 0 /\ go[t].mem # "Pending" /\ Agrees(t, go[t].mem)
        /\ Left(t) /\ go[t].mem \in TaskStatus
    BY <1>1 DEF WorkInv, HasStatus, Agrees, Typed, Work
  <1>4. PICK m \in TaskStatus : m = go[t].mem
    BY <1>3
  <1>5. PICK s \in TaskStatus : s = SyncStatus(m, rstatus[t]) /\ s # "Pending" /\ Matches(t, s)
    BY <1>1, <1>3, <1>4, SyncMatches DEF Agrees
  <1>6. faults' \in 0..MaxFaults /\ dreason' \in [Task -> AbortReason]
    BY <1>1 DEF StoreRelayData, Typed, RelayTypeOK
  <1>7. CASE s \in TerminalStatus
    <2>1. /\ dstatus' = [dstatus EXCEPT ![t] = s] /\ Goto(t, End(s), s) /\ UNCHANGED <<dseq, vrf>>
      BY <1>4, <1>5, <1>7 DEF StoreRelayData
    <2>2. PICK p \in {"download", "finish"} : p = End(s) /\ (p = "download" => s = "EndSuccess")
      BY DEF End
    <2>3. p \in Pc \ (HasView \cup HasData)
      BY DEF Pc, HasView, HasData
    <2>4. QED
      BY <1>1, <1>3, <1>5, <1>6, <2>1, <2>2, <2>3, OwnRowKeeps
  <1>8. CASE s \notin TerminalStatus
    <2>1. /\ dseq' = [dseq EXCEPT ![t] = rseq[t]]
          /\ vrf' \in IF vrf # "none" THEN {vrf} ELSE {"alone"} \cup IF MayNeedGroup THEN {"group"} ELSE {}
          /\ dstatus' = [u \in Task |->
               IF u = t THEN IF s = m THEN dstatus[t] ELSE s
               ELSE IF u \in NewMembers(t) THEN "Pending" ELSE dstatus[u]]
          /\ Goto(t, Onwards(s), s)
      BY <1>4, <1>5, <1>8 DEF StoreRelayData
    <2>2. vrf' \in {"alone", "group"} /\ (vrf # "none" => vrf' = vrf)
      BY <1>1, <2>1 DEF Typed
    <2>3. vrf = "none" => Rows = {First}
      BY <1>1 DEF RoundInv
    <2>4. \A u \in Task : u \in NewMembers(t) => dstatus[u] = "absent" /\ vrf = "none" /\ vrf' = "group"
      BY <1>3, <2>3 DEF NewMembers, Rows
    <2>5. /\ dstatus'[t] \in {dstatus[t], s}
          /\ \A u \in Task \ {t} : dstatus'[u] = dstatus[u] \/ (dstatus[u] = "absent" /\ dstatus'[u] = "Pending")
      BY <2>1, <2>4
    <2>6. dstatus' \in [Task -> TaskStatus \cup {"absent"}]
      <3>1. "Pending" \in TaskStatus
        BY DEF TaskStatus
      <3>2. QED
        BY <1>1, <2>1, <3>1 DEF Typed
    <2>7. /\ dseq' \in [Task -> 0..MaxSeq] /\ dseq'[t] = rseq[t]
          /\ \A u \in Task \ {t} : dseq'[u] = dseq[u]
      BY <1>1, <2>1 DEF Typed
    <2>8. Left(t)' /\ \A u \in Task : Left(u) => Left(u)'
      BY <1>3, <1>5, <2>5 DEF Left, TaskStatus
    <2>9. Keeps
      <3>1. \A u \in Task : dstatus[u] # "absent" => dstatus'[u] # "absent"
        BY <1>5, <2>5 DEF TaskStatus
      <3>2. \A u \in Task : dseq[u] # 0 => dseq'[u] = dseq[u]
        BY <1>1, <2>7 DEF RowInv
      <3>3. QED
        BY <1>1, <1>2, <2>2, <2>8, <3>1, <3>2 DEF Keeps, Dead
    <2>10. Rows' = IF vrf' = "group" THEN Task ELSE {First}
      <3>1. CASE vrf = "none" /\ vrf' = "group"
        <4>1. NewMembers(t) = Task \ {t}
          BY <3>1 DEF NewMembers
        <4>2. \A u \in Task : dstatus'[u] # "absent"
          BY <2>1, <2>8, <4>1 DEF Left
        <4>3. QED
          BY <3>1, <4>2 DEF Rows
      <3>2. CASE ~(vrf = "none" /\ vrf' = "group")
        <4>1. \A u \in Task \ {t} : dstatus'[u] = dstatus[u]
          BY <2>4, <2>5, <2>1, <3>2
        <4>2. dstatus[t] # "absent" /\ dstatus'[t] # "absent"
          BY <1>3, <2>8 DEF Left
        <4>3. Rows' = Rows
          BY <4>1, <4>2 DEF Rows
        <4>4. QED
          BY <1>1, <2>2, <3>2, <4>3 DEF RoundInv
      <3>3. QED
        BY <3>1, <3>2
    <2>11. RoundInv'
      <3>1. ASSUME vrf' = "group", NEW u \in Task, rstatus[u] = "Validated" PROVE FALSE
        <4>1. vrf # "none"
          BY <3>1 DEF GroupInv, RowInv, AfterValidation
        <4>2. QED
          BY <1>1, <2>2, <3>1, <4>1 DEF RoundInv
      <3>2. QED
        BY <1>2, <2>10, <3>1 DEF RoundInv
    <2>12. ASSUME NEW u \in Task PROVE RowInv(u)'
      <3>1. RowInv(u)
        BY DEF GroupInv
      <3>2. Matches(u, dstatus[u])'
        <4>1. CASE u = t
          BY <1>2, <1>5, <2>5, <3>1, <4>1 DEF RowInv, Matches, Dead
        <4>2. CASE u # t
          BY <1>2, <2>5, <3>1, <4>2 DEF RowInv, Matches, Dead
        <4>3. QED
          BY <4>1, <4>2
      <3>3. CASE u = t
        BY <1>1, <1>2, <1>3, <2>2, <2>7, <2>8, <3>1, <3>2, <3>3 DEF RowInv
      <3>4. CASE u # t
        BY <1>1, <1>2, <2>2, <2>7, <2>8, <3>1, <3>2, <3>4 DEF RowInv
      <3>5. QED
        BY <3>3, <3>4
    <2>13. PICK p \in {"wait", "group", "await"} : p = Onwards(s)
      BY DEF Onwards
    <2>14. p \in Pc /\ p \notin HasView
      BY DEF Pc, HasView
    <2>15. go' \in [Task -> Work] /\ (\A u \in Task \ {t} : go'[u] = go[u]) /\ go'[t].todo = {}
      BY <1>1, <2>1, <2>13, <2>14, Went
    <2>16. Typed'
      <3>1. Rows \subseteq Rows'
        BY <2>9 DEF Keeps, Rows
      <3>2. \A u \in Task : (go[u].todo)' \subseteq Rows'
        BY <1>1, <2>15, <3>1 DEF Typed
      <3>3. RelayTypeOK'
        BY <1>1, <1>2 DEF Typed, RelayTypeOK
      <3>4. QED
        BY <1>1, <1>6, <2>2, <2>6, <2>7, <2>15, <3>2, <3>3 DEF Typed
    <2>17. WorkInv(t)' /\ ViewInv(t)'
      <3>1. Agrees(t, s)' /\ dstatus'[t] # "absent"
        BY <1>2, <1>5, <2>8 DEF Agrees, Matches, Dead, Left
      <3>2. QED
        BY <1>1, <1>3, <1>5, <2>1, <2>7, <2>13, <2>14, <3>1, WentWell
    <2>18. \A u \in Task \ {t} : go[u].pc = "create" => dstatus'[u] = "Pending" /\ rstatus'[u] = "NotFound"
      BY <1>2, <2>5 DEF GroupInv, WorkInv
    <2>19. QED
      BY <2>9, <2>11, <2>12, <2>15, <2>16, <2>17, <2>18, OneSteps
  <1>9. QED
    BY <1>7, <1>8

\* A copy of the view is synced, and the row it was read from written.
LEMMA CopyKeeps ==
  ASSUME GroupInv, NEW t \in Task, NEW u \in Task, SyncCopy(t, u)
  PROVE  GroupInv' /\ Keeps
  <1> DEFINE g == go[t]
             c == g.view[u]
             s0 == SyncStatus(c.st, rstatus[u])
             r == IF rreason[u] = "None" THEN c.reason ELSE rreason[u]
             c1 == [c EXCEPT !.st = s0, !.reason = r]
             w == [g EXCEPT !.todo = g.todo \ {u}, !.view = [g.view EXCEPT ![u] = c1]]
  <1>1. /\ UNCHANGED <<dseq, vrf, rseq, faults, relayVars>> /\ Typed /\ ViewInv(t) /\ WorkInv(t)
        /\ g.pc \in {"groupsync", "resync"} /\ u \in g.todo /\ WriteSynced(u, c.st, s0)
        /\ RelayTypeOK
    BY DEF SyncCopy, GroupInv, Typed
  <1>2. /\ go \in [Task -> Work] /\ g \in Work /\ g.todo \subseteq Rows /\ Rows \subseteq Task
        /\ g.todo \in SUBSET Task /\ g.mem \in TaskStatus
    BY <1>1 DEF Typed, Work, Rows
  <1>3. /\ u \in Rows /\ dstatus[u] # "absent" /\ dstatus[t] # "absent" /\ t \in Rows
        /\ g.mem # "Pending" /\ Agrees(t, g.mem) /\ dseq[t] # 0
    BY <1>1, <1>2 DEF WorkInv, HasStatus, HasData, Rows
  <1>4. /\ DOMAIN g.view = Rows
        /\ \A x \in Rows : Agrees(x, g.view[x].st) /\ g.view[x].seq \in {0, dseq[x]}
        /\ g.view[t].seq = dseq[t]
        /\ g.pc = "resync" => \A x \in Rows \ {t} : dseq[t] < dseq[x] \/ (Left(x) /\ Dead(x))
    BY <1>1 DEF ViewInv, HasView
  <1>5. g.view \in [Rows -> Copy] /\ c \in Copy
    <2>1. g.view \in Views
      BY <1>2 DEF Work
    <2>2. CASE g.view = <<>>
      <3>1. DOMAIN <<>> = {}
        OBVIOUS
      <3>2. QED
        BY <1>3, <1>4, <2>2, <3>1
    <2>3. CASE g.view # <<>>
      <3>1. PICK S \in SUBSET Task : g.view \in [S -> Copy]
        BY <2>1, <2>3 DEF Views
      <3>2. QED
        BY <1>3, <1>4, <3>1
    <2>4. QED
      BY <2>2, <2>3
  <1>6. c.st \in TaskStatus /\ c.reason \in AbortReason /\ r \in AbortReason /\ Agrees(u, c.st)
    BY <1>1, <1>3, <1>4, <1>5 DEF Copy, RelayTypeOK
  <1>7. /\ Keeps /\ RoundInv' /\ Rows' = Rows /\ (\A x \in Task : RowInv(x)')
        /\ dstatus' \in [Task -> TaskStatus \cup {"absent"}] /\ dreason' \in [Task -> AbortReason]
        /\ \A x \in Task : dstatus[x] = "Pending" /\ rstatus[x] = "NotFound" => dstatus'[x] = "Pending"
    BY <1>1, <1>3, <1>6, SyncWritten
  <1>8. PICK s \in TaskStatus : s = s0 /\ Agrees(u, s)'
    BY <1>1, <1>3, <1>6, SyncWritten
  <1>9. c1 \in Copy /\ c1.st = s /\ c1.seq = c.seq
    <2> HIDE DEF c, r, s0
    <2>1. QED
      BY <1>5, <1>6, <1>8 DEF Copy
  <1>10. go' = [go EXCEPT ![t] = w]
    BY Zenon DEF SyncCopy
  <1>11. w \in Work /\ w.pc = g.pc /\ w.mem = g.mem /\ w.todo = g.todo \ {u}
         /\ w.view = [g.view EXCEPT ![u] = c1]
    <2>1. [g.view EXCEPT ![u] = c1] \in [Rows -> Copy]
      <3> HIDE DEF c1, g
      <3>1. QED
        BY <1>5, <1>9
    <2>2. [g.view EXCEPT ![u] = c1] \in Views
      <3> DEFINE V == [g.view EXCEPT ![u] = c1]
      <3>1. V \in [Rows -> Copy]
        BY <2>1
      <3> HIDE DEF V
      <3>2. V \in Views
        BY <1>2, <3>1 DEF Views
      <3>3. QED
        BY <3>2 DEF V
    <2>3. g.todo \ {u} \in SUBSET Task
      BY <1>2
    <2> HIDE DEF c1, g
    <2>4. QED
      BY <1>2, <2>2, <2>3 DEF Work
  <1>12. \A x \in Rows : w.view[x] = IF x = u THEN c1 ELSE g.view[x]
    <2> HIDE DEF c1, g, w
    <2>1. QED
      BY <1>3, <1>5, <1>11
  <1>13. DOMAIN w.view = Rows
    <2> HIDE DEF c1, g, w
    <2>1. QED
      BY <1>4, <1>11
  <1> HIDE DEF w, c1, r, s0
  <1>14. PICK v \in Work :
           /\ go' = [go EXCEPT ![t] = v] /\ v.pc = g.pc /\ v.mem = g.mem /\ v.todo \subseteq Rows
           /\ DOMAIN v.view = Rows
           /\ \A x \in Rows : v.view[x].seq = g.view[x].seq
           /\ \A x \in Rows : v.view[x].st = IF x = u THEN s ELSE g.view[x].st
    <2>1. ASSUME NEW x \in Rows
          PROVE  w.view[x].seq = g.view[x].seq /\ w.view[x].st = IF x = u THEN s ELSE g.view[x].st
      <3> HIDE DEF g
      <3>1. CASE x = u
        BY <1>9, <1>12, <3>1
      <3>2. CASE x # u
        BY <1>12, <3>2
      <3>3. QED
        BY <3>1, <3>2
    <2>2. w.todo \subseteq Rows
      BY <1>2, <1>11
    <2> HIDE DEF g
    <2>3. QED
      BY <1>10, <1>11, <1>13, <2>1, <2>2
  <1>15. PICK m \in TaskStatus : m = g.mem
    BY <1>2
  <1>16. go'[t] = v /\ go' \in [Task -> Work] /\ \A x \in Task \ {t} : go'[x] = go[x]
    BY <1>2, <1>14
  <1>17. UNCHANGED <<rstatus, dseq, rseq>> /\ faults' \in 0..MaxFaults
    BY <1>1 DEF relayVars, Typed
  <1>18. Typed'
    <2>1. \A x \in Task : go'[x].todo \subseteq Rows
      BY <1>1, <1>14, <1>16 DEF Typed
    <2>2. QED
      BY <1>1, <1>7, <1>16, <1>17, <2>1, RowsTyped
  <1>19. WorkInv(t)'
    <2>1. Agrees(t, m)' /\ dstatus'[t] # "absent"
      BY <1>3, <1>7, <1>15, AgreesStays DEF Keeps
    <2>2. QED
      BY <1>1, <1>3, <1>14, <1>15, <1>16, <1>17, <2>1 DEF WorkInv, Agrees, Matches, Left, Dead
  <1>20. ViewInv(t)'
    <2>1. ASSUME NEW x \in Rows PROVE Agrees(x, v.view[x].st)'
      <3>1. CASE x = u
        BY <1>8, <1>14, <3>1
      <3>2. CASE x # u
        <4>1. Agrees(x, v.view[x].st) /\ x \in Task
          BY <1>2, <1>4, <1>14, <3>2
        <4>2. QED
          BY <1>7, <4>1, AgreesStays
      <3>3. QED
        BY <3>1, <3>2
    <2>2. \A x \in Rows : v.view[x].seq \in {0, dseq[x]}
      BY <1>4, <1>14
    <2>3. v.view[t].seq = dseq[t]
      BY <1>3, <1>4, <1>14
    <2>4. \A x \in Task : Left(x) /\ Dead(x) => Left(x)' /\ Dead(x)'
      BY <1>7 DEF Keeps
    <2>5. v.pc = "resync" => \A x \in Rows \ {t} : dseq[t] < dseq[x] \/ (Left(x)' /\ Dead(x)')
      BY <1>2, <1>4, <1>14, <2>4
    <2>6. v.pc \in {"groupsync", "resync"}
      BY <1>1, <1>14
    <2>7. QED
      BY <1>7, <1>14, <1>16, <1>17, <2>1, <2>2, <2>3, <2>5, <2>6 DEF ViewInv, HasView, Agrees
  <1>21. \A x \in Task : go[x].pc = "create" => dstatus'[x] = "Pending" /\ rstatus'[x] = "NotFound"
    BY <1>7, <1>17 DEF GroupInv, WorkInv
  <1>22. QED
    BY <1>7, <1>16, <1>18, <1>19, <1>20, <1>21, OneSteps

-----------------------------------------------------------------------------
\* A round begins with one row that waits.
LEMMA InitGroupInv == Init => GroupInv
  <1>1. SUFFICES ASSUME Init PROVE GroupInv
    OBVIOUS
  <1>2. /\ dstatus = [t \in Task |-> IF t = First THEN "Pending" ELSE "absent"]
        /\ dseq = [t \in Task |-> 0] /\ rseq = [t \in Task |-> 0] /\ vrf = "none"
        /\ dreason = [t \in Task |-> "None"] /\ faults = 0
        /\ go = [t \in Task |-> NoWork] /\ rstatus = [t \in Task |-> "NotFound"]
        /\ rreason = [t \in Task |-> "None"] /\ rfiles = [t \in Task |-> NoFiles]
    BY <1>1 DEF Init, RelayInit
  <1>3. MaxSeq \in Nat /\ MaxFaults \in Nat /\ First \in Task
    BY GroupAssumption DEF MaxSeq
  <1>4. NoWork \in Work /\ NoWork.todo = {} /\ NoWork.pc = "idle"
    BY DEF NoWork, Work, Views, Pc, TaskStatus
  <1>5. RelayTypeOK
    BY <1>2 DEF RelayTypeOK, ChainStatus, AbortReason
  <1>6. Typed
    BY <1>2, <1>3, <1>4, <1>5 DEF Typed, TaskStatus, AbortReason
  <1>7. Rows = {First}
    BY <1>2, <1>3 DEF Rows
  <1>8. RoundInv
    BY <1>2, <1>7 DEF RoundInv
  <1>9. ASSUME NEW t \in Task PROVE RowInv(t) /\ WorkInv(t) /\ ViewInv(t)
    <2>1. dstatus[t] \in {"Pending", "absent"} /\ rstatus[t] = "NotFound" /\ dseq[t] = 0 /\ go[t].pc = "idle"
      BY <1>2, <1>4
    <2>2. QED
      BY <2>1 DEF RowInv, WorkInv, ViewInv, Matches, AfterValidation, HasStatus, HasData, HasView
  <1>10. QED
    BY <1>6, <1>8, <1>9 DEF GroupInv

\* The invariant is kept by every step, and no step takes back what Keeps names.
LEMMA GroupStep == GroupInv /\ [Next]_vars => GroupInv' /\ Keeps
  <1>1. SUFFICES ASSUME GroupInv, [Next]_vars PROVE GroupInv' /\ Keeps
    OBVIOUS
  <1>2. CASE UNCHANGED vars
    <2>1. UNCHANGED <<dbVars, rseq, relayVars, go, faults>>
      BY <1>2 DEF vars
    <2>2. Keeps /\ RoundInv' /\ (\A u \in Task : RowInv(u)')
          /\ \A u \in Task : go[u].pc = "create" => dstatus'[u] = "Pending" /\ rstatus'[u] = "NotFound"
      BY <1>1, <2>1, Quiet
    <2>3. Typed'
      BY <1>1, <2>1, QuietTyped DEF GroupInv, Typed
    <2>4. QED
      BY <1>1, <2>1, <2>2, <2>3, NoneSteps
  <1>3. ASSUME NEW t \in Task, RowStep(t) PROVE GroupInv' /\ Keeps
    BY <1>1, <1>3, OwnSyncKeeps, CreateKeeps, MarkKeeps, StoreKeeps, ReadKeeps, CopyKeeps,
       DecideKeeps, AgainKeeps, SubmitKeeps, FinishKeeps DEF RowStep
  <1>4. ASSUME NEW t \in Task, Start(t) \/ StartLate(t) \/ Fails(t) PROVE GroupInv' /\ Keeps
    BY <1>1, <1>4, StartKeeps
  <1>5. ASSUME NEW t \in Task, RelayMoves(t) \/ RelayLoses(t) PROVE GroupInv' /\ Keeps
    BY <1>1, <1>5, RelayKeeps
  <1>6. QED
    BY <1>1, <1>2, <1>3, <1>4, <1>5, CrashKeeps DEF Next

\* The goroutines of a round, their rows and Relay keep to GroupInv: copies agree with
\* their rows, and an elected goroutine comes first among all that may still be validated.
THEOREM GroupInvariant == Spec => []GroupInv
  <1>1. GroupInv /\ [Next]_vars => GroupInv'
    BY GroupStep
  <1>2. QED
    BY InitGroupInv, <1>1, PTL DEF Spec

\* The rows of a round and their goroutines have the types of the module, however often
\* Relay loses a task and gives its number anew.
THEOREM GroupTypeCorrect == Spec => []SGTypeOK
  <1>1. GroupInv => SGTypeOK
    <2>1. SUFFICES ASSUME Typed PROVE SGTypeOK
      BY DEF GroupInv
    <2>2. DOMAIN NoWork = {"pc", "mem", "view", "todo"}
      BY DEF NoWork
    <2>3. ASSUME NEW t \in Task
          PROVE  /\ DOMAIN go[t] = DOMAIN NoWork
                 /\ go[t].pc \in Pc /\ go[t].mem \in TaskStatus /\ go[t].todo \subseteq Rows
                 /\ go[t].view = <<>> \/ \E S \in SUBSET Task : go[t].view \in [S -> Copy]
      <3>1. go[t] \in Work /\ go[t].todo \subseteq Rows
        BY <2>1 DEF Typed
      <3>2. DOMAIN go[t] = {"pc", "mem", "view", "todo"} /\ go[t].view \in Views
            /\ go[t].pc \in Pc /\ go[t].mem \in TaskStatus
        BY <3>1 DEF Work
      <3>3. go[t].view = <<>> \/ \E S \in SUBSET Task : go[t].view \in [S -> Copy]
        BY <3>2 DEF Views
      <3>4. QED
        BY <2>2, <3>1, <3>2, <3>3
    <2>4. QED
      BY <2>1, <2>3 DEF SGTypeOK, Typed
  <1>2. QED
    BY GroupInvariant, <1>1, PTL

\* Two goroutines whose tasks are ready are never both about to submit: each would come
\* before the other in the sequence.
THEOREM OneElected == Spec => []OneSubmitter
  <1>1. GroupInv => OneSubmitter
    <2>1. SUFFICES ASSUME GroupInv PROVE OneSubmitter
      OBVIOUS
    <2> DEFINE S == {t \in Task : At(t, "submit") /\ RelayReady(t)}
    <2>2. ASSUME NEW t \in S, NEW u \in S, t # u PROVE dseq[t] < dseq[u]
      <3>1. t \in Task /\ u \in Task /\ go[t].pc = "submit" /\ go[u].pc = "submit" /\ RelayReady(u)
        BY DEF At
      <3>2. u \in Rows
        BY <2>1, <3>1 DEF GroupInv, WorkInv, Rows
      <3>3. dseq[t] < dseq[u] \/ Dead(u)
        BY <2>1, <2>2, <3>1, <3>2 DEF GroupInv, ViewInv
      <3>4. QED
        BY <3>1, <3>3 DEF RelayReady, Dead
    <2>3. \A t, u \in S : t = u
      <3>1. SUFFICES ASSUME NEW t \in S, NEW u \in S, t # u PROVE FALSE
        OBVIOUS
      <3>2. dseq[t] < dseq[u] /\ dseq[u] < dseq[t]
        BY <2>2, <3>1
      <3>3. dseq[t] \in Nat /\ dseq[u] \in Nat
        BY <2>1 DEF GroupInv, Typed
      <3>4. QED
        BY <3>2, <3>3
    <2> HIDE DEF S
    <2>4. Cardinality(S) \leq 1
      <3>1. CASE S = {}
        BY <3>1, FS_EmptySet
      <3>2. CASE S # {}
        <4>1. PICK t \in S : S = {t}
          BY <2>3, <3>2
        <4>2. Cardinality({t}) = 1
          BY FS_Singleton
        <4>3. Cardinality(S) = 1
          BY <4>1, <4>2
        <4>4. QED
          BY <4>3
      <3>3. QED
        BY <3>1, <3>2
    <2>5. QED
      BY <2>4 DEF OneSubmitter, S
  <1>2. QED
    BY GroupInvariant, <1>1, PTL

\* A round that its VRF number selects has all its rows by then, so that every validation
\* that is submitted is one of the group.
THEOREM SelectedAsGroup == Spec => []ValidatedAsGroup
  <1>1. GroupInv => ValidatedAsGroup
    BY DEF GroupInv, RoundInv, ValidatedAsGroup
  <1>2. QED
    BY GroupInvariant, <1>1, PTL

\* What Relay validates has its sequence number and its VRF data stored: a ready row
\* without them comes first in the sequence column, so that nobody is elected.
THEOREM DataBeforeValidation == Spec => []ValidationHasData
  <1>1. GroupInv => ValidationHasData
    BY DEF GroupInv, RowInv, ValidationHasData
  <1>2. QED
    BY GroupInvariant, <1>1, PTL

\* A finished row is not taken back to its creation, and no failure turns into a success,
\* whatever copies the goroutines of its siblings still hold.
THEOREM FinishedRowsStay == Spec => NoSecondLife
  <1> DEFINE A == \A t \in Task : Finished(dstatus[t]) =>
                    /\ dstatus'[t] # "Pending"
                    /\ dstatus[t] # "ResultDownloaded" =>
                         dstatus'[t] \notin {"EndSuccess", "ResultDownloaded"}
  <1>1. GroupInv /\ [Next]_vars => [A]_vars
    <2>1. SUFFICES ASSUME GroupInv, GroupInv', Keeps, NEW t \in Task, Finished(dstatus[t])
                   PROVE  /\ dstatus'[t] # "Pending"
                          /\ dstatus[t] # "ResultDownloaded" =>
                               dstatus'[t] \notin {"EndSuccess", "ResultDownloaded"}
      BY GroupStep
    <2>2. Left(t) /\ Matches(t, dstatus[t])
      BY <2>1 DEF GroupInv, RowInv, Left, Finished, FinishedStatus
    <2>3. Left(t)' /\ (Dead(t) => Dead(t)') /\ (rstatus[t] \in ChainTaskTerminal => rstatus'[t] = rstatus[t])
      BY <2>1, <2>2 DEF Keeps
    <2>4. Matches(t, dstatus[t])'
      BY <2>1 DEF GroupInv, RowInv
    <2>5. ASSUME dstatus[t] \in {"EndAborted", "EndGroupRefund", "EndInvalidated"},
                 dstatus'[t] \in {"EndSuccess", "ResultDownloaded"}
          PROVE  FALSE
      <3>1. rstatus'[t] \in {"EndSuccess", "EndGroupSuccess"}
        BY <2>4, <2>5 DEF Matches
      <3>2. rstatus'[t] \in {"NotFound", "EndAborted", "EndGroupRefund", "EndInvalidated"}
        BY <2>2, <2>3, <2>5 DEF Matches, Dead, ChainTaskTerminal
      <3>3. QED
        BY <3>1, <3>2
    <2>6. QED
      BY <2>1, <2>3, <2>5 DEF Left, Finished, FinishedStatus
  <1>2. QED
    BY GroupInvariant, <1>1, PTL DEF Spec, NoSecondLife

=============================================================================
