---------------------------- MODULE SDFTRounds -----------------------------
(***************************************************************************)
(* Fine-tuning client tasks: the serial rounds of each, the goroutine that  *)
(* starts one round after another, and the hourly cleanup that deletes what *)
(* is old.  A round stands for its row or its validation group; how it ends *)
(* is the matter of SDFTGroup.                                              *)
(***************************************************************************)
EXTENDS Naturals, Sequences, FiniteSets

CONSTANTS
  Client,      \* ids of client tasks, in the order they are given out
  MaxRetries,  \* FailedCount may reach it without failing the client task (3 in the code)
  MaxContinued, \* bound on the checkpoints without FINISH of a client task
  MaxFaults,   \* bound on restarts and failed statements
  MayExpire    \* rows grow older than the retention time

ASSUME RoundsAssumption ==
  /\ Client \subseteq Nat \ {0} /\ IsFiniteSet(Client)
  /\ MaxRetries \in Nat /\ MaxContinued \in Nat /\ MaxFaults \in Nat
  /\ MayExpire \in BOOLEAN

VARIABLES
  cstatus, \* status of the row in client_tasks
  fcount,  \* its failed_count
  rounds,  \* rounds[c]: how each round stands, which it follows, its result directory
  lastID,  \* of ProcessSDFTTasks: client tasks up to it have been taken up
  gor,     \* gor[c]: the goroutine of c, with its copy of the row and its round
  aged,    \* aged[c]: how many rounds of c are older than the retention time
  cold,    \* the client tasks that nothing has updated for so long
  cleaner, \* the cleanup: what it does next, and the rounds of its batch
  faults, dbFailed

vars == <<cstatus, fcount, rounds, lastID, gor, aged, cold, cleaner, faults, dbFailed>>

Idle    == [pc |-> "none", st |-> "running", count |-> 0, round |-> 0]
Resting == [pc |-> "rows", batch |-> {}]
Round(after) == [st |-> "open", after |-> after, finish |-> FALSE, file |-> "none"]

Refs == UNION {{<<c, i>> : i \in 1..Len(rounds[c])} : c \in Client}
Has(c, i) == rounds[c][i].st # "deleted"
HasRows(c) == \E i \in 1..Len(rounds[c]) : Has(c, i)

SRTypeOK ==
  /\ cstatus \in [Client -> {"absent", "running", "success", "failed", "deleted"}]
  /\ fcount \in [Client -> 0..(MaxRetries + 1 + faults)] /\ lastID \in Client \cup {0}
  /\ \A c \in Client :
       /\ aged[c] \in 0..Len(rounds[c])
       /\ \A i \in 1..Len(rounds[c]) :
            rounds[c][i] \in [st : {"open", "failed", "downloaded", "deleted"}, after : 0..(i - 1),
                              finish : BOOLEAN, file : {"none", "checkpoint", "result"}]
       /\ gor[c] \in [pc : {"none", "pick", "wait", "retry", "renamed"},
                      st : {"running", "success", "failed"}, count : Nat, round : 0..Len(rounds[c])]
  /\ cold \subseteq Client
  /\ cleaner.pc \in {"rows", "delete", "clients", "orphans"} /\ cleaner.batch \subseteq Refs
  /\ faults \in 0..MaxFaults /\ dbFailed \in BOOLEAN

Init ==
  /\ cstatus = [c \in Client |-> "absent"]
  /\ fcount = [c \in Client |-> 0]
  /\ rounds = [c \in Client |-> <<>>]
  /\ lastID = 0
  /\ gor = [c \in Client |-> Idle]
  /\ aged = [c \in Client |-> 0] /\ cold = {}
  /\ cleaner = Resting
  /\ faults = 0 /\ dbFailed = FALSE

At(c, pc) == gor[c].pc = pc
Goto(c, pc) == gor' = [gor EXCEPT ![c].pc = pc]
Current(c) == rounds[c][gor[c].round]

\* A statement ends with an error: it has failed, or it was committed and the answer
\* was lost or came after the timeout.
DBFails == /\ faults < MaxFaults /\ faults' = faults + 1 /\ dbFailed' = TRUE
NoFault == UNCHANGED <<faults, dbFailed>>

cleanVars == <<aged, cold, cleaner>>

-----------------------------------------------------------------------------
\* CreateSDFinetuneLoraTask and the raw API: the client task, then its first row
\* (saveTaskRecords).  Ids are given out in order.
InsertClientTask(c) ==
  /\ cstatus[c] = "absent" /\ \A d \in Client : d < c => cstatus[d] # "absent"
  /\ cstatus' = [cstatus EXCEPT ![c] = "running"]
  /\ UNCHANGED <<fcount, rounds, lastID, gor, cleanVars, faults, dbFailed>>

InsertFirstRow(c) ==
  /\ cstatus[c] = "running" /\ rounds[c] = <<>>
  /\ rounds' = [rounds EXCEPT ![c] = <<Round(0)>>]
  /\ UNCHANGED <<cstatus, fcount, lastID, gor, cleanVars, faults, dbFailed>>

Continued(c) ==
  Cardinality({i \in 1..Len(rounds[c]) : rounds[c][i].st \in {"downloaded", "deleted"}
                                         /\ ~rounds[c][i].finish})

\* A round ends: without a result, or with a checkpoint that may hold FINISH.
RoundEnds(c) ==
  \E i \in 1..Len(rounds[c]) :
    /\ rounds[c][i].st = "open"
    /\ \/ rounds' = [rounds EXCEPT ![c][i].st = "failed"]
       \/ \E f \in IF Continued(c) < MaxContinued THEN BOOLEAN ELSE {TRUE} :
            rounds' = [rounds EXCEPT ![c][i] =
                         [@ EXCEPT !.st = "downloaded", !.finish = f, !.file = "checkpoint"]]
    /\ UNCHANGED <<cstatus, fcount, lastID, gor, cleanVars, faults, dbFailed>>

-----------------------------------------------------------------------------
\* ProcessSDFTTasks: a goroutine for every running client task beyond the last id.
Waiting == {c \in Client : cstatus[c] = "running" /\ HasRows(c) /\ c > lastID}

TakeUp ==
  /\ Waiting # {}
  /\ gor' = [c \in Client |-> IF c \in Waiting
                              THEN [Idle EXCEPT !.pc = "pick", !.count = fcount[c]] ELSE gor[c]]
  /\ lastID' = CHOOSE c \in Waiting : \A d \in Waiting : d \leq c
  /\ UNCHANGED <<cstatus, fcount, rounds, cleanVars, faults, dbFailed>>

\* The goroutine's loop: the last row, while the copy says running.  A failed
\* query ends the goroutine.
Pick(c) ==
  LET left == {i \in 1..Len(rounds[c]) : Has(c, i)} IN
  /\ At(c, "pick")
  /\ \/ /\ gor[c].st = "running" /\ left # {}
        /\ gor' = [gor EXCEPT ![c].pc = "wait",
                              ![c].round = CHOOSE i \in left : \A j \in left : j \leq i]
        /\ NoFault
     \/ /\ gor[c].st # "running" \/ left = {}
        /\ gor' = [gor EXCEPT ![c] = Idle]
        /\ NoFault
     \/ /\ gor[c].st = "running" /\ DBFails
        /\ gor' = [gor EXCEPT ![c] = Idle]
  /\ UNCHANGED <<cstatus, fcount, rounds, lastID, cleanVars>>

\* clientTask.Update with the goroutine's copy g.
UpdateClientTask(c, g) ==
  /\ cstatus' = [cstatus EXCEPT ![c] = IF @ = "deleted" THEN @ ELSE g.st]
  /\ fcount' = [fcount EXCEPT ![c] = g.count]
  /\ cold' = cold \ {c}

\* The copy is changed before the row is: an update that ends with an error leaves
\* it changed, and the goroutine starts over with its round.
Store(c, g, pc) ==
  \/ /\ UpdateClientTask(c, g)
     /\ gor' = [gor EXCEPT ![c] = [g EXCEPT !.pc = pc]]
     /\ NoFault
  \/ /\ DBFails
     /\ gor' = [gor EXCEPT ![c] = [g EXCEPT !.pc = "wait"]]
     /\ UpdateClientTask(c, g) \/ UNCHANGED <<cstatus, fcount, cold>>

\* Mutant: off by one.
TooMany_Off(n) == n > MaxRetries + 1

TooMany(n) == n > MaxRetries

\* processFailedSDFTTask: count, and add a round unless there were too many.
CountFailure(c) ==
  /\ At(c, "wait") /\ Current(c).st = "failed"
  /\ LET n == gor[c].count + 1
         s == IF TooMany(n) THEN "failed" ELSE gor[c].st
     IN Store(c, [gor[c] EXCEPT !.count = n, !.st = s], IF s = "failed" THEN "pick" ELSE "retry")
  /\ UNCHANGED <<rounds, lastID, aged, cleaner>>

\* Mutant: the goroutine goes on with the round it has just continued.
Added_Again == "wait"

\* Where the goroutine goes once a new round is stored.
Added == "pick"

\* newTask.Save, for a retry or a continuation.  After an error the goroutine starts
\* over with its round, even if the new one was stored.
AddRound(c) == rounds' = [rounds EXCEPT ![c] = Append(@, Round(gor[c].round))]

SaveRound(c) ==
  \/ AddRound(c) /\ Goto(c, Added) /\ NoFault
  \/ DBFails /\ Goto(c, "wait") /\ (AddRound(c) \/ UNCHANGED rounds)

\* Mutant: the round is added before its failure is counted.
Retry_First(c) ==
  /\ At(c, "wait") /\ Current(c).st = "failed" /\ gor[c].count < MaxRetries
  /\ SaveRound(c)
  /\ UNCHANGED <<cstatus, fcount, lastID, cleanVars>>

Retry(c) ==
  /\ At(c, "retry")
  /\ SaveRound(c)
  /\ UNCHANGED <<cstatus, fcount, lastID, cleanVars>>

\* processResultDownloadedSDFTTask, a checkpoint without FINISH.
Continue(c) ==
  /\ At(c, "wait") /\ Current(c).st = "downloaded"
  /\ Current(c).file = "checkpoint" /\ ~Current(c).finish
  /\ SaveRound(c)
  /\ UNCHANGED <<cstatus, fcount, lastID, cleanVars>>

\* Mutant: the client task is completed without the file.
Rename_None(c) ==
  /\ At(c, "wait") /\ Current(c).st = "downloaded"
  /\ Current(c).file = "checkpoint" /\ Current(c).finish
  /\ Goto(c, "renamed")
  /\ UNCHANGED <<cstatus, fcount, rounds, lastID, cleanVars, faults, dbFailed>>

\* A checkpoint with FINISH: rename it, then complete the client task.
Rename(c) ==
  /\ At(c, "wait") /\ Current(c).st = "downloaded"
  /\ Current(c).file = "checkpoint" /\ Current(c).finish
  /\ rounds' = [rounds EXCEPT ![c][gor[c].round].file = "result"]
  /\ Goto(c, "renamed")
  /\ UNCHANGED <<cstatus, fcount, lastID, cleanVars, faults, dbFailed>>

Complete(c) ==
  /\ At(c, "renamed")
  /\ Store(c, [gor[c] EXCEPT !.st = "success"], "pick")
  /\ UNCHANGED <<rounds, lastID, aged, cleaner>>

\* The file has been renamed before: complete the client task unless the copy
\* says that this was done.
CompleteAgain(c) ==
  /\ At(c, "wait") /\ Current(c).st = "downloaded" /\ Current(c).file = "result"
  /\ IF gor[c].st = "success"
     THEN Goto(c, "pick") /\ UNCHANGED <<cstatus, fcount, cold, faults, dbFailed>>
     ELSE Store(c, [gor[c] EXCEPT !.st = "success"], "pick")
  /\ UNCHANGED <<rounds, lastID, aged, cleaner>>

\* Mutant: the scan goes on where it was.
FirstID_Kept == lastID

\* Where the scan starts when the bridge does.
FirstID == 0

\* The bridge restarts.
Crash ==
  /\ faults < MaxFaults /\ faults' = faults + 1
  /\ gor' = [c \in Client |-> Idle] /\ lastID' = FirstID /\ cleaner' = Resting
  /\ UNCHANGED <<cstatus, fcount, rounds, aged, cold, dbFailed>>

-----------------------------------------------------------------------------
\* cleanupExpiredInferenceResults, once an hour.

\* Rows grow old in the order they ended.  A goroutine takes a finished round on
\* in much less than the retention time.
RowExpires(c) ==
  /\ MayExpire /\ aged[c] < Len(rounds[c]) /\ rounds[c][aged[c] + 1].st # "open"
  /\ gor[c].pc \in {"none", "wait"} /\ gor[c].round # aged[c] + 1
  /\ aged' = [aged EXCEPT ![c] = @ + 1]
  /\ UNCHANGED <<cstatus, fcount, rounds, lastID, gor, cold, cleaner, faults, dbFailed>>

ClientTaskExpires(c) ==
  /\ aged[c] > 0 /\ c \notin cold /\ cstatus[c] # "deleted"
  /\ gor[c].pc \in {"none", "wait"}
  /\ cold' = cold \cup {c}
  /\ UNCHANGED <<cstatus, fcount, rounds, lastID, gor, aged, cleaner, faults, dbFailed>>

Expired == {p \in Refs : p[2] \leq aged[p[1]] /\ Has(p[1], p[2])}

\* The result directories in S go, the rows in D go.
Remove(S, D) ==
  rounds' = [c \in Client |-> [i \in 1..Len(rounds[c]) |->
    [rounds[c][i] EXCEPT !.file = IF <<c, i>> \in S THEN "none" ELSE @,
                         !.st = IF <<c, i>> \in D THEN "deleted" ELSE @]]]

\* cleanupExpiredInferenceTasks: the directories of the old rows; what cannot be
\* removed is left for the sweep of orphans.
CleanDirectories ==
  /\ cleaner.pc = "rows" /\ Expired # {}
  /\ \E S \in {Expired, {}} :
       /\ Remove(S, {})
       /\ IF S # {} THEN NoFault ELSE faults < MaxFaults /\ faults' = faults + 1 /\ UNCHANGED dbFailed
  /\ cleaner' = [pc |-> "delete", batch |-> Expired]
  /\ UNCHANGED <<cstatus, fcount, lastID, gor, aged, cold>>

\* Then the rows themselves.
CleanRows ==
  /\ cleaner.pc = "delete"
  /\ Remove({}, cleaner.batch)
  /\ cleaner' = [pc |-> "clients", batch |-> {}]
  /\ UNCHANGED <<cstatus, fcount, lastID, gor, aged, cold, faults, dbFailed>>

\* cleanupExpiredClientTasks: the old client tasks without rows.
Abandoned == {c \in cold : ~HasRows(c)}

CleanClientTasks ==
  /\ cleaner.pc = "clients"
  /\ cstatus' = [c \in Client |-> IF c \in Abandoned THEN "deleted" ELSE cstatus[c]]
  /\ cleaner' = [pc |-> "orphans", batch |-> {}]
  /\ UNCHANGED <<fcount, rounds, lastID, gor, aged, cold, faults, dbFailed>>

\* cleanupOrphanInferenceResultEntries: old directories that no row claims.
CleanOrphans ==
  /\ cleaner.pc = "orphans"
  /\ Remove({p \in Refs : ~Has(p[1], p[2])}, {})
  /\ cleaner' = Resting
  /\ UNCHANGED <<cstatus, fcount, lastID, gor, aged, cold, faults, dbFailed>>

-----------------------------------------------------------------------------
ClientStep(c) ==
  \/ Pick(c) \/ CountFailure(c) \/ Retry(c) \/ Continue(c)
  \/ Rename(c) \/ Complete(c) \/ CompleteAgain(c)

Clean == CleanDirectories \/ CleanRows \/ CleanClientTasks \/ CleanOrphans

Next ==
  \/ TakeUp \/ Crash \/ Clean
  \/ \E c \in Client :
       \/ InsertClientTask(c) \/ InsertFirstRow(c) \/ RoundEnds(c)
       \/ ClientStep(c) \/ RowExpires(c) \/ ClientTaskExpires(c)

Spec == Init /\ [][Next]_vars

\* The scan and every goroutine go on, and the rounds of SDFTGroup end.
FairSpec ==
  /\ Spec /\ WF_vars(TakeUp)
  /\ \A c \in Client : WF_vars(ClientStep(c)) /\ WF_vars(RoundEnds(c))

-----------------------------------------------------------------------------
\* The result that DownloadSDFinetuneLoraTaskResult looks for: result.zip of the
\* last downloaded row (GetSDFTTaskFinalTask).
Downloaded(c) == {i \in 1..Len(rounds[c]) : rounds[c][i].st = "downloaded"}
Served(c) == \E i \in Downloaded(c) :
               rounds[c][i].file = "result" /\ \A j \in Downloaded(c) : j \leq i

\* A client task that reads success has a result to download, until its rows
\* have expired.
SuccessIsServed ==
  \A c \in Client : cstatus[c] = "success" =>
    Served(c) \/ \E i \in 1..aged[c] : rounds[c][i].finish

\* A round is followed a second time only after an error that hid the first time:
\* neither a restart nor a repeated step continues a checkpoint or retries a failure
\* once more.
Repeated(c) ==
  {j \in 1..Len(rounds[c]) : \E i \in 1..(j - 1) : rounds[c][i].after = rounds[c][j].after}
RepeatsAreErrors == \A c \in Client : Cardinality(Repeated(c)) \leq faults

\* As docs/sdft_tasks.md says it, of serial rounds: each is followed by at most one.
FollowedOnce ==
  \A c \in Client : \A i, j \in 1..Len(rounds[c]) :
    i # j => rounds[c][i].after # rounds[c][j].after

\* No crash and no failed statement hides a failure: each one that was retried is
\* counted, so a client task has at most MaxRetries + 1 failed rounds.
FailuresAreCounted ==
  \A c \in Client :
    Cardinality({i \in 1..Len(rounds[c]) : \E j \in 1..Len(rounds[c]) :
      rounds[c][j].after = i /\ rounds[c][i].st = "failed"}) \leq fcount[c]

\* A client task that a goroutine has taken up is decided in the end, whatever
\* restarts do, if no statement fails.
TakenUpIsDecided ==
  \A c \in Client : ~At(c, "none") ~> (cstatus[c] # "running" \/ dbFailed \/ aged[c] > 0)

\* docs/sdft_tasks.md: a client task with a finished checkpoint is completed.
FinishedIsCompleted ==
  \A c \in Client : (\E i \in Downloaded(c) : rounds[c][i].file = "result") ~>
                    (cstatus[c] # "running" \/ aged[c] > 0)
=============================================================================
