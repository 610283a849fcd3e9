---------------------------- MODULE MCTaskEngine ----------------------------
(***************************************************************************)
(* Instances of TaskEngine for TLC: which rows exist, how they form groups *)
(* and which Relay statuses the instance exposes.                          *)
(***************************************************************************)
EXTENDS TaskEngine, TLC

\* One validation group of three rows.
OneGroup  == [t \in {1, 2, 3} |-> "g1"]
\* Two repeats that are validated alone.
TwoSingles == [t \in {1, 2} |-> IF t = 1 THEN "g1" ELSE "g2"]
OneSingle == [t \in {1} |-> "g1"]

\* Relay statuses: the shortest ways to every kind of end, or all of them.
FewStatuses == {"NotFound", "Queued", "ScoreReady", "GroupValidated", "Validated",
                "EndAborted", "EndGroupRefund", "EndSuccess", "EndGroupSuccess"}
\* Relay ends no task by itself before it was validated.
CalmStatuses == FewStatuses \ {"EndAborted"}
\* Tasks validated alone that end by success or by an abort.
SoloStatuses == {"NotFound", "Queued", "ScoreReady", "Validated", "EndAborted", "EndSuccess"}
\* Tasks that run for a while before they are ready.
RunStatuses == FewStatuses \cup {"Started"}

\* Every operation may fail.
AllOps == OperationType \ {"none"}

\* Which files a row ran does not matter, only whether there are any and
\* whether rows ran the same.
Files == Permutations(ExecFiles \ {NoFiles})
=============================================================================
