---------------------------- MODULE ClientReads ----------------------------
(***************************************************************************)
(* What a client is told about its task while the engine works on it.      *)
(*                                                                         *)
(* A status request reads the client task in one query and its rows in a   *)
(* later one, without a transaction around them.  The client task leaves   *)
(* "running" once (ClientTask), so that in any state the answers that may  *)
(* be completed are those whose first query saw "running" or what is there *)
(* now: no history is needed to enumerate them.                            *)
(***************************************************************************)
EXTENDS TaskEngine

\* phaseFromInferenceStatus, for a row that is not finished
PhaseFromInferenceStatus(s) ==
  CASE s \in {"Started", "ParamsUploaded"}    -> "running"
    [] s \in {"ScoreReady", "ErrorReported"}  -> "validating"
    [] s = "Validated"                        -> "uploading"
    [] s = "EndSuccess"                       -> "finalizing"
    [] OTHER                                  -> "queued"

\* phaseRank: its order, the furthest first
PhaseOrder == <<"finalizing", "uploading", "validating", "running", "queued">>

\* Mutant: one failed row is taken for the end of all of them.
Phase_AnyFailed(cs, st) ==
  IF cs = "success" \/ \E t \in Task : st[t] = "ResultDownloaded" THEN "success"
  ELSE IF \E t \in Existing(st) : Finished(st[t]) THEN "failed" ELSE "queued"

\* computeClientTaskPhase, of a client task read as cs and rows read as st
Phase(cs, st) ==
  LET unfinished == {PhaseFromInferenceStatus(st[t]) : t \in {u \in Existing(st) : ~Finished(st[u])}}
      leading    == {i \in DOMAIN PhaseOrder : PhaseOrder[i] \in unfinished}
  IN  CASE cs = "success" \/ \E t \in Task : st[t] = "ResultDownloaded" -> "success"
        [] OTHER ->
             IF leading # {} THEN PhaseOrder[CHOOSE i \in leading : \A j \in leading : i \leq j]
             ELSE IF cs = "failed" \/ Existing(st) # {} THEN "failed"
             ELSE "queued"

\* Status and StatusBatch: the answers that a request may complete now.
StatusAnswers ==
  {[status |-> cs, phase |-> Phase(cs, status)] : cs \in {"running", clientStatus}}

\* The row that Result finds for a client task it read as successful.
ResultRows == {t \in Task : status[t] = "ResultDownloaded"}

-----------------------------------------------------------------------------
\* A client is told success or failure only when the client task is decided
\* so, even when a recalculation commits between the two queries of its
\* request, and a client that is told success finds a result: neither does a
\* failed row hide one that may still deliver, nor an old read of the client
\* task what its rows have reached since.
ToldIsDecided ==
  \A a \in StatusAnswers :
    /\ a.phase \in {"success", "failed"} => clientStatus = a.phase
    /\ "success" \in {a.status, a.phase} => ResultRows # {}

\* As docs/task_engine.md says it: the phase in an answer fits its status.
PhaseFitsStatus ==
  \A a \in StatusAnswers :
    IF a.status = "running" THEN a.phase \notin {"success", "failed"} ELSE a.phase = a.status

\* A phase that said the end is never followed by another one: no row that was
\* finished starts again after its client was told so.
FinalPhaseStands ==
  [][Phase(clientStatus, status) \in {"success", "failed"}
       => Phase(clientStatus, status)' = Phase(clientStatus, status)]_vars
=============================================================================
