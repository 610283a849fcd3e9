----------------------------- MODULE ClientTask -----------------------------
(***************************************************************************)
(* What a client task promises to the client that created it: it runs, and *)
(* then it succeeds or fails, once.  It succeeds with the first result and *)
(* fails only while there is none; what happens to its rows afterwards     *)
(* does not change the answer any more.                                    *)
(***************************************************************************)
CONSTANT Row  \* what may deliver a result

VARIABLES
  outcome,  \* "running", "success" or "failed"
  results   \* the rows whose result is in hand

Init == outcome = "running" /\ results = {}

Undecided == outcome = "running" /\ results = {}

Succeed == Undecided /\ outcome' = "success" /\ results' \in (SUBSET Row) \ {{}}

Fail == Undecided /\ outcome' = "failed" /\ results' = {}

Settled == outcome # "running" /\ UNCHANGED outcome /\ results' \in SUBSET Row

Next == Succeed \/ Fail \/ Settled

Spec == Init /\ [][Next]_<<outcome, results>>
=============================================================================
