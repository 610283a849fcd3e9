---------------------------- MODULE MCSDFTGroup ----------------------------
(***************************************************************************)
(* Instances of SDFTGroup for TLC: the Relay statuses they expose.         *)
(***************************************************************************)
EXTENDS SDFTGroup, TLC

\* The shortest ways to every kind of end; a member that loses its group's
\* validation ends as EndAborted, the one end that concerns its siblings too.
FewStatuses == {"NotFound", "Queued", "ScoreReady", "GroupValidated", "Validated",
                "EndAborted", "EndSuccess", "EndGroupSuccess"}

\* The two members are made alike.
Members == Permutations(Task \ {First})
=============================================================================
