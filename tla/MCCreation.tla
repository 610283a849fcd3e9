----------------------------- MODULE MCCreation -----------------------------
\* Instances of Creation for TLC: three client tasks, one from each API.
EXTENDS Creation, TLC

OneOfEach == <<"engine", "sdft", "finetune">>
\* No limit.
Limits == {-1}
Requests == Permutations(Request)
=============================================================================
