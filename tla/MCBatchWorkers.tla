--------------------------- MODULE MCBatchWorkers ---------------------------
\* Instances of BatchWorkers for TLC.
EXTENDS BatchWorkers, MCTaskEngine
=============================================================================
