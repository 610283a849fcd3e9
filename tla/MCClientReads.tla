--------------------------- MODULE MCClientReads ---------------------------
\* Instances of ClientReads for TLC.
EXTENDS ClientReads, MCTaskEngine
=============================================================================
