--------------------------- MODULE MCCreatorAbort ---------------------------
\* Instances of CreatorAbort for TLC.
EXTENDS CreatorAbort, MCTaskEngine
=============================================================================
