-------------------------- MODULE MCReconciliation --------------------------
\* Instances of Reconciliation for TLC.
EXTENDS Reconciliation, MCTaskEngine
=============================================================================
