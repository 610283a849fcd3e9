---------------------------- MODULE MCHeartbeat ----------------------------
EXTENDS Heartbeat

\* Two slots and an entry that is switched off, under a total of one; and two
\* entries that share a slot, without a total.
TotalAndShared ==
  {[batchSize |-> 2, maxPerHour |-> 3, maxTotalPending |-> 1,
    entries |-> <<[slot |-> "llm", ratio |-> 1, maxPending |-> 1],
                  [slot |-> "off", ratio |-> 0, maxPending |-> 0],
                  [slot |-> "sd",  ratio |-> 1, maxPending |-> 1]>>],
   [batchSize |-> 2, maxPerHour |-> 4, maxTotalPending |-> 0,
    entries |-> <<[slot |-> "sd",  ratio |-> 2, maxPending |-> 1],
                  [slot |-> "sd",  ratio |-> 1, maxPending |-> 1]>>]}
=============================================================================
