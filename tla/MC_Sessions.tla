---------------------------- MODULE MC_Sessions -----------------------------
(* A small instance of a running session: the token lives for seven ticks and *)
(* is rotated every three, which affords two failures.                        *)
EXTENDS Sessions, TLC

\* The log stream: lines of the engine, reports, and a run after a restart.
LogParts ==
  "loglines" :> [Reports |-> {}, Malformed |-> {}, MaxTee |-> 1,
     MaxHalves |-> 2, MaxGens |-> 2, MaxWrites |-> 2, ChannelCapacity |-> 1,
     MaxIndexEntries |-> 1, MaxTotal |-> 2, MaxRuns |-> 1, MaxFaults |-> 1] @@
  "logreports" :> [Reports |-> {1, 2}, Malformed |-> {}, MaxTee |-> 0,
     MaxHalves |-> 0, MaxGens |-> 1, MaxWrites |-> 2, ChannelCapacity |-> 1,
     MaxIndexEntries |-> 1, MaxTotal |-> 2, MaxRuns |-> 1, MaxFaults |-> 1] @@
  "logrestart" :> [Reports |-> {1, 2}, Malformed |-> {2}, MaxTee |-> 0,
     MaxHalves |-> 1, MaxGens |-> 1, MaxWrites |-> 1, ChannelCapacity |-> 1,
     MaxIndexEntries |-> 1, MaxTotal |-> 2, MaxRuns |-> 2, MaxFaults |-> 0]
=============================================================================
