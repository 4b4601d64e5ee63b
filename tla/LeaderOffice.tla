---------------------------- MODULE LeaderOffice ----------------------------
(* What the election promises the supervisors of the replicas, with the Lease, *)
(* the clocks and the requests taken away: the office changes hands only while *)
(* nobody leads on a valid Lease, and only its owner comes to lead on one.     *)
CONSTANTS Proc, NoProc

VARIABLES
  owner,    \* the process named in the Lease
  elected   \* the processes that lead on a valid Lease

vars == <<owner, elected>>

Init == owner = NoProc /\ elected = {}

\* The office goes to another process.
Take(p) ==
  /\ owner # p /\ elected = {}
  /\ owner' = p
  /\ UNCHANGED elected

\* Its owner learns of it.
Elect(p) ==
  /\ owner = p /\ elected = {}
  /\ elected' = {p}
  /\ UNCHANGED owner

Resign ==
  /\ elected # {} /\ elected' = {}
  /\ UNCHANGED owner

Next == (\E p \in Proc : Take(p) \/ Elect(p)) \/ Resign

Spec == Init /\ [][Next]_vars
=============================================================================
