------------------------------ MODULE Sessions -------------------------------
(* A running session: the delivery of its credentials to its sandbox, the    *)
(* rotation of its token, and the log stream of its pod. They share no state *)
(* here, so a behaviour moves one of them and leaves the others out: part    *)
(* names it.                                                                 *)
EXTENDS SandboxCreds

CONSTANTS
  Rotating,           \* sessions whose token is rotated
  Ttl, Interval, Initial, MaxRotationFaults,
  None,
  Logs                \* [part -> the constants of a log stream]

VARIABLES
  part,         \* the component that moves in this behaviour
  role, age, live, next, pending, fleetDelay, pass, reported, rFaults,
  lRun, lPc, lStorage, lEngine, lTee, lChan, lFile, lReports, lDisk, lCopies,
  lMem, lStore, lLost, lFaults

R == INSTANCE TokenRotation WITH
  Session <- Rotating, MaxFaults <- MaxRotationFaults, faults <- rFaults
L(k) == INSTANCE LogStream WITH
  Reports <- Logs[k].Reports, Malformed <- Logs[k].Malformed,
  MaxTee <- Logs[k].MaxTee, MaxHalves <- Logs[k].MaxHalves,
  MaxGens <- Logs[k].MaxGens, MaxWrites <- Logs[k].MaxWrites,
  ChannelCapacity <- Logs[k].ChannelCapacity,
  MaxIndexEntries <- Logs[k].MaxIndexEntries, MaxTotal <- Logs[k].MaxTotal,
  MaxRuns <- Logs[k].MaxRuns, MaxFaults <- Logs[k].MaxFaults, run <- lRun,
  pc <- lPc, storage <- lStorage, engine <- lEngine, tee <- lTee, chan <- lChan,
  file <- lFile, reports <- lReports, disk <- lDisk, copies <- lCopies, mem <- lMem,
  store <- lStore, lost <- lLost, faults <- lFaults

\* What failures in a row may cost: the delays double from the first up to the
\* interval, and left is what the failures still to come add to the wait for a
\* token. The life of a token exceeds the interval by as much.
Affordable(delay, left) ==
  /\ delay[0] = Initial /\ left[MaxRotationFaults] = 0
  /\ \A f \in 0..MaxRotationFaults : f < MaxRotationFaults =>
       /\ delay[f + 1] = R!NextDelay(delay[f])
       /\ left[f] = left[f + 1] + R!Longest(delay[f])
  /\ Interval + left[0] < Ttl

ASSUME RotationAssumption ==
  /\ Initial \in Nat \ {0} /\ Interval \in Nat /\ Initial <= Interval
  /\ Ttl \in Nat /\ MaxRotationFaults \in Nat
  /\ \E delay \in [0..MaxRotationFaults -> Initial..Interval],
        left \in [0..MaxRotationFaults -> 0..Ttl] : Affordable(delay, left)

\* Reports are numbered in their order, and None is not a bundle.
BundleOf(k) == [lines : SUBSET L(k)!Lines, copies : [Logs[k].Reports -> 0..Logs[k].MaxWrites]]

ASSUME LogAssumption ==
  \A k \in DOMAIN Logs :
    /\ Logs[k].Reports \subseteq Nat /\ IsFiniteSet(Logs[k].Reports)
    /\ Logs[k].MaxTee \in Nat /\ Logs[k].MaxHalves \in Nat /\ Logs[k].MaxWrites \in Nat
    /\ Logs[k].MaxGens \in Nat \ {0} /\ Logs[k].MaxRuns \in Nat \ {0}
    /\ Logs[k].ChannelCapacity \in Nat /\ Logs[k].MaxIndexEntries \in Nat
    /\ Logs[k].MaxTotal \in Nat /\ Logs[k].MaxFaults \in Nat
    /\ None \notin BundleOf(k)

sandboxVars == <<fleet, box, cache, rec, sweep, want, queued, shield, faults,
                 changes>>
rotationVars == <<role, age, live, next, pending, fleetDelay, pass, reported,
                  rFaults>>
logVars == <<lRun, lPc, lStorage, lEngine, lTee, lChan, lFile, lReports, lDisk,
             lCopies, lMem, lStore, lLost, lFaults>>

\* A component that does not move has no state.
rotationOff ==
  role = 0 /\ age = 0 /\ live = 0 /\ next = 0 /\ pending = 0 /\
  fleetDelay = 0 /\ pass = 0 /\ reported = 0 /\ rFaults = 0
logOff ==
  lRun = 0 /\ lPc = 0 /\ lStorage = 0 /\ lEngine = 0 /\ lTee = 0 /\
  lChan = 0 /\ lFile = 0 /\ lReports = 0 /\ lDisk = 0 /\ lCopies = 0 /\
  lMem = 0 /\ lStore = 0 /\ lLost = 0 /\ lFaults = 0

PartInit ==
  /\ part \in {"sandbox", "rotation"} \cup DOMAIN Logs
  /\ Init
  /\ IF part = "rotation" THEN R!Init ELSE rotationOff
  /\ IF part \in DOMAIN Logs THEN \E k \in DOMAIN Logs : part = k /\ L(k)!Init ELSE logOff

PartNext ==
  \/ /\ part = "sandbox" /\ Next
     /\ UNCHANGED <<part, rotationVars, logVars>>
  \/ /\ part = "rotation" /\ R!Next
     /\ UNCHANGED <<part, sandboxVars, logVars>>
  \/ /\ \E k \in DOMAIN Logs : part = k /\ L(k)!Next
     /\ UNCHANGED <<part, sandboxVars, rotationVars>>

allVars ==
  <<part, sandboxVars, rotationVars, logVars>>

PartSpec == PartInit /\ [][PartNext]_allVars

\* The fairness of each component, of the one that moves.
PartFairSpec ==
  /\ PartSpec
  /\ WF_sandboxVars(part = "sandbox" /\ Observe)
  /\ WF_sandboxVars(part = "sandbox" /\ Probe)
  /\ WF_sandboxVars(part = "sandbox" /\ Ensure)
  /\ WF_sandboxVars(part = "sandbox" /\ Create(FALSE))
  /\ WF_sandboxVars(part = "sandbox" /\ Adopt)
  /\ WF_sandboxVars(part = "sandbox" /\ Upload)
  /\ WF_sandboxVars(part = "sandbox" /\ Stop(FALSE))
  /\ WF_sandboxVars(part = "sandbox" /\ Watch)
  /\ WF_sandboxVars(part = "sandbox" /\ Deliver)
  /\ WF_sandboxVars(part = "sandbox" /\ Replace)
  /\ WF_sandboxVars(part = "sandbox" /\ Repush)
  /\ WF_sandboxVars(part = "sandbox" /\ Backoff)
  /\ WF_sandboxVars(part = "sandbox" /\ Resync)
  /\ WF_sandboxVars(part = "sandbox" /\ ExpireShield)
  /\ \A w \in Sweeps : WF_sandboxVars(part = "sandbox" /\ ListFleet(w))
  /\ \A w \in Sweeps : WF_sandboxVars(part = "sandbox" /\ Reap(w))
  /\ \A i \in Id : SF_sandboxVars(part = "sandbox" /\ StartExecd(i))
  /\ \A i \in Id : WF_sandboxVars(part = "sandbox" /\ Gate(i))
  /\ \A i \in Id : WF_sandboxVars(part = "sandbox" /\ Materialize(i))
  /\ WF_rotationVars(part = "rotation" /\ R!StartSweep)
  /\ WF_rotationVars(part = "rotation" /\ R!StartRepair)
  /\ WF_rotationVars(part = "rotation" /\ R!EndPass)
  /\ WF_rotationVars(part = "rotation" /\ R!Tick)
  /\ \A s \in Rotating : WF_rotationVars(part = "rotation" /\ R!RotateOne(s))
  /\ \A k \in DOMAIN Logs : WF_logVars(part = k /\ L(k)!Collector)

-----------------------------------------------------------------------------
\* No session that can be served holds an expired token.
RotationSafe == part = "rotation" => R!RotationSafe

\* What the log indexes list exists, a run sends a line once, reports are
\* whole, and the end of a run delivers what it could.
LogSafe == \A k \in DOMAIN Logs : part = k => L(k)!LogSafe

\* A session with pending work ends up in one sandbox, with its credentials
\* and a started engine, a closed one in none; a session that cannot mint any
\* more is handed to the reconciler; reports end up published.
SessionsSettle ==
  /\ <>[](/\ part = "sandbox" => (want = "pending" => Healthy) /\ (want = "closed" => fleet = <<>>)
          /\ part = "logreports" => L("logreports")!Published)
  /\ []<>(part = "rotation" => \A s \in Rotating : R!Revoked(s) => R!Reported(s))
=============================================================================
