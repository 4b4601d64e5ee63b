-------------------------- MODULE Controllers_proofs -------------------------
(***************************************************************************)
(* Proofs about LeaderGenerations for any set of replicas, any faults and  *)
(* any bounds, about Installations for any repositories, callers and       *)
(* repository sets, and about WorkIssues for any sessions, issues and      *)
(* labels, as parts of the composition Controllers.                        *)
(***************************************************************************)
EXTENDS Controllers, FiniteSetTheorems, TLAPS

\* What the bounds of an instance are.
Bounds == MaxTerms \in Nat /\ MaxFaults \in Nat

Gens == [at : Stages, id : 0..MaxTerms, cancelled : BOOLEAN]
Attempts == [attempting : BOOLEAN, term : 0..MaxTerms]
Routers == [patching : BOOLEAN, publish : BOOLEAN, plan : SUBSET Patches]

\* Generations of the replica so far, the one about to begin included.
Spawned(p) == IF gen[p].at = "spawned" THEN gen[p].id + 1 ELSE gen[p].id

\* A replica starts at most one generation per term, and one that has none or is
\* waiting for the cancelled one has not started this term's.
Counted(p) ==
  /\ Spawned(p) <= term[p]
  /\ (gen[p].at = "none" \/ joining[p]) /\ elected[p] => Spawned(p) < term[p]

\* A resync attempt belongs to a running generation and began in a term.
Attempting(p) ==
  /\ gen[p].at = "running" => gen[p].id > 0
  /\ resync[p].attempting => gen[p].at = "running" /\ resync[p].term > 0

\* A monitor is sound for a replica that is elected or not (won) and whose last
\* successful attempt began in the term last.
Sound(m, won, last) ==
  /\ m.leader = won
  /\ m.leader_ready => won /\ last > 0
  /\ m.ready => m.leader /\ m.leader_ready /\ m.routing_ready /\ ~m.degraded

MonitorSound(p) == Sound(monitor[p], elected[p], proven[p])

IInv ==
  /\ TypeOK
  /\ TargetIsRunning
  /\ \A p \in Proc : Counted(p) /\ Attempting(p) /\ MonitorSound(p)
-----------------------------------------------------------------------------
\* record_leader_acquired and the follower's records start from nothing.
LEMMA FreshMonitors ==
  ASSUME NEW m, NEW last
  PROVE  /\ Follower \in Monitors /\ Sound(Follower, FALSE, last)
         /\ Acquired(m) \in Monitors /\ Sound(Acquired(m), TRUE, last)
BY DEF Follower, Acquired, Monitors, Sound

\* What a loop records keeps a monitor sound, in whichever term it lands.
LEMMA RecordedMonitors ==
  ASSUME NEW m \in Monitors, NEW won \in BOOLEAN, NEW last, Sound(m, won, last)
  PROVE  /\ Attempted(m, FALSE) \in Monitors /\ Sound(Attempted(m, FALSE), won, last)
         /\ \A b \in BOOLEAN : Routed(m, b) \in Monitors /\ Sound(Routed(m, b), won, last)
         /\ RoutingFailed(m) \in Monitors /\ Sound(RoutingFailed(m), won, last)
         /\ Unavailable(m) \in Monitors /\ Sound(Unavailable(m), won, last)
BY DEF Attempted, Routed, RoutingFailed, Unavailable, Monitors, Sound

\* A successful attempt makes the leader ready for the term it began in.
LEMMA ProvenMonitors ==
  ASSUME NEW m \in Monitors, NEW won \in BOOLEAN, NEW last, Sound(m, won, last),
         NEW began \in Nat, began > 0
  PROVE  Attempted(m, TRUE) \in Monitors /\ Sound(Attempted(m, TRUE), won, began)
BY DEF Attempted, Monitors, Sound

\* A routing plan patches Pods of replicas.
LEMMA PlanType ==
  ASSUME NEW p \in Proc, NEW publish \in BOOLEAN
  PROVE  RoutingPlan(p, publish) \subseteq Patches
<1>1. \A q \in Proc, on \in BOOLEAN : [pod |-> q, on |-> on] \in Patches
  BY DEF Patches
<1>2. {[pod |-> q, on |-> FALSE] : q \in {q \in Proc \ {p} : label[q]}} \subseteq Patches
  BY <1>1
<1> QED BY <1>1, <1>2 DEF RoutingPlan

\* The constants of the module are of their types.
LEMMA RecordTypes ==
  ASSUME Bounds
  PROVE  NoAttempt \in Attempts /\ Unrouted \in Routers
BY DEF NoAttempt, Unrouted, Attempts, Routers, Bounds
-----------------------------------------------------------------------------
\* The election: winning, losing and following.
LEMMA ElectionStep ==
  ASSUME Bounds, IInv, NEW p \in Proc, Win(p) \/ Lose(p) \/ Follow(p)
  PROVE  IInv'
<1> USE DEF IInv, TypeOK, Bounds
<1>1. /\ UNCHANGED <<gen, target, joining, resync, proven, router, label, late, faults>>
      /\ unseen' \in [Proc -> BOOLEAN]
  BY DEF Win, Lose, Follow
<1>2. /\ monitor' \in [Proc -> Monitors]
      /\ \A q \in Proc \ {p} : monitor'[q] = monitor[q]
  <2>1. CASE Win(p)
    BY <2>1, FreshMonitors DEF Win
  <2>2. CASE Lose(p) \/ Follow(p)
    BY <2>2, FreshMonitors DEF Lose, Follow
  <2> QED BY <2>1, <2>2
<1>3. /\ elected' \in [Proc -> BOOLEAN] /\ term' \in [Proc -> 0..MaxTerms]
      /\ \A q \in Proc \ {p} : elected'[q] = elected[q] /\ term'[q] = term[q]
  <2>1. CASE Win(p)
    <3>1. term[p] + 1 \in 0..MaxTerms
      BY <2>1 DEF Win
    <3> QED BY <2>1, <3>1 DEF Win
  <2>2. CASE Lose(p) \/ Follow(p)
    BY <2>2 DEF Lose, Follow
  <2> QED BY <2>1, <2>2
<1>4. TypeOK' /\ TargetIsRunning'
  BY <1>1, <1>2, <1>3 DEF TargetIsRunning
<1>5. ASSUME NEW q \in Proc PROVE Counted(q)' /\ Attempting(q)' /\ MonitorSound(q)'
  <2>1. Counted(q) /\ Attempting(q) /\ MonitorSound(q)
    OBVIOUS
  <2>2. CASE q # p
    BY <1>1, <1>2, <1>3, <2>1, <2>2 DEF Counted, Spawned, Attempting, MonitorSound
  <2>3. CASE q = p
    <3>1. Attempting(q)'
      BY <1>1, <2>1 DEF Attempting
    <3>2. Spawned(q) \in Nat /\ Spawned(q)' = Spawned(q)
      BY <1>1 DEF Spawned
    <3>3. CASE Win(p)
      <4>1. term'[p] = term[p] + 1 /\ elected'[p] = TRUE /\ monitor'[p] = Acquired(monitor[p])
        BY <3>3 DEF Win
      <4>2. MonitorSound(q)'
        <5>1. Sound(Acquired(monitor[p]), TRUE, proven[p])
          BY FreshMonitors
        <5>2. monitor'[q] = Acquired(monitor[p]) /\ elected'[q] = TRUE /\ proven'[q] = proven[p]
          BY <1>1, <2>3, <4>1
        <5> QED BY <5>1, <5>2, Zenon DEF MonitorSound
      <4>3. Counted(q)'
        BY <1>1, <2>1, <2>3, <3>2, <4>1 DEF Counted
      <4> QED BY <3>1, <4>2, <4>3
    <3>4. CASE Lose(p) \/ Follow(p)
      <4>1. term'[p] = term[p] /\ elected'[p] = FALSE /\ monitor'[p] = Follower
        BY <3>4 DEF Lose, Follow
      <4>2. MonitorSound(q)'
        <5>1. Sound(Follower, FALSE, proven[p])
          BY FreshMonitors
        <5>2. monitor'[q] = Follower /\ elected'[q] = FALSE /\ proven'[q] = proven[p]
          BY <1>1, <2>3, <4>1
        <5> QED BY <5>1, <5>2, Zenon DEF MonitorSound
      <4>3. Counted(q)'
        BY <1>1, <2>1, <2>3, <3>2, <4>1 DEF Counted
      <4> QED BY <3>1, <4>2, <4>3
    <3> QED BY <3>3, <3>4
  <2> QED BY <2>2, <2>3
<1> QED BY <1>4, <1>5

\* The supervisor: starting, cancelling and joining a generation.
LEMMA SupervisionStep ==
  ASSUME Bounds, IInv, NEW p \in Proc, Supervise(p) \/ Joined(p)
  PROVE  IInv'
<1> USE DEF IInv, TypeOK, Bounds
<1>1. /\ UNCHANGED <<elected, term, monitor, resync, proven, router, label, late, faults>>
      /\ unseen' \in [Proc -> BOOLEAN]
  BY DEF Supervise, Joined
<1>2. /\ gen' \in [Proc -> Gens] /\ joining' \in [Proc -> BOOLEAN]
      /\ target' \in [Proc -> 0..MaxTerms]
      /\ \A q \in Proc \ {p} : gen'[q] = gen[q] /\ joining'[q] = joining[q]
                               /\ target'[q] = target[q]
  <2>1. /\ gen \in [Proc -> Gens] /\ joining \in [Proc -> BOOLEAN]
        /\ target \in [Proc -> 0..MaxTerms] /\ 0 \in 0..MaxTerms
    BY DEF Gens
  <2> HIDE DEF IInv, TypeOK
  <2>2. CASE Joined(p)
    <3>1. gen' \in [Proc -> Gens]
      <4>1. gen' = [gen EXCEPT ![p].at = "none", ![p].cancelled = FALSE]
        BY <2>2 DEF Joined
      <4>2. gen \in [Proc -> Gens]
        BY <2>1
      <4> QED BY <4>1, <4>2 DEF Gens, Stages
    <3>2. joining' \in [Proc -> BOOLEAN] /\ target' \in [Proc -> 0..MaxTerms]
      BY <2>1, <2>2 DEF Joined
    <3>3. \A q \in Proc \ {p} : gen'[q] = gen[q] /\ joining'[q] = joining[q]
                                 /\ target'[q] = target[q]
      BY <2>1, <2>2 DEF Joined
    <3> QED BY <3>1, <3>2, <3>3
  <2>3. CASE Supervise(p) /\ elected[p]
    <3>1. gen' \in [Proc -> Gens]
      BY <2>1, <2>3 DEF Supervise, Gens, Stages
    <3>2. joining' \in [Proc -> BOOLEAN] /\ target' \in [Proc -> 0..MaxTerms]
      BY <2>1, <2>3 DEF Supervise
    <3>3. \A q \in Proc \ {p} : gen'[q] = gen[q] /\ joining'[q] = joining[q]
                                 /\ target'[q] = target[q]
      BY <2>1, <2>3 DEF Supervise
    <3> QED BY <3>1, <3>2, <3>3
  <2>4. CASE Supervise(p) /\ ~elected[p]
    <3>1. gen' \in [Proc -> Gens]
      <4>1. gen' = [gen EXCEPT ![p].cancelled = gen[p].at # "none"]
        BY <2>4 DEF Supervise
      <4>2. gen \in [Proc -> Gens]
        BY <2>1
      <4> QED BY <4>1, <4>2 DEF Gens, Stages
    <3>2. joining' \in [Proc -> BOOLEAN] /\ target' \in [Proc -> 0..MaxTerms]
      BY ZenonT(60), <2>1, <2>4 DEF Supervise
    <3>3. \A q \in Proc \ {p} : gen'[q] = gen[q] /\ joining'[q] = joining[q]
                                 /\ target'[q] = target[q]
      BY <2>1, <2>4 DEF Supervise
    <3> QED BY <3>1, <3>2, <3>3
  <2> QED BY <2>2, <2>3, <2>4
<1>3. TypeOK'
  BY <1>1, <1>2 DEF Gens
<1>4. \/ /\ gen[p].at = "none" /\ elected[p] /\ ~joining[p]
         /\ gen'[p].at = "spawned" /\ gen'[p].id = gen[p].id
         /\ target'[p] = target[p] /\ joining'[p] = joining[p]
      \/ /\ UNCHANGED <<gen, target, joining>>
      \/ /\ ~elected[p] /\ gen'[p].at = gen[p].at /\ gen'[p].id = gen[p].id
         /\ target'[p] = 0
      \/ /\ joining[p] /\ gen[p].at = "ended" /\ ~joining'[p]
         /\ gen'[p].at = "none" /\ gen'[p].id = gen[p].id /\ target'[p] = target[p]
  BY DEF Supervise, Joined, Gens
<1>5. TargetIsRunning'
  BY SMTT(60), <1>1, <1>2, <1>4 DEF TargetIsRunning
<1>6. ASSUME NEW q \in Proc PROVE Counted(q)' /\ Attempting(q)' /\ MonitorSound(q)'
  <2>1. /\ Counted(q) /\ Attempting(q) /\ MonitorSound(q)
        /\ gen[q].id \in Nat /\ term[q] \in Nat
    OBVIOUS
  <2>2. CASE q # p
    BY <1>1, <1>2, <2>1, <2>2 DEF Counted, Spawned, Attempting, MonitorSound
  <2>3. CASE q = p
    BY <1>1, <1>4, <2>1, <2>3 DEF Counted, Spawned, Attempting, MonitorSound
  <2> QED BY <2>2, <2>3
<1> QED BY <1>3, <1>5, <1>6

\* The generation: beginning, stopping and giving up the routing label.
LEMMA GenerationStep ==
  ASSUME Bounds, IInv, NEW p \in Proc, Activate(p) \/ StopGeneration(p) \/ Withdraw(p)
  PROVE  IInv'
<1> USE DEF IInv, TypeOK, Bounds
<1>1. /\ UNCHANGED <<elected, unseen, term, joining, proven, late>>
      /\ label' \in [Proc -> BOOLEAN] /\ faults' \in 0..MaxFaults
  <2>1. CASE Activate(p)
    BY <2>1 DEF Activate
  <2>2. CASE StopGeneration(p)
    <3>1. NoFault \/ Fault("task_exit")
      BY <2>2 DEF StopGeneration
    <3>2. faults' \in 0..MaxFaults
      BY <3>1 DEF NoFault, Fault
    <3> QED BY <2>2, <3>2 DEF StopGeneration
  <2>3. CASE Withdraw(p)
    <3>1. NoFault \/ Fault("patch")
      BY <2>3 DEF Withdraw
    <3>2. label' \in [Proc -> BOOLEAN]
      BY <2>3 DEF Withdraw
    <3>3. faults' \in 0..MaxFaults
      BY <3>1 DEF NoFault, Fault
    <3> QED BY <2>3, <3>2, <3>3 DEF Withdraw
  <2> QED BY <2>1, <2>2, <2>3
<1>2. /\ Counted(p) /\ Attempting(p) /\ MonitorSound(p)
      /\ gen[p].id \in Nat /\ term[p] \in 0..MaxTerms
  OBVIOUS
<1>3. ASSUME NEW b \in BOOLEAN
      PROVE  LET m == monitor[p] IN
             /\ Routed(m, b) \in Monitors /\ Sound(Routed(m, b), elected[p], proven[p])
             /\ RoutingFailed(m) \in Monitors /\ Sound(RoutingFailed(m), elected[p], proven[p])
             /\ Routed(Unavailable(m), b) \in Monitors
             /\ Sound(Routed(Unavailable(m), b), elected[p], proven[p])
  <2>1. monitor[p] \in Monitors /\ elected[p] \in BOOLEAN
    OBVIOUS
  <2>2. Sound(monitor[p], elected[p], proven[p])
    BY <1>2 DEF MonitorSound
  <2> HIDE DEF IInv
  <2>3. /\ Unavailable(monitor[p]) \in Monitors
        /\ Sound(Unavailable(monitor[p]), elected[p], proven[p])
        /\ RoutingFailed(monitor[p]) \in Monitors
        /\ Sound(RoutingFailed(monitor[p]), elected[p], proven[p])
        /\ Routed(monitor[p], b) \in Monitors
        /\ Sound(Routed(monitor[p], b), elected[p], proven[p])
    BY <2>1, <2>2, RecordedMonitors
  <2>4. /\ Routed(Unavailable(monitor[p]), b) \in Monitors
        /\ Sound(Routed(Unavailable(monitor[p]), b), elected[p], proven[p])
    BY <2>1, <2>3, RecordedMonitors
  <2> QED BY <2>3, <2>4
<1>4. /\ monitor' \in [Proc -> Monitors]
      /\ \A q \in Proc \ {p} : monitor'[q] = monitor[q]
      /\ Sound(monitor'[p], elected[p], proven[p])
  <2>1. CASE Activate(p)
    BY <1>2, <2>1 DEF Activate, MonitorSound
  <2>2. CASE StopGeneration(p)
    BY ZenonT(60), <1>3, <2>2 DEF StopGeneration
  <2>3. CASE Withdraw(p)
    BY SMTT(60), <1>2, <1>3, <2>3 DEF Withdraw, MonitorSound
  <2> QED BY <2>1, <2>2, <2>3
<1>5. CASE Activate(p)
  <2>1. gen[p].id + 1 <= term[p]
    BY <1>2, <1>5 DEF Activate, Counted, Spawned
  <2>2. /\ gen' \in [Proc -> Gens] /\ target' \in [Proc -> 0..MaxTerms]
        /\ resync' \in [Proc -> Attempts] /\ UNCHANGED router
        /\ gen'[p].at = "running" /\ gen'[p].id = gen[p].id + 1 /\ target'[p] = gen[p].id + 1
        /\ resync'[p].term = term[p]
        /\ \A q \in Proc \ {p} : gen'[q] = gen[q] /\ target'[q] = target[q] /\ resync'[q] = resync[q]
    <3>1. gen[p].id + 1 \in 0..MaxTerms /\ gen[p] \in Gens
      BY <1>2, <2>1 DEF Gens
    <3>2. [attempting |-> TRUE, term |-> term[p]] \in Attempts
      BY <1>2 DEF Attempts
    <3>3. gen' \in [Proc -> Gens]
      BY <1>5, <3>1 DEF Activate, Gens, Stages
    <3>4. resync' \in [Proc -> Attempts]
      BY <1>5, <3>2 DEF Activate, Attempts
    <3> QED BY <1>5, <3>1, <3>3, <3>4 DEF Activate, Gens
  <2>3. TypeOK' /\ TargetIsRunning'
    BY ZenonT(60), <1>1, <1>4, <2>2 DEF TargetIsRunning, Gens, Attempts
  <2>4. ASSUME NEW q \in Proc PROVE Counted(q)' /\ Attempting(q)' /\ MonitorSound(q)'
    <3>1. Counted(q) /\ Attempting(q) /\ MonitorSound(q)
      OBVIOUS
    <3>2. CASE q # p
      BY <1>1, <1>4, <2>2, <3>1, <3>2 DEF Counted, Spawned, Attempting, MonitorSound
    <3>3. CASE q = p
      BY <1>1, <1>2, <1>4, <1>5, <2>1, <2>2, <3>3
      DEF Counted, Spawned, Attempting, MonitorSound, Activate
    <3> QED BY <3>2, <3>3
  <2> QED BY <2>3, <2>4
<1>6. CASE StopGeneration(p) \/ Withdraw(p)
  <2>1. /\ gen' \in [Proc -> Gens] /\ target' \in [Proc -> 0..MaxTerms]
        /\ resync' \in [Proc -> Attempts] /\ router' \in [Proc -> Routers]
        /\ \A q \in Proc \ {p} : gen'[q] = gen[q] /\ target'[q] = target[q] /\ resync'[q] = resync[q]
    <3>1. CASE StopGeneration(p)
      <4>1. Deactivated(p) \in 0..MaxTerms
        BY DEF Deactivated
      <4>2. gen' \in [Proc -> Gens]
        <5>1. gen \in [Proc -> Gens]
          BY DEF Gens
        <5> HIDE DEF IInv, TypeOK
        <5> QED BY <3>1, <5>1 DEF StopGeneration, Gens, Stages
      <4>3. resync' \in [Proc -> Attempts] /\ router' \in [Proc -> Routers]
        BY <3>1, RecordTypes DEF StopGeneration, Attempts, Routers
      <4> QED BY <3>1, <4>1, <4>2, <4>3 DEF StopGeneration
    <3>2. CASE Withdraw(p)
      <4>1. gen \in [Proc -> Gens]
        BY DEF Gens
      <4>2. gen' \in [Proc -> Gens] /\ \A q \in Proc \ {p} : gen'[q] = gen[q]
        <5> HIDE DEF IInv, TypeOK
        <5> QED BY <3>2, <4>1 DEF Withdraw, Gens, Stages
      <4> QED BY <3>2, <4>2 DEF Withdraw, Attempts, Routers
    <3> QED BY <1>6, <3>1, <3>2
  <2>2. /\ gen[p].at \in {"running", "withdrawing"} /\ gen'[p].at \in {"withdrawing", "ended"}
        /\ gen'[p].id = gen[p].id
        /\ target'[p] \in {0, target[p]} /\ (gen[p].at = "running" => target'[p] = Deactivated(p))
        /\ (~resync'[p].attempting \/ (gen[p].at = "withdrawing" /\ resync'[p] = resync[p]))
    <3>0. gen[p] \in Gens
      BY DEF Gens
    <3>1. CASE StopGeneration(p)
      <4>1. gen'[p] = [gen[p] EXCEPT !.at = "withdrawing"] /\ target'[p] = Deactivated(p)
            /\ gen[p].at = "running" /\ resync'[p] = NoAttempt
        BY <3>1 DEF StopGeneration
      <4>2. gen'[p].at = "withdrawing" /\ gen'[p].id = gen[p].id /\ ~resync'[p].attempting
        BY <3>0, <4>1 DEF Gens, NoAttempt
      <4>3. target'[p] \in {0, target[p]}
        BY <4>1 DEF Deactivated
      <4> QED BY <4>1, <4>2, <4>3
    <3>2. CASE Withdraw(p)
      <4>1. gen'[p] = [gen[p] EXCEPT !.at = "ended"] /\ gen[p].at = "withdrawing"
            /\ UNCHANGED <<target, resync>>
        BY <3>2 DEF Withdraw
      <4> QED BY <3>0, <4>1 DEF Gens
    <3> QED BY <1>6, <3>1, <3>2
  <2>3. TypeOK'
    BY <1>1, <1>4, <2>1 DEF Gens, Attempts, Routers
  <2>4. TargetIsRunning'
    BY SMTT(60), <2>1, <2>2 DEF TargetIsRunning, Deactivated
  <2>5. ASSUME NEW q \in Proc PROVE Counted(q)' /\ Attempting(q)' /\ MonitorSound(q)'
    <3>1. Counted(q) /\ Attempting(q) /\ MonitorSound(q)
      OBVIOUS
    <3>2. CASE q # p
      BY <1>1, <1>4, <2>1, <3>1, <3>2 DEF Counted, Spawned, Attempting, MonitorSound
    <3>3. CASE q = p
      BY <1>1, <1>2, <1>4, <2>2, <3>3 DEF Counted, Spawned, Attempting, MonitorSound
    <3> QED BY <3>2, <3>3
  <2> QED BY <2>3, <2>4, <2>5
<1> QED BY <1>5, <1>6

\* The loops of a generation, and patches that land late.
LEMMA LoopStep ==
  ASSUME Bounds, IInv, NEW p \in Proc, Resync(p) \/ Router(p) \/ AbandonPatch(p)
  PROVE  IInv'
<1> USE DEF IInv, TypeOK, Bounds
<1>1. /\ UNCHANGED <<elected, unseen, term, joining, gen, target>>
      /\ faults' \in 0..MaxFaults
  <2>1. UNCHANGED <<elected, unseen, term, joining, gen, target>>
    BY DEF Resync, ResyncStart, ResyncEnd, Router, RouterTick, RouterPatch, RouterDone, AbandonPatch
  <2>2. NoFault \/ \E k \in {"resync", "list", "patch", "late_patch"} : Fault(k)
    <3>1. CASE Resync(p)
      BY <3>1 DEF Resync, ResyncStart, ResyncEnd, NoFault
    <3>2. CASE Router(p)
      BY <3>2 DEF Router, RouterTick, RouterPatch, RouterDone, NoFault
    <3>3. CASE AbandonPatch(p)
      BY <3>3 DEF AbandonPatch
    <3> QED BY <3>1, <3>2, <3>3
  <2>3. faults' \in 0..MaxFaults
    BY <2>2 DEF NoFault, Fault
  <2> QED BY <2>1, <2>3
<1>2. /\ Counted(p) /\ Attempting(p) /\ MonitorSound(p)
      /\ gen[p].id \in Nat /\ term[p] \in 0..MaxTerms /\ monitor[p] \in Monitors
      /\ router[p] \in Routers
  BY DEF Routers
<1>3. LET m == monitor[p] IN
      /\ \A b \in BOOLEAN : Routed(m, b) \in Monitors /\ Sound(Routed(m, b), elected[p], proven[p])
      /\ RoutingFailed(m) \in Monitors /\ Sound(RoutingFailed(m), elected[p], proven[p])
      /\ Attempted(m, FALSE) \in Monitors /\ Sound(Attempted(m, FALSE), elected[p], proven[p])
  BY <1>2, RecordedMonitors DEF MonitorSound
<1>4. /\ router' \in [Proc -> Routers] /\ label' \in [Proc -> BOOLEAN] /\ late' \subseteq Patches
  <2>1. CASE Resync(p)
    BY <2>1 DEF Resync, ResyncStart, ResyncEnd, Routers
  <2>2. CASE RouterTick(p)
    <3> DEFINE publish == monitor[p].leader /\ monitor[p].leader_ready /\ ~monitor[p].degraded
    <3>1. publish \in BOOLEAN
      OBVIOUS
    <3>2. \/ router' = [router EXCEPT ![p] = [patching |-> TRUE, publish |-> publish,
                                              plan |-> RoutingPlan(p, publish)]]
          \/ UNCHANGED router
      BY <2>2 DEF RouterTick
    <3> HIDE DEF publish
    <3>3. [patching |-> TRUE, publish |-> publish, plan |-> RoutingPlan(p, publish)] \in Routers
      BY <3>1, PlanType DEF Routers
    <3>4. router' \in [Proc -> Routers]
      BY <3>2, <3>3 DEF Routers
    <3> QED BY <2>2, <3>4 DEF RouterTick
  <2>3. CASE RouterPatch(p)
    <3>1. PICK m \in router[p].plan :
            /\ label' \in {label, [label EXCEPT ![m.pod] = m.on]}
            /\ router' = [router EXCEPT ![p].plan = @ \ {m}] \/ router' = [router EXCEPT ![p] = Unrouted]
      BY <2>3 DEF RouterPatch
    <3>2. m \in Patches
      BY <1>2 DEF Routers
    <3>3. label' \in [Proc -> BOOLEAN] /\ UNCHANGED late
      BY <2>3, <3>1, <3>2 DEF RouterPatch, Patches
    <3>4. router' \in [Proc -> Routers]
      <4>1. [router[p] EXCEPT !.plan = @ \ {m}] \in Routers
        BY <1>2 DEF Routers
      <4>2. \A r \in Routers : [router EXCEPT ![p] = r] \in [Proc -> Routers]
        BY DEF Routers
      <4>3. [router EXCEPT ![p].plan = @ \ {m}] = [router EXCEPT ![p] = [router[p] EXCEPT !.plan = @ \ {m}]]
        OBVIOUS
      <4> QED BY ZenonT(60), <3>1, <4>1, <4>2, <4>3, RecordTypes
    <3> QED BY <3>3, <3>4
  <2>4. CASE RouterDone(p)
    BY <2>4, RecordTypes DEF RouterDone, Routers
  <2>5. CASE AbandonPatch(p)
    BY <1>2, <2>5, RecordTypes DEF AbandonPatch, Routers
  <2> QED BY <2>1, <2>2, <2>3, <2>4, <2>5 DEF Router
<1>5. /\ resync' \in [Proc -> Attempts] /\ proven' \in [Proc -> 0..MaxTerms]
      /\ \A q \in Proc \ {p} : resync'[q] = resync[q] /\ proven'[q] = proven[q]
      /\ Attempting(p)'
  <2>1. NoAttempt \in Attempts /\ [attempting |-> TRUE, term |-> term[p]] \in Attempts
    BY <1>2, RecordTypes DEF Attempts
  <2>2. CASE ResyncStart(p)
    <3>1. term[p] > 0
      BY <1>2, <2>2 DEF ResyncStart, Attempting, Counted, Spawned
    <3> QED BY <1>1, <1>2, <2>1, <2>2, <3>1 DEF ResyncStart, Attempting, Attempts
  <2>3. CASE ResyncEnd(p)
    <3>1. proven' \in [Proc -> 0..MaxTerms] /\ \A q \in Proc \ {p} : proven'[q] = proven[q]
      BY <2>3 DEF ResyncEnd
    <3> QED BY <1>1, <1>2, <2>1, <2>3, <3>1 DEF ResyncEnd, Attempting, Attempts, NoAttempt
  <2>4. CASE Router(p) \/ AbandonPatch(p)
    <3>1. UNCHANGED <<resync, proven>>
      BY <2>4 DEF Router, RouterTick, RouterPatch, RouterDone, AbandonPatch
    <3> QED BY <1>1, <1>2, <3>1 DEF Attempting, Attempts
  <2> QED BY <2>2, <2>3, <2>4 DEF Resync
<1>6. /\ monitor' \in [Proc -> Monitors]
      /\ \A q \in Proc \ {p} : monitor'[q] = monitor[q]
      /\ MonitorSound(p)'
  <2>1. CASE ResyncStart(p) \/ AbandonPatch(p)
    BY <1>1, <1>2, <2>1 DEF ResyncStart, AbandonPatch, MonitorSound
  <2>2. CASE ResyncEnd(p)
    <3>1. /\ resync[p].term \in Nat /\ resync[p].term > 0
      BY <1>2, <2>2 DEF ResyncEnd, Attempting
    <3>2. /\ Attempted(monitor[p], TRUE) \in Monitors
          /\ Sound(Attempted(monitor[p], TRUE), elected[p], resync[p].term)
      BY <1>2, <3>1, ProvenMonitors DEF MonitorSound
    <3>3. \/ /\ monitor' = [monitor EXCEPT ![p] = Attempted(@, TRUE)]
             /\ proven'[p] = resync[p].term
          \/ /\ monitor' = [monitor EXCEPT ![p] = Attempted(@, FALSE)] /\ proven'[p] = proven[p]
      BY <2>2 DEF ResyncEnd
    <3> QED BY ZenonT(60), <1>1, <1>3, <3>2, <3>3 DEF MonitorSound
  <2>3. CASE Router(p)
    <3>1. UNCHANGED proven
      BY <2>3 DEF Router, RouterTick, RouterPatch, RouterDone
    <3>2. \/ UNCHANGED monitor
          \/ monitor' = [monitor EXCEPT ![p] = RoutingFailed(@)]
          \/ monitor' = [monitor EXCEPT ![p] = Routed(@, router[p].publish)]
      BY <2>3 DEF Router, RouterTick, RouterPatch, RouterDone
    <3>3. router[p].publish \in BOOLEAN
      BY <1>2 DEF Routers
    <3> QED BY <1>1, <1>2, <1>3, <3>1, <3>2, <3>3 DEF MonitorSound
  <2> QED BY <2>1, <2>2, <2>3 DEF Resync
<1>7. TypeOK' /\ TargetIsRunning'
  BY <1>1, <1>4, <1>5, <1>6 DEF TargetIsRunning, Routers, Attempts
<1>8. ASSUME NEW q \in Proc PROVE Counted(q)' /\ Attempting(q)' /\ MonitorSound(q)'
  <2>1. Counted(q) /\ Attempting(q) /\ MonitorSound(q)
    OBVIOUS
  <2>2. Counted(q)'
    BY <1>1, <2>1 DEF Counted, Spawned
  <2>3. Attempting(q)' /\ MonitorSound(q)'
    BY <1>1, <1>5, <1>6, <2>1 DEF Attempting, MonitorSound
  <2> QED BY <2>2, <2>3
<1> QED BY <1>7, <1>8
-----------------------------------------------------------------------------
\* The state after enable_leader_election satisfies the invariant.
LEMMA InvInit == ASSUME Bounds PROVE Init => IInv
<1> SUFFICES ASSUME Init PROVE IInv
  OBVIOUS
<1>1. TypeOK
  <2>1. 0 \in 0..MaxTerms /\ 0 \in 0..MaxFaults
    BY DEF Bounds
  <2>2. [at |-> "none", id |-> 0, cancelled |-> FALSE] \in Gens
    BY <2>1 DEF Gens, Stages
  <2>3. label \in [Proc -> BOOLEAN]
    <3>1. PICK stale \in SUBSET Proc : label = [p \in Proc |-> p \in stale]
      BY DEF Init
    <3>2. \A p \in Proc : (p \in stale) \in BOOLEAN
      OBVIOUS
    <3> QED BY <3>1, <3>2, Zenon
  <2>4. /\ monitor \in [Proc -> Monitors] /\ gen \in [Proc -> Gens]
        /\ resync \in [Proc -> Attempts] /\ router \in [Proc -> Routers]
    BY <2>2, FreshMonitors, RecordTypes DEF Init
  <2> QED BY <2>1, <2>3, <2>4 DEF Init, TypeOK, Gens, Attempts, Routers
<1>2. TargetIsRunning
  BY DEF Init, TargetIsRunning
<1>3. ASSUME NEW p \in Proc PROVE Counted(p) /\ Attempting(p) /\ MonitorSound(p)
  <2>1. /\ ~elected[p] /\ term[p] = 0 /\ monitor[p] = Follower /\ resync[p] = NoAttempt
        /\ gen[p].at = "none" /\ gen[p].id = 0 /\ elected[p] = FALSE
    BY DEF Init
  <2>2. Sound(Follower, FALSE, proven[p])
    BY FreshMonitors
  <2>3. MonitorSound(p)
    BY <2>1, <2>2, Zenon DEF MonitorSound
  <2> QED BY <2>1, <2>3 DEF Counted, Spawned, Attempting, NoAttempt
<1> QED BY <1>1, <1>2, <1>3 DEF IInv

\* Every step of the replicas, the election and the API server preserves it.
LEMMA InvStep == ASSUME Bounds PROVE IInv /\ [Next]_vars => IInv'
<1> SUFFICES ASSUME IInv, [Next]_vars PROVE IInv'
  OBVIOUS
<1>1. ASSUME NEW m \in late, LandPatch(m) PROVE IInv'
  <2>1. m \in Patches
    BY DEF IInv, TypeOK
  <2> QED BY <1>1, <2>1
    DEF LandPatch, Patches, IInv, TypeOK, TargetIsRunning, Counted, Spawned, Attempting, MonitorSound
<1>2. CASE UNCHANGED vars
  BY <1>2 DEF vars, IInv, TypeOK, TargetIsRunning, Counted, Spawned, Attempting, MonitorSound
<1> QED
  BY <1>1, <1>2, ElectionStep, SupervisionStep, GenerationStep, LoopStep DEF Next

\* Hints are forwarded only to a generation that runs, and a replica that answers
\* ready is elected, has completed a resync as leader and had its label published
\* (ReconcileDispatcher, RecoveryMonitor, supervise_leader_generations): for any
\* number of replicas, terms and faults, however leadership flaps while a
\* generation begins, is cancelled or is being joined.
THEOREM GenerationsAreSafe == ASSUME Bounds PROVE Spec => []GenerationsSafe
<1>1. IInv => GenerationsSafe
  BY DEF IInv, GenerationsSafe, TypeOK, ReadyIsEarned, MonitorSound, Sound
<1> QED BY <1>1, InvInit, InvStep, PTL DEF Spec

----------------------------------------------------------------------------
(* The caches of the App client                                             *)

CallStages == {"idle", "resolve", "probed", "mint", "ok", "gone", "rejected"}
CallTypes ==
  [at : CallStages, next : Nat, id : 0..MaxInstalls, got : 0..MaxInstalls, retried : BOOLEAN]
Tokens == [repos : SUBSET Repo, id : 0..MaxInstalls]

\* A call that resolves is at a repository of its set, and once one is resolved
\* it has an installation.
Fits(c, k) ==
  /\ k.at \in {"resolve", "probed"} => k.next \in DOMAIN Scope[c]
  /\ k.at \in {"resolve", "probed"} /\ k.next > 1 => k.id # 0
  /\ k.at \in {"mint", "ok"} => k.id # 0

\* What a call holds about a repository that did not change since an eviction met
\* no call with it is what GitHub says.
Knows(c, k, r) ==
  /\ k.at \in {"resolve", "probed"} =>
       \A i \in DOMAIN Scope[c] : i < k.next /\ Scope[c][i] = r => k.id = inst[r]
  /\ k.at = "probed" /\ Scope[c][k.next] = r => k.got = inst[r]
  /\ k.at \in {"mint", "ok"} /\ r \in N!ToSet(Scope[c]) => k.id = inst[r]

CachesType ==
  /\ inst \in [Repo -> 0..MaxInstalls] /\ ids \in 0..MaxInstalls /\ hooks \subseteq Repo
  /\ instCache \in [Repo -> 0..MaxInstalls] /\ tokCache \in [N!Keys -> Tokens]
  /\ call \in [Caller -> CallTypes] /\ clean \subseteq Repo

\* Neither cache disagrees with GitHub about r.
Fresh(r) ==
  /\ instCache[r] \in {0, inst[r]}
  /\ \A k \in N!Keys : r \in k /\ tokCache[k] # N!NoToken => tokCache[k].id = inst[r]

CallsFit == \A c \in Caller : Fits(c, call[c]) /\ \A r \in clean : Knows(c, call[c], r)

CachesInv ==
  /\ CachesType /\ N!ServedIsAsked /\ CallsFit
  /\ \A r \in clean : Fresh(r)

LEMMA ScopeFacts ==
  ASSUME NEW c \in Caller
  PROVE  /\ Scope[c] \in Seq(Repo) /\ 1 \in DOMAIN Scope[c]
         /\ DOMAIN Scope[c] = 1..Len(Scope[c]) /\ Len(Scope[c]) \in Nat
         /\ \A i \in DOMAIN Scope[c] : Scope[c][i] \in Repo
         /\ N!ToSet(Scope[c]) \subseteq Repo /\ N!TokenKey(Scope[c]) \in N!Keys
         /\ \A r \in N!ToSet(Scope[c]) : \E i \in DOMAIN Scope[c] : Scope[c][i] = r
<1>1. Scope[c] \in Seq(Repo) /\ Scope[c] # <<>>
  BY CachesAssumption
<1>2. N!ToSet(Scope[c]) \subseteq Repo
  BY <1>1 DEF N!ToSet
<1> QED BY <1>1, <1>2 DEF N!ToSet, N!Keys

LEMMA NoCallFits ==
  /\ N!NoCall \in CallTypes /\ N!NoToken \in Tokens
  /\ \A c, r : Fits(c, N!NoCall) /\ Knows(c, N!NoCall, r)
BY CachesAssumption DEF N!NoCall, N!NoToken, CallTypes, CallStages, Tokens, Fits, Knows

\* A call that begins, or starts over, knows nothing yet.
LEMMA FreshCall ==
  ASSUME NEW c \in Caller, NEW again \in BOOLEAN
  PROVE  LET k == [N!NoCall EXCEPT !.at = "resolve", !.next = 1, !.retried = again] IN
         /\ k \in CallTypes /\ Fits(c, k)
         /\ \A r : Knows(c, k, r)
<1> DEFINE k == [N!NoCall EXCEPT !.at = "resolve", !.next = 1, !.retried = again]
<1>1. N!NoCall \in CallTypes
  BY NoCallFits
<1>2. k.at = "resolve" /\ k.next = 1 /\ k \in CallTypes
  BY <1>1 DEF CallTypes, CallStages
<1> HIDE DEF k
<1>3. \A i \in DOMAIN Scope[c] : ~(i < 1)
  BY ScopeFacts
<1>4. Fits(c, k) /\ \A r : Knows(c, k, r)
  BY <1>2, <1>3, ScopeFacts DEF Fits, Knows
<1> QED BY <1>2, <1>4 DEF k

\* One call moves, GitHub and the evictions stand still.
LEMMA CallMoves ==
  ASSUME CachesInv, NEW c \in Caller, NEW k \in CallTypes, Fits(c, k),
         \A r \in clean : Knows(c, k, r),
         call' = [call EXCEPT ![c] = k], UNCHANGED <<inst, clean>>
  PROVE  call' \in [Caller -> CallTypes] /\ CallsFit'
<1>1. call' \in [Caller -> CallTypes]
  BY DEF CachesInv, CachesType
<1>2. call'[c] = k /\ \A d \in Caller \ {c} : call'[d] = call[d]
  BY DEF CachesInv, CachesType
<1>3. ASSUME NEW d \in Caller
      PROVE  Fits(d, call'[d]) /\ \A r \in clean : Knows(d, call'[d], r)
  BY <1>2 DEF CachesInv, CallsFit
<1>4. \A d, x, r : Knows(d, x, r)' <=> Knows(d, x, r)
  BY DEF Knows
<1>5. CallsFit'
  BY <1>3 DEF CallsFit, Fits, Knows
<1> QED BY <1>1, <1>5

\* Nothing moves but one call.
LEMMA OnlyCall ==
  ASSUME CachesInv, NEW c \in Caller, NEW k \in CallTypes, Fits(c, k),
         \A r \in clean : Knows(c, k, r),
         call' = [call EXCEPT ![c] = k], UNCHANGED <<inst, ids, hooks, clean, instCache, tokCache>>
  PROVE  CachesInv'
<1>1. call' \in [Caller -> CallTypes] /\ CallsFit'
  BY CallMoves
<1> QED BY <1>1 DEF CachesInv, CachesType, Fresh, N!ServedIsAsked

\* Another repository of the set is resolved to id, which is what GitHub says if
\* the repository is clean.
LEMMA ResolvedStep ==
  ASSUME CachesInv, NEW c \in Caller, call[c].at \in {"resolve", "probed"},
         NEW id \in 1..MaxInstalls, N!Resolved(c, id), UNCHANGED <<inst, clean>>,
         Scope[c][call[c].next] \in clean => id = inst[Scope[c][call[c].next]]
  PROVE  call' \in [Caller -> CallTypes] /\ CallsFit'
<1> DEFINE o == call[c]
           k == [o EXCEPT !.id = id, !.got = 0, !.next = o.next + 1,
                          !.at = IF o.next = Len(Scope[c]) THEN "mint" ELSE "resolve"]
<1>1. o \in CallTypes /\ Fits(c, o) /\ \A r \in clean : Knows(c, o, r)
  BY DEF CachesInv, CachesType, CallsFit
<1>2. o.next \in DOMAIN Scope[c]
  BY <1>1 DEF Fits
<1>3. CASE o.id # 0 /\ o.id # id
  <2>1. call' = [call EXCEPT ![c] = N!NoCall]
    BY <1>3 DEF N!Resolved, N!Finish
  <2> QED BY <2>1, NoCallFits, CallMoves
<1>4. CASE ~(o.id # 0 /\ o.id # id)
  <2>1. call' = [call EXCEPT ![c] = k]
    BY <1>4 DEF N!Resolved
  <2>5. /\ id \in 0..MaxInstalls /\ 0 \in 0..MaxInstalls /\ o.next + 1 \in Nat
        /\ (IF o.next = Len(Scope[c]) THEN "mint" ELSE "resolve") \in CallStages
    BY <1>1, CachesAssumption DEF CallTypes, CallStages
  <2>6. k \in CallTypes
    BY <1>1, <2>5 DEF CallTypes
  <2>2. /\ k.id = id /\ k.next = o.next + 1
        /\ k.at = IF o.next = Len(Scope[c]) THEN "mint" ELSE "resolve"
    BY <1>1 DEF CallTypes
  <2> HIDE DEF k
  <2>3. Fits(c, k)
    BY <1>2, <2>2, ScopeFacts, CachesAssumption DEF Fits
  <2>4. ASSUME NEW r \in clean
        PROVE  Knows(c, k, r)
    <3>1. ASSUME NEW i \in DOMAIN Scope[c], i <= o.next, Scope[c][i] = r
          PROVE  id = inst[r]
      <4>1. CASE i = o.next
        BY <4>1, <3>1
      <4>2. CASE i # o.next
        <5>1. i < o.next /\ o.next > 1
          BY <4>2, <3>1, <1>2, ScopeFacts
        <5>2. o.id = inst[r] /\ o.id # 0
          BY <5>1, <3>1, <1>1 DEF Knows, Fits
        <5> QED BY <5>2, <1>4
      <4> QED BY <4>1, <4>2
    <3>2. ASSUME NEW i \in DOMAIN Scope[c], i < k.next
          PROVE  i <= o.next
      BY <3>2, <2>2, <1>2, ScopeFacts
    <3>3. ASSUME NEW i \in DOMAIN Scope[c], k.at = "mint"
          PROVE  i <= o.next
      BY <3>3, <2>2, <1>2, ScopeFacts
    <3>4. k.at \in {"mint", "resolve"}
      BY <2>2
    <3> QED BY <3>1, <3>2, <3>3, <3>4, <2>2, ScopeFacts DEF Knows
  <2> QED BY <2>1, <2>6, <2>3, <2>4, CallMoves
<1> QED BY <1>3, <1>4

\* Caches that only lose entries stay in step with GitHub (invalidation, expiry).
LEMMA Emptier ==
  ASSUME CachesInv, UNCHANGED <<inst, ids, hooks, clean>>,
         instCache' \in [Repo -> 0..MaxInstalls], tokCache' \in [N!Keys -> Tokens],
         \A r \in Repo : instCache'[r] \in {0, instCache[r]},
         \A k \in N!Keys : tokCache'[k] \in {N!NoToken, tokCache[k]},
         call' \in [Caller -> CallTypes], CallsFit'
  PROVE  CachesInv'
<1>1. (N!ServedIsAsked)'
  BY DEF CachesInv, N!ServedIsAsked
<1>2. ASSUME NEW r \in clean
      PROVE  Fresh(r)'
  <2>1. r \in Repo /\ Fresh(r)
    BY DEF CachesInv, CachesType
  <2> QED BY <2>1 DEF Fresh
<1> QED BY <1>1, <1>2 DEF CachesInv, CachesType

LEMMA InvalidateEmpties ==
  ASSUME CachesInv, NEW rs, N!Invalidate(rs)
  PROVE  /\ instCache' \in [Repo -> 0..MaxInstalls] /\ tokCache' \in [N!Keys -> Tokens]
         /\ \A r \in Repo : instCache'[r] = IF r \in rs THEN 0 ELSE instCache[r]
         /\ \A k \in N!Keys : tokCache'[k] = IF k \cap rs # {} THEN N!NoToken ELSE tokCache[k]
BY CachesAssumption, NoCallFits DEF N!Invalidate, CachesInv, CachesType

LEMMA SameCalls ==
  ASSUME CachesInv, UNCHANGED <<call, inst>>, clean' \subseteq clean
  PROVE  call' \in [Caller -> CallTypes] /\ CallsFit'
BY DEF CachesInv, CachesType, CallsFit, Fits, Knows

\* A call looks a repository up, asks GitHub or is answered.
LEMMA ResolveStep ==
  ASSUME CachesInv, NEW c \in Caller, N!Resolve(c)
  PROVE  CachesInv'
<1> DEFINE r == Scope[c][call[c].next]
           k == [call[c] EXCEPT !.at = "probed", !.got = inst[r]]
<1>1. call[c] \in CallTypes /\ Fits(c, call[c]) /\ \A x \in clean : Knows(c, call[c], x)
  BY DEF CachesInv, CachesType, CallsFit
<1>2. call[c].at = "resolve" /\ call[c].next \in DOMAIN Scope[c] /\ r \in Repo
  BY <1>1, ScopeFacts DEF N!Resolve, Fits
<1>3. UNCHANGED <<inst, ids, hooks, clean, instCache, tokCache>>
  BY DEF N!Resolve, N!caches, N!outside
<1>4. CASE instCache[r] # 0
  <2>1. instCache[r] \in 1..MaxInstalls
    BY <1>4, <1>2, CachesAssumption DEF CachesInv, CachesType
  <2>2. r \in clean => instCache[r] = inst[r]
    BY <1>4 DEF CachesInv, Fresh
  <2>3. N!Resolved(c, instCache[r])
    BY <1>4 DEF N!Resolve
  <2>4. call' \in [Caller -> CallTypes] /\ CallsFit'
    BY <1>2, <1>3, <2>1, <2>2, <2>3, ResolvedStep
  <2> QED BY <1>3, <2>4 DEF CachesInv, CachesType, Fresh, N!ServedIsAsked
<1>5. CASE instCache[r] = 0
  <2>1. call' = [call EXCEPT ![c] = k]
    BY <1>5 DEF N!Resolve, CachesInv, CachesType
  <2>2. k \in CallTypes /\ k.at = "probed" /\ k.got = inst[r]
        /\ k.next = call[c].next /\ k.id = call[c].id
    BY <1>1, <1>2 DEF CallTypes, CallStages, CachesInv, CachesType
  <2> HIDE DEF k
  <2>3. Fits(c, k) /\ \A x \in clean : Knows(c, k, x)
    BY <1>1, <1>2, <2>2 DEF Fits, Knows
  <2> QED BY <1>3, <2>1, <2>2, <2>3, OnlyCall
<1> QED BY <1>4, <1>5

LEMMA CacheInstallationStep ==
  ASSUME CachesInv, NEW c \in Caller, N!CacheInstallation(c)
  PROVE  CachesInv'
<1> DEFINE r == Scope[c][call[c].next]
<1>1. call[c] \in CallTypes /\ Fits(c, call[c]) /\ \A x \in clean : Knows(c, call[c], x)
  BY DEF CachesInv, CachesType, CallsFit
<1>2. call[c].at = "probed" /\ call[c].next \in DOMAIN Scope[c] /\ r \in Repo
  BY <1>1, ScopeFacts DEF N!CacheInstallation, Fits
<1>3. UNCHANGED <<inst, ids, hooks, clean, tokCache>>
  BY DEF N!CacheInstallation, N!outside
<1>4. CASE call[c].got = 0
  <2>1. call' = [call EXCEPT ![c] = N!NoCall] /\ UNCHANGED instCache
    BY <1>4 DEF N!CacheInstallation, N!Finish
  <2> QED BY <1>3, <2>1, NoCallFits, OnlyCall
<1>5. CASE call[c].got # 0
  <2>1. call[c].got \in 1..MaxInstalls /\ call[c].got \in 0..MaxInstalls
    BY <1>5, <1>1, CachesAssumption DEF CallTypes
  <2>2. r \in clean => call[c].got = inst[r]
    BY <1>1, <1>2 DEF Knows
  <2>3. instCache' = [instCache EXCEPT ![r] = call[c].got] /\ N!Resolved(c, call[c].got)
    BY <1>5 DEF N!CacheInstallation
  <2>4. call' \in [Caller -> CallTypes] /\ CallsFit'
    BY <1>2, <1>3, <2>1, <2>2, <2>3, ResolvedStep
  <2>5. instCache' \in [Repo -> 0..MaxInstalls]
    BY <2>1, <2>3 DEF CachesInv, CachesType
  <2>6. \A x \in clean : Fresh(x)'
    BY <1>2, <1>3, <2>2, <2>3 DEF CachesInv, CachesType, Fresh
  <2> QED BY <1>3, <2>4, <2>5, <2>6 DEF CachesInv, CachesType, N!ServedIsAsked
<1> QED BY <1>4, <1>5

\* A call begins, is answered by POST access_tokens, or gives up.
LEMMA MintStep ==
  ASSUME CachesInv, NEW c \in Caller, N!MintToken(c)
  PROVE  CachesInv'
<1> DEFINE a == N!CreateInstallationToken(call[c].id, Scope[c])
           k == [call[c] EXCEPT !.at = a, !.next = 0,
                              !.id = IF a = "ok" THEN call[c].id ELSE 0]
<1>1. call[c] \in CallTypes /\ Fits(c, call[c]) /\ \A x \in clean : Knows(c, call[c], x)
  BY DEF CachesInv, CachesType, CallsFit
<1>2. call[c].at = "mint" /\ UNCHANGED <<inst, ids, hooks, clean, instCache, tokCache>>
  BY DEF N!MintToken, N!caches, N!outside
<1>7. call' = [call EXCEPT ![c] = k]
  BY DEF N!MintToken
<1>3. a \in {"gone", "rejected", "ok"}
  BY DEF N!CreateInstallationToken
<1> HIDE DEF a
<1>8. a \in CallStages /\ 0 \in Nat /\ 0 \in 0..MaxInstalls
      /\ (IF a = "ok" THEN call[c].id ELSE 0) \in 0..MaxInstalls
  BY <1>1, <1>3, CachesAssumption DEF CallTypes, CallStages
<1>4. k \in CallTypes
  BY <1>1, <1>8 DEF CallTypes
<1>5. k.at = a /\ (a = "ok" => k.id = call[c].id)
  BY <1>1 DEF CallTypes
<1> HIDE DEF k
<1>6. Fits(c, k) /\ \A x \in clean : Knows(c, k, x)
  BY <1>1, <1>2, <1>3, <1>5 DEF Fits, Knows
<1> QED BY <1>2, <1>4, <1>6, <1>7, OnlyCall

LEMMA CallEnds ==
  ASSUME CachesInv, NEW c \in Caller,
         (\E forced \in BOOLEAN : N!Begin(c, forced)) \/ N!TokenRejected(c)
  PROVE  CachesInv'
<1>1. UNCHANGED <<inst, ids, hooks, clean, instCache, tokCache>>
  BY DEF N!Begin, N!TokenRejected, N!caches, N!outside
<1> DEFINE k == [N!NoCall EXCEPT !.at = "resolve", !.next = 1]
<1>2. k \in CallTypes /\ k.at = "resolve" /\ k.next = 1
  BY NoCallFits DEF CallTypes, CallStages
<1> HIDE DEF k
<1>3. Fits(c, k) /\ \A r : Knows(c, k, r)
  BY <1>2, ScopeFacts DEF Fits, Knows
<1>4. call' = [call EXCEPT ![c] = k] \/ call' = [call EXCEPT ![c] = N!NoCall]
  BY DEF N!Begin, N!TokenRejected, N!Finish, k
<1> QED BY <1>1, <1>2, <1>3, <1>4, NoCallFits, OnlyCall

\* A vanished installation empties both caches for the set of the call.
LEMMA GoneStep ==
  ASSUME CachesInv, NEW c \in Caller, N!InstallationGone(c)
  PROVE  CachesInv'
<1>1. UNCHANGED <<inst, ids, hooks, clean>>
  BY DEF N!InstallationGone, N!outside
<1>2. CASE call[c].retried
  <2>1. call' = [call EXCEPT ![c] = N!NoCall] /\ UNCHANGED <<instCache, tokCache>>
    BY <1>2 DEF N!InstallationGone, N!Finish, N!caches
  <2> QED BY <1>1, <2>1, NoCallFits, OnlyCall
<1>3. CASE ~call[c].retried
  <2> DEFINE k == [N!NoCall EXCEPT !.at = "resolve", !.next = 1, !.retried = TRUE]
  <2>1. N!Invalidate(N!ToSet(Scope[c])) /\ call' = [call EXCEPT ![c] = k]
    BY <1>3 DEF N!InstallationGone
  <2>2. k \in CallTypes /\ Fits(c, k) /\ \A r : Knows(c, k, r)
    BY FreshCall
  <2> HIDE DEF k
  <2>3. call' \in [Caller -> CallTypes] /\ CallsFit'
    BY <1>1, <2>1, <2>2, CallMoves
  <2> QED BY <1>1, <2>1, <2>3, InvalidateEmpties, Emptier
<1> QED BY <1>2, <1>3

\* The token that is stored covers the set of the call, under its own key.
LEMMA StoreStep ==
  ASSUME CachesInv, NEW c \in Caller, N!StoreToken(c)
  PROVE  CachesInv'
<1> DEFINE token == [repos |-> N!ToSet(Scope[c]), id |-> call[c].id]
           key == N!TokenKey(Scope[c])
<1>1. call[c] \in CallTypes /\ Fits(c, call[c]) /\ \A x \in clean : Knows(c, call[c], x)
  BY DEF CachesInv, CachesType, CallsFit
<1>2. /\ call[c].at = "ok" /\ tokCache' = [tokCache EXCEPT ![key] = token]
      /\ call' = [call EXCEPT ![c] = N!NoCall]
      /\ UNCHANGED <<inst, ids, hooks, instCache, clean>>
  BY DEF N!StoreToken, N!Finish, N!outside
<1>3. key \in N!Keys /\ key = N!ToSet(Scope[c]) /\ token \in Tokens
  BY <1>1, ScopeFacts DEF N!TokenKey, Tokens, CallTypes
<1>4. call' \in [Caller -> CallTypes] /\ CallsFit'
  BY <1>2, NoCallFits, CallMoves
<1>5. tokCache' \in [N!Keys -> Tokens] /\ tokCache'[key] = token
      /\ \A k \in N!Keys \ {key} : tokCache'[k] = tokCache[k]
  BY <1>2, <1>3 DEF CachesInv, CachesType
<1>6. (N!ServedIsAsked)'
  BY <1>3, <1>5 DEF CachesInv, N!ServedIsAsked
<1>7. ASSUME NEW r \in clean
      PROVE  Fresh(r)'
  <2>1. r \in key => token.id = inst[r]
    BY <1>1, <1>2, <1>3 DEF Knows
  <2> QED BY <1>2, <1>5, <2>1 DEF CachesInv, Fresh
<1> QED BY <1>2, <1>4, <1>5, <1>6, <1>7 DEF CachesInv, CachesType

\* Time, the webhook and GitHub.
LEMMA TimeStep ==
  ASSUME CachesInv,
         (\E k \in N!Keys : N!TokenAges(k)) \/ (\E r \in Repo : N!EntryExpires(r))
  PROVE  CachesInv'
<1>1. call' \in [Caller -> CallTypes] /\ CallsFit'
  BY SameCalls DEF N!TokenAges, N!EntryExpires, N!outside
<1>2. ASSUME NEW k \in N!Keys, N!TokenAges(k)
      PROVE  CachesInv'
  <2>1. tokCache' = [tokCache EXCEPT ![k] = N!NoToken]
        /\ UNCHANGED <<inst, ids, hooks, clean, instCache>>
    BY <1>2 DEF N!TokenAges, N!outside
  <2>2. tokCache' \in [N!Keys -> Tokens]
        /\ \A x \in N!Keys : tokCache'[x] \in {N!NoToken, tokCache[x]}
    BY <2>1, NoCallFits DEF CachesInv, CachesType
  <2>3. instCache' \in [Repo -> 0..MaxInstalls]
        /\ \A r \in Repo : instCache'[r] \in {0, instCache[r]}
    BY <2>1 DEF CachesInv, CachesType
  <2> QED BY <1>1, <2>1, <2>2, <2>3, Emptier
<1>3. ASSUME NEW r \in Repo, N!EntryExpires(r)
      PROVE  CachesInv'
  <2>1. instCache' = [instCache EXCEPT ![r] = 0]
        /\ UNCHANGED <<inst, ids, hooks, clean, tokCache>>
    BY <1>3 DEF N!EntryExpires, N!outside
  <2>2. tokCache' \in [N!Keys -> Tokens]
        /\ \A x \in N!Keys : tokCache'[x] \in {N!NoToken, tokCache[x]}
    BY <2>1 DEF CachesInv, CachesType
  <2>3. instCache' \in [Repo -> 0..MaxInstalls]
        /\ \A x \in Repo : instCache'[x] \in {0, instCache[x]}
    BY <2>1, CachesAssumption DEF CachesInv, CachesType
  <2> QED BY <1>1, <2>1, <2>2, <2>3, Emptier
<1> QED BY <1>2, <1>3

\* What an eviction takes out is gone from both caches; it counts as evicted when
\* no call under way can bring it back.
LEMMA HandleStep ==
  ASSUME CachesInv, NEW hook \in SUBSET hooks, N!Handle(hook)
  PROVE  CachesInv'
<1>1. /\ N!Invalidate(hook) /\ UNCHANGED <<inst, ids, call>>
      /\ clean' = IF N!Unused(hook) THEN clean \cup hook ELSE clean
      /\ hooks' \subseteq Repo /\ hook \subseteq Repo
  BY DEF N!Handle, N!Evict, CachesInv, CachesType
<1>2. /\ instCache' \in [Repo -> 0..MaxInstalls] /\ tokCache' \in [N!Keys -> Tokens]
      /\ \A r \in Repo : instCache'[r] = IF r \in hook THEN 0 ELSE instCache[r]
      /\ \A k \in N!Keys : tokCache'[k] = IF k \cap hook # {} THEN N!NoToken ELSE tokCache[k]
  BY <1>1, InvalidateEmpties
<1>3. (N!ServedIsAsked)'
  BY <1>2 DEF CachesInv, N!ServedIsAsked
<1>4. ASSUME NEW r \in clean'
      PROVE  Fresh(r)'
  <2>1. r \in Repo /\ (r \in clean \/ r \in hook)
    BY <1>1 DEF CachesInv, CachesType
  <2> QED BY <1>1, <1>2, <2>1 DEF CachesInv, Fresh
<1>5. ASSUME NEW c \in Caller, NEW r \in clean'
      PROVE  Knows(c, call[c], r)
  <2>1. CASE r \in clean
    BY <2>1 DEF CachesInv, CallsFit
  <2>2. CASE r \notin clean
    <3>1. r \in hook /\ N!Unused(hook)
      BY <1>1, <2>2
    <3>2. call[c].at # "idle" => r \notin N!ToSet(Scope[c])
      BY <3>1 DEF N!Unused
    <3>3. Fits(c, call[c])
      BY DEF CachesInv, CallsFit
    <3> QED BY <3>2, <3>3 DEF Knows, Fits, N!ToSet
  <2> QED BY <2>1, <2>2
<1>6. CallsFit'
  BY <1>1, <1>5 DEF CachesInv, CallsFit, Fits, Knows
<1>7. clean' \subseteq Repo
  BY <1>1 DEF CachesInv, CachesType
<1> QED BY <1>1, <1>2, <1>3, <1>4, <1>6, <1>7 DEF CachesInv, CachesType

LEMMA GitHubStep ==
  ASSUME CachesInv, NEW rs \in SUBSET Repo,
         N!Uninstall(rs) \/ \E id \in 1..MaxInstalls : N!Install(rs, id)
  PROVE  CachesInv'
<1>1. /\ clean' = clean \ rs /\ UNCHANGED <<instCache, tokCache, call>>
      /\ \A r \in clean' : inst'[r] = inst[r]
  BY DEF N!Uninstall, N!Install, N!caches, CachesInv, CachesType
<1>2. inst' \in [Repo -> 0..MaxInstalls]
  BY CachesAssumption DEF N!Uninstall, N!Install, CachesInv, CachesType
<1>3. ids' \in 0..MaxInstalls /\ hooks' \subseteq Repo
  BY CachesAssumption DEF N!Uninstall, N!Install, CachesInv, CachesType
<1>4. (N!ServedIsAsked)'
  BY <1>1 DEF CachesInv, N!ServedIsAsked
<1>5. \A r \in clean' : Fresh(r)'
  BY <1>1 DEF CachesInv, Fresh
<1>6. CallsFit'
  BY <1>1 DEF CachesInv, CallsFit, Fits, Knows
<1> QED BY <1>1, <1>2, <1>3, <1>4, <1>5, <1>6 DEF CachesInv, CachesType

LEMMA CachesStep == CachesInv /\ [N!Next]_installationsVars => CachesInv'
<1> SUFFICES ASSUME CachesInv, [N!Next]_installationsVars
             PROVE  CachesInv'
  OBVIOUS
<1>1. CASE UNCHANGED installationsVars
  <2>1. CallsFit'
    BY <1>1, SameCalls DEF installationsVars
  <2> QED BY <1>1, <2>1 DEF installationsVars, CachesInv, CachesType, Fresh, N!ServedIsAsked
<1>2. ASSUME NEW c \in Caller, N!Advance(c)
      PROVE  CachesInv'
  BY <1>2, ResolveStep, CacheInstallationStep, MintStep, CallEnds, GoneStep, StoreStep
  DEF N!Advance
<1> QED BY <1>1, <1>2, CallEnds, TimeStep, HandleStep, GitHubStep DEF N!Next

LEMMA CachesInit == N!Init => CachesInv
<1> SUFFICES ASSUME N!Init
             PROVE  CachesInv
  OBVIOUS
<1>1. CachesType
  BY NoCallFits, CachesAssumption DEF N!Init, CachesType
<1>2. CallsFit
  BY NoCallFits DEF N!Init, CallsFit
<1> QED BY <1>1, <1>2 DEF N!Init, CachesInv, N!ServedIsAsked

LEMMA CachesInvGives == CachesInv => N!CachesSafe
<1> SUFFICES ASSUME CachesInv
             PROVE  N!CachesSafe
  OBVIOUS
<1>1. \A c \in Caller : call[c].at \in CallStages /\ call[c].id \in 0..MaxInstalls /\ Fits(c, call[c])
  BY DEF CachesInv, CachesType, CallTypes, CallsFit
<1>2. \A k \in N!Keys : tokCache[k].id \in 0..MaxInstalls
  BY DEF CachesInv, CachesType, Tokens
<1>3. N!TypeOK
  BY <1>1, <1>2, CachesAssumption DEF N!TypeOK, CallStages, CachesInv, CachesType, Fits
<1>4. N!EvictionHolds
  BY DEF N!EvictionHolds, CachesInv, Fresh
<1> QED BY <1>3, <1>4 DEF N!CachesSafe, CachesInv

\* For any repositories, callers, repository sets and interleaving of calls with
\* installs, removals and late, missing or reordered webhooks: a token is served
\* only for the set it was minted for, and once an eviction met no call under way
\* neither cache holds anything of the repository that GitHub no longer stands by
\* (github_app/mod.rs, routes/github_app_webhook).
THEOREM CachesAreSafe == PartSpec => []CachesSafe
<1> DEFINE I == part = "installations" => CachesInv
<1>1. PartInit => I
  BY CachesInit DEF PartInit
<1>2. I /\ [PartNext]_allVars => I'
  <2> SUFFICES ASSUME I, [PartNext]_allVars, part' = "installations"
               PROVE  CachesInv'
    OBVIOUS
  <2>1. part = "installations" /\ [N!Next]_installationsVars
    BY DEF PartNext, allVars
  <2> QED BY <2>1, CachesStep
<1>3. I => CachesSafe
  BY CachesInvGives DEF CachesSafe
<1> QED BY <1>1, <1>2, <1>3, PTL DEF PartSpec
-----------------------------------------------------------------------------
(* The feedback on work issues                                              *)

Writes == {"latch", "add", "say", "remove"}
Once == {"unrouted", "unauthorized"}
Words ==
  W!Labels \cup {"orphan", "retire", "pod", "idle", "terminal"} \cup UNION {Watches[s] : s \in Session}
CallRecords ==
  [act : Writes \cup {"kill", "spawn", "mint", "list"}, what : Words,
   s : Session \cup {0}, i : Issue \cup {0}]

\* A call names what its step needs, and the retired label never comes off.
WellFormed(c) ==
  /\ c \in CallRecords
  /\ c.act \in Writes => c.what \in W!Labels /\ c.i \in Issue
  /\ c.act \in {"kill", "spawn", "mint", "list"} => c.s \in Session
  /\ c.act = "remove" => c.what # "retired"

WorkShape ==
  /\ open \subseteq Session /\ regs \subseteq Session /\ orphans \subseteq Session
  /\ pod \in [Session -> W!Pods] /\ assignee \in [Issue -> W!Logins \cup {Nobody}]
  /\ rejects \subseteq Session \X Issue /\ handled \subseteq Issue
  /\ flags \in [Issue -> SUBSET W!Labels] /\ said \in [Issue -> [W!Notices -> Nat]]
  /\ \A c \in calls : WellFormed(c)
  /\ phase \in {"idle", "ack", "execute"} /\ (phase = "idle" => calls = {})
  /\ wFaults \in 0..MaxWorkFaults /\ changes \in 0..MaxEdits

\* A notice was posted once if its label is on, and never if it is off.
SaidOnce ==
  \A i \in Issue, n \in W!Notices :
    n[1] \in Once => said[i][n] <= 1 /\ (n[1] \notin flags[i] => said[i][n] = 0)

\* A notice still to be posted has not been, and has its label or waits for it; no
\* label is taken off in a pass that may post its notice.
SaysFollow ==
  /\ \A c \in calls :
       c.act = "say" /\ c.what \in Once
         => /\ said[c.i][<<c.what, c.s>>] = 0
            /\ \/ c.what \in flags[c.i]
               \/ \E d \in calls : d.act = "latch" /\ d.what = c.what /\ d.s = c.s /\ d.i = c.i
  /\ \A c, d \in calls :
       c.act = "remove" /\ c.what \in Once /\ d.act \in {"say", "latch"}
         => ~(d.what = c.what /\ d.i = c.i)

\* The retired label is on an issue or about to be.
Reached(i) ==
  "retired" \in flags[i] \/ \E c \in calls : c.act = "add" /\ c.what = "retired" /\ c.i = i

\* While nothing failed, an issue of a session to retire is reached, or a listing
\* that shows it, or the token for the listings, is to come.
RetiresReach ==
  /\ wFaults = 0 => \A i \in handled : Reached(i)
  /\ wFaults = 0 /\ phase = "execute" =>
       \A s \in orphans, i \in Issue : W!Matches(s, i) =>
         \/ Reached(i)
         \/ \E c \in calls : c.act = "mint" /\ c.s = s
         \/ \E c \in calls : c.act = "list" /\ c.what \in Watches[s] \cap Carries[i]

WorkInv == WorkShape /\ SaidOnce /\ SaysFollow /\ RetiresReach

LEMMA WorkNow ==
  ASSUME WorkInv, NEW c \in W!Now
  PROVE  /\ c \in calls /\ WellFormed(c) /\ c \in CallRecords
         /\ \A d \in calls : WellFormed(d) /\ d \in CallRecords /\ ~W!Before(d, c)
BY DEF W!Now, WorkInv, WorkShape, WellFormed

LEMMA CallIs ==
  ASSUME NEW act \in Writes \cup {"kill", "spawn", "mint", "list"}, NEW what \in Words,
         NEW s \in Session \cup {0}, NEW i \in Issue \cup {0}
  PROVE  LET c == W!Call(act, what, s, i)
         IN  c \in CallRecords /\ c.act = act /\ c.what = what /\ c.s = s /\ c.i = i
BY DEF W!Call, CallRecords

LEMMA SameCall ==
  ASSUME NEW c \in CallRecords, NEW d \in CallRecords,
         c.act = d.act, c.what = d.what, c.s = d.s, c.i = d.i
  PROVE  c = d
BY DEF CallRecords

LEMMA NoticesAre ==
  ASSUME NEW c \in CallRecords, c.what \in W!Labels
  PROVE  <<c.what, c.s>> \in W!Notices
BY DEF CallRecords, W!Notices

LEMMA OnceAreLabels == Once \subseteq W!Labels /\ {"picked_up", "retired"} \subseteq W!Labels \ Once
                       /\ W!Labels \subseteq Words
BY DEF Once, W!Labels, Words

\* A step that neither posts nor labels keeps the notices, if the calls it adds are
\* not about them and a label that is given up takes its notice with it.
LEMMA NoticesKept ==
  ASSUME WorkInv, UNCHANGED <<flags, said>>,
         \A c \in calls' : c \in calls \/ c.act \notin {"say", "latch", "remove"} \/ c.what \notin Once,
         \A c \in calls', d \in calls :
           /\ c.act = "say" /\ d.act = "latch" /\ d.what = c.what /\ d.s = c.s /\ d.i = c.i
           => d \in calls'
  PROVE  SaidOnce' /\ SaysFollow'
<1>1. SaidOnce'
  BY DEF WorkInv, SaidOnce
<1>2. ASSUME NEW c \in calls', c.act = "say", c.what \in Once
      PROVE  /\ said'[c.i][<<c.what, c.s>>] = 0
             /\ \/ c.what \in flags'[c.i]
                \/ \E d \in calls' : d.act = "latch" /\ d.what = c.what /\ d.s = c.s /\ d.i = c.i
  <2>1. c \in calls
    BY <1>2
  <2>2. /\ said[c.i][<<c.what, c.s>>] = 0
        /\ \/ c.what \in flags[c.i]
           \/ \E d \in calls : d.act = "latch" /\ d.what = c.what /\ d.s = c.s /\ d.i = c.i
    BY <1>2, <2>1 DEF WorkInv, SaysFollow
  <2> QED BY <1>2, <2>2
<1>3. ASSUME NEW c \in calls', NEW d \in calls', c.act = "remove", c.what \in Once,
             d.act \in {"say", "latch"}, d.what = c.what, d.i = c.i
      PROVE  FALSE
  BY <1>3 DEF WorkInv, SaysFollow
<1> QED BY <1>1, <1>2, <1>3 DEF SaysFollow

\* An issue stays reached unless a call to label it is lost.
LEMMA ReachKept ==
  ASSUME NEW i \in Issue, Reached(i),
         "retired" \in flags[i] => "retired" \in flags'[i],
         \A c \in calls : c.act = "add" /\ c.what = "retired" /\ c.i = i
           => c \in calls' \/ "retired" \in flags'[i]
  PROVE  Reached(i)'
BY DEF Reached

\* What is still to be retired stays so.
LEMMA RetiresKept ==
  ASSUME WorkInv, UNCHANGED <<phase, orphans, handled, wFaults>>,
         \A c \in calls : c.act \in {"mint", "list"} => c \in calls',
         \A i \in Issue : Reached(i) => Reached(i)'
  PROVE  RetiresReach'
<1>1. wFaults = 0 => \A i \in handled : Reached(i)'
  BY DEF WorkInv, WorkShape, RetiresReach
<1>2. ASSUME wFaults = 0, phase = "execute", NEW s \in orphans, NEW i \in Issue, W!Matches(s, i)
      PROVE  \/ Reached(i)'
             \/ \E c \in calls' : c.act = "mint" /\ c.s = s
             \/ \E c \in calls' : c.act = "list" /\ c.what \in Watches[s] \cap Carries[i]
  <2>1. \/ Reached(i)
        \/ \E c \in calls : c.act = "mint" /\ c.s = s
        \/ \E c \in calls : c.act = "list" /\ c.what \in Watches[s] \cap Carries[i]
    BY <1>2 DEF WorkInv, RetiresReach
  <2> QED BY <2>1
<1> QED BY <1>1, <1>2 DEF RetiresReach, W!Matches

LEMMA NoCleanPass == ASSUME wFaults' # 0 PROVE RetiresReach'
BY DEF RetiresReach

LEMMA WriteStep ==
  ASSUME WorkInv, NEW c \in W!Now, W!WriteIssue(c)
  PROVE  WorkInv'
<1>1. /\ c \in calls /\ WellFormed(c) /\ c \in CallRecords /\ c.act \in Writes
      /\ c.what \in W!Labels /\ c.i \in Issue /\ <<c.what, c.s>> \in W!Notices
      /\ c.act = "remove" => c.what # "retired"
      /\ \A d \in calls : WellFormed(d) /\ d \in CallRecords /\ ~W!Before(d, c)
  BY WorkNow, NoticesAre DEF W!WriteIssue, Writes, WellFormed
<1>2. /\ calls' = calls \ {c}
      /\ UNCHANGED <<open, assignee, rejects, changes, pod, regs, phase, orphans, handled, wFaults>>
  BY DEF W!WriteIssue, W!people
<1>3. /\ flags \in [Issue -> SUBSET W!Labels] /\ said \in [Issue -> [W!Notices -> Nat]]
      /\ \A i \in Issue : flags[i] \subseteq W!Labels /\ said[i] \in [W!Notices -> Nat]
  BY DEF WorkInv, WorkShape
<1>4. CASE c.act \in {"latch", "add"}
  <2>1. said' = said /\ flags' = [flags EXCEPT ![c.i] = flags[c.i] \cup {c.what}]
    BY <1>4 DEF W!WriteIssue
  <2>2. /\ flags' \in [Issue -> SUBSET W!Labels] /\ c.what \in flags'[c.i]
        /\ \A i \in Issue : flags[i] \subseteq flags'[i]
    BY <1>1, <1>3, <2>1
  <2>3. WorkShape'
    BY <1>1, <1>2, <2>1, <2>2 DEF WorkInv, WorkShape
  <2>4. SaidOnce'
    BY <2>1, <2>2 DEF WorkInv, SaidOnce
  <2>5. SaysFollow'
    <3>1. ASSUME NEW x \in calls', x.act = "say", x.what \in Once
          PROVE  /\ said'[x.i][<<x.what, x.s>>] = 0
                 /\ \/ x.what \in flags'[x.i]
                    \/ \E d \in calls' : d.act = "latch" /\ d.what = x.what /\ d.s = x.s /\ d.i = x.i
      <4>1. x \in calls /\ x.i \in Issue
        BY <1>1, <1>2, <3>1 DEF WellFormed, Writes
      <4>2. /\ said[x.i][<<x.what, x.s>>] = 0
            /\ \/ x.what \in flags[x.i]
               \/ \E d \in calls : d.act = "latch" /\ d.what = x.what /\ d.s = x.s /\ d.i = x.i
        BY <3>1, <4>1 DEF WorkInv, SaysFollow
      <4> QED BY <1>2, <2>1, <2>2, <4>1, <4>2
    <3>2. \A x, d \in calls' : x.act = "remove" /\ x.what \in Once /\ d.act \in {"say", "latch"}
            => ~(d.what = x.what /\ d.i = x.i)
      BY <1>2 DEF WorkInv, SaysFollow
    <3> QED BY <3>1, <3>2 DEF SaysFollow
  <2>6. \A i \in Issue : Reached(i) => Reached(i)'
    BY <1>2, <2>2, ReachKept
  <2>7. RetiresReach'
    BY <1>2, <1>4, <2>6, RetiresKept
  <2> QED BY <2>3, <2>4, <2>5, <2>7 DEF WorkInv
<1>5. CASE c.act = "say"
  <2>1. flags' = flags /\ said' = [said EXCEPT ![c.i][<<c.what, c.s>>] = said[c.i][<<c.what, c.s>>] + 1]
    BY <1>5 DEF W!WriteIssue
  <2>2. /\ said' \in [Issue -> [W!Notices -> Nat]]
        /\ said'[c.i][<<c.what, c.s>>] = said[c.i][<<c.what, c.s>>] + 1
        /\ \A i \in Issue, n \in W!Notices :
             i # c.i \/ n # <<c.what, c.s>> => said'[i][n] = said[i][n]
    BY <1>1, <1>3, <2>1
  <2>3. WorkShape'
    BY <1>1, <1>2, <2>1, <2>2 DEF WorkInv, WorkShape
  <2>4. c.what \in Once => said[c.i][<<c.what, c.s>>] = 0 /\ c.what \in flags[c.i]
    <3> SUFFICES ASSUME c.what \in Once
                 PROVE  said[c.i][<<c.what, c.s>>] = 0 /\ c.what \in flags[c.i]
      OBVIOUS
    <3>1. ASSUME NEW d \in calls, d.act = "latch", d.what = c.what, d.s = c.s, d.i = c.i
          PROVE  FALSE
      BY <1>1, <1>5, <3>1 DEF W!Before, W!Rank
    <3> QED BY <1>1, <1>5, <3>1 DEF WorkInv, SaysFollow
  <2>5. SaidOnce'
    <3>1. ASSUME NEW i \in Issue, NEW n \in W!Notices, n[1] \in Once
          PROVE  said'[i][n] <= 1 /\ (n[1] \notin flags'[i] => said'[i][n] = 0)
      <4>1. CASE i = c.i /\ n = <<c.what, c.s>>
        BY <2>1, <2>2, <2>4, <3>1, <4>1
      <4>2. CASE i # c.i \/ n # <<c.what, c.s>>
        BY <2>1, <2>2, <3>1, <4>2 DEF WorkInv, SaidOnce
      <4> QED BY <4>1, <4>2
    <3> QED BY <3>1 DEF SaidOnce
  <2>6. SaysFollow'
    <3>1. ASSUME NEW x \in calls', x.act = "say", x.what \in Once
          PROVE  /\ said'[x.i][<<x.what, x.s>>] = 0
                 /\ \/ x.what \in flags'[x.i]
                    \/ \E d \in calls' : d.act = "latch" /\ d.what = x.what /\ d.s = x.s /\ d.i = x.i
      <4>1. /\ x \in calls /\ x # c /\ x.i \in Issue /\ x \in CallRecords /\ x.what \in W!Labels
            /\ <<x.what, x.s>> \in W!Notices
        BY <1>1, <1>2, <3>1, NoticesAre DEF WellFormed, Writes
      <4>2. /\ said[x.i][<<x.what, x.s>>] = 0
            /\ \/ x.what \in flags[x.i]
               \/ \E d \in calls : d.act = "latch" /\ d.what = x.what /\ d.s = x.s /\ d.i = x.i
        BY <3>1, <4>1 DEF WorkInv, SaysFollow
      <4>3. x.i # c.i \/ <<x.what, x.s>> # <<c.what, c.s>>
        BY <1>1, <1>5, <3>1, <4>1, SameCall
      <4>4. said'[x.i][<<x.what, x.s>>] = said[x.i][<<x.what, x.s>>]
        BY <2>2, <4>1, <4>3
      <4> QED BY <1>2, <1>5, <2>1, <4>2, <4>4
    <3>2. \A x, d \in calls' : x.act = "remove" /\ x.what \in Once /\ d.act \in {"say", "latch"}
            => ~(d.what = x.what /\ d.i = x.i)
      BY <1>2 DEF WorkInv, SaysFollow
    <3> QED BY <3>1, <3>2 DEF SaysFollow
  <2>7. \A i \in Issue : Reached(i) => Reached(i)'
    BY <1>2, <1>5, <2>1, ReachKept
  <2>8. RetiresReach'
    BY <1>2, <1>5, <2>7, RetiresKept
  <2> QED BY <2>3, <2>5, <2>6, <2>8 DEF WorkInv
<1>6. CASE c.act = "remove"
  <2>1. /\ flags' = [flags EXCEPT ![c.i] = flags[c.i] \ {c.what}]
        /\ said' = [said EXCEPT ![c.i] = [n \in W!Notices |-> IF n[1] = c.what THEN 0 ELSE said[c.i][n]]]
    BY <1>6 DEF W!WriteIssue
  <2>2. /\ flags' \in [Issue -> SUBSET W!Labels] /\ said' \in [Issue -> [W!Notices -> Nat]]
        /\ \A i \in Issue : flags'[i] = IF i = c.i THEN flags[i] \ {c.what} ELSE flags[i]
        /\ \A i \in Issue, n \in W!Notices :
             said'[i][n] = IF i = c.i /\ n[1] = c.what THEN 0 ELSE said[i][n]
    BY <1>1, <1>3, <2>1
  <2>3. WorkShape'
    BY <1>1, <1>2, <2>2 DEF WorkInv, WorkShape
  <2>4. SaidOnce'
    <3>1. ASSUME NEW i \in Issue, NEW n \in W!Notices, n[1] \in Once
          PROVE  said'[i][n] <= 1 /\ (n[1] \notin flags'[i] => said'[i][n] = 0)
      <4>1. CASE i = c.i /\ n[1] = c.what
        BY <2>2, <4>1
      <4>2. CASE ~(i = c.i /\ n[1] = c.what)
        <5>1. said'[i][n] = said[i][n] /\ (n[1] \in flags'[i] <=> n[1] \in flags[i])
          BY <2>2, <4>2
        <5> QED BY <3>1, <5>1 DEF WorkInv, SaidOnce
      <4> QED BY <4>1, <4>2
    <3> QED BY <3>1 DEF SaidOnce
  <2>5. SaysFollow'
    <3>1. ASSUME NEW x \in calls', x.act = "say", x.what \in Once
          PROVE  /\ said'[x.i][<<x.what, x.s>>] = 0
                 /\ \/ x.what \in flags'[x.i]
                    \/ \E d \in calls' : d.act = "latch" /\ d.what = x.what /\ d.s = x.s /\ d.i = x.i
      <4>1. /\ x \in calls /\ x.i \in Issue /\ x \in CallRecords /\ x.what \in W!Labels
            /\ <<x.what, x.s>> \in W!Notices
        BY <1>1, <1>2, <3>1, NoticesAre DEF WellFormed, Writes
      <4>2. /\ said[x.i][<<x.what, x.s>>] = 0
            /\ \/ x.what \in flags[x.i]
               \/ \E d \in calls : d.act = "latch" /\ d.what = x.what /\ d.s = x.s /\ d.i = x.i
        BY <3>1, <4>1 DEF WorkInv, SaysFollow
      <4>3. ~(x.i = c.i /\ x.what = c.what)
        BY <1>1, <1>6, <3>1, <4>1 DEF WorkInv, SaysFollow
      <4>4. said'[x.i][<<x.what, x.s>>] = 0 /\ (x.what \in flags'[x.i] <=> x.what \in flags[x.i])
        BY <2>2, <4>1, <4>2, <4>3
      <4> QED BY <1>2, <1>6, <4>2, <4>4
    <3>2. \A x, d \in calls' : x.act = "remove" /\ x.what \in Once /\ d.act \in {"say", "latch"}
            => ~(d.what = x.what /\ d.i = x.i)
      BY <1>2 DEF WorkInv, SaysFollow
    <3> QED BY <3>1, <3>2 DEF SaysFollow
  <2>6. \A i \in Issue : Reached(i) => Reached(i)'
    BY <1>1, <1>2, <1>6, <2>2, ReachKept
  <2>7. RetiresReach'
    BY <1>2, <1>6, <2>6, RetiresKept
  <2> QED BY <2>3, <2>4, <2>5, <2>7 DEF WorkInv
<1> QED BY <1>1, <1>4, <1>5, <1>6 DEF Writes

LEMMA CallFailsStep ==
  ASSUME WorkInv, NEW c \in W!Now, W!CallFails(c)
  PROVE  WorkInv'
<1>1. /\ c \in calls /\ WellFormed(c) /\ c \in CallRecords
      /\ \A d \in calls : WellFormed(d) /\ d \in CallRecords
  BY WorkNow
<1>2. /\ wFaults < MaxWorkFaults /\ wFaults' = wFaults + 1 /\ calls' = W!Refused(c)
      /\ UNCHANGED <<open, assignee, rejects, changes, pod, flags, said, regs, phase, orphans, handled>>
  BY DEF W!CallFails, W!people
<1>3. /\ calls' \subseteq calls
      /\ c.act # "latch" => calls' = calls \ {c}
      /\ c.act = "latch" => calls' = calls \ {c, W!Call("say", c.what, c.s, c.i)}
  BY <1>2 DEF W!Refused
<1>4. WorkShape'
  BY <1>2, <1>3, WorkAssumption DEF WorkInv, WorkShape
<1>5. ASSUME NEW x \in calls', NEW d \in calls, x.act = "say", d.act = "latch",
             d.what = x.what, d.s = x.s, d.i = x.i
      PROVE  d \in calls'
  <2>1. CASE d # c
    <3>1. d # W!Call("say", c.what, c.s, c.i)
      BY <1>5 DEF W!Call
    <3> QED BY <1>2, <2>1, <3>1 DEF W!Refused
  <2>2. CASE d = c
    <3>1. /\ W!Call("say", c.what, c.s, c.i) \in CallRecords
          /\ W!Call("say", c.what, c.s, c.i).act = "say" /\ W!Call("say", c.what, c.s, c.i).what = c.what
          /\ W!Call("say", c.what, c.s, c.i).s = c.s /\ W!Call("say", c.what, c.s, c.i).i = c.i
      BY <1>1 DEF CallRecords, W!Call, Writes
    <3>2. x = W!Call("say", c.what, c.s, c.i)
      BY <1>1, <1>3, <1>5, <2>2, <3>1, SameCall
    <3> QED BY <1>3, <1>5, <2>2, <3>2
  <2> QED BY <2>1, <2>2
<1>6. SaidOnce' /\ SaysFollow'
  BY <1>2, <1>3, <1>5, NoticesKept
<1>7. RetiresReach'
  BY <1>2, NoCleanPass DEF WorkInv, WorkShape
<1> QED BY <1>4, <1>6, <1>7 DEF WorkInv

\* A pod is killed or started for the pass.
LEMMA PodCallStep ==
  ASSUME WorkInv, NEW c \in W!Now, W!Kill(c) \/ W!Spawn(c)
  PROVE  WorkInv'
<1>1. c \in calls /\ WellFormed(c) /\ c.act \in {"kill", "spawn"} /\ c.s \in Session
  BY WorkNow DEF W!Kill, W!Spawn, WellFormed
<1>2. /\ calls' = calls \ {c} /\ \E x \in W!Pods : pod' = [pod EXCEPT ![c.s] = x]
      /\ UNCHANGED <<open, assignee, rejects, changes, flags, said, regs, phase, orphans, handled, wFaults>>
  BY DEF W!Kill, W!Spawn, W!people, W!Pods
<1>3. WorkShape'
  BY <1>1, <1>2 DEF WorkInv, WorkShape
<1>4. SaidOnce' /\ SaysFollow'
  BY <1>1, <1>2, NoticesKept
<1>5. \A i \in Issue : Reached(i) => Reached(i)'
  BY <1>1, <1>2, ReachKept
<1>6. RetiresReach'
  BY <1>1, <1>2, <1>5, RetiresKept
<1> QED BY <1>3, <1>4, <1>6 DEF WorkInv

LEMMA RetireMintStep ==
  ASSUME WorkInv, NEW c \in W!Now, W!MintForRetire(c)
  PROVE  WorkInv'
<1>1. c \in calls /\ WellFormed(c) /\ c.act = "mint" /\ c.s \in Session
  BY WorkNow DEF W!MintForRetire, WellFormed
<1>2. /\ calls' = (calls \ {c}) \cup {W!Call("list", l, c.s, 0) : l \in Watches[c.s]}
      /\ handled' = {}
      /\ UNCHANGED <<open, assignee, rejects, changes, pod, flags, said, regs, phase, orphans, wFaults>>
  BY DEF W!MintForRetire, W!people
<1>3. \A l \in Watches[c.s] :
        /\ W!Call("list", l, c.s, 0) \in CallRecords /\ W!Call("list", l, c.s, 0).act = "list"
        /\ W!Call("list", l, c.s, 0).what = l /\ W!Call("list", l, c.s, 0).s = c.s
  BY <1>1 DEF CallRecords, W!Call, Words
<1>4. \A x \in calls' : x \in calls \/ (x.act = "list" /\ WellFormed(x))
  BY <1>1, <1>2, <1>3 DEF WellFormed, Writes
<1>5. WorkShape'
  <2>1. phase # "idle"
    BY <1>1 DEF WorkInv, WorkShape
  <2> QED BY <1>2, <1>4, <2>1 DEF WorkInv, WorkShape
<1>6. SaidOnce' /\ SaysFollow'
  BY <1>1, <1>2, <1>4, NoticesKept
<1>7. \A i \in Issue : Reached(i) => Reached(i)'
  BY <1>1, <1>2, ReachKept
<1>8. RetiresReach'
  <2>1. ASSUME wFaults = 0, phase = "execute", NEW s \in orphans, NEW i \in Issue, W!Matches(s, i)
        PROVE  \/ Reached(i)'
               \/ \E x \in calls' : x.act = "mint" /\ x.s = s
               \/ \E x \in calls' : x.act = "list" /\ x.what \in Watches[s] \cap Carries[i]
    <3>1. CASE s = c.s
      <4>1. PICK l \in Watches[s] : l \in Carries[i]
        BY <2>1 DEF W!Matches
      <4>2. W!Call("list", l, c.s, 0) \in calls'
        BY <1>2, <3>1
      <4> QED BY <1>3, <3>1, <4>1, <4>2
    <3>2. CASE s # c.s
      <4>1. \/ Reached(i)
            \/ \E x \in calls : x.act = "mint" /\ x.s = s
            \/ \E x \in calls : x.act = "list" /\ x.what \in Watches[s] \cap Carries[i]
        BY <2>1 DEF WorkInv, RetiresReach
      <4> QED BY <1>1, <1>2, <1>7, <3>2, <4>1
    <3> QED BY <3>1, <3>2
  <2> QED BY <1>2, <2>1 DEF RetiresReach, W!Matches
<1> QED BY <1>5, <1>6, <1>8 DEF WorkInv

LEMMA RetireListStep ==
  ASSUME WorkInv, NEW c \in W!Now, W!RetireListed(c)
  PROVE  WorkInv'
<1>1. c \in calls /\ WellFormed(c) /\ c.act = "list" /\ c.s \in Session
  BY WorkNow DEF W!RetireListed, WellFormed
<1>2. /\ calls' = (calls \ {c}) \cup UNION {W!RetireCalls(i) : i \in W!ToRetire(c.what)}
      /\ handled' = handled \cup W!ToRetire(c.what)
      /\ UNCHANGED <<open, assignee, rejects, changes, pod, flags, said, regs, phase, orphans, wFaults>>
  BY DEF W!RetireListed, W!people
<1>3. /\ W!ToRetire(c.what) \subseteq Issue
      /\ \A i \in Issue : i \in W!ToRetire(c.what) <=>
           c.what \in Carries[i] /\ i \notin handled /\ "retired" \notin flags[i]
  BY DEF W!ToRetire
<1>4. \A i \in Issue : \A x \in W!RetireCalls(i) :
        WellFormed(x) /\ x.what \notin Once /\ x.act \in {"say", "add", "remove"}
  <2>1. {"picked_up", "retired"} \subseteq W!Labels \cap Words
    BY OnceAreLabels
  <2> QED BY <2>1 DEF W!RetireCalls, W!Call, WellFormed, CallRecords, Writes, Once
<1>5. \A i \in W!ToRetire(c.what) : Reached(i)'
  <2> SUFFICES ASSUME NEW i \in W!ToRetire(c.what) PROVE Reached(i)'
    OBVIOUS
  <2> DEFINE x == W!Call("add", "retired", 0, i)
  <2>1. x \in W!RetireCalls(i)
    BY DEF W!RetireCalls
  <2>2. x \in calls'
    BY <1>2, <2>1
  <2>3. x.act = "add" /\ x.what = "retired" /\ x.i = i
    BY DEF W!Call
  <2> QED BY <2>2, <2>3 DEF Reached
<1>6. \A x \in calls' : x \in calls \/ (WellFormed(x) /\ x.what \notin Once)
  BY <1>2, <1>3, <1>4
<1>7. WorkShape'
  <2>1. phase # "idle"
    BY <1>1 DEF WorkInv, WorkShape
  <2> QED BY <1>2, <1>3, <1>6, <2>1 DEF WorkInv, WorkShape
<1>8. SaidOnce' /\ SaysFollow'
  BY <1>1, <1>2, <1>6, NoticesKept
<1>9. \A i \in Issue : Reached(i) => Reached(i)'
  BY <1>1, <1>2, ReachKept
<1>10. RetiresReach'
  <2>1. wFaults = 0 => \A i \in handled' : Reached(i)'
    BY <1>2, <1>5, <1>9 DEF WorkInv, WorkShape, RetiresReach
  <2>2. ASSUME wFaults = 0, phase = "execute", NEW s \in orphans, NEW i \in Issue, W!Matches(s, i)
        PROVE  \/ Reached(i)'
               \/ \E x \in calls' : x.act = "mint" /\ x.s = s
               \/ \E x \in calls' : x.act = "list" /\ x.what \in Watches[s] \cap Carries[i]
    <3>1. \/ Reached(i)
          \/ \E x \in calls : x.act = "mint" /\ x.s = s
          \/ \E x \in calls : x.act = "list" /\ x.what \in Watches[s] \cap Carries[i]
      BY <2>2 DEF WorkInv, RetiresReach
    <3>2. CASE c.what \in Carries[i]
      <4>1. i \in W!ToRetire(c.what) \/ i \in handled \/ "retired" \in flags[i]
        BY <1>3, <3>2
      <4>2. i \in handled \/ "retired" \in flags[i] => Reached(i)
        BY <2>2 DEF WorkInv, RetiresReach, Reached
      <4> QED BY <1>5, <1>9, <4>1, <4>2
    <3>3. CASE c.what \notin Carries[i]
      BY <1>1, <1>2, <1>9, <3>1, <3>3
    <3> QED BY <3>2, <3>3
  <2> QED BY <1>2, <2>1, <2>2 DEF RetiresReach, W!Matches
<1> QED BY <1>7, <1>8, <1>10 DEF WorkInv

\* What the acknowledgement step derives from the labels it has read.
LEMMA AckPlanned ==
  ASSUME WorkInv, NEW seen \in SUBSET Issue
  PROVE  \A c \in W!AckPlan(open, seen) :
           /\ WellFormed(c)
           /\ c.what \in Once /\ c.act \in {"say", "latch"} => c.what \notin flags[c.i]
           /\ c.what \in Once /\ c.act = "remove" => c.what \in flags[c.i]
           /\ c.what \in Once /\ c.act = "say" =>
                \E d \in W!AckPlan(open, seen) :
                  d.act = "latch" /\ d.what = c.what /\ d.s = c.s /\ d.i = c.i
<1> DEFINE Fine(c, set) ==
      /\ WellFormed(c)
      /\ c.what \in Once /\ c.act \in {"say", "latch"} => c.what \notin flags[c.i]
      /\ c.what \in Once /\ c.act = "remove" => c.what \in flags[c.i]
      /\ c.what \in Once /\ c.act = "say" =>
           \E d \in set : d.act = "latch" /\ d.what = c.what /\ d.s = c.s /\ d.i = c.i
<1>1. \A act \in Writes, what \in W!Labels, s \in Session \cup {0}, i \in Issue :
        /\ act # "remove" \/ what # "retired" => WellFormed(W!Call(act, what, s, i))
        /\ W!Call(act, what, s, i).act = act /\ W!Call(act, what, s, i).what = what
        /\ W!Call(act, what, s, i).s = s /\ W!Call(act, what, s, i).i = i
  BY OnceAreLabels DEF WellFormed, CallRecords, W!Call, Writes
<1>2. ASSUME NEW i \in seen, NEW c \in W!UnroutedCalls(i, open)
      PROVE  Fine(c, W!UnroutedCalls(i, open))
  <2>1. \A act \in Writes :
          /\ WellFormed(W!Call(act, "unrouted", 0, i))
          /\ W!Call(act, "unrouted", 0, i).act = act /\ W!Call(act, "unrouted", 0, i).what = "unrouted"
          /\ W!Call(act, "unrouted", 0, i).s = 0 /\ W!Call(act, "unrouted", 0, i).i = i
    BY <1>1 DEF W!Labels
  <2>2. \/ c = W!Call("remove", "unrouted", 0, i) /\ "unrouted" \in flags[i]
        \/ /\ c \in {W!Call("latch", "unrouted", 0, i), W!Call("say", "unrouted", 0, i)}
           /\ "unrouted" \notin flags[i]
           /\ W!Call("latch", "unrouted", 0, i) \in W!UnroutedCalls(i, open)
    BY <1>2 DEF W!UnroutedCalls
  <2> QED BY <2>1, <2>2 DEF Writes
<1>3. ASSUME NEW s \in open, NEW i \in seen, NEW c \in W!SessionCalls(s, i)
      PROVE  Fine(c, W!SessionCalls(s, i))
  <2>0. s \in Session \cup {0}
    BY DEF WorkInv, WorkShape
  <2>1. \A act \in Writes, what \in {"unauthorized", "picked_up"} :
          /\ WellFormed(W!Call(act, what, s, i))
          /\ W!Call(act, what, s, i).act = act /\ W!Call(act, what, s, i).what = what
          /\ W!Call(act, what, s, i).s = s /\ W!Call(act, what, s, i).i = i
    BY <1>1, <2>0 DEF W!Labels
  <2>2. \/ c = W!Call("remove", "unauthorized", s, i) /\ "unauthorized" \in flags[i]
        \/ c \in {W!Call("say", "picked_up", s, i), W!Call("add", "picked_up", s, i)}
        \/ /\ c \in {W!Call("latch", "unauthorized", s, i), W!Call("say", "unauthorized", s, i)}
           /\ "unauthorized" \notin flags[i]
           /\ W!Call("latch", "unauthorized", s, i) \in W!SessionCalls(s, i)
    BY <1>3 DEF W!SessionCalls, W!AckCalls, W!RejectCalls
  <2> QED BY <2>1, <2>2 DEF Writes, Once
<1>4. ASSUME NEW c \in W!AckPlan(open, seen)
      PROVE  Fine(c, W!AckPlan(open, seen))
  <2>1. \/ \E i \in seen : c \in W!UnroutedCalls(i, open)
        \/ \E s \in open, i \in seen : c \in W!SessionCalls(s, i)
    BY DEF W!AckPlan
  <2>2. /\ \A i \in seen : W!UnroutedCalls(i, open) \subseteq W!AckPlan(open, seen)
        /\ \A s \in open, i \in seen : W!SessionCalls(s, i) \subseteq W!AckPlan(open, seen)
    BY DEF W!AckPlan
  <2> QED BY <1>2, <1>3, <2>1, <2>2
<1> QED BY <1>4

LEMMA BeginStep ==
  ASSUME WorkInv, W!BeginPass
  PROVE  WorkInv'
<1>1. PICK failed \in SUBSET W!WatchedBy(open) :
        /\ wFaults + Cardinality(failed) <= MaxWorkFaults
        /\ wFaults' = wFaults + Cardinality(failed)
        /\ calls' = W!AckPlan(open, {i \in Issue :
             Carries[i] \cap (W!WatchedBy(open) \ failed) # {}})
  BY DEF W!BeginPass, W!Cardinality, Cardinality
<1>2. /\ phase = "idle" /\ phase' = "ack" /\ regs' = open /\ orphans' = {} /\ calls = {}
      /\ UNCHANGED <<open, pod, assignee, rejects, flags, said, handled, changes>>
  BY DEF W!BeginPass, WorkInv, WorkShape
<1> DEFINE seen == {i \in Issue : Carries[i] \cap (W!WatchedBy(open) \ failed) # {}}
<1>3. seen \in SUBSET Issue /\ calls' = W!AckPlan(open, seen)
  BY <1>1
<1> HIDE DEF seen
<1>4. \A c \in calls' :
        /\ WellFormed(c)
        /\ c.what \in Once /\ c.act \in {"say", "latch"} => c.what \notin flags[c.i]
        /\ c.what \in Once /\ c.act = "remove" => c.what \in flags[c.i]
        /\ c.what \in Once /\ c.act = "say" =>
             \E d \in calls' : d.act = "latch" /\ d.what = c.what /\ d.s = c.s /\ d.i = c.i
  BY <1>3, AckPlanned
<1>5. Cardinality(failed) \in Nat
  <2>1. failed \subseteq UNION {Watches[s] : s \in Session}
    BY DEF WorkInv, WorkShape, W!WatchedBy
  <2> QED BY <2>1, WorkAssumption, FS_Subset, FS_CardinalityType
<1>6. WorkShape'
  <2>1. wFaults' \in 0..MaxWorkFaults
    BY <1>1, <1>5, WorkAssumption DEF WorkInv, WorkShape
  <2> QED BY <1>2, <1>4, <2>1 DEF WorkInv, WorkShape
<1>7. SaidOnce'
  BY <1>2 DEF WorkInv, SaidOnce
<1>8. SaysFollow'
  <2>1. ASSUME NEW c \in calls', c.act = "say", c.what \in Once
        PROVE  said'[c.i][<<c.what, c.s>>] = 0
    <3>1. c.i \in Issue /\ <<c.what, c.s>> \in W!Notices /\ <<c.what, c.s>>[1] = c.what
      BY <1>4, <2>1, NoticesAre DEF WellFormed, Writes
    <3> QED BY <1>2, <1>4, <2>1, <3>1 DEF WorkInv, SaidOnce
  <2>2. ASSUME NEW c \in calls', NEW d \in calls', c.act = "remove", c.what \in Once,
               d.act \in {"say", "latch"}, d.what = c.what, d.i = c.i
        PROVE  FALSE
    BY <1>4, <2>2
  <2> QED BY <1>4, <2>1, <2>2 DEF SaysFollow
<1>9. RetiresReach'
  <2>1. wFaults' = 0 => wFaults = 0
    BY <1>1, <1>5 DEF WorkInv, WorkShape
  <2>2. wFaults = 0 => \A i \in handled : "retired" \in flags[i]
    BY <1>2 DEF WorkInv, RetiresReach, Reached
  <2> QED BY <1>2, <2>1, <2>2 DEF RetiresReach, Reached
<1> QED BY <1>6, <1>7, <1>8, <1>9 DEF WorkInv

LEMMA PlanStep ==
  ASSUME WorkInv, W!Plan
  PROVE  WorkInv'
<1>1. /\ phase = "ack" /\ calls = {} /\ phase' = "execute"
      /\ orphans' = {s \in Session \ regs : pod[s] = "live"}
      /\ calls' = UNION {W!PlanFor(s) : s \in Session}
      /\ UNCHANGED <<open, assignee, rejects, changes, pod, flags, said, regs, handled, wFaults>>
  BY DEF W!Plan, W!people
<1>2. ASSUME NEW s \in Session, NEW c \in W!PlanFor(s)
      PROVE  WellFormed(c) /\ c.act \in {"kill", "mint", "spawn"}
  <2>1. c \in {W!Call("kill", "orphan", s, 0), W!Call("mint", "retire", s, 0),
               W!Call("spawn", "pod", s, 0), W!Call("kill", "idle", s, 0),
               W!Call("kill", "terminal", s, 0)}
    BY <1>2 DEF W!PlanFor
  <2>2. \A act \in {"kill", "mint", "spawn"}, what \in {"orphan", "retire", "pod", "idle", "terminal"} :
          /\ W!Call(act, what, s, 0) \in CallRecords /\ W!Call(act, what, s, 0).act = act
          /\ W!Call(act, what, s, 0).s = s
    <3>1. ASSUME NEW what \in {"orphan", "retire", "pod", "idle", "terminal"} PROVE what \in Words
      BY Zenon DEF Words
    <3> QED BY <3>1 DEF W!Call, CallRecords
  <2>3. c \in CallRecords /\ c.act \in {"kill", "mint", "spawn"} /\ c.s = s
    BY <2>1, <2>2
  <2> QED BY <2>3 DEF WellFormed, Writes
<1>3. \A c \in calls' : WellFormed(c) /\ c.act \in {"kill", "mint", "spawn"}
  BY <1>1, <1>2
<1>4. WorkShape'
  BY <1>1, <1>3 DEF WorkInv, WorkShape
<1>5. SaidOnce' /\ SaysFollow'
  BY <1>1, <1>3, NoticesKept
<1>6. \A s \in orphans' : \E c \in calls' : c.act = "mint" /\ c.s = s
  <2>1. ASSUME NEW s \in orphans' PROVE W!Call("mint", "retire", s, 0) \in calls'
    <3>1. W!Call("mint", "retire", s, 0) \in W!PlanFor(s)
      BY <1>1, <2>1 DEF W!PlanFor
    <3> QED BY <1>1, <3>1
  <2> QED BY <2>1 DEF W!Call
<1>7. wFaults = 0 => \A i \in handled : "retired" \in flags[i]
  BY <1>1 DEF WorkInv, RetiresReach, Reached
<1> QED BY <1>1, <1>4, <1>5, <1>6, <1>7 DEF WorkInv, RetiresReach, Reached

\* The pass ends or is given up; people and pods change what it does not look at.
LEMMA OtherSteps ==
  ASSUME WorkInv,
         \/ W!EndPass \/ W!Crash \/ W!People \/ UNCHANGED workVars
         \/ \E s \in Session : W!PodGone(s) \/ W!PodExits(s)
  PROVE  WorkInv'
<1>1. CASE W!EndPass
  <2>1. /\ phase = "execute" /\ calls = {} /\ phase' = "idle" /\ calls' = {}
        /\ UNCHANGED <<open, assignee, rejects, changes, pod, flags, said, regs, orphans, handled, wFaults>>
    BY <1>1 DEF W!EndPass, W!people
  <2>2. WorkShape' /\ RetiresReach'
    BY <2>1 DEF WorkInv, WorkShape, RetiresReach, Reached
  <2> QED BY <2>1, <2>2, NoticesKept DEF WorkInv
<1>2. CASE W!Crash
  <2>1. /\ wFaults < MaxWorkFaults /\ wFaults' = wFaults + 1 /\ phase' = "idle" /\ calls' = {}
        /\ UNCHANGED <<open, assignee, rejects, changes, pod, flags, said, regs, orphans, handled>>
    BY <1>2 DEF W!Crash, W!people
  <2>2. WorkShape'
    BY <2>1, WorkAssumption DEF WorkInv, WorkShape
  <2>3. RetiresReach'
    BY <2>1, NoCleanPass DEF WorkInv, WorkShape
  <2> QED BY <2>1, <2>2, <2>3, NoticesKept DEF WorkInv
<1>3. CASE W!People
  <2>0. /\ open \subseteq Session /\ assignee \in [Issue -> W!Logins \cup {Nobody}]
        /\ rejects \subseteq Session \X Issue /\ changes \in 0..MaxEdits
    BY DEF WorkInv, WorkShape
  <2>3. /\ changes' \in 0..MaxEdits
        /\ UNCHANGED <<pod, flags, said, regs, calls, phase, orphans, handled, wFaults>>
    BY <1>3, <2>0, WorkAssumption DEF W!People
  <2>4. open' \subseteq Session
    BY <1>3, <2>0 DEF W!People
  <2>5. assignee' \in [Issue -> W!Logins \cup {Nobody}]
    BY <1>3, <2>0 DEF W!People
  <2>6. rejects' \subseteq Session \X Issue
    <3>1. \A s \in Session, i \in Issue : <<s, i>> \in Session \X Issue
      OBVIOUS
    <3>2. \/ rejects' = rejects
          \/ \E s \in Session, i \in Issue : rejects' = (rejects \ {<<s, i>>}) \cup ({<<s, i>>} \ rejects)
      BY <1>3 DEF W!People
    <3> QED BY <2>0, <3>1, <3>2
  <2>1. /\ changes' \in 0..MaxEdits /\ open' \subseteq Session
        /\ UNCHANGED <<pod, flags, said, regs, calls, phase, orphans, handled, wFaults>>
        /\ assignee' \in [Issue -> W!Logins \cup {Nobody}] /\ rejects' \subseteq Session \X Issue
    BY <2>3, <2>4, <2>5, <2>6
  <2>2. WorkShape' /\ RetiresReach'
    BY <2>1 DEF WorkInv, WorkShape, RetiresReach, Reached, W!Matches
  <2> QED BY <2>1, <2>2, NoticesKept DEF WorkInv
<1>4. ASSUME NEW s \in Session, W!PodGone(s) \/ W!PodExits(s) PROVE WorkInv'
  <2>1. /\ pod' \in [Session -> W!Pods] /\ wFaults' \in 0..MaxWorkFaults
        /\ wFaults' = wFaults \/ wFaults' # 0
        /\ UNCHANGED <<open, assignee, rejects, changes, flags, said, regs, calls, phase, orphans, handled>>
    BY <1>4, WorkAssumption DEF W!PodGone, W!PodExits, W!people, W!Pods, WorkInv, WorkShape
  <2>2. WorkShape' /\ RetiresReach'
    BY <2>1 DEF WorkInv, WorkShape, RetiresReach, Reached, W!Matches
  <2> QED BY <2>1, <2>2, NoticesKept DEF WorkInv
<1>5. CASE UNCHANGED workVars
  BY <1>5 DEF workVars, WorkInv, WorkShape, SaidOnce, SaysFollow, RetiresReach, Reached, WellFormed,
     W!Matches
<1> QED BY <1>1, <1>2, <1>3, <1>4, <1>5

LEMMA WorkInit == ASSUME W!Init PROVE WorkInv
<1>1. /\ open = Session /\ pod = [s \in Session |-> "none"] /\ regs = {} /\ calls = {}
      /\ phase = "idle" /\ orphans = {} /\ handled = {} /\ wFaults = 0 /\ changes = 0
      /\ flags = [i \in Issue |-> {}] /\ said = [i \in Issue |-> [n \in W!Notices |-> 0]]
      /\ assignee \in [Issue -> {Nobody, Creator[1]}]
      /\ rejects \in SUBSET {<<1, i>> : i \in Issue}
  BY DEF W!Init
<1>2. assignee \in [Issue -> W!Logins \cup {Nobody}] /\ rejects \subseteq Session \X Issue
  BY <1>1, WorkAssumption DEF W!Logins
<1> QED BY <1>1, <1>2, WorkAssumption
        DEF WorkInv, WorkShape, SaidOnce, SaysFollow, RetiresReach, Reached, W!Pods

LEMMA WorkStep == ASSUME WorkInv, [W!Next]_workVars PROVE WorkInv'
<1>1. ASSUME NEW c \in W!Now,
             \/ W!WriteIssue(c) \/ W!Kill(c) \/ W!Spawn(c) \/ W!MintForRetire(c)
             \/ W!RetireListed(c) \/ W!CallFails(c)
      PROVE  WorkInv'
  BY <1>1, WriteStep, PodCallStep, RetireMintStep, RetireListStep, CallFailsStep
<1> QED BY <1>1, BeginStep, PlanStep, OtherSteps DEF W!Next, W!PassStep

LEMMA WorkInvGives == ASSUME WorkInv PROVE W!WorkSafe
<1>1. W!TypeOK
  BY DEF WorkInv, WorkShape, W!TypeOK, WellFormed, CallRecords
<1>2. W!NoticeOnce
  BY DEF WorkInv, SaidOnce, W!NoticeOnce, Once
<1>3. W!RetireNotifies
  BY DEF WorkInv, RetiresReach, Reached, W!RetireNotifies, W!CleanEnd
<1> QED BY <1>1, <1>2, <1>3 DEF W!WorkSafe

\* A notice about an issue is posted once while its label is on, whichever calls
\* fail and wherever the process stops; and a pass without a failure has put the
\* retired label on every issue of every session it retired (work_ack.rs: label
\* first, comment behind it; retire.rs: every label, every issue once).
THEOREM WorkIsSafe == PartSpec => []WorkSafe
<1> DEFINE I == part = "work" => WorkInv
<1>1. PartInit => I
  BY WorkInit DEF PartInit
<1>2. I /\ [PartNext]_allVars => I'
  <2> SUFFICES ASSUME I, [PartNext]_allVars, part' = "work"
               PROVE  WorkInv'
    OBVIOUS
  <2>1. part = "work" /\ [W!Next]_workVars
    BY DEF PartNext, allVars
  <2> QED BY <2>1, WorkStep
<1>3. I => WorkSafe
  BY WorkInvGives DEF WorkSafe
<1> QED BY <1>1, <1>2, <1>3, PTL DEF PartSpec
=============================================================================
