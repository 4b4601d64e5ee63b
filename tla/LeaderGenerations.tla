------------------------- MODULE LeaderGenerations -------------------------
(***************************************************************************)
(* What a replica does with its leadership: the supervisor that starts and *)
(* joins worker generations (leader_election.rs), the generation itself    *)
(* (main.rs), the dispatcher's target queue (reconcile/mod.rs), the        *)
(* readiness projection (recovery.rs) and the Service-routing label        *)
(* (leader_routing.rs).                                                    *)
(*                                                                         *)
(* The election is abstract: it flips a watch channel, which keeps only    *)
(* its last value.  A replica whose Lease ran out may still be elected     *)
(* beside its successor (LeaderElection, LeaderOwnsLease, bounds how long).*)
(* An aborted patch may still reach the API server later.                  *)
(***************************************************************************)
EXTENDS Naturals, FiniteSets

CONSTANTS
  Proc,       \* control-plane replicas; a replica's Pod carries its name
  Faults,     \* the kinds of fault this instance may inject
  MaxFaults,  \* bound: faults per behaviour
  MaxTerms    \* bound: acquisitions per replica

VARIABLES
  elected,   \* the value of the leadership watch channel
  unseen,    \* the channel changed since the supervisor last looked
  term,      \* acquisitions so far
  monitor,   \* RecoveryMonitor
  joining,   \* the supervisor awaits the cancelled generation
  gen,       \* the supervisor's worker generation
  target,    \* the dispatcher's active generation, 0 for none
  resync,    \* the full-resync coordinator: in an attempt, begun in which term
  proven,    \* the term in which the last successful attempt began
  router,    \* the routing loop: what it publishes and the patches left
  label,     \* the leader-serving label of each Pod
  late,      \* patches of aborted requests that have yet to land
  faults     \* faults so far

vars == <<elected, unseen, term, monitor, joining, gen, target, resync, proven, router,
          label, late, faults>>

Monitors ==
  [leader : BOOLEAN, leader_ready : BOOLEAN, routing_ready : BOOLEAN, ready : BOOLEAN,
   degraded : BOOLEAN]

Patches == [pod : Proc, on : BOOLEAN]

Stages == {"none", "spawned", "running", "withdrawing", "ended"}

TypeOK ==
  /\ elected \in [Proc -> BOOLEAN] /\ unseen \in [Proc -> BOOLEAN]
  /\ term \in [Proc -> 0..MaxTerms] /\ proven \in [Proc -> 0..MaxTerms]
  /\ monitor \in [Proc -> Monitors]
  /\ joining \in [Proc -> BOOLEAN]
  /\ gen \in [Proc -> [at : Stages, id : 0..MaxTerms, cancelled : BOOLEAN]]
  /\ target \in [Proc -> 0..MaxTerms]
  /\ resync \in [Proc -> [attempting : BOOLEAN, term : 0..MaxTerms]]
  /\ router \in [Proc -> [patching : BOOLEAN, publish : BOOLEAN, plan : SUBSET Patches]]
  /\ label \in [Proc -> BOOLEAN] /\ late \subseteq Patches
  /\ faults \in 0..MaxFaults

Follower ==
  [leader |-> FALSE, leader_ready |-> FALSE, routing_ready |-> FALSE, ready |-> FALSE,
   degraded |-> FALSE]

Unrouted == [patching |-> FALSE, publish |-> FALSE, plan |-> {}]

NoAttempt == [attempting |-> FALSE, term |-> 0]

\* Replicas after enable_leader_election, before the first claim.
Init ==
  /\ elected = [p \in Proc |-> FALSE] /\ unseen = [p \in Proc |-> TRUE]
  /\ term = [p \in Proc |-> 0] /\ proven = [p \in Proc |-> 0]
  /\ monitor = [p \in Proc |-> Follower]
  /\ joining = [p \in Proc |-> FALSE]
  /\ gen = [p \in Proc |-> [at |-> "none", id |-> 0, cancelled |-> FALSE]]
  /\ target = [p \in Proc |-> 0]
  /\ resync = [p \in Proc |-> NoAttempt]
  /\ router = [p \in Proc |-> Unrouted]
  /\ label \in {[p \in Proc |-> p \in stale] : stale \in SUBSET Proc} /\ late = {}
  /\ faults = 0

Fault(k) == k \in Faults /\ faults < MaxFaults /\ faults' = faults + 1

NoFault == faults' = faults
-----------------------------------------------------------------------------
\* RecoveryMonitor::record_leader_acquired.
Acquired(m) == [Follower EXCEPT !.leader = TRUE]

\* RecoveryMonitor::record_attempt.
Attempted(m, success) ==
  LET up == m.leader_ready \/ m.leader
  IN IF success
     THEN [m EXCEPT !.degraded = FALSE, !.leader_ready = up,
                    !.ready = m.leader /\ up /\ m.routing_ready]
     ELSE [m EXCEPT !.degraded = TRUE, !.leader_ready = FALSE, !.ready = FALSE]

\* Mutant of Routed: trusts the decision the round was started with.
RoutedFromSnapshot(m, published) ==
  [m EXCEPT !.routing_ready = published, !.ready = published /\ ~m.degraded]

\* RecoveryMonitor::record_leader_routing.
Routed(m, published) ==
  [m EXCEPT !.routing_ready = published /\ m.leader,
            !.ready = m.leader /\ m.leader_ready /\ published /\ ~m.degraded]

\* RecoveryMonitor::record_leader_routing_failure.
RoutingFailed(m) == [m EXCEPT !.routing_ready = FALSE, !.ready = FALSE]

\* RecoveryMonitor::mark_unavailable.
Unavailable(m) == [m EXCEPT !.ready = FALSE, !.degraded = TRUE]
-----------------------------------------------------------------------------
\* run_election_loop: acquisition and loss update the monitor, then the channel.
Win(p) ==
  /\ ~elected[p] /\ term[p] < MaxTerms
  /\ elected' = [elected EXCEPT ![p] = TRUE]
  /\ unseen' = [unseen EXCEPT ![p] = TRUE]
  /\ term' = [term EXCEPT ![p] = @ + 1]
  /\ monitor' = [monitor EXCEPT ![p] = Acquired(@)]
  /\ UNCHANGED <<joining, gen, target, resync, proven, router, label, late, faults>>

Lose(p) ==
  /\ elected[p]
  /\ elected' = [elected EXCEPT ![p] = FALSE]
  /\ unseen' = [unseen EXCEPT ![p] = TRUE]
  /\ monitor' = [monitor EXCEPT ![p] = Follower]
  /\ UNCHANGED <<term, joining, gen, target, resync, proven, router, label, late, faults>>

\* Every further claim of a follower records the holder it follows.
Follow(p) ==
  /\ ~elected[p]
  /\ monitor' = [monitor EXCEPT ![p] = Follower]
  /\ UNCHANGED <<elected, unseen, term, joining, gen, target, resync, proven, router, label,
                 late, faults>>

\* supervise_leader_generations, one turn of its loop: start a generation, or
\* stop forwarding hints, cancel the generation and wait for it.
Supervise(p) ==
  /\ ~joining[p] /\ unseen[p]
  /\ unseen' = [unseen EXCEPT ![p] = FALSE]
  /\ \/ /\ elected[p] /\ gen[p].at = "none"
        /\ gen' = [gen EXCEPT ![p].at = "spawned"]
        /\ UNCHANGED <<target, joining>>
     \/ /\ elected[p] /\ gen[p].at # "none"
        /\ UNCHANGED <<gen, target, joining>>
     \/ /\ ~elected[p]
        /\ target' = [target EXCEPT ![p] = 0]
        /\ gen' = [gen EXCEPT ![p].cancelled = gen[p].at # "none"]
        /\ joining' = [joining EXCEPT ![p] = gen[p].at # "none"]
  /\ UNCHANGED <<elected, term, monitor, resync, proven, router, label, late, faults>>

Joined(p) ==
  /\ joining[p] /\ gen[p].at = "ended"
  /\ gen' = [gen EXCEPT ![p].at = "none", ![p].cancelled = FALSE]
  /\ joining' = [joining EXCEPT ![p] = FALSE]
  /\ UNCHANGED <<elected, unseen, term, monitor, target, resync, proven, router, label, late,
                 faults>>
-----------------------------------------------------------------------------
\* run_worker_generation begins, cancelled or not: it installs its queue in the
\* dispatcher and spawns its loops; the first resync attempt is immediate.
Activate(p) ==
  /\ gen[p].at = "spawned"
  /\ gen' = [gen EXCEPT ![p].at = "running", ![p].id = @ + 1]
  /\ target' = [target EXCEPT ![p] = gen[p].id + 1]
  /\ resync' = [resync EXCEPT ![p] = [attempting |-> TRUE, term |-> term[p]]]
  /\ UNCHANGED <<elected, unseen, term, monitor, joining, proven, router, label, late, faults>>

\* ReconcileDispatcher::deactivate: only the generation that installed the target.
Deactivated(p) == IF target[p] = gen[p].id THEN 0 ELSE target[p]

\* Cancelled, or a loop has exited: stop forwarding, abort every loop and wait
\* for it, then give up the routing label.
StopGeneration(p) ==
  /\ gen[p].at = "running"
  /\ \/ gen[p].cancelled /\ NoFault /\ monitor' = [monitor EXCEPT ![p] = Routed(@, FALSE)]
     \/ Fault("task_exit") /\ monitor' = [monitor EXCEPT ![p] = Routed(Unavailable(@), FALSE)]
  /\ target' = [target EXCEPT ![p] = Deactivated(p)]
  /\ gen' = [gen EXCEPT ![p].at = "withdrawing"]
  /\ resync' = [resync EXCEPT ![p] = NoAttempt]
  /\ router' = [router EXCEPT ![p] = Unrouted]
  /\ UNCHANGED <<elected, unseen, term, joining, proven, label, late>>

\* The router's patch is accepted by the API server, the loop is aborted before
\* the answer, and the patch lands whenever it lands.
AbandonPatch(p) ==
  /\ gen[p].at = "running" /\ gen[p].cancelled
  /\ router[p].patching /\ \E m \in router[p].plan : late' = late \cup {m}
  /\ Fault("late_patch")
  /\ router' = [router EXCEPT ![p] = Unrouted]
  /\ UNCHANGED <<elected, unseen, term, monitor, joining, gen, target, resync, proven, label>>

LandPatch(m) ==
  /\ m \in late
  /\ late' = late \ {m}
  /\ label' = [label EXCEPT ![m.pod] = m.on]
  /\ UNCHANGED <<elected, unseen, term, monitor, joining, gen, target, resync, proven, router,
                 faults>>

\* The withdrawal at the end of a generation, which may fail.
Withdraw(p) ==
  /\ gen[p].at = "withdrawing"
  /\ \/ NoFault /\ label' = [label EXCEPT ![p] = FALSE] /\ UNCHANGED monitor
     \/ /\ Fault("patch") /\ UNCHANGED label
        /\ monitor' = [monitor EXCEPT ![p] = RoutingFailed(@)]
  /\ gen' = [gen EXCEPT ![p].at = "ended"]
  /\ UNCHANGED <<elected, unseen, term, joining, target, resync, proven, router, late>>
-----------------------------------------------------------------------------
\* run_resync_coordinator: attempt, record, sleep, attempt again.
ResyncStart(p) ==
  /\ gen[p].at = "running" /\ ~resync[p].attempting
  /\ resync' = [resync EXCEPT ![p] = [attempting |-> TRUE, term |-> term[p]]]
  /\ UNCHANGED <<elected, unseen, term, monitor, joining, gen, target, proven, router, label,
                 late, faults>>

ResyncEnd(p) ==
  /\ gen[p].at = "running" /\ resync[p].attempting
  /\ \/ /\ NoFault
        /\ monitor' = [monitor EXCEPT ![p] = Attempted(@, TRUE)]
        /\ proven' = [proven EXCEPT ![p] = resync[p].term]
     \/ /\ Fault("resync")
        /\ monitor' = [monitor EXCEPT ![p] = Attempted(@, FALSE)]
        /\ UNCHANGED proven
  /\ resync' = [resync EXCEPT ![p] = NoAttempt]
  /\ UNCHANGED <<elected, unseen, term, joining, gen, target, router, label, late>>

\* Mutant of RoutingPlan: labels left by former leaders are not cleared.
RoutingPlanOwnPod(p, publish) ==
  IF label[p] = publish THEN {} ELSE {[pod |-> p, on |-> publish]}

\* routing_plan: clear the other selected Pods, then select this one; or clear
\* only this one.
RoutingPlan(p, publish) ==
  IF publish
  THEN {[pod |-> q, on |-> FALSE] : q \in {q \in Proc \ {p} : label[q]}}
         \cup (IF label[p] THEN {} ELSE {[pod |-> p, on |-> TRUE]})
  ELSE IF label[p] THEN {[pod |-> p, on |-> FALSE]} ELSE {}

\* run_leader_routing_loop: decide from a snapshot of the monitor, list the Pods ...
RouterTick(p) ==
  LET publish == monitor[p].leader /\ monitor[p].leader_ready /\ ~monitor[p].degraded
  IN /\ gen[p].at = "running" /\ ~router[p].patching
     /\ \/ /\ NoFault
           /\ router' = [router EXCEPT ![p] =
                [patching |-> TRUE, publish |-> publish, plan |-> RoutingPlan(p, publish)]]
           /\ UNCHANGED monitor
        \/ /\ Fault("list")
           /\ monitor' = [monitor EXCEPT ![p] = RoutingFailed(@)]
           /\ UNCHANGED router
     /\ UNCHANGED <<elected, unseen, term, joining, gen, target, resync, proven, label, late>>

\* ... patch them one by one, the own Pod last; the first failure ends the round ...
RouterPatch(p) ==
  /\ gen[p].at = "running"
  /\ \E m \in router[p].plan :
       /\ m.pod = p => router[p].plan = {m}
       /\ \/ /\ NoFault
             /\ label' = [label EXCEPT ![m.pod] = m.on]
             /\ router' = [router EXCEPT ![p].plan = @ \ {m}]
             /\ UNCHANGED monitor
          \/ /\ Fault("patch")
             /\ label' \in {label, [label EXCEPT ![m.pod] = m.on]}
             /\ router' = [router EXCEPT ![p] = Unrouted]
             /\ monitor' = [monitor EXCEPT ![p] = RoutingFailed(@)]
  /\ UNCHANGED <<elected, unseen, term, joining, gen, target, resync, proven, late>>

\* ... and record what was published.
RouterDone(p) ==
  /\ gen[p].at = "running" /\ router[p].patching /\ router[p].plan = {}
  /\ router' = [router EXCEPT ![p] = Unrouted]
  /\ monitor' = [monitor EXCEPT ![p] = Routed(@, router[p].publish)]
  /\ UNCHANGED <<elected, unseen, term, joining, gen, target, resync, proven, label, late,
                 faults>>
-----------------------------------------------------------------------------
Router(p) == RouterTick(p) \/ RouterPatch(p) \/ RouterDone(p)

Resync(p) == ResyncStart(p) \/ ResyncEnd(p)

Generation(p) ==
  \/ Activate(p) \/ Withdraw(p)
  \/ gen[p].cancelled /\ StopGeneration(p)

Next ==
  \/ \E p \in Proc :
       \/ Win(p) \/ Lose(p) \/ Follow(p) \/ Supervise(p) \/ Joined(p)
       \/ Activate(p) \/ StopGeneration(p) \/ AbandonPatch(p) \/ Withdraw(p)
       \/ Resync(p) \/ Router(p)
  \/ \E m \in late : LandPatch(m)

Spec == Init /\ [][Next]_vars

Supervision(p) == Supervise(p) \/ Joined(p)

\* Every task of a replica makes progress, and an accepted patch lands.
Fairness ==
  /\ \A p \in Proc :
       /\ WF_vars(Supervision(p)) /\ WF_vars(Generation(p))
       /\ WF_vars(Resync(p)) /\ WF_vars(Router(p))
  /\ \A m \in Patches : WF_vars(LandPatch(m))

FairSpec == Spec /\ Fairness
-----------------------------------------------------------------------------
\* Dispatcher: a hint is forwarded only to the queue of a generation that still
\* runs; in particular a generation cancelled before it began leaves no target.
TargetIsRunning ==
  \A p \in Proc : target[p] # 0 => gen[p].at = "running" /\ gen[p].id = target[p]

\* Readiness (RecoveryMonitor): a replica that answers ready is elected, has
\* completed a resync as leader and had its label published, whatever results of
\* loops outlive the term they began in.
ReadyIsEarned ==
  \A p \in Proc :
    monitor[p].ready =>
      /\ elected[p] /\ proven[p] > 0 /\ ~monitor[p].degraded
      /\ monitor[p].leader_ready /\ monitor[p].routing_ready

\* What holds of a replica at every state.
GenerationsSafe == TypeOK /\ TargetIsRunning /\ ReadyIsEarned

\* The one replica the Service selects, and ready.
Serves(p) == monitor[p].ready /\ \A q \in Proc : label[q] <=> q = p
=============================================================================
