--------------------------- MODULE LeaderElection ---------------------------
(***************************************************************************)
(* The Kubernetes Lease contender loop of leader_election.rs: every control-*)
(* plane process claims one shared Lease with read / compare-and-swap      *)
(* rounds, renews it every retry period, and gives leadership up when its  *)
(* renewals have failed for the renew deadline.                            *)
(*                                                                         *)
(* Time is a global integer clock.  A process reads the wall clock with an *)
(* error of at most ClockSkew, and its timers fire at most SchedLag late.  *)
(* A write request travels on its own: its answer may be lost, the caller  *)
(* may time out first, and the API server may still apply it afterwards.   *)
(***************************************************************************)
EXTENDS Integers, FiniteSets

CONSTANTS
  Proc,             \* contender identities (FKST_LEADER_IDENTITY, pod names)
  LeaseDuration,    \* lease_duration_secs
  RenewDeadline,    \* renew_deadline_secs
  RetryPeriod,      \* retry_period_secs
  ClockSkew,        \* bound on the error of Utc::now() between two processes
  SchedLag,         \* bound on how late a timer of the runtime fires
  MaxTransitions,   \* where lease_transitions saturates (i32::MAX)
  MaxInflight,      \* bound: write requests travelling at the same time
  MaxTime           \* bound: the clock stops here

\* The relationship LeaderElectionConfig::from_vars enforces, and the bounds.
ASSUME TimingAssumption ==
  /\ LeaseDuration \in Nat /\ RenewDeadline \in Nat /\ RetryPeriod \in Nat
  /\ 0 < RetryPeriod /\ RetryPeriod < RenewDeadline
  /\ RenewDeadline < LeaseDuration
  /\ ClockSkew \in Nat /\ SchedLag \in Nat
  /\ MaxTransitions \in Nat /\ MaxInflight \in Nat /\ MaxTime \in Nat

NoProc == "none"

ASSUME ProcAssumption == NoProc \notin Proc

VARIABLES
  now,        \* the global clock
  lease,      \* the Lease object at the API server; rv = 0 while it is absent
  inflight,   \* write requests the API server has not processed
  attempt,    \* per process: the claim_once call in progress, or the sleep
  leader,     \* per process: ElectionState.leader, also the watch channel
  renewed,    \* per process: ElectionState.last_successful_renewal
  granted     \* per process: when the attempt that renewed it began (history)

vars == <<now, lease, inflight, attempt, leader, renewed, granted>>

Phases == {"sleeping", "reading", "writing"}

Responses == {"none", "ok", "conflict"}

\* A LeaseSpec with the object's resourceVersion.
Leases ==
  [rv : Nat, holder : Proc \cup {NoProc}, renew : Nat, transitions : 0..MaxTransitions]

\* A create (rv = 0) or replace request; start names the attempt that sent it.
Requests ==
  [proc : Proc, start : Nat, rv : Nat, renew : Nat, transitions : 0..MaxTransitions]

\* start: when the attempt began; due: when the next one begins; utc: the clock
\* reading it works with; response: the server's answer to its write, if any.
Attempts ==
  [phase : Phases, start : Nat, due : Nat, utc : Nat, response : Responses]

TypeOK ==
  /\ now \in Nat
  /\ lease \in Leases
  /\ inflight \in SUBSET Requests
  /\ attempt \in [Proc -> Attempts]
  /\ leader \in [Proc -> BOOLEAN]
  /\ renewed \in [Proc -> Nat]
  /\ granted \in [Proc -> Nat]

Init ==
  /\ now = 0
  /\ lease = [rv |-> 0, holder |-> NoProc, renew |-> 0, transitions |-> 0]
  /\ inflight = {}
  /\ attempt = [p \in Proc |->
       [phase |-> "sleeping", start |-> 0, due |-> 0, utc |-> 0, response |-> "none"]]
  /\ leader = [p \in Proc |-> FALSE]
  /\ renewed = [p \in Proc |-> 0]
  /\ granted = [p \in Proc |-> 0]
-----------------------------------------------------------------------------
Later(a, b) == IF a >= b THEN a ELSE b

\* Mutant: the renew deadline is taken for the validity of the Lease.
LeaseExpiredEarly(l, utc) == l.holder = NoProc \/ utc >= l.renew + RenewDeadline

\* lease_expired: a Lease without a holder is free, any other one is free once
\* its validity has run out on the reader's clock.
LeaseExpired(l, utc) == l.holder = NoProc \/ utc >= l.renew + LeaseDuration

\* Mutant: a renewal by the holder counts as a transition.
CountRenewals(l, p) ==
  IF l.rv = 0 THEN 0
  ELSE IF l.transitions = MaxTransitions THEN l.transitions ELSE l.transitions + 1

\* The Lease the claimer wants: acquiring counts a transition (saturating),
\* creating starts the count at zero, renewing keeps it.
DesiredTransitions(l, p) ==
  IF l.rv = 0 THEN 0
  ELSE IF l.holder = p \/ l.transitions = MaxTransitions THEN l.transitions
  ELSE l.transitions + 1

\* Mutant: the Lease is stamped with the time of the previous attempt.
BackdatedRequest(p) ==
  [proc |-> p, start |-> attempt[p].start, rv |-> lease.rv,
   renew |-> attempt[p].utc - RetryPeriod, transitions |-> DesiredTransitions(lease, p)]

\* The create (new_lease) or the replace that p sends for the Lease it has read.
WriteRequest(p) ==
  [proc |-> p, start |-> attempt[p].start, rv |-> lease.rv,
   renew |-> attempt[p].utc, transitions |-> DesiredTransitions(lease, p)]

\* The loop waits in sleep_until.
Asleep(a, due) ==
  [phase |-> "sleeping", start |-> a.start, due |-> due, utc |-> a.utc,
   response |-> "none"]

\* The attempt of p ends and the loop sleeps until one retry period after its
\* start; an attempt that overran starts over at once.
EndAttempt(p) ==
  attempt' = [attempt EXCEPT ![p] =
                Asleep(attempt[p], Later(now, attempt[p].start + RetryPeriod))]

\* Not a leader: last_successful_renewal is None, written as 0.
LoseLeadership(p) ==
  /\ leader' = [leader EXCEPT ![p] = FALSE]
  /\ renewed' = [renewed EXCEPT ![p] = 0]
  /\ granted' = [granted EXCEPT ![p] = 0]

\* ElectionState::observe with Ok(Holder).
ObserveHolder(p) ==
  /\ leader' = [leader EXCEPT ![p] = TRUE]
  /\ renewed' = [renewed EXCEPT ![p] = now]
  /\ granted' = [granted EXCEPT ![p] = attempt[p].start]

\* ElectionState::observe with Ok(Follower).
ObserveFollower(p) ==
  LoseLeadership(p)

\* Mutant: a failed renewal never costs leadership.
IgnoreFailure(p) == UNCHANGED <<leader, renewed, granted>>

\* ElectionState::observe with Err: leadership survives a failed renewal until
\* the renew deadline has passed since the last confirmed one.
ObserveFailure(p) ==
  IF leader[p] /\ now - renewed[p] < RenewDeadline
  THEN UNCHANGED <<leader, renewed, granted>>
  ELSE LoseLeadership(p)
-----------------------------------------------------------------------------
\* The loop of p wakes up, reads the wall clock and issues the GET.
StartAttempt(p) ==
  /\ attempt[p].phase = "sleeping"
  /\ now >= attempt[p].due
  /\ \E skew \in 0..ClockSkew :
       attempt' = [attempt EXCEPT ![p] =
         [phase |-> "reading", start |-> now, due |-> attempt[p].due,
          utc |-> now + skew, response |-> "none"]]
  /\ UNCHANGED <<now, lease, inflight, leader, renewed, granted>>

\* The GET shows a Lease of another process that has not expired: follow it.
ReadFollower(p) ==
  /\ attempt[p].phase = "reading"
  /\ lease.holder # p
  /\ ~LeaseExpired(lease, attempt[p].utc)
  /\ ObserveFollower(p)
  /\ EndAttempt(p)
  /\ UNCHANGED <<now, lease, inflight>>

\* The GET shows no Lease, an expired one or our own: send the create or the
\* replace that carries the resourceVersion just read.
ReadClaimable(p) ==
  /\ attempt[p].phase = "reading"
  /\ lease.holder = p \/ LeaseExpired(lease, attempt[p].utc)
  /\ Cardinality(inflight) < MaxInflight
  /\ inflight' = inflight \cup {WriteRequest(p)}
  /\ attempt' = [attempt EXCEPT ![p].phase = "writing"]
  /\ UNCHANGED <<now, lease, leader, renewed, granted>>

\* The API server processes a write: it applies only if nobody has written
\* since the read it is based on.  The answer reaches the sender's attempt if
\* that attempt still waits for it.
ServerWrite(m) ==
  /\ inflight' = inflight \ {m}
  /\ lease' = IF m.rv = lease.rv
              THEN [rv |-> lease.rv + 1, holder |-> m.proc,
                    renew |-> m.renew, transitions |-> m.transitions]
              ELSE lease
  /\ attempt' = IF attempt[m.proc].phase = "writing" /\ attempt[m.proc].start = m.start
                THEN [attempt EXCEPT ![m.proc].response =
                        IF m.rv = lease.rv THEN "ok" ELSE "conflict"]
                ELSE attempt
  /\ UNCHANGED <<now, leader, renewed, granted>>

\* The request is lost before the API server sees it.
LoseRequest(m) ==
  /\ inflight' = inflight \ {m}
  /\ UNCHANGED <<now, lease, attempt, leader, renewed, granted>>

\* The answer to the write arrives: the process holds the Lease, or lost a race.
ReceiveResponse(p) ==
  /\ attempt[p].phase = "writing"
  /\ attempt[p].response # "none"
  /\ IF attempt[p].response = "ok" THEN ObserveHolder(p) ELSE ObserveFailure(p)
  /\ EndAttempt(p)
  /\ UNCHANGED <<now, lease, inflight>>

\* The GET or the write fails at the caller (403, API or transport error), or
\* the retry period runs out first; a write already sent stays in flight.
AttemptFails(p) ==
  /\ attempt[p].phase \in {"reading", "writing"}
  /\ ObserveFailure(p)
  /\ EndAttempt(p)
  /\ UNCHANGED <<now, lease, inflight>>

\* The process dies and its container starts again under the same identity:
\* only what the API server has is left.
Restart(p) ==
  /\ attempt' = [attempt EXCEPT ![p] = Asleep(attempt[p], now + 1)]
  /\ LoseLeadership(p)
  /\ UNCHANGED <<now, lease, inflight>>

\* A sleeping process must wake up, and a busy one must time out, before the
\* clock passes its deadline by more than the scheduling lag.
MayWait(p) ==
  \/ /\ attempt[p].phase = "sleeping"
     /\ now < attempt[p].due + SchedLag
  \/ /\ attempt[p].phase # "sleeping"
     /\ now < attempt[p].start + RetryPeriod + SchedLag

Tick ==
  /\ now < MaxTime
  /\ \A p \in Proc : MayWait(p)
  /\ now' = now + 1
  /\ UNCHANGED <<lease, inflight, attempt, leader, renewed, granted>>

ProcStep(p) ==
  \/ StartAttempt(p)
  \/ ReadFollower(p)
  \/ ReadClaimable(p)
  \/ ReceiveResponse(p)
  \/ AttemptFails(p)
  \/ Restart(p)

Next ==
  \/ \E p \in Proc : ProcStep(p)
  \/ \E m \in inflight : ServerWrite(m) \/ LoseRequest(m)
  \/ Tick

Spec == Init /\ [][Next]_vars
-----------------------------------------------------------------------------
\* The Lease that an attempt begun at t wrote is still valid, on every clock.
Valid(t) == now + ClockSkew < t + LeaseDuration

\* A process that believes it leads, and therefore runs its worker generation,
\* holds the Lease until the validity it last wrote has run out. From then on it
\* may believe so beside another, but no longer than its renew deadline and three
\* retry periods from the attempt that renewed it (leader_config.rs accepts
\* timings, its defaults among them, under which the second exceeds the first).
LeaderOwnsLease ==
  \A p \in Proc : leader[p] /\ lease.holder # p =>
    /\ ~Valid(granted[p])
    /\ now < granted[p] + RenewDeadline + 3 * RetryPeriod + 3 * SchedLag

\* The Lease changes hands only after the previous holder's validity has run
\* out: a takeover decided on a stale read must lose the compare-and-swap.
NoEarlyTakeover ==
  [][lease'.holder # lease.holder /\ lease.holder # NoProc
       => now + ClockSkew >= lease.renew + LeaseDuration]_vars

\* The transition count is the durable evidence of ownership changes: it grows
\* by one exactly when the holder changes, whatever requests arrive late.
TransitionsCountHolders ==
  [][lease.transitions < MaxTransitions /\ lease.rv # 0
       => lease'.transitions = lease.transitions
            + (IF lease'.holder = lease.holder THEN 0 ELSE 1)]_vars

\* Leadership without a confirmed renewal ends (ElectionState::observe): the
\* deadline is looked at when an attempt ends, and the next attempt may begin just
\* before it passes, so up to two more retry periods and their lag go by.
LeadershipIsBounded ==
  \A p \in Proc :
    leader[p] => now < renewed[p] + RenewDeadline + 2 * RetryPeriod + 2 * SchedLag

\* The state keeps its type, and leadership that is not renewed ends.
ElectionSafe == TypeOK /\ LeadershipIsBounded

Office == INSTANCE LeaderOffice WITH
  owner <- lease.holder, elected <- {p \in Proc : leader[p] /\ Valid(granted[p])}

\* The loops implement the abstract office, for the leaders whose Lease is valid: a
\* takeover never meets one of them, although the two are only joined by clocks, and
\* whoever comes to lead on a valid Lease owns it (what supervise_leader_generations
\* relies on).
ImplementsOffice == Office!Spec
-----------------------------------------------------------------------------
\* The parts of the inductive invariant behind LeaderOwnsLease.

\* No timer of a process is overdue by more than the scheduling lag.
TimersInv ==
  \A p \in Proc :
    /\ attempt[p].phase = "sleeping" => now <= attempt[p].due + SchedLag
    /\ attempt[p].phase # "sleeping" =>
         /\ attempt[p].start <= now
         /\ now <= attempt[p].start + RetryPeriod + SchedLag
         /\ attempt[p].start <= attempt[p].utc
         /\ attempt[p].utc <= attempt[p].start + ClockSkew

\* A leader's next attempt begins before the deadline by more than it can last.
LeaderTimeInv ==
  \A p \in Proc : leader[p] =>
    /\ granted[p] <= renewed[p]
    /\ renewed[p] <= granted[p] + RetryPeriod + SchedLag
    /\ attempt[p].phase = "sleeping" =>
         /\ attempt[p].due < renewed[p] + RenewDeadline + RetryPeriod
         /\ granted[p] <= attempt[p].due
    /\ attempt[p].phase # "sleeping" =>
         /\ attempt[p].start < renewed[p] + RenewDeadline + RetryPeriod + SchedLag
         /\ granted[p] <= attempt[p].start

\* What a process was told is still so at the API server while its Lease is valid.
GrantInv ==
  \A p \in Proc :
    /\ attempt[p].phase # "writing" => attempt[p].response = "none"
    /\ leader[p] /\ Valid(granted[p]) => lease.holder = p /\ lease.renew >= granted[p]
    /\ /\ attempt[p].phase = "writing" /\ attempt[p].response = "ok"
       /\ Valid(attempt[p].start)
       => lease.holder = p /\ lease.renew >= attempt[p].start

\* A request that can still be applied was decided on the Lease as it is now.
RequestInv ==
  /\ lease.rv = 0 <=> lease.holder = NoProc
  /\ \A m \in inflight :
       /\ m.rv <= lease.rv
       /\ m.start <= now
       /\ m.start <= m.renew
       /\ m.renew <= m.start + ClockSkew
       /\ m.rv = lease.rv /\ lease.rv # 0 /\ m.proc # lease.holder =>
            m.renew >= lease.renew + LeaseDuration
       /\ m.rv = lease.rv => m.transitions = DesiredTransitions(lease, m.proc)

\* A request that can still be applied is not older than what its sender knows.
OrderInv ==
  \A m \in inflight : m.rv = lease.rv =>
    /\ leader[m.proc] => m.start >= granted[m.proc]
    /\ attempt[m.proc].phase = "writing" /\ attempt[m.proc].response = "ok" =>
         m.start >= attempt[m.proc].start

BaseInv == TypeOK /\ TimersInv /\ RequestInv

IInv == BaseInv /\ LeaderTimeInv /\ GrantInv /\ OrderInv
=============================================================================
