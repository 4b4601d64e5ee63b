----------------------- MODULE LeaderElection_proofs -----------------------
(***************************************************************************)
(* Proofs about LeaderElection for any set of processes and any timings.   *)
(***************************************************************************)
EXTENDS LeaderElection, TLAPS

USE TimingAssumption, ProcAssumption DEF TimingAssumption, ProcAssumption

\* Putting an attempt to sleep keeps its type and sets what it should.
LEMMA AsleepType ==
  ASSUME NEW a \in Attempts, NEW d \in Nat
  PROVE  /\ Asleep(a, d) \in Attempts
         /\ Asleep(a, d).phase = "sleeping"
         /\ Asleep(a, d).response = "none"
         /\ Asleep(a, d).due = d
  BY DEF Asleep, Attempts, Phases, Responses

\* EndAttempt leaves every other process alone and puts p to sleep.
LEMMA EndAttemptEffect ==
  ASSUME TypeOK, NEW p \in Proc, EndAttempt(p)
  PROVE  /\ attempt' \in [Proc -> Attempts]
         /\ attempt'[p].phase = "sleeping"
         /\ attempt'[p].response = "none"
         /\ attempt'[p].due \in Nat
         /\ attempt'[p].due >= now
         /\ attempt'[p].due >= attempt[p].start + RetryPeriod
         /\ attempt'[p].due = now \/ attempt'[p].due = attempt[p].start + RetryPeriod
         /\ \A q \in Proc \ {p} : attempt'[q] = attempt[q]
<1> DEFINE d == Later(now, attempt[p].start + RetryPeriod)
<1>1. attempt \in [Proc -> Attempts] /\ now \in Nat /\ attempt[p].start \in Nat
  BY DEF TypeOK, Attempts
<1>2. /\ d \in Nat
      /\ d >= now /\ d >= attempt[p].start + RetryPeriod
      /\ d = now \/ d = attempt[p].start + RetryPeriod
  BY <1>1 DEF Later
<1>3. attempt' = [attempt EXCEPT ![p] = Asleep(attempt[p], d)]
  BY DEF EndAttempt
<1> HIDE DEF d
<1>4. Asleep(attempt[p], d) \in Attempts
  BY <1>1, <1>2, AsleepType
<1>5. /\ attempt' \in [Proc -> Attempts]
      /\ attempt'[p] = Asleep(attempt[p], d)
      /\ \A q \in Proc \ {p} : attempt'[q] = attempt[q]
  BY <1>1, <1>3, <1>4
<1>6. /\ attempt'[p].phase = "sleeping"
      /\ attempt'[p].response = "none"
      /\ attempt'[p].due = d
  BY <1>5 DEF Asleep
<1> QED BY <1>2, <1>5, <1>6

\* A failed attempt keeps the leader's state or clears it.
LEMMA ObserveFailureEffect ==
  ASSUME TypeOK, NEW p \in Proc, ObserveFailure(p)
  PROVE  \/ /\ leader[p] /\ now - renewed[p] < RenewDeadline
            /\ UNCHANGED <<leader, renewed, granted>>
         \/ LoseLeadership(p)
  BY DEF ObserveFailure

\* Losing leadership touches p only, and keeps the types.
LEMMA LoseLeadershipEffect ==
  ASSUME TypeOK, NEW p \in Proc, LoseLeadership(p)
  PROVE  /\ leader' \in [Proc -> BOOLEAN] /\ ~leader'[p]
         /\ renewed' \in [Proc -> Nat]
         /\ granted' \in [Proc -> Nat]
         /\ \A q \in Proc \ {p} : /\ leader'[q] = leader[q]
                                  /\ renewed'[q] = renewed[q]
                                  /\ granted'[q] = granted[q]
  BY DEF LoseLeadership, TypeOK

\* Every step keeps the types.
LEMMA TypeStep == TypeOK /\ [Next]_vars => TypeOK'
<1> SUFFICES ASSUME TypeOK, [Next]_vars PROVE TypeOK'
  OBVIOUS
<1>1. CASE UNCHANGED vars
  BY <1>1 DEF vars, TypeOK
<1>2. CASE Tick
  BY <1>2 DEF Tick, TypeOK
<1>3. ASSUME NEW p \in Proc, StartAttempt(p) PROVE TypeOK'
  BY <1>3 DEF StartAttempt, TypeOK, Attempts, Phases, Responses
<1>4. ASSUME NEW p \in Proc, ReadFollower(p) PROVE TypeOK'
  <2>1. LoseLeadership(p) /\ EndAttempt(p) /\ UNCHANGED <<now, lease, inflight>>
    BY <1>4 DEF ReadFollower, ObserveFollower
  <2> QED BY <2>1, EndAttemptEffect, LoseLeadershipEffect DEF TypeOK
<1>5. ASSUME NEW p \in Proc, ReadClaimable(p) PROVE TypeOK'
  <2>1. DesiredTransitions(lease, p) \in 0..MaxTransitions
    BY DEF DesiredTransitions, TypeOK, Leases
  <2>2. inflight' \in SUBSET Requests
    BY <1>5, <2>1 DEF ReadClaimable, WriteRequest, TypeOK, Requests, Attempts, Leases
  <2>3. attempt' \in [Proc -> Attempts]
    BY <1>5 DEF ReadClaimable, TypeOK, Attempts, Phases
  <2> QED BY <1>5, <2>2, <2>3 DEF ReadClaimable, TypeOK
<1>6. ASSUME NEW p \in Proc, ReceiveResponse(p) PROVE TypeOK'
  <2>1. EndAttempt(p) /\ UNCHANGED <<now, lease, inflight>>
    BY <1>6 DEF ReceiveResponse
  <2>2. CASE ObserveHolder(p)
    <3>1. attempt[p].start \in Nat
      BY DEF TypeOK, Attempts
    <3>2. leader' \in [Proc -> BOOLEAN] /\ renewed' \in [Proc -> Nat] /\ granted' \in [Proc -> Nat]
      BY <2>2, <3>1 DEF ObserveHolder, TypeOK
    <3> QED BY <2>1, <3>2, EndAttemptEffect DEF TypeOK
  <2>3. CASE ObserveFailure(p)
    BY <2>1, <2>3, EndAttemptEffect, ObserveFailureEffect, LoseLeadershipEffect DEF TypeOK
  <2> QED BY <1>6, <2>2, <2>3 DEF ReceiveResponse
<1>7. ASSUME NEW p \in Proc, AttemptFails(p) PROVE TypeOK'
  <2>1. ObserveFailure(p) /\ EndAttempt(p) /\ UNCHANGED <<now, lease, inflight>>
    BY <1>7 DEF AttemptFails
  <2> QED BY <2>1, EndAttemptEffect, ObserveFailureEffect, LoseLeadershipEffect DEF TypeOK
<1>8. ASSUME NEW p \in Proc, Restart(p) PROVE TypeOK'
  <2>1. LoseLeadership(p) /\ UNCHANGED <<now, lease, inflight>>
    BY <1>8 DEF Restart
  <2>2. attempt' \in [Proc -> Attempts]
    BY <1>8, AsleepType DEF Restart, TypeOK
  <2> QED BY <2>1, <2>2, LoseLeadershipEffect DEF TypeOK
<1>9. ASSUME NEW m \in inflight, ServerWrite(m) PROVE TypeOK'
  <2>1. m \in Requests
    BY DEF TypeOK
  <2>2. lease' \in Leases
    BY <1>9, <2>1 DEF ServerWrite, TypeOK, Leases, Requests
  <2>3. attempt' \in [Proc -> Attempts]
    BY <1>9, <2>1 DEF ServerWrite, TypeOK, Attempts, Requests, Responses
  <2> QED BY <1>9, <2>2, <2>3 DEF ServerWrite, TypeOK
<1>10. ASSUME NEW m \in inflight, LoseRequest(m) PROVE TypeOK'
  BY <1>10 DEF LoseRequest, TypeOK
<1> QED
  BY <1>1, <1>2, <1>3, <1>4, <1>5, <1>6, <1>7, <1>8, <1>9, <1>10 DEF Next, ProcStep

\* Type correctness of the contender loop: whatever requests are lost, late or
\* applied after their sender gave up, every variable keeps its type.
THEOREM TypeCorrect == Spec => []TypeOK
<1>1. Init => TypeOK
  BY DEF Init, TypeOK, Leases, Attempts, Phases, Responses
<1> QED BY <1>1, TypeStep, PTL DEF Spec

-----------------------------------------------------------------------------
\* What every step keeps whatever the timings are: timers are on time, and a
\* request that can still be applied was decided on the Lease as it is.
LEMMA BaseStep == BaseInv /\ [Next]_vars => BaseInv'
<1> SUFFICES ASSUME BaseInv, [Next]_vars PROVE BaseInv'
  OBVIOUS
<1>0. TypeOK'
  BY TypeStep DEF BaseInv
<1>a. /\ \A m \in inflight : m.proc \in Proc /\ m \in Requests
      /\ now \in Nat /\ lease.rv \in Nat /\ lease.renew \in Nat
      /\ \A q \in Proc : /\ attempt[q].start \in Nat /\ attempt[q].due \in Nat
                         /\ attempt[q].utc \in Nat
  BY DEF BaseInv, TypeOK, Requests, Leases, Attempts
<1>1. CASE UNCHANGED vars
  BY <1>0, <1>1 DEF vars, BaseInv, TimersInv, RequestInv, DesiredTransitions
<1>2. CASE Tick
  <2>1. TimersInv'
    BY <1>2, <1>a DEF Tick, MayWait, BaseInv, TimersInv
  <2>2. RequestInv'
    BY <1>2, <1>a DEF Tick, BaseInv, RequestInv, Requests, DesiredTransitions
  <2> QED BY <1>0, <2>1, <2>2 DEF BaseInv
<1>3. ASSUME NEW p \in Proc, StartAttempt(p) PROVE BaseInv'
  <2>1. TimersInv'
    BY <1>3, <1>a DEF StartAttempt, BaseInv, TimersInv, TypeOK
  <2>2. RequestInv'
    BY <1>3 DEF StartAttempt, BaseInv, RequestInv, DesiredTransitions
  <2> QED BY <1>0, <2>1, <2>2 DEF BaseInv
<1>4. ASSUME NEW p \in Proc, EndAttempt(p), UNCHANGED <<now, lease, inflight>>
      PROVE  BaseInv'
  <2>1. TimersInv'
    BY <1>4, <1>a, EndAttemptEffect DEF BaseInv, TimersInv
  <2>2. RequestInv'
    BY <1>4 DEF BaseInv, RequestInv, DesiredTransitions
  <2> QED BY <1>0, <2>1, <2>2 DEF BaseInv
<1>5. ASSUME NEW p \in Proc, ReadClaimable(p) PROVE BaseInv'
  <2>1. /\ UNCHANGED <<now, lease>>
        /\ attempt' = [attempt EXCEPT ![p].phase = "writing"]
        /\ attempt[p].phase = "reading"
        /\ lease.holder = p \/ LeaseExpired(lease, attempt[p].utc)
    BY <1>5 DEF ReadClaimable
  <2>2. TimersInv'
    BY <2>1, <1>a DEF BaseInv, TimersInv, TypeOK, Attempts
  <2> DEFINE n == WriteRequest(p)
  <2>3. /\ inflight' = inflight \cup {n}
        /\ n.proc = p /\ n.start = attempt[p].start /\ n.rv = lease.rv
        /\ n.renew = attempt[p].utc
        /\ n.transitions = DesiredTransitions(lease, p)
    BY <1>5 DEF ReadClaimable, WriteRequest
  <2>4. /\ n.rv <= lease.rv /\ n.start <= now
        /\ n.start <= n.renew /\ n.renew <= n.start + ClockSkew
    BY <1>a, <2>1, <2>3 DEF BaseInv, TimersInv
  <2>5. lease.rv # 0 /\ p # lease.holder => n.renew >= lease.renew + LeaseDuration
    BY <2>1, <2>3 DEF LeaseExpired, BaseInv, RequestInv
  <2>6. RequestInv'
    <3>1. \A q : DesiredTransitions(lease, q)' = DesiredTransitions(lease, q)
      BY <2>1 DEF DesiredTransitions
    <3> QED BY <2>1, <2>3, <2>4, <2>5, <3>1 DEF BaseInv, RequestInv
  <2> QED BY <1>0, <2>2, <2>6 DEF BaseInv
<1>6. ASSUME NEW p \in Proc, Restart(p) PROVE BaseInv'
  <2>1. /\ UNCHANGED <<now, lease, inflight>>
        /\ attempt'[p] = Asleep(attempt[p], now + 1)
        /\ \A q \in Proc \ {p} : attempt'[q] = attempt[q]
    BY <1>6 DEF Restart, BaseInv, TypeOK
  <2>2. attempt'[p].phase = "sleeping" /\ attempt'[p].due = now + 1
    BY <2>1 DEF Asleep
  <2>3. TimersInv'
    BY <1>a, <2>1, <2>2 DEF BaseInv, TimersInv
  <2>4. RequestInv'
    BY <2>1 DEF BaseInv, RequestInv, DesiredTransitions
  <2> QED BY <1>0, <2>3, <2>4 DEF BaseInv
<1>7. ASSUME NEW m \in inflight, ServerWrite(m) PROVE BaseInv'
  <2>1. /\ now' = now /\ inflight' = inflight \ {m}
        /\ \A q \in Proc : /\ attempt'[q].phase = attempt[q].phase
                           /\ attempt'[q].start = attempt[q].start
                           /\ attempt'[q].due = attempt[q].due
                           /\ attempt'[q].utc = attempt[q].utc
    BY <1>7, <1>a DEF ServerWrite, BaseInv, TypeOK, Attempts
  <2>2. TimersInv'
    BY <2>1 DEF BaseInv, TimersInv
  <2>3. CASE m.rv # lease.rv
    <3>1. lease' = lease
      BY <1>7, <2>3 DEF ServerWrite
    <3> QED BY <1>0, <2>1, <2>2, <3>1 DEF BaseInv, RequestInv, DesiredTransitions
  <2>4. CASE m.rv = lease.rv
    <3>1. lease'.rv = lease.rv + 1 /\ lease'.holder = m.proc
      BY <1>7, <2>4 DEF ServerWrite
    <3>2. \A n \in inflight' : n \in inflight /\ n.rv <= lease.rv /\ n.rv \in Nat
      BY <1>a, <2>1 DEF BaseInv, RequestInv, Requests
    <3>3. \A n \in inflight' : n \in inflight /\ n.rv # lease'.rv /\ n.rv <= lease'.rv
      BY <1>a, <3>1, <3>2
    <3>4. lease'.rv # 0 /\ lease'.holder # NoProc
      BY <1>a, <3>1
    <3> QED BY <1>0, <2>1, <2>2, <3>3, <3>4 DEF BaseInv, RequestInv
  <2> QED BY <2>3, <2>4
<1>8. ASSUME NEW m \in inflight, LoseRequest(m) PROVE BaseInv'
  BY <1>0, <1>8 DEF LoseRequest, BaseInv, TimersInv, RequestInv, DesiredTransitions
<1> QED
  BY <1>1, <1>2, <1>3, <1>4, <1>5, <1>6, <1>7, <1>8
     DEF Next, ProcStep, ReadFollower, ReceiveResponse, AttemptFails

\* So they hold of every behaviour.
LEMMA BaseInvariant == Spec => []BaseInv
<1>1. Init => BaseInv
  BY DEF Init, BaseInv, TypeOK, TimersInv, RequestInv, Leases, Attempts, Phases, Responses
<1> QED BY <1>1, BaseStep, PTL DEF Spec

\* The Lease changes hands only after the previous holder's validity has run
\* out, for every configuration the code accepts.
THEOREM NoEarlyTakeoverHolds == Spec => NoEarlyTakeover
<1>1. BaseInv /\ [Next]_vars =>
        [lease'.holder # lease.holder /\ lease.holder # NoProc
           => now + ClockSkew >= lease.renew + LeaseDuration]_vars
  <2> SUFFICES ASSUME BaseInv, Next, lease'.holder # lease.holder, lease.holder # NoProc
               PROVE  now + ClockSkew >= lease.renew + LeaseDuration
    BY DEF vars
  <2>1. PICK m \in inflight : ServerWrite(m)
    BY DEF Next, ProcStep, Tick, StartAttempt, ReadFollower, ReadClaimable,
           ReceiveResponse, AttemptFails, Restart, LoseRequest
  <2>2. m.rv = lease.rv /\ lease'.holder = m.proc
    BY <2>1 DEF ServerWrite
  <2>3. /\ m.start \in Nat /\ m.renew \in Nat /\ lease.renew \in Nat /\ now \in Nat
    BY DEF BaseInv, TypeOK, Requests, Leases
  <2>4. /\ m.start <= now /\ m.renew <= m.start + ClockSkew
        /\ m.renew >= lease.renew + LeaseDuration
    BY <2>2 DEF BaseInv, RequestInv
  <2> QED BY <2>3, <2>4
<1> QED BY <1>1, BaseInvariant, PTL DEF Spec, NoEarlyTakeover

\* lease_transitions counts the ownership changes, however late a write lands.
THEOREM TransitionsHold == Spec => TransitionsCountHolders
<1>1. BaseInv /\ [Next]_vars =>
        [lease.transitions < MaxTransitions /\ lease.rv # 0
           => lease'.transitions = lease.transitions
                + (IF lease'.holder = lease.holder THEN 0 ELSE 1)]_vars
  <2> SUFFICES ASSUME BaseInv, Next, lease.transitions < MaxTransitions, lease.rv # 0
               PROVE  lease'.transitions = lease.transitions
                        + (IF lease'.holder = lease.holder THEN 0 ELSE 1)
    BY DEF vars
  <2>0. lease.transitions \in Nat
    BY DEF BaseInv, TypeOK, Leases
  <2>1. CASE lease' = lease
    BY <2>0, <2>1
  <2>2. CASE \E m \in inflight : ServerWrite(m)
    <3>1. PICK m \in inflight : ServerWrite(m)
      BY <2>2
    <3>2. CASE m.rv # lease.rv
      BY <2>1, <3>1, <3>2 DEF ServerWrite
    <3>3. CASE m.rv = lease.rv
      <4>1. lease'.holder = m.proc /\ lease'.transitions = m.transitions
        BY <3>1, <3>3 DEF ServerWrite
      <4>2. m.transitions = DesiredTransitions(lease, m.proc)
        BY <3>3 DEF BaseInv, RequestInv
      <4> QED BY <2>0, <4>1, <4>2 DEF DesiredTransitions
    <3> QED BY <3>2, <3>3
  <2> QED
    BY <2>1, <2>2 DEF Next, ProcStep, Tick, StartAttempt, ReadFollower, ReadClaimable,
         ReceiveResponse, AttemptFails, Restart, LoseRequest
<1> QED BY <1>1, BaseInvariant, PTL DEF Spec, TransitionsCountHolders
-----------------------------------------------------------------------------
\* The end of an attempt leaves a leader's next attempt before the deadline: the
\* renewal is confirmed now, or the last one is younger than the renew deadline.
LEMMA TimeEndAttempt ==
  ASSUME BaseInv, LeaderTimeInv, NEW p \in Proc, attempt[p].phase # "sleeping",
         EndAttempt(p), UNCHANGED now,
         ObserveHolder(p) \/ ObserveFailure(p) \/ LoseLeadership(p)
  PROVE  LeaderTimeInv'
<1> TypeOK BY DEF BaseInv
<1>1. /\ \A q \in Proc \ {p} :
           /\ attempt'[q] = attempt[q] /\ leader'[q] = leader[q]
           /\ renewed'[q] = renewed[q] /\ granted'[q] = granted[q]
      /\ \/ ~leader'[p]
         \/ renewed'[p] = now /\ granted'[p] = attempt[p].start
         \/ /\ leader[p] /\ now - renewed[p] < RenewDeadline
            /\ renewed'[p] = renewed[p] /\ granted'[p] = granted[p]
  <2>1. CASE ObserveHolder(p)
    BY <2>1, EndAttemptEffect DEF ObserveHolder, TypeOK
  <2>2. CASE ObserveFailure(p)
    BY <2>2, EndAttemptEffect, ObserveFailureEffect, LoseLeadershipEffect
  <2>3. CASE LoseLeadership(p)
    BY <2>3, EndAttemptEffect, LoseLeadershipEffect
  <2> QED BY <2>1, <2>2, <2>3
<1>2. /\ attempt'[p].phase = "sleeping"
      /\ attempt'[p].due \in Nat
      /\ attempt'[p].due >= now
      /\ attempt'[p].due >= attempt[p].start + RetryPeriod
      /\ attempt'[p].due = now \/ attempt'[p].due = attempt[p].start + RetryPeriod
  BY EndAttemptEffect
<1>3. /\ attempt[p].start \in Nat /\ now \in Nat
      /\ renewed[p] \in Nat /\ granted[p] \in Nat
  BY DEF TypeOK, Attempts
<1> QED BY <1>1, <1>2, <1>3 DEF BaseInv, LeaderTimeInv, TimersInv

\* Waking up keeps it: the sleep ended in time.
LEMMA TimeStart ==
  ASSUME BaseInv, LeaderTimeInv, NEW p \in Proc, StartAttempt(p)
  PROVE  LeaderTimeInv'
<1> TypeOK BY DEF BaseInv
<1>1. /\ \A q \in Proc \ {p} : attempt'[q] = attempt[q]
      /\ attempt'[p].phase = "reading" /\ attempt'[p].start = now
      /\ UNCHANGED <<leader, renewed, granted>>
  BY DEF StartAttempt, TypeOK
<1>2. /\ attempt[p].phase = "sleeping" /\ now >= attempt[p].due
      /\ attempt[p].due \in Nat /\ now \in Nat
      /\ renewed[p] \in Nat /\ granted[p] \in Nat
  BY DEF StartAttempt, TypeOK, Attempts
<1> QED BY <1>1, <1>2 DEF BaseInv, TimersInv, LeaderTimeInv

\* A leader's next attempt begins in time, whatever the timings are.
LEMMA TimeStep == BaseInv /\ LeaderTimeInv /\ [Next]_vars => LeaderTimeInv'
<1> SUFFICES ASSUME BaseInv, LeaderTimeInv, [Next]_vars PROVE LeaderTimeInv'
  OBVIOUS
<1> TypeOK BY DEF BaseInv
<1>1. CASE UNCHANGED vars
  BY <1>1 DEF vars, LeaderTimeInv
<1>2. CASE Tick
  BY <1>2 DEF Tick, LeaderTimeInv
<1>3. ASSUME NEW p \in Proc, StartAttempt(p) PROVE LeaderTimeInv'
  BY <1>3, TimeStart
<1>4. ASSUME NEW p \in Proc, ReadFollower(p) \/ ReceiveResponse(p) \/ AttemptFails(p)
      PROVE  LeaderTimeInv'
  <2>1. /\ attempt[p].phase # "sleeping" /\ EndAttempt(p) /\ UNCHANGED now
        /\ ObserveHolder(p) \/ ObserveFailure(p) \/ LoseLeadership(p)
    BY <1>4 DEF ReadFollower, ReceiveResponse, AttemptFails, ObserveFollower
  <2> QED BY <2>1, TimeEndAttempt
<1>5. ASSUME NEW p \in Proc, ReadClaimable(p) PROVE LeaderTimeInv'
  <2>1. /\ attempt[p].phase = "reading" /\ attempt'[p].phase = "writing"
        /\ attempt'[p].start = attempt[p].start
        /\ \A q \in Proc \ {p} : attempt'[q] = attempt[q]
        /\ UNCHANGED <<leader, renewed, granted>>
    BY <1>5 DEF ReadClaimable, TypeOK, Attempts
  <2> QED BY <2>1 DEF LeaderTimeInv
<1>6. ASSUME NEW p \in Proc, Restart(p) PROVE LeaderTimeInv'
  <2>1. /\ ~leader'[p]
        /\ \A q \in Proc \ {p} :
             /\ attempt'[q] = attempt[q] /\ leader'[q] = leader[q]
             /\ renewed'[q] = renewed[q] /\ granted'[q] = granted[q]
    BY <1>6, LoseLeadershipEffect DEF Restart, TypeOK
  <2> QED BY <2>1 DEF LeaderTimeInv
<1>7. ASSUME NEW m \in inflight, ServerWrite(m) \/ LoseRequest(m) PROVE LeaderTimeInv'
  <2>1. m.proc \in Proc
    BY DEF TypeOK, Requests
  <2>2. /\ UNCHANGED <<leader, renewed, granted>>
        /\ \A q \in Proc : /\ attempt'[q].phase = attempt[q].phase
                           /\ attempt'[q].start = attempt[q].start
                           /\ attempt'[q].due = attempt[q].due
    BY <1>7, <2>1 DEF ServerWrite, LoseRequest, TypeOK, Attempts
  <2> QED BY <2>2 DEF LeaderTimeInv
<1> QED
  BY <1>1, <1>2, <1>3, <1>4, <1>5, <1>6, <1>7 DEF Next, ProcStep

\* Without a confirmed renewal leadership ends within two retry periods and their
\* lag after the renew deadline, for every configuration the code accepts.
THEOREM LeadershipEnds == Spec => []LeadershipIsBounded
<1>1. Init => LeaderTimeInv
  BY DEF Init, LeaderTimeInv
<1>2. BaseInv /\ LeaderTimeInv => LeadershipIsBounded
  <2> SUFFICES ASSUME BaseInv, LeaderTimeInv, NEW p \in Proc, leader[p]
               PROVE  now < renewed[p] + RenewDeadline + 2 * RetryPeriod + 2 * SchedLag
    BY DEF LeadershipIsBounded
  <2>1. /\ now \in Nat /\ renewed[p] \in Nat
        /\ attempt[p].start \in Nat /\ attempt[p].due \in Nat
    BY DEF BaseInv, TypeOK, Attempts
  <2> QED BY <2>1 DEF BaseInv, TimersInv, LeaderTimeInv
<1> QED BY <1>1, <1>2, BaseInvariant, TimeStep, PTL DEF Spec
-----------------------------------------------------------------------------
\* Every state has its type, and leadership that is not renewed ends, for every
\* configuration the code accepts.
THEOREM ElectionIsSafe == Spec => []ElectionSafe
<1>1. TypeOK /\ LeadershipIsBounded => ElectionSafe
  BY DEF ElectionSafe
<1> QED BY <1>1, TypeCorrect, LeadershipEnds, PTL
-----------------------------------------------------------------------------
\* An attempt that ends in an answer to follow or in a failure keeps the
\* invariant: leadership is lost, or the deadline is still ahead.
LEMMA EndAttemptStep ==
  ASSUME IInv, BaseInv', LeaderTimeInv', NEW p \in Proc,
         attempt[p].phase # "sleeping", EndAttempt(p), UNCHANGED <<now, lease, inflight>>,
         \/ leader[p] /\ now - renewed[p] < RenewDeadline /\ UNCHANGED <<leader, renewed, granted>>
         \/ LoseLeadership(p)
  PROVE  IInv'
<1> TypeOK BY DEF IInv, BaseInv
<1>1. /\ \A q \in Proc \ {p} :
           /\ attempt'[q] = attempt[q] /\ leader'[q] = leader[q]
           /\ renewed'[q] = renewed[q] /\ granted'[q] = granted[q]
      /\ \/ ~leader'[p]
         \/ /\ leader[p] /\ now - renewed[p] < RenewDeadline
            /\ renewed'[p] = renewed[p] /\ granted'[p] = granted[p]
  BY LoseLeadershipEffect, EndAttemptEffect
<1>2. /\ attempt'[p].phase = "sleeping"
      /\ attempt'[p].response = "none"
      /\ attempt'[p].due \in Nat
      /\ attempt'[p].due >= now
      /\ attempt'[p].due >= attempt[p].start + RetryPeriod
      /\ attempt'[p].due = now \/ attempt'[p].due = attempt[p].start + RetryPeriod
  BY EndAttemptEffect
<1>6. GrantInv'
  BY <1>1, <1>2 DEF IInv, GrantInv, Valid
<1>7. OrderInv'
  <2>1. \A m \in inflight : m.proc \in Proc
    BY DEF TypeOK, Requests
  <2> QED BY <1>1, <1>2, <2>1 DEF IInv, OrderInv
<1> QED BY <1>6, <1>7 DEF IInv

\* A confirmed write makes the sender leader of a Lease it still holds.
LEMMA HolderStep ==
  ASSUME IInv, BaseInv', LeaderTimeInv', NEW p \in Proc, attempt[p].phase = "writing",
         attempt[p].response = "ok", ObserveHolder(p), EndAttempt(p),
         UNCHANGED <<now, lease, inflight>>
  PROVE  IInv'
<1> TypeOK BY DEF IInv, BaseInv
<1>1. /\ \A q \in Proc \ {p} :
           /\ attempt'[q] = attempt[q] /\ leader'[q] = leader[q]
           /\ renewed'[q] = renewed[q] /\ granted'[q] = granted[q]
      /\ renewed'[p] = now /\ granted'[p] = attempt[p].start
  BY EndAttemptEffect DEF ObserveHolder, TypeOK
<1>2. /\ attempt'[p].phase = "sleeping"
      /\ attempt'[p].response = "none"
      /\ attempt'[p].due \in Nat
      /\ attempt'[p].due >= now
      /\ attempt'[p].due = now \/ attempt'[p].due = attempt[p].start + RetryPeriod
  BY EndAttemptEffect
<1>5. GrantInv'
  BY <1>1, <1>2 DEF IInv, GrantInv, Valid
<1>6. OrderInv'
  <2>1. \A m \in inflight : m.proc \in Proc
    BY DEF TypeOK, Requests
  <2> QED BY <1>1, <1>2, <2>1 DEF IInv, OrderInv
<1> QED BY <1>5, <1>6 DEF IInv

\* Waking up keeps the invariant: the sleep ended before the deadline.
LEMMA StartStep ==
  ASSUME IInv, BaseInv', LeaderTimeInv', NEW p \in Proc, StartAttempt(p)
  PROVE  IInv'
<1> TypeOK BY DEF IInv, BaseInv
<1>2. /\ \A q \in Proc \ {p} : attempt'[q] = attempt[q]
      /\ attempt'[p].phase = "reading" /\ attempt'[p].response = "none"
      /\ attempt'[p].start = now
  BY DEF StartAttempt, TypeOK
<1>3. UNCHANGED <<now, lease, inflight, leader, renewed, granted>>
  BY DEF StartAttempt
<1>7. GrantInv'
  BY <1>2, <1>3 DEF IInv, GrantInv, Valid
<1>8. OrderInv'
  <2>1. \A m \in inflight : m.proc \in Proc
    BY DEF TypeOK, Requests
  <2> QED BY <1>2, <1>3, <2>1 DEF IInv, OrderInv
<1> QED BY <1>7, <1>8 DEF IInv

\* A new request is younger than anything its sender knows.
LEMMA ReadClaimableStep ==
  ASSUME IInv, BaseInv', LeaderTimeInv', NEW p \in Proc, ReadClaimable(p)
  PROVE  IInv'
<1> TypeOK BY DEF IInv, BaseInv
<1>1. /\ \A q \in Proc \ {p} : attempt'[q] = attempt[q]
      /\ attempt'[p].phase = "writing" /\ attempt'[p].response = attempt[p].response
      /\ attempt'[p].start = attempt[p].start
  BY DEF ReadClaimable, TypeOK, Attempts
<1>2. UNCHANGED <<now, lease, leader, renewed, granted>> /\ attempt[p].phase = "reading"
  BY DEF ReadClaimable
<1> DEFINE n == WriteRequest(p)
<1>3. /\ inflight' = inflight \cup {n}
      /\ n.proc = p /\ n.start = attempt[p].start /\ n.rv = lease.rv
  BY DEF ReadClaimable, WriteRequest
<1>4. attempt[p].response = "none"
  BY <1>2 DEF IInv, GrantInv, Valid
<1>7. GrantInv'
  BY <1>1, <1>2, <1>4 DEF IInv, GrantInv, Valid
<1>8. OrderInv'
  <2>1. \A m \in inflight : m.proc \in Proc
    BY DEF TypeOK, Requests
  <2>2. granted[p] \in Nat /\ attempt[p].start \in Nat
    BY DEF TypeOK, Attempts
  <2>3. leader[p] => n.start >= granted[p]
    BY <1>2, <1>3, <2>2 DEF IInv, LeaderTimeInv
  <2> QED BY <1>1, <1>2, <1>3, <1>4, <2>1, <2>3 DEF IInv, OrderInv
<1> QED BY <1>7, <1>8 DEF IInv

\* A restart and the loss of a request forget; the clock and a stutter keep.
LEMMA RestartStep ==
  ASSUME IInv, BaseInv', LeaderTimeInv', NEW p \in Proc, Restart(p)
  PROVE  IInv'
<1> TypeOK BY DEF IInv, BaseInv
<1>1. LoseLeadership(p) /\ UNCHANGED <<now, lease, inflight>>
  BY DEF Restart
<1>a. /\ attempt'[p] = Asleep(attempt[p], now + 1)
      /\ \A q \in Proc \ {p} : attempt'[q] = attempt[q]
  BY DEF Restart, TypeOK
<1>2. attempt'[p].phase = "sleeping" /\ attempt'[p].response = "none"
  BY <1>a DEF Asleep
<1>3. /\ ~leader'[p]
      /\ \A q \in Proc \ {p} : /\ leader'[q] = leader[q]
                               /\ renewed'[q] = renewed[q] /\ granted'[q] = granted[q]
  BY <1>1, LoseLeadershipEffect
<1>4. GrantInv'
  BY <1>1, <1>a, <1>2, <1>3 DEF IInv, GrantInv, Valid
<1>5. OrderInv'
  <2>1. \A m \in inflight : m.proc \in Proc
    BY DEF TypeOK, Requests
  <2> QED BY <1>1, <1>a, <1>2, <1>3, <2>1 DEF IInv, OrderInv
<1> QED BY <1>4, <1>5 DEF IInv

\* Whoever takes the Lease over has waited for its validity to run out, so a process
\* that leads, or is about to learn that it leads, is overtaken only after that.
LEMMA NoOvertaking ==
  ASSUME IInv, NEW m \in inflight, m.rv = lease.rv, lease.rv # 0,
         m.proc # lease.holder, NEW p \in Proc
  PROVE  /\ leader[p] => ~Valid(granted[p])
         /\ attempt[p].phase = "writing" /\ attempt[p].response = "ok" => ~Valid(attempt[p].start)
<1>1. /\ m.renew >= lease.renew + LeaseDuration
      /\ m.start <= now /\ m.renew <= m.start + ClockSkew
  BY DEF IInv, BaseInv, RequestInv
<1>2. /\ m.renew \in Nat /\ m.start \in Nat /\ now \in Nat /\ lease.renew \in Nat
      /\ attempt[p].start \in Nat /\ granted[p] \in Nat
  BY DEF IInv, BaseInv, TypeOK, Requests, Leases, Attempts
<1>3. now + ClockSkew >= lease.renew + LeaseDuration
  BY <1>1, <1>2
<1>4. ASSUME leader[p], Valid(granted[p]) PROVE FALSE
  <2>1. lease.renew >= granted[p]
    BY <1>4 DEF IInv, GrantInv
  <2> QED BY <1>2, <1>3, <1>4, <2>1 DEF Valid
<1>5. ASSUME attempt[p].phase = "writing", attempt[p].response = "ok", Valid(attempt[p].start)
      PROVE  FALSE
  <2>1. lease.renew >= attempt[p].start
    BY <1>5 DEF IInv, GrantInv
  <2> QED BY <1>2, <1>3, <1>5, <2>1 DEF Valid
<1> QED BY <1>4, <1>5

\* The server's compare-and-swap never takes a valid Lease from a leader.
LEMMA ServerWriteStep ==
  ASSUME IInv, BaseInv', LeaderTimeInv', NEW m \in inflight, ServerWrite(m)
  PROVE  IInv'
<1>1. /\ m \in Requests /\ m.proc \in Proc /\ m.start \in Nat /\ m.rv \in Nat /\ m.renew \in Nat
      /\ lease.rv \in Nat /\ lease.renew \in Nat
  BY DEF IInv, BaseInv, TypeOK, Requests, Leases
<1>2. /\ UNCHANGED <<now, leader, renewed, granted>>
      /\ inflight' = inflight \ {m}
      /\ \A q \in Proc : /\ attempt'[q].phase = attempt[q].phase
                         /\ attempt'[q].start = attempt[q].start
                         /\ attempt'[q].due = attempt[q].due
                         /\ attempt'[q].utc = attempt[q].utc
      /\ \A q \in Proc : attempt'[q].response # attempt[q].response =>
           /\ q = m.proc /\ attempt[q].phase = "writing" /\ attempt[q].start = m.start
           /\ attempt'[q].response = IF m.rv = lease.rv THEN "ok" ELSE "conflict"
  BY <1>1 DEF ServerWrite, IInv, BaseInv, TypeOK, Attempts
<1>4. CASE m.rv # lease.rv
  <2>1. lease' = lease
    BY <1>4 DEF ServerWrite
  <2>2. \A q \in Proc : attempt'[q].response = "ok" => attempt[q].response = "ok"
    BY <1>2, <1>4
  <2>3. GrantInv'
    BY <1>2, <2>1, <2>2 DEF IInv, GrantInv, Valid
  <2>4. OrderInv'
    <3>1. \A n \in inflight : n.proc \in Proc
      BY DEF IInv, BaseInv, TypeOK, Requests
    <3> QED BY <1>2, <2>1, <2>2, <3>1 DEF IInv, OrderInv
  <2> QED BY <2>3, <2>4 DEF IInv
<1>5. CASE m.rv = lease.rv
  <2>1. lease'.rv = lease.rv + 1 /\ lease'.holder = m.proc /\ lease'.renew = m.renew
    BY <1>5 DEF ServerWrite
  <2>2. \A q \in Proc : leader[q] /\ Valid(granted[q]) => q = m.proc /\ m.start >= granted[q]
    <3> SUFFICES ASSUME NEW q \in Proc, leader[q], Valid(granted[q])
                 PROVE q = m.proc /\ m.start >= granted[q]
      OBVIOUS
    <3>1. lease.holder = q
      BY DEF IInv, GrantInv
    <3>2. lease.rv # 0
      BY <3>1 DEF IInv, BaseInv, RequestInv
    <3>3. q = m.proc
      BY <1>5, <3>1, <3>2, NoOvertaking
    <3> QED BY <1>5, <3>3 DEF IInv, OrderInv
  <2>3. \A q \in Proc : attempt[q].phase = "writing" /\ attempt[q].response = "ok"
            /\ Valid(attempt[q].start)
          => q = m.proc /\ m.start >= attempt[q].start
    <3> SUFFICES ASSUME NEW q \in Proc, attempt[q].phase = "writing", attempt[q].response = "ok",
                        Valid(attempt[q].start)
                 PROVE q = m.proc /\ m.start >= attempt[q].start
      OBVIOUS
    <3>1. lease.holder = q
      BY DEF IInv, GrantInv
    <3>2. lease.rv # 0
      BY <3>1 DEF IInv, BaseInv, RequestInv
    <3>3. q = m.proc
      BY <1>5, <3>1, <3>2, NoOvertaking
    <3> QED BY <1>5, <3>3 DEF IInv, OrderInv
  <2>4. m.renew >= m.start
    BY DEF IInv, BaseInv, RequestInv
  <2>5. GrantInv'
    <3> SUFFICES ASSUME NEW q \in Proc
        PROVE /\ attempt'[q].phase # "writing" => attempt'[q].response = "none"
              /\ leader'[q] /\ Valid(granted[q])' =>
                   lease'.holder = q /\ lease'.renew >= granted'[q]
              /\ attempt'[q].phase = "writing" /\ attempt'[q].response = "ok"
                   /\ Valid(attempt[q].start)' =>
                   lease'.holder = q /\ lease'.renew >= attempt'[q].start
      BY DEF GrantInv
    <3>0. attempt[q].start \in Nat /\ granted[q] \in Nat
      BY DEF IInv, BaseInv, TypeOK, Attempts
    <3>v. /\ Valid(granted[q])' => Valid(granted[q])
          /\ Valid(attempt[q].start)' => Valid(attempt[q].start)
      BY <1>2 DEF Valid
    <3>1. attempt'[q].phase # "writing" => attempt'[q].response = "none"
      BY <1>2 DEF IInv, GrantInv
    <3>2. leader'[q] /\ Valid(granted[q])' => lease'.holder = q /\ lease'.renew >= granted'[q]
      BY <1>1, <1>2, <2>1, <2>2, <2>4, <3>0, <3>v
    <3>3. attempt'[q].phase = "writing" /\ attempt'[q].response = "ok" /\ Valid(attempt[q].start)'
            => lease'.holder = q /\ lease'.renew >= attempt'[q].start
      BY <1>1, <1>2, <2>1, <2>3, <2>4, <3>0, <3>v
    <3> QED BY <3>1, <3>2, <3>3
  <2>6. OrderInv'
    <3>1. \A n \in inflight : n.rv \in Nat /\ n.rv <= lease.rv
      BY DEF IInv, BaseInv, TypeOK, Requests, RequestInv
    <3>2. \A n \in inflight' : n.rv # lease'.rv
      BY <1>1, <1>2, <2>1, <3>1
    <3> QED BY <3>2 DEF OrderInv
  <2> QED BY <2>5, <2>6 DEF IInv
<1> QED BY <1>4, <1>5

\* Every step keeps the inductive invariant, whatever the timings are.
LEMMA InvStep == IInv /\ [Next]_vars => IInv'
<1> SUFFICES ASSUME IInv, [Next]_vars PROVE IInv'
  OBVIOUS
<1>0. BaseInv' /\ LeaderTimeInv' /\ TypeOK
  BY BaseStep, TimeStep DEF IInv, BaseInv
<1>1. CASE UNCHANGED vars
  BY <1>0, <1>1 DEF vars, IInv, GrantInv, OrderInv, Valid
<1>2. CASE Tick
  <2>1. \A t \in Nat : Valid(t)' => Valid(t)
    BY <1>0, <1>2 DEF Tick, Valid, TypeOK
  <2>2. \A p \in Proc : granted[p] \in Nat /\ attempt[p].start \in Nat
    BY <1>0 DEF TypeOK, Attempts
  <2>3. UNCHANGED <<lease, inflight, attempt, leader, renewed, granted>>
    BY <1>2 DEF Tick
  <2>4. GrantInv'
    <3> SUFFICES ASSUME NEW p \in Proc
        PROVE /\ attempt'[p].phase # "writing" => attempt'[p].response = "none"
              /\ leader'[p] /\ Valid(granted[p])' =>
                   lease'.holder = p /\ lease'.renew >= granted'[p]
              /\ attempt'[p].phase = "writing" /\ attempt'[p].response = "ok"
                   /\ Valid(attempt[p].start)' =>
                   lease'.holder = p /\ lease'.renew >= attempt'[p].start
      BY DEF GrantInv
    <3>1. /\ Valid(granted[p])' => Valid(granted[p])
          /\ Valid(attempt[p].start)' => Valid(attempt[p].start)
      BY <2>1, <2>2, <2>3
    <3> QED BY <2>3, <3>1 DEF IInv, GrantInv
  <2>5. OrderInv'
    BY <2>3 DEF IInv, OrderInv
  <2> QED BY <1>0, <2>4, <2>5 DEF IInv
<1>3. ASSUME NEW p \in Proc, StartAttempt(p) PROVE IInv'
  BY <1>0, <1>3, StartStep
<1>4. ASSUME NEW p \in Proc, ReadFollower(p) PROVE IInv'
  <2>1. /\ attempt[p].phase # "sleeping" /\ LoseLeadership(p) /\ EndAttempt(p)
        /\ UNCHANGED <<now, lease, inflight>>
    BY <1>4 DEF ReadFollower, ObserveFollower
  <2> QED BY <1>0, <2>1, EndAttemptStep
<1>5. ASSUME NEW p \in Proc, ReadClaimable(p) PROVE IInv'
  BY <1>0, <1>5, ReadClaimableStep
<1>6. ASSUME NEW p \in Proc, ReceiveResponse(p) PROVE IInv'
  <2>1. /\ attempt[p].phase = "writing" /\ EndAttempt(p)
        /\ UNCHANGED <<now, lease, inflight>>
    BY <1>6 DEF ReceiveResponse
  <2>2. CASE attempt[p].response = "ok"
    <3>1. ObserveHolder(p)
      BY <1>6, <2>2 DEF ReceiveResponse
    <3> QED BY <1>0, <2>1, <2>2, <3>1, HolderStep
  <2>3. CASE attempt[p].response # "ok"
    <3>1. ObserveFailure(p)
      BY <1>6, <2>3 DEF ReceiveResponse
    <3> QED BY <1>0, <2>1, <3>1, ObserveFailureEffect, EndAttemptStep
  <2> QED BY <2>2, <2>3
<1>7. ASSUME NEW p \in Proc, AttemptFails(p) PROVE IInv'
  <2>1. /\ attempt[p].phase # "sleeping" /\ EndAttempt(p) /\ ObserveFailure(p)
        /\ UNCHANGED <<now, lease, inflight>>
    BY <1>7 DEF AttemptFails
  <2> QED BY <1>0, <2>1, ObserveFailureEffect, EndAttemptStep
<1>8. ASSUME NEW p \in Proc, Restart(p) PROVE IInv'
  BY <1>0, <1>8, RestartStep
<1>9. ASSUME NEW m \in inflight, ServerWrite(m) PROVE IInv'
  BY <1>0, <1>9, ServerWriteStep
<1>10. ASSUME NEW m \in inflight, LoseRequest(m) PROVE IInv'
  BY <1>0, <1>10 DEF LoseRequest, IInv, GrantInv, OrderInv, Valid
<1> QED
  BY <1>1, <1>2, <1>3, <1>4, <1>5, <1>6, <1>7, <1>8, <1>9, <1>10 DEF Next, ProcStep

LEMMA InitInv == Init => IInv
BY DEF Init, IInv, BaseInv, TypeOK, TimersInv, RequestInv, LeaderTimeInv, GrantInv,
       OrderInv, Leases, Attempts, Phases, Responses

\* For every configuration the code accepts, a process that believes it leads holds
\* the Lease until its validity has run out, and the belief of one that was overtaken
\* then ends within the renew deadline and three retry periods of its last renewal.
THEOREM LeaderOwnership == Spec => []LeaderOwnsLease
<1>1. IInv => LeaderOwnsLease
  <2> SUFFICES ASSUME IInv, NEW p \in Proc, leader[p], lease.holder # p
               PROVE  /\ ~Valid(granted[p])
                      /\ now < granted[p] + RenewDeadline + 3 * RetryPeriod + 3 * SchedLag
    BY DEF LeaderOwnsLease
  <2>1. ~Valid(granted[p])
    BY DEF IInv, GrantInv
  <2>2. /\ now \in Nat /\ renewed[p] \in Nat /\ granted[p] \in Nat
        /\ attempt[p].start \in Nat /\ attempt[p].due \in Nat
    BY DEF IInv, BaseInv, TypeOK, Attempts
  <2>3. now < granted[p] + RenewDeadline + 3 * RetryPeriod + 3 * SchedLag
    BY <2>2 DEF IInv, BaseInv, TimersInv, LeaderTimeInv
  <2> QED BY <2>1, <2>3
<1> QED BY <1>1, InitInv, InvStep, PTL DEF Spec

\* Where the lease duration covers all of that, timer lag and clock error included,
\* the two bounds meet: whoever believes it leads holds the Lease at every moment.
COROLLARY NobodyLeadsBesideTheOwner ==
  ASSUME LeaseDuration >= RenewDeadline + 3 * RetryPeriod + 3 * SchedLag + ClockSkew
  PROVE  Spec => [](\A p \in Proc : leader[p] => lease.holder = p)
<1>1. TypeOK /\ LeaderOwnsLease => \A p \in Proc : leader[p] => lease.holder = p
  <2> SUFFICES ASSUME TypeOK, LeaderOwnsLease, NEW p \in Proc, leader[p], lease.holder # p
               PROVE  FALSE
    OBVIOUS
  <2>1. now \in Nat /\ granted[p] \in Nat
    BY DEF TypeOK
  <2>2. ~Valid(granted[p]) /\ now < granted[p] + RenewDeadline + 3 * RetryPeriod + 3 * SchedLag
    BY DEF LeaderOwnsLease
  <2> QED BY <2>1, <2>2 DEF Valid
<1> QED BY <1>1, TypeCorrect, LeaderOwnership, PTL
-----------------------------------------------------------------------------
\* The leaders whose Lease is valid.
Elected == {p \in Proc : leader[p] /\ Valid(granted[p])}
OwnerLeads == Elected \subseteq {lease.holder}

\* A step that gives the Lease to another touches nobody's belief and no clock.
LEMMA TakeoverAlone ==
  ASSUME TypeOK, [Next]_vars, lease'.holder # lease.holder
  PROVE  lease'.holder \in Proc /\ UNCHANGED <<now, leader, granted>>
<1>1. PICK m \in inflight : ServerWrite(m)
  BY DEF Next, vars, ProcStep, Tick, StartAttempt, ReadFollower, ReadClaimable,
         ReceiveResponse, AttemptFails, Restart, LoseRequest
<1>2. m.proc \in Proc
  BY DEF TypeOK, Requests
<1> QED BY <1>1, <1>2 DEF ServerWrite

\* Only the owner leads on a valid Lease, before a step and after it.
LEMMA OfficeStep ==
  ASSUME TypeOK, OwnerLeads, OwnerLeads', [Next]_vars
  PROVE  [Office!Next]_(Office!vars)
<1>0. Elected \subseteq {lease.holder} /\ Elected' \subseteq {lease'.holder}
  BY DEF OwnerLeads
<1>1. CASE lease'.holder # lease.holder
  <2>1. Elected' = Elected /\ lease'.holder \in Proc
    BY <1>1, TakeoverAlone DEF Elected, Valid
  <2>2. Office!Take(lease'.holder)
    BY <1>0, <1>1, <2>1 DEF Office!Take, Elected
  <2> QED BY <2>1, <2>2 DEF Office!Next
<1>2. CASE lease'.holder = lease.holder
  <2>1. CASE Elected' = Elected
    BY <1>2, <2>1 DEF Office!vars, Elected
  <2>2. CASE Elected # {} /\ Elected' = {}
    BY <1>2, <2>2 DEF Office!Next, Office!Resign, Elected
  <2>3. CASE Elected = {} /\ Elected' # {}
    <3>1. Elected' = {lease.holder}
      BY <1>0, <1>2, <2>3
    <3>2. PICK q \in Proc : lease.holder = q
      BY <3>1 DEF Elected
    <3>3. /\ lease'.holder = lease.holder
          /\ Elected = {}
          /\ Elected' = {q}
      BY <1>2, <2>3, <3>1, <3>2
    <3>4. Office!Elect(q)
      BY <3>2, <3>3 DEF Office!Elect, Elected
    <3> QED BY <3>4 DEF Office!Next
  <2> QED BY <1>0, <1>2, <2>1, <2>2, <2>3
<1> QED BY <1>1, <1>2

\* The election implements the abstract office for every configuration the code
\* accepts, whatever is late, lost or restarted: the Lease changes hands only while
\* nobody leads on a valid one.
THEOREM ElectionImplementsOffice == Spec => ImplementsOffice
<1>1. Init => Office!Init
  BY DEF Init, Office!Init
<1>2. IInv => TypeOK /\ OwnerLeads
  BY DEF IInv, BaseInv, GrantInv, Elected, OwnerLeads
<1>3. TypeOK /\ OwnerLeads /\ OwnerLeads' /\ [Next]_vars => [Office!Next]_(Office!vars)
  BY OfficeStep
<1>4. IInv /\ IInv' /\ [Next]_vars => [Office!Next]_(Office!vars)
  BY <1>2, <1>3, PTL
<1>5. Spec => Office!Spec
  BY <1>1, <1>4, InitInv, InvStep, PTL DEF Spec, Office!Spec
<1> QED BY <1>5 DEF ImplementsOffice
=============================================================================
