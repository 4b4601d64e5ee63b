---------------------------- MODULE TokenRotation ----------------------------
(* The loop that keeps the mounted installation token of every session fresh    *)
(* (k8s/token_rotation.rs): a full sweep every interval, and between them repair *)
(* passes over the sessions that failed, each on a back-off of its own. Clocks   *)
(* count down from the present; a token is as old as its age. The loop is urgent: *)
(* time passes while it sleeps, or in the middle of a pass as a fault.           *)
EXTENDS Naturals

CONSTANTS
  Session,
  Ttl,         \* life of a token
  Interval,    \* pod_token_refresh_secs
  Initial,     \* RETRY_INITIAL_SECS
  MaxFaults    \* bound: transient failures, crashes and slow calls

VARIABLES
  role,        \* well; broken, its delivery always fails; revoked, it cannot mint
  age,         \* age of the mounted token, of a session that is well; Ttl is expired
  live,        \* the fleet
  next,        \* time to the next full sweep
  pending,     \* backlog: [Session -> [in, due, delay]]
  fleetDelay,  \* next delay after a failed list
  pass,        \* the pass that is running
  reported,    \* sessions enqueued for the reconciler to kill
  faults

vars == <<role, age, live, next, pending, fleetDelay, pass, reported, faults>>

NoEntry == [in |-> FALSE, due |-> 0, delay |-> Initial]
NoPass == [kind |-> "none", todo |-> {}, attempted |-> {}, retryable |-> {}]

Lesser(a, b) == IF a <= b THEN a ELSE b
Monus(a, b) == IF a <= b THEN 0 ELSE a - b

\* RetryBackoff::next_delay and jittered_delay (20 per cent).
NextDelay(delay) == Lesser(2 * delay, Interval)
Longest(delay) == delay + (delay * 20) \div 100
Jittered(delay) == (delay - (delay * 20) \div 100)..Longest(delay)

Fault == faults < MaxFaults /\ faults' = faults + 1

----------------------------------------------------------------------------
(* The loop                                                                 *)

\* A full sweep is due and the fleet was listed.
StartSweep ==
  /\ pass.kind = "none" /\ next = 0
  /\ next' = Interval /\ fleetDelay' = Initial
  /\ pass' = [NoPass EXCEPT !.kind = "full", !.todo = live, !.attempted = live]
  /\ UNCHANGED <<role, age, live, pending, reported, faults>>

\* The list failed: the whole sweep comes again soon.
ListFails ==
  /\ pass.kind = "none" /\ next = 0
  /\ Fault
  /\ next' \in Jittered(fleetDelay) /\ fleetDelay' = NextDelay(fleetDelay)
  /\ UNCHANGED <<role, age, live, pending, pass, reported>>

Due == {s \in Session : pending[s].in /\ pending[s].due = 0}

\* A repair pass over exactly the entries whose own delay has elapsed.
StartRepair ==
  /\ pass.kind = "none" /\ next > 0 /\ Due # {}
  /\ pass' = [NoPass EXCEPT !.kind = "repair", !.todo = Due, !.attempted = Due]
  /\ UNCHANGED <<role, age, live, next, pending, fleetDelay, reported, faults>>

\* token_with_expiry_for_repo_forced: always a full life.
Mint(s) == 0

\* rotate_one and is_permanent_mint_failure, without a fault.
Outcome(s) ==
  IF role[s] = "revoked" THEN "permanent"
  ELSE IF s \notin live THEN "gone"
  ELSE IF role[s] = "broken" THEN "retryable" ELSE "refreshed"

Settle(s, outcome) ==
  /\ pass' = [pass EXCEPT !.todo = @ \ {s},
                          !.retryable = IF outcome = "retryable" THEN @ \cup {s} ELSE @]
  /\ age' = IF outcome = "refreshed" THEN [age EXCEPT ![s] = Mint(s)] ELSE age
  /\ reported' = IF outcome = "permanent" THEN reported \cup {s} ELSE reported
  /\ UNCHANGED <<role, live, next, pending, fleetDelay>>

RotateOne(s) == s \in pass.todo /\ Settle(s, Outcome(s)) /\ UNCHANGED faults

\* The mint or the delivery fails transiently.
RotateFails(s) ==
  /\ s \in pass.todo /\ Outcome(s) = "refreshed"
  /\ Fault /\ Settle(s, "retryable")

\* Mutant: one back-off for the whole backlog.
AbsorbShared(kept, retryable, jitter) ==
  LET delays == {Initial} \cup {kept[s].delay : s \in {t \in Session : kept[t].in}}
      top == CHOOSE d \in delays : \A e \in delays : e <= d IN
  [s \in Session |->
     IF s \in retryable THEN [in |-> TRUE, due |-> top, delay |-> NextDelay(top)] ELSE kept[s]]

\* absorb: a session that still fails waits for its own delay, then twice as long.
Absorb(kept, retryable, jitter) ==
  [s \in Session |->
     IF s \in retryable
     THEN [in |-> TRUE, due |-> jitter[s], delay |-> NextDelay(kept[s].delay)]
     ELSE kept[s]]

\* The backlog after a pass: a full sweep drops the sessions that are gone, a
\* repair pass those that are repaired.
Kept ==
  [s \in Session |->
     IF pending[s].in /\ (IF pass.kind = "full" THEN s \in pass.attempted
                          ELSE s \notin pass.attempted \/ s \in pass.retryable)
     THEN pending[s] ELSE NoEntry]

EndPass ==
  /\ pass.kind # "none" /\ pass.todo = {}
  /\ \E jitter \in [pass.retryable -> 0..Longest(Interval)] :
       /\ \A s \in pass.retryable : jitter[s] \in Jittered(Kept[s].delay)
       /\ pending' = Absorb(Kept, pass.retryable, jitter)
  /\ pass' = NoPass
  /\ UNCHANGED <<role, age, live, next, fleetDelay, reported, faults>>

----------------------------------------------------------------------------
(* Time, sessions and the process                                           *)

Pass1 ==
  /\ age' = [s \in Session |-> IF s \in live /\ role[s] = "well"
                               THEN Lesser(age[s] + 1, Ttl) ELSE 0]
  /\ next' = Monus(next, 1)
  /\ pending' = [s \in Session |-> [pending[s] EXCEPT !.due = Monus(@, 1)]]

\* The loop sleeps to the earlier of the next sweep and the soonest entry.
Tick ==
  /\ pass.kind = "none" /\ next > 0 /\ Due = {}
  /\ Pass1
  /\ UNCHANGED <<role, live, fleetDelay, pass, reported, faults>>

\* A call of the running pass takes its time.
Slow ==
  /\ pass.kind # "none" /\ Fault
  /\ Pass1
  /\ UNCHANGED <<role, live, fleetDelay, pass, reported>>

\* A session is delivered with a token of full life.
Spawn(s) ==
  /\ s \notin live /\ role[s] # "revoked"
  /\ live' = live \cup {s} /\ age' = [age EXCEPT ![s] = 0]
  /\ UNCHANGED <<role, next, pending, fleetDelay, pass, reported, faults>>

\* The reconciler ends it: work done, or reported as unable to mint.
End(s) ==
  /\ s \in live
  /\ live' = live \ {s} /\ age' = [age EXCEPT ![s] = 0]
  /\ reported' = reported \ {s}
  /\ UNCHANGED <<role, next, pending, fleetDelay, pass, faults>>

\* Another process takes over; its first sweep is immediate.
Crash ==
  /\ Fault
  /\ next' = 0 /\ pending' = [s \in Session |-> NoEntry] /\ fleetDelay' = Initial
  /\ pass' = NoPass
  /\ UNCHANGED <<role, age, live, reported>>

\* The installation is suspended, removed or loses a permission.
Revoke(s) ==
  /\ role[s] = "well" /\ role' = [role EXCEPT ![s] = "revoked"]
  /\ age' = [age EXCEPT ![s] = 0]
  /\ UNCHANGED <<live, next, pending, fleetDelay, pass, reported, faults>>

Init ==
  /\ role \in [Session -> {"well", "broken"}]
  /\ age = [s \in Session |-> 0] /\ live = Session /\ next = 0
  /\ pending = [s \in Session |-> NoEntry] /\ fleetDelay = Initial /\ pass = NoPass
  /\ reported = {} /\ faults = 0

Next ==
  \/ StartSweep \/ ListFails \/ StartRepair \/ EndPass \/ Tick \/ Slow \/ Crash
  \/ \E s \in Session : RotateOne(s) \/ RotateFails(s) \/ Spawn(s) \/ End(s) \/ Revoke(s)

Spec == Init /\ [][Next]_vars

\* The loop runs whenever it is due and time goes on. What the reconciler does
\* with a report is not owed here.
FairSpec ==
  /\ Spec
  /\ WF_vars(StartSweep) /\ WF_vars(StartRepair) /\ WF_vars(EndPass) /\ WF_vars(Tick)
  /\ \A s \in Session : WF_vars(RotateOne(s))

----------------------------------------------------------------------------
(* Properties                                                               *)

\* The state has its type; no clock is set past the interval and its jitter, so a
\* session that keeps failing degrades to the periodic cadence "and never to a
\* slower one".
TypeOK ==
  /\ role \in [Session -> {"well", "broken", "revoked"}]
  /\ age \in [Session -> 0..Ttl] /\ live \subseteq Session
  /\ reported \subseteq Session /\ faults \in 0..MaxFaults
  /\ next \in 0..Longest(Interval) /\ fleetDelay \in Initial..Interval
  /\ \A s \in Session : /\ pending[s].in \in BOOLEAN /\ pending[s].delay \in Initial..Interval
                        /\ pending[s].due \in 0..Longest(Interval)
  /\ pass.kind \in {"none", "full", "repair"}
  /\ pass.todo \subseteq pass.attempted /\ pass.retryable \subseteq pass.attempted

\* With as many faults as MaxFaults, in any place, no session that can be served
\* ever holds an expired token; a session that always fails costs the others
\* nothing (token_rotation.rs, "Cadence and retry").
NeverExpires ==
  \A s \in live : role[s] = "well" => age[s] < Ttl

\* A session that cannot mint any more is handed to the reconciler, however often
\* the process dies.
Revoked(s) == role[s] = "revoked" /\ s \in live
Reported(s) == s \in reported \/ s \notin live

\* What holds of the fleet's tokens at every state.
RotationSafe == TypeOK /\ NeverExpires
=============================================================================
