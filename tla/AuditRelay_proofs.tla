------------------------- MODULE AuditRelay_proofs -------------------------
(***************************************************************************)
(* Proofs about AuditRelay for any set of requests and lifecycle events,   *)
(* any scenario, any batch size, capacity and number of attempts, and any  *)
(* number of lost calls, failed writes, outages and crashes.               *)
(***************************************************************************)
EXTENDS AuditRelay, FiniteSetTheorems, WellFoundedInduction, TLAPS

Record == [state : RecordStates, start : Version \cup {"none", "event"},
           terminal : Outcome \cup {"none"}, attempts : 0..MaxAttempts, waiting : BOOLEAN]

\* A call the API has sent or may send: what it carries is known.
Callable(phase, c) ==
  \/ phase = "event" /\ c \in Lifecycle
  \/ /\ phase \in {"start", "completion"} /\ c \in Request /\ c \in DOMAIN id
     /\ phase = "completion" => status[c] \in Status

Settled == {"completion", "answered", "unconfirmed"}
RequestStates == {"idle", "start", "handler", "refused", "gone"} \cup Settled
TransitionStates == {"idle", "queued", "local", "event", "recorded", "lost"}

\* The scenario is one of those assumed.
Fixed ==
  /\ DOMAIN id \subseteq Request
  /\ \A r \in DOMAIN id : id[r] \in Event /\ version[r] \in Version

\* Where the callers are: a request that arrived has an event id, one whose
\* handler ran has its status, and every attempt that failed belongs to a call
\* that is still waiting. A completion is never refused for capacity.
CallOf(r) ==
  /\ pc[r] \in RequestStates
  /\ pc[r] # "idle" => r \in DOMAIN id
  /\ pc[r] \in Settled => status[r] \in Status
  /\ pc[r] = "completion" /\ r \in failed => faults > 0
  /\ mode = "required" /\ pc[r] \in {"handler", "completion"} => row[id[r]].state # "none"

Calls ==
  /\ \A r \in Request : CallOf(r)
  /\ \A e \in Lifecycle : pc[e] \in TransitionStates
  /\ \A c \in failed : pc[c] \in Phases
  /\ \A m \in late : Callable(m[1], m[2])

\* Every record is in a legal state: it has an outcome exactly when it left
\* "started", and it has attempts left unless it is dead.
Legal(r) ==
  /\ r.terminal = "none" <=> r.state \in {"none", "started"}
  /\ r.state # "dead" => r.attempts < MaxAttempts

Rows ==
  /\ visible \subseteq captured
  /\ \A e \in Event :
       /\ Legal(row[e])
       /\ row[e].state \in {"verified", "purged"} => e \in visible
       /\ e \in captured => row[e].terminal # "none"

\* What the worker holds in memory is still undelivered in the outbox: nothing
\* else changes a record that has its outcome.
Held ==
  /\ step \in {"sending", "isolating"} => claimed # {}
  /\ step \in {"sending", "isolating", "accepting"} =>
       \A e \in claimed \cup marking : row[e].state \in Undelivered
  /\ step = "accepting" => claimed \cap marking = {}
  /\ step # "accepting" => marking = {}

IInv == TypeOK /\ Fixed /\ Calls /\ Rows /\ Held /\ RelaySafe
-----------------------------------------------------------------------------
LEMMA LeastIsIn ==
  ASSUME NEW S \in SUBSET Nat, S # {}
  PROVE  Least(S) \in S
<1> DEFINE Below == {ss \in Nat \X Nat : ss[1] < ss[2]}
<1>0. IsWellFoundedOn(Below, Nat)
  BY NatLessThanWellFounded DEF OpToRel
<1>1. PICK x \in S : \A y \in S : ~(<<y, x>> \in Below)
  <2> HIDE DEF Below
  <2> QED BY <1>0, WFMin
<1>2. \A a, b \in Nat : a < b => <<a, b>> \in Below
  OBVIOUS
<1> HIDE DEF Below
<1>3. \A y \in S : x \in Nat /\ y \in Nat /\ ~(y < x)
  BY <1>1, <1>2
<1>4. \A y \in S : x <= y
  BY <1>3
<1> QED BY <1>4 DEF Least

\* What is sent is a part of what was claimed.
LEMMA PayloadIsClaimed ==
  ASSUME TypeOK, Held, step \in {"sending", "isolating"}
  PROVE  /\ Payload \subseteq claimed /\ Payload # {}
         /\ \A e \in Payload : e \in Event /\ row[e].state \in Undelivered
<1>1. claimed \in SUBSET Nat /\ claimed # {} /\ claimed \subseteq Event
  BY RelayAssumption DEF TypeOK, Held
<1>2. Least(claimed) \in claimed
  BY <1>1, LeastIsIn
<1>3. Payload \subseteq claimed /\ Payload # {}
  BY <1>1, <1>2 DEF Payload
<1> QED BY <1>1, <1>3 DEF Held

\* A batch that is rejected and not isolated further is one record, the poison.
LEMMA RejectedAlone ==
  ASSUME TypeOK, NEW S \in SUBSET Event, Poisoned(S), ~(Cardinality(S) > 1)
  PROVE  \A e \in S : nature[e] = "poison"
<1>1. PICK p \in S : nature[p] = "poison"
  BY DEF Poisoned
<1>2. IsFiniteSet(S) /\ IsFiniteSet(S \ {p}) /\ Cardinality(S) \in Nat
  BY RelayAssumption, FS_Subset, FS_CardinalityType
<1>3. Cardinality(S \ {p}) = Cardinality(S) - 1
  BY <1>1, <1>2, FS_RemoveElement
<1>4. Cardinality(S \ {p}) \in Nat
  BY <1>2, FS_CardinalityType
<1>5. Cardinality(S \ {p}) = 0
  BY <1>2, <1>3, <1>4
<1>6. S \ {p} = {}
  BY <1>2, <1>5, FS_EmptySet
<1> QED BY <1>1, <1>6
-----------------------------------------------------------------------------
(* What a step does to the records                                         *)

\* A transaction of the API writes a record that has no outcome yet.
Written ==
  /\ row' \in [Event -> Record]
  /\ \A e \in Event :
       \/ row'[e] = row[e]
       \/ /\ row[e].terminal = "none" /\ row'[e].state \in {"started", "complete"}
          /\ Legal(row'[e])
          /\ row[e].state = "started" => row'[e].state = "complete"

LEMMA RowsTyped ==
  ASSUME TypeOK
  PROVE  /\ row \in [Event -> Record]
         /\ \A e \in Event : row[e] \in Record
BY DEF TypeOK, Record

LEMMA CommittedIsRecord ==
  ASSUME TypeOK, Fixed, Rows, NEW phase, NEW c, Callable(phase, c), Verdict(phase, c) = "created"
  PROVE  /\ EventId(c) \in Event
         /\ Committed(phase, c) \in Record
         /\ row[EventId(c)].terminal = "none"
         /\ Committed(phase, c).state \in {"started", "complete"}
         /\ Legal(Committed(phase, c))
         /\ row[EventId(c)].state = "started" => Committed(phase, c).state = "complete"
<1>e. EventId(c) \in Event
  BY RelayAssumption DEF Callable, Fixed, EventId
<1> DEFINE r == row[EventId(c)]
<1>r. r \in Record /\ Legal(r)
  BY <1>e, RowsTyped DEF Rows
<1>n. NoRow \in Record /\ Legal(NoRow)
  BY RelayAssumption DEF NoRow, Record, Legal, RecordStates, Undelivered
<1>1. CASE phase = "start"
  <2>1. r.state = "none" /\ version[c] \in Version
    BY <1>1 DEF Verdict, RegisterStart, Callable, Fixed
  <2>2. r.terminal = "none"
    BY <1>r, <2>1 DEF Legal
  <2>3. Committed(phase, c) = [NoRow EXCEPT !.state = "started", !.start = version[c]]
    BY <1>1 DEF Committed
  <2>4. Committed(phase, c) \in Record /\ Legal(Committed(phase, c)) /\ Committed(phase, c).state = "started"
    BY <1>n, <2>1, <2>3 DEF NoRow, Record, Legal, RecordStates
  <2> QED BY <1>e, <2>1, <2>2, <2>4
<1>2. CASE phase = "completion"
  <2>1. r.state # "none" /\ r.terminal = "none" /\ status[c] \in Status
    BY <1>2 DEF Verdict, CommitCompletion, Callable
  <2>2. r.state = "started"
    BY <1>r, <2>1 DEF Legal
  <2>3. Committed(phase, c) = [r EXCEPT !.state = "complete", !.terminal = status[c], !.waiting = FALSE]
    BY <1>2 DEF Committed
  <2>s. status[c] # "none" /\ status[c] \in Outcome
    BY <2>1, RelayAssumption DEF Outcome
  <2> HIDE DEF r
  <2>4. Committed(phase, c) \in Record /\ Legal(Committed(phase, c)) /\ Committed(phase, c).state = "complete"
    BY <1>r, <2>s, <2>2, <2>3 DEF Record, Legal, RecordStates, Undelivered
  <2> QED BY <1>e, <2>1, <2>2, <2>4 DEF r
<1>3. CASE phase = "event"
  <2>1. r.state = "none"
    BY <1>3 DEF Verdict, CommitLifecycle
  <2>2. r.terminal = "none"
    BY <1>r, <2>1 DEF Legal
  <2>3. Committed(phase, c) = [NoRow EXCEPT !.state = "complete", !.start = "event", !.terminal = "occurred"]
    BY <1>3 DEF Committed
  <2>4. Committed(phase, c) \in Record /\ Legal(Committed(phase, c)) /\ Committed(phase, c).state = "complete"
    BY <1>n, <2>3 DEF NoRow, Record, Legal, RecordStates, Undelivered, Outcome
  <2> QED BY <1>e, <2>1, <2>2, <2>4
<1> QED BY <1>1, <1>2, <1>3 DEF Callable

LEMMA ApplyWrites ==
  ASSUME TypeOK, Fixed, Rows, NEW phase, NEW c, Callable(phase, c), Apply(phase, c)
  PROVE  Written
<1>r. row \in [Event -> Record]
  BY RowsTyped
<1>1. CASE Verdict(phase, c) = "created"
  <2>1. row' = [row EXCEPT ![EventId(c)] = Committed(phase, c)]
    BY <1>1 DEF Apply
  <2> QED BY <1>r, <1>1, <2>1, CommittedIsRecord DEF Written
<1>2. CASE Verdict(phase, c) # "created"
  BY <1>r, <1>2 DEF Apply, Written
<1> QED BY <1>1, <1>2

\* What every step does to the records: they stay legal, they are not forgotten,
\* an outcome does not change, a record dies only for a reason, and only the
\* verification takes an acceptance back.
OnwardAt(e) ==
  /\ Legal(row'[e])
  /\ row[e].state # "none" => row'[e].state # "none"
  /\ row[e].terminal # "none" => row'[e].terminal = row[e].terminal
  /\ row'[e].state = "dead" => nature[e] # "good" \/ row'[e].attempts >= MaxAttempts
  /\ row'[e].state \in {"verified", "purged"} => e \in visible
  /\ row[e].state = "accepted" /\ ~Verify => row'[e].state = "accepted"

Onward == row' \in [Event -> Record] /\ \A e \in Event : OnwardAt(e)

LEMMA UnchangedIsOnward ==
  ASSUME IInv, UNCHANGED row
  PROVE  Onward
BY RowsTyped DEF IInv, Rows, RelaySafe, DeadIsEarned, Onward, OnwardAt, Legal

LEMMA WrittenIsOnward ==
  ASSUME IInv, Written
  PROVE  Onward
<1> SUFFICES ASSUME NEW e \in Event PROVE OnwardAt(e)
  BY DEF Written, Onward
<1>1. /\ Legal(row[e])
      /\ row[e].state \in {"verified", "purged"} => e \in visible
      /\ row[e].state = "dead" => nature[e] # "good" \/ row[e].attempts >= MaxAttempts
  BY DEF IInv, Rows, RelaySafe, DeadIsEarned
<1>2. CASE row'[e] = row[e]
  BY <1>1, <1>2 DEF OnwardAt, Undelivered
<1>3. CASE row'[e] # row[e]
  <2>1. /\ row[e].terminal = "none" /\ row'[e].state \in {"started", "complete"} /\ Legal(row'[e])
    BY <1>3 DEF Written
  <2>2. row[e].state \in {"none", "started"}
    BY <1>1, <2>1 DEF Legal
  <2>3. row'[e].state # "none" /\ row'[e].state \notin {"dead", "verified", "purged"}
    BY <2>1
  <2> QED BY <2>1, <2>2, <2>3 DEF OnwardAt
<1> QED BY <1>2, <1>3

\* What the worker does to one record that has no delivery yet.
LEMMA RecordOps ==
  ASSUME NEW r \in Record, Legal(r), r.state \in Undelivered
  PROVE  /\ DeadLetter(r) \in Record /\ Legal(DeadLetter(r))
         /\ DeadLetter(r).state = "dead" /\ DeadLetter(r).terminal = r.terminal
         /\ Reschedule(r) \in Record /\ Legal(Reschedule(r))
         /\ Reschedule(r).state \in {"dead", r.state} /\ Reschedule(r).terminal = r.terminal
         /\ Reschedule(r).state = "dead" => Reschedule(r).attempts >= MaxAttempts
<1> DEFINE n == r.attempts
<1>1. /\ n \in Nat /\ n < MaxAttempts /\ MaxAttempts \in Nat /\ n + 1 \in 0..MaxAttempts
      /\ r.terminal # "none" /\ r.state # "dead" /\ r.state \notin {"none", "started"}
  BY RelayAssumption DEF Record, Legal, Undelivered
<1> HIDE DEF n
<1>2. DeadLetter(r) = [r EXCEPT !.state = "dead", !.attempts = n + 1, !.waiting = FALSE]
  BY DEF DeadLetter, n
<1>3. DeadLetter(r) \in Record /\ DeadLetter(r).state = "dead" /\ DeadLetter(r).terminal = r.terminal
      /\ DeadLetter(r).attempts = n + 1
  BY <1>1, <1>2 DEF Record, RecordStates
<1>4. Legal(DeadLetter(r))
  BY <1>1, <1>3 DEF Legal
<1>5. CASE n + 1 >= MaxAttempts
  <2>1. Reschedule(r) = DeadLetter(r)
    BY <1>5 DEF Reschedule, n
  <2> QED BY <1>3, <1>4, <1>5, <2>1
<1>6. CASE ~(n + 1 >= MaxAttempts)
  <2>1. Reschedule(r) = [r EXCEPT !.attempts = n + 1, !.waiting = TRUE]
    BY <1>6 DEF Reschedule, n
  <2>2. Reschedule(r) \in Record /\ Reschedule(r).state = r.state /\ Reschedule(r).terminal = r.terminal
        /\ Reschedule(r).attempts = n + 1
    BY <1>1, <2>1 DEF Record
  <2>3. Legal(Reschedule(r))
    BY <1>1, <1>6, <2>2 DEF Legal
  <2> QED BY <1>1, <1>3, <1>4, <2>2, <2>3
<1> QED BY <1>5, <1>6

LEMMA DeadLetteredIsOnward ==
  ASSUME IInv, NEW S \in SUBSET Event, row' = DeadLettered(S),
         \A e \in S : row[e].state \in Undelivered /\ nature[e] # "good"
  PROVE  Onward
<1>1. \A e \in Event : row[e] \in Record
  BY RowsTyped DEF IInv
<1>2. \A e \in Event : row'[e] = IF e \in S THEN DeadLetter(row[e]) ELSE row[e]
  BY DEF DeadLettered
<1>3. \A e \in Event : Legal(row[e])
  BY DEF IInv, Rows
<1>4. ASSUME NEW e \in Event PROVE row'[e] \in Record /\ OnwardAt(e)
  <2>1. CASE e \in S
    BY <1>1, <1>2, <1>3, <2>1, RecordOps DEF OnwardAt, Undelivered
  <2>2. CASE e \notin S
    BY <1>1, <1>2, <1>3, <2>2 DEF OnwardAt, IInv, Rows, RelaySafe, DeadIsEarned
  <2> QED BY <2>1, <2>2
<1>5. row' \in [Event -> Record]
  BY <1>4 DEF DeadLettered
<1> QED BY <1>4, <1>5 DEF Onward

LEMMA RescheduledIsOnward ==
  ASSUME IInv, NEW S \in SUBSET Event, row' = Rescheduled(S),
         \A e \in S : row[e].state \in Undelivered
  PROVE  Onward
<1>1. \A e \in Event : row[e] \in Record
  BY RowsTyped DEF IInv
<1>2. \A e \in Event : row'[e] = IF e \in S THEN Reschedule(row[e]) ELSE row[e]
  BY DEF Rescheduled
<1>3. \A e \in Event : Legal(row[e])
  BY DEF IInv, Rows
<1>4. ASSUME NEW e \in Event PROVE row'[e] \in Record /\ OnwardAt(e)
  <2>1. CASE e \in S
    BY <1>1, <1>2, <1>3, <2>1, RecordOps DEF OnwardAt, Undelivered
  <2>2. CASE e \notin S
    BY <1>1, <1>2, <1>3, <2>2 DEF OnwardAt, IInv, Rows, RelaySafe, DeadIsEarned
  <2> QED BY <2>1, <2>2
<1>5. row' \in [Event -> Record]
  BY <1>4 DEF Rescheduled
<1> QED BY <1>4, <1>5 DEF Onward

LEMMA BackoffIsOnward ==
  ASSUME IInv, NEW e \in Event, PassBackoff(e)
  PROVE  Onward
<1>1. row \in [Event -> Record] /\ row' = [row EXCEPT ![e].waiting = FALSE]
  BY RowsTyped DEF IInv, PassBackoff
<1>2. row' \in [Event -> Record]
  BY <1>1 DEF Record
<1>3. \A f \in Event : /\ row'[f].state = row[f].state /\ row'[f].terminal = row[f].terminal
                       /\ row'[f].attempts = row[f].attempts
  BY <1>1 DEF Record
<1>4. \A f \in Event : OnwardAt(f)
  BY <1>3 DEF IInv, Rows, RelaySafe, DeadIsEarned, OnwardAt, Legal
<1> QED BY <1>2, <1>4 DEF Onward

LEMMA CloseIsOnward ==
  ASSUME IInv, CloseOverdue
  PROVE  Onward
<1> DEFINE e == Least(claimed)
<1>e. e \in Event /\ claimed # {}
  <2>1. claimed \in SUBSET Nat /\ claimed # {} /\ claimed \subseteq Event
    BY RelayAssumption DEF CloseOverdue, IInv, TypeOK
  <2> QED BY <2>1, LeastIsIn
<1>r. row \in [Event -> Record] /\ row[e] \in Record
  BY <1>e, RowsTyped DEF IInv
<1>1. CASE UNCHANGED row
  BY <1>1, UnchangedIsOnward
<1>2. CASE row' # row
  <2>1. /\ row[e].state = "started"
        /\ row' = [row EXCEPT ![e].state = "incomplete", ![e].terminal = "incomplete"]
    BY <1>2 DEF CloseOverdue
  <2> DEFINE s == [row[e] EXCEPT !.state = "incomplete", !.terminal = "incomplete"]
  <2> HIDE DEF e
  <2>2. row' = [row EXCEPT ![e] = s]
    BY <1>e, <1>r, <2>1
  <2>3. s \in Record /\ s.state = "incomplete" /\ s.terminal = "incomplete" /\ s.attempts = row[e].attempts
    BY <1>r DEF Record, RecordStates, Undelivered, Outcome
  <2> HIDE DEF s
  <2>4. row' \in [Event -> Record]
    BY <1>e, <1>r, <2>2, <2>3
  <2>5. row[e].terminal = "none" /\ Legal(s)
    BY <1>e, <2>1, <2>3 DEF IInv, Rows, Legal
  <2>6. OnwardAt(e)
    BY <1>e, <1>r, <2>1, <2>2, <2>3, <2>5 DEF OnwardAt
  <2>7. \A f \in Event \ {e} : row'[f] = row[f]
    BY <1>r, <2>2
  <2>8. \A f \in Event \ {e} : OnwardAt(f)
    BY <2>7 DEF IInv, Rows, RelaySafe, DeadIsEarned, OnwardAt, Undelivered
  <2> QED BY <2>4, <2>6, <2>8 DEF Onward
<1> QED BY <1>1, <1>2

LEMMA CaptureIsOnward ==
  ASSUME IInv, CaptureRetryable \/ CapturePermanent
  PROVE  Onward
<1>1. Payload \subseteq Event /\ \A e \in Payload : row[e].state \in Undelivered
  BY PayloadIsClaimed DEF IInv, CaptureRetryable, CapturePermanent
<1>2. CASE CaptureRetryable
  BY <1>1, <1>2, RescheduledIsOnward DEF CaptureRetryable
<1>3. CASE CapturePermanent /\ Cardinality(Payload) > 1
  BY <1>3, UnchangedIsOnward DEF CapturePermanent
<1>4. CASE CapturePermanent /\ ~(Cardinality(Payload) > 1)
  <2>1. Poisoned(Payload) /\ row' = DeadLettered(Payload)
    BY <1>4 DEF CapturePermanent
  <2>2. \A e \in Payload : nature[e] = "poison"
    BY <1>1, <1>4, <2>1, RejectedAlone DEF IInv
  <2> QED BY <1>1, <2>1, <2>2, DeadLetteredIsOnward
<1> QED BY <1>2, <1>3, <1>4

LEMMA FirstIsPart == ASSUME NEW n, NEW S PROVE First(n, S) \subseteq S
BY DEF First

LEMMA ClaimDueIsOnward ==
  ASSUME IInv, ClaimDue
  PROVE  Onward
<1> DEFINE ready == {e \in Event : row[e].state \in Undelivered /\ ~row[e].waiting}
           due == First(BatchSize, ready)
           broken == due \ {e \in due : nature[e] # "broken"}
<1>1. row' = DeadLettered(broken)
  BY DEF ClaimDue
<1>2. due \subseteq ready
  BY FirstIsPart
<1> HIDE DEF due
<1>3. broken \in SUBSET Event /\ \A e \in broken : row[e].state \in Undelivered /\ nature[e] # "good"
  BY <1>2
<1> HIDE DEF broken
<1> QED BY <1>1, <1>3, DeadLetteredIsOnward

LEMMA AcceptIsOnward ==
  ASSUME IInv, Accept
  PROVE  Onward
<1> DEFINE mine == {e \in marking : row[e].state \in Undelivered}
<1>1. CASE UNCHANGED row
  BY <1>1, UnchangedIsOnward
<1>2. CASE row' = [e \in Event |-> IF e \in mine THEN [row[e] EXCEPT !.state = "accepted", !.waiting = FALSE]
                                   ELSE row[e]]
  <2>r. \A e \in Event : row[e] \in Record /\ Legal(row[e])
    BY RowsTyped DEF IInv, Rows
  <2>1. ASSUME NEW e \in Event PROVE row'[e] \in Record /\ OnwardAt(e)
    <3>1. CASE e \in mine
      <4>1. row'[e] = [row[e] EXCEPT !.state = "accepted", !.waiting = FALSE]
        BY <1>2, <3>1
      <4>2. row[e].state \in Undelivered
        BY <3>1
      <4> HIDE DEF mine
      <4>3. /\ row'[e] \in Record /\ row'[e].state = "accepted" /\ row'[e].terminal = row[e].terminal
            /\ row'[e].attempts = row[e].attempts
        BY <2>r, <4>1 DEF Record, RecordStates
      <4>4. row[e].terminal # "none" /\ row[e].attempts < MaxAttempts
        BY <2>r, <4>2 DEF Legal, Undelivered
      <4>5. Legal(row'[e])
        BY <4>3, <4>4 DEF Legal
      <4> QED BY <4>2, <4>3, <4>5 DEF OnwardAt, Undelivered
    <3>2. CASE e \notin mine
      <4>1. row'[e] = row[e]
        BY <1>2, <3>2
      <4> QED BY <2>r, <4>1 DEF OnwardAt, IInv, Rows, RelaySafe, DeadIsEarned, Undelivered
    <3> QED BY <3>1, <3>2
  <2>2. row' \in [Event -> Record]
    BY <1>2, <2>1
  <2> QED BY <2>1, <2>2 DEF Onward
<1> QED BY <1>1, <1>2 DEF Accept

LEMMA VerifyIsOnward ==
  ASSUME IInv, Verify
  PROVE  Onward
<1> DEFINE seen == Oldest \cap visible
           absent == (Oldest \ visible) \cap aged
<1>1. CASE UNCHANGED row
  BY <1>1, UnchangedIsOnward
<1>2. CASE row' = [e \in Event |->
                    IF e \in seen THEN [row[e] EXCEPT !.state = "verified"]
                    ELSE IF e \in absent THEN [row[e] EXCEPT !.state = RestoreState(row[e])]
                    ELSE row[e]]
  <2>o. \A e \in Oldest : row[e].state = "accepted"
    BY DEF Oldest, AcceptedIn
  <2>v. (\A e \in seen : e \in visible) /\ seen \subseteq Oldest /\ absent \subseteq Oldest
    OBVIOUS
  <2> HIDE DEF seen, absent
  <2>r. \A e \in Event : row[e] \in Record /\ Legal(row[e])
    BY RowsTyped DEF IInv, Rows
  <2>1. ASSUME NEW e \in Event PROVE row'[e] \in Record /\ OnwardAt(e)
    <3>1. CASE e \in seen \cup absent
      <4>1. PICK t \in {"verified"} \cup Undelivered :
              row'[e] = [row[e] EXCEPT !.state = t] /\ (t = "verified" => e \in visible)
        BY <1>2, <2>v, <3>1 DEF RestoreState, Undelivered
      <4>2. row[e].state = "accepted"
        BY <2>o, <2>v, <3>1
      <4>3. /\ row'[e] \in Record /\ row'[e].state = t /\ row'[e].terminal = row[e].terminal
            /\ row'[e].attempts = row[e].attempts
        BY <2>r, <4>1 DEF Record, RecordStates
      <4>4. row[e].terminal # "none" /\ row[e].attempts < MaxAttempts
        BY <2>r, <4>2 DEF Legal
      <4>5. Legal(row'[e])
        BY <4>3, <4>4 DEF Legal, Undelivered
      <4> QED BY <4>1, <4>2, <4>3, <4>5 DEF OnwardAt, Undelivered
    <3>2. CASE e \notin seen \cup absent
      <4>1. row'[e] = row[e]
        BY <1>2, <3>2
      <4> QED BY <2>r, <4>1 DEF OnwardAt, IInv, Rows, RelaySafe, DeadIsEarned, Undelivered
    <3> QED BY <3>1, <3>2
  <2>2. row' \in [Event -> Record]
    BY <1>2, <2>1
  <2> QED BY <2>1, <2>2 DEF Onward
<1> QED BY <1>1, <1>2 DEF Verify

LEMMA PurgeIsOnward ==
  ASSUME IInv, NEW S \in SUBSET Event, Purge(S)
  PROVE  Onward
<1>1. /\ \A e \in S : row[e].state = "verified"
      /\ row' = [e \in Event |-> IF e \in S THEN [row[e] EXCEPT !.state = "purged"] ELSE row[e]]
  BY DEF Purge
<1>r. \A e \in Event : row[e] \in Record /\ Legal(row[e])
  BY RowsTyped DEF IInv, Rows
<1>2. ASSUME NEW e \in Event PROVE row'[e] \in Record /\ OnwardAt(e)
  <2>1. CASE e \in S
    <3>1. row'[e] = [row[e] EXCEPT !.state = "purged"] /\ row[e].state = "verified"
      BY <1>1, <2>1
    <3>2. e \in visible
      BY <3>1 DEF IInv, Rows
    <3>3. /\ row'[e] \in Record /\ row'[e].state = "purged" /\ row'[e].terminal = row[e].terminal
          /\ row'[e].attempts = row[e].attempts
      BY <1>r, <3>1 DEF Record, RecordStates
    <3>4. Legal(row'[e])
      BY <1>r, <3>1, <3>3 DEF Legal
    <3> QED BY <3>1, <3>2, <3>3, <3>4 DEF OnwardAt
  <2>2. CASE e \notin S
    <3>1. row'[e] = row[e]
      BY <1>1, <2>2
    <3> QED BY <1>r, <3>1 DEF OnwardAt, IInv, Rows, RelaySafe, DeadIsEarned, Undelivered
  <2> QED BY <2>1, <2>2
<1>3. row' \in [Event -> Record]
  BY <1>1, <1>2
<1> QED BY <1>2, <1>3 DEF Onward

\* A call that is waiting for its answer may be made.
LEMMA WaitingIsCallable ==
  ASSUME IInv, NEW c \in Caller, pc[c] \in Phases
  PROVE  Callable(pc[c], c)
<1>1. CASE c \in Lifecycle
  <2>1. pc[c] = "event"
    BY <1>1 DEF IInv, Calls, TransitionStates, Phases
  <2> QED BY <1>1, <2>1 DEF Callable
<1>2. CASE c \in Request
  <2>1. /\ pc[c] \in {"start", "completion"} /\ c \in DOMAIN id
        /\ pc[c] = "completion" => status[c] \in Status
    BY <1>2 DEF IInv, Calls, CallOf, RequestStates, Settled, Phases
  <2> QED BY <1>2, <2>1 DEF Callable
<1> QED BY <1>1, <1>2 DEF Caller

LEMMA CallWrites ==
  ASSUME IInv,
         \/ \E c \in Caller : Answer(c)
         \/ \E c \in Caller : LoseAttempt(c) /\ row' # row
         \/ \E m \in late : LateCall(m)
  PROVE  Written
<1>1. ASSUME NEW c \in Caller, pc[c] \in Phases, Apply(pc[c], c) PROVE Written
  BY <1>1, WaitingIsCallable, ApplyWrites DEF IInv
<1>2. ASSUME NEW m \in late, Apply(m[1], m[2]) PROVE Written
  <2>1. Callable(m[1], m[2])
    BY DEF IInv, Calls
  <2> QED BY <1>2, <2>1, ApplyWrites DEF IInv
<1>3. ASSUME NEW c \in Caller, Answer(c) PROVE Written
  BY <1>1, <1>3 DEF Answer
<1>4. ASSUME NEW c \in Caller, LoseAttempt(c), row' # row PROVE Written
  BY <1>1, <1>4 DEF LoseAttempt
<1>5. ASSUME NEW m \in late, LateCall(m) PROVE Written
  BY <1>2, <1>5 DEF LateCall
<1> QED BY <1>3, <1>4, <1>5

\* Steps that leave every record alone.
Aside ==
  \/ \E r \in Request : Arrive(r) \/ CrashRequest(r) \/ \E s \in Replies[r] : Handle(r, s)
  \/ \E c \in Caller : GiveUp(c)
  \/ \E e \in Lifecycle : SubmitLifecycle(e)
  \/ DrainLifecycle \/ PassMaxAge \/ \E e \in Event : PassDeadline(e) \/ Ingest(e) \/ Mislay(e)
  \/ ClaimOverdue \/ CaptureAccepted \/ CrashRelay
  \/ UNCHANGED vars

LEMMA AsideLeavesRows == Aside => UNCHANGED row
BY DEF Aside, Arrive, CrashRequest, Handle, GiveUp, SubmitLifecycle, DrainLifecycle, PassMaxAge,
       PassDeadline, Ingest, Mislay, ClaimOverdue, CaptureAccepted, CrashRelay, outbox, vars

\* Every step is one of these.
LEMMA StepKinds ==
  ASSUME [Next]_vars
  PROVE  \/ Aside
         \/ \E c \in Caller : Answer(c) \/ LoseAttempt(c)
         \/ \E m \in late : LateCall(m)
         \/ \E e \in Event : PassBackoff(e)
         \/ CloseOverdue \/ ClaimDue \/ CaptureRetryable \/ CapturePermanent \/ Accept \/ Verify
         \/ \E S \in SUBSET Event : Purge(S)
BY DEF Next, Aside, Sweep, Clock

LEMMA StepIsOnward ==
  ASSUME IInv, [Next]_vars
  PROVE  Onward
<1>1. CASE Aside
  BY <1>1, AsideLeavesRows, UnchangedIsOnward
<1>2. CASE \E c \in Caller : Answer(c)
  BY <1>2, CallWrites, WrittenIsOnward
<1>3. CASE \E c \in Caller : LoseAttempt(c)
  BY <1>3, CallWrites, WrittenIsOnward, UnchangedIsOnward
<1>4. CASE \E m \in late : LateCall(m)
  BY <1>4, CallWrites, WrittenIsOnward
<1>5. CASE \E e \in Event : PassBackoff(e)
  BY <1>5, BackoffIsOnward
<1>6. CASE CloseOverdue
  BY <1>6, CloseIsOnward
<1>7. CASE ClaimDue
  BY <1>7, ClaimDueIsOnward
<1>8. CASE CaptureRetryable \/ CapturePermanent
  BY <1>8, CaptureIsOnward
<1>9. CASE Accept
  BY <1>9, AcceptIsOnward
<1>10. CASE Verify
  BY <1>10, VerifyIsOnward
<1>11. CASE \E S \in SUBSET Event : Purge(S)
  BY <1>11, PurgeIsOnward
<1> QED BY <1>1, <1>2, <1>3, <1>4, <1>5, <1>6, <1>7, <1>8, <1>9, <1>10, <1>11, StepKinds
-----------------------------------------------------------------------------
(* Type correctness                                                        *)

CallerStates == Phases \cup {"idle", "handler", "answered", "refused", "unconfirmed",
                             "gone", "queued", "local", "recorded", "lost"}

ApiType ==
  /\ pc \in [Caller -> CallerStates]
  /\ status \in [Request -> Status \cup {"none"}]
  /\ failed \subseteq Caller /\ late \subseteq Phases \X Caller
  /\ queue \in Seq(Lifecycle) /\ Len(queue) <= QueueCapacity

LEMMA MovesTyped ==
  ASSUME ApiType, NEW c \in Caller, NEW to \in CallerStates, Move(c, to)
  PROVE  pc' \in [Caller -> CallerStates]
BY DEF Move, ApiType

LEMMA Targets ==
  ASSUME NEW phase \in Phases, NEW kind
  PROVE  Acknowledged(phase) \in CallerStates /\ OnFailure(phase, kind) \in CallerStates
BY DEF Phases, Acknowledged, OnFailure, CallerStates

LEMMA ApiTypeStep ==
  ASSUME IInv, [Next]_vars
  PROVE  ApiType'
<1>0. ApiType
  BY DEF IInv, TypeOK, ApiType, CallerStates
<1> USE DEF ApiType
<1>1. ASSUME NEW r \in Request, Arrive(r) PROVE ApiType'
  <2>1. r \in Caller /\ "start" \in CallerStates
    BY DEF Caller, CallerStates, Phases
  <2> QED BY <1>0, <1>1, <2>1, MovesTyped DEF Arrive
<1>2. ASSUME NEW r \in Request, CrashRequest(r) PROVE ApiType'
  <2>1. r \in Caller /\ "gone" \in CallerStates
    BY DEF Caller, CallerStates
  <2> QED BY <1>0, <1>2, <2>1, MovesTyped DEF CrashRequest
<1>3. ASSUME NEW r \in Request, NEW s \in Replies[r], Handle(r, s) PROVE ApiType'
  <2>1. r \in Caller /\ "completion" \in CallerStates /\ s \in Status
    BY RelayAssumption DEF Caller, CallerStates, Phases
  <2> QED BY <1>0, <1>3, <2>1, MovesTyped DEF Handle
<1>4. ASSUME NEW c \in Caller, Answer(c) PROVE ApiType'
  <2>1. pc' \in [Caller -> CallerStates] /\ failed' \subseteq Caller
    BY <1>0, <1>4, MovesTyped, Targets DEF Answer
  <2> QED BY <1>0, <1>4, <2>1 DEF Answer
<1>5. ASSUME NEW c \in Caller, LoseAttempt(c) PROVE ApiType'
  BY <1>0, <1>5 DEF LoseAttempt
<1>6. ASSUME NEW c \in Caller, GiveUp(c) PROVE ApiType'
  BY <1>0, <1>6, MovesTyped, Targets DEF GiveUp
<1>7. ASSUME NEW m \in late, LateCall(m) PROVE ApiType'
  BY <1>0, <1>7 DEF LateCall
<1>8. ASSUME NEW e \in Lifecycle, SubmitLifecycle(e) PROVE ApiType'
  <2>1. e \in Caller /\ {"queued", "local"} \subseteq CallerStates
    BY DEF Caller, CallerStates
  <2>2. pc' \in [Caller -> CallerStates]
    BY <1>0, <1>8, <2>1, MovesTyped DEF SubmitLifecycle
  <2>3. queue' \in Seq(Lifecycle) /\ Len(queue') <= QueueCapacity
    BY SMTT(60), <1>0, <1>8, RelayAssumption DEF SubmitLifecycle
  <2> QED BY <1>0, <1>8, <2>2, <2>3 DEF SubmitLifecycle
<1>9. CASE DrainLifecycle
  <2>1. queue # <<>> /\ queue \in Seq(Lifecycle)
    BY <1>0, <1>9 DEF DrainLifecycle
  <2>2. Head(queue) \in Lifecycle /\ Tail(queue) \in Seq(Lifecycle) /\ Len(Tail(queue)) <= QueueCapacity
    BY <1>0, <2>1, RelayAssumption
  <2>3. Head(queue) \in Caller /\ "event" \in CallerStates
    BY <2>2 DEF Caller, CallerStates, Phases
  <2>4. pc' \in [Caller -> CallerStates]
    BY <1>0, <1>9, <2>3, MovesTyped DEF DrainLifecycle
  <2> QED BY <1>0, <1>9, <2>2, <2>4 DEF DrainLifecycle
<1>10. CASE UNCHANGED <<pc, status, failed, late, queue>>
  BY <1>0, <1>10
<1>11. CASE Clock \/ Sweep \/ CrashRelay \/ \E e \in Event : Ingest(e) \/ Mislay(e)
  <2>1. UNCHANGED api
    BY <1>11 DEF Clock, Sweep, PassMaxAge, PassDeadline, PassBackoff, ClaimOverdue, CloseOverdue, ClaimDue,
       CaptureAccepted, CaptureRetryable, CapturePermanent, Accept, Verify, Purge, CrashRelay, Ingest, Mislay
  <2> QED BY <1>10, <2>1 DEF api
<1>12. CASE UNCHANGED vars
  BY <1>10, <1>12 DEF vars, api
<1> QED BY <1>1, <1>2, <1>3, <1>4, <1>5, <1>6, <1>7, <1>8, <1>9, <1>11, <1>12 DEF Next

LEMMA OlderStep ==
  ASSUME IInv, [Next]_vars
  PROVE  older' \subseteq AcceptedIn(row') \X AcceptedIn(row')
<1>0. older \subseteq AcceptedIn(row) \X AcceptedIn(row)
  BY DEF IInv, TypeOK
<1>1. CASE UNCHANGED older /\ ~Verify
  <2>1. AcceptedIn(row) \subseteq AcceptedIn(row')
    BY <1>1, StepIsOnward DEF Onward, OnwardAt, AcceptedIn
  <2> QED BY <1>0, <1>1, <2>1
<1>2. CASE Accept /\ ~Verify
  <2> DEFINE mine == {e \in marking : row[e].state \in Undelivered}
  <2>1. CASE UNCHANGED older
    BY <1>1, <1>2, <2>1
  <2>2. CASE /\ row' = [e \in Event |-> IF e \in mine THEN [row[e] EXCEPT !.state = "accepted", !.waiting = FALSE]
                                        ELSE row[e]]
             /\ older' = older \cup (AcceptedIn(row) \X mine) \cup {p \in mine \X mine : p[1] < p[2]}
    <3>1. AcceptedIn(row) \subseteq AcceptedIn(row')
      BY <1>2, StepIsOnward DEF Onward, OnwardAt, AcceptedIn
    <3>2. mine \subseteq AcceptedIn(row')
      <4>1. ASSUME NEW e \in mine PROVE row'[e].state = "accepted" /\ e \in Event
        <5>1. e \in Event /\ row[e] \in Record
          BY RowsTyped DEF IInv, TypeOK
        <5>2. row'[e] = [row[e] EXCEPT !.state = "accepted", !.waiting = FALSE]
          BY <2>2, <5>1
        <5> QED BY <5>1, <5>2 DEF Record
      <4> QED BY <4>1 DEF AcceptedIn
    <3> HIDE DEF mine
    <3> QED BY <1>0, <2>2, <3>1, <3>2
  <2> QED BY <1>2, <2>1, <2>2 DEF Accept
<1>3. CASE Verify
  <2>1. CASE UNCHANGED <<row, older>>
    BY <1>0, <2>1
  <2> DEFINE seen == Oldest \cap visible
             absent == (Oldest \ visible) \cap aged
  <2>2. CASE /\ row' = [e \in Event |->
                    IF e \in seen THEN [row[e] EXCEPT !.state = "verified"]
                    ELSE IF e \in absent THEN [row[e] EXCEPT !.state = RestoreState(row[e])]
                    ELSE row[e]]
             /\ older' = {p \in older : {p[1], p[2]} \cap (seen \cup absent) = {}}
    <3> HIDE DEF seen, absent
    <3>1. \A e \in AcceptedIn(row) \ (seen \cup absent) : e \in AcceptedIn(row')
      BY <2>2 DEF AcceptedIn
    <3>2. ASSUME NEW p \in older' PROVE p \in AcceptedIn(row') \X AcceptedIn(row')
      <4>1. p \in older /\ p[1] \notin seen \cup absent /\ p[2] \notin seen \cup absent
        BY <2>2
      <4>2. p \in AcceptedIn(row) \X AcceptedIn(row)
        BY <1>0, <4>1
      <4> QED BY <3>1, <4>1, <4>2
    <3> QED BY <3>2
  <2> QED BY <1>3, <2>1, <2>2 DEF Verify
<1>4. Accept \/ UNCHANGED older \/ Verify
  BY DEF Next, Arrive, CrashRequest, Handle, Answer, LoseAttempt, GiveUp, LateCall, SubmitLifecycle,
     DrainLifecycle, Clock, PassMaxAge, PassDeadline, PassBackoff, Sweep, ClaimOverdue, CloseOverdue, ClaimDue,
     CaptureAccepted, CaptureRetryable, CapturePermanent, Verify, Purge, CrashRelay, Ingest, Mislay, outbox, vars
<1> QED BY <1>1, <1>2, <1>3, <1>4

WorkerType ==
  /\ overdue \subseteq Event /\ aged \subseteq Event
  /\ step \in {"close", "closing", "sending", "isolating", "accepting", "verify", "purge"}
  /\ atCapacity \in BOOLEAN /\ claimed \subseteq Event /\ marking \subseteq Event
  /\ visible \subseteq Event /\ captured \subseteq Event /\ faults \in 0..MaxFaults

LEMMA NextSteps ==
  /\ \A rows : AfterCapture(rows) \in {"purge", "verify"}
  /\ \A rest : /\ AfterRecord(rest) \in {"isolating", "purge", "verify"}
               /\ AfterRecord(rest) = "isolating" => step = "isolating" /\ rest # {}
BY DEF AfterCapture, AfterRecord

LEMMA WorkerTypeStep ==
  ASSUME IInv, [Next]_vars
  PROVE  WorkerType'
<1>0. WorkerType
  BY DEF IInv, TypeOK, WorkerType
<1> USE DEF WorkerType
<1>f. ASSUME Fault PROVE faults' \in 0..MaxFaults
  BY <1>0, <1>f, RelayAssumption DEF Fault
<1>1. CASE UNCHANGED <<overdue, aged, step, atCapacity, claimed, marking, visible, captured, faults>>
  BY <1>0, <1>1
<1>2. ASSUME NEW r \in Request, Arrive(r) \/ \E s \in Replies[r] : Handle(r, s) PROVE WorkerType'
  BY <1>1, <1>2 DEF Arrive, Handle, outbox, worker, store
<1>3. ASSUME NEW r \in Request, CrashRequest(r) PROVE WorkerType'
  BY <1>0, <1>3, <1>f DEF CrashRequest, outbox, worker, store
<1>4. ASSUME NEW c \in Caller, Answer(c) \/ GiveUp(c) PROVE WorkerType'
  BY <1>1, <1>4 DEF Answer, GiveUp, outbox, worker, store
<1>5. ASSUME NEW c \in Caller, LoseAttempt(c) PROVE WorkerType'
  BY <1>0, <1>5, <1>f DEF LoseAttempt, worker, store
<1>6. ASSUME NEW m \in late, LateCall(m) PROVE WorkerType'
  BY <1>1, <1>6 DEF LateCall, worker, store
<1>7. ASSUME NEW e \in Lifecycle, SubmitLifecycle(e) PROVE WorkerType'
  BY <1>1, <1>7 DEF SubmitLifecycle, outbox, worker, store
<1>8. CASE DrainLifecycle
  BY <1>1, <1>8 DEF DrainLifecycle, outbox, worker, store
<1>9. CASE PassMaxAge \/ \E e \in Event : PassDeadline(e) \/ PassBackoff(e)
  BY <1>0, <1>9 DEF PassMaxAge, PassDeadline, PassBackoff, AcceptedIn, worker, store
<1>10. CASE ClaimOverdue
  <2>1. OverdueStarts \subseteq Event
    BY <1>0 DEF OverdueStarts
  <2>2. First(BatchSize, OverdueStarts) \subseteq Event
    BY <2>1, FirstIsPart
  <2> QED BY <1>0, <1>10, <2>2 DEF ClaimOverdue, outbox, store
<1>11. CASE CloseOverdue
  BY <1>0, <1>11, <1>f DEF CloseOverdue, store
<1>12. CASE ClaimDue
  <2> DEFINE ready == {e \in Event : row[e].state \in Undelivered /\ ~row[e].waiting}
             sendable == {e \in First(BatchSize, ready) : nature[e] # "broken"}
  <2>1. First(BatchSize, ready) \subseteq Event
    BY FirstIsPart
  <2>2. claimed' = sendable /\ claimed' \subseteq Event
    BY <1>12, <2>1 DEF ClaimDue
  <2>3. step' \in {"purge", "verify", "sending"}
    BY <1>12, NextSteps DEF ClaimDue
  <2> HIDE DEF sendable
  <2> QED BY <1>0, <1>12, <2>2, <2>3 DEF ClaimDue, store
<1>p. ASSUME step \in {"sending", "isolating"} PROVE Payload \subseteq Event
  BY <1>p, PayloadIsClaimed DEF IInv
<1>13. CASE CaptureAccepted
  BY <1>0, <1>13, <1>p DEF CaptureAccepted, outbox
<1>14. CASE CaptureRetryable
  BY <1>0, <1>14, <1>p, <1>f, NextSteps DEF CaptureRetryable
<1>15. CASE CapturePermanent
  BY <1>0, <1>15, NextSteps DEF CapturePermanent, store
<1>16. CASE Accept
  <2>1. step' \in {"purge", "verify", "isolating"}
    BY <1>16, NextSteps DEF Accept
  <2>2. aged' \subseteq Event /\ faults' \in 0..MaxFaults
    BY <1>0, <1>16, <1>f DEF Accept
  <2> QED BY <1>0, <1>16, <2>1, <2>2 DEF Accept, store
<1>17. CASE Verify
  BY <1>0, <1>17, <1>f DEF Verify, store
<1>18. ASSUME NEW S \in SUBSET Event, Purge(S) PROVE WorkerType'
  <2>1. faults' \in 0..MaxFaults
    BY <1>0, <1>18, <1>f DEF Purge
  <2>2. atCapacity' = atCapacity \/ atCapacity' = (Cardinality(Stored(row')) >= MaxRecords)
    BY <1>18 DEF Purge
  <2>3. atCapacity' \in BOOLEAN
    <3> DEFINE full == Cardinality(Stored(row')) >= MaxRecords
    <3>1. full \in BOOLEAN
      OBVIOUS
    <3> HIDE DEF full
    <3>2. CASE atCapacity' = full
      BY <3>1, <3>2
    <3>3. CASE atCapacity' = atCapacity
      BY <1>0, <3>3
    <3> QED BY <2>2, <3>2, <3>3 DEF full
  <2> QED BY <1>0, <1>18, <2>1, <2>3 DEF Purge, store
<1>19. CASE CrashRelay
  BY <1>0, <1>19, <1>f DEF CrashRelay, outbox, store
<1>20. ASSUME NEW e \in Event, Ingest(e) \/ Mislay(e) PROVE WorkerType'
  BY <1>0, <1>20, <1>f DEF Ingest, Mislay, outbox, worker
<1>21. CASE UNCHANGED vars
  BY <1>1, <1>21 DEF vars, outbox, worker, store
<1> QED BY <1>2, <1>3, <1>4, <1>5, <1>6, <1>7, <1>8, <1>9, <1>10, <1>11, <1>12, <1>13, <1>14, <1>15,
           <1>16, <1>17, <1>18, <1>19, <1>20, <1>21 DEF Next, Sweep, Clock

LEMMA TypeStep ==
  ASSUME IInv, [Next]_vars
  PROVE  TypeOK'
<1>1. ApiType' /\ WorkerType' /\ row' \in [Event -> Record] /\ older' \subseteq AcceptedIn(row') \X AcceptedIn(row')
  BY ApiTypeStep, WorkerTypeStep, StepIsOnward, OlderStep DEF Onward
<1> QED BY <1>1 DEF TypeOK, ApiType, CallerStates, WorkerType, Record

LEMMA FixedStep ==
  ASSUME Fixed, [Next]_vars
  PROVE  Fixed' /\ UNCHANGED fixed
<1>1. UNCHANGED fixed
  BY DEF Next, Arrive, CrashRequest, Handle, Answer, LoseAttempt, GiveUp, LateCall, SubmitLifecycle,
     DrainLifecycle, Clock, PassMaxAge, PassDeadline, PassBackoff, Sweep, ClaimOverdue, CloseOverdue, ClaimDue,
     CaptureAccepted, CaptureRetryable, CapturePermanent, Accept, Verify, Purge, CrashRelay, Ingest, Mislay, vars
<1> QED BY <1>1 DEF Fixed, fixed
-----------------------------------------------------------------------------
(* The calls                                                               *)

\* What a step leaves of the calls: nothing of the scenario changes, a fault is
\* not taken back, and a record that exists stays.
LEMMA StepKeeps ==
  ASSUME IInv, [Next]_vars
  PROVE  /\ id' = id /\ mode' = mode /\ version' = version /\ nature' = nature
         /\ faults > 0 => faults' > 0
         /\ \A e \in Event : row[e].state # "none" => row'[e].state # "none"
<1>1. UNCHANGED fixed
  BY FixedStep DEF IInv
<1>2. faults' = faults \/ faults' = faults + 1
  BY DEF Next, Arrive, CrashRequest, Handle, Answer, LoseAttempt, GiveUp, LateCall, SubmitLifecycle,
     DrainLifecycle, Clock, PassMaxAge, PassDeadline, PassBackoff, Sweep, ClaimOverdue, CloseOverdue, ClaimDue,
     CaptureAccepted, CaptureRetryable, CapturePermanent, Accept, Verify, Purge, CrashRelay, Ingest, Mislay, vars,
     Fault
<1>3. faults \in Nat
  BY RelayAssumption DEF IInv, TypeOK
<1> QED BY <1>1, <1>2, <1>3, StepIsOnward DEF fixed, Onward, OnwardAt

\* A call that is not moved keeps what is known of it.
LEMMA CallKept ==
  ASSUME IInv, [Next]_vars, NEW r \in Request,
         pc'[r] = pc[r], status'[r] = status[r],
         pc[r] = "completion" /\ r \in failed' => r \in failed \/ faults' > 0
  PROVE  CallOf(r)'
<1>1. pc[r] # "idle" => id[r] \in Event
  BY DEF IInv, Fixed, Calls, CallOf
<1>2. CallOf(r)
  BY DEF IInv, Calls
<1>3. pc'[r] \in RequestStates /\ (pc'[r] # "idle" => r \in DOMAIN id') /\ (pc'[r] \in Settled => status'[r] \in Status)
  BY <1>2, StepKeeps DEF CallOf
<1>4. pc'[r] = "completion" /\ r \in failed' => faults' > 0
  BY <1>2, StepKeeps DEF CallOf
<1>5. mode' = "required" /\ pc'[r] \in {"handler", "completion"} => row'[id'[r]].state # "none"
  BY <1>1, <1>2, StepKeeps DEF CallOf
<1> QED BY <1>3, <1>4, <1>5 DEF CallOf

LEMMA LateKept ==
  ASSUME IInv, [Next]_vars, NEW m, Callable(m[1], m[2]),
         \A r \in Request : status'[r] = status[r] \/ status'[r] \in Status
  PROVE  Callable(m[1], m[2])'
BY StepKeeps DEF Callable

\* Where an answer, or the want of one, leads.
LEMMA RequestTargets ==
  ASSUME NEW kind
  PROVE  /\ Acknowledged("start") = "handler" /\ Acknowledged("completion") = "answered"
         /\ OnFailure("start", kind) \in {"handler", "refused"}
         /\ OnFailure("completion", kind) \in {"answered", "unconfirmed"}
         /\ mode = "required" => OnFailure("start", kind) = "refused"
         /\ mode = "required" => OnFailure("completion", kind) = "unconfirmed"
BY DEF OnFailure, Acknowledged

LEMMA AnswerOutcome ==
  ASSUME IInv, NEW r \in Request, Answer(r)
  PROVE  \/ pc' = pc /\ failed' = failed \cup {r} /\ pc[r] = "start" /\ UNCHANGED row
         \/ /\ pc[r] = "start" /\ pc'[r] \in {"handler", "refused"} /\ failed' = failed \ {r}
            /\ mode = "required" /\ pc'[r] = "handler" => row'[id[r]].state # "none"
         \/ /\ pc[r] = "completion" /\ pc'[r] \in {"answered", "unconfirmed"} /\ failed' = failed \ {r}
            /\ mode = "required" /\ pc'[r] = "answered" => row'[id[r]].terminal = status[r]
            /\ pc'[r] = "unconfirmed" => row[id[r]].terminal \notin {"none", status[r]} /\ row' = row
<1> DEFINE phase == pc[r]
           verdict == Verdict(phase, r)
<1>0. /\ phase \in {"start", "completion"} /\ Callable(phase, r) /\ EventId(r) = id[r] /\ id[r] \in Event
      /\ phase = "completion" /\ mode = "required" => row[id[r]].state # "none"
  <2>1. r \in Caller /\ phase \in Phases
    BY DEF Caller, Answer
  <2>2. CallOf(r) /\ EventId(r) = id[r]
    BY DEF IInv, Calls, EventId
  <2>3. phase \in {"start", "completion"} /\ r \in DOMAIN id
    BY <2>1, <2>2 DEF CallOf, Phases, RequestStates, Settled
  <2> QED BY <2>1, <2>2, <2>3, WaitingIsCallable DEF CallOf, IInv, Fixed
<1>r. /\ row \in [Event -> Record] /\ pc \in [Caller -> CallerStates] /\ r \in Caller
  BY RowsTyped DEF IInv, TypeOK, CallerStates, Caller
<1>c. verdict = "created" => row'[id[r]] = Committed(phase, r)
  BY <1>0, <1>r DEF Answer, Apply
<1>n. verdict # "created" => row' = row
  BY <1>0 DEF Answer, Apply
<1>k. verdict = "created" => Committed(phase, r).state # "none"
  BY <1>0, CommittedIsRecord DEF IInv
<1>t. Verdict("start", r) \in {"unavailable", "created", "replayed", "conflict"}
  BY DEF Verdict, RegisterStart
<1>1. CASE phase = "start"
  <2>1. CASE verdict = "unavailable"
    BY <1>0, <1>1, <1>n, <2>1 DEF Answer, Retryable
  <2>2. CASE verdict # "unavailable"
    <3>1. /\ failed' = failed \ {r}
          /\ pc'[r] = IF verdict \in {"created", "replayed"} THEN Acknowledged("start") ELSE OnFailure("start", verdict)
      BY <1>1, <1>r, <2>2 DEF Answer, Retryable, Move
    <3>2. verdict = "replayed" => row[id[r]].state # "none"
      BY <1>0, <1>1 DEF Verdict, RegisterStart
    <3>3. verdict \in {"created", "replayed"} => row'[id[r]].state # "none"
      BY <1>c, <1>n, <1>k, <3>2
    <3>4. pc'[r] \in {"handler", "refused"}
      BY <3>1, RequestTargets
    <3>5. mode = "required" /\ pc'[r] = "handler" => verdict \in {"created", "replayed"}
      BY <3>1, RequestTargets
    <3> HIDE DEF verdict
    <3> QED BY <1>1, <3>1, <3>3, <3>4, <3>5
  <2> QED BY <2>1, <2>2
<1>2. CASE phase = "completion"
  <2>v. verdict = CommitCompletion(r)
    BY <1>2 DEF Verdict
  <2>0. verdict \in {"no_start", "created", "replayed", "conflict"}
    BY <2>v DEF CommitCompletion
  <2>1. /\ failed' = failed \ {r}
        /\ pc'[r] = IF verdict \in {"created", "replayed"} THEN Acknowledged("completion") ELSE OnFailure("completion", verdict)
    BY <1>2, <1>r, <2>0 DEF Answer, Retryable, Move
  <2>2. verdict = "created" => row'[id[r]].terminal = status[r]
    <3>1. Committed(phase, r) = [row[id[r]] EXCEPT !.state = "complete", !.terminal = status[r], !.waiting = FALSE]
      BY <1>0, <1>2 DEF Committed
    <3>2. row[id[r]] \in Record
      BY <1>0, <1>r
    <3>3. Committed(phase, r).terminal = status[r]
      BY <3>1, <3>2 DEF Record
    <3> QED BY <1>c, <3>3
  <2>3. verdict = "replayed" => row'[id[r]].terminal = status[r]
    BY <1>0, <1>n, <2>v DEF CommitCompletion
  <2>4. verdict = "conflict" => row[id[r]].terminal \notin {"none", status[r]} /\ row' = row
    BY <1>0, <1>n, <2>v DEF CommitCompletion
  <2>5. verdict = "no_start" => row[id[r]].state = "none"
    BY <1>0, <2>v DEF CommitCompletion
  <2>6. pc'[r] \in {"answered", "unconfirmed"}
    BY <2>1, RequestTargets
  <2>7. mode = "required" /\ pc'[r] = "answered" => verdict \in {"created", "replayed"}
    BY <2>1, RequestTargets
  <2>8. pc'[r] = "unconfirmed" => mode = "required" /\ verdict \in {"no_start", "conflict"}
    BY <2>0, <2>1 DEF OnFailure, Acknowledged
  <2> HIDE DEF verdict
  <2>9. pc'[r] = "unconfirmed" => verdict = "conflict"
    BY <1>0, <1>2, <2>5, <2>8
  <2> QED BY <1>2, <2>1, <2>2, <2>3, <2>4, <2>6, <2>7, <2>9
<1> QED BY <1>0, <1>1, <1>2

\* A call that moves on: its own state is right, and the others are left alone.
LEMMA CallMoves ==
  ASSUME IInv, [Next]_vars, NEW c \in Caller, NEW to \in CallerStates, Move(c, to),
         failed' \subseteq failed \ {c},
         c \in Request => CallOf(c)',
         c \in Lifecycle => to \in TransitionStates,
         \A r \in Request \ {c} : status'[r] = status[r],
         \A r \in Request : status'[r] = status[r] \/ status'[r] \in Status,
         \A m \in late' : m \in late \/ Callable(m[1], m[2])
  PROVE  Calls'
<1>1. pc' = [pc EXCEPT ![c] = to] /\ pc \in [Caller -> CallerStates]
  BY DEF Move, IInv, TypeOK, CallerStates
<1>2. \A d \in Caller \ {c} : pc'[d] = pc[d]
  BY <1>1
<1>3. ASSUME NEW r \in Request PROVE CallOf(r)'
  <2>1. CASE r = c
    BY <2>1
  <2>2. CASE r # c
    <3>1. pc'[r] = pc[r] /\ status'[r] = status[r]
      BY <1>2, <2>2 DEF Caller
    <3> QED BY <3>1, CallKept
  <2> QED BY <2>1, <2>2
<1>4. \A e \in Lifecycle : pc'[e] \in TransitionStates
  <2>1. \A e \in Lifecycle : e \in Caller /\ pc[e] \in TransitionStates
    BY DEF IInv, Calls, Caller
  <2> QED BY <1>1, <1>2, <2>1
<1>5. \A d \in failed' : pc'[d] \in Phases
  BY <1>2 DEF IInv, Calls, TypeOK
<1>6. \A m \in late' : Callable(m[1], m[2])'
  BY LateKept DEF IInv, Calls
<1> QED BY <1>3, <1>4, <1>5, <1>6 DEF Calls

\* No call moves.
LEMMA CallsStay ==
  ASSUME IInv, [Next]_vars, UNCHANGED <<pc, status>>,
         \A c \in failed' : c \in failed \/ (pc[c] \in Phases /\ (c \in Request => pc[c] # "completion" \/ faults' > 0)),
         \A m \in late' : m \in late \/ Callable(m[1], m[2])
  PROVE  Calls'
<1>1. \A r \in Request : CallOf(r)'
  BY CallKept
<1>2. \A e \in Lifecycle : pc'[e] \in TransitionStates
  BY DEF IInv, Calls
<1>3. \A c \in failed' : pc'[c] \in Phases
  BY DEF IInv, Calls
<1>4. \A m \in late' : Callable(m[1], m[2])'
  BY LateKept DEF IInv, Calls
<1> QED BY <1>1, <1>2, <1>3, <1>4 DEF Calls

LEMMA FaultCounts == ASSUME TypeOK, Fault PROVE faults' > 0
BY RelayAssumption DEF TypeOK, Fault

LEMMA CallsStep ==
  ASSUME IInv, [Next]_vars
  PROVE  Calls'
<1>p. pc \in [Caller -> CallerStates]
  BY DEF IInv, TypeOK, CallerStates
<1>c. Request \subseteq Caller /\ Lifecycle \subseteq Caller /\ Request \cap Lifecycle = {}
  BY RelayAssumption DEF Caller
<1>f. \A c \in failed : pc[c] \in Phases
  BY DEF IInv, Calls
<1>1. ASSUME NEW r \in Request, Arrive(r) PROVE Calls'
  <2>1. /\ Move(r, "start") /\ pc[r] = "idle" /\ r \in DOMAIN id
        /\ UNCHANGED <<status, failed, late>>
    BY <1>1 DEF Arrive
  <2>2. pc'[r] = "start" /\ r \notin failed
    BY <1>c, <1>f, <1>p, <2>1 DEF Move, Phases
  <2>3. CallOf(r)'
    BY <2>1, <2>2, StepKeeps DEF CallOf, RequestStates, Settled
  <2> QED BY <1>c, <2>1, <2>2, <2>3, CallMoves DEF CallerStates, Phases
<1>2. ASSUME NEW r \in Request, CrashRequest(r) PROVE Calls'
  <2>1. /\ Move(r, "gone") /\ pc[r] \in {"start", "handler", "completion"} /\ failed' = failed \ {r}
        /\ UNCHANGED status /\ (\A m \in late' : m \in late \/ (m = <<pc[r], r>> /\ pc[r] \in Phases))
    BY <1>2 DEF CrashRequest
  <2>2. pc'[r] = "gone" /\ r \in DOMAIN id
    BY <1>c, <1>p, <2>1 DEF Move, IInv, Calls, CallOf
  <2>3. CallOf(r)'
    BY <2>2, StepKeeps DEF CallOf, RequestStates, Settled
  <2>4. \A m \in late' : m \in late \/ Callable(m[1], m[2])
    BY <1>c, <2>1, WaitingIsCallable
  <2> QED BY <1>c, <2>1, <2>3, <2>4, CallMoves DEF CallerStates
<1>3. ASSUME NEW r \in Request, NEW s \in Replies[r], Handle(r, s) PROVE Calls'
  <2>1. /\ Move(r, "completion") /\ pc[r] = "handler" /\ status' = [status EXCEPT ![r] = s]
        /\ UNCHANGED <<failed, late>> /\ s \in Status /\ UNCHANGED row
    BY <1>3, RelayAssumption DEF Handle, outbox
  <2>2. pc'[r] = "completion" /\ r \notin failed /\ r \in DOMAIN id
    BY <1>c, <1>f, <1>p, <2>1 DEF Move, Phases, IInv, Calls, CallOf
  <2>s. /\ status'[r] = s
        /\ \A q \in Request \ {r} : status'[q] = status[q]
    BY <2>1 DEF IInv, TypeOK
  <2>3. CallOf(r)
    BY DEF IInv, Calls
  <2>4. CallOf(r)'
    BY <2>1, <2>2, <2>3, <2>s, StepKeeps DEF CallOf, RequestStates, Settled
  <2> QED BY <1>c, <2>1, <2>2, <2>s, <2>4, CallMoves DEF CallerStates, Phases
<1>4. ASSUME NEW r \in Request, Answer(r) PROVE Calls'
  <2>0. UNCHANGED <<status, late>> /\ CallOf(r)
    BY <1>4 DEF Answer, IInv, Calls
  <2>1. CASE pc' = pc /\ failed' = failed \cup {r} /\ pc[r] = "start"
    BY <2>0, <2>1, CallsStay DEF Phases
  <2>2. CASE pc'[r] \in {"handler", "refused", "answered", "unconfirmed"} /\ failed' = failed \ {r}
    <3>1. \E to \in CallerStates : Move(r, to)
      <4>1. \E to \in CallerStates : pc' = [pc EXCEPT ![r] = to]
        <5>1. \/ pc' = pc
              \/ pc' = [pc EXCEPT ![r] = Acknowledged(pc[r])]
              \/ pc' = [pc EXCEPT ![r] = OnFailure(pc[r], Verdict(pc[r], r))]
          BY <1>4 DEF Answer, Move
        <5>2. pc' = [pc EXCEPT ![r] = pc'[r]]
          BY <1>c, <1>p, <5>1
        <5> QED BY <2>2, <5>2 DEF CallerStates
      <4> QED BY <4>1 DEF Move
    <3>2. CallOf(r)'
      <4>1. r \in DOMAIN id /\ r \notin failed' /\ (pc[r] = "completion" => status[r] \in Status)
        BY <2>0, <2>2, <1>4 DEF CallOf, Answer, Phases, Settled
      <4>2. \/ pc[r] = "start" /\ pc'[r] \in {"handler", "refused"}
            \/ pc[r] = "completion" /\ pc'[r] \in {"answered", "unconfirmed"}
        <5>1. ~(failed' = failed \cup {r})
          BY <4>1
        <5> QED BY <1>4, <5>1, AnswerOutcome
      <4>3. mode = "required" /\ pc'[r] = "handler" => row'[id[r]].state # "none"
        <5>1. ~(failed' = failed \cup {r})
          BY <4>1
        <5> QED BY <1>4, <5>1, AnswerOutcome
      <4> QED BY <2>0, <4>1, <4>2, <4>3, StepKeeps DEF CallOf, RequestStates, Settled
    <3>3. \A m \in late' : m \in late
      BY <2>0
    <3> QED BY <1>c, <2>0, <2>2, <3>1, <3>2, <3>3, CallMoves
  <2> QED BY <1>4, <2>1, <2>2, AnswerOutcome
<1>5. ASSUME NEW e \in Lifecycle, Answer(e) PROVE Calls'
  <2>1. pc[e] = "event" /\ UNCHANGED <<status, late>>
    BY <1>5 DEF Answer, IInv, Calls, TransitionStates, Phases
  <2>2. CASE Retryable(Verdict(pc[e], e))
    <3>1. failed' = failed \cup {e} /\ pc' = pc
      BY <1>5, <2>2 DEF Answer
    <3> QED BY <1>c, <2>1, <3>1, CallsStay DEF Phases
  <2>3. CASE ~Retryable(Verdict(pc[e], e))
    <3>1. PICK to \in {"recorded", "lost"} : Move(e, to) /\ failed' = failed \ {e}
      BY <1>5, <2>1, <2>3 DEF Answer, Acknowledged, OnFailure
    <3> QED BY <1>c, <2>1, <3>1, CallMoves DEF CallerStates, TransitionStates
  <2> QED BY <2>2, <2>3
<1>6. ASSUME NEW c \in Caller, LoseAttempt(c) PROVE Calls'
  <2>1. /\ pc[c] \in Phases /\ failed' = failed \cup {c} /\ UNCHANGED <<pc, status>> /\ Fault
        /\ \A m \in late' : m \in late \/ m = <<pc[c], c>>
    BY <1>6 DEF LoseAttempt
  <2>2. faults' > 0
    BY <2>1, FaultCounts DEF IInv
  <2>3. \A m \in late' : m \in late \/ Callable(m[1], m[2])
    BY <2>1, WaitingIsCallable
  <2> QED BY <2>1, <2>2, <2>3, CallsStay
<1>7. ASSUME NEW r \in Request, GiveUp(r) PROVE Calls'
  <2>1. /\ Move(r, OnFailure(pc[r], "unavailable")) /\ failed' = failed \ {r} /\ UNCHANGED <<status, late>>
        /\ CallOf(r) /\ pc[r] \in Phases /\ OnFailure(pc[r], "unavailable") \in CallerStates
    BY <1>7, Targets DEF GiveUp, IInv, Calls
  <2>2. pc[r] \in {"start", "completion"} /\ r \in DOMAIN id
    BY <2>1 DEF CallOf, RequestStates, Settled, Phases
  <2>3. pc'[r] = OnFailure(pc[r], "unavailable")
    BY <1>c, <1>p, <2>1 DEF Move
  <2>4. /\ pc'[r] \in {"handler", "refused", "answered", "unconfirmed"}
        /\ mode = "required" => pc'[r] # "handler"
        /\ pc'[r] \in {"answered", "unconfirmed"} => pc[r] = "completion"
    BY <2>2, <2>3, RequestTargets
  <2>5. CallOf(r)'
    BY <2>1, <2>2, <2>4, StepKeeps DEF CallOf, RequestStates, Settled
  <2>6. \A m \in late' : m \in late
    BY <2>1
  <2> QED BY <1>c, <2>1, <2>5, <2>6, CallMoves
<1>8. ASSUME NEW e \in Lifecycle, GiveUp(e) PROVE Calls'
  <2>1. pc[e] = "event" /\ UNCHANGED <<status, late>> /\ Move(e, "lost") /\ failed' = failed \ {e}
    BY <1>8 DEF GiveUp, IInv, Calls, TransitionStates, Phases, OnFailure
  <2> QED BY <1>c, <2>1, CallMoves DEF CallerStates, TransitionStates
<1>9. ASSUME NEW m \in late, LateCall(m) PROVE Calls'
  BY <1>9, CallsStay DEF LateCall
<1>10. ASSUME NEW e \in Lifecycle, SubmitLifecycle(e) PROVE Calls'
  <2>1. PICK to \in {"queued", "local"} : Move(e, to) /\ UNCHANGED <<status, failed, late>> /\ pc[e] = "idle"
    BY <1>10 DEF SubmitLifecycle
  <2>2. e \notin failed
    BY <1>f, <2>1 DEF Phases
  <2> QED BY <1>c, <2>1, <2>2, CallMoves DEF CallerStates, TransitionStates
<1>11. CASE DrainLifecycle
  <2>1. queue # <<>> /\ queue \in Seq(Lifecycle) /\ UNCHANGED <<status, failed, late>> /\ Move(Head(queue), "event")
    BY <1>11 DEF DrainLifecycle, IInv, TypeOK
  <2>2. Head(queue) \in Lifecycle
    BY <2>1
  <2>3. Head(queue) \notin failed
    BY <1>11, <1>f, <2>2 DEF DrainLifecycle, IInv, Calls, TransitionStates, Phases
  <2> QED BY <1>c, <2>1, <2>2, <2>3, CallMoves DEF CallerStates, TransitionStates, Phases
<1>12. CASE UNCHANGED <<pc, status, failed, late>>
  BY <1>12, CallsStay
<1>13. CASE Clock \/ Sweep \/ CrashRelay \/ \E e \in Event : Ingest(e) \/ Mislay(e)
  <2>1. UNCHANGED api
    BY <1>13 DEF Clock, Sweep, PassMaxAge, PassDeadline, PassBackoff, ClaimOverdue, CloseOverdue, ClaimDue,
       CaptureAccepted, CaptureRetryable, CapturePermanent, Accept, Verify, Purge, CrashRelay, Ingest, Mislay
  <2> QED BY <1>12, <2>1 DEF api
<1>14. CASE UNCHANGED vars
  BY <1>12, <1>14 DEF vars, api
<1> QED BY <1>1, <1>2, <1>3, <1>4, <1>5, <1>6, <1>7, <1>8, <1>9, <1>10, <1>11, <1>13, <1>14 DEF Next, Caller
-----------------------------------------------------------------------------
(* The records, the store and the worker                                   *)

LEMMA UndeliveredHasOutcome ==
  ASSUME IInv, NEW e \in Event, row[e].state \in Undelivered
  PROVE  row[e].terminal # "none"
BY DEF IInv, Rows, Legal, Undelivered

\* The store holds only events with an outcome, and shows what it holds.
LEMMA StoreStep ==
  ASSUME IInv, [Next]_vars
  PROVE  /\ visible \subseteq visible' /\ visible' \subseteq captured'
         /\ \A e \in captured' : e \in captured \/ (e \in Event /\ row[e].terminal # "none")
<1>0. visible \subseteq captured
  BY DEF IInv, Rows
<1>1. CASE UNCHANGED store
  BY <1>0, <1>1 DEF store
<1>p. ASSUME step \in {"sending", "isolating"} PROVE \A e \in Payload : e \in Event /\ row[e].terminal # "none"
  BY <1>p, PayloadIsClaimed, UndeliveredHasOutcome DEF IInv
<1>2. CASE CaptureAccepted
  BY <1>0, <1>2, <1>p DEF CaptureAccepted
<1>3. CASE CaptureRetryable
  BY <1>0, <1>3, <1>p DEF CaptureRetryable
<1>4. CASE \E e \in Event : Ingest(e) \/ Mislay(e)
  BY <1>0, <1>4 DEF Ingest, Mislay
<1>5. UNCHANGED store \/ CaptureAccepted \/ CaptureRetryable \/ \E e \in Event : Ingest(e) \/ Mislay(e)
  BY DEF Next, Arrive, CrashRequest, Handle, Answer, LoseAttempt, GiveUp, LateCall, SubmitLifecycle,
     DrainLifecycle, Clock, PassMaxAge, PassDeadline, PassBackoff, Sweep, ClaimOverdue, CloseOverdue, ClaimDue,
     CapturePermanent, Accept, Verify, Purge, CrashRelay, vars
<1> QED BY <1>1, <1>2, <1>3, <1>4, <1>5

LEMMA RowsStep ==
  ASSUME IInv, [Next]_vars
  PROVE  Rows'
<1>1. visible' \subseteq captured'
  BY StoreStep
<1>2. ASSUME NEW e \in Event
      PROVE  /\ Legal(row[e])'
             /\ row'[e].state \in {"verified", "purged"} => e \in visible'
             /\ e \in captured' => row'[e].terminal # "none"
  <2>1. OnwardAt(e)
    BY StepIsOnward DEF Onward
  <2>2. e \in captured' => row[e].terminal # "none"
    BY StoreStep DEF IInv, Rows
  <2> QED BY <2>1, <2>2, StoreStep DEF OnwardAt, Legal
<1> QED BY <1>1, <1>2 DEF Rows

\* A step of somebody else leaves what the worker holds undelivered.
LEMMA HeldKept ==
  ASSUME IInv, UNCHANGED <<step, claimed, marking>>,
         \A e \in Event : row[e].state \in Undelivered => row'[e].state \in Undelivered
  PROVE  Held'
BY DEF Held, IInv, TypeOK

LEMMA HeldStep ==
  ASSUME IInv, [Next]_vars
  PROVE  Held'
<1>h. Held /\ claimed \subseteq Event /\ marking \subseteq Event
  BY DEF IInv, TypeOK
<1>1. ASSUME Written, UNCHANGED <<step, claimed, marking>> PROVE Held'
  <2>1. \A e \in Event : row[e].state \in Undelivered => row'[e].state \in Undelivered
    BY <1>1, UndeliveredHasOutcome DEF Written
  <2> QED BY <1>1, <2>1, HeldKept
<1>2. ASSUME UNCHANGED <<row, step, claimed, marking>> PROVE Held'
  BY <1>2, HeldKept
<1>3. CASE \E c \in Caller : Answer(c) \/ LoseAttempt(c)
  <2>1. Written \/ UNCHANGED row
    BY <1>3, CallWrites
  <2>2. UNCHANGED <<step, claimed, marking>>
    BY <1>3 DEF Answer, LoseAttempt, worker
  <2> QED BY <1>1, <1>2, <2>1, <2>2
<1>4. CASE \E m \in late : LateCall(m)
  <2>1. Written /\ UNCHANGED <<step, claimed, marking>>
    BY <1>4, CallWrites DEF LateCall, worker
  <2> QED BY <1>1, <2>1
<1>5. ASSUME NEW e \in Event, PassBackoff(e) PROVE Held'
  <2>1. \A f \in Event : row'[f].state = row[f].state
    BY <1>5, RowsTyped DEF PassBackoff, IInv, Record
  <2>2. UNCHANGED <<step, claimed, marking>>
    BY <1>5 DEF PassBackoff, worker
  <2> QED BY <2>1, <2>2, HeldKept
<1>6. CASE \/ \E r \in Request : Arrive(r) \/ CrashRequest(r) \/ \E s \in Replies[r] : Handle(r, s)
           \/ \E c \in Caller : GiveUp(c)
           \/ \E e \in Lifecycle : SubmitLifecycle(e)
           \/ DrainLifecycle \/ PassMaxAge \/ \E e \in Event : PassDeadline(e) \/ Ingest(e) \/ Mislay(e)
           \/ UNCHANGED vars
  BY <1>2, <1>6 DEF Arrive, CrashRequest, Handle, GiveUp, SubmitLifecycle, DrainLifecycle, PassMaxAge,
     PassDeadline, Ingest, Mislay, outbox, worker, vars
<1>7. CASE ClaimOverdue
  BY <1>7, <1>h DEF ClaimOverdue, Held
<1>8. CASE CrashRelay
  BY <1>8, <1>h DEF CrashRelay, Held
<1>9. CASE CloseOverdue
  BY <1>9, <1>h DEF CloseOverdue, Held
<1>10. CASE ClaimDue
  <2> DEFINE ready == {e \in Event : row[e].state \in Undelivered /\ ~row[e].waiting}
             due == First(BatchSize, ready)
             sendable == {e \in due : nature[e] # "broken"}
  <2>1. due \subseteq ready
    BY FirstIsPart
  <2>2. /\ row' = DeadLettered(due \ sendable) /\ claimed' = sendable /\ marking' = marking /\ marking = {}
        /\ step' = IF sendable = {} THEN AfterCapture(row) ELSE "sending"
    BY <1>10, <1>h DEF ClaimDue, Held
  <2> HIDE DEF due
  <2>3. \A e \in sendable : e \in Event /\ row'[e] = row[e] /\ row[e].state \in Undelivered
    BY <2>1, <2>2 DEF DeadLettered
  <2> HIDE DEF sendable
  <2>4. step' \in {"purge", "verify"} \/ (step' = "sending" /\ sendable # {})
    BY <2>2, NextSteps
  <2> QED BY <2>2, <2>3, <2>4 DEF Held
<1>11. CASE CaptureAccepted
  <2>1. /\ Payload \subseteq claimed
        /\ \A e \in claimed : row[e].state \in Undelivered
    BY <1>11, PayloadIsClaimed DEF CaptureAccepted, IInv, Held
  <2>2. row' = row /\ marking' = Payload /\ claimed' = claimed \ Payload /\ step' = "accepting"
    BY <1>11 DEF CaptureAccepted, outbox
  <2> QED BY <2>1, <2>2 DEF Held
<1>12. CASE CaptureRetryable
  <2>1. /\ row' = Rescheduled(Payload) /\ marking' = marking /\ marking = {} /\ claimed' = claimed \ Payload
        /\ step' = AfterRecord(claimed \ Payload)
        /\ \A e \in claimed : row[e].state \in Undelivered
    BY <1>12, <1>h DEF CaptureRetryable, Held
  <2>2. \A e \in claimed' : row'[e] = row[e]
    BY <1>h, <2>1 DEF Rescheduled
  <2>3. step' \in {"purge", "verify"} \/ (step' = "isolating" /\ claimed' # {})
    BY <2>1, NextSteps
  <2> QED BY <2>1, <2>2, <2>3 DEF Held
<1>13. CASE CapturePermanent /\ Cardinality(Payload) > 1
  BY <1>13, <1>h DEF CapturePermanent, Held
<1>14. CASE CapturePermanent /\ ~(Cardinality(Payload) > 1)
  <2>1. /\ row' = DeadLettered(Payload) /\ marking' = marking /\ marking = {} /\ claimed' = claimed \ Payload
        /\ step' = AfterRecord(claimed \ Payload)
        /\ \A e \in claimed : row[e].state \in Undelivered
    BY <1>14, <1>h DEF CapturePermanent, Held
  <2>2. \A e \in claimed' : row'[e] = row[e]
    BY <1>h, <2>1 DEF DeadLettered
  <2>3. step' \in {"purge", "verify"} \/ (step' = "isolating" /\ claimed' # {})
    BY <2>1, NextSteps
  <2> QED BY <2>1, <2>2, <2>3 DEF Held
<1>15. CASE Accept
  <2>1. /\ marking' = {} /\ claimed' = claimed /\ claimed \cap marking = {}
        /\ \A e \in claimed : row[e].state \in Undelivered
        /\ step' = IF claimed = {} THEN AfterCapture(row') ELSE "isolating"
    BY <1>15, <1>h DEF Accept, Held
  <2>2. \A e \in claimed : row'[e] = row[e]
    BY <1>15, <1>h, <2>1 DEF Accept
  <2>3. step' \in {"purge", "verify"} \/ (step' = "isolating" /\ claimed # {})
    BY <2>1, NextSteps
  <2> QED BY <2>1, <2>2, <2>3 DEF Held
<1>16. CASE Verify
  BY <1>16, <1>h DEF Verify, Held
<1>17. CASE \E S \in SUBSET Event : Purge(S)
  BY <1>17, <1>h DEF Purge, Held
<1> QED BY <1>3, <1>4, <1>5, <1>6, <1>7, <1>8, <1>9, <1>10, <1>11, <1>12, <1>13, <1>14, <1>15, <1>16,
           <1>17 DEF Next, Sweep, Clock

-----------------------------------------------------------------------------
(* What the relay promises at every state                                  *)

\* How a request gets its answer.
LEMMA AnsweredNow ==
  ASSUME IInv, [Next]_vars, NEW r \in Request,
         pc'[r] \in {"answered", "unconfirmed"}, pc[r] # pc'[r]
  PROVE  Answer(r) \/ GiveUp(r)
<1>p. pc \in [Caller -> CallerStates] /\ r \in Caller /\ r \notin Lifecycle
  BY RelayAssumption DEF IInv, TypeOK, CallerStates, Caller
<1>1. ASSUME NEW c \in Caller, NEW to, Move(c, to), c # r PROVE FALSE
  BY <1>1, <1>p DEF Move
<1>2. ASSUME NEW to, NEW c \in Caller, Move(c, to), to \notin {"answered", "unconfirmed"} PROVE FALSE
  BY <1>1, <1>2, <1>p DEF Move
<1>3. pc' # pc
  OBVIOUS
<1>4. ASSUME NEW q \in Request, Arrive(q) \/ CrashRequest(q) \/ (\E s \in Replies[q] : Handle(q, s)) PROVE FALSE
  BY <1>2, <1>4 DEF Arrive, CrashRequest, Handle, Caller
<1>5. ASSUME NEW c \in Caller, Answer(c) \/ GiveUp(c) PROVE Answer(r) \/ GiveUp(r)
  BY <1>1, <1>3, <1>5 DEF Answer, GiveUp
<1>6. ASSUME NEW e \in Lifecycle, SubmitLifecycle(e) PROVE FALSE
  BY <1>2, <1>6 DEF SubmitLifecycle, Caller
<1>7. CASE DrainLifecycle
  <2>1. Head(queue) \in Lifecycle /\ Move(Head(queue), "event")
    BY <1>7 DEF DrainLifecycle, IInv, TypeOK
  <2> QED BY <1>2, <2>1 DEF Caller
<1>8. CASE UNCHANGED pc
  BY <1>3, <1>8
<1>9. CASE Clock \/ Sweep \/ CrashRelay \/ \E e \in Event : Ingest(e) \/ Mislay(e)
  <2>1. UNCHANGED api
    BY <1>9 DEF Clock, Sweep, PassMaxAge, PassDeadline, PassBackoff, ClaimOverdue, CloseOverdue, ClaimDue,
       CaptureAccepted, CaptureRetryable, CapturePermanent, Accept, Verify, Purge, CrashRelay, Ingest, Mislay
  <2> QED BY <1>8, <2>1 DEF api
<1>10. CASE \/ \E c \in Caller : LoseAttempt(c)
            \/ \E m \in late : LateCall(m)
            \/ UNCHANGED vars
  BY <1>8, <1>10 DEF LoseAttempt, LateCall, vars, api
<1> QED BY <1>4, <1>5, <1>6, <1>7, <1>9, <1>10 DEF Next

\* The status of a request whose handler ran does not change.
LEMMA StatusStays ==
  ASSUME IInv, [Next]_vars, NEW r \in Request, pc[r] \in Settled
  PROVE  status'[r] = status[r] /\ status[r] \in Status /\ status[r] # "none" /\ id[r] \in Event
<1>1. CallOf(r)
  BY DEF IInv, Calls
<1>2. status[r] \in Status /\ r \in DOMAIN id
  BY <1>1 DEF CallOf, Settled
<1>3. \A q \in Request : \A s \in Replies[q] : Handle(q, s) => q # r
  BY DEF Handle, Settled
<1>4. UNCHANGED status \/ \E q \in Request : q # r /\ \E s \in Replies[q] : status' = [status EXCEPT ![q] = s]
  BY <1>3 DEF Next, Arrive, CrashRequest, Handle, Answer, LoseAttempt, GiveUp, LateCall, SubmitLifecycle,
     DrainLifecycle, Clock, PassMaxAge, PassDeadline, PassBackoff, Sweep, ClaimOverdue, CloseOverdue, ClaimDue,
     CaptureAccepted, CaptureRetryable, CapturePermanent, Accept, Verify, Purge, CrashRelay, Ingest, Mislay, api, vars
<1>5. status'[r] = status[r]
  BY <1>4 DEF IInv, TypeOK
<1> QED BY <1>2, <1>5, RelayAssumption DEF IInv, Fixed

LEMMA SafeStep ==
  ASSUME IInv, [Next]_vars
  PROVE  RelaySafe'
<1>0. ReleasedIsRecorded /\ RefusalIsExplained
  BY DEF IInv, RelaySafe
<1>1. ReleasedIsRecorded'
  <2> SUFFICES ASSUME NEW r \in Request, mode' = "required", pc'[r] = "answered"
               PROVE  row'[id'[r]].terminal = status'[r]
    BY DEF ReleasedIsRecorded
  <2>1. id' = id /\ mode = "required"
    BY StepKeeps
  <2>2. CASE pc[r] = "answered"
    <3>1. row[id[r]].terminal = status[r] /\ status'[r] = status[r] /\ status[r] # "none" /\ id[r] \in Event
      BY <1>0, <2>1, <2>2, StatusStays DEF ReleasedIsRecorded, Settled
    <3> QED BY <2>1, <3>1, StepIsOnward DEF Onward, OnwardAt
  <2>3. CASE pc[r] # "answered"
    <3>1. Answer(r) \/ GiveUp(r)
      BY <2>3, AnsweredNow
    <3>2. CASE Answer(r)
      <4>1. row'[id[r]].terminal = status[r]
        BY <2>1, <2>3, <3>2, AnswerOutcome
      <4> QED BY <2>1, <3>2, <4>1 DEF Answer
    <3>3. CASE GiveUp(r)
      <4>1. /\ CallOf(r) /\ pc[r] \in Phases /\ r \in Caller /\ pc \in [Caller -> CallerStates]
            /\ pc' = [pc EXCEPT ![r] = OnFailure(pc[r], "unavailable")]
        BY <3>3 DEF GiveUp, Move, IInv, Calls, TypeOK, Caller, CallerStates
      <4>2. pc[r] \in {"start", "completion"}
        BY <4>1 DEF CallOf, RequestStates, Settled, Phases
      <4>3. pc'[r] = OnFailure(pc[r], "unavailable")
        BY <4>1
      <4> QED BY <2>1, <4>2, <4>3, RequestTargets
    <3> QED BY <3>1, <3>2, <3>3
  <2> QED BY <2>2, <2>3
<1>2. RefusalIsExplained'
  <2> SUFFICES ASSUME NEW r \in Request, pc'[r] = "unconfirmed", ~(faults' > 0)
               PROVE  row'[id'[r]].terminal \notin {"none", status'[r]}
    BY DEF RefusalIsExplained
  <2>1. id' = id /\ ~(faults > 0)
    BY StepKeeps
  <2>2. CASE pc[r] = "unconfirmed"
    <3>1. /\ row[id[r]].terminal \notin {"none", status[r]} /\ status'[r] = status[r] /\ id[r] \in Event
      BY <1>0, <2>1, <2>2, StatusStays DEF RefusalIsExplained, Settled
    <3>2. row'[id[r]].terminal = row[id[r]].terminal
      BY <3>1, StepIsOnward DEF Onward, OnwardAt
    <3> QED BY <2>1, <3>1, <3>2
  <2>3. CASE pc[r] # "unconfirmed"
    <3>1. Answer(r) \/ GiveUp(r)
      BY <2>3, AnsweredNow
    <3>2. CASE Answer(r)
      <4>1. row[id[r]].terminal \notin {"none", status[r]} /\ row' = row
        BY <2>3, <3>2, AnswerOutcome
      <4> QED BY <2>1, <3>2, <4>1 DEF Answer
    <3>3. CASE GiveUp(r)
      <4>1. /\ CallOf(r) /\ pc[r] \in Phases /\ r \in failed /\ r \in Caller /\ pc \in [Caller -> CallerStates]
            /\ pc' = [pc EXCEPT ![r] = OnFailure(pc[r], "unavailable")]
        BY <3>3 DEF GiveUp, Move, IInv, Calls, TypeOK, Caller, CallerStates
      <4>2. pc[r] = "start"
        BY <2>1, <4>1 DEF CallOf, RequestStates, Settled, Phases
      <4>3. pc'[r] = OnFailure("start", "unavailable")
        BY <4>1, <4>2
      <4> QED BY <4>3, RequestTargets
    <3> QED BY <3>1, <3>2, <3>3
  <2> QED BY <2>2, <2>3
<1>3. DeadIsEarned'
  <2>1. \A e \in Event : row'[e].state = "dead" => nature[e] # "good" \/ row'[e].attempts >= MaxAttempts
    BY StepIsOnward DEF Onward, OnwardAt
  <2> QED BY <2>1, StepKeeps DEF DeadIsEarned
<1> QED BY <1>1, <1>2, <1>3, TypeStep DEF RelaySafe
-----------------------------------------------------------------------------
LEMMA Initially == Init => IInv
<1> SUFFICES ASSUME Init PROVE IInv
  OBVIOUS
<1> USE RelayAssumption DEF Init
<1>r. \A e \in Event : row[e] = NoRow
  OBVIOUS
<1>n. NoRow \in Record /\ Legal(NoRow) /\ NoRow.state = "none"
  BY DEF NoRow, Record, Legal, RecordStates
<1>1. row \in [Event -> Record]
  BY <1>r, <1>n
<1>2. AcceptedIn(row) = {}
  BY <1>r, <1>n DEF AcceptedIn
<1>3. TypeOK
  <2>1. row \in [Event -> [state : RecordStates, start : Version \cup {"none", "event"},
                           terminal : Outcome \cup {"none"}, attempts : 0..MaxAttempts, waiting : BOOLEAN]]
    BY <1>1 DEF Record
  <2>2. faults \in 0..MaxFaults /\ queue \in Seq(Lifecycle) /\ Len(queue) <= QueueCapacity
    OBVIOUS
  <2> QED BY <1>2, <2>1, <2>2 DEF TypeOK
<1>4. Fixed
  BY DEF Fixed
<1>5. Calls
  BY DEF Calls, CallOf, RequestStates, TransitionStates, Settled, Caller
<1>6. Rows
  BY <1>r, <1>n DEF Rows
<1>7. Held
  BY DEF Held
<1>8. ReleasedIsRecorded /\ RefusalIsExplained
  BY DEF ReleasedIsRecorded, RefusalIsExplained, Caller
<1>9. DeadIsEarned
  BY <1>r, <1>n DEF DeadIsEarned
<1> QED BY <1>3, <1>4, <1>5, <1>6, <1>7, <1>8, <1>9 DEF IInv, RelaySafe

LEMMA Inductive == IInv /\ [Next]_vars => IInv'
BY TypeStep, FixedStep, CallsStep, RowsStep, HeldStep, SafeStep DEF IInv

LEMMA Invariant == Spec => []IInv
BY Initially, Inductive, PTL DEF Spec

\* Whatever is lost, retried, late, closed meanwhile or crashes: a response that
\* left the API in the required mode has exactly its status in the durable record
\* (middleware.rs, step 10), a request whose handler ran is refused only for a
\* fault or a different record, and only a record that cannot be delivered or has
\* spent its attempts is dead-lettered (capture.rs, "Fairness").
THEOREM RelayIsSafe == Spec => []RelaySafe
<1>1. IInv => RelaySafe
  BY DEF IInv
<1> QED BY <1>1, Invariant, PTL
-----------------------------------------------------------------------------
(* The relay implements the outbox                                         *)

\* What the outbox sees of a record.
RecordOf(r) ==
  IF r.state = "none" THEN "none" ELSE IF r.terminal = "none" THEN "open" ELSE r.terminal

Seen == [e \in Event |-> RecordOf(row[e])]
Left == {e \in Event : row[e].state # "purged"}

\* Every record that changes already had its outcome, and none is deleted.
Unseen ==
  /\ \A e \in Event : row'[e] = row[e] \/ row[e].terminal # "none"
  /\ \A e \in Event : row'[e].state = "purged" <=> row[e].state = "purged"

LEMMA UnseenIsStutter ==
  ASSUME IInv, [Next]_vars, Unseen, UNCHANGED visible
  PROVE  UNCHANGED Outbox!vars
<1>1. ASSUME NEW e \in Event PROVE RecordOf(row'[e]) = RecordOf(row[e])
  <2>1. OnwardAt(e) /\ Legal(row[e])
    BY StepIsOnward DEF Onward, IInv, Rows
  <2>2. CASE row[e].terminal # "none"
    <3>1. row[e].state # "none" /\ row'[e].state # "none" /\ row'[e].terminal = row[e].terminal
      BY <2>1, <2>2 DEF OnwardAt, Legal
    <3> QED BY <3>1 DEF RecordOf
  <2>3. CASE row'[e] = row[e]
    BY <2>3
  <2> QED BY <2>2, <2>3 DEF Unseen
<1>2. Seen' = Seen
  BY <1>1 DEF Seen
<1>3. Left' = Left
  BY DEF Left, Unseen
<1> QED BY <1>2, <1>3 DEF Seen, Left, RecordOf, Outbox!vars

\* A step that opens or decides one record.
LEMMA OneRecord ==
  ASSUME IInv, NEW e \in Event, NEW r \in Record, row' = [row EXCEPT ![e] = r], UNCHANGED visible,
         row[e].terminal = "none", row[e].state # "purged", r.state \notin {"none", "purged"},
         r.terminal = "none" => row[e].state = "none"
  PROVE  Outbox!Next
<1>0. row \in [Event -> Record] /\ r.terminal \in Outcome \cup {"none"}
  BY RowsTyped DEF IInv, Record
<1>1. row'[e] = r /\ \A f \in Event \ {e} : row'[f] = row[f]
  BY <1>0
<1>2. Seen' = [Seen EXCEPT ![e] = RecordOf(r)]
  <2>1. Seen' = [f \in Event |-> RecordOf(row'[f])]
    BY DEF Seen
  <2>2. [Seen EXCEPT ![e] = RecordOf(r)] = [f \in Event |-> IF f = e THEN RecordOf(r) ELSE RecordOf(row[f])]
    BY DEF Seen
  <2>3. \A f \in Event : RecordOf(row'[f]) = IF f = e THEN RecordOf(r) ELSE RecordOf(row[f])
    BY <1>1
  <2> QED BY <2>1, <2>2, <2>3
<1>3. Left' = Left /\ e \in Left
  BY <1>1 DEF Left
<1>4. Seen[e] = RecordOf(row[e]) /\ RecordOf(row[e]) \in {"none", "open"}
  BY DEF Seen, RecordOf
<1>5. CASE r.terminal = "none"
  <2>1. RecordOf(r) = "open" /\ Seen[e] = "none"
    BY <1>4, <1>5 DEF RecordOf
  <2>2. Seen[e] = "none" /\ e \in Left /\ Seen' = [Seen EXCEPT ![e] = "open"] /\ UNCHANGED <<visible, Left>>
    BY <1>2, <1>3, <2>1
  <2>3. Outbox!Open(e)
    BY <2>2 DEF Outbox!Open, Seen, Left, RecordOf
  <2> QED BY <2>3 DEF Outbox!Next
<1>6. CASE r.terminal # "none"
  <2>1. RecordOf(r) = r.terminal /\ r.terminal \in Outcome
    BY <1>0, <1>6 DEF RecordOf
  <2>2. /\ Seen[e] \in {"none", "open"} /\ e \in Left /\ Seen' = [Seen EXCEPT ![e] = r.terminal]
        /\ UNCHANGED <<visible, Left>>
    BY <1>2, <1>3, <1>4, <2>1
  <2>3. Outbox!Decide(e, r.terminal)
    BY <2>2 DEF Outbox!Decide, Seen, Left, RecordOf
  <2> QED BY <2>1, <2>3 DEF Outbox!Next
<1> QED BY <1>5, <1>6

LEMMA ApplyRefines ==
  ASSUME IInv, [Next]_vars, NEW phase, NEW c, Callable(phase, c), Apply(phase, c), UNCHANGED visible
  PROVE  [Outbox!Next]_(Outbox!vars)
<1>1. CASE Verdict(phase, c) = "created"
  <2> DEFINE e == EventId(c)
             r == Committed(phase, c)
  <2>1. /\ e \in Event /\ r \in Record /\ row[e].terminal = "none" /\ r.state \in {"started", "complete"} /\ Legal(r)
        /\ row[e].state = "started" => r.state = "complete"
    BY <1>1, CommittedIsRecord DEF IInv
  <2>2. row' = [row EXCEPT ![e] = r]
    BY <1>1 DEF Apply
  <2> HIDE DEF e, r
  <2>3. row[e].state \in {"none", "started"}
    BY <2>1 DEF IInv, Rows, Legal
  <2>4. r.terminal = "none" => row[e].state = "none"
    BY <2>1, <2>3 DEF Legal
  <2>5. Outbox!Next
    BY <2>1, <2>2, <2>3, <2>4, OneRecord
  <2> QED BY <2>5
<1>2. CASE Verdict(phase, c) # "created"
  <2>1. row' = row
    BY <1>2 DEF Apply
  <2> QED BY <2>1, UnseenIsStutter DEF Unseen
<1> QED BY <1>1, <1>2

LEMMA StepRefines ==
  ASSUME IInv, [Next]_vars
  PROVE  [Outbox!Next]_(Outbox!vars)
<1>u. ASSUME UNCHANGED <<row, visible>> PROVE UNCHANGED Outbox!vars
  BY <1>u, UnseenIsStutter DEF Unseen
<1>s. ASSUME NEW S \in SUBSET Event, \A e \in S : row[e].state \in Undelivered,
             \A e \in Event \ S : row'[e] = row[e], \A e \in S : row'[e].state # "purged", UNCHANGED visible
      PROVE  UNCHANGED Outbox!vars
  <2>1. Unseen
    BY <1>s, UndeliveredHasOutcome DEF Unseen, Undelivered
  <2> QED BY <1>s, <2>1, UnseenIsStutter
<1>1. ASSUME NEW c \in Caller, Answer(c) \/ LoseAttempt(c) PROVE [Outbox!Next]_(Outbox!vars)
  <2>1. UNCHANGED visible /\ pc[c] \in Phases /\ (Apply(pc[c], c) \/ UNCHANGED row)
    BY <1>1 DEF Answer, LoseAttempt, store
  <2> QED BY <1>u, <2>1, WaitingIsCallable, ApplyRefines
<1>2. ASSUME NEW m \in late, LateCall(m) PROVE [Outbox!Next]_(Outbox!vars)
  <2>1. Callable(m[1], m[2]) /\ UNCHANGED visible /\ Apply(m[1], m[2])
    BY <1>2 DEF IInv, Calls, LateCall, store
  <2> QED BY <2>1, ApplyRefines
<1>3. ASSUME NEW e \in Event, PassBackoff(e) PROVE UNCHANGED Outbox!vars
  <2>1. UNCHANGED visible /\ \A f \in Event : row'[f].state = row[f].state /\ row'[f].terminal = row[f].terminal
    BY <1>3, RowsTyped DEF PassBackoff, store, IInv, Record
  <2>2. Seen' = Seen /\ Left' = Left
    BY <2>1 DEF Seen, Left, RecordOf
  <2> QED BY <2>1, <2>2 DEF Seen, Left, RecordOf, Outbox!vars
<1>4. CASE CloseOverdue /\ row' # row
  <2> DEFINE e == Least(claimed)
             r == [row[e] EXCEPT !.state = "incomplete", !.terminal = "incomplete"]
  <2>1. claimed \in SUBSET Nat /\ claimed # {} /\ claimed \subseteq Event
    BY <1>4, RelayAssumption DEF CloseOverdue, IInv, TypeOK
  <2>2. e \in Event
    BY <2>1, LeastIsIn
  <2>3. /\ row[e].state = "started" /\ UNCHANGED visible
        /\ row' = [row EXCEPT ![e].state = "incomplete", ![e].terminal = "incomplete"]
    BY <1>4 DEF CloseOverdue, store
  <2> HIDE DEF e
  <2>4. row \in [Event -> Record] /\ row[e] \in Record
    BY <2>2, RowsTyped DEF IInv
  <2>5. row' = [row EXCEPT ![e] = r]
    BY <2>2, <2>3, <2>4
  <2>6. r \in Record /\ r.state = "incomplete" /\ r.terminal = "incomplete"
    BY <2>4 DEF Record, RecordStates, Undelivered, Outcome
  <2>7. row[e].terminal = "none"
    BY <2>2, <2>3 DEF IInv, Rows, Legal
  <2> HIDE DEF r
  <2>8. Outbox!Next
    BY <2>2, <2>3, <2>5, <2>6, <2>7, OneRecord
  <2> QED BY <2>8
<1>5. CASE CloseOverdue /\ row' = row
  BY <1>u, <1>5 DEF CloseOverdue, store
<1>6. CASE ClaimDue
  <2> DEFINE ready == {e \in Event : row[e].state \in Undelivered /\ ~row[e].waiting}
             due == First(BatchSize, ready)
             broken == due \ {e \in due : nature[e] # "broken"}
  <2>1. due \subseteq ready
    BY FirstIsPart
  <2>2. row' = DeadLettered(broken) /\ UNCHANGED visible
    BY <1>6 DEF ClaimDue, store
  <2> HIDE DEF due
  <2>3. broken \in SUBSET Event /\ \A e \in broken : row[e].state \in Undelivered
    BY <2>1
  <2> HIDE DEF broken
  <2>4. /\ \A e \in Event \ broken : row'[e] = row[e]
        /\ \A e \in broken : row'[e] = DeadLetter(row[e])
    BY <2>2, <2>3 DEF DeadLettered
  <2>5. \A e \in broken : row'[e].state # "purged"
    BY <2>3, <2>4, RowsTyped, RecordOps DEF IInv, Rows
  <2> QED BY <1>s, <2>2, <2>3, <2>4, <2>5
<1>7. CASE CaptureRetryable \/ CapturePermanent
  <2>1. Payload \in SUBSET Event /\ \A e \in Payload : row[e].state \in Undelivered
    BY <1>7, PayloadIsClaimed DEF IInv, CaptureRetryable, CapturePermanent
  <2>2. row' = row \/ row' = Rescheduled(Payload) \/ row' = DeadLettered(Payload)
    BY <1>7 DEF CaptureRetryable, CapturePermanent
  <2>3. UNCHANGED visible
    BY <1>7 DEF CaptureRetryable, CapturePermanent, store
  <2>4. CASE row' # row
    <3>1. \A e \in Event \ Payload : row'[e] = row[e]
      BY <2>2, <2>4 DEF Rescheduled, DeadLettered
    <3>2. \A e \in Payload : row'[e] = Reschedule(row[e]) \/ row'[e] = DeadLetter(row[e])
      BY <2>1, <2>2, <2>4 DEF Rescheduled, DeadLettered
    <3>3. \A e \in Payload : row'[e].state # "purged"
      BY <2>1, <3>2, RowsTyped, RecordOps DEF IInv, Rows, Undelivered
    <3> QED BY <1>s, <2>1, <2>3, <3>1, <3>3
  <2> QED BY <1>u, <2>3, <2>4
<1>8. CASE Accept
  <2> DEFINE mine == {e \in marking : row[e].state \in Undelivered}
  <2>1. mine \in SUBSET Event /\ \A e \in mine : row[e].state \in Undelivered
    BY DEF IInv, TypeOK
  <2>2. UNCHANGED visible
    BY <1>8 DEF Accept, store
  <2>3. CASE row' = [e \in Event |-> IF e \in mine THEN [row[e] EXCEPT !.state = "accepted", !.waiting = FALSE]
                                     ELSE row[e]]
    <3> HIDE DEF mine
    <3>1. \A e \in Event \ mine : row'[e] = row[e]
      BY <2>3
    <3>2. \A e \in mine : row'[e].state = "accepted"
      BY <2>1, <2>3, RowsTyped DEF IInv, Record
    <3> QED BY <1>s, <2>1, <2>2, <3>1, <3>2
  <2> QED BY <1>8, <1>u, <2>2, <2>3 DEF Accept
<1>9. CASE Verify
  <2> DEFINE seen == Oldest \cap visible
             absent == (Oldest \ visible) \cap aged
  <2>1. UNCHANGED visible
    BY <1>9 DEF Verify, store
  <2>o. \A e \in Oldest : e \in Event /\ row[e].state = "accepted"
    BY DEF Oldest, AcceptedIn
  <2>v. seen \subseteq Oldest /\ absent \subseteq Oldest
    OBVIOUS
  <2>2. CASE row' = [e \in Event |->
                    IF e \in seen THEN [row[e] EXCEPT !.state = "verified"]
                    ELSE IF e \in absent THEN [row[e] EXCEPT !.state = RestoreState(row[e])]
                    ELSE row[e]]
    <3> HIDE DEF seen, absent
    <3>1. \A e \in Event \ (seen \cup absent) : row'[e] = row[e]
      BY <2>2
    <3>2. \A e \in seen \cup absent : row'[e].state \in {"verified", "incomplete", "complete"}
      BY <2>2, <2>o, <2>v, RowsTyped DEF IInv, Record, RestoreState
    <3>3. \A e \in seen \cup absent : row[e].terminal # "none" /\ row[e].state # "purged" /\ row'[e].state # "purged"
      BY <2>o, <2>v, <3>2 DEF IInv, Rows, Legal
    <3>4. Unseen
      BY <3>1, <3>3 DEF Unseen
    <3> QED BY <2>1, <3>4, UnseenIsStutter
  <2> QED BY <1>9, <1>u, <2>1, <2>2 DEF Verify
<1>10. ASSUME NEW S \in SUBSET Event, Purge(S) PROVE Outbox!Next
  <2>1. /\ \A e \in S : row[e].state = "verified"
        /\ row' = [e \in Event |-> IF e \in S THEN [row[e] EXCEPT !.state = "purged"] ELSE row[e]]
        /\ UNCHANGED visible
    BY <1>10 DEF Purge, store
  <2>2. S \subseteq visible
    BY <2>1 DEF IInv, Rows
  <2>3. \A e \in S : /\ row'[e].state = "purged" /\ row'[e].terminal = row[e].terminal
    BY <2>1, RowsTyped DEF IInv, Record
  <2>4. \A e \in Event \ S : row'[e] = row[e]
    BY <2>1
  <2>5. \A e \in Event : RecordOf(row'[e]) = RecordOf(row[e])
    BY <2>1, <2>3, <2>4 DEF RecordOf
  <2>6. Seen' = Seen
    BY <2>5 DEF Seen
  <2>7. Left' = Left \ S
    BY <2>3, <2>4 DEF Left
  <2>8. Outbox!Forget(S)
    BY <2>1, <2>2, <2>6, <2>7 DEF Outbox!Forget, Seen, Left, RecordOf
  <2> QED BY <2>8 DEF Outbox!Next
<1>11. ASSUME NEW e \in Event, Ingest(e) PROVE Outbox!Next
  <2>1. row' = row /\ visible' = visible \cup {e} /\ row[e].terminal # "none" /\ row[e].state # "none"
        /\ row[e].terminal \in Outcome
    <3>1. row' = row /\ visible' = visible \cup {e} /\ e \in captured
      BY <1>11 DEF Ingest, outbox
    <3>2. row[e] \in Record /\ row[e].terminal # "none" /\ Legal(row[e])
      BY <3>1, RowsTyped DEF IInv, Rows
    <3> QED BY <3>1, <3>2 DEF Legal, Record
  <2>2. Seen[e] \in Outcome /\ Seen' = Seen /\ Left' = Left
    BY <2>1 DEF Seen, Left, RecordOf
  <2>3. Outbox!Show(e)
    BY <2>1, <2>2 DEF Outbox!Show, Seen, Left, RecordOf
  <2> QED BY <2>3 DEF Outbox!Next
<1>12. CASE Aside /\ ~(\E e \in Event : Ingest(e))
  <2>1. UNCHANGED visible
    BY <1>12 DEF Aside, Arrive, CrashRequest, Handle, GiveUp, SubmitLifecycle, DrainLifecycle, PassMaxAge,
       PassDeadline, Mislay, ClaimOverdue, CaptureAccepted, CrashRelay, store, vars
  <2> QED BY <1>12, <1>u, <2>1, AsideLeavesRows
<1> QED BY <1>1, <1>2, <1>3, <1>4, <1>5, <1>6, <1>7, <1>8, <1>9, <1>10, <1>11, <1>12, StepKinds

LEMMA InitRefines == Init => Outbox!Init
<1> SUFFICES ASSUME Init PROVE Outbox!Init
  OBVIOUS
<1>1. \A e \in Event : row[e].state = "none"
  BY DEF Init, NoRow
<1> QED BY <1>1 DEF Init, Outbox!Init

\* The relay implements the outbox: whatever is retried, lost, late, closed
\* meanwhile or crashes, the outcome of a record is decided once, the store shows
\* only records with an outcome, and a record is deleted only after it was shown.
THEOREM RelayImplementsOutbox == Spec => ImplementsOutbox
<1>1. Init => Outbox!Init
  BY InitRefines
<1>2. IInv /\ [Next]_vars => [Outbox!Next]_(Outbox!vars)
  BY StepRefines
<1>3. Spec => Outbox!Spec
  BY <1>1, <1>2, Invariant, PTL DEF Spec, Outbox!Spec
<1> QED BY <1>3 DEF ImplementsOutbox
=============================================================================
