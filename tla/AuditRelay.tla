----------------------------- MODULE AuditRelay -----------------------------
(* The durable audit path: the request middleware of the API (register a       *)
(* start, run the handler, commit the completion, release the response), the   *)
(* lifecycle queue, the relay's transactions over its SQLite outbox, and the   *)
(* relay worker that closes, captures, verifies and purges the records.        *)
(*                                                                             *)
(* One event id is one row. Rows are numbered in the order of terminal_at, the *)
(* order in which they are claimed; they arrive in any order. Time is the set  *)
(* of deadlines that have passed. Two requests may derive the same event id.   *)
EXTENDS Naturals, Sequences, FiniteSets

CONSTANTS
  Request, Lifecycle,  \* requests, and the event ids of lifecycle transitions
  Event,               \* event ids, as numbers
  Version,             \* service versions, the part of a start that may differ
  Scenario,            \* delivery mode, event id and version of the requests, kind of the records
  Status,              \* what a handler may answer
  Replies,             \* [Request -> the statuses its handler may answer]
  QueueCapacity,       \* of the lifecycle queue
  BatchSize,           \* capture_batch_size and verification_batch_size
  MaxAttempts,         \* max_capture_attempts
  MaxRecords,          \* the record capacity
  MaxFaults            \* lost calls, failed writes, outages and crashes

ASSUME RelayAssumption ==
  /\ IsFiniteSet(Event) /\ Event \subseteq Nat
  /\ Lifecycle \subseteq Event /\ Request \cap Lifecycle = {}
  /\ Status \cap {"none", "open", "incomplete", "occurred"} = {}
  /\ \A r \in Request : Replies[r] \subseteq Status
  /\ \A s \in Scenario :
       /\ DOMAIN s.id \subseteq Request
       /\ \A r \in DOMAIN s.id : s.id[r] \in Event /\ s.version[r] \in Version
  /\ QueueCapacity \in Nat /\ BatchSize \in Nat /\ MaxRecords \in Nat
  /\ MaxAttempts \in Nat \ {0} /\ MaxFaults \in Nat

VARIABLES
  mode, id, version, nature,   \* fixed per behaviour
  pc, status, failed, late,    \* the API: callers, answers, failed attempts, late calls
  queue,                       \* the lifecycle queue
  row, overdue, aged,           \* the outbox, and the deadlines that have passed
  older,                       \* accepted rows, in the order of posthog_accepted_at
  atCapacity,
  step, claimed, marking,      \* the worker
  captured, visible,           \* the analytics store
  faults

api == <<pc, status, failed, late, queue>>
outbox == <<row, overdue, aged, older>>
worker == <<atCapacity, step, claimed, marking>>
store == <<captured, visible>>
fixed == <<mode, id, version, nature>>
vars == <<fixed, api, outbox, worker, store, faults>>

Caller == Request \cup Lifecycle
Transition == (Lifecycle \cap DOMAIN nature) \ {id[r] : r \in DOMAIN id}
EventId(c) == IF c \in Request THEN id[c] ELSE c
Phases == {"start", "completion", "event"}
Outcome == Status \cup {"incomplete", "occurred"}

Undelivered == {"complete", "incomplete"}
RecordStates == Undelivered \cup {"none", "started", "accepted", "verified", "dead", "purged"}
NoRow == [state |-> "none", start |-> "none", terminal |-> "none", attempts |-> 0, waiting |-> FALSE]

Fault == faults < MaxFaults /\ faults' = faults + 1

Init ==
  /\ \E s \in Scenario :
       mode = s.mode /\ id = s.id /\ version = s.version /\ nature = s.nature
  /\ pc = [c \in Caller |-> "idle"] /\ status = [r \in Request |-> "none"]
  /\ failed = {} /\ late = {} /\ queue = <<>>
  /\ row = [e \in Event |-> NoRow] /\ overdue = {} /\ aged = {}
  /\ older = {}
  /\ atCapacity = FALSE /\ step = "close" /\ claimed = {} /\ marking = {}
  /\ captured = {} /\ visible = {}
  /\ faults = 0

----------------------------------------------------------------------------
(* Ingress: one transaction per call                                        *)

RegisterStart(c) ==
  LET r == row[EventId(c)] IN
  IF r.state = "none" THEN "created"
  ELSE IF r.start = version[c] THEN "replayed" ELSE "conflict"

CommitCompletion(c) ==
  LET r == row[EventId(c)] IN
  IF r.state = "none" THEN "no_start"
  ELSE IF r.terminal = "none" THEN "created"
  ELSE IF r.terminal = status[c] THEN "replayed" ELSE "conflict"

CommitLifecycle(c) ==
  LET r == row[EventId(c)] IN
  IF r.state = "none" THEN "created"
  ELSE IF r.terminal = "occurred" THEN "replayed" ELSE "conflict"

\* Starts and lifecycle events are refused at capacity, completions are not.
Verdict(phase, c) ==
  IF phase # "completion" /\ atCapacity THEN "unavailable"
  ELSE CASE phase = "start" -> RegisterStart(c)
         [] phase = "completion" -> CommitCompletion(c)
         [] phase = "event" -> CommitLifecycle(c)

Committed(phase, c) ==
  CASE phase = "start" -> [NoRow EXCEPT !.state = "started", !.start = version[c]]
    [] phase = "completion" -> [row[EventId(c)] EXCEPT !.state = "complete",
                                  !.terminal = status[c], !.waiting = FALSE]
    [] phase = "event" -> [NoRow EXCEPT !.state = "complete", !.start = "event",
                             !.terminal = "occurred"]

Apply(phase, c) ==
  row' = IF Verdict(phase, c) = "created"
         THEN [row EXCEPT ![EventId(c)] = Committed(phase, c)] ELSE row

----------------------------------------------------------------------------
(* The API                                                                  *)

Move(c, to) == pc' = [pc EXCEPT ![c] = to]

Acknowledged(phase) ==
  CASE phase = "start" -> "handler" [] phase = "completion" -> "answered"
    [] phase = "event" -> "recorded"

\* Mutant: a 409 counts as "already recorded".
OnFailureUnlessConflict(phase, kind) ==
  IF phase = "event" THEN "lost"
  ELSE IF mode = "required" /\ kind # "conflict"
       THEN IF phase = "start" THEN "refused" ELSE "unconfirmed"
  ELSE Acknowledged(phase)

\* Only the required mode turns a relay failure into a refusal. A lifecycle
\* event that fails is logged and lost.
OnFailure(phase, kind) ==
  IF phase = "event" THEN "lost"
  ELSE IF mode = "required" THEN IF phase = "start" THEN "refused" ELSE "unconfirmed"
  ELSE Acknowledged(phase)

\* Another attempt inside the budget may help only when the relay was unavailable.
Retryable(verdict) == verdict = "unavailable"

Arrive(r) ==
  /\ pc[r] = "idle" /\ r \in DOMAIN id /\ Move(r, "start")
  /\ UNCHANGED <<fixed, status, failed, late, queue, outbox, worker, store, faults>>

\* A call is answered: its transaction and the reply.
Answer(c) ==
  LET phase == pc[c]
      verdict == Verdict(phase, c) IN
  /\ phase \in Phases
  /\ Apply(phase, c)
  /\ IF Retryable(verdict)
     THEN failed' = failed \cup {c} /\ UNCHANGED pc
     ELSE /\ Move(c, IF verdict \in {"created", "replayed"} THEN Acknowledged(phase)
                     ELSE OnFailure(phase, verdict))
          /\ failed' = failed \ {c}
  /\ UNCHANGED <<fixed, status, late, queue, overdue, aged, older, worker, store, faults>>

\* An attempt is lost, applied without its reply, or still on its way.
LoseAttempt(c) ==
  /\ pc[c] \in Phases /\ Fault
  /\ \/ UNCHANGED <<row, late>>
     \/ Apply(pc[c], c) /\ UNCHANGED late
     \/ late' = late \cup {<<pc[c], c>>} /\ UNCHANGED row
  /\ failed' = failed \cup {c}
  /\ UNCHANGED <<fixed, pc, status, queue, overdue, aged, older, worker, store>>

\* The budget of the call is spent on failed attempts.
GiveUp(c) ==
  /\ pc[c] \in Phases /\ c \in failed
  /\ Move(c, OnFailure(pc[c], "unavailable"))
  /\ failed' = failed \ {c}
  /\ UNCHANGED <<fixed, status, late, queue, outbox, worker, store, faults>>

\* A call whose caller has given up on it reaches the writer.
LateCall(m) ==
  /\ m \in late /\ late' = late \ {m}
  /\ Apply(m[1], m[2])
  /\ UNCHANGED <<fixed, pc, status, failed, queue, overdue, aged, older, worker, store, faults>>

Handle(r, s) ==
  /\ pc[r] = "handler"
  /\ status' = [status EXCEPT ![r] = s] /\ Move(r, "completion")
  /\ UNCHANGED <<fixed, failed, late, queue, outbox, worker, store, faults>>

\* The replica that serves a request dies.
CrashRequest(r) ==
  /\ pc[r] \in {"start", "handler", "completion"} /\ Fault
  /\ \/ UNCHANGED late
     \/ pc[r] \in Phases /\ late' = late \cup {<<pc[r], r>>}
  /\ Move(r, "gone") /\ failed' = failed \ {r}
  /\ UNCHANGED <<fixed, status, queue, outbox, worker, store>>

\* A full queue falls back to the local sink.
SubmitLifecycle(e) ==
  /\ pc[e] = "idle" /\ e \in Transition
  /\ IF Len(queue) < QueueCapacity THEN queue' = Append(queue, e) /\ Move(e, "queued")
     ELSE Move(e, "local") /\ UNCHANGED queue
  /\ UNCHANGED <<fixed, status, failed, late, outbox, worker, store, faults>>

DrainLifecycle ==
  /\ queue # <<>> /\ \A e \in Lifecycle : pc[e] # "event"
  /\ queue' = Tail(queue) /\ Move(Head(queue), "event")
  /\ UNCHANGED <<fixed, status, failed, late, outbox, worker, store, faults>>

----------------------------------------------------------------------------
(* The relay worker: one sweep is close, capture, verify, purge and gauges *)

First(n, S) == {e \in S : Cardinality({f \in S : f < e}) < n}
Least(S) == CHOOSE e \in S : \A f \in S : e <= f

PassDeadline(e) ==
  /\ row[e].state = "started" /\ e \notin overdue
  /\ overdue' = overdue \cup {e}
  /\ UNCHANGED <<fixed, api, row, aged, older, worker, store, faults>>

PassBackoff(e) ==
  /\ row[e].waiting
  /\ row' = [row EXCEPT ![e].waiting = FALSE]
  /\ UNCHANGED <<fixed, api, overdue, aged, older, worker, store, faults>>

AcceptedIn(rows) == {e \in Event : rows[e].state = "accepted"}

\* The first accepted record passes the maximal age of an unseen acceptance.
PassMaxAge ==
  /\ \E e \in AcceptedIn(row) \ aged :
       /\ \A f \in Event : <<f, e>> \in older => f \in aged
       /\ aged' = aged \cup {e}
  /\ UNCHANGED <<fixed, api, row, overdue, older, worker, store, faults>>

\* Mutant: the comparison with the cutoff is the wrong way round.
StartsBeforeDeadline == {e \in Event \ overdue : row[e].state = "started"}

OverdueStarts == {e \in overdue : row[e].state = "started"}

ClaimOverdue ==
  /\ step = "close" /\ step' = "closing"
  /\ OverdueStarts # {} /\ claimed' = First(BatchSize, OverdueStarts)
  /\ UNCHANGED <<fixed, api, outbox, atCapacity, marking, store, faults>>

\* Mutant: the update is not guarded on the state.
CloseOverdueUnguarded ==
  LET e == Least(claimed) IN
  /\ step = "closing" /\ claimed # {} /\ claimed' = claimed \ {e}
  /\ \/ Fault /\ UNCHANGED row
     \/ /\ row' = [row EXCEPT ![e].state = "incomplete", ![e].terminal = "incomplete"]
        /\ UNCHANGED faults
  /\ UNCHANGED <<fixed, api, overdue, aged, older, atCapacity, step, marking, store>>

\* A completion that committed since the claim wins.
CloseOverdue ==
  LET e == Least(claimed) IN
  /\ step = "closing" /\ claimed # {} /\ claimed' = claimed \ {e}
  /\ \/ Fault /\ UNCHANGED row
     \/ /\ row' = IF row[e].state = "started"
                  THEN [row EXCEPT ![e].state = "incomplete", ![e].terminal = "incomplete"]
                  ELSE row
        /\ UNCHANGED faults
  /\ UNCHANGED <<fixed, api, overdue, aged, older, atCapacity, step, marking, store>>

DeadLetter(r) == [r EXCEPT !.state = "dead", !.attempts = @ + 1, !.waiting = FALSE]

Reschedule(r) ==
  IF r.attempts + 1 >= MaxAttempts THEN DeadLetter(r)
  ELSE [r EXCEPT !.attempts = @ + 1, !.waiting = TRUE]

DeadLettered(S) == [e \in Event |-> IF e \in S THEN DeadLetter(row[e]) ELSE row[e]]

Rescheduled(S) == [e \in Event |-> IF e \in S THEN Reschedule(row[e]) ELSE row[e]]

\* Steps with nothing to do are skipped: verification needs an accepted record.
AfterCapture(rows) == IF AcceptedIn(rows) = {} THEN "purge" ELSE "verify"

\* claim_due and the projection of each record, once the overdue starts are closed.
ClaimDue ==
  LET due == First(BatchSize, {e \in Event : row[e].state \in Undelivered /\ ~row[e].waiting})
      sendable == {e \in due : nature[e] # "broken"} IN
  /\ \/ step = "closing" /\ claimed = {}
     \/ step = "close" /\ OverdueStarts = {}
  /\ row' = DeadLettered(due \ sendable)
  /\ claimed' = sendable
  /\ step' = IF sendable = {} THEN AfterCapture(row) ELSE "sending"
  /\ UNCHANGED <<fixed, api, overdue, aged, older, atCapacity, marking, store, faults>>

Poisoned(S) == \E e \in S : nature[e] = "poison"
AfterRecord(rest) == IF step = "isolating" /\ rest # {} THEN "isolating" ELSE AfterCapture(row)

\* What is sent next: the whole batch, or one record of a rejected batch.
Payload == IF step = "sending" THEN claimed ELSE {Least(claimed)}

CaptureAccepted ==
  /\ step \in {"sending", "isolating"} /\ ~Poisoned(Payload)
  /\ captured' = captured \cup Payload
  /\ marking' = Payload /\ claimed' = claimed \ Payload /\ step' = "accepting"
  /\ UNCHANGED <<fixed, api, outbox, atCapacity, visible, faults>>

\* An outage, or an acceptance whose answer was lost.
CaptureRetryable ==
  /\ step \in {"sending", "isolating"} /\ Fault
  /\ \/ UNCHANGED captured
     \/ ~Poisoned(Payload) /\ captured' = captured \cup Payload
  /\ row' = Rescheduled(Payload)
  /\ claimed' = claimed \ Payload /\ step' = AfterRecord(claimed \ Payload)
  /\ UNCHANGED <<fixed, api, overdue, aged, older, atCapacity, marking, visible>>

\* isolate_permanent: a batch is sent again record by record; a single record dies.
CapturePermanent ==
  /\ step \in {"sending", "isolating"} /\ Poisoned(Payload)
  /\ IF Cardinality(Payload) > 1
     THEN step' = "isolating" /\ UNCHANGED <<row, claimed>>
     ELSE /\ row' = DeadLettered(Payload)
          /\ claimed' = claimed \ Payload /\ step' = AfterRecord(claimed \ Payload)
  /\ UNCHANGED <<fixed, api, overdue, aged, older, atCapacity, marking, store, faults>>

\* mark_accepted, or its failure.
Accept ==
  LET mine == {e \in marking : row[e].state \in Undelivered} IN
  /\ step = "accepting" /\ marking' = {}
  /\ \/ Fault /\ UNCHANGED <<row, older, aged>>
     \/ /\ row' = [e \in Event |-> IF e \in mine
                                   THEN [row[e] EXCEPT !.state = "accepted", !.waiting = FALSE]
                                   ELSE row[e]]
        /\ older' = older \cup (AcceptedIn(row) \X mine) \cup {p \in mine \X mine : p[1] < p[2]}
        /\ aged' = aged \ mine
        /\ UNCHANGED faults
  /\ step' = IF claimed = {} THEN AfterCapture(row') ELSE "isolating"
  /\ UNCHANGED <<fixed, api, overdue, atCapacity, claimed, store>>

\* claim_unverified: the oldest acceptances.
Oldest == {e \in AcceptedIn(row) : Cardinality({f \in Event : <<f, e>> \in older}) < BatchSize}

RestoreState(r) == IF r.terminal = "incomplete" THEN "incomplete" ELSE "complete"

\* The visible ones are verified, the absent ones past
\* the maximal age are captured again. A failed query changes nothing.
Verify ==
  LET batch == Oldest
      seen == batch \cap visible
      absent == (batch \ visible) \cap aged IN
  /\ step = "verify" /\ step' = "purge"
  /\ \/ Fault /\ UNCHANGED <<row, older>>
     \/ /\ row' = [e \in Event |->
                    IF e \in seen THEN [row[e] EXCEPT !.state = "verified"]
                    ELSE IF e \in absent THEN [row[e] EXCEPT !.state = RestoreState(row[e])]
                    ELSE row[e]]
        /\ older' = {p \in older : {p[1], p[2]} \cap (seen \cup absent) = {}}
        /\ UNCHANGED faults
  /\ UNCHANGED <<fixed, api, overdue, aged, atCapacity, claimed, marking, store>>

\* Retention is counted in days: no call about the record is on its way any more.
Quiet(e) ==
  /\ \A c \in Transition \cup DOMAIN id : EventId(c) = e => pc[c] \notin Phases \cup {"idle", "handler"}
  /\ \A m \in late : EventId(m[2]) # e

Stored(rows) == {e \in Event : rows[e].state \notin {"none", "purged"}}

\* The verified rows older than the retention, if any, are deleted, and the
\* capacity flag is refreshed unless the rows cannot be counted.
Purge(S) ==
  /\ step = "purge" /\ step' = "close"
  /\ S \subseteq {e \in Event : row[e].state = "verified" /\ Quiet(e)}
  /\ row' = [e \in Event |-> IF e \in S THEN [row[e] EXCEPT !.state = "purged"] ELSE row[e]]
  /\ \/ Fault /\ UNCHANGED atCapacity
     \/ atCapacity' = (Cardinality(Stored(row')) >= MaxRecords) /\ UNCHANGED faults
  /\ UNCHANGED <<fixed, api, overdue, aged, older, claimed, marking, store>>

\* The relay restarts: what it held in memory is gone.
CrashRelay ==
  /\ step \notin {"close", "purge"} \/ atCapacity
  /\ Fault
  /\ step' = "close" /\ claimed' = {} /\ marking' = {} /\ atCapacity' = FALSE
  /\ UNCHANGED <<fixed, api, outbox, store>>

\* The analytics store makes a captured event visible, or loses it.
Ingest(e) ==
  /\ e \in captured \ visible
  /\ visible' = visible \cup {e}
  /\ UNCHANGED <<fixed, api, outbox, worker, captured, faults>>

Mislay(e) ==
  /\ e \in captured \ visible /\ Fault
  /\ captured' = captured \ {e}
  /\ UNCHANGED <<fixed, api, outbox, worker, visible>>

----------------------------------------------------------------------------
Sweep ==
  \/ ClaimOverdue \/ CloseOverdue \/ ClaimDue \/ CaptureAccepted \/ CaptureRetryable
  \/ CapturePermanent \/ Accept \/ Verify
  \/ \E S \in SUBSET Event : Purge(S)

Clock == PassMaxAge \/ \E e \in Event : PassDeadline(e) \/ PassBackoff(e)

Next ==
  \/ \E r \in Request : Arrive(r) \/ CrashRequest(r) \/ \E s \in Replies[r] : Handle(r, s)
  \/ \E c \in Caller : Answer(c) \/ LoseAttempt(c) \/ GiveUp(c)
  \/ \E m \in late : LateCall(m)
  \/ \E e \in Lifecycle : SubmitLifecycle(e)
  \/ DrainLifecycle \/ Clock \/ Sweep \/ CrashRelay
  \/ \E e \in Event : Ingest(e) \/ Mislay(e)

Spec == Init /\ [][Next]_vars

\* The worker's interval runs for ever, deadlines pass and the store ingests
\* what it accepted and did not lose.
Fairness ==
  /\ WF_vars(Sweep) /\ WF_vars(Clock)
  /\ \A e \in Event : WF_vars(Ingest(e))

FairSpec == Spec /\ Fairness

----------------------------------------------------------------------------
(* Properties                                                               *)

\* Every variable has its type, and the lifecycle queue its capacity.
TypeOK ==
  /\ pc \in [Caller -> Phases \cup {"idle", "handler", "answered", "refused", "unconfirmed",
                                    "gone", "queued", "local", "recorded", "lost"}]
  /\ status \in [Request -> Status \cup {"none"}]
  /\ failed \subseteq Caller /\ late \subseteq Phases \X Caller
  /\ queue \in Seq(Lifecycle) /\ Len(queue) <= QueueCapacity
  /\ row \in [Event -> [state : RecordStates, start : Version \cup {"none", "event"},
                        terminal : Outcome \cup {"none"}, attempts : 0..MaxAttempts,
                        waiting : BOOLEAN]]
  /\ overdue \subseteq Event /\ aged \subseteq Event
  /\ older \subseteq AcceptedIn(row) \X AcceptedIn(row)
  /\ step \in {"close", "closing", "sending", "isolating", "accepting", "verify", "purge"}
  /\ atCapacity \in BOOLEAN /\ claimed \subseteq Event /\ marking \subseteq Event
  /\ visible \subseteq Event /\ captured \subseteq Event /\ faults \in 0..MaxFaults

\* Required mode: a response that left the API has exactly its status in the
\* durable record, whatever was retried, lost, late or closed meanwhile
\* (middleware.rs, step 10).
ReleasedIsRecorded ==
  \A r \in Request : mode = "required" /\ pc[r] = "answered" => row[id[r]].terminal = status[r]

\* As long as nothing was lost, failed or crashed, a request whose handler ran is
\* refused only because the durable record says something else. In particular a
\* relay at capacity lets a started request finish (http/write.rs).
RefusalIsExplained ==
  \A r \in Request : pc[r] = "unconfirmed" => faults > 0 \/ row[id[r]].terminal \notin {"none", status[r]}

\* Only a record that cannot be delivered, or one that spent its attempts, is
\* dead-lettered: a poison record dies alone (capture.rs, "Fairness").
DeadIsEarned ==
  \A e \in Event : row[e].state = "dead" => nature[e] # "good" \/ row[e].attempts >= MaxAttempts

\* The relay implements the outbox: outcomes are decided once, and a record is
\* deleted only after the store has shown it.
Outbox == INSTANCE AuditOutbox WITH
  record <- [e \in Event |-> IF row[e].state = "none" THEN "none"
                             ELSE IF row[e].terminal = "none" THEN "open" ELSE row[e].terminal],
  shown <- visible,
  kept <- {e \in Event : row[e].state # "purged"}

ImplementsOutbox == Outbox!Spec

\* Every start is closed, by its completion or by the sweep (closer.rs).
StartsAreClosed ==
  \A e \in Event : row[e].state = "started" ~> row[e].state # "started"

\* Every record with an outcome is in the end proven visible or dead-lettered,
\* although poison records are ahead of it and the store loses accepted events.
OutcomesSettle ==
  \A e \in Event : row[e].state \in Undelivered ~> row[e].state \in {"verified", "purged", "dead"}

\* What holds of the relay at every state: what was answered is recorded, a refusal
\* has a reason, and only what may not have arrived is given up.
RelaySafe == TypeOK /\ ReleasedIsRecorded /\ RefusalIsExplained /\ DeadIsEarned

\* Everything ends: an overdue start is closed and a record captured or given up.
RelaySettles == StartsAreClosed /\ OutcomesSettle
=============================================================================
