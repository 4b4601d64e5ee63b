---------------------------- MODULE AuditWorker ----------------------------
(* The direct delivery worker of audit/worker.rs: admission through a bounded  *)
(* queue, batching, capped retries and the bounded drain at shutdown. Any      *)
(* number of request and reconciler tasks submit; one task owns the buffer.    *)
(*                                                                             *)
(* A submission is three steps (the closed flag, the queue, the depth          *)
(* counter), because nothing orders them against the worker. Time is counted   *)
(* from the beginning of the drain, in units of one capture timeout.           *)
EXTENDS Integers, Sequences, FiniteSets, SequencesExt

CONSTANTS
  Event,        \* records submitted in a behaviour
  Capacity,     \* queue_capacity
  BatchSize,    \* batch_size
  MaxRetries,   \* max_retries
  Timeout,      \* capture timeout
  Wait,         \* retry delay (the back-off is bounded by retry_max)
  Budget,       \* shutdown_flush_secs
  DrainGrace    \* DRAIN_GRACE

VARIABLES
  pc,           \* [Event -> progress of its submission]
  queue, depth, \* the channel and the shared depth counter
  closed, cancelled,
  task,         \* what the worker is doing
  buffer,       \* records projected and not yet sent
  batch,        \* the batch in flight or waiting for a retry
  attempt,
  deadline,     \* of the final drain; Never before it
  delivered,    \* records capture has accepted
  dropped,      \* records counted as dropped, by whatever reason
  offered,      \* records sent in the final drain
  residual,     \* the worker's residual; Unknown before it is computed
  report,       \* what drain() returned; Unknown before
  now, until    \* the clock, and when the current request or delay ends

shared == <<queue, depth, closed, cancelled>>
history == <<delivered, dropped, offered>>
vars == <<pc, shared, task, buffer, batch, attempt, deadline, history, residual, report,
          now, until>>

Unknown == -1
MaxTime == Budget + 4 * Timeout
Never == MaxTime + 1

Sends == {"request", "last_request", "final_request"}
Tasks == Sends \cup {"loop", "delay", "drain", "last_delay", "final_delay", "account", "done"}
Submissions == {"new", "checked", "sent", "admitted", "refused"}

----------------------------------------------------------------------------
(* Producers                                                                *)

Check(e) ==
  /\ pc[e] = "new"
  /\ pc' = [pc EXCEPT ![e] = IF closed THEN "refused" ELSE "checked"]
  /\ UNCHANGED <<shared, task, buffer, batch, attempt, deadline, history, residual, report, now, until>>

\* try_send: a full queue, or a worker that is gone, refuses.
TrySend(e) ==
  /\ pc[e] = "checked"
  /\ IF task = "done" \/ Len(queue) >= Capacity
     THEN pc' = [pc EXCEPT ![e] = "refused"] /\ UNCHANGED queue
     ELSE pc' = [pc EXCEPT ![e] = "sent"] /\ queue' = Append(queue, e)
  /\ UNCHANGED <<depth, closed, cancelled, task, buffer, batch, attempt, deadline, history,
                 residual, report, now, until>>

Count(e) ==
  /\ pc[e] = "sent"
  /\ pc' = [pc EXCEPT ![e] = "admitted"] /\ depth' = depth + 1
  /\ UNCHANGED <<queue, closed, cancelled, task, buffer, batch, attempt, deadline, history,
                 residual, report, now, until>>

----------------------------------------------------------------------------
(* The worker                                                               *)

\* recv, note_received and accept. A record that is invalid or too large to send
\* is dropped and counted.
Take ==
  LET e == Head(queue) IN
  /\ queue' = Tail(queue)
  /\ depth' = IF depth = 0 THEN 0 ELSE depth - 1
  /\ \/ dropped' = dropped \cup {e} /\ UNCHANGED buffer
     \/ buffer' = Append(buffer, e) /\ UNCHANGED dropped

\* The batch leaves the buffer and its request begins.
Flush(sending) ==
  /\ batch' = buffer' /\ task' = sending /\ attempt' = 0
  /\ until' = now + Timeout

\* One turn of the loop: a record, and a request when the batch is full.
Receive ==
  /\ task = "loop" /\ ~cancelled /\ queue # <<>>
  /\ Take
  /\ IF Len(buffer') >= BatchSize THEN Flush("request")
     ELSE UNCHANGED <<batch, task, attempt, until>>
  /\ UNCHANGED <<pc, closed, cancelled, deadline, delivered, offered, residual, report, now>>

\* The flush interval has passed.
FlushTick ==
  /\ task = "loop" /\ ~cancelled /\ buffer # <<>>
  /\ UNCHANGED buffer
  /\ Flush("request")
  /\ UNCHANGED <<pc, shared, deadline, history, residual, report, now>>

Settled(back) ==
  /\ task' = back /\ batch' = <<>> /\ buffer' = <<>> /\ attempt' = 0 /\ until' = 0

Retained(back) ==
  /\ task' = back /\ batch' = <<>> /\ buffer' = batch /\ attempt' = 0 /\ until' = 0

Sending == task \in Sends

\* Where the worker goes on after a batch is settled, and after a failed
\* request that will be repeated.
After == [request |-> "loop", last_request |-> "drain", final_request |-> "account"]
Delay == [request |-> "delay", last_request |-> "last_delay", final_request |-> "final_delay"]

\* Capture accepts the batch.
Accepted ==
  /\ Sending
  /\ delivered' = delivered \cup ToSet(batch)
  /\ Settled(After[task])
  /\ UNCHANGED <<pc, shared, deadline, dropped, offered, residual, report, now>>

\* Capture refuses it for good.
Permanent ==
  /\ Sending
  /\ dropped' = dropped \cup ToSet(batch)
  /\ Settled(After[task])
  /\ UNCHANGED <<pc, shared, deadline, delivered, offered, residual, report, now>>

\* A retryable failure, or no answer although capture got the batch. In steady
\* state the exhausted batch is dropped; the drain keeps it for its residual,
\* and does not begin a delay that would outlast the deadline.
Retryable(got) ==
  /\ Sending
  /\ delivered' = IF got THEN delivered \cup ToSet(batch) ELSE delivered
  /\ LET again == /\ attempt < MaxRetries
                  /\ task # "request" => deadline > now + Wait
     IN CASE again ->
               /\ task' = Delay[task]
               /\ until' = now + Wait
               /\ UNCHANGED <<batch, buffer, attempt, dropped>>
          [] ~again /\ task = "request" ->
               Settled("loop") /\ dropped' = dropped \cup ToSet(batch)
          [] ~again /\ task # "request" ->
               Retained("account") /\ UNCHANGED dropped
  /\ UNCHANGED <<pc, shared, deadline, offered, residual, report, now>>

\* The delay is over and the batch is sent again.
Retry ==
  /\ closed => now >= until
  /\ \E t \in Sends : task = Delay[t] /\ task' = t
  /\ attempt' = attempt + 1
  /\ until' = now + Timeout
  /\ UNCHANGED <<pc, shared, buffer, batch, deadline, history, residual, report, now>>

\* Mutant: the interrupted batch is forgotten.
InterruptForgetting ==
  /\ task = "delay" /\ cancelled
  /\ Settled("loop")
  /\ UNCHANGED <<pc, shared, deadline, history, residual, report, now>>

\* Cancellation ends a steady-state delay; the batch goes back to the buffer.
Interrupt ==
  /\ task = "delay" /\ cancelled
  /\ Retained("loop")
  /\ UNCHANGED <<pc, shared, deadline, history, residual, report, now>>

BeginDrain ==
  /\ task = "loop" /\ cancelled
  /\ deadline' = now + Budget
  /\ task' = "drain"
  /\ UNCHANGED <<pc, shared, buffer, batch, attempt, history, residual, report, now, until>>

DrainReceive ==
  /\ task = "drain" /\ queue # <<>> /\ now < deadline
  /\ Take
  /\ IF Len(buffer') >= BatchSize
     THEN Flush("last_request") /\ offered' = offered \cup ToSet(batch')
     ELSE UNCHANGED <<batch, task, attempt, until, offered>>
  /\ UNCHANGED <<pc, closed, cancelled, deadline, delivered, residual, report, now>>

\* The queue is swept or the budget spent: what is buffered is sent once more.
FinalFlush ==
  /\ task = "drain" /\ (queue = <<>> \/ now >= deadline)
  /\ UNCHANGED buffer
  /\ IF buffer = <<>>
     THEN task' = "account" /\ UNCHANGED <<batch, attempt, until, offered>>
     ELSE Flush("final_request") /\ offered' = offered \cup ToSet(batch')
  /\ UNCHANGED <<pc, shared, deadline, delivered, dropped, residual, report, now>>

\* The residual is what is buffered plus the depth counter.
Account ==
  /\ task = "account"
  /\ residual' = Len(buffer) + depth /\ task' = "done"
  /\ UNCHANGED <<pc, shared, buffer, batch, attempt, deadline, history, report, now, until>>

----------------------------------------------------------------------------
(* drain() and the clock                                                    *)

Close ==
  /\ ~closed /\ closed' = TRUE
  /\ until' = IF Sending THEN now + Timeout ELSE IF task = "delay" THEN now + Wait ELSE until
  /\ UNCHANGED <<pc, queue, depth, cancelled, task, buffer, batch, attempt, deadline, history,
                 residual, report, now>>

Cancel ==
  /\ closed /\ ~cancelled /\ cancelled' = TRUE
  /\ UNCHANGED <<pc, queue, depth, closed, task, buffer, batch, attempt, deadline, history,
                 residual, report, now, until>>

\* drain() returns when the worker has finished, or after its budget and grace;
\* the residual it reads is 0 until the worker stores one.
Return ==
  /\ cancelled /\ report = Unknown
  /\ task = "done" \/ now >= Budget + DrainGrace
  /\ report' = IF task = "done" THEN residual ELSE 0
  /\ UNCHANGED <<pc, shared, task, buffer, batch, attempt, deadline, history, residual, now, until>>

\* A request is answered within its timeout, a delay ends when it is due, and
\* the worker's own computation takes no time.
Tick ==
  /\ cancelled /\ now < MaxTime
  /\ task \notin {"loop", "drain", "account", "done"} /\ now < until
  /\ now' = now + 1
  /\ UNCHANGED <<pc, shared, task, buffer, batch, attempt, deadline, history, residual, report, until>>

----------------------------------------------------------------------------
Init ==
  /\ pc = [e \in Event |-> "new"]
  /\ queue = <<>> /\ depth = 0 /\ closed = FALSE /\ cancelled = FALSE
  /\ task = "loop" /\ buffer = <<>> /\ batch = <<>> /\ attempt = 0 /\ deadline = Never
  /\ delivered = {} /\ dropped = {} /\ offered = {}
  /\ residual = Unknown /\ report = Unknown /\ now = 0 /\ until = 0

Produce == \E e \in Event : Check(e) \/ TrySend(e) \/ Count(e)
Answer == Accepted \/ Permanent \/ \E got \in BOOLEAN : Retryable(got)
Work ==
  \/ Receive \/ FlushTick \/ Answer \/ Retry \/ Interrupt \/ BeginDrain
  \/ DrainReceive \/ FinalFlush \/ Account

Next == Produce \/ Work \/ Close \/ Cancel \/ Return \/ Tick

Spec == Init /\ [][Next]_vars

\* The runtime polls every task; a request ends at its timeout at the latest.
FairSpec ==
  Spec /\ WF_vars(Work) /\ WF_vars(Cancel) /\ WF_vars(Tick) /\ WF_vars(Return)
       /\ \A e \in Event : WF_vars(Count(e))

----------------------------------------------------------------------------
(* Properties                                                               *)

TypeOK ==
  /\ pc \in [Event -> Submissions]
  /\ queue \in Seq(Event) /\ Len(queue) <= Capacity
  /\ depth \in 0..Cardinality(Event) /\ closed \in BOOLEAN /\ cancelled \in BOOLEAN
  /\ task \in Tasks
  /\ buffer \in Seq(Event) /\ Len(buffer) <= BatchSize + 1
  /\ batch \in Seq(Event) /\ Len(batch) <= BatchSize + 1
  /\ attempt \in 0..MaxRetries
  /\ deadline \in Nat /\ now \in 0..MaxTime /\ until \in Nat
  /\ delivered \cup dropped \cup offered \subseteq Event
  /\ residual \in Nat \cup {Unknown} /\ report \in Nat \cup {Unknown}

\* Records admitted and neither accepted by capture nor counted as dropped.
Unaccounted == {e \in Event : pc[e] = "admitted"} \ (delivered \cup dropped)

\* Nothing is silently discarded (worker.rs, AUD-06): when the worker stops, the
\* residual it counts covers every admitted record that did not reach capture
\* and was not counted as dropped. A submission between its queue and its
\* counter can hide one record, no more.
StopAccountsForAllStep ==
  task' = "done" /\ task # "done"
    => Cardinality(Unaccounted) <= residual' + Cardinality({e \in Event : pc[e] = "sent"})
StopAccountsForAll == [][StopAccountsForAllStep]_vars

\* What the worker still holds when it stops was offered to capture in the
\* drain, the batch a cancelled retry handed back included.
LastChanceGiven == task = "done" => ToSet(buffer) \subseteq offered

\* The steady state has no other memory than queue, buffer and batch: a record
\* taken from the queue is never in none of them, not accepted and not counted.
NothingForgotten ==
  \A e \in Event :
    pc[e] \in {"sent", "admitted"} /\ task # "done"
      => e \in ToSet(queue) \cup ToSet(buffer) \cup ToSet(batch) \cup delivered \cup dropped

\* Shutdown is bounded: the worker stops after the sink is closed.
Stopped == closed => task = "done"

\* An admitted record is settled: accepted, counted, or left to the shutdown.
Resolved(e) == pc[e] = "admitted" => e \in delivered \cup dropped \/ closed

\* What holds of the capture worker at every state.
WorkerSafe == TypeOK /\ NothingForgotten /\ LastChanceGiven
=============================================================================
