--------------------------- MODULE Services_proofs ----------------------------
(* Proofs about the services, for any instance that meets the assumptions:    *)
(* the capture worker, the schedules, the pod driver, the chat turns, the     *)
(* environment profiles, the walks over the activity and the template pull    *)
(* requests.                                                                  *)
EXTENDS Services, FiniteSetTheorems, SequenceTheorems, WellFoundedInduction, TLAPS

-----------------------------------------------------------------------------
(* The capture worker                                                       *)

\* What the configuration accepts.
Bounds ==
  /\ IsFiniteSet(Event)
  /\ Capacity \in Nat /\ BatchSize \in Nat \ {0} /\ MaxRetries \in Nat
  /\ Timeout \in Nat /\ Wait \in Nat /\ Budget \in Nat /\ DrainGrace \in Nat

Delays == {"delay", "last_delay", "final_delay"}
Idle == {"loop", "drain", "account", "done"}
Final == {"last_request", "final_request", "last_delay", "final_delay"}

Sent == {e \in Event : pc[e] = "sent"}
Admitted == {e \in Event : pc[e] = "admitted"}

\* The batch is a copy of the buffer while it is on its way, and no longer; only
\* the record that fills a batch can make it larger than the batch size.
Shape ==
  /\ task \in Idle => batch = <<>>
  /\ task \in Sends \cup Delays => buffer = batch
  /\ task \in Delays => attempt < MaxRetries
  /\ task \in {"loop", "request", "delay", "drain"} => Len(buffer) <= BatchSize
  /\ task = "loop" /\ ~cancelled => Len(buffer) < BatchSize

\* What the drain sends and what it leaves behind was offered.
Offers ==
  /\ task \in Final => ToSet(batch) \subseteq offered
  /\ task \in {"account", "done"} => ToSet(buffer) \subseteq offered

\* A record that was queued is still held, or its fate is known.
Held == ToSet(queue) \cup ToSet(buffer) \cup ToSet(batch) \cup delivered \cup dropped

Kept == Sent \cup Admitted \subseteq Held

\* The depth counter lags the queue by the submissions that have not counted yet.
Counts ==
  /\ depth <= Cardinality(Admitted)
  /\ Len(queue) <= depth + Cardinality(Sent)

IInv == TypeOK /\ Shape /\ Offers /\ Kept /\ Counts
-----------------------------------------------------------------------------
LEMMA Elements ==
  ASSUME NEW Elem, NEW s \in Seq(Elem)
  PROVE  /\ ToSet(s) \subseteq Elem
         /\ \A e \in Elem : ToSet(Append(s, e)) = ToSet(s) \cup {e}
         /\ s # <<>> => ToSet(s) = ToSet(Tail(s)) \cup {Head(s)}
         /\ s = <<>> => ToSet(s) = {}
<1>1. ToSet(s) \subseteq Elem
  BY DEF ToSet
<1>2. ASSUME NEW e \in Elem PROVE ToSet(Append(s, e)) = ToSet(s) \cup {e}
  <2>1. /\ Len(Append(s, e)) = Len(s) + 1 /\ DOMAIN s = 1..Len(s) /\ DOMAIN Append(s, e) = 1..(Len(s) + 1)
        /\ \A i \in 1..Len(s) : Append(s, e)[i] = s[i]
        /\ Append(s, e)[Len(s) + 1] = e /\ Len(s) \in Nat
    OBVIOUS
  <2> QED BY <2>1 DEF ToSet
<1>3. ASSUME s # <<>> PROVE ToSet(s) = ToSet(Tail(s)) \cup {Head(s)}
  <2>1. /\ Len(s) \in Nat \ {0} /\ DOMAIN s = 1..Len(s) /\ DOMAIN Tail(s) = 1..(Len(s) - 1)
        /\ \A i \in 1..(Len(s) - 1) : Tail(s)[i] = s[i + 1]
        /\ Head(s) = s[1]
    BY <1>3
  <2>2. \A i \in 1..Len(s) : i = 1 \/ (i - 1 \in 1..(Len(s) - 1) /\ s[i] = Tail(s)[i - 1])
    BY <2>1
  <2>3. ASSUME NEW x \in ToSet(s) PROVE x \in ToSet(Tail(s)) \cup {Head(s)}
    <3>1. PICK i \in 1..Len(s) : x = s[i]
      BY <2>1 DEF ToSet
    <3>2. CASE i = 1
      BY <2>1, <3>1, <3>2
    <3>3. CASE i # 1
      <4>1. x = Tail(s)[i - 1] /\ i - 1 \in DOMAIN Tail(s)
        BY <2>1, <2>2, <3>1, <3>3
      <4> QED BY <4>1 DEF ToSet
    <3> QED BY <3>2, <3>3
  <2>4. \A i \in 1..(Len(s) - 1) : i + 1 \in 1..Len(s) /\ Tail(s)[i] = s[i + 1]
    BY <2>1
  <2>5. ToSet(Tail(s)) \subseteq ToSet(s) /\ Head(s) \in ToSet(s)
    BY <2>1, <2>4 DEF ToSet
  <2> QED BY <2>3, <2>5
<1>4. s = <<>> => ToSet(s) = {}
  BY DEF ToSet
<1> QED BY <1>1, <1>2, <1>3, <1>4

\* A sequence has at most as many elements as its length.
LEMMA ElementsBounded ==
  ASSUME NEW Elem, NEW s \in Seq(Elem)
  PROVE  IsFiniteSet(ToSet(s)) /\ Cardinality(ToSet(s)) <= Len(s)
<1>1. Len(s) \in Nat /\ s \in [1..Len(s) -> Elem] /\ DOMAIN s = 1..Len(s)
  OBVIOUS
<1>2. IsFiniteSet(1..Len(s)) /\ Cardinality(1..Len(s)) = Len(s)
  BY SMTT(60), <1>1, FS_Interval
<1>3. s \in Surjection(1..Len(s), ToSet(s))
  BY <1>1 DEF ToSet, Surjection
<1> QED BY <1>2, <1>3, FS_Surjection
-----------------------------------------------------------------------------
\* recv: one record leaves the queue, for the buffer or counted as dropped.
LEMMA TakeEffect ==
  ASSUME queue \in Seq(Event), buffer \in Seq(Event), queue # <<>>, depth \in Nat, Take
  PROVE  /\ queue' \in Seq(Event) /\ Len(queue') = Len(queue) - 1
         /\ buffer' \in Seq(Event) /\ (Len(buffer') = Len(buffer) \/ Len(buffer') = Len(buffer) + 1)
         /\ depth' \in Nat /\ depth' <= depth /\ depth - 1 <= depth'
         /\ dropped \subseteq dropped' /\ dropped' \subseteq dropped \cup Event
         /\ ToSet(queue) \cup ToSet(buffer) \cup dropped
              \subseteq ToSet(queue') \cup ToSet(buffer') \cup dropped'
<1>1. Head(queue) \in Event /\ queue' = Tail(queue)
  BY DEF Take
<1>2. queue' \in Seq(Event) /\ Len(queue') = Len(queue) - 1
  BY <1>1
<1>3. depth' \in Nat /\ depth' <= depth /\ depth - 1 <= depth'
  BY DEF Take
<1>4. ToSet(queue) = ToSet(queue') \cup {Head(queue)}
  BY <1>1, Elements
<1>5. CASE dropped' = dropped \cup {Head(queue)} /\ UNCHANGED buffer
  BY <1>1, <1>2, <1>3, <1>4, <1>5
<1>6. CASE buffer' = Append(buffer, Head(queue)) /\ UNCHANGED dropped
  <2>1. buffer' \in Seq(Event) /\ Len(buffer') = Len(buffer) + 1
    BY <1>1, <1>6
  <2>2. ToSet(buffer') = ToSet(buffer) \cup {Head(queue)}
    BY <1>1, <1>6, Elements
  <2> QED BY <1>2, <1>3, <1>4, <1>6, <2>1, <2>2
<1> QED BY <1>5, <1>6 DEF Take

\* The type of the state but for the depth counter, which needs counting.
LEMMA TypeStep ==
  ASSUME Bounds, TypeOK, Shape, [Next]_vars, depth' \in 0..Cardinality(Event)
  PROVE  TypeOK' /\ Shape'
<1> USE DEF Bounds
<1>0. /\ pc \in [Event -> Submissions]
      /\ queue \in Seq(Event) /\ Len(queue) <= Capacity
      /\ depth \in 0..Cardinality(Event) /\ closed \in BOOLEAN /\ cancelled \in BOOLEAN
      /\ task \in Tasks
      /\ buffer \in Seq(Event) /\ Len(buffer) <= BatchSize + 1
      /\ batch \in Seq(Event) /\ Len(batch) <= BatchSize + 1
      /\ attempt \in 0..MaxRetries
      /\ deadline \in Nat /\ now \in 0..MaxTime /\ until \in Nat
      /\ delivered \cup dropped \cup offered \subseteq Event
      /\ residual \in Nat \cup {Unknown} /\ report \in Nat \cup {Unknown}
      /\ ToSet(batch) \subseteq Event
  BY Elements DEF TypeOK
<1>s. /\ task \in Idle => batch = <<>>
      /\ task \in Sends \cup Delays => buffer = batch
      /\ task \in Delays => attempt < MaxRetries
      /\ task \in {"loop", "request", "delay", "drain"} => Len(buffer) <= BatchSize
      /\ task = "loop" /\ ~cancelled => Len(buffer) < BatchSize
  BY DEF Shape
<1>t. <<>> \in Seq(Event) /\ Len(<<>>) = 0 /\ MaxTime \in Nat
  BY DEF MaxTime
<1> USE DEF Idle, Sends, Delays, Tasks
<1>1. CASE UNCHANGED vars
  BY <1>0, <1>s, <1>1 DEF TypeOK, Shape, vars, shared, history
<1>2. ASSUME NEW e \in Event, Check(e) \/ TrySend(e) \/ Count(e) PROVE TypeOK' /\ Shape'
  <2>1. pc' \in [Event -> Submissions]
    BY <1>0, <1>2 DEF Check, TrySend, Count, Submissions
  <2>2. queue' \in Seq(Event) /\ Len(queue') <= Capacity
    <3>1. CASE Check(e) \/ Count(e)
      BY <1>0, <3>1 DEF Check, Count, shared
    <3>2. CASE TrySend(e)
      <4>1. queue' = queue \/ (Len(queue) < Capacity /\ queue' = Append(queue, e))
        <5>1. CASE task = "done" \/ Len(queue) >= Capacity
          BY <3>2, <5>1 DEF TrySend
        <5>2. CASE ~(task = "done" \/ Len(queue) >= Capacity)
          <6>1. Len(queue) < Capacity
            BY <1>0, <5>2
          <6> QED BY <3>2, <5>2, <6>1 DEF TrySend
        <5> QED BY <5>1, <5>2
      <4>2. Append(queue, e) \in Seq(Event) /\ Len(Append(queue, e)) = Len(queue) + 1
        BY <1>0
      <4>3. Len(queue) < Capacity => Len(queue) + 1 <= Capacity
        BY <1>0
      <4> QED BY <1>0, <4>1, <4>2, <4>3
    <3> QED BY <1>2, <3>1, <3>2
  <2>3. UNCHANGED <<closed, cancelled, task, buffer, batch, attempt, deadline, history, residual,
                    report, now, until>>
    BY <1>2 DEF Check, TrySend, Count, shared
  <2> QED BY <1>0, <1>s, <2>1, <2>2, <2>3 DEF TypeOK, Shape, history
<1>3. CASE Receive \/ DrainReceive
  <2>0. task \in {"loop", "drain"} /\ (task = "loop" => ~cancelled)
        /\ task' \in {task, "request", "last_request"}
    BY <1>3 DEF Receive, DrainReceive, Flush
  <2>1. queue # <<>> /\ Take
    BY <1>3 DEF Receive, DrainReceive
  <2>2. /\ queue' \in Seq(Event) /\ Len(queue') <= Capacity
        /\ buffer' \in Seq(Event) /\ Len(buffer') <= BatchSize + 1
        /\ (task = "loop" => Len(buffer') <= BatchSize) /\ dropped' \subseteq Event
    BY SMTT(60), <1>0, <1>s, <2>0, <2>1, TakeEffect
  <2>3. UNCHANGED <<pc, closed, cancelled, deadline, delivered, residual, report, now>>
    BY <1>3 DEF Receive, DrainReceive
  <2>4. CASE Len(buffer') >= BatchSize
    <3>1. batch' = buffer' /\ attempt' = 0 /\ until' = now + Timeout
          /\ task' = IF task = "loop" THEN "request" ELSE "last_request"
      BY <1>3, <2>4 DEF Receive, DrainReceive, Flush
    <3>2. offered' \subseteq Event
      BY <1>0, <1>3, <2>2, <3>1, Elements DEF Receive, DrainReceive
    <3>3. TypeOK'
      BY <1>0, <1>t, <2>0, <2>2, <2>3, <3>1, <3>2 DEF TypeOK
    <3>4. Shape'
      BY <2>0, <2>2, <3>1 DEF Shape
    <3> QED BY <3>3, <3>4
  <2>5. CASE ~(Len(buffer') >= BatchSize)
    <3>1. UNCHANGED <<batch, task, attempt, until, offered>>
      BY <1>3, <2>5 DEF Receive, DrainReceive
    <3>2. Len(buffer') < BatchSize
      BY <2>2, <2>5
    <3>3. TypeOK'
      BY <1>0, <2>2, <2>3, <3>1 DEF TypeOK
    <3>4. Shape'
      BY <1>s, <2>0, <2>2, <3>1, <3>2 DEF Shape
    <3> QED BY <3>3, <3>4
  <2> QED BY <2>4, <2>5
<1>4. CASE FlushTick \/ FinalFlush
  <2>1. /\ UNCHANGED <<pc, shared, buffer, deadline, delivered, dropped, residual, report, now>>
        /\ \/ /\ task' = "account" /\ task = "drain" /\ UNCHANGED <<batch, attempt, until, offered>>
           \/ /\ (task = "loop" /\ task' = "request") \/ (task = "drain" /\ task' = "final_request")
              /\ batch' = buffer' /\ attempt' = 0 /\ until' = now + Timeout
              /\ offered' \in {offered, offered \cup ToSet(batch')}
    <3>1. CASE FlushTick
      BY <3>1 DEF FlushTick, Flush, history
    <3>2. CASE FinalFlush
      BY <3>2 DEF FinalFlush, Flush
    <3> QED BY <1>4, <3>1, <3>2
  <2>2. ToSet(buffer) \subseteq Event
    BY <1>0, Elements
  <2>3. TypeOK'
    BY <1>0, <1>t, <2>1, <2>2 DEF TypeOK, shared
  <2>4. Shape'
    BY <1>s, <2>1 DEF Shape, shared
  <2> QED BY <2>3, <2>4
<1>5. CASE Accepted \/ Permanent \/ \E got \in BOOLEAN : Retryable(got) /\ Settled("loop") /\ task = "request"
  <2>1. /\ batch' = <<>> /\ buffer' = <<>> /\ attempt' = 0 /\ until' = 0
        /\ task' \in {"loop", "drain", "account"}
        /\ UNCHANGED <<pc, shared, deadline, offered, residual, report, now>>
        /\ delivered' \subseteq delivered \cup ToSet(batch) /\ dropped' \subseteq dropped \cup ToSet(batch)
    <3>1. CASE Accepted \/ Permanent
      BY <3>1 DEF Accepted, Permanent, Settled, Sending, After
    <3>2. CASE \E got \in BOOLEAN : Retryable(got) /\ Settled("loop") /\ task = "request"
      BY <3>2 DEF Retryable, Settled, Retained, Delay
    <3> QED BY <1>5, <3>1, <3>2
  <2>2. TypeOK'
    BY <1>0, <1>t, <2>1 DEF TypeOK, shared
  <2>3. Shape'
    BY <1>t, <2>1 DEF Shape
  <2> QED BY <2>2, <2>3
<1>6. ASSUME NEW got \in BOOLEAN, Retryable(got), ~(Settled("loop") /\ task = "request")
      PROVE TypeOK' /\ Shape'
  <2>1. /\ UNCHANGED <<pc, shared, deadline, offered, residual, report, now>>
        /\ delivered' \subseteq delivered \cup ToSet(batch)
    BY <1>6 DEF Retryable
  <2>2. CASE attempt < MaxRetries /\ (task # "request" => deadline > now + Wait)
    <3>1. /\ task \in Sends /\ task' = Delay[task] /\ until' = now + Wait
          /\ UNCHANGED <<batch, buffer, attempt, dropped>>
      BY <1>6, <2>2 DEF Retryable, Sending
    <3>2. task' \in Delays /\ (task' = "delay" => task = "request")
      BY <3>1 DEF Delay
    <3>3. TypeOK'
      BY <1>0, <1>t, <2>1, <3>1, <3>2 DEF TypeOK, shared
    <3>4. Shape'
      BY <1>s, <2>1, <2>2, <3>1, <3>2 DEF Shape
    <3> QED BY <3>3, <3>4
  <2>3. CASE ~(attempt < MaxRetries /\ (task # "request" => deadline > now + Wait))
    <3>1. Retained("account") /\ UNCHANGED dropped
      BY <1>6, <2>3 DEF Retryable
    <3>2. TypeOK'
      BY <1>0, <1>t, <2>1, <3>1 DEF TypeOK, Retained, shared
    <3>3. Shape'
      BY <3>1 DEF Shape, Retained
    <3> QED BY <3>2, <3>3
  <2> QED BY <2>2, <2>3
<1>7. CASE Retry
  <2>1. /\ \/ task = "delay" /\ task' = "request"
           \/ task = "last_delay" /\ task' = "last_request"
           \/ task = "final_delay" /\ task' = "final_request"
        /\ attempt' = attempt + 1 /\ until' = now + Timeout
        /\ UNCHANGED <<pc, shared, buffer, batch, deadline, history, residual, report, now>>
    BY <1>7 DEF Retry, Delay
  <2>2. attempt' \in 0..MaxRetries
    BY <1>0, <1>s, <2>1
  <2>3. TypeOK'
    BY <1>0, <1>t, <2>1, <2>2 DEF TypeOK, shared, history
  <2>4. Shape'
    BY <1>s, <2>1 DEF Shape
  <2> QED BY <2>3, <2>4
<1>8. CASE Interrupt
  <2>1. TypeOK'
    BY <1>0, <1>t, <1>8 DEF TypeOK, Interrupt, Retained, shared, history
  <2>2. Shape'
    BY <1>s, <1>8 DEF Shape, Interrupt, Retained, shared
  <2> QED BY <2>1, <2>2
<1>9. CASE BeginDrain \/ Account
  <2>1. deadline' \in Nat /\ residual' \in Nat \cup {Unknown} /\ task' \in Idle
    BY SMTT(60), <1>0, <1>9 DEF BeginDrain, Account
  <2>2. TypeOK'
    BY <1>0, <1>9, <2>1 DEF TypeOK, BeginDrain, Account, shared, history
  <2>3. Shape'
    BY <1>s, <1>9 DEF Shape, BeginDrain, Account
  <2> QED BY <2>2, <2>3
<1>10. CASE Close \/ Cancel \/ Return \/ Tick
  <2>1. /\ closed' \in BOOLEAN /\ cancelled' \in BOOLEAN /\ (cancelled => cancelled')
        /\ until' \in Nat /\ now' \in 0..MaxTime /\ report' \in Nat \cup {Unknown}
    <3>1. CASE Close
      <4>1. until' \in {now + Timeout, now + Wait, until} /\ closed' = TRUE
            /\ UNCHANGED <<cancelled, now, report>>
        BY <3>1 DEF Close
      <4> QED BY <1>0, <1>t, <4>1
    <3>2. CASE Cancel
      BY <1>0, <3>2 DEF Cancel
    <3>3. CASE Return
      BY <1>0, <3>3 DEF Return, shared
    <3>4. CASE Tick
      BY <1>0, <1>t, <3>4 DEF Tick, shared
    <3> QED BY <1>10, <3>1, <3>2, <3>3, <3>4
  <2>2. UNCHANGED <<pc, queue, task, buffer, batch, attempt, deadline, history, residual>>
    BY <1>10 DEF Close, Cancel, Return, Tick, shared
  <2>3. TypeOK'
    BY <1>0, <2>1, <2>2 DEF TypeOK, history
  <2>4. Shape'
    BY <1>s, <2>1, <2>2 DEF Shape
  <2> QED BY <2>3, <2>4
<1> QED BY <1>1, <1>2, <1>3, <1>4, <1>5, <1>6, <1>7, <1>8, <1>9, <1>10 DEF Next, Produce, Work, Answer
-----------------------------------------------------------------------------
LEMMA OffersStep ==
  ASSUME Bounds, TypeOK, Shape, Offers, [Next]_vars
  PROVE  Offers'
<1>0. buffer \in Seq(Event) /\ batch \in Seq(Event) /\ ToSet(<<>>) = {}
  BY DEF TypeOK, ToSet
<1>o. /\ task \in Final => ToSet(batch) \subseteq offered
      /\ task \in {"account", "done"} => ToSet(buffer) \subseteq offered
  BY DEF Offers
<1> USE DEF Final
<1>1. CASE Produce \/ Close \/ Cancel \/ Return \/ Tick \/ UNCHANGED vars
  <2>1. UNCHANGED <<task, buffer, batch, offered>>
    BY <1>1 DEF Produce, Check, TrySend, Count, Close, Cancel, Return, Tick, vars, shared, history
  <2> QED BY <1>o, <2>1 DEF Offers
<1>2. CASE Receive \/ FlushTick \/ BeginDrain \/ Interrupt
  <2>1. task' \in {"loop", "request", "drain"}
    BY <1>2 DEF Receive, FlushTick, BeginDrain, Interrupt, Flush, Retained
  <2> QED BY <2>1 DEF Offers
<1>3. CASE DrainReceive
  <2>1. CASE Len(buffer') >= BatchSize
    BY <1>3, <2>1 DEF DrainReceive, Flush, Offers
  <2>2. CASE ~(Len(buffer') >= BatchSize)
    BY <1>3, <2>2 DEF DrainReceive, Offers
  <2> QED BY <2>1, <2>2
<1>4. CASE FinalFlush
  <2>1. CASE buffer = <<>>
    BY <1>0, <1>4, <2>1 DEF FinalFlush, Offers
  <2>2. CASE buffer # <<>>
    BY <1>4, <2>2 DEF FinalFlush, Flush, Offers
  <2> QED BY <2>1, <2>2
<1>5. CASE Accepted \/ Permanent
  <2>1. buffer' = <<>> /\ task' \in {"loop", "drain", "account"}
    BY <1>5 DEF Accepted, Permanent, Settled, Sending, Sends, After
  <2> QED BY <1>0, <2>1 DEF Offers
<1>6. ASSUME NEW got \in BOOLEAN, Retryable(got) PROVE Offers'
  <2>0. offered' = offered /\ task \in Sends
    BY <1>6 DEF Retryable, Sending
  <2>1. CASE attempt < MaxRetries /\ (task # "request" => deadline > now + Wait)
    <3>1. task' = Delay[task] /\ UNCHANGED batch
      BY <1>6, <2>1 DEF Retryable
    <3> QED BY <1>o, <2>0, <3>1 DEF Offers, Delay, Sends
  <2>2. CASE ~(attempt < MaxRetries /\ (task # "request" => deadline > now + Wait)) /\ task = "request"
    <3>1. task' = "loop"
      BY <1>6, <2>2 DEF Retryable, Settled
    <3> QED BY <3>1 DEF Offers
  <2>3. CASE ~(attempt < MaxRetries /\ (task # "request" => deadline > now + Wait)) /\ task # "request"
    <3>1. task' = "account" /\ buffer' = batch /\ task \in Final
      BY <1>6, <2>0, <2>3 DEF Retryable, Retained, Sends
    <3> QED BY <1>o, <2>0, <3>1 DEF Offers
  <2> QED BY <2>1, <2>2, <2>3
<1>7. CASE Retry
  BY <1>o, <1>7 DEF Retry, Delay, Sends, history, Offers
<1>8. CASE Account
  BY <1>o, <1>8 DEF Account, history, Offers
<1> QED BY <1>1, <1>2, <1>3, <1>4, <1>5, <1>6, <1>7, <1>8 DEF Next, Work, Answer

LEMMA KeptStep ==
  ASSUME Bounds, TypeOK, Shape, Kept, [Next]_vars
  PROVE  Kept'
<1>0. /\ queue \in Seq(Event) /\ buffer \in Seq(Event) /\ batch \in Seq(Event) /\ ToSet(<<>>) = {}
      /\ depth \in Nat
  BY DEF TypeOK, ToSet
<1>s. /\ task \in Idle => batch = <<>>
      /\ task \in Sends \cup Delays => buffer = batch
  BY DEF Shape
<1>1. CASE Produce
  <2>1. PICK e \in Event : Check(e) \/ TrySend(e) \/ Count(e)
    BY <1>1 DEF Produce
  <2>2. UNCHANGED <<buffer, batch, delivered, dropped>>
    BY <2>1 DEF Check, TrySend, Count, shared, history
  <2>3. CASE TrySend(e)
    <3>1. CASE task = "done" \/ Len(queue) >= Capacity
      <4>1. Sent' = Sent /\ Admitted' = Admitted /\ queue' = queue
        BY <2>3, <3>1 DEF TrySend, TypeOK, Sent, Admitted
      <4> QED BY <2>2, <4>1 DEF Kept, Held
    <3>2. CASE ~(task = "done" \/ Len(queue) >= Capacity)
      <4>1. queue' = Append(queue, e) /\ Sent' \subseteq Sent \cup {e} /\ Admitted' = Admitted
        BY <2>3, <3>2 DEF TrySend, TypeOK, Sent, Admitted
      <4>2. ToSet(queue') = ToSet(queue) \cup {e}
        BY <1>0, <4>1, Elements
      <4> QED BY <2>2, <4>1, <4>2 DEF Kept, Held
    <3> QED BY <3>1, <3>2
  <2>4. CASE Check(e) \/ Count(e)
    <3>1. Sent' \cup Admitted' \subseteq Sent \cup Admitted /\ queue' = queue
      BY <2>4 DEF Check, Count, TypeOK, Sent, Admitted, shared
    <3> QED BY <2>2, <3>1 DEF Kept, Held
  <2> QED BY <2>1, <2>3, <2>4
<1>2. CASE Receive \/ DrainReceive
  <2>1. ToSet(queue) \cup ToSet(buffer) \cup dropped \subseteq ToSet(queue') \cup ToSet(buffer') \cup dropped'
    BY <1>0, <1>2, TakeEffect DEF Receive, DrainReceive
  <2>2. task \in Idle /\ pc' = pc /\ delivered' = delivered
    BY <1>2 DEF Receive, DrainReceive, Idle
  <2> QED BY <1>0, <1>s, <2>1, <2>2 DEF Kept, Held, Sent, Admitted
<1>3. CASE FlushTick \/ FinalFlush
  <2>1. task \in Idle /\ UNCHANGED <<pc, queue, buffer, delivered, dropped>>
    BY <1>3 DEF FlushTick, FinalFlush, shared, history, Idle
  <2> QED BY <1>0, <1>s, <2>1 DEF Kept, Held, Sent, Admitted
<1>4. CASE Accepted \/ Permanent
  <2>1. /\ task \in Sends /\ UNCHANGED <<pc, queue>>
        /\ delivered' \cup dropped' = delivered \cup dropped \cup ToSet(batch)
    BY <1>4 DEF Accepted, Permanent, shared, Sending
  <2> QED BY <1>0, <1>s, <2>1 DEF Kept, Held, Sent, Admitted
<1>5. ASSUME NEW got \in BOOLEAN, Retryable(got) PROVE Kept'
  <2>1. task \in Sends /\ UNCHANGED <<pc, queue>> /\ delivered \subseteq delivered'
    BY <1>5 DEF Retryable, shared, Sending
  <2>2. \/ UNCHANGED <<batch, buffer, dropped>>
        \/ dropped' = dropped \cup ToSet(batch)
        \/ buffer' = batch /\ UNCHANGED dropped
    BY <1>5 DEF Retryable, Settled, Retained
  <2> QED BY <1>0, <1>s, <2>1, <2>2 DEF Kept, Held, Sent, Admitted
<1>6. CASE Interrupt
  BY <1>0, <1>s, <1>6 DEF Interrupt, Retained, shared, history, Delays, Kept, Held, Sent, Admitted
<1>7. CASE Retry \/ BeginDrain \/ Account \/ Close \/ Cancel \/ Return \/ Tick \/ UNCHANGED vars
  <2>1. UNCHANGED <<pc, queue, buffer, batch, delivered, dropped>>
    BY <1>7 DEF Retry, BeginDrain, Account, Close, Cancel, Return, Tick, vars, shared, history
  <2> QED BY <2>1 DEF Kept, Held, Sent, Admitted
<1> QED BY <1>1, <1>2, <1>3, <1>4, <1>5, <1>6, <1>7 DEF Next, Work, Answer

LEMMA CountsStep ==
  ASSUME Bounds, TypeOK, Counts, [Next]_vars
  PROVE  Counts' /\ depth' \in 0..Cardinality(Event)
<1>0. /\ pc \in [Event -> Submissions] /\ queue \in Seq(Event) /\ buffer \in Seq(Event)
      /\ depth \in Nat /\ IsFiniteSet(Event)
  BY FS_CardinalityType DEF TypeOK, Bounds
<1>f. /\ IsFiniteSet(Sent) /\ Cardinality(Sent) \in Nat
      /\ IsFiniteSet(Admitted) /\ Cardinality(Admitted) \in Nat
  <2>1. Sent \in SUBSET Event /\ Admitted \in SUBSET Event
    BY DEF Sent, Admitted
  <2> QED BY <1>0, <2>1, FS_Subset, FS_CardinalityType
<1>c. depth <= Cardinality(Admitted) /\ Len(queue) <= depth + Cardinality(Sent)
  BY DEF Counts
<1>1. SUFFICES Counts' /\ depth' \in Nat
  <2>1. Admitted' \in SUBSET Event /\ Cardinality(Event) \in Nat
    BY <1>0, FS_CardinalityType DEF Admitted
  <2>2. Cardinality(Admitted') <= Cardinality(Event) /\ Cardinality(Admitted') \in Nat
    BY <1>0, <2>1, FS_Subset, FS_CardinalityType
  <2> QED BY <2>1, <2>2 DEF Counts
<1>2. CASE Produce
  <2>1. PICK e \in Event : Check(e) \/ TrySend(e) \/ Count(e)
    BY <1>2 DEF Produce
  <2>2. CASE Check(e)
    <3>1. Sent' = Sent /\ Admitted' = Admitted
      BY <1>0, <2>2 DEF Check, Sent, Admitted
    <3>2. UNCHANGED <<queue, depth>>
      BY <2>2 DEF Check, shared
    <3> QED BY <1>0, <1>c, <3>1, <3>2 DEF Counts
  <2>3. CASE TrySend(e)
    <3>1. CASE task = "done" \/ Len(queue) >= Capacity
      <4>1. Sent' = Sent /\ Admitted' = Admitted /\ UNCHANGED <<queue, depth>>
        BY <1>0, <2>3, <3>1 DEF TrySend, Sent, Admitted
      <4> QED BY <1>0, <1>c, <4>1 DEF Counts
    <3>2. CASE ~(task = "done" \/ Len(queue) >= Capacity)
      <4>1. queue' = Append(queue, e) /\ Sent' = Sent \cup {e} /\ e \notin Sent /\ Admitted' = Admitted
            /\ depth' = depth
        BY <1>0, <2>3, <3>2 DEF TrySend, Sent, Admitted
      <4>2. Cardinality(Sent') = Cardinality(Sent) + 1
        BY <1>f, <4>1, FS_AddElement
      <4>3. Len(queue') = Len(queue) + 1 /\ Len(queue) \in Nat
        BY <1>0, <4>1
      <4> QED BY <1>0, <1>c, <1>f, <4>1, <4>2, <4>3 DEF Counts
    <3> QED BY <3>1, <3>2
  <2>4. CASE Count(e)
    <3>1. /\ Sent' = Sent \ {e} /\ e \in Sent /\ Admitted' = Admitted \cup {e} /\ e \notin Admitted
          /\ queue' = queue /\ depth' = depth + 1
      BY <1>0, <2>4 DEF Count, Sent, Admitted
    <3>2. Cardinality(Sent') = Cardinality(Sent) - 1 /\ Cardinality(Admitted') = Cardinality(Admitted) + 1
      BY <1>f, <3>1, FS_AddElement, FS_RemoveElement
    <3>3. Len(queue) \in Nat
      BY <1>0
    <3> QED BY <1>0, <1>c, <1>f, <3>1, <3>2, <3>3 DEF Counts
  <2> QED BY <2>1, <2>2, <2>3, <2>4
<1>3. CASE Receive \/ DrainReceive
  <2>1. /\ Len(queue') = Len(queue) - 1 /\ depth' \in Nat /\ depth' <= depth /\ depth - 1 <= depth'
    BY <1>0, <1>3, TakeEffect DEF Receive, DrainReceive
  <2>2. pc' = pc /\ Len(queue) \in Nat
    BY <1>0, <1>3 DEF Receive, DrainReceive
  <2>3. Sent' = Sent /\ Admitted' = Admitted
    BY <2>2 DEF Sent, Admitted
  <2> QED BY <1>0, <1>c, <1>f, <2>1, <2>2, <2>3 DEF Counts
<1>4. CASE \/ FlushTick \/ FinalFlush \/ Answer \/ Retry \/ Interrupt \/ BeginDrain \/ Account
           \/ Close \/ Cancel \/ Return \/ Tick \/ UNCHANGED vars
  <2>1. UNCHANGED <<pc, queue, depth>>
    BY <1>4 DEF FlushTick, FinalFlush, Answer, Accepted, Permanent, Retryable, Retry, Interrupt,
      BeginDrain, Account, Close, Cancel, Return, Tick, vars, shared
  <2>2. Sent' = Sent /\ Admitted' = Admitted
    BY <2>1 DEF Sent, Admitted
  <2> QED BY <1>0, <1>c, <2>1, <2>2 DEF Counts
<1> QED BY <1>2, <1>3, <1>4 DEF Next, Work
-----------------------------------------------------------------------------
LEMMA WorkerInit == ASSUME Bounds, Init PROVE IInv
<1>1. /\ Cardinality(Event) \in Nat /\ <<>> \in Seq(Event) /\ Len(<<>>) = 0 /\ MaxTime \in Nat
      /\ Never \in Nat
  BY FS_CardinalityType DEF Bounds, MaxTime, Never
<1>2. Sent = {} /\ Admitted = {}
  BY DEF Init, Sent, Admitted
<1>3. TypeOK
  <2>1. /\ pc \in [Event -> Submissions] /\ queue \in Seq(Event) /\ Len(queue) <= Capacity
        /\ buffer \in Seq(Event) /\ Len(buffer) <= BatchSize + 1
        /\ batch \in Seq(Event) /\ Len(batch) <= BatchSize + 1
    BY <1>1 DEF Init, Bounds, Submissions
  <2>2. /\ depth \in 0..Cardinality(Event) /\ attempt \in 0..MaxRetries /\ deadline \in Nat
        /\ now \in 0..MaxTime /\ until \in Nat
    BY <1>1 DEF Init, Bounds
  <2>3. /\ closed \in BOOLEAN /\ cancelled \in BOOLEAN /\ task \in Tasks
        /\ delivered \cup dropped \cup offered \subseteq Event
        /\ residual \in Nat \cup {Unknown} /\ report \in Nat \cup {Unknown}
    BY DEF Init, Tasks
  <2> QED BY <2>1, <2>2, <2>3 DEF TypeOK
<1>4. Shape
  BY <1>1 DEF Init, Shape, Bounds, Sends, Delays
<1>5. Offers /\ Kept
  BY <1>2 DEF Init, Offers, Kept, Final
<1>6. Counts
  BY <1>1, <1>2, FS_EmptySet DEF Init, Counts
<1> QED BY <1>3, <1>4, <1>5, <1>6 DEF IInv

LEMMA WorkerStep == ASSUME Bounds, IInv, [Next]_vars PROVE IInv'
<1>1. TypeOK /\ Shape /\ Offers /\ Kept /\ Counts
  BY DEF IInv
<1>2. Counts' /\ depth' \in 0..Cardinality(Event)
  BY <1>1, CountsStep
<1>3. TypeOK' /\ Shape'
  BY <1>1, <1>2, TypeStep
<1>4. Offers' /\ Kept'
  BY <1>1, OffersStep, KeptStep
<1> QED BY <1>2, <1>3, <1>4 DEF IInv

LEMMA StopStep ==
  ASSUME Bounds, IInv, [Next]_vars
  PROVE  StopAccountsForAllStep
<1> SUFFICES ASSUME task' = "done", task # "done"
             PROVE  Cardinality(Unaccounted) <= residual' + Cardinality(Sent)
  BY DEF StopAccountsForAllStep, Sent
<1>1. CASE Account
  <2>1. task = "account" /\ residual' = Len(buffer) + depth
    BY <1>1 DEF Account
  <2>2. /\ queue \in Seq(Event) /\ buffer \in Seq(Event) /\ depth \in Nat /\ batch = <<>>
        /\ Len(queue) <= depth + Cardinality(Sent)
    BY <2>1 DEF IInv, TypeOK, Shape, Idle, Counts
  <2>3. Unaccounted \subseteq ToSet(queue) \cup ToSet(buffer)
    BY <2>2 DEF IInv, Kept, Held, Unaccounted, Admitted, ToSet
  <2>4. /\ IsFiniteSet(ToSet(queue)) /\ Cardinality(ToSet(queue)) <= Len(queue)
        /\ IsFiniteSet(ToSet(buffer)) /\ Cardinality(ToSet(buffer)) <= Len(buffer)
    BY <2>2, ElementsBounded
  <2>5. /\ IsFiniteSet(ToSet(queue) \cup ToSet(buffer))
        /\ Cardinality(ToSet(queue) \cup ToSet(buffer)) <= Len(queue) + Len(buffer)
    <3>1. IsFiniteSet(ToSet(queue) \cap ToSet(buffer))
      BY <2>4, FS_Intersection
    <3>2. Cardinality(ToSet(queue) \cap ToSet(buffer)) \in Nat
          /\ Cardinality(ToSet(queue)) \in Nat /\ Cardinality(ToSet(buffer)) \in Nat
      BY <2>4, <3>1, FS_CardinalityType
    <3>3. /\ IsFiniteSet(ToSet(queue) \cup ToSet(buffer))
          /\ Cardinality(ToSet(queue) \cup ToSet(buffer)) =
               Cardinality(ToSet(queue)) + Cardinality(ToSet(buffer))
                 - Cardinality(ToSet(queue) \cap ToSet(buffer))
      BY <2>4, FS_Union
    <3>4. Len(queue) \in Nat /\ Len(buffer) \in Nat
      BY <2>2
    <3> QED BY <2>4, <3>2, <3>3, <3>4
  <2>6. Cardinality(Unaccounted) <= Cardinality(ToSet(queue) \cup ToSet(buffer))
        /\ Cardinality(Unaccounted) \in Nat /\ Cardinality(ToSet(queue) \cup ToSet(buffer)) \in Nat
    BY <2>3, <2>5, FS_Subset, FS_CardinalityType
  <2>7. Cardinality(Sent) \in Nat
    <3>1. Sent \in SUBSET Event /\ IsFiniteSet(Event)
      BY DEF Sent, Bounds
    <3> QED BY <3>1, FS_Subset, FS_CardinalityType
  <2>8. Len(queue) \in Nat /\ Len(buffer) \in Nat
    BY <2>2
  <2> QED BY <2>1, <2>2, <2>5, <2>6, <2>7, <2>8
<1>2. CASE ~Account
  <2>1. task' = task \/ task' \in Sends \cup Delays \cup {"loop", "drain", "account"}
    <3>1. CASE Produce \/ Close \/ Cancel \/ Return \/ Tick \/ UNCHANGED vars
      BY <3>1 DEF Produce, Check, TrySend, Count, Close, Cancel, Return, Tick, vars
    <3>2. CASE Receive \/ DrainReceive
      BY <3>2 DEF Receive, DrainReceive, Flush, Sends
    <3>3. CASE FlushTick \/ FinalFlush
      BY <3>3 DEF FlushTick, FinalFlush, Flush, Sends
    <3>4. CASE Accepted \/ Permanent
      BY <3>4 DEF Accepted, Permanent, Settled, Sending, Sends, After
    <3>5. ASSUME NEW got \in BOOLEAN, Retryable(got) 
          PROVE  task' \in Sends \cup Delays \cup {"loop", "drain", "account"}
      <4>1. task \in Sends /\ (task' = Delay[task] \/ task' = "loop" \/ task' = "account")
        BY <3>5 DEF Retryable, Settled, Retained, Sending
      <4> QED BY <4>1 DEF Sends, Delays, Delay
    <3>6. CASE Retry \/ Interrupt \/ BeginDrain
      BY <3>6 DEF Retry, Interrupt, BeginDrain, Retained
    <3> QED BY <1>2, <3>1, <3>2, <3>3, <3>4, <3>5, <3>6 DEF Next, Work, Answer
  <2> QED BY <2>1 DEF Sends, Delays
<1> QED BY <1>1, <1>2
-----------------------------------------------------------------------------
\* Between the queue, the buffer and the batch no record is ever lost, and what the
\* worker still holds when it stops was offered to capture in the drain.
THEOREM WorkerIsSafe == ASSUME Bounds PROVE Spec => []WorkerSafe
<1>1. Init => IInv
  BY WorkerInit
<1>2. IInv /\ [Next]_vars => IInv'
  BY WorkerStep
<1>3. IInv => WorkerSafe
  BY DEF IInv, WorkerSafe, NothingForgotten, LastChanceGiven, Kept, Held, Sent, Admitted, Offers
<1> QED BY <1>1, <1>2, <1>3, PTL DEF Spec

\* AUD-06: the residual the worker counts when it stops covers every admitted record
\* whose fate is unknown, but for submissions that have not counted themselves yet.
THEOREM ResidualCoversAll == ASSUME Bounds PROVE Spec => StopAccountsForAll
<1>1. Init => IInv
  BY WorkerInit
<1>2. IInv /\ [Next]_vars => IInv'
  BY WorkerStep
<1>3. IInv /\ [Next]_vars => [StopAccountsForAllStep]_vars
  BY StopStep
<1> QED BY <1>1, <1>2, <1>3, PTL DEF Spec, StopAccountsForAll

-----------------------------------------------------------------------------
(* The schedules                                                            *)

Instant == 0..MaxClock

\* The calls of an effect: those that repair and tell, and those of a dispatch.
Repairs ==
  {S!Add(l) : l \in S!LabelNames} \cup {S!Remove(l) : l \in S!LabelNames}
    \cup {S!Call("say", "invalid", 0, "none", 0)}
    \cup {S!Post(s, st, t) : s \in Instant, st \in S!Terminal, t \in Instant}
Create(s) == S!Call("create", "run", s, "none", 0)
Mark(s) == S!Call("label", "run", s, "none", 0)
Dispatched(s, t) == S!Post(s, "dispatched", t)
ScheduleCalls ==
  Repairs \cup {Create(s) : s \in Instant} \cup {Mark(s) : s \in Instant}
    \cup {Dispatched(s, t) : s \in Instant, t \in Instant}

ScheduleShape ==
  /\ sNow \in Instant /\ labels \subseteq S!LabelNames
  /\ records \subseteq [slot : Instant, status : S!Terminal \cup {"dispatched"},
                        started : Instant, manual : BOOLEAN]
  /\ \A r \in runs : r.slot \in Instant /\ r.manual \in BOOLEAN
  /\ valid \in BOOLEAN /\ asked \in 0..MaxManual /\ sFaults \in 0..MaxScheduleFaults
  /\ sCalls \in Seq(ScheduleCalls) /\ manual \in Seq(ScheduleCalls)

\* The runs that the clock can know of.
ClockRuns == S!Known
HasEnded(s) == \E e \in records : e.slot = s /\ e.status \in S!Terminal
HasRecord(s) == \E e \in records : e.slot = s /\ e.status = "dispatched"

\* A slot that may be dispatched: later than every run of the clock, and all of
\* them have ended.
Fresh(s) == \A q \in ClockRuns : q.slot < s /\ HasEnded(q.slot)

\* What a sweep has still to do: repairs; a dispatch whose run issue is not yet
\* labelled; or the record of one that is, which may still be lost.
Planned(cs, s, t) ==
  cs \in {<<S!Remove("invalid"), Create(s), Mark(s), Dispatched(s, t), S!Add("running")>>,
          <<Create(s), Mark(s), Dispatched(s, t), S!Add("running")>>,
          <<Mark(s), Dispatched(s, t), S!Add("running")>>}
Started(cs, s, t) == cs = <<Dispatched(s, t), S!Add("running")>>
SweepPlan ==
  \/ sCalls \in Seq(Repairs)
  \/ \E s, t \in Instant : Planned(sCalls, s, t) /\ Fresh(s)
  \/ \E s, t \in Instant : Started(sCalls, s, t)

\* A run of the clock has its dispatch record, but for the one just started.
RunsRecorded ==
  \A q \in ClockRuns : HasRecord(q.slot) \/ \E t \in Instant : Started(sCalls, q.slot, t)

ScheduleInv ==
  ScheduleShape /\ SweepPlan /\ RunsRecorded /\ S!SlotRunsOnce /\ S!NoOverlap

\* A set of instants has a latest one.
LEMMA MaxIsLatest ==
  ASSUME NEW M \in SUBSET Instant, M # {}
  PROVE  /\ S!Max(M) \in M /\ \A x \in M : x <= S!Max(M)
<1> DEFINE Below == {ss \in Nat \X Nat : ss[1] < ss[2]}
           D == {MaxClock - x : x \in M}
<1>0. IsWellFoundedOn(Below, Nat)
  BY NatLessThanWellFounded DEF OpToRel
<1>a. \A x \in M : x \in Nat /\ x <= MaxClock
  BY ScheduleAssumption DEF Instant
<1>1. D \subseteq Nat /\ D # {}
  BY <1>a, ScheduleAssumption
<1>2. PICK x \in D : \A y \in D : ~(<<y, x>> \in Below)
  <2> HIDE DEF Below, D
  <2> QED BY <1>0, <1>1, WFMin
<1>3. \A a, b \in Nat : a < b => <<a, b>> \in Below
  OBVIOUS
<1> HIDE DEF Below, D
<1>b. \A y \in D : x \in Nat /\ y \in Nat /\ ~(y < x)
  BY <1>1, <1>2, <1>3
<1>4. \A y \in D : x <= y
  BY <1>b
<1> USE DEF D
<1>5. PICK z \in M : x = MaxClock - z
  OBVIOUS
<1>6. \A y \in M : y <= z
  BY <1>4, <1>5, ScheduleAssumption DEF Instant
<1> QED BY <1>6, ScheduleAssumption DEF S!Max, Instant

\* The due slot is at or before now and after every record.
LEMMA DueIsNew ==
  ASSUME ScheduleShape, NEW s \in S!DueSlot(records, sNow)
  PROVE  /\ s \in Instant /\ \A r \in records : r.slot < s
         /\ S!DueSlot(records, sNow) = {s}
<1> DEFINE Past == {x \in Slots : x <= sNow}
           At == {r.slot : r \in records}
           Floors == S!Cursor(records) \cup (IF records = {} THEN {Anchor} ELSE {})
<1>1. Past \in SUBSET Instant /\ At \in SUBSET Instant
  <2>1. sNow \in Nat /\ sNow <= MaxClock /\ \A x \in Slots : x \in Nat
    BY ScheduleAssumption DEF ScheduleShape, Instant
  <2>2. \A x \in Past : x \in Instant
    BY <2>1, ScheduleAssumption DEF Instant
  <2>3. \A r \in records : r.slot \in Instant
    BY DEF ScheduleShape
  <2> QED BY <2>2, <2>3
<1>2. /\ Past # {} /\ s = S!Max(Past) /\ s > S!Max(Floors)
      /\ S!DueSlot(records, sNow) = {s}
  BY DEF S!DueSlot
<1>3. s \in Instant
  BY <1>1, <1>2, MaxIsLatest
<1>4. ASSUME NEW r \in records PROVE r.slot < s
  <2>1. Floors = {S!Max(At)} /\ At # {} /\ r.slot \in At
    BY DEF S!Cursor
  <2>2. S!Max(At) \in At /\ r.slot <= S!Max(At)
    BY <1>1, <2>1, MaxIsLatest
  <2>3. S!Max(At) \in Instant /\ S!Max({S!Max(At)}) = S!Max(At)
    <3>1. S!Max(At) \in Instant /\ {S!Max(At)} \in SUBSET Instant /\ {S!Max(At)} # {}
      BY <1>1, <2>2
    <3> QED BY <3>1, MaxIsLatest
  <2>4. S!Max(Floors) = S!Max(At) /\ r.slot \in Instant
    BY <1>1, <2>1, <2>3
  <2>5. s > S!Max(At)
    BY <1>2, <2>4
  <2> QED BY <1>3, <2>2, <2>3, <2>4, <2>5, ScheduleAssumption DEF Instant
<1> QED BY <1>2, <1>3, <1>4

\* While a dispatch is open, Latest finds it.
LEMMA LatestIsOne ==
  ASSUME ScheduleShape, NEW R \in SUBSET records
  PROVE  S!Latest(R) \in R \cup {S!Blank} /\ (R # {} => S!Latest(R) \in R)
<1> SUFFICES ASSUME R # {} PROVE S!Latest(R) \in R
  BY DEF S!Latest
<1> DEFINE At == {r.slot : r \in R}
<1>1. At \in SUBSET Instant /\ At # {}
  BY DEF ScheduleShape
<1>2. PICK r \in R : r.slot = S!Max(At)
  BY <1>1, MaxIsLatest
<1>3. \A q \in R : q.slot <= r.slot
  BY <1>1, <1>2, MaxIsLatest
<1> QED BY <1>2, <1>3 DEF S!Latest

\* What the clock decides: a repair or a skip within the records' slots, or the
\* dispatch of a new slot when every recorded dispatch has ended.
Decided(e) ==
  \/ e.kind \in {"skip", "expire"} /\ e.slot \in Instant /\ e.started \in Instant
     /\ (e.kind = "skip" => e.status = "skipped_overlap")
  \/ e.kind = "complete" /\ e.status \in S!Terminal
  \/ e.kind \in {"release", "adopt", "nothing"}
  \/ \E s \in Instant : /\ e = S!Effect("dispatch", s, "none", sNow)
                        /\ \A r \in records : r.slot < s
                        /\ \A r \in records : r.status = "dispatched" => HasEnded(r.slot)

LEMMA DecideGives ==
  ASSUME ScheduleShape
  PROVE  Decided(S!Decide(labels, records, sNow))
<1> DEFINE open == S!OpenDispatch(records)
           due == S!DueSlot(records, sNow)
           last == S!LatestTerminal(records)
           Opened == {r \in records : r.status = "dispatched" /\ r.slot \notin S!Ended(records)}
           Closed == {r \in records : r.status \in S!Terminal}
           R == [slot : Instant, status : S!Terminal \cup {"dispatched"},
                 started : Instant, manual : BOOLEAN]
<1>0. records \subseteq R
  BY DEF ScheduleShape
<1>1. open \in Opened \cup {S!Blank} /\ (Opened # {} => open \in Opened)
  BY LatestIsOne, Opened \in SUBSET records DEF S!OpenDispatch
<1>2. last \in Closed \cup {S!Blank}
  BY LatestIsOne, Closed \in SUBSET records DEF S!LatestTerminal
<1>3. S!Blank.status = "none" /\ "none" \notin S!Terminal \cup {"dispatched"}
  BY DEF S!Blank, S!Terminal
<1>4. open # S!Blank => open.slot \in Instant /\ open.started \in Instant
  BY <1>0, <1>1
<1>5. last # S!Blank => last.status \in S!Terminal
  BY <1>2
<1>6. open = S!Blank => \A r \in records : r.status = "dispatched" => HasEnded(r.slot)
  <2>1. open = S!Blank => Opened = {}
    BY <1>1, <1>3
  <2> QED BY <2>1 DEF S!Ended, HasEnded
<1>7. due # {} => /\ S!Max(due) \in Instant /\ \A r \in records : r.slot < S!Max(due)
  <2> SUFFICES ASSUME due # {} PROVE  /\ S!Max(due) \in Instant
                             /\ \A r \in records : r.slot < S!Max(due)
    OBVIOUS
  <2>1. PICK s \in due : due = {s} /\ s \in Instant /\ \A r \in records : r.slot < s
    BY DueIsNew
  <2>2. S!Max(due) = s
    BY <2>1, MaxIsLatest
  <2> QED BY <2>1, <2>2
<1> DEFINE e == S!Decide(labels, records, sNow)
<1>8. sNow \in Instant
  BY DEF ScheduleShape
<1> HIDE DEF open, due, last, Opened, Closed, R, e
<1> SUFFICES Decided(e)
  BY DEF e
<1>9. CASE "running" \in labels /\ open # S!Blank
  <2>1. e = IF sNow - open.started >= MaxRuntime
            THEN S!Effect("expire", open.slot, "timeout", open.started)
            ELSE IF due = {} THEN S!Nothing
                 ELSE S!Effect("skip", S!Max(due), "skipped_overlap", sNow)
    BY <1>9 DEF S!Decide, open, due, e
  <2>2. \/ e.kind = "expire" /\ e.slot \in Instant /\ e.started \in Instant
        \/ e.kind = "nothing"
        \/ /\ e.kind = "skip" /\ e.slot \in Instant /\ e.started \in Instant
           /\ e.status = "skipped_overlap"
    BY <1>9, <2>1, <1>4, <1>7, <1>8 DEF S!Effect, S!Nothing
  <2> QED BY <2>2 DEF Decided
<1>10. CASE "running" \in labels /\ open = S!Blank
  <2>1. e = IF last = S!Blank THEN S!Effect("release", 0, "none", 0)
            ELSE S!Effect("complete", last.slot, last.status, 0)
    BY <1>10 DEF S!Decide, open, last, e
  <2>2. e.kind = "release" \/ (e.kind = "complete" /\ e.status \in S!Terminal)
    BY <2>1, <1>5 DEF S!Effect
  <2> QED BY <2>2 DEF Decided
<1>11. CASE "running" \notin labels /\ open # S!Blank
  <2>1. e = S!Effect("adopt", open.slot, "none", open.started)
    BY <1>11 DEF S!Decide, open, e
  <2>2. e.kind = "adopt"
    BY <2>1 DEF S!Effect
  <2> QED BY <2>2 DEF Decided
<1>12. CASE "running" \notin labels /\ open = S!Blank
  <2>1. e = IF "paused" \in labels \/ due = {} THEN S!Nothing
            ELSE S!Effect("dispatch", S!Max(due), "none", sNow)
    BY <1>12 DEF S!Decide, open, due, e
  <2>2. CASE "paused" \in labels \/ due = {}
    <3>1. e.kind = "nothing"
      BY <2>1, <2>2 DEF S!Effect, S!Nothing
    <3> QED BY <3>1 DEF Decided
  <2>3. CASE ~("paused" \in labels \/ due = {})
    <3>1. e = S!Effect("dispatch", S!Max(due), "none", sNow)
      BY <2>1, <2>3
    <3> QED BY <3>1, <2>3, <1>6, <1>7, <1>12 DEF Decided
  <2> QED BY <2>2, <2>3
<1> QED BY <1>9, <1>10, <1>11, <1>12

-----------------------------------------------------------------------------
(* Sequences of calls                                                       *)

LEMMA Tuples ==
  ASSUME NEW a, NEW b, NEW c, NEW d, NEW e
  PROVE  /\ Head(<<a>>) = a /\ Tail(<<a>>) = <<>>
         /\ Head(<<a, b>>) = a /\ Tail(<<a, b>>) = <<b>>
         /\ Head(<<a, b, c>>) = a /\ Tail(<<a, b, c>>) = <<b, c>>
         /\ Head(<<a, b, c, d>>) = a /\ Tail(<<a, b, c, d>>) = <<b, c, d>>
         /\ Head(<<a, b, c, d, e>>) = a /\ Tail(<<a, b, c, d, e>>) = <<b, c, d, e>>
OBVIOUS

LEMMA Prepend ==
  ASSUME NEW a, NEW b, NEW c, NEW d, NEW e
  PROVE  <<a>> \o <<b, c, d, e>> = <<a, b, c, d, e>>
<1> DEFINE s == <<a>> \o <<b, c, d, e>>
           t == <<a, b, c, d, e>>
<1>1. s \in Seq({a, b, c, d, e}) /\ t \in Seq({a, b, c, d, e})
  OBVIOUS
<1>2. Len(s) = 5 /\ Len(t) = 5
  OBVIOUS
<1>3. s[1] = a /\ s[2] = b /\ s[3] = c /\ s[4] = d /\ s[5] = e
  OBVIOUS
<1>4. \A i \in 1..5 : i = 1 \/ i = 2 \/ i = 3 \/ i = 4 \/ i = 5
  OBVIOUS
<1>5. \A i \in 1..5 : s[i] = t[i]
  BY <1>3, <1>4
<1> HIDE DEF s, t
<1> QED BY <1>1, <1>2, <1>5, SeqEqual DEF s, t

\* What a call carries.
LEMMA CallKinds ==
  ASSUME NEW c \in ScheduleCalls
  PROVE  /\ c.act \in {"add", "remove", "say", "record", "create", "label"}
         /\ c.act \in {"add", "remove"} => c.what \in S!LabelNames
         /\ c.act = "record" => /\ c.slot \in Instant /\ c.started \in Instant
                               /\ c.status \in S!Terminal \cup {"dispatched"}
         /\ c.act = "label" => c.slot \in Instant
         /\ c \in Repairs => /\ c.act \notin {"create", "label"}
                             /\ c.act = "record" => c.status # "dispatched"
<1>1. CASE c \in Repairs
  BY <1>1 DEF Repairs, S!Add, S!Remove, S!Post, S!Call, S!Terminal
<1>2. CASE c \notin Repairs
  BY <1>2 DEF ScheduleCalls, Create, Mark, Dispatched, S!Post, S!Call
<1> QED BY <1>1, <1>2

LEMMA Members ==
  /\ Repairs \subseteq ScheduleCalls
  /\ S!Add("running") \in Repairs /\ S!Remove("invalid") \in Repairs
  /\ \A s, t \in Instant : /\ Create(s) \in ScheduleCalls /\ Mark(s) \in ScheduleCalls
                           /\ Dispatched(s, t) \in ScheduleCalls
                           /\ Dispatched(s, t) \notin Repairs
                           /\ Mark(s) \notin Repairs /\ Create(s) \notin Repairs
<1>1. /\ Repairs \subseteq ScheduleCalls
      /\ S!Add("running") \in Repairs /\ S!Remove("invalid") \in Repairs
  BY DEF ScheduleCalls, Repairs, S!LabelNames
<1>2. ASSUME NEW s \in Instant, NEW t \in Instant
      PROVE  /\ Create(s) \in ScheduleCalls /\ Mark(s) \in ScheduleCalls
             /\ Dispatched(s, t) \in ScheduleCalls
  BY DEF ScheduleCalls
<1>3. ASSUME NEW s \in Instant, NEW t \in Instant
      PROVE  /\ Create(s).act = "create" /\ Mark(s).act = "label"
             /\ Dispatched(s, t).act = "record" /\ Dispatched(s, t).status = "dispatched"
  BY DEF Create, Mark, Dispatched, S!Post, S!Call
<1> QED BY <1>1, <1>2, <1>3, CallKinds

\* An effect other than a dispatch repairs or tells.
LEMMA EffectIsRepairs ==
  ASSUME NEW e, Decided(e), e.kind # "dispatch"
  PROVE  S!EffectCalls(e) \in Seq(Repairs)
<1>1. /\ S!Remove("running") \in Repairs /\ S!Remove("failed") \in Repairs
      /\ S!Remove("timeout") \in Repairs /\ S!Add("timeout") \in Repairs
      /\ S!Add("failed") \in Repairs /\ S!Add("running") \in Repairs
  BY DEF Repairs, S!LabelNames
<1>2. CASE e.kind \in {"skip", "expire"}
  <2>0. e.slot \in Instant /\ e.started \in Instant
    BY <1>2 DEF Decided, S!Effect
  <2>1. /\ S!Post(e.slot, "skipped_overlap", e.started) \in Repairs
        /\ S!Post(e.slot, "timeout", e.started) \in Repairs
    BY <2>0 DEF Repairs, S!Terminal
  <2> QED BY <1>1, <1>2, <2>1 DEF S!EffectCalls
<1>3. CASE e.kind \in {"complete", "release", "adopt", "nothing"}
  <2>1. S!CompleteCalls(e.status) \in Seq(Repairs)
    BY <1>1 DEF S!CompleteCalls
  <2> QED BY <1>1, <1>3, <2>1 DEF S!EffectCalls
<1> QED BY <1>2, <1>3 DEF Decided, S!Effect

\* What a sweep plans.
LEMMA PlanGives ==
  ASSUME ScheduleShape, RunsRecorded, sCalls = <<>>
  PROVE  \/ S!PlanCalls \in Seq(Repairs)
         \/ \E s \in Instant : Planned(S!PlanCalls, s, sNow) /\ Fresh(s)
<1> DEFINE e == S!Decide(labels, records, sNow)
           before == IF "invalid" \in labels THEN <<S!Remove("invalid")>> ELSE <<>>
<1>1. CASE ~valid
  <2>1. S!Add("invalid") \in Repairs /\ S!Call("say", "invalid", 0, "none", 0) \in Repairs
    BY DEF Repairs, S!LabelNames
  <2> QED BY <1>1, <2>1 DEF S!PlanCalls
<1>2. CASE valid
  <2>1. S!PlanCalls = before \o S!EffectCalls(e)
    BY <1>2 DEF S!PlanCalls
  <2>2. Decided(e)
    BY DecideGives
  <2>3. before \in Seq(Repairs)
    BY Members
  <2> HIDE DEF e
  <2>4. CASE e.kind # "dispatch"
    <3>1. S!EffectCalls(e) \in Seq(Repairs)
      BY <2>2, <2>4, EffectIsRepairs
    <3> HIDE DEF before
    <3> QED BY <2>1, <2>3, <3>1
  <2>5. CASE e.kind = "dispatch"
    <3>1. PICK s \in Instant : /\ e = S!Effect("dispatch", s, "none", sNow)
                               /\ \A r \in records : r.slot < s
                               /\ \A r \in records : r.status = "dispatched" => HasEnded(r.slot)
      BY <2>2, <2>5 DEF Decided
    <3>2. e.kind = "dispatch" /\ e.slot = s /\ e.started = sNow
      BY <3>1 DEF S!Effect
    <3>3. S!EffectCalls(e) = <<Create(s), Mark(s), Dispatched(s, sNow), S!Add("running")>>
      BY <3>2 DEF S!EffectCalls, S!DispatchCalls, Create, Mark, Dispatched
    <3>4. Planned(S!PlanCalls, s, sNow)
      <4>1. <<>> \o S!EffectCalls(e) = S!EffectCalls(e)
        BY <3>3
      <4>2. CASE "invalid" \in labels
        BY <2>1, <3>3, <4>2, Prepend DEF Planned
      <4>3. CASE "invalid" \notin labels
        BY <2>1, <3>3, <4>1, <4>3 DEF Planned
      <4> QED BY <4>2, <4>3
    <3>5. ASSUME NEW q \in ClockRuns PROVE q.slot < s /\ HasEnded(q.slot)
      BY <3>1 DEF RunsRecorded, Started, HasRecord
    <3> QED BY <3>4, <3>5 DEF Fresh
  <2> QED BY <2>4, <2>5
<1> QED BY <1>1, <1>2 DEF ScheduleShape

-----------------------------------------------------------------------------
(* Steps                                                                    *)

LEMMA ScheduleInit ==
  S!Init => ScheduleInv
<1> SUFFICES ASSUME S!Init PROVE ScheduleInv
  OBVIOUS
<1>1. ScheduleShape
  BY ScheduleAssumption DEF S!Init, ScheduleShape, Instant
<1>2. SweepPlan /\ RunsRecorded /\ S!SlotRunsOnce /\ S!NoOverlap
  BY DEF S!Init, SweepPlan, RunsRecorded, ClockRuns, S!Known, S!SlotRunsOnce, S!NoOverlap
<1> QED BY <1>1, <1>2 DEF ScheduleInv

\* Records stay and the clock starts no run.
Calm == records \subseteq records' /\ ClockRuns' \subseteq ClockRuns

LEMMA CalmKeeps ==
  ASSUME Calm, S!SlotRunsOnce, S!NoOverlap
  PROVE  /\ S!SlotRunsOnce' /\ S!NoOverlap'
         /\ \A s : (HasRecord(s) => HasRecord(s)') /\ (Fresh(s) => Fresh(s)')
<1>1. \A s : (HasRecord(s) => HasRecord(s)') /\ (HasEnded(s) => HasEnded(s)')
  BY DEF Calm, HasRecord, HasEnded
<1>2. \A s : Fresh(s) => Fresh(s)'
  BY <1>1 DEF Calm, Fresh
<1>3. S!SlotRunsOnce'
  BY DEF Calm, S!SlotRunsOnce, ClockRuns
<1>4. S!NoOverlap'
  BY DEF Calm, S!NoOverlap, ClockRuns
<1> QED BY <1>1, <1>2, <1>3, <1>4

\* The sweep goes on as it was.
LEMMA SweepWaits ==
  ASSUME ScheduleInv, Calm, UNCHANGED sCalls
  PROVE  SweepPlan' /\ RunsRecorded' /\ S!SlotRunsOnce' /\ S!NoOverlap'
<1>1. S!SlotRunsOnce' /\ S!NoOverlap'
  BY CalmKeeps DEF ScheduleInv
<1>2. \A s : (HasRecord(s) => HasRecord(s)') /\ (Fresh(s) => Fresh(s)')
  BY CalmKeeps DEF ScheduleInv
<1>3. SweepPlan'
  BY <1>2 DEF ScheduleInv, SweepPlan
<1>4. RunsRecorded'
  BY <1>2 DEF ScheduleInv, RunsRecorded, Calm
<1> QED BY <1>1, <1>3, <1>4

\* What one accepted call does.
LEMMA ApplyDoes ==
  ASSUME ScheduleShape, NEW c \in ScheduleCalls, NEW byHand \in BOOLEAN, S!Apply(c, byHand)
  PROVE  /\ labels' \subseteq S!LabelNames
         /\ records \subseteq records' /\ runs \subseteq runs'
         /\ records' \subseteq [slot : Instant, status : S!Terminal \cup {"dispatched"},
                                started : Instant, manual : BOOLEAN]
         /\ \A r \in runs' : r.slot \in Instant /\ r.manual \in BOOLEAN
         /\ byHand \/ c.act # "label" => {r \in runs' : ~r.manual} = {r \in runs : ~r.manual}
         /\ c.act = "label" =>
              /\ records' = records
              /\ runs' = runs \cup {[slot |-> c.slot, manual |-> byHand, n |-> S!Cardinality(runs)]}
         /\ c.act = "record" /\ c.status = "dispatched" =>
              \E e \in records' : e.slot = c.slot /\ e.status = "dispatched"
<1>1. labels' \subseteq S!LabelNames
  BY CallKinds DEF S!Apply, ScheduleShape
<1>2. /\ records \subseteq records'
      /\ records' \subseteq [slot : Instant, status : S!Terminal \cup {"dispatched"},
                             started : Instant, manual : BOOLEAN]
  <2>1. 0 \in Instant
    BY ScheduleAssumption DEF Instant
  <2>2. CASE c.act = "record"
    <3>1. records' = records \cup {S!Record(c.slot, c.status,
                       IF c.status = "dispatched" THEN c.started ELSE 0, byHand)}
      BY <2>2 DEF S!Apply
    <3> QED BY <2>1, <2>2, <3>1, CallKinds DEF S!Record, ScheduleShape
  <2>3. CASE c.act # "record"
    BY <2>3 DEF S!Apply, ScheduleShape
  <2> QED BY <2>2, <2>3
<1>3. /\ \A r \in runs' : r.slot \in Instant /\ r.manual \in BOOLEAN
      /\ runs \subseteq runs'
      /\ byHand \/ c.act # "label" => {r \in runs' : ~r.manual} = {r \in runs : ~r.manual}
  BY CallKinds DEF S!Apply, ScheduleShape
<1>4. c.act = "label" =>
        /\ records' = records
        /\ runs' = runs \cup {[slot |-> c.slot, manual |-> byHand, n |-> S!Cardinality(runs)]}
  BY DEF S!Apply
<1>5. c.act = "record" /\ c.status = "dispatched" =>
        \E e \in records' : e.slot = c.slot /\ e.status = "dispatched"
  <2> SUFFICES ASSUME c.act = "record", c.status = "dispatched"
               PROVE  \E e \in records' : e.slot = c.slot /\ e.status = "dispatched"
    OBVIOUS
  <2>1. S!Record(c.slot, c.status, IF c.status = "dispatched" THEN c.started ELSE 0, byHand) \in records'
    BY DEF S!Apply
  <2>2. \A x, y, m : S!Record(c.slot, c.status, x, m).slot = c.slot /\ S!Record(c.slot, c.status, x, m).status = "dispatched"
    BY DEF S!Record
  <2> QED BY <2>1, <2>2
<1> QED BY <1>1, <1>2, <1>3, <1>4, <1>5

\* The sweep makes its next call.
LEMMA SweepCallStep ==
  ASSUME ScheduleInv, S!SweepCall
  PROVE  ScheduleInv'
<1> DEFINE c == Head(sCalls)
<1>1. sCalls # <<>> /\ sCalls' = Tail(sCalls) /\ S!Apply(c, FALSE) /\ sCalls \in Seq(ScheduleCalls)
  BY DEF S!SweepCall, ScheduleInv, ScheduleShape
<1>2. c \in ScheduleCalls /\ sCalls' \in Seq(ScheduleCalls)
  BY <1>1
<1> HIDE DEF c
<1>3. /\ labels' \subseteq S!LabelNames /\ records \subseteq records'
      /\ records' \subseteq [slot : Instant, status : S!Terminal \cup {"dispatched"},
                             started : Instant, manual : BOOLEAN]
      /\ \A r \in runs' : r.slot \in Instant /\ r.manual \in BOOLEAN
      /\ c.act # "label" => ClockRuns' = ClockRuns
  <2>1. /\ labels' \subseteq S!LabelNames /\ records \subseteq records'
        /\ records' \subseteq [slot : Instant, status : S!Terminal \cup {"dispatched"},
                               started : Instant, manual : BOOLEAN]
        /\ \A r \in runs' : r.slot \in Instant /\ r.manual \in BOOLEAN
        /\ c.act # "label" => {r \in runs' : ~r.manual} = {r \in runs : ~r.manual}
    BY <1>1, <1>2, ApplyDoes DEF ScheduleInv
  <2>2. unrecorded' = unrecorded
    BY DEF S!SweepCall
  <2> QED BY <2>1, <2>2 DEF ClockRuns, S!Known
<1>4. ScheduleShape'
  BY <1>2, <1>3 DEF ScheduleInv, ScheduleShape, S!SweepCall
<1>5. CASE sCalls \in Seq(Repairs)
  <2>1. c \in Repairs /\ sCalls' \in Seq(Repairs)
    BY <1>1, <1>5 DEF c
  <2>2. Calm
    BY <1>2, <1>3, <2>1, CallKinds DEF Calm
  <2>3. \A q \in ClockRuns : HasRecord(q.slot)
    <3>1. \A s, t \in Instant : ~Started(sCalls, s, t)
      BY <2>1, Tuples, Members DEF Started, c
    <3> QED BY <3>1 DEF ScheduleInv, RunsRecorded, ScheduleShape, ClockRuns, S!Known
  <2>4. RunsRecorded'
    BY <2>2, <2>3, CalmKeeps DEF ScheduleInv, RunsRecorded, Calm
  <2> QED BY <1>4, <2>1, <2>2, <2>4, CalmKeeps DEF ScheduleInv, SweepPlan
<1>6. ASSUME NEW s \in Instant, NEW t \in Instant, Planned(sCalls, s, t), Fresh(s)
      PROVE  ScheduleInv'
  <2>1. \A q \in ClockRuns : HasRecord(q.slot)
    <3>1. \A x, y : ~Started(sCalls, x, y)
      <4>1. Len(sCalls) # 2
        BY <1>6 DEF Planned
      <4> QED BY <4>1 DEF Started
    <3> QED BY <3>1 DEF ScheduleInv, RunsRecorded
  <2>2. CASE sCalls # <<Mark(s), Dispatched(s, t), S!Add("running")>>
    <3>1. c \in {S!Remove("invalid"), Create(s)} /\ Planned(sCalls', s, t)
      <4>1. CASE sCalls = <<S!Remove("invalid"), Create(s), Mark(s), Dispatched(s, t), S!Add("running")>>
        BY <1>1, <4>1, Tuples DEF Planned, c
      <4>2. CASE sCalls = <<Create(s), Mark(s), Dispatched(s, t), S!Add("running")>>
        BY <1>1, <4>2, Tuples DEF Planned, c
      <4> QED BY <1>6, <2>2, <4>1, <4>2 DEF Planned
    <3>2. Calm
      BY <1>3, <3>1 DEF Calm, S!Remove, Create, S!Call
    <3>3. SweepPlan' /\ RunsRecorded'
      BY <1>6, <2>1, <3>1, <3>2, CalmKeeps DEF ScheduleInv, SweepPlan, RunsRecorded, Calm
    <3> QED BY <1>4, <3>2, <3>3, CalmKeeps DEF ScheduleInv
  <2>3. CASE sCalls = <<Mark(s), Dispatched(s, t), S!Add("running")>>
    <3>1. c = Mark(s) /\ Started(sCalls', s, t)
      BY <1>1, <2>3, Tuples DEF Started, c
    <3>2. /\ records' = records
          /\ runs' = runs \cup {[slot |-> s, manual |-> FALSE, n |-> S!Cardinality(runs)]}
      <4>1. c.act = "label" /\ c.slot = s
        BY <3>1 DEF Mark, S!Call
      <4> QED BY <1>1, <1>2, <4>1, ApplyDoes DEF ScheduleInv
    <3>3. \A q \in ClockRuns' : q \in ClockRuns \/ q = [slot |-> s, manual |-> FALSE, n |-> S!Cardinality(runs)]
      <4>1. unrecorded' = unrecorded
        BY DEF S!SweepCall
      <4> QED BY <3>2, <4>1 DEF ClockRuns, S!Known
    <3>4. \A x : (HasEnded(x) => HasEnded(x)') /\ (HasRecord(x) => HasRecord(x)')
      BY <3>2 DEF HasEnded, HasRecord
    <3>5. \A q \in ClockRuns' : q.slot = s \/ q \in ClockRuns
      BY <3>3
    <3>6. RunsRecorded'
      BY <2>1, <3>1, <3>4, <3>5 DEF RunsRecorded
    <3>7. SweepPlan'
      BY <3>1 DEF SweepPlan
    <3>8. \A q \in ClockRuns : q.slot \in Nat /\ q.slot < s /\ HasEnded(q.slot)
      BY <1>6 DEF Fresh, ScheduleInv, ScheduleShape, ClockRuns, S!Known, Instant
    <3>9. S!SlotRunsOnce'
      <4> SUFFICES ASSUME NEW q \in ClockRuns', NEW r \in ClockRuns', q.slot = r.slot
                   PROVE  q = r
        BY DEF S!SlotRunsOnce, ClockRuns
      <4>1. CASE q \in ClockRuns /\ r \in ClockRuns
        BY <4>1 DEF ScheduleInv, S!SlotRunsOnce, ClockRuns
      <4>2. CASE ~(q \in ClockRuns /\ r \in ClockRuns)
        <5>1. \A z \in ClockRuns : z.slot # s
          BY <3>8, ScheduleAssumption DEF Instant
        <5>2. q.slot = s /\ r.slot = s
          BY <3>5, <4>2
        <5> QED BY <3>3, <5>1, <5>2
      <4> QED BY <4>1, <4>2
    <3>10. S!NoOverlap'
      <4> SUFFICES ASSUME NEW q \in ClockRuns', NEW r \in ClockRuns', q.slot < r.slot
                   PROVE  HasEnded(q.slot)'
        BY DEF S!NoOverlap, ClockRuns, HasEnded
      <4>1. CASE q \in ClockRuns
        BY <3>4, <3>8, <4>1
      <4>2. CASE q \notin ClockRuns
        <5>1. q.slot = s /\ \A z \in ClockRuns : ~(s < z.slot)
          BY <3>5, <3>8, <4>2, ScheduleAssumption DEF Instant
        <5>2. ~(s < s)
          BY ScheduleAssumption DEF Instant
        <5> QED BY <3>5, <5>1, <5>2
      <4> QED BY <4>1, <4>2
    <3> QED BY <1>4, <3>6, <3>7, <3>9, <3>10 DEF ScheduleInv
  <2> QED BY <2>2, <2>3
<1>7. ASSUME NEW s \in Instant, NEW t \in Instant, Started(sCalls, s, t)
      PROVE  ScheduleInv'
  <2>1. c = Dispatched(s, t) /\ sCalls' = <<S!Add("running")>>
    BY <1>1, <1>7, Tuples DEF Started, c
  <2>2. sCalls' \in Seq(Repairs)
    BY <2>1, Members
  <2>3. Calm
    BY <1>3, <2>1 DEF Calm, Dispatched, S!Post, S!Call
  <2>4. HasRecord(s)'
    <3>1. c.act = "record" /\ c.slot = s /\ c.status = "dispatched"
      BY <2>1 DEF Dispatched, S!Post, S!Call
    <3>2. \E e \in records' : e.slot = c.slot /\ e.status = "dispatched"
      BY <1>1, <1>2, <3>1, ApplyDoes DEF ScheduleInv
    <3> QED BY <3>1, <3>2 DEF HasRecord
  <2>5. \A x, y : Started(sCalls, x, y) => x = s
    <3> SUFFICES ASSUME NEW x, NEW y, Started(sCalls, x, y) PROVE x = s
      OBVIOUS
    <3>1. Dispatched(x, y) = Dispatched(s, t)
      BY <1>7, Tuples DEF Started
    <3>2. Dispatched(x, y).slot = x /\ Dispatched(s, t).slot = s
      BY DEF Dispatched, S!Post, S!Call
    <3> QED BY <3>1, <3>2
  <2>6. RunsRecorded'
    BY <2>3, <2>4, <2>5, CalmKeeps DEF ScheduleInv, RunsRecorded, Calm
  <2> QED BY <1>4, <2>2, <2>3, <2>6, CalmKeeps DEF ScheduleInv, SweepPlan
<1> QED BY <1>5, <1>6, <1>7 DEF ScheduleInv, SweepPlan

\* A call of the sweep fails, or the leader changes: a dispatch whose run issue is
\* labelled loses its record, and the clock does not know of the run.
LEMMA SweepLosesStep ==
  ASSUME ScheduleInv, S!SweepCallFails \/ S!Crash
  PROVE  ScheduleInv'
<1> DEFINE c == Head(sCalls)
<1>1. /\ sCalls # <<>> /\ sCalls \in Seq(ScheduleCalls)
      /\ sCalls' \in {S!AfterFailure(sCalls), <<>>}
      /\ S!Forget(c)
      /\ UNCHANGED <<sNow, labels, records, runs, notices, valid, manual, asked>>
      /\ sFaults < MaxScheduleFaults /\ sFaults' = sFaults + 1
  BY DEF S!SweepCallFails, S!Crash, S!Fault, ScheduleInv, ScheduleShape
<1>2. c \in ScheduleCalls /\ Tail(sCalls) \in Seq(ScheduleCalls)
  BY <1>1
<1>3. /\ sCalls' \in {Tail(sCalls), <<>>}
      /\ c.act \in {"create", "label"} => sCalls' = <<>>
  BY <1>1 DEF S!AfterFailure
<1>5. ScheduleShape'
  <2>1. sCalls' \in Seq(ScheduleCalls)
    BY <1>2, <1>3, EmptySeq
  <2>2. sFaults' \in 0..MaxScheduleFaults
    BY <1>1, ScheduleAssumption DEF ScheduleInv, ScheduleShape
  <2> QED BY <1>1, <2>1, <2>2 DEF ScheduleInv, ScheduleShape
<1>6. Calm
  <2>1. unrecorded \subseteq unrecorded'
    BY <1>1 DEF S!Forget
  <2> QED BY <1>1, <2>1 DEF Calm, ClockRuns, S!Known
<1>7. ASSUME NEW s, NEW t, Started(sCalls, s, t)
      PROVE  sCalls' \in Seq(Repairs) /\ \A q \in ClockRuns' : q.slot # s
  <2>1. c = Dispatched(s, t) /\ Tail(sCalls) = <<S!Add("running")>>
    BY <1>7, Tuples DEF Started
  <2>2. sCalls' \in Seq(Repairs)
    <3>a. S!Add("running") \in Repairs
      BY Members
    <3>1. <<S!Add("running")>> \in Seq(Repairs)
      BY <3>a
    <3> QED BY <1>3, <2>1, <3>1, EmptySeq
  <2>3. c.act = "record" /\ c.status = "dispatched" /\ c.slot = s
    BY <2>1 DEF Dispatched, S!Post, S!Call
  <2> HIDE DEF c
  <2>4. unrecorded' = unrecorded \cup {r \in runs : ~r.manual /\ r.slot = s}
    BY <1>1, <2>3 DEF S!Forget
  <2> QED BY <1>1, <2>2, <2>4 DEF ClockRuns, S!Known
<1>8. RunsRecorded'
  <2> SUFFICES ASSUME NEW q \in ClockRuns' PROVE HasRecord(q.slot)'
    BY DEF RunsRecorded
  <2>1. q \in ClockRuns
    BY <1>6 DEF Calm
  <2>2. ~\E t \in Instant : Started(sCalls, q.slot, t)
    BY <1>7
  <2> QED BY <1>6, <2>1, <2>2, CalmKeeps DEF ScheduleInv, RunsRecorded
<1>9. SweepPlan'
  <2>1. CASE sCalls' = <<>>
    BY <2>1 DEF SweepPlan
  <2>2. CASE sCalls \in Seq(Repairs)
    <3>1. Tail(sCalls) \in Seq(Repairs)
      BY <1>1, <2>2
    <3>2. sCalls' \in Seq(Repairs)
      BY <1>3, <3>1, EmptySeq
    <3> QED BY <3>2 DEF SweepPlan
  <2>3. ASSUME NEW s \in Instant, NEW t \in Instant, Planned(sCalls, s, t), Fresh(s), sCalls' # <<>>
        PROVE  SweepPlan'
    <3>1. Create(s).act = "create" /\ Mark(s).act = "label"
      BY DEF Create, Mark, S!Call
    <3>2. c \notin {Create(s), Mark(s)}
      BY <1>3, <2>3, <3>1
    <3>3. sCalls = <<S!Remove("invalid"), Create(s), Mark(s), Dispatched(s, t), S!Add("running")>>
      BY <2>3, <3>2, Tuples DEF Planned
    <3>4. Planned(sCalls', s, t)
      BY <1>3, <2>3, <3>3, Tuples DEF Planned
    <3> QED BY <1>6, <2>3, <3>4, CalmKeeps DEF ScheduleInv, SweepPlan
  <2>4. (\E s, t \in Instant : Started(sCalls, s, t)) => SweepPlan'
    BY <1>7 DEF SweepPlan
  <2> QED BY <2>1, <2>2, <2>3, <2>4 DEF ScheduleInv, SweepPlan
<1> QED BY <1>5, <1>6, <1>8, <1>9, CalmKeeps DEF ScheduleInv

\* A call of a run-now request is accepted: it starts no run of the clock.
LEMMA ManualCallStep ==
  ASSUME ScheduleInv, S!ManualCall
  PROVE  ScheduleInv'
<1> DEFINE c == Head(manual)
<1>1. manual # <<>> /\ manual' = Tail(manual) /\ S!Apply(c, TRUE) /\ manual \in Seq(ScheduleCalls)
  BY DEF S!ManualCall, ScheduleInv, ScheduleShape
<1>2. c \in ScheduleCalls /\ manual' \in Seq(ScheduleCalls)
  BY <1>1
<1> HIDE DEF c
<1>3. /\ labels' \subseteq S!LabelNames /\ records \subseteq records'
      /\ records' \subseteq [slot : Instant, status : S!Terminal \cup {"dispatched"},
                             started : Instant, manual : BOOLEAN]
      /\ \A r \in runs' : r.slot \in Instant /\ r.manual \in BOOLEAN
      /\ ClockRuns' = ClockRuns
  <2>1. /\ labels' \subseteq S!LabelNames /\ records \subseteq records'
        /\ records' \subseteq [slot : Instant, status : S!Terminal \cup {"dispatched"},
                               started : Instant, manual : BOOLEAN]
        /\ \A r \in runs' : r.slot \in Instant /\ r.manual \in BOOLEAN
        /\ {r \in runs' : ~r.manual} = {r \in runs : ~r.manual}
    BY <1>1, <1>2, ApplyDoes DEF ScheduleInv
  <2>2. unrecorded' = unrecorded
    BY DEF S!ManualCall
  <2> QED BY <2>1, <2>2 DEF ClockRuns, S!Known
<1>4. ScheduleShape'
  BY <1>2, <1>3 DEF ScheduleInv, ScheduleShape, S!ManualCall
<1>5. Calm /\ UNCHANGED sCalls
  BY <1>3 DEF Calm, S!ManualCall
<1> QED BY <1>4, <1>5, SweepWaits DEF ScheduleInv

LEMMA RunNowStep ==
  ASSUME ScheduleInv, S!RunNow
  PROVE  ScheduleInv'
<1>1. manual' = <<Create(sNow), Mark(sNow), Dispatched(sNow, sNow), S!Add("running")>>
  BY DEF S!RunNow, S!DispatchCalls, Create, Mark, Dispatched
<1>2. sNow \in Instant
  BY DEF ScheduleInv, ScheduleShape
<1>3. manual' \in Seq(ScheduleCalls)
  <2>1. /\ Create(sNow) \in ScheduleCalls /\ Mark(sNow) \in ScheduleCalls
        /\ Dispatched(sNow, sNow) \in ScheduleCalls /\ S!Add("running") \in ScheduleCalls
    BY <1>2, Members
  <2> QED BY <1>1, <2>1
<1>4. asked' \in 0..MaxManual
  BY ScheduleAssumption DEF S!RunNow, ScheduleInv, ScheduleShape
<1>5. ScheduleShape'
  BY <1>3, <1>4 DEF S!RunNow, ScheduleInv, ScheduleShape
<1>6. Calm /\ UNCHANGED sCalls
  BY DEF S!RunNow, Calm, ClockRuns, S!Known
<1> QED BY <1>5, <1>6, SweepWaits DEF ScheduleInv

LEMMA BeginSweepStep ==
  ASSUME ScheduleInv, S!BeginSweep
  PROVE  ScheduleInv'
<1>1. /\ sCalls = <<>> /\ sCalls' = S!PlanCalls
      /\ UNCHANGED <<sNow, labels, records, runs, unrecorded, notices, valid, manual, asked, sFaults>>
  BY DEF S!BeginSweep
<1>2. \/ sCalls' \in Seq(Repairs)
      \/ \E s \in Instant : Planned(sCalls', s, sNow) /\ Fresh(s)
  BY <1>1, PlanGives DEF ScheduleInv
<1>3. Calm
  BY <1>1 DEF Calm, ClockRuns, S!Known
<1>4. \A s : (HasRecord(s) => HasRecord(s)') /\ (Fresh(s) => Fresh(s)')
  BY <1>3, CalmKeeps DEF ScheduleInv
<1>5. sNow \in Instant
  BY DEF ScheduleInv, ScheduleShape
<1>6. SweepPlan'
  BY <1>2, <1>4, <1>5 DEF SweepPlan
<1>7. RunsRecorded'
  BY <1>1, <1>3, <1>4 DEF ScheduleInv, RunsRecorded, Started, Calm
<1>8. sCalls' \in Seq(ScheduleCalls)
  <2>1. ASSUME NEW s \in Instant, Planned(sCalls', s, sNow) PROVE sCalls' \in Seq(ScheduleCalls)
    <3>1. /\ Create(s) \in ScheduleCalls /\ Mark(s) \in ScheduleCalls
          /\ Dispatched(s, sNow) \in ScheduleCalls /\ S!Add("running") \in ScheduleCalls
          /\ S!Remove("invalid") \in ScheduleCalls
      BY <1>5, Members
    <3>2. CASE sCalls' = <<Mark(s), Dispatched(s, sNow), S!Add("running")>>
      BY <3>1, <3>2
    <3>3. CASE sCalls' = <<Create(s), Mark(s), Dispatched(s, sNow), S!Add("running")>>
      BY <3>1, <3>3
    <3>4. CASE sCalls' = <<S!Remove("invalid"), Create(s), Mark(s), Dispatched(s, sNow), S!Add("running")>>
      BY <3>1, <3>4
    <3> QED BY <2>1, <3>2, <3>3, <3>4 DEF Planned
  <2>2. sCalls' \in Seq(Repairs) => sCalls' \in Seq(ScheduleCalls)
    BY Members, SeqMonotonic
  <2> QED BY <1>2, <2>1, <2>2
<1>9. ScheduleShape'
  BY <1>1, <1>8 DEF ScheduleInv, ScheduleShape
<1> QED BY <1>3, <1>6, <1>7, <1>9, CalmKeeps DEF ScheduleInv

\* The steps that neither plan nor make a call.
LEMMA OtherScheduleSteps ==
  ASSUME ScheduleInv,
         S!ManualCallFails \/ S!TogglePause \/ S!Edit \/ S!Reports \/ S!Tick
  PROVE  ScheduleInv'
<1>1. CASE S!ManualCallFails
  <2>1. /\ manual' \in {Tail(manual), <<>>} /\ manual # <<>>
        /\ sFaults < MaxScheduleFaults /\ sFaults' = sFaults + 1
    BY <1>1 DEF S!ManualCallFails, S!AfterFailure, S!Fault
  <2>2. manual' \in Seq(ScheduleCalls) /\ sFaults' \in 0..MaxScheduleFaults
    <3>1. manual \in Seq(ScheduleCalls) /\ sFaults \in 0..MaxScheduleFaults
      BY DEF ScheduleInv, ScheduleShape
    <3>2. Tail(manual) \in Seq(ScheduleCalls)
      BY <2>1, <3>1
    <3>3. manual' \in Seq(ScheduleCalls)
      BY <2>1, <3>2, EmptySeq
    <3>4. sFaults' \in 0..MaxScheduleFaults
      BY <2>1, <3>1, ScheduleAssumption
    <3> QED BY <3>3, <3>4
  <2>3. ScheduleShape' /\ Calm /\ UNCHANGED sCalls
    BY <1>1, <2>2 DEF S!ManualCallFails, ScheduleInv, ScheduleShape, Calm, ClockRuns, S!Known
  <2> QED BY <2>3, SweepWaits DEF ScheduleInv
<1>2. CASE S!TogglePause
  <2>1. labels' \subseteq S!LabelNames /\ asked' \in 0..MaxManual
    BY <1>2, ScheduleAssumption DEF S!TogglePause, ScheduleInv, ScheduleShape, S!LabelNames
  <2>2. ScheduleShape' /\ Calm /\ UNCHANGED sCalls
    BY <1>2, <2>1 DEF S!TogglePause, ScheduleInv, ScheduleShape, Calm, ClockRuns, S!Known
  <2> QED BY <2>2, SweepWaits DEF ScheduleInv
<1>3. CASE S!Edit
  <2>1. valid' \in BOOLEAN /\ asked' \in 0..MaxManual
    BY <1>3, ScheduleAssumption DEF S!Edit, ScheduleInv, ScheduleShape
  <2>2. ScheduleShape' /\ Calm /\ UNCHANGED sCalls
    BY <1>3, <2>1 DEF S!Edit, ScheduleInv, ScheduleShape, Calm, ClockRuns, S!Known
  <2> QED BY <2>2, SweepWaits DEF ScheduleInv
<1>4. CASE S!Reports
  <2>1. PICK r \in runs, st \in {"ok", "failed"} : S!Report(r, st)
    BY <1>4 DEF S!Reports
  <2>2. Calm /\ UNCHANGED sCalls
    BY <2>1 DEF S!Report, Calm, ClockRuns, S!Known
  <2>3. ScheduleShape'
    <3>1. 0 \in Instant /\ r.slot \in Instant /\ st \in S!Terminal
      BY ScheduleAssumption DEF Instant, ScheduleInv, ScheduleShape, S!Terminal
    <3>2. r.manual \in BOOLEAN
      BY DEF ScheduleInv, ScheduleShape
    <3>3. S!Record(r.slot, st, 0, r.manual) \in
            [slot : Instant, status : S!Terminal \cup {"dispatched"}, started : Instant, manual : BOOLEAN]
      BY <3>1, <3>2 DEF S!Record
    <3> QED BY <2>1, <3>3 DEF S!Report, ScheduleInv, ScheduleShape
  <2> QED BY <2>2, <2>3, SweepWaits DEF ScheduleInv
<1>5. CASE S!Tick
  <2>1. sNow' \in Instant
    BY <1>5, ScheduleAssumption DEF S!Tick, ScheduleInv, ScheduleShape, Instant
  <2>2. ScheduleShape' /\ Calm /\ UNCHANGED sCalls
    BY <1>5, <2>1 DEF S!Tick, ScheduleInv, ScheduleShape, Calm, ClockRuns, S!Known
  <2> QED BY <2>2, SweepWaits DEF ScheduleInv
<1> QED BY <1>1, <1>2, <1>3, <1>4, <1>5

LEMMA ScheduleStep ==
  ASSUME ScheduleInv, [S!Next]_scheduleVars
  PROVE  ScheduleInv'
<1>1. CASE UNCHANGED scheduleVars
  <2>1. ScheduleShape' /\ Calm /\ UNCHANGED sCalls
    BY <1>1 DEF scheduleVars, ScheduleInv, ScheduleShape, Calm, ClockRuns, S!Known
  <2> QED BY <2>1, SweepWaits DEF ScheduleInv
<1>2. CASE S!Next
  BY <1>2, BeginSweepStep, SweepCallStep, ManualCallStep, SweepLosesStep, RunNowStep,
     OtherScheduleSteps DEF S!Next, S!Clock
<1> QED BY <1>1, <1>2

\* Of the runs whose dispatch record was not lost the clock starts one for a slot,
\* and none while another is within its budget and unreported, for any expression,
\* budget, faults, lost records of other runs included, and interleaving with the
\* dashboard, the runners and a change of leader (schedule_pass.rs,
\* schedule_execute.rs).
THEOREM SchedulesAreSafe == PartSpec => []ScheduleSafe
<1> DEFINE I == part = "schedule" => ScheduleInv
<1>1. PartInit => I
  BY ScheduleInit DEF PartInit
<1>2. I /\ [PartNext]_allVars => I'
  <2> SUFFICES ASSUME I, [PartNext]_allVars, part' = "schedule"
               PROVE  ScheduleInv'
    OBVIOUS
  <2>1. part = "schedule" /\ [S!Next]_scheduleVars
    BY DEF PartNext, allVars
  <2> QED BY <2>1, ScheduleStep
<1>3. I => ScheduleSafe
  BY DEF ScheduleSafe, S!ScheduleSafe, S!TypeOK, ScheduleInv, ScheduleShape, Instant
<1> QED BY <1>1, <1>2, <1>3, PTL DEF PartSpec

-----------------------------------------------------------------------------
(* The pod                                                                  *)

\* A checkout that the launch went past has its HEAD at the ref that it was asked for.
PodGood(disk, c) ==
  disk[c.root].st # "absent" /\ disk[c.root].url = c.url /\ disk[c.root].ref = c.ref

\* Where a launch may be, and what the clones behind it left.
PodPlan ==
  /\ DOMAIN pDisk = P!Dirs
  /\ pPc = "creds" => step = 1
  /\ pPc = "clone" =>
       /\ step \in P!Clones \cup {P!Final + 1}
       /\ \A i \in P!Clones : i < step => PodGood(pDisk, P!Checkouts[i])
  /\ pPc \in {"prepare", "install", "ready", "engine", "drain"} => \A i \in P!Clones : PodGood(pDisk, P!Checkouts[i])
  /\ pEngine = "running" => pPc = "engine"

PodInv ==
  /\ P!TypeOK /\ PodPlan /\ P!SecretsStayOut /\ P!ExitTells
  /\ manifest = "absent" => Secrets = {}

\* A set of numbers has a least one.
LEMMA LeastIs ==
  ASSUME NEW Q \in SUBSET Nat, Q # {}
  PROVE  \E m \in Q : \A n \in Q : m <= n
<1> DEFINE Below == {ss \in Nat \X Nat : ss[1] < ss[2]}
<1>1. IsWellFoundedOn(Below, Nat)
  BY NatLessThanWellFounded DEF OpToRel
<1>2. PICK m \in Q : \A n \in Q : ~(<<n, m>> \in Below)
  <2> HIDE DEF Below
  <2> QED BY <1>1, WFMin
<1>3. \A a, b \in Nat : a < b => <<a, b>> \in Below
  OBVIOUS
<1> HIDE DEF Below
<1>4. \A n \in Q : m \in Nat /\ n \in Nat /\ ~(n < m)
  BY <1>2, <1>3
<1>5. \A n \in Q : m <= n
  BY <1>4
<1> QED BY <1>5

LEMMA PlanShape ==
  /\ P!Final \in Nat /\ P!Final = Len(PackageRefs) + Len(Grants) + 1
  /\ P!Packages = 1..Len(PackageRefs) /\ 1 \in P!Packages /\ P!Packages \subseteq 1..P!Final
  /\ P!Final \notin P!Packages
  /\ \A i \in 1..P!Final :
       i \notin P!Packages /\ i # P!Final =>
         /\ i - Len(PackageRefs) \in DOMAIN Grants
         /\ P!Checkouts[i] = P!Checkout(Grants[i - Len(PackageRefs)], P!GrantRoot(Grants[i - Len(PackageRefs)]))
  /\ \A i \in P!Packages : P!Checkouts[i] = P!Checkout(PackageRefs[i], P!WorkspaceRoot(PackageRefs[i]))
  /\ P!Checkouts[P!Final] = P!Checkout(Lifecycle, P!Project)
<1> USE PodAssumption
<1>1. /\ P!Final \in Nat /\ P!Final = Len(PackageRefs) + Len(Grants) + 1
      /\ P!Packages = 1..Len(PackageRefs) /\ 1 \in P!Packages /\ P!Packages \subseteq 1..P!Final
      /\ P!Final \notin P!Packages
  BY DEF P!Final, P!Packages
<1>2. ASSUME NEW i \in 1..P!Final, i \notin P!Packages, i # P!Final
      PROVE  /\ i - Len(PackageRefs) \in DOMAIN Grants
             /\ P!Checkouts[i] = P!Checkout(Grants[i - Len(PackageRefs)], P!GrantRoot(Grants[i - Len(PackageRefs)]))
  BY <1>1, <1>2 DEF P!Checkouts
<1>3. \A i \in P!Packages : P!Checkouts[i] = P!Checkout(PackageRefs[i], P!WorkspaceRoot(PackageRefs[i]))
  BY <1>1 DEF P!Checkouts
<1>4. P!Checkouts[P!Final] = P!Checkout(Lifecycle, P!Project)
  BY <1>1 DEF P!Checkouts
<1> QED BY <1>1, <1>2, <1>3, <1>4

LEMMA ClonesAt == P!Clones \subseteq 1..P!Final
BY DEF P!Clones

\* What is to be checked out, part by part.
LEMMA CheckoutParts ==
  /\ \A i \in P!Packages :
       /\ P!Checkouts[i].root = P!WorkspaceRoot(PackageRefs[i])
       /\ P!Checkouts[i].url[1] = PackageRefs[i].id
       /\ P!Checkouts[i].ref = PackageRefs[i].ref
  /\ \A i \in 1..P!Final :
       i \notin P!Packages /\ i # P!Final =>
         LET g == Grants[i - Len(PackageRefs)] IN
         /\ i - Len(PackageRefs) \in DOMAIN Grants
         /\ P!Checkouts[i].root = P!GrantRoot(g)
         /\ P!Checkouts[i].url[1] = g.id
         /\ P!Checkouts[i].ref = g.ref
  /\ P!Checkouts[P!Final].root = <<"project">>
  /\ P!Checkouts[P!Final].url[1] = Lifecycle.id
  /\ P!Checkouts[P!Final].ref = Lifecycle.ref
<1>1. ASSUME NEW i \in P!Packages
      PROVE  /\ P!Checkouts[i].root = P!WorkspaceRoot(PackageRefs[i])
             /\ P!Checkouts[i].url[1] = PackageRefs[i].id
             /\ P!Checkouts[i].ref = PackageRefs[i].ref
  <2>1. P!Checkouts[i] = P!Checkout(PackageRefs[i], P!WorkspaceRoot(PackageRefs[i]))
    BY PlanShape
  <2> QED BY <2>1 DEF P!Checkout, P!Url
<1>2. ASSUME NEW i \in 1..P!Final, i \notin P!Packages, i # P!Final
      PROVE  LET g == Grants[i - Len(PackageRefs)] IN
             /\ i - Len(PackageRefs) \in DOMAIN Grants
             /\ P!Checkouts[i].root = P!GrantRoot(g)
             /\ P!Checkouts[i].url[1] = g.id
             /\ P!Checkouts[i].ref = g.ref
  <2> DEFINE g == Grants[i - Len(PackageRefs)]
  <2>1. i - Len(PackageRefs) \in DOMAIN Grants /\ P!Checkouts[i] = P!Checkout(g, P!GrantRoot(g))
    BY <1>2, PlanShape
  <2> HIDE DEF g
  <2>2. P!Checkouts[i].root = P!GrantRoot(g) /\ P!Checkouts[i].url[1] = g.id /\ P!Checkouts[i].ref = g.ref
    BY <2>1 DEF P!Checkout, P!Url
  <2> QED BY <2>1, <2>2 DEF g
<1>3. /\ P!Checkouts[P!Final].root = <<"project">>
      /\ P!Checkouts[P!Final].url[1] = Lifecycle.id
      /\ P!Checkouts[P!Final].ref = Lifecycle.ref
  <2>1. P!Checkouts[P!Final] = P!Checkout(Lifecycle, P!Project)
    BY PlanShape
  <2> QED BY <2>1 DEF P!Checkout, P!Url, P!Project
<1> QED BY <1>1, <1>2, <1>3

\* Every checkout has a ref, and a root of one of four forms.
LEMMA RootForms ==
  /\ \A r : P!WorkspaceRoot(r) = <<"platform">> \/ P!WorkspaceRoot(r) = <<"platforms", <<r.id, r.ref>>>>
  /\ \A g : \/ P!GrantRoot(g) = <<"platform">> /\ g.id = PackageRefs[1].id /\ g.ref = PackageRefs[1].ref
            \/ P!GrantRoot(g) = <<"project">> /\ g.id = Lifecycle.id /\ g.ref = Lifecycle.ref
            \/ P!GrantRoot(g) = <<"delivery", g.id, g.ref>>
BY DEF P!WorkspaceRoot, P!WorkspaceKey, P!GrantRoot, P!CheckoutMatches, P!Project

\* No two clones share a directory.
LEMMA ClonesApart ==
  ASSUME NEW i \in P!Clones, NEW j \in P!Clones, i # j
  PROVE  P!Checkouts[i].root # P!Checkouts[j].root
<1>1. i \in 1..P!Final /\ j \in 1..P!Final /\ P!Final \in Nat
  BY PlanShape, ClonesAt
<1>2. ASSUME NEW k \in P!Clones, k # P!Final PROVE P!Checkouts[k].root # P!Checkouts[P!Final].root
  <2>1. P!Checkouts[P!Final].root = <<"project">>
    BY CheckoutParts
  <2>2. CASE k \in P!Packages
    <3>1. P!Checkouts[k].root = P!WorkspaceRoot(PackageRefs[k])
      BY <2>2, CheckoutParts
    <3>2. P!Checkouts[k].root[1] \in {"platform", "platforms"}
      BY <3>1, RootForms
    <3> QED BY <2>1, <3>2
  <2>3. CASE P!Checkouts[k].root[1] = "delivery"
    BY <2>1, <2>3
  <2> QED BY <1>2, <2>2, <2>3 DEF P!Clones
<1>3. ASSUME NEW a \in P!Clones, NEW b \in P!Clones, a < b, b # P!Final
      PROVE  P!Checkouts[a].root # P!Checkouts[b].root
  <2>1. a \in 1..(b - 1)
    BY <1>3, <1>1 DEF P!Clones
  <2> QED BY <2>1, <1>3 DEF P!Clones
<1>4. CASE i = P!Final \/ j = P!Final
  BY <1>2, <1>4
<1>5. CASE i # P!Final /\ j # P!Final
  <2>1. i < j \/ j < i
    BY <1>1
  <2> QED BY <1>3, <1>5, <2>1
<1> QED BY <1>4, <1>5

\* The first checkout of a directory that a package or a delivery names is cloned.
LEMMA FirstIsCloned ==
  ASSUME NEW i \in 1..P!Final, i # P!Final,
         i \in P!Packages \/ P!Checkouts[i].root[1] = "delivery"
  PROVE  \E k \in P!Clones : k <= i /\ k # P!Final /\ P!Checkouts[k].root = P!Checkouts[i].root
<1> DEFINE Q == {k \in 1..P!Final : k <= i /\ P!Checkouts[k].root = P!Checkouts[i].root}
<1>0. P!Final \in Nat
  BY PlanShape
<1>1. Q \in SUBSET Nat /\ Q # {}
  BY <1>0
<1>2. PICK k \in Q : \A n \in Q : k <= n
  BY <1>1, LeastIs, Zenon
<1>3. k \in 1..P!Final /\ k <= i /\ k # P!Final /\ P!Checkouts[k].root = P!Checkouts[i].root
  BY <1>0, <1>2
<1>4. \A j \in 1..(k - 1) : P!Checkouts[j].root # P!Checkouts[k].root
  <2> SUFFICES ASSUME NEW j \in 1..(k - 1), P!Checkouts[j].root = P!Checkouts[k].root PROVE FALSE
    OBVIOUS
  <2>1. j \in Q /\ j < k
    BY <1>0, <1>3
  <2> QED BY <1>2, <1>3, <2>1
<1>5. k \in P!Packages \/ P!Checkouts[k].root[1] = "delivery"
  BY <1>3, PlanShape
<1> HIDE DEF Q
<1>6. k \in P!Clones
  BY <1>3, <1>4, <1>5 DEF P!Clones
<1> QED BY <1>3, <1>6

\* What is asked for is cloned, as it is asked for.
LEMMA AskedIsCloned ==
  /\ \A i \in DOMAIN PackageRefs : \E k \in P!Clones :
       /\ P!Checkouts[k].root = P!WorkspaceRoot(PackageRefs[i])
       /\ P!Checkouts[k].url[1] = PackageRefs[i].id /\ P!Checkouts[k].ref = PackageRefs[i].ref
  /\ \A i \in DOMAIN Grants : \E k \in P!Clones :
       /\ P!Checkouts[k].root = P!GrantRoot(Grants[i])
       /\ P!Checkouts[k].url[1] = Grants[i].id /\ P!Checkouts[k].ref = Grants[i].ref
  /\ \E k \in P!Clones :
       /\ P!Checkouts[k].root = P!Project
       /\ P!Checkouts[k].url[1] = Lifecycle.id /\ P!Checkouts[k].ref = Lifecycle.ref
<1> USE PlanShape
<1>1. ASSUME NEW i \in DOMAIN PackageRefs
      PROVE  \E k \in P!Clones :
               /\ P!Checkouts[k].root = P!WorkspaceRoot(PackageRefs[i])
               /\ P!Checkouts[k].url[1] = PackageRefs[i].id /\ P!Checkouts[k].ref = PackageRefs[i].ref
  <2>1. i \in P!Packages /\ i \in 1..P!Final /\ i # P!Final
    BY PodAssumption
  <2>2. PICK k \in P!Clones : k <= i /\ k # P!Final /\ P!Checkouts[k].root = P!Checkouts[i].root
    BY <2>1, FirstIsCloned
  <2>3. k \in P!Packages
    BY <2>1, <2>2, ClonesAt
  <2>4. /\ P!Checkouts[i].root = P!WorkspaceRoot(PackageRefs[i])
        /\ P!Checkouts[k].root = P!WorkspaceRoot(PackageRefs[k])
        /\ P!Checkouts[k].url[1] = PackageRefs[k].id
        /\ P!Checkouts[k].ref = PackageRefs[k].ref
    BY <2>1, <2>3, CheckoutParts
  <2>5. P!WorkspaceKey(PackageRefs[k]) = P!WorkspaceKey(PackageRefs[i])
    BY <2>2, <2>4 DEF P!WorkspaceRoot
  <2>6. PackageRefs[k].id = PackageRefs[i].id /\ PackageRefs[k].ref = PackageRefs[i].ref
    BY <2>5 DEF P!WorkspaceKey
  <2> QED BY <2>2, <2>4, <2>6
<1>2. \E k \in P!Clones :
        /\ P!Checkouts[k].root = P!Project
        /\ P!Checkouts[k].url[1] = Lifecycle.id /\ P!Checkouts[k].ref = Lifecycle.ref
  <2>1. P!Final \in P!Clones
    BY DEF P!Clones
  <2> QED BY <2>1, CheckoutParts DEF P!Project
<1>3. ASSUME NEW i \in DOMAIN Grants
      PROVE  \E k \in P!Clones :
               /\ P!Checkouts[k].root = P!GrantRoot(Grants[i])
               /\ P!Checkouts[k].url[1] = Grants[i].id /\ P!Checkouts[k].ref = Grants[i].ref
  <2>1. CASE /\ P!GrantRoot(Grants[i]) = <<"platform">>
             /\ Grants[i].id = PackageRefs[1].id /\ Grants[i].ref = PackageRefs[1].ref
    <3>1. P!WorkspaceRoot(PackageRefs[1]) = <<"platform">> /\ 1 \in DOMAIN PackageRefs
      BY PodAssumption DEF P!WorkspaceRoot
    <3> QED BY <1>1, <2>1, <3>1
  <2>2. CASE /\ P!GrantRoot(Grants[i]) = <<"project">>
             /\ Grants[i].id = Lifecycle.id /\ Grants[i].ref = Lifecycle.ref
    BY <1>2, <2>2 DEF P!Project
  <2>3. CASE P!GrantRoot(Grants[i]) = <<"delivery", Grants[i].id, Grants[i].ref>>
    <3> DEFINE at == Len(PackageRefs) + i
    <3>1. at \in 1..P!Final /\ at # P!Final /\ at \notin P!Packages /\ at - Len(PackageRefs) = i
      BY PodAssumption
    <3>2. P!Checkouts[at].root = P!GrantRoot(Grants[i])
      BY <3>1, CheckoutParts
    <3> HIDE DEF at
    <3>3. PICK k \in P!Clones : k <= at /\ k # P!Final /\ P!Checkouts[k].root = P!Checkouts[at].root
      <4>1. P!Checkouts[at].root[1] = "delivery"
        BY <2>3, <3>2
      <4> QED BY <3>1, <4>1, FirstIsCloned
    <3>4. k \in 1..P!Final /\ P!Checkouts[k].root = <<"delivery", Grants[i].id, Grants[i].ref>>
      BY <2>3, <3>2, <3>3, ClonesAt
    <3>5. k \notin P!Packages
      <4> SUFFICES ASSUME k \in P!Packages PROVE FALSE
        OBVIOUS
      <4>1. P!Checkouts[k].root = P!WorkspaceRoot(PackageRefs[k])
        BY CheckoutParts
      <4>2. P!Checkouts[k].root[1] \in {"platform", "platforms"}
        BY <4>1, RootForms
      <4> QED BY <3>4, <4>2
    <3>6. PICK g \in DOMAIN Grants : /\ P!Checkouts[k].root = P!GrantRoot(Grants[g])
                                     /\ P!Checkouts[k].url[1] = Grants[g].id
                                     /\ P!Checkouts[k].ref = Grants[g].ref
      BY <3>3, <3>4, <3>5, CheckoutParts
    <3>8. P!GrantRoot(Grants[g])[1] = "delivery" /\ P!GrantRoot(Grants[g])[2] = Grants[i].id
          /\ P!GrantRoot(Grants[g])[3] = Grants[i].ref
      BY <3>4, <3>6
    <3>9. P!GrantRoot(Grants[g]) = <<"delivery", Grants[g].id, Grants[g].ref>>
      BY <3>8, RootForms
    <3>10. Grants[g].id = Grants[i].id /\ Grants[g].ref = Grants[i].ref
      BY <3>8, <3>9
    <3> QED BY <3>2, <3>3, <3>6, <3>10
  <2> QED BY <2>1, <2>2, <2>3, RootForms
<1> QED BY <1>1, <1>2, <1>3

\* Every clone has a ref that is set.
LEMMA CloneHasRef ==
  ASSUME NEW i \in 1..P!Final
  PROVE  P!Checkouts[i].ref # None
<1>1. CASE i \in P!Packages
  BY <1>1, CheckoutParts, PlanShape, PodAssumption
<1>2. CASE i = P!Final
  BY <1>2, CheckoutParts, PodAssumption
<1>3. CASE i \notin P!Packages /\ i # P!Final
  BY <1>3, CheckoutParts, PodAssumption
<1> QED BY <1>1, <1>2, <1>3

\* The next clone is the least that is left, or the end.
LEMMA NextIs ==
  ASSUME step \in P!Clones
  PROVE  /\ P!NextClone \in P!Clones \cup {P!Final + 1}
         /\ \A i \in P!Clones : i < P!NextClone => i < step \/ i = step
<1> DEFINE left == {i \in P!Clones : i > step} \cup {P!Final + 1}
<1>1. P!Final \in Nat /\ P!Clones \subseteq Nat
  BY PlanShape, ClonesAt
<1>a. left # {} /\ left \subseteq P!Clones \cup {P!Final + 1}
  OBVIOUS
<1>3. \A i \in P!Clones : i > step => i \in left
  OBVIOUS
<1>4. P!NextClone = CHOOSE n \in left : \A i \in left : n <= i
  BY DEF P!NextClone
<1> HIDE DEF left
<1>2. left \in SUBSET Nat /\ left # {} /\ left \subseteq P!Clones \cup {P!Final + 1}
  BY <1>1, <1>a
<1>5. P!NextClone \in left /\ \A i \in left : P!NextClone <= i
  BY <1>2, <1>4, LeastIs
<1>6. ASSUME NEW i \in P!Clones, i < P!NextClone PROVE i < step \/ i = step
  <2>1. i \in Nat /\ step \in Nat /\ P!NextClone \in Nat
    BY <1>1, <1>2, <1>5
  <2>2. i \notin left
    BY <1>5, <1>6, <2>1
  <2> QED BY <1>3, <2>1, <2>2
<1> QED BY <1>2, <1>5, <1>6

LEMMA PodStart == P!Init => PodInv
<1> SUFFICES ASSUME P!Init PROVE PodInv
  OBVIOUS
<1>1. P!Final \in Nat /\ Commands \in Nat /\ MaxPodFaults \in Nat
  BY PlanShape, PodAssumption
<1>2. DOMAIN pDisk = P!Dirs /\ \A d \in P!Dirs : pDisk[d].st = "absent"
  BY DEF P!Init, P!Absent
<1>3. P!TypeOK
  <2>1. step \in 1..(P!Final + Commands + 1) /\ pFaults \in 0..MaxPodFaults
    BY <1>1 DEF P!Init
  <2>2. manifest \in {"absent", "good", "bad"} /\ codex \subseteq UserEnv
    BY DEF P!Init
  <2> QED BY <1>2, <2>1, <2>2 DEF P!Init, P!TypeOK
<1>4. PodPlan
  BY <1>2 DEF P!Init, PodPlan
<1>5. P!SecretsStayOut /\ P!ExitTells /\ (manifest = "absent" => Secrets = {})
  BY DEF P!Init, P!SecretsStayOut, P!ExitTells
<1> QED BY <1>3, <1>4, <1>5 DEF PodInv

\* The container stops, with a failure.
LEMMA FailedLaunch ==
  ASSUME PodInv, P!Exit(1), DOMAIN pDisk' = P!Dirs,
         \A d \in P!Dirs : pDisk'[d].st \in {"absent", "fetch", "tree", "whole"},
         UNCHANGED <<manifest, codex, status, deleted>>, pFaults' \in 0..MaxPodFaults
  PROVE  PodInv'
<1>1. 1 \in 1..(P!Final + Commands + 1)
  BY PlanShape, PodAssumption
<1>2. P!TypeOK'
  <2>1. pPc' = "down" /\ exit' \in 0..255 \cup {None} /\ pEngine' = "none" /\ straggler' = FALSE /\ step' = 1
    BY DEF P!Exit
  <2>2. manifest \in {"absent", "good", "bad"} /\ codex \subseteq UserEnv /\ status \in {0, 1, 256, None} /\ deleted \in BOOLEAN
    BY DEF PodInv, P!TypeOK
  <2> QED BY <1>1, <2>1, <2>2 DEF P!TypeOK
<1>3. PodPlan'
  BY DEF PodInv, PodPlan, P!Exit
<1>4. P!SecretsStayOut' /\ P!ExitTells' /\ (manifest' = "absent" => Secrets = {})
  BY DEF PodInv, P!SecretsStayOut, P!ExitTells, P!Exit
<1> QED BY <1>2, <1>3, <1>4 DEF PodInv

LEMMA FaultCounts ==
  ASSUME PodInv, NEW kind, P!Fault(kind)
  PROVE  pFaults' \in 0..MaxPodFaults
BY PodAssumption DEF PodInv, P!TypeOK, P!Fault

LEMMA FailureSteps ==
  ASSUME PodInv,
         P!CredentialsFail \/ P!CloneFails \/ P!InstallFails \/ P!Killed
  PROVE  PodInv'
<1>1. P!Exit(1) /\ UNCHANGED <<pDisk, manifest, codex, status, deleted>> /\ \E kind : P!Fault(kind)
  BY DEF P!CredentialsFail, P!CloneFails, P!InstallFails, P!Killed
<1>2. pFaults' \in 0..MaxPodFaults
  BY <1>1, FaultCounts
<1>3. DOMAIN pDisk' = P!Dirs /\ \A d \in P!Dirs : pDisk'[d].st \in {"absent", "fetch", "tree", "whole"}
  BY <1>1 DEF PodInv, PodPlan, P!TypeOK
<1> QED BY <1>1, <1>2, <1>3, FailedLaunch

\* The next clone of a launch has a directory of its own.
LEMMA CloneAt ==
  ASSUME PodInv, pPc = "clone", step <= P!Final
  PROVE  /\ step \in P!Clones /\ P!Checkouts[step].root \in P!Dirs
         /\ P!Checkouts[step].ref # None
<1>1. P!Final \in Nat
  BY PlanShape
<1>2. step \in P!Clones
  BY <1>1 DEF PodInv, PodPlan
<1> QED BY <1>2, ClonesAt, CloneHasRef DEF P!Dirs

LEMMA KilledInCloneStep ==
  ASSUME PodInv, P!KilledInClone
  PROVE  PodInv'
<1>1. P!Checkouts[step].root \in P!Dirs /\ DOMAIN pDisk = P!Dirs
  BY CloneAt DEF P!KilledInClone, PodInv, PodPlan
<1>2. PICK left \in P!CutOff(P!Checkouts[step]) :
        pDisk' = [pDisk EXCEPT ![P!Checkouts[step].root] = left]
  BY DEF P!KilledInClone
<1>a. left.st \in {"fetch", "tree"}
  BY DEF P!CutOff
<1>3. DOMAIN pDisk' = P!Dirs /\ \A d \in P!Dirs : pDisk'[d].st \in {"absent", "fetch", "tree", "whole"}
  BY <1>1, <1>2, <1>a DEF PodInv, P!TypeOK
<1>4. P!Exit(1) /\ UNCHANGED <<manifest, codex, status, deleted>> /\ P!Fault("kill_clone")
  BY DEF P!KilledInClone
<1> QED BY <1>3, <1>4, FaultCounts, FailedLaunch

\* What a clone leaves, reused or new.
LEMMA CloneGives ==
  ASSUME PodInv, P!Clone, pPc' = "clone"
  PROVE  /\ DOMAIN pDisk' = P!Dirs
         /\ \A d \in P!Dirs : pDisk'[d].st \in {"absent", "fetch", "tree", "whole"}
         /\ step' = P!NextClone /\ PodGood(pDisk', P!Checkouts[step])
         /\ \A i \in P!Clones : PodGood(pDisk, P!Checkouts[i]) => PodGood(pDisk', P!Checkouts[i])
<1> DEFINE c == P!Checkouts[step]
<1>1. /\ step \in P!Clones /\ c.root \in P!Dirs /\ c.ref # None /\ DOMAIN pDisk = P!Dirs
  BY CloneAt DEF P!Clone, PodInv, PodPlan
<1>2. /\ step' = P!NextClone
      /\ pDisk[c.root].st # "absent" => P!Valid(c.root, c)
      /\ pDisk' = [pDisk EXCEPT ![c.root] =
                     IF pDisk[c.root].st = "absent" THEN [st |-> "whole", url |-> c.url, ref |-> c.ref]
                     ELSE pDisk[c.root]]
  BY DEF P!Clone, P!Exit
<1> HIDE DEF c
<1>3. /\ DOMAIN pDisk' = P!Dirs
      /\ \A d \in P!Dirs : d # c.root => pDisk'[d] = pDisk[d]
      /\ pDisk'[c.root] = IF pDisk[c.root].st = "absent" THEN [st |-> "whole", url |-> c.url, ref |-> c.ref]
                          ELSE pDisk[c.root]
  BY <1>1, <1>2
<1>4. /\ pDisk'[c.root].st # "absent" /\ pDisk'[c.root].st \in {"absent", "fetch", "tree", "whole"}
      /\ pDisk'[c.root].url = c.url /\ pDisk'[c.root].ref = c.ref
  <2>1. CASE pDisk[c.root].st = "absent"
    BY <1>3, <2>1
  <2>2. CASE pDisk[c.root].st # "absent"
    BY <1>1, <1>2, <1>3, <2>2 DEF P!Valid, PodInv, P!TypeOK
  <2> QED BY <2>1, <2>2
<1>5. PodGood(pDisk', P!Checkouts[step])
  BY <1>4 DEF PodGood, c
<1>6. ASSUME NEW i \in P!Clones, PodGood(pDisk, P!Checkouts[i]) PROVE PodGood(pDisk', P!Checkouts[i])
  <2>1. CASE i = step
    BY <1>5, <2>1
  <2>2. CASE i # step
    <3>1. P!Checkouts[i].root # c.root /\ P!Checkouts[i].root \in P!Dirs
      BY <1>1, <2>2, ClonesApart DEF c, P!Dirs
    <3>2. pDisk'[P!Checkouts[i].root] = pDisk[P!Checkouts[i].root]
      BY <1>3, <3>1
    <3> QED BY <1>6, <3>2 DEF PodGood
  <2> QED BY <2>1, <2>2
<1>7. \A d \in P!Dirs : pDisk'[d].st \in {"absent", "fetch", "tree", "whole"}
  BY <1>1, <1>3, <1>4 DEF PodInv, P!TypeOK
<1> QED BY <1>2, <1>3, <1>5, <1>6, <1>7

LEMMA CloneStep ==
  ASSUME PodInv, P!Clone
  PROVE  PodInv'
<1>1. CASE pPc' = "clone"
  <2>1. /\ DOMAIN pDisk' = P!Dirs
        /\ \A d \in P!Dirs : pDisk'[d].st \in {"absent", "fetch", "tree", "whole"}
        /\ step' = P!NextClone /\ PodGood(pDisk', P!Checkouts[step])
        /\ \A i \in P!Clones : PodGood(pDisk, P!Checkouts[i]) => PodGood(pDisk', P!Checkouts[i])
    BY <1>1, CloneGives
  <2>2. step \in P!Clones
    BY CloneAt DEF P!Clone
  <2>3. /\ step' \in P!Clones \cup {P!Final + 1}
        /\ \A i \in P!Clones : i < step' => i < step \/ i = step
    BY <2>1, <2>2, NextIs
  <2>4. step' \in 1..(P!Final + Commands + 1)
    BY <2>3, ClonesAt, PlanShape, PodAssumption
  <2>5. UNCHANGED <<manifest, codex, pEngine, straggler, status, exit, deleted, pFaults>>
    BY <1>1 DEF P!Clone, P!Exit
  <2>6. P!TypeOK'
    BY <1>1, <2>1, <2>4, <2>5 DEF PodInv, P!TypeOK
  <2>7. ASSUME NEW i \in P!Clones, i < step' PROVE PodGood(pDisk', P!Checkouts[i])
    <3>1. pPc = "clone" /\ (i < step \/ i = step)
      BY <2>3, <2>7 DEF P!Clone
    <3>2. i < step => PodGood(pDisk, P!Checkouts[i])
      BY <3>1 DEF PodInv, PodPlan
    <3> QED BY <2>1, <3>1, <3>2
  <2>8. PodPlan'
    <3>1. pPc = "clone" /\ pEngine # "running"
      BY DEF P!Clone, PodInv, PodPlan
    <3> QED BY <1>1, <2>1, <2>3, <2>5, <2>7, <3>1 DEF PodPlan
  <2>9. P!SecretsStayOut' /\ P!ExitTells' /\ (manifest' = "absent" => Secrets = {})
    BY <1>1, <2>5 DEF PodInv, P!SecretsStayOut, P!ExitTells
  <2> QED BY <2>6, <2>8, <2>9 DEF PodInv
<1>2. CASE pPc' # "clone"
  <2>1. P!Exit(1) /\ UNCHANGED <<pDisk, manifest, codex, status, deleted, pFaults>>
    BY <1>2 DEF P!Clone
  <2> QED BY <2>1, FailedLaunch DEF PodInv, PodPlan, P!TypeOK
<1> QED BY <1>1, <1>2

\* A step of the launch that does not end it.
LEMMA LaunchGoesOn ==
  ASSUME PodInv, P!TypeOK', PodPlan', UNCHANGED <<manifest, codex>>, pPc' # "down"
  PROVE  PodInv'
BY DEF PodInv, P!SecretsStayOut, P!ExitTells

LEMMA BeforeClones ==
  ASSUME PodInv, P!Start \/ P!Credentials
  PROVE  PodInv'
<1>1. P!Final \in Nat /\ Commands \in Nat /\ 1 \in P!Packages /\ 1 \in 1..P!Final
  BY PlanShape, PodAssumption
<1>2. step' = 1 /\ pPc' \in {"creds", "clone"} /\ pEngine # "running"
  BY DEF P!Start, P!Credentials, PodInv, PodPlan
<1>3. UNCHANGED <<pDisk, manifest, codex, pEngine, straggler, status, exit, deleted, pFaults>>
  BY DEF P!Start, P!Credentials
<1>4. P!TypeOK'
  <2>1. step' \in 1..(P!Final + Commands + 1)
    BY <1>1, <1>2
  <2> QED BY <1>2, <1>3, <2>1 DEF PodInv, P!TypeOK
<1>5. 1 \in P!Clones
  BY <1>1 DEF P!Clones
<1>6. \A i \in P!Clones : ~(i < 1)
  BY <1>1, ClonesAt
<1>7. PodPlan'
  BY <1>2, <1>3, <1>5, <1>6 DEF PodInv, PodPlan
<1> QED BY <1>2, <1>3, <1>4, <1>7, LaunchGoesOn

LEMMA AfterClones ==
  ASSUME PodInv, P!FetchExtraRef \/ P!Prepare \/ P!Install \/ P!Supervise \/ P!EngineExits \/ P!Reaped
  PROVE  PodInv'
<1>1. P!Final \in Nat /\ Commands \in Nat /\ P!Clones \subseteq 1..P!Final
  BY PlanShape, PodAssumption, ClonesAt
<1>2. /\ pPc \in {"clone", "prepare", "install", "ready", "engine"}
      /\ pPc' \in {"prepare", "install", "ready", "engine", "drain"}
      /\ pPc = "clone" => step > P!Final
      /\ UNCHANGED <<pDisk, manifest, codex, exit, deleted>>
  BY DEF P!FetchExtraRef, P!Prepare, P!Install, P!Supervise, P!EngineExits, P!Reaped
<1>3. \A i \in P!Clones : PodGood(pDisk, P!Checkouts[i])
  <2>1. CASE pPc = "clone"
    <3>1. \A i \in P!Clones : i < step
      <4>1. step \in P!Clones \cup {P!Final + 1}
        BY <2>1 DEF PodInv, PodPlan
      <4> QED BY <1>1, <1>2, <2>1, <4>1
    <3> QED BY <2>1, <3>1 DEF PodInv, PodPlan
  <2>2. CASE pPc # "clone"
    BY <1>2, <2>2 DEF PodInv, PodPlan
  <2> QED BY <2>1, <2>2
<1>4. pEngine' = "running" => pPc' = "engine"
  BY DEF PodInv, PodPlan, P!FetchExtraRef, P!Prepare, P!Install, P!Supervise, P!EngineExits, P!Reaped
<1>5. PodPlan'
  BY <1>2, <1>3, <1>4 DEF PodInv, PodPlan
<1>6. P!TypeOK'
  <2>1. step' \in 1..(P!Final + Commands + 1)
    BY <1>1 DEF PodInv, P!TypeOK, P!FetchExtraRef, P!Prepare, P!Install, P!Supervise, P!EngineExits, P!Reaped
  <2>2. pFaults' \in 0..MaxPodFaults
    BY FaultCounts DEF PodInv, P!TypeOK, P!FetchExtraRef, P!Prepare, P!Install, P!Supervise, P!EngineExits, P!Reaped
  <2>3. pEngine' \in {"none", "running", "exited"} /\ straggler' \in BOOLEAN
    BY DEF PodInv, P!TypeOK, P!FetchExtraRef, P!Prepare, P!Install, P!Supervise, P!EngineExits, P!Reaped
  <2>4. status' \in {0, 1, 256, None}
    BY DEF PodInv, P!TypeOK, P!FetchExtraRef, P!Prepare, P!Install, P!Supervise, P!EngineExits, P!Reaped
  <2> QED BY <1>2, <2>1, <2>2, <2>3, <2>4 DEF PodInv, P!TypeOK
<1>7. pPc' # "down"
  BY <1>2
<1> QED BY <1>2, <1>5, <1>6, <1>7, LaunchGoesOn

\* Neither a secret nor a name of the platform is rendered, whatever was mounted.
LEMMA RenderStep ==
  ASSUME PodInv, P!RenderCodex
  PROVE  PodInv'
<1>1. /\ pPc = "install" /\ pPc' = "ready" /\ codex' = P!NonSecretVariables
      /\ UNCHANGED <<step, pDisk, manifest, pEngine, straggler, status, exit, deleted, pFaults>>
  BY DEF P!RenderCodex
<1>2. P!NonSecretVariables \subseteq UserEnv /\ P!NonSecretVariables \cap (Secrets \cup Reserved) = {}
  <2>1. manifest \in {"absent", "good", "bad"} /\ (manifest = "absent" => Secrets = {})
    BY DEF PodInv, P!TypeOK
  <2>2. CASE manifest = "good"
    <3>1. P!NonSecretVariables = (UserEnv \ Reserved) \ Secrets
      BY <2>2 DEF P!NonSecretVariables, P!ReadSecretKeys, P!ProfileEnv
    <3> QED BY <3>1
  <2>3. CASE manifest = "absent"
    <3>1. P!NonSecretVariables = (UserEnv \ Reserved) \ {}
      BY <2>3 DEF P!NonSecretVariables, P!ReadSecretKeys, P!ProfileEnv
    <3> QED BY <2>1, <2>3, <3>1
  <2>4. CASE manifest = "bad"
    <3>1. P!NonSecretVariables = {}
      BY <2>4 DEF P!NonSecretVariables, P!ReadSecretKeys, P!ProfileEnv
    <3> QED BY <3>1
  <2> QED BY <2>1, <2>2, <2>3, <2>4
<1>3. P!TypeOK'
  BY <1>1, <1>2 DEF PodInv, P!TypeOK
<1>4. PodPlan'
  BY <1>1 DEF PodInv, PodPlan
<1>5. P!SecretsStayOut' /\ P!ExitTells' /\ (manifest' = "absent" => Secrets = {})
  BY <1>1, <1>2 DEF PodInv, P!SecretsStayOut, P!ExitTells
<1> QED BY <1>3, <1>4, <1>5 DEF PodInv

\* The exit code is that of the engine.
LEMMA FinishStep ==
  ASSUME PodInv, P!Finish
  PROVE  PodInv'
<1>1. /\ pPc' = "down" /\ exit' = P!ExitStatusToCode(status) /\ pEngine' = "none"
      /\ straggler' = FALSE /\ step' = 1
      /\ UNCHANGED <<pDisk, manifest, codex, status, deleted, pFaults>>
  BY DEF P!Finish, P!Exit
<1>2. P!ExitStatusToCode(status) \in 0..255 /\ (P!ExitStatusToCode(status) = 0 => status = 0)
  <2>1. status \in {0, 1, 256, None}
    BY DEF PodInv, P!TypeOK
  <2>2. CASE status = 0
    BY <2>2 DEF P!ExitStatusToCode
  <2>3. CASE status = None /\ status # 0
    BY <2>3 DEF P!ExitStatusToCode
  <2>4. CASE status = 1 /\ status # None
    <3>1. 1 % 256 = 1
      OBVIOUS
    <3> QED BY <2>4, <3>1 DEF P!ExitStatusToCode
  <2>5. CASE status = 256 /\ status # None
    <3>1. 256 % 256 = 0
      OBVIOUS
    <3> QED BY <2>5, <3>1 DEF P!ExitStatusToCode
  <2> QED BY <2>1, <2>2, <2>3, <2>4, <2>5
<1>3. 1 \in 1..(P!Final + Commands + 1)
  BY PlanShape, PodAssumption
<1>4. P!TypeOK'
  BY <1>1, <1>2, <1>3 DEF PodInv, P!TypeOK
<1>5. PodPlan'
  BY <1>1 DEF PodInv, PodPlan
<1>6. P!SecretsStayOut' /\ P!ExitTells' /\ (manifest' = "absent" => Secrets = {})
  BY <1>1, <1>2 DEF PodInv, P!SecretsStayOut, P!ExitTells
<1> QED BY <1>4, <1>5, <1>6 DEF PodInv

LEMMA PodEndSteps ==
  ASSUME PodInv, P!StragglerEnds \/ P!Delete
  PROVE  PodInv'
<1>1. CASE P!StragglerEnds \/ (P!Delete /\ pPc \in {"engine", "drain", "down"})
  <2>1. UNCHANGED <<pPc, step, pDisk, manifest, codex, pEngine, status, exit, pFaults>>
    BY <1>1 DEF P!StragglerEnds, P!Delete
  <2>2. straggler' \in BOOLEAN /\ deleted' \in BOOLEAN
    BY <1>1 DEF P!StragglerEnds, P!Delete, PodInv, P!TypeOK
  <2>3. P!TypeOK'
    BY <2>1, <2>2 DEF PodInv, P!TypeOK
  <2>4. PodPlan'
    BY <2>1 DEF PodInv, PodPlan
  <2> QED BY <2>1, <2>3, <2>4 DEF PodInv, P!SecretsStayOut, P!ExitTells
<1>2. CASE P!Delete /\ pPc \notin {"engine", "drain", "down"}
  <2>1. /\ pPc' = "down" /\ exit' = 1 /\ pEngine' = "none" /\ straggler' = FALSE /\ step' = 1
        /\ deleted' = TRUE /\ UNCHANGED <<pDisk, manifest, codex, status, pFaults>>
    BY <1>2 DEF P!Delete, P!Exit
  <2>2. 1 \in 1..(P!Final + Commands + 1)
    BY PlanShape, PodAssumption
  <2>3. P!TypeOK'
    <3>1. /\ manifest \in {"absent", "good", "bad"} /\ codex \subseteq UserEnv
          /\ status \in {0, 1, 256, None} /\ pFaults \in 0..MaxPodFaults
          /\ \A d \in P!Dirs : pDisk[d].st \in {"absent", "fetch", "tree", "whole"}
      BY DEF PodInv, P!TypeOK
    <3>2. exit' \in 0..255 \cup {None}
      BY <2>1
    <3> QED BY <2>1, <2>2, <3>1, <3>2 DEF P!TypeOK
  <2>4. PodPlan'
    BY <2>1 DEF PodInv, PodPlan
  <2>5. P!SecretsStayOut' /\ P!ExitTells' /\ (manifest' = "absent" => Secrets = {})
    BY <2>1 DEF PodInv, P!SecretsStayOut, P!ExitTells
  <2> QED BY <2>3, <2>4, <2>5 DEF PodInv
<1> QED BY <1>1, <1>2

LEMMA PodStep ==
  ASSUME PodInv, [P!Next]_podVars
  PROVE  PodInv'
<1>1. CASE P!Next
  BY <1>1, BeforeClones, CloneStep, AfterClones, RenderStep, FinishStep, FailureSteps,
     KilledInCloneStep, PodEndSteps, Zenon DEF P!Next, P!Launch
<1>2. CASE UNCHANGED podVars
  BY <1>2 DEF podVars, PodInv, PodPlan, P!TypeOK, P!SecretsStayOut, P!ExitTells
<1> QED BY <1>1, <1>2

\* While the engine runs, what was asked for is where it is looked for.
LEMMA PodInvGivesSafe == PodInv => P!PodSafe
<1> SUFFICES ASSUME PodInv PROVE P!EngineOnPlan
  BY DEF PodInv, P!PodSafe
<1> SUFFICES ASSUME pEngine = "running"
             PROVE  /\ \A i \in DOMAIN PackageRefs : P!Holds(P!WorkspaceRoot(PackageRefs[i]), PackageRefs[i])
                    /\ \A i \in DOMAIN Grants : P!Holds(P!GrantRoot(Grants[i]), Grants[i])
                    /\ P!Holds(P!Project, Lifecycle)
  BY DEF P!EngineOnPlan
<1>1. \A k \in P!Clones : PodGood(pDisk, P!Checkouts[k])
  BY DEF PodInv, PodPlan
<1>2. ASSUME NEW k \in P!Clones, NEW dir, NEW r,
             P!Checkouts[k].root = dir, P!Checkouts[k].url[1] = r.id, P!Checkouts[k].ref = r.ref
      PROVE  P!Holds(dir, r)
  BY <1>1, <1>2 DEF PodGood, P!Holds
<1> QED BY <1>2, AskedIsCloned

\* A container that was cut off anywhere leaves checkouts that a later launch
\* refuses or that hold what it asks for: the engine never runs on another ref,
\* no secret reaches the plaintext configuration, and success is the engine's own
\* (session_pod/driver.rs, plan.rs, supervise.rs).
THEOREM PodsAreSafe == PartSpec => []PodSafe
<1> DEFINE I == part = "pod" => PodInv
<1>1. PartInit => I
  BY PodStart DEF PartInit
<1>2. I /\ [PartNext]_allVars => I'
  <2> SUFFICES ASSUME I, [PartNext]_allVars, part' = "pod" PROVE PodInv'
    OBVIOUS
  <2>1. part = "pod" /\ [P!Next]_podVars
    BY DEF PartNext, allVars
  <2> QED BY <2>1, PodStep
<1>3. I => PodSafe
  BY PodInvGivesSafe DEF PodSafe
<1> QED BY <1>1, <1>2, <1>3, PTL DEF PartSpec

-----------------------------------------------------------------------------
(* The chat                                                                 *)

ChatFrames == {"none", "round", "delta", "round_end", "tool_call", "tool_result", "card",
               "proposal", "done", "error"}
ChatWork == {"round", "stream", "closing", "finish", "call", "invoke", "extra", "result"}
ChatLive == ChatWork \cup {"fail", "end"}
ChatHolds == ChatLive \cup {"grace"}
ChatCall(k) == [name : Chats[k].Tools \cup {""}, args : {"", "part", "whole"},
                bad : Chats[k].Defects \cup {"none"}]
ChatStream(k) == [tool : ChatCall(k), open : BOOLEAN, flushed : BOOLEAN, n : Nat]
ChatMessage == [kind : {"assistant", "tool"}, n : Nat]
ChatRecord(k) ==
  [pc : ChatHolds \cup {"new", "rejected", "dropped", "ended"}, round : 0..Chats[k].MaxRounds,
   sse : ChatStream(k), calls : Seq(ChatCall(k)), at : Nat, msgs : Seq(ChatMessage),
   frame : {"none", "card", "proposal"}, ran : SUBSET {"", "whole"}]
ChatTurn(k) ==
  {x \in ChatRecord(k) : x.pc \in ChatWork \ {"round"} => x.round < Chats[k].MaxRounds}

\* Every tool call in the first n messages has its results there, in order.
Answered(m, n) ==
  \A i \in 1..n : m[i].kind = "assistant" =>
    /\ i + m[i].n <= n
    /\ \A j \in 1..m[i].n : m[i + j] = [kind |-> "tool", n |-> j]

\* The calls of the last assistant message, at index a, are answered below at.
Answering(x, a) ==
  /\ x.at \in 1..Len(x.calls) /\ a \in 1..Len(x.msgs) /\ a + x.at = Len(x.msgs) + 1
  /\ x.msgs[a] = [kind |-> "assistant", n |-> Len(x.calls)]
  /\ \A j \in 1..(x.at - 1) : x.msgs[a + j] = [kind |-> "tool", n |-> j]
  /\ Answered(x.msgs, a - 1)

ChatHistory(x) ==
  /\ x.pc \in {"new", "grace", "round", "stream", "closing", "finish"} => Answered(x.msgs, Len(x.msgs))
  /\ x.pc \in {"call", "invoke", "extra", "result"} => \E a \in 1..Len(x.msgs) : Answering(x, a)

\* The terminal frame is the last one, and comes when the task ends.
ChatFrame(x, s, c) ==
  /\ x.pc \notin {"end", "ended"} => s.terminal = 0
  /\ x.pc \in {"end", "ended"} /\ c = "there" => s.terminal = 1
  /\ s.terminal = 1 => s.last \in {"done", "error"}

ChatShape(k) ==
  /\ cTurn \in [Chats[k].Turns -> ChatTurn(k)]
  /\ cQueue \in [Chats[k].Turns -> 0..Chats[k].Buffer]
  /\ cSent \in [Chats[k].Turns -> [last : ChatFrames, terminal : {0, 1}]]
  /\ cClient \in [Chats[k].Turns -> {"there", "gone"}]
  /\ cPermits \in SUBSET Chats[k].Turns /\ Cardinality(cPermits) <= Chats[k].MaxConcurrent

ChatTold(k) ==
  \A t \in Chats[k].Turns : ChatHistory(cTurn[t]) /\ ChatFrame(cTurn[t], cSent[t], cClient[t])

\* Whoever holds a place is in the user's entry, alone, and has a permit while it
\* is driven; an entry that nobody holds was left by a browser.
ChatPlaces(k) ==
  /\ \A t \in Chats[k].Turns :
       /\ cTurn[t].pc \in ChatHolds => Chats[k].User[t] \in cInflight
       /\ cTurn[t].pc \in ChatLive => t \in cPermits
  /\ \A t, u \in Chats[k].Turns :
       /\ cTurn[t].pc \in ChatHolds /\ cTurn[u].pc \in ChatHolds
       /\ Chats[k].User[t] = Chats[k].User[u]
       => t = u
  /\ \A v \in {Chats[k].User[t] : t \in Chats[k].Turns} : v \in cInflight =>
       \E t \in Chats[k].Turns : Chats[k].User[t] = v /\ cTurn[t].pc \in ChatHolds \cup {"dropped"}

ChatInv(k) == ChatShape(k) /\ ChatTold(k) /\ ChatPlaces(k)

\* A step of a task, that stays in its place.
LEMMA TurnMoves ==
  ASSUME NEW k \in DOMAIN Chats, ChatInv(k), NEW t \in Chats[k].Turns, NEW r \in ChatTurn(k),
         cTurn' = [cTurn EXCEPT ![t] = r], cTurn[t].pc \in ChatLive, r.pc \in ChatLive,
         ChatHistory(r), ChatFrame(r, cSent'[t], cClient[t]),
         cQueue' \in [Chats[k].Turns -> 0..Chats[k].Buffer],
         cSent' \in [Chats[k].Turns -> [last : ChatFrames, terminal : {0, 1}]],
         \A u \in Chats[k].Turns : u # t => cSent'[u] = cSent[u],
         UNCHANGED <<cInflight, cPermits, cClient>>
  PROVE  ChatInv(k)'
<1>1. /\ cTurn' \in [Chats[k].Turns -> ChatTurn(k)] /\ cTurn'[t] = r
      /\ \A u \in Chats[k].Turns : u # t => cTurn'[u] = cTurn[u]
  BY DEF ChatInv, ChatShape
<1>2. ChatShape(k)'
  BY <1>1 DEF ChatInv, ChatShape
<1>3. ChatTold(k)'
  <2> SUFFICES ASSUME NEW u \in Chats[k].Turns
               PROVE  ChatHistory(cTurn'[u]) /\ ChatFrame(cTurn'[u], cSent'[u], cClient'[u])
    BY DEF ChatTold
  <2>1. CASE u = t
    BY <1>1, <2>1
  <2>2. CASE u # t
    BY <1>1, <2>2 DEF ChatInv, ChatTold
  <2> QED BY <2>1, <2>2
<1>4. \A u \in Chats[k].Turns :
        /\ cTurn'[u].pc \in ChatHolds <=> cTurn[u].pc \in ChatHolds
        /\ cTurn'[u].pc \in ChatLive <=> cTurn[u].pc \in ChatLive
        /\ cTurn[u].pc \in ChatHolds \cup {"dropped"} => cTurn'[u].pc \in ChatHolds \cup {"dropped"}
  BY <1>1 DEF ChatHolds
<1>5. ChatPlaces(k)'
  BY <1>4 DEF ChatInv, ChatPlaces
<1> QED BY <1>2, <1>3, <1>5 DEF ChatInv

\* What a turn is made of.
LEMMA TurnParts ==
  ASSUME NEW k \in DOMAIN Chats, NEW x \in ChatTurn(k)
  PROVE  /\ x.sse \in ChatStream(k) /\ x.calls \in Seq(ChatCall(k)) /\ x.at \in Nat
         /\ x.msgs \in Seq(ChatMessage) /\ x.frame \in {"none", "card", "proposal"}
         /\ x.ran \in SUBSET {"", "whole"} /\ x.round \in 0..Chats[k].MaxRounds
BY DEF ChatTurn, ChatRecord, ChatHolds

\* A step that sends nothing.
LEMMA TurnWorks ==
  ASSUME NEW k \in DOMAIN Chats, ChatInv(k), NEW t \in Chats[k].Turns, NEW r \in ChatTurn(k),
         cTurn' = [cTurn EXCEPT ![t] = r], cTurn[t].pc \in ChatWork, r.pc \in ChatWork \cup {"fail"},
         ChatHistory(r), UNCHANGED <<cInflight, cPermits, cQueue, cSent, cClient>>
  PROVE  ChatInv(k)'
<1>1. ChatFrame(r, cSent'[t], cClient[t])
  BY DEF ChatInv, ChatTold, ChatFrame, ChatWork
<1>2. cTurn[t].pc \in ChatLive /\ r.pc \in ChatLive
  BY DEF ChatLive
<1>3. /\ cQueue' \in [Chats[k].Turns -> 0..Chats[k].Buffer]
      /\ cSent' \in [Chats[k].Turns -> [last : ChatFrames, terminal : {0, 1}]]
  BY DEF ChatInv, ChatShape
<1> QED BY <1>1, <1>2, <1>3, TurnMoves

\* A frame that is sent, or the client that is found gone.
LEMMA TurnSends ==
  ASSUME NEW k \in DOMAIN Chats, ChatInv(k), NEW t \in Chats[k].Turns, NEW r \in ChatTurn(k),
         NEW f \in ChatFrames, C(k)!Sending(t, f, r),
         cTurn[t].pc \in ChatWork \cup {"fail"}, r.pc \in ChatWork \cup {"end"},
         f \in {"done", "error"} <=> r.pc = "end",
         ChatHistory(r), UNCHANGED <<cInflight, cPermits, cClient>>
  PROVE  ChatInv(k)'
<1>1. cTurn \in [Chats[k].Turns -> ChatTurn(k)] /\ cTurn[t] \in ChatTurn(k)
  BY DEF ChatInv, ChatShape
<1>2. CASE cClient[t] = "gone"
  <2> DEFINE e == [cTurn[t] EXCEPT !.pc = "end"]
  <2>1. cTurn' = [cTurn EXCEPT ![t] = e] /\ UNCHANGED <<cQueue, cSent>>
    BY <1>2 DEF C!Sending
  <2>2. e \in ChatTurn(k) /\ e.pc = "end"
    BY <1>1 DEF ChatTurn, ChatRecord, ChatHolds, ChatLive, ChatWork
  <2> HIDE DEF e
  <2>3. ChatFrame(e, cSent'[t], cClient[t])
    BY <1>2, <2>1, <2>2 DEF ChatInv, ChatTold, ChatFrame, ChatWork
  <2>4. ChatHistory(e)
    BY <2>2 DEF ChatHistory
  <2>5. /\ cQueue' \in [Chats[k].Turns -> 0..Chats[k].Buffer]
        /\ cSent' \in [Chats[k].Turns -> [last : ChatFrames, terminal : {0, 1}]]
    BY <2>1 DEF ChatInv, ChatShape
  <2>6. cTurn[t].pc \in ChatLive /\ e.pc \in ChatLive
    BY <2>2 DEF ChatLive
  <2> QED BY <2>1, <2>2, <2>3, <2>4, <2>5, <2>6, TurnMoves
<1>3. CASE cClient[t] # "gone"
  <2>1. /\ cTurn' = [cTurn EXCEPT ![t] = r] /\ cQueue' = [cQueue EXCEPT ![t] = @ + 1]
        /\ cQueue[t] < Chats[k].Buffer
        /\ cSent' = [cSent EXCEPT ![t].last = f,
                       ![t].terminal = IF f \in {"done", "error"} THEN @ + 1 ELSE @]
    BY <1>3 DEF C!Sending, C!CanSend, C!Terminal
  <2>2. /\ cSent[t].terminal = 0 /\ cSent[t] \in [last : ChatFrames, terminal : {0, 1}]
        /\ cSent \in [Chats[k].Turns -> [last : ChatFrames, terminal : {0, 1}]]
    BY DEF ChatInv, ChatTold, ChatFrame, ChatWork, ChatShape
  <2>3. /\ cSent'[t].last = f /\ cSent'[t].terminal = IF f \in {"done", "error"} THEN 1 ELSE 0
        /\ cSent' \in [Chats[k].Turns -> [last : ChatFrames, terminal : {0, 1}]]
        /\ \A u \in Chats[k].Turns : u # t => cSent'[u] = cSent[u]
    BY <2>1, <2>2
  <2>4. cQueue' \in [Chats[k].Turns -> 0..Chats[k].Buffer]
    BY <2>1, ChatAssumption DEF ChatInv, ChatShape
  <2>5. ChatFrame(r, cSent'[t], cClient[t])
    BY <2>3 DEF ChatFrame, ChatWork
  <2>6. cTurn[t].pc \in ChatLive /\ r.pc \in ChatLive
    BY DEF ChatLive
  <2> QED BY <2>1, <2>3, <2>4, <2>5, <2>6, TurnMoves
<1> QED BY <1>2, <1>3

\* What the steps of a task start from.
LEMMA TurnNow ==
  ASSUME NEW k \in DOMAIN Chats, ChatInv(k), NEW t \in Chats[k].Turns
  PROVE  /\ cTurn \in [Chats[k].Turns -> ChatTurn(k)] /\ cTurn[t] \in ChatTurn(k)
         /\ ChatHistory(cTurn[t])
BY DEF ChatInv, ChatShape, ChatTold

\* The turn ends in an error that is still to be told.
LEMMA FailStep ==
  ASSUME NEW k \in DOMAIN Chats, ChatInv(k), NEW t \in Chats[k].Turns, cTurn[t].pc \in ChatWork,
         cTurn' = [cTurn EXCEPT ![t].pc = "fail"],
         UNCHANGED <<cInflight, cPermits, cQueue, cSent, cClient>>
  PROVE  ChatInv(k)'
<1> DEFINE r == [cTurn[t] EXCEPT !.pc = "fail"]
<1>1. cTurn[t] \in ChatTurn(k)
  BY TurnNow
<1>2. r \in ChatTurn(k) /\ r.pc = "fail"
  BY <1>1 DEF ChatTurn, ChatRecord, ChatHolds, ChatLive, ChatWork
<1>3. cTurn' = [cTurn EXCEPT ![t] = r]
  OBVIOUS
<1> HIDE DEF r
<1>4. ChatHistory(r)
  BY <1>2 DEF ChatHistory
<1> QED BY <1>2, <1>3, <1>4, TurnWorks

LEMMA DeadlineStep ==
  ASSUME NEW k \in DOMAIN Chats, ChatInv(k), NEW t \in Chats[k].Turns, C(k)!Deadline(t)
  PROVE  ChatInv(k)'
BY FailStep DEF C!Deadline, C!AtDeadline, C!Driving, ChatWork

\* A turn that changes its place and keeps its messages.
LEMMA RoundStartStep ==
  ASSUME NEW k \in DOMAIN Chats, ChatInv(k), NEW t \in Chats[k].Turns, C(k)!RoundStart(t)
  PROVE  ChatInv(k)'
<1> DEFINE r == [cTurn[t] EXCEPT !.pc = "stream", !.sse = C(k)!NoStream, !.calls = <<>>, !.at = 0]
<1>1. cTurn[t] \in ChatTurn(k) /\ ChatHistory(cTurn[t]) /\ cTurn[t].pc = "round"
  BY TurnNow DEF C!RoundStart
<1>2. /\ (C(k)!Sending(t, "round", r) /\ cTurn[t].round < Chats[k].MaxRounds) \/ C(k)!Fail(t)
      /\ UNCHANGED <<cInflight, cPermits, cClient>>
  BY DEF C!RoundStart
<1>3. CASE C(k)!Fail(t)
  <2>1. cTurn' = [cTurn EXCEPT ![t].pc = "fail"] /\ UNCHANGED <<cQueue, cSent>>
    BY <1>3 DEF C!Fail
  <2>2. cTurn[t].pc \in ChatWork
    BY <1>1 DEF ChatWork
  <2> QED BY <1>2, <2>1, <2>2, FailStep
<1>4. CASE C(k)!Sending(t, "round", r) /\ cTurn[t].round < Chats[k].MaxRounds
  <2>1. C(k)!NoStream \in ChatStream(k) /\ <<>> \in Seq(ChatCall(k)) /\ 0 \in Nat
    BY EmptySeq DEF C!NoStream, C!NoCall, ChatStream, ChatCall
  <2>2. r \in ChatTurn(k) /\ r.pc = "stream" /\ r.msgs = cTurn[t].msgs
    BY <1>1, <1>4, <2>1 DEF ChatTurn, ChatRecord, ChatHolds, ChatLive, ChatWork
  <2> HIDE DEF r
  <2>3. ChatHistory(r)
    BY <1>1, <2>2 DEF ChatHistory
  <2>4. "round" \in ChatFrames /\ cTurn[t].pc \in ChatWork /\ r.pc \in ChatWork /\ r.pc # "end"
    BY <1>1, <2>2 DEF ChatFrames, ChatWork
  <2> QED BY <1>2, <1>4, <2>2, <2>3, <2>4, TurnSends
<1> QED BY <1>2, <1>3, <1>4

\* The calls that a stream gave, if it gave one, and the stream that is closed.
LEMMA FlushGives ==
  ASSUME NEW k \in DOMAIN Chats, NEW s \in ChatStream(k)
  PROVE  C(k)!Flush(s) \in Seq(ChatCall(k)) /\ C(k)!Flushed(s) \in ChatStream(k)
<1>1. s.tool \in ChatCall(k) /\ s.flushed \in BOOLEAN /\ s.open \in BOOLEAN
  BY DEF ChatStream
<1>2. C(k)!NoCall \in ChatCall(k)
  BY DEF C!NoCall, ChatCall
<1>3. C(k)!Flush(s) \in Seq(ChatCall(k))
  <2>1. <<>> \in Seq(ChatCall(k)) /\ <<s.tool>> \in Seq(ChatCall(k))
    BY <1>1, EmptySeq
  <2> QED BY <2>1 DEF C!Flush
<1>4. C(k)!Flushed(s) \in ChatStream(k)
  BY <1>1, <1>2 DEF C!Flushed, ChatStream
<1> QED BY <1>3, <1>4

\* A stream moves on: the messages stay what they are.
LEMMA StreamMoves ==
  ASSUME NEW k \in DOMAIN Chats, ChatInv(k), NEW t \in Chats[k].Turns, cTurn[t].pc = "stream",
         NEW s \in ChatStream(k), NEW calls \in Seq(ChatCall(k)), NEW p \in {"stream", "closing"}
  PROVE  LET r == [cTurn[t] EXCEPT !.pc = p, !.sse = s, !.calls = calls] IN
         /\ r \in ChatTurn(k) /\ r.pc \in ChatWork /\ r.pc # "end" /\ ChatHistory(r)
<1> DEFINE r == [cTurn[t] EXCEPT !.pc = p, !.sse = s, !.calls = calls]
<1>1. cTurn[t] \in ChatTurn(k) /\ ChatHistory(cTurn[t])
  BY TurnNow
<1>2. r \in ChatTurn(k) /\ r.pc = p /\ r.msgs = cTurn[t].msgs
  BY <1>1 DEF ChatTurn, ChatRecord, ChatHolds, ChatLive, ChatWork
<1> HIDE DEF r
<1>3. ChatHistory(r)
  BY <1>1, <1>2 DEF ChatHistory
<1>4. r.pc \in ChatWork /\ r.pc # "end"
  BY <1>2 DEF ChatWork
<1> QED BY <1>2, <1>3, <1>4 DEF r

LEMMA ChunkStep ==
  ASSUME NEW k \in DOMAIN Chats, ChatInv(k), NEW t \in Chats[k].Turns, NEW c, C(k)!Chunk(t, c)
  PROVE  ChatInv(k)'
<1> DEFINE x == cTurn[t]
           s == [x.sse EXCEPT !.n = x.sse.n + 1]
<1>1. /\ x \in ChatTurn(k) /\ x.pc = "stream" /\ x.sse \in ChatStream(k) /\ x.calls \in Seq(ChatCall(k))
      /\ cTurn \in [Chats[k].Turns -> ChatTurn(k)] /\ UNCHANGED <<cInflight, cPermits, cClient>>
  BY TurnNow, TurnParts DEF C!Chunk
<1>2. s \in ChatStream(k) /\ s.tool \in ChatCall(k)
  BY <1>1 DEF ChatStream
<1>a. x.pc \in ChatWork
  BY <1>1 DEF ChatWork
<1>3. CASE C(k)!Sending(t, "delta", [x EXCEPT !.sse = s])
  <2> DEFINE r == [x EXCEPT !.pc = "stream", !.sse = s, !.calls = x.calls]
  <2>1. [x EXCEPT !.sse = s] = r
    BY <1>1 DEF ChatTurn, ChatRecord
  <2>2. r \in ChatTurn(k) /\ r.pc \in ChatWork /\ r.pc # "end" /\ ChatHistory(r)
    BY <1>1, <1>2, StreamMoves
  <2> HIDE DEF r, x, s
  <2>3. "delta" \in ChatFrames
    BY DEF ChatFrames
  <2> QED BY <1>1, <1>3, <1>a, <2>1, <2>2, <2>3, TurnSends DEF x
<1>4. ASSUME NEW s1 \in ChatStream(k), NEW calls \in Seq(ChatCall(k)),
             cTurn' = [cTurn EXCEPT ![t] = [x EXCEPT !.pc = "stream", !.sse = s1, !.calls = calls]],
             UNCHANGED <<cQueue, cSent>>
      PROVE  ChatInv(k)'
  <2> DEFINE r == [x EXCEPT !.pc = "stream", !.sse = s1, !.calls = calls]
  <2>1. r \in ChatTurn(k) /\ r.pc \in ChatWork /\ ChatHistory(r)
    BY <1>1, StreamMoves
  <2>2. cTurn' = [cTurn EXCEPT ![t] = r]
    BY <1>4
  <2> HIDE DEF r, x
  <2> QED BY <1>1, <1>4, <1>a, <2>1, <2>2, TurnWorks DEF x
<1>5. CASE \E name \in Chats[k].Tools, bad \in Chats[k].Defects :
             /\ cTurn' = [cTurn EXCEPT ![t].sse =
                            [s EXCEPT !.open = TRUE, !.tool.name = name, !.tool.bad = bad]]
             /\ UNCHANGED <<cQueue, cSent>>
  <2>1. PICK name \in Chats[k].Tools, bad \in Chats[k].Defects :
             /\ cTurn' = [cTurn EXCEPT ![t].sse =
                            [s EXCEPT !.open = TRUE, !.tool.name = name, !.tool.bad = bad]]
             /\ UNCHANGED <<cQueue, cSent>>
    BY <1>5
  <2> DEFINE s1 == [s EXCEPT !.open = TRUE, !.tool.name = name, !.tool.bad = bad]
  <2>2. s1 \in ChatStream(k)
    BY <1>2 DEF ChatStream, ChatCall
  <2> HIDE DEF s1
  <2>3. [x EXCEPT !.pc = "stream", !.sse = s1, !.calls = x.calls] = [x EXCEPT !.sse = s1]
    BY <1>1 DEF ChatTurn, ChatRecord
  <2>4. cTurn' = [cTurn EXCEPT ![t] = [x EXCEPT !.sse = s1]]
    BY <2>1 DEF s1
  <2> QED BY <1>1, <1>4, <2>1, <2>2, <2>3, <2>4
<1>6. CASE /\ cTurn' = [cTurn EXCEPT ![t].sse =
                          [s EXCEPT !.open = TRUE, !.tool.args = C(k)!More[s.tool.args]]]
           /\ UNCHANGED <<cQueue, cSent>>
  <2> DEFINE s1 == [s EXCEPT !.open = TRUE, !.tool.args = C(k)!More[s.tool.args]]
  <2>1. C(k)!More[s.tool.args] \in {"", "part", "whole"}
    BY <1>2 DEF C!More, ChatCall
  <2>2. s1 \in ChatStream(k)
    BY <1>2, <2>1 DEF ChatStream, ChatCall
  <2> HIDE DEF s1
  <2>3. [x EXCEPT !.pc = "stream", !.sse = s1, !.calls = x.calls] = [x EXCEPT !.sse = s1]
    BY <1>1 DEF ChatTurn, ChatRecord
  <2>4. cTurn' = [cTurn EXCEPT ![t] = [x EXCEPT !.sse = s1]]
    BY <1>6 DEF s1
  <2> QED BY <1>1, <1>4, <1>6, <2>2, <2>3, <2>4
<1>7. CASE /\ cTurn' = [cTurn EXCEPT ![t].sse = C(k)!Flushed(s),
                          ![t].calls = IF C(k)!Flush(s) = <<>> THEN @ ELSE C(k)!Flush(s)]
           /\ UNCHANGED <<cQueue, cSent>>
  <2> DEFINE s1 == C(k)!Flushed(s)
             calls == IF C(k)!Flush(s) = <<>> THEN x.calls ELSE C(k)!Flush(s)
  <2>1. s1 \in ChatStream(k) /\ calls \in Seq(ChatCall(k))
    BY <1>1, <1>2, FlushGives
  <2>2. cTurn' = [cTurn EXCEPT ![t] = [x EXCEPT !.sse = s1, !.calls = calls]]
    BY <1>1, <1>7 DEF ChatTurn, ChatRecord
  <2> HIDE DEF s1, calls
  <2>3. [x EXCEPT !.pc = "stream", !.sse = s1, !.calls = calls] = [x EXCEPT !.sse = s1, !.calls = calls]
    BY <1>1 DEF ChatTurn, ChatRecord
  <2> QED BY <1>4, <1>7, <2>1, <2>2, <2>3
<1>8. CASE C(k)!Fail(t)
  BY <1>1, <1>8, <1>a, FailStep DEF C!Fail
<1> QED BY <1>3, <1>5, <1>6, <1>7, <1>8 DEF C!Chunk

LEMMA StreamEndsStep ==
  ASSUME NEW k \in DOMAIN Chats, ChatInv(k), NEW t \in Chats[k].Turns, C(k)!StreamEnds(t)
  PROVE  ChatInv(k)'
<1> DEFINE x == cTurn[t]
           s == C(k)!Flushed(x.sse)
           calls == IF C(k)!Flush(x.sse) = <<>> THEN x.calls ELSE C(k)!Flush(x.sse)
           r == [x EXCEPT !.pc = "closing", !.sse = s, !.calls = calls]
<1>1. /\ x \in ChatTurn(k) /\ x.pc = "stream" /\ x.sse \in ChatStream(k) /\ x.calls \in Seq(ChatCall(k))
      /\ UNCHANGED <<cInflight, cPermits, cQueue, cSent, cClient>>
  BY TurnNow, TurnParts DEF C!StreamEnds
<1>2. s \in ChatStream(k) /\ calls \in Seq(ChatCall(k))
  BY <1>1, FlushGives
<1>3. cTurn' = [cTurn EXCEPT ![t] = r]
  BY <1>1 DEF C!StreamEnds, C!EndStream, ChatTurn
<1> HIDE DEF s, calls
<1>4. r \in ChatTurn(k) /\ r.pc \in ChatWork /\ ChatHistory(r)
  BY <1>1, <1>2, StreamMoves
<1>5. x.pc \in ChatWork
  BY <1>1 DEF ChatWork
<1> HIDE DEF r
<1> QED BY <1>1, <1>3, <1>4, <1>5, TurnWorks

\* What is answered stays answered when a message is added.
LEMMA AnsweredKeeps ==
  ASSUME NEW m \in Seq(ChatMessage), NEW e \in ChatMessage, NEW n \in 0..Len(m), Answered(m, n)
  PROVE  /\ Append(m, e) \in Seq(ChatMessage) /\ Len(Append(m, e)) = Len(m) + 1
         /\ Append(m, e)[Len(m) + 1] = e
         /\ \A i \in 1..Len(m) : Append(m, e)[i] = m[i]
         /\ Answered(Append(m, e), n)
<1> DEFINE w == Append(m, e)
<1>1. /\ w \in Seq(ChatMessage) /\ Len(w) = Len(m) + 1 /\ Len(m) \in Nat
      /\ w[Len(m) + 1] = e /\ \A i \in 1..Len(m) : w[i] = m[i] /\ m[i] \in ChatMessage
  BY AppendProperties, LenProperties, ElementOfSeq
<1> HIDE DEF w
<1>2. ASSUME NEW i \in 1..n, w[i].kind = "assistant"
      PROVE  i + w[i].n <= n /\ \A j \in 1..w[i].n : w[i + j] = [kind |-> "tool", n |-> j]
  <2>1. w[i] = m[i] /\ m[i].n \in Nat
    BY <1>1 DEF ChatMessage
  <2>2. i + m[i].n <= n /\ \A j \in 1..m[i].n : m[i + j] = [kind |-> "tool", n |-> j]
    BY <1>2, <2>1 DEF Answered
  <2>3. ASSUME NEW j \in 1..m[i].n PROVE w[i + j] = m[i + j]
    <3>1. i + j \in 1..Len(m)
      BY <1>1, <2>1, <2>2
    <3> QED BY <1>1, <3>1
  <2> QED BY <2>1, <2>2, <2>3
<1>3. Answered(w, n)
  BY <1>2 DEF Answered
<1> QED BY <1>1, <1>3 DEF w

\* The calls of a stream become one message of the assistant.
LEMMA RoundEndStep ==
  ASSUME NEW k \in DOMAIN Chats, ChatInv(k), NEW t \in Chats[k].Turns, C(k)!RoundEnd(t)
  PROVE  ChatInv(k)'
<1> DEFINE x == cTurn[t]
<1>1. /\ x \in ChatTurn(k) /\ ChatHistory(x) /\ x.pc = "closing" /\ x.pc \in ChatWork
      /\ x.msgs \in Seq(ChatMessage) /\ x.calls \in Seq(ChatCall(k))
      /\ UNCHANGED <<cInflight, cPermits, cClient>>
  BY TurnNow, TurnParts DEF C!RoundEnd, ChatWork
<1>2. "round_end" \in ChatFrames
  BY DEF ChatFrames
<1>3. CASE x.calls = <<>>
  <2> DEFINE r == [x EXCEPT !.pc = "finish"]
  <2>1. C(k)!Sending(t, "round_end", r)
    BY <1>3 DEF C!RoundEnd
  <2>2. r \in ChatTurn(k) /\ r.pc = "finish" /\ r.msgs = x.msgs
    BY <1>1 DEF ChatTurn, ChatRecord, ChatHolds, ChatLive, ChatWork
  <2> HIDE DEF r
  <2>3. ChatHistory(r) /\ r.pc \in ChatWork /\ r.pc # "end"
    BY <1>1, <2>2 DEF ChatHistory, ChatWork
  <2> HIDE DEF x
  <2> QED BY <1>1, <1>2, <2>1, <2>2, <2>3, TurnSends DEF x
<1>4. CASE x.calls # <<>>
  <2> DEFINE e == [kind |-> "assistant", n |-> Len(x.calls)]
             r == [x EXCEPT !.pc = "call", !.at = 1, !.msgs = Append(x.msgs, e)]
  <2>1. C(k)!Sending(t, "round_end", r)
    BY <1>1, <1>4 DEF C!RoundEnd, ChatTurn, ChatRecord
  <2>2. Len(x.calls) \in Nat /\ Len(x.calls) >= 1 /\ Len(x.msgs) \in Nat
    BY <1>1, <1>4, EmptySeq, LenProperties
  <2>3. e \in ChatMessage
    BY <2>2 DEF ChatMessage
  <2>4. Answered(x.msgs, Len(x.msgs))
    BY <1>1 DEF ChatHistory
  <2>5. /\ Append(x.msgs, e) \in Seq(ChatMessage) /\ Len(Append(x.msgs, e)) = Len(x.msgs) + 1
        /\ Append(x.msgs, e)[Len(x.msgs) + 1] = e
        /\ Answered(Append(x.msgs, e), Len(x.msgs))
    <3> HIDE DEF e, x
    <3>1. Len(x.msgs) \in 0..Len(x.msgs)
      BY <2>2
    <3> QED BY <1>1, <2>3, <2>4, <3>1, AnsweredKeeps
  <2>6. /\ r \in ChatTurn(k) /\ r.pc = "call" /\ r.at = 1 /\ r.calls = x.calls
        /\ r.msgs = Append(x.msgs, e)
    BY <1>1, <2>5 DEF ChatTurn, ChatRecord, ChatHolds, ChatLive, ChatWork
  <2> HIDE DEF r
  <2>7. Answering(r, Len(x.msgs) + 1)
    <3> HIDE DEF x
    <3>1. r.at \in 1..Len(r.calls) /\ Len(x.msgs) + 1 \in 1..Len(r.msgs)
          /\ (Len(x.msgs) + 1) + r.at = Len(r.msgs) + 1 /\ (Len(x.msgs) + 1) - 1 = Len(x.msgs)
      BY <2>2, <2>5, <2>6
    <3>2. \A j \in 1..(r.at - 1) : FALSE
      BY <2>6
    <3> QED BY <2>5, <2>6, <3>1, <3>2 DEF Answering
  <2>8. ChatHistory(r) /\ r.pc \in ChatWork /\ r.pc # "end"
    <3>1. Len(x.msgs) + 1 \in 1..Len(r.msgs)
      BY <2>7 DEF Answering
    <3> QED BY <2>6, <2>7, <3>1 DEF ChatHistory, ChatWork
  <2> HIDE DEF x
  <2> QED BY <1>1, <1>2, <2>1, <2>6, <2>8, TurnSends DEF x
<1> QED BY <1>3, <1>4

\* The frames of a call keep the messages.
LEMMA CallMoves ==
  ASSUME NEW k \in DOMAIN Chats, NEW x \in ChatTurn(k), ChatHistory(x),
         x.pc \in {"call", "invoke", "extra"}, NEW p \in {"invoke", "extra", "result"},
         NEW frame \in {"none", "card", "proposal"}, NEW ran \in SUBSET {"", "whole"}
  PROVE  LET r == [x EXCEPT !.pc = p, !.frame = frame, !.ran = ran] IN
         r \in ChatTurn(k) /\ ChatHistory(r) /\ r.pc \in ChatWork /\ r.pc # "end"
<1> DEFINE r == [x EXCEPT !.pc = p, !.frame = frame, !.ran = ran]
<1>1. /\ r \in ChatTurn(k) /\ r.pc = p /\ r.msgs = x.msgs /\ r.at = x.at /\ r.calls = x.calls
  BY DEF ChatTurn, ChatRecord, ChatHolds, ChatLive, ChatWork
<1> HIDE DEF r
<1>2. PICK a \in 1..Len(x.msgs) : Answering(x, a)
  BY DEF ChatHistory
<1>3. Answering(r, a)
  BY <1>1, <1>2 DEF Answering
<1>4. ChatHistory(r)
  BY <1>1, <1>2, <1>3 DEF ChatHistory
<1> QED BY <1>1, <1>4 DEF r, ChatWork

LEMMA CallSteps ==
  ASSUME NEW k \in DOMAIN Chats, ChatInv(k), NEW t \in Chats[k].Turns,
         C(k)!ToolCall(t) \/ C(k)!Extra(t)
  PROVE  ChatInv(k)'
<1> DEFINE x == cTurn[t]
<1>1. /\ x \in ChatTurn(k) /\ ChatHistory(x) /\ x.pc \in {"call", "extra"} /\ x.pc \in ChatWork
      /\ x.frame \in {"none", "card", "proposal"} /\ x.ran \in SUBSET {"", "whole"}
      /\ UNCHANGED <<cInflight, cPermits, cClient>>
  BY TurnNow, TurnParts DEF C!ToolCall, C!Extra, ChatWork
<1>2. \/ C(k)!Sending(t, "tool_call", [x EXCEPT !.pc = "invoke", !.frame = x.frame, !.ran = x.ran])
      \/ C(k)!Sending(t, x.frame, [x EXCEPT !.pc = "result", !.frame = "none", !.ran = x.ran])
  <2>1. /\ [x EXCEPT !.pc = "invoke", !.frame = x.frame, !.ran = x.ran] = [x EXCEPT !.pc = "invoke"]
        /\ [x EXCEPT !.pc = "result", !.frame = "none", !.ran = x.ran]
             = [x EXCEPT !.pc = "result", !.frame = "none"]
    BY <1>1 DEF ChatTurn, ChatRecord
  <2> QED BY <2>1 DEF C!ToolCall, C!Extra
<1>3. PICK f \in ChatFrames, p \in {"invoke", "result"}, frame \in {"none", "card", "proposal"} :
        /\ C(k)!Sending(t, f, [x EXCEPT !.pc = p, !.frame = frame, !.ran = x.ran])
        /\ f \notin {"done", "error"}
  <2> HIDE DEF x
  <2>1. CASE C(k)!Sending(t, "tool_call", [x EXCEPT !.pc = "invoke", !.frame = x.frame, !.ran = x.ran])
    BY <1>1, <2>1 DEF ChatFrames
  <2>2. CASE C(k)!Sending(t, x.frame, [x EXCEPT !.pc = "result", !.frame = "none", !.ran = x.ran])
    BY <1>1, <2>2 DEF ChatFrames
  <2> QED BY <1>2, <2>1, <2>2
<1> DEFINE r == [x EXCEPT !.pc = p, !.frame = frame, !.ran = x.ran]
<1>4. r \in ChatTurn(k) /\ ChatHistory(r) /\ r.pc \in ChatWork /\ r.pc # "end"
  <2> HIDE DEF x
  <2> QED BY <1>1, <1>3, CallMoves
<1>5. C(k)!Sending(t, f, r)
  BY <1>3
<1> HIDE DEF r, x
<1> QED BY <1>1, <1>3, <1>4, <1>5, TurnSends DEF x

\* Arguments that were cut off are not JSON, and no tool runs on them.
LEMMA ToolResultStep ==
  ASSUME NEW k \in DOMAIN Chats, ChatInv(k), NEW t \in Chats[k].Turns, C(k)!ToolResult(t)
  PROVE  ChatInv(k)'
<1> DEFINE x == cTurn[t]
           c == C(k)!Call(t)
<1>1. /\ x \in ChatTurn(k) /\ ChatHistory(x) /\ x.pc = "invoke" /\ x.pc \in ChatWork
      /\ x.ran \in SUBSET {"", "whole"} /\ x.calls \in Seq(ChatCall(k))
      /\ UNCHANGED <<cInflight, cPermits, cClient>>
  BY TurnNow, TurnParts DEF C!ToolResult, ChatWork
<1>2. c.args \in {"", "part", "whole"}
  <2>1. PICK a \in 1..Len(x.msgs) : Answering(x, a)
    BY <1>1 DEF ChatHistory
  <2>2. x.at \in 1..Len(x.calls)
    BY <2>1 DEF Answering
  <2>3. c \in ChatCall(k)
    BY <1>1, <2>2, ElementOfSeq DEF C!Call
  <2> QED BY <2>3 DEF ChatCall
<1>3. PICK res \in C(k)!Invoke(c) :
        C(k)!Sending(t, "tool_result",
          [x EXCEPT
             !.pc = IF C(k)!Card(c, res) \/ res = "presented" THEN "extra" ELSE "result",
             !.frame = IF res = "presented" THEN "proposal" ELSE
                       IF C(k)!Card(c, res) THEN "card" ELSE "none",
             !.ran = @ \cup (IF res \in {"not_json", "unknown"} THEN {} ELSE {c.args})])
  BY DEF C!ToolResult
<1>4. res \in {"not_json", "unknown"} \/ c.args \in {"", "whole"}
  BY <1>3 DEF C!Invoke, C!Parses
<1> DEFINE p == IF C(k)!Card(c, res) \/ res = "presented" THEN "extra" ELSE "result"
           frame == IF res = "presented" THEN "proposal" ELSE
                    IF C(k)!Card(c, res) THEN "card" ELSE "none"
           ran == x.ran \cup (IF res \in {"not_json", "unknown"} THEN {} ELSE {c.args})
           r == [x EXCEPT !.pc = p, !.frame = frame, !.ran = ran]
<1>5. p \in {"invoke", "extra", "result"} /\ frame \in {"none", "card", "proposal"}
  OBVIOUS
<1>6. ran \in SUBSET {"", "whole"}
  <2> HIDE DEF c, x
  <2> QED BY <1>1, <1>4
<1>7. C(k)!Sending(t, "tool_result", r)
  BY <1>3
<1>8. r \in ChatTurn(k) /\ ChatHistory(r) /\ r.pc \in ChatWork /\ r.pc # "end"
  <2> HIDE DEF x, p, frame, ran
  <2> QED BY <1>1, <1>5, <1>6, CallMoves
<1>9. "tool_result" \in ChatFrames
  BY DEF ChatFrames
<1> HIDE DEF r, x
<1> QED BY <1>1, <1>7, <1>8, <1>9, TurnSends DEF x

\* The result of a call goes behind the results before it.
LEMMA PushResultStep ==
  ASSUME NEW k \in DOMAIN Chats, ChatInv(k), NEW t \in Chats[k].Turns, C(k)!PushResult(t)
  PROVE  ChatInv(k)'
<1> DEFINE x == cTurn[t]
           e == [kind |-> "tool", n |-> x.at]
           w == Append(x.msgs, e)
           last == x.at = Len(x.calls)
           r == [x EXCEPT !.msgs = w, !.at = IF last THEN 0 ELSE x.at + 1,
                          !.pc = IF last THEN "round" ELSE "call",
                          !.round = IF last THEN x.round + 1 ELSE x.round]
<1>1. /\ x \in ChatTurn(k) /\ ChatHistory(x) /\ x.pc = "result" /\ x.pc \in ChatWork
      /\ x.msgs \in Seq(ChatMessage) /\ x.calls \in Seq(ChatCall(k)) /\ x.at \in Nat
      /\ x.round \in 0..Chats[k].MaxRounds
      /\ UNCHANGED <<cInflight, cPermits, cQueue, cSent, cClient>>
  BY TurnNow, TurnParts DEF C!PushResult, ChatWork
<1>2. cTurn' = [cTurn EXCEPT ![t] = r]
  BY <1>1 DEF C!PushResult, C!ResultMessage, ChatTurn, ChatRecord
<1>3. PICK a \in 1..Len(x.msgs) : Answering(x, a)
  BY <1>1 DEF ChatHistory
<1>4. /\ x.at \in 1..Len(x.calls) /\ a \in 1..Len(x.msgs) /\ a + x.at = Len(x.msgs) + 1
      /\ x.msgs[a] = [kind |-> "assistant", n |-> Len(x.calls)]
      /\ \A j \in 1..(x.at - 1) : x.msgs[a + j] = [kind |-> "tool", n |-> j]
      /\ Answered(x.msgs, a - 1)
  BY <1>3 DEF Answering
<1>5. Len(x.msgs) \in Nat /\ Len(x.calls) \in Nat /\ e \in ChatMessage
  BY <1>1, LenProperties DEF ChatMessage
<1> HIDE DEF x
<1>6. /\ w \in Seq(ChatMessage) /\ Len(w) = Len(x.msgs) + 1 /\ w[Len(x.msgs) + 1] = e
      /\ \A i \in 1..Len(x.msgs) : w[i] = x.msgs[i]
      /\ Answered(w, a - 1)
  <2>1. a - 1 \in 0..Len(x.msgs)
    BY <1>4, <1>5
  <2> HIDE DEF e
  <2> QED BY <1>1, <1>4, <1>5, <2>1, AnsweredKeeps
<1>7. /\ a \in 1..Len(w) /\ a + (x.at + 1) = Len(w) + 1
      /\ w[a] = [kind |-> "assistant", n |-> Len(x.calls)]
      /\ \A j \in 1..x.at : w[a + j] = [kind |-> "tool", n |-> j]
  <2>1. a \in 1..Len(w) /\ a + (x.at + 1) = Len(w) + 1 /\ a + x.at = Len(x.msgs) + 1
    <3>1. a \in 1..Len(x.msgs) /\ a + x.at = Len(x.msgs) + 1 /\ x.at \in Nat /\ Len(x.msgs) \in Nat
      BY <1>1, <1>4, <1>5
    <3>2. Len(w) = Len(x.msgs) + 1
      BY <1>6
    <3> DEFINE at == x.at
               old == Len(x.msgs)
               new == Len(w)
    <3>3. a \in 1..old /\ a + at = old + 1 /\ at \in Nat /\ old \in Nat /\ new = old + 1
      BY <3>1, <3>2
    <3> HIDE DEF at, old, new
    <3>4. a \in 1..new /\ a + (at + 1) = new + 1 /\ a + at = old + 1
      BY <3>3
    <3> QED BY <3>4 DEF at, old, new
  <2>2. w[a] = x.msgs[a]
    BY <1>6
  <2>3. ASSUME NEW j \in 1..x.at PROVE w[a + j] = [kind |-> "tool", n |-> j]
    <3>1. CASE j = x.at
      BY <1>6, <2>1, <3>1
    <3>2. CASE j # x.at
      <4>1. j \in 1..(x.at - 1) /\ a + j \in 1..Len(x.msgs)
        BY <1>1, <1>4, <1>5, <2>1, <3>2
      <4> QED BY <1>4, <1>6, <4>1
    <3> QED BY <3>1, <3>2
  <2> QED BY <1>4, <2>1, <2>2, <2>3
<1> HIDE DEF w
<1>8. CASE last
  <2>1. r = [x EXCEPT !.msgs = w, !.at = 0, !.pc = "round", !.round = x.round + 1]
    BY <1>8
  <2> HIDE DEF r, last
  <2>2. x.round < Chats[k].MaxRounds /\ Chats[k].MaxRounds \in Nat
    BY <1>1, ChatAssumption DEF ChatTurn, ChatWork
  <2>3. r \in ChatTurn(k) /\ r.pc = "round" /\ r.msgs = w
    <3>1. w \in Seq(ChatMessage) /\ x \in ChatTurn(k) /\ x.round + 1 \in 0..Chats[k].MaxRounds
      BY <1>1, <1>6, <2>2
    <3>2. r \in ChatRecord(k) /\ r.pc = "round" /\ r.msgs = w
      BY <2>1, <3>1 DEF ChatTurn, ChatRecord, ChatHolds, ChatLive, ChatWork
    <3> QED BY <3>2 DEF ChatTurn
  <2>4. Answered(w, Len(w))
    <3> SUFFICES ASSUME NEW i \in 1..Len(w), w[i].kind = "assistant"
                 PROVE  i + w[i].n <= Len(w) /\ \A j \in 1..w[i].n : w[i + j] = [kind |-> "tool", n |-> j]
      BY DEF Answered
    <3>1. i \in Nat /\ a \in Nat /\ Len(w) \in Nat
      BY <1>5, <1>6
    <3>2. CASE i < a
      <4>1. i \in 1..(a - 1)
        BY <3>1, <3>2
      <4>2. i + w[i].n <= a - 1 /\ \A j \in 1..w[i].n : w[i + j] = [kind |-> "tool", n |-> j]
        BY <1>6, <4>1 DEF Answered
      <4>3. w[i].n \in Nat
        <5>1. w[i] \in ChatMessage
          BY <1>6, ElementOfSeq
        <5> QED BY <5>1 DEF ChatMessage
      <4> QED BY <1>7, <3>1, <4>2, <4>3
    <3>3. CASE i = a
      <4>1. w[i].n = x.at
        <5>1. w[a].n = Len(x.calls)
          BY <1>7
        <5>2. x.at = Len(x.calls)
          BY <1>8 DEF last
        <5> QED BY <3>3, <5>1, <5>2
      <4>2. i + x.at <= Len(w)
        BY <1>1, <1>7, <3>1, <3>3
      <4> QED BY <1>7, <3>3, <4>1, <4>2
    <3>4. CASE i > a
      <4>1. i - a \in 1..x.at /\ a + (i - a) = i
        BY <1>1, <1>7, <3>1, <3>4
      <4>2. w[a + (i - a)] = [kind |-> "tool", n |-> i - a]
        BY <1>7, <4>1
      <4>3. w[i].kind = "tool"
        BY <4>1, <4>2
      <4> QED BY <4>3
    <3> QED BY <3>1, <3>2, <3>3, <3>4
  <2>5. ChatHistory(r) /\ r.pc \in ChatWork
    BY <2>3, <2>4 DEF ChatHistory, ChatWork
  <2> HIDE DEF r
  <2> QED BY <1>1, <1>2, <2>3, <2>5, TurnWorks DEF x
<1>9. CASE ~last
  <2>1. r = [x EXCEPT !.msgs = w, !.at = x.at + 1, !.pc = "call", !.round = x.round]
    BY <1>9
  <2>a. x.at # Len(x.calls)
    BY <1>9
  <2> HIDE DEF r, last
  <2>2. x.round < Chats[k].MaxRounds /\ Chats[k].MaxRounds \in Nat
    BY <1>1, ChatAssumption DEF ChatTurn, ChatWork
  <2>3. r \in ChatTurn(k) /\ r.pc = "call" /\ r.msgs = w /\ r.at = x.at + 1 /\ r.calls = x.calls
    <3>1. w \in Seq(ChatMessage) /\ x \in ChatTurn(k) /\ x.at + 1 \in Nat
      BY <1>1, <1>6
    <3>2. r \in ChatRecord(k) /\ r.pc = "call" /\ r.msgs = w /\ r.at = x.at + 1 /\ r.calls = x.calls
          /\ r.round = x.round
      BY <2>1, <3>1 DEF ChatTurn, ChatRecord, ChatHolds, ChatLive, ChatWork
    <3> QED BY <2>2, <3>2 DEF ChatTurn
  <2>4. x.at + 1 \in 1..Len(x.calls) /\ (x.at + 1) - 1 = x.at
    BY <1>1, <1>4, <1>5, <2>a
  <2> HIDE DEF r
  <2>5. Answering(r, a)
    BY <1>6, <1>7, <2>3, <2>4 DEF Answering
  <2>6. a \in 1..Len(r.msgs)
    BY <1>7, <2>3
  <2>7. ChatHistory(r) /\ r.pc \in ChatWork
    BY <2>3, <2>5, <2>6 DEF ChatHistory, ChatWork
  <2> QED BY <1>1, <1>2, <2>3, <2>7, TurnWorks DEF x
<1> QED BY <1>8, <1>9

LEMMA TerminalSteps ==
  ASSUME NEW k \in DOMAIN Chats, ChatInv(k), NEW t \in Chats[k].Turns,
         C(k)!Finish(t) \/ C(k)!SendError(t)
  PROVE  ChatInv(k)'
<1> DEFINE r == [cTurn[t] EXCEPT !.pc = "end"]
<1>1. cTurn[t] \in ChatTurn(k)
  BY TurnNow
<1>2. PICK f \in {"done", "error"} : C(k)!Sending(t, f, r)
  BY DEF C!Finish, C!SendError
<1>3. cTurn[t].pc \in ChatWork \cup {"fail"} /\ UNCHANGED <<cInflight, cPermits, cClient>>
  BY DEF C!Finish, C!SendError, ChatWork
<1>4. r \in ChatTurn(k) /\ r.pc = "end"
  BY <1>1 DEF ChatTurn, ChatRecord, ChatHolds, ChatLive, ChatWork
<1> HIDE DEF r
<1>5. ChatHistory(r)
  BY <1>4 DEF ChatHistory
<1>6. f \in ChatFrames
  BY DEF ChatFrames
<1> QED BY <1>2, <1>3, <1>4, <1>5, <1>6, TurnSends

\* A step of the admission: one turn's place changes and nothing is sent.
LEMMA PlaceMoves ==
  ASSUME NEW k \in DOMAIN Chats, ChatInv(k), NEW t \in Chats[k].Turns,
         NEW p \in ChatHolds \cup {"rejected", "dropped", "ended"},
         cTurn' = [cTurn EXCEPT ![t].pc = p],
         \/ cTurn[t].pc \in {"new", "grace"} /\ p \in {"grace", "round", "rejected", "dropped"}
         \/ cTurn[t].pc = "end" /\ p = "ended",
         UNCHANGED <<cQueue, cSent>>, cClient' \in [Chats[k].Turns -> {"there", "gone"}],
         \A u \in Chats[k].Turns : u # t => cClient'[u] = cClient[u],
         cTurn[t].pc = "end" => cClient'[t] = cClient[t],
         cPermits' \in SUBSET Chats[k].Turns, Cardinality(cPermits') <= Chats[k].MaxConcurrent
  PROVE  /\ ChatShape(k)' /\ ChatTold(k)'
         /\ cTurn'[t].pc = p /\ \A u \in Chats[k].Turns : u # t => cTurn'[u] = cTurn[u]
<1> DEFINE r == [cTurn[t] EXCEPT !.pc = p]
<1>1. cTurn[t] \in ChatTurn(k) /\ ChatHistory(cTurn[t]) /\ cTurn \in [Chats[k].Turns -> ChatTurn(k)]
  BY TurnNow
<1>2. p \notin ChatWork \ {"round"}
  BY DEF ChatWork
<1>3. r \in ChatTurn(k) /\ r.pc = p /\ r.msgs = cTurn[t].msgs
  BY <1>1, <1>2 DEF ChatTurn, ChatRecord, ChatHolds, ChatLive, ChatWork
<1>4. cTurn' = [cTurn EXCEPT ![t] = r]
  OBVIOUS
<1> HIDE DEF r
<1>5. cTurn' \in [Chats[k].Turns -> ChatTurn(k)] /\ cTurn'[t] = r
      /\ \A u \in Chats[k].Turns : u # t => cTurn'[u] = cTurn[u]
  BY <1>1, <1>3, <1>4
<1>6. ChatShape(k)'
  BY <1>5 DEF ChatInv, ChatShape
<1>7. ChatHistory(r)
  BY <1>1, <1>3 DEF ChatHistory
<1>8. ChatFrame(r, cSent'[t], cClient'[t])
  <2>1. ChatFrame(cTurn[t], cSent[t], cClient[t])
    BY DEF ChatInv, ChatTold
  <2> QED BY <1>3, <2>1 DEF ChatFrame
<1>9. ChatTold(k)'
  <2> SUFFICES ASSUME NEW u \in Chats[k].Turns
               PROVE  ChatHistory(cTurn'[u]) /\ ChatFrame(cTurn'[u], cSent'[u], cClient'[u])
    BY DEF ChatTold
  <2>1. CASE u = t
    BY <1>5, <1>7, <1>8, <2>1
  <2>2. CASE u # t
    BY <1>5, <2>2 DEF ChatInv, ChatTold
  <2> QED BY <2>1, <2>2
<1> QED BY <1>3, <1>5, <1>6, <1>9

LEMMA AdmitUserStep ==
  ASSUME NEW k \in DOMAIN Chats, ChatInv(k), NEW t \in Chats[k].Turns, C(k)!AdmitUser(t)
  PROVE  ChatInv(k)'
<1>1. /\ cTurn[t].pc = "new" /\ UNCHANGED <<cPermits, cQueue, cSent, cClient>>
      /\ \/ cInflight' = cInflight /\ cTurn' = [cTurn EXCEPT ![t].pc = "rejected"]
         \/ /\ Chats[k].User[t] \notin cInflight /\ cInflight' = cInflight \cup {Chats[k].User[t]}
            /\ cTurn' = [cTurn EXCEPT ![t].pc = "grace"]
  BY DEF C!AdmitUser, C!Reject
<1>2. cPermits' \in SUBSET Chats[k].Turns /\ Cardinality(cPermits') <= Chats[k].MaxConcurrent
      /\ cClient' \in [Chats[k].Turns -> {"there", "gone"}]
  BY <1>1 DEF ChatInv, ChatShape
<1>3. CASE cInflight' = cInflight /\ cTurn' = [cTurn EXCEPT ![t].pc = "rejected"]
  <2>1. /\ ChatShape(k)' /\ ChatTold(k)'
        /\ cTurn'[t].pc = "rejected" /\ \A u \in Chats[k].Turns : u # t => cTurn'[u] = cTurn[u]
    BY <1>1, <1>2, <1>3, PlaceMoves
  <2>2. \A u \in Chats[k].Turns :
          /\ cTurn'[u].pc \in ChatHolds <=> cTurn[u].pc \in ChatHolds
          /\ cTurn'[u].pc \in ChatLive <=> cTurn[u].pc \in ChatLive
          /\ cTurn[u].pc \in ChatHolds \cup {"dropped"} => cTurn'[u].pc \in ChatHolds \cup {"dropped"}
    BY <1>1, <2>1 DEF ChatHolds, ChatLive, ChatWork
  <2>3. ChatPlaces(k)'
    BY <1>1, <1>3, <2>2 DEF ChatInv, ChatPlaces
  <2> QED BY <2>1, <2>3 DEF ChatInv
<1>4. CASE /\ Chats[k].User[t] \notin cInflight /\ cInflight' = cInflight \cup {Chats[k].User[t]}
           /\ cTurn' = [cTurn EXCEPT ![t].pc = "grace"]
  <2>1. /\ ChatShape(k)' /\ ChatTold(k)'
        /\ cTurn'[t].pc = "grace" /\ \A u \in Chats[k].Turns : u # t => cTurn'[u] = cTurn[u]
    <3>1. "grace" \in ChatHolds
      BY DEF ChatHolds
    <3> QED BY <1>1, <1>2, <1>4, <3>1, PlaceMoves
  <2>2. /\ cTurn'[t].pc \in ChatHolds /\ cTurn'[t].pc \notin ChatLive
        /\ cTurn[t].pc \notin ChatHolds \cup {"dropped"}
    BY <1>1, <2>1 DEF ChatHolds, ChatLive, ChatWork
  <2>3. \A u \in Chats[k].Turns : cTurn[u].pc \in ChatHolds => Chats[k].User[u] # Chats[k].User[t]
    BY <1>4 DEF ChatInv, ChatPlaces
  <2>4. ChatPlaces(k)'
    BY <1>1, <1>4, <2>1, <2>2, <2>3 DEF ChatInv, ChatPlaces
  <2> QED BY <2>1, <2>4 DEF ChatInv
<1> QED BY <1>1, <1>3, <1>4

LEMMA AdmitPermitStep ==
  ASSUME NEW k \in DOMAIN Chats, ChatInv(k), NEW t \in Chats[k].Turns, C(k)!AdmitPermit(t)
  PROVE  ChatInv(k)'
<1>1. /\ cTurn[t].pc = "grace" /\ cPermits' = cPermits \cup {t} /\ UNCHANGED <<cInflight, cQueue, cSent, cClient>>
      /\ Cardinality(cPermits) < Chats[k].MaxConcurrent /\ cTurn' = [cTurn EXCEPT ![t].pc = "round"]
  BY DEF C!AdmitPermit, C!Free, C!Granted, C!Cardinality, Cardinality
<1>2. cPermits' \in SUBSET Chats[k].Turns /\ Cardinality(cPermits') <= Chats[k].MaxConcurrent
      /\ cClient' \in [Chats[k].Turns -> {"there", "gone"}]
  <2>1. cPermits \in SUBSET Chats[k].Turns /\ IsFiniteSet(cPermits) /\ Chats[k].MaxConcurrent \in Nat
    BY ChatAssumption, FS_Subset DEF ChatInv, ChatShape
  <2>2. /\ Cardinality(cPermits) \in Nat
        /\ Cardinality(cPermits \cup {t}) \in {Cardinality(cPermits), Cardinality(cPermits) + 1}
    BY <2>1, FS_AddElement, FS_CardinalityType
  <2> QED BY <1>1, <2>1, <2>2 DEF ChatInv, ChatShape
<1>3. /\ ChatShape(k)' /\ ChatTold(k)'
      /\ cTurn'[t].pc = "round" /\ \A u \in Chats[k].Turns : u # t => cTurn'[u] = cTurn[u]
  <2>1. "round" \in ChatHolds
    BY DEF ChatHolds, ChatLive, ChatWork
  <2> QED BY <1>1, <1>2, <2>1, PlaceMoves
<1>4. \A u \in Chats[k].Turns :
        /\ cTurn'[u].pc \in ChatHolds <=> cTurn[u].pc \in ChatHolds
        /\ cTurn'[u].pc \in ChatLive => cTurn[u].pc \in ChatLive \/ u = t
        /\ cTurn[u].pc \in ChatHolds \cup {"dropped"} => cTurn'[u].pc \in ChatHolds \cup {"dropped"}
  BY <1>1, <1>3 DEF ChatHolds, ChatLive, ChatWork
<1>5. ChatPlaces(k)'
  BY <1>1, <1>4 DEF ChatInv, ChatPlaces
<1> QED BY <1>3, <1>5 DEF ChatInv

\* A user's entry is given back: nobody else of that user holds a place.
LEMMA PlaceGivenBack ==
  ASSUME NEW k \in DOMAIN Chats, ChatInv(k), NEW t \in Chats[k].Turns, cTurn[t].pc \in ChatHolds,
         cInflight' = cInflight \ {Chats[k].User[t]}, cTurn'[t].pc \notin ChatHolds,
         \A u \in Chats[k].Turns : u # t => cTurn'[u] = cTurn[u],
         \A u \in cPermits : u # t => u \in cPermits'
  PROVE  ChatPlaces(k)'
<1>0. ChatLive \subseteq ChatHolds
  BY DEF ChatHolds
<1>1. \A u \in Chats[k].Turns :
        cTurn'[u].pc \in ChatHolds =>
          u # t /\ cTurn'[u] = cTurn[u] /\ Chats[k].User[u] # Chats[k].User[t]
  BY DEF ChatInv, ChatPlaces
<1>2. \A u \in Chats[k].Turns :
       /\ cTurn'[u].pc \in ChatHolds => Chats[k].User[u] \in cInflight'
       /\ cTurn'[u].pc \in ChatLive => u \in cPermits'
  BY <1>0, <1>1 DEF ChatInv, ChatPlaces
<1>3. \A u, v \in Chats[k].Turns :
       /\ cTurn'[u].pc \in ChatHolds /\ cTurn'[v].pc \in ChatHolds
       /\ Chats[k].User[u] = Chats[k].User[v]
       => u = v
  BY <1>1 DEF ChatInv, ChatPlaces
<1>4. ASSUME NEW v \in {Chats[k].User[u] : u \in Chats[k].Turns}, v \in cInflight'
      PROVE  \E u \in Chats[k].Turns : Chats[k].User[u] = v /\ cTurn'[u].pc \in ChatHolds \cup {"dropped"}
  <2>1. v \in cInflight /\ v # Chats[k].User[t]
    BY <1>4
  <2>2. PICK u \in Chats[k].Turns : Chats[k].User[u] = v /\ cTurn[u].pc \in ChatHolds \cup {"dropped"}
    BY <2>1 DEF ChatInv, ChatPlaces
  <2> QED BY <2>1, <2>2
<1> QED BY <1>2, <1>3, <1>4 DEF ChatPlaces

LEMMA GraceElapsedStep ==
  ASSUME NEW k \in DOMAIN Chats, ChatInv(k), NEW t \in Chats[k].Turns, C(k)!GraceElapsed(t)
  PROVE  ChatInv(k)'
<1>1. /\ cTurn[t].pc = "grace" /\ cInflight' = cInflight \ {Chats[k].User[t]}
      /\ cTurn' = [cTurn EXCEPT ![t].pc = "rejected"] /\ UNCHANGED <<cPermits, cQueue, cSent, cClient>>
  BY DEF C!GraceElapsed, C!GraceRelease
<1>2. cPermits' \in SUBSET Chats[k].Turns /\ Cardinality(cPermits') <= Chats[k].MaxConcurrent
      /\ cClient' \in [Chats[k].Turns -> {"there", "gone"}]
  BY <1>1 DEF ChatInv, ChatShape
<1>3. /\ ChatShape(k)' /\ ChatTold(k)'
      /\ cTurn'[t].pc = "rejected" /\ \A u \in Chats[k].Turns : u # t => cTurn'[u] = cTurn[u]
  BY <1>1, <1>2, PlaceMoves
<1>4. cTurn[t].pc \in ChatHolds /\ cTurn'[t].pc \notin ChatHolds
  BY <1>1, <1>3 DEF ChatHolds, ChatLive, ChatWork
<1> QED BY <1>1, <1>3, <1>4, PlaceGivenBack DEF ChatInv

LEMMA EndStep ==
  ASSUME NEW k \in DOMAIN Chats, ChatInv(k), NEW t \in Chats[k].Turns, C(k)!End(t)
  PROVE  ChatInv(k)'
<1>1. /\ cTurn[t].pc = "end" /\ cInflight' = cInflight \ {Chats[k].User[t]} /\ cPermits' = cPermits \ {t}
      /\ cTurn' = [cTurn EXCEPT ![t].pc = "ended"] /\ UNCHANGED <<cQueue, cSent, cClient>>
  BY DEF C!End, C!DropAdmission
<1>2. cPermits' \in SUBSET Chats[k].Turns /\ Cardinality(cPermits') <= Chats[k].MaxConcurrent
      /\ cClient' \in [Chats[k].Turns -> {"there", "gone"}]
  <2>1. cPermits \in SUBSET Chats[k].Turns /\ IsFiniteSet(cPermits) /\ Chats[k].MaxConcurrent \in Nat
        /\ Cardinality(cPermits) <= Chats[k].MaxConcurrent
    BY ChatAssumption, FS_Subset DEF ChatInv, ChatShape
  <2>2. Cardinality(cPermits') <= Cardinality(cPermits) /\ Cardinality(cPermits) \in Nat
        /\ Cardinality(cPermits') \in Nat
    BY <1>1, <2>1, FS_Subset, FS_CardinalityType
  <2> QED BY <1>1, <2>1, <2>2 DEF ChatInv, ChatShape
<1>3. /\ ChatShape(k)' /\ ChatTold(k)'
      /\ cTurn'[t].pc = "ended" /\ \A u \in Chats[k].Turns : u # t => cTurn'[u] = cTurn[u]
  BY <1>1, <1>2, PlaceMoves
<1>4. cTurn[t].pc \in ChatHolds /\ cTurn'[t].pc \notin ChatHolds
  BY <1>1, <1>3 DEF ChatHolds, ChatLive, ChatWork
<1> QED BY <1>1, <1>3, <1>4, PlaceGivenBack DEF ChatInv

LEMMA LeaveGraceStep ==
  ASSUME NEW k \in DOMAIN Chats, ChatInv(k), NEW t \in Chats[k].Turns, C(k)!LeaveGrace(t)
  PROVE  ChatInv(k)'
<1>1. /\ cTurn[t].pc = "grace" /\ cTurn' = [cTurn EXCEPT ![t].pc = "dropped"]
      /\ cClient' = [cClient EXCEPT ![t] = "gone"] /\ UNCHANGED <<cInflight, cPermits, cQueue, cSent>>
  BY DEF C!LeaveGrace
<1>2. cPermits' \in SUBSET Chats[k].Turns /\ Cardinality(cPermits') <= Chats[k].MaxConcurrent
      /\ cClient' \in [Chats[k].Turns -> {"there", "gone"}]
      /\ \A u \in Chats[k].Turns : u # t => cClient'[u] = cClient[u]
  BY <1>1 DEF ChatInv, ChatShape
<1>3. /\ ChatShape(k)' /\ ChatTold(k)'
      /\ cTurn'[t].pc = "dropped" /\ \A u \in Chats[k].Turns : u # t => cTurn'[u] = cTurn[u]
  BY <1>1, <1>2, PlaceMoves
<1>4. \A u \in Chats[k].Turns :
        /\ cTurn'[u].pc \in ChatHolds => cTurn[u].pc \in ChatHolds
        /\ cTurn'[u].pc \in ChatLive => cTurn[u].pc \in ChatLive
        /\ cTurn[u].pc \in ChatHolds \cup {"dropped"} => cTurn'[u].pc \in ChatHolds \cup {"dropped"}
  BY <1>1, <1>3 DEF ChatHolds, ChatLive, ChatWork
<1>5. ChatPlaces(k)'
  BY <1>1, <1>4 DEF ChatInv, ChatPlaces
<1> QED BY <1>3, <1>5 DEF ChatInv

LEMMA BrowserSteps ==
  ASSUME NEW k \in DOMAIN Chats, ChatInv(k), NEW t \in Chats[k].Turns,
         C(k)!Receive(t) \/ C(k)!Leave(t)
  PROVE  ChatInv(k)'
<1>1. UNCHANGED <<cInflight, cPermits, cTurn, cSent>>
  BY DEF C!Receive, C!Leave
<1>2. cQueue' \in [Chats[k].Turns -> 0..Chats[k].Buffer] /\ cClient' \in [Chats[k].Turns -> {"there", "gone"}]
  BY ChatAssumption DEF ChatInv, ChatShape, C!Receive, C!Leave
<1>3. ChatShape(k)'
  BY <1>1, <1>2 DEF ChatInv, ChatShape
<1>4. \A u \in Chats[k].Turns : cClient'[u] = "there" => cClient[u] = "there"
  BY DEF ChatInv, ChatShape, C!Receive, C!Leave
<1>5. ChatTold(k)'
  BY <1>1, <1>4 DEF ChatInv, ChatTold, ChatFrame
<1>6. ChatPlaces(k)'
  BY <1>1 DEF ChatInv, ChatPlaces
<1> QED BY <1>3, <1>5, <1>6 DEF ChatInv

LEMMA ChatStart == ASSUME NEW k \in DOMAIN Chats, C(k)!Init PROVE ChatInv(k)
<1>1. C(k)!New \in ChatTurn(k) /\ C(k)!New.pc = "new" /\ C(k)!New.msgs = <<>>
  <2>1. /\ <<>> \in Seq(ChatCall(k)) /\ <<>> \in Seq(ChatMessage) /\ 0 \in 0..Chats[k].MaxRounds
        /\ C(k)!NoStream \in ChatStream(k)
    BY EmptySeq, ChatAssumption DEF C!NoStream, C!NoCall, ChatStream, ChatCall
  <2> QED BY <2>1 DEF C!New, ChatTurn, ChatRecord, ChatHolds, ChatLive, ChatWork
<1>2. /\ cInflight = {} /\ cPermits = {} /\ \A t \in Chats[k].Turns : cTurn[t] = C(k)!New
      /\ cTurn \in [Chats[k].Turns -> ChatTurn(k)]
      /\ \A t \in Chats[k].Turns : cSent[t].terminal = 0
      /\ cSent \in [Chats[k].Turns -> [last : ChatFrames, terminal : {0, 1}]]
      /\ cClient \in [Chats[k].Turns -> {"there", "gone"}]
  BY <1>1 DEF C!Init, ChatFrames
<1>3. ChatShape(k)
  <2>1. Cardinality({}) = 0 /\ cQueue \in [Chats[k].Turns -> 0..Chats[k].Buffer]
    BY FS_EmptySet, ChatAssumption DEF C!Init
  <2> QED BY <1>2, <2>1, ChatAssumption DEF ChatShape
<1>4. ChatTold(k)
  <2>1. Answered(<<>>, Len(<<>>))
    BY DEF Answered
  <2>2. ASSUME NEW t \in Chats[k].Turns PROVE ChatHistory(cTurn[t]) /\ ChatFrame(cTurn[t], cSent[t], cClient[t])
    BY <1>1, <1>2, <2>1 DEF ChatHistory, ChatFrame
  <2> QED BY <2>2 DEF ChatTold
<1>5. ChatPlaces(k)
  BY <1>1, <1>2 DEF ChatPlaces, ChatHolds, ChatLive, ChatWork
<1> QED BY <1>3, <1>4, <1>5 DEF ChatInv

LEMMA ChatStep == ASSUME NEW k \in DOMAIN Chats, ChatInv(k), [C(k)!Next]_chatVars PROVE ChatInv(k)'
<1>1. CASE UNCHANGED chatVars
  BY <1>1 DEF chatVars, ChatInv, ChatShape, ChatTold, ChatPlaces
<1>2. CASE C(k)!Next
  <2>1. PICK t \in Chats[k].Turns :
          \/ C(k)!AdmitUser(t) \/ C(k)!Grace(t) \/ C(k)!LeaveGrace(t)
          \/ \E c \in Chats[k].Chunks : C(k)!Chunk(t, c)
          \/ C(k)!Task(t) \/ C(k)!Deadline(t) \/ C(k)!Receive(t) \/ C(k)!Leave(t)
    BY <1>2 DEF C!Next
  <2>2. CASE C(k)!Task(t)
    BY <2>2, RoundStartStep, StreamEndsStep, RoundEndStep, TerminalSteps, CallSteps,
       ToolResultStep, PushResultStep, EndStep DEF C!Task
  <2>3. CASE C(k)!Grace(t)
    BY <2>3, AdmitPermitStep, GraceElapsedStep DEF C!Grace
  <2> QED BY <2>1, <2>2, <2>3, AdmitUserStep, LeaveGraceStep, ChunkStep, DeadlineStep, BrowserSteps
<1> QED BY <1>1, <1>2

LEMMA ChatInvGivesSafe == ASSUME NEW k \in DOMAIN Chats, ChatInv(k) PROVE C(k)!TurnsSafe
<1>1. C(k)!TypeOK
  <2>1. Cardinality(cPermits) <= Chats[k].MaxConcurrent
    BY DEF ChatInv, ChatShape
  <2>2. ASSUME NEW t \in Chats[k].Turns
        PROVE /\ cQueue[t] \in 0..Chats[k].Buffer /\ cTurn[t].round \in 0..Chats[k].MaxRounds
              /\ cTurn[t].pc \in {"new", "grace", "rejected", "dropped", "fail", "end", "ended"} \cup C(k)!Driving
              /\ cClient[t] \in {"there", "gone"}
    BY TurnNow DEF ChatInv, ChatShape, ChatTurn, ChatRecord, ChatHolds, ChatLive, ChatWork, C!Driving
  <2> QED BY <2>1, <2>2 DEF C!TypeOK, C!Cardinality, Cardinality
<1>2. \A t : C(k)!Live(t) <=> cTurn[t].pc \in ChatLive
  BY DEF C!Live, C!Driving, ChatLive, ChatWork
<1>3. C(k)!OneTurnPerUser
  BY <1>2 DEF C!OneTurnPerUser, ChatInv, ChatPlaces, ChatHolds
<1>4. C(k)!LockedForAReason
  BY <1>2 DEF C!LockedForAReason, C!Locked, C!Lost, ChatInv, ChatPlaces, ChatHolds
<1>5. C(k)!TerminalFrame
  <2> SUFFICES ASSUME NEW t \in Chats[k].Turns
               PROVE  /\ cTurn[t].pc = "ended" /\ cClient[t] = "there" =>
                           cSent[t].last \in {"done", "error"} /\ cSent[t].terminal = 1
                      /\ cSent[t].terminal > 0 => cSent[t].last \in {"done", "error"}
    BY DEF C!TerminalFrame, C!Terminal
  <2>1. ChatFrame(cTurn[t], cSent[t], cClient[t]) /\ cSent[t].terminal \in {0, 1}
    BY DEF ChatInv, ChatTold, ChatShape
  <2> QED BY <2>1 DEF ChatFrame
<1>6. C(k)!HistoryWellFormed
  <2> SUFFICES ASSUME NEW t \in Chats[k].Turns, cTurn[t].pc = "stream"
               PROVE  Answered(cTurn[t].msgs, Len(cTurn[t].msgs))
    BY DEF C!HistoryWellFormed, Answered
  <2> QED BY TurnNow DEF ChatHistory
<1>7. C(k)!NoHalfCall
  <2> SUFFICES ASSUME NEW t \in Chats[k].Turns PROVE "part" \notin cTurn[t].ran
    BY DEF C!NoHalfCall
  <2>1. cTurn[t].ran \in SUBSET {"", "whole"}
    BY TurnNow, TurnParts
  <2> QED BY <2>1
<1> QED BY <1>1, <1>3, <1>4, <1>5, <1>6, <1>7 DEF C!TurnsSafe

\* A user has one turn at a time under the ceiling of the permits, and an entry
\* that nobody holds was left by a browser that went away; the provider is sent
\* every result it waits for, no tool runs on arguments that were cut off, and the
\* browser's last frame is the one terminal frame (chat/mod.rs, chat/agent.rs).
THEOREM TurnsAreSafe == PartSpec => []TurnsSafe
<1> DEFINE I == \A k \in DOMAIN Chats : part = k => ChatInv(k)
<1>1. PartInit => I
  BY ChatStart DEF PartInit
<1>2. I /\ [PartNext]_allVars => I'
  <2> SUFFICES ASSUME I, [PartNext]_allVars, NEW k \in DOMAIN Chats, part' = k PROVE ChatInv(k)'
    OBVIOUS
  <2>1. part = k /\ [C(k)!Next]_chatVars
    BY DEF PartNext, allVars
  <2> QED BY <2>1, ChatStep
<1>3. I => TurnsSafe
  BY ChatInvGivesSafe DEF TurnsSafe
<1> QED BY <1>1, <1>2, <1>3, PTL DEF PartSpec
-----------------------------------------------------------------------------
(* The environments                                                         *)

Flight == {"get", "get_secret", "count", "admit", "validating", "create_env", "load_env",
           "replace_env", "upsert_secret", "upsert_cm", "delete", "delete_secret"}
Winning == {"created", "replaced"}
RequestOf(k) ==
  [pc : Flight \cup {"idle", "done"}, proc : Profiles[k].Procs \cup {None},
   kind : {"put", "delete", None}, spec : Profiles[k].Specs \cup {None},
   old : ConfigMapOf(k) \cup ReadingOf(k) \cup RecordOf(k) \cup {None},
   reply : Winning \cup {"unchanged", "cap", "busy", "invalid", "error", "conflict", "deleted",
                         "lost", None}]
StartOf(k) ==
  [pc : {"down", "list_cm", "list_secret", "check", "create", "verify", "delete_cm",
         "delete_secret", "serving"},
   cm : ConfigMapOf(k) \cup {None}, secret : SecretOf(k) \cup {None}]

ProfileShape(k) ==
  /\ eCm \in ConfigMapOf(k) \cup {None} /\ eSecret \in SecretOf(k) \cup {None}
  /\ eEnv \in RecordOf(k) \cup {None}
  /\ eEnv # None => eEnv.rev >= 1 /\ eEnv.ver <= eClock
  /\ eClock \in Nat /\ eFaults \in 0..Profiles[k].MaxFaults
  /\ eProc \in [Profiles[k].Procs -> StartOf(k)]
  /\ \A p \in Profiles[k].Procs : eProc[p].pc \in {"create", "verify"} => eProc[p].cm # None /\ eProc[p].secret # None
  /\ eReq \in [Profiles[k].Requests -> RequestOf(k)]
  /\ ePods \subseteq Profiles[k].Requests

\* A process's validations, their permits and the profile's slot.
ProfileSlots(k) ==
  /\ ePermits \in [Profiles[k].Procs -> 0..Profiles[k].MaxConcurrent]
  /\ eInflight \in [Profiles[k].Procs -> SUBSET Profiles[k].Requests]
  /\ \A p \in Profiles[k].Procs :
       \/ eInflight[p] = {} /\ ePermits[p] = Profiles[k].MaxConcurrent
       \/ /\ \E q \in Profiles[k].Requests : eInflight[p] = {q}
          /\ ePermits[p] + 1 = Profiles[k].MaxConcurrent
  /\ \A p \in Profiles[k].Procs, q \in Profiles[k].Requests :
       q \in eInflight[p] <=> eReq[q].pc = "validating" /\ eReq[q].proc = p

\* The steps of a request against a store are those of that store, and carry what
\* they need.
OnItsWay(k, r) ==
  /\ r.pc \in Flight => r.proc \in Profiles[k].Procs
  /\ r.pc # "idle" => r.kind \in {"put", "delete"}
  /\ r.pc \in Flight \ {"delete", "delete_secret"} => r.spec \in Profiles[k].Specs
  /\ r.pc # "done" => r.reply = None
  /\ r.pc \in {"get", "count", "create_env"} => r.old = None
  /\ r.pc = "get_secret" => r.old \in ConfigMapOf(k)
  /\ Profiles[k].Durable =>
       /\ r.pc \notin {"get_secret", "upsert_secret", "upsert_cm", "delete_secret"}
       /\ r.old \in RecordOf(k) \cup {None} /\ (r.old # None => r.old.rev >= 1)
       /\ r.pc \in {"load_env", "replace_env"} => r.old # None
  /\ ~Profiles[k].Durable => r.pc \notin {"create_env", "load_env", "replace_env"}

\* What a request has read is not of the future; once it has won, what there is now
\* is younger.
NotStale(r, record, now_) ==
  r.old # None =>
    /\ r.old.ver <= now_
    /\ r.reply \in Winning /\ record # None => r.old.ver < record.ver

ProfileReads(k) ==
  /\ \A q \in Profiles[k].Requests : OnItsWay(k, eReq[q])
  /\ Profiles[k].Durable =>
       /\ \A q \in Profiles[k].Requests : NotStale(eReq[q], eEnv, eClock)
       /\ \A q, r \in Profiles[k].Requests :
            /\ q # r /\ eReq[q].reply \in Winning /\ eReq[r].reply \in Winning
            /\ eReq[q].old # None /\ eReq[r].old # None
            => eReq[q].old.ver # eReq[r].old.ver

\* The legacy profile s is in a store, and every process that starts has seen it so.
InStore(s, config, secret, record) ==
  /\ config # None => config.pub = s.pub
  /\ secret # None => secret.sec = s.sec
  /\ record # None => record.pub = s.pub /\ record.sec = s.sec
  /\ record = None => config # None /\ secret # None
HasSeen(s, x, record) ==
  /\ x.cm # None => x.cm.pub = s.pub
  /\ x.secret # None => x.secret.sec = s.sec
  /\ x.pc \in {"delete_cm", "delete_secret", "serving"} => record # None
ProfileMigrates(k) ==
  /\ Profiles[k].Durable /\ None \notin Profiles[k].Legacy
  /\ \A q \in Profiles[k].Requests : eReq[q].kind = None
  => \E s \in Profiles[k].Legacy :
       /\ InStore(s, eCm, eSecret, eEnv)
       /\ \A p \in Profiles[k].Procs : HasSeen(s, eProc[p], eEnv)

\* While requests come one at a time, the youngest knows what it left in the pair.
Youngest(k, q) ==
  /\ eReq[q].pc # "idle"
  /\ \A r \in Profiles[k].Requests : eReq[r].pc = "idle" \/ r <= q
LeftSo(r, config, secret) ==
  /\ r.pc = "get_secret" => r.old = config
  /\ r.pc = "upsert_cm" => secret # None /\ secret.sec = r.spec.sec
  /\ r.pc = "delete_secret" => config = None
  /\ r.pc = "done" /\ r.reply \in Winning \cup {"unchanged"} =>
       config # None /\ secret # None /\ config.pub = r.spec.pub /\ secret.sec = r.spec.sec
  /\ r.pc = "done" /\ r.reply = "deleted" => config = None /\ secret = None
ProfileAlone(k) ==
  ~Profiles[k].Durable =>
    /\ \A p \in Profiles[k].Procs : eProc[p].pc \in {"down", "serving"}
    /\ \A q, r \in Profiles[k].Requests : q < r /\ eReq[q].pc = "idle" => eReq[r].pc = "idle"
    /\ Profiles[k].MaxInFlight = 1 =>
         /\ \A q \in Profiles[k].Requests : eReq[q].pc \in Flight => Youngest(k, q)
         /\ \A q \in Profiles[k].Requests : Youngest(k, q) => LeftSo(eReq[q], eCm, eSecret)

ProfileInv(k) ==
  ProfileShape(k) /\ ProfileSlots(k) /\ ProfileReads(k) /\ ProfileMigrates(k) /\ ProfileAlone(k)

LEMMA RequestNow ==
  ASSUME NEW k \in DOMAIN Profiles, ProfileInv(k), NEW q \in Profiles[k].Requests
  PROVE  eReq[q] \in RequestOf(k) /\ OnItsWay(k, eReq[q])
BY DEF ProfileInv, ProfileShape, ProfileReads

LEMMA NoneIsNothing ==
  ASSUME NEW k \in DOMAIN Profiles
  PROVE  /\ None \notin {"put", "delete"} /\ None \notin Winning /\ None \notin SecretHalf(k)
         /\ None \notin ConfigMapOf(k) /\ None \notin SecretOf(k) /\ None \notin RecordOf(k)
         /\ None \notin ReadingOf(k)
BY ProfileAssumption DEF Winning

\* A request other than a validation that moves leaves the slots alone.
LEMMA SlotsStay ==
  ASSUME NEW k \in DOMAIN Profiles, ProfileInv(k), NEW q \in Profiles[k].Requests,
         NEW r \in RequestOf(k), eReq' = [eReq EXCEPT ![q] = r],
         eReq[q].pc # "validating", r.pc # "validating", UNCHANGED <<ePermits, eInflight>>
  PROVE  ProfileSlots(k)'
<1>1. \A x \in Profiles[k].Requests :
        eReq'[x].pc = "validating" <=> eReq[x].pc = "validating" /\ eReq'[x] = eReq[x]
  BY DEF ProfileInv, ProfileShape
<1> QED BY <1>1 DEF ProfileInv, ProfileSlots

\* A step of a request in flight keeps the invariant, if the request is on its way
\* afterwards and what it wrote is younger than what anybody has read.
LEMMA RequestMoves ==
  ASSUME NEW k \in DOMAIN Profiles, ProfileInv(k), NEW q \in Profiles[k].Requests,
         NEW r \in RequestOf(k), eReq[q].pc \in Flight, eReq' = [eReq EXCEPT ![q] = r],
         r.pc # "idle", OnItsWay(k, r), UNCHANGED eProc, ProfileSlots(k)',
         eCm' \in ConfigMapOf(k) \cup {None}, eSecret' \in SecretOf(k) \cup {None},
         eEnv' \in RecordOf(k) \cup {None}, eEnv' # None => eEnv'.rev >= 1 /\ eEnv'.ver <= eClock',
         eEnv' \in {eEnv, None} \/ eEnv'.ver > eClock, eClock' \in Nat, eClock' >= eClock,
         eFaults' \in 0..Profiles[k].MaxFaults, ePods' \subseteq Profiles[k].Requests,
         Profiles[k].Durable => NotStale(r, eEnv', eClock'),
         Profiles[k].Durable /\ r.reply \in Winning /\ r.old # None
           => eEnv # None /\ r.old.ver = eEnv.ver,
         ~Profiles[k].Durable /\ Profiles[k].MaxInFlight = 1 => LeftSo(r, eCm', eSecret')
  PROVE  ProfileInv(k)'
<1>1. /\ eReq \in [Profiles[k].Requests -> RequestOf(k)] /\ eReq'[q] = r
      /\ \A x \in Profiles[k].Requests : x # q => eReq'[x] = eReq[x]
      /\ eReq' \in [Profiles[k].Requests -> RequestOf(k)]
  BY DEF ProfileInv, ProfileShape
<1>2. ProfileShape(k)'
  BY <1>1 DEF ProfileInv, ProfileShape
<1>3. ProfileReads(k)'
  <2>1. \A x \in Profiles[k].Requests : OnItsWay(k, eReq'[x])
    BY <1>1 DEF ProfileInv, ProfileReads
  <2> SUFFICES ASSUME Profiles[k].Durable
               PROVE  /\ \A x \in Profiles[k].Requests : NotStale(eReq'[x], eEnv', eClock')
                      /\ \A x, y \in Profiles[k].Requests :
                           /\ x # y /\ eReq'[x].reply \in Winning /\ eReq'[y].reply \in Winning
                           /\ eReq'[x].old # None /\ eReq'[y].old # None
                           => eReq'[x].old.ver # eReq'[y].old.ver
    BY <2>1 DEF ProfileReads
  <2>2. \A x \in Profiles[k].Requests : /\ NotStale(eReq[x], eEnv, eClock)
                                        /\ eReq[x].old # None => eReq[x].old.ver \in Nat
    <3>1. \A x \in Profiles[k].Requests : eReq[x].old # None => eReq[x].old \in RecordOf(k)
      BY DEF ProfileInv, ProfileReads, OnItsWay
    <3> QED BY <3>1 DEF ProfileInv, ProfileReads, RecordOf
  <2>3. /\ eEnv # None => eEnv.ver \in Nat
        /\ eEnv' # None => eEnv'.ver \in Nat
        /\ eClock \in Nat
    BY DEF RecordOf, ProfileInv, ProfileShape
  <2>4. ASSUME NEW x \in Profiles[k].Requests PROVE NotStale(eReq'[x], eEnv', eClock')
    <3>1. CASE x = q
      BY <1>1, <3>1
    <3>2. CASE x # q
      BY <1>1, <3>2, <2>2, <2>3 DEF NotStale
    <3> QED BY <3>1, <3>2
  <2>5. ASSUME NEW x \in Profiles[k].Requests, x # q, eReq[x].reply \in Winning, eReq[x].old # None,
               r.reply \in Winning, r.old # None
        PROVE  eReq[x].old.ver # r.old.ver
    BY <2>2, <2>3, <2>5 DEF NotStale
  <2>6. ASSUME NEW x \in Profiles[k].Requests, NEW y \in Profiles[k].Requests, x # y,
               eReq'[x].reply \in Winning, eReq'[y].reply \in Winning,
               eReq'[x].old # None, eReq'[y].old # None
        PROVE  eReq'[x].old.ver # eReq'[y].old.ver
    <3>1. CASE x = q
      BY <1>1, <2>5, <2>6, <3>1
    <3>2. CASE y = q
      BY <1>1, <2>5, <2>6, <3>2
    <3>3. CASE x # q /\ y # q
      BY <1>1, <2>6, <3>3 DEF ProfileInv, ProfileReads
    <3> QED BY <3>1, <3>2, <3>3
  <2> QED BY <2>4, <2>6
<1>4. ProfileMigrates(k)'
  <2>1. eReq'[q].kind # None
    BY <1>1, NoneIsNothing DEF OnItsWay
  <2> QED BY <2>1 DEF ProfileMigrates
<1>5. ProfileAlone(k)'
  <2> SUFFICES ASSUME ~Profiles[k].Durable
               PROVE  /\ \A p \in Profiles[k].Procs : eProc'[p].pc \in {"down", "serving"}
                      /\ \A x, y \in Profiles[k].Requests :
                           x < y /\ eReq'[x].pc = "idle" => eReq'[y].pc = "idle"
                      /\ Profiles[k].MaxInFlight = 1 =>
                           /\ \A x \in Profiles[k].Requests : eReq'[x].pc \in Flight => Youngest(k, x)'
                           /\ \A x \in Profiles[k].Requests : Youngest(k, x)' => LeftSo(eReq'[x], eCm', eSecret')
    BY DEF ProfileAlone
  <2>1. \A x \in Profiles[k].Requests : eReq'[x].pc = "idle" <=> eReq[x].pc = "idle"
    BY <1>1 DEF Flight
  <2>2. \A x \in Profiles[k].Requests : Youngest(k, x)' <=> Youngest(k, x)
    BY <2>1 DEF Youngest
  <2>3. ASSUME Profiles[k].MaxInFlight = 1, NEW x \in Profiles[k].Requests, Youngest(k, x)
        PROVE  x = q
    <3>1. Youngest(k, q)
      BY <2>3 DEF ProfileInv, ProfileAlone
    <3>2. x \in Nat /\ q \in Nat /\ x <= q /\ q <= x
      BY <2>3, <3>1, ProfileAssumption DEF Youngest
    <3> QED BY <3>2
  <2>4. ASSUME Profiles[k].MaxInFlight = 1, NEW x \in Profiles[k].Requests, eReq'[x].pc \in Flight
        PROVE  Youngest(k, x)'
    <3>1. eReq[x].pc \in Flight
      BY <1>1, <2>4
    <3>2. Youngest(k, x)
      BY <3>1, <2>4 DEF ProfileInv, ProfileAlone
    <3> QED BY <3>2, <2>2
  <2>5. /\ \A p \in Profiles[k].Procs : eProc'[p].pc \in {"down", "serving"}
        /\ \A x, y \in Profiles[k].Requests : x < y /\ eReq'[x].pc = "idle" => eReq'[y].pc = "idle"
    BY <2>1 DEF ProfileInv, ProfileAlone
  <2> QED BY <1>1, <2>2, <2>3, <2>4, <2>5
<1> QED BY <1>2, <1>3, <1>4, <1>5 DEF ProfileInv

ProfileKept(k) == UNCHANGED <<eCm, eSecret, eEnv, eClock, eProc>> /\ ProfileSlots(k)'
           /\ ePods' \subseteq Profiles[k].Requests /\ eFaults' \in 0..Profiles[k].MaxFaults

\* The same for a step that only reads.
LEMMA RequestReads ==
  ASSUME NEW k \in DOMAIN Profiles, ProfileInv(k), NEW q \in Profiles[k].Requests,
         NEW r \in RequestOf(k), eReq[q].pc \in Flight, eReq' = [eReq EXCEPT ![q] = r],
         r.pc # "idle", OnItsWay(k, r), ProfileKept(k), r.reply \notin Winning,
         Profiles[k].Durable /\ r.old # None => r.old \in {eReq[q].old, eEnv},
         ~Profiles[k].Durable /\ Profiles[k].MaxInFlight = 1 => LeftSo(r, eCm, eSecret)
  PROVE  ProfileInv(k)'
<1>1. /\ UNCHANGED <<eCm, eSecret, eEnv, eClock, eProc>> /\ eClock \in Nat
      /\ eEnv \in RecordOf(k) \cup {None} /\ eCm \in ConfigMapOf(k) \cup {None}
      /\ eSecret \in SecretOf(k) \cup {None}
      /\ eEnv # None => eEnv.rev >= 1 /\ eEnv.ver <= eClock
  BY DEF ProfileKept, ProfileInv, ProfileShape
<1>2. Profiles[k].Durable => NotStale(r, eEnv', eClock')
  BY <1>1 DEF ProfileInv, ProfileReads, NotStale
<1>3. eClock' >= eClock
  BY <1>1
<1> QED BY <1>1, <1>2, <1>3, RequestMoves DEF ProfileKept

Answers == Winning \cup {"unchanged", "cap", "busy", "invalid", "error", "conflict", "deleted", "lost"}

LEMMA Replied ==
  ASSUME NEW k \in DOMAIN Profiles, ProfileInv(k), NEW q \in Profiles[k].Requests,
         eReq[q].pc \in Flight, NEW a \in Answers
  PROVE  \E r \in RequestOf(k) :
           /\ E(k)!Reply(q, a) = [eReq EXCEPT ![q] = r] /\ r.pc = "done" /\ r.reply = a
           /\ r.old = eReq[q].old /\ r.spec = eReq[q].spec /\ OnItsWay(k, r)
<1> DEFINE r == [eReq[q] EXCEPT !.pc = "done", !.reply = a]
<1>1. eReq[q] \in RequestOf(k) /\ OnItsWay(k, eReq[q]) /\ eReq[q].pc # "idle"
  BY RequestNow DEF Flight
<1>2. r \in RequestOf(k) /\ r.pc = "done" /\ r.reply = a /\ r.old = eReq[q].old
      /\ r.spec = eReq[q].spec /\ r.kind = eReq[q].kind
  BY <1>1 DEF RequestOf, Answers
<1>3. E(k)!Reply(q, a) = [eReq EXCEPT ![q] = r]
  BY DEF E!Reply, ProfileInv, ProfileShape
<1>4. OnItsWay(k, r)
  <2> HIDE DEF r
  <2> QED BY <1>1, <1>2 DEF OnItsWay, Flight
<1> QED BY <1>2, <1>3, <1>4

\* What a request is after Step.
LEMMA Stepped ==
  ASSUME NEW k \in DOMAIN Profiles, ProfileInv(k), NEW q \in Profiles[k].Requests,
         eReq[q].pc \in Flight, NEW pc_ \in Flight
  PROVE  \E r \in RequestOf(k) :
           /\ E(k)!Step(q, pc_) = [eReq EXCEPT ![q] = r] /\ r.pc = pc_
           /\ r.old = eReq[q].old /\ r.spec = eReq[q].spec /\ r.kind = eReq[q].kind
           /\ r.proc = eReq[q].proc /\ r.reply = None
<1> DEFINE r == [eReq[q] EXCEPT !.pc = pc_]
<1>1. eReq[q] \in RequestOf(k) /\ eReq[q].reply = None
  BY RequestNow DEF Flight, OnItsWay
<1>2. r \in RequestOf(k) /\ r.pc = pc_ /\ r.reply = None /\ r.old = eReq[q].old /\ r.proc = eReq[q].proc
      /\ r.spec = eReq[q].spec /\ r.kind = eReq[q].kind
  BY <1>1 DEF RequestOf
<1>3. E(k)!Step(q, pc_) = [eReq EXCEPT ![q] = r]
  BY DEF E!Step, ProfileInv, ProfileShape
<1> QED BY <1>2, <1>3

\* An answer that claims nothing, before or after a fault.
LEMMA OnlyAnswers ==
  ASSUME NEW k \in DOMAIN Profiles, ProfileInv(k), NEW q \in Profiles[k].Requests,
         eReq[q].pc \in Flight, NEW a \in {"cap", "busy", "invalid", "error", "conflict"},
         eReq' = E(k)!Reply(q, a), ProfileKept(k)
  PROVE  ProfileInv(k)'
<1>1. a \in Answers /\ a \notin Winning \cup {"unchanged", "deleted"}
  BY DEF Answers, Winning
<1>2. PICK r \in RequestOf(k) :
           /\ eReq' = [eReq EXCEPT ![q] = r] /\ r.pc = "done" /\ r.reply = a
           /\ r.old = eReq[q].old /\ OnItsWay(k, r)
  BY <1>1, Replied
<1>3. LeftSo(r, eCm, eSecret) /\ r.pc # "idle"
  BY <1>1, <1>2 DEF LeftSo
<1> QED BY <1>1, <1>2, <1>3, RequestReads

\* While requests come one at a time, the one in flight knows the pair.
LEMMA AloneNow ==
  ASSUME NEW k \in DOMAIN Profiles, ProfileInv(k), NEW q \in Profiles[k].Requests,
         eReq[q].pc \in Flight, ~Profiles[k].Durable, Profiles[k].MaxInFlight = 1
  PROVE  LeftSo(eReq[q], eCm, eSecret)
BY DEF ProfileInv, ProfileAlone

\* What a call that may fail leaves alone.
LEMMA FaultsCount ==
  ASSUME NEW k \in DOMAIN Profiles, ProfileInv(k), NEW ok \in BOOLEAN, E(k)!Fault(ok)
  PROVE  eFaults' \in 0..Profiles[k].MaxFaults
BY ProfileAssumption DEF E!Fault, ProfileInv, ProfileShape

LEMMA KeptByReading ==
  ASSUME NEW k \in DOMAIN Profiles, ProfileInv(k), NEW q \in Profiles[k].Requests,
         NEW r \in RequestOf(k), eReq' = [eReq EXCEPT ![q] = r],
         eReq[q].pc # "validating", r.pc # "validating", eFaults' \in 0..Profiles[k].MaxFaults,
         E(k)!objects' = E(k)!objects, E(k)!validation' = E(k)!validation, eProc' = eProc
  PROVE  ProfileKept(k)
<1>1. UNCHANGED <<eCm, eSecret, eEnv, eClock, eProc, ePermits, eInflight, ePods>>
  BY DEF E!objects, E!validation
<1>2. ProfileSlots(k)'
  BY <1>1, SlotsStay
<1> QED BY <1>1, <1>2 DEF ProfileKept, ProfileInv, ProfileShape

Quiet(k) == E(k)!objects' = E(k)!objects /\ eProc' = eProc

\* What the handler decides once it knows the profile there is.
LEMMA DecideStep ==
  ASSUME NEW k \in DOMAIN Profiles, ProfileInv(k), NEW q \in Profiles[k].Requests,
         eReq[q].pc \in {"get", "get_secret"}, NEW old, eReq' = E(k)!Decide(q, old),
         Quiet(k), E(k)!validation' = E(k)!validation, eFaults' = eFaults,
         old = None => eReq[q].pc = "get",
         Profiles[k].Durable => old = eEnv,
         ~Profiles[k].Durable /\ old # None =>
           /\ old \in ReadingOf(k)
           /\ Profiles[k].MaxInFlight = 1 =>
                /\ eCm # None /\ old.pub = eCm.pub
                /\ old.sec = IF eSecret = None THEN None ELSE eSecret.sec
  PROVE  ProfileInv(k)'
<1>0. /\ eReq[q].pc \in Flight /\ eReq[q] \in RequestOf(k) /\ OnItsWay(k, eReq[q])
      /\ eReq[q].pc # "validating" /\ eReq[q].reply = None /\ None \notin Winning
      /\ eReq[q].spec \in Profiles[k].Specs /\ eReq[q].spec.sec \in SecretHalf(k)
  BY RequestNow, NoneIsNothing DEF Flight, OnItsWay, SecretHalf, Written
<1>1. eFaults' \in 0..Profiles[k].MaxFaults /\ Profiles[k].Durable \in BOOLEAN
  BY ProfileAssumption DEF ProfileInv, ProfileShape
<1>2. CASE old = None
  <2>1. PICK r \in RequestOf(k) :
           /\ eReq' = [eReq EXCEPT ![q] = r] /\ r.pc = "count"
           /\ r.old = eReq[q].old /\ r.spec = eReq[q].spec /\ r.kind = eReq[q].kind
           /\ r.proc = eReq[q].proc /\ r.reply = None
    <3>1. "count" \in Flight /\ eReq' = E(k)!Step(q, "count")
      BY <1>0, <1>2 DEF E!Decide, E!Step, Flight
    <3> QED BY <3>1, <1>0, <1>2, Stepped
  <2>2. OnItsWay(k, r)
    BY <1>0, <1>2, <2>1 DEF OnItsWay, Flight
  <2>3. LeftSo(r, eCm, eSecret)
    BY <2>1 DEF LeftSo
  <2>4. ProfileKept(k)
    BY <1>0, <1>1, <2>1, KeptByReading DEF Quiet
  <2> QED BY <1>0, <2>1, <2>2, <2>3, <2>4, RequestReads
<1>3. CASE old # None /\ E(k)!Unchanged(eReq[q].spec, old)
  <2>1. PICK r \in RequestOf(k) :
           /\ eReq' = [eReq EXCEPT ![q] = r] /\ r.pc = "done" /\ r.reply = "unchanged"
           /\ r.old = eReq[q].old /\ r.spec = eReq[q].spec /\ OnItsWay(k, r)
    <3>1. eReq' = E(k)!Reply(q, "unchanged") /\ "unchanged" \in Answers
      BY <1>3 DEF E!Decide, Answers
    <3> QED BY <1>0, <3>1, Replied
  <2>2. ~Profiles[k].Durable /\ Profiles[k].MaxInFlight = 1 => LeftSo(r, eCm, eSecret)
    BY <1>0, <1>3, <2>1, NoneIsNothing DEF LeftSo, E!Unchanged
  <2>3. ProfileKept(k)
    BY <1>0, <1>1, <2>1, KeptByReading DEF Quiet
  <2>4. r.reply \notin Winning
    BY <2>1 DEF Winning
  <2> QED BY <1>0, <2>1, <2>2, <2>3, <2>4, RequestReads
<1>4. CASE old # None /\ ~E(k)!Unchanged(eReq[q].spec, old)
  <2> DEFINE r == [eReq[q] EXCEPT !.pc = "admit", !.old = old]
  <2>1. old \in RecordOf(k) \cup ReadingOf(k) /\ (Profiles[k].Durable => old \in RecordOf(k) /\ old.rev >= 1)
    BY <1>1, <1>4 DEF ProfileInv, ProfileShape
  <2>2. /\ r \in RequestOf(k) /\ r.pc = "admit" /\ r.old = old /\ r.spec = eReq[q].spec
        /\ r.kind = eReq[q].kind /\ r.proc = eReq[q].proc /\ r.reply = None
    BY <1>0, <2>1 DEF RequestOf, Flight
  <2>3. eReq' = [eReq EXCEPT ![q] = r]
    BY <1>4 DEF E!Decide, ProfileInv, ProfileShape
  <2> HIDE DEF r
  <2>4. OnItsWay(k, r)
    BY <1>0, <2>1, <2>2 DEF OnItsWay, Flight
  <2>5. LeftSo(r, eCm, eSecret)
    BY <2>2 DEF LeftSo
  <2>6. ProfileKept(k)
    BY <1>0, <1>1, <2>2, <2>3, KeptByReading DEF Quiet
  <2> QED BY <1>0, <2>2, <2>3, <2>4, <2>5, <2>6, RequestReads
<1> QED BY <1>2, <1>3, <1>4

LEMMA GetSteps ==
  ASSUME NEW k \in DOMAIN Profiles, ProfileInv(k), NEW q \in Profiles[k].Requests,
         E(k)!Get(q) \/ E(k)!GetSecret(q)
  PROVE  ProfileInv(k)'
<1>0. /\ eReq[q] \in RequestOf(k) /\ OnItsWay(k, eReq[q])
      /\ eCm \in ConfigMapOf(k) \cup {None} /\ eSecret \in SecretOf(k) \cup {None}
  BY RequestNow DEF ProfileInv, ProfileShape
<1>q. /\ Quiet(k) /\ E(k)!validation' = E(k)!validation /\ eFaults' = eFaults
  BY DEF E!Get, E!GetSecret, Quiet
<1>1. CASE E(k)!Get(q) /\ Profiles[k].Durable
  BY <1>q, <1>1, DecideStep DEF E!Get, E!At
<1>2. CASE E(k)!Get(q) /\ ~Profiles[k].Durable /\ eCm = None
  BY <1>q, <1>2, DecideStep DEF E!Get, E!At
<1>3. CASE E(k)!Get(q) /\ ~Profiles[k].Durable /\ eCm # None
  <2> DEFINE r == [eReq[q] EXCEPT !.pc = "get_secret", !.old = eCm]
  <2>1. eReq[q].pc = "get"
    BY <1>3 DEF E!Get, E!At
  <2>2. /\ r \in RequestOf(k) /\ r.pc = "get_secret" /\ r.old = eCm /\ r.spec = eReq[q].spec
        /\ r.kind = eReq[q].kind /\ r.proc = eReq[q].proc /\ r.reply = None
    BY <1>0, <1>3, <2>1 DEF RequestOf, Flight, OnItsWay
  <2>3. eReq' = [eReq EXCEPT ![q] = r]
    BY <1>3 DEF E!Get, ProfileInv, ProfileShape
  <2> HIDE DEF r
  <2>4. OnItsWay(k, r)
    BY <1>0, <1>3, <2>1, <2>2 DEF OnItsWay, Flight
  <2>5. LeftSo(r, eCm, eSecret) /\ r.reply \notin Winning
    BY <2>2, NoneIsNothing DEF LeftSo
  <2>6. ProfileKept(k)
    BY <1>q, <2>1, <2>2, <2>3, KeptByReading DEF Quiet, ProfileInv, ProfileShape
  <2> QED BY <1>3, <2>1, <2>2, <2>3, <2>4, <2>5, <2>6, RequestReads DEF Flight
<1>4. CASE E(k)!GetSecret(q)
  <2> DEFINE old == [pub |-> eReq[q].old.pub, ver |-> eReq[q].old.ver,
                     sec |-> IF eSecret = None THEN None ELSE eSecret.sec]
  <2>1. eReq[q].pc = "get_secret" /\ eReq' = E(k)!Decide(q, old)
    BY <1>4 DEF E!GetSecret, E!At
  <2>2. ~Profiles[k].Durable /\ eReq[q].old \in ConfigMapOf(k)
    BY <1>0, <2>1 DEF OnItsWay
  <2>3. old \in ReadingOf(k) /\ old # None
    <3>1. eReq[q].old.pub \in PublicHalf(k) /\ eReq[q].old.ver \in Nat
      BY <2>2 DEF ConfigMapOf
    <3>2. (IF eSecret = None THEN None ELSE eSecret.sec) \in SecretHalf(k) \cup {None}
      BY <1>0 DEF SecretOf
    <3> QED BY <3>1, <3>2, NoneIsNothing DEF ReadingOf
  <2>4. Profiles[k].MaxInFlight = 1 => eReq[q].old = eCm
    BY <2>1, <2>2, AloneNow DEF Flight, LeftSo
  <2>5. /\ old.pub = eReq[q].old.pub /\ old.sec = IF eSecret = None THEN None ELSE eSecret.sec
        /\ Profiles[k].MaxInFlight = 1 => eCm # None
    BY <2>2, <2>4, NoneIsNothing
  <2> HIDE DEF old
  <2> QED BY <1>q, <2>1, <2>2, <2>3, <2>4, <2>5, DecideStep
<1> QED BY <1>1, <1>2, <1>3, <1>4, ProfileAssumption

LEMMA CountStep ==
  ASSUME NEW k \in DOMAIN Profiles, ProfileInv(k), NEW q \in Profiles[k].Requests, E(k)!Count(q)
  PROVE  ProfileInv(k)'
<1>1. /\ eReq[q].pc = "count" /\ Quiet(k) /\ E(k)!validation' = E(k)!validation /\ eFaults' = eFaults
      /\ eReq' = E(k)!Reply(q, "cap") \/ eReq' = E(k)!Step(q, "admit")
  BY DEF E!Count, E!At, Quiet
<1>2. eReq[q] \in RequestOf(k) /\ OnItsWay(k, eReq[q]) /\ eFaults' \in 0..Profiles[k].MaxFaults
      /\ eReq[q].pc \in Flight
  BY <1>1, RequestNow DEF ProfileInv, ProfileShape, Flight
<1>3. CASE eReq' = E(k)!Reply(q, "cap")
  <2>1. PICK r \in RequestOf(k) : eReq' = [eReq EXCEPT ![q] = r] /\ r.pc = "done"
    BY <1>2, <1>3, Replied DEF Answers
  <2>2. ProfileKept(k)
    BY <1>1, <1>2, <2>1, KeptByReading DEF Quiet
  <2> QED BY <1>2, <1>3, <2>2, OnlyAnswers
<1>4. CASE eReq' = E(k)!Step(q, "admit")
  <2>1. PICK r \in RequestOf(k) :
           /\ eReq' = [eReq EXCEPT ![q] = r] /\ r.pc = "admit"
           /\ r.old = eReq[q].old /\ r.spec = eReq[q].spec /\ r.kind = eReq[q].kind
           /\ r.proc = eReq[q].proc /\ r.reply = None
    <3>1. "admit" \in Flight /\ eReq' = E(k)!Step(q, "admit")
      BY <1>2, <1>4 DEF Flight
    <3> QED BY <3>1, <1>2, <1>4, Stepped
  <2>2. OnItsWay(k, r) /\ LeftSo(r, eCm, eSecret) /\ r.reply \notin Winning
    BY <1>1, <1>2, <2>1, NoneIsNothing DEF OnItsWay, Flight, LeftSo
  <2>3. ProfileKept(k)
    BY <1>1, <1>2, <2>1, KeptByReading DEF Quiet
  <2> QED BY <1>2, <2>1, <2>2, <2>3, RequestReads
<1> QED BY <1>1, <1>3, <1>4

LEMMA AdmitStep ==
  ASSUME NEW k \in DOMAIN Profiles, ProfileInv(k), NEW q \in Profiles[k].Requests, E(k)!Admit(q)
  PROVE  ProfileInv(k)'
<1> DEFINE p == eReq[q].proc
<1>1. /\ eReq[q].pc = "admit" /\ Quiet(k) /\ eFaults' = eFaults
      /\ eReq[q] \in RequestOf(k) /\ OnItsWay(k, eReq[q]) /\ eFaults' \in 0..Profiles[k].MaxFaults
      /\ eReq[q].pc \in Flight /\ p \in Profiles[k].Procs
  <2>1. eReq[q].pc = "admit" /\ Quiet(k) /\ eFaults' = eFaults
    BY DEF E!Admit, E!At, Quiet
  <2> QED BY <2>1, RequestNow DEF Flight, ProfileInv, ProfileShape, OnItsWay
<1>2. CASE ePermits[p] = 0 \/ eInflight[p] # {}
  <2>1. eReq' = E(k)!Reply(q, "busy") /\ E(k)!validation' = E(k)!validation
    BY <1>2 DEF E!Admit
  <2>2. PICK r \in RequestOf(k) : eReq' = [eReq EXCEPT ![q] = r] /\ r.pc = "done"
    BY <1>1, <2>1, Replied DEF Answers
  <2>3. ProfileKept(k)
    BY <1>1, <2>1, <2>2, KeptByReading DEF Quiet
  <2> QED BY <1>1, <2>1, <2>3, OnlyAnswers
<1>3. CASE ePermits[p] # 0 /\ eInflight[p] = {}
  <2>1. /\ ePermits' = [ePermits EXCEPT ![p] = ePermits[p] - 1]
        /\ eInflight' = [eInflight EXCEPT ![p] = {q}] /\ ePods' = ePods \cup {q}
        /\ eReq' = E(k)!Step(q, "validating")
    BY <1>3 DEF E!Admit
  <2>2. PICK r \in RequestOf(k) :
           /\ eReq' = [eReq EXCEPT ![q] = r] /\ r.pc = "validating"
           /\ r.old = eReq[q].old /\ r.spec = eReq[q].spec /\ r.kind = eReq[q].kind
           /\ r.proc = p /\ r.reply = None
    <3>1. "validating" \in Flight /\ eReq' = E(k)!Step(q, "validating")
      BY <1>1, <2>1 DEF Flight
    <3> QED BY <3>1, <1>1, <2>1, Stepped
  <2>3. OnItsWay(k, r) /\ LeftSo(r, eCm, eSecret) /\ r.reply \notin Winning
    BY <1>1, <2>2, NoneIsNothing DEF OnItsWay, Flight, LeftSo
  <2>4. ProfileSlots(k)'
    <3>1. /\ ePermits \in [Profiles[k].Procs -> 0..Profiles[k].MaxConcurrent]
          /\ eInflight \in [Profiles[k].Procs -> SUBSET Profiles[k].Requests]
          /\ ePermits[p] = Profiles[k].MaxConcurrent /\ Profiles[k].MaxConcurrent \in Nat
      BY <1>1, <1>3, ProfileAssumption DEF ProfileInv, ProfileSlots
    <3>2. \A x \in Profiles[k].Procs : x # p => ePermits'[x] = ePermits[x] /\ eInflight'[x] = eInflight[x]
      BY <1>1, <2>1, <3>1
    <3>3. /\ ePermits' \in [Profiles[k].Procs -> 0..Profiles[k].MaxConcurrent]
          /\ eInflight' \in [Profiles[k].Procs -> SUBSET Profiles[k].Requests]
          /\ eInflight'[p] = {q} /\ ePermits'[p] + 1 = Profiles[k].MaxConcurrent
      BY <1>1, <1>3, <2>1, <3>1
    <3>4. \A x \in Profiles[k].Procs :
            \/ eInflight'[x] = {} /\ ePermits'[x] = Profiles[k].MaxConcurrent
            \/ /\ \E y \in Profiles[k].Requests : eInflight'[x] = {y}
               /\ ePermits'[x] + 1 = Profiles[k].MaxConcurrent
      BY <3>2, <3>3 DEF ProfileInv, ProfileSlots
    <3>5. \A y \in Profiles[k].Requests : y # q => eReq'[y] = eReq[y]
      BY <2>2 DEF ProfileInv, ProfileShape
    <3>6. eReq'[q] = r
      BY <2>2 DEF ProfileInv, ProfileShape
    <3>7. ASSUME NEW x \in Profiles[k].Procs, NEW y \in Profiles[k].Requests
          PROVE  y \in eInflight'[x] <=> eReq'[y].pc = "validating" /\ eReq'[y].proc = x
      <4>1. y \in eInflight[x] <=> eReq[y].pc = "validating" /\ eReq[y].proc = x
        BY DEF ProfileInv, ProfileSlots
      <4>2. CASE y = q
        BY <1>1, <2>2, <3>2, <3>3, <3>6, <4>1, <4>2
      <4>3. CASE y # q
        BY <1>3, <3>2, <3>3, <3>5, <4>1, <4>3
      <4> QED BY <4>2, <4>3
    <3> QED BY <3>3, <3>4, <3>7 DEF ProfileSlots
  <2>5. ProfileKept(k)
    BY <1>1, <2>1, <2>4 DEF ProfileKept, Quiet, E!objects, ProfileInv, ProfileShape
  <2> QED BY <1>1, <2>2, <2>3, <2>5, RequestReads
<1>4. (ePermits[p] # 0 /\ eInflight[p] = {}) \/ (ePermits[p] = 0 \/ eInflight[p] # {})
  OBVIOUS
<1> QED BY <1>2, <1>3, <1>4

\* A validation that ends gives its permit and the slot back.
LEMMA SlotGivenBack ==
  ASSUME NEW k \in DOMAIN Profiles, ProfileInv(k), NEW q \in Profiles[k].Requests,
         eReq[q].pc = "validating", NEW cleaned \in BOOLEAN, E(k)!Release(q, cleaned),
         NEW r \in RequestOf(k), eReq' = [eReq EXCEPT ![q] = r], r.pc # "validating"
  PROVE  ProfileSlots(k)' /\ ePods' \subseteq Profiles[k].Requests
<1> DEFINE p == eReq[q].proc
<1>1. p \in Profiles[k].Procs
  BY RequestNow DEF OnItsWay, Flight
<1>2. /\ ePermits' = [ePermits EXCEPT ![p] = ePermits[p] + 1]
      /\ eInflight' = [eInflight EXCEPT ![p] = eInflight[p] \ {q}]
  BY DEF E!Release
<1>3. /\ ePermits \in [Profiles[k].Procs -> 0..Profiles[k].MaxConcurrent]
      /\ eInflight \in [Profiles[k].Procs -> SUBSET Profiles[k].Requests]
      /\ q \in eInflight[p] /\ Profiles[k].MaxConcurrent \in Nat
  BY <1>1, ProfileAssumption DEF ProfileInv, ProfileSlots
<1>4. eInflight[p] = {q} /\ ePermits[p] + 1 = Profiles[k].MaxConcurrent
  BY <1>1, <1>3 DEF ProfileInv, ProfileSlots
<1>5. \A x \in Profiles[k].Procs : x # p => ePermits'[x] = ePermits[x] /\ eInflight'[x] = eInflight[x]
  BY <1>1, <1>2, <1>3
<1>6. /\ ePermits' \in [Profiles[k].Procs -> 0..Profiles[k].MaxConcurrent]
      /\ eInflight' \in [Profiles[k].Procs -> SUBSET Profiles[k].Requests]
      /\ eInflight'[p] = {} /\ ePermits'[p] = Profiles[k].MaxConcurrent
  <2>1. eInflight'[p] = {} /\ ePermits'[p] = Profiles[k].MaxConcurrent
    BY <1>1, <1>2, <1>3, <1>4
  <2>2. ePermits[p] + 1 \in 0..Profiles[k].MaxConcurrent /\ eInflight[p] \ {q} \in SUBSET Profiles[k].Requests
    BY <1>1, <1>3, <1>4
  <2> QED BY <1>2, <1>3, <2>1, <2>2
<1>7. \A x \in Profiles[k].Procs :
        \/ eInflight'[x] = {} /\ ePermits'[x] = Profiles[k].MaxConcurrent
        \/ /\ \E y \in Profiles[k].Requests : eInflight'[x] = {y}
           /\ ePermits'[x] + 1 = Profiles[k].MaxConcurrent
  BY <1>5, <1>6 DEF ProfileInv, ProfileSlots
<1>8. eReq'[q] = r /\ \A y \in Profiles[k].Requests : y # q => eReq'[y] = eReq[y]
  BY DEF ProfileInv, ProfileShape
<1>9. ASSUME NEW x \in Profiles[k].Procs, NEW y \in Profiles[k].Requests
      PROVE  y \in eInflight'[x] <=> eReq'[y].pc = "validating" /\ eReq'[y].proc = x
  <2>1. y \in eInflight[x] <=> eReq[y].pc = "validating" /\ eReq[y].proc = x
    BY DEF ProfileInv, ProfileSlots
  <2>2. CASE y = q
    BY <1>4, <1>5, <1>6, <1>8, <2>1, <2>2
  <2>3. CASE y # q
    BY <1>4, <1>5, <1>6, <1>8, <2>1, <2>3
  <2> QED BY <2>2, <2>3
<1>10. ePods' \subseteq Profiles[k].Requests
  BY DEF E!Release, ProfileInv, ProfileShape
<1> QED BY <1>6, <1>7, <1>9, <1>10 DEF ProfileSlots

LEMMA VerdictStep ==
  ASSUME NEW k \in DOMAIN Profiles, ProfileInv(k), NEW q \in Profiles[k].Requests,
         NEW outcome \in {"passed", "failed", "error"}, NEW cleaned \in BOOLEAN,
         E(k)!Verdict(q, outcome, cleaned)
  PROVE  ProfileInv(k)'
<1>1. /\ eReq[q].pc = "validating" /\ E(k)!Release(q, cleaned) /\ E(k)!Fault(cleaned)
      /\ UNCHANGED <<eProc, eCm, eSecret, eEnv, eClock>>
      /\ outcome = "passed" => eReq' = E(k)!Step(q, IF ~Profiles[k].Durable THEN "upsert_secret"
                                            ELSE IF eReq[q].old = None THEN "create_env"
                                            ELSE "load_env")
      /\ outcome = "failed" => eReq' = E(k)!Reply(q, "invalid")
      /\ outcome = "error" => eReq' = E(k)!Reply(q, "error")
  BY DEF E!Verdict, E!At
<1>2. /\ eReq[q].pc \in Flight /\ eReq[q] \in RequestOf(k) /\ OnItsWay(k, eReq[q])
      /\ eFaults' \in 0..Profiles[k].MaxFaults
  BY <1>1, RequestNow, FaultsCount DEF Flight
<1>3. ASSUME NEW a \in {"invalid", "error"}, eReq' = E(k)!Reply(q, a) PROVE ProfileInv(k)'
  <2>1. PICK r \in RequestOf(k) : eReq' = [eReq EXCEPT ![q] = r] /\ r.pc = "done"
    BY <1>2, <1>3, Replied DEF Answers
  <2>2. ProfileKept(k)
    BY <1>1, <1>2, <2>1, SlotGivenBack DEF ProfileKept
  <2> QED BY <1>2, <1>3, <2>2, OnlyAnswers
<1>4. CASE outcome = "passed"
  <2> DEFINE next_ == IF ~Profiles[k].Durable THEN "upsert_secret"
                      ELSE IF eReq[q].old = None THEN "create_env" ELSE "load_env"
  <2>1. next_ \in Flight /\ next_ \in {"upsert_secret", "create_env", "load_env"}
    BY DEF Flight
  <2>2. PICK r \in RequestOf(k) :
           /\ eReq' = [eReq EXCEPT ![q] = r] /\ r.pc = next_
           /\ r.old = eReq[q].old /\ r.spec = eReq[q].spec /\ r.kind = eReq[q].kind
           /\ r.proc = eReq[q].proc /\ r.reply = None
    <3>1. next_ \in Flight /\ eReq' = E(k)!Step(q, next_)
      BY <1>1, <1>2, <1>4, <2>1 DEF Flight
    <3>2. eReq[q].pc \in Flight
      BY <1>2
    <3> HIDE DEF next_
    <3> QED BY <3>1, <3>2, Stepped
  <2>3. OnItsWay(k, r)
    BY <1>1, <1>2, <2>1, <2>2, ProfileAssumption DEF OnItsWay, Flight
  <2>4. LeftSo(r, eCm, eSecret) /\ r.reply \notin Winning /\ r.pc # "idle"
    BY <2>1, <2>2, NoneIsNothing DEF LeftSo
  <2>5. ProfileKept(k)
    BY <1>1, <1>2, <2>1, <2>2, SlotGivenBack DEF ProfileKept
  <2> QED BY <1>2, <2>2, <2>3, <2>4, <2>5, RequestReads
<1> QED BY <1>1, <1>3, <1>4

LEMMA ReapStep ==
  ASSUME NEW k \in DOMAIN Profiles, ProfileInv(k), NEW q \in Profiles[k].Requests, E(k)!Reap(q)
  PROVE  ProfileInv(k)'
<1>1. ePods' \subseteq ePods
      /\ UNCHANGED <<eCm, eSecret, eEnv, eClock, eProc, eReq, ePermits, eInflight, eFaults>>
  BY DEF E!Reap, E!objects
<1> QED BY <1>1 DEF ProfileInv, ProfileShape, ProfileSlots, ProfileReads, ProfileMigrates, ProfileAlone, Youngest

LEMMA LoadEnvStep ==
  ASSUME NEW k \in DOMAIN Profiles, ProfileInv(k), NEW q \in Profiles[k].Requests, E(k)!LoadEnv(q)
  PROVE  ProfileInv(k)'
<1>1. /\ eReq[q].pc = "load_env" /\ Quiet(k) /\ E(k)!validation' = E(k)!validation /\ eFaults' = eFaults
  BY DEF E!LoadEnv, E!At, Quiet
<1>2. /\ eReq[q] \in RequestOf(k) /\ OnItsWay(k, eReq[q]) /\ eFaults' \in 0..Profiles[k].MaxFaults
      /\ eReq[q].pc \in Flight
  BY <1>1, RequestNow DEF ProfileInv, ProfileShape, Flight
<1>3. CASE ~(eEnv # None /\ eEnv.ver = eReq[q].old.ver)
  <2>0. eReq' = E(k)!Reply(q, "conflict")
    BY <1>3 DEF E!LoadEnv
  <2>1. PICK r \in RequestOf(k) : eReq' = [eReq EXCEPT ![q] = r] /\ r.pc = "done"
    BY <1>2, <2>0, Replied DEF Answers
  <2>2. ProfileKept(k)
    BY <1>1, <1>2, <2>1, KeptByReading DEF Quiet
  <2> QED BY <1>2, <2>0, <2>2, OnlyAnswers
<1>4. CASE eEnv # None /\ eEnv.ver = eReq[q].old.ver
  <2> DEFINE r == [eReq[q] EXCEPT !.pc = "replace_env", !.old = eEnv]
  <2>1. eEnv \in RecordOf(k) /\ eEnv.rev >= 1
    BY <1>4 DEF ProfileInv, ProfileShape
  <2>2. /\ r \in RequestOf(k) /\ r.pc = "replace_env" /\ r.old = eEnv /\ r.spec = eReq[q].spec
        /\ r.kind = eReq[q].kind /\ r.proc = eReq[q].proc /\ r.reply = None
    BY <1>1, <1>2, <2>1 DEF RequestOf, Flight, OnItsWay
  <2>3. eReq' = [eReq EXCEPT ![q] = r]
    BY <1>4 DEF E!LoadEnv, ProfileInv, ProfileShape
  <2> HIDE DEF r
  <2>4. OnItsWay(k, r)
    BY <1>1, <1>2, <2>1, <2>2, NoneIsNothing DEF OnItsWay, Flight
  <2>5. LeftSo(r, eCm, eSecret) /\ r.reply \notin Winning
    BY <2>2, NoneIsNothing DEF LeftSo
  <2>6. ProfileKept(k)
    BY <1>1, <1>2, <2>2, <2>3, KeptByReading DEF Quiet
  <2> QED BY <1>2, <2>2, <2>3, <2>4, <2>5, <2>6, RequestReads
<1> QED BY <1>3, <1>4

LEMMA CallFailsStep ==
  ASSUME NEW k \in DOMAIN Profiles, ProfileInv(k), NEW q \in Profiles[k].Requests, E(k)!CallFails(q)
  PROVE  ProfileInv(k)'
<1>1. /\ eReq[q].pc \in Flight \ {"validating"} /\ Quiet(k) /\ E(k)!validation' = E(k)!validation
      /\ E(k)!Fault(FALSE) /\ eReq' = E(k)!Reply(q, "error")
  BY DEF E!CallFails, Quiet, Flight
<1>2. PICK r \in RequestOf(k) : eReq' = [eReq EXCEPT ![q] = r] /\ r.pc = "done"
  BY <1>1, Replied DEF Answers
<1>3. eFaults' \in 0..Profiles[k].MaxFaults
  BY <1>1, FaultsCount
<1>4. ProfileKept(k)
  BY <1>1, <1>2, <1>3, KeptByReading DEF Quiet
<1> QED BY <1>1, <1>4, OnlyAnswers

\* A call that may write: the request has an answer or goes on, and the slots stay.
LEMMA RequestWrites ==
  ASSUME NEW k \in DOMAIN Profiles, ProfileInv(k), NEW q \in Profiles[k].Requests,
         NEW r \in RequestOf(k), eReq[q].pc \in Flight \ {"validating"}, eReq' = [eReq EXCEPT ![q] = r],
         r.pc \notin {"idle", "validating"}, OnItsWay(k, r), UNCHANGED eProc,
         E(k)!validation' = E(k)!validation, NEW ok \in BOOLEAN, E(k)!Fault(ok),
         eCm' \in ConfigMapOf(k) \cup {None}, eSecret' \in SecretOf(k) \cup {None},
         \/ UNCHANGED <<eEnv, eClock>>
         \/ eEnv' = None /\ UNCHANGED eClock
         \/ UNCHANGED eEnv /\ eClock' = eClock + 1
         \/ eEnv' \in RecordOf(k) /\ eEnv'.rev >= 1 /\ eEnv'.ver = eClock + 1 /\ eClock' = eClock + 1,
         Profiles[k].Durable => r.old = eReq[q].old,
         Profiles[k].Durable /\ r.reply \in Winning /\ r.old # None
           => eEnv # None /\ r.old.ver = eEnv.ver /\ eEnv'.ver = eClock + 1,
         ~Profiles[k].Durable /\ Profiles[k].MaxInFlight = 1 => LeftSo(r, eCm', eSecret')
  PROVE  ProfileInv(k)'
<1>1. /\ eClock \in Nat /\ eEnv \in RecordOf(k) \cup {None}
      /\ eEnv # None => eEnv.rev >= 1 /\ eEnv.ver <= eClock /\ eEnv.ver \in Nat
  BY DEF ProfileInv, ProfileShape, RecordOf
<1>2. /\ eEnv' \in RecordOf(k) \cup {None} /\ eClock' \in Nat /\ eClock' >= eClock
      /\ eEnv' # None => eEnv'.rev >= 1 /\ eEnv'.ver <= eClock'
      /\ eEnv' \in {eEnv, None} \/ eEnv'.ver > eClock
  BY <1>1
<1>3. eFaults' \in 0..Profiles[k].MaxFaults
  BY FaultsCount
<1>4. ProfileSlots(k)' /\ ePods' \subseteq Profiles[k].Requests
  <2>1. UNCHANGED <<ePermits, eInflight, ePods>>
    BY DEF E!validation
  <2> QED BY <2>1, SlotsStay DEF ProfileInv, ProfileShape
<1>5. ASSUME Profiles[k].Durable PROVE NotStale(r, eEnv', eClock')
  <2>1. r.old # None => r.old \in RecordOf(k) /\ r.old.ver \in Nat
    BY <1>5 DEF OnItsWay, RecordOf
  <2>2. r.old # None => r.old.ver <= eClock
    BY <1>5 DEF ProfileInv, ProfileReads, NotStale
  <2> QED BY <1>1, <1>2, <1>5, <2>1, <2>2 DEF NotStale
<1> QED BY <1>2, <1>3, <1>4, <1>5, RequestMoves

LEMMA WriteEnvSteps ==
  ASSUME NEW k \in DOMAIN Profiles, ProfileInv(k), NEW q \in Profiles[k].Requests,
         NEW ok \in BOOLEAN, E(k)!CreateEnv(q, ok) \/ E(k)!ReplaceEnv(q, ok)
  PROVE  ProfileInv(k)'
<1>1. /\ eReq[q].pc \in {"create_env", "replace_env"} /\ E(k)!Fault(ok)
      /\ UNCHANGED <<eCm, eSecret, eProc>> /\ E(k)!validation' = E(k)!validation
  BY DEF E!CreateEnv, E!ReplaceEnv, E!At
<1>2. /\ eReq[q] \in RequestOf(k) /\ OnItsWay(k, eReq[q]) /\ eReq[q].pc \in Flight \ {"validating"}
      /\ Profiles[k].Durable /\ eReq[q].spec \in Profiles[k].Specs
  BY <1>1, RequestNow, ProfileAssumption DEF Flight, OnItsWay
<1>3. eCm' \in ConfigMapOf(k) \cup {None} /\ eSecret' \in SecretOf(k) \cup {None} /\ eClock \in Nat
  BY <1>1 DEF ProfileInv, ProfileShape
<1>4. eReq[q].spec.pub \in PublicHalf(k) /\ eReq[q].spec.sec \in SecretHalf(k)
  BY <1>2 DEF PublicHalf, SecretHalf, Written
<1>5. CASE E(k)!CreateEnv(q, ok)
  <2>1. PICK a \in {"created", "error", "conflict"} :
          /\ eReq' = E(k)!Reply(q, a)
          /\ \/ UNCHANGED <<eEnv, eClock>> /\ a # "created"
             \/ eEnv' = E(k)!FirstRevision(eReq[q].spec.pub, eReq[q].spec.sec) /\ eClock' = eClock + 1
    BY <1>5 DEF E!CreateEnv
  <2>2. PICK r \in RequestOf(k) : /\ eReq' = [eReq EXCEPT ![q] = r] /\ r.pc = "done" /\ r.reply = a
                                  /\ r.old = eReq[q].old /\ OnItsWay(k, r)
    BY <1>2, <2>1, Replied DEF Answers, Winning
  <2>3. r.old = None
    BY <1>2, <1>5, <2>2 DEF OnItsWay, E!CreateEnv, E!At
  <2>4. \/ UNCHANGED <<eEnv, eClock>>
        \/ eEnv' \in RecordOf(k) /\ eEnv'.rev >= 1 /\ eEnv'.ver = eClock + 1 /\ eClock' = eClock + 1
    BY <1>3, <1>4, <2>1 DEF E!FirstRevision, RecordOf
  <2> QED BY <1>1, <1>2, <1>3, <2>2, <2>3, <2>4, RequestWrites
<1>6. CASE E(k)!ReplaceEnv(q, ok)
  <2>0. eReq[q].old \in RecordOf(k) /\ eReq[q].old.rev \in Nat
    BY <1>2, <1>6 DEF OnItsWay, RecordOf, E!ReplaceEnv, E!At
  <2>1. PICK a \in {"replaced", "error", "conflict"} :
          /\ eReq' = E(k)!Reply(q, a)
          /\ \/ UNCHANGED <<eEnv, eClock>> /\ a # "replaced"
             \/ /\ eEnv' = E(k)!NextRevision(eReq[q].old, eReq[q].spec) /\ eClock' = eClock + 1
                /\ eEnv # None /\ eEnv.ver = eReq[q].old.ver
    BY <1>6 DEF E!ReplaceEnv, E!Replaceable
  <2>2. PICK r \in RequestOf(k) : /\ eReq' = [eReq EXCEPT ![q] = r] /\ r.pc = "done" /\ r.reply = a
                                  /\ r.old = eReq[q].old /\ OnItsWay(k, r)
    BY <1>2, <2>1, Replied DEF Answers, Winning
  <2>4. \/ UNCHANGED <<eEnv, eClock>> /\ r.reply \notin Winning
        \/ /\ eEnv' \in RecordOf(k) /\ eEnv'.rev >= 1 /\ eEnv'.ver = eClock + 1 /\ eClock' = eClock + 1
           /\ eEnv # None /\ eEnv.ver = eReq[q].old.ver
    BY <1>3, <1>4, <2>0, <2>1, <2>2 DEF E!NextRevision, RecordOf, Winning
  <2> QED BY <1>1, <1>2, <1>3, <2>2, <2>4, RequestWrites
<1> QED BY <1>5, <1>6

LEMMA UpsertSteps ==
  ASSUME NEW k \in DOMAIN Profiles, ProfileInv(k), NEW q \in Profiles[k].Requests,
         NEW ok \in BOOLEAN, E(k)!UpsertSecret(q, ok) \/ E(k)!UpsertConfigMap(q, ok)
  PROVE  ProfileInv(k)'
<1>1. /\ eReq[q].pc \in {"upsert_secret", "upsert_cm"} /\ E(k)!Fault(ok)
      /\ UNCHANGED <<eEnv, eProc>> /\ E(k)!validation' = E(k)!validation /\ eClock' = eClock + 1
  BY DEF E!UpsertSecret, E!UpsertConfigMap, E!At
<1>2. /\ eReq[q] \in RequestOf(k) /\ OnItsWay(k, eReq[q]) /\ eReq[q].pc \in Flight \ {"validating"}
      /\ ~Profiles[k].Durable /\ eReq[q].spec \in Profiles[k].Specs
  BY <1>1, RequestNow, ProfileAssumption DEF Flight, OnItsWay
<1>3. /\ eCm \in ConfigMapOf(k) \cup {None} /\ eSecret \in SecretOf(k) \cup {None} /\ eClock \in Nat
      /\ q \in Nat
  BY ProfileAssumption DEF ProfileInv, ProfileShape
<1>4. eReq[q].spec.pub \in PublicHalf(k) /\ eReq[q].spec.sec \in SecretHalf(k)
  BY <1>2 DEF PublicHalf, SecretHalf, Written
<1>5. CASE E(k)!UpsertSecret(q, ok)
  <2>1. /\ eSecret' = [sec |-> eReq[q].spec.sec, by |-> q, ver |-> eClock + 1] /\ eCm' = eCm
        /\ eReq' = E(k)!Step(q, "upsert_cm") \/ eReq' = E(k)!Reply(q, "error")
    BY <1>5 DEF E!UpsertSecret
  <2>2. eSecret' \in SecretOf(k) /\ eSecret' # None /\ eSecret'.sec = eReq[q].spec.sec
    BY <1>3, <1>4, <2>1, NoneIsNothing DEF SecretOf
  <2>3. CASE eReq' = E(k)!Reply(q, "error")
    <3>1. PICK r \in RequestOf(k) : /\ eReq' = [eReq EXCEPT ![q] = r] /\ r.pc = "done" /\ r.reply = "error"
                                    /\ r.old = eReq[q].old /\ OnItsWay(k, r)
      BY <1>2, <2>3, Replied, "error" \in Answers DEF Answers
    <3>2. LeftSo(r, eCm', eSecret')
      BY <3>1 DEF LeftSo, Winning
    <3> QED BY <1>1, <1>2, <1>3, <2>1, <2>2, <3>1, <3>2, RequestWrites
  <2>4. CASE eReq' = E(k)!Step(q, "upsert_cm")
    <3>1. PICK r \in RequestOf(k) :
           /\ eReq' = [eReq EXCEPT ![q] = r] /\ r.pc = "upsert_cm"
           /\ r.old = eReq[q].old /\ r.spec = eReq[q].spec /\ r.kind = eReq[q].kind
           /\ r.proc = eReq[q].proc /\ r.reply = None
      <4>1. "upsert_cm" \in Flight /\ eReq' = E(k)!Step(q, "upsert_cm")
        BY <1>2, <2>4 DEF Flight
      <4> QED BY <4>1, <1>2, <2>4, Stepped
    <3>2. OnItsWay(k, r)
      BY <1>1, <1>2, <3>1 DEF OnItsWay, Flight
    <3>3. LeftSo(r, eCm', eSecret')
      BY <2>2, <3>1 DEF LeftSo
    <3> QED BY <1>1, <1>2, <1>3, <2>1, <2>2, <3>1, <3>2, <3>3, RequestWrites
  <2> QED BY <2>1, <2>3, <2>4
<1>6. CASE E(k)!UpsertConfigMap(q, ok)
  <2>1. /\ eCm' = [pub |-> eReq[q].spec.pub, by |-> q, ver |-> eClock + 1] /\ eSecret' = eSecret
        /\ eReq[q].pc = "upsert_cm"
        /\ \E a \in {"error", "created", "replaced"} : eReq' = E(k)!Reply(q, a)
    BY <1>6 DEF E!UpsertConfigMap, E!At
  <2>2. eCm' \in ConfigMapOf(k) /\ eCm' # None /\ eCm'.pub = eReq[q].spec.pub
    BY <1>3, <1>4, <2>1, NoneIsNothing DEF ConfigMapOf
  <2>3. PICK a \in {"error", "created", "replaced"} : eReq' = E(k)!Reply(q, a)
    BY <2>1
  <2>4. PICK r \in RequestOf(k) : /\ eReq' = [eReq EXCEPT ![q] = r] /\ r.pc = "done" /\ r.reply = a
                                  /\ r.old = eReq[q].old /\ r.spec = eReq[q].spec /\ OnItsWay(k, r)
    BY <1>2, <2>3, Replied DEF Answers, Winning
  <2>5. ~Profiles[k].Durable /\ Profiles[k].MaxInFlight = 1 => LeftSo(r, eCm', eSecret')
    <3>1. Profiles[k].MaxInFlight = 1 => eSecret # None /\ eSecret.sec = eReq[q].spec.sec
      BY <1>2, <2>1, AloneNow DEF LeftSo
    <3> QED BY <2>1, <2>2, <2>4, <3>1 DEF LeftSo
  <2> QED BY <1>1, <1>2, <1>3, <2>1, <2>2, <2>4, <2>5, RequestWrites
<1> QED BY <1>5, <1>6

LEMMA DeleteSteps ==
  ASSUME NEW k \in DOMAIN Profiles, ProfileInv(k), NEW q \in Profiles[k].Requests,
         NEW ok \in BOOLEAN, E(k)!Delete(q, ok) \/ E(k)!DeleteSecret(q, ok)
  PROVE  ProfileInv(k)'
<1>1. /\ eReq[q].pc \in {"delete", "delete_secret"} /\ E(k)!Fault(ok)
      /\ UNCHANGED <<eClock, eProc>> /\ E(k)!validation' = E(k)!validation
  BY DEF E!Delete, E!DeleteSecret, E!At
<1>2. /\ eReq[q] \in RequestOf(k) /\ OnItsWay(k, eReq[q]) /\ eReq[q].pc \in Flight \ {"validating"}
  BY <1>1, RequestNow DEF Flight
<1>3. eCm \in ConfigMapOf(k) \cup {None} /\ eSecret \in SecretOf(k) \cup {None}
  BY DEF ProfileInv, ProfileShape
<1>4. CASE E(k)!Delete(q, ok) /\ eReq' = E(k)!Step(q, "delete_secret") /\ ~Profiles[k].Durable
  <2>1. PICK r \in RequestOf(k) :
           /\ eReq' = [eReq EXCEPT ![q] = r] /\ r.pc = "delete_secret"
           /\ r.old = eReq[q].old /\ r.spec = eReq[q].spec /\ r.kind = eReq[q].kind
           /\ r.proc = eReq[q].proc /\ r.reply = None
    <3>1. "delete_secret" \in Flight /\ eReq' = E(k)!Step(q, "delete_secret")
      BY <1>2, <1>4 DEF Flight
    <3> QED BY <3>1, <1>2, <1>4, Stepped
  <2>2. OnItsWay(k, r)
    BY <1>1, <1>2, <1>4, <2>1 DEF OnItsWay, Flight
  <2>3. eCm' = None /\ UNCHANGED <<eEnv, eSecret>>
    BY <1>4 DEF E!Delete
  <2>4. LeftSo(r, eCm', eSecret')
    BY <2>1, <2>3 DEF LeftSo
  <2> QED BY <1>1, <1>2, <1>3, <1>4, <2>1, <2>2, <2>3, <2>4, RequestWrites
<1>5. ASSUME NEW a \in {"error", "deleted"}, eReq' = E(k)!Reply(q, a),
             eCm' \in {eCm, None}, eSecret' \in {eSecret, None}, eEnv' \in {eEnv, None},
             a = "deleted" /\ ~Profiles[k].Durable /\ Profiles[k].MaxInFlight = 1
               => eCm' = None /\ eSecret' = None
      PROVE  ProfileInv(k)'
  <2>1. PICK r \in RequestOf(k) : /\ eReq' = [eReq EXCEPT ![q] = r] /\ r.pc = "done" /\ r.reply = a
                                  /\ r.old = eReq[q].old /\ r.spec = eReq[q].spec /\ OnItsWay(k, r)
    BY <1>2, <1>5, Replied DEF Answers, Winning
  <2>2. ~Profiles[k].Durable /\ Profiles[k].MaxInFlight = 1 => LeftSo(r, eCm', eSecret')
    BY <1>5, <2>1 DEF LeftSo, Winning
  <2>3. r.reply \notin Winning
    BY <2>1 DEF Winning
  <2> QED BY <1>1, <1>2, <1>3, <1>5, <2>1, <2>2, <2>3, RequestWrites
<1>6. CASE E(k)!Delete(q, ok)
  <2>1. /\ eCm' \in {eCm, None} /\ eSecret' = eSecret /\ eEnv' \in {eEnv, None}
        /\ \/ eReq' = E(k)!Reply(q, "error")
           \/ eReq' = E(k)!Reply(q, "deleted") /\ Profiles[k].Durable
           \/ eReq' = E(k)!Step(q, "delete_secret") /\ ~Profiles[k].Durable
    BY <1>6 DEF E!Delete
  <2> QED BY <1>4, <1>5, <1>6, <2>1
<1>7. CASE E(k)!DeleteSecret(q, ok)
  <2>1. /\ eReq[q].pc = "delete_secret" /\ eSecret' = None /\ UNCHANGED <<eCm, eEnv>>
        /\ eReq' = E(k)!Reply(q, "error") \/ eReq' = E(k)!Reply(q, "deleted")
    BY <1>7 DEF E!DeleteSecret, E!At
  <2>2. ~Profiles[k].Durable /\ Profiles[k].MaxInFlight = 1 => eCm = None
    BY <1>2, <2>1, AloneNow DEF LeftSo
  <2> QED BY <1>5, <2>1, <2>2
<1> QED BY <1>6, <1>7

\* A new request: it comes after all others, and alone when only one may be there.
LEMMA SubmitStep ==
  ASSUME NEW k \in DOMAIN Profiles, ProfileInv(k), NEW q \in Profiles[k].Requests,
         NEW p \in Profiles[k].Procs, NEW kind \in {"put", "delete"},
         NEW s \in Profiles[k].Specs \cup {None}, kind = "put" => s \in Profiles[k].Specs,
         E(k)!Submit(q, p, kind, s)
  PROVE  ProfileInv(k)'
<1> DEFINE r == [E(k)!Idle EXCEPT !.pc = IF kind = "put" THEN "get" ELSE "delete",
                                  !.proc = p, !.kind = kind, !.spec = s]
<1>1. /\ eReq[q].pc = "idle" /\ eReq' = [eReq EXCEPT ![q] = r]
      /\ UNCHANGED <<eCm, eSecret, eEnv, eClock, eProc, ePermits, eInflight, ePods, eFaults>>
      /\ \A x \in Profiles[k].Requests : x < q => eReq[x].pc # "idle"
      /\ Cardinality(E(k)!InFlight) < Profiles[k].MaxInFlight
  BY DEF E!Submit, E!At, E!objects, E!validation, E!Cardinality, Cardinality
<1>2. /\ r \in RequestOf(k) /\ r.pc = (IF kind = "put" THEN "get" ELSE "delete") /\ r.proc = p
      /\ r.kind = kind /\ r.spec = s /\ r.old = None /\ r.reply = None
  BY DEF E!Idle, RequestOf, Flight
<1> HIDE DEF r
<1>3. OnItsWay(k, r)
  BY <1>2, NoneIsNothing DEF OnItsWay, Flight
<1>4. /\ eReq' \in [Profiles[k].Requests -> RequestOf(k)] /\ eReq'[q] = r
      /\ \A x \in Profiles[k].Requests : x # q => eReq'[x] = eReq[x]
  BY <1>1, <1>2 DEF ProfileInv, ProfileShape
<1>5. ProfileShape(k)'
  BY <1>1, <1>4 DEF ProfileInv, ProfileShape
<1>6. ProfileSlots(k)'
  BY <1>1, <1>2, SlotsStay
<1>7. ProfileReads(k)'
  <2>1. \A x \in Profiles[k].Requests : OnItsWay(k, eReq'[x])
    BY <1>3, <1>4 DEF ProfileInv, ProfileReads
  <2>2. Profiles[k].Durable => \A x \in Profiles[k].Requests : NotStale(eReq'[x], eEnv', eClock')
    BY <1>1, <1>2, <1>4 DEF ProfileInv, ProfileReads, NotStale
  <2>3. Profiles[k].Durable =>
          \A x, y \in Profiles[k].Requests :
            /\ x # y /\ eReq'[x].reply \in Winning /\ eReq'[y].reply \in Winning
            /\ eReq'[x].old # None /\ eReq'[y].old # None
            => eReq'[x].old.ver # eReq'[y].old.ver
    BY <1>2, <1>4 DEF ProfileInv, ProfileReads
  <2> QED BY <2>1, <2>2, <2>3 DEF ProfileReads
<1>8. ProfileMigrates(k)'
  <2>1. eReq'[q].kind # None
    BY <1>2, <1>4, NoneIsNothing
  <2> QED BY <2>1 DEF ProfileMigrates
<1>9. ASSUME ~Profiles[k].Durable, Profiles[k].MaxInFlight = 1
      PROVE  /\ \A x \in Profiles[k].Requests : eReq'[x].pc \in Flight => Youngest(k, x)'
             /\ \A x \in Profiles[k].Requests : Youngest(k, x)' => LeftSo(eReq'[x], eCm', eSecret')
  <2>1. \A x \in Profiles[k].Requests : eReq[x].pc \notin Flight
    <3>1. E(k)!InFlight \subseteq Profiles[k].Requests
      BY DEF E!InFlight
    <3>2. IsFiniteSet(E(k)!InFlight) /\ Cardinality(E(k)!InFlight) \in Nat
      BY <3>1, ProfileAssumption, FS_Subset, FS_CardinalityType
    <3>3. Cardinality(E(k)!InFlight) = 0
      BY <1>1, <1>9, <3>2
    <3>4. E(k)!InFlight = {}
      BY <3>2, <3>3, FS_EmptySet
    <3> QED BY <3>4 DEF E!InFlight, Flight
  <2>2. Profiles[k].Requests \subseteq Nat
    BY ProfileAssumption
  <2>3. \A x \in Profiles[k].Requests : x > q => eReq[x].pc = "idle"
    BY <1>1, <1>9 DEF ProfileInv, ProfileAlone
  <2>4. \A x \in Profiles[k].Requests : x # q => (x > q \/ x < q) /\ ~(x > q /\ x < q)
    BY <2>2
  <2>5. Youngest(k, q)'
    <3>1. eReq'[q].pc # "idle"
      BY <1>2, <1>4
    <3>2. ASSUME NEW x \in Profiles[k].Requests PROVE eReq'[x].pc = "idle" \/ x <= q
      <4>1. CASE x > q
        <5>1. x # q /\ eReq[x].pc = "idle"
          BY <2>2, <2>3, <4>1
        <5> QED BY <1>4, <5>1
      <4>2. CASE ~(x > q)
        BY <2>2, <4>2
      <4> QED BY <4>1, <4>2
    <3> QED BY <3>1, <3>2 DEF Youngest
  <2>6. \A x \in Profiles[k].Requests : x # q => ~Youngest(k, x)'
    <3>1. ASSUME NEW x \in Profiles[k].Requests, x # q, Youngest(k, x)' PROVE FALSE
      <4>1. eReq'[x] = eReq[x] /\ eReq[x].pc # "idle" /\ (eReq'[q].pc = "idle" \/ q <= x)
        BY <1>4, <3>1 DEF Youngest
      <4>2. eReq'[q].pc # "idle"
        BY <1>2, <1>4
      <4> QED BY <2>2, <2>3, <2>4, <3>1, <4>1, <4>2
    <3> QED BY <3>1
  <2>7. LeftSo(r, eCm', eSecret')
    BY <1>2 DEF LeftSo
  <2> QED BY <2>1, <2>5, <2>6, <2>7, <1>4
<1>o. ~Profiles[k].Durable =>
        \A x, y \in Profiles[k].Requests : x < y /\ eReq'[x].pc = "idle" => eReq'[y].pc = "idle"
  <2> SUFFICES ASSUME ~Profiles[k].Durable, NEW x \in Profiles[k].Requests, NEW y \in Profiles[k].Requests,
                      x < y, eReq'[x].pc = "idle"
               PROVE  eReq'[y].pc = "idle"
    OBVIOUS
  <2>1. x # q /\ eReq[x].pc = "idle"
    BY <1>2, <1>4
  <2>2. y # q
    BY <1>1, <2>1
  <2> QED BY <1>4, <2>1, <2>2 DEF ProfileInv, ProfileAlone
<1>10. ProfileAlone(k)'
  BY <1>1, <1>9, <1>o DEF ProfileInv, ProfileAlone
<1> QED BY <1>5, <1>6, <1>7, <1>8, <1>10 DEF ProfileInv

\* A process ends: its requests are lost, its slots free.
LEMMA CrashStep ==
  ASSUME NEW k \in DOMAIN Profiles, ProfileInv(k), NEW p \in Profiles[k].Procs, E(k)!Crash(p)
  PROVE  ProfileInv(k)'
<1> DEFINE Gone(q) == eReq[q].pc \in Flight /\ eReq[q].proc = p
           lost(q) == [eReq[q] EXCEPT !.pc = "done", !.reply = "lost"]
<1>0. /\ eReq \in [Profiles[k].Requests -> RequestOf(k)] /\ eProc \in [Profiles[k].Procs -> StartOf(k)]
      /\ ePermits \in [Profiles[k].Procs -> 0..Profiles[k].MaxConcurrent]
      /\ eInflight \in [Profiles[k].Procs -> SUBSET Profiles[k].Requests]
      /\ Profiles[k].MaxConcurrent \in Nat
  BY ProfileAssumption DEF ProfileInv, ProfileShape, ProfileSlots
<1>1. /\ eProc' = [eProc EXCEPT ![p] = E(k)!Down]
      /\ ePermits' = [ePermits EXCEPT ![p] = Profiles[k].MaxConcurrent]
      /\ eInflight' = [eInflight EXCEPT ![p] = {}]
      /\ UNCHANGED <<ePods, eCm, eSecret, eEnv, eClock>> /\ E(k)!Fault(FALSE)
  BY DEF E!Crash, E!objects
<1>2. eReq' = [q \in Profiles[k].Requests |-> IF Gone(q) THEN lost(q) ELSE eReq[q]]
  <2>1. \A q \in Profiles[k].Requests : eReq[q].pc \in Flight \cup {"idle", "done"}
    BY <1>0 DEF RequestOf
  <2>2. \A q \in Profiles[k].Requests : q \in E(k)!InFlight <=> eReq[q].pc \in Flight
    BY <2>1 DEF E!InFlight, Flight
  <2> QED BY <2>2 DEF E!Crash
<1>3. \A q \in Profiles[k].Requests :
        /\ lost(q) \in RequestOf(k) /\ lost(q).pc = "done" /\ lost(q).reply = "lost"
        /\ lost(q).old = eReq[q].old /\ lost(q).kind = eReq[q].kind
  BY <1>0 DEF RequestOf
<1>4. \A q \in Profiles[k].Requests : eReq'[q] = IF Gone(q) THEN lost(q) ELSE eReq[q]
  BY <1>2
<1>5. eReq' \in [Profiles[k].Requests -> RequestOf(k)]
  BY <1>0, <1>2, <1>3
<1> HIDE DEF lost
<1>6. \A q \in Profiles[k].Requests :
        /\ eReq'[q].old = eReq[q].old /\ eReq'[q].kind = eReq[q].kind
        /\ eReq'[q].reply \in Winning \cup {"unchanged", "deleted"} => eReq'[q] = eReq[q]
        /\ eReq'[q].pc = "idle" <=> eReq[q].pc = "idle"
        /\ eReq'[q].pc \in Flight => eReq'[q] = eReq[q]
        /\ eReq'[q].pc = "validating" <=> eReq[q].pc = "validating" /\ eReq[q].proc # p
  BY <1>3, <1>4 DEF Winning, Flight
<1>7. ProfileShape(k)'
  <2>1. E(k)!Down \in StartOf(k) /\ eFaults' \in 0..Profiles[k].MaxFaults
    BY <1>1, FaultsCount DEF E!Down, StartOf
  <2>2. \A x \in Profiles[k].Procs : eProc'[x].pc \in {"create", "verify"} => eProc'[x].cm # None /\ eProc'[x].secret # None
    BY <1>0, <1>1 DEF ProfileInv, ProfileShape, E!Down
  <2>3. eProc' \in [Profiles[k].Procs -> StartOf(k)]
    BY <1>0, <1>1, <2>1
  <2> QED BY <1>1, <1>5, <2>1, <2>2, <2>3 DEF ProfileInv, ProfileShape
<1>8. ProfileSlots(k)'
  <2>1. /\ eInflight'[p] = {} /\ ePermits'[p] = Profiles[k].MaxConcurrent
        /\ \A x \in Profiles[k].Procs : x # p => ePermits'[x] = ePermits[x] /\ eInflight'[x] = eInflight[x]
        /\ ePermits' \in [Profiles[k].Procs -> 0..Profiles[k].MaxConcurrent]
        /\ eInflight' \in [Profiles[k].Procs -> SUBSET Profiles[k].Requests]
    BY <1>0, <1>1
  <2>2. \A x \in Profiles[k].Procs :
          \/ eInflight'[x] = {} /\ ePermits'[x] = Profiles[k].MaxConcurrent
          \/ /\ \E y \in Profiles[k].Requests : eInflight'[x] = {y}
             /\ ePermits'[x] + 1 = Profiles[k].MaxConcurrent
    BY <2>1 DEF ProfileInv, ProfileSlots
  <2>3. ASSUME NEW x \in Profiles[k].Procs, NEW q \in Profiles[k].Requests
        PROVE  q \in eInflight'[x] <=> eReq'[q].pc = "validating" /\ eReq'[q].proc = x
    <3>1. q \in eInflight[x] <=> eReq[q].pc = "validating" /\ eReq[q].proc = x
      BY DEF ProfileInv, ProfileSlots
    <3>2. eReq'[q].pc = "validating" => eReq'[q] = eReq[q]
      BY <1>6 DEF Flight
    <3> QED BY <1>6, <2>1, <3>1, <3>2
  <2> QED BY <2>1, <2>2, <2>3 DEF ProfileSlots
<1>9. ProfileReads(k)'
  <2>1. ASSUME NEW q \in Profiles[k].Requests PROVE OnItsWay(k, eReq'[q])
    <3>1. OnItsWay(k, eReq[q])
      BY DEF ProfileInv, ProfileReads
    <3>2. CASE Gone(q)
      BY <1>3, <1>4, <3>1, <3>2 DEF OnItsWay, Flight
    <3>3. CASE ~Gone(q)
      BY <1>4, <3>1, <3>3
    <3> QED BY <3>2, <3>3
  <2>2. Profiles[k].Durable => \A q \in Profiles[k].Requests : NotStale(eReq'[q], eEnv', eClock')
    BY <1>1, <1>6 DEF ProfileInv, ProfileReads, NotStale
  <2>3. Profiles[k].Durable =>
          \A x, y \in Profiles[k].Requests :
            /\ x # y /\ eReq'[x].reply \in Winning /\ eReq'[y].reply \in Winning
            /\ eReq'[x].old # None /\ eReq'[y].old # None
            => eReq'[x].old.ver # eReq'[y].old.ver
    BY <1>6 DEF ProfileInv, ProfileReads
  <2> QED BY <2>1, <2>2, <2>3 DEF ProfileReads
<1>p. /\ eProc'[p] = E(k)!Down /\ \A x \in Profiles[k].Procs : x # p => eProc'[x] = eProc[x]
      /\ E(k)!Down.pc = "down" /\ E(k)!Down.cm = None /\ E(k)!Down.secret = None
  BY <1>0, <1>1 DEF E!Down
<1>10. ProfileMigrates(k)'
  <2> SUFFICES ASSUME Profiles[k].Durable, None \notin Profiles[k].Legacy,
                      \A q \in Profiles[k].Requests : eReq'[q].kind = None
               PROVE  \E s \in Profiles[k].Legacy :
                        /\ InStore(s, eCm', eSecret', eEnv')
                        /\ \A x \in Profiles[k].Procs : HasSeen(s, eProc'[x], eEnv')
    BY DEF ProfileMigrates
  <2>1. PICK s \in Profiles[k].Legacy :
          /\ InStore(s, eCm, eSecret, eEnv)
          /\ \A x \in Profiles[k].Procs : HasSeen(s, eProc[x], eEnv)
    BY <1>6 DEF ProfileInv, ProfileMigrates
  <2>2. HasSeen(s, E(k)!Down, eEnv)
    BY <1>p DEF HasSeen
  <2> QED BY <1>1, <1>p, <2>1, <2>2
<1>11. ProfileAlone(k)'
  <2> SUFFICES ASSUME ~Profiles[k].Durable PROVE ProfileAlone(k)'
    BY DEF ProfileAlone
  <2>1. \A q \in Profiles[k].Requests : Youngest(k, q)' <=> Youngest(k, q)
    BY <1>6 DEF Youngest
  <2>2. ASSUME Profiles[k].MaxInFlight = 1, NEW q \in Profiles[k].Requests, Youngest(k, q)
        PROVE  LeftSo(eReq'[q], eCm', eSecret')
    <3>1. LeftSo(eReq[q], eCm, eSecret)
      BY <2>2 DEF ProfileInv, ProfileAlone
    <3>2. CASE Gone(q)
      BY <1>3, <1>4, <3>2 DEF LeftSo, Winning
    <3>3. CASE ~Gone(q)
      BY <1>1, <1>4, <3>1, <3>3
    <3> QED BY <3>2, <3>3
  <2>3. \A x \in Profiles[k].Procs : eProc'[x].pc \in {"down", "serving"}
    BY <1>p DEF ProfileInv, ProfileAlone
  <2>4. \A x, y \in Profiles[k].Requests : x < y /\ eReq'[x].pc = "idle" => eReq'[y].pc = "idle"
    BY <1>6 DEF ProfileInv, ProfileAlone
  <2>5. Profiles[k].MaxInFlight = 1 =>
          \A q \in Profiles[k].Requests : eReq'[q].pc \in Flight => Youngest(k, q)'
    BY <1>6, <2>1 DEF ProfileInv, ProfileAlone
  <2> QED BY <2>1, <2>2, <2>3, <2>4, <2>5 DEF ProfileAlone
<1> QED BY <1>7, <1>8, <1>9, <1>10, <1>11 DEF ProfileInv

\* A step of a process that starts.
LEMMA StartMoves ==
  ASSUME NEW k \in DOMAIN Profiles, ProfileInv(k), NEW p \in Profiles[k].Procs,
         NEW x \in StartOf(k), eProc' = [eProc EXCEPT ![p] = x], UNCHANGED eReq,
         E(k)!validation' = E(k)!validation, eFaults' \in 0..Profiles[k].MaxFaults,
         x.pc \in {"create", "verify"} => x.cm # None /\ x.secret # None,
         eCm' \in {eCm, None}, eSecret' \in {eSecret, None},
         \/ UNCHANGED <<eEnv, eClock>>
         \/ eEnv' \in RecordOf(k) /\ eEnv'.rev >= 1 /\ eEnv'.ver = eClock + 1 /\ eClock' = eClock + 1,
         ~Profiles[k].Durable => x.pc \in {"down", "serving"} /\ UNCHANGED <<eCm, eSecret>>,
         \A s \in Profiles[k].Legacy :
           Profiles[k].Durable /\ HasSeen(s, eProc[p], eEnv) /\ InStore(s, eCm, eSecret, eEnv)
             => HasSeen(s, x, eEnv') /\ InStore(s, eCm', eSecret', eEnv')
  PROVE  ProfileInv(k)'
<1>1. /\ eProc' \in [Profiles[k].Procs -> StartOf(k)] /\ eProc'[p] = x
      /\ \A y \in Profiles[k].Procs : y # p => eProc'[y] = eProc[y]
      /\ UNCHANGED <<ePermits, eInflight, ePods>> /\ eClock \in Nat /\ eEnv \in RecordOf(k) \cup {None}
      /\ eEnv # None => eEnv.ver \in Nat
  BY DEF ProfileInv, ProfileShape, E!validation, RecordOf
<1>2. ProfileShape(k)'
  <2>1. \A y \in Profiles[k].Procs :
          eProc'[y].pc \in {"create", "verify"} => eProc'[y].cm # None /\ eProc'[y].secret # None
    BY <1>1 DEF ProfileInv, ProfileShape
  <2>2. eEnv' \in RecordOf(k) \cup {None} /\ eClock' \in Nat /\ (eEnv' # None => eEnv'.rev >= 1 /\ eEnv'.ver <= eClock')
    BY <1>1 DEF ProfileInv, ProfileShape
  <2> QED BY <1>1, <2>1, <2>2 DEF ProfileInv, ProfileShape
<1>3. ProfileSlots(k)'
  BY <1>1 DEF ProfileInv, ProfileSlots
<1>4. ProfileReads(k)'
  <2>1. ASSUME Profiles[k].Durable, NEW q \in Profiles[k].Requests PROVE NotStale(eReq[q], eEnv', eClock')
    <3>1. NotStale(eReq[q], eEnv, eClock) /\ OnItsWay(k, eReq[q])
      BY <2>1 DEF ProfileInv, ProfileReads
    <3>2. eReq[q].old # None => eReq[q].old.ver \in Nat
      BY <2>1, <3>1 DEF OnItsWay, RecordOf
    <3> QED BY <1>1, <3>1, <3>2 DEF NotStale
  <2> QED BY <2>1 DEF ProfileInv, ProfileReads
<1>5. ProfileMigrates(k)'
  <2> SUFFICES ASSUME Profiles[k].Durable, None \notin Profiles[k].Legacy,
                      \A q \in Profiles[k].Requests : eReq[q].kind = None
               PROVE  \E s \in Profiles[k].Legacy :
                        /\ InStore(s, eCm', eSecret', eEnv')
                        /\ \A y \in Profiles[k].Procs : HasSeen(s, eProc'[y], eEnv')
    BY DEF ProfileMigrates
  <2>1. PICK s \in Profiles[k].Legacy :
          /\ InStore(s, eCm, eSecret, eEnv)
          /\ \A y \in Profiles[k].Procs : HasSeen(s, eProc[y], eEnv)
    BY DEF ProfileInv, ProfileMigrates
  <2>2. HasSeen(s, x, eEnv') /\ InStore(s, eCm', eSecret', eEnv')
    BY <2>1
  <2>3. eEnv # None => eEnv' # None
    BY NoneIsNothing
  <2>4. \A y \in Profiles[k].Procs : y # p => HasSeen(s, eProc'[y], eEnv')
    BY <1>1, <2>1, <2>3 DEF HasSeen
  <2> QED BY <1>1, <2>2, <2>4
<1>6. ProfileAlone(k)'
  <2>1. ~Profiles[k].Durable => \A y \in Profiles[k].Procs : eProc'[y].pc \in {"down", "serving"}
    BY <1>1 DEF ProfileInv, ProfileAlone
  <2>2. \A q \in Profiles[k].Requests : Youngest(k, q)' <=> Youngest(k, q)
    BY DEF Youngest
  <2> QED BY <2>1, <2>2 DEF ProfileInv, ProfileAlone
<1> QED BY <1>2, <1>3, <1>4, <1>5, <1>6 DEF ProfileInv

LEMMA StartUpStep ==
  ASSUME NEW k \in DOMAIN Profiles, ProfileInv(k), NEW p \in Profiles[k].Procs, E(k)!StartUp(p)
  PROVE  ProfileInv(k)'
<1> DEFINE o == eProc[p]
<1>0. /\ o \in StartOf(k) /\ eProc \in [Profiles[k].Procs -> StartOf(k)] /\ Profiles[k].Durable \in BOOLEAN
      /\ eCm \in ConfigMapOf(k) \cup {None} /\ eSecret \in SecretOf(k) \cup {None}
      /\ eEnv \in RecordOf(k) \cup {None} /\ eFaults \in 0..Profiles[k].MaxFaults
      /\ eClock \in Nat /\ (o.pc \in {"create", "verify"} => o.cm # None /\ o.secret # None)
      /\ ~Profiles[k].Durable => o.pc \in {"down", "serving"}
  BY ProfileAssumption DEF ProfileInv, ProfileShape, ProfileAlone
<1>d. /\ E(k)!Down \in StartOf(k) /\ E(k)!Down.pc = "down" /\ E(k)!Down.cm = None /\ E(k)!Down.secret = None
  BY DEF E!Down, StartOf
<1>m. ASSUME NEW pc_ \in {"list_cm", "serving", "delete_cm", "create", "verify", "delete_secret"}
      PROVE  \E x \in StartOf(k) : /\ E(k)!Move(p, pc_) = [eProc EXCEPT ![p] = x]
                                   /\ x.pc = pc_ /\ x.cm = o.cm /\ x.secret = o.secret
  <2> DEFINE x == [o EXCEPT !.pc = pc_]
  <2>1. x \in StartOf(k) /\ x.pc = pc_ /\ x.cm = o.cm /\ x.secret = o.secret
    BY <1>0 DEF StartOf
  <2>2. E(k)!Move(p, pc_) = [eProc EXCEPT ![p] = x]
    BY <1>0 DEF E!Move
  <2> QED BY <2>1, <2>2
\* A step that only looks, and one that gives up.
<1>s. ASSUME NEW x \in StartOf(k), eProc' = [eProc EXCEPT ![p] = x], UNCHANGED <<eReq, eFaults>>,
             E(k)!objects' = E(k)!objects, E(k)!validation' = E(k)!validation,
             x.pc \in {"create", "verify"} => x.cm # None /\ x.secret # None,
             ~Profiles[k].Durable => x.pc \in {"down", "serving"},
             \A s \in Profiles[k].Legacy :
               Profiles[k].Durable /\ HasSeen(s, o, eEnv) /\ InStore(s, eCm, eSecret, eEnv) => HasSeen(s, x, eEnv)
      PROVE  ProfileInv(k)'
  <2>1. UNCHANGED <<eCm, eSecret, eEnv, eClock>>
    BY <1>s DEF E!objects
  <2>2. eFaults' \in 0..Profiles[k].MaxFaults
    BY <1>0, <1>s
  <2> QED BY <1>s, <2>1, <2>2, StartMoves
<1>g. \A s, record : HasSeen(s, E(k)!Down, record)
  BY <1>d DEF HasSeen
<1>1. CASE E(k)!Start(p)
  <2>1. /\ o.pc = "down" /\ eProc' = E(k)!Move(p, IF Profiles[k].Durable THEN "list_cm" ELSE "serving")
        /\ UNCHANGED <<eReq, eFaults>> /\ E(k)!objects' = E(k)!objects /\ E(k)!validation' = E(k)!validation
    BY <1>1 DEF E!Start
  <2>2. PICK x \in StartOf(k) : /\ eProc' = [eProc EXCEPT ![p] = x]
                                /\ x.pc = (IF Profiles[k].Durable THEN "list_cm" ELSE "serving")
                                /\ x.cm = o.cm /\ x.secret = o.secret
    BY <1>m, <2>1
  <2>3. \A s \in Profiles[k].Legacy : Profiles[k].Durable /\ HasSeen(s, o, eEnv) => HasSeen(s, x, eEnv)
    BY <2>2 DEF HasSeen
  <2> QED BY <1>s, <2>1, <2>2, <2>3
<1>2. CASE E(k)!ListConfigMaps(p)
  <2> DEFINE x == [pc |-> "list_secret", cm |-> eCm, secret |-> None]
  <2>1. /\ o.pc = "list_cm" /\ eProc' = [eProc EXCEPT ![p] = x]
        /\ UNCHANGED <<eReq, eFaults>> /\ E(k)!objects' = E(k)!objects /\ E(k)!validation' = E(k)!validation
    BY <1>2 DEF E!ListConfigMaps
  <2>2. x \in StartOf(k) /\ x.pc = "list_secret" /\ x.cm = eCm /\ x.secret = None
    BY <1>0 DEF StartOf
  <2> HIDE DEF x
  <2>3. \A s \in Profiles[k].Legacy : InStore(s, eCm, eSecret, eEnv) => HasSeen(s, x, eEnv)
    BY <2>2 DEF HasSeen, InStore
  <2> QED BY <1>0, <1>s, <2>1, <2>2, <2>3
<1>3. CASE E(k)!ListSecrets(p)
  <2> DEFINE to == IF o.cm = None /\ eSecret = None THEN "serving" ELSE "check"
             x == [o EXCEPT !.secret = eSecret, !.pc = to]
  <2>1. /\ o.pc = "list_secret"
        /\ UNCHANGED <<eReq, eFaults>> /\ E(k)!objects' = E(k)!objects /\ E(k)!validation' = E(k)!validation
    BY <1>3 DEF E!ListSecrets
  <2>2. x \in StartOf(k) /\ x.pc = to /\ x.cm = o.cm /\ x.secret = eSecret
    BY <1>0 DEF StartOf
  <2>3. eProc' = [eProc EXCEPT ![p] = x]
    BY <1>0, <1>3 DEF E!ListSecrets
  <2>4. to \in {"serving", "check"} /\ (to = "serving" => eSecret = None)
    OBVIOUS
  <2> HIDE DEF x, to
  <2>5. \A s \in Profiles[k].Legacy :
          HasSeen(s, o, eEnv) /\ InStore(s, eCm, eSecret, eEnv) => HasSeen(s, x, eEnv)
    BY <2>2, <2>4 DEF HasSeen, InStore
  <2> QED BY <1>0, <1>s, <2>1, <2>2, <2>3, <2>4, <2>5
<1>4. CASE E(k)!CheckEnvelope(p)
  <2>1. /\ o.pc = "check"
        /\ UNCHANGED <<eReq, eFaults>> /\ E(k)!objects' = E(k)!objects /\ E(k)!validation' = E(k)!validation
        /\ \/ eEnv # None /\ eProc' = E(k)!Move(p, "delete_cm")
           \/ o.cm # None /\ o.secret # None /\ eProc' = E(k)!Move(p, "create")
           \/ eProc' = [eProc EXCEPT ![p] = E(k)!Down]
    BY <1>4 DEF E!CheckEnvelope, E!Complete
  <2>2. ASSUME NEW pc_ \in {"delete_cm", "create"}, eProc' = E(k)!Move(p, pc_),
               pc_ = "delete_cm" => eEnv # None, pc_ = "create" => o.cm # None /\ o.secret # None
        PROVE  ProfileInv(k)'
    <3>1. PICK x \in StartOf(k) : /\ eProc' = [eProc EXCEPT ![p] = x]
                                  /\ x.pc = pc_ /\ x.cm = o.cm /\ x.secret = o.secret
      BY <1>m, <2>2
    <3>2. \A s \in Profiles[k].Legacy : HasSeen(s, o, eEnv) => HasSeen(s, x, eEnv)
      BY <2>2, <3>1 DEF HasSeen
    <3> QED BY <1>0, <1>s, <2>1, <2>2, <3>1, <3>2
  <2>3. CASE eProc' = [eProc EXCEPT ![p] = E(k)!Down]
    BY <1>d, <1>g, <1>s, <2>1, <2>3
  <2> QED BY <2>1, <2>2, <2>3
<1>5. CASE E(k)!VerifyEnvelope(p)
  <2>1. /\ o.pc = "verify"
        /\ UNCHANGED <<eReq, eFaults>> /\ E(k)!objects' = E(k)!objects /\ E(k)!validation' = E(k)!validation
        /\ \/ eEnv # None /\ eProc' = E(k)!Move(p, "delete_cm")
           \/ eProc' = [eProc EXCEPT ![p] = E(k)!Down]
    BY <1>5 DEF E!VerifyEnvelope
  <2>2. CASE eEnv # None /\ eProc' = E(k)!Move(p, "delete_cm")
    <3>1. PICK x \in StartOf(k) : /\ eProc' = [eProc EXCEPT ![p] = x]
                                  /\ x.pc = "delete_cm" /\ x.cm = o.cm /\ x.secret = o.secret
      BY <1>m, <2>2
    <3>2. \A s \in Profiles[k].Legacy : HasSeen(s, o, eEnv) => HasSeen(s, x, eEnv)
      BY <2>2, <3>1 DEF HasSeen
    <3> QED BY <1>0, <1>s, <2>1, <2>2, <3>1, <3>2
  <2>3. CASE eProc' = [eProc EXCEPT ![p] = E(k)!Down]
    BY <1>d, <1>g, <1>s, <2>1, <2>3
  <2> QED BY <2>1, <2>2, <2>3
<1>6. ASSUME NEW ok \in BOOLEAN, E(k)!CreateEnvelope(p, ok) PROVE ProfileInv(k)'
  <2>1. /\ o.pc = "create" /\ UNCHANGED <<eReq, eCm, eSecret>> /\ E(k)!validation' = E(k)!validation
        /\ E(k)!Fault(ok)
        /\ \/ eEnv = None /\ eEnv' = E(k)!FirstRevision(o.cm.pub, o.secret.sec) /\ eClock' = eClock + 1
           \/ eEnv # None /\ UNCHANGED <<eEnv, eClock>>
        /\ eProc' = E(k)!Move(p, "verify") \/ eProc' = [eProc EXCEPT ![p] = E(k)!Down]
    BY <1>6 DEF E!CreateEnvelope
  <2>2. /\ o.cm \in ConfigMapOf(k) /\ o.secret \in SecretOf(k) /\ o.cm # None /\ o.secret # None
        /\ o.cm.pub \in PublicHalf(k) /\ o.secret.sec \in SecretHalf(k) /\ Profiles[k].Durable
    BY <1>0, <2>1 DEF StartOf, ConfigMapOf, SecretOf
  <2>3. \/ UNCHANGED <<eEnv, eClock>> /\ eEnv # None
        \/ /\ eEnv' \in RecordOf(k) /\ eEnv'.rev >= 1 /\ eEnv'.ver = eClock + 1 /\ eClock' = eClock + 1
           /\ eEnv'.pub = o.cm.pub /\ eEnv'.sec = o.secret.sec
    BY <1>0, <2>1, <2>2 DEF E!FirstRevision, RecordOf
  <2>4. PICK x \in StartOf(k) : /\ eProc' = [eProc EXCEPT ![p] = x] /\ x.pc \in {"verify", "down"}
                                /\ x.cm \in {o.cm, None} /\ x.secret \in {o.secret, None}
                                /\ x.pc = "verify" => x.cm = o.cm /\ x.secret = o.secret
    BY <1>d, <1>m, <2>1
  <2>5. eEnv' # None
    BY <2>3, NoneIsNothing
  <2>6. \A s \in Profiles[k].Legacy :
          HasSeen(s, o, eEnv) /\ InStore(s, eCm, eSecret, eEnv) => HasSeen(s, x, eEnv') /\ InStore(s, eCm, eSecret, eEnv')
    BY <2>2, <2>3, <2>4, <2>5 DEF HasSeen, InStore
  <2>7. eFaults' \in 0..Profiles[k].MaxFaults
    BY <2>1, FaultsCount
  <2> QED BY <2>1, <2>2, <2>3, <2>4, <2>6, <2>7, StartMoves
<1>7. ASSUME NEW ok \in BOOLEAN, E(k)!DeleteLegacyCm(p, ok) \/ E(k)!DeleteLegacySecret(p, ok)
      PROVE  ProfileInv(k)'
  <2>1. /\ o.pc \in {"delete_cm", "delete_secret"} /\ UNCHANGED <<eReq, eEnv, eClock>>
        /\ E(k)!validation' = E(k)!validation /\ E(k)!Fault(ok)
        /\ eCm' \in {eCm, None} /\ eSecret' \in {eSecret, None}
    BY <1>7 DEF E!DeleteLegacyCm, E!DeleteLegacySecret
  <2>2. PICK x \in StartOf(k) : /\ eProc' = [eProc EXCEPT ![p] = x] /\ x.pc \in {"delete_secret", "serving", "down"}
                                /\ x.cm \in {o.cm, None} /\ x.secret \in {o.secret, None}
    <3>1. CASE E(k)!DeleteLegacyCm(p, ok)
      <4>1. eProc' = E(k)!Move(p, "delete_secret") \/ eProc' = [eProc EXCEPT ![p] = E(k)!Down]
        BY <3>1 DEF E!DeleteLegacyCm
      <4> QED BY <1>d, <1>m, <4>1
    <3>2. CASE E(k)!DeleteLegacySecret(p, ok)
      <4> DEFINE x == [E(k)!Down EXCEPT !.pc = "serving"]
      <4>1. eProc' = [eProc EXCEPT ![p] = x] \/ eProc' = [eProc EXCEPT ![p] = E(k)!Down]
        BY <3>2 DEF E!DeleteLegacySecret
      <4>2. x \in StartOf(k) /\ x.pc = "serving" /\ x.cm = None /\ x.secret = None
        BY DEF E!Down, StartOf
      <4> QED BY <1>d, <4>1, <4>2
    <3> QED BY <1>7, <3>1, <3>2
  <2>3. Profiles[k].Durable
    BY <1>0, <2>1
  <2>4. \A s \in Profiles[k].Legacy :
          HasSeen(s, o, eEnv) /\ InStore(s, eCm, eSecret, eEnv) => HasSeen(s, x, eEnv) /\ InStore(s, eCm', eSecret', eEnv)
    BY <2>1, <2>2 DEF HasSeen, InStore
  <2>5. eFaults' \in 0..Profiles[k].MaxFaults
    BY <2>1, FaultsCount
  <2> QED BY <2>1, <2>2, <2>3, <2>4, <2>5, StartMoves
<1> QED BY <1>1, <1>2, <1>3, <1>4, <1>5, <1>6, <1>7 DEF E!StartUp

LEMMA ProfileStart == ASSUME NEW k \in DOMAIN Profiles, E(k)!Init PROVE ProfileInv(k)
<1>1. /\ E(k)!Idle \in RequestOf(k) /\ E(k)!Idle.pc = "idle" /\ E(k)!Idle.kind = None
      /\ E(k)!Idle.old = None /\ E(k)!Idle.reply = None
      /\ E(k)!Down \in StartOf(k) /\ E(k)!Down.pc = "down" /\ E(k)!Down.cm = None /\ E(k)!Down.secret = None
  BY DEF E!Idle, E!Down, RequestOf, StartOf
<1>2. /\ \A q \in Profiles[k].Requests : eReq[q] = E(k)!Idle
      /\ \A p \in Profiles[k].Procs : eProc[p] = E(k)!Down /\ eInflight[p] = {}
           /\ ePermits[p] = Profiles[k].MaxConcurrent
      /\ eReq \in [Profiles[k].Requests -> RequestOf(k)] /\ eProc \in [Profiles[k].Procs -> StartOf(k)]
      /\ ePermits \in [Profiles[k].Procs -> 0..Profiles[k].MaxConcurrent]
      /\ eInflight \in [Profiles[k].Procs -> SUBSET Profiles[k].Requests]
      /\ eEnv = None /\ eClock = 1 /\ ePods = {} /\ eFaults \in 0..Profiles[k].MaxFaults
  BY <1>1, ProfileAssumption DEF E!Init
<1>3. PICK s \in Profiles[k].Legacy :
        /\ eCm = IF s = None THEN None ELSE [pub |-> s.pub, by |-> 0, ver |-> 1]
        /\ eSecret = IF s = None THEN None ELSE [sec |-> s.sec, by |-> 0, ver |-> 1]
  BY DEF E!Init
<1>4. s # None => /\ eCm \in ConfigMapOf(k) /\ eCm # None /\ eCm.pub = s.pub
                  /\ eSecret \in SecretOf(k) /\ eSecret # None /\ eSecret.sec = s.sec
  <2> SUFFICES ASSUME s # None
               PROVE  /\ eCm \in ConfigMapOf(k) /\ eCm # None /\ eCm.pub = s.pub
                      /\ eSecret \in SecretOf(k) /\ eSecret # None /\ eSecret.sec = s.sec
    OBVIOUS
  <2>1. s.pub \in PublicHalf(k) /\ s.sec \in SecretHalf(k)
    BY DEF PublicHalf, SecretHalf, Written
  <2>2. eCm = [pub |-> s.pub, by |-> 0, ver |-> 1] /\ eSecret = [sec |-> s.sec, by |-> 0, ver |-> 1]
    BY <1>3
  <2>3. eCm \in ConfigMapOf(k) /\ eSecret \in SecretOf(k) /\ eCm.pub = s.pub /\ eSecret.sec = s.sec
    BY <2>1, <2>2 DEF ConfigMapOf, SecretOf
  <2> QED BY <2>3, NoneIsNothing
<1>5. ProfileShape(k)
  <2>1. eCm \in ConfigMapOf(k) \cup {None} /\ eSecret \in SecretOf(k) \cup {None}
    BY <1>3, <1>4
  <2> QED BY <1>1, <1>2, <2>1 DEF ProfileShape
<1>6. ProfileSlots(k)
  BY <1>1, <1>2 DEF ProfileSlots
<1>7. ProfileReads(k)
  <2>1. OnItsWay(k, E(k)!Idle) /\ NotStale(E(k)!Idle, eEnv, eClock)
    BY <1>1 DEF OnItsWay, NotStale, Flight
  <2> QED BY <1>1, <1>2, <2>1 DEF ProfileReads
<1>8. ProfileMigrates(k)
  <2>1. s # None => InStore(s, eCm, eSecret, eEnv)
    BY <1>2, <1>4 DEF InStore
  <2>2. HasSeen(s, E(k)!Down, eEnv)
    BY <1>1 DEF HasSeen
  <2> QED BY <1>2, <2>1, <2>2 DEF ProfileMigrates
<1>9. ProfileAlone(k)
  BY <1>1, <1>2 DEF ProfileAlone, Youngest, Flight
<1> QED BY <1>5, <1>6, <1>7, <1>8, <1>9 DEF ProfileInv

LEMMA ProfileStep ==
  ASSUME NEW k \in DOMAIN Profiles, ProfileInv(k), [E(k)!Next]_profileVars
  PROVE  ProfileInv(k)'
<1>1. CASE UNCHANGED profileVars
  BY <1>1 DEF profileVars, ProfileInv, ProfileShape, ProfileSlots, ProfileReads, ProfileMigrates,
     ProfileAlone, Youngest
<1>2. CASE E(k)!Next
  <2>1. ASSUME NEW p \in Profiles[k].Procs, E(k)!StartUp(p) \/ E(k)!Crash(p) PROVE ProfileInv(k)'
    BY <2>1, StartUpStep, CrashStep
  <2>2. ASSUME NEW q \in Profiles[k].Requests, NEW p \in Profiles[k].Procs,
               (\E s \in Profiles[k].Specs : E(k)!Submit(q, p, "put", s)) \/ E(k)!Submit(q, p, "delete", None)
        PROVE  ProfileInv(k)'
    <3>1. ASSUME NEW s \in Profiles[k].Specs, E(k)!Submit(q, p, "put", s) PROVE ProfileInv(k)'
      BY <3>1, SubmitStep
    <3>2. CASE E(k)!Submit(q, p, "delete", None)
      BY <3>2, SubmitStep
    <3> QED BY <2>2, <3>1, <3>2
  <2>3. ASSUME NEW q \in Profiles[k].Requests, E(k)!Serve(q) PROVE ProfileInv(k)'
    <3>1. ASSUME NEW ok \in BOOLEAN,
                 \/ E(k)!CreateEnv(q, ok) \/ E(k)!ReplaceEnv(q, ok)
                 \/ E(k)!UpsertSecret(q, ok) \/ E(k)!UpsertConfigMap(q, ok)
                 \/ E(k)!Delete(q, ok) \/ E(k)!DeleteSecret(q, ok)
          PROVE  ProfileInv(k)'
      BY <3>1, WriteEnvSteps, UpsertSteps, DeleteSteps
    <3>2. ASSUME NEW outcome \in {"passed", "failed", "error"}, NEW cleaned \in BOOLEAN,
                 E(k)!Verdict(q, outcome, cleaned)
          PROVE  ProfileInv(k)'
      BY <3>2, VerdictStep
    <3> QED BY <2>3, <3>1, <3>2, GetSteps, CountStep, AdmitStep, LoadEnvStep, CallFailsStep DEF E!Serve
  <2> QED BY <1>2, <2>1, <2>2, <2>3, ReapStep DEF E!Next
<1> QED BY <1>1, <1>2

LEMMA ProfileInvGives == ASSUME NEW k \in DOMAIN Profiles, ProfileInv(k) PROVE E(k)!EnvironmentsSafe
<1>1. E(k)!TypeOK
  <2>1. ASSUME NEW p \in Profiles[k].Procs
        PROVE  /\ ePermits[p] \in 0..Profiles[k].MaxConcurrent /\ Cardinality(eInflight[p]) <= 1
               /\ {q \in Profiles[k].Requests : E(k)!At(q, "validating") /\ eReq[q].proc = p} = eInflight[p]
    <3>1. eInflight[p] = {} \/ \E q \in Profiles[k].Requests : eInflight[p] = {q}
      BY DEF ProfileInv, ProfileSlots
    <3>2. Cardinality(eInflight[p]) <= 1
      <4>1. CASE eInflight[p] = {}
        BY <4>1, FS_EmptySet
      <4>2. ASSUME NEW q \in Profiles[k].Requests, eInflight[p] = {q} PROVE Cardinality(eInflight[p]) <= 1
        <5>1. Cardinality({q}) = 1
          BY FS_Singleton
        <5> QED BY <4>2, <5>1
      <4> QED BY <3>1, <4>1, <4>2
    <3>3. \A q \in Profiles[k].Requests :
            q \in eInflight[p] <=> E(k)!At(q, "validating") /\ eReq[q].proc = p
      BY DEF ProfileInv, ProfileSlots, E!At
    <3>4. eInflight[p] \subseteq Profiles[k].Requests /\ ePermits[p] \in 0..Profiles[k].MaxConcurrent
      BY DEF ProfileInv, ProfileSlots
    <3> QED BY <3>2, <3>3, <3>4
  <2> QED BY <2>1 DEF E!TypeOK, E!Cardinality, Cardinality, ProfileInv, ProfileShape
<1>2. E(k)!OneWinnerPerRead
  BY DEF E!OneWinnerPerRead, E!Won, ProfileInv, ProfileReads, Winning
<1>3. E(k)!ProfileSurvives
  <2> SUFFICES ASSUME Profiles[k].Durable, None \notin Profiles[k].Legacy, E(k)!Untouched
               PROVE  /\ \E s \in Profiles[k].Legacy :
                           E(k)!Whole(s) \/ (eEnv # None /\ eEnv.pub = s.pub /\ eEnv.sec = s.sec)
                      /\ (\E p \in Profiles[k].Procs : eProc[p].pc = "serving") => eEnv # None
    BY DEF E!ProfileSurvives
  <2>1. PICK s \in Profiles[k].Legacy :
          /\ InStore(s, eCm, eSecret, eEnv)
          /\ \A p \in Profiles[k].Procs : HasSeen(s, eProc[p], eEnv)
    BY DEF E!Untouched, ProfileInv, ProfileMigrates
  <2>2. E(k)!Whole(s) \/ (eEnv # None /\ eEnv.pub = s.pub /\ eEnv.sec = s.sec)
    BY <2>1 DEF InStore, E!Whole
  <2>3. ASSUME NEW p \in Profiles[k].Procs, eProc[p].pc = "serving" PROVE eEnv # None
    BY <2>1, <2>3 DEF HasSeen
  <2> QED BY <2>2, <2>3
<1>4. E(k)!AnswerIsTrue
  <2> SUFFICES ASSUME Profiles[k].MaxInFlight = 1, ~Profiles[k].Durable, E(k)!InFlight = {},
                      NEW q \in E(k)!Last
               PROVE  /\ E(k)!Won(q) \/ eReq[q].reply = "unchanged" => E(k)!Whole(eReq[q].spec)
                      /\ eReq[q].reply = "deleted" => eCm = None /\ eSecret = None
    BY DEF E!AnswerIsTrue
  <2>1. q \in Profiles[k].Requests /\ Youngest(k, q)
    BY DEF E!Last, E!At, Youngest
  <2>2. eReq[q].pc = "done"
    BY <2>1 DEF E!InFlight, Youngest
  <2>3. LeftSo(eReq[q], eCm, eSecret)
    BY <2>1 DEF ProfileInv, ProfileAlone
  <2> QED BY <2>2, <2>3 DEF LeftSo, E!Won, E!Whole, Winning
<1> QED BY <1>1, <1>2, <1>3, <1>4 DEF E!EnvironmentsSafe

\* Of two writes that read the same version at most one replaces it; a legacy
\* profile survives the migration however processes start, race and stop; a write
\* that was alone left what it was told it left; and a process never validates a
\* profile twice at a time (routes/environments.rs, k8s/env_store.rs,
\* k8s/durable_env_store/migration.rs, k8s/env_validator.rs).
THEOREM EnvironmentsAreSafe == PartSpec => []EnvironmentsSafe
<1> DEFINE I == \A k \in DOMAIN Profiles : part = k => ProfileInv(k)
<1>1. PartInit => I
  BY ProfileStart DEF PartInit
<1>2. I /\ [PartNext]_allVars => I'
  <2> SUFFICES ASSUME I, [PartNext]_allVars, NEW k \in DOMAIN Profiles, part' = k PROVE ProfileInv(k)'
    OBVIOUS
  <2>1. part = k /\ [E(k)!Next]_profileVars
    BY DEF PartNext, allVars
  <2> QED BY <2>1, ProfileStep
<1>3. I => EnvironmentsSafe
  BY ProfileInvGives DEF EnvironmentsSafe
<1> QED BY <1>1, <1>2, <1>3, PTL DEF PartSpec

-----------------------------------------------------------------------------
(* The walks over the activity                                              *)

\* Events are ordered, newest first.
LEMMA AboveOrders ==
  ASSUME NEW k \in DOMAIN Walkers
  PROVE  /\ \A r, t \in Walkers[k].Rows : r = t \/ Y(k)!Above(r, t) \/ Y(k)!Above(t, r)
         /\ \A r, t \in Walkers[k].Rows : Y(k)!Above(r, t) => ~Y(k)!Above(t, r) /\ r # t
         /\ \A r, t, u \in Walkers[k].Rows :
              Y(k)!Above(r, t) /\ Y(k)!Above(t, u) => Y(k)!Above(r, u)
<1>1. \A r \in Walkers[k].Rows : r \in Nat /\ Walkers[k].Row[r].ts \in Int
  BY WalkAssumption
<1> QED BY <1>1 DEF Y!Above

HigherIn(k, set, r) == {t \in set : Y(k)!Above(t, r)}

\* A part of a finite set of events is no larger, and smaller if it leaves one out.
LEMMA Fewer ==
  ASSUME NEW k \in DOMAIN Walkers, NEW U \in SUBSET Walkers[k].Rows, NEW V \in SUBSET U
  PROVE  /\ Cardinality(V) \in Nat /\ Cardinality(U) \in Nat /\ Cardinality(V) <= Cardinality(U)
         /\ \A r \in U \ V : Cardinality(V) < Cardinality(U)
<1>1. IsFiniteSet(U) /\ IsFiniteSet(V)
  BY WalkAssumption, FS_Subset
<1>2. /\ Cardinality(V) \in Nat /\ Cardinality(U) \in Nat /\ Cardinality(V) <= Cardinality(U)
      /\ V # U => Cardinality(V) # Cardinality(U)
  BY <1>1, FS_Subset, FS_CardinalityType
<1> QED BY <1>2

LEMMA NewestIs ==
  ASSUME NEW k \in DOMAIN Walkers, NEW S1, NEW n
  PROVE  Y(k)!Newest(S1, n) = {r \in S1 : Cardinality(HigherIn(k, S1, r)) < n}
BY DEF Y!Newest, Y!Cardinality, Cardinality, HigherIn

\* The newest n of a set: whoever is above one of them is among them, and whoever is
\* not has n of them above it.
LEMMA NewestGives ==
  ASSUME NEW k \in DOMAIN Walkers, NEW S1 \in SUBSET Walkers[k].Rows, NEW n \in Nat
  PROVE  /\ Y(k)!Newest(S1, n) \subseteq S1
         /\ \A t \in Y(k)!Newest(S1, n) : Cardinality(HigherIn(k, S1, t)) < n
         /\ \A t \in Y(k)!Newest(S1, n), r \in S1 : Y(k)!Above(r, t) => r \in Y(k)!Newest(S1, n)
         /\ \A r \in S1 \ Y(k)!Newest(S1, n) :
              n <= Cardinality(HigherIn(k, Y(k)!Newest(S1, n), r))
<1> DEFINE N == Y(k)!Newest(S1, n)
           C1(r) == Cardinality(HigherIn(k, S1, r))
<1>1. \A r \in S1 : HigherIn(k, S1, r) \in SUBSET S1 /\ C1(r) \in Nat
  BY Fewer DEF HigherIn
<1>2. \A r, t \in S1 : Y(k)!Above(r, t) => C1(r) < C1(t)
  <2> SUFFICES ASSUME NEW r \in S1, NEW t \in S1, Y(k)!Above(r, t) PROVE C1(r) < C1(t)
    OBVIOUS
  <2>1. HigherIn(k, S1, r) \subseteq HigherIn(k, S1, t)
    BY AboveOrders DEF HigherIn
  <2>2. r \in HigherIn(k, S1, t) /\ r \notin HigherIn(k, S1, r)
    BY AboveOrders DEF HigherIn
  <2>3. HigherIn(k, S1, t) \in SUBSET Walkers[k].Rows
    BY DEF HigherIn
  <2> HIDE DEF HigherIn
  <2> QED BY <2>1, <2>2, <2>3, Fewer
<1>3. N = {r \in S1 : C1(r) < n}
  BY NewestIs
<1> HIDE DEF N
<1>4. \A t \in N, r \in S1 : Y(k)!Above(r, t) => r \in N
  BY <1>1, <1>2, <1>3
<1>5. ASSUME NEW r \in S1 \ N
      PROVE  n <= Cardinality(HigherIn(k, N, r))
  <2> DEFINE Q == {C1(t) : t \in S1 \ N}
  <2>1. Q \in SUBSET Nat /\ Q # {}
    BY <1>1
  <2>2. PICK m \in Q : \A q \in Q : m <= q
    <3> HIDE DEF Q
    <3> QED BY <2>1, LeastIs
  <2>3. PICK t \in S1 \ N : m = C1(t)
    BY <2>2
  <2>4. \A u \in S1 \ N : C1(t) <= C1(u)
    BY <2>2, <2>3
  <2>5. n <= C1(t)
    BY <1>1, <1>3, <2>3
  <2>6. t = r \/ Y(k)!Above(t, r)
    <3>1. ~Y(k)!Above(r, t)
      BY <1>1, <1>2, <1>5, <2>3, <2>4
    <3> QED BY <3>1, AboveOrders
  <2>7. \A u \in HigherIn(k, S1, t) : u \in N
    <3> SUFFICES ASSUME NEW u \in S1, Y(k)!Above(u, t), u \notin N PROVE FALSE
      BY DEF HigherIn
    <3>1. C1(u) < C1(t) /\ C1(t) <= C1(u) /\ C1(u) \in Nat /\ C1(t) \in Nat
      BY <1>1, <1>2, <2>3, <2>4
    <3> QED BY <3>1
  <2>8. HigherIn(k, S1, t) \subseteq HigherIn(k, N, r)
    <3> SUFFICES ASSUME NEW u \in HigherIn(k, S1, t) PROVE u \in N /\ Y(k)!Above(u, r)
      BY DEF HigherIn
    <3>1. u \in S1 /\ Y(k)!Above(u, t) /\ u \in N
      BY <2>7 DEF HigherIn
    <3> QED BY <2>6, <3>1, AboveOrders
  <2>9. HigherIn(k, N, r) \in SUBSET Walkers[k].Rows
    BY <1>3 DEF HigherIn
  <2>10. /\ Cardinality(HigherIn(k, S1, t)) <= Cardinality(HigherIn(k, N, r))
         /\ Cardinality(HigherIn(k, S1, t)) \in Nat /\ Cardinality(HigherIn(k, N, r)) \in Nat
    <3> HIDE DEF HigherIn
    <3> QED BY <2>8, <2>9, Fewer
  <2> QED BY <2>5, <2>10
<1>6. N \subseteq S1 /\ \A t \in N : C1(t) < n
  BY <1>3
<1> QED BY <1>4, <1>5, <1>6 DEF N

\* A page that shows something has a last event.
LEMMA LastIs ==
  ASSUME NEW k \in DOMAIN Walkers, NEW S1 \in SUBSET Walkers[k].Rows, S1 # {}
  PROVE  /\ Y(k)!Last(S1) \in S1
         /\ \A t \in S1 : t = Y(k)!Last(S1) \/ Y(k)!Above(t, Y(k)!Last(S1))
<1> DEFINE Lower(r) == {t \in S1 : Y(k)!Above(r, t)}
           Q == {Cardinality(Lower(r)) : r \in S1}
<1>1. \A r \in S1 : Lower(r) \in SUBSET S1 /\ Cardinality(Lower(r)) \in Nat
  BY Fewer
<1>2. Q \in SUBSET Nat /\ Q # {}
  BY <1>1
<1>3. PICK m \in Q : \A q \in Q : m <= q
  <2> HIDE DEF Q
  <2> QED BY <1>2, LeastIs
<1>4. PICK r \in S1 : m = Cardinality(Lower(r))
  BY <1>3
<1>5. ASSUME NEW t \in S1
      PROVE  t = r \/ Y(k)!Above(t, r)
  <2> SUFFICES ASSUME Y(k)!Above(r, t) PROVE FALSE
    BY AboveOrders
  <2>1. Lower(t) \subseteq Lower(r) /\ t \in Lower(r) /\ t \notin Lower(t)
    BY AboveOrders
  <2>2. Lower(r) \in SUBSET Walkers[k].Rows
    OBVIOUS
  <2>3. Cardinality(Lower(t)) < Cardinality(Lower(r))
    <3> HIDE DEF Lower
    <3> QED BY <2>1, <2>2, Fewer
  <2>4. Cardinality(Lower(r)) <= Cardinality(Lower(t))
    BY <1>3, <1>4
  <2> QED BY <1>1, <2>3, <2>4
<1>6. \E l \in S1 : \A t \in S1 : t = l \/ Y(k)!Above(t, l)
  BY <1>5
<1> QED BY <1>6 DEF Y!Last

-----------------------------------------------------------------------------

WalkSources == {"posthog", "relay"}
Outcomes(k) == UNION {[D -> PageOf(k) \cup {None}] : D \in SUBSET WalkSources}
WalkOf(k) ==
  [pc : {"idle", "fetch", "ended"}, query : Walkers[k].Queries \cup {None},
   cursor : Walkers[k].Rows \cup {None}, range : WalkRange \cup {None}, outcome : Outcomes(k),
   served : SUBSET Walkers[k].Rows, start : SUBSET Walkers[k].Rows,
   partial : BOOLEAN, refused : BOOLEAN, twice : BOOLEAN]

\* What the query and the cursor of a walk leave to be read.
InWindow(k, x, r) ==
  /\ Y(k)!Visible(r, x.query)
  /\ x.range.from <= Walkers[k].Row[r].ts /\ Walkers[k].Row[r].ts < x.range.to
Ahead(k, x) == {r \in Walkers[k].Rows : InWindow(k, x, r) /\ Y(k)!After(r, x.cursor)}

\* A walk that goes on has been given nothing that is still ahead of it.
WalkTiles(k, x) ==
  /\ x.pc = "fetch" => x.query \in Walkers[k].Queries
  /\ x.pc = "idle" => DOMAIN x.outcome = {}
  /\ \A s \in DOMAIN x.outcome : x.outcome[s] # None => x.outcome[s].rows \subseteq Ahead(k, x)
  /\ x.twice = FALSE /\ x.refused = FALSE
  /\ x.pc # "ended" => /\ x.cursor = None => x.served = {}
                       /\ x.cursor # None => \A r \in x.served : ~Y(k)!Above(x.cursor, r)

\* A page of the relay has what was there at the start, or a full page above it.
PageWhole(k, x, p) ==
  /\ p.raw = Cardinality(p.rows)
  /\ \A r \in x.start : Y(k)!After(r, x.cursor) =>
       r \in p.rows \/ Walkers[k].Limit < Cardinality(HigherIn(k, p.rows, r))

\* What was there at the start has been given, or is ahead.
WalkCovers(k, x, here) ==
  /\ x.start \subseteq here /\ \A r \in x.start : InWindow(k, x, r)
  /\ x.partial = FALSE =>
       \A r \in x.start : r \in x.served \/ (x.pc # "ended" /\ Y(k)!After(r, x.cursor))
  /\ "relay" \in DOMAIN x.outcome /\ x.outcome["relay"] # None => PageWhole(k, x, x.outcome["relay"])

\* Every row of the relay can be read, and its ceiling is above the page.
Wholly(k) == Walkers[k].Unreadable = {} /\ Walkers[k].Limit < Walkers[k].MaxReadRows

Running(k) == {w \in Walkers[k].Walks : yWalk[w].pc = "fetch"}
WalkShape(k) ==
  /\ yNow \in {Walkers[k].MaxNow - 1, Walkers[k].MaxNow} /\ yFaults \in 0..Walkers[k].MaxFaults
  /\ yRelay \subseteq Walkers[k].Rows /\ yPosthog \subseteq yRelay
  /\ yWalk \in [Walkers[k].Walks -> WalkOf(k)]
WalkPermits(k) ==
  /\ yPerPrincipal \in [Y(k)!Principals -> Nat]
  /\ \A p \in Y(k)!Principals : yPerPrincipal[p] = Cardinality(Y(k)!Fetching(p))
  /\ yGlobal = Cardinality(Running(k))

\* The inductive invariant of the activity read.
WalkInv(k) ==
  /\ WalkShape(k) /\ WalkPermits(k)
  /\ \A w \in Walkers[k].Walks :
       WalkTiles(k, yWalk[w]) /\ (Wholly(k) => WalkCovers(k, yWalk[w], yRelay))

LEMMA WalkNow ==
  ASSUME NEW k \in DOMAIN Walkers, WalkInv(k), NEW w \in Walkers[k].Walks
  PROVE  /\ yWalk[w] \in WalkOf(k) /\ WalkTiles(k, yWalk[w])
         /\ Wholly(k) => WalkCovers(k, yWalk[w], yRelay)
         /\ yRelay \subseteq Walkers[k].Rows /\ yPosthog \subseteq Walkers[k].Rows
BY DEF WalkInv, WalkShape

LEMMA SelectedIs ==
  ASSUME NEW k \in DOMAIN Walkers, NEW w, NEW S1 \in SUBSET Walkers[k].Rows
  PROVE  Y(k)!Selected(S1, w) = S1 \cap Ahead(k, yWalk[w])
BY DEF Y!Selected, Ahead, InWindow

LEMMA LesserIs ==
  ASSUME NEW k \in DOMAIN Walkers, NEW a \in Nat, NEW b \in Nat
  PROVE  /\ Y(k)!Min({a, b}) \in Nat /\ Y(k)!Min({a, b}) <= a
         /\ a <= b => Y(k)!Min({a, b}) = a
<1>1. \E m \in {a, b} : \A n \in {a, b} : m <= n
  OBVIOUS
<1>2. Y(k)!Min({a, b}) \in {a, b} /\ \A n \in {a, b} : Y(k)!Min({a, b}) <= n
  BY <1>1 DEF Y!Min
<1> QED BY <1>2

\* What a fetch brings lies ahead; the relay brings all there was, up to a full page.
LEMMA FetchGives ==
  ASSUME NEW k \in DOMAIN Walkers, WalkInv(k), NEW w \in Walkers[k].Walks
  PROVE  /\ Y(k)!FetchPosthog(w) \in PageOf(k)
         /\ Y(k)!FetchPosthog(w).rows \subseteq Ahead(k, yWalk[w])
         /\ Y(k)!FetchRelay(w) \in PageOf(k)
         /\ Y(k)!FetchRelay(w).rows \subseteq Ahead(k, yWalk[w])
         /\ Wholly(k) => PageWhole(k, yWalk[w], Y(k)!FetchRelay(w))
<1> DEFINE x == yWalk[w]
           P1 == Y(k)!Selected(yPosthog, w)
           P2 == Y(k)!Selected(yRelay, w)
           F == Walkers[k].Limit + 1
           F2 == Y(k)!Min({F, Walkers[k].MaxReadRows})
           R1 == Y(k)!Newest(P1, F)
           R2 == Y(k)!Newest(P2, F2) \ Walkers[k].Unreadable
<1>1. /\ P1 \in SUBSET Walkers[k].Rows /\ P1 \subseteq Ahead(k, x)
      /\ P2 = yRelay \cap Ahead(k, x) /\ P2 \in SUBSET Walkers[k].Rows
  BY WalkNow, SelectedIs
<1>2. F \in Nat /\ F2 \in Nat /\ (Wholly(k) => F2 = F)
  BY WalkAssumption, LesserIs DEF Wholly
<1>3. /\ Y(k)!FetchPosthog(w) = [rows |-> R1 \ Walkers[k].Malformed, raw |-> Cardinality(R1),
                                 errors |-> Cardinality(R1 \intersect Walkers[k].Malformed)]
      /\ Y(k)!FetchRelay(w) = [rows |-> R2, raw |-> Cardinality(R2), errors |-> 0]
  BY DEF Y!FetchPosthog, Y!FetchRelay, Y!FetchLimit, Y!Cardinality, Cardinality
<1> HIDE DEF P1, P2, F, F2
<1>4. R1 \subseteq P1 /\ Y(k)!Newest(P2, F2) \subseteq P2
  BY <1>1, <1>2, NewestGives
<1>5. ASSUME NEW S1 \in SUBSET Walkers[k].Rows PROVE Cardinality(S1) \in Nat
  BY Fewer
<1>6. /\ R1 \ Walkers[k].Malformed \in SUBSET Walkers[k].Rows /\ R2 \in SUBSET Walkers[k].Rows
      /\ R1 \in SUBSET Walkers[k].Rows /\ R1 \intersect Walkers[k].Malformed \in SUBSET Walkers[k].Rows
      /\ R1 \subseteq Ahead(k, x) /\ R2 \subseteq Ahead(k, x)
  BY <1>1, <1>4
<1>7. /\ Cardinality(R1) \in Nat /\ Cardinality(R2) \in Nat
      /\ Cardinality(R1 \intersect Walkers[k].Malformed) \in Nat
  BY <1>5, <1>6
<1>8. ASSUME Wholly(k)
      PROVE  PageWhole(k, x, Y(k)!FetchRelay(w))
  <2>1. R2 = Y(k)!Newest(P2, F) /\ F = Walkers[k].Limit + 1
    BY <1>2, <1>8 DEF Wholly, F
  <2>2. ASSUME NEW r \in x.start, Y(k)!After(r, x.cursor), r \notin R2
        PROVE  Walkers[k].Limit < Cardinality(HigherIn(k, R2, r))
    <3>1. r \in yRelay /\ InWindow(k, x, r) /\ r \in Walkers[k].Rows
      BY <1>8, WalkNow DEF WalkCovers
    <3>2. r \in P2
      BY <1>1, <2>2, <3>1 DEF Ahead
    <3>3. F <= Cardinality(HigherIn(k, R2, r))
      <4>1. r \in P2 \ Y(k)!Newest(P2, F)
        BY <2>1, <2>2, <3>2
      <4>2. F <= Cardinality(HigherIn(k, Y(k)!Newest(P2, F), r))
        <5> HIDE DEF R2
        <5> QED BY <1>1, <1>2, <4>1, NewestGives
      <4> HIDE DEF R2
      <4> QED BY <2>1, <4>2
    <3>4. Cardinality(HigherIn(k, R2, r)) \in Nat
      <4>1. HigherIn(k, R2, r) \in SUBSET Walkers[k].Rows
        BY <1>6 DEF HigherIn
      <4> QED BY <1>5, <4>1
    <3> QED BY <2>1, <3>3, <3>4, WalkAssumption
  <2> HIDE DEF R2
  <2> QED BY <1>3, <2>2 DEF PageWhole
<1> HIDE DEF R1, R2
<1> QED BY <1>3, <1>6, <1>7, <1>8 DEF PageOf

\* The merge keeps what the policy admits.
LEMMA EnforceKeeps ==
  ASSUME NEW k \in DOMAIN Walkers, NEW x, x.query \in Walkers[k].Queries,
         NEW S1 \in SUBSET Ahead(k, x)
  PROVE  Y(k)!Enforce(x.query, S1) = S1
<1> SUFFICES ASSUME NEW r \in S1
             PROVE  x.query.scope = "mine" =>
                      IF Walkers[k].Row[r].life
                      THEN x.query.session # None /\ Walkers[k].Row[r].session = x.query.session
                      ELSE Walkers[k].Row[r].actor = x.query.viewer
  BY DEF Y!Enforce
<1>1. Y(k)!Visible(r, x.query)
  BY DEF Ahead, InWindow
<1>2. Y(k)!ApiBranch(r, x.query) \/ Y(k)!LifecycleBranch(r, x.query)
  <2>1. x.query.kind \in {"api", "lifecycle", "all"}
    BY WalkAssumption
  <2> QED BY <1>1, <2>1 DEF Y!Visible
<1> QED BY <1>2, Zenon DEF Y!ApiBranch, Y!LifecycleBranch
\* A merged page shows what is ahead, ends with its last event, and leaves out only
\* what is below that.
LEMMA MergeGives ==
  ASSUME NEW k \in DOMAIN Walkers, NEW x \in WalkOf(k), WalkTiles(k, x), x.pc = "fetch",
         DOMAIN x.outcome = WalkSources
  PROVE  LET page == Y(k)!Merge(x.outcome, x.query)
         IN  /\ page.items \subseteq Ahead(k, x) /\ page.partial \in BOOLEAN
             /\ page.next \in Walkers[k].Rows \cup {None}
             /\ page.next # None =>
                  /\ page.next \in page.items
                  /\ \A t \in page.items : t = page.next \/ Y(k)!Above(t, page.next)
             /\ /\ page.partial = FALSE
                /\ x.outcome["relay"] # None => PageWhole(k, x, x.outcome["relay"])
                => \A r \in x.start : r \in Ahead(k, x) =>
                     \/ r \in page.items
                     \/ page.next # None /\ Y(k)!Above(page.next, r)
<1> DEFINE page == Y(k)!Merge(x.outcome, x.query)
           pages == {x.outcome[s] : s \in WalkSources} \ {None}
           all == UNION {p.rows : p \in pages}
           more == Cardinality(all) > Walkers[k].Limit \/ \E p \in pages : p.raw >= Walkers[k].Limit + 1
           shown == Y(k)!Newest(all, Walkers[k].Limit)
           next1 == IF more /\ shown # {} THEN Y(k)!Last(shown) ELSE None
           partial1 == \/ \E s \in WalkSources : x.outcome[s] = None
                       \/ \E p \in pages : p.errors > 0
<1>1. \A p \in pages : p \in PageOf(k) /\ p.rows \subseteq Ahead(k, x)
  <2>1. x.outcome \in Outcomes(k)
    BY DEF WalkOf
  <2>2. \A s \in WalkSources : x.outcome[s] \in PageOf(k) \cup {None}
    BY <2>1 DEF Outcomes
  <2> QED BY <2>2 DEF WalkTiles
<1>2. all \in SUBSET Ahead(k, x) /\ Ahead(k, x) \subseteq Walkers[k].Rows
  BY <1>1 DEF Ahead
<1>3. Y(k)!Enforce(x.query, all) = all
  <2>1. x.query \in Walkers[k].Queries
    BY DEF WalkTiles
  <2> HIDE DEF all
  <2> QED BY <1>2, <2>1, EnforceKeeps
<1>4. page = [items |-> shown, next |-> next1, partial |-> partial1]
  BY <1>3 DEF Y!Merge, Y!Sources, WalkSources, Y!FetchLimit, Y!Cardinality, Cardinality
<1>5. page.items = shown /\ page.next = next1 /\ page.partial = partial1
  <2> HIDE DEF page, shown, next1, partial1
  <2> QED BY <1>4
<1>6. Walkers[k].Limit \in Nat \ {0} /\ None \notin Walkers[k].Rows /\ None \notin PageOf(k)
  BY WalkAssumption
<1>7. /\ shown \subseteq all
      /\ \A t \in shown : Cardinality(HigherIn(k, all, t)) < Walkers[k].Limit
      /\ \A t \in shown, r \in all : Y(k)!Above(r, t) => r \in shown
      /\ \A r \in all \ shown : Walkers[k].Limit <= Cardinality(HigherIn(k, shown, r))
  <2> HIDE DEF all
  <2> QED BY <1>2, <1>6, NewestGives
<1>8. shown \in SUBSET Walkers[k].Rows /\ all \in SUBSET Walkers[k].Rows
  BY <1>2, <1>7
<1>9. shown # {} => /\ Y(k)!Last(shown) \in shown
                    /\ \A t \in shown : t = Y(k)!Last(shown) \/ Y(k)!Above(t, Y(k)!Last(shown))
  <2> HIDE DEF shown
  <2> QED BY <1>8, LastIs
<1>10. next1 # None => /\ next1 \in shown /\ more /\ \A t \in shown : t = next1 \/ Y(k)!Above(t, next1)
  <2> HIDE DEF shown, more
  <2> QED BY <1>9
<1>11. next1 = None => ~more \/ shown = {}
  <2>1. shown # {} => Y(k)!Last(shown) # None
    <3> HIDE DEF shown
    <3> QED BY <1>6, <1>8, <1>9
  <2> HIDE DEF shown, more
  <2> QED BY <2>1
<1>12. \A r \in all \ shown : shown # {}
  <2> SUFFICES ASSUME NEW r \in all \ shown, shown = {} PROVE FALSE
    OBVIOUS
  <2>1. Walkers[k].Limit <= Cardinality(HigherIn(k, shown, r)) /\ HigherIn(k, shown, r) = {}
    BY <1>7 DEF HigherIn
  <2>2. Cardinality({}) = 0
    BY FS_EmptySet
  <2> HIDE DEF shown
  <2> QED BY <1>6, <2>1, <2>2
<1>13. ASSUME partial1 = FALSE, x.outcome["relay"] # None => PageWhole(k, x, x.outcome["relay"]),
              NEW r \in x.start, r \in Ahead(k, x), r \notin shown
       PROVE  next1 # None /\ Y(k)!Above(next1, r)
  <2> DEFINE p == x.outcome["relay"]
  <2>1. p # None /\ p \in pages
    BY <1>13 DEF WalkSources
  <2>2. /\ p.rows \subseteq all /\ p \in PageOf(k) /\ p.raw = Cardinality(p.rows)
        /\ r \in p.rows \/ Walkers[k].Limit < Cardinality(HigherIn(k, p.rows, r))
    <3>1. PageWhole(k, x, p) /\ Y(k)!After(r, x.cursor)
      BY <1>13, <2>1 DEF Ahead
    <3> QED BY <1>1, <2>1, <3>1 DEF PageWhole
  <2>3. r \in Walkers[k].Rows
    BY <1>2, <1>13
  <2> HIDE DEF p, pages, all, shown, partial1
  <2>4. CASE r \in p.rows
    <3>1. r \in all \ shown
      BY <1>13, <2>2, <2>4
    <3>2. shown # {}
      BY <1>12, <3>1
    <3>3. more
      <4>1. Walkers[k].Limit <= Cardinality(HigherIn(k, shown, r))
        BY <1>7, <3>1
      <4>2. HigherIn(k, shown, r) \in SUBSET all /\ r \notin HigherIn(k, shown, r)
        BY <1>7, <2>3, AboveOrders DEF HigherIn
      <4>3. /\ Cardinality(HigherIn(k, shown, r)) < Cardinality(all)
            /\ Cardinality(HigherIn(k, shown, r)) \in Nat /\ Cardinality(all) \in Nat
        <5> HIDE DEF HigherIn
        <5> QED BY <1>8, <3>1, <4>2, Fewer
      <4>4. Cardinality(all) > Walkers[k].Limit
        BY <1>6, <4>1, <4>3
      <4> QED BY <4>4
    <3>4. next1 # None
      BY <1>11, <3>2, <3>3
    <3>5. next1 \in shown /\ ~Y(k)!Above(r, next1)
      BY <1>7, <1>10, <3>1, <3>4
    <3> QED BY <1>8, <1>13, <2>3, <3>4, <3>5, AboveOrders
  <2>5. CASE r \notin p.rows
    <3> DEFINE T1 == HigherIn(k, p.rows, r)
    <3>1. T1 \in SUBSET all /\ T1 \in SUBSET p.rows /\ p.rows \in SUBSET Walkers[k].Rows
      BY <1>8, <2>2 DEF HigherIn
    <3>2. /\ Walkers[k].Limit < Cardinality(T1) /\ Cardinality(T1) \in Nat
          /\ Cardinality(p.rows) \in Nat /\ Cardinality(T1) <= Cardinality(p.rows)
      <4> HIDE DEF T1
      <4>1. /\ Cardinality(T1) \in Nat /\ Cardinality(p.rows) \in Nat /\ Cardinality(T1) <= Cardinality(p.rows)
        BY <3>1, Fewer
      <4>2. Walkers[k].Limit < Cardinality(T1)
        BY <2>2, <2>5 DEF T1
      <4> QED BY <4>1, <4>2
    <3>3. more
      <4>1. p.raw >= Walkers[k].Limit + 1
        BY <1>6, <2>2, <3>2
      <4> QED BY <2>1, <4>1
    <3>4. shown # {}
      <4>1. T1 # {}
        <5>1. Cardinality({}) = 0
          BY FS_EmptySet
        <5> HIDE DEF T1
        <5> QED BY <1>6, <3>2, <5>1
      <4>2. \E t \in all : TRUE
        BY <3>1, <4>1
      <4> QED BY <1>12, <4>2
    <3>5. next1 # None /\ next1 \in shown
      BY <1>10, <1>11, <3>3, <3>4
    <3>6. ASSUME Y(k)!Above(r, next1) PROVE FALSE
      <4>1. T1 \subseteq HigherIn(k, all, next1)
        <5> SUFFICES ASSUME NEW t \in T1 PROVE t \in all /\ Y(k)!Above(t, next1)
          BY DEF HigherIn
        <5>1. t \in all /\ t \in Walkers[k].Rows /\ Y(k)!Above(t, r) /\ next1 \in Walkers[k].Rows
          BY <1>8, <3>1, <3>5 DEF HigherIn
        <5> QED BY <2>3, <3>6, <5>1, AboveOrders
      <4>2. HigherIn(k, all, next1) \in SUBSET Walkers[k].Rows
        BY <1>8 DEF HigherIn
      <4> HIDE DEF T1, HigherIn
      <4>3. /\ Cardinality(T1) <= Cardinality(HigherIn(k, all, next1))
            /\ Cardinality(HigherIn(k, all, next1)) \in Nat
        BY <4>1, <4>2, Fewer
      <4>4. Cardinality(HigherIn(k, all, next1)) < Walkers[k].Limit
        BY <1>7, <3>5
      <4> QED BY <1>6, <3>2, <4>3, <4>4
    <3> QED BY <1>8, <1>13, <2>3, <3>5, <3>6, AboveOrders
  <2> QED BY <2>4, <2>5
<1>14. partial1 \in BOOLEAN
  OBVIOUS
<1>15. shown \subseteq Ahead(k, x) /\ next1 \in Walkers[k].Rows \cup {None}
  <2>1. next1 # None => next1 \in shown
    BY <1>10
  <2> HIDE DEF shown, next1, all
  <2> QED BY <1>2, <1>7, <1>8, <2>1
<1> HIDE DEF page, shown, next1, partial1, more, all, pages
<1> QED BY <1>5, <1>10, <1>13, <1>14, <1>15 DEF page
LEMMA WalkStart ==
  ASSUME NEW k \in DOMAIN Walkers, Y(k)!Init
  PROVE  WalkInv(k)
<1>1. /\ yNow = Walkers[k].MaxNow - 1 /\ yPosthog = {} /\ yRelay = Walkers[k].Landed
      /\ yWalk = [w \in Walkers[k].Walks |-> Y(k)!NewWalk] /\ yGlobal = 0
      /\ yPerPrincipal = [p \in Y(k)!Principals |-> 0] /\ yFaults = 0
  BY DEF Y!Init
<1>2. Y(k)!NewWalk \in WalkOf(k) /\ WalkTiles(k, Y(k)!NewWalk) /\ WalkCovers(k, Y(k)!NewWalk, yRelay)
  <2> DEFINE x == Y(k)!NewWalk
  <2>1. /\ x.pc = "idle" /\ x.outcome = <<>> /\ x.served = {} /\ x.start = {} /\ x.twice = FALSE
        /\ x.refused = FALSE /\ x.cursor = None
    BY DEF Y!NewWalk
  <2>2. <<>> \in Outcomes(k)
    <3>1. <<>> \in [{} -> PageOf(k) \cup {None}]
      OBVIOUS
    <3>2. {} \in SUBSET WalkSources
      OBVIOUS
    <3> QED BY <3>1, <3>2 DEF Outcomes
  <2>3. x \in WalkOf(k)
    BY <2>2 DEF Y!NewWalk, WalkOf
  <2>4. DOMAIN x.outcome = {}
    BY <2>1
  <2> HIDE DEF x
  <2>5. WalkTiles(k, x)
    BY <2>1, <2>4 DEF WalkTiles
  <2>6. WalkCovers(k, x, yRelay)
    BY <2>1, <2>4 DEF WalkCovers
  <2> QED BY <2>3, <2>5, <2>6 DEF x
<1>3. WalkShape(k)
  BY <1>1, <1>2, WalkAssumption DEF WalkShape
<1>4. WalkPermits(k)
  <2>1. Cardinality({}) = 0
    BY FS_EmptySet
  <2>2. \A w \in Walkers[k].Walks : yWalk[w].pc # "fetch"
    BY <1>1 DEF Y!NewWalk
  <2>3. Running(k) = {} /\ \A p \in Y(k)!Principals : Y(k)!Fetching(p) = {}
    BY <2>2 DEF Running, Y!Fetching
  <2> QED BY <1>1, <2>1, <2>3 DEF WalkPermits
<1> QED BY <1>1, <1>2, <1>3, <1>4 DEF WalkInv

\* Events come; what a walk has or has not read does not change.
LEMMA EventStep ==
  ASSUME NEW k \in DOMAIN Walkers, WalkInv(k),
         Y(k)!Tick \/ \E r \in Walkers[k].Rows : Y(k)!Land(r) \/ Y(k)!Deliver(r)
  PROVE  WalkInv(k)'
<1>1. /\ UNCHANGED <<yWalk, yGlobal, yPerPrincipal, yFaults>>
      /\ yNow' \in {yNow, yNow + 1} /\ (yNow' # yNow => yNow < Walkers[k].MaxNow)
      /\ yRelay \subseteq yRelay' /\ yRelay' \subseteq Walkers[k].Rows /\ yPosthog' \subseteq yRelay'
  BY DEF Y!Tick, Y!Land, Y!Deliver, WalkInv, WalkShape
<1>2. yNow' \in {Walkers[k].MaxNow - 1, Walkers[k].MaxNow}
  BY <1>1, WalkAssumption DEF WalkInv, WalkShape
<1>3. WalkShape(k)'
  BY <1>1, <1>2 DEF WalkInv, WalkShape
<1>4. WalkPermits(k)'
  BY <1>1 DEF WalkInv, WalkPermits, Running, Y!Fetching
<1>5. \A w \in Walkers[k].Walks :
        WalkTiles(k, yWalk[w]) /\ (Wholly(k) => WalkCovers(k, yWalk[w], yRelay'))
  BY <1>1 DEF WalkInv, WalkCovers
<1> QED BY <1>1, <1>3, <1>4, <1>5 DEF WalkInv

\* One walk moves and the others stay.
LEMMA OneWalkMoves ==
  ASSUME NEW k \in DOMAIN Walkers, WalkInv(k), NEW w \in Walkers[k].Walks,
         UNCHANGED <<yNow, yPosthog, yRelay>>, yFaults' \in 0..Walkers[k].MaxFaults,
         yWalk' \in [Walkers[k].Walks -> WalkOf(k)],
         \A v \in Walkers[k].Walks : v # w => yWalk'[v] = yWalk[v],
         WalkTiles(k, yWalk'[w]), Wholly(k) => WalkCovers(k, yWalk'[w], yRelay),
         WalkPermits(k)'
  PROVE  WalkInv(k)'
<1>1. WalkShape(k)'
  BY DEF WalkInv, WalkShape
<1>2. ASSUME NEW v \in Walkers[k].Walks
      PROVE  WalkTiles(k, yWalk'[v]) /\ (Wholly(k) => WalkCovers(k, yWalk'[v], yRelay))
  BY DEF WalkInv
<1> QED BY <1>1, <1>2 DEF WalkInv

\* The permits are those of the requests that run: none is taken or given back,
LEMMA PermitsStay ==
  ASSUME NEW k \in DOMAIN Walkers, WalkInv(k),
         \A v \in Walkers[k].Walks : yWalk'[v].pc = "fetch" <=> yWalk[v].pc = "fetch",
         UNCHANGED <<yGlobal, yPerPrincipal>>
  PROVE  WalkPermits(k)'
<1>1. Running(k)' = Running(k) /\ \A p \in Y(k)!Principals : Y(k)!Fetching(p)' = Y(k)!Fetching(p)
  BY DEF Running, Y!Fetching
<1> QED BY <1>1 DEF WalkInv, WalkPermits

LEMMA RunningIs ==
  ASSUME NEW k \in DOMAIN Walkers
  PROVE  /\ IsFiniteSet(Running(k)) /\ Cardinality(Running(k)) \in Nat
         /\ \A p \in Y(k)!Principals :
              IsFiniteSet(Y(k)!Fetching(p)) /\ Cardinality(Y(k)!Fetching(p)) \in Nat
<1>1. IsFiniteSet(Walkers[k].Walks)
  BY WalkAssumption
<1>2. Running(k) \in SUBSET Walkers[k].Walks
  BY DEF Running
<1>3. \A p \in Y(k)!Principals : Y(k)!Fetching(p) \in SUBSET Walkers[k].Walks
  BY DEF Y!Fetching
<1> QED BY <1>1, <1>2, <1>3, FS_Subset, FS_CardinalityType

\* one is taken by a request that begins,
LEMMA PermitTaken ==
  ASSUME NEW k \in DOMAIN Walkers, WalkInv(k), NEW w \in Walkers[k].Walks,
         \A v \in Walkers[k].Walks : v # w => yWalk'[v] = yWalk[v],
         yWalk[w].pc # "fetch", yWalk'[w].pc = "fetch", Y(k)!Acquire(Walkers[k].Viewer[w])
  PROVE  WalkPermits(k)'
<1> DEFINE p == Walkers[k].Viewer[w]
<1>1. p \in Y(k)!Principals
  BY DEF Y!Principals
<1>2. /\ Running(k)' = Running(k) \cup {w} /\ w \notin Running(k)
      /\ Y(k)!Fetching(p)' = Y(k)!Fetching(p) \cup {w} /\ w \notin Y(k)!Fetching(p)
      /\ \A q \in Y(k)!Principals : q # p => Y(k)!Fetching(q)' = Y(k)!Fetching(q)
  BY DEF Running, Y!Fetching
<1>3. /\ yGlobal' = yGlobal + 1 /\ yPerPrincipal' = [yPerPrincipal EXCEPT ![p] = @ + 1]
  BY DEF Y!Acquire
<1>4. /\ Cardinality(Running(k) \cup {w}) = Cardinality(Running(k)) + 1
      /\ Cardinality(Y(k)!Fetching(p) \cup {w}) = Cardinality(Y(k)!Fetching(p)) + 1
  BY <1>1, <1>2, RunningIs, FS_AddElement
<1> HIDE DEF p
<1> QED BY <1>1, <1>2, <1>3, <1>4 DEF WalkInv, WalkPermits

\* and goes back when it ends.
LEMMA PermitReleased ==
  ASSUME NEW k \in DOMAIN Walkers, WalkInv(k), NEW w \in Walkers[k].Walks,
         \A v \in Walkers[k].Walks : v # w => yWalk'[v] = yWalk[v],
         yWalk[w].pc = "fetch", yWalk'[w].pc # "fetch", Y(k)!Release(Walkers[k].Viewer[w])
  PROVE  WalkPermits(k)'
<1> DEFINE p == Walkers[k].Viewer[w]
<1>1. p \in Y(k)!Principals
  BY DEF Y!Principals
<1>2. /\ Running(k)' = Running(k) \ {w} /\ w \in Running(k)
      /\ Y(k)!Fetching(p)' = Y(k)!Fetching(p) \ {w} /\ w \in Y(k)!Fetching(p)
      /\ \A q \in Y(k)!Principals : q # p => Y(k)!Fetching(q)' = Y(k)!Fetching(q)
  BY DEF Running, Y!Fetching
<1>3. /\ yGlobal' = (IF yGlobal = 0 THEN 0 ELSE yGlobal - 1)
      /\ yPerPrincipal' = [yPerPrincipal EXCEPT ![p] = IF @ > 1 THEN @ - 1 ELSE 0]
  BY DEF Y!Release
<1>4. /\ Cardinality(Running(k) \ {w}) = Cardinality(Running(k)) - 1
      /\ Cardinality(Y(k)!Fetching(p) \ {w}) = Cardinality(Y(k)!Fetching(p)) - 1
      /\ IsFiniteSet(Running(k) \ {w}) /\ IsFiniteSet(Y(k)!Fetching(p) \ {w})
  BY <1>1, <1>2, RunningIs, FS_RemoveElement
<1>5. /\ Cardinality(Running(k)) \in Nat \ {0} /\ Cardinality(Y(k)!Fetching(p)) \in Nat \ {0}
  BY <1>1, <1>4, RunningIs, FS_CardinalityType
<1>6. /\ yGlobal = Cardinality(Running(k)) /\ yPerPrincipal[p] = Cardinality(Y(k)!Fetching(p))
      /\ yPerPrincipal \in [Y(k)!Principals -> Nat]
      /\ \A q \in Y(k)!Principals : yPerPrincipal[q] = Cardinality(Y(k)!Fetching(q))
  BY <1>1 DEF WalkInv, WalkPermits
<1>7. yGlobal' = Cardinality(Running(k)) - 1
  BY <1>3, <1>5, <1>6
<1> HIDE DEF p
<1>8. /\ yPerPrincipal'[p] = Cardinality(Y(k)!Fetching(p)) - 1 /\ yPerPrincipal'[p] \in Nat
      /\ \A q \in Y(k)!Principals : q # p => yPerPrincipal'[q] = yPerPrincipal[q]
      /\ yPerPrincipal' \in [Y(k)!Principals -> Nat]
  BY <1>1, <1>3, <1>5, <1>6
<1> QED BY <1>1, <1>2, <1>4, <1>6, <1>7, <1>8 DEF WalkPermits

LEMMA AheadSame ==
  ASSUME NEW k \in DOMAIN Walkers, NEW x, NEW y, y.query = x.query, y.range = x.range
  PROVE  /\ \A r : InWindow(k, y, r) <=> InWindow(k, x, r)
         /\ y.cursor = x.cursor => Ahead(k, y) = Ahead(k, x)
BY DEF InWindow, Ahead

LEMMA NoOutcome == \A k \in DOMAIN Walkers : <<>> \in Outcomes(k) /\ DOMAIN <<>> = {}
<1> SUFFICES ASSUME NEW k \in DOMAIN Walkers PROVE <<>> \in Outcomes(k) /\ DOMAIN <<>> = {}
  OBVIOUS
<1>1. <<>> \in [{} -> PageOf(k) \cup {None}] /\ {} \in SUBSET WalkSources
  OBVIOUS
<1> QED BY <1>1 DEF Outcomes

\* A request begins with its window, or goes on with the cursor's; a cursor is refused
\* to another query only.
LEMMA AskStep ==
  ASSUME NEW k \in DOMAIN Walkers, WalkInv(k), NEW w \in Walkers[k].Walks,
         NEW q \in Walkers[k].Queries, Y(k)!Ask(w, q)
  PROVE  WalkInv(k)'
<1> DEFINE x == yWalk[w]
           y == yWalk'[w]
<1>1. /\ x \in WalkOf(k) /\ WalkTiles(k, x) /\ (Wholly(k) => WalkCovers(k, x, yRelay))
      /\ yRelay \subseteq Walkers[k].Rows /\ yWalk \in [Walkers[k].Walks -> WalkOf(k)]
      /\ yFaults \in 0..Walkers[k].MaxFaults
  BY WalkNow DEF WalkInv, WalkShape
<1>2. x.pc = "idle" /\ UNCHANGED <<yNow, yPosthog, yRelay, yFaults>>
  BY DEF Y!Ask
<1>3. CASE /\ ~Y(k)!Accepted(w, q)
           /\ yWalk' = [yWalk EXCEPT ![w].refused = @ \/ q = yWalk[w].query]
           /\ UNCHANGED <<yGlobal, yPerPrincipal>>
  <2>1. q # x.query
    BY <1>3 DEF Y!Accepted, Y!ResumedRange
  <2>2. x.refused = FALSE
    BY <1>1 DEF WalkTiles
  <2>3. (x.refused \/ q = x.query) = FALSE
    BY <2>1, <2>2
  <2>4. yWalk' = [yWalk EXCEPT ![w].refused = FALSE]
    BY <1>3, <2>3
  <2>5. y = [x EXCEPT !.refused = FALSE] /\ \A v \in Walkers[k].Walks : v # w => yWalk'[v] = yWalk[v]
    BY <1>1, <2>4
  <2>6. [x EXCEPT !.refused = FALSE] = x
    BY <1>1, <2>2 DEF WalkOf
  <2>7. yWalk' = yWalk
    BY <1>1, <2>4, <2>5, <2>6
  <2>8. yWalk' \in [Walkers[k].Walks -> WalkOf(k)] /\ yWalk'[w] = yWalk[w]
        /\ yFaults' \in 0..Walkers[k].MaxFaults
    BY <1>1, <1>2, <2>7
  <2>9. WalkPermits(k)'
    BY <1>3, <2>7, PermitsStay
  <2>10. WalkTiles(k, yWalk'[w]) /\ (Wholly(k) => WalkCovers(k, yWalk'[w], yRelay))
    BY <1>1, <2>8
  <2> HIDE DEF x, y
  <2> QED BY <1>2, <2>5, <2>8, <2>9, <2>10, OneWalkMoves
<1>4. CASE /\ Y(k)!Accepted(w, q) /\ Y(k)!Acquire(Walkers[k].Viewer[w])
           /\ yWalk' = [yWalk EXCEPT ![w].pc = "fetch", ![w].query = q,
                                     ![w].range = Y(k)!ResumedRange(w, q),
                                     ![w].start = IF yWalk[w].cursor = None
                                                  THEN Y(k)!Present(w, q, Y(k)!ResumedRange(w, q)) ELSE @]
  <2> DEFINE g == Y(k)!ResumedRange(w, q)
             b == IF x.cursor = None THEN Y(k)!Present(w, q, g) ELSE x.start
  <2>1. g \in WalkRange \cup {None}
    <3>1. Y(k)!ResolveRange(q) \in WalkRange \cup {None}
      <4>1. yNow \in Int /\ yNow - Walkers[k].Span \in Int
        BY WalkAssumption DEF WalkInv, WalkShape
      <4> QED BY <4>1, WalkAssumption DEF Y!ResolveRange, WalkRange
    <3>2. x.range \in WalkRange \cup {None}
      BY <1>1 DEF WalkOf
    <3> QED BY <3>1, <3>2 DEF Y!ResumedRange
  <2>2. b \in SUBSET Walkers[k].Rows
    BY <1>1 DEF Y!Present, WalkOf
  <2> HIDE DEF g, b
  <2>3. yWalk' = [yWalk EXCEPT ![w].pc = "fetch", ![w].query = q, ![w].range = g, ![w].start = b]
    BY <1>4 DEF g, b
  <2>4. /\ y = [x EXCEPT !.pc = "fetch", !.query = q, !.range = g, !.start = b]
        /\ \A v \in Walkers[k].Walks : v # w => yWalk'[v] = yWalk[v]
    BY <1>1, <2>3
  <2>5. /\ y.pc = "fetch" /\ y.query = q /\ y.range = g /\ y.start = b /\ y.cursor = x.cursor
        /\ y.outcome = x.outcome /\ y.served = x.served /\ y.twice = x.twice
        /\ y.refused = x.refused /\ y.partial = x.partial /\ y \in WalkOf(k)
    BY <1>1, <2>1, <2>2, <2>4 DEF WalkOf
  <2>6. yWalk' \in [Walkers[k].Walks -> WalkOf(k)]
    BY <1>1, <2>3, <2>4, <2>5
  <2> HIDE DEF x, y
  <2>7. WalkTiles(k, y)
    BY <1>1, <1>2, <2>5 DEF WalkTiles
  <2>8. ASSUME Wholly(k) PROVE WalkCovers(k, y, yRelay)
    <3>1. y.start \subseteq yRelay /\ \A r \in y.start : InWindow(k, y, r)
      <4>1. CASE x.cursor = None
        <5>1. b = Y(k)!Present(w, q, g)
          BY <4>1 DEF b
        <5> QED BY <2>5, <5>1 DEF Y!Present, InWindow
      <4>2. CASE x.cursor # None
        <5>1. b = x.start /\ x.query = q /\ g = x.range
          BY <1>4, <4>2 DEF b, g, Y!Accepted, Y!ResumedRange, x
        <5> QED BY <1>1, <2>5, <2>8, <5>1, AheadSame DEF WalkCovers
      <4> QED BY <4>1, <4>2
    <3>2. \A r \in y.start : y.partial = FALSE => r \in y.served \/ Y(k)!After(r, y.cursor)
      <4>1. CASE x.cursor = None
        BY <2>5, <4>1 DEF Y!After
      <4>2. CASE x.cursor # None
        BY <1>1, <1>2, <2>5, <2>8, <4>2 DEF WalkCovers, b
      <4> QED BY <4>1, <4>2
    <3>3. "relay" \notin DOMAIN y.outcome
      BY <1>1, <1>2, <2>5 DEF WalkTiles
    <3> QED BY <2>5, <3>1, <3>2, <3>3 DEF WalkCovers
  <2>9. WalkPermits(k)'
    BY <1>2, <1>4, <2>4, <2>5, PermitTaken DEF x, y
  <2> QED BY <1>1, <1>2, <2>4, <2>6, <2>7, <2>8, <2>9, OneWalkMoves DEF y
<1> QED BY <1>3, <1>4 DEF Y!Ask

\* A source answers or fails.
LEMMA FetchStep ==
  ASSUME NEW k \in DOMAIN Walkers, WalkInv(k), NEW w \in Walkers[k].Walks,
         NEW s \in WalkSources, NEW ok \in BOOLEAN, Y(k)!Fetch(w, s, ok)
  PROVE  WalkInv(k)'
<1> DEFINE x == yWalk[w]
           y == yWalk'[w]
           p == IF ~ok THEN None ELSE IF s = "posthog" THEN Y(k)!FetchPosthog(w) ELSE Y(k)!FetchRelay(w)
           o == [t \in DOMAIN x.outcome \cup {s} |-> IF t # s THEN x.outcome[t] ELSE p]
<1>1. /\ x \in WalkOf(k) /\ WalkTiles(k, x) /\ (Wholly(k) => WalkCovers(k, x, yRelay))
      /\ yWalk \in [Walkers[k].Walks -> WalkOf(k)] /\ yFaults \in 0..Walkers[k].MaxFaults
  BY WalkNow DEF WalkInv, WalkShape
<1>2. /\ x.pc = "fetch" /\ s \notin DOMAIN x.outcome /\ UNCHANGED <<yNow, yPosthog, yRelay, yGlobal, yPerPrincipal>>
      /\ ok \/ yFaults < Walkers[k].MaxFaults
      /\ yFaults' = IF ok THEN yFaults ELSE yFaults + 1
  BY DEF Y!Fetch
<1>3. yFaults' \in 0..Walkers[k].MaxFaults
  BY <1>1, <1>2, WalkAssumption
<1>4. yWalk' = [yWalk EXCEPT ![w].outcome = o]
  BY DEF Y!Fetch
<1>5. /\ p \in PageOf(k) \cup {None} /\ (p # None => p.rows \subseteq Ahead(k, x))
      /\ Wholly(k) /\ s = "relay" /\ p # None => PageWhole(k, x, p)
  BY FetchGives
<1> HIDE DEF p
<1>6. x.outcome \in Outcomes(k)
  BY <1>1 DEF WalkOf
<1>7. o \in Outcomes(k)
  <2>1. PICK D \in SUBSET WalkSources : x.outcome \in [D -> PageOf(k) \cup {None}]
    BY <1>6 DEF Outcomes
  <2>2. o \in [D \cup {s} -> PageOf(k) \cup {None}]
    BY <1>5, <2>1
  <2>3. D \cup {s} \in SUBSET WalkSources
    OBVIOUS
  <2> QED BY <2>2, <2>3 DEF Outcomes
<1>8. /\ DOMAIN o = DOMAIN x.outcome \cup {s} /\ o[s] = p
      /\ \A t \in DOMAIN x.outcome : o[t] = x.outcome[t]
  BY <1>2
<1> HIDE DEF o
<1>9. y = [x EXCEPT !.outcome = o] /\ \A v \in Walkers[k].Walks : v # w => yWalk'[v] = yWalk[v]
  BY <1>1, <1>4
<1>10. /\ y.pc = "fetch" /\ y.query = x.query /\ y.range = x.range /\ y.start = x.start /\ y.cursor = x.cursor
       /\ y.outcome = o /\ y.served = x.served /\ y.twice = x.twice
       /\ y.refused = x.refused /\ y.partial = x.partial /\ y \in WalkOf(k)
  BY <1>1, <1>2, <1>7, <1>9 DEF WalkOf
<1>11. yWalk' \in [Walkers[k].Walks -> WalkOf(k)]
  BY <1>1, <1>4, <1>9, <1>10
<1> HIDE DEF x, y
<1>12. Ahead(k, y) = Ahead(k, x) /\ \A r : InWindow(k, y, r) <=> InWindow(k, x, r)
  BY <1>10, AheadSame
<1>13. WalkTiles(k, y)
  BY <1>1, <1>2, <1>5, <1>8, <1>10, <1>12 DEF WalkTiles
<1>14. ASSUME Wholly(k) PROVE WalkCovers(k, y, yRelay)
  <2>1. WalkCovers(k, x, yRelay)
    BY <1>1, <1>14
  <2>2. \A z : PageWhole(k, y, z) <=> PageWhole(k, x, z)
    BY <1>10 DEF PageWhole
  <2>3. "relay" \in DOMAIN y.outcome /\ y.outcome["relay"] # None => PageWhole(k, y, y.outcome["relay"])
    <3>1. CASE s = "relay"
      BY <1>5, <1>8, <1>10, <1>14, <2>2, <3>1
    <3>2. CASE s # "relay"
      BY <1>8, <1>10, <2>1, <2>2, <3>2 DEF WalkCovers
    <3> QED BY <3>1, <3>2
  <2> QED BY <1>2, <1>10, <1>12, <2>1, <2>3 DEF WalkCovers
<1>15. WalkPermits(k)'
  <2>1. \A v \in Walkers[k].Walks : yWalk'[v].pc = "fetch" <=> yWalk[v].pc = "fetch"
    BY <1>2, <1>9, <1>10 DEF x, y
  <2> QED BY <1>2, <2>1, PermitsStay
<1> QED BY <1>2, <1>3, <1>9, <1>11, <1>13, <1>14, <1>15, OneWalkMoves DEF y

\* A request that is given up leaves the walk where it was.
LEMMA GivenUpStep ==
  ASSUME NEW k \in DOMAIN Walkers, WalkInv(k), NEW w \in Walkers[k].Walks,
         yWalk[w].pc = "fetch", Y(k)!Release(Walkers[k].Viewer[w]),
         yWalk' = [yWalk EXCEPT ![w].pc = "idle", ![w].outcome = <<>>],
         UNCHANGED <<yNow, yPosthog, yRelay>>, yFaults' \in 0..Walkers[k].MaxFaults
  PROVE  WalkInv(k)'
<1> DEFINE x == yWalk[w]
           y == yWalk'[w]
<1>1. /\ x \in WalkOf(k) /\ WalkTiles(k, x) /\ (Wholly(k) => WalkCovers(k, x, yRelay))
      /\ yWalk \in [Walkers[k].Walks -> WalkOf(k)]
  BY WalkNow DEF WalkInv, WalkShape
<1>2. y = [x EXCEPT !.pc = "idle", !.outcome = <<>>] /\ \A v \in Walkers[k].Walks : v # w => yWalk'[v] = yWalk[v]
  BY <1>1
<1>3. /\ y.pc = "idle" /\ y.query = x.query /\ y.range = x.range /\ y.start = x.start /\ y.cursor = x.cursor
      /\ y.outcome = <<>> /\ y.served = x.served /\ y.twice = x.twice
      /\ y.refused = x.refused /\ y.partial = x.partial /\ y \in WalkOf(k)
  BY <1>1, <1>2, NoOutcome DEF WalkOf
<1>4. yWalk' \in [Walkers[k].Walks -> WalkOf(k)]
  BY <1>1, <1>2, <1>3
<1>5. x.pc = "fetch"
  OBVIOUS
<1>6. DOMAIN y.outcome = {}
  BY <1>3, NoOutcome
<1> HIDE DEF x, y
<1>7. WalkTiles(k, y)
  BY <1>1, <1>3, <1>5, <1>6 DEF WalkTiles
<1>8. ASSUME Wholly(k) PROVE WalkCovers(k, y, yRelay)
  <2>1. WalkCovers(k, x, yRelay) /\ \A r : InWindow(k, y, r) <=> InWindow(k, x, r)
    BY <1>1, <1>3, <1>8, AheadSame
  <2> QED BY <1>3, <1>5, <1>6, <2>1 DEF WalkCovers
<1>9. WalkPermits(k)'
  BY <1>2, <1>3, PermitReleased DEF y
<1> QED BY <1>2, <1>4, <1>7, <1>8, <1>9, OneWalkMoves DEF y

\* A page is answered.
LEMMA AnsweredStep ==
  ASSUME NEW k \in DOMAIN Walkers, WalkInv(k), NEW w \in Walkers[k].Walks, Y(k)!Answer(w),
         ~\A s \in WalkSources : yWalk[w].outcome[s] = None
  PROVE  WalkInv(k)'
<1> DEFINE x == yWalk[w]
           y == yWalk'[w]
           page == Y(k)!Merge(x.outcome, x.query)
           c == IF page.next = None THEN "ended" ELSE "idle"
           tw == x.twice \/ page.items \intersect x.served # {}
           sv == x.served \union page.items
           pt == x.partial \/ page.partial
<1>1. /\ x \in WalkOf(k) /\ WalkTiles(k, x) /\ (Wholly(k) => WalkCovers(k, x, yRelay))
      /\ yWalk \in [Walkers[k].Walks -> WalkOf(k)] /\ yFaults \in 0..Walkers[k].MaxFaults
  BY WalkNow DEF WalkInv, WalkShape
<1>2. /\ x.pc = "fetch" /\ DOMAIN x.outcome = WalkSources /\ UNCHANGED <<yNow, yPosthog, yRelay, yFaults>>
      /\ Y(k)!Release(Walkers[k].Viewer[w])
  BY DEF Y!Answer, Y!Sources, WalkSources
<1>3. yWalk' = [yWalk EXCEPT ![w].pc = c, ![w].outcome = <<>>, ![w].cursor = page.next,
                             ![w].twice = tw, ![w].served = sv, ![w].partial = pt]
  BY DEF Y!Answer, Y!Sources, WalkSources
<1>4. /\ page.items \subseteq Ahead(k, x) /\ page.partial \in BOOLEAN
      /\ page.next \in Walkers[k].Rows \cup {None}
      /\ page.next # None =>
           /\ page.next \in page.items
           /\ \A t \in page.items : t = page.next \/ Y(k)!Above(t, page.next)
      /\ /\ page.partial = FALSE
         /\ x.outcome["relay"] # None => PageWhole(k, x, x.outcome["relay"])
         => \A r \in x.start : r \in Ahead(k, x) =>
              r \in page.items \/ (page.next # None /\ Y(k)!Above(page.next, r))
  BY <1>1, <1>2, MergeGives
<1>5. Ahead(k, x) \subseteq Walkers[k].Rows /\ x.served \subseteq Walkers[k].Rows
  BY <1>1 DEF Ahead, WalkOf
<1>6. tw = FALSE
  <2>1. x.twice = FALSE
    BY <1>1 DEF WalkTiles
  <2>2. ASSUME NEW r \in page.items, r \in x.served PROVE FALSE
    <3>1. Y(k)!After(r, x.cursor)
      BY <1>4, <2>2 DEF Ahead
    <3> QED BY <1>1, <1>2, <2>2, <3>1 DEF WalkTiles, Y!After
  <2> HIDE DEF page
  <2> QED BY <2>1, <2>2
<1>7. c \in {"ended", "idle"} /\ sv \in SUBSET Walkers[k].Rows /\ pt \in BOOLEAN
  <2>1. x.partial \in BOOLEAN
    BY <1>1 DEF WalkOf
  <2> HIDE DEF page
  <2> QED BY <1>4, <1>5, <2>1
<1> HIDE DEF page
<1>8. (c = "ended" <=> page.next = None) /\ (pt = FALSE => x.partial = FALSE /\ page.partial = FALSE)
  <2>1. x.partial \in BOOLEAN
    BY <1>1 DEF WalkOf
  <2> QED BY <1>4, <2>1
<1>9. \A r : r \in sv <=> r \in x.served \/ r \in page.items
  OBVIOUS
<1> HIDE DEF c, tw, sv, pt
<1>10. /\ y = [x EXCEPT !.pc = c, !.outcome = <<>>, !.cursor = page.next, !.twice = tw,
                        !.served = sv, !.partial = pt]
       /\ \A v \in Walkers[k].Walks : v # w => yWalk'[v] = yWalk[v]
  BY <1>1, <1>3
<1>11. /\ y.pc = c /\ y.query = x.query /\ y.range = x.range /\ y.start = x.start /\ y.cursor = page.next
       /\ y.outcome = <<>> /\ y.served = sv /\ y.twice = FALSE
       /\ y.refused = x.refused /\ y.partial = pt /\ y \in WalkOf(k)
  <2>1. /\ c \in {"idle", "fetch", "ended"} /\ tw \in BOOLEAN /\ <<>> \in Outcomes(k)
        /\ page.next \in Walkers[k].Rows \cup {None}
    BY <1>4, <1>6, <1>7, NoOutcome
  <2> HIDE DEF x, y
  <2>2. /\ y.pc = c /\ y.query = x.query /\ y.range = x.range /\ y.start = x.start /\ y.cursor = page.next
        /\ y.outcome = <<>> /\ y.served = sv /\ y.twice = tw
        /\ y.refused = x.refused /\ y.partial = pt
    BY <1>1, <1>10 DEF WalkOf
  <2>3. y \in WalkOf(k)
    BY <1>1, <1>7, <1>10, <2>1 DEF WalkOf
  <2> QED BY <1>6, <2>2, <2>3
<1>12. yWalk' \in [Walkers[k].Walks -> WalkOf(k)]
  <2>1. yWalk' = [v \in Walkers[k].Walks |-> yWalk'[v]]
    BY <1>1, <1>3
  <2>2. \A v \in Walkers[k].Walks : yWalk'[v] \in WalkOf(k)
    BY <1>1, <1>10, <1>11
  <2> QED BY <2>1, <2>2
<1>13. DOMAIN y.outcome = {}
  BY <1>11, NoOutcome
<1> HIDE DEF x, y
<1>14. WalkTiles(k, y)
  <2>1. ASSUME page.next # None, NEW r \in sv PROVE ~Y(k)!Above(page.next, r)
    <3>1. page.next \in page.items /\ page.next \in Walkers[k].Rows /\ r \in Walkers[k].Rows
      BY <1>4, <1>5, <1>9, <2>1
    <3>2. CASE r \in page.items
      BY <1>4, <2>1, <3>1, <3>2, AboveOrders
    <3>3. CASE r \in x.served
      <4>1. x.cursor # None /\ ~Y(k)!Above(x.cursor, r)
        BY <1>1, <1>2, <3>3 DEF WalkTiles
      <4>2. Y(k)!Above(x.cursor, page.next) /\ x.cursor \in Walkers[k].Rows
        BY <1>1, <1>4, <3>1, <4>1 DEF Ahead, Y!After, WalkOf
      <4> QED BY <3>1, <4>1, <4>2, AboveOrders
    <3> QED BY <1>9, <2>1, <3>2, <3>3
  <2>2. x.refused = FALSE
    BY <1>1 DEF WalkTiles
  <2> QED BY <1>7, <1>8, <1>11, <1>13, <2>1, <2>2 DEF WalkTiles
<1>15. ASSUME Wholly(k) PROVE WalkCovers(k, y, yRelay)
  <2>1. WalkCovers(k, x, yRelay) /\ \A r : InWindow(k, y, r) <=> InWindow(k, x, r)
    BY <1>1, <1>11, <1>15, AheadSame
  <2>2. x.outcome["relay"] # None => PageWhole(k, x, x.outcome["relay"])
    BY <1>2, <2>1 DEF WalkCovers, WalkSources
  <2>3. ASSUME pt = FALSE, NEW r \in x.start
        PROVE  r \in sv \/ (c # "ended" /\ Y(k)!After(r, page.next))
    <3>1. r \in x.served \/ Y(k)!After(r, x.cursor)
      BY <1>8, <2>1, <2>3 DEF WalkCovers
    <3>2. CASE r \in x.served
      BY <1>9, <3>2
    <3>3. CASE Y(k)!After(r, x.cursor)
      <4>1. r \in Ahead(k, x)
        BY <1>1, <2>1, <3>3 DEF Ahead, WalkCovers, WalkOf
      <4>2. r \in page.items \/ (page.next # None /\ Y(k)!Above(page.next, r))
        BY <1>4, <1>8, <2>2, <2>3, <4>1
      <4> QED BY <1>8, <1>9, <4>2 DEF Y!After
    <3> QED BY <3>1, <3>2, <3>3
  <2> QED BY <1>11, <1>13, <2>1, <2>3 DEF WalkCovers
<1>16. WalkPermits(k)'
  <2>1. yWalk'[w].pc # "fetch" /\ yWalk[w].pc = "fetch"
    BY <1>2, <1>7, <1>11 DEF x, y
  <2> QED BY <1>2, <1>10, <2>1, PermitReleased
<1> QED BY <1>1, <1>2, <1>10, <1>12, <1>14, <1>15, <1>16, OneWalkMoves DEF y

LEMMA WalkStep ==
  ASSUME NEW k \in DOMAIN Walkers, WalkInv(k), [Y(k)!Next]_walkVars
  PROVE  WalkInv(k)'
<1>1. CASE Y(k)!Tick \/ \E r \in Walkers[k].Rows : Y(k)!Land(r) \/ Y(k)!Deliver(r)
  BY <1>1, EventStep
<1>2. ASSUME NEW w \in Walkers[k].Walks, NEW q \in Walkers[k].Queries, Y(k)!Ask(w, q)
      PROVE  WalkInv(k)'
  BY <1>2, AskStep
<1>3. ASSUME NEW w \in Walkers[k].Walks, NEW s \in WalkSources, NEW ok \in BOOLEAN, Y(k)!Fetch(w, s, ok)
      PROVE  WalkInv(k)'
  BY <1>3, FetchStep
<1>4. ASSUME NEW w \in Walkers[k].Walks, Y(k)!Answer(w)
      PROVE  WalkInv(k)'
  <2>1. CASE \A s \in WalkSources : yWalk[w].outcome[s] = None
    <3>1. /\ yWalk[w].pc = "fetch" /\ Y(k)!Release(Walkers[k].Viewer[w])
          /\ yWalk' = [yWalk EXCEPT ![w].pc = "idle", ![w].outcome = <<>>]
          /\ UNCHANGED <<yNow, yPosthog, yRelay, yFaults>>
      BY <1>4, <2>1 DEF Y!Answer, Y!Sources, WalkSources
    <3>2. yFaults' \in 0..Walkers[k].MaxFaults
      BY <3>1 DEF WalkInv, WalkShape
    <3> QED BY <3>1, <3>2, GivenUpStep
  <2>2. CASE ~\A s \in WalkSources : yWalk[w].outcome[s] = None
    BY <1>4, <2>2, AnsweredStep
  <2> QED BY <2>1, <2>2
<1>5. ASSUME NEW w \in Walkers[k].Walks, Y(k)!Cancel(w)
      PROVE  WalkInv(k)'
  <2>1. /\ yWalk[w].pc = "fetch" /\ Y(k)!Release(Walkers[k].Viewer[w])
        /\ yWalk' = [yWalk EXCEPT ![w].pc = "idle", ![w].outcome = <<>>]
        /\ UNCHANGED <<yNow, yPosthog, yRelay>>
        /\ yFaults < Walkers[k].MaxFaults /\ yFaults' = yFaults + 1
    BY <1>5 DEF Y!Cancel
  <2>2. yFaults' \in 0..Walkers[k].MaxFaults
    BY <2>1, WalkAssumption DEF WalkInv, WalkShape
  <2> QED BY <2>1, <2>2, GivenUpStep
<1>6. CASE UNCHANGED walkVars
  BY <1>6 DEF walkVars, WalkInv, WalkShape, WalkPermits, Running, Y!Fetching
<1> QED BY <1>1, <1>2, <1>3, <1>4, <1>5, <1>6 DEF Y!Next, Y!Sources, WalkSources

LEMMA WalkInvGives ==
  ASSUME NEW k \in DOMAIN Walkers, WalkInv(k)
  PROVE  Y(k)!TypeOK /\ Y(k)!NoOverlap /\ Y(k)!RefusedForAReason /\ (Wholly(k) => Y(k)!WalkIsComplete)
<1>1. Y(k)!TypeOK
  BY DEF WalkInv, WalkShape, WalkPermits, Running, Y!TypeOK, Y!Cardinality, Cardinality
<1>2. Y(k)!NoOverlap /\ Y(k)!RefusedForAReason
  BY DEF WalkInv, WalkTiles, Y!NoOverlap, Y!RefusedForAReason
<1>3. ASSUME Wholly(k) PROVE Y(k)!WalkIsComplete
  <2> SUFFICES ASSUME NEW w \in Walkers[k].Walks, yWalk[w].pc = "ended", ~yWalk[w].partial,
                      NEW r \in yWalk[w].start
               PROVE  r \in yWalk[w].served
    BY DEF Y!WalkIsComplete
  <2>1. yWalk[w].partial = FALSE
    BY WalkNow DEF WalkOf
  <2> QED BY <1>3, <2>1 DEF WalkInv, WalkCovers
<1> QED BY <1>1, <1>2, <1>3

LEMMA WalksInvariant == PartSpec => [](\A k \in DOMAIN Walkers : part = k => WalkInv(k))
<1> DEFINE I == \A k \in DOMAIN Walkers : part = k => WalkInv(k)
<1>1. PartInit => I
  BY WalkStart DEF PartInit
<1>2. I /\ [PartNext]_allVars => I'
  <2> SUFFICES ASSUME I, [PartNext]_allVars, NEW k \in DOMAIN Walkers, part' = k PROVE WalkInv(k)'
    OBVIOUS
  <2>1. part = k /\ [Y(k)!Next]_walkVars
    BY DEF PartNext, allVars
  <2> QED BY <2>1, WalkStep
<1> QED BY <1>1, <1>2, PTL DEF PartSpec

\* The pages of a walk tile: no event is given twice, and a walk whose pages were all
\* whole was given every event that was there when it began, although events land and move
\* between the sources, sources fail and clients come back. Permits are those of the
\* requests that run. For a relay that can read its rows and whose ceiling is above
\* the page (operations/merge.rs, routes/operations/activity.rs).
THEOREM WalksAreSafe ==
  ASSUME \A k \in DOMAIN Walkers : Wholly(k)
  PROVE  PartSpec => []WalksSafe
<1>1. (\A k \in DOMAIN Walkers : part = k => WalkInv(k)) => WalksSafe
  BY WalkInvGives DEF WalksSafe, Y!WalksSafe
<1> QED BY <1>1, WalksInvariant, PTL

\* What needs no premise: pages do not overlap, a cursor is refused to another query
\* only, and no permit is lost.
WalksNeverRepeat ==
  \A k \in DOMAIN Walkers : part = k => Y(k)!TypeOK /\ Y(k)!NoOverlap /\ Y(k)!RefusedForAReason

THEOREM PagesDoNotOverlap == PartSpec => []WalksNeverRepeat
<1>1. (\A k \in DOMAIN Walkers : part = k => WalkInv(k)) => WalksNeverRepeat
  BY WalkInvGives DEF WalksNeverRepeat
<1> QED BY <1>1, WalksInvariant, PTL

-----------------------------------------------------------------------------
(* The template pull requests                                               *)

Branches == [is : BOOLEAN, at : Nat, files : SUBSET (1..Files), foreign : BOOLEAN]
PullRequests == [open : BOOLEAN, own : BOOLEAN, conflicted : BOOLEAN]
PullPlaces ==
  {"idle", "lookup", "files", "merge", "cleanup", "mergeable", "deferred", "recreate",
   "supersede", "ref", "restart", "ref again", "put", "open"}

PullsShape ==
  /\ base \in [version : 0..MaxVersion, rev : Nat] /\ gated \in BOOLEAN
  /\ branch \in [T!Version -> Branches] /\ pull \in [T!Version -> PullRequests]
  /\ target \in T!Version
  /\ mark \in [is : BOOLEAN, version : 0..MaxVersion, fresh : BOOLEAN]
  /\ pass \in [at : PullPlaces, file : Nat, resumed : BOOLEAN, known : SUBSET T!Version,
               checked : BOOLEAN]
  /\ tFaults \in 0..MaxPullFaults /\ tEdits \in 0..MaxPullEdits

\* A pull request is of a branch, and one of the App's own is of a whole branch.
PullsStand ==
  \A v \in T!Version :
    /\ pull[v].open => branch[v].is
    /\ ~pull[v].open => pull[v] = T!NoPull
    /\ pull[v].own => branch[v].files = 1..Files

\* Between two puts the branch has the files up to here, and after the last one all.
PutSoFar ==
  /\ pass.at = "put" => /\ pass.file \in 1..Files
                        /\ 1..(pass.file - 1) \subseteq branch[target].files
  /\ pass.at = "open" => branch[target].files = 1..Files

\* Where a branch is about to be deleted, its pull request was not known or cannot merge.
ClosesForAReason ==
  (/\ pass.at \in {"supersede", "recreate", "ref", "restart", "cleanup"}
   /\ pull[target].open /\ target \in pass.known)
  => pull[target].conflicted

\* What was looked at has not been pushed to since.
LookedAt == pass.checked => ~branch[target].foreign

PullsInv == PullsShape /\ PullsStand /\ PutSoFar /\ ClosesForAReason /\ LookedAt

LEMMA PullsInit ==
  ASSUME T!Init
  PROVE  PullsInv
<1> USE TemplatesAssumption DEF T!Version, T!NoBranch, T!NoPull, T!NoMark, T!Idle
<1>1. PullsShape
  BY DEF PullsShape, T!Init, Branches, PullRequests, PullPlaces
<1> QED BY <1>1 DEF T!Init, PullsInv, PullsStand, PutSoFar, ClosesForAReason, LookedAt

\* A merge moves the base to a version it may have, and conflicts what stays open.
LEMMA MergeIs ==
  ASSUME PullsShape, NEW v \in T!Version, T!Merge(v)
  PROVE  /\ base' \in [version : 0..MaxVersion, rev : Nat]
         /\ base'.version # base.version => base'.version = v
         /\ pull' \in [T!Version -> PullRequests]
         /\ pull'[v] = T!NoPull
         /\ \A w \in T!Version : w # v => /\ pull'[w].open = pull[w].open
                                          /\ pull'[w].own = pull[w].own
                                          /\ pull'[w].conflicted = pull[w].open
<1> USE TemplatesAssumption DEF PullsShape, T!Version, T!Merge, PullRequests, T!NoPull
<1>1. /\ base' \in [version : 0..MaxVersion, rev : Nat]
      /\ base'.version # base.version => base'.version = v
  OBVIOUS
<1>2. \A w \in T!Version : w # v => pull'[w] = [pull[w] EXCEPT !.conflicted = pull[w].open]
  OBVIOUS
<1>3. pull'[v] = T!NoPull
  OBVIOUS
<1>4. pull' \in [T!Version -> PullRequests]
  <2>1. \A w \in T!Version : [pull[w] EXCEPT !.conflicted = pull[w].open] \in PullRequests
    OBVIOUS
  <2> QED BY <2>1
<1> QED BY <1>1, <1>2, <1>3, <1>4

\* What a merge leaves: open pull requests of branches, known ones with a reason.
LEMMA MergeStep ==
  ASSUME PullsInv, NEW v \in T!Version, T!Merge(v), UNCHANGED <<branch, target>>,
         pass'.known = pass.known, pass' \in [at : PullPlaces, file : Nat, resumed : BOOLEAN,
                                              known : SUBSET T!Version, checked : BOOLEAN],
         pass'.at \notin {"supersede", "recreate", "ref", "restart"} \/ pass'.at = pass.at,
         pass'.at = "cleanup" => v = target \/ pass.at = "cleanup"
  PROVE  PullsStand' /\ ClosesForAReason'
<1>m. /\ pull'[v] = T!NoPull
      /\ \A w \in T!Version : w # v => /\ pull'[w].open = pull[w].open
                                       /\ pull'[w].own = pull[w].own
                                       /\ pull'[w].conflicted = pull[w].open
      /\ pull' \in [T!Version -> PullRequests]
  BY MergeIs DEF PullsInv
<1>1. PullsStand'
  <2> SUFFICES ASSUME NEW w \in T!Version
               PROVE  /\ pull'[w].open => branch[w].is
                      /\ ~pull'[w].open => pull'[w] = T!NoPull
                      /\ pull'[w].own => branch[w].files = 1..Files
    BY DEF PullsStand
  <2>1. CASE w = v
    BY <2>1, <1>m DEF T!NoPull
  <2>2. CASE w # v
    <3>1. pull[w] = T!NoPull => pull[w].own = FALSE /\ pull[w].open = FALSE
      BY DEF T!NoPull
    <3>2. pull'[w] \in PullRequests
      BY <1>m
    <3>3. ~pull'[w].open => pull'[w].own = FALSE /\ pull'[w].conflicted = FALSE
      BY <2>2, <1>m, <3>1 DEF PullsInv, PullsStand
    <3>4. ~pull'[w].open => pull'[w] = T!NoPull
      BY <3>2, <3>3 DEF PullRequests, T!NoPull
    <3> QED BY <2>2, <1>m, <3>4 DEF PullsInv, PullsStand
  <2> QED BY <2>1, <2>2
<1>2. ClosesForAReason'
  <2>1. target \in T!Version
    BY DEF PullsInv, PullsShape
  <2>2. CASE target = v
    BY <2>2, <1>m DEF ClosesForAReason, T!NoPull
  <2>3. CASE target # v
    BY <2>1, <2>3, <1>m DEF ClosesForAReason
  <2> QED BY <2>2, <2>3
<1> QED BY <1>1, <1>2

\* What deleting branches leaves.
LEMMA DeleteIs ==
  ASSUME PullsShape, PullsStand, NEW vs \in SUBSET T!Version, T!DeleteRefs(vs)
  PROVE  /\ branch' \in [T!Version -> Branches] /\ pull' \in [T!Version -> PullRequests]
         /\ \A v \in vs : branch'[v] = T!NoBranch /\ pull'[v] = T!NoPull
         /\ \A v \in T!Version \ vs : branch'[v] = branch[v] /\ pull'[v] = pull[v]
         /\ PullsStand'
<1>1. /\ branch' \in [T!Version -> Branches] /\ pull' \in [T!Version -> PullRequests]
      /\ \A v \in vs : branch'[v] = T!NoBranch /\ pull'[v] = T!NoPull
      /\ \A v \in T!Version \ vs : branch'[v] = branch[v] /\ pull'[v] = pull[v]
  BY DEF PullsShape, T!DeleteRefs, T!NoBranch, T!NoPull, Branches, PullRequests
<1> QED BY <1>1 DEF PullsStand, T!NoPull

LEMMA PullsStep ==
  ASSUME PullsInv, [T!Next]_templatesVars
  PROVE  PullsInv'
<1> USE DEF PullsInv, T!github
<1>p. /\ PullsShape /\ target \in T!Version /\ pass.at \in PullPlaces /\ pass.file \in Nat
      /\ pass \in [at : PullPlaces, file : Nat, resumed : BOOLEAN, known : SUBSET T!Version,
                   checked : BOOLEAN]
      /\ branch \in [T!Version -> Branches] /\ pull \in [T!Version -> PullRequests]
  BY DEF PullsShape
<1>g. ASSUME NEW at \in PullPlaces, T!Go(at)
      PROVE  /\ pass' \in [at : PullPlaces, file : Nat, resumed : BOOLEAN,
                           known : SUBSET T!Version, checked : BOOLEAN]
             /\ pass'.at = at /\ pass'.file = pass.file /\ pass'.known = pass.known
             /\ pass'.checked = pass.checked
  BY <1>p, <1>g DEF T!Go
<1>r. ASSUME NEW v \in 0..MaxVersion, T!Record(v)
      PROVE  /\ mark' \in [is : BOOLEAN, version : 0..MaxVersion, fresh : BOOLEAN]
             /\ pass' = T!Idle
  BY <1>r DEF T!Record
<1>i. /\ T!Idle \in [at : PullPlaces, file : Nat, resumed : BOOLEAN, known : SUBSET T!Version,
                     checked : BOOLEAN]
      /\ T!Idle.at = "idle" /\ T!Idle.checked = FALSE /\ target \in 0..MaxVersion
      /\ base.version \in 0..MaxVersion
  <2>1. target \in 0..MaxVersion
    BY <1>p, TemplatesAssumption DEF T!Version
  <2>2. base.version \in 0..MaxVersion
    BY DEF PullsShape
  <2>3. {} \in SUBSET T!Version
    OBVIOUS
  <2>4. T!Idle \in [at : PullPlaces, file : Nat, resumed : BOOLEAN, known : SUBSET T!Version,
                  checked : BOOLEAN]
    BY <2>3 DEF T!Idle, PullPlaces
  <2> QED BY <2>1, <2>2, <2>4 DEF T!Idle
<1>f. T!Fault => tFaults' \in 0..MaxPullFaults
  BY TemplatesAssumption DEF T!Fault, PullsShape
<1>e. T!Edit => tEdits' \in 0..MaxPullEdits
  BY TemplatesAssumption DEF T!Edit, PullsShape
<1>0. ASSUME UNCHANGED templatesVars PROVE PullsInv'
  BY <1>0 DEF templatesVars, PullsShape, PullsStand, PutSoFar, ClosesForAReason, LookedAt
\* The App's own steps that leave the repository alone and end the pass.
<1>z. ASSUME UNCHANGED <<base, gated, branch, pull>>, pass' = T!Idle, target' \in T!Version,
             mark' \in [is : BOOLEAN, version : 0..MaxVersion, fresh : BOOLEAN],
             tFaults' \in 0..MaxPullFaults, tEdits' \in 0..MaxPullEdits
      PROVE  PullsInv'
  BY <1>z, <1>i DEF PullsShape, PullsStand, PutSoFar, ClosesForAReason, LookedAt
\* ... and those that go on.
<1>y. ASSUME UNCHANGED <<base, gated, branch, pull, target, mark, tEdits>>,
             tFaults' \in 0..MaxPullFaults,
             pass' \in [at : PullPlaces, file : Nat, resumed : BOOLEAN,
                       known : SUBSET T!Version, checked : BOOLEAN],
             pass'.at \notin {"put", "open"}, ClosesForAReason',
             pass'.checked => ~branch[target].foreign
      PROVE  PullsInv'
  BY <1>y DEF PullsShape, PullsStand, PutSoFar, LookedAt
<1>u. tFaults \in 0..MaxPullFaults /\ tEdits \in 0..MaxPullEdits
  BY DEF PullsShape
<1>1. ASSUME T!Ensure PROVE PullsInv'
  <2>1. CASE T!Record(base.version) /\ pass' = T!Idle
    <3>1. mark' \in [is : BOOLEAN, version : 0..MaxVersion, fresh : BOOLEAN]
      BY <2>1, <1>i, <1>r
    <3> QED BY <1>1, <2>1, <3>1, <1>p, <1>u, <1>z DEF T!Ensure
  <2>2. CASE /\ pass' = [T!Idle EXCEPT !.at = "lookup",
                                        !.known = {v \in T!Version : pull[v].open}]
             /\ UNCHANGED mark
    <3>1. /\ pass' \in [at : PullPlaces, file : Nat, resumed : BOOLEAN,
                        known : SUBSET T!Version, checked : BOOLEAN]
          /\ pass'.at = "lookup" /\ pass'.checked = FALSE
      BY <2>2, <1>i DEF T!Idle, PullPlaces
    <3>2. ClosesForAReason'
      BY <3>1 DEF ClosesForAReason
    <3> QED BY <1>1, <2>2, <3>1, <3>2, <1>u, <1>y DEF T!Ensure
  <2> QED BY <1>1, <2>1, <2>2 DEF T!Ensure, T!Record
<1>2. ASSUME T!Lookup PROVE PullsInv'
  <2>1. PICK at \in {"files", "supersede"} :
          T!Go(at) /\ (at = "supersede" => ~pull[target].open)
    BY <1>2 DEF T!Lookup, T!OpenPullForHead
  <2>2. at \in PullPlaces
    BY DEF PullPlaces
  <2>3. ClosesForAReason'
    BY <1>2, <2>1, <2>2, <1>g DEF T!Lookup, ClosesForAReason
  <2> QED BY <1>2, <2>1, <2>2, <2>3, <1>g, <1>u, <1>y DEF T!Lookup, LookedAt
<1>3. ASSUME T!CheckFiles PROVE PullsInv'
  <2>1. CASE /\ T!ListPullFiles(target) /\ UNCHANGED mark
             /\ pass' = [pass EXCEPT !.at = "merge", !.resumed = TRUE, !.checked = TRUE]
    <3>1. /\ pass' \in [at : PullPlaces, file : Nat, resumed : BOOLEAN,
                        known : SUBSET T!Version, checked : BOOLEAN]
          /\ pass'.at = "merge"
      BY <2>1, <1>p DEF PullPlaces
    <3>2. ClosesForAReason'
      BY <3>1 DEF ClosesForAReason
    <3>3. ~branch[target].foreign
      BY <2>1 DEF T!ListPullFiles
    <3> QED BY <1>3, <2>1, <3>1, <3>2, <3>3, <1>u, <1>y DEF T!CheckFiles
  <2>2. CASE T!Record(target)
    BY <1>3, <2>2, <1>r, <1>i, <1>z, <1>u, <1>p DEF T!CheckFiles
  <2> QED BY <1>3, <2>1, <2>2 DEF T!CheckFiles
<1>4. ASSUME T!MergeRefused PROVE PullsInv'
  <2>1. CASE T!Go("mergeable") /\ UNCHANGED mark
    <3>1. "mergeable" \in PullPlaces
      BY DEF PullPlaces
    <3>2. ClosesForAReason'
      BY <2>1, <3>1, <1>g DEF ClosesForAReason
    <3> QED BY <1>4, <2>1, <3>1, <3>2, <1>g, <1>u, <1>y DEF T!MergeRefused, LookedAt
  <2>2. CASE T!Record(target)
    BY <1>4, <2>2, <1>r, <1>i, <1>z, <1>u, <1>p DEF T!MergeRefused
  <2> QED BY <1>4, <2>1, <2>2 DEF T!MergeRefused
<1>5. ASSUME T!MergePull PROVE PullsInv'
  <2>1. PICK at \in {"cleanup", "mergeable", "deferred"} : T!Go(at)
    BY <1>5 DEF T!MergePull
  <2>2. at \in PullPlaces
    BY DEF PullPlaces
  <2>3. tFaults' \in 0..MaxPullFaults
    BY <1>5, <1>f, <1>u DEF T!MergePull
  <2>4. T!Merge(target) /\ UNCHANGED <<branch, target, gated, mark, tEdits>>
    BY <1>5 DEF T!MergePull
  <2>5. PullsStand' /\ ClosesForAReason'
    BY <2>1, <2>2, <2>4, <1>g, <1>p, MergeStep
  <2>6. PullsShape'
    BY <2>1, <2>2, <2>3, <2>4, <1>g, <1>p, MergeIs DEF PullsShape
  <2> QED BY <2>1, <2>2, <2>4, <2>5, <2>6, <1>g DEF PutSoFar, LookedAt
<1>6. ASSUME T!Cleanup PROVE PullsInv'
  <2>1. tFaults' \in 0..MaxPullFaults
    BY <1>6, <1>f, <1>u DEF T!Cleanup
  <2>2. /\ branch' \in [T!Version -> Branches] /\ pull' \in [T!Version -> PullRequests]
        /\ PullsStand'
    <3>1. CASE T!DeleteRefs({target})
      BY <3>1, <1>p, DeleteIs
    <3>2. CASE UNCHANGED <<branch, pull>>
      BY <3>2, <1>p DEF PullsStand
    <3> QED BY <1>6, <3>1, <3>2 DEF T!Cleanup
  <2>3. pass' = T!Idle /\ mark' \in [is : BOOLEAN, version : 0..MaxVersion, fresh : BOOLEAN]
    BY <1>6, <1>i, <1>r DEF T!Cleanup
  <2>4. PullsShape'
    BY <1>6, <2>1, <2>2, <2>3, <1>i, <1>p DEF T!Cleanup, PullsShape
  <2> QED BY <2>2, <2>3, <2>4, <1>i DEF PutSoFar, ClosesForAReason, LookedAt
<1>7. ASSUME T!Mergeable PROVE PullsInv'
  <2>1. PICK at \in {"recreate", "deferred"} :
          T!Go(at) /\ (at = "recreate" => pull[target].conflicted)
    BY <1>7 DEF T!Mergeable, T!OpenPullForHead, T!PullRequestMergeable
  <2>2. at \in PullPlaces
    BY DEF PullPlaces
  <2>3. tFaults' \in 0..MaxPullFaults
    BY <1>7, <1>f, <1>u DEF T!Mergeable
  <2>4. ClosesForAReason'
    BY <1>7, <2>1, <2>2, <1>g DEF T!Mergeable, ClosesForAReason
  <2> QED BY <1>7, <2>1, <2>2, <2>3, <2>4, <1>g, <1>y DEF T!Mergeable, LookedAt
<1>8. ASSUME T!Deferred PROVE PullsInv'
  BY <1>8, <1>r, <1>i, <1>z, <1>u, <1>p DEF T!Deferred
<1>9. ASSUME T!DeleteBranch \/ T!Supersede PROVE PullsInv'
  <2>1. PICK vs \in SUBSET T!Version, at \in {"ref", "ref again"} :
          (T!DeleteRefs(vs) \/ UNCHANGED <<branch, pull>>) /\ T!Go(at)
    BY <1>9, <1>p DEF T!DeleteBranch, T!Supersede, T!ListOpenPulls
  <2>2. at \in PullPlaces
    BY DEF PullPlaces
  <2>3. tFaults' \in 0..MaxPullFaults
    BY <1>9, <1>f, <1>u DEF T!DeleteBranch, T!Supersede
  <2>4. /\ branch' \in [T!Version -> Branches] /\ pull' \in [T!Version -> PullRequests]
        /\ PullsStand'
        /\ \A v \in T!Version : \/ branch'[v] = T!NoBranch /\ pull'[v] = T!NoPull
                                \/ branch'[v] = branch[v] /\ pull'[v] = pull[v]
    <3>1. CASE T!DeleteRefs(vs)
      BY <3>1, DeleteIs
    <3>2. CASE UNCHANGED <<branch, pull>>
      BY <3>2, <1>p DEF PullsStand
    <3> QED BY <2>1, <3>1, <3>2
  <2>5. UNCHANGED <<base, gated, target, mark, tEdits>>
    BY <1>9 DEF T!DeleteBranch, T!Supersede
  <2>6. PullsShape'
    BY <2>1, <2>2, <2>3, <2>4, <2>5, <1>g DEF PullsShape
  <2>7. pass'.at = at /\ pass'.known = pass.known /\ pass'.checked = pass.checked
    BY <2>1, <2>2, <1>g
  <2>8. LookedAt'
    <3>0. T!NoBranch.foreign = FALSE /\ target' = target
      BY <2>5 DEF T!NoBranch
    <3>1. CASE branch'[target] = T!NoBranch
      BY <3>0, <3>1 DEF LookedAt
    <3>2. CASE branch'[target] = branch[target]
      BY <2>5, <2>7, <3>2 DEF LookedAt
    <3> QED BY <2>4, <1>p, <3>1, <3>2
  <2>9. ClosesForAReason'
    <3>1. pass.at \in {"recreate", "restart", "supersede"}
      BY <1>9 DEF T!DeleteBranch, T!Supersede
    <3>0. T!NoPull.open = FALSE /\ target' = target
      BY <2>5 DEF T!NoPull
    <3>2. CASE pull'[target] = T!NoPull
      BY <3>0, <3>2 DEF ClosesForAReason
    <3>3. CASE pull'[target] = pull[target]
      BY <2>5, <2>7, <3>1, <3>3 DEF ClosesForAReason
    <3> QED BY <2>4, <1>p, <3>2, <3>3
  <2> QED BY <2>4, <2>6, <2>7, <2>8, <2>9 DEF PutSoFar
<1>10. ASSUME T!Branch PROVE PullsInv'
  <2>1. CASE /\ T!RefFree(target) /\ T!CreateRef(target)
             /\ pass' = [pass EXCEPT !.at = "put", !.file = 1]
    <3>1. /\ pass' \in [at : PullPlaces, file : Nat, resumed : BOOLEAN,
                        known : SUBSET T!Version, checked : BOOLEAN]
          /\ pass'.at = "put" /\ pass'.file = 1
      BY <2>1, <1>p DEF PullPlaces
    <3>2. /\ branch' \in [T!Version -> Branches]
          /\ branch'[target].is /\ branch'[target].files = {} /\ ~branch'[target].foreign
          /\ \A v \in T!Version : v # target => branch'[v] = branch[v]
      BY <2>1, <1>p DEF T!CreateRef, T!BranchHeadSha, T!NoBranch, Branches, PullsShape
    <3>3. ~pull[target].own
      BY <2>1, <1>p DEF T!RefFree, PullsStand, T!NoPull
    <3>4. PullsShape'
      BY <1>10, <3>1, <3>2 DEF T!Branch, PullsShape
    <3>5. PullsStand'
      BY <1>10, <3>2, <3>3 DEF T!Branch, PullsStand
    <3>6. PutSoFar'
      <4>1. 1 \in 1..Files /\ 1..(1 - 1) = {}
        BY TemplatesAssumption
      <4> QED BY <1>10, <3>1, <3>2, <4>1 DEF T!Branch, PutSoFar
    <3>7. ClosesForAReason' /\ LookedAt'
      BY <1>10, <3>1, <3>2 DEF T!Branch, ClosesForAReason, LookedAt
    <3> QED BY <3>4, <3>5, <3>6, <3>7
  <2>2. CASE UNCHANGED branch /\ pass' = T!Idle
    BY <1>10, <2>2, <1>z, <1>u, <1>p DEF T!Branch, PullsShape
  <2>3. CASE UNCHANGED branch /\ pass.at = "ref" /\ pass' = [pass EXCEPT !.at = "restart"]
    <3>1. /\ pass' \in [at : PullPlaces, file : Nat, resumed : BOOLEAN,
                        known : SUBSET T!Version, checked : BOOLEAN]
          /\ pass'.at = "restart" /\ pass'.known = pass.known /\ pass'.checked = pass.checked
      BY <2>3, <1>p DEF PullPlaces
    <3>2. ClosesForAReason'
      BY <1>10, <2>3, <3>1 DEF T!Branch, ClosesForAReason
    <3> QED BY <1>10, <2>3, <3>1, <3>2, <1>u, <1>y DEF T!Branch, LookedAt
  <2> QED BY <1>10, <2>1, <2>2, <2>3 DEF T!Branch
<1>11. ASSUME T!Put PROVE PullsInv'
  <2>1. CASE /\ T!PutFile(target, pass.file)
             /\ pass' = [pass EXCEPT !.at = IF pass.file = Files THEN "open" ELSE "put",
                                     !.file = @ + 1]
    <3>0. pass.at = "put" /\ pass.file \in 1..Files
          /\ 1..(pass.file - 1) \subseteq branch[target].files
      BY <1>11 DEF T!Put, PutSoFar
    <3>1. /\ pass' \in [at : PullPlaces, file : Nat, resumed : BOOLEAN,
                        known : SUBSET T!Version, checked : BOOLEAN]
          /\ pass'.at = IF pass.file = Files THEN "open" ELSE "put"
          /\ pass'.file = pass.file + 1 /\ pass'.checked = pass.checked
      <4>0. "open" \in PullPlaces /\ "put" \in PullPlaces
        BY DEF PullPlaces
      <4>1. "open" \in PullPlaces /\ "put" \in PullPlaces /\ pass.file + 1 \in Nat
        BY <3>0, <4>0, TemplatesAssumption
      <4>2. pass' = [[pass EXCEPT !.at = IF pass.file = Files THEN "open" ELSE "put"]
                        EXCEPT !.file = pass.file + 1]
        BY <2>1, <1>p
      <4>3. [pass EXCEPT !.at = IF pass.file = Files THEN "open" ELSE "put"]
              \in [at : PullPlaces, file : Nat, resumed : BOOLEAN, known : SUBSET T!Version,
                   checked : BOOLEAN]
        BY <4>1, <1>p
      <4> QED BY <4>1, <4>2, <4>3, <1>p
    <3>2. /\ branch' \in [T!Version -> Branches]
          /\ branch'[target].is = branch[target].is
          /\ branch'[target].files = branch[target].files \cup {pass.file}
          /\ branch'[target].foreign = branch[target].foreign
          /\ \A v \in T!Version : v # target => branch'[v] = branch[v]
      BY <2>1, <3>0, <1>p DEF T!PutFile, Branches
    <3>3. PullsShape'
      BY <1>11, <3>1, <3>2 DEF T!Put, PullsShape
    <3>4. PullsStand'
      BY <1>11, <3>0, <3>2 DEF T!Put, PullsStand
    <3>5. PutSoFar'
      <4>1. branch'[target] \in Branches /\ target' = target
        BY <1>11, <3>2, <1>p DEF T!Put
      <4>2. 1..pass.file \subseteq branch'[target].files
        BY <3>0, <3>2
      <4>3. branch'[target].files \subseteq 1..Files
        BY <4>1 DEF Branches
      <4>4. CASE pass.file = Files
        BY <3>1, <4>1, <4>2, <4>3, <4>4 DEF PutSoFar
      <4>5. CASE pass.file # Files
        BY <3>0, <3>1, <4>1, <4>2, <4>5, TemplatesAssumption DEF PutSoFar
      <4> QED BY <4>4, <4>5
    <3>6. ClosesForAReason' /\ LookedAt'
      BY <1>11, <3>1, <3>2 DEF T!Put, ClosesForAReason, LookedAt
    <3> QED BY <3>3, <3>4, <3>5, <3>6
  <2>2. CASE UNCHANGED branch /\ pass' = T!Idle
    BY <1>11, <2>2, <1>z, <1>u, <1>p DEF T!Put, PullsShape
  <2> QED BY <1>11, <2>1, <2>2 DEF T!Put
<1>12. ASSUME T!Open PROVE PullsInv'
  <2>1. CASE T!PullAccepted(target) /\ T!CreatePull(target)
    <3>1. /\ pull' \in [T!Version -> PullRequests]
          /\ pull'[target].open /\ pull'[target].own
          /\ \A v \in T!Version : v # target => pull'[v] = pull[v]
      BY <2>1, <1>p DEF T!CreatePull, PullRequests
    <3>2. PullsStand'
      BY <1>12, <2>1, <3>1 DEF T!Open, T!PullAccepted, PullsStand, PutSoFar
    <3>3. /\ pass' \in [at : PullPlaces, file : Nat, resumed : BOOLEAN,
                        known : SUBSET T!Version, checked : BOOLEAN]
          /\ pass'.at \in {"merge", "idle"} /\ (pass'.checked => pass.checked)
      <4>1. "merge" \in PullPlaces
        BY DEF PullPlaces
      <4> QED BY <1>12, <4>1, <1>i, <1>g DEF T!Open
    <3>4. tFaults' \in 0..MaxPullFaults
      BY <1>12, <1>f, <1>u DEF T!Open
    <3>5. PullsShape'
      BY <1>12, <3>1, <3>3, <3>4 DEF T!Open, PullsShape
    <3> QED BY <1>12, <3>2, <3>3, <3>5 DEF T!Open, PutSoFar, ClosesForAReason, LookedAt
  <2>2. CASE UNCHANGED pull /\ pass' = T!Idle /\ UNCHANGED tFaults
    BY <1>12, <2>2, <1>z, <1>u, <1>p DEF T!Open, PullsShape
  <2> QED BY <1>12, <2>1, <2>2 DEF T!Open
<1>13. ASSUME T!CallFails \/ T!FilesUnreadable \/ T!Restart PROVE PullsInv'
  <2>1. tFaults' \in 0..MaxPullFaults /\ pass' = T!Idle
    <3>1. T!Fault
      BY <1>13 DEF T!CallFails, T!FilesUnreadable, T!Restart
    <3>2. pass' = T!Idle
      BY <1>13 DEF T!CallFails, T!FilesUnreadable, T!Restart, T!Record
    <3> QED BY <3>1, <3>2, <1>f
  <2>2. mark' \in [is : BOOLEAN, version : 0..MaxVersion, fresh : BOOLEAN]
    <3>1. mark \in [is : BOOLEAN, version : 0..MaxVersion, fresh : BOOLEAN]
      BY DEF PullsShape
    <3>2. T!NoMark \in [is : BOOLEAN, version : 0..MaxVersion, fresh : BOOLEAN]
      BY TemplatesAssumption DEF T!NoMark
    <3>3. CASE T!FilesUnreadable
      BY <3>3, <1>r, <1>i DEF T!FilesUnreadable
    <3> QED BY <1>13, <3>1, <3>2, <3>3 DEF T!CallFails, T!Restart
  <2>3. target' \in T!Version /\ UNCHANGED <<base, gated, branch, pull, tEdits>>
    BY <1>13, <1>p DEF T!CallFails, T!FilesUnreadable, T!Restart
  <2> QED BY <2>1, <2>2, <2>3, <1>u, <1>z
<1>14. ASSUME T!Expire PROVE PullsInv'
  <2>1. mark' \in [is : BOOLEAN, version : 0..MaxVersion, fresh : BOOLEAN]
    BY <1>14 DEF T!Expire, PullsShape
  <2> QED BY <1>14, <2>1
      DEF T!Expire, PullsShape, PullsStand, PutSoFar, ClosesForAReason, LookedAt
<1>15. ASSUME NEW v \in T!Version, T!AutoMerge(v) \/ T!PersonMerges(v) PROVE PullsInv'
  <2>1. T!Merge(v) /\ UNCHANGED <<gated, branch, target, mark, pass, tFaults>>
    BY <1>15 DEF T!AutoMerge, T!PersonMerges
  <2>2. tEdits' \in 0..MaxPullEdits
    BY <1>15, <1>e, <1>u DEF T!AutoMerge, T!PersonMerges
  <2>3. PullsStand' /\ ClosesForAReason'
    BY <2>1, <1>p, MergeStep
  <2>4. PullsShape'
    BY <2>1, <2>2, MergeIs DEF PullsShape
  <2> QED BY <2>1, <2>3, <2>4 DEF PutSoFar, LookedAt
<1>16. ASSUME T!PersonEdits PROVE PullsInv'
  <2>1. \A v \in T!Version : pull'[v] = [pull[v] EXCEPT !.conflicted = pull[v].open]
    BY <1>16 DEF T!PersonEdits
  <2>2. \A v \in T!Version : /\ pull'[v] \in PullRequests /\ pull'[v].open = pull[v].open
                            /\ pull'[v].own = pull[v].own
                            /\ pull'[v].conflicted = pull[v].open
    BY <2>1, <1>p DEF PullRequests
  <2>3. pull' \in [T!Version -> PullRequests]
    BY <1>16, <2>2 DEF T!PersonEdits
  <2>4. PullsShape'
    BY <1>16, <2>3, <1>e DEF T!PersonEdits, PullsShape
  <2>5. \A v \in T!Version : ~pull'[v].open => pull'[v] = T!NoPull
    <3> SUFFICES ASSUME NEW v \in T!Version, ~pull'[v].open PROVE pull'[v] = T!NoPull
      OBVIOUS
    <3>1. pull[v] = T!NoPull /\ pull'[v] \in PullRequests
      BY <2>2 DEF PullsStand
    <3>2. pull'[v].own = FALSE /\ pull'[v].conflicted = FALSE
      BY <2>2, <3>1 DEF T!NoPull
    <3> QED BY <3>1, <3>2 DEF T!NoPull, PullRequests
  <2>6. PullsStand'
    BY <1>16, <2>2, <2>5 DEF T!PersonEdits, PullsStand
  <2> QED BY <1>16, <1>p, <2>2, <2>4, <2>6
      DEF T!PersonEdits, PutSoFar, ClosesForAReason, LookedAt
<1>17. ASSUME NEW v \in T!Version, T!PersonCloses(v) PROVE PullsInv'
  <2>1. /\ pull' \in [T!Version -> PullRequests] /\ pull'[v] = T!NoPull
        /\ \A w \in T!Version : w # v => pull'[w] = pull[w]
    BY <1>17, <1>p DEF T!PersonCloses, PullRequests, T!NoPull
  <2>2. PullsShape'
    BY <1>17, <2>1, <1>e DEF T!PersonCloses, PullsShape
  <2>3. PullsStand'
    BY <1>17, <2>1 DEF T!PersonCloses, PullsStand, T!NoPull
  <2>4. ClosesForAReason'
    BY <1>17, <2>1, <1>p DEF T!PersonCloses, ClosesForAReason, T!NoPull
  <2> QED BY <1>17, <2>2, <2>3, <2>4 DEF T!PersonCloses, PutSoFar, LookedAt
<1>18. ASSUME NEW v \in T!Version, T!PersonPushes(v) PROVE PullsInv'
  <2>1. /\ branch' \in [T!Version -> Branches]
        /\ branch'[v].is /\ branch'[v].files = branch[v].files
        /\ \A w \in T!Version : w # v => branch'[w] = branch[w]
    <3> DEFINE at == IF branch[v].is THEN branch[v].at ELSE base.rev
    <3>1. branch' = [branch EXCEPT ![v] = [branch[v] EXCEPT !.is = TRUE, !.foreign = TRUE,
                                                            !.at = at]]
      BY <1>18 DEF T!PersonPushes
    <3>2. branch[v] \in Branches /\ at \in Nat
      BY <1>p DEF Branches, PullsShape
    <3> HIDE DEF at
    <3>3. /\ [branch[v] EXCEPT !.is = TRUE, !.foreign = TRUE, !.at = at] \in Branches
          /\ [branch[v] EXCEPT !.is = TRUE, !.foreign = TRUE, !.at = at].is
          /\ [branch[v] EXCEPT !.is = TRUE, !.foreign = TRUE, !.at = at].files = branch[v].files
      BY <3>2 DEF Branches
    <3> QED BY <3>1, <3>3, <1>p
  <2>2. /\ pass' \in [at : PullPlaces, file : Nat, resumed : BOOLEAN,
                      known : SUBSET T!Version, checked : BOOLEAN]
        /\ pass'.at = pass.at /\ pass'.known = pass.known /\ pass'.file = pass.file
        /\ pass'.checked = FALSE
    BY <1>18, <1>p DEF T!PersonPushes
  <2>3. PullsShape'
    BY <1>18, <2>1, <2>2, <1>e DEF T!PersonPushes, PullsShape
  <2>4. PullsStand'
    BY <1>18, <2>1 DEF T!PersonPushes, PullsStand
  <2>5. PutSoFar'
    BY <1>18, <2>1, <2>2, <1>p DEF T!PersonPushes, PutSoFar
  <2> QED BY <1>18, <2>2, <2>3, <2>4, <2>5
      DEF T!PersonPushes, ClosesForAReason, LookedAt
<1>19. ASSUME NEW v \in T!Version, T!PersonOpens(v) PROVE PullsInv'
  <2>1. /\ pull' \in [T!Version -> PullRequests]
        /\ pull'[v].open /\ ~pull'[v].own
        /\ \A w \in T!Version : w # v => pull'[w] = pull[w]
    BY <1>19, <1>p DEF T!PersonOpens, PullRequests
  <2>2. /\ pass' \in [at : PullPlaces, file : Nat, resumed : BOOLEAN,
                      known : SUBSET T!Version, checked : BOOLEAN]
        /\ pass'.at = pass.at /\ pass'.known = pass.known \ {v} /\ pass'.file = pass.file
        /\ pass'.checked = pass.checked
    BY <1>19, <1>p DEF T!PersonOpens
  <2>3. PullsShape'
    BY <1>19, <2>1, <2>2, <1>e DEF T!PersonOpens, PullsShape
  <2>4. PullsStand'
    BY <1>19, <2>1 DEF T!PersonOpens, PullsStand
  <2>5. ClosesForAReason'
    BY <1>19, <2>1, <2>2, <1>p DEF T!PersonOpens, ClosesForAReason
  <2> QED BY <1>19, <2>2, <2>3, <2>4, <2>5 DEF T!PersonOpens, PutSoFar, LookedAt
<1>a. T!App => PullsInv'
  BY <1>1, <1>2, <1>3, <1>4, <1>5, <1>6, <1>7, <1>8, <1>9, <1>10, <1>11, <1>12 DEF T!App
<1>n. T!Next => PullsInv'
  BY <1>a, <1>13, <1>14, <1>15, <1>16, <1>17, <1>18, <1>19 DEF T!Next
<1> QED BY <1>0, <1>n

\* A pull request that a pass knew is closed for a newer version, or merged, or in vain.
LEMMA ChurnStep ==
  ASSUME PullsInv, T!Next
  PROVE  T!NeverChurnStep
<1> SUFFICES ASSUME NEW v \in T!Version, pull[v].open, v \in pass.known, v >= target,
                    branch[v].is, ~branch'[v].is
             PROVE  pull[v].conflicted \/ base'.version >= v
  BY DEF T!NeverChurnStep
<1>p. /\ target \in T!Version /\ branch \in [T!Version -> Branches]
      /\ pull \in [T!Version -> PullRequests] /\ T!Version \subseteq Nat
  BY DEF PullsInv, PullsShape, T!Version
<1>d. ASSUME NEW vs \in SUBSET T!Version, T!DeleteRefs(vs)
      PROVE  v \in vs
  BY <1>d, DeleteIs, <1>p DEF PullsInv
<1>1. CASE T!Cleanup \/ T!DeleteBranch
  <2>1. T!DeleteRefs({target}) /\ pass.at \in {"cleanup", "recreate", "restart"}
    BY <1>1 DEF T!Cleanup, T!DeleteBranch
  <2>2. v = target
    BY <2>1, <1>d, <1>p
  <2> QED BY <2>1, <2>2 DEF PullsInv, ClosesForAReason
<1>2. CASE T!Supersede
  <2>1. PICK vs \in SUBSET {w \in T!Version : w < target} : T!DeleteRefs(vs)
    BY <1>2 DEF T!Supersede, T!ListOpenPulls
  <2>2. v \in vs
    BY <2>1, <1>d
  <2> QED BY <2>2, <1>p
<1>3. CASE T!Branch
  <2>1. T!CreateRef(target) \/ UNCHANGED branch
    BY <1>3 DEF T!Branch
  <2>2. T!CreateRef(target) => branch'[target].is /\ \A w \in T!Version : w # target => branch'[w] = branch[w]
    BY <1>p DEF T!CreateRef, T!NoBranch
  <2> QED BY <2>1, <2>2
<1>4. CASE T!Put
  <2>1. T!PutFile(target, pass.file) \/ UNCHANGED branch
    BY <1>4 DEF T!Put
  <2>2. T!PutFile(target, pass.file) => branch'[v].is = branch[v].is
    BY <1>p DEF T!PutFile, Branches
  <2> QED BY <2>1, <2>2
<1>5. CASE \E w \in T!Version : T!PersonPushes(w)
  <2>1. PICK w \in T!Version : T!PersonPushes(w)
    BY <1>5
  <2>2. branch'[v] = branch[v] \/ branch'[v].is
    BY <2>1, <1>p DEF T!PersonPushes, Branches
  <2> QED BY <2>2
<1>6. CASE UNCHANGED branch
  BY <1>6
<1>7. \/ UNCHANGED branch \/ T!Cleanup \/ T!DeleteBranch \/ T!Supersede \/ T!Branch \/ T!Put
      \/ \E w \in T!Version : T!PersonPushes(w)
  BY DEF T!Next, T!App, T!github, T!Ensure, T!Lookup, T!CheckFiles, T!MergeRefused, T!MergePull,
         T!Mergeable, T!Deferred, T!Open, T!CallFails, T!FilesUnreadable, T!Restart, T!Expire,
         T!AutoMerge, T!PersonMerges, T!PersonCloses, T!PersonEdits, T!PersonOpens
<1> QED BY <1>1, <1>2, <1>3, <1>4, <1>5, <1>6, <1>7

\* What no step does to the templates of a repository.
LEMMA PullsAreCareful ==
  ASSUME PullsInv, PullsInv', [T!Next]_templatesVars
  PROVE  T!PullsAreCarefulStep
<1>p. /\ target \in T!Version /\ branch \in [T!Version -> Branches]
      /\ pull \in [T!Version -> PullRequests] /\ base.version \in 0..MaxVersion
  BY DEF PullsInv, PullsShape
<1>1. T!TypeOK'
  <2>1. /\ base' \in [version : 0..MaxVersion, rev : Nat] /\ gated' \in BOOLEAN
        /\ branch' \in [T!Version -> Branches] /\ pull' \in [T!Version -> PullRequests]
        /\ target' \in T!Version
        /\ mark' \in [is : BOOLEAN, version : 0..MaxVersion, fresh : BOOLEAN]
        /\ pass'.at \in PullPlaces
        /\ tFaults' \in 0..MaxPullFaults /\ tEdits' \in 0..MaxPullEdits
    BY DEF PullsInv, PullsShape
  <2>2. \A v \in T!Version : branch'[v].files \subseteq 1..Files
    BY <2>1 DEF Branches
  <2>3. \A v \in T!Version : pull'[v].open \/ pull'[v] = T!NoPull
    BY DEF PullsInv, PullsStand
  <2>4. base'.version \in 0..MaxVersion /\ base'.rev \in Nat /\ mark'.version \in 0..MaxVersion
    BY <2>1
  <2> QED BY <2>1, <2>2, <2>3, <2>4 DEF T!TypeOK, PullPlaces
<1>2. T!NeverChurnStep
  <2>1. CASE UNCHANGED templatesVars
    BY <2>1 DEF templatesVars, T!NeverChurnStep
  <2> QED BY <2>1, ChurnStep
\* A look that still stands has found no other file.
<1>3. T!NeverForeignStep
  BY DEF T!NeverForeignStep, PullsInv, LookedAt
\* The base moves to another version by a merge alone, and the App's own are whole.
<1>4. T!InstalledWholeStep
  BY DEF T!InstalledWholeStep, PullsInv, PullsStand
<1> QED BY <1>1, <1>2, <1>3, <1>4 DEF T!PullsAreCarefulStep

\* The services as a whole: stopping the capture worker accounts for what it
\* leaves, and a step of the template flow closes no pull request without a reason,
\* merges no file it has seen to be foreign and installs no version by halves
\* (audit/worker.rs, reconcile/templates.rs, github_app/template_install.rs).
THEOREM ServicesAreCareful == ASSUME Bounds PROVE PartSpec => CarefulSteps
<1> DEFINE I == /\ part = "worker" => IInv
                /\ part = "templates" => PullsInv
           Step == /\ part = "worker" => StopAccountsForAllStep
                   /\ part = "templates" => T!PullsAreCarefulStep
<1>1. PartInit => I
  BY WorkerInit, PullsInit DEF PartInit
<1>w. ASSUME part = "worker", [PartNext]_allVars PROVE part' = part /\ [Next]_vars
  BY <1>w DEF PartNext, allVars, workerVars, vars, shared, history
<1>t. ASSUME part = "templates", [PartNext]_allVars PROVE part' = part /\ [T!Next]_templatesVars
  BY <1>t DEF PartNext, allVars
<1>p. [PartNext]_allVars => part' = part
  BY DEF PartNext, allVars
<1>2. I /\ [PartNext]_allVars => I'
  BY <1>w, <1>t, <1>p, WorkerStep, PullsStep
<1>3. I /\ [PartNext]_allVars => [Step]_allVars
  <2> SUFFICES ASSUME I, PartNext PROVE Step
    OBVIOUS
  <2>1. ASSUME part = "worker" PROVE StopAccountsForAllStep
    BY <2>1, <1>w, StopStep
  <2>2. ASSUME part = "templates" PROVE T!PullsAreCarefulStep
    BY <2>2, <1>t, PullsStep, PullsAreCareful
  <2> QED BY <2>1, <2>2
<1> QED BY <1>1, <1>2, <1>3, PTL DEF PartSpec, CarefulSteps
=============================================================================
