--------------------------- MODULE SchedulePass ---------------------------
(* One scheduled workflow: the clock of schedule/decision.rs, the pass that    *)
(* plans it (schedule_pass.rs, schedule_plan.rs, schedule_authz.rs), the       *)
(* executor (schedule_execute.rs), the dashboard's run-now and pause           *)
(* (routes/canvas/schedules.rs) and the runner that reports an outcome.        *)
(*                                                                             *)
(* There is no store: the labels of the definition issue and the run records   *)
(* in its comments are the whole state, and every write of an effect is        *)
(* best-effort. One step is one GitHub call. Time is a counter of ticks; the   *)
(* instants a cron expression matches are the set Slots (module Cron).         *)
EXTENDS Naturals, Sequences, FiniteSets, FiniteSetsExt

CONSTANTS
  Mode,         \* "cron" or "once"
  Slots,        \* the instants of the expression
  Anchor,       \* when the definition was created
  Timeout,      \* cron_max_runtime_secs, in ticks
  MaxTime,      \* bound of the clock
  Faults,       \* kinds of faults that may happen
  MaxFaults,    \* faults in a behaviour
  MaxManual     \* dashboard actions in a behaviour

VARIABLES
  now,
  labels,       \* labels of the definition issue
  records,      \* run records: [slot, status, started, manual]; the clock reads
                \* `started` of dispatches only
  runs,         \* labelled run issues: [slot, manual, n]
  reported,     \* runs whose runner has posted an outcome
  unrecorded,   \* runs whose dispatch record was lost
  notices,      \* invalid comments since the label was last off
  valid,        \* the definition is authorised, parses and is under the limits
  calls,        \* calls the clock's current sweep has still to make
  manual,       \* calls a run-now request has still to make
  asked,        \* dashboard actions so far
  faults

vars == <<now, labels, records, runs, reported, unrecorded, notices, valid, calls, manual,
          asked, faults>>

LabelNames == {"running", "paused", "failed", "timeout", "invalid"}
Terminal == {"ok", "failed", "timeout", "skipped_overlap"}
Blank == [slot |-> 0, status |-> "none", started |-> 0, manual |-> FALSE]

----------------------------------------------------------------------------
(* The clock                                                                *)

Record(slot, status, at, byHand) ==
  [slot |-> slot, status |-> status, started |-> at, manual |-> byHand]

Latest(rs) == IF rs = {} THEN Blank ELSE CHOOSE r \in rs : \A q \in rs : q.slot <= r.slot

Ended(rs) == {r.slot : r \in {q \in rs : q.status \in Terminal}}

\* The newest dispatch without a terminal record for its slot.
OpenDispatch(rs) == Latest({r \in rs : r.status = "dispatched" /\ r.slot \notin Ended(rs)})

LatestTerminal(rs) == Latest({r \in rs : r.status \in Terminal})

Cursor(rs) == IF rs = {} THEN {} ELSE {Max({r.slot : r \in rs})}

\* Mutant: the floor itself is due again.
DueAtFloor(rs, t) ==
  LET floor == IF rs = {} THEN Anchor ELSE Max({r.slot : r \in rs})
      past == {s \in Slots : s <= t /\ s >= floor}
  IN IF past = {} THEN {} ELSE {Max(past)}

\* The slot that has come due and has no record at or after it, or none. For
\* Once the anchor is the slot.
DueSlot(rs, t) ==
  IF Mode = "once" THEN {s \in {Anchor} : rs = {} /\ t >= s}
  ELSE LET past == {s \in Slots : s <= t}
           floor == Max(Cursor(rs) \cup (IF rs = {} THEN {Anchor} ELSE {}))
       IN IF past = {} THEN {} ELSE {s \in {Max(past)} : s > floor}

Effect(kind, slot, status, started) ==
  [kind |-> kind, slot |-> slot, status |-> status, started |-> started]
Nothing == Effect("nothing", 0, "none", 0)

\* Mutant: an interrupted dispatch is left alone.
DecideWithoutAdopt(ls, rs, t) ==
  LET open == OpenDispatch(rs)
      due == DueSlot(rs, t)
      last == LatestTerminal(rs)
  IN CASE "running" \in ls /\ open # Blank ->
            IF t - open.started >= Timeout
            THEN Effect("expire", open.slot, "timeout", open.started)
            ELSE IF due = {} THEN Nothing ELSE Effect("skip", Max(due), "skipped_overlap", t)
       [] "running" \in ls /\ open = Blank -> Effect("complete", last.slot, last.status, 0)
       [] "running" \notin ls /\ open # Blank -> Nothing
       [] OTHER -> IF "paused" \in ls \/ due = {} THEN Nothing
                   ELSE Effect("dispatch", Max(due), "none", t)

\* decide: the watchdog first, then overlap; repairs before the pause.
Decide(ls, rs, t) ==
  LET open == OpenDispatch(rs)
      due == DueSlot(rs, t)
      last == LatestTerminal(rs)
  IN CASE "running" \in ls /\ open # Blank ->
            IF t - open.started >= Timeout
            THEN Effect("expire", open.slot, "timeout", open.started)
            ELSE IF due = {} THEN Nothing ELSE Effect("skip", Max(due), "skipped_overlap", t)
       [] "running" \in ls /\ open = Blank ->
            IF last = Blank THEN Effect("release", 0, "none", 0)
            ELSE Effect("complete", last.slot, last.status, 0)
       [] "running" \notin ls /\ open # Blank -> Effect("adopt", open.slot, "none", open.started)
       [] OTHER -> IF "paused" \in ls \/ due = {} THEN Nothing
                   ELSE Effect("dispatch", Max(due), "none", t)

----------------------------------------------------------------------------
(* Effects as the calls they make, in order                                 *)

Call(act, what, slot, status, started) ==
  [act |-> act, what |-> what, slot |-> slot, status |-> status, started |-> started]
Add(l) == Call("add", l, 0, "none", 0)
Remove(l) == Call("remove", l, 0, "none", 0)
Post(slot, status, started) == Call("record", "record", slot, status, started)

CompleteCalls(status) ==
  CASE status = "ok" -> <<Remove("running"), Remove("failed"), Remove("timeout")>>
    [] status = "timeout" -> <<Add("timeout"), Remove("running")>>
    [] OTHER -> <<Add("failed"), Remove("running")>>

\* create_run_issue, the record, the latch. The assignment between the label and
\* the record is best-effort and leaves nothing the clock reads.
DispatchCalls(slot, t) ==
  <<Call("create", "run", slot, "none", 0), Call("label", "run", slot, "none", 0),
    Post(slot, "dispatched", t), Add("running")>>

EffectCalls(e) ==
  CASE e.kind = "dispatch" -> DispatchCalls(e.slot, e.started)
    [] e.kind = "skip" -> <<Post(e.slot, "skipped_overlap", e.started)>>
    [] e.kind = "expire" ->
         <<Post(e.slot, "timeout", e.started), Add("timeout"), Remove("running")>>
    [] e.kind = "complete" -> CompleteCalls(e.status)
    [] e.kind = "release" -> <<Remove("running")>>
    [] e.kind = "adopt" -> <<Add("running")>>
    [] OTHER -> <<>>

\* A definition that cannot be accepted is latched and told once; an accepted
\* one loses a stale latch before its effect.
PlanCalls ==
  IF ~valid
  THEN IF "invalid" \in labels THEN <<>> ELSE <<Add("invalid"), Call("say", "invalid", 0, "none", 0)>>
  ELSE (IF "invalid" \in labels THEN <<Remove("invalid")>> ELSE <<>>)
         \o EffectCalls(Decide(labels, records, now))

----------------------------------------------------------------------------
(* Actors                                                                   *)

\* A dispatch that loses its record is a fault of its own.
Loses(c, actor) == IF c.act = "record" /\ c.status = "dispatched" THEN actor ELSE c.act

\* The run just started stays without a record when that one is lost.
Forget(c) ==
  unrecorded' = IF c.act = "record" /\ c.status = "dispatched"
                THEN unrecorded \cup {r \in runs : ~r.manual /\ r.slot = c.slot} ELSE unrecorded

Fault(k) == k \in Faults /\ faults < MaxFaults /\ faults' = faults + 1

\* One sweep: the listing and the history are read, the plan is made. A failed
\* read drops the sweep, which is a sweep that does not happen.
BeginSweep ==
  /\ calls = <<>> /\ PlanCalls # <<>>
  /\ calls' = PlanCalls
  /\ UNCHANGED <<now, labels, records, runs, reported, unrecorded, notices, valid, manual, asked, faults>>

\* The effect of one accepted call of either actor.
Apply(c, byHand) ==
  /\ labels' = CASE c.act = "add" -> labels \cup {c.what}
                 [] c.act = "remove" -> labels \ {c.what}
                 [] OTHER -> labels
  /\ records' = IF c.act = "record"
                THEN records \cup {Record(c.slot, c.status,
                       IF c.status = "dispatched" THEN c.started ELSE 0, byHand)} ELSE records
  /\ runs' = IF c.act = "label"
             THEN runs \cup {[slot |-> c.slot, manual |-> byHand, n |-> Cardinality(runs)]}
             ELSE runs
  /\ notices' = CASE c.act = "say" -> notices + 1
                  [] c = Remove("invalid") -> 0
                  [] OTHER -> notices

SweepCall ==
  /\ calls # <<>> /\ calls' = Tail(calls)
  /\ Apply(Head(calls), FALSE)
  /\ UNCHANGED <<now, reported, unrecorded, valid, manual, asked, faults>>

ManualCall ==
  /\ manual # <<>> /\ manual' = Tail(manual)
  /\ Apply(Head(manual), TRUE)
  /\ UNCHANGED <<now, reported, unrecorded, valid, calls, asked, faults>>

\* What is left of a sequence when its first call fails: a run issue that could
\* not be created or labelled ends the dispatch, any other call is skipped.
AfterFailure(cs) ==
  IF Head(cs).act \in {"create", "label"} THEN <<>> ELSE Tail(cs)

SweepCallFails ==
  /\ calls # <<>> /\ Fault(Loses(Head(calls), "lost_dispatch"))
  /\ calls' = AfterFailure(calls) /\ Forget(Head(calls))
  /\ UNCHANGED <<now, labels, records, runs, reported, notices, valid, manual, asked>>

ManualCallFails ==
  /\ manual # <<>> /\ Fault(Loses(Head(manual), "lost_manual"))
  /\ manual' = AfterFailure(manual)
  /\ UNCHANGED <<now, labels, records, runs, reported, unrecorded, notices, valid, calls, asked>>

\* The leader changes: the rest of the sweep is not executed.
Crash ==
  /\ calls # <<>>
  /\ Fault(IF Loses(Head(calls), "lost_dispatch") = "lost_dispatch"
           THEN "lost_dispatch" ELSE "crash")
  /\ calls' = <<>> /\ Forget(Head(calls))
  /\ UNCHANGED <<now, labels, records, runs, reported, notices, valid, manual, asked>>

\* run_schedule_now: refused while the running label is on; the slot is now.
RunNow ==
  /\ asked < MaxManual /\ asked' = asked + 1
  /\ manual = <<>> /\ valid /\ "running" \notin labels
  /\ manual' = DispatchCalls(now, now)
  /\ UNCHANGED <<now, labels, records, runs, reported, unrecorded, notices, valid, calls, faults>>

TogglePause ==
  /\ asked < MaxManual /\ asked' = asked + 1
  /\ labels' = (labels \ {"paused"}) \cup ({"paused"} \ labels)
  /\ UNCHANGED <<now, records, runs, reported, unrecorded, notices, valid, calls, manual, faults>>

\* People reassign or edit the definition.
Edit ==
  /\ asked < MaxManual /\ asked' = asked + 1
  /\ valid' = ~valid
  /\ UNCHANGED <<now, labels, records, runs, reported, unrecorded, notices, calls, manual, faults>>

\* The session's workflow runner posts the outcome of a run issue once.
Report(r, status) ==
  /\ r \in runs \ reported /\ reported' = reported \cup {r}
  /\ records' = records \cup {Record(r.slot, status, 0, r.manual)}
  /\ UNCHANGED <<now, labels, runs, unrecorded, notices, valid, calls, manual, asked, faults>>

\* Effects are executed within the tick they were planned in.
Tick ==
  /\ now < MaxTime /\ calls = <<>> /\ manual = <<>>
  /\ now' = now + 1
  /\ UNCHANGED <<labels, records, runs, reported, unrecorded, notices, valid, calls, manual, asked, faults>>

Init ==
  /\ now = Anchor
  /\ labels = {} /\ records = {} /\ runs = {} /\ notices = 0
  /\ reported = {} /\ unrecorded = {}
  /\ valid = TRUE
  /\ calls = <<>> /\ manual = <<>> /\ asked = 0 /\ faults = 0

Clock == BeginSweep \/ SweepCall
Reports == \E r \in runs, status \in {"ok", "failed"} : Report(r, status)

Next ==
  \/ Clock \/ ManualCall \/ SweepCallFails \/ ManualCallFails \/ Crash
  \/ RunNow \/ TogglePause \/ Edit \/ Reports \/ Tick

Spec == Init /\ [][Next]_vars

\* The resync keeps sweeping, requests finish and time passes; nobody promises
\* that a run ever reports.
FairSpec == Spec /\ WF_vars(Clock) /\ WF_vars(ManualCall) /\ WF_vars(Tick)

----------------------------------------------------------------------------
(* Properties                                                               *)

TypeOK ==
  /\ now \in 0..MaxTime
  /\ labels \subseteq LabelNames
  /\ \A r \in records : /\ r.slot \in 0..MaxTime /\ r.started \in 0..MaxTime
                        /\ r.status \in Terminal \cup {"dispatched"}
  /\ \A r \in runs : r.slot \in 0..MaxTime
  /\ valid \in BOOLEAN /\ asked \in 0..MaxManual /\ faults \in 0..MaxFaults

\* The runs of the clock, but for those whose dispatch lost its record: nothing
\* tells the clock of such a run, and its slot comes due again.
Known == {r \in runs \ unrecorded : ~r.manual}

\* The clock starts at most one such run for a slot, whatever labels fail and
\* wherever the leader changes: a slot runs again only for a record that was lost.
SlotRunsOnce == \A q, r \in Known : q.slot = r.slot => q = r

\* The clock does not start a run while another that it knows of is within its
\* budget and unreported (decision.rs: assuming the run is dead would let a
\* second dispatch start alongside a live run).
NoOverlap ==
  \A q, r \in Known :
    q.slot < r.slot => \E e \in records : e.slot = q.slot /\ e.status \in Terminal

Covered(s) ==
  now >= s /\ s > Anchor /\ valid /\ "paused" \notin labels
    => \E r \in records : r.slot >= s

Unlatched ==
  \/ "running" \notin labels \/ ~valid
  \/ \E r \in records : r.status = "dispatched" /\ r.started + Timeout > MaxTime

\* What holds of a schedule at every state: of the runs that have their record, a
\* slot has one, and they do not overlap.
ScheduleSafe == TypeOK /\ SlotRunsOnce /\ NoOverlap
=============================================================================
