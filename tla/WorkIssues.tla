---------------------------- MODULE WorkIssues ----------------------------
(* The feedback a reconcile pass leaves on the WORK issues of one repository:  *)
(* work_ack.rs (picked up, unrouted, unauthorized), pending.rs (does a session *)
(* have work) and retire.rs (a closed trigger releases its issues).            *)
(*                                                                             *)
(* A pass reads the labels of the open work issues once and derives every      *)
(* GitHub write of the acknowledgement step from that snapshot; afterwards it  *)
(* observes the pods, plans and executes. One step of the model is one GitHub  *)
(* or cluster call, so people edit issues, calls fail and the process dies     *)
(* between any two of them. Whether an author may raise work for a session     *)
(* (module SessionPolicy) is a fact of the environment here.                   *)
EXTENDS Naturals, FiniteSets

CONSTANTS
  Session,      \* sessions, numbered in trigger-issue order
  Issue,        \* open work issues, numbered
  Creator,      \* [Session -> logins]
  Watches,      \* [Session -> sets of work labels]
  Carries,      \* [Issue -> sets of work labels]
  Nobody,       \* no assignee, or more than one
  MaxFaults,    \* failed calls and crashes in a behaviour
  MaxChanges    \* edits by people in a behaviour

VARIABLES
  open,         \* sessions whose trigger issue is open
  pod,          \* [Session -> pod states]
  assignee,     \* [Issue -> sole assignee or Nobody]
  rejects,      \* {<<s, i>>: the author of i may not raise work for s}
  flags,        \* [Issue -> labels fkst has put on it]
  said,         \* [Issue -> [Notices -> comments since the label was last off]]
  regs,         \* registrations of the current pass
  calls,        \* calls the current step of the pass has still to make
  phase,        \* where the pass is
  orphans,      \* sessions this pass plans to kill and retire
  handled,      \* issues retired by the current RetireWorkIssues action
  faults, changes

vars == <<open, pod, assignee, rejects, flags, said, regs, calls, phase,
          orphans, handled, faults, changes>>
people == <<open, assignee, rejects, changes>>

Logins == {Creator[s] : s \in Session}
Pods == {"none", "live", "terminal", "terminating"}
Labels == {"unrouted", "unauthorized", "picked_up", "retired"}
Notices == Labels \X (Session \cup {0})

----------------------------------------------------------------------------
(* Routing, authority and the calls they lead to                            *)

Matches(s, i) == Watches[s] \cap Carries[i] # {}

\* Exactly one assignee, and it is the session's creator.
Routed(s, i) == Matches(s, i) /\ assignee[i] = Creator[s]

Allowed(s, i) == <<s, i>> \notin rejects

\* has_pending: some issue is routed to the session and its author is allowed.
HasPending(s) == \E i \in Issue : Routed(s, i) /\ Allowed(s, i)

Call(act, what, s, i) == [act |-> act, what |-> what, s |-> s, i |-> i]

\* The steps of a pass go over the sessions, within a session over the issues,
\* and have an order of their own for one issue. Session 0 comes first: it
\* stands for the decisions about an issue over all sessions, and for the
\* issues a listing has found, which are gone through at once.
Rank(c) ==
  CASE c.act = "remove" -> IF c.what = "picked_up" THEN 4 ELSE 0
    [] c.act \in {"latch", "kill", "spawn"} -> 1
    [] c.act \in {"say", "mint"} -> 2
    [] c.act \in {"add", "list"} -> 3

Before(c, d) ==
  \/ c.s < d.s
  \/ c.s = d.s /\ c.i < d.i
  \/ c.s = d.s /\ c.i = d.i /\ Rank(c) < Rank(d)

\* Mutant: the label of a routed issue stays.
UnroutedNeverCleared(i, rs) ==
  IF (\E s \in rs : Routed(s, i)) \/ "unrouted" \in flags[i] THEN {}
  ELSE {Call("latch", "unrouted", 0, i), Call("say", "unrouted", 0, i)}

\* The unrouted surface is decided once per issue over all registrations.
UnroutedCalls(i, rs) ==
  LET routed == \E s \in rs : Routed(s, i) IN
  CASE routed /\ "unrouted" \in flags[i] -> {Call("remove", "unrouted", 0, i)}
    [] ~routed /\ "unrouted" \notin flags[i] ->
         {Call("latch", "unrouted", 0, i), Call("say", "unrouted", 0, i)}
    [] OTHER -> {}

\* Mutant: the comment goes out before the label is on.
RejectCommentFirst(s, i) ==
  IF "unauthorized" \in flags[i] THEN {}
  ELSE {Call("say", "unauthorized", s, i), Call("add", "unauthorized", s, i)}

\* A rejected author gets the label and, once it is on, the comment.
RejectCalls(s, i) ==
  IF "unauthorized" \in flags[i] THEN {}
  ELSE {Call("latch", "unauthorized", s, i), Call("say", "unauthorized", s, i)}

AckCalls(s, i) ==
  (IF "unauthorized" \in flags[i] THEN {Call("remove", "unauthorized", s, i)} ELSE {})
    \cup (IF "picked_up" \in flags[i] THEN {}
          ELSE {Call("say", "picked_up", s, i), Call("add", "picked_up", s, i)})

SessionCalls(s, i) ==
  IF ~Routed(s, i) THEN {}
  ELSE IF Allowed(s, i) THEN AckCalls(s, i) ELSE RejectCalls(s, i)

AckPlan(rs, seen) ==
  UNION {UnroutedCalls(i, rs) \cup UNION {SessionCalls(s, i) : s \in rs} : i \in seen}

\* retire_issue: notice, durable latch, then the claim goes.
RetireCalls(i) ==
  {Call("say", "retired", 0, i), Call("add", "retired", 0, i), Call("remove", "picked_up", 0, i)}

----------------------------------------------------------------------------
(* The pass                                                                 *)

WatchedBy(rs) == UNION {Watches[s] : s \in rs}

\* The registrations are those of the open triggers. Without any, nothing is
\* listed; a label whose listing fails hides the issues only it would show.
BeginPass ==
  /\ phase = "idle"
  /\ regs' = open /\ orphans' = {}
  /\ phase' = "ack"
  /\ \E failed \in SUBSET WatchedBy(open) :
       /\ faults + Cardinality(failed) <= MaxFaults
       /\ faults' = faults + Cardinality(failed)
       /\ calls' = AckPlan(open, {i \in Issue :
            Carries[i] \cap (WatchedBy(open) \ failed) # {}})
  /\ UNCHANGED <<open, pod, assignee, rejects, flags, said, handled, changes>>

\* The planner's answer for a session, from the pods observed now and the
\* registrations read when the pass began. An orphan is killed and, in the same
\* cycle, its work issues are retired; an idle session is killed and a finished
\* pod is cleaned up without that.
PlanFor(s) ==
  CASE s \notin regs /\ pod[s] = "live" ->
         {Call("kill", "orphan", s, 0), Call("mint", "retire", s, 0)}
    [] s \in regs /\ pod[s] = "none" /\ HasPending(s) -> {Call("spawn", "pod", s, 0)}
    [] s \in regs /\ pod[s] = "live" /\ ~HasPending(s) -> {Call("kill", "idle", s, 0)}
    [] pod[s] = "terminal" -> {Call("kill", "terminal", s, 0)}
    [] OTHER -> {}

Plan ==
  /\ phase = "ack" /\ calls = {}
  /\ phase' = "execute"
  /\ orphans' = {s \in Session \ regs : pod[s] = "live"}
  /\ calls' = UNION {PlanFor(s) : s \in Session}
  /\ UNCHANGED <<people, pod, flags, said, regs, handled, faults>>

EndPass ==
  /\ phase = "execute" /\ calls = {}
  /\ phase' = "idle"
  /\ UNCHANGED <<people, pod, flags, said, regs, calls, orphans, handled, faults>>

\* The call the pass makes next; the labels of a session are listed in any order.
Now == {c \in calls : \A d \in calls : ~Before(d, c)}

\* A label or comment call that GitHub accepts. Taking a label off starts a new
\* period for its notice.
WriteIssue(c) ==
  /\ c.act \in {"latch", "add", "say", "remove"}
  /\ calls' = calls \ {c}
  /\ flags' = CASE c.act \in {"latch", "add"} -> [flags EXCEPT ![c.i] = @ \cup {c.what}]
                [] c.act = "remove" -> [flags EXCEPT ![c.i] = @ \ {c.what}]
                [] c.act = "say" -> flags
  /\ said' = CASE c.act = "say" -> [said EXCEPT ![c.i][<<c.what, c.s>>] = @ + 1]
               [] c.act = "remove" ->
                    [said EXCEPT ![c.i] = [n \in Notices |-> IF n[1] = c.what THEN 0 ELSE @[n]]]
               [] c.act \in {"latch", "add"} -> said
  /\ UNCHANGED <<people, pod, regs, phase, orphans, handled, faults>>

\* A call is refused. A latch that could not be set takes its comment with it;
\* every other failure is logged and the pass goes on.
Refused(c) ==
  IF c.act = "latch" THEN calls \ {c, Call("say", c.what, c.s, c.i)} ELSE calls \ {c}
CallFails(c) ==
  /\ faults < MaxFaults /\ faults' = faults + 1
  /\ calls' = Refused(c)
  /\ UNCHANGED <<people, pod, flags, said, regs, phase, orphans, handled>>

Kill(c) ==
  /\ c.act = "kill"
  /\ pod' = [pod EXCEPT ![c.s] = "terminating"]
  /\ calls' = calls \ {c}
  /\ UNCHANGED <<people, flags, said, regs, phase, orphans, handled, faults>>

Spawn(c) ==
  /\ c.act = "spawn"
  /\ pod' = [pod EXCEPT ![c.s] = "live"]
  /\ calls' = calls \ {c}
  /\ UNCHANGED <<people, flags, said, regs, phase, orphans, handled, faults>>

\* retire_work_issues: one token, then one listing per label of the session.
MintForRetire(c) ==
  /\ c.act = "mint"
  /\ handled' = {}
  /\ calls' = (calls \ {c}) \cup {Call("list", label, c.s, 0) : label \in Watches[c.s]}
  /\ UNCHANGED <<people, pod, flags, said, regs, phase, orphans, faults>>

\* Which listed issues are retired: not yet latched, not handled under a
\* sibling label of the same action.
ToRetire(label) ==
  {i \in Issue : label \in Carries[i] /\ i \notin handled /\ "retired" \notin flags[i]}

RetireListed(c) ==
  /\ c.act = "list"
  /\ handled' = handled \cup ToRetire(c.what)
  /\ calls' = (calls \ {c}) \cup UNION {RetireCalls(i) : i \in ToRetire(c.what)}
  /\ UNCHANGED <<people, pod, flags, said, regs, phase, orphans, faults>>

\* The cluster removes a terminating pod.
PodGone(s) ==
  /\ pod[s] = "terminating"
  /\ pod' = [pod EXCEPT ![s] = "none"]
  /\ UNCHANGED <<people, flags, said, regs, calls, phase, orphans, handled, faults>>

\* The session's own process ends.
PodExits(s) ==
  /\ pod[s] = "live" /\ faults < MaxFaults /\ faults' = faults + 1
  /\ pod' = [pod EXCEPT ![s] = "terminal"]
  /\ UNCHANGED <<people, flags, said, regs, calls, phase, orphans, handled>>

\* The process dies or loses leadership: the rest of the pass is not executed.
Crash ==
  /\ phase # "idle" /\ faults < MaxFaults
  /\ faults' = faults + 1
  /\ phase' = "idle" /\ calls' = {}
  /\ UNCHANGED <<people, pod, flags, said, regs, orphans, handled>>

(* People: close or reopen a trigger, assign an issue, edit collaborators.  *)
People ==
  /\ changes < MaxChanges /\ changes' = changes + 1
  /\ \/ \E s \in Session : /\ open' = (open \ {s}) \cup ({s} \ open)
                           /\ UNCHANGED <<assignee, rejects>>
     \/ \E i \in Issue, a \in Logins \cup {Nobody} :
          /\ a # assignee[i]
          /\ assignee' = [assignee EXCEPT ![i] = a]
          /\ UNCHANGED <<open, rejects>>
     \/ \E s \in Session, i \in Issue :
          /\ rejects' = (rejects \ {<<s, i>>}) \cup ({<<s, i>>} \ rejects)
          /\ UNCHANGED <<open, assignee>>
  /\ UNCHANGED <<pod, flags, said, regs, calls, phase, orphans, handled, faults>>

Init ==
  /\ open = Session
  /\ pod = [s \in Session |-> "none"]
  /\ assignee \in [Issue -> {Nobody, Creator[1]}]
  /\ rejects \in SUBSET {<<1, i>> : i \in Issue}
  /\ flags = [i \in Issue |-> {}]
  /\ said = [i \in Issue |-> [n \in Notices |-> 0]]
  /\ regs = {} /\ calls = {} /\ phase = "idle" /\ orphans = {} /\ handled = {}
  /\ faults = 0 /\ changes = 0

PassStep ==
  \/ BeginPass \/ Plan \/ EndPass
  \/ \E c \in Now : WriteIssue(c) \/ Kill(c) \/ Spawn(c) \/ MintForRetire(c) \/ RetireListed(c)

Next ==
  \/ PassStep \/ Crash \/ People
  \/ \E c \in Now : CallFails(c)
  \/ \E s \in Session : PodGone(s) \/ PodExits(s)

Spec == Init /\ [][Next]_vars

\* The webhook, the pod sweep and the resync keep starting passes, and every
\* call returns; the kubelet removes a deleted pod.
FairSpec ==
  Spec /\ WF_vars(PassStep) /\ \A s \in Session : WF_vars(PodGone(s))

----------------------------------------------------------------------------
(* Properties                                                               *)

TypeOK ==
  /\ open \subseteq Session /\ regs \subseteq Session
  /\ pod \in [Session -> Pods]
  /\ assignee \in [Issue -> Logins \cup {Nobody}]
  /\ rejects \subseteq Session \X Issue
  /\ flags \in [Issue -> SUBSET Labels]
  /\ said \in [Issue -> [Notices -> Nat]]
  /\ \A c \in calls : c.s \in Session \cup {0} /\ c.i \in Issue \cup {0}
  /\ phase \in {"idle", "ack", "execute"}
  /\ orphans \subseteq Session /\ handled \subseteq Issue
  /\ faults \in 0..MaxFaults /\ changes \in 0..MaxChanges

\* Between two removals of its label, a notice is posted at most once: the
\* unrouted notice per issue and the rejection per session and issue, whatever
\* calls fail and wherever the process dies. (work_ack.rs: label first, comment
\* only behind it.)
NoticeOnce ==
  \A i \in Issue, n \in Notices : n[1] \in {"unrouted", "unauthorized"} => said[i][n] <= 1

\* All routed sessions agree about the author of an issue.
Agreed(i) == \A s, t \in open : Routed(s, i) /\ Routed(t, i) => (Allowed(s, i) <=> Allowed(t, i))

\* The labels of an issue tell the truth: claimed and clean if an open session
\* accepts it, marked unauthorized if its session rejects it, marked unrouted if
\* some session watches it and none owns it.
Truthful(i) ==
  LET routed == {s \in open : Routed(s, i)} IN
  /\ Agreed(i) /\ routed # {}
       => /\ "unrouted" \notin flags[i]
          /\ (\E s \in routed : Allowed(s, i))
               => "picked_up" \in flags[i] /\ "unauthorized" \notin flags[i]
          /\ (\E s \in routed : ~Allowed(s, i)) => "unauthorized" \in flags[i]
  /\ (\E s \in open : Matches(s, i)) /\ routed = {} => "unrouted" \in flags[i]

\* An open session with accepted work has a pod, a closed one has none.
PodRight(s) ==
  /\ s \in open /\ (\E i \in Issue : Routed(s, i) /\ Allowed(s, i)) => pod[s] = "live"
  /\ s \notin open => pod[s] = "none"

\* The end of a pass in which nothing has failed so far.
CleanEnd == phase = "execute" /\ calls = {} /\ faults = 0

\* Retiring a session reaches every open issue that carries any of its labels,
\* whoever it is assigned to (retire_open_work_issues over every label, with
\* the sibling-label deduplication).
RetireNotifies ==
  CleanEnd => \A s \in orphans, i \in Issue : Matches(s, i) => "retired" \in flags[i]

\* What holds of the work issues at every state: notices are not repeated, and
\* retiring a session reaches all its work.
WorkSafe == TypeOK /\ NoticeOnce /\ RetireNotifies
=============================================================================
