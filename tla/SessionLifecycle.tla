-------------------------- MODULE SessionLifecycle --------------------------
(***************************************************************************)
(* One repository's reconcile pass (reconcile/repo.rs, desired.rs,         *)
(* execute*.rs) against GitHub trigger issues and Kubernetes session pods. *)
(*                                                                         *)
(* A pass lists the open trigger issues, classifies them, observes pods    *)
(* and queued work, plans a set of calls and makes them one by one, best   *)
(* effort.  Durable state is only the issues' labels and comments and the  *)
(* pods; between any two calls an author may edit, a pod may change, a     *)
(* call may fail or stay unanswered, and the process may die.              *)
(***************************************************************************)
EXTENDS Integers, FiniteSets

CONSTANTS
  Issue,          \* trigger issue numbers of the repository
  Config,         \* trigger bodies; a body is identified with full_config_hash
  Malformed,      \* the bodies that parse_trigger_issue_body rejects
  LaunchHash,     \* config_hash: the launch inputs of a body
  WorkLabels,     \* the effective work labels of a body
  Creator,        \* the effective creator of an issue
  IdleGrace,      \* session_idle_grace_secs, in clock steps
  MinLifetime,    \* pod_min_lifetime_secs, in clock steps
  Faults,         \* the kinds of fault this instance may inject
  MaxFaults,      \* bound: faults per behaviour
  Changes,        \* the kinds of change authors and the environment may make
  MaxChanges,     \* bound: such changes per behaviour
  MaxNotices      \* bound: where the count of notices saturates

NoConfig == "no config"

ASSUME LifecycleAssumption ==
  /\ Issue \subseteq Nat /\ IsFiniteSet(Issue)
  /\ Malformed \subseteq Config /\ NoConfig \notin Config
  /\ IdleGrace \in Nat /\ MinLifetime \in Nat
  /\ MaxFaults \in Nat /\ MaxChanges \in Nat /\ MaxNotices \in Nat

VARIABLES
  issue,    \* the trigger issues on GitHub, with their latch labels and notices
  pod,      \* the session pod of each issue (its name is derived from the issue)
  secret,   \* the pod's credentials Secret: none, the pod's own, or a stale one
  world,    \* what else decides a session: authority, work, packages, manifest
  pc,       \* the worker: between passes, listed, or executing its plan
  snap,     \* what the pass read from the trigger issues
  todo,     \* the calls of the plan still to be made
  faults,   \* faults so far
  changes   \* changes so far

vars == <<issue, pod, secret, world, pc, snap, todo, faults, changes>>

Latches == {"invalid", "announced", "rejected", "unauthorized"}

Notices == Latches \cup {"unreachable", "environment"}

Lives == {"absent", "starting", "live", "terminating", "terminal"}

\* marker: the first config hash posted in an announcement, which is the one
\* parse_config_hash_marker finds.  notices: comments posted, by kind (those of
\* a clearable latch since it was last clear).
Issues ==
  [open : BOOLEAN, config : Config, latches : SUBSET Latches,
   marker : Config \cup {NoConfig}, notices : [Notices -> 0..MaxNotices]]

\* idle: clock steps since last-pending-at (or creation); age: since creation.
Pods == [life : Lives, config : Config \cup {NoConfig}, idle : 0..IdleGrace, age : 0..MinLifetime]

Worlds ==
  [authority : {"authorized", "unauthorized", "blocked"}, work : BOOLEAN,
   reachable : BOOLEAN, broken : {"nothing", "manifest", "source_branch"}]

Kinds == {"none", "registration", "invalid", "unauthorized"}

Snaps ==
  [kind : Kinds, config : Config \cup {NoConfig}, authorized : BOOLEAN,
   latches : SUBSET Latches, hash : Config \cup {NoConfig}]

Ops ==
  {"spawn", "unreachable_comment", "unreachable_label", "environment_comment", "create_pod",
   "create_secret", "touch", "kill_drift", "kill_idle", "cleanup",
   "announce_comment", "announce_label", "reject_comment", "reject_label",
   "kill_orphan", "cleanup_orphan", "invalid_comment", "invalid_label", "clear_invalid",
   "unauthorized_label", "unauthorized_comment", "clear_unauthorized"}

Calls == [op : Ops, issue : Issue, config : Config \cup {NoConfig}]

TypeOK ==
  /\ issue \in [Issue -> Issues]
  /\ pod \in [Issue -> Pods]
  /\ secret \in [Issue -> {"none", "own", "stale"}]
  /\ world \in [Issue -> Worlds]
  /\ pc \in {"idle", "listed", "executing"}
  /\ snap \in [Issue -> Snaps]
  /\ todo \in SUBSET Calls
  /\ faults \in 0..MaxFaults
  /\ changes \in 0..MaxChanges

NoPod == [life |-> "absent", config |-> NoConfig, idle |-> 0, age |-> 0]

NoSnap ==
  [kind |-> "none", config |-> NoConfig, authorized |-> FALSE, latches |-> {}, hash |-> NoConfig]

\* A repository whose triggers have just been opened and never reconciled.
Init ==
  /\ \E body \in [Issue -> Config] :
       issue = [i \in Issue |->
         [open |-> TRUE, config |-> body[i], latches |-> {}, marker |-> NoConfig,
          notices |-> [k \in Notices |-> 0]]]
  /\ pod = [i \in Issue |-> NoPod]
  /\ secret = [i \in Issue |-> "none"]
  /\ world = [i \in Issue |->
       [authority |-> "authorized", work |-> TRUE, reachable |-> TRUE, broken |-> "nothing"]]
  /\ pc = "idle"
  /\ snap = [i \in Issue |-> NoSnap]
  /\ todo = {}
  /\ faults = 0
  /\ changes = 0
-----------------------------------------------------------------------------
\* A fault of kind k happens, or none does.
Fault(k) == k \in Faults /\ faults < MaxFaults /\ faults' = faults + 1

NoFault == faults' = faults

\* classify_triggers on one issue: the silent access policy, then the creator
\* gate, then the body.  A gate that cannot be asked (deferred) keeps an
\* announced registration and skips any other one.
Classify(i, deferred) ==
  LET parsed == IF issue[i].config \in Malformed THEN "invalid" ELSE "registration"
  IN CASE ~issue[i].open \/ world[i].authority = "blocked" -> "none"
       [] deferred -> IF "announced" \in issue[i].latches THEN parsed ELSE "none"
       [] ~deferred /\ world[i].authority = "unauthorized" -> "unauthorized"
       [] OTHER -> parsed

\* The config hash latched for an announced registration; none when the
\* comments cannot be read this cycle (unread) or carry no marker.
LatchedHash(i, kind, unread) ==
  IF kind = "registration" /\ "announced" \in issue[i].latches /\ ~unread
  THEN issue[i].marker ELSE NoConfig

\* Steps 1-2 of reconcile_repo: list the open triggers, classify them and read
\* the config-hash markers of the announced ones.
ListTriggers ==
  /\ pc = "idle"
  /\ \E deferred, unread \in SUBSET Issue :
       /\ \/ deferred = {} /\ unread = {} /\ NoFault
          \/ unread = {} /\ Cardinality(deferred) = 1 /\ Fault("authority_check")
          \/ deferred = {} /\ Cardinality(unread) = 1 /\ Fault("comments_read")
       /\ snap' = [i \in Issue |->
            LET kind == Classify(i, i \in deferred)
            IN [kind |-> kind,
                config |-> issue[i].config,
                authorized |-> kind \in {"registration", "invalid"} /\ i \notin deferred,
                latches |-> issue[i].latches,
                hash |-> LatchedHash(i, kind, i \in unread)]]
  /\ pc' = "listed"
  /\ UNCHANGED <<issue, pod, secret, world, todo, changes>>

\* A later read of the pass fails: nothing has been planned, nothing changes.
PassFails ==
  /\ pc = "listed"
  /\ Fault("read")
  /\ pc' = "idle"
  /\ snap' = [i \in Issue |-> NoSnap]
  /\ UNCHANGED <<issue, pod, secret, world, todo, changes>>
-----------------------------------------------------------------------------
\* detect_work_label_collisions: the lowest issue number of a creator owns each
\* label; an issue that loses one of its labels is demoted.
LosesCollision(i, regs) ==
  \E j \in regs : /\ j < i
                  /\ Creator[j] = Creator[i]
                  /\ WorkLabels[snap[j].config] \cap WorkLabels[snap[i].config] # {}

Parsed == {i \in Issue : snap[i].kind = "registration"}

\* Mutant: no collision check.
RegistrationsWithCollisions ==
  {i \in Parsed : world[i].broken = "nothing" /\ WorkLabels[snap[i].config] # {}}

\* Demotions: a manifest that does not expand or no work label, then collisions,
\* then a missing source branch.
Registrations ==
  LET expanded == {i \in Parsed : /\ world[i].broken # "manifest"
                                  /\ WorkLabels[snap[i].config] # {}}
      winners == {i \in expanded : ~LosesCollision(i, expanded)}
  IN {i \in winners : world[i].broken # "source_branch"}

Invalid == {i \in Issue : snap[i].kind = "invalid"} \cup (Parsed \ Registrations)

\* Mutants: only launch inputs are immutable; a missing marker counts as a change.
RejectedOnLaunchChange(i) ==
  snap[i].hash # NoConfig /\ LaunchHash[snap[i].hash] # LaunchHash[snap[i].config]

RejectedWithoutMarker(i) == snap[i].hash # snap[i].config

\* config_change_rejected: the body differs from the one announced.
Rejected(i) == snap[i].hash # NoConfig /\ snap[i].hash # snap[i].config

\* config_drifted and idle_kill_due.
Drifted(i) == LaunchHash[pod[i].config] # LaunchHash[snap[i].config]

\* Mutant: the minimum lifetime shields old pods instead of young ones.
IdleKillDueWhileYoung(i) == pod[i].idle >= IdleGrace /\ pod[i].age < MinLifetime

IdleKillDue(i) == pod[i].idle >= IdleGrace /\ pod[i].age >= MinLifetime

Running(i) == pod[i].life \in {"starting", "live"}

CallsFor(ops, issues) ==
  {[op |-> op, issue |-> i, config |-> snap[i].config] : op \in ops, i \in issues}

\* plan_repo and plan_trigger_authorization over the snapshot, the pods and the
\* queued work.
Plan ==
  LET regs == Registrations
      orphans == Issue \ regs
      drift == {i \in regs : Running(i) /\ Drifted(i) /\ ~Rejected(i)}
      serving == {i \in regs : Running(i)} \ drift
      latched(l) == {i \in Issue : l \in snap[i].latches}
  IN UNION {
       CallsFor({"spawn"}, {i \in regs : pod[i].life = "absent" /\ world[i].work /\ ~Rejected(i)}),
       CallsFor({"kill_drift"}, drift),
       CallsFor({"touch"}, {i \in serving : world[i].work}),
       CallsFor({"kill_idle"}, {i \in serving : ~world[i].work /\ IdleKillDue(i)}),
       CallsFor({"cleanup"}, {i \in regs : pod[i].life = "terminal"}),
       CallsFor({"announce_comment", "announce_label"}, regs \ latched("announced")),
       CallsFor({"reject_comment", "reject_label"},
                {i \in regs : Rejected(i)} \ latched("rejected")),
       CallsFor({"kill_orphan"}, {i \in orphans : Running(i)}),
       CallsFor({"cleanup_orphan"}, {i \in orphans : pod[i].life = "terminal"}),
       CallsFor({"invalid_comment", "invalid_label"}, Invalid \ latched("invalid")),
       CallsFor({"clear_invalid"}, regs \cap latched("invalid")),
       CallsFor({"unauthorized_label", "unauthorized_comment"},
                {i \in Issue : snap[i].kind = "unauthorized"} \ latched("unauthorized")),
       CallsFor({"clear_unauthorized"},
                {i \in Issue : snap[i].authorized} \cap latched("unauthorized"))}

\* Steps 3-5: observe the pods, gate on work, plan.
PlanRepo ==
  /\ pc = "listed"
  /\ todo' = Plan
  /\ pc' = "executing"
  /\ snap' = [i \in Issue |-> NoSnap]
  /\ UNCHANGED <<issue, pod, secret, world, faults, changes>>

\* The order in which the plan lists its actions and an action makes its calls.
Section(op) ==
  CASE op \in {"spawn", "unreachable_comment", "unreachable_label", "environment_comment",
               "create_pod", "create_secret", "touch", "kill_drift", "kill_idle", "cleanup"} -> 1
    [] op \in {"announce_comment", "announce_label"} -> 2
    [] op \in {"reject_comment", "reject_label"} -> 3
    [] op \in {"kill_orphan", "cleanup_orphan"} -> 4
    [] op \in {"invalid_comment", "invalid_label"} -> 5
    [] op = "clear_invalid" -> 6
    [] op \in {"unauthorized_label", "unauthorized_comment"} -> 7
    [] op = "clear_unauthorized" -> 8

\* Mutants: every latch before its comment, every comment before its latch.
SecondLabelFirst == {"announce_comment", "reject_comment", "invalid_comment",
                     "unreachable_comment", "unauthorized_comment"}

Second == {"announce_label", "reject_label", "invalid_label", "unreachable_label",
           "unauthorized_comment"}

\* GitHub lists the newest issue first; the two clearing loops are sorted.
Before(c, d) ==
  \/ Section(c.op) < Section(d.op)
  \/ /\ Section(c.op) = Section(d.op)
     /\ \/ IF Section(c.op) \in {6, 8} THEN c.issue < d.issue ELSE c.issue > d.issue
        \/ c.issue = d.issue /\ c.op \notin Second /\ d.op \in Second

\* c is the next call of the plan.
NextCall(c) ==
  /\ pc = "executing"
  /\ \A d \in todo \ {c} : Before(c, d)

\* A pass ends when its plan has been carried out.
EndPass ==
  /\ pc = "executing"
  /\ todo = {}
  /\ pc' = "idle"
  /\ UNCHANGED <<issue, pod, secret, world, snap, todo, faults, changes>>
-----------------------------------------------------------------------------
CommentKind(op) ==
  CASE op = "announce_comment" -> "announced"
    [] op = "reject_comment" -> "rejected"
    [] op = "invalid_comment" -> "invalid"
    [] op = "unreachable_comment" -> "unreachable"
    [] op = "unauthorized_comment" -> "unauthorized"
    [] op = "environment_comment" -> "environment"
    [] OTHER -> "none"

LatchKind(op) ==
  CASE op = "announce_label" -> "announced"
    [] op = "reject_label" -> "rejected"
    [] op \in {"invalid_label", "unreachable_label"} -> "invalid"
    [] op = "unauthorized_label" -> "unauthorized"
    [] OTHER -> "none"

ClearKind(op) ==
  CASE op = "clear_invalid" -> "invalid"
    [] op = "clear_unauthorized" -> "unauthorized"
    [] OTHER -> "none"

\* The comment of kind k reaches the issue; an announcement carries the hash.
Posted(rec, k, config) ==
  [rec EXCEPT !.notices[k] = IF @ < MaxNotices THEN @ + 1 ELSE @,
              !.marker = IF k = "announced" /\ @ = NoConfig THEN config ELSE @]

\* post_comment_best_effort: a failure is logged and the plan goes on; the comment
\* may have been posted although the answer was lost.
PostComment(c) ==
  /\ NextCall(c) /\ CommentKind(c.op) # "none"
  /\ \/ /\ NoFault
        /\ issue' = [issue EXCEPT ![c.issue] = Posted(@, CommentKind(c.op), c.config)]
     \/ /\ Fault("comment")
        /\ \/ UNCHANGED issue
           \/ issue' = [issue EXCEPT ![c.issue] = Posted(@, CommentKind(c.op), c.config)]
  /\ todo' = todo \ {c}
  /\ UNCHANGED <<pod, secret, world, pc, snap, changes>>

\* add_issue_labels.  A failed latch of the unauthorized label skips its
\* comment; every other latch is written after its comment.
AddLatch(c) ==
  /\ NextCall(c) /\ LatchKind(c.op) # "none"
  /\ \/ /\ NoFault
        /\ issue' = [issue EXCEPT ![c.issue].latches = @ \cup {LatchKind(c.op)}]
        /\ todo' = todo \ {c}
     \/ /\ Fault("label")
        /\ \/ UNCHANGED issue
           \/ issue' = [issue EXCEPT ![c.issue].latches = @ \cup {LatchKind(c.op)}]
        /\ todo' = {d \in todo \ {c} :
             ~(c.op = "unauthorized_label" /\ d.op = "unauthorized_comment" /\ d.issue = c.issue)}
  /\ UNCHANGED <<pod, secret, world, pc, snap, changes>>

\* clear_invalid, clear_trigger_unauthorized: 404-tolerant removal of a latch.
RemoveLatch(c) ==
  LET removed == [issue EXCEPT ![c.issue].latches = @ \ {ClearKind(c.op)},
                               ![c.issue].notices[ClearKind(c.op)] = 0]
  IN /\ NextCall(c) /\ ClearKind(c.op) # "none"
     /\ \/ NoFault /\ issue' = removed
        \/ Fault("label") /\ issue' \in {issue, removed}
     /\ todo' = todo \ {c}
     /\ UNCHANGED <<pod, secret, world, pc, snap, changes>>

\* spawn_session up to the runtime call: packages that are unreachable or lack the
\* isolation rule flag the issue; a branch or token that cannot be had skips the
\* spawn, a blocked environment skips it with an unlatched comment.
SpawnPreflight(c) ==
  /\ NextCall(c) /\ c.op = "spawn"
  /\ \/ /\ world[c.issue].reachable /\ NoFault
        /\ todo' = (todo \ {c}) \cup {[c EXCEPT !.op = "create_pod"]}
     \/ /\ ~world[c.issue].reachable /\ NoFault
        /\ todo' = (todo \ {c}) \cup {[c EXCEPT !.op = "unreachable_comment"],
                                      [c EXCEPT !.op = "unreachable_label"]}
     \/ /\ Fault("preflight")
        /\ \/ todo' = todo \ {c}
           \/ todo' = (todo \ {c}) \cup {[c EXCEPT !.op = "environment_comment"]}
  /\ UNCHANGED <<issue, pod, secret, world, pc, snap, changes>>

\* create_session_pod, first half: create the Pod; 409 is an already-live no-op
\* and makes no Secret.  An answer that is lost leaves the Pod behind.
CreatePod(c) ==
  LET create == IF pod[c.issue].life = "absent"
                THEN [pod EXCEPT ![c.issue] =
                        [life |-> "starting", config |-> c.config, idle |-> 0, age |-> 0]]
                ELSE pod
  IN /\ NextCall(c) /\ c.op = "create_pod"
     /\ \/ /\ NoFault
           /\ pod' = create
           /\ todo' = (todo \ {c}) \cup
                (IF pod[c.issue].life = "absent" THEN {[c EXCEPT !.op = "create_secret"]} ELSE {})
        \/ /\ Fault("pod")
           /\ pod' \in {pod, create}
           /\ todo' = todo \ {c}
     /\ UNCHANGED <<issue, secret, world, pc, snap, changes>>

\* create_session_pod, second half: the Secret, owned by the Pod just made; a
\* Secret of that name that still exists is reused.
CreateSecret(c) ==
  /\ NextCall(c) /\ c.op = "create_secret"
  /\ \/ /\ NoFault
        /\ secret' = [secret EXCEPT ![c.issue] = IF @ = "none" THEN "own" ELSE @]
     \/ /\ Fault("secret")
        /\ secret' \in {secret, [secret EXCEPT ![c.issue] = IF @ = "none" THEN "own" ELSE @]}
  /\ todo' = todo \ {c}
  /\ UNCHANGED <<issue, pod, world, pc, snap, changes>>

\* mark_pending: 404-tolerant refresh of last-pending-at.  The credential
\* recovery that follows it in the plan is a no-op on Kubernetes.
TouchPending(c) ==
  /\ NextCall(c) /\ c.op = "touch"
  /\ LET touched == IF pod[c.issue].life = "absent" THEN pod
                    ELSE [pod EXCEPT ![c.issue].idle = 0]
     IN \/ NoFault /\ pod' = touched
        \/ Fault("pod") /\ pod' \in {pod, touched}
  /\ todo' = todo \ {c}
  /\ UNCHANGED <<issue, secret, world, pc, snap, changes>>

\* stop_session and remove_terminal: 404-tolerant deletes by name.
DeletePod(c) ==
  /\ NextCall(c)
  /\ c.op \in {"kill_drift", "kill_idle", "kill_orphan", "cleanup", "cleanup_orphan"}
  /\ LET deleted == IF pod[c.issue].life = "absent" THEN pod
                    ELSE [pod EXCEPT ![c.issue].life = "terminating"]
     IN \/ NoFault /\ pod' = deleted
        \/ Fault("pod") /\ pod' \in {pod, deleted}
  /\ todo' = todo \ {c}
  /\ UNCHANGED <<issue, secret, world, pc, snap, changes>>

\* The process dies or its worker generation is aborted: the rest of the plan
\* is forgotten.
Crash ==
  /\ pc # "idle"
  /\ Fault("crash")
  /\ pc' = "idle"
  /\ todo' = {}
  /\ snap' = [i \in Issue |-> NoSnap]
  /\ UNCHANGED <<issue, pod, secret, world, changes>>
-----------------------------------------------------------------------------
\* The kubelet starts a pod once its Secret can be mounted.
PodStarts(i) ==
  /\ pod[i].life = "starting"
  /\ secret[i] # "none"
  /\ pod' = [pod EXCEPT ![i].life = "live"]
  /\ UNCHANGED <<issue, secret, world, pc, snap, todo, faults, changes>>

\* A pod is evicted or fails: it reaches a terminal phase.
PodFails(i) ==
  /\ Running(i)
  /\ Fault("pod_fails")
  /\ pod' = [pod EXCEPT ![i].life = "terminal"]
  /\ UNCHANGED <<issue, secret, world, pc, snap, todo, changes>>

\* The grace period is over.  The Secret is collected with its owner, at once
\* or (collector lag) some time later.
PodGone(i) ==
  /\ pod[i].life = "terminating"
  /\ pod' = [pod EXCEPT ![i] = NoPod]
  /\ \/ /\ NoFault
        /\ secret' = [secret EXCEPT ![i] = "none"]
     \/ /\ secret[i] # "none"
        /\ Fault("collector_lag")
        /\ secret' = [secret EXCEPT ![i] = "stale"]
  /\ UNCHANGED <<issue, world, pc, snap, todo, changes>>

\* The collector removes a Secret whose owner is gone.
CollectSecret(i) ==
  /\ secret[i] = "stale"
  /\ secret' = [secret EXCEPT ![i] = "none"]
  /\ UNCHANGED <<issue, pod, world, pc, snap, todo, faults, changes>>

\* Time passes for the pods; past its thresholds the clock no longer matters.
Aged(p) ==
  IF p.life \in {"starting", "live"}
  THEN [p EXCEPT !.idle = IF @ < IdleGrace THEN @ + 1 ELSE @,
                 !.age = IF @ < MinLifetime THEN @ + 1 ELSE @]
  ELSE p

Tick ==
  /\ pod' = [i \in Issue |-> Aged(pod[i])]
  /\ pod' # pod
  /\ UNCHANGED <<issue, secret, world, pc, snap, todo, faults, changes>>
-----------------------------------------------------------------------------
Change(k) == k \in Changes /\ changes < MaxChanges /\ changes' = changes + 1

EditIssue(i) ==
  /\ \/ /\ Change("edit")
        /\ \E c \in Config \ {issue[i].config} : issue' = [issue EXCEPT ![i].config = c]
     \/ /\ Change("close")
        /\ issue[i].open
        /\ issue' = [issue EXCEPT ![i].open = FALSE]
     \/ /\ Change("reopen")
        /\ ~issue[i].open
        /\ issue' = [issue EXCEPT ![i].open = TRUE]
  /\ UNCHANGED <<pod, secret, world, pc, snap, todo, faults>>

ChangeWorld(i) ==
  /\ \/ /\ Change("authority")
        /\ \E a \in {"authorized", "unauthorized", "blocked"} \ {world[i].authority} :
             world' = [world EXCEPT ![i].authority = a]
     \/ /\ Change("work")
        /\ world' = [world EXCEPT ![i].work = ~@]
     \/ /\ Change("reachable")
        /\ world' = [world EXCEPT ![i].reachable = ~@]
     \/ /\ Change("broken")
        /\ \E b \in {"nothing", "manifest", "source_branch"} \ {world[i].broken} :
             world' = [world EXCEPT ![i].broken = b]
  /\ UNCHANGED <<issue, pod, secret, pc, snap, todo, faults>>

MakeCall(c) ==
  \/ PostComment(c) \/ AddLatch(c) \/ RemoveLatch(c)
  \/ SpawnPreflight(c) \/ CreatePod(c) \/ CreateSecret(c)
  \/ TouchPending(c) \/ DeletePod(c)

WorkerStep ==
  \/ ListTriggers \/ PlanRepo \/ EndPass
  \/ \E c \in todo : MakeCall(c)

Next ==
  \/ WorkerStep
  \/ PassFails \/ Crash \/ Tick
  \/ \E i \in Issue : PodStarts(i) \/ PodFails(i) \/ PodGone(i) \/ CollectSecret(i)
  \/ \E i \in Issue : EditIssue(i) \/ ChangeWorld(i)

Spec == Init /\ [][Next]_vars

\* The sweep starts pass after pass and a call returns; time passes and the
\* cluster finishes what it began.
Fairness ==
  /\ WF_vars(WorkerStep)
  /\ WF_vars(Tick)
  /\ \A i \in Issue : WF_vars(PodStarts(i)) /\ WF_vars(PodGone(i)) /\ WF_vars(CollectSecret(i))

FairSpec == Spec /\ Fairness
-----------------------------------------------------------------------------
\* What one step does to the pod of an announced issue.
StandsFor(i) ==
  "announced" \in issue[i].latches /\ issue[i].marker # NoConfig =>
    /\ pod[i].life = "absent" /\ pod'[i].life # "absent" => pod'[i].config = issue[i].marker
    /\ LET kill == {c \in todo \ todo' : c.issue = i /\ c.op = "kill_drift"}
       IN pc' # "idle" /\ kill # {} => LaunchHash[pod[i].config] # LaunchHash[issue[i].marker]

\* Config immutability (plan_repo, "CONFIG IMMUTABILITY"): once an issue carries
\* the announced latch and an announcement with a config hash, a pod is created
\* only for that very config, and no pod running its launch inputs is killed
\* for drift, whatever the author edits meanwhile.
AnnouncedConfigStands == [][\A i \in Issue : StandsFor(i)]_vars

\* Comment-first latching (flag_invalid, announce_session, reject_config_change):
\* while comments get through, no crash or failed label write leaves a latch
\* whose explanation was never posted.
LatchIsExplained ==
  \A i \in Issue :
    /\ "announced" \in issue[i].latches => issue[i].marker # NoConfig
    /\ "rejected" \in issue[i].latches => issue[i].notices["rejected"] > 0
    /\ "invalid" \in issue[i].latches =>
         issue[i].notices["invalid"] > 0 \/ issue[i].notices["unreachable"] > 0

\* Label-first latching (flag_trigger_unauthorized): no fault makes the rejection
\* comment appear twice before the latch is cleared.
UnauthorizedNoticeOnce == \A i \in Issue : issue[i].notices["unauthorized"] <= 1

\* What holds of the issues and pods at every state.
LifecycleSafe == TypeOK /\ LatchIsExplained /\ UnauthorizedNoticeOnce

\* The issue is open and would be accepted but for a work-label collision.
Acceptable(i) ==
  /\ issue[i].open /\ world[i].authority = "authorized"
  /\ issue[i].config \notin Malformed /\ WorkLabels[issue[i].config] # {}
  /\ world[i].broken # "manifest"

Outranked(i) ==
  \E j \in Issue : /\ j < i /\ Acceptable(j) /\ Creator[j] = Creator[i]
                   /\ WorkLabels[issue[j].config] \cap WorkLabels[issue[i].config] # {}

Unwanted(i) == ~Acceptable(i) \/ Outranked(i) \/ world[i].broken = "source_branch"

\* Orphans (plan_repo, step 2): a pod whose issue is closed, no longer authorized,
\* invalid or demoted for good is eventually deleted, whatever calls fail and
\* wherever the process dies.
UnwantedIsCleaned ==
  \A i \in Issue : <>[]Unwanted(i) => <>[](pod[i].life = "absent")

\* Idle reclaim (idle_kill_due): a session whose queue stays empty loses its pod,
\* also one that never got past starting or whose config was rejected.
IdleIsReclaimed ==
  \A i \in Issue : <>[](~world[i].work) => <>[](pod[i].life = "absent")

Wanted(i) ==
  /\ ~Unwanted(i) /\ world[i].work /\ world[i].reachable
  /\ issue[i].marker \in {NoConfig, issue[i].config}

Served(i) == pod[i].life = "live" /\ LaunchHash[pod[i].config] = LaunchHash[issue[i].config]

\* The pod waits for a Secret that does not exist.
Partial(i) == pod[i].life = "starting" /\ secret[i] = "none"

\* Convergence of the level-triggered loop: a valid session with queued work ends
\* up with a live pod running its launch inputs, after any finite number of failed
\* calls and pods and wherever the process dies, unless its pod is left for ever
\* without a Secret (NoPartialPod).
PendingIsServed ==
  \A i \in Issue : <>[]Wanted(i) /\ []<>(~Partial(i)) => <>[]Served(i)
-----------------------------------------------------------------------------
\* What the documentation says and the code does not do.

\* execute_spawn.rs, spawn_session: a spawn that fails leaves "never a partial pod".
\* A pod that waits for its Secret gets it in the end, or goes.
NoPartialPod == \A i \in Issue : []<>(~Partial(i))
=============================================================================
