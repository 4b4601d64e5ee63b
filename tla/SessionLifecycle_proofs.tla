---------------------- MODULE SessionLifecycle_proofs -----------------------
(***************************************************************************)
(* Proofs about SessionLifecycle for any trigger issues, bodies, creators, *)
(* faults and changes.                                                     *)
(***************************************************************************)
EXTENDS SessionLifecycle, TLAPS

\* A call posts a comment, writes or clears a latch, or touches the pod.
Commenting == {"announce_comment", "reject_comment", "invalid_comment", "unreachable_comment",
               "unauthorized_comment", "environment_comment"}
Labelling == {"announce_label", "reject_label", "invalid_label", "unreachable_label",
              "unauthorized_label"}
Clearing == {"clear_invalid", "clear_unauthorized"}
Killing == {"kill_drift", "kill_idle", "kill_orphan", "cleanup", "cleanup_orphan"}
-----------------------------------------------------------------------------
\* The kinds of the calls.
LEMMA CallKinds ==
  ASSUME NEW op \in Ops
  PROVE  /\ CommentKind(op) # "none" => CommentKind(op) \in Notices /\ op \in Commenting
         /\ LatchKind(op) # "none" => LatchKind(op) \in Latches /\ op \in Labelling
         /\ ClearKind(op) # "none" => ClearKind(op) \in Latches /\ op \in Clearing
BY DEF CommentKind, LatchKind, ClearKind, Ops, Notices, Latches, Commenting, Labelling, Clearing

\* A posted comment counts once and fixes the marker if there was none.
LEMMA PostedEffect ==
  ASSUME NEW rec \in Issues, NEW k \in Notices, NEW config \in Config \cup {NoConfig}
  PROVE  /\ Posted(rec, k, config) \in Issues
         /\ Posted(rec, k, config).latches = rec.latches
         /\ Posted(rec, k, config).config = rec.config
         /\ Posted(rec, k, config).open = rec.open
         /\ Posted(rec, k, config).marker =
              IF k = "announced" /\ rec.marker = NoConfig THEN config ELSE rec.marker
         /\ Posted(rec, k, config).notices[k] =
              IF rec.notices[k] < MaxNotices THEN rec.notices[k] + 1 ELSE rec.notices[k]
         /\ \A n \in Notices \ {k} : Posted(rec, k, config).notices[n] = rec.notices[n]
<1>1. rec.notices \in [Notices -> 0..MaxNotices] /\ MaxNotices \in Nat
  BY LifecycleAssumption DEF LifecycleAssumption, Issues
<1> DEFINE more == IF rec.notices[k] < MaxNotices THEN rec.notices[k] + 1 ELSE rec.notices[k]
<1>2. more \in 0..MaxNotices
  BY <1>1
<1>3. [rec.notices EXCEPT ![k] = more] \in [Notices -> 0..MaxNotices]
  BY <1>1, <1>2
<1> HIDE DEF more
<1>4. Posted(rec, k, config) =
        [rec EXCEPT !.notices = [rec.notices EXCEPT ![k] = more],
                    !.marker = IF k = "announced" /\ rec.marker = NoConfig THEN config ELSE rec.marker]
  BY DEF Posted, more, Issues
<1>5. [rec.notices EXCEPT ![k] = more][k] = more
      /\ \A n \in Notices \ {k} : [rec.notices EXCEPT ![k] = more][n] = rec.notices[n]
  BY <1>1
<1> QED BY <1>3, <1>4, <1>5 DEF Issues, more
-----------------------------------------------------------------------------
\* Every planned call is about an issue of the repository, with the body it had
\* when the pass listed it.
LEMMA PlanType ==
  ASSUME snap \in [Issue -> Snaps]
  PROVE  Plan \subseteq Calls
<1>1. \A ops \in SUBSET Ops, issues \in SUBSET Issue : CallsFor(ops, issues) \subseteq Calls
  BY DEF CallsFor, Calls, Snaps
<1>2. Registrations \subseteq Issue /\ Invalid \subseteq Issue
  BY DEF Registrations, Invalid, Parsed
<1> QED BY <1>1, <1>2 DEF Plan, Ops

\* Every state is well typed: in particular every call is about an issue of the
\* repository and every pod runs a body some pass has read.
LEMMA TypeStep == TypeOK /\ [Next]_vars => TypeOK'
<1> SUFFICES ASSUME TypeOK, [Next]_vars PROVE TypeOK'
  OBVIOUS
<1> USE LifecycleAssumption DEF LifecycleAssumption
<1>0. /\ issue \in [Issue -> Issues] /\ pod \in [Issue -> Pods]
      /\ secret \in [Issue -> {"none", "own", "stale"}] /\ world \in [Issue -> Worlds]
      /\ pc \in {"idle", "listed", "executing"} /\ snap \in [Issue -> Snaps]
      /\ todo \in SUBSET Calls /\ faults \in 0..MaxFaults /\ changes \in 0..MaxChanges
  BY DEF TypeOK
<1>f. ASSUME NEW k, Fault(k) \/ NoFault PROVE faults' \in 0..MaxFaults
  BY <1>0, <1>f DEF Fault, NoFault
<1>n. NoSnap \in Snaps /\ NoPod \in Pods
  BY DEF NoSnap, NoPod, Snaps, Pods, Kinds, Lives
<1>1. CASE UNCHANGED vars
  BY <1>0, <1>1 DEF vars, TypeOK
<1>2. CASE ListTriggers
  <2>1. \A i \in Issue : issue[i].config \in Config /\ issue[i].latches \in SUBSET Latches
                         /\ issue[i].marker \in Config \cup {NoConfig}
    BY <1>0 DEF Issues
  <2>4. PICK deferred \in SUBSET Issue, unread \in SUBSET Issue :
          snap' = [i \in Issue |->
            LET kind == Classify(i, i \in deferred)
            IN [kind |-> kind, config |-> issue[i].config,
                authorized |-> kind \in {"registration", "invalid"} /\ i \notin deferred,
                latches |-> issue[i].latches, hash |-> LatchedHash(i, kind, i \in unread)]]
    BY <1>2 DEF ListTriggers
  <2>5. snap' \in [Issue -> Snaps]
    <3>1. ASSUME NEW i \in Issue PROVE snap'[i] \in Snaps
      <4> DEFINE kind == Classify(i, i \in deferred)
                 hash == LatchedHash(i, kind, i \in unread)
      <4>k. kind \in Kinds
        BY DEF Classify, Kinds
      <4>h. hash \in Config \cup {NoConfig}
        BY <2>1 DEF LatchedHash
      <4>1. kind \in Kinds /\ hash \in Config \cup {NoConfig}
        BY <4>k, <4>h
      <4>2. snap'[i] = [kind |-> kind, config |-> issue[i].config,
                        authorized |-> kind \in {"registration", "invalid"} /\ i \notin deferred,
                        latches |-> issue[i].latches, hash |-> hash]
        BY <2>4
      <4> HIDE DEF kind, hash
      <4> QED BY <2>1, <4>1, <4>2 DEF Snaps
    <3>2. snap' = [i \in Issue |-> snap'[i]]
      BY <2>4
    <3> QED BY <3>1, <3>2
  <2>6. faults' \in 0..MaxFaults
    BY <1>2, <1>0 DEF ListTriggers, Fault, NoFault
  <2> QED BY <1>0, <1>2, <2>5, <2>6 DEF ListTriggers, TypeOK
<1>3. CASE PlanRepo
  BY <1>0, <1>3, <1>n, PlanType DEF PlanRepo, TypeOK
<1>4. CASE EndPass
  BY <1>0, <1>4 DEF EndPass, TypeOK
<1>5. CASE PassFails
  BY <1>0, <1>5, <1>f, <1>n DEF PassFails, TypeOK
<1>6. CASE Crash
  BY <1>0, <1>6, <1>f, <1>n DEF Crash, TypeOK
<1>7. CASE Tick
  <2>1. \A p \in Pods : Aged(p) \in Pods
    <3> SUFFICES ASSUME NEW p \in Pods PROVE Aged(p) \in Pods
      OBVIOUS
    <3>1. p.idle \in 0..IdleGrace /\ p.age \in 0..MinLifetime
      BY DEF Pods
    <3> DEFINE idle == IF p.idle < IdleGrace THEN p.idle + 1 ELSE p.idle
               age == IF p.age < MinLifetime THEN p.age + 1 ELSE p.age
    <3>2. idle \in 0..IdleGrace /\ age \in 0..MinLifetime
      BY <3>1
    <3>3. Aged(p) = IF p.life \in {"starting", "live"} THEN [p EXCEPT !.idle = idle, !.age = age] ELSE p
      BY DEF Aged, Pods
    <3> HIDE DEF idle, age
    <3> QED BY <3>2, <3>3 DEF Pods
  <2> QED BY <1>0, <1>7, <2>1 DEF Tick, TypeOK
<1>8. ASSUME NEW c \in todo, MakeCall(c) PROVE TypeOK'
  <2>0. c \in Calls /\ c.issue \in Issue /\ c.op \in Ops /\ c.config \in Config \cup {NoConfig}
        /\ todo \ {c} \in SUBSET Calls
    BY <1>0 DEF Calls
  <2>1. CASE PostComment(c)
    <3>1. CommentKind(c.op) \in Notices
      BY <2>0, <2>1, CallKinds DEF PostComment
    <3>2. Posted(issue[c.issue], CommentKind(c.op), c.config) \in Issues
      BY <1>0, <2>0, <3>1, PostedEffect
    <3>3. issue' \in [Issue -> Issues]
      BY <1>0, <2>0, <2>1, <3>2 DEF PostComment
    <3>4. faults' \in 0..MaxFaults
      BY <2>1, <1>f DEF PostComment
    <3> QED BY <1>0, <2>0, <2>1, <3>3, <3>4 DEF PostComment, TypeOK
  <2>2. CASE AddLatch(c)
    <3>1. LatchKind(c.op) \in Latches
      BY <2>0, <2>2, CallKinds DEF AddLatch
    <3>l. issue[c.issue] \in Issues /\ issue[c.issue].latches \cup {LatchKind(c.op)} \in SUBSET Latches
      BY <1>0, <2>0, <3>1 DEF Issues
    <3>2. [issue[c.issue] EXCEPT !.latches = @ \cup {LatchKind(c.op)}] \in Issues
      BY <3>l DEF Issues
    <3>3. issue' \in [Issue -> Issues]
      BY <1>0, <2>0, <2>2, <3>2 DEF AddLatch
    <3>4. faults' \in 0..MaxFaults
      BY <2>2, <1>f DEF AddLatch
    <3>5. todo' \in SUBSET Calls
      BY <2>0, <2>2 DEF AddLatch
    <3> QED BY <1>0, <2>2, <3>3, <3>4, <3>5 DEF AddLatch, TypeOK
  <2>3. CASE RemoveLatch(c)
    <3>1. ClearKind(c.op) \in Latches /\ ClearKind(c.op) \in Notices
      BY <2>0, <2>3, CallKinds DEF RemoveLatch, Notices
    <3>n. issue[c.issue].notices \in [Notices -> 0..MaxNotices] /\ issue[c.issue] \in Issues
      BY <1>0, <2>0 DEF Issues
    <3>m. [issue[c.issue].notices EXCEPT ![ClearKind(c.op)] = 0] \in [Notices -> 0..MaxNotices]
      BY <3>n, <3>1
    <3>2. [issue[c.issue] EXCEPT !.latches = @ \ {ClearKind(c.op)},
             !.notices = [issue[c.issue].notices EXCEPT ![ClearKind(c.op)] = 0]] \in Issues
      BY <3>n, <3>1, <3>m DEF Issues
    <3>r. [issue EXCEPT ![c.issue].latches = @ \ {ClearKind(c.op)},
                        ![c.issue].notices[ClearKind(c.op)] = 0]
          = [issue EXCEPT ![c.issue] = [issue[c.issue] EXCEPT !.latches = @ \ {ClearKind(c.op)},
             !.notices = [issue[c.issue].notices EXCEPT ![ClearKind(c.op)] = 0]]]
      BY ZenonT(60), <1>0, <2>0 DEF Issues
    <3>3. issue' \in [Issue -> Issues]
      BY SMTT(60), <1>0, <2>0, <2>3, <3>2, <3>r DEF RemoveLatch
    <3>4. faults' \in 0..MaxFaults
      BY <2>3, <1>f DEF RemoveLatch
    <3> QED BY <1>0, <2>0, <2>3, <3>3, <3>4 DEF RemoveLatch, TypeOK
  <2>4. CASE SpawnPreflight(c)
    <3>1. \A op \in Ops : [c EXCEPT !.op = op] \in Calls
      BY <2>0 DEF Calls
    <3>o. {"create_pod", "unreachable_comment", "unreachable_label", "environment_comment"} \subseteq Ops
      BY DEF Ops
    <3>2. todo' \in SUBSET Calls
      BY <2>0, <2>4, <3>1, <3>o DEF SpawnPreflight
    <3>3. faults' \in 0..MaxFaults
      BY <2>4, <1>f DEF SpawnPreflight
    <3> QED BY <1>0, <2>4, <3>2, <3>3 DEF SpawnPreflight, TypeOK
  <2>5. CASE CreatePod(c)
    <3>1. \A op \in Ops : [c EXCEPT !.op = op] \in Calls
      BY <2>0 DEF Calls
    <3>2. todo' \in SUBSET Calls
      BY <2>0, <2>5, <3>1 DEF CreatePod, Ops
    <3>3. faults' \in 0..MaxFaults
      BY <2>5, <1>f DEF CreatePod
    <3>4. [life |-> "starting", config |-> c.config, idle |-> 0, age |-> 0] \in Pods
      BY <2>0 DEF Pods, Lives
    <3>5. pod' \in [Issue -> Pods]
      BY <1>0, <2>0, <2>5, <3>4 DEF CreatePod
    <3> QED BY <1>0, <2>5, <3>2, <3>3, <3>5 DEF CreatePod, TypeOK
  <2>6. CASE CreateSecret(c)
    <3>1. secret' \in [Issue -> {"none", "own", "stale"}]
      BY <1>0, <2>0, <2>6 DEF CreateSecret
    <3>2. faults' \in 0..MaxFaults
      BY <2>6, <1>f DEF CreateSecret
    <3> QED BY <1>0, <2>0, <2>6, <3>1, <3>2 DEF CreateSecret, TypeOK
  <2>7. CASE TouchPending(c)
    <3>1. [pod[c.issue] EXCEPT !.idle = 0] \in Pods
      BY <1>0, <2>0 DEF Pods
    <3>2. pod' \in [Issue -> Pods]
      BY <1>0, <2>0, <2>7, <3>1 DEF TouchPending
    <3>3. faults' \in 0..MaxFaults
      BY <2>7, <1>f DEF TouchPending
    <3> QED BY <1>0, <2>0, <2>7, <3>2, <3>3 DEF TouchPending, TypeOK
  <2>8. CASE DeletePod(c)
    <3>1. [pod[c.issue] EXCEPT !.life = "terminating"] \in Pods
      BY <1>0, <2>0 DEF Pods, Lives
    <3>2. pod' \in [Issue -> Pods]
      BY <1>0, <2>0, <2>8, <3>1 DEF DeletePod
    <3>3. faults' \in 0..MaxFaults
      BY <2>8, <1>f DEF DeletePod
    <3> QED BY <1>0, <2>0, <2>8, <3>2, <3>3 DEF DeletePod, TypeOK
  <2> QED BY <1>8, <2>1, <2>2, <2>3, <2>4, <2>5, <2>6, <2>7, <2>8 DEF MakeCall
<1>9. ASSUME NEW i \in Issue, PodStarts(i) \/ PodFails(i) \/ PodGone(i) \/ CollectSecret(i)
      PROVE TypeOK'
  <2>1. \A l \in Lives : [pod[i] EXCEPT !.life = l] \in Pods
    BY <1>0 DEF Pods
  <2>2. pod' \in [Issue -> Pods]
    BY <1>0, <1>9, <1>n, <2>1 DEF PodStarts, PodFails, PodGone, CollectSecret, Lives
  <2>3. secret' \in [Issue -> {"none", "own", "stale"}]
    BY <1>0, <1>9 DEF PodStarts, PodFails, PodGone, CollectSecret
  <2>4. faults' \in 0..MaxFaults
    BY <1>0, <1>9, <1>f DEF PodStarts, PodFails, PodGone, CollectSecret
  <2> QED BY <1>0, <1>9, <2>2, <2>3, <2>4 DEF PodStarts, PodFails, PodGone, CollectSecret, TypeOK
<1>10. ASSUME NEW i \in Issue, EditIssue(i) PROVE TypeOK'
  <2>1. \A c \in Config : [issue[i] EXCEPT !.config = c] \in Issues
    BY <1>0 DEF Issues
  <2>2. \A b \in BOOLEAN : [issue[i] EXCEPT !.open = b] \in Issues
    BY <1>0 DEF Issues
  <2>3. issue' \in [Issue -> Issues]
    BY <1>0, <1>10, <2>1, <2>2 DEF EditIssue
  <2>4. changes' \in 0..MaxChanges
    BY <1>0, <1>10 DEF EditIssue, Change
  <2> QED BY <1>0, <1>10, <2>3, <2>4 DEF EditIssue, TypeOK
<1>11. ASSUME NEW i \in Issue, ChangeWorld(i) PROVE TypeOK'
  <2>1. \A a \in {"authorized", "unauthorized", "blocked"} : [world[i] EXCEPT !.authority = a] \in Worlds
    BY <1>0 DEF Worlds
  <2>2. /\ [world[i] EXCEPT !.work = ~@] \in Worlds
        /\ [world[i] EXCEPT !.reachable = ~@] \in Worlds
        /\ \A b \in {"nothing", "manifest", "source_branch"} : [world[i] EXCEPT !.broken = b] \in Worlds
    BY <1>0 DEF Worlds
  <2>3. world' \in [Issue -> Worlds]
    BY <1>0, <1>11, <2>1, <2>2 DEF ChangeWorld
  <2>4. changes' \in 0..MaxChanges
    BY <1>0, <1>11 DEF ChangeWorld, Change
  <2> QED BY <1>0, <1>11, <2>3, <2>4 DEF ChangeWorld, TypeOK
<1> QED BY <1>1, <1>2, <1>3, <1>4, <1>5, <1>6, <1>7, <1>8, <1>9, <1>10, <1>11 DEF Next, WorkerStep

LEMMA TypeInit == Init => TypeOK
<1> SUFFICES ASSUME Init PROVE TypeOK
  OBVIOUS
<1> USE LifecycleAssumption DEF LifecycleAssumption
<1>1. issue \in [Issue -> Issues]
  <2>1. [k \in Notices |-> 0] \in [Notices -> 0..MaxNotices]
    OBVIOUS
  <2>2. \A b \in Config : [open |-> TRUE, config |-> b, latches |-> {}, marker |-> NoConfig,
                           notices |-> [k \in Notices |-> 0]] \in Issues
    BY <2>1 DEF Issues
  <2> QED BY <2>2 DEF Init
<1>2. pod \in [Issue -> Pods] /\ snap \in [Issue -> Snaps] /\ world \in [Issue -> Worlds]
  BY DEF Init, NoPod, NoSnap, Pods, Snaps, Worlds, Lives, Kinds
<1> QED BY <1>1, <1>2 DEF Init, TypeOK
-----------------------------------------------------------------------------
\* What the snapshot still says of the issues when the plan is made: authors may
\* have edited the body, nobody but the pass touches latches and markers.
SnapInv ==
  pc = "listed" =>
    \A i \in Issue :
      /\ snap[i].config \in Config
      /\ snap[i].authorized => snap[i].kind \in {"registration", "invalid"}
      /\ snap[i].latches = issue[i].latches
      /\ "comments_read" \notin Faults /\ snap[i].kind = "registration"
           /\ "announced" \in snap[i].latches => snap[i].hash = issue[i].marker

LEMMA SnapStep == TypeOK /\ SnapInv /\ [Next]_vars => SnapInv'
<1> SUFFICES ASSUME TypeOK, SnapInv, [Next]_vars, pc' = "listed", NEW i \in Issue
             PROVE  /\ snap'[i].config \in Config
                    /\ snap'[i].authorized => snap'[i].kind \in {"registration", "invalid"}
                    /\ snap'[i].latches = issue'[i].latches
                    /\ "comments_read" \notin Faults /\ snap'[i].kind = "registration"
                         /\ "announced" \in snap'[i].latches => snap'[i].hash = issue'[i].marker
  BY DEF SnapInv
<1>0. issue \in [Issue -> Issues]
  BY DEF TypeOK
<1>1. CASE ListTriggers
  <2>1. PICK deferred \in SUBSET Issue, unread \in SUBSET Issue :
          /\ unread = {} \/ "comments_read" \in Faults
          /\ snap' = [j \in Issue |->
            LET kind == Classify(j, j \in deferred)
            IN [kind |-> kind, config |-> issue[j].config,
                authorized |-> kind \in {"registration", "invalid"} /\ j \notin deferred,
                latches |-> issue[j].latches, hash |-> LatchedHash(j, kind, j \in unread)]]
    BY <1>1 DEF ListTriggers, Fault
  <2> DEFINE kind == Classify(i, i \in deferred)
  <2>2. /\ snap'[i].kind = kind /\ snap'[i].config = issue[i].config
        /\ snap'[i].authorized = (kind \in {"registration", "invalid"} /\ i \notin deferred)
        /\ snap'[i].latches = issue[i].latches
        /\ snap'[i].hash = LatchedHash(i, kind, i \in unread)
    BY <2>1
  <2>3. issue[i].config \in Config /\ issue' = issue
    BY <1>0, <1>1 DEF ListTriggers, Issues
  <2>4. unread = {} /\ kind = "registration" /\ "announced" \in issue[i].latches
          => LatchedHash(i, kind, i \in unread) = issue[i].marker
    BY DEF LatchedHash
  <2> HIDE DEF kind
  <2> QED BY <2>1, <2>2, <2>3, <2>4
<1>2. CASE \E j \in Issue : EditIssue(j)
  <2>1. pc = "listed" /\ snap' = snap
    BY <1>2 DEF EditIssue
  <2>2. issue'[i].latches = issue[i].latches /\ issue'[i].marker = issue[i].marker
    BY <1>0, <1>2 DEF EditIssue, Issues
  <2> QED BY <2>1, <2>2 DEF SnapInv
<1>3. CASE ~ListTriggers /\ ~\E j \in Issue : EditIssue(j)
  <2>1. pc = "listed" /\ snap' = snap /\ issue' = issue
    BY <1>3 DEF Next, WorkerStep, MakeCall, PlanRepo, EndPass, PassFails, Crash, Tick, PostComment,
      AddLatch, RemoveLatch, SpawnPreflight, CreatePod, CreateSecret, TouchPending, DeletePod,
      NextCall, PodStarts, PodFails, PodGone, CollectSecret, ChangeWorld, vars
  <2> QED BY <2>1 DEF SnapInv
<1> QED BY <1>1, <1>2, <1>3
-----------------------------------------------------------------------------
LEMMA CallsForMembers ==
  ASSUME NEW ops, NEW issues, NEW c
  PROVE  c \in CallsFor(ops, issues) <=>
           \E op \in ops, i \in issues : c = [op |-> op, issue |-> i, config |-> snap[i].config]
BY DEF CallsFor

\* Why each call is in the plan.
LEMMA PlanCalls ==
  ASSUME NEW c \in Plan
  PROVE  /\ c.issue \in Issue /\ c.config = snap[c.issue].config
         /\ c.op \in {"spawn", "kill_drift", "touch", "kill_idle", "cleanup", "announce_comment",
                      "announce_label", "reject_comment", "reject_label", "kill_orphan",
                      "cleanup_orphan", "invalid_comment", "invalid_label", "clear_invalid",
                      "unauthorized_label", "unauthorized_comment", "clear_unauthorized"}
         /\ c.op \in {"spawn", "kill_drift", "touch", "kill_idle", "cleanup", "announce_comment",
                      "announce_label", "reject_comment", "reject_label", "clear_invalid"}
              => c.issue \in Registrations
         /\ c.op \in {"kill_orphan", "cleanup_orphan"} => c.issue \notin Registrations
         /\ c.op \in {"invalid_comment", "invalid_label"} => c.issue \in Invalid
         /\ c.op = "spawn" => pod[c.issue].life = "absent" /\ ~Rejected(c.issue)
         /\ c.op = "kill_drift" => Running(c.issue) /\ Drifted(c.issue) /\ ~Rejected(c.issue)
         /\ c.op = "kill_idle" => Running(c.issue) /\ (~Drifted(c.issue) \/ Rejected(c.issue))
         /\ c.op = "touch" => Running(c.issue) /\ (~Drifted(c.issue) \/ Rejected(c.issue))
         /\ c.op = "cleanup" => pod[c.issue].life = "terminal"
         /\ c.op \in {"announce_comment", "announce_label"} => "announced" \notin snap[c.issue].latches
         /\ c.op \in {"unauthorized_label", "unauthorized_comment"}
              => snap[c.issue].kind = "unauthorized" /\ "unauthorized" \notin snap[c.issue].latches
         /\ c.op = "clear_unauthorized"
              => snap[c.issue].authorized /\ "unauthorized" \in snap[c.issue].latches
<1>1. Registrations \subseteq Issue /\ Invalid \subseteq Issue
  BY DEF Registrations, Invalid, Parsed
<1> HIDE DEF Registrations, Invalid
<1> QED BY <1>1, CallsForMembers DEF Plan

\* A registration is a parsed trigger and is not flagged invalid by the same pass.
LEMMA RegistrationsAreValid ==
  Registrations \subseteq {i \in Issue : snap[i].kind = "registration"} /\ Invalid \cap Registrations = {}
<1>1. Registrations \subseteq Parsed
  BY DEF Registrations
<1>2. Invalid \cap Registrations = {}
  BY <1>1 DEF Invalid, Parsed
<1> QED BY <1>1, <1>2 DEF Parsed

\* A latch is planned together with its comment.
LEMMA PlanPairs ==
  ASSUME NEW c \in Plan
  PROVE  /\ c.op = "announce_label" => \E d \in Plan : d.op = "announce_comment" /\ d.issue = c.issue
         /\ c.op = "reject_label" => \E d \in Plan : d.op = "reject_comment" /\ d.issue = c.issue
         /\ c.op = "invalid_label" => \E d \in Plan : d.op = "invalid_comment" /\ d.issue = c.issue
         /\ c.op = "unauthorized_comment" => \E d \in Plan : d.op = "unauthorized_label" /\ d.issue = c.issue
<1> DEFINE twin(op) == [op |-> op, issue |-> c.issue, config |-> snap[c.issue].config]
<1>0. c.issue \in Issue
  BY PlanCalls
<1>1. ASSUME c.op = "announce_label" PROVE twin("announce_comment") \in Plan
  <2>1. c.issue \in Registrations \ {i \in Issue : "announced" \in snap[i].latches}
    BY <1>1, PlanCalls
  <2> QED BY <2>1, CallsForMembers DEF Plan
<1>2. ASSUME c.op = "reject_label" PROVE twin("reject_comment") \in Plan
  <2>1. c.issue \in {i \in Registrations : Rejected(i)} \ {i \in Issue : "rejected" \in snap[i].latches}
    BY <1>2, CallsForMembers DEF Plan
  <2> QED BY <2>1, CallsForMembers DEF Plan
<1>3. ASSUME c.op = "invalid_label" PROVE twin("invalid_comment") \in Plan
  <2>1. c.issue \in Invalid \ {i \in Issue : "invalid" \in snap[i].latches}
    BY <1>3, CallsForMembers DEF Plan
  <2> QED BY <2>1, CallsForMembers DEF Plan
<1>4. ASSUME c.op = "unauthorized_comment" PROVE twin("unauthorized_label") \in Plan
  <2>1. c.issue \in {i \in Issue : snap[i].kind = "unauthorized"}
                      \ {i \in Issue : "unauthorized" \in snap[i].latches}
    BY <1>0, <1>4, PlanCalls
  <2> QED BY <2>1, CallsForMembers DEF Plan
<1> QED BY <1>1, <1>2, <1>3, <1>4
-----------------------------------------------------------------------------
\* The steps a spawn adds to the plan.
SpawnSteps == {"create_pod", "create_secret", "unreachable_comment", "unreachable_label",
               "environment_comment"}

\* What the calls that concern the pod do to the plan.
LEMMA CallRest ==
  ASSUME NEW c \in todo, c \in Calls,
         SpawnPreflight(c) \/ CreatePod(c) \/ CreateSecret(c) \/ TouchPending(c) \/ DeletePod(c)
  PROVE  /\ todo \ {c} \subseteq todo'
         /\ \A d \in todo' \ todo :
              /\ d.op \in SpawnSteps /\ d.issue = c.issue /\ d.config = c.config
              /\ c.op \in {"spawn", "create_pod"}
              /\ d.op = "create_pod" => c.op = "spawn"
              /\ d.op = "unreachable_label" =>
                   \E e \in todo' : e.op = "unreachable_comment" /\ e.issue = d.issue
<1>1. \A op : /\ [c EXCEPT !.op = op].op = op
               /\ [c EXCEPT !.op = op].issue = c.issue
               /\ [c EXCEPT !.op = op].config = c.config
  BY DEF Calls
<1>2. CASE SpawnPreflight(c)
  <2> DEFINE x(op) == [c EXCEPT !.op = op]
  <2>1. \/ todo' = (todo \ {c}) \cup {x("create_pod")}
        \/ todo' = (todo \ {c}) \cup {x("unreachable_comment"), x("unreachable_label")}
        \/ todo' = todo \ {c}
        \/ todo' = (todo \ {c}) \cup {x("environment_comment")}
    BY <1>2 DEF SpawnPreflight
  <2>2. \A op : x(op).op = op /\ x(op).issue = c.issue /\ x(op).config = c.config
    BY <1>1
  <2>3. c.op = "spawn"
    BY <1>2 DEF SpawnPreflight
  <2> HIDE DEF x
  <2> QED BY <2>1, <2>2, <2>3 DEF SpawnSteps
<1>3. CASE CreatePod(c)
  BY <1>1, <1>3 DEF CreatePod, SpawnSteps
<1>4. CASE CreateSecret(c) \/ TouchPending(c) \/ DeletePod(c)
  BY <1>4 DEF CreateSecret, TouchPending, DeletePod
<1> QED BY <1>2, <1>3, <1>4

\* An author's edit leaves latches, marker and notices alone.
LEMMA EditKeeps ==
  ASSUME issue \in [Issue -> Issues], \E i \in Issue : EditIssue(i)
  PROVE  /\ todo' = todo /\ pod' = pod /\ pc' = pc
         /\ \A i \in Issue : /\ issue'[i].marker = issue[i].marker
                             /\ issue'[i].notices = issue[i].notices
                             /\ issue'[i].latches = issue[i].latches
<1>1. PICK j \in Issue : EditIssue(j)
  OBVIOUS
<1>2. \/ \E x \in Config : issue' = [issue EXCEPT ![j] = [issue[j] EXCEPT !.config = x]]
      \/ \E b \in BOOLEAN : issue' = [issue EXCEPT ![j] = [issue[j] EXCEPT !.open = b]]
  BY <1>1 DEF EditIssue
<1>3. todo' = todo /\ pod' = pod /\ pc' = pc
  BY <1>1 DEF EditIssue
<1>4. \A i \in Issue : /\ issue'[i].marker = issue[i].marker
                       /\ issue'[i].notices = issue[i].notices
                       /\ issue'[i].latches = issue[i].latches
  <2>1. issue[j] \in Issues
    OBVIOUS
  <2>2. PICK rec : /\ issue' = [issue EXCEPT ![j] = rec]
                   /\ \/ \E x : rec = [issue[j] EXCEPT !.config = x]
                      \/ \E x : rec = [issue[j] EXCEPT !.open = x]
    BY <1>2
  <2>3. rec.marker = issue[j].marker /\ rec.notices = issue[j].notices /\ rec.latches = issue[j].latches
    BY <2>1, <2>2 DEF Issues
  <2> QED BY <2>2, <2>3
<1> QED BY <1>3, <1>4
-----------------------------------------------------------------------------
\* The kind of comment that must be on the issue before a label is written.
Explains(op) ==
  CASE op = "announce_label" -> "announced"
    [] op = "reject_label" -> "rejected"
    [] op = "invalid_label" -> "invalid"
    [] op = "unreachable_label" -> "unreachable"
    [] OTHER -> "none"

Told(i, k) ==
  IF k = "announced" THEN issue[i].marker # NoConfig ELSE issue[i].notices[k] > 0

\* The comment is still to be posted by the plan.
Awaits(i, k) == \E d \in todo : d.issue = i /\ CommentKind(d.op) = k

LabelsFollowComments ==
  \A c \in todo : Explains(c.op) # "none" =>
    Told(c.issue, Explains(c.op)) \/ Awaits(c.issue, Explains(c.op))

AnnouncesBodies == \A c \in todo : c.op = "announce_comment" => c.config # NoConfig

\* No plan both flags an issue and lifts its flag.
FlagsOrLifts ==
  \A c, d \in todo : c.op = "invalid_label" /\ d.op = "clear_invalid" => c.issue # d.issue

ExplainInv ==
  LabelsFollowComments /\ AnnouncesBodies /\ FlagsOrLifts /\ LatchIsExplained

LEMMA PlanExplains ==
  ASSUME TypeOK, SnapInv, PlanRepo, LatchIsExplained
  PROVE  ExplainInv'
<1>0. todo' = Plan /\ issue' = issue /\ pc = "listed" /\ NoConfig \notin Config
  BY LifecycleAssumption DEF PlanRepo, LifecycleAssumption
<1>1. LabelsFollowComments'
  <2> SUFFICES ASSUME NEW c \in Plan, Explains(c.op) # "none"
               PROVE \E d \in Plan : d.issue = c.issue /\ CommentKind(d.op) = Explains(c.op)
    BY <1>0 DEF LabelsFollowComments, Awaits
  <2>1. c.op # "unreachable_label"
    BY PlanCalls
  <2>2. c.op \in {"announce_label", "reject_label", "invalid_label"}
    BY <2>1 DEF Explains
  <2> QED BY <2>2, PlanPairs DEF Explains, CommentKind
<1>2. AnnouncesBodies'
  BY <1>0, PlanCalls DEF AnnouncesBodies, SnapInv
<1>3. FlagsOrLifts'
  BY <1>0, PlanCalls, RegistrationsAreValid DEF FlagsOrLifts
<1>4. LatchIsExplained'
  BY <1>0 DEF LatchIsExplained
<1> QED BY <1>1, <1>2, <1>3, <1>4 DEF ExplainInv

\* When a label's turn comes, its comment is no longer waiting.
LEMMA CommentsFirst ==
  ASSUME TypeOK, NEW c \in todo, NextCall(c), Explains(c.op) # "none"
  PROVE  ~Awaits(c.issue, Explains(c.op))
<1> SUFFICES ASSUME NEW d \in todo, d.issue = c.issue, CommentKind(d.op) = Explains(c.op)
             PROVE FALSE
  BY DEF Awaits
<1>1. <<c.op, d.op>> \in {<<"announce_label", "announce_comment">>, <<"reject_label", "reject_comment">>,
                         <<"invalid_label", "invalid_comment">>,
                         <<"unreachable_label", "unreachable_comment">>}
  BY DEF Explains, CommentKind
<1>2. d # c /\ Section(c.op) = Section(d.op) /\ Section(c.op) \in Int /\ c.op \in Second
  BY <1>1 DEF Section, Second
<1>3. Before(c, d)
  BY <1>2 DEF NextCall
<1>c. c.issue \in Issue
  <2>1. c \in Calls
    BY DEF TypeOK
  <2> QED BY <2>1 DEF Calls
<1>n. Issue \subseteq Nat
  BY LifecycleAssumption DEF LifecycleAssumption
<1>i. \A x, y \in Nat : x = y => ~(x < y) /\ ~(x > y)
  OBVIOUS
<1>4. ~(c.issue < d.issue) /\ ~(c.issue > d.issue)
  BY <1>c, <1>n, <1>i
<1> QED BY <1>2, <1>3, <1>4 DEF Before

\* One call of the plan: what it leaves on the issue and in the plan.
LEMMA CallExplains ==
  ASSUME TypeOK, ExplainInv, "comment" \notin Faults, MaxNotices > 0, NEW c \in todo, MakeCall(c)
  PROVE  ExplainInv'
<1>0. /\ issue \in [Issue -> Issues] /\ c \in Calls /\ c.issue \in Issue /\ c.op \in Ops
      /\ c.config \in Config \cup {NoConfig} /\ todo \subseteq Calls
      /\ \A i \in Issue : issue[i] \in Issues /\ issue[i].notices \in [Notices -> 0..MaxNotices]
  BY DEF TypeOK, Calls, Issues
<1>i. LabelsFollowComments /\ AnnouncesBodies /\ FlagsOrLifts /\ LatchIsExplained
  BY DEF ExplainInv
<1>1. CASE PostComment(c)
  <2> DEFINE k == CommentKind(c.op)
  <2>1. k \in Notices /\ c.op \in Commenting /\ k # "none"
    BY <1>0, <1>1, CallKinds DEF PostComment
  <2>2. /\ issue' = [issue EXCEPT ![c.issue] = Posted(issue[c.issue], k, c.config)]
        /\ todo' = todo \ {c}
    BY <1>1 DEF PostComment, Fault
  <2>3. c.op = "announce_comment" <=> k = "announced"
    BY DEF CommentKind
  <2> HIDE DEF k
  <2>4. Posted(issue[c.issue], k, c.config).notices[k] > 0
    <3> DEFINE n == issue[c.issue].notices[k]
    <3>1. n \in 0..MaxNotices /\ MaxNotices \in Nat
      BY <1>0, <2>1, LifecycleAssumption DEF LifecycleAssumption
    <3>2. Posted(issue[c.issue], k, c.config).notices[k] = IF n < MaxNotices THEN n + 1 ELSE n
      BY <1>0, <2>1, PostedEffect
    <3> HIDE DEF n
    <3> QED BY <3>1, <3>2
  <2>5. \A i \in Issue : issue'[i].latches = issue[i].latches
    BY <1>0, <2>1, <2>2, PostedEffect
  <2>6. \A i \in Issue : issue[i].marker # NoConfig => issue'[i].marker # NoConfig
    BY <1>0, <2>1, <2>2, PostedEffect
  <2>7. \A i \in Issue, n \in Notices : issue[i].notices[n] > 0 => issue'[i].notices[n] > 0
    <3> TAKE i \in Issue, n \in Notices
    <3>1. CASE i = c.issue
      BY <1>0, <2>1, <2>2, <2>4, <3>1, PostedEffect
    <3>2. CASE i # c.issue
      BY <1>0, <2>2, <3>2
    <3> QED BY <3>1, <3>2
  <2>8. \A i \in Issue, n \in Notices : Told(i, n) => Told(i, n)'
    BY <2>6, <2>7 DEF Told
  <2>9. Told(c.issue, k)'
    <3>1. CASE k = "announced"
      <4>1. c.config # NoConfig
        BY <1>i, <2>3, <3>1 DEF AnnouncesBodies
      <4> QED BY <1>0, <2>1, <2>2, <3>1, <4>1, PostedEffect DEF Told
    <3>2. CASE k # "announced"
      BY <1>0, <2>2, <2>4, <3>2 DEF Told
    <3> QED BY <3>1, <3>2
  <2>10. LabelsFollowComments'
    <3> SUFFICES ASSUME NEW d \in todo', Explains(d.op) # "none"
                 PROVE  Told(d.issue, Explains(d.op))' \/ Awaits(d.issue, Explains(d.op))'
      BY DEF LabelsFollowComments
    <3>1. d \in todo /\ d.issue \in Issue /\ Explains(d.op) \in Notices
      BY <1>0, <2>2 DEF Explains, Notices, Latches, Calls
    <3>2. CASE Told(d.issue, Explains(d.op))
      BY <2>8, <3>1, <3>2
    <3>3. CASE Awaits(d.issue, Explains(d.op))
      BY <2>2, <2>9, <3>3 DEF Awaits, k
    <3> QED BY <1>i, <3>1, <3>2, <3>3 DEF LabelsFollowComments
  <2>11. AnnouncesBodies' /\ FlagsOrLifts'
    BY <1>i, <2>2 DEF AnnouncesBodies, FlagsOrLifts
  <2>12. LatchIsExplained'
    BY <1>i, <2>5, <2>6, <2>7 DEF LatchIsExplained, Notices, Latches
  <2> QED BY <2>10, <2>11, <2>12 DEF ExplainInv
<1>2. CASE AddLatch(c)
  <2> DEFINE l == LatchKind(c.op)
  <2>1. NextCall(c) /\ l \in Latches /\ c.op \in Labelling
    BY <1>0, <1>2, CallKinds DEF AddLatch
  <2>2. /\ \A i \in Issue : /\ issue'[i].marker = issue[i].marker
                            /\ issue'[i].notices = issue[i].notices
                            /\ issue'[i].latches \ issue[i].latches \subseteq {l}
                            /\ i # c.issue => issue'[i].latches = issue[i].latches
        /\ todo' \subseteq todo
        /\ \A d \in todo \ {c} : d.op # "unauthorized_comment" => d \in todo'
    BY <1>0, <1>2 DEF AddLatch, Issues
  <2>3. \A i \in Issue, n \in Notices : Told(i, n)' = Told(i, n)
    BY <2>2 DEF Told
  <2>4. LabelsFollowComments'
    <3> SUFFICES ASSUME NEW d \in todo', Explains(d.op) # "none"
                 PROVE  Told(d.issue, Explains(d.op))' \/ Awaits(d.issue, Explains(d.op))'
      BY DEF LabelsFollowComments
    <3>1. d \in todo /\ d.issue \in Issue /\ Explains(d.op) \in Notices
      BY <1>0, <2>2 DEF Explains, Notices, Latches, Calls
    <3>2. CASE Told(d.issue, Explains(d.op))
      BY <2>3, <3>1, <3>2
    <3>3. CASE Awaits(d.issue, Explains(d.op))
      <4>1. PICK e \in todo : e.issue = d.issue /\ CommentKind(e.op) = Explains(d.op)
        BY <3>3 DEF Awaits
      <4>2. e.op # "unauthorized_comment" /\ e # c
        BY <2>1, <4>1 DEF Explains, CommentKind, Labelling
      <4> QED BY <2>2, <4>1, <4>2 DEF Awaits
    <3> QED BY <1>i, <3>1, <3>2, <3>3 DEF LabelsFollowComments
  <2>5. AnnouncesBodies' /\ FlagsOrLifts'
    BY <1>i, <2>2 DEF AnnouncesBodies, FlagsOrLifts
  <2>6. CASE c.op = "unauthorized_label"
    <3>1. l = "unauthorized"
      BY <2>6 DEF LatchKind
    <3>2. LatchIsExplained'
      BY <1>i, <2>2, <3>1 DEF LatchIsExplained
    <3> QED BY <2>4, <2>5, <3>2 DEF ExplainInv
  <2>7. CASE c.op # "unauthorized_label"
    <3>1. Explains(c.op) # "none" /\ Explains(c.op) \in Notices
      BY <2>1, <2>7 DEF Explains, Labelling, Notices, Latches
    <3>2. Told(c.issue, Explains(c.op))
      BY <1>i, <2>1, <3>1, CommentsFirst DEF LabelsFollowComments
    <3>3. <<l, Explains(c.op)>> \in {<<"announced", "announced">>, <<"rejected", "rejected">>,
                                     <<"invalid", "invalid">>, <<"invalid", "unreachable">>}
      BY <2>1, <2>7 DEF Explains, LatchKind, Labelling
    <3>4. /\ l = "announced" => issue[c.issue].marker # NoConfig
          /\ l = "rejected" => issue[c.issue].notices["rejected"] > 0
          /\ l = "invalid" => issue[c.issue].notices["invalid"] > 0 \/ issue[c.issue].notices["unreachable"] > 0
      BY <3>2, <3>3 DEF Told
    <3> HIDE DEF l
    <3>5. LatchIsExplained'
      BY <1>i, <1>0, <2>2, <3>4 DEF LatchIsExplained
    <3> QED BY <2>4, <2>5, <3>5 DEF ExplainInv
  <2> QED BY <2>6, <2>7
<1>3. CASE RemoveLatch(c)
  <2> DEFINE l == ClearKind(c.op)
  <2>1. <<c.op, l>> \in {<<"clear_invalid", "invalid">>, <<"clear_unauthorized", "unauthorized">>}
    BY <1>3 DEF RemoveLatch, ClearKind
  <2>2. todo' = todo \ {c} /\ CommentKind(c.op) = "none"
    BY <1>3, <2>1 DEF RemoveLatch, CommentKind
  <2> DEFINE removed == [issue EXCEPT ![c.issue].latches = @ \ {l}, ![c.issue].notices[l] = 0]
  <2>3. issue' = issue \/ issue' = removed
    BY <1>3 DEF RemoveLatch
  <2>l. l \in Latches /\ l \in Notices
    BY <2>1 DEF Latches, Notices
  <2> HIDE DEF l
  <2>4. /\ \A i \in Issue \ {c.issue} : removed[i] = issue[i]
        /\ removed[c.issue].marker = issue[c.issue].marker
        /\ removed[c.issue].latches = issue[c.issue].latches \ {l}
        /\ removed[c.issue].notices = [issue[c.issue].notices EXCEPT ![l] = 0]
    BY <1>0, <2>l DEF Issues
  <2>n. \A n \in Notices \ {l} : removed[c.issue].notices[n] = issue[c.issue].notices[n]
    BY <1>0, <2>4
  <2> HIDE DEF removed
  <2>5. \A i \in Issue, n \in Notices \ {l} : Told(i, n) => Told(i, n)'
    BY <2>3, <2>4, <2>n DEF Told
  <2>6. \A i \in Issue \ {c.issue}, n \in Notices : Told(i, n) => Told(i, n)'
    BY <2>3, <2>4 DEF Told
  <2>7. LabelsFollowComments'
    <3> SUFFICES ASSUME NEW d \in todo', Explains(d.op) # "none"
                 PROVE  Told(d.issue, Explains(d.op))' \/ Awaits(d.issue, Explains(d.op))'
      BY DEF LabelsFollowComments
    <3>1. d \in todo /\ d.issue \in Issue /\ Explains(d.op) \in Notices
      BY <1>0, <2>2 DEF Explains, Notices, Latches, Calls
    <3>2. CASE Awaits(d.issue, Explains(d.op))
      BY <2>2, <3>2 DEF Awaits
    <3>3. CASE Told(d.issue, Explains(d.op))
      <4>1. CASE d.issue # c.issue
        BY <2>6, <3>1, <3>3, <4>1
      <4>2. CASE Explains(d.op) # l
        BY <2>5, <3>1, <3>3, <4>2
      <4>3. CASE d.issue = c.issue /\ Explains(d.op) = l
        <5>1. d.op = "invalid_label" /\ c.op = "clear_invalid"
          BY <2>1, <4>3 DEF Explains
        <5> QED BY <1>i, <3>1, <4>3, <5>1 DEF FlagsOrLifts
      <4> QED BY <4>1, <4>2, <4>3
    <3> QED BY <1>i, <3>1, <3>2, <3>3 DEF LabelsFollowComments
  <2>8. AnnouncesBodies' /\ FlagsOrLifts'
    BY <1>i, <2>2 DEF AnnouncesBodies, FlagsOrLifts
  <2>9. LatchIsExplained'
    <3>1. "unreachable" # l /\ "rejected" # l
      BY <2>1
    <3>2. \A i \in Issue : removed[i].marker = issue[i].marker /\ removed[i].latches \subseteq issue[i].latches
                           /\ removed[i].notices["rejected"] = issue[i].notices["rejected"]
                           /\ removed[i].notices["unreachable"] = issue[i].notices["unreachable"]
                           /\ ("invalid" \in removed[i].latches
                                 => removed[i].notices["invalid"] = issue[i].notices["invalid"])
      BY <2>4, <2>n, <3>1 DEF Notices, Latches
    <3>3. \A i \in Issue : issue'[i].marker = issue[i].marker /\ issue'[i].latches \subseteq issue[i].latches
                           /\ issue'[i].notices["rejected"] = issue[i].notices["rejected"]
                           /\ issue'[i].notices["unreachable"] = issue[i].notices["unreachable"]
                           /\ ("invalid" \in issue'[i].latches
                                 => issue'[i].notices["invalid"] = issue[i].notices["invalid"])
      BY <2>3, <3>2
    <3> QED BY <1>i, <3>3 DEF LatchIsExplained
  <2> QED BY <2>7, <2>8, <2>9 DEF ExplainInv
<1>4. CASE SpawnPreflight(c) \/ CreatePod(c) \/ CreateSecret(c) \/ TouchPending(c) \/ DeletePod(c)
  <2>1. issue' = issue
    BY <1>4 DEF SpawnPreflight, CreatePod, CreateSecret, TouchPending, DeletePod
  <2>2. CommentKind(c.op) = "none"
    BY <1>4 DEF CommentKind, SpawnPreflight, CreatePod, CreateSecret, TouchPending, DeletePod
  <2>3. /\ todo \ {c} \subseteq todo'
        /\ \A d \in todo' \ todo :
             /\ d.op \in SpawnSteps
             /\ d.op = "unreachable_label" =>
                  \E e \in todo' : e.op = "unreachable_comment" /\ e.issue = d.issue
    BY <1>0, <1>4, CallRest
  <2>4. LabelsFollowComments'
    <3> SUFFICES ASSUME NEW d \in todo', Explains(d.op) # "none"
                 PROVE  Told(d.issue, Explains(d.op))' \/ Awaits(d.issue, Explains(d.op))'
      BY DEF LabelsFollowComments
    <3>1. CASE d \in todo
      <4>1. CASE Awaits(d.issue, Explains(d.op))
        BY <2>2, <2>3, <4>1 DEF Awaits
      <4>2. CASE Told(d.issue, Explains(d.op))
        BY <2>1, <4>2 DEF Told
      <4> QED BY <1>i, <3>1, <4>1, <4>2 DEF LabelsFollowComments
    <3>2. CASE d \notin todo
      <4>1. d.op = "unreachable_label"
        BY <2>3, <3>2 DEF Explains, SpawnSteps
      <4> QED BY <2>3, <3>2, <4>1 DEF Awaits, Explains, CommentKind
    <3> QED BY <3>1, <3>2
  <2>5. AnnouncesBodies'
    BY <1>i, <2>3 DEF AnnouncesBodies, SpawnSteps
  <2>6. FlagsOrLifts'
    BY <1>i, <2>3 DEF FlagsOrLifts, SpawnSteps
  <2>7. LatchIsExplained'
    BY <1>i, <2>1 DEF LatchIsExplained
  <2> QED BY <2>4, <2>5, <2>6, <2>7 DEF ExplainInv
<1> QED BY <1>1, <1>2, <1>3, <1>4 DEF MakeCall

LEMMA ExplainStep ==
  ASSUME "comment" \notin Faults, MaxNotices > 0, TypeOK, SnapInv, ExplainInv, [Next]_vars
  PROVE  ExplainInv'
<1>0. issue \in [Issue -> Issues]
  BY DEF TypeOK
<1>1. CASE PlanRepo
  BY <1>1, PlanExplains DEF ExplainInv
<1>2. CASE \E c \in todo : MakeCall(c)
  BY <1>2, CallExplains
<1>3. CASE Crash \/ EndPass
  <2>1. todo' = {} /\ issue' = issue
    BY <1>3 DEF Crash, EndPass
  <2> QED BY <2>1 DEF ExplainInv, LabelsFollowComments, AnnouncesBodies, FlagsOrLifts, LatchIsExplained
<1>4. CASE \E i \in Issue : EditIssue(i)
  <2>1. todo' = todo
    BY <1>0, <1>4, EditKeeps
  <2>2. \A i \in Issue : /\ issue'[i].marker = issue[i].marker
                         /\ issue'[i].notices = issue[i].notices
                         /\ issue'[i].latches = issue[i].latches
    BY <1>0, <1>4, EditKeeps
  <2>3. \A c \in todo : c.issue \in Issue
    BY DEF TypeOK, Calls
  <2> QED BY <2>1, <2>2, <2>3
      DEF ExplainInv, LabelsFollowComments, AnnouncesBodies, FlagsOrLifts, LatchIsExplained, Told, Awaits
<1>5. CASE ListTriggers \/ PassFails \/ Tick \/ UNCHANGED vars
           \/ \E i \in Issue : PodStarts(i) \/ PodFails(i) \/ PodGone(i) \/ CollectSecret(i) \/ ChangeWorld(i)
  <2>1. issue' = issue /\ todo' = todo
    BY <1>5 DEF ListTriggers, PassFails, Tick, PodStarts, PodFails, PodGone, CollectSecret, ChangeWorld, vars
  <2> QED BY <2>1
      DEF ExplainInv, LabelsFollowComments, AnnouncesBodies, FlagsOrLifts, LatchIsExplained, Told, Awaits
<1> QED BY <1>1, <1>2, <1>3, <1>4, <1>5 DEF Next, WorkerStep

LEMMA ExplainInit == Init => SnapInv /\ ExplainInv
<1> SUFFICES ASSUME Init PROVE SnapInv /\ ExplainInv
  OBVIOUS
<1>1. todo = {} /\ pc = "idle" /\ \A i \in Issue : issue[i].latches = {}
  BY DEF Init
<1> QED BY <1>1 DEF SnapInv, ExplainInv, LabelsFollowComments, AnnouncesBodies, FlagsOrLifts, LatchIsExplained
-----------------------------------------------------------------------------
Rejections(i) == issue[i].notices["unauthorized"]

\* An issue without the latch has no rejection comment; a rejection comment still
\* to be posted is the first one, the only one, and follows its latch.
NoticeInv ==
  /\ \A i \in Issue : Rejections(i) <= 1
  /\ \A i \in Issue : "unauthorized" \notin issue[i].latches => Rejections(i) = 0
  /\ \A c \in todo : c.op = "unauthorized_comment" =>
       /\ Rejections(c.issue) = 0
       /\ \/ "unauthorized" \in issue[c.issue].latches
          \/ \E d \in todo : d.op = "unauthorized_label" /\ d.issue = c.issue
       /\ \A d \in todo : d.op = "clear_unauthorized" => d.issue # c.issue
       /\ \A d \in todo : d.op = "unauthorized_comment" /\ d.issue = c.issue => d = c

LEMMA PlanNotices ==
  ASSUME TypeOK, SnapInv, NoticeInv, PlanRepo
  PROVE  NoticeInv'
<1>0. todo' = Plan /\ issue' = issue /\ pc = "listed"
  BY DEF PlanRepo
<1>1. ASSUME NEW c \in Plan, c.op = "unauthorized_comment"
      PROVE  /\ Rejections(c.issue) = 0
             /\ \E d \in Plan : d.op = "unauthorized_label" /\ d.issue = c.issue
             /\ \A d \in Plan : d.op = "clear_unauthorized" => d.issue # c.issue
             /\ \A d \in Plan : d.op = "unauthorized_comment" /\ d.issue = c.issue => d = c
  <2>1. c.issue \in Issue /\ snap[c.issue].kind = "unauthorized" /\ "unauthorized" \notin snap[c.issue].latches
    BY <1>1, PlanCalls
  <2>2. Rejections(c.issue) = 0
    BY <1>0, <2>1 DEF SnapInv, NoticeInv
  <2>3. \E d \in Plan : d.op = "unauthorized_label" /\ d.issue = c.issue
    BY <1>1, PlanPairs
  <2>4. \A d \in Plan : d.op = "clear_unauthorized" => d.issue # c.issue
    BY <1>0, <2>1, PlanCalls DEF SnapInv
  <2>5. \A d \in Plan : d.op = "unauthorized_comment" /\ d.issue = c.issue => d = c
    <3>1. Plan \subseteq Calls
      BY PlanType DEF TypeOK
    <3>2. \A d \in Plan : d.config = snap[d.issue].config
      BY PlanCalls
    <3> QED BY <1>1, <3>1, <3>2 DEF Calls
  <2> QED BY <2>2, <2>3, <2>4, <2>5
<1> QED BY <1>0, <1>1 DEF NoticeInv, Rejections

LEMMA CallNotices ==
  ASSUME TypeOK, NoticeInv, NEW c \in todo, MakeCall(c)
  PROVE  NoticeInv'
<1>0. /\ issue \in [Issue -> Issues] /\ c \in Calls /\ c.issue \in Issue /\ c.op \in Ops
      /\ c.config \in Config \cup {NoConfig} /\ todo \subseteq Calls
      /\ \A i \in Issue : issue[i] \in Issues /\ issue[i].notices \in [Notices -> 0..MaxNotices]
  BY DEF TypeOK, Calls, Issues
<1>u. "unauthorized" \in Notices /\ Issue \subseteq Nat
  BY LifecycleAssumption DEF Notices, Latches, LifecycleAssumption
<1>1. CASE PostComment(c)
  <2> DEFINE k == CommentKind(c.op)
  <2>1. k \in Notices /\ NextCall(c)
    BY <1>0, <1>1, CallKinds DEF PostComment
  <2>2. /\ issue' = issue \/ issue' = [issue EXCEPT ![c.issue] = Posted(issue[c.issue], k, c.config)]
        /\ todo' = todo \ {c}
    BY <1>1 DEF PostComment
  <2>3. c.op = "unauthorized_comment" <=> k = "unauthorized"
    BY DEF CommentKind
  <2> HIDE DEF k
  <2>4. \A i \in Issue : issue'[i].latches = issue[i].latches
    BY <1>0, <2>1, <2>2, PostedEffect
  <2>5. \A i \in Issue : i # c.issue \/ k # "unauthorized" => Rejections(i)' = Rejections(i)
    BY <1>0, <1>u, <2>1, <2>2, PostedEffect DEF Rejections
  <2>6. CASE k # "unauthorized"
    <3>1. c.op # "unauthorized_label" /\ c.op # "unauthorized_comment"
      BY <1>1, <2>3, <2>6 DEF PostComment, CommentKind
    <3>2. \A i \in Issue : Rejections(i)' = Rejections(i)
      BY <2>5, <2>6
    <3>3. \A d \in todo : d.issue \in Issue
      BY <1>0 DEF Calls
    <3> QED BY <2>2, <2>4, <3>1, <3>2, <3>3 DEF NoticeInv
  <2>7. CASE k = "unauthorized"
    <3>1. c.op = "unauthorized_comment" /\ Rejections(c.issue) = 0
      BY <2>3, <2>7 DEF NoticeInv
    <3>2. ~\E d \in todo : d.op = "unauthorized_label" /\ d.issue = c.issue
      <4> SUFFICES ASSUME NEW d \in todo, d.op = "unauthorized_label", d.issue = c.issue PROVE FALSE
        OBVIOUS
      <4>1. d # c /\ Before(c, d)
        BY <2>1, <3>1 DEF NextCall
      <4>2. Section(c.op) = 7 /\ Section(d.op) = 7 /\ c.op \in Second
        BY <3>1 DEF Section, Second
      <4>3. \A x, y \in Nat : x = y => ~(x < y) /\ ~(x > y)
        OBVIOUS
      <4>4. ~(c.issue < d.issue) /\ ~(c.issue > d.issue)
        BY <1>0, <1>u, <4>3
      <4> QED BY <4>1, <4>2, <4>4 DEF Before
    <3>3. "unauthorized" \in issue[c.issue].latches
      BY <3>1, <3>2 DEF NoticeInv
    <3>4. Rejections(c.issue)' <= 1
      <4>1. Posted(issue[c.issue], k, c.config).notices[k] \in {0, 1}
        BY <1>0, <2>1, <2>7, <3>1, PostedEffect DEF Rejections
      <4> QED BY <1>0, <2>2, <2>7, <3>1, <4>1 DEF Rejections
    <3>5. \A d \in todo' : d.op = "unauthorized_comment" => d.issue # c.issue /\ d.issue \in Issue
      BY <1>0, <2>2, <3>1 DEF NoticeInv, Calls
    <3> QED BY <1>0, <2>2, <2>4, <2>5, <3>1, <3>3, <3>4, <3>5 DEF NoticeInv
  <2> QED BY <2>6, <2>7
<1>2. CASE AddLatch(c)
  <2>1. /\ \A i \in Issue : /\ issue[i].latches \subseteq issue'[i].latches
                            /\ Rejections(i)' = Rejections(i)
        /\ todo' \subseteq todo
    BY <1>0, <1>2 DEF AddLatch, Issues, Rejections
  <2>2. ASSUME NEW e \in todo', e.op = "unauthorized_comment"
        PROVE  \/ "unauthorized" \in issue'[e.issue].latches
               \/ \E d \in todo' : d.op = "unauthorized_label" /\ d.issue = e.issue
    <3>1. e \in todo /\ e.issue \in Issue
      BY <1>0, <2>1 DEF Calls
    <3>2. CASE "unauthorized" \in issue[e.issue].latches
      BY <2>1, <3>1, <3>2
    <3>3. ASSUME NEW d \in todo, d.op = "unauthorized_label", d.issue = e.issue
          PROVE  \/ "unauthorized" \in issue'[e.issue].latches
                 \/ \E f \in todo' : f.op = "unauthorized_label" /\ f.issue = e.issue
      <4>1. CASE d = c
        <5>1. LatchKind(c.op) = "unauthorized"
          BY <3>3, <4>1 DEF LatchKind
        <5>2. issue' = [issue EXCEPT ![c.issue].latches = @ \cup {LatchKind(c.op)}]
          BY <1>2, <2>2, <3>3, <4>1 DEF AddLatch
        <5>3. issue'[c.issue].latches = issue[c.issue].latches \cup {"unauthorized"}
          BY <1>0, <5>1, <5>2 DEF Issues
        <5> QED BY <3>3, <4>1, <5>3
      <4>2. CASE d # c
        <5>1. d \in todo'
          BY <1>2, <3>3, <4>2 DEF AddLatch
        <5> QED BY <3>3, <5>1
      <4> QED BY <4>1, <4>2
    <3> QED BY <2>2, <3>1, <3>2, <3>3 DEF NoticeInv
  <2> QED BY <1>0, <2>1, <2>2 DEF NoticeInv, Calls
<1>3. CASE RemoveLatch(c)
  <2> DEFINE l == ClearKind(c.op)
  <2>1. <<c.op, l>> \in {<<"clear_invalid", "invalid">>, <<"clear_unauthorized", "unauthorized">>}
    BY <1>3 DEF RemoveLatch, ClearKind
  <2> DEFINE removed == [issue EXCEPT ![c.issue].latches = @ \ {l}, ![c.issue].notices[l] = 0]
  <2>2. todo' = todo \ {c} /\ (issue' = issue \/ issue' = removed)
    BY <1>3 DEF RemoveLatch
  <2>l. l \in Latches /\ l \in Notices
    BY <2>1 DEF Latches, Notices
  <2> HIDE DEF l
  <2>3. /\ \A i \in Issue \ {c.issue} : removed[i] = issue[i]
        /\ removed[c.issue].latches = issue[c.issue].latches \ {l}
        /\ removed[c.issue].notices = [issue[c.issue].notices EXCEPT ![l] = 0]
    BY <1>0, <2>l DEF Issues
  <2> HIDE DEF removed
  <2>4. CASE l = "unauthorized"
    <3>1. \A d \in todo : d.op = "unauthorized_comment" => d.issue # c.issue /\ d.issue \in Issue
      BY <1>0, <2>1, <2>4 DEF NoticeInv, Calls
    <3>2. removed[c.issue].notices["unauthorized"] = 0
      BY <1>0, <1>u, <2>3, <2>4
    <3>3. \A i \in Issue : \/ Rejections(i)' = Rejections(i) /\ issue'[i].latches = issue[i].latches
                           \/ i = c.issue /\ Rejections(i)' = 0
      BY <2>2, <2>3, <3>2 DEF Rejections
    <3> QED BY <2>1, <2>2, <2>4, <3>1, <3>3 DEF NoticeInv
  <2>5. CASE l # "unauthorized"
    <3>1. \A i \in Issue : /\ Rejections(i)' = Rejections(i)
                           /\ "unauthorized" \in issue'[i].latches <=> "unauthorized" \in issue[i].latches
      BY <1>0, <1>u, <2>2, <2>3, <2>5 DEF Rejections
    <3>2. c.op = "clear_invalid"
      BY <2>1, <2>5
    <3> QED BY <1>0, <2>2, <3>1, <3>2 DEF NoticeInv, Calls
  <2> QED BY <2>4, <2>5
<1>4. CASE SpawnPreflight(c) \/ CreatePod(c) \/ CreateSecret(c) \/ TouchPending(c) \/ DeletePod(c)
  <2>1. issue' = issue
    BY <1>4 DEF SpawnPreflight, CreatePod, CreateSecret, TouchPending, DeletePod
  <2>2. c.op # "unauthorized_label"
    BY <1>4 DEF SpawnPreflight, CreatePod, CreateSecret, TouchPending, DeletePod
  <2>3. todo \ {c} \subseteq todo' /\ \A d \in todo' \ todo : d.op \in SpawnSteps
    BY <1>0, <1>4, CallRest
  <2> QED BY <2>1, <2>2, <2>3 DEF NoticeInv, Rejections, SpawnSteps
<1> QED BY <1>1, <1>2, <1>3, <1>4 DEF MakeCall

LEMMA NoticeStep ==
  ASSUME TypeOK, SnapInv, NoticeInv, [Next]_vars
  PROVE  NoticeInv'
<1>0. issue \in [Issue -> Issues] /\ \A c \in todo : c.issue \in Issue
  BY DEF TypeOK, Calls
<1>1. CASE PlanRepo
  BY <1>1, PlanNotices
<1>2. CASE \E c \in todo : MakeCall(c)
  BY <1>2, CallNotices
<1>3. CASE Crash \/ EndPass
  BY <1>3 DEF Crash, EndPass, NoticeInv, Rejections
<1>4. CASE \E i \in Issue : EditIssue(i)
  <2>1. todo' = todo /\ \A i \in Issue : issue'[i].notices = issue[i].notices
                                         /\ issue'[i].latches = issue[i].latches
    BY <1>0, <1>4, EditKeeps
  <2> QED BY <1>0, <2>1 DEF NoticeInv, Rejections
<1>5. CASE ListTriggers \/ PassFails \/ Tick \/ UNCHANGED vars
           \/ \E i \in Issue : PodStarts(i) \/ PodFails(i) \/ PodGone(i) \/ CollectSecret(i) \/ ChangeWorld(i)
  <2>1. issue' = issue /\ todo' = todo
    BY <1>5 DEF ListTriggers, PassFails, Tick, PodStarts, PodFails, PodGone, CollectSecret, ChangeWorld, vars
  <2> QED BY <2>1 DEF NoticeInv, Rejections
<1> QED BY <1>1, <1>2, <1>3, <1>4, <1>5 DEF Next, WorkerStep

LEMMA NoticeInit == Init => NoticeInv
<1>1. "unauthorized" \in Notices
  BY DEF Notices, Latches
<1> QED BY <1>1 DEF Init, NoticeInv, Rejections
-----------------------------------------------------------------------------
\* The calls that decide which body an announced issue's pod runs.
BoundCalls == {"spawn", "create_pod", "kill_drift"}

Announced(i) == "announced" \in issue[i].latches /\ issue[i].marker # NoConfig

\* Whatever the plan still creates or kills for drift agrees with the announced
\* body, and nothing else of the plan deletes the pod that drifted.
StandsInv ==
  /\ pc # "executing" => todo = {}
  /\ \A c \in todo : c.op \in BoundCalls /\ Announced(c.issue) => c.config = issue[c.issue].marker
  /\ \A c \in todo : c.op = "kill_drift" =>
       /\ pod[c.issue].life \in {"starting", "live", "terminal"}
       /\ LaunchHash[pod[c.issue].config] # LaunchHash[c.config]
       /\ \A d \in todo : d.op \in Killing /\ d.issue = c.issue => d = c

LEMMA PlanStands ==
  ASSUME "comments_read" \notin Faults, TypeOK, SnapInv, PlanRepo
  PROVE  StandsInv'
<1>0. todo' = Plan /\ issue' = issue /\ pod' = pod /\ pc = "listed" /\ pc' = "executing"
  BY DEF PlanRepo
<1>1. ASSUME NEW c \in Plan, c.op \in BoundCalls, Announced(c.issue)
      PROVE  c.config = issue[c.issue].marker
  <2>1. c.issue \in Registrations /\ ~Rejected(c.issue) /\ c.config = snap[c.issue].config
        /\ c.issue \in Issue
    BY <1>1, PlanCalls DEF BoundCalls
  <2>2. snap[c.issue].kind = "registration"
    BY <2>1, RegistrationsAreValid
  <2>3. snap[c.issue].hash = issue[c.issue].marker
    BY <1>0, <1>1, <2>1, <2>2 DEF SnapInv, Announced
  <2> QED BY <1>1, <2>1, <2>3 DEF Rejected, Announced
<1>2. ASSUME NEW c \in Plan, c.op = "kill_drift"
      PROVE  /\ pod[c.issue].life \in {"starting", "live", "terminal"}
             /\ LaunchHash[pod[c.issue].config] # LaunchHash[c.config]
             /\ \A d \in Plan : d.op \in Killing /\ d.issue = c.issue => d = c
  <2>1. /\ Running(c.issue) /\ Drifted(c.issue) /\ ~Rejected(c.issue)
        /\ c.issue \in Registrations /\ c.config = snap[c.issue].config
    BY <1>2, PlanCalls
  <2>2. ASSUME NEW d \in Plan, d.op \in Killing, d.issue = c.issue PROVE d = c
    <3>1. d.op \notin {"kill_idle", "kill_orphan", "cleanup_orphan", "cleanup"}
      BY <2>1, <2>2, PlanCalls DEF Running
    <3>2. d.op = c.op /\ d.config = c.config
      BY <1>2, <2>1, <2>2, <3>1, PlanCalls DEF Killing
    <3>3. c \in Calls /\ d \in Calls
      BY PlanType DEF TypeOK
    <3> QED BY <2>2, <3>2, <3>3 DEF Calls
  <2> QED BY <2>1, <2>2 DEF Running, Drifted
<1> QED BY <1>0, <1>1, <1>2 DEF StandsInv, Announced

\* When the announcement's turn comes, nothing is left to create or kill.
LEMMA AnnounceLast ==
  ASSUME NEW c \in todo, NextCall(c), c.op \in {"announce_comment", "announce_label"}
  PROVE  \A d \in todo : d.op \notin BoundCalls
<1> SUFFICES ASSUME NEW d \in todo, d.op \in BoundCalls PROVE FALSE
  OBVIOUS
<1>1. Section(c.op) = 2 /\ Section(d.op) = 1 /\ d # c
  BY DEF Section, BoundCalls
<1>2. Before(c, d)
  BY <1>1 DEF NextCall
<1> QED BY <1>1, <1>2 DEF Before

LEMMA CallStands ==
  ASSUME TypeOK, StandsInv, NEW c \in todo, MakeCall(c)
  PROVE  StandsInv'
<1>0. /\ issue \in [Issue -> Issues] /\ pod \in [Issue -> Pods] /\ c \in Calls /\ c.issue \in Issue
      /\ c.op \in Ops /\ c.config \in Config \cup {NoConfig} /\ todo \subseteq Calls
  BY DEF TypeOK, Calls
<1>t. \A d \in todo : d.issue \in Issue
  BY <1>0 DEF Calls
<1>p. pc = "executing" /\ pc' = "executing" /\ NextCall(c)
  BY DEF MakeCall, NextCall, PostComment, AddLatch, RemoveLatch, SpawnPreflight, CreatePod,
    CreateSecret, TouchPending, DeletePod
<1>1. CASE PostComment(c) \/ AddLatch(c) \/ RemoveLatch(c)
  <2>1. pod' = pod /\ todo' \subseteq todo
    BY <1>1 DEF PostComment, AddLatch, RemoveLatch
  <2>2. CASE c.op \in {"announce_comment", "announce_label"}
    <3>1. \A d \in todo : d.op \notin BoundCalls
      BY <1>p, <2>2, AnnounceLast
    <3> QED BY <1>p, <2>1, <3>1 DEF StandsInv, BoundCalls
  <2>3. CASE c.op \notin {"announce_comment", "announce_label"}
    <3>1. \A i \in Issue : Announced(i)' => Announced(i) /\ issue'[i].marker = issue[i].marker
      <4>1. CASE PostComment(c)
        <5>1. CommentKind(c.op) \in Notices /\ CommentKind(c.op) # "announced"
          BY <1>0, <2>3, <4>1, CallKinds DEF PostComment, CommentKind
        <5>2. issue' = issue
              \/ issue' = [issue EXCEPT ![c.issue] = Posted(issue[c.issue], CommentKind(c.op), c.config)]
          BY <4>1 DEF PostComment
        <5> QED BY <1>0, <5>1, <5>2, PostedEffect DEF Announced
      <4>2. CASE AddLatch(c)
        <5>1. LatchKind(c.op) # "announced"
          BY <2>3 DEF LatchKind
        <5>2. issue' = issue \/ issue' = [issue EXCEPT ![c.issue].latches = @ \cup {LatchKind(c.op)}]
          BY <4>2 DEF AddLatch
        <5>3. \A i \in Issue : /\ issue'[i].marker = issue[i].marker
                               /\ issue'[i].latches \ issue[i].latches \subseteq {LatchKind(c.op)}
          BY <1>0, <5>2 DEF Issues
        <5> QED BY <5>1, <5>3 DEF Announced
      <4>3. CASE RemoveLatch(c)
        <5>1. issue' = issue
              \/ issue' = [issue EXCEPT ![c.issue].latches = @ \ {ClearKind(c.op)},
                                        ![c.issue].notices[ClearKind(c.op)] = 0]
          BY <4>3 DEF RemoveLatch
        <5>2. \A i \in Issue : /\ issue'[i].marker = issue[i].marker
                               /\ issue'[i].latches \subseteq issue[i].latches
          BY <1>0, <5>1 DEF Issues
        <5> QED BY <5>2 DEF Announced
      <4> QED BY <1>1, <4>1, <4>2, <4>3
    <3> HIDE DEF Announced
    <3> QED BY <1>p, <1>t, <2>1, <3>1 DEF StandsInv
  <2> QED BY <2>2, <2>3
<1>2. CASE SpawnPreflight(c) \/ CreatePod(c) \/ CreateSecret(c) \/ TouchPending(c) \/ DeletePod(c)
  <2>1. issue' = issue
    BY <1>2 DEF SpawnPreflight, CreatePod, CreateSecret, TouchPending, DeletePod
  <2>2. \A d \in todo' : d \in todo \/ /\ d.op \in SpawnSteps /\ d.issue = c.issue /\ d.config = c.config
                                       /\ d.op = "create_pod" => c.op = "spawn"
    BY <1>0, <1>2, CallRest
  <2>3. \A d \in todo' : d.op \in BoundCalls /\ Announced(d.issue) => d.config = issue[d.issue].marker
    BY <2>2 DEF StandsInv, SpawnSteps, BoundCalls
  <2>4. \A d \in todo' : d.op \in Killing => d \in todo
    BY <2>2 DEF SpawnSteps, Killing
  <2>5. \A d \in todo' : d.op = "kill_drift" =>
          pod'[d.issue].life = pod[d.issue].life /\ pod'[d.issue].config = pod[d.issue].config
    <3> SUFFICES ASSUME NEW d \in todo', d.op = "kill_drift"
                 PROVE  pod'[d.issue].life = pod[d.issue].life /\ pod'[d.issue].config = pod[d.issue].config
      OBVIOUS
    <3>1. d \in todo /\ d.issue \in Issue /\ pod[d.issue].life # "absent"
      BY <1>t, <2>4 DEF Killing, StandsInv
    <3>2. CASE SpawnPreflight(c) \/ CreateSecret(c)
      BY <3>2 DEF SpawnPreflight, CreateSecret
    <3>3. CASE CreatePod(c)
      BY <1>0, <3>1, <3>3 DEF CreatePod
    <3>4. CASE TouchPending(c)
      <4>1. pod' = pod \/ pod' = [pod EXCEPT ![c.issue].idle = 0]
        BY <3>4 DEF TouchPending
      <4> QED BY <1>0, <3>1, <4>1 DEF Pods
    <3>5. CASE DeletePod(c)
      <4>1. d.issue # c.issue
        BY <3>1, <3>5 DEF DeletePod, StandsInv, Killing
      <4>2. pod' = pod \/ pod' = [pod EXCEPT ![c.issue].life = "terminating"]
        BY <3>5 DEF DeletePod
      <4> QED BY <1>0, <3>1, <4>1, <4>2
    <3> QED BY <1>2, <3>2, <3>3, <3>4, <3>5
  <2>6. \A d \in todo' : d.op = "kill_drift" =>
          /\ pod'[d.issue].life \in {"starting", "live", "terminal"}
          /\ LaunchHash[pod'[d.issue].config] # LaunchHash[d.config]
          /\ \A e \in todo' : e.op \in Killing /\ e.issue = d.issue => e = d
    BY <2>4, <2>5 DEF StandsInv, Killing
  <2> QED BY <1>p, <2>1, <2>3, <2>6 DEF StandsInv, Announced
<1> QED BY <1>1, <1>2 DEF MakeCall

\* A pod that nobody deletes keeps its body and does not vanish.
LEMMA ClusterStands ==
  ASSUME TypeOK, StandsInv,
         Tick \/ \E i \in Issue : PodStarts(i) \/ PodFails(i) \/ PodGone(i) \/ CollectSecret(i)
  PROVE  StandsInv'
<1>0. /\ pod \in [Issue -> Pods] /\ \A c \in todo : c.issue \in Issue
      /\ issue' = issue /\ todo' = todo /\ pc' = pc
  BY DEF TypeOK, Calls, Tick, PodStarts, PodFails, PodGone, CollectSecret
<1>1. \A i \in Issue : pod[i].life \in {"starting", "live", "terminal"} =>
        pod'[i].life \in {"starting", "live", "terminal"} /\ pod'[i].config = pod[i].config
  <2>1. CASE Tick
    <3>1. \A p \in Pods : Aged(p).life = p.life /\ Aged(p).config = p.config
      BY DEF Aged, Pods
    <3> QED BY <1>0, <2>1, <3>1 DEF Tick
  <2>2. CASE \E i \in Issue : PodStarts(i) \/ PodFails(i) \/ CollectSecret(i)
    <3>1. pod' = pod \/ \E i \in Issue, l \in {"live", "terminal"} : pod' = [pod EXCEPT ![i].life = l]
      BY <2>2 DEF PodStarts, PodFails, CollectSecret
    <3> QED BY <1>0, <3>1 DEF Pods
  <2>3. CASE \E i \in Issue : PodGone(i)
    BY <1>0, <2>3 DEF PodGone
  <2> QED BY <2>1, <2>2, <2>3
<1> QED BY <1>0, <1>1 DEF StandsInv, Announced

LEMMA StandsStep ==
  ASSUME "comments_read" \notin Faults, TypeOK, SnapInv, StandsInv, [Next]_vars
  PROVE  StandsInv'
<1>0. issue \in [Issue -> Issues] /\ \A c \in todo : c.issue \in Issue
  BY DEF TypeOK, Calls
<1>1. CASE PlanRepo
  BY <1>1, PlanStands
<1>2. CASE \E c \in todo : MakeCall(c)
  BY <1>2, CallStands
<1>3. CASE Crash \/ EndPass
  BY <1>3 DEF Crash, EndPass, StandsInv
<1>4. CASE \E i \in Issue : EditIssue(i)
  <2>1. todo' = todo /\ pod' = pod /\ pc' = pc
        /\ \A i \in Issue : issue'[i].marker = issue[i].marker /\ issue'[i].latches = issue[i].latches
    BY <1>0, <1>4, EditKeeps
  <2> QED BY <1>0, <2>1 DEF StandsInv, Announced
<1>5. CASE Tick \/ \E i \in Issue : PodStarts(i) \/ PodFails(i) \/ PodGone(i) \/ CollectSecret(i)
  BY <1>5, ClusterStands
<1>6. CASE ListTriggers \/ PassFails \/ UNCHANGED vars \/ \E i \in Issue : ChangeWorld(i)
  <2>1. issue' = issue /\ todo' = todo /\ pod' = pod /\ (pc' # "executing" => pc # "executing")
    BY <1>6 DEF ListTriggers, PassFails, ChangeWorld, vars
  <2> QED BY <2>1 DEF StandsInv, Announced
<1> QED BY <1>1, <1>2, <1>3, <1>4, <1>5, <1>6 DEF Next, WorkerStep

LEMMA StandsInit == Init => StandsInv
BY DEF Init, StandsInv

\* Only CreatePod makes a pod appear, and with the body of its call.
LEMMA PodAppears ==
  ASSUME TypeOK, [Next]_vars, NEW i \in Issue, pod[i].life = "absent", pod'[i].life # "absent"
  PROVE  \E c \in todo : c.op = "create_pod" /\ c.issue = i /\ pod'[i].config = c.config
<1>0. pod \in [Issue -> Pods] /\ \A c \in todo : c.issue \in Issue
  BY DEF TypeOK, Calls
<1>1. CASE \E c \in todo : CreatePod(c)
  BY <1>0, <1>1 DEF CreatePod
<1>2. CASE \E c \in todo : TouchPending(c) \/ DeletePod(c)
  BY <1>0, <1>2 DEF TouchPending, DeletePod
<1>3. CASE Tick
  BY <1>0, <1>3 DEF Tick, Aged
<1>4. CASE \E j \in Issue : PodStarts(j) \/ PodFails(j) \/ PodGone(j)
  BY <1>0, <1>4 DEF PodStarts, PodFails, PodGone, Running, NoPod
<1>5. CASE pod' = pod
  BY <1>5
<1> QED BY <1>1, <1>2, <1>3, <1>4, <1>5
    DEF Next, WorkerStep, MakeCall, ListTriggers, PlanRepo, EndPass, PassFails, Crash, PostComment,
      AddLatch, RemoveLatch, SpawnPreflight, CreateSecret, CollectSecret, EditIssue, ChangeWorld, vars

LEMMA StandsHolds ==
  ASSUME TypeOK, StandsInv, [Next]_vars, NEW i \in Issue, Announced(i)
  PROVE  StandsFor(i)
<1>1. pod[i].life = "absent" /\ pod'[i].life # "absent" => pod'[i].config = issue[i].marker
  BY PodAppears DEF StandsInv, BoundCalls
<1>2. ASSUME NEW c \in todo, c.issue = i, c.op = "kill_drift"
      PROVE LaunchHash[pod[i].config] # LaunchHash[issue[i].marker]
  BY <1>2 DEF StandsInv, BoundCalls
<1> QED BY <1>1, <1>2 DEF StandsFor
-----------------------------------------------------------------------------
\* Every state is well typed, whatever calls fail and whoever edits.
THEOREM TypeCorrect == Spec => []TypeOK
<1> QED BY TypeInit, TypeStep, PTL DEF Spec

\* flag_invalid, announce_session and reject_config_change post before they latch:
\* as long as comments get through, no crash and no failed or half-done label
\* write leaves a latch whose explanation was never posted.
THEOREM LatchesAreExplained ==
  ASSUME "comment" \notin Faults, MaxNotices > 0
  PROVE  Spec => []LatchIsExplained
<1>1. Init => SnapInv /\ ExplainInv
  BY ExplainInit
<1>2. TypeOK /\ SnapInv /\ ExplainInv /\ [Next]_vars => SnapInv' /\ ExplainInv'
  BY SnapStep, ExplainStep
<1>3. ExplainInv => LatchIsExplained
  BY DEF ExplainInv
<1> QED BY TypeCorrect, <1>1, <1>2, <1>3, PTL DEF Spec

\* flag_trigger_unauthorized latches before it posts: no fault makes the rejection
\* comment appear twice between two removals of the latch.
THEOREM OneRejectionNotice == Spec => []UnauthorizedNoticeOnce
<1>1. Init => SnapInv /\ NoticeInv
  BY ExplainInit, NoticeInit
<1>2. TypeOK /\ SnapInv /\ NoticeInv /\ [Next]_vars => SnapInv' /\ NoticeInv'
  BY SnapStep, NoticeStep
<1>3. NoticeInv => UnauthorizedNoticeOnce
  BY DEF NoticeInv, UnauthorizedNoticeOnce, Rejections
<1> QED BY TypeCorrect, <1>1, <1>2, <1>3, PTL DEF Spec

\* The safety of the issues and pods that the runs check, for any repository.
THEOREM LifecycleIsSafe ==
  ASSUME "comment" \notin Faults, MaxNotices > 0
  PROVE  Spec => []LifecycleSafe
<1>1. TypeOK /\ LatchIsExplained /\ UnauthorizedNoticeOnce => LifecycleSafe
  BY DEF LifecycleSafe
<1> QED BY TypeCorrect, LatchesAreExplained, OneRejectionNotice, <1>1, PTL

\* plan_repo, "CONFIG IMMUTABILITY": while the announcements can be read, an
\* announced issue's pod is created only from the announced body and killed for
\* drift only when it runs other launch inputs.
THEOREM AnnouncementsStand ==
  ASSUME "comments_read" \notin Faults
  PROVE  Spec => AnnouncedConfigStands
<1>1. Init => SnapInv /\ StandsInv
  BY ExplainInit, StandsInit
<1>2. TypeOK /\ SnapInv /\ StandsInv /\ [Next]_vars => SnapInv' /\ StandsInv'
  BY SnapStep, StandsStep
<1>3. TypeOK /\ StandsInv /\ [Next]_vars => [\A i \in Issue : StandsFor(i)]_vars
  BY StandsHolds DEF Announced, StandsFor
<1> QED BY TypeCorrect, <1>1, <1>2, <1>3, PTL DEF Spec, AnnouncedConfigStands
=============================================================================
