------------------------- MODULE SessionProjection -------------------------
(***************************************************************************)
(* The reconcile queue and its loops (reconcile/mod.rs, loops.rs) and the  *)
(* in-memory projection of open sessions they keep for the session routes  *)
(* (session_access/registry.rs).                                           *)
(*                                                                         *)
(* One consumer reconciles repositories serially; webhooks, the sweep and  *)
(* the full resync feed a bounded queue that drops what does not fit.  A   *)
(* full resync stages a generation of the projection that is published     *)
(* when its last repository has reported.  Losing leadership aborts the    *)
(* loops and their queue; the projection outlives them.                    *)
(***************************************************************************)
EXTENDS Naturals, Sequences, FiniteSets

CONSTANTS
  Repo,         \* repositories
  Session,      \* session ids
  Home,         \* the repository each session id is derived from
  Capacity,     \* capacity of the reconcile channel
  Faults,       \* the kinds of fault this instance may inject
  MaxFaults,    \* bound: faults per behaviour
  Changes,      \* the kinds of change authors and owners may make
  MaxChanges    \* bound: such changes per behaviour

ASSUME ProjectionAssumption ==
  /\ IsFiniteSet(Repo) /\ IsFiniteSet(Session)
  /\ Home \in [Session -> Repo]
  /\ Capacity \in Nat \ {0}
  /\ MaxFaults \in Nat /\ MaxChanges \in Nat

VARIABLES
  open,      \* the sessions whose trigger issue is open
  closed,    \* the sessions that have been closed
  installed, \* the repositories the App can enumerate
  broken,    \* the repositories whose every pass fails (Issues disabled)
  fleet,     \* the repositories with a live session runtime
  running,   \* a worker generation is running
  queue,     \* the reconcile channel
  batch,     \* the drained repositories still to be reconciled
  pass,      \* the consumer's pass: its repository, how far it is, what it read
  active,    \* active_repos: repositories with an open registration
  resync,    \* the full-resync coordinator: where it is and what it discovered
  live,      \* the published contexts
  staging,   \* the staged generation
  state,     \* readiness of the projection
  faults,    \* faults so far
  changes    \* changes so far

worker == <<running, queue, batch, pass, active, resync>>
registry == <<live, staging, state>>
world == <<open, closed, installed, broken, fleet>>
vars == <<world, worker, registry, faults, changes>>

Idle == [at |-> "idle", repo |-> {}, read |-> {}]

NoStaging == [on |-> FALSE, pending |-> {}, reported |-> {}, contexts |-> {}]

Sleeping == [at |-> "sleeping", found |-> {}, complete |-> TRUE]

TypeOK ==
  /\ open \subseteq Session /\ closed \subseteq Session
  /\ installed \subseteq Repo /\ broken \subseteq Repo /\ fleet \subseteq Repo
  /\ running \in BOOLEAN
  /\ queue \in Seq(Repo) /\ Len(queue) <= Capacity
  /\ batch \subseteq Repo /\ active \subseteq Repo
  /\ pass \in [at : {"idle", "reading", "publishing", "finishing"}, repo : SUBSET Repo,
               read : SUBSET Session]
  /\ resync \in [at : {"sleeping", "enumerated", "feeding"}, found : SUBSET Repo,
                 complete : BOOLEAN]
  /\ live \subseteq Session
  /\ staging \in [on : BOOLEAN, pending : SUBSET Repo, reported : SUBSET Repo,
                  contexts : SUBSET Session]
  /\ state \in {"cold", "recovering", "ready"}
  /\ faults \in 0..MaxFaults /\ changes \in 0..MaxChanges

\* A process with dispatch enabled whose first worker generation has just begun.
Init ==
  /\ open \in SUBSET Session /\ closed = {}
  /\ installed \in SUBSET Repo /\ broken \in SUBSET Repo /\ fleet = {}
  /\ running = TRUE
  /\ queue = <<>> /\ batch = {} /\ pass = Idle /\ active = {} /\ resync = Sleeping
  /\ live = {} /\ staging = NoStaging /\ state = "cold"
  /\ faults = 0 /\ changes = 0

Of(sessions, repos) == {s \in sessions : Home[s] \in repos}

NotOf(sessions, repos) == {s \in sessions : Home[s] \notin repos}

Fault(k) == k \in Faults /\ faults < MaxFaults /\ faults' = faults + 1
-----------------------------------------------------------------------------
\* Mutants: a repository that reported nothing keeps its entries; the staged sets
\* replace the whole live map.
FoldedWithoutReports == live \cup staging.contexts

FoldedAsGeneration == staging.contexts

\* RegistryInner::degrade_staging: every staged set is one repository's complete
\* set, so it replaces that repository's entries in the live map.
Folded == NotOf(live, staging.reported) \cup staging.contexts

\* SessionAccessRegistry::begin_generation over the repositories of an enumeration.
BeginGeneration(expected) ==
  LET folded == IF staging.on THEN Folded ELSE live
  IN IF expected = {}
     THEN /\ live' = {}
          /\ staging' = NoStaging
          /\ state' = "ready"
     ELSE /\ live' = folded
          /\ staging' = [on |-> TRUE, pending |-> expected, reported |-> {}, contexts |-> {}]
          /\ state' = IF state = "ready" THEN state ELSE "recovering"

\* SessionAccessRegistry::degrade, the common end of abandon_generation and
\* record_repo_failure.
Degrade ==
  IF staging.on
  THEN /\ live' = Folded
       /\ staging' = NoStaging
       /\ state' = IF state = "ready" THEN state ELSE "cold"
  ELSE UNCHANGED registry

\* Mutant: any failure degrades the staged generation.
AnyFailureDegrades(r) == Degrade

RecordRepoFailure(r) ==
  IF staging.on /\ r \in staging.pending THEN Degrade ELSE UNCHANGED registry

\* SessionAccessRegistry::replace_repo: into the staged generation, which is
\* published with its last repository, or else into the live map.
ReplaceRepo(r, sessions) ==
  LET next == [on |-> TRUE,
               pending |-> staging.pending \ {r},
               reported |-> staging.reported \cup {r},
               contexts |-> NotOf(staging.contexts, {r}) \cup sessions]
  IN CASE ~staging.on ->
            /\ live' = NotOf(live, {r}) \cup sessions
            /\ UNCHANGED <<staging, state>>
       [] staging.on /\ next.pending # {} ->
            /\ staging' = next
            /\ UNCHANGED <<live, state>>
       [] OTHER ->
            /\ live' = next.contexts
            /\ staging' = NoStaging
            /\ state' = "ready"
-----------------------------------------------------------------------------
\* enqueue_on: try_send; a full channel drops the key.
Enqueued(q, r) == IF Len(q) < Capacity THEN Append(q, r) ELSE q

\* A webhook names r; the dispatcher forwards it to the active generation only.
Hint(r) ==
  /\ "hint" \in Changes /\ changes < MaxChanges /\ changes' = changes + 1
  /\ running
  /\ queue' = Enqueued(queue, r)
  /\ UNCHANGED <<world, running, batch, pass, active, resync, registry, faults>>

\* The consumer blocks for a key and drains the rest of the channel into one
\* deduplicated batch.
Drain ==
  /\ running /\ pass.at = "idle" /\ batch = {}
  /\ queue # <<>>
  /\ batch' = {queue[n] : n \in 1..Len(queue)}
  /\ queue' = <<>>
  /\ UNCHANGED <<world, running, pass, active, resync, registry, faults, changes>>

StartPass(r) ==
  /\ running /\ pass.at = "idle" /\ r \in batch
  /\ batch' = batch \ {r}
  /\ pass' = [at |-> "reading", repo |-> {r}, read |-> {}]
  /\ UNCHANGED <<world, running, queue, active, resync, registry, faults, changes>>

\* reconcile_repo reads the open triggers ...
ReadTriggers(r) ==
  /\ pass.at = "reading" /\ pass.repo = {r}
  /\ r \in installed \ broken
  /\ pass' = [pass EXCEPT !.at = "publishing", !.read = Of(open, {r})]
  /\ UNCHANGED <<world, running, queue, batch, active, resync, registry, faults, changes>>

\* ... publishes them: set_active, then record_session_contexts ...
PublishContexts(r) ==
  /\ pass.at = "publishing" /\ pass.repo = {r}
  /\ active' = IF pass.read # {} THEN active \cup {r} ELSE active \ {r}
  /\ ReplaceRepo(r, pass.read)
  /\ pass' = [pass EXCEPT !.at = "finishing"]
  /\ UNCHANGED <<world, running, queue, batch, resync, faults, changes>>

\* ... and makes its plan real: runtimes for sessions that have work, none for
\* the rest.
FinishPass(r) ==
  /\ pass.at = "finishing" /\ pass.repo = {r}
  /\ pass' = Idle
  /\ fleet' \in IF pass.read = {} THEN {fleet \ {r}} ELSE {fleet, fleet \cup {r}}
  /\ UNCHANGED <<open, closed, installed, broken, running, queue, batch, active, resync, registry,
                 faults, changes>>

\* reconcile_one: any read of the pass fails; the failure is reported.
FailPass(r) ==
  /\ pass.at \in {"reading", "finishing"} /\ pass.repo = {r}
  /\ IF r \in installed \ broken THEN Fault("pass") ELSE faults' = faults
  /\ pass' = Idle
  /\ RecordRepoFailure(r)
  /\ UNCHANGED <<world, running, queue, batch, active, resync, changes>>

\* sweep_once: repositories with a live runtime or an open registration, as far
\* as the channel takes them.
Sweep ==
  /\ running
  /\ \E order \in [1..Cardinality(fleet \cup active) -> fleet \cup active] :
       /\ \A m, n \in DOMAIN order : order[m] = order[n] => m = n
       /\ LET room == Capacity - Len(queue)
              sent == IF room < Len(order) THEN room ELSE Len(order)
          IN queue' = queue \o SubSeq(order, 1, sent)
  /\ UNCHANGED <<world, running, batch, pass, active, resync, registry, faults, changes>>

\* full_resync_once: enumerate the installations' repositories; an installation
\* that cannot be listed makes the pass partial ...
Enumerate ==
  /\ running /\ resync.at = "sleeping"
  /\ \/ /\ resync' = [at |-> "enumerated", found |-> installed, complete |-> TRUE]
        /\ faults' = faults
     \/ /\ Fault("enumerate")
        /\ \E missed \in installed :
             resync' = [at |-> "enumerated", found |-> installed \ {missed}, complete |-> FALSE]
  /\ UNCHANGED <<world, running, queue, batch, pass, active, registry, changes>>

\* Mutant: a partial enumeration opens a generation as well.
OpenPartialGeneration ==
  /\ running /\ resync.at = "enumerated"
  /\ BeginGeneration(resync.found)
  /\ resync' = [resync EXCEPT !.at = "feeding"]
  /\ UNCHANGED <<world, running, queue, batch, pass, active, faults, changes>>

\* ... open a generation for a complete enumeration, abandon the staged one
\* otherwise ...
OpenGeneration ==
  /\ running /\ resync.at = "enumerated"
  /\ IF resync.complete THEN BeginGeneration(resync.found) ELSE Degrade
  /\ resync' = [resync EXCEPT !.at = "feeding"]
  /\ UNCHANGED <<world, running, queue, batch, pass, active, faults, changes>>

\* ... and enqueue what was found.
Feed(r) ==
  /\ running /\ resync.at = "feeding" /\ r \in resync.found
  /\ queue' = Enqueued(queue, r)
  /\ resync' = [resync EXCEPT !.found = @ \ {r}]
  /\ UNCHANGED <<world, running, batch, pass, active, registry, faults, changes>>

ResyncDone ==
  /\ running /\ resync.at = "feeding" /\ resync.found = {}
  /\ resync' = Sleeping
  /\ UNCHANGED <<world, running, queue, batch, pass, active, registry, faults, changes>>

\* Leadership is lost: the generation's tasks are aborted and joined, its queue,
\* active set and pass go with them; the projection stays.
Abort ==
  /\ running
  /\ Fault("abort")
  /\ running' = FALSE
  /\ queue' = <<>> /\ batch' = {} /\ pass' = Idle /\ active' = {} /\ resync' = Sleeping
  /\ UNCHANGED <<world, registry, changes>>

\* Leadership is won again: a fresh generation.
Acquire ==
  /\ ~running
  /\ running' = TRUE
  /\ UNCHANGED <<world, queue, batch, pass, active, resync, registry, faults, changes>>
-----------------------------------------------------------------------------
Change(k) == k \in Changes /\ changes < MaxChanges /\ changes' = changes + 1

OpenSession(s) ==
  /\ Change("open")
  /\ s \notin open \cup closed
  /\ open' = open \cup {s}
  /\ UNCHANGED <<closed, installed, broken, fleet, worker, registry, faults>>

CloseSession(s) ==
  /\ Change("close")
  /\ s \in open
  /\ open' = open \ {s} /\ closed' = closed \cup {s}
  /\ UNCHANGED <<installed, broken, fleet, worker, registry, faults>>

Uninstall(r) ==
  /\ Change("uninstall")
  /\ r \in installed
  /\ installed' = installed \ {r}
  /\ UNCHANGED <<open, closed, broken, fleet, worker, registry, faults>>

Install(r) ==
  /\ Change("install")
  /\ r \notin installed
  /\ installed' = installed \cup {r}
  /\ UNCHANGED <<open, closed, broken, fleet, worker, registry, faults>>

Disable(r) ==
  /\ Change("disable")
  /\ r \notin broken
  /\ broken' = broken \cup {r}
  /\ UNCHANGED <<open, closed, installed, fleet, worker, registry, faults>>

PassStep ==
  \/ Drain
  \/ \E r \in Repo : \/ StartPass(r) \/ ReadTriggers(r) \/ PublishContexts(r)
                     \/ FinishPass(r) \/ FailPass(r)

ResyncStep ==
  \/ Enumerate \/ OpenGeneration \/ ResyncDone
  \/ \E r \in Repo : Feed(r)

Next ==
  \/ PassStep \/ ResyncStep \/ Sweep \/ Abort \/ Acquire
  \/ \E r \in Repo : Hint(r) \/ Uninstall(r) \/ Install(r) \/ Disable(r)
  \/ \E s \in Session : OpenSession(s) \/ CloseSession(s)

Spec == Init /\ [][Next]_vars

\* Every loop of a running generation keeps going, and an elected process starts one.
Fairness ==
  /\ WF_vars(PassStep) /\ WF_vars(ResyncStep) /\ WF_vars(Sweep) /\ WF_vars(Acquire)

FairSpec == Spec /\ Fairness
-----------------------------------------------------------------------------
\* Readiness (RegistryState): a ready projection knows every open session of an
\* installed repository, so "unknown" is never answered for "not yet known".
\* Stated for sessions and installations that were there when the process began.
ReadyKnowsAll == state = "ready" => Of(open, installed) \subseteq live

\* What holds of the queue and the projection at every state.
ProjectionSafe == TypeOK /\ ReadyKnowsAll

\* A published session is never dropped while its issue stays open and its
\* repository installed: not by a new generation, a degraded or an abandoned one,
\* a failing repository, or a lost leadership in the middle of any of them.
NeverForgetsStep ==
  (live \cap Of(open \cap open', installed \cap installed')) \subseteq live'

NeverForgets == [][NeverForgetsStep]_vars

QueueHasRoom == Len(queue) < Capacity

\* Eventually the resync interval is longer than a round of passes: no enumeration
\* begins while a generation is staged.
PatientResync == <>[][resync.at = "sleeping" /\ resync'.at = "enumerated" => ~staging.on]_vars

\* Cold start (begin_generation, replace_repo): if the channel eventually stays
\* below its capacity and refreshes do not supersede each other, the projection
\* becomes ready, although an uninstalled repository with a runtime keeps failing
\* and passes, enumerations and generations are interrupted now and then.
EventuallyReady ==
  [](broken = {}) /\ <>[]QueueHasRoom /\ PatientResync => <>(state = "ready")

\* No stale grant (replace_repo, degrade_staging): a closed session of a
\* repository that can be reconciled leaves the projection for good, although
\* another repository keeps every generation from completing.
ClosedIsRevoked ==
  \A s \in Session :
    <>[](s \in closed /\ Home[s] \in installed \ broken) /\ <>[]QueueHasRoom
      => <>[](s \notin live)
=============================================================================
