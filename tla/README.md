# fkst-hosted: a TLA+ development of the control plane

fkst-hosted runs coding-agent sessions for GitHub repositories. A session is a GitHub issue
with a trigger label and a structured body. The control plane (a Rust service,
`backend/src`, one or more replicas) compares the open trigger issues with the session pods of
a Kubernetes cluster (or the sandboxes of an OpenSandbox service) and makes them agree. It keeps
no database for this: its durable state is the labels and comments of the issues, the pods and one
Lease. Around that loop stand the services this development also models: audit, environment
profiles, schedules, credentials, logs, templates, chat and the read API.

Paths below are relative to `src/backend/src/` unless they begin with `deploy/`.

1. [The system](#1-the-system)
2. [Modules and the code](#2-modules-and-the-code)
3. [Runs](#3-runs)
4. [Fairness](#4-fairness)
5. [Proofs](#5-proofs)
6. [Where code and documentation disagree](#6-where-code-and-documentation-disagree)
7. [What is not modelled](#7-what-is-not-modelled)
8. [Plan](#8-plan)

## 1. The system

| Component | State | Operations | Hard behaviour | Correct when |
|---|---|---|---|---|
| Leader election (`leader_election.rs`, `leader_config.rs`) | the Lease; per process `ElectionState` and a watch channel | claim (read, compare-and-swap), observe, sleep | lost and late writes, clock error, timers that fire late, restarts under the same identity | who leads on a valid Lease owns it, takeovers wait for expiry, leadership ends without renewals |
| Worker generations, readiness, routing (`main.rs`, `recovery.rs`, `leader_routing.rs`) | the current generation, the dispatcher's target, `RecoveryMonitor`, a label on each Pod | start, cancel, join; record attempts; list and patch Pods | a generation cancelled before it began, results that outlive the term they began in, a patch that lands after its caller was aborted | hints reach only a running generation; ready means elected, resynced and selected |
| Reconcile pass (`reconcile/`) | nothing of its own; latch labels, comments, pods | list, classify, plan, make the calls | a crash or a failed call between any two calls, edits during the pass, comments that cannot be read | an announced config is immutable; comments and latches agree; the loop converges |
| Session launcher (`k8s/session_launcher.rs`) | Pods and their Secrets | create, mark pending, delete | Pod and Secret are two creates; the collector is asynchronous | no pod is left half made |
| Queue and loops, projection (`reconcile/mod.rs`, `reconcile/loops.rs`, `session_access/registry.rs`) | a bounded channel; the live map, a staged generation, readiness | hint, sweep, resync, drain; begin, replace, fail, abandon | a full channel drops keys; partial enumerations; generations that overtake each other | ready is complete; nothing known is forgotten; closed sessions are revoked |
| Work issues (`reconcile/work_ack.rs`, `reconcile/retire.rs`) | labels and comments of work issues | acknowledge, reject, retire | crash points over many issues, label snapshots, pods that go | one comment per event, labels that tell the truth |
| Schedules (`schedule/`, `reconcile/schedule_*.rs`) | records, labels and run issues of a schedule | due decision, watchdog, dispatch, manual run | lost calls and crashes between record, run issue and label | each slot runs at most once and in the end |
| Session requests (`routes/canvas/mutate.rs`, `routes/github_app_webhook/`, `disposable_environment.rs`, `reconcile/seed_issue.rs`) | trigger issues, the registry of one-time environments | create, stop, seed, close hook, spawn | two callers between check and write, restarts, redelivered events | a runtime has the environment its issue asks for; a payload is dropped only for a reason |
| Credentials (`k8s/token_rotation.rs`, `k8s/creds_watch.rs`, `session_backend/opensandbox/`) | sandboxes, pushed files, a bundle cache, expiry per session | ensure, adopt, upload, probe, rotate, re-push, stop | an API without names, a push cut in the middle, container restarts, back-off | a pod starts only on a whole bundle; no token expires in use |
| Session pod and its logs (`session_pod/`) | checkouts, the engine process; channel, tree on disk, indexes, uploads | clone, install, supervise; tee, tail, copy, flush | restarts between any two steps, stragglers, failed uploads | the engine runs on its plan; the indexes list what exists |
| Environment profiles (`routes/environments.rs`, `k8s/durable_env_store/`, `k8s/env_store.rs`, `k8s/env_validator.rs`) | a sealed object, or a ConfigMap and a Secret; validation pods and permits | write, delete, validate, migrate | lost answers, two writers of one version, migration beside them | one of two writers wins; the migration loses no profile |
| Audit (`audit/`, `audit_relay/`) | a bounded queue and a batch; a SQLite outbox | submit, batch, retry, drain; register, complete, claim, capture, verify, close, purge | retries of what was done, lost answers, late commits, shutdown | nothing admitted is lost silently; what is answered is recorded |
| Access policy, session-access gate (`access_policy.rs`, `session_access/`) | none (a live policy and the projection) | admit, capability, relation, scope, rows | logins that change hands, digits that look like ids | outsiders have nothing; rights that rest on ids stay with the id |
| App client (`github_app/`) | two caches; nothing else | resolve, mint, list by pages, write | entries stored after an eviction, pages that shift, tokens that lose access | nothing stale is served; listings are faithful |
| Templates (`github_app/template_install.rs`, `reconcile/automerge.rs`) | a branch, a pull request, marker files | look up, upload, propose, merge, clean up | people who push and close, lost calls | no churn, no foreign file merged |
| Chat (`chat/`, `routes/chat.rs`) | in-flight users, permits, a channel of frames | admit, rounds of tools, frames, deadline | disconnects and deadlines at any await, streams cut in the middle | a user has one turn; one terminal frame |
| Activity read API (`operations/`, `routes/operations/`) | none (cursors) | page, merge, dedupe | sources that fail, rows that arrive while a client walks | pages tile; a refusal has a reason |

How they interact:

    browser --> HTTP routes --create, stop--> GitHub issues <--comments, labels-- reconcile pass
                  |    \--audit--> queue / relay --> analytics       ^   |
                  |                                                  |   v
    GitHub webhooks --hint--> dispatcher --target--> channel --> consumer  pods, sandboxes
                                                        ^                  ^        |
    sweep, full resync --------------enqueue------------+                  |        v
                                                                   credentials, rotation   logs
    election --watch--> supervisor --> worker generation (all loops above)
        |                                 |
        v                                 v
    RecoveryMonitor <--attempts-- resync coordinator --> session-access projection --> HTTP routes
        ^                                 |
        +------------ routing loop -------+--> Pod labels --> Service

Losing leadership aborts the loops of a generation at any await and drops its channel and its
active set. The projection, the monitor, the one-time environments, the credential cache and
everything at GitHub, Kubernetes and the relay outlive it.

The complete list of components, modelled or not, and of hazards, each at its line, is in
`PROJECT.json`.

## 2. Modules and the code

Each module keeps the source's names where it can. Every action stands for one await-free stretch
of code, up to and including one external call; between two actions anything else may happen.
Every definition's lines are in the `map` of `PROJECT.json`. A definition introduced by a comment
"Mutant" is a plausible bug: putting it in the place of the definition that follows must break the
property `PROJECT.json` pairs it with. `faults` and `changes` (or `edits`) count failures and what
people do; the kinds an instance allows are its constants.

### The reconciler

**LeaderElection, LeaderOffice.** One `claim_once` is `StartAttempt` (wake, read the clock, GET), then `ReadFollower` or
`ReadClaimable` (send the create or replace with the version read), `ServerWrite` at the API server, and
`ReceiveResponse`. The retry-period timeout around it, like any error, is `AttemptFails`: it drops the
caller's future, not the request, which stays `inflight` and may still be applied. `Restart` is a container
restart under the same identity. `ElectionState::observe` is `ObserveHolder`, `ObserveFollower`,
`ObserveFailure`; `granted` is a history variable: when the renewing attempt began. Time is one integer clock; a
process reads it with an error in `0..ClockSkew`, and `Tick` is blocked while it would make a timer more than
`SchedLag` late. `lease_transitions` saturates; the cap is `MaxTransitions`. LeaderOffice is the promise to the supervisors, without Lease, clocks and
requests: an owner and who leads on a valid Lease. The election implements it with `owner <- lease.holder` and, as `elected`, the leaders whose
last renewal is still within the lease duration on every clock (`Valid(granted[p])`).

**LeaderGenerations.** For each replica: `Supervise` and `Joined` (`supervise_leader_generations`), `Activate`,
`StopGeneration`, `Withdraw` (`run_worker_generation`), `ResyncStart` and `ResyncEnd`
(`run_resync_coordinator`), `RouterTick`, `RouterPatch`, `RouterDone` (the routing loop, patch by patch).
`Acquired`, `Attempted`, `Routed`, `RoutingFailed`, `Unavailable` are the methods of `RecoveryMonitor`. The watch
channel keeps only its last value: `elected` is the value, `unseen` says whether the receiver has yet to see a
change. The election is abstract here: `Win` and `Lose` flip the channel, and a replica may win while another, whose Lease ran out, still
believes that it leads (`LeaderOwnsLease` bounds for how long). `proven` is a history variable.

**SessionLifecycle.** One repository's passes. `ListTriggers` is the listing, classification and the reading of
config-hash markers; `PlanRepo` observes pods and work and computes `Plan` (`plan_repo`,
`plan_trigger_authorization`); `todo` holds the plan's calls, which `NextCall` orders as the code does (sections of
the plan, issues newest first, comment before latch or, for the unauthorized latch, after it). Each call is its own
action, may fail, and the ones that change something may have done so before they failed. The cluster is
`PodStarts`, `PodFails`, `PodGone`, `CollectSecret`, `Tick` (external). A body is identified with its
`full_config_hash`; `LaunchHash` maps bodies to launch inputs and `WorkLabels` to the labels that route work. What an
announcement carries is the hash of the *first* announcement (`marker`), the one `parse_config_hash_marker` finds.

**SessionProjection.** `queue` is the bounded channel, `batch` what the consumer has drained, `pass` its pass in
three steps: `ReadTriggers`, `PublishContexts`, `FinishPass`. `Sweep`, `Enumerate`, `OpenGeneration`, `Feed` and
`ResyncDone` are the loops; `Abort` and `Acquire` the loss and the next win of leadership. `BeginGeneration`,
`ReplaceRepo`, `RecordRepoFailure`, `Degrade` are the methods of `SessionAccessRegistry`; a context is identified with its
session id.

**WorkIssues.** The feedback a pass leaves on the work issues: `Registrations`, the label snapshot, acknowledge, reject
and unrouted per session, retirement of closed sessions with their orphan pods, call by call (`PassStep`; the calls still to make are a set
with the order of the code, `Before`), with writes that fail, crashes, people who change labels and assignees (`People`) and pods that go or exit.

**SchedulePass, Cron.** One scheduled workflow. `Clock` is a step of the pass (due decision, adoption of a run left behind, watchdog,
record, run issue, labels), `ManualCall` one of the run-now route, `SweepCallFails` and `ManualCallFails` lose a
call before or after it took effect, the record of a dispatch too (`unrecorded`, a history variable). Cron translates the calendar: parsing of a field, the forward and the backward search over
minutes with the day rule, the horizon and the cadence guard; one state per expression and start, `Fire` moves to the next.

**SessionRequests.** `CreateSession` is validation and the collision read, `CreateIssue` the write, `HandOver` the
registration of a one-time environment. Calls are tasks of their own (`Call`), also those of one user, and one whose answer is lost leaves
its request behind, to be carried out late or never (`CallLost`, `LateCreate`, `LateClose`). Then stop and close, by the owner or an administrator; issues opened by hand; the webhook's close
hook; overlapping seed tasks; and the spawn or credential recovery of a pass, from `Begin` over `Resolve` and `LoadProfile` to `EnsureSession` (created, already live, or failed). `wanted` holds
what else a spawn needs (pending work, no rejected edit, an authorized creator) and comes and goes freely here. `Restart` empties the registry and ends all calls.

**TemplatePulls.** The issue templates of one repository: lookup, file check, branch, upload, pull request, mark, cleanup
and recreation (`App`), auto-merge, and people who push, open, merge, close.

### Sessions and pods

**SandboxCreds.** The sandboxes of one session (`fleet`, oldest first), each with the files that made it into its
container; the reconciler's one task (`rec`: ensure, create, adopt, upload file by file with the sentinel
last, stop), the two fleet sweeps of the rotation loop and the watch (list, reap duplicates, probe, re-push), the
observation shield, the cache and the re-push queue. A container restart wipes the files; the new container may come up at any time, also between two requests of one push
(`torn`, a history variable). `Gate` and `Materialize` are
the pod's side.

**TokenRotation.** A full sweep every interval (`StartSweep`, `RotateOne`, `EndPass`), repair passes over the failed sessions
whose own back-off has elapsed (`StartRepair`), sessions that come, end or lose their installation. The loop is urgent; clocks
count down, a token has an age.

**SessionPod.** `Launch` is one step of the driver: wait for credentials, the clones with their reuse of
checkouts left by an earlier container, manifest, install commands, codex configuration, engine, drain; it may be killed in any of
them and starts over. `CutOff` is what a git that is killed leaves of a clone: no origin yet, HEAD at git's initial branch, or HEAD at the ref without all files.

**LogStream.** `Tee`, `WriteLog`, `TruncateLog`, `WriteReport` are the engine's side; `Collector` is one step of the
thread: take a line, poll the file, copy reports, seal and upload the bundle to two objects, the run's index, the
health index, the final flush. Every storage call may fail; `Kill` and `Restart` keep or lose the volume.

**Environments.** Requests (`Submit`, `Serve`: read, cap check, validation pod under a permit, write, answer), processes that
migrate at `StartUp` and `Crash`, and the reaper. Two stores: the pair of a ConfigMap and a Secret, and the sealed object.

### Services

**AuditWorker.** `Produce` is a submission in three steps (closed flag, `try_send`, depth counter), `Work` the worker's select loop, its
sends with capped retries and the bounded drain; `Return` the end of `drain()`.

**AuditRelay, AuditOutbox.** The middleware of a request (`Arrive`, `Handle`), calls to the relay that may be answered, lost,
given up, or land late (`Answer`, `LoseAttempt`, `GiveUp`, `LateCall`), the lifecycle queue, and the relay's `Clock`
and `Sweep`: closing of overdue starts, claim, capture, isolation of a rejected batch, verification, dead letters, purge,
with `Ingest` and `Mislay` at the analytics store. Rows are numbered in the order of `terminal_at`; time is the set of deadlines that
have passed. AuditOutbox is the promise of one record: decided once, forgotten only after it was shown. AuditRelay
implements it under the substitution of `Outbox` (`ImplementsOutbox`).

**AccessPolicy.** The decision functions as operators over the live policy, the facts of a session and the viewer; `Rename` hands a login to somebody
else, `Publish` changes what the projection knows.

**Installations, GithubIssues.** The two caches of the App client with their in-flight calls, hooks and retry after eviction; and the
calls over one repository: token, then requests or pages, each meeting the repository as it is then, with windows and status mapping.

**ActivityRead.** A client walks pages with a keyset cursor while rows land in the relay and are delivered to the analytics store; both
sources are fetched for every page and may fail; permits per principal and in all.

**ChatTurns.** `AdmitUser` and `Grace` (`ChatLimits::admit`), `Task` (rounds of model and tools), `Chunk` (fragments of the provider's
stream), `Deadline`, `Receive` and `Leave` (the browser), `LeaveGrace` (a disconnect while no permit is free).

### Compositions

Small components are put together, one composition for several. A variable `part` names the component that
moves in a behaviour; the others have no state (their variables are 0) and stay that way, so the state space is the *sum* of
the components' and not the product. They share no state in the code either. One component's module is EXTENDED, the
others are INSTANCEs with their bounds as constants of the composition; an invariant of the composition is "if this part moves, its
module's invariant", and fairness is that of each component for the part that moves. The composition is a module of its own, about which theorems are
proved; the `MC_` module of the same name only gives values to its constants.

- `Controllers`: LeaderGenerations twice (one replica over many terms; two replicas once), Installations, WorkIssues.
- `Requests`: SessionRequests, AccessPolicy, Cron.
- `Sessions`: SandboxCreds, TokenRotation, LogStream (lines; reports; restart).
- `Services`: AuditWorker, SchedulePass, TemplatePulls, SessionPod, Environments (durable store;
  migration by two processes; the pair), ActivityRead (one long walk; two walks), GithubIssues (listings; other calls), ChatTurns
  (admission of three turns; one turn in detail).

## 3. Runs

A fault (a failed call, a crash, a late patch) or a change (an edit, a closed issue, an uninstalled
repository) happens at most `MaxFaults` or `MaxChanges` times in a behaviour, of the kinds the cfg lists, at
any point.

| Run | Checks | What it shows | Bounds |
|---|---|---|---|
| `Leadership` | `ElectionSafe`, `LeaderOwnsLease`, `NoEarlyTakeover`, `TransitionsCountHolders`, `ImplementsOffice` | a valid Lease has one leader, its owner, and an overtaken leader stops in bounded time | 2 replicas, 6/4/1, clock to 8, 2 requests in flight; 1.7 M states |
| `Controllers` | `CachesSafe`, `WorkSafe`, `GenerationsSafe`, `LeaderServes`, `ControllersConverge` | caches, work issues, generations and failover (see below) | 1 replica with 4 terms and 3 faults; 2 replicas with 1 term and 1 fault; 0.3 M states |
| `SessionLifecycle_safe` | `LifecycleSafe`, `AnnouncedConfigStands` | immutability and notices under every crash point | 1 issue, 4 bodies, 2 faults, 2 changes; 0.7 M states |
| `SessionLifecycle_live` | `UnwantedIsCleaned`, `IdleIsReclaimed`, `PendingIsServed` | the loop converges | 2 issues with one work label, 1 fault, 2 changes; 0.2 M states |
| `SessionLifecycle_partial_pod` | `NoPartialPod` (violated) | a crash between Pod and Secret is never repaired | 1 issue, 1 crash |
| `SessionProjection_safe` | `ProjectionSafe`, `NeverForgets` | readiness is complete, nothing known is dropped | 2 repositories, 1 session, channel of 2, 1 fault, 2 changes; 1.2 M states |
| `SessionProjection_live` | `EventuallyReady`, `ClosedIsRevoked` | cold start ends; closed sessions are revoked | 2 repositories, 1 session, channel of 2, 1 fault, 1 change; 0.4 M states |
| `Requests` | `RequestsSafe`, `AccessSafe`, `CronSafe`, `CarefulSteps` | hand-off of requests, access decisions, calendar | 2 users, one an administrator, 2 overlapping calls, 1 issue; 2 users, 4 texts; 11 expressions, 5 start days |
| `Sessions` | `CredsSafe`, `RotationSafe`, `LogSafe`, `SessionsSettle` | credentials arrive whole and in time; indexes list what exists | 3 sandboxes, 2 files, 2 attempts, 1 fault, 1 change; 2 sessions, 2 faults; 3 log parts; 0.1 M states |
| `Services` | `ScheduleSafe`, `WorkerSafe`, `PodSafe`, `EnvironmentsSafe`, `WalksSafe`, `CallsSafe`, `TurnsSafe`, `CarefulSteps`, `ServicesSettle` | the services, each under its own failures | 13 parts; 0.4 M states |
| `AuditRelay_safe` | `RelaySafe`, `ImplementsOutbox`, `RelaySettles` | what is answered is recorded; the relay implements the outbox | 4 scenarios, batch and capacity 2, 2 attempts, 1 fault |
| `ChatTurns_leak` | `NobodyLockedOut` (violated) | a disconnect during the permit's grace locks the user out | 3 turns, 1 permit |

What the properties say, module by module (a `...Safe` is the conjunction of the type invariant and the named ones):

- *LeaderElection*: `LeadershipIsBounded`; `LeaderOwnsLease` (a believed leader owns the Lease until its validity has run out, and an overtaken one stops in bounded time);
  `NoEarlyTakeover`, `TransitionsCountHolders`; `ImplementsOffice` (the Lease changes hands only while nobody leads on a valid one).
- *LeaderGenerations*: `TargetIsRunning` (the dispatcher feeds only a running generation), `ReadyIsEarned` (ready only after a resync and
  a published label of one's own); `LeaderServes`: a replica that stays elected, alone, ends up ready and the only one selected.
- *Installations*: `ServedIsAsked`, `EvictionHolds` (a key evicted while no call is in flight is not served stale). *WorkIssues*: `NoticeOnce`,
  `RetireNotifies`. `ControllersConverge`: the caches end up agreeing with GitHub, the labels of work issues with the sessions.
- *SessionLifecycle*: `LatchIsExplained` (a latch label is preceded by its comment), `UnauthorizedNoticeOnce`, `AnnouncedConfigStands` (a pod is created
  only from the announced body, and killed for drift only if it runs other launch inputs).
- *SessionProjection*: `ReadyKnowsAll`, `NeverForgets`.
- *SessionRequests*: `SandboxIsAsAsked`, `ForgottenForAReason` (in `CarefulSteps`). *AccessPolicy*: `OutsiderHasNothing`, `OnlyOwnRows`, `RightsFollowTheId`, `NoExistenceOracle`. *Cron*: `SearchesAgree`,
  `HorizonIsEnough`, `DayRule` (against the standard rule), `GuardIsSound`.
- *SandboxCreds*: `StartedComplete` (a pod that started has every file, unless it came up in the middle of a push). *TokenRotation*: `NeverExpires`. `SessionsSettle`: a session with work ends up
  in one healthy sandbox, a closed one in none; a session that cannot mint is reported.
- *SchedulePass*: `SlotRunsOnce`, `NoOverlap`, both of the runs that have their record. *AuditWorker*: `NothingForgotten`, `LastChanceGiven`, `StopAccountsForAll`. *TemplatePulls*: `NeverChurn`,
  `NeverForeign`, `InstalledWhole`. *SessionPod*: `EngineOnPlan`, `SecretsStayOut`, `ExitTells`. *LogStream*: `ListedExists`, `OncePerRun`, `SentIsWhole`,
  `EndDelivers`. *Environments*: `OneWinnerPerRead`, `ProfileSurvives`, `AnswerIsTrue`. *ActivityRead*: `NoOverlap`, `WalkIsComplete`,
  `RefusedForAReason`. *GithubIssues*: `ListingIsFaithful`, `AdminsOnce`, `NewestCommentsAreRead`, `OkIsApplied`, `LabelsEnsured`. *ChatTurns*: `OneTurnPerUser`,
  `LockedForAReason`, `TerminalFrame`, `HistoryWellFormed`, `NoHalfCall`. `ServicesSettle` says what each ends in.
- *AuditRelay*: `ReleasedIsRecorded`, `RefusalIsExplained`, `DeadIsEarned`; `RelaySettles`: an overdue start is closed, an outcome captured or given up.

Why these bounds are enough to be interesting:

- *Election.* Two contenders suffice for a race; two requests in flight let one late write meet a younger one of
  either process; clock 8 leaves time for a takeover, since the Lease lasts 6, and its aftermath. At 6/4/1 the bound on an overtaken leader (deadline and
  three retry periods: 7) exceeds the lease duration, as it does with the defaults 30/20/5. What the small clock leaves open is closed by the proof, which bounds nothing.
- *Generations.* Dispatcher and readiness are a replica's own: what others do reaches them only through the labels, which
  start arbitrary. So one part has one replica and spends its bound on depth: four terms with three faults allow several
  aborted loops in a row. `LeaderServes` is about two replicas and has both, with stale labels of former leaders.
- *Lifecycle.* The order of calls within an issue and the faults on them need one issue; collisions need
  two. Two changes allow an edit and its revert, or an edit and a change of authority, work or packages; two faults allow a crash and a
  failed call. Bodies `a`, `a2`, `b`, `bad` differ in every way the planner tells apart. `LatchIsExplained` is checked without failing
  comments, since `post_comment_best_effort` ignores a failure and latches anyway, and `AnnouncedConfigStands` without unreadable
  comment lists (section 6).
- *Projection.* One repository with a session and one without reach every fold of the staged map: the live map is
  a union of per-repository sets. A channel of 2 is full with one key of each repository. The safe run has no new sessions and no
  installations, since a projection cannot know what has not been reported to it; the live run has them.
- *Relay.* A poison record needs a batch with a good one (Mixed), a record that cannot be projected and best-effort mode need one
  request (Alone), colliding event ids two (Twins), capacity two events beside each other (Burst).
- *Requests.* Two calls overlap on one issue (a create and a stop, a late close and a hand-over, an administrator and the owner); one number suffices for a closed issue's late hook and a reopened one
  to meet a restart, since the keys of the registry name the issue. What more numbers, seeds or users would add is closed by the proofs.
- *Sandboxes.* Three ids allow a duplicate and its replacement; two files and a sentinel a push cut anywhere.
- *Services.* A channel, queue or page of one is full at once; two requests on one version race; a migration by two processes
  overlaps a write; two walks share a permit; three issues over pages of one shift under a listing.
- Counters saturate or are capped by `MaxTime`, `MaxTransitions`, `MaxInflight`, `MaxTerms`, `MaxNotices`, `IdleGrace`,
  `MinLifetime`, `Capacity`, `MaxNow`, `MaxCalls`, `MaxRounds`, `MaxChunks`, `MaxRuns`, `MaxSeeds`, `MaxComments`.

Deadlock is checked in the runs of the reconciler and the election. The other cfgs switch the check off because their
parts really stop: a pod is deleted, a walk or a turn ends, a worker returns, a relay has nothing to do.
Symmetry over replicas is used only in `Leadership`, which has no liveness property.

## 4. Fairness

Safety runs use `Spec`, which has none. `FairSpec` of a module (`PartFairSpec` of a composition) assumes weak fairness of the steps that
tasks, timers and calls with a time limit take by themselves, and never of a fault, a change or a choice of people:

- *LeaderGenerations*: the supervisor, the resync coordinator and the routing loop, the generation once it is cancelled, and patches the API
  server has accepted. None of winning, losing or of a task exiting.
- *SessionLifecycle*: the worker (the sweep starts a pass periodically and a call returns), the clock, and the cluster (a pod with its Secret starts, a
  deleted pod goes, the collector collects). None between two kinds of call: the worker has one thread of control.
- *SessionProjection*: the consumer, the resync coordinator, the sweep, and the start of a generation after an acquisition.
- *WorkIssues, SchedulePass, TemplatePulls, SessionPod, LogStream, GithubIssues*: the one task that works, and the clock where there is one.
- *Environments, ActivityRead, ChatTurns, Installations*: each request, walk, turn or call on its own.
- *SandboxCreds*: each task of the control plane, the pod's gate, and strong fairness of a container becoming reachable again (`StartExecd`): uploads
  that keep finding it unreachable do not keep it from starting.
- *SessionRequests* has none: nothing makes a pass spawn (work may never come) or GitHub deliver a hook, so no liveness is claimed of it.
- *AuditWorker, AuditRelay, TokenRotation*: the worker, the relay's sweeps and the store's ingest, the rotation loop and its clock.

`LeaderServes` says that in the end a replica that alone is elected serves; elections end because terms are bounded, as they do when a term lasts. `EventuallyReady` and `ClosedIsRevoked` assume `<>[]QueueHasRoom`: the
channel (its capacity is configured) eventually stops overflowing. `EventuallyReady` also assumes that eventually no refresh begins while a
generation is staged (`PatientResync`): the code justifies it by its interval, not by a mechanism. Both premises are met by some behaviours:
TLC finds counterexamples that satisfy them when the code is mutated.

## 5. Proofs

The proof system checks the following theorems for every value of the constants. Assumptions on constants are the named `ASSUME`s of the modules
(what the configuration enforces); what a theorem needs beyond them is in its statement.

| Module | Theorem | Statement |
|---|---|---|
| `LeaderElection_proofs` | `ElectionIsSafe` | `Spec => []ElectionSafe` |
| | `NoEarlyTakeoverHolds` | `Spec => NoEarlyTakeover` |
| | `TransitionsHold` | `Spec => TransitionsCountHolders` |
| | `LeaderOwnership` | `Spec => []LeaderOwnsLease` |
| | `ElectionImplementsOffice` | `Spec => ImplementsOffice`: the refinement of `LeaderOffice` |
| `Controllers_proofs` | `GenerationsAreSafe` | `Spec => []GenerationsSafe`, bounds being natural numbers |
| | `CachesAreSafe` | `PartSpec => []CachesSafe` |
| | `WorkIsSafe` | `PartSpec => []WorkSafe` |
| `SessionLifecycle_proofs` | `LifecycleIsSafe` | `Spec => []LifecycleSafe`, if comments are not lost |
| | `OneRejectionNotice` | `Spec => []UnauthorizedNoticeOnce`, whatever fails |
| | `AnnouncementsStand` | `Spec => AnnouncedConfigStands`, if comments can be read |
| `SessionProjection_proofs` | `TypeCorrect` | `Spec => []TypeOK`: in particular the channel keeps its capacity |
| | `NothingForgotten` | `Spec /\ [][NoneInstalled]_vars => NeverForgets` |
| | `ReadyIsComplete` | `Spec /\ [][NoneInstalled /\ NoneOpened]_vars => []ProjectionSafe` |
| `Requests_proofs` | `RequestsAreSafe` | `PartSpec => []RequestsSafe` |
| | `EnvironmentIsAsAsked` | `Spec => []SandboxIsAsAsked` |
| | `PayloadsAreKept` | `Spec => ForgottenForAReason` |
| | `AccessIsSafe` | `PartSpec => []AccessSafe` |
| | `StepsAreCareful` | `PartSpec => CarefulSteps`: what a step forgets has a reason, rights follow the id, no oracle |
| `Sessions_proofs` | `CredsAreSafe` | `Spec => []CredsSafe` |
| | `TheSentinelIsLast` | `Spec => []SentinelIsLast` |
| | `RotationIsSafe` | `PartSpec => []RotationSafe` |
| | `SessionsAreSafe` | `PartSpec => [](CredsSafe /\ RotationSafe)` |
| | `LogsAreSafe` | `PartSpec => []LogSafe` |
| `Services_proofs` | `WorkerIsSafe` | `Spec => []WorkerSafe`, for a configuration in range |
| | `ResidualCoversAll` | `Spec => StopAccountsForAll` |
| | `SchedulesAreSafe` | `PartSpec => []ScheduleSafe`, whichever dispatch loses its record |
| | `PodsAreSafe` | `PartSpec => []PodSafe` |
| | `TurnsAreSafe` | `PartSpec => []TurnsSafe` |
| | `EnvironmentsAreSafe` | `PartSpec => []EnvironmentsSafe` |
| | `WalksAreSafe` | `PartSpec => []WalksSafe`, if the relay can read its rows and may read more than a page |
| | `PagesDoNotOverlap` | `PartSpec => []WalksNeverRepeat`, with no premise |
| | `ServicesAreCareful` | `PartSpec => CarefulSteps`, for a worker configuration in range |
| `AuditRelay_proofs` | `RelayIsSafe` | `Spec => []RelaySafe` |
| | `RelayImplementsOutbox` | `Spec => ImplementsOutbox`: the refinement of `AuditOutbox` |

The invariants behind them, and why each is needed:

**LeaderElection.** `IInv` has six parts. `TypeOK`, `TimersInv` (no timer is overdue by more than the lag) and `RequestInv` (a request that
can still be applied was decided on the Lease as it is now, and carries the count that belongs to it) are inductive together for
all timings. `LeaderTimeInv` bounds how far a leader's attempts can be from its last confirmed renewal, again for
all timings. `GrantInv` says that what a process was told is still so at the server while it is valid: it is preserved because another process's write that still
matches the version carries a clock reading at or past the Lease's expiry. `OrderInv` says that a request that can still be applied is not older than what its sender already knows: without it a late
renewal of the leader's own could move `renewTime` back. The refinement needs ownership on both sides of a step: a step changes the holder alone or the
standing of one process alone (`OneAtATime`), so a takeover from somebody whose Lease is valid, and a second such leader, would contradict it after or before the step.

No premise is put on the timings beyond what `leader_config.rs` enforces (retry < renew < lease). What they leave open is in the statement: once its validity has run out, a process may
believe it leads beside its successor, for less than the renew deadline, three retry periods and three times the timer lag from the attempt that renewed it. One retry period passes
between the `renewTime` a process writes and the confirmation it counts its deadline from, one until the next
attempt begins, one until that attempt ends in a time-out. With the defaults 30/20/5 that is 35 seconds against a Lease of 30; the corollary `NobodyLeadsBesideTheOwner` says that
a lease duration that covers it leaves no overlap.

**LeaderGenerations.** A replica starts at most one generation per term (`Counted`), an attempt belongs to a running generation and a term
(`Attempting`), and the monitor is ready only on grounds of the present term (`MonitorSound`). `Counted` is what keeps the
numbers of generations within their bound, and `MonitorSound` is needed because a monitor becomes ready through results that arrive one by one.

**SessionLifecycle.** What the worker planned must still be explained when it gets to it: `SnapInv` relates the snapshot to the issues,
`ExplainInv` says that a label call in `todo` follows its comment or finds it posted, `NoticeInv` counts notices against latches, and `StandsInv` says that every planned
spawn or drift kill carries the announced hash, or no announcement was made. `LatchesAreExplained` needs that comments are not lost
(`post_comment_best_effort` latches anyway) and `AnnouncementsStand` that they can be read (section 6).

**SessionProjection.** `Enumerated` and `Awaited` follow a complete enumeration into the staged generation; `PassFresh` and `StagedFresh` say
that what a pass is about to publish, and what is staged, has the published open sessions. Both theorems exclude installations:
a repository installed between enumeration and publication is dropped (section 6). `ReadyIsComplete` also excludes newly opened sessions, which no projection can know before
their repository has been reconciled.

**SessionRequests.** `HandOffInv` (`Shape`, `Issues`, `Calls`, `HandedOver`, `Spawning`, `Running`) follows a payload: a call's issue is the caller's with the environment the call carries (`Calls`), a payload is held for the author of an
issue that asks for a private one (`HandedOver`), the spawn under way carries what its issue asks for (`Spawning`), and so does the runtime (`Running`). Issues are only ever closed and
reopened (`Onward`), which is why a call, a payload or a spawn that was right stays right while others overlap with it or land late. Nothing is assumed of calls, seeds or hooks.

**SandboxCreds.** `Complete` says of each container that the sentinel, or a started engine, comes only with the whole set. What makes it inductive is `Written`: a push
under way, by the reconciler or the rotation loop, has already written every file before its next one, unless its container went down since.
A retry keeps that true because it starts over (`Orderly`: who waits begins at the first file), a fresh container because it is down. A container that comes up in the middle of a push is
`torn` until it is replaced, and all three say nothing of it: the push goes on into the empty container, and "its presence proves the whole
set is on disk" (`session_pod/creds_gate.rs:7`) does not hold there (section 6). Only `CredsAssumption` is needed: finitely many
identities, at least one attempt.

**TokenRotation.** `TokensLast` is a sum that no step exceeds: the age of a token, the longest wait until it is tried
again (`Wait`), and what the failures still to come may add (`left`) stay within the interval and what all failures may add.
A failure pays for the wait it causes, since a session's delay grows with the failures spent and with nothing else (`DelaysEarned`); a
session that is broken has its own delay and pays for itself, which is what the mutant with one back-off for all breaks. `RotationAssumption` says that
a token's life exceeds the interval by the doubling delays of as many failures as are counted. It names the delays as a table, because a sum defined by
recursion is out of the provers' reach; the defaults (an interval of 45 minutes against a life of 60, delays from 15 seconds) meet it for up to five failures.

**AuditWorker.** `Shape` relates buffer and batch to what the task is doing, `Kept` says that a queued record is held, delivered or dropped, `Offers` that what the
drain leaves behind was offered, and `Counts` that the depth counter lags the queue by the submissions that have not counted yet.

**AuditRelay.** `Rows` (an outcome exactly when a record left "started", attempts left unless dead), `Held` (what the worker holds in memory is still undelivered in the outbox) and `Calls` (what
a call that may still land carries is known) are inductive with `RelaySafe`. Each write of the relay moves a row `Onward`, and the refinement
follows from that: every step is `Open`, `Decide`, `Show` or `Forget` of one record, or a stutter.

**AccessPolicy.** `AccessInv` is the types and `FromVars(policy)`, which says that a decision is made from the facts and the published policy of the moment. The list of admitted ids is read without
logins, so a renamed login carries no rights along, and the narrow scope of a view admits nothing the wide one does not.

**Installations.** `CachesInv` (the types, `ServedIsAsked`, `CallsFit` and `Fresh` of every clean repository): an entry that was asked for before an eviction is never stored after it as if it were younger, and a call in flight holds
either what is true or what has been evicted since. `CachesAssumption`: a call is for at least one repository.

**WorkIssues.** `SaidOnce` counts notices against labels (one if the label is on, none once it is off), `SaysFollow` follows a notice that is still to be
posted, with its label behind it, and `RetiresReach` says that each work issue of an orphan has been reached, or the listing or the token is still to come, while nothing has
failed. `WorkAssumption`: sessions and issues have numbers, a session watches finitely many labels.

**SchedulePass.** `ScheduleInv` relates the record of a slot, its run and the calls of a step that are still to come: two steps never hold the same slot, and a
run of the clock that has not lost its record is in the records or about to be (`RunsRecorded`). A run whose record is lost (`unrecorded`) is dispatched again (section 6); the theorem has no premise on it and speaks of
all the others, whose slots and overlaps such a run must not disturb either.

**SessionPod.** `PodPlan` says how much of the plan the disk holds at each step, whatever an earlier container left there; of a checkout that is reused it knows what `validate_existing_clone` looks at, the origin and what HEAD names. `PodAssumption`: the hosted launcher
sets the ref of every checkout (`session_pod/plan.rs:96`).

**ChatTurns.** `ChatPlaces` (permits and in-flight entries against the turns that hold them), `ChatHistory` (a call is followed by its results before the model speaks
again) and `ChatFrame` (one terminal frame, the last) are inductive together.

**Environments.** `ProfileReads`: nothing read is of the future, and what a winner read is older than what there is now; so two writes on one
read cannot both win. `ProfileMigrates` follows the halves of a migration through crashes, `ProfileAlone` a process that has a
profile to itself. `ProfileAssumption` says that None is none of the values stored.

**ActivityRead.** `WalkTiles` says that what was served lies before the cursor and was served once. `WalkCovers` says that, until a page was partial, every event that was there when the walk began is served or still ahead
of the cursor; what keeps it is `PageWhole`: an event ahead of the cursor that a fetched page lacks has more than a page of events before it. That is so when the relay can read all its rows and
its ceiling exceeds the page (`Wholly`, the premise of `WalksAreSafe`); `PagesDoNotOverlap` needs neither.

**LogStream.** `LogCaps` are the bounds of channel and queues, `LogWhere` what the thread has behind it at each step (an index is written after its object), `LogLines` that a line
this run may still meet has not been met by it, `LogHeld` that an untruncated log is held up to the cursor, and `LogSent` that what was acknowledged is the tree while nothing is pending.

**TemplatePulls.** `PullsStand` relates branch, pull request and mark, `PutSoFar` says how much of the bundle an upload under way has written, `LookedAt` that the files of a pull request to be merged were seen to be the App's,
and `ClosesForAReason` that one to be closed conflicts or is of an older version.

Only model-checked:

- every liveness property (fairness and `ENABLED` are beyond the proof system);
- what operators compute over data (Cron's searches, listings and pages, history of a chat): that would take induction over data, which is beyond the installed
  provers too;
- the safety of GithubIssues and of Cron.

No module uses a recursive operator.

## 6. Where code and documentation disagree

Two are runs that TLC must find violated; `PROJECT.json` quotes both sides.

1. **Partial pod** (`SessionLifecycle_partial_pod`). A crash between the Pod and its Secret leaves a pod that waits for ever while
   each pass refreshes its pending clock, against "never a partial pod" (`reconcile/execute_spawn.rs:33`).
2. **Locked-out user** (`ChatTurns_leak`). A client that disconnects while no permit is free and its turn waits for one leaves the in-flight entry behind, against "releases on
   every exit path" (`chat/limits.rs:14`).

Met while modelling, not the subject of a run:

*Leadership*
- Ownership: with accepted timings, the defaults 30/20/5 among them, a process may still believe it leads after another took the Lease, against "true only while this
  process has confirmed Lease ownership" (`leader_election.rs:107`) and `deploy/kubernetes/README.md:369`. While every timer is exact and the retry period divides the renew
  deadline, as in the defaults, the last attempt times out at the very instant the Lease expires; any lag or clock error makes an overlap possible. `LeaderOwnsLease` bounds it.
- A leader may overrun its renew deadline by up to two retry periods, since the deadline is looked at only when an attempt ends
  (`leader_election.rs:193`, `leader_config.rs:62`); `LeadershipIsBounded` states the bound that does hold.
- A loss followed by a win before the supervisor runs is one change of a watch channel that reads `true`: the old generation goes on, and a resync of the old
  term makes the new one ready (`leader_election.rs:143`, `recovery.rs:104`).

*Reconcile pass and work issues*
- A failed listing of comments counts as "no hash announced": an edit made after the announcement is acted on in that pass
  (`reconcile/repo.rs:251` against `reconcile/desired.rs:382`). The theorem's hypothesis is exactly that this does not happen.
- A crash between the announcement comment and its label announces again (`reconcile/mod.rs:138`).
- An unreachable package is reported by a comment in every pass: `clear_invalid` undoes the latch the planner would read (`reconcile/mod.rs:123`).
- After a collision changes owner, both pods exist until the next pass has deleted the loser's (`reconcile/repo.rs:405`).
- Reopening an issue does not lift a rejected edit, although the comment tells the author to close and open another
  (`reconcile/desired.rs:440`, `reconcile/execute.rs:282`).
- A token that cannot be minted at retirement is never retried, although `reconcile/retire.rs:51` claims it; a second retirement contradicts `reconcile/retire.rs:3`; retirement ignores the
  assignee; two sessions of one creator that disagree on an author flap the unauthorized label; an idle-killed pod whose trigger is then closed retires nothing.

*Projection*
- A repository installed and reconciled between enumeration and publication is dropped by the generation that did not expect it (`session_access/registry.rs:108`, `:307`).
- A pass that fails after `reconcile/repo.rs:293` has already published its contexts (`reconcile/loops.rs:47`).
- The sessions of an uninstalled repository stay granted while another keeps every generation from completing (`session_access/registry.rs:52`).
- A channel that overflows in every round can keep a generation from ever completing (`reconcile/mod.rs:255`).

*Requests and schedules*
- The key of a one-time environment is the spelling the caller typed: another spelling is not found (`disposable_environment.rs:96`, `routes/canvas/mutate.rs:147`). A lost close
  webhook leaves the payload in memory; the "unavailable" comment repeats; an idle-killed one-time session cannot respawn; a creator derived from an assignee starts without.
- Two overlapping creates of one user, or one that lands after its caller gave up, open two sessions on one label: nothing holds between the collision read and the create
  (`routes/canvas/mutate.rs:115`), although the pre-flight is to refuse "a create that would collide" (`:110`). The pass's backstop then serves one of them. Likewise overlapping installation events, or a late seed, may both seed a trigger.
- A payload handed over after the close hook of its issue stays in memory (`disposable_environment.rs:6`).
- A run whose dispatch record is lost is dispatched again (`reconcile/schedule_execute.rs:201`); a manual run's slot hides a due cron slot (`schedule/marker.rs:136`); the outcome label of `reconcile/schedule_execute.rs:105` differs from what
  `reconcile/schedule_plan.rs:41` reads; `min_interval_secs` samples only 32 gaps (`schedule/cron.rs:152`).

*Credentials, pods and logs*
- A container that is replaced and reachable again between two requests of one push gets the rest of the push, the sentinel last, and starts on half a bundle, against "its presence proves the whole set is on disk"
  (`session_pod/creds_gate.rs:7`). If the files it lacks do not include the token, or the rotation has put the token back (`replace_file_atomically`), nothing re-pushes the rest. A restart in mid-delivery is healed only by the sentinel
  probe; recovery runs only while work is pending; the cached bundle is not dropped on stop, and one with a one-time environment cannot be rebuilt; the reaper keeps the oldest sandbox even without credentials.
- `pending.retain(attempted)` rotates a session again that was just rotated (`k8s/token_rotation.rs:31`).
- A drain may never end when a straggler holds the pipe (`session_pod/supervise.rs:88`); a clone killed before its HEAD names the ref fails every restart, unless git's initial branch is the ref; that one, and one cut off later, is reused without all its files,
  against "Fail closed before reusing a restart-persistent checkout" (`session_pod/driver.rs:565`).
- An upload that fails after an un-acknowledged flush is not told to the caller (`session_pod/log_stream/uploader.rs:82`); an older copy overwrites a newer one (`session_pod/log_stream/health_publish.rs:87`); a truncated file
  shorter than what was read is swallowed (`session_pod/log_stream/tail.rs:36`); a failed copy is not retried (`session_pod/log_stream/copied.rs:162`); a restart reads files from the beginning.

*Profiles, audit, client, templates, reads, chat*
- A pair is partly ready between its two writes (`k8s/env_store.rs:157`); the migration may resurrect a profile deleted meanwhile, and a legacy half-write fails start-up
  (`k8s/durable_env_store/migration.rs:204`, `:210`); the cap is checked before the write (`routes/environments.rs:265`).
- `drain()` reports 0 left when the worker outlasts budget and grace (`audit/sink.rs:40`). "A 409 is not a failure" (`audit/relay/client.rs:21`) hides a second record with the same event id; attempts survive
  a recapture; a start that was refused may land late and be closed as incomplete.
- A mint in flight at an eviction is stored after it and lives until it expires (`github_app/mod.rs:1187`); a moved repository gets 422 until then (`:1102`).
- A listing misses an issue that shifts into a page already read (`github_app/listing.rs:391`); some calls read the first 100 only (`github_app/api.rs:824`, `:1007`); 404 for lost access reads as gone.
- The merge of a template pull request sends no head; auto-merge does not check the files of the App's own; a person's pull request on a partial branch would be merged.
- Rows that cannot be decoded end a walk silently (`operations/source.rs:20`, `operations/merge.rs:157`).
- An error frame after the deadline has no deadline itself (`chat/orchestrator.rs:92`); a stream cut after a tool's name calls it with `{}`.

## 7. What is not modelled

- *Retry policy, health scrape and session health, runtime identity*: pure decisions over data; their callers' use of them is modelled (back-off, staleness as an environment's choice).
- *Trigger parsing, front matter, prompts, redaction, manifests, query text*: text formats. A body is well formed or not, a line is a line.
- *Pure I/O*: the transports of GitHub, Kubernetes, storage and analytics. Their failures are the faults of the modules that call them.
- *Read-only routes, sign-in, web frontend, configuration and start-up, deployment manifests*: no state of their own; configuration values are CONSTANTS.
- *Shutdown by signal*: the state it leaves is that of a crash, which is modelled; AuditWorker has the orderly drain.
- *Known limits by design*: a lost announcement comment leaves no marker (`reconcile/execute.rs:359`); only a complete generation removes an uninstalled repository's sessions
  (`session_access/registry.rs:155`); a preflight that fails every pass comments every pass (`reconcile/execute_spawn.rs:36`).

## 8. Plan

The modules are complete to the extent section 2 says. What is left:

1. `GithubIssues`: prove `ListingIsFaithful` and `NewestCommentsAreRead`.
2. The retry policy and session health as modules (section 7).
3. A failover between two replicas of two terms each, which is beyond the time of a run today.
