--------------------------- MODULE SessionRequests ---------------------------
(* How a session comes and goes from outside the reconciler, on one repository: *)
(* the canvas's create and stop calls (routes/canvas/mutate.rs), issues opened,  *)
(* closed and reopened by hand, the webhook (routes/github_app_webhook), the     *)
(* seeder it starts (reconcile/seed_issue.rs), and the private hand-off of a     *)
(* one-time environment from a create call to the spawn that delivers it         *)
(* (disposable_environment.rs, reconcile/execute_launch_spec.rs). Every call is a *)
(* task of its own, also those of one user, and a request whose answer is lost    *)
(* may still be carried out. The webhook's reconcile nudge only makes a pass      *)
(* earlier; here a pass may run at any time. A step ends where the code awaits.   *)
EXTENDS Naturals, FiniteSets, FiniteSetsExt

CONSTANTS
  User,        \* GitHub user ids, positive
  Admin,       \* the users who administer the repository
  Call,        \* canvas calls that may overlap
  Number,      \* issue numbers 1..n
  Spelling,    \* spellings of owner/name a caller may type; "canonical" is GitHub's
  MaxSeeds     \* seed tasks that may overlap

VARIABLES
  issue,       \* GitHub's trigger issues
  closedHooks, \* "closed" deliveries under way
  call,        \* the canvas calls under way
  registry,    \* DisposableEnvironmentRegistry
  seed,        \* the seed tasks under way
  wanted,      \* issues whose session has pending work, no rejected edit and a creator
               \* with the authority (SessionLifecycle says how those come and go)
  pass,        \* the spawn or recovery under way in the reconciler
  sandbox      \* environment each issue's runtime was started with, "none" if it has none

vars == <<issue, closedHooks, call, registry, seed, wanted, pass, sandbox>>

Bot == 0

\* GitHub numbers its issues from 1 and no user has the id 0.
ASSUME RequestsAssumption == Number \subseteq Nat /\ Bot \notin User

NoIssue == [st |-> "none", by |-> Bot, env |-> "plain"]
NoCall == [at |-> "idle", by |-> Bot, env |-> "plain", n |-> 0, spelling |-> "canonical"]
NoPass == [at |-> "idle", n |-> 0, env |-> "none"]

Free == {n \in Number : issue[n].st = "none"}
NewNumber == Min(Free)
IsOpen(n) == issue[n].st = "open"

\* effective_creator: the author; the App's own issues have an assignee without id.
CreatorId(n) == issue[n].by

Opened(by, env) ==
  issue' = [issue EXCEPT ![NewNumber] = [st |-> "open", by |-> by, env |-> env]]

Close(n) ==
  /\ issue' = [issue EXCEPT ![n].st = "closed"]
  /\ closedHooks' = IF IsOpen(n) THEN closedHooks \cup {n} ELSE closedHooks

\* remove_issue: the key alone.
RemoveIssue(n, spelling) ==
  registry' = {e \in registry : ~(e.n = n /\ e.spelling = spelling)}

EndCall(c) == call' = [call EXCEPT ![c] = NoCall]

----------------------------------------------------------------------------
(* create_session                                                           *)

\* ensure_no_work_label_collision: an open trigger of the same creator has the
\* label the request names (all that name one here name the same).
Collides(u) == \E n \in Number : IsOpen(n) /\ CreatorId(n) = u

\* Validation, the creator's role and the collision read, which nothing holds until
\* the create.
CreateSession(c, u, env, spelling, labelled) ==
  /\ call[c].at = "idle"
  /\ labelled => ~Collides(u)
  /\ call' = [call EXCEPT ![c] = [at |-> "checked", by |-> u, env |-> env, n |-> 0,
                                  spelling |-> spelling]]
  /\ UNCHANGED <<issue, closedHooks, registry, seed, wanted, pass, sandbox>>

\* create_issue with the caller's own token.
CreateIssue(c) ==
  /\ call[c].at = "checked" /\ Free # {}
  /\ Opened(call[c].by, call[c].env)
  /\ call' = [call EXCEPT ![c].at = "posted", ![c].n = NewNumber]
  /\ UNCHANGED <<closedHooks, registry, seed, wanted, pass, sandbox>>

\* The number arrives and the payload is handed over.
HandOver(c) ==
  /\ call[c].at = "posted"
  /\ registry' = IF call[c].env = "private"
                 THEN registry \cup {[n |-> call[c].n, spelling |-> call[c].spelling,
                                      by |-> call[c].by]}
                 ELSE registry
  /\ EndCall(c)
  /\ UNCHANGED <<issue, closedHooks, seed, wanted, pass, sandbox>>

\* What is left of a call whose task is gone: the request it had under way.
Left(c) ==
  CASE c.at = "checked" -> [NoCall EXCEPT !.at = "late_create", !.by = c.by, !.env = c.env]
    [] c.at = "stop"    -> [NoCall EXCEPT !.at = "late_close", !.n = c.n]
    [] c.at \in {"late_create", "late_close"} -> c
    [] OTHER -> NoCall

\* A request or an answer is lost, or the caller goes away.
CallLost(c) ==
  /\ call[c].at # "idle"
  /\ call' = [call EXCEPT ![c] = Left(@)]
  /\ UNCHANGED <<issue, closedHooks, registry, seed, wanted, pass, sandbox>>

\* GitHub carries out what nobody waits for any more, or it never arrived.
LateCreate(c, done) ==
  /\ call[c].at = "late_create"
  /\ IF done THEN Free # {} /\ Opened(call[c].by, call[c].env) ELSE UNCHANGED issue
  /\ EndCall(c)
  /\ UNCHANGED <<closedHooks, registry, seed, wanted, pass, sandbox>>
LateClose(c, done) ==
  /\ call[c].at = "late_close"
  /\ IF done THEN Close(call[c].n) ELSE UNCHANGED <<issue, closedHooks>>
  /\ EndCall(c)
  /\ UNCHANGED <<registry, seed, wanted, pass, sandbox>>

----------------------------------------------------------------------------
(* stop_session                                                             *)

\* The pre-flight: a trigger issue, of the caller's own or under an admin's eye.
StopSession(c, u, n, spelling) ==
  /\ call[c].at = "idle" /\ issue[n].st # "none"
  /\ u = issue[n].by \/ u \in Admin
  /\ call' = [call EXCEPT ![c] = [NoCall EXCEPT !.at = "stop", !.n = n, !.spelling = spelling]]
  /\ UNCHANGED <<issue, closedHooks, registry, seed, wanted, pass, sandbox>>

StopClose(c) ==
  /\ call[c].at = "stop"
  /\ Close(call[c].n)
  /\ call' = [call EXCEPT ![c].at = "stopped"]
  /\ UNCHANGED <<registry, seed, wanted, pass, sandbox>>

StopForget(c) ==
  /\ call[c].at = "stopped"
  /\ RemoveIssue(call[c].n, call[c].spelling)
  /\ EndCall(c)
  /\ UNCHANGED <<issue, closedHooks, seed, wanted, pass, sandbox>>

----------------------------------------------------------------------------
(* GitHub, by hand                                                          *)

OpenByHand(u, env) ==
  /\ Free # {} /\ Opened(u, env)
  /\ UNCHANGED <<closedHooks, call, registry, seed, wanted, pass, sandbox>>

CloseByHand(n) ==
  /\ IsOpen(n) /\ Close(n)
  /\ UNCHANGED <<call, registry, seed, wanted, pass, sandbox>>

Reopen(n) ==
  /\ issue[n].st = "closed"
  /\ issue' = [issue EXCEPT ![n].st = "open"]
  /\ UNCHANGED <<closedHooks, call, registry, seed, wanted, pass, sandbox>>

\* Work arrives or is done, an edit is made or taken back, an authority too.
NeedChanges(n) ==
  /\ IsOpen(n)
  /\ wanted' = IF n \in wanted THEN wanted \ {n} ELSE wanted \cup {n}
  /\ UNCHANGED <<issue, closedHooks, call, registry, seed, pass, sandbox>>

----------------------------------------------------------------------------
(* The webhook and the seeder                                               *)

\* classify_and_enqueue of a close; GitHub may deliver it again, or never.
IssueClosed(n, again) ==
  /\ n \in closedHooks
  /\ closedHooks' = IF again THEN closedHooks ELSE closedHooks \ {n}
  /\ RemoveIssue(n, "canonical")
  /\ UNCHANGED <<issue, call, seed, wanted, pass, sandbox>>

\* handle_installation(_repositories) with an installer: maybe_seed_trigger_issues.
\* Deliveries and redeliveries come at any time.
InstallationCreated(t) ==
  /\ seed[t] = "none"
  /\ seed' = [seed EXCEPT ![t] = "probe"]
  /\ UNCHANGED <<issue, closedHooks, call, registry, wanted, pass, sandbox>>

\* open_issues_with_label: no open trigger, or no answer, no seed.
SeedProbe(t, answered) ==
  /\ seed[t] = "probe"
  /\ seed' = [seed EXCEPT ![t] = IF ~answered \/ \E n \in Number : IsOpen(n) THEN "none" ELSE "create"]
  /\ UNCHANGED <<issue, closedHooks, call, registry, wanted, pass, sandbox>>

\* create_issue as the App; a failure is logged and never retried. The request of
\* a task that is gone is carried out late, or never.
SeedCreate(t, done) ==
  /\ seed[t] \in {"create", "late"}
  /\ IF done THEN Free # {} /\ Opened(Bot, "plain") ELSE UNCHANGED issue
  /\ seed' = [seed EXCEPT ![t] = IF ~done /\ @ = "create" THEN "late" ELSE "none"]
  /\ UNCHANGED <<closedHooks, call, registry, wanted, pass, sandbox>>

----------------------------------------------------------------------------
(* The spawn of a pass                                                      *)

\* DisposableEnvironmentRegistry::resolve, of the effective creator alone.
Lookup(n) == {e \in registry : e.n = n /\ e.spelling = "canonical" /\ e.by = CreatorId(n)}

\* Mutant: a lost hand-off falls back to an empty environment.
ResolveEnvironmentLenient(n) ==
  CASE issue[n].env = "plain"   -> "plain"
    [] issue[n].env = "named"   -> IF issue[n].by = Bot THEN "plain" ELSE "load"
    [] issue[n].env = "private" -> IF Lookup(n) # {} THEN "private" ELSE "plain"

\* resolve_environment: what the runtime gets, "load" for a profile still to be
\* read, "blocked" with a comment and no runtime.
ResolveEnvironment(n) ==
  CASE issue[n].env = "plain"   -> "plain"
    [] issue[n].env = "named"   -> IF issue[n].by = Bot THEN "plain" ELSE "load"
    [] issue[n].env = "private" -> IF issue[n].by # Bot /\ Lookup(n) # {} THEN "private" ELSE "blocked"

\* plan_repo: a registration (an open issue, its creator authorized) with pending
\* work, whose edit was not rejected.
Begin(n) ==
  /\ pass = NoPass /\ IsOpen(n) /\ n \in wanted
  /\ pass' = [NoPass EXCEPT !.at = "resolve", !.n = n]
  /\ UNCHANGED <<issue, closedHooks, call, registry, seed, wanted, sandbox>>

Spawn(n) == sandbox[n] = "none" /\ Begin(n)

\* A runtime that is up may have lost its credentials: recover_credentials goes
\* the same way, and finds the runtime still there or gone.
RecoverCredentials(n) == sandbox[n] # "none" /\ Begin(n)

\* resolve_session_credentials: the environment first. Branch, package and token
\* failures end the spawn like a blocked environment.
Resolve(ok) ==
  /\ pass.at = "resolve"
  /\ LET env == ResolveEnvironment(pass.n) IN
       pass' = IF ~ok \/ env = "blocked" THEN NoPass
               ELSE IF env = "load" THEN [pass EXCEPT !.at = "load"]
               ELSE [pass EXCEPT !.at = "ensure", !.env = env]
  /\ UNCHANGED <<issue, closedHooks, call, registry, seed, wanted, sandbox>>

\* resolve_named_environment: the profile is ready and still there at the second
\* read, or the spawn is blocked.
LoadProfile(ready) ==
  /\ pass.at = "load"
  /\ pass' = IF ready THEN [pass EXCEPT !.at = "ensure", !.env = "named"] ELSE NoPass
  /\ UNCHANGED <<issue, closedHooks, call, registry, seed, wanted, sandbox>>

\* Mutant: a create that was not confirmed drops the payload too.
CompleteAnyway(confirmed) ==
  registry' = IF pass.env = "private" THEN registry \ Lookup(pass.n) ELSE registry

\* complete_disposable_handoff, once the backend acknowledged the bundle.
Complete(confirmed) ==
  registry' = IF confirmed /\ pass.env = "private" THEN registry \ Lookup(pass.n) ELSE registry

\* ensure_session: a runtime is created, or one is there already, or the call fails,
\* with or without having created one.
EnsureSession(landed, confirmed) ==
  /\ pass.at = "ensure"
  /\ confirmed => landed
  /\ sandbox' = IF landed /\ sandbox[pass.n] = "none"
                THEN [sandbox EXCEPT ![pass.n] = pass.env] ELSE sandbox
  /\ Complete(confirmed)
  /\ pass' = NoPass
  /\ UNCHANGED <<issue, closedHooks, call, seed, wanted>>

\* A runtime goes: a later pass ends that of a closed or idle session, or it dies.
Kill(n) ==
  /\ sandbox[n] # "none"
  /\ sandbox' = [sandbox EXCEPT ![n] = "none"]
  /\ UNCHANGED <<issue, closedHooks, call, registry, seed, wanted, pass>>

\* The control plane restarts: only GitHub, the requests under way, the runtimes
\* and the store survive.
Restart ==
  /\ registry' = {} /\ pass' = NoPass
  /\ call' = [c \in Call |-> Left(call[c])]
  /\ seed' = [t \in 1..MaxSeeds |-> IF seed[t] \in {"create", "late"} THEN "late" ELSE "none"]
  /\ UNCHANGED <<issue, closedHooks, wanted, sandbox>>

----------------------------------------------------------------------------
Init ==
  /\ issue = [n \in Number |-> NoIssue] /\ closedHooks = {}
  /\ call = [c \in Call |-> NoCall] /\ registry = {}
  /\ seed = [t \in 1..MaxSeeds |-> "none"]
  /\ wanted = {}
  /\ pass = NoPass /\ sandbox = [n \in Number |-> "none"]

Env == {"plain", "named", "private"}

Next ==
  \/ \E c \in Call :
       \/ \E u \in User, sp \in Spelling :
            \/ \E env \in Env, labelled \in BOOLEAN : CreateSession(c, u, env, sp, labelled)
            \/ \E n \in Number : StopSession(c, u, n, sp)
       \/ CreateIssue(c) \/ HandOver(c) \/ CallLost(c) \/ StopClose(c) \/ StopForget(c)
       \/ \E done \in BOOLEAN : LateCreate(c, done) \/ LateClose(c, done)
  \/ \E u \in User, env \in Env : OpenByHand(u, env)
  \/ \E n \in Number :
       \/ CloseByHand(n) \/ Reopen(n) \/ NeedChanges(n)
       \/ Spawn(n) \/ RecoverCredentials(n) \/ Kill(n)
       \/ \E again \in BOOLEAN : IssueClosed(n, again)
  \/ \E t \in 1..MaxSeeds :
       \/ InstallationCreated(t)
       \/ \E ok \in BOOLEAN : SeedProbe(t, ok) \/ SeedCreate(t, ok)
  \/ \E ok \in BOOLEAN : Resolve(ok) \/ LoadProfile(ok)
  \/ \E landed, confirmed \in BOOLEAN : EnsureSession(landed, confirmed)
  \/ Restart

Spec == Init /\ [][Next]_vars

----------------------------------------------------------------------------
(* Properties                                                               *)

\* The state has its type; a hand-off is held only for the author of an issue that
\* asks for one.
TypeOK ==
  /\ \A n \in Number : issue[n].st \in {"none", "open", "closed"} /\ issue[n].by \in User \cup {Bot}
  /\ closedHooks \subseteq Number /\ wanted \subseteq Number
  /\ \A c \in Call : call[c].at \in {"idle", "checked", "posted", "stop", "stopped",
                                     "late_create", "late_close"}
  /\ \A e \in registry : issue[e.n].by = e.by /\ issue[e.n].env = "private"
  /\ \A t \in 1..MaxSeeds : seed[t] \in {"none", "probe", "create", "late"}
  /\ pass.at \in {"idle", "resolve", "load", "ensure"}
  /\ \A n \in Number : sandbox[n] \in Env \cup {"none"}

\* A runtime has exactly the environment its issue asks for: one that is missing,
\* not ready or lost blocks the spawn, it never starts the session without.
SandboxIsAsAsked ==
  \A n \in Number : sandbox[n] # "none" => sandbox[n] = issue[n].env

\* A private payload is dropped only when a runtime has it, its trigger was closed
\* or the process went down with it.
ForgottenForAReasonStep ==
  \A e \in registry \ registry' :
    \/ sandbox'[e.n] = "private"
    \/ e.n \in closedHooks \/ \E c \in Call : call[c].at = "stopped" /\ call[c].n = e.n
    \/ registry' = {} /\ pass' = NoPass /\ \A c \in Call : call'[c].at \notin {"checked", "posted"}
ForgottenForAReason == [][ForgottenForAReasonStep]_vars

\* What holds of the hand-off at every state.
RequestsSafe == TypeOK /\ SandboxIsAsAsked
=============================================================================
