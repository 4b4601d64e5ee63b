----------------------------- MODULE SessionPod -----------------------------
(* The driver of a session container (session_pod/driver.rs, plan.rs,         *)
(* supervise.rs): it waits for the credentials, clones the package            *)
(* workspaces, the delivery checkouts and the project, runs the install       *)
(* commands of the environment, renders the codex configuration and           *)
(* supervises the engine. The kubelet restarts the container whenever the     *)
(* driver exits; the checkouts and the codex home outlive the restart, the    *)
(* launch starts over. Repository names compare without case where the code   *)
(* lowers them: a repository is an id and a spelling, its URL is both; a       *)
(* reference adds the ref, [id, spelling, ref].                               *)
(* External: git, the kubelet, the engine and the credential push.            *)
EXTENDS Naturals, Sequences

CONSTANTS
  PackageRefs,  \* the references; a sequence and never empty
  Grants,       \* the delivery grants; a sequence of references
  Lifecycle,    \* the reference of the project; ref None for the default
  InitialBranch, \* external: what HEAD names in a repository that git just made
  None,
  UserEnv,      \* names in the environment profile
  Secrets,      \* those whose values are secret
  Reserved,     \* names of the platform
  Commands,     \* number of install commands
  Faults,       \* kinds of faults that may happen
  MaxFaults     \* their number in a behaviour

VARIABLES
  pc,           \* where the driver is; down between two containers
  step,         \* the next checkout or the next install command
  disk,         \* [Dirs -> checkout]
  manifest,     \* the mounted secret-key manifest: absent or good or bad
  codex,        \* names written into config.toml
  engine,       \* none or running or exited
  straggler,    \* a descendant of the engine still holds its pipes
  status,       \* the wait status of the engine
  exit,         \* the exit code of the last container
  deleted,      \* the pod is being deleted
  faults

vars == <<pc, step, disk, manifest, codex, engine, straggler, status, exit, deleted, faults>>

----------------------------------------------------------------------------
(* The plan, the same at every launch                                       *)

Url(r) == <<r.id, r.spelling>>

WorkspaceKey(r) == <<r.id, r.ref>>

\* The first workspace is the platform, the others are named by their key.
WorkspaceRoot(r) ==
  IF WorkspaceKey(r) = WorkspaceKey(PackageRefs[1]) THEN <<"platform">>
  ELSE <<"platforms", WorkspaceKey(r)>>

\* Mutant: the branch of a checkout is not compared.
CheckoutMatchesRepo(grant, id, ref) == grant.id = id

CheckoutMatches(grant, id, ref) == grant.id = id /\ grant.ref = ref

Project == <<"project">>

\* plan_delivery_checkouts: where a grant is implemented.
GrantRoot(grant) ==
  CASE CheckoutMatches(grant, PackageRefs[1].id, PackageRefs[1].ref) -> <<"platform">>
    [] CheckoutMatches(grant, Lifecycle.id, Lifecycle.ref) -> Project
    [] OTHER -> <<"delivery", grant.id, grant.ref>>

Checkout(r, root) == [url |-> Url(r), ref |-> r.ref, root |-> root]

\* Where everything that is asked for is: the packages, the grants, the project.
Packages == DOMAIN PackageRefs
Final == Len(PackageRefs) + Len(Grants) + 1
Checkouts ==
  [i \in 1..Final |->
     IF i \in Packages THEN Checkout(PackageRefs[i], WorkspaceRoot(PackageRefs[i]))
     ELSE IF i = Final THEN Checkout(Lifecycle, Project)
     ELSE LET g == Grants[i - Len(PackageRefs)] IN Checkout(g, GrantRoot(g))]

\* plan_clones and plan_delivery_checkouts: one clone for a directory, of the first
\* that names it; a grant in the platform or in the project has none of its own.
Clones ==
  {i \in 1..Final :
     \/ i = Final
     \/ /\ i \in Packages \/ Checkouts[i].root[1] = "delivery"
        /\ \A j \in 1..(i - 1) : Checkouts[j].root # Checkouts[i].root}

Dirs == {Checkouts[i].root : i \in Clones}
Absent == [st |-> "absent", url |-> <<>>, ref |-> None]

----------------------------------------------------------------------------
(* The launch                                                               *)

Fault(kind) == kind \in Faults /\ faults < MaxFaults /\ faults' = faults + 1

\* The driver exits; PID 1 takes every process of the container with it.
Exit(code) ==
  /\ pc' = "down" /\ exit' = code /\ engine' = "none" /\ straggler' = FALSE /\ step' = 1

Start ==
  /\ pc = "down" /\ ~deleted
  /\ pc' = "creds" /\ step' = 1
  /\ UNCHANGED <<disk, manifest, codex, engine, straggler, status, exit, deleted, faults>>

\* wait_for_creds_complete and the reads behind it.
Credentials ==
  /\ pc = "creds" /\ pc' = "clone"
  /\ UNCHANGED <<step, disk, manifest, codex, engine, straggler, status, exit, deleted, faults>>

\* The sentinel does not come in time, or the key cannot be read.
CredentialsFail ==
  /\ pc = "creds" /\ Fault("creds") /\ Exit(1)
  /\ UNCHANGED <<disk, manifest, codex, status, deleted>>

\* validate_existing_clone: the origin, then the branch that HEAD names or the
\* commit it resolves to. Whether the clone came to its end is not asked.
Valid(dir, c) == disk[dir].url = c.url /\ (c.ref = None \/ disk[dir].ref = c.ref)

NextClone ==
  LET left == {i \in Clones : i > step} \cup {Final + 1} IN CHOOSE n \in left : \A i \in left : n <= i

\* git_clone: reuse what is there if it is valid, else clone.
Clone ==
  /\ pc = "clone" /\ step <= Final
  /\ LET c == Checkouts[step] IN
     IF disk[c.root].st # "absent" /\ ~Valid(c.root, c)
     THEN Exit(1) /\ UNCHANGED disk
     ELSE /\ disk' = [disk EXCEPT ![c.root] =
                        IF @.st = "absent" THEN [st |-> "whole", url |-> c.url, ref |-> c.ref] ELSE @]
          /\ step' = NextClone /\ UNCHANGED <<pc, engine, straggler, exit>>
  /\ UNCHANGED <<manifest, codex, status, deleted, faults>>

\* A clone that fails removes its directory; the launch fails.
CloneFails ==
  /\ pc = "clone" /\ step <= Final /\ disk[Checkouts[step].root].st = "absent"
  /\ Fault("clone") /\ Exit(1)
  /\ UNCHANGED <<disk, manifest, codex, status, deleted>>

\* What a git that is killed leaves of a clone. HEAD names git's own initial branch
\* until the fetch is over ("fetch", the origin written or not yet), then the ref,
\* before the files are there ("tree").
CutOff(c) ==
  {[st |-> "fetch", url |-> <<>>, ref |-> InitialBranch],
   [st |-> "fetch", url |-> c.url, ref |-> InitialBranch],
   [st |-> "tree", url |-> c.url, ref |-> c.ref]}

\* The container is killed while git works: what it wrote stays.
KilledInClone ==
  /\ pc = "clone" /\ step <= Final /\ disk[Checkouts[step].root].st = "absent"
  /\ Fault("kill_clone") /\ Exit(1)
  /\ LET c == Checkouts[step] IN \E left \in CutOff(c) : disk' = [disk EXCEPT ![c.root] = left]
  /\ UNCHANGED <<manifest, codex, status, deleted>>

\* fetch_extra_ref brings the source branch into the single-branch clone of the
\* project. A git that fails is tolerated: the launch goes on without it.
FetchExtraRef ==
  /\ pc = "clone" /\ step > Final /\ pc' = "prepare"
  /\ UNCHANGED <<step, disk, manifest, codex, engine, straggler, status, exit, deleted, faults>>

\* The workspace manifest and the child environment.
Prepare ==
  /\ pc = "prepare" /\ pc' = "install" /\ step' = 1
  /\ UNCHANGED <<disk, manifest, codex, engine, straggler, status, exit, deleted, faults>>

Install ==
  /\ pc = "install" /\ step <= Commands /\ step' = step + 1
  /\ UNCHANGED <<pc, disk, manifest, codex, engine, straggler, status, exit, deleted, faults>>

InstallFails ==
  /\ pc = "install" /\ step <= Commands /\ Fault("install") /\ Exit(1)
  /\ UNCHANGED <<disk, manifest, codex, status, deleted>>

\* read_user_env: reserved names never enter.
ProfileEnv == UserEnv \ Reserved

\* read_secret_keys: an absent manifest means that there are no secrets.
ReadSecretKeys(m) ==
  CASE m = "good" -> [ok |-> TRUE, keys |-> Secrets]
    [] m = "absent" -> [ok |-> TRUE, keys |-> {}]
    [] OTHER -> [ok |-> FALSE, keys |-> {}]

NonSecretVariables ==
  LET read == ReadSecretKeys(manifest) IN IF read.ok THEN ProfileEnv \ read.keys ELSE {}

RenderCodex ==
  /\ pc = "install" /\ step > Commands
  /\ codex' = NonSecretVariables /\ pc' = "ready"
  /\ UNCHANGED <<step, disk, manifest, engine, straggler, status, exit, deleted, faults>>

\* The collector and the engine are started.
Supervise ==
  /\ pc = "ready"
  /\ pc' = "engine" /\ engine' = "running" /\ status' = None
  /\ UNCHANGED <<step, disk, manifest, codex, straggler, exit, deleted, faults>>

----------------------------------------------------------------------------
(* Supervision                                                              *)

\* The engine ends, by itself or told to: with a code, or by a signal (None).
EngineExits ==
  /\ pc = "engine" /\ engine = "running" /\ engine' = "exited"
  /\ status' \in {0, 1, 256, None}
  /\ \/ straggler' = FALSE /\ UNCHANGED faults
     \/ straggler' = TRUE /\ Fault("straggler")
  /\ UNCHANGED <<pc, step, disk, manifest, codex, exit, deleted>>

\* child.wait returned: no signal is forwarded any more, the tees are drained.
Reaped ==
  /\ pc = "engine" /\ engine = "exited" /\ pc' = "drain"
  /\ UNCHANGED <<step, disk, manifest, codex, engine, straggler, status, exit, deleted, faults>>

ExitStatusToCode(s) ==
  CASE s = 0 -> 0
    [] s # 0 /\ s # None -> IF s % 256 = 0 THEN 1 ELSE s % 256
    [] OTHER -> 1

\* The tees end when nobody holds the pipes; the log stream is closed.
Finish ==
  /\ pc = "drain" /\ ~straggler
  /\ Exit(ExitStatusToCode(status))
  /\ UNCHANGED <<disk, manifest, codex, status, deleted, faults>>

\* A descendant that outlives the engine ends, if it ever does.
StragglerEnds ==
  /\ straggler /\ straggler' = FALSE
  /\ UNCHANGED <<pc, step, disk, manifest, codex, engine, status, exit, deleted, faults>>

\* The container is killed at another point (memory, node pressure).
Killed ==
  /\ pc # "down" /\ Fault("kill") /\ Exit(1)
  /\ UNCHANGED <<disk, manifest, codex, status, deleted>>

\* The pod is deleted. A SIGTERM before supervision ends the driver; after it,
\* it goes to the engine's group, and the engine ends.
Delete ==
  /\ ~deleted /\ deleted' = TRUE
  /\ IF pc \in {"engine", "drain", "down"} THEN UNCHANGED <<pc, step, engine, straggler, exit>>
     ELSE Exit(1)
  /\ UNCHANGED <<disk, manifest, codex, status, faults>>

Init ==
  /\ pc = "down" /\ step = 1 /\ disk = [d \in Dirs |-> Absent]
  /\ manifest \in (IF Secrets = {} THEN {"absent"} ELSE {"good"}) \cup {"bad"}
  /\ codex = {} /\ engine = "none" /\ straggler = FALSE /\ status = None /\ exit = None
  /\ deleted = FALSE /\ faults = 0

Launch == Start \/ Credentials \/ Clone \/ FetchExtraRef \/ Prepare \/ Install \/ RenderCodex \/ Supervise \/ Reaped \/ Finish

Next ==
  \/ Launch \/ CredentialsFail \/ CloneFails \/ KilledInClone \/ InstallFails \/ EngineExits
  \/ StragglerEnds \/ Killed \/ Delete

Spec == Init /\ [][Next]_vars

\* The driver runs on and the kubelet restarts it.
FairSpec == Spec /\ WF_vars(Launch)

----------------------------------------------------------------------------
(* Properties                                                               *)

TypeOK ==
  /\ pc \in {"down", "creds", "clone", "prepare", "install", "ready", "engine", "drain"}
  /\ step \in 1..(Final + Commands + 1)
  /\ \A d \in Dirs : disk[d].st \in {"absent", "fetch", "tree", "whole"}
  /\ manifest \in {"absent", "good", "bad"} /\ codex \subseteq UserEnv
  /\ engine \in {"none", "running", "exited"} /\ straggler \in BOOLEAN
  /\ status \in {0, 1, 256, None} /\ exit \in 0..255 \cup {None} /\ deleted \in BOOLEAN
  /\ faults \in 0..MaxFaults

\* What a reuse can tell of a checkout: its origin, and that its HEAD names the ref.
\* It does not tell that the clone is complete: one that was cut off after HEAD was
\* written is built upon, and one cut off before it too, if git's initial branch is
\* the ref.
Holds(dir, r) == disk[dir].st # "absent" /\ disk[dir].url[1] = r.id /\ disk[dir].ref = r.ref

\* The engine runs on what was asked for: every package is read from a checkout
\* of its repository with HEAD at its ref, every grant points at a checkout of its
\* implementation repository at its branch, and the project is there, whatever
\* was reused from earlier containers.
EngineOnPlan ==
  engine = "running" =>
    /\ \A i \in DOMAIN PackageRefs : Holds(WorkspaceRoot(PackageRefs[i]), PackageRefs[i])
    /\ \A i \in DOMAIN Grants : Holds(GrantRoot(Grants[i]), Grants[i])
    /\ Holds(Project, Lifecycle)

\* No secret value is ever written into the plaintext codex configuration, a
\* manifest that cannot be read included (driver.rs: fails CLOSED).
SecretsStayOut == codex \cap (Secrets \cup Reserved) = {}

\* The container reports success only for an engine that did: after a launch that
\* failed, a kill, a signal or an exit code beyond a byte it restarts as a failure.
ExitTells == pc = "down" /\ exit = 0 => status = 0

Serving == engine = "running" \/ deleted

\* A descendant that never closes its pipes, or a clone that was cut off before
\* its HEAD named the ref: no restart gets past either.
Stuck ==
  \/ straggler
  \/ \E i \in Clones : LET c == Checkouts[i] IN disk[c.root].st = "fetch" /\ ~Valid(c.root, c)

\* What holds of the pod at every state: the engine runs on what was asked for,
\* without secrets in its variables, and the exit code tells how it ended.
PodSafe == TypeOK /\ EngineOnPlan /\ SecretsStayOut /\ ExitTells
=============================================================================
