---------------------------- MODULE Environments ----------------------------
(***************************************************************************)
(* One user's environment profile: the handlers that write and delete it   *)
(* (routes/environments.rs), the validation in front of every write        *)
(* (k8s/env_validator.rs, session_backend/k8s/validation.rs), the two      *)
(* stores - the pair of a ConfigMap and a Secret (k8s/env_store.rs) and    *)
(* the single sealed object (k8s/durable_env_store) - and the migration    *)
(* from the first to the second that every process of the control plane    *)
(* runs before it serves.                                                  *)
(*                                                                         *)
(* A profile has a public half (install commands and variables) and a      *)
(* secret half; a value stands for the content of a half.  The names of    *)
(* the secrets do not change.  Calls of the Kubernetes API interleave, may *)
(* fail, may be applied although the answer is lost, and a process may     *)
(* stop between any two of them.                                           *)
(***************************************************************************)
EXTENDS Integers, FiniteSets

CONSTANTS
    Procs,         \* processes of the control plane
    Requests,      \* requests of the user
    Specs,         \* contents the user writes: [pub, sec]
    Durable,       \* the configured store is the single object
    Legacy,        \* contents of the pair when the first process starts
    MaxPerUser,    \* profiles a user may have
    MaxConcurrent, \* validations a process runs at a time
    MaxInFlight,   \* requests at a time
    MaxFaults,     \* failures and crashes
    None

VARIABLES
    cm,        \* ConfigMap of the pair: [pub, by, ver]
    secret,    \* Secret of the pair: [sec, by, ver]
    env,       \* the durable object: [pub, sec, rev, ver]
    clock,     \* resourceVersion of the last write
    proc,      \* start-up of every process, with what it has listed
    req,       \* every request
    permits,   \* free permits of every process's validation semaphore
    inflight,  \* requests that hold the profile's validation slot
    pods,      \* requests whose validation pod exists
    faults

vars == <<cm, secret, env, clock, proc, req, permits, inflight, pods, faults>>
objects == <<cm, secret, env, clock>>
validation == <<permits, inflight, pods>>

Idle == [pc |-> "idle", proc |-> None, kind |-> None, spec |-> None, old |-> None,
         reply |-> None]
Down == [pc |-> "down", cm |-> None, secret |-> None]

Init ==
    /\ \E s \in Legacy :
          /\ cm = IF s = None THEN None ELSE [pub |-> s.pub, by |-> 0, ver |-> 1]
          /\ secret = IF s = None THEN None ELSE [sec |-> s.sec, by |-> 0, ver |-> 1]
    /\ env = None /\ clock = 1
    /\ proc = [p \in Procs |-> Down] /\ req = [q \in Requests |-> Idle]
    /\ permits = [p \in Procs |-> MaxConcurrent]
    /\ inflight = [p \in Procs |-> {}] /\ pods = {}
    /\ faults = 0

Reply(q, r) == [req EXCEPT ![q].pc = "done", ![q].reply = r]
Step(q, pc) == [req EXCEPT ![q].pc = pc]
At(q, pc) == req[q].pc = pc
Fault(ok) == /\ ok \/ faults < MaxFaults
             /\ faults' = IF ok THEN faults ELSE faults + 1

-----------------------------------------------------------------------------
\* A process starts: the records are verified, the legacy pairs migrated, and
\* verified again, before anything is served.  A failure ends the process.

Move(p, pc) == [proc EXCEPT ![p].pc = pc]

Start(p) ==
    /\ proc[p].pc = "down"
    /\ proc' = Move(p, IF Durable THEN "list_cm" ELSE "serving")
    /\ UNCHANGED <<req, faults>> /\ UNCHANGED objects /\ UNCHANGED validation

\* migrate_legacy lists the two kinds one after the other.
ListConfigMaps(p) ==
    /\ proc[p].pc = "list_cm"
    /\ proc' = [proc EXCEPT ![p] = [pc |-> "list_secret", cm |-> cm, secret |-> None]]
    /\ UNCHANGED <<req, faults>> /\ UNCHANGED objects /\ UNCHANGED validation

ListSecrets(p) ==
    /\ proc[p].pc = "list_secret"
    /\ proc' = [proc EXCEPT ![p].secret = secret,
                            ![p].pc = IF proc[p].cm = None /\ secret = None
                                      THEN "serving" ELSE "check"]
    /\ UNCHANGED <<req, faults>> /\ UNCHANGED objects /\ UNCHANGED validation

\* legacy_profile: both halves, with the metadata of one write.
Complete(l) == l.cm # None /\ l.secret # None /\ l.cm.by = l.secret.by

\* A durable record is authoritative; without one the pair must be complete.
CheckEnvelope(p) ==
    /\ proc[p].pc = "check"
    /\ proc' = IF env # None THEN Move(p, "delete_cm")
               ELSE IF Complete(proc[p]) THEN Move(p, "create")
               ELSE [proc EXCEPT ![p] = Down]
    /\ UNCHANGED <<req, faults>> /\ UNCHANGED objects /\ UNCHANGED validation

\* A record is written as its first revision, or as the one after the current.
FirstRevision(pub, sec) == [pub |-> pub, sec |-> sec, rev |-> 1, ver |-> clock + 1]
NextRevision(current, spec) ==
    [pub |-> spec.pub, sec |-> spec.sec, rev |-> current.rev + 1, ver |-> clock + 1]

\* create_envelope; another process may have won the create.  The answer of a
\* create that was applied may be lost, which ends the process.
CreateEnvelope(p, ok) ==
    /\ proc[p].pc = "create" /\ Fault(ok)
    /\ IF env = None THEN env' = FirstRevision(proc[p].cm.pub, proc[p].secret.sec)
                         /\ clock' = clock + 1
                     ELSE UNCHANGED <<env, clock>>
    /\ proc' = IF ok THEN Move(p, "verify") ELSE [proc EXCEPT ![p] = Down]
    /\ UNCHANGED <<cm, secret, req>> /\ UNCHANGED validation

\* What is persisted must be what the pair held.
VerifyEnvelope(p) ==
    /\ proc[p].pc = "verify"
    /\ proc' = IF env # None /\ env.rev = 1 /\ env.pub = proc[p].cm.pub
                             /\ env.sec = proc[p].secret.sec
               THEN Move(p, "delete_cm") ELSE [proc EXCEPT ![p] = Down]
    /\ UNCHANGED <<req, faults>> /\ UNCHANGED objects /\ UNCHANGED validation

\* cleanup_legacy deletes the halves under the versions that were listed: an
\* absent one counts as deleted, a changed one is a conflict.
DeleteLegacyCm(p, ok) ==
    /\ proc[p].pc = "delete_cm" /\ Fault(ok)
    /\ LET l == proc[p].cm
           mine == l # None /\ cm # None /\ cm.ver = l.ver
       IN  /\ cm' = IF mine THEN None ELSE cm
           /\ proc' = IF ok /\ (l = None \/ cm = None \/ mine) THEN Move(p, "delete_secret")
                      ELSE [proc EXCEPT ![p] = Down]
    /\ UNCHANGED <<secret, env, clock, req>> /\ UNCHANGED validation

DeleteLegacySecret(p, ok) ==
    /\ proc[p].pc = "delete_secret" /\ Fault(ok)
    /\ LET l == proc[p].secret
           mine == l # None /\ secret # None /\ secret.ver = l.ver
       IN  /\ secret' = IF mine THEN None ELSE secret
           /\ proc' = IF ok /\ (l = None \/ secret = None \/ mine)
                      THEN [proc EXCEPT ![p] = [Down EXCEPT !.pc = "serving"]]
                      ELSE [proc EXCEPT ![p] = Down]
    /\ UNCHANGED <<cm, env, clock, req>> /\ UNCHANGED validation

-----------------------------------------------------------------------------
\* A request reaches a process that serves.

InFlight == {q \in Requests : req[q].pc \notin {"idle", "done"}}

Submit(q, p, kind, s) ==
    /\ At(q, "idle") /\ proc[p].pc = "serving"
    /\ Cardinality(InFlight) < MaxInFlight
    /\ \A r \in Requests : r < q => ~At(r, "idle")
    /\ req' = [req EXCEPT ![q] = [Idle EXCEPT !.pc = IF kind = "put" THEN "get" ELSE "delete",
                                              !.proc = p, !.kind = kind, !.spec = s]]
    /\ UNCHANGED <<proc, faults>> /\ UNCHANGED objects /\ UNCHANGED validation

\* put_user_environment, once it knows the profile there is: a ready profile
\* with the same content (secrets included) is not written again.
Unchanged(spec, old) == old.pub = spec.pub /\ old.sec = spec.sec

Decide(q, old) ==
    IF old = None THEN [req EXCEPT ![q].pc = "count"]
    ELSE IF Unchanged(req[q].spec, old) THEN Reply(q, "unchanged")
    ELSE [req EXCEPT ![q].pc = "admit", ![q].old = old]

\* get_environment: one object, or the ConfigMap first and then the Secret.
Get(q) ==
    /\ At(q, "get")
    /\ req' = IF Durable THEN Decide(q, env)
              ELSE IF cm = None THEN Decide(q, None)
              ELSE [req EXCEPT ![q].pc = "get_secret", ![q].old = cm]
    /\ UNCHANGED <<proc, faults>> /\ UNCHANGED objects /\ UNCHANGED validation

GetSecret(q) ==
    /\ At(q, "get_secret")
    /\ req' = Decide(q, [pub |-> req[q].old.pub, ver |-> req[q].old.ver,
                         sec |-> IF secret = None THEN None ELSE secret.sec])
    /\ UNCHANGED <<proc, faults>> /\ UNCHANGED objects /\ UNCHANGED validation

\* Only a new name counts against the user's cap.
Count(q) ==
    /\ At(q, "count")
    /\ LET n == IF (Durable /\ env # None) \/ (~Durable /\ cm # None) THEN 1 ELSE 0
       IN  req' = IF n >= MaxPerUser THEN Reply(q, "cap") ELSE Step(q, "admit")
    /\ UNCHANGED <<proc, faults>> /\ UNCHANGED objects /\ UNCHANGED validation

-----------------------------------------------------------------------------
\* Validation.

\* validate_environment: a permit of the process, waited for only briefly,
\* then the slot of this profile; then the validation pod is created.
Admit(q) ==
    LET p == req[q].proc
    IN  /\ At(q, "admit")
        /\ IF permits[p] = 0 \/ inflight[p] # {}
           THEN req' = Reply(q, "busy") /\ UNCHANGED validation
           ELSE /\ permits' = [permits EXCEPT ![p] = @ - 1]
                /\ inflight' = [inflight EXCEPT ![p] = {q}]
                /\ pods' = pods \union {q}
                /\ req' = Step(q, "validating")
        /\ UNCHANGED <<proc, faults>> /\ UNCHANGED objects

\* AdmissionGuard's and PodCleanup's drop, on every way out of the
\* validation; the deletion of the pod may fail.
Release(q, cleaned) ==
    LET p == req[q].proc
    IN  /\ permits' = [permits EXCEPT ![p] = @ + 1]
        /\ inflight' = [inflight EXCEPT ![p] = @ \ {q}]
        /\ pods' = IF cleaned THEN pods \ {q} ELSE pods

\* The run ends: passed, failed (or timed out), or the backend's calls fail.
Verdict(q, outcome, cleaned) ==
    /\ At(q, "validating") /\ Fault(cleaned)
    /\ Release(q, cleaned)
    /\ req' = CASE outcome = "passed" -> Step(q, IF ~Durable THEN "upsert_secret"
                                                 ELSE IF req[q].old = None THEN "create_env"
                                                 ELSE "load_env")
                [] outcome = "failed" -> Reply(q, "invalid")
                [] outcome = "error"  -> Reply(q, "error")
    /\ UNCHANGED <<proc, cm, secret, env, clock>>

\* reap_stale_validations: a pod past its deadline has no run any more.
Reap(q) ==
    /\ q \in pods /\ ~At(q, "validating")
    /\ pods' = pods \ {q}
    /\ UNCHANGED <<proc, req, permits, inflight, faults>> /\ UNCHANGED objects

-----------------------------------------------------------------------------
\* The write to the single object: a create, or a replace of the version the
\* request has read.

CreateEnv(q, ok) ==
    /\ At(q, "create_env") /\ Fault(ok)
    /\ IF env = None
       THEN /\ env' = FirstRevision(req[q].spec.pub, req[q].spec.sec)
            /\ clock' = clock + 1
            /\ req' = Reply(q, IF ok THEN "created" ELSE "error")
       ELSE UNCHANGED <<env, clock>> /\ req' = Reply(q, IF ok THEN "conflict" ELSE "error")
    /\ UNCHANGED <<cm, secret, proc>> /\ UNCHANGED validation

\* The current revision is loaded first, and must be the one that was read.
LoadEnv(q) ==
    /\ At(q, "load_env")
    /\ req' = IF env # None /\ env.ver = req[q].old.ver
              THEN [req EXCEPT ![q].pc = "replace_env", ![q].old = env]
              ELSE Reply(q, "conflict")
    /\ UNCHANGED <<proc, faults>> /\ UNCHANGED objects /\ UNCHANGED validation

\* The replace carries that version as its precondition.
\* Mutant: the replace is unconditional once the revision was loaded.
ReplaceableAny(o) == env # None

Replaceable(o) == env # None /\ env.ver = o.ver

ReplaceEnv(q, ok) ==
    /\ At(q, "replace_env") /\ Fault(ok)
    /\ IF Replaceable(req[q].old)
       THEN /\ env' = NextRevision(req[q].old, req[q].spec)
            /\ clock' = clock + 1
            /\ req' = Reply(q, IF ok THEN "replaced" ELSE "error")
       ELSE UNCHANGED <<env, clock>>
            /\ req' = Reply(q, IF ok /\ env # None THEN "conflict" ELSE "error")
    /\ UNCHANGED <<cm, secret, proc>> /\ UNCHANGED validation

\* The write to the pair ignores the version: the Secret first, and then the
\* ConfigMap, each created or replaced.
UpsertSecret(q, ok) ==
    /\ At(q, "upsert_secret") /\ Fault(ok)
    /\ secret' = [sec |-> req[q].spec.sec, by |-> q, ver |-> clock + 1]
    /\ clock' = clock + 1
    /\ req' = IF ok THEN Step(q, "upsert_cm") ELSE Reply(q, "error")
    /\ UNCHANGED <<cm, env, proc>> /\ UNCHANGED validation

UpsertConfigMap(q, ok) ==
    /\ At(q, "upsert_cm") /\ Fault(ok)
    /\ cm' = [pub |-> req[q].spec.pub, by |-> q, ver |-> clock + 1]
    /\ clock' = clock + 1
    /\ req' = Reply(q, IF ~ok THEN "error" ELSE IF req[q].old = None THEN "created"
                       ELSE "replaced")
    /\ UNCHANGED <<secret, env, proc>> /\ UNCHANGED validation

-----------------------------------------------------------------------------
\* The delete: one object, or the ConfigMap and then the Secret.

Delete(q, ok) ==
    /\ At(q, "delete") /\ Fault(ok)
    /\ IF Durable THEN env' = None /\ UNCHANGED cm ELSE cm' = None /\ UNCHANGED env
    /\ req' = IF ~ok THEN Reply(q, "error") ELSE IF Durable THEN Reply(q, "deleted")
              ELSE Step(q, "delete_secret")
    /\ UNCHANGED <<secret, clock, proc>> /\ UNCHANGED validation

DeleteSecret(q, ok) ==
    /\ At(q, "delete_secret") /\ Fault(ok)
    /\ secret' = None
    /\ req' = Reply(q, IF ok THEN "deleted" ELSE "error")
    /\ UNCHANGED <<cm, env, clock, proc>> /\ UNCHANGED validation

\* An API call of a request fails with nothing applied.
CallFails(q) ==
    /\ req[q].pc \in {"get", "get_secret", "count", "create_env", "load_env", "replace_env",
                      "upsert_secret", "upsert_cm", "delete", "delete_secret"}
    /\ Fault(FALSE)
    /\ req' = Reply(q, "error")
    /\ UNCHANGED proc /\ UNCHANGED objects /\ UNCHANGED validation

\* A process stops: its requests get no answer, its memory is gone, the pods
\* of its validations stay.
Crash(p) ==
    /\ proc[p].pc # "down" /\ Fault(FALSE)
    /\ proc' = [proc EXCEPT ![p] = Down]
    /\ req' = [q \in Requests |-> IF q \in InFlight /\ req[q].proc = p
                                  THEN [req[q] EXCEPT !.pc = "done", !.reply = "lost"]
                                  ELSE req[q]]
    /\ permits' = [permits EXCEPT ![p] = MaxConcurrent]
    /\ inflight' = [inflight EXCEPT ![p] = {}]
    /\ UNCHANGED pods /\ UNCHANGED objects

StartUp(p) ==
    \/ Start(p) \/ ListConfigMaps(p) \/ ListSecrets(p) \/ CheckEnvelope(p) \/ VerifyEnvelope(p)
    \/ \E ok \in BOOLEAN :
          CreateEnvelope(p, ok) \/ DeleteLegacyCm(p, ok) \/ DeleteLegacySecret(p, ok)

Serve(q) ==
    \/ Get(q) \/ GetSecret(q) \/ Count(q) \/ Admit(q) \/ LoadEnv(q) \/ CallFails(q)
    \/ \E outcome \in {"passed", "failed", "error"}, cleaned \in BOOLEAN :
          Verdict(q, outcome, cleaned)
    \/ \E ok \in BOOLEAN :
          \/ CreateEnv(q, ok) \/ ReplaceEnv(q, ok)
          \/ UpsertSecret(q, ok) \/ UpsertConfigMap(q, ok)
          \/ Delete(q, ok) \/ DeleteSecret(q, ok)

Next ==
    \/ \E p \in Procs : StartUp(p) \/ Crash(p)
    \/ \E q \in Requests, p \in Procs :
          (\E s \in Specs : Submit(q, p, "put", s)) \/ Submit(q, p, "delete", None)
    \/ \E q \in Requests : Serve(q) \/ Reap(q)

Spec == Init /\ [][Next]_vars

\* A process that is down is restarted, a handler runs on, and the sweep of
\* stale validations is periodic.
FairSpec ==
    /\ Spec
    /\ \A p \in Procs : WF_vars(StartUp(p))
    /\ \A q \in Requests : WF_vars(Serve(q)) /\ WF_vars(Reap(q))

-----------------------------------------------------------------------------
\* Types: a process never runs more validations than it has permits, and
\* never two of the same profile.
TypeOK ==
    /\ clock \in Nat /\ faults \in 0..MaxFaults
    /\ \A p \in Procs : permits[p] \in 0..MaxConcurrent /\ Cardinality(inflight[p]) <= 1
    /\ \A p \in Procs :
          {q \in Requests : At(q, "validating") /\ req[q].proc = p} = inflight[p]
    /\ pods \subseteq Requests
    /\ env # None => env.rev >= 1

Won(q) == req[q].reply \in {"created", "replaced"}

\* Of two writes that read the same version of the profile at most one is
\* told that it replaced it, whichever calls interleave or fail: no update is
\* lost ("a stale replace must surface a retriable conflict").
OneWinnerPerRead ==
    \A q, r \in Requests :
        q # r /\ Durable /\ Won(q) /\ Won(r) /\ req[q].old # None /\ req[r].old # None
            => req[q].old.ver # req[r].old.ver

Untouched == \A q \in Requests : req[q].kind = None
Whole(s) == cm # None /\ secret # None /\ cm.pub = s.pub /\ secret.sec = s.sec

\* While the user has asked for nothing, the migrated profile is in one of
\* the stores, whole and with its content, however often processes start,
\* race and stop; and once a process serves, the profile is in the store the
\* process reads ("finish any configured legacy migration before either REST
\* calls or reconciliation can observe profiles").
ProfileSurvives ==
    Durable /\ None \notin Legacy /\ Untouched =>
        /\ \E s \in Legacy : Whole(s) \/ (env # None /\ env.pub = s.pub /\ env.sec = s.sec)
        /\ (\E p \in Procs : proc[p].pc = "serving") => env # None

\* A write that was alone and was told that the profile is as it asked has
\* left it so, also after a write that ended between the two halves of the
\* pair: the short-circuit for an unchanged profile sees the secrets.
Last == {q \in Requests : ~At(q, "idle") /\ \A r \in Requests : At(r, "idle") \/ r <= q}
AnswerIsTrue ==
    MaxInFlight = 1 /\ ~Durable /\ InFlight = {} =>
        \A q \in Last :
            /\ Won(q) \/ req[q].reply = "unchanged" => Whole(req[q].spec)
            /\ req[q].reply = "deleted" => cm = None /\ secret = None

\* Every process ends up serving, with the pair gone and no validation slot,
\* permit or pod left behind.
Settled ==
    /\ \A p \in Procs : proc[p].pc = "serving" /\ permits[p] = MaxConcurrent /\ inflight[p] = {}
    /\ pods = {} /\ InFlight = {}
    /\ Durable => cm = None /\ secret = None
Settles == <>[]Settled

\* What holds of the profiles and of the answers about them at every state.
EnvironmentsSafe == TypeOK /\ OneWinnerPerRead /\ ProfileSurvives /\ AnswerIsTrue
=============================================================================
