---------------------------- MODULE SandboxCreds ----------------------------
(* The credentials of one session under the OpenSandbox backend: the sandbox is *)
(* created without a name of its own, its credential files are pushed into the  *)
(* container one by one with a sentinel last, and a container restart wipes     *)
(* them. Three tasks of the control plane share the sandboxes and a cache of    *)
(* the bundle: the reconciler (ensure, recover, stop), the rotation loop        *)
(* (deliver, re-push) and the credentials watch (probe, enqueue). Both loops    *)
(* list the fleet and reap duplicates on the way.                               *)
EXTENDS Naturals, Sequences, FiniteSets, SequencesExt

CONSTANTS
  Id,           \* sandbox identities, numbers; reused once nobody holds them
  Files,        \* number of credential files; file 1 is the GitHub token
  MaxAttempts,  \* uploads tried while execd is not ready
  MaxFaults,    \* bound: restarts, lost calls, crashes
  MaxChanges    \* bound: changes of the trigger

VARIABLES
  fleet,    \* the live sandboxes, oldest first
  box,      \* [Id -> what the container of a sandbox holds and does; torn: it came
            \*  up between two requests of one push]
  cache,    \* the control plane holds a complete bundle
  rec,      \* the reconciler
  sweep,    \* the rotation loop and the watch
  want,     \* the trigger: pending work, idle, or closed
  queued,   \* the repository is enqueued
  shield,   \* the session was just stopped
  faults,
  changes

vars == <<fleet, box, cache, rec, sweep, want, queued, shield, faults, changes>>

Sweeps == {"rotate", "watch"}
Nobody == 0
Sentinel == Files + 1
Token == 1
Tmp == 0

ASSUME CredsAssumption ==
  /\ IsFiniteSet(Id) /\ Id \subseteq Nat \ {Nobody}
  /\ Files \in Nat /\ MaxAttempts \in Nat \ {0}
  /\ MaxFaults \in Nat /\ MaxChanges \in Nat

\* A sandbox the server accepted but has not started is "late": no list shows it.
Fresh(state) == [state |-> state, files |-> {}, up |-> FALSE, engine |-> FALSE, torn |-> FALSE]
Idle == [pc |-> "idle", id |-> Nobody, next |-> 1, tries |-> 1, wait |-> FALSE]

----------------------------------------------------------------------------
(* The lifecycle and execd APIs                                             *)

\* The places of the fleet that a list shows, oldest first.
Views == {k \in DOMAIN fleet : box[fleet[k]].state # "late"}
Running(i) == i \in Range(fleet) /\ box[i].state = "running"
Reachable(i) == Running(i) /\ box[i].up
Holds(i, file) == file \in box[i].files
Delete(i) ==
  IF i \in Range(fleet) THEN RemoveAt(fleet, CHOOSE k \in DOMAIN fleet : fleet[k] = i) ELSE fleet

\* pick_oldest_index and resolve_one: the first of the list, which is by age.
ResolveOne == IF Views = {} THEN Nobody ELSE fleet[Min(Views)]

\* The duplicates of a list: everything it shows but the oldest.
Duplicates == Views \ {Min(Views)}

Fault == faults < MaxFaults /\ faults' = faults + 1
Quiet == UNCHANGED faults

\* One execd request for a file: it succeeds, the container is not ready (a
\* gateway status, retried), or the sandbox is gone (an error).
Write(i, file) == box' = [box EXCEPT ![i].files = @ \cup {file}]

UploadOrder == [f \in 1..Sentinel |-> f]

MayRetry(t) == t.tries < MaxAttempts

\* Mutant: a retry goes on from the file that failed.
RetryUploadResuming(t) == [t EXCEPT !.tries = @ + 1, !.wait = TRUE]

\* A retry sleeps, and pushes the whole bundle again.
RetryUpload(t) == [t EXCEPT !.tries = @ + 1, !.next = 1, !.wait = TRUE]

RecoveryNeeded(i) == ~Holds(i, Sentinel)

----------------------------------------------------------------------------
(* The reconciler                                                           *)

Become(t) == rec' = t
StayWith(v) == UNCHANGED v

\* Mutant: a session without a registration is left alone.
ObserveRegistered ==
  /\ rec.pc = "idle" /\ queued
  /\ queued' = FALSE
  /\ Become(IF want = "closed" THEN Idle
            ELSE IF Views = {} THEN IF shield \/ want = "idle" THEN Idle ELSE [Idle EXCEPT !.pc = "ensure"]
            ELSE IF box[ResolveOne].state = "failed" \/ want = "idle" THEN [Idle EXCEPT !.pc = "stop"]
            ELSE [Idle EXCEPT !.pc = "probe"])
  /\ UNCHANGED <<fleet, box, cache, sweep, want, shield, faults, changes>>

\* One pass: observe_repo (the shield stands in for a session that is absent),
\* plan_repo and the first call of the action. With duplicates the planner sees
\* the one its map kept.
Observe ==
  /\ rec.pc = "idle" /\ queued
  /\ queued' = FALSE
  /\ \/ /\ Views = {} /\ ~shield /\ want = "pending"
        /\ Become([Idle EXCEPT !.pc = "ensure"])
     \/ /\ Views = {} /\ (shield \/ want # "pending")
        /\ Become(Idle)
     \/ \E k \in Views :
          Become(CASE want = "closed" -> [Idle EXCEPT !.pc = "stop", !.tries = Cardinality(Views)]
                   [] want # "closed" /\ box[fleet[k]].state = "failed" -> [Idle EXCEPT !.pc = "stop"]
                   [] want = "pending" /\ box[fleet[k]].state = "running" -> [Idle EXCEPT !.pc = "probe"]
                   [] OTHER -> Idle)
     \/ /\ Views # {} /\ want = "idle"          \* the idle clocks have passed
        /\ Become([Idle EXCEPT !.pc = "stop"])
  /\ UNCHANGED <<fleet, box, cache, sweep, want, shield, faults, changes>>

\* recover_credentials: the probe, then the bundle is resolved anew.
Probe ==
  /\ rec.pc = "probe"
  /\ LET i == ResolveOne IN
     Become(IF ~cache \/ i = Nobody THEN [Idle EXCEPT !.pc = "ensure"]
            ELSE IF ~Reachable(i) THEN Idle
            ELSE IF RecoveryNeeded(i) THEN [Idle EXCEPT !.pc = "ensure"] ELSE Idle)
  /\ UNCHANGED <<fleet, box, cache, sweep, want, queued, shield, faults, changes>>

\* ensure_session: the list guard.
Ensure ==
  /\ rec.pc = "ensure"
  /\ Become(IF ResolveOne = Nobody THEN [Idle EXCEPT !.pc = "create"]
            ELSE [Idle EXCEPT !.pc = "adopt", !.id = ResolveOne])
  /\ UNCHANGED <<fleet, box, cache, sweep, want, queued, shield, faults, changes>>

Free == {i \in Id : i \notin Range(fleet) /\ \A w \in Sweeps : sweep[w].id # i}

\* The create call answers, or its client gives up while the server goes on.
Create(lost) ==
  /\ rec.pc = "create" /\ Free # {}
  /\ LET i == CHOOSE i \in Free : \A j \in Free : i <= j IN
     /\ fleet' = Append(fleet, i)
     /\ box' = [box EXCEPT ![i] = Fresh(IF lost THEN "late" ELSE "running")]
     /\ Become(IF lost THEN Idle ELSE [Idle EXCEPT !.pc = "upload", !.id = i])
  /\ IF lost THEN Fault ELSE Quiet
  /\ UNCHANGED <<cache, sweep, want, queued, shield, changes>>

\* adopt_existing_credentials: the sentinel decides whether to push.
Adopt ==
  /\ rec.pc = "adopt"
  /\ IF ~Reachable(rec.id) THEN Become(Idle) /\ StayWith(cache)
     ELSE IF Holds(rec.id, Sentinel) THEN Become(Idle) /\ cache' = TRUE
     ELSE Become([rec EXCEPT !.pc = "restore"]) /\ StayWith(cache)
  /\ UNCHANGED <<fleet, box, sweep, want, queued, shield, faults, changes>>

\* upload_creds, one request. A failure for good rolls a new sandbox back.
Upload ==
  /\ rec.pc \in {"upload", "restore"} /\ ~rec.wait
  /\ \/ /\ Reachable(rec.id)
        /\ Write(rec.id, UploadOrder[rec.next])
        /\ IF rec.next = Len(UploadOrder) THEN cache' = TRUE /\ Become(Idle)
           ELSE StayWith(cache) /\ Become([rec EXCEPT !.next = @ + 1])
        /\ StayWith(fleet)
     \/ /\ Running(rec.id) /\ ~box[rec.id].up /\ MayRetry(rec)
        /\ Become(RetryUpload(rec))
        /\ UNCHANGED <<fleet, box, cache>>
     \/ /\ ~Running(rec.id) \/ (~box[rec.id].up /\ ~MayRetry(rec))
        /\ Become(Idle)
        /\ fleet' = IF rec.pc = "upload" THEN Delete(rec.id) ELSE fleet
        /\ UNCHANGED <<box, cache>>
  /\ UNCHANGED <<sweep, want, queued, shield, faults, changes>>

\* The rollback delete is lost: the sandbox stays, for the next list guard.
LoseRollback ==
  /\ rec.pc = "upload" /\ ~rec.wait /\ ~Reachable(rec.id) /\ ~MayRetry(rec)
  /\ Fault
  /\ Become(Idle)
  /\ UNCHANGED <<fleet, box, cache, sweep, want, queued, shield, changes>>

\* stop_session and remove_terminal: delete the oldest and raise the shield, even
\* when the delete failed. A closed trigger stops once for every listed sandbox.
Stop(lost) ==
  /\ rec.pc = "stop"
  /\ LET i == ResolveOne IN
     /\ fleet' = IF i = Nobody \/ lost THEN fleet ELSE Delete(i)
     /\ shield' = (shield \/ i # Nobody)
     /\ lost => i # Nobody
  /\ Become(IF rec.tries > 1 THEN [rec EXCEPT !.tries = @ - 1] ELSE Idle)
  /\ IF lost THEN Fault ELSE Quiet
  /\ UNCHANGED <<box, cache, sweep, want, queued, changes>>

----------------------------------------------------------------------------
(* The sweeps                                                               *)

Move(w, t) == sweep' = [sweep EXCEPT ![w] = t]

\* list_fleet: every listed sandbox but the oldest is marked for the reaper.
ListFleet(w) ==
  /\ sweep[w].pc = "idle"
  /\ Move(w, IF Views # {} /\ Duplicates # {}
             THEN [Idle EXCEPT !.pc = "reap", !.id = fleet[Min(Duplicates)]]
             ELSE [Idle EXCEPT !.pc = "session"])
  /\ UNCHANGED <<fleet, box, cache, rec, want, queued, shield, faults, changes>>

Reap(w) ==
  /\ sweep[w].pc = "reap"
  /\ fleet' = Delete(sweep[w].id)
  /\ Move(w, [Idle EXCEPT !.pc = "session"])
  /\ UNCHANGED <<box, cache, rec, want, queued, shield, faults, changes>>

\* watch_once: a session without its credentials is enqueued, nothing else.
Watch ==
  /\ sweep["watch"].pc = "session"
  /\ Move("watch", Idle)
  /\ queued' = (queued \/ LET i == ResolveOne IN
                  /\ i # Nobody
                  /\ ~cache \/ (Reachable(i) /\ RecoveryNeeded(i)))
  /\ UNCHANGED <<fleet, box, cache, rec, want, shield, faults, changes>>

\* deliver_credential: the canary probe. Without the canary the whole bundle is
\* taken out of the cache for a re-push; an empty cache fails the delivery.
Deliver ==
  /\ sweep["rotate"].pc = "session"
  /\ LET i == ResolveOne IN
     IF i = Nobody \/ ~Reachable(i) THEN Move("rotate", Idle) /\ StayWith(cache)
     ELSE IF Holds(i, Token)
          THEN Move("rotate", [Idle EXCEPT !.pc = "replace", !.id = i]) /\ StayWith(cache)
     ELSE IF cache
          THEN Move("rotate", [Idle EXCEPT !.pc = "repush", !.id = i]) /\ cache' = FALSE
     ELSE Move("rotate", Idle) /\ StayWith(cache)
  /\ UNCHANGED <<fleet, box, rec, want, queued, shield, faults, changes>>

\* replace_file_atomically: the sibling file, then the rename.
Replace ==
  LET t == sweep["rotate"] IN
  /\ t.pc \in {"replace", "rename"}
  /\ IF ~Reachable(t.id) \/ (t.pc = "rename" /\ ~Holds(t.id, Tmp))
     THEN Move("rotate", Idle) /\ StayWith(box)
     ELSE IF t.pc = "replace"
          THEN Write(t.id, Tmp) /\ Move("rotate", [t EXCEPT !.pc = "rename"])
     ELSE /\ box' = [box EXCEPT ![t.id].files = (@ \ {Tmp}) \cup {Token}]
          /\ Move("rotate", Idle)
  /\ UNCHANGED <<fleet, cache, rec, want, queued, shield, faults, changes>>

\* repush_full_bundle: the bundle returns to the cache whatever came of it.
Repush ==
  LET t == sweep["rotate"] IN
  /\ t.pc = "repush" /\ ~t.wait
  /\ IF Reachable(t.id)
     THEN /\ Write(t.id, UploadOrder[t.next])
          /\ IF t.next = Len(UploadOrder) THEN cache' = TRUE /\ Move("rotate", Idle)
             ELSE StayWith(cache) /\ Move("rotate", [t EXCEPT !.next = @ + 1])
     ELSE IF Running(t.id) /\ MayRetry(t)
     THEN Move("rotate", RetryUpload(t)) /\ UNCHANGED <<box, cache>>
     ELSE Move("rotate", Idle) /\ cache' = TRUE /\ StayWith(box)
  /\ UNCHANGED <<fleet, rec, want, queued, shield, faults, changes>>

----------------------------------------------------------------------------
(* The containers, the process and the trigger                              *)

Uploading(i) ==
  \E t \in {rec, sweep["rotate"]} :
    t.pc \in {"upload", "restore", "repush"} /\ t.id = i /\ t.next > 1 /\ ~t.wait

\* The back-off between two attempts ends.
Backoff ==
  /\ \/ rec.wait /\ Become([rec EXCEPT !.wait = FALSE]) /\ StayWith(sweep)
     \/ /\ sweep["rotate"].wait /\ StayWith(rec)
        /\ Move("rotate", [sweep["rotate"] EXCEPT !.wait = FALSE])
  /\ UNCHANGED <<fleet, box, cache, want, queued, shield, faults, changes>>

\* execd answers. Nothing keeps the new container from coming up between two
\* requests of one push, which then goes on with its next file.
StartExecd(i) ==
  /\ Running(i) /\ ~box[i].up
  /\ box' = [box EXCEPT ![i].up = TRUE, ![i].torn = Uploading(i)]
  /\ UNCHANGED <<fleet, cache, rec, sweep, want, queued, shield, faults, changes>>

\* wait_for_creds_complete lets the engine start.
Gate(i) ==
  /\ Running(i) /\ Holds(i, Sentinel) /\ ~box[i].engine
  /\ box' = [box EXCEPT ![i].engine = TRUE]
  /\ UNCHANGED <<fleet, cache, rec, sweep, want, queued, shield, faults, changes>>

\* The bounded wait ends without the sentinel, and the driver with it.
GateTimeout(i) ==
  /\ Running(i) /\ ~Holds(i, Sentinel) /\ ~box[i].engine /\ Fault
  /\ box' = [box EXCEPT ![i] = Fresh("failed")]
  /\ UNCHANGED <<fleet, cache, rec, sweep, want, queued, shield, changes>>

\* The pod is replaced under its sandbox.
Restart(i) ==
  /\ Running(i) /\ Fault
  /\ box' = [box EXCEPT ![i] = Fresh("running")]
  /\ UNCHANGED <<fleet, cache, rec, sweep, want, queued, shield, changes>>

Materialize(i) ==
  /\ i \in Range(fleet) /\ box[i].state = "late"
  /\ box' = [box EXCEPT ![i] = Fresh("running")]
  /\ UNCHANGED <<fleet, cache, rec, sweep, want, queued, shield, faults, changes>>

\* The control plane dies with its cache, its shield and its queue.
Crash ==
  /\ Fault
  /\ cache' = FALSE /\ shield' = FALSE /\ queued' = FALSE
  /\ Become(Idle) /\ sweep' = [w \in Sweeps |-> Idle]
  /\ UNCHANGED <<fleet, box, want, changes>>

\* The periodic resync, and the webhook hint of a change.
Resync ==
  /\ ~queued /\ queued' = TRUE
  /\ UNCHANGED <<fleet, box, cache, rec, sweep, want, shield, faults, changes>>

ExpireShield ==
  /\ shield /\ shield' = FALSE
  /\ UNCHANGED <<fleet, box, cache, rec, sweep, want, queued, faults, changes>>

Change(w) ==
  /\ changes < MaxChanges /\ w # want
  /\ changes' = changes + 1 /\ want' = w
  /\ UNCHANGED <<fleet, box, cache, rec, sweep, queued, shield, faults>>

Init ==
  /\ fleet = <<>> /\ box = [i \in Id |-> Fresh("late")] /\ cache = FALSE
  /\ rec = Idle /\ sweep = [w \in Sweeps |-> Idle]
  /\ want = "pending" /\ queued = FALSE /\ shield = FALSE /\ faults = 0 /\ changes = 0

Step ==
  \/ Observe \/ Probe \/ Ensure \/ Adopt \/ Upload \/ LoseRollback
  \/ \E lost \in BOOLEAN : Create(lost) \/ Stop(lost)
  \/ \E w \in Sweeps : ListFleet(w) \/ Reap(w)
  \/ Watch \/ Deliver \/ Replace \/ Repush \/ Backoff

Environment ==
  \/ \E i \in Id : StartExecd(i) \/ Gate(i) \/ GateTimeout(i) \/ Restart(i) \/ Materialize(i)
  \/ Crash \/ Resync \/ ExpireShield
  \/ \E w \in {"pending", "idle", "closed"} : Change(w)

Next == Step \/ Environment

Spec == Init /\ [][Next]_vars

\* Every task that has something to do goes on, containers start, time passes. A
\* fault, a timeout and a change of the trigger are never owed.
FairSpec ==
  /\ Spec
  /\ WF_vars(Observe) /\ WF_vars(Probe) /\ WF_vars(Ensure) /\ WF_vars(Create(FALSE))
  /\ WF_vars(Adopt) /\ WF_vars(Upload) /\ WF_vars(Stop(FALSE))
  /\ WF_vars(Watch) /\ WF_vars(Deliver) /\ WF_vars(Replace) /\ WF_vars(Repush)
  /\ WF_vars(Backoff)
  /\ \A w \in Sweeps : WF_vars(ListFleet(w)) /\ WF_vars(Reap(w))
  /\ \A i \in Id : SF_vars(StartExecd(i)) /\ WF_vars(Gate(i)) /\ WF_vars(Materialize(i))
  /\ WF_vars(Resync) /\ WF_vars(ExpireShield)

----------------------------------------------------------------------------
(* Properties                                                               *)

Task == [pc : {"idle", "probe", "ensure", "create", "adopt", "upload", "restore", "stop",
               "reap", "session", "replace", "rename", "repush"},
         id : Id \cup {Nobody}, next : 1..Sentinel, tries : 1..(MaxAttempts + Cardinality(Id)), wait : BOOLEAN]

\* The state has its type and an upload never runs past its attempts
\* (spawn.rs, UPLOAD_MAX_ATTEMPTS).
TypeOK ==
  /\ fleet \in BoundedSeq(Id, Cardinality(Id)) /\ IsInjective(fleet)
  /\ box \in [Id -> [state : {"late", "running", "failed"}, files : SUBSET (0..Sentinel),
                     up : BOOLEAN, engine : BOOLEAN, torn : BOOLEAN]]
  /\ cache \in BOOLEAN /\ queued \in BOOLEAN /\ shield \in BOOLEAN
  /\ rec \in Task /\ sweep \in [Sweeps -> Task]
  /\ want \in {"pending", "idle", "closed"}
  /\ faults \in 0..MaxFaults /\ changes \in 0..MaxChanges
  /\ rec.pc \in {"upload", "restore"} => rec.tries <= MaxAttempts

\* The engine only ever starts with the whole set on disk (creds.rs: the presence
\* of the sentinel "proves the whole credential set is complete"), whoever pushed
\* it, and whatever crashes, retries and restarts came between, but for one: a
\* container replaced between two requests of one push gets the rest of that push,
\* the sentinel with it.
StartedComplete ==
  \A i \in Id : Running(i) /\ box[i].engine /\ ~box[i].torn => 1..Files \subseteq box[i].files

\* One sandbox with a started engine and its whole set; after a torn push at
\* least the token, whose absence the rotation sees, and the sentinel.
Healthy ==
  /\ Len(fleet) = 1 /\ Running(fleet[1])
  /\ LET b == box[fleet[1]] IN
       /\ b.engine /\ {Token, Sentinel} \subseteq b.files
       /\ b.torn \/ 1..Files \subseteq b.files

\* What holds of the sandboxes at every state.
CredsSafe == TypeOK /\ StartedComplete
=============================================================================
