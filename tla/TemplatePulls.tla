---------------------------- MODULE TemplatePulls ----------------------------
(* Keeping the issue templates of one repository at the bundled version          *)
(* (reconcile/templates.rs, github_app/template_install.rs), against a GitHub    *)
(* repository of branches and pull requests as the client of github_app/api.rs   *)
(* sees it, with people who edit, merge, close and push. Every call of the App   *)
(* is a step of its own: it may fail, take effect without an answer, or be the   *)
(* last one of the process.                                                      *)
EXTENDS Naturals, FiniteSets

CONSTANTS
  MaxVersion,  \* bound: bundled versions 1..MaxVersion
  Files,       \* number of bundled template files
  MaxFaults,   \* bound: failed calls, lost answers and crashes
  MaxEdits     \* bound: edits, pushes and closes by people

VARIABLES
  base,        \* default branch: installed version, revision of the template files
  gated,       \* the base branch enforces checks or reviews
  branch,      \* install branch of each version
  pull,        \* pull request of each install branch
  target,      \* version bundled in the running process
  mark,        \* EnsuredMark of the repository
  pass,        \* the running ensure; known: pulls open since it began, checked: no
               \* push since it looked
  faults, edits

vars == <<base, gated, branch, pull, target, mark, pass, faults, edits>>
github == <<base, gated, branch, pull>>

Version == 1..MaxVersion
NoBranch == [is |-> FALSE, at |-> 0, files |-> {}, foreign |-> FALSE]
NoPull == [open |-> FALSE, own |-> FALSE, conflicted |-> FALSE]
NoMark == [is |-> FALSE, version |-> 0, fresh |-> FALSE]
Idle == [at |-> "idle", file |-> 0, resumed |-> FALSE, known |-> {}, checked |-> FALSE]

Fault == faults < MaxFaults /\ faults' = faults + 1
Edit == edits < MaxEdits /\ edits' = edits + 1

----------------------------------------------------------------------------
(* What GitHub answers and does                                             *)

\* GET pulls?head=owner:branch: qualified by the owner, so never a fork's.
OpenPullForHead(v) == pull[v].open

\* GET pulls?state=open, and the version in the head branch.
ListOpenPulls == {v \in Version : pull[v].open}

\* GET pulls/N/files: every path is one of the bundled ones.
ListPullFiles(v) == ~branch[v].foreign

\* GET pulls/N: whether `mergeable` is known to be false.
PullRequestMergeable(v) == ~pull[v].conflicted

\* GET contents: the revision of the templates on the base branch.
ContentFile == base.rev

\* GET git/ref/heads of the default branch.
BranchHeadSha == base.rev

\* POST git/refs: 422 when the ref exists.
RefFree(v) == ~branch[v].is

CreateRef(v) ==
  branch' = [branch EXCEPT ![v] = [NoBranch EXCEPT !.is = TRUE, !.at = BranchHeadSha]]

\* PUT contents: the blob the caller names must be the one the branch holds.
PutAccepted(v) == branch[v].is /\ branch[v].at = ContentFile
PutFile(v, f) == branch' = [branch EXCEPT ![v].files = @ \cup {f}]

\* POST pulls: one open pull request per head, and only of a branch that exists.
PullAccepted(v) == branch[v].is /\ ~pull[v].open
CreatePull(v) == pull' = [pull EXCEPT ![v] = [open |-> TRUE, own |-> TRUE,
                                              conflicted |-> branch[v].at # base.rev]]

\* PUT pulls/N/merge. The version is in file 1, config.yml.
MergeAccepted(v) == pull[v].open /\ ~pull[v].conflicted /\ ~gated
Merge(v) ==
  /\ base' = [version |-> IF 1 \in branch[v].files THEN v ELSE base.version,
              rev |-> base.rev + 1]
  /\ pull' = [w \in Version |-> IF w = v THEN NoPull
                                ELSE [pull[w] EXCEPT !.conflicted = pull[w].open]]

\* DELETE git/refs: closes the pull request of the branch; an absent one is fine.
DeleteRefs(vs) ==
  /\ branch' = [v \in Version |-> IF v \in vs THEN NoBranch ELSE branch[v]]
  /\ pull' = [v \in Version |-> IF v \in vs THEN NoPull ELSE pull[v]]

----------------------------------------------------------------------------
(* ensure_issue_templates                                                   *)

Go(at) == pass' = [pass EXCEPT !.at = at]
Record(v) == mark' = [is |-> TRUE, version |-> v, fresh |-> TRUE] /\ pass' = Idle

CheckDue == ~mark.is \/ target > mark.version \/ ~mark.fresh

Ensure ==
  /\ pass.at = "idle" /\ CheckDue
  /\ IF base.version >= target
     THEN Record(base.version)
     ELSE /\ pass' = [Idle EXCEPT !.at = "lookup", !.known = {v \in Version : pull[v].open}]
          /\ UNCHANGED mark
  /\ UNCHANGED <<github, target, faults, edits>>

\* install_templates_with_api: resume the pull request that is open, or start one.
Lookup ==
  /\ pass.at = "lookup"
  /\ IF OpenPullForHead(target) THEN Go("files") ELSE Go("supersede")
  /\ UNCHANGED <<github, target, mark, faults, edits>>

\* resume_pending_pull: refuse what the App did not write.
CheckFiles ==
  /\ pass.at = "files"
  /\ \/ /\ ListPullFiles(target)
        /\ pass' = [pass EXCEPT !.at = "merge", !.resumed = TRUE, !.checked = TRUE]
        /\ UNCHANGED mark
     \/ ~ListPullFiles(target) /\ Record(target)
  /\ UNCHANGED <<github, target, faults, edits>>

\* The merge is refused: left open, unless it is resumed and may be conflicted.
MergeRefused ==
  /\ pass.at = "merge" /\ ~MergeAccepted(target)
  /\ IF pass.resumed THEN Go("mergeable") /\ UNCHANGED mark ELSE Record(target)
  /\ UNCHANGED <<github, target, faults, edits>>

MergePull ==
  /\ pass.at = "merge" /\ MergeAccepted(target)
  /\ Merge(target)
  /\ \/ Go("cleanup") /\ UNCHANGED faults
     \/ /\ Fault  \* the answer is lost
        /\ Go(IF pass.resumed THEN "mergeable" ELSE "deferred")
  /\ UNCHANGED <<gated, branch, target, mark, edits>>

\* Best-effort removal of the merged branch.
Cleanup ==
  /\ pass.at = "cleanup"
  /\ \/ DeleteRefs({target}) /\ UNCHANGED faults
     \/ Fault /\ UNCHANGED <<branch, pull>>
  /\ Record(target)
  /\ UNCHANGED <<base, gated, target, edits>>

\* Only a definite conflict is rebuilt; true, `null` or an error leaves it open.
Mergeable ==
  /\ pass.at = "mergeable"
  /\ LET conflict == OpenPullForHead(target) /\ ~PullRequestMergeable(target) IN
     \/ conflict /\ Go("recreate") /\ UNCHANGED faults
     \/ ~conflict /\ Go("deferred") /\ UNCHANGED faults
     \/ Go("deferred") /\ Fault
  /\ UNCHANGED <<github, target, mark, edits>>

Deferred ==
  /\ pass.at = "deferred" /\ Record(target)
  /\ UNCHANGED <<github, target, faults, edits>>

\* recreate_conflicted, and the stale branch that create_ref met.
DeleteBranch ==
  /\ pass.at \in {"recreate", "restart"}
  /\ \/ DeleteRefs({target}) /\ UNCHANGED faults
     \/ Fault /\ UNCHANGED <<branch, pull>>
  /\ Go(IF pass.at = "recreate" THEN "ref" ELSE "ref again")
  /\ UNCHANGED <<base, gated, target, mark, edits>>

\* supersede_older_pulls: best effort, one by one.
Supersede ==
  /\ pass.at = "supersede"
  /\ LET older == {v \in ListOpenPulls : v < target} IN
     \/ DeleteRefs(older) /\ UNCHANGED faults
     \/ Fault /\ \E vs \in SUBSET older : vs # older /\ DeleteRefs(vs)
  /\ Go("ref")
  /\ UNCHANGED <<base, gated, target, mark, edits>>

\* Mutant: a branch that exists is taken for one that is written.
BranchReused ==
  /\ pass.at \in {"ref", "ref again"}
  /\ \/ /\ RefFree(target) /\ CreateRef(target)
        /\ pass' = [pass EXCEPT !.at = "put", !.file = 1]
     \/ ~RefFree(target) /\ Go("open") /\ UNCHANGED branch
  /\ UNCHANGED <<base, gated, pull, target, mark, faults, edits>>

\* open_install_pull: the branch, at the head of the base.
Branch ==
  /\ pass.at \in {"ref", "ref again"}
  /\ \/ /\ RefFree(target) /\ CreateRef(target)
        /\ pass' = [pass EXCEPT !.at = "put", !.file = 1]
     \/ /\ ~RefFree(target) /\ UNCHANGED branch
        /\ pass' = IF pass.at = "ref" THEN [pass EXCEPT !.at = "restart"] ELSE Idle
  /\ UNCHANGED <<base, gated, pull, target, mark, faults, edits>>

\* Every bundled file, on the blob of the base.
Put ==
  /\ pass.at = "put"
  /\ \/ /\ PutAccepted(target) /\ PutFile(target, pass.file)
        /\ pass' = [pass EXCEPT !.at = IF pass.file = Files THEN "open" ELSE "put",
                                !.file = @ + 1]
     \/ ~PutAccepted(target) /\ UNCHANGED branch /\ pass' = Idle
  /\ UNCHANGED <<base, gated, pull, target, mark, faults, edits>>

Open ==
  /\ pass.at = "open"
  /\ \/ PullAccepted(target) /\ CreatePull(target) /\ Go("merge") /\ UNCHANGED faults
     \/ PullAccepted(target) /\ CreatePull(target) /\ pass' = Idle /\ Fault
     \/ ~PullAccepted(target) /\ UNCHANGED pull /\ pass' = Idle /\ UNCHANGED faults
  /\ UNCHANGED <<base, gated, branch, target, mark, edits>>

\* A call fails: nothing is recorded, the next reconcile tries again.
CallFails ==
  /\ pass.at \in {"lookup", "ref", "ref again", "put", "open"} /\ Fault
  /\ pass' = Idle
  /\ UNCHANGED <<github, target, mark, edits>>

\* list_pull_files fails: closed, as if it were someone else's.
FilesUnreadable ==
  /\ pass.at = "files" /\ Fault
  /\ Record(target)
  /\ UNCHANGED <<github, target, edits>>

----------------------------------------------------------------------------
(* The process, time, auto-merge and people                                 *)

\* A restart, perhaps of a newer image.
Restart ==
  /\ Fault
  /\ pass' = Idle /\ mark' = NoMark
  /\ target' \in {target, target + 1} \cap Version
  /\ UNCHANGED <<github, edits>>

\* ENSURED_TEMPLATES_TTL.
Expire ==
  /\ mark.fresh /\ mark' = [mark EXCEPT !.fresh = FALSE]
  /\ UNCHANGED <<github, target, pass, faults, edits>>

\* auto_merge_bot_pull_requests, later in the same reconcile, on a repository
\* where a session opted in.
AutoMerge(v) ==
  /\ pass.at = "idle" /\ pull[v].own /\ PullRequestMergeable(v) /\ MergeAccepted(v)
  /\ Merge(v)
  /\ UNCHANGED <<gated, branch, target, mark, pass, faults, edits>>

PersonMerges(v) ==
  /\ Edit /\ pull[v].open /\ ~pull[v].conflicted /\ Merge(v)
  /\ UNCHANGED <<gated, branch, target, mark, pass, faults>>

PersonCloses(v) ==
  /\ Edit /\ pull[v].open /\ pull' = [pull EXCEPT ![v] = NoPull]
  /\ UNCHANGED <<base, gated, branch, target, mark, pass, faults>>

PersonEdits ==
  /\ Edit /\ base' = [base EXCEPT !.rev = @ + 1]
  /\ pull' = [v \in Version |-> [pull[v] EXCEPT !.conflicted = pull[v].open]]
  /\ UNCHANGED <<gated, branch, target, mark, pass, faults>>

\* Someone pushes another file to an install branch, or holds its name with one.
PersonPushes(v) ==
  /\ Edit
  /\ LET at == IF branch[v].is THEN branch[v].at ELSE base.rev IN
     branch' = [branch EXCEPT ![v] = [@ EXCEPT !.is = TRUE, !.foreign = TRUE, !.at = at]]
  /\ pass' = [pass EXCEPT !.checked = FALSE]
  /\ UNCHANGED <<base, gated, pull, target, mark, faults>>

PersonOpens(v) ==
  /\ Edit /\ branch[v].is /\ ~pull[v].open
  /\ pull' = [pull EXCEPT ![v] = [open |-> TRUE, own |-> FALSE,
                                  conflicted |-> branch[v].at # base.rev]]
  /\ pass' = [pass EXCEPT !.known = @ \ {v}]
  /\ UNCHANGED <<base, gated, branch, target, mark, faults>>

Init ==
  /\ base = [version |-> 0, rev |-> 0] /\ gated \in BOOLEAN
  /\ branch = [v \in Version |-> NoBranch] /\ pull = [v \in Version |-> NoPull]
  /\ target = 1 /\ mark = NoMark /\ pass = Idle /\ faults = 0 /\ edits = 0

App ==
  \/ Ensure \/ Lookup \/ CheckFiles \/ MergeRefused \/ MergePull \/ Cleanup
  \/ Mergeable \/ Deferred \/ DeleteBranch \/ Supersede \/ Branch \/ Put \/ Open

Next ==
  \/ App \/ CallFails \/ FilesUnreadable \/ Restart \/ Expire \/ PersonEdits
  \/ \E v \in Version :
       AutoMerge(v) \/ PersonMerges(v) \/ PersonCloses(v) \/ PersonPushes(v) \/ PersonOpens(v)

Spec == Init /\ [][Next]_vars

\* The repository is reconciled again and again and the mark grows old.
FairSpec == Spec /\ WF_vars(App) /\ WF_vars(Expire)

----------------------------------------------------------------------------
(* Properties                                                               *)

\* The state has its type; a record is never of a version nobody bundled.
TypeOK ==
  /\ base.version \in 0..MaxVersion /\ base.rev \in Nat /\ gated \in BOOLEAN
  /\ \A v \in Version : /\ branch[v].files \subseteq 1..Files
                        /\ pull[v].open \/ pull[v] = NoPull
  /\ target \in Version /\ mark.version \in 0..MaxVersion
  /\ pass.at \in {"idle", "lookup", "files", "merge", "cleanup", "mergeable", "deferred",
                  "recreate", "supersede", "ref", "restart", "ref again", "put", "open"}
  /\ faults \in 0..MaxFaults /\ edits \in 0..MaxEdits

\* "Never churn": the App closes a pull request that was open when its pass began
\* only for a newer version or because it can never merge.
NeverChurnStep ==
  \A v \in Version :
    (pull[v].open /\ v \in pass.known /\ v >= target
       /\ branch[v].is /\ ~branch'[v].is)
    => pull[v].conflicted \/ base'.version >= v
NeverChurn == [][NeverChurnStep]_vars

\* "Never merge what this App did not write": when the flow merges a pull request,
\* a file that is not a template was pushed after it looked, or after it wrote the
\* branch itself.
NeverForeignStep ==
  pass.at = "merge" /\ pull[target].open /\ base'.version = target /\ pass'.at # "merge"
  => ~branch[target].foreign \/ ~pass.checked
NeverForeign == [][NeverForeignStep]_vars

\* No version is installed by halves: what the App opened and merges is complete,
\* whatever became of earlier passes.
InstalledWholeStep ==
  \A v \in Version :
    (pull[v].own /\ base'.version = v /\ base.version # v) => branch[v].files = 1..Files
InstalledWhole == [][InstalledWholeStep]_vars

\* As long as nobody interferes, the repository ends with the bundled version, or
\* with an open pull request that somebody else has to merge.
Settled == base.version >= target \/ pull[target].open
Settles == <>[]Settled

\* Where the App may merge, it does: what is left open there is not its own.
Installed == gated \/ base.version >= target \/ branch[target].foreign

\* What no step does: close a pull request without a reason, merge foreign files
\* knowingly, or record a version that is not there with all its files.
PullsAreCarefulStep == TypeOK' /\ NeverChurnStep /\ NeverForeignStep /\ InstalledWholeStep
=============================================================================
