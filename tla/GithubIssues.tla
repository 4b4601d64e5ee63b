----------------------------- MODULE GithubIssues -----------------------------
(***************************************************************************)
(* The GitHub client of one repository: a wrapper of GithubAppTokens mints *)
(* a token and then sends its request, or the pages of its request, while  *)
(* people change the same issues.  A request meets the repository as it is *)
(* when the request arrives, so the pages of one listing are read from     *)
(* different states, an answer may be lost after the write was applied,    *)
(* and the token may have lost the repository since it was minted.         *)
(*                                                                         *)
(* GitHub lists issues newest first and comments oldest first, addresses   *)
(* pages by their number, and answers 404 for what the token may not see.  *)
(***************************************************************************)
EXTENDS Integers, Sequences, FiniteSets, Functions

CONSTANTS
    Num,          \* issue numbers; a larger number is a newer issue
    Pulls,        \* the numbers that are pull requests
    Collaborators,\* who or what the other listings list, with repetitions
    Platform,     \* the platform labels, as a sequence
    PerPage,      \* per_page (100 in the code)
    MaxPages,     \* the window of list_recent_issue_comments
    Calls,        \* the calls made: a subset of Ops
    MaxCalls,     \* bound: calls
    MaxComments,  \* bound: comments on one issue
    MaxEdits,     \* bound: changes by other people
    MaxFaults     \* bound: requests that fail

VARIABLES
    issue,   \* [Num -> record]: the repository's issues, at GitHub
    label,   \* the platform labels that exist in the repository
    visible, \* the installation still covers the repository
    call,    \* the client's call in progress
    answer,  \* what the last call returned
    left,    \* history: an issue left the listing since the call began
    came,    \* history: an issue entered the listing since the call began
    before,  \* history: what the call set out to read
    promise, \* history: <<op, n>> answered Ok and not undone by a person
    calls, edits, faults

vars == <<issue, label, visible, call, answer, left, came, before, promise,
          calls, edits, faults>>
history == <<left, came, before>>

Mutations == {"comment", "assign", "add", "remove", "close"}
Listings  == {"list", "admins", "installs", "repos", "recent"}
OneShots  == {"open", "labels", "comments", "count", "role", "contents"}
Paged == Listings \ {"recent"}
Ops == Mutations \cup Listings \cup OneShots \cup {"create", "ensure"}
Errors == {"Http", "AppAuth", "RateLimited", "NotFound"}
Statuses == {"ok", "401", "403", "limited", "404", "5xx", "lost"}

Fresh == [state |-> "open", work |-> TRUE, assigned |-> FALSE, comments |-> 0]
Absent == [Fresh EXCEPT !.state = "none", !.work = FALSE]
Idle == [op |-> "none", n |-> 0, pc |-> "idle", page |-> 0, last |-> 0,
         out |-> <<>>]
-----------------------------------------------------------------------------
(* What GitHub serves.                                                     *)
Listed == {n \in Num : issue[n].state = "open" /\ issue[n].work}
\* The newest first.
Listing == [i \in 1..Cardinality(Listed) |->
              CHOOSE n \in Listed : Cardinality({m \in Listed : m >= n}) = i]
Comments(n) == [i \in 1..issue[n].comments |-> i]
PageOf(s, p) == SubSeq(s, (p - 1) * PerPage + 1,
                       IF p * PerPage < Len(s) THEN p * PerPage ELSE Len(s))
PageCount(s) == (Len(s) + PerPage - 1) \div PerPage
Served(op, n) == CASE op = "list" -> Listing
                   [] op \in {"admins", "installs", "repos"} -> Collaborators
                   [] OTHER -> Comments(n)
Found(n) == visible /\ issue[n].state # "none"
-----------------------------------------------------------------------------
(* How each call of HttpGithubApi reads a status.  The transport error of  *)
(* send() and an unparsable body are both "Http".                          *)
IsLimit(st) == st = "limited"
ClassifyAuthStatus(st) == CASE st = "401" -> "AppAuth"
                            [] IsLimit(st) -> "RateLimited"
                            [] st = "403" -> "AppAuth"
                            [] OTHER -> "none"
ClassifyError(st) == IF st = "404" THEN "NotFound" ELSE ClassifyAuthStatus(st)
Unclassified(st) == IF st = "ok" THEN "Ok" ELSE "Http"
Classified(st) == IF ClassifyAuthStatus(st) # "none"
                    THEN ClassifyAuthStatus(st) ELSE Unclassified(st)
EmptyWhenGone(st) == IF st = "404" THEN "Ok" ELSE Classified(st)

CreateIssueComment(st) == Unclassified(st)
CreateIssue(st) == Unclassified(st)
OpenIssuesWithLabel(st) == Unclassified(st)
AddIssueLabels(st) == Unclassified(st)
AddIssueAssignees(st) == Classified(st)
CloseIssue(st) == Classified(st)
RemoveIssueLabel(st) == IF st = "404" THEN "Ok" ELSE Unclassified(st)
GetIssueLabels(st) == EmptyWhenGone(st)
ListIssueComments(st) == EmptyWhenGone(st)
GetPage(st) == IF ClassifyError(st) # "none" THEN ClassifyError(st)
               ELSE Unclassified(st)
GetCollaboratorRole(st) == IF GetPage(st) = "NotFound" THEN "Ok" ELSE GetPage(st)
FetchContents(st) == IF st = "404" THEN "NotFound" ELSE Classified(st)
Result(op, st) ==
    CASE op = "comment" -> CreateIssueComment(st)
      [] op = "create" -> CreateIssue(st)
      [] op = "assign" -> AddIssueAssignees(st)
      [] op = "add" -> AddIssueLabels(st)
      [] op = "remove" -> RemoveIssueLabel(st)
      [] op = "close" -> CloseIssue(st)
      [] op = "open" -> OpenIssuesWithLabel(st)
      [] op = "labels" -> GetIssueLabels(st)
      [] op = "comments" -> ListIssueComments(st)
      [] op = "role" -> GetCollaboratorRole(st)
      [] op = "contents" -> FetchContents(st)
      [] OTHER -> GetPage(st)
-----------------------------------------------------------------------------
(* What a request changes at GitHub when it is applied.  Every write but   *)
(* the creation of a comment or an issue leaves a second application       *)
(* without effect.                                                         *)
Applied(op, n) ==
    CASE op = "comment" -> [issue EXCEPT ![n].comments =
                              IF @ < MaxComments THEN @ + 1 ELSE @]
      [] op = "assign" -> [issue EXCEPT ![n].assigned = TRUE]
      [] op = "add"    -> [issue EXCEPT ![n].work = TRUE]
      [] op = "remove" -> [issue EXCEPT ![n].work = FALSE]
      [] op = "close"  -> [issue EXCEPT ![n].state = "closed"]
      [] OTHER -> issue
InForce(op, n) == CASE op = "assign" -> issue[n].assigned
                    [] op = "add"    -> issue[n].work
                    [] op = "remove" -> ~issue[n].work
                    [] op = "close"  -> issue[n].state # "open"
                    [] OTHER -> TRUE
Opposite == [o \in {"add", "remove"} |-> IF o = "add" THEN "remove" ELSE "add"]
KeptPromises(op, n) ==
    IF op \in {"add", "remove"} THEN promise \ {<<Opposite[op], n>>} ELSE promise

(* The listing's movements, recorded for the call that is reading it.      *)
Moved(next) ==
    LET now == {n \in Num : next[n].state = "open" /\ next[n].work}
    IN /\ left' = (left \/ Listed \ now # {})
       /\ came' = (came \/ now \ Listed # {})
       /\ UNCHANGED before
-----------------------------------------------------------------------------
(* The wrappers of GithubAppTokens: the repository reference is split, the *)
(* token is minted, and only then is the request sent.                     *)
Begin(op, n) ==
    /\ call.pc = "idle" /\ calls < MaxCalls /\ calls' = calls + 1
    /\ op \in Mutations \cup OneShots \cup {"recent"} => issue[n].state # "none"
    /\ op = "comment" => issue[n].comments < MaxComments
    /\ op \in {"create", "ensure"} \cup Paged => n = CHOOSE m \in Num : TRUE
    /\ call' = [Idle EXCEPT !.op = op, !.n = n, !.pc = "token", !.page = 1]
    /\ answer' = [op |-> "none", n |-> 0, res |-> "none", out |-> <<>>]
    /\ left' = FALSE /\ came' = FALSE
    /\ before' = Served(op, n)
    /\ UNCHANGED <<issue, label, visible, promise, edits, faults>>

Return(res, out) ==
    /\ call' = Idle
    /\ answer' = [op |-> call.op, n |-> call.n, res |-> res, out |-> out]

(* ensure_platform_labels goes on with the next label whatever became of   *)
(* this one.                                                               *)
EnsureNext(st) == call.page + 1
NextLabel(st) ==
    IF EnsureNext(st) > Len(Platform)
      THEN Return("Ok", <<>>)
      ELSE call' = [call EXCEPT !.page = EnsureNext(st), !.pc = "token"]
           /\ UNCHANGED answer

TokenForRepo ==
    /\ call.pc = "token"
    /\ \/ visible /\ call' = [call EXCEPT !.pc = "send"] /\ UNCHANGED answer
       \/ ~visible /\ call.op # "ensure" /\ Return("NotInstalled", <<>>)
       \/ ~visible /\ call.op = "ensure" /\ NextLabel("404")
    /\ UNCHANGED <<issue, label, visible, promise, calls, edits, faults>>
    /\ UNCHANGED history

(* The statuses a request can meet: GitHub's own answer, or a fault.       *)
Natural(op, n) ==
    IF ~visible THEN "404"
    ELSE IF op \in {"create", "ensure", "open", "count", "role", "contents"}
                    \cup Paged THEN "ok"
    ELSE IF ~Found(n) \/ (op = "remove" /\ ~issue[n].work) THEN "404" ELSE "ok"
Status(st) == IF st \in {"ok", "404"} THEN st = Natural(call.op, call.n)
                                           /\ UNCHANGED faults
              ELSE faults < MaxFaults /\ faults' = faults + 1

(* One write.  A lost answer may belong to a write that was applied.       *)
Mutate(st) ==
    /\ call.pc = "send" /\ call.op \in Mutations /\ Status(st)
    /\ \E done \in IF st = "ok" THEN {TRUE}
                   ELSE IF st \in {"lost", "5xx"} /\ Natural(call.op, call.n) = "ok"
                   THEN BOOLEAN ELSE {FALSE} :
         /\ issue' = IF done THEN Applied(call.op, call.n) ELSE issue
         /\ Moved(issue')
         /\ promise' =
              (IF done THEN KeptPromises(call.op, call.n) ELSE promise)
              \cup (IF Result(call.op, st) = "Ok" /\ visible
                      THEN {<<call.op, call.n>>} ELSE {})
    /\ Return(Result(call.op, st), <<>>)
    /\ UNCHANGED <<label, visible, calls, edits>>

Create(st) ==
    /\ call.pc = "send" /\ call.op = "create" /\ Status(st)
    /\ \E m \in {k \in Num : issue[k].state = "none"} \cup {0},
          done \in IF st = "ok" THEN {TRUE} ELSE
                   IF st = "lost" /\ visible THEN BOOLEAN ELSE {FALSE} :
         /\ (m = 0) = (~done \/ \A k \in Num : issue[k].state # "none")
         /\ m # 0 => \A k \in Num : issue[k].state = "none" => m <= k
         /\ issue' = IF m = 0 THEN issue ELSE [issue EXCEPT ![m] = Fresh]
         /\ Moved(issue')
    /\ Return(Result("create", st), <<>>)
    /\ UNCHANGED <<label, visible, promise, calls, edits>>

(* One read of one request; the two list reads take the first page only.   *)
ReadData(op, n) == CASE op = "open" -> SelectSeq(PageOf(Listing, 1),
                                                 LAMBDA k : k \notin Pulls)
                     [] op = "comments" -> PageOf(Comments(n), 1)
                     [] OTHER -> <<>>
Read(st) ==
    /\ call.pc = "send" /\ call.op \in OneShots /\ Status(st)
    /\ Return(Result(call.op, st),
              IF st = "ok" THEN ReadData(call.op, call.n) ELSE <<>>)
    /\ UNCHANGED <<issue, label, visible, promise, calls, edits>>
    /\ UNCHANGED history

(* One POST per label; a label that exists (422) is a success.             *)
EnsurePlatformLabels(st) ==
    /\ call.pc = "send" /\ call.op = "ensure" /\ Status(st)
    /\ \/ st = "ok" /\ label' = label \cup {Platform[call.page]}
       \/ st # "ok" /\ UNCHANGED label
    /\ NextLabel(st)
    /\ UNCHANGED <<issue, visible, promise, calls, edits>>
    /\ UNCHANGED history
-----------------------------------------------------------------------------
(* The listings that follow rel="next".  A page is filtered as it arrives; *)
(* the admins are made unique by id at the end.                            *)
NextPageUrl(s, p) == IF p < PageCount(s) THEN p + 1 ELSE 0
KeepPage(op, s) == IF op = "list" THEN SelectSeq(s, LAMBDA k : k \notin Pulls)
                   ELSE s
FirstOnes(s) == SelectSeq([i \in 1..Len(s) |-> <<i, s[i]>>],
                          LAMBDA p : \A j \in 1..(p[1] - 1) : s[j] # p[2])
ListRepoAdmins(s) == [i \in 1..Len(FirstOnes(s)) |-> FirstOnes(s)[i][2]]
ListInstallations(s) == s
ListInstallationRepos(s) == s
Finish(op, s) == CASE op = "admins" -> ListRepoAdmins(s)
                   [] op = "installs" -> ListInstallations(s)
                   [] op = "repos" -> ListInstallationRepos(s)
                   [] OTHER -> s

ListPage(st) ==
    /\ call.pc = "send" /\ call.op \in Paged /\ Status(st)
    /\ LET s == Served(call.op, call.n)
           out == call.out \o KeepPage(call.op, PageOf(s, call.page))
           res == GetPage(st)
       IN IF res # "Ok" THEN Return(res, <<>>)
          ELSE IF NextPageUrl(s, call.page) = 0
                 THEN Return("Ok", Finish(call.op, out))
          ELSE /\ call' = [call EXCEPT !.page = NextPageUrl(s, call.page),
                                       !.out = out]
               /\ UNCHANGED answer
    /\ UNCHANGED <<issue, label, visible, promise, calls, edits>>
    /\ UNCHANGED history

(* list_recent_issue_comments: the first page tells which page is the last *)
(* one, and the window is counted back from there.                         *)
LastPage(s) == IF PageCount(s) > 1 THEN PageCount(s) ELSE 0
WindowPages == IF MaxPages > 1 THEN MaxPages ELSE 1
StartTooLate(last) == IF last > WindowPages THEN last - WindowPages + 2 ELSE 1
WindowStart(last) == IF last > WindowPages - 1 THEN last - (WindowPages - 1) ELSE 1
End(p, last) == p >= last
PageAnswer(st) == IF st = "404" THEN "Ok" ELSE Classified(st)

RecentFirst(st) ==
    /\ call.pc = "send" /\ call.op = "recent" /\ call.last = 0 /\ Status(st)
    /\ LET s == IF st = "ok" THEN Comments(call.n) ELSE <<>>
           start == WindowStart(LastPage(s))
       IN IF PageAnswer(st) # "Ok" THEN Return(PageAnswer(st), <<>>)
          ELSE IF LastPage(s) = 0 THEN Return("Ok", PageOf(s, 1))
          ELSE /\ call' = [call EXCEPT
                             !.last = LastPage(s),
                             !.page = IF start > 2 THEN start ELSE 2,
                             !.out = IF start = 1 THEN PageOf(s, 1) ELSE <<>>]
               /\ UNCHANGED answer
    /\ UNCHANGED <<issue, label, visible, promise, calls, edits>>
    /\ before' = IF st = "ok" THEN Comments(call.n) ELSE <<>>
    /\ UNCHANGED <<left, came>>
RecentPage(st) ==
    /\ call.pc = "send" /\ call.op = "recent" /\ call.last > 0 /\ Status(st)
    /\ LET s == IF st = "ok" THEN Comments(call.n) ELSE <<>>
           out == call.out \o PageOf(s, call.page)
       IN IF PageAnswer(st) # "Ok" THEN Return(PageAnswer(st), <<>>)
          ELSE IF End(call.page, call.last) THEN Return("Ok", out)
          ELSE /\ call' = [call EXCEPT !.page = @ + 1, !.out = out]
               /\ UNCHANGED answer
    /\ UNCHANGED <<issue, label, visible, promise, calls, edits>>
    /\ before' = IF st = "404" THEN <<>> ELSE before
    /\ UNCHANGED <<left, came>>
-----------------------------------------------------------------------------
(* Other people, and the owner of the installation.                        *)
Edit(n) ==
    /\ edits < MaxEdits /\ edits' = edits + 1
    /\ issue[n].state # "none"
    /\ issue' \in {[issue EXCEPT ![n].state = IF @ = "open" THEN "closed" ELSE "open"],
                   [issue EXCEPT ![n].work = ~@],
                   [issue EXCEPT ![n].comments = IF @ < MaxComments THEN @ + 1 ELSE @]}
    /\ Moved(issue')
    /\ promise' = {p \in promise : p[2] # n}
    /\ UNCHANGED <<label, visible, call, answer, calls, faults>>
OpenOne(n) ==
    /\ edits < MaxEdits /\ edits' = edits + 1
    /\ issue[n].state = "none" /\ \A k \in Num : issue[k].state = "none" => n <= k
    /\ issue' = [issue EXCEPT ![n] = Fresh] /\ Moved(issue')
    /\ UNCHANGED <<label, visible, call, answer, promise, calls, faults>>
Recover ==
    /\ edits < MaxEdits /\ edits' = edits + 1
    /\ visible' = ~visible
    /\ UNCHANGED <<issue, label, call, answer, promise, calls, faults>>
    /\ UNCHANGED history

Init ==
    /\ \E k \in {Cardinality(Num) - 1, Cardinality(Num)}, c \in 0..MaxComments :
         issue = [n \in Num |-> IF n <= k THEN [Fresh EXCEPT !.comments = c]
                                ELSE Absent]
    /\ label = {} /\ visible = TRUE /\ call = Idle
    /\ answer = [op |-> "none", n |-> 0, res |-> "none", out |-> <<>>]
    /\ left = FALSE /\ came = FALSE /\ before = <<>> /\ promise = {}
    /\ calls = 0 /\ edits = 0 /\ faults = 0

Step(st) == \/ Mutate(st) \/ Create(st) \/ Read(st) \/ EnsurePlatformLabels(st)
            \/ ListPage(st) \/ RecentFirst(st) \/ RecentPage(st)
Client == TokenForRepo \/ \E st \in Statuses : Step(st)
Next == \/ \E op \in Calls, n \in Num : Begin(op, n)
        \/ Client
        \/ \E n \in Num : Edit(n) \/ OpenOne(n)
        \/ Recover
Spec == Init /\ [][Next]_vars
FairSpec == Spec /\ WF_vars(Client)
-----------------------------------------------------------------------------
(* The shape of the state; a page that is asked for exists or follows one  *)
(* that did, and a window never asks for a page past the last one.         *)
TypeOK ==
    /\ issue \in [Num -> [state : {"none", "open", "closed"}, work : BOOLEAN,
                          assigned : BOOLEAN, comments : 0..MaxComments]]
    /\ label \subseteq Range(Platform)
    /\ call.pc \in {"idle", "token", "send"} /\ call.op \in Ops \cup {"none"}
    /\ call.op = "recent" /\ call.last > 0 => call.page \in 2..call.last
    /\ answer.res \in Errors \cup {"none", "Ok", "NotInstalled"}
    /\ edits \in 0..MaxEdits /\ faults \in 0..MaxFaults

(* A listing that succeeds names only issues, never a pull request; it     *)
(* misses none that was listed from its first page to its last unless an   *)
(* issue left the list in between and shifted the pages, and it repeats    *)
(* none unless one came in.  The reconcile pass takes an issue that is not *)
(* in the list for closed.                                                 *)
ListingIsFaithful ==
    answer.op = "list" /\ answer.res = "Ok" =>
        /\ Range(answer.out) \cap Pulls = {}
        /\ ~left => (Range(before) \cap Listed) \ Pulls \subseteq Range(answer.out)
        /\ ~came => IsInjective(answer.out)

(* The window of recent comments holds the newest comments that existed    *)
(* when its first page was answered, as many as the pages before the last  *)
(* one can hold, whatever was written meanwhile: a run record among them   *)
(* is not missed.  (A page answered 404 counts as empty: the issue is gone.)*)
NewestCommentsAreRead ==
    answer.op = "recent" /\ answer.res = "Ok" =>
        LET room == (WindowPages - 1) * PerPage + 1
            first == IF Len(before) > room THEN Len(before) - room + 1 ELSE 1
        IN first..Len(before) \subseteq Range(answer.out)

(* A write that was answered Ok is in force until a person undoes it, even *)
(* when an earlier attempt was applied and its answer lost.                *)
OkIsApplied == \A p \in promise : InForce(p[1], p[2])

(* The admins of a repository are listed whole and nobody twice.           *)
AdminsOnce == answer.op = "admins" /\ answer.res = "Ok" =>
    IsInjective(answer.out) /\ Range(answer.out) = Range(Collaborators)

(* A sweep over the platform labels during which no request failed leaves  *)
(* every label in place, and one failed request costs one label at most.   *)
LabelsEnsured ==
    answer.op = "ensure" /\ answer.res = "Ok" /\ edits = 0 =>
        Cardinality(Range(Platform) \ label) <= faults

(* Every call comes to an end: the pages run out however the list moves.   *)
Quiet == call.pc = "idle"

(* What holds of the client's calls at every state: answers are faithful   *)
(* and an Ok is in force.                                                  *)
CallsSafe ==
    /\ TypeOK /\ ListingIsFaithful /\ AdminsOnce
    /\ NewestCommentsAreRead /\ OkIsApplied /\ LabelsEnsured
=============================================================================
