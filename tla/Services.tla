------------------------------ MODULE Services ------------------------------
(* Services of the control plane and of the pod: the schedules, the capture  *)
(* worker, the template pull requests, the pod driver, the environment       *)
(* store, the activity read API, the GitHub client and the chat.             *)
(* They share no state, so a behaviour moves one of them and leaves the      *)
(* others out: part names it.                                                *)
EXTENDS AuditWorker

CONSTANTS
  None,
  Slots, Anchor, MaxRuntime, MaxClock, ScheduleFaults, MaxScheduleFaults, MaxManual,
                                                  \* of the schedule
  MaxVersion, Files, MaxPullFaults, MaxPullEdits, \* of the template pull requests
  PackageRefs, Grants, Lifecycle, InitialBranch, UserEnv, Secrets, Reserved, Commands, PodFaults,
  MaxPodFaults                                    \* of the pod
CONSTANTS                                         \* [part -> the constants of its component]
  Profiles, Walkers, Clients, Chats

VARIABLES
  part,         \* the component that moves in this behaviour
  sNow, labels, records, runs, reported, unrecorded, notices, valid, sCalls, manual, asked, sFaults,
  base, gated, branch, pull, target, mark, pass, tFaults, tEdits, pPc, step,
  pDisk, manifest, codex, pEngine, straggler, status, exit, deleted, pFaults,
  eCm, eSecret, eEnv, eClock, eProc, eReq,
  ePermits, eInflight, ePods, eFaults, yNow, yPosthog, yRelay, yWalk, yGlobal,
  yPerPrincipal, yFaults, hIssue, hLabel, hVisible, hCall, hAnswer, hLeft,
  hCame, hBefore, hPromise, hCalls, hEdits, hFaults, cInflight, cPermits,
  cTurn, cQueue, cSent, cClient

\* Instants count from the epoch, and the definition is there when the clock starts.
ASSUME ScheduleAssumption ==
  /\ Slots \subseteq Nat /\ MaxClock \in Nat /\ Anchor \in 0..MaxClock
  /\ MaxManual \in Nat /\ MaxScheduleFaults \in Nat

\* A process bundles a version, the first one at the start, of some files.
ASSUME TemplatesAssumption ==
  /\ MaxVersion \in Nat \ {0} /\ Files \in Nat \ {0}
  /\ MaxPullFaults \in Nat /\ MaxPullEdits \in Nat

\* A launch names at least one package, and the hosted launcher sets the ref of
\* every checkout; None is left to callers outside of it.
ASSUME PodAssumption ==
  /\ Len(PackageRefs) \in Nat \ {0} /\ DOMAIN PackageRefs = 1..Len(PackageRefs)
  /\ Len(Grants) \in Nat /\ DOMAIN Grants = 1..Len(Grants)
  /\ \A i \in DOMAIN PackageRefs : PackageRefs[i].ref # None
  /\ \A i \in DOMAIN Grants : Grants[i].ref # None
  /\ Lifecycle.ref # None
  /\ Commands \in Nat /\ MaxPodFaults \in Nat

ASSUME ChatAssumption ==
  \A k \in DOMAIN Chats :
    /\ IsFiniteSet(Chats[k].Turns)
    /\ Chats[k].MaxConcurrent \in Nat /\ Chats[k].MaxRounds \in Nat /\ Chats[k].Buffer \in Nat

\* What the objects of a profile are made of; None is none of it.
Written(k) == Profiles[k].Specs \cup (Profiles[k].Legacy \ {None})
PublicHalf(k) == {s.pub : s \in Written(k)}
SecretHalf(k) == {s.sec : s \in Written(k)}
ConfigMapOf(k) == [pub : PublicHalf(k), by : Nat, ver : Nat]
SecretOf(k) == [sec : SecretHalf(k), by : Nat, ver : Nat]
RecordOf(k) == [pub : PublicHalf(k), sec : SecretHalf(k), rev : Nat, ver : Nat]
ReadingOf(k) == [pub : PublicHalf(k), ver : Nat, sec : SecretHalf(k) \cup {None}]

ASSUME ProfileAssumption ==
  \A k \in DOMAIN Profiles :
    /\ Profiles[k].Requests \subseteq Nat /\ IsFiniteSet(Profiles[k].Requests)
    /\ Profiles[k].MaxConcurrent \in Nat /\ Profiles[k].MaxFaults \in Nat
    /\ Profiles[k].Durable \in BOOLEAN
    /\ None \notin {"put", "delete", "created", "replaced"} /\ None \notin SecretHalf(k)
    /\ None \notin ConfigMapOf(k) /\ None \notin SecretOf(k)
    /\ None \notin RecordOf(k) /\ None \notin ReadingOf(k)

\* Events are numbered and have a time; a page is a set of them, with what was
\* counted, and None is none of that. A page shows at least one event.
WalkRange == [from : Int, to : Int]
PageOf(k) == [rows : SUBSET Walkers[k].Rows, raw : Nat, errors : Nat]

ASSUME WalkAssumption ==
  \A k \in DOMAIN Walkers :
    /\ Walkers[k].Rows \subseteq Nat /\ IsFiniteSet(Walkers[k].Rows)
    /\ \A r \in Walkers[k].Rows : Walkers[k].Row[r].ts \in Int
    /\ IsFiniteSet(Walkers[k].Walks) /\ Walkers[k].Landed \subseteq Walkers[k].Rows
    /\ \A q \in Walkers[k].Queries : /\ q.explicit \in WalkRange \cup {None}
                                     /\ q.kind \in {"api", "lifecycle", "all"}
    /\ Walkers[k].Limit \in Nat \ {0} /\ Walkers[k].MaxReadRows \in Nat
    /\ Walkers[k].Span \in Nat /\ Walkers[k].MaxNow \in Int /\ Walkers[k].MaxFaults \in Nat
    /\ None \notin Walkers[k].Rows /\ None \notin PageOf(k)

S == INSTANCE SchedulePass WITH
  Mode <- "cron", Timeout <- MaxRuntime, MaxTime <- MaxClock, Faults <- ScheduleFaults,
  MaxFaults <- MaxScheduleFaults, now <- sNow, calls <- sCalls, faults <- sFaults
T == INSTANCE TemplatePulls WITH
  MaxFaults <- MaxPullFaults, MaxEdits <- MaxPullEdits,
  faults <- tFaults, edits <- tEdits
P == INSTANCE SessionPod WITH
  Faults <- PodFaults, MaxFaults <- MaxPodFaults, pc <- pPc, disk <- pDisk,
  engine <- pEngine, faults <- pFaults
E(k) == INSTANCE Environments WITH
  Procs <- Profiles[k].Procs, Requests <- Profiles[k].Requests,
  Specs <- Profiles[k].Specs, Durable <- Profiles[k].Durable,
  Legacy <- Profiles[k].Legacy, MaxPerUser <- Profiles[k].MaxPerUser,
  MaxConcurrent <- Profiles[k].MaxConcurrent,
  MaxInFlight <- Profiles[k].MaxInFlight, MaxFaults <- Profiles[k].MaxFaults,
  cm <- eCm, secret <- eSecret, env <- eEnv, clock <- eClock, proc <- eProc,
  req <- eReq, permits <- ePermits, inflight <- eInflight, pods <- ePods,
  faults <- eFaults
Y(k) == INSTANCE ActivityRead WITH
  Rows <- Walkers[k].Rows, Row <- Walkers[k].Row, Walks <- Walkers[k].Walks,
  Viewer <- Walkers[k].Viewer, Queries <- Walkers[k].Queries,
  Malformed <- Walkers[k].Malformed, Unreadable <- Walkers[k].Unreadable,
  Limit <- Walkers[k].Limit, MaxReadRows <- Walkers[k].MaxReadRows,
  GlobalLimit <- Walkers[k].GlobalLimit,
  PerPrincipalLimit <- Walkers[k].PerPrincipalLimit, Landed <- Walkers[k].Landed,
  Span <- Walkers[k].Span, MaxNow <- Walkers[k].MaxNow,
  MaxFaults <- Walkers[k].MaxFaults, now <- yNow, posthog <- yPosthog,
  relay <- yRelay, walk <- yWalk, global <- yGlobal, perPrincipal <- yPerPrincipal,
  faults <- yFaults
HL == INSTANCE GithubIssues WITH
  Num <- Clients.listings.Num, Pulls <- Clients.listings.Pulls,
  Collaborators <- Clients.listings.Collaborators, Platform <- Clients.listings.Platform,
  PerPage <- Clients.listings.PerPage, MaxPages <- Clients.listings.MaxPages,
  Calls <- Clients.listings.Calls, MaxCalls <- Clients.listings.MaxCalls,
  MaxComments <- Clients.listings.MaxComments, MaxEdits <- Clients.listings.MaxEdits,
  MaxFaults <- Clients.listings.MaxFaults, issue <- hIssue, label <- hLabel,
  visible <- hVisible, call <- hCall, answer <- hAnswer, left <- hLeft,
  came <- hCame, before <- hBefore, promise <- hPromise, calls <- hCalls,
  edits <- hEdits, faults <- hFaults
HC == INSTANCE GithubIssues WITH
  Num <- Clients.calls.Num, Pulls <- Clients.calls.Pulls,
  Collaborators <- Clients.calls.Collaborators, Platform <- Clients.calls.Platform,
  PerPage <- Clients.calls.PerPage, MaxPages <- Clients.calls.MaxPages,
  Calls <- Clients.calls.Calls, MaxCalls <- Clients.calls.MaxCalls,
  MaxComments <- Clients.calls.MaxComments, MaxEdits <- Clients.calls.MaxEdits,
  MaxFaults <- Clients.calls.MaxFaults, issue <- hIssue, label <- hLabel,
  visible <- hVisible, call <- hCall, answer <- hAnswer, left <- hLeft,
  came <- hCame, before <- hBefore, promise <- hPromise, calls <- hCalls,
  edits <- hEdits, faults <- hFaults
C(k) == INSTANCE ChatTurns WITH
  Turns <- Chats[k].Turns, User <- Chats[k].User,
  MaxConcurrent <- Chats[k].MaxConcurrent, MaxRounds <- Chats[k].MaxRounds,
  Buffer <- Chats[k].Buffer, Chunks <- Chats[k].Chunks,
  MaxChunks <- Chats[k].MaxChunks, Defects <- Chats[k].Defects,
  Tools <- Chats[k].Tools, Impatient <- Chats[k].Impatient, inflight <- cInflight,
  permits <- cPermits, turn <- cTurn, queue <- cQueue, sent <- cSent,
  client <- cClient

scheduleVars == <<sNow, labels, records, runs, reported, unrecorded, notices, valid, sCalls, manual,
                  asked, sFaults>>
workerVars == <<pc, queue, depth, closed, cancelled, task, buffer, batch,
                attempt, deadline, delivered, dropped, offered, residual,
                report, now, until>>
templatesVars == <<base, gated, branch, pull, target, mark, pass, tFaults,
                   tEdits>>
podVars == <<pPc, step, pDisk, manifest, codex, pEngine, straggler, status,
             exit, deleted, pFaults>>
profileVars == <<eCm, eSecret, eEnv, eClock, eProc, eReq, ePermits, eInflight,
                 ePods, eFaults>>
walkVars == <<yNow, yPosthog, yRelay, yWalk, yGlobal, yPerPrincipal, yFaults>>
clientVars == <<hIssue, hLabel, hVisible, hCall, hAnswer, hLeft, hCame,
                hBefore, hPromise, hCalls, hEdits, hFaults>>
chatVars == <<cInflight, cPermits, cTurn, cQueue, cSent, cClient>>

\* A component that does not move has no state.
scheduleOff ==
  sNow = 0 /\ labels = 0 /\ records = 0 /\ runs = 0 /\ reported = 0 /\ unrecorded = 0 /\ notices = 0 /\
  valid = 0 /\ sCalls = 0 /\ manual = 0 /\ asked = 0 /\ sFaults = 0
templatesOff ==
  base = 0 /\ gated = 0 /\ branch = 0 /\ pull = 0 /\ target = 0 /\
  mark = 0 /\ pass = 0 /\ tFaults = 0 /\ tEdits = 0
podOff ==
  pPc = 0 /\ step = 0 /\ pDisk = 0 /\ manifest = 0 /\ codex = 0 /\
  pEngine = 0 /\ straggler = 0 /\ status = 0 /\ exit = 0 /\ deleted = 0 /\
  pFaults = 0
profileOff ==
  eCm = 0 /\ eSecret = 0 /\ eEnv = 0 /\ eClock = 0 /\ eProc = 0 /\
  eReq = 0 /\ ePermits = 0 /\ eInflight = 0 /\ ePods = 0 /\ eFaults = 0
walkOff ==
  yNow = 0 /\ yPosthog = 0 /\ yRelay = 0 /\ yWalk = 0 /\ yGlobal = 0 /\
  yPerPrincipal = 0 /\ yFaults = 0
clientOff ==
  hIssue = 0 /\ hLabel = 0 /\ hVisible = 0 /\ hCall = 0 /\ hAnswer = 0 /\
  hLeft = 0 /\ hCame = 0 /\ hBefore = 0 /\ hPromise = 0 /\ hCalls = 0 /\
  hEdits = 0 /\ hFaults = 0
chatOff ==
  cInflight = 0 /\ cPermits = 0 /\ cTurn = 0 /\ cQueue = 0 /\ cSent = 0 /\
  cClient = 0

PartInit ==
  /\ part \in {"schedule", "worker", "templates", "pod", "listings", "calls"}
       \cup DOMAIN Profiles \cup DOMAIN Walkers \cup DOMAIN Chats
  /\ IF part = "schedule" THEN S!Init ELSE scheduleOff
  /\ Init
  /\ IF part = "templates" THEN T!Init ELSE templatesOff
  /\ IF part = "pod" THEN P!Init ELSE podOff
  /\ IF part \in DOMAIN Profiles THEN \E k \in DOMAIN Profiles : part = k /\ E(k)!Init ELSE profileOff
  /\ IF part \in DOMAIN Walkers THEN \E k \in DOMAIN Walkers : part = k /\ Y(k)!Init ELSE walkOff
  /\ CASE part = "listings" -> HL!Init
       [] part = "calls" -> HC!Init
       [] OTHER -> clientOff
  /\ IF part \in DOMAIN Chats THEN \E k \in DOMAIN Chats : part = k /\ C(k)!Init ELSE chatOff

PartNext ==
  \/ /\ part = "schedule" /\ S!Next
     /\ UNCHANGED <<part, workerVars, templatesVars, podVars,
                     profileVars, walkVars, clientVars, chatVars>>
  \/ /\ part = "worker" /\ Next
     /\ UNCHANGED <<part, scheduleVars, templatesVars, podVars,
                     profileVars, walkVars, clientVars, chatVars>>
  \/ /\ part = "templates" /\ T!Next
     /\ UNCHANGED <<part, scheduleVars, workerVars, podVars,
                     profileVars, walkVars, clientVars, chatVars>>
  \/ /\ part = "pod" /\ P!Next
     /\ UNCHANGED <<part, scheduleVars, workerVars, templatesVars,
                     profileVars, walkVars, clientVars, chatVars>>
  \/ /\ \E k \in DOMAIN Profiles : part = k /\ E(k)!Next
     /\ UNCHANGED <<part, scheduleVars, workerVars, templatesVars, podVars,
                     walkVars, clientVars, chatVars>>
  \/ /\ \E k \in DOMAIN Walkers : part = k /\ Y(k)!Next
     /\ UNCHANGED <<part, scheduleVars, workerVars, templatesVars, podVars,
                     profileVars, clientVars, chatVars>>
  \/ /\ part = "listings" /\ HL!Next
     /\ UNCHANGED <<part, scheduleVars, workerVars, templatesVars, podVars,
                     profileVars, walkVars, chatVars>>
  \/ /\ part = "calls" /\ HC!Next
     /\ UNCHANGED <<part, scheduleVars, workerVars, templatesVars, podVars,
                     profileVars, walkVars, chatVars>>
  \/ /\ \E k \in DOMAIN Chats : part = k /\ C(k)!Next
     /\ UNCHANGED <<part, scheduleVars, workerVars, templatesVars, podVars,
                     profileVars, walkVars, clientVars>>

allVars ==
  <<part, scheduleVars, workerVars, templatesVars, podVars,
    profileVars, walkVars, clientVars, chatVars>>

PartSpec == PartInit /\ [][PartNext]_allVars

\* The fairness of each component, of the one that moves.
PartFairSpec ==
  /\ PartSpec
  /\ WF_scheduleVars(part = "schedule" /\ S!Clock)
  /\ WF_scheduleVars(part = "schedule" /\ S!ManualCall)
  /\ WF_scheduleVars(part = "schedule" /\ S!Tick)
  /\ WF_workerVars(part = "worker" /\ Work)
  /\ WF_workerVars(part = "worker" /\ Cancel)
  /\ WF_workerVars(part = "worker" /\ Tick)
  /\ WF_workerVars(part = "worker" /\ Return)
  /\ \A e \in Event : WF_workerVars(part = "worker" /\ Count(e))
  /\ WF_templatesVars(part = "templates" /\ T!App)
  /\ WF_templatesVars(part = "templates" /\ T!Expire)
  /\ WF_podVars(part = "pod" /\ P!Launch)
  /\ \A k \in DOMAIN Profiles : \A p \in Profiles[k].Procs :
       WF_profileVars(part = k /\ E(k)!StartUp(p))
  /\ \A k \in DOMAIN Profiles : \A q \in Profiles[k].Requests :
       /\ WF_profileVars(part = k /\ E(k)!Serve(q))
       /\ WF_profileVars(part = k /\ E(k)!Reap(q))
  /\ \A k \in DOMAIN Walkers : \A w \in Walkers[k].Walks :
       /\ WF_walkVars(part = k /\ Y(k)!Resumes(w))
       /\ WF_walkVars(part = k /\ Y(k)!Answer(w))
       /\ \A s \in {"posthog", "relay"} : WF_walkVars(part = k /\ Y(k)!Fetched(w, s))
  /\ WF_clientVars(part = "listings" /\ HL!Client)
  /\ WF_clientVars(part = "calls" /\ HC!Client)
  /\ \A k \in DOMAIN Chats : \A t \in Chats[k].Turns :
       /\ WF_chatVars(part = k /\ C(k)!Grace(t))
       /\ WF_chatVars(part = k /\ C(k)!Task(t))
       /\ WF_chatVars(part = k /\ C(k)!Receive(t))

-----------------------------------------------------------------------------
\* Of the runs that have their record a slot has one, and they do not overlap within
\* their budget.
ScheduleSafe == part = "schedule" => S!ScheduleSafe

\* The engine runs on the checkouts it was asked for, without secrets, and the
\* exit code tells how it ended.
PodSafe == part = "pod" => P!PodSafe

\* Of two writes on one version one wins, the migration loses no profile, and
\* an answer is true.
EnvironmentsSafe == \A k \in DOMAIN Profiles : part = k => E(k)!EnvironmentsSafe

\* The pages of an activity walk tile, and a refusal has a reason.
WalksSafe == \A k \in DOMAIN Walkers : part = k => Y(k)!WalksSafe

\* Listings of the GitHub client are faithful and what it answers Ok is in
\* force.
CallsSafe ==
  /\ part = "listings" => HL!CallsSafe
  /\ part = "calls" => HC!CallsSafe

\* A user has one turn, its history is well formed, and it ends with one
\* terminal frame.
TurnsSafe == \A k \in DOMAIN Chats : part = k => C(k)!TurnsSafe

\* Stopping the capture worker accounts for what it leaves, and a template
\* pull request is neither churned nor merged with foreign or missing files.
CarefulSteps ==
  [][/\ part = "worker" => StopAccountsForAllStep
     /\ part = "templates" => T!PullsAreCarefulStep]_allVars

\* Due slots get records and latches are released; the worker stops and
\* settles what it admitted; pods serve unless stuck; calls end and permits
\* come back; templates are installed or proposed, requests and walks ended.
ServicesSettle ==
  /\ []<>(/\ part = "schedule" => S!Unlatched /\ \A s \in Slots : S!Covered(s)
          /\ part = "worker" => Stopped /\ \A e \in Event : Resolved(e)
          /\ part = "pod" => P!Serving \/ P!Stuck
          /\ part = "listings" => HL!Quiet
          /\ part = "calls" => HC!Quiet
          /\ \A k \in DOMAIN Chats : part = k => C(k)!AllFree)
  /\ <>[](/\ part = "templates" => T!Settled /\ T!Installed
          /\ part = "envdurable" => E("envdurable")!Settled
          /\ \A k \in DOMAIN Walkers : part = k => Y(k)!Ended)
=============================================================================
