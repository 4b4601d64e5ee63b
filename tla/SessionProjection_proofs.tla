---------------------- MODULE SessionProjection_proofs ----------------------
(***************************************************************************)
(* Proofs about SessionProjection for any repositories, sessions, channel  *)
(* capacity, faults and changes.                                           *)
(***************************************************************************)
EXTENDS SessionProjection, SequenceTheorems, FiniteSetTheorems, TLAPS

USE ProjectionAssumption DEF ProjectionAssumption

Passes == [at : {"idle", "reading", "publishing", "finishing"}, repo : SUBSET Repo,
           read : SUBSET Session]

Resyncs == [at : {"sleeping", "enumerated", "feeding"}, found : SUBSET Repo, complete : BOOLEAN]

Stagings == [on : BOOLEAN, pending : SUBSET Repo, reported : SUBSET Repo,
             contexts : SUBSET Session]

RegistryOK == live \subseteq Session /\ staging \in Stagings /\ state \in {"cold", "recovering", "ready"}
-----------------------------------------------------------------------------
\* enqueue_on keeps the channel within its capacity.
LEMMA EnqueuedType ==
  ASSUME NEW q \in Seq(Repo), Len(q) <= Capacity, NEW r \in Repo
  PROVE  Enqueued(q, r) \in Seq(Repo) /\ Len(Enqueued(q, r)) <= Capacity
<1>1. Append(q, r) \in Seq(Repo) /\ Len(Append(q, r)) = Len(q) + 1 /\ Len(q) \in Nat
  BY AppendProperties, LenProperties
<1> QED BY <1>1 DEF Enqueued

\* A function on an initial segment of the numbers is a sequence.
LEMMA SegmentIsSeq ==
  ASSUME NEW S, NEW n \in Nat, NEW f \in [1..n -> S]
  PROVE  f \in Seq(S) /\ Len(f) = n
OBVIOUS

\* A prefix of a sequence is a sequence of its length.
LEMMA PrefixType ==
  ASSUME NEW S, NEW q \in Seq(S), NEW n \in 0..Len(q)
  PROVE  SubSeq(q, 1, n) \in Seq(S) /\ Len(SubSeq(q, 1, n)) = n
OBVIOUS

\* What sweep_once sends fits into the room that is left.
LEMMA SweptType ==
  ASSUME TypeOK, Sweep
  PROVE  queue' \in Seq(Repo) /\ Len(queue') <= Capacity
<1>1. queue \in Seq(Repo) /\ Len(queue) \in Nat /\ Len(queue) <= Capacity
  BY LenProperties DEF TypeOK
<1>2. IsFiniteSet(fleet \cup active)
  BY FS_Subset DEF TypeOK
<1>3. Cardinality(fleet \cup active) \in Nat
  BY <1>2, FS_CardinalityType
<1>4. PICK order \in [1..Cardinality(fleet \cup active) -> fleet \cup active] :
        queue' = queue \o SubSeq(order, 1, IF Capacity - Len(queue) < Len(order)
                                           THEN Capacity - Len(queue) ELSE Len(order))
  BY DEF Sweep
<1>5. order \in Seq(Repo)
  <2>1. order \in [1..Cardinality(fleet \cup active) -> Repo]
    BY DEF TypeOK
  <2> QED BY <1>3, <2>1, SegmentIsSeq
<1>6. Len(order) \in Nat
  BY <1>5, LenProperties
<1> DEFINE sent == IF Capacity - Len(queue) < Len(order) THEN Capacity - Len(queue) ELSE Len(order)
<1>7. sent \in 0..Len(order) /\ Len(queue) + sent <= Capacity
  BY <1>1, <1>6
<1> DEFINE prefix == SubSeq(order, 1, sent)
<1>8. queue' = queue \o prefix
  BY <1>4
<1> HIDE DEF sent
<1>9. prefix \in Seq(Repo) /\ Len(prefix) = sent
  BY <1>5, <1>7, PrefixType
<1> HIDE DEF prefix
<1>10. queue' \in Seq(Repo) /\ Len(queue') = Len(queue) + sent
  BY <1>1, <1>8, <1>9, ConcatProperties
<1> QED BY <1>1, <1>7, <1>10

\* The three operations of the registry keep its types.
LEMMA RegistryType ==
  ASSUME RegistryOK
  PROVE  /\ \A found \in SUBSET Repo : BeginGeneration(found) => RegistryOK'
         /\ Degrade => RegistryOK'
         /\ \A r \in Repo : RecordRepoFailure(r) => RegistryOK'
         /\ \A r \in Repo, read \in SUBSET Session : ReplaceRepo(r, read) => RegistryOK'
<1> USE DEF RegistryOK, Stagings, registry
<1>1. Folded \subseteq Session
  BY DEF Folded, NotOf
<1>2. NoStaging \in Stagings
  BY DEF NoStaging
<1>3. ASSUME NEW found \in SUBSET Repo, BeginGeneration(found) PROVE RegistryOK'
  <2>1. CASE found = {}
    BY <1>2, <1>3, <2>1 DEF BeginGeneration
  <2>2. CASE found # {}
    <3>1. live' \subseteq Session /\ state' \in {"recovering", "ready"}
      BY <1>1, <1>3, <2>2 DEF BeginGeneration
    <3>2. staging' = [on |-> TRUE, pending |-> found, reported |-> {}, contexts |-> {}]
      BY <1>3, <2>2 DEF BeginGeneration
    <3> QED BY <3>1, <3>2
  <2> QED BY <2>1, <2>2
<1>4. ASSUME Degrade PROVE RegistryOK'
  BY <1>1, <1>2, <1>4 DEF Degrade
<1>5. ASSUME NEW r \in Repo, RecordRepoFailure(r) PROVE RegistryOK'
  BY <1>4, <1>5 DEF RecordRepoFailure
<1>6. ASSUME NEW r \in Repo, NEW read \in SUBSET Session, ReplaceRepo(r, read)
      PROVE  RegistryOK'
  <2> DEFINE next == [on |-> TRUE, pending |-> staging.pending \ {r},
                      reported |-> staging.reported \cup {r},
                      contexts |-> NotOf(staging.contexts, {r}) \cup read]
  <2>1. next \in Stagings /\ next.contexts \subseteq Session
    BY DEF NotOf
  <2>2. CASE ~staging.on
    BY <1>6, <2>2 DEF ReplaceRepo, NotOf
  <2>3. CASE staging.on /\ next.pending # {}
    <3>1. staging' = next /\ UNCHANGED <<live, state>>
      BY <1>6, <2>3 DEF ReplaceRepo
    <3> QED BY <2>1, <3>1
  <2>4. CASE staging.on /\ next.pending = {}
    <3>1. live' = next.contexts /\ staging' = NoStaging /\ state' = "ready"
      BY <1>6, <2>4 DEF ReplaceRepo
    <3> QED BY <1>2, <2>1, <3>1
  <2> QED BY <2>2, <2>3, <2>4
<1> QED BY <1>3, <1>4, <1>5, <1>6

\* The queue, the projection and the loops keep their types.
LEMMA TypeStep == TypeOK /\ [Next]_vars => TypeOK'
<1> SUFFICES ASSUME TypeOK, [Next]_vars PROVE TypeOK'
  OBVIOUS
<1> USE DEF TypeOK, world, worker, registry, Fault, Change
<1>1. RegistryOK /\ pass \in Passes /\ resync \in Resyncs
  BY DEF RegistryOK, Stagings, Passes, Resyncs
<1>2. CASE Drain
  <2>1. {queue[n] : n \in 1..Len(queue)} \subseteq Repo
    BY ElementOfSeq
  <2> QED BY <1>2, <2>1, EmptySeq DEF Drain
<1>3. ASSUME NEW r \in Repo, StartPass(r) PROVE TypeOK'
  BY <1>3 DEF StartPass
<1>4. ASSUME NEW r \in Repo, ReadTriggers(r) PROVE TypeOK'
  BY <1>4 DEF ReadTriggers, Of
<1>5. ASSUME NEW r \in Repo, PublishContexts(r) PROVE TypeOK'
  <2>1. RegistryOK'
    BY <1>1, <1>5, RegistryType DEF PublishContexts
  <2> QED BY <1>5, <2>1 DEF PublishContexts, RegistryOK, Stagings
<1>6. ASSUME NEW r \in Repo, FinishPass(r) PROVE TypeOK'
  BY <1>6 DEF FinishPass, Idle
<1>7. ASSUME NEW r \in Repo, FailPass(r) PROVE TypeOK'
  <2>1. RegistryOK'
    BY <1>1, <1>7, RegistryType DEF FailPass
  <2> QED BY <1>7, <2>1 DEF FailPass, RegistryOK, Stagings, Idle
<1>8. CASE Enumerate
  <2>1. \E found \in SUBSET Repo, complete \in BOOLEAN :
          resync' = [at |-> "enumerated", found |-> found, complete |-> complete]
    BY <1>8 DEF Enumerate
  <2>2. faults' \in 0..MaxFaults
    BY <1>8 DEF Enumerate
  <2>3. resync' \in [at : {"sleeping", "enumerated", "feeding"}, found : SUBSET Repo,
                     complete : BOOLEAN]
    BY <2>1
  <2> QED BY <1>8, <2>2, <2>3 DEF Enumerate
<1>9. CASE OpenGeneration
  <2>1. RegistryOK'
    BY <1>1, <1>9, RegistryType DEF OpenGeneration
  <2> QED BY <1>9, <2>1 DEF OpenGeneration, RegistryOK, Stagings
<1>10. CASE ResyncDone
  BY <1>10 DEF ResyncDone, Sleeping
<1>11. ASSUME NEW r \in Repo, Feed(r) PROVE TypeOK'
  <2>1. queue' \in Seq(Repo) /\ Len(queue') <= Capacity
    BY <1>11, EnqueuedType DEF Feed
  <2> QED BY <1>11, <2>1 DEF Feed
<1>12. CASE Sweep
  <2>1. queue' \in Seq(Repo) /\ Len(queue') <= Capacity
    BY <1>12, SweptType
  <2> QED BY <1>12, <2>1 DEF Sweep
<1>13. CASE Abort
  <2>1. queue' \in Seq(Repo) /\ Len(queue') <= Capacity
    BY <1>13, EmptySeq DEF Abort
  <2>2. Idle \in Passes /\ Sleeping \in Resyncs
    BY DEF Idle, Sleeping, Passes, Resyncs
  <2>3. faults' \in 0..MaxFaults
    BY <1>13 DEF Abort
  <2> QED BY <1>13, <2>1, <2>2, <2>3 DEF Abort, Passes, Resyncs
<1>14. CASE Acquire
  BY <1>14 DEF Acquire
<1>15. ASSUME NEW r \in Repo, Hint(r) PROVE TypeOK'
  <2>1. queue' \in Seq(Repo) /\ Len(queue') <= Capacity
    BY <1>15, EnqueuedType DEF Hint
  <2> QED BY <1>15, <2>1 DEF Hint
<1>16. ASSUME NEW r \in Repo, Uninstall(r) \/ Install(r) \/ Disable(r) PROVE TypeOK'
  BY <1>16 DEF Uninstall, Install, Disable
<1>17. ASSUME NEW s \in Session, OpenSession(s) \/ CloseSession(s) PROVE TypeOK'
  BY <1>17 DEF OpenSession, CloseSession
<1>18. CASE UNCHANGED vars
  BY <1>18 DEF vars
<1> QED
  BY <1>2, <1>3, <1>4, <1>5, <1>6, <1>7, <1>8, <1>9, <1>10, <1>11, <1>12, <1>13, <1>14, <1>15,
     <1>16, <1>17, <1>18 DEF Next, PassStep, ResyncStep

\* The channel never holds more than its capacity, whatever webhooks, the sweep
\* and the full resync put into it (enqueue_on, sweep_once), and every other
\* variable keeps its type.
THEOREM TypeCorrect == Spec => []TypeOK
<1>1. Init => TypeOK
  BY EmptySeq DEF Init, TypeOK, Idle, Sleeping, NoStaging
<1> QED BY <1>1, TypeStep, PTL DEF Spec
-----------------------------------------------------------------------------
\* Nothing is installed, and no session is opened, in a step.
NoneInstalled == installed' \subseteq installed
NoneOpened == open' \subseteq open

\* An enumeration that is complete names every installed repository until its
\* generation opens, and the generation waits for each of them.
Enumerated == resync.at = "enumerated" /\ resync.complete => installed \subseteq resync.found
Awaited == staging.on => installed \subseteq staging.pending \cup staging.reported

\* Every session the projection or a pass knows was opened, and what a pass is
\* about to publish has the known open sessions of its repository: passes are
\* serial and read before they publish.
Opened == live \cup staging.contexts \cup pass.read \subseteq open \cup closed
PassFresh ==
  pass.at = "publishing" => Of((live \cup staging.contexts) \cap open, pass.repo) \subseteq pass.read

\* The staged sets of the repositories that reported have the published sessions.
StagedFresh == staging.on => Of(live \cap open, staging.reported) \subseteq staging.contexts

GenerationInv == Enumerated /\ Awaited
KeepInv == TypeOK /\ GenerationInv /\ Opened /\ PassFresh /\ StagedFresh

\* A complete enumeration stays complete, and its generation waits for all of it,
\* while nothing is installed.
LEMMA GenerationStep ==
  TypeOK /\ GenerationInv /\ [Next]_vars /\ NoneInstalled => GenerationInv'
<1> SUFFICES ASSUME TypeOK, GenerationInv, [Next]_vars, NoneInstalled PROVE GenerationInv'
  OBVIOUS
<1> USE DEF GenerationInv, Enumerated, Awaited, NoneInstalled, world, worker, registry
<1>1. ASSUME UNCHANGED <<resync, staging>> PROVE GenerationInv'
  BY <1>1
<1>2. CASE Drain
  BY <1>2, <1>1 DEF Drain
<1>3. ASSUME NEW r \in Repo, StartPass(r) \/ ReadTriggers(r) \/ FinishPass(r) PROVE GenerationInv'
  BY <1>3, <1>1 DEF StartPass, ReadTriggers, FinishPass
<1>4. ASSUME NEW r \in Repo, PublishContexts(r) PROVE GenerationInv'
  <2>1. UNCHANGED resync /\ ReplaceRepo(r, pass.read)
    BY <1>4 DEF PublishContexts
  <2>2. staging'.on => staging.on /\ staging'.pending = staging.pending \ {r}
                       /\ staging'.reported = staging.reported \cup {r}
    BY <2>1 DEF ReplaceRepo, NoStaging
  <2> QED BY <2>1, <2>2
<1>5. ASSUME NEW r \in Repo, FailPass(r) PROVE GenerationInv'
  BY <1>5 DEF FailPass, RecordRepoFailure, Degrade, NoStaging
<1>6. CASE Enumerate
  BY <1>6 DEF Enumerate
<1>7. CASE OpenGeneration
  <2>1. resync'.at = "feeding"
    BY <1>7 DEF OpenGeneration, TypeOK
  <2>2. CASE resync.complete
    <3>1. BeginGeneration(resync.found) /\ installed \subseteq resync.found
      BY <1>7, <2>2 DEF OpenGeneration
    <3>2. staging'.on => staging'.pending = resync.found
      BY <3>1 DEF BeginGeneration, NoStaging
    <3> QED BY <2>1, <3>1, <3>2
  <2>3. CASE ~resync.complete
    BY <1>7, <2>1, <2>3 DEF OpenGeneration, Degrade, NoStaging
  <2> QED BY <2>2, <2>3
<1>8. CASE ResyncDone
  BY <1>8 DEF ResyncDone, Sleeping
<1>9. ASSUME NEW r \in Repo, Feed(r) PROVE GenerationInv'
  BY <1>9 DEF Feed, TypeOK
<1>10. CASE Sweep
  BY <1>10, <1>1 DEF Sweep
<1>11. CASE Abort
  BY <1>11 DEF Abort, Sleeping
<1>12. CASE Acquire
  BY <1>12, <1>1 DEF Acquire
<1>13. ASSUME NEW r \in Repo, Hint(r) \/ Uninstall(r) \/ Install(r) \/ Disable(r)
       PROVE  GenerationInv'
  BY <1>13, <1>1 DEF Hint, Uninstall, Install, Disable
<1>14. ASSUME NEW s \in Session, OpenSession(s) \/ CloseSession(s) PROVE GenerationInv'
  BY <1>14, <1>1 DEF OpenSession, CloseSession
<1>15. CASE UNCHANGED vars
  BY <1>15, <1>1 DEF vars
<1> QED
  BY <1>2, <1>3, <1>4, <1>5, <1>6, <1>7, <1>8, <1>9, <1>10, <1>11, <1>12, <1>13, <1>14, <1>15
  DEF Next, PassStep, ResyncStep

\* What Degrade and BeginGeneration leave published is what was published or
\* staged, and nothing published and open is lost by folding.
LEMMA FoldedKeeps ==
  ASSUME TypeOK, StagedFresh, staging.on
  PROVE  live \cap open \subseteq Folded /\ Folded \subseteq live \cup staging.contexts
BY DEF StagedFresh, Folded, Of, NotOf

\* The registry keeps every published open session of an installed repository:
\* what happens to the projection in a step, whichever operation it is.
RegistryKeeps == live \cap Of(open, installed) \subseteq live'

\* A repository's report, the last of its generation or not, keeps them.
LEMMA ReplaceKeeps ==
  ASSUME KeepInv, NEW r \in Repo, pass.at = "publishing", pass.repo = {r},
         ReplaceRepo(r, pass.read)
  PROVE  /\ RegistryKeeps
         /\ live' \cup staging'.contexts \subseteq live \cup staging.contexts \cup pass.read
         /\ staging'.on => Of(live' \cap open, staging'.reported) \subseteq staging'.contexts
<1> USE DEF KeepInv, GenerationInv, Awaited, PassFresh, StagedFresh, Of, NotOf, RegistryKeeps
<1> DEFINE next == [on |-> TRUE, pending |-> staging.pending \ {r},
                    reported |-> staging.reported \cup {r},
                    contexts |-> NotOf(staging.contexts, {r}) \cup pass.read]
<1>1. CASE ~staging.on
  <2>1. live' = NotOf(live, {r}) \cup pass.read /\ staging' = staging
    BY <1>1 DEF ReplaceRepo
  <2> QED BY <1>1, <2>1
<1>2. CASE staging.on /\ next.pending # {}
  <2>1. live' = live /\ staging' = next
    BY <1>2 DEF ReplaceRepo
  <2> QED BY <1>2, <2>1
<1>3. CASE staging.on /\ next.pending = {}
  <2>1. live' = next.contexts /\ staging' = NoStaging
    BY <1>3 DEF ReplaceRepo
  <2>2. installed \subseteq staging.reported \cup {r}
    BY <1>3
  <2> QED BY <2>1, <2>2, <1>3 DEF NoStaging
<1> QED BY <1>1, <1>2, <1>3

\* A generation that opens, and one that is given up, keep them as well.
LEMMA GenerationKeeps ==
  ASSUME KeepInv, Degrade \/ OpenGeneration
  PROVE  /\ RegistryKeeps
         /\ live' \cup staging'.contexts \subseteq live \cup staging.contexts
         /\ staging'.on => Of(live' \cap open, staging'.reported) \subseteq staging'.contexts
<1> USE DEF KeepInv, Of, RegistryKeeps, NoStaging
<1>1. staging.on => live \cap open \subseteq Folded /\ Folded \subseteq live \cup staging.contexts
  BY FoldedKeeps
<1>2. CASE Degrade
  <2>1. CASE staging.on
    BY <1>1, <1>2, <2>1 DEF Degrade
  <2>2. CASE ~staging.on
    BY <1>2, <2>2 DEF Degrade, registry
  <2> QED BY <2>1, <2>2
<1>3. CASE OpenGeneration /\ resync.complete
  <2>1. BeginGeneration(resync.found) /\ installed \subseteq resync.found
    BY <1>3 DEF OpenGeneration, GenerationInv, Enumerated
  <2>2. CASE resync.found = {}
    <3>1. live' = {} /\ staging' = NoStaging /\ installed = {}
      BY <2>1, <2>2 DEF BeginGeneration
    <3> QED BY <3>1
  <2>3. CASE resync.found # {}
    <3>1. /\ live' = IF staging.on THEN Folded ELSE live
          /\ staging'.contexts = {} /\ staging'.reported = {}
      BY <2>1, <2>3 DEF BeginGeneration
    <3> QED BY <1>1, <3>1
  <2> QED BY <2>2, <2>3
<1> QED BY <1>2, <1>3 DEF OpenGeneration

\* The invariant is preserved, and nothing known is forgotten, while nothing is
\* installed.
LEMMA KeepStep ==
  KeepInv /\ [Next]_vars /\ NoneInstalled => KeepInv' /\ NeverForgetsStep
<1> SUFFICES ASSUME KeepInv, [Next]_vars, NoneInstalled PROVE KeepInv' /\ NeverForgetsStep
  OBVIOUS
<1>1. TypeOK' /\ GenerationInv'
  BY TypeStep, GenerationStep DEF KeepInv
<1> DEFINE Rest == Opened' /\ PassFresh' /\ StagedFresh' /\ NeverForgetsStep
<1> SUFFICES Rest
  BY <1>1 DEF KeepInv
<1> USE DEF KeepInv, Opened, PassFresh, StagedFresh, NeverForgetsStep, Of, RegistryKeeps,
            world, worker, registry
<1>2. ASSUME UNCHANGED <<pass, live, staging, open, closed>> PROVE Rest
  BY <1>2
<1>3. CASE Drain
  BY <1>3, <1>2 DEF Drain
<1>4. ASSUME NEW r \in Repo, StartPass(r) PROVE Rest
  BY <1>4 DEF StartPass
<1>5. ASSUME NEW r \in Repo, ReadTriggers(r) PROVE Rest
  <2>1. pass'.read = Of(open, {r}) /\ pass'.repo = {r} /\ UNCHANGED <<world, live, staging>>
    BY <1>5 DEF ReadTriggers, TypeOK
  <2> QED BY <2>1
<1>6. ASSUME NEW r \in Repo, PublishContexts(r) PROVE Rest
  <2>1. /\ pass.at = "publishing" /\ pass.repo = {r} /\ ReplaceRepo(r, pass.read)
        /\ pass'.at = "finishing" /\ pass'.read = pass.read /\ UNCHANGED world
    BY <1>6 DEF PublishContexts, TypeOK
  <2>2. /\ RegistryKeeps
        /\ live' \cup staging'.contexts \subseteq live \cup staging.contexts \cup pass.read
        /\ staging'.on => Of(live' \cap open, staging'.reported) \subseteq staging'.contexts
    BY <2>1, ReplaceKeeps
  <2> QED BY <2>1, <2>2
<1>7. ASSUME NEW r \in Repo, FinishPass(r) PROVE Rest
  BY <1>7 DEF FinishPass, Idle
<1>8. ASSUME Degrade \/ OpenGeneration, UNCHANGED world, UNCHANGED pass \/ pass' = Idle PROVE Rest
  <2>1. /\ RegistryKeeps
        /\ live' \cup staging'.contexts \subseteq live \cup staging.contexts
        /\ staging'.on => Of(live' \cap open, staging'.reported) \subseteq staging'.contexts
    BY <1>8, GenerationKeeps
  <2> QED BY <1>8, <2>1 DEF Idle
<1>9. ASSUME NEW r \in Repo, FailPass(r) PROVE Rest
  <2>1. pass' = Idle /\ UNCHANGED world /\ (Degrade \/ UNCHANGED registry)
    BY <1>9 DEF FailPass, RecordRepoFailure
  <2>2. CASE Degrade
    BY <1>8, <2>1, <2>2
  <2>3. CASE UNCHANGED registry
    BY <2>1, <2>3 DEF Idle
  <2> QED BY <2>1, <2>2, <2>3
<1>10. CASE Enumerate
  BY <1>10, <1>2 DEF Enumerate
<1>11. CASE OpenGeneration
  BY <1>8, <1>11 DEF OpenGeneration
<1>12. CASE ResyncDone
  BY <1>12, <1>2 DEF ResyncDone
<1>13. ASSUME NEW r \in Repo, Feed(r) PROVE Rest
  BY <1>13, <1>2 DEF Feed
<1>14. CASE Sweep
  BY <1>14, <1>2 DEF Sweep
<1>15. CASE Abort
  BY <1>15 DEF Abort, Idle
<1>16. CASE Acquire
  BY <1>16, <1>2 DEF Acquire
<1>17. ASSUME NEW r \in Repo, Hint(r) \/ Uninstall(r) \/ Install(r) \/ Disable(r) PROVE Rest
  BY <1>17, <1>2 DEF Hint, Uninstall, Install, Disable
<1>18. ASSUME NEW s \in Session, OpenSession(s) PROVE Rest
  <2>1. /\ s \notin open \cup closed /\ open' = open \cup {s}
        /\ UNCHANGED <<closed, pass, live, staging>>
    BY <1>18 DEF OpenSession
  <2> QED BY <2>1
<1>19. ASSUME NEW s \in Session, CloseSession(s) PROVE Rest
  <2>1. /\ open' = open \ {s} /\ closed' = closed \cup {s} /\ UNCHANGED <<pass, live, staging>>
    BY <1>19 DEF CloseSession
  <2> QED BY <2>1
<1>20. CASE UNCHANGED vars
  BY <1>20, <1>2 DEF vars
<1> QED
  BY <1>3, <1>4, <1>5, <1>6, <1>7, <1>9, <1>10, <1>11, <1>12, <1>13, <1>14, <1>15, <1>16, <1>17,
     <1>18, <1>19, <1>20 DEF Next, PassStep, ResyncStep

\* A process that begins knows nothing and stages nothing.
LEMMA KeepInit == Init => KeepInv
<1> SUFFICES ASSUME Init PROVE KeepInv
  OBVIOUS
<1>1. TypeOK
  BY EmptySeq DEF Init, TypeOK, Idle, Sleeping, NoStaging
<1> QED BY <1>1 DEF Init, KeepInv, GenerationInv, Enumerated, Awaited, Opened, PassFresh,
                    StagedFresh, Of, Idle, Sleeping, NoStaging

\* A published session is never dropped while its issue stays open and its
\* repository installed (begin_generation, degrade_staging, replace_repo), as long
\* as no repository gets installed: one that is installed behind an enumeration is
\* missing from it, and a complete generation forgets what it did not enumerate.
THEOREM NothingForgotten == Spec /\ [][NoneInstalled]_vars => NeverForgets
<1>1. KeepInv /\ [Next]_vars /\ [NoneInstalled]_vars => KeepInv' /\ [NeverForgetsStep]_vars
  <2> SUFFICES ASSUME KeepInv, [Next]_vars, [NoneInstalled]_vars
               PROVE  KeepInv' /\ [NeverForgetsStep]_vars
    OBVIOUS
  <2>1. NoneInstalled
    BY DEF NoneInstalled, vars, world
  <2> QED BY <2>1, KeepStep
<1> QED BY <1>1, KeepInit, PTL DEF Spec, NeverForgets
-----------------------------------------------------------------------------
\* While no session is opened, what a pass read and what a repository reported
\* are complete sets of its open sessions.
ReadAll == pass.at = "publishing" => Of(open, pass.repo) \subseteq pass.read
StagedAll == staging.on => Of(open, staging.reported) \subseteq staging.contexts

ReadyInv == KeepInv /\ ReadyKnowsAll /\ ReadAll /\ StagedAll

\* A report completes what its repository shows: in the published projection when
\* nothing is staged, in the staged one otherwise, and with the last report of a
\* generation everything open is published.
LEMMA ReplaceCompletes ==
  ASSUME ReadyInv, NEW r \in Repo, pass.at = "publishing", pass.repo = {r},
         ReplaceRepo(r, pass.read)
  PROVE  /\ state' = "ready" => Of(open, installed) \subseteq live'
         /\ staging'.on => Of(open, staging'.reported) \subseteq staging'.contexts
<1> USE DEF ReadyInv, KeepInv, GenerationInv, Awaited, ReadAll, StagedAll, ReadyKnowsAll, Of, NotOf
<1> DEFINE next == [on |-> TRUE, pending |-> staging.pending \ {r},
                    reported |-> staging.reported \cup {r},
                    contexts |-> NotOf(staging.contexts, {r}) \cup pass.read]
<1>1. CASE ~staging.on
  <2>1. live' = NotOf(live, {r}) \cup pass.read /\ UNCHANGED <<staging, state>>
    BY <1>1 DEF ReplaceRepo
  <2> QED BY <1>1, <2>1
<1>2. CASE staging.on /\ next.pending # {}
  <2>1. staging' = next /\ UNCHANGED <<live, state>>
    BY <1>2 DEF ReplaceRepo
  <2> QED BY <1>2, <2>1
<1>3. CASE staging.on /\ next.pending = {}
  <2>1. live' = next.contexts /\ staging' = NoStaging
    BY <1>3 DEF ReplaceRepo
  <2>2. installed \subseteq staging.reported \cup {r}
    BY <1>3
  <2> QED BY <2>1, <2>2, <1>3 DEF NoStaging
<1> QED BY <1>1, <1>2, <1>3

\* Folding a staged generation into the published one loses nothing either.
LEMMA GenerationCompletes ==
  ASSUME ReadyInv, Degrade \/ OpenGeneration
  PROVE  /\ state' = "ready" => Of(open, installed) \subseteq live'
         /\ staging'.on => Of(open, staging'.reported) \subseteq staging'.contexts
<1> USE DEF ReadyInv, KeepInv, StagedAll, ReadyKnowsAll, Of, NotOf, Folded, NoStaging
<1>1. CASE Degrade
  <2>1. CASE staging.on
    BY <1>1, <2>1 DEF Degrade
  <2>2. CASE ~staging.on
    BY <1>1, <2>2 DEF Degrade, registry
  <2> QED BY <2>1, <2>2
<1>2. CASE OpenGeneration /\ resync.complete
  <2>1. BeginGeneration(resync.found) /\ installed \subseteq resync.found
    BY <1>2 DEF OpenGeneration, GenerationInv, Enumerated
  <2>2. CASE resync.found = {}
    <3>1. staging' = NoStaging /\ installed = {}
      BY <2>1, <2>2 DEF BeginGeneration
    <3> QED BY <3>1
  <2>3. CASE resync.found # {}
    <3>1. /\ live' = IF staging.on THEN Folded ELSE live
          /\ state' = IF state = "ready" THEN state ELSE "recovering"
          /\ staging'.reported = {}
      BY <2>1, <2>3 DEF BeginGeneration
    <3>2. state' = "ready" => state = "ready"
      BY <3>1
    <3> QED BY <3>1, <3>2
  <2> QED BY <2>2, <2>3
<1> QED BY <1>1, <1>2 DEF OpenGeneration

\* A ready projection stays complete while nothing is installed and nothing opened.
LEMMA ReadyStep ==
  ReadyInv /\ [Next]_vars /\ NoneInstalled /\ NoneOpened => ReadyInv'
<1> SUFFICES ASSUME ReadyInv, [Next]_vars, NoneInstalled, NoneOpened PROVE ReadyInv'
  OBVIOUS
<1>1. KeepInv'
  BY KeepStep DEF ReadyInv
<1> DEFINE Rest == ReadyKnowsAll' /\ ReadAll' /\ StagedAll'
<1> SUFFICES Rest
  BY <1>1 DEF ReadyInv
<1> USE DEF ReadyInv, ReadyKnowsAll, ReadAll, StagedAll, NoneInstalled, NoneOpened, Of,
            world, worker, registry
<1>2. ASSUME UNCHANGED <<pass, live, staging, state>> PROVE Rest
  BY <1>2
<1>3. CASE Drain
  BY <1>3, <1>2 DEF Drain
<1>4. ASSUME NEW r \in Repo, StartPass(r) PROVE Rest
  BY <1>4 DEF StartPass
<1>5. ASSUME NEW r \in Repo, ReadTriggers(r) PROVE Rest
  <2>1. /\ pass'.read = Of(open, {r}) /\ pass'.repo = {r}
        /\ UNCHANGED <<world, live, staging, state>>
    BY <1>5 DEF ReadTriggers, KeepInv, TypeOK
  <2> QED BY <2>1
<1>6. ASSUME NEW r \in Repo, PublishContexts(r) PROVE Rest
  <2>1. /\ pass.at = "publishing" /\ pass.repo = {r} /\ ReplaceRepo(r, pass.read)
        /\ pass'.at = "finishing" /\ UNCHANGED world
    BY <1>6 DEF PublishContexts, KeepInv, TypeOK
  <2> QED BY <2>1, ReplaceCompletes
<1>7. ASSUME NEW r \in Repo, FinishPass(r) PROVE Rest
  BY <1>7 DEF FinishPass, Idle
<1>8. ASSUME Degrade \/ OpenGeneration, UNCHANGED world, UNCHANGED pass \/ pass' = Idle PROVE Rest
  BY <1>8, GenerationCompletes DEF Idle
<1>9. ASSUME NEW r \in Repo, FailPass(r) PROVE Rest
  <2>1. pass' = Idle /\ UNCHANGED world /\ (Degrade \/ UNCHANGED registry)
    BY <1>9 DEF FailPass, RecordRepoFailure
  <2>2. CASE Degrade
    BY <1>8, <2>1, <2>2
  <2>3. CASE UNCHANGED registry
    BY <2>1, <2>3 DEF Idle
  <2> QED BY <2>1, <2>2, <2>3
<1>10. CASE Enumerate
  BY <1>10, <1>2 DEF Enumerate
<1>11. CASE OpenGeneration
  BY <1>8, <1>11 DEF OpenGeneration
<1>12. CASE ResyncDone
  BY <1>12, <1>2 DEF ResyncDone
<1>13. ASSUME NEW r \in Repo, Feed(r) PROVE Rest
  BY <1>13, <1>2 DEF Feed
<1>14. CASE Sweep
  BY <1>14, <1>2 DEF Sweep
<1>15. CASE Abort
  BY <1>15 DEF Abort, Idle
<1>16. CASE Acquire
  BY <1>16, <1>2 DEF Acquire
<1>17. ASSUME NEW r \in Repo, Hint(r) \/ Uninstall(r) \/ Install(r) \/ Disable(r) PROVE Rest
  BY <1>17, <1>2 DEF Hint, Uninstall, Install, Disable
<1>18. ASSUME NEW s \in Session, OpenSession(s) \/ CloseSession(s) PROVE Rest
  BY <1>18, <1>2 DEF OpenSession, CloseSession
<1>19. CASE UNCHANGED vars
  BY <1>19, <1>2 DEF vars
<1> QED
  BY <1>3, <1>4, <1>5, <1>6, <1>7, <1>9, <1>10, <1>11, <1>12, <1>13, <1>14, <1>15, <1>16, <1>17,
     <1>18, <1>19 DEF Next, PassStep, ResyncStep

\* A ready projection (RegistryState) knows every open session of an installed
\* repository, whichever faults, aborted generations, failed repositories and
\* closed sessions came before, as long as no session is opened and no repository
\* installed after the process began: those are known once their repository has
\* been reconciled.
THEOREM ReadyIsComplete ==
  Spec /\ [][NoneInstalled /\ NoneOpened]_vars => []ProjectionSafe
<1>1. Init => ReadyInv
  BY KeepInit DEF Init, ReadyInv, ReadyKnowsAll, ReadAll, StagedAll, Idle, NoStaging
<1>2. ReadyInv /\ [Next]_vars /\ [NoneInstalled /\ NoneOpened]_vars => ReadyInv'
  <2> SUFFICES ASSUME ReadyInv, [Next]_vars, [NoneInstalled /\ NoneOpened]_vars
               PROVE  ReadyInv'
    OBVIOUS
  <2>1. NoneInstalled /\ NoneOpened
    BY DEF NoneInstalled, NoneOpened, vars, world
  <2> QED BY <2>1, ReadyStep
<1>3. ReadyInv => ProjectionSafe
  BY DEF ReadyInv, KeepInv, ProjectionSafe
<1> QED BY <1>1, <1>2, <1>3, PTL DEF Spec
=============================================================================
