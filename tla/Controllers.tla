---------------------------- MODULE Controllers -----------------------------
(* The caches of the App client, the feedback on work issues, the worker     *)
(* generations of one replica over many terms and the failover between two.  *)
(* They share no state, so a behaviour moves one of them and leaves the      *)
(* others out: part names it.                                                *)
EXTENDS LeaderGenerations, Sequences

CONSTANTS
  Repo, Caller, Scope, MaxInstalls,               \* of the caches
  Session, Issue, Creator, Watches, Carries, Nobody, MaxWorkFaults, MaxEdits,
                                                  \* of the feedback
  Replica, FailoverFaults, MaxFailoverFaults, MaxFailoverTerms

VARIABLES
  part,         \* the component that moves in this behaviour
  inst, ids, hooks, instCache, tokCache, call, clean, open, pod, assignee,
  rejects, flags, said, regs, calls, phase, orphans, handled, wFaults,
  changes, g2Elected, g2Unseen, g2Term, g2Monitor, g2Joining, g2Gen, g2Target,
  g2Resync, g2Proven, g2Router, g2Label, g2Late, g2Faults

\* A deployment covers installations, and a call is for at least one repository.
ASSUME CachesAssumption ==
  /\ MaxInstalls \in Nat
  /\ Scope \in [Caller -> Seq(Repo) \ {<<>>}]

\* Sessions and issues have numbers; a session watches finitely many labels.
ASSUME WorkAssumption ==
  /\ Session \subseteq Nat \ {0} /\ 1 \in Session /\ Issue \subseteq Nat \ {0}
  /\ IsFiniteSet(UNION {Watches[s] : s \in Session})
  /\ MaxWorkFaults \in Nat /\ MaxEdits \in Nat

N == INSTANCE Installations WITH MaxChanges <- MaxInstalls
W == INSTANCE WorkIssues WITH
  MaxFaults <- MaxWorkFaults, MaxChanges <- MaxEdits, faults <- wFaults
G2 == INSTANCE LeaderGenerations WITH
  Proc <- Replica, Faults <- FailoverFaults, MaxFaults <- MaxFailoverFaults,
  MaxTerms <- MaxFailoverTerms, elected <- g2Elected, unseen <- g2Unseen,
  term <- g2Term, monitor <- g2Monitor, joining <- g2Joining, gen <- g2Gen,
  target <- g2Target, resync <- g2Resync, proven <- g2Proven,
  router <- g2Router, label <- g2Label, late <- g2Late, faults <- g2Faults

installationsVars == <<inst, ids, hooks, instCache, tokCache, call, clean>>
workVars == <<open, pod, assignee, rejects, flags, said, regs, calls, phase,
              orphans, handled, wFaults, changes>>
failoverVars == <<g2Elected, g2Unseen, g2Term, g2Monitor, g2Joining, g2Gen,
                  g2Target, g2Resync, g2Proven, g2Router, g2Label, g2Late,
                  g2Faults>>
generationVars == <<elected, unseen, term, monitor, joining, gen, target,
                    resync, proven, router, label, late, faults>>

\* A component that does not move has no state.
installationsOff ==
  inst = 0 /\ ids = 0 /\ hooks = 0 /\ instCache = 0 /\
  tokCache = 0 /\ call = 0 /\ clean = 0
workOff ==
  open = 0 /\ pod = 0 /\ assignee = 0 /\ rejects = 0 /\
  flags = 0 /\ said = 0 /\ regs = 0 /\ calls = 0 /\ phase = 0 /\
  orphans = 0 /\ handled = 0 /\ wFaults = 0 /\ changes = 0
failoverOff ==
  g2Elected = 0 /\ g2Unseen = 0 /\ g2Term = 0 /\
  g2Monitor = 0 /\ g2Joining = 0 /\ g2Gen = 0 /\ g2Target = 0 /\
  g2Resync = 0 /\ g2Proven = 0 /\ g2Router = 0 /\ g2Label = 0 /\ g2Late = 0 /\
  g2Faults = 0

PartInit ==
  /\ part \in {"installations", "work", "failover", "generation"}
  /\ IF part = "installations" THEN N!Init ELSE installationsOff
  /\ IF part = "work" THEN W!Init ELSE workOff
  /\ IF part = "failover" THEN G2!Init ELSE failoverOff
  /\ Init
  /\ part # "generation" => label = [p \in Proc |-> FALSE]

PartNext ==
  \/ /\ part = "installations" /\ N!Next
     /\ UNCHANGED <<part, workVars, failoverVars, generationVars>>
  \/ /\ part = "work" /\ W!Next
     /\ UNCHANGED <<part, installationsVars, failoverVars, generationVars>>
  \/ /\ part = "failover" /\ G2!Next
     /\ UNCHANGED <<part, installationsVars, workVars, generationVars>>
  \/ /\ part = "generation" /\ Next
     /\ UNCHANGED <<part, installationsVars, workVars, failoverVars>>

allVars ==
  <<part, installationsVars, workVars, failoverVars, generationVars>>

PartSpec == PartInit /\ [][PartNext]_allVars

\* The fairness of each component, of the one that moves.
PartFairSpec ==
  /\ PartSpec
  /\ \A c \in Caller : WF_installationsVars(part = "installations" /\ N!Advance(c))
  /\ \A k \in N!Keys : WF_installationsVars(part = "installations" /\ N!TokenAges(k))
  /\ \A r \in Repo : WF_installationsVars(part = "installations" /\ N!EntryExpires(r))
  /\ WF_workVars(part = "work" /\ W!PassStep)
  /\ \A s \in Session : WF_workVars(part = "work" /\ W!PodGone(s))
  /\ \A p \in Replica : WF_failoverVars(part = "failover" /\ G2!Supervision(p))
  /\ \A p \in Replica : WF_failoverVars(part = "failover" /\ G2!Generation(p))
  /\ \A p \in Replica : WF_failoverVars(part = "failover" /\ G2!Resync(p))
  /\ \A p \in Replica : WF_failoverVars(part = "failover" /\ G2!Router(p))
  /\ \A m \in G2!Patches : WF_failoverVars(part = "failover" /\ G2!LandPatch(m))

-----------------------------------------------------------------------------
\* A cached token is for what is asked, and an eviction that met no call in
\* flight leaves nothing stale.
CachesSafe == part = "installations" => N!CachesSafe

\* Notices on work issues are not repeated and retiring reaches all of them.
WorkSafe == part = "work" => W!WorkSafe

\* Failover (LeaderServiceRouter::reconcile): a replica that stays elected, alone,
\* ends up ready and the only one selected by the Service, whatever labels it
\* found, whichever patches failed or landed late, and however leadership
\* flapped or overlapped with another's before.
LeaderServes ==
  \A p \in Replica :
    <>[](part = "failover" /\ {q \in Replica : g2Elected[q]} = {p} => G2!Serves(p))

\* The caches end up agreeing with GitHub; the labels of the work issues end
\* up telling the truth, and a session with accepted work has a pod, a closed
\* one none.
ControllersConverge ==
  <>[](/\ part = "installations" => N!Right
       /\ part = "work" => (\A i \in Issue : W!Truthful(i)) /\ \A s \in Session : W!PodRight(s))
=============================================================================
