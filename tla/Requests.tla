------------------------------ MODULE Requests ------------------------------
(* The hand-off of session requests, the access policy and the cron calendar.*)
(* They share no state, so a behaviour moves one of them and leaves the      *)
(* others out: part names it.                                                *)
EXTENDS SessionRequests

CONSTANTS
  Account, Text, Unset, Deployment, Session,   \* of the access policy
  Exprs, Starts, Steps                         \* of the calendar

VARIABLES
  part,         \* the component that moves in this behaviour
  login, policy, facts, aRegistry, text, expr, clock, fired

A == INSTANCE AccessPolicy WITH User <- Account, registry <- aRegistry
C == INSTANCE Cron

requestsVars == <<issue, closedHooks, call, registry, seed, wanted, pass, sandbox>>
accessVars == <<login, policy, facts, aRegistry>>
cronVars == <<text, expr, clock, fired>>

\* A component that does not move has no state.
accessOff ==
  login = 0 /\ policy = 0 /\ facts = 0 /\ aRegistry = 0
cronOff ==
  text = 0 /\ expr = 0 /\ clock = 0 /\ fired = 0

PartInit ==
  /\ part \in {"requests", "access", "cron"}
  /\ Init
  /\ IF part = "access" THEN A!Init ELSE accessOff
  /\ IF part = "cron" THEN C!Init ELSE cronOff

PartNext ==
  \/ /\ part = "requests" /\ Next
     /\ UNCHANGED <<part, accessVars, cronVars>>
  \/ /\ part = "access" /\ A!Next
     /\ UNCHANGED <<part, requestsVars, cronVars>>
  \/ /\ part = "cron" /\ C!Next
     /\ UNCHANGED <<part, requestsVars, accessVars>>

allVars ==
  <<part, requestsVars, accessVars, cronVars>>

PartSpec == PartInit /\ [][PartNext]_allVars

-----------------------------------------------------------------------------
\* An outsider has no capability and no row, and nobody but an administrator
\* sees rows of others.
AccessSafe == part = "access" => A!AccessSafe

\* The two searches agree, an expression that fires is found to fire, days
\* match by the standard rule, and the cadence guard is sound for the
\* instance.
CronSafe == part = "cron" => C!CronSafe

\* A one-time environment is forgotten only for a reason; rights that rest on
\* ids do not move with a login, and a probe does not tell a foreign session
\* from one that does not exist.
CarefulSteps ==
  [][/\ part = "requests" => ForgottenForAReasonStep
     /\ part = "access" => A!RightsFollowTheIdStep /\ A!NoExistenceOracleStep]_allVars
=============================================================================
