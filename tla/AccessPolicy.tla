---------------------------- MODULE AccessPolicy ----------------------------
(* Who may do what with a session: the deployment gate of access_policy.rs, the *)
(* capability tiers of session_access/policy.rs, and the scopes and rows of the *)
(* operations surfaces (viewer.rs, gate.rs, activity.rs, sandboxes.rs).         *)
(*                                                                              *)
(* Lists name people by numeric id or by login, and logins change hands while   *)
(* the lists stay as they are. A text is its normalised form: trimmed, without  *)
(* the leading @, in lower case. All-digit logins exist.                        *)
EXTENDS Naturals, FiniteSets

CONSTANTS
  User,           \* GitHub ids
  Text,           \* normalised list entries and logins, [digits, value]
  Unset,          \* a list that is not configured
  Deployment,     \* configurations: entries, blocked, mode, admins, legacy
  Session         \* facts of a session: creator, collaborators, log_access

VARIABLES
  login,      \* [User -> Text], the logins of the moment
  policy,     \* the configuration of the deployment, as loaded
  facts,      \* the projected facts of the session
  registry    \* readiness of the projection, and whether it holds the session

vars == <<login, policy, facts, registry>>

Blank == [digits |-> FALSE, value |-> 0]
Capabilities == {"operations_visibility", "log_download", "observe", "work_authority"}
Listed(list) == IF list = Unset THEN {} ELSE list

----------------------------------------------------------------------------
(* The deployment gate                                                      *)

\* Mutant: one namespace for ids and logins.
EntryMatchesEither(entry, u) ==
  entry # Blank /\ (entry = login[u] \/ entry = [digits |-> TRUE, value |-> u])

\* An all-digit entry is an id and never a login.
EntryMatches(entry, u) ==
  /\ entry # Blank
  /\ IF entry.digits THEN entry.value = u ELSE entry = login[u]

MatchesAny(list, u) == \E entry \in list : EntryMatches(entry, u)

EffectiveModel(p) ==
  IF p.mode # "none" THEN p.mode
  ELSE IF p.blocked # Unset THEN "denylist"
  ELSE IF p.entries # Unset THEN "allowlist" ELSE "open"

\* The configurations the process starts with.
FromVars(p) ==
  /\ ~(p.mode = "none" /\ p.entries # Unset /\ p.blocked # Unset)
  /\ ~(EffectiveModel(p) = "denylist" /\ p.blocked # Unset /\ p.blocked \subseteq {Blank})

IsGlobalAdmin(u) == MatchesAny(policy.admins, u)

Allows(u) ==
  \/ IsGlobalAdmin(u)
  \/ CASE EffectiveModel(policy) \in {"open", "all"} -> TRUE
       [] EffectiveModel(policy) = "allowlist" -> MatchesAny(Listed(policy.entries), u)
       [] EffectiveModel(policy) = "denylist" -> ~MatchesAny(Listed(policy.blocked), u)

----------------------------------------------------------------------------
(* The tiers of a session                                                   *)

\* A recorded id alone decides; the login is for assignees without one.
CreatorMatches(u) ==
  IF facts.creator.id # 0 THEN facts.creator.id = u
  ELSE facts.creator.login # Blank /\ facts.creator.login = login[u]

\* The tiers in the order in which they are tried; "none" is a denial. The App
\* is a system principal of its own and not a user of this model.
Basis(order) ==
  LET hits == {i \in DOMAIN order : order[i][2]} IN
  IF hits = {} THEN "none" ELSE order[CHOOSE i \in hits : \A j \in hits : i <= j][1]

AdminTier(u, admin) == <<"global_admin", admin /\ IsGlobalAdmin(u)>>
CreatorTier(u) == <<"creator", CreatorMatches(u)>>
CollaboratorTier(u) == <<"collaborator", MatchesAny(facts.collaborators, u)>>
LogTiers(u) == << <<"log_access", MatchesAny(facts.log_access, u)>>,
                  <<"legacy_log_admin", MatchesAny(policy.legacy, u)>> >>

Decide(capability, u, admin) ==
  IF ~Allows(u) THEN "none"
  ELSE CASE capability = "operations_visibility" ->
              Basis(<<AdminTier(u, admin), CreatorTier(u), CollaboratorTier(u),
                      LogTiers(u)[1], LogTiers(u)[2]>>)
         [] capability \in {"log_download", "observe"} ->
              Basis(<<AdminTier(u, admin), CreatorTier(u), LogTiers(u)[1], LogTiers(u)[2]>>)
         [] capability = "work_authority" ->
              Basis(<<CreatorTier(u), AdminTier(u, admin), CollaboratorTier(u)>>)

----------------------------------------------------------------------------
(* The operations surfaces                                                  *)

Requests == [requested : {"omitted", "personal", "global"}, cross : BOOLEAN]

\* Mutant: the filter is checked in the global scope only.
ResolveScopeLate(u, q) ==
  IF q.requested = "global" /\ ~IsGlobalAdmin(u) THEN "forbidden"
  ELSE IF q.requested = "global" \/ (q.requested = "omitted" /\ IsGlobalAdmin(u)) THEN "all"
  ELSE "mine"

ResolveScope(u, q) ==
  IF (q.cross \/ q.requested = "global") /\ ~IsGlobalAdmin(u) THEN "forbidden"
  ELSE IF q.requested = "global" \/ (q.requested = "omitted" /\ IsGlobalAdmin(u)) THEN "all"
  ELSE "mine"

\* authorize_session_visibility.
Visibility(u, scope) ==
  IF ~registry.ready THEN "unavailable"
  ELSE IF registry.known /\ Decide("operations_visibility", u, scope = "all") # "none"
       THEN "visible"
  ELSE "not_found"

\* The rows a constraint lets through: requests by their actor (0 is nobody), and
\* the lifecycle rows of the session when it was asked for and is visible.
Rows(u, scope, asked) ==
  IF scope = "all" THEN [kind : {"request"}, actor : User \cup {0}] \cup {[kind |-> "lifecycle"]}
  ELSE {[kind |-> "request", actor |-> u]}
       \cup (IF asked /\ Visibility(u, scope) = "visible" THEN {[kind |-> "lifecycle"]} ELSE {})

\* What one request of the activity view answers.
Answer(u, q, asked) ==
  IF ~Allows(u) \/ ResolveScope(u, q) = "forbidden" THEN [status |-> "forbidden", rows |-> {}]
  ELSE IF asked /\ ResolveScope(u, q) = "mine" /\ Visibility(u, "mine") # "visible"
       THEN [status |-> Visibility(u, ResolveScope(u, q)), rows |-> {}]
  ELSE [status |-> "ok", rows |-> Rows(u, ResolveScope(u, q), asked)]

\* A runtime of the inventory carries the stamp of the session, or none that can
\* be looked up. The filter names the session; only the personal scope is gated.
Runtimes == {"stamped", "orphan"}
DecideRow(u, scope, runtime) ==
  scope = "all" \/ (runtime = "stamped" /\ Visibility(u, "mine") = "visible")

Inventory(u, q, asked) ==
  LET scope == ResolveScope(u, [q EXCEPT !.cross = FALSE]) IN
  IF ~Allows(u) \/ scope = "forbidden" THEN [status |-> "forbidden", rows |-> {}]
  ELSE IF scope = "mine" /\ asked /\ Visibility(u, scope) # "visible"
       THEN [status |-> Visibility(u, scope), rows |-> {}]
  ELSE IF scope = "mine" /\ ~registry.ready THEN [status |-> "unavailable", rows |-> {}]
  ELSE [status |-> "ok",
        rows |-> {r \in Runtimes : DecideRow(u, scope, r) /\ (asked => r = "stamped")}]

----------------------------------------------------------------------------
Init ==
  /\ login \in {f \in [User -> Text \ {Blank}] : \A u, v \in User : f[u] = f[v] => u = v}
  /\ policy \in {p \in Deployment : FromVars(p)}
  /\ facts \in Session
  /\ registry = [ready |-> FALSE, known |-> FALSE]

\* An account is renamed. The old login is free to take.
Rename(u, l) ==
  /\ l \in Text \ {Blank} /\ \A v \in User : login[v] # l
  /\ login' = [login EXCEPT ![u] = l]
  /\ UNCHANGED <<policy, facts, registry>>

Publish(known) ==
  /\ registry' = [ready |-> TRUE, known |-> known]
  /\ UNCHANGED <<login, policy, facts>>

Next ==
  \/ \E u \in User, l \in Text : Rename(u, l)
  \/ \E known \in BOOLEAN : Publish(known)

Spec == Init /\ [][Next]_vars

----------------------------------------------------------------------------
(* Properties                                                               *)

\* The state has its type, and the configuration is one the process accepts: two
\* lists are never set without a model that says which one counts (access_policy.rs,
\* from_vars). An explicit FKST_AUTH_MODEL leaves the other list without effect;
\* main.rs only logs a warning of it.
TypeOK ==
  /\ login \in [User -> Text] /\ policy \in Deployment /\ facts \in Session
  /\ registry \in [ready : BOOLEAN, known : BOOLEAN]
  /\ policy.mode = "none" => policy.entries = Unset \/ policy.blocked = Unset

\* Whoever the deployment does not admit has no capability and no row, even as
\* the creator or by a log grant (policy.rs, "The deployment gate applies to every
\* capability").
OutsiderHasNothing ==
  \A u \in User : ~Allows(u) =>
    /\ \A capability \in Capabilities, admin \in BOOLEAN : Decide(capability, u, admin) = "none"
    /\ \A q \in Requests, asked \in BOOLEAN :
         Answer(u, q, asked).rows = {} /\ Inventory(u, q, asked).rows = {}

\* Rights that rest on ids alone do not move when logins change hands: not to the
\* account that takes the old login, nor to one whose login looks like the id.
ByIdOnly(list) == \A entry \in list : entry = Blank \/ entry.digits
RightsFollowTheIdStep ==
   /\ facts.creator.id # 0
   /\ \A list \in {Listed(policy.entries), Listed(policy.blocked), policy.admins,
                   policy.legacy, facts.collaborators, facts.log_access} : ByIdOnly(list)
   => \A u \in User, capability \in Capabilities :
        Decide(capability, u, TRUE)' = Decide(capability, u, TRUE) 
RightsFollowTheId == [][RightsFollowTheIdStep]_vars

\* Whatever is asked, a caller who is no administrator is answered with rows of
\* their own, and nobody else's; the omitted scope never widens it (activity.rs).
\* The inventory and the exact probe agree: a runtime is listed for them when and
\* only when its session may be probed, and an orphan never is (authorize.rs).
OnlyOwnRows ==
  \A u \in User : ~IsGlobalAdmin(u) =>
    \A q \in Requests, asked \in BOOLEAN :
      /\ \A row \in Answer(u, q, asked).rows : row.kind = "request" => row.actor = u
      /\ q.cross => Answer(u, q, asked).rows = {}
      /\ "orphan" \notin Inventory(u, q, asked).rows
      /\ "stamped" \in Inventory(u, q, asked).rows <=>
           q.requested # "global" /\ Allows(u) /\ Visibility(u, "mine") = "visible"

\* A probe for one session cannot tell a foreign session from one that does not
\* exist (gate.rs): an answer other than "visible" is the same for both.
NoExistenceOracleStep ==
   \A u \in User : registry.ready =>
     LET here == Visibility(u, "mine") IN
     (here # "visible" /\ Visibility(u, "mine")' # "visible") =>
       Visibility(u, "mine")' = here 
NoExistenceOracle == [][NoExistenceOracleStep]_vars

\* What holds of every deployment and session.
AccessSafe == TypeOK /\ OutsiderHasNothing /\ OnlyOwnRows
=============================================================================
