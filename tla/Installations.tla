---------------------------- MODULE Installations ----------------------------
(* The App's view of where it is installed: the two caches of github_app/mod.rs  *)
(* (repository to installation, repository set to token), the calls that fill    *)
(* them while GitHub changes, and the webhook that empties them                  *)
(* (routes/github_app_webhook). All repositories here have one owner. A step     *)
(* ends where the code awaits an answer of GitHub.                               *)
EXTENDS Naturals, Sequences, SequencesExt, FiniteSets

CONSTANTS
  Repo,
  Caller,
  Scope,       \* [Caller -> repository sequence], lifecycle repository first
  MaxChanges   \* bound: installs

VARIABLES
  inst,        \* GitHub: installation that covers the repository, 0 for none
  ids,         \* installation ids handed out
  hooks,       \* repositories whose removal is not delivered yet
  instCache,   \* installation_cache; 0: no entry, or one past its expiry
  tokCache,    \* token_cache, by repository set: tokens with more than EXPIRY_BUFFER left
  call,        \* the calls under way
  clean        \* repositories evicted while no call was using them, unchanged since

vars == <<inst, ids, hooks, instCache, tokCache, call, clean>>
caches == <<instCache, tokCache>>
outside == <<inst, ids, hooks>>

NoToken == [repos |-> {}, id |-> 0]
NoCall == [at |-> "idle", next |-> 0, id |-> 0, got |-> 0, retried |-> FALSE]

\* TokenKey: the whole repository set (permissions are a second part of the key).
TokenKey(scope) == ToSet(scope)
Keys == {TokenKey(Scope[c]) : c \in Caller}

----------------------------------------------------------------------------
(* token_with_expiry_inner                                                  *)

Finish(c) == call' = [call EXCEPT ![c] = NoCall]

\* A cached token with more than EXPIRY_BUFFER left is served unless forced.
Begin(c, forced) ==
  /\ call[c].at = "idle"
  /\ forced \/ tokCache[TokenKey(Scope[c])] = NoToken
  /\ call' = [call EXCEPT ![c] = [NoCall EXCEPT !.at = "resolve", !.next = 1]]
  /\ UNCHANGED <<caches, clean, outside>>

\* One more repository is resolved: the set must share one installation.
Resolved(c, id) ==
  LET k == call[c] IN
  IF k.id # 0 /\ k.id # id THEN Finish(c)
  ELSE call' = [call EXCEPT ![c] = [k EXCEPT !.id = id, !.got = 0, !.next = k.next + 1,
                     !.at = IF k.next = Len(Scope[c]) THEN "mint" ELSE "resolve"]]

\* resolve_installation: from the cache, or the probe goes out.
Resolve(c) ==
  LET r == Scope[c][call[c].next] IN
  /\ call[c].at = "resolve"
  /\ IF instCache[r] # 0 THEN Resolved(c, instCache[r])
     ELSE call' = [call EXCEPT ![c].at = "probed", ![c].got = inst[r]]
  /\ UNCHANGED <<caches, clean, outside>>

\* The answer of the probe arrives and is cached.
CacheInstallation(c) ==
  LET r == Scope[c][call[c].next] IN
  /\ call[c].at = "probed"
  /\ IF call[c].got = 0
     THEN Finish(c) /\ UNCHANGED instCache
     ELSE instCache' = [instCache EXCEPT ![r] = call[c].got] /\ Resolved(c, call[c].got)
  /\ UNCHANGED <<tokCache, clean, outside>>

\* What POST access_tokens answers: 404, 422 or a token.
CreateInstallationToken(id, scope) ==
  IF \A r \in Repo : inst[r] # id THEN "gone"
  ELSE IF \E r \in ToSet(scope) : inst[r] # id THEN "rejected" ELSE "ok"

MintToken(c) ==
  LET k == call[c]
      a == CreateInstallationToken(k.id, Scope[c]) IN
  /\ k.at = "mint"
  /\ call' = [call EXCEPT ![c] = [k EXCEPT !.at = a, !.next = 0, !.id = IF a = "ok" THEN k.id ELSE 0]]
  /\ UNCHANGED <<caches, clean, outside>>

\* Mutant: only the repository a token was first asked for drops it.
InvalidateFirst(rs) ==
  /\ tokCache' = [k \in Keys |-> IF \E c \in Caller : TokenKey(Scope[c]) = k /\ Scope[c][1] \in rs
                                 THEN NoToken ELSE tokCache[k]]
  /\ instCache' = [r \in Repo |-> IF r \in rs THEN 0 ELSE instCache[r]]

\* invalidate_caches_for_repo, of each of rs: every token that covers it.
Invalidate(rs) ==
  /\ tokCache' = [k \in Keys |-> IF k \cap rs # {} THEN NoToken ELSE tokCache[k]]
  /\ instCache' = [r \in Repo |-> IF r \in rs THEN 0 ELSE instCache[r]]

\* InstallationGone: both caches are dropped and the call starts over, once.
InstallationGone(c) ==
  LET k == call[c] IN
  /\ k.at = "gone"
  /\ IF k.retried THEN Finish(c) /\ UNCHANGED caches
     ELSE /\ Invalidate(ToSet(Scope[c]))
          /\ call' = [call EXCEPT ![c] = [NoCall EXCEPT !.at = "resolve", !.next = 1, !.retried = TRUE]]
  /\ UNCHANGED <<clean, outside>>

TokenRejected(c) ==
  /\ call[c].at = "rejected"
  /\ Finish(c)
  /\ UNCHANGED <<caches, clean, outside>>

StoreToken(c) ==
  LET token == [repos |-> ToSet(Scope[c]), id |-> call[c].id] IN
  /\ call[c].at = "ok"
  /\ tokCache' = [tokCache EXCEPT ![TokenKey(Scope[c])] = token]
  /\ Finish(c)
  /\ UNCHANGED <<instCache, clean, outside>>

----------------------------------------------------------------------------
(* Time and the webhook                                                     *)

\* A token comes within EXPIRY_BUFFER of its end.
TokenAges(k) ==
  /\ tokCache[k] # NoToken /\ tokCache' = [tokCache EXCEPT ![k] = NoToken]
  /\ UNCHANGED <<instCache, call, clean, outside>>

\* An entry of the installation cache is past its jittered TTL.
EntryExpires(r) ==
  /\ instCache[r] # 0 /\ instCache' = [instCache EXCEPT ![r] = 0]
  /\ UNCHANGED <<tokCache, call, clean, outside>>

Unused(rs) == \A c \in Caller : call[c].at # "idle" => ToSet(Scope[c]) \cap rs = {}

\* evict_repo of each, or evict_owner when the event names none.
Evict(rs) ==
  /\ Invalidate(rs)
  /\ clean' = IF Unused(rs) THEN clean \cup rs ELSE clean

\* handle_installation and handle_installation_repositories: what was removed or
\* suspended is evicted, at once, late or never, by name or with its owner; a
\* reinstall needs nothing.
Handle(hook) ==
  /\ hook # {} /\ hook \subseteq hooks /\ (Cardinality(hook) = 1 \/ hook = Repo)
  /\ hooks' = hooks \ hook /\ Evict(hook)
  /\ UNCHANGED <<inst, ids, call>>

----------------------------------------------------------------------------
(* GitHub                                                                   *)

\* The App is installed on rs under a new id, or rs is added to one that lives.
Install(rs, id) ==
  /\ ids < MaxChanges /\ \A r \in rs : inst[r] = 0
  /\ id = ids + 1 \/ \E r \in Repo : inst[r] = id
  /\ inst' = [r \in Repo |-> IF r \in rs THEN id ELSE inst[r]]
  /\ ids' = ids + 1 /\ clean' = clean \ rs
  /\ UNCHANGED <<hooks, caches, call>>

\* Repositories are taken out, or the installation is deleted or suspended.
Uninstall(rs) ==
  /\ \A r \in rs : inst[r] # 0
  /\ inst' = [r \in Repo |-> IF r \in rs THEN 0 ELSE inst[r]]
  /\ hooks' = hooks \cup rs
  /\ clean' = clean \ rs
  /\ UNCHANGED <<ids, caches, call>>

Init ==
  /\ inst = [r \in Repo |-> 0] /\ ids = 0 /\ hooks = {}
  /\ instCache = [r \in Repo |-> 0] /\ tokCache = [k \in Keys |-> NoToken]
  /\ call = [c \in Caller |-> NoCall]
  /\ clean = {}

Advance(c) ==
  \/ Resolve(c) \/ CacheInstallation(c) \/ MintToken(c) \/ InstallationGone(c)
  \/ TokenRejected(c) \/ StoreToken(c)

Next ==
  \/ \E c \in Caller :
       Advance(c) \/ \E forced \in BOOLEAN : Begin(c, forced)
  \/ \E k \in Keys : TokenAges(k)
  \/ \E r \in Repo : EntryExpires(r)
  \/ \E hook \in SUBSET hooks : Handle(hook)
  \/ \E rs \in (SUBSET Repo) \ {{}} :
       Uninstall(rs) \/ \E id \in 1..MaxChanges : Install(rs, id)

Spec == Init /\ [][Next]_vars

\* Calls are answered and clocks run.
FairSpec ==
  /\ Spec
  /\ \A c \in Caller : WF_vars(Advance(c))
  /\ \A k \in Keys : WF_vars(TokenAges(k))
  /\ \A r \in Repo : WF_vars(EntryExpires(r))

----------------------------------------------------------------------------
(* Properties                                                               *)

\* The state has its type; a token is asked of an installation that once was.
TypeOK ==
  /\ inst \in [Repo -> 0..MaxChanges] /\ ids \in 0..MaxChanges
  /\ instCache \in [Repo -> 0..MaxChanges] /\ clean \subseteq Repo
  /\ \A k \in Keys : tokCache[k].id \in 0..MaxChanges
  /\ \A c \in Caller : call[c].at \in {"idle", "resolve", "probed", "mint", "ok", "gone", "rejected"}
  /\ \A c \in Caller : call[c].at \in {"mint", "ok"} => call[c].id \in 1..MaxChanges

\* Whatever a caller finds in the cache is a token for exactly the repositories it
\* asks for.
ServedIsAsked ==
  \A k \in Keys : tokCache[k] # NoToken => tokCache[k].repos = k

\* Once an eviction met no call under way, neither cache holds anything of the
\* repository that GitHub no longer stands by, until GitHub changes again.
EvictionHolds ==
  \A r \in clean :
    /\ instCache[r] \in {0, inst[r]}
    /\ \A k \in Keys : r \in k /\ tokCache[k] # NoToken => tokCache[k].id = inst[r]

Right ==
  /\ \A r \in Repo : instCache[r] \in {0, inst[r]}
  /\ \A k \in Keys, r \in Repo :
       r \in k /\ tokCache[k] # NoToken => tokCache[k].id = inst[r]
  /\ \A c \in Caller :
       call[c].at \in {"gone", "rejected"}
         => \A id \in 1..MaxChanges : \E r \in ToSet(Scope[c]) : inst[r] # id

\* What holds of the caches at every state.
CachesSafe == TypeOK /\ ServedIsAsked /\ EvictionHolds
=============================================================================
