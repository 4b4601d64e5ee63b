---------------------------- MODULE MC_Services -----------------------------
(* A small instance of the services.                                         *)
EXTENDS Services, TLC

\* A repository, by id, spelling and ref.
Ref(id, sp, ref) == [id |-> id, spelling |-> sp, ref |-> ref]

\* Two refs of one repository, and another spelling of it.
PodRefs == <<Ref(1, "a", "v1"), Ref(1, "a", "v2"), Ref(1, "A", "v1")>>
PodGrants ==
  <<Ref(1, "A", "v1"), Ref(1, "a", "dev"), Ref(2, "a", "main"), Ref(1, "A", "dev")>>
PodLifecycle == Ref(2, "a", "main")

\* Contents of an environment profile: public part and secret part.
FewSpecs == {[pub |-> 1, sec |-> 1], [pub |-> 2, sec |-> 2]}
AllSpecs == [pub : {1, 2}, sec : {1, 2}]
Legacy == {[pub |-> 1, sec |-> 1]}
MaybeLegacy == Legacy \cup {None}

\* The rows of the activity instance, and what is asked.
ActivityRows ==
  [r \in 1..3 |-> [ts |-> IF r = 3 THEN 2 ELSE 1, actor |-> 1, session |-> 1, life |-> r = 3]]
Query(session, kind) ==
  [scope |-> "mine", viewer |-> 1, session |-> session, kind |-> kind, explicit |-> None]
Queries == {Query(None, "api"), Query(1, "all")}

\* The listing calls of the GitHub client; the other instance makes the rest.
Listings == {"list", "admins", "installs", "repos", "open", "count"}
Others == {"comment", "assign", "add", "remove", "close", "recent", "labels", "comments",
           "role", "contents", "create", "ensure"}

\* The profile store: the single object, its migration by two processes, the pair.
ProfileParts ==
  "envdurable" :> [Procs |-> {1}, Requests |-> {1, 2}, Specs |-> FewSpecs,
     Durable |-> TRUE, Legacy |-> MaybeLegacy, MaxPerUser |-> 1,
     MaxConcurrent |-> 1, MaxInFlight |-> 2, MaxFaults |-> 1] @@
  "envmigrate" :> [Procs |-> {1, 2}, Requests |-> {1}, Specs |-> FewSpecs,
     Durable |-> TRUE, Legacy |-> Legacy, MaxPerUser |-> 1,
     MaxConcurrent |-> 1, MaxInFlight |-> 1, MaxFaults |-> 2] @@
  "envpair" :> [Procs |-> {1}, Requests |-> {1, 2}, Specs |-> AllSpecs,
     Durable |-> FALSE, Legacy |-> MaybeLegacy, MaxPerUser |-> 1,
     MaxConcurrent |-> 1, MaxInFlight |-> 1, MaxFaults |-> 1]

\* One walk with a malformed row, and two walks of one principal.
WalkParts ==
  "activity" :> [Rows |-> {1, 2, 3}, Row |-> ActivityRows, Walks |-> {1},
     Viewer |-> <<1>>, Queries |-> Queries, Malformed |-> {3},
     Unreadable |-> {}, Limit |-> 1, MaxReadRows |-> 9, GlobalLimit |-> 1,
     PerPrincipalLimit |-> 1, Landed |-> {1, 2}, Span |-> 3, MaxNow |-> 3,
     MaxFaults |-> 1] @@
  "walks" :> [Rows |-> {1, 2}, Row |-> [r \in {1, 2} |-> ActivityRows[r]],
     Walks |-> {1, 2}, Viewer |-> <<1, 1>>, Queries |-> {Query(None, "api")},
     Malformed |-> {}, Unreadable |-> {}, Limit |-> 1, MaxReadRows |-> 9,
     GlobalLimit |-> 1, PerPrincipalLimit |-> 1, Landed |-> {1, 2}, Span |-> 3,
     MaxNow |-> 3, MaxFaults |-> 1]

\* The listing calls of the client, and its other calls.
ClientParts ==
  "listings" :> [Num |-> {1, 2, 3}, Pulls |-> {2},
     Collaborators |-> <<1, 2, 1>>, Platform |-> <<"a", "b">>, PerPage |-> 1,
     MaxPages |-> 2, Calls |-> Listings, MaxCalls |-> 1, MaxComments |-> 0,
     MaxEdits |-> 2, MaxFaults |-> 1] @@
  "calls" :> [Num |-> {1}, Pulls |-> {}, Collaborators |-> <<1, 2, 1>>,
     Platform |-> <<"a", "b">>, PerPage |-> 1, MaxPages |-> 2,
     Calls |-> Others, MaxCalls |-> 2, MaxComments |-> 3, MaxEdits |-> 1,
     MaxFaults |-> 1]

\* Three turns of two users, and one turn with every chunk.
ChatParts ==
  "admission" :> [Turns |-> {1, 2, 3}, User |-> <<1, 1, 2>>,
     MaxConcurrent |-> 1, MaxRounds |-> 1, Buffer |-> 1, Chunks |-> {},
     MaxChunks |-> 0, Defects |-> {"none"},
     Tools |-> {"get_environment_profile", "draft_environment_profile", "nonesuch"},
     Impatient |-> {3}] @@
  "turn" :> [Turns |-> {1}, User |-> <<1>>, MaxConcurrent |-> 1,
     MaxRounds |-> 2, Buffer |-> 1,
     Chunks |-> {"text", "name", "args", "tool_calls", "bad"}, MaxChunks |-> 3,
     Defects |-> {"none", "clash"},
     Tools |-> {"get_environment_profile", "draft_environment_profile", "nonesuch"},
     Impatient |-> {}]
=============================================================================
