--------------------------- MODULE MC_AuditRelay ---------------------------
EXTENDS AuditRelay

CONSTANTS r1, r2

\* One request and one lifecycle event; the record of the request may be poison.
Mixed ==
  [mode : {"required"}, id : [{r1} -> {1}], version : [{r1} -> {"v1"}],
   nature : {<<"poison", "good">>, <<"good", "good">>}]

\* One request alone, in either mode and with a record that cannot be projected.
Alone ==
  [mode : {"required", "best_effort"}, id : [{r1} -> {1}], version : [{r1} -> {"v1"}],
   nature : [{1} -> {"good", "broken"}]]

\* Two requests that derive the same event id, at one version or at two.
Twins ==
  [mode : {"required"}, id : [{r1, r2} -> {1}],
   version : {[r \in {r1, r2} |-> IF r = r1 THEN "v1" ELSE v] : v \in Version},
   nature : [{1} -> {"good"}]]

\* No request, and two lifecycle events.
Burst ==
  [mode : {"required"}, id : {<<>>}, version : {<<>>}, nature : [1..2 -> {"good"}]]

MCReplies == [r \in Request |-> IF r = r1 THEN {"ok"} ELSE Status]

MCScenario == Mixed \cup Alone \cup Twins \cup Burst
=============================================================================
