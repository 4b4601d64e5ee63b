--------------------------- MODULE MC_Controllers ---------------------------
(* A small instance of the caches of the App client, of the feedback on work *)
(* issues, of one replica over many terms and of two that fail over.         *)
EXTENDS Controllers, TLC

\* The caches serve the lifecycle repository alone, and with another one.
Scopes == <<<<1>>, <<1, 2>>>>

\* Two sessions share a work label.
Creators == 1 :> "alice" @@ 2 :> "bob"
WatchedLabels == 1 :> {"a", "shared"} @@ 2 :> {"shared"}
CarriedLabels == 1 :> {"a", "shared"}
=============================================================================
