------------------------ MODULE MC_SessionProjection ------------------------
(* Instances of SessionProjection for TLC: one session, in r1; r2 has none. *)
EXTENDS SessionProjection, TLC

OneHome == 1 :> "r1"
=============================================================================
