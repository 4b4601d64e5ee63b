------------------------ MODULE MC_SessionLifecycle ------------------------
(* Instances of SessionLifecycle for TLC.  Bodies "a" and "a2" differ only in  *)
(* what the launch hash leaves out; "bad" does not parse; "unlabelled" has no  *)
(* work label.  All bodies with a label share it, and one creator owns all     *)
(* issues, so two valid issues always collide.                                 *)
EXTENDS SessionLifecycle, TLC

Bodies == {"a", "a2", "b", "bad", "unlabelled"}

BodyLaunchHash == "a" :> "h1" @@ "a2" :> "h1" @@ "b" :> "h2" @@ "bad" :> "h3" @@ "unlabelled" :> "h4"

BodyWorkLabels == [c \in Bodies |-> IF c = "unlabelled" THEN {} ELSE {"queue"}]

OneCreator == [i \in Issue |-> "alice"]
=============================================================================
