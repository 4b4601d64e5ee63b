---------------------------- MODULE AuditOutbox ----------------------------
(* What the durable audit path promises of one record, whatever crashes, is    *)
(* retried or arrives late: its outcome is decided once, and the relay forgets *)
(* it only after the analytics store has shown it.                             *)
CONSTANTS Event, Outcome

VARIABLES
  record,  \* "none", "open" or the outcome of each record
  shown,   \* records the analytics store can be asked for
  kept     \* records the relay has not deleted

vars == <<record, shown, kept>>

Init ==
  /\ record = [e \in Event |-> "none"]
  /\ shown = {} /\ kept = Event

Open(e) ==
  /\ record[e] = "none" /\ e \in kept
  /\ record' = [record EXCEPT ![e] = "open"]
  /\ UNCHANGED <<shown, kept>>

Decide(e, o) ==
  /\ record[e] \in {"none", "open"} /\ e \in kept
  /\ record' = [record EXCEPT ![e] = o]
  /\ UNCHANGED <<shown, kept>>

Show(e) ==
  /\ record[e] \in Outcome
  /\ shown' = shown \cup {e}
  /\ UNCHANGED <<record, kept>>

Forget(S) ==
  /\ S \subseteq shown
  /\ kept' = kept \ S
  /\ UNCHANGED <<record, shown>>

Next ==
  \/ \E e \in Event : Open(e) \/ Show(e) \/ \E o \in Outcome : Decide(e, o)
  \/ \E S \in SUBSET Event : Forget(S)

Spec == Init /\ [][Next]_vars
=============================================================================
