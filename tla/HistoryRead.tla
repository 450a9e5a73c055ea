---------------------------- MODULE HistoryRead ----------------------------
(***************************************************************************)
(* What relay.fetch_all promises the commands that reduce its answer: one  *)
(* read, seen from outside, of a channel that changes meanwhile.  It ends; *)
(* what it returns holds every event that was there all along and none     *)
(* that was never there; it refuses only where a single second holds more  *)
(* than the relay will put on a page.                                      *)
(***************************************************************************)
EXTENDS Integers, FiniteSets

CONSTANTS
  Event,       \* all events that match the filter and may ever exist
  At,          \* created_at of each
  Limit        \* rows of a full page

VARIABLES
  relay,       \* the events the relay holds
  kept,        \* those it has held ever since the read began
  had,         \* those it has held at some moment since
  status,      \* "pending", "done", "refused" or "failed"
  result       \* the events returned

vars == <<relay, kept, had, status, result>>

Init ==
  /\ relay \in SUBSET Event
  /\ kept = relay
  /\ had = relay
  /\ status = "pending"
  /\ result = {}

FullSecond(e) == Cardinality({f \in had : At[f] = At[e]}) >= Limit

Answer ==
  /\ status' = "done"
  /\ \E events \in SUBSET had : kept \subseteq events /\ result' = events

Refuse ==
  /\ \E e \in had : FullSecond(e)
  /\ status' = "refused"
  /\ UNCHANGED result

Fail ==
  /\ status' = "failed"
  /\ UNCHANGED result

End ==
  /\ status = "pending"
  /\ Answer \/ Refuse \/ Fail
  /\ UNCHANGED <<relay, kept, had>>

Arrive(e) ==
  /\ e \notin relay
  /\ relay' = relay \cup {e}
  /\ had' = had \cup {e}
  /\ UNCHANGED <<kept, status, result>>

Delete(e) ==
  /\ e \in relay
  /\ relay' = relay \ {e}
  /\ kept' = kept \ {e}
  /\ UNCHANGED <<had, status, result>>

Next == End \/ \E e \in Event : Arrive(e) \/ Delete(e)

Safe == Init /\ [][Next]_vars
Spec == Safe /\ WF_vars(End)
=============================================================================
