------------------------------ MODULE MCReducer ------------------------------
(***************************************************************************)
(* Small histories for Reducer: the members are a requester r, two         *)
(* assignees a and b, a conductor c and the owner o.  Event k of a history *)
(* has id k and the instant TimeOf[k], so histories have ties and gaps.    *)
(***************************************************************************)
EXTENDS Reducer

CONSTANTS r, a, b, c, o, T1, T2, A1, A2, R1, K1, K2

MCMember == {r, a, b, c, o}
MCContexts ==
  { [conductors |-> {c}, owner |-> o, deleted |-> {}],
    [conductors |-> {}, owner |-> None, deleted |-> {2}] }

TimeOf == <<0, 5, 5, 6, 7, 7>>

Blank(k) ==
  [id |-> k, at |-> TimeOf[k], author |-> r, root |-> None, kind |-> None,
   task |-> T1, taskTag |-> None, attempt |-> None, to |-> Bad, deadline |-> None,
   acceptanceOk |-> TRUE, parent |-> None, run |-> None, runTag |-> None,
   status |-> Bad, cmd |-> None]

Delegates(k) ==
  { [Blank(k) EXCEPT !.kind = "delegate", !.author = m, !.to = x, !.attempt = y,
                     !.deadline = 9] :
      m \in {r, b, c}, x \in {a, b, Bad}, y \in {None, A1} }
  \cup
  { [Blank(k) EXCEPT !.kind = "delegate", !.to = a, !.attempt = A2, !.cmd = K1,
                     !.deadline = d, !.acceptanceOk = q, !.parent = p] :
      d \in {None, Bad}, q \in BOOLEAN, p \in {None, Bad} }
  \cup
  { [Blank(k) EXCEPT !.kind = "delegate", !.to = a, !.attempt = A1, !.run = x,
                     !.runTag = y] : x \in {R1, Bad}, y \in {None, R1} }

Answers(k) ==
  { [Blank(k) EXCEPT !.kind = "ack", !.author = m, !.attempt = y, !.cmd = K1] :
      m \in {a, b}, y \in {A1, 1} }
  \cup
  { [Blank(k) EXCEPT !.kind = "report", !.author = m, !.attempt = A1, !.status = x] :
      m \in {a, b}, x \in {"done", "failed", Bad} }

Others(k) ==
  { [Blank(k) EXCEPT !.kind = x, !.author = m, !.cmd = K2] :
      x \in {"redeliver", "nudge", "escalate", "other"}, m \in {c, r} }
  \cup
  { [Blank(k) EXCEPT !.kind = "cancel-task", !.author = m, !.cmd = K2] :
      m \in {r, b, o} }
  \cup
  { [Blank(k) EXCEPT !.kind = "nudge", !.author = c, !.task = x, !.taskTag = T1] :
      x \in {None, Bad} }
  \cup
  { Blank(k), [Blank(k) EXCEPT !.kind = "unknown"] }

CONSTANT Length    \* bound: the longest history
MCEventId == 1..Length
MCEvent == UNION { Delegates(k) \cup Answers(k) \cup Others(k) : k \in MCEventId }

\* The malformed payloads whose handling ends in an exception.
Raising(k) ==
  { [Blank(k) EXCEPT !.kind = "delegate", !.to = a, !.deadline = Infinite],
    [Blank(k) EXCEPT !.kind = "delegate", !.attempt = A1, !.to = a],
    [Blank(k) EXCEPT !.kind = Bad] }
MCRaising == UNION { Raising(k) : k \in MCEventId }

MCEventAll == MCEvent \cup MCRaising
=============================================================================
