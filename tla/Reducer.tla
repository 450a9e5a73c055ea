------------------------------- MODULE Reducer -------------------------------
(***************************************************************************)
(* reduce(events, record, owner_pubkey, deleted_ids) of                    *)
(* orchestration/reducer.py as a state machine: one step per iteration of  *)
(* its loop over the sorted events.  A behaviour is one call of reduce on  *)
(* one history; the history is any sequence of events of the constant      *)
(* Event in the order of (created_at, id), copies included.                *)
(***************************************************************************)
EXTENDS TaskState

CONSTANTS Event, Contexts

ASSUME EventAssumption ==
  /\ Event \subseteq EventRecord
  /\ Contexts \subseteq Context

VARIABLES
  ctx,     \* the record's conductors, the owner, the deleted ids
  state,   \* the State under construction
  last     \* the event of the latest iteration, None before the first

reduceVars == <<ctx, state, last>>

-----------------------------------------------------------------------------
ReduceInit ==
  /\ ctx \in Contexts
  /\ state = EmptyState
  /\ last = None

\* An id is the hash of its event: a second copy of the latest event is the
\* same event, and every other event sorts strictly after it.
Follows(ev) == last # None => ev = last \/ Earlier(last, ev)

Consume(ev) ==
  /\ ~state.raised
  /\ Follows(ev)
  /\ state' = Apply(ctx, state, ev)
  /\ last' = ev
  /\ UNCHANGED ctx

ReduceNext == \E ev \in Event : Consume(ev)

ReduceSpec == ReduceInit /\ [][ReduceNext]_reduceVars
-----------------------------------------------------------------------------
(* Invariants. *)

StateTyped ==
  /\ ctx \in Contexts
  /\ state \in State
  /\ last \in Event \cup {None}

\* Nothing but the current attempt of a task can be acked, reported or
\* cancelled: every attempt before it is terminal, so is_live, assignee and
\* status (reducer.py:53-66), which ask the last attempt only, speak for the
\* whole task.
OnlyCurrentMayBeLive ==
  \A t \in KnownTasks(state) :
    LET as == state.tasks[t].attempts IN
    /\ as # <<>>
    /\ \A i \in DOMAIN as : i < Len(as) => as[i].status \in Terminal

\* The attempt an ack, a report or a redelivered delegate names is one
\* attempt: the lookups by attempt_id (reducer.py:288, 313) are not ambiguous.
AttemptIdsDistinct ==
  \A t \in KnownTasks(state) :
    LET as == state.tasks[t].attempts IN
    \A i, j \in DOMAIN as : as[i].id = as[j].id => i = j

\* The evidence kept with an attempt agrees with its status: reported_at is
\* set exactly for a reported status, acked_at for an acked one and never for
\* an open one (reducer.py:321-331).
StatusHasEvidence ==
  \A t \in KnownTasks(state) :
    LET as == state.tasks[t].attempts IN
    \A i \in DOMAIN as :
      /\ as[i].status = "open" => as[i].acked = None
      /\ as[i].status = "acked" => as[i].acked # None
      /\ as[i].reported # None <=> as[i].status \in Reported

\* Bookkeeping belongs to the current attempt: no nudge, escalation, ack or
\* report is older than the attempt it is kept with, and attempts are in time
\* order.  A retry that kept the previous attempt's nudge would show here.
TimesAreOfTheAttempt ==
  \A t \in KnownTasks(state) :
    LET task == state.tasks[t]  as == task.attempts IN
    /\ \A i \in DOMAIN as :
         /\ NotBefore(as[i].acked, as[i].created)
         /\ NotBefore(as[i].reported, as[i].created)
         /\ as[i].created <= Current(task).created
    /\ NotBefore(task.nudged, Current(task).created)
    /\ NotBefore(task.escalated, Current(task).created)

\* Attempts succeed each other: a task is handed on only once its last attempt
\* is over, and under a new attempt id (reducer.py:288-307).
AttemptsSucceedEachOther == OnlyCurrentMayBeLive /\ AttemptIdsDistinct

\* What is recorded with an attempt is about that attempt and agrees with its
\* status (reducer.py:305-307, 321-331).
EvidenceIsCurrent == StatusHasEvidence /\ TimesAreOfTheAttempt
-----------------------------------------------------------------------------
(* Action properties. *)

\* "Terminal states are final" (reducer.py:317, 233, 302), attempt by attempt:
\* once terminal, an attempt never changes again in any field, and no attempt
\* is ever dropped or moved.
FinalStays ==
  \A t \in TaskId : \A i \in DOMAIN AttemptsOf(state, t) :
    /\ i \in DOMAIN AttemptsOf(state', t)
    /\ AttemptsOf(state', t)[i].id = AttemptsOf(state, t)[i].id
    /\ AttemptsOf(state, t)[i].status \in Terminal
         => AttemptsOf(state', t)[i] = AttemptsOf(state, t)[i]
TerminalIsFinal == [][FinalStays]_reduceVars

\* Who may move an attempt to a status: its assignee acks and reports it, the
\* requester or the owner cancels it, the requester or a conductor replaces it.
AllowedBy(task, attempt, status) ==
  CASE status \in Reported \cup {"acked"} -> {attempt.assignee}
    [] status = "cancelled" -> {task.requester, ctx.owner}
    [] status = "superseded" -> ctx.conductors \cup {task.requester}
    [] OTHER -> {}

\* No event changes an attempt, adds one to an existing task, or touches a
\* task's timers unless its author is entitled to (reducer.py:219, 233, 291,
\* 314); the other events leave at most a note.
Entitled ==
  \A t \in KnownTasks(state) :
    LET old == state.tasks[t]  new == state'.tasks[t] IN
    /\ \A i \in DOMAIN old.attempts :
         \/ new.attempts[i] = old.attempts[i]
         \/ last'.author \in AllowedBy(old, old.attempts[i], new.attempts[i].status)
    /\ \/ Len(new.attempts) = Len(old.attempts)
       \/ last'.author \in ctx.conductors \cup {old.requester}
    /\ \/ /\ <<new.nudged, new.escalated, new.redelivered>>
               = <<old.nudged, old.escalated, old.redelivered>>
          /\ new.deadline = old.deadline
       \/ last'.author \in ctx.conductors \cup {old.requester}
ChangesAreEntitled == [][Entitled]_reduceVars
=============================================================================
