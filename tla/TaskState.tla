------------------------------ MODULE TaskState ------------------------------
(***************************************************************************)
(* The task state that every reader of a fleet channel derives from its    *)
(* events: the data types and the transition function of                   *)
(* orchestration/reducer.py.  No state of its own: Reducer folds Apply one *)
(* event at a time, TaskLedger folds it over what each command has read.   *)
(*                                                                         *)
(* An event's payload is arbitrary JSON written by its author, so every    *)
(* field has a value Bad, "present but of the wrong type".                 *)
(***************************************************************************)
EXTENDS Integers, Sequences

CONSTANTS
  TaskId, AttemptId, RunId, Member, Cmd,
  EventId,      \* event ids, naturals: only their order and identity matter
  None,         \* Python's None: the field is absent
  Bad,          \* the field is present and malformed
  Infinite      \* a JSON number that json.loads turns into float('inf')

Absent == {None, Bad, Infinite}

(***************************************************************************)
(* EventId is also a source of attempt ids (payload.attempt or ev.id).     *)
(***************************************************************************)
ASSUME IdAssumption ==
  /\ EventId \subseteq Nat
  /\ None # Bad /\ Bad # Infinite /\ None # Infinite
  /\ \A x \in Absent :
       x \notin TaskId \cup AttemptId \cup RunId \cup Member \cup Cmd \cup Int
  /\ EventId \cap AttemptId = {}

-----------------------------------------------------------------------------
(* Events, as protocol.parse_event and _decode_payload leave them. *)

\* Conductor-only message types; "other" stands for the ten the reducer
\* authorizes and records but that change no field of a task.
ConductorKind == {"redeliver", "nudge", "escalate", "other"}
Kind == ConductorKind \cup {"delegate", "ack", "report", "cancel-task", "unknown"}
ASSUME KindAssumption == \A x \in Absent : x \notin Kind

Time == Nat

\* kind = None is an event without a payload (plain chat, or a payload whose
\* "from" is not the event's author); kind = Bad an unhashable "type".
EventRecord ==
  [id : EventId, at : Time, author : Member, root : EventId \cup {None},
   kind : Kind \cup {None, Bad},
   task : TaskId \cup {None, Bad}, taskTag : TaskId \cup {None},
   attempt : AttemptId \cup EventId \cup {None}, to : Member \cup {Bad},
   deadline : Int \cup {None, Bad, Infinite},
   acceptanceOk : BOOLEAN, parent : TaskId \cup {None, Bad},
   run : RunId \cup {None, Bad}, runTag : RunId \cup {None},
   status : {"done", "blocked", "failed", Bad}, cmd : Cmd \cup {None, Bad}]

\* sorted(events, key=lambda e: (e.created_at, e.id))
Earlier(e, f) == e.at < f.at \/ (e.at = f.at /\ e.id < f.id)

-----------------------------------------------------------------------------
(* Attempts, tasks and the reducer's state. *)

Live == {"open", "acked"}
Terminal == {"done", "blocked", "failed", "cancelled", "superseded"}
Reported == {"done", "blocked", "failed"}

Attempt ==
  [id : AttemptId \cup EventId, assignee : Member, created : Time,
   acked : Time \cup {None}, status : Live \cup Terminal,
   reported : Time \cup {None}]

Task ==
  [requester : Member, run : RunId \cup {None}, parent : TaskId \cup {None},
   deadline : Int, created : Time, root : EventId, delegate : EventId,
   attempts : Seq(Attempt), notes : Nat,
   nudged : Time \cup {None}, escalated : Time \cup {None}, redelivered : Nat]

ASSUME NoneAssumption == None \notin Task /\ None \notin EventRecord

\* seen is reduce's local set of ids already applied, raised says that reduce
\* ended with an exception instead of a State.
State ==
  [tasks : [TaskId -> Task \cup {None}], cmds : SUBSET Cmd,
   seen : SUBSET EventId, raised : BOOLEAN]

EmptyState ==
  [tasks |-> [t \in TaskId |-> None], cmds |-> {}, seen |-> {}, raised |-> FALSE]

\* What a reader passes to reduce besides the events.
Context ==
  [conductors : SUBSET Member, owner : Member \cup {None},
   deleted : SUBSET EventId]

Current(task) == task.attempts[Len(task.attempts)]
IsLive(task) == Current(task).status \in Live
KnownTasks(s) == {t \in TaskId : s.tasks[t] # None}
AttemptsOf(s, t) == IF s.tasks[t] = None THEN <<>> ELSE s.tasks[t].attempts

\* A time that is unset or no earlier than y.
NotBefore(x, y) == x # None => y <= x

OpenAdhocBy(s, m) ==
  {t \in KnownTasks(s) : /\ IsLive(s.tasks[t])
                         /\ s.tasks[t].run = None
                         /\ s.tasks[t].requester = m}
-----------------------------------------------------------------------------
(* What one event does to one task. *)

Noted(task) == [task EXCEPT !.notes = @ + 1]

NewAttempt(ev) ==
  [id |-> IF ev.attempt = None THEN ev.id ELSE ev.attempt,
   assignee |-> ev.to, created |-> ev.at,
   acked |-> None, status |-> "open", reported |-> None]

NewTask(ev) ==
  [requester |-> ev.author,
   run |-> IF ev.run \in {None, Bad} THEN ev.runTag ELSE ev.run,
   parent |-> ev.parent,
   deadline |-> IF ev.deadline = None THEN 0 ELSE ev.deadline,
   created |-> ev.at, root |-> IF ev.root = None THEN ev.id ELSE ev.root,
   delegate |-> ev.id, attempts |-> <<NewAttempt(ev)>>,
   notes |-> IF ev.run = Bad THEN 1 ELSE 0,
   nudged |-> None, escalated |-> None, redelivered |-> 0]

\* A live current attempt gives way to the next one; a terminal one keeps its
\* status.
Superseded(as) ==
  [as EXCEPT ![Len(as)].status = IF @ \in Live THEN "superseded" ELSE @]

ReplacedKeepingTimers(task, ev) ==  \* bug: the old attempt's nudge survives
  [task EXCEPT !.attempts = Append(Superseded(@), NewAttempt(ev)),
               !.deadline = IF ev.deadline = None THEN @ ELSE ev.deadline]

\* A further attempt at an existing task starts its bookkeeping afresh.
Replaced(task, ev) ==
  [task EXCEPT !.attempts = Append(Superseded(@), NewAttempt(ev)),
               !.deadline = IF ev.deadline = None THEN @ ELSE ev.deadline,
               !.nudged = None, !.escalated = None, !.redelivered = 0]

\* attempt.acked_at or ev.created_at: an instant of 0 counts as unset.
Acked(attempt, ev) ==
  [attempt EXCEPT !.acked = IF @ \in {None, 0} THEN ev.at ELSE @,
                  !.status = "acked"]

WithReportUnset(attempt, ev) ==      \* bug: the status is not taken over
  [attempt EXCEPT !.reported = ev.at]
WithReport(attempt, ev) ==
  [attempt EXCEPT !.status = ev.status, !.reported = ev.at]

Cancelled(task) ==
  [task EXCEPT !.attempts[Len(task.attempts)].status = "cancelled"]

ConductorMark(task, ev) ==
  CASE ev.kind = "redeliver" -> [task EXCEPT !.redelivered = @ + 1]
    [] ev.kind = "nudge"     -> [task EXCEPT !.nudged = ev.at]
    [] ev.kind = "escalate"  -> [task EXCEPT !.escalated = ev.at]
    [] OTHER                 -> task
-----------------------------------------------------------------------------
(* What one event does to the reducer's state. *)

Put(s, t, task) == [s EXCEPT !.tasks[t] = task]
Note(s, t) == Put(s, t, Noted(s.tasks[t]))
Raise(s) == [s EXCEPT !.raised = TRUE]

RecordCmd(s, ev) ==
  [s EXCEPT !.cmds = IF ev.cmd \in Cmd THEN @ \cup {ev.cmd} ELSE @]

\* Every branch that applies an event records its cmd.
Update(s, t, task, ev) == RecordCmd(Put(s, t, task), ev)

CreateTaskUnchecked(s, t, ev) ==      \* bug: only the assignee is validated
  IF ev.to = Bad THEN s ELSE Update(s, t, NewTask(ev), ev)
CreateTask(s, t, ev) ==
  IF ev.to = Bad THEN s
  ELSE IF ev.deadline = Infinite THEN Raise(s)
  ELSE IF ev.deadline = Bad \/ ~ev.acceptanceOk \/ ev.parent = Bad THEN s
  ELSE Update(s, t, NewTask(ev), ev)

HasAttemptNow(task, a) == Current(task).id = a  \* bug: only the last is compared
HasAttemptNever(task, a) == FALSE    \* bug: a repeated attempt is a new one
HasAttempt(task, a) == \E i \in DOMAIN task.attempts : task.attempts[i].id = a

AuthorizedToReplace(ctx, task, ev) ==
  ev.author \in ctx.conductors \cup {task.requester}

Retry(ctx, s, t, ev) ==
  LET task == s.tasks[t] IN
  IF \/ HasAttempt(task, NewAttempt(ev).id)
     \/ ~AuthorizedToReplace(ctx, task, ev)
     \/ ev.to = Bad
    THEN Note(s, t)
  ELSE IF ev.deadline = Infinite THEN Raise(s)
  ELSE IF ev.deadline = Bad THEN Note(s, t)
  ELSE Update(s, t, Replaced(task, ev), ev)

ApplyDelegate(ctx, s, t, ev) ==
  IF s.tasks[t] = None THEN CreateTask(s, t, ev) ELSE Retry(ctx, s, t, ev)

ApplyConductor(ctx, s, t, ev) ==
  IF ev.author \in ctx.conductors
    THEN Update(s, t, ConductorMark(s.tasks[t], ev), ev)
    ELSE Note(s, t)

MatchesById(task, i, ev) ==         \* bug: anyone may answer for an attempt
  task.attempts[i].id = ev.attempt

\* The attempt an ack or report speaks for.
Matches(task, i, ev) ==
  task.attempts[i].id = ev.attempt /\ task.attempts[i].assignee = ev.author

AcceptsAny(attempt) == TRUE         \* bug: a terminal attempt takes reports
AcceptsOpenOnly(attempt) == attempt.status = "open"  \* bug: an ack closes it
Accepts(attempt) == attempt.status \notin Terminal

Answer(attempt, ev) ==
  IF ev.kind = "ack" THEN Acked(attempt, ev) ELSE WithReport(attempt, ev)

ApplyAssigneeEvent(s, t, ev) ==
  LET task == s.tasks[t]
      answered == {i \in DOMAIN task.attempts :
                     /\ Matches(task, i, ev)
                     /\ Accepts(task.attempts[i])
                     /\ ev.kind = "report" => ev.status \in Reported}
  IN IF answered = {}
       THEN Note(s, t)
       ELSE LET i == CHOOSE i \in answered : \A j \in answered : i <= j
            IN  Update(s, t, [task EXCEPT !.attempts[i] = Answer(@, ev)], ev)

CancelTerminalToo(ctx, task, ev) ==   \* bug: is_live is not asked
  ev.author \in {task.requester, ctx.owner}
MayCancel(ctx, task, ev) ==
  ev.author \in {task.requester, ctx.owner} /\ IsLive(task)

ApplyCancel(ctx, s, t, ev) ==
  IF MayCancel(ctx, s.tasks[t], ev)
    THEN Update(s, t, Cancelled(s.tasks[t]), ev)
    ELSE Note(s, t)

\* task_id = raw_task or ev.task_id
TaskOf(ev) == IF ev.task = None THEN ev.taskTag ELSE ev.task

ApplyToKnown(ctx, s, t, ev) ==
  CASE ev.kind = Bad -> Raise(s)
    [] ev.kind \in ConductorKind -> ApplyConductor(ctx, s, t, ev)
    [] ev.kind \in {"ack", "report"} -> ApplyAssigneeEvent(s, t, ev)
    [] ev.kind = "cancel-task" -> ApplyCancel(ctx, s, t, ev)
    [] OTHER -> s

\* An event whose task does not exist (yet) is dropped without a trace.
Dispatch(ctx, s, t, ev) ==
  IF t \in {None, Bad} THEN s
  ELSE IF ev.kind = "delegate" THEN ApplyDelegate(ctx, s, t, ev)
  ELSE IF s.tasks[t] = None THEN s
  ELSE ApplyToKnown(ctx, s, t, ev)

Ignored(ctx, s, ev) ==
  s.raised \/ ev.id \in s.seen \cup ctx.deleted \/ ev.kind = None

\* One iteration of reduce's loop.
Apply(ctx, s, ev) ==
  IF Ignored(ctx, s, ev)
    THEN s
    ELSE Dispatch(ctx, [s EXCEPT !.seen = @ \cup {ev.id}], TaskOf(ev), ev)
=============================================================================
