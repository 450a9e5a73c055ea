----------------------------- MODULE TaskLedger -----------------------------
(***************************************************************************)
(* Concurrent `buzz-fleet task` commands on one fleet channel:             *)
(* delegate_task, ack_task, report_task and cancel_task of                 *)
(* cli/fleet_commands.py, each of which reads the channel's events, reduces*)
(* them, checks, and posts, recovering from an ambiguous answer through    *)
(* _post_idempotent.  Nothing is locked: between a command's read and its  *)
(* post, and between a timeout and the re-read, other commands take steps. *)
(*                                                                         *)
(* The relay and the websocket are external: it stores an event at once,   *)
(* later (if MayDelay) or never, and its answer may be lost.  So are the   *)
(* members' other clients: a member may publish any answer or cancellation *)
(* it likes, by hand or from a process of its own (Foreign).               *)
(***************************************************************************)
EXTENDS TaskState, FiniteSets

CONSTANTS
  Command,        \* one run of the CLI each: [no, by, kind, status, run, to]
  Owner,          \* the member who runs commands with is_owner
  Fleet,          \* the Context of a reader who has the fleet record
  OpenLimit,      \* limits.open_adhoc_per_requester, as each member knows it:
  ChainLimit,     \*   limits.chain_depth; an agent, without record, has the defaults
  Skew,           \* how far each member's clock is off
  MayDelay,       \* whether an event can reach the relay after the timeout
  Exclusive,      \* members who run their commands one after the other, by number
  MaxTime,        \* bound: the last instant
  Foreign         \* messages that members publish by other means

\* No message of these commands is deleted, and no clock is before the epoch:
\* now starts at 1.
ASSUME LedgerAssumption ==
  /\ Fleet \in Context /\ Fleet.deleted = {}
  /\ Skew \in [Member -> Int] /\ \A m \in Member : Skew[m] >= -1
  /\ MayDelay \in BOOLEAN
  /\ OpenLimit \in [Member -> Nat] /\ ChainLimit \in [Member -> Nat]

\* What the command line lets through.
ASSUME CommandAssumption ==
  /\ Command \subseteq
       [no : Nat, by : Member, kind : {"delegate", "ack", "report", "cancel-task"},
        status : Reported \cup {Bad}, run : RunId \cup {None}, to : Member]
  /\ \A c \in Command : c.kind = "report" => c.status \in Reported

VARIABLES
  now,        \* the instant
  log,        \* the events the relay holds
  flight,     \* <<command, event>> sent, timed out, not stored yet
  run,        \* per command: where it is, its message, its result
  stored      \* per command: the events of its own the relay holds

vars == <<now, log, flight, run, stored>>

-----------------------------------------------------------------------------
(* Reading. *)

Latest(events) == CHOOSE x \in events : \A y \in events \ {x} : Earlier(y, x)

\* A read's events, applied in their order: upTo[E] is the state after E.
Reduce(c, events) ==
  LET upTo[E \in SUBSET events] ==
        IF E = {} THEN EmptyState ELSE Apply(c, upTo[E \ {Latest(E)}], Latest(E))
  IN  upTo[events]

\* An agent's identity comes from its environment and carries no fleet record,
\* hence no conductors.
ContextOf(m) == IF m = Owner THEN Fleet ELSE [Fleet EXCEPT !.conductors = {}]

View(m) == Reduce(ContextOf(m), log)

\* How many tasks the chain of parents of t goes through, t included.
ChainDepth(s, t) ==
  LET chain[seen \in SUBSET TaskId] ==
        [u \in TaskId \cup {None} |->
           IF u \in KnownTasks(s) \ seen
             THEN chain[seen \cup {u}][s.tasks[u].parent]
             ELSE seen]
  IN  Cardinality(chain[{}][t])

Thread(root) == {e \in log : e.id = root \/ e.root = root}

-----------------------------------------------------------------------------
(* Messages, before they are signed. *)

Message ==
  [author : Member, kind : {"delegate", "ack", "report", "cancel-task"}, task : TaskId,
   attempt : AttemptId \cup EventId \cup {None}, root : EventId \cup {None},
   to : Member \cup {Bad}, parent : TaskId \cup {None}, run : RunId \cup {None},
   status : Reported \cup {Bad}]

ASSUME MessageAssumption == None \notin Message

\* Anything may be published by hand but a delegation, which would be bound by
\* no limit, and a cancellation that names an attempt, which nothing here does.
ASSUME ForeignAssumption ==
  /\ Foreign \subseteq Message
  /\ \A msg \in Foreign :
       msg.kind # "delegate" /\ (msg.kind = "cancel-task" => msg.attempt = None)

Draft(m, kind, t, x, root) ==
  [author |-> m, kind |-> kind, task |-> t, attempt |-> x, root |-> root,
   to |-> Bad, parent |-> None, run |-> None, status |-> Bad]

Delegation(c, t, x, parent, root) ==
  [Draft(c.by, "delegate", t, x, root) EXCEPT !.to = c.to, !.parent = parent, !.run = c.run]
Acknowledgement(m, t, task) ==
  Draft(m, "ack", t, Current(task).id, task.root)
Report(m, t, task, status) ==
  [Draft(m, "report", t, Current(task).id, task.root)
     EXCEPT !.status = status, !.run = task.run]

\* A cancellation's payload names no attempt.
Cancellation(m, t, task) == Draft(m, "cancel-task", t, None, task.root)

\* The event e carries the message msg.
IsCopy(e, msg) ==
  /\ e.author = msg.author /\ e.root = msg.root /\ e.kind = msg.kind
  /\ e.task = msg.task /\ e.taskTag = msg.task /\ e.attempt = msg.attempt
  /\ e.to = msg.to /\ e.deadline = 0 /\ e.acceptanceOk = TRUE
  /\ e.parent = msg.parent /\ e.status = msg.status
  /\ e.run = msg.run /\ e.runTag = msg.run

Clock(m) == now + Skew[m]

\* The signer stamps and signs each time it posts: a new event, a new id.
Sign(msg, id) ==
  [id |-> id, at |-> Clock(msg.author), author |-> msg.author, root |-> msg.root,
   kind |-> msg.kind, task |-> msg.task, taskTag |-> msg.task, attempt |-> msg.attempt,
   to |-> msg.to, deadline |-> 0, acceptanceOk |-> TRUE, parent |-> msg.parent,
   run |-> msg.run, runTag |-> msg.run, status |-> msg.status, cmd |-> None]

UsedIds == {e.id : e \in log \cup {f[2] : f \in flight}}
FreshIds == EventId \ UsedIds
Drafts == {run[c].msg : c \in {d \in Command : run[d].msg # None}}

\* uuid4: an id no message holds, and there is always another.
UnusedIds(ids) == {x \in ids : \A msg \in Drafts : x \notin {msg.task, msg.attempt}}
NewId(ids) == CHOOSE x \in UnusedIds(ids) : TRUE

-----------------------------------------------------------------------------
Init ==
  /\ now = 1
  /\ log = {}
  /\ flight = {}
  /\ run = [c \in Command |-> [pc |-> "idle", msg |-> None, result |-> None]]
  /\ stored = [c \in Command |-> {}]

Over == {"ok", "failed", "refused"}
Free(c) ==
  /\ run[c].pc = "idle"
  /\ c.by \in Exclusive =>
       \A d \in Command : d.by = c.by /\ d.no < c.no => run[d].pc \in Over

Refuse(c) ==
  /\ run' = [run EXCEPT ![c].pc = "refused"]
  /\ UNCHANGED <<now, log, flight, stored>>
Prepare(c, msg) ==
  /\ run' = [run EXCEPT ![c].pc = "posting", ![c].msg = msg]
  /\ UNCHANGED <<now, log, flight, stored>>

NoLimit(c, s) == FALSE                    \* bug: the count is never compared
AtOpenLimit(c, s) ==
  c.run = None /\ Cardinality(OpenAdhocBy(s, c.by)) >= OpenLimit[c.by]

TooDeepParentOnly(c, s, t) ==             \* bug: off by one
  ChainDepth(s, t) > ChainLimit[c.by]
TooDeep(c, s, t) == ChainDepth(s, t) + 1 > ChainLimit[c.by]

NewThread(r) == None                      \* bug: a run's thread is not looked up

\* The thread of a run: the root of its first event in (created_at, id) order.
RunRoot(r) ==
  LET events == {e \in log : e.runTag = r} IN
  IF r = None \/ events = {} THEN None
  ELSE LET first == CHOOSE x \in events : \A y \in events \ {x} : Earlier(x, y)
       IN  IF first.root = None THEN first.id ELSE first.root

Delegate(c) ==
  /\ c.kind = "delegate" /\ Free(c)
  /\ LET s == View(c.by) IN
     \E parent \in KnownTasks(s) \cup {None} :
       IF AtOpenLimit(c, s) \/ (parent # None /\ TooDeep(c, s, parent))
         THEN Refuse(c)
         ELSE /\ UnusedIds(TaskId) # {} /\ UnusedIds(AttemptId) # {}
              /\ Prepare(c, Delegation(c, NewId(TaskId), NewId(AttemptId), parent, RunRoot(c.run)))

\* The commands about an existing task refuse one they do not find.
Ack(c) ==
  /\ c.kind = "ack" /\ Free(c)
  /\ LET s == View(c.by) IN
     \/ KnownTasks(s) = {} /\ Refuse(c)
     \/ \E t \in KnownTasks(s) :
          IF Current(s.tasks[t]).assignee # c.by
            THEN Refuse(c)
            ELSE Prepare(c, Acknowledgement(c.by, t, s.tasks[t]))

MayReport(m, task) == Current(task).assignee = m /\ IsLive(task)

ReportTask(c) ==
  /\ c.kind = "report" /\ Free(c)
  /\ LET s == View(c.by) IN
     \/ KnownTasks(s) = {} /\ Refuse(c)
     \/ \E t \in KnownTasks(s) :
          IF MayReport(c.by, s.tasks[t])
            THEN Prepare(c, Report(c.by, t, s.tasks[t], c.status))
            ELSE Refuse(c)

Cancel(c) ==
  /\ c.kind = "cancel-task" /\ Free(c)
  /\ LET s == View(c.by) IN
     \/ KnownTasks(s) = {} /\ Refuse(c)
     \/ \E t \in KnownTasks(s) :
          IF c.by \in {s.tasks[t].requester, Owner}
            THEN Prepare(c, Cancellation(c.by, t, s.tasks[t]))
            ELSE Refuse(c)

-----------------------------------------------------------------------------
(* Posting. *)

Store(c, ev) ==
  /\ log' = log \cup {ev}
  /\ stored' = [stored EXCEPT ![c] = @ \cup {ev}]

Return(c, pc, id) == run' = [run EXCEPT ![c].pc = pc, ![c].result = id]

\* The relay accepts the event and its answer arrives.
PostAccepted(c) ==
  /\ run[c].pc \in {"posting", "reposting"}
  /\ \E id \in FreshIds :
       /\ Store(c, Sign(run[c].msg, id))
       /\ Return(c, "ok", id)
  /\ UNCHANGED <<now, flight>>

\* A failure that is not a timeout, and any failure of the second post, ends
\* the command; the event may be stored all the same.
PostFails(c) ==
  /\ run[c].pc \in {"posting", "reposting"}
  /\ \/ UNCHANGED <<log, stored>>
     \/ \E id \in FreshIds : Store(c, Sign(run[c].msg, id))
  /\ Return(c, "failed", None)
  /\ UNCHANGED <<now, flight>>

\* The first post times out: stored, under way, or lost.
PostTimesOut(c) ==
  /\ run[c].pc = "posting"
  /\ \/ UNCHANGED <<log, stored, flight>>
     \/ \E id \in FreshIds :
          Store(c, Sign(run[c].msg, id)) /\ UNCHANGED flight
     \/ /\ MayDelay
        /\ \E id \in FreshIds : flight' = flight \cup {<<c, Sign(run[c].msg, id)>>}
        /\ UNCHANGED <<log, stored>>
  /\ run' = [run EXCEPT ![c].pc = "ambiguous"]
  /\ UNCHANGED now

Land(c) ==
  /\ \E f \in flight : f[1] = c /\ Store(c, f[2]) /\ flight' = flight \ {f}
  /\ UNCHANGED <<now, run>>

SameTask(e, msg) == e.task = msg.task     \* bug: any message of the task will do
NoMatch(e, msg) == FALSE                  \* bug: the re-read is not searched

\* payload.task == task and payload.attempt == attempt and the same type: neither
\* the author nor the rest of the payload is compared.  The attempt sought is
\* never None, the one a cancellation carries always is.
IsSame(e, msg) ==
  /\ e.task = msg.task
  /\ msg.attempt # None /\ e.attempt = msg.attempt
  /\ e.kind = msg.kind

\* The re-read of the message's thread, or of the channel when it has none.
Reread(c) ==
  /\ run[c].pc = "ambiguous"
  /\ LET msg == run[c].msg
         read == IF msg.root = None THEN log ELSE Thread(msg.root)
         found == {e \in read : IsSame(e, msg)}
     IN  \/ \E e \in found : Return(c, "ok", e.id)
         \/ found = {} /\ Return(c, "reposting", None)
         \/ Return(c, "failed", None)     \* the read itself fails
  /\ UNCHANGED <<now, log, flight, stored>>

\* A member publishes a message of its own making.
Publish ==
  /\ \E msg \in Foreign, id \in FreshIds : log' = log \cup {Sign(msg, id)}
  /\ UNCHANGED <<now, flight, run, stored>>

Tick == now < MaxTime /\ now' = now + 1 /\ UNCHANGED <<log, flight, run, stored>>

Step(c) ==
  \/ Delegate(c) \/ Ack(c) \/ ReportTask(c) \/ Cancel(c)
  \/ PostAccepted(c) \/ PostFails(c) \/ PostTimesOut(c) \/ Reread(c)

Next == Tick \/ Publish \/ \E c \in Command : Step(c) \/ Land(c)

Spec == Init /\ [][Next]_vars
-----------------------------------------------------------------------------
(* Properties.  Truth is what a reader with the fleet record derives from all *)
(* the relay holds.                                                           *)

Truth == Reduce(Fleet, log)
TruthAfter == Reduce(Fleet, log')

Result(c) == CHOOSE e \in log : e.id = run[c].result

\* However often a delegation is posted, and in whatever order its copies
\* land, it opens one attempt of one task (fleet_commands.py:147-167 with
\* reducer.py:288): the ids are minted before the first post.
RepeatsOpenNoAttempt ==
  LET s == Truth IN \A t \in KnownTasks(s) : Len(s.tasks[t].attempts) = 1

\* No chain of parents on the ledger is longer than the limit its last
\* requester knows, although every
\* command checks it on a view that may be out of date when it posts
\* (fleet_commands.py:183-186): a parent's own ancestors are settled when it
\* is posted.
ChainsStayShort ==
  LET s == Truth IN
  \A t \in KnownTasks(s) : ChainDepth(s, t) <= ChainLimit[s.tasks[t].requester]

Answered(e, c) ==
  /\ e.id = run[c].result /\ e.kind = c.kind
  /\ e.task = run[c].msg.task /\ e.attempt = run[c].msg.attempt

\* The event a command answers with is of its type and about its task and
\* attempt, and of those that commands post it is its own member's, whether it
\* was posted or found by the re-read (fleet_commands.py:161-167).  Not more:
\* since the re-read compares no author and no content, it also takes what a
\* member published by hand, and another report of its own member's, for the
\* message it looks for.
ResultIsTheMessage ==
  \A c \in Command : run[c].pc = "ok" =>
    \E e \in log :
      /\ Answered(e, c)
      /\ e.author = c.by \/ \E msg \in Foreign : IsCopy(e, msg)

\* A report that the CLI says was posted leaves its task terminal, by that
\* report or by what overtook it, whoever else publishes what in between;
\* unless it sorts before the delegation (a slow clock, or the same second and
\* a smaller id: reducer.py:215-217), or the re-read took for it a report that
\* is not its member's or has no known status, after a post that was lost
\* (fleet_commands.py:163-166): the reducer ignores such a report, and nothing
\* is left on the ledger that settles the task.
ReportSettlesTask ==
  LET s == Truth IN
  \A c \in Command : run[c].pc = "ok" /\ c.kind = "report" =>
    LET task == s.tasks[run[c].msg.task] IN
    /\ task # None
    /\ /\ Result(c).author = c.by /\ Result(c).status \in Reported
       /\ \E d \in log : d.id = task.delegate /\ Earlier(d, Result(c))
       => ~IsLive(task)

\* A settled task can only change through an event that sorts before one the
\* relay already held: nothing stamped later contradicts a terminal status
\* (reducer.py:317, 233).
SettledUnlessOvertaken ==
  [][LET s == Truth  next == TruthAfter IN
     \A t \in KnownTasks(s) :
       /\ ~IsLive(s.tasks[t])
       /\ \A e \in log' \ log : \A x \in log : Earlier(x, e)
       => next.tasks[t].attempts = s.tasks[t].attempts]_vars

\* "at most 5 open ad-hoc tasks per requester" (README.md:611).
OpenTasksWithinLimit ==
  LET s == Truth IN \A m \in Member : Cardinality(OpenAdhocBy(s, m)) <= OpenLimit[m]

\* A run keeps to one thread: its events share a root (fleet_commands.py:190-195).
RunHasOneThread ==
  \A e, f \in log :
    e.runTag # None /\ e.runTag = f.runTag =>
      (IF e.root = None THEN e.id ELSE e.root) = (IF f.root = None THEN f.id ELSE f.root)

\* "Publish once; on an ambiguous result, look for the same task+attempt
\* before retrying" (fleet_commands.py:149), "never a new id" (the design's
\* section 5.3): a message that names its attempt is on the ledger once.  (A
\* cancellation's payload names none: the second try can post it twice.)
AttemptMessagePostedOnce ==
  \A c \in Command : c.kind # "cancel-task" => Cardinality(stored[c]) <= 1
=============================================================================
