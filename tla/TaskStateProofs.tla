--------------------------- MODULE TaskStateProofs ---------------------------
(***************************************************************************)
(* What one event may do to the state that a reader derives, for every set *)
(* of members and tasks: the facts about Apply that Reducer and TaskLedger *)
(* both rest on.                                                           *)
(*                                                                         *)
(* TaskInv is the inductive form of the task invariants: it bounds every   *)
(* instant kept with a task by the instant of the latest event, which is   *)
(* what makes the next event's instants no older than they are.  Each      *)
(* operator of TaskState gets a lemma: it keeps TaskInv, and Keeps its     *)
(* argument's terminal attempts.                                           *)
(***************************************************************************)
EXTENDS TaskState, TLAPS

Evidence(attempt) ==
  /\ attempt.status = "open" => attempt.acked = None
  /\ attempt.status = "acked" => attempt.acked # None
  /\ attempt.reported # None <=> attempt.status \in Reported
  /\ NotBefore(attempt.acked, attempt.created)
  /\ NotBefore(attempt.reported, attempt.created)

TaskInv(task, now) ==
  LET as == task.attempts IN
  /\ as # <<>>
  /\ \A i \in DOMAIN as : i < Len(as) => as[i].status \in Terminal
  /\ \A i, j \in DOMAIN as : as[i].id = as[j].id => i = j
  /\ \A i \in DOMAIN as : Evidence(as[i]) /\ as[i].created <= as[Len(as)].created
  /\ as[Len(as)].created <= now
  /\ NotBefore(task.nudged, as[Len(as)].created)
  /\ NotBefore(task.escalated, as[Len(as)].created)

StateInv(s, now) ==
  /\ s \in State
  /\ \A t \in KnownTasks(s) : TaskInv(s.tasks[t], now)

\* What a later list of attempts owes an earlier one.
Keeps(as, bs) ==
  \A i \in DOMAIN as :
    /\ i \in DOMAIN bs
    /\ bs[i].id = as[i].id
    /\ as[i].status \in Terminal => bs[i] = as[i]

-----------------------------------------------------------------------------
(* Facts about values and times. *)

\* The three marks of an absent or malformed field are no ids and no times.
LEMMA AbsentFacts ==
  /\ None \notin Nat /\ None \notin Task /\ Bad # None /\ Infinite # None /\ Bad # Infinite
  /\ None \notin TaskId /\ Bad \notin TaskId
  /\ None \notin Int /\ Bad \notin Int /\ Infinite \notin Int
<1>1. None \in Absent /\ Bad \in Absent /\ Infinite \in Absent
  BY DEF Absent
<1>2. None \notin Int /\ Bad \notin Int /\ Infinite \notin Int
  BY <1>1, IdAssumption
<1>3. None \notin Nat
  BY <1>2
<1>4. None \notin TaskId /\ Bad \notin TaskId
  BY <1>1, IdAssumption
<1>5. QED BY <1>2, <1>3, <1>4, IdAssumption, NoneAssumption

\* The last attempt of a task that has one.
LEMMA AttemptFacts ==
  ASSUME NEW task \in Task, task.attempts # <<>>
  PROVE  /\ task.attempts \in Seq(Attempt)
         /\ Len(task.attempts) \in Nat \ {0}
         /\ DOMAIN task.attempts = 1..Len(task.attempts)
         /\ Len(task.attempts) \in DOMAIN task.attempts
         /\ \A i \in DOMAIN task.attempts : task.attempts[i] \in Attempt
<1>1. task.attempts \in Seq(Attempt)
  BY DEF Task
<1>2. QED BY <1>1

\* A well-formed first delegate makes a task that satisfies the invariant.
LEMMA NewTaskInv ==
  ASSUME NEW ev \in EventRecord, ev.to # Bad,
         ev.deadline # Bad, ev.deadline # Infinite, ev.parent # Bad
  PROVE  /\ NewTask(ev) \in Task
         /\ TaskInv(NewTask(ev), ev.at)
<1>1. NewAttempt(ev) \in Attempt
  BY DEF NewAttempt, Attempt, EventRecord, Live, Terminal, Time
<1>2. <<NewAttempt(ev)>> \in Seq(Attempt)
  BY <1>1
<1>3. NewTask(ev) \in Task
  BY <1>2, AbsentFacts DEF NewTask, Task, EventRecord, Time
<1>4. /\ NewTask(ev).attempts = <<NewAttempt(ev)>>
      /\ NewTask(ev).nudged = None
      /\ NewTask(ev).escalated = None
  BY DEF NewTask
<1>5. /\ NewAttempt(ev).status = "open"
      /\ NewAttempt(ev).acked = None
      /\ NewAttempt(ev).reported = None
      /\ NewAttempt(ev).created = ev.at
      /\ ev.at \in Nat
  BY DEF NewAttempt, EventRecord, Time
<1>6. TaskInv(NewTask(ev), ev.at)
  BY <1>4, <1>5 DEF TaskInv, Evidence, NotBefore, Reported
<1>7. QED BY <1>3, <1>6

\* A note is only a note.
LEMMA NotedInv ==
  ASSUME NEW task \in Task, NEW now, TaskInv(task, now)
  PROVE  /\ Noted(task) \in Task
         /\ TaskInv(Noted(task), now)
         /\ Noted(task).attempts = task.attempts
<1>1. Noted(task) \in Task
  BY DEF Noted, Task
<1>2. /\ Noted(task).attempts = task.attempts
      /\ Noted(task).nudged = task.nudged
      /\ Noted(task).escalated = task.escalated
  BY DEF Noted, Task
<1>3. QED BY <1>1, <1>2 DEF TaskInv

\* As time passes the invariant still holds.
LEMMA TaskInvLater ==
  ASSUME NEW task \in Task, NEW now \in Nat, NEW later \in Nat, now <= later,
         TaskInv(task, now)
  PROVE  TaskInv(task, later)
<1>1. task.attempts[Len(task.attempts)] \in Attempt
  BY AttemptFacts DEF TaskInv
<1>2. task.attempts[Len(task.attempts)].created \in Nat
  BY <1>1 DEF Attempt, Time
<1>3. QED BY <1>2 DEF TaskInv

-----------------------------------------------------------------------------
(* What each event does to a task. *)

\* A live attempt is the current one, and rewriting it, its id and creation
\* apart, keeps the invariant and the terminal attempts.
LEMMA RewriteLive ==
  ASSUME NEW task \in Task, NEW now \in Nat, NEW later \in Nat, now <= later,
         TaskInv(task, now),
         NEW i \in DOMAIN task.attempts, task.attempts[i].status \notin Terminal,
         NEW x \in Attempt, Evidence(x),
         x.id = task.attempts[i].id, x.created = task.attempts[i].created
  PROVE  LET new == [task EXCEPT !.attempts[i] = x]
         IN  /\ new \in Task
             /\ TaskInv(new, later)
             /\ Keeps(task.attempts, new.attempts)
<1> DEFINE new == [task EXCEPT !.attempts[i] = x]
           as == task.attempts
           bs == [as EXCEPT ![i] = x]
<1>1. /\ as \in Seq(Attempt) /\ Len(as) \in Nat \ {0}
      /\ DOMAIN as = 1..Len(as) /\ Len(as) \in DOMAIN as
  BY AttemptFacts DEF TaskInv
<1>2. i = Len(as)
  BY <1>1 DEF TaskInv
<1>3. /\ bs \in Seq(Attempt) /\ Len(bs) = Len(as) /\ DOMAIN bs = DOMAIN as
      /\ \A j \in DOMAIN as : bs[j] = IF j = i THEN x ELSE as[j]
  BY <1>1
<1>4. /\ new \in Task /\ new.attempts = bs
      /\ new.nudged = task.nudged /\ new.escalated = task.escalated
  BY <1>3 DEF Task
<1>5. TaskInv(task, later)
  BY TaskInvLater
<1>6. TaskInv(new, later)
  <2>1. bs # <<>> /\ bs[Len(bs)].created = as[Len(as)].created
    BY <1>1, <1>2, <1>3
  <2>2. \A j \in DOMAIN bs : bs[j].id = as[j].id /\ bs[j].created = as[j].created
    BY <1>3
  <2>3. \A j \in DOMAIN bs : j < Len(bs) => bs[j].status \in Terminal
    BY <1>1, <1>2, <1>3 DEF TaskInv
  <2>4. \A j, k \in DOMAIN bs : bs[j].id = bs[k].id => j = k
    BY <1>3, <2>2 DEF TaskInv
  <2>5. \A j \in DOMAIN bs : Evidence(bs[j]) /\ bs[j].created <= bs[Len(bs)].created
    BY <1>3, <2>1, <2>2 DEF TaskInv
  <2>6. QED BY <1>4, <1>5, <2>1, <2>3, <2>4, <2>5 DEF TaskInv
<1>7. Keeps(as, bs)
  BY <1>3 DEF Keeps
<1>8. QED BY <1>4, <1>6, <1>7

\* An ack or a report of a live attempt.
LEMMA AnswerInv ==
  ASSUME NEW task \in Task, NEW now \in Nat, NEW ev \in EventRecord, now <= ev.at,
         TaskInv(task, now), ev.kind \in {"ack", "report"},
         ev.kind = "report" => ev.status \in Reported,
         NEW i \in DOMAIN task.attempts, Accepts(task.attempts[i])
  PROVE  LET new == [task EXCEPT !.attempts[i] = Answer(@, ev)]
         IN  /\ new \in Task
             /\ TaskInv(new, ev.at)
             /\ Keeps(task.attempts, new.attempts)
<1> DEFINE x == Answer(task.attempts[i], ev)
<1>1. task.attempts[i] \in Attempt /\ i \in 1..Len(task.attempts)
  BY AttemptFacts DEF TaskInv
<1>2. ev.at \in Nat
  BY DEF EventRecord, Time
<1>3. task.attempts[i].created <= ev.at
  <2>1. /\ task.attempts[i].created <= task.attempts[Len(task.attempts)].created
        /\ task.attempts[Len(task.attempts)].created <= now
    BY DEF TaskInv
  <2>2. task.attempts[Len(task.attempts)] \in Attempt
    BY AttemptFacts DEF TaskInv
  <2>3. QED BY <1>1, <1>2, <2>1, <2>2 DEF Attempt, Time
<1>4. Evidence(task.attempts[i]) /\ task.attempts[i].reported = None
  BY <1>1 DEF TaskInv, Evidence, Accepts, Terminal, Reported
<1>5. /\ x \in Attempt /\ Evidence(x)
      /\ x.id = task.attempts[i].id /\ x.created = task.attempts[i].created
  <2>1. CASE ev.kind = "ack"
    BY <1>1, <1>2, <1>3, <1>4, <2>1, AbsentFacts
    DEF Answer, Acked, Attempt, Evidence, NotBefore, Live, Reported, Time
  <2>2. CASE ev.kind = "report"
    BY <1>1, <1>2, <1>3, <1>4, <2>2, AbsentFacts
    DEF Answer, WithReport, Attempt, Evidence, NotBefore, Terminal, Reported, Time
  <2>3. QED BY <2>1, <2>2
<1>6. [task EXCEPT !.attempts[i] = Answer(@, ev)] = [task EXCEPT !.attempts[i] = x]
  BY DEF Task
<1>7. QED BY <1>2, <1>5, <1>6, RewriteLive DEF Accepts

\* A cancellation of a live task.
LEMMA CancelledInv ==
  ASSUME NEW task \in Task, NEW now \in Nat, NEW later \in Nat, now <= later,
         TaskInv(task, now), IsLive(task)
  PROVE  /\ Cancelled(task) \in Task
         /\ TaskInv(Cancelled(task), later)
         /\ Keeps(task.attempts, Cancelled(task).attempts)
<1> DEFINE i == Len(task.attempts)
           x == [task.attempts[i] EXCEPT !.status = "cancelled"]
<1>1. i \in DOMAIN task.attempts /\ task.attempts[i] \in Attempt
  BY AttemptFacts DEF TaskInv
<1>2. task.attempts[i].status \notin Terminal
  BY DEF IsLive, Current, Live, Terminal
<1>3. Evidence(task.attempts[i]) /\ task.attempts[i].reported = None
  BY <1>1, <1>2 DEF TaskInv, Evidence, Terminal, Reported
<1>4. /\ x \in Attempt /\ Evidence(x)
      /\ x.id = task.attempts[i].id /\ x.created = task.attempts[i].created
  BY <1>1, <1>3 DEF Attempt, Evidence, Terminal, Reported
<1>5. Cancelled(task) = [task EXCEPT !.attempts[i] = x]
  BY DEF Cancelled, Task
<1> HIDE DEF x, i
<1>6. LET new == [task EXCEPT !.attempts[i] = x]
      IN  new \in Task /\ TaskInv(new, later) /\ Keeps(task.attempts, new.attempts)
  BY <1>1, <1>2, <1>4, RewriteLive
<1>7. QED BY <1>5, <1>6

\* The conductor's marks: none of them touches an attempt.
LEMMA ConductorMarkInv ==
  ASSUME NEW task \in Task, NEW now \in Nat, NEW ev \in EventRecord, now <= ev.at,
         TaskInv(task, now)
  PROVE  /\ ConductorMark(task, ev) \in Task
         /\ TaskInv(ConductorMark(task, ev), ev.at)
         /\ ConductorMark(task, ev).attempts = task.attempts
<1> DEFINE new == ConductorMark(task, ev)
<1>1. ev.at \in Nat
  BY DEF EventRecord, Time
<1>2. TaskInv(task, ev.at)
  BY <1>1, TaskInvLater
<1>3. /\ new \in Task /\ new.attempts = task.attempts
      /\ new.nudged \in {task.nudged, ev.at}
      /\ new.escalated \in {task.escalated, ev.at}
  <2>1. CASE ev.kind = "redeliver"
    BY <2>1 DEF ConductorMark, Task
  <2>2. CASE ev.kind = "nudge"
    BY <1>1, <2>2 DEF ConductorMark, Task, Time
  <2>3. CASE ev.kind = "escalate"
    BY <1>1, <2>3 DEF ConductorMark, Task, Time
  <2>4. CASE ev.kind \notin {"redeliver", "nudge", "escalate"}
    BY <2>4 DEF ConductorMark
  <2>5. QED BY <2>1, <2>2, <2>3, <2>4
<1>4. QED BY <1>2, <1>3 DEF TaskInv, NotBefore

\* A further attempt: the current one gives way if it is live, and the new
\* one is as young as its event.
LEMMA ReplacedInv ==
  ASSUME NEW task \in Task, NEW now \in Nat, NEW ev \in EventRecord, now <= ev.at,
         TaskInv(task, now), ev.to # Bad,
         ev.deadline # Bad, ev.deadline # Infinite,
         ~HasAttempt(task, NewAttempt(ev).id)
  PROVE  /\ Replaced(task, ev) \in Task
         /\ TaskInv(Replaced(task, ev), ev.at)
         /\ Keeps(task.attempts, Replaced(task, ev).attempts)
<1> DEFINE as == task.attempts
           n == Len(as)
           sup == Superseded(as)
           x == NewAttempt(ev)
           bs == Append(sup, x)
           new == Replaced(task, ev)
<1>1. /\ as \in Seq(Attempt) /\ n \in Nat \ {0} /\ DOMAIN as = 1..n
      /\ n \in DOMAIN as /\ \A i \in DOMAIN as : as[i] \in Attempt
  BY AttemptFacts DEF TaskInv
<1>2. ev.at \in Nat /\ x \in Attempt
  BY DEF NewAttempt, Attempt, EventRecord, Live, Terminal, Time
<1>3. /\ sup \in Seq(Attempt) /\ Len(sup) = n
      /\ \A i \in 1..n : i # n => sup[i] = as[i]
      /\ sup[n] = [as[n] EXCEPT !.status = IF @ \in Live THEN "superseded" ELSE @]
  BY <1>1 DEF Superseded, Attempt, Live, Terminal
<1>4. \A i \in 1..n : /\ sup[i] \in Attempt
                      /\ sup[i].id = as[i].id /\ sup[i].created = as[i].created
                      /\ sup[i].status \in Terminal
                      /\ as[i].status \in Terminal => sup[i] = as[i]
                      /\ Evidence(sup[i])
  <2> TAKE i \in 1..n
  <2>1. as[i] \in Attempt /\ Evidence(as[i])
    BY <1>1 DEF TaskInv
  <2>2. CASE i # n
    <3>1. sup[i] = as[i] /\ as[i].status \in Terminal
      BY <1>1, <1>3, <2>2 DEF TaskInv
    <3>2. QED BY <2>1, <3>1
  <2>3. CASE i = n /\ as[i].status \in Live
    <3>1. sup[i] = [as[i] EXCEPT !.status = "superseded"]
      BY <1>3, <2>3
    <3>2. as[i].reported = None /\ as[i].status \notin Terminal
      BY <2>1, <2>3 DEF Evidence, Live, Reported, Terminal
    <3>3. QED BY <2>1, <3>1, <3>2 DEF Attempt, Evidence, Terminal, Reported
  <2>4. CASE i = n /\ as[i].status \notin Live
    <3>1. sup[i] = as[i] /\ as[i].status \in Terminal
      BY <1>3, <2>1, <2>4 DEF Attempt
    <3>2. QED BY <2>1, <3>1
  <2>5. QED BY <2>2, <2>3, <2>4
<1>5. /\ bs \in Seq(Attempt) /\ Len(bs) = n + 1 /\ DOMAIN bs = 1..(n + 1)
      /\ bs[n + 1] = x /\ \A i \in 1..n : bs[i] = sup[i]
  BY <1>1, <1>2, <1>3
<1>6. /\ new \in Task /\ new.attempts = bs /\ new.nudged = None /\ new.escalated = None
  <2>1. Append(Superseded(task.attempts), NewAttempt(ev)) \in Seq(Attempt)
    BY <1>5
  <2>2. (IF ev.deadline = None THEN task.deadline ELSE ev.deadline) \in Int
    BY DEF Task, EventRecord
  <2>3. QED BY <2>1, <2>2 DEF Replaced, Task
<1>7. Keeps(as, bs)
  BY <1>1, <1>4, <1>5 DEF Keeps
<1>8. TaskInv(new, ev.at)
  <2>1. x.status = "open" /\ x.acked = None /\ x.reported = None /\ x.created = ev.at
    BY DEF NewAttempt
  <2>2. Evidence(x)
    BY <2>1 DEF Evidence, NotBefore, Reported
  <2>3. \A i \in 1..n : as[i].created <= ev.at
    <3> TAKE i \in 1..n
    <3>1. as[i].created <= as[n].created /\ as[n].created <= now
      BY <1>1 DEF TaskInv
    <3>2. as[i].created \in Nat /\ as[n].created \in Nat
      BY <1>1 DEF Attempt, Time
    <3>3. QED BY <1>2, <3>1, <3>2
  <2>4. \A i \in DOMAIN bs : i < Len(bs) => bs[i].status \in Terminal
    BY <1>1, <1>4, <1>5
  <2>5. \A i, j \in DOMAIN bs : bs[i].id = bs[j].id => i = j
    <3>1. \A i \in 1..n : as[i].id # x.id
      BY <1>1 DEF HasAttempt
    <3>2. \A i, j \in 1..n : as[i].id = as[j].id => i = j
      BY <1>1 DEF TaskInv
    <3>3. QED BY <1>1, <1>4, <1>5, <3>1, <3>2
  <2>6. \A i \in DOMAIN bs : Evidence(bs[i]) /\ bs[i].created <= bs[Len(bs)].created
    BY <1>1, <1>2, <1>4, <1>5, <2>1, <2>2, <2>3
  <2>7. bs # <<>> /\ bs[Len(bs)].created = ev.at
    BY <1>1, <1>5, <2>1
  <2>8. QED BY <1>2, <1>6, <2>4, <2>5, <2>6, <2>7 DEF TaskInv, NotBefore
<1>9. QED BY <1>6, <1>7, <1>8

\* What an event may make of a task that exists.
Effect(c, task, new, ev) ==
  \/ new = Noted(task)
  \/ /\ ev.kind = "delegate" /\ ev.to # Bad
     /\ ev.deadline # Bad /\ ev.deadline # Infinite
     /\ ~HasAttempt(task, NewAttempt(ev).id) /\ AuthorizedToReplace(c, task, ev)
     /\ new = Replaced(task, ev)
  \/ /\ ev.kind \in ConductorKind /\ ev.author \in c.conductors
     /\ new = ConductorMark(task, ev)
  \/ /\ ev.kind \in {"ack", "report"} /\ (ev.kind = "report" => ev.status \in Reported)
     /\ \E i \in DOMAIN task.attempts :
          /\ Matches(task, i, ev) /\ Accepts(task.attempts[i])
          /\ new = [task EXCEPT !.attempts[i] = Answer(@, ev)]
  \/ /\ ev.kind = "cancel-task" /\ MayCancel(c, task, ev)
     /\ new = Cancelled(task)

\* An event that may open a task.
Opens(ev) ==
  /\ ev.kind = "delegate"
  /\ ev.to # Bad /\ ev.deadline # Bad /\ ev.deadline # Infinite /\ ev.parent # Bad

\* Whatever an event makes of a task keeps the invariant and the terminal
\* attempts.
LEMMA EffectInv ==
  ASSUME NEW c, NEW task \in Task, NEW now \in Nat, NEW ev \in EventRecord, now <= ev.at,
         TaskInv(task, now), NEW new, Effect(c, task, new, ev)
  PROVE  new \in Task /\ TaskInv(new, ev.at) /\ Keeps(task.attempts, new.attempts)
<1>1. ev.at \in Nat
  BY DEF EventRecord, Time
<1>2. TaskInv(task, ev.at)
  BY <1>1, TaskInvLater
<1>3. CASE new = Noted(task)
  BY <1>2, <1>3, NotedInv DEF Keeps
<1>4. CASE /\ ev.kind = "delegate" /\ ev.to # Bad
           /\ ev.deadline # Bad /\ ev.deadline # Infinite
           /\ ~HasAttempt(task, NewAttempt(ev).id) /\ AuthorizedToReplace(c, task, ev)
           /\ new = Replaced(task, ev)
  BY <1>4, ReplacedInv
<1>5. CASE ev.kind \in ConductorKind /\ new = ConductorMark(task, ev)
  BY <1>5, ConductorMarkInv DEF Keeps
<1>6. CASE /\ ev.kind \in {"ack", "report"} /\ (ev.kind = "report" => ev.status \in Reported)
           /\ \E i \in DOMAIN task.attempts :
                /\ Matches(task, i, ev) /\ Accepts(task.attempts[i])
                /\ new = [task EXCEPT !.attempts[i] = Answer(@, ev)]
  <2>1. PICK i \in DOMAIN task.attempts :
          Accepts(task.attempts[i]) /\ new = [task EXCEPT !.attempts[i] = Answer(@, ev)]
    BY <1>6
  <2>2. QED BY <1>6, <2>1, AnswerInv
<1>7. CASE MayCancel(c, task, ev) /\ new = Cancelled(task)
  BY <1>1, <1>7, CancelledInv DEF MayCancel
<1>8. QED BY <1>3, <1>4, <1>5, <1>6, <1>7 DEF Effect

\* The same attempts, however far each is, of the same task.
Unmoved(task, new) ==
  /\ Len(new.attempts) = Len(task.attempts)
  /\ \A i \in DOMAIN task.attempts : /\ new.attempts[i].id = task.attempts[i].id
                                     /\ new.attempts[i].assignee = task.attempts[i].assignee
  /\ new.requester = task.requester /\ new.delegate = task.delegate
  /\ new.root = task.root /\ new.parent = task.parent /\ new.run = task.run

\* Only a delegation with a new attempt id adds an attempt; nothing changes
\* an attempt's id and assignee, or who delegated the task by which event.
LEMMA EffectSame ==
  ASSUME NEW c, NEW task \in Task, task.attempts # <<>>, NEW ev \in EventRecord,
         NEW new, Effect(c, task, new, ev),
         ev.kind = "delegate" => HasAttempt(task, NewAttempt(ev).id)
  PROVE  Unmoved(task, new)
<1> DEFINE as == task.attempts
<1>1. /\ as \in Seq(Attempt) /\ Len(as) \in DOMAIN as
      /\ \A i \in DOMAIN as : as[i] \in Attempt
  BY AttemptFacts
<1>2. CASE new = Noted(task) \/ new = ConductorMark(task, ev)
  BY <1>2 DEF Noted, ConductorMark, Task, Unmoved
<1>3. CASE \E i \in DOMAIN as : new = [task EXCEPT !.attempts[i] = Answer(@, ev)]
  <2>1. PICK i \in DOMAIN as : new = [task EXCEPT !.attempts[i] = Answer(@, ev)]
    BY <1>3
  <2>2. Answer(as[i], ev).id = as[i].id /\ Answer(as[i], ev).assignee = as[i].assignee
    BY <1>1 DEF Answer, Acked, WithReport, Attempt
  <2>3. new.attempts = [as EXCEPT ![i] = Answer(as[i], ev)]
    BY <2>1 DEF Task
  <2>4. /\ new.requester = task.requester /\ new.delegate = task.delegate
        /\ new.root = task.root /\ new.parent = task.parent /\ new.run = task.run
    BY <2>1 DEF Task
  <2>5. QED BY <1>1, <2>2, <2>3, <2>4 DEF Unmoved
<1>4. CASE new = Cancelled(task)
  <2>1. new.attempts = [as EXCEPT ![Len(as)].status = "cancelled"]
    BY <1>4 DEF Cancelled, Task
  <2>2. /\ new.requester = task.requester /\ new.delegate = task.delegate
        /\ new.root = task.root /\ new.parent = task.parent /\ new.run = task.run
    BY <1>4 DEF Cancelled, Task
  <2>3. QED BY <1>1, <2>1, <2>2 DEF Attempt, Unmoved
<1>5. QED BY <1>2, <1>3, <1>4 DEF Effect

-----------------------------------------------------------------------------
(* What each event does to the state. *)

\* Update, Note and Raise stay within State.
LEMMA UpdateType ==
  ASSUME NEW s \in State, NEW t \in TaskId, NEW task \in Task, NEW ev \in EventRecord
  PROVE  /\ Update(s, t, task, ev) \in State
         /\ Update(s, t, task, ev).tasks = [s.tasks EXCEPT ![t] = task]
         /\ Put(s, t, task) \in State
         /\ Put(s, t, task).tasks = [s.tasks EXCEPT ![t] = task]
         /\ Raise(s) \in State
         /\ Raise(s).tasks = s.tasks
<1>1. [s.tasks EXCEPT ![t] = task] \in [TaskId -> Task \cup {None}]
  BY DEF State
<1>2. /\ Put(s, t, task) \in State
      /\ Put(s, t, task).tasks = [s.tasks EXCEPT ![t] = task]
  BY <1>1 DEF Put, State
<1>3. \A s2 \in State : RecordCmd(s2, ev) \in State /\ RecordCmd(s2, ev).tasks = s2.tasks
  BY DEF RecordCmd, State
<1>4. Raise(s) \in State /\ Raise(s).tasks = s.tasks
  BY DEF Raise, State
<1>5. QED BY <1>2, <1>3, <1>4 DEF Update

\* The step ev takes: it leaves the tasks alone, opens its task, or has an
\* effect on it.
EventStep(c, s, next, ev) ==
  /\ next \in State
  /\ \/ next.tasks = s.tasks
     \/ /\ TaskOf(ev) \in TaskId
        /\ \E task \in Task :
             /\ next.tasks = [s.tasks EXCEPT ![TaskOf(ev)] = task]
             /\ IF s.tasks[TaskOf(ev)] = None
                  THEN Opens(ev) /\ task = NewTask(ev)
                  ELSE Effect(c, s.tasks[TaskOf(ev)], task, ev)

StepOK(s, next, now) ==
  /\ StateInv(next, now)
  /\ \A u \in TaskId : Keeps(AttemptsOf(s, u), AttemptsOf(next, u))

\* A step that leaves the tasks as they are only lets time pass.
LEMMA SameTasks ==
  ASSUME NEW now \in Nat, NEW later \in Nat, now <= later,
         NEW s, StateInv(s, now), NEW next \in State, next.tasks = s.tasks
  PROVE  StepOK(s, next, later)
<1>1. KnownTasks(next) = KnownTasks(s)
  BY DEF KnownTasks
<1>2. \A t \in KnownTasks(s) : s.tasks[t] \in Task
  BY DEF StateInv, State, KnownTasks
<1>3. \A t \in KnownTasks(next) : TaskInv(next.tasks[t], later)
  BY <1>1, <1>2, TaskInvLater DEF StateInv
<1>4. \A u \in TaskId : AttemptsOf(next, u) = AttemptsOf(s, u)
  BY DEF AttemptsOf
<1>5. QED BY <1>3, <1>4 DEF StepOK, StateInv, Keeps

\* A step that writes one task is good if the task it writes is.
LEMMA OneTask ==
  ASSUME NEW now \in Nat, NEW later \in Nat, now <= later,
         NEW s, StateInv(s, now), NEW t \in TaskId, NEW task \in Task,
         TaskInv(task, later), Keeps(AttemptsOf(s, t), task.attempts),
         NEW next \in State, next.tasks = [s.tasks EXCEPT ![t] = task]
  PROVE  StepOK(s, next, later)
<1>1. s.tasks \in [TaskId -> Task \cup {None}]
  BY DEF StateInv, State
<1>2. /\ next.tasks[t] = task /\ task # None
      /\ \A u \in TaskId \ {t} : next.tasks[u] = s.tasks[u]
  BY <1>1, AbsentFacts
<1>3. \A u \in KnownTasks(next) : TaskInv(next.tasks[u], later)
  <2> TAKE u \in KnownTasks(next)
  <2>1. CASE u = t
    BY <1>2, <2>1
  <2>2. CASE u # t
    <3>1. u \in KnownTasks(s) /\ next.tasks[u] = s.tasks[u] /\ s.tasks[u] \in Task
      BY <1>1, <1>2, <2>2 DEF KnownTasks
    <3>2. QED BY <3>1, TaskInvLater DEF StateInv
  <2>3. QED BY <2>1, <2>2
<1>4. \A u \in TaskId : Keeps(AttemptsOf(s, u), AttemptsOf(next, u))
  <2> TAKE u \in TaskId
  <2>1. CASE u = t
    BY <1>2, <2>1 DEF AttemptsOf
  <2>2. CASE u # t
    BY <1>2, <2>2 DEF AttemptsOf, Keeps
  <2>3. QED BY <2>1, <2>2
<1>5. QED BY <1>3, <1>4 DEF StepOK, StateInv

\* Apply, case by case.
LEMMA ApplyStep ==
  ASSUME NEW c, NEW s, NEW now \in Nat, NEW ev \in EventRecord, now <= ev.at,
         StateInv(s, now)
  PROVE  EventStep(c, s, Apply(c, s, ev), ev)
<1> DEFINE m == [s EXCEPT !.seen = @ \cup {ev.id}]
           t == TaskOf(ev)
           Good(next) == EventStep(c, s, next, ev)
<1>1. s \in State /\ m \in State /\ m.tasks = s.tasks
  BY DEF StateInv, State, EventRecord
<1>2. t \in TaskId \cup {None, Bad}
  BY DEF TaskOf, EventRecord
<1>3. Good(s) /\ Good(m) /\ Good(Raise(m))
  <2>1. Raise(m) \in State /\ Raise(m).tasks = m.tasks
    BY <1>1 DEF Raise, State
  <2>2. QED BY <1>1, <2>1 DEF EventStep
<1>4. ASSUME t \in TaskId, NEW task \in Task,
             IF m.tasks[t] = None THEN Opens(ev) /\ task = NewTask(ev)
                                  ELSE Effect(c, m.tasks[t], task, ev)
      PROVE  Good(Update(m, t, task, ev)) /\ Good(Put(m, t, task))
  <2> HIDE DEF m
  <2>1. /\ Update(m, t, task, ev) \in State /\ Put(m, t, task) \in State
        /\ Update(m, t, task, ev).tasks = [s.tasks EXCEPT ![t] = task]
        /\ Put(m, t, task).tasks = [s.tasks EXCEPT ![t] = task]
    BY <1>1, <1>4, UpdateType
  <2>2. \A next \in State : next.tasks = [s.tasks EXCEPT ![t] = task] => Good(next)
    BY <1>1, <1>4 DEF EventStep
  <2> HIDE DEF Good
  <2>3. QED BY <2>1, <2>2
<1> HIDE DEF m, t, Good
<1>5. ASSUME t \in TaskId, m.tasks[t] = None, ev.kind = "delegate"
      PROVE  Good(CreateTask(m, t, ev))
  <2>1. ASSUME Opens(ev)
        PROVE  Good(Update(m, t, NewTask(ev), ev))
    BY <1>4, <1>5, <2>1, NewTaskInv DEF Opens
  <2>2. QED BY <1>3, <1>5, <2>1 DEF CreateTask, Opens
<1>6. ASSUME t \in TaskId, m.tasks[t] # None
      PROVE  /\ m.tasks[t] \in Task /\ TaskInv(m.tasks[t], now)
             /\ \A new : Effect(c, m.tasks[t], new, ev) => Good(Update(m, t, new, ev))
             /\ Good(Note(m, t))
  <2>1. m.tasks[t] \in Task /\ TaskInv(m.tasks[t], now)
    BY <1>1, <1>6 DEF StateInv, State, KnownTasks
  <2>2. \A new : Effect(c, m.tasks[t], new, ev) =>
          /\ new \in Task
          /\ Good(Update(m, t, new, ev)) /\ Good(Put(m, t, new))
    BY <1>4, <1>6, <2>1, EffectInv
  <2>3. Effect(c, m.tasks[t], Noted(m.tasks[t]), ev)
    BY DEF Effect
  <2>4. QED BY <2>1, <2>2, <2>3 DEF Note
<1>7. ASSUME t \in TaskId, m.tasks[t] # None, ev.kind = "delegate"
      PROVE  Good(Retry(c, m, t, ev))
  <2> DEFINE task == m.tasks[t]
  <2>1. ASSUME ev.to # Bad, ev.deadline # Infinite, ev.deadline # Bad,
               AuthorizedToReplace(c, task, ev), ~HasAttempt(task, NewAttempt(ev).id)
        PROVE  Good(Update(m, t, Replaced(task, ev), ev))
    <3>1. Effect(c, task, Replaced(task, ev), ev)
      BY <1>7, <2>1 DEF Effect
    <3>2. QED BY <1>6, <1>7, <3>1
  <2>2. QED BY <1>3, <1>6, <1>7, <2>1 DEF Retry
<1>8. ASSUME t \in TaskId, m.tasks[t] # None, ev.kind \in ConductorKind
      PROVE  Good(ApplyConductor(c, m, t, ev))
  <2>1. ASSUME ev.author \in c.conductors
        PROVE  Effect(c, m.tasks[t], ConductorMark(m.tasks[t], ev), ev)
    BY <1>8, <2>1 DEF Effect
  <2>2. QED BY <1>6, <1>8, <2>1 DEF ApplyConductor
<1>9. ASSUME t \in TaskId, m.tasks[t] # None, ev.kind \in {"ack", "report"}
      PROVE  Good(ApplyAssigneeEvent(m, t, ev))
  <2> DEFINE task == m.tasks[t]
             answered == {i \in DOMAIN task.attempts :
                            /\ Matches(task, i, ev)
                            /\ Accepts(task.attempts[i])
                            /\ ev.kind = "report" => ev.status \in Reported}
             first == CHOOSE i \in answered : \A j \in answered : i <= j
             new == [task EXCEPT !.attempts[first] = Answer(@, ev)]
  <2>1. task \in Task /\ TaskInv(task, now)
    BY <1>6, <1>9
  <2>2. CASE answered = {}
    BY <1>6, <1>9, <2>2 DEF ApplyAssigneeEvent
  <2>3. CASE answered # {}
    <3>1. \A i, j \in answered : i = j
      BY <2>1 DEF Matches, TaskInv
    <3>2. \A i \in answered : i \in Nat
      BY <2>1, AttemptFacts DEF TaskInv
    <3>3. first \in answered
      BY <2>3, <3>1, <3>2
    <3> HIDE DEF first
    <3>4. Effect(c, task, new, ev)
      BY <1>9, <3>3 DEF Effect
    <3>5. Good(Update(m, t, new, ev))
      BY <1>6, <1>9, <3>4
    <3>6. QED BY <2>3, <3>5 DEF ApplyAssigneeEvent, first
  <2>4. QED BY <2>2, <2>3
<1>10. ASSUME t \in TaskId, m.tasks[t] # None, ev.kind = "cancel-task"
       PROVE  Good(ApplyCancel(c, m, t, ev))
  <2>1. ASSUME MayCancel(c, m.tasks[t], ev)
        PROVE  Effect(c, m.tasks[t], Cancelled(m.tasks[t]), ev)
    BY <1>10, <2>1 DEF Effect
  <2>2. QED BY <1>6, <1>10, <2>1 DEF ApplyCancel
<1>11. Good(Dispatch(c, m, t, ev))
  <2>1. CASE t \in {None, Bad}
    BY <1>3, <2>1 DEF Dispatch
  <2>2. CASE t \in TaskId /\ m.tasks[t] = None
    BY <1>3, <1>5, <2>2, AbsentFacts DEF Dispatch, ApplyDelegate
  <2>3. CASE t \in TaskId /\ m.tasks[t] # None /\ ev.kind = "delegate"
    BY <1>7, <2>3, AbsentFacts DEF Dispatch, ApplyDelegate
  <2>4. CASE t \in TaskId /\ m.tasks[t] # None /\ ev.kind # "delegate"
    <3>1. Good(ApplyToKnown(c, m, t, ev))
      BY <1>3, <1>8, <1>9, <1>10, <2>4 DEF ApplyToKnown
    <3>2. QED BY <2>4, <3>1, AbsentFacts DEF Dispatch
  <2>5. QED BY <1>2, <2>1, <2>2, <2>3, <2>4
<1>12. QED BY <1>3, <1>11 DEF Apply, m, t, Good

\* Every event keeps the invariant and the terminal attempts.
LEMMA ApplyOK ==
  ASSUME NEW c, NEW s, NEW now \in Nat, NEW ev \in EventRecord, now <= ev.at,
         StateInv(s, now)
  PROVE  StepOK(s, Apply(c, s, ev), ev.at)
<1> DEFINE next == Apply(c, s, ev)
           t == TaskOf(ev)
<1>1. ev.at \in Nat
  BY DEF EventRecord, Time
<1>2. EventStep(c, s, next, ev)
  BY ApplyStep
<1> SUFFICES StepOK(s, next, ev.at)
  OBVIOUS
<1> HIDE DEF next
<1>3. CASE next.tasks = s.tasks
  <2>1. next \in State
    BY <1>2 DEF EventStep
  <2>2. QED BY <1>1, <1>3, <2>1, SameTasks
<1>4. ASSUME t \in TaskId, NEW task \in Task, next.tasks = [s.tasks EXCEPT ![t] = task],
             IF s.tasks[t] = None THEN Opens(ev) /\ task = NewTask(ev)
                                  ELSE Effect(c, s.tasks[t], task, ev)
      PROVE  StepOK(s, next, ev.at)
  <2>1. TaskInv(task, ev.at) /\ Keeps(AttemptsOf(s, t), task.attempts)
    <3>1. CASE s.tasks[t] = None
      BY <1>4, <3>1, NewTaskInv DEF Opens, AttemptsOf, Keeps
    <3>2. CASE s.tasks[t] # None
      <4>1. s.tasks[t] \in Task /\ TaskInv(s.tasks[t], now)
        BY <1>4, <3>2 DEF StateInv, State, KnownTasks
      <4>2. QED BY <1>4, <3>2, <4>1, EffectInv DEF AttemptsOf
    <3>3. QED BY <3>1, <3>2
  <2>2. QED BY <1>1, <1>2, <1>4, <2>1, OneTask DEF EventStep
<1>5. QED BY <1>2, <1>3, <1>4 DEF EventStep

-----------------------------------------------------------------------------
(* Who changes what. *)

\* AllowedBy under a given record c.
MayMove(c, task, attempt, status) ==
  CASE status \in Reported \cup {"acked"} -> {attempt.assignee}
    [] status = "cancelled" -> {task.requester, c.owner}
    [] status = "superseded" -> c.conductors \cup {task.requester}
    [] OTHER -> {}

\* What the author of an event may make of a task under the record c.
May(c, author, old, new) ==
  /\ \A i \in DOMAIN old.attempts :
       \/ new.attempts[i] = old.attempts[i]
       \/ author \in MayMove(c, old, old.attempts[i], new.attempts[i].status)
  /\ \/ Len(new.attempts) = Len(old.attempts)
     \/ author \in c.conductors \cup {old.requester}
  /\ \/ /\ <<new.nudged, new.escalated, new.redelivered>>
             = <<old.nudged, old.escalated, old.redelivered>>
        /\ new.deadline = old.deadline
     \/ author \in c.conductors \cup {old.requester}

Rights(c, s, next, author) == \A u \in KnownTasks(s) : May(c, author, s.tasks[u], next.tasks[u])

\* The three rights to an attempt, one per way of ending it.
LEMMA Allowances ==
  ASSUME NEW c, NEW task, NEW attempt
  PROVE  /\ \A status \in Reported \cup {"acked"} :
              MayMove(c, task, attempt, status) = {attempt.assignee}
         /\ MayMove(c, task, attempt, "cancelled") = {task.requester, c.owner}
         /\ MayMove(c, task, attempt, "superseded") = c.conductors \cup {task.requester}
  BY DEF MayMove, Reported

\* Everybody may leave a note.
LEMMA NotedMay ==
  ASSUME NEW c, NEW task \in Task, NEW author
  PROVE  May(c, author, task, Noted(task)) /\ May(c, author, task, task)
  BY DEF Noted, Task, May

\* A mark leaves the attempts alone, and a conductor may write it.
LEMMA ConductorMarkMay ==
  ASSUME NEW c, NEW task \in Task, NEW ev \in EventRecord, ev.author \in c.conductors
  PROVE  May(c, ev.author, task, ConductorMark(task, ev))
<1>1. ConductorMark(task, ev).attempts = task.attempts
  BY DEF ConductorMark, Task
<1>2. QED BY <1>1 DEF May

\* The attempt an answer speaks for is its author's own.
LEMMA AnswerMay ==
  ASSUME NEW c, NEW task \in Task, NEW ev \in EventRecord, ev.kind \in {"ack", "report"},
         ev.kind = "report" => ev.status \in Reported,
         NEW i \in DOMAIN task.attempts, Matches(task, i, ev)
  PROVE  May(c, ev.author, task, [task EXCEPT !.attempts[i] = Answer(@, ev)])
<1> DEFINE as == task.attempts
           x == Answer(as[i], ev)
           new == [task EXCEPT !.attempts[i] = Answer(@, ev)]
<1> SUFFICES May(c, ev.author, task, new)
  OBVIOUS
<1>1. as \in Seq(Attempt) /\ as[i] \in Attempt
  BY DEF Task
<1>2. /\ new.attempts = [as EXCEPT ![i] = x]
      /\ <<new.nudged, new.escalated, new.redelivered>>
           = <<task.nudged, task.escalated, task.redelivered>>
      /\ new.deadline = task.deadline
  BY DEF Task
<1>3. x.status \in Reported \cup {"acked"}
  BY <1>1 DEF Answer, Acked, WithReport, Attempt
<1>4. ev.author \in MayMove(c, task, as[i], x.status)
  <2>1. ev.author = as[i].assignee
    BY DEF Matches
  <2>2. \A status \in Reported \cup {"acked"} :
          MayMove(c, task, as[i], status) = {as[i].assignee}
    BY DEF MayMove, Reported
  <2> HIDE DEF x, as
  <2>3. QED BY <1>3, <2>1, <2>2
<1>5. /\ Len(new.attempts) = Len(as) /\ new.attempts[i] = x
      /\ \A j \in DOMAIN as : j # i => new.attempts[j] = as[j]
  BY <1>1, <1>2
<1> HIDE DEF x, new
<1>6. QED BY <1>2, <1>4, <1>5 DEF May

\* The requester and the owner may cancel.
LEMMA CancelledMay ==
  ASSUME NEW c, NEW task \in Task, task.attempts # <<>>, NEW ev \in EventRecord,
         MayCancel(c, task, ev)
  PROVE  May(c, ev.author, task, Cancelled(task))
<1> DEFINE as == task.attempts
           n == Len(as)
           x == [as[n] EXCEPT !.status = "cancelled"]
           new == Cancelled(task)
<1> SUFFICES May(c, ev.author, task, new)
  OBVIOUS
<1>1. as \in Seq(Attempt) /\ n \in DOMAIN as /\ as[n] \in Attempt
  BY AttemptFacts
<1>2. /\ new.attempts = [as EXCEPT ![n] = x]
      /\ <<new.nudged, new.escalated, new.redelivered>>
           = <<task.nudged, task.escalated, task.redelivered>>
      /\ new.deadline = task.deadline
  BY <1>1 DEF Task, Cancelled
<1>3. x.status = "cancelled"
  BY <1>1 DEF Attempt
<1>4. ev.author \in MayMove(c, task, as[n], x.status)
  BY <1>3, Allowances DEF MayCancel
<1>5. /\ Len(new.attempts) = Len(as) /\ new.attempts[n] = x
      /\ \A j \in DOMAIN as : j # n => new.attempts[j] = as[j]
  BY <1>1, <1>2
<1> HIDE DEF x, new, n
<1>6. QED BY <1>2, <1>4, <1>5 DEF May

\* Who may replace the current attempt may supersede it and start afresh.
LEMMA ReplacedMay ==
  ASSUME NEW c, NEW task \in Task, task.attempts # <<>>, NEW ev \in EventRecord,
         AuthorizedToReplace(c, task, ev)
  PROVE  May(c, ev.author, task, Replaced(task, ev))
<1> DEFINE as == task.attempts
           n == Len(as)
           sup == Superseded(as)
           new == Replaced(task, ev)
<1> SUFFICES May(c, ev.author, task, new)
  OBVIOUS
<1>1. /\ as \in Seq(Attempt) /\ n \in Nat \ {0} /\ DOMAIN as = 1..n
      /\ n \in DOMAIN as /\ as[n] \in Attempt
  BY AttemptFacts
<1>2. /\ Len(sup) = n /\ sup \in Seq(Attempt)
      /\ \A j \in DOMAIN as : j # n => sup[j] = as[j]
      /\ sup[n] = as[n] \/ sup[n].status = "superseded"
  BY <1>1 DEF Superseded, Attempt, Live, Terminal
<1>3. new.attempts = Append(sup, NewAttempt(ev))
  BY DEF Replaced, Task
<1>4. \A j \in DOMAIN as : new.attempts[j] = sup[j]
  BY <1>1, <1>2, <1>3
<1>5. \A j \in DOMAIN as : \/ new.attempts[j] = as[j]
                           \/ ev.author \in MayMove(c, task, as[j], new.attempts[j].status)
  BY <1>1, <1>2, <1>4, Allowances DEF AuthorizedToReplace
<1> HIDE DEF new
<1>6. QED BY <1>5 DEF May, AuthorizedToReplace

\* Whatever an event makes of a task, its author may.
LEMMA EffectMay ==
  ASSUME NEW c, NEW task \in Task, task.attempts # <<>>, NEW ev \in EventRecord,
         NEW new, Effect(c, task, new, ev)
  PROVE  May(c, ev.author, task, new)
<1>1. CASE new = Noted(task)
  BY <1>1, NotedMay
<1>2. CASE AuthorizedToReplace(c, task, ev) /\ new = Replaced(task, ev)
  BY <1>2, ReplacedMay
<1>3. CASE ev.author \in c.conductors /\ new = ConductorMark(task, ev)
  BY <1>3, ConductorMarkMay
<1>4. CASE /\ ev.kind \in {"ack", "report"} /\ (ev.kind = "report" => ev.status \in Reported)
           /\ \E i \in DOMAIN task.attempts :
                /\ Matches(task, i, ev) /\ Accepts(task.attempts[i])
                /\ new = [task EXCEPT !.attempts[i] = Answer(@, ev)]
  <2>1. PICK i \in DOMAIN task.attempts :
          Matches(task, i, ev) /\ new = [task EXCEPT !.attempts[i] = Answer(@, ev)]
    BY <1>4
  <2>2. QED BY <1>4, <2>1, AnswerMay
<1>5. CASE MayCancel(c, task, ev) /\ new = Cancelled(task)
  BY <1>5, CancelledMay
<1>6. QED BY <1>1, <1>2, <1>3, <1>4, <1>5 DEF Effect

\* A whole event: its author had the right to each change it makes.
LEMMA ApplyRights ==
  ASSUME NEW c, NEW s, NEW now \in Nat, NEW ev \in EventRecord, now <= ev.at,
         StateInv(s, now)
  PROVE  Rights(c, s, Apply(c, s, ev), ev.author)
<1>1. EventStep(c, s, Apply(c, s, ev), ev)
  BY ApplyStep
<1>2. \A u \in KnownTasks(s) : s.tasks[u] \in Task /\ s.tasks[u].attempts # <<>>
  BY DEF StateInv, State, KnownTasks, TaskInv
<1>3. \A u \in KnownTasks(s) : May(c, ev.author, s.tasks[u], s.tasks[u])
  BY <1>2, NotedMay
<1>4. \A u \in KnownTasks(s) : \A new : Effect(c, s.tasks[u], new, ev)
                                       => May(c, ev.author, s.tasks[u], new)
  BY <1>2, EffectMay
<1>5. s.tasks \in [TaskId -> Task \cup {None}]
  BY DEF StateInv, State
<1>6. QED BY <1>1, <1>3, <1>4, <1>5 DEF EventStep, Rights, KnownTasks
==============================================================================
