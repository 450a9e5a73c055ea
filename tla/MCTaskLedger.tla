---------------------------- MODULE MCTaskLedger ----------------------------
(***************************************************************************)
(* Small sets of commands for TaskLedger.  r delegates to a, a may delegate*)
(* on to b.                                                                *)
(***************************************************************************)
EXTENDS TaskLedger

CONSTANTS r, a, b, T1, T2, T3, T4, A1, A2, A3, A4, R1

Cmdline(n, by, kind) ==
  [no |-> n, by |-> by, kind |-> kind, to |-> a, run |-> None, status |-> Bad]
DelegateTo(n, by, m) == [Cmdline(n, by, "delegate") EXCEPT !.to = m]
ReportAs(n, by, st) == [Cmdline(n, by, "report") EXCEPT !.status = st]
DelegateRun(n, by) == [Cmdline(n, by, "delegate") EXCEPT !.run = R1]

MCMember == {r, a, b}
MCFleet == [conductors |-> {}, owner |-> r, deleted |-> {}]

One == [m \in Member |-> 1]
Two == [m \in Member |-> 2]

MCEventId == 1..4
ThreeIds == 1..3
NoSkew == [m \in Member |-> 0]
SlowOwner == [m \in Member |-> IF m = r THEN -1 ELSE 0]

\* a's process answers otherwise, b answers for a, and a answers what no reader
\* knows, each in the thread of the first event.
ByHand(by, st) ==
  [Draft(by, "report", T1, A1, 1) EXCEPT !.status = st]
Others == {ByHand(a, "failed"), ByHand(b, "done"), ByHand(a, Bad)}
OneOther == {ByHand(a, "failed")}

ByLimit == [m \in Member |-> IF m = Owner THEN 1 ELSE 2]

RToA == DelegateTo(1, r, a)
AReports == ReportAs(2, a, "done")
RCancels == Cmdline(3, r, "cancel-task")
AToB == DelegateTo(4, a, b)
BToA == DelegateTo(5, b, a)
RaceCommands == {RToA, AReports, RCancels, AToB, BToA}

\* Who runs together: a delegation with its answer, its cancellation and what
\* members publish by hand about it; and delegations that hand a task on, of
\* which two may follow each other, with an answer.
Answers == {RToA, AReports, RCancels}
Onward == {{RToA, AReports, AToB}, {RToA, AToB, BToA}}

Running == {c \in Command : run[c].pc # "idle"}
FromOthers == {e \in log : \E msg \in Foreign : IsCopy(e, msg)}

\* Bound: the commands that run are of one cast, and delegations onward are
\* looked at with three events.
OneCast ==
  \/ Running \subseteq Answers
  \/ /\ FromOthers = {} /\ UsedIds \subseteq ThreeIds
     /\ \E cast \in Onward : Running \subseteq cast

\* r's delegations, ad hoc and in a run in turn, and a's answers to any of them.
CalmCommands ==
  {DelegateTo(1, r, a), DelegateRun(2, r), DelegateTo(3, r, a), DelegateRun(4, r),
   ReportAs(5, a, "done"), Cmdline(6, a, "ack")}
=============================================================================
