-------------------------- MODULE TaskLedgerProofs --------------------------
(***************************************************************************)
(* What the task commands of TaskLedger promise however they interleave,   *)
(* for every set of members, commands, clocks and losses.                  *)
(*                                                                         *)
(* Reduce is a recursion over a finite set of events.  The first part shows*)
(* that the recursion has a value, hence that Reduce takes one event more  *)
(* by one Apply (ReduceLast), by picking a least counterexample.  The last *)
(* part is about Reducer, the same fold one event at a time.               *)
(***************************************************************************)
EXTENDS TaskLedger, Reducer, TaskStateProofs, FiniteSetTheorems, WellFoundedInduction

\* A set of naturals has a least element.
LEMMA Least ==
  ASSUME NEW S \in SUBSET Nat, S # {}
  PROVE  \E n \in S : \A m \in S : n <= m
<1>1. PICK n \in S : \A m \in S : ~(<<m, n>> \in OpToRel(<, Nat))
  BY WFMin, NatLessThanWellFounded
<1>2. \A m \in S : ~(m < n)
  BY <1>1 DEF OpToRel
<1>3. QED BY <1>2

\* Induction over the subsets of a finite set.
LEMMA SetInduction ==
  ASSUME NEW S, IsFiniteSet(S), NEW G, {} \in G,
         \A E \in SUBSET S : E # {} /\ (\A e \in E : E \ {e} \in G) => E \in G
  PROVE  S \in G
<1> DEFINE Fails == {n \in Nat : \E E \in SUBSET S : Cardinality(E) = n /\ E \notin G}
<1>1. SUFFICES ASSUME S \notin G PROVE FALSE
  OBVIOUS
<1>2. \A E \in SUBSET S : IsFiniteSet(E) /\ Cardinality(E) \in Nat
  BY FS_Subset, FS_CardinalityType
<1>3. Cardinality(S) \in Fails
  BY <1>1, <1>2
<1>4. PICK n \in Fails : \A m \in Fails : n <= m
  <2> HIDE DEF Fails
  <2>1. Fails \subseteq Nat
    BY DEF Fails
  <2>2. QED BY <1>3, <2>1, Least
<1>5. PICK E \in SUBSET S : Cardinality(E) = n /\ E \notin G
  BY <1>4
<1>6. PICK e \in E : E \ {e} \notin G
  BY <1>5
<1>7. E \ {e} \in SUBSET S /\ Cardinality(E \ {e}) = n - 1
  BY <1>2, <1>5, FS_RemoveElement
<1>8. n - 1 \in Fails
  BY <1>2, <1>6, <1>7
<1>9. QED BY <1>4, <1>8

-----------------------------------------------------------------------------
(* A finite history of events in their order. *)

History(E) ==
  /\ E \subseteq EventRecord
  /\ IsFiniteSet(E)
  /\ \A e, f \in E : e.id = f.id => e = f

\* Part of a history is one.
LEMMA SubHistory ==
  ASSUME NEW E, History(E), NEW D \in SUBSET E
  PROVE  History(D)
BY FS_Subset DEF History

\* Events of one history sort one way or the other, and consistently.
LEMMA EventOrder ==
  ASSUME NEW E, History(E)
  PROVE  /\ \A e, f \in E : e = f \/ Earlier(e, f) \/ Earlier(f, e)
         /\ \A e, f \in E : ~(Earlier(e, f) /\ Earlier(f, e))
         /\ \A e \in E : ~Earlier(e, e)
         /\ \A e, f, g \in E : Earlier(e, f) /\ Earlier(f, g) => Earlier(e, g)
<1>1. \A e \in E : e.at \in Nat /\ e.id \in Nat
  BY IdAssumption DEF History, EventRecord, Time
<1>2. QED BY <1>1 DEF History, Earlier

\* A nonempty history has one latest event.
LEMMA LatestFacts ==
  ASSUME NEW E, History(E), E # {}
  PROVE  /\ Latest(E) \in E
         /\ \A y \in E \ {Latest(E)} : Earlier(y, Latest(E))
         /\ \A x \in E : (\A y \in E \ {x} : Earlier(y, x)) => x = Latest(E)
<1> DEFINE G == {D \in SUBSET E : D = {} \/ \E x \in D : \A y \in D \ {x} : Earlier(y, x)}
<1>1. \A D \in SUBSET E : D # {} /\ (\A e \in D : D \ {e} \in G) => D \in G
  <2> SUFFICES ASSUME NEW D \in SUBSET E, NEW e \in D, D \ {e} \in G
               PROVE  \E x \in D : \A y \in D \ {x} : Earlier(y, x)
    OBVIOUS
  <2>1. CASE D \ {e} = {}
    BY <2>1
  <2>2. CASE D \ {e} # {}
    <3>1. PICK x \in D \ {e} : \A y \in (D \ {e}) \ {x} : Earlier(y, x)
      BY <2>2
    <3>2. CASE Earlier(e, x)
      BY <3>1, <3>2
    <3>3. CASE Earlier(x, e)
      <4>1. \A y \in D \ {e} : Earlier(y, e)
        BY <3>1, <3>3, EventOrder
      <4>2. QED BY <4>1
    <3>4. QED BY <3>1, <3>2, <3>3, EventOrder
  <2>3. QED BY <2>1, <2>2
<1>2. E \in G
  <2>1. {} \in G /\ IsFiniteSet(E)
    BY DEF History
  <2> HIDE DEF G
  <2>2. QED BY <1>1, <2>1, SetInduction
<1>3. \E x \in E : \A y \in E \ {x} : Earlier(y, x)
  BY <1>2
<1>4. QED BY <1>3, EventOrder DEF Latest

\* A nonempty history has an earliest event.
LEMMA EarliestExists ==
  ASSUME NEW E, History(E), E # {}
  PROVE  \E x \in E : \A y \in E \ {x} : Earlier(x, y)
<1> DEFINE G == {D \in SUBSET E : D = {} \/ \E x \in D : \A y \in D \ {x} : Earlier(x, y)}
<1>1. \A D \in SUBSET E : D # {} /\ (\A e \in D : D \ {e} \in G) => D \in G
  <2> SUFFICES ASSUME NEW D \in SUBSET E, NEW e \in D, D \ {e} \in G
               PROVE  \E x \in D : \A y \in D \ {x} : Earlier(x, y)
    OBVIOUS
  <2>1. CASE D \ {e} = {}
    BY <2>1
  <2>2. CASE D \ {e} # {}
    <3>1. PICK x \in D \ {e} : \A y \in (D \ {e}) \ {x} : Earlier(x, y)
      BY <2>2
    <3>2. CASE Earlier(x, e)
      BY <3>1, <3>2
    <3>3. CASE Earlier(e, x)
      <4>1. \A y \in D \ {e} : Earlier(e, y)
        BY <3>1, <3>3, EventOrder
      <4>2. QED BY <4>1
    <3>4. QED BY <3>1, <3>2, <3>3, EventOrder
  <2>3. QED BY <2>1, <2>2
<1>2. {} \in G /\ IsFiniteSet(E)
  BY DEF History
<1> HIDE DEF G
<1>3. E \in G
  BY <1>1, <1>2, SetInduction
<1>4. QED BY <1>3 DEF G

-----------------------------------------------------------------------------
(* Reduce, one event more at a time. *)

\* f satisfies the equation that defines Reduce's upTo, on the sets in D.
Folds(c, D, f) ==
  f = [E \in D |-> IF E = {} THEN EmptyState
                            ELSE Apply(c, f[E \ {Latest(E)}], Latest(E))]

\* The equation has a solution: by levels, the sets of at most n events first.
LEMMA FoldExists ==
  ASSUME NEW c, NEW A, History(A)
  PROVE  \E f : Folds(c, SUBSET A, f)
<1> DEFINE Level(n) == {E \in SUBSET A : Cardinality(E) <= n}
           Fails == {n \in Nat : ~\E f : Folds(c, Level(n), f)}
<1>1. IsFiniteSet(A) /\ \A E \in SUBSET A : IsFiniteSet(E) /\ Cardinality(E) \in Nat
  BY FS_Subset, FS_CardinalityType DEF History
<1>2. \A E \in SUBSET A : Cardinality(E) = 0 <=> E = {}
  BY <1>1, FS_EmptySet
<1>3. \A E \in SUBSET A : E # {} =>
        /\ Latest(E) \in E /\ E \ {Latest(E)} \in SUBSET A
        /\ Cardinality(E \ {Latest(E)}) = Cardinality(E) - 1
  BY <1>1, SubHistory, LatestFacts, FS_RemoveElement
<1>4. Fails = {}
  <2>1. SUFFICES ASSUME Fails # {} PROVE FALSE
    OBVIOUS
  <2>2. PICK n \in Fails : \A m \in Fails : n <= m
    <3> HIDE DEF Fails
    <3>1. Fails \subseteq Nat
      BY DEF Fails
    <3>2. QED BY <2>1, <3>1, Least
  <2>3. CASE n = 0
    <3> DEFINE f == [E \in Level(0) |-> EmptyState]
    <3>1. \A E \in Level(0) : E = {}
      BY <1>1, <1>2
    <3>2. f = [E \in Level(0) |-> IF E = {} THEN EmptyState
                                  ELSE Apply(c, f[E \ {Latest(E)}], Latest(E))]
      BY <3>1
    <3> HIDE DEF f, Level
    <3>3. Folds(c, Level(0), f)
      BY <3>2 DEF Folds
    <3>4. QED BY <2>2, <2>3, <3>3
  <2>4. CASE n # 0
    <3>1. n \in Nat /\ n - 1 \in Nat
      BY <2>2, <2>4
    <3>2. n - 1 \notin Fails
      <4> HIDE DEF Fails
      <4>1. QED BY <2>2, <3>1
    <3>3. PICK g : Folds(c, Level(n - 1), g)
      BY <3>1, <3>2
    <3> DEFINE After(h, E) == IF E = {} THEN EmptyState
                             ELSE Apply(c, h[E \ {Latest(E)}], Latest(E))
               f == [E \in Level(n) |-> After(g, E)]
    <3>4. \A E \in Level(n - 1) : E \in Level(n) /\ g[E] = After(g, E)
      <4>1. \A E \in Level(n - 1) : E \in Level(n)
        BY <1>1, <3>1
      <4> HIDE DEF Level
      <4>2. \A E \in Level(n - 1) : g[E] = After(g, E)
        BY <3>3 DEF Folds
      <4>3. QED BY <4>1, <4>2
    <3>5. \A E \in Level(n) : E # {} => E \ {Latest(E)} \in Level(n - 1)
      BY <1>1, <1>3, <3>1
    <3>6. \A E \in Level(n) : E # {} => f[E \ {Latest(E)}] = g[E \ {Latest(E)}]
      <4> HIDE DEF Level, After
      <4>1. QED BY <3>4, <3>5
    <3>7. f = [E \in Level(n) |-> After(f, E)]
      <4>1. \A E \in Level(n) : After(g, E) = After(f, E)
        <5> HIDE DEF f, Level
        <5>1. QED BY <3>6
      <4> HIDE DEF After, Level
      <4>2. QED BY <4>1
    <3> HIDE DEF f, Level
    <3>8. Folds(c, Level(n), f)
      BY <3>7 DEF Folds
    <3>9. QED BY <2>2, <3>8
  <2>5. QED BY <2>3, <2>4
<1>5. Level(Cardinality(A)) = SUBSET A
  BY <1>1, FS_Subset
<1>6. Cardinality(A) \in Nat
  BY <1>1
<1>7. \E f : Folds(c, Level(Cardinality(A)), f)
  <2> HIDE DEF Level
  <2>1. QED BY <1>4, <1>6
<1> HIDE DEF Level, Fails
<1>8. QED BY <1>5, <1>7

\* Reduce is such a solution.
LEMMA ReduceFolds ==
  ASSUME NEW c, NEW A, History(A)
  PROVE  \E f : Folds(c, SUBSET A, f) /\ Reduce(c, A) = f[A]
<1> DEFINE f == CHOOSE f : Folds(c, SUBSET A, f)
<1>1. Folds(c, SUBSET A, f)
  BY FoldExists
<1>2. Reduce(c, A) = f[A]
  BY DEF Reduce, Folds
<1> HIDE DEF f
<1>3. QED BY <1>1, <1>2

\* The empty history gives the empty state, and one event more is one Apply:
\* solutions agree where both are defined.
LEMMA ReduceLast ==
  ASSUME NEW c, NEW A, History(A)
  PROVE  /\ Reduce(c, {}) = EmptyState
         /\ A # {} => Reduce(c, A) = Apply(c, Reduce(c, A \ {Latest(A)}), Latest(A))
<1>1. PICK f : Folds(c, SUBSET A, f) /\ Reduce(c, A) = f[A]
  BY ReduceFolds
<1>2. \A B \in SUBSET A : Reduce(c, B) = f[B]
  <2> TAKE B \in SUBSET A
  <2>1. History(B) /\ IsFiniteSet(B)
    BY SubHistory DEF History
  <2>2. PICK g : Folds(c, SUBSET B, g) /\ Reduce(c, B) = g[B]
    BY <2>1, ReduceFolds
  <2> DEFINE G == {E \in SUBSET B : f[E] = g[E]}
  <2>3. \A E \in SUBSET B :
          /\ f[E] = IF E = {} THEN EmptyState ELSE Apply(c, f[E \ {Latest(E)}], Latest(E))
          /\ g[E] = IF E = {} THEN EmptyState ELSE Apply(c, g[E \ {Latest(E)}], Latest(E))
    BY <1>1, <2>2 DEF Folds
  <2>4. \A E \in SUBSET B : E # {} => Latest(E) \in E
    BY <2>1, SubHistory, LatestFacts
  <2>5. \A E \in SUBSET B : E # {} /\ (\A e \in E : E \ {e} \in G) => E \in G
    BY <2>3, <2>4
  <2>6. {} \in G
    BY <2>3
  <2> HIDE DEF G
  <2>7. B \in G
    BY <2>1, <2>5, <2>6, SetInduction
  <2>8. QED BY <2>2, <2>7 DEF G
<1>3. Reduce(c, {}) = EmptyState
  BY <1>1, <1>2 DEF Folds
<1>4. ASSUME A # {}
      PROVE  Reduce(c, A) = Apply(c, Reduce(c, A \ {Latest(A)}), Latest(A))
  <2>1. f[A] = Apply(c, f[A \ {Latest(A)}], Latest(A))
    BY <1>1, <1>4 DEF Folds
  <2>2. QED BY <1>1, <1>2, <2>1
<1>5. QED BY <1>3, <1>4

\* The instant of a history's latest event.
LastAt(E) == IF E = {} THEN 0 ELSE Latest(E).at

\* The part of a history before its latest event.
LEMMA Before ==
  ASSUME NEW E, History(E), E # {}
  PROVE  /\ Latest(E) \in E /\ Latest(E) \in EventRecord
         /\ History(E \ {Latest(E)})
         /\ LastAt(E \ {Latest(E)}) \in Nat
         /\ LastAt(E \ {Latest(E)}) <= Latest(E).at /\ LastAt(E) = Latest(E).at
<1> DEFINE D == E \ {Latest(E)}
<1>1. Latest(E) \in E /\ \A y \in D : Earlier(y, Latest(E))
  BY LatestFacts
<1>2. History(D)
  BY SubHistory
<1>3. \A e \in E : e \in EventRecord /\ e.at \in Nat
  BY DEF History, EventRecord, Time
<1>4. CASE D = {}
  BY <1>1, <1>2, <1>3, <1>4 DEF LastAt
<1>5. CASE D # {}
  <2>1. Latest(D) \in D
    BY <1>2, <1>5, LatestFacts
  <2>2. LastAt(D) = Latest(D).at /\ Latest(D).at <= Latest(E).at
    BY <1>1, <1>3, <1>5, <2>1 DEF LastAt, Earlier
  <2>3. QED BY <1>1, <1>2, <1>3, <2>1, <2>2 DEF LastAt
<1>6. QED BY <1>4, <1>5

\* What a reader derives is well formed.
LEMMA ReduceOK ==
  ASSUME NEW c, NEW E, History(E)
  PROVE  StateInv(Reduce(c, E), LastAt(E))
<1> DEFINE G == {D \in SUBSET E : StateInv(Reduce(c, D), LastAt(D))}
<1>1. {} \in G
  <2>1. EmptyState \in State /\ KnownTasks(EmptyState) = {}
    BY DEF EmptyState, State, KnownTasks
  <2>2. Reduce(c, {}) = EmptyState
    BY ReduceLast
  <2>3. QED BY <2>1, <2>2 DEF StateInv
<1>2. \A D \in SUBSET E : D # {} /\ (\A e \in D : D \ {e} \in G) => D \in G
  <2> TAKE D \in SUBSET E
  <2> HAVE D # {} /\ \A e \in D : D \ {e} \in G
  <2> DEFINE L == Latest(D)
             s == Reduce(c, D \ {L})
  <2>1. History(D)
    BY SubHistory
  <2>2. /\ L \in D /\ L \in EventRecord
        /\ LastAt(D \ {L}) \in Nat /\ LastAt(D \ {L}) <= L.at /\ LastAt(D) = L.at
    BY <2>1, Before
  <2>3. Reduce(c, D) = Apply(c, s, L)
    BY <2>1, ReduceLast
  <2>4. StateInv(s, LastAt(D \ {L}))
    BY <2>2
  <2> HIDE DEF s, L
  <2>5. StepOK(s, Apply(c, s, L), L.at)
    BY <2>2, <2>4, ApplyOK
  <2>6. QED BY <2>2, <2>3, <2>5 DEF StepOK
<1>3. IsFiniteSet(E)
  BY DEF History
<1> HIDE DEF G
<1>4. E \in G
  BY <1>1, <1>2, <1>3, SetInduction
<1>5. QED BY <1>4 DEF G

\* The latest event's step.
LEMMA ReduceStep ==
  ASSUME NEW c, NEW E, History(E), E # {}
  PROVE  /\ Reduce(c, E) = Apply(c, Reduce(c, E \ {Latest(E)}), Latest(E))
         /\ EventStep(c, Reduce(c, E \ {Latest(E)}), Reduce(c, E), Latest(E))
         /\ StepOK(Reduce(c, E \ {Latest(E)}), Reduce(c, E), Latest(E).at)
<1> DEFINE D == E \ {Latest(E)}
           s == Reduce(c, D)
<1>1. /\ Latest(E) \in E /\ Latest(E) \in EventRecord /\ History(D)
      /\ LastAt(D) \in Nat /\ LastAt(D) <= Latest(E).at
  BY Before
<1>2. StateInv(s, LastAt(D))
  BY <1>1, ReduceOK
<1>3. Reduce(c, E) = Apply(c, s, Latest(E))
  BY ReduceLast
<1> HIDE DEF s
<1>4. EventStep(c, s, Apply(c, s, Latest(E)), Latest(E))
  BY <1>1, <1>2, ApplyStep
<1>5. StepOK(s, Apply(c, s, Latest(E)), Latest(E).at)
  BY <1>1, <1>2, ApplyOK
<1>6. QED BY <1>3, <1>4, <1>5 DEF s

-----------------------------------------------------------------------------
(* Histories in which the delegations of a task agree. *)

Agreed(E) ==
  /\ \A e \in E : e.kind = "delegate" =>
       /\ e.task \in TaskId /\ e.attempt \in AttemptId /\ e.to # Bad
  /\ \A e, f \in E : e.kind = "delegate" /\ f.kind = "delegate" /\ e.task = f.task =>
       e.attempt = f.attempt /\ e.to = f.to /\ e.parent = f.parent /\ e.author = f.author

\* A task as e delegated it.
OpenedBy(task, e) ==
  /\ e.kind = "delegate" /\ e.id = task.delegate
  /\ e.attempt = task.attempts[1].id /\ e.to = task.attempts[1].assignee
  /\ e.author = task.requester /\ e.parent = task.parent
  /\ task.root = (IF e.root = None THEN e.id ELSE e.root)
  /\ task.run = (IF e.run \in {None, Bad} THEN e.runTag ELSE e.run)

\* The one attempt of a task is the one its delegation asked for.
OneFrom(task, E) == Len(task.attempts) = 1 /\ \E e \in E : OpenedBy(task, e)

\* However many copies of a delegation a history holds, and in whatever order,
\* they open one attempt.
LEMMA OneAttempt ==
  ASSUME NEW c, NEW E, History(E), Agreed(E), NEW t \in KnownTasks(Reduce(c, E))
  PROVE  /\ Reduce(c, E).tasks[t] \in Task
         /\ OneFrom(Reduce(c, E).tasks[t], {e \in E : e.task = t})
<1> DEFINE Of(D) == {e \in D : e.task = t}
           G == {D \in SUBSET E : t \in KnownTasks(Reduce(c, D)) =>
                                    OneFrom(Reduce(c, D).tasks[t], Of(D))}
<1>1. t \in TaskId
  BY DEF KnownTasks
<1>2. {} \in G
  <2>1. Reduce(c, {}) = EmptyState
    BY ReduceLast
  <2>2. QED BY <2>1 DEF EmptyState, KnownTasks
<1>3. \A D \in SUBSET E : D # {} /\ (\A e \in D : D \ {e} \in G) => D \in G
  <2> TAKE D \in SUBSET E
  <2> HAVE D # {} /\ \A e \in D : D \ {e} \in G
  <2> DEFINE L == Latest(D)
             s == Reduce(c, D \ {L})
             next == Reduce(c, D)
  <2> SUFFICES ASSUME t \in KnownTasks(next) PROVE OneFrom(next.tasks[t], Of(D))
    OBVIOUS
  <2>1. History(D)
    BY SubHistory
  <2>2. L \in D /\ L \in E /\ L \in EventRecord /\ History(D \ {L})
    BY <2>1, Before
  <2>3. EventStep(c, s, next, L)
    BY <2>1, ReduceStep
  <2>4. StateInv(s, LastAt(D \ {L})) /\ StateInv(next, LastAt(D))
    BY <2>1, <2>2, ReduceOK
  <2>5. t \in KnownTasks(s) => OneFrom(s.tasks[t], Of(D \ {L}))
    BY <2>2
  <2>6. next.tasks[t] # None
    BY DEF KnownTasks
  <2> HIDE DEF s, next, L
  <2>7. s.tasks \in [TaskId -> Task \cup {None}]
    BY <2>4 DEF StateInv, State
  <2>8. \A task : OneFrom(task, Of(D \ {L})) => OneFrom(task, Of(D))
    BY DEF OneFrom
  <2>9. CASE next.tasks[t] = s.tasks[t]
    BY <1>1, <2>5, <2>6, <2>8, <2>9 DEF KnownTasks
  <2>10. CASE next.tasks[t] # s.tasks[t]
    <3>1. /\ TaskOf(L) = t
          /\ IF s.tasks[t] = None THEN Opens(L) /\ next.tasks[t] = NewTask(L)
                                  ELSE Effect(c, s.tasks[t], next.tasks[t], L)
      BY <1>1, <2>3, <2>7, <2>10 DEF EventStep
    <3>2. CASE s.tasks[t] = None
      <4>1. /\ L.kind = "delegate" /\ L.task \in TaskId /\ L.attempt \in AttemptId
            /\ next.tasks[t] = NewTask(L)
        BY <2>2, <3>1, <3>2 DEF Opens, Agreed
      <4>2. L.task = t /\ L.attempt # None
        BY <3>1, <4>1, AbsentFacts, IdAssumption DEF TaskOf, Absent
      <4>3. /\ next.tasks[t].attempts = <<NewAttempt(L)>>
            /\ NewAttempt(L).id = L.attempt /\ NewAttempt(L).assignee = L.to
        BY <4>1, <4>2 DEF NewTask, NewAttempt
      <4>4. OpenedBy(NewTask(L), L)
        BY <4>1, <4>3 DEF OpenedBy, NewTask
      <4>5. QED BY <2>2, <4>1, <4>2, <4>3, <4>4 DEF OneFrom
    <3>3. CASE s.tasks[t] # None
      <4>1. s.tasks[t] \in Task /\ s.tasks[t].attempts # <<>>
        BY <1>1, <2>4, <2>7, <3>3 DEF StateInv, TaskInv, KnownTasks
      <4>2. OneFrom(s.tasks[t], Of(D))
        BY <1>1, <2>5, <2>8, <3>3 DEF KnownTasks
      <4>3. ASSUME L.kind = "delegate" PROVE HasAttempt(s.tasks[t], NewAttempt(L).id)
        <5>1. PICK e \in Of(D) : e.kind = "delegate" /\ e.attempt = s.tasks[t].attempts[1].id
          BY <4>2 DEF OneFrom, OpenedBy
        <5>2. L.task \in TaskId /\ L.attempt \in AttemptId
          BY <2>2, <4>3 DEF Agreed
        <5>3. L.task = t /\ L.attempt # None
          BY <3>1, <5>2, AbsentFacts, IdAssumption DEF TaskOf, Absent
        <5>4. L.attempt = e.attempt
          BY <2>2, <4>3, <5>1, <5>3 DEF Agreed
        <5>5. NewAttempt(L).id = L.attempt
          BY <5>3 DEF NewAttempt
        <5>6. 1 \in DOMAIN s.tasks[t].attempts
          BY <4>1, <4>2 DEF OneFrom, Task
        <5>7. QED BY <5>1, <5>4, <5>5, <5>6 DEF HasAttempt
      <4>4. Unmoved(s.tasks[t], next.tasks[t])
        BY <2>2, <3>1, <3>3, <4>1, <4>3, EffectSame
      <4>5. Len(s.tasks[t].attempts) = 1 /\ 1 \in DOMAIN s.tasks[t].attempts
        BY <4>1, <4>2 DEF OneFrom, Task
      <4>6. \A e : OpenedBy(s.tasks[t], e) => OpenedBy(next.tasks[t], e)
        BY <4>4, <4>5 DEF Unmoved, OpenedBy
      <4>7. QED BY <4>2, <4>4, <4>5, <4>6 DEF OneFrom, Unmoved
    <3>4. QED BY <3>2, <3>3
  <2>11. QED BY <2>9, <2>10
<1>4. IsFiniteSet(E)
  BY DEF History
<1> HIDE DEF G
<1>5. E \in G
  BY <1>2, <1>3, <1>4, SetInduction
<1>6. Reduce(c, E).tasks[t] \in Task
  BY <1>1, ReduceOK DEF StateInv, State, KnownTasks
<1>7. QED BY <1>5, <1>6 DEF G

-----------------------------------------------------------------------------
(* The inductive invariant. *)

RunState ==
  [pc : {"idle", "refused", "posting", "ambiguous", "reposting", "ok", "failed"},
   msg : Message \cup {None}, result : EventId \cup {None}]

TypeOK ==
  /\ now \in Nat \ {0}
  /\ History(log)
  /\ flight \in SUBSET (Command \X EventRecord)
  /\ run \in [Command -> RunState]
  /\ stored \in [Command -> SUBSET log]

\* Event ids are unique, stored or under way.
IdsAreUnique ==
  /\ \A f, g \in flight : f[2].id = g[2].id => f = g
  /\ \A f \in flight : \A e \in log : f[2].id # e.id

\* What a member publishes by other means than these commands.
ByHand(e) == \E msg \in Foreign : IsCopy(e, msg)

\* What a command has sent are copies of its one message, and nothing else is
\* on the ledger but what members publish by hand.
CopiesOfMessages ==
  /\ \A c \in Command : \A e \in stored[c] : run[c].msg # None /\ IsCopy(e, run[c].msg)
  /\ \A f \in flight : run[f[1]].msg # None /\ IsCopy(f[2], run[f[1]].msg)
  /\ \A e \in log : ByHand(e) \/ \E c \in Command : e \in stored[c]

\* A command's message: of its member, of its kind, and unless it opens a task
\* itself, about one that a delegation in E opened, an answer about the very
\* attempt, which is its member's.
Fits(c, msg, E) ==
  /\ msg.author = c.by /\ msg.kind = c.kind
  /\ c.kind = "delegate" => msg.attempt \in AttemptId /\ msg.to = c.to
  /\ c.kind = "report" => msg.status = c.status
  /\ c.kind \in {"ack", "report"} => msg.attempt # None
  /\ c.kind = "cancel-task" => msg.attempt = None
  /\ c.kind # "delegate" =>
       \E e \in E : /\ e.kind = "delegate" /\ e.task = msg.task
                    /\ c.kind \in {"ack", "report"} => e.attempt = msg.attempt /\ e.to = c.by

Drafted ==
  \A c \in Command : /\ run[c].msg = None <=> run[c].pc \in {"idle", "refused"}
                     /\ run[c].msg # None => Fits(c, run[c].msg, log)

\* No two delegations mint the same task.
MintedOnce ==
  \A c, d \in Command :
    /\ run[c].msg # None /\ run[d].msg # None
    /\ c.kind = "delegate" /\ d.kind = "delegate" /\ run[c].msg.task = run[d].msg.task
    => c = d

\* If nothing lands late, what a command has not found stored is not stored,
\* unless it is a cancellation.
OncePosted(c, p, S) ==
  c.kind # "cancel-task" =>
    /\ p \in {"posting", "reposting"} => S = {}
    /\ \A e, f \in S : e = f
NothingHidden ==
  MayDelay \/ (flight = {} /\ \A c \in Command : OncePosted(c, run[c].pc, stored[c]))

LInv ==
  /\ TypeOK /\ IdsAreUnique /\ CopiesOfMessages /\ Drafted /\ MintedOnce
  /\ ResultIsTheMessage /\ NothingHidden

\* Every event on the ledger carries a message, and every delegation one that a
\* command drafted and stored.
LEMMA LogCarries ==
  ASSUME LInv, NEW e \in log
  PROVE  /\ \E msg \in Message : IsCopy(e, msg)
         /\ e.kind = "delegate" =>
              \E c \in Command : /\ c.kind = "delegate" /\ run[c].msg # None
                                 /\ e \in stored[c] /\ IsCopy(e, run[c].msg)
                                 /\ Fits(c, run[c].msg, log) /\ run[c].msg \in Message
<1>1. CASE ByHand(e)
  BY <1>1, ForeignAssumption DEF ByHand, IsCopy
<1>2. CASE ~ByHand(e)
  <2>1. PICK c \in Command : /\ e \in stored[c] /\ run[c].msg # None
                             /\ IsCopy(e, run[c].msg)
    BY <1>2 DEF LInv, CopiesOfMessages
  <2>2. Fits(c, run[c].msg, log) /\ run[c].msg \in Message
    BY <2>1 DEF LInv, Drafted, TypeOK, RunState
  <2>3. e.kind = c.kind
    BY <2>1, <2>2 DEF Fits, IsCopy
  <2>4. QED BY <2>1, <2>2, <2>3
<1>3. QED BY <1>1, <1>2

\* The delegations of a task on the ledger agree.
LEMMA LogAgrees ==
  ASSUME LInv
  PROVE  Agreed(log)
<1>1. \A e \in log : e.kind = "delegate" =>
        \E c \in Command : /\ c.kind = "delegate" /\ run[c].msg # None
                           /\ IsCopy(e, run[c].msg) /\ Fits(c, run[c].msg, log)
                           /\ run[c].msg \in Message
  BY LogCarries
<1>2. \A e \in log : e.kind = "delegate" =>
        e.task \in TaskId /\ e.attempt \in AttemptId /\ e.to # Bad
  <2> TAKE e \in log
  <2> HAVE e.kind = "delegate"
  <2>1. PICK c \in Command : /\ c.kind = "delegate" /\ IsCopy(e, run[c].msg)
                             /\ Fits(c, run[c].msg, log) /\ run[c].msg \in Message
    BY <1>1
  <2>2. c.to \in Member /\ Bad \notin Member
    BY CommandAssumption, IdAssumption DEF Absent
  <2>3. QED BY <2>1, <2>2 DEF IsCopy, Fits, Message
<1>3. \A e, f \in log : e.kind = "delegate" /\ f.kind = "delegate" /\ e.task = f.task =>
        e.attempt = f.attempt /\ e.to = f.to /\ e.parent = f.parent /\ e.author = f.author
  BY <1>1 DEF LInv, MintedOnce, IsCopy
<1>4. QED BY <1>2, <1>3 DEF Agreed

\* The task a reader finds was opened by a delegation on the ledger, and its
\* current attempt is the one that delegation asked for.
LEMMA ViewFacts ==
  ASSUME LInv, NEW c, NEW t \in KnownTasks(Reduce(c, log))
  PROVE  LET task == Reduce(c, log).tasks[t] IN
         /\ task \in Task /\ t \in TaskId
         /\ Current(task) \in Attempt
         /\ \E e \in log : /\ e.kind = "delegate" /\ e.task = t
                           /\ e.attempt = Current(task).id /\ e.to = Current(task).assignee
<1> DEFINE task == Reduce(c, log).tasks[t]
<1>1. task \in Task /\ OneFrom(task, {e \in log : e.task = t})
  <2>1. History(log)
    BY DEF LInv, TypeOK
  <2>2. Agreed(log)
    BY LogAgrees
  <2>3. QED BY <2>1, <2>2, OneAttempt
<1>2. Current(task) = task.attempts[1] /\ Current(task) \in Attempt
  BY <1>1 DEF OneFrom, Current, Task
<1>3. t \in TaskId
  BY DEF KnownTasks
<1> HIDE DEF task
<1>4. /\ task \in Task /\ t \in TaskId
      /\ Current(task) \in Attempt
      /\ \E e \in log : /\ e.kind = "delegate" /\ e.task = t
                        /\ e.attempt = Current(task).id /\ e.to = Current(task).assignee
  BY <1>1, <1>2, <1>3 DEF OneFrom, OpenedBy
<1>5. QED BY <1>4 DEF task

\* The thread an event belongs to.
ThreadOf(e) == IF e.root = None THEN e.id ELSE e.root

\* A run's thread is one of its events', if it has any.
LEMMA RunRootFacts ==
  ASSUME LInv, NEW r \in RunId \cup {None}
  PROVE  /\ RunRoot(r) \in EventId \cup {None}
         /\ r # None => \/ RunRoot(r) = None /\ \A e \in log : e.runTag # r
                        \/ \E e \in log : e.runTag = r /\ RunRoot(r) = ThreadOf(e)
<1> DEFINE E == {e \in log : e.runTag = r}
           first == CHOOSE x \in E : \A y \in E \ {x} : Earlier(x, y)
<1>1. CASE r = None \/ E = {}
  BY <1>1 DEF RunRoot
<1>2. CASE r # None /\ E # {}
  <2>1. History(E)
    <3>1. History(log) /\ E \in SUBSET log
      BY DEF LInv, TypeOK
    <3>2. QED BY <3>1, SubHistory
  <2>2. first \in E
    <3> HIDE DEF E
    <3>1. QED BY <1>2, <2>1, EarliestExists
  <2>3. first \in EventRecord
    BY <2>1, <2>2 DEF History
  <2>4. RunRoot(r) = ThreadOf(first)
    BY <1>2 DEF RunRoot, ThreadOf
  <2>5. first \in log /\ first.runTag = r
    BY <2>2
  <2> HIDE DEF first
  <2>6. QED BY <2>3, <2>4, <2>5 DEF EventRecord, ThreadOf
<1>3. QED BY <1>1, <1>2

\* The fresh event a member signs is a copy of its message.
LEMMA Signed ==
  ASSUME LInv, NEW msg \in Message, NEW id \in FreshIds
  PROVE  /\ Sign(msg, id) \in EventRecord /\ Sign(msg, id).id = id
         /\ IsCopy(Sign(msg, id), msg)
         /\ \A e \in log : e.id # id
         /\ \A f \in flight : f[2].id # id
<1>1. Clock(msg.author) \in Nat
  <2>1. now \in Nat \ {0} /\ msg.author \in Member
    BY DEF LInv, TypeOK, Message
  <2>2. Skew[msg.author] \in Int /\ Skew[msg.author] >= -1
    BY <2>1, LedgerAssumption
  <2>3. QED BY <2>1, <2>2 DEF Clock
<1>2. Sign(msg, id) \in EventRecord
  BY <1>1 DEF Sign, EventRecord, Message, FreshIds, Time, Kind, Reported
<1>3. IsCopy(Sign(msg, id), msg) /\ Sign(msg, id).id = id
  BY DEF Sign, IsCopy
<1>4. QED BY <1>2, <1>3 DEF FreshIds, UsedIds

-----------------------------------------------------------------------------
(* The invariant is inductive. *)

LEMMA InitLInv ==
  ASSUME Init PROVE LInv
<1>1. History(log)
  BY FS_EmptySet DEF Init, History
<1>2. TypeOK
  BY <1>1 DEF Init, TypeOK, RunState
<1>3. IdsAreUnique /\ CopiesOfMessages
  BY DEF Init, IdsAreUnique, CopiesOfMessages
<1>4. Drafted /\ MintedOnce /\ ResultIsTheMessage
  BY DEF Init, Drafted, MintedOnce, ResultIsTheMessage
<1>5. NothingHidden
  BY DEF Init, NothingHidden, OncePosted
<1>6. QED BY <1>2, <1>3, <1>4, <1>5 DEF LInv

\* What a member publishes by hand joins the ledger and nothing else changes.
LEMMA PublishLInv ==
  ASSUME LInv, Publish PROVE LInv'
<1>1. PICK msg \in Foreign, id \in FreshIds : log' = log \cup {Sign(msg, id)}
  BY DEF Publish
<1> DEFINE ev == Sign(msg, id)
<1>2. /\ ev \in EventRecord /\ ev.id = id /\ IsCopy(ev, msg)
      /\ \A e \in log : e.id # id
      /\ \A f \in flight : f[2].id # id
  BY ForeignAssumption, Signed
<1>3. log' = log \cup {ev} /\ UNCHANGED <<now, flight, run, stored>>
  BY <1>1 DEF Publish
<1> HIDE DEF ev
<1>4. TypeOK'
  <2>1. History(log) /\ stored \in [Command -> SUBSET log]
    BY DEF LInv, TypeOK
  <2>2. IsFiniteSet(log')
    BY <1>3, <2>1, FS_AddElement DEF History
  <2>3. History(log')
    BY <1>2, <1>3, <2>1, <2>2 DEF History
  <2>4. stored' \in [Command -> SUBSET log']
    BY <1>3, <2>1
  <2>5. QED BY <1>3, <2>3, <2>4 DEF LInv, TypeOK
<1>5. IdsAreUnique'
  BY <1>2, <1>3 DEF LInv, IdsAreUnique
<1>6. CopiesOfMessages'
  BY <1>2, <1>3 DEF LInv, CopiesOfMessages, ByHand
<1>7. Drafted'
  <2>1. \A d \in Command : Fits(d, run[d].msg, log) => Fits(d, run[d].msg, log')
    BY <1>3 DEF Fits
  <2>2. QED BY <1>3, <2>1 DEF LInv, Drafted
<1>8. MintedOnce'
  BY <1>3 DEF LInv, MintedOnce
<1>9. ResultIsTheMessage'
  BY <1>3 DEF LInv, ResultIsTheMessage, Answered
<1>10. NothingHidden'
  BY <1>3 DEF LInv, NothingHidden
<1>11. QED BY <1>4, <1>5, <1>6, <1>7, <1>8, <1>9, <1>10 DEF LInv

\* Nothing but the clock and where idle commands are.
LEMMA TickLInv ==
  ASSUME LInv, Tick PROVE LInv'
<1>1. UNCHANGED <<log, flight, run, stored>> /\ now' = now + 1
  BY DEF Tick
<1>2. TypeOK'
  BY <1>1 DEF LInv, TypeOK
<1>3. IdsAreUnique' /\ CopiesOfMessages'
  BY <1>1 DEF LInv, IdsAreUnique, CopiesOfMessages
<1>4. Drafted' /\ MintedOnce' /\ ResultIsTheMessage'
  BY <1>1 DEF LInv, Drafted, MintedOnce, ResultIsTheMessage, Answered
<1>5. NothingHidden'
  BY <1>1 DEF LInv, NothingHidden
<1>6. QED BY <1>2, <1>3, <1>4, <1>5 DEF LInv

LEMMA RefuseLInv ==
  ASSUME LInv, NEW c \in Command, Free(c), Refuse(c) PROVE LInv'
<1>1. /\ UNCHANGED <<now, log, flight, stored>>
      /\ run' = [run EXCEPT ![c].pc = "refused"]
      /\ run[c].pc = "idle" /\ run \in [Command -> RunState]
  BY DEF Refuse, Free, LInv, TypeOK
<1>2. /\ run' \in [Command -> RunState]
      /\ run'[c].pc = "refused" /\ run'[c].msg = run[c].msg /\ run[c].msg = None
      /\ \A d \in Command : d # c => run'[d] = run[d]
  BY <1>1 DEF RunState, LInv, Drafted
<1>3. \A d \in Command : run'[d].msg = run[d].msg
  BY <1>2
<1>4. TypeOK'
  BY <1>1, <1>2 DEF LInv, TypeOK
<1>5. IdsAreUnique' /\ CopiesOfMessages'
  <2>1. IdsAreUnique'
    BY <1>1 DEF LInv, IdsAreUnique
  <2>2. \A f \in flight : f[1] \in Command
    BY DEF LInv, TypeOK
  <2>3. CopiesOfMessages'
    BY <1>1, <1>3, <2>2 DEF LInv, CopiesOfMessages
  <2>4. QED BY <2>1, <2>3
<1>6. Drafted' /\ MintedOnce'
  BY <1>1, <1>2 DEF LInv, Drafted, MintedOnce
<1>7. ResultIsTheMessage'
  BY <1>1, <1>2 DEF LInv, ResultIsTheMessage, Answered
<1>8. NothingHidden'
  BY <1>1, <1>2 DEF LInv, NothingHidden, OncePosted
<1>9. QED BY <1>4, <1>5, <1>6, <1>7, <1>8 DEF LInv

\* A command that has checked what it read drafts a message that fits.
LEMMA PrepareLInv ==
  ASSUME LInv, NEW c \in Command, Free(c), NEW msg \in Message, Prepare(c, msg),
         Fits(c, msg, log),
         c.kind = "delegate" => \A d \in Command : run[d].msg # None => run[d].msg.task # msg.task
  PROVE  LInv'
<1>1. /\ UNCHANGED <<now, log, flight, stored>>
      /\ run' = [run EXCEPT ![c].pc = "posting", ![c].msg = msg]
      /\ run[c].pc = "idle" /\ run \in [Command -> RunState] /\ run[c].msg = None
      /\ msg # None
  BY MessageAssumption DEF Prepare, Free, LInv, TypeOK, Drafted
<1>2. /\ run' \in [Command -> RunState]
      /\ run'[c].pc = "posting" /\ run'[c].msg = msg
      /\ \A d \in Command : d # c => run'[d] = run[d]
  BY <1>1 DEF RunState
<1>3. stored[c] = {} /\ \A f \in flight : f[1] # c /\ f[1] \in Command
  BY <1>1 DEF LInv, TypeOK, CopiesOfMessages
<1>4. TypeOK'
  BY <1>1, <1>2 DEF LInv, TypeOK
<1>5. IdsAreUnique' /\ CopiesOfMessages'
  <2>1. IdsAreUnique'
    BY <1>1 DEF LInv, IdsAreUnique
  <2>2. CopiesOfMessages'
    BY <1>1, <1>2, <1>3 DEF LInv, CopiesOfMessages
  <2>3. QED BY <2>1, <2>2
<1>6. Drafted'
  <2>1. \A d \in Command : /\ run'[d].msg = None <=> run'[d].pc \in {"idle", "refused"}
                           /\ run'[d].msg # None => Fits(d, run'[d].msg, log)
    BY <1>1, <1>2 DEF LInv, Drafted
  <2>2. QED BY <1>1, <2>1 DEF Drafted
<1>7. MintedOnce'
  BY <1>1, <1>2 DEF LInv, MintedOnce
<1>8. ResultIsTheMessage'
  BY <1>1, <1>2 DEF LInv, ResultIsTheMessage, Answered
<1>9. NothingHidden'
  BY <1>1, <1>2, <1>3 DEF LInv, NothingHidden, OncePosted
<1>10. QED BY <1>4, <1>5, <1>6, <1>7, <1>8, <1>9 DEF LInv

\* The event a command answers with.
IsResult(c, id, msg, E) ==
  \E e \in E : /\ e.id = id /\ e.kind = c.kind
               /\ e.task = msg.task /\ e.attempt = msg.attempt
               /\ e.author = c.by \/ ByHand(e)

\* What every step of posting does: c, its message drafted, goes on to r, and
\* the ledger gains N, which is at most one fresh copy of that message.
Posts(c, r, N) ==
  /\ now' = now
  /\ run' = [run EXCEPT ![c] = r] /\ r \in RunState /\ r.msg = run[c].msg
  /\ run[c].msg # None /\ r.pc \notin {"idle", "refused"}
  /\ r.pc = "ok" => IsResult(c, r.result, r.msg, log \cup N)
  /\ log' = log \cup N
  /\ stored' = [stored EXCEPT ![c] = @ \cup N]
  /\ \A e, f \in N : e = f
  /\ \A e \in N : e \in EventRecord /\ IsCopy(e, run[c].msg) /\ \A f \in log : e.id # f.id
  /\ flight' \in SUBSET (Command \X EventRecord)
  /\ \A f \in flight' : f \in flight \/ (f[1] = c /\ IsCopy(f[2], run[c].msg))
  /\ IdsAreUnique'
  /\ MayDelay \/ (flight' = {} /\ OncePosted(c, r.pc, stored[c] \cup N))

LEMMA PostsLInv ==
  ASSUME LInv, NEW c \in Command, NEW r, NEW N, Posts(c, r, N)
  PROVE  LInv'
<1>1. /\ run' \in [Command -> RunState] /\ run'[c] = r /\ r.msg = run[c].msg
      /\ \A d \in Command : d # c => run'[d] = run[d]
  BY DEF Posts, LInv, TypeOK
<1>2. \A d \in Command : run'[d].msg = run[d].msg
  BY <1>1
<1>3. /\ stored \in [Command -> SUBSET log]
      /\ stored'[c] = stored[c] \cup N /\ log' = log \cup N
      /\ \A d \in Command : d # c => stored'[d] = stored[d]
  BY DEF Posts, LInv, TypeOK
<1>4. TypeOK'
  <2>1. History(log')
    <3>1. IsFiniteSet(N)
      <4>1. CASE N = {}
        BY <4>1, FS_EmptySet
      <4>2. CASE N # {}
        <5>1. PICK e : e \in N
          BY <4>2
        <5>2. N = {e}
          BY <5>1 DEF Posts
        <5>3. QED BY <5>2, FS_Singleton
      <4>3. QED BY <4>1, <4>2
    <3>2. History(log)
      BY DEF LInv, TypeOK
    <3>3. IsFiniteSet(log \cup N)
      BY <3>1, <3>2, FS_Union DEF History
    <3>4. log' = log \cup N /\ (\A e, f \in N : e = f)
          /\ \A e \in N : e \in EventRecord /\ \A f \in log : e.id # f.id
      BY DEF Posts
    <3>5. QED BY <3>2, <3>3, <3>4 DEF History
  <2>2. stored' \in [Command -> SUBSET log']
    BY <1>3 DEF Posts
  <2>3. now' \in Nat \ {0} /\ flight' \in SUBSET (Command \X EventRecord)
    BY DEF Posts, LInv, TypeOK
  <2>4. QED BY <1>1, <2>1, <2>2, <2>3 DEF TypeOK
<1>5. CopiesOfMessages'
  <2>1. /\ \A d \in Command : \A e \in stored[d] : run[d].msg # None /\ IsCopy(e, run[d].msg)
        /\ \A f \in flight : /\ run[f[1]].msg # None /\ IsCopy(f[2], run[f[1]].msg)
                             /\ f[1] \in Command
        /\ \A e \in log : ByHand(e) \/ \E d \in Command : e \in stored[d]
    BY DEF LInv, TypeOK, CopiesOfMessages
  <2>2. /\ run[c].msg # None
        /\ \A e \in N : IsCopy(e, run[c].msg)
        /\ \A f \in flight' : f \in flight \/ (f[1] = c /\ IsCopy(f[2], run[c].msg))
    BY DEF Posts
  <2>3. \A d \in Command : \A e \in stored'[d] : run'[d].msg # None /\ IsCopy(e, run'[d].msg)
    BY <1>2, <1>3, <2>1, <2>2
  <2>4. \A f \in flight' : run'[f[1]].msg # None /\ IsCopy(f[2], run'[f[1]].msg)
    BY <1>2, <2>1, <2>2
  <2>5. \A e \in log' : ByHand(e) \/ \E d \in Command : e \in stored'[d]
    BY <1>3, <2>1
  <2>6. QED BY <2>3, <2>4, <2>5 DEF CopiesOfMessages
<1>6. Drafted'
  <2>1. \A d \in Command : Fits(d, run[d].msg, log) => Fits(d, run'[d].msg, log')
    BY <1>2, <1>3 DEF Fits
  <2>2. \A d \in Command : run'[d].msg = None <=> run'[d].pc \in {"idle", "refused"}
    BY <1>1, <1>2 DEF LInv, Drafted, Posts
  <2>3. QED BY <1>2, <2>1, <2>2 DEF LInv, Drafted
<1>7. MintedOnce'
  BY <1>2 DEF LInv, MintedOnce
<1>8. ResultIsTheMessage'
  <2>1. \A d \in Command : run[d].pc = "ok" => IsResult(d, run[d].result, run[d].msg, log)
    BY DEF LInv, ResultIsTheMessage, Answered, IsResult, ByHand
  <2>2. \A d \in Command : run'[d].pc = "ok" => IsResult(d, run'[d].result, run'[d].msg, log')
    <3> TAKE d \in Command
    <3>1. CASE d = c
      BY <1>1, <1>3, <3>1 DEF Posts
    <3>2. CASE d # c
      BY <1>1, <1>3, <2>1, <3>2 DEF IsResult
    <3>3. QED BY <3>1, <3>2
  <2>3. QED BY <2>2 DEF ResultIsTheMessage, Answered, IsResult, ByHand
<1>9. NothingHidden'
  <2>1. CASE MayDelay
    BY <2>1 DEF NothingHidden
  <2>2. CASE ~MayDelay
    BY <1>1, <1>3, <2>2 DEF LInv, NothingHidden, Posts
  <2>3. QED BY <2>1, <2>2
<1>10. IdsAreUnique'
  BY DEF Posts
<1>11. QED BY <1>4, <1>5, <1>6, <1>7, <1>8, <1>9, <1>10 DEF LInv

\* Between its draft and its result a command has a message of its own.
LEMMA Posting ==
  ASSUME LInv, NEW c \in Command, run[c].pc \notin {"idle", "refused"}
  PROVE  /\ run[c] \in RunState /\ run[c].msg \in Message /\ run[c].msg # None
         /\ Fits(c, run[c].msg, log) /\ run[c].msg.author = c.by /\ run[c].msg.kind = c.kind
         /\ stored[c] \subseteq log
         /\ MayDelay \/ (flight = {} /\ OncePosted(c, run[c].pc, stored[c]))
<1>1. run[c] \in RunState /\ run[c].msg # None /\ stored[c] \subseteq log
  BY DEF LInv, TypeOK, Drafted
<1>2. Fits(c, run[c].msg, log)
  BY <1>1 DEF LInv, Drafted
<1>3. MayDelay \/ (flight = {} /\ OncePosted(c, run[c].pc, stored[c]))
  BY DEF LInv, NothingHidden
<1>4. QED BY <1>1, <1>2, <1>3 DEF RunState, Fits

\* A post that stores its event, and ends or is in doubt.
LEMMA StoreLInv ==
  ASSUME LInv, NEW c \in Command, run[c].pc \in {"posting", "reposting"},
         NEW id \in FreshIds, Store(c, Sign(run[c].msg, id)), UNCHANGED <<now, flight>>,
         NEW r \in RunState, run' = [run EXCEPT ![c] = r], r.msg = run[c].msg,
         r.pc \in {"ok", "failed", "ambiguous"}, r.pc = "ok" => r.result = id
  PROVE  LInv'
<1> DEFINE ev == Sign(run[c].msg, id)
<1>1. /\ run[c].msg \in Message /\ run[c].msg # None
      /\ run[c].msg.author = c.by /\ run[c].msg.kind = c.kind
      /\ MayDelay \/ (flight = {} /\ OncePosted(c, run[c].pc, stored[c]))
  BY Posting
<1>2. /\ ev \in EventRecord /\ ev.id = id /\ IsCopy(ev, run[c].msg)
      /\ \A e \in log : e.id # id
      /\ \A f \in flight : f[2].id # id
  BY <1>1, Signed
<1>3. log' = log \cup {ev} /\ stored' = [stored EXCEPT ![c] = @ \cup {ev}]
  BY DEF Store
<1> HIDE DEF ev
<1>4. IsResult(c, id, run[c].msg, log \cup {ev})
  BY <1>1, <1>2 DEF IsResult, IsCopy
<1>5. IdsAreUnique'
  BY <1>2, <1>3 DEF LInv, IdsAreUnique
<1>6. MayDelay \/ (flight' = {} /\ OncePosted(c, r.pc, stored[c] \cup {ev}))
  BY <1>1 DEF OncePosted
<1>7. flight' \in SUBSET (Command \X EventRecord)
  BY DEF LInv, TypeOK
<1>8. Posts(c, r, {ev})
  BY <1>1, <1>2, <1>3, <1>4, <1>5, <1>6, <1>7 DEF Posts
<1>9. QED BY <1>8, PostsLInv

\* A step of posting that stores nothing.
LEMMA QuietLInv ==
  ASSUME LInv, NEW c \in Command, run[c].pc \notin {"idle", "refused"},
         UNCHANGED <<now, log, flight, stored>>,
         NEW r \in RunState, run' = [run EXCEPT ![c] = r], r.msg = run[c].msg,
         r.pc \notin {"idle", "refused"},
         r.pc = "ok" => IsResult(c, r.result, r.msg, log),
         MayDelay \/ OncePosted(c, r.pc, stored[c])
  PROVE  LInv'
<1>1. run[c].msg # None /\ (MayDelay \/ flight = {})
  BY Posting
<1>2. log \cup {} = log /\ stored[c] \cup {} = stored[c] /\ stored' = [stored EXCEPT ![c] = @ \cup {}]
  BY DEF LInv, TypeOK
<1>3. IdsAreUnique' /\ flight' \in SUBSET (Command \X EventRecord)
  BY DEF LInv, TypeOK, IdsAreUnique
<1>4. Posts(c, r, {})
  BY <1>1, <1>2, <1>3 DEF Posts
<1>5. QED BY <1>4, PostsLInv

LEMMA PostAcceptedLInv ==
  ASSUME LInv, NEW c \in Command, PostAccepted(c) PROVE LInv'
<1>1. PICK id \in FreshIds : Store(c, Sign(run[c].msg, id)) /\ Return(c, "ok", id)
  BY DEF PostAccepted
<1> DEFINE r == [run[c] EXCEPT !.pc = "ok", !.result = id]
<1>2. run[c].pc \in {"posting", "reposting"} /\ UNCHANGED <<now, flight>>
  BY DEF PostAccepted
<1>3. run[c] \in RunState
  BY <1>2, Posting
<1>4. r \in RunState /\ r.pc = "ok" /\ r.result = id /\ r.msg = run[c].msg
  BY <1>3 DEF RunState, FreshIds
<1>5. run' = [run EXCEPT ![c] = r]
  BY <1>1 DEF Return, LInv, TypeOK
<1> HIDE DEF r
<1>6. QED BY <1>1, <1>2, <1>4, <1>5, StoreLInv

LEMMA PostFailsLInv ==
  ASSUME LInv, NEW c \in Command, PostFails(c) PROVE LInv'
<1> DEFINE r == [run[c] EXCEPT !.pc = "failed", !.result = None]
<1>1. run[c].pc \in {"posting", "reposting"} /\ UNCHANGED <<now, flight>> /\ Return(c, "failed", None)
  BY DEF PostFails
<1>2. run[c] \in RunState /\ (MayDelay \/ OncePosted(c, run[c].pc, stored[c]))
  BY <1>1, Posting
<1>3. r \in RunState /\ r.pc = "failed" /\ r.result = None /\ r.msg = run[c].msg
  BY <1>2 DEF RunState
<1>4. run' = [run EXCEPT ![c] = r]
  BY <1>1 DEF Return, LInv, TypeOK
<1> HIDE DEF r
<1>5. CASE UNCHANGED <<log, stored>>
  <2>1. MayDelay \/ OncePosted(c, r.pc, stored[c])
    BY <1>1, <1>2, <1>3 DEF OncePosted
  <2>2. QED BY <1>1, <1>3, <1>4, <1>5, <2>1, QuietLInv
<1>6. CASE \E id \in FreshIds : Store(c, Sign(run[c].msg, id))
  <2>1. PICK id \in FreshIds : Store(c, Sign(run[c].msg, id))
    BY <1>6
  <2>2. QED BY <1>1, <1>3, <1>4, <2>1, StoreLInv
<1>7. QED BY <1>5, <1>6 DEF PostFails

LEMMA PostTimesOutLInv ==
  ASSUME LInv, NEW c \in Command, PostTimesOut(c) PROVE LInv'
<1> DEFINE r == [run[c] EXCEPT !.pc = "ambiguous"]
<1>1. run[c].pc = "posting" /\ UNCHANGED now
  BY DEF PostTimesOut
<1>2. /\ run[c] \in RunState /\ run[c].msg \in Message /\ run[c].msg # None
      /\ MayDelay \/ (flight = {} /\ OncePosted(c, run[c].pc, stored[c]))
  BY <1>1, Posting
<1>3. r \in RunState /\ r.pc = "ambiguous" /\ r.msg = run[c].msg
  BY <1>2 DEF RunState
<1>4. run' = [run EXCEPT ![c] = r]
  BY DEF PostTimesOut, LInv, TypeOK
<1> HIDE DEF r
<1>5. CASE UNCHANGED <<log, stored, flight>>
  <2>1. MayDelay \/ OncePosted(c, r.pc, stored[c])
    BY <1>1, <1>2, <1>3 DEF OncePosted
  <2>2. QED BY <1>1, <1>3, <1>4, <1>5, <2>1, QuietLInv
<1>6. CASE \E id \in FreshIds : Store(c, Sign(run[c].msg, id)) /\ UNCHANGED flight
  <2>1. PICK id \in FreshIds : Store(c, Sign(run[c].msg, id)) /\ UNCHANGED flight
    BY <1>6
  <2>2. QED BY <1>1, <1>3, <1>4, <2>1, StoreLInv
<1>7. CASE /\ MayDelay
           /\ \E id \in FreshIds : flight' = flight \cup {<<c, Sign(run[c].msg, id)>>}
           /\ UNCHANGED <<log, stored>>
  <2>1. PICK id \in FreshIds : flight' = flight \cup {<<c, Sign(run[c].msg, id)>>}
    BY <1>7
  <2> DEFINE ev == Sign(run[c].msg, id)
  <2>2. /\ ev \in EventRecord /\ ev.id = id /\ IsCopy(ev, run[c].msg)
        /\ \A e \in log : e.id # id
        /\ \A f \in flight : f[2].id # id
    BY <1>2, Signed
  <2>3. flight' = flight \cup {<<c, ev>>}
    BY <2>1
  <2> HIDE DEF ev
  <2>4. flight' \in SUBSET (Command \X EventRecord)
    BY <2>2, <2>3 DEF LInv, TypeOK
  <2>5. IdsAreUnique'
    BY <1>7, <2>2, <2>3 DEF LInv, IdsAreUnique
  <2>6. log \cup {} = log /\ stored' = [stored EXCEPT ![c] = @ \cup {}]
    BY <1>7 DEF LInv, TypeOK
  <2>7. \A f \in flight' : f \in flight \/ (f[1] = c /\ IsCopy(f[2], run[c].msg))
    BY <2>2, <2>3
  <2>8. log' = log \cup {} /\ now' = now /\ MayDelay
    BY <1>1, <1>7, <2>6
  <2>9. Posts(c, r, {})
    BY <1>2, <1>3, <1>4, <2>4, <2>5, <2>6, <2>7, <2>8 DEF Posts
  <2>10. QED BY <2>9, PostsLInv
<1>8. QED BY <1>5, <1>6, <1>7 DEF PostTimesOut

\* An event that lands late is its command's own.
LEMMA LandLInv ==
  ASSUME LInv, NEW c \in Command, Land(c) PROVE LInv'
<1>1. PICK f \in flight : f[1] = c /\ Store(c, f[2]) /\ flight' = flight \ {f}
  BY DEF Land
<1>2. UNCHANGED <<now, run>>
  BY DEF Land
<1>3. f[2] \in EventRecord /\ run[c].msg # None /\ IsCopy(f[2], run[c].msg) /\ MayDelay
  BY <1>1 DEF LInv, TypeOK, CopiesOfMessages, NothingHidden
<1>4. run[c].pc \notin {"idle", "refused"} /\ run[c] \in RunState
  BY <1>3 DEF LInv, Drafted, TypeOK
<1>5. run' = [run EXCEPT ![c] = run[c]]
  BY <1>2 DEF LInv, TypeOK
<1>6. log' = log \cup {f[2]} /\ stored' = [stored EXCEPT ![c] = @ \cup {f[2]}]
  BY <1>1 DEF Store
<1>7. run[c].pc = "ok" => IsResult(c, run[c].result, run[c].msg, log \cup {f[2]})
  BY DEF LInv, ResultIsTheMessage, Answered, IsResult, ByHand
<1>8. \A e \in log : f[2].id # e.id
  BY DEF LInv, IdsAreUnique
<1>9. IdsAreUnique'
  BY <1>1, <1>6 DEF LInv, IdsAreUnique
<1>10. flight' \in SUBSET (Command \X EventRecord) /\ flight' \subseteq flight
  BY <1>1 DEF LInv, TypeOK
<1>11. Posts(c, run[c], {f[2]})
  BY <1>2, <1>3, <1>4, <1>5, <1>6, <1>7, <1>8, <1>9, <1>10 DEF Posts
<1>12. QED BY <1>11, PostsLInv

\* What the re-read takes for the command's message is one of its member's, if a
\* command posted it.
LEMMA FoundIsOwn ==
  ASSUME LInv, NEW c \in Command, run[c].msg # None,
         NEW e \in log, IsSame(e, run[c].msg)
  PROVE  e.kind = c.kind /\ (e.author = c.by \/ ByHand(e))
<1> SUFFICES ASSUME ~ByHand(e) PROVE e.kind = c.kind /\ e.author = c.by
  BY DEF IsSame, LInv, Drafted, Fits
<1>1. PICK d \in Command : e \in stored[d] /\ run[d].msg # None /\ IsCopy(e, run[d].msg)
  BY DEF LInv, CopiesOfMessages
<1>2. Fits(c, run[c].msg, log) /\ Fits(d, run[d].msg, log)
  BY <1>1 DEF LInv, Drafted
<1>3. /\ e.kind = d.kind /\ e.kind = c.kind /\ e.author = d.by
      /\ run[d].msg.task = run[c].msg.task /\ run[d].msg.attempt = run[c].msg.attempt
      /\ run[c].msg.attempt # None
  BY <1>1, <1>2 DEF IsSame, IsCopy, Fits
<1>4. c.kind \in {"delegate", "ack", "report", "cancel-task"}
  BY CommandAssumption
<1>5. CASE c.kind = "delegate"
  BY <1>1, <1>3, <1>5 DEF LInv, MintedOnce
<1>6. CASE c.kind \in {"ack", "report"}
  <2>1. PICK x \in log : x.kind = "delegate" /\ x.task = run[c].msg.task /\ x.to = c.by
    BY <1>2, <1>6 DEF Fits
  <2>2. PICK y \in log : y.kind = "delegate" /\ y.task = run[d].msg.task /\ y.to = d.by
    BY <1>2, <1>3, <1>6 DEF Fits
  <2>3. x.to = y.to
    BY <1>3, <2>1, <2>2, LogAgrees DEF Agreed
  <2>4. QED BY <1>3, <2>1, <2>2, <2>3
<1>7. CASE c.kind = "cancel-task"
  BY <1>2, <1>3, <1>7 DEF Fits
<1>8. QED BY <1>4, <1>5, <1>6, <1>7

LEMMA RereadLInv ==
  ASSUME LInv, NEW c \in Command, Reread(c) PROVE LInv'
<1> DEFINE msg == run[c].msg
           read == IF msg.root = None THEN log ELSE Thread(msg.root)
           found == {e \in read : IsSame(e, msg)}
           to(pc, id) == [run[c] EXCEPT !.pc = pc, !.result = id]
<1>1. run[c].pc = "ambiguous" /\ UNCHANGED <<now, log, flight, stored>>
  BY DEF Reread
<1>2. /\ run[c] \in RunState /\ msg \in Message /\ msg # None
      /\ stored[c] \subseteq log /\ log \subseteq EventRecord
      /\ MayDelay \/ OncePosted(c, "ambiguous", stored[c])
  <2>1. log \subseteq EventRecord
    BY DEF LInv, TypeOK, History
  <2>2. QED BY <1>1, <2>1, Posting
<1>3. found \subseteq log
  BY DEF Thread
<1>4. \A pc, id : Return(c, pc, id) => run' = [run EXCEPT ![c] = to(pc, id)]
  BY DEF Return, LInv, TypeOK
<1>5. \A pc \in {"ok", "reposting", "failed"} : \A id \in EventId \cup {None} :
        /\ to(pc, id) \in RunState /\ to(pc, id).pc = pc /\ to(pc, id).result = id
        /\ to(pc, id).msg = msg
  BY <1>2 DEF RunState
<1>6. /\ MayDelay \/ (OncePosted(c, "ok", stored[c]) /\ OncePosted(c, "failed", stored[c]))
      /\ found = {} => MayDelay \/ OncePosted(c, "reposting", stored[c])
  <2>1. ASSUME c.kind # "cancel-task", found = {} PROVE stored[c] = {}
    <3>1. SUFFICES ASSUME NEW e \in stored[c] PROVE FALSE
      OBVIOUS
    <3>2. IsCopy(e, msg) /\ e \in log
      BY <1>2 DEF LInv, CopiesOfMessages
    <3>3. msg.attempt # None
      <4>1. Fits(c, msg, log)
        BY <1>1, Posting
      <4>2. c.kind \in {"delegate", "ack", "report"}
        BY <2>1, CommandAssumption
      <4>3. None \notin AttemptId
        BY IdAssumption DEF Absent
      <4>4. QED BY <4>1, <4>2, <4>3 DEF Fits
    <3>4. e \in read /\ IsSame(e, msg)
      BY <3>2, <3>3 DEF Thread, IsSame, IsCopy
    <3>5. QED BY <2>1, <3>4
  <2> HIDE DEF found
  <2>2. QED BY <1>2, <2>1 DEF OncePosted
<1>7. ASSUME NEW e \in found, Return(c, "ok", e.id) PROVE LInv'
  <2>1. e \in log /\ IsSame(e, msg) /\ e.id \in EventId
    BY <1>2, <1>3, <1>7 DEF EventRecord
  <2>2. e.kind = c.kind /\ (e.author = c.by \/ ByHand(e))
    BY <1>2, <2>1, FoundIsOwn
  <2>3. IsResult(c, e.id, msg, log)
    BY <2>1, <2>2 DEF IsResult, IsSame
  <2>4. run' = [run EXCEPT ![c] = to("ok", e.id)]
    BY <1>4, <1>7
  <2>5. /\ to("ok", e.id) \in RunState /\ to("ok", e.id).pc = "ok"
        /\ to("ok", e.id).result = e.id /\ to("ok", e.id).msg = msg
    BY <1>5, <2>1
  <2> HIDE DEF to, found, read
  <2>6. QED BY <1>1, <1>6, <2>3, <2>4, <2>5, QuietLInv
<1>8. ASSUME NEW pc \in {"reposting", "failed"}, Return(c, pc, None),
             pc = "reposting" => found = {}
      PROVE  LInv'
  <2> HIDE DEF to, found, read
  <2>1. run' = [run EXCEPT ![c] = to(pc, None)]
    BY <1>4, <1>8
  <2>2. to(pc, None) \in RunState /\ to(pc, None).pc = pc /\ to(pc, None).msg = msg
    BY <1>5
  <2>3. MayDelay \/ OncePosted(c, pc, stored[c])
    BY <1>6, <1>8
  <2>4. QED BY <1>1, <2>1, <2>2, <2>3, QuietLInv
<1>9. QED BY <1>7, <1>8 DEF Reread

-----------------------------------------------------------------------------
(* The drafts fit. *)

LEMMA DraftType ==
  ASSUME NEW m \in Member, NEW kind \in {"delegate", "ack", "report", "cancel-task"},
         NEW t \in TaskId, NEW x \in AttemptId \cup EventId \cup {None},
         NEW root \in EventId \cup {None}
  PROVE  LET d == Draft(m, kind, t, x, root) IN
         /\ d \in Message
         /\ d.author = m /\ d.kind = kind /\ d.task = t /\ d.attempt = x
  BY DEF Draft, Message

LEMMA DelegateLInv ==
  ASSUME LInv, NEW c \in Command, Delegate(c) PROVE LInv'
<1>1. c.kind = "delegate" /\ Free(c) /\ c.by \in Member /\ c.to \in Member /\ c.run \in RunId \cup {None}
  BY CommandAssumption DEF Delegate
<1>2. CASE Refuse(c)
  BY <1>1, <1>2, RefuseLInv
<1>3. ASSUME NEW parent \in KnownTasks(View(c.by)) \cup {None},
             UnusedIds(TaskId) # {}, UnusedIds(AttemptId) # {},
             Prepare(c, Delegation(c, NewId(TaskId), NewId(AttemptId), parent, RunRoot(c.run)))
      PROVE  LInv'
  <2> DEFINE msg == Delegation(c, NewId(TaskId), NewId(AttemptId), parent, RunRoot(c.run))
  <2>1. NewId(TaskId) \in UnusedIds(TaskId) /\ NewId(AttemptId) \in UnusedIds(AttemptId)
    BY <1>3 DEF NewId
  <2>2. /\ NewId(TaskId) \in TaskId /\ NewId(AttemptId) \in AttemptId
        /\ \A d \in Command : run[d].msg # None => run[d].msg.task # NewId(TaskId)
    BY <2>1 DEF UnusedIds, Drafts
  <2>3. RunRoot(c.run) \in EventId \cup {None}
    BY <1>1, RunRootFacts
  <2>4. parent \in TaskId \cup {None}
    BY DEF KnownTasks
  <2>5. /\ msg \in Message /\ msg.author = c.by /\ msg.kind = "delegate"
        /\ msg.task = NewId(TaskId) /\ msg.attempt = NewId(AttemptId) /\ msg.to = c.to
    <3> DEFINE d == Draft(c.by, "delegate", NewId(TaskId), NewId(AttemptId), RunRoot(c.run))
    <3>1. /\ d \in Message /\ d.author = c.by /\ d.kind = "delegate"
          /\ d.task = NewId(TaskId) /\ d.attempt = NewId(AttemptId)
      BY <1>1, <2>2, <2>3, DraftType
    <3>2. msg = [d EXCEPT !.to = c.to, !.parent = parent, !.run = c.run]
      BY DEF Delegation
    <3> HIDE DEF d, msg
    <3>3. QED BY <1>1, <2>4, <3>1, <3>2 DEF Message
  <2>6. Prepare(c, msg)
    BY <1>3
  <2> HIDE DEF msg
  <2>7. msg \in Message
    BY <2>5
  <2>8. Fits(c, msg, log)
    BY <1>1, <2>2, <2>5 DEF Fits
  <2>9. \A d \in Command : run[d].msg # None => run[d].msg.task # msg.task
    BY <2>2, <2>5
  <2>10. QED BY <1>1, <2>6, <2>7, <2>8, <2>9, PrepareLInv
<1>4. QED BY <1>2, <1>3 DEF Delegate

\* A message about a task that its command found on the ledger: the message's
\* parts are of their types, and it fits if it answers for its member.
LEMMA AboutFacts ==
  ASSUME LInv, NEW c \in Command, NEW t \in KnownTasks(View(c.by))
  PROVE  LET task == View(c.by).tasks[t] IN
         /\ t \in TaskId /\ task.root \in EventId /\ task.run \in RunId \cup {None}
         /\ Current(task).id \in AttemptId \cup EventId /\ Current(task).id # None
         /\ \E e \in log : /\ e.kind = "delegate" /\ e.task = t
                           /\ e.attempt = Current(task).id /\ e.to = Current(task).assignee
<1> DEFINE task == View(c.by).tasks[t]
<1>1. /\ task \in Task /\ t \in TaskId /\ Current(task) \in Attempt
      /\ \E e \in log : /\ e.kind = "delegate" /\ e.task = t
                        /\ e.attempt = Current(task).id /\ e.to = Current(task).assignee
  BY ViewFacts DEF View
<1> HIDE DEF task
<1>2. task.root \in EventId /\ task.run \in RunId \cup {None}
  BY <1>1 DEF Task
<1>3. Current(task).id \in AttemptId \cup EventId
  BY <1>1 DEF Attempt
<1>4. None \notin AttemptId \cup EventId
  BY IdAssumption, AbsentFacts DEF Absent
<1>5. QED BY <1>1, <1>2, <1>3, <1>4 DEF task

LEMMA AckLInv ==
  ASSUME LInv, NEW c \in Command, Ack(c) PROVE LInv'
<1>1. c.kind = "ack" /\ Free(c) /\ c.by \in Member
  BY CommandAssumption DEF Ack
<1>2. CASE Refuse(c)
  BY <1>1, <1>2, RefuseLInv
<1>3. ASSUME NEW t \in KnownTasks(View(c.by)), Current(View(c.by).tasks[t]).assignee = c.by,
             Prepare(c, Acknowledgement(c.by, t, View(c.by).tasks[t]))
      PROVE  LInv'
  <2> DEFINE task == View(c.by).tasks[t]
             msg == Acknowledgement(c.by, t, task)
  <2>1. /\ t \in TaskId /\ task.root \in EventId
        /\ Current(task).id \in AttemptId \cup EventId /\ Current(task).id # None
        /\ \E e \in log : /\ e.kind = "delegate" /\ e.task = t
                          /\ e.attempt = Current(task).id /\ e.to = Current(task).assignee
    BY AboutFacts
  <2>2. Current(task).assignee = c.by /\ Prepare(c, msg)
    BY <1>3
  <2> HIDE DEF task
  <2>3. /\ msg \in Message /\ msg.author = c.by /\ msg.kind = "ack" /\ msg.task = t
        /\ msg.attempt = Current(task).id
    BY <1>1, <2>1 DEF Acknowledgement, Draft, Message
  <2> HIDE DEF msg
  <2>4. Fits(c, msg, log)
    BY <1>1, <2>1, <2>2, <2>3 DEF Fits
  <2>5. QED BY <1>1, <2>2, <2>3, <2>4, PrepareLInv
<1>4. QED BY <1>2, <1>3 DEF Ack

LEMMA ReportLInv ==
  ASSUME LInv, NEW c \in Command, ReportTask(c) PROVE LInv'
<1>1. c.kind = "report" /\ Free(c) /\ c.by \in Member /\ c.status \in Reported
  BY CommandAssumption DEF ReportTask
<1>2. CASE Refuse(c)
  BY <1>1, <1>2, RefuseLInv
<1>3. ASSUME NEW t \in KnownTasks(View(c.by)), MayReport(c.by, View(c.by).tasks[t]),
             Prepare(c, Report(c.by, t, View(c.by).tasks[t], c.status))
      PROVE  LInv'
  <2> DEFINE task == View(c.by).tasks[t]
             d == Draft(c.by, "report", t, Current(task).id, task.root)
             msg == Report(c.by, t, task, c.status)
  <2>1. /\ t \in TaskId /\ task.root \in EventId /\ task.run \in RunId \cup {None}
        /\ Current(task).id \in AttemptId \cup EventId /\ Current(task).id # None
        /\ \E e \in log : /\ e.kind = "delegate" /\ e.task = t
                          /\ e.attempt = Current(task).id /\ e.to = Current(task).assignee
    BY AboutFacts
  <2>2. Current(task).assignee = c.by /\ Prepare(c, msg)
    BY <1>3 DEF MayReport
  <2> HIDE DEF task
  <2>3. /\ msg \in Message /\ msg.author = c.by /\ msg.kind = "report" /\ msg.task = t
        /\ msg.attempt = Current(task).id /\ msg.status = c.status
    <3>1. /\ d \in Message /\ d.author = c.by /\ d.kind = "report" /\ d.task = t
          /\ d.attempt = Current(task).id
      BY <1>1, <2>1 DEF Draft, Message
    <3>2. msg = [d EXCEPT !.status = c.status, !.run = task.run]
      BY DEF Report
    <3> HIDE DEF d, msg
    <3>3. QED BY <1>1, <2>1, <3>1, <3>2 DEF Message
  <2> HIDE DEF msg
  <2>4. Fits(c, msg, log)
    BY <1>1, <2>1, <2>2, <2>3 DEF Fits
  <2>5. QED BY <1>1, <2>2, <2>3, <2>4, PrepareLInv
<1>4. QED BY <1>2, <1>3 DEF ReportTask

LEMMA CancelLInv ==
  ASSUME LInv, NEW c \in Command, Cancel(c) PROVE LInv'
<1>1. c.kind = "cancel-task" /\ Free(c) /\ c.by \in Member
  BY CommandAssumption DEF Cancel
<1>2. CASE Refuse(c)
  BY <1>1, <1>2, RefuseLInv
<1>3. ASSUME NEW t \in KnownTasks(View(c.by)),
             Prepare(c, Cancellation(c.by, t, View(c.by).tasks[t]))
      PROVE  LInv'
  <2> DEFINE task == View(c.by).tasks[t]
             msg == Cancellation(c.by, t, task)
  <2>1. /\ t \in TaskId /\ task.root \in EventId
        /\ \E e \in log : e.kind = "delegate" /\ e.task = t
    BY AboutFacts
  <2>2. Prepare(c, msg)
    BY <1>3
  <2> HIDE DEF task
  <2>3. /\ msg \in Message /\ msg.author = c.by /\ msg.kind = "cancel-task" /\ msg.task = t
        /\ msg.attempt = None
    BY <1>1, <2>1 DEF Cancellation, Draft, Message
  <2> HIDE DEF msg
  <2>4. Fits(c, msg, log)
    BY <1>1, <2>1, <2>3 DEF Fits
  <2>5. QED BY <1>1, <2>2, <2>3, <2>4, PrepareLInv
<1>4. QED BY <1>2, <1>3 DEF Cancel

LEMMA NextLInv ==
  ASSUME LInv, [Next]_vars PROVE LInv'
<1>1. CASE UNCHANGED vars
  BY <1>1 DEF vars, LInv, TypeOK, IdsAreUnique, CopiesOfMessages, Drafted, MintedOnce,
              ResultIsTheMessage, Answered, NothingHidden
<1>2. CASE Tick
  BY <1>2, TickLInv
<1>3. ASSUME NEW c \in Command, Step(c) \/ Land(c) PROVE LInv'
  <2>1. CASE Delegate(c)
    BY <2>1, DelegateLInv
  <2>2. CASE Ack(c) \/ ReportTask(c) \/ Cancel(c)
    BY <2>2, AckLInv, ReportLInv, CancelLInv
  <2>3. CASE PostAccepted(c) \/ PostFails(c) \/ PostTimesOut(c)
    BY <2>3, PostAcceptedLInv, PostFailsLInv, PostTimesOutLInv
  <2>4. CASE Reread(c)
    BY <2>4, RereadLInv
  <2>5. CASE Land(c)
    BY <2>5, LandLInv
  <2>6. QED BY <1>3, <2>1, <2>2, <2>3, <2>4, <2>5 DEF Step
<1>4. CASE Publish
  BY <1>4, PublishLInv
<1>5. QED BY <1>1, <1>2, <1>3, <1>4 DEF Next

-----------------------------------------------------------------------------
(* What follows. *)

\* The ledger's invariant: every event on it is a copy of a message that its
\* command drafted once, or of one that a member published by hand, no two delegations mint one task, and an answer is
\* about an attempt that a delegation on the ledger asked its author for.
THEOREM InductiveInvariant == Spec => []LInv
<1>1. Init => LInv
  BY InitLInv
<1>2. LInv /\ [Next]_vars => LInv'
  BY NextLInv
<1>3. QED BY <1>1, <1>2, PTL DEF Spec

\* Every event the relay holds is well formed and its id its own, and every
\* command is in one of its states.
THEOREM TypeCorrect == Spec => []TypeOK
<1>1. LInv => TypeOK
  BY DEF LInv
<1>2. QED BY <1>1, InductiveInvariant, PTL

\* What a command answers with is a message about the very task and attempt, and
\* of those that commands post one of its member's own: another member's command
\* cannot have sent an answer about that attempt (fleet_commands.py:161-167).
THEOREM AnswersWithItsMessage == Spec => []ResultIsTheMessage
<1>1. LInv => ResultIsTheMessage
  BY DEF LInv
<1>2. QED BY <1>1, InductiveInvariant, PTL

\* However many copies of a delegation reach the relay, and in whatever order,
\* a reader finds one attempt of its task (fleet_commands.py:147-167 with
\* reducer.py:288).
THEOREM RetriesAreHarmless == Spec => []RepeatsOpenNoAttempt
<1>1. ASSUME LInv PROVE RepeatsOpenNoAttempt
  <2>1. History(log) /\ Agreed(log)
    BY <1>1, LogAgrees DEF LInv, TypeOK
  <2>2. \A t \in KnownTasks(Reduce(Fleet, log)) :
          OneFrom(Reduce(Fleet, log).tasks[t], {e \in log : e.task = t})
    BY <2>1, OneAttempt
  <2>3. QED BY <2>2 DEF RepeatsOpenNoAttempt, Truth, OneFrom
<1>2. QED BY <1>1, InductiveInvariant, PTL

\* A message that names its attempt is posted once (fleet_commands.py:149) if
\* no event reaches the relay after its post has timed out.
THEOREM PostedOnce ==
  ASSUME ~MayDelay
  PROVE  Spec => []AttemptMessagePostedOnce
<1>1. ASSUME LInv PROVE AttemptMessagePostedOnce
  <2>1. SUFFICES ASSUME NEW c \in Command, c.kind # "cancel-task"
                 PROVE  Cardinality(stored[c]) <= 1
    BY DEF AttemptMessagePostedOnce
  <2>2. \A e, f \in stored[c] : e = f
    BY <1>1, <2>1 DEF LInv, NothingHidden, OncePosted
  <2>3. CASE stored[c] = {}
    BY <2>3, FS_EmptySet
  <2>4. CASE stored[c] # {}
    <3>1. PICK e : e \in stored[c]
      BY <2>4
    <3>2. stored[c] = {e}
      BY <2>2, <3>1
    <3>3. Cardinality({e}) = 1
      BY FS_Singleton
    <3>4. QED BY <3>2, <3>3
  <2>5. QED BY <2>3, <2>4
<1>2. QED BY <1>1, InductiveInvariant, PTL

\* A step leaves the ledger alone or adds one event.
LEMMA LogGrows ==
  ASSUME LInv, [Next]_vars
  PROVE  log' = log \/ \E e : e \notin log /\ log' = log \cup {e}
<1>1. ASSUME NEW c \in Command, Step(c) \/ Land(c)
      PROVE  log' = log \/ \E e : log' = log \cup {e}
  BY <1>1 DEF Step, Land, Delegate, Ack, ReportTask, Cancel, Refuse, Prepare, PostAccepted,
              PostFails, PostTimesOut, Reread, Store
<1>2. log' = log \/ \E e : log' = log \cup {e}
  BY <1>1 DEF Next, Tick, Publish, vars
<1>3. QED BY <1>2

\* An event that sorts after the whole history leaves a settled task's
\* attempts as they are.
LEMMA SettledStays ==
  ASSUME NEW c, NEW E, History(E), Agreed(E), E # {},
         NEW t \in KnownTasks(Reduce(c, E \ {Latest(E)})),
         ~IsLive(Reduce(c, E \ {Latest(E)}).tasks[t])
  PROVE  /\ t \in KnownTasks(Reduce(c, E))
         /\ Reduce(c, E).tasks[t].attempts = Reduce(c, E \ {Latest(E)}).tasks[t].attempts
<1> DEFINE D == E \ {Latest(E)}
           s == Reduce(c, D)
           next == Reduce(c, E)
<1>1. History(D) /\ Agreed(D) /\ t \in TaskId
  BY Before DEF Agreed, KnownTasks
<1>2. StepOK(s, next, Latest(E).at)
  BY ReduceStep
<1>3. s.tasks[t] \in Task /\ Len(s.tasks[t].attempts) = 1
  BY <1>1, OneAttempt DEF OneFrom
<1>4. EventStep(c, s, next, Latest(E))
  BY ReduceStep
<1>5. s \in State
  BY <1>1, ReduceOK DEF StateInv
<1>6. s.tasks[t] # None /\ ~IsLive(s.tasks[t])
  BY DEF KnownTasks
<1>7. next.tasks[t] # None
  <2> HIDE DEF s, next
  <2>1. QED BY <1>1, <1>4, <1>5, <1>6, AbsentFacts DEF EventStep, State
<1>8. Len(next.tasks[t].attempts) = 1 /\ next.tasks[t] \in Task
  <2>1. t \in KnownTasks(next)
    BY <1>1, <1>7 DEF KnownTasks
  <2>2. QED BY <2>1, OneAttempt DEF OneFrom
<1> HIDE DEF s, next
<1>9. s.tasks[t].attempts[1].status \in Terminal
  <2>1. Current(s.tasks[t]) = s.tasks[t].attempts[1] /\ s.tasks[t].attempts[1] \in Attempt
    BY <1>3 DEF Current, Task
  <2>2. QED BY <1>6, <2>1 DEF IsLive, Attempt
<1>10. Keeps(s.tasks[t].attempts, next.tasks[t].attempts)
  BY <1>1, <1>2, <1>6, <1>7 DEF StepOK, AttemptsOf
<1>11. next.tasks[t].attempts[1] = s.tasks[t].attempts[1]
  BY <1>3, <1>9, <1>10 DEF Keeps, Task
<1>12. next.tasks[t].attempts = s.tasks[t].attempts
  BY <1>3, <1>8, <1>11 DEF Task
<1>13. QED BY <1>1, <1>7, <1>12 DEF KnownTasks, s, next

\* Nothing stamped later than all the relay holds moves a settled task
\* (reducer.py:233, 317).
THEOREM SettledStaysSettled == Spec => SettledUnlessOvertaken
<1> DEFINE Settled ==
      LET s == Truth  next == TruthAfter IN
      \A t \in KnownTasks(s) :
        /\ ~IsLive(s.tasks[t])
        /\ \A e \in log' \ log : \A x \in log : Earlier(x, e)
        => next.tasks[t].attempts = s.tasks[t].attempts
<1>1. LInv => Agreed(log)
  BY LogAgrees
<1>2. LInv /\ LInv' /\ Agreed(log)' /\ [Next]_vars => [Settled]_vars
  <2> SUFFICES ASSUME LInv, LInv', Agreed(log)', [Next]_vars,
                      NEW t \in KnownTasks(Truth), ~IsLive(Truth.tasks[t]),
                      \A e \in log' \ log : \A x \in log : Earlier(x, e)
               PROVE  TruthAfter.tasks[t].attempts = Truth.tasks[t].attempts
    OBVIOUS
  <2>1. CASE log' = log
    BY <2>1 DEF Truth, TruthAfter
  <2>2. ASSUME NEW e, e \notin log, log' = log \cup {e}
        PROVE  TruthAfter.tasks[t].attempts = Truth.tasks[t].attempts
    <3>1. PICK E : E = log'
      OBVIOUS
    <3>2. History(E) /\ Agreed(E) /\ e \in E
      BY <2>2, <3>1 DEF LInv, TypeOK, Agreed
    <3>3. \A y \in E \ {e} : Earlier(y, e)
      BY <2>2, <3>1
    <3>4. Latest(E) = e /\ E \ {Latest(E)} = log
      BY <2>2, <3>1, <3>2, <3>3, LatestFacts
    <3>5. /\ t \in KnownTasks(Reduce(Fleet, E \ {Latest(E)}))
          /\ ~IsLive(Reduce(Fleet, E \ {Latest(E)}).tasks[t])
      BY <3>4 DEF Truth
    <3>6. Reduce(Fleet, E).tasks[t].attempts = Reduce(Fleet, E \ {Latest(E)}).tasks[t].attempts
      BY <3>2, <3>5, SettledStays
    <3>7. QED BY <3>1, <3>4, <3>6 DEF Truth, TruthAfter
  <2>3. QED BY <2>1, <2>2, LogGrows
<1>3. QED BY <1>1, <1>2, InductiveInvariant, PTL DEF Spec, SettledUnlessOvertaken

-----------------------------------------------------------------------------
(* A posted report, or its requester's or the owner's cancellation, settles a *)
(* task.                                                                      *)

\* What commands and members send: well-formed messages about a task.
Plain(e) ==
  /\ e.kind \in {"delegate", "ack", "report", "cancel-task"}
  /\ e.task \in TaskId
  /\ e.kind = "delegate" => e.to # Bad
  /\ e.deadline = 0 /\ e.acceptanceOk = TRUE /\ e.parent # Bad

LEMMA LogIsPlain ==
  ASSUME LInv, NEW e \in log
  PROVE  Plain(e)
<1>1. PICK msg \in Message : IsCopy(e, msg)
  BY LogCarries
<1>2. e.parent # Bad
  <2>1. e.parent \in TaskId \cup {None}
    BY <1>1 DEF IsCopy, Message
  <2>2. QED BY <2>1, AbsentFacts
<1>3. e.kind = "delegate" => e.to # Bad
  BY LogAgrees DEF Agreed
<1>4. QED BY <1>1, <1>2, <1>3 DEF Plain, IsCopy, Message

\* A reader who has not seen a plain event takes it: nothing raises, and a
\* delegation leaves its task known.
Taken(s, next, e) ==
  /\ ~next.raised /\ next.seen = s.seen \cup {e.id}
  /\ e.kind = "delegate" => next.tasks[e.task] # None

LEMMA PlainTaken ==
  ASSUME NEW c \in Context, NEW s, NEW now0 \in Nat, StateInv(s, now0),
         NEW e \in EventRecord, now0 <= e.at, Plain(e),
         ~s.raised, e.id \notin s.seen, e.id \notin c.deleted
  PROVE  /\ Taken(s, Apply(c, s, e), e)
         /\ e.kind = "report" /\ s.tasks[e.task] # None =>
              Apply(c, s, e) =
                ApplyAssigneeEvent([s EXCEPT !.seen = @ \cup {e.id}], e.task, e)
         /\ e.kind = "cancel-task" /\ s.tasks[e.task] # None =>
              Apply(c, s, e) = ApplyCancel(c, [s EXCEPT !.seen = @ \cup {e.id}], e.task, e)
<1> DEFINE m == [s EXCEPT !.seen = @ \cup {e.id}]
           t == e.task
<1>1. /\ m \in State /\ ~m.raised /\ m.seen = s.seen \cup {e.id} /\ m.tasks = s.tasks
  BY DEF State, EventRecord, StateInv
<1>0. EventStep(c, s, Apply(c, s, e), e)
  BY ApplyStep
<1>2. t \in TaskId /\ t # None /\ t # Bad /\ TaskOf(e) = t
  BY AbsentFacts DEF Plain, TaskOf
<1>3. ~Ignored(c, s, e)
  <2>1. e.kind # None
    <3>1. None \notin Kind
      BY KindAssumption DEF Absent
    <3>2. QED BY <3>1 DEF Plain, Kind
  <2>2. QED BY <2>1 DEF Ignored
<1>4. Apply(c, s, e) = Dispatch(c, m, t, e)
  BY <1>2, <1>3 DEF Apply
<1> HIDE DEF m
<1>5. \A task : /\ ~Update(m, t, task, e).raised /\ Update(m, t, task, e).seen = m.seen
                /\ Update(m, t, task, e).tasks = [m.tasks EXCEPT ![t] = task]
                /\ ~Put(m, t, task).raised /\ Put(m, t, task).seen = m.seen
                /\ Put(m, t, task).tasks = [m.tasks EXCEPT ![t] = task]
  <2> TAKE task
  <2>1. /\ Put(m, t, task).raised = m.raised /\ Put(m, t, task).seen = m.seen
        /\ Put(m, t, task).tasks = [m.tasks EXCEPT ![t] = task]
    BY <1>1 DEF Put, State
  <2>2. /\ Update(m, t, task, e).raised = Put(m, t, task).raised
        /\ Update(m, t, task, e).seen = Put(m, t, task).seen
        /\ Update(m, t, task, e).tasks = Put(m, t, task).tasks
    BY <1>1 DEF Update, RecordCmd, Put, State
  <2>3. QED BY <1>1, <2>1, <2>2
<1>6. e.deadline # Bad /\ e.deadline # Infinite /\ e.acceptanceOk /\ e.parent # Bad
  BY AbsentFacts DEF Plain
<1>7. CASE e.kind = "delegate"
  <2>1. e.to # Bad
    BY <1>7 DEF Plain
  <2>2. CASE m.tasks[t] = None
    <3>1. Dispatch(c, m, t, e) = Update(m, t, NewTask(e), e)
      BY <1>2, <1>6, <1>7, <2>1, <2>2 DEF Dispatch, ApplyDelegate, CreateTask
    <3>2. NewTask(e) # None
      <4>1. NewTask(e) \in Task
        BY <1>6, <2>1, NewTaskInv
      <4>2. QED BY <4>1, AbsentFacts
    <3>3. m.tasks \in [TaskId -> Task \cup {None}]
      BY <1>1 DEF State
    <3>4. /\ ~Apply(c, s, e).raised /\ Apply(c, s, e).seen = m.seen
          /\ Apply(c, s, e).tasks = [m.tasks EXCEPT ![t] = NewTask(e)]
      BY <1>4, <1>5, <3>1
    <3>5. Apply(c, s, e).tasks[t] # None
      BY <1>2, <3>2, <3>3, <3>4
    <3>6. QED BY <1>1, <1>7, <3>4, <3>5 DEF Taken
  <2>3. CASE m.tasks[t] # None
    <3>1. Dispatch(c, m, t, e) = Retry(c, m, t, e)
      BY <1>2, <1>7, <2>3 DEF Dispatch, ApplyDelegate
    <3>2. \/ Retry(c, m, t, e) = Put(m, t, Noted(m.tasks[t]))
          \/ Retry(c, m, t, e) = Update(m, t, Replaced(m.tasks[t], e), e)
      BY <1>6 DEF Retry, Note
    <3>3. ~Apply(c, s, e).raised /\ Apply(c, s, e).seen = m.seen
      BY <1>4, <1>5, <3>1, <3>2
    <3>4. Apply(c, s, e).tasks[t] # None
      <4>1. s.tasks \in [TaskId -> Task \cup {None}] /\ s.tasks[t] # None
        BY <1>1, <2>3 DEF State
      <4>2. QED BY <1>0, <1>2, <4>1, AbsentFacts DEF EventStep
    <3>5. QED BY <1>1, <1>7, <3>3, <3>4 DEF Taken
  <2>4. QED BY <1>7, <2>2, <2>3
<1>8. CASE e.kind # "delegate"
  <2>1. CASE m.tasks[t] = None
    BY <1>1, <1>2, <1>4, <1>8, <2>1 DEF Dispatch, Taken
  <2>2. CASE m.tasks[t] # None
    <3>1. Dispatch(c, m, t, e) = ApplyToKnown(c, m, t, e)
      BY <1>2, <1>8, <2>2 DEF Dispatch
    <3>2. e.kind \in {"ack", "report", "cancel-task"} /\ e.kind \notin ConductorKind /\ e.kind # Bad
      <4>1. Bad \notin Kind
        BY KindAssumption DEF Absent
      <4>2. e.kind \in {"ack", "report", "cancel-task"}
        BY <1>8 DEF Plain
      <4>3. QED BY <4>1, <4>2 DEF ConductorKind, Kind
    <3>3. ApplyToKnown(c, m, t, e) = IF e.kind \in {"ack", "report"}
                                       THEN ApplyAssigneeEvent(m, t, e) ELSE ApplyCancel(c, m, t, e)
      BY <3>2 DEF ApplyToKnown
    <3>4. \/ \E task : ApplyToKnown(c, m, t, e) = Update(m, t, task, e)
          \/ \E task : ApplyToKnown(c, m, t, e) = Put(m, t, task)
      BY <3>3 DEF ApplyAssigneeEvent, ApplyCancel, Note
    <3>5. Taken(s, ApplyToKnown(c, m, t, e), e)
      BY <1>1, <1>5, <1>8, <3>4 DEF Taken
    <3>6. QED BY <1>4, <3>1, <3>2, <3>3, <3>5 DEF m
  <2>3. QED BY <1>1, <2>1, <2>2
<1>9. QED BY <1>7, <1>8

\* A history of plain messages whose delegations agree.
Plainly(E) == History(E) /\ Agreed(E) /\ \A e \in E : Plain(e)

LEMMA PlainlyBefore ==
  ASSUME NEW E, Plainly(E), NEW D \in SUBSET E
  PROVE  Plainly(D)
BY SubHistory DEF Plainly, Agreed

\* A reader of plain messages has taken them all, and knows every task that
\* was delegated.
Readable(s, E) ==
  /\ ~s.raised /\ s.seen = {e.id : e \in E}
  /\ \A e \in E : e.kind = "delegate" => s.tasks[e.task] # None

LEMMA AllRead ==
  ASSUME NEW c \in Context, c.deleted = {}, NEW E, Plainly(E)
  PROVE  Readable(Reduce(c, E), E)
<1> DEFINE G == {D \in SUBSET E : Readable(Reduce(c, D), D)}
<1>1. {} \in G
  <2>1. Reduce(c, {}) = EmptyState
    BY ReduceLast DEF Plainly
  <2>2. QED BY <2>1 DEF Readable, EmptyState
<1>2. \A D \in SUBSET E : D # {} /\ (\A e \in D : D \ {e} \in G) => D \in G
  <2> TAKE D \in SUBSET E
  <2> HAVE D # {} /\ \A e \in D : D \ {e} \in G
  <2> DEFINE L == Latest(D)
             s == Reduce(c, D \ {L})
             next == Reduce(c, D)
  <2>1. History(D) /\ Plainly(D)
    BY PlainlyBefore DEF Plainly
  <2>2. /\ L \in D /\ L \in EventRecord /\ History(D \ {L})
        /\ LastAt(D \ {L}) \in Nat /\ LastAt(D \ {L}) <= L.at
    BY <2>1, Before
  <2>3. Readable(s, D \ {L}) /\ StateInv(s, LastAt(D \ {L}))
    BY <2>2, ReduceOK
  <2>4. next = Apply(c, s, L) /\ StepOK(s, next, L.at)
    BY <2>1, ReduceLast, ReduceStep
  <2>5. L.id \notin s.seen /\ Plain(L)
    BY <2>1, <2>2, <2>3 DEF Readable, History, Plainly
  <2> HIDE DEF s, next, L
  <2>6. Taken(s, next, L)
    BY <2>2, <2>3, <2>4, <2>5, PlainTaken DEF Readable
  <2>7. \A e \in D \ {L} : e.kind = "delegate" => next.tasks[e.task] # None
    <3> TAKE e \in D \ {L}
    <3> HAVE e.kind = "delegate"
    <3>1. s.tasks[e.task] # None /\ e.task \in TaskId
      BY <2>1, <2>3 DEF Readable, Plainly, Plain
    <3>2. TaskInv(s.tasks[e.task], LastAt(D \ {L})) /\ s.tasks[e.task] \in Task
      BY <2>3, <3>1 DEF StateInv, State, KnownTasks
    <3>3. 1 \in DOMAIN AttemptsOf(s, e.task)
      BY <3>1, <3>2, AttemptFacts DEF TaskInv, AttemptsOf
    <3>4. QED BY <2>4, <3>1, <3>3 DEF StepOK, Keeps, AttemptsOf
  <2>8. next.seen = {e.id : e \in D}
    BY <2>2, <2>3, <2>6 DEF Taken, Readable
  <2>9. Readable(next, D)
    BY <2>6, <2>7, <2>8 DEF Taken, Readable
  <2>10. QED BY <2>9 DEF next
<1>3. IsFiniteSet(E)
  BY DEF Plainly, History
<1> HIDE DEF G
<1>4. E \in G
  BY <1>1, <1>2, <1>3, SetInduction
<1>5. QED BY <1>4 DEF G

\* No event changes which delegation opened a task.
LEMMA SameDelegation ==
  ASSUME NEW c, NEW task \in Task, NEW e, NEW new, Effect(c, task, new, e)
  PROVE  new.delegate = task.delegate
BY DEF Effect, Noted, Replaced, ConductorMark, Cancelled, Task

\* The assignee's report leaves the attempt it is about terminal.
LEMMA ReportEnds ==
  ASSUME NEW c \in Context, NEW s, NEW now0 \in Nat, StateInv(s, now0),
         NEW e \in EventRecord, now0 <= e.at, Plain(e),
         ~s.raised, e.id \notin s.seen, e.id \notin c.deleted,
         e.kind = "report", e.status \in Reported, s.tasks[e.task] # None,
         Len(s.tasks[e.task].attempts) = 1,
         s.tasks[e.task].attempts[1].id = e.attempt,
         s.tasks[e.task].attempts[1].assignee = e.author
  PROVE  ~IsLive(Apply(c, s, e).tasks[e.task])
<1> DEFINE m == [s EXCEPT !.seen = @ \cup {e.id}]
           t == e.task
           task == s.tasks[t]
           next == Apply(c, s, e)
           answered == {i \in DOMAIN task.attempts :
                          /\ Matches(task, i, e)
                          /\ Accepts(task.attempts[i])
                          /\ e.kind = "report" => e.status \in Reported}
<1>1. s \in State /\ m \in State /\ m.tasks = s.tasks
  BY DEF StateInv, State, EventRecord
<1>2. t \in TaskId /\ task \in Task /\ task.attempts \in Seq(Attempt) /\ task.attempts[1] \in Attempt
      /\ DOMAIN task.attempts = {1}
  <2>1. t \in TaskId
    BY DEF Plain
  <2>2. task \in Task
    BY <1>1, <2>1 DEF State
  <2>3. QED BY <2>1, <2>2 DEF Task
<1>3. next = ApplyAssigneeEvent(m, t, e)
  BY PlainTaken
<1> SUFFICES ~IsLive(next.tasks[t])
  OBVIOUS
<1> HIDE DEF m, next
<1>4. CASE task.attempts[1].status \in Terminal
  <2>1. answered = {}
    BY <1>2, <1>4 DEF Accepts
  <2>2. next = Put(m, t, Noted(task))
    BY <1>1, <1>3, <2>1 DEF ApplyAssigneeEvent, Note
  <2>3. next.tasks[t] = Noted(task)
    BY <1>1, <1>2, <2>2 DEF Put, State
  <2>4. next.tasks[t].attempts = task.attempts
    BY <1>2, <2>3 DEF Noted, Task
  <2>5. Current(next.tasks[t]).status = task.attempts[1].status
    BY <2>4 DEF Current
  <2> HIDE DEF task
  <2>6. QED BY <1>4, <2>5 DEF IsLive, Live, Terminal
<1>5. CASE task.attempts[1].status \notin Terminal
  <2>1. answered = {1}
    BY <1>2, <1>5 DEF Accepts, Matches
  <2>2. (CHOOSE i \in answered : \A j \in answered : i <= j) = 1
    BY <2>1
  <2>3. next = Update(m, t, [task EXCEPT !.attempts[1] = Answer(@, e)], e)
    <3> DEFINE i == CHOOSE i \in answered : \A j \in answered : i <= j
    <3>1. next = Update(m, t, [task EXCEPT !.attempts[i] = Answer(@, e)], e)
      BY <1>1, <1>3, <2>1 DEF ApplyAssigneeEvent
    <3>2. i = 1
      BY <2>2
    <3> HIDE DEF i
    <3>3. QED BY <3>1, <3>2
  <2>4. next.tasks[t] = [task EXCEPT !.attempts[1] = Answer(@, e)]
    BY <1>1, <1>2, <2>3 DEF Update, RecordCmd, Put, State
  <2>5. next.tasks[t].attempts = [task.attempts EXCEPT ![1] = WithReport(task.attempts[1], e)]
    BY <1>2, <2>4 DEF Answer, Task
  <2>6. Len(next.tasks[t].attempts) = 1 /\ next.tasks[t].attempts[1].status = e.status
    BY <1>2, <2>5 DEF WithReport, Attempt
  <2>7. Current(next.tasks[t]).status = e.status
    BY <2>6 DEF Current
  <2>8. QED BY <2>7 DEF IsLive, Live, Reported
<1>6. QED BY <1>4, <1>5

\* The requester's or the owner's cancellation leaves the task terminal.
LEMMA CancelEnds ==
  ASSUME NEW c \in Context, NEW s, NEW now0 \in Nat, StateInv(s, now0),
         NEW e \in EventRecord, now0 <= e.at, Plain(e),
         ~s.raised, e.id \notin s.seen, e.id \notin c.deleted,
         e.kind = "cancel-task", s.tasks[e.task] # None,
         Len(s.tasks[e.task].attempts) = 1,
         e.author \in {s.tasks[e.task].requester, c.owner}
  PROVE  ~IsLive(Apply(c, s, e).tasks[e.task])
<1> DEFINE m == [s EXCEPT !.seen = @ \cup {e.id}]
           t == e.task
           task == s.tasks[t]
           next == Apply(c, s, e)
<1>1. s \in State /\ m \in State /\ m.tasks = s.tasks
  BY DEF StateInv, State, EventRecord
<1>2. t \in TaskId /\ task \in Task /\ task.attempts \in Seq(Attempt) /\ Len(task.attempts) = 1
  BY <1>1 DEF Plain, State, Task
<1>3. next = ApplyCancel(c, m, t, e)
  BY PlainTaken
<1> SUFFICES ~IsLive(next.tasks[t])
  OBVIOUS
<1>4. e.author \in {task.requester, c.owner}
  OBVIOUS
<1> HIDE DEF m, next, task
<1>5. task = m.tasks[t]
  BY <1>1 DEF task
<1>6. CASE IsLive(task)
  <2>1. next.tasks[t] = Cancelled(task)
    BY <1>1, <1>2, <1>3, <1>4, <1>5, <1>6 DEF ApplyCancel, MayCancel, Update, RecordCmd, Put, State
  <2>2. /\ Cancelled(task).attempts = [task.attempts EXCEPT ![1].status = "cancelled"]
        /\ task.attempts[1] \in Attempt
    BY <1>2 DEF Cancelled, Task
  <2>3. Current(Cancelled(task)).status = "cancelled"
    BY <1>2, <2>2 DEF Current, Attempt
  <2>4. QED BY <2>1, <2>3 DEF IsLive, Live
<1>7. CASE ~IsLive(task)
  <2>1. next.tasks[t] = Noted(task)
    BY <1>1, <1>2, <1>3, <1>5, <1>7 DEF ApplyCancel, MayCancel, Note, Put, State
  <2>2. Noted(task).attempts = task.attempts
    BY <1>2 DEF Noted, Task
  <2>3. QED BY <1>7, <2>1, <2>2 DEF IsLive, Current
<1>8. QED BY <1>6, <1>7

\* e settles the task that d delegates: its assignee's report on the attempt
\* asked for, or a cancellation by its requester or own, the fleet's owner.
Ends(own, e, d) ==
  /\ e.task = d.task
  /\ \/ /\ e.kind = "report" /\ e.status \in Reported
        /\ e.attempt = d.attempt /\ e.author = d.to
     \/ e.kind = "cancel-task" /\ e.author \in {d.author, own}
Wanted(c, r, E) == \E d \in E : d.kind = "delegate" /\ Ends(c.owner, r, d)

\* The task is settled if it was opened before r.
SettledBy(task, r, D) ==
  (\E d \in D : d.id = task.delegate /\ Earlier(d, r)) => ~IsLive(task)

LEMMA WantedSettles ==
  ASSUME NEW c \in Context, c.deleted = {}, NEW E, Plainly(E), NEW r \in E, Wanted(c, r, E)
  PROVE  SettledBy(Reduce(c, E).tasks[r.task], r, E)
<1> DEFINE t == r.task
           G == {D \in SUBSET E : r \in D /\ Reduce(c, D).tasks[t] # None
                                    => SettledBy(Reduce(c, D).tasks[t], r, D)}
<1>1. {} \in G
  OBVIOUS
<1>2. \A D \in SUBSET E : D # {} /\ (\A e \in D : D \ {e} \in G) => D \in G
  <2> TAKE D \in SUBSET E
  <2> HAVE D # {} /\ \A e \in D : D \ {e} \in G
  <2> DEFINE L == Latest(D)
             s == Reduce(c, D \ {L})
             next == Reduce(c, D)
  <2> SUFFICES ASSUME r \in D, next.tasks[t] # None,
                      NEW d \in D, d.id = next.tasks[t].delegate, Earlier(d, r)
               PROVE  ~IsLive(next.tasks[t])
    BY DEF SettledBy
  <2>1. Plainly(D) /\ History(D) /\ Agreed(D) /\ Plain(r) /\ t \in TaskId
    BY PlainlyBefore DEF Plainly, Plain
  <2>2. /\ L \in D /\ L \in EventRecord /\ History(D \ {L}) /\ Plainly(D \ {L})
        /\ LastAt(D \ {L}) \in Nat /\ LastAt(D \ {L}) <= L.at
    BY <2>1, Before, PlainlyBefore
  <2>3. next = Apply(c, s, L) /\ EventStep(c, s, next, L)
    BY <2>1, ReduceLast, ReduceStep
  <2>4. StateInv(s, LastAt(D \ {L})) /\ Readable(s, D \ {L})
    BY <2>2, ReduceOK, AllRead
  <2>5. d.kind = "delegate" /\ d.task = t
    <3>1. OneFrom(next.tasks[t], {e \in D : e.task = t})
      BY <2>1, OneAttempt DEF KnownTasks
    <3> HIDE DEF next
    <3>2. PICK e \in D : e.task = t /\ e.kind = "delegate" /\ e.id = next.tasks[t].delegate
      BY <3>1 DEF OneFrom, OpenedBy
    <3>3. e = d
      BY <2>1, <3>2 DEF History
    <3>4. QED BY <3>2, <3>3
  <2>6. d # L
    <3>1. \A x, y \in D : ~(Earlier(x, y) /\ Earlier(y, x))
      BY <2>1, EventOrder
    <3>2. \A y \in D \ {L} : Earlier(y, L)
      BY <2>1, LatestFacts
    <3> HIDE DEF L
    <3>3. QED BY <3>1, <3>2
  <2>7. s.tasks[t] # None
    BY <2>4, <2>5, <2>6 DEF Readable
  <2>8. CASE r = L
    <3>1. OneFrom(s.tasks[t], {e \in D \ {L} : e.task = t})
      <4>1. Agreed(D \ {L}) /\ t \in KnownTasks(s)
        BY <2>1, <2>2, <2>7 DEF Plainly, KnownTasks
      <4>2. QED BY <2>2, <4>1, OneAttempt
    <3> HIDE DEF s, next, L
    <3>2. PICK e \in D : /\ e.kind = "delegate" /\ e.task = t
                         /\ e.attempt = s.tasks[t].attempts[1].id
                         /\ e.to = s.tasks[t].attempts[1].assignee
                         /\ e.author = s.tasks[t].requester
                         /\ Len(s.tasks[t].attempts) = 1
      BY <3>1 DEF OneFrom, OpenedBy
    <3>3. PICK x \in E : x.kind = "delegate" /\ Ends(c.owner, r, x)
      BY DEF Wanted
    <3>4. x.task = t /\ e.attempt = x.attempt /\ e.to = x.to /\ e.author = x.author
      BY <3>2, <3>3 DEF Plainly, Agreed, Ends
    <3>5. L.id \notin s.seen /\ ~s.raised /\ Plain(L) /\ L.task = t
      BY <2>1, <2>2, <2>4, <2>8 DEF Readable, History
    <3>6. CASE L.kind = "report"
      <4>1. L.status \in Reported /\ L.attempt = e.attempt /\ L.author = e.to
        BY <2>8, <3>3, <3>4, <3>6 DEF Ends
      <4>2. ~IsLive(Apply(c, s, L).tasks[L.task])
        BY <2>2, <2>4, <2>7, <2>8, <3>2, <3>5, <3>6, <4>1, ReportEnds
      <4>3. QED BY <2>3, <3>5, <4>2
    <3>7. CASE L.kind = "cancel-task"
      <4>1. L.author \in {e.author, c.owner}
        BY <2>8, <3>3, <3>4, <3>7 DEF Ends
      <4>2. ~IsLive(Apply(c, s, L).tasks[L.task])
        BY <2>2, <2>4, <2>7, <2>8, <3>2, <3>5, <3>7, <4>1, CancelEnds
      <4>3. QED BY <2>3, <3>5, <4>2
    <3>8. L.kind \in {"report", "cancel-task"}
      BY <2>8, <3>3 DEF Ends
    <3>9. QED BY <3>6, <3>7, <3>8
  <2>9. CASE r # L
    <3>1. SettledBy(s.tasks[t], r, D \ {L})
      BY <2>2, <2>7, <2>9
    <3>2. s.tasks[t].delegate = next.tasks[t].delegate
      <4>1. s \in State /\ s.tasks[t] \in Task
        BY <2>1, <2>4, <2>7 DEF StateInv, State
      <4> HIDE DEF s, next, L
      <4>2. CASE next.tasks[t] = s.tasks[t]
        BY <4>2
      <4>3. CASE next.tasks[t] # s.tasks[t]
        <5>1. Effect(c, s.tasks[t], next.tasks[t], L)
          BY <2>1, <2>3, <2>7, <4>1, <4>3 DEF EventStep, State
        <5>2. QED BY <4>1, <5>1, SameDelegation
      <4>4. QED BY <4>2, <4>3
    <3>3. ~IsLive(s.tasks[t])
      BY <2>6, <3>1, <3>2 DEF SettledBy
    <3>4. t \in KnownTasks(s)
      BY <2>1, <2>7 DEF KnownTasks
    <3>5. next.tasks[t].attempts = s.tasks[t].attempts
      BY <2>1, <3>3, <3>4, SettledStays
    <3> HIDE DEF s, next
    <3>6. QED BY <3>3, <3>5 DEF IsLive, Current
  <2>10. QED BY <2>8, <2>9
<1>3. IsFiniteSet(E)
  BY DEF Plainly, History
<1> HIDE DEF G
<1>4. E \in G
  BY <1>1, <1>2, <1>3, SetInduction
<1>5. Reduce(c, E).tasks[t] # None
  BY AllRead DEF Wanted, Readable, Ends
<1>6. QED BY <1>4, <1>5 DEF G

\* A report that the CLI says was posted leaves its task terminal, whatever
\* raced it and whatever members publish by hand, unless it sorts before the
\* delegation (reducer.py:215-217) or the re-read took for it a report of
\* another member, or one without a known status (fleet_commands.py:163-166).
THEOREM ReportSettles == Spec => []ReportSettlesTask
<1>1. ASSUME LInv PROVE ReportSettlesTask
  <2>0. SUFFICES ASSUME NEW c \in Command, run[c].pc = "ok", c.kind = "report"
                 PROVE  /\ Truth.tasks[run[c].msg.task] # None
                        /\ Result(c).author = c.by /\ Result(c).status \in Reported
                             => SettledBy(Truth.tasks[run[c].msg.task], Result(c), log)
    BY DEF ReportSettlesTask, SettledBy
  <2>2. Plainly(log) /\ History(log)
    BY <1>1, LogAgrees, LogIsPlain DEF LInv, TypeOK, Plainly
  <2>3. PICK r \in log : /\ r.id = run[c].result /\ r.kind = c.kind
                         /\ r.task = run[c].msg.task /\ r.attempt = run[c].msg.attempt
    BY <1>1, <2>0 DEF LInv, ResultIsTheMessage, Answered
  <2>4. Result(c) = r
    BY <2>2, <2>3 DEF Result, History
  <2>5. PICK x \in log : /\ x.kind = "delegate" /\ x.task = r.task
                         /\ x.attempt = r.attempt /\ x.to = c.by
    <3>1. Fits(c, run[c].msg, log)
      BY <1>1, <2>0 DEF LInv, Drafted
    <3>2. QED BY <2>0, <2>3, <3>1 DEF Fits
  <2>6. Fleet \in Context /\ Fleet.deleted = {}
    BY LedgerAssumption
  <2>7. Truth.tasks[r.task] # None
    BY <2>2, <2>5, <2>6, AllRead DEF Truth, Readable
  <2>8. ASSUME r.author = c.by, r.status \in Reported
        PROVE  SettledBy(Truth.tasks[r.task], r, log)
    <3>1. Wanted(Fleet, r, log)
      BY <2>0, <2>3, <2>5, <2>8 DEF Wanted, Ends
    <3>2. QED BY <2>2, <2>6, <3>1, WantedSettles DEF Truth
  <2>9. QED BY <2>3, <2>4, <2>7, <2>8
<1>2. QED BY <1>1, InductiveInvariant, PTL

-----------------------------------------------------------------------------
(* Chains of parents. *)

\* f satisfies the equation that defines ChainDepth's chain, on the sets in D.
ChainRow(s, h, seen) ==
  [u \in TaskId \cup {None} |->
     IF u \in KnownTasks(s) \ seen THEN h[seen \cup {u}][s.tasks[u].parent] ELSE seen]
Chains(s, D, f) == f = [seen \in D |-> ChainRow(s, f, seen)]

\* The parent of a known task is a task or absent.
LEMMA ParentType ==
  ASSUME NEW s \in State, NEW u \in KnownTasks(s)
  PROVE  u \in TaskId /\ s.tasks[u].parent \in TaskId \cup {None}
BY DEF KnownTasks, State, Task

\* The sets of tasks seen that leave at most n of the known ones.
Unseen(s, w) == KnownTasks(s) \ w
SeenBut(s, n) == {w \in SUBSET TaskId : Cardinality(Unseen(s, w)) <= n}

\* Seeing one task more leaves one task less.
LEMMA UnseenFacts ==
  ASSUME NEW s \in State, IsFiniteSet(KnownTasks(s)), NEW w \in SUBSET TaskId
  PROVE  /\ Cardinality(Unseen(s, w)) \in Nat
         /\ Cardinality(Unseen(s, w)) <= Cardinality(KnownTasks(s))
         /\ Cardinality(Unseen(s, w)) = 0 => Unseen(s, w) = {}
         /\ \A u \in Unseen(s, w) :
              /\ w \cup {u} \in SUBSET TaskId
              /\ Cardinality(Unseen(s, w \cup {u})) = Cardinality(Unseen(s, w)) - 1
<1> DEFINE U == Unseen(s, w)
<1>1. U \subseteq KnownTasks(s) /\ U \subseteq TaskId
  BY DEF Unseen, KnownTasks
<1>2. \A u : Unseen(s, w \cup {u}) = U \ {u}
  BY DEF Unseen
<1> HIDE DEF U
<1>3. IsFiniteSet(U) /\ Cardinality(U) <= Cardinality(KnownTasks(s))
  BY <1>1, FS_Subset
<1>4. Cardinality(U) \in Nat /\ (Cardinality(U) = 0 <=> U = {})
  BY <1>3, FS_CardinalityType, FS_EmptySet
<1>5. \A u \in U : w \cup {u} \in SUBSET TaskId /\ Cardinality(U \ {u}) = Cardinality(U) - 1
  BY <1>1, <1>3, FS_RemoveElement
<1>6. QED BY <1>2, <1>3, <1>4, <1>5 DEF U

\* The equation has a solution: the fewer tasks are left to see, the shorter
\* the rest of the chain.
LEMMA ChainExists ==
  ASSUME NEW s \in State, IsFiniteSet(KnownTasks(s))
  PROVE  \E f : Chains(s, SUBSET TaskId, f)
<1> DEFINE Fails == {n \in Nat : ~\E f : Chains(s, SeenBut(s, n), f)}
<1>1. Fails = {}
  <2>1. SUFFICES ASSUME Fails # {} PROVE FALSE
    OBVIOUS
  <2>2. PICK n \in Fails : \A m \in Fails : n <= m
    <3>1. Fails \subseteq Nat
      OBVIOUS
    <3> HIDE DEF Fails
    <3>2. QED BY <2>1, <3>1, Least
  <2>3. n \in Nat /\ ~\E f : Chains(s, SeenBut(s, n), f)
    BY <2>2
  <2>4. \A m \in Nat : m < n => \E f : Chains(s, SeenBut(s, m), f)
    BY <2>2, <2>3
  <2> HIDE DEF Fails
  <2>5. CASE n = 0
    <3> DEFINE f == [w \in SeenBut(s, n) |-> [u \in TaskId \cup {None} |-> w]]
    <3>1. \A w \in SeenBut(s, n) : Unseen(s, w) = {}
      BY <2>5, UnseenFacts DEF SeenBut
    <3>2. \A w \in SeenBut(s, n) : ChainRow(s, f, w) = [u \in TaskId \cup {None} |-> w]
      <4> HIDE DEF f
      <4>1. QED BY <3>1 DEF ChainRow, Unseen
    <3>3. f = [w \in SeenBut(s, n) |-> ChainRow(s, f, w)]
      BY <3>2
    <3> HIDE DEF f
    <3>4. QED BY <2>3, <3>3 DEF Chains
  <2>6. CASE n # 0
    <3>1. n \in Nat /\ n - 1 \in Nat /\ n - 1 < n
      BY <2>3, <2>6
    <3>2. PICK g : Chains(s, SeenBut(s, n - 1), g)
      BY <2>4, <3>1
    <3>3. \A w \in SeenBut(s, n - 1) : w \in SeenBut(s, n)
      <4> TAKE w \in SeenBut(s, n - 1)
      <4>1. w \in SUBSET TaskId /\ Cardinality(Unseen(s, w)) <= n - 1
        BY DEF SeenBut
      <4>2. Cardinality(Unseen(s, w)) \in Nat
        BY <4>1, UnseenFacts
      <4>3. QED BY <3>1, <4>1, <4>2 DEF SeenBut
    <3>4. \A w \in SeenBut(s, n) : \A u \in Unseen(s, w) : w \cup {u} \in SeenBut(s, n - 1)
      <4> TAKE w \in SeenBut(s, n)
      <4> TAKE u \in Unseen(s, w)
      <4>1. w \in SUBSET TaskId /\ Cardinality(Unseen(s, w)) <= n
        BY DEF SeenBut
      <4>2. /\ Cardinality(Unseen(s, w)) \in Nat /\ w \cup {u} \in SUBSET TaskId
            /\ Cardinality(Unseen(s, w \cup {u})) = Cardinality(Unseen(s, w)) - 1
        BY <4>1, UnseenFacts
      <4>3. QED BY <3>1, <4>1, <4>2 DEF SeenBut
    <3> DEFINE f == [w \in SeenBut(s, n) |-> ChainRow(s, g, w)]
    <3>5. \A w \in SeenBut(s, n - 1) : g[w] = ChainRow(s, g, w)
      BY <3>2 DEF Chains
    <3>6. \A w \in SeenBut(s, n) : \A u \in Unseen(s, w) : f[w \cup {u}] = g[w \cup {u}]
      BY <3>3, <3>4, <3>5
    <3>7. \A w \in SeenBut(s, n) : ChainRow(s, g, w) = ChainRow(s, f, w)
      <4> HIDE DEF f
      <4>1. QED BY <3>6 DEF ChainRow, Unseen
    <3>8. f = [w \in SeenBut(s, n) |-> ChainRow(s, f, w)]
      BY <3>7
    <3> HIDE DEF f
    <3>9. QED BY <2>3, <3>8 DEF Chains
  <2>7. QED BY <2>5, <2>6
<1>2. SeenBut(s, Cardinality(KnownTasks(s))) = SUBSET TaskId
  BY UnseenFacts DEF SeenBut
<1>3. Cardinality(KnownTasks(s)) \in Nat
  BY FS_CardinalityType
<1>4. \E f : Chains(s, SeenBut(s, Cardinality(KnownTasks(s))), f)
  BY <1>1, <1>3
<1>5. QED BY <1>2, <1>4

\* ChainDepth counts such a solution's chain, which unfolds parent by parent.
Unfolds(s, f) ==
  \A w \in SUBSET TaskId : \A u \in TaskId \cup {None} :
    f[w][u] = IF u \in KnownTasks(s) \ w THEN f[w \cup {u}][s.tasks[u].parent] ELSE w

LEMMA ChainUnfolds ==
  ASSUME NEW s \in State, IsFiniteSet(KnownTasks(s)), NEW t
  PROVE  \E f : Unfolds(s, f) /\ ChainDepth(s, t) = Cardinality(f[{}][t])
<1> DEFINE f == CHOOSE f : Chains(s, SUBSET TaskId, f)
<1>1. Chains(s, SUBSET TaskId, f)
  BY ChainExists
<1>2. ChainDepth(s, t) = Cardinality(f[{}][t])
  BY DEF ChainDepth, Chains, ChainRow
<1> HIDE DEF f
<1>3. Unfolds(s, f)
  <2>1. \A w \in SUBSET TaskId : f[w] = ChainRow(s, f, w)
    BY <1>1 DEF Chains
  <2>2. QED BY <2>1 DEF ChainRow, Unfolds
<1>4. QED BY <1>2, <1>3

\* From a task of a set that holds the parents of its known tasks, the chain
\* does not leave the set.
LEMMA ChainWithin ==
  ASSUME NEW s \in State, IsFiniteSet(KnownTasks(s)), NEW f, Unfolds(s, f),
         NEW C \in SUBSET TaskId,
         \A u \in KnownTasks(s) \cap C : s.tasks[u].parent \in C \cup {None},
         NEW w \in SUBSET TaskId, NEW t \in C \cup {None}
  PROVE  f[w][t] \subseteq w \cup C
<1> DEFINE K == KnownTasks(s)
           Within(v, u) == f[v][u] \subseteq v \cup C
           G == {D \in SUBSET K : \A v \in SUBSET TaskId : \A u \in C \cup {None} :
                                    K \ v \subseteq D => Within(v, u)}
<1>1. \A v \in SUBSET TaskId : \A u \in C \cup {None} :
        f[v][u] = IF u \in K \ v THEN f[v \cup {u}][s.tasks[u].parent] ELSE v
  BY DEF Unfolds
<1>2. K \subseteq TaskId /\ None \notin TaskId
  BY IdAssumption DEF KnownTasks, Absent
<1>3. \A u \in K \cap C : s.tasks[u].parent \in C \cup {None}
  OBVIOUS
<1> HIDE DEF K
<1>4. {} \in G
  <2> SUFFICES ASSUME NEW v \in SUBSET TaskId, NEW u \in C \cup {None}, K \ v \subseteq {}
               PROVE  Within(v, u)
    OBVIOUS
  <2>1. f[v][u] = v
    BY <1>1
  <2>2. QED BY <2>1
<1>5. \A D \in SUBSET K : D # {} /\ (\A u \in D : D \ {u} \in G) => D \in G
  <2> TAKE D \in SUBSET K
  <2> HAVE D # {} /\ \A u \in D : D \ {u} \in G
  <2> SUFFICES ASSUME NEW v \in SUBSET TaskId, NEW u \in C \cup {None}, K \ v \subseteq D
               PROVE  Within(v, u)
    OBVIOUS
  <2>1. CASE u \notin K \ v
    BY <1>1, <2>1
  <2>2. CASE u \in K \ v
    <3>1. D \ {u} \in G /\ K \ (v \cup {u}) \subseteq D \ {u}
      BY <2>2
    <3>2. u \in C /\ v \cup {u} \in SUBSET TaskId /\ s.tasks[u].parent \in C \cup {None}
      BY <1>2, <1>3, <2>2
    <3>3. Within(v \cup {u}, s.tasks[u].parent)
      BY <3>1, <3>2
    <3>4. QED BY <1>1, <2>2, <3>2, <3>3
  <2>3. QED BY <2>1, <2>2
<1>6. IsFiniteSet(K)
  BY DEF K
<1> HIDE DEF G
<1>7. K \in G
  BY <1>4, <1>5, <1>6, SetInduction
<1>8. QED BY <1>7 DEF G

\* If the parents of known tasks are known, a chain from a known task holds
\* that task and, with each task, its parent.
Closed(s, f, v, u) ==
  /\ v \subseteq f[v][u] /\ f[v][u] \subseteq KnownTasks(s)
  /\ u \in f[v][u] \cup {None}
  /\ \A x \in f[v][u] \ v : s.tasks[x].parent \in f[v][u] \cup {None}

LEMMA ChainClosed ==
  ASSUME NEW s \in State, IsFiniteSet(KnownTasks(s)), NEW f, Unfolds(s, f),
         \A u \in KnownTasks(s) : s.tasks[u].parent \in KnownTasks(s) \cup {None},
         NEW t \in KnownTasks(s)
  PROVE  Closed(s, f, {}, t)
<1> DEFINE K == KnownTasks(s)
           G == {D \in SUBSET K : \A v \in SUBSET K : \A u \in K \cup {None} :
                                    K \ v = D => Closed(s, f, v, u)}
<1>1. \A v \in SUBSET K : \A u \in K \cup {None} :
        f[v][u] = IF u \in K \ v THEN f[v \cup {u}][s.tasks[u].parent] ELSE v
  BY DEF Unfolds, KnownTasks
<1>2. K \subseteq TaskId /\ None \notin TaskId
  BY IdAssumption DEF KnownTasks, Absent
<1>3. \A u \in K : s.tasks[u].parent \in K \cup {None}
  OBVIOUS
<1>4. \A v \in SUBSET K : \A u \in K \cup {None} : u \notin K \ v => Closed(s, f, v, u)
  <2> TAKE v \in SUBSET K
  <2> TAKE u \in K \cup {None}
  <2> HAVE u \notin K \ v
  <2>1. f[v][u] = v
    BY <1>1
  <2>2. QED BY <2>1 DEF Closed
<1>5. \A v \in SUBSET K : \A u \in K \ v :
        Closed(s, f, v \cup {u}, s.tasks[u].parent) => Closed(s, f, v, u)
  <2> TAKE v \in SUBSET K
  <2> TAKE u \in K \ v
  <2> HAVE Closed(s, f, v \cup {u}, s.tasks[u].parent)
  <2>1. f[v][u] = f[v \cup {u}][s.tasks[u].parent]
    BY <1>1
  <2>2. QED BY <2>1 DEF Closed
<1> HIDE DEF K
<1>6. {} \in G
  BY <1>4
<1>7. \A D \in SUBSET K : D # {} /\ (\A u \in D : D \ {u} \in G) => D \in G
  <2> TAKE D \in SUBSET K
  <2> HAVE D # {} /\ \A u \in D : D \ {u} \in G
  <2> SUFFICES ASSUME NEW v \in SUBSET K, NEW u \in K \cup {None}, K \ v = D
               PROVE  Closed(s, f, v, u)
    OBVIOUS
  <2>1. CASE u \notin K \ v
    BY <1>4, <2>1
  <2>2. CASE u \in K \ v
    <3>1. D \ {u} \in G /\ K \ (v \cup {u}) = D \ {u} /\ v \cup {u} \in SUBSET K
      BY <2>2
    <3>2. s.tasks[u].parent \in K \cup {None}
      BY <1>3, <2>2
    <3>3. Closed(s, f, v \cup {u}, s.tasks[u].parent)
      BY <3>1, <3>2
    <3>4. QED BY <1>5, <2>2, <3>3
  <2>3. QED BY <2>1, <2>2
<1>8. IsFiniteSet(K) /\ t \in K
  BY DEF K
<1> HIDE DEF G
<1>9. K \in G
  BY <1>6, <1>7, <1>8, SetInduction
<1>10. {} \in SUBSET K /\ K \ {} = K
  OBVIOUS
<1>11. QED BY <1>8, <1>9, <1>10 DEF G

\* The tasks that E holds a delegation of.
Delegated(E) == {e.task : e \in {x \in E : x.kind = "delegate"}}

\* S holds p, with each of its tasks the task's parent, and leaves room for one
\* task more within n: whatever chain starts at p stays in S.
Short(S, p, n, E) ==
  /\ S \subseteq Delegated(E) /\ IsFiniteSet(S) /\ Cardinality(S) + 1 <= n
  /\ p \in S
  /\ \A e \in E : e.kind = "delegate" /\ e.task \in S => e.parent \in S \cup {None}

\* A delegation that names a parent was checked on a view that held the whole
\* chain of that parent.
Checked(c, msg, E) ==
  c.kind = "delegate" /\ msg # None /\ msg.parent # None =>
    \E S : Short(S, msg.parent, ChainLimit[c.by], E)
ChainInv == \A c \in Command : Checked(c, run[c].msg, log)

\* Copies of the same delegations, however late, leave such a set as it is.
LEMMA ShortGrows ==
  ASSUME NEW E, NEW F, E \subseteq F, Agreed(F), NEW c, NEW msg, Checked(c, msg, E)
  PROVE  Checked(c, msg, F)
<1>1. SUFFICES ASSUME c.kind = "delegate", msg # None, msg.parent # None,
                      NEW S, Short(S, msg.parent, ChainLimit[c.by], E)
               PROVE  Short(S, msg.parent, ChainLimit[c.by], F)
  BY DEF Checked
<1>2. S \subseteq Delegated(F)
  BY <1>1 DEF Short, Delegated
<1>3. \A e \in F : e.kind = "delegate" /\ e.task \in S => e.parent \in S \cup {None}
  <2> TAKE e \in F
  <2> HAVE e.kind = "delegate" /\ e.task \in S
  <2>1. PICK x \in E : x.kind = "delegate" /\ x.task = e.task
    BY <1>1 DEF Short, Delegated
  <2>2. x.parent = e.parent
    BY <2>1 DEF Agreed
  <2>3. QED BY <1>1, <2>1, <2>2 DEF Short
<1>4. QED BY <1>1, <1>2, <1>3 DEF Short

\* Every task a reader finds has a delegation in the history, with its parent
\* and its requester.
LEMMA KnownAreDelegated ==
  ASSUME NEW c, NEW E, History(E), Agreed(E)
  PROVE  /\ IsFiniteSet(KnownTasks(Reduce(c, E)))
         /\ KnownTasks(Reduce(c, E)) \subseteq Delegated(E)
         /\ \A u \in KnownTasks(Reduce(c, E)) :
              \E e \in E : /\ e.kind = "delegate" /\ e.task = u
                           /\ e.parent = Reduce(c, E).tasks[u].parent
                           /\ e.author = Reduce(c, E).tasks[u].requester
<1> DEFINE s == Reduce(c, E)
           K == KnownTasks(s)
           Tasks(D) == {u \in K : \E e \in D : e.task = u}
           G == {D \in SUBSET E : IsFiniteSet(Tasks(D))}
<1>1. \A u \in K : \E e \in E : /\ e.kind = "delegate" /\ e.task = u
                                /\ e.parent = s.tasks[u].parent
                                /\ e.author = s.tasks[u].requester
  <2> TAKE u \in K
  <2>1. OneFrom(s.tasks[u], {e \in E : e.task = u})
    BY OneAttempt
  <2> HIDE DEF s
  <2>2. QED BY <2>1 DEF OneFrom, OpenedBy
<1> HIDE DEF K
<1>2. {} \in G
  <2>1. Tasks({}) = {}
    OBVIOUS
  <2>2. QED BY <2>1, FS_EmptySet
<1>3. \A D \in SUBSET E : D # {} /\ (\A e \in D : D \ {e} \in G) => D \in G
  <2> TAKE D \in SUBSET E
  <2> HAVE D # {} /\ \A e \in D : D \ {e} \in G
  <2>1. PICK e \in D : IsFiniteSet(Tasks(D \ {e}))
    OBVIOUS
  <2>2. IsFiniteSet(Tasks(D \ {e}) \cup {e.task})
    BY <2>1, FS_AddElement
  <2>3. Tasks(D) \in SUBSET (Tasks(D \ {e}) \cup {e.task})
    OBVIOUS
  <2> HIDE DEF Tasks
  <2>4. IsFiniteSet(Tasks(D))
    BY <2>2, <2>3, FS_Subset
  <2>5. QED BY <2>4
<1>4. IsFiniteSet(E)
  BY DEF History
<1> HIDE DEF G
<1>5. E \in G
  BY <1>2, <1>3, <1>4, SetInduction
<1>6. Tasks(E) = K
  BY <1>1
<1>7. IsFiniteSet(K)
  BY <1>5, <1>6 DEF G
<1>8. K \subseteq Delegated(E)
  BY <1>1 DEF Delegated
<1>9. QED BY <1>1, <1>7, <1>8 DEF K

\* What a command that passes the check has read.
LEMMA CheckedOnView ==
  ASSUME LInv, ChainInv, NEW c \in Command, NEW p \in KnownTasks(View(c.by)),
         ~TooDeep(c, View(c.by), p)
  PROVE  \E S : Short(S, p, ChainLimit[c.by], log)
<1> DEFINE s == View(c.by)
           K == KnownTasks(s)
<1>1. Plainly(log) /\ History(log) /\ Agreed(log)
  BY LogAgrees, LogIsPlain DEF LInv, TypeOK, Plainly
<1>2. ContextOf(c.by) \in Context /\ ContextOf(c.by).deleted = {}
  BY LedgerAssumption DEF ContextOf, Context
<1>3. s = Reduce(ContextOf(c.by), log)
  BY DEF View
<1>4. /\ IsFiniteSet(K) /\ K \subseteq Delegated(log) /\ K \subseteq TaskId
      /\ \A u \in K : \E e \in log : /\ e.kind = "delegate" /\ e.task = u
                                     /\ e.parent = s.tasks[u].parent
  <2>1. K \subseteq TaskId
    BY DEF KnownTasks
  <2> HIDE DEF K
  <2>2. K = KnownTasks(Reduce(ContextOf(c.by), log))
    BY <1>3 DEF K
  <2> HIDE DEF s
  <2>3. QED BY <1>1, <1>3, <2>1, <2>2, KnownAreDelegated
<1>5. s \in State /\ Readable(s, log)
  BY <1>1, <1>2, <1>3, ReduceOK, AllRead DEF StateInv
<1> HIDE DEF s
<1>6. \A u \in Delegated(log) : u \in K
  BY <1>1, <1>5 DEF Delegated, Readable, KnownTasks, Plainly, Plain
<1>7. \A e \in log : e.kind = "delegate" => e.parent \in K \cup {None}
  <2> TAKE e \in log
  <2> HAVE e.kind = "delegate"
  <2> SUFFICES ASSUME e.parent # None PROVE e.parent \in K
    OBVIOUS
  <2>1. PICK d \in Command : /\ d.kind = "delegate" /\ run[d].msg # None
                             /\ IsCopy(e, run[d].msg)
    BY LogCarries
  <2>2. run[d].msg.parent = e.parent
    BY <2>1 DEF IsCopy
  <2>3. PICK S : Short(S, e.parent, ChainLimit[d.by], log)
    BY <2>1, <2>2 DEF ChainInv, Checked
  <2>4. e.parent \in Delegated(log)
    BY <2>3 DEF Short
  <2>5. QED BY <1>6, <2>4
<1>8. \A u \in K : s.tasks[u].parent \in K \cup {None}
  BY <1>4, <1>7
<1>9. PICK f : Unfolds(s, f) /\ ChainDepth(s, p) = Cardinality(f[{}][p])
  BY <1>4, <1>5, ChainUnfolds
<1> DEFINE S == f[{}][p]
<1>10. p \in K /\ p # None
  BY <1>4, AbsentFacts DEF s
<1>11. S \subseteq K /\ p \in S /\ \A x \in S : s.tasks[x].parent \in S \cup {None}
  <2>1. Closed(s, f, {}, p)
    BY <1>4, <1>5, <1>8, <1>9, <1>10, ChainClosed
  <2>2. QED BY <1>10, <2>1 DEF Closed
<1>12. IsFiniteSet(S) /\ Cardinality(S) \in Nat
  BY <1>4, <1>11, FS_Subset, FS_CardinalityType
<1>13. Cardinality(S) + 1 <= ChainLimit[c.by]
  <2>1. ~(ChainDepth(s, p) + 1 > ChainLimit[c.by])
    BY DEF TooDeep, s
  <2>2. ChainLimit[c.by] \in Nat
    BY LedgerAssumption, CommandAssumption
  <2>3. QED BY <1>9, <1>12, <2>1, <2>2
<1>14. \A e \in log : e.kind = "delegate" /\ e.task \in S => e.parent \in S \cup {None}
  <2> TAKE e \in log
  <2> HAVE e.kind = "delegate" /\ e.task \in S
  <2>1. PICK x \in log : /\ x.kind = "delegate" /\ x.task = e.task
                         /\ x.parent = s.tasks[e.task].parent
    BY <1>4, <1>11
  <2>2. x.parent = e.parent
    BY <1>1, <2>1 DEF Agreed
  <2>3. QED BY <1>11, <2>1, <2>2
<1> HIDE DEF S
<1>15. QED BY <1>4, <1>11, <1>12, <1>13, <1>14 DEF Short

LEMMA NewDelegation ==
  ASSUME LInv, [Next]_vars, NEW c \in Command, c.kind = "delegate"
  PROVE  run'[c].msg = run[c].msg \/ Delegate(c)
<1>1. run \in [Command -> RunState]
  BY DEF LInv, TypeOK
<1>2. CASE UNCHANGED vars \/ Tick \/ Publish
  BY <1>2 DEF vars, Tick, Publish
<1>3. ASSUME NEW d \in Command, d # c, Step(d) \/ Land(d) PROVE run'[c].msg = run[c].msg
  BY <1>1, <1>3 DEF Step, Land, Delegate, Ack, ReportTask, Cancel, Refuse, Prepare,
                    PostAccepted, PostFails, PostTimesOut, Reread, Return
<1>4. ASSUME Step(c) \/ Land(c) PROVE run'[c].msg = run[c].msg \/ Delegate(c)
  <2>1. CASE PostAccepted(c) \/ PostFails(c) \/ PostTimesOut(c) \/ Reread(c) \/ Land(c)
    BY <1>1, <2>1 DEF RunState, PostAccepted, PostFails, PostTimesOut, Reread, Return, Land
  <2>2. CASE Ack(c) \/ ReportTask(c) \/ Cancel(c)
    BY <2>2 DEF Ack, ReportTask, Cancel
  <2>3. QED BY <1>4, <2>1, <2>2 DEF Step
<1>5. QED BY <1>2, <1>3, <1>4 DEF Next

LEMMA DelegateChecked ==
  ASSUME LInv, ChainInv, NEW c \in Command, Delegate(c)
  PROVE  log' = log /\ Checked(c, run'[c].msg, log)
<1>1. run \in [Command -> RunState] /\ c.kind = "delegate"
  BY DEF LInv, TypeOK, Delegate
<1>2. CASE Refuse(c)
  <2>1. run'[c].msg = run[c].msg /\ log' = log
    BY <1>1, <1>2 DEF Refuse, RunState
  <2>2. QED BY <2>1 DEF ChainInv
<1>3. ASSUME NEW parent \in KnownTasks(View(c.by)) \cup {None},
             ~(parent # None /\ TooDeep(c, View(c.by), parent)),
             Prepare(c, Delegation(c, NewId(TaskId), NewId(AttemptId), parent, RunRoot(c.run)))
      PROVE  log' = log /\ Checked(c, run'[c].msg, log)
  <2> DEFINE msg == Delegation(c, NewId(TaskId), NewId(AttemptId), parent, RunRoot(c.run))
  <2>1. msg.parent = parent
    BY DEF Delegation, Draft
  <2>2. Prepare(c, msg)
    BY <1>3
  <2> HIDE DEF msg
  <2>3. run'[c].msg = msg /\ log' = log
    BY <1>1, <2>2 DEF Prepare, RunState
  <2>4. CASE parent = None
    BY <2>1, <2>3, <2>4 DEF Checked
  <2>5. CASE parent # None
    <3>1. \E S : Short(S, parent, ChainLimit[c.by], log)
      BY <1>3, <2>5, CheckedOnView
    <3>2. QED BY <2>1, <2>3, <3>1 DEF Checked
  <2>6. QED BY <2>4, <2>5
<1>4. QED BY <1>2, <1>3 DEF Delegate

LEMMA NextChainInv ==
  ASSUME LInv, ChainInv, [Next]_vars, Agreed(log')
  PROVE  ChainInv'
<1>1. log \subseteq log'
  BY LogGrows
<1>2. SUFFICES ASSUME NEW c \in Command, c.kind = "delegate"
               PROVE  Checked(c, run'[c].msg, log')
  BY DEF ChainInv, Checked
<1>3. CASE run'[c].msg = run[c].msg
  BY <1>1, <1>3, ShortGrows DEF ChainInv
<1>4. CASE Delegate(c)
  BY <1>4, DelegateChecked
<1>5. QED BY <1>2, <1>3, <1>4, NewDelegation

\* No chain of parents grows longer than the limit its last requester knows,
\* whatever other delegations come between its check and its post
\* (fleet_commands.py:183-186).  A task without a parent is a chain of one,
\* which no limit is asked about: the code compares only when there is one.
THEOREM ChainsAreShort ==
  ASSUME \A m \in Member : ChainLimit[m] >= 1
  PROVE  Spec => []ChainsStayShort
<1>1. Init => ChainInv
  BY DEF Init, ChainInv, Checked
<1>2. LInv => Agreed(log)
  BY LogAgrees
<1>3. LInv /\ ChainInv /\ [Next]_vars /\ Agreed(log)' => ChainInv'
  BY NextChainInv
<1>4. ASSUME LInv, ChainInv PROVE ChainsStayShort
  <2> DEFINE s == Truth
  <2>1. SUFFICES ASSUME NEW t \in KnownTasks(s)
                 PROVE  ChainDepth(s, t) <= ChainLimit[s.tasks[t].requester]
    BY DEF ChainsStayShort
  <2>2. History(log) /\ Agreed(log)
    BY <1>4, LogAgrees DEF LInv, TypeOK
  <2>3. s = Reduce(Fleet, log) /\ s \in State
    BY <2>2, ReduceOK DEF Truth, StateInv
  <2>4. /\ IsFiniteSet(KnownTasks(s)) /\ t \in TaskId
        /\ \A u \in KnownTasks(s) :
             \E e \in log : /\ e.kind = "delegate" /\ e.task = u
                            /\ e.parent = s.tasks[u].parent
                            /\ e.author = s.tasks[u].requester
    <3>1. t \in TaskId
      BY <2>1 DEF KnownTasks
    <3> HIDE DEF s
    <3>2. QED BY <2>2, <2>3, <3>1, KnownAreDelegated
  <2> HIDE DEF s
  <2>5. PICK f : Unfolds(s, f) /\ ChainDepth(s, t) = Cardinality(f[{}][t])
    BY <2>3, <2>4, ChainUnfolds
  <2>6. PICK e \in log : /\ e.kind = "delegate" /\ e.task = t
                         /\ e.parent = s.tasks[t].parent
                         /\ e.author = s.tasks[t].requester
    BY <2>1, <2>4
  <2>7. PICK c \in Command : /\ run[c].msg # None /\ IsCopy(e, run[c].msg)
                             /\ c.kind = "delegate" /\ c.by = e.author
    <3>1. PICK c \in Command : /\ run[c].msg # None /\ IsCopy(e, run[c].msg)
                               /\ c.kind = "delegate" /\ Fits(c, run[c].msg, log)
      BY <1>4, <2>6, LogCarries
    <3>2. QED BY <3>1 DEF Fits, IsCopy
  <2>8. f[{}][t] = f[{t}][e.parent]
    BY <2>1, <2>4, <2>5, <2>6 DEF Unfolds
  <2>9. ChainLimit[c.by] \in Nat /\ ChainLimit[c.by] >= 1
    BY LedgerAssumption, CommandAssumption
  <2>10. CASE e.parent = None
    <3>1. None \notin KnownTasks(s)
      BY AbsentFacts DEF KnownTasks
    <3>2. f[{}][t] = {t}
      BY <2>4, <2>5, <2>8, <2>10, <3>1 DEF Unfolds
    <3>3. Cardinality({t}) = 1
      BY FS_Singleton
    <3>4. QED BY <2>5, <2>6, <2>7, <2>9, <3>2, <3>3
  <2>11. CASE e.parent # None
    <3>1. PICK S : Short(S, e.parent, ChainLimit[c.by], log)
      BY <1>4, <2>7, <2>11 DEF ChainInv, Checked, IsCopy
    <3>2. S \in SUBSET TaskId
      BY <2>2, <3>1 DEF Short, Delegated, Agreed
    <3>3. \A u \in KnownTasks(s) \cap S : s.tasks[u].parent \in S \cup {None}
      BY <2>4, <3>1 DEF Short
    <3>4. f[{t}][e.parent] \subseteq {t} \cup S
      <4>1. {t} \in SUBSET TaskId /\ e.parent \in S \cup {None}
        BY <2>4, <3>1 DEF Short
      <4>2. QED BY <2>3, <2>4, <2>5, <3>2, <3>3, <4>1, ChainWithin
    <3>5. IsFiniteSet(S \cup {t}) /\ Cardinality(S \cup {t}) <= Cardinality(S) + 1
          /\ Cardinality(S) \in Nat
      <4>1. IsFiniteSet(S) /\ Cardinality(S) \in Nat
        BY <3>1, FS_CardinalityType DEF Short
      <4>2. /\ IsFiniteSet(S \cup {t})
            /\ Cardinality(S \cup {t}) = IF t \in S THEN Cardinality(S) ELSE Cardinality(S) + 1
        BY <4>1, FS_AddElement
      <4>3. QED BY <4>1, <4>2
    <3>6. f[{}][t] \in SUBSET (S \cup {t})
      BY <2>8, <3>4
    <3>7. IsFiniteSet(f[{}][t]) /\ Cardinality(f[{}][t]) <= Cardinality(S \cup {t})
      BY <3>5, <3>6, FS_Subset
    <3>8. Cardinality(f[{}][t]) \in Nat /\ Cardinality(S \cup {t}) \in Nat
      BY <3>5, <3>7, FS_CardinalityType
    <3>9. Cardinality(S) + 1 <= ChainLimit[c.by]
      BY <3>1 DEF Short
    <3>10. QED BY <2>5, <2>6, <2>7, <2>9, <3>5, <3>7, <3>8, <3>9
  <2>12. QED BY <2>10, <2>11
<1>5. QED BY <1>1, <1>2, <1>3, <1>4, InductiveInvariant, PTL DEF Spec

-----------------------------------------------------------------------------
(* One command after the other. *)

\* A member of Exclusive has finished with the earlier command before it starts
\* the next.
Turns ==
  \A c, d \in Command :
    /\ d.by = c.by /\ c.by \in Exclusive /\ d.no < c.no
    /\ run[c].pc # "idle"
    => run[d].pc \in Over

\* A delegation in a run says so.
RunKept == \A c \in Command : c.kind = "delegate" /\ run[c].msg # None => run[c].msg.run = c.run

Active(c) == run[c].pc \in {"posting", "ambiguous", "reposting"}

\* A step of c alone that starts it when it is free, or goes on with its
\* message.
LEMMA StepTurns ==
  ASSUME Turns, RunKept, NEW c \in Command,
         \A d \in Command : d # c => run'[d] = run[d],
         Free(c) \/ Active(c) \/ run'[c] = run[c],
         \/ run'[c].msg = run[c].msg
         \/ c.kind = "delegate" => run'[c].msg.run = c.run
  PROVE  Turns' /\ RunKept'
<1>1. RunKept'
  BY DEF RunKept
<1>2. Turns'
  <2>1. CASE Free(c)
    BY <2>1 DEF Turns, Free, Over
  <2>2. CASE Active(c)
    BY <2>2 DEF Turns, Active, Over
  <2>3. CASE run'[c] = run[c]
    BY <2>3 DEF Turns
  <2>4. QED BY <2>1, <2>2, <2>3
<1>3. QED BY <1>1, <1>2

LEMMA NextTurns ==
  ASSUME LInv, Turns, RunKept, [Next]_vars PROVE Turns' /\ RunKept'
<1>1. run \in [Command -> RunState]
  BY DEF LInv, TypeOK
<1>2. CASE UNCHANGED vars \/ Tick \/ Publish
  BY <1>2 DEF vars, Tick, Publish, Turns, RunKept
<1>3. ASSUME NEW c \in Command, Step(c) \/ Land(c) PROVE Turns' /\ RunKept'
  <2>1. \A d \in Command : d # c => run'[d] = run[d]
    BY <1>1, <1>3 DEF Step, Land, Delegate, Ack, ReportTask, Cancel, Refuse, Prepare,
                      PostAccepted, PostFails, PostTimesOut, Reread, Return
  <2>2. CASE PostAccepted(c) \/ PostFails(c) \/ PostTimesOut(c) \/ Reread(c) \/ Land(c)
    <3>1. (Active(c) \/ run'[c] = run[c]) /\ run'[c].msg = run[c].msg
      BY <1>1, <2>2 DEF RunState, PostAccepted, PostFails, PostTimesOut, Reread, Return, Land, Active
    <3>2. QED BY <2>1, <3>1, StepTurns
  <2>3. CASE Ack(c) \/ ReportTask(c) \/ Cancel(c)
    <3>1. Free(c) /\ c.kind # "delegate"
      BY <2>3 DEF Ack, ReportTask, Cancel
    <3>2. QED BY <2>1, <3>1, StepTurns
  <2>4. CASE Delegate(c)
    <3>1. Free(c)
      BY <2>4 DEF Delegate
    <3>2. run'[c].msg = run[c].msg \/ run'[c].msg.run = c.run
      <4>1. CASE Refuse(c)
        BY <1>1, <4>1 DEF Refuse, RunState
      <4>2. ASSUME NEW parent,
                   Prepare(c, Delegation(c, NewId(TaskId), NewId(AttemptId), parent, RunRoot(c.run)))
            PROVE  run'[c].msg.run = c.run
        <5> DEFINE msg == Delegation(c, NewId(TaskId), NewId(AttemptId), parent, RunRoot(c.run))
        <5>1. msg.run = c.run
          BY DEF Delegation, Draft
        <5>2. Prepare(c, msg)
          BY <4>2
        <5> HIDE DEF msg
        <5>3. run'[c].msg = msg
          BY <1>1, <5>2 DEF Prepare, RunState
        <5>4. QED BY <5>1, <5>3
      <4>3. QED BY <2>4, <4>1, <4>2 DEF Delegate
    <3>3. QED BY <2>1, <3>1, <3>2, StepTurns
  <2>5. QED BY <1>3, <2>2, <2>3, <2>4 DEF Step
<1>4. QED BY <1>2, <1>3 DEF Next

\* Whatever else they do, members of Exclusive take their commands in turn.
LEMMA TurnsTaken == Spec => [](Turns /\ RunKept)
<1>1. Init => Turns /\ RunKept
  BY DEF Init, Turns, RunKept
<1>2. LInv /\ Turns /\ RunKept /\ [Next]_vars => Turns' /\ RunKept'
  BY NextTurns
<1>3. QED BY <1>1, <1>2, InductiveInvariant, PTL DEF Spec

-----------------------------------------------------------------------------
(* One thread to a run. *)

\* A message of a run is about to join the run's thread: that of an event of the
\* run, or, if there was none, the one its own first copy starts.
JoinsThread(r, c, msg, E, S) ==
  IF msg.root # None
    THEN \E e \in E : e.runTag = r /\ ThreadOf(e) = msg.root
    ELSE c.kind = "delegate" /\ \A e \in E : e.runTag = r => \E x \in S : ThreadOf(e) = x.id
JoinsOnPost ==
  \A c \in Command :
    Active(c) /\ run[c].msg.run # None =>
      JoinsThread(run[c].msg.run, c, run[c].msg, log, stored[c])

ThreadInv == JoinsOnPost /\ RunHasOneThread

\* Each run is one member's, who delegates in it one command after the other.
RunsByOne ==
  \A c, d \in Command :
    c.kind = "delegate" /\ d.kind = "delegate" /\ c.run = d.run /\ c.run # None =>
      c.by = d.by /\ c.by \in Exclusive /\ (c = d \/ c.no < d.no \/ d.no < c.no)

LEMMA RefuseThreadInv ==
  ASSUME LInv, ThreadInv, NEW c \in Command, Free(c), Refuse(c) PROVE ThreadInv'
<1>1. /\ UNCHANGED <<now, log, flight, stored>>
      /\ run[c].pc = "idle" /\ run[c].msg = None
      /\ run'[c].pc = "refused" /\ run'[c].msg = None
      /\ \A d \in Command : d # c => run'[d] = run[d]
  BY DEF Refuse, Free, LInv, TypeOK, Drafted, RunState
<1>2. JoinsOnPost'
  BY <1>1 DEF ThreadInv, JoinsOnPost, Active, JoinsThread
<1>3. RunHasOneThread'
  BY <1>1 DEF ThreadInv, RunHasOneThread
<1>4. QED BY <1>2, <1>3 DEF ThreadInv

LEMMA PrepareThreadInv ==
  ASSUME LInv, ThreadInv, NEW c \in Command, Free(c), NEW msg \in Message, Prepare(c, msg),
         c.kind = "delegate" => msg.run = c.run,
         msg.run # None => JoinsThread(msg.run, c, msg, log, stored[c])
  PROVE  ThreadInv'
<1>1. /\ UNCHANGED <<now, log, flight, stored>>
      /\ run[c].pc = "idle"
      /\ run'[c].pc = "posting" /\ run'[c].msg = msg
      /\ \A d \in Command : d # c => run'[d] = run[d]
  BY DEF Prepare, Free, LInv, TypeOK, RunState
<1>2. JoinsOnPost'
  <2> SUFFICES ASSUME NEW d \in Command, Active(d)', run'[d].msg.run # None
               PROVE  JoinsThread(run'[d].msg.run, d, run'[d].msg, log, stored[d])
    BY <1>1 DEF JoinsOnPost
  <2>1. CASE d = c
    BY <1>1, <2>1
  <2>2. CASE d # c
    BY <1>1, <2>2 DEF ThreadInv, JoinsOnPost, Active
  <2>3. QED BY <2>1, <2>2
<1>3. RunHasOneThread'
  BY <1>1 DEF ThreadInv, RunHasOneThread
<1>4. QED BY <1>2, <1>3 DEF ThreadInv

\* A step of posting, when nothing lands late: c goes on with its message, and
\* stores at most one fresh copy of it.
Sends(c, N) ==
  /\ Active(c) /\ run'[c].msg = run[c].msg
  /\ \A d \in Command : d # c => run'[d] = run[d]
  /\ log' = log \cup N /\ stored' = [stored EXCEPT ![c] = @ \cup N]
  /\ \/ N = {}
     \/ /\ run[c].pc \in {"posting", "reposting"}
        /\ \E e \in N : N = {e} /\ IsCopy(e, run[c].msg)

LEMMA SendsFacts ==
  ASSUME LInv, ~MayDelay, NEW c \in Command,
         PostAccepted(c) \/ PostFails(c) \/ PostTimesOut(c) \/ Reread(c) \/ Land(c)
  PROVE  \E N : Sends(c, N)
<1>1. run \in [Command -> RunState] /\ stored \in [Command -> SUBSET log] /\ flight = {}
  BY DEF LInv, TypeOK, NothingHidden
<1>2. /\ Active(c) /\ run'[c].msg = run[c].msg
      /\ \A d \in Command : d # c => run'[d] = run[d]
  BY <1>1 DEF PostAccepted, PostFails, PostTimesOut, Reread, Land, Return, RunState, Active
<1>3. CASE UNCHANGED <<log, stored>>
  <2>1. log' = log \cup {} /\ stored' = [stored EXCEPT ![c] = @ \cup {}]
    BY <1>1, <1>3
  <2>2. QED BY <1>2, <2>1 DEF Sends
<1>4. ASSUME NEW id \in FreshIds, Store(c, Sign(run[c].msg, id)),
             run[c].pc \in {"posting", "reposting"}
      PROVE  \E N : Sends(c, N)
  <2> DEFINE ev == Sign(run[c].msg, id)
  <2>1. IsCopy(ev, run[c].msg)
    <3>1. run[c].msg \in Message
      BY <1>4, Posting
    <3>2. QED BY <3>1, Signed
  <2>2. log' = log \cup {ev} /\ stored' = [stored EXCEPT ![c] = @ \cup {ev}]
    BY <1>4 DEF Store
  <2> HIDE DEF ev
  <2>3. Sends(c, {ev})
    BY <1>2, <1>4, <2>1, <2>2 DEF Sends
  <2>4. QED BY <2>3
<1>5. QED
  BY <1>1, <1>3, <1>4 DEF PostAccepted, PostFails, PostTimesOut, Reread, Land

LEMMA SendsThreadInv ==
  ASSUME LInv, Turns, RunKept, ThreadInv, RunsByOne, ~MayDelay, NEW c \in Command, NEW N, Sends(c, N)
  PROVE  ThreadInv'
<1> DEFINE msg == run[c].msg
           R == msg.run
<1>1. /\ Active(c) /\ run'[c].msg = msg /\ log' = log \cup N
      /\ \A d \in Command : d # c => run'[d] = run[d]
      /\ stored'[c] = stored[c] \cup N
      /\ \A d \in Command : d # c => stored'[d] = stored[d]
  BY DEF Sends, LInv, TypeOK
<1>2. msg # None
  BY <1>1, Posting DEF Active
<1>3. CASE N = {}
  <2>1. JoinsOnPost'
    <3> SUFFICES ASSUME NEW d \in Command, Active(d)', run'[d].msg.run # None
                 PROVE  JoinsThread(run'[d].msg.run, d, run'[d].msg, log', stored'[d])
      BY DEF JoinsOnPost
    <3>1. Active(d) /\ run'[d].msg = run[d].msg /\ log' = log /\ stored'[d] = stored[d]
      BY <1>1, <1>3 DEF Active
    <3>2. QED BY <3>1 DEF ThreadInv, JoinsOnPost
  <2>2. RunHasOneThread'
    BY <1>1, <1>3 DEF ThreadInv, RunHasOneThread
  <2>3. QED BY <2>1, <2>2 DEF ThreadInv
<1>4. ASSUME NEW e \in N, N = {e}, IsCopy(e, msg), run[c].pc \in {"posting", "reposting"}
      PROVE  ThreadInv'
  <2>1. e.runTag = R /\ e.root = msg.root /\ log' = log \cup {e}
    BY <1>1, <1>4 DEF IsCopy
  <2>2. R # None => JoinsThread(R, c, msg, log, stored[c])
    BY <1>1 DEF ThreadInv, JoinsOnPost
  <2>3. msg.root = None /\ R # None => c.kind = "delegate" /\ \A x \in log : x.runTag # R
    <3> SUFFICES ASSUME msg.root = None, R # None
                 PROVE  c.kind = "delegate" /\ \A x \in log : x.runTag # R
      OBVIOUS
    <3>1. c.kind = "delegate" /\ \A x \in log : x.runTag = R => stored[c] # {}
      BY <2>2 DEF JoinsThread
    <3>2. stored[c] = {}
      BY <1>4, <3>1, Posting DEF OncePosted
    <3>3. QED BY <3>1, <3>2
  <2> HIDE DEF R
  <2>4. ThreadOf(e) = IF msg.root = None THEN e.id ELSE msg.root
    BY <2>1 DEF ThreadOf
  <2>5. \A x, y \in log : x.runTag # None /\ x.runTag = y.runTag => ThreadOf(x) = ThreadOf(y)
    BY DEF ThreadInv, RunHasOneThread, ThreadOf
  <2>6. R # None => \A x \in log : x.runTag = R => ThreadOf(x) = ThreadOf(e)
    BY <2>2, <2>3, <2>4, <2>5 DEF JoinsThread
  <2>7. RunHasOneThread'
    <3>1. \A x, y \in log' : x.runTag # None /\ x.runTag = y.runTag => ThreadOf(x) = ThreadOf(y)
      BY <2>1, <2>5, <2>6
    <3>2. QED BY <3>1 DEF RunHasOneThread, ThreadOf
  <2>8. JoinsOnPost'
    <3> SUFFICES ASSUME NEW d \in Command, Active(d)', run'[d].msg.run # None
                 PROVE  JoinsThread(run'[d].msg.run, d, run'[d].msg, log', stored'[d])
      BY DEF JoinsOnPost
    <3>1. CASE d = c
      <4>1. CASE msg.root # None
        <5>1. PICK x \in log : x.runTag = R /\ ThreadOf(x) = msg.root
          BY <1>1, <2>2, <3>1, <4>1 DEF JoinsThread, R
        <5>2. QED BY <1>1, <3>1, <4>1, <5>1 DEF JoinsThread, R
      <4>2. CASE msg.root = None
        <5>1. c.kind = "delegate" /\ \A x \in log : x.runTag # R
          BY <1>1, <2>3, <3>1, <4>2 DEF R
        <5>2. e \in stored'[c] /\ ThreadOf(e) = e.id
          BY <1>1, <2>4, <4>2
        <5>3. \A x \in log' : x.runTag = R => \E y \in stored'[c] : ThreadOf(x) = y.id
          BY <2>1, <5>1, <5>2
        <5>4. QED BY <1>1, <3>1, <4>2, <5>1, <5>3 DEF JoinsThread, R
      <4>3. QED BY <4>1, <4>2
    <3>2. CASE d # c
      <4>1. Active(d) /\ run'[d] = run[d] /\ stored'[d] = stored[d]
        BY <1>1, <3>2 DEF Active
      <4>2. JoinsThread(run[d].msg.run, d, run[d].msg, log, stored[d]) /\ run[d].msg.run # None
        BY <4>1 DEF ThreadInv, JoinsOnPost
      <4>3. CASE run[d].msg.root # None
        <5>1. PICK x \in log : x.runTag = run[d].msg.run /\ ThreadOf(x) = run[d].msg.root
          BY <4>2, <4>3 DEF JoinsThread
        <5>2. QED BY <2>1, <4>1, <4>3, <5>1 DEF JoinsThread
      <4>4. CASE run[d].msg.root = None
        <5>1. /\ d.kind = "delegate"
              /\ \A x \in log : x.runTag = run[d].msg.run =>
                                  \E y \in stored[d] : ThreadOf(x) = y.id
          BY <4>2, <4>4 DEF JoinsThread
        <5>2. CASE R # run[d].msg.run
          <6>1. \A x \in log' : x.runTag = run[d].msg.run =>
                                  \E y \in stored[d] : ThreadOf(x) = y.id
            BY <2>1, <5>1, <5>2
          <6>2. QED BY <4>1, <4>4, <5>1, <6>1 DEF JoinsThread
        <5>3. CASE R = run[d].msg.run /\ msg.root # None
          <6>1. PICK x \in log : x.runTag = R
            BY <2>2, <4>2, <5>3 DEF JoinsThread
          <6>2. PICK y \in stored[d] : ThreadOf(x) = y.id
            BY <5>1, <5>3, <6>1
          <6>3. ThreadOf(e) = y.id
            BY <2>6, <4>2, <5>3, <6>1, <6>2
          <6>4. \A z \in log' : z.runTag = run[d].msg.run =>
                                  \E w \in stored[d] : ThreadOf(z) = w.id
            BY <2>1, <5>1, <6>3
          <6>5. QED BY <4>1, <4>4, <5>1, <6>4 DEF JoinsThread
        <5>4. CASE R = run[d].msg.run /\ msg.root = None
          <6>1. c.kind = "delegate" /\ R # None
            BY <2>3, <4>2, <5>4
          <6>2. run[d].msg # None
            BY <4>1, Posting DEF Active
          <6>3. R = c.run /\ R = d.run
            BY <1>2, <5>1, <5>4, <6>1, <6>2 DEF RunKept, R
          <6>4. c.by = d.by /\ c.by \in Exclusive /\ (c.no < d.no \/ d.no < c.no)
            BY <3>2, <5>1, <6>1, <6>3 DEF RunsByOne
          <6>5. /\ run[c].pc # "idle" /\ run[c].pc \notin Over
                /\ run[d].pc # "idle" /\ run[d].pc \notin Over
            BY <1>1, <4>1 DEF Active, Over
          <6>6. QED BY <6>4, <6>5 DEF Turns
        <5>5. QED BY <5>2, <5>3, <5>4
      <4>5. QED BY <4>3, <4>4
    <3>3. QED BY <3>1, <3>2
  <2>9. QED BY <2>7, <2>8 DEF ThreadInv
<1>5. QED BY <1>3, <1>4 DEF Sends

LEMMA DelegateThreadInv ==
  ASSUME LInv, ThreadInv, NEW c \in Command, Delegate(c) PROVE ThreadInv'
<1>1. c.kind = "delegate" /\ Free(c) /\ c.run \in RunId \cup {None} /\ c.by \in Member /\ c.to \in Member
  BY CommandAssumption DEF Delegate
<1>2. CASE Refuse(c)
  BY <1>1, <1>2, RefuseThreadInv
<1>3. ASSUME NEW parent \in KnownTasks(View(c.by)) \cup {None},
             UnusedIds(TaskId) # {}, UnusedIds(AttemptId) # {},
             Prepare(c, Delegation(c, NewId(TaskId), NewId(AttemptId), parent, RunRoot(c.run)))
      PROVE  ThreadInv'
  <2> DEFINE msg == Delegation(c, NewId(TaskId), NewId(AttemptId), parent, RunRoot(c.run))
  <2>1. Prepare(c, msg)
    BY <1>3
  <2>2. RunRoot(c.run) \in EventId \cup {None}
    BY <1>1, RunRootFacts
  <2>3. msg \in Message /\ msg.root = RunRoot(c.run) /\ msg.run = c.run
    <3> DEFINE d == Draft(c.by, "delegate", NewId(TaskId), NewId(AttemptId), RunRoot(c.run))
    <3>1. NewId(TaskId) \in TaskId /\ NewId(AttemptId) \in AttemptId
      BY <1>3 DEF NewId, UnusedIds
    <3>2. d \in Message /\ d.root = RunRoot(c.run)
      BY <1>1, <2>2, <3>1 DEF Draft, Message
    <3>3. msg = [d EXCEPT !.to = c.to, !.parent = parent, !.run = c.run]
      BY DEF Delegation
    <3>4. parent \in TaskId \cup {None}
      BY DEF KnownTasks
    <3> HIDE DEF d, msg
    <3>5. QED BY <1>1, <3>2, <3>3, <3>4 DEF Message
  <2> HIDE DEF msg
  <2>4. c.run # None => JoinsThread(c.run, c, msg, log, stored[c])
    <3> SUFFICES ASSUME c.run # None PROVE JoinsThread(c.run, c, msg, log, stored[c])
      OBVIOUS
    <3>1. CASE RunRoot(c.run) = None /\ \A e \in log : e.runTag # c.run
      BY <1>1, <2>3, <3>1 DEF JoinsThread
    <3>2. ASSUME NEW e \in log, e.runTag = c.run, RunRoot(c.run) = ThreadOf(e)
          PROVE  JoinsThread(c.run, c, msg, log, stored[c])
      <4>1. ThreadOf(e) # None
        <5>1. e \in EventRecord /\ None \notin EventId
          BY IdAssumption, AbsentFacts DEF LInv, TypeOK, History
        <5>2. QED BY <5>1 DEF ThreadOf, EventRecord
      <4>2. QED BY <2>3, <3>2, <4>1 DEF JoinsThread
    <3>3. QED BY <1>1, <3>1, <3>2, RunRootFacts
  <2>5. QED BY <1>1, <2>1, <2>3, <2>4, PrepareThreadInv
<1>4. QED BY <1>2, <1>3 DEF Delegate

\* A report stays in the thread its task's delegation started or joined.
LEMMA ReportThreadInv ==
  ASSUME LInv, ThreadInv, NEW c \in Command, ReportTask(c) PROVE ThreadInv'
<1>1. c.kind = "report" /\ Free(c) /\ c.by \in Member /\ c.status \in Reported
  BY CommandAssumption DEF ReportTask
<1>2. CASE Refuse(c)
  BY <1>1, <1>2, RefuseThreadInv
<1>3. ASSUME NEW t \in KnownTasks(View(c.by)),
             Prepare(c, Report(c.by, t, View(c.by).tasks[t], c.status))
      PROVE  ThreadInv'
  <2> DEFINE task == View(c.by).tasks[t]
             d == Draft(c.by, "report", t, Current(task).id, task.root)
             msg == Report(c.by, t, task, c.status)
  <2>1. /\ t \in TaskId /\ task.root \in EventId /\ task.run \in RunId \cup {None}
        /\ Current(task).id \in AttemptId \cup EventId
    BY AboutFacts
  <2>2. OneFrom(task, {e \in log : e.task = t})
    <3>1. History(log) /\ Agreed(log)
      BY LogAgrees DEF LInv, TypeOK
    <3>2. QED BY <3>1, OneAttempt DEF View
  <2>3. Prepare(c, msg)
    BY <1>3
  <2> HIDE DEF task
  <2>4. msg \in Message /\ msg.root = task.root /\ msg.run = task.run
    <3>1. d \in Message /\ d.root = task.root
      BY <1>1, <2>1 DEF Draft, Message
    <3>2. msg = [d EXCEPT !.status = c.status, !.run = task.run]
      BY DEF Report
    <3> HIDE DEF d, msg
    <3>3. QED BY <1>1, <2>1, <3>1, <3>2 DEF Message
  <2> HIDE DEF msg
  <2>5. PICK e \in log : OpenedBy(task, e)
    BY <2>2 DEF OneFrom
  <2>6. e.run = e.runTag
    BY LogCarries DEF IsCopy
  <2>7. e.runTag = task.run /\ ThreadOf(e) = task.root
    BY <2>5, <2>6 DEF OpenedBy, ThreadOf
  <2>8. task.root # None
    BY <2>1, IdAssumption, AbsentFacts
  <2>9. JoinsThread(msg.run, c, msg, log, stored[c])
    BY <2>4, <2>7, <2>8 DEF JoinsThread
  <2>10. QED BY <1>1, <2>3, <2>4, <2>9, PrepareThreadInv
<1>4. QED BY <1>2, <1>3 DEF ReportTask

\* An acknowledgement and a cancellation name no run.
LEMMA RunlessThreadInv ==
  ASSUME LInv, ThreadInv, NEW c \in Command, Ack(c) \/ Cancel(c) PROVE ThreadInv'
<1>1. c.kind \in {"ack", "cancel-task"} /\ Free(c) /\ c.by \in Member
  BY CommandAssumption DEF Ack, Cancel
<1>2. CASE Refuse(c)
  BY <1>1, <1>2, RefuseThreadInv
<1>3. ASSUME NEW msg \in Message, msg.run = None, Prepare(c, msg)
      PROVE  ThreadInv'
  BY <1>1, <1>3, PrepareThreadInv
<1>4. ASSUME NEW t \in KnownTasks(View(c.by))
      PROVE  LET task == View(c.by).tasks[t] IN
             /\ Acknowledgement(c.by, t, task) \in Message
             /\ Acknowledgement(c.by, t, task).run = None
             /\ Cancellation(c.by, t, task) \in Message
             /\ Cancellation(c.by, t, task).run = None
  <2> DEFINE task == View(c.by).tasks[t]
  <2>1. /\ t \in TaskId /\ task.root \in EventId
        /\ Current(task).id \in AttemptId \cup EventId
    BY AboutFacts
  <2> HIDE DEF task
  <2>2. /\ Acknowledgement(c.by, t, task) \in Message
        /\ Acknowledgement(c.by, t, task).run = None
    BY <1>1, <2>1 DEF Acknowledgement, Draft, Message
  <2>3. /\ Cancellation(c.by, t, task) \in Message
        /\ Cancellation(c.by, t, task).run = None
    BY <1>1, <2>1 DEF Cancellation, Draft, Message
  <2>4. QED BY <2>2, <2>3 DEF task
<1>5. CASE Ack(c)
  BY <1>2, <1>3, <1>4, <1>5 DEF Ack
<1>6. CASE Cancel(c)
  BY <1>2, <1>3, <1>4, <1>6 DEF Cancel
<1>7. QED BY <1>5, <1>6

\* A run keeps to one thread (fleet_commands.py:190-195) if its member
\* delegates in it one command after the other, no event reaches the relay
\* after its post has timed out, and what members publish by hand names no run:
\* the reports on its tasks, by whoever and whenever, stay in the thread.
THEOREM RunsKeepTheirThread ==
  ASSUME ~MayDelay, RunsByOne, \A msg \in Foreign : msg.run = None
  PROVE  Spec => []RunHasOneThread
<1>1. Init => ThreadInv
  BY DEF Init, ThreadInv, JoinsOnPost, Active, RunHasOneThread
<1>2. ASSUME LInv, Turns, RunKept, ThreadInv, [Next]_vars PROVE ThreadInv'
  <2>1. CASE UNCHANGED vars \/ Tick
    <3>1. UNCHANGED <<log, run, stored>>
      BY <2>1 DEF vars, Tick
    <3>2. JoinsOnPost' /\ RunHasOneThread'
      BY <1>2, <3>1 DEF ThreadInv, JoinsOnPost, Active, JoinsThread, RunHasOneThread
    <3>3. QED BY <3>2 DEF ThreadInv
  <2>2. ASSUME NEW c \in Command, Step(c) \/ Land(c) PROVE ThreadInv'
    <3>1. CASE Delegate(c) \/ ReportTask(c)
      BY <1>2, <3>1, DelegateThreadInv, ReportThreadInv
    <3>2. CASE Ack(c) \/ Cancel(c)
      BY <1>2, <3>2, RunlessThreadInv
    <3>3. CASE PostAccepted(c) \/ PostFails(c) \/ PostTimesOut(c) \/ Reread(c) \/ Land(c)
      <4>1. PICK N : Sends(c, N)
        BY <1>2, <3>3, SendsFacts
      <4>2. QED BY <1>2, <4>1, SendsThreadInv
    <3>4. QED BY <2>2, <3>1, <3>2, <3>3 DEF Step
  <2>3. CASE Publish
    <3>1. PICK msg \in Foreign, id \in FreshIds : log' = log \cup {Sign(msg, id)}
      BY <2>3 DEF Publish
    <3> DEFINE e == Sign(msg, id)
    <3>2. e.runTag = None /\ log' = log \cup {e} /\ UNCHANGED <<run, stored>>
      BY <2>3, <3>1 DEF Publish, Sign
    <3> HIDE DEF e
    <3>3. \A r, c, m, S : r # None /\ JoinsThread(r, c, m, log, S) => JoinsThread(r, c, m, log', S)
      BY <3>2 DEF JoinsThread
    <3>4. JoinsOnPost'
      BY <1>2, <3>2, <3>3 DEF ThreadInv, JoinsOnPost, Active
    <3>5. RunHasOneThread'
      BY <1>2, <3>2 DEF ThreadInv, RunHasOneThread
    <3>6. QED BY <3>4, <3>5 DEF ThreadInv
  <2>4. QED BY <1>2, <2>1, <2>2, <2>3 DEF Next
<1>3. ThreadInv => RunHasOneThread
  BY DEF ThreadInv
<1>4. QED BY <1>1, <1>2, <1>3, InductiveInvariant, TurnsTaken, PTL DEF Spec

-----------------------------------------------------------------------------
(* The limit on open tasks. *)

Settled(own, E, d) == \E e \in E : Earlier(d, e) /\ Ends(own, e, d)

\* Each task of the history has one delegation event.
Single(E) ==
  \A d, e \in E : d.kind = "delegate" /\ e.kind = "delegate" /\ d.task = e.task => d = e

\* A live task of one attempt stays live unless the event settles it.
LEMMA EffectLive ==
  ASSUME NEW c, NEW task \in Task, Len(task.attempts) = 1, IsLive(task),
         NEW e \in EventRecord, NEW new, Effect(c, task, new, e),
         e.kind = "delegate" => HasAttempt(task, NewAttempt(e).id)
  PROVE  \/ IsLive(new)
         \/ /\ e.kind = "report" /\ e.status \in Reported
            /\ e.attempt = task.attempts[1].id /\ e.author = task.attempts[1].assignee
         \/ e.kind = "cancel-task" /\ e.author \in {task.requester, c.owner}
<1>1. task.attempts \in Seq(Attempt) /\ DOMAIN task.attempts = {1} /\ task.attempts[1] \in Attempt
  BY DEF Task
<1>2. CASE new = Noted(task) \/ new = ConductorMark(task, e)
  <2>1. new.attempts = task.attempts
    BY <1>2 DEF Noted, ConductorMark, Task
  <2>2. QED BY <2>1 DEF IsLive, Current
<1>3. ASSUME NEW i \in DOMAIN task.attempts, Matches(task, i, e), e.kind \in {"ack", "report"},
             e.kind = "report" => e.status \in Reported,
             new = [task EXCEPT !.attempts[i] = Answer(@, e)]
      PROVE  \/ IsLive(new)
             \/ /\ e.kind = "report" /\ e.status \in Reported
                /\ e.attempt = task.attempts[1].id /\ e.author = task.attempts[1].assignee
  <2>1. i = 1
    BY <1>1
  <2>2. CASE e.kind = "report"
    BY <1>3, <2>1, <2>2 DEF Matches
  <2>3. CASE e.kind = "ack"
    <3>1. new.attempts = [task.attempts EXCEPT ![1] = Acked(task.attempts[1], e)]
      BY <1>1, <1>3, <2>1, <2>3 DEF Answer, Task
    <3>2. Len(new.attempts) = 1 /\ new.attempts[1].status = "acked"
      BY <1>1, <3>1 DEF Acked, Attempt
    <3>3. QED BY <3>2 DEF IsLive, Current, Live
  <2>4. QED BY <1>3, <2>2, <2>3
<1>4. QED BY <1>2, <1>3 DEF Effect, MayCancel

\* A delegated task that nothing settles after its delegation is live.
LEMMA LiveUnlessSettled ==
  ASSUME NEW c \in Context, c.deleted = {}, NEW E, Plainly(E), Single(E),
         NEW d \in E, d.kind = "delegate", ~Settled(c.owner, E, d)
  PROVE  IsLive(Reduce(c, E).tasks[d.task])
<1> DEFINE t == d.task
           G == {D \in SUBSET E : d \in D => IsLive(Reduce(c, D).tasks[t])}
<1>1. {} \in G
  OBVIOUS
<1>2. \A D \in SUBSET E : D # {} /\ (\A e \in D : D \ {e} \in G) => D \in G
  <2> TAKE D \in SUBSET E
  <2> HAVE D # {} /\ \A e \in D : D \ {e} \in G
  <2> DEFINE L == Latest(D)
             s == Reduce(c, D \ {L})
             next == Reduce(c, D)
  <2> SUFFICES ASSUME d \in D PROVE IsLive(next.tasks[t])
    OBVIOUS
  <2>1. Plainly(D) /\ History(D) /\ Agreed(D) /\ t \in TaskId
    BY PlainlyBefore DEF Plainly, Plain
  <2>2. /\ L \in D /\ L \in E /\ L \in EventRecord /\ History(D \ {L}) /\ Plainly(D \ {L})
        /\ Agreed(D \ {L}) /\ \A y \in D \ {L} : Earlier(y, L)
    BY <2>1, Before, PlainlyBefore, LatestFacts DEF Plainly
  <2>3. EventStep(c, s, next, L)
    BY <2>1, ReduceStep
  <2>4. StateInv(s, LastAt(D \ {L})) /\ Readable(s, D \ {L}) /\ Readable(next, D)
    BY <2>1, <2>2, ReduceOK, AllRead
  <2>5. next.tasks[t] # None
    BY <2>4 DEF Readable
  <2>6. CASE d = L
    <3>1. t \notin KnownTasks(s)
      <4>1. SUFFICES ASSUME t \in KnownTasks(s) PROVE FALSE
        OBVIOUS
      <4>2. PICK e \in D \ {L} : e.kind = "delegate" /\ e.task = t
        BY <2>2, <4>1, KnownAreDelegated
      <4>3. e = d
        BY <4>2 DEF Single
      <4>4. QED BY <2>6, <4>2, <4>3
    <3>2. s.tasks[t] = None
      BY <2>1, <3>1 DEF KnownTasks
    <3> HIDE DEF s, next, L
    <3>3. next.tasks[t] = NewTask(L)
      BY <2>1, <2>3, <2>4, <2>5, <3>2 DEF EventStep, StateInv, State
    <3>4. Current(NewTask(L)).status = "open"
      BY DEF NewTask, NewAttempt, Current
    <3>5. QED BY <3>3, <3>4 DEF IsLive, Live
  <2>7. CASE d # L
    <3>1. IsLive(s.tasks[t]) /\ s.tasks[t] # None
      BY <2>2, <2>4, <2>7 DEF Readable
    <3>2. s.tasks[t] \in Task /\ OneFrom(s.tasks[t], {e \in D \ {L} : e.task = t})
      BY <2>1, <2>2, <3>1, OneAttempt DEF KnownTasks
    <3>3. s \in State
      BY <2>4 DEF StateInv
    <3> HIDE DEF s, next, L
    <3>4. PICK e \in D \ {L} : e.task = t /\ OpenedBy(s.tasks[t], e)
      BY <3>2 DEF OneFrom
    <3>5. e = d
      BY <3>4 DEF Single, OpenedBy
    <3>6. CASE next.tasks[t] = s.tasks[t]
      BY <3>1, <3>6
    <3>7. CASE next.tasks[t] # s.tasks[t]
      <4>1. TaskOf(L) = t /\ Effect(c, s.tasks[t], next.tasks[t], L)
        BY <2>1, <2>3, <3>1, <3>3, <3>7 DEF EventStep, State
      <4>2. L.task = t
        BY <2>1, <2>2, <4>1, AbsentFacts DEF TaskOf, Plainly, Plain
      <4>3. L.kind # "delegate"
        BY <2>2, <2>7, <4>2 DEF Single
      <4>4. Len(s.tasks[t].attempts) = 1
        BY <3>2 DEF OneFrom
      <4>5. ~Ends(c.owner, L, d)
        BY <2>2, <2>7 DEF Settled
      <4>6. \/ IsLive(next.tasks[t])
            \/ /\ L.kind = "report" /\ L.status \in Reported
               /\ L.attempt = s.tasks[t].attempts[1].id
               /\ L.author = s.tasks[t].attempts[1].assignee
            \/ L.kind = "cancel-task" /\ L.author \in {s.tasks[t].requester, c.owner}
        BY <2>2, <3>1, <3>2, <4>1, <4>3, <4>4, EffectLive
      <4>7. QED BY <3>4, <3>5, <4>2, <4>5, <4>6 DEF Ends, OpenedBy
    <3>8. QED BY <3>6, <3>7
  <2>8. QED BY <2>6, <2>7
<1>3. IsFiniteSet(E)
  BY DEF Plainly, History
<1> HIDE DEF G
<1>4. E \in G
  BY <1>1, <1>2, <1>3, SetInduction
<1>5. QED BY <1>4 DEF G

\* If nothing lands late, every delegation is on the ledger once.
LEMMA LogIsSingle ==
  ASSUME LInv, ~MayDelay
  PROVE  Single(log)
<1> SUFFICES ASSUME NEW d \in log, NEW e \in log,
                    d.kind = "delegate", e.kind = "delegate", d.task = e.task
             PROVE  d = e
  BY DEF Single
<1>1. PICK c \in Command : /\ d \in stored[c] /\ run[c].msg # None
                           /\ IsCopy(d, run[c].msg) /\ c.kind = "delegate"
  BY LogCarries
<1>2. PICK b \in Command : /\ e \in stored[b] /\ run[b].msg # None
                           /\ IsCopy(e, run[b].msg) /\ b.kind = "delegate"
  BY LogCarries
<1>3. run[c].msg.task = run[b].msg.task
  BY <1>1, <1>2 DEF IsCopy
<1>4. c = b
  BY <1>1, <1>2, <1>3 DEF LInv, MintedOnce
<1>5. QED BY <1>1, <1>2, <1>3, <1>4 DEF LInv, NothingHidden, OncePosted

\* The tasks of E that m delegated outside a run and nothing has settled.
OpensAdhoc(d, m) == d.kind = "delegate" /\ d.author = m /\ d.run = None
Unsettled(E, m) ==
  {u \in TaskId : \E d \in E : d.task = u /\ OpensAdhoc(d, m) /\ ~Settled(Fleet.owner, E, d)}

\* They are those a reader finds open, whoever reads: a reader without the
\* fleet record does not know its conductors, who settle nothing here, but does
\* know its owner.
LEMMA OpenTasks ==
  ASSUME LInv, ~MayDelay, NEW c \in Context, c.deleted = {}, c.owner = Fleet.owner, NEW m
  PROVE  OpenAdhocBy(Reduce(c, log), m) = Unsettled(log, m) /\ IsFiniteSet(Unsettled(log, m))
<1> DEFINE s == Reduce(c, log)
<1>1. Plainly(log) /\ History(log) /\ Agreed(log) /\ Single(log)
  BY LogAgrees, LogIsPlain, LogIsSingle DEF LInv, TypeOK, Plainly
<1>2. Readable(s, log)
  BY <1>1, AllRead
<1>3. \A u \in KnownTasks(s) : OneFrom(s.tasks[u], {e \in log : e.task = u})
  BY <1>1, OneAttempt
<1>4. IsFiniteSet(KnownTasks(s))
  BY <1>1, KnownAreDelegated
<1>5. \A e \in log : e.run = e.runTag /\ e.run \in RunId \cup {None}
  <2> TAKE e \in log
  <2>1. PICK msg \in Message : IsCopy(e, msg)
    BY LogCarries
  <2>2. QED BY <2>1 DEF IsCopy, Message
<1>6. \A d \in log : d.kind = "delegate" =>
        /\ d.task \in TaskId
        /\ IsLive(s.tasks[d.task]) <=> ~Settled(Fleet.owner, log, d)
  <2> TAKE d \in log
  <2> HAVE d.kind = "delegate"
  <2>1. d.task \in TaskId
    BY <1>1 DEF Agreed
  <2>2. ~Settled(Fleet.owner, log, d) => IsLive(s.tasks[d.task])
    BY <1>1, LiveUnlessSettled
  <2>3. ASSUME Settled(Fleet.owner, log, d) PROVE ~IsLive(s.tasks[d.task])
    <3>1. PICK e \in log : Earlier(d, e) /\ Ends(Fleet.owner, e, d)
      BY <2>3 DEF Settled
    <3>2. Wanted(c, e, log) /\ e.task = d.task
      BY <3>1 DEF Wanted, Ends
    <3>3. SettledBy(s.tasks[d.task], e, log)
      BY <1>1, <3>2, WantedSettles
    <3>4. d.task \in KnownTasks(s)
      BY <1>2, <2>1 DEF Readable, KnownTasks
    <3>5. PICK x \in log : x.task = d.task /\ OpenedBy(s.tasks[d.task], x)
      BY <1>3, <3>4 DEF OneFrom
    <3>6. x = d
      BY <1>1, <3>5 DEF Single, OpenedBy
    <3> HIDE DEF s
    <3>7. QED BY <3>1, <3>3, <3>5, <3>6 DEF SettledBy, OpenedBy
  <2>4. QED BY <2>1, <2>2, <2>3
<1> HIDE DEF s
<1>7. OpenAdhocBy(s, m) \subseteq Unsettled(log, m)
  <2> SUFFICES ASSUME NEW u \in OpenAdhocBy(s, m) PROVE u \in Unsettled(log, m)
    OBVIOUS
  <2>1. /\ u \in KnownTasks(s) /\ IsLive(s.tasks[u])
        /\ s.tasks[u].run = None /\ s.tasks[u].requester = m
    BY DEF OpenAdhocBy
  <2>2. PICK d \in log : d.task = u /\ OpenedBy(s.tasks[u], d)
    BY <1>3, <2>1 DEF OneFrom
  <2>3. OpensAdhoc(d, m)
    BY <1>5, <2>1, <2>2, AbsentFacts DEF OpenedBy, OpensAdhoc
  <2>4. ~Settled(Fleet.owner, log, d)
    BY <1>6, <2>1, <2>2, <2>3 DEF OpensAdhoc
  <2>5. QED BY <2>1, <2>2, <2>3, <2>4 DEF Unsettled, KnownTasks
<1>8. Unsettled(log, m) \subseteq OpenAdhocBy(s, m)
  <2> SUFFICES ASSUME NEW u \in Unsettled(log, m) PROVE u \in OpenAdhocBy(s, m)
    OBVIOUS
  <2>1. PICK d \in log : d.task = u /\ OpensAdhoc(d, m) /\ ~Settled(Fleet.owner, log, d)
    BY DEF Unsettled
  <2>2. u \in KnownTasks(s) /\ IsLive(s.tasks[u])
    BY <1>2, <1>6, <2>1 DEF Readable, KnownTasks, OpensAdhoc
  <2>3. PICK x \in log : x.task = u /\ OpenedBy(s.tasks[u], x)
    BY <1>3, <2>2 DEF OneFrom
  <2>4. x = d
    BY <1>1, <2>1, <2>3 DEF Single, OpenedBy, OpensAdhoc
  <2>5. s.tasks[u].run = None /\ s.tasks[u].requester = m
    BY <1>5, <2>1, <2>3, <2>4 DEF OpenedBy, OpensAdhoc
  <2>6. QED BY <2>2, <2>5 DEF OpenAdhocBy
<1>9. OpenAdhocBy(s, m) = Unsettled(log, m)
  BY <1>7, <1>8
<1>10. IsFiniteSet(Unsettled(log, m))
  <2>1. Unsettled(log, m) \in SUBSET KnownTasks(s)
    BY <1>8 DEF OpenAdhocBy
  <2>2. QED BY <1>4, <2>1, FS_Subset
<1>11. QED BY <1>9, <1>10 DEF s

\* A member's delegations outside runs come one after the other.
AdhocInTurn ==
  \A c, d \in Command :
    c.kind = "delegate" /\ d.kind = "delegate" /\ c.run = None /\ d.run = None /\ c.by = d.by =>
      c.by \in Exclusive /\ (c = d \/ c.no < d.no \/ d.no < c.no)

\* A delegation under way that is not stored yet still has its place.
Room(E, m) == Cardinality(Unsettled(E, m)) <= OpenLimit[m]
RoomForOne(E, m) == Cardinality(Unsettled(E, m)) + 1 <= OpenLimit[m]
Adhoc(c) == c.kind = "delegate" /\ c.run = None
OpenInv ==
  /\ \A m \in Member : Room(log, m)
  /\ \A c \in Command : Adhoc(c) /\ Active(c) /\ stored[c] = {} => RoomForOne(log, c.by)

\* One event more opens at most its own task.
LEMMA UnsettledGrows ==
  ASSUME NEW E, NEW e, NEW m, IsFiniteSet(Unsettled(E, m))
  PROVE  LET F == E \cup {e} IN
         /\ Room(E, m) /\ ~OpensAdhoc(e, m) /\ OpenLimit[m] \in Nat => Room(F, m)
         /\ RoomForOne(E, m) /\ ~OpensAdhoc(e, m) /\ OpenLimit[m] \in Nat => RoomForOne(F, m)
         /\ RoomForOne(E, m) /\ OpenLimit[m] \in Nat => Room(F, m)
<1> DEFINE F == E \cup {e}
           U == Unsettled(E, m)
           V == Unsettled(F, m)
<1>1. /\ V \subseteq U \cup {e.task}
      /\ ~OpensAdhoc(e, m) => V \subseteq U
  BY DEF Unsettled, Settled
<1> HIDE DEF F, U, V
<1>2. IsFiniteSet(U) /\ Cardinality(U) \in Nat
  BY FS_CardinalityType DEF U
<1>3. IsFiniteSet(U \cup {e.task}) /\ Cardinality(U \cup {e.task}) <= Cardinality(U) + 1
      /\ Cardinality(U \cup {e.task}) \in Nat
  <2>1. /\ IsFiniteSet(U \cup {e.task})
        /\ Cardinality(U \cup {e.task}) = IF e.task \in U THEN Cardinality(U) ELSE Cardinality(U) + 1
    BY <1>2, FS_AddElement
  <2>2. QED BY <1>2, <2>1
<1>4. IsFiniteSet(V) /\ Cardinality(V) <= Cardinality(U \cup {e.task}) /\ Cardinality(V) \in Nat
  BY <1>1, <1>3, FS_Subset, FS_CardinalityType
<1>5. ~OpensAdhoc(e, m) => Cardinality(V) <= Cardinality(U)
  BY <1>1, <1>2, FS_Subset
<1>6. QED BY <1>2, <1>3, <1>4, <1>5 DEF Room, RoomForOne, F, U, V

LEMMA SendsOpenInv ==
  ASSUME LInv, Turns, RunKept, OpenInv, AdhocInTurn, ~MayDelay,
         NEW c \in Command, NEW N, Sends(c, N)
  PROVE  OpenInv'
<1>1. /\ Active(c) /\ run'[c].msg = run[c].msg /\ log' = log \cup N
      /\ \A d \in Command : d # c => run'[d] = run[d]
      /\ stored'[c] = stored[c] \cup N
      /\ \A d \in Command : d # c => stored'[d] = stored[d]
  BY DEF Sends, LInv, TypeOK
<1>2. CASE N = {}
  <2>1. log' = log
    BY <1>1, <1>2
  <2>2. \A d \in Command : Active(d)' /\ stored'[d] = {} => Active(d) /\ stored[d] = {}
    BY <1>1 DEF Active
  <2>3. QED BY <2>1, <2>2 DEF OpenInv
<1>3. ASSUME NEW e \in N, N = {e}, IsCopy(e, run[c].msg), run[c].pc \in {"posting", "reposting"}
      PROVE  OpenInv'
  <2>1. \A m : IsFiniteSet(Unsettled(log, m))
    BY LedgerAssumption, OpenTasks
  <2>2. \A m \in Member : OpenLimit[m] \in Nat
    BY LedgerAssumption
  <2>3. log' = log \cup {e} /\ c.by \in Member
    BY <1>1, <1>3, CommandAssumption
  <2>4. ASSUME NEW m, OpensAdhoc(e, m) PROVE Adhoc(c) /\ c.by = m /\ stored[c] = {}
    <3>1. /\ run[c].msg # None /\ run[c].msg.author = c.by /\ run[c].msg.kind = c.kind
          /\ OncePosted(c, run[c].pc, stored[c])
      BY <1>1, Posting DEF Active
    <3>2. c.kind = "delegate" /\ c.by = m /\ run[c].msg.run = None
      BY <1>3, <2>4, <3>1 DEF OpensAdhoc, IsCopy
    <3>3. c.run = None
      BY <3>1, <3>2 DEF RunKept
    <3>4. QED BY <1>3, <3>1, <3>2, <3>3 DEF Adhoc, OncePosted
  <2>5. ASSUME NEW m \in Member PROVE Room(log', m)
    <3>1. CASE OpensAdhoc(e, m)
      <4>1. RoomForOne(log, m)
        BY <1>1, <2>4, <3>1 DEF OpenInv
      <4>2. QED BY <2>1, <2>2, <2>3, <4>1, UnsettledGrows
    <3>2. CASE ~OpensAdhoc(e, m)
      <4>1. Room(log, m)
        BY DEF OpenInv
      <4>2. QED BY <2>1, <2>2, <2>3, <3>2, <4>1, UnsettledGrows
    <3>3. QED BY <3>1, <3>2
  <2>6. ASSUME NEW d \in Command, Adhoc(d), Active(d)', stored'[d] = {}
        PROVE  RoomForOne(log', d.by)
    <3>1. d # c /\ Active(d) /\ stored[d] = {} /\ d.by \in Member
      BY <1>1, <1>3, <2>6, CommandAssumption DEF Active
    <3>2. RoomForOne(log, d.by)
      BY <2>6, <3>1 DEF OpenInv
    <3>3. ~OpensAdhoc(e, d.by)
      <4>1. SUFFICES ASSUME OpensAdhoc(e, d.by) PROVE FALSE
        OBVIOUS
      <4>2. Adhoc(c) /\ c.by = d.by
        BY <2>4, <4>1
      <4>3. c.by \in Exclusive /\ (c.no < d.no \/ d.no < c.no)
        BY <2>6, <3>1, <4>2 DEF AdhocInTurn, Adhoc
      <4>4. /\ run[c].pc # "idle" /\ run[c].pc \notin Over
            /\ run[d].pc # "idle" /\ run[d].pc \notin Over
        BY <1>1, <3>1 DEF Active, Over
      <4>5. QED BY <4>2, <4>3, <4>4 DEF Turns
    <3>4. QED BY <2>1, <2>2, <2>3, <3>1, <3>2, <3>3, UnsettledGrows
  <2>7. QED BY <2>5, <2>6 DEF OpenInv
<1>4. QED BY <1>2, <1>3 DEF Sends

\* The check counts what the ledger holds, whichever reader counts.
LEMMA DelegateOpenInv ==
  ASSUME LInv, OpenInv, ~MayDelay, NEW c \in Command, Delegate(c) PROVE OpenInv'
<1>1. run \in [Command -> RunState] /\ c.by \in Member
  BY CommandAssumption DEF LInv, TypeOK
<1>2. /\ log' = log /\ stored' = stored
      /\ \A d \in Command : d # c => run'[d] = run[d]
  BY <1>1 DEF Delegate, Refuse, Prepare
<1>3. ASSUME Adhoc(c), Active(c)' PROVE RoomForOne(log, c.by)
  <2>1. ~AtOpenLimit(c, View(c.by))
    <3>1. ~Refuse(c)
      BY <1>1, <1>3 DEF Refuse, RunState, Active
    <3>2. QED BY <3>1 DEF Delegate
  <2>2. ContextOf(c.by) \in Context /\ ContextOf(c.by).deleted = {}
        /\ ContextOf(c.by).owner = Fleet.owner
    BY LedgerAssumption DEF ContextOf, Context
  <2>3. OpenAdhocBy(View(c.by), c.by) = Unsettled(log, c.by) /\ IsFiniteSet(Unsettled(log, c.by))
    BY <2>2, OpenTasks DEF View
  <2>4. Cardinality(Unsettled(log, c.by)) \in Nat
    BY <2>3, FS_CardinalityType
  <2>5. ~(Cardinality(Unsettled(log, c.by)) >= OpenLimit[c.by])
    BY <1>3, <2>1, <2>3 DEF AtOpenLimit, Adhoc
  <2>6. OpenLimit[c.by] \in Nat
    BY <1>1, LedgerAssumption
  <2>7. QED BY <2>4, <2>5, <2>6 DEF RoomForOne
<1>4. ASSUME NEW d \in Command, Adhoc(d), Active(d)', stored'[d] = {}
      PROVE  RoomForOne(log', d.by)
  <2>1. CASE d = c
    BY <1>2, <1>3, <1>4, <2>1
  <2>2. CASE d # c
    BY <1>2, <1>4, <2>2 DEF OpenInv, Active
  <2>3. QED BY <2>1, <2>2
<1>5. QED BY <1>2, <1>4 DEF OpenInv

LEMMA NextOpenInv ==
  ASSUME LInv, Turns, RunKept, OpenInv, [Next]_vars, AdhocInTurn, ~MayDelay
  PROVE  OpenInv'
<1>1. run \in [Command -> RunState]
  BY DEF LInv, TypeOK
<1>2. CASE UNCHANGED vars \/ Tick
  <2>1. UNCHANGED <<log, run, stored>>
    BY <1>2 DEF vars, Tick
  <2>2. QED BY <2>1 DEF OpenInv, Active
<1>3. ASSUME NEW c \in Command, Step(c) \/ Land(c) PROVE OpenInv'
  <2>1. CASE Delegate(c)
    BY <2>1, DelegateOpenInv
  <2>2. CASE Ack(c) \/ ReportTask(c) \/ Cancel(c)
    <3>1. c.kind # "delegate" /\ log' = log /\ stored' = stored
      BY <2>2 DEF Ack, ReportTask, Cancel, Refuse, Prepare
    <3>2. \A d \in Command : d # c => run'[d] = run[d]
      BY <1>1, <2>2 DEF Ack, ReportTask, Cancel, Refuse, Prepare
    <3>3. \A d \in Command : Adhoc(d) /\ Active(d)' => Active(d)
      BY <3>1, <3>2 DEF Adhoc, Active
    <3>4. QED BY <3>1, <3>3 DEF OpenInv
  <2>3. CASE PostAccepted(c) \/ PostFails(c) \/ PostTimesOut(c) \/ Reread(c) \/ Land(c)
    <3>1. PICK N : Sends(c, N)
      BY <2>3, SendsFacts
    <3>2. QED BY <3>1, SendsOpenInv
  <2>4. QED BY <1>3, <2>1, <2>2, <2>3 DEF Step
<1>4. CASE Publish
  <2>1. PICK msg \in Foreign, id \in FreshIds : log' = log \cup {Sign(msg, id)}
    BY <1>4 DEF Publish
  <2> DEFINE e == Sign(msg, id)
  <2>2. e.kind # "delegate" /\ log' = log \cup {e} /\ UNCHANGED <<run, stored>>
    BY <1>4, <2>1, ForeignAssumption DEF Publish, Sign
  <2> HIDE DEF e
  <2>3. \A m \in Member : /\ IsFiniteSet(Unsettled(log, m)) /\ OpenLimit[m] \in Nat
                         /\ ~OpensAdhoc(e, m)
    BY <2>2, LedgerAssumption, OpenTasks DEF OpensAdhoc
  <2>4. ASSUME NEW m \in Member PROVE Room(log', m)
    <3>1. Room(log, m)
      BY DEF OpenInv
    <3>2. QED BY <2>2, <2>3, <3>1, UnsettledGrows
  <2>5. ASSUME NEW c \in Command, Adhoc(c), Active(c)', stored'[c] = {}
        PROVE  RoomForOne(log', c.by)
    <3>1. Active(c) /\ stored[c] = {} /\ c.by \in Member
      BY <2>2, <2>5, CommandAssumption DEF Active
    <3>2. RoomForOne(log, c.by)
      BY <2>5, <3>1 DEF OpenInv
    <3>3. QED BY <2>2, <2>3, <3>1, <3>2, UnsettledGrows
  <2>6. QED BY <2>4, <2>5 DEF OpenInv
<1>5. QED BY <1>2, <1>3, <1>4 DEF Next

\* A requester has at most the limit of open ad hoc tasks (README.md:611) if it
\* delegates them one after the other and no event reaches the relay after its
\* post has timed out: a delegation is on the ledger, or lost, before the next
\* one counts.
THEOREM OpenTasksAreLimited ==
  ASSUME ~MayDelay, AdhocInTurn
  PROVE  Spec => []OpenTasksWithinLimit
<1>1. Init => OpenInv
  <2>1. ASSUME log = {}, NEW m \in Member PROVE Room(log, m)
    <3>1. Unsettled(log, m) = {}
      BY <2>1 DEF Unsettled
    <3>2. Cardinality(Unsettled(log, m)) = 0 /\ OpenLimit[m] \in Nat
      BY <3>1, FS_EmptySet, LedgerAssumption
    <3>3. QED BY <3>2 DEF Room
  <2>2. QED BY <2>1 DEF Init, OpenInv, Active
<1>2. LInv /\ Turns /\ RunKept /\ OpenInv /\ [Next]_vars => OpenInv'
  BY NextOpenInv
<1>3. LInv /\ OpenInv => OpenTasksWithinLimit
  <2> SUFFICES ASSUME LInv, OpenInv, NEW m \in Member
               PROVE  Cardinality(OpenAdhocBy(Truth, m)) <= OpenLimit[m]
    BY DEF OpenTasksWithinLimit
  <2>1. OpenAdhocBy(Truth, m) = Unsettled(log, m)
    BY LedgerAssumption, OpenTasks DEF Truth
  <2>2. QED BY <2>1 DEF OpenInv, Room
<1>4. QED BY <1>1, <1>2, <1>3, InductiveInvariant, TurnsTaken, PTL DEF Spec
-----------------------------------------------------------------------------
(***************************************************************************)
(* The other reader of TaskState: the invariants of Reducer, that terminal *)
(* attempts are final, and that every change is made by an author entitled *)
(* to it, for every set of events, members and tasks, and histories of any *)
(* length.                                                                 *)
(***************************************************************************)
\* The instant of the latest event.
Now == IF last = None THEN 0 ELSE last.at

ReducerInv == StateTyped /\ StateInv(state, Now)

-----------------------------------------------------------------------------
(* The theorems. *)

\* Events come in the order of their instants.
LEMMA TimePasses ==
  ASSUME ReducerInv, NEW ev \in Event, Consume(ev)
  PROVE  Now \in Nat /\ Now <= ev.at
<1>1. ev.at \in Nat
  BY EventAssumption DEF EventRecord, Time
<1>2. CASE last = None
  BY <1>1, <1>2 DEF Now
<1>3. CASE last # None
  <2>1. last.at \in Nat
    BY <1>3, EventAssumption DEF ReducerInv, StateTyped, EventRecord, Time
  <2>2. ev = last \/ Earlier(last, ev)
    BY <1>3 DEF Consume, Follows
  <2>3. QED BY <1>1, <1>3, <2>1, <2>2 DEF Now, Earlier
<1>4. QED BY <1>2, <1>3

\* Every step of reduce keeps the inductive invariant and every terminal
\* attempt.
LEMMA ConsumeOK ==
  ASSUME ReducerInv, NEW ev \in Event, Consume(ev)
  PROVE  ReducerInv' /\ FinalStays
<1>1. ev \in EventRecord /\ ev.at \in Nat
  BY EventAssumption DEF EventRecord, Time
<1>2. Now \in Nat /\ Now <= ev.at
  BY TimePasses
<1>3. StepOK(state, Apply(ctx, state, ev), ev.at)
  BY <1>1, <1>2, ApplyOK DEF ReducerInv
<1>4. state' = Apply(ctx, state, ev) /\ last' = ev /\ ctx' = ctx
  BY DEF Consume
<1>5. ev # None
  BY <1>1, NoneAssumption
<1>6. Now' = ev.at
  BY <1>4, <1>5 DEF Now
<1>7. QED BY <1>3, <1>4, <1>6 DEF ReducerInv, StateTyped, StepOK, StateInv, FinalStays, Keeps

\* The reducer's inductive invariant: types, and TaskInv for every known task.
THEOREM ReducerInvariant == ReduceSpec => []ReducerInv
<1>1. ReduceInit => ReducerInv
  <2> SUFFICES ASSUME ReduceInit PROVE ReducerInv
    OBVIOUS
  <2>1. state \in State
    BY DEF ReduceInit, EmptyState, State
  <2>2. KnownTasks(state) = {}
    BY DEF ReduceInit, EmptyState, KnownTasks
  <2>3. QED BY <2>1, <2>2 DEF ReduceInit, ReducerInv, StateTyped, StateInv
<1>2. ReducerInv /\ [ReduceNext]_reduceVars => ReducerInv'
  <2> SUFFICES ASSUME ReducerInv, [ReduceNext]_reduceVars PROVE ReducerInv'
    OBVIOUS
  <2>1. CASE ReduceNext
    BY <2>1, ConsumeOK DEF ReduceNext
  <2>2. CASE UNCHANGED reduceVars
    BY <2>2 DEF reduceVars, ReducerInv, StateTyped, Now
  <2>3. QED BY <2>1, <2>2
<1>3. QED BY <1>1, <1>2, PTL DEF ReduceSpec

\* Type correctness of the reducer: whatever JSON the events carry, every
\* field it stores has the type its readers rely on (reducer.py:18-79).
THEOREM ReducerTypeCorrect == ReduceSpec => []StateTyped
<1>1. ReducerInv => StateTyped
  BY DEF ReducerInv
<1>2. QED BY <1>1, ReducerInvariant, PTL

\* Every attempt but the last of a task is terminal, and no two attempts of a
\* task share an id (reducer.py:244, 288, 302-304).
THEOREM Succession == ReduceSpec => []AttemptsSucceedEachOther
<1>1. ReducerInv => OnlyCurrentMayBeLive
  BY DEF ReducerInv, StateInv, TaskInv, OnlyCurrentMayBeLive
<1>2. ReducerInv => AttemptIdsDistinct
  BY DEF ReducerInv, StateInv, TaskInv, AttemptIdsDistinct
<1>3. ReducerInv => AttemptsSucceedEachOther
  BY <1>1, <1>2 DEF AttemptsSucceedEachOther
<1>4. QED BY <1>3, ReducerInvariant, PTL

\* acked_at and reported_at agree with the status, and no nudge, escalation,
\* ack or report predates the attempt it is kept with (reducer.py:305-307,
\* 321-331).
THEOREM Evidenced == ReduceSpec => []EvidenceIsCurrent
<1>1. ReducerInv => StatusHasEvidence
  BY DEF ReducerInv, StateInv, TaskInv, Evidence, StatusHasEvidence
<1>2. ReducerInv => TimesAreOfTheAttempt
  BY DEF ReducerInv, StateInv, TaskInv, Evidence, Current, TimesAreOfTheAttempt
<1>3. ReducerInv => EvidenceIsCurrent
  BY <1>1, <1>2 DEF EvidenceIsCurrent
<1>4. QED BY <1>3, ReducerInvariant, PTL

\* Terminal attempts are final, and no attempt is dropped, moved or renamed.
THEOREM Finality == ReduceSpec => TerminalIsFinal
<1>1. ReducerInv /\ [ReduceNext]_reduceVars => [FinalStays]_reduceVars
  BY ConsumeOK DEF ReduceNext
<1>2. QED BY <1>1, ReducerInvariant, PTL DEF ReduceSpec, TerminalIsFinal

\* Every change to an attempt, to the list of attempts and to a task's timers
\* is made by an author entitled to it (reducer.py:219, 233, 291, 314).
THEOREM Entitlement == ReduceSpec => ChangesAreEntitled
<1>1. ReducerInv /\ [ReduceNext]_reduceVars => [Entitled]_reduceVars
  <2> SUFFICES ASSUME ReducerInv, NEW ev \in Event, Consume(ev)
               PROVE  Entitled
    BY DEF ReduceNext
  <2>1. ev \in EventRecord /\ StateInv(state, Now)
    BY EventAssumption DEF ReducerInv
  <2>2. Rights(ctx, state, Apply(ctx, state, ev), ev.author)
    BY <2>1, TimePasses, ApplyRights
  <2>3. QED BY <2>2 DEF Consume, Rights, May, MayMove, AllowedBy, Entitled
<1>2. QED BY <1>1, ReducerInvariant, PTL DEF ReduceSpec, ChangesAreEntitled
=============================================================================
