--------------------------- MODULE MigrationProofs ---------------------------
(***************************************************************************)
(* What moving a machine to the new layout promises, for every old tree,   *)
(* any number of runs, and wherever each of them stops.                    *)
(*                                                                         *)
(* IInv holds whatever is done meanwhile.  It says that a step that is     *)
(* over has left its target (Reached), that whoever has steps ahead is the *)
(* only one of its id and is not marked (Underway), and that an agent that *)
(* is not marked still has the old tree (OldTree).  HInv holds where no    *)
(* `agent list` meets an agent moved half-way: the old unit is gone before *)
(* the new one is there (Switched), and no file of an agent on its way was *)
(* written by anybody else (Unhealed).                                     *)
(*                                                                         *)
(* A step of an agent is summed up twice: Ahead says what it does to the   *)
(* steps that are left, Effect what it does to the files.                  *)
(***************************************************************************)
EXTENDS Migration, TLAPS

Kinds == {"secret", "state", "env", "prompt", "unlink", "copy", "rename",
          "disable", "enable", "mark"}
Phases == Resting \cup {"check", "install", "steps"}
Going(x) == run.steps[x] # {}
Over(kind, x) == Going(x) /\ kind \notin run.steps[x]

TypeInv ==
  /\ legacy \in SUBSET Agent
  /\ old \in [communities : BOOLEAN, agents : BOOLEAN, env : [Ids(legacy) -> legacy],
              prompt : SUBSET Id, work : SUBSET Id]
  /\ new \in [community : SUBSET Community, secret : SUBSET Agent, state : SUBSET Agent,
              marked : SUBSET Agent,
              env : [Agent -> {None} \cup (Agent \X Sources)],
              prompt : [Agent -> {None} \cup Sources],
              work : [Agent -> {None} \cup Sources]]
  /\ units \in [oldOn : SUBSET Id, oldUp : SUBSET Id,
                newOn : SUBSET Agent, newUp : SUBSET Agent, stuck : SUBSET Id]
  /\ template \in {"old", "new"}
  /\ run \in [phase : Phases, communities : SUBSET Community,
              steps : [Agent -> SUBSET Kinds], agent : Agent \cup {None}, count : Nat]
  /\ deleted \in [before : SUBSET Agent, after : SUBSET Agent]

\* The old tree stands for everybody who is not marked.
OldTree ==
  /\ old.work = Ids(legacy)
  /\ \A i \in Ids(legacy) : old.env[i][2] = i
  /\ ~old.communities \/ ~old.agents => legacy \subseteq new.marked

\* Whoever has steps ahead.
Underway ==
  \A x \in Agent : Going(x) =>
    /\ run.phase \notin Resting
    /\ x \in legacy /\ x \notin new.marked /\ "mark" \in run.steps[x]
    /\ \A y \in legacy : y[2] = x[2] => y = x

\* A run that goes on has everybody marked or ahead of it.
Covered ==
  /\ run.phase \in {"check", "install", "steps"} =>
       \A x \in legacy : x \in new.marked \/ Going(x)
  /\ run.phase = "done" => legacy \subseteq new.marked

\* What is over has its target; so has everything of who is marked.
Reached ==
  \A x \in legacy : ~WasDeleted(x) =>
    /\ x \in new.marked \/ Over("secret", x) \/ x \in new.state => x \in new.secret
    /\ x \in new.marked \/ Over("state", x) => x \in new.state
    /\ x \in new.marked \/ Over("env", x) => HasEnv(x)
    /\ x \in new.marked \/ Over("prompt", x) => new.prompt[x] # None
    /\ x \in new.marked \/ Over("rename", x) => new.work[x] # None
    /\ x[2] \notin old.prompt => new.prompt[x] # None

\* Who was deleted after the mark has the mark, and nothing else.
Gone ==
  \A x \in deleted.after : x \in new.marked /\ x \notin new.state

\* The old unit is stopped, for good, before the new one is there, or is known
\* to be one that would not.
Switched ==
  /\ run.phase = "steps" => template = "new"
  /\ \A x \in legacy :
       x \in new.marked \cup units.newOn \cup units.newUp \/ Over("disable", x) =>
         template = "new" /\ (x[2] \notin units.oldOn \cup units.oldUp \/ x[2] \in units.stuck)

\* Only the migration has written the files of an agent, and it enables the
\* unit before it marks the agent.
Unhealed ==
  \A x \in legacy : ~WasDeleted(x) =>
    /\ HasEnv(x) => new.env[x][2] = "moved"
    /\ new.prompt[x] # "made" /\ new.work[x] # "made"
    /\ x \in new.marked \/ Over("enable", x) => x \in units.newOn

IInv == TypeInv /\ OldTree /\ Underway /\ Covered /\ Reached /\ Gone /\ KeyIsItsOwn
HInv == Switched /\ Unhealed
-----------------------------------------------------------------------------
\* It holds at the start.
LEMMA InitIInv == ASSUME MigrationAssumption, Init PROVE IInv
<1> USE MigrationAssumption DEF Init
<1>1. /\ legacy \in SUBSET Agent /\ Ids(legacy) \in SUBSET Id
      /\ old.communities = TRUE /\ old.agents = TRUE
      /\ old.env \in [Ids(legacy) -> legacy] /\ \A i \in Ids(legacy) : old.env[i][2] = i
      /\ old.prompt = Ids(legacy) /\ old.work = Ids(legacy)
      /\ old \in [communities : BOOLEAN, agents : BOOLEAN, env : [Ids(legacy) -> legacy],
                  prompt : SUBSET Id, work : SUBSET Id]
  <2>1. legacy \in SUBSET Agent /\ Ids(legacy) \in SUBSET Id
    BY DEF Ids, Agent
  <2>2. /\ old.communities = TRUE /\ old.agents = TRUE
        /\ old.env \in {w \in [Ids(legacy) -> legacy] : \A i \in Ids(legacy) : w[i][2] = i}
        /\ old.prompt = Ids(legacy) /\ old.work = Ids(legacy)
    OBVIOUS
  <2>3. old = [communities |-> old.communities, agents |-> old.agents, env |-> old.env,
               prompt |-> old.prompt, work |-> old.work]
    OBVIOUS
  <2> HIDE DEF Init
  <2> QED BY <2>1, <2>2, <2>3
<1>2. /\ Nothing \in [Agent -> SUBSET Kinds] /\ \A x \in Agent : ~Going(x)
      /\ \A x \in Agent : new.env[x] = None
  BY DEF Nothing, Going
<1>3. TypeInv
  <2>1. new \in [community : SUBSET Community, secret : SUBSET Agent, state : SUBSET Agent,
                 marked : SUBSET Agent, env : [Agent -> {None} \cup (Agent \X Sources)],
                 prompt : [Agent -> {None} \cup Sources], work : [Agent -> {None} \cup Sources]]
    OBVIOUS
  <2>2. run \in [phase : Phases, communities : SUBSET Community,
                 steps : [Agent -> SUBSET Kinds], agent : Agent \cup {None}, count : Nat]
    BY <1>2 DEF Phases, Resting
  <2> QED BY <1>1, <2>1, <2>2 DEF TypeInv
<1>4. OldTree /\ Underway /\ Covered
  BY <1>1, <1>2 DEF OldTree, Underway, Covered, Going
<1>5. Reached /\ Gone /\ KeyIsItsOwn
  BY <1>1, <1>2 DEF Reached, Gone, KeyIsItsOwn, HasEnv, Over, Ids, WasDeleted
<1> QED BY <1>3, <1>4, <1>5 DEF IInv

\* A step of an agent, in terms of the run's fields.
LEMMA StepFacts ==
  ASSUME TypeInv, NEW kind \in Kinds, NEW x \in Agent, At(kind, x), StepDone(kind, x)
  PROVE  /\ run.phase = "steps" /\ kind \in run.steps[x]
         /\ \A k \in run.steps[x] : Place[kind] <= Place[k]
         /\ run'.phase \in {"steps", "done"}
         /\ run'.steps = [run.steps EXCEPT ![x] = @ \ {kind}]
         /\ run'.steps \in [Agent -> SUBSET Kinds]
         /\ run'.phase = "done" => \A y \in Agent : run'.steps[y] = {}
         /\ run' \in [phase : Phases, communities : SUBSET Community,
                      steps : [Agent -> SUBSET Kinds], agent : Agent \cup {None}, count : Nat]
<1> DEFINE steps == [run.steps EXCEPT ![x] = @ \ {kind}]
<1>1. /\ run.phase = "steps" /\ kind \in run.steps[x]
      /\ \A k \in run.steps[x] : Place[kind] <= Place[k]
  BY DEF At
<1>2. /\ run.steps \in [Agent -> SUBSET Kinds] /\ run.communities \in SUBSET Community
      /\ run.agent \in Agent \cup {None} /\ run.count \in Nat /\ run.phase \in Phases
  BY DEF TypeInv
<1>3. steps \in [Agent -> SUBSET Kinds]
  BY <1>2
<1>4. PICK agent \in Agent \cup {None} :
        run' = [run EXCEPT !.communities = run.communities, !.steps = steps, !.agent = agent,
                           !.phase = IF run.communities = {} /\ steps = Nothing
                                       THEN "done" ELSE @]
  BY <1>2 DEF StepDone, Left
<1>5. run = [phase |-> run.phase, communities |-> run.communities, steps |-> run.steps,
             agent |-> run.agent, count |-> run.count]
  BY DEF TypeInv
<1> HIDE DEF steps
<1>6. run' = [phase |-> IF run.communities = {} /\ steps = Nothing THEN "done" ELSE run.phase,
              communities |-> run.communities, steps |-> steps, agent |-> agent,
              count |-> run.count]
  BY <1>4, <1>5
<1>7. run'.steps = steps /\ run'.phase \in {"steps", "done"}
  BY <1>1, <1>6
<1>8. run'.phase = "done" => \A y \in Agent : run'.steps[y] = {}
  BY <1>1, <1>6 DEF Nothing
<1> QED BY <1>1, <1>2, <1>3, <1>6, <1>7, <1>8 DEF Phases, Resting, steps

\* A run that ends has no steps ahead.
LEMMA RestFacts ==
  ASSUME TypeInv, NEW phase \in Resting, Rest(phase)
  PROVE  /\ run'.phase = phase /\ \A x \in Agent : run'.steps[x] = {}
         /\ run' \in [phase : Phases, communities : SUBSET Community,
                      steps : [Agent -> SUBSET Kinds], agent : Agent \cup {None}, count : Nat]
  BY DEF TypeInv, Rest, Nothing, Phases

\* What a step of an agent does to what is ahead.
Ahead(kind, x) ==
  /\ run.phase = "steps" /\ run'.phase \in {"steps", "done"}
  /\ Going(x) /\ x \in legacy /\ x \notin new.marked
  /\ \A y \in legacy : y[2] = x[2] => y = x
  /\ \A k \in Kinds : Place[k] < Place[kind] => Over(k, x)
  /\ \A y \in Agent : Going(y)' => Going(y)
  /\ \A y \in Agent, k \in Kinds : Over(k, y)' => Over(k, y) \/ (y = x /\ k = kind)
  /\ \A y \in Agent : y # x => run'.steps[y] = run.steps[y]
  /\ kind = "mark" => ~Going(x)'
  /\ kind # "mark" => Going(x)' /\ "mark" \in run'.steps[x]
  /\ run'.phase = "done" => \A y \in Agent : ~Going(y)'

\* ... as it is.
LEMMA AgentStep ==
  ASSUME TypeInv, Underway, NEW kind \in Kinds, NEW x \in Agent, At(kind, x), StepDone(kind, x)
  PROVE  Ahead(kind, x)
<1>1. /\ run.phase = "steps" /\ kind \in run.steps[x]
      /\ \A k \in run.steps[x] : Place[kind] <= Place[k]
      /\ run'.phase \in {"steps", "done"}
      /\ run'.steps = [run.steps EXCEPT ![x] = @ \ {kind}]
      /\ run'.phase = "done" => \A y \in Agent : run'.steps[y] = {}
  BY StepFacts
<1>2. run.steps \in [Agent -> SUBSET Kinds]
  BY DEF TypeInv
<1>3. \A k \in Kinds : k # "mark" => Place["mark"] > Place[k]
  BY DEF Kinds, Place
<1>4. Going(x) /\ x \in legacy /\ x \notin new.marked /\ "mark" \in run.steps[x]
      /\ \A y \in legacy : y[2] = x[2] => y = x
  BY <1>1 DEF Underway, Going
<1>5. \A k \in Kinds : Place[k] \in Nat
  BY DEF Kinds, Place
<1>6. \A k \in Kinds : Place[k] < Place[kind] => Over(k, x)
  BY <1>1, <1>2, <1>4, <1>5 DEF Over
<1>7. kind = "mark" => run'.steps[x] = {}
  <2> SUFFICES ASSUME kind = "mark" PROVE run'.steps[x] = {}
    OBVIOUS
  <2>1. \A k \in Kinds : k # "mark" => ~(Place[kind] <= Place[k])
    BY <1>3, <1>5
  <2>2. \A k \in run.steps[x] : k = "mark"
    BY <1>1, <1>2, <2>1
  <2> QED BY <1>1, <1>2, <2>2
<1>8. kind # "mark" => "mark" \in run'.steps[x]
  BY <1>1, <1>2, <1>4
<1>9. \A y \in Agent : y # x => run'.steps[y] = run.steps[y]
  BY <1>1, <1>2
<1>10. run'.steps[x] = run.steps[x] \ {kind}
  BY <1>1, <1>2
<1> QED BY <1>1, <1>4, <1>6, <1>7, <1>8, <1>9, <1>10 DEF Going, Over, Ahead

\* A step of an agent keeps what is said of those with steps ahead.
LEMMA AgentStepUnderway ==
  ASSUME TypeInv, Underway, Covered, NEW kind \in Kinds, NEW x \in Agent,
         At(kind, x), StepDone(kind, x), UNCHANGED legacy,
         new'.marked = IF kind = "mark" THEN new.marked \cup {x} ELSE new.marked
  PROVE  Underway' /\ Covered'
<1> USE DEF Ahead
<1>0. legacy \subseteq Agent /\ Ahead(kind, x)
  BY AgentStep DEF TypeInv
<1>1. Underway'
  BY <1>0 DEF Underway, Going, Resting
<1>2. Covered'
  BY <1>0 DEF Covered, Going
<1> QED BY <1>1, <1>2

\* So does the end of a run.
LEMMA RestUnderway ==
  ASSUME TypeInv, NEW phase \in Resting \ {"done"}, Rest(phase)
  PROVE  /\ Underway' /\ Covered'
         /\ \A x \in Agent, k \in Kinds : ~Over(k, x)'
BY RestFacts DEF Underway, Covered, Going, Over, Resting

\* The properties of what is done speak of nothing but the stores and of who
\* has steps ahead: a step that leaves the stores alone keeps them.
LEMMA StoresAlone ==
  ASSUME IInv, UNCHANGED <<legacy, old, new, deleted>>,
         \A x \in legacy, k \in Kinds : Over(k, x)' =>
           Over(k, x) \/ k \notin {"secret", "state", "env", "prompt", "rename"}
  PROVE  OldTree' /\ Reached' /\ Gone' /\ KeyIsItsOwn'
<1> USE DEF IInv
<1>1. OldTree' /\ Gone' /\ KeyIsItsOwn'
  BY DEF OldTree, Gone, KeyIsItsOwn, HasEnv, Ids
<1>2. Reached'
  BY DEF Reached, HasEnv, WasDeleted, Kinds
<1> QED BY <1>1, <1>2
-----------------------------------------------------------------------------
(* Every step keeps the invariant: first the steps of an agent. *)

\* The fields of the run stay of their types.
LEMMA StepTypes ==
  ASSUME TypeInv, NEW kind \in Kinds, NEW x \in Agent, At(kind, x), StepDone(kind, x),
         UNCHANGED <<legacy, template, deleted>>,
         old' \in [communities : BOOLEAN, agents : BOOLEAN, env : [Ids(legacy) -> legacy],
                   prompt : SUBSET Id, work : SUBSET Id],
         new' \in [community : SUBSET Community, secret : SUBSET Agent, state : SUBSET Agent,
                   marked : SUBSET Agent, env : [Agent -> {None} \cup (Agent \X Sources)],
                   prompt : [Agent -> {None} \cup Sources], work : [Agent -> {None} \cup Sources]],
         units' \in [oldOn : SUBSET Id, oldUp : SUBSET Id,
                     newOn : SUBSET Agent, newUp : SUBSET Agent, stuck : SUBSET Id]
  PROVE  TypeInv'
BY StepFacts DEF TypeInv, Ids

\* What a step of this kind does to the stores but the units.
Effect(kind, x) ==
  /\ UNCHANGED <<legacy, template, deleted>>
  /\ old' \in [communities : BOOLEAN, agents : BOOLEAN, env : [Ids(legacy) -> legacy],
               prompt : SUBSET Id, work : SUBSET Id]
  /\ new' \in [community : SUBSET Community, secret : SUBSET Agent, state : SUBSET Agent,
               marked : SUBSET Agent, env : [Agent -> {None} \cup (Agent \X Sources)],
               prompt : [Agent -> {None} \cup Sources], work : [Agent -> {None} \cup Sources]]
  /\ UNCHANGED <<old.communities, old.agents, old.env, old.work>>
  /\ old'.prompt = IF kind = "unlink" THEN old.prompt \ {x[2]} ELSE old.prompt
  /\ new'.secret = IF kind = "secret" THEN new.secret \cup {x} ELSE new.secret
  /\ new'.state = IF kind = "state" THEN new.state \cup {x} ELSE new.state
  /\ new'.marked = IF kind = "mark" THEN new.marked \cup {x} ELSE new.marked
  /\ \A y \in Agent :
       /\ new'.env[y] = IF y = x /\ kind = "env" THEN <<old.env[x[2]], "moved">>
                        ELSE new.env[y]
       /\ new'.prompt[y] = IF y = x /\ kind = "prompt" THEN "moved" ELSE new.prompt[y]
       /\ new'.work[y] = IF y = x /\ kind = "rename" THEN "moved" ELSE new.work[y]

\* What disabling an old unit does to the units: it is off, or on and stuck.
Disabled(i) ==
  /\ units' \in [oldOn : SUBSET Id, oldUp : SUBSET Id,
                  newOn : SUBSET Agent, newUp : SUBSET Agent, stuck : SUBSET Id]
  /\ UNCHANGED <<units.newOn, units.newUp>>
  /\ units'.oldOn \cup units'.oldUp \subseteq units.oldOn \cup units.oldUp
  /\ units.stuck \ {i} \subseteq units'.stuck
  /\ i \notin units'.oldOn \cup units'.oldUp \/ i \in units'.stuck

\* ... as it is.
LEMMA DisableFacts ==
  ASSUME TypeInv, NEW x \in Agent, DisableOld(x) PROVE Disabled(x[2])
<1> DEFINE i == x[2]
<1>1. i \in Id /\ units \in [oldOn : SUBSET Id, oldUp : SUBSET Id, newOn : SUBSET Agent,
                            newUp : SUBSET Agent, stuck : SUBSET Id]
  BY DEF TypeInv, Agent
<1>2. CASE units' = [units EXCEPT !.oldOn = @ \ {i}, !.oldUp = @ \ {i}, !.stuck = @ \ {i}]
  BY <1>1, <1>2 DEF Disabled
<1>3. ASSUME NEW on \in {units.oldOn, units.oldOn \ {i}},
             units' = [units EXCEPT !.oldOn = on,
                                    !.stuck = @ \cup ({i} \cap (on \cup units.oldUp))]
      PROVE  Disabled(i)
  <2>1. on \in SUBSET Id /\ on \subseteq units.oldOn
    BY <1>1
  <2>2. /\ units'.oldOn = on /\ units'.oldUp = units.oldUp
        /\ units'.newOn = units.newOn /\ units'.newUp = units.newUp
        /\ units'.stuck = units.stuck \cup ({i} \cap (on \cup units.oldUp))
    BY <1>1, <1>3
  <2>3. units' \in [oldOn : SUBSET Id, oldUp : SUBSET Id, newOn : SUBSET Agent,
                    newUp : SUBSET Agent, stuck : SUBSET Id]
    <3>1. units.stuck \cup ({i} \cap (on \cup units.oldUp)) \in SUBSET Id
      BY <1>1
    <3> HIDE DEF i
    <3> QED BY <1>1, <1>3, <2>1, <3>1
  <2> HIDE DEF i
  <2> QED BY <2>1, <2>2, <2>3 DEF Disabled
<1> QED BY <1>2, <1>3 DEF DisableOld

\* Every step of an agent that does what it should keeps the invariant: the
\* steps before it are over, so their targets are there.
LEMMA EffectKeeps ==
  ASSUME MigrationAssumption, IInv, NEW kind \in Kinds, NEW x \in Agent,
         At(kind, x), StepDone(kind, x), Effect(kind, x),
         units' \in [oldOn : SUBSET Id, oldUp : SUBSET Id,
                     newOn : SUBSET Agent, newUp : SUBSET Agent, stuck : SUBSET Id]
  PROVE  IInv'
<1> USE DEF IInv
<1>a. Ahead(kind, x)
  BY AgentStep
<1>0. /\ legacy' = legacy /\ deleted' = deleted /\ legacy \subseteq Agent /\ x \in legacy
      /\ \A y \in Agent : WasDeleted(y)' = WasDeleted(y)
  BY <1>a DEF Ahead, Effect, TypeInv, WasDeleted
<1>1. TypeInv'
  BY StepTypes DEF Effect
<1>2. Underway' /\ Covered'
  BY <1>0, AgentStepUnderway DEF Effect
<1>3. OldTree'
  BY <1>0 DEF OldTree, Ids, Effect
<1>4. \A k \in Kinds : Place[k] < Place[kind] => Over(k, x)
  BY <1>a DEF Ahead
<1>5. \A y \in Agent, k \in Kinds : Over(k, y)' => Over(k, y) \/ (y = x /\ k = kind)
  BY <1>a DEF Ahead
<1>6. /\ kind = "state" => Over("secret", x)
      /\ kind = "unlink" => Over("prompt", x)
      /\ kind = "mark" => /\ Over("secret", x) /\ Over("state", x) /\ Over("env", x)
                          /\ Over("prompt", x) /\ Over("rename", x)
  BY <1>4 DEF Place, Kinds
<1>7. Reached'
  <2> SUFFICES ASSUME NEW y \in legacy, ~WasDeleted(y)
               PROVE  /\ (y \in new.marked \/ Over("secret", y) \/ y \in new.state => y \in new.secret)'
                      /\ (y \in new.marked \/ Over("state", y) => y \in new.state)'
                      /\ (y \in new.marked \/ Over("env", y) => HasEnv(y))'
                      /\ (y \in new.marked \/ Over("prompt", y) => new.prompt[y] # None)'
                      /\ (y \in new.marked \/ Over("rename", y) => new.work[y] # None)'
                      /\ (y[2] \notin old.prompt => new.prompt[y] # None)'
    BY <1>0 DEF Reached
  <2>1. None # "moved" /\ None # <<old.env[x[2]], "moved">>
    <3>1. x[2] \in Ids(legacy) /\ old.env[x[2]] \in Agent
      BY <1>0 DEF TypeInv, Ids
    <3> QED BY <3>1 DEF MigrationAssumption, Sources
  <2>2. (y \in new.marked \/ Over("secret", y) \/ y \in new.state => y \in new.secret)'
    BY <1>0, <1>5, <1>6 DEF Reached, Kinds, Effect
  <2>3. (y \in new.marked \/ Over("state", y) => y \in new.state)'
    BY <1>0, <1>5, <1>6 DEF Reached, Kinds, Effect
  <2>4. (y \in new.marked \/ Over("env", y) => HasEnv(y))'
    BY <1>0, <1>5, <1>6, <2>1 DEF Reached, Kinds, HasEnv, Effect
  <2>5. (y \in new.marked \/ Over("prompt", y) => new.prompt[y] # None)'
    BY <1>0, <1>5, <1>6, <2>1 DEF Reached, Kinds, Effect
  <2>6. (y \in new.marked \/ Over("rename", y) => new.work[y] # None)'
    BY <1>0, <1>5, <1>6, <2>1 DEF Reached, Kinds, Effect
  <2>7. (y[2] \notin old.prompt => new.prompt[y] # None)'
    BY <1>0, <1>6, <1>a, <2>1 DEF Reached, Kinds, Effect, Ahead
  <2> QED BY <2>2, <2>3, <2>4, <2>5, <2>6, <2>7
<1>8. Gone'
  <2>1. x \notin new.marked
    BY <1>a DEF Ahead
  <2>2. new.marked \subseteq new'.marked /\ new'.state \subseteq new.state \cup {x}
    BY DEF Effect
  <2> QED BY <1>0, <2>1, <2>2 DEF Gone
<1>9. KeyIsItsOwn'
  <2>1. kind = "env" => old.env[x[2]] = x
    <3>1. x[2] \in Ids(legacy) /\ old.env[x[2]] \in legacy
      BY <1>0 DEF TypeInv, Ids
    <3> QED BY <3>1, <1>a DEF OldTree, Ahead
  <2> QED BY <1>0, <2>1 DEF KeyIsItsOwn, HasEnv, Effect
<1> QED BY <1>1, <1>2, <1>3, <1>7, <1>8, <1>9

\* A step that leaves the stores alone and ends the run.
LEMMA RestKeeps ==
  ASSUME IInv, NEW phase \in Resting \ {"done"}, Rest(phase),
         UNCHANGED <<legacy, old, new, template, deleted>>,
         units' \in [oldOn : SUBSET Id, oldUp : SUBSET Id,
                     newOn : SUBSET Agent, newUp : SUBSET Agent, stuck : SUBSET Id]
  PROVE  IInv'
<1> USE DEF IInv
<1>1. TypeInv'
  BY RestFacts DEF TypeInv, Ids
<1>2. legacy \subseteq Agent
  BY DEF TypeInv
<1> QED BY <1>1, <1>2, RestUnderway, StoresAlone DEF Kinds

\* Each of the actions has the effect of its kind of step.
LEMMA MoveAgentEffect ==
  ASSUME MigrationAssumption, IInv, NEW x \in Agent
  PROVE  /\ SaveSecret(x) => Effect("secret", x)
         /\ SaveState(x) => Effect("state", x)
         /\ MoveEnv(x) => Effect("env", x)
         /\ CopyPrompt(x) => Effect("prompt", x)
         /\ UnlinkPrompt(x) => Effect("unlink", x)
         /\ CopyWork(x) => Effect("copy", x)
         /\ RenameWork(x) /\ new' = [new EXCEPT !.work[x] = "moved"] => Effect("rename", x)
         /\ DisableOld(x) => Effect("disable", x)
         /\ EnableNew(x) => Effect("enable", x)
         /\ Mark(x) => Effect("mark", x)
<1> USE MigrationAssumption DEF IInv
<1>1. SaveSecret(x) => Effect("secret", x)
  BY DEF SaveSecret, Effect, TypeInv
<1>2. SaveState(x) => Effect("state", x)
  BY DEF SaveState, Effect, TypeInv
<1>3. MoveEnv(x) => Effect("env", x)
  <2> SUFFICES ASSUME MoveEnv(x) PROVE Effect("env", x)
    OBVIOUS
  <2>1. x \in legacy
    BY DEF MoveEnv, At, Underway, Going
  <2>2. x[2] \in Ids(legacy) /\ legacy \subseteq Agent
    BY <2>1 DEF TypeInv, Ids
  <2>3. old.env[x[2]] \in Agent
    BY <2>2 DEF TypeInv
  <2>4. <<old.env[x[2]], "moved">> \in {None} \cup (Agent \X Sources)
    BY <2>3 DEF Sources
  <2> DEFINE file == <<old.env[x[2]], "moved">>
  <2> HIDE DEF file
  <2>5. new' = [new EXCEPT !.env = [@ EXCEPT ![x] = file]]
    BY DEF MoveEnv, file
  <2>6. file \in {None} \cup (Agent \X Sources)
    BY <2>4 DEF file
  <2>7. UNCHANGED <<legacy, old, template, deleted>>
    BY DEF MoveEnv
  <2> QED BY <2>5, <2>6, <2>7 DEF Effect, TypeInv, file
<1>4. CopyPrompt(x) => Effect("prompt", x)
  BY DEF CopyPrompt, Effect, TypeInv, Sources
<1>5. UnlinkPrompt(x) => Effect("unlink", x)
  BY DEF UnlinkPrompt, Effect, TypeInv
<1>6. CopyWork(x) => Effect("copy", x)
  BY DEF CopyWork, Effect, TypeInv
<1>7. RenameWork(x) /\ new' = [new EXCEPT !.work[x] = "moved"] => Effect("rename", x)
  BY DEF RenameWork, Effect, TypeInv, Sources
<1>8. DisableOld(x) => Effect("disable", x)
  BY DEF DisableOld, Effect, TypeInv
<1>9. EnableNew(x) => Effect("enable", x)
  BY DEF EnableNew, Effect, TypeInv
<1>10. Mark(x) => Effect("mark", x)
  BY DEF Mark, Effect, TypeInv
<1> QED BY <1>1, <1>2, <1>3, <1>4, <1>5, <1>6, <1>7, <1>8, <1>9, <1>10

\* Hence every step of an agent keeps the invariant, the failing ones too.
LEMMA MoveAgentKeeps ==
  ASSUME MigrationAssumption, IInv, NEW x \in Agent, MoveAgent(x) PROVE IInv'
<1> USE MigrationAssumption
<1>0. /\ units \in [oldOn : SUBSET Id, oldUp : SUBSET Id,
                    newOn : SUBSET Agent, newUp : SUBSET Agent, stuck : SUBSET Id]
      /\ x[2] \in Id
  BY DEF IInv, TypeInv, Agent
<1>1. CASE SaveSecret(x)
  BY <1>0, <1>1, MoveAgentEffect, EffectKeeps DEF SaveSecret, Kinds
<1>2. CASE SaveState(x)
  BY <1>0, <1>2, MoveAgentEffect, EffectKeeps DEF SaveState, Kinds
<1>3. CASE MoveEnv(x)
  BY <1>0, <1>3, MoveAgentEffect, EffectKeeps DEF MoveEnv, Kinds
<1>4. CASE CopyPrompt(x)
  BY <1>0, <1>4, MoveAgentEffect, EffectKeeps DEF CopyPrompt, Kinds
<1>5. CASE UnlinkPrompt(x)
  BY <1>0, <1>5, MoveAgentEffect, EffectKeeps DEF UnlinkPrompt, Kinds
<1>6. CASE CopyWork(x)
  BY <1>0, <1>6, MoveAgentEffect, EffectKeeps DEF CopyWork, Kinds
<1>7. CASE DisableOld(x)
  <2>1. Disabled(x[2])
    BY <1>7, DisableFacts DEF IInv
  <2> QED BY <1>0, <1>7, <2>1, MoveAgentEffect, EffectKeeps DEF DisableOld, Disabled, Kinds
<1>8. CASE Mark(x)
  BY <1>0, <1>8, MoveAgentEffect, EffectKeeps DEF Mark, Kinds
<1>9. CASE RenameWork(x)
  <2>1. CASE Rest("failed") /\ UNCHANGED new
    BY <1>0, <1>9, <2>1, RestKeeps DEF RenameWork, Resting
  <2>2. CASE new' = [new EXCEPT !.work[x] = "moved"] /\ StepDone("rename", x)
    BY <1>0, <1>9, <2>2, MoveAgentEffect, EffectKeeps DEF RenameWork, Kinds
  <2> QED BY <1>9, <2>1, <2>2 DEF RenameWork
<1>10. CASE EnableNew(x)
  <2>0. units' \in [oldOn : SUBSET Id, oldUp : SUBSET Id,
                    newOn : SUBSET Agent, newUp : SUBSET Agent, stuck : SUBSET Id]
    <3>1. CASE units' = units
      BY <1>0, <3>1
    <3>2. CASE units' = [units EXCEPT !.newOn = @ \cup {x}]
      BY <1>0, <3>2
    <3>3. CASE units' = [units EXCEPT !.newOn = @ \cup {x}, !.newUp = @ \cup {x}]
      BY <1>0, <3>3
    <3> QED BY <1>10, <3>1, <3>2, <3>3 DEF EnableNew
  <2>1. CASE Rest("failed")
    BY <1>10, <2>0, <2>1, RestKeeps DEF EnableNew, Resting
  <2>2. CASE ~Rest("failed")
    BY <1>10, <2>0, <2>2, MoveAgentEffect, EffectKeeps DEF EnableNew, Kinds
  <2> QED BY <2>1, <2>2
<1> QED BY <1>1, <1>2, <1>3, <1>4, <1>5, <1>6, <1>7, <1>8, <1>9, <1>10 DEF MoveAgent
-----------------------------------------------------------------------------
(* The other steps. *)

\* Looking at the disk: what is not planned has its target already.
LEMMA PlanKeeps == ASSUME MigrationAssumption, IInv, Plan PROVE IInv'
<1> USE MigrationAssumption DEF IInv
<1>1. /\ legacy \subseteq Agent /\ run.phase \in Resting /\ run.count \in Nat
      /\ \A x \in Agent : ~Going(x)
      /\ UNCHANGED <<legacy, old, new, units, template, deleted>>
  BY DEF Plan, TypeInv, Underway
<1>2. /\ run'.phase \in {"done", "refused", "check"} /\ run'.count \in Nat
      /\ run'.communities \in SUBSET Community /\ run'.agent = None
      /\ run'.steps = IF Acceptable THEN Planned ELSE Nothing
      /\ run'.phase = "check" => Acceptable /\ old.communities
      /\ run'.phase \in {"done", "refused"} => ~old.communities \/ ~Acceptable \/ Planned = Nothing
      /\ run'.phase = "done" => ~old.communities \/ (Acceptable /\ Planned = Nothing)
      /\ run' = [phase |-> run'.phase, communities |-> run'.communities, steps |-> run'.steps,
                 agent |-> run'.agent, count |-> run'.count]
  <2>1. PlannedCommunities \in SUBSET Community
    BY <1>1 DEF PlannedCommunities, OldRecords, Agent
  <2> QED BY <1>1, <2>1 DEF Plan
<1>3. /\ Planned \in [Agent -> SUBSET Kinds] /\ Nothing \in [Agent -> SUBSET Kinds]
      /\ \A x \in Agent : Nothing[x] = {}
      /\ \A x \in Agent : Planned[x] = IF x \in OldRecords /\ x \notin new.marked
                                         THEN Outstanding(x) ELSE {}
  <2>1. \A x \in Agent : Outstanding(x) \in SUBSET Kinds
    BY DEF Outstanding, If, Kinds
  <2> QED BY <2>1 DEF Planned, Nothing, AgentSteps, If
<1>4. \A x \in Agent : "mark" \in Outstanding(x)
  BY DEF Outstanding
<1>5. \A x \in Agent : run'.steps[x] = IF Acceptable /\ x \in OldRecords /\ x \notin new.marked
                                         THEN Outstanding(x) ELSE {}
  BY <1>2, <1>3
<1>6. TypeInv'
  <2>1. run' \in [phase : Phases, communities : SUBSET Community,
                  steps : [Agent -> SUBSET Kinds], agent : Agent \cup {None}, count : Nat]
    BY <1>2, <1>3 DEF Phases, Resting
  <2> QED BY <1>1, <2>1 DEF TypeInv, Ids
<1>7. OldTree' /\ Gone' /\ KeyIsItsOwn'
  BY <1>1 DEF OldTree, Gone, KeyIsItsOwn, Ids, HasEnv
<1>8. Underway'
  <2> SUFFICES ASSUME NEW x \in Agent, run'.steps[x] # {}
               PROVE  /\ run'.phase \notin Resting
                      /\ x \in legacy /\ x \notin new.marked /\ "mark" \in run'.steps[x]
                      /\ \A y \in legacy : y[2] = x[2] => y = x
    BY <1>1 DEF Underway, Going
  <2>1. Acceptable /\ x \in OldRecords /\ x \notin new.marked /\ run'.steps[x] = Outstanding(x)
    BY <1>5
  <2>2. old.communities /\ x \in legacy /\ OldRecords = legacy
    BY <2>1 DEF OldRecords
  <2>3. Planned # Nothing
    BY <1>3, <1>4, <2>1
  <2> QED BY <1>2, <1>4, <2>1, <2>2, <2>3 DEF Acceptable, Resting
<1>9. Covered'
  <2>1. Acceptable /\ old.communities => \A x \in legacy : x \in new.marked \/ "mark" \in run'.steps[x]
    BY <1>1, <1>4, <1>5 DEF OldRecords
  <2>2. Acceptable /\ old.communities /\ Planned = Nothing => legacy \subseteq new.marked
    BY <1>1, <1>2, <1>3, <2>1
  <2> QED BY <1>1, <1>2, <2>1, <2>2 DEF Covered, OldTree, Going
<1>10. Reached'
  <2> SUFFICES ASSUME NEW x \in legacy, ~WasDeleted(x)
               PROVE  /\ Over("secret", x)' => x \in new.secret
                      /\ Over("state", x)' => x \in new.state
                      /\ Over("env", x)' => HasEnv(x)
                      /\ Over("prompt", x)' => new.prompt[x] # None
                      /\ Over("rename", x)' => new.work[x] # None
    BY <1>1 DEF Reached, WasDeleted, HasEnv
  <2>1. x \in Agent /\ x[2] \in Ids(legacy)
    BY <1>1 DEF Ids
  <2>2. \A k \in Kinds : Over(k, x)' => k \notin Outstanding(x) /\ x \notin new.marked
    BY <1>5, <2>1 DEF Over, Going
  <2>3. x \notin new.marked => old.agents
    BY DEF OldTree
  <2>4. /\ "secret" \notin Outstanding(x) => x \in new.state
        /\ "state" \notin Outstanding(x) => x \in new.state
        /\ "env" \notin Outstanding(x) => x[2] \notin OldEnv \/ HasEnv(x)
        /\ "prompt" \notin Outstanding(x) => x[2] \notin OldPrompts \/ new.prompt[x] # None
        /\ "rename" \notin Outstanding(x) => x[2] \notin old.work \/ new.work[x] # None
    BY DEF Outstanding, If
  <2>5. /\ x \in new.state => x \in new.secret
        /\ x[2] \notin old.prompt => new.prompt[x] # None
    BY DEF Reached
  <2> QED BY <2>1, <2>2, <2>3, <2>4, <2>5 DEF Kinds, OldEnv, OldPrompts, OldTree
<1> QED BY <1>6, <1>7, <1>8, <1>9, <1>10

\* The run goes on without a step of an agent.
LEMMA OnwardKeeps ==
  ASSUME IInv, run.phase \in {"check", "install", "steps"},
         run' \in [phase : Phases, communities : SUBSET Community,
                   steps : [Agent -> SUBSET Kinds], agent : Agent \cup {None}, count : Nat],
         run'.steps = run.steps,
         \/ run'.phase \in {"install", "steps"}
         \/ run'.phase = "done" /\ run.steps = Nothing,
         UNCHANGED <<legacy, old, units, deleted>>, template' \in {"old", "new"},
         new' \in [community : SUBSET Community, secret : SUBSET Agent, state : SUBSET Agent,
                   marked : SUBSET Agent, env : [Agent -> {None} \cup (Agent \X Sources)],
                   prompt : [Agent -> {None} \cup Sources], work : [Agent -> {None} \cup Sources]],
         UNCHANGED <<new.secret, new.state, new.marked, new.env, new.prompt, new.work>>
  PROVE  IInv'
<1> USE DEF IInv
<1>1. TypeInv' /\ legacy \subseteq Agent
  BY DEF TypeInv, Ids
<1>2. OldTree' /\ Gone' /\ KeyIsItsOwn'
  BY DEF OldTree, Gone, KeyIsItsOwn, Ids, HasEnv
<1>3. Reached'
  BY DEF Reached, Over, Going, HasEnv, WasDeleted
<1>4. Underway' /\ Covered'
  BY <1>1 DEF Underway, Covered, Going, Resting, Nothing
<1> QED BY <1>1, <1>2, <1>3, <1>4

\* Only the units change, or a boot ends the run.
LEMMA UnitsKeep ==
  ASSUME IInv, UNCHANGED <<legacy, old, new, template, deleted>>,
         units' \in [oldOn : SUBSET Id, oldUp : SUBSET Id,
                     newOn : SUBSET Agent, newUp : SUBSET Agent, stuck : SUBSET Id],
         UNCHANGED run \/ Rest("stopped")
  PROVE  IInv'
<1>1. CASE Rest("stopped")
  BY <1>1, RestKeeps DEF Resting
<1>2. CASE UNCHANGED run
  <2> USE <1>2 DEF IInv
  <2>1. TypeInv'
    BY DEF TypeInv, Ids
  <2>2. Underway' /\ Covered'
    BY DEF Underway, Covered, Going
  <2>3. OldTree' /\ Reached' /\ Gone' /\ KeyIsItsOwn'
    BY StoresAlone, legacy \subseteq Agent DEF Over, Going, TypeInv
  <2> QED BY <2>1, <2>2, <2>3
<1> QED BY <1>1, <1>2

\* Who is deleted is spoken of no more, but for the mark.
LEMMA DeleteAgentKeeps ==
  ASSUME MigrationAssumption, IInv, NEW x \in Agent, DeleteAgent(x) PROVE IInv'
<1> USE MigrationAssumption DEF IInv
<1>1. /\ UNCHANGED <<legacy, old, template, run>> /\ x \in new.state /\ legacy \subseteq Agent
      /\ units' \in [oldOn : SUBSET Id, oldUp : SUBSET Id,
                     newOn : SUBSET Agent, newUp : SUBSET Agent, stuck : SUBSET Id]
      /\ new' \in [community : SUBSET Community, secret : SUBSET Agent, state : SUBSET Agent,
                   marked : SUBSET Agent, env : [Agent -> {None} \cup (Agent \X Sources)],
                   prompt : [Agent -> {None} \cup Sources], work : [Agent -> {None} \cup Sources]]
      /\ UNCHANGED <<new.marked, new.work>>
      /\ new'.secret = new.secret \ {x} /\ new'.state = new.state \ {x}
      /\ \A y \in Agent : /\ new'.env[y] = IF y = x THEN None ELSE new.env[y]
                          /\ new'.prompt[y] = IF y = x THEN None ELSE new.prompt[y]
      /\ deleted' \in [before : SUBSET Agent, after : SUBSET Agent]
      /\ deleted'.after = IF x \in new.marked THEN deleted.after \cup {x} ELSE deleted.after
      /\ deleted'.before = IF x \in new.marked THEN deleted.before ELSE deleted.before \cup {x}
  BY DEF DeleteAgent, TypeInv
<1>2. TypeInv'
  BY <1>1 DEF TypeInv, Ids
<1>3. OldTree' /\ Underway' /\ Covered'
  BY <1>1 DEF OldTree, Underway, Covered, Going, Ids
<1>4. \A y \in Agent : WasDeleted(y)' <=> WasDeleted(y) \/ y = x
  BY <1>1 DEF WasDeleted
<1>5. Reached'
  BY <1>1, <1>4 DEF Reached, Over, Going, HasEnv
<1>6. Gone'
  BY <1>1 DEF Gone
<1>7. KeyIsItsOwn'
  BY <1>1 DEF KeyIsItsOwn, HasEnv
<1> QED BY <1>2, <1>3, <1>5, <1>6, <1>7

\* Healing writes what is missing and nothing else.
LEMMA HealKeeps ==
  ASSUME MigrationAssumption, IInv, NEW x \in Agent, Heal(x) PROVE IInv'
<1> USE MigrationAssumption DEF IInv
<1>1. /\ UNCHANGED <<legacy, old, run, deleted>> /\ legacy \subseteq Agent /\ template' = "new"
      /\ units' \in [oldOn : SUBSET Id, oldUp : SUBSET Id,
                     newOn : SUBSET Agent, newUp : SUBSET Agent, stuck : SUBSET Id]
      /\ UNCHANGED <<new.community, new.secret, new.state, new.marked>>
  BY DEF Heal, TypeInv
<1>2. <<x, "made">> \in Agent \X Sources /\ "made" \in Sources
  BY DEF Sources
<1>3. /\ new' \in [community : SUBSET Community, secret : SUBSET Agent, state : SUBSET Agent,
                   marked : SUBSET Agent, env : [Agent -> {None} \cup (Agent \X Sources)],
                   prompt : [Agent -> {None} \cup Sources], work : [Agent -> {None} \cup Sources]]
      /\ \A y \in Agent :
           /\ new'.env[y] = IF y = x /\ new.env[x] = None THEN <<x, "made">> ELSE new.env[y]
           /\ new'.prompt[y] = IF y = x /\ new.prompt[x] = None THEN "made" ELSE new.prompt[y]
           /\ new'.work[y] = IF y = x /\ new.work[x] = None THEN "made" ELSE new.work[y]
  <2> DEFINE file == <<x, "made">>
  <2>1. file \in {None} \cup (Agent \X Sources)
    BY <1>2
  <2> HIDE DEF file
  <2>2. new' = [new EXCEPT !.env[x] = IF @ = None THEN file ELSE @,
                           !.prompt[x] = IF @ = None THEN "made" ELSE @,
                           !.work[x] = IF @ = None THEN "made" ELSE @]
    BY DEF Heal, file
  <2>3. new.env \in [Agent -> {None} \cup (Agent \X Sources)]
    BY DEF TypeInv
  <2> QED BY <1>2, <2>1, <2>2, <2>3 DEF TypeInv, file
<1>4. TypeInv'
  BY <1>1, <1>3 DEF TypeInv, Ids
<1>5. OldTree' /\ Underway' /\ Covered' /\ Gone'
  BY <1>1 DEF OldTree, Underway, Covered, Going, Gone, Ids
<1>6. \A y \in Agent : /\ HasEnv(y) => HasEnv(y)'
                       /\ new.prompt[y] # None => new'.prompt[y] # None
                       /\ new.work[y] # None => new'.work[y] # None
  BY <1>3 DEF HasEnv
<1>7. Reached'
  BY <1>1, <1>6 DEF Reached, Over, Going, WasDeleted
<1>8. KeyIsItsOwn'
  BY <1>3 DEF KeyIsItsOwn, HasEnv
<1> QED BY <1>4, <1>5, <1>7, <1>8

\* The old directories go once everybody is marked.
LEMMA CleanUpKeeps == ASSUME IInv, CleanUp PROVE IInv'
<1> USE DEF IInv
<1>1. /\ UNCHANGED <<legacy, new, units, template, run, deleted>> /\ legacy \subseteq new.marked
      /\ UNCHANGED <<old.env, old.prompt, old.work>>
      /\ old' \in [communities : BOOLEAN, agents : BOOLEAN, env : [Ids(legacy) -> legacy],
                   prompt : SUBSET Id, work : SUBSET Id]
  BY DEF CleanUp, TypeInv
<1>2. TypeInv'
  BY <1>1 DEF TypeInv, Ids
<1>3. OldTree' /\ Underway' /\ Covered' /\ Gone' /\ KeyIsItsOwn'
  BY <1>1 DEF OldTree, Underway, Covered, Going, Gone, KeyIsItsOwn, HasEnv, Ids
<1>4. Reached'
  BY <1>1 DEF Reached, Over, Going, HasEnv, WasDeleted
<1> QED BY <1>2, <1>3, <1>4

\* Every step keeps the invariant.
LEMMA NextKeeps == ASSUME MigrationAssumption, IInv, [Next]_vars PROVE IInv'
<1> USE MigrationAssumption
<1>0. /\ units \in [oldOn : SUBSET Id, oldUp : SUBSET Id,
                    newOn : SUBSET Agent, newUp : SUBSET Agent, stuck : SUBSET Id]
      /\ run \in [phase : Phases, communities : SUBSET Community,
                  steps : [Agent -> SUBSET Kinds], agent : Agent \cup {None}, count : Nat]
      /\ new \in [community : SUBSET Community, secret : SUBSET Agent, state : SUBSET Agent,
                  marked : SUBSET Agent, env : [Agent -> {None} \cup (Agent \X Sources)],
                  prompt : [Agent -> {None} \cup Sources], work : [Agent -> {None} \cup Sources]]
      /\ template \in {"old", "new"}
  BY DEF IInv, TypeInv
<1>1. CASE Plan
  BY <1>1, PlanKeeps
<1>2. CASE CheckUnits
  <2>1. CASE Rest("refused")
    BY <1>0, <1>2, <2>1, RestKeeps DEF CheckUnits, Resting
  <2>2. CASE run' = [run EXCEPT !.phase = "install"]
    BY <1>0, <1>2, <2>2, OnwardKeeps DEF CheckUnits, Phases
  <2> QED BY <1>2, <2>1, <2>2 DEF CheckUnits
<1>3. CASE InstallTemplate
  BY <1>0, <1>3, OnwardKeeps DEF InstallTemplate, Phases
<1>4. CASE \E c \in Community : SaveCommunity(c)
  <2> PICK c \in Community : SaveCommunity(c)
    BY <1>4
  <2>1. /\ run.phase = "steps" /\ run' = [run EXCEPT !.communities = run.communities \ {c},
             !.steps = run.steps, !.agent = None,
             !.phase = IF run.communities \ {c} = {} /\ run.steps = Nothing THEN "done" ELSE @]
    BY DEF SaveCommunity, Left
  <2>2. /\ run' \in [phase : Phases, communities : SUBSET Community,
                     steps : [Agent -> SUBSET Kinds], agent : Agent \cup {None}, count : Nat]
        /\ run'.steps = run.steps
        /\ run'.phase \in {"install", "steps"} \/ (run'.phase = "done" /\ run.steps = Nothing)
    BY <1>0, <2>1 DEF Phases, Resting
  <2> QED BY <1>0, <2>1, <2>2, OnwardKeeps DEF SaveCommunity
<1>5. CASE \E x \in Agent : MoveAgent(x)
  BY <1>5, MoveAgentKeeps
<1>6. CASE Stop
  BY <1>0, <1>6, RestKeeps DEF Stop, Resting
<1>7. CASE Boot \/ StopOld \/ \E i \in Id : StartOld(i)
  <2>1. CASE Boot
    BY <1>0, <2>1, UnitsKeep DEF Boot
  <2>2. CASE StopOld
    BY <1>0, <2>2, UnitsKeep DEF StopOld
  <2>3. CASE \E i \in Id : StartOld(i)
    BY <1>0, <2>3, UnitsKeep DEF StartOld
  <2> QED BY <1>7, <2>1, <2>2, <2>3
<1>8. CASE CleanUp
  BY <1>8, CleanUpKeeps
<1>9. CASE \E x \in Agent : DeleteAgent(x) \/ Heal(x)
  BY <1>9, DeleteAgentKeeps, HealKeeps
<1>10. CASE UNCHANGED vars
  BY <1>0, <1>10, UnitsKeep DEF vars
<1> QED BY <1>1, <1>2, <1>3, <1>4, <1>5, <1>6, <1>7, <1>8, <1>9, <1>10 DEF Next, Migrate

\* What a stopped run leaves, a later one can go on from.
THEOREM InductiveInvariant == ASSUME MigrationAssumption PROVE Spec => []IInv
<1>1. Init => IInv
  BY InitIInv
<1>2. IInv /\ [Next]_vars => IInv'
  BY NextKeeps
<1> QED BY <1>1, <1>2, PTL DEF Spec

\* Each record, environment file and prompt of the old tree is still there or in
\* the new layout, wherever a run stops and whatever is cleaned up (README.md:
\* 100-103).
THEOREM NothingOfItIsLost == ASSUME MigrationAssumption PROVE Spec => []NothingIsLost
<1>1. IInv => NothingIsLost
  BY DEF IInv, NothingIsLost, OldTree, Reached, OldRecords, OldEnv, OldPrompts, HasEnv, Ids, TypeInv
<1> QED BY <1>1, InductiveInvariant, PTL

\* An agent deleted after it was moved is not recreated from the old tree
\* (migrate.py:281-289).
THEOREM NoneComesBack == ASSUME MigrationAssumption PROVE Spec => []DeletedStaysDeleted
<1>1. IInv => DeletedStaysDeleted
  BY DEF IInv, DeletedStaysDeleted, Gone
<1> QED BY <1>1, InductiveInvariant, PTL

\* No agent gets another's key, whichever of those that share an id the old
\* environment file belongs to (migrate.py:307-321).
THEOREM EveryKeyIsItsOwn == ASSUME MigrationAssumption PROVE Spec => []KeyIsItsOwn
<1>1. IInv => KeyIsItsOwn
  BY DEF IInv
<1> QED BY <1>1, InductiveInvariant, PTL
-----------------------------------------------------------------------------
(* Where `agent list` does not meet an agent moved half-way. *)

\* At the start nothing is moved and nothing healed.
LEMMA InitHInv == ASSUME MigrationAssumption, IInv, Init PROVE HInv
<1> USE MigrationAssumption DEF Init
<1>1. \A x \in legacy : x \in Agent /\ new.env[x] = None /\ new.prompt[x] = None
                        /\ new.work[x] = None /\ run.steps[x] = {}
  BY DEF IInv, TypeInv, Nothing
<1>2. None # "made"
  BY DEF MigrationAssumption, Sources
<1> QED BY <1>1, <1>2 DEF HInv, Switched, Unhealed, HasEnv, Over, Going

\* A step of an agent keeps it: disabling the old unit comes before enabling
\* the new one, and that before the mark.
LEMMA HealedMoveAgent ==
  ASSUME MigrationAssumption, IInv, HInv, NEW kind \in Kinds, NEW x \in Agent,
         At(kind, x), StepDone(kind, x), Effect(kind, x),
         \/ kind \notin {"disable", "enable"} /\ UNCHANGED units
         \/ kind = "disable" /\ Disabled(x[2])
         \/ kind = "enable" /\ units' = [units EXCEPT !.newOn = @ \cup {x}, !.newUp = @ \cup {x}]
  PROVE  HInv'
<1> USE DEF IInv, HInv
<1>a. Ahead(kind, x)
  BY AgentStep
<1>0. /\ legacy' = legacy /\ template' = template /\ legacy \subseteq Agent /\ x \in legacy
      /\ template = "new" /\ x \notin new.marked /\ x[2] \in Ids(legacy)
      /\ \A y \in Agent : WasDeleted(y)' = WasDeleted(y)
  BY <1>a DEF Ahead, Effect, TypeInv, WasDeleted, Switched, Ids
<1>1. \A y \in Agent, k \in Kinds : Over(k, y)' => Over(k, y) \/ (y = x /\ k = kind)
  BY <1>a DEF Ahead
<1>2. kind \in {"enable", "mark"} => Over("disable", x)
  BY <1>a DEF Ahead, Place, Kinds
<1>3. kind = "mark" => Over("enable", x)
  BY <1>a DEF Ahead, Place, Kinds
<1>4. /\ units'.oldOn \cup units'.oldUp \subseteq units.oldOn \cup units.oldUp
      /\ units.stuck \ (IF kind = "disable" THEN {x[2]} ELSE {}) \subseteq units'.stuck
      /\ kind = "disable" => x[2] \notin units'.oldOn \cup units'.oldUp \/ x[2] \in units'.stuck
      /\ units'.newOn = IF kind = "enable" THEN units.newOn \cup {x} ELSE units.newOn
      /\ units'.newUp = IF kind = "enable" THEN units.newUp \cup {x} ELSE units.newUp
  BY DEF TypeInv, Disabled
<1>5. new'.marked = IF kind = "mark" THEN new.marked \cup {x} ELSE new.marked
  BY DEF Effect
<1>6. Switched'
  <2> SUFFICES ASSUME NEW y \in legacy,
                      y \in new'.marked \cup units'.newOn \cup units'.newUp \/ Over("disable", y)'
               PROVE  y[2] \notin units'.oldOn \cup units'.oldUp \/ y[2] \in units'.stuck
    BY <1>0 DEF Switched
  <2>1. CASE y = x /\ kind = "disable"
    BY <1>4, <2>1
  <2>2. CASE ~(y = x /\ kind = "disable")
    <3>1. y[2] \notin units.oldOn \cup units.oldUp \/ y[2] \in units.stuck
      BY <1>0, <1>1, <1>2, <1>4, <1>5, <2>2 DEF Switched, Kinds
    <3>2. kind = "disable" => y[2] # x[2]
      BY <1>a, <2>2 DEF Ahead
    <3> QED BY <1>4, <3>1, <3>2
  <2> QED BY <2>1, <2>2
<1>7. Unhealed'
  <2> SUFFICES ASSUME NEW y \in legacy, ~WasDeleted(y)
               PROVE  /\ HasEnv(y)' => new'.env[y][2] = "moved"
                      /\ new'.prompt[y] # "made" /\ new'.work[y] # "made"
                      /\ y \in new'.marked \/ Over("enable", y)' => y \in units'.newOn
    BY <1>0 DEF Unhealed
  <2> QED BY <1>0, <1>1, <1>3, <1>4, <1>5 DEF Unhealed, HasEnv, Effect, Kinds
<1> QED BY <1>6, <1>7

\* The run ends or goes on, the units and the files stay; nobody's steps are
\* over that were not.
LEMMA HealedOtherwise ==
  ASSUME IInv, HInv, UNCHANGED <<legacy, deleted>>,
         UNCHANGED <<new.marked, new.env, new.prompt, new.work, units.oldOn, units.newOn, units.stuck>>,
         \A x \in legacy, k \in {"disable", "enable"} : Over(k, x)' => Over(k, x),
         template' \in {template, "new"}, run'.phase = "steps" => template' = "new",
         units'.newUp \subseteq units.newUp \cup units.newOn,
         \A i \in units'.oldUp : i \in units.oldUp \/ template = "old"
  PROVE  HInv'
<1> USE DEF IInv, HInv
<1>1. Switched'
  BY DEF Switched
<1>2. Unhealed'
  BY DEF Unhealed, HasEnv, WasDeleted
<1> QED BY <1>1, <1>2

\* Every step keeps it, if healing waits for the mark.
LEMMA NextKeepsHealed ==
  ASSUME MigrationAssumption, MayHeal = FALSE, IInv, HInv, [Next]_vars PROVE HInv'
<1> USE MigrationAssumption
<1>0. legacy \subseteq Agent
  BY DEF IInv, TypeInv
<1>u. units \in [oldOn : SUBSET Id, oldUp : SUBSET Id, newOn : SUBSET Agent,
                 newUp : SUBSET Agent, stuck : SUBSET Id]
  BY DEF IInv, TypeInv
<1>a. \A phase \in Resting : Rest(phase) =>
        /\ run'.phase # "steps" /\ \A x \in Agent, k \in Kinds : ~Over(k, x)'
  BY RestFacts DEF IInv, Over, Going, Resting
<1>1. CASE Plan
  <2>1. \A x \in Agent : run'.steps[x] = {} \/ {"disable", "enable"} \subseteq run'.steps[x]
    BY <1>1 DEF Plan, Planned, Nothing, AgentSteps, Outstanding, If
  <2>2. run'.phase # "steps"
    BY <1>1 DEF Plan
  <2> QED BY <1>0, <1>1, <2>1, <2>2, HealedOtherwise DEF Plan, Over, Going
<1>2. CASE CheckUnits
  <2>1. CASE Rest("refused")
    BY <1>0, <1>a, <1>2, <2>1, HealedOtherwise DEF CheckUnits, Resting, Kinds
  <2>2. CASE run' = [run EXCEPT !.phase = "install"]
    <3>1. run'.steps = run.steps /\ run'.phase = "install"
      BY <2>2 DEF IInv, TypeInv
    <3> QED BY <1>2, <3>1, HealedOtherwise DEF CheckUnits, Over, Going
  <2> QED BY <1>2, <2>1, <2>2 DEF CheckUnits
<1>3. CASE InstallTemplate
  <2>1. run'.steps = run.steps /\ run'.phase = "steps" /\ template' = "new"
    BY <1>3 DEF IInv, TypeInv, InstallTemplate
  <2> QED BY <1>3, <2>1, HealedOtherwise DEF InstallTemplate, Over, Going
<1>4. CASE \E c \in Community : SaveCommunity(c)
  <2> PICK c \in Community : SaveCommunity(c)
    BY <1>4
  <2>1. run'.steps = run.steps /\ template = "new" /\ template' = template
    BY DEF IInv, HInv, TypeInv, SaveCommunity, Left, Switched
  <2>2. UNCHANGED <<new.marked, new.env, new.prompt, new.work>>
    BY DEF SaveCommunity, IInv, TypeInv
  <2> QED BY <2>1, <2>2, HealedOtherwise DEF SaveCommunity, Over, Going
<1>5. CASE \E x \in Agent : MoveAgent(x)
  <2> PICK x \in Agent : MoveAgent(x)
    BY <1>5
  <2>1. CASE \/ SaveSecret(x) \/ SaveState(x) \/ MoveEnv(x) \/ CopyPrompt(x) \/ UnlinkPrompt(x)
             \/ CopyWork(x) \/ Mark(x)
    BY <2>1, MoveAgentEffect, HealedMoveAgent
       DEF SaveSecret, SaveState, MoveEnv, CopyPrompt, UnlinkPrompt, CopyWork, Mark, Kinds
  <2>2. CASE RenameWork(x)
    <3>1. CASE Rest("failed") /\ UNCHANGED new
      BY <1>0, <1>a, <2>2, <3>1, HealedOtherwise DEF RenameWork, Resting, Kinds
    <3>2. CASE new' = [new EXCEPT !.work[x] = "moved"] /\ StepDone("rename", x)
      BY <2>2, <3>2, MoveAgentEffect, HealedMoveAgent DEF RenameWork, Kinds
    <3> QED BY <2>2, <3>1, <3>2 DEF RenameWork
  <2>3. CASE DisableOld(x)
    <3>1. Disabled(x[2])
      BY <2>3, DisableFacts DEF IInv
    <3> QED BY <2>3, <3>1, MoveAgentEffect, HealedMoveAgent DEF DisableOld, Kinds
  <2>4. CASE EnableNew(x)
    <3>1. CASE StepDone("enable", x)
              /\ units' = [units EXCEPT !.newOn = @ \cup {x}, !.newUp = @ \cup {x}]
      BY <2>4, <3>1, MoveAgentEffect, HealedMoveAgent DEF EnableNew, Kinds
    <3>2. CASE Rest("failed") /\ units' = units
      BY <1>0, <1>a, <2>4, <3>2, HealedOtherwise DEF EnableNew, Resting, Kinds
    <3>3. CASE Rest("failed") /\ units' = [units EXCEPT !.newOn = @ \cup {x}]
      <4>1. /\ "enable" \in run.steps[x] /\ \A k \in run.steps[x] : Place["enable"] <= Place[k]
            /\ run.phase = "steps" /\ UNCHANGED <<legacy, new, template, deleted>>
        BY <2>4 DEF EnableNew, At
      <4>2. Over("disable", x)
        BY <4>1 DEF Over, Going, Place
      <4>3. /\ run'.phase # "steps" /\ \A y \in Agent : ~Over("disable", y)' /\ ~Over("enable", y)'
        BY <1>a, <3>3 DEF Resting, Kinds
      <4>4. /\ units'.oldOn = units.oldOn /\ units'.oldUp = units.oldUp
            /\ units'.newOn = units.newOn \cup {x} /\ units'.newUp = units.newUp
            /\ units'.stuck = units.stuck
        BY <1>u, <3>3
      <4>5. Switched'
        BY <1>0, <4>1, <4>2, <4>3, <4>4 DEF HInv, Switched
      <4>6. Unhealed'
        BY <1>0, <4>1, <4>3, <4>4 DEF HInv, Unhealed, HasEnv, WasDeleted
      <4> QED BY <4>5, <4>6 DEF HInv
    <3> QED BY <2>4, <3>1, <3>2, <3>3 DEF EnableNew
  <2> QED BY <2>1, <2>2, <2>3, <2>4 DEF MoveAgent
<1>6. CASE Stop
  BY <1>0, <1>a, <1>6, HealedOtherwise DEF Stop, Resting, Kinds
<1>7. CASE Boot
  <2>1. /\ units'.oldOn = units.oldOn /\ units'.newOn = units.newOn
        /\ units'.stuck = units.stuck
        /\ units'.newUp \subseteq units.newOn
        /\ \A i \in units'.oldUp : template = "old"
    BY <1>u, <1>7 DEF Boot, OldUnitWorks
  <2>2. CASE UNCHANGED run
    BY <1>7, <2>1, <2>2, HealedOtherwise DEF Boot, Over, Going, HInv, Switched
  <2>3. CASE Rest("stopped")
    BY <1>0, <1>a, <1>7, <2>1, <2>3, HealedOtherwise DEF Boot, Resting, Kinds
  <2> QED BY <1>7, <2>2, <2>3 DEF Boot
<1>8. CASE StopOld
  <2>1. /\ units'.oldOn = units.oldOn /\ units'.newOn = units.newOn
        /\ units'.stuck = units.stuck
        /\ units'.newUp = units.newUp /\ units'.oldUp = {}
    BY <1>u, <1>8 DEF StopOld
  <2> QED BY <1>8, <2>1, HealedOtherwise DEF StopOld, Over, Going, HInv, Switched
<1>9. CASE \E i \in Id : StartOld(i)
  <2>1. /\ units'.oldOn = units.oldOn /\ units'.newOn = units.newOn
        /\ units'.stuck = units.stuck
        /\ units'.newUp = units.newUp /\ template = "old"
        /\ UNCHANGED <<legacy, old, new, template, run, deleted>>
    BY <1>u, <1>9 DEF StartOld, OldUnitWorks
  <2> QED BY <2>1, HealedOtherwise DEF Over, Going, HInv, Switched
<1>10. CASE CleanUp \/ UNCHANGED vars
  <2>1. UNCHANGED <<legacy, new, units, template, run, deleted>>
    BY <1>10 DEF CleanUp, vars
  <2> QED BY <2>1, HealedOtherwise DEF Over, Going, HInv, Switched
<1>11. CASE \E x \in Agent : DeleteAgent(x)
  <2> PICK x \in Agent : DeleteAgent(x)
    BY <1>11
  <2>1. /\ UNCHANGED <<legacy, template, run>> /\ UNCHANGED <<new.marked, new.work>>
        /\ units'.oldOn = units.oldOn /\ units'.newOn = units.newOn \ {x}
        /\ units'.newUp = units.newUp \ {x} /\ units'.oldUp = units.oldUp
        /\ units'.stuck = units.stuck
        /\ \A y \in Agent : y # x => new'.env[y] = new.env[y] /\ new'.prompt[y] = new.prompt[y]
        /\ WasDeleted(x)' /\ \A y \in Agent : ~WasDeleted(y)' => ~WasDeleted(y)
    BY <1>u DEF DeleteAgent, IInv, TypeInv, WasDeleted
  <2>2. Switched'
    BY <1>0, <2>1 DEF HInv, Switched, Over, Going
  <2>3. Unhealed'
    BY <1>0, <2>1 DEF HInv, Unhealed, HasEnv, Over, Going
  <2> QED BY <2>2, <2>3 DEF HInv
<1>12. CASE \E x \in Agent : Heal(x)
  <2> PICK x \in Agent : Heal(x)
    BY <1>12
  <2>1. /\ UNCHANGED <<legacy, run, deleted>> /\ template' = "new" /\ x \in new.marked
        /\ new'.marked = new.marked /\ x \in new.state /\ \A y \in Agent : WasDeleted(y)' = WasDeleted(y)
        /\ units'.oldOn = units.oldOn /\ units'.newOn = units.newOn
        /\ units'.newUp = units.newUp \cup {x} /\ units'.oldUp = units.oldUp
        /\ units'.stuck = units.stuck
        /\ \A y \in Agent : y # x \/ HasEnv(x) => new'.env[y] = new.env[y]
        /\ \A y \in Agent : y # x \/ new.prompt[x] # None => new'.prompt[y] = new.prompt[y]
        /\ \A y \in Agent : y # x \/ new.work[x] # None => new'.work[y] = new.work[y]
    BY <1>u DEF Heal, IInv, TypeInv, WasDeleted, HasEnv
  <2>2. Switched'
    BY <1>0, <2>1 DEF HInv, Switched, Over, Going
  <2>3. x \in legacy /\ ~WasDeleted(x) => HasEnv(x) /\ new.prompt[x] # None /\ new.work[x] # None
    BY <2>1 DEF IInv, Reached
  <2>4. Unhealed'
    BY <1>0, <2>1, <2>3 DEF HInv, Unhealed, HasEnv, Over, Going
  <2> QED BY <2>2, <2>4 DEF HInv
<1> QED BY <1>1, <1>2, <1>3, <1>4, <1>5, <1>6, <1>7, <1>8, <1>9, <1>10, <1>11, <1>12
        DEF Next, Migrate

\* Both invariants, where healing waits for the mark.
THEOREM HealedInvariant ==
  ASSUME MigrationAssumption, MayHeal = FALSE PROVE Spec => [](IInv /\ HInv)
<1>1. Init => IInv /\ HInv
  BY InitIInv, InitHInv
<1>2. IInv /\ HInv /\ [Next]_vars => (IInv /\ HInv)'
  BY NextKeeps, NextKeepsHealed
<1> QED BY <1>1, <1>2, PTL DEF Spec

\* One identity never runs under its old and its new name at once: not after a
\* boot, not when the operator starts old units again, unless systemctl failed to
\* turn the old one off, which the run tolerates (migrate.py:541-557).
THEOREM NeverUnderBothNames ==
  ASSUME MigrationAssumption, MayHeal = FALSE PROVE Spec => []OneIdentityOnce
<1>1. HInv => OneIdentityOnce
  BY DEF HInv, Switched, OneIdentityOnce
<1> QED BY <1>1, HealedInvariant, PTL

\* However often it was stopped, a run that ends well leaves every agent of the
\* old tree moved, with the files it had (README.md:85-87), and its old unit off
\* unless systemctl failed to turn it off.
THEOREM DoneIsMoved ==
  ASSUME MigrationAssumption, MayHeal = FALSE PROVE Spec => []DoneMeansMoved
<1>1. IInv /\ HInv => DoneMeansMoved
  <2> SUFFICES ASSUME IInv, HInv, run.phase = "done", NEW x \in legacy, ~WasDeleted(x)
               PROVE  /\ x \in new.state \cap new.marked
                      /\ new.env[x] = <<x, "moved">> /\ new.prompt[x] = "moved"
                      /\ new.work[x] = "moved"
                      /\ x \in units.newOn /\ (x[2] \notin units.oldOn \/ x[2] \in units.stuck)
    BY DEF DoneMeansMoved
  <2>1. x \in Agent /\ x \in new.marked
    BY DEF IInv, TypeInv, Covered
  <2>2. x \in new.state /\ HasEnv(x) /\ new.prompt[x] # None /\ new.work[x] # None
    BY <2>1 DEF IInv, Reached
  <2>3. new.env[x] \in Agent \X Sources /\ new.prompt[x] \in Sources /\ new.work[x] \in Sources
    BY <2>1, <2>2 DEF IInv, TypeInv, HasEnv
  <2>4. new.env[x][1] = x /\ new.env[x][2] = "moved"
    BY <2>1, <2>2 DEF IInv, HInv, KeyIsItsOwn, Unhealed
  <2>5. new.env[x] = <<x, "moved">>
    BY <2>3, <2>4
  <2>6. new.prompt[x] = "moved" /\ new.work[x] = "moved"
    BY <2>3 DEF HInv, Unhealed, Sources
  <2>7. x \in units.newOn /\ (x[2] \notin units.oldOn \/ x[2] \in units.stuck)
    BY <2>1 DEF HInv, Unhealed, Switched
  <2> QED BY <2>1, <2>2, <2>5, <2>6, <2>7
<1> QED BY <1>1, HealedInvariant, PTL
=============================================================================
