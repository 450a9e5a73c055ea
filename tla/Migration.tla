------------------------------ MODULE Migration ------------------------------
(***************************************************************************)
(* migrate.py: moving a machine from the old layout, whose files and units *)
(* are named by the bare agent id, to the one named by community and agent.*)
(* plan looks at the disk and lists the steps left; run applies them.  A   *)
(* run may stop anywhere and is run again; around it the operator boots,   *)
(* starts and stops units, deletes agents and cleans up the old tree.      *)
(***************************************************************************)
EXTENDS Naturals

CONSTANTS
  Community, Id,
  Trees,      \* the sets of agents an old tree may hold, <<community, id>> each
  Usable,     \* agents whose community and id are valid under today's rules
  MayHeal,    \* whether `agent list` may run on agents moved half-way
  MaxRuns,    \* bound: runs of the migration
  None

Agent == Community \X Id

Sources == {"moved", "made"}  \* the old tree, or ensure_runtime_ready

ASSUME MigrationAssumption ==
  /\ Trees \subseteq SUBSET Agent
  /\ None \notin Agent \cup Sources \cup (Agent \X Sources)
  /\ MayHeal \in BOOLEAN

VARIABLES
  legacy,   \* the agents of the old tree at first
  old,      \* the old tree: which directories stand, whose key each environment
            \*   file has, which other files by id remain
  new,      \* the new layout: files by agent, and the markers of moved units
  units,    \* enabled and running units, by their old and their new names; stuck:
            \*   old ones that a failed disable left enabled or running
  template, \* whose paths the unit template has: "old" or "new"
  run,      \* the latest run: where it is, the communities and the steps of each
            \*   agent ahead, the agent under way; how many runs there were
  deleted   \* history: agents the operator deleted before and after they were marked

vars == <<legacy, old, new, units, template, run, deleted>>

Ids(agents) == {x[2] : x \in agents}
-----------------------------------------------------------------------------
Nothing == [x \in Agent |-> {}]

\* An old environment file is by id: of the agents that share an id the one
\* written last has its key there.
Init ==
  /\ legacy \in Trees
  /\ old \in [communities : {TRUE}, agents : {TRUE},
              env : {w \in [Ids(legacy) -> legacy] : \A i \in Ids(legacy) : w[i][2] = i},
              prompt : {Ids(legacy)}, work : {Ids(legacy)}]
  /\ new = [community |-> {}, secret |-> {}, state |-> {}, marked |-> {},
            env |-> [x \in Agent |-> None],
            prompt |-> [x \in Agent |-> None], work |-> [x \in Agent |-> None]]
  /\ units = [oldOn |-> Ids(legacy), oldUp |-> Ids(legacy), newOn |-> {}, newUp |-> {},
           stuck |-> {}]
  /\ template = "old"
  /\ run = [phase |-> "idle", communities |-> {}, steps |-> Nothing, agent |-> None, count |-> 0]
  /\ deleted = [before |-> {}, after |-> {}]

\* What of the old tree can be seen.
OldRecords == IF old.communities THEN legacy ELSE {}
OldEnv == IF old.agents THEN Ids(legacy) ELSE {}
OldPrompts == IF old.agents THEN old.prompt ELSE {}
HasEnv(x) == new.env[x] # None

-----------------------------------------------------------------------------
(* Planning. *)

UnlinkFirst ==                         \* bug: the prompt goes before its copy
  [secret |-> 1, state |-> 2, env |-> 3, prompt |-> 5, unlink |-> 4,
   copy |-> 6, rename |-> 7, disable |-> 8, enable |-> 9, mark |-> 10]
EnableFirst ==                         \* bug: the new unit before the old
  [secret |-> 1, state |-> 2, env |-> 3, prompt |-> 4, unlink |-> 5,
   copy |-> 6, rename |-> 7, disable |-> 9, enable |-> 8, mark |-> 10]
\* The steps of an agent, in their order.
Place ==
  [secret |-> 1, state |-> 2, env |-> 3, prompt |-> 4, unlink |-> 5,
   copy |-> 6, rename |-> 7, disable |-> 8, enable |-> 9, mark |-> 10]

If(condition, steps) == IF condition THEN steps ELSE {}

\* What has no target yet, and the unit.
Outstanding(x) ==
  UNION { If(x \notin new.state, {"secret", "state"}),
          If(x[2] \in OldEnv /\ ~HasEnv(x), {"env"}),
          If(x[2] \in OldPrompts /\ new.prompt[x] = None, {"prompt", "unlink"}),
          If(x[2] \in old.work /\ new.work[x] = None, {"copy", "rename"}),
          {"disable", "enable", "mark"} }
\* An agent whose unit has been moved is done with.
AgentSteps(x) == If(x \notin new.marked, Outstanding(x))

Planned == [x \in Agent |-> If(x \in OldRecords, AgentSteps(x))]
PlannedCommunities == {x[1] : x \in OldRecords} \ new.community

SharedIdsAllowed == OldRecords \subseteq Usable                     \* bug
\* Every id is valid, and none is in two communities.
Acceptable ==
  /\ OldRecords \subseteq Usable
  /\ \A x, y \in OldRecords : x[2] = y[2] => x = y

\* Old environment files without a community, that no new one stands for.
Stranded == OldEnv \ {x[2] : x \in {y \in Agent : HasEnv(y)}}

Resting == {"idle", "done", "refused", "failed", "stopped"}
Rest(phase) ==
  run' = [run EXCEPT !.phase = phase, !.communities = {}, !.steps = Nothing, !.agent = None]

Plan ==
  /\ run.phase \in Resting /\ run.count < MaxRuns
  /\ LET nothing == PlannedCommunities = {} /\ Planned = Nothing IN
     run' = [phase |->
               IF ~old.communities THEN IF Stranded = {} THEN "done" ELSE "refused"
               ELSE IF ~Acceptable THEN "refused"
               ELSE IF nothing THEN "done" ELSE "check",
             communities |-> IF Acceptable THEN PlannedCommunities ELSE {},
             steps |-> IF Acceptable THEN Planned ELSE Nothing,
             agent |-> None, count |-> run.count + 1]
  /\ UNCHANGED <<legacy, old, new, units, template, deleted>>

-----------------------------------------------------------------------------
(* Running. *)

\* No old unit may run, or be about to.
CheckUnits ==
  /\ run.phase = "check"
  /\ IF Ids(OldRecords) \cap units.oldUp # {}
       THEN Rest("refused") ELSE run' = [run EXCEPT !.phase = "install"]
  /\ UNCHANGED <<legacy, old, new, units, template, deleted>>

\* The backup of the old tree, which nothing reads, then the template.
InstallTemplate ==
  /\ run.phase = "install"
  /\ template' = "new"
  /\ run' = [run EXCEPT !.phase = "steps"]
  /\ UNCHANGED <<legacy, old, new, units, deleted>>

\* The step of this kind is the next of x: its community is saved, no earlier
\* step of x is left and no other agent is under way.  Which agent is next,
\* the model leaves open.
At(kind, x) ==
  /\ run.phase = "steps"
  /\ kind \in run.steps[x] /\ \A k \in run.steps[x] : Place[kind] <= Place[k]
  /\ x[1] \notin run.communities
  /\ run.agent \in {None, x}

\* After the last step the layout version is written, which nothing reads.
Left(communities, steps, agent) ==
  run' = [run EXCEPT !.communities = communities, !.steps = steps, !.agent = agent,
                     !.phase = IF communities = {} /\ steps = Nothing THEN "done" ELSE @]
StepDone(kind, x) ==
  LET rest == run.steps[x] \ {kind}
  IN  Left(run.communities, [run.steps EXCEPT ![x] = rest], IF rest = {} THEN None ELSE x)

\* save_community.
SaveCommunity(c) ==
  /\ run.phase = "steps" /\ c \in run.communities /\ run.agent = None
  /\ new' = [new EXCEPT !.community = @ \cup {c}]
  /\ Left(run.communities \ {c}, run.steps, None)
  /\ UNCHANGED <<legacy, old, units, template, deleted>>

\* save_agent's two files: the secrets, then the state.
SaveSecret(x) ==
  /\ At("secret", x)
  /\ new' = [new EXCEPT !.secret = @ \cup {x}]
  /\ StepDone("secret", x)
  /\ UNCHANGED <<legacy, old, units, template, deleted>>
SaveState(x) ==
  /\ At("state", x)
  /\ new' = [new EXCEPT !.state = @ \cup {x}]
  /\ StepDone("state", x)
  /\ UNCHANGED <<legacy, old, units, template, deleted>>

\* The environment file, its paths rewritten; the old one stays.
MoveEnv(x) ==
  /\ At("env", x)
  /\ new' = [new EXCEPT !.env[x] = <<old.env[x[2]], "moved">>]
  /\ StepDone("env", x)
  /\ UNCHANGED <<legacy, old, units, template, deleted>>

CopyPrompt(x) ==
  /\ At("prompt", x)
  /\ new' = [new EXCEPT !.prompt[x] = "moved"]
  /\ StepDone("prompt", x)
  /\ UNCHANGED <<legacy, old, units, template, deleted>>

\* Only after the copy has been read back.
UnlinkPrompt(x) ==
  /\ At("unlink", x)
  /\ old' = [old EXCEPT !.prompt = @ \ {x[2]}]
  /\ StepDone("unlink", x)
  /\ UNCHANGED <<legacy, new, units, template, deleted>>

CopyIntoPlace(x) ==                     \* bug: the copy grows in place
  /\ At("copy", x)
  /\ new' = [new EXCEPT !.work[x] = "part"]
  /\ StepDone("copy", x)
  /\ UNCHANGED <<legacy, old, units, template, deleted>>
\* A copy beside the target; what an earlier run left there is removed.
CopyWork(x) ==
  /\ At("copy", x)
  /\ StepDone("copy", x)
  /\ UNCHANGED <<legacy, old, new, units, template, deleted>>

\* os.replace: raises over a work directory that is not empty.
RenameWork(x) ==
  /\ At("rename", x)
  /\ \/ new.work[x] = "made" /\ Rest("failed") /\ UNCHANGED new
     \/ new' = [new EXCEPT !.work[x] = "moved"] /\ StepDone("rename", x)
  /\ UNCHANGED <<legacy, old, units, template, deleted>>

\* disable --now.  Every failure is tolerated, whatever it leaves enabled or
\* running: that there is nothing left to disable is one reason among others.
DisableOld(x) ==
  /\ At("disable", x)
  /\ LET bare == x[2] IN
     \/ units' = [units EXCEPT !.oldOn = @ \ {bare}, !.oldUp = @ \ {bare}, !.stuck = @ \ {bare}]
     \/ \E on \in {units.oldOn, units.oldOn \ {bare}} :
          units' = [units EXCEPT !.oldOn = on,
                                 !.stuck = @ \cup ({bare} \cap (on \cup units.oldUp))]
  /\ StepDone("disable", x)
  /\ UNCHANGED <<legacy, old, new, template, deleted>>

\* enable --now: a unit without its environment file does not start.
EnableNew(x) ==
  /\ At("enable", x)
  /\ \/ /\ HasEnv(x)
        /\ units' = [units EXCEPT !.newOn = @ \cup {x}, !.newUp = @ \cup {x}]
        /\ StepDone("enable", x)
     \/ /\ units' \in {units, [units EXCEPT !.newOn = @ \cup {x}]}
        /\ Rest("failed")
  /\ UNCHANGED <<legacy, old, new, template, deleted>>

Mark(x) ==
  /\ At("mark", x)
  /\ new' = [new EXCEPT !.marked = @ \cup {x}]
  /\ StepDone("mark", x)
  /\ UNCHANGED <<legacy, old, units, template, deleted>>

MoveAgent(x) ==
  \/ SaveSecret(x) \/ SaveState(x) \/ MoveEnv(x) \/ CopyPrompt(x) \/ UnlinkPrompt(x)
  \/ CopyWork(x) \/ RenameWork(x) \/ DisableOld(x) \/ EnableNew(x) \/ Mark(x)
Migrate ==
  \/ Plan \/ CheckUnits \/ InstallTemplate
  \/ \E c \in Community : SaveCommunity(c)
  \/ \E x \in Agent : MoveAgent(x)

Stop ==
  /\ run.phase \notin Resting
  /\ Rest("stopped")
  /\ UNCHANGED <<legacy, old, new, units, template, deleted>>
-----------------------------------------------------------------------------
(* Around it. *)

\* An old unit's environment file is under a path that only the old template
\* has.
OldUnitWorks(i) == template = "old" /\ i \in OldEnv

\* The machine boots: the run is gone, enabled units start if they can.
Boot ==
  /\ units' = [units EXCEPT !.oldUp = {i \in units.oldOn : OldUnitWorks(i)},
                            !.newUp = {x \in units.newOn : HasEnv(x)}]
  /\ IF run.phase \in Resting THEN UNCHANGED run ELSE Rest("stopped")
  /\ UNCHANGED <<legacy, old, new, template, deleted>>

\* systemctl --user start and stop.
StartOld(i) ==
  /\ OldUnitWorks(i)
  /\ units' = [units EXCEPT !.oldUp = @ \cup {i}]
  /\ UNCHANGED <<legacy, old, new, template, run, deleted>>
StopOld ==
  /\ units' = [units EXCEPT !.oldUp = {}]
  /\ UNCHANGED <<legacy, old, new, template, run, deleted>>

\* manager.delete_agent, which knows of the new layout only.
DeleteAgent(x) ==
  /\ x \in new.state
  /\ units' = [units EXCEPT !.newOn = @ \ {x}, !.newUp = @ \ {x}]
  /\ new' = [new EXCEPT !.secret = @ \ {x}, !.state = @ \ {x},
                        !.env[x] = None, !.prompt[x] = None]
  /\ deleted' = IF x \in new.marked THEN [deleted EXCEPT !.after = @ \cup {x}]
                                    ELSE [deleted EXCEPT !.before = @ \cup {x}]
  /\ UNCHANGED <<legacy, old, template, run>>

\* ensure_runtime_ready on an agent of the new layout: it writes files that are
\* missing, from the record, and (re)starts the unit.
Heal(x) ==
  /\ x \in new.state /\ x[1] \in new.community
  /\ MayHeal \/ x \in new.marked
  /\ new' = [new EXCEPT !.env[x] = IF @ = None THEN <<x, "made">> ELSE @,
                        !.prompt[x] = IF @ = None THEN "made" ELSE @,
                        !.work[x] = IF @ = None THEN "made" ELSE @]
  /\ units' = [units EXCEPT !.newUp = @ \cup {x}]
  /\ template' = "new"
  /\ UNCHANGED <<legacy, old, run, deleted>>

\* Once a run has ended well the operator removes the old directories, in
\* either order (README.md:106-113).
CleanUp ==
  /\ run.phase = "done" /\ legacy \subseteq new.marked
  /\ \/ old.communities /\ old' = [old EXCEPT !.communities = FALSE]
     \/ old.agents /\ old' = [old EXCEPT !.agents = FALSE]
  /\ UNCHANGED <<legacy, new, units, template, run, deleted>>

Next ==
  \/ Migrate \/ Stop \/ Boot \/ StopOld \/ CleanUp
  \/ \E i \in Id : StartOld(i)
  \/ \E x \in Agent : DeleteAgent(x) \/ Heal(x)

Spec == Init /\ [][Next]_vars
-----------------------------------------------------------------------------
(* Properties. *)

WasDeleted(x) == x \in deleted.before \cup deleted.after

\* Nothing of the old tree is lost, wherever a run stops and whatever is
\* cleaned up: each record, environment file and prompt is still there or in the
\* new layout ("the migration never deletes anything ... removed only after its
\* copy has been verified", README.md:100-103).
NothingIsLost ==
  \A x \in legacy : ~WasDeleted(x) =>
    /\ x \in OldRecords \/ x \in new.state \cap new.secret
    /\ x[2] \in OldEnv \/ HasEnv(x)
    /\ x[2] \in OldPrompts \/ new.prompt[x] # None

\* "silently RECREATE that agent - private key included" (plan, migrate.py:
\* 281-289) does not happen to an agent deleted after it was moved.
DeletedStaysDeleted == \A x \in deleted.after : x \notin new.state

\* One identity never runs under its old and its new name at once, but where
\* systemctl failed to turn off an old unit that was on: the run goes on to
\* enable the new one, taking "the old unit isn't running" for granted
\* (migrate.py:546-555).  A failure to turn off what is off does no harm.
OneIdentityOnce ==
  \A x \in legacy : x \in units.newUp => x[2] \notin units.oldUp \/ x[2] \in units.stuck

\* No agent gets another's key (plan, migrate.py:307-321).
KeyIsItsOwn == \A x \in Agent : HasEnv(x) => new.env[x][1] = x

\* "just run `buzz-fleet migrate` again ... only the rest is redone"
\* (README.md:85-87): however often it was stopped, a run that ends well leaves
\* every agent of the old tree moved, with the files it had.  (It ends as well
\* where systemctl failed to turn off the old unit: nothing tells.)
DoneMeansMoved ==
  run.phase = "done" => \A x \in legacy : ~WasDeleted(x) =>
    /\ x \in new.state \cap new.marked
    /\ new.env[x] = <<x, "moved">> /\ new.prompt[x] = "moved" /\ new.work[x] = "moved"
    /\ x \in units.newOn /\ (x[2] \notin units.oldOn \/ x[2] \in units.stuck)
=============================================================================
