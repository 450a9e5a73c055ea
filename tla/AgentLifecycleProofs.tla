------------------------ MODULE AgentLifecycleProofs ------------------------
(***************************************************************************)
(* What any number of creates, updates, deletes and heals keep, where      *)
(* those that change an agent run one at a time.                           *)
(*                                                                         *)
(* Three invariants, one on the other.  IInv holds whatever fails or is    *)
(* stopped: whose record a process has in hand at each place of its steps, *)
(* where each key comes from, what a delete has cleared.  FInv follows the *)
(* publication flags through the records and the hands, where no command   *)
(* was stopped and no update of a managed agent failed half-way.  HInv     *)
(* says of each agent what a heal, on a machine that does not fail, still  *)
(* has ahead of it: the file is the record's and the unit runs on it, or a *)
(* process under way will see to it.                                       *)
(*                                                                         *)
(* An action is summed up first (its Effect), then carried through each of *)
(* the invariants (Safe, Flags and Heal).                                  *)
(***************************************************************************)
EXTENDS AgentLifecycle, SequenceTheorems, TLAPS

\* Creates, updates and deletes run alone; heals may overlap.
ChangesAlone == \A p \in Process : Kind[p] # "heal" => p \in Alone

\* Where heals and updates both run, the owner's key is known from the start:
\* the update that saves it rewrites its own agent only.
OwnerKnown ==
  \A start \in Starts :
    (\E p, q \in start.cast : Kind[p] = "heal" /\ Kind[q] = "update") => start.owner

-----------------------------------------------------------------------------
(* Types.                                                                  *)

Contents == {Content(i, cfg) : i \in Item, cfg \in Config}
Community == [owner : BOOLEAN, fleet : BOOLEAN]
Unit == [enabled : BOOLEAN, loaded : EnvRecord \cup {None}, runtime : SUBSET {"template", "acp"}]
Hand ==
  [phase : {"out", "new", "on", "raised", "stopped"}, n : Nat, due : SUBSET Item,
   com : Community, full : BOOLEAN, todo : [Slug -> AgentRecord \cup {None}],
   slug : Slug \cup {None}, was : AgentRecord \cup {None}, agent : AgentRecord \cup {None},
   leave : SUBSET Channel]

TypeInv ==
  /\ saved \in [Slug -> AgentRecord \cup {None}]
  /\ env \in [Slug -> EnvRecord \cup {None}]
  /\ unit \in [Slug -> Unit]
  /\ relay \in [Key -> [Item -> Contents \cup {None}]]
  /\ community \in Community
  /\ runtime \in SUBSET {"template", "acp"}
  /\ at \in [Process -> Hand]
  /\ latest \in Process \cup {None}
  /\ faults \in SUBSET {"relay", "system", "stop"}

-----------------------------------------------------------------------------
(* Where a process stands, by the place of its step in Steps.              *)

Loops(p) == Kind[p] \in {"create", "heal"}
InLoop(p) == Loops(p) /\ at[p].n \in 7..12
InBody(p) == Loops(p) /\ at[p].n \in 8..12
Minted(p) == Kind[p] = "create" /\ at[p].n >= 15
Updating(p) == Kind[p] = "update" /\ at[p].n >= 3
Deleting(p) == Kind[p] = "delete" /\ at[p].n >= 2

\* It has an agent in hand there, and publishes only after a "sync".
Held(p) ==
  /\ at[p].n \in 1..(Len(Steps[p]) + 1)
  /\ at[p].phase \in {"out", "new"} => at[p].n = 1 /\ at[p].due = {}
  /\ InBody(p) \/ Minted(p) \/ Updating(p) \/ Deleting(p) =>
       at[p].slug \in Slug /\ at[p].agent # None
  /\ InBody(p) => at[p].was # None
  /\ at[p].due # {} =>
       /\ at[p].agent # None /\ at[p].agent.managed
       /\ \/ Loops(p) /\ at[p].n = 9
          \/ Kind[p] = "create" /\ at[p].n = 18
          \/ Kind[p] = "update" /\ at[p].n = 5
HandsTyped == \A p \in Process : Held(p)

\* Nothing overlaps a create, an update or a delete.
Turns ==
  /\ latest # None => \A p \in Process : Active(p) => p = latest
  /\ \A p \in Process : Active(p) /\ Kind[p] # "heal" => latest = p

-----------------------------------------------------------------------------
(* The records and what a process has in hand of them.                     *)

Same(a, b) == a.key = b.key /\ a.cfg = b.cfg /\ a.managed = b.managed
Matches(a, s) == saved[s] # None /\ Same(a, saved[s])

HandMatches(p) ==
  LET s == at[p].slug  a == at[p].agent IN
  /\ InLoop(p) => \A t \in Slug : at[p].todo[t] # None => Matches(at[p].todo[t], t)
  /\ InBody(p) => Matches(a, s)
  /\ Minted(p) => /\ a.key = p /\ a.managed
                  /\ IF at[p].n <= 16 THEN saved[s] = None ELSE Matches(a, s)
  /\ Updating(p) => saved[s] # None /\ a.key = saved[s].key /\ a.managed = saved[s].managed
  /\ Deleting(p) => IF at[p].n <= 4 THEN saved[s] = a ELSE saved[s] = None
HandsMatch == \A p \in Process : Active(p) => HandMatches(p)

\* A record has the key that its slug had at first, or that of the create that
\* took the slug.
Origins ==
  \A s \in Slug : saved[s] # None =>
    \/ Agents[s] # None /\ saved[s].key = Agents[s].key
    \/ \E p \in Process : Kind[p] = "create" /\ saved[s].key = p /\ at[p].n >= 17 /\ at[p].slug = s

\* A delete stops the unit before it forgets the record.
Disabled ==
  \A p \in Process : Active(p) /\ Kind[p] = "delete" /\ at[p].n >= 3 => ~unit[at[p].slug].enabled

\* While no command was stopped, a file without its record is that of a create
\* about to save or of a delete about to unlink.
NoneStopped == \A p \in Process : at[p].phase # "stopped"
AccountsFor(p, s) ==
  /\ Active(p) /\ at[p].slug = s
  /\ \/ Kind[p] = "create" /\ at[p].n = 16 /\ env[s].key = p
     \/ Kind[p] = "delete" /\ at[p].n = 5
FileKnown(s) ==
  \/ saved[s] # None /\ env[s].key = saved[s].key
  \/ \E p \in Process : AccountsFor(p, s)
KeysKnown == NoneStopped => \A s \in Slug : env[s] # None => FileKnown(s)

\* How far a delete has come that nothing has followed.
Cleared(p) ==
  LET s == at[p].slug  a == at[p].agent  n == at[p].n IN
  /\ n >= 2 => s = Target[p]
  /\ n >= 3 => unit[s] = Stopped(FALSE)
  /\ n >= 4 /\ ~RelayMayFail =>
       \A i \in a.cfg["channels"] \cup {"managed"} : relay[a.key][i] = None
  /\ n >= 5 => saved[s] = None
  /\ n >= 6 => env[s] = None
DeletesClear ==
  \A p \in Process : Kind[p] = "delete" /\ at[p].phase = "on" /\ latest = p => Cleared(p)

IInv ==
  /\ TypeInv /\ HandsTyped /\ Turns /\ HandsMatch /\ Origins
  /\ EnabledIsRecorded /\ Disabled /\ UnmanagedUntouched /\ KeysKnown /\ DeletesClear

-----------------------------------------------------------------------------
(* What is recorded as published.                                          *)

FlagsOf(a) ==
  a.managed => \A i \in Item : a.state[i] = "done" => relay[a.key][i] = Content(i, a.cfg)

\* The flags of a record may lag behind while an update or a delete of it is
\* under way.
Rewrites(p, s) ==
  Active(p) /\ at[p].slug = s /\ Kind[p] \in {"update", "delete"} /\ at[p].n >= 3
RecordTrue(s) == FlagsOf(saved[s]) \/ \E p \in Process : Rewrites(p, s)

\* The flags in hand are true as well; a channel to be left has none.
HandTrue(p) ==
  /\ InBody(p) \/ Minted(p) \/ Updating(p) => FlagsOf(at[p].agent)
  /\ InLoop(p) => \A s \in Slug : at[p].todo[s] # None => FlagsOf(at[p].todo[s])
  /\ Kind[p] = "update" /\ at[p].n = 3 => \A i \in at[p].leave : at[p].agent.state[i] # "done"

FInv ==
  NoneStopped /\ ~HalfDone =>
    /\ \A s \in Slug : saved[s] # None => RecordTrue(s)
    /\ \A p \in Process : Active(p) => HandTrue(p)

-----------------------------------------------------------------------------
(* What a heal still has to bring up to date.                              *)

Here(kind) == \E p \in Process : Kind[p] = kind /\ at[p].phase # "out"
Smooth == ~SystemMayFail /\ NoneStopped /\ Here("heal")

\* The owner's key, once known to a process, is saved; it is known before any
\* file is written.
OwnerInv ==
  /\ \A p \in Process : at[p].phase # "out" /\ at[p].com.owner => community.owner
  /\ \A p \in Process : at[p].phase = "on" /\ Kind[p] # "delete" /\ at[p].n >= 2 => at[p].com.owner
  /\ Here("heal") /\ Here("update") => community.owner /\ \A p \in Process : at[p].com.owner

\* This process will rewrite the files of s and restart it.
WillWrite(p, s) ==
  /\ Active(p) /\ Loops(p) /\ at[p].full
  /\ \/ at[p].n <= 6
     \/ at[p].n \in 7..12 /\ at[p].todo[s] # None
     \/ at[p].n \in 8..11 /\ at[p].slug = s
\* This one is about to restart it, or to delete it.
WillRestart(p, s) ==
  /\ Active(p) /\ at[p].slug = s
  /\ \/ Loops(p) /\ at[p].n = 12
     \/ Kind[p] = "create" /\ at[p].n >= 17
     \/ Kind[p] = "update" /\ at[p].n = 6
     \/ Kind[p] = "delete" /\ at[p].n >= 3
\* This one has written its file and will save its record.
WillSave(p, s) ==
  Active(p) /\ at[p].slug = s /\ Kind[p] = "update" /\ at[p].n >= 6

FileIsOf(s) ==
  /\ env[s] # None /\ env[s].key = saved[s].key
  /\ env[s].cfg = saved[s].cfg \/ \E p \in Process : WillSave(p, s)
OwnerTold(s) ==
  (community.owner => env[s].owner) \/ \E p \in Process : WillWrite(p, s)
UpToDate(s) ==
  \/ unit[s].loaded = env[s] /\ unit[s].runtime = runtime
  \/ \E p \in Process : WillWrite(p, s) \/ WillRestart(p, s)
UnitKnown(s) ==
  IF saved[s] # None THEN FileIsOf(s) /\ OwnerTold(s) /\ UpToDate(s)
  ELSE unit[s].loaded = None

\* The file that a create or an update has written, the unit a create will start.
WroteFile(p) ==
  LET file == env[at[p].slug] IN
  file # None /\ file.key = at[p].agent.key /\ file.cfg = at[p].agent.cfg /\ file.owner
HandKnown(p) ==
  /\ (Kind[p] = "create" /\ at[p].n >= 16) \/ (Kind[p] = "update" /\ at[p].n >= 6) => WroteFile(p)
  /\ Kind[p] = "create" /\ at[p].n \in 15..19 => unit[at[p].slug].loaded = None

\* What a heal that nothing overlapped or followed has looked at.
LookedAt(s, com) ==
  /\ env[s] # None /\ env[s].current
  /\ saved[s].managed => env[s].tag
  /\ com.fleet => env[s].fleet
Ahead(p, s) ==
  \/ at[p].n \in 7..12 /\ at[p].todo[s] # None
  \/ at[p].n \in 8..11 /\ at[p].slug = s
Progress(p) ==
  /\ at[p].n >= 4 => "template" \in runtime
  /\ at[p].n >= 5 => "acp" \in runtime
  /\ at[p].n >= 7 => \A s \in Slug : saved[s] # None => Ahead(p, s) \/ LookedAt(s, at[p].com)
HealsOn(p) == Kind[p] = "heal" /\ at[p].phase = "on" /\ latest = p

HealWhole ==
  /\ \A s \in Slug : UnitKnown(s)
  /\ \A p \in Process : Active(p) => HandKnown(p)
  /\ \A p \in Process : HealsOn(p) => Progress(p)
HInv == OwnerInv /\ (Smooth => HealWhole)
-----------------------------------------------------------------------------
(* Which step is where.                                                    *)

StepName ==
  {"owner", "linger", "template", "acp", "fleet", "list", "next", "sync", "keep", "check", "files",
   "try restart", "name", "mint", "save", "enable"}

LEMMA Joined ==
  ASSUME NEW s \in Seq(StepName), NEW t \in Seq(StepName)
  PROVE  /\ s \o t \in Seq(StepName)
         /\ Len(s \o t) = Len(s) + Len(t)
         /\ \A i \in 1 .. Len(s) + Len(t) : (s \o t)[i] = IF i <= Len(s) THEN s[i] ELSE t[i - Len(s)]
  BY ConcatProperties

LEMMA HealPlaces ==
  /\ HealSteps \in Seq(StepName) /\ Len(HealSteps) = 12
  /\ HealSteps[1] = "owner" /\ HealSteps[2] = "linger" /\ HealSteps[3] = "template"
  /\ HealSteps[4] = "acp" /\ HealSteps[5] = "fleet" /\ HealSteps[6] = "list"
  /\ HealSteps[7] = "next" /\ HealSteps[8] = "sync" /\ HealSteps[9] = "keep"
  /\ HealSteps[10] = "check" /\ HealSteps[11] = "files" /\ HealSteps[12] = "try restart"
  /\ LoopStart = 7 /\ LoopEnd = 13
<1>1. Ready \in Seq(StepName) /\ Len(Ready) = 6
  BY DEF Ready, StepName
<1>2. HealOneSteps \in Seq(StepName) /\ Len(HealOneSteps) = 6
  BY DEF HealOneSteps, StepName
<1>3. /\ Ready[1] = "owner" /\ Ready[2] = "linger" /\ Ready[3] = "template"
      /\ Ready[4] = "acp" /\ Ready[5] = "fleet" /\ Ready[6] = "list"
  BY DEF Ready
<1>4. /\ HealOneSteps[1] = "next" /\ HealOneSteps[2] = "sync" /\ HealOneSteps[3] = "keep"
      /\ HealOneSteps[4] = "check" /\ HealOneSteps[5] = "files" /\ HealOneSteps[6] = "try restart"
  BY DEF HealOneSteps
<1>5. /\ HealSteps \in Seq(StepName) /\ Len(HealSteps) = 12
      /\ \A i \in 1..12 : HealSteps[i] = IF i <= 6 THEN Ready[i] ELSE HealOneSteps[i - 6]
  <2>1. /\ Ready \o HealOneSteps \in Seq(StepName)
        /\ Len(Ready \o HealOneSteps) = Len(Ready) + Len(HealOneSteps)
        /\ \A i \in 1..Len(Ready) + Len(HealOneSteps) : (Ready \o HealOneSteps)[i] =
              IF i <= Len(Ready) THEN Ready[i] ELSE HealOneSteps[i - Len(Ready)]
    BY <1>1, <1>2, Joined
  <2> QED BY <1>1, <1>2, <2>1 DEF HealSteps
<1>6. LoopStart = 7 /\ LoopEnd = 13
  BY <1>1, <1>5 DEF LoopStart, LoopEnd
<1>7. /\ \A i \in 1..6 : HealSteps[i] = Ready[i]
      /\ HealSteps[7] = HealOneSteps[1] /\ HealSteps[8] = HealOneSteps[2]
      /\ HealSteps[9] = HealOneSteps[3] /\ HealSteps[10] = HealOneSteps[4]
      /\ HealSteps[11] = HealOneSteps[5] /\ HealSteps[12] = HealOneSteps[6]
  BY <1>5
<1>8. /\ HealSteps[1] = "owner" /\ HealSteps[2] = "linger" /\ HealSteps[3] = "template"
      /\ HealSteps[4] = "acp" /\ HealSteps[5] = "fleet" /\ HealSteps[6] = "list"
  BY <1>3, <1>7
<1>9. /\ HealSteps[7] = "next" /\ HealSteps[8] = "sync" /\ HealSteps[9] = "keep"
      /\ HealSteps[10] = "check" /\ HealSteps[11] = "files" /\ HealSteps[12] = "try restart"
  BY <1>4, <1>7
<1> QED BY <1>5, <1>6, <1>8, <1>9

LEMMA CreatePlaces ==
  /\ Len(CreateSteps) = 19
  /\ \A n \in 1..12 : CreateSteps[n] = HealSteps[n]
  /\ CreateSteps[13] = "name" /\ CreateSteps[14] = "mint" /\ CreateSteps[15] = "files"
  /\ CreateSteps[16] = "save" /\ CreateSteps[17] = "sync" /\ CreateSteps[18] = "save"
  /\ CreateSteps[19] = "enable"
<1> DEFINE Own == <<"name", "mint", "files", "save", "sync", "save", "enable">>
<1>1. Own \in Seq(StepName) /\ Len(Own) = 7
  BY DEF StepName
<1>2. /\ Own[1] = "name" /\ Own[2] = "mint" /\ Own[3] = "files" /\ Own[4] = "save"
      /\ Own[5] = "sync" /\ Own[6] = "save" /\ Own[7] = "enable"
  OBVIOUS
<1>3. CreateSteps = HealSteps \o Own
  BY DEF CreateSteps
<1> HIDE DEF Own
<1>4. Len(HealSteps) = 12 /\ HealSteps \in Seq(StepName)
  BY HealPlaces
<1>5. /\ Len(HealSteps \o Own) = 12 + 7
      /\ \A i \in 1..12 + 7 : (HealSteps \o Own)[i] = IF i <= 12 THEN HealSteps[i] ELSE Own[i - 12]
  <2>1. /\ Len(HealSteps \o Own) = Len(HealSteps) + Len(Own)
        /\ \A i \in 1..Len(HealSteps) + Len(Own) : (HealSteps \o Own)[i] =
              IF i <= Len(HealSteps) THEN HealSteps[i] ELSE Own[i - Len(HealSteps)]
    BY <1>1, <1>4, Joined
  <2> QED BY <1>1, <1>4, <2>1
<1>6. /\ Len(CreateSteps) = 12 + 7
      /\ \A i \in 1..12 + 7 : CreateSteps[i] = IF i <= 12 THEN HealSteps[i] ELSE Own[i - 12]
  BY <1>3, <1>5, Zenon
<1>7. Len(CreateSteps) = 19 /\ \A i \in 1..12 : CreateSteps[i] = HealSteps[i]
  BY <1>6
<1>8. /\ CreateSteps[13] = Own[1] /\ CreateSteps[14] = Own[2] /\ CreateSteps[15] = Own[3]
      /\ CreateSteps[16] = Own[4] /\ CreateSteps[17] = Own[5] /\ CreateSteps[18] = Own[6]
      /\ CreateSteps[19] = Own[7]
  BY <1>6
<1> QED BY <1>2, <1>7, <1>8

LEMMA UpdatePlaces ==
  /\ Len(UpdateSteps) = 7
  /\ UpdateSteps[1] = "owner" /\ UpdateSteps[2] = "load" /\ UpdateSteps[3] = "leave"
  /\ UpdateSteps[4] = "sync" /\ UpdateSteps[5] = "files" /\ UpdateSteps[6] = "restart"
  /\ UpdateSteps[7] = "save"
  BY DEF UpdateSteps

LEMMA DeletePlaces ==
  /\ Len(DeleteSteps) = 5
  /\ DeleteSteps[1] = "load" /\ DeleteSteps[2] = "disable" /\ DeleteSteps[3] = "teardown"
  /\ DeleteSteps[4] = "forget" /\ DeleteSteps[5] = "unlink"
  BY DEF DeleteSteps

\* The steps of a process, by name.
LEMMA Places ==
  ASSUME LifecycleAssumption, NEW p \in Process, NEW step, At(p, step), at[p].n \in Nat, at[p].n >= 1
  PROVE  /\ step = "owner"       => ~(Kind[p] = "delete") /\ at[p].n = 1
         /\ step = "linger"      => Loops(p) /\ at[p].n = 2
         /\ step = "template"    => Loops(p) /\ at[p].n = 3
         /\ step = "acp"         => Loops(p) /\ at[p].n = 4
         /\ step = "fleet"       => Loops(p) /\ at[p].n = 5
         /\ step = "list"        => Loops(p) /\ at[p].n = 6
         /\ step = "next"        => Loops(p) /\ at[p].n = 7
         /\ step = "sync"        => \/ Loops(p) /\ at[p].n = 8
                                    \/ Kind[p] = "create" /\ at[p].n = 17
                                    \/ Kind[p] = "update" /\ at[p].n = 4
         /\ step = "keep"        => Loops(p) /\ at[p].n = 9
         /\ step = "check"       => Loops(p) /\ at[p].n = 10
         /\ step = "files"       => \/ Loops(p) /\ at[p].n = 11
                                    \/ Kind[p] = "create" /\ at[p].n = 15
                                    \/ Kind[p] = "update" /\ at[p].n = 5
         /\ step = "try restart" => Loops(p) /\ at[p].n = 12
         /\ step = "name"        => Kind[p] = "create" /\ at[p].n = 13
         /\ step = "mint"        => Kind[p] = "create" /\ at[p].n = 14
         /\ step = "save"        => \/ Kind[p] = "create" /\ at[p].n \in {16, 18}
                                    \/ Kind[p] = "update" /\ at[p].n = 7
         /\ step = "enable"      => Kind[p] = "create" /\ at[p].n = 19
         /\ step = "load"        => \/ Kind[p] = "update" /\ at[p].n = 2
                                    \/ Kind[p] = "delete" /\ at[p].n = 1
         /\ step = "leave"       => Kind[p] = "update" /\ at[p].n = 3
         /\ step = "restart"     => Kind[p] = "update" /\ at[p].n = 6
         /\ step = "disable"     => Kind[p] = "delete" /\ at[p].n = 2
         /\ step = "teardown"    => Kind[p] = "delete" /\ at[p].n = 3
         /\ step = "forget"      => Kind[p] = "delete" /\ at[p].n = 4
         /\ step = "unlink"      => Kind[p] = "delete" /\ at[p].n = 5
<1> DEFINE n == at[p].n
<1>1. n \in 1..Len(Steps[p]) /\ Steps[p][n] = step /\ Steps[p] = StepsOf(Kind[p])
  BY DEF At, Active, Steps
<1>2. Kind[p] \in {"create", "update", "delete", "heal"}
  BY DEF LifecycleAssumption
<1>3. CASE Kind[p] = "heal"
  <2>1. n \in 1..12 /\ HealSteps[n] = step
    BY <1>1, <1>3, HealPlaces DEF StepsOf
  <2>2. n \in {1, 2, 3, 4, 5, 6, 7, 8, 9, 10, 11, 12}
    BY <2>1
  <2> HIDE DEF n
  <2> QED BY <1>3, <2>1, <2>2, HealPlaces DEF Loops, n
<1>4. CASE Kind[p] = "create"
  <2>1. n \in 1..19 /\ CreateSteps[n] = step
    BY <1>1, <1>4, CreatePlaces DEF StepsOf
  <2>2. CASE n <= 12
    <3>1. HealSteps[n] = step /\ n \in {1, 2, 3, 4, 5, 6, 7, 8, 9, 10, 11, 12}
      BY <2>1, <2>2, CreatePlaces
    <3> QED BY <1>4, <3>1, HealPlaces DEF Loops
  <2>3. CASE n > 12
    <3>1. \/ n = 13 \/ n = 14 \/ n = 15 \/ n = 16 \/ n = 17 \/ n = 18 \/ n = 19
      BY <2>1, <2>3
    <3>2. Loops(p)
      BY <1>4 DEF Loops
    <3>3. CASE n = 13 BY <1>4, <2>1, <3>2, <3>3, CreatePlaces
    <3>4. CASE n = 14 BY <1>4, <2>1, <3>2, <3>4, CreatePlaces
    <3>5. CASE n = 15 BY <1>4, <2>1, <3>2, <3>5, CreatePlaces
    <3>6. CASE n = 16 BY <1>4, <2>1, <3>2, <3>6, CreatePlaces
    <3>7. CASE n = 17 BY <1>4, <2>1, <3>2, <3>7, CreatePlaces
    <3>8. CASE n = 18 BY <1>4, <2>1, <3>2, <3>8, CreatePlaces
    <3>9. CASE n = 19 BY <1>4, <2>1, <3>2, <3>9, CreatePlaces
    <3> QED BY <3>1, <3>3, <3>4, <3>5, <3>6, <3>7, <3>8, <3>9
  <2>4. n <= 12 \/ n > 12
    BY <2>1
  <2> QED BY <2>2, <2>3, <2>4
<1>5. CASE Kind[p] = "update"
  <2>1. n \in 1..7 /\ UpdateSteps[n] = step
    BY <1>1, <1>5, UpdatePlaces DEF StepsOf
  <2>2. n \in {1, 2, 3, 4, 5, 6, 7}
    BY <2>1
  <2> HIDE DEF n
  <2> QED BY <1>5, <2>1, <2>2, UpdatePlaces DEF n
<1>6. CASE Kind[p] = "delete"
  <2>1. n \in 1..5 /\ DeleteSteps[n] = step
    BY <1>1, <1>6, DeletePlaces DEF StepsOf
  <2>2. n \in {1, 2, 3, 4, 5}
    BY <2>1
  <2> HIDE DEF n
  <2> QED BY <1>6, <2>1, <2>2, DeletePlaces DEF n
<1> QED BY <1>2, <1>3, <1>4, <1>5, <1>6

LEMMA Lengths ==
  ASSUME LifecycleAssumption, NEW p \in Process
  PROVE  /\ Kind[p] \in {"create", "update", "delete", "heal"}
         /\ Len(Steps[p]) = CASE Kind[p] = "create" -> 19
                              [] Kind[p] = "update" -> 7
                              [] Kind[p] = "delete" -> 5
                              [] Kind[p] = "heal" -> 12
<1>1. Kind[p] \in {"create", "update", "delete", "heal"}
  BY DEF LifecycleAssumption
<1> QED BY <1>1, HealPlaces, CreatePlaces, UpdatePlaces, DeletePlaces DEF Steps, StepsOf
-----------------------------------------------------------------------------
(* What a step does to what the processes have in hand.                    *)

\* A step of p that has begun touches no other hand.
Moves(p) ==
  /\ Active(p)
  /\ at' \in [Process -> Hand]
  /\ \A q \in Process : q # p => at'[q] = at[q]
  /\ latest' = latest

KeepsAgent(p) ==
  /\ at'[p].slug = at[p].slug /\ at'[p].was = at[p].was /\ at'[p].agent = at[p].agent
  /\ at'[p].leave = at[p].leave /\ at'[p].todo = at[p].todo
KeepsHand(p) ==
  /\ KeepsAgent(p)
  /\ at'[p].due = at[p].due /\ at'[p].com = at[p].com /\ at'[p].full = at[p].full
Halts(p) ==
  at'[p].phase \in {"raised", "stopped"} /\ at'[p].n = at[p].n /\ KeepsHand(p)
Advances(p) == at'[p].phase = "on" /\ at'[p].n = at[p].n + 1 /\ KeepsHand(p)

LEMMA Standing ==
  ASSUME TypeInv, HandsTyped, NEW p \in Process, Active(p)
  PROVE  /\ at[p] \in Hand /\ at[p].phase = "on" /\ at[p].n \in Nat /\ at[p].n >= 1
         /\ at[p].n <= Len(Steps[p])
<1>1. at[p] \in Hand /\ at[p].phase = "on" /\ at[p].n <= Len(Steps[p])
  BY DEF TypeInv, Active
<1>2. at[p].n \in Nat
  BY <1>1 DEF Hand
<1>3. Held(p)
  BY DEF HandsTyped
<1> QED BY <1>1, <1>2, <1>3 DEF Held

LEMMA RaiseEffect ==
  ASSUME TypeInv, NEW p \in Process, Active(p), Raise(p)
  PROVE  Moves(p) /\ Halts(p) /\ at'[p].phase = "raised"
<1>1. at[p] \in Hand /\ at' = [at EXCEPT ![p] = [at[p] EXCEPT !.phase = "raised"]] /\ latest' = latest
  BY DEF TypeInv, Raise
<1>2. [at[p] EXCEPT !.phase = "raised"] \in Hand
  BY <1>1 DEF Hand
<1>3. at' \in [Process -> Hand] /\ at'[p] = [at[p] EXCEPT !.phase = "raised"]
      /\ \A q \in Process : q # p => at'[q] = at[q]
  BY <1>1, <1>2 DEF TypeInv
<1> QED BY <1>1, <1>3 DEF Moves, Halts, KeepsHand, KeepsAgent, Hand

LEMMA GoToEffect ==
  ASSUME TypeInv, NEW p \in Process, Active(p), NEW l \in Hand, NEW n \in Nat, GoTo(p, l, n)
  PROVE  /\ Moves(p)
         /\ at'[p].phase = l.phase /\ at'[p].n = n /\ at'[p].due = l.due /\ at'[p].com = l.com
         /\ at'[p].full = l.full /\ at'[p].todo = l.todo /\ at'[p].slug = l.slug
         /\ at'[p].was = l.was /\ at'[p].agent = l.agent /\ at'[p].leave = l.leave
<1>1. at' = [at EXCEPT ![p] = [l EXCEPT !.n = n]] /\ latest' = latest
  BY DEF GoTo
<1>2. [l EXCEPT !.n = n] \in Hand
  BY DEF Hand
<1>3. at' \in [Process -> Hand] /\ at'[p] = [l EXCEPT !.n = n]
      /\ \A q \in Process : q # p => at'[q] = at[q]
  BY <1>1, <1>2 DEF TypeInv
<1> QED BY <1>1, <1>3 DEF Moves, Hand

LEMMA HereEffect ==
  ASSUME TypeInv, NEW p \in Process, Active(p), NEW n \in Nat, GoTo(p, at[p], n)
  PROVE  Moves(p) /\ at'[p].phase = "on" /\ at'[p].n = n /\ KeepsHand(p)
<1>1. at[p] \in Hand /\ at[p].phase = "on"
  BY DEF TypeInv, Active
<1> QED BY <1>1, GoToEffect DEF KeepsHand, KeepsAgent

LEMMA ProceedEffect ==
  ASSUME TypeInv, NEW p \in Process, Active(p), Proceed(p)
  PROVE  Moves(p) /\ Advances(p)
<1>1. at[p].n + 1 \in Nat /\ GoTo(p, at[p], at[p].n + 1)
  BY DEF TypeInv, Hand, Proceed, Go
<1> QED BY <1>1, HereEffect DEF Advances

LEMMA StopEffect ==
  ASSUME TypeInv, NEW p \in Process, Stop(p)
  PROVE  Moves(p) /\ Halts(p) /\ at'[p].phase = "stopped"
<1>1. at[p] \in Hand /\ at' = [at EXCEPT ![p] = [at[p] EXCEPT !.phase = "stopped"]]
      /\ latest' = latest /\ Active(p)
  BY DEF TypeInv, Stop
<1>2. [at[p] EXCEPT !.phase = "stopped"] \in Hand
  BY <1>1 DEF Hand
<1>3. at' \in [Process -> Hand] /\ at'[p] = [at[p] EXCEPT !.phase = "stopped"]
      /\ \A q \in Process : q # p => at'[q] = at[q]
  BY <1>1, <1>2 DEF TypeInv
<1> QED BY <1>1, <1>3 DEF Moves, Halts, KeepsHand, KeepsAgent, Hand

-----------------------------------------------------------------------------
(* Getting ready.                                                          *)

Readies(p) ==
  /\ at'[p].phase = "on" /\ at'[p].n = at[p].n + 1 /\ at'[p].due = at[p].due /\ KeepsAgent(p)

LEMMA EnsureOwnerEffect ==
  ASSUME LifecycleAssumption, TypeInv, HandsTyped, NEW p \in Process, EnsureOwner(p)
  PROVE  /\ Moves(p) /\ Kind[p] # "delete" /\ at[p].n = 1
         /\ UNCHANGED <<saved, env, unit, relay, runtime>> /\ community' \in Community
         /\ \/ Halts(p) /\ SystemMayFail /\ UNCHANGED community
            \/ /\ Readies(p)
               /\ IF at[p].com.owner
                    THEN at'[p].com = at[p].com /\ at'[p].full = at[p].full /\ UNCHANGED community
                    ELSE /\ at'[p].com.owner /\ at'[p].com.fleet = at[p].com.fleet
                         /\ community' = at'[p].com /\ at'[p].full = (Kind[p] # "update")
<1>1. Active(p) /\ at[p] \in Hand /\ at[p].phase = "on" /\ at[p].n \in Nat /\ at[p].n >= 1
  BY Standing DEF At, EnsureOwner
<1>2. Kind[p] # "delete" /\ at[p].n = 1
  BY <1>1, Places DEF EnsureOwner
<1>3. UNCHANGED <<saved, env, unit, relay, runtime>>
  BY DEF EnsureOwner
<1>4. CASE at[p].com.owner
  <2>1. Proceed(p) /\ UNCHANGED community
    BY <1>4 DEF EnsureOwner
  <2> QED BY <1>1, <1>2, <1>3, <1>4, <2>1, ProceedEffect
            DEF Advances, KeepsHand, Readies, TypeInv
<1>5. CASE ~at[p].com.owner
  <2> DEFINE com == [at[p].com EXCEPT !.owner = TRUE]
             l == [at[p] EXCEPT !.com = com, !.full = Kind[p] # "update"]
  <2>1. com \in Community /\ com.owner /\ com.fleet = at[p].com.fleet
    BY <1>1 DEF Hand, Community
  <2>2. CASE community' = com /\ Go(p, l)
    <3>1. l \in Hand /\ l.phase = "on" /\ l.n = at[p].n /\ l.due = at[p].due /\ l.com = com
          /\ l.full = (Kind[p] # "update") /\ l.todo = at[p].todo /\ l.slug = at[p].slug
          /\ l.was = at[p].was /\ l.agent = at[p].agent /\ l.leave = at[p].leave
      BY <1>1, <2>1 DEF Hand
    <3> HIDE DEF l, com
    <3>2. GoTo(p, l, at[p].n + 1) /\ at[p].n + 1 \in Nat
      BY <1>1, <2>2, <3>1 DEF Go
    <3>3. Moves(p) /\ Readies(p) /\ at'[p].com = com /\ at'[p].full = (Kind[p] # "update")
      BY <1>1, <3>1, <3>2, GoToEffect DEF Readies, KeepsAgent
    <3> QED BY <1>2, <1>3, <1>5, <2>1, <2>2, <3>3
  <2>3. CASE SystemFails(p) /\ UNCHANGED community
    BY <1>1, <1>2, <1>3, <2>3, RaiseEffect DEF SystemFails, TypeInv
  <2> QED BY <1>5, <2>2, <2>3 DEF EnsureOwner
<1> QED BY <1>4, <1>5

LEMMA EnsureLingerEffect ==
  ASSUME LifecycleAssumption, TypeInv, HandsTyped, NEW p \in Process, EnsureLinger(p)
  PROVE  /\ Moves(p) /\ Loops(p) /\ at[p].n = 2 /\ UNCHANGED stores
         /\ (Halts(p) /\ SystemMayFail) \/ Advances(p)
<1>1. Active(p) /\ at[p].n \in Nat /\ at[p].n >= 1
  BY Standing DEF At, EnsureLinger
<1>2. Loops(p) /\ at[p].n = 2
  BY <1>1, Places DEF EnsureLinger
<1> QED BY <1>1, <1>2, ProceedEffect, RaiseEffect DEF EnsureLinger, SystemFails

LEMMA InstallEffect ==
  ASSUME LifecycleAssumption, TypeInv, HandsTyped, NEW p \in Process,
         NEW part \in {"template", "acp"}, Install(p, part)
  PROVE  /\ Moves(p) /\ Loops(p) /\ at[p].n = (IF part = "template" THEN 3 ELSE 4)
         /\ UNCHANGED <<saved, env, unit, relay, community>>
         /\ \/ Halts(p) /\ SystemMayFail /\ UNCHANGED runtime
            \/ /\ Readies(p) /\ runtime' = runtime \cup {part}
               /\ at'[p].com = at[p].com /\ at'[p].full = (at[p].full \/ part \notin runtime)
<1>1. Active(p) /\ at[p] \in Hand /\ at[p].phase = "on" /\ at[p].n \in Nat /\ at[p].n >= 1
  BY Standing DEF At, Install
<1>2. Loops(p) /\ at[p].n = (IF part = "template" THEN 3 ELSE 4)
  BY <1>1, Places DEF Install
<1>3. UNCHANGED <<saved, env, unit, relay, community>>
  BY DEF Install
<1> DEFINE full == at[p].full \/ part \notin runtime
           l == [at[p] EXCEPT !.full = full]
<1>4. CASE runtime' = runtime \cup {part} /\ Go(p, l)
  <2>1. l \in Hand /\ l.phase = "on" /\ l.n = at[p].n /\ l.due = at[p].due /\ l.com = at[p].com
        /\ l.full = full /\ l.todo = at[p].todo /\ l.slug = at[p].slug
        /\ l.was = at[p].was /\ l.agent = at[p].agent /\ l.leave = at[p].leave
    BY <1>1 DEF Hand
  <2> HIDE DEF l, full
  <2>2. GoTo(p, l, at[p].n + 1) /\ at[p].n + 1 \in Nat
    BY <1>1, <1>4, <2>1 DEF Go
  <2>3. Moves(p) /\ Readies(p) /\ at'[p].com = at[p].com /\ at'[p].full = full
    BY <1>1, <2>1, <2>2, GoToEffect DEF Readies, KeepsAgent
  <2> QED BY <1>2, <1>3, <1>4, <2>3 DEF full
<1>5. CASE SystemMayFail /\ Raise(p) /\ UNCHANGED runtime
  BY <1>1, <1>2, <1>3, <1>5, RaiseEffect
<1> QED BY <1>4, <1>5 DEF Install

LEMMA EnsureFleetEffect ==
  ASSUME LifecycleAssumption, TypeInv, HandsTyped, NEW p \in Process, EnsureFleet(p)
  PROVE  /\ Moves(p) /\ Loops(p) /\ at[p].n = 5
         /\ UNCHANGED <<saved, env, unit, relay, runtime>>
         /\ Readies(p) /\ at'[p].full = at[p].full
         /\ at'[p].com \in Community /\ at'[p].com.owner = at[p].com.owner
         /\ community' \in {community, at'[p].com}
<1>1. Active(p) /\ at[p] \in Hand /\ at[p].phase = "on" /\ at[p].n \in Nat /\ at[p].n >= 1
  BY Standing DEF At, EnsureFleet
<1>2. Loops(p) /\ at[p].n = 5
  BY <1>1, Places DEF EnsureFleet
<1>3. UNCHANGED <<saved, env, unit, relay, runtime>>
  BY DEF EnsureFleet
<1>4. CASE Proceed(p) /\ UNCHANGED community
  BY <1>1, <1>2, <1>3, <1>4, ProceedEffect DEF Advances, KeepsHand, Readies, Hand
<1> DEFINE com == [at[p].com EXCEPT !.fleet = TRUE]
           l == [at[p] EXCEPT !.com = com]
<1>5. CASE community' \in {community, com} /\ Go(p, l)
  <2>1. com \in Community /\ com.owner = at[p].com.owner
    BY <1>1 DEF Hand, Community
  <2>2. l \in Hand /\ l.phase = "on" /\ l.n = at[p].n /\ l.due = at[p].due /\ l.com = com
        /\ l.full = at[p].full /\ l.todo = at[p].todo /\ l.slug = at[p].slug
        /\ l.was = at[p].was /\ l.agent = at[p].agent /\ l.leave = at[p].leave
    BY <1>1, <2>1 DEF Hand
  <2> HIDE DEF l, com
  <2>3. GoTo(p, l, at[p].n + 1) /\ at[p].n + 1 \in Nat
    BY <1>1, <1>5, <2>2 DEF Go
  <2>4. Moves(p) /\ Readies(p) /\ at'[p].com = com /\ at'[p].full = at[p].full
    BY <1>1, <2>2, <2>3, GoToEffect DEF Readies, KeepsAgent
  <2> QED BY <1>2, <1>3, <1>5, <2>1, <2>4
<1> QED BY <1>4, <1>5 DEF EnsureFleet, RelayFails

LEMMA ListEffect ==
  ASSUME LifecycleAssumption, TypeInv, HandsTyped, NEW p \in Process, List(p)
  PROVE  /\ Moves(p) /\ Loops(p) /\ at[p].n = 6 /\ UNCHANGED stores
         /\ at'[p].phase = "on" /\ at'[p].n = 7 /\ at'[p].due = at[p].due
         /\ at'[p].todo = saved /\ at'[p].com = at[p].com /\ at'[p].full = at[p].full
<1>1. Active(p) /\ at[p] \in Hand /\ at[p].phase = "on" /\ at[p].n \in Nat /\ at[p].n >= 1
  BY Standing DEF At, List
<1>2. Loops(p) /\ at[p].n = 6
  BY <1>1, Places DEF List
<1> DEFINE l == [at[p] EXCEPT !.todo = saved]
<1>3. l \in Hand /\ l.phase = "on" /\ l.n = 6 /\ l.due = at[p].due /\ l.com = at[p].com
      /\ l.full = at[p].full /\ l.todo = saved
  BY <1>1, <1>2 DEF Hand, TypeInv
<1>4. Go(p, l) /\ UNCHANGED stores
  BY DEF List
<1> HIDE DEF l
<1>5. GoTo(p, l, 7)
  BY <1>3, <1>4 DEF Go
<1> QED BY <1>1, <1>2, <1>3, <1>4, <1>5, GoToEffect

\* One agent of the list into the hand.
Takes(p, s) ==
  /\ at[p].todo[s] # None
  /\ at'[p].phase = "on" /\ at'[p].n = 8 /\ at'[p].due = at[p].due
  /\ at'[p].com = at[p].com /\ at'[p].full = at[p].full
  /\ at'[p].slug = s /\ at'[p].was = at[p].todo[s] /\ at'[p].agent = at[p].todo[s]
  /\ at'[p].todo = [at[p].todo EXCEPT ![s] = None]

LEMMA NextAgentEffect ==
  ASSUME LifecycleAssumption, TypeInv, HandsTyped, NEW p \in Process, NextAgent(p)
  PROVE  /\ Moves(p) /\ Loops(p) /\ at[p].n = 7 /\ at[p].due = {} /\ UNCHANGED stores
         /\ \/ /\ \A s \in Slug : at[p].todo[s] = None
               /\ at'[p].phase = "on" /\ at'[p].n = 13 /\ KeepsHand(p)
            \/ \E s \in Slug : Takes(p, s)
<1>0. At(p, "next") /\ at[p].due = {}
  BY DEF NextAgent, At
<1>1. Active(p) /\ at[p] \in Hand /\ at[p].phase = "on" /\ at[p].n \in Nat /\ at[p].n >= 1
  BY <1>0, Standing DEF At
<1>2. Loops(p) /\ at[p].n = 7
  BY <1>0, <1>1, Places
<1>3. UNCHANGED stores
  BY DEF NextAgent
<1>4. CASE (\A s \in Slug : at[p].todo[s] = None) /\ GoTo(p, at[p], LoopEnd)
  <2>1. LoopEnd = 13
    BY HealPlaces
  <2> QED BY <1>0, <1>1, <1>2, <1>3, <1>4, <2>1, HereEffect
<1>5. ASSUME NEW s \in Slug, at[p].todo[s] # None,
             Go(p, [at[p] EXCEPT !.slug = s, !.was = at[p].todo[s], !.agent = at[p].todo[s],
                                 !.todo[s] = None])
      PROVE  Moves(p) /\ Takes(p, s)
  <2> DEFINE rest == [at[p].todo EXCEPT ![s] = None]
             l == [at[p] EXCEPT !.slug = s, !.was = at[p].todo[s], !.agent = at[p].todo[s],
                                !.todo = rest]
  <2>1. rest \in [Slug -> AgentRecord \cup {None}] /\ at[p].todo[s] \in AgentRecord \cup {None}
    BY <1>1 DEF Hand
  <2>2. [at[p] EXCEPT !.slug = s, !.was = at[p].todo[s], !.agent = at[p].todo[s], !.todo[s] = None] = l
    BY <1>1 DEF Hand
  <2> HIDE DEF rest
  <2>3. l \in Hand /\ l.phase = "on" /\ l.n = 7 /\ l.due = at[p].due /\ l.com = at[p].com
        /\ l.full = at[p].full /\ l.todo = rest /\ l.slug = s /\ l.was = at[p].todo[s]
        /\ l.agent = at[p].todo[s]
    BY <1>1, <1>2, <2>1 DEF Hand
  <2>4. Go(p, l)
    BY <1>5, <2>2
  <2> HIDE DEF l
  <2>5. GoTo(p, l, 8)
    BY <2>3, <2>4 DEF Go
  <2> QED BY <1>1, <1>5, <2>3, <2>5, GoToEffect DEF Takes, rest
<1>6. \/ (\A s \in Slug : at[p].todo[s] = None) /\ GoTo(p, at[p], LoopEnd)
      \/ \E s \in Slug :
           /\ at[p].todo[s] # None
           /\ Go(p, [at[p] EXCEPT !.slug = s, !.was = at[p].todo[s], !.agent = at[p].todo[s],
                                  !.todo[s] = None])
  BY DEF NextAgent
<1> QED BY <1>0, <1>1, <1>2, <1>3, <1>4, <1>5, <1>6

LEMMA CheckEffect ==
  ASSUME LifecycleAssumption, TypeInv, HandsTyped, NEW p \in Process, Check(p)
  PROVE  /\ Moves(p) /\ Loops(p) /\ at[p].n = 10 /\ UNCHANGED stores
         /\ at'[p].phase = "on" /\ KeepsHand(p)
         /\ IF NeedsRefresh(p) THEN at'[p].n = 11 ELSE at'[p].n = 7
<1>1. Active(p) /\ at[p] \in Hand /\ at[p].n \in Nat /\ at[p].n >= 1
  BY Standing DEF At, Check
<1>2. Loops(p) /\ at[p].n = 10
  BY <1>1, Places DEF Check
<1>3. CASE NeedsRefresh(p)
  BY <1>1, <1>2, <1>3, ProceedEffect DEF Check, Advances
<1>4. CASE ~NeedsRefresh(p)
  BY <1>1, <1>2, <1>4, HealPlaces, HereEffect DEF Check
<1> QED BY <1>3, <1>4

LEMMA CheckNameEffect ==
  ASSUME LifecycleAssumption, TypeInv, HandsTyped, NEW p \in Process, CheckName(p)
  PROVE  /\ Moves(p) /\ Kind[p] = "create" /\ at[p].n = 13 /\ UNCHANGED stores
         /\ Halts(p) \/ Advances(p)
<1>1. Active(p) /\ at[p].n \in Nat /\ at[p].n >= 1
  BY Standing DEF At, CheckName
<1>2. Kind[p] = "create" /\ at[p].n = 13
  BY <1>1, Places DEF CheckName
<1> QED BY <1>1, <1>2, ProceedEffect, RaiseEffect DEF CheckName

-----------------------------------------------------------------------------
(* Publishing.                                                             *)

LEMMA SyncEffect ==
  ASSUME LifecycleAssumption, TypeInv, HandsTyped, NEW p \in Process, Sync(p)
  PROVE  /\ Moves(p) /\ UNCHANGED stores
         /\ \/ Loops(p) /\ at[p].n = 8
            \/ Kind[p] = "create" /\ at[p].n = 17
            \/ Kind[p] = "update" /\ at[p].n = 4
         /\ at'[p].phase = "on" /\ at'[p].n = at[p].n + 1 /\ KeepsAgent(p)
         /\ at'[p].due # {} => at[p].agent.managed
         /\ at'[p].com = at[p].com /\ at'[p].full = at[p].full
<1>1. Active(p) /\ at[p] \in Hand /\ at[p].phase = "on" /\ at[p].n \in Nat /\ at[p].n >= 1
  BY Standing DEF At, Sync
<1>2. \/ Loops(p) /\ at[p].n = 8
      \/ Kind[p] = "create" /\ at[p].n = 17
      \/ Kind[p] = "update" /\ at[p].n = 4
  BY <1>1, Places DEF Sync
<1> DEFINE due == {i \in Item : Due(p, i)}
           l == [at[p] EXCEPT !.due = due]
<1>3. due \in SUBSET Item /\ (due # {} => at[p].agent.managed)
  BY DEF Due
<1>4. Go(p, l) /\ UNCHANGED stores
  BY DEF Sync
<1> HIDE DEF due
<1>5. l \in Hand /\ l.phase = "on" /\ l.n = at[p].n /\ l.due = due /\ l.com = at[p].com
      /\ l.full = at[p].full /\ l.todo = at[p].todo /\ l.slug = at[p].slug
      /\ l.was = at[p].was /\ l.agent = at[p].agent /\ l.leave = at[p].leave
  BY <1>1, <1>3 DEF Hand
<1> HIDE DEF l
<1>6. GoTo(p, l, at[p].n + 1) /\ at[p].n + 1 \in Nat
  BY <1>1, <1>4, <1>5 DEF Go
<1> QED BY <1>1, <1>2, <1>3, <1>4, <1>5, <1>6, GoToEffect DEF KeepsAgent

\* The agent in hand, with one publication marked.
Marks(p, item, mark) ==
  /\ at'[p].phase = "on" /\ at'[p].n = at[p].n /\ at'[p].due = at[p].due \ {item}
  /\ at'[p].com = at[p].com /\ at'[p].full = at[p].full /\ at'[p].todo = at[p].todo
  /\ at'[p].slug = at[p].slug /\ at'[p].was = at[p].was /\ at'[p].leave = at[p].leave
  /\ at'[p].agent \in AgentRecord /\ Same(at'[p].agent, at[p].agent)
  /\ at'[p].agent.state = [at[p].agent.state EXCEPT ![item] = mark]

LEMMA MarkedEffect ==
  ASSUME TypeInv, NEW p \in Process, Active(p), at[p].agent # None,
         NEW item \in Item, NEW mark \in Mark, Marked(p, item, mark)
  PROVE  Moves(p) /\ Marks(p, item, mark)
<1>1. at[p] \in Hand /\ at[p].phase = "on" /\ at[p].agent \in AgentRecord
  BY DEF TypeInv, Active, Hand
<1> DEFINE state == [at[p].agent.state EXCEPT ![item] = mark]
           a == [at[p].agent EXCEPT !.state = state]
           l == [at[p] EXCEPT !.agent = a, !.due = @ \ {item}]
<1>2. at' = [at EXCEPT ![p].agent.state[item] = mark, ![p].due = @ \ {item}] /\ latest' = latest
  BY DEF Marked
<1>3. at' = [at EXCEPT ![p] = l]
  BY <1>1, <1>2 DEF TypeInv, Hand, AgentRecord
<1>4. state \in [Item -> Mark]
  BY <1>1 DEF AgentRecord
<1> HIDE DEF state
<1>5. a \in AgentRecord /\ Same(a, at[p].agent) /\ a.state = state
  BY <1>1, <1>4 DEF AgentRecord, Same
<1> HIDE DEF a
<1>6. l \in Hand /\ l.phase = "on" /\ l.n = at[p].n /\ l.due = at[p].due \ {item} /\ l.com = at[p].com
      /\ l.full = at[p].full /\ l.todo = at[p].todo /\ l.slug = at[p].slug
      /\ l.was = at[p].was /\ l.agent = a /\ l.leave = at[p].leave
  BY <1>1, <1>5 DEF Hand
<1> HIDE DEF l
<1>7. at' \in [Process -> Hand] /\ at'[p] = l /\ \A q \in Process : q # p => at'[q] = at[q]
  BY <1>3, <1>6 DEF TypeInv
<1> QED BY <1>2, <1>5, <1>6, <1>7 DEF Moves, Marks, state

\* What a publication may do to the relay: nothing, or the whole of it.
LEMMA PublishEffect ==
  ASSUME LifecycleAssumption, TypeInv, HandsTyped, NEW p \in Process, NEW item \in Item,
         Publish(p, item)
  PROVE  /\ Moves(p) /\ UNCHANGED <<saved, env, unit, community, runtime>>
         /\ \/ Loops(p) /\ at[p].n = 9
            \/ Kind[p] = "create" /\ at[p].n = 18
            \/ Kind[p] = "update" /\ at[p].n = 5
         /\ at[p].agent \in AgentRecord /\ at[p].agent.managed
         /\ \E mark \in Mark :
              /\ Marks(p, item, mark)
              /\ relay' = Published(p, item) \/ (mark # "done" /\ RelayMayFail /\ relay' = relay)
<1>1. Active(p) /\ at[p] \in Hand /\ item \in at[p].due
  BY DEF TypeInv, Publish
<1>2. /\ at[p].agent # None /\ at[p].agent.managed
      /\ \/ Loops(p) /\ at[p].n = 9
         \/ Kind[p] = "create" /\ at[p].n = 18
         \/ Kind[p] = "update" /\ at[p].n = 5
  BY <1>1 DEF HandsTyped, Held
<1>3. at[p].agent \in AgentRecord
  BY <1>1, <1>2 DEF Hand
<1>4. UNCHANGED <<saved, env, unit, community, runtime>>
  BY DEF Publish
<1>5. \E mark \in Mark :
        /\ Marked(p, item, mark)
        /\ relay' = Published(p, item) \/ (mark # "done" /\ RelayMayFail /\ relay' = relay)
  <2>1. CASE relay' = Published(p, item) /\ Marked(p, item, "done")
    BY <2>1 DEF Mark
  <2>2. CASE /\ RelayMayFail /\ relay' \in {relay, Published(p, item)}
             /\ Marked(p, item, IF item \in Channel THEN "pending" ELSE "todo")
    <3> DEFINE mark == IF item \in Channel THEN "pending" ELSE "todo"
    <3>1. mark \in Mark /\ mark # "done"
      BY DEF Mark
    <3> QED BY <2>2, <3>1
  <2>3. CASE RelayMayFail /\ UNCHANGED relay /\ Marked(p, item, "error")
    BY <2>3 DEF Mark
  <2> QED BY <2>1, <2>2, <2>3 DEF Publish
<1>6. PICK mark \in Mark :
        /\ Marked(p, item, mark)
        /\ relay' = Published(p, item) \/ (mark # "done" /\ RelayMayFail /\ relay' = relay)
  BY <1>5
<1>7. Moves(p) /\ Marks(p, item, mark)
  BY <1>1, <1>2, <1>6, MarkedEffect
<1> QED BY <1>2, <1>3, <1>4, <1>6, <1>7

-----------------------------------------------------------------------------
(* Taking an agent in hand.                                                *)

\* A create takes a free slug.
Mints(p) ==
  /\ at'[p].phase = "on" /\ at'[p].n = 15 /\ at'[p].due = at[p].due
  /\ at'[p].com = at[p].com /\ at'[p].full = at[p].full
  /\ at'[p].slug \in Slug /\ saved[at'[p].slug] = None
  /\ at'[p].agent = Agent(p, Asked[p]) /\ at'[p].agent \in AgentRecord

LEMMA MintEffect ==
  ASSUME LifecycleAssumption, TypeInv, HandsTyped, NEW p \in Process, Mint(p)
  PROVE  /\ Moves(p) /\ Kind[p] = "create" /\ at[p].n = 14 /\ UNCHANGED stores
         /\ (Halts(p) /\ SystemMayFail) \/ Mints(p)
<1>0. At(p, "mint")
  BY DEF Mint
<1>1. Active(p) /\ at[p] \in Hand /\ at[p].phase = "on" /\ at[p].n \in Nat /\ at[p].n >= 1
  BY <1>0, Standing DEF At
<1>2. Kind[p] = "create" /\ at[p].n = 14
  BY <1>0, <1>1, Places
<1> DEFINE a == Agent(p, Asked[p])
<1>3. a \in AgentRecord
  <2>1. p \in Key /\ Asked[p] \in Config
    BY <1>2 DEF LifecycleAssumption
  <2>2. Unpublished \in [Item -> Mark]
    BY DEF Unpublished, Mark
  <2> QED BY <2>1, <2>2 DEF Agent, AgentRecord
<1>4. UNCHANGED stores
  BY DEF Mint
<1>5. ASSUME NEW s \in Slug, saved[s] = None,
             Go(p, [at[p] EXCEPT !.slug = s, !.was = a, !.agent = a])
      PROVE  Moves(p) /\ Mints(p)
  <2> DEFINE l == [at[p] EXCEPT !.slug = s, !.was = a, !.agent = a]
  <2>1. Go(p, l)
    BY <1>5
  <2> HIDE DEF a
  <2>2. l \in Hand /\ l.phase = "on" /\ l.n = 14 /\ l.due = at[p].due /\ l.com = at[p].com
        /\ l.full = at[p].full /\ l.slug = s /\ l.agent = a
    BY <1>1, <1>2, <1>3 DEF Hand
  <2> HIDE DEF l
  <2>3. GoTo(p, l, 15)
    BY <2>1, <2>2 DEF Go
  <2>4. Moves(p) /\ at'[p].phase = "on" /\ at'[p].n = 15 /\ at'[p].due = at[p].due
        /\ at'[p].com = at[p].com /\ at'[p].full = at[p].full /\ at'[p].slug = s /\ at'[p].agent = a
    BY <1>1, <2>2, <2>3, GoToEffect
  <2> QED BY <1>3, <1>5, <2>4 DEF Mints, a
<1>6. SystemFails(p) \/ \E s \in Slug : saved[s] = None /\ Go(p, [at[p] EXCEPT !.slug = s, !.was = a, !.agent = a])
  BY DEF Mint, FreeSlug
<1>7. CASE SystemFails(p)
  BY <1>1, <1>2, <1>4, <1>7, RaiseEffect DEF SystemFails
<1> QED BY <1>2, <1>4, <1>5, <1>6, <1>7

\* An update or a delete takes the record of its target.
Loads(p) ==
  /\ at'[p].phase = "on" /\ at'[p].n = at[p].n + 1 /\ at'[p].due = at[p].due
  /\ at'[p].com = at[p].com /\ at'[p].full = at[p].full
  /\ at'[p].slug = Target[p] /\ Target[p] \in Slug /\ saved[Target[p]] # None
  /\ at'[p].agent \in AgentRecord
  /\ IF Kind[p] = "update"
       THEN /\ at'[p].agent = Updated(p, saved[Target[p]])
            /\ at'[p].leave = IF saved[Target[p]].managed
                                THEN saved[Target[p]].cfg["channels"] \ at'[p].agent.cfg["channels"]
                                ELSE {}
       ELSE at'[p].agent = saved[Target[p]]

LEMMA UpdatedAgent ==
  ASSUME LifecycleAssumption, NEW p \in Process, Kind[p] = "update", NEW a \in AgentRecord
  PROVE  /\ Updated(p, a) \in AgentRecord
         /\ Updated(p, a).key = a.key /\ Updated(p, a).managed = a.managed
         /\ Updated(p, a).cfg = NewConfig(p, a.cfg)
         /\ Updated(p, a).state = IF a.managed THEN Reset(a, NewConfig(p, a.cfg)) ELSE a.state
<1> DEFINE cfg == NewConfig(p, a.cfg)
<1>1. cfg \in Config
  BY DEF LifecycleAssumption, AgentRecord
<1>2. Reset(a, cfg) \in [Item -> Mark]
  <2>1. a.state \in [Item -> Mark]
    BY DEF AgentRecord
  <2> QED BY <2>1 DEF Reset, Mark
<1> HIDE DEF cfg
<1>3. /\ [a EXCEPT !.cfg = cfg, !.state = IF a.managed THEN Reset(a, cfg) ELSE @] \in AgentRecord
      /\ [a EXCEPT !.cfg = cfg, !.state = IF a.managed THEN Reset(a, cfg) ELSE @].key = a.key
      /\ [a EXCEPT !.cfg = cfg, !.state = IF a.managed THEN Reset(a, cfg) ELSE @].managed = a.managed
      /\ [a EXCEPT !.cfg = cfg, !.state = IF a.managed THEN Reset(a, cfg) ELSE @].cfg = cfg
      /\ [a EXCEPT !.cfg = cfg, !.state = IF a.managed THEN Reset(a, cfg) ELSE @].state =
           IF a.managed THEN Reset(a, cfg) ELSE a.state
  BY <1>1, <1>2 DEF AgentRecord
<1> QED BY <1>3 DEF Updated, cfg

LEMMA LoadEffect ==
  ASSUME LifecycleAssumption, TypeInv, HandsTyped, NEW p \in Process, Load(p)
  PROVE  /\ Moves(p) /\ UNCHANGED stores
         /\ (Kind[p] = "update" /\ at[p].n = 2) \/ (Kind[p] = "delete" /\ at[p].n = 1)
         /\ Halts(p) \/ Loads(p)
<1>1. Active(p) /\ at[p] \in Hand /\ at[p].phase = "on" /\ at[p].n \in Nat /\ at[p].n >= 1
  BY Standing DEF At, Load
<1>2. (Kind[p] = "update" /\ at[p].n = 2) \/ (Kind[p] = "delete" /\ at[p].n = 1)
  BY <1>1, Places DEF Load
<1>3. UNCHANGED stores
  BY DEF Load
<1> DEFINE s == Target[p]
           a == saved[s]
           b == Updated(p, a)
           leave == IF a.managed THEN a.cfg["channels"] \ b.cfg["channels"] ELSE {}
<1>4. s \in Slug /\ a \in AgentRecord \cup {None}
  BY <1>2 DEF LifecycleAssumption, TypeInv
<1>5. CASE a = None
  BY <1>1, <1>2, <1>3, <1>5, RaiseEffect DEF Load
<1>6. CASE a # None /\ Kind[p] = "update"
  <2> DEFINE l == [at[p] EXCEPT !.slug = s, !.was = a, !.agent = b, !.leave = leave]
  <2>1. Go(p, l)
    BY <1>6 DEF Load
  <2>2. a \in AgentRecord /\ b \in AgentRecord
    BY <1>4, <1>6, UpdatedAgent
  <2>3. leave \in SUBSET Channel
    BY <2>2 DEF LifecycleAssumption, AgentRecord
  <2> HIDE DEF b, leave, a, s
  <2>4. l \in Hand /\ l.phase = "on" /\ l.n = at[p].n /\ l.due = at[p].due /\ l.com = at[p].com
        /\ l.full = at[p].full /\ l.slug = s /\ l.agent = b /\ l.leave = leave
    BY <1>1, <1>4, <2>2, <2>3 DEF Hand
  <2> HIDE DEF l
  <2>5. GoTo(p, l, at[p].n + 1) /\ at[p].n + 1 \in Nat
    BY <1>1, <2>1, <2>4 DEF Go
  <2>6. Moves(p) /\ at'[p].phase = "on" /\ at'[p].n = at[p].n + 1 /\ at'[p].due = at[p].due
        /\ at'[p].com = at[p].com /\ at'[p].full = at[p].full /\ at'[p].slug = s /\ at'[p].agent = b
        /\ at'[p].leave = leave
    BY <1>1, <2>4, <2>5, GoToEffect
  <2> QED BY <1>2, <1>3, <1>4, <1>6, <2>2, <2>6 DEF Loads, s, a, b, leave
<1>7. CASE a # None /\ Kind[p] # "update"
  <2> DEFINE l == [at[p] EXCEPT !.slug = s, !.was = a, !.agent = a]
  <2>1. Go(p, l)
    BY <1>7 DEF Load
  <2>2. a \in AgentRecord
    BY <1>4, <1>7
  <2> HIDE DEF a, s
  <2>4. l \in Hand /\ l.phase = "on" /\ l.n = at[p].n /\ l.due = at[p].due /\ l.com = at[p].com
        /\ l.full = at[p].full /\ l.slug = s /\ l.agent = a
    BY <1>1, <1>4, <2>2 DEF Hand
  <2> HIDE DEF l
  <2>5. GoTo(p, l, at[p].n + 1) /\ at[p].n + 1 \in Nat
    BY <1>1, <2>1, <2>4 DEF Go
  <2>6. Moves(p) /\ at'[p].phase = "on" /\ at'[p].n = at[p].n + 1 /\ at'[p].due = at[p].due
        /\ at'[p].com = at[p].com /\ at'[p].full = at[p].full /\ at'[p].slug = s /\ at'[p].agent = a
    BY <1>1, <2>4, <2>5, GoToEffect
  <2> QED BY <1>2, <1>3, <1>4, <1>7, <2>2, <2>6 DEF Loads, s, a
<1> QED BY <1>5, <1>6, <1>7

-----------------------------------------------------------------------------
(* Steps that touch a store.                                               *)

LEMMA SaveEffect ==
  ASSUME LifecycleAssumption, TypeInv, HandsTyped, NEW p \in Process, Save(p)
  PROVE  /\ Moves(p) /\ Advances(p)
         /\ \/ Kind[p] = "create" /\ at[p].n \in {16, 18}
            \/ Kind[p] = "update" /\ at[p].n = 7
         /\ at[p].slug \in Slug /\ at[p].agent \in AgentRecord
         /\ saved' = [saved EXCEPT ![at[p].slug] = at[p].agent]
         /\ UNCHANGED <<env, unit, relay, community, runtime>>
<1>0. At(p, "save") /\ Proceed(p) /\ saved' = [saved EXCEPT ![at[p].slug] = at[p].agent]
      /\ UNCHANGED <<env, unit, relay, community, runtime>>
  BY DEF Save
<1>1. Active(p) /\ at[p] \in Hand /\ at[p].n \in Nat /\ at[p].n >= 1
  BY <1>0, Standing DEF At
<1>2. \/ Kind[p] = "create" /\ at[p].n \in {16, 18}
      \/ Kind[p] = "update" /\ at[p].n = 7
  BY <1>0, <1>1, Places
<1>3. at[p].slug \in Slug /\ at[p].agent # None
  BY <1>2 DEF HandsTyped, Held, Minted, Updating
<1> QED BY <1>0, <1>1, <1>2, <1>3, ProceedEffect DEF Hand

LEMMA KeepEffect ==
  ASSUME LifecycleAssumption, TypeInv, HandsTyped, NEW p \in Process, Keep(p)
  PROVE  /\ Moves(p) /\ Advances(p) /\ Loops(p) /\ at[p].n = 9
         /\ at[p].slug \in Slug /\ at[p].agent \in AgentRecord
         /\ saved' = saved \/ saved' = [saved EXCEPT ![at[p].slug] = at[p].agent]
         /\ UNCHANGED <<env, unit, relay, community, runtime>>
<1>0. At(p, "keep") /\ Proceed(p) /\ UNCHANGED <<env, unit, relay, community, runtime>>
      /\ (saved' = saved \/ saved' = [saved EXCEPT ![at[p].slug] = at[p].agent])
  BY DEF Keep
<1>1. Active(p) /\ at[p] \in Hand /\ at[p].n \in Nat /\ at[p].n >= 1
  BY <1>0, Standing DEF At
<1>2. Loops(p) /\ at[p].n = 9
  BY <1>0, <1>1, Places
<1>3. at[p].slug \in Slug /\ at[p].agent # None
  BY <1>2 DEF HandsTyped, Held, InBody
<1> QED BY <1>0, <1>1, <1>2, <1>3, ProceedEffect DEF Hand

LEMMA WriteFilesEffect ==
  ASSUME LifecycleAssumption, TypeInv, HandsTyped, NEW p \in Process, WriteFiles(p)
  PROVE  /\ Moves(p)
         /\ \/ Loops(p) /\ at[p].n = 11
            \/ Kind[p] = "create" /\ at[p].n = 15
            \/ Kind[p] = "update" /\ at[p].n = 5
         /\ at[p].slug \in Slug /\ at[p].agent \in AgentRecord
         /\ UNCHANGED <<saved, unit, relay, community, runtime>>
         /\ \/ Halts(p) /\ at'[p].phase = "raised" /\ SystemMayFail /\ UNCHANGED env
            \/ /\ Advances(p)
               /\ \E file \in EnvRecord :
                    /\ file.key = at[p].agent.key /\ file.cfg = at[p].agent.cfg
                    /\ file.tag => at[p].agent.managed
                    /\ SystemMayFail \/ file.tag = at[p].agent.managed
                    /\ file.owner = at[p].com.owner /\ file.fleet = at[p].com.fleet /\ file.current
                    /\ env' = [env EXCEPT ![at[p].slug] = file]
<1>0. At(p, "files") /\ UNCHANGED <<saved, unit, relay, community, runtime>>
  BY DEF WriteFiles
<1>1. Active(p) /\ at[p] \in Hand /\ at[p].n \in Nat /\ at[p].n >= 1
  BY <1>0, Standing DEF At
<1>2. \/ Loops(p) /\ at[p].n = 11
      \/ Kind[p] = "create" /\ at[p].n = 15
      \/ Kind[p] = "update" /\ at[p].n = 5
  BY <1>0, <1>1, Places
<1>3. at[p].slug \in Slug /\ at[p].agent # None
  BY <1>2 DEF HandsTyped, Held, InBody, Minted, Updating
<1>4. at[p].agent \in AgentRecord /\ at[p].com \in Community
  BY <1>1, <1>3 DEF Hand
<1> DEFINE file(tag) == [EnvFile(at[p].agent, at[p].com) EXCEPT !.tag = tag]
<1>5. ASSUME NEW tag \in {at[p].agent.managed} \cup (IF SystemMayFail THEN {FALSE} ELSE {})
      PROVE  /\ file(tag) \in EnvRecord
             /\ file(tag).key = at[p].agent.key /\ file(tag).cfg = at[p].agent.cfg
             /\ file(tag).tag => at[p].agent.managed
             /\ SystemMayFail \/ file(tag).tag = at[p].agent.managed
             /\ file(tag).owner = at[p].com.owner /\ file(tag).fleet = at[p].com.fleet
             /\ file(tag).current
  <2>1. tag \in BOOLEAN /\ (tag => at[p].agent.managed) /\ (SystemMayFail \/ tag = at[p].agent.managed)
    BY <1>4, <1>5 DEF AgentRecord
  <2> DEFINE e == EnvFile(at[p].agent, at[p].com)
  <2>2. /\ e \in EnvRecord /\ e.key = at[p].agent.key /\ e.cfg = at[p].agent.cfg
        /\ e.owner = at[p].com.owner /\ e.fleet = at[p].com.fleet /\ e.current
    BY <1>4 DEF EnvFile, EnvRecord, AgentRecord, Community
  <2> HIDE DEF e
  <2>3. /\ [e EXCEPT !.tag = tag] \in EnvRecord /\ [e EXCEPT !.tag = tag].tag = tag
        /\ [e EXCEPT !.tag = tag].key = e.key /\ [e EXCEPT !.tag = tag].cfg = e.cfg
        /\ [e EXCEPT !.tag = tag].owner = e.owner /\ [e EXCEPT !.tag = tag].fleet = e.fleet
        /\ [e EXCEPT !.tag = tag].current = e.current
    BY <2>1, <2>2 DEF EnvRecord
  <2> QED BY <2>1, <2>2, <2>3 DEF e
<1>6. CASE SystemFails(p) /\ UNCHANGED env
  BY <1>0, <1>1, <1>2, <1>3, <1>4, <1>6, RaiseEffect DEF SystemFails
<1>7. CASE /\ \E tag \in {at[p].agent.managed} \cup (IF SystemMayFail THEN {FALSE} ELSE {}) :
                env' = [env EXCEPT ![at[p].slug] = file(tag)]
           /\ Proceed(p)
  <2>1. Moves(p) /\ Advances(p)
    BY <1>1, <1>7, ProceedEffect
  <2> HIDE DEF file
  <2> QED BY <1>0, <1>2, <1>3, <1>4, <1>5, <1>7, <2>1
<1> QED BY <1>6, <1>7 DEF WriteFiles

\* A unit keeps being enabled or not, and runs on the file and the runtime of
\* this moment if the restart works.
Restarts(s) ==
  /\ unit' \in [Slug -> Unit]
  /\ \A t \in Slug : unit'[t].enabled = unit[t].enabled /\ (t # s => unit'[t] = unit[t])
Runs(s) == unit'[s].loaded = env[s] /\ unit'[s].runtime = runtime

LEMMA RestartEffects ==
  ASSUME TypeInv, NEW s \in Slug
  PROVE  /\ RestartWorks(s) => env[s] # None /\ Restarts(s) /\ Runs(s)
         /\ RestartFails(s) => (env[s] = None \/ SystemMayFail) /\ Restarts(s)
<1>1. unit[s] \in Unit /\ env[s] \in EnvRecord \cup {None} /\ runtime \in SUBSET {"template", "acp"}
  BY DEF TypeInv
<1> DEFINE started == Started(s, unit[s].enabled)
           stopped == Stopped(unit[s].enabled)
<1>2. started \in Unit /\ started.enabled = unit[s].enabled /\ started.loaded = env[s] /\ started.runtime = runtime
  BY <1>1 DEF Started, Unit
<1>3. stopped \in Unit /\ stopped.enabled = unit[s].enabled
  BY <1>1 DEF Stopped, Unit
<1> HIDE DEF started, stopped
<1>4. ASSUME NEW u \in Unit, u.enabled = unit[s].enabled, unit' = [unit EXCEPT ![s] = u]
      PROVE  Restarts(s) /\ unit'[s] = u
  BY <1>4 DEF TypeInv, Restarts
<1>5. RestartWorks(s) => env[s] # None /\ unit' = [unit EXCEPT ![s] = started]
  BY DEF RestartWorks, started
<1>6. RestartFails(s) => /\ env[s] = None \/ SystemMayFail
                         /\ unit' = unit \/ unit' = [unit EXCEPT ![s] = stopped]
  BY DEF RestartFails, stopped
<1>7. unit' = unit => Restarts(s)
  BY DEF TypeInv, Restarts
<1> QED BY <1>2, <1>3, <1>4, <1>5, <1>6, <1>7 DEF Runs

LEMMA RestartEffect ==
  ASSUME LifecycleAssumption, TypeInv, HandsTyped, NEW p \in Process, Restart(p)
  PROVE  /\ Moves(p) /\ Kind[p] = "update" /\ at[p].n = 6
         /\ at[p].slug \in Slug /\ at[p].agent \in AgentRecord
         /\ UNCHANGED <<saved, env, relay, community, runtime>> /\ Restarts(at[p].slug)
         /\ \/ Advances(p) /\ Runs(at[p].slug)
            \/ Halts(p) /\ at'[p].phase = "raised" /\ (env[at[p].slug] = None \/ SystemMayFail)
<1>0. At(p, "restart") /\ UNCHANGED <<saved, env, relay, community, runtime>>
      /\ \/ RestartWorks(at[p].slug) /\ Proceed(p)
         \/ RestartFails(at[p].slug) /\ Raise(p)
  BY DEF Restart
<1>1. Active(p) /\ at[p] \in Hand /\ at[p].n \in Nat /\ at[p].n >= 1
  BY <1>0, Standing DEF At
<1>2. Kind[p] = "update" /\ at[p].n = 6
  BY <1>0, <1>1, Places
<1>3. at[p].slug \in Slug /\ at[p].agent # None
  BY <1>2 DEF HandsTyped, Held, Updating
<1>4. at[p].agent \in AgentRecord
  BY <1>1, <1>3 DEF Hand
<1> QED BY <1>0, <1>1, <1>2, <1>3, <1>4, RestartEffects, ProceedEffect, RaiseEffect

LEMMA TryRestartEffect ==
  ASSUME LifecycleAssumption, TypeInv, HandsTyped, NEW p \in Process, TryRestart(p)
  PROVE  /\ Moves(p) /\ Loops(p) /\ at[p].n = 12
         /\ at[p].slug \in Slug /\ at[p].agent \in AgentRecord
         /\ UNCHANGED <<saved, env, relay, community, runtime>> /\ Restarts(at[p].slug)
         /\ \/ /\ at'[p].phase = "on" /\ at'[p].n = 7 /\ KeepsHand(p)
               /\ Runs(at[p].slug) \/ env[at[p].slug] = None \/ SystemMayFail
            \/ Halts(p) /\ at'[p].phase = "raised" /\ SystemMayFail
<1>0. At(p, "try restart") /\ UNCHANGED <<saved, env, relay, community, runtime>>
      /\ \/ (RestartWorks(at[p].slug) \/ RestartFails(at[p].slug)) /\ GoTo(p, at[p], LoopStart)
         \/ SystemMayFail /\ Raise(p) /\ UNCHANGED unit
  BY DEF TryRestart, SystemFails
<1>1. Active(p) /\ at[p] \in Hand /\ at[p].n \in Nat /\ at[p].n >= 1
  BY <1>0, Standing DEF At
<1>2. Loops(p) /\ at[p].n = 12
  BY <1>0, <1>1, Places
<1>3. at[p].slug \in Slug /\ at[p].agent # None
  BY <1>2 DEF HandsTyped, Held, InBody
<1>4. at[p].agent \in AgentRecord
  BY <1>1, <1>3 DEF Hand
<1>5. CASE SystemMayFail /\ Raise(p) /\ UNCHANGED unit
  <2>1. Restarts(at[p].slug)
    BY <1>5 DEF Restarts, TypeInv
  <2> QED BY <1>0, <1>1, <1>2, <1>3, <1>4, <1>5, <2>1, RaiseEffect
<1>6. CASE (RestartWorks(at[p].slug) \/ RestartFails(at[p].slug)) /\ GoTo(p, at[p], LoopStart)
  BY <1>0, <1>1, <1>2, <1>3, <1>4, <1>6, HealPlaces, RestartEffects, HereEffect
<1> QED BY <1>0, <1>5, <1>6

LEMMA EnableEffect ==
  ASSUME LifecycleAssumption, TypeInv, HandsTyped, NEW p \in Process, Enable(p)
  PROVE  /\ Moves(p) /\ Kind[p] = "create" /\ at[p].n = 19
         /\ at[p].slug \in Slug /\ at[p].agent \in AgentRecord
         /\ UNCHANGED <<saved, env, relay, community, runtime>>
         /\ unit' \in [Slug -> Unit] /\ \A t \in Slug : t # at[p].slug => unit'[t] = unit[t]
         /\ \/ Advances(p) /\ (unit[at[p].slug].loaded = None => Runs(at[p].slug))
            \/ /\ Halts(p) /\ at'[p].phase = "raised" /\ (env[at[p].slug] = None \/ SystemMayFail)
<1> DEFINE s == at[p].slug
           u == IF unit[s].loaded = None THEN Started(s, TRUE) ELSE [unit[s] EXCEPT !.enabled = TRUE]
           v == [unit[s] EXCEPT !.enabled = TRUE]
<1>0. At(p, "enable")
  BY DEF Enable
<1>1. Active(p) /\ at[p] \in Hand /\ at[p].n \in Nat /\ at[p].n >= 1
  BY <1>0, Standing DEF At
<1>2. Kind[p] = "create" /\ at[p].n = 19
  BY <1>0, <1>1, Places
<1>3. s \in Slug /\ at[p].agent # None
  BY <1>2 DEF HandsTyped, Held, Minted
<1>4. at[p].agent \in AgentRecord
  BY <1>1, <1>3 DEF Hand
<1>5. UNCHANGED <<saved, env, relay, community, runtime>>
  BY DEF Enable
<1>6. \/ unit' = [unit EXCEPT ![s] = u] /\ Proceed(p)
      \/ /\ SystemMayFail \/ env[s] = None
         /\ unit' \in {unit, [unit EXCEPT ![s] = v]} /\ Raise(p)
  <2>1. [unit EXCEPT ![s] = IF @.loaded = None THEN Started(s, TRUE) ELSE [@ EXCEPT !.enabled = TRUE]]
        = [unit EXCEPT ![s] = u]
    OBVIOUS
  <2>2. [unit EXCEPT ![s].enabled = TRUE] = [unit EXCEPT ![s] = v]
    OBVIOUS
  <2> QED BY <2>1, <2>2 DEF Enable
<1>7. unit[s] \in Unit /\ env[s] \in EnvRecord \cup {None} /\ runtime \in SUBSET {"template", "acp"}
  BY <1>3 DEF TypeInv
<1>8. v \in Unit
  BY <1>7 DEF Unit
<1>9. u \in Unit /\ (unit[s].loaded = None => u.loaded = env[s] /\ u.runtime = runtime)
  BY <1>7, <1>8 DEF Unit, Started
<1> HIDE DEF u, v
<1>10. CASE unit' = [unit EXCEPT ![s] = u] /\ Proceed(p)
  <2>1. unit' \in [Slug -> Unit] /\ unit'[s] = u /\ \A t \in Slug : t # s => unit'[t] = unit[t]
    BY <1>3, <1>9, <1>10 DEF TypeInv
  <2> QED BY <1>1, <1>2, <1>3, <1>4, <1>5, <1>9, <1>10, <2>1, ProceedEffect DEF Runs
<1>11. CASE /\ SystemMayFail \/ env[s] = None
            /\ unit' \in {unit, [unit EXCEPT ![s] = v]} /\ Raise(p)
  <2>1. unit' \in [Slug -> Unit] /\ \A t \in Slug : t # s => unit'[t] = unit[t]
    BY <1>3, <1>8, <1>11 DEF TypeInv
  <2> QED BY <1>1, <1>2, <1>3, <1>4, <1>5, <1>11, <2>1, RaiseEffect
<1> QED BY <1>6, <1>10, <1>11

\* The step is done, or the system has failed it.
Ends(p) == Advances(p) \/ (Halts(p) /\ at'[p].phase = "raised" /\ SystemMayFail)

\* Some of an agent's publications are taken back, all of them if the relay
\* does not fail and the command goes on.
TakesBack(p, due) ==
  /\ relay' \in [Key -> [Item -> Contents \cup {None}]]
  /\ \A k \in Key, i \in Item :
       relay'[k][i] = relay[k][i] \/ (relay'[k][i] = None /\ k = at[p].agent.key /\ i \in due)
  /\ \/ RelayMayFail \/ at'[p].phase = "raised"
     \/ \A i \in due \cap Item : relay'[at[p].agent.key][i] = None

LEMMA TakesBackEffect ==
  ASSUME TypeInv, NEW p \in Process, at[p].agent \in AgentRecord, NEW due, NEW gone \in SUBSET due,
         gone = due \/ RelayMayFail \/ at'[p].phase = "raised", relay' = TakenBack(p, gone)
  PROVE  TakesBack(p, due)
<1> DEFINE k == at[p].agent.key
           left == [i \in Item |-> IF i \in gone THEN None ELSE relay[k][i]]
<1>1. k \in Key /\ relay \in [Key -> [Item -> Contents \cup {None}]]
  BY DEF TypeInv, AgentRecord
<1>2. left \in [Item -> Contents \cup {None}] /\ relay' = [relay EXCEPT ![k] = left]
  BY <1>1 DEF TakenBack
<1>3. relay' \in [Key -> [Item -> Contents \cup {None}]] /\ relay'[k] = left
      /\ \A x \in Key : x # k => relay'[x] = relay[x]
  BY <1>1, <1>2
<1> QED BY <1>1, <1>3 DEF TakesBack

LEMMA LeaveEffect ==
  ASSUME LifecycleAssumption, TypeInv, HandsTyped, NEW p \in Process, Leave(p)
  PROVE  /\ Moves(p) /\ Ends(p) /\ Kind[p] = "update" /\ at[p].n = 3
         /\ at[p].slug \in Slug /\ at[p].agent \in AgentRecord
         /\ UNCHANGED <<saved, env, unit, community, runtime>> /\ TakesBack(p, at[p].leave)
<1>0. At(p, "leave") /\ UNCHANGED <<saved, env, unit, community, runtime>>
  BY DEF Leave
<1>1. Active(p) /\ at[p] \in Hand /\ at[p].n \in Nat /\ at[p].n >= 1
  BY <1>0, Standing DEF At
<1>2. Kind[p] = "update" /\ at[p].n = 3
  BY <1>0, <1>1, Places
<1>3. at[p].slug \in Slug /\ at[p].agent # None
  BY <1>2 DEF HandsTyped, Held, Updating
<1>4. at[p].agent \in AgentRecord
  BY <1>1, <1>3 DEF Hand
<1>5. PICK left \in SUBSET at[p].leave :
        /\ relay' = TakenBack(p, left)
        /\ \/ (left = at[p].leave \/ RelayMayFail) /\ Proceed(p)
           \/ SystemMayFail /\ Raise(p)
  BY DEF Leave, SystemFails
<1>6. Moves(p) /\ Ends(p) /\ (left = at[p].leave \/ RelayMayFail \/ at'[p].phase = "raised")
  BY <1>1, <1>5, ProceedEffect, RaiseEffect DEF Ends
<1>7. TakesBack(p, at[p].leave)
  BY <1>4, <1>5, <1>6, TakesBackEffect
<1> QED BY <1>0, <1>2, <1>3, <1>4, <1>6, <1>7

DisableEffectOn(p) ==
  /\ unit' \in [Slug -> Unit] /\ unit'[at[p].slug] = Stopped(FALSE)
  /\ \A t \in Slug : t # at[p].slug => unit'[t] = unit[t]

LEMMA DisableEffect ==
  ASSUME LifecycleAssumption, TypeInv, HandsTyped, NEW p \in Process, Disable(p)
  PROVE  /\ Moves(p) /\ Kind[p] = "delete" /\ at[p].n = 2
         /\ at[p].slug \in Slug /\ at[p].agent \in AgentRecord
         /\ UNCHANGED <<saved, env, relay, community, runtime>>
         /\ \/ Halts(p) /\ at'[p].phase = "raised" /\ SystemMayFail /\ UNCHANGED unit
            \/ Advances(p) /\ DisableEffectOn(p)
<1>0. At(p, "disable") /\ UNCHANGED <<saved, env, relay, community, runtime>>
  BY DEF Disable
<1>1. Active(p) /\ at[p] \in Hand /\ at[p].n \in Nat /\ at[p].n >= 1
  BY <1>0, Standing DEF At
<1>2. Kind[p] = "delete" /\ at[p].n = 2
  BY <1>0, <1>1, Places
<1>3. at[p].slug \in Slug /\ at[p].agent # None
  BY <1>2 DEF HandsTyped, Held, Deleting
<1>4. at[p].agent \in AgentRecord
  BY <1>1, <1>3 DEF Hand
<1>5. CASE SystemFails(p) /\ UNCHANGED unit
  BY <1>0, <1>1, <1>2, <1>3, <1>4, <1>5, RaiseEffect DEF SystemFails
<1>6. CASE unit' = [unit EXCEPT ![at[p].slug] = Stopped(FALSE)] /\ Proceed(p)
  <2>1. Stopped(FALSE) \in Unit
    BY DEF Stopped, Unit
  <2>2. DisableEffectOn(p)
    BY <1>3, <1>6, <2>1 DEF TypeInv, DisableEffectOn
  <2> QED BY <1>0, <1>1, <1>2, <1>3, <1>4, <1>6, <2>2, ProceedEffect
<1> QED BY <1>5, <1>6 DEF Disable

LEMMA TeardownEffect ==
  ASSUME LifecycleAssumption, TypeInv, HandsTyped, NEW p \in Process, Teardown(p)
  PROVE  /\ Moves(p) /\ Ends(p) /\ Kind[p] = "delete" /\ at[p].n = 3
         /\ at[p].slug \in Slug /\ at[p].agent \in AgentRecord
         /\ UNCHANGED <<saved, env, unit, community, runtime>>
         /\ TakesBack(p, IF at[p].agent.managed THEN at[p].agent.cfg["channels"] \cup {"managed"} ELSE {})
<1> DEFINE due == IF at[p].agent.managed THEN at[p].agent.cfg["channels"] \cup {"managed"} ELSE {}
<1>0. At(p, "teardown") /\ UNCHANGED <<saved, env, unit, community, runtime>>
  BY DEF Teardown
<1>1. Active(p) /\ at[p] \in Hand /\ at[p].n \in Nat /\ at[p].n >= 1
  BY <1>0, Standing DEF At
<1>2. Kind[p] = "delete" /\ at[p].n = 3
  BY <1>0, <1>1, Places
<1>3. at[p].slug \in Slug /\ at[p].agent # None
  BY <1>2 DEF HandsTyped, Held, Deleting
<1>4. at[p].agent \in AgentRecord
  BY <1>1, <1>3 DEF Hand
<1>5. PICK gone \in SUBSET due :
        /\ relay' = TakenBack(p, gone)
        /\ \/ (gone = due \/ RelayMayFail) /\ Proceed(p)
           \/ SystemMayFail /\ Raise(p)
  BY DEF Teardown, SystemFails
<1> HIDE DEF due
<1>6. Moves(p) /\ Ends(p) /\ (gone = due \/ RelayMayFail \/ at'[p].phase = "raised")
  BY <1>1, <1>5, ProceedEffect, RaiseEffect DEF Ends
<1>7. TakesBack(p, due)
  BY <1>4, <1>5, <1>6, TakesBackEffect
<1> QED BY <1>0, <1>2, <1>3, <1>4, <1>6, <1>7 DEF due

LEMMA ForgetEffect ==
  ASSUME LifecycleAssumption, TypeInv, HandsTyped, NEW p \in Process, Forget(p)
  PROVE  /\ Moves(p) /\ Advances(p) /\ Kind[p] = "delete" /\ at[p].n = 4
         /\ at[p].slug \in Slug /\ at[p].agent \in AgentRecord
         /\ saved' = [saved EXCEPT ![at[p].slug] = None]
         /\ UNCHANGED <<env, unit, relay, community, runtime>>
<1>0. At(p, "forget") /\ Proceed(p) /\ saved' = [saved EXCEPT ![at[p].slug] = None]
      /\ UNCHANGED <<env, unit, relay, community, runtime>>
  BY DEF Forget
<1>1. Active(p) /\ at[p] \in Hand /\ at[p].n \in Nat /\ at[p].n >= 1
  BY <1>0, Standing DEF At
<1>2. Kind[p] = "delete" /\ at[p].n = 4
  BY <1>0, <1>1, Places
<1>3. at[p].slug \in Slug /\ at[p].agent # None
  BY <1>2 DEF HandsTyped, Held, Deleting
<1> QED BY <1>0, <1>1, <1>2, <1>3, ProceedEffect DEF Hand

LEMMA UnlinkEffect ==
  ASSUME LifecycleAssumption, TypeInv, HandsTyped, NEW p \in Process, Unlink(p)
  PROVE  /\ Moves(p) /\ Advances(p) /\ Kind[p] = "delete" /\ at[p].n = 5
         /\ at[p].slug \in Slug /\ at[p].agent \in AgentRecord
         /\ env' = [env EXCEPT ![at[p].slug] = None]
         /\ UNCHANGED <<saved, unit, relay, community, runtime>>
<1>0. At(p, "unlink") /\ Proceed(p) /\ env' = [env EXCEPT ![at[p].slug] = None]
      /\ UNCHANGED <<saved, unit, relay, community, runtime>>
  BY DEF Unlink
<1>1. Active(p) /\ at[p] \in Hand /\ at[p].n \in Nat /\ at[p].n >= 1
  BY <1>0, Standing DEF At
<1>2. Kind[p] = "delete" /\ at[p].n = 5
  BY <1>0, <1>1, Places
<1>3. at[p].slug \in Slug /\ at[p].agent # None
  BY <1>2 DEF HandsTyped, Held, Deleting
<1> QED BY <1>0, <1>1, <1>2, <1>3, ProceedEffect DEF Hand
-----------------------------------------------------------------------------
(* What a step leaves as it was for everybody else.                        *)

LEMMA Others ==
  ASSUME NEW p \in Process, Moves(p), NEW q \in Process, q # p
  PROVE  /\ at'[q] = at[q] /\ Active(q)' = Active(q) /\ Held(q)' = Held(q)
         /\ (HandMatches(q)' = HandMatches(q) \/ saved' # saved)
<1>1. at'[q] = at[q]
  BY DEF Moves
<1>2. Active(q)' = Active(q)
  BY <1>1 DEF Active
<1>3. Held(q)' = Held(q)
  BY <1>1 DEF Held, InBody, Minted, Updating, Deleting
<1>4. saved' = saved => HandMatches(q)' = HandMatches(q)
  BY <1>1 DEF HandMatches, InLoop, InBody, Minted, Updating, Deleting, Matches
<1> QED BY <1>1, <1>2, <1>3, <1>4

LEMMA HandsStayTyped ==
  ASSUME HandsTyped, NEW p \in Process, Moves(p), Held(p)'
  PROVE  HandsTyped'
  BY Others DEF HandsTyped

LEMMA TurnsStay ==
  ASSUME Turns, NEW p \in Process, Moves(p)
  PROVE  Turns'
<1>1. Active(p) /\ latest' = latest
  BY DEF Moves
<1>2. \A q \in Process : Active(q)' => Active(q)
  BY <1>1, Others
<1> QED BY <1>1, <1>2 DEF Turns

\* Beside a command that changes an agent no other is active.
LEMMA Undisturbed ==
  ASSUME LifecycleAssumption, Turns, NEW p \in Process, Active(p), NEW q \in Process, Active(q), q # p
  PROVE  latest = None /\ Kind[p] = "heal" /\ Kind[q] = "heal"
  BY DEF Turns, LifecycleAssumption

LEMMA HandsStayMatched ==
  ASSUME LifecycleAssumption, Turns, HandsMatch, NEW p \in Process, Moves(p), Active(p)' => HandMatches(p)',
         saved' = saved \/ Kind[p] # "heal"
  PROVE  HandsMatch'
<1>1. SUFFICES ASSUME NEW q \in Process, Active(q)' PROVE HandMatches(q)'
  BY DEF HandsMatch
<1>2. CASE q = p
  BY <1>1, <1>2
<1>3. CASE q # p
  <2>1. Active(q) /\ Active(p)
    BY <1>1, <1>3, Others DEF Moves
  <2>2. saved' = saved
    BY <1>3, <2>1, Undisturbed
  <2> QED BY <1>3, <2>1, <2>2, Others DEF HandsMatch
<1> QED BY <1>2, <1>3

\* A create that has saved its record stays where its record is, and one that
\* is about to save stays so unless it is stopped.
CreateStays(p) ==
  Kind[p] = "create" => /\ at[p].n >= 17 => at'[p].n >= 17 /\ at'[p].slug = at[p].slug
                        /\ at[p].n = 16 => at'[p].phase = "stopped"

LEMMA OriginsStay ==
  ASSUME Origins, NEW p \in Process, Moves(p), CreateStays(p),
         \A s \in Slug : saved'[s] # None => saved[s] # None /\ saved'[s].key = saved[s].key
  PROVE  Origins'
<1> SUFFICES ASSUME NEW s \in Slug, saved'[s] # None
             PROVE  \/ Agents[s] # None /\ saved'[s].key = Agents[s].key
                    \/ \E q \in Process : Kind[q] = "create" /\ saved'[s].key = q /\ at'[q].n >= 17 /\ at'[q].slug = s
  BY DEF Origins
<1>1. saved[s] # None /\ saved'[s].key = saved[s].key
  OBVIOUS
<1>2. CASE Agents[s] # None /\ saved[s].key = Agents[s].key
  BY <1>1, <1>2
<1>3. ASSUME NEW q \in Process, Kind[q] = "create", saved[s].key = q, at[q].n >= 17, at[q].slug = s
      PROVE  Kind[q] = "create" /\ saved'[s].key = q /\ at'[q].n >= 17 /\ at'[q].slug = s
  BY <1>1, <1>3 DEF Moves, CreateStays
<1> QED BY <1>1, <1>2, <1>3 DEF Origins

LEMMA ClearStays ==
  ASSUME LifecycleAssumption, Turns, DeletesClear, NEW p \in Process, Moves(p),
         Kind[p] = "delete" /\ latest = p /\ at'[p].phase = "on" => Cleared(p)'
  PROVE  DeletesClear'
<1>1. SUFFICES ASSUME NEW q \in Process, Kind[q] = "delete", at'[q].phase = "on", latest' = q
               PROVE  Cleared(q)'
  BY DEF DeletesClear
<1>2. latest = q /\ Active(p)
  BY <1>1 DEF Moves
<1>3. q = p
  BY <1>2 DEF Turns, LifecycleAssumption
<1> QED BY <1>1, <1>2, <1>3
LEMMA KeysStay ==
  ASSUME KeysKnown, NEW p \in Process, Moves(p),
         \A s \in Slug : NoneStopped' /\ env'[s] # None =>
           \/ saved'[s] # None /\ env'[s].key = saved'[s].key
           \/ AccountsFor(p, s)'
           \/ env'[s] = env[s] /\ saved'[s] = saved[s] /\ ~AccountsFor(p, s)
  PROVE  KeysKnown'
<1> SUFFICES ASSUME NoneStopped', NEW s \in Slug, env'[s] # None PROVE FileKnown(s)'
  BY DEF KeysKnown
<1>1. CASE saved'[s] # None /\ env'[s].key = saved'[s].key
  BY <1>1 DEF FileKnown
<1>2. CASE AccountsFor(p, s)'
  BY <1>2 DEF FileKnown
<1>3. CASE env'[s] = env[s] /\ saved'[s] = saved[s] /\ ~AccountsFor(p, s)
  <2>1. NoneStopped
    BY Others DEF NoneStopped, Moves, Active
  <2>2. FileKnown(s)
    BY <1>3, <2>1 DEF KeysKnown
  <2>3. CASE saved[s] # None /\ env[s].key = saved[s].key
    BY <1>3, <2>3 DEF FileKnown
  <2>4. ASSUME NEW q \in Process, AccountsFor(q, s) PROVE AccountsFor(q, s)'
    <3>1. q # p
      BY <1>3, <2>4
    <3>2. at'[q] = at[q] /\ Active(q)'
      BY <2>4, <3>1, Others DEF AccountsFor
    <3> QED BY <1>3, <2>4, <3>2 DEF AccountsFor
  <2> QED BY <2>2, <2>3, <2>4 DEF FileKnown
<1> QED BY <1>1, <1>2, <1>3

LEMMA EnabledStays ==
  ASSUME EnabledIsRecorded,
         \A s \in Slug : unit'[s].enabled => unit[s].enabled,
         \A s \in Slug : saved[s] # None => saved'[s] # None
  PROVE  EnabledIsRecorded'
<1> SUFFICES ASSUME NEW s \in Slug, unit'[s].enabled PROVE saved'[s] # None
  BY DEF EnabledIsRecorded, Recorded
<1>1. unit[s].enabled
  OBVIOUS
<1>2. saved[s] # None
  BY <1>1 DEF EnabledIsRecorded, Recorded
<1> QED BY <1>2

\* While a delete runs nothing else does.
LEMMA DisabledStays ==
  ASSUME LifecycleAssumption, Turns, NEW p \in Process, Moves(p),
         Active(p)' /\ Kind[p] = "delete" /\ at'[p].n >= 3 => ~unit'[at'[p].slug].enabled
  PROVE  Disabled'
<1> SUFFICES ASSUME NEW q \in Process, Active(q)', Kind[q] = "delete", at'[q].n >= 3
             PROVE  ~unit'[at'[q].slug].enabled
  BY DEF Disabled
<1>1. q = p
  BY Others, Undisturbed DEF Moves
<1> QED BY <1>1

LEMMA UnmanagedStays ==
  ASSUME UnmanagedUntouched,
         \A s \in Slug : saved'[s] # None /\ ~saved'[s].managed =>
           /\ saved[s] # None /\ ~saved[s].managed /\ saved'[s].key = saved[s].key
           /\ relay[saved[s].key] = NothingOnRelay => relay'[saved[s].key] = NothingOnRelay
           /\ env'[s] # None /\ env'[s].tag => env[s] # None /\ env[s].tag
  PROVE  UnmanagedUntouched'
  BY DEF UnmanagedUntouched, Recorded

\* No two records have the same key.
LEMMA KeysDiffer ==
  ASSUME LifecycleAssumption, Origins,
         NEW s \in Slug, NEW t \in Slug, s # t, saved[s] # None, saved[t] # None
  PROVE  saved[s].key # saved[t].key
<1>1. \/ Agents[s] # None /\ saved[s].key = Agents[s].key
      \/ \E p \in Process : Kind[p] = "create" /\ saved[s].key = p /\ at[p].slug = s
  BY DEF Origins
<1>2. \/ Agents[t] # None /\ saved[t].key = Agents[t].key
      \/ \E p \in Process : Kind[p] = "create" /\ saved[t].key = p /\ at[p].slug = t
  BY DEF Origins
<1>3. /\ \A x \in Slug : Agents[x] # None => Agents[x].key \notin Process
      /\ Agents[s] # None /\ Agents[t] # None => Agents[s].key # Agents[t].key
  BY DEF LifecycleAssumption
<1> QED BY <1>1, <1>2, <1>3

-----------------------------------------------------------------------------
(* What the process that moves has in hand afterwards.                     *)

LEMMA HaltKeeps ==
  ASSUME HandsTyped, NEW p \in Process, Moves(p), Halts(p)
  PROVE  /\ Held(p)' /\ ~Active(p)'
         /\ (Kind[p] = "create" /\ at[p].n = 16 => at'[p].phase = "stopped") => CreateStays(p)
<1>1. Held(p) /\ at[p].phase = "on"
  BY DEF HandsTyped, Moves, Active
<1>2. ~Active(p)'
  BY DEF Halts, Active
<1>3. Held(p)'
  BY <1>1 DEF Held, Halts, KeepsHand, KeepsAgent, InBody, Minted, Updating, Deleting
<1> QED BY <1>2, <1>3 DEF Halts, CreateStays, KeepsHand, KeepsAgent

\* The steps after which a process has something else in hand.
TakesUp(p) ==
  \/ Loops(p) /\ at[p].n \in {6, 7}
  \/ Kind[p] = "create" /\ at[p].n \in {14, 16}
  \/ Kind[p] = "update" /\ at[p].n = 2
  \/ Kind[p] = "delete" /\ at[p].n \in {1, 4}

LEMMA AdvanceKeeps ==
  ASSUME LifecycleAssumption, TypeInv, HandsTyped, HandsMatch, NEW p \in Process, Moves(p),
         at[p].due = {}, ~TakesUp(p),
         at'[p].phase = "on", at'[p].n = at[p].n + 1, KeepsAgent(p),
         at'[p].due # {} => /\ at[p].agent # None /\ at[p].agent.managed
                            /\ \/ Loops(p) /\ at[p].n = 8
                               \/ Kind[p] = "create" /\ at[p].n = 17
                               \/ Kind[p] = "update" /\ at[p].n = 4
  PROVE  /\ Held(p)'
         /\ saved' = saved => HandMatches(p)'
<1>1. Active(p) /\ Held(p) /\ HandMatches(p)
  BY DEF Moves, HandsTyped, HandsMatch
<1>2. at[p].n \in Nat /\ at[p].n >= 1 /\ at[p].n <= Len(Steps[p])
  BY <1>1, Standing
<1>3. at'[p].n \in 1..(Len(Steps[p]) + 1)
  BY <1>2, Lengths
<1>4. /\ InBody(p)' => InBody(p)
      /\ Minted(p)' => Minted(p) /\ at[p].n # 16
      /\ Updating(p)' => Updating(p)
      /\ Deleting(p)' => Deleting(p) /\ at[p].n # 4
      /\ InLoop(p)' => InLoop(p)
  BY <1>2 DEF InBody, InLoop, Minted, Updating, Deleting, TakesUp, Loops
<1>5. Held(p)'
  BY <1>1, <1>3, <1>4 DEF Held, KeepsAgent
<1>6. ASSUME saved' = saved PROVE HandMatches(p)'
  <2>1. InLoop(p)' => \A t \in Slug : at'[p].todo[t] # None => Matches(at[p].todo[t], t)'
    BY <1>1, <1>4, <1>6 DEF HandMatches, KeepsAgent, Matches
  <2>2. InBody(p)' => Matches(at[p].agent, at[p].slug)'
    BY <1>1, <1>4, <1>6 DEF HandMatches, KeepsAgent, Matches
  <2>3. Minted(p)' => /\ at[p].agent.key = p /\ at[p].agent.managed
                      /\ IF at'[p].n <= 16 THEN saved[at[p].slug] = None
                         ELSE Matches(at[p].agent, at[p].slug)
    BY <1>1, <1>2, <1>4 DEF HandMatches
  <2>4. Updating(p)' => /\ saved[at[p].slug] # None
                        /\ at[p].agent.key = saved[at[p].slug].key
                        /\ at[p].agent.managed = saved[at[p].slug].managed
    BY <1>1, <1>4 DEF HandMatches
  <2>5. Deleting(p)' => IF at'[p].n <= 4 THEN saved[at[p].slug] = at[p].agent
                        ELSE saved[at[p].slug] = None
    BY <1>1, <1>2, <1>4 DEF HandMatches
  <2> QED BY <1>6, <2>1, <2>2, <2>3, <2>4, <2>5 DEF HandMatches, KeepsAgent, Matches
<1> QED BY <1>5, <1>6

\* Back to the head of the loop.
LEMMA LoopKeeps ==
  ASSUME LifecycleAssumption, TypeInv, HandsTyped, HandsMatch, NEW p \in Process, Moves(p),
         Loops(p), at[p].n \in 8..12, at'[p].phase = "on", at'[p].n = 7,
         at'[p].due = {}, KeepsAgent(p), saved' = saved
  PROVE  Held(p)' /\ HandMatches(p)'
<1>1. Held(p) /\ HandMatches(p)
  BY DEF Moves, HandsTyped, HandsMatch
<1>2. 7 \in 1..(Len(Steps[p]) + 1)
  BY Lengths DEF Loops
<1>3. ~InBody(p)' /\ ~Minted(p)' /\ ~Updating(p)' /\ ~Deleting(p)' /\ InLoop(p)
  BY DEF InBody, InLoop, Minted, Updating, Deleting, Loops
<1>4. Held(p)'
  BY <1>2, <1>3 DEF Held
<1>5. \A t \in Slug : at'[p].todo[t] # None => Matches(at[p].todo[t], t)'
  BY <1>1, <1>3 DEF HandMatches, KeepsAgent, Matches
<1> QED BY <1>3, <1>4, <1>5 DEF HandMatches
-----------------------------------------------------------------------------
(* Steps that touch no file, no unit and nothing on the relay.             *)

\* A delete goes no further than to its record, or it is over.
DeleteStays(p) ==
  Kind[p] = "delete" =>
    \/ at'[p].phase = "stopped"
    \/ at[p].n <= 2 /\ at'[p].phase # "on"
    \/ at[p].n = 1 /\ at'[p].n = 2 /\ at'[p].slug = Target[p]

LEMMA RelayKeeps ==
  ASSUME LifecycleAssumption, IInv, NEW p \in Process, Moves(p), TypeInv',
         UNCHANGED <<saved, env, unit>>, UnmanagedUntouched', Held(p)', Active(p)' => HandMatches(p)',
         CreateStays(p), DeleteStays(p)
  PROVE  IInv'
<1>0. /\ TypeInv /\ HandsTyped /\ Turns /\ HandsMatch /\ Origins
      /\ EnabledIsRecorded /\ Disabled /\ UnmanagedUntouched /\ KeysKnown /\ DeletesClear
  BY DEF IInv
<1>1. HandsTyped'
  BY <1>0, HandsStayTyped
<1>2. Turns'
  BY <1>0, TurnsStay
<1>3. HandsMatch'
  BY <1>0, HandsStayMatched
<1>4. Origins'
  BY <1>0, OriginsStay
<1>5. EnabledIsRecorded'
  BY <1>0 DEF EnabledIsRecorded, Recorded
<1>6. Disabled'
  <2> SUFFICES ASSUME NEW q \in Process, Active(q)', Kind[q] = "delete", at'[q].n >= 3
               PROVE  ~unit[at'[q].slug].enabled
    BY DEF Disabled
  <2>1. q # p
    BY DEF DeleteStays, Active
  <2> QED BY <1>0, <2>1, Others DEF Disabled
<1>7. KeysKnown'
  <2>1. ASSUME NEW s \in Slug, NoneStopped' PROVE ~AccountsFor(p, s)
    BY <2>1 DEF AccountsFor, CreateStays, DeleteStays, NoneStopped
  <2> QED BY <1>0, <2>1, KeysStay
<1>8. DeletesClear'
  <2>1. Kind[p] = "delete" /\ at'[p].phase = "on" => Cleared(p)'
    <3>1. Kind[p] = "delete" /\ at'[p].phase = "on" => at'[p].n = 2 /\ at'[p].slug = Target[p]
      BY DEF DeleteStays
    <3>2. ASSUME at'[p].n = 2, at'[p].slug = Target[p] PROVE Cleared(p)'
      <4>1. ~(at'[p].n >= 3) /\ ~(at'[p].n >= 4) /\ ~(at'[p].n >= 5) /\ ~(at'[p].n >= 6)
        BY <3>2
      <4> QED BY <3>2, <4>1 DEF Cleared
    <3> QED BY <3>1, <3>2
  <2> QED BY <1>0, <2>1, ClearStays
<1> QED BY <1>1, <1>2, <1>3, <1>4, <1>5, <1>6, <1>7, <1>8 DEF IInv

LEMMA QuietKeeps ==
  ASSUME LifecycleAssumption, IInv, NEW p \in Process, Moves(p), TypeInv',
         UNCHANGED <<saved, env, unit, relay>>, Held(p)', Active(p)' => HandMatches(p)',
         CreateStays(p), DeleteStays(p)
  PROVE  IInv'
<1>1. UnmanagedUntouched'
  BY DEF IInv, UnmanagedUntouched, Recorded
<1> QED BY <1>1, RelayKeeps

LEMMA QuietTyped ==
  ASSUME TypeInv, NEW p \in Process, Moves(p), UNCHANGED <<saved, env, unit, relay>>,
         community' \in Community, runtime' \in SUBSET {"template", "acp"}, faults' = faults
  PROVE  TypeInv'
  BY DEF TypeInv, Moves

\* A process raises, or is stopped.
LEMMA HaltSafe ==
  ASSUME LifecycleAssumption, IInv, NEW p \in Process, Moves(p), Halts(p), TypeInv',
         UNCHANGED <<saved, env, unit, relay>>,
         \/ at'[p].phase = "stopped"
         \/ ~(Kind[p] = "create" /\ at[p].n = 16) /\ ~(Kind[p] = "delete" /\ at[p].n > 2)
  PROVE  IInv'
<1>1. Held(p)' /\ ~Active(p)' /\ CreateStays(p)
  BY HaltKeeps DEF IInv
<1>2. DeleteStays(p)
  <2>1. at[p].n \in Nat
    BY DEF IInv, TypeInv, Hand
  <2> QED BY <2>1 DEF DeleteStays, Halts
<1> QED BY <1>1, <1>2, QuietKeeps

\* A step on the way that changes neither the agent in hand nor its stores.
LEMMA AdvanceSafe ==
  ASSUME LifecycleAssumption, IInv, NEW p \in Process, Moves(p), TypeInv',
         UNCHANGED <<saved, env, unit, relay>>, at[p].due = {}, ~TakesUp(p), Kind[p] # "delete",
         at'[p].phase = "on", at'[p].n = at[p].n + 1, at'[p].due = {}, KeepsAgent(p)
  PROVE  IInv'
<1>1. Held(p)' /\ HandMatches(p)'
  BY AdvanceKeeps DEF IInv
<1>2. CreateStays(p)
  <2>1. at[p].n \in Nat
    BY DEF IInv, TypeInv, Hand
  <2> QED BY <2>1 DEF CreateStays, TakesUp, KeepsAgent
<1>3. DeleteStays(p)
  BY DEF DeleteStays
<1> QED BY <1>1, <1>2, <1>3, QuietKeeps

LEMMA EnsureOwnerSafe ==
  ASSUME LifecycleAssumption, IInv, NEW p \in Process, EnsureOwner(p), faults' = faults
  PROVE  IInv'
<1>0. TypeInv /\ HandsTyped /\ at[p].due = {}
  BY DEF IInv, EnsureOwner, At
<1>1. /\ Moves(p) /\ Kind[p] # "delete" /\ at[p].n = 1
      /\ UNCHANGED <<saved, env, unit, relay, runtime>> /\ community' \in Community
      /\ Halts(p) \/ Readies(p)
  BY <1>0, EnsureOwnerEffect
<1>2. TypeInv'
  BY <1>0, <1>1, QuietTyped DEF TypeInv
<1>3. CASE Halts(p)
  BY <1>1, <1>2, <1>3, HaltSafe
<1>4. CASE Readies(p)
  <2>1. ~TakesUp(p)
    BY <1>1 DEF TakesUp
  <2> QED BY <1>0, <1>1, <1>2, <1>4, <2>1, AdvanceSafe DEF Readies
<1> QED BY <1>1, <1>3, <1>4

LEMMA EnsureLingerSafe ==
  ASSUME LifecycleAssumption, IInv, NEW p \in Process, EnsureLinger(p), faults' = faults
  PROVE  IInv'
<1>0. TypeInv /\ HandsTyped /\ at[p].due = {}
  BY DEF IInv, EnsureLinger, At
<1>1. Moves(p) /\ Loops(p) /\ at[p].n = 2 /\ UNCHANGED stores /\ (Halts(p) \/ Advances(p))
  BY <1>0, EnsureLingerEffect
<1>2. TypeInv' /\ Kind[p] # "delete" /\ ~TakesUp(p) /\ UNCHANGED <<saved, env, unit, relay>>
  BY <1>0, <1>1, QuietTyped DEF TypeInv, stores, Loops, TakesUp
<1>3. CASE Halts(p)
  BY <1>1, <1>2, <1>3, HaltSafe
<1>4. CASE Advances(p)
  BY <1>0, <1>1, <1>2, <1>4, AdvanceSafe DEF Advances, KeepsHand
<1> QED BY <1>1, <1>3, <1>4

LEMMA InstallSafe ==
  ASSUME LifecycleAssumption, IInv, NEW p \in Process, NEW part \in {"template", "acp"},
         Install(p, part), faults' = faults
  PROVE  IInv'
<1>0. TypeInv /\ HandsTyped /\ at[p].due = {}
  BY DEF IInv, Install, At
<1>1. /\ Moves(p) /\ Loops(p) /\ (at[p].n = 3 \/ at[p].n = 4)
      /\ UNCHANGED <<saved, env, unit, relay, community>>
      /\ (Halts(p) /\ UNCHANGED runtime) \/ (Readies(p) /\ runtime' = runtime \cup {part})
  BY <1>0, InstallEffect
<1>2. Kind[p] # "delete" /\ ~TakesUp(p)
  BY <1>1 DEF Loops, TakesUp
<1>3. TypeInv'
  BY <1>0, <1>1, QuietTyped DEF TypeInv
<1>4. CASE Halts(p)
  BY <1>1, <1>2, <1>3, <1>4, HaltSafe
<1>5. CASE Readies(p)
  BY <1>0, <1>1, <1>2, <1>3, <1>5, AdvanceSafe DEF Readies
<1> QED BY <1>1, <1>4, <1>5

LEMMA EnsureFleetSafe ==
  ASSUME LifecycleAssumption, IInv, NEW p \in Process, EnsureFleet(p), faults' = faults
  PROVE  IInv'
<1>0. TypeInv /\ HandsTyped /\ at[p].due = {}
  BY DEF IInv, EnsureFleet, At
<1>1. /\ Moves(p) /\ Loops(p) /\ at[p].n = 5 /\ UNCHANGED <<saved, env, unit, relay, runtime>>
      /\ Readies(p) /\ at'[p].com \in Community /\ community' \in {community, at'[p].com}
  BY <1>0, EnsureFleetEffect
<1>2. Kind[p] # "delete" /\ ~TakesUp(p)
  BY <1>1 DEF Loops, TakesUp
<1>3. TypeInv'
  BY <1>0, <1>1, QuietTyped DEF TypeInv
<1> QED BY <1>0, <1>1, <1>2, <1>3, AdvanceSafe DEF Readies

LEMMA CheckNameSafe ==
  ASSUME LifecycleAssumption, IInv, NEW p \in Process, CheckName(p), faults' = faults
  PROVE  IInv'
<1>0. TypeInv /\ HandsTyped /\ at[p].due = {}
  BY DEF IInv, CheckName, At
<1>1. Moves(p) /\ Kind[p] = "create" /\ at[p].n = 13 /\ UNCHANGED stores /\ (Halts(p) \/ Advances(p))
  BY <1>0, CheckNameEffect
<1>2. TypeInv' /\ Kind[p] # "delete" /\ ~TakesUp(p) /\ UNCHANGED <<saved, env, unit, relay>>
  BY <1>0, <1>1, QuietTyped DEF TypeInv, stores, TakesUp
<1>3. CASE Halts(p)
  BY <1>1, <1>2, <1>3, HaltSafe
<1>4. CASE Advances(p)
  BY <1>0, <1>1, <1>2, <1>4, AdvanceSafe DEF Advances, KeepsHand
<1> QED BY <1>1, <1>3, <1>4

LEMMA StopSafe ==
  ASSUME LifecycleAssumption, IInv, NEW p \in Process, Stop(p), faults' = faults
  PROVE  IInv'
<1>1. TypeInv /\ Moves(p) /\ Halts(p) /\ at'[p].phase = "stopped" /\ UNCHANGED stores
  BY StopEffect DEF IInv, Stop
<1>2. TypeInv' /\ UNCHANGED <<saved, env, unit, relay>>
  BY <1>1, QuietTyped DEF TypeInv, stores
<1> QED BY <1>1, <1>2, HaltSafe

LEMMA ListSafe ==
  ASSUME LifecycleAssumption, IInv, NEW p \in Process, List(p), faults' = faults
  PROVE  IInv'
<1>0. TypeInv /\ HandsTyped /\ at[p].due = {}
  BY DEF IInv, List, At
<1>1. /\ Moves(p) /\ Loops(p) /\ at[p].n = 6 /\ UNCHANGED stores
      /\ at'[p].phase = "on" /\ at'[p].n = 7 /\ at'[p].due = {} /\ at'[p].todo = saved
  BY <1>0, ListEffect
<1>2. UNCHANGED <<saved, env, unit, relay>> /\ TypeInv'
  BY <1>0, <1>1, QuietTyped DEF TypeInv, stores
<1>3. ~InBody(p)' /\ ~Minted(p)' /\ ~Updating(p)' /\ ~Deleting(p)'
  BY <1>1 DEF InBody, Minted, Updating, Deleting, Loops
<1>4. Held(p)'
  <2>1. 7 \in 1..(Len(Steps[p]) + 1)
    BY <1>1, Lengths DEF Loops
  <2> QED BY <1>1, <1>3, <2>1 DEF Held
<1>5. HandMatches(p)'
  <2>1. \A t \in Slug : at'[p].todo[t] # None => Matches(at[p].todo[t], t)'
    BY <1>1, <1>2 DEF Matches, Same
  <2> QED BY <1>3, <2>1 DEF HandMatches
<1>6. CreateStays(p) /\ DeleteStays(p)
  BY <1>1 DEF CreateStays, DeleteStays, Loops
<1> QED BY <1>1, <1>2, <1>4, <1>5, <1>6, QuietKeeps

LEMMA NextAgentSafe ==
  ASSUME LifecycleAssumption, IInv, NEW p \in Process, NextAgent(p), faults' = faults
  PROVE  IInv'
<1>0. TypeInv /\ HandsTyped
  BY DEF IInv
<1>1. /\ Moves(p) /\ Loops(p) /\ at[p].n = 7 /\ at[p].due = {} /\ UNCHANGED stores
      /\ \/ at'[p].phase = "on" /\ at'[p].n = 13 /\ KeepsHand(p)
         \/ \E s \in Slug : Takes(p, s)
  BY <1>0, NextAgentEffect
<1>2. UNCHANGED <<saved, env, unit, relay>> /\ TypeInv'
  BY <1>0, <1>1, QuietTyped DEF TypeInv, stores
<1>3. CreateStays(p) /\ DeleteStays(p)
  BY <1>1 DEF CreateStays, DeleteStays, Loops
<1>4. CASE at'[p].phase = "on" /\ at'[p].n = 13 /\ KeepsHand(p)
  <2>1. ~InLoop(p)' /\ ~InBody(p)' /\ ~Minted(p)' /\ ~Updating(p)' /\ ~Deleting(p)'
    BY <1>1, <1>4 DEF InLoop, InBody, Minted, Updating, Deleting, Loops
  <2>2. 13 \in 1..(Len(Steps[p]) + 1)
    BY <1>1, Lengths DEF Loops
  <2>3. Held(p)' /\ HandMatches(p)'
    BY <1>1, <1>4, <2>1, <2>2 DEF Held, HandMatches, KeepsHand
  <2> QED BY <1>1, <1>2, <1>3, <2>3, QuietKeeps
<1>5. ASSUME NEW s \in Slug, Takes(p, s) PROVE IInv'
  <2>1. /\ at'[p].phase = "on" /\ at'[p].n = 8 /\ at'[p].due = {} /\ at'[p].slug = s
        /\ at[p].todo[s] # None /\ at'[p].was # None /\ at'[p].agent # None
        /\ at'[p].agent = at[p].todo[s]
    BY <1>1, <1>5 DEF Takes
  <2>2. \A t \in Slug : at'[p].todo[t] # None => at'[p].todo[t] = at[p].todo[t]
    BY <1>0, <1>5 DEF Takes, TypeInv, Hand
  <2>3. ~Minted(p)' /\ ~Updating(p)' /\ ~Deleting(p)' /\ InLoop(p)
    BY <1>1, <2>1 DEF InLoop, Minted, Updating, Deleting, Loops
  <2>4. 8 \in 1..(Len(Steps[p]) + 1)
    BY <1>1, Lengths DEF Loops
  <2>5. Held(p)'
    BY <2>1, <2>3, <2>4 DEF Held
  <2>6. \A t \in Slug : at[p].todo[t] # None => Matches(at[p].todo[t], t)
    BY <1>1, <2>3 DEF IInv, HandsMatch, HandMatches, Moves
  <2>7. /\ \A t \in Slug : at'[p].todo[t] # None => Matches(at[p].todo[t], t)'
        /\ Matches(at[p].agent, at[p].slug)'
    BY <1>2, <2>1, <2>2, <2>6 DEF Matches
  <2>8. HandMatches(p)'
    BY <2>3, <2>7 DEF HandMatches
  <2> QED BY <1>1, <1>2, <1>3, <2>5, <2>8, QuietKeeps
<1> QED BY <1>1, <1>4, <1>5

LEMMA CheckSafe ==
  ASSUME LifecycleAssumption, IInv, NEW p \in Process, Check(p), faults' = faults
  PROVE  IInv'
<1>0. TypeInv /\ HandsTyped /\ HandsMatch /\ at[p].due = {}
  BY DEF IInv, Check, At
<1>1. /\ Moves(p) /\ Loops(p) /\ at[p].n = 10 /\ UNCHANGED stores
      /\ at'[p].phase = "on" /\ KeepsHand(p) /\ (at'[p].n = 11 \/ at'[p].n = 7)
  BY <1>0, CheckEffect
<1>2. UNCHANGED <<saved, env, unit, relay>> /\ TypeInv'
  BY <1>0, <1>1, QuietTyped DEF TypeInv, stores
<1>3. ~TakesUp(p) /\ Kind[p] # "delete" /\ at'[p].due = {} /\ KeepsAgent(p)
  BY <1>0, <1>1 DEF TakesUp, Loops, KeepsHand
<1>4. CASE at'[p].n = 11
  BY <1>0, <1>1, <1>2, <1>3, <1>4, AdvanceSafe
<1>5. CASE at'[p].n = 7
  <2>1. Held(p)' /\ HandMatches(p)'
    BY <1>0, <1>1, <1>2, <1>3, <1>5, LoopKeeps
  <2>2. CreateStays(p) /\ DeleteStays(p)
    BY <1>1 DEF CreateStays, DeleteStays, Loops
  <2> QED BY <1>1, <1>2, <2>1, <2>2, QuietKeeps
<1> QED BY <1>1, <1>4, <1>5

LEMMA SyncSafe ==
  ASSUME LifecycleAssumption, IInv, NEW p \in Process, Sync(p), faults' = faults
  PROVE  IInv'
<1>0. TypeInv /\ HandsTyped /\ HandsMatch /\ at[p].due = {}
  BY DEF IInv, Sync, At
<1>1. /\ Moves(p) /\ UNCHANGED stores
      /\ \/ Loops(p) /\ at[p].n = 8
         \/ Kind[p] = "create" /\ at[p].n = 17
         \/ Kind[p] = "update" /\ at[p].n = 4
      /\ at'[p].phase = "on" /\ at'[p].n = at[p].n + 1 /\ KeepsAgent(p)
      /\ at'[p].due # {} => at[p].agent.managed
  BY <1>0, SyncEffect
<1>2. UNCHANGED <<saved, env, unit, relay>> /\ TypeInv'
  BY <1>0, <1>1, QuietTyped DEF TypeInv, stores
<1>3. ~TakesUp(p) /\ at[p].agent # None
  BY <1>0, <1>1 DEF TakesUp, Loops, HandsTyped, Held, InBody, Minted, Updating
<1>4. Held(p)' /\ HandMatches(p)'
  BY <1>0, <1>1, <1>2, <1>3, AdvanceKeeps
<1>5. CreateStays(p) /\ DeleteStays(p)
  BY <1>1 DEF CreateStays, DeleteStays, Loops, KeepsAgent
<1> QED BY <1>1, <1>2, <1>4, <1>5, QuietKeeps

LEMMA MintSafe ==
  ASSUME LifecycleAssumption, IInv, NEW p \in Process, Mint(p), faults' = faults
  PROVE  IInv'
<1>0. TypeInv /\ HandsTyped /\ at[p].due = {}
  BY DEF IInv, Mint, At
<1>1. /\ Moves(p) /\ Kind[p] = "create" /\ at[p].n = 14 /\ UNCHANGED stores
      /\ Halts(p) \/ Mints(p)
  BY <1>0, MintEffect
<1>2. UNCHANGED <<saved, env, unit, relay>> /\ TypeInv'
  BY <1>0, <1>1, QuietTyped DEF TypeInv, stores
<1>3. CASE Halts(p)
  BY <1>1, <1>2, <1>3, HaltSafe
<1>4. CASE Mints(p)
  <2>1. /\ at'[p].phase = "on" /\ at'[p].n = 15 /\ at'[p].due = {} /\ at'[p].slug \in Slug
        /\ saved[at'[p].slug] = None /\ at'[p].agent.key = p /\ at'[p].agent.managed
        /\ at'[p].agent # None
    <3>1. at'[p].agent \in AgentRecord /\ at'[p].agent = Agent(p, Asked[p])
      BY <1>4 DEF Mints
    <3>2. at'[p].agent # None
      BY <3>1 DEF LifecycleAssumption
    <3>3. at'[p].agent.key = p /\ at'[p].agent.managed
      BY <3>1 DEF Agent
    <3> QED BY <1>0, <1>4, <3>2, <3>3 DEF Mints
  <2>2. ~InLoop(p)' /\ ~InBody(p)' /\ ~Updating(p)' /\ ~Deleting(p)'
    BY <1>1, <2>1 DEF InLoop, InBody, Updating, Deleting, Loops
  <2>3. 15 \in 1..(Len(Steps[p]) + 1)
    BY <1>1, Lengths
  <2>4. Held(p)' /\ HandMatches(p)'
    BY <1>2, <2>1, <2>2, <2>3 DEF Held, HandMatches
  <2>5. CreateStays(p) /\ DeleteStays(p)
    BY <1>1 DEF CreateStays, DeleteStays
  <2> QED BY <1>1, <1>2, <2>4, <2>5, QuietKeeps
<1> QED BY <1>1, <1>3, <1>4

LEMMA LoadSafe ==
  ASSUME LifecycleAssumption, IInv, NEW p \in Process, Load(p), faults' = faults
  PROVE  IInv'
<1>0. TypeInv /\ HandsTyped /\ at[p].due = {}
  BY DEF IInv, Load, At
<1>1. /\ Moves(p) /\ UNCHANGED stores
      /\ (Kind[p] = "update" /\ at[p].n = 2) \/ (Kind[p] = "delete" /\ at[p].n = 1)
      /\ Halts(p) \/ Loads(p)
  BY <1>0, LoadEffect
<1>2. UNCHANGED <<saved, env, unit, relay>> /\ TypeInv'
  BY <1>0, <1>1, QuietTyped DEF TypeInv, stores
<1>3. CASE Halts(p)
  BY <1>1, <1>2, <1>3, HaltSafe
<1>4. CASE Loads(p)
  <2>1. /\ at'[p].phase = "on" /\ at'[p].n = at[p].n + 1 /\ at'[p].due = {}
        /\ at'[p].slug = Target[p] /\ at'[p].slug \in Slug /\ saved[at'[p].slug] # None
        /\ at'[p].agent \in AgentRecord /\ at'[p].agent # None
    BY <1>0, <1>4 DEF Loads, LifecycleAssumption
  <2>2. ~InLoop(p)' /\ ~InBody(p)' /\ ~Minted(p)'
    BY <1>1 DEF InLoop, InBody, Minted, Loops
  <2>3. at'[p].n \in 1..(Len(Steps[p]) + 1)
    BY <1>1, <2>1, Lengths
  <2>4. Held(p)'
    BY <2>1, <2>2, <2>3 DEF Held
  <2>5. CASE Kind[p] = "update"
    <3>1. saved[at'[p].slug] \in AgentRecord
      BY <1>0, <2>1 DEF TypeInv
    <3>2. at'[p].agent.key = saved[at'[p].slug].key /\ at'[p].agent.managed = saved[at'[p].slug].managed
      BY <1>4, <2>1, <2>5, <3>1, UpdatedAgent DEF Loads
    <3>3. ~Deleting(p)'
      BY <2>5 DEF Deleting
    <3> QED BY <1>2, <2>1, <2>2, <2>4, <3>2, <3>3, <1>1, <2>5, QuietKeeps
            DEF HandMatches, CreateStays, DeleteStays
  <2>6. CASE Kind[p] = "delete"
    <3>1. at'[p].n = 2 /\ saved[at'[p].slug] = at'[p].agent
      BY <1>1, <1>4, <2>1, <2>6 DEF Loads
    <3>2. ~Updating(p)'
      BY <2>6 DEF Updating
    <3>3. HandMatches(p)'
      BY <1>2, <2>2, <3>1, <3>2 DEF HandMatches
    <3>4. CreateStays(p) /\ DeleteStays(p)
      BY <1>1, <2>1, <2>6, <3>1 DEF CreateStays, DeleteStays
    <3> QED BY <1>1, <1>2, <2>4, <3>3, <3>4, QuietKeeps
  <2> QED BY <1>1, <2>5, <2>6
<1> QED BY <1>1, <1>3, <1>4

-----------------------------------------------------------------------------
(* Steps that touch the relay.                                             *)

\* Once it is saved the agent in hand is that of its record.
LEMMA HandRecorded ==
  ASSUME LifecycleAssumption, IInv, NEW p \in Process, Active(p),
         InBody(p) \/ (Minted(p) /\ at[p].n > 16) \/ Updating(p)
  PROVE  /\ at[p].slug \in Slug /\ saved[at[p].slug] # None
         /\ at[p].agent.key = saved[at[p].slug].key
         /\ at[p].agent.managed = saved[at[p].slug].managed
         /\ Updating(p) \/ Matches(at[p].agent, at[p].slug)
<1>1. Held(p) /\ HandMatches(p)
  BY DEF IInv, HandsTyped, HandsMatch
<1>3. at[p].slug \in Slug
  BY <1>1 DEF Held
<1>4. Updating(p) \/ Matches(at[p].agent, at[p].slug)
  <2>1. at[p].n \in Nat
    BY DEF IInv, TypeInv, Hand
  <2> QED BY <1>1, <2>1 DEF HandMatches
<1>5. Updating(p) => /\ saved[at[p].slug] # None /\ at[p].agent.key = saved[at[p].slug].key
                     /\ at[p].agent.managed = saved[at[p].slug].managed
  BY <1>1 DEF HandMatches
<1> QED BY <1>3, <1>4, <1>5 DEF Matches, Same

LEMMA PublishedTyped ==
  ASSUME TypeInv, NEW p \in Process, at[p].agent \in AgentRecord, NEW item \in Item,
         relay' = relay \/ relay' = Published(p, item)
  PROVE  /\ relay' \in [Key -> [Item -> Contents \cup {None}]]
         /\ \A k \in Key : k # at[p].agent.key => relay'[k] = relay[k]
<1>1. at[p].agent.key \in Key /\ at[p].agent.cfg \in Config
  BY DEF AgentRecord
<1>2. Content(item, at[p].agent.cfg) \in Contents
  BY <1>1 DEF Contents
<1>3. relay \in [Key -> [Item -> Contents \cup {None}]]
  BY DEF TypeInv
<1>4. CASE relay' = Published(p, item)
  <2> DEFINE c == Content(item, at[p].agent.cfg)
  <2>1. relay' = [relay EXCEPT ![at[p].agent.key][item] = c]
    BY <1>4 DEF Published
  <2> HIDE DEF c
  <2> QED BY <1>1, <1>2, <1>3, <2>1 DEF c
<1> QED BY <1>3, <1>4

LEMMA PublishSafe ==
  ASSUME LifecycleAssumption, IInv, NEW p \in Process, NEW item \in Item, Publish(p, item),
         faults' = faults
  PROVE  IInv'
<1>0. TypeInv /\ HandsTyped /\ HandsMatch /\ UnmanagedUntouched /\ Origins
  BY DEF IInv
<1>1. /\ Moves(p) /\ UNCHANGED <<saved, env, unit, community, runtime>>
      /\ \/ Loops(p) /\ at[p].n = 9
         \/ Kind[p] = "create" /\ at[p].n = 18
         \/ Kind[p] = "update" /\ at[p].n = 5
      /\ at[p].agent \in AgentRecord /\ at[p].agent.managed
      /\ \E mark \in Mark : Marks(p, item, mark)
      /\ relay' = relay \/ relay' = Published(p, item)
  BY <1>0, PublishEffect
<1>2. PICK mark \in Mark : Marks(p, item, mark)
  BY <1>1
<1>3. /\ relay' \in [Key -> [Item -> Contents \cup {None}]]
      /\ \A k \in Key : k # at[p].agent.key => relay'[k] = relay[k]
  BY <1>0, <1>1, PublishedTyped
<1>4. TypeInv'
  BY <1>0, <1>1, <1>3 DEF TypeInv, Moves
<1>5. at[p].slug \in Slug /\ saved[at[p].slug] # None
      /\ at[p].agent.key = saved[at[p].slug].key /\ at[p].agent.managed = saved[at[p].slug].managed
  <2>1. InBody(p) \/ (Minted(p) /\ at[p].n > 16) \/ Updating(p)
    BY <1>1 DEF InBody, Minted, Updating
  <2> QED BY <1>1, <2>1, HandRecorded DEF Moves
<1>6. UnmanagedUntouched'
  <2>1. ASSUME NEW s \in Slug, saved'[s] # None, ~saved'[s].managed
        PROVE  /\ saved[s] # None /\ ~saved[s].managed /\ saved'[s].key = saved[s].key
               /\ relay'[saved[s].key] = relay[saved[s].key]
               /\ env'[s] = env[s]
    <3>1. saved[s] # None /\ ~saved[s].managed /\ s # at[p].slug
      BY <1>1, <1>5, <2>1
    <3>2. saved[s].key \in Key /\ saved[s].key # at[p].agent.key
      BY <1>0, <1>5, <3>1, KeysDiffer DEF TypeInv, AgentRecord
    <3> QED BY <1>1, <1>3, <3>1, <3>2
  <2> QED BY <1>0, <2>1, UnmanagedStays
<1>7. Held(p) /\ HandMatches(p)
  BY <1>0, <1>1 DEF HandsTyped, HandsMatch, Moves
<1>8. /\ at'[p].phase = "on" /\ at'[p].n = at[p].n /\ at'[p].due \subseteq at[p].due
      /\ at'[p].slug = at[p].slug /\ at'[p].was = at[p].was /\ at'[p].todo = at[p].todo
      /\ at'[p].agent # None /\ Same(at'[p].agent, at[p].agent) /\ at'[p].agent.managed
  BY <1>1, <1>2 DEF Marks, LifecycleAssumption, Same
<1>9. Held(p)'
  BY <1>1, <1>7, <1>8 DEF Held, InBody, Minted, Updating, Deleting
<1>10. HandMatches(p)'
  <2>1. /\ InLoop(p)' = InLoop(p) /\ InBody(p)' = InBody(p) /\ Minted(p)' = Minted(p)
        /\ Updating(p)' = Updating(p) /\ ~Deleting(p)' /\ at[p].n # 16
        /\ (Minted(p) => at[p].n > 16)
    BY <1>1, <1>8 DEF InLoop, InBody, Minted, Updating, Deleting, Loops
  <2>2. \A t \in Slug : (Matches(at[p].todo[t], t)' <=> Matches(at[p].todo[t], t))
    BY <1>1, <1>8 DEF Matches
  <2>3. Matches(at[p].agent, at[p].slug) => Matches(at[p].agent, at[p].slug)'
    BY <1>1, <1>8 DEF Matches, Same
  <2>4. Minted(p) => at'[p].agent.key = p
    BY <1>7, <1>8 DEF HandMatches, Same
  <2>5. at'[p].agent.key = at[p].agent.key /\ at'[p].agent.managed = at[p].agent.managed
    BY <1>8 DEF Same
  <2>6. InLoop(p)' => \A t \in Slug : at'[p].todo[t] # None => Matches(at[p].todo[t], t)'
    BY <1>7, <1>8, <2>1, <2>2 DEF HandMatches
  <2>7. InBody(p)' => Matches(at[p].agent, at[p].slug)'
    BY <1>7, <2>1, <2>3 DEF HandMatches
  <2>8. Minted(p)' => Matches(at[p].agent, at[p].slug)' /\ ~(at'[p].n <= 16)
    BY <1>1, <1>7, <1>8, <2>1, <2>3 DEF HandMatches
  <2>9. Updating(p)' => /\ saved'[at'[p].slug] # None /\ at'[p].agent.key = saved'[at'[p].slug].key
                        /\ at'[p].agent.managed = saved'[at'[p].slug].managed
    BY <1>1, <1>5, <1>8, <2>5
  <2> QED BY <1>8, <2>1, <2>4, <2>6, <2>7, <2>8, <2>9 DEF HandMatches
<1>11. CreateStays(p) /\ DeleteStays(p)
  BY <1>1, <1>8 DEF CreateStays, DeleteStays, Loops
<1> QED BY <1>1, <1>4, <1>6, <1>9, <1>10, <1>11, RelayKeeps

LEMMA LeaveSafe ==
  ASSUME LifecycleAssumption, IInv, NEW p \in Process, Leave(p), faults' = faults
  PROVE  IInv'
<1>0. TypeInv /\ HandsTyped /\ HandsMatch /\ UnmanagedUntouched /\ at[p].due = {}
  BY DEF IInv, Leave, At
<1>1. /\ Moves(p) /\ (Advances(p) \/ Halts(p)) /\ Kind[p] = "update" /\ at[p].n = 3
      /\ UNCHANGED <<saved, env, unit, community, runtime>> /\ TakesBack(p, at[p].leave)
  BY <1>0, LeaveEffect DEF Ends
<1>2. TypeInv'
  BY <1>0, <1>1 DEF TypeInv, Moves, TakesBack
<1>3. UnmanagedUntouched'
  <2>1. ASSUME NEW k \in Key, relay[k] = NothingOnRelay PROVE relay'[k] = NothingOnRelay
    BY <1>1, <2>1 DEF TakesBack, NothingOnRelay
  <2>2. \A s \in Slug : saved[s] # None => saved[s].key \in Key
    BY <1>0 DEF TypeInv, AgentRecord
  <2>3. ASSUME NEW s \in Slug, saved'[s] # None, ~saved'[s].managed
        PROVE  /\ saved[s] # None /\ ~saved[s].managed /\ saved'[s].key = saved[s].key
               /\ relay[saved[s].key] = NothingOnRelay => relay'[saved[s].key] = NothingOnRelay
               /\ env'[s] = env[s]
    BY <1>1, <2>1, <2>2, <2>3
  <2> QED BY <1>0, <2>3, UnmanagedStays
<1>4. ~TakesUp(p) /\ CreateStays(p) /\ DeleteStays(p)
  BY <1>1 DEF TakesUp, CreateStays, DeleteStays, Loops
<1>5. Held(p)' /\ (Active(p)' => HandMatches(p)')
  <2>1. CASE Advances(p)
    BY <1>0, <1>1, <1>4, <2>1, AdvanceKeeps DEF Advances, KeepsHand
  <2>2. CASE Halts(p)
    BY <1>0, <1>1, <2>2, HaltKeeps
  <2> QED BY <1>1, <2>1, <2>2
<1> QED BY <1>1, <1>2, <1>3, <1>4, <1>5, RelayKeeps

-----------------------------------------------------------------------------
(* Steps that touch the records, the files and the units.                  *)

\* A create writes its record down for the first time.
FirstSave(p) == Kind[p] = "create" /\ at[p].n = 16

LEMMA FirstSaveSafe ==
  ASSUME LifecycleAssumption, IInv, NEW p \in Process, Save(p), FirstSave(p), faults' = faults
  PROVE  IInv'
<1> DEFINE s == at[p].slug
           a == at[p].agent
<1>0. /\ TypeInv /\ HandsTyped /\ HandsMatch /\ Turns /\ Origins /\ EnabledIsRecorded
      /\ UnmanagedUntouched /\ KeysKnown /\ DeletesClear /\ at[p].due = {}
  BY DEF IInv, Save, At
<1>1. /\ Moves(p) /\ Advances(p) /\ s \in Slug /\ a \in AgentRecord
      /\ saved' = [saved EXCEPT ![s] = a] /\ UNCHANGED <<env, unit, relay, community, runtime>>
  BY <1>0, SaveEffect
<1>2. /\ Kind[p] = "create" /\ at[p].n = 16 /\ at'[p].phase = "on" /\ at'[p].n = 17
      /\ at'[p].due = {} /\ at'[p].slug = s /\ at'[p].agent = a
  BY <1>0, <1>1 DEF FirstSave, Advances, KeepsHand, KeepsAgent
<1>3. a.key = p /\ a.managed /\ saved[s] = None /\ a # None
  <2>1. HandMatches(p) /\ Held(p) /\ Minted(p)
    BY <1>0, <1>1, <1>2 DEF HandsMatch, HandsTyped, Moves, Minted
  <2> QED BY <1>2, <2>1 DEF HandMatches, Held
<1> HIDE DEF s, a
<1>4. saved' \in [Slug -> AgentRecord \cup {None}] /\ saved'[s] = a
      /\ \A t \in Slug : t # s => saved'[t] = saved[t]
  BY <1>0, <1>1 DEF TypeInv
<1>5. TypeInv'
  BY <1>0, <1>1, <1>4 DEF TypeInv, Moves
<1>6. HandsTyped'
  <2>1. ~InBody(p)' /\ ~Updating(p)' /\ ~Deleting(p)'
    BY <1>2 DEF InBody, Updating, Deleting, Loops
  <2>2. 17 \in 1..(Len(Steps[p]) + 1)
    BY <1>2, Lengths
  <2>3. Held(p)'
    BY <1>1, <1>2, <1>3, <2>1, <2>2 DEF Held
  <2> QED BY <1>0, <1>1, <2>3, HandsStayTyped
<1>7. Turns'
  BY <1>0, <1>1, TurnsStay
<1>8. HandsMatch'
  <2>1. ~InLoop(p)' /\ ~InBody(p)' /\ ~Updating(p)' /\ ~Deleting(p)'
    BY <1>2 DEF InLoop, InBody, Updating, Deleting, Loops
  <2>2. Matches(at[p].agent, at[p].slug)'
    BY <1>2, <1>3, <1>4 DEF Matches, Same
  <2>3. at'[p].agent.key = p /\ at'[p].agent.managed /\ ~(at'[p].n <= 16)
    BY <1>2, <1>3
  <2>4. HandMatches(p)'
    BY <2>1, <2>2, <2>3 DEF HandMatches
  <2> QED BY <1>0, <1>1, <1>2, <2>4, HandsStayMatched
<1>9. Origins'
  <2> SUFFICES ASSUME NEW t \in Slug, saved'[t] # None
               PROVE  \/ Agents[t] # None /\ saved'[t].key = Agents[t].key
                      \/ \E q \in Process : Kind[q] = "create" /\ saved'[t].key = q /\ at'[q].n >= 17 /\ at'[q].slug = t
    BY DEF Origins
  <2>1. CASE t = s
    <3>1. Kind[p] = "create" /\ saved'[t].key = p /\ at'[p].n >= 17 /\ at'[p].slug = t
      BY <1>2, <1>3, <1>4, <2>1
    <3> QED BY <3>1
  <2>2. CASE t # s
    <3>1. saved'[t] = saved[t]
      BY <1>4, <2>2
    <3>2. ASSUME NEW q \in Process, at[q].n >= 17 PROVE at'[q] = at[q]
      BY <1>1, <1>2, <3>2 DEF Moves
    <3> QED BY <1>0, <3>1, <3>2 DEF Origins
  <2> QED BY <2>1, <2>2
<1>10. EnabledIsRecorded'
  <2>1. \A t \in Slug : unit'[t].enabled => unit[t].enabled
    BY <1>1
  <2>2. \A t \in Slug : saved[t] # None => saved'[t] # None
    BY <1>3, <1>4
  <2> QED BY <1>0, <2>1, <2>2, EnabledStays
<1>11. Disabled'
  BY <1>0, <1>1, <1>2, DisabledStays
<1>12. UnmanagedUntouched'
  <2>1. \A t \in Slug : saved'[t] # None /\ ~saved'[t].managed => t # s /\ saved'[t] = saved[t]
    BY <1>3, <1>4
  <2> QED BY <1>0, <1>1, <2>1, UnmanagedStays
<1>13. KeysKnown'
  <2>1. ASSUME NEW t \in Slug, t # s PROVE ~AccountsFor(p, t)
    BY <2>1 DEF AccountsFor, s
  <2>2. ASSUME NoneStopped', env'[s] # None PROVE saved'[s] # None /\ env'[s].key = saved'[s].key
    <3>1. NoneStopped
      BY <1>1, <2>2, Others DEF NoneStopped, Moves, Active
    <3>2. FileKnown(s)
      BY <1>0, <1>1, <2>2, <3>1 DEF KeysKnown
    <3>3. ASSUME NEW q \in Process, AccountsFor(q, s) PROVE env[s].key = p
      <4>1. q = p
        BY <1>0, <1>1, <1>2, <3>3, Undisturbed DEF AccountsFor, Moves
      <4> QED BY <1>2, <3>3, <4>1 DEF AccountsFor
    <3>4. env[s].key = p
      BY <1>3, <3>2, <3>3 DEF FileKnown
    <3> QED BY <1>1, <1>3, <1>4, <3>4
  <2>3. \A t \in Slug : t # s => env'[t] = env[t] /\ saved'[t] = saved[t] /\ ~AccountsFor(p, t)
    BY <1>1, <1>4, <2>1
  <2> QED BY <1>0, <1>1, <2>2, <2>3, KeysStay
<1>14. DeletesClear'
  BY <1>0, <1>1, <1>2, ClearStays
<1> QED BY <1>5, <1>6, <1>7, <1>8, <1>9, <1>10, <1>11, <1>12, <1>13, <1>14 DEF IInv

\* A record is written over with the same key, managed as before.
LEMMA RewriteSafe ==
  ASSUME LifecycleAssumption, IInv, NEW p \in Process, Moves(p), Kind[p] # "delete",
         TypeInv', HandsTyped', HandsMatch', CreateStays(p),
         NEW s \in Slug, saved[s] # None, saved'[s] # None,
         saved'[s].key = saved[s].key, saved'[s].managed = saved[s].managed,
         \A t \in Slug : t # s => saved'[t] = saved[t],
         UNCHANGED <<env, unit, relay>>
  PROVE  IInv'
<1>0. /\ TypeInv /\ Turns /\ Origins /\ EnabledIsRecorded
      /\ UnmanagedUntouched /\ KeysKnown /\ DeletesClear
  BY DEF IInv
<1>1. \A t \in Slug : /\ (saved'[t] # None <=> saved[t] # None)
                      /\ saved'[t] # None => /\ saved'[t].key = saved[t].key
                                             /\ saved'[t].managed = saved[t].managed
  OBVIOUS
<1>2. Turns'
  BY <1>0, TurnsStay
<1>3. Origins'
  BY <1>0, <1>1, OriginsStay
<1>4. EnabledIsRecorded'
  BY <1>0, <1>1, EnabledStays
<1>5. Disabled'
  BY <1>0, DisabledStays
<1>6. UnmanagedUntouched'
  BY <1>0, <1>1, UnmanagedStays
<1>7. KeysKnown'
  <2>1. ASSUME NEW t \in Slug, NoneStopped', env'[t] # None
        PROVE  \/ saved'[t] # None /\ env'[t].key = saved'[t].key
               \/ env'[t] = env[t] /\ saved'[t] = saved[t] /\ ~AccountsFor(p, t)
    <3>1. NoneStopped
      BY <2>1, Others DEF NoneStopped, Moves, Active
    <3>2. FileKnown(t)
      BY <1>0, <2>1, <3>1 DEF KeysKnown
    <3>3. CASE saved[t] # None /\ env[t].key = saved[t].key
      BY <1>1, <3>3
    <3>4. ASSUME NEW q \in Process, AccountsFor(q, t) PROVE FALSE
      <4>1. Active(q) /\ (Kind[q] = "create" \/ Kind[q] = "delete")
        BY <3>4 DEF AccountsFor
      <4>2. q # p
        BY <2>1, <3>4 DEF AccountsFor, CreateStays, NoneStopped
      <4> QED BY <1>0, <4>1, <4>2, Undisturbed DEF Moves
    <3>5. CASE ~(saved[t] # None /\ env[t].key = saved[t].key)
      BY <3>2, <3>4, <3>5 DEF FileKnown
    <3> QED BY <3>3, <3>5
  <2> QED BY <1>0, <2>1, KeysStay
<1>8. DeletesClear'
  BY <1>0, ClearStays
<1> QED BY <1>2, <1>3, <1>4, <1>5, <1>6, <1>7, <1>8 DEF IInv

LEMMA SaveSafe ==
  ASSUME LifecycleAssumption, IInv, NEW p \in Process, Save(p), faults' = faults
  PROVE  IInv'
<1> DEFINE s == at[p].slug
           a == at[p].agent
<1>0. TypeInv /\ HandsTyped /\ HandsMatch /\ Turns /\ at[p].due = {}
  BY DEF IInv, Save, At
<1>1. /\ Moves(p) /\ Advances(p) /\ s \in Slug /\ a \in AgentRecord
      /\ \/ Kind[p] = "create" /\ at[p].n \in {16, 18}
         \/ Kind[p] = "update" /\ at[p].n = 7
      /\ saved' = [saved EXCEPT ![s] = a] /\ UNCHANGED <<env, unit, relay, community, runtime>>
  BY <1>0, SaveEffect
<1>2. CASE FirstSave(p)
  BY <1>2, FirstSaveSafe
<1>3. CASE ~FirstSave(p)
  <2>1. (Kind[p] = "create" /\ at[p].n = 18) \/ (Kind[p] = "update" /\ at[p].n = 7)
    BY <1>1, <1>3 DEF FirstSave
  <2>2. (Minted(p) /\ at[p].n > 16) \/ Updating(p)
    BY <2>1 DEF Minted, Updating
  <2>3. saved[s] # None /\ a.key = saved[s].key /\ a.managed = saved[s].managed /\ a # None
    BY <1>1, <2>2, HandRecorded DEF Moves, LifecycleAssumption
  <2>4. /\ at'[p].phase = "on" /\ at'[p].n = at[p].n + 1 /\ at'[p].due = {} /\ KeepsAgent(p)
        /\ at'[p].slug = s /\ at'[p].agent = a
    BY <1>0, <1>1 DEF Advances, KeepsHand, KeepsAgent
  <2>5. ~TakesUp(p) /\ CreateStays(p) /\ Kind[p] # "delete"
    BY <2>1, <2>4 DEF TakesUp, CreateStays, Loops
  <2>6. Held(p)'
    BY <1>0, <1>1, <2>4, <2>5, AdvanceKeeps
  <2>7. HandMatches(p) /\ (Minted(p) => a.key = p /\ a.managed)
    BY <1>0, <1>1 DEF HandsMatch, HandMatches, Moves
  <2> HIDE DEF s, a
  <2>8. saved' \in [Slug -> AgentRecord \cup {None}] /\ saved'[s] = a
        /\ \A t \in Slug : t # s => saved'[t] = saved[t]
    BY <1>0, <1>1 DEF TypeInv
  <2>9. TypeInv'
    BY <1>0, <1>1, <2>8 DEF TypeInv, Moves
  <2>10. HandMatches(p)'
    <3>1. /\ ~InLoop(p)' /\ ~InBody(p)' /\ ~Deleting(p)' /\ (Minted(p)' => Minted(p) /\ ~(at'[p].n <= 16))
      BY <2>1, <2>4 DEF InLoop, InBody, Minted, Deleting, Loops
    <3>2. Matches(at[p].agent, at[p].slug)'
      BY <2>3, <2>4, <2>8 DEF Matches, Same
    <3>3. saved'[at'[p].slug] # None /\ at'[p].agent = saved'[at'[p].slug]
      BY <2>3, <2>4, <2>8
    <3> QED BY <2>4, <2>7, <3>1, <3>2, <3>3 DEF HandMatches
  <2>11. HandsTyped' /\ HandsMatch'
    BY <1>0, <1>1, <2>5, <2>6, <2>10, <2>1, HandsStayTyped, HandsStayMatched
  <2> QED BY <1>1, <2>3, <2>5, <2>8, <2>9, <2>11, RewriteSafe
<1> QED BY <1>2, <1>3

LEMMA KeepSafe ==
  ASSUME LifecycleAssumption, IInv, NEW p \in Process, Keep(p), faults' = faults
  PROVE  IInv'
<1> DEFINE s == at[p].slug
           a == at[p].agent
<1>0. TypeInv /\ HandsTyped /\ HandsMatch /\ Turns /\ at[p].due = {}
  BY DEF IInv, Keep, At
<1>1. /\ Moves(p) /\ Advances(p) /\ Loops(p) /\ at[p].n = 9 /\ s \in Slug /\ a \in AgentRecord
      /\ saved' = saved \/ saved' = [saved EXCEPT ![s] = a]
      /\ UNCHANGED <<env, unit, relay, community, runtime>>
  BY <1>0, KeepEffect
<1>2. /\ at'[p].phase = "on" /\ at'[p].n = 10 /\ at'[p].due = {} /\ KeepsAgent(p)
      /\ at'[p].slug = s /\ at'[p].agent = a /\ at'[p].todo = at[p].todo
  BY <1>0, <1>1 DEF Advances, KeepsHand, KeepsAgent
<1>3. ~TakesUp(p) /\ CreateStays(p) /\ DeleteStays(p) /\ Kind[p] # "delete"
  BY <1>1 DEF TakesUp, CreateStays, DeleteStays, Loops
<1>4. Held(p)' /\ (saved' = saved => HandMatches(p)')
  BY <1>0, <1>1, <1>2, <1>3, AdvanceKeeps
<1>5. CASE saved' = saved
  <2>1. TypeInv'
    BY <1>0, <1>1, <1>5 DEF TypeInv, Moves
  <2> QED BY <1>1, <1>3, <1>4, <1>5, <2>1, QuietKeeps
<1>6. CASE saved' = [saved EXCEPT ![s] = a]
  <2>1. InBody(p) /\ InLoop(p)
    BY <1>1 DEF InBody, InLoop
  <2>2. /\ saved[s] # None /\ a.key = saved[s].key /\ a.managed = saved[s].managed /\ a # None
        /\ Updating(p) \/ Matches(a, s)
    BY <1>1, <2>1, HandRecorded DEF Moves, LifecycleAssumption
  <2>3. Matches(a, s)
    BY <1>1, <2>2 DEF Updating, Loops
  <2> HIDE DEF s, a
  <2>4. saved' \in [Slug -> AgentRecord \cup {None}] /\ saved'[s] = a
        /\ \A t \in Slug : t # s => saved'[t] = saved[t]
    BY <1>0, <1>1, <1>6 DEF TypeInv
  <2>5. TypeInv'
    BY <1>0, <1>1, <2>4 DEF TypeInv, Moves
  <2>6. ASSUME NEW b, NEW t \in Slug, saved[t] # None, Same(b, saved[t])
        PROVE  saved'[t] # None /\ Same(b, saved'[t])
    BY <2>2, <2>3, <2>4, <2>6 DEF Matches, Same
  <2>7. HandsMatch'
    <3> SUFFICES ASSUME NEW q \in Process, Active(q)' PROVE HandMatches(q)'
      BY DEF HandsMatch
    <3>1. Active(q)
      BY <1>1, Others DEF Moves
    <3>2. HandMatches(q) /\ Held(q)
      BY <1>0, <3>1 DEF HandsMatch, HandsTyped
    <3>3. /\ ~Minted(q)' /\ ~Updating(q)' /\ ~Deleting(q)'
          /\ InLoop(q)' => InLoop(q)
          /\ InBody(q)' => InBody(q)
          /\ at'[q].todo = at[q].todo /\ at'[q].slug = at[q].slug /\ at'[q].agent = at[q].agent
      <4>1. CASE q = p
        <5>1. /\ Loops(q) /\ at[q].n = 9 /\ at'[q].n = 10
              /\ at'[q].todo = at[q].todo /\ at'[q].slug = at[q].slug /\ at'[q].agent = at[q].agent
          BY <1>1, <1>2, <4>1 DEF KeepsAgent
        <5>2. InLoop(q) /\ InBody(q) /\ ~Minted(q)' /\ ~Updating(q)' /\ ~Deleting(q)'
          BY <5>1 DEF InLoop, InBody, Minted, Updating, Deleting, Loops
        <5> QED BY <5>1, <5>2
      <4>2. CASE q # p
        <5>1. Kind[q] = "heal" /\ at'[q] = at[q]
          BY <1>0, <1>1, <3>1, <4>2, Undisturbed DEF Moves
        <5> QED BY <5>1 DEF InLoop, InBody, Minted, Updating, Deleting
      <4> QED BY <4>1, <4>2
    <3>4. InLoop(q)' => \A t \in Slug : at'[q].todo[t] # None => Matches(at[q].todo[t], t)'
      BY <2>6, <3>2, <3>3 DEF HandMatches, Matches
    <3>5. InBody(q)' => Matches(at[q].agent, at[q].slug)'
      BY <2>6, <3>2, <3>3 DEF HandMatches, Matches, Held
    <3> QED BY <3>3, <3>4, <3>5 DEF HandMatches
  <2>8. HandsTyped'
    BY <1>0, <1>1, <1>4, HandsStayTyped
  <2> QED BY <1>1, <1>3, <2>2, <2>4, <2>5, <2>7, <2>8, RewriteSafe DEF s
<1> QED BY <1>1, <1>5, <1>6

LEMMA WriteFilesSafe ==
  ASSUME LifecycleAssumption, IInv, NEW p \in Process, WriteFiles(p), faults' = faults
  PROVE  IInv'
<1> DEFINE s == at[p].slug
           a == at[p].agent
<1>0. /\ TypeInv /\ HandsTyped /\ HandsMatch /\ Turns /\ Origins /\ EnabledIsRecorded
      /\ UnmanagedUntouched /\ KeysKnown /\ DeletesClear /\ at[p].due = {}
  BY DEF IInv, WriteFiles, At
<1>1. /\ Moves(p) /\ s \in Slug /\ a \in AgentRecord
      /\ \/ Loops(p) /\ at[p].n = 11
         \/ Kind[p] = "create" /\ at[p].n = 15
         \/ Kind[p] = "update" /\ at[p].n = 5
      /\ UNCHANGED <<saved, unit, relay, community, runtime>>
      /\ \/ Halts(p) /\ UNCHANGED env
         \/ /\ Advances(p)
            /\ \E file \in EnvRecord : /\ file.key = a.key /\ (file.tag => a.managed)
                                       /\ env' = [env EXCEPT ![s] = file]
  BY <1>0, WriteFilesEffect
<1>2. Kind[p] # "delete" /\ ~(Kind[p] = "create" /\ at[p].n = 16)
  BY <1>1 DEF Loops
<1>3. CASE Halts(p) /\ UNCHANGED env
  <2>1. TypeInv'
    BY <1>0, <1>1, <1>3 DEF TypeInv, Moves
  <2> QED BY <1>1, <1>2, <1>3, <2>1, HaltSafe
<1>4. ASSUME Advances(p), NEW file \in EnvRecord, file.key = a.key, file.tag => a.managed,
             env' = [env EXCEPT ![s] = file]
      PROVE  IInv'
  <2>1. /\ at'[p].phase = "on" /\ at'[p].n = at[p].n + 1 /\ at'[p].due = {} /\ KeepsAgent(p)
        /\ at'[p].slug = s
    BY <1>0, <1>4 DEF Advances, KeepsHand, KeepsAgent
  <2>2. ~TakesUp(p) /\ CreateStays(p)
    BY <1>1 DEF TakesUp, CreateStays, Loops
  <2>3. Held(p)' /\ HandMatches(p)'
    BY <1>0, <1>1, <2>1, <2>2, AdvanceKeeps
  <2>4. HandMatches(p)
    BY <1>0, <1>1 DEF HandsMatch, Moves
  <2>5. CASE Kind[p] = "create" /\ at[p].n = 15
    <3>1. a.key = p /\ saved[s] = None
      BY <2>4, <2>5 DEF HandMatches, Minted
    <3>2. Active(p)'
      BY <2>1, <2>5, Lengths DEF Active
    <3> HIDE DEF s, a
    <3>3. env' \in [Slug -> EnvRecord \cup {None}] /\ env'[s] = file
          /\ \A t \in Slug : t # s => env'[t] = env[t]
      BY <1>0, <1>1, <1>4 DEF TypeInv
    <3>4. TypeInv'
      BY <1>0, <1>1, <3>3 DEF TypeInv, Moves
    <3>5. UnmanagedUntouched'
      <4>1. \A t \in Slug : saved'[t] # None => t # s /\ saved'[t] = saved[t] /\ env'[t] = env[t]
        BY <1>1, <3>1, <3>3
      <4> QED BY <1>0, <1>1, <4>1, UnmanagedStays
    <3>6. KeysKnown'
      <4>1. ASSUME NEW t \in Slug, t = s PROVE AccountsFor(p, t)'
        BY <1>4, <2>1, <2>5, <3>1, <3>2, <3>3, <4>1 DEF AccountsFor
      <4>2. \A t \in Slug : ~AccountsFor(p, t)
        BY <2>5 DEF AccountsFor
      <4> QED BY <1>0, <1>1, <3>3, <4>1, <4>2, KeysStay
    <3> QED BY <1>0, <1>1, <1>2, <2>2, <2>3, <3>4, <3>5, <3>6, HandsStayTyped, TurnsStay, HandsStayMatched,
               OriginsStay, EnabledStays, DisabledStays, ClearStays DEF IInv
  <2>6. CASE ~(Kind[p] = "create" /\ at[p].n = 15)
    <3>1. InBody(p) \/ Updating(p)
      BY <1>1, <2>6 DEF InBody, Updating
    <3>2. saved[s] # None /\ a.key = saved[s].key /\ a.managed = saved[s].managed
      BY <1>1, <3>1, HandRecorded DEF Moves
    <3> HIDE DEF s, a
    <3>3. env' \in [Slug -> EnvRecord \cup {None}] /\ env'[s] = file
          /\ \A t \in Slug : t # s => env'[t] = env[t]
      BY <1>0, <1>1, <1>4 DEF TypeInv
    <3>4. TypeInv'
      BY <1>0, <1>1, <3>3 DEF TypeInv, Moves
    <3>5. UnmanagedUntouched'
      <4>1. ASSUME NEW t \in Slug, saved'[t] # None, ~saved'[t].managed
            PROVE  env'[t] # None /\ env'[t].tag => env[t] # None /\ env[t].tag
        <5>1. CASE t = s
          BY <1>1, <1>4, <3>2, <3>3, <4>1, <5>1
        <5>2. CASE t # s
          BY <3>3, <5>2
        <5> QED BY <5>1, <5>2
      <4> QED BY <1>0, <1>1, <4>1, UnmanagedStays
    <3>6. KeysKnown'
      <4>1. saved'[s] # None /\ env'[s].key = saved'[s].key
        BY <1>1, <1>4, <3>2, <3>3
      <4>2. \A t \in Slug : ~AccountsFor(p, t)
        BY <1>2 DEF AccountsFor
      <4> QED BY <1>0, <1>1, <3>3, <4>1, <4>2, KeysStay
    <3> QED BY <1>0, <1>1, <1>2, <2>2, <2>3, <3>4, <3>5, <3>6, HandsStayTyped, TurnsStay, HandsStayMatched,
               OriginsStay, EnabledStays, DisabledStays, ClearStays DEF IInv
  <2> QED BY <2>5, <2>6
<1> QED BY <1>1, <1>3, <1>4

\* A unit is started, stopped or enabled by a process that is not a delete.
LEMMA UnitSafe ==
  ASSUME LifecycleAssumption, IInv, NEW p \in Process, Moves(p), Kind[p] # "delete",
         unit' \in [Slug -> Unit], EnabledIsRecorded', CreateStays(p),
         UNCHANGED <<saved, env, relay, community, runtime, faults>>,
         Held(p)', Active(p)' => HandMatches(p)'
  PROVE  IInv'
<1>0. /\ TypeInv /\ HandsTyped /\ HandsMatch /\ Turns /\ Origins
      /\ UnmanagedUntouched /\ KeysKnown /\ DeletesClear
  BY DEF IInv
<1>1. TypeInv'
  BY <1>0 DEF TypeInv, Moves
<1>2. HandsTyped' /\ Turns' /\ HandsMatch' /\ Origins' /\ Disabled' /\ UnmanagedUntouched' /\ DeletesClear'
  BY <1>0, HandsStayTyped, TurnsStay, HandsStayMatched, OriginsStay, DisabledStays, UnmanagedStays, ClearStays
<1>3. KeysKnown'
  <2>1. ASSUME NEW s \in Slug, NoneStopped' PROVE ~AccountsFor(p, s)
    BY <2>1 DEF AccountsFor, CreateStays, NoneStopped
  <2> QED BY <1>0, <2>1, KeysStay
<1> QED BY <1>1, <1>2, <1>3 DEF IInv

LEMMA RestartSafe ==
  ASSUME LifecycleAssumption, IInv, NEW p \in Process, Restart(p), faults' = faults
  PROVE  IInv'
<1>0. TypeInv /\ HandsTyped /\ HandsMatch /\ EnabledIsRecorded /\ at[p].due = {}
  BY DEF IInv, Restart, At
<1>1. /\ Moves(p) /\ Kind[p] = "update" /\ at[p].n = 6 /\ Restarts(at[p].slug)
      /\ UNCHANGED <<saved, env, relay, community, runtime>> /\ (Advances(p) \/ Halts(p))
  BY <1>0, RestartEffect
<1>2. Kind[p] # "delete" /\ ~TakesUp(p) /\ CreateStays(p)
  BY <1>1 DEF TakesUp, CreateStays, Loops
<1>3. unit' \in [Slug -> Unit] /\ EnabledIsRecorded'
  BY <1>0, <1>1, EnabledStays DEF Restarts
<1>4. Held(p)' /\ (Active(p)' => HandMatches(p)')
  <2>1. CASE Advances(p)
    BY <1>0, <1>1, <1>2, <2>1, AdvanceKeeps DEF Advances, KeepsHand
  <2>2. CASE Halts(p)
    BY <1>0, <1>1, <2>2, HaltKeeps
  <2> QED BY <1>1, <2>1, <2>2
<1> QED BY <1>1, <1>2, <1>3, <1>4, UnitSafe

LEMMA TryRestartSafe ==
  ASSUME LifecycleAssumption, IInv, NEW p \in Process, TryRestart(p), faults' = faults
  PROVE  IInv'
<1>0. TypeInv /\ HandsTyped /\ HandsMatch /\ EnabledIsRecorded /\ at[p].due = {}
  BY DEF IInv, TryRestart, At
<1>1. /\ Moves(p) /\ Loops(p) /\ at[p].n = 12 /\ Restarts(at[p].slug)
      /\ UNCHANGED <<saved, env, relay, community, runtime>>
      /\ (at'[p].phase = "on" /\ at'[p].n = 7 /\ KeepsHand(p)) \/ Halts(p)
  BY <1>0, TryRestartEffect
<1>2. Kind[p] # "delete" /\ CreateStays(p)
  BY <1>1 DEF CreateStays, Loops
<1>3. unit' \in [Slug -> Unit] /\ EnabledIsRecorded'
  BY <1>0, <1>1, EnabledStays DEF Restarts
<1>4. Held(p)' /\ (Active(p)' => HandMatches(p)')
  <2>1. CASE at'[p].phase = "on" /\ at'[p].n = 7 /\ KeepsHand(p)
    BY <1>0, <1>1, <2>1, LoopKeeps DEF KeepsHand
  <2>2. CASE Halts(p)
    BY <1>0, <1>1, <2>2, HaltKeeps
  <2> QED BY <1>1, <2>1, <2>2
<1> QED BY <1>1, <1>2, <1>3, <1>4, UnitSafe

LEMMA EnableSafe ==
  ASSUME LifecycleAssumption, IInv, NEW p \in Process, Enable(p), faults' = faults
  PROVE  IInv'
<1> DEFINE s == at[p].slug
<1>0. TypeInv /\ HandsTyped /\ HandsMatch /\ EnabledIsRecorded /\ at[p].due = {}
  BY DEF IInv, Enable, At
<1>1. /\ Moves(p) /\ Kind[p] = "create" /\ at[p].n = 19 /\ s \in Slug
      /\ UNCHANGED <<saved, env, relay, community, runtime>>
      /\ unit' \in [Slug -> Unit] /\ \A t \in Slug : t # s => unit'[t] = unit[t]
      /\ Advances(p) \/ Halts(p)
  BY <1>0, EnableEffect
<1>2. Kind[p] # "delete" /\ ~TakesUp(p)
  BY <1>1 DEF TakesUp, Loops
<1>3. CreateStays(p)
  BY <1>1 DEF CreateStays, Advances, Halts, KeepsHand, KeepsAgent
<1>4. saved[s] # None
  <2>1. Minted(p) /\ at[p].n > 16
    BY <1>1 DEF Minted
  <2> QED BY <1>1, <2>1, HandRecorded DEF Moves
<1>5. EnabledIsRecorded'
  <2> HIDE DEF s
  <2> QED BY <1>0, <1>1, <1>4 DEF EnabledIsRecorded, Recorded
<1>6. Held(p)' /\ (Active(p)' => HandMatches(p)')
  <2>1. CASE Advances(p)
    BY <1>0, <1>1, <1>2, <2>1, AdvanceKeeps DEF Advances, KeepsHand
  <2>2. CASE Halts(p)
    BY <1>0, <1>1, <2>2, HaltKeeps
  <2> QED BY <1>1, <2>1, <2>2
<1> QED BY <1>1, <1>2, <1>3, <1>5, <1>6, UnitSafe

-----------------------------------------------------------------------------
(* A delete, one step further.                                             *)

LEMMA DeleteSafe ==
  ASSUME LifecycleAssumption, IInv, NEW p \in Process, Moves(p), Kind[p] = "delete",
         TypeInv', Held(p)', Active(p)' => HandMatches(p)', Cleared(p)',
         Active(p)' /\ at'[p].n >= 3 => ~unit'[at'[p].slug].enabled,
         \A s \in Slug : saved'[s] # None => saved'[s] = saved[s],
         EnabledIsRecorded', UnmanagedUntouched', KeysKnown'
  PROVE  IInv'
<1>0. HandsTyped /\ HandsMatch /\ Turns /\ Origins /\ DeletesClear
  BY DEF IInv
<1>1. HandsTyped' /\ Turns' /\ HandsMatch'
  BY <1>0, HandsStayTyped, TurnsStay, HandsStayMatched
<1>2. Origins'
  BY <1>0, OriginsStay DEF CreateStays
<1>3. Disabled' /\ DeletesClear'
  BY <1>0, DisabledStays, ClearStays
<1> QED BY <1>1, <1>2, <1>3 DEF IInv

LEMMA DisableSafe ==
  ASSUME LifecycleAssumption, IInv, NEW p \in Process, Disable(p), faults' = faults
  PROVE  IInv'
<1>0. /\ TypeInv /\ HandsTyped /\ HandsMatch /\ Turns /\ EnabledIsRecorded
      /\ UnmanagedUntouched /\ KeysKnown /\ DeletesClear /\ at[p].due = {}
  BY DEF IInv, Disable, At
<1>1. /\ Moves(p) /\ Kind[p] = "delete" /\ at[p].n = 2 /\ at[p].slug \in Slug
      /\ UNCHANGED <<saved, env, relay, community, runtime>>
      /\ (Halts(p) /\ UNCHANGED unit) \/ (Advances(p) /\ DisableEffectOn(p))
  BY <1>0, DisableEffect
<1>2. CASE Halts(p) /\ UNCHANGED unit
  <2>1. TypeInv'
    BY <1>0, <1>1, <1>2 DEF TypeInv, Moves
  <2> QED BY <1>1, <1>2, <2>1, HaltSafe
<1>3. CASE Advances(p) /\ DisableEffectOn(p)
  <2>1. /\ at'[p].phase = "on" /\ at'[p].n = 3 /\ at'[p].due = {} /\ KeepsAgent(p)
        /\ at'[p].slug = at[p].slug
    BY <1>0, <1>1, <1>3 DEF Advances, KeepsHand, KeepsAgent
  <2>2. ~TakesUp(p)
    BY <1>1 DEF TakesUp, Loops
  <2>3. Held(p)' /\ HandMatches(p)'
    BY <1>0, <1>1, <2>1, <2>2, AdvanceKeeps
  <2>4. TypeInv'
    BY <1>0, <1>1, <1>3 DEF TypeInv, Moves, DisableEffectOn
  <2>5. unit'[at[p].slug] = Stopped(FALSE) /\ ~unit'[at[p].slug].enabled
    BY <1>3 DEF DisableEffectOn, Stopped
  <2>6. EnabledIsRecorded'
    <3>1. \A s \in Slug : unit'[s].enabled => unit[s].enabled
      BY <1>3, <2>5 DEF DisableEffectOn
    <3> QED BY <1>0, <1>1, <3>1, EnabledStays
  <2>7. UnmanagedUntouched'
    BY <1>0, <1>1, UnmanagedStays
  <2>8. KeysKnown'
    <3>1. \A s \in Slug : ~AccountsFor(p, s)
      BY <1>1 DEF AccountsFor
    <3> QED BY <1>0, <1>1, <3>1, KeysStay
  <2>9. Cleared(p)'
    <3>1. at[p].slug = Target[p]
      <4>1. latest = p /\ at[p].phase = "on"
        BY <1>0, <1>1 DEF Turns, Moves, Active
      <4>2. Cleared(p) /\ at[p].n >= 2
        BY <1>0, <1>1, <4>1 DEF DeletesClear
      <4> QED BY <4>2 DEF Cleared
    <3>2. ~(at'[p].n >= 4) /\ ~(at'[p].n >= 5) /\ ~(at'[p].n >= 6)
      BY <2>1
    <3> QED BY <2>1, <2>5, <3>1, <3>2 DEF Cleared, Stopped
  <2> QED BY <1>1, <2>1, <2>3, <2>4, <2>5, <2>6, <2>7, <2>8, <2>9, DeleteSafe
<1> QED BY <1>1, <1>2, <1>3

LEMMA TeardownSafe ==
  ASSUME LifecycleAssumption, IInv, NEW p \in Process, Teardown(p), faults' = faults
  PROVE  IInv'
<1> DEFINE a == at[p].agent
           due == IF a.managed THEN a.cfg["channels"] \cup {"managed"} ELSE {}
<1>0. /\ TypeInv /\ HandsTyped /\ HandsMatch /\ Turns /\ EnabledIsRecorded /\ Disabled
      /\ UnmanagedUntouched /\ KeysKnown /\ DeletesClear /\ at[p].due = {}
  BY DEF IInv, Teardown, At
<1>1. /\ Moves(p) /\ Ends(p) /\ Kind[p] = "delete" /\ at[p].n = 3
      /\ at[p].slug \in Slug /\ a \in AgentRecord
      /\ UNCHANGED <<saved, env, unit, community, runtime>> /\ TakesBack(p, due)
  BY <1>0, TeardownEffect
<1>2. /\ \/ at'[p].phase = "on" /\ at'[p].n = 4 /\ Advances(p)
         \/ at'[p].phase = "raised" /\ at'[p].n = 3 /\ Halts(p)
      /\ at'[p].due = {} /\ KeepsAgent(p) /\ at'[p].slug = at[p].slug /\ at'[p].agent = a
  BY <1>0, <1>1 DEF Ends, Advances, Halts, KeepsHand, KeepsAgent
<1>3. ~TakesUp(p)
  BY <1>1 DEF TakesUp, Loops
<1>4. Held(p)' /\ (Active(p)' => HandMatches(p)')
  <2>1. CASE Advances(p)
    BY <1>0, <1>1, <1>2, <1>3, <2>1, AdvanceKeeps DEF Advances
  <2>2. CASE Halts(p)
    BY <1>0, <1>1, <2>2, HaltKeeps
  <2> QED BY <1>2, <2>1, <2>2
<1> HIDE DEF due
<1>5. TypeInv'
  BY <1>0, <1>1 DEF TypeInv, Moves, TakesBack
<1>6. EnabledIsRecorded'
  BY <1>0, <1>1, EnabledStays
<1>7. \A k \in Key : relay[k] = NothingOnRelay => relay'[k] = NothingOnRelay
  BY <1>1 DEF TakesBack, NothingOnRelay
<1>8. UnmanagedUntouched'
  <2>1. \A s \in Slug : saved[s] # None => saved[s].key \in Key
    BY <1>0 DEF TypeInv, AgentRecord
  <2> QED BY <1>0, <1>1, <1>7, <2>1, UnmanagedStays
<1>9. KeysKnown'
  <2>1. \A s \in Slug : ~AccountsFor(p, s)
    BY <1>1 DEF AccountsFor
  <2> QED BY <1>0, <1>1, <2>1, KeysStay
<1>10. ~unit'[at'[p].slug].enabled
  BY <1>0, <1>1, <1>2 DEF Disabled, Moves
<1>11. Cleared(p)'
  <2>1. latest = p /\ at[p].phase = "on"
    BY <1>0, <1>1 DEF Turns, Moves, Active
  <2>2. at[p].slug = Target[p] /\ unit[at[p].slug] = Stopped(FALSE)
    <3>1. Cleared(p) /\ at[p].n >= 2 /\ at[p].n >= 3
      BY <1>0, <1>1, <2>1 DEF DeletesClear
    <3> QED BY <3>1 DEF Cleared
  <2>3. saved[at[p].slug] = a
    <3>1. HandMatches(p) /\ Deleting(p)
      BY <1>0, <1>1 DEF HandsMatch, Moves, Deleting
    <3> QED BY <1>1, <3>1 DEF HandMatches
  <2>4. a.cfg["channels"] \cup {"managed"} \subseteq Item /\ a.key \in Key
    BY <1>1 DEF LifecycleAssumption, AgentRecord, Item, Publication
  <2>5. at'[p].phase = "on" /\ ~RelayMayFail => \A i \in a.cfg["channels"] \cup {"managed"} : relay'[a.key][i] = None
    <3>1. CASE a.managed
      BY <1>1, <2>4, <3>1 DEF TakesBack, due
    <3>2. CASE ~a.managed
      <4>1. saved[at[p].slug] # None
        BY <1>1, <2>3 DEF LifecycleAssumption
      <4>2. relay[a.key] = NothingOnRelay
        BY <1>0, <1>1, <2>3, <3>2, <4>1 DEF UnmanagedUntouched, Recorded
      <4>3. relay'[a.key] = NothingOnRelay
        BY <1>7, <2>4, <4>2
      <4> QED BY <2>4, <4>3 DEF NothingOnRelay
    <3> QED BY <3>1, <3>2
  <2>6. /\ ~(at'[p].n >= 5) /\ ~(at'[p].n >= 6)
        /\ at'[p].n >= 4 => at'[p].phase = "on"
    BY <1>2
  <2>7. RelayMayFail' = RelayMayFail
    BY DEF RelayMayFail
  <2> HIDE DEF a
  <2> QED BY <1>1, <1>2, <2>2, <2>5, <2>6, <2>7 DEF Cleared, Stopped
<1> QED BY <1>1, <1>4, <1>5, <1>6, <1>8, <1>9, <1>10, <1>11, DeleteSafe

LEMMA ForgetSafe ==
  ASSUME LifecycleAssumption, IInv, NEW p \in Process, Forget(p), faults' = faults
  PROVE  IInv'
<1> DEFINE s == at[p].slug
<1>0. /\ TypeInv /\ HandsTyped /\ HandsMatch /\ Turns /\ EnabledIsRecorded /\ Disabled
      /\ UnmanagedUntouched /\ KeysKnown /\ DeletesClear /\ at[p].due = {}
  BY DEF IInv, Forget, At
<1>1. /\ Moves(p) /\ Advances(p) /\ Kind[p] = "delete" /\ at[p].n = 4
      /\ s \in Slug /\ at[p].agent \in AgentRecord
      /\ saved' = [saved EXCEPT ![s] = None] /\ UNCHANGED <<env, unit, relay, community, runtime>>
  BY <1>0, ForgetEffect
<1>2. /\ at'[p].phase = "on" /\ at'[p].n = 5 /\ at'[p].due = {}
      /\ at'[p].slug = s /\ at'[p].agent = at[p].agent
  BY <1>0, <1>1 DEF Advances, KeepsHand, KeepsAgent
<1>3. ~unit[s].enabled
  BY <1>0, <1>1 DEF Disabled, Moves
<1>4. latest = p /\ at[p].phase = "on"
  BY <1>0, <1>1 DEF Turns, Moves, Active
<1>5. Cleared(p)
  BY <1>0, <1>1, <1>4 DEF DeletesClear
<1>6. /\ s = Target[p] /\ unit[s] = Stopped(FALSE)
      /\ ~RelayMayFail =>
           \A i \in at[p].agent.cfg["channels"] \cup {"managed"} : relay[at[p].agent.key][i] = None
  <2>1. at[p].n >= 2 /\ at[p].n >= 3 /\ at[p].n >= 4
    BY <1>1
  <2> QED BY <1>5, <2>1 DEF Cleared
<1>7. saved' \in [Slug -> AgentRecord \cup {None}] /\ saved'[s] = None
      /\ \A t \in Slug : t # s => saved'[t] = saved[t]
  BY <1>0, <1>1 DEF TypeInv
<1>8. TypeInv'
  BY <1>0, <1>1, <1>7 DEF TypeInv, Moves
<1>9. ~InLoop(p)' /\ ~InBody(p)' /\ ~Minted(p)' /\ ~Updating(p)'
  BY <1>1 DEF InLoop, InBody, Minted, Updating, Loops
<1>10. Held(p)'
  <2>1. 5 \in 1..(Len(Steps[p]) + 1)
    BY <1>1, Lengths
  <2>2. at'[p].slug \in Slug /\ at'[p].agent # None
    BY <1>1, <1>2 DEF LifecycleAssumption
  <2> QED BY <1>2, <1>9, <2>1, <2>2 DEF Held
<1>11. HandMatches(p)'
  BY <1>2, <1>7, <1>9 DEF HandMatches
<1>12. Cleared(p)'
  <2>1. ~(at'[p].n >= 6) /\ RelayMayFail' = RelayMayFail
    BY <1>2 DEF RelayMayFail
  <2> QED BY <1>1, <1>2, <1>6, <1>7, <2>1 DEF Cleared, Stopped
<1> HIDE DEF s
<1>13. EnabledIsRecorded'
  <2>1. ASSUME NEW t \in Slug, unit'[t].enabled PROVE saved'[t] # None
    <3>1. t # s /\ unit[t].enabled
      BY <1>1, <1>3, <2>1
    <3> QED BY <1>0, <1>7, <3>1 DEF EnabledIsRecorded, Recorded
  <2> QED BY <2>1 DEF EnabledIsRecorded, Recorded
<1>14. UnmanagedUntouched'
  <2>1. \A t \in Slug : saved'[t] # None => saved'[t] = saved[t]
    BY <1>7
  <2> QED BY <1>0, <1>1, <2>1, UnmanagedStays
<1>15. KeysKnown'
  <2>1. \A t \in Slug : ~AccountsFor(p, t)
    BY <1>1 DEF AccountsFor
  <2>2. ASSUME NEW t \in Slug, t = s PROVE AccountsFor(p, t)'
    <3>1. Active(p)'
      BY <1>1, <1>2, Lengths DEF Active
    <3> QED BY <1>1, <1>2, <2>2, <3>1 DEF AccountsFor
  <2> QED BY <1>0, <1>1, <1>7, <2>1, <2>2, KeysStay
<1>16. ~unit'[at'[p].slug].enabled
  BY <1>1, <1>2, <1>3
<1> QED BY <1>1, <1>7, <1>8, <1>10, <1>11, <1>12, <1>13, <1>14, <1>15, <1>16, DeleteSafe

LEMMA UnlinkSafe ==
  ASSUME LifecycleAssumption, IInv, NEW p \in Process, Unlink(p), faults' = faults
  PROVE  IInv'
<1> DEFINE s == at[p].slug
<1>0. /\ TypeInv /\ HandsTyped /\ HandsMatch /\ Turns /\ EnabledIsRecorded /\ Disabled
      /\ UnmanagedUntouched /\ KeysKnown /\ DeletesClear /\ at[p].due = {}
  BY DEF IInv, Unlink, At
<1>1. /\ Moves(p) /\ Advances(p) /\ Kind[p] = "delete" /\ at[p].n = 5
      /\ s \in Slug /\ at[p].agent \in AgentRecord
      /\ env' = [env EXCEPT ![s] = None] /\ UNCHANGED <<saved, unit, relay, community, runtime>>
  BY <1>0, UnlinkEffect
<1>2. /\ at'[p].phase = "on" /\ at'[p].n = 6 /\ at'[p].due = {} /\ KeepsAgent(p)
      /\ at'[p].slug = s /\ at'[p].agent = at[p].agent
  BY <1>0, <1>1 DEF Advances, KeepsHand, KeepsAgent
<1>3. ~Active(p)'
  BY <1>1, <1>2, Lengths DEF Active
<1>4. ~TakesUp(p)
  BY <1>1 DEF TakesUp, Loops
<1>5. Held(p)'
  BY <1>0, <1>1, <1>2, <1>4, AdvanceKeeps
<1>6. /\ s = Target[p] /\ unit[s] = Stopped(FALSE) /\ saved[s] = None
      /\ ~RelayMayFail =>
           \A i \in at[p].agent.cfg["channels"] \cup {"managed"} : relay[at[p].agent.key][i] = None
  <2>1. latest = p /\ at[p].phase = "on"
    BY <1>0, <1>1 DEF Turns, Moves, Active
  <2>2. Cleared(p) /\ at[p].n >= 2 /\ at[p].n >= 3 /\ at[p].n >= 4 /\ at[p].n >= 5
    BY <1>0, <1>1, <2>1 DEF DeletesClear
  <2> QED BY <2>2 DEF Cleared
<1>7. env' \in [Slug -> EnvRecord \cup {None}] /\ env'[s] = None
      /\ \A t \in Slug : t # s => env'[t] = env[t]
  BY <1>0, <1>1 DEF TypeInv
<1>8. TypeInv'
  BY <1>0, <1>1, <1>7 DEF TypeInv, Moves
<1>9. Cleared(p)'
  <2>1. RelayMayFail' = RelayMayFail
    BY DEF RelayMayFail
  <2> QED BY <1>1, <1>2, <1>6, <1>7, <2>1 DEF Cleared, Stopped
<1> HIDE DEF s
<1>10. EnabledIsRecorded'
  BY <1>0, <1>1, EnabledStays
<1>11. UnmanagedUntouched'
  <2>1. \A t \in Slug : env'[t] # None => env'[t] = env[t]
    BY <1>7
  <2> QED BY <1>0, <1>1, <2>1, UnmanagedStays
<1>12. KeysKnown'
  <2>1. \A t \in Slug : env'[t] # None => env'[t] = env[t] /\ ~AccountsFor(p, t)
    BY <1>7 DEF AccountsFor, s
  <2> QED BY <1>0, <1>1, <2>1, KeysStay
<1> QED BY <1>1, <1>3, <1>5, <1>8, <1>9, <1>10, <1>11, <1>12, DeleteSafe

-----------------------------------------------------------------------------
(* The beginning.                                                          *)

LEMMA InitSafe ==
  ASSUME LifecycleAssumption, Init
  PROVE  IInv
<1>1. PICK start \in Starts : Start(start)
  BY DEF Init
<1>2. /\ start.there \in SUBSET Slug /\ start.faults \in SUBSET {"relay", "system", "stop"}
      /\ start.owner \in BOOLEAN /\ start.runtime \in SUBSET {"template", "acp"}
      /\ start.tag \in BOOLEAN /\ start.current \in BOOLEAN
  BY DEF LifecycleAssumption
<1>3. faults = start.faults /\ runtime = start.runtime
      /\ community = [owner |-> start.owner, fleet |-> FALSE] /\ community \in Community
  BY <1>1, <1>2 DEF Start, Community
<1>4. /\ saved = [s \in Slug |-> IF s \in start.there THEN Agents[s] ELSE None]
      /\ saved \in [Slug -> AgentRecord \cup {None}]
      /\ \A s \in Slug : saved[s] # None => saved[s] \in AgentRecord /\ Agents[s] # None /\ saved[s] = Agents[s]
  BY <1>1 DEF Start, LifecycleAssumption
<1> DEFINE first(s) == [EnvFile(saved[s], community) EXCEPT !.tag = @ /\ start.tag, !.current = start.current]
<1>5. ASSUME NEW s \in Slug, saved[s] # None
      PROVE  first(s) \in EnvRecord /\ first(s).key = saved[s].key /\ (first(s).tag => saved[s].managed)
  <2> DEFINE e == EnvFile(saved[s], community)
  <2>1. e \in EnvRecord /\ e.key = saved[s].key /\ e.tag = saved[s].managed
    BY <1>3, <1>4, <1>5 DEF EnvFile, EnvRecord, AgentRecord, Community
  <2> HIDE DEF e
  <2>2. /\ [e EXCEPT !.tag = @ /\ start.tag, !.current = start.current] \in EnvRecord
        /\ [e EXCEPT !.tag = @ /\ start.tag, !.current = start.current].key = e.key
        /\ [e EXCEPT !.tag = @ /\ start.tag, !.current = start.current].tag = (e.tag /\ start.tag)
    BY <1>2, <2>1 DEF EnvRecord
  <2> QED BY <2>1, <2>2 DEF e
<1>6. env = [s \in Slug |-> IF saved[s] = None THEN None ELSE first(s)]
  BY <1>1 DEF Start
<1> HIDE DEF first
<1>7. env \in [Slug -> EnvRecord \cup {None}]
      /\ \A s \in Slug : env[s] # None => /\ saved[s] # None /\ env[s].key = saved[s].key
                                          /\ env[s].tag => saved[s].managed
  BY <1>5, <1>6
<1>8. unit \in [Slug -> Unit] /\ \A s \in Slug : unit[s].enabled => saved[s] # None
  <2>1. unit = [s \in Slug |-> IF saved[s] = None THEN Stopped(FALSE) ELSE Started(s, TRUE)]
    BY DEF Init
  <2>2. Stopped(FALSE) \in Unit /\ ~Stopped(FALSE).enabled
    BY DEF Stopped, Unit
  <2>3. ASSUME NEW s \in Slug PROVE Started(s, TRUE) \in Unit
    BY <1>2, <1>3, <1>7 DEF Started, Unit
  <2> QED BY <2>1, <2>2, <2>3
<1> DEFINE hand(p) ==
       [phase |-> IF p \in start.cast THEN "new" ELSE "out", n |-> 1, due |-> {},
        com |-> community, full |-> FALSE, todo |-> [s \in Slug |-> None],
        slug |-> None, was |-> None, agent |-> None, leave |-> {}]
<1>9. ASSUME NEW p \in Process
      PROVE  /\ hand(p) \in Hand /\ hand(p).phase \in {"out", "new"} /\ hand(p).n = 1 /\ hand(p).due = {}
  <2>1. [s \in Slug |-> None] \in [Slug -> AgentRecord \cup {None}]
    OBVIOUS
  <2> DEFINE todo == [s \in Slug |-> None]
  <2> HIDE DEF todo
  <2> QED BY <1>3, <2>1 DEF Hand, todo
<1>10. at = [p \in Process |-> hand(p)]
  BY <1>1 DEF Start
<1> HIDE DEF hand
<1>11. at \in [Process -> Hand]
       /\ \A p \in Process : at[p].phase \in {"out", "new"} /\ at[p].n = 1 /\ at[p].due = {}
  BY <1>9, <1>10
<1>12. \A s, t \in Slug : saved[s] # None /\ saved[t] # None /\ saved[s].key = saved[t].key => s = t
  BY <1>4 DEF LifecycleAssumption
<1>13. relay = [k \in Key |->
         IF \E s \in Slug : saved[s] # None /\ saved[s].key = k /\ saved[s].managed
           THEN [i \in Item |-> IF saved[Holder(k)].state[i] = "done" THEN Content(i, saved[Holder(k)].cfg) ELSE None]
           ELSE NothingOnRelay]
  BY DEF Init
<1>14. relay \in [Key -> [Item -> Contents \cup {None}]]
  <2>1. NothingOnRelay \in [Item -> Contents \cup {None}]
    BY DEF NothingOnRelay
  <2>2. ASSUME NEW k \in Key, \E s \in Slug : saved[s] # None /\ saved[s].key = k /\ saved[s].managed
        PROVE  [i \in Item |-> IF saved[Holder(k)].state[i] = "done" THEN Content(i, saved[Holder(k)].cfg) ELSE None]
                 \in [Item -> Contents \cup {None}]
    <3>1. Holder(k) \in Slug /\ saved[Holder(k)] # None
      BY <2>2 DEF Holder
    <3>2. saved[Holder(k)].cfg \in Config
      BY <1>4, <3>1 DEF AgentRecord
    <3>3. \A i \in Item : Content(i, saved[Holder(k)].cfg) \in Contents
      BY <3>2 DEF Contents
    <3> QED BY <3>3
  <2> QED BY <1>13, <2>1, <2>2
<1>15. TypeInv
  BY <1>2, <1>3, <1>4, <1>7, <1>8, <1>11, <1>14 DEF TypeInv, Init
<1>16. \A p \in Process : ~Active(p) /\ at[p].phase # "on"
  BY <1>11 DEF Active
<1>17. HandsTyped
  <2> SUFFICES ASSUME NEW p \in Process PROVE Held(p)
    BY DEF HandsTyped
  <2>1. 1 \in 1..(Len(Steps[p]) + 1)
    BY Lengths
  <2>2. at[p].phase \in {"out", "new"} /\ at[p].n = 1 /\ at[p].due = {}
    BY <1>11
  <2>3. ~InBody(p) /\ ~Minted(p) /\ ~Updating(p) /\ ~Deleting(p)
    BY <2>2 DEF InBody, Minted, Updating, Deleting
  <2> QED BY <2>1, <2>2, <2>3 DEF Held
<1>18. Turns /\ HandsMatch /\ Disabled /\ DeletesClear
  BY <1>16 DEF Turns, HandsMatch, Disabled, DeletesClear, Init
<1>19. Origins /\ EnabledIsRecorded
  BY <1>4, <1>8 DEF Origins, EnabledIsRecorded, Recorded
<1>20. KeysKnown
  BY <1>7 DEF KeysKnown, FileKnown
<1>21. UnmanagedUntouched
  <2> SUFFICES ASSUME NEW s \in Slug, saved[s] # None, ~saved[s].managed
               PROVE  relay[saved[s].key] = NothingOnRelay /\ (env[s] # None => ~env[s].tag)
    BY DEF UnmanagedUntouched, Recorded
  <2>1. saved[s].key \in Key
    BY <1>4 DEF AgentRecord
  <2>2. ~\E t \in Slug : saved[t] # None /\ saved[t].key = saved[s].key /\ saved[t].managed
    BY <1>12
  <2> QED BY <1>7, <1>13, <2>1, <2>2
<1> QED BY <1>15, <1>17, <1>18, <1>19, <1>20, <1>21 DEF IInv

LEMMA BeginEffect ==
  ASSUME LifecycleAssumption, TypeInv, HandsTyped, ChangesAlone, NEW p \in Process, Begin(p)
  PROVE  /\ at' \in [Process -> Hand] /\ \A q \in Process : q # p => at'[q] = at[q]
         /\ at[p].phase = "new" /\ at'[p].phase = "on" /\ at[p].n = 1 /\ at'[p].n = 1
         /\ at'[p].due = {} /\ at'[p].com = community /\ at'[p].full = at[p].full /\ KeepsAgent(p)
         /\ UNCHANGED stores
         /\ IF \E q \in Process : Active(q)
              THEN latest' = None /\ Kind[p] = "heal" /\ \A q \in Process : Active(q) => Kind[q] = "heal"
              ELSE latest' = p
<1> DEFINE l == [at[p] EXCEPT !.phase = "on", !.com = community]
<1>1. at[p] \in Hand /\ community \in Community /\ at[p].phase = "new"
  BY DEF TypeInv, Begin
<1>2. at[p].n = 1 /\ at[p].due = {}
  BY <1>1 DEF HandsTyped, Held
<1>3. at' = [at EXCEPT ![p] = l]
  BY DEF Begin
<1>4. l \in Hand /\ l.phase = "on" /\ l.n = 1 /\ l.due = {} /\ l.com = community /\ l.full = at[p].full
      /\ l.slug = at[p].slug /\ l.was = at[p].was /\ l.agent = at[p].agent /\ l.leave = at[p].leave
      /\ l.todo = at[p].todo
  BY <1>1, <1>2 DEF Hand
<1> HIDE DEF l
<1>5. at' \in [Process -> Hand] /\ at'[p] = l /\ \A q \in Process : q # p => at'[q] = at[q]
  BY <1>3, <1>4 DEF TypeInv
<1>6. IF \E q \in Process : Active(q)
        THEN latest' = None /\ Kind[p] = "heal" /\ \A q \in Process : Active(q) => Kind[q] = "heal"
        ELSE latest' = p
  BY DEF Begin, ChangesAlone
<1>7. UNCHANGED stores
  BY DEF Begin
<1> QED BY <1>1, <1>2, <1>4, <1>5, <1>6, <1>7 DEF KeepsAgent

LEMMA BeginSafe ==
  ASSUME LifecycleAssumption, ChangesAlone, IInv, NEW p \in Process, Begin(p), faults' = faults
  PROVE  IInv'
<1>0. /\ TypeInv /\ HandsTyped /\ HandsMatch /\ Turns /\ Origins /\ EnabledIsRecorded /\ Disabled
      /\ UnmanagedUntouched /\ KeysKnown /\ DeletesClear
  BY DEF IInv
<1>1. /\ at' \in [Process -> Hand] /\ \A q \in Process : q # p => at'[q] = at[q]
      /\ at[p].phase = "new" /\ at'[p].phase = "on" /\ at[p].n = 1 /\ at'[p].n = 1
      /\ at'[p].due = {} /\ at'[p].slug = at[p].slug
      /\ UNCHANGED <<saved, env, unit, relay, community, runtime>>
      /\ IF \E q \in Process : Active(q)
           THEN latest' = None /\ Kind[p] = "heal" /\ \A q \in Process : Active(q) => Kind[q] = "heal"
           ELSE latest' = p
  BY <1>0, BeginEffect DEF KeepsAgent, stores
<1>2. ~Active(p) /\ \A q \in Process : q # p => /\ Active(q)' = Active(q)
                                              /\ Held(q)' = Held(q) /\ HandMatches(q)' = HandMatches(q)
  BY <1>1 DEF Active, Held, HandMatches, InLoop, InBody, Minted, Updating, Deleting, Matches
<1>3. TypeInv'
  BY <1>0, <1>1 DEF TypeInv
<1>4. ~InLoop(p)' /\ ~InBody(p)' /\ ~Minted(p)' /\ ~Updating(p)' /\ ~Deleting(p)'
  BY <1>1 DEF InLoop, InBody, Minted, Updating, Deleting
<1>5. HandsTyped'
  <2>1. 1 \in 1..(Len(Steps[p]) + 1)
    BY Lengths
  <2>2. Held(p)'
    BY <1>1, <1>4, <2>1 DEF Held
  <2> QED BY <1>0, <1>2, <2>2 DEF HandsTyped
<1>6. HandsMatch'
  <2>1. HandMatches(p)'
    BY <1>4 DEF HandMatches
  <2> QED BY <1>0, <1>2, <2>1 DEF HandsMatch
<1>7. Turns'
  <2>1. p # None
    BY DEF LifecycleAssumption
  <2> QED BY <1>1, <1>2, <2>1 DEF Turns
<1>8. Origins'
  BY <1>0, <1>1 DEF Origins
<1>9. EnabledIsRecorded' /\ UnmanagedUntouched'
  BY <1>0, <1>1 DEF EnabledIsRecorded, UnmanagedUntouched, Recorded
<1>10. Disabled'
  BY <1>0, <1>1, <1>2 DEF Disabled
<1>11. KeysKnown'
  <2> SUFFICES ASSUME NoneStopped', NEW s \in Slug, env'[s] # None PROVE FileKnown(s)'
    BY DEF KeysKnown
  <2>1. NoneStopped
    BY <1>1 DEF NoneStopped
  <2>2. FileKnown(s)
    BY <1>0, <1>1, <2>1 DEF KeysKnown
  <2>3. ASSUME NEW q \in Process, AccountsFor(q, s) PROVE AccountsFor(q, s)'
    <3>1. q # p /\ Active(q)' /\ at'[q] = at[q]
      BY <1>1, <1>2, <2>3 DEF AccountsFor
    <3> QED BY <1>1, <2>3, <3>1 DEF AccountsFor
  <2>4. CASE saved[s] # None /\ env[s].key = saved[s].key
    BY <1>1, <2>4 DEF FileKnown
  <2> QED BY <2>2, <2>3, <2>4 DEF FileKnown
<1>12. DeletesClear'
  <2> SUFFICES ASSUME NEW q \in Process, Kind[q] = "delete", latest' = q PROVE Cleared(q)'
    BY DEF DeletesClear
  <2>1. q = p
    BY <1>1 DEF LifecycleAssumption
  <2>2. /\ ~(at'[p].n >= 2) /\ ~(at'[p].n >= 3) /\ ~(at'[p].n >= 4)
        /\ ~(at'[p].n >= 5) /\ ~(at'[p].n >= 6)
    BY <1>1
  <2> QED BY <2>1, <2>2 DEF Cleared
<1> QED BY <1>3, <1>5, <1>6, <1>7, <1>8, <1>9, <1>10, <1>11, <1>12 DEF IInv

-----------------------------------------------------------------------------
(* What holds always.                                                      *)

LEMMA StepSafe ==
  ASSUME LifecycleAssumption, ChangesAlone, IInv, [Next]_vars
  PROVE  IInv'
<1>1. CASE UNCHANGED vars
  <2>1. UNCHANGED <<saved, env, unit, relay, community, runtime, at, latest, faults>>
    BY <1>1 DEF vars
  <2>2. TypeInv' = TypeInv /\ HandsTyped' = HandsTyped /\ Turns' = Turns /\ Disabled' = Disabled
    BY <2>1 DEF TypeInv, HandsTyped, Held, Turns, Active, Disabled, InBody, Minted, Updating, Deleting
  <2>3. HandsMatch' = HandsMatch /\ Origins' = Origins
    BY <2>1 DEF HandsMatch, HandMatches, Active, InLoop, InBody, Minted, Updating, Deleting, Matches, Origins
  <2>4. EnabledIsRecorded' = EnabledIsRecorded /\ UnmanagedUntouched' = UnmanagedUntouched
    BY <2>1 DEF EnabledIsRecorded, UnmanagedUntouched, Recorded
  <2>5. KeysKnown' = KeysKnown
    BY <2>1 DEF KeysKnown, NoneStopped, FileKnown, AccountsFor, Active
  <2>6. DeletesClear' = DeletesClear
    BY <2>1 DEF DeletesClear, Cleared, Stopped, RelayMayFail
  <2> QED BY <2>2, <2>3, <2>4, <2>5, <2>6 DEF IInv
<1>2. CASE Next
  <2>1. PICK p \in Process : Begin(p) \/ GetReady(p) \/ Change(p) \/ Settle(p) \/ Stop(p)
    BY <1>2 DEF Next
  <2>2. faults' = faults
    BY <1>2 DEF Next
  <2>3. CASE Begin(p)
    BY <2>2, <2>3, BeginSafe
  <2>4. CASE GetReady(p)
    BY <2>2, <2>4, EnsureOwnerSafe, EnsureLingerSafe, InstallSafe, EnsureFleetSafe, ListSafe, NextAgentSafe
       DEF GetReady
  <2>5. CASE Change(p)
    BY <2>2, <2>5, CheckNameSafe, MintSafe, LoadSafe, LeaveSafe, DisableSafe, TeardownSafe, ForgetSafe, UnlinkSafe
       DEF Change
  <2>6. CASE Settle(p)
    BY <2>2, <2>6, SyncSafe, PublishSafe, SaveSafe, KeepSafe, CheckSafe, WriteFilesSafe, RestartSafe,
       TryRestartSafe, EnableSafe DEF Settle
  <2>7. CASE Stop(p)
    BY <2>2, <2>7, StopSafe
  <2> QED BY <2>1, <2>3, <2>4, <2>5, <2>6, <2>7
<1> QED BY <1>1, <1>2

LEMMA AlwaysSafe ==
  ASSUME ChangesAlone
  PROVE  Spec => []IInv
<1>1. Init => IInv
  BY LifecycleAssumption, InitSafe
<1>2. IInv /\ [Next]_vars => IInv'
  BY LifecycleAssumption, StepSafe
<1> QED BY <1>1, <1>2, PTL DEF Spec

\* AgentManager's stores and what each command has in hand keep their types.
THEOREM LifecycleTypeCorrect ==
  ASSUME ChangesAlone
  PROVE  Spec => []TypeInv
<1>1. IInv => TypeInv
  BY DEF IInv
<1> QED BY <1>1, AlwaysSafe, PTL

\* No sequence of creates, updates, deletes and heals, failing and stopping
\* where they may, lets one agent's record take another's place.
THEOREM LifecycleKeepsKeys ==
  ASSUME ChangesAlone
  PROVE  Spec => RecordsKeepTheirKey
<1> DEFINE Kept == \A s \in Slug : saved[s] # None /\ saved'[s] # None => saved'[s].key = saved[s].key
<1>1. ASSUME IInv, Next PROVE Kept
  <2>1. PICK p \in Process : Begin(p) \/ GetReady(p) \/ Change(p) \/ Settle(p) \/ Stop(p)
    BY <1>1 DEF Next
  <2>2. TypeInv /\ HandsTyped /\ HandsMatch
    BY <1>1 DEF IInv
  <2>3. CASE saved' = saved
    BY <2>3
  <2>4. ASSUME Active(p), at[p].slug \in Slug, at[p].agent \in AgentRecord,
               saved' = [saved EXCEPT ![at[p].slug] = at[p].agent],
               InBody(p) \/ (Minted(p) /\ at[p].n > 16) \/ Updating(p) \/ saved[at[p].slug] = None
        PROVE  Kept
    <3>1. saved[at[p].slug] # None => at[p].agent.key = saved[at[p].slug].key
      BY <1>1, <2>4, LifecycleAssumption, HandRecorded
    <3> QED BY <2>2, <2>4, <3>1 DEF TypeInv
  <2>5. CASE Save(p)
    <3>1. /\ Moves(p) /\ at[p].slug \in Slug /\ at[p].agent \in AgentRecord
          /\ \/ Kind[p] = "create" /\ at[p].n \in {16, 18}
             \/ Kind[p] = "update" /\ at[p].n = 7
          /\ saved' = [saved EXCEPT ![at[p].slug] = at[p].agent]
      BY <2>2, <2>5, LifecycleAssumption, SaveEffect
    <3>2. HandMatches(p) /\ Active(p)
      BY <2>2, <3>1 DEF HandsMatch, Moves
    <3>3. (Minted(p) /\ at[p].n > 16) \/ Updating(p) \/ saved[at[p].slug] = None
      BY <3>1, <3>2 DEF HandMatches, Minted, Updating
    <3> QED BY <2>4, <3>1, <3>2, <3>3
  <2>6. CASE Keep(p)
    <3>1. /\ Moves(p) /\ Loops(p) /\ at[p].n = 9 /\ at[p].slug \in Slug /\ at[p].agent \in AgentRecord
          /\ saved' = saved \/ saved' = [saved EXCEPT ![at[p].slug] = at[p].agent]
      BY <2>2, <2>6, LifecycleAssumption, KeepEffect
    <3>2. InBody(p) /\ Active(p)
      BY <3>1 DEF InBody, Moves
    <3> QED BY <2>3, <2>4, <3>1, <3>2
  <2>7. CASE Forget(p)
    <3>1. at[p].slug \in Slug /\ saved' = [saved EXCEPT ![at[p].slug] = None]
      BY <2>2, <2>7, LifecycleAssumption, ForgetEffect
    <3> QED BY <2>2, <3>1 DEF TypeInv
  <2>8. CASE ~Save(p) /\ ~Keep(p) /\ ~Forget(p)
    <3>1. saved' = saved
      BY <2>1, <2>8 DEF Begin, GetReady, Change, Settle, Stop, stores, EnsureOwner, EnsureLinger, Install,
         EnsureFleet, List, NextAgent, CheckName, Mint, Load, Leave, Disable, Teardown, Unlink,
         Sync, Publish, Check, WriteFiles, Restart, TryRestart, Enable
    <3> QED BY <2>3, <3>1
  <2> QED BY <2>5, <2>6, <2>7, <2>8
<1>2. IInv /\ [Next]_vars => [Kept]_vars
  BY <1>1
<1> QED BY <1>2, AlwaysSafe, PTL DEF Spec, RecordsKeepTheirKey

\* Once nobody is at work and no command was stopped, every environment file is
\* that of the record of its slug, with its key: failed creates and deletes
\* leave no key behind.
THEOREM LifecycleLeavesNoKey ==
  ASSUME ChangesAlone
  PROVE  Spec => []NoKeyLeftBehind
<1>1. IInv => NoKeyLeftBehind
  BY DEF IInv, NoKeyLeftBehind, KeysKnown, Quiet, NoneStopped, FileKnown, AccountsFor, Recorded
<1> QED BY <1>1, AlwaysSafe, PTL

\* A unit that starts at boot has its record at every moment, even where a
\* command stops half-way.
THEOREM LifecycleEnablesTheRecorded ==
  ASSUME ChangesAlone
  PROVE  Spec => []EnabledIsRecorded
<1>1. IInv => EnabledIsRecorded
  BY DEF IInv
<1> QED BY <1>1, AlwaysSafe, PTL

\* An unmanaged agent stays off the relay and without an auth tag.
THEOREM LifecycleSparesTheUnmanaged ==
  ASSUME ChangesAlone
  PROVE  Spec => []UnmanagedUntouched
<1>1. IInv => UnmanagedUntouched
  BY DEF IInv
<1> QED BY <1>1, AlwaysSafe, PTL

\* A delete that nothing followed and no relay failure disturbed leaves neither
\* record, file and unit nor the agent's channels and managed-agent record.
THEOREM LifecycleDeletes ==
  ASSUME ChangesAlone
  PROVE  Spec => []DeletedIsGone
<1>1. IInv => DeletedIsGone
  <2> SUFFICES ASSUME IInv, NEW p \in Process, Kind[p] = "delete", Finished(p), latest = p, ~RelayMayFail
               PROVE  LET s == Target[p] IN
                      /\ saved[s] = None /\ env[s] = None /\ unit[s] = Stopped(FALSE)
                      /\ \A i \in at[p].agent.cfg["channels"] \cup {"managed"} :
                           relay[at[p].agent.key][i] = None
    BY DEF DeletedIsGone
  <2>1. at[p].n \in Nat /\ at[p].n > 5 /\ at[p].phase = "on"
    BY LifecycleAssumption, Lengths DEF IInv, TypeInv, Hand, Finished
  <2>2. /\ at[p].n >= 2 /\ at[p].n >= 3 /\ at[p].n >= 4 /\ at[p].n >= 5 /\ at[p].n >= 6
        /\ Cleared(p)
    BY <2>1 DEF IInv, DeletesClear
  <2> QED BY <2>2 DEF Cleared
<1> QED BY <1>1, AlwaysSafe, PTL

-----------------------------------------------------------------------------
(* The flags, step by step.                                                *)

FlagsWhole ==
  /\ \A s \in Slug : saved[s] # None => RecordTrue(s)
  /\ \A p \in Process : Active(p) => HandTrue(p)

\* A step after which no command is half-way starts where none was.
LEMMA FlagsBefore ==
  ASSUME FInv, NEW p \in Process, Moves(p), NoneStopped', ~HalfDone'
  PROVE  FlagsWhole
<1>1. NoneStopped
  BY Others DEF NoneStopped, Moves, Active
<1>2. ~HalfDone
  <2>1. ASSUME NEW q \in Process, at[q].phase = "raised", at[q].agent # None, at[q].agent.managed,
               Kind[q] = "update" \/ (Kind[q] = "delete" /\ Steps[q][at[q].n] = "teardown")
        PROVE  FALSE
    <3>1. q # p
      BY <2>1 DEF Moves, Active
    <3>2. at'[q] = at[q]
      BY <3>1 DEF Moves
    <3> QED BY <2>1, <3>2 DEF HalfDone
  <2> QED BY <2>1 DEF HalfDone
<1> QED BY <1>1, <1>2 DEF FInv, FlagsWhole

LEMMA SameRelay ==
  ASSUME relay' = relay, NEW b
  PROVE  FlagsOf(b)' <=> FlagsOf(b)
  BY DEF FlagsOf

LEMMA OtherHandTrue ==
  ASSUME NEW p \in Process, Moves(p), relay' = relay, NEW q \in Process, q # p, HandTrue(q)
  PROVE  HandTrue(q)'
<1>1. at'[q] = at[q]
  BY DEF Moves
<1> QED BY <1>1 DEF HandTrue, FlagsOf, InLoop, InBody, Minted, Updating

LEMMA OtherRewrites ==
  ASSUME NEW p \in Process, Moves(p), NEW q \in Process, q # p, NEW s, Rewrites(q, s)
  PROVE  Rewrites(q, s)'
  BY Others DEF Rewrites

\* A step that leaves the relay alone.
LEMMA CalmFlags ==
  ASSUME NEW p \in Process, Moves(p), relay' = relay, FlagsWhole, Active(p)' => HandTrue(p)',
         \A s \in Slug : saved'[s] # None =>
           \/ FlagsOf(saved[s])'
           \/ saved'[s] = saved[s] /\ ~Rewrites(p, s)
           \/ Rewrites(p, s)'
  PROVE  FlagsWhole'
<1>1. ASSUME NEW q \in Process, Active(q)' PROVE HandTrue(q)'
  BY <1>1, Others, OtherHandTrue DEF FlagsWhole
<1>2. ASSUME NEW s \in Slug, saved'[s] # None PROVE RecordTrue(s)'
  <2>1. CASE FlagsOf(saved[s])'
    BY <2>1 DEF RecordTrue
  <2>2. CASE Rewrites(p, s)'
    BY <2>2 DEF RecordTrue
  <2>3. CASE saved'[s] = saved[s] /\ ~Rewrites(p, s)
    <3>1. FlagsOf(saved[s]) \/ \E q \in Process : Rewrites(q, s)
      BY <1>2, <2>3 DEF FlagsWhole, RecordTrue
    <3>2. CASE FlagsOf(saved[s])
      BY <2>3, <3>2 DEF RecordTrue, FlagsOf
    <3>3. ASSUME NEW q \in Process, Rewrites(q, s) PROVE Rewrites(q, s)'
      BY <2>3, <3>3, OtherRewrites
    <3> QED BY <3>1, <3>2, <3>3 DEF RecordTrue
  <2> QED BY <1>2, <2>1, <2>2, <2>3
<1> QED BY <1>1, <1>2 DEF FlagsWhole

\* What a process keeps in hand stays true.
LEMMA KeptTrue ==
  ASSUME NEW p \in Process, relay' = relay, HandTrue(p), KeepsAgent(p),
         InBody(p)' \/ Minted(p)' \/ Updating(p)' => InBody(p) \/ Minted(p) \/ Updating(p),
         InLoop(p)' => InLoop(p), ~(Kind[p] = "update" /\ at'[p].n = 3)
  PROVE  HandTrue(p)'
  BY DEF HandTrue, FlagsOf, KeepsAgent

\* A step that writes neither records nor the relay and takes nothing up.
LEMMA AdvanceFlags ==
  ASSUME LifecycleAssumption, IInv, FInv, NEW p \in Process, Moves(p),
         UNCHANGED <<saved, relay>>, KeepsAgent(p),
         \/ at'[p].n = at[p].n + 1 /\ ~TakesUp(p)
         \/ Loops(p) /\ at[p].n \in 8..12 /\ at'[p].n = 7,
         Kind[p] \in {"update", "delete"} /\ at[p].n >= 3 => Active(p)' \/ saved[at[p].slug] = None
  PROVE  FInv'
<1> SUFFICES ASSUME NoneStopped', ~HalfDone' PROVE FlagsWhole'
  BY DEF FInv, FlagsWhole
<1>1. FlagsWhole
  BY FlagsBefore
<1>2. at[p].n \in Nat /\ HandTrue(p)
  BY <1>1 DEF FlagsWhole, Moves, IInv, TypeInv, Hand
<1>3. /\ InBody(p)' \/ Minted(p)' \/ Updating(p)' => InBody(p) \/ Minted(p) \/ Updating(p)
      /\ InLoop(p)' => InLoop(p)
      /\ ~(Kind[p] = "update" /\ at'[p].n = 3)
  BY <1>2 DEF InBody, InLoop, Minted, Updating, TakesUp, Loops
<1>4. HandTrue(p)'
  BY <1>2, <1>3, KeptTrue
<1>5. ASSUME NEW s \in Slug, saved'[s] # None, Rewrites(p, s) PROVE Rewrites(p, s)'
  <2>1. at'[p].slug = s /\ at'[p].n >= 3 /\ Active(p)'
    BY <1>2, <1>5 DEF Rewrites, KeepsAgent, Loops
  <2> QED BY <1>5, <2>1 DEF Rewrites
<1> QED BY <1>1, <1>4, <1>5, CalmFlags

\* A process raises or stops; an update of a managed agent is half-way then.
LEMMA HaltFlags ==
  ASSUME LifecycleAssumption, IInv, FInv, NEW p \in Process, Moves(p), Halts(p),
         UNCHANGED <<saved, relay>>, Kind[p] = "delete" => at'[p].phase = "stopped" \/ at[p].n <= 2
  PROVE  FInv'
<1> SUFFICES ASSUME NoneStopped', ~HalfDone' PROVE FlagsWhole'
  BY DEF FInv, FlagsWhole
<1>1. FlagsWhole
  BY FlagsBefore
<1>2. at[p].n \in Nat /\ at'[p].phase = "raised" /\ ~Active(p)'
  BY DEF IInv, TypeInv, Hand, Halts, NoneStopped, Active
<1>3. ASSUME NEW s \in Slug, saved'[s] # None, Rewrites(p, s) PROVE FlagsOf(saved[s])'
  <2>1. Active(p) /\ at[p].slug = s /\ Kind[p] = "update" /\ at[p].n >= 3
    BY <1>2, <1>3 DEF Rewrites
  <2>2. Updating(p)
    BY <2>1 DEF Updating
  <2>3. at[p].agent # None /\ at[p].agent.managed = saved[s].managed
    BY <2>1, <2>2 DEF IInv, HandsTyped, Held, HandsMatch, HandMatches
  <2>4. ~at[p].agent.managed
    BY <1>2, <2>1, <2>3 DEF HalfDone, Halts, KeepsHand, KeepsAgent
  <2> QED BY <2>3, <2>4 DEF FlagsOf
<1> QED BY <1>1, <1>2, <1>3, CalmFlags

LEMMA ReadyFlags ==
  ASSUME LifecycleAssumption, IInv, FInv, NEW p \in Process,
         \/ EnsureOwner(p) \/ EnsureLinger(p) \/ Install(p, "template") \/ Install(p, "acp")
         \/ EnsureFleet(p) \/ CheckName(p)
  PROVE  FInv'
<1>0. TypeInv /\ HandsTyped
  BY DEF IInv
<1>1. /\ Moves(p) /\ UNCHANGED <<saved, relay>>
      /\ (Loops(p) /\ at[p].n \in {2, 3, 4, 5, 13}) \/ (Kind[p] # "delete" /\ at[p].n = 1)
      /\ Halts(p) \/ (KeepsAgent(p) /\ at'[p].n = at[p].n + 1)
  BY <1>0, EnsureOwnerEffect, EnsureLingerEffect, InstallEffect, EnsureFleetEffect, CheckNameEffect
     DEF stores, Readies, Advances, KeepsHand, Loops
<1>2. Kind[p] # "delete" /\ ~TakesUp(p) /\ ~(Kind[p] \in {"update", "delete"} /\ at[p].n >= 3)
  BY <1>1 DEF Loops, TakesUp
<1> QED BY <1>1, <1>2, HaltFlags, AdvanceFlags

LEMMA StopFlags ==
  ASSUME LifecycleAssumption, IInv, FInv, NEW p \in Process, Stop(p)
  PROVE  FInv'
<1>1. Moves(p) /\ Halts(p) /\ at'[p].phase = "stopped" /\ UNCHANGED <<saved, relay>>
  BY StopEffect DEF IInv, Stop, stores
<1> QED BY <1>1, HaltFlags

LEMMA LoopFlags ==
  ASSUME LifecycleAssumption, IInv, FInv, NEW p \in Process, Check(p) \/ TryRestart(p) \/ Sync(p)
  PROVE  FInv'
<1>0. TypeInv /\ HandsTyped
  BY DEF IInv
<1>1. CASE Check(p)
  <2>1. /\ Moves(p) /\ Loops(p) /\ at[p].n = 10 /\ UNCHANGED <<saved, relay>> /\ KeepsAgent(p)
        /\ at'[p].n = 11 \/ at'[p].n = 7
    BY <1>0, <1>1, CheckEffect DEF stores, KeepsHand
  <2>2. ~TakesUp(p) /\ Kind[p] \notin {"update", "delete"}
    BY <2>1 DEF TakesUp, Loops
  <2> QED BY <2>1, <2>2, AdvanceFlags
<1>2. CASE TryRestart(p)
  <2>1. /\ Moves(p) /\ Loops(p) /\ at[p].n = 12 /\ UNCHANGED <<saved, relay>>
        /\ (KeepsAgent(p) /\ at'[p].n = 7) \/ Halts(p)
    BY <1>0, <1>2, TryRestartEffect DEF KeepsHand
  <2>2. Kind[p] \notin {"update", "delete"}
    BY <2>1 DEF Loops
  <2> QED BY <2>1, <2>2, AdvanceFlags, HaltFlags
<1>3. CASE Sync(p)
  <2>1. /\ Moves(p) /\ UNCHANGED <<saved, relay>> /\ KeepsAgent(p)
        /\ \/ Loops(p) /\ at[p].n = 8
           \/ Kind[p] = "create" /\ at[p].n = 17
           \/ Kind[p] = "update" /\ at[p].n = 4
        /\ at'[p].phase = "on" /\ at'[p].n = at[p].n + 1
    BY <1>0, <1>3, SyncEffect DEF stores
  <2>2. ~TakesUp(p) /\ Kind[p] # "delete"
    BY <2>1 DEF TakesUp, Loops
  <2>3. Kind[p] = "update" => Active(p)'
    BY <2>1, Lengths DEF Active, Loops
  <2> QED BY <2>1, <2>2, <2>3, AdvanceFlags
<1> QED BY <1>1, <1>2, <1>3

LEMMA SettleFlags ==
  ASSUME LifecycleAssumption, IInv, FInv, NEW p \in Process,
         WriteFiles(p) \/ Restart(p) \/ Enable(p) \/ Disable(p) \/ Unlink(p)
  PROVE  FInv'
<1>0. TypeInv /\ HandsTyped /\ HandsMatch
  BY DEF IInv
<1>1. /\ Moves(p) /\ UNCHANGED <<saved, relay>>
      /\ \/ Loops(p) /\ at[p].n = 11
         \/ Kind[p] = "create" /\ at[p].n = 15
         \/ Kind[p] = "create" /\ at[p].n = 19
         \/ Kind[p] = "update" /\ at[p].n = 5
         \/ Kind[p] = "update" /\ at[p].n = 6
         \/ Kind[p] = "delete" /\ at[p].n = 2
         \/ Kind[p] = "delete" /\ at[p].n = 5 /\ Advances(p)
      /\ Halts(p) \/ Advances(p)
  BY <1>0, WriteFilesEffect, RestartEffect, EnableEffect, DisableEffect, UnlinkEffect
<1>2. CASE Advances(p)
  <2>1. ~TakesUp(p) /\ at'[p].n = at[p].n + 1 /\ at'[p].phase = "on" /\ KeepsAgent(p)
    BY <1>1, <1>2 DEF TakesUp, Advances, KeepsHand, Loops
  <2>2. CASE Kind[p] = "delete" /\ at[p].n = 5
    <3>1. saved[at[p].slug] = None
      BY <1>0, <1>1, <2>2 DEF HandsMatch, HandMatches, Deleting, Moves
    <3> QED BY <1>1, <2>1, <3>1, AdvanceFlags
  <2>3. CASE ~(Kind[p] = "delete" /\ at[p].n = 5)
    <3>1. Kind[p] \in {"update", "delete"} /\ at[p].n >= 3 => Active(p)'
      BY <1>1, <2>1, <2>3, Lengths DEF Active, Loops
    <3> QED BY <1>1, <2>1, <3>1, AdvanceFlags
  <2> QED BY <2>2, <2>3
<1>3. CASE Halts(p)
  <2>1. Kind[p] = "delete" => at[p].n <= 2
    BY <1>1, <1>3 DEF Halts, Advances, Loops
  <2> QED BY <1>1, <1>3, <2>1, HaltFlags
<1> QED BY <1>1, <1>2, <1>3

\* Beside a process that lists, publishes or loads, no record lags behind.
LEMMA NoneLags ==
  ASSUME LifecycleAssumption, IInv, FlagsWhole, NEW p \in Process, Active(p),
         ~(Kind[p] \in {"update", "delete"} /\ at[p].n >= 3), NEW s \in Slug, saved[s] # None
  PROVE  FlagsOf(saved[s])
<1>1. Turns
  BY DEF IInv
<1>2. ASSUME NEW q \in Process, Rewrites(q, s) PROVE FALSE
  <2>1. Active(q) /\ Kind[q] # "heal" /\ q # p
    BY <1>2 DEF Rewrites
  <2> QED BY <1>1, <2>1, Undisturbed
<1> QED BY <1>2 DEF FlagsWhole, RecordTrue

LEMMA ListFlags ==
  ASSUME LifecycleAssumption, IInv, FInv, NEW p \in Process, List(p)
  PROVE  FInv'
<1> SUFFICES ASSUME NoneStopped', ~HalfDone' PROVE FlagsWhole'
  BY DEF FInv, FlagsWhole
<1>1. /\ Moves(p) /\ Loops(p) /\ at[p].n = 6 /\ UNCHANGED <<saved, relay>>
      /\ at'[p].n = 7 /\ at'[p].todo = saved
  BY ListEffect DEF IInv, stores
<1>2. FlagsWhole
  BY <1>1, FlagsBefore
<1>3. Kind[p] \notin {"update", "delete"} /\ Active(p)
  BY <1>1 DEF Loops, Moves
<1>4. \A s \in Slug : saved[s] # None => FlagsOf(saved[s])
  BY <1>2, <1>3, NoneLags
<1>5. \A s \in Slug : at'[p].todo[s] # None => FlagsOf(at[p].todo[s])'
  BY <1>1, <1>4 DEF FlagsOf
<1>6. ~InBody(p)' /\ ~Minted(p)' /\ ~Updating(p)'
  BY <1>1, <1>3 DEF InBody, Minted, Updating
<1>7. HandTrue(p)'
  BY <1>3, <1>5, <1>6 DEF HandTrue
<1>8. \A s \in Slug : ~Rewrites(p, s)
  BY <1>3 DEF Rewrites
<1> QED BY <1>1, <1>2, <1>7, <1>8, CalmFlags

LEMMA NextAgentFlags ==
  ASSUME LifecycleAssumption, IInv, FInv, NEW p \in Process, NextAgent(p)
  PROVE  FInv'
<1> SUFFICES ASSUME NoneStopped', ~HalfDone' PROVE FlagsWhole'
  BY DEF FInv, FlagsWhole
<1>1. /\ Moves(p) /\ Loops(p) /\ at[p].n = 7 /\ UNCHANGED <<saved, relay>>
      /\ \/ at'[p].n = 13
         \/ \E s \in Slug : Takes(p, s)
  BY NextAgentEffect DEF IInv, stores
<1>2. FlagsWhole /\ HandTrue(p)
  BY <1>1, FlagsBefore DEF FlagsWhole, Moves
<1>3. Kind[p] \notin {"update", "delete"} /\ InLoop(p)
  BY <1>1 DEF Loops, InLoop
<1>4. HandTrue(p)'
  <2>1. CASE at'[p].n = 13
    BY <1>3, <2>1 DEF HandTrue, InBody, InLoop, Minted, Updating
  <2>2. ASSUME NEW s \in Slug, Takes(p, s) PROVE HandTrue(p)'
    <3>1. \A t \in Slug : at[p].todo[t] # None => FlagsOf(at[p].todo[t])
      BY <1>2, <1>3 DEF HandTrue
    <3>2. /\ at[p].todo[s] # None /\ at'[p].agent = at[p].todo[s]
          /\ \A t \in Slug : at'[p].todo[t] # None => at'[p].todo[t] = at[p].todo[t]
      BY <2>2 DEF Takes, IInv, TypeInv, Hand
    <3>3. FlagsOf(at[p].agent)' /\ \A t \in Slug : at'[p].todo[t] # None => FlagsOf(at[p].todo[t])'
      BY <1>1, <3>1, <3>2 DEF FlagsOf
    <3> QED BY <1>3, <3>3 DEF HandTrue
  <2> QED BY <1>1, <2>1, <2>2
<1>5. \A s \in Slug : ~Rewrites(p, s)
  BY <1>3 DEF Rewrites
<1> QED BY <1>1, <1>2, <1>4, <1>5, CalmFlags

LEMMA MintFlags ==
  ASSUME LifecycleAssumption, IInv, FInv, NEW p \in Process, Mint(p)
  PROVE  FInv'
<1>1. /\ Moves(p) /\ Kind[p] = "create" /\ at[p].n = 14 /\ UNCHANGED <<saved, relay>>
      /\ Halts(p) \/ Mints(p)
  BY MintEffect DEF IInv, stores
<1>2. CASE Halts(p)
  BY <1>1, <1>2, HaltFlags
<1>3. CASE Mints(p)
  <2> SUFFICES ASSUME NoneStopped', ~HalfDone' PROVE FlagsWhole'
    BY DEF FInv, FlagsWhole
  <2>1. FlagsWhole
    BY <1>1, FlagsBefore
  <2>2. \A i \in Item : at'[p].agent.state[i] # "done"
    <3>1. at'[p].agent.state = Unpublished
      BY <1>3 DEF Mints, Agent
    <3> QED BY <3>1 DEF Unpublished
  <2>3. FlagsOf(at[p].agent)'
    BY <2>2 DEF FlagsOf
  <2>4. ~InLoop(p)' /\ Kind[p] \notin {"update", "delete"}
    BY <1>1, <1>3 DEF Mints, InLoop
  <2>5. HandTrue(p)'
    BY <2>3, <2>4 DEF HandTrue
  <2>6. \A s \in Slug : ~Rewrites(p, s)
    BY <2>4 DEF Rewrites
  <2> QED BY <1>1, <2>1, <2>5, <2>6, CalmFlags
<1> QED BY <1>1, <1>2, <1>3

\* Only what did not change is still published after an update's reset.
LEMMA ResetTrue ==
  ASSUME NEW a \in AgentRecord, NEW cfg, NEW i \in Item, Reset(a, cfg)[i] = "done"
  PROVE  /\ a.state[i] = "done" /\ Content(i, cfg) = Content(i, a.cfg)
         /\ i \notin a.cfg["channels"] \ cfg["channels"]
<1>1. Reset(a, cfg)[i] =
        IF i \in a.cfg["channels"] \ cfg["channels"] THEN "todo"
        ELSE IF i \in cfg["channels"] \ a.cfg["channels"] /\ a.state[i] = "todo" THEN "pending"
        ELSE IF \E f \in Reads(i) : a.cfg[f] # cfg[f] THEN "todo"
        ELSE a.state[i]
  BY DEF Reset
<1>2. /\ a.state[i] = "done" /\ \A f \in Reads(i) : a.cfg[f] = cfg[f]
      /\ i \notin a.cfg["channels"] \ cfg["channels"]
  BY <1>1
<1> QED BY <1>2 DEF Content

LEMMA LoadFlags ==
  ASSUME LifecycleAssumption, IInv, FInv, NEW p \in Process, Load(p)
  PROVE  FInv'
<1>0. TypeInv
  BY DEF IInv
<1>1. /\ Moves(p) /\ UNCHANGED <<saved, relay>>
      /\ (Kind[p] = "update" /\ at[p].n = 2) \/ (Kind[p] = "delete" /\ at[p].n = 1)
      /\ Halts(p) \/ Loads(p)
  BY LoadEffect DEF IInv, stores
<1>2. CASE Halts(p)
  <2>1. Kind[p] = "delete" => at[p].n <= 2
    BY <1>1
  <2> QED BY <1>1, <1>2, <2>1, HaltFlags
<1>3. CASE Loads(p)
  <2> SUFFICES ASSUME NoneStopped', ~HalfDone' PROVE FlagsWhole'
    BY DEF FInv, FlagsWhole
  <2>1. FlagsWhole
    BY <1>1, FlagsBefore
  <2>2. \A s \in Slug : ~Rewrites(p, s)
    BY <1>1 DEF Rewrites
  <2>3. HandTrue(p)'
    <3>1. ~InLoop(p)' /\ ~InBody(p)' /\ ~Minted(p)'
      BY <1>1 DEF InLoop, InBody, Minted, Loops
    <3>2. CASE Kind[p] = "delete"
      BY <3>1, <3>2 DEF HandTrue, Updating
    <3>3. CASE Kind[p] = "update"
      <4> DEFINE a == saved[Target[p]]
                 b == at'[p].agent
                 cfg == NewConfig(p, a.cfg)
      <4>1. a \in AgentRecord /\ Target[p] \in Slug /\ a # None
        BY <1>0, <1>3 DEF Loads, TypeInv
      <4>2. /\ b.key = a.key /\ b.managed = a.managed /\ b.cfg = cfg
            /\ b.state = IF a.managed THEN Reset(a, cfg) ELSE a.state
        BY <1>3, <3>3, <4>1, UpdatedAgent DEF Loads
      <4>3. at'[p].leave = IF a.managed THEN a.cfg["channels"] \ cfg["channels"] ELSE {}
        BY <1>3, <3>3, <4>2 DEF Loads
      <4>4. at[p].n = 2 /\ Active(p)
        BY <1>1, <3>3 DEF Moves
      <4>5. FlagsOf(a)
        BY <2>1, <4>1, <4>4, NoneLags
      <4> HIDE DEF a, b, cfg
      <4>6. ASSUME b.managed, NEW i \in Item, b.state[i] = "done"
            PROVE  /\ relay'[b.key][i] = Content(i, b.cfg)
                   /\ i \notin a.cfg["channels"] \ cfg["channels"]
        <5>1. Reset(a, cfg)[i] = "done" /\ a.managed
          BY <4>2, <4>6
        <5>2. a.state[i] = "done" /\ Content(i, cfg) = Content(i, a.cfg)
              /\ i \notin a.cfg["channels"] \ cfg["channels"]
          BY <4>1, <5>1, ResetTrue
        <5>3. relay[a.key][i] = Content(i, a.cfg)
          BY <4>5, <5>1, <5>2 DEF FlagsOf
        <5> QED BY <1>1, <4>2, <5>2, <5>3
      <4>7. FlagsOf(at[p].agent)'
        BY <4>6 DEF FlagsOf, b
      <4>8. at'[p].leave \subseteq Item
        BY <1>1 DEF Moves, Hand, Item
      <4>9. ASSUME NEW i \in at'[p].leave PROVE at'[p].agent.state[i] # "done"
        <5>1. i \in Item /\ a.managed /\ i \in a.cfg["channels"] \ cfg["channels"]
          BY <4>3, <4>8, <4>9
        <5> QED BY <4>2, <4>6, <5>1 DEF b
      <4> QED BY <3>1, <4>7, <4>9 DEF HandTrue
    <3> QED BY <1>1, <3>2, <3>3
  <2> QED BY <1>1, <2>1, <2>2, <2>3, CalmFlags
<1> QED BY <1>1, <1>2, <1>3

\* What a publication leaves on the relay.
LEMMA PublishedContent ==
  ASSUME TypeInv, NEW p \in Process, at[p].agent \in AgentRecord, NEW item \in Item,
         relay' = Published(p, item), NEW k \in Key, NEW i \in Item
  PROVE  relay'[k][i] = IF k = at[p].agent.key /\ i = item THEN Content(item, at[p].agent.cfg)
                        ELSE relay[k][i]
<1> DEFINE c == Content(item, at[p].agent.cfg)
<1>1. relay' = [relay EXCEPT ![at[p].agent.key][item] = c]
  BY DEF Published
<1>2. relay \in [Key -> [Item -> Contents \cup {None}]] /\ at[p].agent.key \in Key
  BY DEF TypeInv, AgentRecord
<1> HIDE DEF c
<1>3. relay'[k][i] = IF k = at[p].agent.key /\ i = item THEN c ELSE relay[k][i]
  BY <1>1, <1>2
<1> QED BY <1>3 DEF c

\* A publication belies no record but those of its own agent with other fields.
LEMMA PublishedElsewhere ==
  ASSUME LifecycleAssumption, IInv, NEW p \in Process, at[p].agent \in AgentRecord, NEW item \in Item,
         relay' = relay \/ relay' = Published(p, item),
         at[p].slug \in Slug, saved[at[p].slug] # None, at[p].agent.key = saved[at[p].slug].key,
         NEW t \in Slug, NEW b \in AgentRecord, Matches(b, t), FlagsOf(b),
         t # at[p].slug \/ Matches(at[p].agent, at[p].slug)
  PROVE  FlagsOf(b)'
<1> DEFINE a == at[p].agent
<1>0. TypeInv /\ Origins
  BY DEF IInv
<1>1. b.key # a.key \/ b.cfg = a.cfg
  <2>1. CASE t = at[p].slug
    BY <2>1 DEF Matches, Same
  <2>2. CASE t # at[p].slug
    <3>1. saved[t] # None /\ b.key = saved[t].key
      BY DEF Matches, Same
    <3> QED BY <1>0, <2>2, <3>1, KeysDiffer
  <2> QED BY <2>1, <2>2
<1>2. ASSUME b.managed, NEW i \in Item, b.state[i] = "done"
      PROVE  relay'[b.key][i] = Content(i, b.cfg)
  <2>1. relay[b.key][i] = Content(i, b.cfg) /\ b.key \in Key
    BY <1>2 DEF FlagsOf, AgentRecord
  <2>2. CASE relay' = relay
    BY <2>1, <2>2
  <2>3. CASE relay' = Published(p, item)
    <3>1. relay'[b.key][i] = IF b.key = a.key /\ i = item THEN Content(item, a.cfg) ELSE relay[b.key][i]
      BY <1>0, <2>1, <2>3, PublishedContent
    <3> QED BY <1>1, <2>1, <3>1
  <2> QED BY <2>2, <2>3
<1> QED BY <1>2 DEF FlagsOf

\* A mark is "done" only if the publication is on the relay.
LEMMA MarkTrue ==
  ASSUME IInv, NEW p \in Process, at[p].agent \in AgentRecord, NEW item \in Item, NEW mark \in Mark,
         Marks(p, item, mark), relay' = Published(p, item) \/ (mark # "done" /\ relay' = relay),
         FlagsOf(at[p].agent)
  PROVE  FlagsOf(at[p].agent)'
<1> DEFINE a == at[p].agent
           b == at'[p].agent
<1>0. TypeInv
  BY DEF IInv
<1>1. a.key \in Key /\ a.state \in [Item -> Mark]
  BY DEF AgentRecord
<1>2. b.key = a.key /\ b.cfg = a.cfg /\ b.managed = a.managed /\ b.state = [a.state EXCEPT ![item] = mark]
  BY DEF Marks, Same
<1>3. ASSUME b.managed, NEW i \in Item, b.state[i] = "done"
      PROVE  relay'[b.key][i] = Content(i, b.cfg)
  <2>1. i # item => relay[a.key][i] = Content(i, a.cfg)
    BY <1>1, <1>2, <1>3 DEF FlagsOf
  <2>2. i = item => mark = "done"
    BY <1>1, <1>2, <1>3
  <2>3. CASE relay' = relay /\ mark # "done"
    BY <1>2, <2>1, <2>2, <2>3
  <2>4. CASE relay' = Published(p, item)
    <3>1. relay'[a.key][i] = IF i = item THEN Content(item, a.cfg) ELSE relay[a.key][i]
      BY <1>0, <1>1, <2>4, PublishedContent
    <3> QED BY <1>2, <2>1, <3>1
  <2> QED BY <2>3, <2>4
<1> QED BY <1>3 DEF FlagsOf

LEMMA PublishFlags ==
  ASSUME LifecycleAssumption, IInv, FInv, NEW p \in Process, NEW item \in Item, Publish(p, item)
  PROVE  FInv'
<1> SUFFICES ASSUME NoneStopped', ~HalfDone' PROVE FlagsWhole'
  BY DEF FInv, FlagsWhole
<1> DEFINE s == at[p].slug
           a == at[p].agent
<1>0. TypeInv /\ HandsTyped /\ HandsMatch /\ Turns
  BY DEF IInv
<1>1. /\ Moves(p) /\ UNCHANGED <<saved, env, unit, community, runtime>>
      /\ \/ Loops(p) /\ at[p].n = 9
         \/ Kind[p] = "create" /\ at[p].n = 18
         \/ Kind[p] = "update" /\ at[p].n = 5
      /\ a \in AgentRecord /\ a.managed
      /\ \E mark \in Mark :
           /\ Marks(p, item, mark)
           /\ relay' = Published(p, item) \/ (mark # "done" /\ RelayMayFail /\ relay' = relay)
  BY <1>0, PublishEffect
<1>2. PICK mark \in Mark :
           /\ Marks(p, item, mark)
           /\ relay' = Published(p, item) \/ (mark # "done" /\ relay' = relay)
  BY <1>1
<1>3. FlagsWhole /\ HandTrue(p) /\ Active(p) /\ HandMatches(p)
  BY <1>0, <1>1, FlagsBefore DEF FlagsWhole, Moves, HandsMatch
<1>4. InBody(p) \/ (Minted(p) /\ at[p].n > 16) \/ Updating(p)
  BY <1>1 DEF InBody, Minted, Updating
<1>5. /\ s \in Slug /\ saved[s] # None /\ a.key = saved[s].key
      /\ Updating(p) \/ Matches(a, s)
  BY <1>3, <1>4, HandRecorded
<1>6. FlagsOf(a)
  BY <1>3, <1>4 DEF HandTrue
<1>7. FlagsOf(at[p].agent)'
  BY <1>1, <1>2, <1>6, MarkTrue
<1>8. at'[p].n = at[p].n /\ at'[p].slug = s /\ at'[p].todo = at[p].todo /\ at'[p].phase = "on"
  BY <1>2 DEF Marks
<1> HIDE DEF s, a
<1>9. relay' = relay \/ relay' = Published(p, item)
  BY <1>2
<1>10. ASSUME NEW t \in Slug, NEW b \in AgentRecord, Matches(b, t), FlagsOf(b),
              t # at[p].slug \/ Matches(at[p].agent, at[p].slug)
       PROVE  FlagsOf(b)'
  <2>1. /\ at[p].slug \in Slug /\ saved[at[p].slug] # None /\ at[p].agent.key = saved[at[p].slug].key
        /\ at[p].agent \in AgentRecord
    BY <1>1, <1>5 DEF s, a
  <2> QED BY <1>9, <1>10, <2>1, PublishedElsewhere
<1>11. ASSUME NEW q \in Process, HandTrue(q), HandMatches(q), ~Updating(p), at'[q].todo = at[q].todo,
              InLoop(q), NEW t \in Slug, at[q].todo[t] # None
       PROVE  FlagsOf(at[q].todo[t])'
  <2>1. Matches(at[p].agent, at[p].slug)
    BY <1>5, <1>11 DEF s, a
  <2>2. ASSUME NEW b, b = at[q].todo[t] PROVE FlagsOf(b)'
    <3>1. b \in AgentRecord /\ Matches(b, t) /\ FlagsOf(b)
      BY <1>0, <1>11, <2>2 DEF TypeInv, Hand, HandMatches, HandTrue
    <3> QED BY <1>10, <2>1, <3>1
  <2>3. \A b : b = at[q].todo[t] => FlagsOf(b)'
    BY <2>2
  <2> QED BY <1>11, <2>3 DEF FlagsOf
<1>12. ASSUME NEW q \in Process, HandTrue(q), HandMatches(q), ~Updating(p), at'[q] = at[q], InBody(q)
       PROVE  FlagsOf(at[q].agent)'
  <2>1. Matches(at[p].agent, at[p].slug)
    BY <1>5, <1>12 DEF s, a
  <2>2. ASSUME NEW b, b = at[q].agent PROVE FlagsOf(b)'
    <3>1. Held(q) /\ at[q] \in Hand
      BY <1>0 DEF TypeInv, HandsTyped
    <3>2. b \in AgentRecord /\ at[q].slug \in Slug /\ Matches(b, at[q].slug) /\ FlagsOf(b)
      BY <1>12, <2>2, <3>1 DEF Held, Hand, HandMatches, HandTrue
    <3> QED BY <1>10, <2>1, <3>2
  <2>3. \A b : b = at[q].agent => FlagsOf(b)'
    BY <2>2
  <2> QED BY <1>12, <2>3 DEF FlagsOf
<1>13. HandTrue(p)'
  <2>1. InLoop(p)' => InLoop(p) /\ ~Updating(p)
    BY <1>8 DEF InLoop, Updating, Loops
  <2>2. ~(Kind[p] = "update" /\ at'[p].n = 3)
    BY <1>1, <1>8 DEF Loops
  <2>3. InLoop(p)' => \A t \in Slug : at'[p].todo[t] # None => FlagsOf(at[p].todo[t])'
    BY <1>3, <1>8, <1>11, <2>1
  <2> QED BY <1>7, <2>2, <2>3 DEF HandTrue
<1>14. ASSUME NEW q \in Process, Active(q)' PROVE HandTrue(q)'
  <2>1. CASE q = p
    BY <1>13, <2>1
  <2>2. CASE q # p
    <3>1. Active(q) /\ at'[q] = at[q] /\ HandTrue(q) /\ HandMatches(q)
      BY <1>0, <1>1, <1>3, <1>14, <2>2, Others DEF FlagsWhole, HandsMatch
    <3>2. Kind[q] = "heal" /\ Kind[p] = "heal"
      BY <1>0, <1>3, <2>2, <3>1, Undisturbed
    <3>3. ~Updating(p) /\ ~Updating(q)' /\ ~Minted(q)'
      BY <3>2 DEF Updating, Minted
    <3>4. InBody(q)' = InBody(q) /\ InLoop(q)' = InLoop(q)
      BY <3>1 DEF InBody, InLoop
    <3>5. InBody(q)' => FlagsOf(at[q].agent)'
      BY <1>12, <3>1, <3>3, <3>4
    <3>6. InLoop(q)' => \A t \in Slug : at'[q].todo[t] # None => FlagsOf(at[q].todo[t])'
      BY <1>11, <3>1, <3>3, <3>4
    <3> QED BY <3>2, <3>3, <3>5, <3>6 DEF HandTrue
  <2> QED BY <2>1, <2>2
<1>15. ASSUME NEW t \in Slug, saved'[t] # None PROVE RecordTrue(t)'
  <2>1. CASE Updating(p) /\ t = s
    <3>1. at'[p].n <= Len(Steps[p]) /\ at'[p].n >= 3 /\ Kind[p] = "update"
      BY <1>1, <1>8, <2>1, Lengths DEF Updating, Loops
    <3>2. Rewrites(p, t)'
      BY <1>8, <2>1, <3>1 DEF Rewrites, Active
    <3> QED BY <3>2 DEF RecordTrue
  <2>2. CASE ~(Updating(p) /\ t = s)
    <3>1. ASSUME NEW q \in Process, Rewrites(q, t) PROVE FALSE
      <4>1. Active(q) /\ Kind[q] # "heal" /\ at[q].slug = t
        BY <3>1 DEF Rewrites
      <4>2. q = p
        BY <1>0, <1>3, <4>1, Undisturbed
      <4> QED BY <1>1, <2>2, <3>1, <4>1, <4>2 DEF Rewrites, Updating, Loops, s
    <3>2. FlagsOf(saved[t])
      BY <1>1, <1>3, <1>15, <3>1 DEF FlagsWhole, RecordTrue
    <3>3. t # at[p].slug \/ Matches(at[p].agent, at[p].slug)
      BY <1>5, <2>2 DEF s, a
    <3>4. ASSUME NEW b, b = saved[t] PROVE FlagsOf(b)'
      <4>1. b \in AgentRecord /\ Matches(b, t)
        BY <1>0, <1>1, <1>15, <3>4 DEF TypeInv, Matches, Same
      <4> QED BY <1>10, <3>2, <3>3, <3>4, <4>1
    <3>5. \A b : b = saved[t] => FlagsOf(b)'
      BY <3>4
    <3> QED BY <1>1, <3>5 DEF RecordTrue, FlagsOf
  <2> QED BY <2>1, <2>2
<1> QED BY <1>14, <1>15 DEF FlagsWhole

\* An update or a delete takes back publications of its own agent only; one
\* that raises has a managed agent's record and publications half done.
LEMMA TakesBackFlags ==
  ASSUME LifecycleAssumption, IInv, FlagsWhole, NEW p \in Process, Moves(p), Ends(p), ~HalfDone',
         Kind[p] \in {"update", "delete"}, at[p].n = 3, NEW due, TakesBack(p, due), saved' = saved,
         Active(p)' => HandTrue(p)'
  PROVE  FlagsWhole'
<1> DEFINE s == at[p].slug
<1>0. TypeInv /\ Turns /\ Origins /\ Active(p) /\ Held(p) /\ HandMatches(p)
  BY DEF IInv, Moves, HandsTyped, HandsMatch
<1>1. Updating(p) \/ Deleting(p)
  BY DEF Updating, Deleting
<1>2. s \in Slug /\ saved[s] # None /\ at[p].agent.key = saved[s].key
  BY <1>0, <1>1 DEF Held, HandMatches
<1>3. \A q \in Process : Active(q) => q = p
  BY <1>0, Undisturbed
<1>4. \A q \in Process : Active(q)' => q = p
  BY <1>3, Others
<1>5. ASSUME NEW t \in Slug, saved'[t] # None PROVE RecordTrue(t)'
  <2>1. CASE t = s /\ Advances(p)
    <3>1. at'[p].n = 4 /\ at'[p].phase = "on" /\ at'[p].slug = t /\ 4 <= Len(Steps[p])
      BY <2>1, Lengths DEF Advances, KeepsHand, KeepsAgent
    <3>2. Rewrites(p, t)'
      BY <3>1 DEF Rewrites, Active
    <3> QED BY <3>2 DEF RecordTrue
  <2>3. CASE t = s /\ ~Advances(p)
    <3>0. Halts(p) /\ at'[p].phase = "raised"
      BY <2>3 DEF Ends
    <3>1. at'[p].agent = at[p].agent /\ at'[p].n = at[p].n
      BY <3>0 DEF Halts, KeepsHand, KeepsAgent
    <3>2. at[p].agent # None /\ at[p].agent.managed = saved[s].managed
      BY <1>0, <1>1, <1>2 DEF Held, HandMatches, Updating, Deleting
    <3>3. Kind[p] = "delete" => Steps[p][3] = "teardown"
      BY DeletePlaces DEF Steps, StepsOf
    <3>4. ~at[p].agent.managed
      BY <3>0, <3>1, <3>2, <3>3 DEF HalfDone
    <3> QED BY <2>3, <3>2, <3>4 DEF RecordTrue, FlagsOf
  <2>2. CASE t # s
    <3>1. FlagsOf(saved[t])
      BY <1>3, <1>5, <2>2 DEF FlagsWhole, RecordTrue, Rewrites
    <3>2. saved[t].key \in Key /\ saved[t].key # at[p].agent.key
      BY <1>0, <1>2, <1>5, <2>2, KeysDiffer DEF TypeInv, AgentRecord
    <3>3. \A i \in Item : relay'[saved[t].key][i] = relay[saved[t].key][i]
      BY <3>2 DEF TakesBack
    <3> QED BY <3>1, <3>3 DEF RecordTrue, FlagsOf
  <2> QED BY <2>1, <2>2, <2>3
<1> QED BY <1>4, <1>5 DEF FlagsWhole

LEMMA LeaveFlags ==
  ASSUME LifecycleAssumption, IInv, FInv, NEW p \in Process, Leave(p)
  PROVE  FInv'
<1> SUFFICES ASSUME NoneStopped', ~HalfDone' PROVE FlagsWhole'
  BY DEF FInv, FlagsWhole
<1>1. /\ Moves(p) /\ Ends(p) /\ Kind[p] = "update" /\ at[p].n = 3 /\ at[p].agent \in AgentRecord
      /\ saved' = saved /\ TakesBack(p, at[p].leave)
  BY LeaveEffect DEF IInv
<1>2. FlagsWhole /\ HandTrue(p)
  BY <1>1, FlagsBefore DEF FlagsWhole, Moves
<1>3. FlagsOf(at[p].agent) /\ \A i \in at[p].leave : at[p].agent.state[i] # "done"
  BY <1>1, <1>2 DEF HandTrue, Updating
<1>4. at[p].agent.key \in Key
  BY <1>1 DEF AgentRecord
<1>5. at'[p].agent = at[p].agent /\ (Active(p)' => at'[p].n = 4)
  BY <1>1 DEF Ends, Advances, Halts, KeepsHand, KeepsAgent, Active
<1>6. \A i \in Item : at[p].agent.state[i] = "done" =>
        relay'[at[p].agent.key][i] = relay[at[p].agent.key][i]
  BY <1>1, <1>3, <1>4 DEF TakesBack
<1>7. FlagsOf(at[p].agent)'
  BY <1>3, <1>5, <1>6 DEF FlagsOf
<1>8. Active(p)' => HandTrue(p)'
  BY <1>1, <1>5, <1>7 DEF HandTrue, InLoop, Loops
<1> QED BY <1>1, <1>2, <1>8, TakesBackFlags

LEMMA TeardownFlags ==
  ASSUME LifecycleAssumption, IInv, FInv, NEW p \in Process, Teardown(p)
  PROVE  FInv'
<1> DEFINE due == IF at[p].agent.managed THEN at[p].agent.cfg["channels"] \cup {"managed"} ELSE {}
<1> SUFFICES ASSUME NoneStopped', ~HalfDone' PROVE FlagsWhole'
  BY DEF FInv, FlagsWhole
<1>1. /\ Moves(p) /\ Ends(p) /\ Kind[p] = "delete" /\ at[p].n = 3
      /\ saved' = saved /\ TakesBack(p, due)
  BY TeardownEffect DEF IInv
<1> HIDE DEF due
<1>2. FlagsWhole
  BY <1>1, FlagsBefore
<1>3. HandTrue(p)'
  BY <1>1 DEF HandTrue, InLoop, InBody, Minted, Updating, Loops
<1> QED BY <1>1, <1>2, <1>3, TakesBackFlags

\* What is saved is what was in hand, and true.
LEMMA SaveFlags ==
  ASSUME LifecycleAssumption, IInv, FInv, NEW p \in Process, Save(p) \/ Keep(p)
  PROVE  FInv'
<1> SUFFICES ASSUME NoneStopped', ~HalfDone' PROVE FlagsWhole'
  BY DEF FInv, FlagsWhole
<1>0. TypeInv /\ HandsTyped
  BY DEF IInv
<1>1. /\ Moves(p) /\ Advances(p) /\ relay' = relay
      /\ \/ Loops(p) /\ at[p].n = 9
         \/ Kind[p] = "create" /\ at[p].n \in {16, 18}
         \/ Kind[p] = "update" /\ at[p].n = 7
      /\ \/ saved' = [saved EXCEPT ![at[p].slug] = at[p].agent]
         \/ saved' = saved /\ Loops(p)
  BY <1>0, SaveEffect, KeepEffect
<1>2. FlagsWhole /\ HandTrue(p)
  BY <1>1, FlagsBefore DEF FlagsWhole, Moves
<1>3. InBody(p) \/ Minted(p) \/ Updating(p)
  BY <1>1 DEF InBody, Minted, Updating
<1>4. FlagsOf(at[p].agent)
  BY <1>2, <1>3 DEF HandTrue
<1>5. at'[p].n = at[p].n + 1 /\ KeepsAgent(p)
  BY <1>1 DEF Advances, KeepsHand
<1>6. HandTrue(p)'
  <2>1. ~(Kind[p] = "update" /\ at'[p].n = 3) /\ (InLoop(p)' => InLoop(p))
    BY <1>1, <1>5 DEF InLoop, Loops
  <2> QED BY <1>1, <1>2, <1>3, <1>5, <2>1, KeptTrue
<1>7. ASSUME NEW t \in Slug, saved'[t] # None
      PROVE  FlagsOf(saved[t])' \/ (saved'[t] = saved[t] /\ ~Rewrites(p, t))
  <2>1. CASE saved' = saved /\ Loops(p)
    BY <2>1 DEF Rewrites, Loops
  <2>2. CASE saved' = [saved EXCEPT ![at[p].slug] = at[p].agent] /\ t = at[p].slug
    <3>1. saved'[t] = at[p].agent
      BY <1>0, <2>2 DEF TypeInv
    <3> QED BY <1>1, <1>4, <3>1 DEF FlagsOf
  <2>3. CASE saved' = [saved EXCEPT ![at[p].slug] = at[p].agent] /\ t # at[p].slug
    <3>1. saved'[t] = saved[t]
      BY <1>0, <2>3 DEF TypeInv
    <3> QED BY <2>3, <3>1 DEF Rewrites
  <2> QED BY <1>1, <2>1, <2>2, <2>3
<1> QED BY <1>1, <1>2, <1>6, <1>7, CalmFlags

LEMMA ForgetFlags ==
  ASSUME LifecycleAssumption, IInv, FInv, NEW p \in Process, Forget(p)
  PROVE  FInv'
<1> SUFFICES ASSUME NoneStopped', ~HalfDone' PROVE FlagsWhole'
  BY DEF FInv, FlagsWhole
<1>0. TypeInv
  BY DEF IInv
<1>1. /\ Moves(p) /\ Kind[p] = "delete" /\ relay' = relay
      /\ saved' = [saved EXCEPT ![at[p].slug] = None]
  BY ForgetEffect DEF IInv
<1>2. FlagsWhole
  BY <1>1, FlagsBefore
<1>3. HandTrue(p)'
  BY <1>1 DEF HandTrue, InLoop, InBody, Minted, Updating, Loops
<1>4. ASSUME NEW t \in Slug, saved'[t] # None
      PROVE  saved'[t] = saved[t] /\ ~Rewrites(p, t)
  BY <1>0, <1>1, <1>4 DEF TypeInv, Rewrites
<1> QED BY <1>1, <1>2, <1>3, <1>4, CalmFlags

LEMMA BeginFlags ==
  ASSUME LifecycleAssumption, ChangesAlone, IInv, FInv, NEW p \in Process, Begin(p)
  PROVE  FInv'
<1> SUFFICES ASSUME NoneStopped', ~HalfDone' PROVE FlagsWhole'
  BY DEF FInv, FlagsWhole
<1>1. /\ \A q \in Process : q # p => at'[q] = at[q]
      /\ at[p].phase = "new" /\ at'[p].n = 1 /\ UNCHANGED <<saved, relay>>
  BY BeginEffect DEF IInv, stores
<1>2. FlagsWhole
  <2>1. NoneStopped
    BY <1>1 DEF NoneStopped
  <2>2. ~HalfDone
    BY <1>1 DEF HalfDone
  <2> QED BY <2>1, <2>2 DEF FInv, FlagsWhole
<1>3. HandTrue(p)'
  BY <1>1 DEF HandTrue, InLoop, InBody, Minted, Updating
<1>4. ASSUME NEW q \in Process, q # p
      PROVE  /\ Active(q)' = Active(q)
             /\ HandTrue(q) => HandTrue(q)'
             /\ \A s \in Slug : Rewrites(q, s) => Rewrites(q, s)'
  BY <1>1, <1>4 DEF Active, HandTrue, FlagsOf, InLoop, InBody, Minted, Updating, Rewrites
<1>5. \A s \in Slug : ~Rewrites(p, s)
  BY <1>1 DEF Rewrites, Active
<1>6. ASSUME NEW s \in Slug, saved'[s] # None PROVE RecordTrue(s)'
  <2>1. CASE FlagsOf(saved[s])
    BY <1>1, <2>1 DEF RecordTrue, FlagsOf
  <2>2. ASSUME NEW q \in Process, Rewrites(q, s) PROVE RecordTrue(s)'
    BY <1>4, <1>5, <2>2 DEF RecordTrue
  <2> QED BY <1>1, <1>2, <1>6, <2>1, <2>2 DEF FlagsWhole, RecordTrue
<1> QED BY <1>2, <1>3, <1>4, <1>6 DEF FlagsWhole

\* At first the relay has what the records say.
LEMMA InitFlags ==
  ASSUME LifecycleAssumption, Init
  PROVE  FInv
<1>1. IInv
  BY InitSafe
<1>2. \A p \in Process : ~Active(p)
  <2>1. PICK start \in Starts : Start(start)
    BY DEF Init
  <2>2. \A p \in Process : at[p].phase = (IF p \in start.cast THEN "new" ELSE "out")
    BY <2>1 DEF Start
  <2> QED BY <2>2 DEF Active
<1>3. relay = [k \in Key |->
         IF \E s \in Slug : saved[s] # None /\ saved[s].key = k /\ saved[s].managed
           THEN [i \in Item |-> IF saved[Holder(k)].state[i] = "done" THEN Content(i, saved[Holder(k)].cfg) ELSE None]
           ELSE NothingOnRelay]
  BY DEF Init
<1>4. ASSUME NEW s \in Slug, saved[s] # None PROVE FlagsOf(saved[s])
  <2>1. saved[s].key \in Key
    BY <1>1, <1>4 DEF IInv, TypeInv, AgentRecord
  <2>2. Holder(saved[s].key) \in Slug /\ saved[Holder(saved[s].key)] # None
        /\ saved[Holder(saved[s].key)].key = saved[s].key
    BY <1>4 DEF Holder
  <2>3. Holder(saved[s].key) = s
    BY <1>1, <1>4, <2>2, KeysDiffer DEF IInv
  <2>4. saved[s].managed => relay[saved[s].key] =
          [i \in Item |-> IF saved[s].state[i] = "done" THEN Content(i, saved[s].cfg) ELSE None]
    BY <1>3, <1>4, <2>1, <2>3
  <2> QED BY <2>4 DEF FlagsOf
<1> QED BY <1>2, <1>4 DEF FInv, RecordTrue

LEMMA StepFlags ==
  ASSUME LifecycleAssumption, ChangesAlone, IInv, FInv, [Next]_vars
  PROVE  FInv'
<1>1. CASE UNCHANGED vars
  <2>1. UNCHANGED <<saved, relay, at>>
    BY <1>1 DEF vars
  <2>2. NoneStopped' = NoneStopped /\ HalfDone' = HalfDone
    BY <2>1 DEF NoneStopped, HalfDone
  <2>3. \A s \in Slug : RecordTrue(s)' = RecordTrue(s)
    BY <2>1 DEF RecordTrue, FlagsOf, Rewrites, Active
  <2>4. \A p \in Process : Active(p)' = Active(p) /\ HandTrue(p)' = HandTrue(p)
    BY <2>1 DEF Active, HandTrue, FlagsOf, InLoop, InBody, Minted, Updating
  <2> QED BY <2>1, <2>2, <2>3, <2>4 DEF FInv
<1>2. CASE Next
  <2>1. PICK p \in Process : Begin(p) \/ GetReady(p) \/ Change(p) \/ Settle(p) \/ Stop(p)
    BY <1>2 DEF Next
  <2>2. CASE Begin(p)
    BY <2>2, BeginFlags
  <2>3. CASE GetReady(p)
    BY <2>3, ReadyFlags, ListFlags, NextAgentFlags DEF GetReady
  <2>4. CASE Change(p)
    BY <2>4, ReadyFlags, MintFlags, LoadFlags, LeaveFlags, SettleFlags, TeardownFlags, ForgetFlags DEF Change
  <2>5. CASE Settle(p)
    BY <2>5, LoopFlags, PublishFlags, SaveFlags, SettleFlags DEF Settle
  <2>6. CASE Stop(p)
    BY <2>6, StopFlags
  <2> QED BY <2>1, <2>2, <2>3, <2>4, <2>5, <2>6
<1> QED BY <1>1, <1>2

\* Once nobody is at work, no command was stopped and neither an update of a
\* managed agent nor the taking back of a delete failed half-way, what a record
\* says is published is on the relay with the fields the record has, failed and
\* ambiguous publications included.
THEOREM LifecycleFlagsAreTrue ==
  ASSUME ChangesAlone
  PROVE  Spec => []FlagsAreTrue
<1>1. Init => IInv /\ FInv
  BY LifecycleAssumption, InitSafe, InitFlags
<1>2. IInv /\ FInv /\ [Next]_vars => IInv' /\ FInv'
  BY LifecycleAssumption, StepSafe, StepFlags
<1>3. FInv => FlagsAreTrue
  BY DEF FInv, FlagsAreTrue, Quiet, NoneStopped, Recorded, RecordTrue, Rewrites, FlagsOf
<1> QED BY <1>1, <1>2, <1>3, PTL DEF Spec

-----------------------------------------------------------------------------
(* The healing, step by step.                                              *)

LEMMA SmoothBefore ==
  ASSUME NEW p \in Process, Moves(p), faults' = faults, Smooth'
  PROVE  Smooth /\ ~SystemMayFail
<1>1. ~SystemMayFail
  BY DEF Smooth, SystemMayFail
<1>2. NoneStopped
  BY Others DEF Smooth, NoneStopped, Moves, Active
<1>3. Here("heal")
  BY DEF Smooth, Here, Moves, Active
<1> QED BY <1>1, <1>2, <1>3 DEF Smooth

\* The owner's key is known for ever, and to every process from its second step.
LEMMA OwnerStays ==
  ASSUME OwnerInv, NEW p \in Process, Moves(p), community.owner => community'.owner,
         at'[p].com.owner => community'.owner, at[p].com.owner => at'[p].com.owner,
         at'[p].phase = "on" /\ Kind[p] # "delete" /\ at'[p].n >= 2 => at'[p].com.owner
  PROVE  OwnerInv'
<1>1. \A q \in Process : q # p => at'[q] = at[q]
  BY DEF Moves
<1>2. \A kind : Here(kind)' => Here(kind)
  BY <1>1 DEF Here, Moves, Active
<1>3. \A q \in Process : at'[q].phase # "out" /\ at'[q].com.owner => community'.owner
  BY <1>1 DEF OwnerInv
<1>4. \A q \in Process : at'[q].phase = "on" /\ Kind[q] # "delete" /\ at'[q].n >= 2 => at'[q].com.owner
  BY <1>1 DEF OwnerInv
<1>5. Here("heal")' /\ Here("update")' => community'.owner /\ \A q \in Process : at'[q].com.owner
  BY <1>1, <1>2 DEF OwnerInv
<1> QED BY <1>3, <1>4, <1>5 DEF OwnerInv

LEMMA OwnerKept ==
  ASSUME OwnerInv, NEW p \in Process, Moves(p), community' = community, at'[p].com = at[p].com,
         Kind[p] = "delete" \/ at[p].n >= 2 \/ at'[p].phase # "on"
  PROVE  OwnerInv'
<1>1. at[p].phase = "on"
  BY DEF Moves, Active
<1>2. at[p].com.owner => community.owner
  BY <1>1 DEF OwnerInv
<1>3. at'[p].phase = "on" /\ Kind[p] # "delete" => at[p].com.owner
  BY <1>1 DEF OwnerInv
<1> QED BY <1>2, <1>3, OwnerStays

\* Only what p and its agent are about needs looking at.
LEMMA HealStays ==
  ASSUME LifecycleAssumption, IInv, NEW p \in Process, Moves(p), \A s \in Slug : UnitKnown(s)',
         Active(p)' => HandKnown(p)', Kind[p] = "heal" /\ at'[p].phase = "on" /\ latest = p => Progress(p)'
  PROVE  HealWhole'
<1>0. Turns /\ Active(p) /\ latest' = latest
  BY DEF IInv, Moves
<1>1. ASSUME NEW q \in Process, Active(q)' PROVE HandKnown(q)'
  <2>1. CASE q = p
    BY <1>1, <2>1
  <2>2. CASE q # p
    <3>1. Kind[q] = "heal"
      BY <1>0, <1>1, <2>2, Others, Undisturbed
    <3> QED BY <3>1 DEF HandKnown
  <2> QED BY <2>1, <2>2
<1>2. ASSUME NEW q \in Process, HealsOn(q)' PROVE Progress(q)'
  <2>1. latest = q
    BY <1>0, <1>2 DEF HealsOn
  <2>2. q = p
    BY <1>0, <2>1 DEF Turns, LifecycleAssumption
  <2> QED BY <1>2, <2>1, <2>2 DEF HealsOn
<1> QED BY <1>1, <1>2 DEF HealWhole

\* The work that is still ahead of p for s.
StillAhead(p, s) ==
  /\ WillWrite(p, s) => WillWrite(p, s)'
  /\ WillRestart(p, s) => WillRestart(p, s)'
  /\ WillSave(p, s) => WillSave(p, s)'

LEMMA OthersAhead ==
  ASSUME NEW p \in Process, Moves(p), NEW q \in Process, q # p, NEW s
  PROVE  StillAhead(q, s)
<1>1. at'[q] = at[q] /\ Active(q)' = Active(q)
  BY Others
<1> QED BY <1>1 DEF StillAhead, WillWrite, WillRestart, WillSave

\* An agent whose record, file and unit the step leaves alone.
LEMMA UnitStays ==
  ASSUME NEW p \in Process, Moves(p), NEW s \in Slug, UnitKnown(s),
         saved'[s] = None <=> saved[s] = None,
         saved[s] # None => saved'[s].key = saved[s].key /\ saved'[s].cfg = saved[s].cfg,
         env'[s] = env[s], unit'[s] = unit[s], runtime' = runtime, community'.owner => community.owner,
         saved[s] # None => StillAhead(p, s)
  PROVE  UnitKnown(s)'
<1>1. CASE saved[s] = None
  BY <1>1 DEF UnitKnown
<1>2. CASE saved[s] # None
  <2>1. \A q \in Process : StillAhead(q, s)
    BY <1>2, OthersAhead
  <2>2. FileIsOf(s)'
    BY <1>2, <2>1 DEF UnitKnown, FileIsOf, StillAhead
  <2>3. OwnerTold(s)'
    BY <1>2, <2>1 DEF UnitKnown, OwnerTold, StillAhead
  <2>4. UpToDate(s)'
    BY <1>2, <2>1 DEF UnitKnown, UpToDate, StillAhead
  <2> QED BY <1>2, <2>2, <2>3, <2>4 DEF UnitKnown
<1> QED BY <1>1, <1>2

\* A step that touches no file and no unit, and records only in their flags.
Calm ==
  /\ UNCHANGED <<env, unit, community, runtime>>
  /\ \A s \in Slug : saved'[s] = None <=> saved[s] = None
  /\ \A s \in Slug : saved[s] # None => Same(saved'[s], saved[s])
LEMMA CalmIf ==
  ASSUME UNCHANGED <<saved, env, unit, relay, community, runtime>>
  PROVE  Calm
  BY DEF Calm, Same

LEMMA CalmHeal ==
  ASSUME LifecycleAssumption, IInv, HealWhole, NEW p \in Process, Moves(p), Calm,
         \A s \in Slug : saved[s] # None => StillAhead(p, s),
         Active(p)' => HandKnown(p)', Kind[p] = "heal" /\ at'[p].phase = "on" /\ latest = p => Progress(p)'
  PROVE  HealWhole'
<1>1. ASSUME NEW s \in Slug PROVE UnitKnown(s)'
  BY <1>1, UnitStays DEF HealWhole, Calm, Same
<1> QED BY <1>1, HealStays

\* The file and the unit of the agent in hand stay.
LEMMA HandStays ==
  ASSUME NEW p \in Process, HandKnown(p), UNCHANGED <<env, unit>>, at'[p].n \in Nat,
         at'[p].slug = at[p].slug, at'[p].agent.key = at[p].agent.key, at'[p].agent.cfg = at[p].agent.cfg,
         Kind[p] = "create" /\ at'[p].n >= 15 => at[p].n \in 15..19 /\ (at'[p].n >= 16 => at[p].n >= 16),
         Kind[p] = "update" /\ at'[p].n >= 6 => at[p].n >= 6
  PROVE  HandKnown(p)'
<1>1. WroteFile(p) => WroteFile(p)'
  BY DEF WroteFile
<1>2. Kind[p] = "create" /\ at'[p].n \in 15..19 => unit'[at'[p].slug].loaded = None
  BY DEF HandKnown
<1>3. (Kind[p] = "create" /\ at'[p].n >= 16) \/ (Kind[p] = "update" /\ at'[p].n >= 6) => WroteFile(p)
  BY DEF HandKnown
<1> QED BY <1>1, <1>2, <1>3 DEF HandKnown

\* A step towards the loop: who learns or installs something new rewrites all.
ReadyStep(p) ==
  /\ UNCHANGED <<saved, env, unit>>
  /\ Readies(p) /\ at[p].n \in 1..5 /\ Kind[p] # "delete" /\ (Loops(p) \/ at[p].n = 1)
  /\ Loops(p) /\ at[p].full => at'[p].full
  /\ (community'.owner => community.owner) \/ (Loops(p) /\ at'[p].full)
  /\ runtime' = runtime \/ (Loops(p) /\ at'[p].full)
  /\ \A part \in runtime : part \in runtime'
  /\ at[p].n = 3 => "template" \in runtime'
  /\ at[p].n = 4 => "acp" \in runtime'

LEMMA ReadyUnit ==
  ASSUME LifecycleAssumption, NEW p \in Process, Moves(p), NEW s \in Slug, UnitKnown(s), ReadyStep(p)
  PROVE  UnitKnown(s)'
<1>1. /\ UNCHANGED <<saved, env, unit>> /\ at[p].n \in 1..5 /\ at'[p].n = at[p].n + 1
      /\ at'[p].phase = "on" /\ KeepsAgent(p) /\ (Loops(p) \/ at[p].n = 1)
  BY DEF ReadyStep, Readies
<1>2. Loops(p) => Active(p)'
  BY <1>1, Lengths DEF Active, Loops
<1>3. Loops(p) /\ at'[p].full => WillWrite(p, s)'
  BY <1>1, <1>2 DEF WillWrite, Loops
<1>4. ~WillRestart(p, s) /\ ~WillSave(p, s)
  BY <1>1 DEF WillRestart, WillSave, Loops
<1>5. WillWrite(p, s) => WillWrite(p, s)'
  BY <1>3 DEF WillWrite, ReadyStep
<1>6. \A q \in Process : StillAhead(q, s)
  BY <1>4, <1>5, OthersAhead DEF StillAhead
<1>7. CASE saved[s] = None
  BY <1>1, <1>7 DEF UnitKnown
<1>8. CASE saved[s] # None
  <2>1. FileIsOf(s)'
    BY <1>1, <1>6, <1>8 DEF UnitKnown, FileIsOf, StillAhead
  <2>2. OwnerTold(s)'
    BY <1>1, <1>3, <1>6, <1>8 DEF UnitKnown, OwnerTold, StillAhead, ReadyStep
  <2>3. UpToDate(s)'
    BY <1>1, <1>3, <1>6, <1>8 DEF UnitKnown, UpToDate, StillAhead, ReadyStep
  <2> QED BY <1>1, <1>8, <2>1, <2>2, <2>3 DEF UnitKnown
<1> QED BY <1>7, <1>8

LEMMA ReadyHeal ==
  ASSUME LifecycleAssumption, IInv, HealWhole, NEW p \in Process, Moves(p), ReadyStep(p)
  PROVE  HealWhole'
<1>1. ASSUME NEW s \in Slug PROVE UnitKnown(s)'
  BY ReadyUnit DEF HealWhole
<1>2. HandKnown(p)'
  BY DEF HandKnown, ReadyStep, Readies, Loops
<1>3. ASSUME Kind[p] = "heal", latest = p PROVE Progress(p)'
  <2>1. Progress(p)
    BY <1>3 DEF HealWhole, HealsOn, Moves, Active
  <2> QED BY <2>1 DEF Progress, ReadyStep, Readies
<1> QED BY <1>1, <1>2, <1>3, HealStays

LEMMA EnsureOwnerHeal ==
  ASSUME LifecycleAssumption, IInv, HInv, NEW p \in Process, EnsureOwner(p), faults' = faults
  PROVE  HInv'
<1>1. /\ Moves(p) /\ Kind[p] # "delete" /\ at[p].n = 1
      /\ UNCHANGED <<saved, env, unit, relay, runtime>>
      /\ \/ Halts(p) /\ SystemMayFail /\ UNCHANGED community
         \/ /\ Readies(p)
            /\ IF at[p].com.owner
                 THEN at'[p].com = at[p].com /\ at'[p].full = at[p].full /\ UNCHANGED community
                 ELSE /\ at'[p].com.owner /\ at'[p].com.fleet = at[p].com.fleet
                      /\ community' = at'[p].com /\ at'[p].full = (Kind[p] # "update")
  BY EnsureOwnerEffect DEF IInv
<1>2. OwnerInv'
  <2>1. CASE Halts(p)
    BY <1>1, <2>1, OwnerKept DEF HInv, Halts, KeepsHand
  <2>2. CASE Readies(p)
    <3>1. at[p].phase = "on"
      BY <1>1 DEF Moves, Active
    <3>2. at[p].com.owner => community.owner
      BY <3>1 DEF HInv, OwnerInv
    <3>3. at'[p].com.owner /\ community'.owner
      BY <1>1, <2>2, <3>2 DEF Readies, Halts
    <3> QED BY <1>1, <3>3, OwnerStays DEF HInv
  <2> QED BY <1>1, <2>1, <2>2
<1>3. ASSUME Smooth' PROVE HealWhole'
  <2>1. Smooth /\ ~SystemMayFail /\ HealWhole
    BY <1>1, <1>3, SmoothBefore DEF HInv
  <2>2. Readies(p)
    BY <1>1, <2>1
  <2>3. CASE at[p].com.owner
    <3>1. Kind[p] # "delete" /\ runtime' = runtime /\ community' = community /\ at'[p].full = at[p].full
      BY <1>1, <2>1, <2>3
    <3>2. ReadyStep(p)
      BY <1>1, <2>2, <3>1 DEF ReadyStep
    <3> QED BY <1>1, <2>1, <3>2, ReadyHeal
  <2>4. CASE ~at[p].com.owner
    <3>1. Kind[p] # "update"
      BY <1>1, <2>1, <2>4 DEF HInv, OwnerInv, Smooth, Here, Moves, Active
    <3>2. Loops(p) /\ at'[p].full
      BY <1>1, <2>1, <2>4, <3>1, Lengths DEF Loops
    <3>3. ReadyStep(p)
      BY <1>1, <2>2, <3>2 DEF ReadyStep
    <3> QED BY <1>1, <2>1, <3>3, ReadyHeal
  <2> QED BY <2>3, <2>4
<1> QED BY <1>2, <1>3 DEF HInv

LEMMA EnsureLingerHeal ==
  ASSUME LifecycleAssumption, IInv, HInv, NEW p \in Process, EnsureLinger(p), faults' = faults
  PROVE  HInv'
<1>1. /\ Moves(p) /\ Loops(p) /\ at[p].n = 2
      /\ UNCHANGED <<saved, env, unit, relay, community, runtime>>
      /\ (Halts(p) /\ SystemMayFail) \/ Advances(p)
  BY EnsureLingerEffect DEF IInv, stores
<1>2. OwnerInv'
  BY <1>1, OwnerKept DEF HInv, Halts, Advances, KeepsHand
<1>3. ASSUME Smooth' PROVE HealWhole'
  <2>1. ~SystemMayFail /\ HealWhole
    BY <1>1, <1>3, SmoothBefore DEF HInv
  <2>2. ReadyStep(p)
    BY <1>1, <2>1 DEF ReadyStep, Readies, Advances, KeepsHand, Loops
  <2> QED BY <1>1, <2>1, <2>2, ReadyHeal
<1> QED BY <1>2, <1>3 DEF HInv

LEMMA InstallHeal ==
  ASSUME LifecycleAssumption, IInv, HInv, NEW p \in Process, NEW part \in {"template", "acp"},
         Install(p, part), faults' = faults
  PROVE  HInv'
<1>1. /\ Moves(p) /\ Loops(p) /\ at[p].n = (IF part = "template" THEN 3 ELSE 4)
      /\ UNCHANGED <<saved, env, unit, relay, community>>
      /\ \/ Halts(p) /\ SystemMayFail /\ UNCHANGED runtime
         \/ /\ Readies(p) /\ runtime' = runtime \cup {part}
            /\ at'[p].com = at[p].com /\ at'[p].full = (at[p].full \/ part \notin runtime)
  BY InstallEffect DEF IInv, stores
<1>2. OwnerInv'
  <2>1. at'[p].com = at[p].com
    BY <1>1 DEF Halts, KeepsHand
  <2> QED BY <1>1, <2>1, OwnerKept DEF HInv
<1>3. ASSUME Smooth' PROVE HealWhole'
  <2>1. ~SystemMayFail /\ HealWhole
    BY <1>1, <1>3, SmoothBefore DEF HInv
  <2>2. /\ Readies(p) /\ runtime' = runtime \cup {part}
        /\ at'[p].full = (at[p].full \/ part \notin runtime)
    BY <1>1, <2>1
  <2>3. runtime' = runtime \/ at'[p].full
    BY <2>2
  <2>4. Kind[p] # "delete" /\ at[p].n \in {3, 4} /\ (at[p].full => at'[p].full)
    BY <1>1, <2>2 DEF Loops
  <2>5. (at[p].n = 3 => "template" \in runtime') /\ (at[p].n = 4 => "acp" \in runtime')
    BY <1>1, <2>2
  <2>6. ReadyStep(p)
    BY <1>1, <2>2, <2>3, <2>4, <2>5 DEF ReadyStep
  <2> QED BY <1>1, <2>1, <2>6, ReadyHeal
<1> QED BY <1>2, <1>3 DEF HInv

LEMMA EnsureFleetHeal ==
  ASSUME LifecycleAssumption, IInv, HInv, NEW p \in Process, EnsureFleet(p), faults' = faults
  PROVE  HInv'
<1>1. /\ Moves(p) /\ Loops(p) /\ at[p].n = 5
      /\ UNCHANGED <<saved, env, unit, relay, runtime>>
      /\ Readies(p) /\ at'[p].full = at[p].full
      /\ at'[p].com.owner = at[p].com.owner
      /\ community' \in {community, at'[p].com}
  BY EnsureFleetEffect DEF IInv
<1>2. at[p].com.owner /\ community.owner
  BY <1>1 DEF HInv, OwnerInv, Moves, Active, Loops
<1>3. OwnerInv'
  BY <1>1, <1>2, OwnerStays DEF HInv
<1>4. ASSUME Smooth' PROVE HealWhole'
  <2>1. ~SystemMayFail /\ HealWhole
    BY <1>1, <1>4, SmoothBefore DEF HInv
  <2>2. ReadyStep(p)
    BY <1>1, <1>2 DEF ReadyStep, Loops
  <2> QED BY <1>1, <2>1, <2>2, ReadyHeal
<1> QED BY <1>3, <1>4 DEF HInv

\* A step that keeps the community in hand, past the first.
LEMMA HealStep ==
  ASSUME HInv, NEW p \in Process, Moves(p), faults' = faults,
         community' = community, at'[p].com = at[p].com,
         Kind[p] = "delete" \/ at[p].n >= 2 \/ at'[p].phase # "on",
         Smooth' /\ ~SystemMayFail /\ HealWhole => HealWhole'
  PROVE  HInv'
<1>1. OwnerInv'
  BY OwnerKept DEF HInv
<1>2. Smooth' => ~SystemMayFail /\ HealWhole
  BY SmoothBefore DEF HInv
<1> QED BY <1>1, <1>2 DEF HInv

LEMMA ListHeal ==
  ASSUME LifecycleAssumption, IInv, HInv, NEW p \in Process, List(p), faults' = faults
  PROVE  HInv'
<1>1. /\ Moves(p) /\ Loops(p) /\ at[p].n = 6
      /\ UNCHANGED <<saved, env, unit, relay, community, runtime>>
      /\ at'[p].phase = "on" /\ at'[p].n = 7
      /\ at'[p].todo = saved /\ at'[p].com = at[p].com /\ at'[p].full = at[p].full
  BY ListEffect DEF IInv, stores
<1>2. ASSUME HealWhole PROVE HealWhole'
  <2>1. Active(p)'
    BY <1>1, Lengths DEF Active, Loops
  <2>2. ASSUME NEW s \in Slug, saved[s] # None PROVE StillAhead(p, s)
    <3>1. ~WillRestart(p, s) /\ ~WillSave(p, s)
      BY <1>1 DEF WillRestart, WillSave, Loops
    <3>2. WillWrite(p, s) => WillWrite(p, s)'
      BY <1>1, <2>1, <2>2 DEF WillWrite
    <3> QED BY <3>1, <3>2 DEF StillAhead
  <2>3. HandKnown(p)'
    BY <1>1 DEF HandKnown, Loops
  <2>4. ASSUME Kind[p] = "heal", latest = p PROVE Progress(p)'
    <3>1. Progress(p)
      BY <1>1, <1>2, <2>4 DEF HealWhole, HealsOn, Moves, Active
    <3>2. \A s \in Slug : saved'[s] # None => Ahead(p, s)'
      BY <1>1 DEF Ahead
    <3> QED BY <1>1, <3>1, <3>2 DEF Progress
  <2> QED BY <1>1, <1>2, <2>2, <2>3, <2>4, CalmHeal, CalmIf
<1> QED BY <1>1, <1>2, HealStep

LEMMA NextAgentHeal ==
  ASSUME LifecycleAssumption, IInv, HInv, NEW p \in Process, NextAgent(p), faults' = faults
  PROVE  HInv'
<1>1. /\ Moves(p) /\ Loops(p) /\ at[p].n = 7
      /\ UNCHANGED <<saved, env, unit, relay, community, runtime>>
      /\ \/ /\ \A s \in Slug : at[p].todo[s] = None
            /\ at'[p].phase = "on" /\ at'[p].n = 13 /\ KeepsHand(p)
         \/ \E s \in Slug : Takes(p, s)
  BY NextAgentEffect DEF IInv, stores
<1>2. at[p] \in Hand /\ Active(p)
  BY <1>1 DEF IInv, TypeInv, Moves
<1>3. \A s \in Slug : ~WillRestart(p, s) /\ ~WillSave(p, s)
  BY <1>1 DEF WillRestart, WillSave, Loops
<1>4. CASE (\A s \in Slug : at[p].todo[s] = None) /\ at'[p].phase = "on" /\ at'[p].n = 13 /\ KeepsHand(p)
  <2>1. \A s \in Slug : ~WillWrite(p, s) /\ ~Ahead(p, s)
    BY <1>1, <1>4 DEF WillWrite, Ahead
  <2>2. \A s \in Slug : StillAhead(p, s)
    BY <1>3, <2>1 DEF StillAhead
  <2>3. HandKnown(p)'
    BY <1>1, <1>4 DEF HandKnown, Loops
  <2>4. ASSUME HealWhole, Kind[p] = "heal", latest = p PROVE Progress(p)'
    <3>1. Progress(p)
      BY <1>2, <2>4 DEF HealWhole, HealsOn, Active
    <3>2. \A s \in Slug : saved[s] # None => LookedAt(s, at[p].com)
      BY <1>1, <2>1, <3>1 DEF Progress
    <3>3. \A s \in Slug : saved'[s] # None => LookedAt(s, at[p].com)'
      BY <1>1, <1>4, <3>2 DEF LookedAt, KeepsHand
    <3> QED BY <1>1, <1>4, <3>1, <3>3 DEF Progress
  <2> QED BY <1>1, <1>4, <2>2, <2>3, <2>4, CalmHeal, CalmIf, HealStep DEF KeepsHand
<1>5. ASSUME NEW s \in Slug, Takes(p, s) PROVE HInv'
  <2>1. /\ at'[p].phase = "on" /\ at'[p].n = 8 /\ at'[p].com = at[p].com /\ at'[p].full = at[p].full
        /\ at'[p].slug = s /\ \A t \in Slug : t # s => at'[p].todo[t] = at[p].todo[t]
    BY <1>2, <1>5 DEF Takes, Hand
  <2>2. Active(p)'
    BY <1>1, <2>1, Lengths DEF Active, Loops
  <2>3. ASSUME NEW t \in Slug PROVE (WillWrite(p, t) => WillWrite(p, t)') /\ (Ahead(p, t) => Ahead(p, t)')
    <3>1. CASE t = s
      BY <1>1, <2>1, <2>2, <3>1 DEF WillWrite, Ahead
    <3>2. CASE t # s
      BY <1>1, <2>1, <2>2, <3>2 DEF WillWrite, Ahead
    <3> QED BY <3>1, <3>2
  <2>4. \A t \in Slug : StillAhead(p, t)
    BY <1>3, <2>3 DEF StillAhead
  <2>5. HandKnown(p)'
    BY <1>1, <2>1 DEF HandKnown, Loops
  <2>6. ASSUME HealWhole, Kind[p] = "heal", latest = p PROVE Progress(p)'
    <3>1. Progress(p)
      BY <1>2, <2>6 DEF HealWhole, HealsOn, Active
    <3>2. \A t \in Slug : LookedAt(t, at[p].com) => LookedAt(t, at[p].com)'
      BY <1>1, <2>1 DEF LookedAt
    <3> QED BY <1>1, <2>1, <2>3, <3>1, <3>2 DEF Progress
  <2> QED BY <1>1, <2>1, <2>4, <2>5, <2>6, CalmHeal, CalmIf, HealStep
<1> QED BY <1>1, <1>4, <1>5

\* Within the body of the loop, up to the writing of the files.
LEMMA BodyHeal ==
  ASSUME LifecycleAssumption, IInv, HealWhole, NEW p \in Process, Moves(p), Calm,
         Loops(p), at[p].n \in 8..11, at'[p].n \in 8..11, at'[p].phase = "on",
         at'[p].todo = at[p].todo, at'[p].slug = at[p].slug,
         at'[p].com = at[p].com, at'[p].full = at[p].full
  PROVE  HealWhole'
<1>1. Active(p)'
  BY Lengths DEF Active, Loops
<1>2. \A s \in Slug : ~WillRestart(p, s) /\ ~WillSave(p, s)
  BY DEF WillRestart, WillSave, Loops
<1>3. \A s \in Slug : (WillWrite(p, s) => WillWrite(p, s)') /\ (Ahead(p, s) => Ahead(p, s)')
  BY <1>1 DEF WillWrite, Ahead
<1>4. \A s \in Slug : StillAhead(p, s)
  BY <1>2, <1>3 DEF StillAhead
<1>5. HandKnown(p)'
  BY DEF HandKnown, Loops
<1>6. ASSUME Kind[p] = "heal", latest = p PROVE Progress(p)'
  <2>1. Progress(p)
    BY <1>6 DEF HealWhole, HealsOn, Moves, Active
  <2>2. \A t \in Slug : saved[t] # None /\ LookedAt(t, at[p].com) => LookedAt(t, at[p].com)'
    BY DEF LookedAt, Calm, Same
  <2> QED BY <1>3, <2>1, <2>2 DEF Progress, Calm
<1> QED BY <1>4, <1>5, <1>6, CalmHeal

\* A create, an update or a delete, outside of the loop.
LEMMA TaskHeal ==
  ASSUME LifecycleAssumption, IInv, HealWhole, NEW p \in Process, Moves(p), Calm, Kind[p] # "heal",
         Kind[p] = "create" => at[p].n \in 13..18, Kind[p] = "update" => at[p].n \in 1..5,
         (Kind[p] = "create" /\ at[p].n >= 17) \/ (Kind[p] = "delete" /\ at[p].n >= 3) =>
           Active(p)' /\ at'[p].slug = at[p].slug /\ at'[p].n \in at[p].n..(at[p].n + 1),
         Active(p)' => HandKnown(p)'
  PROVE  HealWhole'
<1>1. at[p].n \in Nat
  BY DEF IInv, TypeInv, Hand
<1>2. ASSUME NEW s \in Slug, WillRestart(p, s) PROVE WillRestart(p, s)'
  <2>1. (Kind[p] = "create" /\ at[p].n >= 17) \/ (Kind[p] = "delete" /\ at[p].n >= 3)
    BY <1>1, <1>2, Lengths DEF WillRestart, Loops
  <2> QED BY <1>1, <1>2, <2>1 DEF WillRestart
<1>3. \A s \in Slug : ~WillWrite(p, s) /\ ~WillSave(p, s)
  BY <1>1, Lengths DEF WillWrite, WillSave, Loops
<1>4. \A s \in Slug : StillAhead(p, s)
  BY <1>2, <1>3 DEF StillAhead
<1> QED BY <1>4, CalmHeal

LEMMA SyncHeal ==
  ASSUME LifecycleAssumption, IInv, HInv, NEW p \in Process, Sync(p), faults' = faults
  PROVE  HInv'
<1>1. /\ Moves(p) /\ UNCHANGED <<saved, env, unit, relay, community, runtime>>
      /\ \/ Loops(p) /\ at[p].n = 8
         \/ Kind[p] = "create" /\ at[p].n = 17
         \/ Kind[p] = "update" /\ at[p].n = 4
      /\ at'[p].phase = "on" /\ at'[p].n = at[p].n + 1 /\ KeepsAgent(p)
      /\ at'[p].com = at[p].com /\ at'[p].full = at[p].full
  BY SyncEffect DEF IInv, stores
<1>2. Calm
  BY <1>1, CalmIf
<1>3. ASSUME HealWhole PROVE HealWhole'
  <2>1. CASE Loops(p) /\ at[p].n = 8
    BY <1>1, <1>2, <1>3, <2>1, BodyHeal DEF KeepsAgent
  <2>2. CASE (Kind[p] = "create" /\ at[p].n = 17) \/ (Kind[p] = "update" /\ at[p].n = 4)
    <3>1. HandKnown(p)
      BY <1>1, <1>3 DEF HealWhole, Moves
    <3>2. HandKnown(p)'
      BY <1>1, <2>2, <3>1, HandStays DEF KeepsAgent
    <3>3. Active(p)'
      BY <1>1, <2>2, Lengths DEF Active
    <3> QED BY <1>1, <1>2, <1>3, <2>2, <3>2, <3>3, TaskHeal DEF KeepsAgent
  <2> QED BY <1>1, <2>1, <2>2
<1> QED BY <1>1, <1>3, HealStep DEF Loops

LEMMA PublishHeal ==
  ASSUME LifecycleAssumption, IInv, HInv, NEW p \in Process, NEW item \in Item, Publish(p, item),
         faults' = faults
  PROVE  HInv'
<1>1. /\ Moves(p) /\ UNCHANGED <<saved, env, unit, community, runtime>>
      /\ \/ Loops(p) /\ at[p].n = 9
         \/ Kind[p] = "create" /\ at[p].n = 18
         \/ Kind[p] = "update" /\ at[p].n = 5
      /\ \E mark \in Mark : Marks(p, item, mark)
  BY PublishEffect DEF IInv
<1>2. /\ at'[p].phase = "on" /\ at'[p].n = at[p].n /\ at'[p].com = at[p].com /\ at'[p].full = at[p].full
      /\ at'[p].todo = at[p].todo /\ at'[p].slug = at[p].slug
      /\ at'[p].agent.key = at[p].agent.key /\ at'[p].agent.cfg = at[p].agent.cfg
  BY <1>1 DEF Marks, Same
<1>3. Calm
  BY <1>1 DEF Calm, Same
<1>4. ASSUME HealWhole PROVE HealWhole'
  <2>1. CASE Loops(p) /\ at[p].n = 9
    BY <1>1, <1>2, <1>3, <1>4, <2>1, BodyHeal
  <2>2. CASE (Kind[p] = "create" /\ at[p].n = 18) \/ (Kind[p] = "update" /\ at[p].n = 5)
    <3>1. HandKnown(p)
      BY <1>1, <1>4 DEF HealWhole, Moves
    <3>2. HandKnown(p)'
      BY <1>1, <1>2, <2>2, <3>1, HandStays
    <3>3. Active(p)'
      BY <1>1, <1>2 DEF Active, Moves
    <3> QED BY <1>1, <1>2, <1>3, <1>4, <2>2, <3>2, <3>3, TaskHeal
  <2> QED BY <1>1, <2>1, <2>2
<1> QED BY <1>1, <1>2, <1>4, HealStep DEF Loops

LEMMA KeepHeal ==
  ASSUME LifecycleAssumption, IInv, HInv, NEW p \in Process, Keep(p), faults' = faults
  PROVE  HInv'
<1>1. /\ Moves(p) /\ Advances(p) /\ Loops(p) /\ at[p].n = 9
      /\ at[p].slug \in Slug /\ at[p].agent \in AgentRecord
      /\ saved' = saved \/ saved' = [saved EXCEPT ![at[p].slug] = at[p].agent]
      /\ UNCHANGED <<env, unit, relay, community, runtime>>
  BY KeepEffect DEF IInv
<1>2. /\ saved[at[p].slug] # None /\ Same(at[p].agent, saved[at[p].slug]) /\ at[p].agent # None
      /\ saved \in [Slug -> AgentRecord \cup {None}]
  <2>1. InBody(p) /\ HandMatches(p) /\ Held(p)
    BY <1>1 DEF IInv, HandsMatch, HandsTyped, Moves, InBody
  <2> QED BY <2>1 DEF HandMatches, Matches, Held, IInv, TypeInv
<1>3. Calm
  <2>1. ASSUME NEW s \in Slug
        PROVE  (saved'[s] = None <=> saved[s] = None) /\ (saved[s] # None => Same(saved'[s], saved[s]))
    <3>1. saved'[s] = saved[s] \/ (s = at[p].slug /\ saved'[s] = at[p].agent)
      BY <1>1, <1>2
    <3> QED BY <1>2, <3>1 DEF Same
  <2> QED BY <1>1, <2>1 DEF Calm
<1>4. ASSUME HealWhole PROVE HealWhole'
  BY <1>1, <1>3, <1>4, BodyHeal DEF Advances, KeepsHand, KeepsAgent
<1> QED BY <1>1, <1>4, HealStep DEF Advances, KeepsHand

\* What the healing loop passes over needs nothing.
LEMMA PassedOver ==
  ASSUME IInv, NEW p \in Process, Active(p), InBody(p), ~NeedsRefresh(p)
  PROVE  ~at[p].full /\ LookedAt(at[p].slug, at[p].com)
<1>1. at[p].agent.managed = saved[at[p].slug].managed
  BY DEF IInv, HandsMatch, HandMatches, Matches, Same
<1> QED BY <1>1 DEF NeedsRefresh, LookedAt

LEMMA CheckHeal ==
  ASSUME LifecycleAssumption, IInv, HInv, NEW p \in Process, Check(p), faults' = faults
  PROVE  HInv'
<1>1. /\ Moves(p) /\ Loops(p) /\ at[p].n = 10
      /\ UNCHANGED <<saved, env, unit, relay, community, runtime>>
      /\ at'[p].phase = "on" /\ KeepsHand(p)
      /\ IF NeedsRefresh(p) THEN at'[p].n = 11 ELSE at'[p].n = 7
  BY CheckEffect DEF IInv, stores
<1>2. Calm
  BY <1>1, CalmIf
<1>3. at'[p].com = at[p].com /\ at'[p].full = at[p].full /\ at'[p].todo = at[p].todo /\ at'[p].slug = at[p].slug
  BY <1>1 DEF KeepsHand, KeepsAgent
<1>4. ASSUME HealWhole PROVE HealWhole'
  <2>1. CASE NeedsRefresh(p)
    BY <1>1, <1>2, <1>3, <1>4, <2>1, BodyHeal
  <2>2. CASE ~NeedsRefresh(p)
    <3>1. ~at[p].full /\ LookedAt(at[p].slug, at[p].com)
      BY <1>1, <2>2, PassedOver DEF InBody, Moves
    <3>2. \A s \in Slug : StillAhead(p, s)
      BY <1>1, <3>1 DEF StillAhead, WillWrite, WillRestart, WillSave, Loops
    <3>3. HandKnown(p)'
      BY <1>1, <2>2 DEF HandKnown, Loops
    <3>4. ASSUME Kind[p] = "heal", latest = p PROVE Progress(p)'
      <4>1. Progress(p)
        BY <1>1, <1>4, <3>4 DEF HealWhole, HealsOn, Moves, Active
      <4>2. \A s \in Slug : LookedAt(s, at[p].com) => LookedAt(s, at[p].com)'
        BY <1>1, <1>3 DEF LookedAt
      <4>3. \A s \in Slug : Ahead(p, s) => Ahead(p, s)' \/ LookedAt(s, at[p].com)
        BY <1>1, <1>3, <2>2, <3>1 DEF Ahead
      <4> QED BY <1>1, <2>2, <4>1, <4>2, <4>3 DEF Progress
    <3> QED BY <1>1, <1>2, <1>4, <3>2, <3>3, <3>4, CalmHeal
  <2> QED BY <2>1, <2>2
<1> QED BY <1>1, <1>3, <1>4, HealStep

LEMMA CheckNameHeal ==
  ASSUME LifecycleAssumption, IInv, HInv, NEW p \in Process, CheckName(p), faults' = faults
  PROVE  HInv'
<1>1. /\ Moves(p) /\ Kind[p] = "create" /\ at[p].n = 13
      /\ UNCHANGED <<saved, env, unit, relay, community, runtime>>
      /\ Halts(p) \/ Advances(p)
  BY CheckNameEffect DEF IInv, stores
<1>2. at'[p].com = at[p].com
  BY <1>1 DEF Halts, Advances, KeepsHand
<1>3. Active(p)' => HandKnown(p)'
  BY <1>1 DEF HandKnown, Halts, Advances, Active
<1>4. ASSUME HealWhole PROVE HealWhole'
  BY <1>1, <1>3, <1>4, CalmIf, TaskHeal
<1> QED BY <1>1, <1>2, <1>4, HealStep

LEMMA MintHeal ==
  ASSUME LifecycleAssumption, IInv, HInv, NEW p \in Process, Mint(p), faults' = faults
  PROVE  HInv'
<1>1. /\ Moves(p) /\ Kind[p] = "create" /\ at[p].n = 14
      /\ UNCHANGED <<saved, env, unit, relay, community, runtime>>
      /\ Halts(p) \/ Mints(p)
  BY MintEffect DEF IInv, stores
<1>2. at'[p].com = at[p].com
  BY <1>1 DEF Halts, Mints, KeepsHand
<1>3. ASSUME HealWhole, Active(p)' PROVE HandKnown(p)'
  <2>1. Mints(p)
    BY <1>1, <1>3 DEF Halts, Active
  <2>2. \A s \in Slug : saved[s] = None => unit[s].loaded = None
    BY <1>3 DEF HealWhole, UnitKnown
  <2>3. unit[at'[p].slug].loaded = None
    BY <2>1, <2>2 DEF Mints
  <2>4. unit'[at'[p].slug].loaded = None
    BY <1>1, <2>3
  <2> QED BY <1>1, <2>1, <2>4 DEF HandKnown, Mints
<1>4. ASSUME HealWhole PROVE HealWhole'
  BY <1>1, <1>3, <1>4, CalmIf, TaskHeal
<1> QED BY <1>1, <1>2, <1>4, HealStep

LEMMA LoadHeal ==
  ASSUME LifecycleAssumption, IInv, HInv, NEW p \in Process, Load(p), faults' = faults
  PROVE  HInv'
<1>1. /\ Moves(p) /\ UNCHANGED <<saved, env, unit, relay, community, runtime>>
      /\ (Kind[p] = "update" /\ at[p].n = 2) \/ (Kind[p] = "delete" /\ at[p].n = 1)
      /\ Halts(p) \/ Loads(p)
  BY LoadEffect DEF IInv, stores
<1>2. at'[p].com = at[p].com
  BY <1>1 DEF Halts, Loads, KeepsHand
<1>3. Active(p)' => HandKnown(p)'
  BY <1>1 DEF HandKnown, Halts, Loads, Active
<1>4. ASSUME HealWhole PROVE HealWhole'
  BY <1>1, <1>3, <1>4, CalmIf, TaskHeal
<1> QED BY <1>1, <1>2, <1>4, HealStep

LEMMA TakesBackHeal ==
  ASSUME LifecycleAssumption, IInv, HInv, NEW p \in Process, Leave(p) \/ Teardown(p), faults' = faults
  PROVE  HInv'
<1>1. /\ Moves(p) /\ Ends(p) /\ UNCHANGED <<saved, env, unit, community, runtime>>
      /\ (Kind[p] = "update" /\ at[p].n = 3) \/ (Kind[p] = "delete" /\ at[p].n = 3)
  BY LeaveEffect, TeardownEffect DEF IInv
<1>2. at'[p].com = at[p].com /\ at'[p].slug = at[p].slug
  BY <1>1 DEF Ends, Advances, Halts, KeepsHand, KeepsAgent
<1>3. Advances(p) => HandKnown(p)'
  BY <1>1 DEF HandKnown, Advances
<1>4. Calm
  BY <1>1 DEF Calm, Same
<1>5. Advances(p) /\ Kind[p] = "delete" => Active(p)'
  BY <1>1, Lengths DEF Active, Advances
<1>6. ASSUME HealWhole, ~SystemMayFail PROVE HealWhole'
  <2>1. Advances(p)
    BY <1>1, <1>6 DEF Ends
  <2> QED BY <1>1, <1>2, <1>3, <1>4, <1>5, <1>6, <2>1, TaskHeal DEF Advances
<1> QED BY <1>1, <1>2, <1>6, HealStep

\* A create's record comes with the file it has written.
LEMMA FirstSaveHeal ==
  ASSUME LifecycleAssumption, IInv, HealWhole, NEW p \in Process, Moves(p), Advances(p),
         Kind[p] = "create", at[p].n = 16, at[p].slug \in Slug, at[p].agent \in AgentRecord,
         saved' = [saved EXCEPT ![at[p].slug] = at[p].agent], UNCHANGED <<env, unit, community, runtime>>
  PROVE  HealWhole'
<1>1. /\ saved \in [Slug -> AgentRecord \cup {None}] /\ None \notin AgentRecord
      /\ HandKnown(p) /\ HandMatches(p)
  BY DEF IInv, TypeInv, HandsMatch, HealWhole, Moves, LifecycleAssumption
<1>2. WroteFile(p)
  BY <1>1 DEF HandKnown
<1>3. Active(p)' /\ at'[p].slug = at[p].slug /\ at'[p].n = 17
  BY Lengths DEF Active, Advances, KeepsHand, KeepsAgent
<1>4. ASSUME NEW s \in Slug, s = at[p].slug PROVE UnitKnown(s)'
  <2>1. saved'[s] = at[p].agent /\ saved'[s] # None
    BY <1>1, <1>4
  <2>2. FileIsOf(s)' /\ env'[s].owner
    BY <1>2, <1>4, <2>1 DEF WroteFile, FileIsOf
  <2>3. WillRestart(p, s)'
    BY <1>3, <1>4 DEF WillRestart
  <2> QED BY <2>1, <2>2, <2>3 DEF UnitKnown, OwnerTold, UpToDate
<1>5. ASSUME NEW s \in Slug, s # at[p].slug PROVE UnitKnown(s)'
  <2>1. StillAhead(p, s)
    BY <1>5 DEF StillAhead, WillWrite, WillRestart, WillSave
  <2>2. UnitKnown(s) /\ saved'[s] = saved[s]
    BY <1>1, <1>5 DEF HealWhole
  <2> QED BY <2>1, <2>2, UnitStays
<1>6. HandKnown(p)'
  BY <1>1, HandStays DEF Advances, KeepsHand, KeepsAgent
<1> QED BY <1>4, <1>5, <1>6, HealStays

\* An update's record comes with the file it has written as well.
LEMMA LastSaveHeal ==
  ASSUME LifecycleAssumption, IInv, HealWhole, NEW p \in Process, Moves(p), Advances(p),
         Kind[p] = "update", at[p].n = 7, at[p].slug \in Slug, at[p].agent \in AgentRecord,
         saved' = [saved EXCEPT ![at[p].slug] = at[p].agent], UNCHANGED <<env, unit, community, runtime>>
  PROVE  HealWhole'
<1>1. /\ saved \in [Slug -> AgentRecord \cup {None}] /\ None \notin AgentRecord
      /\ HandKnown(p) /\ HandMatches(p)
  BY DEF IInv, TypeInv, HandsMatch, HealWhole, Moves, LifecycleAssumption
<1>2. WroteFile(p)
  BY <1>1 DEF HandKnown
<1>3. ASSUME NEW s \in Slug, s = at[p].slug PROVE UnitKnown(s)'
  <2>1. saved[s] # None /\ saved'[s] = at[p].agent /\ saved'[s] # None
    BY <1>1, <1>3 DEF HandMatches, Updating
  <2>2. FileIsOf(s)'
    BY <1>2, <1>3, <2>1 DEF WroteFile, FileIsOf
  <2>3. OwnerTold(s) /\ UpToDate(s)
    BY <2>1 DEF HealWhole, UnitKnown
  <2>4. ~WillWrite(p, s) /\ ~WillRestart(p, s)
    BY DEF WillWrite, WillRestart, Loops
  <2>5. \A q \in Process : (WillWrite(q, s) => WillWrite(q, s)') /\ (WillRestart(q, s) => WillRestart(q, s)')
    BY <2>4, OthersAhead DEF StillAhead
  <2>6. OwnerTold(s)' /\ UpToDate(s)'
    BY <2>3, <2>5 DEF OwnerTold, UpToDate
  <2> QED BY <2>1, <2>2, <2>6 DEF UnitKnown
<1>4. ASSUME NEW s \in Slug, s # at[p].slug PROVE UnitKnown(s)'
  <2>1. StillAhead(p, s)
    BY <1>4 DEF StillAhead, WillWrite, WillRestart, WillSave, Loops
  <2>2. UnitKnown(s) /\ saved'[s] = saved[s]
    BY <1>1, <1>4 DEF HealWhole
  <2> QED BY <2>1, <2>2, UnitStays
<1>5. ~Active(p)'
  BY Lengths DEF Active, Advances
<1> QED BY <1>3, <1>4, <1>5, HealStays

LEMMA SaveHeal ==
  ASSUME LifecycleAssumption, IInv, HInv, NEW p \in Process, Save(p), faults' = faults
  PROVE  HInv'
<1>1. /\ Moves(p) /\ Advances(p)
      /\ \/ Kind[p] = "create" /\ at[p].n \in {16, 18}
         \/ Kind[p] = "update" /\ at[p].n = 7
      /\ at[p].slug \in Slug /\ at[p].agent \in AgentRecord
      /\ saved' = [saved EXCEPT ![at[p].slug] = at[p].agent]
      /\ UNCHANGED <<env, unit, relay, community, runtime>>
  BY SaveEffect DEF IInv
<1>2. ASSUME HealWhole, Kind[p] = "create", at[p].n = 18 PROVE HealWhole'
  <2>1. /\ HandMatches(p) /\ HandKnown(p) /\ at[p].agent # None
        /\ saved \in [Slug -> AgentRecord \cup {None}]
    BY <1>1, <1>2 DEF IInv, HandsMatch, TypeInv, HealWhole, Moves, LifecycleAssumption
  <2>2. saved[at[p].slug] # None /\ Same(at[p].agent, saved[at[p].slug])
    BY <1>2, <2>1 DEF HandMatches, Minted, Matches
  <2>3. ASSUME NEW s \in Slug
        PROVE  (saved'[s] = None <=> saved[s] = None) /\ (saved[s] # None => Same(saved'[s], saved[s]))
    <3>1. saved'[s] = saved[s] \/ (s = at[p].slug /\ saved'[s] = at[p].agent)
      BY <1>1, <2>1
    <3> QED BY <2>1, <2>2, <3>1 DEF Same
  <2>4. Calm
    BY <1>1, <2>3 DEF Calm
  <2>5. Active(p)'
    BY <1>1, <1>2, Lengths DEF Active, Advances
  <2>6. HandKnown(p)'
    BY <1>1, <1>2, <2>1, HandStays DEF Advances, KeepsHand, KeepsAgent
  <2> QED BY <1>1, <1>2, <2>4, <2>5, <2>6, TaskHeal DEF Advances, KeepsHand, KeepsAgent
<1>3. HealWhole => HealWhole'
  BY <1>1, <1>2, FirstSaveHeal, LastSaveHeal
<1> QED BY <1>1, <1>3, HealStep DEF Advances, KeepsHand

\* The whole file of the agent in hand, where the system does not fail.
Writes(p) ==
  \E file \in EnvRecord :
    /\ file.key = at[p].agent.key /\ file.cfg = at[p].agent.cfg
    /\ file.tag = at[p].agent.managed /\ file.owner
    /\ file.fleet = at[p].com.fleet /\ file.current
    /\ env' = [env EXCEPT ![at[p].slug] = file]

LEMMA Written ==
  ASSUME LifecycleAssumption, IInv, NEW p \in Process, Advances(p), Writes(p), at[p].slug \in Slug
  PROVE  /\ WroteFile(p)'
         /\ \A s \in Slug : IF s # at[p].slug THEN env'[s] = env[s]
              ELSE /\ env'[s] # None /\ env'[s].key = at[p].agent.key /\ env'[s].cfg = at[p].agent.cfg
                   /\ env'[s].tag = at[p].agent.managed /\ env'[s].owner
                   /\ env'[s].fleet = at[p].com.fleet /\ env'[s].current
<1>1. PICK file \in EnvRecord :
        /\ file.key = at[p].agent.key /\ file.cfg = at[p].agent.cfg
        /\ file.tag = at[p].agent.managed /\ file.owner
        /\ file.fleet = at[p].com.fleet /\ file.current
        /\ env' = [env EXCEPT ![at[p].slug] = file]
  BY DEF Writes
<1>2. file # None
  BY DEF LifecycleAssumption
<1>3. env'[at[p].slug] = file /\ \A s \in Slug : s # at[p].slug => env'[s] = env[s]
  BY <1>1 DEF IInv, TypeInv
<1>4. at'[p].slug = at[p].slug /\ at'[p].agent = at[p].agent
  BY DEF Advances, KeepsHand, KeepsAgent
<1>5. WroteFile(p)'
  BY <1>1, <1>2, <1>3, <1>4 DEF WroteFile
<1> QED BY <1>1, <1>2, <1>3, <1>5

\* Another agent than the one whose file is written.
LEMMA WrittenElsewhere ==
  ASSUME LifecycleAssumption, IInv, HealWhole, NEW p \in Process, Moves(p), Advances(p), Writes(p),
         at[p].slug \in Slug, UNCHANGED <<saved, unit, community, runtime>>,
         \/ Loops(p) /\ at[p].n = 11
         \/ Kind[p] = "create" /\ at[p].n = 15
         \/ Kind[p] = "update" /\ at[p].n = 5,
         NEW s \in Slug, s # at[p].slug
  PROVE  UnitKnown(s)'
<1>1. at'[p].slug = at[p].slug /\ at'[p].todo = at[p].todo /\ at'[p].full = at[p].full
      /\ at'[p].phase = "on" /\ at'[p].n = at[p].n + 1
  BY DEF Advances, KeepsHand, KeepsAgent
<1>2. WillWrite(p, s) => WillWrite(p, s)'
  <2>1. Loops(p) => Active(p)'
    BY <1>1, Lengths DEF Active, Loops
  <2> QED BY <1>1, <2>1 DEF WillWrite, Loops
<1>3. StillAhead(p, s)
  BY <1>2 DEF StillAhead, WillRestart, WillSave
<1>4. UnitKnown(s) /\ env'[s] = env[s]
  BY Written DEF HealWhole
<1> QED BY <1>3, <1>4, UnitStays

LEMMA LoopWritesHeal ==
  ASSUME LifecycleAssumption, IInv, HealWhole, NEW p \in Process, Moves(p), Advances(p), Writes(p),
         at[p].slug \in Slug, UNCHANGED <<saved, unit, community, runtime>>, Loops(p), at[p].n = 11
  PROVE  HealWhole'
<1>1. at'[p].slug = at[p].slug /\ at'[p].todo = at[p].todo /\ at'[p].com = at[p].com
      /\ at'[p].phase = "on" /\ at'[p].n = 12 /\ Active(p)'
  BY Lengths DEF Advances, KeepsHand, KeepsAgent, Active, Loops
<1>2. saved[at[p].slug] # None /\ Same(at[p].agent, saved[at[p].slug])
  BY DEF IInv, HandsMatch, HandMatches, Moves, InBody, Matches
<1>3. ASSUME NEW s \in Slug, s = at[p].slug PROVE UnitKnown(s)' /\ LookedAt(s, at[p].com)'
  <2>1. /\ env'[s] # None /\ env'[s].key = saved[s].key /\ env'[s].cfg = saved[s].cfg
        /\ env'[s].tag = saved[s].managed /\ env'[s].owner
        /\ env'[s].fleet = at[p].com.fleet /\ env'[s].current
    BY <1>2, <1>3, Written DEF Same
  <2>2. WillRestart(p, s)'
    BY <1>1, <1>3 DEF WillRestart, Loops
  <2>3. UnitKnown(s)'
    BY <1>2, <1>3, <2>1, <2>2 DEF UnitKnown, FileIsOf, OwnerTold, UpToDate
  <2> QED BY <1>1, <2>1, <2>3 DEF LookedAt
<1>4. HandKnown(p)'
  BY <1>1 DEF HandKnown, Loops
<1>5. ASSUME Kind[p] = "heal", latest = p PROVE Progress(p)'
  <2>1. Progress(p)
    BY <1>5 DEF HealWhole, HealsOn, Moves, Active
  <2>2. ASSUME NEW s \in Slug, saved'[s] # None PROVE Ahead(p, s)' \/ LookedAt(s, at[p].com)'
    <3>1. CASE s = at[p].slug
      BY <1>3, <3>1
    <3>2. CASE s # at[p].slug
      <4>1. Ahead(p, s) => Ahead(p, s)'
        BY <1>1, <3>2 DEF Ahead
      <4>2. LookedAt(s, at[p].com) => LookedAt(s, at[p].com)'
        BY <1>1, <3>2, Written DEF LookedAt
      <4> QED BY <2>1, <2>2, <4>1, <4>2 DEF Progress
    <3> QED BY <3>1, <3>2
  <2> QED BY <1>1, <2>1, <2>2 DEF Progress
<1> QED BY <1>3, <1>4, <1>5, WrittenElsewhere, HealStays

LEMMA CreateWritesHeal ==
  ASSUME LifecycleAssumption, IInv, HealWhole, NEW p \in Process, Moves(p), Advances(p), Writes(p),
         at[p].slug \in Slug, UNCHANGED <<saved, unit, community, runtime>>,
         Kind[p] = "create", at[p].n = 15
  PROVE  HealWhole'
<1>1. saved[at[p].slug] = None
  BY DEF IInv, HandsMatch, HandMatches, Moves, Minted
<1>2. HandKnown(p)
  BY DEF HealWhole, Moves
<1>3. unit[at[p].slug].loaded = None
  BY <1>2 DEF HandKnown
<1>4. ASSUME NEW s \in Slug, s = at[p].slug PROVE UnitKnown(s)'
  BY <1>1, <1>3, <1>4 DEF UnitKnown
<1>5. HandKnown(p)'
  BY <1>3, Written DEF HandKnown, Advances, KeepsHand, KeepsAgent
<1> QED BY <1>4, <1>5, WrittenElsewhere, HealStays

LEMMA UpdateWritesHeal ==
  ASSUME LifecycleAssumption, IInv, HealWhole, NEW p \in Process, Moves(p), Advances(p), Writes(p),
         at[p].slug \in Slug, UNCHANGED <<saved, unit, community, runtime>>,
         Kind[p] = "update", at[p].n = 5
  PROVE  HealWhole'
<1>1. at'[p].slug = at[p].slug /\ at'[p].n = 6 /\ Active(p)'
  BY Lengths DEF Advances, KeepsHand, KeepsAgent, Active
<1>2. saved[at[p].slug] # None /\ at[p].agent.key = saved[at[p].slug].key
  BY DEF IInv, HandsMatch, HandMatches, Moves, Updating
<1>3. ASSUME NEW s \in Slug, s = at[p].slug PROVE UnitKnown(s)'
  <2>1. env'[s] # None /\ env'[s].key = saved[s].key /\ env'[s].owner
    BY <1>2, <1>3, Written
  <2>2. WillRestart(p, s)' /\ WillSave(p, s)'
    BY <1>1, <1>3 DEF WillRestart, WillSave
  <2> QED BY <1>2, <1>3, <2>1, <2>2 DEF UnitKnown, FileIsOf, OwnerTold, UpToDate
<1>4. HandKnown(p)'
  BY Written DEF HandKnown
<1> QED BY <1>3, <1>4, WrittenElsewhere, HealStays

LEMMA WriteFilesHeal ==
  ASSUME LifecycleAssumption, IInv, HInv, NEW p \in Process, WriteFiles(p), faults' = faults
  PROVE  HInv'
<1>1. /\ Moves(p)
      /\ \/ Loops(p) /\ at[p].n = 11
         \/ Kind[p] = "create" /\ at[p].n = 15
         \/ Kind[p] = "update" /\ at[p].n = 5
      /\ at[p].slug \in Slug /\ at[p].agent \in AgentRecord
      /\ UNCHANGED <<saved, unit, relay, community, runtime>>
      /\ \/ Halts(p) /\ SystemMayFail
         \/ /\ Advances(p)
            /\ \E file \in EnvRecord :
                 /\ file.key = at[p].agent.key /\ file.cfg = at[p].agent.cfg
                 /\ SystemMayFail \/ file.tag = at[p].agent.managed
                 /\ file.owner = at[p].com.owner /\ file.fleet = at[p].com.fleet /\ file.current
                 /\ env' = [env EXCEPT ![at[p].slug] = file]
  BY WriteFilesEffect DEF IInv
<1>2. at'[p].com = at[p].com
  BY <1>1 DEF Halts, Advances, KeepsHand
<1>3. at[p].com.owner
  BY <1>1 DEF HInv, OwnerInv, Moves, Active, Loops
<1>4. ASSUME HealWhole, ~SystemMayFail PROVE HealWhole'
  <2>1. Advances(p) /\ Writes(p)
    BY <1>1, <1>3, <1>4 DEF Writes
  <2> QED BY <1>1, <1>4, <2>1, LoopWritesHeal, CreateWritesHeal, UpdateWritesHeal
<1> QED BY <1>1, <1>2, <1>4, HealStep

\* A step that starts or stops the unit of the agent in hand.
UnitStep(p) ==
  /\ UNCHANGED <<saved, env, community, runtime>> /\ at[p].slug \in Slug
  /\ \A t \in Slug : t # at[p].slug => unit'[t] = unit[t]
  /\ at'[p].slug = at[p].slug /\ at'[p].agent = at[p].agent
  /\ at'[p].todo = at[p].todo /\ at'[p].com = at[p].com /\ at'[p].full = at[p].full
  /\ at'[p].phase = "on"

LEMMA UnitElsewhere ==
  ASSUME LifecycleAssumption, IInv, HealWhole, NEW p \in Process, Moves(p), UnitStep(p),
         NEW s \in Slug, s # at[p].slug,
         (Loops(p) /\ at[p].n \in 7..12 => at'[p].n \in 7..12),
         Loops(p) => at[p].n >= 7
  PROVE  UnitKnown(s)'
<1>1. WillWrite(p, s) => WillWrite(p, s)'
  BY Lengths DEF WillWrite, UnitStep, Active, Loops, IInv, TypeInv, Hand
<1>2. ~WillRestart(p, s) /\ ~WillSave(p, s)
  BY DEF WillRestart, WillSave
<1>3. UnitKnown(s)
  BY DEF HealWhole
<1> QED BY <1>1, <1>2, <1>3, UnitStays DEF StillAhead, UnitStep

\* The unit runs now, or p will see to it.
LEMMA UnitRuns ==
  ASSUME HealWhole, NEW p \in Process, Moves(p), UnitStep(p), NEW s \in Slug, saved[s] # None,
         Runs(s) \/ WillRestart(p, s)',
         WillWrite(p, s) => WillWrite(p, s)', WillSave(p, s) => WillSave(p, s)'
  PROVE  UnitKnown(s)'
<1>1. FileIsOf(s) /\ OwnerTold(s)
  BY DEF HealWhole, UnitKnown
<1>2. \A q \in Process : (WillWrite(q, s) => WillWrite(q, s)') /\ (WillSave(q, s) => WillSave(q, s)')
  BY OthersAhead DEF StillAhead
<1>3. FileIsOf(s)' /\ OwnerTold(s)'
  BY <1>1, <1>2 DEF FileIsOf, OwnerTold, UnitStep
<1>4. UpToDate(s)'
  BY DEF UpToDate, Runs, UnitStep
<1> QED BY <1>3, <1>4 DEF UnitKnown, UnitStep

LEMMA RestartHeal ==
  ASSUME LifecycleAssumption, IInv, HInv, NEW p \in Process, Restart(p), faults' = faults
  PROVE  HInv'
<1>1. /\ Moves(p) /\ Kind[p] = "update" /\ at[p].n = 6
      /\ at[p].slug \in Slug /\ at[p].agent \in AgentRecord
      /\ UNCHANGED <<saved, env, relay, community, runtime>> /\ Restarts(at[p].slug)
      /\ \/ Advances(p) /\ Runs(at[p].slug)
         \/ Halts(p) /\ (env[at[p].slug] = None \/ SystemMayFail)
  BY RestartEffect DEF IInv
<1>2. at'[p].com = at[p].com
  BY <1>1 DEF Halts, Advances, KeepsHand
<1>3. ASSUME HealWhole, ~SystemMayFail PROVE HealWhole'
  <2>1. HandKnown(p) /\ HandMatches(p)
    BY <1>1, <1>3 DEF HealWhole, IInv, HandsMatch, Moves
  <2>2. WroteFile(p) /\ saved[at[p].slug] # None
    BY <1>1, <2>1 DEF HandKnown, HandMatches, Updating
  <2>3. Advances(p) /\ Runs(at[p].slug)
    BY <1>1, <1>3, <2>2 DEF WroteFile
  <2>4. UnitStep(p) /\ at'[p].n = 7 /\ Active(p)'
    BY <1>1, <2>3, Lengths DEF UnitStep, Restarts, Advances, KeepsHand, KeepsAgent, Active
  <2>5. ASSUME NEW s \in Slug, s = at[p].slug PROVE UnitKnown(s)'
    <3>1. ~WillWrite(p, s) /\ WillSave(p, s)'
      BY <1>1, <2>4, <2>5 DEF WillWrite, WillSave, Loops, UnitStep
    <3> QED BY <1>1, <1>3, <2>2, <2>3, <2>4, <2>5, <3>1, UnitRuns
  <2>6. HandKnown(p)'
    BY <1>1, <2>2, <2>4 DEF HandKnown, WroteFile, UnitStep
  <2>7. ~Loops(p)
    BY <1>1 DEF Loops
  <2> QED BY <1>1, <1>3, <2>4, <2>5, <2>6, <2>7, UnitElsewhere, HealStays
<1> QED BY <1>1, <1>2, <1>3, HealStep

LEMMA TryRestartHeal ==
  ASSUME LifecycleAssumption, IInv, HInv, NEW p \in Process, TryRestart(p), faults' = faults
  PROVE  HInv'
<1>1. /\ Moves(p) /\ Loops(p) /\ at[p].n = 12
      /\ at[p].slug \in Slug /\ at[p].agent \in AgentRecord
      /\ UNCHANGED <<saved, env, relay, community, runtime>> /\ Restarts(at[p].slug)
      /\ \/ /\ at'[p].phase = "on" /\ at'[p].n = 7 /\ KeepsHand(p)
            /\ Runs(at[p].slug) \/ env[at[p].slug] = None \/ SystemMayFail
         \/ Halts(p) /\ SystemMayFail
  BY TryRestartEffect DEF IInv
<1>2. at'[p].com = at[p].com
  BY <1>1 DEF Halts, KeepsHand
<1>3. ASSUME HealWhole, ~SystemMayFail PROVE HealWhole'
  <2>0. /\ UnitStep(p) /\ Active(p)' /\ KeepsHand(p) /\ at'[p].phase = "on" /\ at'[p].n = 7
        /\ Runs(at[p].slug) \/ env[at[p].slug] = None
    BY <1>1, <1>3, Lengths DEF UnitStep, Restarts, KeepsHand, KeepsAgent, Active, Loops
  <2>1. HandMatches(p) /\ saved[at[p].slug] # None
    BY <1>1, <1>3 DEF IInv, HandsMatch, HandMatches, Moves, InBody, Matches
  <2>2. Runs(at[p].slug)
    BY <1>1, <1>3, <2>0, <2>1 DEF HealWhole, UnitKnown, FileIsOf
  <2>3. ASSUME NEW s \in Slug, s = at[p].slug PROVE UnitKnown(s)'
    <3>1. WillWrite(p, s) => WillWrite(p, s)'
      BY <1>1, <2>0, <1>2, <2>3 DEF WillWrite, UnitStep
    <3>2. ~WillSave(p, s)
      BY <1>1 DEF WillSave, Loops
    <3> QED BY <1>1, <2>0, <1>2, <1>3, <2>1, <2>2, <2>3, <3>1, <3>2, UnitRuns
  <2>4. HandKnown(p)'
    BY <1>1, <2>0 DEF HandKnown, Loops
  <2>5. ASSUME Kind[p] = "heal", latest = p PROVE Progress(p)'
    <3>1. Progress(p)
      BY <1>1, <1>3, <2>5 DEF HealWhole, HealsOn, Moves, Active
    <3>2. \A s \in Slug : LookedAt(s, at[p].com) => LookedAt(s, at[p].com)'
      BY <1>1, <2>0, <1>2 DEF LookedAt
    <3>3. \A s \in Slug : Ahead(p, s) => Ahead(p, s)'
      BY <1>1, <2>0, <1>2 DEF Ahead, UnitStep
    <3> QED BY <1>1, <2>0, <1>2, <3>1, <3>2, <3>3 DEF Progress
  <2> QED BY <1>1, <2>0, <1>2, <1>3, <2>3, <2>4, <2>5, UnitElsewhere, HealStays
<1> QED BY <1>1, <1>2, <1>3, HealStep

LEMMA EnableHeal ==
  ASSUME LifecycleAssumption, IInv, HInv, NEW p \in Process, Enable(p), faults' = faults
  PROVE  HInv'
<1>1. /\ Moves(p) /\ Kind[p] = "create" /\ at[p].n = 19
      /\ at[p].slug \in Slug /\ at[p].agent \in AgentRecord
      /\ UNCHANGED <<saved, env, relay, community, runtime>>
      /\ unit' \in [Slug -> Unit] /\ \A t \in Slug : t # at[p].slug => unit'[t] = unit[t]
      /\ \/ Advances(p) /\ (unit[at[p].slug].loaded = None => Runs(at[p].slug))
         \/ Halts(p) /\ (env[at[p].slug] = None \/ SystemMayFail)
  BY EnableEffect DEF IInv
<1>2. at'[p].com = at[p].com
  BY <1>1 DEF Halts, Advances, KeepsHand
<1>3. ASSUME HealWhole, ~SystemMayFail PROVE HealWhole'
  <2>1. HandKnown(p) /\ HandMatches(p)
    BY <1>1, <1>3 DEF HealWhole, IInv, HandsMatch, Moves
  <2>2. WroteFile(p) /\ saved[at[p].slug] # None /\ unit[at[p].slug].loaded = None
    BY <1>1, <2>1 DEF HandKnown, HandMatches, Minted, Matches
  <2>3. Advances(p) /\ Runs(at[p].slug)
    BY <1>1, <1>3, <2>2 DEF WroteFile
  <2>4. UnitStep(p) /\ ~Active(p)'
    BY <1>1, <2>3, Lengths DEF UnitStep, Advances, KeepsHand, KeepsAgent, Active
  <2>5. ASSUME NEW s \in Slug, s = at[p].slug PROVE UnitKnown(s)'
    <3>1. ~WillWrite(p, s) /\ ~WillSave(p, s)
      BY <1>1 DEF WillWrite, WillSave
    <3> QED BY <1>1, <1>3, <2>2, <2>3, <2>4, <2>5, <3>1, UnitRuns
  <2> QED BY <1>1, <1>3, <2>4, <2>5, UnitElsewhere, HealStays
<1> QED BY <1>1, <1>2, <1>3, HealStep

LEMMA DisableHeal ==
  ASSUME LifecycleAssumption, IInv, HInv, NEW p \in Process, Disable(p), faults' = faults
  PROVE  HInv'
<1>1. /\ Moves(p) /\ Kind[p] = "delete" /\ at[p].n = 2
      /\ at[p].slug \in Slug /\ at[p].agent \in AgentRecord
      /\ UNCHANGED <<saved, env, relay, community, runtime>>
      /\ \/ Halts(p) /\ SystemMayFail
         \/ Advances(p) /\ DisableEffectOn(p)
  BY DisableEffect DEF IInv
<1>2. at'[p].com = at[p].com
  BY <1>1 DEF Halts, Advances, KeepsHand
<1>3. ASSUME HealWhole, ~SystemMayFail PROVE HealWhole'
  <2>1. HandMatches(p) /\ None \notin AgentRecord
    BY <1>1 DEF IInv, HandsMatch, Moves, LifecycleAssumption
  <2>2. saved[at[p].slug] # None
    BY <1>1, <2>1 DEF HandMatches, Deleting
  <2>3. UnitStep(p) /\ at'[p].n = 3 /\ Active(p)'
    <3>1. Advances(p) /\ DisableEffectOn(p)
      BY <1>1, <1>3
    <3>2. UnitStep(p)
      BY <1>1, <3>1 DEF UnitStep, DisableEffectOn, Advances, KeepsHand, KeepsAgent
    <3> QED BY <1>1, <3>1, <3>2, Lengths DEF Advances, Active
  <2>4. ASSUME NEW s \in Slug, s = at[p].slug PROVE UnitKnown(s)'
    <3>1. ~WillWrite(p, s) /\ ~WillSave(p, s) /\ WillRestart(p, s)'
      BY <1>1, <2>3, <2>4 DEF WillWrite, WillSave, WillRestart, Loops, UnitStep
    <3> QED BY <1>1, <1>3, <2>2, <2>3, <2>4, <3>1, UnitRuns
  <2>5. HandKnown(p)' /\ ~Loops(p)
    BY <1>1 DEF HandKnown, Loops
  <2> QED BY <1>1, <1>3, <2>3, <2>4, <2>5, UnitElsewhere, HealStays
<1> QED BY <1>1, <1>2, <1>3, HealStep

\* A deleted agent's unit has been stopped.
LEMMA ForgetHeal ==
  ASSUME LifecycleAssumption, IInv, HInv, NEW p \in Process, Forget(p), faults' = faults
  PROVE  HInv'
<1>1. /\ Moves(p) /\ Advances(p) /\ Kind[p] = "delete" /\ at[p].n = 4
      /\ at[p].slug \in Slug /\ saved' = [saved EXCEPT ![at[p].slug] = None]
      /\ UNCHANGED <<env, unit, relay, community, runtime>>
  BY ForgetEffect DEF IInv
<1>2. at'[p].com = at[p].com
  BY <1>1 DEF Advances, KeepsHand
<1>3. unit[at[p].slug] = Stopped(FALSE)
  <2>1. Cleared(p)
    BY <1>1 DEF IInv, Turns, DeletesClear, Moves, Active
  <2>2. at[p].n >= 3
    BY <1>1
  <2> QED BY <2>1, <2>2 DEF Cleared
<1>4. ASSUME HealWhole PROVE HealWhole'
  <2>1. saved'[at[p].slug] = None /\ \A s \in Slug : s # at[p].slug => saved'[s] = saved[s]
    BY <1>1 DEF IInv, TypeInv
  <2>2. ASSUME NEW s \in Slug, s = at[p].slug PROVE UnitKnown(s)'
    BY <1>1, <1>3, <2>1, <2>2 DEF UnitKnown, Stopped
  <2>3. ASSUME NEW s \in Slug, s # at[p].slug PROVE UnitKnown(s)'
    <3>1. StillAhead(p, s)
      BY <1>1, <2>3 DEF StillAhead, WillWrite, WillRestart, WillSave, Loops
    <3> QED BY <1>1, <1>4, <2>1, <2>3, <3>1, UnitStays DEF HealWhole
  <2>4. HandKnown(p)'
    BY <1>1 DEF HandKnown
  <2> QED BY <1>1, <2>2, <2>3, <2>4, HealStays
<1> QED BY <1>1, <1>2, <1>4, HealStep

LEMMA UnlinkHeal ==
  ASSUME LifecycleAssumption, IInv, HInv, NEW p \in Process, Unlink(p), faults' = faults
  PROVE  HInv'
<1>1. /\ Moves(p) /\ Advances(p) /\ Kind[p] = "delete" /\ at[p].n = 5
      /\ at[p].slug \in Slug /\ env' = [env EXCEPT ![at[p].slug] = None]
      /\ UNCHANGED <<saved, unit, relay, community, runtime>>
  BY UnlinkEffect DEF IInv
<1>2. at'[p].com = at[p].com
  BY <1>1 DEF Advances, KeepsHand
<1>3. saved[at[p].slug] = None
  BY <1>1 DEF IInv, HandsMatch, HandMatches, Moves, Deleting
<1>4. ASSUME HealWhole PROVE HealWhole'
  <2>1. ASSUME NEW s \in Slug, s = at[p].slug PROVE UnitKnown(s)'
    <3>1. UnitKnown(s)
      BY <1>4 DEF HealWhole
    <3> QED BY <1>1, <1>3, <2>1, <3>1 DEF UnitKnown
  <2>2. ASSUME NEW s \in Slug, s # at[p].slug PROVE UnitKnown(s)'
    <3>1. StillAhead(p, s)
      BY <1>1, <2>2 DEF StillAhead, WillWrite, WillRestart, WillSave, Loops
    <3>2. env'[s] = env[s]
      BY <1>1, <2>2 DEF IInv, TypeInv
    <3> QED BY <1>1, <1>4, <3>1, <3>2, UnitStays DEF HealWhole
  <2>3. HandKnown(p)'
    BY <1>1 DEF HandKnown
  <2> QED BY <1>1, <2>1, <2>2, <2>3, HealStays
<1> QED BY <1>1, <1>2, <1>4, HealStep

LEMMA StopHeal ==
  ASSUME LifecycleAssumption, IInv, HInv, NEW p \in Process, Stop(p), faults' = faults
  PROVE  HInv'
<1>1. Moves(p) /\ Halts(p) /\ at'[p].phase = "stopped"
  BY StopEffect DEF IInv
<1>2. community' = community /\ at'[p].com = at[p].com
  BY <1>1 DEF Stop, stores, Halts, KeepsHand
<1>3. OwnerInv'
  BY <1>1, <1>2, OwnerKept DEF HInv
<1>4. ~Smooth'
  BY <1>1 DEF Smooth, NoneStopped
<1> QED BY <1>3, <1>4 DEF HInv

LEMMA BeginHeal ==
  ASSUME LifecycleAssumption, ChangesAlone, IInv, HInv, NEW p \in Process, Begin(p), faults' = faults
  PROVE  HInv'
<1>1. /\ \A q \in Process : q # p => at'[q] = at[q]
      /\ at[p].phase = "new" /\ at'[p].phase = "on" /\ at'[p].n = 1
      /\ at'[p].com = community
      /\ UNCHANGED <<saved, env, unit, relay, community, runtime>>
      /\ latest' \in {p, None}
  BY BeginEffect DEF IInv, stores
<1>2. \A kind : Here(kind)' = Here(kind)
  BY <1>1 DEF Here
<1>3. OwnerInv'
  <2>1. \A q \in Process : at'[q].phase # "out" /\ at'[q].com.owner => community'.owner
    BY <1>1 DEF HInv, OwnerInv
  <2>2. \A q \in Process : at'[q].phase = "on" /\ Kind[q] # "delete" /\ at'[q].n >= 2 => at'[q].com.owner
    BY <1>1 DEF HInv, OwnerInv
  <2>3. Here("heal")' /\ Here("update")' => community'.owner /\ \A q \in Process : at'[q].com.owner
    BY <1>1, <1>2 DEF HInv, OwnerInv
  <2> QED BY <2>1, <2>2, <2>3 DEF OwnerInv
<1>4. ASSUME Smooth' PROVE HealWhole'
  <2>1. HealWhole
    <3>1. ~SystemMayFail /\ NoneStopped /\ Here("heal")
      BY <1>1, <1>2, <1>4 DEF Smooth, SystemMayFail, NoneStopped
    <3> QED BY <3>1 DEF HInv, Smooth
  <2>2. \A q \in Process : q # p => at'[q] = at[q] /\ Active(q)' = Active(q)
    BY <1>1 DEF Active
  <2>3. ASSUME NEW s \in Slug PROVE UnitKnown(s)'
    <3>1. ASSUME NEW q \in Process PROVE StillAhead(q, s)
      <4>1. CASE q = p
        BY <1>1, <4>1 DEF StillAhead, WillWrite, WillRestart, WillSave, Active
      <4>2. CASE q # p
        BY <2>2, <4>2 DEF StillAhead, WillWrite, WillRestart, WillSave
      <4> QED BY <4>1, <4>2
    <3>2. UnitKnown(s)
      BY <2>1 DEF HealWhole
    <3>3. CASE saved[s] = None
      BY <1>1, <3>2, <3>3 DEF UnitKnown
    <3>4. CASE saved[s] # None
      <4>1. FileIsOf(s)'
        BY <1>1, <3>1, <3>2, <3>4 DEF UnitKnown, FileIsOf, StillAhead
      <4>2. OwnerTold(s)'
        BY <1>1, <3>1, <3>2, <3>4 DEF UnitKnown, OwnerTold, StillAhead
      <4>3. UpToDate(s)'
        BY <1>1, <3>1, <3>2, <3>4 DEF UnitKnown, UpToDate, StillAhead
      <4> QED BY <1>1, <3>4, <4>1, <4>2, <4>3 DEF UnitKnown
    <3> QED BY <3>3, <3>4
  <2>4. ASSUME NEW q \in Process, Active(q)' PROVE HandKnown(q)'
    <3>1. CASE q = p
      BY <1>1, <3>1 DEF HandKnown
    <3>2. CASE q # p
      BY <1>1, <2>1, <2>2, <2>4, <3>2 DEF HandKnown, WroteFile, HealWhole
    <3> QED BY <3>1, <3>2
  <2>5. ASSUME NEW q \in Process, HealsOn(q)' PROVE Progress(q)'
    <3>1. q = p
      BY <1>1, <2>5 DEF HealsOn, LifecycleAssumption
    <3> QED BY <1>1, <3>1 DEF Progress
  <2> QED BY <2>3, <2>4, <2>5 DEF HealWhole
<1> QED BY <1>3, <1>4 DEF HInv

\* At first every unit runs on its file, and the file is the record's.
LEMMA InitHeal ==
  ASSUME LifecycleAssumption, OwnerKnown, Init
  PROVE  HInv
<1>1. PICK start \in Starts : Start(start)
  BY DEF Init
<1>2. IInv
  BY InitSafe
<1>3. /\ community = [owner |-> start.owner, fleet |-> FALSE] /\ community \in Community
      /\ saved \in [Slug -> AgentRecord \cup {None}] /\ start.tag \in BOOLEAN /\ start.current \in BOOLEAN
  BY <1>1, <1>2 DEF Start, LifecycleAssumption, IInv, TypeInv
<1> DEFINE first(s) == [EnvFile(saved[s], community) EXCEPT !.tag = @ /\ start.tag, !.current = start.current]
<1>4. ASSUME NEW s \in Slug, saved[s] # None
      PROVE  /\ first(s) \in EnvRecord
             /\ first(s).key = saved[s].key /\ first(s).cfg = saved[s].cfg /\ first(s).owner = community.owner
  <2> DEFINE e == EnvFile(saved[s], community)
  <2>1. e \in EnvRecord /\ e.key = saved[s].key /\ e.cfg = saved[s].cfg /\ e.owner = community.owner
    BY <1>3, <1>4 DEF EnvFile, EnvRecord, AgentRecord, Community
  <2> HIDE DEF e
  <2>2. /\ [e EXCEPT !.tag = @ /\ start.tag, !.current = start.current] \in EnvRecord
        /\ [e EXCEPT !.tag = @ /\ start.tag, !.current = start.current].key = e.key
        /\ [e EXCEPT !.tag = @ /\ start.tag, !.current = start.current].cfg = e.cfg
        /\ [e EXCEPT !.tag = @ /\ start.tag, !.current = start.current].owner = e.owner
    BY <1>3, <2>1 DEF EnvRecord
  <2> QED BY <2>1, <2>2 DEF e
<1>5. env = [s \in Slug |-> IF saved[s] = None THEN None ELSE first(s)]
  BY <1>1 DEF Start
<1> HIDE DEF first
<1>6. unit = [s \in Slug |-> IF saved[s] = None THEN Stopped(FALSE) ELSE Started(s, TRUE)]
  BY DEF Init
<1>7. at = [p \in Process |->
        [phase |-> IF p \in start.cast THEN "new" ELSE "out", n |-> 1, due |-> {},
         com |-> community, full |-> FALSE, todo |-> [s \in Slug |-> None],
         slug |-> None, was |-> None, agent |-> None, leave |-> {}]]
  BY <1>1 DEF Start
<1>8. \A p \in Process : /\ at[p].phase = (IF p \in start.cast THEN "new" ELSE "out")
                         /\ at[p].com = community
  BY <1>7
<1>9. OwnerInv
  <2>1. Here("heal") /\ Here("update") => community.owner
    BY <1>1, <1>3, <1>8 DEF Here, OwnerKnown
  <2> QED BY <1>8, <2>1 DEF OwnerInv
<1>10. ASSUME NEW s \in Slug PROVE UnitKnown(s)
  <2>1. CASE saved[s] = None
    BY <1>6, <2>1 DEF UnitKnown, Stopped
  <2>2. CASE saved[s] # None
    <3>1. env[s] = first(s) /\ env[s] # None
      BY <1>4, <1>5, <2>2 DEF LifecycleAssumption
    <3>2. FileIsOf(s) /\ OwnerTold(s)
      BY <1>4, <2>2, <3>1 DEF FileIsOf, OwnerTold
    <3>3. UpToDate(s)
      BY <1>6, <2>2 DEF UpToDate, Started
    <3> QED BY <2>2, <3>2, <3>3 DEF UnitKnown
  <2> QED BY <2>1, <2>2
<1>11. \A p \in Process : ~Active(p) /\ ~HealsOn(p)
  BY <1>8 DEF Active, HealsOn
<1> QED BY <1>9, <1>10, <1>11 DEF HInv, HealWhole

LEMMA StepHeals ==
  ASSUME LifecycleAssumption, ChangesAlone, IInv, HInv, [Next]_vars
  PROVE  HInv'
<1>1. CASE UNCHANGED vars
  <2>1. UNCHANGED <<saved, env, unit, community, runtime, at, latest, faults>>
    BY <1>1 DEF vars
  <2>2. OwnerInv' = OwnerInv /\ Smooth' = Smooth
    BY <2>1 DEF OwnerInv, Smooth, Here, SystemMayFail, NoneStopped
  <2>3. \A s \in Slug : FileIsOf(s)' = FileIsOf(s) /\ OwnerTold(s)' = OwnerTold(s) /\ UpToDate(s)' = UpToDate(s)
    BY <2>1 DEF FileIsOf, OwnerTold, UpToDate, WillSave, WillWrite, WillRestart, Active
  <2>4. \A s \in Slug : UnitKnown(s)' = UnitKnown(s)
    BY <2>1, <2>3 DEF UnitKnown
  <2>5. \A p \in Process : Active(p)' = Active(p) /\ HandKnown(p)' = HandKnown(p)
    BY <2>1 DEF Active, HandKnown, WroteFile
  <2>6. \A p \in Process : HealsOn(p)' = HealsOn(p) /\ Progress(p)' = Progress(p)
    BY <2>1 DEF HealsOn, Progress, Ahead, LookedAt
  <2>7. HealWhole' = HealWhole
    BY <2>4, <2>5, <2>6 DEF HealWhole
  <2> QED BY <2>2, <2>7 DEF HInv
<1>2. CASE Next
  <2>1. PICK p \in Process : Begin(p) \/ GetReady(p) \/ Change(p) \/ Settle(p) \/ Stop(p)
    BY <1>2 DEF Next
  <2>2. faults' = faults
    BY <1>2 DEF Next
  <2>3. CASE Begin(p)
    BY <2>2, <2>3, BeginHeal
  <2>4. CASE GetReady(p)
    BY <2>2, <2>4, EnsureOwnerHeal, EnsureLingerHeal, InstallHeal, EnsureFleetHeal, ListHeal, NextAgentHeal
       DEF GetReady
  <2>5. CASE Change(p)
    BY <2>2, <2>5, CheckNameHeal, MintHeal, LoadHeal, TakesBackHeal, DisableHeal, ForgetHeal, UnlinkHeal
       DEF Change
  <2>6. CASE Settle(p)
    BY <2>2, <2>6, SyncHeal, PublishHeal, SaveHeal, KeepHeal, CheckHeal, WriteFilesHeal, RestartHeal,
       TryRestartHeal, EnableHeal DEF Settle
  <2>7. CASE Stop(p)
    BY <2>2, <2>7, StopHeal
  <2> QED BY <2>1, <2>3, <2>4, <2>5, <2>6, <2>7
<1> QED BY <1>1, <1>2

\* A heal that has come to its end has nothing left to do.
LEMMA HealDone ==
  ASSUME LifecycleAssumption, IInv, HInv
  PROVE  HealedWhenDone
<1> SUFFICES ASSUME Quiet, ~SystemMayFail, latest # None, Kind[latest] = "heal", Finished(latest),
                    NEW s \in Slug, saved[s] # None
             PROVE  Fresh(s, at[latest].com)
  BY DEF HealedWhenDone, Recorded
<1>1. latest \in Process /\ at[latest].phase = "on" /\ runtime \in SUBSET {"template", "acp"}
  BY DEF Finished, IInv, TypeInv
<1>2. at[latest].n = 13
  <2>1. at[latest].n > 12 /\ at[latest].n \in 1..13
    BY <1>1, Lengths DEF Finished, IInv, HandsTyped, Held
  <2> QED BY <2>1
<1>3. UnitKnown(s) /\ Progress(latest)
  <2>1. Smooth
    BY <1>1 DEF Smooth, Quiet, NoneStopped, Here
  <2> QED BY <1>1, <2>1 DEF HInv, HealWhole, HealsOn
<1>4. ~\E p \in Process : WillWrite(p, s) \/ WillRestart(p, s) \/ WillSave(p, s)
  BY DEF Quiet, WillWrite, WillRestart, WillSave
<1>5. env[s] # None /\ env[s].key = saved[s].key /\ env[s].cfg = saved[s].cfg
  BY <1>3, <1>4 DEF UnitKnown, FileIsOf
<1>6. env[s].owner
  BY <1>1, <1>2, <1>3, <1>4 DEF UnitKnown, OwnerTold, HInv, OwnerInv
<1>7. unit[s].loaded = env[s] /\ unit[s].runtime = runtime
  BY <1>3, <1>4 DEF UnitKnown, UpToDate
<1>8. LookedAt(s, at[latest].com) /\ runtime = {"template", "acp"}
  <2>1. "template" \in runtime /\ "acp" \in runtime
    BY <1>2, <1>3 DEF Progress
  <2>2. ~Ahead(latest, s)
    BY <1>2 DEF Ahead
  <2>3. LookedAt(s, at[latest].com)
    BY <1>2, <1>3, <2>2 DEF Progress
  <2> QED BY <1>1, <2>1, <2>3
<1> QED BY <1>5, <1>6, <1>7, <1>8 DEF Fresh, LookedAt

\* When a heal that nothing overlapped or followed is over, on a machine that
\* does not fail, every recorded agent has a file of this version with its own
\* key, configuration and tag, the owner's and the fleet's lines, and its unit
\* runs on that file and on the installed runtime: whatever creates, updates,
\* deletes and heals came before, none of them stopped half-way.
THEOREM LifecycleHeals ==
  ASSUME ChangesAlone, OwnerKnown
  PROVE  Spec => []HealedWhenDone
<1>1. Init => IInv /\ HInv
  BY LifecycleAssumption, InitSafe, InitHeal
<1>2. IInv /\ HInv /\ [Next]_vars => IInv' /\ HInv'
  BY LifecycleAssumption, StepSafe, StepHeals
<1>3. IInv /\ HInv => HealedWhenDone
  BY LifecycleAssumption, HealDone
<1> QED BY <1>1, <1>2, <1>3, PTL DEF Spec
=============================================================================
