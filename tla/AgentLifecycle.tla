--------------------------- MODULE AgentLifecycle ---------------------------
(***************************************************************************)
(* AgentManager on one machine: create, update, delete and the healing     *)
(* (ensure_runtime_ready) that every `agent list` and dashboard load runs. *)
(* A command is a list of steps, each of which touches one store: the      *)
(* saved record, the environment file, the systemd unit, the relay or the  *)
(* installed runtime.  Other commands run between the steps, a step may    *)
(* fail, and the process may stop anywhere.  That a program it calls fails *)
(* is a failure here, that a local file cannot be written is not: the      *)
(* files of a record and their failures are the subject of StateFiles.     *)
(***************************************************************************)
EXTENDS Naturals, Sequences, FiniteSets

CONSTANTS
  Process,       \* runs of the program
  Kind,          \* "create", "update", "delete" or "heal"
  Config,        \* the configurations of an agent, a value per field
  Asked,         \* the configuration a create asks for, the fields an update does
  Target,        \* the agent an update or a delete names
  Key,           \* agent keys; a create mints the one named after its process
  Channel,       \* the relay's channels
  FleetChannel,  \* the one with the fleet record
  Starts,        \* where it may begin: the `cast` of processes, which agents
                 \*   are `there`, the `faults` to expect ("relay", "system",
                 \*   "stop"), whether the saved community knows the `owner`,
                 \*   which of {"template", "acp"} are installed and current
                 \*   (`runtime`), whether the environment files are of this
                 \*   version (`current`) and have their auth tags (`tag`)
  Alone,         \* processes that run while no other does
  Agents,        \* the agents there may be at first: [Slug -> record or None]
  None

\* agent_slug: a name, or the name and a number.
Slug == DOMAIN Agents

Field == {"name", "prompt", "policy", "secret", "channels"}
Publication == {"profile", "managed", "policy"}
Item == Publication \cup Channel

Mark == {"todo", "pending", "done", "error"}
AgentRecord == [key : Key, cfg : Config, managed : BOOLEAN, state : [Item -> Mark]]
EnvRecord ==
  [key : Key, cfg : Config, tag : BOOLEAN, owner : BOOLEAN, fleet : BOOLEAN, current : BOOLEAN]

\* An update takes over what was asked for and keeps the rest.
NewConfig(p, cfg) ==
  [f \in Field |-> IF f \in DOMAIN Asked[p] THEN Asked[p][f] ELSE cfg[f]]

\* Keys are the agents' own, channels are channels, a command has what it needs.
ASSUME LifecycleAssumption ==
  /\ None \notin Process \cup AgentRecord \cup EnvRecord
  /\ \A cfg \in Config : cfg["channels"] \subseteq Channel
  /\ Agents \in [Slug -> AgentRecord \cup {None}]
  /\ \A s \in Slug : Agents[s] # None => Agents[s].key \notin Process
  /\ \A s, t \in Slug : Agents[s] # None /\ Agents[t] # None /\ s # t => Agents[s].key # Agents[t].key
  /\ \A p \in Process :
       \/ Kind[p] = "create" /\ p \in Key /\ Asked[p] \in Config
       \/ Kind[p] = "update" /\ Target[p] \in Slug /\ \A cfg \in Config : NewConfig(p, cfg) \in Config
       \/ Kind[p] = "delete" /\ Target[p] \in Slug
       \/ Kind[p] = "heal"
  /\ FleetChannel \in Channel \cup {None}
  /\ Starts \subseteq
       [cast : SUBSET Process, there : SUBSET Slug, faults : SUBSET {"relay", "system", "stop"},
        owner : BOOLEAN, runtime : SUBSET {"template", "acp"}, tag : BOOLEAN, current : BOOLEAN]

VARIABLES
  saved,     \* the agent records on disk
  env,       \* the environment files
  unit,      \* the units: enabled, the file they loaded, the runtime they run on
  relay,     \* what the relay holds of each key
  community, \* the saved community: whether it has the owner's key, the fleet
  runtime,   \* what of the runtime is installed and current
  at,        \* per process: the steps ahead, what it has in hand
  latest,    \* history: the process that ran last, if it ran alone
  faults     \* what may go wrong

vars == <<saved, env, unit, relay, community, runtime, at, latest, faults>>
stores == <<saved, env, unit, relay, community, runtime>>

-----------------------------------------------------------------------------
(* What the steps work on. *)

\* The fields a publication carries: profile, managed_agent_content, policy.
Reads(item) ==
  CASE item = "profile" -> {"name"}
    [] item = "managed" -> {"name", "prompt"}
    [] item = "policy"  -> {"policy"}
    [] OTHER -> {}
Content(item, cfg) == [f \in Reads(item) |-> cfg[f]]

NothingOnRelay == [i \in Item |-> None]
Unpublished == [i \in Item |-> "todo"]
Agent(key, cfg) == [key |-> key, cfg |-> cfg, managed |-> TRUE, state |-> Unpublished]

\* What write_agent_files writes: all of the configuration, the owner's and the
\* fleet's lines if the community in hand has them, the auth tag of a managed
\* agent, and the adapter command and coordination block of this version.
EnvFile(agent, com) ==
  [key |-> agent.key, cfg |-> agent.cfg, tag |-> agent.managed,
   owner |-> com.owner, fleet |-> com.fleet, current |-> TRUE]

Stopped(enabled) == [enabled |-> enabled, loaded |-> None, runtime |-> {}]
Started(s, enabled) == [enabled |-> enabled, loaded |-> env[s], runtime |-> runtime]

\* agent.channel_ids, and the fleet channel once it is known.
Wanted(agent, com) ==
  Publication \cup agent.cfg["channels"] \cup (IF com.fleet THEN {FleetChannel} ELSE {})

-----------------------------------------------------------------------------
(* The commands, step by step. *)

Ready == <<"owner", "linger", "template", "acp", "fleet", "list">>
HealOneSteps == <<"next", "sync", "keep", "check", "files", "try restart">>
HealSteps == Ready \o HealOneSteps

CreateSteps ==
  HealSteps \o <<"name", "mint", "files", "save", "sync", "save", "enable">>

UpdateSteps == <<"owner", "load", "leave", "sync", "files", "restart", "save">>

DeleteKeepingUnit ==                   \* bug: the unit is left to run
  <<"load", "teardown", "forget", "unlink">>
DeleteKeepingFile ==                   \* bug: the environment file stays
  <<"load", "disable", "teardown", "forget">>
DeleteSteps == <<"load", "disable", "teardown", "forget", "unlink">>

StepsOf(kind) ==
  CASE kind = "create" -> CreateSteps
    [] kind = "update" -> UpdateSteps
    [] kind = "delete" -> DeleteSteps
    [] kind = "heal"   -> HealSteps
Steps == [p \in Process |-> StepsOf(Kind[p])]

\* The loop over the agents, and what comes after it.
LoopStart == Len(Ready) + 1
LoopEnd == Len(HealSteps) + 1

Start(start) ==
  /\ faults = start.faults
  /\ runtime = start.runtime
  /\ community = [owner |-> start.owner, fleet |-> FALSE]
  /\ saved = [s \in Slug |-> IF s \in start.there THEN Agents[s] ELSE None]
  /\ env = [s \in Slug |->
       IF saved[s] = None THEN None
       ELSE [EnvFile(saved[s], community) EXCEPT !.tag = @ /\ start.tag,
                                                 !.current = start.current]]
  /\ at = [p \in Process |->
       [phase |-> IF p \in start.cast THEN "new" ELSE "out", n |-> 1, due |-> {},
        com |-> community, full |-> FALSE, todo |-> [s \in Slug |-> None],
        slug |-> None, was |-> None, agent |-> None, leave |-> {}]]

\* The agent with this key.
Holder(k) == CHOOSE s \in Slug : saved[s] # None /\ saved[s].key = k

Init ==
  /\ \E start \in Starts : Start(start)
  /\ unit = [s \in Slug |-> IF saved[s] = None THEN Stopped(FALSE) ELSE Started(s, TRUE)]
  /\ relay = [k \in Key |->
       IF \E s \in Slug : saved[s] # None /\ saved[s].key = k /\ saved[s].managed
         THEN LET a == saved[Holder(k)]
              IN  [i \in Item |-> IF a.state[i] = "done" THEN Content(i, a.cfg) ELSE None]
         ELSE NothingOnRelay]
  /\ latest = None

Active(p) == at[p].phase = "on" /\ at[p].n <= Len(Steps[p])
Finished(p) == at[p].phase = "on" /\ at[p].n > Len(Steps[p])

At(p, step) == Active(p) /\ at[p].due = {} /\ Steps[p][at[p].n] = step

\* The step is over; l is what the process has in hand now.
GoTo(p, l, n) == at' = [at EXCEPT ![p] = [l EXCEPT !.n = n]] /\ UNCHANGED latest
Go(p, l) == GoTo(p, l, l.n + 1)
Proceed(p) == Go(p, at[p])
Raise(p) == at' = [at EXCEPT ![p].phase = "raised"] /\ UNCHANGED latest
RelayMayFail == "relay" \in faults
SystemMayFail == "system" \in faults
SystemFails(p) == SystemMayFail /\ Raise(p)
RelayFails(p) == RelayMayFail /\ Proceed(p)

\* The command line loads the community and starts the command.
Begin(p) ==
  /\ at[p].phase = "new"
  /\ \A q \in Process : Active(q) => p \notin Alone /\ q \notin Alone
  /\ at' = [at EXCEPT ![p].phase = "on", ![p].com = community]
  /\ latest' = IF \E q \in Process : Active(q) THEN None ELSE p
  /\ UNCHANGED stores

-----------------------------------------------------------------------------
(* Getting ready. *)

\* _ensure_owner_pubkey: derived once and saved; only a heal, not an update,
\* rewrites the agents because of it.
EnsureOwner(p) ==
  /\ At(p, "owner")
  /\ IF at[p].com.owner
       THEN Proceed(p) /\ UNCHANGED community
       ELSE LET com == [at[p].com EXCEPT !.owner = TRUE] IN
            \/ /\ community' = com
               /\ Go(p, [at[p] EXCEPT !.com = com, !.full = Kind[p] # "update"])
            \/ SystemFails(p) /\ UNCHANGED community
  /\ UNCHANGED <<saved, env, unit, relay, runtime>>

\* ensure_linger_enabled: the machine may refuse.
EnsureLinger(p) ==
  /\ At(p, "linger")
  /\ Proceed(p) \/ SystemFails(p)
  /\ UNCHANGED stores

\* The template, then the binary: installed if they were not current.
Install(p, part) ==
  /\ At(p, part)
  /\ \/ /\ runtime' = runtime \cup {part}
        /\ Go(p, [at[p] EXCEPT !.full = @ \/ part \notin runtime])
     \/ /\ SystemMayFail /\ part \notin runtime
        /\ Raise(p) /\ UNCHANGED runtime
  /\ UNCHANGED <<saved, env, unit, relay, community>>

\* ensure_fleet_record: cached, discovered and saved, or swallowed.
EnsureFleet(p) ==
  /\ At(p, "fleet")
  /\ IF at[p].com.fleet \/ FleetChannel = None
       THEN Proceed(p) /\ UNCHANGED community
       ELSE \/ LET com == [at[p].com EXCEPT !.fleet = TRUE]
               IN  /\ community' \in {com} \cup (IF SystemMayFail THEN {community} ELSE {})
                   /\ Go(p, [at[p] EXCEPT !.com = com])
            \/ RelayFails(p) /\ UNCHANGED community
  /\ UNCHANGED <<saved, env, unit, relay, runtime>>

\* list_agents: every record, as it is now.
List(p) ==
  /\ At(p, "list")
  /\ Go(p, [at[p] EXCEPT !.todo = saved])
  /\ UNCHANGED stores

\* The next agent of the list, in any order, or out of the loop.
NextAgent(p) ==
  /\ At(p, "next")
  /\ LET todo == at[p].todo IN
     \/ /\ \A s \in Slug : todo[s] = None
        /\ GoTo(p, at[p], LoopEnd)
     \/ \E s \in Slug :
          /\ todo[s] # None
          /\ Go(p, [at[p] EXCEPT !.slug = s, !.was = todo[s], !.agent = todo[s], !.todo[s] = None])
  /\ UNCHANGED stores

-----------------------------------------------------------------------------
(* Publishing: _sync_visibility, one publication after the other.           *)

DueToAll(p, item) ==                   \* bug: unmanaged agents are backfilled
  at[p].agent.state[item] \in {"todo", "pending"} /\ item \in Wanted(at[p].agent, at[p].com)
\* A managed agent's publications that are neither done nor known invalid.
Due(p, item) ==
  /\ at[p].agent.managed
  /\ at[p].agent.state[item] \in {"todo", "pending"}
  /\ item \in Wanted(at[p].agent, at[p].com)

Sync(p) ==
  /\ At(p, "sync")
  /\ Go(p, [at[p] EXCEPT !.due = {i \in Item : Due(p, i)}])
  /\ UNCHANGED stores

Published(p, item) ==
  [relay EXCEPT ![at[p].agent.key][item] = Content(item, at[p].agent.cfg)]
Marked(p, item, mark) ==
  /\ at' = [at EXCEPT ![p].agent.state[item] = mark, ![p].due = @ \ {item}]
  /\ UNCHANGED latest

\* The profile, the managed-agent record, the policy, then the channels.
Before(item) ==
  CASE item = "profile" -> {}
    [] item = "managed" -> {"profile"}
    [] item = "policy"  -> {"profile", "managed"}
    [] OTHER -> Publication

\* It works; it fails in a way that may pass, having reached the relay or not
\* (a channel is then marked as pending); or the relay or the signer calls it
\* invalid, and it is not tried again.
Publish(p, item) ==
  /\ Active(p) /\ item \in at[p].due /\ at[p].due \cap Before(item) = {}
  /\ \/ relay' = Published(p, item) /\ Marked(p, item, "done")
     \/ /\ RelayMayFail
        /\ relay' \in {relay, Published(p, item)}
        /\ Marked(p, item, IF item \in Channel THEN "pending" ELSE "todo")
     \/ RelayMayFail /\ UNCHANGED relay /\ Marked(p, item, "error")
  /\ UNCHANGED <<saved, env, unit, community, runtime>>

-----------------------------------------------------------------------------
(* Files and units. *)

\* save_agent: the whole record, whatever is there.
Save(p) ==
  /\ At(p, "save")
  /\ saved' = [saved EXCEPT ![at[p].slug] = at[p].agent]
  /\ Proceed(p)
  /\ UNCHANGED <<env, unit, relay, community, runtime>>

\* The healing loop saves only what a publication has changed.
Keep(p) ==
  /\ At(p, "keep")
  /\ saved' = IF at[p].agent.state = at[p].was.state THEN saved
              ELSE [saved EXCEPT ![at[p].slug] = at[p].agent]
  /\ Proceed(p)
  /\ UNCHANGED <<env, unit, relay, community, runtime>>

NeedsRefreshUnlessFull(p) ==           \* bug: a new runtime restarts nothing
  LET file == env[at[p].slug] IN
  \/ file = None
  \/ ~file.current
  \/ at[p].agent.managed /\ ~file.tag
  \/ at[p].com.fleet /\ ~file.fleet

\* needs_full_refresh, needs_auth_tag, needs_fleet_env, needs_block or another
\* adapter command.
NeedsRefresh(p) ==
  LET file == env[at[p].slug] IN
  \/ at[p].full
  \/ file = None
  \/ ~file.current
  \/ at[p].agent.managed /\ ~file.tag
  \/ at[p].com.fleet /\ ~file.fleet

Check(p) ==
  /\ At(p, "check")
  /\ IF NeedsRefresh(p)
       THEN Proceed(p)
       ELSE GoTo(p, at[p], LoopStart)
  /\ UNCHANGED stores

\* write_agent_files: a persona file that is gone raises before the file is
\* written; the auth tag is left out when the signer cannot compute it.
WriteFiles(p) ==
  /\ At(p, "files")
  /\ \/ /\ \E tag \in {at[p].agent.managed} \cup (IF SystemMayFail THEN {FALSE} ELSE {}) :
             env' = [env EXCEPT ![at[p].slug] = [EnvFile(at[p].agent, at[p].com) EXCEPT !.tag = tag]]
        /\ Proceed(p)
     \/ SystemFails(p) /\ UNCHANGED env
  /\ UNCHANGED <<saved, unit, relay, community, runtime>>

\* systemctl restart starts a stopped unit as well; without its environment
\* file the unit fails.
RestartWorks(s) ==
  env[s] # None /\ unit' = [unit EXCEPT ![s] = Started(s, unit[s].enabled)]
RestartFails(s) ==
  IF env[s] = None THEN unit' = [unit EXCEPT ![s] = Stopped(@.enabled)]
  ELSE SystemMayFail /\ unit' \in {unit, [unit EXCEPT ![s] = Stopped(@.enabled)]}

\* update_agent raises when the restart fails, healing goes on unless systemctl
\* cannot be run at all: only the RuntimeError of a failed restart is caught.
Restart(p) ==
  /\ At(p, "restart")
  /\ \/ RestartWorks(at[p].slug) /\ Proceed(p)
     \/ RestartFails(at[p].slug) /\ Raise(p)
  /\ UNCHANGED <<saved, env, relay, community, runtime>>

TryRestart(p) ==
  /\ At(p, "try restart")
  /\ \/ /\ RestartWorks(at[p].slug) \/ RestartFails(at[p].slug)
        /\ GoTo(p, at[p], LoopStart)
     \/ SystemFails(p) /\ UNCHANGED unit
  /\ UNCHANGED <<saved, env, relay, community, runtime>>

-----------------------------------------------------------------------------
(* Creating. *)

\* display_name_taken asks the fleet channel's members for their profiles.
NameTaken(p) ==
  \E k \in Key : /\ relay[k][FleetChannel] # None /\ relay[k]["profile"] # None
                 /\ relay[k]["profile"]["name"] = Asked[p]["name"]

\* --force does not ask, and what the relay does not answer is not taken.
CheckName(p) ==
  /\ At(p, "name")
  /\ Proceed(p) \/ (at[p].com.fleet /\ NameTaken(p) /\ Raise(p))
  /\ UNCHANGED stores

FirstSlug(s, name) == s = <<name, 1>>  \* bug: the ids in use are not asked
\* agent_slug: the first id of this name that no record has.
FreeSlug(s, name) ==
  /\ s[1] = name /\ saved[s] = None
  /\ \A t \in Slug : t[1] = name /\ t[2] < s[2] => saved[t] # None

\* list_agents, agent_slug, generate_key and the first look at the prompt.
\* Agents bounds the ids there can be: without a free one a create waits.
Mint(p) ==
  /\ At(p, "mint")
  /\ \/ LET a == Agent(p, Asked[p])
        IN  \E s \in Slug :
              /\ FreeSlug(s, Asked[p]["name"])
              /\ Go(p, [at[p] EXCEPT !.slug = s, !.was = a, !.agent = a])
     \/ SystemFails(p)
  /\ UNCHANGED stores

\* enable --now: starts the unit unless it runs.
Enable(p) ==
  /\ At(p, "enable")
  /\ LET s == at[p].slug IN
     \/ /\ env[s] # None
        /\ unit' = [unit EXCEPT ![s] = IF @.loaded = None THEN Started(s, TRUE)
                                       ELSE [@ EXCEPT !.enabled = TRUE]]
        /\ Proceed(p)
     \/ /\ SystemMayFail \/ env[s] = None
        /\ unit' \in {unit, [unit EXCEPT ![s].enabled = TRUE]}
        /\ Raise(p)
  /\ UNCHANGED <<saved, env, relay, community, runtime>>

-----------------------------------------------------------------------------
(* Updating and deleting. *)

KeptAnyway(a, cfg) == a.state          \* bug: a changed field is not republished
\* The publications of a changed field are due again; a channel that is no
\* longer asked for is forgotten, a new one is pending.
Reset(a, cfg) ==
  [i \in Item |->
     IF i \in a.cfg["channels"] \ cfg["channels"] THEN "todo"
     ELSE IF i \in cfg["channels"] \ a.cfg["channels"] /\ a.state[i] = "todo" THEN "pending"
     ELSE IF \E f \in Reads(i) : a.cfg[f] # cfg[f] THEN "todo"
     ELSE a.state[i]]

Updated(p, a) ==
  LET cfg == NewConfig(p, a.cfg)
  IN  [a EXCEPT !.cfg = cfg, !.state = IF a.managed THEN Reset(a, cfg) ELSE @]

\* The record an update or a delete works on; KeyError when there is none.
Load(p) ==
  /\ At(p, "load")
  /\ LET s == Target[p]  a == saved[s] IN
     IF a = None THEN Raise(p)
     ELSE IF Kind[p] = "update"
       THEN Go(p, [at[p] EXCEPT !.slug = s, !.was = a, !.agent = Updated(p, a),
                    !.leave = IF a.managed THEN a.cfg["channels"] \ Updated(p, a).cfg["channels"]
                              ELSE {}])
       ELSE Go(p, [at[p] EXCEPT !.slug = s, !.was = a, !.agent = a])
  /\ UNCHANGED stores

\* What the agent's key published of these items is taken back.
TakenBack(p, items) ==
  [relay EXCEPT ![at[p].agent.key] = [i \in Item |-> IF i \in items THEN None ELSE @[i]]]

\* leave_channel for each, best effort: a failed leave is not tried again.  A
\* signer that cannot be run at all is no such failure: the OSError is caught
\* nowhere, and the update ends between two leaves.
Leave(p) ==
  /\ At(p, "leave")
  /\ \E left \in SUBSET at[p].leave :
       /\ relay' = TakenBack(p, left)
       /\ \/ (left = at[p].leave \/ RelayMayFail) /\ Proceed(p)
          \/ left # at[p].leave /\ SystemFails(p)
  /\ UNCHANGED <<saved, env, unit, community, runtime>>

Disable(p) ==
  /\ At(p, "disable")
  /\ \/ unit' = [unit EXCEPT ![at[p].slug] = Stopped(FALSE)] /\ Proceed(p)
     \/ SystemFails(p) /\ UNCHANGED unit
  /\ UNCHANGED <<saved, env, relay, community, runtime>>

TeardownStaying(p) ==                  \* bug: no channel is left
  /\ At(p, "teardown")
  /\ relay' = TakenBack(p, {"managed"})
  /\ Proceed(p)
  /\ UNCHANGED <<saved, env, unit, community, runtime>>
\* Leave the agent's channels, then retract the managed-agent record, each best
\* effort; the profile and the policy stay.  A signer that cannot be run ends
\* the delete at any of its calls, the last of which (remove_member) is made
\* for an unmanaged agent too.
Teardown(p) ==
  /\ At(p, "teardown")
  /\ LET due == IF at[p].agent.managed THEN at[p].agent.cfg["channels"] \cup {"managed"} ELSE {}
     IN  \E gone \in SUBSET due :
           /\ relay' = TakenBack(p, gone)
           /\ \/ (gone = due \/ RelayMayFail) /\ Proceed(p)
              \/ ("managed" \in gone => gone = due \/ RelayMayFail) /\ SystemFails(p)
  /\ UNCHANGED <<saved, env, unit, community, runtime>>

Forget(p) ==
  /\ At(p, "forget")
  /\ saved' = [saved EXCEPT ![at[p].slug] = None]
  /\ Proceed(p)
  /\ UNCHANGED <<env, unit, relay, community, runtime>>

Unlink(p) ==
  /\ At(p, "unlink")
  /\ env' = [env EXCEPT ![at[p].slug] = None]
  /\ Proceed(p)
  /\ UNCHANGED <<saved, unit, relay, community, runtime>>
-----------------------------------------------------------------------------
Stop(p) ==
  /\ "stop" \in faults /\ Active(p)
  /\ at' = [at EXCEPT ![p].phase = "stopped"]
  /\ UNCHANGED <<stores, latest>>

GetReady(p) ==
  \/ EnsureOwner(p) \/ EnsureLinger(p) \/ Install(p, "template") \/ Install(p, "acp")
  \/ EnsureFleet(p) \/ List(p) \/ NextAgent(p)
Change(p) ==
  \/ CheckName(p) \/ Mint(p) \/ Load(p) \/ Leave(p) \/ Disable(p)
  \/ Teardown(p) \/ Forget(p) \/ Unlink(p)
Settle(p) ==
  \/ Sync(p) \/ \E item \in Item : Publish(p, item)
  \/ Save(p) \/ Keep(p) \/ Check(p) \/ WriteFiles(p)
  \/ Restart(p) \/ TryRestart(p) \/ Enable(p)

Next ==
  /\ \E p \in Process : Begin(p) \/ GetReady(p) \/ Change(p) \/ Settle(p) \/ Stop(p)
  /\ UNCHANGED faults

Spec == Init /\ [][Next]_vars
-----------------------------------------------------------------------------
(* Properties.  Quiet: no command runs, and none was stopped half-way. *)

Quiet == \A p \in Process : ~Active(p) /\ at[p].phase # "stopped"
Recorded == {s \in Slug : saved[s] # None}

\* An agent's record is never written over by another agent's, whatever was
\* created, failed or stopped before (agent_slug, manager.py:462-463).
RecordsKeepTheirKey ==
  [][\A s \in Slug : saved[s] # None /\ saved'[s] # None => saved'[s].key = saved[s].key]_vars

\* A failed create is "retryable instead of orphaning" (manager.py:515-521) and
\* a delete leaves no secret key on disk (manager.py:689-692): once nobody is at
\* work every environment file belongs to the record of its slug.
NoKeyLeftBehind ==
  Quiet => \A s \in Slug : env[s] # None => s \in Recorded /\ env[s].key = saved[s].key

\* systemd starts no agent at boot that buzz-fleet no longer or not yet knows,
\* even if the command stopped half-way (the order of save and enable,
\* manager.py:515-525, and of disable and delete, :643-688).
EnabledIsRecorded == \A s \in Slug : unit[s].enabled => s \in Recorded

\* An agent from before the visibility feature is never backfilled, by no
\* sequence of healing and updates (manager.py:371, 529-534).
UnmanagedUntouched ==
  \A s \in Recorded : ~saved[s].managed =>
    /\ relay[saved[s].key] = NothingOnRelay
    /\ env[s] # None => ~env[s].tag

\* A managed agent's update that failed with the record in hand, so that it may
\* have published or left, or a delete that failed while it took things back.
HalfDone ==
  \E p \in Process :
    /\ at[p].phase = "raised" /\ at[p].agent # None /\ at[p].agent.managed
    /\ \/ Kind[p] = "update"
       \/ Kind[p] = "delete" /\ Steps[p][at[p].n] = "teardown"

\* What the record says is published is on the relay as the record has it:
\* "keeping what's in buzz-fleet's config and what the relay says in sync" (the
\* visibility design), for failed and ambiguous publications too.  Two things
\* put them apart: a failed update, whose record is not saved, and a delete that
\* raised after it left a channel or retracted, whose record stays as it was.
FlagsAreTrue ==
  Quiet /\ ~HalfDone => \A s \in Recorded, i \in Item :
    saved[s].managed /\ saved[s].state[i] = "done" =>
      relay[saved[s].key][i] = Content(i, saved[s].cfg)

\* "Nothing here needs a manual restart - the next `agent list` or dashboard
\* load fixes it" (README.md:512): when a heal that ran alone, with a system that
\* does not fail, is over, every unit runs on the installed runtime with the file its record calls for.
Fresh(s, com) ==
  /\ env[s] # None /\ env[s].key = saved[s].key /\ env[s].cfg = saved[s].cfg
  /\ env[s].owner /\ env[s].current
  /\ saved[s].managed => env[s].tag
  /\ com.fleet => env[s].fleet
  /\ unit[s].loaded = env[s]
  /\ unit[s].runtime = {"template", "acp"}
HealedWhenDone ==
  Quiet /\ ~SystemMayFail /\ latest # None /\ Kind[latest] = "heal" /\ Finished(latest) =>
    \A s \in Recorded : Fresh(s, at[latest].com)

\* A delete that ran alone and met no failure leaves nothing of the agent: no
\* record, no file with the key, no unit, no managed-agent record and no
\* channel the record named (manager.py:640-706).
DeletedIsGone ==
  \A p \in Process : Kind[p] = "delete" /\ Finished(p) /\ latest = p /\ ~RelayMayFail =>
    LET s == Target[p] IN
    /\ saved[s] = None /\ env[s] = None /\ unit[s] = Stopped(FALSE)
    /\ \A i \in at[p].agent.cfg["channels"] \cup {"managed"} :
         relay[at[p].agent.key][i] = None
=============================================================================
