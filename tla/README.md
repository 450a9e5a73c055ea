# buzz-fleet: TLA+ models and proofs

buzz-fleet runs headless Buzz agents as systemd user units and lets people and
agents delegate tasks to each other in a *fleet channel* on a shared Nostr
relay.  Nothing coordinates its processes but the relay's append-only events,
two files per record under a `flock`, and systemd.  The specifications here
follow the Python under `src/src/buzz_fleet/` (paths below are relative to it)
and, where a promise depends on it, the Rust signer under `src/signer/src/`.

## 1. The system

| component | state | operations | who it talks to |
|---|---|---|---|
| task reducer (`orchestration/reducer.py`, `protocol.py`) | tasks, attempts, runs, seen ids, derived anew by every reader | fold over the sorted events: delegate, ack, report, cancel, redeliver, nudge, escalate | called by every task command |
| task commands (`cli/fleet_commands.py`, `orchestration/identity.py`) | none; the ledger is the channel | delegate, ack, report, cancel; read, check, post, and recover when the answer is ambiguous | relay, through the signer |
| relay access (`orchestration/relay.py`, signer `fleet.rs`) | one page loop | `fetch_all`, directory, members | relay |
| local state (`state.py`, `atomic.py`, `models.py`) | a state file and a secrets file per agent and community, a lock file | save, load, delete | every command, concurrently |
| agent manager (`manager.py`) | the agents' records, env files, units, publications | create, update, delete, `ensure_runtime_ready` (healing) | state, systemd, relay |
| systemd files and units (`systemd.py`, `systemctl_client.py`, `units.py`) | template, env files, enabled units | write, enable, disable, restart | systemd |
| visibility (`visibility.py`) | per agent and publication: to do, pending, done, refused | classify errors, build contents | manager |
| buzz-acp installer (`buzz_acp.py`) | one binary | install if absent | manager |
| fleet channel (`manager.py`, `orchestration/record.py`, `connect.py`) | a channel whose "about" holds the fleet record; a cached copy per machine | init, discover | relay |
| migration (`migrate.py`) | old and new unit names and files | plan, run, resume | state, systemd |
| signer (Rust, `signer_client.py`) | one authenticated session per call | publish, query, keys | relay |
| terminal user interface (`tui/`) | a stack of screens, each holding what it read when it opened | connect, dashboard, agent form, confirmation, logs, community picker | manager, state |
| command line (`cli/app.py`), configuration (`config.py`) | the active-community pointer, `config.toml`, `BUZZ_FLEET_COMMUNITY` | connect, agent create / update / delete, community use | manager, state |
| ids, slugs, durations, harnesses, personas, git artifacts, paths | none | straight-line or pure | the above |

The conductor, pipelines and the notifier appear in the documents and in the
message types the reducer accepts; no code for them exists, so nothing of them
is modelled beyond what the reducer does with their messages.

What is hard here: commands read the whole ledger, decide, and post without any
lock, while posts get lost, arrive late, or arrive although the answer did not;
stamps have a resolution of one second and come from several clocks; any member
may write any JSON; readers of the two state files take no lock while writers
rename them one by one; several machines look for one fleet record that any of
them may be writing; and the manager drives four stores (record, env file,
unit, relay) in sequences that may fail or stop at every step; requests share a
connection with what is left of earlier ones; and the TUI acts on what a screen
read when it opened, while the command line works on the same files.
`PROJECT.json` lists these hazards with their lines and the properties that
guard them.

## 2. The modules

| module | models | state | actions |
|---|---|---|---|
| `TaskState` | data types of the reducer and `_apply` | none | operators: `Apply` and one per message type |
| `Reducer` | one call of `reduce` on any history | `ctx`, `state`, `last` | `Consume(ev)`: one iteration of the loop |
| `TaskLedger` | concurrent task commands over one channel | `now`, `log`, `flight`, `run`, `stored` | one per command up to its first post, then the answers, time-outs, re-read, second post; the relay's late arrivals; `Publish`: a member writes by hand |
| `HistoryRead` | what a read of the history promises its caller | `relay`, `kept`, `had`, `status`, `result` | `End`: an answer, a refusal or a failure; `Arrive`, `Delete` |
| `PagedFetch` | `fetch_all` against a relay that changes meanwhile; implements `HistoryRead` | `relay`, `pc`, `until`, `seen`, `kept`, `had` | `Query` with its three endings, `QueryFails`, `Arrive`, `Delete` |
| `SignerSession` | `channel-members` on one connection, and `resolve_member` on its answer | `subs`, `up`, `down`, `pc`, `n`, `got`, `members`, `profile` | `Receive` (a frame), `Break`; the relay takes, refuses, sends and pushes; members leave and rename themselves |
| `StateFiles` | one record's two files under `flock` | `disk`, `durable`, `dir`, `undone`, `lock`, `pc`, `pub`, `sec` | each system call of save, load and delete; `Stop`, `PowerLoss` |
| `AgentLifecycle` | `AgentManager` on one machine | `saved`, `env`, `unit`, `relay`, `community`, `runtime`, `at` | each step of create, update, delete and heal; `Stop` |
| `FleetChannel` | `fleet init`, the search for the fleet record and its cache, `connect`, on several machines | `made`, `about`, `cached`, `at`, `named`, `flight`, `lost`, `muddled` | each call of a command, with its outcomes; `Land` (a late write), `Stop` |
| `Migration` | `plan` and `run` of `migrate.py` over the old and the new layout | `legacy`, `old`, `new`, `units`, `template`, `run` | `Plan`, each step of `run`; `Stop`, `Boot`, the operator's starts, stops, deletes and clean-up, a heal |
| `Console` | the TUI and the command line over one state directory | the disk (`communities`, `pointer`, `default`, `agents`), `at`, `shown`, `rows`, `due`, `form` | one per key of each screen, `Refresh`; `Outside`: the command line, a person at the files |
| `TaskStateProofs` | lemmas on what one event does to a task and to the state | | |
| `TaskLedgerProofs`, `SignerSessionProofs`, `StateFilesProofs`, `FleetChannelProofs`, `ConsoleProofs`, `MigrationProofs`, `AgentLifecycleProofs` | the theorems of the module each is named after, and their lemmas; those of `Reducer` are in `TaskLedgerProofs`, those of `PagedFetch` in `FleetChannelProofs` | | |
| `MC*` | small instances | | |

`TaskState` is shared: `Reducer` folds it over arbitrary, also malformed,
histories; `TaskLedger` folds it over what each command has read, so the same
transition function that is proved about decides what the commands do.  Where a
module recurses (`Reduce` and `ChainDepth` of `TaskLedger`), it does so by a
recursive function on sets, which can be proved about.

### Correspondence, module by module

**TaskState / Reducer.**  A task maps to `None` (unknown) or a record with its
sequence of attempts; an attempt has the fields of `reducer.Attempt`.  A field
of an event's payload is a value, `None` (absent) or `Bad` (present, of the
wrong type); `Infinite` is the JSON number that Python parses as infinity and
on which `int()` raises.  `Raise` is the exception that ends the replay.
Acceptance criteria, artifacts and texts are reduced to "well formed or not".
Expiry and lateness are computed by callers from these fields and are no state.

**TaskLedger.**  A command's reads (events, directory, record) are one step:
the later ones only refine what is printed or resolved.  Its first post either
is accepted, fails, or times out; after a time-out the event may be on the
relay, in flight (`MayDelay`), or lost, and the command re-reads and posts a
freshly signed second event unless it recognises its first.  Event ids are
naturals in an order the model chooses freely, because ties in `created_at`
are broken by a hash; a minted task or attempt id (a uuid4) is one that no
message holds yet.  `Skew` puts members' clocks off.  `--thread` and a
report's artifact check are left out.  An agent reads without the fleet record,
so its `Fleet` has no conductors and its limits may differ from the owner's
(`OpenLimit` and `ChainLimit` are per member).
Any member may also publish JSON of its own (`Publish`, from the set `Foreign`),
at any time and under any command's task and attempt.  It matters because the
re-read after a lost answer compares type, task and attempt and neither author
nor content (`fleet_commands.py:163-166`).  Two things are not published so: a
delegation, which would be bound by no limit, and a cancellation that names an
attempt, which no command looks for.

**PagedFetch.**  A page is any set the relay may return for `until` and the
limit: all matches, or the newest `Limit`, chosen freely at a tie.  `kept` and
`had` are history: what was on the relay throughout, and at some moment.  Under
the mapping of `relay`, `kept` and `had` to themselves, `pc` to `status` and
`seen` to `result` (empty until the end), the pages are one step of
`HistoryRead`.  `TaskLedger` takes a read as one action on the strength of it;
that a paged read may have some of the events that arrive meanwhile and not
others is there an event still in flight.

**SignerSession.**  A frame carries the id the signer gave its request and what
it is (`EVENT`, `EOSE`, `CLOSED`; `REQ`, `CLOSE` the other way).  Both directions
are ordered, as on a websocket; nothing else is.  The relay may refuse a request,
push new events to a subscription that is still open, and acknowledge a `CLOSE`
while the signer already reads the answer to its second request.  A member list
or a profile is replaceable: what is stored is the latest.  Two names are two if
they differ in more than case and blanks.  `moments` and `cause` are history.

**StateFiles.**  An object is known by the changes it contains and the secrets
it declares.  `write_secure` is split at its system calls; `durable` is what
survives a power loss when a rename was not followed by the directory's
`fsync`.  `MayTear` lets `os.write` write less than it was given (its count is
not looked at).  A failing system call and a kill are the same `Stop`; the lock
goes with the process.  A first save makes the directories it misses
(`atomic.py:18-34, 45`), and only the file's own directory is synced: `dir` says
of each file's directory whether it is missing, made but unknown to its parent on
the disk, or there, and a power loss may take a made one with what is in it.
`undone` is history: whether a power loss can have undone a delete or the making of
the secrets' directory.

**AgentLifecycle.**  A command is a list of named steps (`CreateSteps`,
`UpdateSteps`, `DeleteSteps`, `HealSteps`), and a process has the place `n` it has
reached in its list; the healing loop, the last six steps of `HealSteps`, goes
back to its first for each agent in `todo`.  Which agent is next is left open, as
`list_agents` promises no order.  `due` holds the publications that a
`_sync_visibility` still has to try, in the order that `Before` gives.  A step
can fail where the program it calls can, and a process stop before any step.  A
configuration is a function from five fields to values, chosen so that each
publication depends on some fields and not on others; an update asks for some
fields and keeps the rest (`NewConfig`).  `Slug` is a set of pairs of a name and a
number that bounds the ids there can be: a create that finds none free waits.  A
unit remembers which env file and runtime it was started with; a restart fails if
there is no env file.  The relay keeps, per key, the content of each publication.
The archive request and the membership removal of a delete are left out: nothing
in the program reads them back.  A write of a local file does not fail here: how
such a write fails is `StateFiles`.  Where a signer call may end otherwise than
with a caught exception (an `OSError` because the program cannot be run: publishing
catches it, leaving and taking back at `manager.py:613, 654, 662, 669` do not), the
step has a further disjunct: the command raises, before or after what the step has
already done on the relay.  `latest` is history: who ran last, if alone.

An instance has several `Starts`: which commands run (`cast`), which agents there
are, what may fail (`faults`), and what is installed, known and up to date.

**FleetChannel.**  A record is known by the init that minted it (each mints a
fresh retrieval key); `about` is what `decode_about` makes of a channel's text,
`cached` the two fleet fields of a machine's community file.  A command is where
it stands between two calls of the signer, with the channel and the record in
hand.  A call may fail before, after, or (for the write of the "about") long
before its effect.  `named` holds the channels that an error told the operator
to adopt with `--channel`, which the operator then does; `lost`, `muddled` are
history: channels left without a named error (the answer of the creation was
lost, or the command was killed; an answer that `write_channel_about` cannot parse
at `manager.py:185` ends the command as a kill does), and whether inits overlapped or a write
arrived after its failure was reported.

**Migration.**  A file of the new layout is known by where it came from: moved
from the old one, or made afresh by a heal; an env file also by whose key it
has.  The old layout has one env file per bare id, so of the agents that share
an id one, chosen at the start, has its key there.  A run holds the steps that
`plan` found missing, a set per agent worked off in the order of `Place`, one
agent at a time, in an order of agents that is left open; a failing step, a kill
and a boot leave the rest, and the next `Plan` looks at the disk again.  The
backup of the old tree and the version file are left out: nothing reads them.
A failing `systemctl disable --now` is tolerated whatever it failed for
(`migrate.py:545-556`) and may leave the old unit enabled, running or both;
`units.stuck` remembers for which ids it did.

**Console.**  The textual event loop runs one handler at a time and `refresh_agents`
awaits nothing, so a handler is one action; what happens between two of them is
`Outside`.  An agent's record is reduced to one field for each way the form treats
it: plain inputs (`text`), lists with commas (`list`), the prompt, whose persona
file is shown as a blank, the masked environment (`env`), the MCP server, whose
environment has no input (`server`), and selects with a default (`policy`).  An
input can hold any `Text`, of which the form singles out a few (blank, the mask, the
default, a list with a comma in an element).  What submitting loses by itself is
named (`MayLose`): such a comma, an unset policy, and blanks around a value, which
the form strips (`agent_form.py:359-368`).  `form.was` is the record as it was when
the form opened, `form.typed` what its inputs hold.  `rows` is the table as last
filled, `due` whether a refresh is still to run.  An exception that no screen
handles is a `Leave`.  What create, update and delete do besides the record is
`AgentLifecycle`'s; a refused input leaves the form as it is and is no action.
`meddled` and `foreign` are history: what others did that the TUI has not seen.
Every community is taken to have its fleet record cached, so that the manager saves
no community here.

## 3. What is checked

| run | question | instance and bounds |
|---|---|---|
| `Reducer` | Is the derived state well formed, final where it must be, and changed by entitled events only? | 4 events (`Length`) over ids with ties and gaps; 90 shapes each, malformed ones and copies included; with and without a conductor, owner, deletion |
| `LedgerRaces` | Do concurrent commands keep the ledger's promises when posts are late, lost or doubled? | 5 commands in casts (`OneCast`): a delegation, its report and its cancellation with one of 3 reports published by hand (the assignee's with another result or none that is known, a stranger's); or two delegations that hand a task on, with the report or as a chain; 3 members; 4 events, 3 where a task is handed on; one second (`MaxTime` 1) with its events in every order; chain limit 1 for the owner and 2 for the agents |
| `LedgerCalm` | With each member running one command at a time, do the open limit, at-most-once posting and one thread per run hold, also when a clock is behind? | 6 commands: two ad hoc delegations, two of one run, an ack, a report; one report published by hand; 3 events, open limit 1, the owner's clock one behind (`MaxTime` 2) |
| `PagedFetch` | Is paging one read of the history (a refinement of `HistoryRead`: complete, nothing invented, refused only where a second overfills a page), and does it end? | 6 events in 3 seconds, pages of 2, one second overfull |
| `Session` | Does an answer assembled from two requests on one connection fit the channel, and does it fail only for a cause? | 2 keys, 2 names, 3 changes (`MaxChanges`) |
| `Files` | Do create, update and delete exclude each other, what may a stop, a short write or a power loss leave behind, and what can a reader be given? | 4 processes: one that creates, one that updates, one that deletes, one that reads; one secret of an MCP server, one of another kind; directories that are there or still to be made |
| `FilesDropped` (violated) | Is a half-finished save harmless? | 1 process that drops a secret |
| `Life` | Do failing steps and stops leave orphaned keys or units, overwrite a record, or publish an unmanaged agent; do flags stay true when publications fail in every way, and does a heal leave current units? | a managed and an unmanaged agent; either a create, an update and a delete, one at a time, with failing steps and stops after an upgrade; or an update and two heals that may overlap, the relay failing, with either the programs, or the auth tags, or the lines of the current version missing; or an update with a delete, or a heal, where every call of the relay's and the system's programs may fail |
| `Migrate` | Is a migration that is stopped and resumed safe, and complete when it says so? | 4 runs (`MaxRuns`), 2 communities, 2 ids; a usable tree, one with an id in both communities, one with an invalid id; a failing `disable`; heals only of agents already moved |
| `MigrateHealed` (violated) | Does it stay so if `agent list` runs in between? | 3 runs, one agent |
| `Console` | Do TUI and command line take the same community for the active one, does the table show what was done, and does an edit of one field lose no other? | 2 communities; every pointer, default and environment at the start, a malformed `config.toml` included, or an agent that uses every field; 2 changes in the TUI (`MaxKeys`), 1 elsewhere (`MaxOutside`), 1 edited input per form (`MaxEdits`) |
| `Fleet` | Do all machines get one fleet record, and do retries leave one channel, whatever fails? | 2 machines; 3 inits, a learner, a reconnect; 3 free channels and an old one |

Bounds.  A disagreement between readers needs two events with a tie or a swap,
a reopened task a third and its late report a fourth: hence four events.  The
ledger's races are between the delegation, the answer and the cancellation of
one task, and one task handed on: at most three commands at a time, of which each
may post twice.  A chain of two is two delegations and, posted on a view that
lacks the first, needs one copy more: three events.  A report by hand fits the
attempt as the assignee's own or as a stranger's, with a status the reader
accepts or not: three.
The overfull second needs more events than a page holds, and a page before and
after it.  Two writers, one deleter and one reader are all the roles the files
know.  The managed agent, the unmanaged one and the created one are all an
agent's kinds; each command appears once because a second of the same kind
starts from a state that the first one's failures already reach.  A migration's
steps depend on one agent and its id only, so two agents show every sharing, and
three runs every way to stop, resume and stop again; the fourth runs on the
cleaned-up tree.  Three inits are a failed one, its retry, and another machine's
or a third try that must meet what the first two left.  A name is ambiguous, or
becomes so, between two members; a member leaves, one renames itself and takes
back: three changes.  The form treats each input by itself, so one edited input
shows what happens to the others; a screen is opened over what the one before it
left, so two changes in the TUI and one from outside at any moment show a stale
form, table and pointer.

Deadlock is not checked: in every module the system really stops when its
commands have ended.

**Fairness.**  Safety runs assume none.  `PagedFetch`: the reader goes on, since
each query of the signer returns or fails; `HistoryRead` asks the same of `End`.
`StateFiles`: each process's next system call happens; no strong fairness on the
lock is needed as each process takes it at most once.  Nothing is claimed about
the end of a manager's command: `proc.py` sets the programs it calls no time
limit.

**What the violated runs show.**
- `FilesDropped`: the save writes secrets first.  If it drops a secret and stops
  in between, the old state file names a secret that is gone, and every later
  load of that community's agents raises.
- `MigrateHealed`: `README.md:85-87` says to run `migrate` again, "only the rest
  is redone".  A migration that stopped after an agent's record was moved leaves
  that agent visible to `agent list`, whose healing writes an env file and a
  work directory; the resumed run finds them there and moves neither, so what
  the old ones had besides (the operator's API keys, the agent's work) stays
  behind, and the run reports success.

**Known limits of the code that no run refutes a statement about.**  A cancellation
names no attempt, so the second try cannot recognise the first and may post it twice
(harmless: the second finds the task cancelled).  After a post that was lost, the
re-read takes a stranger's report on the same attempt, or one of no known status,
for the one it looks for: the command says that it reported, and the task stays
live.  `ResultIsTheMessage` and `ReportSettlesTask` say by name that they do not
cover it.  Concurrent delegations can exceed the open-task limit, two first
delegations of a run can open two threads; hence the one-at-a-time assumption
(`Exclusive`) in `LedgerCalm`.  Two updates of one record, or a heal that overlaps
an update or a delete, can undo each other, because the lock covers the write and
not the read before it: `Life` keeps those apart (`Alone`), and `PairIsOneSave`
promises only that the files are *some* save's. A reader without the lock can pair
the old state file with the new secrets file of a save (its secrets are then those
of a later save, `SecretsAreAsNew`), although `state.py:139-141` speaks of "the
previous consistent generation".  A delete syncs no directory: a power loss soon
after it can bring back either file. Nor does `write_secure`, "atomically and
durably" (`atomic.py:40`), sync the parents of the directories it makes: a power
loss soon after the first save of a community can take the save, or its secrets
alone (`undone` in `StateHasSecret` and the exception of `SavesSurvivePowerLoss`).
An agent deleted while its migration is half done is created again by the resumed
run: the marker that guards against it (`DeletedStaysDeleted`) is written last.
Once a migrated agent has been deleted and the old `communities/` removed, `migrate`
refuses to run until `agents/` is removed too. A heal whose later step raises
forgets that it has installed something. `_ensure_owner_pubkey` is also called by an
update, which rewrites only its own agent; after it no heal knows that the others
lack the owner's line, although `README.md:512` says the next `agent list` fixes
what is missing.  `HealedWhenDone` is stated of machines that do not fail for the
first of these reasons, and holds for the second where the owner's key is known
before (`OwnerKnown` in section 4, and the heals of `Life`).  Two inits that
overlap, or a write of the "about" that arrives after its failure was reported and
the channel adopted, split the fleet (`muddled`; the docstring at `manager.py:202`
admits the first): machines keep the record that they cached, because nothing
compares it with the relay again, also after a channel is archived or the community
is reconnected to another relay.  A `connect` that overlaps a discovery forgets the
record until the next one.  The comment at `manager.py:656-659` wants no failing
leave to "block the rest of deletion", but an `OSError` does, and after it the
record, unchanged, claims publications that are gone (`HalfDone`).  A tolerated
failure of `disable` leaves the old unit enabled or running beside the new one and
the marker set, although `migrate.py:548-555` holds that the goal state is reached
"either way" (`stuck`).  A failed restart in an update leaves the relay and the env
file ahead of the record.  A deleted agent stays in the fleet channel, so its
display name stays taken.  A publication that was marked refused and whose field
changes is tried again, one that is refused and unchanged never.

In the TUI: `README.md:440-441` and `community_picker.py:3-5` say that it and the
command line "can never disagree about which community is active".  They do
when `BUZZ_FLEET_COMMUNITY` is set (the picker writes a pointer that it
overrides) and when someone selects, connects or removes a community while the
TUI runs; `CliAgrees` is stated without these.  The dashboard reads its table on
mount and on resume only: although its docstring says "polled" and `config.toml`
has a `refresh_interval_ms`, only `config show` reads that setting, and what another process
does shows with the next screen change.  The agent form submits all the fields
that it was opened with but the prompt, and so undoes an edit, a rotated secret
included, that the command line made meanwhile; an element of a list that
contains a comma comes back as two, and a policy that was unset becomes the
default with any edit.  The manager and the agent id that a form or the
confirmation holds are from when it opened: the confirmation deletes whatever
agent has the id by then, and for an agent that is gone both end the TUI with a
`KeyError`, as a failing `systemctl` does.

## 4. What is proved

Every theorem is for every value of the constants under the named assumptions:
any number of members, commands, processes, machines and agents, histories and
connections of any length.  The assumptions ask no more than that things are
what they are called:

- `IdAssumption`, `KindAssumption`, `NoneAssumption` (`TaskState`),
  `MessageAssumption` (`TaskLedger`), `CacheAssumption` (`FleetChannel`),
  `ContentAssumption` (`StateFiles`), `MigrationAssumption`, `LifecycleAssumption`,
  `ConsoleAssumption`: identifiers and records are none of the marks for an absent
  or malformed value, event ids have an order and no event id is an attempt's id.
- `EventAssumption`, `PageAssumption`, `SessionAssumption`, `FleetAssumption`,
  `FilesAssumption`: the constants have their types, the keys and channels are
  finitely many, and a page holds at least one event.  `LifecycleAssumption` also
  asks that the agents there are at first have keys of their own, that a create's
  key is fresh, and that an update of a configuration is one.
- `LedgerAssumption`: no message of the commands under way is deleted, and no clock
  is before the epoch.  `ForeignAssumption`: what is published by hand is neither a
  delegation nor a cancellation that names an attempt.  `CommandAssumption`: what
  the command line lets through (a report has one of the reported statuses).

Where a theorem needs more, it says so as its hypothesis, and the run that
checks the same property is an instance of it.

| module | theorem | property | hypothesis |
|---|---|---|---|
| `TaskLedgerProofs` (`Reducer`) | `ReducerTypeCorrect`, `Succession`, `Evidenced` | `StateTyped`, `AttemptsSucceedEachOther`, `EvidenceIsCurrent` | |
| | `Finality`, `Entitlement` | `TerminalIsFinal`, `ChangesAreEntitled` (action properties) | |
| `TaskLedgerProofs` | `AnswersWithItsMessage`, `RetriesAreHarmless` | `ResultIsTheMessage`, `RepeatsOpenNoAttempt` | |
| | `ReportSettles`, `SettledStaysSettled` | `ReportSettlesTask`, `SettledUnlessOvertaken` (action property) | |
| | `ChainsAreShort` | `ChainsStayShort` | limits of at least one |
| | `PostedOnce` | `AttemptMessagePostedOnce` | nothing lands late |
| | `RunsKeepTheirThread` | `RunHasOneThread` | nothing lands late, `RunsByOne`, nothing published by hand names a run |
| | `OpenTasksAreLimited` | `OpenTasksWithinLimit` | nothing lands late, `AdhocInTurn` |
| `FleetChannelProofs` (`PagedFetch`) | `WholeHistory`, `NewerNeverMissing`, `RefusalIsJustified` | invariants stated there | |
| | `Refinement` | `IsOneRead` | |
| `SignerSessionProofs` | `FailsForCause`, `AnswersFit` | `FailsOnlyForCause`, `AnswerFitsTheChannel` | |
| `StateFilesProofs` | `SecretsBesideState`, `SavesDoNotMix`, `OneWriterAtATime` | `StateHasSecret`, `PairIsOneSave`, `WritersHoldLock` | |
| | `FinishedSavesAreDurable` | `SavesSurvivePowerLoss` (action property) | |
| | `LoadsFailOnlyForCause`, `SecretsKeepUp` | `LoadsSucceed` (action property), `SecretsAreAsNew` | `OneChange` |
| `FleetChannelProofs` | `OneRecordPerCommunity`, `OneChannelPerCommunity` | `OneRecordForAll`, `NoDebris` | |
| `ConsoleProofs` | `NeverDisagree`, `TableIsCurrent` | `CliAgrees`, `ShowsOwnChanges` | |
| | `EditsOnlyWhatWasEdited` | `EditKeepsTheRest` (action property) | |
| `MigrationProofs` | `NothingOfItIsLost`, `NoneComesBack`, `EveryKeyIsItsOwn` | `NothingIsLost`, `DeletedStaysDeleted`, `KeyIsItsOwn` | |
| | `NeverUnderBothNames`, `DoneIsMoved` | `OneIdentityOnce`, `DoneMeansMoved` | no heal meanwhile (`MayHeal = FALSE`) |
| `AgentLifecycleProofs` | `LifecycleLeavesNoKey`, `LifecycleEnablesTheRecorded`, `LifecycleSparesTheUnmanaged`, `LifecycleDeletes` | `NoKeyLeftBehind`, `EnabledIsRecorded`, `UnmanagedUntouched`, `DeletedIsGone` | `ChangesAlone` |
| | `LifecycleKeepsKeys` | `RecordsKeepTheirKey` (action property) | `ChangesAlone` |
| | `LifecycleFlagsAreTrue` | `FlagsAreTrue` | `ChangesAlone` |
| | `LifecycleHeals` | `HealedWhenDone` | `ChangesAlone`, `OwnerKnown` |

Most modules also state that their inductive invariant holds (`InductiveInvariant`,
`ReducerInvariant`, `FetchInvariant`, `HealedInvariant`), and that their variables
keep their types (`TypeCorrect` and the like).  The run of each property whose
theorem has a hypothesis satisfies it.

**`TaskStateProofs`, and `Reducer` in `TaskLedgerProofs`.**  Histories of any length
and any, also malformed, events.  `ReducerInv` is the type invariant together with
`TaskInv` for each known task: the attempts are nonempty, all but the last are
terminal, their ids differ, the last one's evidence (`acked_at`, `reported_at`)
matches its status, no recorded time precedes the attempt, and everything recorded
so far is no later than the latest event.  The last part is what makes it inductive:
"no time precedes the attempt" survives a new event only because events arrive in
the order of their stamps.  One lemma per kind of event shows that the operator it
applies keeps `TaskInv` and changes no terminal attempt; `ApplyOK` puts them
together.  `Entitlement` needs a second round over the same operators: whatever one
does to an attempt, `ApplyRights` names who wrote the event.  Both stand in a module
of their own because the ledger rests on them too.

**`TaskLedgerProofs`.**  Three layers.

*Reduce.*  A reader's state is a recursive function on the sets of events it has
read, so its defining equation holds only if it has a solution.  `FoldExists`
shows that by picking a least counterexample, `ReduceLast` is the step: the state
after a set is the state before its latest event, with that event applied.  Facts
about what a reader sees follow by `SetInduction` over the subsets of the history,
for every order of stamps: copies of one delegation open one attempt
(`OneAttempt`), the assignee's report or an entitled cancellation settles its task
wherever it sorts after the delegation and whatever sorts in between
(`WantedSettles`), and nothing else settles it (`LiveUnlessSettled`).

*Commands.*  `LInv` says what is on the ledger: copies of a message published by
hand (`ByHand`) or of the one message that
some command drafted, under ids that no two events share; no two delegations
mint one task (`MintedOnce`); and what a command posts that is not a delegation is
about one on the
ledger, an answer about the very attempt and by the member it asked (`Fits`).
None of this is in the properties, and all are needed: `RepeatsOpenNoAttempt` is
false if two commands mint one id, `ReportSettlesTask` if a command could report on
an attempt that is not its member's, `ResultIsTheMessage` if the re-read could meet
such a report of another command.  That it can meet one published by hand is the
case both properties except.  `NothingHidden` says of posts that
cannot land late that what the re-read did not find is not there, which is all
that keeps the second post from being a second copy.

*What one command at a time adds.*  `ChainInv`: a delegation that is on its way
comes with a set of tasks that holds its parent, is closed under parents and
leaves room within the limit (`Short`).  The set is chosen when the command reads
the ledger, and it stays one since copies of a delegation agree on the parent; so
a check made on an old view is as good as one made on the relay.  `ThreadInv`: a
message of a run under way joins the thread that the run has, or is the one that
starts it, and then every event of the run so far is its own copy.  `OpenInv`: a
delegation under way that is not on the ledger has room left for it.  What a
reader counts as open is the set of delegations that nothing has settled
(`OpenTasks`), for an agent without the fleet record as for the owner, and one
event more adds at most its own task.  Both rest on `Turns`, that a member of
`Exclusive` has ended one command before it starts the next.
`RunsByOne` and `AdhocInTurn` ask this of the delegations of a run and of a
requester's ad hoc ones; a requester who runs two at a time can exceed the limit,
and the code has nothing against it.  `ChainsAreShort` asks for limits of at
least one because the code compares a chain only if there is a parent.

**`PagedFetch`, in `FleetChannelProofs`.**  `FetchInv` adds to the types that every kept event newer
than `until` has been seen, and that a read that is done has seen all kept
events.  The interesting step is the continuation: the next `until` is the
oldest second of a full page, inclusive, so what is newer than it either was
newer before or matched and, the page being the newest `Limit` rows, is in it.
A read is refused only where one second has had at least `Limit` events.
`Refinement` proves the safety part of the mapping to `HistoryRead`: the initial
states map to initial states, and each step to a step or a stutter; the step that
ends a read needs `FetchInv`, since only there is it known that nothing is missing.

**`SignerSessionProofs`.**  An answer is followed along the connection: what the
signer has collected, what is on its way, and what the relay has yet to send
together cover the member list and every listed member's profile
(`MembersComeFirst`, `ProfilesComeFirst`), always in front of the EOSE that ends
them.  `RequestsInTurn` keeps the frames of the two requests apart, and
`ClosedForCause` says that a CLOSED that acknowledges the first request's CLOSE
never bears the id of the request that is being read.  That the name a caller is
given is the answer's latest profile uses `NameOf` of the model, the greatest
position of a profile in what was collected.

**`StateFilesProofs`.**  Any number of processes, secrets added and dropped, short
writes, stops and power losses.  `IInv` says who holds the lock, what the holder has
put on the disk by each of its steps, and which of it a power loss can undo
(`OnlyRenamedUnsynced`: at most the file renamed last).  `SecretSurvives` is
`StateHasSecret` for every mixture of the two versions of each file that a power
loss may leave, but for one that `undone` names: of a delete, or of the making of
the secrets' directory.  `PairIsOneSave` names the finished save that both files are
of: that they merely fit each other would not survive the next save.
`LoadsFailOnlyForCause` and `SecretsKeepUp` have an invariant of their own, `JInv`:
changes and secrets only grow, so a state file that someone has read is within every
secrets file that may be read next, whichever of its versions a power loss leaves.
No guard of the reader implies the second: a mask does not tell an old value from a
new one, so only the writers' order keeps the pair from it.  It is true only under
`OneChange` (one process creates, one updates, and the update drops no secret): an
update writes what it loaded before it took the lock, and `FilesDropped` shows the
dropped secret.

**`FleetChannelProofs`.**  `OneInitAtATime`: an init that may still write has found
no record.  `OneRecord`: what any command has in hand to cache is the one on the
relay.  `OneChannel`: a channel that nobody has been told of, and that no record
names, belongs to the init that is still to write to it.  All three are given up
once inits overlap or a write lands late (`muddled`), as in the properties.

**`ConsoleProofs`.**  `CliAgrees` and `ShowsOwnChanges` become inductive with two
facts: the community that is shown has a file unless others removed it, and a form
on an agent has a name typed in it.  `EditsOnlyWhatWasEdited` goes field by field
through what the form shows and sends (`UntouchedIsKept`).

**`MigrationProofs`.**  Any old tree, any number of runs, stopped anywhere.  What a
run has not planned or has not come to is still as it was, so the invariant speaks
of the steps that are over.  `Reached`: such a step has left its target. `Underway`:
whoever has steps ahead is not marked, still has its mark ahead, and shares its id
with nobody; that is where `KeyIsItsOwn` comes from, the old env file of its id
being its own.  `OldTree`: the old files stand for every agent that is not marked.
`Covered`: a run that goes on has every agent marked or ahead of it, which is what
it may say at its end.  `NothingIsLost` follows from `Reached` and `OldTree` without
regard to who else writes; it speaks of keys and prompts, and says nothing of the
work directory, which only `DoneMeansMoved` does.  The last two properties need more
(`HInv`): that the old unit is off before the new one is there, or its `disable`
failed and left it (`Switched`), and that no file of an agent on its way was made by
anybody else (`Unhealed`).  A heal breaks the second, as `MigrateHealed` shows, and
may start the new unit of an agent whose old one is still to be disabled.

**`AgentLifecycleProofs`.**  Any casts of creates, updates, deletes and heals, of any
agents and configurations.  `ChangesAlone` says that what changes an agent runs
while nothing else does, heals may overlap: `Life` has it, and without it two
creates take one slug, or a heal puts back the record that a delete has removed.
`Turns` makes it usable: where a create, an update or a delete is at work, nobody
else is.

`IInv` holds whatever fails or is stopped.  By the place in its list it says what
record a process has in hand (`HandsMatch`: in the healing loop the one that is
saved but for its flags, before a create's first save none, in a delete the very
one that is saved until it is forgotten); where each record's key comes from
(`Origins`, so that no two agents have one key, without which publishing for one
could touch an unmanaged one); what accounts for an env file without a record
(`KeysKnown`); that a delete has disabled the unit before it forgets the record
(`Disabled`, for `EnabledIsRecorded`); and how far a delete that nothing has
followed has come (`DeletesClear`).

`FInv` adds the flags.  Those in hand are true of the configuration in hand
(`HandTrue`) and those of a record of its configuration, except while an update or
a delete of it is under way, or has raised with the record in hand (`HalfDone`)
(`RecordTrue`).  For two heals that overlap this is
more than it seems: each has its own copy of the flags and publishes what is due in
its copy; as both copies have one configuration, a publication by one makes no
flag of the other false.  What a channel to be left loses is no flag in hand,
because `Reset` has taken it out.

`HInv` says for each record what keeps it from having gone stale (`UnitKnown`): its
env file is its own, with the record's configuration unless an update is about to
save; it has the owner's line once the community does, or somebody will rewrite all
files; and the unit runs on the file and the runtime there are, or somebody will
restart it.  That `full` is known only to the process that made the change is
where the assumption that the machine does not fail enters: a process that raises
takes what it knew with it.  `Progress` follows a heal that runs alone through its
loop.  `OwnerInv` needs `OwnerKnown`: an update that is the first to derive the
owner's key saves it and rewrites one agent.

**Only model-checked.**  Liveness (`Terminates` of `PagedFetch`, `EveryoneEnds` of
`StateFiles`), since the prover has neither fairness nor `ENABLED`; `Refinement` is
of the safety part of `HistoryRead`, which is what `IsOneRead` states.  Every
invariant and every action property that a run checks is proved.

## 5. Plan

Done, in this order: reducer, task commands, paging, state files, agent
lifecycle, migration, fleet channel, signer session, the read as an abstract
specification, console; then the theorems of the reducer, the paging, the files,
the console, the session, the fleet channel, the ledger, the migration and the
agent lifecycle.  What would come next: heals that overlap updates and deletes,
whose lost writes no property of the code's documents speaks about; what is still
true of a machine that fails during a heal; and the commands of `TaskLedger` over
reads that are pages and not one step.

Not modelled, and why:

- ids, slugs, durations (`orchestration/ids.py`, `slug.py`,
  `orchestration/durations.py`): functions of strings, character by character,
  without state; the one that meets state, the slug of a new agent, is in
  `AgentLifecycle`.
- harnesses, personas, instructions: tables, parsing and text.
- git artifacts: one look at a checkout, whose result is a text in a report.
- `directory` of `relay.py`, `task list`, `task show`, `fleet status`, logs:
  they print what they read.
- argument parsing, layout and rendering, path construction, and the signer's key
  handling and event building, which are straight-line.
- the relay's, systemd's and the operating system's own behaviour, which enters
  only as the choices of the external actions.
