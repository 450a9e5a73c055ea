------------------------------ MODULE Console ------------------------------
(***************************************************************************)
(* The terminal user interface and the command line at one set of files:   *)
(* which community each takes for the active one (resolve_community_id,    *)
(* the pointer, the default of config.toml), what the dashboard's table    *)
(* shows, and what the agent form sends back for the fields it was opened  *)
(* with.  The TUI reads the disk when a screen opens and writes it when a  *)
(* person presses a key later; the command line works in between.          *)
(*                                                                         *)
(* What an update or a delete does besides its record is AgentLifecycle's. *)
(***************************************************************************)
EXTENDS Naturals, FiniteSets

CONSTANTS
  Community, Agent,
  Text,        \* what can be typed into an input or given on the command line
  None,
  Malformed,   \* a config.toml that cannot be loaded
  Starts,      \* what the disk and the environment may be at first
  MaxOutside,  \* bound: changes by others
  MaxKeys,     \* bound: changes in the TUI
  MaxEdits     \* bound: inputs edited in one form

Field == {"text", "list", "prompt", "env", "server", "policy"}

Blank == ""
Mask == "********"
Default == "default"
PersonaFile == {"persona", "cli"}    \* the prompts that are files

\* An agent record: it has a name; other fields may be unset, and no list and
\* no server's name is stored blank.
Server == [name : Text \ {Blank}, env : {None} \cup Text]
Record ==
  [text : Text \ {Blank}, list : {None} \cup (Text \ {Blank}), prompt : {None} \cup Text,
   env : {None} \cup Text, server : {None} \cup Server, policy : {None} \cup Text]

ASSUME ConsoleAssumption ==
  /\ {Blank, Mask, Default, "form", "cli", "split"} \cup PersonaFile \subseteq Text
  /\ None \notin Text /\ None \notin Community \cup Agent
  /\ None \notin Record /\ None \notin Server
  /\ \A start \in Starts :
       /\ start.communities \subseteq Community
       /\ start.agents \in [Community -> [Agent -> {None} \cup Record]]

VARIABLES
  communities, \* those with a file
  pointer,     \* the active-community file
  default,     \* config.toml's default_community
  envVar,      \* BUZZ_FLEET_COMMUNITY
  agents,      \* the agent records: [Community -> [Agent -> record or None]]
  at,          \* the screen on top, or "closed"
  shown,       \* the dashboard's community
  rows,        \* the names its table has
  due,         \* whether its refresh is still to run
  form,        \* what the screen on top was opened with, and what is typed there
  outside, keys,
  meddled,     \* history: others changed which community is active
  foreign      \* history: agents that others changed since the last refresh

disk == <<communities, pointer, default, envVar, agents>>
table == <<shown, rows, due>>
counts == <<outside, keys, meddled, foreign>>
vars == <<disk, at, table, form, counts>>

NoRows == [a \in Agent |-> None]
Closed == [target |-> None, was |-> None, typed |-> None, choices |-> {}]

Init ==
  /\ \E start \in Starts :
       /\ communities = start.communities /\ pointer = start.pointer
       /\ default = start.default /\ envVar = start.envVar
       /\ agents = start.agents
  /\ at = "closed" /\ shown = None /\ rows = NoRows /\ due = FALSE
  /\ form = Closed
  /\ outside = 0 /\ keys = 0
  /\ meddled = FALSE /\ foreign = {}

-----------------------------------------------------------------------------
(* The active community.  None: it raises, and the caller says why. *)

Sole == Cardinality(communities) = 1

Resolve ==
  IF envVar # None THEN envVar
  ELSE IF pointer \in communities THEN pointer
  ELSE IF Sole THEN CHOOSE c \in communities : TRUE
  ELSE IF default \in communities THEN default
  ELSE None

-----------------------------------------------------------------------------
(* Screens. *)

\* No dashboard is there, and none below the screen on top.
NoDashboard(screen) ==
  /\ at' = screen
  /\ shown' = None /\ rows' = NoRows /\ due' = FALSE
  /\ form' = Closed
  /\ foreign' = {}

\* A dashboard is built for a community; its refresh is under way.
Dashboard(c) ==
  /\ at' = "dashboard"
  /\ shown' = c /\ rows' = NoRows /\ due' = TRUE
  /\ form' = Closed
  /\ foreign' = {}

NotRefreshed == UNCHANGED due         \* bug: the table is read at mount only
Refreshed == due' = TRUE

\* The screen above the dashboard is popped: it is resumed.
Pop ==
  /\ at' = "dashboard"
  /\ form' = Closed
  /\ Refreshed
  /\ UNCHANGED <<shown, rows>>

Push(screen, opened) ==
  /\ at' = screen
  /\ form' = opened
  /\ UNCHANGED <<disk, table, counts>>

\* on_mount: no community to show, or one whose file is gone, has one connect.
Launch ==
  /\ at = "closed"
  /\ IF Resolve \in communities
       THEN Dashboard(Resolve)
       ELSE NoDashboard("connect")
  /\ meddled' = FALSE
  /\ UNCHANGED <<disk, outside, keys>>

PointAtNothing(c) == UNCHANGED pointer   \* bug: the choice is not saved
PointAt(c) == pointer' = c

Counted == keys < MaxKeys /\ keys' = keys + 1 /\ UNCHANGED outside

\* Saved, and selected; a key that the relay refuses leaves the screen as it is.
Connect ==
  /\ at = "connect"
  /\ \E c \in Community :
       /\ communities' = communities \cup {c}
       /\ PointAt(c)
       /\ Dashboard(c)
  /\ meddled' = FALSE
  /\ Counted
  /\ UNCHANGED <<default, envVar, agents>>

\* refresh_agents: one worker, which awaits nothing; what it reads is what is
\* shown until the next one.
Refresh ==
  /\ due /\ at # "closed"
  /\ rows' = [a \in Agent |->
       IF shown \notin communities \/ agents[shown][a] = None THEN None
       ELSE agents[shown][a]["text"]]
  /\ due' = FALSE
  /\ foreign' = {}
  /\ UNCHANGED <<disk, at, shown, form, outside, keys, meddled>>

\* The row under the cursor, whose agent must still be there.
Selected(a) ==
  /\ at = "dashboard" /\ rows[a] # None
  /\ shown \in communities /\ agents[shown][a] # None

-----------------------------------------------------------------------------
(* The agent form.  "text" stands for the plain inputs; "list" for inputs    *)
(* that hold a list, separated by commas; "server" for the MCP server, of    *)
(* which the form has no input for the environment; "policy" for selects     *)
(* with a default.                                                           *)

Nothing == [field \in Field |-> None]

\* What the form shows for a field.
Shown(field, value) ==
  CASE field = "prompt" -> IF value \in PersonaFile \cup {None} THEN Blank ELSE value
    [] field = "env"    -> IF value = None THEN Blank ELSE Mask
    [] field = "server" -> IF value = None THEN Blank ELSE value.name
    [] field = "policy" -> IF value = None THEN Default ELSE value
    [] OTHER            -> IF value = None THEN Blank ELSE value

\* An element with a comma comes back as two.
Split(list) == IF list = "commas" THEN "split" ELSE list

\* ... and what it sends back: a mask stands for the value it hides, the MCP
\* server keeps the environment it had.
Sent(field, typed, was) ==
  CASE field = "env" ->
         IF typed = Blank THEN None ELSE IF typed = Mask /\ was # None THEN was ELSE typed
    [] field = "server" ->
         IF typed = Blank THEN None
         ELSE [name |-> typed, env |-> IF was = None THEN None ELSE was.env]
    [] field = "list" -> IF typed = Blank THEN None ELSE Split(typed)
    [] field = "text" -> IF typed = Blank THEN None ELSE typed
    [] OTHER -> typed

Edited == {field \in Field : form.typed[field] # Shown(field, form.was[field])}

SentAlways == Field                   \* bug: the prompt is sent even if untouched
\* The prompt only if it was edited: a persona file is shown as a blank.
SentFields == Field \ ({"prompt"} \ Edited)

\* update_agent's **changes, over the record it loads.
Changed(record) ==
  [field \in Field |->
     IF field \in SentFields THEN Sent(field, form.typed[field], form.was[field]) ELSE record[field]]

NewAgent == [field \in Field |-> Sent(field, form.typed[field], None)]

OpenForm(a, was) ==
  Push("form", [target |-> a, was |-> was, choices |-> {},
                typed |-> [field \in Field |-> Shown(field, was[field])]])

OpenCreate ==
  /\ at = "dashboard" /\ shown \in communities
  /\ OpenForm(None, Nothing)

OpenEdit(a) == Selected(a) /\ OpenForm(a, agents[shown][a])

Type(field) ==
  /\ at = "form" /\ field \notin Edited /\ Cardinality(Edited) < MaxEdits
  /\ \E input \in {"form"} \cup (IF field \in {"env", "server"} THEN {Blank} ELSE {}) :
       form' = [form EXCEPT !.typed[field] = input]
  /\ UNCHANGED <<disk, at, table, counts>>

Put(a, record) == agents' = [agents EXCEPT ![shown][a] = record]

\* create_agent, which refuses a blank name; if the unit cannot be enabled the
\* agent is saved and the application falls over the error.
Create ==
  /\ at = "form" /\ form.target = None /\ form.typed["text"] # Blank
  /\ \E a \in {x \in Agent : agents[shown][x] = None} : Put(a, NewAgent)
  /\ \/ Pop /\ UNCHANGED foreign
     \/ NoDashboard("closed")
  /\ Counted
  /\ UNCHANGED <<communities, pointer, default, envVar, meddled>>

\* update_agent: over what is on the disk now.
Update ==
  /\ at = "form" /\ form.target # None
  /\ agents[shown][form.target] # None
  /\ Put(form.target, Changed(agents[shown][form.target]))
  /\ Pop
  /\ Counted
  /\ UNCHANGED <<communities, pointer, default, envVar, meddled, foreign>>

-----------------------------------------------------------------------------
(* The other screens. *)

OpenConfirm(a) == Selected(a) /\ Push("confirm", [Closed EXCEPT !.target = a])

\* Logs are shown for a row, whether or not its agent is still there.
OpenLogs(a) == at = "dashboard" /\ rows[a] # None /\ Push("logs", [Closed EXCEPT !.target = a])

Delete ==
  /\ at = "confirm" /\ agents[shown][form.target] # None
  /\ Put(form.target, None)
  /\ Pop
  /\ Counted
  /\ UNCHANGED <<communities, pointer, default, envVar, meddled, foreign>>

Cancel ==
  /\ at \in {"form", "confirm", "logs", "picker"}
  /\ Pop
  /\ UNCHANGED <<disk, counts>>

OpenPicker == at = "dashboard" /\ Push("picker", [Closed EXCEPT !.choices = communities])

\* The choice is saved as the active community; another one than the one shown
\* gets a dashboard of its own.
Choose ==
  /\ at = "picker"
  /\ \E c \in form.choices :
       /\ PointAt(c)
       /\ meddled' = (c \notin communities)
       /\ IF c = shown THEN Pop /\ UNCHANGED foreign ELSE Dashboard(c)
  /\ Counted
  /\ UNCHANGED <<communities, default, envVar, agents>>

\* Quit, or an exception that no screen handles: a program that fails, the
\* KeyError of an agent that is gone.
Leave == at # "closed" /\ NoDashboard("closed") /\ UNCHANGED <<disk, outside, keys, meddled>>

-----------------------------------------------------------------------------
(* The command line, and people at the files, meanwhile. *)

Another == outside < MaxOutside /\ outside' = outside + 1 /\ UNCHANGED keys
Elsewhere == UNCHANGED <<at, table, form>>

\* `connect` saves the community and selects nothing.
CliConnect(c) ==
  /\ communities' = communities \cup {c}
  /\ meddled' = TRUE
  /\ UNCHANGED <<pointer, default, envVar, agents, foreign>>

CliUse(c) ==
  /\ c \in communities
  /\ pointer' = c
  /\ meddled' = TRUE
  /\ UNCHANGED <<communities, default, envVar, agents, foreign>>

RemoveByHand(c) ==
  /\ communities' = communities \ {c}
  /\ meddled' = TRUE
  /\ UNCHANGED <<pointer, default, envVar, agents, foreign>>

CliPut(c, a, record) ==
  /\ agents' = [agents EXCEPT ![c][a] = record]
  /\ foreign' = foreign \cup {<<c, a>>}
  /\ UNCHANGED <<communities, pointer, default, envVar, meddled>>

\* The command line's value of a field; it overlays what was passed, no more.
CliValue(field) == IF field = "server" THEN [name |-> "cli", env |-> "cli"] ELSE "cli"

CliCreate(c, a) ==
  /\ c \in communities /\ agents[c][a] = None
  /\ CliPut(c, a, [field \in Field |-> IF field \in {"text", "prompt"} THEN "cli" ELSE None])

CliUpdate(c, a, field) ==
  /\ c \in communities /\ agents[c][a] # None
  /\ CliPut(c, a, [agents[c][a] EXCEPT ![field] = CliValue(field)])

CliDelete(c, a) == c \in communities /\ agents[c][a] # None /\ CliPut(c, a, None)

Outside ==
  /\ Another /\ Elsewhere
  /\ \E c \in Community :
       \/ CliConnect(c) \/ CliUse(c) \/ RemoveByHand(c)
       \/ \E a \in Agent :
            CliCreate(c, a) \/ CliDelete(c, a) \/ \E field \in Field : CliUpdate(c, a, field)

Next ==
  \/ Launch \/ Leave \/ Connect \/ Refresh
  \/ OpenCreate \/ Create \/ Update \/ Delete
  \/ \E a \in Agent : OpenEdit(a) \/ OpenConfirm(a) \/ OpenLogs(a)
  \/ \E field \in Field : Type(field)
  \/ OpenPicker \/ Choose \/ Cancel
  \/ Outside

Spec == Init /\ [][Next]_vars
-----------------------------------------------------------------------------
(* Properties. *)

Screens == {"closed", "connect", "dashboard", "form", "confirm", "logs", "picker"}

TypeOK ==
  /\ communities \subseteq Community
  /\ agents \in [Community -> [Agent -> {None} \cup Record]]
  /\ at \in Screens /\ (at \notin {"closed", "connect"} => shown \in Community)
  /\ rows \in [Agent -> {None} \cup Text]
  /\ due \in BOOLEAN /\ meddled \in BOOLEAN
  /\ form.choices \subseteq Community
  /\ at = "form" =>
       /\ form.target \in Agent \cup {None}
       /\ form.was \in Record \/ (form.target = None /\ form.was = Nothing)
       /\ form.typed \in [Field -> Text]

\* A field that was not edited keeps its value, shown or not, blank or masked:
\* a secret, a persona file, the server's environment (agent_form.py:102-108,
\* :271-275, :425-434, :506-511).  What another process changed since the form
\* opened is overwritten, except for a prompt; a policy that was unset becomes
\* the default, and a list with a comma in an element is split.  Blanks around a
\* value are cut off (:359-368): two values that differ in nothing else are one.
MayLose(field, now, was) ==
  \/ field # "prompt" /\ now # was
  \/ field = "policy" /\ now = None
  \/ field = "list" /\ now = "commas"

EditKeepsTheRest ==
  [][Update =>
       LET now == agents[shown][form.target]  next == agents'[shown][form.target]
       IN  \A field \in Field \ Edited :
             next[field] = now[field] \/ MayLose(field, now[field], form.was[field])]_vars

\* "The CLI and the TUI can never disagree about which community is active"
\* (community_picker.py:3-5): they do not, unless BUZZ_FLEET_COMMUNITY is set or
\* someone else selects, connects or removes a community while the TUI runs.
CliAgrees ==
  at \notin {"closed", "connect"} /\ envVar = None /\ ~meddled => Resolve = shown

\* The table shows what was done in the TUI: whichever way a screen above it
\* was left, a row differs from the disk only where another process changed it
\* since ("without this, a newly created/edited agent never shows up",
\* dashboard.py:97-102).
ShowsOwnChanges ==
  at = "dashboard" /\ ~due =>
    \A a \in Agent :
      \/ rows[a] = (IF agents[shown][a] = None THEN None ELSE agents[shown][a]["text"])
      \/ <<shown, a>> \in foreign \/ meddled
=============================================================================
