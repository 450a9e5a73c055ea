--------------------------- MODULE ConsoleProofs ---------------------------
(***************************************************************************)
(* That the TUI and the command line take the same community for the       *)
(* active one, that the table shows what the TUI did, and that an edit     *)
(* keeps what was not edited, for any communities, agents and contents of  *)
(* the disk and any number of keys and commands.  Two facts join these in  *)
(* the inductive invariant: the community shown has a file, and a form on  *)
(* an agent has a name typed in it.                                        *)
(***************************************************************************)
EXTENDS Console, TLAPS

OnCommunity == at \notin {"closed", "connect"}

\* The dashboard's community is one that is there, unless others removed it.
ShownIsThere == OnCommunity /\ ~meddled => shown \in communities

\* The form of an agent that exists always has a name.
NameIsTyped == at = "form" /\ form.target # None => form.typed["text"] # Blank

\* The screen's argument has all its parts.
FormIsWhole ==
  form = [target |-> form.target, was |-> form.was, typed |-> form.typed, choices |-> form.choices]

IInv ==
  TypeOK /\ FormIsWhole /\ NameIsTyped /\ ShownIsThere /\ CliAgrees /\ ShowsOwnChanges

-----------------------------------------------------------------------------
(* Records and what the form makes of them. *)

\* A record has a value of its type in every field.
LEMMA RecordFields ==
  ASSUME NEW r \in Record
  PROVE  /\ r \in [Field -> Text \cup {None} \cup Server]
         /\ r["text"] \in Text \ {Blank}
         /\ r["list"] \in {None} \cup (Text \ {Blank})
         /\ r["prompt"] \in {None} \cup Text /\ r["env"] \in {None} \cup Text
         /\ r["server"] \in {None} \cup Server /\ r["policy"] \in {None} \cup Text
BY DEF Record, Field

\* ... and whatever has is one.
LEMMA FieldsRecord ==
  ASSUME NEW r \in [Field -> Text \cup {None} \cup Server],
         r["text"] \in Text \ {Blank}, r["list"] \in {None} \cup (Text \ {Blank}),
         r["prompt"] \in {None} \cup Text, r["env"] \in {None} \cup Text,
         r["server"] \in {None} \cup Server, r["policy"] \in {None} \cup Text
  PROVE  r \in Record
BY DEF Record, Field

\* What a form shows can be typed.
LEMMA ShownIsText ==
  ASSUME NEW was, was \in Record \/ was = Nothing, NEW field \in Field
  PROVE  /\ Shown(field, was[field]) \in Text
         /\ was \in Record /\ field = "text" => Shown(field, was[field]) # Blank
<1> DEFINE value == was[field]
<1>1. was \in Record \/ value = None
  BY DEF Nothing
<1>2. Shown("text", value) = IF value = None THEN Blank ELSE value
  BY DEF Shown
<1>3. Shown("list", value) = IF value = None THEN Blank ELSE value
  BY DEF Shown
<1>4. Shown("prompt", value) = IF value \in PersonaFile \cup {None} THEN Blank ELSE value
  BY DEF Shown
<1>5. Shown("env", value) = IF value = None THEN Blank ELSE Mask
  BY DEF Shown
<1>6. Shown("server", value) = IF value = None THEN Blank ELSE value.name
  BY DEF Shown
<1>7. Shown("policy", value) = IF value = None THEN Default ELSE value
  BY DEF Shown
<1>8. Blank \in Text /\ Mask \in Text /\ Default \in Text
  BY ConsoleAssumption
<1> HIDE DEF value
<1>9. CASE field = "text"
  BY <1>1, <1>2, <1>8, <1>9, RecordFields, ConsoleAssumption DEF value
<1>10. CASE field = "list"
  BY <1>1, <1>3, <1>8, <1>10, RecordFields DEF value
<1>11. CASE field = "prompt"
  BY <1>1, <1>4, <1>8, <1>11, RecordFields DEF value
<1>12. CASE field = "env"
  BY <1>1, <1>5, <1>8, <1>12, RecordFields DEF value
<1>13. CASE field = "server"
  BY <1>1, <1>6, <1>8, <1>13, RecordFields DEF value, Server
<1>14. CASE field = "policy"
  BY <1>1, <1>7, <1>8, <1>14, RecordFields DEF value
<1>15. QED BY <1>9, <1>10, <1>11, <1>12, <1>13, <1>14 DEF Field

\* What it sends back is of the field's type, if there is a name in it.
LEMMA SentIsTyped ==
  ASSUME NEW typed \in [Field -> Text], typed["text"] # Blank,
         NEW was, was \in Record \/ was = Nothing
  PROVE  /\ Sent("text", typed["text"], was["text"]) \in Text \ {Blank}
         /\ Sent("list", typed["list"], was["list"]) \in {None} \cup (Text \ {Blank})
         /\ Sent("prompt", typed["prompt"], was["prompt"]) \in Text
         /\ Sent("env", typed["env"], was["env"]) \in {None} \cup Text
         /\ Sent("server", typed["server"], was["server"]) \in {None} \cup Server
         /\ Sent("policy", typed["policy"], was["policy"]) \in Text
<1>1. /\ was["env"] \in {None} \cup Text
      /\ was["server"] \in {None} \cup Server
  BY RecordFields DEF Nothing, Field
<1>2. \A field \in Field : typed[field] \in Text
  OBVIOUS
<1>3. Split(typed["list"]) \in Text /\ (typed["list"] # Blank => Split(typed["list"]) # Blank)
  BY <1>2, ConsoleAssumption DEF Split, Blank, Field
<1>4. Sent("text", typed["text"], was["text"]) \in Text \ {Blank}
  BY <1>2 DEF Sent, Field
<1>5. Sent("list", typed["list"], was["list"]) \in {None} \cup (Text \ {Blank})
  BY <1>3 DEF Sent
<1>6. Sent("prompt", typed["prompt"], was["prompt"]) \in Text
  BY <1>2 DEF Sent, Field
<1>7. Sent("env", typed["env"], was["env"]) \in {None} \cup Text
  BY <1>1, <1>2 DEF Sent, Field
<1>8. Sent("server", typed["server"], was["server"]) \in {None} \cup Server
  BY <1>1, <1>2 DEF Sent, Field, Server
<1>9. Sent("policy", typed["policy"], was["policy"]) \in Text
  BY <1>2 DEF Sent, Field
<1>10. QED BY <1>4, <1>5, <1>6, <1>7, <1>8, <1>9


-----------------------------------------------------------------------------
(* What a step does to the screen. *)

\* A screen opens over the dashboard.
LEMMA PushKeeps ==
  ASSUME IInv, at = "dashboard", NEW screen \in {"form", "confirm", "logs", "picker"},
         NEW opened, Push(screen, opened),
         opened = [target |-> opened.target, was |-> opened.was,
                   typed |-> opened.typed, choices |-> opened.choices],
         opened.choices \subseteq Community,
         screen = "form" =>
           /\ opened.target \in Agent \cup {None}
           /\ opened.was \in Record \/ (opened.target = None /\ opened.was = Nothing)
           /\ opened.typed \in [Field -> Text]
           /\ opened.target # None => opened.typed["text"] # Blank
  PROVE  IInv'
<1>1. at' = screen /\ form' = opened /\ UNCHANGED <<disk, table, counts>>
  BY DEF Push
<1>2. TypeOK'
  BY <1>1 DEF IInv, TypeOK, Screens, disk, table, counts
<1>3. FormIsWhole' /\ NameIsTyped' /\ ShownIsThere'
  BY <1>1 DEF IInv, FormIsWhole, NameIsTyped, ShownIsThere, OnCommunity, disk, table, counts
<1>4. CliAgrees' /\ ShowsOwnChanges'
  BY <1>1 DEF IInv, CliAgrees, Resolve, Sole, ShowsOwnChanges, disk, table, counts
<1>5. QED BY <1>2, <1>3, <1>4 DEF IInv

\* It is left for the dashboard, which is to be refreshed.
LEMMA PopKeeps ==
  ASSUME IInv, at \notin {"closed", "connect"}, Pop,
         UNCHANGED <<communities, pointer, default, envVar, meddled>>,
         agents' \in [Community -> [Agent -> {None} \cup Record]]
  PROVE  IInv'
<1>1. /\ at' = "dashboard" /\ form' = Closed /\ due' = TRUE /\ UNCHANGED <<shown, rows>>
      /\ UNCHANGED <<communities, pointer, default, envVar, meddled>>
  BY DEF Pop, Refreshed
<1>2. TypeOK'
  BY <1>1 DEF IInv, TypeOK, Screens, Closed
<1>3. FormIsWhole' /\ NameIsTyped' /\ ShownIsThere'
  BY <1>1 DEF IInv, FormIsWhole, NameIsTyped, ShownIsThere, OnCommunity, Closed
<1>4. CliAgrees' /\ ShowsOwnChanges'
  BY <1>1 DEF IInv, CliAgrees, Resolve, Sole, ShowsOwnChanges
<1>5. QED BY <1>2, <1>3, <1>4 DEF IInv

\* The program ends, or asks for a community.
LEMMA CloseKeeps ==
  ASSUME NEW screen \in {"closed", "connect"}, NoDashboard(screen),
         communities' \subseteq Community, meddled' \in BOOLEAN,
         agents' \in [Community -> [Agent -> {None} \cup Record]]
  PROVE  IInv'
<1>1. at' = screen /\ rows' = NoRows /\ due' = FALSE /\ form' = Closed
  BY DEF NoDashboard
<1>2. TypeOK'
  BY <1>1 DEF TypeOK, Screens, Closed, NoRows
<1>3. FormIsWhole' /\ NameIsTyped' /\ ShownIsThere' /\ CliAgrees' /\ ShowsOwnChanges'
  BY <1>1 DEF FormIsWhole, NameIsTyped, ShownIsThere, OnCommunity, CliAgrees, ShowsOwnChanges, Closed
<1>4. QED BY <1>2, <1>3 DEF IInv

\* A dashboard is built for the community that is then the active one.
LEMMA DashboardKeeps ==
  ASSUME NEW c \in Community, Dashboard(c),
         communities' \subseteq Community, meddled' \in BOOLEAN,
         agents' \in [Community -> [Agent -> {None} \cup Record]],
         ~meddled' => c \in communities',
         ~meddled' /\ envVar' = None => Resolve' = c
  PROVE  IInv'
<1>1. at' = "dashboard" /\ shown' = c /\ rows' = NoRows /\ due' = TRUE /\ form' = Closed
  BY DEF Dashboard
<1>2. TypeOK'
  BY <1>1 DEF TypeOK, Screens, Closed, NoRows
<1>3. FormIsWhole' /\ NameIsTyped' /\ ShownIsThere' /\ CliAgrees' /\ ShowsOwnChanges'
  BY <1>1 DEF FormIsWhole, NameIsTyped, ShownIsThere, OnCommunity, CliAgrees, ShowsOwnChanges, Closed
<1>4. QED BY <1>2, <1>3 DEF IInv

-----------------------------------------------------------------------------
(* The keys. *)

\* Opening a form, a confirmation, the logs or the picker keeps the invariant.
LEMMA OpenKeeps ==
  ASSUME IInv, OpenCreate \/ OpenPicker \/ \E a \in Agent : OpenEdit(a) \/ OpenConfirm(a) \/ OpenLogs(a)
  PROVE  IInv'
<1> USE DEF Closed
<1>1. at = "dashboard" /\ shown \in Community /\ communities \subseteq Community
  <2>1. at = "dashboard"
    BY DEF OpenCreate, OpenPicker, OpenEdit, OpenConfirm, OpenLogs, Selected
  <2>2. QED BY <2>1 DEF IInv, TypeOK
<1>2. ASSUME NEW a \in Agent \cup {None}, NEW was, OpenForm(a, was),
             was \in Record \/ (a = None /\ was = Nothing)
      PROVE  IInv'
  <2> DEFINE opened == [target |-> a, was |-> was, choices |-> {},
                        typed |-> [field \in Field |-> Shown(field, was[field])]]
  <2>1. Push("form", opened)
    BY <1>2 DEF OpenForm
  <2>2. opened = [target |-> a, was |-> was, choices |-> {}, typed |-> opened.typed]
    OBVIOUS
  <2>3. /\ opened.typed \in [Field -> Text]
        /\ a # None => opened.typed["text"] # Blank
    BY <1>2, <2>2, ShownIsText DEF Field
  <2> HIDE DEF opened
  <2>4. QED BY <1>1, <1>2, <2>1, <2>2, <2>3, PushKeeps
<1>3. CASE OpenCreate
  BY <1>2, <1>3 DEF OpenCreate
<1>4. CASE OpenPicker
  <2> DEFINE opened == [Closed EXCEPT !.choices = communities]
  <2>1. Push("picker", opened)
    BY <1>4 DEF OpenPicker
  <2>2. opened = [target |-> None, was |-> None, typed |-> None, choices |-> communities]
    OBVIOUS
  <2> HIDE DEF opened
  <2>3. QED BY <1>1, <2>1, <2>2, PushKeeps
<1>5. ASSUME NEW a \in Agent, OpenEdit(a) PROVE IInv'
  <2>1. agents[shown][a] \in Record
    BY <1>1, <1>5 DEF OpenEdit, Selected, IInv, TypeOK
  <2>2. QED BY <1>2, <1>5, <2>1 DEF OpenEdit
<1>6. ASSUME NEW a \in Agent, OpenConfirm(a) \/ OpenLogs(a) PROVE IInv'
  <2> DEFINE opened == [Closed EXCEPT !.target = a]
  <2>1. Push("confirm", opened) \/ Push("logs", opened)
    BY <1>6 DEF OpenConfirm, OpenLogs
  <2>2. opened = [target |-> a, was |-> None, typed |-> None, choices |-> {}]
    OBVIOUS
  <2> HIDE DEF opened
  <2>3. QED BY <1>1, <2>1, <2>2, PushKeeps
<1>7. QED BY <1>3, <1>4, <1>5, <1>6


\* Typing into an input keeps it: a name can be changed and not blanked.
LEMMA TypeKeeps ==
  ASSUME IInv, NEW field \in Field, Type(field)
  PROVE  IInv'
<1>1. PICK input \in {"form", Blank} :
        /\ at = "form" /\ form' = [form EXCEPT !.typed[field] = input]
        /\ input = Blank => field # "text"
        /\ UNCHANGED <<disk, at, table, counts>>
  BY DEF Type, Blank
<1>2. input \in Text
  BY ConsoleAssumption
<1>3. /\ form' = [target |-> form.target, was |-> form.was, choices |-> form.choices,
                  typed |-> [form.typed EXCEPT ![field] = input]]
  BY <1>1 DEF IInv, FormIsWhole
<1>4. /\ form'.typed \in [Field -> Text] /\ form'.target = form.target /\ form'.was = form.was
      /\ form'.choices = form.choices
      /\ form.typed["text"] # Blank => form'.typed["text"] # Blank
  <2>1. form.typed \in [Field -> Text]
    BY <1>1 DEF IInv, TypeOK
  <2>2. /\ form'.target = form.target /\ form'.was = form.was /\ form'.choices = form.choices
        /\ form'.typed = [form.typed EXCEPT ![field] = input]
    BY <1>3
  <2>3. form.typed["text"] # Blank => form'.typed["text"] # Blank
    BY <1>1, <2>1, <2>2 DEF Field
  <2>4. QED BY <1>2, <2>1, <2>2, <2>3
<1>5. TypeOK'
  BY <1>1, <1>4 DEF IInv, TypeOK, disk, table, counts
<1>6. FormIsWhole' /\ NameIsTyped' /\ ShownIsThere'
  BY <1>1, <1>3, <1>4
     DEF IInv, FormIsWhole, NameIsTyped, ShownIsThere, OnCommunity, disk, table, counts
<1>7. CliAgrees' /\ ShowsOwnChanges'
  BY <1>1 DEF IInv, CliAgrees, Resolve, Sole, ShowsOwnChanges, disk, table, counts
<1>8. QED BY <1>5, <1>6, <1>7 DEF IInv

\* The agent created has a name, and a value of its type in every field.
LEMMA NewAgentIsRecord ==
  ASSUME form.typed \in [Field -> Text], form.typed["text"] # Blank
  PROVE  NewAgent \in Record
<1>1. \A field \in Field : NewAgent[field] = Sent(field, form.typed[field], Nothing[field])
  BY DEF NewAgent, Nothing
<1> DEFINE value(field) == Sent(field, form.typed[field], Nothing[field])
<1>2. /\ value("text") \in Text \ {Blank} /\ value("list") \in {None} \cup (Text \ {Blank})
      /\ value("prompt") \in Text /\ value("env") \in {None} \cup Text
      /\ value("server") \in {None} \cup Server /\ value("policy") \in Text
  BY SentIsTyped
<1> HIDE DEF value
<1>3. NewAgent = [field \in Field |-> NewAgent[field]]
  BY DEF NewAgent
<1>4. \A field \in Field : NewAgent[field] = value(field)
  BY <1>1 DEF value
<1>5. \A field \in Field : NewAgent[field] \in Text \cup {None} \cup Server
  BY <1>2, <1>4 DEF Field
<1>6. NewAgent \in [Field -> Text \cup {None} \cup Server]
  BY <1>3, <1>5
<1>7. QED BY <1>2, <1>4, <1>6, FieldsRecord DEF Field

\* So has the agent updated.
LEMMA ChangedIsRecord ==
  ASSUME form.typed \in [Field -> Text], form.typed["text"] # Blank, form.was \in Record,
         NEW record \in Record
  PROVE  Changed(record) \in Record
<1> DEFINE value(field) == Sent(field, form.typed[field], form.was[field])
<1>1. /\ value("text") \in Text \ {Blank} /\ value("list") \in {None} \cup (Text \ {Blank})
      /\ value("prompt") \in Text /\ value("env") \in {None} \cup Text
      /\ value("server") \in {None} \cup Server /\ value("policy") \in Text
  BY SentIsTyped
<1>2. \A field \in Field : Changed(record)[field] \in {value(field), record[field]}
  BY DEF Changed
<1> HIDE DEF value
<1>3. Changed(record) = [field \in Field |-> Changed(record)[field]]
  BY DEF Changed
<1>4. \A field \in Field : Changed(record)[field] \in Text \cup {None} \cup Server
  BY <1>1, <1>2, RecordFields DEF Field
<1>5. Changed(record) \in [Field -> Text \cup {None} \cup Server]
  BY <1>3, <1>4
<1>6. QED BY <1>1, <1>2, <1>5, FieldsRecord, RecordFields DEF Field

\* A record is put in one place.
LEMMA PutKeepsTypes ==
  ASSUME TypeOK, NEW c, NEW a, NEW record \in {None} \cup Record,
         agents' = [agents EXCEPT ![c][a] = record]
  PROVE  agents' \in [Community -> [Agent -> {None} \cup Record]]
BY DEF TypeOK

\* Saving, deleting and cancelling keep the invariant.
LEMMA AgentKeysKeep ==
  ASSUME IInv, Create \/ Update \/ Delete \/ Cancel
  PROVE  IInv'
<1>1. CASE Create
  <2>1. /\ at = "form" /\ form.typed["text"] # Blank /\ form.typed \in [Field -> Text]
        /\ UNCHANGED <<communities, pointer, default, envVar, meddled>>
    BY <1>1 DEF Create, IInv, TypeOK
  <2>2. PICK a \in Agent : Put(a, NewAgent)
    BY <1>1 DEF Create
  <2>3. agents' \in [Community -> [Agent -> {None} \cup Record]]
    BY <2>1, <2>2, NewAgentIsRecord, PutKeepsTypes DEF Put, IInv
  <2>4. CASE Pop
    BY <2>1, <2>3, <2>4, PopKeeps
  <2>5. CASE NoDashboard("closed")
    <3>1. communities' \subseteq Community /\ meddled' \in BOOLEAN
      BY <2>1 DEF IInv, TypeOK
    <3>2. QED BY <2>3, <2>5, <3>1, CloseKeeps
  <2>6. QED BY <1>1, <2>4, <2>5 DEF Create
<1>2. CASE Update
  <2>1. /\ at = "form" /\ form.target \in Agent /\ form.typed["text"] # Blank
        /\ form.typed \in [Field -> Text] /\ form.was \in Record /\ shown \in Community
        /\ UNCHANGED <<communities, pointer, default, envVar, meddled>> /\ Pop
    BY <1>2 DEF Update, IInv, TypeOK, NameIsTyped
  <2>2. agents[shown][form.target] \in Record
    BY <1>2, <2>1 DEF Update, IInv, TypeOK
  <2>3. agents' \in [Community -> [Agent -> {None} \cup Record]]
    BY <1>2, <2>1, <2>2, ChangedIsRecord, PutKeepsTypes DEF Update, Put, IInv
  <2>4. QED BY <2>1, <2>3, PopKeeps
<1>3. CASE Delete
  <2>1. agents' \in [Community -> [Agent -> {None} \cup Record]]
    BY <1>3, PutKeepsTypes DEF Delete, Put, IInv
  <2>2. QED BY <1>3, <2>1, PopKeeps DEF Delete
<1>4. CASE Cancel
  <2>1. agents' \in [Community -> [Agent -> {None} \cup Record]]
    BY <1>4 DEF Cancel, disk, IInv, TypeOK
  <2>2. QED BY <1>4, <2>1, PopKeeps DEF Cancel, disk, counts
<1>5. QED BY <1>1, <1>2, <1>3, <1>4

\* Choosing what to show keeps it: the choice is saved before it is shown.
LEMMA CommunityKeysKeep ==
  ASSUME IInv, Launch \/ Connect \/ Choose
  PROVE  IInv'
<1>1. /\ communities \subseteq Community
      /\ agents \in [Community -> [Agent -> {None} \cup Record]]
  BY DEF IInv, TypeOK
<1>2. CASE Launch
  <2>1. /\ UNCHANGED <<communities, pointer, default, envVar, agents>> /\ meddled' = FALSE
        /\ \/ Resolve \in communities /\ Dashboard(Resolve)
           \/ NoDashboard("connect")
    BY <1>2 DEF Launch, disk
  <2>2. Resolve' = Resolve
    BY <2>1 DEF Resolve, Sole
  <2>3. QED BY <1>1, <2>1, <2>2, CloseKeeps, DashboardKeeps
<1>3. CASE Connect
  <2>1. PICK c \in Community : /\ communities' = communities \cup {c} /\ pointer' = c
                               /\ Dashboard(c)
    BY <1>3 DEF Connect, PointAt
  <2>2. meddled' = FALSE /\ UNCHANGED <<default, envVar, agents>>
    BY <1>3 DEF Connect
  <2>3. envVar' = None => Resolve' = c
    BY <2>1 DEF Resolve
  <2>4. QED BY <1>1, <2>1, <2>2, <2>3, DashboardKeeps
<1>4. CASE Choose
  <2>1. PICK c \in form.choices : /\ pointer' = c /\ meddled' = (c \notin communities)
                                  /\ IF c = shown THEN Pop ELSE Dashboard(c)
    BY <1>4 DEF Choose, PointAt
  <2>2. /\ at = "picker" /\ UNCHANGED <<communities, default, envVar, agents>>
        /\ c \in Community
    BY <1>4 DEF Choose, IInv, TypeOK
  <2>3. ~meddled' /\ envVar' = None => Resolve' = c
    BY <2>1, <2>2 DEF Resolve
  <2>4. CASE c # shown
    BY <1>1, <2>1, <2>2, <2>3, <2>4, DashboardKeeps
  <2>5. CASE c = shown
    <3>1. at' = "dashboard" /\ form' = Closed /\ due' = TRUE /\ UNCHANGED <<shown, rows>>
      BY <2>1, <2>5 DEF Pop, Refreshed
    <3>2. TypeOK'
      BY <2>1, <2>2, <3>1 DEF IInv, TypeOK, Screens, Closed
    <3>3. FormIsWhole' /\ NameIsTyped' /\ ShownIsThere' /\ CliAgrees' /\ ShowsOwnChanges'
      BY <2>1, <2>2, <2>3, <2>5, <3>1
         DEF FormIsWhole, NameIsTyped, ShownIsThere, OnCommunity, CliAgrees, ShowsOwnChanges, Closed
    <3>4. QED BY <3>2, <3>3 DEF IInv
  <2>6. QED BY <2>4, <2>5
<1>5. QED BY <1>2, <1>3, <1>4

\* A refresh and the end of the program keep it.
LEMMA RefreshKeeps ==
  ASSUME IInv, Refresh \/ Leave
  PROVE  IInv'
<1>1. CASE Leave
  <2>1. /\ NoDashboard("closed") /\ communities' \subseteq Community /\ meddled' \in BOOLEAN
        /\ agents' \in [Community -> [Agent -> {None} \cup Record]]
    BY <1>1 DEF Leave, disk, IInv, TypeOK
  <2>2. QED BY <2>1, CloseKeeps
<1>2. CASE Refresh
  <2>1. /\ UNCHANGED <<communities, pointer, default, envVar, agents, at, shown, form, meddled>>
        /\ due' = FALSE /\ at # "closed"
        /\ rows' = [a \in Agent |->
             IF shown \notin communities \/ agents[shown][a] = None THEN None
             ELSE agents[shown][a]["text"]]
    BY <1>2 DEF Refresh, disk
  <2>2. \A a \in Agent : shown \in communities /\ agents[shown][a] # None =>
          agents[shown][a]["text"] \in Text
    BY RecordFields DEF IInv, TypeOK
  <2>3. rows' \in [Agent -> {None} \cup Text]
    BY <2>1, <2>2
  <2>4. TypeOK'
    BY <2>1, <2>3 DEF IInv, TypeOK
  <2>5. FormIsWhole' /\ NameIsTyped' /\ ShownIsThere' /\ CliAgrees'
    BY <2>1 DEF IInv, FormIsWhole, NameIsTyped, ShownIsThere, OnCommunity, CliAgrees, Resolve, Sole
  <2>6. ShowsOwnChanges'
    BY <2>1 DEF IInv, ShownIsThere, OnCommunity, ShowsOwnChanges
  <2>7. QED BY <2>4, <2>5, <2>6 DEF IInv
<1>3. QED BY <1>1, <1>2

-----------------------------------------------------------------------------
(* What others do. *)

\* The records the command line writes.
LEMMA CliRecords ==
  /\ [field \in Field |-> IF field \in {"text", "prompt"} THEN "cli" ELSE None] \in Record
  /\ \A r \in Record, field \in Field : [r EXCEPT ![field] = CliValue(field)] \in Record
<1>1. "cli" \in Text \ {Blank} /\ [name |-> "cli", env |-> "cli"] \in Server
  BY ConsoleAssumption DEF Blank, Server
<1>2. [field \in Field |-> IF field \in {"text", "prompt"} THEN "cli" ELSE None] \in Record
  <2> DEFINE r == [field \in Field |-> IF field \in {"text", "prompt"} THEN "cli" ELSE None]
  <2>1. /\ r \in [Field -> Text \cup {None} \cup Server]
        /\ r["text"] = "cli" /\ r["prompt"] = "cli"
        /\ \A field \in {"list", "env", "server", "policy"} : r[field] = None
    BY <1>1 DEF Field
  <2> HIDE DEF r
  <2>2. r \in Record
    BY <1>1, <2>1, FieldsRecord
  <2>3. QED BY <2>2 DEF r
<1>3. ASSUME NEW r \in Record, NEW field \in Field
      PROVE  [r EXCEPT ![field] = CliValue(field)] \in Record
  <2> DEFINE s == [r EXCEPT ![field] = CliValue(field)]
  <2>1. /\ CliValue(field) \in Text \cup Server
        /\ field = "server" => CliValue(field) \in Server
        /\ field # "server" => CliValue(field) \in Text \ {Blank}
    BY <1>1 DEF CliValue
  <2>2. /\ s \in [Field -> Text \cup {None} \cup Server]
        /\ \A g \in Field : s[g] = IF g = field THEN CliValue(field) ELSE r[g]
    BY <2>1, RecordFields
  <2> HIDE DEF s
  <2>3. s \in Record
    BY <2>1, <2>2, FieldsRecord, RecordFields DEF Field
  <2>4. QED BY <2>3 DEF s
<1>4. QED BY <1>2, <1>3

\* Whatever others do to the files, the invariant holds: what the TUI did not
\* see counts as theirs.
LEMMA OutsideKeeps ==
  ASSUME IInv, Outside
  PROVE  IInv'
<1>1. /\ UNCHANGED <<at, shown, rows, due, form>>
      /\ agents \in [Community -> [Agent -> {None} \cup Record]]
  BY DEF Outside, Elsewhere, table, IInv, TypeOK
<1>2. PICK c \in Community :
        \/ CliConnect(c) \/ CliUse(c) \/ RemoveByHand(c)
        \/ \E a \in Agent :
             CliCreate(c, a) \/ CliDelete(c, a) \/ \E field \in Field : CliUpdate(c, a, field)
  BY DEF Outside
<1>3. CASE CliConnect(c) \/ CliUse(c) \/ RemoveByHand(c)
  <2>1. /\ communities' \subseteq Community /\ meddled' = TRUE /\ agents' = agents
        /\ foreign' = foreign
    BY <1>3 DEF CliConnect, CliUse, RemoveByHand, IInv, TypeOK
  <2>2. TypeOK'
    BY <1>1, <2>1 DEF IInv, TypeOK
  <2>3. FormIsWhole' /\ NameIsTyped' /\ ShownIsThere' /\ CliAgrees' /\ ShowsOwnChanges'
    BY <1>1, <2>1
       DEF IInv, FormIsWhole, NameIsTyped, ShownIsThere, OnCommunity, CliAgrees, ShowsOwnChanges
  <2>4. QED BY <2>2, <2>3 DEF IInv
<1>4. ASSUME NEW a \in Agent, NEW record \in {None} \cup Record, CliPut(c, a, record) PROVE IInv'
  <2>1. /\ agents' = [agents EXCEPT ![c][a] = record] /\ foreign' = foreign \cup {<<c, a>>}
        /\ UNCHANGED <<communities, pointer, default, envVar, meddled>>
    BY <1>4 DEF CliPut
  <2>2. agents' \in [Community -> [Agent -> {None} \cup Record]]
    BY <2>1, PutKeepsTypes DEF IInv
  <2>3. \A b \in Community, x \in Agent : <<b, x>> # <<c, a>> => agents'[b][x] = agents[b][x]
    BY <1>1, <2>1
  <2>4. TypeOK'
    BY <1>1, <2>1, <2>2 DEF IInv, TypeOK
  <2>5. FormIsWhole' /\ NameIsTyped' /\ ShownIsThere' /\ CliAgrees'
    BY <1>1, <2>1
       DEF IInv, FormIsWhole, NameIsTyped, ShownIsThere, OnCommunity, CliAgrees, Resolve, Sole
  <2>6. ShowsOwnChanges'
    BY <1>1, <2>1, <2>3 DEF IInv, TypeOK, ShowsOwnChanges
  <2>7. QED BY <2>4, <2>5, <2>6 DEF IInv
<1>5. ASSUME NEW a \in Agent, CliCreate(c, a) \/ CliDelete(c, a) PROVE IInv'
  BY <1>4, <1>5, CliRecords DEF CliCreate, CliDelete
<1>6. ASSUME NEW a \in Agent, NEW field \in Field, CliUpdate(c, a, field) PROVE IInv'
  BY <1>1, <1>4, <1>6, CliRecords DEF CliUpdate
<1>7. QED BY <1>2, <1>3, <1>5, <1>6

-----------------------------------------------------------------------------
\* It holds at the start, and every step keeps it.
LEMMA Inductive == (Init => IInv) /\ (IInv /\ [Next]_vars => IInv')
<1>1. ASSUME Init PROVE IInv
  <2>1. communities \subseteq Community /\ agents \in [Community -> [Agent -> {None} \cup Record]]
    BY <1>1, ConsoleAssumption DEF Init
  <2>2. TypeOK
    BY <1>1, <2>1 DEF Init, TypeOK, Screens, NoRows, Closed
  <2>3. QED BY <1>1, <2>2 DEF Init, IInv, FormIsWhole, NameIsTyped, ShownIsThere, OnCommunity,
                             CliAgrees, ShowsOwnChanges, Closed
<1>2. ASSUME IInv, [Next]_vars PROVE IInv'
  <2>1. CASE UNCHANGED vars
    <3>1. UNCHANGED <<communities, pointer, default, envVar, agents, at, shown, rows, due, form,
                      meddled, foreign>>
      BY <2>1 DEF vars, disk, table, counts
    <3>2. TypeOK' /\ FormIsWhole' /\ NameIsTyped'
      BY <1>2, <3>1 DEF IInv, TypeOK, FormIsWhole, NameIsTyped
    <3>3. ShownIsThere' /\ CliAgrees' /\ ShowsOwnChanges'
      BY <1>2, <3>1 DEF IInv, ShownIsThere, OnCommunity, CliAgrees, Resolve, Sole, ShowsOwnChanges
    <3>4. QED BY <3>2, <3>3 DEF IInv
  <2>2. QED BY <1>2, <2>1, OpenKeeps, TypeKeeps, AgentKeysKeep, CommunityKeysKeep, RefreshKeeps,
               OutsideKeeps DEF Next
<1>3. QED BY <1>1, <1>2


\* A field sent back untouched has the value it had: a mask stands for the
\* secret it hides and the server keeps its environment.
LEMMA UntouchedIsKept ==
  ASSUME NEW was \in Record, NEW field \in Field, field # "prompt",
         ~(field = "policy" /\ was[field] = None), ~(field = "list" /\ was[field] = "commas")
  PROVE  Sent(field, Shown(field, was[field]), was[field]) = was[field]
<1> USE ConsoleAssumption, RecordFields
<1>1. CASE field = "text"
  <2>1. Shown("text", was["text"]) = was["text"] /\ was["text"] # Blank
    BY DEF Shown
  <2>2. QED BY <1>1, <2>1 DEF Sent
<1>2. CASE field = "list"
  <2>1. Shown("list", was["list"]) = IF was["list"] = None THEN Blank ELSE was["list"]
    BY DEF Shown
  <2>2. Sent("list", Shown("list", was["list"]), was["list"]) =
          IF Shown("list", was["list"]) = Blank THEN None ELSE Split(Shown("list", was["list"]))
    BY DEF Sent
  <2>3. was["list"] # "commas" /\ (was["list"] = None \/ was["list"] # Blank)
    BY <1>2
  <2>4. QED BY <1>2, <2>1, <2>2, <2>3 DEF Split
<1>3. CASE field = "env"
  <2>1. Shown("env", was["env"]) = IF was["env"] = None THEN Blank ELSE Mask
    BY DEF Shown
  <2>2. Sent("env", Shown("env", was["env"]), was["env"]) =
          IF Shown("env", was["env"]) = Blank THEN None
          ELSE IF Shown("env", was["env"]) = Mask /\ was["env"] # None THEN was["env"]
          ELSE Shown("env", was["env"])
    BY DEF Sent
  <2>3. Mask # Blank
    BY DEF Mask, Blank
  <2>4. QED BY <1>3, <2>1, <2>2, <2>3
<1>4. CASE field = "server"
  <2>1. Shown("server", was["server"]) = IF was["server"] = None THEN Blank ELSE was["server"].name
    BY DEF Shown
  <2>2. Sent("server", Shown("server", was["server"]), was["server"]) =
          IF Shown("server", was["server"]) = Blank THEN None
          ELSE [name |-> Shown("server", was["server"]),
                env |-> IF was["server"] = None THEN None ELSE was["server"].env]
    BY DEF Sent
  <2>3. was["server"] # None =>
          /\ was["server"].name # Blank
          /\ was["server"] = [name |-> was["server"].name, env |-> was["server"].env]
    BY DEF Server
  <2>4. QED BY <1>4, <2>1, <2>2, <2>3
<1>5. CASE field = "policy"
  <2>1. was["policy"] # None
    BY <1>5
  <2>2. Shown("policy", was["policy"]) = was["policy"]
    BY <2>1 DEF Shown
  <2>3. QED BY <1>5, <2>2 DEF Sent
<1>6. QED BY <1>1, <1>2, <1>3, <1>4, <1>5 DEF Field

\* What every reachable state of the TUI and the disk satisfies.
THEOREM InductiveInvariant == Spec => []IInv
<1>1. QED BY Inductive, PTL DEF Spec

\* Screens, tables and records keep their types; a record never loses its name,
\* whatever is typed (agent_form.py:350-464).
THEOREM TypeCorrect == Spec => []TypeOK
<1>1. IInv => TypeOK
  BY DEF IInv
<1>2. QED BY <1>1, InductiveInvariant, PTL

\* The CLI and the TUI take the same community for the active one while nobody
\* else meddles with it, whatever the disk said before the TUI started
\* (identity.py:32-56, app.py:17-52, community_picker.py:3-5).
THEOREM NeverDisagree == Spec => []CliAgrees
<1>1. IInv => CliAgrees
  BY DEF IInv
<1>2. QED BY <1>1, InductiveInvariant, PTL

\* After its refresh the table has every change made in the TUI
\* (dashboard.py:96-125).
THEOREM TableIsCurrent == Spec => []ShowsOwnChanges
<1>1. IInv => ShowsOwnChanges
  BY DEF IInv
<1>2. QED BY <1>1, InductiveInvariant, PTL

\* Saving the form changes what was edited and, but for the losses MayLose
\* names, nothing else (agent_form.py:350-434).
THEOREM EditsOnlyWhatWasEdited == Spec => EditKeepsTheRest
<1>1. ASSUME IInv, Update, NEW field \in Field \ Edited
      PROVE  \/ agents'[shown][form.target][field] = agents[shown][form.target][field]
             \/ MayLose(field, agents[shown][form.target][field], form.was[field])
  <2> DEFINE now == agents[shown][form.target]
  <2>1. /\ at = "form" /\ form.target \in Agent /\ shown \in Community
        /\ form.was \in Record /\ now # None
        /\ agents \in [Community -> [Agent -> {None} \cup Record]]
        /\ agents' = [agents EXCEPT ![shown][form.target] = Changed(now)]
    BY <1>1 DEF Update, Put, IInv, TypeOK
  <2>2. agents'[shown][form.target] = Changed(now)
    BY <2>1
  <2>3. form.typed[field] = Shown(field, form.was[field])
    BY DEF Edited
  <2>4. Changed(now)[field] = IF field \in SentFields
          THEN Sent(field, Shown(field, form.was[field]), form.was[field]) ELSE now[field]
    BY <2>3 DEF Changed
  <2> HIDE DEF now
  <2>5. CASE field = "prompt"
    <3>1. field \notin SentFields
      BY <2>5 DEF SentFields
    <3>2. QED BY <2>2, <2>4, <3>1 DEF now
  <2>6. CASE field # "prompt" /\ now[field] # form.was[field]
    BY <2>6 DEF MayLose, now
  <2>7. CASE field # "prompt" /\ now[field] = form.was[field]
    <3>1. CASE (field = "policy" /\ now[field] = None) \/ (field = "list" /\ now[field] = "commas")
      BY <3>1 DEF MayLose, now
    <3>2. CASE ~((field = "policy" /\ now[field] = None) \/ (field = "list" /\ now[field] = "commas"))
      <4>1. Sent(field, Shown(field, form.was[field]), form.was[field]) = form.was[field]
        BY <2>1, <2>7, <3>2, UntouchedIsKept
      <4>2. QED BY <2>2, <2>4, <2>7, <4>1 DEF now
    <3>3. QED BY <3>1, <3>2
  <2>8. QED BY <2>5, <2>6, <2>7
<1>2. ASSUME IInv, [Next]_vars
      PROVE  [Update =>
                LET now == agents[shown][form.target]  next == agents'[shown][form.target]
                IN  \A field \in Field \ Edited :
                      next[field] = now[field] \/ MayLose(field, now[field], form.was[field])]_vars
  BY <1>1, <1>2
<1>3. QED BY <1>2, InductiveInvariant, PTL DEF Spec, EditKeepsTheRest

=============================================================================
