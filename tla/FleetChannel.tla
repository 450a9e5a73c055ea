---------------------------- MODULE FleetChannel ----------------------------
(***************************************************************************)
(* How a community's machines come to share one fleet record:              *)
(* `fleet init` writes it, once, into the "about" of a channel on the      *)
(* relay; every other command looks for it there and caches it in the      *)
(* machine's community file (AgentManager.init_fleet_channel and           *)
(* ensure_fleet_record); `connect` rewrites that file.  Commands run on    *)
(* several machines at once, any call may fail, also after it took effect, *)
(* and any command may be stopped.                                         *)
(*                                                                         *)
(* A record is known by the command that minted it.  All machines are      *)
(* connected to one relay as one owner; nobody archives a channel or edits *)
(* its "about" by hand.                                                    *)
(***************************************************************************)
EXTENDS Naturals, FiniteSets

CONSTANTS
  Machine, Channel,
  Command,
  Kind, On, \* what each command does and the machine it runs on
  Plain,    \* channels that people had before, none of them the fleet's
  None

Kinds == {"init", "learn", "connect"}
Record == {c \in Command : Kind[c] = "init"}

ASSUME FleetAssumption ==
  /\ Kind \in [Command -> Kinds] /\ On \in [Command -> Machine]
  /\ Plain \subseteq Channel /\ IsFiniteSet(Channel)
  /\ None \notin Channel \cup Command
ASSUME CacheAssumption == None \notin Channel \X Record

VARIABLES
  made,    \* channels on the relay
  about,   \* the record each channel's "about" holds
  cached,  \* what each machine's community file says: <<channel, record>>
  at,      \* where each command is, the channel and the record it has in hand
  named,   \* channels the operator was told to adopt
  flight,  \* writes of an "about" that the relay may still get
  lost,    \* history: channels inits left without telling their names
  muddled  \* history: inits overlapped, or a write arrived after its failure

vars == <<made, about, cached, at, named, flight, lost, muddled>>

Ended == {"done", "refused", "failed"}
Running(c) == at[c].phase \notin Ended \cup {"idle"}

Init ==
  /\ made = Plain
  /\ about = [h \in Channel |-> None]
  /\ cached = [m \in Machine |-> None]
  /\ at = [c \in Command |-> [phase |-> "idle", found |-> None]]
  /\ named = {} /\ flight = {} /\ lost = {}
  /\ muddled = FALSE

Goto(c, phase, found) == at' = [at EXCEPT ![c] = [phase |-> phase, found |-> found]]

\* The community file is loaded; a learner that finds a record there is done.
Begin(c) ==
  /\ at[c].phase = "idle" /\ Kind[c] # "connect"
  /\ IF Kind[c] = "learn" /\ cached[On[c]] # None
       THEN Goto(c, "done", cached[On[c]])
       ELSE Goto(c, "look", None)
  /\ muddled' = (muddled \/ (Kind[c] = "init" /\ \E d \in Record : Running(d)))
  /\ UNCHANGED <<made, about, cached, named, flight, lost>>

\* connect_and_save: its checks of the relay and the key may fail; it will
\* write what it now loads.
Connect(c) ==
  /\ at[c].phase = "idle" /\ Kind[c] = "connect"
  /\ Goto(c, "failed", None) \/ Goto(c, "save", cached[On[c]])
  /\ UNCHANGED <<made, about, cached, named, flight, lost, muddled>>

-----------------------------------------------------------------------------
(* Looking for the record. *)

Metadata == {<<h, about[h]>> : h \in made}
Seen == {found \in Metadata : found[2] # None}

Learn(c) ==
  \/ Seen = {} /\ Goto(c, "done", None)
  \/ Cardinality(Seen) = 1 /\ \E found \in Seen : Goto(c, "save", found)
  \/ Cardinality(Seen) > 1 /\ Goto(c, "failed", None)

GoOnUnlessCached(c) ==        \* bug: only this machine's file is looked at
  IF cached[On[c]] = None THEN Goto(c, "create", None) ELSE Goto(c, "refused", None)

\* A record anywhere, or several, and init refuses.
GoOn(c) ==
  IF Seen = {} THEN Goto(c, "create", None) ELSE Goto(c, "refused", None)

Look(c) ==
  /\ at[c].phase = "look"
  /\ \/ Goto(c, "failed", None)
     \/ Kind[c] = "learn" /\ Learn(c)
     \/ Kind[c] = "init" /\ GoOn(c)
  /\ UNCHANGED <<made, about, cached, named, flight, lost, muddled>>

-----------------------------------------------------------------------------
(* fleet init. *)

\* `--channel`: what an earlier error named, or a channel of the operator's.
Adopt(c) ==
  /\ at[c].phase = "create"
  /\ \E h \in IF named # {} THEN named ELSE Plain : Goto(c, "write", <<h, c>>)
  /\ UNCHANGED <<made, about, cached, named, flight, lost, muddled>>

\* create_channel: an answer that is lost leaves a channel nobody can name,
\* now or when the event arrives.
Create(c) ==
  /\ at[c].phase = "create" /\ named = {}
  /\ \E h \in Channel \ made :
       \/ made' = made \cup {h} /\ Goto(c, "write", <<h, c>>) /\ UNCHANGED lost
       \/ made' = made \cup {h} /\ Goto(c, "failed", None) /\ lost' = lost \cup {h}
       \/ Goto(c, "failed", None) /\ UNCHANGED <<made, lost>>
  /\ UNCHANGED <<about, cached, named, flight, muddled>>

NotNamed(h) == UNCHANGED named   \* bug: the error is passed on as it is
Named(h) == named' = named \cup {h}

Written(h, c) == about' = [about EXCEPT ![h] = c] /\ UNCHANGED flight
\* A write that fails may have been done, or be on its way.
Failing(h, c) ==
  \/ UNCHANGED <<about, flight>>
  \/ Written(h, c)
  \/ flight' = flight \cup {<<h, c>>} /\ UNCHANGED about

\* write_channel_about: if it fails the channel is named in the error, unless
\* the command is killed, or ends with what is not caught there (manager.py:185:
\* an answer that is not JSON or lacks a key).
WriteAbout(c) ==
  /\ at[c].phase = "write"
  /\ LET h == at[c].found[1] IN
     \/ Written(h, c) /\ Goto(c, "save", at[c].found) /\ UNCHANGED <<named, lost>>
     \/ Failing(h, c) /\ Goto(c, "failed", None) /\ Named(h) /\ UNCHANGED lost
     \/ Failing(h, c) /\ Goto(c, "failed", None) /\ lost' = lost \cup {h} /\ UNCHANGED named
  /\ UNCHANGED <<made, cached, muddled>>

Land(h, c) ==
  /\ <<h, c>> \in flight
  /\ flight' = flight \ {<<h, c>>}
  /\ about' = [about EXCEPT ![h] = c]
  /\ muddled' = TRUE
  /\ UNCHANGED <<made, cached, at, named, lost>>

Remember(c) == cached' = [cached EXCEPT ![On[c]] = at[c].found]
\* The disk may be full; a learner has its record all the same.
Save(c) ==
  /\ at[c].phase = "save"
  /\ \/ Remember(c) /\ Goto(c, "done", at[c].found)
     \/ Goto(c, IF Kind[c] = "learn" THEN "done" ELSE "failed", at[c].found) /\ UNCHANGED cached
  /\ UNCHANGED <<made, about, named, flight, lost, muddled>>

Stop(c) ==
  /\ at[c].phase \in {"look", "save"}
  /\ Goto(c, "failed", None)
  /\ UNCHANGED <<made, about, cached, named, flight, lost, muddled>>

Next ==
  \/ \E c \in Command :
       Begin(c) \/ Connect(c) \/ Look(c) \/ Adopt(c) \/ Create(c) \/ WriteAbout(c) \/ Save(c) \/ Stop(c)
  \/ \E h \in Channel, c \in Command : Land(h, c)

Spec == Init /\ [][Next]_vars
-----------------------------------------------------------------------------
(* Properties. *)

\* "once per community" (manager.py:151): however inits fail, are killed and run
\* again, from whatever machine, what any machine has cached is the record on
\* the relay, and there is no other.  ("Never run `fleet init` a second time",
\* README.md:537: not if two run at once.)
OneRecordForAll ==
  ~muddled =>
    /\ Cardinality(Seen) <= 1
    /\ \A m \in Machine : cached[m] # None => cached[m] \in Seen

\* A retry does not create "a SECOND channel and leave the first as permanent
\* debris" (manager.py:174-180): inits that follow each other make one channel,
\* not counting those whose making could not be told.
NoDebris == ~muddled => Cardinality(made \ (Plain \cup lost)) <= 1
=============================================================================
