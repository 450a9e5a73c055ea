------------------------- MODULE FleetChannelProofs -------------------------
(***************************************************************************)
(* What a community's machines may rely on about its fleet channel: that   *)
(* there is one, with one record (FleetChannel), and that what they read   *)
(* of it is all of it (PagedFetch, the second part).                       *)
(*                                                                         *)
(* The first part holds for any machines, channels and commands, however   *)
(* inits fail and are repeated, unless two overlap or a write arrives      *)
(* after its failure.  The inductive invariant says that an init which may *)
(* still write found no record, and that what any command has in hand to   *)
(* cache is the record on the relay.                                       *)
(***************************************************************************)
EXTENDS FleetChannel, PagedFetch, FiniteSetTheorems, TLAPS

Phase == {"idle", "look", "create", "write", "save"} \cup Ended
Found == Channel \X Record

\* No type invariant is among the properties of the run: this is one.
TypeOK ==
  /\ made \subseteq Channel /\ Plain \subseteq made
  /\ about \in [Channel -> Record \cup {None}]
  /\ cached \in [Machine -> Found \cup {None}]
  /\ at \in [Command -> [phase : Phase, found : Found \cup {None}]]
  /\ named \subseteq made /\ flight \subseteq made \X Record
  /\ lost \subseteq Channel /\ muddled \in BOOLEAN

\* Only an init makes and writes; what it writes is its own record, into a
\* channel that exists.  A channel that does not exist has no record.
WritesItsOwn ==
  /\ \A c \in Command : at[c].phase \in {"create", "write"} => c \in Record
  /\ \A c \in Command : at[c].phase = "write" =>
       at[c].found[1] \in made /\ at[c].found = <<at[c].found[1], c>>
  /\ \A h \in Channel \ made : about[h] = None

\* Inits follow each other, and one that may still write found no record.
OneInitAtATime ==
  /\ \A c, d \in Record : Running(c) /\ Running(d) => c = d
  /\ \A c \in Record : at[c].phase \in {"create", "write"} => Seen = {}

\* There is one record, and it is what is cached or about to be.
OneRecord ==
  /\ \A x, y \in Seen : x = y
  /\ \A m \in Machine : cached[m] # None => cached[m] \in Seen
  /\ \A c \in Command : at[c].phase = "save" /\ at[c].found # None => at[c].found \in Seen

\* A channel that was made is lost, or known from its record or by its name, or
\* its init is still to write to it; and there is one.
Debris == made \ (Plain \cup lost)
OneChannel ==
  /\ \A x, y \in Debris : x = y
  /\ named = {} /\ Seen = {} =>
       \A h \in Debris : \E c \in Record : at[c].phase = "write" /\ at[c].found[1] = h

IInv == TypeOK /\ WritesItsOwn /\ (~muddled => OneInitAtATime /\ OneRecord /\ OneChannel)

-----------------------------------------------------------------------------
\* What is seen on the relay are records, each with its channel.
LEMMA SeenFacts ==
  ASSUME TypeOK
  PROVE  /\ Seen \subseteq Found /\ None \notin Seen /\ None \notin Record
         /\ \A h \in made : about[h] # None => <<h, about[h]>> \in Seen
         /\ \A x \in Seen : x[1] \in made /\ about[x[1]] = x[2] /\ x[2] # None
<1>1. \A x \in Seen : \E h \in made : x = <<h, about[h]>> /\ about[h] # None
  BY DEF Seen, Metadata
<1>2. \A h \in made : about[h] # None => <<h, about[h]>> \in Seen
  BY DEF Seen, Metadata
<1>3. Seen \subseteq Found BY <1>1 DEF TypeOK, Found
<1>4. None \notin Seen BY <1>3, CacheAssumption DEF Found
<1>5. None \notin Record BY FleetAssumption DEF Record
<1> QED BY <1>1, <1>2, <1>3, <1>4, <1>5

\* One command moves on; the others stay where they are.
LEMMA GotoMoves ==
  ASSUME TypeOK, NEW c \in Command, NEW phase \in Phase, NEW found \in Found \cup {None},
         Goto(c, phase, found)
  PROVE  /\ at' \in [Command -> [phase : Phase, found : Found \cup {None}]]
         /\ at'[c].phase = phase /\ at'[c].found = found
         /\ \A d \in Command \ {c} : at'[d] = at[d]
BY DEF TypeOK, Goto

\* A command that touches neither relay nor names goes on: it was writing
\* nothing, it will write only if there is no record, and what it caches or will
\* cache is the record that is there.
LEMMA MovesOn ==
  ASSUME IInv, NEW c \in Command, NEW phase \in Phase, NEW found \in Found \cup {None},
         Goto(c, phase, found), UNCHANGED <<made, about, named, flight, lost>>,
         muddled' \in BOOLEAN, muddled => muddled',
         cached' \in [Machine -> Found \cup {None}],
         \A m \in Machine : \/ cached'[m] \in {None, cached[m]}
                            \/ muddled' \/ cached'[m] \in Seen,
         at[c].phase # "write",
         phase \in {"create", "write"} => c \in Record /\ (muddled' \/ Seen = {}),
         phase = "write" => found[1] \in made /\ found = <<found[1], c>>,
         phase = "save" => found = None \/ muddled' \/ found \in Seen,
         c \in Record /\ phase \notin Ended \cup {"idle"} =>
           Running(c) \/ muddled' \/ \A d \in Record : ~Running(d)
  PROVE  IInv'
<1>1. /\ at' \in [Command -> [phase : Phase, found : Found \cup {None}]]
      /\ at'[c].phase = phase /\ at'[c].found = found
      /\ \A d \in Command \ {c} : at'[d] = at[d]
  BY GotoMoves DEF IInv
<1>2. Seen' = Seen BY DEF Seen, Metadata
<1>3. Debris' = Debris BY DEF Debris
<1>4. Record \subseteq Command BY DEF Record
<1>5. TypeOK' BY <1>1 DEF IInv, TypeOK
<1>6. WritesItsOwn' BY <1>1 DEF IInv, WritesItsOwn
<1>7. ASSUME ~muddled' PROVE OneInitAtATime' /\ OneRecord' /\ OneChannel'
  <2>1. OneInitAtATime /\ OneRecord /\ OneChannel BY <1>7 DEF IInv
  <2>2. OneInitAtATime'
    <3>1. \A d \in Record : d # c => (Running(d)' <=> Running(d)) BY <1>1, <1>4 DEF Running
    <3>2. Running(c)' <=> phase \notin Ended \cup {"idle"} BY <1>1 DEF Running
    <3>3. \A d, e \in Record : Running(d)' /\ Running(e)' => d = e
      BY <1>7, <2>1, <3>1, <3>2 DEF OneInitAtATime
    <3>4. \A d \in Record : at'[d].phase \in {"create", "write"} => Seen = {}
      BY <1>1, <1>4, <1>7, <2>1 DEF OneInitAtATime
    <3> QED BY <1>2, <3>3, <3>4 DEF OneInitAtATime
  <2>3. OneRecord' BY <1>1, <1>2, <1>7, <2>1 DEF OneRecord
  <2>4. OneChannel'
    <3>1. ASSUME named = {}, Seen = {}, NEW h \in Debris
          PROVE  \E d \in Record : at'[d].phase = "write" /\ at'[d].found[1] = h
      <4>1. PICK d \in Record : at[d].phase = "write" /\ at[d].found[1] = h
        BY <2>1, <3>1 DEF OneChannel
      <4> QED BY <1>1, <1>4, <4>1
    <3> QED BY <1>2, <1>3, <2>1, <3>1 DEF OneChannel
  <2> QED BY <2>2, <2>3, <2>4
<1> QED BY <1>5, <1>6, <1>7 DEF IInv

LEMMA BeginStep ==
  ASSUME IInv, NEW c \in Command, Begin(c)
  PROVE  IInv'
<1>1. /\ at[c].phase = "idle" /\ UNCHANGED <<made, about, cached, named, flight, lost>>
      /\ muddled' = (muddled \/ (Kind[c] = "init" /\ \E d \in Record : Running(d)))
  BY DEF Begin
<1>2. cached \in [Machine -> Found \cup {None}] /\ muddled \in BOOLEAN BY DEF IInv, TypeOK
<1>3. muddled' \in BOOLEAN /\ (muddled => muddled') BY <1>1, <1>2
<1>4. c \in Record => muddled' \/ \A d \in Record : ~Running(d) BY <1>1 DEF Record
<1>5. CASE Goto(c, "done", cached[On[c]])
  <2>1. cached[On[c]] \in Found \cup {None} BY <1>2, FleetAssumption
  <2>2. "done" \in Phase /\ "done" \in Ended BY DEF Phase, Ended
  <2> QED BY <1>1, <1>2, <1>3, <1>5, <2>1, <2>2, MovesOn
<1>6. CASE Goto(c, "look", None)
  <2>1. "look" \in Phase BY DEF Phase
  <2> QED BY <1>1, <1>2, <1>3, <1>4, <1>6, <2>1, MovesOn
<1> QED BY <1>5, <1>6 DEF Begin

LEMMA ConnectStep ==
  ASSUME IInv, NEW c \in Command, Connect(c)
  PROVE  IInv'
<1>1. /\ at[c].phase = "idle" /\ Kind[c] = "connect"
      /\ UNCHANGED <<made, about, cached, named, flight, lost, muddled>>
  BY DEF Connect
<1>2. cached \in [Machine -> Found \cup {None}] /\ muddled \in BOOLEAN /\ c \notin Record
  BY <1>1 DEF IInv, TypeOK, Record
<1>3. CASE Goto(c, "failed", None)
  <2>1. "failed" \in Phase /\ "failed" \in Ended BY DEF Phase, Ended
  <2> QED BY <1>1, <1>2, <1>3, <2>1, MovesOn
<1>4. CASE Goto(c, "save", cached[On[c]])
  <2>1. cached[On[c]] \in Found \cup {None} BY <1>2, FleetAssumption
  <2>2. cached[On[c]] = None \/ muddled \/ cached[On[c]] \in Seen
    BY FleetAssumption DEF IInv, OneRecord
  <2>3. "save" \in Phase BY DEF Phase
  <2> QED BY <1>1, <1>2, <1>4, <2>1, <2>2, <2>3, MovesOn
<1> QED BY <1>3, <1>4 DEF Connect

LEMMA LookStep ==
  ASSUME IInv, NEW c \in Command, Look(c)
  PROVE  IInv'
<1>1. /\ at[c].phase = "look"
      /\ UNCHANGED <<made, about, cached, named, flight, lost, muddled>>
  BY DEF Look
<1>2. /\ cached \in [Machine -> Found \cup {None}] /\ muddled \in BOOLEAN /\ Running(c)
      /\ Seen \subseteq Found
  BY <1>1, SeenFacts DEF IInv, TypeOK, Running, Ended
<1>3. {"failed", "done", "save", "create", "refused"} \subseteq Phase BY DEF Phase, Ended
<1>4. CASE \E phase \in {"failed", "done", "refused"} : Goto(c, phase, None)
  BY <1>1, <1>2, <1>3, <1>4, MovesOn
<1>5. CASE \E found \in Seen : Goto(c, "save", found)
  BY <1>1, <1>2, <1>3, <1>5, MovesOn
<1>6. CASE Kind[c] = "init" /\ Seen = {} /\ Goto(c, "create", None)
  <2>1. c \in Record BY <1>6 DEF Record
  <2> QED BY <1>1, <1>2, <1>3, <1>6, <2>1, MovesOn
<1> QED BY <1>4, <1>5, <1>6 DEF Look, Learn, GoOn

LEMMA AdoptStep ==
  ASSUME IInv, NEW c \in Command, Adopt(c)
  PROVE  IInv'
<1>1. /\ at[c].phase = "create"
      /\ UNCHANGED <<made, about, cached, named, flight, lost, muddled>>
  BY DEF Adopt
<1>2. PICK h \in made : Goto(c, "write", <<h, c>>) BY DEF Adopt, IInv, TypeOK
<1>3. /\ cached \in [Machine -> Found \cup {None}] /\ muddled \in BOOLEAN /\ h \in Channel
  BY DEF IInv, TypeOK
<1>4. c \in Record /\ Running(c) /\ (muddled \/ Seen = {})
  BY <1>1 DEF IInv, WritesItsOwn, OneInitAtATime, Running, Ended
<1>5. <<h, c>> \in Found /\ <<h, c>>[1] = h BY <1>3, <1>4 DEF Found
<1>6. "write" \in Phase BY DEF Phase
<1> QED BY <1>1, <1>2, <1>3, <1>4, <1>5, <1>6, MovesOn

LEMMA SaveStep ==
  ASSUME IInv, NEW c \in Command, Save(c)
  PROVE  IInv'
<1>1. /\ at[c].phase = "save"
      /\ UNCHANGED <<made, about, named, flight, lost, muddled>>
  BY DEF Save
<1>2. /\ cached \in [Machine -> Found \cup {None}] /\ muddled \in BOOLEAN
      /\ at[c].found \in Found \cup {None}
  BY DEF IInv, TypeOK
<1>3. {"done", "failed"} \subseteq Phase /\ {"done", "failed"} \subseteq Ended
  BY DEF Phase, Ended
<1>4. CASE Remember(c) /\ Goto(c, "done", at[c].found)
  <2>1. cached' = [cached EXCEPT ![On[c]] = at[c].found] BY <1>4 DEF Remember
  <2>2. at[c].found = None \/ muddled \/ at[c].found \in Seen
    BY <1>1 DEF IInv, OneRecord
  <2>3. cached' \in [Machine -> Found \cup {None}] BY <1>2, <2>1
  <2>4. \A m \in Machine : cached'[m] \in {None, cached[m]} \/ muddled' \/ cached'[m] \in Seen
    BY <1>1, <1>2, <2>1, <2>2
  <2> QED BY <1>1, <1>2, <1>3, <1>4, <2>3, <2>4, MovesOn
<1>5. CASE \E phase \in {"done", "failed"} :
             Goto(c, phase, at[c].found) /\ UNCHANGED cached
  BY <1>1, <1>2, <1>3, <1>5, MovesOn
<1> QED BY <1>4, <1>5 DEF Save

LEMMA StopStep ==
  ASSUME IInv, NEW c \in Command, Stop(c)
  PROVE  IInv'
<1>1. "failed" \in Phase /\ "failed" \in Ended BY DEF Phase, Ended
<1>2. cached \in [Machine -> Found \cup {None}] /\ muddled \in BOOLEAN BY DEF IInv, TypeOK
<1> QED BY <1>1, <1>2, MovesOn DEF Stop

\* While a command makes a channel no other init runs, so none is left over.
LEMMA NothingLeftOver ==
  ASSUME IInv, ~muddled, NEW c \in Command, at[c].phase = "create", named = {}
  PROVE  Seen = {} /\ Debris = {}
<1>1. c \in Record /\ Running(c) BY DEF IInv, WritesItsOwn, Running, Ended
<1>2. Seen = {} BY <1>1 DEF IInv, OneInitAtATime
<1>3. ASSUME NEW d \in Record, at[d].phase = "write" PROVE FALSE
  <2>1. Running(d) BY <1>3 DEF Running, Ended
  <2> QED BY <1>1, <1>3, <2>1 DEF IInv, OneInitAtATime
<1>4. Debris = {} BY <1>2, <1>3 DEF IInv, OneChannel
<1> QED BY <1>2, <1>4

LEMMA CreateStep ==
  ASSUME IInv, NEW c \in Command, Create(c)
  PROVE  IInv'
<1>1. PICK h \in Channel \ made :
        \/ made' = made \cup {h} /\ Goto(c, "write", <<h, c>>) /\ UNCHANGED lost
        \/ made' = made \cup {h} /\ Goto(c, "failed", None) /\ lost' = lost \cup {h}
        \/ Goto(c, "failed", None) /\ UNCHANGED <<made, lost>>
  BY DEF Create
<1>2. /\ at[c].phase = "create" /\ named = {}
      /\ UNCHANGED <<about, cached, named, flight, muddled>>
  BY DEF Create
<1>3. c \in Record /\ Running(c) BY <1>2 DEF IInv, WritesItsOwn, Running, Ended
<1>4. {"write", "failed"} \subseteq Phase /\ "failed" \in Ended BY DEF Phase, Ended
<1>5. CASE Goto(c, "failed", None) /\ UNCHANGED <<made, lost>>
  <2>1. cached \in [Machine -> Found \cup {None}] /\ muddled \in BOOLEAN BY DEF IInv, TypeOK
  <2> QED BY <1>2, <1>4, <1>5, <2>1, MovesOn
<1>6. ASSUME NEW phase \in {"write", "failed"}, NEW found \in Found \cup {None},
             Goto(c, phase, found), made' = made \cup {h},
             \/ phase = "write" /\ found = <<h, c>> /\ lost' = lost
             \/ phase = "failed" /\ lost' = lost \cup {h}
      PROVE  IInv'
  <2>1. /\ at' \in [Command -> [phase : Phase, found : Found \cup {None}]]
        /\ at'[c].phase = phase /\ at'[c].found = found
        /\ \A d \in Command \ {c} : at'[d] = at[d]
    BY <1>4, <1>6, GotoMoves DEF IInv
  <2>2. Record \subseteq Command BY DEF Record
  <2>3. about[h] = None BY DEF IInv, WritesItsOwn
  <2>4. Seen' = Seen BY <1>2, <1>6, <2>3 DEF Seen, Metadata
  <2>5. TypeOK' BY <1>2, <1>6, <2>1 DEF IInv, TypeOK
  <2>6. WritesItsOwn' BY <1>2, <1>3, <1>6, <2>1 DEF IInv, WritesItsOwn
  <2>7. ASSUME ~muddled' PROVE OneInitAtATime' /\ OneRecord' /\ OneChannel'
    <3>1. /\ OneInitAtATime /\ OneRecord /\ OneChannel /\ Seen = {} /\ Debris = {}
      BY <1>2, <2>7, NothingLeftOver DEF IInv
    <3>2. OneInitAtATime'
      <4>1. \A d \in Record : d # c => (Running(d)' <=> Running(d)) BY <2>1, <2>2 DEF Running
      <4> QED BY <1>3, <2>4, <3>1, <4>1 DEF OneInitAtATime
    <3>3. OneRecord' BY <1>2, <1>6, <2>1, <2>4, <3>1 DEF OneRecord
    <3>4. OneChannel'
      <4>1. Debris' \subseteq {h} BY <1>6, <3>1 DEF Debris
      <4>2. phase = "failed" => Debris' = {} BY <1>6, <4>1 DEF Debris
      <4> QED BY <1>3, <1>6, <2>1, <4>1, <4>2 DEF OneChannel
    <3> QED BY <3>2, <3>3, <3>4
  <2> QED BY <2>5, <2>6, <2>7 DEF IInv
<1>7. <<h, c>> \in Found BY <1>3 DEF Found
<1> QED BY <1>1, <1>5, <1>6, <1>7

\* A write that succeeds makes the one record; one that fails has left the
\* channel named or lost, whether it was done or not.
LEMMA WriteAboutStep ==
  ASSUME IInv, NEW c \in Command, WriteAbout(c)
  PROVE  IInv'
<1> DEFINE h == at[c].found[1]
<1>1. at[c].phase = "write" /\ UNCHANGED <<made, cached, muddled>> BY DEF WriteAbout
<1>2. c \in Record /\ Running(c) /\ h \in made /\ at[c].found = <<h, c>>
  BY <1>1 DEF IInv, WritesItsOwn, Running, Ended
<1>3. <<h, c>> \in Found /\ h \in Channel /\ {"save", "failed"} \subseteq Phase
  BY <1>2 DEF IInv, TypeOK, Found, Phase, Ended
<1>4. PICK phase \in {"save", "failed"}, found \in Found \cup {None} :
        /\ Goto(c, phase, found)
        /\ \/ about' = about /\ phase = "failed"
           \/ about' = [about EXCEPT ![h] = c]
        /\ phase = "save" => found = <<h, c>>
        /\ flight' \in {flight, flight \cup {<<h, c>>}}
        /\ \/ phase = "save" /\ UNCHANGED <<named, lost>>
           \/ phase = "failed" /\ named' = named \cup {h} /\ UNCHANGED lost
           \/ phase = "failed" /\ lost' = lost \cup {h} /\ UNCHANGED named
  <2>1. CASE Written(h, c) /\ Goto(c, "save", at[c].found) /\ UNCHANGED <<named, lost>>
    BY <1>2, <1>3, <2>1 DEF Written
  <2>2. CASE /\ Failing(h, c) /\ Goto(c, "failed", None)
             /\ (Named(h) /\ UNCHANGED lost) \/ (lost' = lost \cup {h} /\ UNCHANGED named)
    BY <2>2 DEF Failing, Written, Named
  <2> QED BY <2>1, <2>2 DEF WriteAbout
<1> HIDE DEF h
<1>5. /\ at' \in [Command -> [phase : Phase, found : Found \cup {None}]]
      /\ at'[c].phase = phase /\ at'[c].found = found
      /\ \A d \in Command \ {c} : at'[d] = at[d]
  BY <1>3, <1>4, GotoMoves DEF IInv
<1>6. Record \subseteq Command BY DEF Record
<1>7. TypeOK' BY <1>1, <1>2, <1>3, <1>4, <1>5 DEF IInv, TypeOK
<1>8. WritesItsOwn' BY <1>1, <1>2, <1>4, <1>5 DEF IInv, WritesItsOwn, TypeOK
<1>9. ASSUME ~muddled' PROVE OneInitAtATime' /\ OneRecord' /\ OneChannel'
  <2>1. OneInitAtATime /\ OneRecord /\ OneChannel BY <1>1, <1>9 DEF IInv
  <2>2. Seen = {} BY <1>1, <1>2, <2>1 DEF OneInitAtATime
  <2>3. \A g \in made : about[g] = None BY <2>2, SeenFacts DEF IInv
  <2>4. \/ Seen' = {} /\ phase = "failed"
        \/ Seen' = {<<h, c>>}
    <3>1. CASE about' = about /\ phase = "failed"
      BY <1>1, <2>2, <3>1 DEF Seen, Metadata
    <3>2. CASE about' = [about EXCEPT ![h] = c]
      <4>1. about' \in [Channel -> Record \cup {None}] BY <1>7 DEF TypeOK
      <4>2. \A g \in made : about'[g] = IF g = h THEN c ELSE None
        BY <1>3, <2>3, <3>2 DEF IInv, TypeOK
      <4>3. c # None BY <1>2, SeenFacts DEF IInv
      <4> QED BY <1>1, <1>2, <4>2, <4>3 DEF Seen, Metadata
    <3> QED BY <1>4, <3>1, <3>2
  <2>5. OneInitAtATime'
    <3>1. \A d \in Record : d # c => (Running(d)' <=> Running(d)) BY <1>5, <1>6 DEF Running
    <3>2. \A d, e \in Record : Running(d)' /\ Running(e)' => d = e
      BY <1>2, <2>1, <3>1 DEF OneInitAtATime
    <3>3. ASSUME NEW d \in Record, at'[d].phase \in {"create", "write"} PROVE FALSE
      <4>1. d # c /\ at[d].phase \in {"create", "write"} BY <1>5, <1>6, <3>3
      <4>2. Running(d) BY <4>1 DEF Running, Ended
      <4> QED BY <1>2, <2>1, <4>1, <4>2 DEF OneInitAtATime
    <3> QED BY <3>2, <3>3 DEF OneInitAtATime
  <2>6. OneRecord'
    <3>1. \A m \in Machine : cached'[m] = None BY <1>1, <2>1, <2>2 DEF OneRecord
    <3>2. \A d \in Command \ {c} : at'[d].phase = "save" => at'[d].found = None
      BY <1>5, <2>1, <2>2 DEF OneRecord
    <3>3. phase = "save" => found \in Seen' BY <1>4, <2>4
    <3> QED BY <1>5, <2>4, <3>1, <3>2, <3>3 DEF OneRecord
  <2>7. OneChannel'
    <3>1. Debris' \subseteq Debris BY <1>1, <1>4 DEF Debris
    <3>2. ASSUME named' = {}, Seen' = {}, NEW g \in Debris' PROVE FALSE
      <4>1. named = {} /\ lost' = lost \cup {h} BY <1>4, <2>4, <3>2
      <4>2. g # h /\ g \in Debris BY <3>1, <3>2, <4>1 DEF Debris
      <4>3. PICK d \in Record : at[d].phase = "write" /\ at[d].found[1] = g
        BY <2>1, <2>2, <4>1, <4>2 DEF OneChannel
      <4>4. Running(d) BY <4>3 DEF Running, Ended
      <4>5. d = c BY <1>2, <2>1, <4>4 DEF OneInitAtATime
      <4> QED BY <4>2, <4>3, <4>5 DEF h
    <3> QED BY <2>1, <3>1, <3>2 DEF OneChannel
  <2> QED BY <2>5, <2>6, <2>7
<1> QED BY <1>7, <1>8, <1>9 DEF IInv

\* A write that arrives after its failure ends the claim.
LEMMA LandStep ==
  ASSUME IInv, NEW h \in Channel, NEW c \in Command, Land(h, c)
  PROVE  IInv'
<1>1. /\ <<h, c>> \in flight /\ flight' = flight \ {<<h, c>>}
      /\ about' = [about EXCEPT ![h] = c] /\ muddled' = TRUE
      /\ UNCHANGED <<made, cached, at, named, lost>>
  BY DEF Land
<1>2. c \in Record /\ h \in made BY <1>1 DEF IInv, TypeOK
<1>3. TypeOK' BY <1>1, <1>2 DEF IInv, TypeOK
<1>4. WritesItsOwn' BY <1>1, <1>2 DEF IInv, WritesItsOwn
<1> QED BY <1>1, <1>3, <1>4 DEF IInv

-----------------------------------------------------------------------------
\* The invariant is true of every reachable state.
THEOREM InductiveInvariant == Spec => []IInv
<1>1. Init => IInv
  <2>1. SUFFICES ASSUME Init PROVE IInv OBVIOUS
  <2>2. \A c \in Command : at[c].phase = "idle" BY <2>1 DEF Init
  <2>3. Seen = {} BY <2>1, FleetAssumption DEF Init, Seen, Metadata
  <2>4. Debris = {} BY <2>1 DEF Init, Debris
  <2>5. TypeOK BY <2>1, FleetAssumption DEF Init, TypeOK, Phase, Found
  <2>6. WritesItsOwn BY <2>1, <2>2 DEF Init, WritesItsOwn
  <2>7. OneInitAtATime BY <2>2 DEF OneInitAtATime, Running, Record
  <2>8. OneRecord BY <2>1, <2>2, <2>3 DEF Init, OneRecord
  <2>9. OneChannel BY <2>4 DEF OneChannel
  <2> QED BY <2>5, <2>6, <2>7, <2>8, <2>9 DEF IInv
<1>2. IInv /\ [Next]_vars => IInv'
  <2>1. SUFFICES ASSUME IInv, [Next]_vars PROVE IInv' OBVIOUS
  <2>2. CASE \E c \in Command : Begin(c) BY <2>1, <2>2, BeginStep
  <2>3. CASE \E c \in Command : Connect(c) BY <2>1, <2>3, ConnectStep
  <2>4. CASE \E c \in Command : Look(c) BY <2>1, <2>4, LookStep
  <2>5. CASE \E c \in Command : Adopt(c) BY <2>1, <2>5, AdoptStep
  <2>6. CASE \E c \in Command : Create(c) BY <2>1, <2>6, CreateStep
  <2>7. CASE \E c \in Command : WriteAbout(c) BY <2>1, <2>7, WriteAboutStep
  <2>8. CASE \E c \in Command : Save(c) BY <2>1, <2>8, SaveStep
  <2>9. CASE \E c \in Command : Stop(c) BY <2>1, <2>9, StopStep
  <2>10. CASE \E h \in Channel, c \in Command : Land(h, c) BY <2>1, <2>10, LandStep
  <2>11. CASE UNCHANGED vars
    <3> USE <2>1, <2>11 DEF vars, IInv
    <3>1. TypeOK' BY DEF TypeOK
    <3>2. WritesItsOwn' BY DEF WritesItsOwn
    <3>3. Seen' = Seen /\ Debris' = Debris BY DEF Seen, Metadata, Debris
    <3>4. OneInitAtATime => OneInitAtATime' BY <3>3 DEF OneInitAtATime, Running
    <3>5. OneRecord => OneRecord' BY <3>3 DEF OneRecord
    <3>6. OneChannel => OneChannel' BY <3>3 DEF OneChannel
    <3> QED BY <3>1, <3>2, <3>4, <3>5, <3>6
  <2> QED
    BY <2>1, <2>2, <2>3, <2>4, <2>5, <2>6, <2>7, <2>8, <2>9, <2>10, <2>11 DEF Next
<1> QED BY <1>1, <1>2, PTL DEF Spec

\* A set whose members are all one has at most one.
LEMMA AtMostOne ==
  ASSUME NEW S, \A x, y \in S : x = y
  PROVE  Cardinality(S) <= 1
<1>1. CASE S = {} BY <1>1, FS_EmptySet
<1>2. CASE S # {}
  <2>1. PICK x \in S : S = {x} BY <1>2
  <2> QED BY <2>1, FS_Singleton
<1> QED BY <1>1, <1>2

\* What any machine has cached is the record on the relay, and there is no other.
THEOREM OneRecordPerCommunity == Spec => []OneRecordForAll
<1>1. IInv => OneRecordForAll BY AtMostOne DEF IInv, OneRecord, OneRecordForAll
<1> QED BY <1>1, InductiveInvariant, PTL

\* Inits that follow each other make one channel, but for those nobody was told.
THEOREM OneChannelPerCommunity == Spec => []NoDebris
<1>1. IInv => NoDebris BY AtMostOne DEF IInv, OneChannel, Debris, NoDebris
<1> QED BY <1>1, InductiveInvariant, PTL
-----------------------------------------------------------------------------
(***************************************************************************)
(* The second part: that fetch_all returns the whole history, for every    *)
(* set of events, every page size and every choice the relay makes, and    *)
(* that it implements the single read of HistoryRead.  The inductive       *)
(* invariant: nothing newer than `until` is missing and nothing older has  *)
(* been seen; a page that is not full is all there is below it.            *)
(***************************************************************************)

FetchInv ==
  FetchTypes /\ NewerIsSeen /\ ReturnsWholeHistory /\ SeenIsNewer /\ RefusedOnlyAtFullSecond

\* The oldest second of a page is one of its seconds, and none is older.
LEMMA OldestIsLeast ==
  ASSUME NEW page \in SUBSET Event, NEW u \in Oldest(page)
  PROVE  /\ u \in Nat
         /\ \E e \in page : At[e] = u
         /\ \A e \in page : u <= At[e]
BY PageAssumption DEF Oldest, Last

\* A page is part of what matches, and one that is not full is all of it.
LEMMA PageFacts ==
  ASSUME NEW page \in Pages
  PROVE  /\ page \subseteq Matching
         /\ ~Full(page) => page = Matching
         /\ \A e \in page, f \in Matching \ page : At[f] <= At[e]
BY PageAssumption DEF Pages, Full

\* A set of events with a full page in it is itself a full page or more.
LEMMA FullWithin ==
  ASSUME NEW page \in SUBSET Event, NEW events \in SUBSET Event,
         page \subseteq events, Full(page)
  PROVE  Cardinality(events) >= Limit
<1>1. IsFiniteSet(events) /\ IsFiniteSet(page)
  BY PageAssumption, FS_Subset
<1>2. Cardinality(page) <= Cardinality(events)
  BY <1>1, FS_Subset
<1>3. Cardinality(page) \in Nat /\ Cardinality(events) \in Nat
  BY <1>1, FS_CardinalityType
<1>4. QED BY <1>2, <1>3, PageAssumption DEF Full

\* A full page has a row in it.
LEMMA FullHasRow ==
  ASSUME NEW page \in SUBSET Event, Full(page)
  PROVE  page # {}
BY FS_EmptySet, PageAssumption DEF Full

\* Each of a query's outcomes keeps the invariant.
LEMMA QueryKeeps ==
  ASSUME FetchInv, Query
  PROVE  FetchInv'
<1>1. PICK page \in Pages : NothingNew(page) \/ LastPage(page) \/ FullPage(page)
  BY DEF Query
<1>2. /\ page \subseteq Matching /\ page \subseteq Event /\ Matching \subseteq relay
      /\ ~Full(page) => page = Matching
      /\ \A e \in page, f \in Matching \ page : At[f] <= At[e]
      /\ kept' = kept /\ relay' = relay /\ had' = had /\ pc = "paging"
  BY <1>1, PageFacts DEF Query, Matching, FetchInv, FetchTypes
<1>3. kept \subseteq Matching \cup seen
  BY DEF FetchInv, FetchTypes, NewerIsSeen, Matching
<1>4. CASE NothingNew(page)
  <2>1. until' = until /\ seen' = seen /\ pc' \in {"done", "refused"}
    BY <1>4 DEF NothingNew, StopPaging
  <2>2. pc' = "done" => kept \subseteq seen
    BY <1>2, <1>3, <1>4 DEF NothingNew, StopPaging
  <2>3. ASSUME pc' = "refused" PROVE Cardinality({e \in seen : At[e] = until}) >= Limit
    <3>1. Full(page) /\ page \subseteq seen
      BY <1>4, <2>3 DEF NothingNew, StopPaging
    <3>2. page # {}
      BY <1>2, <3>1, FullHasRow
    <3>3. until # NoUntil /\ \A e \in seen : until <= At[e]
      BY <1>2, <3>1, <3>2 DEF FetchInv, SeenIsNewer
    <3>4. \A e \in page : At[e] <= until
      BY <1>2, <3>3 DEF Matching, Matches
    <3>5. page \subseteq {e \in seen : At[e] = until}
      BY <1>2, <3>1, <3>3, <3>4, PageAssumption DEF FetchInv, FetchTypes
    <3>6. {e \in seen : At[e] = until} \subseteq Event
      BY DEF FetchInv, FetchTypes
    <3>7. QED BY <1>2, <3>1, <3>5, <3>6, FullWithin
  <2>4. QED BY <1>2, <2>1, <2>2, <2>3
         DEF FetchInv, FetchTypes, NewerIsSeen, ReturnsWholeHistory, Matches, SeenIsNewer, RefusedOnlyAtFullSecond
<1>5. CASE LastPage(page)
  <2>1. until' = until /\ seen' = seen \cup page /\ pc' = "done" /\ page = Matching
    BY <1>2, <1>5 DEF LastPage
  <2>2. QED BY <1>2, <1>3, <2>1
         DEF FetchInv, FetchTypes, NewerIsSeen, ReturnsWholeHistory, Matches, SeenIsNewer, RefusedOnlyAtFullSecond
<1>6. CASE FullPage(page)
  <2>1. /\ until' \in Oldest(page) /\ seen' = seen \cup page /\ pc' = pc
    BY <1>6 DEF FullPage
  <2>2. until' \in Nat /\ (\E e \in page : At[e] = until') /\ \A e \in page : until' <= At[e]
    BY <1>2, <2>1, OldestIsLeast
  <2>3. \A e \in kept : until' < At[e] => e \in seen \cup page
    BY <1>2, <1>3, <2>2, PageAssumption DEF FetchInv, FetchTypes
  <2>4. until' # NoUntil /\ \A e \in Event : ~Matches(e)' => until' < At[e]
    BY <2>1, <2>2, PageAssumption DEF Matches
  <2>5. \A e \in seen : until' <= At[e]
    <3>1. PICK e \in page : At[e] = until'
      BY <2>2
    <3>2. until = NoUntil \/ until' <= until
      BY <1>2, <3>1 DEF Matching, Matches
    <3>3. until # NoUntil => until \in Nat /\ \A f \in seen : until <= At[f] /\ At[f] \in Nat
      BY <1>2, PageAssumption DEF FetchInv, SeenIsNewer, FetchTypes
    <3>4. until = NoUntil => seen = {}
      BY <1>2 DEF FetchInv, SeenIsNewer
    <3>5. QED BY <2>2, <3>2, <3>3, <3>4
  <2>6. SeenIsNewer'
    BY <2>1, <2>2, <2>4, <2>5 DEF SeenIsNewer
  <2>7. QED BY <1>2, <2>1, <2>2, <2>3, <2>4, <2>6
         DEF FetchInv, FetchTypes, NewerIsSeen, ReturnsWholeHistory, RefusedOnlyAtFullSecond
<1>7. QED BY <1>1, <1>4, <1>5, <1>6

\* The invariant holds at the start, and every step keeps it.
LEMMA FetchInductive ==
  (FetchInit => FetchInv) /\ (FetchInv /\ [FetchNext]_fetchVars => FetchInv')
<1> USE DEF FetchInv, FetchTypes, NewerIsSeen, ReturnsWholeHistory, Matches, SeenIsNewer, RefusedOnlyAtFullSecond
<1>1. FetchInit => FetchInv
  BY DEF FetchInit
<1>2. ASSUME FetchInv, [FetchNext]_fetchVars PROVE FetchInv'
  <2>1. CASE Query
    BY <1>2, <2>1, QueryKeeps
  <2>2. CASE QueryFails
    BY <1>2, <2>2 DEF QueryFails
  <2>3. ASSUME NEW e \in Event, Arrive(e) PROVE FetchInv'
    BY <1>2, <2>3 DEF Arrive
  <2>4. ASSUME NEW e \in Event, Delete(e) PROVE FetchInv'
    BY <1>2, <2>4 DEF Delete
  <2>5. CASE UNCHANGED fetchVars
    BY <1>2, <2>5 DEF fetchVars
  <2>6. QED BY <1>2, <2>1, <2>2, <2>3, <2>4, <2>5 DEF FetchNext
<1>3. QED BY <1>1, <1>2

\* The invariant holds of every reachable state.
THEOREM FetchInvariant == FetchSpec => []FetchInv
BY FetchInductive, PTL DEF FetchSpec

\* A read that returns has every event that was on the relay all along.
THEOREM WholeHistory == FetchSpec => []ReturnsWholeHistory
<1>1. FetchInv => ReturnsWholeHistory
  BY DEF FetchInv
<1>2. QED BY <1>1, FetchInvariant, PTL

\* While a read pages, every kept event newer than `until` has been seen.
THEOREM NewerNeverMissing == FetchSpec => []NewerIsSeen
<1>1. FetchInv => NewerIsSeen
  BY DEF FetchInv
<1>2. QED BY <1>1, FetchInvariant, PTL

\* A read is refused only at a second that holds a full page.
THEOREM RefusalIsJustified == FetchSpec => []RefusedOnlyAtFullSecond
<1>1. FetchInv => RefusedOnlyAtFullSecond
  BY DEF FetchInv
<1>2. QED BY <1>1, FetchInvariant, PTL

-----------------------------------------------------------------------------
(* The refinement: every step of the pages is one of the single read, or    *)
(* shows nothing.                                                           *)

\* A refused read has met a second that is full in the abstract sense.
LEMMA RefusalMeetsFullSecond ==
  ASSUME FetchInv, RefusedOnlyAtFullSecond', pc' = "refused", seen' = seen, until' = until
  PROVE  \E e \in had : History!FullSecond(e)
<1> DEFINE stuck == {f \in seen : At[f] = until}
<1>1. Cardinality(stuck) >= Limit /\ stuck \subseteq had /\ had \subseteq Event
  BY DEF FetchInv, FetchTypes, RefusedOnlyAtFullSecond
<1>2. PICK e \in stuck : TRUE
  BY <1>1, FullHasRow DEF Full
<1>3. stuck \subseteq {f \in had : At[f] = At[e]}
  BY <1>1, <1>2
<1>4. Cardinality({f \in had : At[f] = At[e]}) >= Limit
  BY <1>1, <1>3, FullWithin DEF Full
<1>5. Cardinality({f \in had : At[f] = At[e]}) = History!Cardinality({f \in had : At[f] = At[e]})
  BY DEF Cardinality, History!Cardinality
<1>6. QED BY <1>1, <1>2, <1>4, <1>5 DEF History!FullSecond

\* A query ends the single read, or does not show.
LEMMA QueryRefines ==
  ASSUME FetchInv, FetchInv', Query
  PROVE  History!End \/ UNCHANGED History!vars
<1>1. /\ pc = "paging" /\ relay' = relay /\ kept' = kept /\ had' = had
  BY DEF Query
<1>2. PICK page \in Pages : NothingNew(page) \/ LastPage(page) \/ FullPage(page)
  BY DEF Query
<1>3. Status = "pending" /\ Returned = {}
  BY <1>1 DEF Status, Returned
<1>4. CASE pc' = "paging"
  BY <1>1, <1>4 DEF History!vars, Status, Returned
<1>5. CASE pc' = "done"
  <2>1. Status' = "done" /\ Returned' = seen'
    BY <1>5 DEF Status, Returned
  <2>2. kept \subseteq seen' /\ seen' \subseteq had
    BY <1>1, <1>5 DEF FetchInv, FetchTypes, ReturnsWholeHistory
  <2>3. QED BY <1>1, <1>3, <2>1, <2>2 DEF History!End, History!Answer
<1>6. CASE pc' = "refused"
  <2>1. seen' = seen /\ until' = until
    BY <1>1, <1>2, <1>6 DEF NothingNew, LastPage, FullPage
  <2>2. \E e \in had : History!FullSecond(e)
    BY <1>6, <2>1, RefusalMeetsFullSecond DEF FetchInv
  <2>3. Status' = "refused" /\ Returned' = {}
    BY <1>6 DEF Status, Returned
  <2>4. QED BY <1>1, <1>3, <2>2, <2>3 DEF History!End, History!Refuse
<1>7. pc' \in {"paging", "done", "refused"}
  BY <1>1, <1>2 DEF NothingNew, LastPage, FullPage, StopPaging
<1>8. QED BY <1>4, <1>5, <1>6, <1>7

\* fetch_all implements the single read (its safety part: that it ends is left
\* to the model checker).
THEOREM Refinement == FetchSpec => IsOneRead
<1>1. FetchInit => History!Init
  BY DEF FetchInit, History!Init, Status, Returned
<1>2. ASSUME FetchInv, FetchInv', [FetchNext]_fetchVars PROVE [History!Next]_(History!vars)
  <2>1. CASE Query
    BY <1>2, <2>1, QueryRefines DEF History!Next
  <2>2. CASE QueryFails
    BY <2>2 DEF QueryFails, History!Next, History!End, History!Fail, Status, Returned
  <2>3. ASSUME NEW e \in Event, Arrive(e) PROVE [History!Next]_(History!vars)
    BY <2>3 DEF Arrive, History!Next, History!Arrive, Status, Returned
  <2>4. ASSUME NEW e \in Event, Delete(e) PROVE [History!Next]_(History!vars)
    BY <2>4 DEF Delete, History!Next, History!Delete, Status, Returned
  <2>5. CASE UNCHANGED fetchVars
    BY <2>5 DEF fetchVars, History!vars, Status, Returned
  <2>6. QED BY <1>2, <2>1, <2>2, <2>3, <2>4, <2>5 DEF FetchNext
<1>3. QED BY <1>1, <1>2, FetchInvariant, PTL DEF FetchSpec, IsOneRead, History!Safe
=============================================================================
