-------------------------- MODULE MCAgentLifecycle --------------------------
(***************************************************************************)
(* A managed agent E, an unmanaged one L and a few commands about them.    *)
(***************************************************************************)
EXTENDS AgentLifecycle, TLC

CONSTANTS e, l, c, d, u, v, h, g, E, L, N, C1, CF

Plain(name) == [name |-> name, prompt |-> 0, policy |-> 0, secret |-> 0, channels |-> {}]
InChannel(name) == [Plain(name) EXCEPT !.channels = {C1}]

MCConfig ==
  [name : {E, L, N}, prompt : {0}, policy : {0}, secret : {0}, channels : SUBSET {C1, CF}]

MCAgents ==
  [s \in {<<E, 1>>, <<E, 2>>, <<L, 1>>, <<L, 2>>} |->
     CASE s = <<E, 1>> -> [key |-> e, cfg |-> InChannel(E), managed |-> TRUE,
                            state |-> [i \in Item |->
                                         IF i = CF THEN "todo" ELSE "done"]]
       [] s = <<L, 1>> -> [key |-> l, cfg |-> Plain(L), managed |-> FALSE,
                            state |-> [i \in Item |-> "todo"]]
       [] OTHER -> None]

Situation(cast, there, expected, owner, installed, tag, current) ==
  [cast |-> cast, there |-> there, faults |-> expected, owner |-> owner,
   runtime |-> installed, tag |-> tag, current |-> current]
Both == {"template", "acp"}

\* A create, an update of L and a delete after an upgrade, the system failing
\* and the commands stopping; an update of E and two heals with one thing
\* missing, the relay failing; an update and a delete of E, or a heal, with
\* both of them failing.
MCStarts ==
  { Situation({c, d, u}, {<<E, 1>>, <<L, 1>>}, {"system", "stop"}, FALSE, {"acp"}, TRUE, FALSE) }
  \cup { Situation({v, h, g}, {<<E, 1>>}, {"relay"}, TRUE, m[1], m[2], m[3]) :
           m \in { <<{}, TRUE, TRUE>>, <<Both, FALSE, TRUE>>, <<Both, TRUE, FALSE>> } }
  \cup { Situation(cast, {<<E, 1>>}, {"relay", "system"}, TRUE, {"acp"}, TRUE, TRUE) :
           cast \in {{v, d}, {h}} }

\* The two heals are alike.
HealsAlike == Permutations({h, g})

MCKind ==
  [p \in Process |->
     IF p = c THEN "create" ELSE IF p \in {u, v} THEN "update" ELSE IF p = d THEN "delete" ELSE "heal"]
MCKey == {e, l} \cup {p \in Process : MCKind[p] = "create"}

\* The create takes E's name; an update renames its agent and moves it out of C1.
MCAsked ==
  [p \in Process |-> IF p = c THEN InChannel(E) ELSE [name |-> N, channels |-> {}]]

MCTarget == [p \in Process |-> IF p = u THEN <<L, 1>> ELSE <<E, 1>>]
=============================================================================
