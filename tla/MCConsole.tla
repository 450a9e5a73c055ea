------------------------------ MODULE MCConsole ------------------------------
(***************************************************************************)
(* Two communities, room for two agents in each.  Either the first is      *)
(* selected and has one agent with a persona file, a secret, an MCP server *)
(* and an unset policy; or there are no agents and everything about the    *)
(* communities is open.                                                    *)
(***************************************************************************)
EXTENDS Console, TLC

CONSTANTS C, D, i, j

Full ==
  ("text" :> "old") @@ ("list" :> "commas") @@ ("prompt" :> "persona") @@ ("env" :> "old")
  @@ ("server" :> [name |-> "old", env |-> "old"]) @@ ("policy" :> None)

NoAgents == [c \in Community |-> [a \in Agent |-> None]]

WithAgent ==
  [communities |-> Community, pointer |-> C, default |-> None, envVar |-> None,
   agents |-> [NoAgents EXCEPT ![C][i] = Full]]

MCStarts ==
  {WithAgent} \cup
  [communities : SUBSET Community, pointer : Community \cup {None},
   default : Community \cup {None, Malformed}, envVar : Community \cup {None},
   agents : {NoAgents}]
=============================================================================
