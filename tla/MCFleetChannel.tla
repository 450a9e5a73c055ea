--------------------------- MODULE MCFleetChannel ---------------------------
(***************************************************************************)
(* Two machines with three inits between them, and a learner and a         *)
(* reconnect on one; a channel that was there before.                      *)
(***************************************************************************)
EXTENDS FleetChannel

CONSTANTS m, n, F, G, H, P, i1, i2, i3, l, k

MCKind ==
  [c \in Command |->
     IF c \in {i1, i2, i3} THEN "init" ELSE IF c = k THEN "connect" ELSE "learn"]
MCOn == [c \in Command |-> IF c \in {i1, i3} THEN m ELSE n]
=============================================================================
