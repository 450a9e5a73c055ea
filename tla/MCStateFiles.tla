---------------------------- MODULE MCStateFiles ----------------------------
(***************************************************************************)
(* Small casts of processes for StateFiles.                                *)
(***************************************************************************)
EXTENDS StateFiles

CONSTANTS u, v, w, d, X, Y

MCKind ==
  [p \in Process |->
     IF p = d THEN "delete" ELSE IF p = w THEN "read" ELSE "update"]
CreateKind ==
  [p \in Process |->
     IF p = d THEN "delete" ELSE IF p = w THEN "read"
     ELSE IF p = v THEN "update" ELSE "create"]

AddsX == [p \in Process |-> IF p = u THEN {X} ELSE IF p = v THEN {Y} ELSE {}]
Nothing == [p \in Process |-> {}]
DropsX == [p \in Process |-> IF p = u THEN {X} ELSE {}]
=============================================================================
