---------------------------- MODULE MCPagedFetch ----------------------------
(***************************************************************************)
(* Six events over three seconds, pages of two: the middle second has more *)
(* events than fit a page.                                                 *)
(***************************************************************************)
EXTENDS PagedFetch

MCEvent == 1..6
MCAt == <<2, 2, 1, 1, 1, 0>>
=============================================================================
