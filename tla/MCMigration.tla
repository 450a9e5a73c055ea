----------------------------- MODULE MCMigration -----------------------------
(***************************************************************************)
(* Two communities and two ids: a usable tree, one with an id in both      *)
(* communities, one with an id that is no longer valid.                    *)
(***************************************************************************)
EXTENDS Migration

CONSTANTS C, D, i, j

MCTrees == {{<<C, i>>, <<D, j>>}, {<<C, i>>, <<D, i>>}, {<<C, i>>, <<C, j>>}}
OneAgent == {{<<C, i>>}}
MCUsable == {<<C, i>>, <<D, i>>, <<D, j>>}
=============================================================================
