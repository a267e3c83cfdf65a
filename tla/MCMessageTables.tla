-------------------------- MODULE MCMessageTables ---------------------------
(***************************************************************************)
(* Four messages of mixed length through tables of three ids: no three of  *)
(* them fill the sequence space exactly, so that an id does not come back  *)
(* with the epoch it had, and some of them wrap it.                        *)
(***************************************************************************)
EXTENDS MessageTables

MixedTotals == {<<1, 3, 2, 3>>, <<3, 2, 3, 1>>}
=============================================================================
