--------------------------- MODULE MCJournalBitRot ---------------------------
(* JournalBitRot on one node, one client and three decisions. *)
EXTENDS JournalBitRot, TLC

CONSTANTS n1, c1, d1, d2, d3, i1, i2, i3

MCIdOf == d1 :> i1 @@ d2 :> i2 @@ d3 :> i3
MCHome == c1 :> Outside
==============================================================================
