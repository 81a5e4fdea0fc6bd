------------------------- MODULE MCHistoricChanges -------------------------
(* Values for checking HistoricChanges on small instances.                 *)
EXTENDS HistoricChanges

MCSets == {1, 2}
MCSymmetry == Permutations(Flags)
=============================================================================
