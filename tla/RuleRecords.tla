---------------------------- MODULE RuleRecords ----------------------------
(***************************************************************************)
(* The records of rules on disk, of which snapshot files are made.  Each   *)
(* is saved in a transaction of its own; a file may be taken between two,  *)
(* and nobody looks at the error of a save.  The constants tell which of   *)
(* these happens: both storages promise what they do to SDKs as long as    *)
(* neither does, and the run proxy_export shows what comes of it.          *)
(*                                                                         *)
(*   proxy/storage/persistent/splits.go             Update                 *)
(*   proxy/storage/persistent/rulebasedsegments.go  Update                 *)
(***************************************************************************)

CONSTANTS ExportMidWrite, \* a snapshot may be taken while a batch is saved
          SavesFail       \* a record may fail to be saved

ASSUME RecordsAssumption == ExportMidWrite \in BOOLEAN /\ SavesFail \in BOOLEAN

\* SaveAs, whose error is dropped: the records when that of a rule is saved.
SaveAs(records, name, cn) ==
    {[records EXCEPT ![name] = cn]} \cup (IF SavesFail THEN {records} ELSE {})
=============================================================================
