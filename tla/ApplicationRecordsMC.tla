-------------------------- MODULE ApplicationRecordsMC --------------------------
(* Bounds of the model-checking runs of ApplicationRecords: the constants are   *)
(* given in the configurations.                                                 *)
EXTENDS ApplicationRecords
=================================================================================
