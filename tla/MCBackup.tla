------------------------------ MODULE MCBackup ------------------------------
(***************************************************************************)
(* Module Backup for TLC.  Controllers differ only in name, and so do the  *)
(* runs of the tool.                                                       *)
(***************************************************************************)
EXTENDS Backup, TLC

Symmetry == Permutations(Controllers) \cup Permutations(Tools)
=============================================================================
