---------------------------- MODULE MCBackupChips ----------------------------
(***************************************************************************)
(* Small chips: banks of two sectors of two bytes, EEPROMs of two and four *)
(* blocks.  Games write bytes that are also parts of flash commands.       *)
(***************************************************************************)
EXTENDS BackupChips

=============================================================================
