---------------------------- MODULE MCFileUpload ----------------------------
(***************************************************************************)
(* FileUpload for TLC: its constants are numbers, given in the cfg files.  *)
(***************************************************************************)
EXTENDS FileUpload
=============================================================================
