-------------------------- MODULE SnapshotDirectory --------------------------
(***************************************************************************)
(* The destination directory: all that fetching, verifying and reading a   *)
(* snapshot have in common.  No component locks it.                        *)
(***************************************************************************)
EXTENDS SnapshotFiles

VARIABLES
  directory,  \* what the destination path is
  disk        \* the final paths in it

=============================================================================
