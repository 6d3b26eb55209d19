----------------------------- MODULE MCBlkFile -----------------------------
(***************************************************************************)
(* The scan alone, over the directories of MCDirs.                         *)
(***************************************************************************)
EXTENDS BlkFile

CONSTANTS f0, f1, f2, gone

D == INSTANCE MCDirs

RelativeDirs == D!RelativeDirs
=============================================================================
