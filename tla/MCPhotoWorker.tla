--------------------------- MODULE MCPhotoWorker ---------------------------
(***************************************************************************)
(* Instances of PhotoWorker for TLC.                                       *)
(***************************************************************************)
EXTENDS PhotoWorker
============================================================================
