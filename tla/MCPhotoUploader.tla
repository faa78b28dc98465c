-------------------------- MODULE MCPhotoUploader --------------------------
(* An instance of PhotoUploader for TLC. *)
EXTENDS PhotoUploader, TLC

CONSTANTS f1, f2
=============================================================================
