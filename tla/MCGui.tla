------------------------------- MODULE MCGui -------------------------------
(***************************************************************************)
(* Two drives, a Windows image that will be NTFS and an image written      *)
(* verbatim, and up to two unanswered requests: enough for a second        *)
(* request to be made before the first is answered.                        *)
(***************************************************************************)
EXTENDS Gui, TLC

CONSTANTS win, lin

Kinds == win :> "windows" @@ lin :> "other"
=============================================================================
