--------------------------- MODULE MCSpeechModel ---------------------------
(***************************************************************************)
(* A small instance of SpeechModel for TLC: one file with a hash and one   *)
(* without, of two chunks, two sources and an archive, so that parts are   *)
(* resumed, sources mixed and the fall-back taken.                         *)
(***************************************************************************)
EXTENDS SpeechModel
=============================================================================
