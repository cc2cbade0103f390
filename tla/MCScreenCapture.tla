-------------------------- MODULE MCScreenCapture --------------------------
(***************************************************************************)
(* A small instance of ScreenCapture for TLC: two overlapping starts, two  *)
(* captures, two requests and a scrolling capture of two frames.           *)
(***************************************************************************)
EXTENDS ScreenCapture, TLC

\* Nothing tells the starts or the requests apart.
CaptureSymmetry == Permutations(Starts) \cup Permutations(Requests)

\* A capture that has lost a window is not crossed by another start as well.
OneMishap == ~(faulted /\ crossed)
=============================================================================
