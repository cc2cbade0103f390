--------------------------- MODULE MCFeedbackWaiters ---------------------------
(***************************************************************************)
(* A small instance of FeedbackWaiters for TLC: model values only.         *)
(***************************************************************************)
EXTENDS FeedbackWaiters
=============================================================================
