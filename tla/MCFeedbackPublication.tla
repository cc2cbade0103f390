----------------------- MODULE MCFeedbackPublication -----------------------
(***************************************************************************)
(* Small instances of FeedbackPublication for TLC.                         *)
(***************************************************************************)
EXTENDS FeedbackPublication, TLC

CONSTANT cooked   \* the text a cooking model returned

\* The same cooked text with and without an override of the uncooked one.
MCCookings == {[text |-> cooked, uncooked |-> u] : u \in {None, cooked}}

\* Calls are interchangeable: each makes its own publication id and nothing
\* orders them.
CallSymmetry == Permutations(Calls)
=============================================================================
