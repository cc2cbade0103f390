--------------------------- MODULE MCHostSessions ---------------------------
(***************************************************************************)
(* A small instance of HostSessions for TLC.                               *)
(***************************************************************************)
EXTENDS HostSessions, TLC

CONSTANTS s1, s2

\* One session is asked with an attachment, the other without, so that both of
\* its requests can be published.
MCInputs == {[session |-> s1, attachments |-> 1], [session |-> s2, attachments |-> 0]}

\* Nothing orders the requests or tells them apart.
RequestSymmetry == Permutations(Requests)
=============================================================================
