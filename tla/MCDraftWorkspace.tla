-------------------------- MODULE MCDraftWorkspace --------------------------
(***************************************************************************)
(* A small instance of DraftWorkspace for TLC.                             *)
(***************************************************************************)
EXTENDS DraftWorkspace, TLC

\* Nothing orders the clients or tells them apart.
ClientSymmetry == Permutations(Clients)

\* Bound: at most one file is left behind by a crash or an ignored error.
OneFileLeft == Cardinality(left) <= 1

\* Bound: one client at a time reads the file of an attachment.
OneReader == \A c, d \in Clients : In(c, "read") /\ In(d, "read") => c = d

\* Bound: after the editing ended, one client at a time has a call under way.
QuietEnd == phase # "open" => \A c, d \in Clients : Idle(c) \/ Idle(d) \/ c = d
=============================================================================
