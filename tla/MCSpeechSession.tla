-------------------------- MODULE MCSpeechSession --------------------------
(***************************************************************************)
(* A small instance of SpeechSession for TLC: two sessions, one for each   *)
(* kind of engine, each with a queue of two buffers.  No bound is put on   *)
(* the audio that comes in.                                                *)
(***************************************************************************)
EXTENDS SpeechSession

\* One session at a time has audio under way or a drop to report: a microphone
\* that opens while the session before is still heard out stays silent, or that
\* one has nothing left.  Queues, drops and engines of two sessions never meet.
Sounds(v) == queue[v] # <<>> \/ missed[v] \/ dropped[v] # {}
OneSounds == \A v, w \in Voices : Sounds(v) /\ Sounds(w) => v = w
=============================================================================
