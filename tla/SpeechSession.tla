---------------------------- MODULE SpeechSession ----------------------------
(***************************************************************************)
(* Voice input: the commands that start and stop it, the owner thread of a *)
(* native session, the audio callback and the recognition worker, joined   *)
(* by a bounded queue of sample buffers (native.rs, commands.rs).          *)
(*                                                                         *)
(* A buffer is only known by when it was captured: before the session was  *)
(* told to stop (early), after that (late), or before, but in the moment   *)
(* between the worker's last look at the queue and its look at the flag    *)
(* (unseen).  What the recogniser makes of it is a choice.                 *)
(***************************************************************************)
EXTENDS Integers, Sequences

CONSTANTS
    Voices,    \* voice sessions; each is started once
    Streaming, \* the sessions whose engine shows partial text
    Capacity,  \* AUDIO_QUEUE_CAPACITY
    None       \* no session, no event

ASSUME StreamingAssumption == Streaming \subseteq Voices
ASSUME CapacityAssumption == Capacity \in Nat \ {0}
ASSUME NoneAssumption == None \notin Voices \cup {"other", "stopped"}

VARIABLES
    starting,   \* the session whose start holds the mutex of the state, or None
    active,     \* speech_session: what that mutex guards, a session or None
    phase,      \* phase[v]: where the owner thread of v is
    running,    \* the flag that owner and worker share
    live,       \* the stream exists: its callback is called
    missed,     \* a callback found no room and has not counted the drop yet
    queue,      \* the channel: the kind of each buffer
    dropped,    \* kinds of the drops counted since the last warning
    worker,     \* where the recognition thread is
    heard,      \* there is speech that no stable segment holds yet
    partial,    \* the last partial text shown is not empty
    last         \* the last event sent to the workbench: Stopped, or another

control == <<starting, active, phase>>
audio == <<running, live, missed, queue, dropped>>
engine == <<heard, partial>>
vars == <<control, audio, worker, engine, last>>

Kinds == {"early", "unseen", "late"}
Phases == {"new", "loading", "opening", "aborting", "playing", "started",
           "recording", "stopping", "closing", "joining", "stopped", "failed"}

Init ==
    /\ starting = None /\ active = None
    /\ phase = [v \in Voices |-> "new"]
    /\ running = [v \in Voices |-> FALSE]
    /\ live = [v \in Voices |-> FALSE]
    /\ missed = [v \in Voices |-> FALSE]
    /\ queue = [v \in Voices |-> <<>>]
    /\ dropped = [v \in Voices |-> {}]
    /\ worker = [v \in Voices |-> "none"]
    /\ heard = [v \in Voices |-> FALSE]
    /\ partial = [v \in Voices |-> FALSE]
    /\ last = [v \in Voices |-> None]

Move(v, from, to) == phase[v] = from /\ phase' = [phase EXCEPT ![v] = to]
Emit(v, event) == last' = [last EXCEPT ![v] = event]
Wind(v, to) == worker' = [worker EXCEPT ![v] = to]

-----------------------------------------------------------------------------
(* start_voice_ramble, SpeechSession::start and NativeSpeechSession::start. *)

\* Variant: a session that is active does not refuse another one.
BeginStartOver(v) ==
    /\ starting = None
    /\ Move(v, "new", "loading")
    /\ starting' = v
    /\ UNCHANGED <<active, audio, worker, engine, last>>

\* The mutex is taken and kept until the start is over.
BeginStart(v) ==
    /\ starting = None /\ active = None
    /\ Move(v, "new", "loading")
    /\ starting' = v
    /\ UNCHANGED <<active, audio, worker, engine, last>>

\* Settings out of range, a model that is not complete, a recogniser that
\* cannot be created, for whichever of the two engines.
FailEngine(v) ==
    /\ Move(v, "loading", "failed")
    /\ starting' = None
    /\ UNCHANGED <<active, audio, worker, engine, last>>

\* The engine that decodes while it listens.
LoadOnline(v) ==
    /\ v \in Streaming
    /\ Move(v, "loading", "opening")
    /\ UNCHANGED <<starting, active, audio, worker, engine, last>>

\* The engine that waits for the voice detector to close a segment.
LoadOffline(v) ==
    /\ v \notin Streaming
    /\ Move(v, "loading", "opening")
    /\ UNCHANGED <<starting, active, audio, worker, engine, last>>

\* No microphone, or none that can be configured: nothing runs yet.
FailDevice(v) ==
    /\ Move(v, "opening", "failed")
    /\ starting' = None
    /\ UNCHANGED <<active, audio, worker, engine, last>>

\* The worker is spawned, the stream built and played: audio comes in.
OpenMicrophone(v) ==
    /\ Move(v, "opening", "playing")
    /\ running' = [running EXCEPT ![v] = TRUE]
    /\ live' = [live EXCEPT ![v] = TRUE]
    /\ Wind(v, "receive")
    /\ UNCHANGED <<starting, active, missed, queue, dropped, engine, last>>

\* The stream cannot be built or played: the worker is there already.
FailMicrophone(v) ==
    /\ Move(v, "opening", "aborting")
    /\ Wind(v, "receive")
    /\ UNCHANGED <<starting, active, audio, engine, last>>

\* It is joined before the error is returned.
AbortStart(v) ==
    /\ worker[v] = "done"
    /\ Move(v, "aborting", "failed")
    /\ starting' = None
    /\ UNCHANGED <<active, audio, worker, engine, last>>

\* Started is only sent when the worker may have sent events already.
AnnounceStart(v) ==
    /\ Move(v, "playing", "started")
    /\ Emit(v, "other")
    /\ UNCHANGED <<starting, active, audio, worker, engine>>

FinishStart(v) ==
    /\ Move(v, "started", "recording")
    /\ active' = v
    /\ starting' = None
    /\ UNCHANGED <<audio, worker, engine, last>>

-----------------------------------------------------------------------------
(* stop_voice_ramble and NativeSpeechSession::stop.                        *)

\* The session is taken out under the mutex; another start may come at once.
TakeActive(v) ==
    /\ starting = None /\ active = v
    /\ active' = None
    /\ Move(v, "recording", "stopping")
    /\ UNCHANGED <<starting, audio, worker, engine, last>>

ClearRunning(v) ==
    /\ Move(v, "stopping", "closing")
    /\ running' = [running EXCEPT ![v] = FALSE]
    /\ UNCHANGED <<starting, active, live, missed, queue, dropped, worker, engine, last>>

\* Variant: the stream is only dropped with the session, after the join.
KeepStream(v) ==
    /\ Move(v, "closing", "joining")
    /\ UNCHANGED <<starting, active, audio, worker, engine, last>>

\* The stream is dropped: the callback is not called any more, and when it is
\* not running either, the sender of the channel that it owns is gone.
DropStream(v) ==
    /\ Move(v, "closing", "joining")
    /\ live' = [live EXCEPT ![v] = FALSE]
    /\ UNCHANGED <<starting, active, running, missed, queue, dropped, worker, engine, last>>

\* Variant: the worker is left to itself.
DetachWorker(v) ==
    /\ Move(v, "joining", "stopped")
    /\ Emit(v, "stopped")
    /\ UNCHANGED <<starting, active, audio, worker, engine>>

JoinWorker(v) ==
    /\ worker[v] = "done" /\ ~missed[v]
    /\ Move(v, "joining", "stopped")
    /\ Emit(v, "stopped")
    /\ UNCHANGED <<starting, active, audio, worker, engine>>

-----------------------------------------------------------------------------
(* The audio callback.                                                     *)

HasRoom(v) == worker[v] # "done" /\ Len(queue[v]) < Capacity

\* When a buffer comes in, or a drop is counted: too late for the session,
\* unseen by the worker at its last turn (moment), or early.
Kind(v, moment) ==
    IF ~running[v] THEN "late" ELSE IF moment THEN "unseen" ELSE "early"

\* try_send puts the buffer into the queue.
Capture(v) ==
    /\ live[v] /\ ~missed[v] /\ HasRoom(v)
    /\ queue' = [queue EXCEPT ![v] = Append(@, Kind(v, worker[v] = "timedout"))]
    /\ UNCHANGED <<control, running, live, missed, dropped, worker, engine, last>>

\* try_send finds the queue full, or its receiver gone ...
MissBuffer(v) ==
    /\ live[v] /\ ~missed[v] /\ ~HasRoom(v)
    /\ missed' = [missed EXCEPT ![v] = TRUE]
    /\ UNCHANGED <<control, running, live, queue, dropped, worker, engine, last>>

\* The worker waits, or has just waited in vain: nothing that was there before
\* will wake it for another turn.
Waiting(v) == worker[v] = "timedout" \/ (worker[v] = "receive" /\ queue[v] = <<>>)

\* ... and the drop is counted after that.
CountDrop(v) ==
    /\ missed[v]
    /\ missed' = [missed EXCEPT ![v] = FALSE]
    /\ dropped' = [dropped EXCEPT ![v] = @ \cup {Kind(v, Waiting(v))}]
    /\ UNCHANGED <<control, running, live, queue, worker, engine, last>>

\* The device reports an error; the session goes on.
StreamError(v) ==
    /\ live[v]
    /\ Emit(v, "other")
    /\ UNCHANGED <<control, audio, worker, engine>>

-----------------------------------------------------------------------------
(* run_sherpa_worker.                                                      *)

\* Nothing new, a longer partial text, or an end point: what the text says
\* becomes stable and an empty partial text follows.
AcceptOnline(v) ==
    /\ v \in Streaming
    /\ \/ UNCHANGED engine
       \/ /\ heard' = [heard EXCEPT ![v] = TRUE]
          /\ partial' = [partial EXCEPT ![v] = TRUE]
       \/ /\ heard' = [heard EXCEPT ![v] = FALSE]
          /\ partial' = [partial EXCEPT ![v] = FALSE]

\* The voice detector holds the samples until a segment is ready; there is no
\* partial text.
AcceptOffline(v) ==
    /\ v \notin Streaming
    /\ \E h \in BOOLEAN : heard' = [heard EXCEPT ![v] = h]
    /\ UNCHANGED partial

Receive(v) ==
    /\ worker[v] = "receive" /\ queue[v] # <<>>
    /\ queue' = [queue EXCEPT ![v] = Tail(@)]
    /\ AcceptOnline(v) \/ AcceptOffline(v)
    /\ Emit(v, "other")
    /\ Wind(v, "report")
    /\ UNCHANGED <<control, running, live, missed, dropped>>

\* The sender of the channel is there.
Connected(v) == live[v] \/ missed[v]

\* recv_timeout finds nothing for 80 ms ...
Timeout(v) ==
    /\ worker[v] = "receive" /\ queue[v] = <<>> /\ Connected(v)
    /\ Wind(v, "timedout")
    /\ UNCHANGED <<control, audio, engine, last>>

\* ... and only then the flag is loaded.
GoOn(v) ==
    /\ worker[v] = "timedout" /\ running[v]
    /\ Wind(v, "report")
    /\ UNCHANGED <<control, audio, engine, last>>

\* Variant: the flag is looked at before the queue.
LeaveLoopAtOnce(v) ==
    /\ worker[v] \in {"receive", "timedout"} /\ ~running[v]
    /\ Wind(v, "finish")
    /\ UNCHANGED <<control, audio, engine, last>>

\* The flag was cleared; what came in since the timeout stays in the queue.
LeaveLoop(v) ==
    /\ worker[v] = "timedout" /\ ~running[v]
    /\ Wind(v, "finish")
    /\ UNCHANGED <<control, audio, engine, last>>

\* The queue is empty and the sender gone.
Disconnect(v) ==
    /\ worker[v] = "receive" /\ queue[v] = <<>> /\ ~Connected(v)
    /\ Wind(v, "finish")
    /\ UNCHANGED <<control, audio, engine, last>>

\* Variant: a session that is being stopped reports nothing any more.
ReportWhileRunning(v) ==
    /\ worker[v] = "report"
    /\ dropped' = [dropped EXCEPT ![v] = IF running[v] THEN {} ELSE @]
    /\ Wind(v, "receive")
    /\ UNCHANGED <<control, running, live, missed, queue, engine, last>>

\* emit_backpressure_warning, after every turn that does not leave the loop.
Report(v) ==
    /\ worker[v] = "report"
    /\ dropped' = [dropped EXCEPT ![v] = {}]
    /\ last' = [last EXCEPT ![v] = IF dropped[v] # {} THEN "other" ELSE @]
    /\ Wind(v, "receive")
    /\ UNCHANGED <<control, running, live, missed, queue, engine>>

\* What is pending is decoded and committed, no text stays partial.
FinishOnline(v) ==
    /\ v \in Streaming
    /\ heard' = [heard EXCEPT ![v] = FALSE]
    /\ partial' = [partial EXCEPT ![v] = FALSE]

\* The voice detector is flushed and its last segments are decoded.
FinishOffline(v) ==
    /\ v \notin Streaming
    /\ heard' = [heard EXCEPT ![v] = FALSE]
    /\ partial' = [partial EXCEPT ![v] = FALSE]

Finish(v) ==
    /\ worker[v] = "finish"
    /\ FinishOnline(v) \/ FinishOffline(v)
    /\ Emit(v, "other")
    /\ Wind(v, "done")
    /\ UNCHANGED <<control, audio>>

-----------------------------------------------------------------------------
StartSession(v) ==
    \/ FailEngine(v) \/ LoadOnline(v) \/ LoadOffline(v) \/ FailDevice(v)
    \/ OpenMicrophone(v) \/ FailMicrophone(v) \/ AbortStart(v)
    \/ AnnounceStart(v) \/ FinishStart(v)
StopSession(v) == ClearRunning(v) \/ DropStream(v) \/ JoinWorker(v)
Work(v) ==
    \/ Receive(v) \/ Timeout(v) \/ GoOn(v) \/ LeaveLoop(v) \/ Disconnect(v)
    \/ Report(v) \/ Finish(v)
Listen(v) == Capture(v) \/ MissBuffer(v) \/ CountDrop(v)

Next ==
    \E v \in Voices :
        \/ BeginStart(v) \/ TakeActive(v)
        \/ StartSession(v) \/ StopSession(v) \/ Work(v)
        \/ Listen(v) \/ StreamError(v)

\* Threads that can go on do, and a callback returns; the person and the device
\* need do nothing.
Fairness == \A v \in Voices :
    /\ WF_vars(StartSession(v) \/ StopSession(v))
    /\ WF_vars(Work(v))
    /\ WF_vars(CountDrop(v))

Spec == Init /\ [][Next]_vars /\ Fairness

-----------------------------------------------------------------------------
(* Correctness.                                                            *)

\* The values of the variables.  There is one session a stop can reach: every
\* other microphone that is open belongs to the start in progress or to a
\* session that is being stopped.
TypeOK ==
    /\ starting \in Voices \cup {None}
    /\ active \in Voices \cup {None}
    /\ phase \in [Voices -> Phases]
    /\ running \in [Voices -> BOOLEAN]
    /\ live \in [Voices -> BOOLEAN]
    /\ missed \in [Voices -> BOOLEAN]
    /\ queue \in [Voices -> Seq(Kinds)]
    /\ \A v \in Voices : Len(queue[v]) <= Capacity
    /\ dropped \in [Voices -> SUBSET Kinds]
    /\ worker \in [Voices -> {"none", "receive", "timedout", "report", "finish", "done"}]
    /\ heard \in [Voices -> BOOLEAN]
    /\ partial \in [Voices -> BOOLEAN]
    /\ last \in [Voices -> {None, "other", "stopped"}]
    /\ \A v \in Voices : phase[v] = "recording" <=> active = v
    /\ \A v \in Voices :
          phase[v] \in {"loading", "opening", "aborting", "playing", "started"}
              <=> starting = v

Queued(v) == {queue[v][i] : i \in DOMAIN queue[v]}

\* What is captured before the stop is recognised before Stopped is sent: the
\* worker leaves nothing early in the queue, nothing heard without a stable
\* segment, no partial text on the screen.  What it may lose is a buffer that
\* comes in between its timeout and its look at the flag, which the stop clears
\* in that same moment (native.rs:710 and :720).
SpeechOutlivesStop ==
    \A v \in Voices :
        /\ worker[v] \in {"finish", "done"} => "early" \notin Queued(v)
        /\ phase[v] = "stopped" => ~heard[v] /\ ~partial[v]

\* Every drop counted before the stop is reported by a warning: the count is not
\* left behind when the worker ends, although it ends without a last look.  The
\* exceptions are a drop in the moment that SpeechOutlivesStop excepts, and one
\* that the callback counts only after the worker has drained the full queue
\* (native.rs:681 and :682).
DropsAreReported ==
    \A v \in Voices : worker[v] \in {"finish", "done"} => "early" \notin dropped[v]

\* Stopped is the last event of its session.
StoppedIsLast ==
    [][\A v \in Voices : last[v] = "stopped" => last'[v] = "stopped"]_vars

\* How far a session is for who speaks: over once its last event was sent.
Stage(v) ==
    CASE last[v] = "stopped" -> "over"
      [] last[v] # "stopped" /\ phase[v] = "new" -> "idle"
      [] last[v] # "stopped" /\ phase[v] \in {"recording", "stopping", "failed"} -> phase[v]
      [] last[v] # "stopped" /\ phase[v] \in {"closing", "joining", "stopped"} -> "closing"
      [] OTHER -> "starting"
\* What is in the queue, or was dropped without a warning yet.
Owed(v) ==
    {debt \in {"speech"} : "early" \in Queued(v)}
        \cup {debt \in {"notice"} : "early" \in dropped[v]}
        \cup {debt \in {"unseen"} : "unseen" \in Queued(v) \cup dropped[v]}
Dictated == INSTANCE Dictation
    WITH current <- IF starting # None THEN starting ELSE active,
         stage <- [v \in Voices |-> Stage(v)],
         owed <- [v \in Voices |-> Owed(v)],
         words <- [v \in Voices |-> heard[v] \/ partial[v]]

\* Whatever the threads, the queue and the audio callback do in between, the
\* sessions take turns, and one is over, its last event sent, when nothing said
\* or dropped before its microphone closed is left and no text is provisional,
\* what went unseen when the worker had caught up with all the rest apart; after
\* that nothing of it changes.
ImplementsDictation == Dictated!Spec

\* A session that is taken out to be stopped ends, and a start gives the mutex
\* back, however much audio keeps coming in.
StartsAndStopsEnd ==
    \A v \in Voices :
        /\ phase[v] = "stopping" ~> phase[v] = "stopped"
        /\ starting = v ~> starting # v
=============================================================================
