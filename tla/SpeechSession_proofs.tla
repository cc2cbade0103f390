------------------------- MODULE SpeechSession_proofs -------------------------
(***************************************************************************)
(* For any number of sessions, any choice of their engines and any length  *)
(* of the queue: types and the mutex, nothing early lost at a stop, no     *)
(* early drop without a warning, and Stopped is the last event.            *)
(***************************************************************************)
EXTENDS SpeechSession, SequenceTheorems, TLAPS

\* There is one start or one session a stop can reach, never both.
MutexInv == starting = None \/ active = None

\* What the owner thread has done so far to the flag, the stream and the worker.
Unopened == {"new", "loading", "opening"}
Open == {"playing", "started", "recording", "stopping"}
OwnerInv ==
    \A v \in Voices :
        /\ phase[v] \in Unopened => ~running[v] /\ ~live[v] /\ worker[v] = "none"
        /\ phase[v] \in Open => running[v] /\ live[v] /\ worker[v] # "none"
        /\ phase[v] = "closing" => ~running[v] /\ live[v] /\ worker[v] # "none"
        /\ phase[v] \in {"aborting", "joining"} =>
              ~running[v] /\ ~live[v] /\ worker[v] # "none"
        /\ phase[v] = "failed" => ~running[v] /\ ~live[v] /\ worker[v] \in {"none", "done"}
        /\ phase[v] = "stopped" => ~running[v] /\ ~live[v] /\ worker[v] = "done"
        /\ phase[v] \in Unopened \cup {"aborting", "failed", "stopped"} => ~missed[v]
        /\ phase[v] = "stopped" <=> last[v] = "stopped"

\* The worker leaves its loop when nothing more can come that is early; while it
\* waits for a buffer, an early drop that it has not reported means that one is
\* there, and when it has waited in vain it owes nothing early.
WorkerAt(v) ==
    /\ worker[v] \in {"finish", "done"} => ~running[v]
    /\ worker[v] \in {"timedout", "finish", "done"} =>
          "early" \notin Queued(v) /\ "early" \notin dropped[v]
    /\ worker[v] = "receive" /\ "early" \in dropped[v] => queue[v] # <<>>
    /\ worker[v] = "none" => dropped[v] = {} /\ queue[v] = <<>>
    /\ worker[v] = "done" => ~heard[v] /\ ~partial[v]
WorkerInv == \A v \in Voices : WorkerAt(v)

\* What StoppedIsLast says of a step.
Stays == \A v \in Voices : last[v] = "stopped" => last'[v] = "stopped"

IInv == TypeOK /\ MutexInv /\ OwnerInv /\ WorkerInv

-----------------------------------------------------------------------------
\* What a buffer that is put into the queue changes.
LEMMA AppendQueued ==
    ASSUME NEW q \in Seq(Kinds), NEW kind \in Kinds
    PROVE  /\ Append(q, kind) \in Seq(Kinds)
           /\ Append(q, kind) # <<>>
           /\ Len(Append(q, kind)) = Len(q) + 1
           /\ {Append(q, kind)[i] : i \in DOMAIN Append(q, kind)}
                 = {q[i] : i \in DOMAIN q} \cup {kind}
<1>1. /\ Append(q, kind) \in Seq(Kinds)
      /\ Append(q, kind) # <<>>
      /\ Len(Append(q, kind)) = Len(q) + 1
      /\ \A i \in 1..Len(q) : Append(q, kind)[i] = q[i]
      /\ Append(q, kind)[Len(q) + 1] = kind
    BY AppendProperties
<1>2. DOMAIN q = 1..Len(q) /\ Len(q) \in Nat /\ DOMAIN Append(q, kind) = 1..(Len(q) + 1)
    BY <1>1, LenProperties
<1>3. \A i : i \in 1..(Len(q) + 1) <=> i \in 1..Len(q) \/ i = Len(q) + 1
    BY <1>2
<1>4. ASSUME NEW k
      PROVE  (\E i \in DOMAIN Append(q, kind) : k = Append(q, kind)[i])
                 <=> (\E i \in DOMAIN q : k = q[i]) \/ k = kind
    BY <1>1, <1>2, <1>3
<1>5. ASSUME NEW k
      PROVE  k \in {Append(q, kind)[i] : i \in DOMAIN Append(q, kind)}
                 <=> k \in {q[i] : i \in DOMAIN q} \cup {kind}
    BY <1>4
<1> QED BY <1>1, <1>5

\* What is left when a buffer is taken out was there before.
LEMMA TailQueued ==
    ASSUME NEW q \in Seq(Kinds), q # <<>>
    PROVE  /\ Tail(q) \in Seq(Kinds) /\ Len(Tail(q)) = Len(q) - 1
           /\ {Tail(q)[i] : i \in DOMAIN Tail(q)} \subseteq {q[i] : i \in DOMAIN q}
<1>1. /\ Len(q) \in Nat /\ DOMAIN q = 1..Len(q) /\ Tail(q) \in Seq(Kinds)
      /\ Len(Tail(q)) = Len(q) - 1 /\ DOMAIN Tail(q) = 1..Len(Tail(q))
      /\ \A j \in 1..Len(Tail(q)) : Tail(q)[j] = q[j + 1]
    BY LenProperties, HeadTailProperties
<1>2. \A j \in 1..Len(Tail(q)) : j + 1 \in 1..Len(q)
    BY <1>1
<1>3. ASSUME NEW i \in DOMAIN Tail(q) PROVE \E j \in DOMAIN q : Tail(q)[i] = q[j]
    BY <1>1, <1>2
<1> QED BY <1>1, <1>3

\* The kinds are kinds.
LEMMA KindOf ==
    ASSUME NEW v \in Voices, NEW moment
    PROVE  /\ Kind(v, moment) \in Kinds
           /\ ~running[v] => Kind(v, moment) = "late"
           /\ Kind(v, moment) = "early" => running[v] /\ ~moment
           /\ Kind(v, moment) = "unseen" => running[v] /\ moment
    BY DEF Kind, Kinds

\* The variables keep their types, the queue its bound, and the mutex its owner.
LEMMA TypePreserved ==
    TypeOK /\ MutexInv /\ [Next]_vars => (TypeOK /\ MutexInv)'
<1> SUFFICES ASSUME TypeOK, MutexInv, [Next]_vars PROVE (TypeOK /\ MutexInv)'
    OBVIOUS
<1> USE NoneAssumption, CapacityAssumption DEF TypeOK, MutexInv, Phases, control, audio, engine
<1>1. ASSUME NEW v \in Voices, BeginStart(v) PROVE (TypeOK /\ MutexInv)'
    BY <1>1 DEF BeginStart, Move
<1>2. ASSUME NEW v \in Voices, FailEngine(v) PROVE (TypeOK /\ MutexInv)'
    BY <1>2 DEF FailEngine, Move
<1>3. ASSUME NEW v \in Voices, LoadOnline(v) PROVE (TypeOK /\ MutexInv)'
    BY <1>3 DEF LoadOnline, Move
<1>4. ASSUME NEW v \in Voices, LoadOffline(v) PROVE (TypeOK /\ MutexInv)'
    BY <1>4 DEF LoadOffline, Move
<1>5. ASSUME NEW v \in Voices, FailDevice(v) PROVE (TypeOK /\ MutexInv)'
    BY <1>5 DEF FailDevice, Move
<1>6. ASSUME NEW v \in Voices, OpenMicrophone(v) PROVE (TypeOK /\ MutexInv)'
    BY <1>6 DEF OpenMicrophone, Move, Wind
<1>7. ASSUME NEW v \in Voices, FailMicrophone(v) PROVE (TypeOK /\ MutexInv)'
    BY <1>7 DEF FailMicrophone, Move, Wind
<1>8. ASSUME NEW v \in Voices, AbortStart(v) PROVE (TypeOK /\ MutexInv)'
    BY <1>8 DEF AbortStart, Move
<1>9. ASSUME NEW v \in Voices, AnnounceStart(v) PROVE (TypeOK /\ MutexInv)'
    BY <1>9 DEF AnnounceStart, Move, Emit
<1>10. ASSUME NEW v \in Voices, FinishStart(v) PROVE (TypeOK /\ MutexInv)'
    BY <1>10 DEF FinishStart, Move
<1>11. ASSUME NEW v \in Voices, TakeActive(v) PROVE (TypeOK /\ MutexInv)'
    BY <1>11 DEF TakeActive, Move
<1>12. ASSUME NEW v \in Voices, ClearRunning(v) PROVE (TypeOK /\ MutexInv)'
    BY <1>12 DEF ClearRunning, Move
<1>13. ASSUME NEW v \in Voices, DropStream(v) PROVE (TypeOK /\ MutexInv)'
    BY <1>13 DEF DropStream, Move
<1>14. ASSUME NEW v \in Voices, JoinWorker(v) PROVE (TypeOK /\ MutexInv)'
    BY <1>14 DEF JoinWorker, Move, Emit
<1>15. ASSUME NEW v \in Voices, Capture(v) PROVE (TypeOK /\ MutexInv)'
    <2> DEFINE kind == Kind(v, worker[v] = "timedout")
    <2>1. queue[v] \in Seq(Kinds) /\ kind \in Kinds /\ Len(queue[v]) \in Nat
        BY LenProperties, KindOf
    <2>2. /\ Append(queue[v], kind) \in Seq(Kinds)
          /\ Len(Append(queue[v], kind)) = Len(queue[v]) + 1
        BY <2>1, AppendQueued
    <2>3. /\ queue' = [queue EXCEPT ![v] = Append(queue[v], kind)] /\ Len(queue[v]) < Capacity
          /\ UNCHANGED <<starting, active, phase, running, live, missed, dropped, worker,
                         heard, partial, last>>
        BY <1>15 DEF Capture, HasRoom
    <2> HIDE DEF kind
    <2>4. queue' \in [Voices -> Seq(Kinds)] /\ \A w \in Voices : Len(queue'[w]) <= Capacity
        BY <2>1, <2>2, <2>3
    <2> QED BY <2>3, <2>4
<1>23. ASSUME NEW v \in Voices, MissBuffer(v) PROVE (TypeOK /\ MutexInv)'
    BY <1>23 DEF MissBuffer
<1>24. ASSUME NEW v \in Voices, CountDrop(v) PROVE (TypeOK /\ MutexInv)'
    <2>1. Kind(v, Waiting(v)) \in Kinds
        BY KindOf
    <2> QED BY <1>24, <2>1 DEF CountDrop
<1>16. ASSUME NEW v \in Voices, StreamError(v) PROVE (TypeOK /\ MutexInv)'
    BY <1>16 DEF StreamError, Emit
<1>17. ASSUME NEW v \in Voices, Receive(v) PROVE (TypeOK /\ MutexInv)'
    <2>1. queue[v] \in Seq(Kinds) /\ Len(queue[v]) \in Nat /\ queue[v] # <<>>
        BY <1>17, LenProperties DEF Receive
    <2>2. Tail(queue[v]) \in Seq(Kinds) /\ Len(Tail(queue[v])) = Len(queue[v]) - 1
        BY <2>1, TailQueued
    <2>3. queue' \in [Voices -> Seq(Kinds)] /\ \A w \in Voices : Len(queue'[w]) <= Capacity
        BY <1>17, <2>1, <2>2 DEF Receive
    <2> QED BY <1>17, <2>3, ZenonT(60) DEF Receive, Emit, Wind, AcceptOnline, AcceptOffline
<1>18. ASSUME NEW v \in Voices, Timeout(v) PROVE (TypeOK /\ MutexInv)'
    BY <1>18 DEF Timeout, Wind
<1>25. ASSUME NEW v \in Voices, GoOn(v) PROVE (TypeOK /\ MutexInv)'
    BY <1>25 DEF GoOn, Wind
<1>19. ASSUME NEW v \in Voices, LeaveLoop(v) PROVE (TypeOK /\ MutexInv)'
    BY <1>19 DEF LeaveLoop, Wind
<1>26. ASSUME NEW v \in Voices, Disconnect(v) PROVE (TypeOK /\ MutexInv)'
    BY <1>26 DEF Disconnect, Wind
<1>20. ASSUME NEW v \in Voices, Report(v) PROVE (TypeOK /\ MutexInv)'
    BY <1>20 DEF Report, Wind
<1>21. ASSUME NEW v \in Voices, Finish(v) PROVE (TypeOK /\ MutexInv)'
    BY <1>21 DEF Finish, Wind, Emit, FinishOnline, FinishOffline
<1>22. CASE UNCHANGED vars
    BY <1>22 DEF vars
<1> QED BY <1>1, <1>2, <1>3, <1>4, <1>5, <1>6, <1>7, <1>8, <1>9, <1>10, <1>11,
    <1>12, <1>13, <1>14, <1>15, <1>16, <1>17, <1>18, <1>19, <1>20, <1>21, <1>22,
    <1>23, <1>24, <1>25, <1>26 DEF Next, StartSession, StopSession, Work, Listen

\* The owner thread opens and closes in its order, and says Stopped last.
LEMMA OwnerPreserved ==
    TypeOK /\ OwnerInv /\ WorkerInv /\ [Next]_vars => OwnerInv'
<1> SUFFICES ASSUME TypeOK, OwnerInv, WorkerInv, [Next]_vars PROVE OwnerInv'
    OBVIOUS
<1> USE DEF TypeOK, OwnerInv, Unopened, Open, Phases, control, audio, engine
<1>1. ASSUME NEW v \in Voices, BeginStart(v) PROVE OwnerInv'
    BY <1>1 DEF BeginStart, Move
<1>2. ASSUME NEW v \in Voices, FailEngine(v) PROVE OwnerInv'
    BY <1>2 DEF FailEngine, Move
<1>3. ASSUME NEW v \in Voices, LoadOnline(v) PROVE OwnerInv'
    BY <1>3 DEF LoadOnline, Move
<1>4. ASSUME NEW v \in Voices, LoadOffline(v) PROVE OwnerInv'
    BY <1>4 DEF LoadOffline, Move
<1>5. ASSUME NEW v \in Voices, FailDevice(v) PROVE OwnerInv'
    BY <1>5 DEF FailDevice, Move
<1>6. ASSUME NEW v \in Voices, OpenMicrophone(v) PROVE OwnerInv'
    BY <1>6 DEF OpenMicrophone, Move, Wind
<1>7. ASSUME NEW v \in Voices, FailMicrophone(v) PROVE OwnerInv'
    BY <1>7 DEF FailMicrophone, Move, Wind
<1>8. ASSUME NEW v \in Voices, AbortStart(v) PROVE OwnerInv'
    BY <1>8 DEF AbortStart, Move
<1>9. ASSUME NEW v \in Voices, AnnounceStart(v) PROVE OwnerInv'
    BY <1>9 DEF AnnounceStart, Move, Emit
<1>10. ASSUME NEW v \in Voices, FinishStart(v) PROVE OwnerInv'
    BY <1>10 DEF FinishStart, Move
<1>11. ASSUME NEW v \in Voices, TakeActive(v) PROVE OwnerInv'
    BY <1>11 DEF TakeActive, Move
<1>12. ASSUME NEW v \in Voices, ClearRunning(v) PROVE OwnerInv'
    BY <1>12 DEF ClearRunning, Move
<1>13. ASSUME NEW v \in Voices, DropStream(v) PROVE OwnerInv'
    BY <1>13 DEF DropStream, Move
<1>14. ASSUME NEW v \in Voices, JoinWorker(v) PROVE OwnerInv'
    BY <1>14 DEF JoinWorker, Move, Emit
<1>15. ASSUME NEW v \in Voices, Capture(v) PROVE OwnerInv'
    BY <1>15 DEF Capture
<1>23. ASSUME NEW v \in Voices, MissBuffer(v) PROVE OwnerInv'
    BY <1>23 DEF MissBuffer
<1>24. ASSUME NEW v \in Voices, CountDrop(v) PROVE OwnerInv'
    BY <1>24 DEF CountDrop
<1>16. ASSUME NEW v \in Voices, StreamError(v) PROVE OwnerInv'
    BY <1>16 DEF StreamError, Emit
<1>17. ASSUME NEW v \in Voices, Receive(v) PROVE OwnerInv'
    BY <1>17 DEF Receive, Emit, Wind, AcceptOnline, AcceptOffline
<1>18. ASSUME NEW v \in Voices, Timeout(v) PROVE OwnerInv'
    BY <1>18 DEF Timeout, Wind
<1>25. ASSUME NEW v \in Voices, GoOn(v) PROVE OwnerInv'
    BY <1>25 DEF GoOn, Wind
<1>19. ASSUME NEW v \in Voices, LeaveLoop(v) PROVE OwnerInv'
    BY <1>19 DEF LeaveLoop, Wind
<1>26. ASSUME NEW v \in Voices, Disconnect(v) PROVE OwnerInv'
    BY <1>26 DEF Disconnect, Wind
<1>20. ASSUME NEW v \in Voices, Report(v) PROVE OwnerInv'
    BY <1>20 DEF Report, Wind
<1>21. ASSUME NEW v \in Voices, Finish(v) PROVE OwnerInv'
    BY <1>21 DEF Finish, Wind, Emit, FinishOnline, FinishOffline
<1>22. CASE UNCHANGED vars
    BY <1>22 DEF vars
<1> QED BY <1>1, <1>2, <1>3, <1>4, <1>5, <1>6, <1>7, <1>8, <1>9, <1>10, <1>11,
    <1>12, <1>13, <1>14, <1>15, <1>16, <1>17, <1>18, <1>19, <1>20, <1>21, <1>22,
    <1>23, <1>24, <1>25, <1>26 DEF Next, StartSession, StopSession, Work, Listen

\* The worker's account of a session that a step leaves alone.
SameWork(w) ==
    /\ worker'[w] = worker[w] /\ running'[w] = running[w]
    /\ queue'[w] = queue[w] /\ dropped'[w] = dropped[w]
    /\ heard'[w] = heard[w] /\ partial'[w] = partial[w]

\* It stays as it is.
LEMMA SameWorkKept ==
    ASSUME NEW w \in Voices, WorkerAt(w), SameWork(w)
    PROVE  WorkerAt(w)'
<1>1. Queued(w)' = Queued(w)
    BY DEF SameWork, Queued
<1> QED BY <1>1 DEF SameWork, WorkerAt

\* A step of one session is settled by that session.
LEMMA WorkOfOne ==
    ASSUME WorkerInv, NEW v \in Voices, \A w \in Voices \ {v} : SameWork(w), WorkerAt(v)'
    PROVE  WorkerInv'
<1> SUFFICES ASSUME NEW w \in Voices PROVE WorkerAt(w)'
    BY DEF WorkerInv
<1>1. CASE w = v
    BY <1>1
<1>2. CASE w # v
    BY <1>2, SameWorkKept DEF WorkerInv
<1> QED BY <1>1, <1>2

\* The worker keeps its account of what is queued, dropped and heard.
LEMMA WorkerPreserved ==
    TypeOK /\ OwnerInv /\ WorkerInv /\ [Next]_vars => WorkerInv'
<1> SUFFICES ASSUME TypeOK, OwnerInv, WorkerInv, [Next]_vars PROVE WorkerInv'
    OBVIOUS
<1> USE DEF TypeOK
<1>0. \A v \in Voices : WorkerAt(v)
    BY DEF WorkerInv
<1>1. CASE UNCHANGED <<running, queue, dropped, worker, heard, partial>>
    <2>1. \A w \in Voices : SameWork(w)
        BY <1>1 DEF SameWork
    <2> QED BY <1>0, <2>1, SameWorkKept DEF WorkerInv
<1>2. ASSUME NEW v \in Voices, OpenMicrophone(v) \/ FailMicrophone(v) PROVE WorkerInv'
    <2>1. worker[v] = "none" /\ worker'[v] = "receive" /\ UNCHANGED <<queue, dropped, heard, partial>>
        BY <1>2 DEF OpenMicrophone, FailMicrophone, Move, Wind, OwnerInv, Unopened, audio, engine
    <2>2. \A w \in Voices \ {v} : SameWork(w)
        BY <1>2, <2>1 DEF OpenMicrophone, FailMicrophone, Move, Wind, SameWork, audio
    <2>3. WorkerAt(v)'
        BY <1>0, <2>1 DEF WorkerAt
    <2> QED BY <2>2, <2>3, WorkOfOne
<1>3. ASSUME NEW v \in Voices, ClearRunning(v) PROVE WorkerInv'
    <2>1. running'[v] = FALSE /\ UNCHANGED <<queue, dropped, worker, heard, partial>>
        BY <1>3 DEF ClearRunning, engine
    <2>2. \A w \in Voices \ {v} : SameWork(w)
        BY <1>3, <2>1 DEF ClearRunning, SameWork
    <2>3. Queued(v)' = Queued(v)
        BY <2>1 DEF Queued
    <2>4. WorkerAt(v)'
        BY <1>0, <2>1, <2>3 DEF WorkerAt
    <2> QED BY <2>2, <2>4, WorkOfOne
<1>4. ASSUME NEW v \in Voices, Capture(v) PROVE WorkerInv'
    <2> DEFINE kind == Kind(v, worker[v] = "timedout")
    <2>1. kind \in Kinds /\ queue[v] \in Seq(Kinds) /\ worker[v] # "done"
        BY <1>4, KindOf DEF Capture, HasRoom
    <2>2. /\ queue' = [queue EXCEPT ![v] = Append(queue[v], kind)]
          /\ UNCHANGED <<running, dropped, worker, heard, partial>>
        BY <1>4 DEF Capture, control, engine
    <2>3. /\ kind = "early" => running[v] /\ worker[v] # "timedout"
        BY KindOf
    <2>4. worker[v] # "none"
        BY <1>4 DEF Capture, OwnerInv, Unopened, Open, Phases
    <2> HIDE DEF kind
    <2>5. queue'[v] = Append(queue[v], kind) /\ \A w \in Voices \ {v} : SameWork(w)
        BY <2>2 DEF SameWork
    <2> HIDE DEF TypeOK
    <2>6. Queued(v)' = Queued(v) \cup {kind} /\ queue'[v] # <<>>
        <3>1. queue'[v] = Append(queue[v], kind)
            BY <2>5
        <3> QED BY <2>1, <3>1, AppendQueued DEF Queued
    <2>7. WorkerAt(v)'
        BY <1>0, <2>1, <2>2, <2>3, <2>4, <2>6 DEF WorkerAt
    <2> QED BY <2>5, <2>7, WorkOfOne
<1>5. ASSUME NEW v \in Voices, CountDrop(v) PROVE WorkerInv'
    <2> DEFINE kind == Kind(v, Waiting(v))
    <2>1. /\ dropped' = [dropped EXCEPT ![v] = dropped[v] \cup {kind}]
          /\ UNCHANGED <<running, queue, worker, heard, partial>> /\ missed[v]
        BY <1>5 DEF CountDrop, control, engine
    <2>2. kind = "early" => running[v] /\ worker[v] # "timedout"
                                       /\ (worker[v] = "receive" => queue[v] # <<>>)
        BY KindOf DEF Waiting
    <2>3. worker[v] # "none"
        BY <2>1 DEF OwnerInv, Unopened, Open, Phases
    <2> HIDE DEF kind
    <2>4. dropped'[v] = dropped[v] \cup {kind} /\ \A w \in Voices \ {v} : SameWork(w)
        BY <2>1 DEF SameWork
    <2>5. Queued(v)' = Queued(v)
        BY <2>1 DEF Queued
    <2>6. WorkerAt(v)'
        BY <1>0, <2>1, <2>2, <2>3, <2>4, <2>5 DEF WorkerAt
    <2> QED BY <2>4, <2>6, WorkOfOne
<1>6. ASSUME NEW v \in Voices, Receive(v) PROVE WorkerInv'
    <2>1. worker'[v] = "report" /\ \A w \in Voices \ {v} : SameWork(w)
        BY <1>6 DEF Receive, Wind, AcceptOnline, AcceptOffline, SameWork, engine
    <2>2. WorkerAt(v)'
        BY <2>1 DEF WorkerAt
    <2> QED BY <2>1, <2>2, WorkOfOne
<1>7. ASSUME NEW v \in Voices, Timeout(v) \/ GoOn(v) \/ LeaveLoop(v) \/ Disconnect(v)
      PROVE  WorkerInv'
    <2>1. /\ UNCHANGED <<running, queue, dropped, heard, partial>>
          /\ \A w \in Voices \ {v} : worker'[w] = worker[w]
        BY <1>7 DEF Timeout, GoOn, LeaveLoop, Disconnect, Wind, audio, engine
    <2>2. \A w \in Voices \ {v} : SameWork(w)
        BY <2>1 DEF SameWork
    <2>3. Queued(v)' = Queued(v) /\ (queue[v] = <<>> => Queued(v) = {})
        BY <2>1 DEF Queued
    <2>4. CASE Timeout(v)
        <3>1. worker[v] = "receive" /\ queue[v] = <<>> /\ worker'[v] = "timedout"
            BY <2>4 DEF Timeout, Wind
        <3>2. WorkerAt(v)'
            BY <1>0, <2>1, <2>3, <3>1 DEF WorkerAt
        <3> QED BY <2>2, <3>2, WorkOfOne
    <2>5. CASE GoOn(v)
        <3>1. worker'[v] = "report"
            BY <2>5 DEF GoOn, Wind
        <3>2. WorkerAt(v)'
            BY <3>1 DEF WorkerAt
        <3> QED BY <2>2, <3>2, WorkOfOne
    <2>6. CASE LeaveLoop(v)
        <3>1. worker[v] = "timedout" /\ ~running[v] /\ worker'[v] = "finish"
            BY <2>6 DEF LeaveLoop, Wind
        <3>2. WorkerAt(v)'
            BY <1>0, <2>1, <2>3, <3>1 DEF WorkerAt
        <3> QED BY <2>2, <3>2, WorkOfOne
    <2>7. CASE Disconnect(v)
        <3>1. worker[v] = "receive" /\ queue[v] = <<>> /\ ~live[v] /\ worker'[v] = "finish"
            BY <2>7 DEF Disconnect, Connected, Wind
        <3>2. ~running[v]
            BY <3>1 DEF OwnerInv, Unopened, Open, Phases
        <3>3. WorkerAt(v)'
            BY <1>0, <2>1, <2>3, <3>1, <3>2 DEF WorkerAt
        <3> QED BY <2>2, <3>3, WorkOfOne
    <2> QED BY <1>7, <2>4, <2>5, <2>6, <2>7
<1>8. ASSUME NEW v \in Voices, Report(v) PROVE WorkerInv'
    <2>1. worker'[v] = "receive" /\ dropped'[v] = {} /\ \A w \in Voices \ {v} : SameWork(w)
        BY <1>8 DEF Report, Wind, SameWork, engine
    <2>2. WorkerAt(v)'
        BY <2>1 DEF WorkerAt
    <2> QED BY <2>1, <2>2, WorkOfOne
<1>9. ASSUME NEW v \in Voices, Finish(v) PROVE WorkerInv'
    <2>1. /\ worker[v] = "finish" /\ worker'[v] = "done" /\ UNCHANGED <<running, queue, dropped>>
          /\ ~heard'[v] /\ ~partial'[v]
          /\ \A w \in Voices \ {v} : SameWork(w)
        BY <1>9 DEF Finish, Wind, FinishOnline, FinishOffline, SameWork, audio
    <2>2. Queued(v)' = Queued(v)
        BY <2>1 DEF Queued
    <2>3. WorkerAt(v)'
        BY <1>0, <2>1, <2>2 DEF WorkerAt
    <2> QED BY <2>1, <2>3, WorkOfOne
<1>10. ASSUME \/ UNCHANGED vars
              \/ \E v \in Voices :
                    \/ BeginStart(v) \/ FailEngine(v) \/ LoadOnline(v) \/ LoadOffline(v)
                    \/ FailDevice(v) \/ AbortStart(v) \/ AnnounceStart(v) \/ FinishStart(v)
                    \/ TakeActive(v) \/ DropStream(v) \/ JoinWorker(v)
                    \/ MissBuffer(v) \/ StreamError(v)
       PROVE  WorkerInv'
    <2>1. UNCHANGED <<running, queue, dropped, worker, heard, partial>>
        BY <1>10 DEF vars, BeginStart, FailEngine, LoadOnline, LoadOffline, FailDevice,
            AbortStart, AnnounceStart, FinishStart, TakeActive, DropStream, JoinWorker,
            MissBuffer, StreamError, control, audio, engine
    <2> QED BY <1>1, <2>1
<1> QED BY <1>2, <1>3, <1>4, <1>5, <1>6, <1>7, <1>8, <1>9, <1>10
    DEF Next, StartSession, StopSession, Work, Listen

\* No step sends an event of a session that has stopped.
LEMMA StoppedKept ==
    TypeOK /\ OwnerInv /\ [Next]_vars => Stays
<1> SUFFICES ASSUME TypeOK, OwnerInv, [Next]_vars PROVE Stays
    OBVIOUS
<1> USE DEF Stays, TypeOK, OwnerInv, Unopened, Open, Phases, control, audio, engine
<1>1. ASSUME NEW v \in Voices, BeginStart(v) PROVE Stays
    BY <1>1 DEF BeginStart, Move
<1>2. ASSUME NEW v \in Voices, FailEngine(v) PROVE Stays
    BY <1>2 DEF FailEngine, Move
<1>3. ASSUME NEW v \in Voices, LoadOnline(v) PROVE Stays
    BY <1>3 DEF LoadOnline, Move
<1>4. ASSUME NEW v \in Voices, LoadOffline(v) PROVE Stays
    BY <1>4 DEF LoadOffline, Move
<1>5. ASSUME NEW v \in Voices, FailDevice(v) PROVE Stays
    BY <1>5 DEF FailDevice, Move
<1>6. ASSUME NEW v \in Voices, OpenMicrophone(v) PROVE Stays
    BY <1>6 DEF OpenMicrophone, Move, Wind
<1>7. ASSUME NEW v \in Voices, FailMicrophone(v) PROVE Stays
    BY <1>7 DEF FailMicrophone, Move, Wind
<1>8. ASSUME NEW v \in Voices, AbortStart(v) PROVE Stays
    BY <1>8 DEF AbortStart, Move
<1>9. ASSUME NEW v \in Voices, AnnounceStart(v) PROVE Stays
    BY <1>9 DEF AnnounceStart, Move, Emit
<1>10. ASSUME NEW v \in Voices, FinishStart(v) PROVE Stays
    BY <1>10 DEF FinishStart, Move
<1>11. ASSUME NEW v \in Voices, TakeActive(v) PROVE Stays
    BY <1>11 DEF TakeActive, Move
<1>12. ASSUME NEW v \in Voices, ClearRunning(v) PROVE Stays
    BY <1>12 DEF ClearRunning, Move
<1>13. ASSUME NEW v \in Voices, DropStream(v) PROVE Stays
    BY <1>13 DEF DropStream, Move
<1>14. ASSUME NEW v \in Voices, JoinWorker(v) PROVE Stays
    BY <1>14 DEF JoinWorker, Move, Emit
<1>15. ASSUME NEW v \in Voices, Capture(v) PROVE Stays
    BY <1>15 DEF Capture
<1>23. ASSUME NEW v \in Voices, MissBuffer(v) PROVE Stays
    BY <1>23 DEF MissBuffer
<1>24. ASSUME NEW v \in Voices, CountDrop(v) PROVE Stays
    BY <1>24 DEF CountDrop
<1>16. ASSUME NEW v \in Voices, StreamError(v) PROVE Stays
    BY <1>16 DEF StreamError, Emit
<1>17. ASSUME NEW v \in Voices, Receive(v) PROVE Stays
    BY <1>17 DEF Receive, Emit, Wind, AcceptOnline, AcceptOffline
<1>18. ASSUME NEW v \in Voices, Timeout(v) PROVE Stays
    BY <1>18 DEF Timeout, Wind
<1>25. ASSUME NEW v \in Voices, GoOn(v) PROVE Stays
    BY <1>25 DEF GoOn, Wind
<1>19. ASSUME NEW v \in Voices, LeaveLoop(v) PROVE Stays
    BY <1>19 DEF LeaveLoop, Wind
<1>26. ASSUME NEW v \in Voices, Disconnect(v) PROVE Stays
    BY <1>26 DEF Disconnect, Wind
<1>20. ASSUME NEW v \in Voices, Report(v) PROVE Stays
    BY <1>20 DEF Report, Wind
<1>21. ASSUME NEW v \in Voices, Finish(v) PROVE Stays
    BY <1>21 DEF Finish, Wind, Emit, FinishOnline, FinishOffline
<1>22. CASE UNCHANGED vars
    BY <1>22 DEF vars
<1> QED BY <1>1, <1>2, <1>3, <1>4, <1>5, <1>6, <1>7, <1>8, <1>9, <1>10, <1>11,
    <1>12, <1>13, <1>14, <1>15, <1>16, <1>17, <1>18, <1>19, <1>20, <1>21, <1>22,
    <1>23, <1>24, <1>25, <1>26 DEF Next, StartSession, StopSession, Work, Listen

-----------------------------------------------------------------------------
\* The first state is as the invariant says.
LEMMA InitIInv == Init => IInv
<1> SUFFICES ASSUME Init PROVE IInv
    OBVIOUS
<1>1. TypeOK
    BY NoneAssumption, CapacityAssumption DEF Init, TypeOK, Phases
<1>2. MutexInv /\ OwnerInv
    BY NoneAssumption DEF Init, MutexInv, OwnerInv, Unopened, Open
<1>3. WorkerInv
    BY DEF Init, WorkerInv, WorkerAt
<1> QED BY <1>1, <1>2, <1>3 DEF IInv

\* The invariant is inductive.
THEOREM Invariance == Spec => []IInv
<1>1. IInv /\ [Next]_vars => IInv'
    BY TypePreserved, OwnerPreserved, WorkerPreserved DEF IInv
<1> QED BY InitIInv, <1>1, PTL DEF Spec

\* The variables keep their types, and every open microphone is owned by a start,
\* by the session a stop can reach, or by a stop.
THEOREM TypeCorrect == Spec => []TypeOK
<1>1. IInv => TypeOK
    BY DEF IInv
<1> QED BY Invariance, <1>1, PTL

\* Whatever was captured before the stop is recognised before Stopped is sent, but
\* for what comes in between the last timeout and the look at the flag.
THEOREM SpeechOutlivesStopCorrect == Spec => []SpeechOutlivesStop
<1>1. IInv => SpeechOutlivesStop
    BY DEF IInv, OwnerInv, WorkerInv, WorkerAt, SpeechOutlivesStop
<1> QED BY Invariance, <1>1, PTL

\* Every drop counted before the stop is reported before the worker ends, but for
\* one that is counted when the worker has run out of buffers.
THEOREM DropsAreReportedCorrect == Spec => []DropsAreReported
<1>1. IInv => DropsAreReported
    BY DEF IInv, WorkerInv, WorkerAt, DropsAreReported
<1> QED BY Invariance, <1>1, PTL

\* No event of a session follows its Stopped.
THEOREM StoppedIsLastCorrect == Spec => StoppedIsLast
<1>1. IInv /\ [Next]_vars => [Stays]_vars
    BY StoppedKept DEF IInv
<1>2. [][Stays]_vars => StoppedIsLast
    BY PTL DEF StoppedIsLast, Stays
<1> QED BY Invariance, <1>1, <1>2, PTL DEF Spec

-----------------------------------------------------------------------------
(* SpeechSession implements Dictation.                                     *)

Current == IF starting # None THEN starting ELSE active
Begun == {"starting", "recording", "stopping", "closing"}

\* All that Dictation knows of session w is as before.
SameSession(w) ==
    /\ phase'[w] = phase[w] /\ last'[w] = last[w] /\ queue'[w] = queue[w]
    /\ dropped'[w] = dropped[w] /\ heard'[w] = heard[w] /\ partial'[w] = partial[w]
OnlyOf(v) == \A w \in Voices \ {v} : SameSession(w)

\* Dictation then sees it unchanged.
LEMMA SameIsSeen ==
    ASSUME NEW w \in Voices, SameSession(w)
    PROVE  /\ Stage(w)' = Stage(w) /\ Owed(w)' = Owed(w)
           /\ (heard[w] \/ partial[w])' = (heard[w] \/ partial[w])
    BY DEF SameSession, Stage, Owed, Queued

\* A step of one session that changes nothing Dictation knows of it.
LEMMA Unnoticed ==
    ASSUME NEW v \in Voices, OnlyOf(v), Current' = Current,
           Stage(v)' = Stage(v), UNCHANGED <<queue, dropped, heard, partial>>
    PROVE  UNCHANGED Dictated!vars
<1>1. \A w \in Voices : Stage(w)' = Stage(w) /\ Owed(w)' = Owed(w)
    BY SameIsSeen DEF OnlyOf, Owed, Queued
<1>2. /\ [w \in Voices |-> Stage(w)]' = [w \in Voices |-> Stage(w)]
      /\ [w \in Voices |-> Owed(w)]' = [w \in Voices |-> Owed(w)]
      /\ [w \in Voices |-> heard[w] \/ partial[w]]' = [w \in Voices |-> heard[w] \/ partial[w]]
    BY <1>1
<1> QED BY <1>2 DEF Dictated!vars, Current

\* A step of the session's own course.
LEMMA Moves ==
    ASSUME NEW v \in Voices, OnlyOf(v), UNCHANGED <<queue, dropped, heard, partial>>,
           NEW from, NEW to, Stage(v) = from, Stage(v)' = to
    PROVE  /\ Dictated!Move(v, from, to)
           /\ UNCHANGED <<[w \in Voices |-> Owed(w)], [w \in Voices |-> heard[w] \/ partial[w]]>>
<1>1. \A w \in Voices \ {v} : Stage(w)' = Stage(w)
    BY SameIsSeen DEF OnlyOf
<1>2. [w \in Voices |-> Stage(w)]' = [[w \in Voices |-> Stage(w)] EXCEPT ![v] = to]
    BY <1>1
<1>3. \A w \in Voices : Owed(w)' = Owed(w)
    BY DEF Owed, Queued
<1>4. UNCHANGED <<[w \in Voices |-> Owed(w)], [w \in Voices |-> heard[w] \/ partial[w]]>>
    BY <1>3
<1> QED BY <1>2, <1>4 DEF Dictated!Move

\* Audio, recognition and warnings of a session that has begun.
LEMMA Hears ==
    ASSUME NEW v \in Voices, OnlyOf(v), Current' = Current,
           Stage(v) \in Begun, Stage(v)' = Stage(v),
           Stage(v) = "closing" => Owed(v)' \subseteq Owed(v),
           "unseen" \in Owed(v)' \ Owed(v) => Owed(v) = {}
    PROVE  Dictated!Hear(v)
<1>1. PICK debts : debts = Owed(v)'
    OBVIOUS
<1>2. PICK changing : changing = (heard[v] \/ partial[v])'
    OBVIOUS
<1>3. debts \in SUBSET Dictated!Debts /\ changing \in BOOLEAN
    BY <1>1, <1>2 DEF Owed, Dictated!Debts
<1>4. \A w \in Voices \ {v} :
          /\ Stage(w)' = Stage(w) /\ Owed(w)' = Owed(w)
          /\ (heard[w] \/ partial[w])' = (heard[w] \/ partial[w])
    BY SameIsSeen DEF OnlyOf
<1>5. [w \in Voices |-> Stage(w)]' = [w \in Voices |-> Stage(w)]
    BY <1>4
<1>6. [w \in Voices |-> Owed(w)]' = [[w \in Voices |-> Owed(w)] EXCEPT ![v] = debts]
    BY <1>1, <1>4
<1>7. [w \in Voices |-> heard[w] \/ partial[w]]'
          = [[w \in Voices |-> heard[w] \/ partial[w]] EXCEPT ![v] = changing]
    BY <1>2, <1>4
<1> QED BY <1>1, <1>3, <1>5, <1>6, <1>7 DEF Dictated!Hear, Begun, Current

\* Where a session with a stream or a worker that is not done is.
LEMMA Working ==
    ASSUME TypeOK, OwnerInv, NEW v \in Voices,
           live[v] \/ missed[v] \/ worker[v] \notin {"none", "done"}
    PROVE  /\ Stage(v) \in Begun /\ last[v] # "stopped"
           /\ Stage(v) = "closing" => ~running[v]
<1>1. phase[v] \in {"aborting", "playing", "started", "recording", "stopping", "closing", "joining"}
    BY DEF TypeOK, OwnerInv, Phases, Unopened
<1>2. last[v] # "stopped"
    BY <1>1 DEF OwnerInv
<1> QED BY <1>1, <1>2 DEF Stage, Begun, OwnerInv

\* What a kind adds to the debts when it is put into the queue or counted.
LEMMA Owing ==
    ASSUME NEW v \in Voices, NEW kind \in Kinds,
           \/ Queued(v)' = Queued(v) \cup {kind} /\ dropped'[v] = dropped[v]
           \/ Queued(v)' = Queued(v) /\ dropped'[v] = dropped[v] \cup {kind}
    PROVE  /\ kind = "late" => Owed(v)' = Owed(v)
           /\ "unseen" \in Owed(v)' \ Owed(v) => kind = "unseen"
<1>1. "unseen" \in Owed(v) <=> "unseen" \in Queued(v) \cup dropped[v]
    BY DEF Owed
<1>2. "unseen" \in Owed(v)' <=> "unseen" \in Queued(v)' \cup dropped'[v]
    BY DEF Owed
<1>3. "unseen" \in Owed(v)' \ Owed(v) => kind = "unseen"
    BY <1>1, <1>2
<1>4. ASSUME kind = "late" PROVE Owed(v)' = Owed(v)
    <2>1. /\ "early" \in Queued(v)' <=> "early" \in Queued(v)
          /\ "early" \in dropped'[v] <=> "early" \in dropped[v]
          /\ "unseen" \in Queued(v)' \cup dropped'[v]
                <=> "unseen" \in Queued(v) \cup dropped[v]
        BY <1>4
    <2> QED BY <2>1 DEF Owed
<1> QED BY <1>3, <1>4

\* A worker that waits in vain owes at most what went unseen before.
LEMMA CaughtUp ==
    ASSUME TypeOK, WorkerInv, NEW v \in Voices, Waiting(v), "unseen" \notin Owed(v)
    PROVE  Owed(v) = {}
<1>1. WorkerAt(v)
    BY DEF WorkerInv
<1>2. queue[v] = <<>> => Queued(v) = {}
    BY DEF Queued
<1>3. "early" \notin Queued(v) /\ "early" \notin dropped[v]
    BY <1>1, <1>2 DEF Waiting, WorkerAt
<1> QED BY <1>3 DEF Owed

\* The audio callback.
LEMMA CaptureHears ==
    ASSUME IInv, NEW v \in Voices, Capture(v)
    PROVE  Dictated!Hear(v)
<1> DEFINE kind == Kind(v, worker[v] = "timedout")
<1>1. /\ OnlyOf(v) /\ Current' = Current /\ Stage(v)' = Stage(v)
      /\ Stage(v) \in Begun /\ (Stage(v) = "closing" => ~running[v])
    <2>1. Stage(v) \in Begun /\ (Stage(v) = "closing" => ~running[v])
        BY Working DEF Capture, IInv
    <2> QED BY <2>1 DEF Capture, control, engine, OnlyOf, SameSession, IInv, TypeOK, Current, Stage
<1>2. /\ kind \in Kinds /\ (~running[v] => kind = "late")
      /\ kind = "unseen" => worker[v] = "timedout"
    BY KindOf
<1>3. queue[v] \in Seq(Kinds) /\ queue'[v] = Append(queue[v], kind) /\ dropped' = dropped
    BY DEF Capture, IInv, TypeOK
<1> HIDE DEF kind
<1>4. Queued(v)' = Queued(v) \cup {kind} /\ dropped'[v] = dropped[v]
    BY <1>2, <1>3, AppendQueued DEF Queued
<1>5. /\ kind = "late" => Owed(v)' = Owed(v)
      /\ "unseen" \in Owed(v)' \ Owed(v) => kind = "unseen"
    BY <1>2, <1>4, Owing
<1>6. Stage(v) = "closing" => Owed(v)' \subseteq Owed(v)
    BY <1>1, <1>2, <1>5
<1>7. "unseen" \in Owed(v)' \ Owed(v) => Owed(v) = {}
    BY <1>2, <1>5, CaughtUp DEF Waiting, IInv
<1> QED BY <1>1, <1>6, <1>7, Hears
LEMMA CountHears ==
    ASSUME IInv, NEW v \in Voices, CountDrop(v)
    PROVE  Dictated!Hear(v)
<1> DEFINE kind == Kind(v, Waiting(v))
<1>1. /\ OnlyOf(v) /\ Current' = Current /\ Stage(v)' = Stage(v)
      /\ Stage(v) \in Begun /\ (Stage(v) = "closing" => ~running[v])
    <2>1. Stage(v) \in Begun /\ (Stage(v) = "closing" => ~running[v])
        BY Working DEF CountDrop, IInv
    <2> QED BY <2>1 DEF CountDrop, control, engine, OnlyOf, SameSession, IInv, TypeOK, Current, Stage
<1>2. /\ kind \in Kinds /\ (~running[v] => kind = "late")
      /\ kind = "unseen" => Waiting(v)
    BY KindOf
<1>3. queue' = queue /\ dropped'[v] = dropped[v] \cup {kind}
    BY DEF CountDrop, IInv, TypeOK
<1> HIDE DEF kind
<1>4. Queued(v)' = Queued(v)
    BY <1>3 DEF Queued
<1>5. /\ kind = "late" => Owed(v)' = Owed(v)
      /\ "unseen" \in Owed(v)' \ Owed(v) => kind = "unseen"
    BY <1>2, <1>3, <1>4, Owing
<1>6. Stage(v) = "closing" => Owed(v)' \subseteq Owed(v)
    BY <1>1, <1>2, <1>5
<1>7. "unseen" \in Owed(v)' \ Owed(v) => Owed(v) = {}
    BY <1>2, <1>5, CaughtUp DEF IInv
<1> QED BY <1>1, <1>6, <1>7, Hears
LEMMA MissUnnoticed ==
    ASSUME NEW v \in Voices, MissBuffer(v)
    PROVE  UNCHANGED Dictated!vars
<1>1. UNCHANGED <<starting, active, phase, last, queue, dropped, heard, partial>>
    BY DEF MissBuffer, control, engine
<1> QED BY <1>1, Unnoticed DEF OnlyOf, SameSession, Current, Stage

\* The worker's turns: a buffer, a warning, the last text.
LEMMA ReceiveHears ==
    ASSUME TypeOK, OwnerInv, NEW v \in Voices, Receive(v)
    PROVE  Dictated!Hear(v)
<1>1. Stage(v) \in Begun /\ last[v] # "stopped"
    BY Working DEF Receive
<1>2. /\ phase' = phase /\ last' = [last EXCEPT ![v] = "other"]
      /\ UNCHANGED <<starting, active, dropped>>
      /\ queue' = [queue EXCEPT ![v] = Tail(queue[v])] /\ queue[v] # <<>>
      /\ \A w \in Voices \ {v} : heard'[w] = heard[w] /\ partial'[w] = partial[w]
    BY DEF Receive, Emit, control, engine, AcceptOnline, AcceptOffline, TypeOK
<1>3. OnlyOf(v) /\ Current' = Current /\ Stage(v)' = Stage(v)
    BY <1>1, <1>2 DEF OnlyOf, SameSession, TypeOK, Current, Stage
<1>4. queue'[v] = Tail(queue[v]) /\ queue[v] \in Seq(Kinds)
    BY <1>2 DEF TypeOK
<1>5. Owed(v)' \subseteq Owed(v)
    <2>1. Queued(v)' \subseteq Queued(v) /\ dropped'[v] = dropped[v]
        BY <1>2, <1>4, TailQueued DEF Queued
    <2> QED BY <2>1 DEF Owed
<1> QED BY <1>1, <1>3, <1>5, Hears
LEMMA ReportHears ==
    ASSUME TypeOK, OwnerInv, NEW v \in Voices, Report(v)
    PROVE  Dictated!Hear(v)
<1>1. Stage(v) \in Begun /\ last[v] # "stopped"
    BY Working DEF Report
<1>2. /\ UNCHANGED <<phase, starting, active, queue, heard, partial>>
      /\ dropped' = [dropped EXCEPT ![v] = {}]
      /\ last' = [last EXCEPT ![v] = IF dropped[v] # {} THEN "other" ELSE last[v]]
    BY DEF Report, control, engine
<1>3. OnlyOf(v) /\ Current' = Current /\ Stage(v)' = Stage(v)
    BY <1>1, <1>2 DEF OnlyOf, SameSession, TypeOK, Current, Stage
<1>4. Owed(v)' \subseteq Owed(v)
    <2>1. Queued(v)' = Queued(v) /\ dropped'[v] = {}
        BY <1>2 DEF Queued, TypeOK
    <2> QED BY <2>1 DEF Owed
<1> QED BY <1>1, <1>3, <1>4, Hears
LEMMA FinishHears ==
    ASSUME TypeOK, OwnerInv, NEW v \in Voices, Finish(v)
    PROVE  Dictated!Hear(v)
<1>1. Stage(v) \in Begun /\ last[v] # "stopped"
    BY Working DEF Finish
<1>2. /\ UNCHANGED <<phase, starting, active, queue, dropped>>
      /\ last' = [last EXCEPT ![v] = "other"]
      /\ \A w \in Voices \ {v} : heard'[w] = heard[w] /\ partial'[w] = partial[w]
    BY DEF Finish, Emit, control, audio, FinishOnline, FinishOffline, TypeOK
<1>3. OnlyOf(v) /\ Current' = Current /\ Stage(v)' = Stage(v)
    BY <1>1, <1>2 DEF OnlyOf, SameSession, TypeOK, Current, Stage
<1>4. Owed(v)' = Owed(v)
    BY <1>2 DEF Owed, Queued
<1> QED BY <1>1, <1>3, <1>4, Hears

\* An error of the device is an event and nothing else.
LEMMA ErrorUnnoticed ==
    ASSUME TypeOK, OwnerInv, NEW v \in Voices, StreamError(v)
    PROVE  UNCHANGED Dictated!vars
<1>1. last[v] # "stopped"
    BY Working DEF StreamError
<1>2. /\ UNCHANGED <<phase, starting, active, queue, dropped, heard, partial>>
      /\ last' = [last EXCEPT ![v] = "other"]
    BY DEF StreamError, Emit, control, audio, engine
<1>3. OnlyOf(v) /\ Current' = Current /\ Stage(v)' = Stage(v)
    BY <1>1, <1>2 DEF OnlyOf, SameSession, TypeOK, Current, Stage
<1> QED BY <1>2, <1>3, Unnoticed

\* The owner thread at work on its own session, step by step: what moves the
\* phase leaves the audio alone.
LEMMA OwnerMoves ==
    ASSUME TypeOK, OwnerInv, NEW v \in Voices,
           \/ BeginStart(v) \/ TakeActive(v) \/ StartSession(v) \/ StopSession(v)
    PROVE  /\ OnlyOf(v) /\ UNCHANGED <<queue, dropped, heard, partial>>
           /\ phase' = [phase EXCEPT ![v] = phase'[v]]
    BY DEF BeginStart, TakeActive, StartSession, StopSession, FailEngine, LoadOnline,
        LoadOffline, FailDevice, OpenMicrophone, FailMicrophone, AbortStart, AnnounceStart,
        FinishStart, ClearRunning, DropStream, JoinWorker, Move, Emit, Wind, OnlyOf,
        SameSession, TypeOK, control, audio, engine

\* The commands that start a session, and their failures.
LEMMA StartStarts ==
    ASSUME IInv, NEW v \in Voices, BeginStart(v)
    PROVE  Dictated!Start(v)
<1>1. OnlyOf(v) /\ UNCHANGED <<queue, dropped, heard, partial>>
    BY OwnerMoves DEF IInv
<1>2. last[v] # "stopped" /\ last'[v] = last[v] /\ phase[v] = "new" /\ phase'[v] = "loading"
    BY DEF BeginStart, Move, IInv, TypeOK, OwnerInv
<1>3. Stage(v) = "idle" /\ Stage(v)' = "starting"
    BY <1>2 DEF Stage
<1>4. /\ (IF starting # None THEN starting ELSE active) = None
      /\ (IF starting # None THEN starting ELSE active)' = v
    BY NoneAssumption DEF BeginStart
<1> QED BY <1>1, <1>3, <1>4, Moves DEF Dictated!Start
LEMMA FailureRefuses ==
    ASSUME IInv, NEW v \in Voices, FailEngine(v) \/ FailDevice(v) \/ AbortStart(v)
    PROVE  Dictated!Refuse(v)
<1>1. OnlyOf(v) /\ UNCHANGED <<queue, dropped, heard, partial>>
    BY OwnerMoves DEF IInv, StartSession
<1>2. /\ phase[v] \in {"loading", "opening", "aborting"} /\ phase'[v] = "failed"
      /\ last'[v] = last[v] /\ starting' = None /\ active' = active
    BY DEF FailEngine, FailDevice, AbortStart, Move, IInv, TypeOK
<1>3. last[v] # "stopped" /\ starting = v /\ active = None
    BY <1>2, NoneAssumption DEF IInv, OwnerInv, TypeOK, MutexInv
<1>4. Stage(v) = "starting" /\ Stage(v)' = "failed"
    BY <1>2, <1>3 DEF Stage
<1>5. /\ (IF starting # None THEN starting ELSE active) = v
      /\ (IF starting # None THEN starting ELSE active)' = None
    BY <1>2, <1>3, NoneAssumption
<1> QED BY <1>1, <1>4, <1>5, Moves DEF Dictated!Refuse
LEMMA FinishRecords ==
    ASSUME IInv, NEW v \in Voices, FinishStart(v)
    PROVE  Dictated!Record(v)
<1>1. OnlyOf(v) /\ UNCHANGED <<queue, dropped, heard, partial>>
    BY OwnerMoves DEF IInv, StartSession
<1>2. /\ phase[v] = "started" /\ phase'[v] = "recording"
      /\ last'[v] = last[v] /\ starting' = None /\ active' = v
    BY DEF FinishStart, Move, IInv, TypeOK
<1>3. last[v] # "stopped" /\ starting = v
    BY <1>2 DEF IInv, OwnerInv, TypeOK
<1>4. Stage(v) = "starting" /\ Stage(v)' = "recording"
    BY <1>2, <1>3 DEF Stage
<1>5. /\ (IF starting # None THEN starting ELSE active) = v
      /\ (IF starting # None THEN starting ELSE active)' = v
    BY <1>2, <1>3, NoneAssumption
<1> QED BY <1>1, <1>4, <1>5, Moves DEF Dictated!Record

\* The steps of a start that the person does not see.
LEMMA StartUnnoticed ==
    ASSUME IInv, NEW v \in Voices,
           \/ LoadOnline(v) \/ LoadOffline(v) \/ OpenMicrophone(v) \/ FailMicrophone(v)
           \/ AnnounceStart(v)
    PROVE  UNCHANGED Dictated!vars
<1>1. OnlyOf(v) /\ UNCHANGED <<queue, dropped, heard, partial>>
    BY OwnerMoves DEF IInv, StartSession
<1>2. /\ phase[v] \in {"loading", "opening", "playing"}
      /\ phase'[v] \in {"opening", "playing", "aborting", "started"}
      /\ last'[v] \in {last[v], "other"} /\ UNCHANGED <<starting, active>>
    BY DEF LoadOnline, LoadOffline, OpenMicrophone, FailMicrophone, AnnounceStart, Move,
        Emit, IInv, TypeOK
<1>3. last[v] # "stopped"
    BY <1>2 DEF IInv, OwnerInv
<1>4. Stage(v) = "starting" /\ Stage(v)' = "starting"
    BY <1>2, <1>3 DEF Stage
<1> QED BY <1>1, <1>2, <1>4, Unnoticed DEF Current

\* The stop, from the mutex to the last event.
LEMMA TakeStops ==
    ASSUME IInv, NEW v \in Voices, TakeActive(v)
    PROVE  Dictated!Stop(v)
<1>1. OnlyOf(v) /\ UNCHANGED <<queue, dropped, heard, partial>>
    BY OwnerMoves DEF IInv
<1>2. /\ phase[v] = "recording" /\ phase'[v] = "stopping" /\ last'[v] = last[v]
      /\ starting = None /\ starting' = None /\ active = v /\ active' = None
    BY DEF TakeActive, Move, IInv, TypeOK
<1>3. last[v] # "stopped"
    BY <1>2 DEF IInv, OwnerInv
<1>4. Stage(v) = "recording" /\ Stage(v)' = "stopping"
    BY <1>2, <1>3 DEF Stage
<1>5. /\ (IF starting # None THEN starting ELSE active) = v
      /\ (IF starting # None THEN starting ELSE active)' = None
    BY <1>2
<1> QED BY <1>1, <1>4, <1>5, Moves DEF Dictated!Stop
LEMMA ClearCloses ==
    ASSUME IInv, NEW v \in Voices, ClearRunning(v)
    PROVE  Dictated!Close(v)
<1>1. OnlyOf(v) /\ UNCHANGED <<queue, dropped, heard, partial>>
    BY OwnerMoves DEF IInv, StopSession
<1>2. /\ phase[v] = "stopping" /\ phase'[v] = "closing" /\ last'[v] = last[v]
      /\ UNCHANGED <<starting, active>>
    BY DEF ClearRunning, Move, IInv, TypeOK
<1>3. last[v] # "stopped"
    BY <1>2 DEF IInv, OwnerInv
<1>4. Stage(v) = "stopping" /\ Stage(v)' = "closing"
    BY <1>2, <1>3 DEF Stage
<1> QED BY <1>1, <1>2, <1>4, Moves DEF Dictated!Close
LEMMA DropUnnoticed ==
    ASSUME IInv, NEW v \in Voices, DropStream(v)
    PROVE  UNCHANGED Dictated!vars
<1>1. OnlyOf(v) /\ UNCHANGED <<queue, dropped, heard, partial>>
    BY OwnerMoves DEF IInv, StopSession
<1>2. /\ phase[v] = "closing" /\ phase'[v] = "joining" /\ last'[v] = last[v]
      /\ UNCHANGED <<starting, active>>
    BY DEF DropStream, Move, IInv, TypeOK
<1>3. last[v] # "stopped"
    BY <1>2 DEF IInv, OwnerInv
<1>4. Stage(v) = "closing" /\ Stage(v)' = "closing"
    BY <1>2, <1>3 DEF Stage
<1> QED BY <1>1, <1>2, <1>4, Unnoticed DEF Current
LEMMA JoinEnds ==
    ASSUME IInv, NEW v \in Voices, JoinWorker(v)
    PROVE  Dictated!End(v)
<1>1. OnlyOf(v) /\ UNCHANGED <<queue, dropped, heard, partial>>
    BY OwnerMoves DEF IInv, StopSession
<1>2. /\ phase[v] = "joining" /\ phase'[v] = "stopped" /\ last'[v] = "stopped"
      /\ worker[v] = "done" /\ UNCHANGED <<starting, active>>
    BY DEF JoinWorker, Move, Emit, IInv, TypeOK
<1>3. last[v] # "stopped"
    BY <1>2 DEF IInv, OwnerInv
<1>4. Stage(v) = "closing" /\ Stage(v)' = "over"
    BY <1>2, <1>3 DEF Stage
<1>5. /\ [w \in Voices |-> Owed(w)][v] \subseteq {"unseen"}
      /\ ~[w \in Voices |-> heard[w] \/ partial[w]][v]
    BY <1>2 DEF IInv, WorkerInv, WorkerAt, Owed
<1> QED BY <1>1, <1>2, <1>4, <1>5, Moves DEF Dictated!End

\* The waiting of the worker, and its leaving of the loop.
LEMMA WaitUnnoticed ==
    ASSUME NEW v \in Voices, Timeout(v) \/ GoOn(v) \/ LeaveLoop(v) \/ Disconnect(v)
    PROVE  UNCHANGED Dictated!vars
<1>1. UNCHANGED <<starting, active, phase, last, queue, dropped, heard, partial>>
    BY DEF Timeout, GoOn, LeaveLoop, Disconnect, control, audio, engine
<1> QED BY <1>1, Unnoticed DEF OnlyOf, SameSession, Current, Stage

\* Each step of the threads is one of the dictation, or none.
LEMMA StepDictates == IInv /\ [Next]_vars => [Dictated!Next]_(Dictated!vars)
<1> SUFFICES ASSUME IInv, [Next]_vars PROVE [Dictated!Next]_(Dictated!vars)
    OBVIOUS
<1>a. TypeOK /\ OwnerInv
    BY DEF IInv
<1>1. ASSUME NEW v \in Voices,
             \/ Dictated!Start(v) \/ Dictated!Refuse(v) \/ Dictated!Record(v)
             \/ Dictated!Stop(v) \/ Dictated!Close(v) \/ Dictated!Hear(v) \/ Dictated!End(v)
      PROVE  Dictated!Next
    BY <1>1 DEF Dictated!Next
<1>2. ASSUME NEW v \in Voices, BeginStart(v) \/ TakeActive(v) PROVE Dictated!Next
    BY <1>1, <1>2, StartStarts, TakeStops
<1>3. ASSUME NEW v \in Voices, StartSession(v) PROVE [Dictated!Next]_(Dictated!vars)
    BY <1>1, <1>3, FailureRefuses, FinishRecords, StartUnnoticed DEF StartSession
<1>4. ASSUME NEW v \in Voices, StopSession(v) PROVE [Dictated!Next]_(Dictated!vars)
    BY <1>1, <1>4, ClearCloses, DropUnnoticed, JoinEnds DEF StopSession
<1>5. ASSUME NEW v \in Voices, Work(v) PROVE [Dictated!Next]_(Dictated!vars)
    BY <1>a, <1>1, <1>5, ReceiveHears, ReportHears, FinishHears, WaitUnnoticed DEF Work
<1>6. ASSUME NEW v \in Voices, Listen(v) \/ StreamError(v)
      PROVE  [Dictated!Next]_(Dictated!vars)
    BY <1>a, <1>1, <1>6, CaptureHears, CountHears, MissUnnoticed, ErrorUnnoticed DEF Listen
<1>7. CASE UNCHANGED vars
    <2>1. UNCHANGED <<starting, active, phase, last, queue, dropped, heard, partial>>
        BY <1>7 DEF vars, control, audio, engine
    <2>2. /\ UNCHANGED <<[w \in Voices |-> Stage(w)], [w \in Voices |-> Owed(w)]>>
          /\ UNCHANGED [w \in Voices |-> heard[w] \/ partial[w]]
        BY <2>1 DEF Stage, Owed, Queued
    <2> QED BY <2>1, <2>2 DEF Dictated!vars
<1> QED BY <1>2, <1>3, <1>4, <1>5, <1>6, <1>7 DEF Next

\* SpeechSession implements Dictation: with its mutex, threads, queue and audio
\* callback, sessions take turns, and what was said or dropped before the
\* microphone closed is settled when the last event is sent, but for what came in
\* unseen when the worker had caught up with all the rest.
THEOREM Refinement == Spec => ImplementsDictation
<1>1. Init => Dictated!Init
    <2> SUFFICES ASSUME Init PROVE Dictated!Init
        OBVIOUS
    <2>1. ASSUME NEW v \in Voices
          PROVE  Stage(v) = "idle" /\ Owed(v) = {} /\ (heard[v] \/ partial[v]) = FALSE
        <3>1. /\ last[v] = None /\ phase[v] = "new" /\ queue[v] = <<>> /\ dropped[v] = {}
              /\ ~heard[v] /\ ~partial[v]
            BY DEF Init
        <3>2. Stage(v) = "idle"
            BY <3>1, NoneAssumption DEF Stage
        <3>3. Owed(v) = {}
            BY <3>1 DEF Owed, Queued
        <3> QED BY <3>1, <3>2, <3>3
    <2>2. (IF starting # None THEN starting ELSE active) = None
        BY DEF Init
    <2> QED BY <2>1, <2>2 DEF Dictated!Init
<1>2. IInv /\ [Next]_vars => [Dictated!Next]_(Dictated!vars)
    BY StepDictates
<1> QED BY <1>1, <1>2, Invariance, PTL DEF Spec, ImplementsDictation, Dictated!Spec
=============================================================================
