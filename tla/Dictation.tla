------------------------------ MODULE Dictation ------------------------------
(***************************************************************************)
(* What voice input promises to the person who speaks, with no threads,    *)
(* channel, stream or mutex: one session at a time, and when it is over    *)
(* nothing that was said before the microphone closed is still owed, no    *)
(* text on the screen is provisional, and nothing changes any more.  The   *)
(* one loss allowed is what comes in, all before it being settled, in the  *)
(* moment of the stop.  SpeechSession implements it.                       *)
(***************************************************************************)
CONSTANTS
    Voices,    \* voice sessions
    None       \* no session

VARIABLES
    current,   \* the session that starts or records, or None
    stage,     \* stage[v]: how far session v is
    owed,      \* owed[v]: speech not recognised, a drop without its notice,
               \* or what came in unseen when nothing was owed
    words      \* words[v]: there are words that may still change

vars == <<current, stage, owed, words>>

Debts == {"speech", "notice", "unseen"}

Init ==
    /\ current = None
    /\ stage = [v \in Voices |-> "idle"]
    /\ owed = [v \in Voices |-> {}]
    /\ words = [v \in Voices |-> FALSE]

Move(v, from, to) == stage[v] = from /\ stage' = [stage EXCEPT ![v] = to]

Start(v) ==
    /\ current = None /\ current' = v
    /\ Move(v, "idle", "starting")
    /\ UNCHANGED <<owed, words>>

Refuse(v) ==
    /\ current = v /\ current' = None
    /\ Move(v, "starting", "failed")
    /\ UNCHANGED <<owed, words>>

Record(v) ==
    /\ current = v
    /\ Move(v, "starting", "recording")
    /\ UNCHANGED <<current, owed, words>>

\* The next session may start while this one is still heard out.
Stop(v) ==
    /\ current = v /\ current' = None
    /\ Move(v, "recording", "stopping")
    /\ UNCHANGED <<owed, words>>

\* What is said from now on does not count.
Close(v) ==
    /\ Move(v, "stopping", "closing")
    /\ UNCHANGED <<current, owed, words>>

\* Something is said, recognised or reported; once closed, debts are only paid.
Hear(v) ==
    /\ stage[v] \in {"starting", "recording", "stopping", "closing"}
    /\ \E debts \in SUBSET Debts :
          /\ stage[v] = "closing" => debts \subseteq owed[v]
          /\ "unseen" \in debts \ owed[v] => owed[v] = {}
          /\ owed' = [owed EXCEPT ![v] = debts]
    /\ \E changing \in BOOLEAN : words' = [words EXCEPT ![v] = changing]
    /\ UNCHANGED <<current, stage>>

End(v) ==
    /\ owed[v] \subseteq {"unseen"} /\ ~words[v]
    /\ Move(v, "closing", "over")
    /\ UNCHANGED <<current, owed, words>>

Next == \E v \in Voices :
    Start(v) \/ Refuse(v) \/ Record(v) \/ Stop(v) \/ Close(v) \/ Hear(v) \/ End(v)

Spec == Init /\ [][Next]_vars
=============================================================================
