----------------------- MODULE ScreenCapture_proofs -----------------------
(***************************************************************************)
(* Proofs about ScreenCapture, for any number of starts, requests,         *)
(* captures and frames: the types, what a session under way promises, that *)
(* the console comes back, and, in the second half, that nobody is         *)
(* stranded and a picture reaches the request it was taken for.            *)
(***************************************************************************)
EXTENDS ScreenCapture, TLAPS

\* Where a call can be.
Places == {
    "idle", "saving", "begun", "opened", "chosen", "prepared", "shooting", "emitting",
    "undo", "restoring", "rejected", "complete", "completed", "pin", "pinning", "pinned",
    "hide-ready", "tell-ready", "hide-pinned", "tell-pinned", "cancel", "close",
    "tell-cancelled", "scroll", "hide", "build", "show", "clear", "restore", "frame",
    "finish", "reopen", "take", "add", "end", "locked"}
Calls == [pc : Places, id : Ids \cup {None}, shown : BOOLEAN,
          request : Requests \cup {None}, aim : Requests \cup {None}]
Events == [kind : {"ready", "finished"}, id : Ids \cup {None}]

CallsTyped == call \in [Actors -> Calls]
SessionTyped == session \in Sessions \cup {None} /\ begun \in 0 .. MaxSessions
EventsTyped == toOverlay \in Seq(Ids) /\ toMain \in Seq(Events)
WindowsTyped ==
    /\ overlay \in BOOLEAN /\ scroll \in BOOLEAN /\ console \in BOOLEAN
    /\ selected \in Requests /\ target \in Requests \cup {None} /\ busy \in BOOLEAN
    /\ editing \in Ids \cup {None} /\ completing \in BOOLEAN
HistoryTyped ==
    /\ placed \in Requests \X Requests \cup {<<>>}
    /\ misread \in BOOLEAN /\ crossed \in BOOLEAN /\ faulted \in BOOLEAN
TypeInv == SessionTyped /\ CallsTyped /\ EventsTyped /\ WindowsTyped /\ HistoryTyped

\* A call that is to use a field has set it.
FieldsInv ==
    /\ \A s \in Starts :
          /\ call[s].pc \in {"saving", "begun"} => call[s].request \in Requests
          /\ At(s, "emitting") => call[s].id \in Ids
    /\ At("scroller", "reopen") => call["scroller"].id \in Ids
    /\ ~At("import", "idle") => call["import"].request \in Requests
    /\ At("import", "add") => call["import"].aim \in Requests

-----------------------------------------------------------------------------
(* What a step does to the calls.                                          *)

\* Only the call of a changes.
Alone(a) ==
    /\ call' \in [Actors -> Calls]
    /\ \A b \in Actors \ {a} : call'[b] = call[b]
Becomes(a, c) == Alone(a) /\ call'[a] = c
\* Only where it is.
Goes(a, pc) ==
    /\ Alone(a)
    /\ call'[a].pc = pc /\ call'[a].id = call[a].id /\ call'[a].shown = call[a].shown
    /\ call'[a].request = call[a].request /\ call'[a].aim = call[a].aim

\* The windows are no starts.
LEMMA ActorsAre ==
    /\ \A s \in Starts : s \in Actors /\ s \notin Windows
    /\ \A a \in {"opener", "editor", "scroller", "import"} : a \in Actors /\ a \notin Starts
BY ActorsAssumption DEF Actors, Windows

\* An actor's call is replaced by another call.
LEMMA CallUpdated ==
    ASSUME CallsTyped, NEW a \in Actors, NEW c \in Calls, call' = [call EXCEPT ![a] = c]
    PROVE  Becomes(a, c)
BY DEF CallsTyped, Becomes, Alone

\* A call that only moves keeps its fields.
LEMMA PcChanged ==
    ASSUME NEW c \in Calls, NEW pc \in Places
    PROVE  /\ [c EXCEPT !.pc = pc] \in Calls
           /\ [c EXCEPT !.pc = pc].pc = pc
           /\ [c EXCEPT !.pc = pc].id = c.id
           /\ [c EXCEPT !.pc = pc].shown = c.shown
           /\ [c EXCEPT !.pc = pc].request = c.request
           /\ [c EXCEPT !.pc = pc].aim = c.aim
BY DEF Calls

\* Goto moves one call.
LEMMA GotoDoes ==
    ASSUME CallsTyped, NEW a \in Actors, NEW pc \in Places, Goto(a, pc)
    PROVE  Goes(a, pc)
<1>1. call[a] \in Calls
    BY DEF CallsTyped
<1>2. Becomes(a, [call[a] EXCEPT !.pc = pc])
    BY <1>1, CallUpdated, PcChanged DEF Goto
<1> QED BY <1>1, <1>2, PcChanged DEF Becomes, Goes

\* No call is a call.
LEMMA NoCallTyped ==
    /\ NoCall \in Calls /\ NoCall.pc = "idle" /\ NoCall.id = None /\ ~NoCall.shown
    /\ NoCall.request = None /\ NoCall.aim = None
BY DEF NoCall, Calls, Places

\* Return ends one call.
LEMMA ReturnDoes ==
    ASSUME CallsTyped, NEW a \in Actors, Return(a)
    PROVE  Becomes(a, NoCall)
BY CallUpdated, NoCallTyped DEF Return


\* A start that passes its guard holds the request that is shown.
LEMMA StartCaptureDoes ==
    ASSUME TypeInv, NEW s \in Starts, StartCapture(s)
    PROVE  /\ Alone(s) /\ At(s, "idle") /\ call'[s].pc = "saving" /\ call'[s].request = selected
           /\ ~busy /\ UNCHANGED <<process, events, workbench, editor, history>>
<1> DEFINE c == [NoCall EXCEPT !.pc = "saving", !.request = selected]
<1>1. c \in Calls /\ c.pc = "saving" /\ c.request = selected
    BY NoCallTyped DEF Calls, Places, TypeInv, SessionTyped, EventsTyped, WindowsTyped
<1>2. call' = [call EXCEPT ![s] = c]
    BY DEF StartCapture
<1> HIDE DEF c
<1>3. Becomes(s, c)
    BY <1>1, <1>2, CallUpdated, ActorsAre DEF TypeInv
<1> QED BY <1>1, <1>3 DEF Becomes, StartCapture

\* The capture is aimed at that request, and reads the console.
LEMMA BeginCaptureDoes ==
    ASSUME TypeInv, NEW s \in Starts, BeginCapture(s)
    PROVE  /\ Alone(s) /\ At(s, "saving") /\ call'[s].pc = "begun"
           /\ call'[s].request = call[s].request
           /\ target' = call[s].request /\ busy' = TRUE
           /\ crossed' = (crossed \/ busy \/ session # None
                            \/ \E t \in Starts \ {s} : call[t].pc \notin {"idle", "saving"})
           /\ UNCHANGED <<process, events, selected, editor, begun, placed, misread, faulted>>
<1> DEFINE c == [call[s] EXCEPT !.pc = "begun", !.shown = console]
<1>0. call[s] \in Calls /\ console \in BOOLEAN
    BY ActorsAre DEF TypeInv, SessionTyped, EventsTyped, WindowsTyped, CallsTyped
<1>1. c \in Calls /\ c.pc = "begun" /\ c.request = call[s].request
    BY <1>0 DEF Calls, Places
<1>2. call' = [call EXCEPT ![s] = c]
    BY DEF BeginCapture
<1> HIDE DEF c
<1>3. Becomes(s, c)
    BY <1>1, <1>2, CallUpdated, ActorsAre DEF TypeInv
<1> QED BY <1>1, <1>3 DEF Becomes, BeginCapture

\* The session is the only one, its number is new.
LEMMA OpenSessionDoes ==
    ASSUME TypeInv, NEW s \in Starts, OpenSession(s), call[s].request \in Requests
    PROVE  /\ Alone(s) /\ At(s, "begun") /\ call'[s].pc = "opened" /\ call'[s].id = begun'
           /\ call'[s].shown = call[s].shown /\ call'[s].request = call[s].request
           /\ session = None /\ begun' = begun + 1 /\ begun' \in Ids
           /\ session' \in Sessions /\ session' # None
           /\ session'.stage = "capturing" /\ session'.id = begun' /\ session'.frames = 1
           /\ session'.shown = call[s].shown /\ session'.aim = call[s].request
           /\ misread' = (misread \/ ~call[s].shown)
           /\ UNCHANGED <<overlay, scroll, console, events, workbench, editor,
                          placed, crossed, faulted>>
<1> DEFINE c == [call[s] EXCEPT !.pc = "opened", !.id = begun']
<1>0. call[s] \in Calls
    BY ActorsAre DEF TypeInv, SessionTyped, EventsTyped, WindowsTyped, CallsTyped
<1>1. begun' = begun + 1 /\ begun' \in Ids
    BY BoundsAssumption DEF OpenSession, TypeInv, SessionTyped, EventsTyped, WindowsTyped, Ids
<1>2. /\ c \in Calls /\ c.pc = "opened" /\ c.id = begun'
      /\ c.shown = call[s].shown /\ c.request = call[s].request
    BY <1>0, <1>1 DEF Calls, Places
<1>3. call' = [call EXCEPT ![s] = c]
    BY DEF OpenSession
<1> HIDE DEF c
<1>4. Becomes(s, c)
    BY <1>2, <1>3, CallUpdated, ActorsAre DEF TypeInv
<1>5. /\ session' \in Sessions
      /\ session'.stage = "capturing" /\ session'.id = begun' /\ session'.frames = 1
      /\ session'.shown = call[s].shown /\ session'.aim = call[s].request
    BY <1>0, <1>1, BoundsAssumption DEF OpenSession, Stage, Sessions, Calls
<1> QED BY <1>1, <1>2, <1>4, <1>5, NoneAssumption DEF Becomes, OpenSession

\* The overlay starts a call and takes no other.
LEMMA OverlayCallsDoes ==
    ASSUME TypeInv, NEW a \in {"editor", "opener"}, NEW pc \in Places,
           NEW i \in Ids \cup {None}, OverlayCalls(a, pc, i)
    PROVE  /\ Alone(a) /\ At(a, "idle") /\ call'[a].pc = pc /\ call'[a].id = i
           /\ overlay /\ ~completing /\ completing'
           /\ UNCHANGED <<process, events, workbench, editing, history>>
<1> DEFINE c == [NoCall EXCEPT !.pc = pc, !.id = i]
<1>1. c \in Calls /\ c.pc = pc /\ c.id = i
    BY NoCallTyped DEF Calls
<1>2. call' = [call EXCEPT ![a] = c]
    BY DEF OverlayCalls
<1> HIDE DEF c
<1>3. Becomes(a, c)
    BY <1>1, <1>2, CallUpdated, ActorsAre DEF TypeInv
<1> QED BY <1>1, <1>3 DEF Becomes, OverlayCalls

\* The scroll window starts a call.
LEMMA ScrollCallsDoes ==
    ASSUME TypeInv, NEW pc \in Places, NEW i \in Ids \cup {None}, ScrollCalls(pc, i)
    PROVE  /\ Alone("scroller") /\ At("scroller", "idle") /\ scroll
           /\ call'["scroller"].pc = pc /\ call'["scroller"].id = i
           /\ UNCHANGED <<process, events, workbench, editor, history>>
<1> DEFINE c == [NoCall EXCEPT !.pc = pc, !.id = i]
<1>1. c \in Calls /\ c.pc = pc /\ c.id = i
    BY NoCallTyped DEF Calls
<1>2. call' = [call EXCEPT !["scroller"] = c]
    BY DEF ScrollCalls
<1> HIDE DEF c
<1>3. Becomes("scroller", c)
    BY <1>1, <1>2, CallUpdated, ActorsAre DEF TypeInv
<1> QED BY <1>1, <1>3 DEF Becomes, ScrollCalls

\* Cutting remembers whether the console was shown.
LEMMA CutPictureDoes ==
    ASSUME TypeInv, CutPicture
    PROVE  /\ Alone("editor") /\ call["editor"].pc \in {"complete", "pin"}
           /\ call'["editor"].pc \in {"completed", "pinning"}
           /\ call'["editor"].id = call["editor"].id /\ call'["editor"].shown = session.shown
           /\ InStage("editing", call["editor"].id)
           /\ UNCHANGED <<process, events, workbench, editor, history>>
<1>1. PICK cut \in {<<"complete", "completed">>, <<"pin", "pinning">>} :
         /\ At("editor", cut[1])
         /\ call' = [call EXCEPT !["editor"].pc = cut[2], !["editor"].shown = session.shown]
    BY DEF CutPicture
<1> DEFINE pc == cut[2]
           c == [call["editor"] EXCEPT !.pc = pc, !.shown = session.shown]
<1>0. pc \in {"completed", "pinning"} /\ call["editor"].pc \in {"complete", "pin"}
    BY <1>1 DEF At
<1> HIDE DEF pc
<1>2. call["editor"] \in Calls /\ session.shown \in BOOLEAN
    BY ActorsAre DEF TypeInv, SessionTyped, EventsTyped, WindowsTyped, CallsTyped,
        CutPicture, InStage, IsSession, Sessions
<1>3. /\ c \in Calls /\ c.pc = pc /\ c.id = call["editor"].id /\ c.shown = session.shown
    BY <1>0, <1>2 DEF Calls, Places
<1>4. call' = [call EXCEPT !["editor"] = c]
    BY <1>1 DEF pc
<1> HIDE DEF c
<1>5. Becomes("editor", c)
    BY <1>3, <1>4, CallUpdated, ActorsAre DEF TypeInv
<1> QED BY <1>0, <1>3, <1>5 DEF Becomes, CutPicture

\* A cancel takes the session that is there, and what it knew of the console.
LEMMA TakeSessionDoes ==
    ASSUME TypeInv, NEW a \in {"editor", "scroller"}, TakeSession(a)
    PROVE  /\ Alone(a) /\ At(a, "cancel") /\ call'[a].pc = "close"
           /\ call'[a].shown = (session # None /\ session.shown)
           /\ session' = None
           /\ UNCHANGED <<overlay, scroll, console, events, workbench, editor, history>>
<1> DEFINE c == [call[a] EXCEPT !.pc = "close",
                                !.id = IF session = None THEN None ELSE session.id,
                                !.shown = session # None /\ session.shown]
<1>1. call[a] \in Calls /\ (session # None => session.id \in Ids /\ session.shown \in BOOLEAN)
    BY ActorsAre DEF TypeInv, SessionTyped, EventsTyped, WindowsTyped, CallsTyped, Sessions
<1>2. c \in Calls /\ c.pc = "close" /\ c.shown = (session # None /\ session.shown)
    BY <1>1, ZenonT(60) DEF Calls, Places
<1>3. call' = [call EXCEPT ![a] = c]
    BY DEF TakeSession
<1> HIDE DEF c
<1>4. Becomes(a, c)
    BY <1>2, <1>3, CallUpdated, ActorsAre DEF TypeInv
<1> QED BY <1>2, <1>4 DEF Becomes, TakeSession

\* Scrolling remembers whether the console was shown.
LEMMA OpenScrollingDoes ==
    ASSUME TypeInv, OpenScrolling
    PROVE  /\ Alone("opener") /\ At("opener", "scroll") /\ call'["opener"].pc = "hide"
           /\ call'["opener"].shown = session.shown
           /\ InStage("editing", call["opener"].id)
           /\ session' \in Sessions /\ session' # None
           /\ session'.stage = "scrolling" /\ session'.id = session.id
           /\ session'.shown = session.shown /\ session'.aim = session.aim
           /\ UNCHANGED <<overlay, scroll, console, events, workbench, editor, history>>
<1> DEFINE c == [call["opener"] EXCEPT !.pc = "hide", !.shown = session.shown]
<1>1. call["opener"] \in Calls /\ session \in Sessions
    BY ActorsAre DEF TypeInv, SessionTyped, EventsTyped, WindowsTyped, CallsTyped,
        OpenScrolling, InStage, IsSession
<1>2. c \in Calls /\ c.pc = "hide" /\ c.shown = session.shown
    BY <1>1 DEF Calls, Places, Sessions
<1>3. call' = [call EXCEPT !["opener"] = c]
    BY DEF OpenScrolling
<1> HIDE DEF c
<1>4. Becomes("opener", c)
    BY <1>2, <1>3, CallUpdated, ActorsAre DEF TypeInv
<1>5. /\ session' \in Sessions
      /\ session'.stage = "scrolling" /\ session'.id = session.id
      /\ session'.shown = session.shown /\ session'.aim = session.aim
    BY <1>1 DEF OpenScrolling, Sessions
<1> QED BY <1>2, <1>4, <1>5, NoneAssumption DEF Becomes, OpenScrolling

\* The workbench takes up a picture for the request it aims at.
LEMMA HearReadyDoes ==
    ASSUME TypeInv, HearReady
    PROVE  /\ Alone("import") /\ At("import", "idle")
           /\ call'["import"].pc \in {"take", "locked"}
           /\ call'["import"].id = Head(toMain).id
           /\ call'["import"].request = RequestAimedAt /\ RequestAimedAt \in Requests
           /\ toMain # <<>> /\ Head(toMain) \in Events /\ Head(toMain).kind = "ready"
           /\ toMain' = Tail(toMain)
           /\ busy' \in BOOLEAN /\ (busy => busy')
           /\ UNCHANGED <<process, toOverlay, selected, target, editor, history>>
<1>1. PICK pc \in {"take", "locked"} :
         /\ busy' = (busy \/ pc = "take")
         /\ call' = [call EXCEPT !["import"] =
                        [NoCall EXCEPT !.pc = pc, !.id = Head(toMain).id,
                                       !.request = RequestAimedAt]]
    BY DEF HearReady
<1> DEFINE c == [NoCall EXCEPT !.pc = pc, !.id = Head(toMain).id, !.request = RequestAimedAt]
<1>2. Head(toMain) \in Events /\ RequestAimedAt \in Requests
    BY DEF HearReady, TypeInv, SessionTyped, EventsTyped, WindowsTyped, RequestAimedAt
<1>3. c \in Calls /\ c.pc = pc /\ c.id = Head(toMain).id /\ c.request = RequestAimedAt
    BY <1>2, NoCallTyped DEF Calls, Places, Events
<1>4. call' = [call EXCEPT !["import"] = c]
    BY <1>1
<1> HIDE DEF c
<1>5. Becomes("import", c)
    BY <1>3, <1>4, CallUpdated, ActorsAre DEF TypeInv
<1> QED BY <1>1, <1>2, <1>3, <1>5 DEF Becomes, HearReady, TypeInv, SessionTyped,
    EventsTyped, WindowsTyped

\* The picture and what it was aimed at leave the session.
LEMMA TakePictureDoes ==
    ASSUME TypeInv, TakePicture
    PROVE  /\ Alone("import") /\ At("import", "take") /\ call'["import"].pc = "add"
           /\ call'["import"].id = call["import"].id
           /\ call'["import"].request = call["import"].request
           /\ call'["import"].aim = session.aim /\ session.aim \in Requests
           /\ InStage("ready", call["import"].id) /\ session' = None
           /\ UNCHANGED <<overlay, scroll, console, events, workbench, editor, history>>
<1> DEFINE c == [call["import"] EXCEPT !.pc = "add", !.aim = session.aim]
<1>1. call["import"] \in Calls /\ session.aim \in Requests
    BY ActorsAre DEF TypeInv, SessionTyped, EventsTyped, WindowsTyped, CallsTyped,
        TakePicture, InStage, IsSession, Sessions
<1>2. /\ c \in Calls /\ c.pc = "add" /\ c.aim = session.aim
      /\ c.id = call["import"].id /\ c.request = call["import"].request
    BY <1>1 DEF Calls, Places
<1>3. call' = [call EXCEPT !["import"] = c]
    BY DEF TakePicture
<1> HIDE DEF c
<1>4. Becomes("import", c)
    BY <1>2, <1>3, CallUpdated, ActorsAre DEF TypeInv
<1> QED BY <1>1, <1>2, <1>4 DEF Becomes, TakePicture

\* Where the steps of a start take it.
LEMMA StartMoves ==
    ASSUME TypeInv, NEW s \in Starts
    PROVE  /\ GiveUpStart(s) => Becomes(s, NoCall)
           /\ RefuseSession(s) => Goes(s, "rejected")
           /\ ChooseMonitors(s) => Goes(s, "chosen") \/ Goes(s, "undo")
           /\ PrepareOverlay(s) => Goes(s, "prepared") \/ Goes(s, "undo")
           /\ HideConsole(s) => Goes(s, "shooting")
           /\ CommitPixels(s) => Goes(s, "emitting")
           /\ FailPixels(s) => Goes(s, "undo")
           /\ FailReady(s) => Goes(s, "undo")
           /\ EmitReady(s) => Becomes(s, NoCall)
           /\ UndoCapture(s) => Goes(s, "restoring")
           /\ RestoreAfterCapture(s) => Goes(s, "rejected")
           /\ CatchStart(s) => Becomes(s, NoCall)
BY GotoDoes, ReturnDoes, ActorsAre DEF GiveUpStart, RefuseSession, ChooseMonitors,
    PrepareOverlay, HideConsole, CommitPixels, FailPixels, FailReady, EmitReady,
    UndoCapture, RestoreAfterCapture, CatchStart, Places, TypeInv

\* Where the steps of a call of the editor take it.
LEMMA EditorMoves ==
    ASSUME TypeInv
    PROVE  /\ RejectEditor => Becomes("editor", NoCall)
           /\ CommitReady => Goes("editor", "hide-ready")
           /\ PinPicture => Goes("editor", "pinned")
           /\ ConfirmPin => Goes("editor", "hide-pinned")
           /\ UndoPin => Becomes("editor", NoCall)
           /\ HideOverlay =>
              \/ At("editor", "hide-ready") /\ Goes("editor", "tell-ready")
              \/ At("editor", "hide-pinned") /\ Goes("editor", "tell-pinned")
           /\ TellWorkbench => Becomes("editor", NoCall)
           /\ FailTelling => Becomes("editor", NoCall)
BY GotoDoes, ReturnDoes, ActorsAre DEF RejectEditor, CommitReady, PinPicture,
    ConfirmPin, UndoPin, HideOverlay, TellWorkbench, FailTelling, Reject, Places,
    TypeInv

\* Where the steps of scrolling take its calls.
LEMMA ScrollMoves ==
    ASSUME TypeInv
    PROVE  /\ RejectOpener => Becomes("opener", NoCall)
           /\ HideForScrolling => Goes("opener", "build")
           /\ BuildScroll => Goes("opener", "show")
           /\ ShowScroll => Becomes("opener", NoCall)
           /\ FailScroll => Goes("opener", "clear")
           /\ ClearScrolling => Goes("opener", "restore")
           /\ RestoreAfterScrolling => Becomes("opener", NoCall)
           /\ StitchFrame => Becomes("scroller", NoCall)
           /\ SkipFrame => Becomes("scroller", NoCall)
           /\ EditStitched => Goes("scroller", "reopen")
           /\ RefuseFinish => Becomes("scroller", NoCall)
           /\ ReopenOverlay => Becomes("scroller", NoCall)
           /\ FailReopen => Becomes("scroller", NoCall)
BY GotoDoes, ReturnDoes, ActorsAre DEF RejectOpener, HideForScrolling, BuildScroll,
    ShowScroll, FailScroll, ClearScrolling, RestoreAfterScrolling, StitchFrame,
    SkipFrame, EditStitched, RefuseFinish, ReopenOverlay, FailReopen, Reject, Places,
    TypeInv

\* Where the steps of an import take it.
LEMMA ImportMoves ==
    ASSUME TypeInv
    PROVE  /\ AddPicture => Goes("import", "end")
           /\ FailImport => Goes("import", "end")
           /\ EndImport => Goes("import", "locked")
           /\ Discard => Becomes("import", NoCall)
BY GotoDoes, ReturnDoes, ActorsAre DEF AddPicture, FailImport, EndImport, Discard,
    Places, TypeInv

\* Where the steps of a cancel take it.
LEMMA CancelMoves ==
    ASSUME TypeInv, NEW a \in {"editor", "scroller"}
    PROVE  /\ CloseWindows(a) => Goes(a, "tell-cancelled")
           /\ TellCancelled(a) => Becomes(a, NoCall)
           /\ FailCancelled(a) => Becomes(a, NoCall)
BY GotoDoes, ReturnDoes, ActorsAre DEF CloseWindows, TellCancelled, FailCancelled,
    Places, TypeInv


\* A window makes the call pc about session i.
Calling(a, pc, i) == Alone(a) /\ At(a, "idle") /\ call'[a].pc = pc /\ call'[a].id = i

\* What the windows call.
LEMMA WindowCalls ==
    ASSUME TypeInv
    PROVE  /\ Complete => Calling("editor", "complete", editing)
           /\ Pin => Calling("editor", "pin", editing)
           /\ Cancel => Calling("editor", "cancel", None)
           /\ BeginScrolling => Calling("opener", "scroll", editing)
           /\ AppendFrame => Calling("scroller", "frame", session.id)
           /\ FinishScrolling => Calling("scroller", "finish", session.id)
           /\ CancelScrolling => Calling("scroller", "cancel", None)
<1>1. session # None => session.id \in Ids
    BY DEF TypeInv, SessionTyped, EventsTyped, WindowsTyped, Sessions
<1>2. editing \in Ids \cup {None}
    BY DEF TypeInv, SessionTyped, EventsTyped, WindowsTyped
<1>3. /\ Complete => Calling("editor", "complete", editing)
      /\ Pin => Calling("editor", "pin", editing)
      /\ Cancel => Calling("editor", "cancel", None)
      /\ BeginScrolling => Calling("opener", "scroll", editing)
    BY <1>2, OverlayCallsDoes DEF Complete, Pin, Cancel, BeginScrolling, Calling, Places
<1>4. /\ AppendFrame => Calling("scroller", "frame", session.id)
      /\ FinishScrolling => Calling("scroller", "finish", session.id)
      /\ CancelScrolling => Calling("scroller", "cancel", None)
    BY <1>1, ScrollCallsDoes DEF AppendFrame, FinishScrolling, CancelScrolling, Calling, Places
<1> QED BY <1>3, <1>4


\* Every step leaves calls.
LEMMA CallsPreserved == TypeInv /\ FieldsInv /\ [Next]_vars => CallsTyped'
<1> SUFFICES ASSUME TypeInv, FieldsInv, [Next]_vars PROVE CallsTyped'
    OBVIOUS
<1>1. ASSUME NEW s \in Starts, StartNext(s) PROVE CallsTyped'
    BY <1>1, StartMoves, StartCaptureDoes, BeginCaptureDoes, OpenSessionDoes
    DEF StartNext, Goes, Becomes, Alone, CallsTyped, FieldsInv, OpenSession, At
<1>2. ASSUME EditorNext PROVE CallsTyped'
    <2>1. CASE WakeOverlay \/ FailWake \/ CloseOverlay
        BY <2>1 DEF WakeOverlay, FailWake, CloseOverlay, Initialize, CallsTyped, TypeInv,
            SessionTyped, EventsTyped, WindowsTyped
    <2> QED BY <1>2, <2>1, EditorMoves, WindowCalls, CutPictureDoes
        DEF EditorNext, Goes, Becomes, Calling, Alone, CallsTyped
<1>3. ASSUME ScrollNext PROVE CallsTyped'
    BY <1>3, ScrollMoves, WindowCalls, OpenScrollingDoes
    DEF ScrollNext, Goes, Becomes, Calling, Alone, CallsTyped
<1>4. ASSUME ImportNext PROVE CallsTyped'
    <2>1. CASE HearFinished
        BY <2>1 DEF HearFinished, CallsTyped, TypeInv, SessionTyped, EventsTyped, WindowsTyped
    <2> QED BY <1>4, <2>1, ImportMoves, HearReadyDoes, TakePictureDoes
        DEF ImportNext, Goes, Becomes, Alone, CallsTyped
<1>5. ASSUME NEW a \in {"editor", "scroller"}, CancelNext(a) PROVE CallsTyped'
    BY <1>5, CancelMoves, TakeSessionDoes DEF CancelNext, Goes, Becomes, Alone, CallsTyped
<1>6. ASSUME UNCHANGED vars \/ \E r \in Requests : Select(r) PROVE CallsTyped'
    BY <1>6 DEF vars, Select, CallsTyped, TypeInv, SessionTyped, EventsTyped, WindowsTyped
<1> QED BY <1>1, <1>2, <1>3, <1>4, <1>5, <1>6 DEF Next

\* The session stays one.
LEMMA SessionPreserved == TypeInv /\ FieldsInv /\ [Next]_vars => SessionTyped'
<1> SUFFICES ASSUME TypeInv, FieldsInv, [Next]_vars PROVE SessionTyped'
    OBVIOUS
<1> USE DEF TypeInv, FieldsInv, CallsTyped, Calls, Sessions, Ids, At
<1>1. ASSUME NEW s \in Starts, OpenSession(s) PROVE SessionTyped'
    BY <1>1, ActorsAre, BoundsAssumption DEF OpenSession, Stage, events, workbench,
        editor, SessionTyped
<1>2. ASSUME NEW s \in Starts, CommitPixels(s) PROVE SessionTyped'
    BY <1>2, ActorsAre, BoundsAssumption DEF CommitPixels, Stage, InStage, IsSession,
        events, workbench, editor, history, SessionTyped
<1>3. ASSUME NEW s \in Starts, UndoCapture(s) PROVE SessionTyped'
    BY <1>3, ActorsAre, BoundsAssumption DEF UndoCapture, IsSession, events, workbench,
        editor, history, SessionTyped
<1>4. ASSUME CommitReady PROVE SessionTyped'
    BY <1>4, ActorsAre, BoundsAssumption DEF CommitReady, Stage, IsSession, events,
        workbench, editor, history, SessionTyped
<1>5. ASSUME ConfirmPin PROVE SessionTyped'
    BY <1>5, ActorsAre, BoundsAssumption DEF ConfirmPin, IsSession, events, workbench,
        editor, history, SessionTyped
<1>6. ASSUME OpenScrolling PROVE SessionTyped'
    BY <1>6, ActorsAre, BoundsAssumption DEF OpenScrolling, InStage, IsSession, events,
        workbench, editor, history, SessionTyped
<1>7. ASSUME ClearScrolling PROVE SessionTyped'
    BY <1>7, ActorsAre, BoundsAssumption DEF ClearScrolling, events, workbench, editor,
        history, SessionTyped
<1>8. ASSUME StitchFrame PROVE SessionTyped'
    BY <1>8, ActorsAre, BoundsAssumption DEF StitchFrame, InStage, IsSession, events,
        workbench, editor, history, SessionTyped
<1>9. ASSUME EditStitched PROVE SessionTyped'
    <2>1. session \in Sessions /\ session' = [session EXCEPT !.stage = "editing", !.frames = 1]
        BY <1>9 DEF EditStitched, InStage, IsSession, SessionTyped
    <2>2. session' \in Sessions
        <3>1. 1 \in 1 .. MaxFrames
            BY BoundsAssumption
        <3> QED BY <2>1, <3>1
    <2> QED BY <1>9, <2>2 DEF EditStitched, workbench, history, SessionTyped
<1>10. ASSUME TakePicture PROVE SessionTyped'
    BY <1>10, ActorsAre, BoundsAssumption DEF TakePicture, InStage, IsSession, events,
        workbench, editor, history, SessionTyped
<1>11. ASSUME Discard PROVE SessionTyped'
    BY <1>11, ActorsAre, BoundsAssumption DEF Discard, IsSession, events, editor,
        history, SessionTyped
<1>12. ASSUME NEW a \in {"editor", "scroller"}, TakeSession(a) PROVE SessionTyped'
    BY <1>12, ActorsAre, BoundsAssumption DEF TakeSession, events, workbench, editor,
        history, SessionTyped
<1>13. ASSUME \/ UNCHANGED vars
              \/ \E s \in Starts : StartCapture(s)
              \/ \E s \in Starts : GiveUpStart(s)
              \/ \E s \in Starts : BeginCapture(s)
              \/ \E s \in Starts : RefuseSession(s)
              \/ \E s \in Starts : ChooseMonitors(s)
              \/ \E s \in Starts : PrepareOverlay(s)
              \/ \E s \in Starts : HideConsole(s)
              \/ \E s \in Starts : FailPixels(s)
              \/ \E s \in Starts : FailReady(s)
              \/ \E s \in Starts : EmitReady(s)
              \/ \E s \in Starts : RestoreAfterCapture(s)
              \/ \E s \in Starts : CatchStart(s)
              \/ WakeOverlay
              \/ FailWake
              \/ CloseOverlay
              \/ Complete
              \/ Pin
              \/ Cancel
              \/ BeginScrolling
              \/ CutPicture
              \/ RejectEditor
              \/ PinPicture
              \/ UndoPin
              \/ HideOverlay
              \/ TellWorkbench
              \/ FailTelling
              \/ RejectOpener
              \/ HideForScrolling
              \/ BuildScroll
              \/ ShowScroll
              \/ FailScroll
              \/ RestoreAfterScrolling
              \/ AppendFrame
              \/ FinishScrolling
              \/ CancelScrolling
              \/ SkipFrame
              \/ RefuseFinish
              \/ ReopenOverlay
              \/ FailReopen
              \/ HearFinished
              \/ HearReady
              \/ AddPicture
              \/ FailImport
              \/ EndImport
              \/ \E a \in {"editor", "scroller"} : CloseWindows(a)
              \/ \E a \in {"editor", "scroller"} : TellCancelled(a)
              \/ \E a \in {"editor", "scroller"} : FailCancelled(a)
              \/ \E r \in Requests : Select(r)
      PROVE  UNCHANGED <<session, begun>>
    BY <1>13 DEF vars, process, events, workbench, editor, history, StartCapture,
        GiveUpStart, BeginCapture, RefuseSession, ChooseMonitors, PrepareOverlay,
        HideConsole, FailPixels, FailReady, EmitReady, RestoreAfterCapture, CatchStart,
        WakeOverlay, FailWake, CloseOverlay, Initialize,
        Complete, OverlayCalls, Pin, Cancel, BeginScrolling, CutPicture,
        RejectEditor, Reject, PinPicture, UndoPin, HideOverlay, TellWorkbench,
        FailTelling, RejectOpener, HideForScrolling, BuildScroll, ShowScroll,
        FailScroll, RestoreAfterScrolling, AppendFrame, ScrollCalls, FinishScrolling,
        CancelScrolling, SkipFrame, RefuseFinish, ReopenOverlay, FailReopen,
        HearFinished, HearReady, AddPicture, FailImport, EndImport, CloseWindows,
        TellCancelled, FailCancelled, Select
<1>14. ASSUME UNCHANGED <<session, begun>> PROVE SessionTyped'
    BY <1>14 DEF SessionTyped
<1> QED BY <1>1, <1>2, <1>3, <1>4, <1>5, <1>6, <1>7, <1>8, <1>9, <1>10, <1>11, <1>12,
    <1>13, <1>14 DEF Next, StartNext, EditorNext, ScrollNext, CancelNext, ImportNext

\* The events stay events.
LEMMA EventsPreserved == TypeInv /\ FieldsInv /\ [Next]_vars => EventsTyped'
<1> SUFFICES ASSUME TypeInv, FieldsInv, [Next]_vars PROVE EventsTyped'
    OBVIOUS
<1> USE DEF TypeInv, FieldsInv, CallsTyped, Calls, Events, At
<1>1. ASSUME NEW s \in Starts, EmitReady(s) PROVE EventsTyped'
    BY <1>1, ActorsAre DEF EmitReady, process, workbench, editor, history, EventsTyped
<1>2. ASSUME Initialize PROVE EventsTyped'
    BY <1>2, ActorsAre DEF Initialize, InStage, IsSession, workbench, history,
        EventsTyped
<1>3. ASSUME TellWorkbench PROVE EventsTyped'
    <2>1. call["editor"].id \in Ids \cup {None}
        BY ActorsAre
    <2>2. PICK e \in Events : toMain' = Append(toMain, e)
        BY <1>3, <2>1 DEF TellWorkbench, Notify
    <2>3. toOverlay' = toOverlay
        BY <1>3 DEF TellWorkbench
    <2> QED BY <2>2, <2>3 DEF EventsTyped
<1>4. ASSUME ReopenOverlay PROVE EventsTyped'
    BY <1>4, ActorsAre DEF ReopenOverlay, workbench, editor, history, EventsTyped
<1>5. ASSUME HearFinished PROVE EventsTyped'
    BY <1>5, ActorsAre DEF HearFinished, process, editor, history, EventsTyped
<1>6. ASSUME HearReady PROVE EventsTyped'
    BY <1>6, ActorsAre DEF HearReady, RequestAimedAt, process, editor, history,
        EventsTyped
<1>7. ASSUME NEW a \in {"editor", "scroller"}, TellCancelled(a) PROVE EventsTyped'
    BY <1>7, ActorsAre, SMTT(30) DEF TellCancelled, Notify, workbench, editor, history,
        EventsTyped
<1>8. ASSUME \/ UNCHANGED vars
             \/ \E s \in Starts : StartCapture(s)
             \/ \E s \in Starts : GiveUpStart(s)
             \/ \E s \in Starts : BeginCapture(s)
             \/ \E s \in Starts : OpenSession(s)
             \/ \E s \in Starts : RefuseSession(s)
             \/ \E s \in Starts : ChooseMonitors(s)
             \/ \E s \in Starts : PrepareOverlay(s)
             \/ \E s \in Starts : HideConsole(s)
             \/ \E s \in Starts : CommitPixels(s)
             \/ \E s \in Starts : FailPixels(s)
             \/ \E s \in Starts : FailReady(s)
             \/ \E s \in Starts : UndoCapture(s)
             \/ \E s \in Starts : RestoreAfterCapture(s)
             \/ \E s \in Starts : CatchStart(s)
             \/ CloseOverlay
             \/ Complete
             \/ Pin
             \/ Cancel
             \/ BeginScrolling
             \/ CutPicture
             \/ RejectEditor
             \/ CommitReady
             \/ PinPicture
             \/ ConfirmPin
             \/ UndoPin
             \/ HideOverlay
             \/ FailTelling
             \/ OpenScrolling
             \/ RejectOpener
             \/ HideForScrolling
             \/ BuildScroll
             \/ ShowScroll
             \/ FailScroll
             \/ ClearScrolling
             \/ RestoreAfterScrolling
             \/ AppendFrame
             \/ FinishScrolling
             \/ CancelScrolling
             \/ StitchFrame
             \/ SkipFrame
             \/ EditStitched
             \/ RefuseFinish
             \/ FailReopen
             \/ TakePicture
             \/ AddPicture
             \/ FailImport
             \/ EndImport
             \/ Discard
             \/ \E a \in {"editor", "scroller"} : TakeSession(a)
             \/ \E a \in {"editor", "scroller"} : CloseWindows(a)
             \/ \E a \in {"editor", "scroller"} : FailCancelled(a)
             \/ \E r \in Requests : Select(r)
      PROVE  UNCHANGED <<toOverlay, toMain>>
    BY <1>8 DEF vars, process, events, workbench, editor, history, StartCapture,
        GiveUpStart, BeginCapture, OpenSession, RefuseSession, ChooseMonitors,
        PrepareOverlay, HideConsole, CommitPixels, FailPixels, FailReady, UndoCapture,
        RestoreAfterCapture, CatchStart, CloseOverlay, Complete, OverlayCalls, Pin, Cancel,
        BeginScrolling, CutPicture, RejectEditor, Reject, CommitReady, PinPicture,
        ConfirmPin, UndoPin, HideOverlay, FailTelling, OpenScrolling, RejectOpener,
        HideForScrolling, BuildScroll, ShowScroll, FailScroll, ClearScrolling,
        RestoreAfterScrolling, AppendFrame, ScrollCalls, FinishScrolling,
        CancelScrolling, StitchFrame, SkipFrame, EditStitched, RefuseFinish,
        FailReopen, TakePicture, AddPicture, FailImport, EndImport, Discard,
        TakeSession, CloseWindows, FailCancelled, Select
<1>9. ASSUME UNCHANGED <<toOverlay, toMain>> PROVE EventsTyped'
    BY <1>9 DEF EventsTyped
<1> QED BY <1>1, <1>2, <1>3, <1>4, <1>5, <1>6, <1>7, <1>8, <1>9 DEF Next, StartNext,
    EditorNext, WakeOverlay, FailWake, ScrollNext, CancelNext, ImportNext

\* What the windows show stays typed.
LEMMA WindowsPreserved == TypeInv /\ FieldsInv /\ [Next]_vars => WindowsTyped'
<1> SUFFICES ASSUME TypeInv, FieldsInv, [Next]_vars PROVE WindowsTyped'
    OBVIOUS
<1> USE DEF TypeInv, FieldsInv, CallsTyped, Calls, At
<1>1. ASSUME NEW s \in Starts, BeginCapture(s) PROVE WindowsTyped'
    BY <1>1, ActorsAre DEF BeginCapture, process, events, editor, WindowsTyped
<1>2. ASSUME NEW s \in Starts, PrepareOverlay(s) PROVE WindowsTyped'
    BY <1>2, ActorsAre DEF PrepareOverlay, events, workbench, editor, history,
        WindowsTyped
<1>3. ASSUME NEW s \in Starts, HideConsole(s) PROVE WindowsTyped'
    BY <1>3, ActorsAre DEF HideConsole, events, workbench, editor, history,
        WindowsTyped
<1>4. ASSUME NEW s \in Starts, RestoreAfterCapture(s) PROVE WindowsTyped'
    BY <1>4, ActorsAre DEF RestoreAfterCapture, events, workbench, editor, history,
        WindowsTyped
<1>5. ASSUME NEW s \in Starts, CatchStart(s) PROVE WindowsTyped'
    BY <1>5, ActorsAre DEF CatchStart, process, events, editor, history, WindowsTyped
<1>6. ASSUME WakeOverlay \/ FailWake PROVE WindowsTyped'
    <2>1. Initialize /\ overlay' \in BOOLEAN
        BY <1>6 DEF WakeOverlay, FailWake, WindowsTyped
    <2>2. editing' \in Ids \cup {None}
        BY <2>1 DEF Initialize, InStage, IsSession, SessionTyped, Sessions
    <2> QED BY <2>1, <2>2 DEF Initialize, workbench, WindowsTyped
<1>33. ASSUME CloseOverlay PROVE WindowsTyped'
    BY <1>33 DEF CloseOverlay, workbench, editor, WindowsTyped
<1>7. ASSUME Complete PROVE WindowsTyped'
    BY <1>7, ActorsAre DEF Complete, OverlayCalls, process, events, workbench, history,
        WindowsTyped
<1>8. ASSUME Pin PROVE WindowsTyped'
    BY <1>8, ActorsAre DEF Pin, OverlayCalls, process, events, workbench, history,
        WindowsTyped
<1>9. ASSUME Cancel PROVE WindowsTyped'
    BY <1>9, ActorsAre DEF Cancel, OverlayCalls, process, events, workbench, history,
        WindowsTyped
<1>10. ASSUME BeginScrolling PROVE WindowsTyped'
    BY <1>10, ActorsAre DEF BeginScrolling, OverlayCalls, process, events, workbench,
        history, WindowsTyped
<1>11. ASSUME RejectEditor PROVE WindowsTyped'
    BY <1>11, ActorsAre DEF RejectEditor, Reject, process, events, workbench, history,
        WindowsTyped
<1>12. ASSUME UndoPin PROVE WindowsTyped'
    BY <1>12, ActorsAre DEF UndoPin, Reject, IsSession, process, events, workbench,
        history, WindowsTyped
<1>13. ASSUME HideOverlay PROVE WindowsTyped'
    BY <1>13, ActorsAre DEF HideOverlay, events, workbench, editor, history,
        WindowsTyped
<1>14. ASSUME TellWorkbench PROVE WindowsTyped'
    BY <1>14, ActorsAre DEF TellWorkbench, Notify, workbench, editor, history,
        WindowsTyped
<1>15. ASSUME FailTelling PROVE WindowsTyped'
    BY <1>15, ActorsAre DEF FailTelling, events, workbench, WindowsTyped
<1>16. ASSUME RejectOpener PROVE WindowsTyped'
    BY <1>16, ActorsAre DEF RejectOpener, Reject, process, events, workbench, history,
        WindowsTyped
<1>17. ASSUME HideForScrolling PROVE WindowsTyped'
    BY <1>17, ActorsAre DEF HideForScrolling, events, workbench, editor, history,
        WindowsTyped
<1>18. ASSUME BuildScroll PROVE WindowsTyped'
    BY <1>18, ActorsAre DEF BuildScroll, events, workbench, editor, history,
        WindowsTyped
<1>19. ASSUME FailScroll PROVE WindowsTyped'
    BY <1>19, ActorsAre DEF FailScroll, events, workbench, editor, WindowsTyped
<1>20. ASSUME RestoreAfterScrolling PROVE WindowsTyped'
    BY <1>20, ActorsAre DEF RestoreAfterScrolling, events, workbench, history,
        WindowsTyped
<1>21. ASSUME ReopenOverlay PROVE WindowsTyped'
    BY <1>21, ActorsAre DEF ReopenOverlay, workbench, editor, history, WindowsTyped
<1>22. ASSUME FailReopen PROVE WindowsTyped'
    BY <1>22, ActorsAre DEF FailReopen, events, workbench, editor, WindowsTyped
<1>23. ASSUME HearFinished PROVE WindowsTyped'
    BY <1>23, ActorsAre DEF HearFinished, process, editor, history, WindowsTyped
<1>24. ASSUME HearReady PROVE WindowsTyped'
    BY <1>24, ActorsAre DEF HearReady, RequestAimedAt, process, editor, history,
        WindowsTyped
<1>25. ASSUME EndImport PROVE WindowsTyped'
    BY <1>25, ActorsAre DEF EndImport, process, events, editor, history, WindowsTyped
<1>26. ASSUME Discard PROVE WindowsTyped'
    BY <1>26, ActorsAre DEF Discard, IsSession, events, editor, history, WindowsTyped
<1>27. ASSUME NEW a \in {"editor", "scroller"}, CloseWindows(a) PROVE WindowsTyped'
    BY <1>27, ActorsAre DEF CloseWindows, events, workbench, editor, history,
        WindowsTyped
<1>28. ASSUME NEW a \in {"editor", "scroller"}, TellCancelled(a) PROVE WindowsTyped'
    BY <1>28, ActorsAre DEF TellCancelled, Notify, workbench, editor, history,
        WindowsTyped
<1>29. ASSUME NEW a \in {"editor", "scroller"}, FailCancelled(a) PROVE WindowsTyped'
    BY <1>29, ActorsAre DEF FailCancelled, events, workbench, WindowsTyped
<1>30. ASSUME NEW r \in Requests, Select(r) PROVE WindowsTyped'
    BY <1>30, ActorsAre, SMTT(30) DEF Select, process, events, editor, history, WindowsTyped
<1>31. ASSUME \/ UNCHANGED vars
              \/ \E s \in Starts : StartCapture(s)
              \/ \E s \in Starts : GiveUpStart(s)
              \/ \E s \in Starts : OpenSession(s)
              \/ \E s \in Starts : RefuseSession(s)
              \/ \E s \in Starts : ChooseMonitors(s)
              \/ \E s \in Starts : CommitPixels(s)
              \/ \E s \in Starts : FailPixels(s)
              \/ \E s \in Starts : FailReady(s)
              \/ \E s \in Starts : EmitReady(s)
              \/ \E s \in Starts : UndoCapture(s)
              \/ CutPicture
              \/ CommitReady
              \/ PinPicture
              \/ ConfirmPin
              \/ OpenScrolling
              \/ ShowScroll
              \/ ClearScrolling
              \/ AppendFrame
              \/ FinishScrolling
              \/ CancelScrolling
              \/ StitchFrame
              \/ SkipFrame
              \/ EditStitched
              \/ RefuseFinish
              \/ TakePicture
              \/ AddPicture
              \/ FailImport
              \/ \E a \in {"editor", "scroller"} : TakeSession(a)
      PROVE  UNCHANGED <<overlay, scroll, console, selected, target, busy, editing, completing>>
    BY <1>31 DEF vars, process, events, workbench, editor, history, StartCapture,
        GiveUpStart, OpenSession, RefuseSession, ChooseMonitors, CommitPixels,
        FailPixels, FailReady, EmitReady, UndoCapture, CutPicture, CommitReady,
        PinPicture, ConfirmPin, OpenScrolling, ShowScroll, ClearScrolling, AppendFrame,
        ScrollCalls, FinishScrolling, CancelScrolling, StitchFrame, SkipFrame,
        EditStitched, RefuseFinish, TakePicture, AddPicture, FailImport, TakeSession
<1>32. ASSUME UNCHANGED <<overlay, scroll, console, selected, target, busy, editing, completing>>
       PROVE  WindowsTyped'
    BY <1>32 DEF WindowsTyped
<1> QED BY <1>1, <1>2, <1>3, <1>4, <1>5, <1>6, <1>7, <1>8, <1>9, <1>10, <1>11, <1>12,
    <1>13, <1>14, <1>15, <1>16, <1>17, <1>18, <1>19, <1>20, <1>21, <1>22, <1>23, <1>24,
    <1>25, <1>26, <1>27, <1>28, <1>29, <1>30, <1>31, <1>32, <1>33 DEF Next, StartNext,
    EditorNext, ScrollNext, CancelNext, ImportNext

\* The history stays typed.
LEMMA HistoryPreserved == TypeInv /\ FieldsInv /\ [Next]_vars => HistoryTyped'
<1> SUFFICES ASSUME TypeInv, FieldsInv, [Next]_vars PROVE HistoryTyped'
    OBVIOUS
<1> USE DEF TypeInv, FieldsInv, CallsTyped, Calls, At
<1>1. ASSUME NEW s \in Starts, BeginCapture(s) PROVE HistoryTyped'
    BY <1>1, ActorsAre DEF BeginCapture, process, events, editor, HistoryTyped
<1>2. ASSUME NEW s \in Starts, OpenSession(s) PROVE HistoryTyped'
    BY <1>2, ActorsAre DEF OpenSession, Stage, events, workbench, editor, HistoryTyped
<1>3. ASSUME FailTelling PROVE HistoryTyped'
    BY <1>3, ActorsAre DEF FailTelling, events, workbench, HistoryTyped
<1>4. ASSUME FailScroll PROVE HistoryTyped'
    BY <1>4, ActorsAre DEF FailScroll, events, workbench, editor, HistoryTyped
<1>5. ASSUME FailReopen PROVE HistoryTyped'
    BY <1>5, ActorsAre DEF FailReopen, events, workbench, editor, HistoryTyped
<1>6. ASSUME AddPicture PROVE HistoryTyped'
    BY <1>6, ActorsAre DEF AddPicture, process, events, workbench, editor, HistoryTyped
<1>7. ASSUME NEW a \in {"editor", "scroller"}, FailCancelled(a) PROVE HistoryTyped'
    BY <1>7, ActorsAre, SMTT(30) DEF FailCancelled, events, workbench, HistoryTyped
<1>10. ASSUME FailWake \/ CloseOverlay PROVE HistoryTyped'
    BY <1>10 DEF FailWake, CloseOverlay, HistoryTyped
<1>8. ASSUME \/ UNCHANGED vars
             \/ \E s \in Starts : StartCapture(s)
             \/ \E s \in Starts : GiveUpStart(s)
             \/ \E s \in Starts : RefuseSession(s)
             \/ \E s \in Starts : ChooseMonitors(s)
             \/ \E s \in Starts : PrepareOverlay(s)
             \/ \E s \in Starts : HideConsole(s)
             \/ \E s \in Starts : CommitPixels(s)
             \/ \E s \in Starts : FailPixels(s)
             \/ \E s \in Starts : FailReady(s)
             \/ \E s \in Starts : EmitReady(s)
             \/ \E s \in Starts : UndoCapture(s)
             \/ \E s \in Starts : RestoreAfterCapture(s)
             \/ \E s \in Starts : CatchStart(s)
             \/ WakeOverlay
             \/ Complete
             \/ Pin
             \/ Cancel
             \/ BeginScrolling
             \/ CutPicture
             \/ RejectEditor
             \/ CommitReady
             \/ PinPicture
             \/ ConfirmPin
             \/ UndoPin
             \/ HideOverlay
             \/ TellWorkbench
             \/ OpenScrolling
             \/ RejectOpener
             \/ HideForScrolling
             \/ BuildScroll
             \/ ShowScroll
             \/ ClearScrolling
             \/ RestoreAfterScrolling
             \/ AppendFrame
             \/ FinishScrolling
             \/ CancelScrolling
             \/ StitchFrame
             \/ SkipFrame
             \/ EditStitched
             \/ RefuseFinish
             \/ ReopenOverlay
             \/ HearFinished
             \/ HearReady
             \/ TakePicture
             \/ FailImport
             \/ EndImport
             \/ Discard
             \/ \E a \in {"editor", "scroller"} : TakeSession(a)
             \/ \E a \in {"editor", "scroller"} : CloseWindows(a)
             \/ \E a \in {"editor", "scroller"} : TellCancelled(a)
             \/ \E r \in Requests : Select(r)
      PROVE  UNCHANGED <<placed, misread, crossed, faulted>>
    BY <1>8 DEF vars, process, events, workbench, editor, history, StartCapture,
        GiveUpStart, RefuseSession, ChooseMonitors, PrepareOverlay, HideConsole,
        CommitPixels, FailPixels, FailReady, EmitReady, UndoCapture,
        RestoreAfterCapture, CatchStart, WakeOverlay, Initialize, Complete, OverlayCalls, Pin,
        Cancel, BeginScrolling, CutPicture, RejectEditor, Reject, CommitReady,
        PinPicture, ConfirmPin, UndoPin, HideOverlay, TellWorkbench, OpenScrolling,
        RejectOpener, HideForScrolling, BuildScroll, ShowScroll, ClearScrolling,
        RestoreAfterScrolling, AppendFrame, ScrollCalls, FinishScrolling,
        CancelScrolling, StitchFrame, SkipFrame, EditStitched, RefuseFinish,
        ReopenOverlay, HearFinished, HearReady, TakePicture, FailImport, EndImport,
        Discard, TakeSession, CloseWindows, TellCancelled, Select
<1>9. ASSUME UNCHANGED <<placed, misread, crossed, faulted>> PROVE HistoryTyped'
    BY <1>9 DEF HistoryTyped
<1> QED BY <1>1, <1>2, <1>3, <1>4, <1>5, <1>6, <1>7, <1>8, <1>9, <1>10 DEF Next, StartNext,
    EditorNext, ScrollNext, CancelNext, ImportNext


\* Every step that moves a call to where a field is used has set it.
LEMMA FieldsPreserved == TypeInv /\ FieldsInv /\ [Next]_vars => FieldsInv'
<1> SUFFICES ASSUME TypeInv, FieldsInv, [Next]_vars PROVE FieldsInv'
    OBVIOUS
<1>0. /\ \A s \in Starts : s \in Actors /\ s \notin Windows
      /\ NoCall.pc = "idle"
      /\ session # None => session.id \in Ids
      /\ selected \in Requests
    BY ActorsAre, NoCallTyped DEF TypeInv, SessionTyped, WindowsTyped, Sessions
<1> USE DEF FieldsInv, At, Alone, Actors, Windows
<1>1. ASSUME NEW s \in Starts, StartNext(s) PROVE FieldsInv'
    <2>1. CASE CommitPixels(s)
        <3>1. Goes(s, "emitting") /\ call[s].id \in Ids
            BY <1>0, <2>1, StartMoves DEF CommitPixels, InStage, IsSession
        <3> QED BY <1>0, <3>1 DEF Goes
    <2>2. CASE StartCapture(s)
        BY <1>0, <2>2, StartCaptureDoes
    <2>3. CASE BeginCapture(s)
        BY <1>0, <2>3, BeginCaptureDoes, ZenonT(60)
    <2>4. CASE OpenSession(s)
        BY <1>0, <2>4, OpenSessionDoes, ZenonT(60) DEF OpenSession
    <2>5. CASE \/ Becomes(s, NoCall)
               \/ \E pc \in Places \ {"saving", "begun", "emitting"} : Goes(s, pc)
        BY <1>0, <2>5 DEF Becomes, Goes
    <2> QED BY <1>1, <2>1, <2>2, <2>3, <2>4, <2>5, StartMoves DEF StartNext, Places
<1>2. ASSUME NEW a \in {"editor", "opener"}, Alone(a) PROVE FieldsInv'
    BY <1>0, <1>2
<1>3. ASSUME Alone("scroller"), call'["scroller"].pc # "reopen" PROVE FieldsInv'
    BY <1>0, <1>3
<1>4. CASE EditStitched
    <2>1. Goes("scroller", "reopen") /\ call["scroller"].id \in Ids
        BY <1>0, <1>4, ScrollMoves DEF EditStitched, InStage, IsSession
    <2> QED BY <1>0, <2>1 DEF Goes
<1>5. ASSUME ImportNext PROVE FieldsInv'
    <2>1. CASE HearFinished
        BY <2>1 DEF HearFinished
    <2>2. CASE HearReady
        BY <1>0, <2>2, HearReadyDoes
    <2>3. CASE TakePicture
        BY <1>0, <2>3, TakePictureDoes
    <2>4. CASE \/ Becomes("import", NoCall)
               \/ ~At("import", "idle") /\ \E pc \in {"end", "locked"} : Goes("import", pc)
        BY <1>0, <2>4 DEF Becomes, Goes
    <2>5. (AddPicture \/ FailImport \/ EndImport) => ~At("import", "idle")
        BY DEF AddPicture, FailImport, EndImport
    <2> QED BY <1>5, <2>1, <2>2, <2>3, <2>4, <2>5, ImportMoves DEF ImportNext
<1>6. ASSUME \/ WakeOverlay \/ FailWake \/ CloseOverlay
             \/ UNCHANGED vars \/ \E r \in Requests : Select(r)
      PROVE  FieldsInv'
    BY <1>6 DEF WakeOverlay, FailWake, CloseOverlay, Initialize, Select, vars
<1>7. ASSUME EditorNext
      PROVE  WakeOverlay \/ FailWake \/ CloseOverlay \/ \E a \in {"editor", "opener"} : Alone(a)
    BY <1>7, EditorMoves, WindowCalls, CutPictureDoes DEF EditorNext, Becomes, Goes, Calling
<1>8. ASSUME ScrollNext
      PROVE  \/ EditStitched \/ Alone("opener")
             \/ Alone("scroller") /\ call'["scroller"].pc # "reopen"
    BY <1>0, <1>8, ScrollMoves, WindowCalls, OpenScrollingDoes
    DEF ScrollNext, Becomes, Goes, Calling
<1>9. ASSUME NEW a \in {"editor", "scroller"}, CancelNext(a)
      PROVE  Alone(a) /\ call'[a].pc # "reopen"
    BY <1>0, <1>9, CancelMoves, TakeSessionDoes DEF CancelNext, Becomes, Goes
<1> QED BY <1>1, <1>2, <1>3, <1>4, <1>5, <1>6, <1>7, <1>8, <1>9 DEF Next


\* The pixels are read: the session can be edited.
LEMMA CommitPixelsDoes ==
    ASSUME TypeInv, NEW s \in Starts, CommitPixels(s)
    PROVE  /\ At(s, "shooting") /\ Goes(s, "emitting")
           /\ session # None /\ session.stage = "capturing" /\ session.id = call[s].id
           /\ session' # None /\ session'.stage = "editing" /\ session'.id = session.id
           /\ session'.frames = 1 /\ session'.shown = call[s].shown /\ session'.aim = session.aim
           /\ UNCHANGED <<overlay, scroll, console, events, workbench, editor, history>>
           /\ begun' = begun
<1>1. call[s].shown \in BOOLEAN /\ call[s].id \in Ids /\ session.aim \in Requests
    BY ActorsAre
    DEF CommitPixels, InStage, IsSession, TypeInv, SessionTyped, CallsTyped, Calls, Sessions
<1>2. session' = Stage("editing", call[s].id, call[s].shown, session.aim)
    BY DEF CommitPixels
<1>3. session' \in Sessions
    BY <1>1, <1>2, BoundsAssumption DEF Stage, Sessions
<1> QED BY <1>2, <1>3, StartMoves, NoneAssumption
    DEF CommitPixels, InStage, IsSession, Stage, history

\* The picture is ready.
LEMMA CommitReadyDoes ==
    ASSUME TypeInv, CommitReady
    PROVE  /\ At("editor", "completed") /\ Goes("editor", "hide-ready")
           /\ session # None /\ session.id = call["editor"].id
           /\ session' # None /\ session'.stage = "ready" /\ session'.id = session.id
           /\ session'.frames = 1 /\ session'.aim = session.aim
           /\ UNCHANGED <<overlay, scroll, console, events, workbench, editor, history>>
           /\ begun' = begun
<1>1. call["editor"].id \in Ids /\ session.aim \in Requests
    BY DEF CommitReady, IsSession, TypeInv, SessionTyped, Sessions
<1>2. session' = Stage("ready", call["editor"].id, FALSE, session.aim)
    BY DEF CommitReady
<1>3. session' \in Sessions
    BY <1>1, <1>2, BoundsAssumption DEF Stage, Sessions
<1>4. At("editor", "completed") /\ Goes("editor", "hide-ready")
    BY EditorMoves DEF CommitReady
<1>5. session # None /\ session.id = call["editor"].id
    BY DEF CommitReady, IsSession
<1>6. session' # None
    BY <1>3, NoneAssumption
<1>7. session'.stage = "ready" /\ session'.id = session.id /\ session'.frames = 1
      /\ session'.aim = session.aim
    BY <1>2, <1>5 DEF Stage
<1>8. UNCHANGED <<overlay, scroll, console, events, workbench, editor, history>>
    BY DEF CommitReady
<1> QED BY <1>4, <1>5, <1>6, <1>7, <1>8 DEF history

\* A frame is appended.
LEMMA StitchFrameDoes ==
    ASSUME TypeInv, StitchFrame
    PROVE  /\ At("scroller", "frame") /\ Becomes("scroller", NoCall)
           /\ session # None /\ session.stage = "scrolling"
           /\ session' # None /\ session'.stage = "scrolling" /\ session'.id = session.id
           /\ session'.shown = session.shown /\ session'.aim = session.aim
           /\ UNCHANGED <<overlay, scroll, console, events, workbench, editor, history>>
           /\ begun' = begun
<1>1. /\ session \in Sessions /\ session # None /\ session.stage = "scrolling"
      /\ session.frames \in 1 .. MaxFrames /\ session.frames < MaxFrames
      /\ session' = [session EXCEPT !.frames = session.frames + 1]
    BY DEF StitchFrame, InStage, IsSession, TypeInv, SessionTyped, Sessions
<1>2. /\ session' \in Sessions /\ session'.id = session.id /\ session'.stage = "scrolling"
      /\ session'.shown = session.shown /\ session'.aim = session.aim
    BY <1>1, BoundsAssumption DEF Sessions
<1> QED BY <1>1, <1>2, ScrollMoves, NoneAssumption DEF StitchFrame, history

\* The stitched picture can be edited.
LEMMA EditStitchedDoes ==
    ASSUME TypeInv, EditStitched
    PROVE  /\ At("scroller", "finish") /\ Goes("scroller", "reopen")
           /\ session # None /\ session.stage = "scrolling" /\ session.id = call["scroller"].id
           /\ session' # None /\ session'.stage = "editing" /\ session'.id = session.id
           /\ session'.frames = 1 /\ session'.shown = session.shown /\ session'.aim = session.aim
           /\ UNCHANGED <<overlay, scroll, console, events, workbench, editor, history>>
           /\ begun' = begun
<1>1. /\ session \in Sessions /\ session # None /\ session.stage = "scrolling"
      /\ session.id = call["scroller"].id
      /\ session' = [session EXCEPT !.stage = "editing", !.frames = 1]
    BY DEF EditStitched, InStage, IsSession, TypeInv, SessionTyped
<1>2. 1 \in 1 .. MaxFrames
    BY BoundsAssumption
<1>3. /\ session' \in Sessions /\ session'.id = session.id /\ session'.stage = "editing"
      /\ session'.frames = 1 /\ session'.shown = session.shown /\ session'.aim = session.aim
    BY <1>1, <1>2 DEF Sessions
<1> QED BY <1>1, <1>3, ScrollMoves, NoneAssumption DEF EditStitched, history


\* What a step can do to the session: it stays, it ends, a new one begins with
\* the next number, or it goes from stage to stage and once ready stays so.
SessionStep ==
    \/ session' \in {session, None} /\ begun' = begun
    \/ /\ \E s \in Starts : OpenSession(s)
       /\ session' # None
       /\ begun' = begun + 1 /\ session'.id = begun' /\ session'.frames = 1
    \/ /\ session # None /\ session' # None /\ begun' = begun
       /\ session'.id = session.id /\ session'.stage # "capturing"
       /\ session.stage = "ready" => session'.stage = "ready"
       /\ session'.frames > 1 => session'.stage = "scrolling"
       /\ \/ session'.stage = "ready" \/ session'.shown = session.shown
          \/ \E s \in Starts : At(s, "shooting") /\ session'.shown = call[s].shown

\* Every step does one of these.
LEMMA SessionSteps == TypeInv /\ FieldsInv /\ [Next]_vars => SessionStep
<1> SUFFICES ASSUME TypeInv, FieldsInv, [Next]_vars PROVE SessionStep
    OBVIOUS
<1>0. /\ session \in Sessions \cup {None} /\ begun \in Nat /\ 1 <= MaxFrames
      /\ \A i \in Ids, h \in BOOLEAN, r \in Requests, stage \in {"editing", "ready"} :
             Stage(stage, i, h, r) \in Sessions
    BY BoundsAssumption DEF TypeInv, SessionTyped, Stage, Sessions, Ids
<1> USE <1>0
<1>1. ASSUME NEW s \in Starts, OpenSession(s) PROVE SessionStep
    <2>1. call[s].request \in Requests
        BY <1>1 DEF OpenSession, FieldsInv, At
    <2> QED BY <1>1, <2>1, OpenSessionDoes DEF SessionStep
<1>2. ASSUME NEW s \in Starts, CommitPixels(s) PROVE SessionStep
    BY <1>2, CommitPixelsDoes DEF SessionStep, At
<1>3. ASSUME NEW s \in Starts, UndoCapture(s) PROVE SessionStep
    BY <1>3, NoneAssumption DEF UndoCapture, IsSession, events, workbench, editor,
        history, SessionStep
<1>4. ASSUME CommitReady PROVE SessionStep
    BY <1>4, CommitReadyDoes DEF SessionStep
<1>5. ASSUME ConfirmPin PROVE SessionStep
    BY <1>5, NoneAssumption DEF ConfirmPin, IsSession, events, workbench, editor,
        history, SessionStep
<1>6. ASSUME OpenScrolling PROVE SessionStep
    <2>1. session'.frames = session.frames
        BY <1>6 DEF OpenScrolling, InStage, IsSession, Sessions
    <2> QED BY <1>6, <2>1, OpenScrollingDoes DEF InStage, IsSession, history, SessionStep
<1>7. ASSUME ClearScrolling PROVE SessionStep
    BY <1>7, NoneAssumption DEF ClearScrolling, events, workbench, editor, history,
        SessionStep
<1>8. ASSUME StitchFrame PROVE SessionStep
    BY <1>8, StitchFrameDoes DEF SessionStep
<1>9. ASSUME EditStitched PROVE SessionStep
    BY <1>9, EditStitchedDoes DEF SessionStep
<1>10. ASSUME TakePicture PROVE SessionStep
    BY <1>10, NoneAssumption DEF TakePicture, InStage, IsSession, events, workbench,
        editor, history, SessionStep
<1>11. ASSUME Discard PROVE SessionStep
    BY <1>11, NoneAssumption DEF Discard, IsSession, events, editor, history,
        SessionStep
<1>12. ASSUME NEW a \in {"editor", "scroller"}, TakeSession(a) PROVE SessionStep
    BY <1>12, NoneAssumption DEF TakeSession, events, workbench, editor, history,
        SessionStep
<1>13. ASSUME \/ UNCHANGED vars
              \/ \E s \in Starts : StartCapture(s)
              \/ \E s \in Starts : GiveUpStart(s)
              \/ \E s \in Starts : BeginCapture(s)
              \/ \E s \in Starts : RefuseSession(s)
              \/ \E s \in Starts : ChooseMonitors(s)
              \/ \E s \in Starts : PrepareOverlay(s)
              \/ \E s \in Starts : HideConsole(s)
              \/ \E s \in Starts : FailPixels(s)
              \/ \E s \in Starts : FailReady(s)
              \/ \E s \in Starts : EmitReady(s)
              \/ \E s \in Starts : RestoreAfterCapture(s)
              \/ \E s \in Starts : CatchStart(s)
              \/ WakeOverlay
              \/ FailWake
              \/ CloseOverlay
              \/ Complete
              \/ Pin
              \/ Cancel
              \/ BeginScrolling
              \/ CutPicture
              \/ RejectEditor
              \/ PinPicture
              \/ UndoPin
              \/ HideOverlay
              \/ TellWorkbench
              \/ FailTelling
              \/ RejectOpener
              \/ HideForScrolling
              \/ BuildScroll
              \/ ShowScroll
              \/ FailScroll
              \/ RestoreAfterScrolling
              \/ AppendFrame
              \/ FinishScrolling
              \/ CancelScrolling
              \/ SkipFrame
              \/ RefuseFinish
              \/ ReopenOverlay
              \/ FailReopen
              \/ HearFinished
              \/ HearReady
              \/ AddPicture
              \/ FailImport
              \/ EndImport
              \/ \E a \in {"editor", "scroller"} : CloseWindows(a)
              \/ \E a \in {"editor", "scroller"} : TellCancelled(a)
              \/ \E a \in {"editor", "scroller"} : FailCancelled(a)
              \/ \E r \in Requests : Select(r)
      PROVE  UNCHANGED <<session, begun>>
    BY <1>13 DEF vars, process, events, workbench, editor, history, StartCapture,
        GiveUpStart, BeginCapture, RefuseSession, ChooseMonitors, PrepareOverlay,
        HideConsole, FailPixels, FailReady, EmitReady, RestoreAfterCapture, CatchStart,
        WakeOverlay, FailWake, CloseOverlay, Initialize,
        Complete, OverlayCalls, Pin, Cancel, BeginScrolling, CutPicture,
        RejectEditor, Reject, PinPicture, UndoPin, HideOverlay, TellWorkbench,
        FailTelling, RejectOpener, HideForScrolling, BuildScroll, ShowScroll,
        FailScroll, RestoreAfterScrolling, AppendFrame, ScrollCalls, FinishScrolling,
        CancelScrolling, SkipFrame, RefuseFinish, ReopenOverlay, FailReopen,
        HearFinished, HearReady, AddPicture, FailImport, EndImport, CloseWindows,
        TellCancelled, FailCancelled, Select
<1>14. ASSUME UNCHANGED <<session, begun>> PROVE SessionStep
    BY <1>14 DEF SessionStep
<1> QED BY <1>1, <1>2, <1>3, <1>4, <1>5, <1>6, <1>7, <1>8, <1>9, <1>10, <1>11, <1>12,
    <1>13, <1>14 DEF Next, StartNext, EditorNext, ScrollNext, CancelNext, ImportNext


\* A session that ends without a window: the number of one whose picture is
\* ready, or has been taken, is never again that of a session to be edited.
Spent(i) == i \in 1 .. begun /\ (IsSession(i) => session.stage = "ready")
SpentInv ==
    /\ session # None => session.id \in 1 .. begun
    /\ \A k \in DOMAIN toMain : toMain[k].kind = "ready" => Spent(toMain[k].id)
    /\ call["editor"].pc \in {"hide-ready", "tell-ready"} => Spent(call["editor"].id)
    /\ ~At("import", "idle") => Spent(call["import"].id)

\* What is spent stays so.
LEMMA SpentKept ==
    ASSUME TypeInv, FieldsInv, SpentInv, [Next]_vars, NEW i, Spent(i)
    PROVE  Spent(i)'
<1>1. begun \in Nat
    BY DEF TypeInv, SessionTyped
<1> QED BY <1>1, SessionSteps DEF SessionStep, Spent, SpentInv, IsSession

\* Every event of the workbench but the one it hears is kept; a new one says
\* that a picture is ready only when the editor has committed it.
LEMMA EventSteps ==
    ASSUME TypeInv, FieldsInv, [Next]_vars, NEW k \in DOMAIN toMain'
    PROVE  \/ \E j \in DOMAIN toMain : toMain'[k] = toMain[j]
           \/ toMain'[k].kind = "finished"
           \/ At("editor", "tell-ready") /\ toMain'[k].id = call["editor"].id
<1>0. toMain \in Seq(Events) /\ \A i \in Ids \cup {None} :
          /\ [kind |-> "ready", id |-> i] \in Events /\ [kind |-> "finished", id |-> i] \in Events
    BY DEF TypeInv, EventsTyped, Events
<1>1. \A a \in Actors : call[a].id \in Ids \cup {None}
    BY DEF TypeInv, CallsTyped, Calls
<1>2. ASSUME NEW e \in Events, toMain' = Append(toMain, e)
      PROVE  (\E j \in DOMAIN toMain : toMain'[k] = toMain[j]) \/ toMain'[k] = e
    BY <1>0, <1>2
<1>3. CASE TellWorkbench
    <2>1. CASE At("editor", "tell-ready") /\ Notify("ready", call["editor"].id)
        BY <1>0, <1>1, <1>2, <2>1, ActorsAre DEF Notify
    <2>2. CASE Notify("finished", call["editor"].id)
        BY <1>0, <1>1, <1>2, <2>2, ActorsAre DEF Notify
    <2> QED BY <1>3, <2>1, <2>2 DEF TellWorkbench
<1>4. ASSUME NEW a \in {"editor", "scroller"}, TellCancelled(a)
      PROVE  (\E j \in DOMAIN toMain : toMain'[k] = toMain[j]) \/ toMain'[k].kind = "finished"
    BY <1>0, <1>1, <1>2, <1>4, ActorsAre DEF TellCancelled, Notify
<1>5. CASE HearFinished \/ HearReady
    <2>1. toMain # <<>> /\ toMain' = Tail(toMain)
        BY <1>5 DEF HearFinished, HearReady
    <2>2. k + 1 \in DOMAIN toMain /\ toMain'[k] = toMain[k + 1]
        BY <1>0, <2>1
    <2> QED BY <2>2
<1>6. CASE toMain' = toMain
    BY <1>6
<1>7. ASSUME NEW s \in Starts, StartNext(s) PROVE toMain' = toMain
    BY <1>7 DEF StartNext, events, StartCapture, GiveUpStart, BeginCapture,
        OpenSession, RefuseSession, ChooseMonitors, PrepareOverlay, HideConsole,
        CommitPixels, FailPixels, FailReady, EmitReady, UndoCapture,
        RestoreAfterCapture, CatchStart
<1>8. EditorNext => TellWorkbench \/ toMain' = toMain
    BY DEF EditorNext, events, OverlayCalls, Reject, WakeOverlay, FailWake, CloseOverlay,
        Initialize,
        Complete, Pin,
        Cancel, BeginScrolling, CutPicture, RejectEditor, CommitReady, PinPicture,
        ConfirmPin, UndoPin, HideOverlay, FailTelling
<1>9. ScrollNext => toMain' = toMain
    BY DEF ScrollNext, events, ScrollCalls, OverlayCalls, Reject, OpenScrolling,
        RejectOpener, HideForScrolling, BuildScroll, ShowScroll, FailScroll,
        ClearScrolling, RestoreAfterScrolling, AppendFrame, FinishScrolling,
        CancelScrolling, StitchFrame, SkipFrame, EditStitched, RefuseFinish,
        ReopenOverlay, FailReopen
<1>10. ImportNext => HearFinished \/ HearReady \/ toMain' = toMain
    BY DEF ImportNext, events, TakePicture, AddPicture, FailImport, EndImport, Discard
<1>11. ASSUME NEW a \in {"editor", "scroller"}, CancelNext(a)
       PROVE  TellCancelled(a) \/ toMain' = toMain
    BY <1>11 DEF CancelNext, events, TakeSession, CloseWindows, FailCancelled
<1>12. ASSUME UNCHANGED vars \/ \E r \in Requests : Select(r) PROVE toMain' = toMain
    BY <1>12 DEF vars, events, Select
<1> QED BY <1>3, <1>4, <1>5, <1>6, <1>7, <1>8, <1>9, <1>10, <1>11, <1>12 DEF Next


\* Whose call a step changes.
LEMMA WhoMoves ==
    ASSUME TypeInv, FieldsInv, [Next]_vars
    PROVE  \/ call' = call
           \/ \E s \in Starts : StartNext(s) /\ Alone(s)
           \/ EditorNext /\ (Alone("editor") \/ (BeginScrolling /\ Alone("opener")))
           \/ ScrollNext /\ (Alone("opener") \/ Alone("scroller"))
           \/ ImportNext /\ Alone("import")
           \/ \E a \in {"editor", "scroller"} : CancelNext(a) /\ Alone(a)
<1>1. ASSUME NEW s \in Starts, StartNext(s) PROVE Alone(s)
    BY <1>1, StartMoves, StartCaptureDoes, BeginCaptureDoes, OpenSessionDoes
    DEF StartNext, Goes, Becomes, FieldsInv, OpenSession, At
<1>2. ASSUME EditorNext PROVE call' = call \/ Alone("editor") \/ (BeginScrolling /\ Alone("opener"))
    <2>1. CASE WakeOverlay \/ FailWake \/ CloseOverlay
        BY <2>1 DEF WakeOverlay, FailWake, CloseOverlay, Initialize, workbench, history
    <2>2. CASE BeginScrolling
        BY <2>2, WindowCalls DEF Calling
    <2> QED BY <1>2, <2>1, <2>2, EditorMoves, WindowCalls, CutPictureDoes
        DEF EditorNext, Goes, Becomes, Calling
<1>3. ASSUME ScrollNext PROVE Alone("opener") \/ Alone("scroller")
    BY <1>3, ScrollMoves, WindowCalls, OpenScrollingDoes DEF ScrollNext, Goes, Becomes, Calling
<1>4. ASSUME ImportNext PROVE call' = call \/ Alone("import")
    <2>1. CASE HearFinished
        BY <2>1 DEF HearFinished
    <2> QED BY <1>4, <2>1, ImportMoves, HearReadyDoes, TakePictureDoes
        DEF ImportNext, Goes, Becomes
<1>5. ASSUME NEW a \in {"editor", "scroller"}, CancelNext(a) PROVE Alone(a)
    BY <1>5, CancelMoves, TakeSessionDoes DEF CancelNext, Goes, Becomes
<1>6. ASSUME UNCHANGED vars \/ \E r \in Requests : Select(r) PROVE call' = call
    BY <1>6 DEF vars, Select
<1> QED BY <1>1, <1>2, <1>3, <1>4, <1>5, <1>6 DEF Next

\* How the call of the editor comes to tell of a ready picture.
LEMMA EditorCallSteps ==
    ASSUME TypeInv, FieldsInv, [Next]_vars, call'["editor"].pc \in {"hide-ready", "tell-ready"}
    PROVE  \/ call'["editor"] = call["editor"]
           \/ CommitReady
           \/ call["editor"].pc = "hide-ready" /\ call'["editor"].id = call["editor"].id
<1>0. NoCall.pc = "idle" /\ "editor" \in Actors /\ "editor" \notin Starts
    BY NoCallTyped, ActorsAre
<1>1. ASSUME NEW b \in Actors \ {"editor"}, Alone(b) PROVE call'["editor"] = call["editor"]
    BY <1>0, <1>1 DEF Alone
<1>2. CASE EditorNext /\ Alone("editor")
    <2>1. WakeOverlay \/ FailWake \/ CloseOverlay => call' = call
        BY DEF WakeOverlay, FailWake, CloseOverlay, Initialize
    <2>2. BeginScrolling => call'["editor"] = call["editor"]
        BY <1>1, WindowCalls, ActorsAre DEF Calling
    <2> QED BY <1>0, <1>2, <2>1, <2>2, EditorMoves, WindowCalls, CutPictureDoes
        DEF EditorNext, Goes, Becomes, Calling, At
<1>3. ASSUME CancelNext("editor") PROVE FALSE
    BY <1>0, <1>3, CancelMoves, TakeSessionDoes DEF CancelNext, Goes, Becomes
<1> QED BY <1>1, <1>2, <1>3, WhoMoves, ActorsAre

\* How an import goes on.
LEMMA ImportCallSteps ==
    ASSUME TypeInv, FieldsInv, [Next]_vars, ~(At("import", "idle")')
    PROVE  \/ ~At("import", "idle") /\ call'["import"].id = call["import"].id
           \/ HearReady
<1>0. NoCall.pc = "idle" /\ "import" \in Actors /\ "import" \notin Starts
    BY NoCallTyped, ActorsAre
<1>1. ASSUME NEW b \in Actors \ {"import"}, Alone(b) PROVE call'["import"] = call["import"]
    BY <1>0, <1>1 DEF Alone
<1>2. CASE ImportNext /\ Alone("import")
    <2>1. HearFinished => call' = call
        BY DEF HearFinished
    <2>2. AddPicture \/ FailImport \/ EndImport => ~At("import", "idle")
        BY DEF AddPicture, FailImport, EndImport, At
    <2> QED BY <1>0, <1>2, <2>1, <2>2, ImportMoves, TakePictureDoes
        DEF ImportNext, Goes, Becomes, At
<1> QED BY <1>1, <1>2, WhoMoves, ActorsAre DEF At


\* Every step keeps what is spent apart from what can be edited.
LEMMA SpentPreserved == TypeInv /\ FieldsInv /\ SpentInv /\ [Next]_vars => SpentInv'
<1> SUFFICES ASSUME TypeInv, FieldsInv, SpentInv, [Next]_vars PROVE SpentInv'
    OBVIOUS
<1>0. begun \in Nat /\ toMain \in Seq(Events)
    BY DEF TypeInv, SessionTyped, EventsTyped
<1>1. session' # None => session'.id \in 1 .. begun'
    BY <1>0, SessionSteps DEF SessionStep, SpentInv
<1>2. ASSUME NEW k \in DOMAIN toMain', toMain'[k].kind = "ready" PROVE Spent(toMain[k].id)'
    <2>1. PICK i : toMain'[k].id = i /\ Spent(i)
        <3>1. CASE \E j \in DOMAIN toMain : toMain'[k] = toMain[j]
            BY <1>2, <3>1 DEF SpentInv
        <3>2. CASE At("editor", "tell-ready") /\ toMain'[k].id = call["editor"].id
            BY <3>2 DEF SpentInv, At
        <3> QED BY <1>2, <3>1, <3>2, EventSteps
    <2>2. Spent(i)'
        BY <2>1, SpentKept
    <2> QED BY <2>1, <2>2 DEF Spent, IsSession
<1>3. ASSUME call'["editor"].pc \in {"hide-ready", "tell-ready"}
      PROVE  Spent(call["editor"].id)'
    <2>1. CASE call["editor"].pc \in {"hide-ready", "tell-ready"} /\ call'["editor"].id = call["editor"].id
        <3>1. Spent(call["editor"].id)
            BY <2>1 DEF SpentInv
        <3>2. PICK i : i = call["editor"].id /\ Spent(i)
            BY <3>1
        <3>3. Spent(i)'
            BY <3>2, SpentKept
        <3> QED BY <2>1, <3>2, <3>3 DEF Spent, IsSession
    <2>2. CASE CommitReady
        <3>1. Goes("editor", "hide-ready") /\ call["editor"].id \in 1 .. begun
            BY <2>2, EditorMoves DEF CommitReady, IsSession, SpentInv
        <3>2. session'.stage = "ready" /\ begun' = begun
            BY <2>2 DEF CommitReady, Stage, history
        <3> QED BY <3>1, <3>2 DEF Goes, Spent, IsSession
    <2>3. \/ call'["editor"] = call["editor"]
          \/ CommitReady
          \/ call["editor"].pc = "hide-ready" /\ call'["editor"].id = call["editor"].id
        BY <1>3, EditorCallSteps
    <2> QED BY <1>3, <2>1, <2>2, <2>3
<1>4. ASSUME ~(At("import", "idle")') PROVE Spent(call["import"].id)'
    <2>1. PICK i : call'["import"].id = i /\ Spent(i)
        <3>1. CASE ~At("import", "idle") /\ call'["import"].id = call["import"].id
            BY <3>1 DEF SpentInv
        <3>2. CASE HearReady
            <4>1. toMain # <<>> /\ Head(toMain) = toMain[1] /\ 1 \in DOMAIN toMain
                BY <1>0, <3>2 DEF HearReady
            <4>2. toMain[1].kind = "ready" /\ call'["import"].id = toMain[1].id
                BY <3>2, <4>1, HearReadyDoes
            <4> QED BY <4>1, <4>2 DEF SpentInv
        <3> QED BY <1>4, <3>1, <3>2, ImportCallSteps
    <2>2. Spent(i)'
        BY <2>1, SpentKept
    <2> QED BY <2>1, <2>2 DEF Spent, IsSession
<1> QED BY <1>1, <1>2, <1>3, <1>4 DEF SpentInv


\* Only a session being scrolled has frames to append to, and a session being
\* captured is that of a capture under way.
Shooting == {"opened", "chosen", "prepared", "shooting", "undo"}
StageInv ==
    /\ session # None /\ session.frames > 1 => session.stage = "scrolling"
    /\ session # None /\ session.stage = "capturing" =>
          \E s \in Starts : call[s].pc \in Shooting /\ call[s].id = session.id

\* A capture goes on until its session is no longer being captured.
LEMMA StagePreserved == TypeInv /\ FieldsInv /\ StageInv /\ [Next]_vars => StageInv'
<1> SUFFICES ASSUME TypeInv, FieldsInv, StageInv, [Next]_vars PROVE StageInv'
    OBVIOUS
<1>1. session' # None /\ session'.frames > 1 => session'.stage = "scrolling"
    BY SessionSteps DEF SessionStep, StageInv
<1>2. ASSUME session' # None, session'.stage = "capturing"
      PROVE  \E s \in Starts : call'[s].pc \in Shooting /\ call'[s].id = session'.id
    <2>1. CASE \E s \in Starts : OpenSession(s)
        <3>1. PICK s \in Starts : OpenSession(s)
            BY <2>1
        <3>2. call'[s].pc = "opened" /\ call'[s].id = session'.id
            BY <3>1, OpenSessionDoes DEF FieldsInv, OpenSession, At
        <3> QED BY <3>2 DEF Shooting
    <2>2. CASE session' = session
        <3>1. PICK s \in Starts : call[s].pc \in Shooting /\ call[s].id = session.id
            BY <1>2, <2>2 DEF StageInv
        <3>2. s \in Actors /\ s \notin Windows
            BY ActorsAre
        <3>3. CASE StartNext(s) /\ Alone(s)
            <4>1. ~CommitPixels(s)
                BY <1>2, <2>2 DEF CommitPixels, Stage
            <4>2. ~UndoCapture(s)
                BY <1>2, <2>2, <3>1 DEF UndoCapture, IsSession
            <4>3. \E pc \in {"chosen", "undo", "prepared", "shooting"} : Goes(s, pc)
                BY <3>1, <3>3, <4>1, <4>2, StartMoves
                DEF StartNext, Shooting, At, StartCapture, GiveUpStart, BeginCapture, OpenSession,
                    RefuseSession, FailReady, EmitReady, RestoreAfterCapture, CatchStart
            <4> QED BY <2>2, <3>1, <4>3 DEF Goes, Shooting
        <3>4. CASE \E b \in Actors \ {s} : Alone(b)
            BY <2>2, <3>1, <3>2, <3>4 DEF Alone
        <3>5. CASE call' = call
            BY <2>2, <3>1, <3>5
        <3> QED BY <3>2, <3>3, <3>4, <3>5, WhoMoves, ActorsAre DEF Windows
    <2> QED BY <1>2, <2>1, <2>2, SessionSteps DEF SessionStep
<1> QED BY <1>1, <1>2 DEF StageInv

-----------------------------------------------------------------------------
(* The console comes back.                                                 *)

Hiding == {"opened", "chosen", "prepared", "shooting", "emitting", "undo", "restoring"}
Leaving == {"hide-ready", "tell-ready", "hide-pinned", "tell-pinned"}
Cutting == {"completed", "pinning", "pinned"}
Unrolling == {"hide", "build", "show", "clear", "restore"}

\* Unless one began while another hid the console, every session and every call
\* that is to bring the console back knows that it was shown.
ShownInv ==
    ~misread =>
        /\ session # None /\ session.stage # "ready" => session.shown
        /\ \A s \in Starts : call[s].pc \in Hiding => call[s].shown
        /\ call["editor"].pc \in Cutting \cup Leaving => call["editor"].shown
        /\ call["opener"].pc \in Unrolling => call["opener"].shown

\* Who is to bring the console back: the session, or the call that ended it or
\* hides the console.
Owed ==
    \/ session # None /\ session.stage # "ready"
    \/ \E s \in Starts : call[s].pc \in {"shooting", "undo", "restoring"}
    \/ call["editor"].pc \in Leaving
    \/ \E a \in {"editor", "scroller"} :
          call[a].pc \in {"close", "tell-cancelled"} /\ call[a].shown
    \/ call["opener"].pc = "restore"
OwnerInv == ~misread /\ ~console => Owed

\* A misread console stays misread.
LEMMA MisreadStays ==
    ASSUME TypeInv, FieldsInv, [Next]_vars, ~misread' PROVE ~misread
<1>1. ASSUME NEW s \in Starts, StartNext(s) PROVE ~misread
    <2>1. CASE OpenSession(s)
        BY <2>1 DEF OpenSession, TypeInv, HistoryTyped
    <2> QED BY <1>1, <2>1 DEF StartNext, history, StartCapture, GiveUpStart,
        BeginCapture, RefuseSession, ChooseMonitors, PrepareOverlay, HideConsole,
        CommitPixels, FailPixels, FailReady, EmitReady, UndoCapture,
        RestoreAfterCapture, CatchStart
<1>2. EditorNext => misread' = misread
    BY DEF EditorNext, history, OverlayCalls, Reject, WakeOverlay, FailWake, CloseOverlay,
        Initialize,
        Complete, Pin,
        Cancel, BeginScrolling, CutPicture, RejectEditor, CommitReady, PinPicture,
        ConfirmPin, UndoPin, HideOverlay, TellWorkbench, FailTelling
<1>3. ScrollNext => misread' = misread
    BY DEF ScrollNext, history, ScrollCalls, Reject, OpenScrolling, RejectOpener,
        HideForScrolling, BuildScroll, ShowScroll, FailScroll, ClearScrolling,
        RestoreAfterScrolling, AppendFrame, FinishScrolling, CancelScrolling,
        StitchFrame, SkipFrame, EditStitched, RefuseFinish, ReopenOverlay, FailReopen
<1>4. ImportNext => misread' = misread
    BY DEF ImportNext, history, HearFinished, HearReady, TakePicture, AddPicture,
        FailImport, EndImport, Discard
<1>5. ASSUME NEW a \in {"editor", "scroller"}, CancelNext(a) PROVE misread' = misread
    BY <1>5 DEF CancelNext, history, TakeSession, CloseWindows, TellCancelled,
        FailCancelled
<1>6. ASSUME UNCHANGED vars \/ \E r \in Requests : Select(r) PROVE misread' = misread
    BY <1>6 DEF vars, history, Select
<1> QED BY <1>1, <1>2, <1>3, <1>4, <1>5, <1>6 DEF Next

\* Every step keeps what the calls know of the console.
LEMMA ShownPreserved == TypeInv /\ FieldsInv /\ ShownInv /\ [Next]_vars => ShownInv'
<1> SUFFICES ASSUME TypeInv, FieldsInv, ShownInv, [Next]_vars, ~misread'
             PROVE  /\ session' # None /\ session'.stage # "ready" => session'.shown
                    /\ \A s \in Starts : call'[s].pc \in Hiding => call'[s].shown
                    /\ call'["editor"].pc \in Cutting \cup Leaving => call'["editor"].shown
                    /\ call'["opener"].pc \in Unrolling => call'["opener"].shown
    BY DEF ShownInv
<1>0. /\ session # None /\ session.stage # "ready" => session.shown
      /\ \A s \in Starts : call[s].pc \in Hiding => call[s].shown
      /\ call["editor"].pc \in Cutting \cup Leaving => call["editor"].shown
      /\ call["opener"].pc \in Unrolling => call["opener"].shown
    BY MisreadStays DEF ShownInv
<1>1. \A s \in Starts : OpenSession(s) =>
          call[s].shown /\ call'[s].shown /\ session'.shown /\ Alone(s)
    BY OpenSessionDoes DEF OpenSession, FieldsInv, At
<1>2. session' # None /\ session'.stage # "ready" => session'.shown
    BY <1>0, <1>1, SessionSteps DEF SessionStep, At, Hiding
<1>3. ASSUME NEW s \in Starts, call'[s].pc \in Hiding PROVE call'[s].shown
    <2>1. CASE StartNext(s) /\ Alone(s)
        <3>1. CASE OpenSession(s)
            BY <1>1, <3>1
        <3>2. CASE ~OpenSession(s)
            <4>1. \E pc \in Hiding : call[s].pc \in Hiding /\ Goes(s, pc)
                BY <1>3, <2>1, <3>2, StartMoves, StartCaptureDoes, BeginCaptureDoes, NoCallTyped
                DEF StartNext, Hiding, At, Goes, Becomes, RefuseSession, ChooseMonitors,
                    PrepareOverlay, HideConsole, CommitPixels, FailPixels, FailReady, UndoCapture,
                    RestoreAfterCapture
            <4> QED BY <1>0, <4>1 DEF Goes
        <3> QED BY <3>1, <3>2
    <2>2. CASE call'[s] = call[s]
        BY <1>0, <1>3, <2>2
    <2>3. (\E b \in Actors \ {s} : Alone(b)) => call'[s] = call[s]
        BY ActorsAre DEF Alone
    <2> QED BY <2>1, <2>2, <2>3, WhoMoves, ActorsAre DEF Windows
<1>4. ASSUME call'["editor"].pc \in Cutting \cup Leaving PROVE call'["editor"].shown
    <2>1. CASE EditorNext /\ Alone("editor")
        <3>1. CASE CutPicture
            BY <1>0, <3>1, CutPictureDoes DEF InStage, IsSession
        <3>2. CASE ~CutPicture
            <4>1. \/ call'["editor"] = call["editor"]
                  \/ \E pc \in Places : call["editor"].pc \in Cutting \cup Leaving /\ Goes("editor", pc)
                <5>1. WakeOverlay \/ FailWake \/ CloseOverlay => call' = call
                    BY DEF WakeOverlay, FailWake, CloseOverlay, Initialize
                <5>2. BeginScrolling => call'["editor"] = call["editor"]
                    BY WindowCalls, ActorsAre DEF Calling, Alone
                <5> QED BY <1>4, <2>1, <3>2, <5>1, <5>2, EditorMoves, WindowCalls, NoCallTyped
                    DEF EditorNext, Cutting, Leaving, Places, At, Calling, Becomes, CommitReady,
                        PinPicture, ConfirmPin
            <4> QED BY <1>0, <1>4, <4>1 DEF Goes
        <3> QED BY <3>1, <3>2
    <2>2. CASE CancelNext("editor")
        BY <1>4, <2>2, CancelMoves, TakeSessionDoes, NoCallTyped
        DEF CancelNext, Goes, Becomes, Cutting, Leaving
    <2>3. CASE call'["editor"] = call["editor"]
        BY <1>0, <1>4, <2>3
    <2>4. (\E b \in Actors \ {"editor"} : Alone(b)) => call'["editor"] = call["editor"]
        BY ActorsAre DEF Alone
    <2> QED BY <2>1, <2>2, <2>3, <2>4, WhoMoves, ActorsAre
<1>5. ASSUME call'["opener"].pc \in Unrolling PROVE call'["opener"].shown
    <2>1. CASE OpenScrolling
        BY <1>0, <2>1, OpenScrollingDoes DEF InStage, IsSession
    <2>2. CASE ScrollNext /\ Alone("opener") /\ ~OpenScrolling
        <3>1. \/ call'["opener"] = call["opener"]
              \/ \E pc \in Places : call["opener"].pc \in Unrolling /\ Goes("opener", pc)
            <4>1. (\E c : Becomes("scroller", c)) \/ Goes("scroller", "reopen")
                     \/ (\E pc, i : Calling("scroller", pc, i))
                  => call'["opener"] = call["opener"]
                BY ActorsAre DEF Becomes, Goes, Calling, Alone
            <4> QED BY <1>5, <2>2, <4>1, ScrollMoves, WindowCalls, NoCallTyped
                DEF ScrollNext, Unrolling, Places, At, Becomes, HideForScrolling, BuildScroll,
                    FailScroll, ClearScrolling
        <3> QED BY <1>0, <1>5, <3>1 DEF Goes
    <2>3. CASE BeginScrolling
        BY <1>5, <2>3, WindowCalls DEF Calling, Unrolling
    <2>4. CASE call'["opener"] = call["opener"]
        BY <1>0, <1>5, <2>4
    <2>5. (\E b \in Actors \ {"opener"} : Alone(b)) => call'["opener"] = call["opener"]
        BY ActorsAre DEF Alone
    <2> QED BY <2>1, <2>2, <2>3, <2>4, <2>5, WhoMoves, ActorsAre
<1> QED BY <1>2, <1>3, <1>4, <1>5


\* Only a capture hides the console.
LEMMA ConsoleHidden ==
    ASSUME [Next]_vars, console, ~console'
    PROVE  \E s \in Starts : HideConsole(s)
<1>1. ASSUME NEW s \in Starts, StartNext(s) PROVE HideConsole(s)
    BY <1>1 DEF StartNext, process, StartCapture, GiveUpStart, BeginCapture,
        OpenSession, RefuseSession, ChooseMonitors, PrepareOverlay, CommitPixels,
        FailPixels, FailReady, EmitReady, UndoCapture, RestoreAfterCapture, CatchStart
<1>2. ~EditorNext
    BY DEF EditorNext, process, OverlayCalls, Reject, WakeOverlay, FailWake, CloseOverlay,
        Initialize,
        Complete, Pin,
        Cancel, BeginScrolling, CutPicture, RejectEditor, CommitReady, PinPicture,
        ConfirmPin, UndoPin, HideOverlay, TellWorkbench, FailTelling
<1>3. ~ScrollNext
    BY DEF ScrollNext, process, ScrollCalls, Reject, OpenScrolling, RejectOpener,
        HideForScrolling, BuildScroll, ShowScroll, FailScroll, ClearScrolling,
        RestoreAfterScrolling, AppendFrame, FinishScrolling, CancelScrolling,
        StitchFrame, SkipFrame, EditStitched, RefuseFinish, ReopenOverlay, FailReopen
<1>4. ~ImportNext
    BY DEF ImportNext, process, HearFinished, HearReady, TakePicture, AddPicture,
        FailImport, EndImport, Discard
<1>5. ASSUME NEW a \in {"editor", "scroller"} PROVE ~CancelNext(a)
    BY <1>5 DEF CancelNext, TakeSession, CloseWindows, TellCancelled, FailCancelled
<1>6. ~(UNCHANGED vars) /\ \A r \in Requests : ~Select(r)
    BY DEF vars, process, Select
<1> QED BY <1>1, <1>2, <1>3, <1>4, <1>5, <1>6 DEF Next


\* Where a start is, after a step that is not its own and after one that is.
LEMMA StartStays ==
    ASSUME TypeInv, FieldsInv, [Next]_vars, NEW s \in Starts
    PROVE  call'[s] = call[s] \/ (StartNext(s) /\ Alone(s))
<1>1. (\E b \in Actors \ {s} : Alone(b)) => call'[s] = call[s]
    BY ActorsAre DEF Alone
<1> QED BY <1>1, WhoMoves, ActorsAre DEF Windows

\* Who ends the session owes the console.
LEMMA SessionOwed ==
    ASSUME TypeInv, FieldsInv, SpentInv, ShownInv, ~misread, [Next]_vars,
           session # None, session.stage # "ready"
    PROVE  Owed'
<1>0. session.shown
    BY DEF ShownInv
<1>1. CASE session' # None /\ session'.stage # "ready"
    BY <1>1 DEF Owed
<1>2. ASSUME NEW s \in Starts, UndoCapture(s) PROVE Owed'
    BY <1>2, StartMoves DEF Owed, Goes
<1>3. CASE CommitReady \/ ConfirmPin
    BY <1>3, EditorMoves DEF Owed, Goes, Leaving
<1>4. CASE ClearScrolling
    BY <1>4, ScrollMoves DEF Owed, Goes
<1>5. ASSUME NEW a \in {"editor", "scroller"}, TakeSession(a) PROVE Owed'
    BY <1>0, <1>5, TakeSessionDoes DEF Owed
<1>6. ~TakePicture
    BY DEF TakePicture, InStage
<1>7. Discard => session' = session
    BY DEF Discard, SpentInv, Spent, At
<1>8. ASSUME NEW s \in Starts, StartNext(s)
      PROVE  UndoCapture(s) \/ (session' # None /\ session'.stage # "ready")
    <2>1. CASE OpenSession(s) \/ CommitPixels(s)
        BY <2>1, OpenSessionDoes, CommitPixelsDoes DEF OpenSession, FieldsInv, At
    <2> QED BY <1>8, <2>1 DEF StartNext, process, StartCapture, GiveUpStart,
        BeginCapture, RefuseSession, ChooseMonitors, PrepareOverlay, HideConsole,
        FailPixels, FailReady, EmitReady, RestoreAfterCapture, CatchStart
<1>9. EditorNext => CommitReady \/ ConfirmPin \/ session' = session
    BY DEF EditorNext, process, OverlayCalls, Reject, WakeOverlay, FailWake, CloseOverlay,
        Initialize,
        Complete, Pin,
        Cancel, BeginScrolling, CutPicture, RejectEditor, CommitReady, PinPicture,
        ConfirmPin, UndoPin, HideOverlay, TellWorkbench, FailTelling
<1>10. ScrollNext => ClearScrolling \/ (session' # None /\ session'.stage # "ready")
    <2>1. CASE OpenScrolling
        BY <2>1, OpenScrollingDoes
    <2>2. CASE StitchFrame \/ EditStitched
        BY <2>2, StitchFrameDoes, EditStitchedDoes
    <2>3. ScrollNext => \/ OpenScrolling \/ StitchFrame \/ EditStitched \/ ClearScrolling
                        \/ session' = session
        BY DEF ScrollNext, process, ScrollCalls, Reject, OpenScrolling, RejectOpener,
            HideForScrolling, BuildScroll, ShowScroll, FailScroll, ClearScrolling,
            RestoreAfterScrolling, AppendFrame, FinishScrolling, CancelScrolling,
            StitchFrame, SkipFrame, EditStitched, RefuseFinish, ReopenOverlay,
            FailReopen
    <2> QED BY <2>1, <2>2, <2>3
<1>11. ImportNext => TakePicture \/ Discard \/ session' = session
    BY DEF ImportNext, process, HearFinished, HearReady, TakePicture, AddPicture,
        FailImport, EndImport, Discard
<1>12. ASSUME NEW a \in {"editor", "scroller"}, CancelNext(a)
       PROVE  TakeSession(a) \/ session' = session
    BY <1>12 DEF CancelNext, TakeSession, CloseWindows, TellCancelled, FailCancelled
<1>13. ASSUME UNCHANGED vars \/ \E r \in Requests : Select(r) PROVE session' = session
    BY <1>13 DEF vars, process, Select
<1> QED BY <1>1, <1>2, <1>3, <1>4, <1>5, <1>6, <1>7, <1>8, <1>9, <1>10, <1>11, <1>12, <1>13
    DEF Next

\* Who owes the console goes on owing it, hands it over or brings it back.
LEMMA OwnerPreserved ==
    TypeInv /\ FieldsInv /\ SpentInv /\ ShownInv /\ OwnerInv /\ [Next]_vars => OwnerInv'
<1> SUFFICES ASSUME TypeInv, FieldsInv, SpentInv, ShownInv, OwnerInv, [Next]_vars,
                    ~misread', ~console'
             PROVE  Owed'
    BY DEF OwnerInv
<1>0. ~misread
    BY MisreadStays
<1>1. ASSUME NEW s \in Starts, call[s].pc \in {"shooting", "undo", "restoring"} PROVE Owed'
    <2>1. call[s].shown
        BY <1>0, <1>1 DEF ShownInv, Hiding
    <2>2. CASE call'[s] = call[s]
        BY <1>1, <2>2 DEF Owed
    <2>3. CASE StartNext(s)
        <3>1. CASE CommitPixels(s)
            BY <3>1, CommitPixelsDoes DEF Owed
        <3>2. ~RestoreAfterCapture(s)
            BY <2>1 DEF RestoreAfterCapture
        <3>3. CASE FailPixels(s) \/ UndoCapture(s)
            BY <3>3, StartMoves DEF Goes, Owed
        <3> QED BY <1>1, <2>3, <3>1, <3>2, <3>3
            DEF StartNext, At, StartCapture, GiveUpStart, BeginCapture, OpenSession,
                RefuseSession,
                ChooseMonitors, PrepareOverlay, HideConsole, FailReady, EmitReady, CatchStart
    <2> QED BY <2>2, <2>3, StartStays
<1>2. ASSUME call["editor"].pc \in Leaving PROVE Owed'
    <2>1. call["editor"].shown
        BY <1>0, <1>2 DEF ShownInv
    <2>2. CASE call'["editor"] = call["editor"]
        BY <1>2, <2>2 DEF Owed
    <2>3. CASE EditorNext /\ Alone("editor")
        <3>1. CASE HideOverlay
            BY <3>1, EditorMoves DEF Goes, Owed, Leaving
        <3>2. ~TellWorkbench /\ ~FailTelling
            BY <2>1 DEF TellWorkbench, FailTelling
        <3>3. WakeOverlay \/ FailWake \/ CloseOverlay => call' = call
            BY DEF WakeOverlay, FailWake, CloseOverlay, Initialize
        <3>4. BeginScrolling => call'["editor"] = call["editor"]
            BY WindowCalls, ActorsAre DEF Calling, Alone
        <3> QED BY <1>2, <2>2, <2>3, <3>1, <3>2, <3>3, <3>4, CutPictureDoes
            DEF EditorNext, Leaving, At, Complete, Pin, Cancel, OverlayCalls, RejectEditor,
                CommitReady, PinPicture, ConfirmPin, UndoPin
    <2>4. ~CancelNext("editor")
        BY <1>2 DEF CancelNext, TakeSession, CloseWindows, TellCancelled,
            FailCancelled, At, Leaving
    <2>5. (\E b \in Actors \ {"editor"} : Alone(b)) => call'["editor"] = call["editor"]
        BY ActorsAre DEF Alone
    <2> QED BY <2>2, <2>3, <2>4, <2>5, WhoMoves, ActorsAre
<1>3. ASSUME NEW a \in {"editor", "scroller"},
             call[a].pc \in {"close", "tell-cancelled"}, call[a].shown
      PROVE  Owed'
    <2>1. CASE call'[a] = call[a]
        BY <1>3, <2>1 DEF Owed
    <2>2. CASE CancelNext(a)
        <3>1. CASE CloseWindows(a)
            BY <1>3, <3>1, CancelMoves DEF Goes, Owed
        <3>2. ~TellCancelled(a) /\ ~FailCancelled(a)
            BY <1>3 DEF TellCancelled, FailCancelled
        <3> QED BY <1>3, <2>2, <3>1, <3>2 DEF CancelNext, TakeSession, At
    <2>3. CASE a = "editor" /\ EditorNext
        <3>1. WakeOverlay \/ FailWake \/ CloseOverlay => call' = call
            BY DEF WakeOverlay, FailWake, CloseOverlay, Initialize
        <3>2. BeginScrolling => call'["editor"] = call["editor"]
            BY WindowCalls, ActorsAre DEF Calling, Alone
        <3> QED BY <1>3, <2>1, <2>3, <3>1, <3>2, CutPictureDoes
            DEF EditorNext, At, Complete, Pin, Cancel, OverlayCalls, RejectEditor, CommitReady,
                PinPicture, ConfirmPin, UndoPin, HideOverlay, TellWorkbench, FailTelling
    <2>4. CASE a = "scroller" /\ ScrollNext /\ Alone("scroller")
        <3>1. Alone("opener") => call'["scroller"] = call["scroller"]
            BY ActorsAre DEF Alone
        <3>2. \/ OpenScrolling \/ RejectOpener \/ HideForScrolling \/ BuildScroll \/ ShowScroll
              \/ FailScroll \/ ClearScrolling \/ RestoreAfterScrolling
              => Alone("opener")
            BY ScrollMoves, OpenScrollingDoes DEF Goes, Becomes
        <3> QED BY <1>3, <2>1, <2>4, <3>1, <3>2
            DEF ScrollNext, At, AppendFrame, FinishScrolling, CancelScrolling, ScrollCalls,
                StitchFrame, SkipFrame, EditStitched, RefuseFinish, ReopenOverlay, FailReopen
    <2>5. (\E b \in Actors \ {a} : Alone(b)) => call'[a] = call[a]
        BY ActorsAre DEF Alone
    <2> QED BY <1>3, <2>1, <2>2, <2>3, <2>4, <2>5, WhoMoves, ActorsAre
<1>4. ASSUME call["opener"].pc = "restore" PROVE Owed'
    <2>1. call["opener"].shown
        BY <1>0, <1>4 DEF ShownInv, Unrolling
    <2>2. CASE call'["opener"] = call["opener"]
        BY <1>4, <2>2 DEF Owed
    <2>3. ~BeginScrolling
        BY <1>4 DEF BeginScrolling, OverlayCalls, At
    <2>4. CASE ScrollNext /\ Alone("opener")
        <3>1. ~RestoreAfterScrolling
            BY <2>1 DEF RestoreAfterScrolling
        <3>2. Alone("scroller") => call'["opener"] = call["opener"]
            BY ActorsAre DEF Alone
        <3>3. \/ AppendFrame \/ FinishScrolling \/ CancelScrolling \/ StitchFrame \/ SkipFrame
              \/ EditStitched \/ RefuseFinish \/ ReopenOverlay \/ FailReopen
              => Alone("scroller")
            BY ScrollMoves, WindowCalls DEF Goes, Becomes, Calling
        <3> QED BY <1>4, <2>2, <2>4, <3>1, <3>2, <3>3
            DEF ScrollNext, At, OpenScrolling, RejectOpener, HideForScrolling, BuildScroll,
                ShowScroll, FailScroll, ClearScrolling
    <2>5. (\E b \in Actors \ {"opener"} : Alone(b)) => call'["opener"] = call["opener"]
        BY ActorsAre DEF Alone
    <2> QED BY <2>2, <2>3, <2>4, <2>5, WhoMoves, ActorsAre
<1>5. CASE console
    <2>1. \E s \in Starts : HideConsole(s)
        BY <1>5, ConsoleHidden
    <2> QED BY <2>1, StartMoves DEF Goes, Owed
<1>6. CASE ~console
    BY <1>0, <1>1, <1>2, <1>3, <1>4, <1>6, SessionOwed DEF OwnerInv, Owed
<1> QED BY <1>5, <1>6

-----------------------------------------------------------------------------
\* The inductive invariant.
IInv == TypeInv /\ FieldsInv /\ SpentInv /\ StageInv /\ ShownInv /\ OwnerInv

\* Nothing is under way at first.
LEMMA InitIInv == Init => IInv
<1> SUFFICES ASSUME Init PROVE IInv
    OBVIOUS
<1>1. \A a \in Actors : call[a] = NoCall
    BY DEF Init
<1>2. \A a \in Actors : call[a].pc = "idle" /\ call[a].id = None
    BY <1>1, NoCallTyped
<1>3. TypeInv
    <2>1. SessionTyped
        BY BoundsAssumption DEF Init, SessionTyped
    <2>2. CallsTyped
        BY NoCallTyped DEF Init, CallsTyped
    <2>3. EventsTyped
        BY DEF Init, EventsTyped
    <2>4. WindowsTyped /\ HistoryTyped
        BY DEF Init, WindowsTyped, HistoryTyped
    <2> QED BY <2>1, <2>2, <2>3, <2>4 DEF TypeInv
<1>4. FieldsInv
    BY <1>2, ActorsAre DEF FieldsInv, At
<1>5. SpentInv
    BY <1>2, ActorsAre DEF Init, SpentInv, At
<1>6. StageInv
    BY DEF Init, StageInv
<1>7. ShownInv
    BY <1>2, ActorsAre DEF Init, ShownInv, Hiding, Cutting, Leaving, Unrolling
<1>8. OwnerInv
    BY DEF Init, OwnerInv
<1> QED BY <1>3, <1>4, <1>5, <1>6, <1>7, <1>8 DEF IInv

\* Every step keeps the inductive invariant.
LEMMA IInvPreserved == IInv /\ [Next]_vars => IInv'
<1> SUFFICES ASSUME IInv, [Next]_vars PROVE IInv'
    OBVIOUS
<1>1. TypeInv /\ FieldsInv /\ SpentInv /\ StageInv /\ ShownInv /\ OwnerInv
    BY DEF IInv
<1>2. TypeInv'
    BY <1>1, CallsPreserved, SessionPreserved, EventsPreserved, WindowsPreserved,
        HistoryPreserved DEF TypeInv
<1> QED BY <1>1, <1>2, FieldsPreserved, SpentPreserved, StagePreserved, ShownPreserved,
    OwnerPreserved DEF IInv

\* The inductive invariant holds always.
THEOREM Invariance == Spec => []IInv
BY InitIInv, IInvPreserved, PTL DEF Spec

\* The variables keep their types, frames are only kept while scrolling, and a
\* session being captured has its capture under way.
THEOREM TypeCorrect == Spec => []TypeOK
<1>1. IInv => TypeOK
    <2> SUFFICES ASSUME IInv PROVE TypeOK
        OBVIOUS
    <2>1. SessionTyped /\ CallsTyped /\ WindowsTyped /\ HistoryTyped /\ StageInv
        BY DEF IInv, TypeInv
    <2>2. {overlay, scroll, console, busy, completing, misread, crossed, faulted} \subseteq BOOLEAN
        BY <2>1 DEF WindowsTyped, HistoryTyped
    <2>3. \A a \in Actors : call[a].id \in Ids \cup {None} /\ call[a].shown \in BOOLEAN
        BY <2>1 DEF CallsTyped, Calls
    <2>4. /\ session \in Sessions \cup {None}
          /\ selected \in Requests /\ target \in Requests \cup {None}
          /\ editing \in Ids \cup {None}
          /\ placed \in Requests \X Requests \cup {<<>>}
        BY <2>1 DEF SessionTyped, WindowsTyped, HistoryTyped
    <2>5. session # None /\ session.frames > 1 => session.stage = "scrolling"
        BY <2>1 DEF StageInv
    <2>6. session # None /\ session.stage = "capturing" =>
              \E s \in Starts : call[s].id = session.id
        BY <2>1 DEF StageInv
    <2> QED BY <2>2, <2>3, <2>4, <2>5, <2>6 DEF TypeOK
<1> QED BY Invariance, <1>1, PTL

\* The console the capture hid is back when the capture is over.
THEOREM ConsoleReturns == Spec => []ConsoleComesBack
<1>1. IInv => ConsoleComesBack
    <2> SUFFICES ASSUME OwnerInv, Quiet, session = None, ~misread, ~console PROVE FALSE
        BY DEF IInv, ConsoleComesBack
    <2>1. \A a \in Actors : call[a].pc = "idle"
        BY DEF Quiet, At
    <2> QED BY <2>1, ActorsAre DEF OwnerInv, Owed, Leaving
<1> QED BY Invariance, <1>1, PTL

-----------------------------------------------------------------------------
(* As long as no two starts cross and no window or event fails, a capture  *)
(* goes from phase to phase and only one window at a time can take it      *)
(* further. So nobody is stranded, and a picture reaches its request.      *)

-----------------------------------------------------------------------------
(* The phases of a capture.                                                *)

\* Where a start is that has not begun a capture.
Before == {"idle", "saving"}
NoStart == \A s \in Starts : call[s].pc \in Before
Idle(a) == At(a, "idle")

\* The call that opened a scroll window may return late, in any phase.
OpenerAside == call["opener"].pc \in {"idle", "show"}

\* There is a session at that stage, for the request the workbench aims at.
Aimed(stage) == session # None /\ session.stage = stage /\ session.aim = target
NoEvents == toOverlay = <<>> /\ toMain = <<>>

\* No capture.
Rest ==
    /\ ~busy /\ session = None /\ ~overlay /\ ~scroll /\ NoStart /\ NoEvents
    /\ OpenerAside /\ Idle("editor") /\ Idle("scroller") /\ Idle("import")

\* One start is under way, the others have not passed captureBusy.
BeginningOf(s) ==
    /\ \A t \in Starts \ {s} : call[t].pc \in Before
    /\ call[s].request = target
    /\ \/ call[s].pc \in {"begun", "rejected", "restoring"} /\ session = None
       \/ /\ call[s].pc \in {"opened", "chosen", "prepared", "shooting"}
          /\ Aimed("capturing") /\ session.id = call[s].id
       \/ At(s, "emitting") /\ Aimed("editing") /\ session.id = call[s].id
       \/ At(s, "undo") /\ IsSession(call[s].id)
Beginning ==
    /\ busy /\ ~overlay /\ ~scroll /\ NoEvents
    /\ OpenerAside /\ Idle("editor") /\ Idle("scroller") /\ Idle("import")
    /\ \E s \in Starts : BeginningOf(s)

\* The overlay is to be woken.
Waking ==
    /\ busy /\ ~overlay /\ ~scroll /\ NoStart
    /\ Aimed("editing") /\ toOverlay = <<session.id>> /\ toMain = <<>>
    /\ OpenerAside /\ Idle("editor") /\ Idle("scroller") /\ Idle("import")

\* The overlay accepts a command, or has one under way.
Editing ==
    /\ busy /\ overlay /\ ~scroll /\ NoStart /\ NoEvents
    /\ Aimed("editing") /\ editing = session.id
    /\ Idle("scroller") /\ Idle("import")
    /\ \/ ~completing /\ Idle("editor") /\ OpenerAside
       \/ completing /\ OpenerAside /\ At("editor", "cancel")
       \/ /\ completing /\ OpenerAside /\ call["editor"].id = session.id
          /\ call["editor"].pc \in {"complete", "completed", "pin", "pinning", "pinned"}
       \/ /\ completing /\ Idle("editor")
          /\ At("opener", "scroll") /\ call["opener"].id = session.id

\* The overlay's command has ended the editing, its windows are being closed.
Closing ==
    /\ busy /\ ~scroll /\ NoStart /\ NoEvents
    /\ OpenerAside /\ Idle("scroller") /\ Idle("import")
    /\ completing
    /\ \/ /\ call["editor"].pc \in {"hide-ready", "tell-ready"}
          /\ Aimed("ready") /\ session.id = call["editor"].id
       \/ /\ call["editor"].pc \in {"hide-pinned", "tell-pinned", "close", "tell-cancelled"}
          /\ session = None
    /\ call["editor"].pc \in {"tell-ready", "tell-pinned", "tell-cancelled"} => ~overlay

\* The scroll window is being opened.
Opening ==
    /\ busy /\ ~scroll /\ NoStart /\ NoEvents
    /\ Aimed("scrolling") /\ Idle("editor") /\ Idle("scroller") /\ Idle("import")
    /\ completing
    /\ At("opener", "hide") \/ (At("opener", "build") /\ ~overlay)

\* The scroll window accepts a command, or has one under way.
Scrolling ==
    /\ busy /\ ~overlay /\ NoStart /\ NoEvents
    /\ OpenerAside /\ Idle("editor") /\ Idle("import")
    /\ \/ /\ scroll /\ Aimed("scrolling")
          /\ call["scroller"].pc \in {"idle", "frame", "cancel", "finish"}
       \/ Aimed("editing") /\ At("scroller", "reopen") /\ call["scroller"].id = session.id
       \/ session = None /\ At("scroller", "close")
       \/ session = None /\ At("scroller", "tell-cancelled") /\ ~scroll

\* The workbench is to hear how the capture has ended.
Heard(e) ==
    /\ toMain = <<e>>
    /\ \/ e.kind = "finished" /\ session = None
       \/ e.kind = "ready" /\ Aimed("ready") /\ session.id = e.id
Hearing ==
    /\ busy /\ ~overlay /\ ~scroll /\ NoStart /\ toOverlay = <<>>
    /\ OpenerAside /\ Idle("editor") /\ Idle("scroller") /\ Idle("import")
    /\ \E e \in Events : Heard(e)

\* The workbench takes the picture.
Importing ==
    /\ busy /\ ~overlay /\ ~scroll /\ NoStart /\ NoEvents
    /\ OpenerAside /\ Idle("editor") /\ Idle("scroller")
    /\ \/ /\ At("import", "take") /\ Aimed("ready") /\ session.id = call["import"].id
          /\ call["import"].request = target
       \/ At("import", "add") /\ session = None /\ call["import"].request = call["import"].aim
       \/ /\ call["import"].pc \in {"end", "locked"}
          /\ session = None \/ IsSession(call["import"].id)

Phase ==
    \/ Rest \/ Beginning \/ Waking \/ Editing \/ Closing \/ Opening \/ Scrolling
    \/ Hearing \/ Importing
Reached == placed # <<>> => placed[1] = placed[2]
PhaseInv == ~crossed /\ ~faulted => Phase /\ Reached

-----------------------------------------------------------------------------
(* Which steps there are.                                                  *)

\* A step nobody waits for: a start that has not begun, or the late return of
\* the call that opened the scroll window.
Aside ==
    /\ UNCHANGED <<session, overlay, scroll, events, target, busy, editor>>
    /\ \A a \in {"editor", "scroller", "import"} : call'[a] = call[a]
    /\ \/ call'["opener"] = call["opener"]
       \/ At("opener", "show") /\ call'["opener"].pc = "idle"
    /\ \A s \in Starts :
          call'[s] = call[s] \/ (call[s].pc \in Before /\ call'[s].pc \in Before)

\* A step of one actor leaves the calls of the others.
LEMMA WindowsApart ==
    /\ Alone("editor") =>
          /\ NoStart => NoStart'
          /\ call'["opener"] = call["opener"] /\ call'["scroller"] = call["scroller"]
          /\ call'["import"] = call["import"]
    /\ Alone("opener") =>
          /\ NoStart => NoStart'
          /\ call'["editor"] = call["editor"] /\ call'["scroller"] = call["scroller"]
          /\ call'["import"] = call["import"]
    /\ Alone("scroller") =>
          /\ NoStart => NoStart'
          /\ call'["editor"] = call["editor"] /\ call'["opener"] = call["opener"]
          /\ call'["import"] = call["import"]
    /\ Alone("import") =>
          /\ NoStart => NoStart'
          /\ call'["editor"] = call["editor"] /\ call'["opener"] = call["opener"]
          /\ call'["scroller"] = call["scroller"]
BY ActorsAre DEF Alone, NoStart

\* So does a step of a start.
LEMMA StartsApart ==
    ASSUME NEW s \in Starts, Alone(s)
    PROVE  /\ \A t \in Starts \ {s} : call'[t] = call[t]
           /\ call'["editor"] = call["editor"] /\ call'["opener"] = call["opener"]
           /\ call'["scroller"] = call["scroller"] /\ call'["import"] = call["import"]
BY ActorsAre DEF Alone

\* One event.
LEMMA OneEvent ==
    ASSUME NEW x
    PROVE  Head(<<x>>) = x /\ Tail(<<x>>) = <<>> /\ <<x>> # <<>> /\ Append(<<>>, x) = <<x>>
OBVIOUS

\* A start that has not begun gives up or saves, or begins as the only one.
LEMMA BeforeSteps ==
    ASSUME TypeInv, NEW s \in Starts, call[s].pc \in Before, StartNext(s), ~crossed'
    PROVE  \/ Aside
           \/ /\ BeginCapture(s) /\ ~busy /\ session = None
              /\ \A t \in Starts \ {s} : call[t].pc \in Before
<1>1. StartCapture(s) \/ GiveUpStart(s) \/ BeginCapture(s)
    BY DEF StartNext, Before, At, OpenSession, RefuseSession, ChooseMonitors,
        PrepareOverlay, HideConsole, CommitPixels, FailPixels, FailReady, EmitReady,
        UndoCapture, RestoreAfterCapture, CatchStart
<1>2. ASSUME StartCapture(s) \/ GiveUpStart(s) PROVE Aside
    <2>1. Alone(s) /\ call'[s].pc \in Before
        BY <1>2, StartCaptureDoes, StartMoves, NoCallTyped DEF Before, Becomes
    <2>2. UNCHANGED <<session, overlay, scroll, events, target, busy, editor>>
        BY <1>2 DEF StartCapture, GiveUpStart, process, workbench
    <2> QED BY <2>1, <2>2, StartsApart DEF Aside
<1>3. ASSUME BeginCapture(s)
      PROVE  /\ ~busy /\ session = None
             /\ \A t \in Starts \ {s} : call[t].pc \in Before
    BY <1>3 DEF BeginCapture, Before
<1> QED BY <1>1, <1>2, <1>3

\* The steps of the overlay, and when it takes them.
LEMMA EditorGuards ==
    ASSUME EditorNext, ~faulted'
    PROVE  \/ WakeOverlay /\ toOverlay # <<>>
           \/ (Complete \/ Pin \/ Cancel) /\ call["editor"].pc = "idle" /\ overlay /\ ~completing
           \/ BeginScrolling /\ call["opener"].pc = "idle" /\ overlay /\ ~completing
           \/ CutPicture /\ call["editor"].pc \in {"complete", "pin"}
           \/ RejectEditor /\ call["editor"].pc \in {"complete", "completed", "pin", "pinning"}
           \/ CommitReady /\ call["editor"].pc = "completed"
           \/ PinPicture /\ call["editor"].pc = "pinning"
           \/ ConfirmPin /\ call["editor"].pc = "pinned"
           \/ UndoPin /\ call["editor"].pc = "pinned" /\ ~IsSession(call["editor"].id)
           \/ HideOverlay /\ call["editor"].pc \in {"hide-ready", "hide-pinned"}
           \/ TellWorkbench /\ call["editor"].pc \in {"tell-ready", "tell-pinned"}
<1>1. ~FailTelling /\ ~FailWake /\ ~CloseOverlay
    BY DEF FailTelling, FailWake, CloseOverlay
<1>2. WakeOverlay => toOverlay # <<>>
    BY DEF WakeOverlay, Initialize
<1>3. /\ Complete \/ Pin \/ Cancel => call["editor"].pc = "idle" /\ overlay /\ ~completing
      /\ BeginScrolling => call["opener"].pc = "idle" /\ overlay /\ ~completing
    BY DEF Complete, Pin, Cancel, BeginScrolling, OverlayCalls, At
<1>4. /\ CutPicture => call["editor"].pc \in {"complete", "pin"}
      /\ RejectEditor => call["editor"].pc \in {"complete", "completed", "pin", "pinning"}
    BY DEF CutPicture, RejectEditor, At
<1>5. /\ CommitReady => call["editor"].pc = "completed"
      /\ PinPicture => call["editor"].pc = "pinning"
      /\ ConfirmPin => call["editor"].pc = "pinned"
      /\ UndoPin => call["editor"].pc = "pinned" /\ ~IsSession(call["editor"].id)
    BY DEF CommitReady, PinPicture, ConfirmPin, UndoPin, At
<1>6. /\ HideOverlay => call["editor"].pc \in {"hide-ready", "hide-pinned"}
      /\ TellWorkbench => call["editor"].pc \in {"tell-ready", "tell-pinned"}
    BY DEF HideOverlay, TellWorkbench, At
<1> QED BY <1>1, <1>2, <1>3, <1>4, <1>5, <1>6 DEF EditorNext

\* The steps of scrolling, and when they are taken.
LEMMA ScrollGuards ==
    ASSUME ScrollNext, ~faulted'
    PROVE  \/ OpenScrolling /\ call["opener"].pc = "scroll"
           \/ RejectOpener /\ call["opener"].pc = "scroll"
           \/ HideForScrolling /\ call["opener"].pc = "hide"
           \/ BuildScroll /\ call["opener"].pc = "build"
           \/ ShowScroll /\ call["opener"].pc = "show"
           \/ ClearScrolling /\ call["opener"].pc = "clear"
           \/ RestoreAfterScrolling /\ call["opener"].pc = "restore"
           \/ (AppendFrame \/ FinishScrolling) /\ call["scroller"].pc = "idle" /\ scroll
           \/ CancelScrolling /\ call["scroller"].pc = "idle" /\ scroll
           \/ StitchFrame /\ call["scroller"].pc = "frame"
           \/ SkipFrame /\ call["scroller"].pc = "frame"
           \/ EditStitched /\ call["scroller"].pc = "finish"
           \/ RefuseFinish /\ call["scroller"].pc = "finish"
           \/ ReopenOverlay /\ call["scroller"].pc = "reopen"
<1>1. ~FailScroll /\ ~FailReopen
    BY DEF FailScroll, FailReopen
<1>2. /\ OpenScrolling \/ RejectOpener => call["opener"].pc = "scroll"
      /\ HideForScrolling => call["opener"].pc = "hide"
      /\ BuildScroll => call["opener"].pc = "build"
      /\ ShowScroll => call["opener"].pc = "show"
      /\ ClearScrolling => call["opener"].pc = "clear"
      /\ RestoreAfterScrolling => call["opener"].pc = "restore"
    BY DEF OpenScrolling, RejectOpener, HideForScrolling, BuildScroll, ShowScroll,
        ClearScrolling, RestoreAfterScrolling, At
<1>3. AppendFrame \/ FinishScrolling \/ CancelScrolling =>
          call["scroller"].pc = "idle" /\ scroll
    BY DEF AppendFrame, FinishScrolling, CancelScrolling, ScrollCalls, At
<1>4. /\ StitchFrame \/ SkipFrame => call["scroller"].pc = "frame"
      /\ EditStitched \/ RefuseFinish => call["scroller"].pc = "finish"
      /\ ReopenOverlay => call["scroller"].pc = "reopen"
    BY DEF StitchFrame, SkipFrame, EditStitched, RefuseFinish, ReopenOverlay, At
<1> QED BY <1>1, <1>2, <1>3, <1>4 DEF ScrollNext

\* The steps of a cancel, and when they are taken.
LEMMA CancelGuards ==
    ASSUME NEW a \in {"editor", "scroller"}, CancelNext(a), ~faulted'
    PROVE  \/ TakeSession(a) /\ call[a].pc = "cancel"
           \/ CloseWindows(a) /\ call[a].pc = "close"
           \/ TellCancelled(a) /\ call[a].pc = "tell-cancelled"
BY DEF CancelNext, At, TakeSession, CloseWindows, TellCancelled, FailCancelled

\* The steps of the workbench, and when it takes them.
LEMMA ImportGuards ==
    ASSUME ImportNext
    PROVE  \/ HearFinished /\ toMain # <<>>
           \/ HearReady /\ toMain # <<>>
           \/ TakePicture /\ call["import"].pc = "take"
           \/ AddPicture /\ call["import"].pc = "add"
           \/ FailImport /\ call["import"].pc \in {"take", "add"}
           \/ EndImport /\ call["import"].pc = "end"
           \/ Discard /\ call["import"].pc = "locked"
BY DEF ImportNext, At, HearFinished, HearReady, TakePicture, AddPicture, FailImport,
    EndImport, Discard

\* A step is aside, begins a capture where there is none, or is that of a
\* start that has begun or of a window.
LEMMA StepKinds ==
    ASSUME TypeInv, [Next]_vars, ~crossed', ~faulted'
    PROVE  \/ Aside
           \/ \E s \in Starts :
                 /\ BeginCapture(s) /\ ~busy /\ session = None
                 /\ \A t \in Starts \ {s} : call[t].pc \in Before
           \/ \E s \in Starts : call[s].pc \notin Before /\ StartNext(s)
           \/ EditorNext
           \/ ScrollNext /\ ~ShowScroll
           \/ ImportNext
           \/ \E a \in {"editor", "scroller"} : CancelNext(a)
<1>1. ASSUME ShowScroll PROVE Aside
    <2>1. At("opener", "show") /\ Alone("opener") /\ call'["opener"].pc = "idle"
        BY <1>1, ScrollMoves, NoCallTyped DEF ShowScroll, Becomes
    <2>2. \A s \in Starts : call'[s] = call[s]
        BY <2>1, ActorsAre DEF Alone
    <2>3. UNCHANGED <<session, overlay, scroll, events, target, busy, editor>>
        BY <1>1 DEF ShowScroll, process, workbench
    <2> QED BY <2>1, <2>2, <2>3, WindowsApart DEF Aside
<1>2. ASSUME UNCHANGED vars \/ \E r \in Requests : Select(r) PROVE Aside
    BY <1>2 DEF Aside, Select, vars, process, events, workbench, editor
<1> QED BY <1>1, <1>2, BeforeSteps DEF Next

\* A step aside leaves the phase as it is.
LEMMA AsideKeeps ==
    ASSUME Aside, Phase
    PROVE  Phase'
<1>1. NoStart => NoStart'
    BY DEF Aside, NoStart, Before
<1>2. OpenerAside => OpenerAside'
    BY DEF Aside, OpenerAside, At
<1>3. \A stage : Aimed(stage) => Aimed(stage)'
    BY DEF Aside, Aimed
<1> USE <1>1, <1>2, <1>3
<1>4. CASE Rest
    BY <1>4 DEF Aside, Phase, Rest, Idle, At, NoEvents, events, editor
<1>5. CASE Beginning
    <2>1. PICK s \in Starts : BeginningOf(s)
        BY <1>5 DEF Beginning
    <2>2. call'[s] = call[s] /\ \A t \in Starts \ {s} : call'[t].pc \in Before
        BY <2>1 DEF BeginningOf, Aside, Before, At
    <2>3. BeginningOf(s)'
        BY <2>1, <2>2 DEF BeginningOf, Aside, At, IsSession
    <2> QED BY <1>5, <2>3 DEF Aside, Phase, Beginning, Idle, At, NoEvents, events, editor
<1>6. CASE Waking
    BY <1>6 DEF Aside, Phase, Waking, Idle, At, events, editor
<1>7. CASE Editing
    <2>1. call["opener"].pc = "scroll" => call'["opener"] = call["opener"]
        BY DEF Aside, At
    <2> QED BY <1>7, <2>1 DEF Aside, Phase, Editing, Idle, At, NoEvents, events, editor
<1>8. CASE Closing
    BY <1>8 DEF Aside, Phase, Closing, Idle, At, NoEvents, events, editor
<1>9. CASE Opening
    BY <1>9 DEF Aside, Phase, Opening, Idle, At, NoEvents, events, editor
<1>10. CASE Scrolling
    BY <1>10 DEF Aside, Phase, Scrolling, Idle, At, NoEvents, events, editor
<1>11. CASE Hearing
    BY <1>11 DEF Aside, Phase, Hearing, Heard, Idle, At, events, editor
<1>12. CASE Importing
    BY <1>12 DEF Aside, Phase, Importing, Idle, At, IsSession, NoEvents, events, editor
<1> QED BY <1>4, <1>5, <1>6, <1>7, <1>8, <1>9, <1>10, <1>11, <1>12 DEF Phase

-----------------------------------------------------------------------------
(* From phase to phase.                                                    *)

\* With no capture, only one can begin.
LEMMA FromRest ==
    ASSUME TypeInv, FieldsInv, Rest, [Next]_vars, ~crossed', ~faulted'
    PROVE  Phase'
<1>1. \/ Aside
      \/ \E s \in Starts :
            BeginCapture(s) /\ \A t \in Starts \ {s} : call[t].pc \in Before
    BY StepKinds, EditorGuards, ScrollGuards, CancelGuards, ImportGuards DEF Rest, NoStart,
        OpenerAside, NoEvents, Idle, Aimed, IsSession, At, Before
<1>2. CASE \E s \in Starts :
            BeginCapture(s) /\ \A t \in Starts \ {s} : call[t].pc \in Before
    <2>1. PICK s \in Starts :
             BeginCapture(s) /\ \A t \in Starts \ {s} : call[t].pc \in Before
        BY <1>2
    <2>2. BeginningOf(s)'
        BY <2>1, BeginCaptureDoes, StartsApart DEF BeginningOf, Rest, process
    <2>3. Beginning'
        BY <2>1, <2>2, BeginCaptureDoes, StartsApart
        DEF Beginning, Rest, OpenerAside, NoEvents, Idle, At, process, events
    <2> QED BY <2>3 DEF Phase
<1> QED BY <1>1, <1>2, AsideKeeps DEF Phase

\* The start that is under way takes the capture further, or gives it up.
LEMMA FromBeginning ==
    ASSUME TypeInv, FieldsInv, Beginning, [Next]_vars, ~crossed', ~faulted'
    PROVE  Phase'
<1>1. PICK s \in Starts : BeginningOf(s)
    BY DEF Beginning
<1>2. call[s].pc \notin Before /\ \A t \in Starts \ {s} : call[t].pc \in Before
    BY <1>1 DEF BeginningOf, Before, At
<1>3. Aside \/ StartNext(s)
    BY <1>2, StepKinds, EditorGuards, ScrollGuards, CancelGuards, ImportGuards
    DEF Beginning, OpenerAside, NoEvents, Idle, At
<1>4. ASSUME OpenSession(s) PROVE Beginning'
    <2>1. BeginningOf(s)'
        BY <1>1, <1>2, <1>4, OpenSessionDoes, StartsApart, ZenonT(60) DEF Beginning,
            BeginningOf, Goes,
            Aimed, IsSession, At, FieldsInv, OpenSession, process, events, workbench
    <2> QED BY <1>4, <2>1, OpenSessionDoes, StartsApart, ZenonT(60) DEF Beginning, Goes, OpenerAside,
        NoEvents, Idle, At, FieldsInv, OpenSession, process, events, workbench
<1>5. ASSUME RefuseSession(s) PROVE Beginning'
    <2>1. BeginningOf(s)'
        BY <1>1, <1>2, <1>5, StartMoves, StartsApart DEF Beginning, BeginningOf, Goes,
            Aimed, IsSession, At, RefuseSession, process, events, workbench
    <2> QED BY <1>5, <2>1, StartMoves, StartsApart DEF Beginning, Goes, OpenerAside,
        NoEvents, Idle, At, RefuseSession, process, events, workbench
<1>6. ASSUME ChooseMonitors(s) PROVE Beginning'
    <2>1. BeginningOf(s)'
        BY <1>1, <1>2, <1>6, StartMoves, StartsApart DEF Beginning, BeginningOf, Goes,
            Aimed, IsSession, At, ChooseMonitors, process, events, workbench
    <2> QED BY <1>6, <2>1, StartMoves, StartsApart DEF Beginning, Goes, OpenerAside,
        NoEvents, Idle, At, ChooseMonitors, process, events, workbench
<1>7. ASSUME PrepareOverlay(s) PROVE Beginning'
    <2>1. BeginningOf(s)'
        BY <1>1, <1>2, <1>7, StartMoves, StartsApart
        DEF Beginning, BeginningOf, Goes, Aimed, IsSession, At, PrepareOverlay, workbench
    <2>2. /\ UNCHANGED <<scroll, toOverlay, toMain, busy>>
          /\ overlay' = FALSE
        <3>1. overlay = FALSE
            BY DEF Beginning, TypeInv, WindowsTyped
        <3> QED BY <1>7, <3>1 DEF PrepareOverlay, events, workbench
    <2>3. Alone(s)
        BY <1>7, StartMoves DEF Goes
    <2> QED BY <2>1, <2>2, <2>3, StartsApart DEF Beginning, OpenerAside, NoEvents, Idle, At
<1>8. ASSUME HideConsole(s) PROVE Beginning'
    <2>1. BeginningOf(s)'
        BY <1>1, <1>2, <1>8, StartMoves, StartsApart DEF Beginning, BeginningOf, Goes,
            Aimed, IsSession, At, HideConsole, process, events, workbench
    <2> QED BY <1>8, <2>1, StartMoves, StartsApart DEF Beginning, Goes, OpenerAside,
        NoEvents, Idle, At, HideConsole, process, events, workbench
<1>9. ASSUME CommitPixels(s) PROVE Beginning'
    <2>1. BeginningOf(s)'
        BY <1>1, <1>2, <1>9, CommitPixelsDoes, StartsApart DEF Beginning, BeginningOf, Goes,
            Aimed, IsSession, At, process, events, workbench
    <2> QED BY <1>9, <2>1, CommitPixelsDoes, StartsApart DEF Beginning, Goes, OpenerAside,
        NoEvents, Idle, At, process, events, workbench
<1>10. ASSUME FailPixels(s) PROVE Beginning'
    <2>1. BeginningOf(s)'
        BY <1>1, <1>2, <1>10, StartMoves, StartsApart DEF Beginning, BeginningOf, Goes,
            Aimed, IsSession, At, FailPixels, process, events, workbench
    <2> QED BY <1>10, <2>1, StartMoves, StartsApart DEF Beginning, Goes, OpenerAside,
        NoEvents, Idle, At, FailPixels, process, events, workbench
<1>11. ASSUME FailReady(s) PROVE Beginning'
    <2>1. BeginningOf(s)'
        BY <1>1, <1>2, <1>11, StartMoves, StartsApart DEF Beginning, BeginningOf, Goes,
            Aimed, IsSession, At, FailReady, process, events, workbench
    <2> QED BY <1>11, <2>1, StartMoves, StartsApart DEF Beginning, Goes, OpenerAside,
        NoEvents, Idle, At, FailReady, process, events, workbench
<1>12. ASSUME UndoCapture(s) PROVE Beginning'
    <2>1. BeginningOf(s)'
        BY <1>1, <1>2, <1>12, StartMoves, StartsApart DEF Beginning, BeginningOf, Goes,
            Aimed, IsSession, At, UndoCapture, process, events, workbench
    <2> QED BY <1>12, <2>1, StartMoves, StartsApart DEF Beginning, Goes, OpenerAside,
        NoEvents, Idle, At, UndoCapture, process, events, workbench
<1>13. ASSUME RestoreAfterCapture(s) PROVE Beginning'
    <2>1. BeginningOf(s)'
        BY <1>1, <1>2, <1>13, StartMoves, StartsApart DEF Beginning, BeginningOf, Goes,
            Aimed, IsSession, At, RestoreAfterCapture, process, events, workbench
    <2> QED BY <1>13, <2>1, StartMoves, StartsApart DEF Beginning, Goes, OpenerAside,
        NoEvents, Idle, At, RestoreAfterCapture, process, events, workbench
<1>14. ASSUME EmitReady(s) PROVE Waking'
    BY <1>1, <1>2, <1>14, StartMoves, StartsApart, NoCallTyped, OneEvent DEF Beginning,
        BeginningOf, Waking, NoStart, Before, EmitReady, Becomes, OpenerAside, NoEvents,
        Idle, Aimed, At, process, workbench
<1>15. ASSUME CatchStart(s) PROVE Rest'
    BY <1>1, <1>2, <1>15, StartMoves, StartsApart, NoCallTyped, ZenonT(60) DEF Beginning,
        BeginningOf,
        Rest, NoStart, Before, CatchStart, Becomes, OpenerAside, NoEvents, Idle, Aimed, At,
        process, events, editor
<1> QED BY <1>3, <1>4, <1>5, <1>6, <1>7, <1>8, <1>9, <1>10, <1>11, <1>12, <1>13, <1>14,
    <1>15, AsideKeeps, <1>2 DEF Phase, StartNext, Before, At, StartCapture,
    GiveUpStart, BeginCapture

\* The overlay is woken.
LEMMA FromWaking ==
    ASSUME TypeInv, FieldsInv, Waking, [Next]_vars, ~crossed', ~faulted'
    PROVE  Phase'
<1>1. Aside \/ WakeOverlay
    BY StepKinds, EditorGuards, ScrollGuards, CancelGuards, ImportGuards DEF Waking,
        NoStart, OpenerAside, NoEvents, Idle, Aimed, IsSession, At
<1>2. ASSUME WakeOverlay PROVE Editing'
    BY <1>2, OneEvent, NoCallTyped, WindowsApart DEF Waking, Editing, InStage, IsSession,
        WakeOverlay, Initialize, NoStart, Goes, Becomes, Calling, OpenerAside, NoEvents, Idle,
        Aimed,
        At, process, events, workbench, editor
<1> QED BY <1>1, <1>2, AsideKeeps DEF Phase

\* The overlay takes a command further.
LEMMA FromEditing ==
    ASSUME TypeInv, FieldsInv, Editing, [Next]_vars, ~crossed', ~faulted'
    PROVE  Phase'
<1>1. \/ Aside \/ Complete \/ Pin \/ Cancel \/ BeginScrolling \/ CutPicture \/ RejectEditor
      \/ CommitReady \/ PinPicture \/ ConfirmPin \/ TakeSession("editor")
      \/ OpenScrolling \/ RejectOpener
    BY StepKinds, EditorGuards, ScrollGuards, CancelGuards, ImportGuards DEF Editing,
        NoStart, OpenerAside, NoEvents, Idle, Aimed, IsSession, At
<1>2. ASSUME Complete PROVE Editing'
    BY <1>2, WindowCalls, NoCallTyped, WindowsApart DEF Editing, Complete, OverlayCalls,
        Goes, Becomes, Calling, OpenerAside, NoEvents, Idle, Aimed, At, process, events,
        workbench, editor
<1>3. ASSUME Pin PROVE Editing'
    BY <1>3, WindowCalls, NoCallTyped, WindowsApart DEF Editing, Pin, OverlayCalls, Goes,
        Becomes, Calling, OpenerAside, NoEvents, Idle, Aimed, At, process, events,
        workbench, editor
<1>4. ASSUME Cancel PROVE Editing'
    BY <1>4, WindowCalls, NoCallTyped, WindowsApart DEF Editing, Cancel, OverlayCalls, Goes,
        Becomes, Calling, OpenerAside, NoEvents, Idle, Aimed, At, process, events,
        workbench, editor
<1>5. ASSUME BeginScrolling PROVE Editing'
    BY <1>5, WindowCalls, NoCallTyped, WindowsApart DEF Editing, BeginScrolling,
        OverlayCalls, Goes, Becomes, Calling, OpenerAside, NoEvents, Idle, Aimed, At,
        process, events, workbench, editor
<1>6. ASSUME CutPicture PROVE Editing'
    BY <1>6, CutPictureDoes, NoCallTyped, WindowsApart DEF Editing, Goes, Becomes, Calling,
        OpenerAside, NoEvents, Idle, Aimed, At, process, events, workbench, editor
<1>7. ASSUME RejectEditor PROVE Editing'
    BY <1>7, EditorMoves, NoCallTyped, WindowsApart DEF Editing, RejectEditor, Reject, Goes,
        Becomes, Calling, OpenerAside, NoEvents, Idle, Aimed, At, process, events,
        workbench, editor
<1>8. ASSUME CommitReady PROVE Closing'
    BY <1>8, CommitReadyDoes, NoCallTyped, WindowsApart DEF Editing, Closing, Goes, Becomes,
        Calling, OpenerAside, NoEvents, Idle, Aimed, At, process, events, workbench, editor
<1>9. ASSUME PinPicture PROVE Editing'
    BY <1>9, EditorMoves, NoCallTyped, WindowsApart DEF Editing, PinPicture, Goes, Becomes,
        Calling, OpenerAside, NoEvents, Idle, Aimed, At, process, events, workbench, editor
<1>10. ASSUME ConfirmPin PROVE Closing'
    BY <1>10, EditorMoves, NoCallTyped, WindowsApart DEF Editing, Closing, ConfirmPin, Goes,
        Becomes, Calling, OpenerAside, NoEvents, Idle, Aimed, At, process, events,
        workbench, editor
<1>11. ASSUME TakeSession("editor") PROVE Closing'
    BY <1>11, TakeSessionDoes, NoCallTyped, WindowsApart DEF Editing, Closing, Goes,
        Becomes, Calling, OpenerAside, NoEvents, Idle, Aimed, At, process, events,
        workbench, editor
<1>12. ASSUME OpenScrolling PROVE Opening'
    BY <1>12, OpenScrollingDoes, NoCallTyped, WindowsApart DEF Editing, Opening, Goes,
        Becomes, Calling, OpenerAside, NoEvents, Idle, Aimed, At, process, events,
        workbench, editor
<1>13. ASSUME RejectOpener PROVE Editing'
    BY <1>13, ScrollMoves, NoCallTyped, WindowsApart DEF Editing, RejectOpener, Reject,
        Goes, Becomes, Calling, OpenerAside, NoEvents, Idle, Aimed, At, process, events,
        workbench, editor
<1> QED BY <1>1, <1>2, <1>3, <1>4, <1>5, <1>6, <1>7, <1>8, <1>9, <1>10, <1>11, <1>12, <1>13,
    AsideKeeps DEF Phase

\* The overlay is closed and the workbench told.
LEMMA FromClosing ==
    ASSUME TypeInv, FieldsInv, Closing, [Next]_vars, ~crossed', ~faulted'
    PROVE  Phase'
<1>1. Aside \/ HideOverlay \/ TellWorkbench \/ CloseWindows("editor") \/ TellCancelled("editor")
    BY StepKinds, EditorGuards, ScrollGuards, CancelGuards, ImportGuards DEF Closing,
        NoStart, OpenerAside, NoEvents, Idle, Aimed, IsSession, At
<1>2. ASSUME HideOverlay PROVE Closing'
    BY <1>2, EditorMoves, NoCallTyped, WindowsApart DEF Closing, HideOverlay, Goes, Becomes,
        Calling, OpenerAside, NoEvents, Idle, Aimed, At, process, events, workbench, editor
<1>3. CASE TellWorkbench
    <2>1. PICK e \in Events : toMain' = Append(toMain, e) /\ e.id = call["editor"].id
             /\ \/ At("editor", "tell-ready") /\ e.kind = "ready"
                \/ At("editor", "tell-pinned") /\ e.kind = "finished"
        BY <1>3, ActorsAre DEF TellWorkbench, Notify, Events, TypeInv, CallsTyped, Calls
    <2>2. toMain' = <<e>>
        BY <2>1, OneEvent DEF Closing, NoEvents
    <2>3. Heard(e)'
        BY <1>3, <2>1, <2>2 DEF Heard, Closing, TellWorkbench, Aimed, At, workbench
    <2>4. Hearing'
        BY <1>3, <2>1, <2>3, EditorMoves, NoCallTyped, WindowsApart
        DEF Hearing, Closing, TellWorkbench, Becomes, OpenerAside, NoEvents, Idle, At, workbench
    <2> QED BY <2>4 DEF Phase
<1>4. ASSUME CloseWindows("editor") PROVE Closing'
    BY <1>4, CancelMoves, NoCallTyped, WindowsApart DEF Closing, CloseWindows, Goes,
        Becomes, Calling, OpenerAside, NoEvents, Idle, Aimed, At, process, events,
        workbench, editor
<1>5. CASE TellCancelled("editor")
    <2>1. PICK e \in Events : toMain' = Append(toMain, e) /\ e.kind = "finished"
        BY <1>5, ActorsAre DEF TellCancelled, Notify, Events, TypeInv, CallsTyped, Calls
    <2>2. toMain' = <<e>>
        BY <2>1, OneEvent DEF Closing, NoEvents
    <2>3. Heard(e)'
        BY <1>5, <2>1, <2>2 DEF Heard, Closing, TellCancelled, At
    <2>4. Hearing'
        BY <1>5, <2>1, <2>3, CancelMoves, NoCallTyped, WindowsApart
        DEF Hearing, Closing, TellCancelled, Becomes, OpenerAside, NoEvents, Idle, At, workbench
    <2> QED BY <2>4 DEF Phase
<1> QED BY <1>1, <1>2, <1>3, <1>4, <1>5, AsideKeeps DEF Phase

\* The scroll window is opened.
LEMMA FromOpening ==
    ASSUME TypeInv, FieldsInv, Opening, [Next]_vars, ~crossed', ~faulted'
    PROVE  Phase'
<1>1. Aside \/ HideForScrolling \/ BuildScroll
    BY StepKinds, EditorGuards, ScrollGuards, CancelGuards, ImportGuards DEF Opening,
        NoStart, OpenerAside, NoEvents, Idle, Aimed, IsSession, At
<1>2. ASSUME HideForScrolling PROVE Opening'
    BY <1>2, ScrollMoves, NoCallTyped, WindowsApart DEF Opening, HideForScrolling, Goes,
        Becomes, Calling, OpenerAside, NoEvents, Idle, Aimed, At, process, events,
        workbench, editor
<1>3. ASSUME BuildScroll PROVE Scrolling'
    BY <1>3, ScrollMoves, NoCallTyped, WindowsApart DEF Opening, Scrolling, BuildScroll,
        Goes, Becomes, Calling, OpenerAside, NoEvents, Idle, Aimed, At, process, events,
        workbench, editor
<1> QED BY <1>1, <1>2, <1>3, AsideKeeps DEF Phase

\* The scroll window takes a command further.
LEMMA FromScrolling ==
    ASSUME TypeInv, FieldsInv, Scrolling, [Next]_vars, ~crossed', ~faulted'
    PROVE  Phase'
<1>1. \/ Aside \/ AppendFrame \/ FinishScrolling \/ CancelScrolling \/ StitchFrame
      \/ SkipFrame \/ EditStitched \/ RefuseFinish \/ ReopenOverlay
      \/ TakeSession("scroller") \/ CloseWindows("scroller") \/ TellCancelled("scroller")
    BY StepKinds, EditorGuards, ScrollGuards, CancelGuards, ImportGuards DEF Scrolling,
        NoStart, OpenerAside, NoEvents, Idle, Aimed, IsSession, At
<1>2. ASSUME AppendFrame PROVE Scrolling'
    BY <1>2, WindowCalls, NoCallTyped, WindowsApart DEF Scrolling, AppendFrame, ScrollCalls,
        Goes, Becomes, Calling, OpenerAside, NoEvents, Idle, Aimed, At, process, events,
        workbench, editor
<1>3. ASSUME FinishScrolling PROVE Scrolling'
    BY <1>3, WindowCalls, NoCallTyped, WindowsApart DEF Scrolling, FinishScrolling,
        ScrollCalls, Goes, Becomes, Calling, OpenerAside, NoEvents, Idle, Aimed, At,
        process, events, workbench, editor
<1>4. ASSUME CancelScrolling PROVE Scrolling'
    BY <1>4, WindowCalls, NoCallTyped, WindowsApart DEF Scrolling, CancelScrolling,
        ScrollCalls, Goes, Becomes, Calling, OpenerAside, NoEvents, Idle, Aimed, At,
        process, events, workbench, editor
<1>5. ASSUME StitchFrame PROVE Scrolling'
    BY <1>5, StitchFrameDoes, NoCallTyped, WindowsApart DEF Scrolling, Goes, Becomes,
        Calling, OpenerAside, NoEvents, Idle, Aimed, At, process, events, workbench, editor
<1>6. ASSUME SkipFrame PROVE Scrolling'
    BY <1>6, ScrollMoves, NoCallTyped, WindowsApart DEF Scrolling, SkipFrame, Goes, Becomes,
        Calling, OpenerAside, NoEvents, Idle, Aimed, At, process, events, workbench, editor
<1>7. ASSUME RefuseFinish PROVE Scrolling'
    BY <1>7, ScrollMoves, NoCallTyped, WindowsApart DEF Scrolling, RefuseFinish, Goes,
        Becomes, Calling, OpenerAside, NoEvents, Idle, Aimed, At, process, events,
        workbench, editor
<1>8. ASSUME EditStitched PROVE Scrolling'
    BY <1>8, EditStitchedDoes, NoCallTyped, WindowsApart DEF Scrolling, Goes, Becomes,
        Calling, OpenerAside, NoEvents, Idle, Aimed, At, process, events, workbench, editor
<1>9. ASSUME ReopenOverlay PROVE Waking'
    BY <1>9, ScrollMoves, OneEvent, NoCallTyped, WindowsApart DEF Scrolling, Waking,
        ReopenOverlay, Goes, Becomes, Calling, OpenerAside, NoEvents, Idle, Aimed, At,
        process, events, workbench, editor
<1>10. ASSUME TakeSession("scroller") PROVE Scrolling'
    BY <1>10, TakeSessionDoes, NoCallTyped, WindowsApart DEF Scrolling, Goes, Becomes,
        Calling, OpenerAside, NoEvents, Idle, Aimed, At, process, events, workbench, editor
<1>11. ASSUME CloseWindows("scroller") PROVE Scrolling'
    BY <1>11, CancelMoves, NoCallTyped, WindowsApart DEF Scrolling, CloseWindows, Goes,
        Becomes, Calling, OpenerAside, NoEvents, Idle, Aimed, At, process, events,
        workbench, editor
<1>12. CASE TellCancelled("scroller")
    <2>1. PICK e \in Events : toMain' = Append(toMain, e) /\ e.kind = "finished"
        BY <1>12, ActorsAre DEF TellCancelled, Notify, Events, TypeInv, CallsTyped, Calls
    <2>2. toMain' = <<e>>
        BY <2>1, OneEvent DEF Scrolling, NoEvents
    <2>3. Heard(e)'
        BY <1>12, <2>1, <2>2 DEF Heard, Scrolling, TellCancelled, At
    <2>4. Hearing'
        BY <1>12, <2>1, <2>3, CancelMoves, NoCallTyped, WindowsApart
        DEF Hearing, Scrolling, TellCancelled, Becomes, OpenerAside, NoEvents, Idle, At, workbench
    <2> QED BY <2>4 DEF Phase
<1> QED BY <1>1, <1>2, <1>3, <1>4, <1>5, <1>6, <1>7, <1>8, <1>9, <1>10, <1>11, <1>12,
    AsideKeeps DEF Phase

\* The workbench hears how the capture has ended.
LEMMA FromHearing ==
    ASSUME TypeInv, FieldsInv, Hearing, [Next]_vars, ~crossed', ~faulted'
    PROVE  Phase'
<1>1. Aside \/ HearFinished \/ HearReady
    BY StepKinds, EditorGuards, ScrollGuards, CancelGuards, ImportGuards DEF Hearing,
        NoStart, OpenerAside, NoEvents, Idle, Aimed, IsSession, At
<1>2. CASE HearFinished
    <2>1. PICK e \in Events : Heard(e)
        BY DEF Hearing
    <2>2. e.kind = "finished" /\ toMain' = <<>>
        BY <1>2, <2>1, OneEvent DEF Heard, HearFinished
    <2>3. session = None
        BY <2>1, <2>2 DEF Heard
    <2>4. Rest'
        BY <1>2, <2>2, <2>3
        DEF Rest, Hearing, HearFinished, NoStart, OpenerAside, NoEvents, Idle, At, process
    <2> QED BY <2>4 DEF Phase
<1>3. CASE HearReady
    <2>1. PICK e \in Events : Heard(e)
        BY DEF Hearing
    <2>2. e.kind = "ready" /\ toMain' = <<>> /\ call'["import"].id = e.id
        BY <1>3, <2>1, OneEvent, HearReadyDoes DEF Heard
    <2>3. Aimed("ready") /\ session.id = e.id
        BY <2>1, <2>2 DEF Heard
    <2>4. call'["import"].request = target
        BY <1>3, <2>3, HearReadyDoes, NoneAssumption
        DEF Aimed, RequestAimedAt, TypeInv, SessionTyped, Sessions
    <2>5. Importing'
        BY <1>3, <2>2, <2>3, <2>4, HearReadyDoes, WindowsApart
        DEF Importing, Hearing, OpenerAside, NoEvents, Idle, Aimed, IsSession, At, process
    <2> QED BY <2>5 DEF Phase
<1> QED BY <1>1, <1>2, <1>3, AsideKeeps DEF Phase

\* The workbench takes the picture, or loses it.
LEMMA FromImporting ==
    ASSUME TypeInv, FieldsInv, Importing, [Next]_vars, ~crossed', ~faulted'
    PROVE  Phase'
<1>1. Aside \/ TakePicture \/ AddPicture \/ FailImport \/ EndImport \/ Discard
    BY StepKinds, EditorGuards, ScrollGuards, CancelGuards, ImportGuards DEF Importing,
        NoStart, OpenerAside, NoEvents, Idle, Aimed, IsSession, At
<1>2. ASSUME TakePicture PROVE Importing'
    BY <1>2, TakePictureDoes, NoCallTyped, WindowsApart DEF Importing, Goes, Becomes,
        Calling, OpenerAside, NoEvents, Idle, Aimed, At, process, events, workbench, editor
<1>3. ASSUME AddPicture PROVE Importing'
    BY <1>3, ImportMoves, NoCallTyped, WindowsApart DEF Importing, AddPicture, IsSession,
        Goes, Becomes, Calling, OpenerAside, NoEvents, Idle, Aimed, At, process, events,
        workbench, editor
<1>4. ASSUME FailImport PROVE Importing'
    BY <1>4, ImportMoves, NoCallTyped, WindowsApart DEF Importing, FailImport, IsSession,
        Goes, Becomes, Calling, OpenerAside, NoEvents, Idle, Aimed, At, process, events,
        workbench, editor
<1>5. ASSUME EndImport PROVE Importing'
    BY <1>5, ImportMoves, NoCallTyped, WindowsApart DEF Importing, EndImport, IsSession,
        Goes, Becomes, Calling, OpenerAside, NoEvents, Idle, Aimed, At, process, events,
        workbench, editor
<1>6. ASSUME Discard PROVE Rest'
    BY <1>6, ImportMoves, NoCallTyped, WindowsApart DEF Importing, Rest, Discard, IsSession,
        Goes, Becomes, Calling, OpenerAside, NoEvents, Idle, Aimed, At, process, events,
        workbench, editor
<1> QED BY <1>1, <1>2, <1>3, <1>4, <1>5, <1>6, AsideKeeps DEF Phase


-----------------------------------------------------------------------------
\* A crossing and a failure are remembered.
LEMMA MishapsStay ==
    ASSUME [Next]_vars, ~crossed', ~faulted'
    PROVE  ~crossed /\ ~faulted
<1>1. ASSUME NEW s \in Starts, StartNext(s) PROVE ~crossed /\ ~faulted
    <2>1. CASE BeginCapture(s)
        BY <2>1 DEF BeginCapture
    <2>2. CASE ~BeginCapture(s)
        <3>1. crossed' = crossed /\ faulted' = faulted
            BY <1>1, <2>2 DEF StartNext, history, StartCapture, GiveUpStart, OpenSession,
                RefuseSession, ChooseMonitors, PrepareOverlay, HideConsole, CommitPixels,
                FailPixels, FailReady, EmitReady, UndoCapture, RestoreAfterCapture,
                CatchStart
        <3> QED BY <3>1
    <2> QED BY <2>1, <2>2
<1>2. ASSUME EditorNext PROVE ~crossed /\ ~faulted
    <2>1. ~FailTelling /\ ~FailWake /\ ~CloseOverlay
        BY DEF FailTelling, FailWake, CloseOverlay
    <2>2. crossed' = crossed /\ faulted' = faulted
        BY <1>2, <2>1 DEF EditorNext, history, OverlayCalls, Reject, WakeOverlay, Initialize,
            Complete, Pin, Cancel, BeginScrolling, CutPicture, RejectEditor, CommitReady, PinPicture,
            ConfirmPin, UndoPin, HideOverlay, TellWorkbench
    <2> QED BY <2>2
<1>3. ASSUME ScrollNext PROVE ~crossed /\ ~faulted
    <2>1. ~FailScroll /\ ~FailReopen
        BY DEF FailScroll, FailReopen
    <2>2. crossed' = crossed /\ faulted' = faulted
        BY <1>3, <2>1 DEF ScrollNext, history, ScrollCalls, Reject, OpenScrolling,
            RejectOpener, HideForScrolling, BuildScroll, ShowScroll, ClearScrolling,
            RestoreAfterScrolling, AppendFrame, FinishScrolling, CancelScrolling,
            StitchFrame, SkipFrame, EditStitched, RefuseFinish, ReopenOverlay
    <2> QED BY <2>2
<1>4. ASSUME ImportNext PROVE ~crossed /\ ~faulted
    BY <1>4 DEF ImportNext, history, HearFinished, HearReady, TakePicture, AddPicture,
        FailImport, EndImport, Discard
<1>5. ASSUME NEW a \in {"editor", "scroller"}, CancelNext(a) PROVE ~crossed /\ ~faulted
    BY <1>5 DEF CancelNext, history, TakeSession, CloseWindows, TellCancelled, FailCancelled
<1>6. ASSUME UNCHANGED vars \/ \E r \in Requests : Select(r) PROVE ~crossed /\ ~faulted
    BY <1>6 DEF vars, history, Select
<1> QED BY <1>1, <1>2, <1>3, <1>4, <1>5, <1>6 DEF Next

\* Only an import adds a picture.
LEMMA PlacedKept ==
    ASSUME [Next]_vars
    PROVE  placed' = placed \/ AddPicture
<1>1. ASSUME NEW s \in Starts, StartNext(s) PROVE placed' = placed
    BY <1>1 DEF StartNext, history, BeginCapture, StartCapture, GiveUpStart, OpenSession,
        RefuseSession, ChooseMonitors, PrepareOverlay, HideConsole, CommitPixels,
        FailPixels, FailReady, EmitReady, UndoCapture, RestoreAfterCapture, CatchStart
<1>2. EditorNext => placed' = placed
    BY DEF EditorNext, history, OverlayCalls, Reject, WakeOverlay, FailWake, CloseOverlay,
        Initialize,
        Complete, Pin, Cancel,
        BeginScrolling, CutPicture, RejectEditor, CommitReady, PinPicture, ConfirmPin,
        UndoPin, HideOverlay, TellWorkbench, FailTelling
<1>3. ScrollNext => placed' = placed
    BY DEF ScrollNext, history, ScrollCalls, Reject, OpenScrolling, RejectOpener,
        HideForScrolling, BuildScroll, ShowScroll, FailScroll, ClearScrolling,
        RestoreAfterScrolling, AppendFrame, FinishScrolling, CancelScrolling, StitchFrame,
        SkipFrame, EditStitched, RefuseFinish, ReopenOverlay, FailReopen
<1>4. ImportNext => placed' = placed \/ AddPicture
    BY DEF ImportNext, history, HearFinished, HearReady, TakePicture, AddPicture,
        FailImport, EndImport, Discard
<1>5. ASSUME NEW a \in {"editor", "scroller"}, CancelNext(a) PROVE placed' = placed
    BY <1>5 DEF CancelNext, history, TakeSession, CloseWindows, TellCancelled, FailCancelled
<1>6. ASSUME UNCHANGED vars \/ \E r \in Requests : Select(r) PROVE placed' = placed
    BY <1>6 DEF vars, history, Select
<1> QED BY <1>1, <1>2, <1>3, <1>4, <1>5, <1>6 DEF Next

\* There is one phase at first.
LEMMA InitPhaseInv == Init => PhaseInv
<1> SUFFICES ASSUME Init PROVE Rest /\ Reached
    BY DEF PhaseInv, Phase
<1>1. \A a \in Actors : call[a].pc = "idle"
    BY NoCallTyped DEF Init
<1>2. NoStart /\ OpenerAside /\ Idle("editor") /\ Idle("scroller") /\ Idle("import")
    BY <1>1, ActorsAre DEF NoStart, Before, OpenerAside, Idle, At
<1> QED BY <1>2 DEF Init, Rest, NoEvents, Reached

\* Every step leads from a phase to a phase, and adds a picture where it belongs.
LEMMA PhaseInvPreserved == IInv /\ PhaseInv /\ [Next]_vars => PhaseInv'
<1> SUFFICES ASSUME IInv, PhaseInv, [Next]_vars, ~crossed', ~faulted'
             PROVE  Phase' /\ Reached'
    BY DEF PhaseInv
<1>1. TypeInv /\ FieldsInv
    BY DEF IInv
<1>2. Phase /\ Reached
    BY MishapsStay DEF PhaseInv
<1>3. Phase'
    BY <1>1, <1>2, FromRest, FromBeginning, FromWaking, FromEditing, FromClosing,
        FromOpening, FromScrolling, FromHearing, FromImporting DEF Phase
<1>4. CASE placed' = placed
    BY <1>2, <1>3, <1>4 DEF Reached
<1>5. CASE AddPicture
    <2>1. At("import", "add")
        BY <1>5 DEF AddPicture
    <2>2. Importing
        BY <1>2, <2>1 DEF Phase, Rest, Beginning, Waking, Editing, Closing, Opening,
            Scrolling, Hearing, Idle, At
    <2>3. call["import"].request = call["import"].aim
        BY <2>1, <2>2 DEF Importing, At
    <2> QED BY <1>3, <1>5, <2>3 DEF AddPicture, Reached
<1> QED BY <1>3, <1>4, <1>5, PlacedKept

\* Unless two starts crossed or a window or an event failed, a capture is in one
\* of its phases and the last picture is where it belongs.
THEOREM PhaseInvariance == Spec => []PhaseInv
<1>1. Spec => []IInv
    BY Invariance
<1> QED BY <1>1, InitPhaseInv, PhaseInvPreserved, PTL DEF Spec

\* When nothing is under way, a capture that is not over has a window from
\* which the user can end it.
THEOREM NeverStrandedCorrect == Spec => []NeverStranded
<1>1. PhaseInv => NeverStranded
    <2> SUFFICES ASSUME PhaseInv, Quiet, busy \/ session # None, ~faulted, ~crossed
                 PROVE  (overlay /\ ~completing) \/ scroll
        BY DEF NeverStranded
    <2>1. Phase
        BY DEF PhaseInv
    <2>2. \A a \in Actors : call[a].pc = "idle"
        BY DEF Quiet, At
    <2>3. ~Rest /\ ~Waking /\ ~Hearing
        BY DEF Quiet, Rest, Waking, Hearing, Heard
    <2>4. ~Beginning
        BY <2>2, ActorsAre DEF Beginning, BeginningOf, At
    <2>5. ~Closing /\ ~Opening /\ ~Importing
        BY <2>2, ActorsAre DEF Closing, Opening, Importing, At
    <2>6. Editing => overlay /\ ~completing
        BY <2>2, ActorsAre DEF Editing, At
    <2>7. Scrolling => scroll
        BY <2>2, ActorsAre DEF Scrolling, At
    <2> QED BY <2>1, <2>3, <2>4, <2>5, <2>6, <2>7 DEF Phase
<1> QED BY PhaseInvariance, <1>1, PTL

\* A picture is only added to the request its capture was started for.
THEOREM ReachesItsRequestCorrect == Spec => []ReachesItsRequest
<1>1. PhaseInv => ReachesItsRequest
    BY DEF PhaseInv, Reached, ReachesItsRequest
<1> QED BY PhaseInvariance, <1>1, PTL
=============================================================================
