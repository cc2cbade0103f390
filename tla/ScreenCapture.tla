---------------------------- MODULE ScreenCapture ----------------------------
(***************************************************************************)
(* Screen capture: the commands of the desktop process, which share one    *)
(* capture session behind a mutex, and the three windows that call them:   *)
(* the workbench starts a capture and imports the picture, the overlay     *)
(* selects, completes, pins or cancels, the scroll window appends frames   *)
(* (screen_capture.rs, screen_capture/*.rs, commands.rs; in the interface  *)
(* attachmentController.ts, ScreenshotOverlay.svelte and                   *)
(* ScrollCaptureController.svelte).                                        *)
(*                                                                         *)
(* A command runs outside the mutex between its steps, so commands of      *)
(* different windows interleave. A picture is known by its session.        *)
(***************************************************************************)
EXTENDS Integers, Sequences

CONSTANTS
    Starts,      \* invocations of startScreenCapture that may be under way
    Requests,    \* feedback requests the user works on
    MaxSessions, \* bound on the captures begun
    MaxFrames,   \* frames until the height limit of a scrolling capture
    None

ASSUME BoundsAssumption == MaxSessions \in Nat \ {0} /\ MaxFrames \in Nat \ {0}

Windows == {"opener", "editor", "scroller", "import"}
Actors == Starts \cup Windows
Ids == 1 .. MaxSessions
Sessions == [stage : {"capturing", "editing", "scrolling", "ready"}, id : Ids,
             shown : BOOLEAN, aim : Requests, frames : 1 .. MaxFrames]

ASSUME ActorsAssumption == Starts \cap Windows = {}
ASSUME NoneAssumption == None \notin Requests \cup Ids \cup Sessions

VARIABLES
    \* The desktop process.
    session,    \* the capture session, or None
    overlay,    \* the overlay window is shown
    scroll,     \* the scroll window exists
    console,    \* the recording console is shown
    call,       \* the call each actor has under way, Idle if none
    toOverlay,  \* session-ready events on their way to the overlay
    toMain,     \* ready and finished events on their way to the workbench
    \* The interface.
    selected,   \* the request the workbench shows
    target,     \* screenCaptureRequestId
    busy,       \* captureBusy
    editing,    \* the session the overlay works on, or None
    completing, \* the overlay accepts no command
    \* History.
    begun,      \* captures begun so far
    placed,     \* for the last picture added: the request its capture was
                \* started for, and the request it was added to
    misread,    \* a capture began while another hid the console
    crossed,    \* a start passed its guard before another one set captureBusy
    faulted     \* a window or an event failed, or the overlay was closed,
                \* where no call handles it

process == <<session, overlay, scroll, console>>
events == <<toOverlay, toMain>>
workbench == <<selected, target, busy>>
editor == <<editing, completing>>
history == <<begun, placed, misread, crossed, faulted>>
vars == <<process, call, events, workbench, editor, history>>

NoCall == [pc |-> "idle", id |-> None, shown |-> FALSE, request |-> None, aim |-> None]

Init ==
    /\ session = None
    /\ overlay = FALSE /\ scroll = FALSE /\ console = TRUE
    /\ call = [a \in Actors |-> NoCall]
    /\ toOverlay = <<>> /\ toMain = <<>>
    /\ selected \in Requests /\ target = None /\ busy = FALSE
    /\ editing = None /\ completing = FALSE
    /\ begun = 0
    /\ placed = <<>>
    /\ misread = FALSE /\ crossed = FALSE /\ faulted = FALSE

At(a, pc) == call[a].pc = pc
Goto(a, pc) == call' = [call EXCEPT ![a].pc = pc]
Return(a) == call' = [call EXCEPT ![a] = NoCall]
IsSession(i) == session # None /\ session.id = i
InStage(stage, i) == IsSession(i) /\ session.stage = stage
Stage(stage, i, shown, aim) ==
    [stage |-> stage, id |-> i, shown |-> shown, aim |-> aim, frames |-> 1]
Notify(kind, i) == toMain' = Append(toMain, [kind |-> kind, id |-> i])

-----------------------------------------------------------------------------
(* startScreenCapture and begin_screen_capture.                            *)

Select(r) ==
    /\ r # selected
    /\ selected' = r
    /\ UNCHANGED <<process, call, events, target, busy, editor, history>>

\* The guard is passed here; captureBusy is only set after the draft is saved.
StartCapture(s) ==
    /\ At(s, "idle") /\ ~busy
    /\ begun < MaxSessions
    /\ call' = [call EXCEPT ![s] = [NoCall EXCEPT !.pc = "saving", !.request = selected]]
    /\ UNCHANGED <<process, events, workbench, editor, history>>

\* The draft could not be saved.
GiveUpStart(s) ==
    /\ At(s, "saving")
    /\ Return(s)
    /\ UNCHANGED <<process, events, workbench, editor, history>>

\* Whether the console is to come back is read before the mutex is taken.
BeginCapture(s) ==
    /\ At(s, "saving")
    /\ target' = call[s].request
    /\ busy' = TRUE
    /\ crossed' = (crossed \/ busy \/ session # None
                    \/ \E t \in Starts \ {s} : call[t].pc \notin {"idle", "saving"})
    /\ call' = [call EXCEPT ![s].pc = "begun", ![s].shown = console]
    /\ UNCHANGED <<process, events, selected, editor, begun, placed, misread, faulted>>

OpenSession(s) ==
    /\ At(s, "begun")
    /\ session = None /\ ~scroll /\ begun < MaxSessions
    /\ begun' = begun + 1
    /\ session' = Stage("capturing", begun', call[s].shown, call[s].request)
    /\ call' = [call EXCEPT ![s].pc = "opened", ![s].id = begun']
    /\ misread' = (misread \/ ~call[s].shown)
    /\ UNCHANGED <<overlay, scroll, console, events, workbench, editor,
                   placed, crossed, faulted>>

\* No permission, or another capture is under way.
RefuseSession(s) ==
    /\ At(s, "begun")
    /\ Goto(s, "rejected")
    /\ UNCHANGED <<process, events, workbench, editor, history>>

\* One monitor or all of them, as far as their layout can be told.
ChooseMonitors(s) ==
    /\ At(s, "opened")
    /\ Goto(s, "chosen") \/ Goto(s, "undo")
    /\ UNCHANGED <<process, events, workbench, editor, history>>

\* The overlay is built if need be, hidden and placed, or it cannot be.
PrepareOverlay(s) ==
    /\ At(s, "chosen")
    /\ \/ overlay' = FALSE /\ Goto(s, "prepared")
       \/ overlay' \in {FALSE, overlay} /\ Goto(s, "undo")
    /\ UNCHANGED <<session, scroll, console, events, workbench, editor, history>>

HideConsole(s) ==
    /\ At(s, "prepared")
    /\ console' = FALSE
    /\ Goto(s, "shooting")
    /\ UNCHANGED <<session, overlay, scroll, events, workbench, editor, history>>

\* The pixels are read outside the mutex; the session must still be there.
CommitPixels(s) ==
    /\ At(s, "shooting")
    /\ InStage("capturing", call[s].id)
    /\ session' = Stage("editing", call[s].id, call[s].shown, session.aim)
    /\ Goto(s, "emitting")
    /\ UNCHANGED <<overlay, scroll, console, events, workbench, editor, history>>

\* A monitor cannot be read, or the session is gone when they all are.
FailPixels(s) ==
    /\ At(s, "shooting")
    /\ Goto(s, "undo")
    /\ UNCHANGED <<process, events, workbench, editor, history>>

\* The overlay cannot be told.
FailReady(s) ==
    /\ At(s, "emitting")
    /\ Goto(s, "undo")
    /\ UNCHANGED <<process, events, workbench, editor, history>>

EmitReady(s) ==
    /\ At(s, "emitting")
    /\ toOverlay' = Append(toOverlay, call[s].id)
    /\ Return(s)
    /\ UNCHANGED <<process, toMain, workbench, editor, history>>

\* Variant: the session of the failed capture stays.
UndoNothing(s) ==
    /\ At(s, "undo")
    /\ Goto(s, "restoring")
    /\ UNCHANGED <<process, events, workbench, editor, history>>

UndoCapture(s) ==
    /\ At(s, "undo")
    /\ session' = IF IsSession(call[s].id) THEN None ELSE session
    /\ Goto(s, "restoring")
    /\ UNCHANGED <<overlay, scroll, console, events, workbench, editor, history>>

\* Variant: a capture that fails leaves the console hidden.
ForgetConsole(s) ==
    /\ At(s, "restoring")
    /\ Goto(s, "rejected")
    /\ UNCHANGED <<process, events, workbench, editor, history>>

RestoreAfterCapture(s) ==
    /\ At(s, "restoring")
    /\ console' = (console \/ call[s].shown)
    /\ Goto(s, "rejected")
    /\ UNCHANGED <<session, overlay, scroll, events, workbench, editor, history>>

CatchStart(s) ==
    /\ At(s, "rejected")
    /\ target' = None
    /\ busy' = FALSE
    /\ Return(s)
    /\ UNCHANGED <<process, events, selected, editor, history>>

-----------------------------------------------------------------------------
(* The overlay: initialize, then complete, pin, scroll or cancel.          *)

\* The window resets itself, whatever calls it has under way.
Initialize ==
    /\ toOverlay # <<>>
    /\ toOverlay' = Tail(toOverlay)
    /\ editing' = IF InStage("editing", Head(toOverlay)) THEN Head(toOverlay) ELSE None
    /\ completing' = FALSE
    /\ UNCHANGED <<session, scroll, console, call, toMain, workbench>>

\* show_screen_capture_overlay.
WakeOverlay ==
    /\ Initialize
    /\ overlay' = TRUE
    /\ UNCHANGED history

\* It cannot be shown: the error is only kept in the hidden window.
FailWake ==
    /\ Initialize
    /\ faulted' = TRUE
    /\ UNCHANGED <<overlay, begun, placed, misread, crossed>>

\* A request to close the window hides it, whatever it is doing.
CloseOverlay ==
    /\ overlay
    /\ overlay' = FALSE
    /\ faulted' = TRUE
    /\ UNCHANGED <<session, scroll, console, call, events, workbench, editor,
                   begun, placed, misread, crossed>>

OverlayCalls(a, pc, i) ==
    /\ overlay /\ ~completing /\ At(a, "idle")
    /\ completing' = TRUE
    /\ call' = [call EXCEPT ![a] = [NoCall EXCEPT !.pc = pc, !.id = i]]
    /\ UNCHANGED <<process, events, workbench, editing, history>>

\* The call is refused: the overlay shows the error and accepts commands.
Reject(a) ==
    /\ Return(a)
    /\ completing' = FALSE
    /\ UNCHANGED <<process, events, workbench, editing, history>>

Complete == editing # None /\ OverlayCalls("editor", "complete", editing)
Pin == editing # None /\ OverlayCalls("editor", "pin", editing)
Cancel == OverlayCalls("editor", "cancel", None)
BeginScrolling == editing # None /\ OverlayCalls("opener", "scroll", editing)

\* The picture is cut out under the mutex; the clipboard is filled outside.
CutPicture ==
    /\ InStage("editing", call["editor"].id)
    /\ \E cut \in {<<"complete", "completed">>, <<"pin", "pinning">>} :
          /\ At("editor", cut[1])
          /\ call' = [call EXCEPT !["editor"].pc = cut[2], !["editor"].shown = session.shown]
    /\ UNCHANGED <<process, events, workbench, editor, history>>

\* The selection, the encoding, the clipboard, the pin window, or the session.
RejectEditor ==
    /\ At("editor", "complete") \/ At("editor", "completed")
       \/ At("editor", "pin") \/ At("editor", "pinning")
    /\ Reject("editor")

CommitReady ==
    /\ At("editor", "completed")
    /\ IsSession(call["editor"].id)
    /\ session' = Stage("ready", call["editor"].id, FALSE, session.aim)
    /\ Goto("editor", "hide-ready")
    /\ UNCHANGED <<overlay, scroll, console, events, workbench, editor, history>>

\* The picture is in the map of pins and its window is open. The map has no
\* other reader than that window, so neither is kept here.
PinPicture ==
    /\ At("editor", "pinning")
    /\ Goto("editor", "pinned")
    /\ UNCHANGED <<process, events, workbench, editor, history>>

ConfirmPin ==
    /\ At("editor", "pinned")
    /\ IsSession(call["editor"].id)
    /\ session' = None
    /\ Goto("editor", "hide-pinned")
    /\ UNCHANGED <<overlay, scroll, console, events, workbench, editor, history>>

\* The session has changed: the pin is taken back.
UndoPin ==
    /\ At("editor", "pinned")
    /\ ~IsSession(call["editor"].id)
    /\ Reject("editor")

HideOverlay ==
    /\ \/ At("editor", "hide-ready") /\ Goto("editor", "tell-ready")
       \/ At("editor", "hide-pinned") /\ Goto("editor", "tell-pinned")
    /\ overlay' = FALSE
    /\ UNCHANGED <<session, scroll, console, events, workbench, editor, history>>

\* The console comes back and the workbench is told; completing stays set.
TellWorkbench ==
    /\ console' = (console \/ call["editor"].shown)
    /\ \/ At("editor", "tell-ready") /\ Notify("ready", call["editor"].id)
       \/ At("editor", "tell-pinned") /\ Notify("finished", call["editor"].id)
    /\ Return("editor")
    /\ UNCHANGED <<session, overlay, scroll, toOverlay, workbench, editor, history>>

\* The event is lost: only the hidden overlay hears of it, if it is an error.
FailTelling ==
    /\ \/ At("editor", "tell-ready") /\ completing' = FALSE
       \/ At("editor", "tell-pinned") /\ UNCHANGED completing
    /\ console' = (console \/ call["editor"].shown)
    /\ faulted' = TRUE
    /\ Return("editor")
    /\ UNCHANGED <<session, overlay, scroll, events, workbench, editing,
                   begun, placed, misread, crossed>>

-----------------------------------------------------------------------------
(* cancel_screen_capture, from the overlay or the scroll window.           *)

\* Whatever session there is.
TakeSession(a) ==
    /\ At(a, "cancel")
    /\ call' = [call EXCEPT ![a].pc = "close",
                            ![a].id = IF session = None THEN None ELSE session.id,
                            ![a].shown = session # None /\ session.shown]
    /\ session' = None
    /\ UNCHANGED <<overlay, scroll, console, events, workbench, editor, history>>

CloseWindows(a) ==
    /\ At(a, "close")
    /\ overlay' = FALSE /\ scroll' = FALSE
    /\ Goto(a, "tell-cancelled")
    /\ UNCHANGED <<session, console, events, workbench, editor, history>>

TellCancelled(a) ==
    /\ At(a, "tell-cancelled")
    /\ console' = (console \/ call[a].shown)
    /\ Notify("finished", call[a].id)
    /\ Return(a)
    /\ UNCHANGED <<session, overlay, scroll, toOverlay, workbench, editor, history>>

FailCancelled(a) ==
    /\ At(a, "tell-cancelled")
    /\ console' = (console \/ call[a].shown)
    /\ completing' = (completing /\ a # "editor")
    /\ faulted' = TRUE
    /\ Return(a)
    /\ UNCHANGED <<session, overlay, scroll, events, workbench, editing,
                   begun, placed, misread, crossed>>

-----------------------------------------------------------------------------
(* Scrolling: begin_, append_ and finish_scrolling_capture.                *)

OpenScrolling ==
    /\ At("opener", "scroll")
    /\ InStage("editing", call["opener"].id)
    /\ session' = [session EXCEPT !.stage = "scrolling"]
    /\ call' = [call EXCEPT !["opener"].pc = "hide", !["opener"].shown = session.shown]
    /\ UNCHANGED <<overlay, scroll, console, events, workbench, editor, history>>

\* The session has changed, or the selection cannot be scrolled.
RejectOpener ==
    /\ At("opener", "scroll")
    /\ Reject("opener")

HideForScrolling ==
    /\ At("opener", "hide")
    /\ overlay' = FALSE
    /\ Goto("opener", "build")
    /\ UNCHANGED <<session, scroll, console, events, workbench, editor, history>>

\* A scroll window that is there is closed first.
BuildScroll ==
    /\ At("opener", "build")
    /\ scroll' = TRUE
    /\ Goto("opener", "show")
    /\ UNCHANGED <<session, overlay, console, events, workbench, editor, history>>

ShowScroll ==
    /\ At("opener", "show") /\ scroll
    /\ Return("opener")
    /\ UNCHANGED <<process, events, workbench, editor, history>>

\* The window is not built, or is closed or cannot be shown when it is built.
FailScroll ==
    /\ \/ At("opener", "build") /\ scroll' = FALSE
       \/ At("opener", "show") /\ UNCHANGED scroll
    /\ faulted' = TRUE
    /\ Goto("opener", "clear")
    /\ UNCHANGED <<session, overlay, console, events, workbench, editor,
                   begun, placed, misread, crossed>>

\* Whatever session there is by now is dropped, and nobody is told.
ClearScrolling ==
    /\ At("opener", "clear")
    /\ session' = None
    /\ Goto("opener", "restore")
    /\ UNCHANGED <<overlay, scroll, console, events, workbench, editor, history>>

RestoreAfterScrolling ==
    /\ At("opener", "restore")
    /\ console' = (console \/ call["opener"].shown)
    /\ completing' = FALSE
    /\ Return("opener")
    /\ UNCHANGED <<session, overlay, scroll, events, workbench, editing, history>>

\* The window knows its session from get_scrolling_capture_info.
ScrollCalls(pc, i) ==
    /\ scroll /\ At("scroller", "idle")
    /\ call' = [call EXCEPT !["scroller"] = [NoCall EXCEPT !.pc = pc, !.id = i]]
    /\ UNCHANGED <<process, events, workbench, editor, history>>

AppendFrame == session # None /\ InStage("scrolling", session.id) /\ ScrollCalls("frame", session.id)
FinishScrolling == session # None /\ InStage("scrolling", session.id) /\ ScrollCalls("finish", session.id)
CancelScrolling == ScrollCalls("cancel", None)

\* The frame is read outside the mutex. Whether it is stitched, repeats the
\* last one or does not match is what stitch_vertical decides.
StitchFrame ==
    /\ At("scroller", "frame")
    /\ InStage("scrolling", call["scroller"].id) /\ session.frames < MaxFrames
    /\ session' = [session EXCEPT !.frames = @ + 1]
    /\ Return("scroller")
    /\ UNCHANGED <<overlay, scroll, console, events, workbench, editor, history>>

\* Nothing new, no overlap, the height limit, a failed read or another session.
SkipFrame ==
    /\ At("scroller", "frame")
    /\ Return("scroller")
    /\ UNCHANGED <<process, events, workbench, editor, history>>

EditStitched ==
    /\ At("scroller", "finish")
    /\ InStage("scrolling", call["scroller"].id)
    /\ session' = [session EXCEPT !.stage = "editing", !.frames = 1]
    /\ Goto("scroller", "reopen")
    /\ UNCHANGED <<overlay, scroll, console, events, workbench, editor, history>>

RefuseFinish ==
    /\ At("scroller", "finish")
    /\ ~InStage("scrolling", call["scroller"].id)
    /\ Return("scroller")
    /\ UNCHANGED <<process, events, workbench, editor, history>>

\* The scroll window is closed, the overlay placed and its editor woken.
ReopenOverlay ==
    /\ At("scroller", "reopen")
    /\ scroll' = FALSE /\ overlay' = FALSE
    /\ toOverlay' = Append(toOverlay, call["scroller"].id)
    /\ Return("scroller")
    /\ UNCHANGED <<session, console, toMain, workbench, editor, history>>

\* The window that would hear of the error is the one just closed.
FailReopen ==
    /\ At("scroller", "reopen")
    /\ scroll' = FALSE /\ overlay' \in {overlay, FALSE}
    /\ faulted' = TRUE
    /\ Return("scroller")
    /\ UNCHANGED <<session, console, events, workbench, editor,
                   begun, placed, misread, crossed>>

-----------------------------------------------------------------------------
(* The workbench: importScreenCapture and add_completed_screen_capture.    *)

HearFinished ==
    /\ toMain # <<>> /\ Head(toMain).kind = "finished"
    /\ toMain' = Tail(toMain)
    /\ busy' = FALSE
    /\ UNCHANGED <<process, call, toOverlay, selected, target, editor, history>>

\* Variant: the picture goes to the request that is shown.
RequestShown == selected

RequestAimedAt == IF target # None THEN target ELSE selected

\* The interface may be locked: the picture is then discarded.
HearReady ==
    /\ toMain # <<>> /\ Head(toMain).kind = "ready" /\ At("import", "idle")
    /\ toMain' = Tail(toMain)
    /\ \E pc \in {"take", "locked"} :
          /\ busy' = (busy \/ pc = "take")
          /\ call' = [call EXCEPT !["import"] =
                        [NoCall EXCEPT !.pc = pc, !.id = Head(toMain).id,
                                       !.request = RequestAimedAt]]
    /\ UNCHANGED <<process, toOverlay, selected, target, editor, history>>

\* take_completed_png.
TakePicture ==
    /\ At("import", "take")
    /\ InStage("ready", call["import"].id)
    /\ session' = None
    /\ call' = [call EXCEPT !["import"].pc = "add", !["import"].aim = session.aim]
    /\ UNCHANGED <<overlay, scroll, console, events, workbench, editor, history>>

\* add_feedback_attachment, as DraftWorkspace models it.
AddPicture ==
    /\ At("import", "add")
    /\ placed' = <<call["import"].aim, call["import"].request>>
    /\ Goto("import", "end")
    /\ UNCHANGED <<process, events, workbench, editor, begun, misread, crossed, faulted>>

\* The draft is not saved, the picture is gone, or too large, or the revision
\* has moved: a picture that was taken is lost.
FailImport ==
    /\ At("import", "take") \/ At("import", "add")
    /\ Goto("import", "end")
    /\ UNCHANGED <<process, events, workbench, editor, history>>

EndImport ==
    /\ At("import", "end")
    /\ target' = None
    /\ Goto("import", "locked")
    /\ UNCHANGED <<process, events, selected, busy, editor, history>>

\* discard_screen_capture.
Discard ==
    /\ At("import", "locked")
    /\ session' = IF IsSession(call["import"].id) THEN None ELSE session
    /\ busy' = FALSE
    /\ Return("import")
    /\ UNCHANGED <<overlay, scroll, console, events, selected, target, editor, history>>

-----------------------------------------------------------------------------
StartNext(s) ==
    \/ StartCapture(s) \/ GiveUpStart(s) \/ BeginCapture(s) \/ OpenSession(s)
    \/ RefuseSession(s) \/ ChooseMonitors(s) \/ PrepareOverlay(s) \/ HideConsole(s)
    \/ CommitPixels(s) \/ FailPixels(s) \/ FailReady(s) \/ EmitReady(s) \/ UndoCapture(s) \/ RestoreAfterCapture(s)
    \/ CatchStart(s)

EditorNext ==
    \/ WakeOverlay \/ FailWake \/ CloseOverlay \/ Complete \/ Pin \/ Cancel \/ BeginScrolling
    \/ CutPicture \/ RejectEditor \/ CommitReady \/ PinPicture \/ ConfirmPin
    \/ UndoPin \/ HideOverlay \/ TellWorkbench \/ FailTelling

ScrollNext ==
    \/ OpenScrolling \/ RejectOpener \/ HideForScrolling \/ BuildScroll \/ ShowScroll
    \/ FailScroll \/ ClearScrolling \/ RestoreAfterScrolling
    \/ AppendFrame \/ FinishScrolling \/ CancelScrolling \/ StitchFrame \/ SkipFrame
    \/ EditStitched \/ RefuseFinish \/ ReopenOverlay \/ FailReopen

CancelNext(a) ==
    TakeSession(a) \/ CloseWindows(a) \/ TellCancelled(a) \/ FailCancelled(a)

ImportNext ==
    \/ HearFinished \/ HearReady \/ TakePicture \/ AddPicture \/ FailImport
    \/ EndImport \/ Discard

Next ==
    \/ \E s \in Starts : StartNext(s)
    \/ EditorNext \/ ScrollNext \/ ImportNext
    \/ \E a \in {"editor", "scroller"} : CancelNext(a)
    \/ \E r \in Requests : Select(r)

Spec == Init /\ [][Next]_vars

-----------------------------------------------------------------------------
\* Every variable has its type; the scroll window only has frames to append
\* to in its own stage, and a session being captured has its capture under
\* way, so none is left behind for which begin_screen_capture has returned.
TypeOK ==
    /\ session \in Sessions \cup {None}
    /\ {overlay, scroll, console, busy, completing, misread, crossed, faulted} \subseteq BOOLEAN
    /\ \A a \in Actors : call[a].id \in Ids \cup {None} /\ call[a].shown \in BOOLEAN
    /\ selected \in Requests /\ target \in Requests \cup {None}
    /\ editing \in Ids \cup {None}
    /\ placed \in Requests \X Requests \cup {<<>>}
    /\ session # None /\ session.frames > 1 => session.stage = "scrolling"
    /\ session # None /\ session.stage = "capturing" =>
          \E s \in Starts : call[s].id = session.id

Quiet == (\A a \in Actors : At(a, "idle")) /\ toOverlay = <<>> /\ toMain = <<>>

\* When no call and no event is under way, a capture that is not over, and a
\* workbench that will not start another one, always have a window from which
\* the user can end it: the overlay accepting commands, or the scroll window.
\* What does strand it: a window or an event that fails after the capture has
\* begun (scroll.rs:134, scroll.rs:349, overlay.rs:84, overlay.rs:306,
\* lifecycle.rs:92), an overlay closed by the window system (overlay.rs:34), and
\* two starts that both passed their guard, when a cancel of the first hides
\* the overlay of the second (lifecycle.rs:77).
NeverStranded ==
    Quiet /\ (busy \/ session # None) /\ ~faulted /\ ~crossed => (overlay /\ ~completing) \/ scroll

\* The console the capture hid is back when the capture is over, however it
\* ended and whoever ended it, unless a capture began while the console was
\* hidden by another one (overlay.rs:101 reads it before taking the mutex).
ConsoleComesBack == Quiet /\ session = None /\ ~misread => console

\* A picture is only added to the request the capture was started for, though
\* the user may show another one meanwhile. What sends it elsewhere: two starts
\* that both passed the guard that captureBusy is for (attachmentController.ts:232
\* and :237), and calls of an earlier capture that outlive a failed window.
ReachesItsRequest ==
    placed # <<>> /\ ~crossed /\ ~faulted => placed[1] = placed[2]
=============================================================================
