--------------------------- MODULE FeedbackWaiters ---------------------------
(***************************************************************************)
(* How a caller blocked in wait_feedback learns that its request ended:    *)
(* the map of watch channels (rambledesk-core, feedback/waiters.rs), the   *)
(* loop of wait_feedback, and the calls that end a request, whose commit   *)
(* and notification are separate steps: in between come awaits, at which a *)
(* call may be dropped, and for an approval a read, which may fail.  How a *)
(* call gets to its commit is FeedbackPublication; here it is one step.    *)
(***************************************************************************)
EXTENDS Naturals

CONSTANTS
    Requests,    \* feedback requests
    Waiters,     \* calls of wait_feedback, each on one request
    Enders,      \* calls that submit, approve or cancel a request
    Approvals,   \* those that approve: they read the row back after their commit
    Droppable,   \* those that come over HTTP and die with the connection
    None         \* no request yet

ASSUME EndersAssumption == Approvals \subseteq Enders /\ Droppable \subseteq Enders
ASSUME NoneAssumption == None \notin Requests

VARIABLES
    ended,       \* ended[r]: the row of r is terminal
    open,        \* open[r]: the map holds a sender for r
    removed,     \* removed[r]: how many senders of r were taken out of the map
    signalled,   \* signalled[r]: the senders of r that have sent
    waiting,     \* waiting[w]: where wait_feedback is
    asked,       \* asked[w]: the request it waits for
    receiver,    \* receiver[w]: which sender of that request it listens to
    ending,      \* ending[e]: where the call that ends a request is
    target,      \* target[e]: the request it ends
    sender,      \* sender[e]: the sender it took out of the map, or 0
    untold       \* untold[r]: an ender of r stopped between commit and notify,
                 \* and no call has told the waiters since

channels == <<open, removed, signalled>>
waiters == <<waiting, asked, receiver>>
enders == <<ending, target, sender>>
vars == <<ended, channels, waiters, enders, untold>>

\* The sender in the map, if there is one, is the one after those removed.
Current(r) == removed[r] + 1

TypeOK ==
    /\ ended \in [Requests -> BOOLEAN]
    /\ open \in [Requests -> BOOLEAN]
    /\ removed \in [Requests -> Nat]
    /\ signalled \in [Requests -> SUBSET Nat]
    /\ waiting \in [Waiters -> {"idle", "reading", "parked", "answered", "gone"}]
    /\ asked \in [Waiters -> Requests \cup {None}]
    /\ receiver \in [Waiters -> Nat]
    /\ ending \in [Enders -> {"idle", "committed", "telling", "sending", "done"}]
    /\ target \in [Enders -> Requests \cup {None}]
    /\ sender \in [Enders -> Nat]
    /\ untold \in [Requests -> BOOLEAN]

Init ==
    /\ ended \in [Requests -> BOOLEAN]
    /\ open = [r \in Requests |-> FALSE]
    /\ removed = [r \in Requests |-> 0]
    /\ signalled = [r \in Requests |-> {}]
    /\ waiting = [w \in Waiters |-> "idle"]
    /\ asked = [w \in Waiters |-> None]
    /\ receiver = [w \in Waiters |-> 0]
    /\ ending = [e \in Enders |-> "idle"]
    /\ target = [e \in Enders |-> None]
    /\ sender = [e \in Enders |-> 0]
    /\ untold = [r \in Requests |-> FALSE]

-----------------------------------------------------------------------------
(* wait_feedback.                                                          *)

\* Variant: the sender of an earlier waiter is replaced in the map.
SubscribeReplacing(w, r) ==
    /\ waiting[w] = "idle"
    /\ waiting' = [waiting EXCEPT ![w] = "reading"]
    /\ asked' = [asked EXCEPT ![w] = r]
    /\ removed' = [removed EXCEPT ![r] = IF open[r] THEN @ + 1 ELSE @]
    /\ receiver' = [receiver EXCEPT ![w] = removed'[r] + 1]
    /\ open' = [open EXCEPT ![r] = TRUE]
    /\ UNCHANGED <<ended, signalled, enders, untold>>

\* subscribe: the sender of the request is created if the map has none.  The
\* read of the request comes after.
Subscribe(w, r) ==
    /\ waiting[w] = "idle"
    /\ waiting' = [waiting EXCEPT ![w] = "reading"]
    /\ asked' = [asked EXCEPT ![w] = r]
    /\ receiver' = [receiver EXCEPT ![w] = Current(r)]
    /\ open' = [open EXCEPT ![r] = TRUE]
    /\ UNCHANGED <<ended, removed, signalled, enders, untold>>

\* get_request: an ended request is the answer, else wait for a change.
ReadRequest(w) ==
    /\ waiting[w] = "reading"
    /\ waiting' = [waiting EXCEPT ![w] = IF ended[asked[w]] THEN "answered" ELSE "parked"]
    /\ UNCHANGED <<ended, channels, asked, receiver, enders, untold>>

\* changed() returns and the request is read again.  It never has to subscribe
\* again: a sender is only closed after it sent, to a request that has ended.
Wake(w) ==
    /\ waiting[w] = "parked"
    /\ receiver[w] \in signalled[asked[w]]
    /\ waiting' = [waiting EXCEPT ![w] = "reading"]
    /\ UNCHANGED <<ended, channels, asked, receiver, enders, untold>>

\* The connection of the waiter closes or its read fails; the sender stays in
\* the map.
Abandon(w) ==
    /\ waiting[w] \in {"reading", "parked"}
    /\ waiting' = [waiting EXCEPT ![w] = "gone"]
    /\ UNCHANGED <<ended, channels, asked, receiver, enders, untold>>

-----------------------------------------------------------------------------
(* The calls that end a request.                                           *)

\* Variant: the call answers without telling anybody.
CommitSilently(e, r) ==
    /\ ending[e] = "idle"
    /\ ended' = [ended EXCEPT ![r] = TRUE]
    /\ target' = [target EXCEPT ![e] = r]
    /\ ending' = [ending EXCEPT ![e] = "done"]
    /\ UNCHANGED <<channels, waiters, sender, untold>>

\* The commit that ends the request, with awaits before the notification; or
\* the read that finds it ended, with none.
Commit(e, r) ==
    /\ ending[e] = "idle"
    /\ ended' = [ended EXCEPT ![r] = TRUE]
    /\ target' = [target EXCEPT ![e] = r]
    /\ ending' = [ending EXCEPT ![e] = IF ended[r] THEN "telling" ELSE "committed"]
    /\ UNCHANGED <<channels, waiters, sender, untold>>

\* Variant: the sender stays in the map.
TakeSenderKeep(e) ==
    LET r == target[e] IN
    /\ ending[e] \in {"committed", "telling"}
    /\ IF open[r]
       THEN /\ sender' = [sender EXCEPT ![e] = Current(r)]
            /\ ending' = [ending EXCEPT ![e] = "sending"]
       ELSE /\ ending' = [ending EXCEPT ![e] = "done"]
            /\ UNCHANGED sender
    /\ untold' = [untold EXCEPT ![r] = FALSE]
    /\ UNCHANGED <<ended, channels, waiters, target>>

\* Variant: what the map holds for the request is used unchecked.
TakeSenderUnchecked(e) ==
    LET r == target[e] IN
    /\ ending[e] \in {"committed", "telling"}
    /\ open' = [open EXCEPT ![r] = FALSE]
    /\ removed' = [removed EXCEPT ![r] = @ + 1]
    /\ sender' = [sender EXCEPT ![e] = IF open[r] THEN Current(r) ELSE None]
    /\ ending' = [ending EXCEPT ![e] = "sending"]
    /\ untold' = [untold EXCEPT ![r] = FALSE]
    /\ UNCHANGED <<ended, signalled, waiters, target>>

\* notify_terminal takes the sender out of the map under the lock, which also
\* makes up for a call that stopped before it got here ...
TakeSender(e) ==
    LET r == target[e] IN
    /\ ending[e] \in {"committed", "telling"}
    /\ untold' = [untold EXCEPT ![r] = FALSE]
    /\ IF open[r]
       THEN /\ open' = [open EXCEPT ![r] = FALSE]
            /\ removed' = [removed EXCEPT ![r] = @ + 1]
            /\ sender' = [sender EXCEPT ![e] = Current(r)]
            /\ ending' = [ending EXCEPT ![e] = "sending"]
       ELSE /\ ending' = [ending EXCEPT ![e] = "done"]
            /\ UNCHANGED <<open, removed, sender>>
    /\ UNCHANGED <<ended, signalled, waiters, target>>

\* ... and sends after releasing it.
Send(e) ==
    /\ ending[e] = "sending"
    /\ signalled' = [signalled EXCEPT ![target[e]] = @ \cup {sender[e]}]
    /\ sender' = [sender EXCEPT ![e] = 0]
    /\ ending' = [ending EXCEPT ![e] = "done"]
    /\ UNCHANGED <<ended, open, removed, waiters, target, untold>>

\* A call stops between its commit and the notification: nobody is told.
StopUntold(e) ==
    /\ ending[e] = "committed"
    /\ ending' = [ending EXCEPT ![e] = "done"]
    /\ untold' = [untold EXCEPT ![target[e]] = TRUE]
    /\ UNCHANGED <<ended, channels, waiters, target, sender>>

\* The handler of a cancel is dropped while it removes the draft files, that of
\* an approve while it reads the row back.
DropEnder(e) == e \in Droppable /\ StopUntold(e)

\* The read of the row after an approval fails and its error is returned, by
\* the desktop's command as by the HTTP handler.
FailReadBack(e) == e \in Approvals /\ StopUntold(e)

-----------------------------------------------------------------------------
WaiterStep(w) == ReadRequest(w) \/ Wake(w)
EnderStep(e) == TakeSender(e) \/ Send(e)

Next ==
    \/ \E w \in Waiters : WaiterStep(w) \/ Abandon(w)
    \/ \E w \in Waiters, r \in Requests : Subscribe(w, r)
    \/ \E e \in Enders : EnderStep(e) \/ DropEnder(e) \/ FailReadBack(e)
    \/ \E e \in Enders, r \in Requests : Commit(e, r)

Spec == Init /\ [][Next]_vars

\* The runtime polls every task it has woken; nobody has to wait, to give up,
\* to end a request, to drop a call or to fail.
FairSpec == /\ Spec
            /\ \A w \in Waiters : WF_vars(WaiterStep(w))
            /\ \A e \in Enders : WF_vars(EnderStep(e))

-----------------------------------------------------------------------------
(* Correctness.                                                            *)

\* Somebody is going to send to the sender n of r.
WillSend(r, n) ==
    \E e \in Enders :
        /\ target[e] = r
        /\ \/ ending[e] = "sending" /\ sender[e] = n
           \/ ending[e] \in {"committed", "telling"} /\ open[r] /\ Current(r) = n

\* No wake-up is lost: a waiter parked on a request that has ended was sent to
\* or will be, unless the call that ended it was dropped or failed before the
\* notification and no other call has come to the same request since.  The
\* commit, the notification, the subscription and the read may come in any
\* order.
NoLostWakeup ==
    \A w \in Waiters : waiting[w] = "parked" /\ ended[asked[w]] =>
        \/ receiver[w] \in signalled[asked[w]]
        \/ WillSend(asked[w], receiver[w])
        \/ untold[asked[w]]

\* A sender is used once: no receiver of the sender now in the map was ever
\* sent to, and no two enders hold the same one.
SenderUsedOnce ==
    /\ \A r \in Requests : Current(r) \notin signalled[r]
    /\ \A e, f \in Enders :
          e # f /\ ending[e] = "sending" /\ ending[f] = "sending"
              /\ target[e] = target[f] => sender[e] # sender[f]

\* Every waiter of a request that ended is released, all of them by that one
\* end, unless the waiter went away or the ender stopped before it told anybody.
WaitersReleasedUnlessUntold ==
    \A w \in Waiters, r \in Requests :
        waiting[w] \in {"reading", "parked"} /\ asked[w] = r /\ ended[r] ~>
            waiting[w] \in {"answered", "gone"} \/ untold[r]

\* PROTOCOL.md, waiting: several waiters must be released by the same terminal
\* state.
WaitersReleased ==
    \A w \in Waiters, r \in Requests :
        waiting[w] \in {"reading", "parked"} /\ asked[w] = r /\ ended[r] ~>
            waiting[w] \in {"answered", "gone"}
=============================================================================
