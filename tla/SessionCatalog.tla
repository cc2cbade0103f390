--------------------------- MODULE SessionCatalog ---------------------------
(***************************************************************************)
(* What the lists of host sessions and requests promise to the agents and  *)
(* the person who use them, with no transactions, files, plans or calls in *)
(* flight: a request that was asked stays until it is ended, its end is    *)
(* final, a session that is put away has nothing to answer, and only what  *)
(* is put away can be forgotten.  HostSessions implements it.              *)
(***************************************************************************)
CONSTANTS
    Requests,    \* request ids
    Sessions,    \* host sessions
    None         \* the session of a request that is not there

VARIABLES
    state,       \* state[r]: "absent", "open", "ended" or "delivered"
    owner,       \* owner[r]: the session that asks r, or None
    archived,    \* sessions put away
    pinned       \* sessions kept on top

vars == <<state, owner, archived, pinned>>

Of(s) == {r \in Requests : state[r] # "absent" /\ owner[r] = s}
Listed == {s \in Sessions : Of(s) # {}}

Init ==
    /\ state = [r \in Requests |-> "absent"]
    /\ owner = [r \in Requests |-> None]
    /\ archived = {} /\ pinned = {}

\* A request is asked; its session comes back into view.
Ask(r, s) ==
    /\ state[r] = "absent"
    /\ state' = [state EXCEPT ![r] = "open"]
    /\ owner' = [owner EXCEPT ![r] = s]
    /\ archived' = archived \ {s}
    /\ UNCHANGED pinned

\* An open request ends once, with a result that can be read or without one.
End(r) ==
    /\ state[r] = "open"
    /\ \E final \in {"ended", "delivered"} : state' = [state EXCEPT ![r] = final]
    /\ UNCHANGED <<owner, archived, pinned>>

Pin(s) ==
    /\ s \in Listed \ archived
    /\ pinned' = pinned \cup {s}
    /\ UNCHANGED <<state, owner, archived>>

Unpin(s) ==
    /\ pinned' = pinned \ {s}
    /\ UNCHANGED <<state, owner, archived>>

\* A session is put away when nothing of it waits for an answer.
Archive(s) ==
    /\ s \in Listed
    /\ \A r \in Of(s) : state[r] # "open"
    /\ archived' = archived \cup {s}
    /\ pinned' = pinned \ {s}
    /\ UNCHANGED <<state, owner>>

Restore(s) ==
    /\ archived' = archived \ {s}
    /\ UNCHANGED <<state, owner, pinned>>

\* Ended requests of a session that is put away are forgotten, and with the
\* last one the session.
Forget(s, rs) ==
    /\ s \in archived
    /\ rs # {} /\ rs \subseteq {r \in Of(s) : state[r] # "open"}
    /\ state' = [r \in Requests |-> IF r \in rs THEN "absent" ELSE state[r]]
    /\ owner' = [r \in Requests |-> IF r \in rs THEN None ELSE owner[r]]
    /\ archived' = IF rs = Of(s) THEN archived \ {s} ELSE archived
    /\ UNCHANGED pinned

Next ==
    \/ \E s \in Sessions :
          \/ Unpin(s) \/ Pin(s) \/ Archive(s) \/ Restore(s)
          \/ \E rs \in SUBSET Requests : Forget(s, rs)
    \/ \E r \in Requests : End(r) \/ \E s \in Sessions : Ask(r, s)

Spec == Init /\ [][Next]_vars
=============================================================================
