---------------------------- MODULE SharedDraft ----------------------------
(***************************************************************************)
(* What the draft of a request promises to the clients that edit it, with  *)
(* no revisions, files, rows, or loads that take several queries: whoever  *)
(* changes the draft shows what is stored, and every change takes the      *)
(* draft away from all other clients until they look again.  After the     *)
(* editing ended nothing changes.  DraftWorkspace implements it.           *)
(***************************************************************************)
CONSTANTS
    Clients,      \* callers that show the draft
    Bodies,       \* draft texts
    Empty,        \* the text of a new draft
    Lists,        \* lists of attachments
    NoList,       \* the empty one
    None          \* shows nothing, or does not know the attachments

VARIABLES
    text,         \* the text that is stored
    attachments,  \* the attachments that are stored
    frozen,       \* the editing has ended
    shown         \* shown[c]: the present draft as client c shows it, or None

vars == <<text, attachments, frozen, shown>>

\* What a client may show of the present draft; the attachments are not known
\* to one that only learned the text.
Sights == {[text |-> text, attachments |-> known] : known \in {attachments, None}}
Nobody == [c \in Clients |-> None]

Init ==
    /\ text = Empty /\ attachments = NoList
    /\ frozen = FALSE
    /\ shown = Nobody

\* Clients load the draft, as it is now, or turn away from it.
Look ==
    /\ shown' \in [Clients -> Sights \cup {None}]
    /\ UNCHANGED <<text, attachments, frozen>>

\* The one who saves a text shows the one it replaces, and alone shows the new.
Save(c, body) ==
    /\ ~frozen /\ shown[c] # None
    /\ text' = body
    /\ shown' = [Nobody EXCEPT ![c] = [shown[c] EXCEPT !.text = body]]
    /\ UNCHANGED <<attachments, frozen>>

\* After a change of the attachments everybody has to look again.
Attach(c) ==
    /\ ~frozen /\ shown[c] # None
    /\ attachments' \in Lists
    /\ shown' = Nobody
    /\ UNCHANGED <<text, frozen>>

Freeze ==
    /\ frozen' = TRUE
    /\ UNCHANGED <<text, attachments, shown>>

Next ==
    \/ Look
    \/ \E c \in Clients : Attach(c) \/ \E body \in Bodies : Save(c, body)
    \/ Freeze

Spec == Init /\ [][Next]_vars
=============================================================================
