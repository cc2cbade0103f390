--------------------------- MODULE DraftWorkspace ---------------------------
(***************************************************************************)
(* The draft of one request, its attachments and the views of it that the  *)
(* workbench holds (workspace_ops.rs, row_mapping.rs and their callers).   *)
(*                                                                         *)
(* Every edit names the revision its caller saw and is one transaction;    *)
(* the file of an attachment is written before it and removed after it;    *)
(* the workspace that an edit returns is read afterwards by queries of     *)
(* their own, between which other edits commit.                            *)
(***************************************************************************)
EXTENDS Integers, FiniteSets

CONSTANTS
    Clients,         \* callers that hold a view of the workspace
    Bodies,          \* draft texts
    Empty,           \* the text of a draft that only has attachments
    None,            \* no draft row, no view, no call
    MaxAttachments,  \* MAX_ATTACHMENT_COUNT
    Offset,          \* what a reordering first adds to every position: 100000
    MaxIds,          \* bound on the attachment ids made
    MaxRevision,     \* bound on the edits
    MaxCrashes       \* bound on the crashes

ASSUME EmptyAssumption == Empty \in Bodies
ASSUME BoundsAssumption ==
    /\ MaxAttachments \in Nat /\ Offset \in Nat \ {0}
    /\ MaxIds \in Nat /\ MaxRevision \in Nat /\ MaxCrashes \in Nat

Ids == 1..MaxIds

VARIABLES
    phase,     \* of the request: open, planned (frozen), ended, or delivered
    revision,  \* feedback_requests.revision
    draft,     \* the drafts row [body, revision], or None
    position,  \* the attachments rows: id -> position
    disk,      \* ids with a file below drafts/<request>/attachments
    view,      \* view[c]: the workspace client c shows, or None
    call,      \* call[c]: the call client c is waiting for, or None
    made,      \* how many ids were made
    left,      \* files that a crash or an ignored error left behind
    crashes

row == <<phase, revision, draft, position>>
vars == <<row, disk, view, call, made, left, crashes>>

-----------------------------------------------------------------------------
Attached == DOMAIN position
Positions == 0..(MaxRevision + MaxAttachments)
StoredBody == IF draft = None THEN Empty ELSE draft.body
StoredRevision == IF draft = None THEN 0 ELSE draft.revision

\* A view: replayed says that its revision was taken from the answer to a
\* repeated save, which does not carry the attachments.
Views == [revision: 0..MaxRevision, body: Bodies,
          attachments: UNION {[S -> Positions] : S \in SUBSET Ids}, replayed: BOOLEAN]
Calls == [op: {"insert", "unlink"}, id: Ids]
            \cup [op: {"draft"}]
            \cup [op: {"attachments"}, body: Bodies, revision: 0..MaxRevision]
            \cup [op: {"read"}, id: Ids, published: BOOLEAN]

ASSUME NoneAssumption ==
    None \notin Views \cup Calls \cup [body: Bodies, revision: 0..MaxRevision]

Idle(c) == call[c] = None
In(c, op) == ~Idle(c) /\ call[c].op = op
Return(c) == call' = [call EXCEPT ![c] = None]
Load(c) == call' = [call EXCEPT ![c] = [op |-> "draft"]]

Init ==
    /\ phase = "open" /\ revision = 0
    /\ draft = None /\ position = [i \in {} |-> 0]
    /\ disk = {} /\ left = {}
    /\ view = [c \in Clients |-> None]
    /\ call = [c \in Clients |-> None]
    /\ made = 0 /\ crashes = 0

-----------------------------------------------------------------------------
(* Reading.                                                                *)

\* get_workspace; an edit ends with the same queries.
OpenWorkspace(c) ==
    /\ Idle(c)
    /\ Load(c)
    /\ UNCHANGED <<row, disk, view, made, left, crashes>>

\* The request, its actions and its context never change; then the draft.
LoadDraft(c) ==
    /\ In(c, "draft")
    /\ call' = [call EXCEPT ![c] = [op |-> "attachments", body |-> StoredBody,
                                    revision |-> StoredRevision]]
    /\ UNCHANGED <<row, disk, view, made, left, crashes>>

\* Variant: the revision comes from a later query than the text.
LoadRevisionLast(c) ==
    /\ In(c, "attachments")
    /\ view' = [view EXCEPT ![c] =
          [revision |-> StoredRevision, body |-> call[c].body,
           attachments |-> position, replayed |-> FALSE]]
    /\ Return(c)
    /\ UNCHANGED <<row, disk, made, left, crashes>>

\* Then the attachments; the client shows what came together.
LoadAttachments(c) ==
    /\ In(c, "attachments")
    /\ view' = [view EXCEPT ![c] =
          [revision |-> call[c].revision, body |-> call[c].body,
           attachments |-> position, replayed |-> FALSE]]
    /\ Return(c)
    /\ UNCHANGED <<row, disk, made, left, crashes>>

\* A query fails: the client keeps its view, though an edit may have committed.
FailLoad(c) ==
    /\ In(c, "draft") \/ In(c, "attachments")
    /\ Return(c)
    /\ UNCHANGED <<row, disk, view, made, left, crashes>>

\* The path of an attachment is looked up, the published one first ...
ResolvePath(c, i) ==
    /\ Idle(c) /\ i \in Attached
    /\ call' = [call EXCEPT ![c] = [op |-> "read", id |-> i, published |-> phase = "delivered"]]
    /\ UNCHANGED <<row, disk, view, made, left, crashes>>

\* ... and read afterwards.
ReadFile(c) ==
    /\ In(c, "read")
    /\ Return(c)
    /\ UNCHANGED <<row, disk, view, made, left, crashes>>

-----------------------------------------------------------------------------
(* Editing.  A call that is refused changes nothing that is stored.        *)

\* Variant: any revision will do.
MutableAtAnyRevision(c) == phase = "open" /\ view[c] # None

\* Variant: the plan and the end of the request are not looked at.
MutableForEver(c) == view[c] # None /\ view[c].revision = revision

\* ensure_attachment_mutable, and the checks save_draft makes: the request is
\* open, no plan froze it, and the caller saw the latest revision.
Mutable(c) ==
    /\ phase = "open"
    /\ view[c] # None /\ view[c].revision = revision

\* Variant: an edit of the attachments leaves the draft row alone.
AdvanceRequestOnly(body) ==
    /\ revision < MaxRevision
    /\ revision' = revision + 1
    /\ draft' = IF body = StoredBody THEN draft
                ELSE [body |-> body, revision |-> revision + 1]
    /\ UNCHANGED phase

\* Every edit advances the revision of the request and of its draft row, which
\* the first one inserts.
Advance(body) ==
    /\ revision < MaxRevision
    /\ revision' = revision + 1
    /\ draft' = [body |-> body, revision |-> revision + 1]
    /\ UNCHANGED phase

\* save_draft; the client takes over the text and the revision.
SaveDraft(c, body) ==
    /\ Idle(c) /\ Mutable(c)
    /\ Advance(body)
    /\ view' = [view EXCEPT ![c].body = body, ![c].revision = revision + 1]
    /\ UNCHANGED <<position, disk, call, made, left, crashes>>

\* A save at another revision whose text is already stored counts as the
\* repetition of a save whose answer was lost.
ReplaySave(c) ==
    /\ Idle(c) /\ phase = "open"
    /\ view[c] # None /\ view[c].revision # revision
    /\ draft # None
    /\ view' = [view EXCEPT ![c].body = draft.body, ![c].revision = draft.revision,
                            ![c].replayed = TRUE]
    /\ UNCHANGED <<row, disk, call, made, left, crashes>>

\* add_attachment: the file comes first, before anything is checked.
WriteFile(c) ==
    /\ Idle(c) /\ view[c] # None
    /\ made < MaxIds
    /\ made' = made + 1
    /\ disk' = disk \cup {made + 1}
    /\ call' = [call EXCEPT ![c] = [op |-> "insert", id |-> made + 1]]
    /\ UNCHANGED <<row, view, left, crashes>>

\* Variant: a gap is left after the last position.
NextPositionApart ==
    IF Attached = {} THEN 0
    ELSE 2 + CHOOSE p \in Positions :
        p \in {position[i] : i \in Attached} /\ \A i \in Attached : position[i] <= p

NextPosition ==
    IF Attached = {} THEN 0
    ELSE 1 + CHOOSE p \in Positions :
        p \in {position[i] : i \in Attached} /\ \A i \in Attached : position[i] <= p

\* The row, behind the last one.
InsertRow(c) ==
    /\ In(c, "insert") /\ Mutable(c)
    /\ Cardinality(Attached) < MaxAttachments
    /\ position' = [i \in Attached \cup {call[c].id} |->
                       IF i \in Attached THEN position[i] ELSE NextPosition]
    /\ Advance(StoredBody)
    /\ Load(c)
    /\ UNCHANGED <<disk, view, made, left, crashes>>

\* Variant: the file of a refused attachment stays.
RefuseAddUntidily(c) ==
    /\ In(c, "insert")
    /\ Return(c)
    /\ UNCHANGED <<row, disk, view, made, left, crashes>>

\* The row is refused or cannot be written: the file is removed, and an error
\* of that is ignored.
RefuseAdd(c) ==
    /\ In(c, "insert")
    /\ \/ disk' = disk \ {call[c].id} /\ UNCHANGED left
       \/ left' = left \cup {call[c].id} /\ UNCHANGED disk
    /\ Return(c)
    /\ UNCHANGED <<row, view, made, crashes>>

RemoveRow(c, i) ==
    /\ Idle(c) /\ Mutable(c) /\ i \in Attached
    /\ position' = [k \in Attached \ {i} |-> position[k]]
    /\ Advance(StoredBody)
    /\ call' = [call EXCEPT ![c] = [op |-> "unlink", id |-> i]]
    /\ UNCHANGED <<disk, view, made, left, crashes>>

\* The file goes after the commit; an error is ignored.
Unlink(c) ==
    /\ In(c, "unlink")
    /\ \/ disk' = disk \ {call[c].id} /\ UNCHANGED left
       \/ left' = left \cup {call[c].id} /\ UNCHANGED disk
    /\ Load(c)
    /\ UNCHANGED <<row, view, made, crashes>>

\* The attachments in some order, numbered from 0.
Orders == {o \in [Attached -> 0..(Cardinality(Attached) - 1)] :
              \A i, k \in Attached : o[i] = o[k] => i = k}
InOrder(o) == \A i, k \in Attached : position[i] < position[k] <=> o[i] < o[k]

\* Every position is first moved by Offset, one row after the other, under a
\* UNIQUE constraint: the statement fails where two positions are that apart.
ShiftCollides == \E i, k \in Attached : position[k] = position[i] + Offset

\* reorder_attachments: the ids of all rows, each once, in another order; the
\* same order commits nothing and closes no gap.
Reorder(c, order) ==
    /\ Idle(c) /\ Mutable(c)
    /\ ~ShiftCollides \/ InOrder(order)
    /\ IF InOrder(order) THEN UNCHANGED row
       ELSE position' = order /\ Advance(StoredBody)
    /\ Load(c)
    /\ UNCHANGED <<disk, view, made, left, crashes>>

-----------------------------------------------------------------------------
(* What ends the editing (see FeedbackPublication).                        *)

\* A plan is stored: the draft is frozen.
Plan ==
    /\ phase = "open"
    /\ phase' = "planned"
    /\ UNCHANGED <<revision, draft, position, disk, view, call, made, left, crashes>>

\* The request is approved, or cancelled by its agent, with its rows as they are.
End ==
    /\ phase \in {"open", "planned"}
    /\ phase' = "ended"
    /\ UNCHANGED <<revision, draft, position, disk, view, call, made, left, crashes>>

\* The package is published; the rows point into it from now on.
Deliver ==
    /\ phase = "planned"
    /\ phase' = "delivered"
    /\ UNCHANGED <<revision, draft, position, disk, view, call, made, left, crashes>>

\* The draft directory of a delivered request is removed.
CleanupDrafts ==
    /\ phase = "delivered"
    /\ disk' = {} /\ left' = {}
    /\ UNCHANGED <<row, view, call, made, crashes>>

\* The process dies: views and calls are gone, files stay where they are.
Crash ==
    /\ crashes < MaxCrashes
    /\ crashes' = crashes + 1
    /\ left' = left \cup {i \in disk : \E c \in Clients :
                            (In(c, "insert") \/ In(c, "unlink")) /\ call[c].id = i}
    /\ view' = [c \in Clients |-> None]
    /\ call' = [c \in Clients |-> None]
    /\ UNCHANGED <<row, disk, made>>

ReadStep(c) ==
    \/ OpenWorkspace(c) \/ LoadDraft(c) \/ LoadAttachments(c) \/ FailLoad(c)
    \/ \E i \in Ids : ResolvePath(c, i)
    \/ ReadFile(c)

EditStep(c) ==
    \/ \E body \in Bodies : SaveDraft(c, body)
    \/ ReplaySave(c)
    \/ WriteFile(c) \/ InsertRow(c) \/ RefuseAdd(c)
    \/ \E i \in Ids : RemoveRow(c, i)
    \/ Unlink(c)
    \/ \E order \in Orders : Reorder(c, order)

Next ==
    \/ \E c \in Clients : ReadStep(c) \/ EditStep(c)
    \/ Plan \/ End \/ Deliver \/ CleanupDrafts
    \/ Crash

Spec == Init /\ [][Next]_vars

-----------------------------------------------------------------------------
(* Correctness.                                                            *)

\* The values of the variables; the draft row carries the revision of its
\* request, which is what a client sends with its next edit, and no race of
\* additions exceeds the limit.
TypeOK ==
    /\ phase \in {"open", "planned", "ended", "delivered"}
    /\ revision \in 0..MaxRevision
    /\ draft \in [body: Bodies, revision: 0..MaxRevision] \cup {None}
    /\ StoredRevision = revision
    /\ Attached \subseteq Ids
    /\ position \in [Attached -> Positions]
    /\ Cardinality(Attached) <= MaxAttachments
    /\ disk \subseteq Ids /\ left \subseteq Ids
    /\ view \in [Clients -> Views \cup {None}]
    /\ call \in [Clients -> Calls \cup {None}]
    /\ made \in 0..MaxIds
    /\ crashes \in 0..MaxCrashes

\* A client whose next edit would be accepted shows what is stored: the text,
\* and the attachments too unless it got its revision by repeating a save.  A
\* load that other edits cut in two, or one that is stale, is refused later.
ViewsAreWhole ==
    \A c \in Clients :
        view[c] # None /\ view[c].revision = revision =>
            /\ view[c].body = StoredBody
            /\ ~view[c].replayed => view[c].attachments = position

\* No text is overwritten by a client that did not show it: the one whose save
\* changes the stored text had that text in its view.
NoBlindOverwrite ==
    [][StoredBody' # StoredBody =>
         \E c \in Clients : /\ view[c] # None /\ view[c].body = StoredBody
                            /\ view'[c] # view[c] /\ view'[c].body = StoredBody']_vars

\* The rows of a request that is not delivered have their files, every file has
\* a row, a call that is about to make or remove one, or an accident; and a
\* reader that was given a draft path finds the file, unless the attachment was
\* removed or published since.
FilesMatchRows ==
    /\ phase # "delivered" => Attached \subseteq disk
    /\ \A i \in disk \ left :
          \/ i \in Attached
          \/ \E c \in Clients : (In(c, "insert") \/ In(c, "unlink")) /\ call[c].id = i
    /\ \A c \in Clients :
          In(c, "read") /\ ~call[c].published =>
              call[c].id \in disk \/ call[c].id \notin Attached \/ phase = "delivered"

\* No two attachments share a position, and the shift a reordering starts with
\* cannot run into another row before the request has seen Offset edits,
\* however many rows were added and removed.
ReorderingIsSafe ==
    /\ \A i, k \in Attached : position[i] = position[k] => i = k
    /\ ShiftCollides => revision > Offset

-----------------------------------------------------------------------------
(* DraftWorkspace implements SharedDraft: a client shows the present draft *)
(* while it names the stored revision.                                     *)

Lists == UNION {[S -> Positions] : S \in SUBSET Ids}
Presents(c) == view[c] # None /\ view[c].revision = revision

Showing(c) ==
    IF ~Presents(c) THEN None
    ELSE [text |-> view[c].body,
          attachments |-> IF view[c].replayed THEN None ELSE view[c].attachments]

Shared == INSTANCE SharedDraft WITH
    NoList <- [i \in {} |-> 0],
    text <- StoredBody,
    attachments <- position,
    frozen <- phase # "open",
    shown <- [c \in Clients |-> Showing(c)]

ASSUME NothingShownAssumption ==
    None \notin [text: Bodies, attachments: Lists \cup {None}]

\* Revisions, loads in two queries and files that come before and after their
\* rows are invisible: every step is one of the shared draft, or none. So an
\* edit replaces nothing its client did not show, save attachments it knows it
\* does not know, and a draft that is frozen stays.
ImplementsSharedDraft == Shared!Spec
=============================================================================
