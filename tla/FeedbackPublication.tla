------------------------ MODULE FeedbackPublication ------------------------
(***************************************************************************)
(* How a feedback request ends: the calls that submit, cancel or approve   *)
(* it (rambledesk-core), the SQLite rows they read and write and the       *)
(* package directory they publish (rambledesk-storage), running            *)
(* concurrently, failing half-way, being dropped with their HTTP           *)
(* connection, and being recovered when the store is opened again.         *)
(*                                                                         *)
(* A call is a sequence of steps, one per await at which another call, a   *)
(* crash or a drop can come in between; a SQLite transaction is one step.  *)
(***************************************************************************)
EXTENDS Integers, FiniteSets

CONSTANTS
    Requests,      \* feedback requests
    Finishable,    \* requests with allow_finish = 1 and a final summary
    Calls,         \* calls of the application; each is made at most once
    Boot,          \* the opening of the store, which recovers like a call
    Texts,         \* Markdown bodies
    Blank,         \* the body that is empty after trim
    Cookings,      \* the cooked inputs a submission may carry
    Reasons,       \* cancellation reasons
    None,          \* NULL, or "not there"
    Partial,       \* a directory whose files are not all written
    MaxRevision,   \* bound on the edits of a draft
    MaxCrashes     \* bound on the crashes

Callers == Calls \cup {Boot}

\* Every call makes its own publication id; the archive of a legacy
\* cancellation uses "legacy-cancel-<request>", hence the request itself.
Publications == Calls \cup Requests

ASSUME FinishableAssumption == Finishable \subseteq Requests
ASSUME CallersAssumption == Boot \notin Calls /\ Calls \cap Requests = {}
ASSUME TextsAssumption == Blank \in Texts
ASSUME CookingsAssumption ==
    Cookings \subseteq [text: Texts, uncooked: Texts \cup {None}]
ASSUME NoneAssumption ==
    None \notin Texts \cup Reasons \cup Cookings \cup Callers \cup Publications
ASSUME BoundsAssumption == MaxRevision \in Nat /\ MaxCrashes \in Nat

VARIABLES
    row,           \* feedback_requests: status, revision, resolution, reason
    draft,         \* drafts: body and revision, or None
    plan,          \* submission_plans, or None
    result,        \* feedback_results: the publication of the package, or None
    draftFiles,    \* draftFiles[r]: the attachment files of r are on disk
    temp,          \* temp[p]: the temporary directory of publication p
    package,       \* package[p]: the final directory of publication p
    durable,       \* publications whose parent directory was synced
    probes,        \* publications whose .write-probe file is on disk
    detached,      \* publications with a rename queued by a dropped call
    publishLock,   \* the caller that holds publish_lock, or None
    pc,            \* where a caller is
    op,            \* what a caller was asked to do
    held,          \* the SubmissionPlan a caller holds, or None
    answer,        \* what a call answered
    notified,      \* notified[r]: the waiters of r were released
    phase,         \* how far the opening of the store is, or if it was refused
    todo,          \* requests it still has to recover or archive
    fault,         \* an I/O error or a drop happened since the last start
    crashes

database == <<row, draft, plan, result>>
disk == <<draftFiles, temp, package, durable, probes, detached>>
calls == <<pc, op, held, answer>>
start == <<phase, todo, crashes>>
vars == <<database, disk, publishLock, calls, notified, start, fault>>

-----------------------------------------------------------------------------
(* The values the variables take.                                          *)

Statuses == {"waiting", "in_progress", "completed", "cancelled"}
Resolutions == {"feedback_submitted", "approved", "cancelled"}
PlanResolutions == {"feedback_submitted", "cancelled"}

Rows == [status: Statuses, revision: Nat, resolution: Resolutions \cup {None},
         reason: Reasons \cup {None}]
Drafts == [body: Texts, revision: Nat]

\* What is published: feedback.md, uncooked.md and manifest.json.
Contents == [request: Requests, revision: Nat, text: Texts \cup Reasons,
             uncooked: Texts, resolution: PlanResolutions,
             reason: Reasons \cup {None}]

\* digest is body_sha256: the hash of the draft, or of the rendered reason.
PlanRows == [publication: Publications, revision: Nat, digest: Texts \cup Reasons,
             cooking: Cookings \cup {None}, resolution: PlanResolutions,
             reason: Reasons \cup {None}, state: {"preparing", "published"}]

HeldPlans == [publication: Publications, digest: Texts \cup Reasons,
              content: Contents]

Ops == [kind: {"submit", "cancel", "approve"}, request: Requests, revision: Nat,
        cooking: Cookings \cup {None}, reason: Reasons \cup {None}]

\* The steps at which a call holds publish_lock, and the others it goes through.
Publishing == {"check", "stage", "write", "rename", "sync"}
Running == {"read", "preflight", "probe", "unprobe", "plan", "reread", "lock",
            "complete", "cleanup", "notify"} \cup Publishing
Answers == {"none", "ok", "terminal", "conflict", "empty", "failed", "dropped"}

\* NULL is none of the values a column, a struct or a directory may hold.
ASSUME NoRecordAssumption ==
    /\ None \notin Resolutions \cup Drafts \cup PlanRows \cup Contents
    /\ None \notin HeldPlans \cup Ops
    /\ Partial \notin Contents \cup {None}

Terminal(r) == row[r].status \in {"completed", "cancelled"}

Init ==
    /\ \E legacy \in SUBSET Requests, why \in [Requests -> Reasons] :
          row = [r \in Requests |->
                    IF r \in legacy
                    THEN [status |-> "cancelled", revision |-> 1,
                          resolution |-> None, reason |-> why[r]]
                    ELSE [status |-> "waiting", revision |-> 0,
                          resolution |-> None, reason |-> None]]
    /\ draft = [r \in Requests |-> None]
    /\ plan = [r \in Requests |-> None]
    /\ result = [r \in Requests |-> None]
    /\ draftFiles = [r \in Requests |-> TRUE]
    /\ temp = [p \in Publications |-> None]
    /\ package = [p \in Publications |-> None]
    /\ durable = {} /\ probes = {} /\ detached = {}
    /\ publishLock = None
    /\ pc = [c \in Callers |-> "idle"]
    /\ op = [c \in Callers |-> None]
    /\ held = [c \in Callers |-> None]
    /\ answer = [c \in Callers |-> "none"]
    /\ notified = [r \in Requests |-> FALSE]
    /\ phase = "scan" /\ todo = {} /\ fault = FALSE /\ crashes = 0

-----------------------------------------------------------------------------
(* Helpers.                                                                *)

Publication(c) == IF c = Boot THEN op[Boot].request ELSE c

Body(r) == IF draft[r] = None THEN Blank ELSE draft[r].body

\* Variant: the cancellation package shows the draft instead of the reason.
ContentOfDraft(r, planned, body) ==
    LET cooking == planned.cooking IN
    [request |-> r, revision |-> planned.revision,
     text |-> IF cooking = None THEN body ELSE cooking.text,
     uncooked |-> IF cooking = None THEN body
                  ELSE IF cooking.uncooked = None THEN body ELSE cooking.uncooked,
     resolution |-> planned.resolution, reason |-> planned.reason]

\* The package a plan stands for: the cooked text if there is one, else the
\* draft; for a cancellation, the text that renders its reason.
Content(r, planned, body) ==
    LET cooking == planned.cooking IN
    [request |-> r, revision |-> planned.revision,
     text |-> IF planned.resolution = "cancelled" THEN planned.reason
              ELSE IF cooking = None THEN body ELSE cooking.text,
     uncooked |-> IF cooking = None THEN body
                  ELSE IF cooking.uncooked = None THEN body ELSE cooking.uncooked,
     resolution |-> planned.resolution, reason |-> planned.reason]

\* The SubmissionPlan rebuilt from a plan row and the draft it froze.
Hold(r, planned, body) == [publication |-> planned.publication,
                           digest |-> planned.digest,
                           content |-> Content(r, planned, body)]

Goto(c, step) == /\ pc' = [pc EXCEPT ![c] = step]
                 /\ UNCHANGED <<op, held, answer>>

\* Variant: a recovery that ended is not followed by the next one.
EndWithoutNext(c, result_) ==
    /\ pc' = [pc EXCEPT ![c] = "done"]
    /\ answer' = [answer EXCEPT ![c] = IF c = Boot THEN @ ELSE result_]
    /\ held' = [held EXCEPT ![c] = None]
    /\ UNCHANGED op

\* A call answers; a recovery or an archive goes on with the next request, after
\* an error once it is recorded.
End(c, result_) ==
    /\ pc' = [pc EXCEPT ![c] = IF c # Boot THEN "done"
                               ELSE IF result_ = "ok" THEN "idle" ELSE "record"]
    /\ answer' = [answer EXCEPT ![c] = IF c = Boot THEN @ ELSE result_]
    /\ held' = [held EXCEPT ![c] = None]
    /\ UNCHANGED op

Release(r) == notified' = [notified EXCEPT ![r] = TRUE]

-----------------------------------------------------------------------------
(* The person edits: one transaction each, refused once a plan exists.     *)

\* Variants: the edit forgets the plan, or the end of the request.
EditableWhilePlanned(r) == phase = "up" /\ ~Terminal(r) /\ row[r].revision < MaxRevision
EditableAfterEnd(r) == phase = "up" /\ plan[r] = None /\ row[r].revision < MaxRevision

Editable(r) == /\ phase = "up"
               /\ ~Terminal(r)
               /\ plan[r] = None
               /\ row[r].revision < MaxRevision

\* Variant: the draft keeps the revision the request had.
EditDraftBehind(r, body) ==
    LET next == row[r].revision + 1 IN
    /\ Editable(r)
    /\ row' = [row EXCEPT ![r].status = "in_progress", ![r].revision = next]
    /\ draft' = [draft EXCEPT ![r] = [body |-> body, revision |-> row[r].revision]]
    /\ UNCHANGED <<plan, result, disk, publishLock, calls, notified, start, fault>>

Edit(r, body) ==
    LET next == row[r].revision + 1 IN
    /\ Editable(r)
    /\ row' = [row EXCEPT ![r].status = "in_progress", ![r].revision = next]
    /\ draft' = [draft EXCEPT ![r] = [body |-> body, revision |-> next]]
    /\ UNCHANGED <<plan, result, disk, publishLock, calls, notified, start, fault>>

SaveDraft(r) == \E body \in Texts : Edit(r, body)

\* Variant: the first attachment creates a draft with a NULL body.
ChangeAttachmentsNoBody(r) == Edit(r, IF draft[r] = None THEN None ELSE draft[r].body)

\* Adding, removing or reordering attachments advances the revision of the
\* draft as well, and creates a blank draft where there is none.
ChangeAttachments(r) == Edit(r, Body(r))

-----------------------------------------------------------------------------
(* A call starts.                                                          *)

Submissions == [kind: {"submit"}, request: Requests, revision: 0..MaxRevision,
                cooking: Cookings \cup {None}, reason: {None}]
Cancellations == [kind: {"cancel"}, request: Requests, revision: {0},
                  cooking: {None}, reason: Reasons]

Begin(c, request) ==
    /\ phase = "up"
    /\ pc[c] = "idle"
    /\ op' = [op EXCEPT ![c] = request]
    /\ pc' = [pc EXCEPT ![c] = "read"]
    /\ UNCHANGED <<held, answer, database, disk, publishLock, notified, start, fault>>

SubmitFeedback(c) == \E request \in Submissions : Begin(c, request)
CancelFeedback(c) == \E request \in Cancellations : Begin(c, request)

\* approve_request: one UPDATE guarded by the status, whatever plan exists,
\* then a read of the row, then the notification.
ApproveFeedback(c) ==
    \E r \in Requests :
        /\ phase = "up"
        /\ pc[c] = "idle"
        /\ op' = [op EXCEPT ![c] = [kind |-> "approve", request |-> r, revision |-> 0,
                                    cooking |-> None, reason |-> None]]
        /\ IF ~Terminal(r) /\ r \in Finishable
           THEN /\ row' = [row EXCEPT ![r].status = "completed",
                                      ![r].resolution = "approved",
                                      ![r].revision = @ + 1]
                /\ pc' = [pc EXCEPT ![c] = "notify"]
                /\ UNCHANGED answer
           ELSE /\ IF row[r].resolution = "approved"
                   THEN /\ pc' = [pc EXCEPT ![c] = "notify"]
                        /\ UNCHANGED answer
                   ELSE /\ pc' = [pc EXCEPT ![c] = "done"]
                        /\ answer' = [answer EXCEPT ![c] = "terminal"]
                /\ UNCHANGED row
        /\ UNCHANGED <<held, draft, plan, result, disk, publishLock, notified, start, fault>>

-----------------------------------------------------------------------------
(* Reading, and planning.                                                  *)

\* get_request before any plan: a request that ended as asked is answered as
\* it is, and a cancel of a completed one is refused.
Read(c) ==
    LET r == op[c].request
        status == row[r].status
        ended == IF op[c].kind = "submit" THEN status = "completed"
                 ELSE status = "cancelled" /\ result[r] # None
    IN
    /\ pc[c] = "read"
    /\ \/ ended /\ Release(r) /\ End(c, "ok")
       \/ /\ op[c].kind = "cancel" /\ status = "completed"
          /\ End(c, "terminal") /\ UNCHANGED notified
       \/ /\ ~ended /\ ~(op[c].kind = "cancel" /\ status = "completed")
          /\ Goto(c, "preflight") /\ UNCHANGED notified
    /\ UNCHANGED <<database, disk, publishLock, start, fault>>

\* RequestTerminal from plan_submission makes submit read the request again.
RefuseTerminal(c) ==
    IF op[c].kind = "submit" /\ c # Boot THEN Goto(c, "reread") ELSE End(c, "terminal")

Preflight(c) ==
    LET r == op[c].request
        refused == IF op[c].kind = "submit" THEN Terminal(r)
                   ELSE \/ row[r].status = "completed"
                        \/ row[r].status = "cancelled" /\ result[r] # None
    IN
    /\ pc[c] = "preflight"
    /\ \/ refused /\ RefuseTerminal(c)
       \/ ~refused /\ plan[r] # None /\ Goto(c, "plan")
       \/ ~refused /\ plan[r] = None /\ Goto(c, "probe")
    /\ UNCHANGED <<database, disk, publishLock, notified, start, fault>>

\* verify_writable: create_new of the probe file, which fails where one was
\* left behind; then its removal.
Probe(c) ==
    /\ pc[c] = "probe"
    /\ \/ /\ Publication(c) \notin probes
          /\ probes' = probes \cup {Publication(c)}
          /\ Goto(c, "unprobe")
       \/ /\ Publication(c) \in probes
          /\ End(c, "failed")
          /\ UNCHANGED probes
    /\ UNCHANGED <<database, draftFiles, temp, package, durable, detached,
                   publishLock, notified, start, fault>>

Unprobe(c) ==
    /\ pc[c] = "unprobe"
    /\ probes' = probes \ {Publication(c)}
    /\ Goto(c, "plan")
    /\ UNCHANGED <<database, draftFiles, temp, package, durable, detached,
                   publishLock, notified, start, fault>>

\* Variant: any terminal status answers the submission.
RereadAnyEnd(c) ==
    LET r == op[c].request IN
    /\ pc[c] = "reread"
    /\ IF Terminal(r)
       THEN Release(r) /\ End(c, "ok")
       ELSE End(c, "terminal") /\ UNCHANGED notified
    /\ UNCHANGED <<database, disk, publishLock, start, fault>>

Reread(c) ==
    LET r == op[c].request IN
    /\ pc[c] = "reread"
    /\ IF row[r].status = "completed"
       THEN Release(r) /\ End(c, "ok")
       ELSE End(c, "terminal") /\ UNCHANGED notified
    /\ UNCHANGED <<database, disk, publishLock, start, fault>>

\* Variant: a caller that finds a plan publishes it under its own id.
AdoptAsOwn(c, plan_) ==
    /\ held' = [held EXCEPT ![c] = [plan_ EXCEPT !.publication = Publication(c)]]
    /\ pc' = [pc EXCEPT ![c] = "lock"]
    /\ UNCHANGED <<op, answer>>

\* The caller goes on to publish what it holds.
Adopt(c, plan_) == /\ held' = [held EXCEPT ![c] = plan_]
                   /\ pc' = [pc EXCEPT ![c] = "lock"]
                   /\ UNCHANGED <<op, answer>>

\* The transaction of plan_submission: the plan that exists if it is for the
\* same input, or a new one that freezes the draft.
PlanSubmission(c) ==
    LET r == op[c].request
        new == [publication |-> Publication(c), revision |-> row[r].revision,
                digest |-> Body(r), cooking |-> op[c].cooking,
                resolution |-> "feedback_submitted", reason |-> None,
                state |-> "preparing"]
    IN
    /\ pc[c] = "plan" /\ op[c].kind = "submit"
    /\ \/ Terminal(r) /\ RefuseTerminal(c) /\ UNCHANGED plan
       \/ ~Terminal(r) /\ Body(r) = Blank /\ End(c, "empty") /\ UNCHANGED plan
       \/ /\ ~Terminal(r) /\ Body(r) # Blank /\ plan[r] # None
          /\ \/ /\ plan[r].resolution # "feedback_submitted"
                /\ RefuseTerminal(c)
             \/ /\ plan[r].resolution = "feedback_submitted"
                /\ IF /\ plan[r].revision = op[c].revision
                      /\ plan[r].digest = Body(r)
                      /\ plan[r].cooking = op[c].cooking
                   THEN Adopt(c, Hold(r, plan[r], Body(r)))
                   ELSE End(c, "conflict")
          /\ UNCHANGED plan
       \/ /\ ~Terminal(r) /\ Body(r) # Blank /\ plan[r] = None
          /\ IF row[r].revision = op[c].revision /\ draft[r].revision = row[r].revision
             THEN /\ plan' = [plan EXCEPT ![r] = new]
                  /\ Adopt(c, Hold(r, new, Body(r)))
             ELSE End(c, "conflict") /\ UNCHANGED plan
    /\ UNCHANGED <<row, draft, result, disk, publishLock, notified, start, fault>>

\* Variant: the reason of the call even where the request was cancelled before.
CallersReason(c) == op[c].reason

\* A request that is already cancelled keeps the reason it was cancelled for.
CancelReason(c) ==
    LET r == op[c].request IN
    IF row[r].status = "cancelled" THEN row[r].reason ELSE op[c].reason

\* The transaction of plan_cancellation.  A request nobody worked on gets a
\* blank draft at revision 1, a legacy cancelled one a blank draft at its
\* revision.
PlanCancellation(c) ==
    LET r == op[c].request
        status == row[r].status
        reason == CancelReason(c)
        fresh == row[r].revision = 0
        source == IF fresh THEN 1 ELSE row[r].revision
        opened == IF fresh THEN [row[r] EXCEPT !.status = "in_progress", !.revision = 1]
                  ELSE row[r]
        drafted == IF fresh \/ (status = "cancelled" /\ draft[r] = None)
                   THEN [body |-> Blank, revision |-> source] ELSE draft[r]
        new == [publication |-> Publication(c), revision |-> source,
                digest |-> reason, cooking |-> None, resolution |-> "cancelled",
                reason |-> reason, state |-> "preparing"]
    IN
    /\ pc[c] = "plan" /\ op[c].kind = "cancel"
    /\ \/ /\ status = "completed"
          /\ End(c, "terminal")
          /\ UNCHANGED <<row, draft, plan>>
       \/ /\ status # "completed" /\ plan[r] # None
          /\ IF plan[r].resolution = "cancelled" /\ plan[r].reason = reason
             THEN Adopt(c, Hold(r, plan[r], Body(r)))
             ELSE End(c, "terminal")
          /\ UNCHANGED <<row, draft, plan>>
       \/ /\ status # "completed" /\ plan[r] = None
          /\ IF fresh /\ status # "waiting"
             THEN End(c, "conflict") /\ UNCHANGED <<row, draft, plan>>
             ELSE IF drafted = None
             THEN End(c, "failed") /\ UNCHANGED <<row, draft, plan>>
             ELSE IF drafted.revision # source
             THEN End(c, "conflict") /\ UNCHANGED <<row, draft, plan>>
             ELSE /\ row' = [row EXCEPT ![r] = opened]
                  /\ draft' = [draft EXCEPT ![r] = drafted]
                  /\ plan' = [plan EXCEPT ![r] = new]
                  /\ Adopt(c, Hold(r, new, drafted.body))
    /\ UNCHANGED <<result, disk, publishLock, notified, start, fault>>

-----------------------------------------------------------------------------
(* Publishing the package a caller holds, under publish_lock.              *)

Lock(c) == /\ pc[c] = "lock"
           /\ publishLock = None
           /\ publishLock' = c
           /\ Goto(c, "check")
           /\ UNCHANGED <<database, disk, notified, start, fault>>

\* Variant: the lock is not released on this path.
AcceptExistingLocked(c) ==
    LET p == held[c].publication IN
    /\ UNCHANGED publishLock
    /\ IF package[p] = held[c].content
       THEN durable' = durable \cup {p} /\ Goto(c, "complete")
       ELSE UNCHANGED durable /\ End(c, "failed")

\* The package exists: it must be the very one the plan stands for, and its
\* parent directory is synced (again).
AcceptExisting(c) ==
    LET p == held[c].publication IN
    /\ publishLock' = None
    /\ IF package[p] = held[c].content
       THEN durable' = durable \cup {p} /\ Goto(c, "complete")
       ELSE UNCHANGED durable /\ End(c, "failed")

Check(c) ==
    /\ pc[c] = "check"
    /\ IF package[held[c].publication] # None
       THEN AcceptExisting(c)
       ELSE Goto(c, "stage") /\ UNCHANGED <<publishLock, durable>>
    /\ UNCHANGED <<database, draftFiles, temp, package, probes, detached,
                   notified, start, fault>>

\* Variant: a leftover temporary directory is not removed, and is in the way.
StageOverLeftover(c) ==
    /\ pc[c] = "stage"
    /\ IF temp[held[c].publication] = None
       THEN /\ temp' = [temp EXCEPT ![held[c].publication] = Partial]
            /\ Goto(c, "write")
            /\ UNCHANGED publishLock
       ELSE publishLock' = None /\ End(c, "failed") /\ UNCHANGED temp
    /\ UNCHANGED <<database, draftFiles, package, durable, probes, detached,
                   notified, start, fault>>

\* A leftover temporary directory is removed and a new one created.
Stage(c) ==
    /\ pc[c] = "stage"
    /\ temp' = [temp EXCEPT ![held[c].publication] = Partial]
    /\ Goto(c, "write")
    /\ UNCHANGED <<database, draftFiles, package, durable, probes, detached,
                   publishLock, notified, start, fault>>

\* The error path of publish_package: the temporary directory is removed, and
\* a final directory that exists after all is accepted.
Rescue(c) ==
    LET p == held[c].publication IN
    /\ temp' = [temp EXCEPT ![p] = None]
    /\ IF package[p] # None
       THEN AcceptExisting(c)
       ELSE publishLock' = None /\ UNCHANGED durable /\ End(c, "failed")

\* The attachments are read from the draft files and copied, the three
\* documents written, everything synced.
Write(c) ==
    LET p == held[c].publication IN
    /\ pc[c] = "write"
    /\ IF temp[p] # None /\ draftFiles[held[c].content.request]
       THEN /\ temp' = [temp EXCEPT ![p] = held[c].content]
            /\ Goto(c, "rename")
            /\ UNCHANGED <<publishLock, durable>>
       ELSE Rescue(c)
    /\ UNCHANGED <<database, draftFiles, package, probes, detached,
                   notified, start, fault>>

\* rename(2): it needs the temporary directory and a free name.
Rename(c) ==
    LET p == held[c].publication IN
    /\ pc[c] = "rename"
    /\ IF temp[p] # None /\ package[p] = None
       THEN /\ package' = [package EXCEPT ![p] = temp[p]]
            /\ temp' = [temp EXCEPT ![p] = None]
            /\ Goto(c, "sync")
            /\ UNCHANGED <<publishLock, durable>>
       ELSE Rescue(c) /\ UNCHANGED package
    /\ UNCHANGED <<database, draftFiles, probes, detached, notified, start, fault>>

\* Variant: the parent directory is not synced.
SkipSyncParent(c) ==
    /\ pc[c] = "sync"
    /\ publishLock' = None
    /\ Goto(c, "complete")
    /\ UNCHANGED <<database, disk, notified, start, fault>>

SyncParent(c) ==
    /\ pc[c] = "sync"
    /\ durable' = durable \cup {held[c].publication}
    /\ publishLock' = None
    /\ Goto(c, "complete")
    /\ UNCHANGED <<database, draftFiles, temp, package, probes, detached,
                   notified, start, fault>>

-----------------------------------------------------------------------------
(* Ending the request.                                                     *)


\* The status a plan of this resolution ends its request with.
EndStatus(resolution) == IF resolution = "cancelled" THEN "cancelled" ELSE "completed"

\* The plan row is still the one the caller holds.
SamePlan(c) ==
    LET r == held[c].content.request IN
    /\ plan[r] # None
    /\ plan[r].publication = held[c].publication
    /\ plan[r].revision = held[c].content.revision
    /\ plan[r].digest = held[c].digest
    /\ plan[r].resolution = held[c].content.resolution
    /\ plan[r].reason = held[c].content.reason

\* The guard of the UPDATE that ends the request; a legacy cancelled request
\* is not updated.
Endable(c) ==
    LET r == held[c].content.request IN
    \/ row[r].status = "cancelled"
    \/ /\ row[r].revision = held[c].content.revision
       /\ \/ row[r].status = "in_progress"
          \/ row[r].status = "waiting" /\ held[c].content.resolution = "cancelled"

\* complete_terminal_package: one transaction that records the package and
\* ends the request, unless it has ended or is no longer what was planned.
Complete(c) ==
    LET r == held[c].content.request
        content == held[c].content
        status == row[r].status
        already == status = EndStatus(content.resolution) /\ result[r] # None
        otherwise == \/ status = "completed"
                     \/ status = "cancelled" /\ content.resolution # "cancelled"
    IN
    /\ pc[c] = "complete"
    /\ \/ /\ already
          /\ IF c = Boot THEN UNCHANGED notified ELSE Release(r)
          /\ End(c, "ok")
          /\ UNCHANGED <<row, plan, result>>
       \/ /\ ~already /\ otherwise
          /\ End(c, "terminal")
          /\ UNCHANGED <<row, plan, result, notified>>
       \/ /\ ~already /\ ~otherwise /\ ~(SamePlan(c) /\ Endable(c))
          /\ End(c, "conflict")
          /\ UNCHANGED <<row, plan, result, notified>>
       \/ /\ ~already /\ ~otherwise /\ SamePlan(c) /\ Endable(c)
          /\ result' = [result EXCEPT ![r] = held[c].publication]
          /\ plan' = [plan EXCEPT ![r].state = "published"]
          /\ row' = [row EXCEPT ![r] =
                IF status = "cancelled" THEN @
                ELSE [status |-> EndStatus(content.resolution), revision |-> @.revision + 1,
                      resolution |-> content.resolution, reason |-> content.reason]]
          /\ Goto(c, "cleanup")
          /\ UNCHANGED notified
    /\ UNCHANGED <<draft, disk, publishLock, start, fault>>

\* Variant: the draft files may go before the commit.
CleanupEarly(c) ==
    /\ pc[c] \in {"complete", "cleanup"}
    /\ draftFiles' = [draftFiles EXCEPT ![held[c].content.request] = FALSE]
    /\ IF pc[c] = "complete" THEN UNCHANGED calls
       ELSE IF c = Boot THEN End(c, "ok") ELSE Goto(c, "notify")
    /\ UNCHANGED <<database, temp, package, durable, probes, detached,
                   publishLock, notified, start, fault>>

\* The draft files go after the commit, and errors are ignored.
Cleanup(c) ==
    /\ pc[c] = "cleanup"
    /\ \E left \in {FALSE, draftFiles[held[c].content.request]} :
          draftFiles' = [draftFiles EXCEPT ![held[c].content.request] = left]
    /\ IF c = Boot THEN End(c, "ok") ELSE Goto(c, "notify")
    /\ UNCHANGED <<database, temp, package, durable, probes, detached,
                   publishLock, notified, start, fault>>

NotifyTerminal(c) ==
    /\ pc[c] = "notify"
    /\ Release(op[c].request)
    /\ End(c, "ok")
    /\ UNCHANGED <<database, disk, publishLock, start, fault>>

-----------------------------------------------------------------------------
(* What can go wrong: an I/O or database error, a dropped call, a crash.   *)

Unlock(c) == publishLock' = IF publishLock = c THEN None ELSE publishLock

\* A database error rolls its transaction back; an approval whose row cannot
\* be read back has been committed and tells nobody.
FailDatabase(c) ==
    /\ \/ pc[c] \in {"read", "preflight", "plan", "reread", "complete"}
       \/ pc[c] = "notify" /\ op[c].kind = "approve"
    /\ End(c, "failed")
    /\ fault' = TRUE
    /\ UNCHANGED <<database, disk, publishLock, notified, start>>

\* The probe file may be left behind: it was created but not synced, or it
\* cannot be removed.
FailProbe(c) ==
    /\ pc[c] \in {"probe", "unprobe"}
    /\ \/ UNCHANGED probes
       \/ pc[c] = "probe" /\ probes' = probes \cup {Publication(c)}
    /\ End(c, "failed")
    /\ fault' = TRUE
    /\ UNCHANGED <<database, draftFiles, temp, package, durable, detached,
                   publishLock, notified, start>>

\* Variant: an error takes the final directory down as well.
FailPublishRemoving(c) ==
    /\ pc[c] \in Publishing
    /\ package' = [package EXCEPT ![held[c].publication] = None]
    /\ Unlock(c)
    /\ End(c, "failed")
    /\ fault' = TRUE
    /\ UNCHANGED <<database, draftFiles, temp, durable, probes, detached,
                   notified, start>>

\* An error while staging or syncing: the temporary directory is removed if
\* it can be, a package already renamed stays.
FailPublish(c) ==
    /\ pc[c] \in Publishing
    /\ \E left \in {None, temp[held[c].publication]} :
          temp' = [temp EXCEPT ![held[c].publication] = left]
    /\ Unlock(c)
    /\ End(c, "failed")
    /\ fault' = TRUE
    /\ UNCHANGED <<database, draftFiles, package, durable, probes, detached,
                   notified, start>>

\* The HTTP connection of a cancel or an approve closes: the handler is
\* dropped at an await.  A rename already handed to the blocking pool is not
\* cancelled with it.
DropCall(c) ==
    /\ c # Boot
    /\ pc[c] \in Running
    /\ op[c].kind \in {"cancel", "approve"}
    /\ \/ UNCHANGED detached
       \/ pc[c] = "rename" /\ detached' = detached \cup {held[c].publication}
    /\ Unlock(c)
    /\ End(c, "dropped")
    /\ fault' = TRUE
    /\ UNCHANGED <<database, draftFiles, temp, package, durable, probes,
                   notified, start>>

DetachedRename(p) ==
    /\ p \in detached
    /\ detached' = detached \ {p}
    /\ IF temp[p] # None /\ package[p] = None
       THEN /\ package' = [package EXCEPT ![p] = temp[p]]
            /\ temp' = [temp EXCEPT ![p] = None]
       ELSE UNCHANGED <<package, temp>>
    /\ UNCHANGED <<database, draftFiles, durable, probes, publishLock, calls,
                   notified, start, fault>>

\* The process dies and is started again.  Commits are kept (WAL with
\* synchronous = FULL); a rename whose parent was not synced may be undone.
Crash ==
    /\ crashes < MaxCrashes
    /\ crashes' = crashes + 1
    /\ \E undone \in SUBSET {p \in Publications \ durable : package[p] # None} :
          /\ package' = [p \in Publications |->
                            IF p \in undone THEN None ELSE package[p]]
          /\ temp' = [p \in Publications |->
                            IF p \in undone THEN package[p] ELSE temp[p]]
    /\ detached' = {}
    /\ publishLock' = None
    /\ pc' = [c \in Callers |-> IF c = Boot THEN "idle"
                                ELSE IF pc[c] = "idle" THEN "idle" ELSE "done"]
    /\ answer' = [c \in Callers |-> IF pc[c] \in Running /\ c # Boot
                                    THEN "dropped" ELSE answer[c]]
    /\ held' = [c \in Callers |-> None]
    /\ notified' = [r \in Requests |-> FALSE]
    /\ phase' = "scan" /\ todo' = {} /\ fault' = FALSE
    /\ UNCHANGED <<database, draftFiles, durable, probes, op>>

-----------------------------------------------------------------------------
(* Opening the store: every plan still preparing is replayed, then every   *)
(* legacy cancellation without a package is archived, one at a time.       *)

Preparing(r) == plan[r] # None /\ plan[r].state = "preparing"

Unarchived(r) == row[r].status = "cancelled" /\ result[r] = None /\ plan[r] = None

BootStays == UNCHANGED <<database, disk, publishLock, held, answer, notified,
                         crashes, fault>>

\* Variant: the replay knows only submissions.
ScanSubmissions ==
    /\ phase = "scan"
    /\ phase' = "recover"
    /\ todo' = {r \in Requests : Preparing(r) /\ plan[r].resolution = "feedback_submitted"}
    /\ UNCHANGED <<pc, op>>
    /\ BootStays

ScanPlans ==
    /\ phase = "scan"
    /\ phase' = "recover"
    /\ todo' = {r \in Requests : Preparing(r)}
    /\ UNCHANGED <<pc, op>>
    /\ BootStays

\* The stored plan is submitted or cancelled again from its preflight.
RecoverPlan(r) ==
    /\ phase = "recover" /\ pc[Boot] = "idle" /\ r \in todo
    /\ todo' = todo \ {r}
    /\ op' = [op EXCEPT ![Boot] =
          [kind |-> IF plan[r].resolution = "cancelled" THEN "cancel" ELSE "submit",
           request |-> r, revision |-> plan[r].revision,
           cooking |-> plan[r].cooking, reason |-> plan[r].reason]]
    /\ pc' = [pc EXCEPT ![Boot] = "preflight"]
    /\ UNCHANGED phase
    /\ BootStays

ScanLegacy ==
    /\ phase = "recover" /\ pc[Boot] = "idle" /\ todo = {}
    /\ phase' = "archive"
    /\ todo' = {r \in Requests : Unarchived(r)}
    /\ UNCHANGED <<pc, op>>
    /\ BootStays

ArchiveLegacy(r) ==
    /\ phase = "archive" /\ pc[Boot] = "idle" /\ r \in todo
    /\ todo' = todo \ {r}
    /\ op' = [op EXCEPT ![Boot] = [kind |-> "cancel", request |-> r, revision |-> 0,
                                   cooking |-> None, reason |-> row[r].reason]]
    /\ pc' = [pc EXCEPT ![Boot] = "preflight"]
    /\ UNCHANGED phase
    /\ BootStays

\* The last_error_code of a plan, which nothing reads.
RecordError ==
    /\ pc[Boot] = "record"
    /\ pc' = [pc EXCEPT ![Boot] = "idle"]
    /\ UNCHANGED <<op, phase, todo>>
    /\ BootStays

\* A database error in one of the two queries, in the one for the time of a
\* cancellation, or where an error is recorded: connect_with_library returns it
\* and the process ends.  Only the next one opens the store again.
RefuseOpening ==
    /\ \/ phase = "scan"
       \/ phase = "recover" /\ pc[Boot] = "idle" /\ todo = {}
       \/ phase = "archive" /\ pc[Boot] = "idle" /\ todo # {}
       \/ pc[Boot] = "record"
    /\ phase' = "refused" /\ todo' = {}
    /\ pc' = [pc EXCEPT ![Boot] = "idle"]
    /\ fault' = TRUE
    /\ UNCHANGED <<op, database, disk, publishLock, held, answer, notified, crashes>>

Opened ==
    /\ phase = "archive" /\ pc[Boot] = "idle" /\ todo = {}
    /\ phase' = "up"
    /\ UNCHANGED <<pc, op, todo>>
    /\ BootStays

-----------------------------------------------------------------------------
CallerStep(c) ==
    \/ Read(c) \/ Preflight(c) \/ Probe(c) \/ Unprobe(c) \/ Reread(c)
    \/ PlanSubmission(c) \/ PlanCancellation(c)
    \/ Lock(c) \/ Check(c) \/ Stage(c) \/ Write(c) \/ Rename(c) \/ SyncParent(c)
    \/ Complete(c) \/ Cleanup(c) \/ NotifyTerminal(c)

BootStep == \/ ScanPlans \/ ScanLegacy \/ RecordError \/ Opened
            \/ \E r \in Requests : RecoverPlan(r) \/ ArchiveLegacy(r)

FailureStep(c) == FailDatabase(c) \/ FailProbe(c) \/ FailPublish(c) \/ DropCall(c)

Next ==
    \/ \E r \in Requests : SaveDraft(r) \/ ChangeAttachments(r)
    \/ \E c \in Calls : SubmitFeedback(c) \/ CancelFeedback(c) \/ ApproveFeedback(c)
    \/ \E c \in Callers : CallerStep(c) \/ FailureStep(c)
    \/ \E p \in Publications : DetachedRename(p)
    \/ Crash
    \/ BootStep
    \/ RefuseOpening

Spec == Init /\ [][Next]_vars

\* The async runtime goes on with every call it was given, and the opening of
\* the store with its loops.  Nothing makes a person write, a call start, an
\* I/O error, a drop or a crash happen, or a queued rename be executed.
FairSpec == /\ Spec
            /\ \A c \in Callers : WF_vars(CallerStep(c))
            /\ WF_vars(BootStep)

-----------------------------------------------------------------------------
(* Correctness.                                                            *)

TypeOK ==
    /\ row \in [Requests -> Rows]
    /\ draft \in [Requests -> Drafts \cup {None}]
    /\ plan \in [Requests -> PlanRows \cup {None}]
    /\ result \in [Requests -> Publications \cup {None}]
    /\ draftFiles \in [Requests -> BOOLEAN]
    /\ temp \in [Publications -> Contents \cup {None, Partial}]
    /\ package \in [Publications -> Contents \cup {None, Partial}]
    /\ durable \subseteq Publications
    /\ probes \subseteq Publications
    /\ detached \subseteq Publications
    /\ publishLock \in Callers \cup {None}
    /\ pc \in [Callers -> {"idle", "record", "done"} \cup Running]
    /\ op \in [Callers -> Ops \cup {None}]
    /\ held \in [Callers -> HeldPlans \cup {None}]
    /\ answer \in [Callers -> Answers]
    /\ notified \in [Requests -> BOOLEAN]
    /\ phase \in {"scan", "recover", "archive", "up", "refused"}
    /\ todo \subseteq Requests
    /\ fault \in BOOLEAN
    /\ crashes \in 0..MaxCrashes

\* The draft and the row of r are as its plan found them, save the end.
Frozen(r) ==
    /\ draft[r] # None
    /\ draft[r].revision = plan[r].revision
    /\ plan[r].resolution = "feedback_submitted" => plan[r].digest = Body(r)
    /\ row[r].revision = plan[r].revision + (IF Terminal(r) /\ row[r].resolution # None
                                             THEN 1 ELSE 0)

\* Once a plan exists the draft it was made from does not move: its revision
\* is the plan's, its body the one the plan hashed, and the row has only moved
\* on by ending (save_draft and the attachment operations refuse a planned
\* request; a request is planned and approved at once when calls interleave).
DraftFrozen == \A r \in Requests : plan[r] # None => Frozen(r)

\* Whoever is publishing or completing, and however late it is, works on the
\* plan that is stored: concurrent submits and cancels of one request, and the
\* recovery after a crash, cannot publish two different things.
HeldIsStored ==
    \A c \in Callers : held[c] # None =>
        LET r == held[c].content.request IN
        plan[r] # None /\ held[c] = Hold(r, plan[r], Body(r))

\* A package directory that holds a package is the one its request's plan
\* names, and says what that plan stands for: there is never a second one.
OnlyPlannedPackages ==
    \A p \in Publications : package[p] \notin {None, Partial} =>
        LET r == package[p].request IN
        /\ plan[r] # None
        /\ plan[r].publication = p
        /\ package[p] = Content(r, plan[r], Body(r))

\* A result that was recorded points to the whole package of the published
\* plan, on disk beyond a power loss.
DeliveredIsPlanned ==
    \A r \in Requests : result[r] # None =>
        /\ plan[r] # None
        /\ plan[r].state = "published"
        /\ plan[r].publication = result[r]
        /\ package[result[r]] = Content(r, plan[r], Body(r))
        /\ result[r] \in durable

\* The attachment files of a draft go only when the package that copied them
\* was delivered: until then the plan can still be published again.
DraftFilesOutlivePlan ==
    \A r \in Requests : ~draftFiles[r] => result[r] # None

\* The outcome in the row is the outcome in the package: submitted feedback
\* was delivered as such, a cancellation with the reason in the row (or it is a
\* legacy one not yet archived), an approval without any package.
OutcomeHasPackage ==
    \A r \in Requests :
        /\ row[r].resolution = "feedback_submitted" =>
              result[r] # None /\ package[result[r]].resolution = "feedback_submitted"
        /\ row[r].status = "cancelled" =>
              \/ result[r] = None /\ row[r].resolution = None
              \/ /\ result[r] # None
                 /\ package[result[r]].resolution = "cancelled"
                 /\ package[result[r]].reason = row[r].reason
        /\ row[r].resolution = "approved" => result[r] = None

\* A durable package never changes and never goes (PROTOCOL.md: publication
\* of a feedback package must be immutable).
DurablePackageStays ==
    [][\A p \in Publications : p \in durable /\ package[p] # None =>
           p \in durable' /\ package'[p] = package[p]]_vars

\* What a call answers is what became of the request: a submit or cancel that
\* answers ok leaves it ended that way with its package recorded, save that a
\* submit which lost to an approval answers ok as well.
OkIsTheOutcome ==
    [][\A c \in Calls : answer[c] = "none" /\ answer'[c] = "ok" =>
           LET r == op[c].request IN
           CASE op[c].kind = "submit" ->
                    /\ row[r].status = "completed"
                    /\ result[r] # None \/ row[r].resolution = "approved"
             [] op[c].kind = "cancel" ->
                    row[r].status = "cancelled" /\ result[r] # None
             [] op[c].kind = "approve" -> row[r].resolution = "approved"]_vars

\* The request is ending, or has ended, in another way than the one asked for.
Overtaken(asked) ==
    LET r == asked.request IN
    CASE asked.kind = "submit" ->
             \/ row[r].status = "cancelled"
             \/ row[r].resolution = "approved"
             \/ plan[r] # None /\ plan[r].resolution = "cancelled"
      [] asked.kind = "cancel" ->
             \/ row[r].status = "completed"
             \/ result[r] # None
             \/ plan[r] # None /\ \/ plan[r].resolution = "feedback_submitted"
                                  \/ plan[r].reason # asked.reason
      [] OTHER -> row[r].resolution # "approved"

\* A submission of another draft than the one that is there, or of another
\* input than the one that was planned.
Outdated(asked) ==
    LET r == asked.request IN
    /\ asked.kind = "submit"
    /\ \/ row[r].revision # asked.revision
       \/ plan[r] # None /\ plan[r].cooking # asked.cooking

\* A refusal tells the truth, however the calls interleave: a submit or cancel
\* is "terminal" only where something else ends the request, a "conflict" only
\* where a submit is outdated (a cancel never is), "empty" only where nothing
\* was planned from the draft (submission_ops.rs).
RefusalsAreTrue ==
    [][\A c \in Calls : answer[c] = "none" =>
           LET asked == op'[c] IN
           CASE answer'[c] = "terminal" -> Overtaken(asked)
             [] answer'[c] = "conflict" -> Outdated(asked)
             [] answer'[c] = "empty" ->
                    /\ asked.kind = "submit" /\ Body(asked.request) = Blank
                    /\ plan[asked.request] # None =>
                           plan[asked.request].resolution = "cancelled"
             [] OTHER -> TRUE]_vars

\* Unless an I/O error or a drop happened since the start, a call fails only on
\* a package directory that was published half-written before: what other calls
\* or a crash left on the disk is no reason.
FailuresAreReal ==
    [][\A c \in Calls : answer[c] = "none" /\ answer'[c] = "failed" =>
           fault' \/ package[held[c].publication] = Partial]_vars

\* Whoever has publish_lock is publishing: no path, error, drop or crash ends a
\* call and keeps the lock.
LockIsReleased == publishLock # None => pc[publishLock] \in Publishing

\* A start in which nothing fails leaves no plan and no legacy cancellation
\* behind, except a plan whose request was approved meanwhile, one whose
\* directory was published half-written, and an archive blocked by the probe
\* file of an earlier attempt.
OpeningReconciles ==
    [][phase # "up" /\ phase' = "up" /\ ~fault =>
           \A r \in Requests :
               /\ Preparing(r) => \/ row[r].resolution = "approved"
                                  \/ package[plan[r].publication] = Partial
               /\ Unarchived(r) => r \in probes]_vars

\* Every call that was started is answered or gone, however the calls queue
\* for publish_lock.
CallsAnswered == \A c \in Calls : pc[c] \in Running ~> pc[c] = "done"

\* Whatever it finds to recover, and whichever recoveries fail, the opening of
\* the store ends: the store is open, or a database error outside of the
\* recovery of one request refused it (sqlite.rs:178).
OpeningEnds == phase # "up" ~> phase \in {"up", "refused"}

\* What was planned is delivered, by the call that planned it or by the start
\* after the crash that killed it, unless an I/O error or a drop stopped it,
\* the request was approved meanwhile or its directory was published
\* half-written.
PlanSettles ==
    \A r \in Requests : Preparing(r) ~>
        \/ result[r] # None
        \/ fault
        \/ row[r].resolution = "approved"
        \/ plan[r] # None /\ package[plan[r].publication] = Partial

-----------------------------------------------------------------------------
(* FeedbackPublication implements FeedbackLifecycle: the package of a      *)
(* request is the directory its result names.                              *)

Delivered(r) ==
    IF result[r] = None THEN None
    ELSE LET published == package[result[r]] IN
         [request |-> published.request, text |-> published.text,
          uncooked |-> published.uncooked, resolution |-> published.resolution,
          reason |-> published.reason]

Lifecycle == INSTANCE FeedbackLifecycle WITH
    status <- [r \in Requests |-> row[r].status],
    outcome <- [r \in Requests |-> row[r].resolution],
    delivered <- [r \in Requests |-> Delivered(r)]

\* NULL is no package either.
ASSUME NoPackageAssumption == None \notin Lifecycle!Packages

\* Every step of a call, a recovery or a crash is a step of the life cycle of
\* the requests or invisible in it.
ImplementsLifecycle == Lifecycle!Spec

\* So a request ends once, and its package is the same for ever: no later call,
\* edit, recovery or crash takes the outcome or the package back.
EndsOnce == Lifecycle!EndsOnce

\* And the package on disk always tells the outcome in the row.
PackageTellsOutcome == Lifecycle!PackageTellsOutcome

-----------------------------------------------------------------------------
(* What the documentation says and the code does not do.                   *)

\* ARCHITECTURE.md: a package that was published while the database was not
\* updated is reconciled at the next start.
StartReconcilesPackages ==
    [][phase # "up" /\ phase' = "up" /\ ~fault =>
           \A r \in Requests :
               plan[r] # None /\ package[plan[r].publication] \notin {None, Partial} =>
                   result[r] # None]_vars

\* PROTOCOL.md, mcp-cancel: a repeated cancellation returns the original
\* cancelled state, so a cancel is never refused on a cancelled request.
RepeatedCancelAnswered ==
    [][\A c \in Calls :
           answer[c] = "none" /\ answer'[c] = "terminal" /\ op'[c].kind = "cancel" =>
               row[op'[c].request].status # "cancelled"]_vars
=============================================================================
