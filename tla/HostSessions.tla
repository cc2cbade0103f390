---------------------------- MODULE HostSessions ----------------------------
(***************************************************************************)
(* The life of a feedback request around its publication: agents that      *)
(* create it, or retry its creation, and stage its attachments; the person *)
(* who pins, archives, restores and deletes host sessions and requests;    *)
(* and the submissions still in flight meanwhile (session_ops.rs,          *)
(* request_ops.rs and their callers in rambledesk-core).                   *)
(*                                                                         *)
(* Rows change in transactions that hold SQLite's write lock, files in     *)
(* steps of their own: before the commit when a request is created, after  *)
(* it when one is deleted.  Any other call, a dropped connection or a      *)
(* crash comes in between.                                                 *)
(***************************************************************************)
EXTENDS Integers, FiniteSets

CONSTANTS
    Requests,    \* request ids, chosen by the agents
    Sessions,    \* host sessions
    Inputs,      \* what request_feedback is called with, as far as it matters
    Agents,      \* connections that call request_feedback
    Deleters,    \* calls of the desktop that delete
    Publishers,  \* submissions
    None,        \* no row, no call, NULL
    MaxIds,      \* bound on the attachment and publication ids made
    MaxCrashes   \* bound on the crashes

ASSUME InputsAssumption == Inputs \subseteq [session: Sessions, attachments: Nat]
ASSUME BoundsAssumption == MaxIds \in Nat /\ MaxCrashes \in Nat

Ids == 1..MaxIds

\* A file of the library: below drafts/<request>/request-attachments, or the
\* package directory of a publication.
Files == [request: Requests, folder: {"drafts", "feedback"}, id: Ids]
Attachment(r, i) == [request |-> r, folder |-> "drafts", id |-> i]
Package(r, p) == [request |-> r, folder |-> "feedback", id |-> p]

\* One row of feedback_requests with its request_attachments, its
\* submission_plans row (the publication) and its feedback_results row.
Rows == [input: Inputs, status: {"waiting", "in_progress", "completed"},
         attachments: SUBSET Ids, plan: Ids \cup {None}, delivered: BOOLEAN]
Creations == [request: Requests, input: Inputs, staged: SUBSET Ids]
Publications == [request: Requests, id: Ids, at: {"publish", "complete", "cleanup"}]

ASSUME NoneAssumption ==
    None \notin Rows \cup Creations \cup Publications \cup Ids \cup Agents

VARIABLES
    stored,      \* stored[r]: the rows of request r, or None
    sessions,    \* the rows of host_sessions
    archived,    \* sessions with archived_at
    pinned,      \* sessions with pinned_at
    writer,      \* the agent whose transaction holds the write lock, or None
    creating,    \* creating[a]: the request agent a is inserting, or None
    removing,    \* removing[d]: the files in directories d has still to remove
    publishing,  \* publishing[p]: the plan submission p holds, or None
    disk,        \* the files there are
    made,        \* how many ids were made
    abandoned,   \* files that a failure or a lost race left behind for good
    reborn,      \* requests created again under the id of a deleted one
    gone,        \* requests that were deleted
    crashes

rows == <<stored, sessions, archived, pinned>>
calls == <<writer, creating, removing, publishing>>
ghosts == <<abandoned, reborn, gone>>
vars == <<rows, calls, disk, made, ghosts, crashes>>

-----------------------------------------------------------------------------
Stored(r) == stored[r] # None
Open(r) == Stored(r) /\ stored[r].status \in {"waiting", "in_progress"}
SessionOf(r) == stored[r].input.session
RequestsOf(s) == {r \in Requests : Stored(r) /\ SessionOf(r) = s}

\* Variant: a request somebody has begun to answer does not count.
HasWaitingRequest(s) == \E r \in RequestsOf(s) : stored[r].status = "waiting"

\* The query both archive_host_session and delete_host_session ask.
HasOpenRequest(s) == \E r \in RequestsOf(s) : Open(r)

Init ==
    /\ stored = [r \in Requests |-> None]
    /\ sessions = {} /\ archived = {} /\ pinned = {}
    /\ writer = None
    /\ creating = [a \in Agents |-> None]
    /\ removing = [d \in Deleters |-> {}]
    /\ publishing = [p \in Publishers |-> None]
    /\ disk = {} /\ made = 0
    /\ abandoned = {} /\ reborn = {} /\ gone = {}
    /\ crashes = 0

-----------------------------------------------------------------------------
(* request_feedback: create_or_get_request.                                *)

\* The request is there: its stored result is returned or the call refused,
\* and nothing changes.  Otherwise the write lock is held from here on.
BeginCreate(a, r, input) ==
    /\ creating[a] = None /\ writer = None
    /\ ~Stored(r)
    /\ writer' = a
    /\ creating' = [creating EXCEPT ![a] = [request |-> r, input |-> input, staged |-> {}]]
    /\ UNCHANGED <<rows, removing, publishing, disk, made, ghosts, crashes>>

\* One attachment is written and synced, under an id of its own.
StageAttachment(a) ==
    /\ creating[a] # None
    /\ Cardinality(creating[a].staged) < creating[a].input.attachments
    /\ made < MaxIds
    /\ made' = made + 1
    /\ disk' = disk \cup {Attachment(creating[a].request, made + 1)}
    /\ creating' = [creating EXCEPT ![a].staged = @ \cup {made + 1}]
    /\ UNCHANGED <<rows, writer, removing, publishing, ghosts, crashes>>

\* Variant: an archived session stays archived.
CommitCreateArchived(a) ==
    LET new == creating[a] IN
    /\ new # None
    /\ Cardinality(new.staged) = new.input.attachments
    /\ stored' = [stored EXCEPT ![new.request] =
          [input |-> new.input, status |-> "waiting", attachments |-> new.staged,
           plan |-> None, delivered |-> FALSE]]
    /\ sessions' = sessions \cup {new.input.session}
    /\ reborn' = reborn \cup ({new.request} \cap gone)
    /\ writer' = None
    /\ creating' = [creating EXCEPT ![a] = None]
    /\ UNCHANGED <<archived, pinned, removing, publishing, disk, made,
                   abandoned, gone, crashes>>

\* The rows become visible; an archived session is restored by it.
CommitCreate(a) ==
    LET new == creating[a] IN
    /\ new # None
    /\ Cardinality(new.staged) = new.input.attachments
    /\ stored' = [stored EXCEPT ![new.request] =
          [input |-> new.input, status |-> "waiting", attachments |-> new.staged,
           plan |-> None, delivered |-> FALSE]]
    /\ sessions' = sessions \cup {new.input.session}
    /\ archived' = archived \ {new.input.session}
    /\ reborn' = reborn \cup ({new.request} \cap gone)
    /\ writer' = None
    /\ creating' = [creating EXCEPT ![a] = None]
    /\ UNCHANGED <<pinned, removing, publishing, disk, made, abandoned,
                   gone, crashes>>

StagedBy(a) == {Attachment(creating[a].request, i) : i \in creating[a].staged}

\* Variant: the files staged so far are not removed.
FailCreateUntidily(a) ==
    /\ creating[a] # None
    /\ writer' = None
    /\ creating' = [creating EXCEPT ![a] = None]
    /\ UNCHANGED <<rows, removing, publishing, disk, made, ghosts, crashes>>

\* Variant: the error path forgets the transaction.
FailCreateLocked(a) ==
    /\ creating[a] # None
    /\ disk' = disk \ StagedBy(a)
    /\ creating' = [creating EXCEPT ![a] = None]
    /\ UNCHANGED <<rows, writer, removing, publishing, made, ghosts, crashes>>

\* Staging, an insert or the commit fails: the staged files are removed, each
\* on its own; one whose removal fails as well stays, and nobody is told.
FailCreate(a) ==
    /\ creating[a] # None
    /\ \E left \in SUBSET StagedBy(a) :
          /\ disk' = disk \ (StagedBy(a) \ left)
          /\ abandoned' = abandoned \cup left
    /\ writer' = None
    /\ creating' = [creating EXCEPT ![a] = None]
    /\ UNCHANGED <<rows, removing, publishing, made, reborn, gone, crashes>>

\* The connection closes and the handler is dropped: SQLite rolls back, the
\* staged files stay.
DropCreate(a) ==
    /\ creating[a] # None
    /\ abandoned' = abandoned \cup StagedBy(a)
    /\ writer' = None
    /\ creating' = [creating EXCEPT ![a] = None]
    /\ UNCHANGED <<rows, removing, publishing, disk, made, reborn, gone, crashes>>

-----------------------------------------------------------------------------
(* What changes an open request meanwhile (see FeedbackPublication).       *)

\* A saved draft: somebody works on the request.
SaveDraft(r) ==
    /\ writer = None
    /\ Open(r) /\ stored[r].plan = None
    /\ stored' = [stored EXCEPT ![r].status = "in_progress"]
    /\ UNCHANGED <<sessions, archived, pinned, calls, disk, made, ghosts, crashes>>

\* An approval ends the request whatever was planned for it.
ApproveRequest(r) ==
    /\ writer = None
    /\ Open(r)
    /\ stored' = [stored EXCEPT ![r].status = "completed"]
    /\ UNCHANGED <<sessions, archived, pinned, calls, disk, made, ghosts, crashes>>

\* The plan that is stored is taken up again, or a new one is stored.
PlanSubmission(p, r) ==
    /\ writer = None /\ publishing[p] = None
    /\ Stored(r) /\ stored[r].status = "in_progress"
    /\ IF stored[r].plan # None
       THEN /\ publishing' = [publishing EXCEPT ![p] =
                  [request |-> r, id |-> stored[r].plan, at |-> "publish"]]
            /\ UNCHANGED <<stored, made>>
       ELSE /\ made < MaxIds
            /\ made' = made + 1
            /\ stored' = [stored EXCEPT ![r].plan = made + 1]
            /\ publishing' = [publishing EXCEPT ![p] =
                  [request |-> r, id |-> made + 1, at |-> "publish"]]
    /\ UNCHANGED <<sessions, archived, pinned, writer, creating, removing, disk,
                   ghosts, crashes>>

\* The package directory appears under its final name.  It needs the draft
\* files, unless it is there already.
Publish(p) ==
    LET held == publishing[p]
        package == Package(held.request, held.id)
    IN
    /\ held # None /\ held.at = "publish"
    /\ \/ /\ disk' = disk \cup {package}
          /\ publishing' = [publishing EXCEPT ![p].at = "complete"]
       \/ /\ publishing' = [publishing EXCEPT ![p] = None]
          /\ UNCHANGED disk
    /\ UNCHANGED <<rows, writer, creating, removing, made, ghosts, crashes>>

\* The plan submission p holds is no longer the one that is stored.
Lost(p) ==
    /\ publishing[p] # None
    /\ Stored(publishing[p].request) => stored[publishing[p].request].plan # publishing[p].id

\* The request is completed if it is still the one that was planned; a package
\* whose request was deleted meanwhile belongs to nobody.
Complete(p) ==
    LET held == publishing[p]
        r == held.request
    IN
    /\ writer = None
    /\ held # None /\ held.at = "complete"
    /\ IF Open(r) /\ stored[r].plan = held.id
       THEN /\ stored' = [stored EXCEPT ![r].status = "completed", ![r].delivered = TRUE]
            /\ publishing' = [publishing EXCEPT ![p].at = "cleanup"]
            /\ UNCHANGED abandoned
       ELSE /\ publishing' = [publishing EXCEPT ![p] = None]
            /\ abandoned' = IF Lost(p) THEN abandoned \cup {Package(r, held.id)}
                            ELSE abandoned
            /\ UNCHANGED stored
    /\ UNCHANGED <<sessions, archived, pinned, writer, creating, removing, disk,
                   made, reborn, gone, crashes>>

DraftsOf(r) == {f \in Files : f.request = r /\ f.folder = "drafts"}

\* The whole drafts directory of the request goes after the commit; an error
\* is ignored.
CleanupDrafts(p) ==
    LET held == publishing[p] IN
    /\ held # None /\ held.at = "cleanup"
    /\ \E removed \in {{}, DraftsOf(held.request)} :
          disk' = disk \ removed /\ abandoned' = abandoned \ removed
    /\ publishing' = [publishing EXCEPT ![p] = None]
    /\ UNCHANGED <<rows, writer, creating, removing, made, reborn, gone, crashes>>

-----------------------------------------------------------------------------
(* Host sessions.                                                          *)

\* set_host_session_pinned: an archived session is never pinned.
SetPinned(s) ==
    /\ writer = None
    /\ s \in sessions
    /\ \E on \in BOOLEAN :
          pinned' = IF on /\ s \notin archived THEN pinned \cup {s} ELSE pinned \ {s}
    /\ UNCHANGED <<stored, sessions, archived, calls, disk, made, ghosts, crashes>>

ArchiveSession(s) ==
    /\ writer = None
    /\ s \in sessions /\ ~HasOpenRequest(s)
    /\ archived' = archived \cup {s}
    /\ pinned' = pinned \ {s}
    /\ UNCHANGED <<stored, sessions, calls, disk, made, ghosts, crashes>>

UnarchiveSession(s) ==
    /\ writer = None
    /\ s \in sessions
    /\ archived' = archived \ {s}
    /\ UNCHANGED <<stored, sessions, pinned, calls, disk, made, ghosts, crashes>>

\* Variant: the packages of every request of the session, not of this one.
SessionArtifacts(rs) ==
    {f \in Files : \E r \in UNION {RequestsOf(SessionOf(q)) : q \in rs} :
        /\ f.request = r
        /\ (f.folder = "drafts" \/ f.id = stored[r].plan)}

\* collect_deletion_artifacts: what is below the drafts directory, the planned
\* and the delivered package directory of these requests.
DeletionArtifacts(rs) ==
    {f \in Files : \E r \in rs : /\ f.request = r
                                 /\ (f.folder = "drafts" \/ f.id = stored[r].plan)}

\* The rows go in one transaction; the files are removed after its commit.
Delete(d, rs, ss) ==
    /\ writer = None
    /\ removing[d] = {}
    /\ removing' = [removing EXCEPT ![d] = DeletionArtifacts(rs)]
    /\ stored' = [r \in Requests |-> IF r \in rs THEN None ELSE stored[r]]
    /\ sessions' = sessions \ ss
    /\ archived' = archived \ ss
    /\ pinned' = pinned \ ss
    /\ gone' = gone \cup rs
    /\ reborn' = reborn \ rs
    /\ UNCHANGED <<writer, creating, publishing, disk, made, abandoned, crashes>>

DeleteSession(d, s) ==
    /\ s \in archived
    /\ ~HasOpenRequest(s)
    /\ Delete(d, RequestsOf(s), {s})

\* A session goes with its last request.
DeleteRequest(d, r) ==
    /\ Stored(r) /\ SessionOf(r) \in archived
    /\ ~Open(r)
    /\ Delete(d, {r}, {s \in {SessionOf(r)} : RequestsOf(s) = {r}})

\* cleanup_deletion_artifacts: one directory after the other; an error is
\* ignored and leaves it where it is.
RemoveDirectory(d) ==
    /\ removing[d] # {}
    /\ \E r \in Requests, folder \in {"drafts", "feedback"} :
          LET directory == {f \in removing[d] : f.request = r /\ f.folder = folder} IN
          /\ directory # {}
          /\ removing' = [removing EXCEPT ![d] = @ \ directory]
          /\ \/ disk' = disk \ directory /\ abandoned' = abandoned \ directory
             \/ abandoned' = abandoned \cup (disk \cap directory) /\ UNCHANGED disk
    /\ UNCHANGED <<rows, writer, creating, publishing, made, reborn, gone, crashes>>

-----------------------------------------------------------------------------
\* The process dies: what it was removing, staging or publishing stops there.
\* Plans of open requests are taken up again by the next start.
Crash ==
    /\ crashes < MaxCrashes
    /\ crashes' = crashes + 1
    /\ abandoned' = abandoned
          \cup (UNION {StagedBy(a) : a \in {b \in Agents : creating[b] # None}})
          \cup (disk \cap (UNION {removing[d] : d \in Deleters}))
          \cup (disk \cap {Package(publishing[p].request, publishing[p].id) :
                            p \in {q \in Publishers : Lost(q)}})
    /\ writer' = None
    /\ creating' = [a \in Agents |-> None]
    /\ removing' = [d \in Deleters |-> {}]
    /\ publishing' = [p \in Publishers |-> None]
    /\ UNCHANGED <<rows, disk, made, reborn, gone>>

\* An agent's call, from validation to the answer.
RequestFeedback(a) ==
    \/ \E r \in Requests, input \in Inputs : BeginCreate(a, r, input)
    \/ StageAttachment(a) \/ CommitCreate(a) \/ FailCreate(a) \/ DropCreate(a)

SubmitFeedback(p) ==
    \/ \E r \in Requests : PlanSubmission(p, r)
    \/ Publish(p) \/ Complete(p) \/ CleanupDrafts(p)

ChangeSession(s) == SetPinned(s) \/ ArchiveSession(s) \/ UnarchiveSession(s)

DeleteStep(d) ==
    \/ \E s \in Sessions : DeleteSession(d, s)
    \/ \E r \in Requests : DeleteRequest(d, r)
    \/ RemoveDirectory(d)

Next ==
    \/ \E a \in Agents : RequestFeedback(a)
    \/ \E r \in Requests : SaveDraft(r) \/ ApproveRequest(r)
    \/ \E p \in Publishers : SubmitFeedback(p)
    \/ \E s \in Sessions : ChangeSession(s)
    \/ \E d \in Deleters : DeleteStep(d)
    \/ Crash

Spec == Init /\ [][Next]_vars

-----------------------------------------------------------------------------
(* Correctness.                                                            *)

\* The values of the variables; the write lock is held by whoever creates a
\* request, and given back on every path.
TypeOK ==
    /\ stored \in [Requests -> Rows \cup {None}]
    /\ sessions \subseteq Sessions
    /\ archived \subseteq Sessions
    /\ pinned \subseteq Sessions
    /\ writer \in Agents \cup {None}
    /\ creating \in [Agents -> Creations \cup {None}]
    /\ \A a \in Agents : writer = a <=> creating[a] # None
    /\ removing \in [Deleters -> SUBSET Files]
    /\ publishing \in [Publishers -> Publications \cup {None}]
    /\ disk \subseteq Files
    /\ made \in 0..MaxIds
    /\ abandoned \subseteq Files
    /\ reborn \subseteq Requests
    /\ gone \subseteq Requests
    /\ crashes \in 0..MaxCrashes

\* Every open request can be seen: its session is there and not archived, so
\* that list_open_requests has it, whatever was archived, deleted and created
\* in between; and no session row is left without a request, which no listing
\* would show and no operation could find a summary for.
SessionsMatchRequests ==
    /\ \A r \in Requests : Stored(r) => SessionOf(r) \in sessions
    /\ \A r \in Requests : Open(r) => SessionOf(r) \notin archived
    /\ \A s \in sessions : RequestsOf(s) # {}
    /\ archived \cup pinned \subseteq sessions
    /\ archived \cap pinned = {}

\* A deletion takes no request that somebody still has to answer, even when it
\* was created, or created again, after its session was archived.
OpenRequestsSurvive ==
    [][\A r \in Requests : Open(r) => Stored(r)']_vars

\* What the lists show of a request: a result counts as delivered only while
\* its package is there to be read.
Shown(r) ==
    IF ~Stored(r) THEN "absent"
    ELSE IF stored[r].status # "completed" THEN "open"
    ELSE IF stored[r].delivered /\ Package(r, stored[r].plan) \in disk THEN "delivered"
    ELSE "ended"
AskedBy(r) == IF Stored(r) THEN SessionOf(r) ELSE None

Catalog == INSTANCE SessionCatalog
    WITH state <- [r \in Requests |-> Shown(r)], owner <- [r \in Requests |-> AskedBy(r)]

\* Transactions, files, deletions, drops and crashes together do no more than
\* the catalogue allows: a request once asked stays in a session in view until
\* it has ended, its end and its readable result are final, and only ended
\* requests of an archived session disappear, the session with its last one.
ImplementsCatalog == Catalog!Spec

\* What a stored request points to is on disk: the attachments of an open one
\* for the person who answers it, the package of a delivered one for the agent
\* that reads it.  No deletion, retry or failed creation next to it removes
\* them, except that the files of a request created under the id of a deleted
\* one may fall to the cleanup of the earlier life.
StoredFilesExist ==
    \A r \in Requests :
        /\ Open(r) /\ r \notin reborn =>
              {Attachment(r, i) : i \in stored[r].attachments} \subseteq disk
        /\ Stored(r) => (stored[r].delivered => Package(r, stored[r].plan) \in disk)

\* A file of the library belongs to a stored request, to a call still running,
\* or was left behind by a crash, a dropped connection, a publication that lost
\* its request, or a removal that failed: a creation that fails, a delivery and
\* a deletion each take away every file that can be removed.
NothingElseIsLeft ==
    \A f \in disk :
        \/ Stored(f.request) /\ (f.folder = "drafts" \/ f.id = stored[f.request].plan)
        \/ f \in abandoned
        \/ \E a \in Agents : creating[a] # None /\ f \in StagedBy(a)
        \/ \E d \in Deleters : f \in removing[d]
        \/ \E p \in Publishers :
              publishing[p] # None /\ f = Package(publishing[p].request, publishing[p].id)
=============================================================================
