-------------------------- MODULE HostSessions_proofs --------------------------
(***************************************************************************)
(* For any requests, sessions, agents, deletions and submissions at once:  *)
(* an open request keeps its session, its rows and its files, and nothing  *)
(* is left on disk that belongs to nobody.                                 *)
(***************************************************************************)
EXTENDS HostSessions, TLAPS

\* A request that is being created is not stored yet, and its files are there,
\* unless the cleanup of an earlier life of its id took them.
CreateInv ==
    \A a \in Agents : creating[a] # None =>
        /\ ~Stored(creating[a].request)
        /\ creating[a].request \notin gone => StagedBy(a) \subseteq disk

\* No plan has an id that is still to be made; an id that was deleted is only
\* stored again as a reborn one; what was delivered is completed.
PlanInv ==
    \A r \in Requests : Stored(r) =>
        /\ stored[r].plan # None => stored[r].plan <= made
        /\ r \in gone => r \in reborn
        /\ stored[r].delivered => stored[r].status = "completed"

\* The package of the plan a submission is about to complete is there, and who
\* cleans up the drafts does so for a request that no longer needs them.
HeldInv ==
    \A p \in Publishers : publishing[p] # None =>
        /\ publishing[p].id <= made
        /\ ~Lost(p) /\ publishing[p].at = "complete" =>
              Package(publishing[p].request, publishing[p].id) \in disk
        /\ publishing[p].at = "cleanup" =>
              \/ publishing[p].request \in gone
              \/ Stored(publishing[p].request) /\ ~Open(publishing[p].request)

\* Files are removed for requests that were deleted, and never the package of a
\* plan that is stored now.
RemovalInv ==
    \A d \in Deleters : \A f \in removing[d] :
        /\ f.request \in gone
        /\ f.folder = "feedback" =>
              /\ f.id <= made
              /\ Stored(f.request) => stored[f.request].plan # f.id

\* Where a file on disk belongs, a submission counting from its publication on.
Kept(f) ==
    \/ Stored(f.request) /\ (f.folder = "drafts" \/ f.id = stored[f.request].plan)
    \/ f \in abandoned
    \/ \E a \in Agents : creating[a] # None /\ f \in StagedBy(a)
    \/ \E d \in Deleters : f \in removing[d]
    \/ \E p \in Publishers :
          /\ publishing[p] # None /\ publishing[p].at = "complete"
          /\ f = Package(publishing[p].request, publishing[p].id)
LeftInv == \A f \in disk : Kept(f)

CallInv == CreateInv /\ PlanInv /\ HeldInv /\ RemovalInv
IInv == TypeOK /\ SessionsMatchRequests /\ CallInv /\ StoredFilesExist /\ LeftInv

\* What OpenRequestsSurvive says of a step.
Survive == \A r \in Requests : Open(r) => Stored(r)'

-----------------------------------------------------------------------------
\* What a row is after each kind of update.
LEMMA RowFields ==
    ASSUME NEW row \in Rows
    PROVE  /\ row # None
           /\ row.input \in Inputs /\ row.status \in {"waiting", "in_progress", "completed"}
           /\ row.attachments \in SUBSET Ids /\ row.plan \in Ids \cup {None}
           /\ row.delivered \in BOOLEAN
    BY NoneAssumption DEF Rows

\* A row whose status is set.
LEMMA StatusUpdate ==
    ASSUME NEW row \in Rows, NEW status \in {"in_progress", "completed"}, NEW new,
           new = [row EXCEPT !.status = status]
    PROVE  /\ new \in Rows /\ new # None /\ new.status = status /\ new.input = row.input
           /\ new.attachments = row.attachments /\ new.plan = row.plan
           /\ new.delivered = row.delivered
<1>1. new = [input |-> row.input, status |-> status, attachments |-> row.attachments,
             plan |-> row.plan, delivered |-> row.delivered]
    BY DEF Rows
<1>2. new \in Rows
    BY <1>1, RowFields DEF Rows
<1> QED BY <1>1, <1>2, RowFields

\* A row whose request is completed and delivered.
LEMMA DeliveredUpdate ==
    ASSUME NEW row \in Rows, NEW new,
           new = [input |-> row.input, status |-> "completed",
                  attachments |-> row.attachments, plan |-> row.plan, delivered |-> TRUE]
    PROVE  /\ new \in Rows /\ new # None /\ new.status = "completed"
           /\ new.input = row.input
           /\ new.attachments = row.attachments /\ new.plan = row.plan
<1>1. new \in Rows
    BY RowFields DEF Rows
<1> QED BY <1>1, RowFields

\* A row whose request gets a plan.
LEMMA PlanUpdate ==
    ASSUME NEW row \in Rows, NEW i \in Ids, NEW new, new = [row EXCEPT !.plan = i]
    PROVE  /\ new \in Rows /\ new # None /\ new.status = row.status /\ new.input = row.input
           /\ new.attachments = row.attachments /\ new.plan = i
           /\ new.delivered = row.delivered
<1>1. new = [input |-> row.input, status |-> row.status, attachments |-> row.attachments,
             plan |-> i, delivered |-> row.delivered]
    BY DEF Rows
<1>2. new \in Rows
    BY <1>1, RowFields DEF Rows
<1> QED BY <1>1, <1>2, RowFields

\* What a step does to the rows when it updates that of one request.
Updated(r) ==
    /\ Stored(r) /\ stored'[r] \in Rows /\ stored'[r] # None
    /\ stored'[r].input = stored[r].input
    /\ stored'[r].attachments = stored[r].attachments
    /\ \A q \in Requests \ {r} : stored'[q] = stored[q]
    /\ stored' \in [Requests -> Rows \cup {None}]

\* The effect of each action, variable by variable.
LEMMA SaveDraftDoes ==
    ASSUME TypeOK, NEW r \in Requests, SaveDraft(r)
    PROVE  /\ Updated(r) /\ Open(r)
           /\ stored'[r].status = "in_progress"
           /\ stored'[r].plan = stored[r].plan /\ stored'[r].delivered = stored[r].delivered
           /\ UNCHANGED <<sessions, archived, pinned, writer, creating, removing, publishing,
                          disk, made, abandoned, reborn, gone, crashes>>
<1>1. Open(r) /\ stored[r] \in Rows
    BY DEF SaveDraft, TypeOK, Open, Stored
<1>2. stored' = [stored EXCEPT ![r] = [stored[r] EXCEPT !.status = "in_progress"]]
    BY DEF SaveDraft
<1>3. stored'[r] = [stored[r] EXCEPT !.status = "in_progress"]
    BY <1>2 DEF TypeOK
<1>4. /\ stored'[r] \in Rows /\ stored'[r] # None /\ stored'[r].status = "in_progress"
      /\ stored'[r].input = stored[r].input /\ stored'[r].plan = stored[r].plan
      /\ stored'[r].attachments = stored[r].attachments
      /\ stored'[r].delivered = stored[r].delivered
    BY <1>1, <1>3, StatusUpdate
<1>5. Updated(r)
    BY <1>1, <1>2, <1>4 DEF TypeOK, Updated, Open
<1> QED BY <1>1, <1>4, <1>5 DEF SaveDraft, calls, ghosts

\* An approval updates one row and nothing else.
LEMMA ApproveRequestDoes ==
    ASSUME TypeOK, NEW r \in Requests, ApproveRequest(r)
    PROVE  /\ Updated(r) /\ Open(r)
           /\ stored'[r].status = "completed"
           /\ stored'[r].plan = stored[r].plan /\ stored'[r].delivered = stored[r].delivered
           /\ UNCHANGED <<sessions, archived, pinned, writer, creating, removing, publishing,
                          disk, made, abandoned, reborn, gone, crashes>>
<1>1. Open(r) /\ stored[r] \in Rows
    BY DEF ApproveRequest, TypeOK, Open, Stored
<1>2. stored' = [stored EXCEPT ![r] = [stored[r] EXCEPT !.status = "completed"]]
    BY DEF ApproveRequest
<1>3. stored'[r] = [stored[r] EXCEPT !.status = "completed"]
    BY <1>2 DEF TypeOK
<1>4. /\ stored'[r] \in Rows /\ stored'[r] # None /\ stored'[r].status = "completed"
      /\ stored'[r].input = stored[r].input /\ stored'[r].plan = stored[r].plan
      /\ stored'[r].attachments = stored[r].attachments
      /\ stored'[r].delivered = stored[r].delivered
    BY <1>1, <1>3, StatusUpdate
<1>5. Updated(r)
    BY <1>1, <1>2, <1>4 DEF TypeOK, Updated, Open
<1> QED BY <1>1, <1>4, <1>5 DEF ApproveRequest, calls, ghosts

\* What a step does to the submissions when it updates what one of them holds.
Held(p, r, i, step) ==
    /\ publishing'[p] \in Publications /\ publishing'[p] # None
    /\ publishing'[p].request = r /\ publishing'[p].id = i /\ publishing'[p].at = step

HeldByOthers(p) ==
    /\ \A q \in Publishers \ {p} : publishing'[q] = publishing[q]
    /\ publishing' \in [Publishers -> Publications \cup {None}]

\* What a submission can hold.
LEMMA HeldUpdates ==
    ASSUME NEW r \in Requests, NEW i \in Ids, NEW step \in {"publish", "complete", "cleanup"}
    PROVE  [request |-> r, id |-> i, at |-> step] \in Publications \ {None}
    BY NoneAssumption DEF Publications

\* The id made next.
LEMMA MadeIsAnId ==
    ASSUME TypeOK, made < MaxIds
    PROVE  made + 1 \in Ids /\ made + 1 \in 0..MaxIds /\ made \in Nat
    BY BoundsAssumption DEF TypeOK, Ids

\* A submission takes up the stored plan, or stores a new one under a fresh id.
LEMMA PlanSubmissionDoes ==
    ASSUME TypeOK, NEW p \in Publishers, NEW r \in Requests, PlanSubmission(p, r)
    PROVE  /\ Stored(r) /\ stored[r].status = "in_progress"
           /\ HeldByOthers(p) /\ publishing[p] = None
           /\ \/ /\ stored[r].plan # None /\ stored' = stored /\ made' = made
                 /\ Held(p, r, stored[r].plan, "publish")
              \/ /\ stored[r].plan = None /\ made < MaxIds /\ made' = made + 1
                 /\ Updated(r) /\ stored'[r].status = "in_progress"
                 /\ stored'[r].plan = made + 1 /\ stored'[r].delivered = stored[r].delivered
                 /\ Held(p, r, made + 1, "publish")
           /\ UNCHANGED <<sessions, archived, pinned, writer, creating, removing, disk,
                          abandoned, reborn, gone, crashes>>
<1>1. /\ Stored(r) /\ stored[r] \in Rows /\ stored[r].status = "in_progress"
      /\ publishing[p] = None
      /\ UNCHANGED <<sessions, archived, pinned, writer, creating, removing, disk,
                     abandoned, reborn, gone, crashes>>
    BY DEF PlanSubmission, TypeOK, Stored, ghosts
<1>2. CASE stored[r].plan # None
    <2>1. /\ publishing' = [publishing EXCEPT ![p] =
                 [request |-> r, id |-> stored[r].plan, at |-> "publish"]]
          /\ stored' = stored /\ made' = made
        BY <1>2 DEF PlanSubmission
    <2>2. stored[r].plan \in Ids
        BY <1>1, <1>2 DEF Rows
    <2>3. [request |-> r, id |-> stored[r].plan, at |-> "publish"] \in Publications \ {None}
        BY <2>2, HeldUpdates
    <2>4. HeldByOthers(p) /\ Held(p, r, stored[r].plan, "publish")
        BY <2>1, <2>3 DEF TypeOK, HeldByOthers, Held
    <2> QED BY <1>1, <1>2, <2>1, <2>4
<1>3. CASE stored[r].plan = None
    <2>1. /\ publishing' = [publishing EXCEPT ![p] =
                 [request |-> r, id |-> made + 1, at |-> "publish"]]
          /\ stored' = [stored EXCEPT ![r] = [stored[r] EXCEPT !.plan = made + 1]]
          /\ made < MaxIds /\ made' = made + 1
        BY <1>3 DEF PlanSubmission
    <2>2. made + 1 \in Ids
        BY <2>1, MadeIsAnId
    <2>3. [request |-> r, id |-> made + 1, at |-> "publish"] \in Publications \ {None}
        BY <2>2, HeldUpdates
    <2>4. HeldByOthers(p) /\ Held(p, r, made + 1, "publish")
        BY <2>1, <2>3 DEF TypeOK, HeldByOthers, Held
    <2>5. stored'[r] = [stored[r] EXCEPT !.plan = made + 1]
        BY <2>1 DEF TypeOK
    <2>6. /\ Updated(r) /\ stored'[r].status = "in_progress"
          /\ stored'[r].plan = made + 1 /\ stored'[r].delivered = stored[r].delivered
        <3>1. /\ stored'[r] \in Rows /\ stored'[r] # None /\ stored'[r].status = "in_progress"
              /\ stored'[r].input = stored[r].input /\ stored'[r].plan = made + 1
              /\ stored'[r].attachments = stored[r].attachments
              /\ stored'[r].delivered = stored[r].delivered
            BY <1>1, <2>2, <2>5, PlanUpdate
        <3> QED BY <1>1, <2>1, <3>1 DEF TypeOK, Updated
    <2> QED BY <1>1, <1>3, <2>1, <2>4, <2>6
<1> QED BY <1>2, <1>3

\* A package appears, or the submission gives up.
LEMMA PublishDoes ==
    ASSUME TypeOK, NEW p \in Publishers, Publish(p)
    PROVE  /\ publishing[p] \in Publications /\ publishing[p] # None
           /\ publishing[p].at = "publish" /\ HeldByOthers(p)
           /\ \/ /\ disk' = disk \cup {Package(publishing[p].request, publishing[p].id)}
                 /\ Held(p, publishing[p].request, publishing[p].id, "complete")
              \/ disk' = disk /\ publishing'[p] = None
           /\ UNCHANGED <<stored, sessions, archived, pinned, writer, creating, removing,
                          made, abandoned, reborn, gone, crashes>>
<1>1. /\ publishing[p] \in Publications /\ publishing[p] # None /\ publishing[p].at = "publish"
      /\ UNCHANGED <<stored, sessions, archived, pinned, writer, creating, removing,
                     made, abandoned, reborn, gone, crashes>>
    BY DEF Publish, TypeOK, rows, ghosts
<1>2. publishing[p].request \in Requests /\ publishing[p].id \in Ids
    BY <1>1 DEF Publications
<1>3. [publishing[p] EXCEPT !.at = "complete"]
        = [request |-> publishing[p].request, id |-> publishing[p].id, at |-> "complete"]
    BY <1>1 DEF Publications
<1>4. [request |-> publishing[p].request, id |-> publishing[p].id, at |-> "complete"]
        \in Publications \ {None}
    BY <1>2, HeldUpdates
<1>5. CASE /\ disk' = disk \cup {Package(publishing[p].request, publishing[p].id)}
           /\ publishing' = [publishing EXCEPT ![p] =
                 [request |-> publishing[p].request, id |-> publishing[p].id, at |-> "complete"]]
    <2>1. HeldByOthers(p) /\ Held(p, publishing[p].request, publishing[p].id, "complete")
        BY <1>4, <1>5 DEF TypeOK, HeldByOthers, Held
    <2> QED BY <1>1, <1>5, <2>1
<1>6. CASE disk' = disk /\ publishing' = [publishing EXCEPT ![p] = None]
    <2>1. HeldByOthers(p) /\ publishing'[p] = None
        BY <1>6 DEF TypeOK, HeldByOthers
    <2> QED BY <1>1, <1>6, <2>1
<1> QED BY <1>3, <1>5, <1>6 DEF Publish

\* The request is completed, or the submission has lost it.
LEMMA CompleteDoes ==
    ASSUME TypeOK, NEW p \in Publishers, Complete(p)
    PROVE  /\ publishing[p] \in Publications /\ publishing[p] # None
           /\ publishing[p].at = "complete" /\ HeldByOthers(p)
           /\ \/ /\ Open(publishing[p].request)
                 /\ stored[publishing[p].request].plan = publishing[p].id
                 /\ Updated(publishing[p].request)
                 /\ stored'[publishing[p].request].status = "completed"
                 /\ stored'[publishing[p].request].plan = publishing[p].id
                 /\ Held(p, publishing[p].request, publishing[p].id, "cleanup")
                 /\ abandoned' = abandoned
              \/ /\ stored' = stored /\ publishing'[p] = None
                 /\ \/ ~Lost(p) /\ abandoned' = abandoned
                    \/ abandoned' = abandoned \cup
                          {Package(publishing[p].request, publishing[p].id)}
           /\ UNCHANGED <<sessions, archived, pinned, writer, creating, removing, disk,
                          made, reborn, gone, crashes>>
<1> DEFINE r == publishing[p].request
           i == publishing[p].id
<1>1. /\ publishing[p] \in Publications /\ publishing[p] # None /\ publishing[p].at = "complete"
      /\ UNCHANGED <<sessions, archived, pinned, writer, creating, removing, disk,
                     made, reborn, gone, crashes>>
    BY DEF Complete, TypeOK
<1>2. r \in Requests /\ i \in Ids
    BY <1>1 DEF Publications
<1>3. CASE Open(r) /\ stored[r].plan = i
    <2>1. /\ stored' = [stored EXCEPT ![r] =
                 [stored[r] EXCEPT !.status = "completed", !.delivered = TRUE]]
          /\ publishing' = [publishing EXCEPT ![p] = [publishing[p] EXCEPT !.at = "cleanup"]]
          /\ abandoned' = abandoned
        BY <1>3 DEF Complete
    <2>2. [publishing[p] EXCEPT !.at = "cleanup"] = [request |-> r, id |-> i, at |-> "cleanup"]
        BY <1>1 DEF Publications
    <2>3. [request |-> r, id |-> i, at |-> "cleanup"] \in Publications \ {None}
        BY <1>2, HeldUpdates
    <2>4. HeldByOthers(p) /\ Held(p, r, i, "cleanup")
        BY <2>1, <2>2, <2>3 DEF TypeOK, HeldByOthers, Held
    <2>5. stored[r] \in Rows
        BY <1>2, <1>3 DEF TypeOK, Open, Stored
    <2>6. stored'[r] = [input |-> stored[r].input, status |-> "completed",
                        attachments |-> stored[r].attachments, plan |-> stored[r].plan,
                        delivered |-> TRUE]
        <3>1. stored'[r] = [stored[r] EXCEPT !.status = "completed", !.delivered = TRUE]
            BY <1>2, <2>1 DEF TypeOK
        <3> QED BY <2>5, <3>1 DEF Rows
    <2>7. Updated(r) /\ stored'[r].status = "completed" /\ stored'[r].plan = i
        <3>1. /\ stored'[r] \in Rows /\ stored'[r] # None /\ stored'[r].status = "completed"
              /\ stored'[r].input = stored[r].input /\ stored'[r].plan = stored[r].plan
              /\ stored'[r].attachments = stored[r].attachments
            BY <2>5, <2>6, DeliveredUpdate
        <3> QED BY <1>2, <1>3, <2>1, <3>1 DEF TypeOK, Updated, Open
    <2> QED BY <1>1, <1>3, <2>1, <2>4, <2>7
<1>4. CASE ~(Open(r) /\ stored[r].plan = i)
    <2>1. /\ publishing' = [publishing EXCEPT ![p] = None] /\ stored' = stored
          /\ abandoned' = IF Lost(p) THEN abandoned \cup {Package(r, i)} ELSE abandoned
        BY <1>4 DEF Complete
    <2>2. HeldByOthers(p) /\ publishing'[p] = None
        BY <2>1 DEF TypeOK, HeldByOthers
    <2> QED BY <1>1, <2>1, <2>2
<1> QED BY <1>3, <1>4

\* The drafts go, or stay.
LEMMA CleanupDraftsDoes ==
    ASSUME TypeOK, NEW p \in Publishers, CleanupDrafts(p)
    PROVE  /\ publishing[p] \in Publications /\ publishing[p] # None
           /\ publishing[p].at = "cleanup" /\ HeldByOthers(p) /\ publishing'[p] = None
           /\ \E removed \in {{}, DraftsOf(publishing[p].request)} :
                 disk' = disk \ removed /\ abandoned' = abandoned \ removed
           /\ UNCHANGED <<stored, sessions, archived, pinned, writer, creating, removing,
                          made, reborn, gone, crashes>>
<1>1. /\ publishing[p] \in Publications /\ publishing[p] # None /\ publishing[p].at = "cleanup"
      /\ publishing' = [publishing EXCEPT ![p] = None]
      /\ UNCHANGED <<stored, sessions, archived, pinned, writer, creating, removing,
                     made, reborn, gone, crashes>>
    BY DEF CleanupDrafts, TypeOK, rows
<1>2. HeldByOthers(p) /\ publishing'[p] = None
    BY <1>1 DEF TypeOK, HeldByOthers
<1> QED BY <1>1, <1>2 DEF CleanupDrafts

\* What a step does to the creations when it updates that of one agent.
Creating(a, r, input, staged) ==
    /\ creating'[a] \in Creations /\ creating'[a] # None
    /\ creating'[a].request = r /\ creating'[a].input = input /\ creating'[a].staged = staged

CreatedByOthers(a) ==
    /\ \A b \in Agents \ {a} : creating'[b] = creating[b]
    /\ creating' \in [Agents -> Creations \cup {None}]

\* What an agent can be creating.
LEMMA CreationUpdates ==
    ASSUME NEW r \in Requests, NEW input \in Inputs, NEW staged \in SUBSET Ids
    PROVE  [request |-> r, input |-> input, staged |-> staged] \in Creations \ {None}
    BY NoneAssumption DEF Creations

\* A creation takes the write lock.
LEMMA BeginCreateDoes ==
    ASSUME TypeOK, NEW a \in Agents, NEW r \in Requests, NEW input \in Inputs,
           BeginCreate(a, r, input)
    PROVE  /\ creating[a] = None /\ writer = None /\ ~Stored(r)
           /\ CreatedByOthers(a) /\ Creating(a, r, input, {}) /\ writer' = a
           /\ UNCHANGED <<stored, sessions, archived, pinned, removing, publishing,
                          disk, made, abandoned, reborn, gone, crashes>>
<1>1. [request |-> r, input |-> input, staged |-> {}] \in Creations \ {None}
    BY CreationUpdates
<1>2. creating' = [creating EXCEPT ![a] = [request |-> r, input |-> input, staged |-> {}]]
    BY DEF BeginCreate
<1>3. CreatedByOthers(a) /\ Creating(a, r, input, {})
    BY <1>1, <1>2 DEF TypeOK, CreatedByOthers, Creating
<1> QED BY <1>3 DEF BeginCreate, rows, ghosts

\* One more file under a fresh id.
LEMMA StageAttachmentDoes ==
    ASSUME TypeOK, NEW a \in Agents, StageAttachment(a)
    PROVE  /\ creating[a] # None /\ creating[a] \in Creations
           /\ made < MaxIds /\ made' = made + 1 /\ CreatedByOthers(a)
           /\ Creating(a, creating[a].request, creating[a].input,
                       creating[a].staged \cup {made + 1})
           /\ disk' = disk \cup {Attachment(creating[a].request, made + 1)}
           /\ UNCHANGED <<stored, sessions, archived, pinned, writer, removing, publishing,
                          abandoned, reborn, gone, crashes>>
<1> DEFINE new == [request |-> creating[a].request, input |-> creating[a].input,
                   staged |-> creating[a].staged \cup {made + 1}]
<1>1. /\ creating[a] # None /\ creating[a] \in Creations
      /\ made < MaxIds /\ made' = made + 1
      /\ disk' = disk \cup {Attachment(creating[a].request, made + 1)}
      /\ UNCHANGED <<stored, sessions, archived, pinned, writer, removing, publishing,
                     abandoned, reborn, gone, crashes>>
    BY DEF StageAttachment, TypeOK, rows, ghosts
<1>2. /\ creating[a].request \in Requests /\ creating[a].input \in Inputs
      /\ creating[a].staged \in SUBSET Ids
      /\ creating[a] = [request |-> creating[a].request, input |-> creating[a].input,
                        staged |-> creating[a].staged]
    BY <1>1 DEF Creations
<1>3. creating[a].staged \cup {made + 1} \in SUBSET Ids
    BY <1>1, <1>2, MadeIsAnId
<1>4. new \in Creations \ {None}
    BY <1>2, <1>3, CreationUpdates
<1>5. creating' = [creating EXCEPT ![a] =
            [creating[a] EXCEPT !.staged = creating[a].staged \cup {made + 1}]]
    BY DEF StageAttachment
<1>6. [creating[a] EXCEPT !.staged = creating[a].staged \cup {made + 1}] = new
    BY <1>2
<1>7. creating' = [creating EXCEPT ![a] = new]
    BY <1>5, <1>6
<1>8. CreatedByOthers(a) /\ creating'[a] = new
    BY <1>4, <1>7 DEF TypeOK, CreatedByOthers
<1>9. Creating(a, creating[a].request, creating[a].input, creating[a].staged \cup {made + 1})
    BY <1>4, <1>8 DEF Creating
<1> QED BY <1>1, <1>8, <1>9

\* The rows appear, and an archived session is restored.
LEMMA CommitCreateDoes ==
    ASSUME TypeOK, NEW a \in Agents, CommitCreate(a)
    PROVE  /\ creating[a] # None /\ creating[a] \in Creations
           /\ CreatedByOthers(a) /\ creating'[a] = None /\ writer' = None
           /\ \A q \in Requests \ {creating[a].request} : stored'[q] = stored[q]
           /\ stored' \in [Requests -> Rows \cup {None}]
           /\ \A r \in {creating[a].request} :
                 /\ r \in Requests /\ stored'[r] \in Rows /\ stored'[r] # None
                 /\ stored'[r].input = creating[a].input /\ stored'[r].status = "waiting"
                 /\ stored'[r].attachments = creating[a].staged
                 /\ stored'[r].plan = None /\ stored'[r].delivered = FALSE
                 /\ reborn' = reborn \cup ({r} \cap gone)
           /\ sessions' = sessions \cup {creating[a].input.session}
           /\ archived' = archived \ {creating[a].input.session}
           /\ UNCHANGED <<pinned, removing, publishing, disk, made, abandoned, gone, crashes>>
<1> DEFINE r == creating[a].request
           row == [input |-> creating[a].input, status |-> "waiting",
                   attachments |-> creating[a].staged, plan |-> None, delivered |-> FALSE]
<1>1. creating[a] # None /\ creating[a] \in Creations
    BY DEF CommitCreate, TypeOK
<1>2. /\ r \in Requests /\ creating[a].input \in Inputs /\ creating[a].staged \in SUBSET Ids
    BY <1>1 DEF Creations
<1>3. row \in Rows /\ row # None
    <2>1. row \in Rows
        BY <1>2 DEF Rows
    <2> QED BY <2>1, NoneAssumption
<1>4. stored' = [stored EXCEPT ![r] = row] /\ creating' = [creating EXCEPT ![a] = None]
    BY DEF CommitCreate
<1>5. /\ \A q \in Requests \ {r} : stored'[q] = stored[q]
      /\ stored' \in [Requests -> Rows \cup {None}] /\ stored'[r] = row
    BY <1>2, <1>3, <1>4 DEF TypeOK
<1>6. CreatedByOthers(a) /\ creating'[a] = None
    BY <1>4 DEF TypeOK, CreatedByOthers
<1> QED BY <1>1, <1>2, <1>3, <1>5, <1>6 DEF CommitCreate

\* How a creation ends without a row.
CreationEnds(a) ==
    /\ creating[a] # None /\ creating[a] \in Creations
    /\ CreatedByOthers(a) /\ creating'[a] = None /\ writer' = None
    /\ UNCHANGED <<stored, sessions, archived, pinned, removing, publishing,
                   made, reborn, gone, crashes>>

\* A creation that fails takes its files with it, those apart that it cannot
\* remove: they are abandoned.
LEMMA FailCreateDoes ==
    ASSUME TypeOK, NEW a \in Agents, FailCreate(a)
    PROVE  /\ CreationEnds(a)
           /\ disk' \subseteq disk /\ disk \ StagedBy(a) \subseteq disk'
           /\ abandoned \subseteq abandoned' /\ abandoned' \subseteq abandoned \cup StagedBy(a)
           /\ disk' \cap StagedBy(a) \subseteq abandoned'
<1>1. PICK left \in SUBSET StagedBy(a) : /\ disk' = disk \ (StagedBy(a) \ left)
                                        /\ abandoned' = abandoned \cup left
    BY DEF FailCreate
<1>2. CreationEnds(a)
    BY DEF FailCreate, TypeOK, CreationEnds, CreatedByOthers, rows
<1> QED BY <1>1, <1>2

\* One that is dropped leaves them.
LEMMA DropCreateDoes ==
    ASSUME TypeOK, NEW a \in Agents, DropCreate(a)
    PROVE  CreationEnds(a) /\ disk' = disk /\ abandoned' = abandoned \cup StagedBy(a)
    BY DEF DropCreate, TypeOK, CreationEnds, CreatedByOthers, rows

\* What a deletion takes.
Deleted(d, rs, ss) ==
    /\ writer = None /\ removing[d] = {}
    /\ rs \subseteq Requests /\ \A r \in rs : Stored(r) /\ ~Open(r)
    /\ removing'[d] = DeletionArtifacts(rs)
    /\ \A e \in Deleters \ {d} : removing'[e] = removing[e]
    /\ removing' \in [Deleters -> SUBSET Files]
    /\ \A r \in rs : stored'[r] = None
    /\ \A r \in Requests \ rs : stored'[r] = stored[r]
    /\ stored' \in [Requests -> Rows \cup {None}]
    /\ sessions' = sessions \ ss /\ archived' = archived \ ss /\ pinned' = pinned \ ss
    /\ gone' = gone \cup rs /\ reborn' = reborn \ rs
    /\ UNCHANGED <<writer, creating, publishing, disk, made, abandoned, crashes>>

\* A deletion takes the rows, and plans which files go.
LEMMA DeleteDoes ==
    ASSUME TypeOK, NEW d \in Deleters, NEW rs \in SUBSET Requests, NEW ss, Delete(d, rs, ss),
           \A r \in rs : Stored(r) /\ ~Open(r)
    PROVE  Deleted(d, rs, ss)
<1>1. DeletionArtifacts(rs) \in SUBSET Files
    BY DEF DeletionArtifacts
<1>2. /\ removing'[d] = DeletionArtifacts(rs)
      /\ \A e \in Deleters \ {d} : removing'[e] = removing[e]
      /\ removing' \in [Deleters -> SUBSET Files]
    BY <1>1 DEF Delete, TypeOK
<1>3. /\ \A r \in rs : stored'[r] = None
      /\ \A r \in Requests \ rs : stored'[r] = stored[r]
      /\ stored' \in [Requests -> Rows \cup {None}]
    BY DEF Delete, TypeOK
<1> QED BY <1>2, <1>3 DEF Delete, Deleted

\* A session goes with its requests, none of them open.
LEMMA DeleteSessionDoes ==
    ASSUME TypeOK, NEW d \in Deleters, NEW s \in Sessions, DeleteSession(d, s)
    PROVE  Deleted(d, RequestsOf(s), {s})
<1>1. RequestsOf(s) \in SUBSET Requests /\ \A r \in RequestsOf(s) : Stored(r) /\ ~Open(r)
    BY DEF DeleteSession, HasOpenRequest, RequestsOf
<1> QED BY <1>1, DeleteDoes DEF DeleteSession

\* A request that is not open, with its session if it was the last one.
LEMMA DeleteRequestDoes ==
    ASSUME TypeOK, NEW d \in Deleters, NEW r \in Requests, DeleteRequest(d, r)
    PROVE  Deleted(d, {r}, {s \in {SessionOf(r)} : RequestsOf(s) = {r}})
<1>1. {r} \in SUBSET Requests /\ \A q \in {r} : Stored(q) /\ ~Open(q)
    BY DEF DeleteRequest
<1> QED BY <1>1, DeleteDoes DEF DeleteRequest

\* A directory goes, or what is left of it is abandoned.
LEMMA RemoveDirectoryDoes ==
    ASSUME TypeOK, NEW d \in Deleters, RemoveDirectory(d)
    PROVE  /\ \E directory \in SUBSET removing[d] :
                 /\ removing'[d] = removing[d] \ directory
                 /\ \/ disk' = disk \ directory /\ abandoned' = abandoned \ directory
                    \/ abandoned' = abandoned \cup (disk \cap directory) /\ disk' = disk
           /\ \A e \in Deleters \ {d} : removing'[e] = removing[e]
           /\ removing' \in [Deleters -> SUBSET Files]
           /\ UNCHANGED <<stored, sessions, archived, pinned, writer, creating, publishing,
                          made, reborn, gone, crashes>>
<1>1. PICK r \in Requests, folder \in {"drafts", "feedback"} :
          LET directory == {f \in removing[d] : f.request = r /\ f.folder = folder} IN
          /\ removing' = [removing EXCEPT ![d] = @ \ directory]
          /\ \/ disk' = disk \ directory /\ abandoned' = abandoned \ directory
             \/ abandoned' = abandoned \cup (disk \cap directory) /\ UNCHANGED disk
    BY DEF RemoveDirectory
<1> DEFINE directory == {f \in removing[d] : f.request = r /\ f.folder = folder}
<1>2. directory \in SUBSET removing[d]
    OBVIOUS
<1>3. /\ removing' = [removing EXCEPT ![d] = removing[d] \ directory]
      /\ \/ disk' = disk \ directory /\ abandoned' = abandoned \ directory
         \/ abandoned' = abandoned \cup (disk \cap directory) /\ disk' = disk
    BY <1>1
<1> HIDE DEF directory
<1>4. /\ removing'[d] = removing[d] \ directory
      /\ \A e \in Deleters \ {d} : removing'[e] = removing[e]
      /\ removing' \in [Deleters -> SUBSET Files]
    BY <1>3 DEF TypeOK
<1>5. UNCHANGED <<stored, sessions, archived, pinned, writer, creating, publishing,
                  made, reborn, gone, crashes>>
    BY DEF RemoveDirectory, rows
<1> QED BY <1>2, <1>3, <1>4, <1>5

\* A crash ends every call and abandons what they were about.
LEMMA CrashDoes ==
    ASSUME Crash
    PROVE  /\ writer' = None
           /\ creating' = [a \in Agents |-> None]
           /\ removing' = [d \in Deleters |-> {}]
           /\ publishing' = [p \in Publishers |-> None]
           /\ crashes < MaxCrashes /\ crashes' = crashes + 1
           /\ UNCHANGED <<stored, sessions, archived, pinned, disk, made, reborn, gone>>
           /\ \A f : f \in abandoned' <=>
                 \/ f \in abandoned
                 \/ \E a \in Agents : creating[a] # None /\ f \in StagedBy(a)
                 \/ \E d \in Deleters : f \in disk /\ f \in removing[d]
                 \/ \E p \in Publishers :
                       /\ Lost(p) /\ f \in disk
                       /\ f = Package(publishing[p].request, publishing[p].id)
<1> DEFINE staged == UNION {StagedBy(a) : a \in {b \in Agents : creating[b] # None}}
           unremoved == UNION {removing[d] : d \in Deleters}
           unpublished == {Package(publishing[p].request, publishing[p].id) :
                              p \in {q \in Publishers : Lost(q)}}
<1>1. abandoned' = abandoned \cup staged \cup (disk \cap unremoved) \cup (disk \cap unpublished)
    BY Zenon DEF Crash
<1>2. \A f : f \in staged <=> \E a \in Agents : creating[a] # None /\ f \in StagedBy(a)
    BY Zenon
<1>3. \A f : f \in unremoved <=> \E d \in Deleters : f \in removing[d]
    BY Zenon
<1>4. \A f : f \in unpublished <=>
            \E p \in Publishers : Lost(p) /\ f = Package(publishing[p].request, publishing[p].id)
    BY Zenon
<1> HIDE DEF staged, unremoved, unpublished
<1>5. \A f : f \in abandoned' <=>
            \/ f \in abandoned
            \/ \E a \in Agents : creating[a] # None /\ f \in StagedBy(a)
            \/ \E d \in Deleters : f \in disk /\ f \in removing[d]
            \/ \E p \in Publishers :
                  /\ Lost(p) /\ f \in disk
                  /\ f = Package(publishing[p].request, publishing[p].id)
    BY <1>1, <1>2, <1>3, <1>4
<1> QED BY <1>5 DEF Crash, rows

\* What the types say of what the variables hold.
Shape ==
    /\ made \in Nat
    /\ \A r \in Requests : Stored(r) =>
          /\ stored[r] \in Rows /\ SessionOf(r) \in Sessions
          /\ stored[r].attachments \subseteq Ids /\ stored[r].plan \in Ids \cup {None}
    /\ \A a \in Agents : creating[a] # None =>
          /\ writer = a
          /\ creating[a].request \in Requests /\ creating[a].input \in Inputs
          /\ creating[a].input.session \in Sessions /\ creating[a].staged \subseteq Ids
    /\ \A p \in Publishers : publishing[p] # None =>
          publishing[p].request \in Requests /\ publishing[p].id \in Ids
    /\ \A d \in Deleters : removing[d] \subseteq Files
    /\ disk \subseteq Files
    /\ \A f \in Files : f.request \in Requests /\ f.folder \in {"drafts", "feedback"}
    /\ Ids \subseteq Nat /\ None \notin Ids /\ None \notin Agents

\* The shape follows from the types.
LEMMA TypesShape == TypeOK => Shape
<1> SUFFICES ASSUME TypeOK PROVE Shape
    OBVIOUS
<1>1. made \in Nat /\ Ids \subseteq Nat /\ None \notin Ids /\ None \notin Agents
    BY BoundsAssumption, NoneAssumption DEF TypeOK, Ids
<1>2. ASSUME NEW r \in Requests, Stored(r)
      PROVE  /\ stored[r] \in Rows /\ SessionOf(r) \in Sessions
             /\ stored[r].attachments \subseteq Ids /\ stored[r].plan \in Ids \cup {None}
    <2>1. stored[r] \in Rows
        BY <1>2 DEF TypeOK, Stored
    <2> QED BY <2>1, RowFields, InputsAssumption DEF SessionOf
<1>3. ASSUME NEW a \in Agents, creating[a] # None
      PROVE  /\ writer = a
             /\ creating[a].request \in Requests /\ creating[a].input \in Inputs
             /\ creating[a].input.session \in Sessions /\ creating[a].staged \subseteq Ids
    <2>1. creating[a] \in Creations /\ writer = a
        BY <1>3 DEF TypeOK
    <2>2. creating[a].request \in Requests /\ creating[a].input \in Inputs
          /\ creating[a].staged \subseteq Ids
        BY <2>1 DEF Creations
    <2> QED BY <2>1, <2>2, InputsAssumption
<1>4. ASSUME NEW p \in Publishers, publishing[p] # None
      PROVE  publishing[p].request \in Requests /\ publishing[p].id \in Ids
    <2>1. publishing[p] \in Publications
        BY <1>4 DEF TypeOK
    <2> QED BY <2>1 DEF Publications
<1>5. /\ \A d \in Deleters : removing[d] \subseteq Files
      /\ disk \subseteq Files
      /\ \A f \in Files : f.request \in Requests /\ f.folder \in {"drafts", "feedback"}
    BY DEF TypeOK, Files
<1> QED BY <1>1, <1>2, <1>3, <1>4, <1>5 DEF Shape

\* Attachments and packages are files.
LEMMA NamesAreFiles ==
    ASSUME NEW r \in Requests, NEW i \in Ids
    PROVE  Attachment(r, i) \in Files /\ Package(r, i) \in Files
    BY DEF Attachment, Package, Files

\* So are the files staged by a creation.
LEMMA StagedAreFiles ==
    ASSUME Shape, NEW a \in Agents, creating[a] # None
    PROVE  StagedBy(a) \subseteq Files
    BY NamesAreFiles DEF Shape, StagedBy

\* An update stores and deletes nothing.
LEMMA UpdatedIsStored ==
    ASSUME NEW r \in Requests, Updated(r)
    PROVE  \A q \in Requests : Stored(q)' <=> Stored(q)
    BY DEF Updated, Stored

\* The initial state.
LEMMA InitIInv == Init => IInv
<1> SUFFICES ASSUME Init PROVE IInv
    OBVIOUS
<1>1. TypeOK
    <2>1. made \in 0..MaxIds /\ crashes \in 0..MaxCrashes
        BY BoundsAssumption DEF Init
    <2>2. \A a \in Agents : writer = a <=> creating[a] # None
        BY NoneAssumption DEF Init
    <2> QED BY <2>1, <2>2 DEF Init, TypeOK
<1>2. SessionsMatchRequests /\ StoredFilesExist /\ LeftInv
    BY DEF Init, SessionsMatchRequests, StoredFilesExist, LeftInv, Stored, Open
<1>3. CallInv
    BY DEF Init, CallInv, CreateInv, PlanInv, HeldInv, RemovalInv, Stored
<1> QED BY <1>1, <1>2, <1>3 DEF IInv

\* Every step keeps the types.
LEMMA TypePreserved == TypeOK /\ [Next]_vars => TypeOK'
<1> SUFFICES ASSUME TypeOK, [Next]_vars PROVE TypeOK'
    OBVIOUS
<1>0. Shape
    BY TypesShape
<1> USE DEF TypeOK
<1>1. ASSUME NEW a \in Agents, NEW r \in Requests, NEW input \in Inputs, BeginCreate(a, r, input)
      PROVE  TypeOK'
    <2>1. writer = None /\ writer' = a /\ CreatedByOthers(a) /\ creating'[a] # None
        BY <1>1, BeginCreateDoes DEF Creating
    <2>2. \A b \in Agents : writer' = b <=> creating'[b] # None
        BY <1>0, <2>1 DEF CreatedByOthers, Shape
    <2> QED BY <1>1, <2>1, <2>2, BeginCreateDoes DEF CreatedByOthers
<1>2. ASSUME NEW a \in Agents, StageAttachment(a) PROVE TypeOK'
    <2>1. made' \in 0..MaxIds /\ made + 1 \in Ids
        BY <1>2, StageAttachmentDoes, MadeIsAnId
    <2>2. creating[a].request \in Requests
        BY <1>2, <1>0, StageAttachmentDoes DEF Shape
    <2>3. Attachment(creating[a].request, made + 1) \in Files
        BY <2>1, <2>2, NamesAreFiles
    <2>4. disk' \subseteq Files
        BY <1>2, <2>3, StageAttachmentDoes, ZenonT(60)
    <2>5. \A b \in Agents : writer' = b <=> creating'[b] # None
        BY <1>2, StageAttachmentDoes DEF CreatedByOthers, Creating
    <2> QED BY <1>2, <2>1, <2>4, <2>5, StageAttachmentDoes DEF CreatedByOthers
<1>3. ASSUME NEW a \in Agents, CommitCreate(a) PROVE TypeOK'
    <2>1. /\ creating[a] # None /\ creating'[a] = None /\ writer' = None
          /\ CreatedByOthers(a)
        BY <1>3, CommitCreateDoes
    <2>2. \A b \in Agents : writer' = b <=> creating'[b] # None
        BY <1>0, <2>1 DEF CreatedByOthers, Shape
    <2>3. reborn' \subseteq Requests
        BY <1>3, <1>0, CommitCreateDoes
    <2>4. creating[a].input.session \in Sessions
        BY <1>0, <2>1 DEF Shape
    <2>5. sessions' \subseteq Sessions /\ archived' \subseteq Sessions
        <3>1. /\ sessions' = sessions \cup {creating[a].input.session}
              /\ archived' = archived \ {creating[a].input.session}
            BY <1>3, CommitCreateDoes
        <3> QED BY <2>4, <3>1
    <2> QED BY <1>3, <2>1, <2>2, <2>3, <2>5, CommitCreateDoes DEF CreatedByOthers
<1>4. ASSUME NEW a \in Agents, FailCreate(a) PROVE TypeOK'
    <2>1. \A b \in Agents : writer' = b <=> creating'[b] # None
        BY <1>4, <1>0, FailCreateDoes DEF CreationEnds, CreatedByOthers, Shape
    <2>2. disk' \subseteq Files /\ abandoned' \subseteq Files
        BY <1>4, <1>0, FailCreateDoes, StagedAreFiles DEF CreationEnds
    <2> QED BY <1>4, <2>1, <2>2, FailCreateDoes DEF CreationEnds, CreatedByOthers
<1>5. ASSUME NEW a \in Agents, DropCreate(a) PROVE TypeOK'
    <2>1. \A b \in Agents : writer' = b <=> creating'[b] # None
        BY <1>5, <1>0, DropCreateDoes DEF CreationEnds, CreatedByOthers, Shape
    <2>2. disk' \subseteq Files /\ abandoned' \subseteq Files
        BY <1>5, <1>0, DropCreateDoes, StagedAreFiles DEF CreationEnds
    <2> QED BY <1>5, <2>1, <2>2, DropCreateDoes DEF CreationEnds, CreatedByOthers
<1>6. ASSUME NEW r \in Requests, SaveDraft(r) PROVE TypeOK'
    BY <1>6, SaveDraftDoes DEF Updated
<1>7. ASSUME NEW r \in Requests, ApproveRequest(r) PROVE TypeOK'
    BY <1>7, ApproveRequestDoes DEF Updated
<1>8. ASSUME NEW p \in Publishers, NEW r \in Requests, PlanSubmission(p, r) PROVE TypeOK'
    <2>1. made' \in 0..MaxIds
        BY <1>8, PlanSubmissionDoes, MadeIsAnId
    <2>2. stored' \in [Requests -> Rows \cup {None}]
        BY <1>8, PlanSubmissionDoes DEF Updated
    <2>3. publishing' \in [Publishers -> Publications \cup {None}]
        BY <1>8, PlanSubmissionDoes DEF HeldByOthers
    <2> QED BY <1>8, <2>1, <2>2, <2>3, PlanSubmissionDoes
<1>9. ASSUME NEW p \in Publishers, Publish(p) PROVE TypeOK'
    <2>1. publishing[p].request \in Requests /\ publishing[p].id \in Ids
        BY <1>9, <1>0, PublishDoes DEF Shape
    <2>2. disk' \subseteq Files
        <3>1. Package(publishing[p].request, publishing[p].id) \in Files
            BY <2>1, NamesAreFiles
        <3> QED BY <1>9, <3>1, PublishDoes
    <2>3. publishing' \in [Publishers -> Publications \cup {None}]
        BY <1>9, PublishDoes DEF HeldByOthers
    <2> QED BY <1>9, <2>2, <2>3, PublishDoes
<1>10. ASSUME NEW p \in Publishers, Complete(p) PROVE TypeOK'
    <2>1. publishing[p].request \in Requests /\ publishing[p].id \in Ids
        BY <1>10, <1>0, CompleteDoes DEF Shape
    <2>2. abandoned' \subseteq Files
        <3>1. Package(publishing[p].request, publishing[p].id) \in Files
            BY <2>1, NamesAreFiles
        <3> QED BY <1>10, <3>1, CompleteDoes
    <2>3. stored' \in [Requests -> Rows \cup {None}]
        BY <1>10, CompleteDoes DEF Updated
    <2>4. publishing' \in [Publishers -> Publications \cup {None}]
        BY <1>10, CompleteDoes DEF HeldByOthers
    <2> QED BY <1>10, <2>2, <2>3, <2>4, CompleteDoes
<1>11. ASSUME NEW p \in Publishers, CleanupDrafts(p) PROVE TypeOK'
    BY <1>11, CleanupDraftsDoes DEF HeldByOthers
<1>12. ASSUME NEW s \in Sessions, SetPinned(s) PROVE TypeOK'
    BY <1>12 DEF SetPinned, rows, calls, ghosts
<1>13. ASSUME NEW s \in Sessions, ArchiveSession(s) PROVE TypeOK'
    BY <1>13 DEF ArchiveSession, rows, calls, ghosts
<1>14. ASSUME NEW s \in Sessions, UnarchiveSession(s) PROVE TypeOK'
    BY <1>14 DEF UnarchiveSession, rows, calls, ghosts
<1>15. ASSUME NEW d \in Deleters, NEW s \in Sessions, DeleteSession(d, s) PROVE TypeOK'
    BY <1>15, DeleteSessionDoes DEF Deleted
<1>16. ASSUME NEW d \in Deleters, NEW r \in Requests, DeleteRequest(d, r) PROVE TypeOK'
    <2>1. Deleted(d, {r}, {s \in {SessionOf(r)} : RequestsOf(s) = {r}})
        BY <1>16, DeleteRequestDoes
    <2>2. gone' \subseteq Requests /\ reborn' \subseteq Requests
        BY <2>1 DEF Deleted
    <2>3. sessions' \subseteq Sessions /\ archived' \subseteq Sessions /\ pinned' \subseteq Sessions
        BY <2>1 DEF Deleted
    <2> QED BY <2>1, <2>2, <2>3 DEF Deleted
<1>17. ASSUME NEW d \in Deleters, RemoveDirectory(d) PROVE TypeOK'
    BY <1>17, RemoveDirectoryDoes
<1>18. CASE Crash
    <2>1. crashes' \in 0..MaxCrashes
        BY <1>18, CrashDoes, BoundsAssumption
    <2>2. \A b \in Agents : writer' = b <=> creating'[b] # None
        BY <1>18, <1>0, CrashDoes DEF Shape
    <2>3. \A a \in Agents : creating[a] # None => StagedBy(a) \subseteq Files
        BY <1>0, StagedAreFiles
    <2>4. abandoned' \subseteq Files
        BY <1>18, <2>3, CrashDoes
    <2> QED BY <1>18, <2>1, <2>2, <2>4, CrashDoes
<1>19. CASE UNCHANGED vars
    BY <1>19 DEF vars, rows, calls, ghosts
<1> QED BY <1>1, <1>2, <1>3, <1>4, <1>5, <1>6, <1>7, <1>8, <1>9, <1>10, <1>11, <1>12,
    <1>13, <1>14, <1>15, <1>16, <1>17, <1>18, <1>19 DEF Next, RequestFeedback,
    SubmitFeedback, ChangeSession, DeleteStep

\* Every step keeps sessions and requests together.
LEMMA SessionsPreserved ==
    TypeOK /\ CreateInv /\ SessionsMatchRequests /\ [Next]_vars => SessionsMatchRequests'
<1> SUFFICES ASSUME TypeOK, CreateInv, SessionsMatchRequests, [Next]_vars
             PROVE  SessionsMatchRequests'
    OBVIOUS
<1>0. Shape
    BY TypesShape
<1> USE DEF SessionsMatchRequests, RequestsOf, SessionOf, Stored, Open
<1>1. CASE UNCHANGED <<stored, sessions, archived, pinned>>
    BY <1>1
<1>2. ASSUME NEW a \in Agents, CommitCreate(a) PROVE SessionsMatchRequests'
    <2> DEFINE new == creating[a].request
               session == creating[a].input.session
    <2>1. /\ new \in Requests /\ ~Stored(new)
          /\ stored'[new] # None /\ stored'[new].input.session = session
          /\ \A q \in Requests \ {new} : stored'[q] = stored[q]
          /\ sessions' = sessions \cup {session}
          /\ archived' = archived \ {session} /\ pinned' = pinned
        BY <1>2, CommitCreateDoes DEF CreateInv
    <2> HIDE DEF new, session
    <2>2. \A r \in Requests : Stored(r)' <=> Stored(r) \/ r = new
        BY <2>1
    <2>3. \A r \in Requests \ {new} : Stored(r) => SessionOf(r)' = SessionOf(r) /\ Open(r)' = Open(r)
        BY <2>1
    <2>4. stored'[new].input.session = session
        BY <2>1
    <2>5. \A s \in sessions' : \E r \in Requests : Stored(r)' /\ SessionOf(r)' = s
        BY <2>1, <2>2, <2>3, <2>4
    <2>6. \A r \in Requests : Stored(r)' =>
             SessionOf(r)' \in sessions' /\ (Open(r)' => SessionOf(r)' \notin archived')
        BY <2>1, <2>2, <2>3, <2>4
    <2>7. archived' \cup pinned' \subseteq sessions' /\ archived' \cap pinned' = {}
        BY <2>1
    <2> QED BY <2>5, <2>6, <2>7
<1>3. ASSUME NEW r \in Requests, SaveDraft(r) PROVE SessionsMatchRequests'
    BY <1>3, SaveDraftDoes DEF Updated
<1>4. ASSUME NEW r \in Requests, ApproveRequest(r) PROVE SessionsMatchRequests'
    BY <1>4, ApproveRequestDoes DEF Updated
<1>5. ASSUME NEW p \in Publishers, NEW r \in Requests, PlanSubmission(p, r)
      PROVE  SessionsMatchRequests'
    BY <1>5, PlanSubmissionDoes DEF Updated, HeldByOthers, Held
<1>6. ASSUME NEW p \in Publishers, Complete(p) PROVE SessionsMatchRequests'
    BY <1>6, CompleteDoes DEF Updated, HeldByOthers, Held
<1>7. ASSUME NEW s \in Sessions, SetPinned(s) PROVE SessionsMatchRequests'
    BY <1>7 DEF SetPinned, rows, calls, ghosts
<1>8. ASSUME NEW s \in Sessions, ArchiveSession(s) PROVE SessionsMatchRequests'
    <2>1. /\ UNCHANGED <<stored, sessions>> /\ ~HasOpenRequest(s) /\ s \in sessions
          /\ archived' = archived \cup {s} /\ pinned' = pinned \ {s}
        BY <1>8 DEF ArchiveSession
    <2>2. \A r \in Requests : Open(r) => SessionOf(r) # s
        BY <2>1 DEF HasOpenRequest
    <2> QED BY <2>1, <2>2
<1>9. ASSUME NEW s \in Sessions, UnarchiveSession(s) PROVE SessionsMatchRequests'
    BY <1>9 DEF UnarchiveSession, rows, calls, ghosts
<1>10. ASSUME NEW d \in Deleters, NEW s \in Sessions, DeleteSession(d, s)
       PROVE  SessionsMatchRequests'
    <2> DEFINE rs == RequestsOf(s)
               ss == {s}
    <2>1. Deleted(d, rs, ss)
        BY <1>10, DeleteSessionDoes
    <2>2. \A q \in Requests : Stored(q) /\ SessionOf(q) \in ss => q \in rs
        BY <1>10 DEF DeleteSession
    <2>3. \A t \in sessions \ ss : RequestsOf(t) \ rs # {}
        BY <1>10 DEF DeleteSession
    <2> HIDE DEF rs, ss
    <2>4. \A q \in Requests : Stored(q)' =>
             /\ q \notin rs /\ Stored(q)
             /\ SessionOf(q)' = SessionOf(q) /\ Open(q)' = Open(q)
        BY <2>1 DEF Deleted
    <2>5. \A q \in Requests \ rs : stored'[q] = stored[q]
        BY <2>1 DEF Deleted
    <2>6. sessions' = sessions \ ss /\ archived' = archived \ ss /\ pinned' = pinned \ ss
        BY <2>1 DEF Deleted
    <2>7. \A t \in sessions' : RequestsOf(t)' # {}
        BY <2>3, <2>5, <2>6
    <2>8. \A q \in Requests : Stored(q)' =>
             SessionOf(q)' \in sessions' /\ (Open(q)' => SessionOf(q)' \notin archived')
        BY <2>2, <2>4, <2>6
    <2>9. archived' \cup pinned' \subseteq sessions' /\ archived' \cap pinned' = {}
        BY <2>6
    <2> QED BY <2>7, <2>8, <2>9
<1>11. ASSUME NEW d \in Deleters, NEW r \in Requests, DeleteRequest(d, r)
       PROVE  SessionsMatchRequests'
    <2> DEFINE rs == {r}
               ss == {s \in {SessionOf(r)} : RequestsOf(s) = {r}}
    <2>1. Deleted(d, rs, ss)
        BY <1>11, DeleteRequestDoes
    <2>2. \A q \in Requests : Stored(q) /\ SessionOf(q) \in ss => q \in rs
        BY <1>11 DEF DeleteRequest
    <2>3. \A t \in sessions \ ss : RequestsOf(t) \ rs # {}
        BY <1>11 DEF DeleteRequest
    <2> HIDE DEF rs, ss
    <2>4. \A q \in Requests : Stored(q)' =>
             /\ q \notin rs /\ Stored(q)
             /\ SessionOf(q)' = SessionOf(q) /\ Open(q)' = Open(q)
        BY <2>1 DEF Deleted
    <2>5. \A q \in Requests \ rs : stored'[q] = stored[q]
        BY <2>1 DEF Deleted
    <2>6. sessions' = sessions \ ss /\ archived' = archived \ ss /\ pinned' = pinned \ ss
        BY <2>1 DEF Deleted
    <2>7. \A t \in sessions' : RequestsOf(t)' # {}
        BY <2>3, <2>5, <2>6
    <2>8. \A q \in Requests : Stored(q)' =>
             SessionOf(q)' \in sessions' /\ (Open(q)' => SessionOf(q)' \notin archived')
        BY <2>2, <2>4, <2>6
    <2>9. archived' \cup pinned' \subseteq sessions' /\ archived' \cap pinned' = {}
        BY <2>6
    <2> QED BY <2>7, <2>8, <2>9
<1>12. ASSUME \/ UNCHANGED vars
              \/ \E a \in Agents, r \in Requests, input \in Inputs : BeginCreate(a, r, input)
              \/ \E a \in Agents : StageAttachment(a)
              \/ \E a \in Agents : FailCreate(a)
              \/ \E a \in Agents : DropCreate(a)
              \/ \E p \in Publishers : Publish(p)
              \/ \E p \in Publishers : CleanupDrafts(p)
              \/ \E d \in Deleters : RemoveDirectory(d)
              \/ Crash
      PROVE  UNCHANGED <<stored, sessions, archived, pinned>>
BY <1>12 DEF vars, BeginCreate, StageAttachment, FailCreate, DropCreate, Publish,
        CleanupDrafts, RemoveDirectory, Crash, rows, calls, ghosts
<1> QED BY <1>1, <1>2, <1>3, <1>4, <1>5, <1>6, <1>7, <1>8, <1>9, <1>10, <1>11, <1>12 DEF
    Next, RequestFeedback, SubmitFeedback, ChangeSession, DeleteStep

\* Every step keeps what is known of a creation.
LEMMA CreatePreserved == TypeOK /\ CallInv /\ [Next]_vars => CreateInv'
<1> SUFFICES ASSUME TypeOK, CreateInv, PlanInv, HeldInv, RemovalInv, [Next]_vars
             PROVE  CreateInv'
    BY DEF CallInv
<1>0. Shape
    BY TypesShape
<1> USE DEF CreateInv, StagedBy, Stored
<1>1. CASE UNCHANGED <<stored, creating, gone, disk>>
    BY <1>1
<1>2. ASSUME NEW a \in Agents, NEW r \in Requests, NEW input \in Inputs, BeginCreate(a, r, input)
      PROVE  CreateInv'
    BY <1>2, BeginCreateDoes DEF CreatedByOthers, Creating
<1>3. ASSUME NEW a \in Agents, StageAttachment(a) PROVE CreateInv'
    BY <1>3, StageAttachmentDoes DEF CreatedByOthers, Creating
<1>4. ASSUME NEW a \in Agents, CommitCreate(a) PROVE CreateInv'
    <2>1. /\ creating[a] # None /\ creating'[a] = None
          /\ \A b \in Agents \ {a} : creating'[b] = creating[b]
        BY <1>4, CommitCreateDoes DEF CreatedByOthers
    <2>2. \A b \in Agents : creating'[b] = None
        BY <1>0, <2>1 DEF Shape
    <2> QED BY <2>2
<1>5. ASSUME NEW a \in Agents, FailCreate(a) PROVE CreateInv'
    <2>1. /\ creating[a] # None /\ creating'[a] = None
          /\ \A b \in Agents \ {a} : creating'[b] = creating[b]
        BY <1>5, FailCreateDoes DEF CreationEnds, CreatedByOthers
    <2>2. \A b \in Agents : creating'[b] = None
        BY <1>0, <2>1 DEF Shape
    <2> QED BY <2>2
<1>6. ASSUME NEW a \in Agents, DropCreate(a) PROVE CreateInv'
    BY <1>6, DropCreateDoes DEF CreationEnds, CreatedByOthers
<1>7. ASSUME NEW r \in Requests, SaveDraft(r) PROVE CreateInv'
    <2>1. Updated(r) /\ UNCHANGED <<creating, gone, disk>>
        BY <1>7, SaveDraftDoes
    <2> QED BY <1>0, <2>1, UpdatedIsStored DEF Shape
<1>8. ASSUME NEW r \in Requests, ApproveRequest(r) PROVE CreateInv'
    <2>1. Updated(r) /\ UNCHANGED <<creating, gone, disk>>
        BY <1>8, ApproveRequestDoes
    <2> QED BY <1>0, <2>1, UpdatedIsStored DEF Shape
<1>9. ASSUME NEW p \in Publishers, NEW r \in Requests, PlanSubmission(p, r) PROVE CreateInv'
    <2>1. stored' = stored \/ Updated(r)
        BY <1>9, PlanSubmissionDoes
    <2>2. UNCHANGED <<creating, gone, disk>>
        BY <1>9, PlanSubmissionDoes
    <2> QED BY <1>0, <2>1, <2>2, UpdatedIsStored DEF Shape
<1>10. ASSUME NEW p \in Publishers, Publish(p) PROVE CreateInv'
    BY <1>10, PublishDoes DEF HeldByOthers, Held
<1>11. ASSUME NEW p \in Publishers, Complete(p) PROVE CreateInv'
    <2>1. publishing[p].request \in Requests
        BY <1>11, <1>0, CompleteDoes DEF Shape
    <2>2. stored' = stored \/ Updated(publishing[p].request)
        BY <1>11, CompleteDoes
    <2>3. UNCHANGED <<creating, gone, disk>>
        BY <1>11, CompleteDoes
    <2> QED BY <1>0, <2>1, <2>2, <2>3, UpdatedIsStored DEF Shape
<1>12. ASSUME NEW p \in Publishers, CleanupDrafts(p) PROVE CreateInv'
    <2>1. /\ publishing[p] # None /\ publishing[p].at = "cleanup"
          /\ \A f \in disk \ disk' : f.request = publishing[p].request
          /\ UNCHANGED <<stored, creating, gone>>
        BY <1>12, CleanupDraftsDoes DEF DraftsOf
    <2>2. publishing[p].request \in gone \/ Stored(publishing[p].request)
        BY <2>1 DEF HeldInv
    <2>3. ASSUME NEW b \in Agents, creating[b] # None, creating[b].request \notin gone
          PROVE  StagedBy(b) \subseteq disk'
        <3>1. \A f \in StagedBy(b) : f.request = creating[b].request
            BY DEF Attachment
        <3>2. publishing[p].request # creating[b].request
            BY <2>2, <2>3
        <3> QED BY <2>1, <2>3, <3>1, <3>2
    <2> QED BY <2>1, <2>3
<1>13. ASSUME NEW d \in Deleters, NEW s \in Sessions, DeleteSession(d, s) PROVE CreateInv'
    <2>1. PICK rs \in SUBSET Requests : \E ss : Deleted(d, rs, ss)
        BY <1>13, DeleteSessionDoes DEF RequestsOf
    <2>2. /\ \A q \in Requests : Stored(q)' => Stored(q)
          /\ gone \subseteq gone' /\ UNCHANGED <<creating, disk>>
        BY <2>1 DEF Deleted
    <2> QED BY <1>0, <2>2 DEF Shape
<1>14. ASSUME NEW d \in Deleters, NEW r \in Requests, DeleteRequest(d, r) PROVE CreateInv'
    <2>1. PICK rs \in SUBSET Requests : \E ss : Deleted(d, rs, ss)
        BY <1>14, DeleteRequestDoes DEF RequestsOf
    <2>2. /\ \A q \in Requests : Stored(q)' => Stored(q)
          /\ gone \subseteq gone' /\ UNCHANGED <<creating, disk>>
        BY <2>1 DEF Deleted
    <2> QED BY <1>0, <2>2 DEF Shape
<1>15. ASSUME NEW d \in Deleters, RemoveDirectory(d) PROVE CreateInv'
    <2>1. /\ \A f \in disk \ disk' : f \in removing[d]
          /\ UNCHANGED <<stored, creating, gone>>
        BY <1>15, RemoveDirectoryDoes
    <2>2. \A f \in disk \ disk' : f.request \in gone
        BY <2>1 DEF RemovalInv
    <2>3. ASSUME NEW b \in Agents, creating[b] # None, creating[b].request \notin gone
          PROVE  StagedBy(b) \subseteq disk'
        <3>1. \A f \in StagedBy(b) : f.request = creating[b].request
            BY DEF Attachment
        <3> QED BY <2>2, <2>3, <3>1
    <2> QED BY <2>1, <2>3
<1>16. CASE Crash
    BY <1>16 DEF Crash, rows, calls, ghosts
<1>17. ASSUME \/ UNCHANGED vars
              \/ \E s \in Sessions : SetPinned(s)
              \/ \E s \in Sessions : ArchiveSession(s)
              \/ \E s \in Sessions : UnarchiveSession(s)
      PROVE  UNCHANGED <<stored, creating, gone, disk>>
    BY <1>17 DEF vars, SetPinned, ArchiveSession, UnarchiveSession, rows, calls, ghosts
<1> QED BY <1>1, <1>2, <1>3, <1>4, <1>5, <1>6, <1>7, <1>8, <1>9, <1>10, <1>11, <1>12,
    <1>13, <1>14, <1>15, <1>16, <1>17 DEF Next, RequestFeedback, SubmitFeedback,
    ChangeSession, DeleteStep

\* Every step keeps what is known of the plans.
LEMMA PlanPreserved == TypeOK /\ CallInv /\ [Next]_vars => PlanInv'
<1> SUFFICES ASSUME TypeOK, PlanInv, [Next]_vars PROVE PlanInv'
    BY DEF CallInv
<1>0. Shape
    BY TypesShape
<1> USE DEF PlanInv, Stored, Open
<1>1. CASE UNCHANGED <<stored, made, gone, reborn>>
    BY <1>1
<1>2. ASSUME NEW a \in Agents, StageAttachment(a) PROVE PlanInv'
    <2>1. made' = made + 1 /\ UNCHANGED <<stored, gone, reborn>>
        BY <1>2, StageAttachmentDoes
    <2>2. /\ made \in Nat
          /\ \A r \in Requests : Stored(r) /\ stored[r].plan # None => stored[r].plan \in Nat
        BY <1>0 DEF Shape
    <2> QED BY <2>1, <2>2
<1>3. ASSUME NEW a \in Agents, CommitCreate(a) PROVE PlanInv'
    <2> DEFINE new == creating[a].request
    <2>1. /\ new \in Requests /\ stored'[new].plan = None /\ stored'[new].delivered = FALSE
          /\ \A q \in Requests \ {new} : stored'[q] = stored[q]
          /\ reborn' = reborn \cup ({new} \cap gone)
          /\ UNCHANGED <<made, gone>>
        BY <1>3, CommitCreateDoes
    <2> HIDE DEF new
    <2> QED BY <1>0, <2>1 DEF Shape
<1>4. ASSUME NEW r \in Requests, SaveDraft(r) PROVE PlanInv'
    BY <1>4, SaveDraftDoes DEF Updated
<1>5. ASSUME NEW r \in Requests, ApproveRequest(r) PROVE PlanInv'
    BY <1>5, ApproveRequestDoes DEF Updated
<1>6. ASSUME NEW p \in Publishers, NEW r \in Requests, PlanSubmission(p, r) PROVE PlanInv'
    <2>1. /\ stored[r].status = "in_progress" /\ Stored(r) /\ UNCHANGED <<gone, reborn>>
          /\ \/ stored' = stored /\ made' = made
             \/ /\ made' = made + 1 /\ Updated(r) /\ stored'[r].status = "in_progress"
                /\ stored'[r].plan = made + 1 /\ stored'[r].delivered = stored[r].delivered
        BY <1>6, PlanSubmissionDoes
    <2>2. CASE stored' = stored /\ made' = made
        BY <2>1, <2>2
    <2>3. CASE /\ made' = made + 1 /\ Updated(r) /\ stored'[r].status = "in_progress"
               /\ stored'[r].plan = made + 1 /\ stored'[r].delivered = stored[r].delivered
        <3>1. /\ made \in Nat
              /\ \A q \in Requests : Stored(q) /\ stored[q].plan # None => stored[q].plan \in Nat
            BY <1>0 DEF Shape
        <3>2. \A q \in Requests \ {r} : stored'[q] = stored[q]
            BY <2>3 DEF Updated
        <3>3. ~stored[r].delivered /\ (r \in gone => r \in reborn)
            BY <2>1
        <3> QED BY <2>1, <2>3, <3>1, <3>2, <3>3
    <2> QED BY <2>1, <2>2, <2>3
<1>7. ASSUME NEW p \in Publishers, Complete(p) PROVE PlanInv'
    BY <1>7, CompleteDoes DEF Updated, HeldByOthers, Held
<1>8. ASSUME NEW d \in Deleters, NEW s \in Sessions, DeleteSession(d, s) PROVE PlanInv'
    BY <1>8, DeleteSessionDoes DEF Deleted
<1>9. ASSUME NEW d \in Deleters, NEW r \in Requests, DeleteRequest(d, r) PROVE PlanInv'
    <2>1. /\ stored'[r] = None /\ \A q \in Requests \ {r} : stored'[q] = stored[q]
          /\ gone' = gone \cup {r} /\ reborn' = reborn \ {r} /\ made' = made
        BY <1>9, DeleteRequestDoes DEF Deleted
    <2> QED BY <1>0, <2>1 DEF Shape
<1>10. ASSUME \/ UNCHANGED vars
              \/ \E a \in Agents, r \in Requests, input \in Inputs : BeginCreate(a, r, input)
              \/ \E a \in Agents : FailCreate(a)
              \/ \E a \in Agents : DropCreate(a)
              \/ \E p \in Publishers : Publish(p)
              \/ \E p \in Publishers : CleanupDrafts(p)
              \/ \E s \in Sessions : SetPinned(s)
              \/ \E s \in Sessions : ArchiveSession(s)
              \/ \E s \in Sessions : UnarchiveSession(s)
              \/ \E d \in Deleters : RemoveDirectory(d)
              \/ Crash
      PROVE  UNCHANGED <<stored, made, gone, reborn>>
BY <1>10 DEF vars, BeginCreate, FailCreate, DropCreate, Publish, CleanupDrafts,
        SetPinned, ArchiveSession, UnarchiveSession, RemoveDirectory, Crash, rows,
        calls, ghosts
<1> QED BY <1>1, <1>2, <1>3, <1>4, <1>5, <1>6, <1>7, <1>8, <1>9, <1>10 DEF Next,
    RequestFeedback, SubmitFeedback, ChangeSession, DeleteStep

\* Every step keeps what is known of a submission.
LEMMA HeldPreserved == TypeOK /\ CallInv /\ [Next]_vars => HeldInv'
<1> SUFFICES ASSUME TypeOK, CreateInv, PlanInv, HeldInv, RemovalInv, [Next]_vars
             PROVE  HeldInv'
    BY DEF CallInv
<1>0. Shape
    BY TypesShape
<1> USE DEF HeldInv, Lost, Stored, Open
<1>1. CASE UNCHANGED <<stored, publishing, made, gone, disk>>
    BY <1>1
<1>2. ASSUME NEW a \in Agents, StageAttachment(a) PROVE HeldInv'
    <2>1. made' = made + 1 /\ disk \subseteq disk' /\ UNCHANGED <<stored, publishing, gone>>
        BY <1>2, StageAttachmentDoes
    <2>2. made \in Nat /\ \A p \in Publishers : publishing[p] # None => publishing[p].id \in Nat
        BY <1>0 DEF Shape
    <2> QED BY <2>1, <2>2
<1>3. ASSUME NEW a \in Agents, CommitCreate(a) PROVE HeldInv'
    <2> DEFINE new == creating[a].request
    <2>1. /\ new \in Requests /\ ~Stored(new) /\ stored'[new].plan = None /\ stored'[new] # None
          /\ \A q \in Requests \ {new} : stored'[q] = stored[q]
          /\ UNCHANGED <<publishing, made, gone, disk>>
        BY <1>3, CommitCreateDoes DEF CreateInv
    <2> HIDE DEF new
    <2>2. \A p \in Publishers : publishing[p] # None =>
              publishing[p].request \in Requests /\ publishing[p].id # None
        BY <1>0 DEF Shape
    <2> QED BY <2>1, <2>2
<1>4. ASSUME NEW a \in Agents, FailCreate(a) PROVE HeldInv'
    <2>1. disk \ StagedBy(a) \subseteq disk' /\ UNCHANGED <<stored, publishing, made, gone>>
        BY <1>4, FailCreateDoes DEF CreationEnds
    <2>2. \A r \in Requests, i \in Ids : Package(r, i) \notin StagedBy(a)
        BY DEF Package, Attachment, StagedBy
    <2> QED BY <1>0, <2>1, <2>2 DEF Shape
<1>5. ASSUME NEW a \in Agents, DropCreate(a) PROVE HeldInv'
    BY <1>5, DropCreateDoes DEF CreationEnds, CreatedByOthers
<1>6. ASSUME NEW r \in Requests, SaveDraft(r) PROVE HeldInv'
    <2>1. /\ Updated(r) /\ Open(r) /\ stored'[r].plan = stored[r].plan
          /\ UNCHANGED <<publishing, made, gone, disk>>
        BY <1>6, SaveDraftDoes
    <2>2. \A q \in Requests : (Stored(q)' <=> Stored(q)) /\ stored'[q].plan = stored[q].plan
        BY <2>1, UpdatedIsStored DEF Updated
    <2>3. \A q \in Requests : ~Open(q) => ~Open(q)'
        BY <2>1 DEF Updated
    <2> QED BY <1>0, <2>1, <2>2, <2>3 DEF Shape
<1>7. ASSUME NEW r \in Requests, ApproveRequest(r) PROVE HeldInv'
    <2>1. /\ Updated(r) /\ Open(r) /\ stored'[r].plan = stored[r].plan
          /\ UNCHANGED <<publishing, made, gone, disk>>
        BY <1>7, ApproveRequestDoes
    <2>2. \A q \in Requests : (Stored(q)' <=> Stored(q)) /\ stored'[q].plan = stored[q].plan
        BY <2>1, UpdatedIsStored DEF Updated
    <2>3. \A q \in Requests : ~Open(q) => ~Open(q)'
        BY <2>1 DEF Updated
    <2> QED BY <1>0, <2>1, <2>2, <2>3 DEF Shape
<1>8. ASSUME NEW p \in Publishers, NEW r \in Requests, PlanSubmission(p, r) PROVE HeldInv'
    <2>1. /\ Stored(r) /\ stored[r].status = "in_progress" /\ publishing[p] = None
          /\ \A q \in Publishers \ {p} : publishing'[q] = publishing[q]
          /\ publishing'[p].at = "publish" /\ publishing'[p].id <= made'
          /\ UNCHANGED <<disk, gone>>
        <3>1. /\ stored[r].plan # None /\ stored'= stored /\ made' = made =>
                    stored[r].plan <= made
              /\ made \in Nat /\ Stored(r)
            BY <1>8, <1>0, PlanSubmissionDoes DEF Shape, PlanInv
        <3> QED BY <1>8, <3>1, PlanSubmissionDoes DEF HeldByOthers, Held
    <2>2. /\ made <= made' /\ made \in Nat /\ made' \in Nat
          /\ \/ stored' = stored
             \/ /\ Updated(r) /\ stored'[r].plan = made + 1
                /\ stored'[r].status = "in_progress"
        BY <1>8, <1>0, PlanSubmissionDoes DEF Shape
    <2>3. ASSUME NEW q \in Publishers \ {p}, publishing[q] # None
          PROVE  /\ publishing[q].request \in Requests /\ publishing[q].id \in Nat
                 /\ publishing[q].id # made + 1 /\ publishing[q].id <= made'
        <3>1. /\ publishing[q].request \in Requests /\ publishing[q].id \in Nat
              /\ publishing[q].id <= made
            BY <1>0, <2>3 DEF Shape
        <3> QED BY <2>2, <3>1
    <2>4. \A q \in Requests : /\ Stored(q)' <=> Stored(q)
                              /\ stored'[q].plan \in {stored[q].plan, made + 1}
                              /\ ~Open(q) => ~Open(q)'
        <3>1. CASE stored' = stored
            BY <3>1
        <3>2. CASE Updated(r) /\ stored'[r].plan = made + 1 /\ stored'[r].status = "in_progress"
            BY <2>1, <3>2, UpdatedIsStored DEF Updated
        <3> QED BY <2>2, <3>1, <3>2
    <2> QED BY <2>1, <2>3, <2>4
<1>9. ASSUME NEW p \in Publishers, Publish(p) PROVE HeldInv'
    BY <1>9, PublishDoes DEF HeldByOthers, Held
<1>10. ASSUME NEW p \in Publishers, Complete(p) PROVE HeldInv'
    <2>1. /\ publishing[p] # None /\ HeldByOthers(p)
          /\ \/ /\ stored' = stored /\ publishing'[p] = None
             \/ /\ Updated(publishing[p].request)
                /\ stored'[publishing[p].request].plan = stored[publishing[p].request].plan
                /\ stored'[publishing[p].request].status = "completed"
                /\ Held(p, publishing[p].request, publishing[p].id, "cleanup")
          /\ UNCHANGED <<disk, made, gone>>
        BY <1>10, CompleteDoes
    <2>2. \A q \in Publishers : publishing[q] # None => publishing[q].request \in Requests
        BY <1>0 DEF Shape
    <2>3. CASE stored' = stored /\ publishing'[p] = None
        BY <2>1, <2>3 DEF HeldByOthers
    <2>4. CASE /\ Updated(publishing[p].request)
               /\ stored'[publishing[p].request].plan = stored[publishing[p].request].plan
               /\ stored'[publishing[p].request].status = "completed"
               /\ Held(p, publishing[p].request, publishing[p].id, "cleanup")
        <3>1. \A q \in Requests : /\ Stored(q)' <=> Stored(q)
                                  /\ stored'[q].plan = stored[q].plan
                                  /\ ~Open(q) => ~Open(q)'
            BY <2>1, <2>2, <2>4, UpdatedIsStored DEF Updated
        <3>2. /\ Stored(publishing[p].request)' /\ ~Open(publishing[p].request)'
              /\ publishing'[p].request = publishing[p].request
              /\ publishing'[p].id = publishing[p].id /\ publishing'[p].at = "cleanup"
            BY <2>4 DEF Updated, Held
        <3> QED BY <2>1, <2>2, <3>1, <3>2 DEF HeldByOthers
    <2> QED BY <2>1, <2>3, <2>4
<1>11. ASSUME NEW p \in Publishers, CleanupDrafts(p) PROVE HeldInv'
    <2>1. /\ publishing'[p] = None
          /\ \A q \in Publishers \ {p} : publishing'[q] = publishing[q]
          /\ \A f \in disk \ disk' : f.folder = "drafts"
          /\ UNCHANGED <<stored, made, gone>>
        BY <1>11, CleanupDraftsDoes DEF HeldByOthers, DraftsOf
    <2>2. \A r \in Requests, i \in Ids : Package(r, i).folder = "feedback"
        BY DEF Package
    <2> QED BY <1>0, <2>1, <2>2 DEF Shape
<1>12. ASSUME NEW d \in Deleters, NEW s \in Sessions, DeleteSession(d, s) PROVE HeldInv'
    <2>1. PICK rs \in SUBSET Requests : \E ss : Deleted(d, rs, ss)
        BY <1>12, DeleteSessionDoes DEF RequestsOf
    <2>2. /\ \A q \in rs : stored'[q] = None
          /\ \A q \in Requests \ rs : stored'[q] = stored[q]
          /\ gone' = gone \cup rs /\ UNCHANGED <<publishing, disk, made>>
        BY <2>1 DEF Deleted
    <2> QED BY <1>0, <2>2 DEF Shape
<1>13. ASSUME NEW d \in Deleters, NEW r \in Requests, DeleteRequest(d, r) PROVE HeldInv'
    <2>1. PICK rs \in SUBSET Requests : \E ss : Deleted(d, rs, ss)
        BY <1>13, DeleteRequestDoes DEF RequestsOf
    <2>2. /\ \A q \in rs : stored'[q] = None
          /\ \A q \in Requests \ rs : stored'[q] = stored[q]
          /\ gone' = gone \cup rs /\ UNCHANGED <<publishing, disk, made>>
        BY <2>1 DEF Deleted
    <2> QED BY <1>0, <2>2 DEF Shape
<1>14. ASSUME NEW d \in Deleters, RemoveDirectory(d) PROVE HeldInv'
    <2>1. /\ \A f \in disk \ disk' : f \in removing[d]
          /\ UNCHANGED <<stored, publishing, made, gone>>
        BY <1>14, RemoveDirectoryDoes
    <2>2. ASSUME NEW p \in Publishers, publishing[p] # None, ~Lost(p)
          PROVE  Package(publishing[p].request, publishing[p].id) \notin removing[d]
        <3> DEFINE package == Package(publishing[p].request, publishing[p].id)
        <3>1. /\ package.folder = "feedback" /\ package.id = publishing[p].id
              /\ package.request = publishing[p].request
            BY DEF Package
        <3>2. publishing[p].request \in gone => Stored(publishing[p].request)
            BY <2>2
        <3> QED BY <2>2, <3>1 DEF RemovalInv
    <2> QED BY <2>1, <2>2
<1>15. CASE Crash
    BY <1>15 DEF Crash, rows, calls, ghosts
<1>16. ASSUME \/ UNCHANGED vars
              \/ \E a \in Agents, r \in Requests, input \in Inputs : BeginCreate(a, r, input)
              \/ \E s \in Sessions : SetPinned(s)
              \/ \E s \in Sessions : ArchiveSession(s)
              \/ \E s \in Sessions : UnarchiveSession(s)
      PROVE  UNCHANGED <<stored, publishing, made, gone, disk>>
BY <1>16 DEF vars, BeginCreate, SetPinned, ArchiveSession, UnarchiveSession, rows,
        calls, ghosts
<1> QED BY <1>1, <1>2, <1>3, <1>4, <1>5, <1>6, <1>7, <1>8, <1>9, <1>10, <1>11, <1>12,
    <1>13, <1>14, <1>15, <1>16 DEF Next, RequestFeedback, SubmitFeedback, ChangeSession,
    DeleteStep

\* Every step keeps what is known of a deletion.
LEMMA RemovalPreserved == TypeOK /\ CallInv /\ [Next]_vars => RemovalInv'
<1> SUFFICES ASSUME TypeOK, CreateInv, PlanInv, HeldInv, RemovalInv, [Next]_vars
             PROVE  RemovalInv'
    BY DEF CallInv
<1>0. Shape
    BY TypesShape
<1> USE DEF RemovalInv, Stored
<1>1. CASE UNCHANGED <<stored, removing, made, gone>>
    BY <1>1
<1>2. ASSUME NEW a \in Agents, StageAttachment(a) PROVE RemovalInv'
    <2>1. made' = made + 1 /\ UNCHANGED <<stored, removing, gone>>
        BY <1>2, StageAttachmentDoes
    <2>2. made \in Nat /\ \A d \in Deleters : \A f \in removing[d] : f.id \in Nat
        BY <1>0 DEF Shape, Files
    <2> QED BY <2>1, <2>2
<1>3. ASSUME NEW a \in Agents, CommitCreate(a) PROVE RemovalInv'
    <2> DEFINE new == creating[a].request
    <2>1. /\ new \in Requests /\ stored'[new].plan = None
          /\ \A q \in Requests \ {new} : stored'[q] = stored[q]
          /\ UNCHANGED <<removing, made, gone>>
        BY <1>3, CommitCreateDoes
    <2> HIDE DEF new
    <2>2. \A d \in Deleters : \A f \in removing[d] : f.request \in Requests /\ f.id # None
        BY <1>0 DEF Shape, Files
    <2> QED BY <2>1, <2>2
<1>4. ASSUME NEW r \in Requests, SaveDraft(r) PROVE RemovalInv'
    <2>1. /\ \A q \in Requests : (Stored(q)' <=> Stored(q)) /\ stored'[q].plan = stored[q].plan
          /\ UNCHANGED <<removing, made, gone>>
        BY <1>4, SaveDraftDoes, UpdatedIsStored DEF Updated
    <2>2. \A d \in Deleters : \A f \in removing[d] : f.request \in Requests
        BY <1>0 DEF Shape, Files
    <2> QED BY <2>1, <2>2
<1>5. ASSUME NEW r \in Requests, ApproveRequest(r) PROVE RemovalInv'
    <2>1. /\ \A q \in Requests : (Stored(q)' <=> Stored(q)) /\ stored'[q].plan = stored[q].plan
          /\ UNCHANGED <<removing, made, gone>>
        BY <1>5, ApproveRequestDoes, UpdatedIsStored DEF Updated
    <2>2. \A d \in Deleters : \A f \in removing[d] : f.request \in Requests
        BY <1>0 DEF Shape, Files
    <2> QED BY <2>1, <2>2
<1>6. ASSUME NEW p \in Publishers, NEW r \in Requests, PlanSubmission(p, r)
      PROVE  RemovalInv'
    <2>1. /\ \/ stored' = stored /\ made' = made
             \/ made' = made + 1 /\ Updated(r) /\ stored'[r].plan = made + 1
          /\ UNCHANGED <<removing, gone>>
        BY <1>6, PlanSubmissionDoes
    <2>2. ASSUME NEW q \in Requests
          PROVE  (Stored(q)' <=> Stored(q)) /\ stored'[q].plan \in {stored[q].plan, made + 1}
        BY <2>1, UpdatedIsStored DEF Updated
    <2>3. made \in Nat /\ made <= made' /\ made' \in Nat
        BY <1>0, <2>1 DEF Shape
    <2>4. ASSUME NEW d \in Deleters, NEW f \in removing[d]
          PROVE  f.request \in Requests /\ f.id \in Nat
        BY <1>0 DEF Shape, Files
    <2> QED BY <2>1, <2>2, <2>3, <2>4
<1>7. ASSUME NEW p \in Publishers, Complete(p) PROVE RemovalInv'
    <2>1. publishing[p].request \in Requests
        BY <1>7, <1>0, CompleteDoes DEF Shape
    <2>2. /\ \/ stored' = stored
             \/ /\ Updated(publishing[p].request)
                /\ stored'[publishing[p].request].plan = stored[publishing[p].request].plan
          /\ UNCHANGED <<removing, made, gone>>
        BY <1>7, CompleteDoes
    <2>3. \A q \in Requests : (Stored(q)' <=> Stored(q)) /\ stored'[q].plan = stored[q].plan
        BY <2>1, <2>2, UpdatedIsStored DEF Updated
    <2>4. \A d \in Deleters : \A f \in removing[d] : f.request \in Requests
        BY <1>0 DEF Shape, Files
    <2> QED BY <2>2, <2>3, <2>4
<1>8. ASSUME NEW d \in Deleters, NEW s \in Sessions, DeleteSession(d, s) PROVE RemovalInv'
    <2>1. PICK rs \in SUBSET Requests : \E ss : Deleted(d, rs, ss)
        BY <1>8, DeleteSessionDoes DEF RequestsOf
    <2>2. /\ \A q \in rs : stored'[q] = None /\ Stored(q)
          /\ \A q \in Requests \ rs : stored'[q] = stored[q]
          /\ gone' = gone \cup rs /\ made' = made
          /\ removing'[d] = DeletionArtifacts(rs)
          /\ \A e \in Deleters \ {d} : removing'[e] = removing[e]
        BY <2>1 DEF Deleted
    <2>3. ASSUME NEW f \in DeletionArtifacts(rs)
          PROVE  f.request \in rs /\ (f.folder = "feedback" => f.id <= made)
        <3>1. /\ f \in Files /\ f.request \in rs
              /\ f.folder = "drafts" \/ f.id = stored[f.request].plan
            BY DEF DeletionArtifacts
        <3>2. f.id # None
            BY <1>0, <3>1 DEF Shape, Files
        <3> QED BY <2>2, <3>1, <3>2 DEF PlanInv
    <2>4. \A e \in Deleters : \A f \in removing[e] : f.request \in Requests
        BY <1>0 DEF Shape
    <2>5. \A f \in removing'[d] :
             /\ f.request \in gone'
             /\ f.folder = "feedback" =>
                   /\ f.id <= made'
                   /\ Stored(f.request)' => stored'[f.request].plan # f.id
        BY <2>2, <2>3
    <2>6. \A e \in Deleters \ {d} : \A f \in removing'[e] :
             /\ f.request \in gone'
             /\ f.folder = "feedback" =>
                   /\ f.id <= made'
                   /\ Stored(f.request)' => stored'[f.request].plan # f.id
        BY <2>2, <2>4
    <2> QED BY <2>5, <2>6
<1>9. ASSUME NEW d \in Deleters, NEW r \in Requests, DeleteRequest(d, r) PROVE RemovalInv'
    <2>1. PICK rs \in SUBSET Requests : \E ss : Deleted(d, rs, ss)
        BY <1>9, DeleteRequestDoes DEF RequestsOf
    <2>2. /\ \A q \in rs : stored'[q] = None /\ Stored(q)
          /\ \A q \in Requests \ rs : stored'[q] = stored[q]
          /\ gone' = gone \cup rs /\ made' = made
          /\ removing'[d] = DeletionArtifacts(rs)
          /\ \A e \in Deleters \ {d} : removing'[e] = removing[e]
        BY <2>1 DEF Deleted
    <2>3. ASSUME NEW f \in DeletionArtifacts(rs)
          PROVE  f.request \in rs /\ (f.folder = "feedback" => f.id <= made)
        <3>1. /\ f \in Files /\ f.request \in rs
              /\ f.folder = "drafts" \/ f.id = stored[f.request].plan
            BY DEF DeletionArtifacts
        <3>2. f.id # None
            BY <1>0, <3>1 DEF Shape, Files
        <3> QED BY <2>2, <3>1, <3>2 DEF PlanInv
    <2>4. \A e \in Deleters : \A f \in removing[e] : f.request \in Requests
        BY <1>0 DEF Shape
    <2>5. \A f \in removing'[d] :
             /\ f.request \in gone'
             /\ f.folder = "feedback" =>
                   /\ f.id <= made'
                   /\ Stored(f.request)' => stored'[f.request].plan # f.id
        BY <2>2, <2>3
    <2>6. \A e \in Deleters \ {d} : \A f \in removing'[e] :
             /\ f.request \in gone'
             /\ f.folder = "feedback" =>
                   /\ f.id <= made'
                   /\ Stored(f.request)' => stored'[f.request].plan # f.id
        BY <2>2, <2>4
    <2> QED BY <2>5, <2>6
<1>10. ASSUME NEW d \in Deleters, RemoveDirectory(d) PROVE RemovalInv'
    <2>1. /\ removing'[d] \subseteq removing[d]
          /\ \A e \in Deleters \ {d} : removing'[e] = removing[e]
          /\ UNCHANGED <<stored, made, gone>>
        BY <1>10, RemoveDirectoryDoes
    <2> QED BY <2>1
<1>11. CASE Crash
    BY <1>11 DEF Crash, rows, calls, ghosts
<1>12. ASSUME \/ UNCHANGED vars
              \/ \E a \in Agents, r \in Requests, input \in Inputs : BeginCreate(a, r, input)
              \/ \E a \in Agents : FailCreate(a)
              \/ \E a \in Agents : DropCreate(a)
              \/ \E p \in Publishers : Publish(p)
              \/ \E p \in Publishers : CleanupDrafts(p)
              \/ \E s \in Sessions : SetPinned(s)
              \/ \E s \in Sessions : ArchiveSession(s)
              \/ \E s \in Sessions : UnarchiveSession(s)
      PROVE  UNCHANGED <<stored, removing, made, gone>>
BY <1>12 DEF vars, BeginCreate, FailCreate, DropCreate, Publish, CleanupDrafts,
        SetPinned, ArchiveSession, UnarchiveSession, rows, calls, ghosts
<1> QED BY <1>1, <1>2, <1>3, <1>4, <1>5, <1>6, <1>7, <1>8, <1>9, <1>10, <1>11, <1>12 DEF
    Next, RequestFeedback, SubmitFeedback, ChangeSession, DeleteStep

\* Every step keeps the files that are stored.
LEMMA FilesPreserved == TypeOK /\ CallInv /\ StoredFilesExist /\ [Next]_vars => StoredFilesExist'
<1> SUFFICES ASSUME TypeOK, CreateInv, PlanInv, HeldInv, RemovalInv, StoredFilesExist, [Next]_vars
             PROVE  StoredFilesExist'
    BY DEF CallInv
<1>0. Shape
    BY TypesShape
<1> USE DEF StoredFilesExist, Stored, Open
<1>1. CASE UNCHANGED <<stored, reborn, disk>>
    BY <1>1
<1>2. ASSUME NEW a \in Agents, StageAttachment(a) PROVE StoredFilesExist'
    <2>1. disk \subseteq disk' /\ UNCHANGED <<stored, reborn>>
        BY <1>2, StageAttachmentDoes
    <2> QED BY <2>1
<1>3. ASSUME NEW a \in Agents, CommitCreate(a) PROVE StoredFilesExist'
    <2> DEFINE new == creating[a].request
    <2>1. /\ new \in Requests /\ creating[a] # None
          /\ stored'[new].delivered = FALSE /\ stored'[new].attachments = creating[a].staged
          /\ \A q \in Requests \ {new} : stored'[q] = stored[q]
          /\ reborn' = reborn \cup ({new} \cap gone) /\ disk' = disk
        BY <1>3, CommitCreateDoes
    <2>2. new \notin gone => \A i \in creating[a].staged : Attachment(new, i) \in disk
        BY <2>1 DEF CreateInv, StagedBy
    <2> HIDE DEF new
    <2> QED BY <2>1, <2>2
<1>4. ASSUME NEW a \in Agents, FailCreate(a) PROVE StoredFilesExist'
    <2>1. /\ disk \ StagedBy(a) \subseteq disk' /\ creating[a] # None
          /\ UNCHANGED <<stored, reborn>>
        BY <1>4, FailCreateDoes DEF CreationEnds
    <2>2. \A f \in StagedBy(a) : f.request = creating[a].request /\ f.folder = "drafts"
        BY DEF StagedBy, Attachment
    <2>3. \A r \in Requests : Stored(r) => r # creating[a].request
        BY <2>1 DEF CreateInv
    <2>4. \A r \in Requests, i \in Ids : /\ Attachment(r, i).request = r
                                         /\ Package(r, i).request = r
        BY DEF Attachment, Package
    <2>5. ASSUME NEW r \in Requests, Open(r), r \notin reborn, NEW i \in stored[r].attachments
          PROVE  Attachment(r, i) \in disk'
        BY <1>0, <2>1, <2>2, <2>3, <2>4, <2>5 DEF Shape
    <2>6. ASSUME NEW r \in Requests, Stored(r), stored[r].delivered
          PROVE  Package(r, stored[r].plan) \in disk'
        <3>1. Package(r, stored[r].plan).request = r /\ Package(r, stored[r].plan) \in disk
            BY <2>6 DEF Package
        <3> QED BY <2>1, <2>2, <2>3, <2>6, <3>1
    <2> QED BY <2>1, <2>5, <2>6
<1>5. ASSUME NEW r \in Requests, SaveDraft(r) PROVE StoredFilesExist'
    <2>1. /\ \A q \in Requests :
                /\ Stored(q)' <=> Stored(q)
                /\ stored'[q].plan = stored[q].plan /\ stored'[q].delivered = stored[q].delivered
                /\ stored'[q].attachments = stored[q].attachments
          /\ UNCHANGED <<disk, reborn>>
        BY <1>5, SaveDraftDoes, UpdatedIsStored DEF Updated
    <2>2. \A q \in Requests : Open(q)' => Open(q)
        BY <1>5, SaveDraftDoes DEF Updated
    <2> QED BY <2>1, <2>2
<1>6. ASSUME NEW r \in Requests, ApproveRequest(r) PROVE StoredFilesExist'
    <2>1. /\ \A q \in Requests :
                /\ Stored(q)' <=> Stored(q)
                /\ stored'[q].plan = stored[q].plan /\ stored'[q].delivered = stored[q].delivered
                /\ stored'[q].attachments = stored[q].attachments
          /\ UNCHANGED <<disk, reborn>>
        BY <1>6, ApproveRequestDoes, UpdatedIsStored DEF Updated
    <2>2. \A q \in Requests : Open(q)' => Open(q)
        BY <1>6, ApproveRequestDoes DEF Updated
    <2> QED BY <2>1, <2>2
<1>7. ASSUME NEW p \in Publishers, NEW r \in Requests, PlanSubmission(p, r)
      PROVE  StoredFilesExist'
    <2>1. /\ Stored(r) /\ stored[r].status = "in_progress" /\ UNCHANGED <<disk, reborn>>
          /\ \/ stored' = stored
             \/ /\ Updated(r) /\ stored'[r].delivered = stored[r].delivered
        BY <1>7, PlanSubmissionDoes
    <2>2. CASE stored' = stored
        BY <2>1, <2>2
    <2>3. CASE Updated(r) /\ stored'[r].delivered = stored[r].delivered
        <3>1. ~stored'[r].delivered
            BY <2>1, <2>3 DEF PlanInv
        <3>2. \A q \in Requests \ {r} : stored'[q] = stored[q]
            BY <2>3 DEF Updated
        <3>3. Open(r) /\ stored'[r].attachments = stored[r].attachments
            BY <2>1, <2>3 DEF Updated
        <3> QED BY <2>1, <3>1, <3>2, <3>3
    <2> QED BY <2>1, <2>2, <2>3
<1>8. ASSUME NEW p \in Publishers, Publish(p) PROVE StoredFilesExist'
    <2>1. disk \subseteq disk' /\ UNCHANGED <<stored, reborn>>
        BY <1>8, PublishDoes
    <2> QED BY <2>1
<1>9. ASSUME NEW p \in Publishers, Complete(p) PROVE StoredFilesExist'
    <2> DEFINE r == publishing[p].request
    <2>1. /\ r \in Requests /\ UNCHANGED <<disk, reborn>>
        BY <1>9, <1>0, CompleteDoes DEF Shape
    <2>2. CASE stored' = stored
        BY <2>1, <2>2
    <2>3. CASE stored' # stored
        <3>1. /\ Updated(r) /\ stored'[r].status = "completed"
              /\ stored'[r].plan = publishing[p].id
              /\ publishing[p] # None /\ publishing[p].at = "complete" /\ ~Lost(p)
            BY <1>9, <2>3, CompleteDoes DEF Lost
        <3>2. Package(r, stored'[r].plan) \in disk
            BY <3>1 DEF HeldInv
        <3>3. \A q \in Requests \ {r} : stored'[q] = stored[q]
            BY <3>1 DEF Updated
        <3> HIDE DEF r
        <3> QED BY <2>1, <3>1, <3>2, <3>3
    <2> QED BY <2>2, <2>3
<1>10. ASSUME NEW p \in Publishers, CleanupDrafts(p) PROVE StoredFilesExist'
    <2>1. /\ publishing[p] # None /\ publishing[p].at = "cleanup"
          /\ \A f \in disk \ disk' : f.request = publishing[p].request /\ f.folder = "drafts"
          /\ UNCHANGED <<stored, reborn>>
        BY <1>10, CleanupDraftsDoes DEF DraftsOf
    <2>2. publishing[p].request \in Requests
        BY <1>0, <2>1 DEF Shape
    <2>3. ASSUME NEW r \in Requests, Open(r), r \notin reborn
          PROVE  r # publishing[p].request
        BY <2>1, <2>3 DEF HeldInv, PlanInv
    <2>4. \A r \in Requests : \A i : /\ Attachment(r, i).request = r
                                     /\ Package(r, i).folder = "feedback"
        BY DEF Attachment, Package
    <2>5. ASSUME NEW r \in Requests, Open(r), r \notin reborn, NEW i \in stored[r].attachments
          PROVE  Attachment(r, i) \in disk'
        BY <2>1, <2>3, <2>4, <2>5
    <2>6. ASSUME NEW r \in Requests, Stored(r), stored[r].delivered
          PROVE  Package(r, stored[r].plan) \in disk'
        BY <2>1, <2>4, <2>6
    <2> QED BY <2>1, <2>5, <2>6
<1>11. ASSUME NEW d \in Deleters, NEW s \in Sessions, DeleteSession(d, s)
       PROVE  StoredFilesExist'
    <2>1. PICK rs \in SUBSET Requests : \E ss : Deleted(d, rs, ss)
        BY <1>11, DeleteSessionDoes DEF RequestsOf
    <2>2. /\ \A q \in rs : stored'[q] = None
          /\ \A q \in Requests \ rs : stored'[q] = stored[q]
          /\ reborn' = reborn \ rs /\ disk' = disk
        BY <2>1 DEF Deleted
    <2> QED BY <2>2
<1>12. ASSUME NEW d \in Deleters, NEW r \in Requests, DeleteRequest(d, r)
       PROVE  StoredFilesExist'
    <2>1. PICK rs \in SUBSET Requests : \E ss : Deleted(d, rs, ss)
        BY <1>12, DeleteRequestDoes DEF RequestsOf
    <2>2. /\ \A q \in rs : stored'[q] = None
          /\ \A q \in Requests \ rs : stored'[q] = stored[q]
          /\ reborn' = reborn \ rs /\ disk' = disk
        BY <2>1 DEF Deleted
    <2> QED BY <2>2
<1>13. ASSUME NEW d \in Deleters, RemoveDirectory(d) PROVE StoredFilesExist'
    <2>1. /\ \A f \in disk \ disk' : f \in removing[d]
          /\ UNCHANGED <<stored, reborn>>
        BY <1>13, RemoveDirectoryDoes
    <2>2. \A f \in disk \ disk' :
             /\ f.request \in gone
             /\ Stored(f.request) /\ f.folder = "feedback" => stored[f.request].plan # f.id
        BY <2>1 DEF RemovalInv
    <2>3. \A r \in Requests : \A i :
             /\ Attachment(r, i).request = r /\ Package(r, i).request = r
             /\ Package(r, i).folder = "feedback" /\ Package(r, i).id = i
        BY DEF Attachment, Package
    <2>4. ASSUME NEW r \in Requests, Open(r), r \notin reborn, NEW i \in stored[r].attachments
          PROVE  Attachment(r, i) \in disk'
        BY <2>1, <2>2, <2>3, <2>4 DEF PlanInv
    <2>5. ASSUME NEW r \in Requests, Stored(r), stored[r].delivered
          PROVE  Package(r, stored[r].plan) \in disk'
        BY <2>1, <2>2, <2>3, <2>5
    <2> QED BY <2>1, <2>4, <2>5
<1>14. ASSUME \/ UNCHANGED vars
              \/ \E a \in Agents, r \in Requests, input \in Inputs : BeginCreate(a, r, input)
              \/ \E a \in Agents : DropCreate(a)
              \/ \E s \in Sessions : SetPinned(s)
              \/ \E s \in Sessions : ArchiveSession(s)
              \/ \E s \in Sessions : UnarchiveSession(s)
              \/ Crash
      PROVE  UNCHANGED <<stored, reborn, disk>>
BY <1>14 DEF vars, BeginCreate, DropCreate, SetPinned, ArchiveSession, UnarchiveSession,
        Crash, rows, calls, ghosts
<1> QED BY <1>1, <1>2, <1>3, <1>4, <1>5, <1>6, <1>7, <1>8, <1>9, <1>10, <1>11, <1>12,
    <1>13, <1>14 DEF Next, RequestFeedback, SubmitFeedback, ChangeSession, DeleteStep

\* Every step keeps the files that belong somewhere.
LEMMA LeftPreserved == TypeOK /\ CallInv /\ LeftInv /\ [Next]_vars => LeftInv'
<1> SUFFICES ASSUME TypeOK, CreateInv, LeftInv, [Next]_vars PROVE LeftInv'
    BY DEF CallInv
<1>0. Shape
    BY TypesShape
<1> USE DEF LeftInv, Kept, Stored, StagedBy
<1>1. CASE UNCHANGED <<stored, creating, removing, publishing, disk, abandoned>>
    BY <1>1
<1>2. ASSUME NEW a \in Agents, NEW r \in Requests, NEW input \in Inputs, BeginCreate(a, r, input)
      PROVE  LeftInv'
    <2>1. /\ creating[a] = None
          /\ \A b \in Agents \ {a} : creating'[b] = creating[b]
          /\ UNCHANGED <<stored, removing, publishing, disk, abandoned>>
        BY <1>2, BeginCreateDoes DEF CreatedByOthers
    <2> QED BY <2>1
<1>3. ASSUME NEW a \in Agents, StageAttachment(a) PROVE LeftInv'
    <2>1. /\ creating[a] # None /\ creating'[a] # None
          /\ creating'[a].request = creating[a].request
          /\ creating'[a].staged = creating[a].staged \cup {made + 1}
          /\ \A b \in Agents \ {a} : creating'[b] = creating[b]
          /\ disk' = disk \cup {Attachment(creating[a].request, made + 1)}
          /\ UNCHANGED <<stored, removing, publishing, abandoned>>
        BY <1>3, StageAttachmentDoes DEF CreatedByOthers, Creating
    <2>2. \A b \in Agents : StagedBy(b) \subseteq StagedBy(b)'
        BY <2>1
    <2>3. Attachment(creating[a].request, made + 1) \in StagedBy(a)'
        BY <2>1
    <2> HIDE DEF StagedBy
    <2>4. ASSUME NEW f \in disk PROVE Kept(f)'
        BY <2>1, <2>2
    <2> QED BY <2>1, <2>3, <2>4
<1>4. ASSUME NEW a \in Agents, CommitCreate(a) PROVE LeftInv'
    <2> DEFINE new == creating[a].request
    <2>1. /\ new \in Requests /\ creating[a] # None
          /\ stored'[new] # None
          /\ \A q \in Requests \ {new} : stored'[q] = stored[q]
          /\ \A b \in Agents \ {a} : creating'[b] = creating[b]
          /\ UNCHANGED <<removing, publishing, disk, abandoned>>
        BY <1>4, CommitCreateDoes DEF CreatedByOthers
    <2>2. \A f \in StagedBy(a) : f.request = new /\ f.folder = "drafts"
        BY DEF Attachment
    <2>3. \A b \in Agents \ {a} : creating[b] # None => creating'[b] # None /\ StagedBy(b)' = StagedBy(b)
        BY <2>1
    <2>4. ~Stored(new)
        BY <2>1 DEF CreateInv
    <2>5. \A f \in disk : f.request \in Requests
        BY <1>0 DEF Shape
    <2> HIDE DEF new, StagedBy
    <2> QED BY <2>1, <2>2, <2>3, <2>4, <2>5
<1>5. ASSUME NEW a \in Agents, FailCreate(a) PROVE LeftInv'
    <2>1. /\ \A b \in Agents \ {a} : creating'[b] = creating[b]
          /\ disk' \subseteq disk /\ disk' \cap StagedBy(a) \subseteq abandoned'
          /\ abandoned \subseteq abandoned'
          /\ UNCHANGED <<stored, removing, publishing>>
        BY <1>5, FailCreateDoes DEF CreationEnds, CreatedByOthers
    <2>2. \A b \in Agents \ {a} : creating[b] # None => creating'[b] # None /\ StagedBy(b)' = StagedBy(b)
        BY <2>1
    <2> HIDE DEF StagedBy
    <2> QED BY <2>1, <2>2
<1>6. ASSUME NEW a \in Agents, DropCreate(a) PROVE LeftInv'
    <2>1. /\ \A b \in Agents \ {a} : creating'[b] = creating[b]
          /\ disk' = disk /\ abandoned' = abandoned \cup StagedBy(a)
          /\ UNCHANGED <<stored, removing, publishing>>
        BY <1>6, DropCreateDoes DEF CreationEnds, CreatedByOthers
    <2>2. \A b \in Agents \ {a} : creating[b] # None => creating'[b] # None /\ StagedBy(b)' = StagedBy(b)
        BY <2>1
    <2> HIDE DEF StagedBy
    <2> QED BY <2>1, <2>2
<1>7. ASSUME NEW r \in Requests, SaveDraft(r) PROVE LeftInv'
    <2>1. /\ \A q \in Requests : (Stored(q)' <=> Stored(q)) /\ stored'[q].plan = stored[q].plan
          /\ UNCHANGED <<creating, removing, publishing, disk, abandoned>>
        BY <1>7, SaveDraftDoes, UpdatedIsStored DEF Updated
    <2>2. \A f \in disk : f.request \in Requests
        BY <1>0 DEF Shape
    <2> QED BY <2>1, <2>2
<1>8. ASSUME NEW r \in Requests, ApproveRequest(r) PROVE LeftInv'
    <2>1. /\ \A q \in Requests : (Stored(q)' <=> Stored(q)) /\ stored'[q].plan = stored[q].plan
          /\ UNCHANGED <<creating, removing, publishing, disk, abandoned>>
        BY <1>8, ApproveRequestDoes, UpdatedIsStored DEF Updated
    <2>2. \A f \in disk : f.request \in Requests
        BY <1>0 DEF Shape
    <2> QED BY <2>1, <2>2
<1>9. ASSUME NEW p \in Publishers, NEW r \in Requests, PlanSubmission(p, r) PROVE LeftInv'
    <2>1. /\ \/ stored' = stored
             \/ Updated(r) /\ stored[r].plan = None
          /\ publishing[p] = None
          /\ \A q \in Publishers \ {p} : publishing'[q] = publishing[q]
          /\ UNCHANGED <<creating, removing, disk, abandoned>>
        BY <1>9, PlanSubmissionDoes DEF HeldByOthers
    <2>2. \A f \in disk : f.request \in Requests /\ f.id # None
        BY <1>0 DEF Shape, Files
    <2>3. ASSUME NEW f \in disk, Stored(f.request), f.folder = "drafts" \/ f.id = stored[f.request].plan
          PROVE  /\ Stored(f.request)'
                 /\ f.folder = "drafts" \/ f.id = stored'[f.request].plan
        <3>1. CASE stored' = stored
            BY <2>3, <3>1
        <3>2. CASE Updated(r) /\ stored[r].plan = None
            BY <2>2, <2>3, <3>2, UpdatedIsStored DEF Updated
        <3> QED BY <2>1, <3>1, <3>2
    <2> QED BY <2>1, <2>3
<1>10. ASSUME NEW p \in Publishers, Publish(p) PROVE LeftInv'
    <2>1. /\ publishing[p].at = "publish"
          /\ \A q \in Publishers \ {p} : publishing'[q] = publishing[q]
          /\ \/ /\ disk' = disk \cup {Package(publishing[p].request, publishing[p].id)}
                /\ publishing'[p] # None /\ publishing'[p].at = "complete"
                /\ publishing'[p].request = publishing[p].request
                /\ publishing'[p].id = publishing[p].id
             \/ disk' = disk /\ publishing'[p] = None
          /\ UNCHANGED <<stored, creating, removing, abandoned>>
        BY <1>10, PublishDoes DEF HeldByOthers, Held
    <2>2. ASSUME NEW f \in disk PROVE Kept(f)'
        BY <2>1
    <2>3. disk' \ disk \subseteq {Package(publishing[p].request, publishing[p].id)}
        BY <2>1
    <2>4. ASSUME NEW f \in disk' \ disk PROVE Kept(f)'
        BY <2>1, <2>3
    <2> QED BY <2>2, <2>4
<1>11. ASSUME NEW p \in Publishers, Complete(p) PROVE LeftInv'
    <2> DEFINE r == publishing[p].request
               package == Package(publishing[p].request, publishing[p].id)
    <2>1. /\ r \in Requests /\ publishing[p] # None
          /\ package.request = r /\ package.id = publishing[p].id
        BY <1>11, <1>0, CompleteDoes DEF Shape, Package
    <2>2. /\ \A q \in Publishers \ {p} : publishing'[q] = publishing[q]
          /\ abandoned \subseteq abandoned'
          /\ UNCHANGED <<creating, removing, disk>>
        BY <1>11, CompleteDoes DEF HeldByOthers
    <2>3. \A q \in Requests : (Stored(q)' <=> Stored(q)) /\ stored'[q].plan = stored[q].plan
        BY <1>11, <2>1, CompleteDoes, UpdatedIsStored DEF Updated
    <2>4. package \in abandoned' \/ (Stored(r) /\ stored[r].plan = publishing[p].id)
        BY <1>11, CompleteDoes DEF Lost, Open
    <2>5. \A f \in disk : f.request \in Requests
        BY <1>0 DEF Shape
    <2>6. ASSUME NEW f \in disk, f = package PROVE Kept(f)'
        BY <2>1, <2>3, <2>4, <2>6
    <2>7. ASSUME NEW f \in disk, f # package PROVE Kept(f)'
        BY <2>2, <2>3, <2>5, <2>7
    <2> QED BY <2>2, <2>6, <2>7
<1>12. ASSUME NEW p \in Publishers, CleanupDrafts(p) PROVE LeftInv'
    <2>1. /\ publishing[p].at = "cleanup"
          /\ \A q \in Publishers \ {p} : publishing'[q] = publishing[q]
          /\ \A f \in disk' : f \in disk /\ (f \in abandoned => f \in abandoned')
          /\ UNCHANGED <<stored, creating, removing>>
        BY <1>12, CleanupDraftsDoes DEF HeldByOthers
    <2> QED BY <2>1
<1>13. ASSUME NEW d \in Deleters, NEW s \in Sessions, DeleteSession(d, s) PROVE LeftInv'
    <2>1. PICK rs \in SUBSET Requests : \E ss : Deleted(d, rs, ss)
        BY <1>13, DeleteSessionDoes DEF RequestsOf
    <2>2. /\ \A q \in Requests \ rs : stored'[q] = stored[q]
          /\ removing[d] = {} /\ removing'[d] = DeletionArtifacts(rs)
          /\ \A e \in Deleters \ {d} : removing'[e] = removing[e]
          /\ UNCHANGED <<creating, publishing, disk, abandoned>>
        BY <2>1 DEF Deleted
    <2>3. \A f \in disk : f \in Files /\ f.request \in Requests
        BY <1>0 DEF Shape
    <2>4. ASSUME NEW f \in disk, f.request \in rs, f.folder = "drafts" \/ f.id = stored[f.request].plan
          PROVE  f \in removing'[d]
        BY <2>2, <2>3, <2>4 DEF DeletionArtifacts
    <2> QED BY <2>2, <2>3, <2>4
<1>14. ASSUME NEW d \in Deleters, NEW r \in Requests, DeleteRequest(d, r) PROVE LeftInv'
    <2>1. PICK rs \in SUBSET Requests : \E ss : Deleted(d, rs, ss)
        BY <1>14, DeleteRequestDoes DEF RequestsOf
    <2>2. /\ \A q \in Requests \ rs : stored'[q] = stored[q]
          /\ removing[d] = {} /\ removing'[d] = DeletionArtifacts(rs)
          /\ \A e \in Deleters \ {d} : removing'[e] = removing[e]
          /\ UNCHANGED <<creating, publishing, disk, abandoned>>
        BY <2>1 DEF Deleted
    <2>3. \A f \in disk : f \in Files /\ f.request \in Requests
        BY <1>0 DEF Shape
    <2>4. ASSUME NEW f \in disk, f.request \in rs, f.folder = "drafts" \/ f.id = stored[f.request].plan
          PROVE  f \in removing'[d]
        BY <2>2, <2>3, <2>4 DEF DeletionArtifacts
    <2> QED BY <2>2, <2>3, <2>4
<1>15. ASSUME NEW d \in Deleters, RemoveDirectory(d) PROVE LeftInv'
    <2>1. PICK directory \in SUBSET removing[d] :
              /\ removing'[d] = removing[d] \ directory
              /\ \/ disk' = disk \ directory /\ abandoned' = abandoned \ directory
                 \/ abandoned' = abandoned \cup (disk \cap directory) /\ disk' = disk
        BY <1>15, RemoveDirectoryDoes
    <2>2. /\ \A e \in Deleters \ {d} : removing'[e] = removing[e]
          /\ UNCHANGED <<stored, creating, publishing>>
        BY <1>15, RemoveDirectoryDoes
    <2>3. ASSUME NEW f \in disk', f \in directory PROVE f \in abandoned'
        BY <2>1, <2>3
    <2>4. ASSUME NEW f \in disk', f \notin directory
          PROVE  /\ f \in disk /\ (f \in abandoned => f \in abandoned')
                 /\ \A e \in Deleters : f \in removing[e] => f \in removing'[e]
        BY <2>1, <2>2, <2>4
    <2> QED BY <2>2, <2>3, <2>4
<1>16. CASE Crash
    <2>1. UNCHANGED <<stored, disk>> /\ abandoned \subseteq abandoned'
        BY <1>16, CrashDoes
    <2>2. ASSUME NEW f \in disk, NEW a \in Agents, creating[a] # None, f \in StagedBy(a)
          PROVE  f \in abandoned'
        BY <1>16, <2>2, CrashDoes
    <2>3. ASSUME NEW f \in disk, NEW d \in Deleters, f \in removing[d]
          PROVE  f \in abandoned'
        BY <1>16, <2>3, CrashDoes
    <2>4. ASSUME NEW f \in disk, NEW p \in Publishers, publishing[p] # None,
                 f = Package(publishing[p].request, publishing[p].id)
          PROVE  \/ f \in abandoned'
                 \/ Stored(f.request) /\ f.id = stored[f.request].plan
        <3>1. CASE Lost(p)
            BY <1>16, <2>4, <3>1, CrashDoes
        <3>2. CASE ~Lost(p)
            BY <2>4, <3>2 DEF Lost, Package
        <3> QED BY <3>1, <3>2
    <2> HIDE DEF StagedBy
    <2> QED BY <2>1, <2>2, <2>3, <2>4
<1>17. ASSUME \/ UNCHANGED vars
              \/ \E s \in Sessions : SetPinned(s)
              \/ \E s \in Sessions : ArchiveSession(s)
              \/ \E s \in Sessions : UnarchiveSession(s)
      PROVE  UNCHANGED <<stored, creating, removing, publishing, disk, abandoned>>
    BY <1>17 DEF vars, SetPinned, ArchiveSession, UnarchiveSession, rows, calls, ghosts
<1> QED BY <1>1, <1>2, <1>3, <1>4, <1>5, <1>6, <1>7, <1>8, <1>9, <1>10, <1>11, <1>12,
    <1>13, <1>14, <1>15, <1>16, <1>17 DEF Next, RequestFeedback, SubmitFeedback,
    ChangeSession, DeleteStep

\* No step takes the rows of an open request.
LEMMA OpenKept == TypeOK /\ [Next]_vars => Survive
<1> SUFFICES ASSUME TypeOK, [Next]_vars PROVE Survive
    OBVIOUS
<1> USE DEF Survive, Open, Stored
<1>1. CASE UNCHANGED <<stored>>
    BY <1>1
<1>2. ASSUME NEW a \in Agents, CommitCreate(a) PROVE Survive
    <2>1. \A r \in Requests : stored'[r] # None \/ stored'[r] = stored[r]
        BY <1>2, CommitCreateDoes
    <2> QED BY <2>1
<1>3. ASSUME NEW r \in Requests, SaveDraft(r) PROVE Survive
    <2>1. Updated(r)
        BY <1>3, SaveDraftDoes
    <2> QED BY <2>1, UpdatedIsStored
<1>4. ASSUME NEW r \in Requests, ApproveRequest(r) PROVE Survive
    <2>1. Updated(r)
        BY <1>4, ApproveRequestDoes
    <2> QED BY <2>1, UpdatedIsStored
<1>5. ASSUME NEW p \in Publishers, NEW r \in Requests, PlanSubmission(p, r) PROVE Survive
    <2>1. stored' = stored \/ Updated(r)
        BY <1>5, PlanSubmissionDoes
    <2> QED BY <2>1, UpdatedIsStored
<1>6. ASSUME NEW p \in Publishers, Complete(p) PROVE Survive
    <2>1. publishing[p].request \in Requests
        BY <1>6, TypesShape, CompleteDoes DEF Shape
    <2>2. stored' = stored \/ Updated(publishing[p].request)
        BY <1>6, CompleteDoes
    <2> QED BY <2>1, <2>2, UpdatedIsStored
<1>7. ASSUME NEW d \in Deleters, NEW s \in Sessions, DeleteSession(d, s) PROVE Survive
    <2>1. PICK rs \in SUBSET Requests : \E ss : Deleted(d, rs, ss)
        BY <1>7, DeleteSessionDoes DEF RequestsOf
    <2>2. /\ \A q \in rs : ~Open(q)
          /\ \A q \in Requests \ rs : stored'[q] = stored[q]
        BY <2>1, Zenon DEF Deleted
    <2> QED BY <2>2
<1>8. ASSUME NEW d \in Deleters, NEW r \in Requests, DeleteRequest(d, r) PROVE Survive
    <2>1. PICK rs \in SUBSET Requests : \E ss : Deleted(d, rs, ss)
        BY <1>8, DeleteRequestDoes DEF RequestsOf
    <2>2. /\ \A q \in rs : ~Open(q)
          /\ \A q \in Requests \ rs : stored'[q] = stored[q]
        BY <2>1, Zenon DEF Deleted
    <2> QED BY <2>2
<1>9. ASSUME \/ UNCHANGED vars
             \/ \E a \in Agents, r \in Requests, input \in Inputs : BeginCreate(a, r, input)
             \/ \E a \in Agents : StageAttachment(a)
             \/ \E a \in Agents : FailCreate(a)
             \/ \E a \in Agents : DropCreate(a)
             \/ \E p \in Publishers : Publish(p)
             \/ \E p \in Publishers : CleanupDrafts(p)
             \/ \E s \in Sessions : SetPinned(s)
             \/ \E s \in Sessions : ArchiveSession(s)
             \/ \E s \in Sessions : UnarchiveSession(s)
             \/ \E d \in Deleters : RemoveDirectory(d)
             \/ Crash
      PROVE  UNCHANGED <<stored>>
BY <1>9 DEF vars, BeginCreate, StageAttachment, FailCreate, DropCreate, Publish,
        CleanupDrafts, SetPinned, ArchiveSession, UnarchiveSession, RemoveDirectory,
        Crash, rows, calls, ghosts
<1> QED BY <1>1, <1>2, <1>3, <1>4, <1>5, <1>6, <1>7, <1>8, <1>9 DEF Next,
    RequestFeedback, SubmitFeedback, ChangeSession, DeleteStep

\* The invariant holds in every reachable state.
THEOREM Invariance == Spec => []IInv
<1>1. IInv /\ [Next]_vars => IInv'
    BY TypePreserved, SessionsPreserved, CreatePreserved, PlanPreserved, HeldPreserved,
        RemovalPreserved, FilesPreserved, LeftPreserved DEF IInv, CallInv
<1> QED BY InitIInv, <1>1, PTL DEF Spec

\* The variables keep their types, and the write lock is given back on every path.
THEOREM TypeCorrect == Spec => []TypeOK
<1>1. IInv => TypeOK
    BY DEF IInv
<1> QED BY Invariance, <1>1, PTL

\* Every open request has its session in view, and every session a request.
THEOREM SessionsMatchRequestsCorrect == Spec => []SessionsMatchRequests
<1>1. IInv => SessionsMatchRequests
    BY DEF IInv
<1> QED BY Invariance, <1>1, PTL

\* What a stored request points to is on disk.
THEOREM StoredFilesExistCorrect == Spec => []StoredFilesExist
<1>1. IInv => StoredFilesExist
    BY DEF IInv
<1> QED BY Invariance, <1>1, PTL

\* No file of the library belongs to nobody.
THEOREM NothingElseIsLeftCorrect == Spec => []NothingElseIsLeft
<1>1. IInv => NothingElseIsLeft
    BY DEF IInv, LeftInv, Kept, NothingElseIsLeft
<1> QED BY Invariance, <1>1, PTL

\* No step takes the rows of a request somebody still has to answer.
THEOREM OpenRequestsSurviveCorrect == Spec => OpenRequestsSurvive
<1>1. IInv /\ [Next]_vars => [Survive]_vars
    BY OpenKept DEF IInv
<1>2. [][Survive]_vars => OpenRequestsSurvive
    BY PTL DEF OpenRequestsSurvive, Survive
<1> QED BY Invariance, <1>1, <1>2, PTL DEF Spec

-----------------------------------------------------------------------------
(* HostSessions implements SessionCatalog.                                 *)

\* What the catalogue shows of a request when the invariant holds: only its row
\* counts, since the package of a delivered one is there.
Kind(r) ==
    IF ~Stored(r) THEN "absent"
    ELSE IF stored[r].status # "completed" THEN "open"
    ELSE IF stored[r].delivered THEN "delivered" ELSE "ended"
RowsShow == \A r \in Requests : Shown(r) = Kind(r)

\* Every package that counts is there.
LEMMA ShownByRows == IInv => RowsShow
<1> SUFFICES ASSUME IInv, NEW r \in Requests PROVE Shown(r) = Kind(r)
    BY DEF RowsShow
<1> QED BY DEF IInv, StoredFilesExist, Shown, Kind

\* How the catalogue reads the rows.
LEMMA CatalogReads ==
    ASSUME TypeOK, RowsShow
    PROVE  /\ \A r \in Requests : [q \in Requests |-> Shown(q)][r] = Kind(r)
           /\ \A r \in Requests : [q \in Requests |-> AskedBy(q)][r] = AskedBy(r)
           /\ \A r \in Requests : Kind(r) = "open" <=> Open(r)
           /\ \A s \in Sessions : Catalog!Of(s) = RequestsOf(s)
<1>1. \A r \in Requests : [q \in Requests |-> Shown(q)][r] = Kind(r)
    BY DEF RowsShow
<1>2. \A r \in Requests : [q \in Requests |-> AskedBy(q)][r] = AskedBy(r)
    OBVIOUS
<1>3. ASSUME NEW r \in Requests PROVE Kind(r) = "open" <=> Open(r)
    <2>1. CASE Stored(r)
        <3>1. stored[r].status \in {"waiting", "in_progress", "completed"}
            BY <2>1, TypesShape, RowFields DEF Shape
        <3> QED BY <2>1, <3>1 DEF Kind, Open
    <2>2. CASE ~Stored(r)
        BY <2>2 DEF Kind, Open
    <2> QED BY <2>1, <2>2
<1>4. ASSUME NEW s \in Sessions PROVE Catalog!Of(s) = RequestsOf(s)
    <2>1. \A r \in Requests : Kind(r) # "absent" <=> Stored(r)
        BY DEF Kind
    <2>2. \A r \in Requests : Stored(r) => AskedBy(r) = SessionOf(r)
        BY DEF AskedBy
    <2> QED BY <1>1, <1>2, <2>1, <2>2 DEF Catalog!Of, RequestsOf
<1> QED BY <1>1, <1>2, <1>3, <1>4

\* A row that did not change shows the same request.
LEMMA SameRow ==
    ASSUME NEW r \in Requests, stored'[r] = stored[r]
    PROVE  Kind(r)' = Kind(r) /\ AskedBy(r)' = AskedBy(r)
    BY DEF Kind, AskedBy, SessionOf, Stored

\* What an update leaves of a request that is as open as before.
LEMMA StillOpen ==
    ASSUME TypeOK, NEW r \in Requests, Updated(r), Open(r), stored'[r].status = "in_progress"
    PROVE  \A q \in Requests : Kind(q)' = Kind(q) /\ AskedBy(q)' = AskedBy(q)
<1>1. Kind(r)' = "open" /\ AskedBy(r)' = AskedBy(r)
    BY DEF Updated, Kind, AskedBy, SessionOf, Stored
<1>2. Kind(r) = "open"
    BY DEF Kind, Open
<1>3. \A q \in Requests \ {r} : stored'[q] = stored[q]
    BY DEF Updated
<1> QED BY <1>1, <1>2, <1>3, SameRow

\* Whoever changes neither a row's reading nor the flags changes no catalogue.
LEMMA Unseen ==
    ASSUME RowsShow, RowsShow', UNCHANGED <<archived, pinned>>,
           \A r \in Requests : Kind(r)' = Kind(r) /\ AskedBy(r)' = AskedBy(r)
    PROVE  UNCHANGED Catalog!vars
<1>1. \A r \in Requests : Shown(r)' = Shown(r)
    BY DEF RowsShow
<1>2. [r \in Requests |-> Shown(r)]' = [r \in Requests |-> Shown(r)]
    BY <1>1
<1>3. [r \in Requests |-> AskedBy(r)]' = [r \in Requests |-> AskedBy(r)]
    OBVIOUS
<1> QED BY <1>2, <1>3 DEF Catalog!vars

\* A creation that commits asks the request.
LEMMA CommitAsks ==
    ASSUME TypeOK, CreateInv, RowsShow, RowsShow', NEW a \in Agents, CommitCreate(a)
    PROVE  \E r \in Requests, s \in Sessions : Catalog!Ask(r, s)
<1>1. PICK r \in Requests, s \in Sessions :
          r = creating[a].request /\ s = creating[a].input.session
    BY CommitCreateDoes, TypesShape DEF Shape
<1>2. /\ stored'[r] # None /\ stored'[r].input.session = s
      /\ stored'[r].status = "waiting" /\ ~Stored(r)
      /\ \A q \in Requests \ {r} : stored'[q] = stored[q]
      /\ archived' = archived \ {s} /\ pinned' = pinned
    BY <1>1, CommitCreateDoes DEF CreateInv
<1>3. Kind(r) = "absent" /\ Kind(r)' = "open" /\ AskedBy(r)' = s
    BY <1>2 DEF Kind, AskedBy, SessionOf, Stored
<1>4. \A q \in Requests \ {r} : Kind(q)' = Kind(q) /\ AskedBy(q)' = AskedBy(q)
    BY <1>2, SameRow
<1>5. /\ \A q \in Requests \ {r} : Shown(q)' = Shown(q)
      /\ Shown(r) = "absent" /\ Shown(r)' = "open"
    BY <1>3, <1>4 DEF RowsShow
<1>6. [q \in Requests |-> Shown(q)]' = [[q \in Requests |-> Shown(q)] EXCEPT ![r] = "open"]
    BY <1>5
<1>7. [q \in Requests |-> AskedBy(q)]' = [[q \in Requests |-> AskedBy(q)] EXCEPT ![r] = s]
    BY <1>3, <1>4
<1>8. [q \in Requests |-> Shown(q)][r] = "absent"
    BY <1>5
<1> QED BY <1>2, <1>6, <1>7, <1>8 DEF Catalog!Ask

\* An update that completes an open request ends it.
LEMMA CompletingEnds ==
    ASSUME TypeOK, RowsShow, RowsShow', NEW r \in Requests, Updated(r), Open(r),
           stored'[r].status = "completed", UNCHANGED <<archived, pinned>>
    PROVE  Catalog!End(r)
<1>1. Kind(r) = "open" /\ Kind(r)' \in {"ended", "delivered"} /\ AskedBy(r)' = AskedBy(r)
    BY DEF Updated, Kind, AskedBy, SessionOf, Stored, Open
<1>2. \A q \in Requests \ {r} : Kind(q)' = Kind(q) /\ AskedBy(q)' = AskedBy(q)
    BY SameRow DEF Updated
<1>3. PICK final \in {"ended", "delivered"} : Kind(r)' = final
    BY <1>1
<1>4. /\ \A q \in Requests \ {r} : Shown(q)' = Shown(q)
      /\ Shown(r) = "open" /\ Shown(r)' = final
    BY <1>1, <1>2, <1>3 DEF RowsShow
<1>5. [q \in Requests |-> Shown(q)]' = [[q \in Requests |-> Shown(q)] EXCEPT ![r] = final]
    BY <1>4
<1>6. [q \in Requests |-> AskedBy(q)]' = [q \in Requests |-> AskedBy(q)]
    BY <1>1, <1>2
<1>7. [q \in Requests |-> Shown(q)][r] = "open"
    BY <1>4
<1> QED BY <1>3, <1>5, <1>6, <1>7 DEF Catalog!End

\* The flags of a session that is there.
LEMMA FlagsMove ==
    ASSUME TypeOK, SessionsMatchRequests, RowsShow, RowsShow', NEW s \in Sessions,
           ChangeSession(s)
    PROVE  Catalog!Pin(s) \/ Catalog!Unpin(s) \/ Catalog!Archive(s) \/ Catalog!Restore(s)
<1>1. s \in sessions /\ stored' = stored
    BY DEF ChangeSession, SetPinned, ArchiveSession, UnarchiveSession
<1>2. \A r \in Requests : Kind(r)' = Kind(r) /\ AskedBy(r)' = AskedBy(r)
    BY <1>1, SameRow
<1>3. \A r \in Requests : Shown(r)' = Shown(r)
    BY <1>2 DEF RowsShow
<1>4. UNCHANGED <<[r \in Requests |-> Shown(r)], [r \in Requests |-> AskedBy(r)]>>
    BY <1>2, <1>3
<1>5. s \in Catalog!Listed
    <2>1. Catalog!Of(s) # {}
        BY <1>1, CatalogReads DEF SessionsMatchRequests
    <2> QED BY <2>1 DEF Catalog!Listed
<1>6. CASE SetPinned(s)
    <2>1. /\ archived' = archived
          /\ \/ s \notin archived /\ pinned' = pinned \cup {s}
             \/ pinned' = pinned \ {s}
        BY <1>6 DEF SetPinned
    <2> QED BY <1>4, <1>5, <2>1 DEF Catalog!Pin, Catalog!Unpin
<1>7. CASE ArchiveSession(s)
    <2>1. \A r \in Catalog!Of(s) : [q \in Requests |-> Shown(q)][r] # "open"
        <3>1. \A r \in RequestsOf(s) : r \in Requests /\ ~Open(r)
            BY <1>7 DEF ArchiveSession, HasOpenRequest, RequestsOf
        <3> QED BY <3>1, CatalogReads
    <2> QED BY <1>4, <1>5, <1>7, <2>1 DEF Catalog!Archive, ArchiveSession
<1>8. CASE UnarchiveSession(s)
    BY <1>4, <1>8 DEF Catalog!Restore, UnarchiveSession
<1> QED BY <1>6, <1>7, <1>8 DEF ChangeSession

\* A deletion forgets requests of one archived session.
LEMMA DeletionForgets ==
    ASSUME TypeOK, SessionsMatchRequests, RowsShow, RowsShow',
           NEW d \in Deleters, NEW s \in Sessions, NEW rs \in SUBSET RequestsOf(s), NEW ss,
           s \in archived, rs # {}, ss = (IF rs = RequestsOf(s) THEN {s} ELSE {}),
           Deleted(d, rs, ss)
    PROVE  \E qs \in SUBSET Requests : Catalog!Forget(s, qs)
<1>1. rs \in SUBSET Requests
    BY DEF RequestsOf
<1>2. /\ \A r \in rs : ~Open(r) /\ stored'[r] = None
      /\ \A r \in Requests \ rs : stored'[r] = stored[r]
      /\ archived' = archived \ ss /\ pinned' = pinned \ ss
    BY Zenon DEF Deleted
<1>3. pinned' = pinned
    BY <1>2 DEF SessionsMatchRequests
<1>4. archived' = IF rs = Catalog!Of(s) THEN archived \ {s} ELSE archived
    BY <1>2, CatalogReads
<1>5. rs \subseteq {r \in Catalog!Of(s) : [q \in Requests |-> Shown(q)][r] # "open"}
    BY <1>1, <1>2, CatalogReads
<1>6. \A r \in rs : Kind(r)' = "absent" /\ AskedBy(r)' = None
    BY <1>2 DEF Kind, AskedBy, Stored
<1>7. \A r \in Requests \ rs : Kind(r)' = Kind(r) /\ AskedBy(r)' = AskedBy(r)
    BY <1>2, SameRow
<1>8. \A r \in Requests :
          /\ Shown(r)' = IF r \in rs THEN "absent" ELSE [q \in Requests |-> Shown(q)][r]
          /\ AskedBy(r)' = IF r \in rs THEN None ELSE [q \in Requests |-> AskedBy(q)][r]
    BY <1>6, <1>7 DEF RowsShow
<1>9. [r \in Requests |-> Shown(r)]' =
          [r \in Requests |-> IF r \in rs THEN "absent" ELSE [q \in Requests |-> Shown(q)][r]]
    BY <1>8
<1>10. [r \in Requests |-> AskedBy(r)]' =
          [r \in Requests |-> IF r \in rs THEN None ELSE [q \in Requests |-> AskedBy(q)][r]]
    BY <1>8
<1>11. Catalog!Forget(s, rs)
    BY <1>3, <1>4, <1>5, <1>9, <1>10 DEF Catalog!Forget
<1> QED BY <1>1, <1>11

\* What an action of the catalogue may be.
LEMMA CatalogNext ==
    ASSUME \/ \E r \in Requests, s \in Sessions : Catalog!Ask(r, s)
           \/ \E r \in Requests : Catalog!End(r)
           \/ \E s \in Sessions :
                 \/ Catalog!Pin(s) \/ Catalog!Unpin(s) \/ Catalog!Archive(s) \/ Catalog!Restore(s)
                 \/ \E rs \in SUBSET Requests : Catalog!Forget(s, rs)
    PROVE  Catalog!Next
    BY DEF Catalog!Next

\* Each step of the system is one of the catalogue, or changes nothing in it.
LEMMA StepCatalogs == IInv /\ IInv' /\ [Next]_vars => [Catalog!Next]_(Catalog!vars)
<1> SUFFICES ASSUME IInv, IInv', [Next]_vars
             PROVE  [Catalog!Next]_(Catalog!vars)
    OBVIOUS
<1>a. TypeOK /\ SessionsMatchRequests /\ CreateInv
    BY DEF IInv, CallInv
<1>b. RowsShow /\ RowsShow'
    BY ShownByRows, PTL
<1>1. CASE UNCHANGED <<stored, archived, pinned>>
    <2>1. \A r \in Requests : Kind(r)' = Kind(r) /\ AskedBy(r)' = AskedBy(r)
        BY <1>1, SameRow
    <2> QED BY <1>1, <1>b, <2>1, Unseen
<1>2. ASSUME NEW a \in Agents, CommitCreate(a) PROVE Catalog!Next
    BY <1>2, <1>a, <1>b, CommitAsks, CatalogNext
<1>3. ASSUME NEW r \in Requests, SaveDraft(r) PROVE UNCHANGED Catalog!vars
    <2>1. Updated(r) /\ Open(r) /\ stored'[r].status = "in_progress"
          /\ UNCHANGED <<archived, pinned>>
        BY <1>3, <1>a, SaveDraftDoes
    <2>2. \A q \in Requests : Kind(q)' = Kind(q) /\ AskedBy(q)' = AskedBy(q)
        BY <1>a, <2>1, StillOpen
    <2> QED BY <1>b, <2>1, <2>2, Unseen
<1>4. ASSUME NEW r \in Requests, ApproveRequest(r) PROVE Catalog!Next
    <2>1. Updated(r) /\ Open(r) /\ stored'[r].status = "completed"
          /\ UNCHANGED <<archived, pinned>>
        BY <1>4, <1>a, ApproveRequestDoes
    <2>2. Catalog!End(r)
        BY <1>a, <1>b, <2>1, CompletingEnds
    <2> QED BY <2>2, CatalogNext
<1>5. ASSUME NEW p \in Publishers, NEW r \in Requests, PlanSubmission(p, r)
      PROVE  UNCHANGED Catalog!vars
    <2>1. /\ stored[r].status = "in_progress" /\ Stored(r) /\ UNCHANGED <<archived, pinned>>
          /\ stored' = stored \/ (Updated(r) /\ stored'[r].status = "in_progress")
        BY <1>5, <1>a, PlanSubmissionDoes
    <2>2. Open(r)
        BY <2>1 DEF Open
    <2>3. \A q \in Requests : Kind(q)' = Kind(q) /\ AskedBy(q)' = AskedBy(q)
        BY <1>a, <2>1, <2>2, SameRow, StillOpen
    <2> QED BY <1>b, <2>1, <2>3, Unseen
<1>6. ASSUME NEW p \in Publishers, Complete(p) PROVE [Catalog!Next]_(Catalog!vars)
    <2>1. PICK r \in Requests : r = publishing[p].request
        BY <1>6, <1>a, TypesShape, CompleteDoes DEF Shape
    <2>2. /\ UNCHANGED <<archived, pinned>>
          /\ \/ stored' = stored
             \/ Open(r) /\ Updated(r) /\ stored'[r].status = "completed"
        BY <1>6, <1>a, <2>1, CompleteDoes
    <2>3. CASE stored' = stored
        BY <1>1, <2>2, <2>3
    <2>4. CASE Open(r) /\ Updated(r) /\ stored'[r].status = "completed"
        <3>1. Catalog!End(r)
            BY <1>a, <1>b, <2>2, <2>4, CompletingEnds
        <3> QED BY <3>1, CatalogNext
    <2> QED BY <2>2, <2>3, <2>4
<1>7. ASSUME NEW s \in Sessions, ChangeSession(s) PROVE Catalog!Next
    <2>1. Catalog!Pin(s) \/ Catalog!Unpin(s) \/ Catalog!Archive(s) \/ Catalog!Restore(s)
        BY <1>7, <1>a, <1>b, FlagsMove
    <2> QED BY <2>1, CatalogNext
<1>8. ASSUME NEW d \in Deleters, NEW s \in Sessions, DeleteSession(d, s) PROVE Catalog!Next
    <2>1. s \in archived /\ RequestsOf(s) # {}
        BY <1>8, <1>a DEF DeleteSession, SessionsMatchRequests
    <2>2. Deleted(d, RequestsOf(s), {s})
        BY <1>8, <1>a, DeleteSessionDoes
    <2>3. \E rs \in SUBSET Requests : Catalog!Forget(s, rs)
        BY <1>a, <1>b, <2>1, <2>2, DeletionForgets
    <2> QED BY <2>3, CatalogNext
<1>9. ASSUME NEW d \in Deleters, NEW r \in Requests, DeleteRequest(d, r) PROVE Catalog!Next
    <2>1. PICK s \in Sessions : s = SessionOf(r)
        BY <1>9, <1>a, TypesShape DEF Shape, DeleteRequest
    <2>2. s \in archived /\ {r} \in SUBSET RequestsOf(s) /\ {r} # {}
        BY <1>9, <2>1 DEF DeleteRequest, RequestsOf
    <2>3. {t \in {SessionOf(r)} : RequestsOf(t) = {r}}
              = IF {r} = RequestsOf(s) THEN {s} ELSE {}
        BY <2>1
    <2>4. Deleted(d, {r}, {t \in {SessionOf(r)} : RequestsOf(t) = {r}})
        BY <1>9, <1>a, DeleteRequestDoes
    <2>5. \E rs \in SUBSET Requests : Catalog!Forget(s, rs)
        BY <1>a, <1>b, <2>2, <2>3, <2>4, DeletionForgets
    <2> QED BY <2>5, CatalogNext
<1>10. ASSUME \/ UNCHANGED vars
              \/ \E a \in Agents, r \in Requests, input \in Inputs : BeginCreate(a, r, input)
              \/ \E a \in Agents : StageAttachment(a)
              \/ \E a \in Agents : FailCreate(a)
              \/ \E a \in Agents : DropCreate(a)
              \/ \E p \in Publishers : Publish(p)
              \/ \E p \in Publishers : CleanupDrafts(p)
              \/ \E d \in Deleters : RemoveDirectory(d)
              \/ Crash
       PROVE  UNCHANGED <<stored, archived, pinned>>
    BY <1>10 DEF vars, BeginCreate, StageAttachment, FailCreate, DropCreate, Publish,
        CleanupDrafts, RemoveDirectory, Crash, rows, calls, ghosts
<1> QED BY <1>1, <1>2, <1>3, <1>4, <1>5, <1>6, <1>7, <1>8, <1>9, <1>10 DEF Next,
    RequestFeedback, SubmitFeedback, DeleteStep

\* HostSessions implements SessionCatalog: with its transactions, files, plans,
\* deletions in steps, drops and crashes, a request stays in a session in view
\* until it has ended, its end and its readable result are final, and only
\* ended requests of an archived session disappear.
THEOREM Refinement == Spec => ImplementsCatalog
<1>1. Init => Catalog!Init
    BY DEF Init, Catalog!Init, Shown, AskedBy, Stored
<1>2. IInv /\ IInv' /\ [Next]_vars => [Catalog!Next]_(Catalog!vars)
    BY StepCatalogs
<1> QED BY <1>1, <1>2, Invariance, PTL DEF Spec, ImplementsCatalog, Catalog!Spec
=============================================================================
