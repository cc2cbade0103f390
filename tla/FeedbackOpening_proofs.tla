----------------------- MODULE FeedbackOpening_proofs -----------------------
(***************************************************************************)
(* Further proofs about FeedbackPublication, for any number of requests    *)
(* and calls: what the opening of the store leaves behind, and what a call *)
(* that is refused says about the request.                                 *)
(***************************************************************************)
EXTENDS FeedbackPublication_proofs

-----------------------------------------------------------------------------
(* How the row, the draft and the plan of a request go together.           *)

\* A waiting request is one nobody worked on; work leaves a draft at the
\* revision of the row; a request that completed says how; a plan to submit
\* was made from a draft that is not blank.
Fits(r) ==
    /\ row[r].status = "waiting" <=> row[r].revision = 0
    /\ row[r].status = "waiting" => draft[r] = None
    /\ row[r].status = "in_progress" =>
          draft[r] # None /\ draft[r].revision = row[r].revision
    /\ row[r].status = "cancelled" /\ plan[r] = None => draft[r] = None
    /\ row[r].status = "completed" => row[r].resolution \in {"feedback_submitted", "approved"}
    /\ plan[r] # None /\ plan[r].resolution = "feedback_submitted" => plan[r].digest # Blank

RowsInv == \A r \in Requests : Fits(r)

\* The plan of r is published under the id of a call that was asked about r, or
\* of the archive of r.
Owned(r) == plan[r] # None =>
    LET p == plan[r].publication IN
    \/ p = r
    \/ p \in Calls /\ op[p] # None /\ op[p].request = r

\* No two requests share a publication: a call is asked one thing, once.
OwnersInv ==
    /\ \A c \in Calls : pc[c] = "idle" => op[c] = None
    /\ \A r \in Requests : Owned(r)

-----------------------------------------------------------------------------
(* The opening of the store.                                               *)

\* What the opening was asked is what the stored plan of r says.
Replays(r) ==
    /\ op[Boot].kind = (IF plan[r].resolution = "cancelled" THEN "cancel" ELSE "submit")
    /\ op[Boot].revision = plan[r].revision
    /\ op[Boot].cooking = plan[r].cooking
    /\ op[Boot].reason = plan[r].reason

\* What the opening may rely on while it is at work on r.
BootAt(r) ==
    LET p == held[Boot].publication IN
    /\ pc[Boot] \in {"preflight", "probe", "unprobe", "plan"} \cup Holding
    /\ pc[Boot] \notin Holding =>
          \/ Unarchived(r) /\ op[Boot].kind = "cancel"
          \/ Preparing(r) /\ Replays(r) /\ pc[Boot] \in {"preflight", "plan"}
    /\ pc[Boot] \in Holding =>
          /\ held[Boot].content.request = r
          /\ pc[Boot] # "cleanup" => Preparing(r)
          /\ pc[Boot] \in {"stage", "write", "rename"} => package[p] = None
          /\ pc[Boot] \in {"write", "rename"} => temp[p] # None

\* Nothing else moves while the store opens, and what it has still to do is as
\* it was scanned.
BootInv ==
    /\ phase # "up" => detached = {}
    /\ phase = "recover" => \A r \in todo : Preparing(r)
    /\ phase = "archive" => \A r \in todo : Unarchived(r)
    /\ pc[Boot] \in Running => op[Boot].request \notin todo /\ BootAt(op[Boot].request)

\* The plan of r is not preparing any more, or cannot be replayed.
Replayed(r) == Preparing(r) => \/ row[r].resolution = "approved"
                               \/ package[plan[r].publication] = Partial

\* The legacy cancellation of r has its package, or is blocked by a probe file.
Archived(r) == Unarchived(r) => r \in probes

BootOn(r) == pc[Boot] \in Running /\ op[Boot].request = r

\* Unless something failed, the opening has settled every request it is not at
\* and has not before it.
ReconcileInv ==
    ~fault /\ phase \in {"recover", "archive"} =>
        \A r \in Requests : \/ r \in todo
                            \/ BootOn(r)
                            \/ Replayed(r) /\ (phase = "archive" => Archived(r))

OpeningInv == RowsInv /\ OwnersInv /\ BootInv /\ ReconcileInv

-----------------------------------------------------------------------------
\* A plan is made from a draft somebody wrote, or opens the request.
LEMMA NewPlanFits ==
    ASSUME TypeInv, RowsInv, NEW c \in Callers, PlanSubmission(c) \/ PlanCancellation(c),
           NEW new \in PlanRows, NEW opened \in Rows, NEW drafted \in Drafts,
           NewPlan(c, new, opened, drafted)
    PROVE  /\ opened.status \in {"in_progress", "cancelled"}
           /\ opened.revision # 0
           /\ new.resolution = "feedback_submitted" => new.digest # Blank
<1> DEFINE r == op[c].request
<1>1. r \in Requests /\ row[r] \in Rows /\ Fits(r) /\ plan[r] = None
    BY PlanStep DEF NewPlan, TypeInv, TypeOK, RowsInv
<1>2. plan'[r] = new /\ row'[r] = opened /\ new # None
    BY <1>1, NoRecordAssumption DEF NewPlan, TypeInv, TypeOK
<1>3. row[r].status \in {"waiting", "in_progress", "cancelled"}
    BY <1>1 DEF NewPlan, Rows, Statuses
<1>4. CASE PlanSubmission(c)
    <2>1. /\ ~Terminal(r) /\ Body(r) # Blank /\ row' = row
          /\ new.digest = Body(r)
        BY <1>1, <1>2, <1>4 DEF PlanSubmission, TypeInv, TypeOK
    <2>2. row[r].status # "waiting"
        BY <1>1, <2>1 DEF Fits, Body
    <2> QED BY <1>1, <1>2, <1>3, <2>1, <2>2 DEF Fits, Terminal
<1>5. CASE PlanCancellation(c)
    <2> DEFINE fresh == row[r].revision = 0
    <2>1. /\ new.resolution = "cancelled"
          /\ opened = IF fresh THEN [row[r] EXCEPT !.status = "in_progress", !.revision = 1]
                      ELSE row[r]
        BY <1>1, <1>2, <1>5 DEF PlanCancellation, TypeInv, TypeOK
    <2>2. CASE fresh
        BY <1>1, <2>1, <2>2 DEF Rows
    <2>3. CASE ~fresh
        BY <1>1, <1>3, <2>1, <2>3 DEF Fits
    <2> QED BY <2>1, <2>2, <2>3
<1> QED BY <1>4, <1>5

\* Rows, drafts and plans go together after every step.
LEMMA RowsPreserved == IInv /\ RowsInv /\ [Next]_vars => RowsInv'
<1> SUFFICES ASSUME IInv, RowsInv, [Next]_vars, NEW r \in Requests PROVE Fits(r)'
    BY DEF RowsInv
<1> USE DEF IInv, TypeInv, TypeOK
<1>0. Fits(r) /\ row[r] \in Rows
    BY DEF RowsInv
<1>1. ASSUME row'[r] = row[r], draft'[r] = draft[r], plan'[r] = plan[r] PROVE Fits(r)'
    BY <1>0, <1>1 DEF Fits
<1>2. ASSUME NEW q \in Requests, NEW body \in Texts, Edit(q, body) PROVE Fits(r)'
    <2>1. CASE q = r
        <3>1. /\ row'[r].status = "in_progress"
              /\ row'[r].revision = row[r].revision + 1
              /\ draft'[r] = [body |-> body, revision |-> row[r].revision + 1]
              /\ plan'[r] = None
            BY <1>0, <1>2, <2>1 DEF Edit, Editable, Rows
        <3>2. draft'[r] \in Drafts
            BY <1>0, <3>1 DEF Drafts, Rows
        <3> QED BY <1>0, <3>1, <3>2, NoRecordAssumption DEF Fits, Rows
    <2>2. CASE q # r
        BY <1>1, <1>2, <2>2 DEF Edit
    <2> QED BY <2>1, <2>2
<1>3. ASSUME NEW c \in Calls, ApproveFeedback(c) PROVE Fits(r)'
    <2> PICK q \in Requests : ApproveFeedback(c)!(q)
        BY <1>3 DEF ApproveFeedback
    <2>1. CASE row'[r] = row[r]
        BY <1>1, <2>1
    <2>2. CASE row'[r] # row[r]
        <3>1. /\ row'[r].status = "completed"
              /\ row'[r].resolution = "approved"
              /\ row'[r].revision = row[r].revision + 1
              /\ UNCHANGED <<draft, plan>>
            BY <1>0, <2>2 DEF Rows
        <3> QED BY <1>0, <3>1 DEF Fits, Rows
    <2> QED BY <2>1, <2>2
<1>4. ASSUME NEW c \in Callers, CallerStep(c) \/ FailureStep(c) PROVE Fits(r)'
    <2>1. CASE UNCHANGED database
        BY <1>1, <2>1 DEF database
    <2>2. CASE PlanSubmission(c) \/ PlanCancellation(c)
        <3>1. ASSUME NEW new \in PlanRows, NEW opened \in Rows, NEW drafted \in Drafts,
                     NewPlan(c, new, opened, drafted)
              PROVE  Fits(r)'
            <4>1. /\ opened.status \in {"in_progress", "cancelled"}
                  /\ opened.revision # 0
                  /\ new.resolution = "feedback_submitted" => new.digest # Blank
                BY <2>2, <3>1, NewPlanFits
            <4>2. CASE r = op[c].request
                <5>1. row'[r] = opened /\ draft'[r] = drafted /\ plan'[r] = new
                    BY <3>1, <4>2 DEF NewPlan
                <5>2. drafted # None /\ new # None
                    BY NoRecordAssumption
                <5>3. drafted.revision = opened.revision
                    BY <3>1 DEF NewPlan
                <5> QED BY <4>1, <5>1, <5>2, <5>3 DEF Fits
            <4>3. CASE r # op[c].request
                BY <1>1, <3>1, <4>3 DEF NewPlan
            <4> QED BY <4>2, <4>3
        <3> QED BY <1>1, <2>2, <3>1, PlanStep
    <2>3. CASE Complete(c)
        <3> DEFINE q == held[c].content.request
        <3>1. draft' = draft
            BY <2>3, CompleteStep
        <3>2. CASE UNCHANGED <<row, plan>>
            BY <1>1, <3>1, <3>2
        <3>3. ASSUME q = r, SamePlan(c),
                     plan' = [plan EXCEPT ![r].state = "published"],
                     row' = [row EXCEPT ![r] = IF row[r].status = "cancelled" THEN row[r]
                                               ELSE Ended(r, held[c].content)]
              PROVE  Fits(r)'
            <4>1. plan[r] # None /\ plan[r] \in PlanRows
                BY <3>3 DEF SamePlan
            <4>2. /\ plan'[r] # None
                  /\ plan'[r].resolution = plan[r].resolution
                  /\ plan'[r].digest = plan[r].digest
                <5>1. /\ plan'[r] \in PlanRows
                      /\ plan'[r].resolution = plan[r].resolution
                      /\ plan'[r].digest = plan[r].digest
                    BY <3>3, <4>1 DEF PlanRows
                <5> QED BY <5>1, NoRecordAssumption
            <4>3. CASE row[r].status = "cancelled"
                BY <1>0, <3>1, <3>3, <4>1, <4>2, <4>3 DEF Fits
            <4>4. CASE row[r].status # "cancelled"
                <5>1. held[c].content.resolution \in PlanResolutions
                    BY <2>3, CallerTyped DEF Complete, Holding, Contents
                <5>2. /\ row'[r].status = EndStatus(held[c].content.resolution)
                      /\ row'[r].resolution = held[c].content.resolution
                      /\ row'[r].revision = row[r].revision + 1
                    BY <3>3, <4>4 DEF Ended
                <5> QED BY <1>0, <3>1, <4>1, <4>2, <5>1, <5>2
                        DEF Fits, EndStatus, PlanResolutions, Rows
            <4> QED BY <4>3, <4>4
        <3>4. CASE /\ q # r
                   /\ plan' = [plan EXCEPT ![q].state = "published"]
                   /\ row' = [row EXCEPT ![q] = IF row[q].status = "cancelled" THEN row[q]
                                               ELSE Ended(q, held[c].content)]
            BY <1>1, <3>1, <3>4
        <3> QED BY <2>3, <3>2, <3>3, <3>4, CompleteStep
    <2> QED BY <1>4, <2>1, <2>2, <2>3, QuietStep
<1>5. CASE (\E c \in Calls : SubmitFeedback(c) \/ CancelFeedback(c)) \/ BootStep \/ RefuseOpening
           \/ Crash \/ (\E p \in Publications : DetachedRename(p)) \/ UNCHANGED vars
    BY <1>1, <1>5 DEF SubmitFeedback, CancelFeedback, Begin, BootStep, RefuseOpening,
                      ScanPlans, ScanLegacy, RecordError, Opened, RecoverPlan,
                      ArchiveLegacy, BootStays, Crash, DetachedRename, vars, database
<1> QED BY <1>2, <1>3, <1>4, <1>5, BodyTyped DEF Next, SaveDraft, ChangeAttachments

\* A call is asked once.
LEMMA AskedOnce ==
    TypeInv /\ [Next]_vars => \A c \in Calls :
        /\ op'[c] = op[c] \/ pc[c] = "idle"
        /\ pc'[c] = "idle" => pc[c] = "idle" /\ op'[c] = op[c]
<1> SUFFICES ASSUME TypeInv, [Next]_vars, NEW c \in Calls
             PROVE  /\ op'[c] = op[c] \/ pc[c] = "idle"
                    /\ pc'[c] = "idle" => pc[c] = "idle" /\ op'[c] = op[c]
    OBVIOUS
<1> USE CallersAssumption DEF TypeInv, TypeOK, Callers
<1>1. ASSUME NEW d \in Calls, SubmitFeedback(d) \/ CancelFeedback(d) \/ ApproveFeedback(d)
      PROVE  /\ op'[c] = op[c] \/ pc[c] = "idle"
             /\ pc'[c] = "idle" => pc[c] = "idle" /\ op'[c] = op[c]
    <2>1. pc[d] = "idle" /\ pc'[d] # "idle"
              /\ \A e \in Callers \ {d} : op'[e] = op[e] /\ pc'[e] = pc[e]
        <3>1. CASE SubmitFeedback(d) \/ CancelFeedback(d)
            BY <3>1 DEF SubmitFeedback, CancelFeedback, Begin
        <3>2. CASE ApproveFeedback(d)
            <4> PICK r \in Requests : ApproveFeedback(d)!(r)
                BY <3>2 DEF ApproveFeedback
            <4>1. pc'[d] \in {"notify", "done"}
                OBVIOUS
            <4> QED BY <4>1
        <3> QED BY <1>1, <3>1, <3>2
    <2> QED BY <2>1
<1>2. ASSUME NEW d \in Callers, CallerStep(d) \/ FailureStep(d)
      PROVE  /\ op'[c] = op[c]
             /\ pc'[c] = "idle" => pc[c] = "idle"
    BY <1>2, OneCaller DEF CallerMoves, Running, Publishing
<1>3. BootStep \/ RefuseOpening => op'[c] = op[c] /\ pc'[c] = pc[c]
    BY DEF BootStep, RefuseOpening, ScanPlans, ScanLegacy, RecordError, Opened,
           RecoverPlan, ArchiveLegacy
<1>4. Crash => op'[c] = op[c] /\ (pc'[c] = "idle" => pc[c] = "idle")
    BY DEF Crash
<1>5. (\E r \in Requests : SaveDraft(r) \/ ChangeAttachments(r))
      \/ (\E p \in Publications : DetachedRename(p)) \/ UNCHANGED vars
          => op' = op /\ pc' = pc
    BY DEF SaveDraft, ChangeAttachments, Edit, DetachedRename, vars, calls
<1> QED BY <1>1, <1>2, <1>3, <1>4, <1>5 DEF Next

\* Only planning makes a plan, under the id of the caller.
LEMMA PlannedBy ==
    ASSUME TypeInv, [Next]_vars, NEW r \in Requests, plan[r] = None, plan'[r] # None
    PROVE  \E c \in Callers : /\ pc[c] = "plan" /\ op'[c] = op[c]
                              /\ op[c] \in Ops /\ op[c].request = r
                              /\ plan'[r].publication = Publication(c)
<1> USE DEF TypeInv, TypeOK
<1>1. ASSUME NEW c \in Callers, CallerStep(c) \/ FailureStep(c), plan' # plan
      PROVE  /\ pc[c] = "plan" /\ op'[c] = op[c]
             /\ op[c] \in Ops /\ op[c].request = r
             /\ plan'[r].publication = Publication(c)
    <2>1. CASE PlanSubmission(c) \/ PlanCancellation(c)
        <3>1. PICK new \in PlanRows, opened \in Rows, drafted \in Drafts :
                  NewPlan(c, new, opened, drafted)
            BY <1>1, <2>1, PlanStep
        <3>2. pc[c] = "plan" /\ op[c].request \in Requests
            BY <2>1, PlanStep
        <3>3. op[c] \in Ops /\ op' = op
            BY <3>1, <3>2, CallerTyped DEF Running, NewPlan, Adopt
        <3> QED BY <3>1, <3>2, <3>3 DEF NewPlan
    <2>2. CASE Complete(c)
        <3>1. held[c].content.request \in Requests /\ plan[held[c].content.request] # None
                 /\ plan' = [plan EXCEPT ![held[c].content.request].state = "published"]
            BY <1>1, <2>2, CompleteStep, ZenonT(30) DEF SamePlan
        <3> QED BY <3>1
    <2> QED BY <1>1, <2>1, <2>2, QuietStep DEF database
<1>2. \/ \E c \in Callers : CallerStep(c) \/ FailureStep(c)
      \/ plan' = plan
    BY DEF Next, SaveDraft, ChangeAttachments, Edit, SubmitFeedback, CancelFeedback,
           ApproveFeedback, Begin, BootStep, RefuseOpening, ScanPlans, ScanLegacy,
           RecordError, Opened, RecoverPlan, ArchiveLegacy, BootStays, Crash,
           DetachedRename, vars, database
<1> QED BY <1>1, <1>2

\* Publications belong to one request after every step.
LEMMA OwnersPreserved == TypeInv /\ OwnersInv /\ [Next]_vars => OwnersInv'
<1> SUFFICES ASSUME TypeInv, OwnersInv, [Next]_vars PROVE OwnersInv'
    OBVIOUS
<1>1. ASSUME NEW c \in Calls, pc'[c] = "idle" PROVE op'[c] = None
    BY <1>1, AskedOnce DEF OwnersInv
<1>2. ASSUME NEW r \in Requests, plan[r] # None PROVE Owned(r)'
    <2>1. plan'[r].publication = plan[r].publication
        BY <1>2, PlanKept DEF Kept
    <2>2. \A p \in Calls : op[p] # None => op'[p] = op[p]
        BY AskedOnce DEF OwnersInv
    <2> QED BY <1>2, <2>1, <2>2 DEF OwnersInv, Owned
<1>3. ASSUME NEW r \in Requests, plan[r] = None, plan'[r] # None PROVE Owned(r)'
    <2> PICK c \in Callers : /\ pc[c] = "plan" /\ op'[c] = op[c]
                             /\ op[c] \in Ops /\ op[c].request = r
                             /\ plan'[r].publication = Publication(c)
        BY <1>3, PlannedBy
    <2>1. op[c] # None
        BY NoRecordAssumption
    <2> QED BY <2>1 DEF Owned, Publication, Callers
<1>4. \A r \in Requests : Owned(r)'
    BY <1>2, <1>3 DEF Owned
<1> QED BY <1>1, <1>4 DEF OwnersInv

-----------------------------------------------------------------------------
\* A directory of the publication a caller holds is empty, half-written or the
\* package it holds.
LEMMA HeldDirectories ==
    ASSUME IInv, OwnersInv, NEW c \in Callers, held[c] # None
    PROVE  LET p == held[c].publication IN
           /\ p \in Publications
           /\ temp[p] \in {None, Partial, held[c].content}
           /\ package[p] \in {None, Partial, held[c].content}
<1> DEFINE p == held[c].publication
<1> USE DEF IInv, TypeInv, TypeOK
<1>1. /\ held[c] \in HeldPlans /\ p \in Publications
      /\ held[c].content.request \in Requests
    BY DEF HeldPlans, Contents
<1> PICK r \in Requests : r = held[c].content.request
    BY <1>1
<1>2. /\ plan[r] # None /\ p = plan[r].publication
      /\ held[c].content = Content(r, plan[r], Body(r))
    BY HeldFacts
<1>3. ASSUME NEW found \in Contents, Stored(p, found) PROVE found = held[c].content
    <2> PICK q \in Requests : q = found.request
        BY DEF Contents
    <2>1. found \notin {None, Partial}
        BY NoRecordAssumption
    <2>2. plan[q] # None /\ plan[q].publication = p /\ found = Content(q, plan[q], Body(q))
        BY <1>3, <2>1 DEF Stored
    <2>3. Owned(q) /\ Owned(r)
        BY DEF OwnersInv
    <2>4. q = r
        BY <1>2, <2>2, <2>3, CallersAssumption DEF Owned
    <2> QED BY <1>2, <2>2, <2>4
<1>4. Stored(p, temp[p]) /\ Stored(p, package[p])
    BY <1>1 DEF DiskInv
<1> QED BY <1>1, <1>3, <1>4

\* What the opening does to one request leaves the others alone.
LEMMA BootElsewhere ==
    ASSUME IInv, BootInv, CallerStep(Boot), NEW r, r = op[Boot].request
    PROVE  /\ r \in Requests /\ pc[Boot] \in Running
           /\ UNCHANGED <<start, op, detached, fault>>
           /\ \A q \in Requests \ {r} :
                 /\ row'[q] = row[q] /\ plan'[q] = plan[q] /\ result'[q] = result[q]
                 /\ q \in probes => q \in probes'
           /\ \A p \in Publications : package[p] # None => package'[p] = package[p]
<1> USE DEF IInv, TypeInv, TypeOK
<1>1. Boot \in Callers /\ Publication(Boot) = r
    BY DEF Callers, Publication
<1>2. pc[Boot] \in Running /\ UNCHANGED start /\ op' = op
    BY <1>1, OneCaller DEF CallerMoves
<1>3. r \in Requests
    BY <1>1, <1>2, CallerTyped
<1>4. CASE Read(Boot) \/ Preflight(Boot) \/ Probe(Boot) \/ Unprobe(Boot) \/ Reread(Boot)
           \/ Lock(Boot)
    BY <1>1, <1>2, <1>3, <1>4
    DEF Read, Preflight, Probe, Unprobe, Reread, Lock, database, disk
<1>5. CASE PlanSubmission(Boot) \/ PlanCancellation(Boot)
    <2>1. UNCHANGED <<result, disk, fault>>
        BY <1>1, <1>5, PlanStep
    <2>2. \A q \in Requests \ {r} : row'[q] = row[q] /\ plan'[q] = plan[q]
        BY <1>1, <1>5, PlanStep DEF NewPlan
    <2> QED BY <1>2, <1>3, <2>1, <2>2 DEF disk
<1>6. CASE Check(Boot) \/ Stage(Boot) \/ SyncParent(Boot) \/ Cleanup(Boot)
           \/ NotifyTerminal(Boot)
    BY <1>2, <1>3, <1>6
    DEF Check, AcceptExisting, Stage, SyncParent, Cleanup, NotifyTerminal, database, disk
<1>7. CASE Write(Boot) \/ Rename(Boot)
    <2>1. UNCHANGED <<database, detached, probes, fault>>
        BY <1>7 DEF Write, Rename
    <2>2. \A p \in Publications : package[p] # None => package'[p] = package[p]
        BY <1>7 DEF Write, Rename, Rescue, AcceptExisting
    <2> QED BY <1>2, <1>3, <2>1, <2>2 DEF database
<1>8. CASE Complete(Boot)
    <2>1. held[Boot].content.request = r
        BY <1>2, <1>8 DEF BootInv, BootAt, Complete, Holding
    <2>2. UNCHANGED <<disk, fault>>
        BY <1>1, <1>8, CompleteStep
    <2>3. \A q \in Requests \ {r} :
              row'[q] = row[q] /\ plan'[q] = plan[q] /\ result'[q] = result[q]
        <3>1. CASE UNCHANGED <<row, plan, result>>
            BY <3>1
        <3>2. CASE /\ plan' = [plan EXCEPT ![r].state = "published"]
                   /\ result' = [result EXCEPT ![r] = held[Boot].publication]
                   /\ row' = [row EXCEPT ![r] = IF row[r].status = "cancelled" THEN row[r]
                                               ELSE Ended(r, held[Boot].content)]
            BY <3>2
        <3> QED BY <1>1, <1>8, <2>1, <3>1, <3>2, CompleteStep
    <2> QED BY <1>2, <1>3, <2>2, <2>3 DEF disk
<1> QED BY <1>4, <1>5, <1>6, <1>7, <1>8 DEF CallerStep

\* A plan still preparing whose request has ended was overtaken by an approval,
\* or it is the archive of a legacy cancellation.
LEMMA PreparingEnds ==
    ASSUME IInv, RowsInv, NEW r \in Requests, Preparing(r)
    PROVE  /\ plan[r] \in PlanRows /\ result[r] = None /\ Frozen(r)
           /\ row[r].status = "completed" => row[r].resolution = "approved"
           /\ row[r].status = "cancelled" =>
                 plan[r].resolution = "cancelled" /\ plan[r].reason = row[r].reason
           /\ row[r].status # "waiting"
           /\ row[r].status \in Statuses
           /\ draftFiles[r] = TRUE
<1> USE DEF IInv, TypeInv, TypeOK
<1>1. plan[r] \in PlanRows /\ Frozen(r) /\ Fits(r) /\ row[r] \in Rows /\ draftFiles[r] \in BOOLEAN
    BY DEF Preparing, DraftFrozen, RowsInv
<1>2. result[r] = None
    BY DEF Preparing, DatabaseInv
<1>3. draftFiles[r]
    BY <1>2 DEF DraftFilesOutlivePlan
<1>4. row[r].resolution # "feedback_submitted"
    BY <1>2 DEF DatabaseInv
<1>5. row[r].status = "cancelled" =>
          plan[r].resolution = "cancelled" /\ plan[r].reason = row[r].reason
    BY DEF DatabaseInv, Preparing
<1> QED BY <1>1, <1>2, <1>3, <1>4, <1>5 DEF Fits, Frozen, Rows

\* Nothing of r is left to do.
Settled(r) == Replayed(r) /\ Archived(r)

\* Before it plans, the opening goes on, or finds r settled.
LEMMA BootReads ==
    ASSUME IInv, RowsInv, NEW r \in Requests, r = op[Boot].request, BootAt(r),
           \/ Read(Boot) \/ Preflight(Boot) \/ Probe(Boot) \/ Unprobe(Boot) \/ Reread(Boot)
    PROVE  IF pc'[Boot] \in Running THEN BootAt(r)' ELSE Settled(r)'
<1> USE DEF IInv, TypeInv, TypeOK
<1>1. Boot \in Callers /\ Publication(Boot) = r
    BY DEF Callers, Publication
<1>2. pc[Boot] \notin Holding /\ pc[Boot] \notin {"read", "reread"}
    BY DEF BootAt, Read, Preflight, Probe, Unprobe, Reread, Holding, Publishing
<1>3. UNCHANGED database /\ op' = op /\ temp' = temp /\ package' = package
    BY DEF Read, Preflight, Probe, Unprobe, Reread, disk, RefuseTerminal, Goto, End
<1>4. \/ Unarchived(r) /\ op[Boot].kind = "cancel"
      \/ Preparing(r) /\ Replays(r) /\ pc[Boot] \in {"preflight", "plan"}
    BY <1>2 DEF BootAt
<1>5. /\ Unarchived(r) => Unarchived(r)'
      /\ Preparing(r) => Preparing(r)'
      /\ Replays(r) => Replays(r)'
    BY <1>3 DEF Unarchived, Preparing, Replays, database
<1>6. \A x : End(Boot, x) => pc'[Boot] \notin Running
    BY <1>1 DEF End, Running, Publishing
<1>7. CASE Preflight(Boot)
    <2> DEFINE refused == IF op[Boot].kind = "submit" THEN Terminal(r)
                          ELSE \/ row[r].status = "completed"
                               \/ row[r].status = "cancelled" /\ result[r] # None
    <2>1. CASE Unarchived(r) /\ op[Boot].kind = "cancel"
        <3>1. ~refused /\ plan[r] = None
            BY <2>1 DEF Unarchived
        <3>2. pc'[Boot] = "probe"
            BY <1>1, <1>7, <3>1 DEF Preflight, Goto
        <3> QED BY <1>3, <1>5, <2>1, <3>2 DEF BootAt, Holding, Publishing, Running
    <2>2. CASE Preparing(r) /\ Replays(r)
        <3>1. CASE refused
            <4>1. row[r].resolution = "approved"
                <5>1. /\ result[r] = None
                      /\ row[r].status = "completed" => row[r].resolution = "approved"
                      /\ row[r].status = "cancelled" => plan[r].resolution = "cancelled"
                    BY <2>2, PreparingEnds
                <5>2. op[Boot].kind = "submit" => row[r].status # "cancelled"
                    BY <2>2, <5>1 DEF Replays
                <5> QED BY <3>1, <5>1, <5>2 DEF Terminal
            <4>2. pc'[Boot] \notin Running
                BY <1>6, <1>7, <3>1 DEF Preflight, RefuseTerminal
            <4> QED BY <1>3, <2>2, <4>1, <4>2
                    DEF Settled, Replayed, Archived, Unarchived, Preparing, database
        <3>2. CASE ~refused
            <4>1. pc'[Boot] = "plan"
                BY <1>1, <1>7, <2>2, <3>2 DEF Preflight, Goto, Preparing
            <4> QED BY <1>5, <2>2, <4>1 DEF BootAt, Holding, Publishing, Running
        <3> QED BY <3>1, <3>2
    <2> QED BY <1>4, <2>1, <2>2
<1>8. CASE Probe(Boot) \/ Unprobe(Boot)
    <2>1. Unarchived(r) /\ op[Boot].kind = "cancel"
        BY <1>4, <1>8 DEF Probe, Unprobe
    <2>2. CASE pc'[Boot] \in {"unprobe", "plan"}
        BY <1>3, <1>5, <2>1, <2>2 DEF BootAt, Holding, Publishing, Running
    <2>3. CASE End(Boot, "failed") /\ r \in probes /\ probes' = probes
        BY <1>3, <1>6, <2>1, <2>3
        DEF Settled, Replayed, Archived, Unarchived, Preparing, database
    <2> QED BY <1>1, <1>8, <2>2, <2>3 DEF Probe, Unprobe, Goto
<1> QED BY <1>2, <1>7, <1>8 DEF Read, Reread

\* A cancelled request without a plan and a draft is planned with an empty one.
LEMMA ArchivePlanned ==
    ASSUME NEW c, PlanCancellation(c), NEW r, r = op[c].request,
           row[r].status = "cancelled", plan[r] = None, row[r].revision # 0, draft[r] = None,
           [body |-> Blank, revision |-> row[r].revision] # None,
           NEW new, new = [publication |-> Publication(c), revision |-> row[r].revision,
                           digest |-> CancelReason(c), cooking |-> None,
                           resolution |-> "cancelled", reason |-> CancelReason(c),
                           state |-> "preparing"]
    PROVE  plan' = [plan EXCEPT ![r] = new] /\ Adopt(c, Hold(r, new, Blank))
<1>1. row[r].status # "completed" /\ row[r].status # "waiting"
    OBVIOUS
<1>2. ~(row[r].revision = 0)
    OBVIOUS
<1> DEFINE source == row[r].revision
           drafted == [body |-> Blank, revision |-> source]
<1>3. drafted.revision = source /\ drafted.body = Blank
    OBVIOUS
<1>4. plan' = [plan EXCEPT ![r] = new] /\ Adopt(c, Hold(r, new, drafted.body))
    BY <1>1, <1>2, <1>3, SMTT(30) DEF PlanCancellation
<1> QED BY <1>3, <1>4

\* The opening plans the archive, or adopts the plan it replays.
LEMMA BootPlans ==
    ASSUME IInv, RowsInv, NEW r \in Requests, r = op[Boot].request, BootAt(r),
           PlanSubmission(Boot) \/ PlanCancellation(Boot)
    PROVE  IF pc'[Boot] \in Running THEN BootAt(r)' ELSE Settled(r)'
<1> USE DEF IInv, TypeInv, TypeOK
<1>1. Boot \in Callers /\ Publication(Boot) = r
    BY DEF Callers, Publication
<1>2. pc[Boot] = "plan"
    BY DEF PlanSubmission, PlanCancellation
<1>3. \/ Unarchived(r) /\ op[Boot].kind = "cancel"
      \/ Preparing(r) /\ Replays(r)
    BY <1>2 DEF BootAt, Holding, Publishing
<1>4. \A x : End(Boot, x) => pc'[Boot] \notin Running
    BY <1>1 DEF End, Running, Publishing
<1>5. ASSUME NEW h, h.content.request = r, Adopt(Boot, h), Preparing(r)'
      PROVE  IF pc'[Boot] \in Running THEN BootAt(r)' ELSE Settled(r)'
    <2>1. pc'[Boot] = "lock" /\ held'[Boot] = h
        BY <1>1, <1>5 DEF Adopt
    <2> QED BY <1>5, <2>1 DEF BootAt, Holding, Publishing, Running
<1>6. \A planned, body : Hold(r, planned, body).content.request = r
    BY HoldFields
<1>7. CASE Preparing(r) /\ Replays(r)
    <2> DEFINE body == Body(r)
    <2>1. /\ plan[r] \in PlanRows /\ Frozen(r) /\ row[r].status \in Statuses
          /\ plan[r] # None /\ plan[r].state = "preparing" /\ Fits(r)
          /\ row[r].status = "completed" => row[r].resolution = "approved"
          /\ row[r].status = "cancelled" =>
                plan[r].resolution = "cancelled" /\ plan[r].reason = row[r].reason
        BY <1>7, PreparingEnds DEF Preparing, RowsInv
    <2>2. plan' = plan /\ row' = row /\ draft' = draft => Preparing(r)'
        BY <2>1 DEF Preparing
    <2>3. CASE row[r].status = "completed" /\ UNCHANGED <<row, plan>>
               /\ \E x \in {"terminal"} : End(Boot, x)
        <3>1. pc'[Boot] \notin Running
            BY <1>4, <2>3
        <3> QED BY <2>1, <2>3, <3>1 DEF Settled, Replayed, Archived, Unarchived, Preparing
    <2>4. CASE /\ UNCHANGED <<row, draft, plan>>
               /\ Adopt(Boot, Hold(r, plan[r], Body(r)))
        BY <1>5, <1>6, <2>2, <2>4
    <2>5. CASE PlanSubmission(Boot)
        <3>1. /\ plan[r].resolution = "feedback_submitted"
              /\ plan[r].revision = op[Boot].revision
              /\ plan[r].cooking = op[Boot].cooking
            BY <1>7, <2>1, <2>5 DEF Replays, PlanSubmission, PlanRows, PlanResolutions
        <3>2. plan[r].digest = Body(r) /\ Body(r) # Blank
            BY <2>1, <3>1 DEF Frozen, Fits
        <3>3. row[r].status # "cancelled"
            BY <2>1, <3>1
        <3>4. UNCHANGED <<row, draft>>
            BY <2>5 DEF PlanSubmission
        <3>5. CASE Terminal(r)
            <4>1. row[r].status = "completed"
                BY <3>3, <3>5 DEF Terminal
            <4>2. UNCHANGED plan /\ End(Boot, "terminal")
                BY <2>5, <3>5 DEF PlanSubmission, RefuseTerminal
            <4> QED BY <2>3, <3>4, <4>1, <4>2
        <3>6. CASE ~Terminal(r)
            <4>1. UNCHANGED plan /\ Adopt(Boot, Hold(r, plan[r], Body(r)))
                BY <2>1, <2>5, <3>1, <3>2, <3>6, SMTT(30) DEF PlanSubmission
            <4> QED BY <2>4, <3>4, <4>1
        <3> QED BY <3>5, <3>6
    <2>6. CASE PlanCancellation(Boot)
        <3>1. plan[r].resolution = "cancelled" /\ op[Boot].reason = plan[r].reason
            BY <1>7, <2>6 DEF Replays, PlanCancellation
        <3>2. CancelReason(Boot) = plan[r].reason
            BY <2>1, <3>1 DEF CancelReason
        <3>3. CASE row[r].status = "completed"
            <4>1. UNCHANGED <<row, plan>> /\ End(Boot, "terminal")
                BY <2>6, <3>3 DEF PlanCancellation
            <4> QED BY <2>3, <3>3, <4>1
        <3>4. CASE row[r].status # "completed"
            <4>1. UNCHANGED <<row, draft, plan>> /\ Adopt(Boot, Hold(r, plan[r], Body(r)))
                BY <2>1, <2>6, <3>1, <3>2, <3>4, ZenonT(30) DEF PlanCancellation
            <4> QED BY <2>4, <4>1
        <3> QED BY <3>3, <3>4
    <2> QED BY <2>5, <2>6
<1>8. CASE Unarchived(r) /\ op[Boot].kind = "cancel"
    <2> DEFINE new == [publication |-> Publication(Boot), revision |-> row[r].revision,
                       digest |-> CancelReason(Boot), cooking |-> None,
                       resolution |-> "cancelled", reason |-> CancelReason(Boot),
                       state |-> "preparing"]
    <2>1. /\ row[r].status = "cancelled" /\ plan[r] = None /\ row[r].revision # 0
          /\ draft[r] = None
        BY <1>8 DEF Unarchived, RowsInv, Fits
    <2>2. PlanCancellation(Boot)
        BY <1>8 DEF PlanSubmission
    <2>3. plan' = [plan EXCEPT ![r] = new] /\ Adopt(Boot, Hold(r, new, Blank))
        <3>1. [body |-> Blank, revision |-> row[r].revision] \in Drafts
            BY <1>1, <2>1, TextsAssumption DEF Rows, Drafts
        <3>2. [body |-> Blank, revision |-> row[r].revision] # None
            BY <3>1, NoRecordAssumption
        <3> QED BY <2>1, <2>2, <3>2, ArchivePlanned
    <2>4. plan'[r] = new /\ new.state = "preparing"
        BY <2>3
    <2>5. new \in PlanRows
        <3>1. CancelReason(Boot) \in Reasons
            BY <2>1 DEF CancelReason, ReasonsInv
        <3>2. row[r].revision \in Nat
            BY DEF Rows
        <3> QED BY <1>1, <3>1, <3>2 DEF PlanRows, PlanResolutions, Publications
    <2>6. plan'[r] # None
        BY <2>4, <2>5, NoRecordAssumption
    <2> QED BY <1>5, <1>6, <2>3, <2>4, <2>6 DEF Preparing
<1> QED BY <1>3, <1>7, <1>8

\* Publishing what it replays, the opening goes on, or meets a directory that
\* was published half-written.
LEMMA BootPublishes ==
    ASSUME IInv, RowsInv, OwnersInv, NEW r \in Requests, r = op[Boot].request, BootAt(r),
           \/ Lock(Boot) \/ Check(Boot) \/ Stage(Boot) \/ Write(Boot) \/ Rename(Boot)
           \/ SyncParent(Boot)
    PROVE  IF pc'[Boot] \in Running THEN BootAt(r)' ELSE Settled(r)'
<1> DEFINE p == held[Boot].publication
           content == held[Boot].content
<1> USE DEF IInv, TypeInv, TypeOK
<1>1. Boot \in Callers /\ UNCHANGED database
    BY DEF Callers, Lock, Check, Stage, Write, Rename, SyncParent
<1>2. /\ pc[Boot] \in Holding \ {"cleanup"} /\ held[Boot] # None
      /\ content.request = r /\ Preparing(r)
    BY DEF Lock, Check, Stage, Write, Rename, SyncParent, BootAt, Holding, Publishing,
           CallersInv, Callers
<1>3. /\ p = plan[r].publication /\ p \in Publications
      /\ temp[p] \in {None, Partial, content}
      /\ package[p] \in {None, Partial, content}
      /\ content \in Contents /\ content # None /\ Partial # None
    BY <1>1, <1>2, HeldFacts, HeldDirectories, CallerTyped, NoRecordAssumption
<1>4. Preparing(r)' /\ plan' = plan
    BY <1>1, <1>2 DEF Preparing, database
<1>5. ASSUME NEW step \in Holding \ {"cleanup"}, Goto(Boot, step),
             step \in {"stage", "write", "rename"} => package'[p] = None,
             step \in {"write", "rename"} => temp'[p] # None
      PROVE  IF pc'[Boot] \in Running THEN BootAt(r)' ELSE Settled(r)'
    <2>1. pc'[Boot] = step /\ held' = held /\ step \in Running
        BY <1>1, <1>5 DEF Goto, Holding, Publishing, Running
    <2> QED BY <1>2, <1>4, <1>5, <2>1 DEF BootAt
<1>6. ASSUME package[p] # None, package' = package, AcceptExisting(Boot)
      PROVE  IF pc'[Boot] \in Running THEN BootAt(r)' ELSE Settled(r)'
    <2>1. CASE package[p] = content
        BY <1>5, <1>6, <2>1 DEF AcceptExisting, Holding
    <2>2. CASE package[p] = Partial /\ package[p] # content
        <3>1. pc'[Boot] \notin Running
            BY <1>1, <1>6, <2>2 DEF AcceptExisting, End, Running, Publishing
        <3> QED BY <1>3, <1>4, <1>6, <2>2, <3>1
                DEF Settled, Replayed, Archived, Unarchived, Preparing
    <2> QED BY <1>3, <1>6, <2>1, <2>2
<1>7. CASE Lock(Boot)
    BY <1>5, <1>7 DEF Lock, Holding, Publishing
<1>8. CASE Check(Boot)
    BY <1>5, <1>6, <1>8 DEF Check, Holding, Publishing
<1>9. CASE Stage(Boot)
    <2>1. temp'[p] # None /\ package'[p] = None
        BY <1>3, <1>9 DEF Stage, BootAt, Holding, Publishing
    <2> QED BY <1>5, <1>9, <2>1 DEF Stage, Holding, Publishing
<1>10. CASE Write(Boot)
    <2>1. temp[p] # None /\ package[p] = None /\ draftFiles[r] = TRUE
        BY <1>2, <1>10, PreparingEnds DEF Write, BootAt, Holding, Publishing
    <2>2. Goto(Boot, "rename") /\ temp'[p] = content /\ package'[p] = None
        BY <1>2, <1>3, <1>10, <2>1 DEF Write
    <2> QED BY <1>3, <1>5, <2>2 DEF Holding, Publishing
<1>11. CASE Rename(Boot)
    <2>1. temp[p] # None /\ package[p] = None
        BY <1>11 DEF Rename, BootAt, Holding, Publishing
    <2>2. Goto(Boot, "sync")
        BY <1>11, <2>1 DEF Rename
    <2> QED BY <1>5, <2>2 DEF Holding, Publishing
<1>12. CASE SyncParent(Boot)
    BY <1>5, <1>12 DEF SyncParent, Holding
<1> QED BY <1>7, <1>8, <1>9, <1>10, <1>11, <1>12

\* The opening ends r as its plan says, or meets an approval; then it is done.
LEMMA BootEnds ==
    ASSUME IInv, RowsInv, NEW r \in Requests, r = op[Boot].request, BootAt(r),
           Complete(Boot) \/ Cleanup(Boot) \/ NotifyTerminal(Boot)
    PROVE  IF pc'[Boot] \in Running THEN BootAt(r)' ELSE Settled(r)'
<1> DEFINE content == held[Boot].content
           status == row[r].status
<1> USE DEF IInv, TypeInv, TypeOK
<1>1. Boot \in Callers
    BY DEF Callers
<1>2. \A x : End(Boot, x) => pc'[Boot] \notin Running
    BY <1>1 DEF End, Running, Publishing
<1>3. /\ pc[Boot] \in {"complete", "cleanup"}
      /\ held[Boot] # None /\ content.request = r
    BY <1>1 DEF Complete, Cleanup, NotifyTerminal, BootAt, Holding, Publishing, CallersInv
<1>4. CASE Complete(Boot)
    <2>1. Preparing(r)
        BY <1>3, <1>4 DEF Complete, BootAt, Holding
    <2>2. /\ plan[r] \in PlanRows /\ result[r] = None /\ Frozen(r)
          /\ status = "completed" => row[r].resolution = "approved"
          /\ status = "cancelled" => plan[r].resolution = "cancelled"
          /\ status \in Statuses /\ status # "waiting" /\ plan[r] # None
        BY <2>1, PreparingEnds DEF Preparing
    <2>3. CASE status = "completed"
        <3>1. End(Boot, "terminal") /\ UNCHANGED <<row, plan>>
            BY <1>3, <1>4, <2>2, <2>3 DEF Complete
        <3>2. pc'[Boot] \notin Running
            BY <1>2, <3>1
        <3> QED BY <2>2, <2>3, <3>1, <3>2 DEF Settled, Replayed, Archived, Unarchived
    <2>4. CASE status # "completed"
        <3>1. /\ held[Boot].publication = plan[r].publication
              /\ held[Boot].digest = plan[r].digest
              /\ content.revision = plan[r].revision
              /\ content.resolution = plan[r].resolution
              /\ content.reason = plan[r].reason
            <4>1. PICK h : h = Hold(r, plan[r], Body(r))
                OBVIOUS
            <4>2. held[Boot] = h
                BY <1>1, <1>3, <4>1 DEF HeldIsStored
            <4> QED BY <4>1, <4>2 DEF Hold, Content
        <3>2. SamePlan(Boot)
            BY <1>3, <2>2, <3>1 DEF SamePlan
        <3>3. Endable(Boot)
            BY <1>3, <2>2, <2>4, <3>1 DEF Endable, Frozen, Terminal, Statuses, PlanRows
        <3>4. Goto(Boot, "cleanup")
            BY <1>3, <1>4, <2>2, <2>4, <3>1, <3>2, <3>3, ZenonT(30) DEF Complete
        <3>5. pc'[Boot] = "cleanup" /\ held' = held
            BY <1>1, <3>4 DEF Goto
        <3> QED BY <1>3, <3>5 DEF BootAt, Holding, Running
    <2> QED BY <2>3, <2>4
<1>5. CASE Cleanup(Boot)
    <2>1. result[r] # None /\ UNCHANGED database
        BY <1>1, <1>3, <1>5 DEF Cleanup, StepsInv
    <2>2. plan[r] # None /\ plan[r].state = "published"
        BY <2>1 DEF DatabaseInv
    <2>3. pc'[Boot] \notin Running
        BY <1>2, <1>5 DEF Cleanup
    <2> QED BY <2>1, <2>2, <2>3
            DEF Settled, Replayed, Archived, Unarchived, Preparing, database
<1> QED BY <1>3, <1>4, <1>5 DEF NotifyTerminal

\* A step of the opening, on the request it is at.
LEMMA BootHere ==
    ASSUME IInv, RowsInv, OwnersInv, BootInv, CallerStep(Boot),
           NEW r, r = op[Boot].request
    PROVE  IF pc'[Boot] \in Running THEN BootAt(r)' ELSE Settled(r)'
<1>1. r \in Requests /\ pc[Boot] \in Running
    BY BootElsewhere
<1>2. BootAt(r)
    BY <1>1 DEF BootInv
<1> QED BY <1>1, <1>2, BootReads, BootPlans, BootPublishes, BootEnds DEF CallerStep

\* Where the store is open, refused or to be opened again, there is nothing to
\* show.
LEMMA NotOpening ==
    ASSUME StartInv', phase' \in {"up", "scan", "refused"}, phase' # "up" => detached' = {}
    PROVE  BootInv' /\ ReconcileInv'
BY DEF StartInv, BootInv, ReconcileInv, Running, Publishing

\* The opening keeps what it relies on, and settles one request after another.
LEMMA BootPreserved ==
    ASSUME IInv, OpeningInv, [Next]_vars, StartInv'
    PROVE  BootInv' /\ ReconcileInv'
<1> USE DEF OpeningInv, IInv, TypeInv, TypeOK
<1>1. CASE (\E r \in Requests : SaveDraft(r) \/ ChangeAttachments(r))
           \/ \E c \in Calls : SubmitFeedback(c) \/ CancelFeedback(c) \/ ApproveFeedback(c)
    <2>1. phase = "up" /\ UNCHANGED start
        BY <1>1 DEF SaveDraft, ChangeAttachments, Edit, Editable, SubmitFeedback,
                    CancelFeedback, ApproveFeedback, Begin
    <2> QED BY <2>1, NotOpening DEF start
<1>2. ASSUME NEW c \in Calls, CallerStep(c) \/ FailureStep(c) PROVE BootInv' /\ ReconcileInv'
    <2>1. CallerMoves(c) /\ UNCHANGED start
        BY <1>2, OneCaller DEF Callers
    <2>2. phase = "up"
        BY <2>1 DEF CallerMoves, StartInv, Running, Publishing
    <2> QED BY <2>1, <2>2, NotOpening DEF start
<1>3. CASE CallerStep(Boot)
    <2> PICK r : r = op[Boot].request
        OBVIOUS
    <2>1. /\ r \in Requests /\ pc[Boot] \in Running
          /\ UNCHANGED <<start, op, detached, fault>>
          /\ \A q \in Requests \ {r} :
                /\ row'[q] = row[q] /\ plan'[q] = plan[q] /\ result'[q] = result[q]
                /\ q \in probes => q \in probes'
          /\ \A p \in Publications : package[p] # None => package'[p] = package[p]
        BY <1>3, BootElsewhere
    <2>2. phase' = phase /\ todo' = todo /\ r \notin todo
        BY <2>1 DEF start, BootInv
    <2>3. IF pc'[Boot] \in Running THEN BootAt(r)' ELSE Settled(r)'
        BY <1>3, BootHere
    <2>4. \A q \in Requests \ {r} : /\ Preparing(q)' <=> Preparing(q)
                                    /\ Unarchived(q)' <=> Unarchived(q)
        BY <2>1 DEF Preparing, Unarchived
    <2>5. BootInv'
        BY <2>1, <2>2, <2>3, <2>4, SMTT(30) DEF BootInv
    <2>6. ASSUME NEW q \in Requests, q # r, Replayed(q) PROVE Replayed(q)'
        <3>1. CASE Preparing(q) /\ package[plan[q].publication] = Partial
            <4>1. plan[q].publication \in Publications /\ Partial # None
                BY <3>1, NoRecordAssumption DEF Preparing, PlanRows
            <4> QED BY <2>1, <2>6, <3>1, <4>1 DEF Replayed
        <3>2. CASE Preparing(q) /\ row[q].resolution = "approved"
            BY <2>1, <2>6, <3>2 DEF Replayed
        <3> QED BY <2>4, <2>6, <3>1, <3>2 DEF Replayed
    <2>7. ASSUME NEW q \in Requests, q # r, Archived(q) PROVE Archived(q)'
        BY <2>1, <2>4, <2>7 DEF Archived
    <2>8. ASSUME ~fault, phase \in {"recover", "archive"}, NEW q \in Requests, q # r
          PROVE  \/ q \in todo'
                 \/ Replayed(q)' /\ (phase' = "archive" => Archived(q)')
        BY <2>2, <2>6, <2>7, <2>8 DEF ReconcileInv, BootOn
    <2>9. BootOn(r)' \/ Settled(r)'
        BY <2>1, <2>3 DEF BootOn
    <2>10. ReconcileInv'
        BY <2>1, <2>2, <2>8, <2>9 DEF ReconcileInv, Settled
    <2> QED BY <2>5, <2>10
<1>4. CASE FailureStep(Boot)
    <2>1. CallerMoves(Boot) /\ UNCHANGED start
        BY <1>4, OneCaller DEF Callers
    <2>2. /\ UNCHANGED <<database, detached>> /\ fault' = TRUE
          /\ pc'[Boot] \in {"idle", "record"}
        BY <1>4 DEF FailureStep, FailDatabase, FailProbe, FailPublish, DropCall, End,
                    Callers, disk
    <2> QED BY <2>1, <2>2
            DEF BootInv, ReconcileInv, start, database, Preparing, Unarchived, Running,
                Publishing
<1>5. CASE Crash
    BY <1>5, NotOpening DEF Crash
<1>6. ASSUME NEW p \in Publications, DetachedRename(p) PROVE BootInv' /\ ReconcileInv'
    <2>1. phase = "up"
        BY <1>6 DEF DetachedRename, BootInv
    <2> QED BY <1>6, <2>1, NotOpening DEF DetachedRename, start
<1>7. CASE BootStep
    <2>1. /\ UNCHANGED <<database, disk, held, fault>> /\ phase # "up" /\ detached' = {}
          /\ pc[Boot] \in {"idle", "record"}
        BY <1>7 DEF BootStep, ScanPlans, ScanLegacy, RecordError, Opened, RecoverPlan,
                    ArchiveLegacy, BootStays, disk, BootInv, StartInv
    <2>2. \A q \in Requests : /\ Preparing(q)' <=> Preparing(q)
                              /\ Unarchived(q)' <=> Unarchived(q)
                              /\ Replayed(q)' <=> Replayed(q)
                              /\ Archived(q)' <=> Archived(q)
        BY <2>1 DEF Preparing, Unarchived, Replayed, Archived, database, disk
    <2>3. CASE Opened
        BY <2>1, <2>3, NotOpening DEF Opened
    <2>4. CASE ScanPlans
        <3>1. /\ phase' = "recover" /\ pc'[Boot] \in {"idle", "record"}
              /\ todo' = {q \in Requests : Preparing(q)}
            BY <2>1, <2>4 DEF ScanPlans
        <3> QED BY <2>1, <2>2, <3>1
                DEF BootInv, ReconcileInv, Replayed, Running, Publishing
    <2>5. CASE ScanLegacy
        <3>1. /\ phase = "recover" /\ phase' = "archive" /\ pc'[Boot] = "idle"
              /\ todo = {} /\ todo' = {q \in Requests : Unarchived(q)}
            BY <2>1, <2>5 DEF ScanLegacy
        <3>2. \A q \in Requests : ~fault => Replayed(q)
            BY <2>1, <3>1 DEF ReconcileInv, BootOn, Running, Publishing
        <3> QED BY <2>1, <2>2, <3>1, <3>2
                DEF BootInv, ReconcileInv, Archived, Running, Publishing
    <2>6. ASSUME NEW r \in Requests, RecoverPlan(r) PROVE BootInv' /\ ReconcileInv'
        <3>1. /\ phase = "recover" /\ phase' = "recover" /\ r \in todo /\ todo' = todo \ {r}
              /\ pc'[Boot] = "preflight" /\ plan' = plan
              /\ op'[Boot] = [kind |-> IF plan[r].resolution = "cancelled"
                                       THEN "cancel" ELSE "submit",
                              request |-> r, revision |-> plan[r].revision,
                              cooking |-> plan[r].cooking, reason |-> plan[r].reason]
            BY <2>1, <2>6 DEF RecoverPlan, Callers, database
        <3>2. Preparing(r)' /\ Replays(r)' /\ op'[Boot].request = r
            BY <2>2, <3>1 DEF BootInv, Replays
        <3>3. BootAt(r)'
            BY <3>1, <3>2 DEF BootAt, Holding, Publishing
        <3>4. BootInv'
            BY <2>1, <2>2, <3>1, <3>2, <3>3 DEF BootInv
        <3>5. BootOn(r)'
            BY <3>1, <3>2 DEF BootOn, Running
        <3>6. ReconcileInv'
            BY <2>1, <2>2, <3>1, <3>5 DEF ReconcileInv, BootOn, Running, Publishing
        <3> QED BY <3>4, <3>6
    <2>7. ASSUME NEW r \in Requests, ArchiveLegacy(r) PROVE BootInv' /\ ReconcileInv'
        <3>1. /\ phase = "archive" /\ phase' = "archive" /\ r \in todo /\ todo' = todo \ {r}
              /\ pc'[Boot] = "preflight"
              /\ op'[Boot].kind = "cancel" /\ op'[Boot].request = r
            BY <2>1, <2>7 DEF ArchiveLegacy, Callers
        <3>2. Unarchived(r)'
            BY <2>2, <3>1 DEF BootInv
        <3>3. BootAt(r)'
            BY <3>1, <3>2 DEF BootAt, Holding, Publishing
        <3>4. BootInv'
            BY <2>1, <2>2, <3>1, <3>3 DEF BootInv
        <3>5. BootOn(r)'
            BY <3>1 DEF BootOn, Running
        <3>6. ReconcileInv'
            BY <2>1, <2>2, <3>1, <3>5 DEF ReconcileInv, BootOn, Running, Publishing
        <3> QED BY <3>4, <3>6
    <2>8. CASE RecordError
        <3>1. /\ UNCHANGED <<op, phase, todo>>
              /\ pc[Boot] = "record" /\ pc'[Boot] = "idle"
            BY <2>1, <2>8 DEF RecordError, Callers
        <3> QED BY <2>1, <2>2, <3>1 DEF BootInv, ReconcileInv, BootOn, Running, Publishing
    <2> QED BY <1>7, <2>3, <2>4, <2>5, <2>6, <2>7, <2>8 DEF BootStep
<1>9. CASE RefuseOpening
    <2>1. phase # "up" /\ phase' = "refused" /\ detached' = detached
        BY <1>9 DEF RefuseOpening, StartInv, disk
    <2> QED BY <2>1, NotOpening DEF BootInv
<1>8. CASE UNCHANGED vars
    BY <1>8 DEF vars, database, disk, calls, start, BootInv, BootAt, Preparing, Unarchived,
                Replays, ReconcileInv, BootOn, Replayed, Archived
<1> QED BY <1>1, <1>2, <1>3, <1>4, <1>5, <1>6, <1>7, <1>8, <1>9 DEF Next, Callers

\* What the opening relies on holds in every state the program reaches.
THEOREM OpeningInductive == Spec => []OpeningInv
<1>1. ASSUME Init PROVE OpeningInv
    <2>1. /\ \A r \in Requests : /\ draft[r] = None /\ plan[r] = None
                                 /\ row[r].status \in {"waiting", "cancelled"}
                                 /\ row[r].status = "waiting" <=> row[r].revision = 0
          /\ \A c \in Callers : pc[c] = "idle" /\ op[c] = None
        <3> PICK legacy \in SUBSET Requests, why \in [Requests -> Reasons] :
              row = [r \in Requests |->
                        IF r \in legacy
                        THEN [status |-> "cancelled", revision |-> 1,
                              resolution |-> None, reason |-> why[r]]
                        ELSE [status |-> "waiting", revision |-> 0,
                              resolution |-> None, reason |-> None]]
            BY <1>1 DEF Init
        <3> QED BY <1>1 DEF Init
    <2>2. phase = "scan" /\ detached = {}
        BY <1>1 DEF Init
    <2>3. RowsInv
        BY <2>1 DEF RowsInv, Fits
    <2>4. OwnersInv
        BY <2>1 DEF OwnersInv, Owned, Callers
    <2>5. BootInv /\ ReconcileInv
        BY <2>1, <2>2 DEF BootInv, ReconcileInv, Callers, Running, Publishing
    <2> QED BY <2>3, <2>4, <2>5 DEF OpeningInv
<1>2. IInv /\ IInv' /\ OpeningInv /\ [Next]_vars => OpeningInv'
    BY RowsPreserved, OwnersPreserved, BootPreserved DEF OpeningInv, IInv, TypeInv
<1> QED BY <1>1, <1>2, Inductive, PTL DEF Spec

\* A start in which nothing fails leaves no plan and no legacy cancellation
\* behind, however many there were and wherever the crashes before it struck.
THEOREM OpeningReconcilesCorrect == Spec => OpeningReconciles
<1> DEFINE Reconciles == phase # "up" /\ phase' = "up" /\ ~fault =>
               \A r \in Requests :
                   /\ Preparing(r) => \/ row[r].resolution = "approved"
                                      \/ package[plan[r].publication] = Partial
                   /\ Unarchived(r) => r \in probes
<1>1. ASSUME IInv, OpeningInv, [Next]_vars, phase # "up", phase' = "up" PROVE Opened
    <2>1. CASE (\E r \in Requests : SaveDraft(r) \/ ChangeAttachments(r))
               \/ \E c \in Calls : SubmitFeedback(c) \/ CancelFeedback(c) \/ ApproveFeedback(c)
        BY <1>1, <2>1 DEF SaveDraft, ChangeAttachments, Edit, Editable, SubmitFeedback,
                          CancelFeedback, ApproveFeedback, Begin
    <2>2. (\E c \in Callers : CallerStep(c) \/ FailureStep(c)) => phase' = phase
        BY <1>1, OneCaller DEF start, IInv
    <2>3. (\E p \in Publications : DetachedRename(p)) \/ UNCHANGED vars => phase' = phase
        BY DEF DetachedRename, vars, start
    <2>4. Crash => phase' # "up"
        BY DEF Crash
    <2>5. BootStep => Opened \/ phase' \in {phase, "recover", "archive"}
        BY DEF BootStep, ScanPlans, ScanLegacy, RecordError, RecoverPlan, ArchiveLegacy
    <2>6. RefuseOpening => phase' = "refused"
        BY DEF RefuseOpening
    <2> QED BY <1>1, <2>1, <2>2, <2>3, <2>4, <2>5, <2>6 DEF Next
<1>2. ASSUME OpeningInv, Opened, ~fault, NEW r \in Requests
      PROVE  Replayed(r) /\ Archived(r)
    BY <1>2 DEF Opened, OpeningInv, ReconcileInv, BootOn, Running, Publishing
<1>3. IInv /\ OpeningInv /\ [Next]_vars => [Reconciles]_vars
    BY <1>1, <1>2 DEF Replayed, Archived
<1> QED BY <1>3, Inductive, OpeningInductive, PTL DEF Spec, OpeningReconciles

-----------------------------------------------------------------------------
(* What the calls are told.                                                *)

\* The request has ended, or a cancellation is planned for it.
Closed(r) == Terminal(r) \/ (plan[r] # None /\ plan[r].resolution = "cancelled")

\* A call reads the request again only where it cannot be submitted any more.
RereadInv == \A c \in Calls : pc[c] = "reread" => Closed(op[c].request)

\* The probe file of a call is its own, and it is made once.
ProbesInv == \A c \in Calls : c \in probes => pc[c] \in {"unprobe", "done"}

\* Between the check and the rename the final name is free and the temporary
\* directory is there.
Staging(c, p) ==
    pc[c] \in {"stage", "write", "rename"} =>
        package[p] = None /\ (pc[c] # "stage" => temp[p] # None)

\* A queued rename is the only thing that could come between, and only a drop
\* leaves one.
StagingInv == ~fault =>
    detached = {} /\ \A c \in Callers : Staging(c, held[c].publication)

RefusalInv == RereadInv /\ ProbesInv /\ StagingInv

\* A step answers its own caller, if any.
LEMMA AnswersOwn ==
    ASSUME TypeInv, NEW c \in Callers, CallerStep(c) \/ FailureStep(c)
    PROVE  /\ \A d \in Callers \ {c} : answer'[d] = answer[d]
           /\ answer'[c] # answer[c] => pc'[c] \in {"idle", "record", "done"}
<1> USE DEF TypeInv, TypeOK
<1> DEFINE Own == /\ \A d \in Callers \ {c} : answer'[d] = answer[d]
                  /\ answer'[c] # answer[c] => pc'[c] \in {"idle", "record", "done"}
<1> SUFFICES Own
    OBVIOUS
<1>1. \A x : End(c, x) => Own
    BY DEF End
<1>2. \A step : Goto(c, step) => Own
    BY DEF Goto
<1>3. \A h : Adopt(c, h) => Own
    BY DEF Adopt
<1> HIDE DEF Own
<1>4. CASE Read(c) \/ Preflight(c) \/ Probe(c) \/ Unprobe(c) \/ Reread(c)
    BY <1>1, <1>2, <1>4 DEF Read, Preflight, Probe, Unprobe, Reread, RefuseTerminal
<1>5. CASE PlanSubmission(c) \/ PlanCancellation(c)
    BY <1>1, <1>2, <1>3, <1>5, PlanStep DEF NewPlan
<1>6. CASE Lock(c) \/ Check(c) \/ Stage(c) \/ Write(c) \/ Rename(c) \/ SyncParent(c)
    BY <1>1, <1>2, <1>6, SMTT(30)
    DEF Lock, Check, Stage, Write, Rename, SyncParent, Rescue, AcceptExisting
<1>7. CASE Complete(c) \/ Cleanup(c) \/ NotifyTerminal(c)
    BY <1>1, <1>2, <1>7 DEF Complete, Cleanup, NotifyTerminal
<1>8. CASE FailureStep(c)
    BY <1>1, <1>8 DEF FailureStep, FailDatabase, FailProbe, FailPublish, DropCall
<1> QED BY <1>4, <1>5, <1>6, <1>7, <1>8 DEF CallerStep

\* Whatever happens to a call is its own step, or a crash.
LEMMA CallMoves ==
    ASSUME TypeInv, [Next]_vars, NEW c \in Calls
    PROVE  \/ /\ pc'[c] = pc[c] /\ op'[c] = op[c] /\ held'[c] = held[c]
              /\ answer'[c] = answer[c]
           \/ SubmitFeedback(c) \/ CancelFeedback(c) \/ ApproveFeedback(c)
           \/ CallerStep(c) \/ FailureStep(c)
           \/ Crash
<1> USE CallersAssumption DEF TypeInv, TypeOK, Callers
<1> DEFINE Still == /\ pc'[c] = pc[c] /\ op'[c] = op[c] /\ held'[c] = held[c]
                    /\ answer'[c] = answer[c]
<1>1. ASSUME NEW d \in Calls, SubmitFeedback(d) \/ CancelFeedback(d) \/ ApproveFeedback(d),
             d # c
      PROVE  Still
    <2>1. CASE SubmitFeedback(d) \/ CancelFeedback(d)
        BY <1>1, <2>1 DEF SubmitFeedback, CancelFeedback, Begin
    <2>2. CASE ApproveFeedback(d)
        BY <1>1, <2>2 DEF ApproveFeedback
    <2> QED BY <1>1, <2>1, <2>2
<1>2. ASSUME NEW d \in Callers, CallerStep(d) \/ FailureStep(d), d # c PROVE Still
    BY <1>2, OneCaller, AnswersOwn DEF CallerMoves
<1>3. BootStep \/ RefuseOpening => Still
    BY DEF BootStep, RefuseOpening, ScanPlans, ScanLegacy, RecordError, Opened,
           RecoverPlan, ArchiveLegacy, BootStays
<1>4. (\E r \in Requests : SaveDraft(r) \/ ChangeAttachments(r))
      \/ (\E p \in Publications : DetachedRename(p)) \/ UNCHANGED vars => Still
    BY DEF SaveDraft, ChangeAttachments, Edit, DetachedRename, vars, calls
<1> QED BY <1>1, <1>2, <1>3, <1>4 DEF Next

\* A request that cannot be submitted any more stays so.
LEMMA ClosedKept ==
    ASSUME IInv, [Next]_vars, NEW r \in Requests, Closed(r)
    PROVE  Closed(r)'
<1>1. CASE Terminal(r)
    BY <1>1, EndKept DEF Closed, Terminal
<1>2. CASE plan[r] # None /\ plan[r].resolution = "cancelled"
    <2>1. /\ plan'[r] # None
          /\ Content(r, plan[r], Body(r))' = Content(r, plan[r], Body(r))
        BY <1>2, PlanKept DEF Kept, IInv
    <2>2. plan'[r].resolution = plan[r].resolution
        BY <2>1 DEF Content
    <2> QED BY <1>2, <2>1, <2>2 DEF Closed
<1> QED BY <1>1, <1>2 DEF Closed

\* A submit that neither answers nor adopts a plan found the request closed.
LEMMA SubmissionTurnsAway ==
    ASSUME NEW c, PlanSubmission(c), NEW r, r = op[c].request,
           \A x : ~End(c, x), \A h : ~Adopt(c, h)
    PROVE  Terminal(r) \/ (plan[r] # None /\ plan[r].resolution # "feedback_submitted")
BY SMTT(30) DEF PlanSubmission

\* A submission is sent back to read the request where it is closed.
LEMMA RereadPreserved == IInv /\ RereadInv /\ [Next]_vars => RereadInv'
<1> SUFFICES ASSUME IInv, RereadInv, [Next]_vars, NEW c \in Calls, pc'[c] = "reread",
                    NEW r, r = op'[c].request
             PROVE  Closed(r)'
    BY DEF RereadInv
<1> USE CallersAssumption DEF IInv, TypeInv, TypeOK, Callers
<1>1. ASSUME pc[c] = "reread", op'[c] = op[c] PROVE Closed(r)'
    <2>1. r \in Requests
        BY <1>1, CallerTyped DEF Running
    <2> QED BY <1>1, <2>1, ClosedKept DEF RereadInv
<1>2. CASE SubmitFeedback(c) \/ CancelFeedback(c) \/ ApproveFeedback(c)
    <2>1. CASE SubmitFeedback(c) \/ CancelFeedback(c)
        BY <2>1 DEF SubmitFeedback, CancelFeedback, Begin
    <2>2. CASE ApproveFeedback(c)
        BY <2>2 DEF ApproveFeedback
    <2> QED BY <1>2, <2>1, <2>2
<1>3. CASE CallerStep(c) \/ FailureStep(c)
    <2>1. r \in Requests /\ r = op[c].request
        BY <1>3, OneCaller, CallerTyped DEF CallerMoves
    <2>2. \A x : ~End(c, x)
        BY DEF End
    <2>3. \A step : Goto(c, step) => step = "reread"
        BY DEF Goto
    <2>4. \A h : ~Adopt(c, h)
        BY DEF Adopt
    <2>5. CASE Preflight(c)
        BY <2>1, <2>2, <2>3, <2>5, ClosedKept DEF Preflight, RefuseTerminal, Closed
    <2>6. CASE PlanSubmission(c)
        <3>1. Terminal(r) \/ (plan[r] # None /\ plan[r].resolution # "feedback_submitted")
            BY <2>1, <2>2, <2>4, <2>6, SubmissionTurnsAway
        <3>2. plan[r] # None => plan[r].resolution \in PlanResolutions
            BY <2>1 DEF PlanRows
        <3>3. Closed(r)
            BY <3>1, <3>2 DEF Closed, PlanResolutions
        <3> QED BY <2>1, <3>3, ClosedKept
    <2>7. ~PlanCancellation(c)
        BY <2>2, <2>4 DEF PlanCancellation
    <2>8. ~(Read(c) \/ Probe(c) \/ Unprobe(c) \/ Reread(c))
        BY <2>2, <2>3 DEF Read, Probe, Unprobe, Reread
    <2>9. ~(Lock(c) \/ Check(c) \/ Stage(c) \/ Write(c) \/ Rename(c) \/ SyncParent(c))
        BY <2>2, <2>3, SMTT(30)
        DEF Lock, Check, Stage, Write, Rename, SyncParent, Rescue, AcceptExisting
    <2>10. ~(Complete(c) \/ Cleanup(c) \/ NotifyTerminal(c))
        BY <2>2, <2>3 DEF Complete, Cleanup, NotifyTerminal
    <2>11. ~FailureStep(c)
        BY <2>2 DEF FailureStep, FailDatabase, FailProbe, FailPublish, DropCall
    <2> QED BY <1>3, <2>5, <2>6, <2>7, <2>8, <2>9, <2>10, <2>11 DEF CallerStep
<1>4. ~Crash
    BY DEF Crash
<1> QED BY <1>1, <1>2, <1>3, <1>4, CallMoves

\* A caller makes and removes its own probe file.
LEMMA ProbesPreserved == TypeInv /\ ProbesInv /\ [Next]_vars => ProbesInv'
<1> SUFFICES ASSUME TypeInv, ProbesInv, [Next]_vars, NEW c \in Calls, c \in probes'
             PROVE  pc'[c] \in {"unprobe", "done"}
    BY DEF ProbesInv
<1> USE CallersAssumption DEF TypeInv, TypeOK, Callers
<1>1. ASSUME NEW d \in Callers, CallerStep(d) \/ FailureStep(d)
      PROVE  /\ probes' \subseteq probes \cup {Publication(d)}
             /\ pc[d] = "unprobe" /\ pc'[d] \notin {"idle", "record", "done"} =>
                    Publication(d) \notin probes'
             /\ Publication(d) \in probes' \ probes =>
                    pc'[d] \in {"unprobe", "idle", "record", "done"}
    <2>1. CASE Probe(d)
        BY <2>1 DEF Probe, Goto
    <2>2. CASE Unprobe(d)
        BY <2>2 DEF Unprobe
    <2>3. CASE FailureStep(d)
        BY <2>3 DEF FailureStep, FailDatabase, FailProbe, FailPublish, DropCall, End, disk
    <2>4. CASE Read(d) \/ Preflight(d) \/ Reread(d) \/ Lock(d) \/ Check(d) \/ Stage(d)
               \/ Write(d) \/ Rename(d) \/ SyncParent(d) \/ Cleanup(d) \/ NotifyTerminal(d)
               \/ Complete(d)
        BY <2>4 DEF Read, Preflight, Reread, Lock, Check, Stage, Write, Rename, SyncParent,
                    Cleanup, NotifyTerminal, Complete, disk
    <2>5. CASE PlanSubmission(d) \/ PlanCancellation(d)
        BY <2>5, PlanStep DEF disk
    <2> QED BY <1>1, <2>1, <2>2, <2>3, <2>4, <2>5 DEF CallerStep
<1>2. CASE CallerStep(c) \/ FailureStep(c)
    <2>1. Publication(c) = c /\ c \in Callers /\ pc[c] \in Running
        BY <1>2, OneCaller DEF Publication, CallerMoves
    <2>2. pc[c] # "done" /\ pc'[c] \notin {"idle", "record"}
        BY <1>2, <2>1, OneCaller DEF CallerMoves, Running, Publishing
    <2> QED BY <1>1, <1>2, <2>1, <2>2 DEF ProbesInv
<1>3. ASSUME NEW d \in Callers, CallerStep(d) \/ FailureStep(d), d # c
      PROVE  pc'[c] \in {"unprobe", "done"}
    <2>1. pc'[c] = pc[c] /\ Publication(d) # c
        BY <1>3, OneCaller, CallerTyped DEF CallerMoves, Publication
    <2> QED BY <1>1, <1>3, <2>1 DEF ProbesInv
<1>4. ASSUME NEW d \in Calls, SubmitFeedback(d) \/ CancelFeedback(d) \/ ApproveFeedback(d)
      PROVE  pc'[c] \in {"unprobe", "done"}
    <2>1. probes' = probes /\ pc[d] = "idle"
        BY <1>4 DEF SubmitFeedback, CancelFeedback, ApproveFeedback, Begin, disk
    <2>2. d # c
        BY <2>1 DEF ProbesInv
    <2>3. pc'[c] = pc[c]
        BY <1>4, <2>2 DEF SubmitFeedback, CancelFeedback, ApproveFeedback, Begin
    <2> QED BY <2>1, <2>3 DEF ProbesInv
<1>5. CASE Crash
    BY <1>5 DEF Crash, ProbesInv
<1>6. CASE BootStep \/ RefuseOpening
           \/ (\E r \in Requests : SaveDraft(r) \/ ChangeAttachments(r))
           \/ (\E p \in Publications : DetachedRename(p)) \/ UNCHANGED vars
    <2>1. probes' = probes /\ pc'[c] = pc[c]
        BY <1>6 DEF BootStep, RefuseOpening, ScanPlans, ScanLegacy, RecordError, Opened,
                    RecoverPlan, ArchiveLegacy, BootStays, SaveDraft, ChangeAttachments,
                    Edit, DetachedRename, vars, calls, disk
    <2> QED BY <2>1 DEF ProbesInv
<1> QED BY <1>2, <1>3, <1>4, <1>5, <1>6 DEF Next

\* Nobody comes between the check and the rename of whoever holds the lock.
LEMMA StagingPreserved == IInv /\ StagingInv /\ [Next]_vars => StagingInv'
<1> SUFFICES ASSUME IInv, StagingInv, [Next]_vars, ~fault'
             PROVE  /\ detached' = {}
                    /\ \A d \in Callers : Staging(d, held[d].publication)'
    BY DEF StagingInv
<1> USE DEF IInv, TypeInv, TypeOK
<1>1. ASSUME ~fault, detached' = detached, UNCHANGED <<temp, package>>,
             \A d \in Callers : pc'[d] \in {"stage", "write", "rename"} =>
                 pc'[d] = pc[d] /\ held'[d] = held[d]
      PROVE  /\ detached' = {}
             /\ \A d \in Callers : Staging(d, held[d].publication)'
    BY <1>1 DEF StagingInv, Staging
<1>2. ASSUME NEW c \in Callers, CallerStep(c) \/ FailureStep(c)
      PROVE  /\ detached' = {}
             /\ \A d \in Callers : Staging(d, held[d].publication)'
    <2>1. ~FailureStep(c)
        BY DEF FailureStep, FailDatabase, FailProbe, FailPublish, DropCall
    <2>2. fault' = fault /\ detached' = detached
        BY <1>2, <2>1, PlanStep DEF CallerStep, Read, Preflight, Probe, Unprobe, Reread, Lock,
           Check, Stage, Write, Rename, SyncParent, Complete, Cleanup, NotifyTerminal, disk
    <2>3. ASSUME NEW d \in Callers \ {c} PROVE Staging(d, held[d].publication)'
        <3>1. pc'[d] = pc[d] /\ held'[d] = held[d]
            BY <1>2, OneCaller DEF CallerMoves
        <3>2. pc[d] \in {"stage", "write", "rename"} => pc[c] \notin Publishing
            BY DEF StepsInv, Publishing
        <3>3. pc[d] \in {"stage", "write", "rename"} => UNCHANGED <<temp, package>>
            BY <1>2, <3>2, PublisherStep
        <3> QED BY <2>2, <3>1, <3>3 DEF StagingInv, Staging
    <2>4. Staging(c, held[c].publication)'
        <3> SUFFICES ASSUME pc'[c] \in {"stage", "write", "rename"}
                     PROVE  Staging(c, held[c].publication)'
            BY DEF Staging
        <3>1. \A x : ~End(c, x)
            BY DEF End
        <3>2. \A step : Goto(c, step) => step = pc'[c] /\ held' = held
            BY DEF Goto
        <3>3. \A h : ~Adopt(c, h)
            BY DEF Adopt
        <3>4. CASE Check(c)
            BY <3>1, <3>2, <3>4 DEF Check, AcceptExisting, Staging
        <3>5. CASE Stage(c)
            <4>1. held[c].publication \in Publications
                BY <3>5, CallerTyped DEF Stage, Holding, Publishing
            <4> QED BY <2>2, <3>2, <3>5, <4>1, NoRecordAssumption
                    DEF Stage, Staging, StagingInv
        <3>6. CASE Write(c)
            <4>1. held[c].publication \in Publications /\ held[c].content \in Contents
                BY <3>6, CallerTyped DEF Write, Holding, Publishing
            <4> QED BY <2>2, <3>1, <3>2, <3>6, <4>1, NoRecordAssumption
                    DEF Write, Rescue, AcceptExisting, Staging, StagingInv
        <3>7. ~(Read(c) \/ Preflight(c) \/ Probe(c) \/ Unprobe(c) \/ Reread(c))
            BY <3>1, <3>2 DEF Read, Preflight, Probe, Unprobe, Reread, RefuseTerminal
        <3>8. ~(PlanSubmission(c) \/ PlanCancellation(c))
            BY <3>1, <3>2, <3>3, PlanStep DEF NewPlan
        <3>9. ~(Lock(c) \/ Rename(c) \/ SyncParent(c))
            BY <3>1, <3>2 DEF Lock, Rename, SyncParent, Rescue, AcceptExisting
        <3>10. ~(Complete(c) \/ Cleanup(c) \/ NotifyTerminal(c))
            BY <3>1, <3>2 DEF Complete, Cleanup, NotifyTerminal
        <3> QED BY <1>2, <2>1, <3>4, <3>5, <3>6, <3>7, <3>8, <3>9, <3>10 DEF CallerStep
    <2> QED BY <2>2, <2>3, <2>4 DEF StagingInv
<1>3. ASSUME NEW d \in Calls, SubmitFeedback(d) \/ CancelFeedback(d)
      PROVE  /\ ~fault /\ detached' = detached /\ UNCHANGED <<temp, package>>
             /\ \A e \in Callers : pc'[e] \in {"stage", "write", "rename"} =>
                    pc'[e] = pc[e] /\ held'[e] = held[e]
    BY <1>3 DEF SubmitFeedback, CancelFeedback, Begin, disk
<1>4. ASSUME NEW d \in Calls, ApproveFeedback(d)
      PROVE  /\ ~fault /\ detached' = detached /\ UNCHANGED <<temp, package>>
             /\ \A e \in Callers : pc'[e] \in {"stage", "write", "rename"} =>
                    pc'[e] = pc[e] /\ held'[e] = held[e]
    BY <1>4 DEF ApproveFeedback, disk
<1>5. CASE Crash
    BY <1>5 DEF Crash, Staging
<1>6. ~\E p \in Publications : DetachedRename(p)
    BY DEF DetachedRename, StagingInv
<1>7. BootStep => /\ ~fault /\ detached' = detached /\ UNCHANGED <<temp, package>>
                  /\ \A e \in Callers : pc'[e] \in {"stage", "write", "rename"} =>
                         pc'[e] = pc[e] /\ held'[e] = held[e]
    BY DEF BootStep, ScanPlans, ScanLegacy, RecordError, Opened, RecoverPlan, ArchiveLegacy,
           BootStays, disk
<1>11. ~RefuseOpening
    BY DEF RefuseOpening
<1>8. ASSUME NEW r \in Requests, NEW body, Edit(r, body)
      PROVE  ~fault /\ UNCHANGED <<detached, temp, package, pc, held>>
    BY <1>8 DEF Edit, calls, disk
<1>9. UNCHANGED vars => ~fault /\ UNCHANGED <<detached, temp, package, pc, held>>
    BY DEF vars, calls, disk
<1>10. ASSUME UNCHANGED <<detached, temp, package, pc, held>>, ~fault
       PROVE  /\ detached' = {}
              /\ \A d \in Callers : Staging(d, held[d].publication)'
    BY <1>1, <1>10
<1> QED BY <1>1, <1>2, <1>3, <1>4, <1>5, <1>6, <1>7, <1>8, <1>9, <1>10, <1>11
        DEF Next, SaveDraft, ChangeAttachments

\* What call c is told, if it is told x, is so.
Truth(c, x) ==
    LET asked == op[c] IN
    /\ x = "terminal" => Overtaken(asked)
    /\ x = "conflict" => Outdated(asked)
    /\ x = "empty" => /\ asked.kind = "submit" /\ Body(asked.request) = Blank
                      /\ plan[asked.request] # None =>
                             plan[asked.request].resolution = "cancelled"
    /\ x = "failed" => fault' \/ package[held[c].publication] = Partial

\* The answer of a step is the one it gives.
LEMMA StepAnswers ==
    ASSUME TypeInv, NEW c \in Calls
    PROVE  /\ c \in Callers /\ c # Boot
           /\ \A x : End(c, x) => answer'[c] = x
           /\ \A step : Goto(c, step) => answer'[c] = answer[c]
           /\ \A h : Adopt(c, h) => answer'[c] = answer[c]
BY CallersAssumption DEF TypeInv, TypeOK, Callers, End, Goto, Adopt

\* Reading, a call is refused where the request is ending otherwise.
LEMMA ReadersTell ==
    ASSUME AnswersInv, RefusalInv, NEW c \in Calls, answer[c] = "none",
           Read(c) \/ Preflight(c) \/ Probe(c) \/ Unprobe(c) \/ Reread(c)
    PROVE  Truth(c, answer'[c])
<1> DEFINE r == op[c].request
<1> USE DEF AnswersInv, IInv
<1>1. /\ c \in Callers /\ c # Boot /\ r \in Requests
      /\ op[c].kind \in {"submit", "cancel"} /\ (pc[c] = "reread" => op[c].kind = "submit")
    BY StepAnswers, CallerTyped
    DEF AskedInv, Asked, Read, Preflight, Probe, Unprobe, Reread, Running
<1>2. CASE Read(c)
    BY <1>1, <1>2, StepAnswers DEF Read, Truth, Overtaken
<1>3. CASE Preflight(c)
    BY <1>1, <1>3, StepAnswers DEF Preflight, RefuseTerminal, Truth, Overtaken
<1>4. CASE Probe(c) \/ Unprobe(c)
    <2>1. pc[c] = "probe" => c \notin probes
        BY DEF RefusalInv, ProbesInv
    <2> QED BY <1>1, <1>4, <2>1, StepAnswers DEF Probe, Unprobe, Publication, Truth
<1>5. CASE Reread(c)
    <2>1. Closed(r)
        BY <1>5 DEF Reread, RefusalInv, RereadInv
    <2> QED BY <1>1, <1>5, <2>1, StepAnswers DEF Reread, Closed, Terminal, Truth, Overtaken
<1> QED BY <1>2, <1>3, <1>4, <1>5

\* Planning, a call is refused for the plan or the draft that is there.
LEMMA PlannersTell ==
    ASSUME AnswersInv, RowsInv, NEW c \in Calls, answer[c] = "none",
           PlanSubmission(c) \/ PlanCancellation(c)
    PROVE  Truth(c, answer'[c])
<1> DEFINE r == op[c].request
<1> USE DEF AnswersInv, IInv
<1>1. /\ c \in Callers /\ c # Boot /\ r \in Requests /\ pc[c] = "plan"
      /\ row[r] \in Rows /\ Fits(r)
      /\ plan[r] # None => plan[r].resolution \in PlanResolutions /\ Frozen(r)
    BY StepAnswers, PlanStep DEF RowsInv, DraftFrozen, TypeInv, TypeOK, PlanRows
<1>2. CASE PlanSubmission(c)
    <2> USE <1>1, StepAnswers
    <2>1. op[c].kind = "submit"
        BY <1>2 DEF PlanSubmission
    <2>2. CASE Terminal(r)
        BY <1>2, <2>2 DEF PlanSubmission, RefuseTerminal, Truth
    <2>3. CASE ~Terminal(r) /\ Body(r) = Blank
        <3>1. plan[r] # None => plan[r].resolution = "cancelled"
            BY <2>3 DEF Frozen, Fits, PlanResolutions
        <3>2. answer'[c] = "empty"
            BY <1>2, <2>3 DEF PlanSubmission
        <3> QED BY <2>1, <2>3, <3>1, <3>2 DEF Truth
    <2>4. CASE ~Terminal(r) /\ Body(r) # Blank /\ plan[r] # None
        <3>1. /\ row[r].revision = plan[r].revision
              /\ plan[r].resolution = "feedback_submitted" => plan[r].digest = Body(r)
            BY <2>4, SMTT(30) DEF Frozen, TypeInv, TypeOK, PlanRows
        <3>2. \/ answer'[c] = "none"
              \/ /\ answer'[c] = "conflict"
                 /\ \/ plan[r].revision # op[c].revision
                    \/ plan[r].cooking # op[c].cooking
            BY <1>2, <2>4, <3>1, SMTT(30) DEF PlanSubmission, RefuseTerminal
        <3> QED BY <2>1, <2>4, <3>1, <3>2 DEF Truth, Outdated
    <2>5. CASE ~Terminal(r) /\ Body(r) # Blank /\ plan[r] = None
        <3>1. row[r].status = "in_progress"
            BY <2>5 DEF Terminal, Fits, Body, Rows, Statuses
        <3>2. draft[r].revision = row[r].revision
            BY <3>1 DEF Fits
        <3>3. \/ answer'[c] = "none"
              \/ answer'[c] = "conflict" /\ row[r].revision # op[c].revision
            BY <1>2, <2>5, <3>2, SMTT(30) DEF PlanSubmission
        <3> QED BY <2>1, <3>3 DEF Truth, Outdated
    <2> QED BY <2>2, <2>3, <2>4, <2>5
<1>3. CASE PlanCancellation(c)
    <2> USE <1>1, StepAnswers
    <2>1. op[c].kind = "cancel"
        BY <1>3 DEF PlanCancellation
    <2>2. CASE row[r].status = "completed"
        <3>1. answer'[c] = "terminal"
            BY <1>3, <2>2 DEF PlanCancellation
        <3> QED BY <2>1, <2>2, <3>1 DEF Truth, Overtaken
    <2>3. CASE row[r].status # "completed" /\ plan[r] # None
        <3>1. \/ answer'[c] = "none"
              \/ /\ answer'[c] = "terminal"
                 /\ ~(plan[r].resolution = "cancelled" /\ plan[r].reason = CancelReason(c))
            BY <1>3, <2>3, ZenonT(30) DEF PlanCancellation
        <3>2. row[r].status = "cancelled" =>
                  plan[r].resolution = "cancelled" /\ plan[r].reason = CancelReason(c)
            BY <2>3 DEF DatabaseInv, CancelReason
        <3>3. row[r].status # "cancelled" => CancelReason(c) = op[c].reason
            BY DEF CancelReason
        <3>4. answer'[c] = "terminal" => \/ plan[r].resolution = "feedback_submitted"
                                         \/ plan[r].reason # op[c].reason
            BY <2>3, <3>1, <3>2, <3>3 DEF PlanResolutions
        <3> QED BY <2>1, <2>3, <3>1, <3>4 DEF Truth, Overtaken
    <2>4. CASE row[r].status # "completed" /\ plan[r] = None
        <3> DEFINE fresh == row[r].revision = 0
                   source == IF fresh THEN 1 ELSE row[r].revision
                   drafted == IF fresh \/ (row[r].status = "cancelled" /\ draft[r] = None)
                              THEN [body |-> Blank, revision |-> source] ELSE draft[r]
        <3>1. ~(fresh /\ row[r].status # "waiting")
            BY DEF Fits
        <3>2. drafted # None /\ drafted.revision = source
            <4>1. [body |-> Blank, revision |-> source] \in Drafts
                BY TextsAssumption DEF Drafts, Rows
            <4>2. CASE fresh \/ row[r].status = "cancelled"
                BY <2>4, <4>1, <4>2, NoRecordAssumption DEF Fits
            <4>3. CASE ~fresh /\ row[r].status # "cancelled"
                BY <2>4, <4>3 DEF Fits, Rows, Statuses
            <4> QED BY <4>2, <4>3
        <3>3. \E h : Adopt(c, h)
            <4> HIDE DEF drafted, source
            <4> QED BY <1>3, <2>4, <3>1, <3>2, ZenonT(60) DEF PlanCancellation, drafted, source
        <3> QED BY <3>3 DEF Truth
    <2> QED BY <2>2, <2>3, <2>4
<1> QED BY <1>2, <1>3

\* Publishing, a call fails after an error or on a half-written directory.
LEMMA PublishersTell ==
    ASSUME AnswersInv, OwnersInv, RefusalInv, NEW c \in Calls, answer[c] = "none",
           \/ Lock(c) \/ Check(c) \/ Stage(c) \/ Write(c) \/ Rename(c) \/ SyncParent(c)
           \/ Cleanup(c) \/ NotifyTerminal(c)
    PROVE  Truth(c, answer'[c])
<1> DEFINE p == held[c].publication
           r == held[c].content.request
<1> USE DEF AnswersInv, IInv, TypeInv
<1>1. c \in Callers /\ c # Boot
    BY StepAnswers
<1>2. CASE Lock(c) \/ Stage(c) \/ SyncParent(c) \/ Cleanup(c) \/ NotifyTerminal(c)
    BY <1>1, <1>2, StepAnswers DEF Lock, Stage, SyncParent, Cleanup, NotifyTerminal, Truth
<1>3. ASSUME pc[c] \in Publishing
      PROVE  /\ held[c] # None /\ package[p] \in {None, Partial, held[c].content}
             /\ r \in Requests
    BY <1>1, <1>3, HeldDirectories, CallerTyped DEF CallersInv, Holding
<1>4. ASSUME pc[c] \in Publishing, AcceptExisting(c), package[p] # None
      PROVE  Truth(c, answer'[c])
    BY <1>1, <1>3, <1>4, StepAnswers DEF AcceptExisting, Truth
<1>5. CASE Check(c)
    BY <1>1, <1>4, <1>5, StepAnswers DEF Check, Publishing, Truth
<1>6. ASSUME Rescue(c), pc[c] \in Publishing, fault' \/ package[p] # None
      PROVE  Truth(c, answer'[c])
    BY <1>1, <1>4, <1>6, StepAnswers DEF Rescue, Truth
<1>7. ASSUME ~fault, pc[c] \in {"write", "rename"} PROVE temp[p] # None /\ package[p] = None
    BY <1>1, <1>7 DEF RefusalInv, StagingInv, Staging
<1>8. CASE Write(c)
    <2>1. pc[c] \in Publishing /\ fault' = fault
        BY <1>8 DEF Write, Publishing
    <2>2. package[p] = None => draftFiles[r]
        <3>1. plan[r] # None /\ p = plan[r].publication
                 /\ held[c].content = Content(r, plan[r], Body(r))
            BY <1>1, <1>3, <2>1, HeldFacts
        <3>2. held[c].content # None
            BY <1>1, <2>1, CallerTyped, NoRecordAssumption DEF Holding
        <3> QED BY <1>3, <2>1, <3>1, <3>2 DEF DraftFilesOutlivePlan, DeliveredIsPlanned
    <2>3. CASE temp[p] # None /\ draftFiles[r]
        BY <1>1, <1>8, <2>3, StepAnswers DEF Write, Truth
    <2>4. CASE ~(temp[p] # None /\ draftFiles[r])
        <3>1. Rescue(c)
            BY <1>8, <2>4 DEF Write
        <3>2. fault' \/ package[p] # None
            BY <1>7, <1>8, <2>1, <2>2, <2>4 DEF Write, TypeOK
        <3> QED BY <1>6, <2>1, <3>1, <3>2
    <2> QED BY <2>3, <2>4
<1>9. CASE Rename(c)
    <2>1. pc[c] \in Publishing /\ fault' = fault
        BY <1>9 DEF Rename, Publishing
    <2>2. CASE temp[p] # None /\ package[p] = None
        BY <1>1, <1>9, <2>2, StepAnswers DEF Rename, Truth
    <2>3. CASE ~(temp[p] # None /\ package[p] = None)
        <3>1. Rescue(c)
            BY <1>9, <2>3 DEF Rename
        <3>2. fault' \/ package[p] # None
            BY <1>7, <1>9, <2>1, <2>3 DEF Rename, TypeOK
        <3> QED BY <1>6, <2>1, <3>1, <3>2
    <2> QED BY <2>2, <2>3
<1> QED BY <1>2, <1>5, <1>8, <1>9

\* Completing, a call is refused only where the request ended otherwise: what
\* was planned stays, so nothing it finds is in conflict with its plan.
LEMMA CompletersTell ==
    ASSUME AnswersInv, RowsInv, NEW c \in Calls, answer[c] = "none", Complete(c)
    PROVE  Truth(c, answer'[c])
<1> DEFINE r == held[c].content.request
           content == held[c].content
           status == row[r].status
<1> USE DEF AnswersInv, IInv
<1>1. /\ c \in Callers /\ c # Boot /\ r \in Requests /\ held[c] # None
      /\ row[r] \in Rows /\ Fits(r) /\ plan[r] \in PlanRows \cup {None}
      /\ content.resolution \in PlanResolutions
    <2>1. c \in Callers /\ c # Boot /\ pc[c] = "complete"
        BY StepAnswers DEF Complete
    <2>2. content \in Contents /\ r \in Requests /\ held[c] # None
        BY <2>1, CallerTyped DEF TypeInv, CallersInv, Holding
    <2>3. content.resolution \in PlanResolutions
        BY <2>2 DEF Contents
    <2> QED BY <2>1, <2>2, <2>3 DEF RowsInv, TypeInv, TypeOK
<1>2. /\ r = op[c].request /\ op[c].kind \in {"submit", "cancel"}
      /\ content.resolution = "cancelled" <=> op[c].kind = "cancel"
    BY DEF Complete, AskedInv, Asked, Running, Holding
<1>3. SamePlan(c) /\ plan[r] # None
    <2> PICK q : q = r
        OBVIOUS
    <2>1. PICK h : h = Hold(q, plan[q], Body(q))
        OBVIOUS
    <2>2. plan[q] # None /\ held[c] = h
        BY <1>1, <2>1 DEF HeldIsStored
    <2>3. /\ h.publication = plan[q].publication
          /\ h.digest = plan[q].digest
          /\ h.content.revision = plan[q].revision
          /\ h.content.resolution = plan[q].resolution
          /\ h.content.reason = plan[q].reason
        BY <2>1 DEF Hold, Content
    <2> QED BY <2>2, <2>3 DEF SamePlan
<1>4. status # "completed" => Endable(c)
    <2>1. Frozen(r)
        BY <1>1, <1>3 DEF DraftFrozen
    <2>2. content.revision = plan[r].revision
        BY <1>3 DEF SamePlan
    <2>3. status \in Statuses /\ status # "waiting"
        BY <1>1, <2>1 DEF Fits, Frozen, Rows
    <2> QED BY <1>1, <1>3, <2>1, <2>2, <2>3
            DEF Endable, Frozen, Terminal, Statuses, PlanRows
<1>5. \/ answer'[c] \in {"none", "ok"}
      \/ /\ answer'[c] = "terminal"
         /\ ~(status = EndStatus(content.resolution) /\ result[r] # None)
         /\ \/ status = "completed"
            \/ status = "cancelled" /\ content.resolution # "cancelled"
    BY <1>1, <1>3, <1>4, StepAnswers, SMTT(30) DEF Complete
<1>6. ASSUME answer'[c] = "terminal" PROVE Overtaken(op[c])
    <2>1. CASE op[c].kind = "cancel"
        BY <1>2, <1>5, <1>6, <2>1 DEF Overtaken
    <2>2. CASE op[c].kind = "submit" /\ status = "cancelled"
        BY <1>2, <2>2 DEF Overtaken
    <2>3. CASE op[c].kind = "submit" /\ status = "completed"
        <3>1. result[r] = None
            BY <1>2, <1>5, <1>6, <2>3 DEF EndStatus
        <3>2. row[r].resolution = "approved"
            BY <1>1, <2>3, <3>1 DEF CompletedInv, DatabaseInv
        <3> QED BY <1>2, <2>3, <3>2 DEF Overtaken
    <2> QED BY <1>2, <1>5, <1>6, <2>1, <2>2, <2>3
<1> QED BY <1>5, <1>6 DEF Truth

\* An error or a drop says so.
LEMMA FailuresTell ==
    ASSUME TypeInv, NEW c \in Calls, answer[c] = "none", FailureStep(c)
    PROVE  Truth(c, answer'[c])
<1>1. fault' = TRUE /\ \E x \in {"failed", "dropped"} : End(c, x)
    BY DEF FailureStep, FailDatabase, FailProbe, FailPublish, DropCall
<1> QED BY <1>1, StepAnswers DEF Truth

\* A refusal is given by a step of the call, or to an approval as it is made.
LEMMA RefusalsTell ==
    ASSUME AnswersInv, RowsInv, OwnersInv, RefusalInv, [Next]_vars,
           NEW c \in Calls, answer[c] = "none",
           answer'[c] \in {"terminal", "conflict", "empty", "failed"}
    PROVE  \/ Truth(c, answer'[c]) /\ op'[c] = op[c]
           \/ /\ answer'[c] = "terminal" /\ op'[c].kind = "approve"
              /\ row[op'[c].request].resolution # "approved"
<1> USE DEF AnswersInv, IInv
<1>1. CASE SubmitFeedback(c) \/ CancelFeedback(c)
    BY <1>1 DEF SubmitFeedback, CancelFeedback, Begin
<1>2. CASE ApproveFeedback(c)
    <2> PICK r \in Requests : ApproveFeedback(c)!(r)
        BY <1>2 DEF ApproveFeedback
    <2>1. op'[c].kind = "approve" /\ op'[c].request = r
        BY StepAnswers DEF TypeInv, TypeOK
    <2>2. row[r].resolution # "approved" /\ answer'[c] = "terminal"
        BY StepAnswers DEF TypeInv, TypeOK
    <2> QED BY <2>1, <2>2
<1>3. CASE CallerStep(c) \/ FailureStep(c)
    <2>1. op' = op
        BY <1>3, StepAnswers, OneCaller DEF CallerMoves
    <2> QED BY <1>3, <2>1, ReadersTell, PlannersTell, PublishersTell, CompletersTell,
               FailuresTell DEF CallerStep
<1>4. CASE Crash
    BY <1>4, StepAnswers DEF Crash
<1> QED BY <1>1, <1>2, <1>3, <1>4, CallMoves

\* What the refusals rest on holds in every state the program reaches.
THEOREM RefusalInductive == Spec => [](AnswersInv /\ RefusalInv)
<1>1. Init => CompletedInv /\ AskedInv /\ RefusalInv
    <2> SUFFICES ASSUME Init PROVE CompletedInv /\ AskedInv /\ RefusalInv
        OBVIOUS
    <2>1. \A r \in Requests : row[r].status # "completed"
        BY DEF Init
    <2>2. (\A c \in Callers : pc[c] = "idle") /\ detached = {} /\ probes = {}
        BY DEF Init
    <2>3. CompletedInv /\ AskedInv
        BY <2>1, <2>2
        DEF CompletedInv, AskedInv, Asked, Running, Holding, Publishing, Callers
    <2>4. RefusalInv
        BY <2>2 DEF RefusalInv, RereadInv, ProbesInv, StagingInv, Staging, Callers
    <2> QED BY <2>3, <2>4
<1>2. AnswersInv /\ RefusalInv /\ [Next]_vars => CompletedInv' /\ AskedInv' /\ RefusalInv'
    BY CompletedPreserved, AskedPreserved, RereadPreserved, ProbesPreserved, StagingPreserved
    DEF AnswersInv, RefusalInv, IInv
<1> QED BY <1>1, <1>2, Inductive, PTL DEF Spec, AnswersInv

\* A refusal tells the truth: whatever the other calls do meanwhile, a call is
\* told that the request ended, that its submission is outdated or that there
\* is nothing to submit only where that is so, and a cancel never conflicts.
THEOREM RefusalsAreTrueCorrect == Spec => RefusalsAreTrue
<1> DEFINE Says(c) ==
       LET asked == op'[c] IN
       CASE answer'[c] = "terminal" -> Overtaken(asked)
         [] answer'[c] = "conflict" -> Outdated(asked)
         [] answer'[c] = "empty" ->
                /\ asked.kind = "submit" /\ Body(asked.request) = Blank
                /\ plan[asked.request] # None =>
                       plan[asked.request].resolution = "cancelled"
         [] OTHER -> TRUE
<1>1. ASSUME AnswersInv, OpeningInv, RefusalInv, [Next]_vars, NEW c \in Calls, answer[c] = "none"
      PROVE  Says(c)
    <2>1. CASE answer'[c] \in {"terminal", "conflict", "empty"}
        <3>1. CASE Truth(c, answer'[c]) /\ op'[c] = op[c]
            BY <2>1, <3>1 DEF Truth
        <3>2. CASE /\ answer'[c] = "terminal" /\ op'[c].kind = "approve"
                   /\ row[op'[c].request].resolution # "approved"
            BY <3>2 DEF Overtaken
        <3> QED BY <1>1, <2>1, <3>1, <3>2, RefusalsTell DEF OpeningInv
    <2>2. CASE answer'[c] \notin {"terminal", "conflict", "empty"}
        BY <2>2
    <2> QED BY <2>1, <2>2
<1>2. AnswersInv /\ OpeningInv /\ RefusalInv /\ [Next]_vars =>
          [\A c \in Calls : answer[c] = "none" => Says(c)]_vars
    BY <1>1
<1> QED BY <1>2, OpeningInductive, RefusalInductive, PTL DEF Spec, RefusalsAreTrue

\* A call fails on an I/O error or a drop since the start, or on a package that
\* was published half-written: never on what other calls or a crash left.
THEOREM FailuresAreRealCorrect == Spec => FailuresAreReal
<1>1. AnswersInv /\ OpeningInv /\ RefusalInv /\ [Next]_vars =>
          [\A c \in Calls : answer[c] = "none" /\ answer'[c] = "failed" =>
               fault' \/ package[held[c].publication] = Partial]_vars
    BY RefusalsTell DEF OpeningInv, Truth
<1> QED BY <1>1, OpeningInductive, RefusalInductive, PTL DEF Spec, FailuresAreReal

-----------------------------------------------------------------------------
(* The lock, and the promises of the life cycle.                           *)

\* Only who publishes keeps the lock after its step.
LEMMA LockStep ==
    ASSUME IInv, NEW c \in Callers, CallerStep(c) \/ FailureStep(c)
    PROVE  \/ publishLock' = None
           \/ publishLock' = c /\ pc'[c] \in Publishing
           \/ publishLock' = publishLock /\ pc[c] \notin Publishing
<1> USE DEF IInv, TypeInv, TypeOK, Publishing
<1>1. pc[c] \in Publishing => publishLock = c
    BY DEF StepsInv
<1>2. CASE Read(c) \/ Preflight(c) \/ Probe(c) \/ Unprobe(c) \/ Reread(c)
           \/ Complete(c) \/ Cleanup(c) \/ NotifyTerminal(c)
    BY <1>2 DEF Read, Preflight, Probe, Unprobe, Reread, Complete, Cleanup, NotifyTerminal
<1>3. CASE PlanSubmission(c) \/ PlanCancellation(c)
    BY <1>3, PlanStep
<1>4. CASE Lock(c) \/ Stage(c) \/ SyncParent(c)
    BY <1>1, <1>4 DEF Lock, Stage, SyncParent, Goto
<1>5. CASE Check(c) \/ Write(c) \/ Rename(c)
    BY <1>1, <1>5 DEF Check, Write, Rename, Rescue, AcceptExisting, Goto
<1>6. CASE FailureStep(c)
    BY <1>1, <1>6 DEF FailureStep, FailDatabase, FailProbe, FailPublish, DropCall, Unlock
<1> QED BY <1>2, <1>3, <1>4, <1>5, <1>6 DEF CallerStep

\* The lock stays with who publishes, through every step.
LEMMA LockPreserved == IInv /\ LockIsReleased /\ [Next]_vars => LockIsReleased'
<1> SUFFICES ASSUME IInv, LockIsReleased, [Next]_vars, publishLock' # None
             PROVE  pc'[publishLock'] \in Publishing
    BY DEF LockIsReleased
<1> USE DEF IInv, TypeInv, TypeOK
<1>1. ASSUME publishLock' = publishLock, \A d \in Callers : pc[d] \in Publishing => pc'[d] = pc[d]
      PROVE  pc'[publishLock'] \in Publishing
    BY <1>1 DEF LockIsReleased
<1>2. ASSUME NEW c \in Callers, CallerStep(c) \/ FailureStep(c)
      PROVE  pc'[publishLock'] \in Publishing
    <2>1. CASE publishLock' = publishLock /\ pc[c] \notin Publishing
        <3>1. \A d \in Callers : pc[d] \in Publishing => pc'[d] = pc[d]
            BY <1>2, <2>1, OneCaller DEF CallerMoves
        <3> QED BY <1>1, <2>1, <3>1
    <2> QED BY <1>2, <2>1, LockStep
<1>3. ASSUME NEW c \in Calls, SubmitFeedback(c) \/ CancelFeedback(c)
      PROVE  /\ publishLock' = publishLock
             /\ \A d \in Callers : pc[d] \in Publishing => pc'[d] = pc[d]
    BY <1>3 DEF SubmitFeedback, CancelFeedback, Begin, Publishing
<1>4. ASSUME NEW c \in Calls, ApproveFeedback(c)
      PROVE  /\ publishLock' = publishLock
             /\ \A d \in Callers : pc[d] \in Publishing => pc'[d] = pc[d]
    BY <1>4 DEF ApproveFeedback, Publishing
<1>5. BootStep \/ RefuseOpening
          => /\ publishLock' = publishLock
             /\ \A d \in Callers : pc[d] \in Publishing => pc'[d] = pc[d]
    BY DEF BootStep, RefuseOpening, ScanPlans, ScanLegacy, RecordError, Opened,
           RecoverPlan, ArchiveLegacy, BootStays, Publishing, StartInv
<1>6. ~Crash
    BY DEF Crash
<1>7. ASSUME NEW r \in Requests, NEW body, Edit(r, body) PROVE UNCHANGED <<publishLock, pc>>
    BY <1>7 DEF Edit, calls
<1>8. (\E p \in Publications : DetachedRename(p)) \/ UNCHANGED vars
          => UNCHANGED <<publishLock, pc>>
    BY DEF DetachedRename, vars, calls
<1> QED BY <1>1, <1>2, <1>3, <1>4, <1>5, <1>6, <1>7, <1>8
        DEF Next, SaveDraft, ChangeAttachments

\* Nobody keeps publish_lock who is not publishing: no answer, error, drop or
\* crash leaves the others waiting for it.
THEOREM LockIsReleasedCorrect == Spec => []LockIsReleased
<1>1. Init => LockIsReleased
    BY DEF Init, LockIsReleased
<1> QED BY <1>1, LockPreserved, Inductive, PTL DEF Spec

\* A result that was recorded is recorded once.
LEMMA ResultKept ==
    ASSUME IInv, [Next]_vars, NEW r \in Requests, result[r] # None
    PROVE  result'[r] = result[r]
<1> SUFFICES ASSUME result'[r] # result[r] PROVE FALSE
    OBVIOUS
<1> PICK c \in Callers : /\ pc[c] = "complete" /\ r = held[c].content.request
                         /\ result'[r] = held[c].publication
    BY ResultStep DEF IInv
<1>1. held[c] # None
    BY DEF IInv, TypeInv, CallersInv, Holding
<1>2. held[c].publication = plan[r].publication
    BY <1>1, HeldFacts DEF IInv
<1>3. plan[r].publication = result[r]
    BY DEF IInv, DatabaseInv
<1> QED BY <1>2, <1>3

\* A request ends once and its package is the same for ever, whatever calls,
\* recoveries and crashes come after.
THEOREM EndsOnceCorrect == Spec => EndsOnce
<1>1. ASSUME IInv, [Next]_vars, NEW r \in Requests
      PROVE  /\ Terminal(r) => /\ row'[r].status = row[r].status
                               /\ row'[r].resolution = row[r].resolution
             /\ Delivered(r) # None => Delivered(r)' = Delivered(r)
    <2>1. Delivered(r) # None => result[r] # None
        BY DEF Delivered
    <2> QED BY <1>1, <2>1, EndKept, ResultKept, DeliveredKept
<1>2. ASSUME NEW r \in Requests, IInv,
             ~(row[r].status \in {"waiting", "in_progress"})
      PROVE  Terminal(r)
    BY <1>2 DEF Terminal, IInv, TypeInv, TypeOK, Rows, Statuses
<1>3. IInv /\ [Next]_vars =>
          [\A r \in Requests : Lifecycle!KeepsItsEnd(r)]_Lifecycle!vars
    BY <1>1, <1>2 DEF Lifecycle!KeepsItsEnd, Lifecycle!Open
<1> QED BY <1>3, Inductive, PTL DEF Spec, EndsOnce, Lifecycle!EndsOnce

\* The package on disk tells the outcome in the row, whichever call recorded it.
THEOREM PackageTellsOutcomeCorrect == Spec => []PackageTellsOutcome
<1>1. ASSUME AnswersInv, NEW r \in Requests
      PROVE  /\ row[r].resolution = "feedback_submitted" <=>
                    Delivered(r) # None /\ Delivered(r).resolution = "feedback_submitted"
             /\ row[r].resolution = "cancelled" => Delivered(r) # None
             /\ Delivered(r) # None /\ Delivered(r).resolution = "cancelled" =>
                    row[r].status = "cancelled" /\ Delivered(r).text = Delivered(r).reason
    <2> USE <1>1 DEF AnswersInv, IInv
    <2>1. Delivered(r) # None => result[r] # None
        BY DEF Delivered
    <2>2. ASSUME result[r] # None
          PROVE  /\ Delivered(r) # None
                 /\ Delivered(r).resolution = plan[r].resolution
                 /\ plan[r].resolution = "cancelled" => Delivered(r).text = Delivered(r).reason
        <3>1. PICK text \in Texts \cup Reasons, uncooked \in Texts :
                  /\ Delivered(r) = [request |-> r, text |-> text, uncooked |-> uncooked,
                                     resolution |-> plan[r].resolution,
                                     reason |-> plan[r].reason]
                  /\ IF plan[r].resolution = "cancelled" THEN text = plan[r].reason
                     ELSE text \in Texts
            BY <2>2, DeliveredFields DEF DeliveredSays
        <3>2. plan[r] \in PlanRows
            BY <2>2 DEF DatabaseInv, TypeInv, TypeOK
        <3>3. /\ plan[r].resolution \in {"feedback_submitted", "cancelled"}
              /\ plan[r].reason \in Reasons \cup {None}
            BY <3>2 DEF PlanRows, PlanResolutions
        <3>4. Delivered(r) \in Lifecycle!Packages
            BY <3>1, <3>3 DEF Lifecycle!Packages, Lifecycle!Resolutions
        <3> QED BY <3>1, <3>4, NoPackageAssumption
    <2>3. /\ result[r] # None => Terminal(r)
          /\ row[r].resolution # None => Terminal(r)
          /\ row[r].status = "completed" =>
                row[r].resolution \in {"feedback_submitted", "approved"}
          /\ row[r].resolution = "approved" => result[r] = None
          /\ row[r].resolution = "feedback_submitted" =>
                result[r] # None /\ plan[r].resolution = "feedback_submitted"
          /\ row[r].status = "cancelled" /\ result[r] # None => plan[r].resolution = "cancelled"
          /\ row[r].status = "cancelled" /\ row[r].resolution # None => result[r] # None
        BY DEF DatabaseInv, CompletedInv
    <2>4. "cancelled" # None
        BY NoRecordAssumption DEF Resolutions
    <2> QED BY <2>1, <2>2, <2>3, <2>4 DEF Terminal
<1>2. AnswersInv => PackageTellsOutcome
    BY <1>1 DEF PackageTellsOutcome, Lifecycle!PackageTellsOutcome
<1> QED BY <1>2, RefusalInductive, PTL
=============================================================================
