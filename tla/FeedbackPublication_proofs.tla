--------------------- MODULE FeedbackPublication_proofs ---------------------
(***************************************************************************)
(* For any number of requests and calls: one plan, one package and one     *)
(* outcome per request, through interleavings, errors, drops and crashes.  *)
(***************************************************************************)
EXTENDS FeedbackPublication, TLAPS

\* The steps at which a caller holds a plan.
Holding == {"lock", "complete", "cleanup"} \cup Publishing

\* A reason is there wherever a cancellation is.
ReasonsInv ==
    /\ \A r \in Requests : row[r].status = "cancelled" => row[r].reason \in Reasons
    /\ \A r \in Requests : plan[r] # None /\ plan[r].resolution = "cancelled" =>
          plan[r].reason \in Reasons
    /\ \A c \in Callers : op[c] # None /\ op[c].kind = "cancel" => op[c].reason \in Reasons

\* A running caller knows what it was asked, and what it holds once it planned.
CallersInv ==
    /\ \A c \in Callers : pc[c] \in Running => op[c] # None
    /\ \A c \in Callers : pc[c] \in Holding => held[c] # None

\* No call runs while the store opens, and the opening has nothing left to do
\* afterwards; what it has to replay or archive stays as it was scanned.
StartInv ==
    /\ phase # "up" => \A c \in Calls : pc[c] \in {"idle", "done"}
    /\ phase \in {"scan", "up", "refused"} => pc[Boot] = "idle"
    /\ pc[Boot] # "done"
    /\ \A c \in Calls : pc[c] # "record"
    /\ phase = "recover" => \A r \in todo : plan[r] # None
    /\ phase = "archive" => \A r \in todo : row[r].status = "cancelled"

TypeInv == TypeOK /\ ReasonsInv /\ CallersInv /\ StartInv

\* The outcome in the row, the plan and the result agree.
DatabaseInv == \A r \in Requests :
    /\ row[r].resolution # None => Terminal(r)
    /\ ~Terminal(r) => result[r] = None
    /\ result[r] # None => /\ plan[r] # None
                           /\ plan[r].state = "published"
                           /\ plan[r].publication = result[r]
    /\ row[r].status = "cancelled" =>
          /\ plan[r] = None => row[r].resolution = None
          /\ plan[r] # None => /\ plan[r].resolution = "cancelled"
                               /\ plan[r].reason = row[r].reason
          /\ row[r].resolution # None => result[r] # None
    /\ row[r].resolution = "feedback_submitted" =>
          /\ result[r] # None /\ row[r].status = "completed"
          /\ plan[r].resolution = "feedback_submitted"
    /\ row[r].resolution = "approved" => result[r] = None /\ row[r].status = "completed"
    /\ plan[r] # None /\ plan[r].resolution = "feedback_submitted" => plan[r].reason = None

\* A directory that holds a whole package holds that of a plan.
Stored(p, found) == found \notin {None, Partial} =>
    LET r == found.request IN
    /\ plan[r] # None
    /\ plan[r].publication = p
    /\ found = Content(r, plan[r], Body(r))

DiskInv == \A p \in Publications : Stored(p, temp[p]) /\ Stored(p, package[p])

\* What a caller may rely on at each of its steps.
StepsInv == \A c \in Callers :
    LET p == held[c].publication
        content == held[c].content
    IN
    /\ pc[c] \in Publishing => publishLock = c
    /\ pc[c] = "rename" => temp[p] \in {None, content}
    /\ pc[c] = "sync" => package[p] = content
    /\ pc[c] = "complete" => package[p] = content /\ p \in durable
    /\ pc[c] = "cleanup" => result[content.request] # None

IInv == /\ TypeInv
        /\ DraftFrozen /\ DatabaseInv /\ HeldIsStored
        /\ DiskInv /\ StepsInv /\ DeliveredIsPlanned /\ DraftFilesOutlivePlan

-----------------------------------------------------------------------------
\* The package of a well-typed plan is well-typed.
LEMMA ContentTyped ==
    ASSUME NEW r \in Requests, NEW planned \in PlanRows, NEW body \in Texts,
           planned.resolution = "cancelled" => planned.reason \in Reasons
    PROVE  /\ Content(r, planned, body) \in Contents
           /\ Hold(r, planned, body) \in HeldPlans
<1> DEFINE cooking == planned.cooking
<1>1. cooking # None => cooking.text \in Texts /\ cooking.uncooked \in Texts \cup {None}
    BY CookingsAssumption DEF PlanRows
<1>2. Content(r, planned, body) \in Contents
    BY <1>1 DEF Content, Contents, PlanRows
<1>3. QED BY <1>2 DEF Hold, HeldPlans, PlanRows

\* What a held plan is about.
LEMMA HoldFields ==
    ASSUME NEW r, NEW planned, NEW body
    PROVE  /\ Hold(r, planned, body).publication = planned.publication
           /\ Hold(r, planned, body).content = Content(r, planned, body)
           /\ Content(r, planned, body).request = r
           /\ Content(r, planned, body).resolution = planned.resolution
           /\ Content(r, planned, body).reason = planned.reason
BY DEF Hold, Content

\* The draft of a request has a body.
LEMMA BodyTyped == ASSUME TypeOK, NEW r \in Requests PROVE Body(r) \in Texts
BY TextsAssumption, SMTT(30) DEF TypeOK, Body, Drafts

\* Whoever holds a plan holds the stored plan of the request it is about.
LEMMA HeldFacts ==
    ASSUME HeldIsStored, NEW c \in Callers, held[c] # None,
           NEW r, r = held[c].content.request
    PROVE  /\ plan[r] # None
           /\ held[c].publication = plan[r].publication
           /\ held[c].content = Content(r, plan[r], Body(r))
<1>1. PICK h : h = Hold(r, plan[r], Body(r))
    OBVIOUS
<1>2. plan[r] # None /\ held[c] = h
    BY <1>1 DEF HeldIsStored
<1>3. h.publication = plan[r].publication /\ h.content = Content(r, plan[r], Body(r))
    BY <1>1, HoldFields
<1> QED BY <1>2, <1>3

\* The calls' part of TypeOK.
CallsOK ==
    /\ pc \in [Callers -> {"idle", "record", "done"} \cup Running]
    /\ op \in [Callers -> Ops \cup {None}]
    /\ held \in [Callers -> HeldPlans \cup {None}]
    /\ answer \in [Callers -> Answers]

\* Moving on, answering and adopting a plan keep the calls well-typed.
LEMMA CallsTyped ==
    ASSUME CallsOK, NEW c \in Callers
    PROVE  /\ \A step \in Running : Goto(c, step) => CallsOK'
           /\ \A x \in Answers : End(c, x) => CallsOK'
           /\ \A h \in HeldPlans : Adopt(c, h) => CallsOK'
<1>1. ASSUME NEW step \in Running, Goto(c, step) PROVE CallsOK'
    BY <1>1 DEF CallsOK, Goto
<1>2. ASSUME NEW x \in Answers, End(c, x) PROVE CallsOK'
    BY <1>2 DEF CallsOK, End
<1>3. ASSUME NEW h \in HeldPlans, Adopt(c, h) PROVE CallsOK'
    BY <1>3 DEF CallsOK, Adopt, Running
<1> QED BY <1>1, <1>2, <1>3

\* The person's edits are well-typed.
LEMMA EditTyped ==
    TypeInv /\ (\E r \in Requests : SaveDraft(r) \/ ChangeAttachments(r)) => TypeOK'
<1> SUFFICES ASSUME TypeInv, NEW r \in Requests, NEW body \in Texts, Edit(r, body)
             PROVE  TypeOK'
    BY BodyTyped DEF SaveDraft, ChangeAttachments, TypeInv
<1>1. row' \in [Requests -> Rows] /\ draft' \in [Requests -> Drafts \cup {None}]
    BY DEF Edit, TypeInv, TypeOK, Rows, Drafts, Statuses
<1> QED BY <1>1 DEF Edit, TypeInv, TypeOK, disk, calls, start

\* What calls are asked is well-typed.
LEMMA AskedAreOps ==
    /\ \A request \in Submissions : request \in Ops /\ request.kind = "submit"
    /\ \A request \in Cancellations :
          request \in Ops /\ request.kind = "cancel" /\ request.reason \in Reasons
    BY BoundsAssumption DEF Submissions, Cancellations, Ops

\* The starts of calls are well-typed.
LEMMA BeginTyped ==
    TypeInv /\ (\E c \in Calls : SubmitFeedback(c) \/ CancelFeedback(c) \/ ApproveFeedback(c))
        => TypeOK'
<1> SUFFICES ASSUME TypeInv, NEW c \in Calls,
                    SubmitFeedback(c) \/ CancelFeedback(c) \/ ApproveFeedback(c)
             PROVE  TypeOK'
    OBVIOUS
<1> USE DEF TypeInv, TypeOK, database, disk, start
<1>1. c \in Callers
    BY DEF Callers
<1>2. ASSUME NEW request \in Ops, Begin(c, request) PROVE TypeOK'
    BY <1>1, <1>2 DEF Begin, Running
<1>3. CASE SubmitFeedback(c) \/ CancelFeedback(c)
    BY <1>2, <1>3, AskedAreOps DEF SubmitFeedback, CancelFeedback
<1>4. CASE ApproveFeedback(c)
    <2> PICK r \in Requests : ApproveFeedback(c)!(r)
        BY <1>4 DEF ApproveFeedback
    <2>1. op' \in [Callers -> Ops \cup {None}]
        BY <1>1 DEF Ops
    <2>2. row' \in [Requests -> Rows]
        BY DEF Rows, Statuses, Resolutions
    <2>3. pc' \in [Callers -> {"idle", "record", "done"} \cup Running]
              /\ answer' \in [Callers -> Answers]
        BY <1>1 DEF Running, Answers
    <2> QED BY <2>1, <2>2, <2>3
<1> QED BY <1>3, <1>4

\* What a running caller was asked, and the plan it holds.
LEMMA CallerTyped ==
    ASSUME TypeInv, NEW c \in Callers
    PROVE  /\ pc[c] \in Running =>
                /\ op[c] \in Ops /\ op[c].request \in Requests
                /\ Publication(c) \in Publications
           /\ pc[c] \in Holding =>
                /\ held[c] \in HeldPlans
                /\ held[c].publication \in Publications
                /\ held[c].content \in Contents
                /\ held[c].content.request \in Requests
<1> USE DEF TypeInv, TypeOK, CallersInv
<1>1. ASSUME pc[c] \in Running
      PROVE  op[c] \in Ops /\ op[c].request \in Requests /\ Publication(c) \in Publications
    BY <1>1 DEF Ops, Publication, Publications, Callers
<1>2. ASSUME pc[c] \in Holding
      PROVE  /\ held[c] \in HeldPlans
             /\ held[c].publication \in Publications
             /\ held[c].content \in Contents
             /\ held[c].content.request \in Requests
    <2>1. held[c] \in HeldPlans
        BY <1>2
    <2>2. \A h \in HeldPlans : /\ h.publication \in Publications
                               /\ h.content \in Contents
                               /\ h.content.request \in Requests
        BY DEF HeldPlans, Contents
    <2> QED BY <2>1, <2>2
<1> QED BY <1>1, <1>2

\* The steps up to the plan are well-typed.
LEMMA ReadTyped ==
    ASSUME TypeInv, NEW c \in Callers,
           Read(c) \/ Preflight(c) \/ Probe(c) \/ Unprobe(c) \/ Reread(c)
    PROVE  TypeOK'
<1> DEFINE r == op[c].request
<1>1. CallsOK
    BY DEF TypeInv, TypeOK, CallsOK
<1>2. /\ \A step \in Running : Goto(c, step) => CallsOK'
      /\ \A x \in Answers : End(c, x) => CallsOK'
    BY <1>1, CallsTyped
<1>3. r \in Requests /\ Publication(c) \in Publications
    BY CallerTyped DEF Read, Preflight, Probe, Unprobe, Reread, Running
<1>4. Release(r) => notified' \in [Requests -> BOOLEAN]
    BY <1>3 DEF Release, TypeInv, TypeOK
<1>5. RefuseTerminal(c) => CallsOK'
    BY <1>2 DEF RefuseTerminal, Running, Answers
<1>6. ASSUME CallsOK', notified' \in [Requests -> BOOLEAN], probes' \subseteq Publications,
             UNCHANGED <<database, draftFiles, temp, package, durable, detached,
                         publishLock, start, fault>>
      PROVE  TypeOK'
    BY <1>6 DEF TypeInv, TypeOK, CallsOK, database, start
<1>7. CASE Read(c)
    BY <1>2, <1>4, <1>6, <1>7 DEF Read, Running, Answers, disk, TypeInv, TypeOK
<1>8. CASE Preflight(c)
    BY <1>2, <1>5, <1>6, <1>8 DEF Preflight, Running, Answers, disk, TypeInv, TypeOK
<1>9. CASE Probe(c)
    BY <1>2, <1>3, <1>6, <1>9 DEF Probe, Running, Answers, TypeInv, TypeOK
<1>10. CASE Unprobe(c)
    BY <1>2, <1>6, <1>10 DEF Unprobe, Running, TypeInv, TypeOK
<1>11. CASE Reread(c)
    BY <1>2, <1>4, <1>6, <1>11 DEF Reread, Answers, disk, TypeInv, TypeOK
<1> QED BY <1>7, <1>8, <1>9, <1>10, <1>11

\* A caller makes a plan: from the row and the draft as it leaves them, it keeps
\* the outcome of a legacy cancellation, and goes on to publish it.
NewPlan(c, new, opened, drafted) ==
    LET r == op[c].request IN
    /\ plan[r] = None /\ row[r].status # "completed"
    /\ plan' = [plan EXCEPT ![r] = new]
    /\ row' = [row EXCEPT ![r] = opened]
    /\ draft' = [draft EXCEPT ![r] = drafted]
    /\ Adopt(c, Hold(r, new, drafted.body))
    /\ new.publication = Publication(c)
    /\ new.state = "preparing"
    /\ new.revision = drafted.revision
    /\ new.revision = opened.revision
    /\ opened.resolution = row[r].resolution
    /\ opened.reason = row[r].reason
    /\ opened.status \in {row[r].status, "in_progress"}
    /\ opened.status = "cancelled" <=> row[r].status = "cancelled"
    /\ \/ /\ new.resolution = "feedback_submitted"
          /\ new.reason = None
          /\ new.digest = drafted.body
          /\ opened.status # "cancelled"
       \/ /\ new.resolution = "cancelled"
          /\ new.reason \in Reasons
          /\ opened.status = "cancelled" => new.reason = opened.reason

\* Planning refuses, adopts the stored plan or makes one.
LEMMA PlanStep ==
    ASSUME TypeInv, NEW c \in Callers, PlanSubmission(c) \/ PlanCancellation(c)
    PROVE  LET r == op[c].request IN
           /\ r \in Requests
           /\ pc[c] = "plan"
           /\ UNCHANGED <<result, disk, publishLock, notified, start, fault>>
           /\ \/ /\ UNCHANGED <<row, draft, plan>>
                 /\ Goto(c, "reread") \/ \E x \in Answers : End(c, x)
              \/ /\ UNCHANGED <<row, draft, plan>>
                 /\ plan[r] # None
                 /\ Hold(r, plan[r], Body(r)) \in HeldPlans
                 /\ Adopt(c, Hold(r, plan[r], Body(r)))
              \/ \E new \in PlanRows, opened \in Rows, drafted \in Drafts :
                    /\ Hold(r, new, drafted.body) \in HeldPlans
                    /\ NewPlan(c, new, opened, drafted)
<1> DEFINE r == op[c].request
<1>1. /\ op[c] \in Ops /\ r \in Requests /\ Publication(c) \in Publications
      /\ Body(r) \in Texts
    BY CallerTyped, BodyTyped DEF PlanSubmission, PlanCancellation, Running, TypeInv
<1>2. row[r] \in Rows /\ plan[r] \in PlanRows \cup {None} /\ draft[r] \in Drafts \cup {None}
    BY <1>1 DEF TypeInv, TypeOK
<1>3. plan[r] # None => Hold(r, plan[r], Body(r)) \in HeldPlans
    BY <1>1, <1>2, ContentTyped DEF TypeInv, ReasonsInv
<1>4. /\ row = [row EXCEPT ![r] = row[r]]
      /\ draft = [draft EXCEPT ![r] = draft[r]]
    BY <1>1 DEF TypeInv, TypeOK
<1>5. CASE PlanSubmission(c)
    <2> DEFINE new == [publication |-> Publication(c), revision |-> row[r].revision,
                       digest |-> Body(r), cooking |-> op[c].cooking,
                       resolution |-> "feedback_submitted", reason |-> None,
                       state |-> "preparing"]
    <2>1. new \in PlanRows
        BY <1>1, <1>2 DEF PlanRows, PlanResolutions, Ops, Rows
    <2>2. Hold(r, new, Body(r)) \in HeldPlans
        BY <1>1, <2>1, ContentTyped
    <2>3. ASSUME ~Terminal(r), Body(r) # Blank, plan[r] = None,
                 draft[r].revision = row[r].revision,
                 plan' = [plan EXCEPT ![r] = new], Adopt(c, Hold(r, new, Body(r)))
          PROVE  /\ draft[r] \in Drafts
                 /\ Hold(r, new, draft[r].body) \in HeldPlans
                 /\ NewPlan(c, new, row[r], draft[r])
        <3>1. draft[r] # None /\ Body(r) = draft[r].body
            BY <2>3 DEF Body
        <3>2. row[r].status \notin {"completed", "cancelled"}
            BY <2>3 DEF Terminal
        <3> QED BY <1>2, <1>4, <1>5, <2>2, <2>3, <3>1, <3>2 DEF NewPlan, PlanSubmission
    <2> HIDE DEF new
    <2>4. \/ Goto(c, "reread") /\ UNCHANGED plan
          \/ (\E x \in Answers : End(c, x)) /\ UNCHANGED plan
          \/ plan[r] # None /\ Adopt(c, Hold(r, plan[r], Body(r))) /\ UNCHANGED plan
          \/ /\ ~Terminal(r) /\ Body(r) # Blank /\ plan[r] = None
             /\ draft[r].revision = row[r].revision
             /\ plan' = [plan EXCEPT ![r] = new]
             /\ Adopt(c, Hold(r, new, Body(r)))
        BY <1>5, SMTT(30) DEF PlanSubmission, RefuseTerminal, Answers, new
    <2> QED BY <1>1, <1>2, <1>3, <1>5, <2>1, <2>3, <2>4 DEF PlanSubmission
<1>6. CASE PlanCancellation(c)
    <2> DEFINE reason == CancelReason(c)
               fresh == row[r].revision = 0
               source == IF fresh THEN 1 ELSE row[r].revision
               opened == IF fresh THEN [row[r] EXCEPT !.status = "in_progress", !.revision = 1]
                         ELSE row[r]
               drafted == IF fresh \/ (row[r].status = "cancelled" /\ draft[r] = None)
                          THEN [body |-> Blank, revision |-> source] ELSE draft[r]
               new == [publication |-> Publication(c), revision |-> source,
                       digest |-> reason, cooking |-> None, resolution |-> "cancelled",
                       reason |-> reason, state |-> "preparing"]
    <2>1. reason \in Reasons /\ (row[r].status = "cancelled" => reason = row[r].reason)
        BY <1>1, <1>2, <1>6, NoRecordAssumption
        DEF CancelReason, TypeInv, ReasonsInv, PlanCancellation
    <2>2. opened \in Rows /\ source \in Nat
        BY <1>2 DEF Rows, Statuses
    <2>3. drafted \in Drafts \cup {None}
        BY <1>2, <2>2, TextsAssumption DEF Drafts
    <2>4. new \in PlanRows
        BY <1>1, <2>1, <2>2 DEF PlanRows, PlanResolutions
    <2>5. drafted # None => Hold(r, new, drafted.body) \in HeldPlans
        BY <1>1, <2>1, <2>3, <2>4, ContentTyped DEF Drafts
    <2>6. /\ opened.revision = source
          /\ opened.resolution = row[r].resolution
          /\ opened.reason = row[r].reason
          /\ fresh => opened.status = "in_progress"
          /\ ~fresh => opened.status = row[r].status
        BY <1>2 DEF Rows
    <2>7. ASSUME row[r].status # "completed", plan[r] = None,
                 fresh => row[r].status = "waiting",
                 drafted # None, drafted.revision = source,
                 row' = [row EXCEPT ![r] = opened],
                 draft' = [draft EXCEPT ![r] = drafted],
                 plan' = [plan EXCEPT ![r] = new],
                 Adopt(c, Hold(r, new, drafted.body))
          PROVE  NewPlan(c, new, opened, drafted)
        <3> HIDE DEF opened, drafted, source, fresh, reason
        <3> QED BY <2>1, <2>6, <2>7, Zenon DEF NewPlan
    <2> HIDE DEF new, drafted, opened, source, reason, fresh
    <2>8. \/ /\ \E x \in Answers : End(c, x)
             /\ UNCHANGED <<row, draft, plan>>
          \/ /\ plan[r] # None /\ Adopt(c, Hold(r, plan[r], Body(r)))
             /\ UNCHANGED <<row, draft, plan>>
          \/ /\ row[r].status # "completed" /\ plan[r] = None
             /\ fresh => row[r].status = "waiting"
             /\ drafted # None /\ drafted.revision = source
             /\ Adopt(c, Hold(r, new, drafted.body))
             /\ row' = [row EXCEPT ![r] = opened]
             /\ draft' = [draft EXCEPT ![r] = drafted]
             /\ plan' = [plan EXCEPT ![r] = new]
        BY <1>6 DEF PlanCancellation, Answers, new, drafted, opened, source, reason, fresh
    <2> QED BY <1>1, <1>3, <1>6, <2>2, <2>3, <2>4, <2>5, <2>7, <2>8, ZenonT(60)
            DEF PlanCancellation
<1> QED BY <1>5, <1>6

\* A new plan and the plan a caller adopts are well-typed.
LEMMA PlanTyped ==
    ASSUME TypeInv, NEW c \in Callers, PlanSubmission(c) \/ PlanCancellation(c)
    PROVE  TypeOK'
<1> DEFINE r == op[c].request
<1>1. CallsOK
    BY DEF TypeInv, TypeOK, CallsOK
<1>2. /\ Goto(c, "reread") => CallsOK'
      /\ \A x \in Answers : End(c, x) => CallsOK'
      /\ \A h \in HeldPlans : Adopt(c, h) => CallsOK'
    BY <1>1, CallsTyped DEF Running
<1>3. CallsOK'
    BY <1>2, PlanStep DEF NewPlan
<1>4. /\ row' \in [Requests -> Rows]
      /\ draft' \in [Requests -> Drafts \cup {None}]
      /\ plan' \in [Requests -> PlanRows \cup {None}]
    BY PlanStep DEF NewPlan, TypeInv, TypeOK
<1>5. UNCHANGED <<result, disk, publishLock, notified, start, fault>>
    BY PlanStep
<1> QED BY <1>3, <1>4, <1>5 DEF TypeInv, TypeOK, CallsOK, disk, start

\* Publishing is well-typed.
LEMMA PublishTyped ==
    ASSUME TypeInv, NEW c \in Callers,
           \/ Lock(c) \/ Check(c) \/ Stage(c) \/ Write(c) \/ Rename(c) \/ SyncParent(c)
    PROVE  TypeOK'
<1> DEFINE p == held[c].publication
<1>1. CallsOK
    BY DEF TypeInv, TypeOK, CallsOK
<1>2. /\ \A step \in Running : Goto(c, step) => CallsOK'
      /\ \A x \in Answers : End(c, x) => CallsOK'
    BY <1>1, CallsTyped
<1>3. p \in Publications /\ held[c].content \in Contents
    BY CallerTyped DEF Lock, Check, Stage, Write, Rename, SyncParent, Holding, Publishing
<1>4. ASSUME CallsOK', temp' \in [Publications -> Contents \cup {None, Partial}],
             package' \in [Publications -> Contents \cup {None, Partial}],
             durable' \subseteq Publications, publishLock' \in Callers \cup {None},
             UNCHANGED <<database, draftFiles, probes, detached, notified, start, fault>>
      PROVE  TypeOK'
    BY <1>4 DEF TypeInv, TypeOK, CallsOK, database, start
<1>5. AcceptExisting(c) => /\ CallsOK' /\ durable' \subseteq Publications
                           /\ publishLock' \in Callers \cup {None}
    BY <1>2, <1>3 DEF AcceptExisting, TypeInv, TypeOK, Running, Answers
<1>6. Rescue(c) => /\ CallsOK' /\ durable' \subseteq Publications
                   /\ publishLock' \in Callers \cup {None}
                   /\ temp' \in [Publications -> Contents \cup {None, Partial}]
    BY <1>2, <1>3, <1>5 DEF Rescue, TypeInv, TypeOK, Answers
<1>7. CASE Lock(c)
    BY <1>2, <1>4, <1>7 DEF Lock, disk, TypeInv, TypeOK, Running, Publishing
<1>8. CASE Check(c)
    BY <1>2, <1>4, <1>5, <1>8 DEF Check, TypeInv, TypeOK, Running, Publishing
<1>9. CASE Stage(c)
    <2>1. temp' \in [Publications -> Contents \cup {None, Partial}]
        BY <1>3, <1>9 DEF Stage, TypeInv, TypeOK
    <2> QED BY <1>2, <1>4, <1>9, <2>1 DEF Stage, TypeInv, TypeOK, Running, Publishing
<1>10. CASE Write(c)
    <2>1. temp' \in [Publications -> Contents \cup {None, Partial}]
        BY <1>3, <1>6, <1>10 DEF Write, TypeInv, TypeOK
    <2> QED BY <1>2, <1>4, <1>6, <1>10, <2>1
        DEF Write, TypeInv, TypeOK, Running, Publishing
<1>11. CASE Rename(c)
    <2>1. /\ temp' \in [Publications -> Contents \cup {None, Partial}]
          /\ package' \in [Publications -> Contents \cup {None, Partial}]
        BY <1>3, <1>6, <1>11 DEF Rename, TypeInv, TypeOK
    <2> QED BY <1>2, <1>4, <1>6, <1>11, <2>1
        DEF Rename, TypeInv, TypeOK, Running, Publishing
<1>12. CASE SyncParent(c)
    BY <1>2, <1>3, <1>4, <1>12 DEF SyncParent, TypeInv, TypeOK, Running
<1> QED BY <1>7, <1>8, <1>9, <1>10, <1>11, <1>12

\* Ending a request is well-typed.
LEMMA EndingTyped ==
    ASSUME TypeInv, NEW c \in Callers, Complete(c) \/ Cleanup(c) \/ NotifyTerminal(c)
    PROVE  TypeOK'
<1> DEFINE r == held[c].content.request
<1>1. CallsOK
    BY DEF TypeInv, TypeOK, CallsOK
<1>2. /\ \A step \in Running : Goto(c, step) => CallsOK'
      /\ \A x \in Answers : End(c, x) => CallsOK'
    BY <1>1, CallsTyped, SMTT(30)
<1>3. CASE Complete(c)
    <2> DEFINE content == held[c].content
               ended == IF row[r].status = "cancelled" THEN row[r]
                        ELSE [status |-> EndStatus(content.resolution),
                              revision |-> row[r].revision + 1,
                              resolution |-> content.resolution, reason |-> content.reason]
    <2>1. /\ r \in Requests /\ content \in Contents
          /\ held[c].publication \in Publications
        BY <1>3, CallerTyped DEF Complete, Holding
    <2>2. row[r] \in Rows /\ plan[r] \in PlanRows \cup {None}
        BY <2>1 DEF TypeInv, TypeOK
    <2>3. ended \in Rows
        BY <2>1, <2>2 DEF Rows, Contents, EndStatus, Statuses, Resolutions, PlanResolutions
    <2>4. plan[r] # None => [plan[r] EXCEPT !.state = "published"] \in PlanRows
        BY <2>2 DEF PlanRows
    <2>5. /\ [row EXCEPT ![r] = ended] \in [Requests -> Rows]
          /\ plan[r] # None => [plan EXCEPT ![r].state = "published"]
                                  \in [Requests -> PlanRows \cup {None}]
          /\ [result EXCEPT ![r] = held[c].publication]
                \in [Requests -> Publications \cup {None}]
        BY <2>1, <2>3, <2>4, SMTT(30) DEF TypeInv, TypeOK
    <2>6. /\ row' \in [Requests -> Rows]
          /\ plan' \in [Requests -> PlanRows \cup {None}]
          /\ result' \in [Requests -> Publications \cup {None}]
        BY <1>3, <2>5, ZenonT(60) DEF Complete, SamePlan, TypeInv, TypeOK
    <2>7. notified' \in [Requests -> BOOLEAN]
        BY <1>3, <2>1 DEF Complete, Release, TypeInv, TypeOK
    <2>8. CallsOK'
        BY <1>2, <1>3 DEF Complete, Answers, Running
    <2>9. UNCHANGED <<draft, disk, publishLock, start, fault>>
        BY <1>3, Zenon DEF Complete
    <2> QED BY <2>6, <2>7, <2>8, <2>9 DEF TypeInv, TypeOK, CallsOK, disk, start
<1>4. CASE Cleanup(c)
    <2>1. r \in Requests
        BY <1>4, CallerTyped DEF Cleanup, Holding
    <2>2. draftFiles' \in [Requests -> BOOLEAN]
        BY <1>4, <2>1 DEF Cleanup, TypeInv, TypeOK
    <2>3. CallsOK'
        BY <1>2, <1>4 DEF Cleanup, Answers, Running
    <2> QED BY <1>4, <2>2, <2>3 DEF Cleanup, TypeInv, TypeOK, CallsOK, database, start
<1>5. CASE NotifyTerminal(c)
    <2>1. notified' \in [Requests -> BOOLEAN]
        BY <1>5, CallerTyped DEF NotifyTerminal, Release, TypeInv, TypeOK, Running
    <2>2. CallsOK'
        BY <1>2, <1>5 DEF NotifyTerminal, Answers
    <2> QED BY <1>5, <2>1, <2>2
        DEF NotifyTerminal, TypeInv, TypeOK, CallsOK, database, disk, start
<1> QED BY <1>3, <1>4, <1>5

\* Failures, the renames that outlive their call, and crashes are well-typed.
LEMMA FailureTyped ==
    ASSUME TypeInv, NEW c \in Callers, FailureStep(c)
    PROVE  TypeOK'
<1>1. CallsOK
    BY DEF TypeInv, TypeOK, CallsOK
<1>2. \A x \in Answers : End(c, x) => CallsOK'
    BY <1>1, CallsTyped
<1>3. Unlock(c) => publishLock' \in Callers \cup {None}
    BY DEF Unlock, TypeInv, TypeOK
<1>4. CASE FailDatabase(c)
    BY <1>2, <1>4 DEF FailDatabase, Answers, TypeInv, TypeOK, CallsOK, database, disk, start
<1>5. CASE FailProbe(c)
    <2>1. Publication(c) \in Publications
        BY <1>5, CallerTyped DEF FailProbe, Running
    <2> QED BY <1>2, <1>5, <2>1
        DEF FailProbe, Answers, TypeInv, TypeOK, CallsOK, database, start
<1>6. CASE FailPublish(c)
    <2>1. held[c].publication \in Publications
        BY <1>6, CallerTyped DEF FailPublish, Holding
    <2>2. temp' \in [Publications -> Contents \cup {None, Partial}]
        BY <1>6, <2>1 DEF FailPublish, TypeInv, TypeOK
    <2> QED BY <1>2, <1>3, <1>6, <2>2
        DEF FailPublish, Answers, TypeInv, TypeOK, CallsOK, database, start
<1>7. CASE DropCall(c)
    <2>1. pc[c] = "rename" => held[c].publication \in Publications
        BY CallerTyped DEF Holding, Publishing
    <2>2. detached' \subseteq Publications
        BY <1>7, <2>1 DEF DropCall, TypeInv, TypeOK
    <2> QED BY <1>2, <1>3, <1>7, <2>2
        DEF DropCall, Answers, TypeInv, TypeOK, CallsOK, database, start
<1> QED BY <1>4, <1>5, <1>6, <1>7 DEF FailureStep

\* A crash leaves well-typed variables.
LEMMA CrashTyped ==
    TypeInv /\ (Crash \/ \E p \in Publications : DetachedRename(p)) => TypeOK'
<1> USE DEF TypeInv, TypeOK, database, start
<1>1. ASSUME TypeInv, Crash PROVE TypeOK'
    <2>1. /\ temp' \in [Publications -> Contents \cup {None, Partial}]
          /\ package' \in [Publications -> Contents \cup {None, Partial}]
        BY <1>1 DEF Crash
    <2>2. /\ pc' \in [Callers -> {"idle", "record", "done"} \cup Running]
          /\ held' \in [Callers -> HeldPlans \cup {None}]
          /\ answer' \in [Callers -> Answers]
          /\ notified' \in [Requests -> BOOLEAN]
        BY <1>1 DEF Crash, Answers
    <2>3. crashes' \in 0..MaxCrashes
        BY <1>1, BoundsAssumption DEF Crash
    <2> QED BY <1>1, <2>1, <2>2, <2>3 DEF Crash
<1>2. ASSUME TypeInv, NEW p \in Publications, DetachedRename(p) PROVE TypeOK'
    <2>1. /\ temp' \in [Publications -> Contents \cup {None, Partial}]
          /\ package' \in [Publications -> Contents \cup {None, Partial}]
        BY <1>2 DEF DetachedRename
    <2> QED BY <1>2, <2>1 DEF DetachedRename, calls
<1> QED BY <1>1, <1>2

\* The opening of the store is well-typed.
LEMMA BootTyped == TypeInv /\ (BootStep \/ RefuseOpening) => TypeOK'
<1> SUFFICES ASSUME TypeInv, BootStep \/ RefuseOpening PROVE TypeOK'
    OBVIOUS
<1> USE DEF TypeInv, TypeOK, BootStays, database, disk
<1>1. CASE ScanPlans \/ ScanLegacy \/ RecordError \/ Opened \/ RefuseOpening
    BY <1>1 DEF ScanPlans, ScanLegacy, RecordError, Opened, RefuseOpening
<1>2. ASSUME NEW r \in Requests, RecoverPlan(r) PROVE TypeOK'
    <2>1. plan[r] \in PlanRows
        BY <1>2 DEF RecoverPlan, StartInv
    <2>2. op' \in [Callers -> Ops \cup {None}]
        BY <1>2, <2>1 DEF RecoverPlan, Ops, PlanRows
    <2>3. pc' \in [Callers -> {"idle", "record", "done"} \cup Running]
        BY <1>2 DEF RecoverPlan, Running
    <2> QED BY <1>2, <2>2, <2>3 DEF RecoverPlan
<1>3. ASSUME NEW r \in Requests, ArchiveLegacy(r) PROVE TypeOK'
    <2>1. row[r].reason \in Reasons
        BY <1>3 DEF ArchiveLegacy, StartInv, ReasonsInv
    <2>2. op' \in [Callers -> Ops \cup {None}]
        BY <1>3, <2>1 DEF ArchiveLegacy, Ops
    <2>3. pc' \in [Callers -> {"idle", "record", "done"} \cup Running]
        BY <1>3 DEF ArchiveLegacy, Running
    <2> QED BY <1>3, <2>2, <2>3 DEF ArchiveLegacy
<1> QED BY <1>1, <1>2, <1>3 DEF BootStep

\* Types are kept by every step.
LEMMA TypePreserved == TypeInv /\ [Next]_vars => TypeOK'
<1> SUFFICES ASSUME TypeInv, [Next]_vars PROVE TypeOK'
    OBVIOUS
<1>1. ASSUME NEW c \in Callers, CallerStep(c) PROVE TypeOK'
    BY <1>1, ReadTyped, PlanTyped, PublishTyped, EndingTyped DEF CallerStep
<1>2. CASE UNCHANGED vars
    BY <1>2 DEF vars, database, disk, calls, start, TypeInv, TypeOK
<1> QED BY <1>1, <1>2, EditTyped, BeginTyped, FailureTyped, CrashTyped, BootTyped DEF Next

-----------------------------------------------------------------------------
\* One caller moves: it ends, goes on with what it holds, or adopts a plan.
CallerMoves(c) ==
    /\ op' = op
    /\ pc[c] \in Running
    /\ \A d \in Callers \ {c} : pc'[d] = pc[d] /\ held'[d] = held[d]
    /\ \/ /\ pc'[c] \in IF c = Boot THEN {"idle", "record"} ELSE {"done"}
          /\ held'[c] = None
       \/ /\ pc'[c] \in Running \ {"lock"}
          /\ pc'[c] \in Holding => pc[c] \in Holding
          /\ held'[c] = held[c]
       \/ /\ pc'[c] = "lock"
          /\ held'[c] \in HeldPlans

\* What one caller does leaves the others, and what it was asked, alone.
LEMMA OneCaller ==
    ASSUME TypeInv, NEW c \in Callers, CallerStep(c) \/ FailureStep(c)
    PROVE  CallerMoves(c) /\ UNCHANGED start
<1> USE DEF TypeInv, TypeOK
<1>1. ASSUME NEW step \in Running \ {"lock"}, Goto(c, step), pc[c] \in Running,
             step \in Holding => pc[c] \in Holding
      PROVE  CallerMoves(c)
    BY <1>1 DEF Goto, CallerMoves
<1>2. ASSUME NEW x, End(c, x), pc[c] \in Running PROVE CallerMoves(c)
    BY <1>2 DEF End, CallerMoves
<1>3. ASSUME NEW h \in HeldPlans, Adopt(c, h), pc[c] \in Running PROVE CallerMoves(c)
    BY <1>3 DEF Adopt, CallerMoves
<1> USE DEF Running, Holding, Publishing
<1>4. CASE Read(c) \/ Preflight(c) \/ Reread(c)
    BY <1>1, <1>2, <1>4 DEF Read, Preflight, Reread, RefuseTerminal
<1>5. CASE Probe(c) \/ Unprobe(c)
    BY <1>1, <1>2, <1>5 DEF Probe, Unprobe
<1>6. CASE Check(c) \/ Rename(c) \/ Write(c)
    BY <1>1, <1>2, <1>6 DEF Check, Rename, Write, Rescue, AcceptExisting
<1>7. CASE Lock(c) \/ Stage(c) \/ SyncParent(c)
    BY <1>1, <1>7 DEF Lock, Stage, SyncParent
<1>8. CASE Complete(c) \/ Cleanup(c) \/ NotifyTerminal(c)
    BY <1>1, <1>2, <1>8 DEF Complete, Cleanup, NotifyTerminal
<1>9. CASE FailureStep(c)
    BY <1>2, <1>9 DEF FailureStep, FailDatabase, FailProbe, FailPublish, DropCall
<1>10. CASE PlanSubmission(c) \/ PlanCancellation(c)
    BY <1>1, <1>2, <1>3, <1>10, PlanStep DEF NewPlan, start
<1> QED BY <1>4, <1>5, <1>6, <1>7, <1>8, <1>9, <1>10 DEF CallerStep

\* Only planning and completing move the rows a caller works on.
LEMMA QuietStep ==
    ASSUME TypeInv, NEW c \in Callers, CallerStep(c) \/ FailureStep(c)
    PROVE  \/ PlanSubmission(c) \/ PlanCancellation(c)
           \/ Complete(c)
           \/ UNCHANGED database
<1> USE DEF database
<1>1. CASE Read(c) \/ Preflight(c) \/ Probe(c) \/ Unprobe(c) \/ Reread(c)
    BY <1>1 DEF Read, Preflight, Probe, Unprobe, Reread
<1>2. CASE Lock(c) \/ Check(c) \/ Stage(c) \/ Write(c) \/ Rename(c) \/ SyncParent(c)
    BY <1>2 DEF Lock, Check, Stage, Write, Rename, SyncParent
<1>3. CASE Cleanup(c) \/ NotifyTerminal(c)
    BY <1>3 DEF Cleanup, NotifyTerminal
<1>4. CASE FailureStep(c)
    BY <1>4, SMTT(30) DEF FailureStep, FailDatabase, FailProbe, FailPublish, DropCall
<1> QED BY <1>1, <1>2, <1>3, <1>4 DEF CallerStep

\* The row a completing caller leaves: the end its plan asked for.
Ended(r, content) ==
    [status |-> EndStatus(content.resolution), revision |-> row[r].revision + 1,
     resolution |-> content.resolution, reason |-> content.reason]

\* Completing leaves the rows alone or records the package of the stored plan.
LEMMA CompleteStep ==
    ASSUME TypeInv, NEW c \in Callers, Complete(c)
    PROVE  LET r == held[c].content.request
               content == held[c].content IN
           /\ r \in Requests
           /\ UNCHANGED <<draft, disk, publishLock, start, fault>>
           /\ \/ UNCHANGED <<row, plan, result>> /\ pc'[c] # "cleanup"
              \/ /\ SamePlan(c) /\ Endable(c)
                 /\ row[r].status # "completed"
                 /\ row[r].status = "cancelled" =>
                       content.resolution = "cancelled" /\ result[r] = None
                 /\ plan' = [plan EXCEPT ![r].state = "published"]
                 /\ result' = [result EXCEPT ![r] = held[c].publication]
                 /\ row' = [row EXCEPT ![r] = IF row[r].status = "cancelled" THEN row[r]
                                              ELSE Ended(r, content)]
                 /\ Goto(c, "cleanup")
<1>1. held[c].content.request \in Requests
    BY CallerTyped DEF Complete, Holding
<1>2. \A x : End(c, x) => pc'[c] # "cleanup"
    BY DEF End, TypeInv, TypeOK
<1> QED BY <1>1, <1>2, SMTT(30) DEF Complete, Ended, EndStatus

\* Reasons stay where a cancellation is.
LEMMA ReasonsPreserved == TypeInv /\ [Next]_vars => ReasonsInv'
<1> SUFFICES ASSUME TypeInv, [Next]_vars PROVE ReasonsInv'
    OBVIOUS
<1> USE DEF TypeInv, ReasonsInv
<1>1. ASSUME UNCHANGED <<row, plan, op>> PROVE ReasonsInv'
    BY <1>1
<1>2. ASSUME NEW r \in Requests, NEW body \in Texts, Edit(r, body) PROVE ReasonsInv'
    BY <1>2 DEF Edit, calls, TypeOK
<1>3. ASSUME NEW c \in Calls, SubmitFeedback(c) \/ CancelFeedback(c) PROVE ReasonsInv'
    <2> PICK request \in Submissions \cup Cancellations : Begin(c, request)
        BY <1>3 DEF SubmitFeedback, CancelFeedback
    <2>1. request.kind = "cancel" => request.reason \in Reasons
        BY AskedAreOps
    <2> QED BY <2>1 DEF Begin, database, TypeOK
<1>4. ASSUME NEW c \in Calls, ApproveFeedback(c) PROVE ReasonsInv'
    <2> PICK r \in Requests : ApproveFeedback(c)!(r)
        BY <1>4 DEF ApproveFeedback
    <2>1. \A d \in Callers : op'[d] # None /\ op'[d].kind = "cancel" => op'[d] = op[d]
        BY DEF TypeOK
    <2>2. \A q \in Requests : row'[q].status = "cancelled" => row'[q] = row[q]
        BY DEF TypeOK, Rows
    <2> QED BY <2>1, <2>2
<1>5. ASSUME NEW c \in Callers, CallerStep(c) \/ FailureStep(c) PROVE ReasonsInv'
    <2>1. op' = op
        BY <1>5, OneCaller DEF CallerMoves
    <2>2. CASE UNCHANGED database
        BY <1>1, <2>1, <2>2 DEF database
    <2>3. CASE PlanSubmission(c) \/ PlanCancellation(c)
        BY <1>1, <2>1, <2>3, PlanStep DEF NewPlan, TypeOK
    <2>4. CASE Complete(c)
        <3> DEFINE r == held[c].content.request
        <3>1. CASE UNCHANGED <<row, plan>>
            BY <1>1, <2>1, <3>1
        <3>2. ASSUME SamePlan(c), r \in Requests,
                     plan' = [plan EXCEPT ![r].state = "published"],
                     row' = [row EXCEPT ![r] = IF row[r].status = "cancelled" THEN row[r]
                                               ELSE Ended(r, held[c].content)]
              PROVE  ReasonsInv'
            <4>1. plan[r] # None /\ plan[r].resolution = held[c].content.resolution
                      /\ plan[r].reason = held[c].content.reason
                BY <3>2, Zenon DEF SamePlan
            <4>2. Ended(r, held[c].content).status = "cancelled" => plan[r].reason \in Reasons
                BY <3>2, <4>1, CallerTyped, <2>4
                DEF Ended, EndStatus, Complete, Holding, Contents, PlanResolutions
            <4>3. \A q \in Requests : row'[q].status = "cancelled" => row'[q].reason \in Reasons
                BY <3>2, <4>1, <4>2 DEF Ended, TypeOK
            <4>4. plan[r] \in PlanRows
                BY <3>2, <4>1 DEF TypeOK
            <4>5. \A q \in Requests : plan'[q] # None =>
                      /\ plan[q] # None
                      /\ plan'[q].resolution = plan[q].resolution
                      /\ plan'[q].reason = plan[q].reason
                BY <3>2, <4>1, <4>4 DEF TypeOK, PlanRows
            <4> QED BY <2>1, <4>3, <4>5
        <3> QED BY <2>4, <3>1, <3>2, CompleteStep
    <2> QED BY <1>5, <2>2, <2>3, <2>4, QuietStep
<1>6. CASE Crash \/ \E p \in Publications : DetachedRename(p)
    BY <1>1, <1>6 DEF Crash, DetachedRename, database, calls
<1>7. CASE BootStep \/ RefuseOpening
    <2>1. UNCHANGED database
        BY <1>7 DEF BootStep, RefuseOpening, ScanPlans, ScanLegacy, RecordError, Opened,
                    RecoverPlan, ArchiveLegacy, BootStays
    <2>2. CASE op' = op
        BY <1>1, <2>1, <2>2 DEF database
    <2>3. ASSUME NEW r \in Requests, RecoverPlan(r) PROVE ReasonsInv'
        BY <2>1, <2>3 DEF RecoverPlan, StartInv, TypeOK, database
    <2>4. ASSUME NEW r \in Requests, ArchiveLegacy(r) PROVE ReasonsInv'
        BY <2>1, <2>4 DEF ArchiveLegacy, StartInv, TypeOK, database
    <2> QED BY <1>7, <2>2, <2>3, <2>4 DEF BootStep, RefuseOpening, ScanPlans, ScanLegacy,
                                          RecordError, Opened
<1>8. CASE UNCHANGED vars
    BY <1>1, <1>8 DEF vars, database, calls
<1> QED BY <1>2, <1>3, <1>4, <1>5, <1>6, <1>7, <1>8, BodyTyped
    DEF Next, SaveDraft, ChangeAttachments

\* A plan stays, and a cancelled request stays cancelled.
LEMMA RowsKept ==
    ASSUME TypeInv, NEW c \in Callers, CallerStep(c) \/ FailureStep(c)
    PROVE  \A r \in Requests :
              /\ plan[r] # None => plan'[r] # None
              /\ row[r].status = "cancelled" => row'[r].status = "cancelled"
<1> USE DEF TypeInv, TypeOK
<1>1. CASE UNCHANGED database
    BY <1>1 DEF database
<1>2. CASE PlanSubmission(c) \/ PlanCancellation(c)
    BY <1>2, PlanStep DEF NewPlan
<1>3. CASE Complete(c)
    <2> DEFINE q == held[c].content.request
    <2>1. CASE UNCHANGED <<row, plan>>
        BY <2>1
    <2>2. ASSUME SamePlan(c), q \in Requests,
                 plan' = [plan EXCEPT ![q].state = "published"],
                 row' = [row EXCEPT ![q] = IF row[q].status = "cancelled" THEN row[q]
                                           ELSE Ended(q, held[c].content)]
          PROVE  \A r \in Requests :
                    /\ plan[r] # None => plan'[r] # None
                    /\ row[r].status = "cancelled" => row'[r].status = "cancelled"
        <3>1. plan[q] \in PlanRows
            BY <2>2 DEF SamePlan
        <3>2. [plan[q] EXCEPT !.state = "published"] \in PlanRows
            BY <3>1 DEF PlanRows
        <3>3. plan'[q] # None
            BY <2>2, <3>2, NoRecordAssumption
        <3> QED BY <2>2, <3>3
    <2> QED BY <1>3, <2>1, <2>2, CompleteStep
<1> QED BY <1>1, <1>2, <1>3, QuietStep

\* A running caller keeps what it was asked and what it holds.
LEMMA CallersPreserved == TypeInv /\ [Next]_vars => CallersInv'
<1> SUFFICES ASSUME TypeInv, [Next]_vars PROVE CallersInv'
    OBVIOUS
<1> USE DEF TypeInv, CallersInv, TypeOK, Running, Holding, Publishing
<1>1. ASSUME UNCHANGED <<pc, op, held>> PROVE CallersInv'
    BY <1>1
<1>2. ASSUME NEW r \in Requests, SaveDraft(r) \/ ChangeAttachments(r) PROVE CallersInv'
    BY <1>1, <1>2 DEF SaveDraft, ChangeAttachments, Edit, calls
<1>3. ASSUME NEW c \in Calls, NEW request \in Ops,
             op' = [op EXCEPT ![c] = request], held' = held,
             pc' = [pc EXCEPT ![c] = "read"] \/ pc' = [pc EXCEPT ![c] = "notify"]
                 \/ pc' = [pc EXCEPT ![c] = "done"]
      PROVE  CallersInv'
    BY <1>3, NoRecordAssumption DEF Callers
<1>4. ASSUME NEW c \in Calls, SubmitFeedback(c) \/ CancelFeedback(c) PROVE CallersInv'
    <2> PICK request \in Submissions \cup Cancellations : Begin(c, request)
        BY <1>4 DEF SubmitFeedback, CancelFeedback
    <2> QED BY <1>3, AskedAreOps DEF Begin
<1>6. ASSUME NEW c \in Calls, ApproveFeedback(c) PROVE CallersInv'
    <2> PICK r \in Requests : ApproveFeedback(c)!(r)
        BY <1>6 DEF ApproveFeedback
    <2> DEFINE request == [kind |-> "approve", request |-> r, revision |-> 0,
                           cooking |-> None, reason |-> None]
    <2>1. request \in Ops
        BY DEF Ops
    <2>2. \/ pc' = [pc EXCEPT ![c] = "notify"]
          \/ pc' = [pc EXCEPT ![c] = "done"]
        OBVIOUS
    <2> QED BY <1>3, <2>1, <2>2
<1>7. ASSUME NEW c \in Callers, CallerStep(c) \/ FailureStep(c) PROVE CallersInv'
    BY <1>7, OneCaller, NoRecordAssumption DEF CallerMoves
<1>8. CASE Crash
    BY <1>8 DEF Crash
<1>9. ASSUME NEW r \in Requests, RecoverPlan(r) \/ ArchiveLegacy(r) PROVE CallersInv'
    <2>1. op' \in [Callers -> Ops \cup {None}] /\ op'[Boot] # None
        <3>1. CASE RecoverPlan(r)
            <4>1. plan[r] \in PlanRows
                BY <3>1 DEF RecoverPlan, StartInv
            <4>2. [kind |-> IF plan[r].resolution = "cancelled" THEN "cancel" ELSE "submit",
                   request |-> r, revision |-> plan[r].revision,
                   cooking |-> plan[r].cooking, reason |-> plan[r].reason] \in Ops
                BY <4>1 DEF Ops, PlanRows
            <4> QED BY <3>1, <4>2, NoRecordAssumption DEF RecoverPlan, Callers
        <3>2. CASE ArchiveLegacy(r)
            <4>1. row[r].reason \in Reasons
                BY <3>2 DEF ArchiveLegacy, StartInv, ReasonsInv
            <4>2. [kind |-> "cancel", request |-> r, revision |-> 0,
                   cooking |-> None, reason |-> row[r].reason] \in Ops
                BY <4>1 DEF Ops
            <4> QED BY <3>2, <4>2, NoRecordAssumption DEF ArchiveLegacy, Callers
        <3> QED BY <1>9, <3>1, <3>2
    <2>2. /\ \A d \in Callers \ {Boot} : pc'[d] = pc[d] /\ op'[d] = op[d]
          /\ pc'[Boot] = "preflight" /\ held' = held
        BY <1>9 DEF RecoverPlan, ArchiveLegacy, BootStays, Callers
    <2> QED BY <2>1, <2>2
<1>10. CASE ScanPlans \/ ScanLegacy \/ Opened \/ \E p \in Publications : DetachedRename(p)
    BY <1>1, <1>10 DEF ScanPlans, ScanLegacy, Opened, DetachedRename, BootStays, calls
<1>12. CASE RecordError \/ RefuseOpening
    BY <1>12 DEF RecordError, RefuseOpening, BootStays
<1>11. CASE UNCHANGED vars
    BY <1>1, <1>11 DEF vars, calls
<1> QED BY <1>2, <1>4, <1>6, <1>7, <1>8, <1>9, <1>10, <1>11, <1>12 DEF Next, BootStep

\* The opening of the store stays apart from the calls.
LEMMA StartPreserved == TypeInv /\ [Next]_vars => StartInv'
<1> SUFFICES ASSUME TypeInv, [Next]_vars PROVE StartInv'
    OBVIOUS
<1> USE CallersAssumption DEF TypeInv, StartInv, TypeOK, Callers
<1>1. ASSUME UNCHANGED <<pc, start, row, plan>> PROVE StartInv'
    BY <1>1 DEF start
<1>2. ASSUME NEW r \in Requests, SaveDraft(r) \/ ChangeAttachments(r) PROVE StartInv'
    BY <1>2 DEF SaveDraft, ChangeAttachments, Edit, Editable, calls, start
<1>3. ASSUME NEW c \in Calls, SubmitFeedback(c) \/ CancelFeedback(c) \/ ApproveFeedback(c)
      PROVE  StartInv'
    <2>1. phase = "up" /\ UNCHANGED start
        BY <1>3 DEF SubmitFeedback, CancelFeedback, ApproveFeedback, Begin
    <2>2. CASE SubmitFeedback(c) \/ CancelFeedback(c)
        BY <2>1, <2>2 DEF SubmitFeedback, CancelFeedback, Begin, start
    <2>3. CASE ApproveFeedback(c)
        <3> PICK r \in Requests : ApproveFeedback(c)!(r)
            BY <2>3 DEF ApproveFeedback
        <3>1. pc'[Boot] = pc[Boot]
            OBVIOUS
        <3> QED BY <2>1, <3>1 DEF start
    <2> QED BY <1>3, <2>2, <2>3
<1>4. ASSUME NEW c \in Callers, CallerStep(c) \/ FailureStep(c) PROVE StartInv'
    <2>1. CallerMoves(c) /\ UNCHANGED start
        BY <1>4, OneCaller
    <2>2. phase # "up" => c = Boot
        BY <2>1 DEF CallerMoves, Running, Publishing
    <2>3. phase \in {"scan", "up", "refused"} => c # Boot
        BY <2>1 DEF CallerMoves, Running, Publishing
    <2>4. /\ pc'[Boot] # "done"
          /\ \A d \in Calls : pc'[d] # "record"
        BY <2>1 DEF CallerMoves, Running, Publishing
    <2> QED BY <1>4, <2>1, <2>2, <2>3, <2>4, RowsKept DEF CallerMoves, start
<1>5. CASE Crash
    BY <1>5 DEF Crash
<1>6. CASE BootStep \/ RefuseOpening
    BY <1>6 DEF BootStep, RefuseOpening, ScanPlans, ScanLegacy, RecordError, Opened,
                RecoverPlan, ArchiveLegacy, BootStays, Preparing, Unarchived, database
<1>7. CASE (\E p \in Publications : DetachedRename(p)) \/ UNCHANGED vars
    BY <1>1, <1>7 DEF DetachedRename, vars, database, calls
<1> QED BY <1>2, <1>3, <1>4, <1>5, <1>6, <1>7 DEF Next

\* Types, in every state the program reaches.
THEOREM TypeInductive == Spec => []TypeInv
<1>1. ASSUME Init PROVE TypeInv
    <2>1. /\ row \in [Requests -> Rows]
          /\ \A r \in Requests : row[r].status = "cancelled" => row[r].reason \in Reasons
        <3> PICK legacy \in SUBSET Requests, why \in [Requests -> Reasons] :
              row = [r \in Requests |->
                        IF r \in legacy
                        THEN [status |-> "cancelled", revision |-> 1,
                              resolution |-> None, reason |-> why[r]]
                        ELSE [status |-> "waiting", revision |-> 0,
                              resolution |-> None, reason |-> None]]
            BY <1>1 DEF Init
        <3> QED BY DEF Rows, Statuses
    <2>2. pc = [c \in Callers |-> "idle"] /\ phase = "scan" /\ Boot \in Callers
        BY <1>1 DEF Init, Callers
    <2>3. CallersInv /\ StartInv
        BY <2>2 DEF CallersInv, StartInv, Running, Holding, Publishing, Callers
    <2>4. TypeOK
        <3>1. /\ draft \in [Requests -> Drafts \cup {None}]
              /\ plan \in [Requests -> PlanRows \cup {None}]
              /\ result \in [Requests -> Publications \cup {None}]
              /\ draftFiles \in [Requests -> BOOLEAN]
              /\ temp \in [Publications -> Contents \cup {None, Partial}]
              /\ package \in [Publications -> Contents \cup {None, Partial}]
            BY <1>1 DEF Init
        <3>2. /\ pc \in [Callers -> {"idle", "record", "done"} \cup Running]
              /\ op \in [Callers -> Ops \cup {None}]
              /\ held \in [Callers -> HeldPlans \cup {None}]
              /\ answer \in [Callers -> Answers]
              /\ notified \in [Requests -> BOOLEAN]
            BY <1>1 DEF Init, Answers
        <3>3. /\ durable = {} /\ probes = {} /\ detached = {}
              /\ publishLock = None
              /\ phase = "scan" /\ todo = {} /\ fault = FALSE /\ crashes = 0
            BY <1>1 DEF Init
        <3>4. /\ publishLock \in Callers \cup {None}
              /\ phase \in {"scan", "recover", "archive", "up"}
              /\ durable \subseteq Publications /\ probes \subseteq Publications
              /\ detached \subseteq Publications /\ todo \subseteq Requests
            BY <3>3
        <3>5. crashes \in 0..MaxCrashes
            BY <3>3, BoundsAssumption
        <3>6. fault \in BOOLEAN
            BY <3>3
        <3> QED BY <2>1, <3>1, <3>2, <3>4, <3>5, <3>6 DEF TypeOK
    <2>5. plan = [r \in Requests |-> None] /\ op = [c \in Callers |-> None]
        BY <1>1 DEF Init
    <2>6. ReasonsInv
        BY <2>1, <2>5 DEF ReasonsInv
    <2> QED BY <2>3, <2>4, <2>6 DEF TypeInv
<1>2. TypeInv /\ [Next]_vars => TypeInv'
    BY TypePreserved, ReasonsPreserved, CallersPreserved, StartPreserved DEF TypeInv
<1> QED BY <1>1, <1>2, PTL DEF Spec

\* Every variable keeps its type: no step writes NULL into a body, a plan
\* without its fields, or a publication that is none.
THEOREM TypeCorrect == Spec => []TypeOK
<1>1. TypeInv => TypeOK
    BY DEF TypeInv
<1> QED BY <1>1, TypeInductive, PTL

-----------------------------------------------------------------------------
\* What became of a stored plan: everything a caller holds of it is still so.
Kept(r) == plan[r] # None =>
    /\ plan'[r] # None
    /\ plan'[r].publication = plan[r].publication
    /\ plan[r].state = "published" => plan'[r].state = "published"
    /\ Body(r)' = Body(r)
    /\ Content(r, plan[r], Body(r))' = Content(r, plan[r], Body(r))
    /\ Hold(r, plan[r], Body(r))' = Hold(r, plan[r], Body(r))

\* No step changes what a stored plan stands for.
LEMMA PlanKept == TypeInv /\ [Next]_vars => \A r \in Requests : Kept(r)
<1> SUFFICES ASSUME TypeInv, [Next]_vars, NEW r \in Requests PROVE Kept(r)
    OBVIOUS
<1> USE DEF TypeInv, TypeOK
<1>1. ASSUME plan'[r] = plan[r], draft'[r] = draft[r] PROVE Kept(r)
    BY <1>1 DEF Kept, Body, Content, Hold
<1>2. CASE UNCHANGED database
    BY <1>1, <1>2 DEF database
<1>3. ASSUME NEW q \in Requests, NEW body \in Texts, Edit(q, body) PROVE Kept(r)
    <2>1. CASE q = r
        BY <1>3, <2>1 DEF Edit, Editable, Kept
    <2>2. CASE q # r
        BY <1>1, <1>3, <2>2 DEF Edit
    <2> QED BY <2>1, <2>2
<1>4. ASSUME NEW c \in Calls, SubmitFeedback(c) \/ CancelFeedback(c) \/ ApproveFeedback(c)
      PROVE  Kept(r)
    BY <1>1, <1>4 DEF SubmitFeedback, CancelFeedback, ApproveFeedback, Begin, database
<1>5. ASSUME NEW c \in Callers, CallerStep(c) \/ FailureStep(c) PROVE Kept(r)
    <2>1. CASE PlanSubmission(c) \/ PlanCancellation(c)
        <3>1. CASE UNCHANGED <<draft, plan>>
            BY <1>1, <3>1
        <3>2. ASSUME NEW new \in PlanRows, NEW opened \in Rows, NEW drafted \in Drafts,
                     NewPlan(c, new, opened, drafted)
              PROVE  Kept(r)
            BY <1>1, <3>2 DEF NewPlan, Kept
        <3> QED BY <2>1, <3>1, <3>2, PlanStep
    <2>2. CASE Complete(c)
        <3> DEFINE q == held[c].content.request
        <3>1. draft' = draft
            BY <2>2, CompleteStep
        <3>2. CASE plan' = plan
            BY <1>1, <3>1, <3>2
        <3>3. CASE q = r /\ plan[r] # None /\ plan' = [plan EXCEPT ![r].state = "published"]
            <4>1. plan[r] \in PlanRows
                BY <3>3
            <4>2. /\ plan'[r] \in PlanRows
                  /\ plan'[r].publication = plan[r].publication
                  /\ plan'[r].revision = plan[r].revision
                  /\ plan'[r].digest = plan[r].digest
                  /\ plan'[r].cooking = plan[r].cooking
                  /\ plan'[r].resolution = plan[r].resolution
                  /\ plan'[r].reason = plan[r].reason
                  /\ plan'[r].state = "published"
                BY <3>3, <4>1 DEF PlanRows
            <4>3. plan'[r] # None
                BY <4>2, NoRecordAssumption
            <4>4. Body(r)' = Body(r)
                BY <3>1 DEF Body
            <4>5. Content(r, plan[r], Body(r))' = Content(r, plan[r], Body(r))
                BY <4>2, <4>4 DEF Content
            <4> QED BY <4>2, <4>3, <4>4, <4>5 DEF Kept, Hold
        <3>4. CASE q # r /\ plan' = [plan EXCEPT ![q].state = "published"]
            BY <1>1, <3>1, <3>4
        <3> QED BY <2>2, <3>2, <3>3, <3>4, CompleteStep DEF SamePlan
    <2> QED BY <1>2, <1>5, <2>1, <2>2, QuietStep
<1>6. CASE BootStep \/ RefuseOpening
    BY <1>2, <1>6 DEF BootStep, RefuseOpening, ScanPlans, ScanLegacy, RecordError, Opened,
                      RecoverPlan, ArchiveLegacy, BootStays
<1>7. CASE Crash \/ (\E p \in Publications : DetachedRename(p)) \/ UNCHANGED vars
    BY <1>2, <1>7 DEF Crash, DetachedRename, vars
<1> QED BY <1>3, <1>4, <1>5, <1>6, <1>7, BodyTyped DEF Next, SaveDraft, ChangeAttachments

\* Rows, plans and results agree after every step.
LEMMA DatabasePreserved ==
    IInv /\ [Next]_vars => DraftFrozen' /\ DatabaseInv'
<1> SUFFICES ASSUME IInv, [Next]_vars PROVE DraftFrozen' /\ DatabaseInv'
    OBVIOUS
<1> USE DEF IInv, TypeInv, TypeOK
<1>1. ASSUME UNCHANGED database PROVE DraftFrozen' /\ DatabaseInv'
    BY <1>1 DEF database, DraftFrozen, Frozen, DatabaseInv, Terminal, Body
<1>0. ASSUME NEW r \in Requests, row'[r] = row[r], draft'[r] = draft[r], plan'[r] = plan[r],
             plan'[r] # None
      PROVE  Frozen(r)'
    <2>1. Frozen(r)
        BY <1>0 DEF DraftFrozen
    <2> QED BY <1>0, <2>1 DEF Frozen, Terminal, Body
<1>2. ASSUME NEW r \in Requests, NEW body \in Texts, Edit(r, body)
      PROVE  DraftFrozen' /\ DatabaseInv'
    <2>1. /\ plan[r] = None /\ ~Terminal(r) /\ row[r].resolution = None /\ result[r] = None
          /\ row'[r].status = "in_progress" /\ row'[r].resolution = row[r].resolution
          /\ UNCHANGED <<plan, result>>
          /\ \A q \in Requests \ {r} : row'[q] = row[q] /\ draft'[q] = draft[q]
        BY <1>2 DEF Edit, Editable, DatabaseInv, Rows
    <2>2. DraftFrozen'
        BY <1>0, <2>1 DEF DraftFrozen
    <2>3. DatabaseInv'
        BY <2>1 DEF DatabaseInv, Terminal
    <2> QED BY <2>2, <2>3
<1>3. ASSUME NEW c \in Calls, ApproveFeedback(c) PROVE DraftFrozen' /\ DatabaseInv'
    <2> PICK r \in Requests : ApproveFeedback(c)!(r)
        BY <1>3 DEF ApproveFeedback
    <2>1. CASE row' = row
        BY <1>1, <2>1 DEF database
    <2>2. CASE ~Terminal(r) /\ row' = [row EXCEPT ![r].status = "completed",
                                                  ![r].resolution = "approved",
                                                  ![r].revision = @ + 1]
        <3>1. /\ row[r].resolution = None /\ result[r] = None
              /\ row'[r].status = "completed" /\ row'[r].resolution = "approved"
              /\ row'[r].revision = row[r].revision + 1
              /\ UNCHANGED <<draft, plan, result>>
              /\ \A q \in Requests \ {r} : row'[q] = row[q]
            BY <2>2 DEF DatabaseInv, Rows
        <3>2. DraftFrozen'
            <4>1. ASSUME plan[r] # None PROVE Frozen(r)'
                <5>0. plan[r].revision \in Nat
                    BY <4>1 DEF PlanRows
                <5>1. Frozen(r)
                    BY <4>1 DEF DraftFrozen
                <5>4. row[r].revision = plan[r].revision
                    BY <2>2, <5>0, <5>1 DEF Frozen
                <5>2. Terminal(r)' /\ row'[r].resolution # None
                    BY <3>1, NoRecordAssumption DEF Terminal, Resolutions
                <5>3. Body(r)' = Body(r)
                    BY <3>1 DEF Body
                <5> QED BY <3>1, <5>1, <5>2, <5>3, <5>4 DEF Frozen
            <4> QED BY <1>0, <3>1, <4>1 DEF DraftFrozen
        <3>3. DatabaseInv'
            BY <3>1 DEF DatabaseInv, Terminal
        <3> QED BY <3>2, <3>3
    <2> QED BY <2>1, <2>2
<1>4. ASSUME NEW c \in Callers, CallerStep(c) \/ FailureStep(c)
      PROVE  DraftFrozen' /\ DatabaseInv'
    <2>1. CASE PlanSubmission(c) \/ PlanCancellation(c)
        <3>0. op[c].request \in Requests /\ result' = result
            BY <2>1, PlanStep
        <3> PICK r \in Requests : r = op[c].request
            BY <3>0
        <3>1. CASE UNCHANGED <<row, draft, plan>>
            BY <1>1, <3>0, <3>1 DEF database
        <3>2. ASSUME NEW new \in PlanRows, NEW opened \in Rows, NEW drafted \in Drafts,
                     NewPlan(c, new, opened, drafted)
              PROVE  DraftFrozen' /\ DatabaseInv'
            <4>1. /\ plan[r] = None /\ row[r].status # "completed"
                  /\ plan'[r] = new /\ row'[r] = opened /\ draft'[r] = drafted
                  /\ new # None /\ drafted # None
                  /\ \A q \in Requests \ {r} :
                        row'[q] = row[q] /\ draft'[q] = draft[q] /\ plan'[q] = plan[q]
                BY <3>0, <3>2, NoRecordAssumption DEF NewPlan
            <4>2. row[r].resolution = None /\ result[r] = None
                BY <3>0, <4>1 DEF DatabaseInv, Terminal
            <4>3. DraftFrozen'
                <5>1. Body(r)' = drafted.body
                    BY <4>1 DEF Body
                <5>2. /\ new.revision \in Nat
                      /\ drafted.revision = new.revision
                      /\ opened.revision = new.revision
                      /\ opened.resolution = None
                      /\ new.resolution = "feedback_submitted" => new.digest = drafted.body
                    BY <3>2, <4>2 DEF NewPlan, PlanRows
                <5>3. Frozen(r)'
                    BY <4>1, <5>1, <5>2 DEF Frozen
                <5> QED BY <1>0, <4>1, <5>3 DEF DraftFrozen
            <4>4. DatabaseInv'
                BY <3>0, <3>2, <4>1, <4>2 DEF NewPlan, DatabaseInv, Terminal
            <4> QED BY <4>3, <4>4
        <3> QED BY <2>1, <3>1, <3>2, PlanStep
    <2>2. CASE Complete(c)
        <3>0. held[c].content.request \in Requests
            BY <2>2, CompleteStep
        <3> PICK content : content = held[c].content
            OBVIOUS
        <3> PICK r \in Requests : r = content.request
            BY <3>0
        <3>1. CASE UNCHANGED <<row, plan, result>>
            BY <1>1, <2>2, <3>1, CompleteStep DEF database
        <3>2. ASSUME SamePlan(c), Endable(c), draft' = draft,
                     row[r].status # "completed",
                     row[r].status = "cancelled" => content.resolution = "cancelled",
                     plan' = [plan EXCEPT ![r].state = "published"],
                     result' = [result EXCEPT ![r] = held[c].publication],
                     row' = [row EXCEPT ![r] = IF row[r].status = "cancelled" THEN row[r]
                                               ELSE Ended(r, content)]
              PROVE  DraftFrozen' /\ DatabaseInv'
            <4>1. /\ plan[r] \in PlanRows /\ plan[r] # None /\ row[r] \in Rows
                  /\ plan[r].publication = held[c].publication
                  /\ plan[r].resolution = content.resolution
                  /\ plan[r].reason = content.reason
                  /\ plan[r].revision = content.revision
                BY <3>2 DEF SamePlan
            <4>2. plan[r].publication # None
                BY <4>1, NoneAssumption DEF PlanRows
            <4>3. /\ plan'[r] \in PlanRows
                  /\ plan'[r].state = "published"
                  /\ plan'[r].publication = plan[r].publication
                  /\ plan'[r].revision = plan[r].revision
                  /\ plan'[r].digest = plan[r].digest
                  /\ plan'[r].resolution = plan[r].resolution
                  /\ plan'[r].reason = plan[r].reason
                BY <3>2, <4>1 DEF PlanRows
            <4>4. plan'[r] # None
                BY <4>3, NoRecordAssumption
            <4>5. \A q \in Requests \ {r} :
                     row'[q] = row[q] /\ plan'[q] = plan[q] /\ result'[q] = result[q]
                BY <3>2
            <4>6. result'[r] = plan[r].publication
                BY <3>2, <4>1
            <4>7. CASE row[r].status = "cancelled"
                <5>1. row'[r] = row[r]
                    BY <3>2, <4>7
                <5>2. DraftFrozen'
                    <6>1. Frozen(r)
                        BY <4>1, Zenon DEF DraftFrozen
                    <6>2. Frozen(r)'
                        BY <3>2, <4>3, <5>1, <6>1 DEF Frozen, Terminal, Body
                    <6> QED BY <1>0, <3>2, <4>5, <6>2 DEF DraftFrozen
                <5>3. DatabaseInv'
                    BY <4>1, <4>2, <4>3, <4>4, <4>5, <4>6, <4>7, <5>1
                    DEF DatabaseInv, Terminal
                <5> QED BY <5>2, <5>3
            <4>8. CASE row[r].status # "cancelled"
                <5>1. /\ row'[r] = Ended(r, content)
                      /\ row[r].revision = plan[r].revision
                    BY <3>2, <4>1, <4>8 DEF Endable
                <5>2. /\ row'[r].status = EndStatus(content.resolution)
                      /\ row'[r].revision = plan[r].revision + 1
                      /\ row'[r].resolution = plan[r].resolution
                      /\ row'[r].reason = plan[r].reason
                    BY <4>1, <5>1 DEF Ended
                <5>3. plan[r].resolution \in {"feedback_submitted", "cancelled"}
                          /\ row'[r].resolution # None
                    BY <4>1, <5>2, NoRecordAssumption
                    DEF PlanRows, PlanResolutions, Resolutions
                <5>4. DraftFrozen'
                    <6>1. Frozen(r)
                        BY <4>1 DEF DraftFrozen
                    <6>2. Terminal(r)'
                        BY <5>2, SMTT(30) DEF Terminal, EndStatus
                    <6>3. Frozen(r)'
                        BY <3>2, <4>3, <5>2, <5>3, <6>1, <6>2, SMTT(30) DEF Frozen, Body
                    <6> QED BY <1>0, <3>2, <4>5, <6>3 DEF DraftFrozen
                <5>5. DatabaseInv'
                    BY <4>1, <4>2, <4>3, <4>4, <4>5, <4>6, <5>2, <5>3
                    DEF DatabaseInv, Terminal, EndStatus
                <5> QED BY <5>4, <5>5
            <4> QED BY <4>7, <4>8
        <3> QED BY <2>2, <3>1, <3>2, CompleteStep
    <2> QED BY <1>1, <1>4, <2>1, <2>2, QuietStep
<1>5. CASE (\E c \in Calls : SubmitFeedback(c) \/ CancelFeedback(c)) \/ BootStep \/ RefuseOpening
    BY <1>1, <1>5 DEF SubmitFeedback, CancelFeedback, Begin, BootStep, RefuseOpening,
                      ScanPlans, ScanLegacy, RecordError, Opened, RecoverPlan,
                      ArchiveLegacy, BootStays
<1>6. CASE Crash \/ (\E p \in Publications : DetachedRename(p)) \/ UNCHANGED vars
    BY <1>1, <1>6 DEF Crash, DetachedRename, vars
<1> QED BY <1>2, <1>3, <1>4, <1>5, <1>6, BodyTyped DEF Next, SaveDraft, ChangeAttachments

\* A caller goes on with what it holds, drops it, or plans.
LEMMA HeldStep ==
    ASSUME TypeInv, NEW c \in Callers, CallerStep(c) \/ FailureStep(c)
    PROVE  \/ PlanSubmission(c) \/ PlanCancellation(c)
           \/ held' = held \/ held' = [held EXCEPT ![c] = None]
<1>1. CASE Read(c) \/ Preflight(c) \/ Probe(c) \/ Unprobe(c) \/ Reread(c)
    BY <1>1 DEF Read, Preflight, Probe, Unprobe, Reread, RefuseTerminal, Goto, End
<1>2. CASE Lock(c) \/ Check(c) \/ Stage(c) \/ Write(c) \/ Rename(c) \/ SyncParent(c)
    BY <1>2, SMTT(30) DEF Lock, Check, Stage, Write, Rename, SyncParent, AcceptExisting,
                          Rescue, Goto, End
<1>3. CASE Complete(c) \/ Cleanup(c) \/ NotifyTerminal(c)
    BY <1>3 DEF Complete, Cleanup, NotifyTerminal, Goto, End
<1>4. CASE FailureStep(c)
    BY <1>4 DEF FailureStep, FailDatabase, FailProbe, FailPublish, DropCall, End
<1> QED BY <1>1, <1>2, <1>3, <1>4 DEF CallerStep

\* h is the stored plan of its request.
Current(h) == LET r == h.content.request IN
    plan[r] # None /\ h = Hold(r, plan[r], Body(r))

\* Whoever holds a plan holds the stored one after every step.
LEMMA HeldPreserved == IInv /\ [Next]_vars => HeldIsStored'
<1> SUFFICES ASSUME IInv, [Next]_vars, NEW d \in Callers, NEW h, h = held'[d], h # None
             PROVE  Current(h)'
    BY Zenon DEF HeldIsStored, Current
<1> USE DEF IInv, TypeInv, TypeOK
<1>1. CASE h = held[d]
    <2>1. h \in HeldPlans /\ h.content.request \in Requests
        BY <1>1 DEF HeldPlans, Contents
    <2> PICK r \in Requests : r = h.content.request
        BY <2>1
    <2>2. plan[r] # None /\ h = Hold(r, plan[r], Body(r))
        BY <1>1, Zenon DEF HeldIsStored
    <2>3. plan'[r] # None /\ h = Hold(r, plan[r], Body(r))'
        BY <2>2, PlanKept DEF Kept
    <2> QED BY <2>3 DEF Current
<1>2. ASSUME NEW c \in Callers, CallerStep(c) \/ FailureStep(c) PROVE Current(h)'
    <2>1. CASE d = c /\ (PlanSubmission(c) \/ PlanCancellation(c)) /\ h # held[c]
        <3>0. op[c].request \in Requests
            BY <2>1, PlanStep
        <3> PICK r \in Requests : r = op[c].request
            BY <3>0
        <3>1. \A x \in HeldPlans : Adopt(c, x) => h = x
            BY <2>1 DEF Adopt
        <3>2. \A planned, body : Hold(r, planned, body).content.request = r
            BY HoldFields
        <3>3. ASSUME NEW body, h = Hold(r, plan'[r], body), Body(r)' = body, plan'[r] # None
              PROVE  Current(h)'
            <4>1. h.content.request = r
                BY <3>2, <3>3
            <4>2. Hold(r, plan[r], Body(r))' = Hold(r, plan'[r], body)
                BY <3>3 DEF Hold, Content
            <4> QED BY <3>3, <4>1, <4>2 DEF Current
        <3>4. CASE /\ UNCHANGED <<row, draft, plan>> /\ plan[r] # None
                   /\ Hold(r, plan[r], Body(r)) \in HeldPlans
                   /\ Adopt(c, Hold(r, plan[r], Body(r)))
            <4>1. h = Hold(r, plan[r], Body(r))
                BY <3>1, <3>4
            <4>2. plan'[r] = plan[r] /\ Body(r)' = Body(r)
                BY <3>4 DEF Body
            <4> QED BY <3>3, <3>4, <4>1, <4>2
        <3>5. ASSUME NEW new \in PlanRows, NEW opened \in Rows, NEW drafted \in Drafts,
                     Hold(r, new, drafted.body) \in HeldPlans,
                     NewPlan(c, new, opened, drafted)
              PROVE  Current(h)'
            <4>1. h = Hold(r, new, drafted.body)
                BY <3>1, <3>5 DEF NewPlan
            <4>2. plan'[r] = new /\ new # None /\ draft'[r] = drafted /\ drafted # None
                BY <3>5, NoRecordAssumption DEF NewPlan
            <4>3. Body(r)' = drafted.body
                BY <4>2 DEF Body
            <4> QED BY <3>3, <4>1, <4>2, <4>3
        <3>6. (Goto(c, "reread") \/ \E x \in Answers : End(c, x)) => h \in {held[c], None}
            BY <2>1 DEF Goto, End
        <3> QED BY <2>1, <3>4, <3>5, <3>6, PlanStep
    <2>2. held'[c] = None \/ held'[c] = held[c] \/ PlanSubmission(c) \/ PlanCancellation(c)
        BY <1>2, HeldStep
    <2>3. d # c => held'[d] = held[d]
        BY <1>2, OneCaller DEF CallerMoves
    <2> QED BY <1>1, <2>1, <2>2, <2>3
<1>3. ASSUME NEW r \in Requests, NEW body \in Texts, Edit(r, body) PROVE held' = held
    BY <1>3 DEF Edit, calls
<1>4. ASSUME NEW c \in Calls, SubmitFeedback(c) \/ CancelFeedback(c) \/ ApproveFeedback(c)
      PROVE  held' = held
    BY <1>4 DEF SubmitFeedback, CancelFeedback, ApproveFeedback, Begin
<1>5. BootStep \/ RefuseOpening => held' = held
    BY DEF BootStep, RefuseOpening, ScanPlans, ScanLegacy, RecordError, Opened,
           RecoverPlan, ArchiveLegacy, BootStays
<1>6. ~Crash
    BY DEF Crash
<1>7. (\E p \in Publications : DetachedRename(p)) \/ UNCHANGED vars => held' = held
    BY DEF DetachedRename, vars, calls
<1> QED BY <1>1, <1>2, <1>3, <1>4, <1>5, <1>6, <1>7, BodyTyped
        DEF Next, SaveDraft, ChangeAttachments

-----------------------------------------------------------------------------
\* What a step may do to the directories of publication p: the temporary one is
\* staged, written, taken away or renamed; the final one appears by a rename,
\* and is undone by a crash if it was not synced.
DirectoriesMove(p) ==
    /\ p \in durable => p \in durable'
    /\ \/ temp'[p] \in {None, Partial, temp[p], package[p]}
       \/ \E c \in Callers : /\ pc[c] = "write" /\ p = held[c].publication
                             /\ temp'[p] = held[c].content
    /\ \/ package'[p] = package[p]
       \/ package[p] = None /\ package'[p] = temp[p]
       \/ p \notin durable /\ package'[p] = None

\* Every step moves the directories of a publication in one of these ways.
LEMMA DirectoriesStep ==
    TypeInv /\ [Next]_vars => \A p \in Publications : DirectoriesMove(p)
<1> SUFFICES ASSUME TypeInv, [Next]_vars, NEW p \in Publications PROVE DirectoriesMove(p)
    OBVIOUS
<1> USE DEF TypeInv, TypeOK
<1>1. ASSUME UNCHANGED <<temp, package, durable>> PROVE DirectoriesMove(p)
    BY <1>1 DEF DirectoriesMove
<1>2. ASSUME NEW c \in Callers, CallerStep(c) PROVE DirectoriesMove(p)
    <2>1. CASE Read(c) \/ Preflight(c) \/ Probe(c) \/ Unprobe(c) \/ Reread(c)
               \/ Complete(c) \/ Cleanup(c) \/ NotifyTerminal(c)
        BY <1>1, <2>1 DEF Read, Preflight, Probe, Unprobe, Reread, Complete, Cleanup,
                          NotifyTerminal, disk
    <2>2. CASE PlanSubmission(c) \/ PlanCancellation(c) \/ Lock(c)
        BY <1>1, <2>2, PlanStep DEF Lock, disk
    <2>3. CASE Check(c) \/ Stage(c) \/ SyncParent(c)
        BY <2>3 DEF Check, AcceptExisting, Stage, SyncParent, DirectoriesMove
    <2>4. CASE Write(c)
        BY <2>4 DEF Write, Rescue, AcceptExisting, DirectoriesMove
    <2>5. CASE Rename(c)
        BY <2>5 DEF Rename, Rescue, AcceptExisting, DirectoriesMove
    <2> QED BY <1>2, <2>1, <2>2, <2>3, <2>4, <2>5 DEF CallerStep
<1>3. ASSUME NEW c \in Callers, FailureStep(c) PROVE DirectoriesMove(p)
    <2>1. CASE FailPublish(c)
        BY <2>1 DEF FailPublish, DirectoriesMove
    <2>2. CASE FailDatabase(c) \/ FailProbe(c) \/ DropCall(c)
        BY <1>1, <2>2 DEF FailDatabase, FailProbe, DropCall, disk
    <2> QED BY <1>3, <2>1, <2>2 DEF FailureStep
<1>4. ASSUME NEW q \in Publications, DetachedRename(q) PROVE DirectoriesMove(p)
    BY <1>4 DEF DetachedRename, DirectoriesMove
<1>5. CASE Crash
    BY <1>5 DEF Crash, DirectoriesMove
<1>6. ASSUME NEW r \in Requests, SaveDraft(r) \/ ChangeAttachments(r) PROVE DirectoriesMove(p)
    BY <1>1, <1>6 DEF SaveDraft, ChangeAttachments, Edit, disk
<1>7. ASSUME NEW c \in Calls, SubmitFeedback(c) \/ CancelFeedback(c) \/ ApproveFeedback(c)
      PROVE  DirectoriesMove(p)
    BY <1>1, <1>7 DEF SubmitFeedback, CancelFeedback, ApproveFeedback, Begin, disk
<1>8. CASE BootStep \/ RefuseOpening \/ UNCHANGED vars
    BY <1>1, <1>8 DEF BootStep, RefuseOpening, ScanPlans, ScanLegacy, RecordError, Opened,
                      RecoverPlan, ArchiveLegacy, BootStays, vars, disk
<1> QED BY <1>2, <1>3, <1>4, <1>5, <1>6, <1>7, <1>8 DEF Next

\* A durable package is for ever: no step, error, drop or crash changes it.
THEOREM DurablePackageStaysCorrect == Spec => DurablePackageStays
<1>1. ASSUME TypeInv, [Next]_vars, NEW p \in Publications,
             p \in durable, package[p] # None
      PROVE  p \in durable' /\ package'[p] = package[p]
    BY <1>1, DirectoriesStep DEF DirectoriesMove
<1>2. TypeInv /\ [Next]_vars =>
          [\A p \in Publications : p \in durable /\ package[p] # None =>
               p \in durable' /\ package'[p] = package[p]]_vars
    BY <1>1
<1> QED BY <1>2, TypeInductive, PTL DEF Spec, DurablePackageStays

\* Directories hold only what their plans stand for, after every step.
LEMMA DiskPreserved == IInv /\ [Next]_vars => DiskInv'
<1> SUFFICES ASSUME IInv, [Next]_vars, NEW p \in Publications
             PROVE  Stored(p, temp[p])' /\ Stored(p, package[p])'
    BY DEF DiskInv
<1> USE DEF IInv, TypeInv, TypeOK
<1>1. ASSUME NEW found \in Contents \cup {None, Partial}, Stored(p, found)
      PROVE  Stored(p, found)'
    <2> SUFFICES ASSUME found \notin {None, Partial} PROVE Stored(p, found)'
        BY DEF Stored
    <2> PICK r \in Requests : r = found.request
        BY DEF Contents
    <2>1. /\ plan[r] # None /\ plan[r].publication = p
          /\ found = Content(r, plan[r], Body(r))
        BY <1>1 DEF Stored
    <2>2. Kept(r)
        BY PlanKept, SMTT(30)
    <2> QED BY <2>1, <2>2 DEF Kept, Stored
<1>2. ASSUME NEW c \in Callers, pc[c] = "write", p = held[c].publication
      PROVE  held[c].content \in Contents /\ Stored(p, held[c].content)
    <2>1. held[c] # None /\ held[c].content \in Contents
        BY <1>2, CallerTyped DEF CallersInv, Holding, Publishing
    <2> PICK r \in Requests : r = held[c].content.request
        BY <2>1 DEF Contents
    <2>2. /\ plan[r] # None
          /\ held[c].publication = plan[r].publication
          /\ held[c].content = Content(r, plan[r], Body(r))
        BY <2>1, HeldFacts
    <2> QED BY <1>2, <2>1, <2>2 DEF Stored
<1>3. /\ temp[p] \in Contents \cup {None, Partial} /\ package[p] \in Contents \cup {None, Partial}
      /\ Stored(p, temp[p]) /\ Stored(p, package[p])
      /\ Stored(p, None) /\ Stored(p, Partial)
    BY DEF DiskInv, Stored
<1>4. DirectoriesMove(p)
    BY DirectoriesStep
<1>5. \E found \in Contents \cup {None, Partial} : temp'[p] = found /\ Stored(p, found)
    BY <1>2, <1>3, <1>4 DEF DirectoriesMove
<1>6. \E found \in Contents \cup {None, Partial} : package'[p] = found /\ Stored(p, found)
    BY <1>3, <1>4 DEF DirectoriesMove
<1>7. Stored(p, temp[p])'
    <2> PICK found \in Contents \cup {None, Partial} : temp'[p] = found /\ Stored(p, found)
        BY <1>5
    <2> QED BY <1>1 DEF Stored
<1>8. Stored(p, package[p])'
    <2> PICK found \in Contents \cup {None, Partial} : package'[p] = found /\ Stored(p, found)
        BY <1>6
    <2> QED BY <1>1 DEF Stored
<1> QED BY <1>7, <1>8

\* What one caller may rely on.
StepsOf(c, p, content) ==
    /\ pc[c] \in Publishing => publishLock = c
    /\ pc[c] = "rename" => temp[p] \in {None, content}
    /\ pc[c] = "sync" => package[p] = content
    /\ pc[c] = "complete" => package[p] = content /\ p \in durable
    /\ pc[c] = "cleanup" => result[content.request] # None

\* Only the holder of publish_lock touches a directory or gives the lock away,
\* and a result that was recorded stays.
LEMMA PublisherStep ==
    ASSUME IInv, NEW c \in Callers, CallerStep(c) \/ FailureStep(c)
    PROVE  /\ \/ pc[c] \in Publishing
              \/ UNCHANGED <<temp, package>>
           /\ \/ publishLock \in {None, c}
              \/ publishLock' = publishLock
           /\ \A r \in Requests : result[r] # None => result'[r] # None
<1> USE DEF IInv, TypeInv, TypeOK, Publishing
<1>1. CASE Read(c) \/ Preflight(c) \/ Probe(c) \/ Unprobe(c) \/ Reread(c)
    BY <1>1 DEF Read, Preflight, Probe, Unprobe, Reread, disk, database
<1>2. CASE PlanSubmission(c) \/ PlanCancellation(c)
    BY <1>2, PlanStep DEF disk
<1>3. CASE Lock(c)
    BY <1>3 DEF Lock, disk, database
<1>4. CASE Check(c) \/ Stage(c) \/ Write(c) \/ Rename(c) \/ SyncParent(c)
    BY <1>4 DEF Check, Stage, Write, Rename, SyncParent, StepsInv, database
<1>5. CASE Complete(c)
    <2>1. /\ UNCHANGED <<disk, publishLock>>
          /\ held[c].content.request \in Requests /\ held[c].publication \in Publications
          /\ result' = result \/ result' = [result EXCEPT ![held[c].content.request] =
                                                             held[c].publication]
        BY <1>5, CompleteStep, CallerTyped DEF Complete, Holding
    <2>2. \A r \in Requests : result[r] # None => result'[r] # None
        BY <2>1, NoneAssumption
    <2> QED BY <2>1, <2>2, Zenon DEF disk
<1>6. CASE Cleanup(c) \/ NotifyTerminal(c)
    BY <1>6 DEF Cleanup, NotifyTerminal, disk, database
<1>7. CASE FailureStep(c)
    BY <1>7 DEF FailureStep, FailDatabase, FailProbe, FailPublish, DropCall, Unlock,
                disk, database
<1> QED BY <1>1, <1>2, <1>3, <1>4, <1>5, <1>6, <1>7 DEF CallerStep

\* Every caller may rely on as much after every step.
LEMMA StepsPreserved == IInv /\ [Next]_vars => StepsInv'
<1> SUFFICES ASSUME IInv, [Next]_vars PROVE StepsInv'
    OBVIOUS
<1> USE DEF IInv, TypeInv, TypeOK
<1>0. /\ \A d \in Callers : pc[d] \in Holding =>
             /\ held[d].publication \in Publications
             /\ held[d].content \in Contents
             /\ held[d].content.request \in Requests
             /\ held[d].content # None
      /\ \A d \in Callers : StepsOf(d, held[d].publication, held[d].content)
    BY CallerTyped, NoRecordAssumption DEF StepsInv, StepsOf
<1>1. ASSUME \A d \in Callers : StepsOf(d, held[d].publication, held[d].content)'
      PROVE  StepsInv'
    BY <1>1 DEF StepsInv, StepsOf
<1>2. ASSUME NEW d \in Callers, pc'[d] = pc[d], held'[d] = held[d],
             UNCHANGED <<temp, package>>, publishLock = d => publishLock' = d,
             durable \subseteq durable',
             \A r \in Requests : result[r] # None => result'[r] # None
      PROVE  StepsOf(d, held[d].publication, held[d].content)'
    BY <1>0, <1>2 DEF StepsOf, Holding, Publishing
<1>3. ASSUME NEW c \in Callers, CallerStep(c) \/ FailureStep(c),
             NEW d \in Callers \ {c}
      PROVE  StepsOf(d, held[d].publication, held[d].content)'
    <2>1. pc'[d] = pc[d] /\ held'[d] = held[d]
        BY <1>3, OneCaller DEF CallerMoves
    <2>2. durable \subseteq durable'
        BY DirectoriesStep DEF DirectoriesMove
    <2>3. d # None
        BY NoneAssumption
    <2>4. /\ publishLock = d => publishLock' = d
          /\ publishLock = d \/ pc[d] \notin Publishing
          /\ pc[c] \in Publishing => publishLock = c
          /\ \A r \in Requests : result[r] # None => result'[r] # None
        BY <1>0, <1>3, <2>3, PublisherStep DEF StepsOf
    <2>5. CASE UNCHANGED <<temp, package>>
        BY <1>2, <2>1, <2>2, <2>4, <2>5
    <2>6. CASE pc[c] \in Publishing
        <3>1. pc[d] \notin Publishing
            BY <2>4, <2>6
        <3>2. ASSUME pc[d] = "complete"
              PROVE  LET p == held[d].publication IN
                     package'[p] = held[d].content /\ p \in durable'
            <4> PICK p \in Publications : p = held[d].publication
                BY <1>0, <3>2 DEF Holding
            <4>1. package[p] = held[d].content /\ package[p] # None /\ p \in durable
                BY <1>0, <3>2 DEF StepsOf, Holding
            <4>2. DirectoriesMove(p)
                BY DirectoriesStep
            <4> QED BY <4>1, <4>2 DEF DirectoriesMove
        <3> QED BY <1>0, <2>1, <2>4, <3>1, <3>2 DEF StepsOf, Publishing, Holding
    <2> QED BY <1>3, <2>5, <2>6, PublisherStep
<1>4. ASSUME NEW c \in Callers, CallerStep(c) \/ FailureStep(c)
      PROVE  StepsOf(c, held[c].publication, held[c].content)'
    <2>1. /\ \A step \in Running : Goto(c, step) => pc'[c] = step /\ held'[c] = held[c]
          /\ \A x : End(c, x) => pc'[c] \in {"idle", "record", "done"}
          /\ \A h : Adopt(c, h) => pc'[c] = "lock"
        BY DEF Goto, End, Adopt
    <2>2. pc'[c] \in {"idle", "record", "done", "lock", "preflight", "probe", "unprobe", "plan",
                      "reread", "notify"}
              => StepsOf(c, held[c].publication, held[c].content)'
        BY DEF StepsOf, Publishing
    <2> USE DEF Running, Publishing, Holding
    <2>3. CASE Read(c) \/ Preflight(c) \/ Probe(c) \/ Unprobe(c) \/ Reread(c)
               \/ Cleanup(c) \/ NotifyTerminal(c)
        BY <2>1, <2>2, <2>3 DEF Read, Preflight, Probe, Unprobe, Reread, RefuseTerminal,
                                Cleanup, NotifyTerminal
    <2>4. CASE PlanSubmission(c) \/ PlanCancellation(c)
        BY <2>1, <2>2, <2>4, PlanStep DEF NewPlan
    <2>5. CASE Lock(c)
        BY <2>1, <2>5 DEF Lock, StepsOf
    <2>6. CASE Check(c)
        BY <1>0, <2>1, <2>2, <2>6 DEF Check, AcceptExisting, StepsOf
    <2>7. CASE Stage(c)
        BY <1>0, <2>1, <2>7 DEF Stage, StepsOf
    <2>8. CASE Write(c)
        BY <1>0, <2>1, <2>2, <2>8 DEF Write, Rescue, AcceptExisting, StepsOf
    <2>9. CASE Rename(c)
        BY <1>0, <2>1, <2>2, <2>9 DEF Rename, Rescue, AcceptExisting, StepsOf
    <2>10. CASE SyncParent(c)
        BY <1>0, <2>1, <2>10 DEF SyncParent, StepsOf
    <2>11. CASE Complete(c)
        <3>1. CASE Goto(c, "cleanup")
            <4>1. /\ pc'[c] = "cleanup" /\ held'[c] = held[c]
                  /\ result' = [result EXCEPT ![held[c].content.request] = held[c].publication]
                BY <2>1, <2>11, <3>1, CompleteStep
            <4>2. /\ held[c].content.request \in Requests
                  /\ held[c].publication \in Publications
                BY <1>0, <2>11 DEF Complete
            <4> QED BY <4>1, <4>2, NoneAssumption DEF StepsOf
        <3>2. CASE \E x : End(c, x)
            BY <2>1, <2>2, <3>2
        <3> QED BY <2>11, <3>1, <3>2 DEF Complete
    <2>12. CASE FailureStep(c)
        BY <2>1, <2>2, <2>12 DEF FailureStep, FailDatabase, FailProbe, FailPublish, DropCall
    <2> QED BY <1>4, <2>3, <2>4, <2>5, <2>6, <2>7, <2>8, <2>9, <2>10, <2>11, <2>12
            DEF CallerStep
<1>5. ASSUME NEW p \in Publications, DetachedRename(p) PROVE StepsInv'
    <2> SUFFICES ASSUME NEW d \in Callers
                 PROVE  StepsOf(d, held[d].publication, held[d].content)'
        BY <1>1
    <2>1. /\ UNCHANGED <<pc, held, publishLock, durable, result>>
          /\ \A q \in Publications : temp'[q] \in {temp[q], None}
          /\ \A q \in Publications : package[q] # None => package'[q] = package[q]
        BY <1>5 DEF DetachedRename, calls, database
    <2> QED BY <1>0, <2>1 DEF StepsOf, Publishing, Holding
<1>6. ASSUME UNCHANGED <<pc, held, temp, package, publishLock, durable, result>> PROVE StepsInv'
    BY <1>1, <1>2, <1>6
<1>7. ASSUME NEW r \in Requests, SaveDraft(r) \/ ChangeAttachments(r) PROVE StepsInv'
    BY <1>6, <1>7 DEF SaveDraft, ChangeAttachments, Edit, disk, calls
<1>8. ASSUME NEW c \in Calls, SubmitFeedback(c) \/ CancelFeedback(c) \/ ApproveFeedback(c)
      PROVE  StepsInv'
    <2>1. /\ UNCHANGED <<held, temp, package, publishLock, durable, result>>
          /\ c \in Callers /\ pc'[c] \in {"read", "notify", "done"}
          /\ \A d \in Callers \ {c} : pc'[d] = pc[d]
        BY <1>8, ZenonT(60) DEF SubmitFeedback, CancelFeedback, ApproveFeedback, Begin,
                                disk, database, Callers
    <2>2. StepsOf(c, held[c].publication, held[c].content)'
        BY <2>1 DEF StepsOf, Publishing
    <2> QED BY <1>1, <1>2, <2>1, <2>2
<1>9. CASE Crash
    <2>1. \A d \in Callers : pc'[d] \in {"idle", "done"}
        BY <1>9 DEF Crash
    <2>2. ASSUME NEW d \in Callers PROVE StepsOf(d, held[d].publication, held[d].content)'
        BY <2>1 DEF StepsOf, Publishing
    <2> QED BY <1>1, <2>2
<1>10. ASSUME NEW r \in Requests, RecoverPlan(r) \/ ArchiveLegacy(r) PROVE StepsInv'
    <2>1. /\ UNCHANGED <<held, temp, package, publishLock, durable, result>>
          /\ Boot \in Callers /\ pc'[Boot] = "preflight"
          /\ \A d \in Callers \ {Boot} : pc'[d] = pc[d]
        BY <1>10 DEF RecoverPlan, ArchiveLegacy, BootStays, disk, database, Callers
    <2>2. StepsOf(Boot, held[Boot].publication, held[Boot].content)'
        BY <2>1 DEF StepsOf, Publishing
    <2> QED BY <1>1, <1>2, <2>1, <2>2
<1>11. CASE ScanPlans \/ ScanLegacy \/ RecordError \/ Opened \/ RefuseOpening \/ UNCHANGED vars
    <2>1. CASE ScanPlans \/ ScanLegacy \/ Opened \/ UNCHANGED vars
        BY <1>6, <2>1 DEF ScanPlans, ScanLegacy, Opened, BootStays, vars, disk, database,
                          calls
    <2>2. CASE RecordError \/ RefuseOpening
        <3>1. /\ UNCHANGED <<held, temp, package, publishLock, durable, result>>
              /\ Boot \in Callers /\ pc'[Boot] = "idle"
              /\ \A d \in Callers \ {Boot} : pc'[d] = pc[d]
            BY <2>2 DEF RecordError, RefuseOpening, BootStays, disk, database, Callers
        <3>2. StepsOf(Boot, held[Boot].publication, held[Boot].content)'
            BY <3>1 DEF StepsOf, Publishing
        <3> QED BY <1>1, <1>2, <3>1, <3>2
    <2> QED BY <1>11, <2>1, <2>2
<1> QED BY <1>1, <1>3, <1>4, <1>5, <1>7, <1>8, <1>9, <1>10, <1>11 DEF Next, BootStep

\* A result is recorded only by a caller that completes the stored plan.
LEMMA ResultStep ==
    ASSUME TypeInv, [Next]_vars, NEW r \in Requests, result'[r] # result[r]
    PROVE  \E c \in Callers :
              /\ pc[c] = "complete"
              /\ r = held[c].content.request
              /\ result'[r] = held[c].publication
              /\ UNCHANGED disk
<1> USE DEF TypeInv, TypeOK
<1>1. result' # result
    OBVIOUS
<1>2. PICK c \in Callers : Complete(c)
    <2>1. ASSUME NEW q \in Requests, SaveDraft(q) \/ ChangeAttachments(q) PROVE result' = result
        BY <2>1 DEF SaveDraft, ChangeAttachments, Edit
    <2>2. ASSUME NEW c \in Calls, SubmitFeedback(c) \/ CancelFeedback(c) \/ ApproveFeedback(c)
          PROVE  result' = result
        BY <2>2 DEF SubmitFeedback, CancelFeedback, ApproveFeedback, Begin, database
    <2>3. ASSUME NEW c \in Callers, CallerStep(c) \/ FailureStep(c) PROVE Complete(c)
        BY <1>1, <2>3, QuietStep, PlanStep DEF database
    <2>4. ~(BootStep \/ RefuseOpening)
        BY <1>1 DEF BootStep, RefuseOpening, ScanPlans, ScanLegacy, RecordError, Opened,
                    RecoverPlan, ArchiveLegacy, BootStays, database
    <2>5. ~(Crash \/ (\E p \in Publications : DetachedRename(p)) \/ UNCHANGED vars)
        BY <1>1 DEF Crash, DetachedRename, vars, database
    <2> QED BY <1>1, <2>1, <2>2, <2>3, <2>4, <2>5 DEF Next
<1>3. /\ held[c].content.request \in Requests
      /\ result' = [result EXCEPT ![held[c].content.request] = held[c].publication]
      /\ UNCHANGED disk
    BY <1>1, <1>2, CompleteStep
<1> QED BY <1>2, <1>3 DEF Complete

\* Results point to durable packages of published plans after every step.
LEMMA DeliveredPreserved == IInv /\ [Next]_vars => DeliveredIsPlanned'
<1> SUFFICES ASSUME IInv, [Next]_vars PROVE DeliveredIsPlanned'
    OBVIOUS
<1> USE DEF IInv, TypeInv
<1>1. DatabaseInv' /\ TypeOK'
    BY DatabasePreserved, TypePreserved
<1>2. ASSUME NEW r \in Requests, NEW p \in Publications, result'[r] = p
      PROVE  package'[p] = Content(r, plan[r], Body(r))' /\ p \in durable'
    <2>1. /\ plan[r] # None
          /\ package[p] = Content(r, plan[r], Body(r))
          /\ package[p] # None
          /\ p \in durable
        <3>1. CASE result'[r] = result[r]
            <4>1. result[r] # None /\ plan[r] # None
                BY <1>2, <3>1, NoneAssumption DEF DatabaseInv
            <4>2. Content(r, plan[r], Body(r)) \in Contents
                BY <4>1, ContentTyped, BodyTyped DEF TypeOK, ReasonsInv
            <4> QED BY <1>2, <3>1, <4>1, <4>2, NoRecordAssumption DEF DeliveredIsPlanned
        <3>2. CASE result'[r] # result[r]
            <4> PICK c \in Callers : /\ pc[c] = "complete"
                                     /\ r = held[c].content.request
                                     /\ result'[r] = held[c].publication
                BY <3>2, ResultStep
            <4>1. held[c] # None /\ held[c].content \in Contents
                BY CallerTyped DEF Holding, CallersInv
            <4>2. plan[r] # None /\ held[c].content = Content(r, plan[r], Body(r))
                BY <4>1, HeldFacts
            <4>3. package[p] = held[c].content /\ p \in durable
                BY <1>2 DEF StepsInv
            <4> QED BY <4>1, <4>2, <4>3, NoRecordAssumption
        <3> QED BY <3>1, <3>2
    <2>2. package'[p] = package[p] /\ p \in durable'
        BY <2>1, DirectoriesStep DEF DirectoriesMove
    <2>3. Content(r, plan[r], Body(r))' = Content(r, plan[r], Body(r))
        BY <2>1, PlanKept DEF Kept
    <2> QED BY <2>1, <2>2, <2>3
<1>3. ASSUME NEW r \in Requests, result'[r] # None
      PROVE  /\ plan'[r] # None
             /\ plan'[r].state = "published"
             /\ plan'[r].publication = result'[r]
             /\ package'[result'[r]] = Content(r, plan[r], Body(r))'
             /\ result'[r] \in durable'
    <2> PICK p \in Publications : p = result'[r]
        BY <1>1, <1>3 DEF TypeOK
    <2>1. package'[p] = Content(r, plan[r], Body(r))' /\ p \in durable'
        BY <1>2
    <2> QED BY <1>1, <1>3, <2>1 DEF DatabaseInv
<1> QED BY <1>3 DEF DeliveredIsPlanned

\* Draft files outlive the plan after every step.
LEMMA DraftFilesPreserved == IInv /\ [Next]_vars => DraftFilesOutlivePlan'
<1> SUFFICES ASSUME IInv, [Next]_vars, NEW r \in Requests, ~draftFiles'[r]
             PROVE  result'[r] # None
    BY DEF DraftFilesOutlivePlan
<1> USE DEF IInv, TypeInv, TypeOK
<1>1. SUFFICES result[r] # None
    <2>1. CASE result'[r] = result[r]
        BY <1>1, <2>1
    <2>2. CASE result'[r] # result[r]
        BY <2>2, ResultStep, CallerTyped, NoneAssumption DEF Holding
    <2> QED BY <2>1, <2>2
<1>2. CASE draftFiles' = draftFiles
    BY <1>2 DEF DraftFilesOutlivePlan
<1>3. ASSUME NEW c \in Callers, CallerStep(c) \/ FailureStep(c), draftFiles' # draftFiles
      PROVE  result[r] # None
    <2>1. Cleanup(c)
        <3>1. ~(Read(c) \/ Preflight(c) \/ Probe(c) \/ Unprobe(c) \/ Reread(c))
            BY <1>3 DEF Read, Preflight, Probe, Unprobe, Reread, disk
        <3>2. ~(PlanSubmission(c) \/ PlanCancellation(c))
            BY <1>3, PlanStep DEF disk
        <3>3. ~(Lock(c) \/ Check(c) \/ Stage(c) \/ Write(c) \/ Rename(c) \/ SyncParent(c))
            BY <1>3 DEF Lock, Check, Stage, Write, Rename, SyncParent, disk
        <3>4. ~(Complete(c) \/ NotifyTerminal(c))
            BY <1>3 DEF Complete, NotifyTerminal, disk
        <3>5. ~FailureStep(c)
            BY <1>3 DEF FailureStep, FailDatabase, FailProbe, FailPublish, DropCall, disk
        <3> QED BY <1>3, <3>1, <3>2, <3>3, <3>4, <3>5 DEF CallerStep
    <2>2. \/ pc[c] = "cleanup" /\ r = held[c].content.request
          \/ draftFiles'[r] = draftFiles[r]
        BY <2>1 DEF Cleanup
    <2> QED BY <2>2 DEF StepsInv, DraftFilesOutlivePlan
<1>4. ASSUME NEW q \in Requests, SaveDraft(q) \/ ChangeAttachments(q)
      PROVE  draftFiles' = draftFiles
    BY <1>4 DEF SaveDraft, ChangeAttachments, Edit, disk
<1>5. ASSUME NEW c \in Calls, SubmitFeedback(c) \/ CancelFeedback(c) \/ ApproveFeedback(c)
      PROVE  draftFiles' = draftFiles
    BY <1>5 DEF SubmitFeedback, CancelFeedback, ApproveFeedback, Begin, disk
<1>6. BootStep \/ RefuseOpening => draftFiles' = draftFiles
    BY DEF BootStep, RefuseOpening, ScanPlans, ScanLegacy, RecordError, Opened,
           RecoverPlan, ArchiveLegacy, BootStays, disk
<1>7. Crash \/ (\E p \in Publications : DetachedRename(p)) \/ UNCHANGED vars
          => draftFiles' = draftFiles
    BY DEF Crash, DetachedRename, vars, disk
<1> QED BY <1>2, <1>3, <1>4, <1>5, <1>6, <1>7 DEF Next

\* The whole invariant holds in every state the program reaches.
THEOREM Inductive == Spec => []IInv
<1>1. Init => DraftFrozen /\ DatabaseInv /\ HeldIsStored /\ DiskInv /\ StepsInv
                 /\ DeliveredIsPlanned /\ DraftFilesOutlivePlan
    <2> SUFFICES ASSUME Init
                 PROVE  DraftFrozen /\ DatabaseInv /\ HeldIsStored /\ DiskInv /\ StepsInv
                           /\ DeliveredIsPlanned /\ DraftFilesOutlivePlan
        OBVIOUS
    <2>1. \A r \in Requests : /\ plan[r] = None /\ result[r] = None /\ draftFiles[r]
                              /\ row[r].resolution = None
        BY DEF Init
    <2>2. \A c \in Callers : held[c] = None /\ pc[c] = "idle"
        BY DEF Init
    <2>3. \A p \in Publications : temp[p] = None /\ package[p] = None
        BY DEF Init
    <2>4. DatabaseInv
        BY <2>1, NoRecordAssumption DEF DatabaseInv, Resolutions
    <2>5. DiskInv
        BY <2>3 DEF DiskInv, Stored
    <2>6. StepsInv
        BY <2>2 DEF StepsInv, Publishing
    <2> QED BY <2>1, <2>2, <2>4, <2>5, <2>6
            DEF DraftFrozen, HeldIsStored, DeliveredIsPlanned, DraftFilesOutlivePlan
<1>2. TypeInv /\ TypeInv' /\ (DraftFrozen /\ DatabaseInv /\ HeldIsStored /\ DiskInv /\ StepsInv
                                /\ DeliveredIsPlanned /\ DraftFilesOutlivePlan)
        /\ [Next]_vars
        => (DraftFrozen /\ DatabaseInv /\ HeldIsStored /\ DiskInv /\ StepsInv
              /\ DeliveredIsPlanned /\ DraftFilesOutlivePlan)'
    BY DatabasePreserved, HeldPreserved, DiskPreserved, StepsPreserved, DeliveredPreserved,
       DraftFilesPreserved DEF IInv
<1>3. TypeInv /\ (DraftFrozen /\ DatabaseInv /\ HeldIsStored /\ DiskInv /\ StepsInv
                    /\ DeliveredIsPlanned /\ DraftFilesOutlivePlan) => IInv
    BY DEF IInv
<1> QED BY <1>1, <1>2, <1>3, TypeInductive, PTL DEF Spec

-----------------------------------------------------------------------------
\* A draft that was planned does not move, whoever edits, approves or cancels.
THEOREM DraftFrozenCorrect == Spec => []DraftFrozen
<1>1. IInv => DraftFrozen
    BY DEF IInv
<1> QED BY <1>1, Inductive, PTL

\* Concurrent calls, recoveries and archives of one request all publish the
\* one plan that is stored.
THEOREM HeldIsStoredCorrect == Spec => []HeldIsStored
<1>1. IInv => HeldIsStored
    BY DEF IInv
<1> QED BY <1>1, Inductive, PTL

\* There is never a package that no plan names, nor one that says anything else
\* than its plan.
THEOREM OnlyPlannedPackagesCorrect == Spec => []OnlyPlannedPackages
<1>1. IInv => OnlyPlannedPackages
    BY DEF IInv, DiskInv, Stored, OnlyPlannedPackages
<1> QED BY <1>1, Inductive, PTL

\* Every recorded result is a whole package on disk beyond a power loss.
THEOREM DeliveredIsPlannedCorrect == Spec => []DeliveredIsPlanned
<1>1. IInv => DeliveredIsPlanned
    BY DEF IInv
<1> QED BY <1>1, Inductive, PTL

\* The attachment files of a draft go only after its package was delivered.
THEOREM DraftFilesOutlivePlanCorrect == Spec => []DraftFilesOutlivePlan
<1>1. IInv => DraftFilesOutlivePlan
    BY DEF IInv
<1> QED BY <1>1, Inductive, PTL

\* The outcome the row states is the outcome the package states.
THEOREM OutcomeHasPackageCorrect == Spec => []OutcomeHasPackage
<1>1. IInv => OutcomeHasPackage
    <2> SUFFICES ASSUME IInv, NEW r \in Requests PROVE OutcomeHasPackage!(r)
        BY DEF OutcomeHasPackage
    <2>1. ASSUME result[r] # None
          PROVE  /\ package[result[r]].resolution = plan[r].resolution
                 /\ package[result[r]].reason = plan[r].reason
        <3>1. package[result[r]] = Content(r, plan[r], Body(r))
            BY <2>1 DEF IInv, DeliveredIsPlanned
        <3> QED BY <3>1, HoldFields
    <2>2. /\ row[r].resolution = "feedback_submitted" =>
                result[r] # None /\ plan[r].resolution = "feedback_submitted"
          /\ row[r].status = "cancelled" =>
                \/ result[r] = None /\ row[r].resolution = None
                \/ /\ result[r] # None
                   /\ plan[r].resolution = "cancelled"
                   /\ plan[r].reason = row[r].reason
          /\ row[r].resolution = "approved" => result[r] = None
        BY DEF IInv, DatabaseInv
    <2> QED BY <2>1, <2>2
<1> QED BY <1>1, Inductive, PTL

-----------------------------------------------------------------------------
\* The package that was delivered for a request stays while its result does.
LEMMA DeliveredKept ==
    ASSUME IInv, [Next]_vars, NEW r \in Requests, result'[r] = result[r]
    PROVE  Delivered(r)' = Delivered(r)
<1>1. CASE result[r] = None
    BY <1>1 DEF Delivered
<1>2. CASE result[r] # None
    <2> PICK p \in Publications : p = result[r]
        BY <1>2 DEF IInv, TypeInv, TypeOK
    <2>1. plan[r] # None /\ package[p] = Content(r, plan[r], Body(r)) /\ p \in durable
        BY <1>2 DEF IInv, DeliveredIsPlanned
    <2>2. Content(r, plan[r], Body(r)) \in Contents
        BY <2>1, ContentTyped, BodyTyped DEF IInv, TypeInv, TypeOK, ReasonsInv
    <2>3. package[p] # None
        BY <2>1, <2>2, NoRecordAssumption
    <2>4. package'[p] = package[p]
        BY <2>1, <2>3, DirectoriesStep DEF DirectoriesMove, IInv
    <2> QED BY <2>4 DEF Delivered
<1> QED BY <1>1, <1>2

\* What was delivered says what the plan stood for.
DeliveredSays == \A r \in Requests : result[r] # None =>
    \E text \in Texts \cup Reasons, uncooked \in Texts :
       /\ Delivered(r) = [request |-> r, text |-> text, uncooked |-> uncooked,
                          resolution |-> plan[r].resolution, reason |-> plan[r].reason]
       /\ IF plan[r].resolution = "cancelled" THEN text = plan[r].reason
          ELSE text \in Texts

\* It does in every state that satisfies the invariant.
LEMMA DeliveredFields == IInv => DeliveredSays
<1> SUFFICES ASSUME IInv, NEW r \in Requests, result[r] # None
             PROVE  DeliveredSays!(r)!2
    BY DEF DeliveredSays
<1>1. plan[r] \in PlanRows /\ Body(r) \in Texts
    BY BodyTyped DEF IInv, TypeInv, TypeOK, DatabaseInv
<1>2. package[result[r]] = Content(r, plan[r], Body(r))
    BY DEF IInv, DeliveredIsPlanned
<1> DEFINE cooking == plan[r].cooking
           text == IF plan[r].resolution = "cancelled" THEN plan[r].reason
                   ELSE IF cooking = None THEN Body(r) ELSE cooking.text
           uncooked == IF cooking = None THEN Body(r)
                       ELSE IF cooking.uncooked = None THEN Body(r) ELSE cooking.uncooked
<1>3. cooking # None => cooking.text \in Texts /\ cooking.uncooked \in Texts \cup {None}
    BY <1>1, CookingsAssumption DEF PlanRows
<1>4. plan[r].resolution = "cancelled" => plan[r].reason \in Reasons
    BY <1>1, NoRecordAssumption DEF IInv, TypeInv, ReasonsInv, DatabaseInv
<1>5. /\ text \in Texts \cup Reasons /\ uncooked \in Texts
      /\ IF plan[r].resolution = "cancelled" THEN text = plan[r].reason ELSE text \in Texts
    BY <1>1, <1>3, <1>4
<1>6. Content(r, plan[r], Body(r)) =
          [request |-> r, revision |-> plan[r].revision, text |-> text,
           uncooked |-> uncooked, resolution |-> plan[r].resolution, reason |-> plan[r].reason]
    BY DEF Content
<1> HIDE DEF text, uncooked
<1>7. Delivered(r) = [request |-> r, text |-> text, uncooked |-> uncooked,
                      resolution |-> plan[r].resolution, reason |-> plan[r].reason]
    BY <1>2, <1>6 DEF Delivered
<1> QED BY <1>5, <1>7

\* Every step is one of the life cycle's, or invisible in it.
LEMMA StepImplements ==
    IInv /\ IInv' /\ [Next]_vars => [Lifecycle!Next]_Lifecycle!vars
<1> SUFFICES ASSUME IInv, IInv', [Next]_vars
             PROVE  Lifecycle!Next \/ UNCHANGED Lifecycle!vars
    OBVIOUS
<1> DEFINE status == [r \in Requests |-> row[r].status]
           outcome == [r \in Requests |-> row[r].resolution]
           delivered == [r \in Requests |-> Delivered(r)]
<1>1. ASSUME row' = row, result' = result PROVE UNCHANGED Lifecycle!vars
    BY <1>1, DeliveredKept DEF Lifecycle!vars
\* The request a step works on: nothing is seen of the others.
<1>2. ASSUME NEW r \in Requests,
             \A q \in Requests \ {r} : row'[q] = row[q] /\ result'[q] = result[q]
      PROVE  /\ status' = [status EXCEPT ![r] = row'[r].status]
             /\ outcome' = [outcome EXCEPT ![r] = row'[r].resolution]
             /\ delivered' = [delivered EXCEPT ![r] = Delivered(r)']
    BY <1>2, DeliveredKept
<1>3. ASSUME NEW r \in Requests,
             \A q \in Requests \ {r} : row'[q] = row[q],
             result' = result, row'[r].resolution = row[r].resolution,
             row'[r].status = row[r].status \/ (row'[r].status = "in_progress" /\ ~Terminal(r))
      PROVE  Lifecycle!Next \/ UNCHANGED Lifecycle!vars
    <2>1. delivered' = delivered /\ outcome' = outcome
        BY <1>3, DeliveredKept
    <2>2. status' = [status EXCEPT ![r] = row'[r].status]
        BY <1>2, <1>3
    <2>3. CASE row'[r].status = row[r].status
        BY <2>1, <2>2, <2>3 DEF Lifecycle!vars
    <2>4. CASE row'[r].status = "in_progress" /\ ~Terminal(r)
        <3>1. Lifecycle!Open(r)
            BY <2>4 DEF Lifecycle!Open, Terminal, IInv, TypeInv, TypeOK, Rows, Statuses
        <3> QED BY <2>1, <2>2, <2>4, <3>1 DEF Lifecycle!Work, Lifecycle!Next
    <2> QED BY <1>3, <2>3, <2>4
<1>4. ASSUME NEW r \in Requests, NEW body \in Texts, Edit(r, body)
      PROVE  Lifecycle!Next \/ UNCHANGED Lifecycle!vars
    BY <1>3, <1>4 DEF Edit, Editable, IInv, TypeInv, TypeOK, Rows
<1>5. ASSUME NEW c \in Calls, ApproveFeedback(c)
      PROVE  Lifecycle!Next \/ UNCHANGED Lifecycle!vars
    <2> PICK r \in Requests : ApproveFeedback(c)!(r)
        BY <1>5 DEF ApproveFeedback
    <2>1. CASE row' = row
        BY <1>1, <2>1
    <2>2. CASE /\ ~Terminal(r) /\ r \in Finishable
               /\ row' = [row EXCEPT ![r].status = "completed", ![r].resolution = "approved",
                                     ![r].revision = @ + 1]
        <3>1. /\ row'[r].status = "completed" /\ row'[r].resolution = "approved"
              /\ \A q \in Requests \ {r} : row'[q] = row[q]
              /\ Lifecycle!Open(r)
            BY <2>2 DEF Lifecycle!Open, Terminal, IInv, TypeInv, TypeOK, Rows, Statuses
        <3>2. delivered' = delivered
            BY DeliveredKept
        <3>3. Lifecycle!Approve(r)
            BY <1>2, <2>2, <3>1, <3>2 DEF Lifecycle!Approve
        <3> QED BY <3>3 DEF Lifecycle!Next
    <2> QED BY <2>1, <2>2
<1>6. ASSUME NEW c \in Callers, CallerStep(c) \/ FailureStep(c)
      PROVE  Lifecycle!Next \/ UNCHANGED Lifecycle!vars
    <2>1. CASE PlanSubmission(c) \/ PlanCancellation(c)
        <3>0. op[c].request \in Requests /\ result' = result
            BY <2>1, PlanStep DEF IInv
        <3> PICK r \in Requests : r = op[c].request
            BY <3>0
        <3>1. CASE row' = row
            BY <1>1, <3>0, <3>1
        <3>2. ASSUME NEW new \in PlanRows, NEW opened \in Rows, NEW drafted \in Drafts,
                     NewPlan(c, new, opened, drafted)
              PROVE  Lifecycle!Next \/ UNCHANGED Lifecycle!vars
            <4>1. /\ \A q \in Requests \ {r} : row'[q] = row[q]
                  /\ row'[r].resolution = row[r].resolution
                  /\ \/ row'[r].status = row[r].status
                     \/ row'[r].status = "in_progress" /\ ~Terminal(r)
                BY <3>2 DEF NewPlan, Terminal, IInv, TypeInv, TypeOK
            <4> QED BY <1>3, <3>0, <4>1
        <3> QED BY <2>1, <3>1, <3>2, PlanStep DEF IInv
    <2>2. CASE Complete(c) /\ ~UNCHANGED <<row, plan, result>>
        <3> PICK content : content = held[c].content
            OBVIOUS
        <3> PICK r \in Requests : r = content.request
            BY <2>2, CompleteStep DEF IInv
        <3>1. /\ SamePlan(c) /\ Endable(c)
              /\ row[r].status # "completed"
              /\ row[r].status = "cancelled" =>
                    content.resolution = "cancelled" /\ result[r] = None
              /\ plan' = [plan EXCEPT ![r].state = "published"]
              /\ result' = [result EXCEPT ![r] = held[c].publication]
              /\ row' = [row EXCEPT ![r] = IF row[r].status = "cancelled" THEN row[r]
                                           ELSE Ended(r, content)]
            BY <2>2, CompleteStep DEF IInv
        <3>2. /\ plan[r] \in PlanRows /\ row[r] \in Rows
              /\ plan[r].resolution = content.resolution
              /\ plan[r].reason = content.reason
              /\ plan[r].publication = held[c].publication
            BY <3>1, SMTT(30) DEF SamePlan, IInv, TypeInv, TypeOK
        <3>3. result'[r] # None /\ plan'[r].resolution = plan[r].resolution
                  /\ plan'[r].reason = plan[r].reason
            BY <3>1, <3>2, NoneAssumption DEF PlanRows, IInv, TypeInv, TypeOK
        <3>4. PICK text \in Texts \cup Reasons, uncooked \in Texts :
                 /\ Delivered(r)' = [request |-> r, text |-> text, uncooked |-> uncooked,
                                     resolution |-> content.resolution, reason |-> content.reason]
                 /\ IF content.resolution = "cancelled" THEN text = content.reason
                    ELSE text \in Texts
            <4>1. DeliveredSays'
                BY DeliveredFields, PTL
            <4> QED BY <3>2, <3>3, <4>1 DEF DeliveredSays
        <3>5. /\ delivered' = [delivered EXCEPT ![r] =
                                  [request |-> r, text |-> text, uncooked |-> uncooked,
                                   resolution |-> content.resolution,
                                   reason |-> content.reason]]
              /\ status' = [status EXCEPT ![r] = row'[r].status]
              /\ outcome' = [outcome EXCEPT ![r] = row'[r].resolution]
            <4>1. \A q \in Requests \ {r} : row'[q] = row[q] /\ result'[q] = result[q]
                BY <3>1
            <4> HIDE DEF status, outcome, delivered
            <4> QED BY <1>2, <3>4, <4>1
        <3>6. CASE row[r].status = "cancelled"
            <4>1. content.reason \in Reasons /\ content.resolution = "cancelled"
                BY <3>1, <3>2, <3>6, ZenonT(60) DEF SamePlan, IInv, TypeInv, ReasonsInv
            <4>2. row' = row
                BY <3>1, <3>6 DEF IInv, TypeInv, TypeOK
            <4>3. delivered[r] = None /\ status[r] = "cancelled"
                BY <3>1, <3>6 DEF Delivered
            <4>4. status' = status /\ outcome' = outcome
                BY <4>2
            <4>5. Lifecycle!ArchiveLegacy(r)
                BY <3>4, <3>5, <4>1, <4>3, <4>4
                DEF Lifecycle!ArchiveLegacy, Lifecycle!Cancellation
            <4> QED BY <4>5, Zenon DEF Lifecycle!Next
        <3>7. CASE row[r].status # "cancelled"
            <4>1. /\ row'[r].status = EndStatus(content.resolution)
                  /\ row'[r].resolution = content.resolution
                  /\ status[r] \in {"waiting", "in_progress"}
                  /\ status[r] = "in_progress" \/ content.resolution = "cancelled"
                <5>1. row'[r] = Ended(r, content)
                    BY <3>1, <3>2, <3>7 DEF IInv, TypeInv, TypeOK
                <5>2. status[r] = row[r].status
                    OBVIOUS
                <5>3. row[r].status \in {"waiting", "in_progress"}
                    BY <3>1, <3>2, <3>7 DEF Rows, Statuses
                <5>4. row[r].status = "in_progress" \/ content.resolution = "cancelled"
                    BY <3>1, <3>7 DEF Endable
                <5> HIDE DEF status
                <5> QED BY <5>1, <5>2, <5>3, <5>4 DEF Ended
            <4> HIDE DEF status, outcome, delivered
            <4>2. CASE content.resolution = "cancelled"
                <5>1. content.reason \in Reasons
                    BY <3>1, <3>2, <4>2 DEF SamePlan, IInv, TypeInv, ReasonsInv
                <5>2. /\ status' = [status EXCEPT ![r] = "cancelled"]
                      /\ outcome' = [outcome EXCEPT ![r] = "cancelled"]
                      /\ delivered' = [delivered EXCEPT ![r] =
                             Lifecycle!Cancellation(r, content.reason, uncooked)]
                    BY <3>4, <3>5, <4>1, <4>2 DEF Lifecycle!Cancellation, EndStatus
                <5>3. \E why \in Reasons, u \in Texts :
                         delivered' = [delivered EXCEPT ![r] = Lifecycle!Cancellation(r, why, u)]
                    BY <5>1, <5>2
                <5>4. Lifecycle!Open(r)
                    BY <4>1, Zenon DEF Lifecycle!Open, status
                <5>5. Lifecycle!Cancel(r)
                    BY <5>2, <5>3, <5>4, Zenon DEF Lifecycle!Cancel, status, outcome, delivered
                <5> QED BY <5>5, Zenon DEF Lifecycle!Next
            <4>3. CASE content.resolution # "cancelled"
                <5>1. /\ content.resolution = "feedback_submitted" /\ content.reason = None
                      /\ text \in Texts
                    BY <3>1, <3>2, <3>4, <4>3
                    DEF SamePlan, PlanRows, PlanResolutions, IInv, DatabaseInv
                <5>2. /\ status[r] = "in_progress"
                      /\ status' = [status EXCEPT ![r] = "completed"]
                      /\ outcome' = [outcome EXCEPT ![r] = "feedback_submitted"]
                      /\ \E t, u \in Texts : delivered' = [delivered EXCEPT ![r] =
                             [request |-> r, text |-> t, uncooked |-> u,
                              resolution |-> "feedback_submitted", reason |-> None]]
                    BY <3>5, <4>1, <4>3, <5>1 DEF EndStatus
                <5>3. Lifecycle!Submit(r)
                    BY <5>2 DEF Lifecycle!Submit, status, outcome, delivered
                <5> QED BY <5>3 DEF Lifecycle!Next
            <4> QED BY <4>2, <4>3
        <3> QED BY <3>6, <3>7
    <2> QED BY <1>1, <1>6, <2>1, <2>2, QuietStep DEF database, IInv
<1>7. CASE (\E c \in Calls : SubmitFeedback(c) \/ CancelFeedback(c)) \/ BootStep \/ RefuseOpening
    BY <1>1, <1>7 DEF SubmitFeedback, CancelFeedback, Begin, BootStep, RefuseOpening,
                      ScanPlans, ScanLegacy, RecordError, Opened, RecoverPlan,
                      ArchiveLegacy, BootStays, database
<1>8. CASE Crash \/ (\E p \in Publications : DetachedRename(p)) \/ UNCHANGED vars
    BY <1>1, <1>8 DEF Crash, DetachedRename, vars, database
<1> QED BY <1>4, <1>5, <1>6, <1>7, <1>8, BodyTyped
        DEF Next, SaveDraft, ChangeAttachments, IInv, TypeInv

\* FeedbackPublication implements FeedbackLifecycle: with all its calls, errors,
\* drops and crashes a request still ends once, with one package, as promised.
THEOREM Refinement == Spec => ImplementsLifecycle
<1>1. Init => Lifecycle!Init
    BY DEF Init, Lifecycle!Init, Delivered
<1>2. IInv /\ IInv' /\ [Next]_vars => [Lifecycle!Next]_Lifecycle!vars
    BY StepImplements
<1> QED BY <1>1, <1>2, Inductive, PTL DEF Spec, ImplementsLifecycle, Lifecycle!Spec

-----------------------------------------------------------------------------
\* What c was asked to do has come true: the request has ended that way, with
\* its package recorded, save that a submit is content with an approval.
Achieved(c) ==
    LET r == op[c].request IN
    /\ op[c].kind = "submit" => /\ row[r].status = "completed"
                                /\ result[r] # None \/ row[r].resolution = "approved"
    /\ op[c].kind = "cancel" => row[r].status = "cancelled" /\ result[r] # None
    /\ op[c].kind = "approve" => row[r].resolution = "approved"

\* A completed request was submitted or approved.
CompletedInv == \A r \in Requests :
    row[r].status = "completed" => row[r].resolution \in {"feedback_submitted", "approved"}

\* A call works on what it was asked, and past the commit that has come true.
Asked(c) ==
    /\ pc[c] \in Running \ {"notify"} => op[c].kind \in {"submit", "cancel"}
    /\ pc[c] = "reread" => op[c].kind = "submit"
    /\ pc[c] \in Holding =>
          /\ held[c].content.request = op[c].request
          /\ held[c].content.resolution = "cancelled" <=> op[c].kind = "cancel"
    /\ pc[c] \in {"cleanup", "notify"} => Achieved(c)

AskedInv == \A c \in Calls : Asked(c)

AnswersInv == IInv /\ CompletedInv /\ AskedInv

\* A request that has ended keeps its end, and a result that was recorded stays.
LEMMA EndKept ==
    ASSUME IInv, [Next]_vars, NEW r \in Requests
    PROVE  /\ Terminal(r) => /\ row'[r].status = row[r].status
                             /\ row'[r].resolution = row[r].resolution
           /\ result[r] # None => result'[r] # None
<1> USE DEF IInv, TypeInv, TypeOK
<1> DEFINE Same == /\ row'[r].status = row[r].status
                   /\ row'[r].resolution = row[r].resolution
<1>1. result[r] # None => result'[r] # None
    <2>1. ASSUME result'[r] # result[r] PROVE result'[r] # None
        <3> PICK c \in Callers : pc[c] = "complete" /\ result'[r] = held[c].publication
            BY <2>1, ResultStep
        <3>1. held[c].publication \in Publications
            BY CallerTyped DEF Holding
        <3> QED BY <3>1, NoneAssumption
    <2> QED BY <2>1
<1>2. CASE UNCHANGED database
    BY <1>1, <1>2 DEF database
<1>3. ASSUME NEW q \in Requests, NEW body \in Texts, Edit(q, body), Terminal(r) PROVE Same
    BY <1>3 DEF Edit, Editable
<1>4. ASSUME NEW c \in Calls, ApproveFeedback(c), Terminal(r) PROVE Same
    BY <1>4 DEF ApproveFeedback
<1>5. ASSUME NEW c \in Callers, CallerStep(c) \/ FailureStep(c), ~UNCHANGED database, Terminal(r)
      PROVE  Same
    <2>1. CASE PlanSubmission(c) \/ PlanCancellation(c)
        BY <1>5, <2>1, PlanStep DEF NewPlan, Terminal
    <2>2. CASE Complete(c)
        <3> DEFINE q == held[c].content.request
        <3>1. \/ row' = row
              \/ row' = [row EXCEPT ![q] = row[q]]
              \/ /\ row[q].status \notin {"completed", "cancelled"}
                 /\ row' = [row EXCEPT ![q] = Ended(q, held[c].content)]
            BY <2>2, CompleteStep
        <3> QED BY <1>5, <3>1 DEF Terminal
    <2> QED BY <1>5, <2>1, <2>2, QuietStep
<1>6. BootStep \/ RefuseOpening => UNCHANGED database
    BY DEF BootStep, RefuseOpening, ScanPlans, ScanLegacy, RecordError, Opened,
           RecoverPlan, ArchiveLegacy, BootStays
<1>7. ASSUME NEW c \in Calls, SubmitFeedback(c) \/ CancelFeedback(c) PROVE UNCHANGED database
    BY <1>7 DEF SubmitFeedback, CancelFeedback, Begin
<1>8. Crash \/ (\E p \in Publications : DetachedRename(p)) \/ UNCHANGED vars
          => UNCHANGED database
    BY DEF Crash, DetachedRename, vars
<1>9. Terminal(r) => Same
    BY <1>2, <1>3, <1>4, <1>5, <1>6, <1>7, <1>8, BodyTyped
    DEF Next, SaveDraft, ChangeAttachments
<1> QED BY <1>1, <1>9

\* What has come true for a call stays so.
LEMMA AchievedKept ==
    ASSUME IInv, [Next]_vars, NEW c \in Calls, op[c] \in Ops, op'[c] = op[c], Achieved(c)
    PROVE  Achieved(c)'
<1> PICK r \in Requests : r = op[c].request
    BY DEF Ops
<1>1. /\ Terminal(r) => /\ row'[r].status = row[r].status
                        /\ row'[r].resolution = row[r].resolution
      /\ result[r] # None => result'[r] # None
    BY EndKept
<1>2. op[c].kind \in {"submit", "cancel", "approve"}
    BY DEF Ops
<1>3. Terminal(r)
    BY <1>2 DEF Achieved, Terminal, IInv, DatabaseInv
<1> QED BY <1>1, <1>3 DEF Achieved

\* A request is completed by an approval or by delivering a submission.
LEMMA CompletedPreserved == IInv /\ CompletedInv /\ [Next]_vars => CompletedInv'
<1> SUFFICES ASSUME IInv, CompletedInv, [Next]_vars, NEW r \in Requests,
                    row'[r].status = "completed"
             PROVE  row'[r].resolution \in {"feedback_submitted", "approved"}
    BY DEF CompletedInv
<1> USE DEF CompletedInv, IInv, TypeInv, TypeOK
<1>1. CASE row'[r] = row[r]
    BY <1>1
<1>2. ASSUME NEW q \in Requests, NEW body \in Texts, Edit(q, body) PROVE row'[r] = row[r]
    BY <1>2 DEF Edit, Rows
<1>3. ASSUME NEW c \in Calls, ApproveFeedback(c), row'[r] # row[r]
      PROVE  row'[r].resolution = "approved"
    <2> PICK q \in Requests : ApproveFeedback(c)!(q)
        BY <1>3 DEF ApproveFeedback
    <2> QED BY <1>3 DEF Rows
<1>4. ASSUME NEW c \in Callers, CallerStep(c) \/ FailureStep(c), row'[r] # row[r]
      PROVE  row'[r].resolution = "feedback_submitted"
    <2>1. ~(PlanSubmission(c) \/ PlanCancellation(c))
        BY <1>4, PlanStep DEF NewPlan
    <2>2. Complete(c)
        BY <1>4, <2>1, QuietStep DEF database
    <2> DEFINE content == held[c].content
    <2>3. row'[r] = Ended(r, content)
        <3> PICK q : q = content.request
            OBVIOUS
        <3>1. \/ row' = row
              \/ row' = [row EXCEPT ![q] = IF row[q].status = "cancelled" THEN row[q]
                                           ELSE Ended(q, content)]
            BY <2>2, CompleteStep
        <3>2. q = r /\ row[q].status # "cancelled"
            BY <1>4, <3>1
        <3> QED BY <1>4, <3>1, <3>2
    <2>4. content.resolution \in PlanResolutions
        BY <2>2, CallerTyped DEF Complete, Holding, Contents
    <2> QED BY <2>3, <2>4 DEF Ended, EndStatus, PlanResolutions
<1>5. BootStep \/ RefuseOpening => row' = row
    BY DEF BootStep, RefuseOpening, ScanPlans, ScanLegacy, RecordError, Opened,
           RecoverPlan, ArchiveLegacy, BootStays, database
<1>6. ASSUME NEW c \in Calls, SubmitFeedback(c) \/ CancelFeedback(c) PROVE row' = row
    BY <1>6 DEF SubmitFeedback, CancelFeedback, Begin, database
<1>7. Crash \/ (\E p \in Publications : DetachedRename(p)) \/ UNCHANGED vars => row' = row
    BY DEF Crash, DetachedRename, vars, database
<1> QED BY <1>1, <1>2, <1>3, <1>4, <1>5, <1>6, <1>7, BodyTyped
        DEF Next, SaveDraft, ChangeAttachments

\* A call adopts a plan of the kind and the request it was asked for.
LEMMA AdoptsAsked ==
    ASSUME TypeInv, NEW c \in Callers, PlanSubmission(c) \/ PlanCancellation(c)
    PROVE  \/ Goto(c, "reread") /\ op[c].kind = "submit"
           \/ \E x : End(c, x)
           \/ \E h : /\ Adopt(c, h)
                     /\ h.content.request = op[c].request
                     /\ h.content.resolution = "cancelled" <=> op[c].kind = "cancel"
<1> DEFINE r == op[c].request
<1>1. CASE PlanSubmission(c)
    <2> DEFINE new == [publication |-> Publication(c), revision |-> row[r].revision,
                       digest |-> Body(r), cooking |-> op[c].cooking,
                       resolution |-> "feedback_submitted", reason |-> None,
                       state |-> "preparing"]
    <2>1. new.resolution = "feedback_submitted"
        OBVIOUS
    <2> HIDE DEF new
    <2>2. /\ op[c].kind = "submit"
          /\ \/ Goto(c, "reread")
             \/ \E x : End(c, x)
             \/ \E planned, body : /\ Adopt(c, Hold(r, planned, body))
                                   /\ planned.resolution = "feedback_submitted"
        BY <1>1, <2>1, SMTT(30) DEF PlanSubmission, RefuseTerminal, new
    <2> QED BY <2>2, HoldFields
<1>2. CASE PlanCancellation(c)
    <2> DEFINE reason == CancelReason(c)
               fresh == row[r].revision = 0
               source == IF fresh THEN 1 ELSE row[r].revision
               drafted == IF fresh \/ (row[r].status = "cancelled" /\ draft[r] = None)
                          THEN [body |-> Blank, revision |-> source] ELSE draft[r]
               new == [publication |-> Publication(c), revision |-> source,
                       digest |-> reason, cooking |-> None, resolution |-> "cancelled",
                       reason |-> reason, state |-> "preparing"]
    <2>1. op[c].kind = "cancel"
        BY <1>2 DEF PlanCancellation
    <2>2. new.resolution = "cancelled"
        OBVIOUS
    <2> HIDE DEF reason, source, drafted, new
    <2>3. \/ \E x : End(c, x)
          \/ plan[r].resolution = "cancelled" /\ Adopt(c, Hold(r, plan[r], Body(r)))
          \/ Adopt(c, Hold(r, new, drafted.body))
        <3>1. CASE row[r].status # "completed" /\ plan[r] = None
            BY <1>2, <3>1, Zenon DEF PlanCancellation, reason, source, drafted, new
        <3>2. CASE row[r].status # "completed" /\ plan[r] # None
            BY <1>2, <3>2, Zenon DEF PlanCancellation
        <3>3. CASE row[r].status = "completed"
            BY <1>2, <3>3, Zenon DEF PlanCancellation
        <3> QED BY <3>1, <3>2, <3>3
    <2> QED BY <2>1, <2>2, <2>3, HoldFields
<1> QED BY <1>1, <1>2

\* Past its plan a call is about what it was asked, through every step.
LEMMA AskedPreserved == AnswersInv /\ [Next]_vars => AskedInv'
<1> SUFFICES ASSUME AnswersInv, [Next]_vars, NEW c \in Calls PROVE Asked(c)'
    BY DEF AskedInv
<1> USE DEF AnswersInv, IInv, TypeInv, TypeOK
<1>0. c \in Callers /\ c # Boot /\ Asked(c)
    BY CallersAssumption DEF Callers, AskedInv
<1>1. ASSUME pc'[c] = pc[c], op'[c] = op[c], held'[c] = held[c] PROVE Asked(c)'
    <2>1. pc[c] \in {"cleanup", "notify"} => Achieved(c)'
        BY <1>0, <1>1, CallerTyped, AchievedKept DEF Asked, Running
    <2> QED BY <1>0, <1>1, <2>1 DEF Asked
<1>2. ASSUME pc'[c] \in {"idle", "done"} PROVE Asked(c)'
    BY <1>2 DEF Asked, Running, Holding, Publishing
<1>3. ASSUME NEW r \in Requests, SaveDraft(r) \/ ChangeAttachments(r) PROVE Asked(c)'
    BY <1>1, <1>3 DEF SaveDraft, ChangeAttachments, Edit, calls
<1>4. ASSUME NEW d \in Calls, SubmitFeedback(d) \/ CancelFeedback(d) PROVE Asked(c)'
    <2>1. CASE d # c
        <3>1. pc'[c] = pc[c] /\ op'[c] = op[c] /\ held'[c] = held[c]
            BY <1>0, <1>4, <2>1 DEF SubmitFeedback, CancelFeedback, Begin
        <3> QED BY <1>1, <3>1
    <2>2. CASE d = c
        <3>1. pc'[c] = "read" /\ op'[c].kind \in {"submit", "cancel"}
            BY <1>0, <1>4, <2>2, AskedAreOps DEF SubmitFeedback, CancelFeedback, Begin
        <3> QED BY <3>1 DEF Asked, Running, Holding, Publishing
    <2> QED BY <2>1, <2>2
<1>5. ASSUME NEW d \in Calls, ApproveFeedback(d) PROVE Asked(c)'
    <2>1. CASE d # c
        <3>1. pc'[c] = pc[c] /\ op'[c] = op[c] /\ held'[c] = held[c]
            BY <1>0, <1>5, <2>1 DEF ApproveFeedback
        <3> QED BY <1>1, <3>1
    <2>2. CASE d = c
        <3> PICK r \in Requests : ApproveFeedback(c)!(r)
            BY <1>5, <2>2 DEF ApproveFeedback
        <3>1. op'[c].kind = "approve" /\ op'[c].request = r
            BY <1>0
        <3>2. \/ pc'[c] = "done"
              \/ pc'[c] = "notify" /\ row'[r].resolution = "approved"
            BY <1>0 DEF Rows
        <3> QED BY <1>2, <3>1, <3>2 DEF Asked, Achieved, Running, Holding, Publishing
    <2> QED BY <2>1, <2>2
<1>6. ASSUME NEW d \in Callers, CallerStep(d) \/ FailureStep(d), d # c PROVE Asked(c)'
    BY <1>0, <1>1, <1>6, OneCaller DEF CallerMoves
<1>7. ASSUME CallerStep(c) \/ FailureStep(c) PROVE Asked(c)'
    <2>0. op' = op /\ pc[c] \in Running /\ op[c] \in Ops
        BY <1>0, <1>7, OneCaller, CallerTyped DEF CallerMoves
    <2>1. \A x : End(c, x) => Asked(c)'
        BY <1>0, <1>2 DEF End
    <2>2. ASSUME pc[c] \in Running \ {"notify"}, held'[c] = held[c],
                 pc'[c] \in Running \ {"notify", "cleanup", "reread"},
                 pc'[c] \in Holding => pc[c] \in Holding
          PROVE  Asked(c)'
        BY <1>0, <2>0, <2>2 DEF Asked
    <2>3. ASSUME NEW step, Goto(c, step) PROVE pc'[c] = step /\ held' = held
        BY <1>0, <2>3 DEF Goto
    <2>4. ASSUME Goto(c, "reread"), op[c].kind = "submit" PROVE Asked(c)'
        BY <1>0, <2>0, <2>3, <2>4 DEF Asked, Running, Holding, Publishing
    <2>5. CASE Read(c) \/ Preflight(c) \/ Probe(c) \/ Unprobe(c) \/ Reread(c)
        BY <1>0, <2>1, <2>2, <2>3, <2>4, <2>5
        DEF Read, Preflight, Probe, Unprobe, Reread, RefuseTerminal, Running, Holding, Publishing
    <2>6. CASE PlanSubmission(c) \/ PlanCancellation(c)
        <3>1. ASSUME NEW h, Adopt(c, h), h.content.request = op[c].request,
                     h.content.resolution = "cancelled" <=> op[c].kind = "cancel"
              PROVE  Asked(c)'
            <4>1. pc'[c] = "lock" /\ held'[c] = h
                BY <1>0, <3>1 DEF Adopt
            <4>2. op[c].kind \in {"submit", "cancel"}
                BY <2>6 DEF PlanSubmission, PlanCancellation
            <4> QED BY <2>0, <3>1, <4>1, <4>2 DEF Asked
        <3> QED BY <1>0, <2>1, <2>4, <2>6, <3>1, AdoptsAsked
    <2>7. CASE Lock(c) \/ Check(c) \/ Stage(c) \/ Write(c) \/ Rename(c) \/ SyncParent(c)
        BY <1>0, <2>1, <2>2, <2>3, <2>7, SMTT(30)
        DEF Lock, Check, Stage, Write, Rename, SyncParent, Rescue, AcceptExisting,
            Running, Holding, Publishing
    <2>8. CASE Complete(c)
        <3> DEFINE content == held[c].content
        <3> PICK r \in Requests : r = content.request
            BY <1>0, <2>8, CompleteStep
        <3>1. CASE ~Goto(c, "cleanup")
            BY <2>1, <2>8, <3>1 DEF Complete
        <3>2. CASE Goto(c, "cleanup")
            <4>0. pc'[c] = "cleanup" /\ held' = held
                BY <2>3, <3>2
            <4>1. /\ row[r].status = "cancelled" => content.resolution = "cancelled"
                  /\ result' = [result EXCEPT ![r] = held[c].publication]
                  /\ row' = [row EXCEPT ![r] = IF row[r].status = "cancelled" THEN row[r]
                                               ELSE Ended(r, content)]
                BY <1>0, <2>8, <4>0, CompleteStep
            <4>2. held[c].publication # None /\ result'[r] # None
                <5>1. held[c].publication \in Publications
                    BY <1>0, <2>8, CallerTyped DEF Complete, Holding
                <5> QED BY <4>1, <5>1, NoneAssumption
            <4>3. row'[r].status = EndStatus(content.resolution)
                BY <4>1 DEF Ended, EndStatus
            <4>4. /\ r = op[c].request /\ op[c].kind \in {"submit", "cancel"}
                  /\ content.resolution = "cancelled" <=> op[c].kind = "cancel"
                BY <1>0, <2>8 DEF Complete, Asked, Running, Holding
            <4>5. Achieved(c)'
                BY <2>0, <4>2, <4>3, <4>4 DEF Achieved, EndStatus
            <4> QED BY <2>0, <4>0, <4>4, <4>5 DEF Asked, Running, Holding, Publishing
        <3> QED BY <3>1, <3>2
    <2>9. CASE Cleanup(c)
        <3>1. pc[c] = "cleanup" /\ pc'[c] = "notify" /\ held' = held
            BY <1>0, <2>3, <2>9 DEF Cleanup
        <3>2. Achieved(c)'
            BY <1>0, <2>0, <3>1, AchievedKept DEF Asked
        <3> QED BY <3>1, <3>2 DEF Asked, Running, Holding, Publishing
    <2>10. CASE NotifyTerminal(c)
        BY <2>1, <2>10 DEF NotifyTerminal
    <2>11. CASE FailureStep(c)
        BY <2>1, <2>11 DEF FailureStep, FailDatabase, FailProbe, FailPublish, DropCall
    <2> QED BY <1>7, <2>5, <2>6, <2>7, <2>8, <2>9, <2>10, <2>11 DEF CallerStep
<1>8. CASE BootStep \/ RefuseOpening
    <2>1. op'[c] = op[c] /\ pc'[c] = pc[c] /\ held'[c] = held[c]
        BY <1>0, <1>8 DEF BootStep, RefuseOpening, ScanPlans, ScanLegacy, RecordError,
                          Opened, RecoverPlan, ArchiveLegacy, BootStays
    <2> QED BY <1>1, <2>1
<1>9. CASE Crash
    BY <1>0, <1>2, <1>9 DEF Crash
<1>10. CASE (\E p \in Publications : DetachedRename(p)) \/ UNCHANGED vars
    BY <1>1, <1>10 DEF DetachedRename, vars, calls
<1> QED BY <1>3, <1>4, <1>5, <1>6, <1>7, <1>8, <1>9, <1>10 DEF Next

\* An ok is given only where what was asked has come true.
LEMMA OkAchieved ==
    ASSUME AnswersInv, [Next]_vars, NEW c \in Calls, answer[c] = "none", answer'[c] = "ok"
    PROVE  op[c] \in Ops /\ Achieved(c)
<1> USE DEF AnswersInv, IInv, TypeInv, TypeOK
<1>0. c \in Callers /\ c # Boot /\ Asked(c)
    BY CallersAssumption DEF Callers, AskedInv
<1>1. ASSUME NEW d \in Calls, SubmitFeedback(d) \/ CancelFeedback(d) \/ ApproveFeedback(d)
      PROVE  answer'[c] # "ok"
    BY <1>0, <1>1 DEF SubmitFeedback, CancelFeedback, ApproveFeedback, Begin
<1>2. ASSUME NEW r \in Requests, SaveDraft(r) \/ ChangeAttachments(r) PROVE answer'[c] # "ok"
    BY <1>2 DEF SaveDraft, ChangeAttachments, Edit, calls
<1>3. BootStep \/ RefuseOpening => answer' = answer
    BY DEF BootStep, RefuseOpening, ScanPlans, ScanLegacy, RecordError, Opened,
           RecoverPlan, ArchiveLegacy, BootStays
<1>4. Crash => answer'[c] # "ok"
    BY <1>0 DEF Crash
<1>5. (\E p \in Publications : DetachedRename(p)) \/ UNCHANGED vars => answer' = answer
    BY DEF DetachedRename, vars, calls
<1>6. ASSUME NEW d \in Callers, CallerStep(d) \/ FailureStep(d), Achieved(c) => op[c] \notin Ops
      PROVE  answer'[c] # "ok"
    <2>1. \A step : Goto(d, step) => answer' = answer
        BY DEF Goto
    <2>2. \A x : End(d, x) => answer'[c] = answer[c] \/ (d = c /\ answer'[c] = x)
        BY DEF End
    <2>3. \A h : Adopt(d, h) => answer' = answer
        BY DEF Adopt
    <2>4. d = c => op[c] \in Ops /\ op[c].request \in Requests /\ ~Achieved(c)
        BY <1>6, OneCaller, CallerTyped DEF CallerMoves
    <2>5. d = c /\ pc[c] # "notify" => op[c].kind \in {"submit", "cancel"}
        BY <1>0, <1>6, OneCaller DEF CallerMoves, Asked
    <2>6. CASE Read(d)
        <3>1. CASE d # c \/ ~End(d, "ok")
            BY <2>1, <2>2, <2>6, <3>1 DEF Read
        <3>2. CASE d = c /\ End(d, "ok")
            <4>1. ~End(c, "terminal") /\ ~Goto(c, "preflight")
                BY <1>0, <3>2 DEF End, Goto
            <4> QED BY <2>4, <2>5, <2>6, <3>2, <4>1
                    DEF Read, Achieved, CompletedInv, DatabaseInv
        <3> QED BY <3>1, <3>2
    <2>7. CASE Reread(d)
        <3>1. CASE d # c \/ ~End(d, "ok")
            BY <2>1, <2>2, <2>7, <3>1 DEF Reread
        <3>2. CASE d = c /\ End(d, "ok")
            <4>1. ~End(c, "terminal")
                BY <1>0, <3>2 DEF End
            <4> QED BY <1>0, <2>4, <2>7, <3>2, <4>1
                    DEF Reread, Achieved, Asked, CompletedInv, DatabaseInv
        <3> QED BY <3>1, <3>2
    <2>8. CASE Preflight(d) \/ Probe(d) \/ Unprobe(d)
        BY <2>1, <2>2, <2>8 DEF Preflight, Probe, Unprobe, RefuseTerminal
    <2>9. CASE PlanSubmission(d) \/ PlanCancellation(d)
        BY <2>1, <2>2, <2>3, <2>9, SMTT(60) DEF PlanSubmission, PlanCancellation, RefuseTerminal
    <2>10. CASE Lock(d) \/ Check(d) \/ Stage(d) \/ Write(d) \/ Rename(d) \/ SyncParent(d)
        BY <2>1, <2>2, <2>10, SMTT(30)
        DEF Lock, Check, Stage, Write, Rename, SyncParent, Rescue, AcceptExisting
    <2>11. CASE Complete(d)
        <3>1. CASE d # c \/ ~End(d, "ok")
            BY <2>1, <2>2, <2>11, <3>1 DEF Complete
        <3>2. CASE d = c /\ End(d, "ok")
            <4> DEFINE content == held[c].content
            <4>1. ~End(c, "terminal") /\ ~End(c, "conflict") /\ ~Goto(c, "cleanup")
                BY <1>0, <3>2 DEF End, Goto
            <4>2. /\ row[content.request].status = EndStatus(content.resolution)
                  /\ result[content.request] # None
                BY <2>11, <3>2, <4>1 DEF Complete
            <4>3. /\ content.request = op[c].request
                  /\ content.resolution = "cancelled" <=> op[c].kind = "cancel"
                BY <1>0, <2>11, <3>2 DEF Complete, Asked, Holding
            <4> HIDE DEF content
            <4> QED BY <2>4, <2>5, <2>11, <3>2, <4>2, <4>3 DEF Complete, Achieved, EndStatus
        <3> QED BY <3>1, <3>2
    <2>12. CASE Cleanup(d)
        BY <1>0, <2>1, <2>2, <2>12 DEF Cleanup
    <2>13. CASE NotifyTerminal(d)
        BY <1>0, <2>2, <2>4, <2>13 DEF NotifyTerminal, Asked
    <2>14. CASE FailureStep(d)
        BY <2>2, <2>14 DEF FailureStep, FailDatabase, FailProbe, FailPublish, DropCall
    <2> QED BY <1>6, <2>6, <2>7, <2>8, <2>9, <2>10, <2>11, <2>12, <2>13, <2>14 DEF CallerStep
<1> QED BY <1>1, <1>2, <1>3, <1>4, <1>5, <1>6 DEF Next

\* An ok is the truth: whichever of the racing calls ended the request, a call
\* answers ok only where the request has ended as it asked.
THEOREM OkIsTheOutcomeCorrect == Spec => OkIsTheOutcome
<1>1. Init => CompletedInv /\ AskedInv
    <2> SUFFICES ASSUME Init PROVE CompletedInv /\ AskedInv
        OBVIOUS
    <2>1. \A r \in Requests : row[r].status # "completed"
        BY DEF Init
    <2>2. \A c \in Calls : pc[c] = "idle"
        BY DEF Init, Callers
    <2> QED BY <2>1, <2>2
            DEF CompletedInv, AskedInv, Asked, Running, Holding, Publishing
<1>2. AnswersInv /\ [Next]_vars => CompletedInv' /\ AskedInv'
    BY CompletedPreserved, AskedPreserved DEF AnswersInv
<1>3. AnswersInv /\ [Next]_vars =>
          \A c \in Calls : answer[c] = "none" /\ answer'[c] = "ok" => op[c] \in Ops /\ Achieved(c)
    BY OkAchieved
<1> DEFINE Outcome(c) ==
       LET r == op[c].request IN
       CASE op[c].kind = "submit" ->
                /\ row[r].status = "completed"
                /\ result[r] # None \/ row[r].resolution = "approved"
         [] op[c].kind = "cancel" -> row[r].status = "cancelled" /\ result[r] # None
         [] op[c].kind = "approve" -> row[r].resolution = "approved"
<1>4. \A c \in Calls : op[c] \in Ops /\ Achieved(c) => Outcome(c)
    BY DEF Ops, Achieved
<1>5. AnswersInv /\ [Next]_vars =>
          [\A c \in Calls : answer[c] = "none" /\ answer'[c] = "ok" => Outcome(c)]_vars
    BY <1>3, <1>4
<1> QED BY <1>1, <1>2, <1>5, Inductive, PTL DEF Spec, AnswersInv, OkIsTheOutcome
=============================================================================
