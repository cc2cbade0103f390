------------------------ MODULE DraftWorkspace_proofs ------------------------
(***************************************************************************)
(* For any number of clients, texts, attachments and edits: who may edit   *)
(* shows what is stored, no text is overwritten unseen, rows have their    *)
(* files, and positions differ.                                            *)
(***************************************************************************)
EXTENDS DraftWorkspace, FiniteSetTheorems, WellFoundedInduction, TLAPS

\* What a client knows of the text belongs to the revision it names, and so does
\* what a load in progress has read so far.
ViewInv ==
    \A c \in Clients :
        /\ view[c] # None =>
              /\ view[c].revision <= revision
              /\ view[c].revision = revision =>
                    /\ view[c].body = StoredBody
                    /\ ~view[c].replayed => view[c].attachments = position
        /\ In(c, "attachments") =>
              /\ call[c].revision <= revision
              /\ call[c].revision = revision => call[c].body = StoredBody

\* A call between an attachment's row and its file has the id for itself.
Holds(c) == In(c, "insert") \/ In(c, "unlink")
FileInv ==
    /\ \A i \in Attached : i <= made
    /\ phase # "delivered" => Attached \subseteq disk
    /\ \A c \in Clients : Holds(c) =>
          /\ call[c].id <= made /\ call[c].id \notin Attached
          /\ In(c, "insert") /\ phase # "delivered" => call[c].id \in disk
    /\ \A c, d \in Clients : Holds(c) /\ Holds(d) /\ call[c].id = call[d].id => c = d
    /\ \A i \in disk \ left :
          i \in Attached \/ \E c \in Clients : Holds(c) /\ call[c].id = i

\* Positions differ, and every edit moves the last one by one at most.
PositionInv ==
    /\ \A i, k \in Attached : position[i] = position[k] => i = k
    /\ \A i \in Attached : position[i] < revision
    /\ Cardinality(Attached) <= revision

IInv == TypeOK /\ ViewInv /\ FileInv /\ PositionInv

\* What NoBlindOverwrite says of a step.
NotBlind ==
    StoredBody' # StoredBody =>
        \E c \in Clients : /\ view[c] # None /\ view[c].body = StoredBody
                           /\ view'[c] # view[c] /\ view'[c].body = StoredBody'

-----------------------------------------------------------------------------
\* What the types say of what the variables hold.
Shape ==
    /\ revision \in Nat /\ made \in Nat /\ MaxRevision \in Nat
    /\ StoredBody \in Bodies /\ StoredRevision = revision
    /\ Attached \subseteq Ids /\ Ids \subseteq Nat
    /\ \A i \in Attached : position[i] \in Nat
    /\ \A c \in Clients : view[c] # None =>
          /\ view[c] \in Views /\ view[c].body \in Bodies
          /\ view[c].revision \in 0..MaxRevision
    /\ \A c \in Clients : In(c, "insert") \/ In(c, "unlink") => call[c].id \in Ids
    /\ \A c \in Clients : In(c, "attachments") =>
          call[c].body \in Bodies /\ call[c].revision \in 0..MaxRevision
    /\ \A v \in Views : v # None
    /\ \A k \in Calls : k # None

\* The shape follows from the types.
LEMMA TypesShape == TypeOK => Shape
<1> SUFFICES ASSUME TypeOK PROVE Shape
    OBVIOUS
<1>1. revision \in Nat /\ made \in Nat /\ MaxRevision \in Nat /\ Ids \subseteq Nat
    BY BoundsAssumption DEF TypeOK, Ids
<1>2. StoredBody \in Bodies /\ StoredRevision = revision
    <2>1. draft # None => draft \in [body: Bodies, revision: 0..MaxRevision]
        BY DEF TypeOK
    <2> QED BY <2>1, EmptyAssumption DEF StoredBody, TypeOK
<1>3. Attached \subseteq Ids /\ \A i \in Attached : position[i] \in Nat
    BY BoundsAssumption DEF TypeOK, Positions
<1>4. ASSUME NEW c \in Clients, view[c] # None
      PROVE  /\ view[c] \in Views /\ view[c].body \in Bodies
             /\ view[c].revision \in 0..MaxRevision
    <2>1. view[c] \in Views
        BY <1>4 DEF TypeOK
    <2> QED BY <2>1 DEF Views
<1>5. ASSUME NEW c \in Clients, In(c, "insert") \/ In(c, "unlink")
      PROVE  call[c].id \in Ids
    <2>1. call[c] \in Calls /\ call[c].op \in {"insert", "unlink"}
        BY <1>5 DEF TypeOK, In, Idle
    <2> QED BY <2>1 DEF Calls
<1>6. ASSUME NEW c \in Clients, In(c, "attachments")
      PROVE  call[c].body \in Bodies /\ call[c].revision \in 0..MaxRevision
    <2>1. call[c] \in Calls /\ call[c].op = "attachments"
        BY <1>6 DEF TypeOK, In, Idle
    <2> QED BY <2>1 DEF Calls
<1>7. /\ \A v \in Views : v # None
      /\ \A k \in Calls : k # None
    BY NoneAssumption
<1> QED BY <1>1, <1>2, <1>3, <1>4, <1>5, <1>6, <1>7 DEF Shape

\* What a step does to the calls when it ends that of one client.
Others(c) == \A d \in Clients \ {c} : call'[d] = call[d]
Returned(c) ==
    /\ Others(c) /\ call'[c] = None
    /\ call' \in [Clients -> Calls \cup {None}]

\* What it does when the client goes on with a step of a call.
Called(c, op) ==
    /\ Others(c) /\ call'[c] # None /\ call'[c].op = op
    /\ call' \in [Clients -> Calls \cup {None}]

\* A call that returns leaves no trace.
LEMMA ReturnDoes ==
    ASSUME TypeOK, NEW c \in Clients, Return(c)
    PROVE  Returned(c)
    BY DEF TypeOK, Return, Returned, Others

\* A call goes on under its own name.
LEMMA CallDoes ==
    ASSUME TypeOK, NEW c \in Clients, NEW k \in Calls, call' = [call EXCEPT ![c] = k]
    PROVE  Called(c, k.op) /\ call'[c] = k
    BY NoneAssumption DEF TypeOK, Called, Others

\* An edit ends by loading what is stored.
LEMMA LoadDoes ==
    ASSUME TypeOK, NEW c \in Clients, Load(c)
    PROVE  Called(c, "draft")
<1>1. [op |-> "draft"] \in Calls
    BY DEF Calls
<1> QED BY <1>1, CallDoes DEF Load

\* What a step does to the views when it changes that of one client.
Viewed(c, body, rev, attachments, replayed) ==
    /\ view'[c] \in Views /\ view'[c] # None
    /\ view'[c].body = body /\ view'[c].revision = rev
    /\ view'[c].attachments = attachments /\ view'[c].replayed = replayed
    /\ \A d \in Clients \ {c} : view'[d] = view[d]
    /\ view' \in [Clients -> Views \cup {None}]

\* What an edit does to the row of the request.
Advanced(body) ==
    /\ phase = "open" /\ phase' = "open"
    /\ revision' = revision + 1 /\ revision' \in 0..MaxRevision
    /\ StoredBody' = body /\ StoredRevision' = revision'
    /\ draft' \in [body: Bodies, revision: 0..MaxRevision]

\* An edit advances both revisions.
LEMMA AdvanceDoes ==
    ASSUME TypeOK, phase = "open", NEW body \in Bodies, Advance(body)
    PROVE  Advanced(body)
<1>1. /\ revision' = revision + 1 /\ revision < MaxRevision /\ phase' = phase
      /\ draft' = [body |-> body, revision |-> revision + 1]
    BY DEF Advance
<1>2. revision + 1 \in 0..MaxRevision
    BY <1>1, BoundsAssumption DEF TypeOK
<1>3. draft' \in [body: Bodies, revision: 0..MaxRevision]
    BY <1>1, <1>2
<1>4. draft' # None
    BY <1>3, NoneAssumption
<1> QED BY <1>1, <1>2, <1>3, <1>4 DEF Advanced, StoredBody, StoredRevision

\* The texts and revisions that a load reads first.
LEMMA LoadDraftDoes ==
    ASSUME TypeOK, NEW c \in Clients, LoadDraft(c)
    PROVE  /\ In(c, "draft") /\ Called(c, "attachments")
           /\ call'[c].body = StoredBody /\ call'[c].revision = revision
           /\ UNCHANGED <<phase, revision, draft, position, disk, view, made, left, crashes>>
<1>1. StoredBody \in Bodies /\ StoredRevision = revision /\ revision \in 0..MaxRevision
    BY TypesShape DEF Shape, TypeOK
<1>2. [op |-> "attachments", body |-> StoredBody, revision |-> StoredRevision] \in Calls
    BY <1>1 DEF Calls
<1>3. call' = [call EXCEPT ![c] = [op |-> "attachments", body |-> StoredBody,
                                   revision |-> StoredRevision]]
    BY DEF LoadDraft
<1>4. /\ Called(c, "attachments")
      /\ call'[c] = [op |-> "attachments", body |-> StoredBody, revision |-> StoredRevision]
    <2> DEFINE k == [op |-> "attachments", body |-> StoredBody, revision |-> StoredRevision]
    <2>1. k.op = "attachments"
        OBVIOUS
    <2>2. k \in Calls /\ call' = [call EXCEPT ![c] = k]
        BY <1>2, <1>3
    <2> HIDE DEF k
    <2>3. Called(c, k.op) /\ call'[c] = k
        BY <2>2, CallDoes
    <2>4. Called(c, "attachments") /\ call'[c] = k
        BY <2>1, <2>3
    <2> QED BY <2>4 DEF k
<1>5. call'[c].body = StoredBody /\ call'[c].revision = revision
    BY <1>1, <1>4
<1> QED BY <1>4, <1>5 DEF LoadDraft, row

\* The attachments complete the view.
LEMMA LoadAttachmentsDoes ==
    ASSUME TypeOK, NEW c \in Clients, LoadAttachments(c)
    PROVE  /\ In(c, "attachments") /\ Returned(c)
           /\ Viewed(c, call[c].body, call[c].revision, position, FALSE)
           /\ UNCHANGED <<phase, revision, draft, position, disk, made, left, crashes>>
<1> DEFINE new == [revision |-> call[c].revision, body |-> call[c].body,
                   attachments |-> position, replayed |-> FALSE]
<1>1. In(c, "attachments")
    BY DEF LoadAttachments
<1>2. call[c].body \in Bodies /\ call[c].revision \in 0..MaxRevision
    BY <1>1, TypesShape DEF Shape
<1>3. position \in UNION {[T -> Positions] : T \in SUBSET Ids}
    BY DEF TypeOK
<1>4. new \in Views /\ new # None
    <2>1. new \in Views
        BY <1>2, <1>3 DEF Views
    <2> QED BY <2>1, NoneAssumption
<1>5. view' = [view EXCEPT ![c] = new]
    BY DEF LoadAttachments
<1>6. /\ view'[c] = new
      /\ \A d \in Clients \ {c} : view'[d] = view[d]
      /\ view' \in [Clients -> Views \cup {None}]
    BY <1>4, <1>5 DEF TypeOK
<1>7. Viewed(c, call[c].body, call[c].revision, position, FALSE)
    BY <1>4, <1>6 DEF Viewed
<1> QED BY <1>1, <1>7, ReturnDoes DEF LoadAttachments, row

\* A look at a path is a call of its own.
LEMMA ResolvePathDoes ==
    ASSUME TypeOK, NEW c \in Clients, NEW i \in Ids, ResolvePath(c, i)
    PROVE  /\ Called(c, "read") /\ call[c] = None
           /\ UNCHANGED <<phase, revision, draft, position, disk, view, made, left, crashes>>
<1> DEFINE k == [op |-> "read", id |-> i, published |-> phase = "delivered"]
<1>1. k \in Calls /\ k.op = "read"
    BY DEF Calls
<1>2. call' = [call EXCEPT ![c] = k]
    BY DEF ResolvePath
<1> HIDE DEF k
<1>3. Called(c, k.op)
    BY <1>1, <1>2, CallDoes
<1> QED BY <1>1, <1>3 DEF ResolvePath, row, Idle

\* A client shows another view.
LEMMA ViewUpdate ==
    ASSUME TypeOK, NEW c \in Clients, NEW new \in Views, view' = [view EXCEPT ![c] = new]
    PROVE  Viewed(c, new.body, new.revision, new.attachments, new.replayed)
<1>1. new # None
    BY NoneAssumption
<1> QED BY <1>1 DEF TypeOK, Viewed

\* A save gives the client the text and the revision it stored.
LEMMA SaveDraftDoes ==
    ASSUME TypeOK, NEW c \in Clients, NEW body \in Bodies, SaveDraft(c, body)
    PROVE  /\ view[c] # None /\ view[c].revision = revision /\ Advanced(body)
           /\ Viewed(c, body, revision + 1, view[c].attachments, view[c].replayed)
           /\ UNCHANGED <<position, disk, call, made, left, crashes>>
<1> DEFINE S == UNION {[T -> Positions] : T \in SUBSET Ids}
           new == [view[c] EXCEPT !.body = body, !.revision = revision + 1]
<1>1. /\ view[c] # None /\ view[c].revision = revision /\ phase = "open"
      /\ UNCHANGED <<position, disk, call, made, left, crashes>>
    BY DEF SaveDraft, Mutable
<1>2. Advanced(body)
    BY <1>1, AdvanceDoes DEF SaveDraft
<1>3. revision + 1 \in 0..MaxRevision
    BY <1>2 DEF Advanced
<1>4. view[c] \in [revision: 0..MaxRevision, body: Bodies, attachments: S, replayed: BOOLEAN]
    BY <1>1, TypesShape DEF Shape, Views
<1>5. view' = [view EXCEPT ![c] = new]
    BY DEF SaveDraft
<1> HIDE DEF S
<1>6. /\ new \in [revision: 0..MaxRevision, body: Bodies, attachments: S, replayed: BOOLEAN]
      /\ new.body = body /\ new.revision = revision + 1
      /\ new.attachments = view[c].attachments /\ new.replayed = view[c].replayed
    BY <1>3, <1>4
<1> HIDE DEF new
<1>7. new \in Views
    BY <1>6 DEF Views, S
<1>8. Viewed(c, new.body, new.revision, new.attachments, new.replayed)
    BY <1>5, <1>7, ViewUpdate
<1> QED BY <1>1, <1>2, <1>6, <1>8

\* A repeated save gives it the stored text and revision, and no attachments.
LEMMA ReplaySaveDoes ==
    ASSUME TypeOK, NEW c \in Clients, ReplaySave(c)
    PROVE  /\ Viewed(c, StoredBody, revision, view[c].attachments, TRUE)
           /\ UNCHANGED <<phase, revision, draft, position, disk, call, made, left, crashes>>
<1> DEFINE S == UNION {[T -> Positions] : T \in SUBSET Ids}
           new == [view[c] EXCEPT !.body = draft.body, !.revision = draft.revision,
                                  !.replayed = TRUE]
<1>1. /\ view[c] # None /\ draft # None
      /\ UNCHANGED <<phase, revision, draft, position, disk, call, made, left, crashes>>
    BY DEF ReplaySave, row
<1>2. /\ draft.body = StoredBody /\ draft.revision = revision /\ revision \in 0..MaxRevision
      /\ StoredBody \in Bodies
    BY <1>1, TypesShape DEF TypeOK, StoredBody, StoredRevision, Shape
<1>3. view[c] \in [revision: 0..MaxRevision, body: Bodies, attachments: S, replayed: BOOLEAN]
    BY <1>1, TypesShape DEF Shape, Views
<1>4. view' = [view EXCEPT ![c] = new]
    BY DEF ReplaySave
<1> HIDE DEF S
<1>5. /\ new \in [revision: 0..MaxRevision, body: Bodies, attachments: S, replayed: BOOLEAN]
      /\ new.body = StoredBody /\ new.revision = revision
      /\ new.attachments = view[c].attachments /\ new.replayed = TRUE
    BY <1>2, <1>3
<1> HIDE DEF new
<1>6. new \in Views
    BY <1>5 DEF Views, S
<1>7. Viewed(c, new.body, new.revision, new.attachments, new.replayed)
    BY <1>4, <1>6, ViewUpdate
<1> QED BY <1>1, <1>5, <1>7

\* A file is written under a fresh id.
LEMMA WriteFileDoes ==
    ASSUME TypeOK, NEW c \in Clients, WriteFile(c)
    PROVE  /\ made + 1 \in Ids /\ made' = made + 1 /\ made' \in 0..MaxIds
           /\ disk' = disk \cup {made + 1} /\ call[c] = None
           /\ Called(c, "insert") /\ call'[c].id = made + 1
           /\ UNCHANGED <<phase, revision, draft, position, view, left, crashes>>
<1>1. made + 1 \in Ids /\ made + 1 \in 0..MaxIds
    BY BoundsAssumption DEF WriteFile, TypeOK, Ids
<1> DEFINE k == [op |-> "insert", id |-> made + 1]
<1>2. k \in Calls /\ k.op = "insert" /\ k.id = made + 1
    BY <1>1 DEF Calls
<1>3. call' = [call EXCEPT ![c] = k]
    BY DEF WriteFile
<1> HIDE DEF k
<1>4. Called(c, k.op) /\ call'[c] = k
    BY <1>2, <1>3, CallDoes
<1>5. Called(c, "insert") /\ call'[c].id = made + 1
    BY <1>2, <1>4
<1> QED BY <1>1, <1>5 DEF WriteFile, row, Idle

\* The attachments are as many as a natural number says.
LEMMA AttachedIsFinite ==
    ASSUME TypeOK
    PROVE  IsFiniteSet(Attached) /\ Cardinality(Attached) \in Nat
<1>1. IsFiniteSet(Ids)
    BY BoundsAssumption, FS_Interval DEF Ids
<1>2. Attached \in SUBSET Ids
    BY DEF TypeOK
<1>3. IsFiniteSet(Attached)
    BY <1>1, <1>2, FS_Subset
<1> QED BY <1>3, FS_CardinalityType

\* A finite set of positions has a greatest one.
LEMMA GreatestPosition ==
    ASSUME NEW n \in Nat, NEW Q, Q \subseteq 0..n, Q # {}
    PROVE  \E p \in Q : \A q \in Q : q <= p
<1> DEFINE T == {n - q : q \in Q}
<1>1. T \subseteq Nat /\ T # {}
    <2>1. \A q \in Q : q \in Int /\ n - q \in Nat
        OBVIOUS
    <2>2. PICK q \in Q : TRUE
        OBVIOUS
    <2>3. n - q \in T
        OBVIOUS
    <2> QED BY <2>1, <2>3, Zenon
<1>2. PICK t \in T : \A u \in T : ~ (<<u, t>> \in OpToRel(<, Nat))
    BY <1>1, NatLessThanWellFounded, WFMin
<1>3. \A u \in T : ~(u < t)
    BY <1>1, <1>2 DEF OpToRel
<1>4. PICK p \in Q : t = n - p
    OBVIOUS
<1>5. ASSUME NEW q \in Q PROVE q <= p
    <2>1. ~(n - q < t)
        BY <1>3
    <2> QED BY <1>4, <2>1
<1> QED BY <1>5

\* The next position is greater than all and not by more than it must.
LEMMA NextPositionFollows ==
    ASSUME TypeOK, PositionInv
    PROVE  /\ NextPosition \in Nat /\ NextPosition <= revision
           /\ \A i \in Attached : position[i] < NextPosition
<1>0. Shape
    BY TypesShape
<1>1. CASE Attached = {}
    BY <1>0, <1>1 DEF NextPosition, Shape
<1>2. CASE Attached # {}
    <2> DEFINE Q == {position[i] : i \in Attached}
               Last(p) == p \in Q /\ \A i \in Attached : position[i] <= p
    <2>1. \A i \in Attached : position[i] \in Positions /\ position[i] \in 0..MaxRevision
        BY <1>0 DEF TypeOK, PositionInv, Shape
    <2>2. PICK p \in Q : \A q \in Q : q <= p
        <3>1. Q \subseteq 0..MaxRevision /\ Q # {}
            BY <1>2, <2>1
        <3> HIDE DEF Q
        <3> QED BY <3>1, BoundsAssumption, GreatestPosition
    <2>3. p \in Positions /\ Last(p)
        BY <2>1, <2>2
    <2>4. Last(CHOOSE q \in Positions : Last(q)) /\ (CHOOSE q \in Positions : Last(q)) \in Positions
        BY <2>3, Zenon
    <2>5. NextPosition = 1 + CHOOSE q \in Positions : Last(q)
        BY <1>2 DEF NextPosition
    <2> HIDE DEF Last
    <2>6. PICK m \in Positions : NextPosition = 1 + m /\ Last(m)
        BY <2>4, <2>5
    <2>7. m \in Nat /\ \E i \in Attached : m = position[i]
        BY <2>6, <1>0, BoundsAssumption DEF Positions, Last
    <2>8. \A i \in Attached : position[i] <= m
        BY <2>6 DEF Last
    <2> QED BY <1>0, <2>6, <2>7, <2>8 DEF PositionInv, Shape
<1> QED BY <1>1, <1>2

\* A row is added behind the others.
LEMMA InsertRowDoes ==
    ASSUME TypeOK, PositionInv, NEW c \in Clients, InsertRow(c)
    PROVE  /\ In(c, "insert") /\ call[c].id \in Ids
           /\ Advanced(StoredBody) /\ Called(c, "draft")
           /\ Attached' = Attached \cup {call[c].id}
           /\ position' \in [Attached' -> Positions]
           /\ \A i \in Attached : position'[i] = position[i]
           /\ call[c].id \notin Attached => position'[call[c].id] = NextPosition
           /\ Cardinality(Attached') <= Cardinality(Attached) + 1
           /\ Cardinality(Attached') \in 0..MaxAttachments
           /\ UNCHANGED <<disk, view, made, left, crashes>>
<1>0. Shape
    BY TypesShape
<1>1. /\ In(c, "insert") /\ phase = "open" /\ Cardinality(Attached) < MaxAttachments
      /\ position' = [i \in Attached \cup {call[c].id} |->
                       IF i \in Attached THEN position[i] ELSE NextPosition]
      /\ UNCHANGED <<disk, view, made, left, crashes>>
    BY DEF InsertRow, Mutable
<1>2. call[c].id \in Ids
    BY <1>0, <1>1 DEF Shape
<1>3. Advanced(StoredBody) /\ Called(c, "draft")
    BY <1>0, <1>1, AdvanceDoes, LoadDoes DEF InsertRow, Shape
<1>4. NextPosition \in Positions
    BY <1>0, NextPositionFollows, BoundsAssumption DEF Positions, TypeOK
<1>5. Attached' = Attached \cup {call[c].id}
    BY <1>1 DEF Attached
<1>6. /\ position' \in [Attached' -> Positions]
      /\ \A i \in Attached : position'[i] = position[i]
      /\ call[c].id \notin Attached => position'[call[c].id] = NextPosition
    <2>1. \A i \in Attached : position[i] \in Positions
        BY DEF TypeOK
    <2> QED BY <1>1, <1>4, <1>5, <2>1
<1>7. /\ Cardinality(Attached') <= Cardinality(Attached) + 1
      /\ Cardinality(Attached') \in 0..MaxAttachments
    <2>1. IsFiniteSet(Attached) /\ Cardinality(Attached) \in Nat
        BY AttachedIsFinite
    <2>2. Cardinality(Attached') \in {Cardinality(Attached), Cardinality(Attached) + 1}
        BY <1>5, <2>1, FS_AddElement
    <2> QED BY <1>1, <2>1, <2>2, BoundsAssumption
<1> QED BY <1>1, <1>2, <1>3, <1>5, <1>6, <1>7

\* A row is taken out, and the others stay where they are.
LEMMA RemoveRowDoes ==
    ASSUME TypeOK, NEW c \in Clients, NEW i \in Ids, RemoveRow(c, i)
    PROVE  /\ i \in Attached /\ call[c] = None
           /\ Advanced(StoredBody) /\ Called(c, "unlink") /\ call'[c].id = i
           /\ Attached' = Attached \ {i}
           /\ position' \in [Attached' -> Positions]
           /\ \A k \in Attached' : position'[k] = position[k]
           /\ Cardinality(Attached') \in Nat /\ Cardinality(Attached') <= Cardinality(Attached)
           /\ UNCHANGED <<disk, view, made, left, crashes>>
<1>0. Shape
    BY TypesShape
<1>1. /\ i \in Attached /\ phase = "open" /\ call[c] = None
      /\ position' = [k \in Attached \ {i} |-> position[k]]
      /\ call' = [call EXCEPT ![c] = [op |-> "unlink", id |-> i]]
      /\ UNCHANGED <<disk, view, made, left, crashes>>
    BY DEF RemoveRow, Mutable, Idle
<1>2. Advanced(StoredBody)
    BY <1>0, <1>1, AdvanceDoes DEF RemoveRow, Shape
<1>3. Called(c, "unlink") /\ call'[c].id = i
    <2> DEFINE k == [op |-> "unlink", id |-> i]
    <2>1. k \in Calls /\ k.op = "unlink" /\ k.id = i
        BY DEF Calls
    <2>2. call' = [call EXCEPT ![c] = k]
        BY <1>1
    <2> HIDE DEF k
    <2>3. Called(c, k.op) /\ call'[c] = k
        BY <2>1, <2>2, CallDoes
    <2> QED BY <2>1, <2>3
<1>4. Attached' = Attached \ {i}
    BY <1>1 DEF Attached
<1>5. position' \in [Attached' -> Positions] /\ \A k \in Attached' : position'[k] = position[k]
    <2>1. \A k \in Attached : position[k] \in Positions
        BY DEF TypeOK
    <2> QED BY <1>1, <1>4, <2>1
<1>6. Cardinality(Attached') \in Nat /\ Cardinality(Attached') <= Cardinality(Attached)
    <2>1. IsFiniteSet(Attached) /\ Cardinality(Attached) \in Nat
        BY AttachedIsFinite
    <2>2. /\ IsFiniteSet(Attached')
          /\ Cardinality(Attached') = Cardinality(Attached) - 1
        BY <1>1, <1>4, <2>1, FS_RemoveElement
    <2>3. Cardinality(Attached') \in Nat
        BY <2>2, FS_CardinalityType
    <2> QED BY <2>1, <2>2, <2>3
<1> QED BY <1>1, <1>2, <1>3, <1>4, <1>5, <1>6

\* The rows change places, or nothing happens.
LEMMA ReorderDoes ==
    ASSUME TypeOK, NEW c \in Clients, NEW order \in Orders, Reorder(c, order)
    PROVE  /\ Called(c, "draft") /\ call[c] = None
           /\ \/ UNCHANGED <<phase, revision, draft, position>>
              \/ /\ Advanced(StoredBody) /\ Attached' = Attached
                 /\ position' = order
                 /\ position' \in [Attached' -> Positions]
                 /\ \A i \in Attached : order[i] \in Nat /\ order[i] < Cardinality(Attached)
                 /\ \A i, k \in Attached : order[i] = order[k] => i = k
           /\ UNCHANGED <<disk, view, made, left, crashes>>
<1>0. Shape
    BY TypesShape
<1>1. /\ phase = "open" /\ call[c] = None /\ Load(c)
      /\ IF InOrder(order) THEN UNCHANGED row
         ELSE position' = order /\ Advance(StoredBody)
      /\ UNCHANGED <<disk, view, made, left, crashes>>
    BY DEF Reorder, Mutable, Idle
<1>2. Called(c, "draft")
    BY <1>1, LoadDoes
<1>3. CASE UNCHANGED row
    BY <1>1, <1>2, <1>3 DEF row
<1>4. CASE position' = order /\ Advance(StoredBody)
    <2>1. Advanced(StoredBody)
        BY <1>0, <1>1, <1>4, AdvanceDoes DEF Shape
    <2>2. order \in [Attached -> 0..(Cardinality(Attached) - 1)]
        BY DEF Orders
    <2>3. Attached' = Attached
        BY <1>4, <2>2 DEF Attached
    <2>4. /\ Cardinality(Attached) \in Nat /\ Cardinality(Attached) <= MaxAttachments
        BY AttachedIsFinite DEF TypeOK
    <2>5. \A i \in Attached : order[i] \in Nat /\ order[i] < Cardinality(Attached)
        BY <2>2, <2>4
    <2>6. \A i \in Attached : order[i] \in Positions
        BY <2>4, <2>5, BoundsAssumption DEF Positions
    <2>7. position' \in [Attached' -> Positions]
        BY <1>4, <2>2, <2>3, <2>6
    <2>8. \A i, k \in Attached : order[i] = order[k] => i = k
        BY DEF Orders
    <2> QED BY <1>1, <1>2, <1>4, <2>1, <2>3, <2>5, <2>7, <2>8
<1> QED BY <1>1, <1>3, <1>4

\* What the rows say stays as long as the rows do.
LEMMA RowKept ==
    ASSUME UNCHANGED <<draft, position>>
    PROVE  /\ StoredBody' = StoredBody /\ StoredRevision' = StoredRevision
           /\ Attached' = Attached
    BY DEF StoredBody, StoredRevision, Attached

\* Opening the workspace starts a load and changes nothing else.
LEMMA OpenWorkspaceDoes ==
    ASSUME TypeOK, NEW c \in Clients, OpenWorkspace(c)
    PROVE  /\ call[c] = None /\ Called(c, "draft")
           /\ UNCHANGED <<phase, revision, draft, position, disk, view, made, left, crashes>>
    BY LoadDoes DEF OpenWorkspace, Idle, row

\* A load that fails ends the call and leaves the view.
LEMMA FailLoadDoes ==
    ASSUME TypeOK, NEW c \in Clients, FailLoad(c)
    PROVE  /\ In(c, "draft") \/ In(c, "attachments")
           /\ Returned(c)
           /\ UNCHANGED <<phase, revision, draft, position, disk, view, made, left, crashes>>
    BY ReturnDoes DEF FailLoad, row

\* So does a reader that has its file.
LEMMA ReadFileDoes ==
    ASSUME TypeOK, NEW c \in Clients, ReadFile(c)
    PROVE  /\ In(c, "read") /\ Returned(c)
           /\ UNCHANGED <<phase, revision, draft, position, disk, view, made, left, crashes>>
    BY ReturnDoes DEF ReadFile, row

\* A file goes, or is left behind.
Dropped(i) ==
    \/ disk' = disk \ {i} /\ left' = left
    \/ left' = left \cup {i} /\ disk' = disk

\* A refused addition gives its file up.
LEMMA RefuseAddDoes ==
    ASSUME TypeOK, NEW c \in Clients, RefuseAdd(c)
    PROVE  /\ In(c, "insert") /\ call[c].id \in Ids /\ Returned(c) /\ Dropped(call[c].id)
           /\ UNCHANGED <<phase, revision, draft, position, view, made, crashes>>
<1>1. In(c, "insert") /\ Returned(c)
    BY ReturnDoes DEF RefuseAdd
<1>2. call[c].id \in Ids
    BY <1>1, TypesShape DEF Shape
<1> QED BY <1>1, <1>2 DEF RefuseAdd, Dropped, row

\* A removal ends with its file.
LEMMA UnlinkDoes ==
    ASSUME TypeOK, NEW c \in Clients, Unlink(c)
    PROVE  /\ In(c, "unlink") /\ call[c].id \in Ids /\ Called(c, "draft")
           /\ Dropped(call[c].id)
           /\ UNCHANGED <<phase, revision, draft, position, view, made, crashes>>
<1>1. In(c, "unlink") /\ Called(c, "draft")
    BY LoadDoes DEF Unlink
<1>2. call[c].id \in Ids
    BY <1>1, TypesShape DEF Shape
<1> QED BY <1>1, <1>2 DEF Unlink, Dropped, row

\* A crash forgets views and calls, and leaves their files.
LEMMA CrashDoes ==
    ASSUME TypeOK, Crash
    PROVE  /\ \A c \in Clients : view'[c] = None /\ call'[c] = None
           /\ view' \in [Clients -> Views \cup {None}]
           /\ call' \in [Clients -> Calls \cup {None}]
           /\ crashes' \in 0..MaxCrashes /\ left' \subseteq Ids /\ left \subseteq left'
           /\ \A c \in Clients : \A i \in disk :
                 (In(c, "insert") \/ In(c, "unlink")) /\ call[c].id = i => i \in left'
           /\ UNCHANGED <<phase, revision, draft, position, disk, made>>
<1>1. /\ view' = [c \in Clients |-> None] /\ call' = [c \in Clients |-> None]
      /\ UNCHANGED <<phase, revision, draft, position, disk, made>>
      /\ crashes < MaxCrashes /\ crashes' = crashes + 1
    BY DEF Crash, row
<1>2. crashes' \in 0..MaxCrashes
    BY <1>1, BoundsAssumption DEF TypeOK
<1>3. disk \subseteq Ids /\ left \subseteq Ids
    BY DEF TypeOK
<1>4. left' = left \cup {i \in disk : \E c \in Clients :
                            (In(c, "insert") \/ In(c, "unlink")) /\ call[c].id = i}
    BY DEF Crash
<1> QED BY <1>1, <1>2, <1>3, <1>4, Zenon

\* The initial state.
LEMMA InitIInv == Init => IInv
<1> SUFFICES ASSUME Init PROVE IInv
    OBVIOUS
<1>1. /\ Attached = {} /\ Cardinality(Attached) = 0
      /\ position \in [Attached -> Positions]
    BY FS_EmptySet DEF Init, Attached
<1>2. revision = 0 /\ revision \in 0..MaxRevision /\ made \in 0..MaxIds /\ crashes \in 0..MaxCrashes
      /\ 0 <= MaxAttachments
    BY BoundsAssumption DEF Init
<1>3. TypeOK
    BY <1>1, <1>2 DEF Init, TypeOK, StoredRevision
<1>4. ViewInv /\ FileInv
    BY <1>1 DEF Init, ViewInv, FileInv, In, Idle, Holds
<1>5. PositionInv
    BY <1>1, <1>2 DEF PositionInv
<1> QED BY <1>3, <1>4, <1>5 DEF IInv

\* Every step keeps the types.
LEMMA TypePreserved == TypeOK /\ PositionInv /\ [Next]_vars => TypeOK'
<1> SUFFICES ASSUME TypeOK, PositionInv, [Next]_vars PROVE TypeOK'
    OBVIOUS
<1>0. Shape
    BY TypesShape
<1> USE DEF TypeOK
<1>1. ASSUME NEW c \in Clients, OpenWorkspace(c) PROVE TypeOK'
    BY <1>1, <1>0, OpenWorkspaceDoes, RowKept DEF Called, Others, Shape
<1>2. ASSUME NEW c \in Clients, LoadDraft(c) PROVE TypeOK'
    BY <1>2, <1>0, LoadDraftDoes, RowKept DEF Called, Others, Shape
<1>3. ASSUME NEW c \in Clients, LoadAttachments(c) PROVE TypeOK'
    BY <1>3, <1>0, LoadAttachmentsDoes, RowKept DEF Returned, Others, Viewed, Shape
<1>4. ASSUME NEW c \in Clients, FailLoad(c) PROVE TypeOK'
    BY <1>4, <1>0, FailLoadDoes, RowKept DEF Returned, Others, Shape
<1>5. ASSUME NEW c \in Clients, NEW i \in Ids, ResolvePath(c, i) PROVE TypeOK'
    BY <1>5, <1>0, ResolvePathDoes, RowKept DEF Called, Others, Shape
<1>6. ASSUME NEW c \in Clients, ReadFile(c) PROVE TypeOK'
    BY <1>6, <1>0, ReadFileDoes, RowKept DEF Returned, Others, Shape
<1>7. ASSUME NEW c \in Clients, NEW body \in Bodies, SaveDraft(c, body) PROVE TypeOK'
    <2>1. Attached' = Attached
        BY <1>7, SaveDraftDoes DEF Attached
    <2>2. draft' \in [body: Bodies, revision: 0..MaxRevision] \cup {None}
        BY <1>7, SaveDraftDoes DEF Advanced
    <2> QED BY <1>7, <2>1, <2>2, SaveDraftDoes DEF Viewed, Advanced
<1>8. ASSUME NEW c \in Clients, ReplaySave(c) PROVE TypeOK'
    BY <1>8, <1>0, ReplaySaveDoes, RowKept DEF Viewed, Shape
<1>9. ASSUME NEW c \in Clients, WriteFile(c) PROVE TypeOK'
    BY <1>9, <1>0, WriteFileDoes, RowKept DEF Called, Others, Shape
<1>10. ASSUME NEW c \in Clients, InsertRow(c) PROVE TypeOK'
    <2>1. draft' \in [body: Bodies, revision: 0..MaxRevision] \cup {None}
        BY <1>10, InsertRowDoes DEF Advanced
    <2>2. Attached' \subseteq Ids
        BY <1>10, InsertRowDoes
    <2>3. Cardinality(Attached') <= MaxAttachments
        BY <1>10, InsertRowDoes, BoundsAssumption
    <2> QED BY <1>10, <2>1, <2>2, <2>3, InsertRowDoes DEF Advanced, Called
<1>11. ASSUME NEW c \in Clients, RefuseAdd(c) PROVE TypeOK'
    BY <1>11, <1>0, RefuseAddDoes, RowKept DEF Returned, Others, Dropped, Shape
<1>12. ASSUME NEW c \in Clients, NEW i \in Ids, RemoveRow(c, i) PROVE TypeOK'
    <2>1. draft' \in [body: Bodies, revision: 0..MaxRevision] \cup {None}
        BY <1>12, RemoveRowDoes DEF Advanced
    <2>2. Attached' \subseteq Ids
        BY <1>12, RemoveRowDoes
    <2>3. Cardinality(Attached') <= MaxAttachments
        <3>1. Cardinality(Attached) \in Nat
            BY AttachedIsFinite
        <3> QED BY <1>12, <3>1, RemoveRowDoes, BoundsAssumption
    <2> QED BY <1>12, <2>1, <2>2, <2>3, RemoveRowDoes DEF Advanced, Called
<1>13. ASSUME NEW c \in Clients, Unlink(c) PROVE TypeOK'
    BY <1>13, <1>0, UnlinkDoes, RowKept DEF Called, Others, Dropped, Shape
<1>14. ASSUME NEW c \in Clients, NEW order \in Orders, Reorder(c, order) PROVE TypeOK'
    BY <1>14, <1>0, ReorderDoes, RowKept DEF Advanced, Called, Others, Shape
<1>15. CASE Plan
    BY <1>15, <1>0, RowKept DEF Plan, row, Shape
<1>16. CASE End
    BY <1>16, <1>0, RowKept DEF End, row, Shape
<1>17. CASE Deliver
    BY <1>17, <1>0, RowKept DEF Deliver, row, Shape
<1>18. CASE CleanupDrafts
    BY <1>18, <1>0, RowKept DEF CleanupDrafts, row, Shape
<1>19. CASE Crash
    BY <1>19, <1>0, CrashDoes, RowKept DEF Shape, Shape
<1>20. CASE UNCHANGED vars
    BY <1>20, RowKept DEF vars, row
<1> QED BY <1>1, <1>2, <1>3, <1>4, <1>5, <1>6, <1>7, <1>8, <1>9, <1>10, <1>11, <1>12,
    <1>13, <1>14, <1>15, <1>16, <1>17, <1>18, <1>19, <1>20 DEF Next, ReadStep, EditStep

\* Every step keeps what the clients know of the text.
LEMMA ViewPreserved == TypeOK /\ PositionInv /\ ViewInv /\ [Next]_vars => ViewInv'
<1> SUFFICES ASSUME TypeOK, PositionInv, ViewInv, [Next]_vars PROVE ViewInv'
    OBVIOUS
<1>0. Shape
    BY TypesShape
<1> USE DEF ViewInv
<1>1. ASSUME NEW c \in Clients, OpenWorkspace(c) PROVE ViewInv'
    BY <1>1, <1>0, OpenWorkspaceDoes, RowKept DEF Called, Others, Shape, In, Idle
<1>2. ASSUME NEW c \in Clients, LoadDraft(c) PROVE ViewInv'
    BY <1>2, <1>0, LoadDraftDoes, RowKept DEF Called, Others, Shape, In, Idle
<1>3. ASSUME NEW c \in Clients, LoadAttachments(c) PROVE ViewInv'
    <2>1. /\ call[c].revision <= revision
          /\ call[c].revision = revision => call[c].body = StoredBody
          /\ StoredBody' = StoredBody /\ position' = position /\ revision' = revision
        BY <1>3, LoadAttachmentsDoes, RowKept
    <2>2. /\ view'[c].revision = call[c].revision /\ view'[c].body = call[c].body
          /\ view'[c].attachments = position /\ ~In(c, "attachments")'
        BY <1>3, LoadAttachmentsDoes DEF Viewed, Returned, In, Idle
    <2>3. \A d \in Clients \ {c} : /\ view'[d] = view[d] /\ call'[d] = call[d]
                                   /\ In(d, "attachments")' <=> In(d, "attachments")
        BY <1>3, LoadAttachmentsDoes DEF Viewed, Returned, Others, In, Idle
    <2> QED BY <2>1, <2>2, <2>3
<1>4. ASSUME NEW c \in Clients, FailLoad(c) PROVE ViewInv'
    BY <1>4, <1>0, FailLoadDoes, RowKept DEF Returned, Others, Shape, In, Idle
<1>5. ASSUME NEW c \in Clients, NEW i \in Ids, ResolvePath(c, i) PROVE ViewInv'
    BY <1>5, <1>0, ResolvePathDoes, RowKept DEF Called, Others, Shape, In, Idle
<1>6. ASSUME NEW c \in Clients, ReadFile(c) PROVE ViewInv'
    BY <1>6, <1>0, ReadFileDoes, RowKept DEF Returned, Others, Shape, In, Idle
<1>7. ASSUME NEW c \in Clients, NEW body \in Bodies, SaveDraft(c, body) PROVE ViewInv'
    BY <1>7, <1>0, SaveDraftDoes, RowKept DEF Viewed, Advanced, Shape, In, Idle
<1>8. ASSUME NEW c \in Clients, ReplaySave(c) PROVE ViewInv'
    <2>1. /\ StoredBody' = StoredBody /\ position' = position /\ revision' = revision
          /\ call' = call
        BY <1>8, ReplaySaveDoes, RowKept
    <2>2. view'[c].revision = revision /\ view'[c].body = StoredBody
        BY <1>8, ReplaySaveDoes DEF Viewed
    <2>3. view'[c].replayed
        <3>1. view'[c].replayed = TRUE
            BY <1>8, ReplaySaveDoes DEF Viewed
        <3> QED BY <3>1, Zenon
    <2>4. \A d \in Clients \ {c} : view'[d] = view[d]
        BY <1>8, ReplaySaveDoes DEF Viewed
    <2>5. revision \in Nat /\ revision <= revision
        BY <1>0 DEF Shape
    <2> QED BY <2>1, <2>2, <2>3, <2>4, <2>5 DEF In, Idle
<1>9. ASSUME NEW c \in Clients, WriteFile(c) PROVE ViewInv'
    BY <1>9, <1>0, WriteFileDoes, RowKept DEF Called, Others, Shape, In, Idle
<1>10. ASSUME NEW c \in Clients, InsertRow(c) PROVE ViewInv'
    BY <1>10, <1>0, InsertRowDoes, RowKept DEF Advanced, Called, Others, Shape, In, Idle
<1>11. ASSUME NEW c \in Clients, RefuseAdd(c) PROVE ViewInv'
    BY <1>11, <1>0, RefuseAddDoes, RowKept DEF Returned, Others, Dropped, Shape, In, Idle
<1>12. ASSUME NEW c \in Clients, NEW i \in Ids, RemoveRow(c, i) PROVE ViewInv'
    BY <1>12, <1>0, RemoveRowDoes, RowKept DEF Advanced, Called, Others, Shape, In, Idle
<1>13. ASSUME NEW c \in Clients, Unlink(c) PROVE ViewInv'
    BY <1>13, <1>0, UnlinkDoes, RowKept DEF Called, Others, Dropped, Shape, In, Idle
<1>14. ASSUME NEW c \in Clients, NEW order \in Orders, Reorder(c, order) PROVE ViewInv'
    BY <1>14, <1>0, ReorderDoes, RowKept DEF Advanced, Called, Others, Shape, In, Idle
<1>15. CASE Plan
    BY <1>15, <1>0, RowKept DEF Plan, row, Shape, In, Idle
<1>16. CASE End
    BY <1>16, <1>0, RowKept DEF End, row, Shape, In, Idle
<1>17. CASE Deliver
    BY <1>17, <1>0, RowKept DEF Deliver, row, Shape, In, Idle
<1>18. CASE CleanupDrafts
    BY <1>18, <1>0, RowKept DEF CleanupDrafts, row, Shape, In, Idle
<1>19. CASE Crash
    BY <1>19, <1>0, CrashDoes, RowKept DEF Shape, Shape, In, Idle
<1>20. CASE UNCHANGED vars
    BY <1>20, RowKept DEF vars, row, In, Idle
<1> QED BY <1>1, <1>2, <1>3, <1>4, <1>5, <1>6, <1>7, <1>8, <1>9, <1>10, <1>11, <1>12,
    <1>13, <1>14, <1>15, <1>16, <1>17, <1>18, <1>19, <1>20 DEF Next, ReadStep, EditStep

\* A step of one client leaves what the others hold.
LEMMA OthersHold ==
    ASSUME NEW c \in Clients, Others(c)
    PROVE  \A d \in Clients \ {c} :
              /\ Holds(d)' <=> Holds(d)
              /\ In(d, "insert")' <=> In(d, "insert")
              /\ call'[d].id = call[d].id
    BY DEF Others, Holds, In, Idle

\* A call that neither makes nor removes a file.
LEMMA HoldsNothing ==
    ASSUME NEW c \in Clients
    PROVE  /\ call[c] = None => ~Holds(c)
           /\ Returned(c) => ~Holds(c)'
           /\ \A op \in {"draft", "attachments", "read"} :
                 /\ In(c, op) => ~Holds(c)
                 /\ Called(c, op) => ~Holds(c)'
    BY DEF Holds, In, Idle, Returned, Called

\* A step of a client that holds nothing before and after it keeps FileInv.
LEMMA FileKept ==
    ASSUME FileInv, NEW c \in Clients, Others(c), ~Holds(c), ~Holds(c)',
           Attached' = Attached, UNCHANGED <<phase, disk, left, made>>
    PROVE  FileInv'
<1>1. \A d \in Clients :
          /\ Holds(d)' <=> Holds(d)
          /\ Holds(d) => d # c
    BY OthersHold
<1>2. \A d \in Clients : Holds(d) =>
          /\ In(d, "insert")' <=> In(d, "insert")
          /\ call'[d].id = call[d].id
    BY <1>1, OthersHold
<1> QED BY <1>1, <1>2 DEF FileInv

\* Every step keeps rows and files together.
LEMMA FilePreserved == TypeOK /\ PositionInv /\ FileInv /\ [Next]_vars => FileInv'
<1> SUFFICES ASSUME TypeOK, PositionInv, FileInv, [Next]_vars PROVE FileInv'
    OBVIOUS
<1>0. Shape
    BY TypesShape
<1>1. ASSUME NEW c \in Clients, OpenWorkspace(c) PROVE FileInv'
    <2>1. Others(c) /\ ~Holds(c) /\ ~Holds(c)'
        BY <1>1, OpenWorkspaceDoes, HoldsNothing DEF Called
    <2>2. Attached' = Attached /\ UNCHANGED <<phase, disk, left, made>>
        BY <1>1, OpenWorkspaceDoes, RowKept
    <2> QED BY <2>1, <2>2, FileKept
<1>2. ASSUME NEW c \in Clients, LoadDraft(c) PROVE FileInv'
    <2>1. Others(c) /\ ~Holds(c) /\ ~Holds(c)'
        BY <1>2, LoadDraftDoes, HoldsNothing DEF Called
    <2>2. Attached' = Attached /\ UNCHANGED <<phase, disk, left, made>>
        BY <1>2, LoadDraftDoes, RowKept
    <2> QED BY <2>1, <2>2, FileKept
<1>3. ASSUME NEW c \in Clients, LoadAttachments(c) PROVE FileInv'
    <2>1. Others(c) /\ ~Holds(c) /\ ~Holds(c)'
        BY <1>3, LoadAttachmentsDoes, HoldsNothing DEF Returned
    <2>2. Attached' = Attached /\ UNCHANGED <<phase, disk, left, made>>
        BY <1>3, LoadAttachmentsDoes, RowKept
    <2> QED BY <2>1, <2>2, FileKept
<1>4. ASSUME NEW c \in Clients, FailLoad(c) PROVE FileInv'
    <2>1. Others(c) /\ ~Holds(c) /\ ~Holds(c)'
        BY <1>4, FailLoadDoes, HoldsNothing DEF Returned
    <2>2. Attached' = Attached /\ UNCHANGED <<phase, disk, left, made>>
        BY <1>4, FailLoadDoes, RowKept
    <2> QED BY <2>1, <2>2, FileKept
<1>5. ASSUME NEW c \in Clients, NEW i \in Ids, ResolvePath(c, i) PROVE FileInv'
    <2>1. Others(c) /\ ~Holds(c) /\ ~Holds(c)'
        BY <1>5, ResolvePathDoes, HoldsNothing DEF Called
    <2>2. Attached' = Attached /\ UNCHANGED <<phase, disk, left, made>>
        BY <1>5, ResolvePathDoes, RowKept
    <2> QED BY <2>1, <2>2, FileKept
<1>6. ASSUME NEW c \in Clients, ReadFile(c) PROVE FileInv'
    <2>1. Others(c) /\ ~Holds(c) /\ ~Holds(c)'
        BY <1>6, ReadFileDoes, HoldsNothing DEF Returned
    <2>2. Attached' = Attached /\ UNCHANGED <<phase, disk, left, made>>
        BY <1>6, ReadFileDoes, RowKept
    <2> QED BY <2>1, <2>2, FileKept
<1>7. ASSUME NEW c \in Clients, NEW body \in Bodies, SaveDraft(c, body) PROVE FileInv'
    <2>1. call' = call /\ Attached' = Attached /\ UNCHANGED <<phase, disk, left, made>>
        BY <1>7, SaveDraftDoes, RowKept DEF Attached, Advanced
    <2> QED BY <2>1 DEF FileInv, Holds, In, Idle
<1>8. ASSUME NEW c \in Clients, ReplaySave(c) PROVE FileInv'
    <2>1. call' = call /\ Attached' = Attached /\ UNCHANGED <<phase, disk, left, made>>
        BY <1>8, ReplaySaveDoes, RowKept DEF Attached, Advanced
    <2> QED BY <2>1 DEF FileInv, Holds, In, Idle
<1>9. ASSUME NEW c \in Clients, WriteFile(c) PROVE FileInv'
    <2>1. Others(c)
        BY <1>9, WriteFileDoes DEF Called
    <2>2. \A d \in Clients \ {c} :
              /\ Holds(d)' <=> Holds(d)
              /\ In(d, "insert")' <=> In(d, "insert")
              /\ call'[d].id = call[d].id
        BY <2>1, OthersHold
    <2>3. /\ ~Holds(c) /\ Holds(c)' /\ In(c, "insert")' /\ call'[c].id = made + 1
          /\ made' = made + 1 /\ made \in Nat /\ disk' = disk \cup {made + 1}
          /\ Attached' = Attached /\ UNCHANGED <<phase, left>>
        BY <1>9, <1>0, WriteFileDoes, RowKept DEF Called, Holds, In, Idle, Shape
    <2>4. /\ \A i \in Attached : i <= made /\ i # made + 1
          /\ \A d \in Clients : Holds(d) => call[d].id <= made /\ call[d].id # made + 1
        <3>1. \A i \in Attached : i \in Nat /\ i <= made
            BY <1>0 DEF FileInv, Shape
        <3>2. \A d \in Clients : Holds(d) => call[d].id \in Nat /\ call[d].id <= made
            BY <1>0 DEF FileInv, Shape, Holds
        <3> QED BY <2>3, <3>1, <3>2
    <2>5. /\ \A i \in Attached' : i <= made'
          /\ \A d \in Clients : Holds(d)' => call'[d].id <= made'
        <3>1. \A i \in Attached : i \in Nat /\ i <= made
            BY <1>0 DEF FileInv, Shape
        <3>2. \A d \in Clients : Holds(d) => call[d].id \in Nat /\ call[d].id <= made
            BY <1>0 DEF FileInv, Shape, Holds
        <3> QED BY <2>2, <2>3, <3>1, <3>2
    <2> QED BY <2>2, <2>3, <2>4, <2>5 DEF FileInv
<1>10. ASSUME NEW c \in Clients, InsertRow(c) PROVE FileInv'
    <2>1. Others(c)
        BY <1>10, InsertRowDoes DEF Called
    <2>2. \A d \in Clients \ {c} :
              /\ Holds(d)' <=> Holds(d)
              /\ In(d, "insert")' <=> In(d, "insert")
              /\ call'[d].id = call[d].id
        BY <2>1, OthersHold
    <2>3. /\ Holds(c) /\ ~Holds(c)' /\ In(c, "insert")
          /\ phase = "open" /\ phase' = "open" /\ Attached' = Attached \cup {call[c].id}
          /\ UNCHANGED <<disk, left, made>>
        BY <1>10, InsertRowDoes, HoldsNothing DEF Advanced, Holds
    <2>4. /\ call[c].id <= made /\ call[c].id \in disk
          /\ \A d \in Clients \ {c} : Holds(d) => call[d].id # call[c].id
        BY <2>3 DEF FileInv
    <2> QED BY <2>2, <2>3, <2>4 DEF FileInv
<1>11. ASSUME NEW c \in Clients, RefuseAdd(c) PROVE FileInv'
    <2>1. Others(c)
        BY <1>11, RefuseAddDoes DEF Returned
    <2>2. \A d \in Clients \ {c} :
              /\ Holds(d)' <=> Holds(d)
              /\ In(d, "insert")' <=> In(d, "insert")
              /\ call'[d].id = call[d].id
        BY <2>1, OthersHold
    <2>3. /\ Holds(c) /\ ~Holds(c)'
          /\ Attached' = Attached /\ UNCHANGED <<phase, made>>
        BY <1>11, RefuseAddDoes, HoldsNothing, RowKept DEF Holds
    <2>4. /\ call[c].id \notin Attached
          /\ \A k \in Clients \ {c} : Holds(k) => call[k].id # call[c].id
        BY <2>3 DEF FileInv
    <2>5. /\ disk \ {call[c].id} \subseteq disk' /\ disk' \subseteq disk
          /\ disk' \ left' \subseteq (disk \ left) \ {call[c].id}
        BY <1>11, RefuseAddDoes DEF Dropped
    <2>6. \A i \in disk' \ left' :
              i \in Attached' \/ \E k \in Clients : Holds(k)' /\ call'[k].id = i
        <3> SUFFICES ASSUME NEW i \in disk' \ left', i \notin Attached
                     PROVE  \E k \in Clients : Holds(k)' /\ call'[k].id = i
            BY <2>3
        <3>1. i \in disk \ left /\ i # call[c].id
            BY <2>5
        <3>2. PICK k \in Clients : Holds(k) /\ call[k].id = i
            BY <3>1 DEF FileInv
        <3> QED BY <2>2, <3>1, <3>2
    <2> QED BY <2>2, <2>3, <2>4, <2>5, <2>6 DEF FileInv
<1>12. ASSUME NEW c \in Clients, NEW i \in Ids, RemoveRow(c, i) PROVE FileInv'
    <2>1. Others(c)
        BY <1>12, RemoveRowDoes DEF Called
    <2>2. \A d \in Clients \ {c} :
              /\ Holds(d)' <=> Holds(d)
              /\ In(d, "insert")' <=> In(d, "insert")
              /\ call'[d].id = call[d].id
        BY <2>1, OthersHold
    <2>3. /\ ~Holds(c) /\ Holds(c)' /\ ~In(c, "insert")' /\ call'[c].id = i
          /\ i \in Attached /\ Attached' = Attached \ {i}
          /\ phase = "open" /\ phase' = "open" /\ UNCHANGED <<disk, left, made>>
        BY <1>12, RemoveRowDoes DEF Called, Advanced, Holds, In, Idle
    <2>4. i <= made /\ \A d \in Clients : Holds(d) => call[d].id # i
        BY <2>3 DEF FileInv
    <2> QED BY <2>2, <2>3, <2>4 DEF FileInv
<1>13. ASSUME NEW c \in Clients, Unlink(c) PROVE FileInv'
    <2>1. Others(c)
        BY <1>13, UnlinkDoes DEF Called
    <2>2. \A d \in Clients \ {c} :
              /\ Holds(d)' <=> Holds(d)
              /\ In(d, "insert")' <=> In(d, "insert")
              /\ call'[d].id = call[d].id
        BY <2>1, OthersHold
    <2>3. /\ Holds(c) /\ ~Holds(c)'
          /\ Attached' = Attached /\ UNCHANGED <<phase, made>>
        BY <1>13, UnlinkDoes, HoldsNothing, RowKept DEF Holds
    <2>4. /\ call[c].id \notin Attached
          /\ \A k \in Clients \ {c} : Holds(k) => call[k].id # call[c].id
        BY <2>3 DEF FileInv
    <2>5. /\ disk \ {call[c].id} \subseteq disk' /\ disk' \subseteq disk
          /\ disk' \ left' \subseteq (disk \ left) \ {call[c].id}
        BY <1>13, UnlinkDoes DEF Dropped
    <2>6. \A i \in disk' \ left' :
              i \in Attached' \/ \E k \in Clients : Holds(k)' /\ call'[k].id = i
        <3> SUFFICES ASSUME NEW i \in disk' \ left', i \notin Attached
                     PROVE  \E k \in Clients : Holds(k)' /\ call'[k].id = i
            BY <2>3
        <3>1. i \in disk \ left /\ i # call[c].id
            BY <2>5
        <3>2. PICK k \in Clients : Holds(k) /\ call[k].id = i
            BY <3>1 DEF FileInv
        <3> QED BY <2>2, <3>1, <3>2
    <2> QED BY <2>2, <2>3, <2>4, <2>5, <2>6 DEF FileInv
<1>14. ASSUME NEW c \in Clients, NEW order \in Orders, Reorder(c, order) PROVE FileInv'
    <2>1. Others(c) /\ ~Holds(c) /\ ~Holds(c)'
        BY <1>14, ReorderDoes, HoldsNothing DEF Called
    <2>2. Attached' = Attached /\ UNCHANGED <<phase, disk, left, made>>
        BY <1>14, ReorderDoes, RowKept DEF Advanced
    <2> QED BY <2>1, <2>2, FileKept
<1>15. CASE Plan
    BY <1>15, <1>0, RowKept DEF Plan, row, Shape, FileInv, Holds, In, Idle
<1>16. CASE End
    BY <1>16, <1>0, RowKept DEF End, row, Shape, FileInv, Holds, In, Idle
<1>17. CASE Deliver
    BY <1>17, <1>0, RowKept DEF Deliver, row, Shape, FileInv, Holds, In, Idle
<1>18. CASE CleanupDrafts
    BY <1>18, <1>0, RowKept DEF CleanupDrafts, row, Shape, FileInv, Holds, In, Idle
<1>19. CASE Crash
    BY <1>19, <1>0, CrashDoes, RowKept DEF Shape, Shape, FileInv, Holds, In, Idle
<1>20. CASE UNCHANGED vars
    BY <1>20, RowKept DEF vars, row, FileInv, Holds, In, Idle
<1> QED BY <1>1, <1>2, <1>3, <1>4, <1>5, <1>6, <1>7, <1>8, <1>9, <1>10, <1>11, <1>12,
    <1>13, <1>14, <1>15, <1>16, <1>17, <1>18, <1>19, <1>20 DEF Next, ReadStep, EditStep

\* Every step keeps the positions apart.
LEMMA PositionPreserved == TypeOK /\ PositionInv /\ FileInv /\ [Next]_vars => PositionInv'
<1> SUFFICES ASSUME TypeOK, PositionInv, FileInv, [Next]_vars PROVE PositionInv'
    OBVIOUS
<1>0. Shape
    BY TypesShape
<1>1. CASE UNCHANGED <<position, revision>>
    BY <1>1 DEF PositionInv, Attached
<1>2. ASSUME NEW c \in Clients, NEW body \in Bodies, SaveDraft(c, body) PROVE PositionInv'
    <2>1. /\ revision \in Nat /\ revision' = revision + 1
          /\ Cardinality(Attached) \in Nat /\ Cardinality(Attached) <= revision
          /\ \A i \in Attached : position[i] \in Nat /\ position[i] < revision
          /\ \A i, k \in Attached : position[i] = position[k] => i = k
        BY <1>2, <1>0, AttachedIsFinite, SaveDraftDoes DEF Shape, Advanced, PositionInv
    <2>2. position' = position /\ Attached' = Attached
        BY <1>2, SaveDraftDoes DEF Attached
    <2> QED BY <2>1, <2>2 DEF PositionInv
<1>3. ASSUME NEW c \in Clients, InsertRow(c) PROVE PositionInv'
    <2>1. /\ revision \in Nat /\ revision' = revision + 1
          /\ Cardinality(Attached) \in Nat /\ Cardinality(Attached) <= revision
          /\ \A i \in Attached : position[i] \in Nat /\ position[i] < revision
          /\ \A i, k \in Attached : position[i] = position[k] => i = k
        BY <1>3, <1>0, AttachedIsFinite, InsertRowDoes DEF Shape, Advanced, PositionInv
    <2>2. /\ Attached' = Attached \cup {call[c].id}
          /\ \A i \in Attached : position'[i] = position[i]
          /\ call[c].id \notin Attached /\ position'[call[c].id] = NextPosition
        BY <1>3, InsertRowDoes DEF FileInv, Holds
    <2>3. /\ NextPosition \in Nat /\ NextPosition <= revision
          /\ \A i \in Attached : position[i] < NextPosition
        BY NextPositionFollows
    <2>4. Cardinality(Attached') <= revision'
        <3>1. /\ Cardinality(Attached') <= Cardinality(Attached) + 1
              /\ Cardinality(Attached') \in Nat
            BY <1>3, InsertRowDoes, BoundsAssumption
        <3> QED BY <2>1, <3>1
    <2>5. \A i \in Attached' : position'[i] < revision'
        BY <2>1, <2>2, <2>3
    <2>6. \A i, k \in Attached' : position'[i] = position'[k] => i = k
        BY <2>1, <2>2, <2>3
    <2> QED BY <2>4, <2>5, <2>6 DEF PositionInv
<1>4. ASSUME NEW c \in Clients, NEW i \in Ids, RemoveRow(c, i) PROVE PositionInv'
    <2>1. /\ revision \in Nat /\ revision' = revision + 1
          /\ Cardinality(Attached) \in Nat /\ Cardinality(Attached) <= revision
          /\ \A j \in Attached : position[j] \in Nat /\ position[j] < revision
          /\ \A j, k \in Attached : position[j] = position[k] => j = k
        BY <1>4, <1>0, AttachedIsFinite, RemoveRowDoes DEF Shape, Advanced, PositionInv
    <2>2. /\ Attached' = Attached \ {i}
          /\ \A k \in Attached' : position'[k] = position[k]
        BY <1>4, RemoveRowDoes
    <2>3. Cardinality(Attached') <= revision'
        <3>1. /\ Cardinality(Attached') \in Nat
              /\ Cardinality(Attached') <= Cardinality(Attached)
            BY <1>4, RemoveRowDoes
        <3> QED BY <2>1, <3>1
    <2> QED BY <2>1, <2>2, <2>3 DEF PositionInv
<1>5. ASSUME NEW c \in Clients, NEW order \in Orders, Reorder(c, order) PROVE PositionInv'
    <2>1. CASE UNCHANGED <<phase, revision, draft, position>>
        BY <2>1 DEF PositionInv, Attached
    <2>2. CASE /\ Advanced(StoredBody) /\ Attached' = Attached /\ position' = order
               /\ \A i \in Attached : order[i] \in Nat /\ order[i] < Cardinality(Attached)
               /\ \A i, k \in Attached : order[i] = order[k] => i = k
        <3>1. /\ revision \in Nat /\ revision' = revision + 1
              /\ Cardinality(Attached) \in Nat /\ Cardinality(Attached) <= revision
            BY <1>0, <2>2, AttachedIsFinite DEF Shape, Advanced, PositionInv
        <3> QED BY <2>2, <3>1 DEF PositionInv
    <2> QED BY <1>5, <2>1, <2>2, ReorderDoes
<1>6. ASSUME \/ UNCHANGED vars
             \/ \E c \in Clients : OpenWorkspace(c)
             \/ \E c \in Clients : LoadDraft(c)
             \/ \E c \in Clients : LoadAttachments(c)
             \/ \E c \in Clients : FailLoad(c)
             \/ \E c \in Clients, i \in Ids : ResolvePath(c, i)
             \/ \E c \in Clients : ReadFile(c)
             \/ \E c \in Clients : ReplaySave(c)
             \/ \E c \in Clients : WriteFile(c)
             \/ \E c \in Clients : RefuseAdd(c)
             \/ \E c \in Clients : Unlink(c)
             \/ Plan
             \/ End
             \/ Deliver
             \/ CleanupDrafts
             \/ Crash
      PROVE  UNCHANGED <<position, revision>>
BY <1>6 DEF vars, OpenWorkspace, LoadDraft, LoadAttachments, FailLoad, ResolvePath,
        ReadFile, ReplaySave, WriteFile, RefuseAdd, Unlink, Plan, End, Deliver,
        CleanupDrafts, Crash, row
<1> QED BY <1>1, <1>2, <1>3, <1>4, <1>5, <1>6 DEF Next, ReadStep, EditStep

\* Only who showed a text replaces it.
LEMMA SeenFirst == TypeOK /\ PositionInv /\ ViewInv /\ [Next]_vars => NotBlind
<1> SUFFICES ASSUME TypeOK, PositionInv, ViewInv, [Next]_vars PROVE NotBlind
    OBVIOUS
<1>0. Shape
    BY TypesShape
<1> USE DEF NotBlind
<1>1. CASE UNCHANGED <<draft>>
    BY <1>1 DEF StoredBody
<1>2. ASSUME NEW c \in Clients, NEW body \in Bodies, SaveDraft(c, body) PROVE NotBlind
    <2>1. /\ view[c] # None /\ view[c].revision = revision
          /\ StoredBody' = body /\ view'[c].body = body
        BY <1>2, SaveDraftDoes DEF Advanced, Viewed
    <2>2. view[c].body = StoredBody
        BY <2>1 DEF ViewInv
    <2> QED BY <2>1, <2>2
<1>3. ASSUME NEW c \in Clients, InsertRow(c) PROVE NotBlind
    BY <1>3, <1>0, InsertRowDoes, RowKept DEF Advanced, Called, Others, Shape
<1>4. ASSUME NEW c \in Clients, NEW i \in Ids, RemoveRow(c, i) PROVE NotBlind
    BY <1>4, <1>0, RemoveRowDoes, RowKept DEF Advanced, Called, Others, Shape
<1>5. ASSUME NEW c \in Clients, NEW order \in Orders, Reorder(c, order) PROVE NotBlind
    BY <1>5, <1>0, ReorderDoes, RowKept DEF Advanced, Called, Others, Shape
<1>6. ASSUME \/ UNCHANGED vars
             \/ \E c \in Clients : OpenWorkspace(c)
             \/ \E c \in Clients : LoadDraft(c)
             \/ \E c \in Clients : LoadAttachments(c)
             \/ \E c \in Clients : FailLoad(c)
             \/ \E c \in Clients, i \in Ids : ResolvePath(c, i)
             \/ \E c \in Clients : ReadFile(c)
             \/ \E c \in Clients : ReplaySave(c)
             \/ \E c \in Clients : WriteFile(c)
             \/ \E c \in Clients : RefuseAdd(c)
             \/ \E c \in Clients : Unlink(c)
             \/ Plan
             \/ End
             \/ Deliver
             \/ CleanupDrafts
             \/ Crash
      PROVE  UNCHANGED <<draft>>
BY <1>6 DEF vars, OpenWorkspace, LoadDraft, LoadAttachments, FailLoad, ResolvePath,
        ReadFile, ReplaySave, WriteFile, RefuseAdd, Unlink, Plan, End, Deliver,
        CleanupDrafts, Crash, row
<1> QED BY <1>1, <1>2, <1>3, <1>4, <1>5, <1>6 DEF Next, ReadStep, EditStep

\* The invariant holds in every reachable state.
THEOREM Invariance == Spec => []IInv
<1>1. IInv /\ [Next]_vars => IInv'
    BY TypePreserved, ViewPreserved, FilePreserved, PositionPreserved DEF IInv
<1> QED BY InitIInv, <1>1, PTL DEF Spec

\* The variables keep their types, and no race of additions exceeds the limit.
THEOREM TypeCorrect == Spec => []TypeOK
<1>1. IInv => TypeOK
    BY DEF IInv
<1> QED BY Invariance, <1>1, PTL

\* Who may edit shows what is stored.
THEOREM ViewsAreWholeCorrect == Spec => []ViewsAreWhole
<1>1. IInv => ViewsAreWhole
    BY DEF IInv, ViewInv, ViewsAreWhole
<1> QED BY Invariance, <1>1, PTL

\* Rows have their files, and files their rows.
THEOREM FilesMatchRowsCorrect == Spec => []FilesMatchRows
<1>1. IInv => FilesMatchRows
    BY DEF IInv, FileInv, Holds, FilesMatchRows
<1> QED BY Invariance, <1>1, PTL

\* Positions differ, and a reordering cannot fail before Offset edits.
THEOREM ReorderingIsSafeCorrect == Spec => []ReorderingIsSafe
<1>1. IInv => ReorderingIsSafe
    <2> SUFFICES ASSUME TypeOK, PositionInv PROVE ReorderingIsSafe
        BY DEF IInv
    <2>1. Shape
        BY TypesShape
    <2> QED BY <2>1, BoundsAssumption DEF PositionInv, ReorderingIsSafe, ShiftCollides, Shape
<1> QED BY Invariance, <1>1, PTL

\* No text is overwritten by a client that did not show it.
THEOREM NoBlindOverwriteCorrect == Spec => NoBlindOverwrite
<1>1. IInv /\ [Next]_vars => [NotBlind]_vars
    BY SeenFirst DEF IInv
<1>2. [][NotBlind]_vars => NoBlindOverwrite
    BY PTL DEF NoBlindOverwrite, NotBlind
<1> QED BY Invariance, <1>1, <1>2, PTL DEF Spec

-----------------------------------------------------------------------------
(* DraftWorkspace implements SharedDraft.                                  *)

\* A client that presents the draft shows a sight of it.
LEMMA ShowsASight ==
    ASSUME TypeOK, ViewInv, NEW c \in Clients
    PROVE  /\ Showing(c) \in Shared!Sights \cup {None}
           /\ Presents(c) => Showing(c) # None
<1>1. CASE Presents(c)
    <2>1. view[c] \in Views
        BY <1>1 DEF TypeOK, Presents
    <2>2. view[c].body \in Bodies /\ view[c].attachments \in Lists
        BY <2>1 DEF Views, Lists
    <2>3. Showing(c) \in [text: Bodies, attachments: Lists \cup {None}]
        BY <1>1, <2>2 DEF Showing
    <2>4. view[c].body = StoredBody /\ (~view[c].replayed => view[c].attachments = position)
        BY <1>1 DEF ViewInv, Presents
    <2>5. Showing(c) \in Shared!Sights
        BY <1>1, <2>4 DEF Showing, Shared!Sights
    <2> QED BY <2>3, <2>5, NothingShownAssumption
<1>2. CASE ~Presents(c)
    BY <1>2 DEF Showing
<1> QED BY <1>1, <1>2

\* So does everybody.
SightsShown == \A c \in Clients : Showing(c) \in Shared!Sights \cup {None}

LEMMA AllShowSights == TypeOK /\ ViewInv => SightsShown
BY ShowsASight DEF SightsShown

\* While the rows stay, clients can only look: a load that no edit cut, and a
\* repeated save, show a sight of the draft, a load that was cut nothing.
LEMMA LookingIsAllowed ==
    ASSUME TypeOK', ViewInv', UNCHANGED <<phase, draft, position>>
    PROVE  Shared!Look
<1>1. StoredBody' = StoredBody
    BY RowKept
<1>2. ASSUME NEW c \in Clients PROVE Showing(c)' \in Shared!Sights \cup {None}
    <2>1. TypeOK' /\ ViewInv' => SightsShown'
        BY AllShowSights, PTL
    <2>2. Shared!Sights' = Shared!Sights
        BY <1>1 DEF Shared!Sights
    <2> QED BY <1>2, <2>1, <2>2 DEF SightsShown
<1>3. [c \in Clients |-> Showing(c)]' \in [Clients -> Shared!Sights \cup {None}]
    BY <1>2
<1> QED BY <1>1, <1>3 DEF Shared!Look

\* An edit takes the draft from whoever keeps its view.
LEMMA EditHides ==
    ASSUME TypeOK, ViewInv, NEW c \in Clients, view'[c] = view[c], revision' = revision + 1
    PROVE  Showing(c)' = None
<1>1. view[c] # None => view[c].revision <= revision /\ view[c].revision \in Int
    BY TypesShape DEF ViewInv, Shape
<1>2. ~Presents(c)'
    BY <1>1, TypesShape DEF Presents, Shape
<1> QED BY <1>2 DEF Showing

\* A save replaces what its client showed.
LEMMA SaveSaves ==
    ASSUME TypeOK, ViewInv, NEW c \in Clients, NEW body \in Bodies, SaveDraft(c, body)
    PROVE  Shared!Save(c, body)
<1>1. /\ view[c] # None /\ view[c].revision = revision /\ Advanced(body)
      /\ Viewed(c, body, revision + 1, view[c].attachments, view[c].replayed)
      /\ position' = position
    BY SaveDraftDoes
<1>2. Presents(c) /\ Presents(c)' /\ Showing(c) # None
    BY <1>1, ShowsASight DEF Presents, Viewed, Advanced
<1>3. \A d \in Clients \ {c} : Showing(d)' = None
    BY <1>1, EditHides DEF Viewed, Advanced
<1>4. Showing(c)' = [Showing(c) EXCEPT !.text = body]
    BY <1>1, <1>2 DEF Showing, Viewed
<1>5. [d \in Clients |-> Showing(d)]'
          = [Shared!Nobody EXCEPT ![c] = [Showing(c) EXCEPT !.text = body]]
    BY <1>3, <1>4 DEF Shared!Nobody
<1>6. phase = "open" /\ phase' = "open" /\ StoredBody' = body
    BY <1>1 DEF Advanced
<1> QED BY <1>1, <1>2, <1>5, <1>6 DEF Shared!Save

\* An edit of the attachments by a client that presents the draft.
LEMMA EditAttaches ==
    ASSUME TypeOK, ViewInv, NEW c \in Clients, Mutable(c), Advanced(StoredBody),
           view' = view, Attached' \subseteq Ids, position' \in [Attached' -> Positions]
    PROVE  Shared!Attach(c)
<1>1. Showing(c) # None
    BY ShowsASight DEF Mutable, Presents
<1>2. \A d \in Clients : Showing(d)' = None
    BY EditHides DEF Advanced
<1>3. [d \in Clients |-> Showing(d)]' = Shared!Nobody
    BY <1>2 DEF Shared!Nobody
<1>4. position' \in Lists
    BY DEF Lists
<1>5. phase = "open" /\ phase' = "open" /\ StoredBody' = StoredBody
    BY DEF Advanced
<1> QED BY <1>1, <1>3, <1>4, <1>5 DEF Shared!Attach

\* Every step is one of the shared draft, or none.
LEMMA StepShares == IInv /\ IInv' /\ [Next]_vars => [Shared!Next]_(Shared!vars)
<1> SUFFICES ASSUME TypeOK, PositionInv, ViewInv, TypeOK', ViewInv', [Next]_vars
             PROVE  [Shared!Next]_(Shared!vars)
    BY DEF IInv
<1>0. Shape
    BY TypesShape
<1>1. CASE UNCHANGED <<phase, draft, position>>
    BY <1>1, LookingIsAllowed DEF Shared!Next
<1>2. ASSUME NEW c \in Clients, NEW body \in Bodies, SaveDraft(c, body) PROVE Shared!Next
    BY <1>2, SaveSaves DEF Shared!Next
<1>3. ASSUME NEW c \in Clients, InsertRow(c) PROVE Shared!Next
    <2>1. Mutable(c)
        BY <1>3 DEF InsertRow
    <2>2. /\ Advanced(StoredBody) /\ call[c].id \in Ids /\ view' = view
          /\ Attached' = Attached \cup {call[c].id} /\ position' \in [Attached' -> Positions]
        BY <1>3, InsertRowDoes
    <2>3. Attached' \subseteq Ids
        BY <1>0, <2>2 DEF Shape
    <2> QED BY <2>1, <2>2, <2>3, EditAttaches DEF Shared!Next
<1>4. ASSUME NEW c \in Clients, NEW i \in Ids, RemoveRow(c, i) PROVE Shared!Next
    <2>1. Mutable(c)
        BY <1>4 DEF RemoveRow
    <2>2. /\ Advanced(StoredBody) /\ view' = view
          /\ Attached' = Attached \ {i} /\ position' \in [Attached' -> Positions]
        BY <1>4, RemoveRowDoes
    <2>3. Attached' \subseteq Ids
        BY <1>0, <2>2 DEF Shape
    <2> QED BY <2>1, <2>2, <2>3, EditAttaches DEF Shared!Next
<1>5. ASSUME NEW c \in Clients, NEW order \in Orders, Reorder(c, order)
      PROVE  [Shared!Next]_(Shared!vars)
    <2>1. Mutable(c) /\ view' = view
        BY <1>5 DEF Reorder
    <2>2. CASE UNCHANGED <<phase, revision, draft, position>>
        BY <1>1, <2>2
    <2>3. CASE /\ Advanced(StoredBody) /\ Attached' = Attached
               /\ position' \in [Attached' -> Positions]
        <3>1. Attached' \subseteq Ids
            BY <1>0, <2>3 DEF Shape
        <3> QED BY <2>1, <2>3, <3>1, EditAttaches DEF Shared!Next
    <2> QED BY <1>5, <2>2, <2>3, ReorderDoes
<1>6. CASE Plan \/ End \/ Deliver
    <2>1. /\ phase' # "open"
          /\ UNCHANGED <<revision, draft, position, view>>
        BY <1>6 DEF Plan, End, Deliver
    <2>2. StoredBody' = StoredBody
        BY <2>1, RowKept
    <2>3. [d \in Clients |-> Showing(d)]' = [d \in Clients |-> Showing(d)]
        BY <2>1 DEF Showing, Presents
    <2> QED BY <2>1, <2>2, <2>3 DEF Shared!Next, Shared!Freeze
<1>7. ASSUME \/ UNCHANGED vars
             \/ \E c \in Clients : ReadStep(c)
             \/ \E c \in Clients : ReplaySave(c)
             \/ \E c \in Clients : WriteFile(c)
             \/ \E c \in Clients : RefuseAdd(c)
             \/ \E c \in Clients : Unlink(c)
             \/ CleanupDrafts
             \/ Crash
      PROVE  UNCHANGED <<phase, draft, position>>
    <2>1. ASSUME NEW c \in Clients, ReadStep(c) PROVE UNCHANGED row
        BY <2>1 DEF ReadStep, OpenWorkspace, LoadDraft, LoadAttachments, FailLoad,
                    ResolvePath, ReadFile
    <2>2. ASSUME NEW c \in Clients, ReplaySave(c) \/ WriteFile(c) \/ RefuseAdd(c) \/ Unlink(c)
          PROVE  UNCHANGED row
        BY <2>2 DEF ReplaySave, WriteFile, RefuseAdd, Unlink
    <2>3. UNCHANGED row
        BY <1>7, <2>1, <2>2 DEF vars, CleanupDrafts, Crash
    <2> QED BY <2>3 DEF row
<1> QED BY <1>1, <1>2, <1>3, <1>4, <1>5, <1>6, <1>7 DEF Next, EditStep

\* DraftWorkspace implements SharedDraft: with its revisions, loads in several
\* queries, files, lost answers and crashes, whoever edits shows the present
\* draft, and a frozen draft stays.
THEOREM Refinement == Spec => ImplementsSharedDraft
<1>1. Init => Shared!Init
    BY DEF Init, Shared!Init, Shared!Nobody, StoredBody, Showing, Presents
<1>2. IInv /\ IInv' /\ [Next]_vars => [Shared!Next]_(Shared!vars)
    BY StepShares
<1> QED BY <1>1, <1>2, Invariance, PTL DEF Spec, ImplementsSharedDraft, Shared!Spec
=============================================================================
