------------------------- MODULE FeedbackLifecycle -------------------------
(***************************************************************************)
(* What RambleDesk promises about a feedback request, with no database, no *)
(* files and no crash: a request is waiting or in progress until one       *)
(* outcome ends it, and the package that carries the outcome is delivered  *)
(* once, in the step that ends the request, and never changes.  The one    *)
(* exception is a request an older version cancelled without a package:    *)
(* its package is delivered later.  FeedbackPublication implements it.     *)
(***************************************************************************)
CONSTANTS
    Requests,     \* the feedback requests
    Finishable,   \* those created with allow_finish and a final summary
    Texts,        \* Markdown bodies a person or a cooking model may write
    Reasons,      \* cancellation reasons
    None          \* "no value"

VARIABLES
    status,       \* status[r]: the FeedbackStatus of r
    outcome,      \* outcome[r]: the FeedbackResolution of r, or None
    delivered     \* delivered[r]: the feedback package of r, or None

vars == <<status, outcome, delivered>>

Statuses == {"waiting", "in_progress", "completed", "cancelled"}
Resolutions == {"feedback_submitted", "approved", "cancelled"}

\* What a package says: feedback.md, uncooked.md and the terminal fields of
\* manifest.json.  The text of a cancellation package renders its reason.
Packages == [request: Requests, text: Texts \cup Reasons, uncooked: Texts,
             resolution: Resolutions, reason: Reasons \cup {None}]

TypeOK == /\ status \in [Requests -> Statuses]
          /\ outcome \in [Requests -> Resolutions \cup {None}]
          /\ delivered \in [Requests -> Packages \cup {None}]

Open(r) == status[r] \in {"waiting", "in_progress"}

\* A legacy row is already cancelled, with no package, when the program first
\* opens the database.
Init == /\ status \in [Requests -> {"waiting", "cancelled"}]
        /\ outcome = [r \in Requests |-> None]
        /\ delivered = [r \in Requests |-> None]

\* The person starts or goes on writing.
Work(r) == /\ Open(r)
           /\ status' = [status EXCEPT ![r] = "in_progress"]
           /\ UNCHANGED <<outcome, delivered>>

Submit(r) ==
    /\ status[r] = "in_progress"
    /\ status' = [status EXCEPT ![r] = "completed"]
    /\ outcome' = [outcome EXCEPT ![r] = "feedback_submitted"]
    /\ \E text, uncooked \in Texts :
          delivered' = [delivered EXCEPT ![r] =
              [request |-> r, text |-> text, uncooked |-> uncooked,
               resolution |-> "feedback_submitted", reason |-> None]]

\* Approving needs no package: the final summary came with the request.
Approve(r) ==
    /\ r \in Finishable
    /\ Open(r)
    /\ status' = [status EXCEPT ![r] = "completed"]
    /\ outcome' = [outcome EXCEPT ![r] = "approved"]
    /\ UNCHANGED delivered

Cancellation(r, reason, uncooked) ==
    [request |-> r, text |-> reason, uncooked |-> uncooked,
     resolution |-> "cancelled", reason |-> reason]

Cancel(r) ==
    /\ Open(r)
    /\ status' = [status EXCEPT ![r] = "cancelled"]
    /\ outcome' = [outcome EXCEPT ![r] = "cancelled"]
    /\ \E reason \in Reasons, uncooked \in Texts :
          delivered' = [delivered EXCEPT ![r] = Cancellation(r, reason, uncooked)]

ArchiveLegacy(r) ==
    /\ status[r] = "cancelled"
    /\ delivered[r] = None
    /\ \E reason \in Reasons, uncooked \in Texts :
          delivered' = [delivered EXCEPT ![r] = Cancellation(r, reason, uncooked)]
    /\ UNCHANGED <<status, outcome>>

Next == \E r \in Requests :
            \/ Work(r)
            \/ Submit(r)
            \/ Approve(r)
            \/ Cancel(r)
            \/ ArchiveLegacy(r)

Spec == Init /\ [][Next]_vars

-----------------------------------------------------------------------------
\* A request ends once: neither its status, nor its outcome, nor a package
\* that was delivered ever changes again (migration 0001, triggers on status;
\* PROTOCOL.md: a published package is immutable).
KeepsItsEnd(r) ==
    /\ ~Open(r) => status'[r] = status[r] /\ outcome'[r] = outcome[r]
    /\ delivered[r] # None => delivered'[r] = delivered[r]

EndsOnce == [][\A r \in Requests : KeepsItsEnd(r)]_vars

\* The package of a request tells the same story as its row: submitted
\* feedback has a package without a reason, an approval has none, and a
\* cancellation package carries the reason it renders.
PackageTellsOutcome ==
    \A r \in Requests :
        /\ outcome[r] = "feedback_submitted" <=>
               delivered[r] # None /\ delivered[r].resolution = "feedback_submitted"
        /\ outcome[r] = "cancelled" => delivered[r] # None
        /\ delivered[r] # None /\ delivered[r].resolution = "cancelled" =>
               status[r] = "cancelled" /\ delivered[r].text = delivered[r].reason
=============================================================================
