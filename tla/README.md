# RambleDesk: TLA+ verification project

RambleDesk lets a coding agent ask a person for feedback. The agent creates a
*feedback request* (MCP, HTTP or an adapter); the person writes a draft with
attachments in the desktop application and then submits it, cancels the request
or approves it. Submitting and cancelling publish an immutable *feedback
package* (a directory with `feedback.md`, `uncooked.md`, `manifest.json` and
attachments), end the request in SQLite, and release the callers that wait for
it. All paths below are relative to the repository; `core` and `storage` stand
for `crates/rambledesk-core/src` and `crates/rambledesk-storage/src`.

## The system

| Component | State | Operations | What is hard | Correct when |
|---|---|---|---|---|
| Application service (`core/feedback.rs`, `core/workspace.rs`) | none of its own: a call is a sequence of awaits over the store, the publisher and the waiters | request, get, recover, wait, save draft, attachments, submit, cancel, approve | calls on one request interleave at every await; HTTP handlers are dropped with their connection | one outcome per request; an ok answer is what happened |
| Submission plans (`storage/sqlite/submission_ops.rs`, `sqlite.rs`) | `feedback_requests`, `drafts`, `submission_plans`, `feedback_results` | plan, complete, replay at start, archive of legacy cancellations | the plan is read in one transaction and used in another; crash in between | the package recorded is the one planned; a start reconciles |
| Package publisher (`storage/package.rs`, `platform.rs`, `sqlite/publication_paths.rs`) | temporary and final directories, probe files, `publish_lock` | probe, stage, write, rename, sync, accept an existing package | power loss, leftovers, errors half-way, a rename that outlives its caller | a durable package never changes; there is one per request |
| Terminal waiters (`core/feedback/waiters.rs`) | map of watch channels | subscribe, notify_terminal | commit, notification, subscription and read in any order | no lost wake-up |
| Draft workspace (`storage/sqlite/workspace_ops.rs`, `row_mapping.rs`) | draft rows, attachment rows and files, revision | save, add, remove, reorder, read | revision conflicts; files and rows in separate steps | revision conflicts are detected; every row has its file |
| Host sessions (`storage/sqlite/session_ops.rs`, `request_ops.rs`) | sessions, requests of a session | create (idempotent), rename, pin, archive, delete | archive against create; delete against a publication in flight | nothing open is deleted; a retried create is one request |
| Local HTTP server (`crates/rambledesk-local-server`) | token, connections | JSON routes, MCP | drops | covered through the calls it drops |
| MCP server, host profiles (`rambledesk-mcp`, `rambledesk-hosts`) | none | translate, text | - | - |
| Pi and DSH adapters (`packages/*/index.js`) | pending request of a session | request, resume, retry | answers lost after the server acted; restart of the host | a request is found again, never doubled |
| Voice input (`rambledesk-speech/src/native.rs`, start and stop in `commands.rs`) | sample queue, owner and recognition threads, the active session | start, stop, capture, recognise | a start that fails anywhere, a full queue, a stop while audio comes in | what was said before the stop is recognised or reported lost (but for the moment of the stop itself); `Stopped` is the last event; start and stop end |
| Speech models (`rambledesk-speech/src/model.rs`) | model files, part files, an archive | download, resume, unpack, validate, delete | mirrors that fail, restart or lie; crash or deletion half way | what counts as installed is what the manifest names; a download can always recover |
| Screen capture (`apps/desktop/src-tauri/src/screen_capture*`, `attachmentController.ts`, `ScreenshotOverlay.svelte`) | capture session, three windows, events between them, the request a capture is for | start, shoot, cut, pin, scroll, cancel, import | steps outside the mutex; every step may fail; events arrive later | the person can always end a capture, the console comes back, a picture reaches its request |
| Workbench (`apps/desktop/src/lib/workbench`) | saved revision, cooking, publishing flags | autosave, cook, publish | state read before an await | the revision sent is the one last answered |
| Desktop shell, storage migration, installers, web site | windows, files | - | operating-system calls | not modelled |

## Modules

**FeedbackLifecycle** is the abstract specification: the status, outcome and
delivered package of each request, with no database, files or crashes.

**FeedbackPublication** is the core: how a request ends. A caller (a call of the
application, or `Boot`, the opening of the store) goes through the steps `read`,
`preflight`, `probe`, `unprobe`, `plan`, `reread`, `lock`, `check`, `stage`, `write`,
`rename`, `sync`, `complete`, `cleanup`, `notify`: one step per await at which another
caller, a drop or a crash can come in between. A SQLite transaction is one step. The
opening of the store has one more, `record`, in which it notes the error of a plan it
could not replay.

| Variables | Code |
|---|---|
| `row`, `draft`, `plan`, `result` | the rows of `feedback_requests`, `drafts`, `submission_plans`, `feedback_results` |
| `draftFiles` | the files under `drafts/<request>` that a publication copies |
| `temp`, `package`, `durable` | `.<request>.tmp-<publication>`, the final directory, and whether its parent was fsynced |
| `probes` | `.write-probe-<publication>` files |
| `detached` | renames handed to tokio's blocking pool by a call that was dropped since |
| `publishLock` | `publish_lock` |
| `pc`, `op`, `held`, `answer` | the state of a call: its step, input, `SubmissionPlan` in hand and answer |
| `notified` | `notify_feedback_terminal` was called since the last start |
| `phase`, `todo` | `connect_with_library`: `scan` for pending plans, `recover` them, `archive` legacy cancellations, `up`; or `refused`, when a database error ended it |
| `fault`, `crashes` | history for the properties: an I/O error or drop since the start, and the bound on crashes |

`Crash` ends every call, keeps what was committed (WAL, `synchronous = FULL`),
may undo any rename whose parent was not synced, and starts again at `scan`. It is
also how the program is started again after an opening that was refused: a database
error in the two queries of the opening, in the one for the time of a cancellation, or
where the error of a plan is recorded (`RefuseOpening`) makes `connect_with_library`
return `StorageOpenError::Recovery`, and the process ends. Every other error of a
replay or an archive is recorded (`RecordError`), and the next request has its turn.


**FeedbackWaiters** is the notification: `Subscribe`, `ReadRequest`, `Wake` are
the loop of `wait_feedback`; `Commit`, `TakeSender`, `Send` an ender whose commit
and notification are separate steps. In between the ender may stop and tell nobody
(`StopUntold`): an HTTP handler dropped at an await (`DropEnder`), or an approval
whose read of the row after its commit fails, from the desktop as over HTTP
(`FailReadBack`).

**HostSessions** is the life of a request around its publication. A creation
(`BeginCreate`, `StageAttachment`, then `CommitCreate`, `FailCreate` or `DropCreate`)
holds SQLite's write lock (`writer`) while it stages files, as the code's `BEGIN
IMMEDIATE` does; pinning, archiving, restoring and deleting are transactions of their
own, possible when nobody holds that lock; `RemoveDirectory` removes what a deletion
left to remove after its commit. A creation that fails removes the files it staged, each
on its own: one whose removal fails as well stays, as the code ignores that error. A
submission is kept to what deletions can meet: `PlanSubmission`, `Publish`, `Complete`,
`CleanupDrafts` (their steps are in `FeedbackPublication`). `abandoned`, `reborn` and
`gone` are history: files that an accident or a failed removal left, ids that were
created again after a deletion, ids deleted.

**SessionCatalog** is its abstract specification, what the lists of sessions and
requests promise: a request is absent, open, ended or delivered and belongs to one
session; `Ask` brings the session back into view, `End` is final, `Archive` needs a
session with nothing to answer, and `Forget` takes only ended requests of an archived
session, the session with the last one. It has no write lock, files, plans or calls,
and no rows of sessions: a session is there as long as a request of it is. In the
mapping (`Shown`) a result counts as delivered only while its package is on disk.

**DraftWorkspace** is the draft of one request with its attachments, and what
its clients show of it. An edit is one transaction guarded by the revision the
client saw; the file of an attachment is written before it (`WriteFile`, then
`InsertRow` or `RefuseAdd`) and removed after it (`RemoveRow`, `Unlink`); the
view an edit returns is loaded by queries of their own (`LoadDraft`,
`LoadAttachments`), between which other edits commit. `Plan`, `End`, `Deliver`
and `CleanupDrafts` are what the publication does to it.

**SharedDraft** is its abstract specification: a text, a list of attachments, and
who shows them as they are now. Only such a client can change the draft; who saves a
text then shows the new one alone, after a change of the attachments nobody shows
the draft, and when the editing has ended nothing changes. It has no revisions,
files or loads in several queries.

**SpeechSession** has the commands that start and stop a session (`starting` is
the held mutex, `active` what it guards), the owner thread (`phase`), the audio
callback (`Capture`, `MissBuffer` and then `CountDrop`, `StreamError`), the bounded
channel (`queue`) and the recognition worker (`worker`), for both engines. The worker
finds the queue empty (`Timeout`) and loads the flag in a later step (`GoOn`,
`LeaveLoop`); the callback finds it full (`MissBuffer`) and counts the drop in a later
one. A buffer or a drop is only known by when it came: before the stop (early), after
it (late), or before it but in the moment between the worker's last look at the queue
and its look at the flag (unseen).

**Dictation** is its abstract specification, what the person who speaks may rely on: one
session starts or records at a time, while the one before is still heard out; what is
said until the microphone closes is owed (`owed`: speech not recognised, a gap not
reported), once closed debts are only paid, and a session is over when it owes nothing
and no words may still change. The one loss it allows is what comes in unseen, in the
moment of the stop, when all that came before is settled. In the mapping a session is
over when its last event was `Stopped`, so an event after it would take that back.

**SpeechModel** is one download: for each file its final place (`stored`), its
part file (`part`), the addresses tried for it (`tries`), the archive as the
second choice, `Delete` and `Crash` at any step. A file is its size in chunks
and whether its bytes are right so far; hashes tell right from wrong.

**ScreenCapture** composes the commands of the desktop process with the windows that
call them. Each caller (`Starts`, the overlay's `editor` and `opener`, the `scroller`,
the `import`) has a call with a program counter, one step per stretch of the code
between two mutexes or window operations; `toOverlay` and `toMain` are the events on
their way. The overlay may fail to be shown (`FailWake`) and may be closed by the window
system at any time (`CloseOverlay`): nobody handles either. `misread`, `crossed` and
`faulted` are history for the properties.

`FeedbackPublication` has `FeedbackLifecycle` as an instance (`Lifecycle`),
`DraftWorkspace` has `SharedDraft` (`Shared`), `HostSessions` has `SessionCatalog`
(`Catalog`), `SpeechSession` has `Dictation` (`Dictated`).
`HostSessions` and `DraftWorkspace` meet it at the plan, the delivery and the
cleanup: what they take as one step is split there, and what it leaves out
(creation and deletion, attachments) is split here. `ScreenCapture.AddPicture` is
`DraftWorkspace`'s addition of an attachment.
`FeedbackWaiters` takes the end of a request as one step; `FeedbackPublication`
shows how a call gets there. The `MC*` modules hold constants for TLC, the
`*_proofs` modules theorems. Definitions marked *Variant* are plausible bugs,
kept next to the definition they vary: with the variant in its place TLC
violates the property listed with it in PROJECT.json.

## What is checked

| Run (cfg) | Instance | Shows |
|---|---|---|
| `MCFeedbackPublication` | 1 request, 2 calls, 3 bodies, 2 cooked inputs, 2 reasons, revision <= 2, 1 crash; 989,054 states | `DraftFrozen`, `OnlyPlannedPackages`, `DeliveredIsPlanned`, `DraftFilesOutlivePlan`, `OutcomeHasPackage`, `DurablePackageStays`, `OpeningReconciles`, `RefusalsAreTrue`, `FailuresAreReal`; every step refines `FeedbackLifecycle` |
| `MCFeedbackPublicationCalls` | 3 calls, no crash; 485,057 states | `HeldIsStored`, `OkIsTheOutcome` |
| `MCFeedbackPublicationLive` | 2 calls, 1 crash, fair; 91,395 states | `CallsAnswered`, `OpeningEnds`, `PlanSettles` |
| `MCFeedbackWaiters` | 2 requests, 2 waiters, 3 enders, fair; 128,920 states | `NoLostWakeup`, `WaitersReleasedUnlessUntold` |
| `MCHostSessions` | 2 requests, 2 sessions, 1 agent, 1 deleter, 1 submission, 2 ids, 1 crash; 381,078 states | `SessionsMatchRequests`, `StoredFilesExist`, `NothingElseIsLeft`; every step refines `SessionCatalog` |
| `MCDraftWorkspace` | 2 clients, 2 texts, 3 attachment ids of which 2 may be attached, 3 edits, offset 2, 1 crash; 1,549,935 states | `FilesMatchRows`, `ReorderingIsSafe`; every step refines `SharedDraft` |
| `MCSpeechSession` | 2 sessions, one per engine, queue of 2, fair; 173,452 states | `SpeechOutlivesStop`, `DropsAreReported`, `StartsAndStopsEnd`; every step refines `Dictation` |
| `MCSpeechModel` | 2 files, one hashed, an archive, 2 addresses, 2 chunks, 1 deletion or crash, fair; 435,838 states | `InstalledIsGenuine`, `DownloadRecovers` |
| `MCScreenCapture` | 2 starts, 2 requests, 2 captures, 2 frames; 383,550 states | `NeverStranded`, `ConsoleComesBack`, `ReachesItsRequest` |
| `FindingStartReconciles`, `FindingRepeatedCancel`, `FindingWaitersReleased` | small | the three findings below |

Why these bounds are enough to be interesting: one request is where calls conflict (only
`publish_lock` and the loop of the recovery are shared between requests, and the
theorems hold for any number); two calls give every pair of submit, cancel and approve,
three a pair that races and one that overtakes; two revisions let a draft move between
the read and the plan; one crash can come after every step, and the recovery itself is a
caller that can fail. A second crash during the recovery starts from a state the first
one can also leave. For the other modules: two requests of one session or of two are
what archiving and deleting tell apart, and one agent, one deleter and one submission
give every pair of calls that meet (the write lock orders the rest). With a second
submission (1,217,092 states), and with a third kind of request, without an attachment
in the first session (1,359,546 states), the properties of `MCHostSessions` hold too;
both were checked once and are too slow for a run. Two clients make every conflict of
revisions, three edits and three attachments a gap between positions; the offset of a
reordering is 2 there, so that the case it must not meet is within reach
(`ReorderingIsSafe` says at which revision). Two voice sessions let one start while the
other stops, and a queue of two buffers is one that is neither empty nor full. A queue
of three (one session, 3,015 states) and two sessions with audio at once (a queue of
one, 951,665 states) were checked once, with the same properties but, for the latter,
the liveness. Two chunks are a part file that is neither empty nor complete, and two
addresses a file mixed from both; with a deletion *and* a crash (929,000 states) the
properties of `MCSpeechModel` hold too. Two captures are one that outlives its windows
and one that follows; three, without failing windows, were checked once (5.5 million
states, before the overlay could fail). Five constraints prune what adds states and no
case: `OneFileLeft` (at most one file left behind), `OneReader` (one client at a time
reads a file) and `QuietEnd` (once the draft is frozen or the request has ended, one
client at a time has a call under way) in `MCDraftWorkspace`, `OneMishap` (a capture
that lost a window is not crossed by another start as well) in `MCScreenCapture`,
`OneSounds` (one voice session at a time has audio under way; the sessions share no
queue, flag or engine) in `MCSpeechSession`. Without `QuietEnd` the draft has 3,391,110
states, and its properties hold in them too. Three ids of which two may be attached let
two clients race for the last place; that no race exceeds the limit is also part of the
theorem `TypeCorrect` of `DraftWorkspace_proofs`.

`CHECK_DEADLOCK FALSE`: in the first three runs every call is made at most once and
edits and crashes are bounded (`MaxRevision`, `MaxCrashes`), so a run really stops; the
other modules stop at their bounds (ids, edits, captures), and a voice session or a
download when it is over; an opening that was refused also stops the program. Symmetry
is used only in runs without liveness.

Fairness: weak, per caller and for the recovery loop. The tokio runtime polls every
woken task and `publish_lock` is a fair tokio mutex; nothing obliges a person to write,
a call to be made, an error, a drop, a crash, or the execution of a detached rename.
`CallsAnswered` holds with weak fairness of the step that takes the lock because each
call takes it at most once. No fairness keeps the opening from being refused:
`OpeningEnds` says that it comes to an end, not that the store opens, and `PlanSettles`
leaves out a start that was refused. In `SpeechSession` the owner threads and the worker
go on (`WF` of `StartSession \/ StopSession` and of `Work`), a callback that has begun
returns (`WF` of `CountDrop`), and nothing is asked of the person or the audio device:
`StartsAndStopsEnd` holds however much audio keeps coming in. In `SpeechModel` the
download goes on, the person asks again while the model is not installed, and the
network is healthy in the end (`WF` of `Download` and `Heal`); deletions and crashes are
finite. `ScreenCapture` has no liveness property: its calls wait for the operating
system and for the person, and `NeverStranded` is the safety they need.

### Findings

- `StartReconcilesPackages`: docs/ARCHITECTURE.md:236 promises that a package
  published without its database update is reconciled at the next start.
  `approve_request_impl` ignores plans: if it ends the request while a package is
  being published and the process stops before `complete_*`, the replay is
  refused for ever, and the package and its `preparing` plan stay.
- `RepeatedCancelAnswered`: docs/PROTOCOL.md:281 says a repeated cancellation
  returns the original state; of two concurrent cancels the slower one gets
  REQUEST_TERMINAL from `plan_cancellation`.
- `WaitersReleased`: docs/PROTOCOL.md:260 says all waiters are released by the
  terminal state; an HTTP cancel or approve dropped between commit and
  `notify_terminal`, or an approve whose read of the row after its commit fails
  (`request_ops.rs:439`, returned at `feedback.rs:435`), leaves them parked.

### Abstractions

- A publication id is fresh, so a call stands for its publication; the archive
  of a legacy cancellation has a fixed id, the request. Hashes are injective: a
  digest is its body. Cooked text, model and uncooked override are one value.
- Every request has attachment files in its draft directory (the case in which
  publishing can fail for want of them).
- An edit is the transaction that advances the revision; a stale revision
  changes nothing and is in DraftWorkspace.
- A request that an older version cancelled (no plan, result or resolution) is
  in the initial states.
- The replay takes pending plans in any order (the code: by time).
- Not in FeedbackPublication: creation and deletion of requests (HostSessions), a
  change of the library root, the value of `last_error_code` (that recording it may
  fail is there), a `remove_dir_all` that survives a drop, files removed
  by hand, Windows' write-through move (there the rename is durable at once,
  which is a special case).
- In FeedbackWaiters, the error branch of `changed()` is left out: a sender is
  dropped only after it sent.
- `NoLostWakeup` and `WaitersReleasedUnlessUntold` leave out a request whose ender
  stopped between its commit and its notification, as long as no other call has
  notified since (`untold`); the finding `WaitersReleased` is about these.
- `NothingElseIsLeft` leaves out files whose removal failed, or was never come to
  because of a crash or a drop (`abandoned`). The files of a creation that failed are
  among them only one by one: each one that can be removed is.
- `SpeechOutlivesStop`, `DropsAreReported` and `Dictation` leave out what the callback
  pushes or drops between the worker's timeout (`native.rs:710`) and its load of the
  flag (`native.rs:720`), when the stop clears the flag in the same moment (unseen):
  the worker breaks out of its loop without another look. `DropsAreReported` leaves out
  as well a drop that is counted only after the worker has drained the full queue and
  waits again (`native.rs:681`, `native.rs:682`). Both are audio of the last instant.
- `StoredFilesExist` leaves out the attachments of a request that was created
  again under the id of a deleted one (`reborn`): the cleanup of the earlier
  submission, or the removal of the deletion, may take the new files. The code
  names directories by request id and has nothing that would tell the two lives
  apart; agents choose fresh ids.
- `ViewsAreWhole` leaves out the attachments of a view whose revision came from
  the answer to a repeated save (`replayed`): `save_draft` answers a save whose
  text is stored already with the current revision, without attachments.
- `NeverStranded` and `ReachesItsRequest` leave out two starts that both passed the
  `captureBusy` guard (`crossed`), windows or events that fail where no call handles it,
  the overlay that cannot be shown (`overlay.rs:84`) among them, and an overlay closed
  by the window system (`overlay.rs:34`) (both `faulted`); `ConsoleComesBack` leaves out
  a capture that began while another one hid the console (`misread`). The comments above
  them name the lines. These are limits of the code, not of the model: without the
  carve-outs TLC shows the behaviours.
- Audio samples, levels, hotwords, resampling and the recogniser's results are choices;
  the bound of the last decoding rounds is a loop that ends. A file that the manifest
  states no hash of is judged by its size alone, as in the code, and
  `InstalledIsGenuine` says nothing of it. There is one download at a time, as in the
  interface (`SettingsPanel.svelte:290`); nothing in `model.rs` excludes two.
- Pixels, selections and stitching are choices of the steps that depend on them.
  A picture that was taken and whose import fails is lost
  (`attachmentController.ts:284`, `commands.rs:423`): the model has it (`FailImport`)
  and no property forbids it.

## What is proved

TLAPS checks the theorems below for every set of requests, calls, texts,
reasons, waiters and enders, and every bound. The assumptions are those the
modules name (`CallersAssumption`, `NoneAssumption`, ...): `Boot` is no call,
`None` and `Partial` are none of the values they stand beside, a start is no
window, a blank body is a text, a cooked input is made of texts,
NULL is no package and no draft that is shown. TLC evaluates them on every run.

| Theorem (module) | States |
|---|---|
| `TypeCorrect` (`FeedbackPublication_proofs`) | every variable keeps its type; with it, a call that runs knows its input, and one that publishes holds a plan |
| `DraftFrozenCorrect` | a planned draft does not move |
| `HeldIsStoredCorrect` | every caller that holds a plan holds the stored one |
| `OnlyPlannedPackagesCorrect` | no package without its plan, and none that says anything else |
| `DeliveredIsPlannedCorrect` | a recorded result is a whole, durable package of the published plan |
| `DraftFilesOutlivePlanCorrect` | draft files go after delivery |
| `OutcomeHasPackageCorrect` | the outcome in the row is the one in the package |
| `DurablePackageStaysCorrect` | no step changes or removes a durable package |
| `OkIsTheOutcomeCorrect` | a call answers ok only where its request has ended as it asked |
| `Refinement` | `FeedbackPublication` implements `FeedbackLifecycle` |
| `OpeningReconcilesCorrect` (`FeedbackOpening_proofs`) | a start in which nothing fails leaves no plan and no legacy cancellation behind, but for the three cases the property names |
| `RefusalsAreTrueCorrect` | a refusal says what the rows say |
| `FailuresAreRealCorrect` | leftovers of other calls and of crashes fail no call |
| `LockIsReleasedCorrect` | whoever has `publish_lock` is publishing |
| `EndsOnceCorrect`, `PackageTellsOutcomeCorrect` | an end is never taken back; the package tells the row's outcome and reason |
| `SessionsMatchRequestsCorrect` (`HostSessions_proofs`) | open requests are visible, no session is empty, flags name sessions that exist |
| `Refinement` | `HostSessions` implements `SessionCatalog` |
| `OpenRequestsSurviveCorrect` | no deletion takes a request that is still open |
| `StoredFilesExistCorrect` | what a stored request points to is on disk |
| `NothingElseIsLeftCorrect` | every other file belongs to a call, or is left of an accident or of a removal that failed |
| `ViewsAreWholeCorrect` (`DraftWorkspace_proofs`) | who may edit shows what is stored |
| `NoBlindOverwriteCorrect` | no text is overwritten unseen |
| `Refinement` | `DraftWorkspace` implements `SharedDraft` |
| `FilesMatchRowsCorrect` | rows have files, files rows or the call between the two |
| `ReorderingIsSafeCorrect` | positions differ; a shift meets no row before `Offset` edits |
| `SpeechOutlivesStopCorrect`, `DropsAreReportedCorrect`, `StoppedIsLastCorrect` (`SpeechSession_proofs`) | what was said before a stop is recognised and dropped audio reported, what came in unseen at the moment of the stop apart; no event follows the last |
| `Refinement` (`SpeechSession_proofs`) | `SpeechSession` implements `Dictation` |
| `InstalledIsGenuineCorrect` (`SpeechModel_proofs`) | a hashed file of the right size is the right file |
| `NeverStrandedCorrect`, `ReachesItsRequestCorrect` (`ScreenCapture_proofs`) | unless starts cross, or a window or an event fails or the overlay is closed, a capture has a window that ends it, and its picture reaches its request |
| `ConsoleReturns` (`ScreenCapture_proofs`) | the console is back when the capture is over |
| `TypeCorrect` (each of these modules) | types; the one writer is the creation under way; the limit of attachments holds; a session in its phase is the one the mutex knows; what is unpacked was verified |
| `NoLostWakeupCorrect`, `SenderUsedOnceCorrect`, `TypeCorrect` (`FeedbackWaiters_proofs`) | no wake-up is lost unless the ender stopped untold; a sender is used once; types |

None of the properties of the publication is inductive alone. `TypeInv` adds to
the types what makes the plans and rows readable: a cancellation has a reason
(`ReasonsInv`), a running caller its input and plan (`CallersInv`), no call runs
while the store opens or after it was refused (`StartInv`). `IInv` adds

- `DatabaseInv`: how status, resolution, plan and result of a row agree;
- `HeldIsStored`: what a caller holds, however late it is, is the stored plan;
- `DiskInv`: a temporary directory too holds the content of its plan, since a
  rename (of the caller, or one that outlived it) makes it the package;
- `StepsInv`: what a caller may rely on where it stands: it has `publish_lock`
  while it publishes; before the rename its temporary directory is its own or
  gone; after it the package is its content; before the commit it is durable;
  before the cleanup the result is recorded.

The argument turns on two lemmas about every step. `PlanKept`: nothing a stored
plan stands for (publication, frozen body, content) ever changes, so a plan read
in one transaction may be used in any later step. `DirectoriesStep`: the ways a
step may move a directory, from which durable packages stay. The proof then goes
conjunct by conjunct: `PlanStep`, `CompleteStep`, `HeldStep` and `PublisherStep`
say what the calls do to what the conjunct is about, and the other actions leave
it alone. TLC checked `IInv` as an invariant of the instance of
`MCFeedbackPublication` before it was proved.

`Refinement` maps the delivered package of a request to the directory its result
names. Edits and the first cancellation of an untouched request are `Work`, an
approval is `Approve`, `Complete` is `Submit`, `Cancel` or `ArchiveLegacy`, and
everything else, crashes included, is invisible.

`OkIsTheOutcome` needs to know what a call that is about to answer relies on.
`AnswersInv` adds to `IInv` that a completed request was submitted or approved
(`CompletedInv`) and that a call holds a plan of the kind and the request it was
asked for, and past its commit sees that come true (`AskedInv`); it stays true
because an end and a recorded result never change (`EndKept`).

`FeedbackOpening_proofs` goes on from there. `OpeningReconciles` compares the state
when the store is open with rows that may date from any time before, so its
invariant `OpeningInv` adds to `IInv`

- `RowsInv`: how row, draft and plan of a request go together (a waiting request
  has no draft, a draft in work has the row's revision, a plan to submit was made
  from a draft that is not blank), from which it follows that the replay of a
  stored plan is refused only for an approval;
- `OwnersInv`: a plan is published under the id of a call that was asked about its
  request, or of the archive of that request, so two requests share no directory;
- `BootInv`: what the opening relies on at each step of a replay or an archive;
- `ReconcileInv`: once the scan is over, a request with a plan left to deliver, or
  a legacy cancellation left to archive, is still to do, is being done, or is one of
  the exceptions, unless something failed since the start (an opening that was
  refused is such a failure).

The proof follows the opening (`BootReads`, `BootPlans`, `BootPublishes`, `BootEnds`):
each of its steps goes on or settles the request it is at, and leaves the others alone
(`BootElsewhere`). The refusals and failures need `RefusalInv`: a call that reads again
did so because the request was closed to it, which `ClosedKept` shows to stay so
(`RereadInv`); the probe file of a call is its own, so `create_new` meets none
(`ProbesInv`); and unless something failed no rename is queued, so who stages keeps its
final name free and its temporary directory (`StagingInv`). `StepAnswers` then goes
through the steps that end a call, with one lemma for each group (`ReadersTell`,
`PlannersTell`, ...).

For the waiters, `IInv` joins the types with `EnderInv` (an ender at work has a
request, which has ended), `SenderInv` (a sender that was taken out of the map
was sent to, or the one ender that took it is about to) and `WaiterInv` (a
waiter listens to a sender that was taken or to the one in the map; there, if
its request has ended, an ender has still to take it or one stopped untold).

For the host sessions, `IInv` joins types and `SessionsMatchRequests` with what
the calls may rely on: a request being created is not stored, and its staged
files are there unless its id had an earlier life (`CreateInv`); no plan has an
id that is still to be made, and a deleted id is only stored again as a reborn one
(`PlanInv`); the package a submission is about to record is there while its plan
is the stored one, and who cleans up drafts does so for a request that has ended
or is gone (`HeldInv`); what a deletion has still to remove belongs to requests
that were deleted, and is never the package of a stored plan (`RemovalInv`).
`LeftInv` is `NothingElseIsLeft` with the step a submission is at.

The refinement of `SessionCatalog` first shows that under `IInv` the files drop out
of the mapping (`ShownByRows`: by `StoredFilesExist` the package of a delivered request
is there, before and after every step), so that a directory that is removed, a draft
that is cleaned up or a crash is invisible. What is left are rows: a commit is `Ask`
(`CommitAsks`, from `CreateInv`: nobody stored the request meanwhile), an approval or a
completion `End`, a deletion `Forget` (`DeletionForgets`). The catalogue derives which
sessions there are from the requests, the code keeps rows and flags of its own; that
the two agree, before a pin as after a deletion, is `SessionsMatchRequests`.

For the draft, `ViewInv` says that a view, and a load that is half done, belongs
to the revision it names: every edit advances it, so one that is equal to the
stored one was read from the stored rows. `FileInv` gives an id between file and
row to one call alone. `PositionInv` bounds positions and their number by the
revision, since every edit moves the last position by one at most; from it
follows that a shift by `Offset` meets no row before as many edits.

The refinement of `SharedDraft` takes from `ViewInv` that everyone whose view names
the stored revision (`Presents`) shows the draft (`ShowsASight`; a view that was
replayed shows the text and does not know the attachments). A save is `Save`
(`SaveSaves`), an addition, a removal or a reordering that commits is `Attach`
(`EditAttaches`: it raises the revision, so nobody names it any more, `EditHides`);
the plan and the end are `Freeze`; a load that ends, a repeated save and a crash are
`Look` (`LookingIsAllowed`); everything else is invisible.

For a voice session, `MutexInv` says that the mutex guards a start or an active session,
never both, `OwnerInv` which of stream, flag and worker there are in each phase, and
`WorkerInv` why the worker leaves nothing behind but what went unseen: it ends with no
early buffer in the queue and no unreported drop of one; while it waits, such a drop
means that a buffer is there to wake it, and once it has timed out the queue holds
nothing early and no such drop is left. The refinement of `Dictation` goes by session: a
step of one leaves all that is seen of the others (`SameIsSeen`), the owner thread moves
the stage and no audio (`OwnerMoves`), and callback and worker are `Hear`
(`CaptureHears`, `ReceiveHears`, ...), which needs that whoever is at work belongs to a
session that has begun and is not over (`Working`). `End` is the join, where `WorkerInv`
says that nothing is owed. For a model, `TargetInv` says what the download is after at
each step, and `CheckedInv` that between its check and its renaming only a deletion
touches a part file.

For a screen capture, the console is owed by the session or by the call that ended
it (`OwnerInv`), and both know that it was shown (`ShownInv`); `SpentInv` says that
the session whose picture is ready is never edited again, so a late call about it
finds nothing to undo. That nobody is stranded is no local fact: it needs to know
that at most one actor can take the capture further. `PhaseInv` lists the nine phases
of a capture and, in each, where every window stands and which session and request
it works on; a lemma per phase (`FromEditing`, ...) lists the steps that are possible
there and the phase each leads to. `crossed` and `faulted` are what breaks this, and
the properties make the exception for them.

In each module an effect lemma per action (`...Does`) says what the step does to
each variable; the preservation of a conjunct then has one step per action that
can disturb it. TLC checked every `IInv` on the instance of the module's run first.

Only model-checked: the liveness properties (beyond TLAPS) and the three findings; every
other property of the runs is a theorem. The other way round, `EndsOnce`,
`PackageTellsOutcome`, `LockIsReleased`, `OpenRequestsSurvive`, `StoppedIsLast`,
`SenderUsedOnce`, `ViewsAreWhole` and `NoBlindOverwrite` are theorems that no run lists
any more: TLC checked them on the same instances before they were proved, and the
refinements, or the properties next to them, say as much of a small instance. No module
declares a RECURSIVE operator. An instance with two requests, two calls and one crash
(no cooked input, revision <= 1; 3,051,971 states) was checked against the properties of
`MCFeedbackPublication` once; it takes minutes and is no run.

## Not modelled

- `rename_host_session` and `set_host_pinned` set values that no other operation
  reads; `externalize_legacy_request_attachments`, schema migration, backup and
  the access token run once, before any call.
- `set_data_storage_path` copies the library and switches the root while calls
  run: its files would have to be followed one by one through two roots. Every
  module fixes the root. It is listed as a hazard.
- The Pi and DSH adapters run inside other programs; the server's side of their
  retries is in `HostSessions`.
- Autosave, cooking and publishing of the workbench hold a revision across
  awaits. What the store guarantees against it is in `DraftWorkspace`.
- A `remove_dir_all` that outlives its dropped caller (`package.rs:155`), a second
  download that shares a part file, a model deleted while a session starts on it
  (`commands.rs:688`): listed as hazards, each with the reason.
- The map of pins, annotation, the clipboard watcher, the tray, permissions,
  notifications, installers, diagnostics, texts and prompts.

What would come next: the storage migration next to calls under way, the
publishing controller over `FeedbackPublication`'s answers, and the adapters over a
lossy connection.
