----------------------------- MODULE SpeechModel -----------------------------
(***************************************************************************)
(* The download of one speech model (model.rs): its files from mirrors or  *)
(* from their own addresses, the archive as the second choice, each        *)
(* through a part file that a later attempt resumes; deletion of the       *)
(* model; and a process that dies at any step.                             *)
(*                                                                         *)
(* A file on disk is known by its size and by whether its bytes are those  *)
(* of the right file so far (good).                                        *)
(***************************************************************************)
EXTENDS Integers

CONSTANTS
    Files,       \* the files of the manifest
    Hashed,      \* the files whose SHA-256 it states
    HasArchive,  \* whether there is an archive to fall back to
    Sources,     \* how many addresses are tried for a file or the archive
    Full,        \* the size of every file, in chunks
    Archive,     \* the archive file, outside of the model's directory
    None,        \* no file, no address
    MaxMishaps   \* bound on the deletions and crashes

ASSUME FilesAssumption == Hashed \subseteq Files /\ Archive \notin Files
ASSUME SourcesAssumption == HasArchive \in BOOLEAN /\ Sources \in Nat \ {0} /\ Full \in Nat \ {0}
ASSUME BoundsAssumption == MaxMishaps \in Nat

Targets == Files \cup {Archive}

\* A file may get longer than it should, but not by more than it takes to see it.
Contents == [size: 0..(Full + 1), good: BOOLEAN]

ASSUME NoneAssumption == None \notin Targets \cup Contents

VARIABLES
    stored,   \* stored[t]: the file at its final place, or None
    part,     \* part[t]: the part file, or None
    at,       \* where the download is
    target,   \* the file or archive it is after, or None
    tries,    \* how many addresses were tried for it
    ahead,    \* the files the current pass has still to download or unpack
    healthy,  \* from now on every address answers, and rightly
    mishaps   \* how often the model was deleted or the process died

disk == <<stored, part>>
vars == <<disk, at, target, tries, ahead, healthy, mishaps>>

Steps == {"idle", "files", "send", "receive", "check", "replace", "rename",
          "unpack", "write", "validate"}

Fresh == [size |-> 0, good |-> TRUE]
SizeOf(f) == IF stored[f] = None THEN 0 ELSE stored[f].size

\* model_info: what is installed is judged by size.
Installed == \A f \in Files : SizeOf(f) = Full

Init ==
    /\ stored = [t \in Targets |-> None]
    /\ part = [t \in Targets |-> None]
    /\ at = "idle" /\ target = None /\ tries = 0 /\ ahead = {}
    /\ healthy = FALSE
    /\ mishaps = 0

-----------------------------------------------------------------------------
(* download_model: the files one after the other.                          *)

\* Nothing is left to do, or the person is told what failed.
Return == at' = "idle" /\ target' = None /\ tries' = 0 /\ ahead' = {}

FetchArchive == at' = "send" /\ target' = Archive /\ tries' = 1 /\ ahead' = {}

Begin ==
    /\ at = "idle" /\ ~Installed
    /\ at' = "files" /\ ahead' = Files
    /\ UNCHANGED <<disk, target, tries, healthy, mishaps>>

\* A file of the right size is not downloaded again.
NextFile(f) ==
    /\ at = "files" /\ f \in ahead
    /\ IF SizeOf(f) = Full
       THEN ahead' = ahead \ {f} /\ UNCHANGED <<at, target, tries>>
       ELSE at' = "send" /\ target' = f /\ tries' = 1 /\ UNCHANGED ahead
    /\ UNCHANGED <<disk, healthy, mishaps>>

EndFiles ==
    /\ at = "files" /\ ahead = {}
    /\ IF HasArchive /\ ~Installed THEN FetchArchive ELSE Return
    /\ UNCHANGED <<disk, healthy, mishaps>>

\* Variant: one address too many.
GiveUpLate ==
    IF tries <= Sources
    THEN at' = "send" /\ tries' = tries + 1 /\ UNCHANGED <<target, ahead>>
    ELSE IF target # Archive /\ HasArchive /\ ~Installed THEN FetchArchive ELSE Return

\* The next address; or the archive; or an error.
GiveUpSource ==
    IF tries < Sources
    THEN at' = "send" /\ tries' = tries + 1 /\ UNCHANGED <<target, ahead>>
    ELSE IF target # Archive /\ HasArchive /\ ~Installed THEN FetchArchive ELSE Return

\* The network, or a status that is neither success nor 416.
FailSend ==
    /\ at = "send" /\ ~healthy
    /\ GiveUpSource
    /\ UNCHANGED <<disk, healthy, mishaps>>

PartSize == IF part[target] = None THEN 0 ELSE part[target].size

\* 206: the answer continues the part file.
Resume ==
    /\ at = "send"
    /\ PartSize > 0
    /\ healthy => PartSize < Full
    /\ at' = "receive"
    /\ UNCHANGED <<disk, target, tries, ahead, healthy, mishaps>>

\* 200: the part file is created anew.
Restart ==
    /\ at = "send"
    /\ healthy => PartSize = 0
    /\ part' = [part EXCEPT ![target] = Fresh]
    /\ at' = "receive"
    /\ UNCHANGED <<stored, target, tries, ahead, healthy, mishaps>>

\* Variant: 416 is an error like any other status.
RefuseRange ==
    /\ at = "send" /\ PartSize > 0
    /\ healthy => PartSize >= Full
    /\ GiveUpSource
    /\ UNCHANGED <<disk, healthy, mishaps>>

\* 416: nothing is read, but the part file is created anew all the same.
RangeNotSatisfiable ==
    /\ at = "send" /\ PartSize > 0
    /\ healthy => PartSize >= Full
    /\ part' = [part EXCEPT ![target] = Fresh]
    /\ at' = "check"
    /\ UNCHANGED <<stored, target, tries, ahead, healthy, mishaps>>

\* A chunk is written; a part file deleted meanwhile takes it to nowhere.
ReceiveChunk(honest) ==
    /\ at = "receive"
    /\ healthy => honest /\ PartSize < Full
    /\ IF part[target] = None THEN UNCHANGED part
       ELSE /\ part[target].size <= Full
            /\ part' = [part EXCEPT ![target] =
                  [size |-> @.size + 1, good |-> @.good /\ honest /\ @.size < Full]]
    /\ UNCHANGED <<stored, at, target, tries, ahead, healthy, mishaps>>

\* The connection breaks: the part file stays for the next attempt.
FailReceive ==
    /\ at = "receive" /\ ~healthy
    /\ GiveUpSource
    /\ UNCHANGED <<disk, healthy, mishaps>>

EndOfBody ==
    /\ at = "receive"
    /\ healthy => part[target] = None \/ PartSize >= Full
    /\ at' = "check"
    /\ UNCHANGED <<disk, target, tries, ahead, healthy, mishaps>>

\* Variant: only the size is compared.
AcceptableBySize(t) == part[t] # None /\ part[t].size = Full

\* The size, and the hash where the manifest has one.
Acceptable(t) ==
    /\ part[t] # None /\ part[t].size = Full
    /\ t \in Hashed \cup {Archive} => part[t].good

CheckPart ==
    /\ at = "check"
    /\ IF Acceptable(target)
       THEN at' = "replace" /\ UNCHANGED <<part, target, tries, ahead>>
       ELSE part' = [part EXCEPT ![target] = None] /\ GiveUpSource
    /\ UNCHANGED <<stored, healthy, mishaps>>

\* What is at the final place is removed first ...
RemoveOld ==
    /\ at = "replace"
    /\ stored' = [stored EXCEPT ![target] = None]
    /\ at' = "rename"
    /\ UNCHANGED <<part, target, tries, ahead, healthy, mishaps>>

\* ... and the part file renamed, unless it was deleted.
RenamePart ==
    /\ at = "rename"
    /\ IF part[target] = None
       THEN GiveUpSource /\ UNCHANGED disk
       ELSE /\ stored' = [stored EXCEPT ![target] = part[target]]
            /\ part' = [part EXCEPT ![target] = None]
            /\ at' = IF target = Archive THEN "unpack" ELSE "files"
            /\ ahead' = IF target = Archive THEN Files ELSE ahead \ {target}
            /\ UNCHANGED <<target, tries>>
    /\ UNCHANGED <<healthy, mishaps>>

-----------------------------------------------------------------------------
(* download_archive, once the archive is there.                            *)

\* A file is created anew over whatever is at its final place ...
UnpackFile(f) ==
    /\ at = "unpack" /\ f \in ahead
    /\ stored' = [stored EXCEPT ![f] = Fresh]
    /\ target' = f
    /\ at' = "write"
    /\ UNCHANGED <<part, tries, ahead, healthy, mishaps>>

\* ... and written, to nowhere if it was deleted since.
WriteUnpacked ==
    /\ at = "write"
    /\ stored' = [stored EXCEPT ![target] =
          IF @ = None THEN None ELSE [size |-> Full, good |-> stored[Archive].good]]
    /\ ahead' = ahead \ {target}
    /\ target' = Archive
    /\ at' = "unpack"
    /\ UNCHANGED <<part, tries, healthy, mishaps>>

\* An entry cannot be read or written.
FailUnpack ==
    /\ at \in {"unpack", "write"} /\ ~healthy
    /\ Return
    /\ UNCHANGED <<disk, healthy, mishaps>>

\* The archive is removed, if that works.
RemoveArchive ==
    /\ at = "unpack" /\ ahead = {}
    /\ stored' \in {stored, [stored EXCEPT ![Archive] = None]}
    /\ at' = "validate"
    /\ UNCHANGED <<part, target, tries, ahead, healthy, mishaps>>

\* validate_model_files, and the look at the sizes that ends every download:
\* whatever they find is only told to the person.
Validate ==
    /\ at = "validate"
    /\ Return
    /\ UNCHANGED <<disk, healthy, mishaps>>

-----------------------------------------------------------------------------
\* delete_model: remove_dir_all, which may stop half way.
Delete ==
    /\ mishaps < MaxMishaps
    /\ mishaps' = mishaps + 1
    /\ \E S, P \in SUBSET Files :
          /\ stored' = [t \in Targets |-> IF t \in S THEN None ELSE stored[t]]
          /\ part' = [t \in Targets |-> IF t \in P THEN None ELSE part[t]]
    /\ UNCHANGED <<at, target, tries, ahead, healthy>>

Crash ==
    /\ mishaps < MaxMishaps
    /\ mishaps' = mishaps + 1
    /\ at' = "idle" /\ target' = None /\ tries' = 0 /\ ahead' = {}
    /\ UNCHANGED <<disk, healthy>>

\* The network and the servers work from now on.
Heal ==
    /\ ~healthy
    /\ healthy' = TRUE
    /\ UNCHANGED <<disk, at, target, tries, ahead, mishaps>>

Download ==
    \/ Begin \/ EndFiles \/ \E f \in Files : NextFile(f)
    \/ FailSend \/ Resume \/ Restart \/ RangeNotSatisfiable
    \/ \E honest \in BOOLEAN : ReceiveChunk(honest)
    \/ FailReceive \/ EndOfBody \/ CheckPart \/ RemoveOld \/ RenamePart
    \/ \E f \in Files : UnpackFile(f)
    \/ WriteUnpacked \/ FailUnpack \/ RemoveArchive \/ Validate

Next == Download \/ Delete \/ Crash \/ Heal

\* The person asks again as long as the model is not installed, the download
\* goes on, and the sources work in the end.
Spec == Init /\ [][Next]_vars /\ WF_vars(Download) /\ WF_vars(Heal)

-----------------------------------------------------------------------------
(* Correctness.                                                            *)

\* The values of the variables; while files are unpacked the archive is there
\* and is the one that was verified.
TypeOK ==
    /\ stored \in [Targets -> Contents \cup {None}]
    /\ part \in [Targets -> Contents \cup {None}]
    /\ at \in Steps
    /\ target \in Targets \cup {None}
    /\ tries \in 0..Sources
    /\ ahead \subseteq Files
    /\ healthy \in BOOLEAN
    /\ mishaps \in 0..MaxMishaps
    /\ at \in {"unpack", "write"} => stored[Archive] = [size |-> Full, good |-> TRUE]

\* Although only sizes are looked at when a model is used or its download is
\* skipped, a hashed file of the right size is the right file: whatever was
\* resumed, mixed from several sources, deleted half way or left by a crash.
InstalledIsGenuine ==
    \A f \in Hashed : SizeOf(f) = Full => stored[f].good

\* No leftover of an earlier attempt stands in the way for ever: once the
\* sources work, asking again installs the model.
DownloadRecovers == <>[]Installed
=============================================================================
