-------------------------- MODULE SpeechModel_proofs --------------------------
(***************************************************************************)
(* For any manifest, any size of its files, any number of addresses and    *)
(* any number of deletions and crashes: a hashed file of the right size is *)
(* the right file.                                                         *)
(***************************************************************************)
EXTENDS SpeechModel, TLAPS

\* What the download is after at each step.
TargetInv ==
    /\ at \in {"send", "receive", "check", "replace", "rename"} => target \in Targets
    /\ at = "unpack" => target = Archive
    /\ at = "write" => target \in Files

\* Between its check and its renaming nothing but a deletion touches the part
\* file, and none touches that of the archive.
CheckedInv ==
    at \in {"replace", "rename"} =>
        /\ part[target] # None => Acceptable(target)
        /\ target = Archive => part[target] # None

IInv == TypeOK /\ TargetInv /\ CheckedInv /\ InstalledIsGenuine

-----------------------------------------------------------------------------
\* Where an attempt that fails goes on.
LEMMA GiveUp ==
    ASSUME TypeOK, GiveUpSource, target \in Targets
    PROVE  /\ at' \in {"send", "idle"}
           /\ at' = "send" => target' \in Targets
           /\ target' \in Targets \cup {None}
           /\ tries' \in 0..Sources
           /\ ahead' \subseteq Files
<1>1. CASE tries < Sources
    BY <1>1, SourcesAssumption DEF GiveUpSource, TypeOK
<1>2. CASE ~(tries < Sources) /\ target # Archive /\ HasArchive /\ ~Installed
    BY <1>2, SourcesAssumption DEF GiveUpSource, FetchArchive, Targets
<1>3. CASE ~(tries < Sources) /\ ~(target # Archive /\ HasArchive /\ ~Installed)
    BY <1>3, SourcesAssumption DEF GiveUpSource, Return
<1> QED BY <1>1, <1>2, <1>3

\* A part file made anew has a content.
LEMMA FreshContent ==
    /\ Fresh \in Contents /\ Fresh # None
    /\ Fresh.size # Full /\ Fresh.good
    /\ \A b \in BOOLEAN : [size |-> Full, good |-> b] \in Contents
<1>1. 0 \in 0..(Full + 1) /\ Full \in 0..(Full + 1) /\ Full # 0
    BY SourcesAssumption
<1>2. Fresh \in Contents
    BY <1>1, Zenon DEF Fresh, Contents
<1>3. \A b \in BOOLEAN : [size |-> Full, good |-> b] \in Contents
    BY <1>1, Zenon DEF Contents
<1> QED BY <1>1, <1>2, <1>3, NoneAssumption DEF Fresh

\* The initial state.
LEMMA InitIInv == Init => IInv
<1> SUFFICES ASSUME Init PROVE IInv
    OBVIOUS
<1>1. /\ stored \in [Targets -> Contents \cup {None}]
      /\ part \in [Targets -> Contents \cup {None}]
    BY DEF Init
<1>2. tries \in 0..Sources /\ mishaps \in 0..MaxMishaps
    BY SourcesAssumption, BoundsAssumption DEF Init
<1>3. TypeOK /\ TargetInv /\ CheckedInv
    BY <1>1, <1>2 DEF Init, TypeOK, TargetInv, CheckedInv, Steps
<1>4. InstalledIsGenuine
    BY FilesAssumption, SourcesAssumption DEF Init, InstalledIsGenuine, Targets, SizeOf
<1> QED BY <1>3, <1>4 DEF IInv

\* Every step keeps the types.
LEMMA TypePreserved == IInv /\ [Next]_vars => TypeOK'
<1> SUFFICES ASSUME TypeOK, TargetInv, CheckedInv, [Next]_vars PROVE TypeOK'
    BY DEF IInv
<1> USE FilesAssumption, SourcesAssumption, BoundsAssumption, FreshContent
    DEF TypeOK, TargetInv, Steps, disk
<1>1. CASE Begin
    BY <1>1 DEF Begin
<1>2. CASE EndFiles
    <2>1. CASE HasArchive /\ ~Installed
        BY <1>2, <2>1 DEF EndFiles, FetchArchive, Targets
    <2>2. CASE ~(HasArchive /\ ~Installed)
        BY <1>2, <2>2 DEF EndFiles, Return
    <2> QED BY <2>1, <2>2
<1>3. ASSUME NEW f \in Files, NextFile(f) PROVE TypeOK'
    <2>1. CASE SizeOf(f) = Full
        BY <1>3, <2>1 DEF NextFile
    <2>2. CASE SizeOf(f) # Full
        BY <1>3, <2>2 DEF NextFile, Targets
    <2> QED BY <2>1, <2>2
<1>4. CASE FailSend
    BY <1>4, GiveUp DEF FailSend
<1>5. CASE Resume
    BY <1>5 DEF Resume
<1>6. CASE Restart
    BY <1>6 DEF Restart
<1>7. CASE RangeNotSatisfiable
    BY <1>7 DEF RangeNotSatisfiable
<1>8. ASSUME NEW honest \in BOOLEAN, ReceiveChunk(honest) PROVE TypeOK'
    <2>1. CASE part[target] = None
        BY <1>8, <2>1 DEF ReceiveChunk
    <2>2. CASE part[target] # None
        <3> DEFINE longer == [size |-> part[target].size + 1,
                              good |-> part[target].good /\ honest /\ part[target].size < Full]
        <3>1. /\ target \in Targets /\ part[target].size <= Full
              /\ part' = [part EXCEPT ![target] = longer]
              /\ UNCHANGED <<stored, at, target, tries, ahead, healthy, mishaps>>
            BY <1>8, <2>2 DEF ReceiveChunk
        <3>2. part[target] \in Contents
            BY <2>2, <3>1
        <3>3. part[target].size \in 0..(Full + 1)
            BY <3>2 DEF Contents
        <3>4. part[target].size + 1 \in 0..(Full + 1)
            BY <3>1, <3>3
        <3>5. longer \in Contents
            BY <3>4, Zenon DEF Contents
        <3> HIDE DEF longer
        <3>6. part' \in [Targets -> Contents \cup {None}]
            BY <3>1, <3>5
        <3> QED BY <3>1, <3>6
    <2> QED BY <2>1, <2>2
<1>9. CASE FailReceive
    BY <1>9, GiveUp DEF FailReceive
<1>10. CASE EndOfBody
    BY <1>10 DEF EndOfBody
<1>11. CASE CheckPart
    BY <1>11, GiveUp DEF CheckPart
<1>12. CASE RemoveOld
    BY <1>12 DEF RemoveOld
<1>13. CASE RenamePart
    <2>1. CASE part[target] = None
        BY <1>13, <2>1, GiveUp DEF RenamePart
    <2>2. CASE part[target] # None
        <3>1. target \in Targets /\ part[target] \in Contents
            BY <1>13, <2>2 DEF RenamePart
        <3>2. /\ stored' = [stored EXCEPT ![target] = part[target]]
              /\ part' = [part EXCEPT ![target] = None]
              /\ at' = IF target = Archive THEN "unpack" ELSE "files"
              /\ ahead' = IF target = Archive THEN Files ELSE ahead \ {target}
              /\ UNCHANGED <<target, tries, healthy, mishaps>>
            BY <1>13, <2>2 DEF RenamePart
        <3>3. target = Archive => part[target] = [size |-> Full, good |-> TRUE]
            <4>1. target = Archive => part[target].size = Full /\ part[target].good = TRUE
                BY <1>13, <2>2, <3>1 DEF RenamePart, CheckedInv, Acceptable, Contents
            <4> QED BY <3>1, <4>1 DEF Contents
        <3> QED BY <3>1, <3>2, <3>3
    <2> QED BY <2>1, <2>2
<1>14. ASSUME NEW f \in Files, UnpackFile(f) PROVE TypeOK'
    <2>1. f \in Targets /\ f # Archive /\ Archive \in Targets
        BY DEF Targets
    <2>2. /\ at = "unpack" /\ at' = "write" /\ target' = f
          /\ stored' = [stored EXCEPT ![f] = Fresh]
          /\ UNCHANGED <<part, tries, ahead, healthy, mishaps>>
        BY <1>14 DEF UnpackFile
    <2>3. stored' \in [Targets -> Contents \cup {None}] /\ stored'[Archive] = stored[Archive]
        BY <2>1, <2>2
    <2> QED BY <2>1, <2>2, <2>3
<1>15. CASE WriteUnpacked
    <2> DEFINE written == [size |-> Full, good |-> stored[Archive].good]
    <2>1. target \in Files /\ target # Archive /\ target \in Targets /\ Archive \in Targets
        BY <1>15 DEF WriteUnpacked, Targets
    <2>2. written \in Contents
        <3>1. stored[Archive].good = TRUE
            BY <1>15 DEF WriteUnpacked
        <3> QED BY <3>1
    <2>3. /\ at = "write" /\ at' = "unpack" /\ target' = Archive /\ ahead' = ahead \ {target}
          /\ stored' = [stored EXCEPT ![target] =
                IF stored[target] = None THEN None ELSE written]
          /\ UNCHANGED <<part, tries, healthy, mishaps>>
        BY <1>15 DEF WriteUnpacked
    <2> HIDE DEF written
    <2>4. stored' \in [Targets -> Contents \cup {None}] /\ stored'[Archive] = stored[Archive]
        BY <2>1, <2>2, <2>3
    <2> QED BY <2>1, <2>3, <2>4
<1>16. CASE FailUnpack
    BY <1>16 DEF FailUnpack, Return
<1>17. CASE RemoveArchive
    BY <1>17 DEF RemoveArchive
<1>18. CASE Validate
    BY <1>18 DEF Validate, Return
<1>19. CASE Delete
    <2>1. PICK S \in SUBSET Files, P \in SUBSET Files :
              /\ stored' = [t \in Targets |-> IF t \in S THEN None ELSE stored[t]]
              /\ part' = [t \in Targets |-> IF t \in P THEN None ELSE part[t]]
        BY <1>19 DEF Delete
    <2>2. /\ mishaps' \in 0..MaxMishaps
          /\ UNCHANGED <<at, target, tries, ahead, healthy>>
        BY <1>19 DEF Delete
    <2>3. /\ stored' \in [Targets -> Contents \cup {None}]
          /\ part' \in [Targets -> Contents \cup {None}]
          /\ stored'[Archive] = stored[Archive]
        BY <2>1 DEF Targets
    <2> QED BY <2>2, <2>3
<1>20. CASE Crash
    BY <1>20 DEF Crash
<1>21. CASE Heal
    BY <1>21 DEF Heal
<1>22. CASE UNCHANGED vars
    BY <1>22 DEF vars, disk
<1> QED BY <1>1, <1>2, <1>3, <1>4, <1>5, <1>6, <1>7, <1>8, <1>9, <1>10, <1>11,
    <1>12, <1>13, <1>14, <1>15, <1>16, <1>17, <1>18, <1>19, <1>20, <1>21, <1>22
    DEF Next, Download

\* Every step keeps what the download is after.
LEMMA TargetPreserved == IInv /\ [Next]_vars => TargetInv'
<1> SUFFICES ASSUME TypeOK, TargetInv, [Next]_vars PROVE TargetInv'
    BY DEF IInv
<1> USE DEF TargetInv, TypeOK, Targets
<1>1. CASE Begin
    BY <1>1 DEF Begin
<1>2. CASE EndFiles
    BY <1>2 DEF EndFiles, FetchArchive, Return
<1>3. ASSUME NEW f \in Files, NextFile(f) PROVE TargetInv'
    BY <1>3 DEF NextFile
<1>4. CASE FailSend
    BY <1>4, GiveUp DEF FailSend
<1>5. CASE Resume
    BY <1>5 DEF Resume
<1>6. CASE Restart
    BY <1>6 DEF Restart
<1>7. CASE RangeNotSatisfiable
    BY <1>7 DEF RangeNotSatisfiable
<1>8. ASSUME NEW honest \in BOOLEAN, ReceiveChunk(honest) PROVE TargetInv'
    BY <1>8 DEF ReceiveChunk
<1>9. CASE FailReceive
    BY <1>9, GiveUp DEF FailReceive
<1>10. CASE EndOfBody
    BY <1>10 DEF EndOfBody
<1>11. CASE CheckPart
    BY <1>11, GiveUp DEF CheckPart
<1>12. CASE RemoveOld
    BY <1>12 DEF RemoveOld
<1>13. CASE RenamePart
    BY <1>13, GiveUp DEF RenamePart
<1>14. ASSUME NEW f \in Files, UnpackFile(f) PROVE TargetInv'
    BY <1>14 DEF UnpackFile
<1>15. CASE WriteUnpacked
    BY <1>15 DEF WriteUnpacked
<1>16. CASE FailUnpack
    BY <1>16 DEF FailUnpack, Return
<1>17. CASE RemoveArchive
    BY <1>17 DEF RemoveArchive
<1>18. CASE Validate
    BY <1>18 DEF Validate, Return
<1>19. CASE Delete
    BY <1>19 DEF Delete
<1>20. CASE Crash
    BY <1>20 DEF Crash
<1>21. CASE Heal
    BY <1>21 DEF Heal
<1>22. CASE UNCHANGED vars
    BY <1>22 DEF vars, disk
<1> QED BY <1>1, <1>2, <1>3, <1>4, <1>5, <1>6, <1>7, <1>8, <1>9, <1>10, <1>11,
    <1>12, <1>13, <1>14, <1>15, <1>16, <1>17, <1>18, <1>19, <1>20, <1>21, <1>22
    DEF Next, Download

\* Every step keeps what is known of a part file that was checked.
LEMMA CheckedPreserved == IInv /\ [Next]_vars => CheckedInv'
<1> SUFFICES ASSUME TypeOK, TargetInv, CheckedInv, [Next]_vars PROVE CheckedInv'
    BY DEF IInv
<1> USE FilesAssumption DEF CheckedInv, TargetInv, TypeOK, Targets, Acceptable, disk
<1>1. CASE Begin
    BY <1>1 DEF Begin
<1>2. CASE EndFiles
    BY <1>2 DEF EndFiles, FetchArchive, Return
<1>3. ASSUME NEW f \in Files, NextFile(f) PROVE CheckedInv'
    BY <1>3 DEF NextFile
<1>4. CASE FailSend
    BY <1>4, GiveUp DEF FailSend
<1>5. CASE Resume
    BY <1>5 DEF Resume
<1>6. CASE Restart
    BY <1>6 DEF Restart
<1>7. CASE RangeNotSatisfiable
    BY <1>7 DEF RangeNotSatisfiable
<1>8. ASSUME NEW honest \in BOOLEAN, ReceiveChunk(honest) PROVE CheckedInv'
    BY <1>8 DEF ReceiveChunk
<1>9. CASE FailReceive
    BY <1>9, GiveUp DEF FailReceive
<1>10. CASE EndOfBody
    BY <1>10 DEF EndOfBody
<1>11. CASE CheckPart
    BY <1>11, GiveUp DEF CheckPart
<1>12. CASE RemoveOld
    BY <1>12 DEF RemoveOld
<1>13. CASE RenamePart
    BY <1>13, GiveUp DEF RenamePart
<1>14. ASSUME NEW f \in Files, UnpackFile(f) PROVE CheckedInv'
    BY <1>14 DEF UnpackFile
<1>15. CASE WriteUnpacked
    BY <1>15 DEF WriteUnpacked
<1>16. CASE FailUnpack
    BY <1>16 DEF FailUnpack, Return
<1>17. CASE RemoveArchive
    BY <1>17 DEF RemoveArchive
<1>18. CASE Validate
    BY <1>18 DEF Validate, Return
<1>19. CASE Delete
    BY <1>19 DEF Delete
<1>20. CASE Crash
    BY <1>20 DEF Crash
<1>21. CASE Heal
    BY <1>21 DEF Heal
<1>22. CASE UNCHANGED vars
    BY <1>22 DEF vars, disk
<1> QED BY <1>1, <1>2, <1>3, <1>4, <1>5, <1>6, <1>7, <1>8, <1>9, <1>10, <1>11,
    <1>12, <1>13, <1>14, <1>15, <1>16, <1>17, <1>18, <1>19, <1>20, <1>21, <1>22
    DEF Next, Download

\* Every step keeps the hashed files genuine.
LEMMA GenuinePreserved == IInv /\ [Next]_vars => InstalledIsGenuine'
<1> SUFFICES ASSUME IInv, [Next]_vars PROVE InstalledIsGenuine'
    OBVIOUS
<1> USE FilesAssumption, SourcesAssumption
    DEF IInv, TypeOK, TargetInv, CheckedInv, InstalledIsGenuine, SizeOf, Targets, disk
<1>1. CASE Begin
    BY <1>1 DEF Begin
<1>2. CASE EndFiles
    BY <1>2 DEF EndFiles, FetchArchive, Return
<1>3. ASSUME NEW f \in Files, NextFile(f) PROVE InstalledIsGenuine'
    BY <1>3 DEF NextFile
<1>4. CASE FailSend
    BY <1>4, GiveUp DEF FailSend
<1>5. CASE Resume
    BY <1>5 DEF Resume
<1>6. CASE Restart
    BY <1>6 DEF Restart
<1>7. CASE RangeNotSatisfiable
    BY <1>7 DEF RangeNotSatisfiable
<1>8. ASSUME NEW honest \in BOOLEAN, ReceiveChunk(honest) PROVE InstalledIsGenuine'
    BY <1>8 DEF ReceiveChunk
<1>9. CASE FailReceive
    BY <1>9, GiveUp DEF FailReceive
<1>10. CASE EndOfBody
    BY <1>10 DEF EndOfBody
<1>11. CASE CheckPart
    BY <1>11, GiveUp DEF CheckPart
<1>12. CASE RemoveOld
    BY <1>12 DEF RemoveOld
<1>13. CASE RenamePart
    <2>1. CASE part[target] = None
        BY <1>13, <2>1 DEF RenamePart
    <2>2. CASE part[target] # None
        <3>1. target \in Hashed => part[target].good
            BY <1>13, <2>2 DEF RenamePart, Acceptable
        <3>2. target \in Targets /\ stored' = [stored EXCEPT ![target] = part[target]]
            BY <1>13, <2>2 DEF RenamePart
        <3> QED BY <3>1, <3>2
    <2> QED BY <2>1, <2>2
<1>14. ASSUME NEW f \in Files, UnpackFile(f) PROVE InstalledIsGenuine'
    <2>1. stored' = [stored EXCEPT ![f] = Fresh]
        BY <1>14 DEF UnpackFile
    <2>2. \A h \in Hashed \ {f} : stored'[h] = stored[h]
        BY <2>1
    <2>3. f \in Hashed => stored'[f] = Fresh
        BY <2>1
    <2> QED BY <2>2, <2>3, FreshContent
<1>15. CASE WriteUnpacked
    BY <1>15 DEF WriteUnpacked
<1>16. CASE FailUnpack
    BY <1>16 DEF FailUnpack, Return
<1>17. CASE RemoveArchive
    BY <1>17 DEF RemoveArchive
<1>18. CASE Validate
    BY <1>18 DEF Validate, Return
<1>19. CASE Delete
    BY <1>19 DEF Delete
<1>20. CASE Crash
    BY <1>20 DEF Crash
<1>21. CASE Heal
    BY <1>21 DEF Heal
<1>22. CASE UNCHANGED vars
    BY <1>22 DEF vars, disk
<1> QED BY <1>1, <1>2, <1>3, <1>4, <1>5, <1>6, <1>7, <1>8, <1>9, <1>10, <1>11,
    <1>12, <1>13, <1>14, <1>15, <1>16, <1>17, <1>18, <1>19, <1>20, <1>21, <1>22
    DEF Next, Download

\* The invariant holds in every reachable state.
THEOREM Invariance == Spec => []IInv
<1>1. IInv /\ [Next]_vars => IInv'
    BY TypePreserved, TargetPreserved, CheckedPreserved, GenuinePreserved DEF IInv
<1> QED BY InitIInv, <1>1, PTL DEF Spec

\* The variables keep their types, and while files are unpacked the archive is
\* the one that was verified.
THEOREM TypeCorrect == Spec => []TypeOK
<1>1. IInv => TypeOK
    BY DEF IInv
<1> QED BY Invariance, <1>1, PTL

\* A hashed file of the right size is the right file.
THEOREM InstalledIsGenuineCorrect == Spec => []InstalledIsGenuine
<1>1. IInv => InstalledIsGenuine
    BY DEF IInv
<1> QED BY Invariance, <1>1, PTL
=============================================================================
