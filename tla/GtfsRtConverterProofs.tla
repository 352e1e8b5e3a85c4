------------------------ MODULE GtfsRtConverterProofs ------------------------
(***************************************************************************)
(* Proofs about GtfsRtConverter, for every set of files and days and every *)
(* bound: its type invariant, that an archived file stays published and    *)
(* announced, and that the converter implements IngestionLedger.           *)
(***************************************************************************)
EXTENDS GtfsRtConverter, TLAPS

(***************************************************************************)
(* The inductive invariant                                                 *)
(***************************************************************************)

\* The steps in which one table is being written.
Busy == {"sync", "write", "upload", "announce"}

\* A table is being written exactly when day names its day.
DayIsSet == pc \in Busy <=> day \in Days

\* The files that were gathered for a day belong to that day.
PartsOfDay == \A d \in Days : \A f \in parts[d] : DayOf[f] = d

\* Objects and local copies hold rows, thus of files that have some.
LocalHasRows ==
    \A d \in Days : (local[d] \cup springboard[d]) \cap Rowless = {}

\* A local copy is never behind its object.  This is what makes it safe to
\* overwrite the object with the copy, and what a failed listing destroys.
LocalCoversObject ==
    /\ \A d \in Days : local[d] = {} \/ springboard[d] \subseteq local[d]
    /\ pc \in {"write", "upload"} => springboard[day] \subseteq local[day]

\* The rows of the table are where the step that was taken put them.
TableProgress ==
    /\ pc = "upload" => RowsOf(parts[day]) \subseteq local[day]
    /\ pc = "announce" => RowsOf(parts[day]) \subseteq springboard[day]

\* A file that is noted for the archive was announced with its object, or
\* belongs to the table that is being written.
NotedIsCovered ==
    \A f \in archiveFiles \ Rowless :
        \/ f \in announced[DayOf[f]]
        \/ pc \in Busy /\ f \in parts[day]

\* The object still holds what it held when it was announced.
AnnouncedIsPublished == \A d \in Days : announced[d] \subseteq springboard[d]

\* Every copied file is in the bucket it was copied to.
CopiedIsThere == copied \subseteq archive \cup error

\* What the steps of the converter keep, beside the types.
Covered ==
    /\ PartsOfDay
    /\ LocalHasRows
    /\ LocalCoversObject
    /\ TableProgress
    /\ NotedIsCovered
    /\ AnnouncedIsPublished
    /\ ArchivedAnnounced
    /\ CopiedIsThere

(***************************************************************************)
(* Type correctness                                                        *)
(***************************************************************************)

\* A path is put in the queue only while day names a day, so the type of
\* the queue needs DayIsSet.
Typed == TypeOK /\ DayIsSet

LEMMA TypeInit == Init => Typed
  BY ConverterAssumption DEF Init, Typed, TypeOK, DayIsSet, Busy, NoRows, Steps

\* Leaving a table keeps the types of what it changes.
LEMMA TypeNextTable ==
    ASSUME TypeOK, NextTable
    PROVE  /\ parts' \in [Days -> SUBSET Files]
           /\ day' = NoDay
           /\ tables' \in Nat
           /\ pc' \in Steps \ Busy
<1>1. parts' \in [Days -> SUBSET Files]
      BY DEF TypeOK, NextTable
<1>2. day' = NoDay
      BY DEF NextTable
<1>3. tables' \in Nat
      BY DEF TypeOK, NextTable
<1>4. pc' \in {"move_error", "read"}
      BY Zenon DEF NextTable
<1>. QED
     BY <1>1, <1>2, <1>3, <1>4 DEF Steps, Busy

\* Each step keeps every variable in its type.
LEMMA TypeNext == Typed /\ [Next]_vars => Typed'
<1> SUFFICES ASSUME Typed, [Next]_vars PROVE Typed'
    OBVIOUS
<1> USE ConverterAssumption
    DEF Typed, TypeOK, DayIsSet, Busy, Steps, buckets, loop, Fail, NoFail, NoRows
<1>1. ASSUME NEW f \in Files, Arrive(f) PROVE Typed'
      BY <1>1 DEF Arrive
<1>2. CASE TakePath
      BY <1>2 DEF TakePath
<1>3. CASE Poll
      BY <1>3 DEF Poll
<1>4. ASSUME NEW f \in Files, ReadFails(f) PROVE Typed'
      BY <1>4 DEF ReadFails
<1>5. ASSUME NEW f \in Files, ReadFile(f) PROVE Typed'
  <2>1. /\ parts' \in [Days -> SUBSET Files]
        /\ files' \subseteq Files
        /\ UNCHANGED <<springboard, queue, local, errorFiles, tables, copied,
                       announced, faults>>
        /\ UNCHANGED buckets
        BY <1>5 DEF ReadFile
  <2>2. DayOf[f] \in Days /\ parts[DayOf[f]] \cup {f} \subseteq Files
        OBVIOUS
  <2>3. \/ /\ archiveFiles' = archiveFiles \cup (parts[DayOf[f]] \cup {f})
           /\ day' = DayOf[f]
           /\ pc' = "sync"
        \/ UNCHANGED <<archiveFiles, day, pc>>
        BY <1>5, Zenon DEF ReadFile
  <2>4. pc = "read"
        BY <1>5 DEF ReadFile
  <2>. QED
       BY <2>1, <2>2, <2>3, <2>4
<1>6. ASSUME NEW d \in Days, YieldRest(d) PROVE Typed'
      BY <1>6 DEF YieldRest
<1>7. CASE NoMoreTables
      BY <1>7 DEF NoMoreTables
<1>8. CASE ConvertFails
      BY <1>8 DEF ConvertFails
<1>9. CASE SyncWithS3
      BY <1>9 DEF SyncWithS3
<1>10. CASE WriteLocal
       BY <1>10 DEF WriteLocal, RowsOf
<1>11. CASE UpdateFails
  <2>1. NextTable /\ faults' \in Nat
        BY <1>11 DEF UpdateFails
  <2>. QED
       BY <2>1, TypeNextTable, <1>11 DEF UpdateFails
<1>12. CASE Upload
       BY <1>12 DEF Upload
<1>13. CASE SendMetadata
  <2>1. NextTable /\ day \in Days /\ queue' \in Seq(Days)
        BY <1>13 DEF SendMetadata
  <2>. QED
       BY <2>1, TypeNextTable, <1>13 DEF SendMetadata
<1>14. ASSUME NEW f \in Files, CopyFile(f) PROVE Typed'
       BY <1>14 DEF CopyFile
<1>15. ASSUME NEW f \in Files, DeleteFile(f) PROVE Typed'
       BY <1>15 DEF DeleteFile, Settled
<1>16. ASSUME NEW f \in Files, GiveUpMove(f) PROVE Typed'
       BY <1>16 DEF GiveUpMove, Settled
<1>17. CASE MoveDone
       BY <1>17 DEF MoveDone
<1>18. CASE CleanLocal
       BY <1>18 DEF CleanLocal
<1>19. CASE Crash
       BY <1>19 DEF Crash
<1>20. CASE UNCHANGED vars
       BY <1>20 DEF vars
<1>. QED
     BY <1>1, <1>2, <1>3, <1>4, <1>5, <1>6, <1>7, <1>8, <1>9, <1>10, <1>11,
        <1>12, <1>13, <1>14, <1>15, <1>16, <1>17, <1>18, <1>19, <1>20
     DEF Next, Convert

\* TypeOK holds in every behaviour of the converter.
THEOREM TypeCorrect == Spec => []TypeOK
<1>1. Init => Typed
      BY TypeInit
<1>2. Typed /\ [Next]_vars => Typed'
      BY TypeNext
<1>3. Typed => TypeOK
      BY DEF Typed
<1>. QED
     BY <1>1, <1>2, <1>3, PTL DEF Spec

(***************************************************************************)
(* Archived files stay published and announced                             *)
(***************************************************************************)

\* The two failures that lose rows without anybody noticing: an upload whose
\* result is ignored and a listing that is taken for "there is no object".
NoSilentLoss == "upload" \notin Faults /\ "list" \notin Faults

LEMMA CoveredInit == Init => Covered
  BY ConverterAssumption
  DEF Init, Covered, PartsOfDay, LocalHasRows, LocalCoversObject,
      TableProgress, NotedIsCovered, AnnouncedIsPublished, ArchivedAnnounced,
      CopiedIsThere, NoRows, Busy

\* Each step keeps archived and noted files covered.
LEMMA CoveredNext ==
    ASSUME NoSilentLoss, Typed, Covered, [Next]_vars
    PROVE  Covered'
<1> USE ConverterAssumption
    DEF NoSilentLoss, Typed, TypeOK, DayIsSet, Busy, Steps, Covered,
        PartsOfDay, LocalHasRows, LocalCoversObject, TableProgress,
        NotedIsCovered, AnnouncedIsPublished, ArchivedAnnounced,
        CopiedIsThere, RowsOf, NoRows, buckets, loop, Fail, NoFail
<1>1. ASSUME NEW f \in Files, Arrive(f) PROVE Covered'
      BY <1>1 DEF Arrive
<1>2. CASE TakePath
      BY <1>2 DEF TakePath
<1>3. CASE Poll
      BY <1>3 DEF Poll
<1>4. ASSUME NEW f \in Files, ReadFails(f) PROVE Covered'
      BY <1>4 DEF ReadFails
<1>5. ASSUME NEW f \in Files, ReadFile(f) PROVE Covered'
  <2> DEFINE part == parts[DayOf[f]] \cup {f}
  <2>1. /\ parts' = [parts EXCEPT ![DayOf[f]] = part]
        /\ DayOf[f] \in Days
        /\ pc = "read"
        /\ UNCHANGED <<springboard, local, copied, announced, archive, error>>
        BY <1>5 DEF ReadFile
  <2>2. \/ /\ archiveFiles' = archiveFiles \cup part
           /\ day' = DayOf[f]
           /\ pc' = "sync"
        \/ UNCHANGED <<archiveFiles, day, pc>>
        BY <1>5, Zenon DEF ReadFile
  <2>3. pc' \in {"read", "sync"}
        BY <2>1, <2>2
  <2>4. PartsOfDay'
        BY <2>1
  <2>5. NotedIsCovered'
    <3>1. \A g \in archiveFiles \ Rowless : g \in announced'[DayOf[g]]
          BY <2>1
    <3>2. CASE UNCHANGED <<archiveFiles, day, pc>>
          BY <3>1, <3>2
    <3>3. CASE archiveFiles' = archiveFiles \cup part
               /\ day' = DayOf[f] /\ pc' = "sync"
      <4>1. parts'[day'] = part
            BY <2>1, <3>3
      <4>. QED
           BY <3>1, <3>3, <4>1
    <3>. QED
         BY <2>2, <3>2, <3>3
  <2>6. LocalHasRows' /\ LocalCoversObject' /\ TableProgress'
        BY <2>1, <2>3
  <2>7. AnnouncedIsPublished' /\ ArchivedAnnounced' /\ CopiedIsThere'
        BY <2>1
  <2>. QED
       BY <2>4, <2>5, <2>6, <2>7
<1>6. ASSUME NEW d \in Days, YieldRest(d) PROVE Covered'
  <2>1. /\ pc = "read"
        /\ archiveFiles' = archiveFiles \cup parts[d]
        /\ UNCHANGED <<springboard, local, copied, announced, archive, error>>
        BY <1>6 DEF YieldRest
  <2>2. \A g \in archiveFiles \ Rowless : g \in announced'[DayOf[g]]
        BY <2>1
  <2>3. CASE RowsOf(parts[d]) = {}
    <3>1. parts' = [parts EXCEPT ![d] = {}] /\ UNCHANGED <<day, pc>>
          BY <1>6, <2>3 DEF YieldRest
    <3>2. NotedIsCovered'
          BY <2>1, <2>2, <2>3
    <3>3. PartsOfDay'
          BY <3>1
    <3>. QED
         BY <2>1, <3>1, <3>2, <3>3
  <2>4. CASE RowsOf(parts[d]) # {}
    <3>1. day' = d /\ pc' = "sync" /\ UNCHANGED parts
          BY <1>6, <2>4 DEF YieldRest
    <3>2. NotedIsCovered'
          BY <2>1, <2>2, <3>1
    <3>. QED
         BY <2>1, <3>1, <3>2
  <2>. QED
       BY <2>3, <2>4
<1>7. CASE NoMoreTables
      BY <1>7 DEF NoMoreTables
<1>8. CASE ConvertFails
      BY <1>8 DEF ConvertFails
<1>9. CASE SyncWithS3
  <2>1. /\ pc = "sync" /\ pc' = "write" /\ day \in Days
        /\ UNCHANGED <<springboard, announced>>
        /\ UNCHANGED buckets
        /\ UNCHANGED loop
        BY <1>9 DEF SyncWithS3
  <2>2. \/ (local[day] # {} \/ springboard[day] = {}) /\ UNCHANGED local
        \/ local' = [local EXCEPT ![day] = springboard[day]]
           /\ springboard[day] # {}
        BY <1>9 DEF SyncWithS3
  <2>3. springboard[day] \cap Rowless = {}
        BY <2>1
  <2>4. LocalHasRows'
        BY <2>1, <2>2, <2>3
  <2>5. LocalCoversObject'
        BY <2>1, <2>2
  <2>6. PartsOfDay' /\ TableProgress' /\ NotedIsCovered'
        BY <2>1
  <2>. QED
       BY <2>1, <2>4, <2>5, <2>6
<1>10. CASE WriteLocal
  <2>1. /\ pc = "write" /\ pc' = "upload" /\ day \in Days
        /\ local' = [local EXCEPT ![day] = @ \cup RowsOf(parts[day])]
        /\ UNCHANGED <<springboard, announced>>
        /\ UNCHANGED buckets
        /\ UNCHANGED loop
        BY <1>10 DEF WriteLocal
  <2>2. LocalHasRows' /\ TableProgress'
        BY <2>1
  <2>3. LocalCoversObject'
        BY <2>1
  <2>4. PartsOfDay' /\ NotedIsCovered'
        BY <2>1
  <2>5. AnnouncedIsPublished' /\ ArchivedAnnounced' /\ CopiedIsThere'
        BY <2>1
  <2>. QED
       BY <2>2, <2>3, <2>4, <2>5
<1>11. CASE UpdateFails
  <2>1. /\ local' = NoRows
        /\ archiveFiles' = {}
        /\ parts' = [parts EXCEPT ![day] = {}]
        /\ pc' \in {"move_error", "read"}
        /\ UNCHANGED <<springboard, copied, announced>>
        /\ UNCHANGED buckets
        BY <1>11, Zenon DEF UpdateFails, NextTable
  <2>2. PartsOfDay' /\ NotedIsCovered'
        BY <2>1
  <2>3. LocalHasRows' /\ LocalCoversObject' /\ TableProgress'
        BY <2>1
  <2>4. AnnouncedIsPublished' /\ ArchivedAnnounced' /\ CopiedIsThere'
        BY <2>1
  <2>. QED
       BY <2>2, <2>3, <2>4
<1>12. CASE Upload
  <2>1. /\ pc = "upload" /\ pc' = "announce" /\ day \in Days
        /\ springboard' = [springboard EXCEPT ![day] = local[day]]
        /\ UNCHANGED <<local, announced>>
        /\ UNCHANGED buckets
        /\ UNCHANGED loop
        BY <1>12 DEF Upload
  <2>2. springboard[day] \subseteq local[day]
        BY <2>1
  <2>3. AnnouncedIsPublished'
        BY <2>1, <2>2
  <2>4. LocalHasRows' /\ LocalCoversObject' /\ TableProgress'
        BY <2>1
  <2>5. PartsOfDay' /\ NotedIsCovered' /\ ArchivedAnnounced' /\ CopiedIsThere'
        BY <2>1
  <2>. QED
       BY <2>3, <2>4, <2>5
<1>13. CASE SendMetadata
  <2>1. /\ pc = "announce" /\ day \in Days
        /\ announced' = [announced EXCEPT ![day] = springboard[day]]
        /\ parts' = [parts EXCEPT ![day] = {}]
        /\ pc' \in {"move_error", "read"}
        /\ UNCHANGED <<springboard, local, archiveFiles, copied>>
        /\ UNCHANGED buckets
        BY <1>13 DEF SendMetadata, NextTable
  <2>2. \A d \in Days : announced[d] \subseteq announced'[d]
        BY <2>1
  <2>3. \A g \in parts[day] \ Rowless : g \in announced'[DayOf[g]]
        BY <2>1
  <2>4. NotedIsCovered'
        BY <2>1, <2>2, <2>3
  <2>5. ArchivedAnnounced'
        BY <2>1, <2>2
  <2>6. AnnouncedIsPublished' /\ CopiedIsThere'
        BY <2>1
  <2>7. PartsOfDay' /\ LocalHasRows' /\ LocalCoversObject' /\ TableProgress'
        BY <2>1
  <2>. QED
       BY <2>4, <2>5, <2>6, <2>7
<1>14. ASSUME NEW f \in Files, CopyFile(f) PROVE Covered'
  <2>1. /\ UNCHANGED <<springboard, local, pc, parts, archiveFiles, day,
                       announced>>
        /\ copied' = copied \cup {f}
        BY <1>14 DEF CopyFile
  <2>2. CASE pc = "move_error"
    <3>1. error' = error \cup {f} /\ archive' = archive
          BY <1>14, <2>2 DEF CopyFile
    <3>. QED
         BY <2>1, <3>1
  <2>3. CASE pc = "move_archive"
    <3>1. archive' = archive \cup {f} /\ error' = error /\ f \in archiveFiles
          BY <1>14, <2>3 DEF CopyFile
    <3>2. f \in Rowless \/ f \in announced[DayOf[f]]
          BY <2>3, <3>1
    <3>3. ArchivedAnnounced'
          BY <2>1, <3>1, <3>2
    <3>. QED
         BY <2>1, <3>1, <3>3
  <2>. QED
       BY <1>14, <2>2, <2>3 DEF CopyFile
<1>15. ASSUME NEW f \in Files, DeleteFile(f) PROVE Covered'
      BY <1>15 DEF DeleteFile, Settled
<1>16. ASSUME NEW f \in Files, GiveUpMove(f) PROVE Covered'
      BY <1>16 DEF GiveUpMove, Settled
<1>17. CASE MoveDone
      BY <1>17 DEF MoveDone
<1>18. CASE CleanLocal
  <2>1. /\ pc = "clean" /\ pc' = "idle" /\ parts' = [d \in Days |-> {}]
        /\ UNCHANGED <<springboard, archiveFiles, copied, announced>>
        /\ UNCHANGED buckets
        BY <1>18 DEF CleanLocal
  <2>2. \A d \in Days : local'[d] \in {local[d], {}}
        BY <1>18, Zenon DEF CleanLocal
  <2>3. PartsOfDay' /\ TableProgress' /\ NotedIsCovered'
        BY <2>1
  <2>4. LocalHasRows' /\ LocalCoversObject'
        BY <2>1, <2>2
  <2>5. AnnouncedIsPublished' /\ ArchivedAnnounced' /\ CopiedIsThere'
        BY <2>1
  <2>. QED
       BY <2>3, <2>4, <2>5
<1>19. CASE Crash
  <2>1. /\ local' = NoRows /\ parts' = NoRows /\ archiveFiles' = {}
        /\ copied' = {} /\ pc' = "idle"
        /\ UNCHANGED <<springboard, announced>>
        /\ UNCHANGED buckets
        BY <1>19 DEF Crash
  <2>2. PartsOfDay' /\ LocalHasRows' /\ LocalCoversObject' /\ TableProgress'
        BY <2>1
  <2>3. NotedIsCovered' /\ AnnouncedIsPublished' /\ ArchivedAnnounced'
        /\ CopiedIsThere'
        BY <2>1
  <2>. QED
       BY <2>2, <2>3
<1>20. CASE UNCHANGED vars
      BY <1>20 DEF vars
<1>. QED
     BY <1>1, <1>2, <1>3, <1>4, <1>5, <1>6, <1>7, <1>8, <1>9, <1>10, <1>11, <1>12, <1>13, <1>14, <1>15, <1>16, <1>17, <1>18, <1>19, <1>20
     DEF Next, Convert

LEMMA CoveredAlways ==
    ASSUME NoSilentLoss
    PROVE  Spec => [](Typed /\ Covered)
<1>1. Init => Typed /\ Covered
      BY TypeInit, CoveredInit
<1>2. Typed /\ Covered /\ [Next]_vars => (Typed /\ Covered)'
      BY TypeNext, CoveredNext
<1>. QED
     BY <1>1, <1>2, PTL DEF Spec

LEMMA CoveredIsPublished == Typed /\ Covered => ArchivedPublished
  BY ConverterAssumption
  DEF Typed, TypeOK, Covered, ArchivedAnnounced, AnnouncedIsPublished,
      ArchivedPublished

\* As long as no upload and no listing fails silently, an archived file has
\* its rows in the springboard, through every crash and every other failure.
THEOREM ArchivedStaysPublished ==
    ASSUME NoSilentLoss
    PROVE  Spec => []ArchivedPublished
  BY CoveredAlways, CoveredIsPublished, PTL

\* ... and its day was announced after its rows were in the object.
THEOREM ArchivedWasAnnounced ==
    ASSUME NoSilentLoss
    PROVE  Spec => []ArchivedAnnounced
<1>1. Covered => ArchivedAnnounced
      BY DEF Covered
<1>. QED
     BY <1>1, CoveredAlways, PTL

(***************************************************************************)
(* No file vanishes, whatever fails                                        *)
(***************************************************************************)

\* A copied file is in its target bucket: enough for the deletion that
\* follows.
LEMMA CopiedNext == CopiedIsThere /\ [Next]_vars => CopiedIsThere'
<1> SUFFICES ASSUME CopiedIsThere, [Next]_vars PROVE CopiedIsThere'
    OBVIOUS
<1> USE DEF CopiedIsThere, buckets, loop
<1>1. ASSUME NEW f \in Files,
             \/ Arrive(f) \/ ReadFails(f) \/ ReadFile(f) \/ CopyFile(f)
             \/ DeleteFile(f) \/ GiveUpMove(f)
      PROVE  CopiedIsThere'
      BY <1>1 DEF Arrive, ReadFails, ReadFile, CopyFile, DeleteFile,
                  GiveUpMove, Settled
<1>2. ASSUME NEW d \in Days, YieldRest(d) PROVE CopiedIsThere'
      BY <1>2 DEF YieldRest
<1>3. CASE TakePath \/ Poll \/ NoMoreTables \/ ConvertFails \/ SyncWithS3
           \/ WriteLocal \/ UpdateFails \/ Upload \/ SendMetadata
           \/ MoveDone \/ CleanLocal \/ Crash
      BY <1>3 DEF TakePath, Poll, NoMoreTables, ConvertFails, SyncWithS3,
                  WriteLocal, UpdateFails, Upload, SendMetadata, MoveDone,
                  CleanLocal, Crash
<1>4. CASE UNCHANGED vars
      BY <1>4 DEF vars
<1>. QED
     BY <1>1, <1>2, <1>3, <1>4 DEF Next, Convert

\* What one step may do to the buckets: only a copied file leaves incoming,
\* and nothing leaves the two others.
LEMMA BucketStep ==
    ASSUME CopiedIsThere, [Next]_vars
    PROVE  /\ archive \subseteq archive' /\ error \subseteq error'
           /\ incoming \subseteq incoming' \cup archive \cup error
<1> USE DEF CopiedIsThere, buckets
<1>1. ASSUME NEW f \in Files,
             \/ Arrive(f) \/ ReadFails(f) \/ ReadFile(f) \/ CopyFile(f)
             \/ DeleteFile(f) \/ GiveUpMove(f)
      PROVE  /\ archive \subseteq archive' /\ error \subseteq error'
             /\ incoming \subseteq incoming' \cup archive \cup error
      BY <1>1 DEF Arrive, ReadFails, ReadFile, CopyFile, DeleteFile, GiveUpMove
<1>2. ASSUME NEW d \in Days, YieldRest(d) PROVE UNCHANGED buckets
      BY <1>2 DEF YieldRest
<1>3. CASE TakePath \/ Poll \/ NoMoreTables \/ ConvertFails \/ SyncWithS3
           \/ WriteLocal \/ UpdateFails \/ Upload \/ SendMetadata
           \/ MoveDone \/ CleanLocal \/ Crash
      BY <1>3 DEF TakePath, Poll, NoMoreTables, ConvertFails, SyncWithS3,
                  WriteLocal, UpdateFails, Upload, SendMetadata, MoveDone,
                  CleanLocal, Crash
<1>4. CASE UNCHANGED vars
      BY <1>4 DEF vars
<1>. QED
     BY <1>1, <1>2, <1>3, <1>4 DEF Next, Convert

\* Every raw file stays in at least one bucket: for every set of failures.
THEOREM FilesAreConserved == Spec => NoFileVanishes
<1>1. Init => CopiedIsThere
      BY DEF Init, CopiedIsThere
<1>2. CopiedIsThere /\ [Next]_vars =>
        [\A f \in incoming \cup archive \cup error :
            f \in incoming' \cup archive' \cup error']_vars
      BY BucketStep
<1>. QED
     BY <1>1, <1>2, CopiedNext, PTL DEF Spec, NoFileVanishes

(***************************************************************************)
(* The converter implements the ledger                                     *)
(***************************************************************************)

Published == UNION {springboard[d] : d \in Days}

\* A step that changes none of the variables the ledger sees.
LEMMA InvisibleStep ==
    ASSUME UNCHANGED <<incoming, archive, error, springboard>>
    PROVE  UNCHANGED Ledger!ledger
  BY DEF Ledger!ledger

LEMMA LedgerInitially == Init => Ledger!LedgerInit
  BY DEF Init, Ledger!LedgerInit, NoRows

\* Each step of the converter is a step of the ledger or invisible to it.
LEMMA LedgerStep ==
    ASSUME NoSilentLoss, Typed, Covered, [Next]_vars
    PROVE  [Ledger!LedgerNext]_(Ledger!ledger)
<1> USE DEF buckets, loop
<1>1. ASSUME NEW f \in Files, Arrive(f)
      PROVE  Ledger!Submit(f)
      BY <1>1 DEF Arrive, Ledger!Submit
<1>2. ASSUME NEW f \in Files, CopyFile(f)
      PROVE  Ledger!Accept(f) \/ Ledger!Reject(f) \/ UNCHANGED Ledger!ledger
  <2>1. f \in incoming /\ UNCHANGED <<incoming, springboard>>
        BY <1>2 DEF CopyFile
  <2>2. CASE pc = "move_error"
    <3>1. error' = error \cup {f} /\ archive' = archive
          BY <1>2, <2>2 DEF CopyFile
    <3>2. CASE f \in error
          BY <2>1, <3>1, <3>2 DEF Ledger!ledger
    <3>3. CASE f \notin error
          BY <2>1, <3>1, <3>3 DEF Ledger!Reject
    <3>. QED
         BY <3>2, <3>3
  <2>3. CASE pc = "move_archive"
    <3>1. archive' = archive \cup {f} /\ error' = error /\ f \in archiveFiles
          BY <1>2, <2>3 DEF CopyFile
    <3>2. f \in Published \cup Rowless
          BY <2>3, <3>1, ConverterAssumption
          DEF Covered, NotedIsCovered, AnnouncedIsPublished, Busy, Published,
              Typed, TypeOK
    <3>3. CASE f \in archive
          BY <2>1, <3>1, <3>3 DEF Ledger!ledger
    <3>4. CASE f \notin archive
          BY <2>1, <3>1, <3>2, <3>4 DEF Ledger!Accept, Published
    <3>. QED
         BY <3>3, <3>4
  <2>. QED
       BY <1>2, <2>2, <2>3 DEF CopyFile
<1>3. ASSUME NEW f \in Files, DeleteFile(f)
      PROVE  UNCHANGED Ledger!ledger
  <2>1. f \in archive \cup error
        BY <1>3 DEF DeleteFile, Covered, CopiedIsThere
  <2>2. incoming' = incoming \ {f} /\ UNCHANGED <<archive, error, springboard>>
        BY <1>3 DEF DeleteFile
  <2>. QED
       BY <2>1, <2>2 DEF Ledger!ledger
<1>4. CASE Upload
  <2>1. UNCHANGED <<incoming, archive, error>>
        BY <1>4 DEF Upload
  <2>2. springboard' = [springboard EXCEPT ![day] = local[day]]
        BY <1>4 DEF Upload, NoSilentLoss, Fail
  <2>3. day \in Days /\ springboard[day] \subseteq local[day]
        BY <1>4 DEF Upload, Typed, DayIsSet, Busy, Covered, LocalCoversObject
  <2>4. local[day] \cap archive \subseteq Published
        BY <2>3, CoveredIsPublished, ConverterAssumption
        DEF Covered, LocalHasRows, ArchivedPublished, Published, Typed, TypeOK
  <2>5. Published' = Published \cup local[day]
    <3>1. springboard'[day] = local[day]
             /\ \A d \in Days \ {day} : springboard'[d] = springboard[d]
          BY <2>2, <2>3 DEF Typed, TypeOK
    <3>. QED
         BY <3>1, <2>3 DEF Published
  <2>6. PICK S \in SUBSET Files : S = local[day] \ archive
        BY <2>3 DEF Typed, TypeOK
  <2>7. Ledger!Publish(S)
        BY <2>1, <2>4, <2>5, <2>6 DEF Ledger!Publish, Published
  <2>8. \E R \in SUBSET Files : Ledger!Publish(R)
        BY <2>7, Zenon
  <2>. QED
       BY <2>8, Zenon DEF Ledger!LedgerNext
<1>5. ASSUME NEW f \in Files, ReadFails(f) \/ ReadFile(f) \/ GiveUpMove(f)
      PROVE  UNCHANGED Ledger!ledger
  <2>1. UNCHANGED <<incoming, archive, error, springboard>>
        BY <1>5 DEF ReadFails, ReadFile, GiveUpMove
  <2>. QED
       BY <2>1, InvisibleStep
<1>6. ASSUME NEW d \in Days, YieldRest(d)
      PROVE  UNCHANGED Ledger!ledger
  <2>1. UNCHANGED <<incoming, archive, error, springboard>>
        BY <1>6 DEF YieldRest
  <2>. QED
       BY <2>1, InvisibleStep
<1>7. CASE TakePath \/ Poll \/ NoMoreTables \/ ConvertFails \/ SyncWithS3
           \/ WriteLocal \/ UpdateFails \/ SendMetadata \/ MoveDone
           \/ CleanLocal \/ Crash
  <2>1. UNCHANGED <<incoming, archive, error, springboard>>
        BY <1>7 DEF TakePath, Poll, NoMoreTables, ConvertFails, SyncWithS3,
                    WriteLocal, UpdateFails, SendMetadata, MoveDone,
                    CleanLocal, Crash
  <2>. QED
       BY <2>1, InvisibleStep
<1>8. CASE UNCHANGED vars
      BY <1>8, InvisibleStep DEF vars
<1>. QED
     BY <1>1, <1>2, <1>3, <1>4, <1>5, <1>6, <1>7, <1>8
     DEF Next, Convert, Ledger!LedgerNext

\* Unless an upload or a listing fails silently, the converter keeps the
\* promise of IngestionLedger.
THEOREM ConverterImplementsLedger ==
    ASSUME NoSilentLoss
    PROVE  Spec => ImplementsLedger
<1>1. Typed /\ Covered /\ [Next]_vars =>
        [Ledger!LedgerNext]_(Ledger!ledger)
      BY LedgerStep
<1>. QED
     BY <1>1, LedgerInitially, CoveredAlways, PTL
     DEF Spec, ImplementsLedger, Ledger!LedgerSpec
=============================================================================
