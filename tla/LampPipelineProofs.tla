-------------------------- MODULE LampPipelineProofs ---------------------------
(***************************************************************************)
(* Proofs about LampPipeline, for every set of files and days, with every  *)
(* fault: its type invariant, that a shutdown by SIGTERM leaves nothing    *)
(* announced behind, and that an archived file is recorded or on its way   *)
(* unless a failed upload, a failed listing or a crash took its rows.      *)
(***************************************************************************)
EXTENDS LampPipeline, TLAPS

\* The hand-over again, with what is proved about it.
LP == INSTANCE MetadataLogProofs
        WITH Paths <- Days, VpPaths <- Days, TimeOf <- [d \in Days |-> d],
             NoPath <- NoDay, MaxUploads <- 0, unsent <- {},
             object <- [d \in Days |-> Len(history[d])]

(***************************************************************************)
(* The inductive invariant                                                 *)
(***************************************************************************)

\* The steps in which one table is being written.
Busy == {"sync", "write", "upload", "announce"}

\* What the types of the converter come to when the queue is shared.
ConverterTyped ==
    /\ incoming \subseteq Files
    /\ archive \subseteq Files
    /\ archiveFiles \subseteq Files
    /\ springboard \in [Days -> SUBSET Files]
    /\ local \in [Days -> SUBSET Files]
    /\ parts \in [Days -> SUBSET Files]
    /\ pc \in Busy => day \in Days

\* Parts, copies and objects hold the files of their day; the last two hold
\* rows, thus files that have some.
RowsOfDay ==
    \A d \in Days :
        /\ \A f \in parts[d] \cup local[d] \cup springboard[d] : DayOf[f] = d
        /\ (local[d] \cup springboard[d]) \cap Rowless = {}

\* The object of a day is what was uploaded last.
ObjectIsLastUpload ==
    \A d \in Days :
        /\ history[d] = <<>> => springboard[d] = {}
        /\ history[d] # <<>> => springboard[d] = history[d][Len(history[d])]

\* A row stands for an upload that has happened.
InsertedIsUploaded == \A d \in Days : inserted[d] <= Len(history[d])

\* The rows of f are in the object, and the path was announced with them.
Safe(f) ==
    /\ f \in springboard[DayOf[f]]
    /\ Recorded(f) \/ UnderWay(DayOf[f])

\* The rows of f belong to the table that is being written.
InHand(f) ==
    \/ pc \in {"sync", "write"} /\ f \in parts[day]
    \/ pc = "upload" /\ f \in local[day]
    \/ pc = "announce" /\ f \in springboard[day]

NotedIsSafe == \A f \in archiveFiles \ (Rowless \cup lost) : Safe(f) \/ InHand(f)

ArchivedIsSafe == \A f \in archive \ (Rowless \cup lost) : Safe(f)

\* The converters are done when the writer is told to stop.
ConverterRests == main # "running" => pc = "idle"

\* The types, and what both parts know of the paths that are under way.
Typed == TypeOK /\ ConverterTyped

PipelineInv ==
    /\ RowsOfDay
    /\ ObjectIsLastUpload
    /\ InsertedIsUploaded
    /\ NotedIsSafe
    /\ ArchivedIsSafe
    /\ ConverterRests

(***************************************************************************)
(* The hand-over inside the pipeline                                       *)
(***************************************************************************)

\* What MetadataLog assumes of its constants holds of the instance.
LEMMA HandoverAssumption ==
    /\ Days \subseteq Days
    /\ [d \in Days |-> d] \in [Days -> Nat]
    /\ PathCount \in Nat \ {0}
    /\ NoDay \notin Days
    /\ Stop \notin Days
    /\ Stop # NoDay
    /\ 0 \in Nat
    /\ MaxTrouble \in Nat
BY PipelineAssumption

\* Both instances of MetadataLog are the same.
LEMMA SameTypes == L!TypeOK <=> LP!TypeOK
BY DEF L!TypeOK, LP!TypeOK, L!Rows, LP!Rows

LEMMA SameWriter == L!Writer <=> LP!Writer
BY DEF L!Writer, LP!Writer, L!WriterGet, LP!WriterGet, L!WriterInsert,
       LP!WriterInsert, L!ingestion, LP!ingestion, L!manager, LP!manager

LEMMA SameManager == (L!Manager <=> LP!Manager) /\ (L!ManagerCrash <=> LP!ManagerCrash)
<1> USE DEF L!ingestion, LP!ingestion, L!Zero, LP!Zero, L!Trouble, LP!Trouble
<1>1. L!SelectVp <=> LP!SelectVp
  BY DEF L!SelectVp, LP!SelectVp, L!Unprocessed, LP!Unprocessed
<1>2. L!SelectTu <=> LP!SelectTu
  <2>1. ASSUME NEW S PROVE L!Oldest(S) = LP!Oldest(S)
    BY DEF L!Oldest, LP!Oldest, L!Cardinality, LP!Cardinality
  <2>2. ASSUME NEW S PROVE L!Unprocessed(S) = LP!Unprocessed(S)
    BY DEF L!Unprocessed, LP!Unprocessed
  <2> QED BY <2>1, <2>2 DEF L!SelectTu, LP!SelectTu
<1>3. \A p \in Days : L!ReadPath(p) <=> LP!ReadPath(p)
  BY DEF L!ReadPath, LP!ReadPath
<1>4. L!ApplyEvents <=> LP!ApplyEvents
  BY DEF L!ApplyEvents, LP!ApplyEvents
<1>5. (L!MarkProcessed <=> LP!MarkProcessed) /\ (L!MarkFailed <=> LP!MarkFailed)
  BY DEF L!MarkProcessed, LP!MarkProcessed, L!MarkFailed, LP!MarkFailed, L!Mark, LP!Mark
<1>6. L!ManagerCrash <=> LP!ManagerCrash
  BY DEF L!ManagerCrash, LP!ManagerCrash
<1> QED BY <1>1, <1>2, <1>3, <1>4, <1>5, <1>6 DEF L!Manager, LP!Manager

LEMMA SameIngestion ==
    /\ L!Sigterm <=> LP!Sigterm
    /\ L!StopWriter <=> LP!StopWriter
    /\ L!Exit <=> LP!Exit
    /\ L!Restart <=> LP!Restart
    /\ L!IngestionCrash <=> LP!IngestionCrash
BY DEF L!Sigterm, LP!Sigterm, L!StopWriter, LP!StopWriter, L!Exit, LP!Exit,
       L!Restart, LP!Restart, L!IngestionCrash, LP!IngestionCrash, L!Trouble,
       LP!Trouble, L!Start, LP!Start, L!manager, LP!manager

\* The steps of the pipeline that are steps of the hand-over.
Handover ==
    \/ L!Sigterm \/ L!StopWriter \/ L!Exit \/ L!Restart \/ L!IngestionCrash
    \/ L!Writer \/ L!Manager \/ L!ManagerCrash

\* ... keep what is proved of it.
LEMMA HandoverKeeps ==
    ASSUME L!TypeOK, LP!ShutdownInv, Handover
    PROVE  L!TypeOK' /\ LP!ShutdownInv'
<1>1. LP!TypeOK BY SameTypes
<1>2. LP!Next
  BY SameIngestion, SameWriter, SameManager DEF Handover, LP!Next, LP!Ingestion
<1>3. LP!TypeOK' BY <1>1, <1>2, HandoverAssumption, LP!TypeNext
<1>4. LP!ShutdownInv' BY <1>1, <1>2, HandoverAssumption, LP!ShutdownNext
<1>5. L!TypeOK' BY <1>3 DEF L!TypeOK, LP!TypeOK, L!Rows, LP!Rows
<1> QED BY <1>4, <1>5

(***************************************************************************)
(* The types, and the shutdown                                             *)
(***************************************************************************)

LEMMA InitTyped == Init => Typed /\ LP!ShutdownInv
<1> SUFFICES ASSUME Init PROVE Typed /\ LP!ShutdownInv
  OBVIOUS
<1>1. history \in [Days -> Seq(SUBSET Files)] /\ \A d \in Days : Len(history[d]) = 0
  BY DEF Init
<1>2. [d \in Days |-> Len(history[d])] = [d \in Days |-> 0]
  BY <1>1
<1>3. LP!Init
  BY <1>2 DEF Init, L!Init, LP!Init, L!Zero, LP!Zero
<1>4. LP!TypeOK /\ LP!ShutdownInv
  BY <1>3, HandoverAssumption, LP!TypeInit, LP!ShutdownInit
<1>5. L!TypeOK BY <1>4, SameTypes
<1>6. ConverterTyped
  BY PipelineAssumption DEF Init, C!Init, C!NoRows, ConverterTyped, Busy
<1> QED BY <1>1, <1>4, <1>5, <1>6 DEF Init, Typed, TypeOK

\* No step of the converter but three touches what the hand-over sees.
LEMMA InsideFrame ==
    ConvertInside =>
        UNCHANGED <<queue, springboard, handover, sent, history, lost>>
BY DEF ConvertInside, C!Convert, C!Poll, C!ReadFails, C!ReadFile, C!YieldRest,
       C!NoMoreTables, C!ConvertFails, C!SyncWithS3, C!WriteLocal, C!UpdateFails,
       C!Upload, C!SendMetadata, C!CopyFile, C!DeleteFile, C!GiveUpMove,
       C!MoveDone, C!CleanLocal

\* Leaving a table keeps the types of what it changes.
LEMMA TypeNextTable ==
    ASSUME ConverterTyped, C!NextTable
    PROVE  /\ parts' \in [Days -> SUBSET Files]
           /\ \A d \in Days : parts'[d] \subseteq parts[d]
           /\ pc' \notin Busy
BY DEF ConverterTyped, C!NextTable, Busy

LEMMA InsideTyped == ConverterTyped /\ ConvertInside => ConverterTyped'
<1> SUFFICES ASSUME ConverterTyped, ConvertInside PROVE ConverterTyped'
  OBVIOUS
<1>1. springboard' \in [Days -> SUBSET Files]
  BY InsideFrame DEF ConverterTyped
<1> USE PipelineAssumption, <1>1 DEF ConverterTyped, Busy, C!buckets, C!loop
<1>2. CASE C!Poll
  BY <1>2 DEF C!Poll, C!NoRows
<1>3. ASSUME NEW f \in Files, C!ReadFails(f) PROVE ConverterTyped'
  BY <1>3 DEF C!ReadFails
<1>4. ASSUME NEW f \in Files, C!ReadFile(f) PROVE ConverterTyped'
  <2> DEFINE part == parts[DayOf[f]] \cup {f}
  <2>1. DayOf[f] \in Days /\ part \in SUBSET Files OBVIOUS
  <2>2. parts' = [parts EXCEPT ![DayOf[f]] = part]
    BY <1>4 DEF C!ReadFile
  <2>3. parts' \in [Days -> SUBSET Files] BY <2>1, <2>2
  <2>4. archiveFiles' \subseteq archiveFiles \cup part
    BY <1>4 DEF C!ReadFile
  <2>5. pc' = pc \/ (pc' = "sync" /\ day' = DayOf[f])
    BY <1>4 DEF C!ReadFile
  <2>6. pc = "read" /\ UNCHANGED <<incoming, archive, local>>
    BY <1>4 DEF C!ReadFile
  <2> QED BY <2>1, <2>3, <2>4, <2>5, <2>6
<1>5. ASSUME NEW d \in Days, C!YieldRest(d) PROVE ConverterTyped'
  BY <1>5 DEF C!YieldRest
<1>6. CASE C!NoMoreTables \/ C!ConvertFails \/ C!MoveDone
  BY <1>6 DEF C!NoMoreTables, C!ConvertFails, C!MoveDone
<1>7. CASE C!SyncWithS3
  <2>1. day \in Days BY <1>7 DEF C!SyncWithS3
  <2>2. local' \in [Days -> SUBSET Files]
    BY <1>7, <2>1 DEF C!SyncWithS3
  <2> QED BY <1>7, <2>2 DEF C!SyncWithS3
<1>8. CASE C!WriteLocal
  <2>1. day \in Days BY <1>8 DEF C!WriteLocal
  <2>2. local' \in [Days -> SUBSET Files]
    BY <1>8, <2>1 DEF C!WriteLocal, C!RowsOf
  <2> QED BY <1>8, <2>2 DEF C!WriteLocal
<1>9. CASE C!UpdateFails
  BY <1>9, TypeNextTable DEF C!UpdateFails, C!NoRows
<1>10. ASSUME NEW f \in Files, C!CopyFile(f) PROVE ConverterTyped'
  BY <1>10 DEF C!CopyFile
<1>11. ASSUME NEW f \in Files, C!DeleteFile(f) \/ C!GiveUpMove(f)
       PROVE  ConverterTyped'
  BY <1>11 DEF C!DeleteFile, C!GiveUpMove, C!Settled
<1>12. CASE C!CleanLocal
  <2>1. local' \in [Days -> SUBSET Files] BY <1>12 DEF C!CleanLocal
  <2>2. parts' \in [Days -> SUBSET Files] BY <1>12 DEF C!CleanLocal, C!NoRows
  <2>3. pc' = "idle" /\ UNCHANGED <<incoming, archive, archiveFiles>>
    BY <1>12 DEF C!CleanLocal
  <2> QED BY <2>1, <2>2, <2>3
<1> QED
  BY <1>2, <1>3, <1>4, <1>5, <1>6, <1>7, <1>8, <1>9, <1>10, <1>11, <1>12
  DEF ConvertInside, C!Convert, C!Upload, C!SendMetadata

\* The writer runs, and no None is queued, while the converter does.
LEMMA UploadTyped ==
    ASSUME Typed, LP!ShutdownInv, UploadObject
    PROVE  /\ Typed' /\ LP!ShutdownInv'
           /\ day \in Days
           /\ \A d \in Days : Len(history[d]) \in Nat /\ Len(history'[d]) \in Nat
           /\ \A d \in Days : Len(history[d]) <= Len(history'[d])
<1>1. pc = "upload" /\ pc' = "announce" /\ day' = day /\ day \in Days
  BY DEF UploadObject, C!Upload, C!loop, Typed, ConverterTyped, Busy
<1>2. /\ local \in [Days -> SUBSET Files]
      /\ springboard \in [Days -> SUBSET Files]
      /\ history \in [Days -> Seq(SUBSET Files)]
  BY DEF Typed, ConverterTyped, TypeOK
<1>3. springboard' \in [Days -> SUBSET Files]
  BY <1>1, <1>2 DEF UploadObject, C!Upload
<1>4. ConverterTyped'
  BY <1>1, <1>3 DEF UploadObject, C!Upload, C!buckets, C!loop, Typed, ConverterTyped
<1>5. \/ history' = history
      \/ history' = [history EXCEPT ![day] = Append(history[day], local[day])]
  BY DEF UploadObject
<1>6. local[day] \in SUBSET Files /\ history[day] \in Seq(SUBSET Files)
  BY <1>1, <1>2
<1>7. /\ Append(history[day], local[day]) \in Seq(SUBSET Files)
      /\ Len(Append(history[day], local[day])) = Len(history[day]) + 1
      /\ Len(history[day]) \in Nat
  BY <1>6
<1>8. history' \in [Days -> Seq(SUBSET Files)]
  BY <1>2, <1>5, <1>7
<1>9. ASSUME NEW d \in Days
      PROVE  /\ Len(history[d]) \in Nat /\ Len(history'[d]) \in Nat
             /\ Len(history[d]) <= Len(history'[d])
  <2>1. history'[d] = history[d] \/ (d = day /\ Len(history'[d]) = Len(history[d]) + 1)
    BY <1>1, <1>2, <1>5, <1>7
  <2>2. Len(history[d]) \in Nat BY <1>2
  <2> QED BY <2>1, <2>2
<1>10. lost' \subseteq Files
  BY <1>1, <1>2 DEF UploadObject, Typed, TypeOK
<1>11. UNCHANGED <<queue, handover, sent>>
  BY DEF UploadObject, C!Upload
<1>12. L!TypeOK'
  <2>1. [d \in Days |-> Len(history'[d])] \in [Days -> Nat] BY <1>9
  <2> QED BY <1>11, <2>1 DEF Typed, TypeOK, L!TypeOK, L!Rows, handover
<1>13. LP!ShutdownInv'
  <2> DEFINE object == [d \in Days |-> Len(history[d])]
  <2>1. \A d \in Days : sent[d] \in Nat
    BY DEF Typed, TypeOK, L!TypeOK
  <2>2. \A d \in Days : sent[d] <= Len(history[d])
    BY DEF LP!ShutdownInv, LP!PendingIsHeld
  <2>3. \A d \in Days : sent[d] <= Len(history'[d])
    BY <1>9, <2>1, <2>2
  <2>4. LP!PendingIsHeld'
    BY <1>11, <2>3 DEF LP!ShutdownInv, LP!PendingIsHeld, handover
  <2>5. LP!StopIsLast'
    BY <1>11 DEF LP!ShutdownInv, LP!StopIsLast, handover
  <2> QED BY <2>4, <2>5 DEF LP!ShutdownInv
<1> QED BY <1>1, <1>4, <1>8, <1>9, <1>10, <1>12, <1>13 DEF Typed, TypeOK

LEMMA AnnounceTyped ==
    ASSUME Typed, LP!ShutdownInv, Announce
    PROVE  /\ Typed' /\ LP!ShutdownInv'
           /\ day \in Days
           /\ \A d \in Days : d = day \/ UnderWay(d) => UnderWay(d)'
<1>1. pc = "announce" /\ day \in Days
  BY DEF Announce, C!SendMetadata, Typed, ConverterTyped, Busy
<1>2. ConverterTyped'
  BY TypeNextTable DEF Announce, C!SendMetadata, C!buckets, Typed, ConverterTyped
<1>3. UNCHANGED <<handover, history>> /\ lost' \subseteq lost
  BY DEF Announce
<1>4. /\ queue \in Seq(Days \cup {Stop})
      /\ queue' = Append(queue, day)
  BY DEF Announce, C!SendMetadata, Typed, TypeOK, L!TypeOK
<1>5. /\ queue' \in Seq(Days \cup {Stop})
      /\ Len(queue) \in Nat
      /\ Len(queue') = Len(queue) + 1
      /\ \A i \in 1 .. Len(queue) : queue'[i] = queue[i]
      /\ queue'[Len(queue')] = day
  BY <1>1, <1>4
<1>6. DOMAIN queue = 1 .. Len(queue) /\ DOMAIN queue' = 1 .. Len(queue')
  BY <1>4, <1>5
<1>7. Len(queue') \in DOMAIN queue' /\ DOMAIN queue \subseteq DOMAIN queue'
  BY <1>5, <1>6
<1>8. ASSUME NEW d \in Days, d = day PROVE UnderWay(d)'
  BY <1>5, <1>7, <1>8 DEF UnderWay
<1>9. ASSUME NEW d \in Days, UnderWay(d) PROVE UnderWay(d)'
  BY <1>3, <1>5, <1>6, <1>7, <1>9 DEF UnderWay, handover
<1>10. \A d \in Days : Len(history[d]) \in Nat
  BY DEF Typed, TypeOK
<1>11. sent' = [sent EXCEPT ![day] = Len(history[day])] /\ sent \in [Days -> Nat]
  BY DEF Announce, Typed, TypeOK, L!TypeOK
<1>12. sent' \in [Days -> Nat] BY <1>1, <1>10, <1>11
<1>13. L!TypeOK'
  BY <1>3, <1>5, <1>12 DEF Typed, TypeOK, L!TypeOK, L!Rows, handover
<1>14. LP!ShutdownInv'
  <2>1. \A d \in Days : sent'[d] <= Len(history[d])
    <3> SUFFICES ASSUME NEW d \in Days PROVE sent'[d] <= Len(history[d])
      OBVIOUS
    <3>1. CASE d = day
      BY <1>1, <1>10, <1>11, <3>1
    <3>2. CASE d # day
      BY <1>11, <3>2 DEF LP!ShutdownInv, LP!PendingIsHeld
    <3> QED BY <3>1, <3>2
  <2>2. ASSUME NEW d \in Days, inserted[d] < sent'[d]
        PROVE  row = d \/ \E i \in 1 .. Len(queue') : queue'[i] = d
    <3>1. CASE d = day BY <1>5, <1>6, <1>7, <3>1
    <3>2. CASE d # day
      <4>1. inserted[d] < sent[d] BY <1>11, <2>2, <3>2
      <4>2. row = d \/ \E i \in 1 .. Len(queue) : queue[i] = d
        BY <4>1 DEF LP!ShutdownInv, LP!PendingIsHeld
      <4> QED BY <1>5, <1>6, <1>7, <4>2
    <3> QED BY <3>1, <3>2
  <2>3. LP!PendingIsHeld'
    <3>1. \A d \in Days : [e \in Days |-> Len(history'[e])][d] = Len(history[d])
      BY <1>3
    <3> QED BY <1>3, <2>1, <2>2, <3>1 DEF LP!PendingIsHeld, handover
  <2>4. LP!StopIsLast'
    <3>1. main = "running" /\ writer = "running"
      BY DEF Announce, LP!ShutdownInv, LP!StopIsLast
    <3>2. ASSUME NEW i \in 1 .. Len(queue') PROVE queue'[i] # Stop
      <4>1. i \in 1 .. Len(queue) \/ i = Len(queue') BY <1>5
      <4> QED BY <1>1, <1>5, <3>1, <4>1, PipelineAssumption
              DEF LP!ShutdownInv, LP!StopIsLast
    <3> QED BY <1>3, <3>1, <3>2 DEF LP!StopIsLast, handover
  <2> QED BY <2>3, <2>4 DEF LP!ShutdownInv
<1> QED BY <1>1, <1>2, <1>3, <1>8, <1>9, <1>13, <1>14 DEF Typed, TypeOK

LEMMA ArriveTyped ==
    ASSUME Typed, LP!ShutdownInv, NEW f \in Files, Arrive(f)
    PROVE  Typed' /\ LP!ShutdownInv'
<1>1. UNCHANGED <<queue, handover, sent, history, lost>>
  BY DEF Arrive, C!Arrive
<1>2. ConverterTyped'
  BY DEF Arrive, C!Arrive, C!loop, Typed, ConverterTyped
<1>3. TypeOK'
  BY <1>1 DEF Typed, TypeOK, L!TypeOK, L!Rows, handover
<1>4. LP!ShutdownInv'
  BY <1>1 DEF LP!ShutdownInv, LP!PendingIsHeld, LP!StopIsLast, handover
<1> QED BY <1>2, <1>3, <1>4 DEF Typed

LEMMA InsideAllTyped ==
    ASSUME Typed, LP!ShutdownInv, ConvertInside
    PROVE  Typed' /\ LP!ShutdownInv'
<1>1. UNCHANGED <<queue, handover, sent, history, lost>>
  BY InsideFrame
<1>2. ConverterTyped' BY InsideTyped DEF Typed
<1>3. TypeOK'
  BY <1>1 DEF Typed, TypeOK, L!TypeOK, L!Rows, handover
<1>4. LP!ShutdownInv'
  BY <1>1 DEF LP!ShutdownInv, LP!PendingIsHeld, LP!StopIsLast, handover
<1> QED BY <1>2, <1>3, <1>4 DEF Typed

\* The steps in which the converter stands still, or starts again.
Standing ==
    Sigterm \/ Shutdown \/ Crash \/ Writer \/ Manager \/ ManagerCrash

LEMMA StandingTyped ==
    ASSUME Typed, LP!ShutdownInv, Standing
    PROVE  Typed' /\ LP!ShutdownInv'
<1>1. Handover
  BY DEF Standing, Handover, Sigterm, Shutdown, StopWriter, Exit, Restart, Crash,
         Writer, Manager, ManagerCrash
<1>2. L!TypeOK' /\ LP!ShutdownInv'
  BY <1>1, HandoverKeeps DEF Typed, TypeOK
<1>3. UNCHANGED <<history, incoming, archive, springboard>>
  BY DEF Standing, Sigterm, Shutdown, StopWriter, Exit, Restart, Crash, C!Crash,
         Writer, Manager, ManagerCrash, converter, C!buckets
<1>4. lost' \subseteq Files
  BY DEF Standing, Sigterm, Shutdown, StopWriter, Exit, Restart, Crash,
         Writer, Manager, ManagerCrash, Typed, TypeOK, ConverterTyped
<1>5. /\ local' \in [Days -> SUBSET Files]
      /\ parts' \in [Days -> SUBSET Files]
      /\ archiveFiles' \subseteq Files
      /\ pc' \in Busy => day' \in Days
  BY DEF Standing, Sigterm, Shutdown, StopWriter, Exit, Restart, Crash, C!Crash,
         Writer, Manager, ManagerCrash, converter, C!NoRows, Typed, ConverterTyped,
         Busy
<1> QED BY <1>2, <1>3, <1>4, <1>5 DEF Typed, TypeOK, ConverterTyped

LEMMA TypedNext ==
    Typed /\ LP!ShutdownInv /\ [Next]_vars => Typed' /\ LP!ShutdownInv'
<1> SUFFICES ASSUME Typed, LP!ShutdownInv, [Next]_vars
             PROVE  Typed' /\ LP!ShutdownInv'
  OBVIOUS
<1>1. CASE UNCHANGED vars
  BY <1>1 DEF vars, converter, handover, Typed, TypeOK, L!TypeOK, L!Rows,
              ConverterTyped, LP!ShutdownInv, LP!PendingIsHeld, LP!StopIsLast
<1>2. CASE Standing
  BY <1>2, StandingTyped
<1> QED BY <1>1, <1>2, ArriveTyped, InsideAllTyped, UploadTyped, AnnounceTyped
        DEF Next, Convert, Standing

\* The variables of both parts keep their types: the queue that they share
\* holds days, and a None only when the converter has come to rest.
THEOREM TypeCorrect == Spec => []TypeOK
<1>1. Typed => TypeOK BY DEF Typed
<1> QED BY <1>1, InitTyped, TypedNext, PTL DEF Spec

\* Also with the converter of GtfsRtConverter at the other end of the queue,
\* a shutdown that ran to its end leaves no announced day without its row.
THEOREM ShutdownLeavesNothing == Spec => []LP!ShutdownDrainsQueue
<1>1. Typed /\ LP!ShutdownInv => LP!ShutdownDrainsQueue
  <2> SUFFICES ASSUME Typed, LP!ShutdownInv, main = "exited", NEW d \in Days
               PROVE  inserted[d] >= sent[d]
    BY DEF LP!ShutdownDrainsQueue
  <2>1. queue = <<>> /\ row = NoDay BY DEF LP!ShutdownInv, LP!StopIsLast
  <2>2. ~(inserted[d] < sent[d])
    BY <2>1, PipelineAssumption DEF LP!ShutdownInv, LP!PendingIsHeld
  <2> QED BY <2>2 DEF Typed, TypeOK, L!TypeOK
<1> QED BY <1>1, InitTyped, TypedNext, PTL DEF Spec

(***************************************************************************)
(* Archived files                                                          *)
(***************************************************************************)

LEMMA InitPipeline == Init => PipelineInv
BY PipelineAssumption
DEF Init, C!Init, C!NoRows, L!Init, L!Zero, PipelineInv, RowsOfDay,
    ObjectIsLastUpload, InsertedIsUploaded, NotedIsSafe, ArchivedIsSafe,
    ConverterRests

\* The uploads that held the rows of a file do not change with the rest.
LEMMA SameUploads ==
    ASSUME UNCHANGED history, NEW f \in Files
    PROVE  UploadsWith(f)' = UploadsWith(f)
BY DEF UploadsWith

\* A file of the object stays safe while its path is handed over: at the
\* end its row stands for the last upload, which holds it.
LEMMA SafeIsKept ==
    ASSUME Typed, PipelineInv, NEW f \in Files, Safe(f),
           UNCHANGED <<history, springboard>>,
           NEW d \in Days, d = DayOf[f],
           inserted'[d] = inserted[d] \/ inserted'[d] = Len(history[d]),
           UnderWay(d) => UnderWay(d)' \/ inserted'[d] = Len(history[d])
    PROVE  Safe(f)'
<1>1. f \in springboard[d] BY DEF Safe
<1>2. history[d] # <<>> /\ f \in history[d][Len(history[d])]
  BY <1>1 DEF PipelineInv, ObjectIsLastUpload
<1>3. history[d] \in Seq(SUBSET Files) BY DEF Typed, TypeOK
<1>4. Len(history[d]) \in DOMAIN history[d] BY <1>2, <1>3
<1>5. Len(history[d]) \in UploadsWith(f)
  BY <1>2, <1>4 DEF UploadsWith
<1>6. UploadsWith(f)' = UploadsWith(f) BY SameUploads
<1>7. CASE inserted'[d] = Len(history[d])
  BY <1>1, <1>5, <1>6, <1>7 DEF Safe, Recorded
<1>8. CASE inserted'[d] = inserted[d] /\ Recorded(f)
  BY <1>1, <1>6, <1>8 DEF Safe, Recorded
<1>9. CASE UnderWay(d)'
  BY <1>1, <1>9 DEF Safe
<1> QED BY <1>7, <1>8, <1>9 DEF Safe

LEMMA DayOfFile == \A f \in Files : DayOf[f] \in Days
BY PipelineAssumption

LEMMA ArriveKeeps ==
    ASSUME Typed, PipelineInv, NEW f \in Files, Arrive(f)
    PROVE  PipelineInv'
<1>1. UNCHANGED <<archive, error, springboard, queue, local, pc, files, parts,
                  archiveFiles, day, history, lost, inserted, row, main>>
  BY DEF Arrive, C!Arrive, C!loop, handover
<1>2. \A g \in Files : (Safe(g)' <=> Safe(g)) /\ (InHand(g)' <=> InHand(g))
  BY <1>1 DEF Safe, InHand, Recorded, UnderWay, UploadsWith
<1> QED BY <1>1, <1>2
        DEF PipelineInv, RowsOfDay, ObjectIsLastUpload, InsertedIsUploaded,
            NotedIsSafe, ArchivedIsSafe, ConverterRests, Typed, ConverterTyped

(***************************************************************************)
(* Archived files: the steps of the converter that nobody else sees        *)
(***************************************************************************)

LEMMA InsideKeeps ==
    ASSUME Typed, PipelineInv, ConvertInside
    PROVE  PipelineInv'
<1>1. UNCHANGED <<queue, springboard, history, lost, inserted, row>>
  BY InsideFrame DEF handover
<1>2. ASSUME NEW f PROVE Safe(f)' <=> Safe(f)
  BY <1>1 DEF Safe, Recorded, UnderWay, UploadsWith
<1>3. ObjectIsLastUpload' /\ InsertedIsUploaded' /\ ConverterRests'
  BY InsideFrame
  DEF PipelineInv, ObjectIsLastUpload, InsertedIsUploaded, ConvertInside,
      ConverterRests, handover
<1> DEFINE Held == RowsOfDay' /\ NotedIsSafe' /\ ArchivedIsSafe'
<1> USE PipelineAssumption, DayOfFile
<1>4. ASSUME C!Poll PROVE Held
  <2>1. archiveFiles' = {} /\ UNCHANGED <<archive, local>>
    BY <1>4 DEF C!Poll, C!buckets
  <2>2. \A d \in Days : parts'[d] = {} BY <1>4 DEF C!Poll, C!NoRows
  <2> QED BY <1>1, <1>2, <2>1, <2>2
          DEF PipelineInv, RowsOfDay, NotedIsSafe, ArchivedIsSafe, Typed, ConverterTyped
<1>5. ASSUME NEW f \in Files, C!ReadFails(f) PROVE Held
  <2>1. UNCHANGED <<archive, local, parts, pc, day, archiveFiles>>
    BY <1>5 DEF C!ReadFails, C!buckets
  <2> QED BY <1>1, <1>2, <2>1
          DEF PipelineInv, RowsOfDay, NotedIsSafe, ArchivedIsSafe, Typed,
              ConverterTyped, InHand
<1>6. ASSUME NEW f \in Files, C!ReadFile(f) PROVE Held
  <2> DEFINE d == DayOf[f]
             part == parts[d] \cup {f}
  <2>1. d \in Days OBVIOUS
  <2>2. /\ pc = "read" /\ UNCHANGED <<archive, local>>
        /\ parts' = [parts EXCEPT ![d] = part]
        /\ \/ UNCHANGED <<archiveFiles, day, pc>>
           \/ archiveFiles' = archiveFiles \cup part /\ day' = d /\ pc' = "sync"
    BY <1>6 DEF C!ReadFile, C!buckets
  <2>3. parts'[d] = part /\ \A e \in Days \ {d} : parts'[e] = parts[e]
    BY <2>1, <2>2 DEF Typed, ConverterTyped
  <2>4. RowsOfDay'
    BY <1>1, <2>1, <2>2, <2>3 DEF PipelineInv, RowsOfDay
  <2>5. \A g \in archiveFiles \ (Rowless \cup lost) : Safe(g)
    BY <2>2 DEF PipelineInv, NotedIsSafe, InHand
  <2>6. NotedIsSafe'
    <3>1. CASE UNCHANGED <<archiveFiles, day, pc>>
      BY <1>1, <1>2, <2>5, <3>1 DEF NotedIsSafe
    <3>2. CASE archiveFiles' = archiveFiles \cup part /\ day' = d /\ pc' = "sync"
      BY <1>1, <1>2, <2>3, <2>5, <3>2 DEF NotedIsSafe, InHand
    <3> QED BY <2>2, <3>1, <3>2
  <2>7. ArchivedIsSafe'
    BY <1>1, <1>2, <2>2 DEF PipelineInv, ArchivedIsSafe
  <2> QED BY <2>4, <2>6, <2>7
<1>7. ASSUME NEW d \in Days, C!YieldRest(d) PROVE Held
  <2>1. /\ pc = "read" /\ UNCHANGED <<archive, local>>
        /\ archiveFiles' = archiveFiles \cup parts[d]
        /\ \/ /\ parts[d] \subseteq Rowless /\ pc' = pc
              /\ parts' = [parts EXCEPT ![d] = {}]
           \/ day' = d /\ pc' = "sync" /\ parts' = parts
    BY <1>7 DEF C!YieldRest, C!buckets, C!RowsOf
  <2>2. \A e \in Days : parts'[e] \subseteq parts[e]
    BY <2>1 DEF Typed, ConverterTyped
  <2>3. RowsOfDay'
    BY <1>1, <2>1, <2>2 DEF PipelineInv, RowsOfDay
  <2>4. \A g \in archiveFiles \ (Rowless \cup lost) : Safe(g)
    BY <2>1 DEF PipelineInv, NotedIsSafe, InHand
  <2>5. NotedIsSafe'
    BY <1>1, <1>2, <2>1, <2>4 DEF NotedIsSafe, InHand
  <2>6. ArchivedIsSafe'
    BY <1>1, <1>2, <2>1 DEF PipelineInv, ArchivedIsSafe
  <2> QED BY <2>3, <2>5, <2>6
<1>8. ASSUME C!NoMoreTables \/ C!ConvertFails \/ C!MoveDone PROVE Held
  <2>1. /\ UNCHANGED <<archive, local, parts, archiveFiles, day>>
        /\ pc \notin Busy /\ pc' \notin Busy
    BY <1>8 DEF C!NoMoreTables, C!ConvertFails, C!MoveDone, C!buckets, C!loop, Busy
  <2> QED BY <1>1, <1>2, <2>1
          DEF PipelineInv, RowsOfDay, NotedIsSafe, ArchivedIsSafe, Typed,
              ConverterTyped, InHand, Busy
<1>9. ASSUME C!SyncWithS3 PROVE Held
  <2>1. /\ pc = "sync" /\ pc' = "write" /\ day \in Days
        /\ UNCHANGED <<archive, parts, archiveFiles, day>>
    BY <1>9 DEF C!SyncWithS3, C!buckets, C!loop, Typed, ConverterTyped, Busy
  <2>2. \A d \in Days : local'[d] = local[d] \/ local'[d] = springboard[d]
    BY <1>9, <2>1 DEF C!SyncWithS3, Typed, ConverterTyped
  <2>3. RowsOfDay'
    BY <1>1, <2>1, <2>2 DEF PipelineInv, RowsOfDay
  <2>4. NotedIsSafe'
    BY <1>1, <1>2, <2>1 DEF PipelineInv, NotedIsSafe, InHand
  <2>5. ArchivedIsSafe'
    BY <1>1, <1>2, <2>1 DEF PipelineInv, ArchivedIsSafe
  <2> QED BY <2>3, <2>4, <2>5
<1>10. ASSUME C!WriteLocal PROVE Held
  <2>1. /\ pc = "write" /\ pc' = "upload" /\ day \in Days
        /\ UNCHANGED <<archive, parts, archiveFiles, day>>
    BY <1>10 DEF C!WriteLocal, C!buckets, C!loop, Typed, ConverterTyped, Busy
  <2>2. local'[day] = local[day] \cup (parts[day] \ Rowless)
    BY <1>10, <2>1 DEF C!WriteLocal, C!RowsOf, Typed, ConverterTyped
  <2>3. \A d \in Days \ {day} : local'[d] = local[d]
    BY <1>10, <2>1 DEF C!WriteLocal, Typed, ConverterTyped
  <2>4. RowsOfDay'
    BY <1>1, <2>1, <2>2, <2>3 DEF PipelineInv, RowsOfDay
  <2>5. NotedIsSafe'
    BY <1>1, <1>2, <2>1, <2>2 DEF PipelineInv, NotedIsSafe, InHand
  <2>6. ArchivedIsSafe'
    BY <1>1, <1>2, <2>1 DEF PipelineInv, ArchivedIsSafe
  <2> QED BY <2>4, <2>5, <2>6
<1>11. ASSUME C!UpdateFails PROVE Held
  <2>1. archiveFiles' = {} /\ UNCHANGED archive
    BY <1>11 DEF C!UpdateFails, C!buckets
  <2>2. \A d \in Days : local'[d] = {} BY <1>11 DEF C!UpdateFails, C!NoRows
  <2>3. \A d \in Days : parts'[d] \subseteq parts[d]
    BY <1>11, TypeNextTable DEF C!UpdateFails, Typed
  <2>4. RowsOfDay'
    BY <1>1, <2>2, <2>3 DEF PipelineInv, RowsOfDay
  <2> QED BY <1>1, <1>2, <2>1, <2>4 DEF PipelineInv, NotedIsSafe, ArchivedIsSafe
<1>12. ASSUME NEW f \in Files, C!CopyFile(f) PROVE Held
  <2>1. /\ pc \notin Busy /\ UNCHANGED <<local, parts, pc, day, archiveFiles>>
        /\ archive' = archive \/ (f \in archiveFiles /\ archive' = archive \cup {f})
    BY <1>12 DEF C!CopyFile, Busy
  <2>2. \A g \in archiveFiles \ (Rowless \cup lost) : Safe(g)
    BY <2>1 DEF PipelineInv, NotedIsSafe, InHand, Busy
  <2> QED BY <1>1, <1>2, <2>1, <2>2
          DEF PipelineInv, RowsOfDay, NotedIsSafe, ArchivedIsSafe
<1>13. ASSUME NEW f \in Files, C!DeleteFile(f) \/ C!GiveUpMove(f) PROVE Held
  <2>1. /\ pc \notin Busy /\ UNCHANGED <<archive, local, parts, pc, day>>
        /\ archiveFiles' \subseteq archiveFiles
    BY <1>13 DEF C!DeleteFile, C!GiveUpMove, C!Settled, C!buckets, Busy
  <2>2. \A g \in archiveFiles \ (Rowless \cup lost) : Safe(g)
    BY <2>1 DEF PipelineInv, NotedIsSafe, InHand, Busy
  <2> QED BY <1>1, <1>2, <2>1, <2>2
          DEF PipelineInv, RowsOfDay, NotedIsSafe, ArchivedIsSafe
<1>14. ASSUME C!CleanLocal PROVE Held
  <2>1. pc = "clean" /\ pc' = "idle" /\ UNCHANGED <<archive, archiveFiles>>
    BY <1>14 DEF C!CleanLocal, C!buckets
  <2>2. \A d \in Days : local'[d] = local[d] \/ local'[d] = {}
    BY <1>14 DEF C!CleanLocal
  <2>3. \A d \in Days : parts'[d] = {} BY <1>14 DEF C!CleanLocal, C!NoRows
  <2>4. RowsOfDay'
    BY <1>1, <2>2, <2>3 DEF PipelineInv, RowsOfDay
  <2>5. \A g \in archiveFiles \ (Rowless \cup lost) : Safe(g)
    BY <2>1 DEF PipelineInv, NotedIsSafe, InHand
  <2> QED BY <1>1, <1>2, <2>1, <2>4, <2>5 DEF PipelineInv, NotedIsSafe, ArchivedIsSafe
<1>15. Held
  BY <1>4, <1>5, <1>6, <1>7, <1>8, <1>9, <1>10, <1>11, <1>12, <1>13, <1>14
  DEF ConvertInside, C!Convert, C!Upload, C!SendMetadata
<1> QED BY <1>3, <1>15 DEF PipelineInv

(***************************************************************************)
(* Archived files: uploads and announcements                               *)
(***************************************************************************)

\* What is at which place of a sequence with one more element.
LEMMA AppendFacts ==
    ASSUME NEW S, NEW q \in Seq(S), NEW e \in S
    PROVE  /\ Len(q) \in Nat
           /\ Append(q, e) # <<>>
           /\ Len(Append(q, e)) = Len(q) + 1
           /\ Append(q, e)[Len(q) + 1] = e
           /\ \A i \in DOMAIN q :
                 i \in DOMAIN Append(q, e) /\ Append(q, e)[i] = q[i]
OBVIOUS

LEMMA UploadKeeps ==
    ASSUME Typed, LP!ShutdownInv, PipelineInv, UploadObject
    PROVE  PipelineInv'
<1> DEFINE kept == (local[day] \cup springboard[day]) \ springboard'[day]
<1>1. /\ pc = "upload" /\ pc' = "announce" /\ day' = day /\ day \in Days
      /\ UNCHANGED <<archive, archiveFiles, parts, local, queue, row, inserted>>
      /\ lost' = lost \cup kept
  BY DEF UploadObject, C!Upload, C!buckets, C!loop, handover, Typed, ConverterTyped,
         Busy
<1>2. /\ springboard \in [Days -> SUBSET Files]
      /\ history \in [Days -> Seq(SUBSET Files)]
      /\ local[day] \in SUBSET Files
  BY <1>1 DEF Typed, ConverterTyped, TypeOK
<1>3. springboard' = springboard \/ springboard' = [springboard EXCEPT ![day] = local[day]]
  BY DEF UploadObject, C!Upload
<1>4. \A d \in Days \ {day} : springboard'[d] = springboard[d]
  BY <1>1, <1>2, <1>3
<1>5. springboard'[day] = springboard[day] \/ springboard'[day] = local[day]
  BY <1>1, <1>2, <1>3
<1>6. \A d \in Days \ {day} : history'[d] = history[d]
  BY <1>1, <1>2 DEF UploadObject
<1>7. \/ springboard'[day] = local[day] /\ history'[day] = Append(history[day], local[day])
      \/ springboard'[day] = springboard[day] /\ history'[day] = history[day]
  BY <1>1, <1>2, <1>5 DEF UploadObject
<1>8. /\ Len(history[day]) \in Nat
      /\ Append(history[day], local[day]) # <<>>
      /\ Len(Append(history[day], local[day])) = Len(history[day]) + 1
      /\ Append(history[day], local[day])[Len(history[day]) + 1] = local[day]
      /\ \A i \in DOMAIN history[day] :
            /\ i \in DOMAIN Append(history[day], local[day])
            /\ Append(history[day], local[day])[i] = history[day][i]
  <2>1. history[day] \in Seq(SUBSET Files) BY <1>1, <1>2
  <2> QED BY <1>2, <2>1, AppendFacts
<1>9. RowsOfDay'
  BY <1>1, <1>4, <1>5 DEF PipelineInv, RowsOfDay
<1>10. ObjectIsLastUpload'
  <2> SUFFICES ASSUME NEW d \in Days
               PROVE  /\ history'[d] = <<>> => springboard'[d] = {}
                      /\ history'[d] # <<>> =>
                            springboard'[d] = history'[d][Len(history'[d])]
    BY DEF ObjectIsLastUpload
  <2>1. CASE d # day
    BY <1>4, <1>6, <2>1 DEF PipelineInv, ObjectIsLastUpload
  <2>2. CASE d = day
    BY <1>7, <1>8, <2>2 DEF PipelineInv, ObjectIsLastUpload
  <2> QED BY <2>1, <2>2
<1>11. InsertedIsUploaded'
  <2> SUFFICES ASSUME NEW d \in Days PROVE inserted[d] <= Len(history'[d])
    BY <1>1 DEF InsertedIsUploaded
  <2>1. inserted[d] \in Nat /\ inserted[d] <= Len(history[d])
    BY DEF Typed, TypeOK, L!TypeOK, PipelineInv, InsertedIsUploaded
  <2> QED BY <2>1, UploadTyped
<1>12. ASSUME NEW f \in Files PROVE UploadsWith(f) \subseteq UploadsWith(f)'
  <2>1. CASE DayOf[f] # day
    BY <1>6, <2>1, DayOfFile DEF UploadsWith
  <2>2. CASE DayOf[f] = day
    BY <1>7, <1>8, <2>2 DEF UploadsWith
  <2> QED BY <2>1, <2>2
<1>13. ASSUME NEW f \in Files \ lost', Safe(f) PROVE Safe(f)'
  <2>1. f \in springboard'[DayOf[f]]
    BY <1>1, <1>4, <1>13, DayOfFile DEF Safe
  <2> QED BY <1>1, <1>12, <1>13, <2>1 DEF Safe, Recorded, UnderWay
<1>14. NotedIsSafe'
  <2> SUFFICES ASSUME NEW f \in archiveFiles \ (Rowless \cup lost')
               PROVE  Safe(f)' \/ InHand(f)'
    BY <1>1 DEF NotedIsSafe
  <2>1. f \in Files /\ f \notin lost' BY DEF Typed, ConverterTyped
  <2>2. Safe(f) \/ f \in local[day]
    BY <1>1 DEF PipelineInv, NotedIsSafe, InHand
  <2>3. f \in local[day] => f \in springboard'[day]
    BY <1>1, <2>1
  <2> QED BY <1>1, <1>13, <2>1, <2>2, <2>3 DEF InHand
<1>15. ArchivedIsSafe'
  <2> SUFFICES ASSUME NEW f \in archive \ (Rowless \cup lost') PROVE Safe(f)'
    BY <1>1 DEF ArchivedIsSafe
  <2>1. f \in Files BY DEF Typed, ConverterTyped
  <2> QED BY <1>1, <1>13, <2>1 DEF PipelineInv, ArchivedIsSafe
<1>16. ConverterRests'
  BY DEF UploadObject, handover, ConverterRests
<1> QED BY <1>9, <1>10, <1>11, <1>14, <1>15, <1>16 DEF PipelineInv

\* The rows of the object that is announced are safe, also those that had
\* been lost.
LEMMA AnnounceKeeps ==
    ASSUME Typed, LP!ShutdownInv, PipelineInv, Announce
    PROVE  PipelineInv'
<1>1. /\ pc = "announce" /\ pc' \notin Busy /\ day \in Days
      /\ UNCHANGED <<archive, archiveFiles, springboard, local, history, inserted>>
      /\ lost' = lost \ springboard[day]
  BY AnnounceTyped, TypeNextTable
  DEF Announce, C!SendMetadata, C!buckets, handover, Typed
<1>2. \A d \in Days : parts'[d] \subseteq parts[d]
  BY TypeNextTable DEF Announce, C!SendMetadata, Typed
<1>3. RowsOfDay'
  BY <1>1, <1>2 DEF PipelineInv, RowsOfDay
<1>4. ObjectIsLastUpload' /\ InsertedIsUploaded'
  BY <1>1 DEF PipelineInv, ObjectIsLastUpload, InsertedIsUploaded
<1>5. ASSUME NEW f \in Files, Safe(f) PROVE Safe(f)'
  <2>1. UploadsWith(f)' = UploadsWith(f) BY <1>1 DEF UploadsWith
  <2>2. UnderWay(DayOf[f]) => UnderWay(DayOf[f])'
    BY DayOfFile, AnnounceTyped
  <2> QED BY <1>1, <1>5, <2>1, <2>2 DEF Safe, Recorded
<1>6. ASSUME NEW f \in Files, f \in springboard[day] PROVE Safe(f)'
  <2>1. DayOf[f] = day BY <1>1, <1>6 DEF PipelineInv, RowsOfDay
  <2>2. UnderWay(DayOf[f])' BY <2>1, DayOfFile, AnnounceTyped
  <2>3. f \in springboard'[DayOf[f]] BY <1>1, <1>6, <2>1
  <2> QED BY <2>2, <2>3 DEF Safe
<1>7. NotedIsSafe'
  <2> SUFFICES ASSUME NEW f \in archiveFiles \ (Rowless \cup lost') PROVE Safe(f)'
    BY <1>1 DEF NotedIsSafe
  <2>1. f \in Files BY DEF Typed, ConverterTyped
  <2>2. f \in springboard[day] \/ Safe(f)
    BY <1>1 DEF PipelineInv, NotedIsSafe, InHand
  <2> QED BY <1>5, <1>6, <2>1, <2>2
<1>8. ArchivedIsSafe'
  <2> SUFFICES ASSUME NEW f \in archive \ (Rowless \cup lost') PROVE Safe(f)'
    BY <1>1 DEF ArchivedIsSafe
  <2>1. f \in Files BY DEF Typed, ConverterTyped
  <2>2. f \in springboard[day] \/ Safe(f)
    BY <1>1 DEF PipelineInv, ArchivedIsSafe
  <2> QED BY <1>5, <1>6, <2>1, <2>2
<1>9. ConverterRests'
  BY DEF Announce, handover, ConverterRests
<1> QED BY <1>3, <1>4, <1>7, <1>8, <1>9 DEF PipelineInv

(***************************************************************************)
(* Archived files: the writer, the manager, stops and restarts             *)
(***************************************************************************)

\* A path leaves the queue for the writer, and the writer for its row.
LEMMA WriterHandsOver ==
    ASSUME Typed, Writer, NEW d \in Days
    PROVE  /\ inserted'[d] = inserted[d] \/ inserted'[d] = Len(history[d])
           /\ UnderWay(d) => UnderWay(d)' \/ inserted'[d] = Len(history[d])
<1>1. CASE L!WriterGet
  <2>1. UNCHANGED inserted /\ row = NoDay BY <1>1 DEF L!WriterGet
  <2>2. /\ queue \in Seq(Days \cup {Stop}) /\ queue # <<>>
        /\ queue' = Tail(queue)
    BY <1>1 DEF L!WriterGet, Typed, TypeOK, L!TypeOK
  <2>3. /\ Head(queue) = queue[1]
        /\ \A i \in DOMAIN queue : i = 1 \/ (i - 1 \in DOMAIN queue' /\ queue'[i - 1] = queue[i])
    BY <2>2
  <2>4. Head(queue) = d => row' = d
    BY <1>1, PipelineAssumption DEF L!WriterGet
  <2>5. UnderWay(d) => UnderWay(d)'
    BY <2>1, <2>3, <2>4, PipelineAssumption DEF UnderWay
  <2> QED BY <2>1, <2>5
<1>2. CASE L!WriterInsert
  <2>1. row \in Days /\ inserted \in [Days -> Nat]
    BY <1>2 DEF L!WriterInsert, Typed, TypeOK, L!TypeOK
  <2>2. inserted' = [inserted EXCEPT ![row] = Len(history[row])]
    BY <1>2, <2>1 DEF L!WriterInsert
  <2>3. UNCHANGED queue BY <1>2 DEF L!WriterInsert
  <2>4. CASE d = row
    BY <2>1, <2>2, <2>4
  <2>5. CASE d # row
    BY <2>1, <2>2, <2>3, <2>5 DEF UnderWay
  <2> QED BY <2>4, <2>5
<1> QED BY <1>1, <1>2 DEF Writer, L!Writer

\* Nobody else takes a path from the queue while the container lives.
Beside == Sigterm \/ StopWriter \/ Exit \/ Manager \/ ManagerCrash

LEMMA BesideHandsOver ==
    ASSUME Typed, Beside, NEW d \in Days
    PROVE  /\ inserted'[d] = inserted[d]
           /\ UnderWay(d) => UnderWay(d)'
<1>1. UNCHANGED <<row, inserted>>
  BY DEF Beside, Sigterm, L!Sigterm, StopWriter, L!StopWriter, Exit, L!Exit,
         Manager, L!Manager, L!SelectVp, L!SelectTu, L!ReadPath, L!ApplyEvents,
         L!MarkProcessed, L!MarkFailed, L!Mark, ManagerCrash, L!ManagerCrash
<1>2. UNCHANGED queue \/ queue' = Append(queue, Stop)
  BY DEF Beside, Sigterm, L!Sigterm, StopWriter, L!StopWriter, Exit, L!Exit,
         Manager, L!Manager, L!SelectVp, L!SelectTu, L!ReadPath, L!ApplyEvents,
         L!MarkProcessed, L!MarkFailed, L!Mark, ManagerCrash, L!ManagerCrash
<1>3. queue \in Seq(Days \cup {Stop}) BY DEF Typed, TypeOK, L!TypeOK
<1>4. \A i \in DOMAIN queue : i \in DOMAIN queue' /\ queue'[i] = queue[i]
  BY <1>2, <1>3
<1> QED BY <1>1, <1>4 DEF UnderWay

LEMMA LivingKeeps ==
    ASSUME Typed, PipelineInv, Writer \/ Beside
    PROVE  PipelineInv'
<1>1. UNCHANGED <<converter, history, lost>>
  BY DEF Writer, Beside, Sigterm, StopWriter, Exit, Manager, ManagerCrash
<1>2. \A d \in Days :
        /\ inserted'[d] = inserted[d] \/ inserted'[d] = Len(history[d])
        /\ UnderWay(d) => UnderWay(d)' \/ inserted'[d] = Len(history[d])
  BY WriterHandsOver, BesideHandsOver
<1>3. \A f \in Files : Safe(f) => Safe(f)'
  <2> SUFFICES ASSUME NEW f \in Files, Safe(f) PROVE Safe(f)'
    OBVIOUS
  <2>1. DayOf[f] \in Days BY DayOfFile
  <2>2. UNCHANGED <<history, springboard>> BY <1>1 DEF converter
  <2> QED BY <1>2, <2>1, <2>2, SafeIsKept
<1>4. RowsOfDay' /\ ObjectIsLastUpload'
  BY <1>1 DEF converter, PipelineInv, RowsOfDay, ObjectIsLastUpload
<1>5. InsertedIsUploaded'
  <2> SUFFICES ASSUME NEW d \in Days PROVE inserted'[d] <= Len(history[d])
    BY <1>1 DEF InsertedIsUploaded
  <2>1. Len(history[d]) \in Nat BY DEF Typed, TypeOK
  <2> QED BY <1>2, <2>1 DEF PipelineInv, InsertedIsUploaded
<1>6. \A f : InHand(f)' <=> InHand(f)
  BY <1>1 DEF converter, InHand
<1>7. NotedIsSafe' /\ ArchivedIsSafe'
  BY <1>1, <1>3, <1>6
  DEF converter, PipelineInv, NotedIsSafe, ArchivedIsSafe, Typed, ConverterTyped
<1>8. ConverterRests'
  <2>1. pc = "idle" \/ main' = main \/ main # "running"
    BY DEF Writer, L!Writer, L!WriterGet, L!WriterInsert, L!ingestion, Beside,
           Sigterm, L!Sigterm, StopWriter, Exit, L!Exit, Manager, L!Manager,
           L!SelectVp, L!SelectTu, L!ReadPath, L!ApplyEvents, L!MarkProcessed,
           L!MarkFailed, L!Mark, ManagerCrash, L!ManagerCrash
  <2> QED BY <1>1, <2>1 DEF converter, PipelineInv, ConverterRests
<1> QED BY <1>4, <1>5, <1>7, <1>8 DEF PipelineInv

\* A container that ended by itself leaves no path behind; of one that was
\* killed, the archived files whose path was under way are lost.
LEMMA StartKeeps ==
    ASSUME Typed, LP!ShutdownInv, PipelineInv, Restart \/ Crash
    PROVE  PipelineInv'
<1>1. UNCHANGED <<history, springboard, archive, inserted>>
  BY DEF Restart, L!Restart, Crash, C!Crash, L!IngestionCrash, C!buckets
<1>2. \A f \in archive \ (Rowless \cup lost') :
        f \notin lost /\ ~UnderWay(DayOf[f])
  <2>1. CASE Restart
    <3>1. queue = <<>> /\ row = NoDay
      BY <2>1 DEF Restart, L!Restart, LP!ShutdownInv, LP!StopIsLast
    <3> QED BY <2>1, <3>1, DayOfFile, PipelineAssumption
            DEF Restart, UnderWay, Typed, ConverterTyped
  <2>2. CASE Crash
    BY <2>2 DEF Crash
  <2> QED BY <2>1, <2>2
<1>3. ASSUME NEW f \in Files, Safe(f), ~UnderWay(DayOf[f]) PROVE Safe(f)'
  <2>1. UploadsWith(f)' = UploadsWith(f) BY <1>1 DEF UploadsWith
  <2> QED BY <1>1, <1>3, <2>1 DEF Safe, Recorded
<1>4. ArchivedIsSafe'
  BY <1>1, <1>2, <1>3 DEF PipelineInv, ArchivedIsSafe, Typed, ConverterTyped
<1>5. RowsOfDay'
  <2>1. \A d \in Days : local'[d] = {} /\ parts'[d] \subseteq parts[d]
    BY DEF Restart, Crash, C!Crash, C!NoRows
  <2> QED BY <1>1, <2>1 DEF PipelineInv, RowsOfDay
<1>6. ObjectIsLastUpload' /\ InsertedIsUploaded'
  BY <1>1 DEF PipelineInv, ObjectIsLastUpload, InsertedIsUploaded
<1>7. NotedIsSafe'
  <2>1. CASE Restart
    <3>1. pc = "idle"
      BY <2>1 DEF Restart, L!Restart, PipelineInv, ConverterRests
    <3>2. queue = <<>> /\ row = NoDay
      BY <2>1 DEF Restart, L!Restart, LP!ShutdownInv, LP!StopIsLast
    <3> SUFFICES ASSUME NEW f \in archiveFiles \ (Rowless \cup lost) PROVE Safe(f)'
      BY <2>1 DEF Restart, NotedIsSafe
    <3>3. f \in Files BY DEF Typed, ConverterTyped
    <3>4. ~UnderWay(DayOf[f])
      BY <3>2, <3>3, DayOfFile, PipelineAssumption DEF UnderWay
    <3>5. Safe(f) BY <3>1 DEF PipelineInv, NotedIsSafe, InHand
    <3> QED BY <1>3, <3>3, <3>4, <3>5
  <2>2. CASE Crash
    BY <2>2 DEF Crash, C!Crash, NotedIsSafe
  <2> QED BY <2>1, <2>2
<1>8. ConverterRests'
  BY DEF Restart, L!Restart, L!Start, Crash, C!Crash, ConverterRests
<1> QED BY <1>4, <1>5, <1>6, <1>7, <1>8 DEF PipelineInv

LEMMA PipelineNext ==
    Typed /\ LP!ShutdownInv /\ PipelineInv /\ [Next]_vars => PipelineInv'
<1> SUFFICES ASSUME Typed, LP!ShutdownInv, PipelineInv, [Next]_vars
             PROVE  PipelineInv'
  OBVIOUS
<1>1. CASE UNCHANGED vars
  <2>1. UNCHANGED <<archive, springboard, queue, local, pc, parts, archiveFiles,
                    day, history, lost, inserted, row, main>>
    BY <1>1 DEF vars, converter, handover
  <2>2. \A f : (Safe(f)' <=> Safe(f)) /\ (InHand(f)' <=> InHand(f))
    BY <2>1 DEF Safe, InHand, Recorded, UnderWay, UploadsWith
  <2> QED BY <2>1, <2>2
          DEF PipelineInv, RowsOfDay, ObjectIsLastUpload, InsertedIsUploaded,
              NotedIsSafe, ArchivedIsSafe, ConverterRests
<1> QED BY <1>1, ArriveKeeps, InsideKeeps, UploadKeeps, AnnounceKeeps, LivingKeeps,
           StartKeeps
        DEF Next, Convert, Shutdown, Beside

\* Whatever fails, is killed or restarted: the row of an archived file's day
\* was upserted when the object held its rows, or the path is on its way,
\* unless one of the three named losses struck the file and no later
\* announcement repaired it.
THEOREM NothingElseIsLost == Spec => []ArchivedIsRecordedUnlessLost
<1>1. PipelineInv => ArchivedIsRecordedUnlessLost
  BY DEF PipelineInv, ArchivedIsSafe, Safe, ArchivedIsRecordedUnlessLost
<1> QED BY <1>1, InitTyped, InitPipeline, TypedNext, PipelineNext, PTL DEF Spec

(***************************************************************************)
(* Without the three faults nothing is lost                                *)
(***************************************************************************)

\* A local copy is never behind its object, so that no upload takes rows from
\* it; this is what a failed listing destroys (sync_with_s3).
CopyCoversObject ==
    /\ \A d \in Days : local[d] = {} \/ springboard[d] \subseteq local[d]
    /\ pc \in {"write", "upload"} => springboard[day] \subseteq local[day]

WholeInv == CopyCoversObject /\ lost = {}

LEMMA InsideWhole ==
    ASSUME "list" \notin Faults, Typed, WholeInv, ConvertInside
    PROVE  WholeInv'
<1>1. UNCHANGED <<springboard, lost>> BY InsideFrame
<1>2. /\ springboard \in [Days -> SUBSET Files]
      /\ local \in [Days -> SUBSET Files]
      /\ pc \in Busy => day \in Days
  BY DEF Typed, ConverterTyped
<1> USE DEF WholeInv, CopyCoversObject
<1>3. ASSUME UNCHANGED local, pc' \notin {"write", "upload"} PROVE WholeInv'
  BY <1>1, <1>3
<1>4. ASSUME C!SyncWithS3 PROVE WholeInv'
  <2>1. day \in Days /\ UNCHANGED day
    BY <1>2, <1>4 DEF C!SyncWithS3, C!loop, Busy
  <2>2. ~C!Fail("list") BY DEF C!Fail
  <2>3. \/ (local[day] # {} \/ springboard[day] = {}) /\ local' = local
        \/ local' = [local EXCEPT ![day] = springboard[day]]
    BY <1>4, <2>2 DEF C!SyncWithS3
  <2>4. \A d \in Days : local'[d] = {} \/ springboard[d] \subseteq local'[d]
    BY <1>2, <2>1, <2>3
  <2>5. springboard[day] \subseteq local'[day]
    BY <1>2, <2>1, <2>3
  <2> QED BY <1>1, <2>1, <2>4, <2>5
<1>5. ASSUME C!WriteLocal PROVE WholeInv'
  <2>1. day \in Days /\ UNCHANGED day /\ pc = "write"
    BY <1>2, <1>5 DEF C!WriteLocal, C!loop, Busy
  <2>2. \A d \in Days \ {day} : local'[d] = local[d]
    BY <1>2, <1>5, <2>1 DEF C!WriteLocal
  <2>3. local[day] \subseteq local'[day]
    BY <1>2, <1>5, <2>1 DEF C!WriteLocal
  <2>4. springboard[day] \subseteq local[day] BY <2>1
  <2> QED BY <1>1, <2>1, <2>2, <2>3, <2>4
<1>6. ASSUME C!UpdateFails PROVE WholeInv'
  <2>1. \A d \in Days : local'[d] = {} BY <1>6 DEF C!UpdateFails, C!NoRows
  <2>2. pc' \notin {"write", "upload"} BY <1>6 DEF C!UpdateFails, C!NextTable
  <2> QED BY <1>1, <2>1, <2>2
<1>7. ASSUME C!CleanLocal PROVE WholeInv'
  <2>1. \A d \in Days : local'[d] = local[d] \/ local'[d] = {}
    BY <1>7 DEF C!CleanLocal
  <2>2. pc' = "idle" BY <1>7 DEF C!CleanLocal
  <2> QED BY <1>1, <2>1, <2>2
<1>8. \/ UNCHANGED local /\ pc' \notin {"write", "upload"}
      \/ C!SyncWithS3 \/ C!WriteLocal \/ C!UpdateFails \/ C!CleanLocal
  BY DEF ConvertInside, C!Convert, C!Poll, C!ReadFails, C!ReadFile, C!YieldRest,
         C!NoMoreTables, C!ConvertFails, C!Upload, C!SendMetadata, C!CopyFile,
         C!DeleteFile, C!GiveUpMove, C!Settled, C!MoveDone
<1> QED BY <1>3, <1>4, <1>5, <1>6, <1>7, <1>8

LEMMA WholeNext ==
    ASSUME Faults \cap {"list", "upload", "crash"} = {}
    PROVE  Typed /\ LP!ShutdownInv /\ PipelineInv /\ WholeInv /\ [Next]_vars
              => WholeInv'
<1> SUFFICES ASSUME Typed, LP!ShutdownInv, PipelineInv, WholeInv, [Next]_vars
             PROVE  WholeInv'
  OBVIOUS
<1> USE DEF WholeInv, CopyCoversObject
<1>1. CASE ConvertInside
  BY <1>1, InsideWhole
<1>2. CASE UploadObject
  <2>1. /\ springboard \in [Days -> SUBSET Files]
        /\ pc = "upload" /\ pc' = "announce" /\ day \in Days /\ UNCHANGED local
    BY <1>2 DEF UploadObject, C!Upload, Typed, ConverterTyped, Busy
  <2>2. ~C!Fail("upload") BY DEF C!Fail
  <2>3. springboard' = [springboard EXCEPT ![day] = local[day]]
    BY <1>2, <2>2 DEF UploadObject, C!Upload
  <2>4. springboard'[day] = local[day]
    BY <2>1, <2>3
  <2>5. \A d \in Days \ {day} : springboard'[d] = springboard[d]
    BY <2>1, <2>3
  <2>6. springboard[day] \subseteq local[day] BY <2>1
  <2>7. lost' = {}
    BY <1>2, <2>4, <2>6 DEF UploadObject
  <2> QED BY <2>1, <2>4, <2>5, <2>7
<1>3. CASE Announce
  <2>1. UNCHANGED <<local, springboard>> /\ lost' \subseteq lost /\ pc' \notin Busy
    BY <1>3, TypeNextTable DEF Announce, C!SendMetadata, Typed
  <2> QED BY <2>1 DEF Busy
<1>4. CASE Restart
  <2>1. pc = "idle" /\ pc' = pc /\ UNCHANGED <<springboard, lost>>
    BY <1>4 DEF Restart, L!Restart, PipelineInv, ConverterRests
  <2>2. \A d \in Days : local'[d] = {} BY <1>4 DEF Restart, C!NoRows
  <2> QED BY <2>1, <2>2
<1>5. CASE Crash
  BY <1>5 DEF Crash, C!Crash, C!Fail
<1>6. ASSUME NEW f \in Files, Arrive(f) PROVE WholeInv'
  BY <1>6 DEF Arrive, C!Arrive, C!loop
<1>7. CASE Writer \/ Beside \/ UNCHANGED vars
  BY <1>7 DEF Writer, Beside, Sigterm, StopWriter, Exit, Manager, ManagerCrash,
              converter, vars
<1> QED BY <1>1, <1>2, <1>3, <1>4, <1>5, <1>6, <1>7
        DEF Next, Convert, Shutdown, Beside

\* As long as no upload and no listing fails and no container is killed, every
\* archived file is recorded or its path on its way, also when files cannot
\* be read, written or moved, queries fail and containers are stopped and
\* started again.
THEOREM NothingIsLost ==
    ASSUME Faults \cap {"list", "upload", "crash"} = {}
    PROVE  Spec => []ArchivedIsRecorded
<1>1. Init => WholeInv
  BY DEF Init, C!Init, C!NoRows, WholeInv, CopyCoversObject
<1>2. PipelineInv /\ WholeInv => ArchivedIsRecorded
  BY DEF PipelineInv, ArchivedIsSafe, Safe, WholeInv, ArchivedIsRecorded
<1> QED BY <1>1, <1>2, InitTyped, InitPipeline, TypedNext, PipelineNext, WholeNext,
           PTL DEF Spec
=============================================================================
