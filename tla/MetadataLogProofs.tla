------------------------- MODULE MetadataLogProofs ---------------------------
(***************************************************************************)
(* Proofs about MetadataLog, for all paths, any number of uploads and any  *)
(* number of crashes and errors: its type invariant, that a shutdown by    *)
(* SIGTERM leaves no announced path without its row, and that a path that  *)
(* is marked as processed is out of date only after a race with its round. *)
(***************************************************************************)
EXTENDS MetadataLog, TLAPS

(***************************************************************************)
(* Types                                                                   *)
(***************************************************************************)

LEMMA EmptyQueue == <<>> \in Seq(Paths \cup {Stop})
OBVIOUS

LEMMA TypeInit == Init => TypeOK
<1> SUFFICES ASSUME Init PROVE TypeOK
  OBVIOUS
<1>1. queue \in Seq(Paths \cup {Stop}) BY EmptyQueue DEF Init
<1>2. log \in [Paths -> Rows] BY DEF Init, Rows
<1> QED BY <1>1, <1>2 DEF Init, TypeOK, Zero

\* What a round of the manager selects from a set of paths is part of it.
LEMMA SelectedPaths ==
    \A S \in SUBSET Paths : Oldest(S) \subseteq S /\ Unprocessed(S) \subseteq S
BY DEF Oldest, Unprocessed

LEMMA TypeIngestion == TypeOK /\ Ingestion => TypeOK'
<1> SUFFICES ASSUME TypeOK, Ingestion PROVE TypeOK'
  OBVIOUS
<1> USE MetadataAssumption DEF TypeOK, manager
<1>1. ASSUME NEW p \in Paths, Upload(p) PROVE TypeOK'
  <2>1. object' \in [Paths -> Nat]
    <3>1. object' = [object EXCEPT ![p] = object[p] + 1] BY <1>1 DEF Upload
    <3>2. object \in [Paths -> Nat] /\ object[p] + 1 \in Nat OBVIOUS
    <3> HIDE DEF TypeOK
    <3> QED BY <3>1, <3>2
  <2>2. unsent' \subseteq Paths BY <1>1 DEF Upload
  <2> QED BY <1>1, <2>1, <2>2 DEF Upload
<1>2. ASSUME NEW p \in Paths, SendMetadata(p) PROVE TypeOK'
  <2>1. queue' \in Seq(Paths \cup {Stop}) BY <1>2 DEF SendMetadata
  <2> QED BY <1>2, <2>1 DEF SendMetadata
<1>3. CASE Sigterm
  BY <1>3 DEF Sigterm, Trouble
<1>4. CASE StopWriter
  BY <1>4 DEF StopWriter
<1>5. CASE Exit
  BY <1>5 DEF Exit
<1>6. CASE Restart
  BY <1>6, EmptyQueue DEF Restart, Start
<1>7. CASE IngestionCrash
  <2>1. sent' \in [Paths -> Nat] BY <1>7 DEF IngestionCrash
  <2>2. queue' \in Seq(Paths \cup {Stop})
    BY <1>7, EmptyQueue DEF IngestionCrash, Start
  <2>3. trouble' \in Nat BY <1>7 DEF IngestionCrash, Trouble
  <2> QED BY <1>7, <2>1, <2>2, <2>3 DEF IngestionCrash, Start
<1> QED BY <1>1, <1>2, <1>3, <1>4, <1>5, <1>6, <1>7 DEF Ingestion

LEMMA TypeWriter == TypeOK /\ Writer => TypeOK'
<1> SUFFICES ASSUME TypeOK, Writer PROVE TypeOK'
  OBVIOUS
<1> USE MetadataAssumption DEF TypeOK, ingestion, manager
<1>1. CASE WriterGet
  <2>1. Head(queue) \in Paths \cup {Stop} /\ Tail(queue) \in Seq(Paths \cup {Stop})
    BY <1>1 DEF WriterGet
  <2> QED BY <1>1, <2>1 DEF WriterGet
<1>2. CASE WriterInsert
  BY <1>2 DEF WriterInsert, Rows
<1> QED BY <1>1, <1>2 DEF Writer

LEMMA TypeManager == TypeOK /\ (Manager \/ ManagerCrash) => TypeOK'
<1> SUFFICES ASSUME TypeOK, Manager \/ ManagerCrash PROVE TypeOK'
  OBVIOUS
<1> USE MetadataAssumption DEF TypeOK, ingestion, Zero
<1>1. CASE SelectVp
  <2>1. VpPaths \in SUBSET Paths OBVIOUS
  <2>2. Unprocessed(VpPaths) \subseteq VpPaths BY <2>1, SelectedPaths
  <2>3. batch' \subseteq Paths BY <1>1, <2>2 DEF SelectVp
  <2>4. trouble' \in Nat BY <1>1 DEF SelectVp, Trouble
  <2>5. /\ pm' = "select_tu" /\ raced' \subseteq raced
        /\ UNCHANGED <<queue, writer, row, log, toRead, read, applied, inserted,
                       ingestion>>
    BY <1>1 DEF SelectVp
  <2> QED BY <2>3, <2>4, <2>5
<1>2. CASE SelectTu
  <2> DEFINE new == Unprocessed(Paths \ VpPaths)
  <2>1. Paths \ VpPaths \in SUBSET Paths OBVIOUS
  <2>2. new \subseteq Paths \ VpPaths BY <2>1, SelectedPaths
  <2>3. batch \in SUBSET Paths /\ batch \cup new \in SUBSET Paths
    BY <2>2
  <2>4. Oldest(batch) \subseteq batch /\ Oldest(batch \cup new) \subseteq batch \cup new
    BY <2>3, SelectedPaths
  <2>5. batch' \subseteq Paths
    BY <1>2, <2>3, <2>4 DEF SelectTu
  <2>6. trouble' \in Nat BY <1>2 DEF SelectTu, Trouble
  <2>7. /\ toRead' = batch' /\ read' = Zero /\ raced' \subseteq raced
        /\ pm' \in {"idle", "read"}
        /\ UNCHANGED <<queue, writer, row, log, applied, inserted, ingestion>>
    BY <1>2 DEF SelectTu
  <2> QED BY <2>5, <2>6, <2>7
<1>3. ASSUME NEW p \in Paths, ReadPath(p) PROVE TypeOK'
  BY <1>3 DEF ReadPath
<1>4. CASE ApplyEvents
  BY <1>4 DEF ApplyEvents
<1>5. CASE MarkProcessed
  BY <1>5 DEF MarkProcessed, Mark, Rows
<1>6. CASE MarkFailed
  BY <1>6 DEF MarkFailed, Mark, Rows
<1>7. CASE ManagerCrash
  BY <1>7 DEF ManagerCrash, Trouble
<1> QED BY <1>1, <1>2, <1>3, <1>4, <1>5, <1>6, <1>7 DEF Manager

LEMMA TypeNext == TypeOK /\ [Next]_vars => TypeOK'
<1>1. TypeOK /\ UNCHANGED vars => TypeOK'
  BY DEF TypeOK, vars
<1> QED BY <1>1, TypeIngestion, TypeWriter, TypeManager DEF Next

\* The state of the queue, the processes, the table and the round keeps its
\* types, however many restarts there are.
THEOREM TypeCorrect == Spec => []TypeOK
<1> QED BY TypeInit, TypeNext, PTL DEF Spec

\* Uploads of an object are counted up.
LEMMA UploadGrows ==
    ASSUME TypeOK, NEW p \in Paths, Upload(p)
    PROVE  \A q \in Paths : object'[q] \in Nat /\ object[q] <= object'[q]
<1> SUFFICES ASSUME NEW q \in Paths
             PROVE  object'[q] \in Nat /\ object[q] <= object'[q]
  OBVIOUS
<1>1. object[q] \in Nat BY DEF TypeOK
<1>2. object'[q] = IF q = p THEN object[q] + 1 ELSE object[q]
  BY DEF Upload, TypeOK
<1> QED BY <1>1, <1>2

(***************************************************************************)
(* Shutdown                                                                *)
(***************************************************************************)

\* An announced path that has no row for its last upload is held by the
\* writer or queued; it was not announced before it was uploaded.
PendingIsHeld ==
    /\ \A p \in Paths : sent[p] <= object[p]
    /\ \A p \in Paths : inserted[p] < sent[p] =>
          row = p \/ \E i \in 1 .. Len(queue) : queue[i] = p

\* The None is queued once, by the shutdown, and behind every path; the
\* writer has ended only by taking it.
StopIsLast ==
    /\ main = "running" => /\ writer = "running"
                           /\ \A i \in 1 .. Len(queue) : queue[i] # Stop
    /\ main # "running" => unsent = {}
    /\ main # "running" /\ writer = "running" =>
          /\ Len(queue) > 0 /\ queue[Len(queue)] = Stop
          /\ \A i \in 1 .. Len(queue) - 1 : queue[i] # Stop
    /\ writer = "exited" => queue = <<>> /\ row = NoPath
    /\ main = "exited" => writer = "exited"

ShutdownInv == PendingIsHeld /\ StopIsLast

LEMMA ShutdownInit == Init => ShutdownInv
BY DEF Init, ShutdownInv, PendingIsHeld, StopIsLast, Zero

LEMMA ShutdownNext == TypeOK /\ ShutdownInv /\ [Next]_vars => ShutdownInv'
<1> SUFFICES ASSUME TypeOK, ShutdownInv, [Next]_vars PROVE ShutdownInv'
  OBVIOUS
<1> USE MetadataAssumption DEF ShutdownInv
<1>1. ASSUME NEW p \in Paths, Upload(p) PROVE ShutdownInv'
  <2>1. \A q \in Paths : object'[q] \in Nat /\ object[q] <= object'[q]
    BY <1>1, UploadGrows
  <2>2. PendingIsHeld'
    <3>1. UNCHANGED <<queue, row, sent, inserted>> BY <1>1 DEF Upload
    <3>2. \A q \in Paths : sent[q] <= object'[q]
      <4> SUFFICES ASSUME NEW q \in Paths PROVE sent[q] <= object'[q]
        OBVIOUS
      <4>1. sent[q] \in Nat /\ object[q] \in Nat BY DEF TypeOK
      <4>2. sent[q] <= object[q] BY DEF PendingIsHeld
      <4> QED BY <2>1, <4>1, <4>2
    <3> QED BY <3>1, <3>2 DEF PendingIsHeld
  <2>3. StopIsLast' BY <1>1 DEF Upload, StopIsLast
  <2> QED BY <2>2, <2>3
<1>2. ASSUME NEW p \in Paths, SendMetadata(p) PROVE ShutdownInv'
  <2>1. main = "running" BY <1>2 DEF SendMetadata, StopIsLast
  <2>2. /\ queue \in Seq(Paths \cup {Stop}) /\ queue' = Append(queue, p)
        /\ Len(queue') = Len(queue) + 1
        /\ \A i \in 1 .. Len(queue) : queue'[i] = queue[i]
        /\ queue'[Len(queue')] = p
    BY <1>2 DEF SendMetadata, TypeOK
  <2>3. Len(queue) \in Nat BY <2>2
  <2>4. UNCHANGED <<object, main, writer, row, inserted>> BY <1>2 DEF SendMetadata
  <2>5. sent'[p] = object[p] /\ \A q \in Paths \ {p} : sent'[q] = sent[q]
    BY <1>2 DEF SendMetadata, TypeOK
  <2>6. PendingIsHeld'
    <3>1. \A q \in Paths : sent'[q] <= object[q]
      <4>1. object[p] <= object[p] BY DEF TypeOK
      <4> QED BY <2>5, <4>1 DEF PendingIsHeld
    <3>2. ASSUME NEW q \in Paths, inserted[q] < sent'[q]
          PROVE  row = q \/ \E i \in 1 .. Len(queue') : queue'[i] = q
      <4>1. CASE q = p
        <5>1. Len(queue') \in 1 .. Len(queue') BY <2>2, <2>3
        <5> QED BY <2>2, <4>1, <5>1
      <4>2. CASE q # p /\ row # q
        <5>1. PICK i \in 1 .. Len(queue) : queue[i] = q
          BY <2>5, <3>2, <4>2 DEF PendingIsHeld
        <5>2. i \in 1 .. Len(queue') BY <2>2, <2>3
        <5> QED BY <2>2, <5>1, <5>2
      <4> QED BY <4>1, <4>2
    <3> QED BY <2>4, <3>1, <3>2 DEF PendingIsHeld
  <2>7. StopIsLast'
    <3>1. writer = "running" BY <2>1 DEF StopIsLast
    <3>2. ASSUME NEW i \in 1 .. Len(queue') PROVE queue'[i] # Stop
      <4>1. i \in 1 .. Len(queue) \/ i = Len(queue') BY <2>2, <2>3
      <4>2. p # Stop OBVIOUS
      <4> QED BY <2>1, <2>2, <4>1, <4>2 DEF StopIsLast
    <3> QED BY <2>1, <2>4, <3>1, <3>2 DEF StopIsLast
  <2> QED BY <2>6, <2>7
<1>3. CASE Sigterm
  BY <1>3 DEF Sigterm, PendingIsHeld, StopIsLast
<1>4. CASE StopWriter
  <2>1. /\ queue \in Seq(Paths \cup {Stop}) /\ queue' = Append(queue, Stop)
        /\ Len(queue') = Len(queue) + 1
        /\ \A i \in 1 .. Len(queue) : queue'[i] = queue[i]
        /\ queue'[Len(queue')] = Stop
    BY <1>4 DEF StopWriter, TypeOK
  <2>2. PendingIsHeld'
    BY <1>4, <2>1 DEF StopWriter, TypeOK, PendingIsHeld
  <2>3. StopIsLast'
    BY <1>4, <2>1 DEF StopWriter, TypeOK, StopIsLast
  <2> QED BY <2>2, <2>3
<1>5. CASE Exit
  BY <1>5 DEF Exit, TypeOK, PendingIsHeld, StopIsLast
<1>6. CASE Restart
  BY <1>6 DEF Restart, Start, TypeOK, PendingIsHeld, StopIsLast
<1>7. CASE IngestionCrash
  <2>1. \A p \in Paths : sent'[p] <= sent[p] /\ sent'[p] <= inserted[p]
    BY <1>7 DEF IngestionCrash, TypeOK
  <2>2. \A p \in Paths : sent'[p] \in Nat
    BY <1>7 DEF IngestionCrash, TypeOK
  <2>3. PendingIsHeld'
    BY <1>7, <2>1, <2>2 DEF IngestionCrash, TypeOK, PendingIsHeld
  <2>4. StopIsLast'
    BY <1>7 DEF IngestionCrash, Start, StopIsLast
  <2> QED BY <2>3, <2>4
<1>8. CASE WriterGet
  <2>1. /\ queue \in Seq(Paths \cup {Stop}) /\ Len(queue) > 0
        /\ queue' = Tail(queue) /\ Head(queue) = queue[1]
        /\ Len(queue') = Len(queue) - 1
        /\ \A i \in 1 .. Len(queue') : queue'[i] = queue[i + 1]
    BY <1>8 DEF WriterGet, TypeOK
  <2>2. CASE queue[1] = Stop
    <3>1. main # "running" /\ Len(queue) = 1
      BY <1>8, <2>1, <2>2 DEF WriterGet, StopIsLast
    <3>2. queue' = <<>> /\ writer' = "exited" /\ row' = NoPath
      BY <1>8, <2>1, <2>2, <3>1 DEF WriterGet
    <3>3. \A p \in Paths : inserted[p] >= sent[p]
      <4>1. ASSUME NEW p \in Paths, inserted[p] < sent[p] PROVE FALSE
        <5>1. row = NoPath BY <1>8 DEF WriterGet
        <5>2. PICK i \in 1 .. Len(queue) : queue[i] = p
          BY <4>1, <5>1 DEF PendingIsHeld
        <5>3. i = 1 BY <2>1, <3>1, <5>2
        <5> QED BY <2>2, <5>2, <5>3
      <4> QED BY <4>1 DEF TypeOK
    <3> QED BY <1>8, <3>1, <3>2, <3>3
            DEF WriterGet, ingestion, TypeOK, PendingIsHeld, StopIsLast
  <2>3. CASE queue[1] # Stop
    <3>1. row' = queue[1] /\ row = NoPath /\ writer' = "running" /\ writer = "running"
      BY <1>8, <2>1, <2>3 DEF WriterGet
    <3>2. \A p \in Paths : inserted[p] < sent[p] =>
             queue[1] = p \/ \E i \in 1 .. Len(queue') : queue'[i] = p
      <4> SUFFICES ASSUME NEW p \in Paths, inserted[p] < sent[p], queue[1] # p
                   PROVE  \E i \in 1 .. Len(queue') : queue'[i] = p
        OBVIOUS
      <4>1. PICK i \in 1 .. Len(queue) : queue[i] = p
        BY <3>1 DEF PendingIsHeld
      <4>2. i - 1 \in 1 .. Len(queue') /\ queue'[i - 1] = queue[i]
        BY <2>1, <4>1
      <4> QED BY <4>1, <4>2
    <3>3. PendingIsHeld'
      BY <1>8, <3>1, <3>2 DEF WriterGet, ingestion, PendingIsHeld
    <3>4. main # "running" => Len(queue) > 1
      BY <2>1, <2>3, <3>1 DEF StopIsLast
    <3>5. StopIsLast'
      BY <1>8, <2>1, <3>1, <3>4 DEF WriterGet, ingestion, StopIsLast
    <3> QED BY <3>3, <3>5
  <2> QED BY <2>2, <2>3
<1>9. CASE WriterInsert
  <2>1. row \in Paths BY <1>9 DEF WriterInsert, TypeOK
  <2>2. PendingIsHeld'
    BY <1>9, <2>1 DEF WriterInsert, ingestion, TypeOK, PendingIsHeld
  <2>3. StopIsLast'
    BY <1>9 DEF WriterInsert, ingestion, StopIsLast
  <2> QED BY <2>2, <2>3
<1>10. CASE Manager \/ ManagerCrash
  <2>1. UNCHANGED <<object, unsent, queue, main, writer, row, sent, inserted>>
    BY <1>10 DEF Manager, ManagerCrash, SelectVp, SelectTu, ReadPath,
                 ApplyEvents, MarkProcessed, MarkFailed, Mark, ingestion
  <2> QED BY <2>1 DEF PendingIsHeld, StopIsLast
<1>11. CASE UNCHANGED vars
  BY <1>11 DEF vars, PendingIsHeld, StopIsLast
<1> QED
  BY <1>1, <1>2, <1>3, <1>4, <1>5, <1>6, <1>7, <1>8, <1>9, <1>10, <1>11
  DEF Next, Ingestion, Writer

\* After a shutdown that ran to its end, every announced path has the row of
\* its last upload, whatever crashed or failed before.
THEOREM ShutdownLeavesNothing == Spec => []ShutdownDrainsQueue
<1>1. TypeOK /\ ShutdownInv => ShutdownDrainsQueue
  <2> SUFFICES ASSUME TypeOK, ShutdownInv, main = "exited", NEW p \in Paths
               PROVE  inserted[p] >= sent[p]
    BY DEF ShutdownDrainsQueue
  <2>1. queue = <<>> /\ row = NoPath BY DEF ShutdownInv, StopIsLast
  <2>2. ~(inserted[p] < sent[p])
    BY <2>1, MetadataAssumption DEF ShutdownInv, PendingIsHeld
  <2> QED BY <2>2 DEF TypeOK
<1> QED BY <1>1, TypeInit, TypeNext, ShutdownInit, ShutdownNext, PTL DEF Spec

(***************************************************************************)
(* What a processed path stands for                                        *)
(***************************************************************************)

\* A round that was not raced has read, then applied, at least what the row
\* of each of its paths announced; nothing is announced before it is there.
RoundIsCurrent ==
    /\ \A p \in Paths : inserted[p] <= object[p]
    /\ pm \in {"read", "apply"} =>
          \A p \in batch \ (toRead \cup raced) : read[p] >= inserted[p]
    /\ pm = "apply" => toRead = {}
    /\ pm = "mark" => \A p \in batch \ raced : applied[p] >= inserted[p]

CurrentInv == RoundIsCurrent /\ ProcessedIsCurrentUnlessRaced

LEMMA CurrentInit == Init => CurrentInv
BY DEF Init, CurrentInv, RoundIsCurrent, ProcessedIsCurrentUnlessRaced, Zero

LEMMA CurrentNext == TypeOK /\ CurrentInv /\ [Next]_vars => CurrentInv'
<1> SUFFICES ASSUME TypeOK, CurrentInv, [Next]_vars PROVE CurrentInv'
  OBVIOUS
<1> USE MetadataAssumption
        DEF TypeOK, CurrentInv, RoundIsCurrent, ProcessedIsCurrentUnlessRaced
<1>1. ASSUME NEW p \in Paths, Upload(p) PROVE CurrentInv'
  <2>1. \A q \in Paths : object'[q] \in Nat /\ object[q] <= object'[q]
    BY <1>1, UploadGrows
  <2>2. UNCHANGED <<log, inserted, raced, pm, batch, toRead, read, applied>>
    BY <1>1 DEF Upload, manager
  <2>3. \A q \in Paths : inserted[q] <= object'[q]
    <3> SUFFICES ASSUME NEW q \in Paths PROVE inserted[q] <= object'[q]
      OBVIOUS
    <3> HIDE DEF TypeOK, CurrentInv, RoundIsCurrent, ProcessedIsCurrentUnlessRaced
    <3>1. inserted[q] \in Nat /\ object[q] \in Nat BY DEF TypeOK
    <3>2. inserted[q] <= object[q] BY DEF CurrentInv, RoundIsCurrent
    <3>3. object'[q] \in Nat /\ object[q] <= object'[q] BY <2>1
    <3> QED BY <3>1, <3>2, <3>3
  <2> QED BY <2>2, <2>3
<1>2. ASSUME NEW p \in Paths, SendMetadata(p) PROVE CurrentInv'
  BY <1>2 DEF SendMetadata, manager
<1>3. CASE Sigterm \/ StopWriter \/ Exit \/ Restart \/ IngestionCrash
  BY <1>3 DEF Sigterm, StopWriter, Exit, Restart, IngestionCrash, manager
<1>4. CASE WriterGet
  BY <1>4 DEF WriterGet, ingestion, manager
<1>5. CASE WriterInsert
  <2>1. row \in Paths BY <1>5 DEF WriterInsert
  <2>2. \A p \in Paths \ {row} : inserted'[p] = inserted[p] /\ log'[p] = log[p]
                                 /\ (p \in raced' <=> p \in raced)
    BY <1>5, <2>1 DEF WriterInsert
  <2>3. inserted'[row] = object[row] /\ log'[row] = "new" /\ (row \in batch => row \in raced')
    BY <1>5, <2>1 DEF WriterInsert
  <2>4. UNCHANGED <<object, pm, batch, toRead, read, applied>>
    BY <1>5 DEF WriterInsert, ingestion, manager
  <2>5. \A p \in Paths : inserted'[p] <= object[p]
    <3>1. object[row] <= object[row] BY <2>1
    <3> QED BY <2>2, <2>3, <3>1
  <2>6. \A p \in Paths \ raced' : log'[p] = "done" => applied[p] >= inserted'[p]
    BY <2>2, <2>3
  <2>7. \A p \in batch \ raced' : p # row /\ p \notin raced /\ inserted'[p] = inserted[p]
    BY <2>2, <2>3
  <2> QED BY <2>4, <2>5, <2>6, <2>7
<1>6. CASE SelectVp
  <2>1. \A p \in batch' : log[p] = "new"
    BY <1>6 DEF SelectVp, Unprocessed
  <2> QED BY <1>6, <2>1 DEF SelectVp, ingestion
<1>7. CASE SelectTu
  <2>1. batch' \subseteq batch \cup Unprocessed(Paths \ VpPaths)
    <3> DEFINE new == Unprocessed(Paths \ VpPaths)
    <3>1. Paths \ VpPaths \in SUBSET Paths OBVIOUS
    <3>2. new \subseteq Paths \ VpPaths BY <3>1, SelectedPaths
    <3>3. batch \in SUBSET Paths /\ batch \cup new \in SUBSET Paths
      BY <3>2
    <3>4. Oldest(batch) \subseteq batch /\ Oldest(batch \cup new) \subseteq batch \cup new
      BY <3>3, SelectedPaths
    <3> QED BY <1>7, <3>4 DEF SelectTu
  <2>2. \A p \in batch' \ batch : log[p] = "new"
    BY <2>1 DEF Unprocessed
  <2> QED BY <1>7, <2>2 DEF SelectTu, ingestion
<1>8. ASSUME NEW p \in Paths, ReadPath(p) PROVE CurrentInv'
  BY <1>8 DEF ReadPath, ingestion
<1>9. CASE ApplyEvents
  BY <1>9 DEF ApplyEvents, ingestion
<1>10. CASE MarkProcessed
  BY <1>10 DEF MarkProcessed, Mark, ingestion
<1>11. CASE MarkFailed
  BY <1>11 DEF MarkFailed, Mark, ingestion
<1>12. CASE ManagerCrash
  BY <1>12 DEF ManagerCrash, ingestion
<1>13. CASE UNCHANGED vars
  BY <1>13 DEF vars
<1> QED
  BY <1>1, <1>2, <1>3, <1>4, <1>5, <1>6, <1>7, <1>8, <1>9, <1>10, <1>11,
     <1>12, <1>13
  DEF Next, Ingestion, Writer, Manager

\* A path that is marked as processed has the events of its last announced
\* object in the database, unless its row was upserted during the round that
\* marked it: no crash of either application and no failed query adds a case.
THEOREM ProcessedPathsAreCurrent == Spec => []ProcessedIsCurrentUnlessRaced
<1>1. CurrentInv => ProcessedIsCurrentUnlessRaced
  BY DEF CurrentInv
<1> QED BY <1>1, TypeInit, TypeNext, CurrentInit, CurrentNext, PTL DEF Spec
=============================================================================
