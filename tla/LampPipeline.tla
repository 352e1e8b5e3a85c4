----------------------------- MODULE LampPipeline -----------------------------
(***************************************************************************)
(* A GTFS-RT feed from the incoming bucket to the database of the          *)
(* performance manager: the converter (module GtfsRtConverter) and the     *)
(* metadata hand-over (module MetadataLog) share the metadata queue, the   *)
(* springboard and the life of the ingestion container.                    *)
(***************************************************************************)
EXTENDS Integers, Sequences, FiniteSets

CONSTANTS Files, Days, DayOf, Rowless, Corrupt, YieldRows, MaxTables,
          DaysToKeep, NoDay, Faults, MaxFaults,   \* see GtfsRtConverter
          PathCount, Stop, MaxTrouble             \* see MetadataLog

\* The assumptions of both modules.
ASSUME PipelineAssumption ==
    /\ Files \subseteq Nat
    /\ Days \subseteq Nat
    /\ DayOf \in [Files -> Days]
    /\ Rowless \subseteq Files
    /\ Corrupt \subseteq Files
    /\ YieldRows \in Nat
    /\ MaxTables \in Nat \ {0}
    /\ DaysToKeep \in Nat
    /\ PathCount \in Nat \ {0}
    /\ NoDay \notin Days
    /\ Stop \notin Days
    /\ Stop # NoDay
    /\ MaxFaults \in Nat
    /\ MaxTrouble \in Nat

VARIABLES
    incoming, archive, error, springboard, local, pc, files, parts,
    archiveFiles, errorFiles, day, tables, copied, announced, faults,
    queue,
    main, sigterm, writer, row, log, pm, batch, toRead, read, applied, sent,
    inserted, raced, trouble,
    history,   \* history[d]: the rows of each upload of the object of day d
    lost       \* observer: files whose rows a fault keeps from the hand-over

converter == <<incoming, archive, error, springboard, local, pc, files,
               parts, archiveFiles, errorFiles, day, tables, copied,
               announced, faults>>
handover == <<main, sigterm, writer, row, log, pm, batch, toRead, read,
              applied, inserted, raced, trouble>>
vars == <<converter, queue, handover, sent, history, lost>>

C == INSTANCE GtfsRtConverter

\* The upload of a day's object is known to the hand-over by its number.
L == INSTANCE MetadataLog
       WITH Paths <- Days, VpPaths <- Days, TimeOf <- [d \in Days |-> d],
            NoPath <- NoDay, MaxUploads <- 0, unsent <- {},
            object <- [d \in Days |-> Len(history[d])]

TypeOK ==
    /\ L!TypeOK
    /\ history \in [Days -> Seq(SUBSET Files)]
    /\ lost \subseteq Files

Init ==
    /\ history = [d \in Days |-> <<>>]
    /\ lost = {}
    /\ C!Init
    /\ L!Init

\* The path of d was announced and is on its way to metadata_log.
UnderWay(d) ==
    \/ \E i \in DOMAIN queue : queue[i] = d
    \/ row = d

Arrive(f) ==
    /\ C!Arrive(f)
    /\ UNCHANGED <<handover, sent, history, lost>>

\* The steps of the converter that the hand-over does not see.
ConvertInside ==
    /\ main = "running"
    /\ pc \notin {"upload", "announce"}
    /\ C!Convert
    /\ UNCHANGED <<handover, sent, history, lost>>

\* Rows are lost to the object when the upload fails, or when a listing that
\* failed let the local copy begin without the object.
UploadObject ==
    /\ main = "running"
    /\ C!Upload
    /\ history' = IF springboard'[day] = local[day]
                  THEN [history EXCEPT ![day] = Append(@, local[day])]
                  ELSE history
    /\ lost' = lost \cup ((local[day] \cup springboard[day]) \ springboard'[day])
    /\ UNCHANGED <<handover, sent>>

\* The rows of the object are on their way, again if they had been lost.
Announce ==
    /\ main = "running"
    /\ C!SendMetadata
    /\ sent' = [sent EXCEPT ![day] = Len(history[day])]
    /\ lost' = lost \ springboard[day]
    /\ UNCHANGED <<handover, history>>

Sigterm ==
    /\ UNCHANGED <<converter, history, lost>>
    /\ L!Sigterm

\* check_for_sigterm runs between two rounds, when the converters are done.
StopWriter ==
    /\ pc = "idle"
    /\ UNCHANGED <<converter, history, lost>>
    /\ L!StopWriter

Exit ==
    /\ UNCHANGED <<converter, history, lost>>
    /\ L!Exit

\* The new container has an empty disk.
Restart ==
    /\ local' = C!NoRows
    /\ UNCHANGED <<incoming, archive, error, springboard, pc, files, parts,
                   archiveFiles, errorFiles, day, tables, copied, announced,
                   faults, history, lost>>
    /\ L!Restart

\* What was announced and not recorded yet is forgotten.  Raw files that are
\* still in the incoming bucket will be converted again, archived ones not.
Crash ==
    /\ C!Crash
    /\ lost' = lost \cup {f \in archive : UnderWay(DayOf[f])}
    /\ UNCHANGED history
    /\ L!IngestionCrash

Writer ==
    /\ UNCHANGED <<converter, history, lost>>
    /\ L!Writer

Manager ==
    /\ UNCHANGED <<converter, history, lost>>
    /\ L!Manager

ManagerCrash ==
    /\ UNCHANGED <<converter, history, lost>>
    /\ L!ManagerCrash

Convert == ConvertInside \/ UploadObject \/ Announce

\* What follows a SIGTERM; one of the three is possible at a time.
Shutdown == StopWriter \/ Exit \/ Restart

Next ==
    \/ \E f \in Files : Arrive(f)
    \/ Convert
    \/ Sigterm \/ Shutdown \/ Crash
    \/ Writer
    \/ Manager \/ ManagerCrash

Spec == Init /\ [][Next]_vars

\* The fairness of both parts.
FairSpec ==
    /\ Spec
    /\ WF_vars(Convert)
    /\ WF_vars(Writer) /\ WF_vars(Manager)
    /\ WF_vars(Shutdown)

(***************************************************************************)
(* Properties                                                              *)
(***************************************************************************)

\* The uploads of the object of its day that held the rows of a file.
UploadsWith(f) == {i \in DOMAIN history[DayOf[f]] : f \in history[DayOf[f]][i]}

\* The row of the day was upserted when its object held the rows of f.
Recorded(f) == inserted[DayOf[f]] \in UploadsWith(f)

\* The events in the database come from an object that held the rows of f.
Processed(f) == applied[DayOf[f]] \in UploadsWith(f)

\* A raw file that was archived is known to the performance manager or will
\* be: it is archived after its rows were written, uploaded and announced
\* (convert), and the writer is stopped behind the last path (aws/ecs.py).
ArchivedIsRecorded ==
    \A f \in archive \ Rowless : Recorded(f) \/ UnderWay(DayOf[f])

\* The same with every fault, as long as none of three has struck the file: its upload
\* failed, its rows were overwritten after a failed listing, or its path was
\* on its way at a crash.  An announcement of the day's object that holds
\* the rows repairs all three.
ArchivedIsRecordedUnlessLost ==
    \A f \in archive \ (Rowless \cup lost) :
        Recorded(f) \/ UnderWay(DayOf[f])

\* End to end: the rows of an archived file are eventually turned into
\* events, or its path is marked as failed, unless they are lost in one of
\* the three ways, or the path was announced again in the middle of a round
\* of the performance manager.
ArchivedIsProcessed ==
    \A f \in Files \ Rowless :
        f \in archive ~> \/ Processed(f)
                        \/ log[DayOf[f]] = "failed"
                        \/ DayOf[f] \in raced
                        \/ f \in lost

\* A raw file leaves the incoming bucket for another one, also when the
\* container is stopped or killed and replaced (GtfsRtConverter).
EveryFileSettles == C!EveryFileSettles
=============================================================================
