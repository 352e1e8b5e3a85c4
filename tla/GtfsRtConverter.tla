--------------------------- MODULE GtfsRtConverter ---------------------------
(***************************************************************************)
(* One GtfsRtConverter (ingestion/convert_gtfs_rt.py): the loop that turns *)
(* the raw files of one GTFS-RT feed, found in the incoming bucket, into   *)
(* one parquet object per service day in the springboard bucket, tells the *)
(* metadata writer about every object it wrote and moves the raw files to  *)
(* the archive or error bucket.                                            *)
(*                                                                         *)
(* The rows of a parquet file are abstracted to the set of raw files they  *)
(* come from.  A day without an object, and a day without a local copy,    *)
(* is the empty set: a table without rows is never written.                *)
(***************************************************************************)
EXTENDS Integers, Sequences, FiniteSets

CONSTANTS
    Files,        \* raw files, numbered in the order add_files gives them
    Days,         \* service days, numbered in time order
    DayOf,        \* the day of the header timestamp of a file
    Rowless,      \* files whose feed has no entity
    Corrupt,      \* files that gz_to_pyarrow can never read
    YieldRows,    \* min_rows of yield_check: a bigger table is yielded at once
    MaxTables,    \* max_tables_to_convert
    DaysToKeep,   \* days_to_keep of clean_local_folders
    NoDay,        \* no table is being written
    Faults,       \* the kinds of failure that may happen
    MaxFaults     \* bound: how many failures happen in a behaviour

FaultKinds == {"read", "transform", "list", "download", "write", "upload",
               "move", "crash"}

ASSUME ConverterAssumption ==
    /\ Files \subseteq Nat
    /\ Days \subseteq Nat
    /\ DayOf \in [Files -> Days]
    /\ Rowless \subseteq Files
    /\ Corrupt \subseteq Files
    /\ YieldRows \in Nat
    /\ MaxTables \in Nat \ {0}
    /\ DaysToKeep \in Nat
    /\ NoDay \notin Days
    /\ Faults \subseteq FaultKinds
    /\ MaxFaults \in Nat

VARIABLES
    incoming, archive, error,   \* the buckets of raw files
    springboard,   \* springboard[d]: the rows of the object of day d
    queue,         \* metadata_queue: days announced and not taken yet
    local,         \* local[d]: the rows of the copy of day d in tmp_folder
    pc,            \* where convert() is
    files,         \* listed files that gz_to_pyarrow has not delivered yet
    parts,         \* data_parts: the files gathered for each day
    archiveFiles, errorFiles,   \* archive_files and error_files
    day,           \* the day of the table that is being written
    tables,        \* table_count
    copied,        \* files that are copied and still to be deleted
    announced,     \* observer: rows of the object when its path was last sent
    faults         \* bound: failures so far

buckets == <<incoming, archive, error>>
loop == <<files, parts, archiveFiles, errorFiles, day, tables, copied>>
vars == <<incoming, archive, error, springboard, queue, local, pc, files,
          parts, archiveFiles, errorFiles, day, tables, copied, announced,
          faults>>

Steps == {"idle", "read", "sync", "write", "upload", "announce",
          "move_error", "move_archive", "clean"}

TypeOK ==
    /\ incoming \subseteq Files
    /\ archive \subseteq Files
    /\ error \subseteq Files
    /\ springboard \in [Days -> SUBSET Files]
    /\ queue \in Seq(Days)
    /\ local \in [Days -> SUBSET Files]
    /\ pc \in Steps
    /\ files \subseteq Files
    /\ parts \in [Days -> SUBSET Files]
    /\ archiveFiles \subseteq Files
    /\ errorFiles \subseteq Files
    /\ day \in Days \cup {NoDay}
    /\ tables \in Nat
    /\ copied \subseteq Files
    /\ announced \in [Days -> SUBSET Files]
    /\ faults \in Nat

NoRows == [d \in Days |-> {}]

Init ==
    /\ incoming = {}
    /\ archive = {}
    /\ error = {}
    /\ springboard = NoRows
    /\ queue = <<>>
    /\ local = NoRows
    /\ pc = "idle"
    /\ files = {}
    /\ parts = NoRows
    /\ archiveFiles = {}
    /\ errorFiles = {}
    /\ day = NoDay
    /\ tables = 0
    /\ copied = {}
    /\ announced = NoRows
    /\ faults = 0

(***************************************************************************)
(* Helpers                                                                 *)
(***************************************************************************)

Fail(kind) ==
    /\ kind \in Faults
    /\ faults < MaxFaults
    /\ faults' = faults + 1

NoFail == UNCHANGED faults

\* The rows that the table of a set of raw files holds.
RowsOf(S) == S \ Rowless

\* The first file of a set, in the order they are processed.
IsFirst(f, S) == f \in S /\ \A g \in S : f <= g

\* After a table is done with, whatever became of it: table_count grows and
\* the loop goes on, or breaks when the limit is reached.
NextTable ==
    /\ parts' = [parts EXCEPT ![day] = {}]
    /\ day' = NoDay
    /\ tables' = tables + 1
    /\ pc' = IF tables + 1 >= MaxTables THEN "move_error" ELSE "read"

(***************************************************************************)
(* The environment                                                         *)
(***************************************************************************)

\* Delta writes a raw file to the incoming bucket, once.
Arrive(f) ==
    /\ f \notin incoming \cup archive \cup error
    /\ incoming' = incoming \cup {f}
    /\ UNCHANGED <<archive, error, springboard, queue, local, pc, announced,
                   faults>>
    /\ UNCHANGED loop

\* The metadata writer takes the oldest path (module MetadataLog).
TakePath ==
    /\ queue # <<>>
    /\ queue' = Tail(queue)
    /\ UNCHANGED <<springboard, local, pc, announced, faults>>
    /\ UNCHANGED buckets
    /\ UNCHANGED loop

(***************************************************************************)
(* The converter                                                           *)
(***************************************************************************)

\* ingest_s3_files lists the bucket and gives the files to a new converter.
\* A listing that fails returns no file: the loop does nothing that time.
Poll ==
    /\ pc = "idle"
    /\ incoming # {}
    /\ files' = incoming
    /\ pc' = "read"
    /\ parts' = NoRows
    /\ archiveFiles' = {}
    /\ errorFiles' = {}
    /\ copied' = {}
    /\ tables' = 0
    /\ UNCHANGED <<springboard, queue, local, day, announced, faults>>
    /\ UNCHANGED buckets

\* A file that cannot be read: its name goes to error_files.
ReadFails(f) ==
    /\ pc = "read"
    /\ IsFirst(f, files)
    /\ IF f \in Corrupt THEN NoFail ELSE Fail("read")
    /\ files' = files \ {f}
    /\ errorFiles' = errorFiles \cup {f}
    /\ UNCHANGED <<springboard, queue, local, pc, parts, archiveFiles, day,
                   tables, copied, announced>>
    /\ UNCHANGED buckets

\* A file is read and joins the part of its day.  A part that has grown
\* beyond min_rows is yielded at once; its files are noted for the archive
\* before the table is written.
ReadFile(f) ==
    /\ pc = "read"
    /\ IsFirst(f, files)
    /\ f \notin Corrupt
    /\ files' = files \ {f}
    /\ LET d    == DayOf[f]
           part == parts[d] \cup {f}
       IN  /\ parts' = [parts EXCEPT ![d] = part]
           /\ IF Cardinality(RowsOf(part)) > YieldRows
              THEN /\ archiveFiles' = archiveFiles \cup part
                   /\ day' = d
                   /\ pc' = "sync"
              ELSE UNCHANGED <<archiveFiles, day, pc>>
    /\ UNCHANGED <<springboard, queue, local, errorFiles, tables, copied,
                   announced, faults>>
    /\ UNCHANGED buckets

\* All files are read: the parts that are left are yielded, the one that
\* was begun first comes first.  A table without rows is not written.
YieldRest(d) ==
    /\ pc = "read"
    /\ files = {}
    /\ \E f \in parts[d] : \A e \in Days : \A g \in parts[e] : f <= g
    /\ archiveFiles' = archiveFiles \cup parts[d]
    /\ IF RowsOf(parts[d]) = {}
       THEN /\ parts' = [parts EXCEPT ![d] = {}]
            /\ UNCHANGED <<day, pc>>
       ELSE /\ day' = d
            /\ pc' = "sync"
            /\ UNCHANGED parts
    /\ UNCHANGED <<springboard, queue, local, files, errorFiles, tables,
                   copied, announced, faults>>
    /\ UNCHANGED buckets

\* The generator is exhausted.
NoMoreTables ==
    /\ pc = "read"
    /\ files = {}
    /\ parts = NoRows
    /\ pc' = "move_error"
    /\ UNCHANGED <<springboard, queue, local, announced, faults>>
    /\ UNCHANGED buckets
    /\ UNCHANGED loop

\* transform_for_write or concat_tables raises inside process_files:
\* convert() logs it and goes to its finally clause.  The parts are lost,
\* their files stay in the incoming bucket.
ConvertFails ==
    /\ pc = "read"
    /\ files # {}
    /\ Fail("transform")
    /\ pc' = "move_error"
    /\ UNCHANGED <<springboard, queue, local, announced>>
    /\ UNCHANGED buckets
    /\ UNCHANGED loop

\* Mutant: a missing local copy is taken for a new day.
SyncNeverDownloads ==
    /\ pc = "sync"
    /\ pc' = "write"
    /\ UNCHANGED <<springboard, queue, local, announced, faults>>
    /\ UNCHANGED buckets
    /\ UNCHANGED loop

\* sync_with_s3: the local copy is there, or there is no object, or the
\* object is downloaded.  A listing that fails is taken for "no object".
SyncWithS3 ==
    /\ pc = "sync"
    /\ \/ /\ local[day] # {} \/ springboard[day] = {}
          /\ NoFail
          /\ UNCHANGED local
       \/ /\ local[day] = {} /\ springboard[day] # {}
          /\ Fail("list")
          /\ UNCHANGED local
       \/ /\ local[day] = {} /\ springboard[day] # {}
          /\ NoFail
          /\ local' = [local EXCEPT ![day] = springboard[day]]
    /\ pc' = "write"
    /\ UNCHANGED <<springboard, queue, announced>>
    /\ UNCHANGED buckets
    /\ UNCHANGED loop

\* Mutant: the table replaces the local copy.
WriteLocalReplaces ==
    /\ pc = "write"
    /\ local' = [local EXCEPT ![day] = RowsOf(parts[day])]
    /\ pc' = "upload"
    /\ UNCHANGED <<springboard, queue, announced, faults>>
    /\ UNCHANGED buckets
    /\ UNCHANGED loop

\* write_local_pq merges the table with the local copy and replaces it.
WriteLocal ==
    /\ pc = "write"
    /\ local' = [local EXCEPT ![day] = @ \cup RowsOf(parts[day])]
    /\ pc' = "upload"
    /\ UNCHANGED <<springboard, queue, announced, faults>>
    /\ UNCHANGED buckets
    /\ UNCHANGED loop

\* Mutant: the files noted so far stay noted for the archive.
UpdateFailsKeepsNotes ==
    /\ pc = "sync" \/ pc = "write"
    /\ Fail("write")
    /\ local' = NoRows
    /\ NextTable
    /\ UNCHANGED <<springboard, queue, files, archiveFiles, errorFiles, copied,
                   announced>>
    /\ UNCHANGED buckets

\* The exception clause of continuous_pq_update: a download that failed
\* (reading the missing copy raises) or an error while writing.  All local
\* copies go, and so far every file of this round counts as faulty.
UpdateFails ==
    /\ \/ /\ pc = "sync"
          /\ local[day] = {} /\ springboard[day] # {}
          /\ Fail("download")
       \/ /\ pc = "write"
          /\ Fail("write")
    /\ local' = NoRows
    /\ errorFiles' = errorFiles \cup archiveFiles
    /\ archiveFiles' = {}
    /\ NextTable
    /\ UNCHANGED <<springboard, queue, files, copied, announced>>
    /\ UNCHANGED buckets

\* The upload of the merged file; its result is not looked at.
Upload ==
    /\ pc = "upload"
    /\ \/ /\ NoFail
          /\ springboard' = [springboard EXCEPT ![day] = local[day]]
       \/ /\ Fail("upload")
          /\ UNCHANGED springboard
    /\ pc' = "announce"
    /\ UNCHANGED <<queue, local, announced>>
    /\ UNCHANGED buckets
    /\ UNCHANGED loop

\* Mutant: the path is sent after the table has been forgotten.
SendMetadataLate ==
    /\ pc = "announce"
    /\ NextTable
    /\ queue' = Append(queue, day')
    /\ announced' = [announced EXCEPT ![day] = springboard[day]]
    /\ UNCHANGED <<springboard, local, files, archiveFiles, errorFiles,
                   copied, faults>>
    /\ UNCHANGED buckets

\* send_metadata puts the path of the object in the metadata queue.
SendMetadata ==
    /\ pc = "announce"
    /\ queue' = Append(queue, day)
    /\ announced' = [announced EXCEPT ![day] = springboard[day]]
    /\ NextTable
    /\ UNCHANGED <<springboard, local, files, archiveFiles, errorFiles,
                   copied, faults>>
    /\ UNCHANGED buckets

\* _move_s3_object, first half: the file is copied.
CopyFile(f) ==
    /\ f \in incoming \ copied
    /\ \/ /\ pc = "move_error"
          /\ f \in errorFiles
          /\ error' = error \cup {f}
          /\ UNCHANGED archive
       \/ /\ pc = "move_archive"
          /\ f \in archiveFiles
          /\ archive' = archive \cup {f}
          /\ UNCHANGED error
    /\ copied' = copied \cup {f}
    /\ UNCHANGED <<incoming, springboard, queue, local, pc, files, parts,
                   archiveFiles, errorFiles, day, tables, announced, faults>>

\* A file has left the lists of move_s3_files: it is moved, or given up.
Settled(f) ==
    /\ \/ pc = "move_error" /\ f \in errorFiles
       \/ pc = "move_archive" /\ f \in archiveFiles
    /\ errorFiles' = IF pc = "move_error" THEN errorFiles \ {f} ELSE errorFiles
    /\ archiveFiles' = IF pc = "move_archive" THEN archiveFiles \ {f}
                                              ELSE archiveFiles
    /\ copied' = copied \ {f}

\* Mutant: the source is deleted although the copy was not made.
DeleteUncopied(f) ==
    /\ Settled(f)
    /\ incoming' = incoming \ {f}
    /\ UNCHANGED <<archive, error, springboard, queue, local, pc, files,
                   parts, day, tables, announced, faults>>

\* _move_s3_object, second half: the source object is deleted.
DeleteFile(f) ==
    /\ f \in copied
    /\ Settled(f)
    /\ incoming' = incoming \ {f}
    /\ UNCHANGED <<archive, error, springboard, queue, local, pc, files,
                   parts, day, tables, announced, faults>>

\* Three attempts to copy and delete have failed: the file stays.
GiveUpMove(f) ==
    /\ Settled(f)
    /\ Fail("move")
    /\ UNCHANGED <<springboard, queue, local, pc, files, parts, day, tables,
                   announced>>
    /\ UNCHANGED buckets

\* Both lists are done with, the error files first.
MoveDone ==
    /\ \/ pc = "move_error" /\ errorFiles = {} /\ pc' = "move_archive"
       \/ pc = "move_archive" /\ archiveFiles = {} /\ pc' = "clean"
    /\ UNCHANGED <<springboard, queue, local, announced, faults>>
    /\ UNCHANGED buckets
    /\ UNCHANGED loop

\* clean_local_folders keeps the most recent days; the converter is gone.
CleanLocal ==
    /\ pc = "clean"
    /\ local' = [d \in Days |->
                   IF Cardinality({e \in Days : e > d /\ local[e] # {}})
                        < DaysToKeep
                   THEN local[d] ELSE {}]
    /\ pc' = "idle"
    /\ files' = {}
    /\ parts' = NoRows
    /\ UNCHANGED <<springboard, queue, archiveFiles, errorFiles, day, tables,
                   copied, announced, faults>>
    /\ UNCHANGED buckets

\* The container is killed and replaced: its disk, the queue and the state
\* of the process are gone, the buckets are not.
Crash ==
    /\ Fail("crash")
    /\ local' = NoRows
    /\ queue' = <<>>
    /\ pc' = "idle"
    /\ files' = {}
    /\ parts' = NoRows
    /\ archiveFiles' = {}
    /\ errorFiles' = {}
    /\ day' = NoDay
    /\ tables' = 0
    /\ copied' = {}
    /\ UNCHANGED <<springboard, announced>>
    /\ UNCHANGED buckets

\* The steps of the process itself.
Convert ==
    \/ Poll
    \/ \E f \in Files : ReadFails(f) \/ ReadFile(f)
    \/ \E d \in Days : YieldRest(d)
    \/ NoMoreTables
    \/ ConvertFails
    \/ SyncWithS3
    \/ WriteLocal
    \/ UpdateFails
    \/ Upload
    \/ SendMetadata
    \/ \E f \in Files : CopyFile(f) \/ DeleteFile(f) \/ GiveUpMove(f)
    \/ MoveDone
    \/ CleanLocal

Next ==
    \/ \E f \in Files : Arrive(f)
    \/ TakePath
    \/ Convert
    \/ Crash

Spec == Init /\ [][Next]_vars

\* The loop of ingestion/pipeline.py goes on for ever: the process keeps
\* taking steps.  Nothing forces a file to arrive or a failure to happen.
FairSpec == Spec /\ WF_vars(Convert) /\ WF_vars(TakePath)

(***************************************************************************)
(* Properties                                                              *)
(***************************************************************************)

\* A raw file in the archive bucket has its rows in the springboard object
\* of its day, and keeps them: neither a restart, a lost local copy nor a
\* later update of the day loses the rows of an archived file (write_local_pq
\* merging with sync_with_s3, move_s3_files running last).
ArchivedPublished ==
    \A f \in archive \ Rowless : f \in springboard[DayOf[f]]

\* The path of the object was put in the metadata queue at a time when the
\* object already held the rows of every archived file: a crash between
\* upload_file and send_metadata never lets a file be archived whose rows
\* were not announced (continuous_pq_update, convert).
ArchivedAnnounced ==
    \A f \in archive \ Rowless : f \in announced[DayOf[f]]

\* No step makes a raw file vanish from all three buckets, whatever step of
\* the move fails or is cut short (_move_s3_object copies, then deletes).
NoFileVanishes ==
    [][\A f \in incoming \cup archive \cup error :
          f \in incoming' \cup archive' \cup error']_vars

\* The converter keeps the promise of IngestionLedger: each of its steps is
\* a step of the ledger or invisible there; in particular published rows
\* are never taken back and only published files are accepted.
Ledger == INSTANCE IngestionLedger
            WITH waiting   <- incoming \ (archive \cup error),
                 published <- UNION {springboard[d] : d \in Days},
                 accepted  <- archive,
                 rejected  <- error

ImplementsLedger == Ledger!LedgerSpec

\* Every raw file eventually leaves the incoming bucket, even when a round
\* of the loop ends early because of max_tables_to_convert, an exception or
\* a restart (convert, process_files, move_s3_files).
EveryFileSettles ==
    \A f \in Files :
        (f \in incoming) ~> (f \in (archive \cup error) \ incoming)
=============================================================================
