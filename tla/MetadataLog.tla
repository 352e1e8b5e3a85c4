----------------------------- MODULE MetadataLog -----------------------------
(***************************************************************************)
(* The hand-over from ingestion to the performance manager: the metadata   *)
(* queue, the rds writer process that empties it into the metadata_log     *)
(* table (postgres/postgres_utils.py), the shutdown of both by SIGTERM     *)
(* (aws/ecs.py, ingestion/pipeline.py), and the loop of the performance    *)
(* manager that selects unprocessed paths, processes their objects and     *)
(* marks them (performance_manager/l0_gtfs_rt_events.py).                  *)
(*                                                                         *)
(* An object is abstracted to the number of times it was uploaded: day     *)
(* objects are overwritten under the same path while the day goes on.      *)
(***************************************************************************)
EXTENDS Integers, Sequences, FiniteSets, Functions

CONSTANTS
    Paths,        \* springboard paths of vehicle position and trip update days
    VpPaths,      \* those of RT_VEHICLE_POSITIONS; the rest are trip updates
    TimeOf,       \* the day in the path (get_datetime_from_partition_path)
    PathCount,    \* path_count: how many days one round processes
    NoPath,       \* the writer holds no path
    Stop,         \* the None that ends the writer
    MaxUploads,   \* bound: uploads altogether
    MaxTrouble    \* bound: restarts, crashes and database errors

ASSUME MetadataAssumption ==
    /\ VpPaths \subseteq Paths
    /\ TimeOf \in [Paths -> Nat]
    /\ PathCount \in Nat \ {0}
    /\ NoPath \notin Paths
    /\ Stop \notin Paths
    /\ Stop # NoPath
    /\ MaxUploads \in Nat
    /\ MaxTrouble \in Nat

VARIABLES
    object,    \* object[p]: how often p was uploaded, 0 when it does not exist
    unsent,    \* uploaded paths whose send_metadata has not happened yet
    queue,     \* metadata_queue
    main,      \* the main process of ingestion
    sigterm,   \* GOT_SIGTERM is set
    writer,    \* the rds writer process
    row,       \* the path the writer took and has not inserted yet
    log,       \* metadata_log, by path
    pm,        \* where process_gtfs_rt_files is
    batch,     \* the ids (and paths) of get_gtfs_rt_paths
    toRead,    \* paths of the batch that are not read yet
    read,      \* read[p]: the upload whose rows are in memory
    applied,   \* applied[p]: the upload whose events are in the database
    sent,      \* observer: the upload of p that was last announced
    inserted,  \* observer: the upload of p when its row was last upserted
    raced,     \* observer: upserted while a round of the manager held them
    trouble    \* bound: restarts, crashes and errors so far

ingestion == <<object, unsent, main, sigterm, sent>>
manager == <<pm, batch, toRead, read, applied>>
vars == <<object, unsent, queue, main, sigterm, writer, row, log, pm, batch,
          toRead, read, applied, sent, inserted, raced, trouble>>

\* rail_pm_processed and rail_pm_process_fail of a row: "new" is unprocessed,
\* "done" is processed, "failed" is processed with the failure flag.
Rows == {"absent", "new", "done", "failed"}

TypeOK ==
    /\ object \in [Paths -> Nat]
    /\ unsent \subseteq Paths
    /\ queue \in Seq(Paths \cup {Stop})
    /\ main \in {"running", "joining", "exited"}
    /\ sigterm \in BOOLEAN
    /\ writer \in {"running", "exited"}
    /\ row \in Paths \cup {NoPath}
    /\ log \in [Paths -> Rows]
    /\ pm \in {"idle", "select_tu", "read", "apply", "mark"}
    /\ batch \subseteq Paths
    /\ toRead \subseteq Paths
    /\ read \in [Paths -> Nat]
    /\ applied \in [Paths -> Nat]
    /\ sent \in [Paths -> Nat]
    /\ inserted \in [Paths -> Nat]
    /\ raced \subseteq Paths
    /\ trouble \in Nat

Zero == [p \in Paths |-> 0]

Init ==
    /\ object = Zero
    /\ unsent = {}
    /\ queue = <<>>
    /\ main = "running"
    /\ sigterm = FALSE
    /\ writer = "running"
    /\ row = NoPath
    /\ log = [p \in Paths |-> "absent"]
    /\ pm = "idle"
    /\ batch = {}
    /\ toRead = {}
    /\ read = Zero
    /\ applied = Zero
    /\ sent = Zero
    /\ inserted = Zero
    /\ raced = {}
    /\ trouble = 0

Trouble ==
    /\ trouble < MaxTrouble
    /\ trouble' = trouble + 1

(***************************************************************************)
(* Ingestion: the converters (GtfsRtConverter in detail)                   *)
(***************************************************************************)

\* Uploads so far, for the bound.
Uploads == FoldFunction(+, 0, object)

\* A converter uploads a new state of the object of p.
Upload(p) ==
    /\ main = "running"
    /\ p \notin unsent
    /\ Uploads < MaxUploads
    /\ object' = [object EXCEPT ![p] = @ + 1]
    /\ unsent' = unsent \cup {p}
    /\ UNCHANGED <<queue, main, sigterm, writer, row, log, sent, inserted,
                   raced, trouble>>
    /\ UNCHANGED manager

\* Converter.send_metadata.
SendMetadata(p) ==
    /\ p \in unsent
    /\ queue' = Append(queue, p)
    /\ unsent' = unsent \ {p}
    /\ sent' = [sent EXCEPT ![p] = object[p]]
    /\ UNCHANGED <<object, main, sigterm, writer, row, log, inserted, raced,
                   trouble>>
    /\ UNCHANGED manager

(***************************************************************************)
(* Ingestion: shutdown and restart                                         *)
(***************************************************************************)

\* ECS asks the task to stop: handle_ecs_sigterm only leaves a note.
Sigterm ==
    /\ main = "running"
    /\ ~sigterm
    /\ Trouble
    /\ sigterm' = TRUE
    /\ UNCHANGED <<object, unsent, queue, main, writer, row, log, sent,
                   inserted, raced>>
    /\ UNCHANGED manager

\* check_for_sigterm, between two rounds of the loop when all converters
\* are done: the writer is told to stop ...
StopWriter ==
    /\ main = "running"
    /\ sigterm
    /\ unsent = {}
    /\ queue' = Append(queue, Stop)
    /\ main' = "joining"
    /\ UNCHANGED <<object, unsent, sigterm, writer, row, log, sent, inserted,
                   raced, trouble>>
    /\ UNCHANGED manager

\* Mutant: the process exits without waiting for the writer.
ExitUnjoined ==
    /\ main = "joining"
    /\ main' = "exited"
    /\ UNCHANGED <<object, unsent, queue, sigterm, writer, row, log, sent,
                   inserted, raced, trouble>>
    /\ UNCHANGED manager

\* ... and waited for, then the process exits.
Exit ==
    /\ main = "joining"
    /\ writer = "exited"
    /\ main' = "exited"
    /\ UNCHANGED <<object, unsent, queue, sigterm, writer, row, log, sent,
                   inserted, raced, trouble>>
    /\ UNCHANGED manager

\* Mutant: the note that SIGTERM came outlives the process.
StartTerminated ==
    /\ queue' = <<>>
    /\ main' = "running"
    /\ writer' = "running"
    /\ row' = NoPath
    /\ unsent' = {}
    /\ UNCHANGED sigterm

\* A new container: an empty queue and a new writer.
Start ==
    /\ queue' = <<>>
    /\ main' = "running"
    /\ sigterm' = FALSE
    /\ writer' = "running"
    /\ row' = NoPath
    /\ unsent' = {}

Restart ==
    /\ main = "exited"
    /\ Start
    /\ UNCHANGED <<object, log, sent, inserted, raced, trouble>>
    /\ UNCHANGED manager

\* The container is killed: what was sent and not inserted is lost.
IngestionCrash ==
    /\ Trouble
    /\ Start
    /\ sent' = [p \in Paths |-> IF inserted[p] < sent[p] THEN inserted[p]
                                                        ELSE sent[p]]
    /\ UNCHANGED <<object, log, inserted, raced>>
    /\ UNCHANGED manager

(***************************************************************************)
(* The rds writer process                                                  *)
(***************************************************************************)

\* Mutant: the None is taken for a path.
WriterGetStop ==
    /\ writer = "running"
    /\ row = NoPath
    /\ queue # <<>>
    /\ queue' = Tail(queue)
    /\ row' = Head(queue)
    /\ UNCHANGED <<writer, log, inserted, raced, trouble>>
    /\ UNCHANGED ingestion
    /\ UNCHANGED manager

\* metadata_queue.get(): None ends the process.
WriterGet ==
    /\ writer = "running"
    /\ row = NoPath
    /\ queue # <<>>
    /\ queue' = Tail(queue)
    /\ IF Head(queue) = Stop
       THEN writer' = "exited" /\ UNCHANGED row
       ELSE row' = Head(queue) /\ UNCHANGED writer
    /\ UNCHANGED <<log, inserted, raced, trouble>>
    /\ UNCHANGED ingestion
    /\ UNCHANGED manager

\* Mutant: ON CONFLICT DO NOTHING.
WriterInsertOnce ==
    /\ row # NoPath
    /\ log' = [log EXCEPT ![row] = IF @ = "absent" THEN "new" ELSE @]
    /\ inserted' = [inserted EXCEPT ![row] = object[row]]
    /\ raced' = IF row \in batch THEN raced \cup {row} ELSE raced \ {row}
    /\ row' = NoPath
    /\ UNCHANGED <<queue, writer, trouble>>
    /\ UNCHANGED ingestion
    /\ UNCHANGED manager

\* The upsert resets both flags of an existing row.  An attempt that fails
\* is repeated for ever: it changes nothing and is not a step here.
WriterInsert ==
    /\ row # NoPath
    /\ log' = [log EXCEPT ![row] = "new"]
    /\ inserted' = [inserted EXCEPT ![row] = object[row]]
    /\ raced' = IF row \in batch THEN raced \cup {row} ELSE raced \ {row}
    /\ row' = NoPath
    /\ UNCHANGED <<queue, writer, trouble>>
    /\ UNCHANGED ingestion
    /\ UNCHANGED manager

(***************************************************************************)
(* The performance manager: process_gtfs_rt_files                          *)
(***************************************************************************)

Unprocessed(S) == {p \in S : log[p] = "new"}

\* The paths of the PathCount oldest days.
Oldest(S) ==
    {p \in S : Cardinality({TimeOf[q] : q \in {r \in S : TimeOf[r] < TimeOf[p]}})
                 < PathCount}

\* get_gtfs_rt_paths asks for the vehicle positions first; a query that
\* fails returns no path.
SelectVp ==
    /\ pm = "idle"
    /\ \/ batch' = Unprocessed(VpPaths) /\ UNCHANGED trouble
       \/ batch' = {} /\ Trouble
    /\ raced' = raced \ batch'
    /\ pm' = "select_tu"
    /\ UNCHANGED <<queue, writer, row, log, toRead, read, applied, inserted>>
    /\ UNCHANGED ingestion

\* ... then for the trip updates; the oldest days of both make the batch.
SelectTu ==
    /\ pm = "select_tu"
    /\ \/ batch' = Oldest(batch \cup Unprocessed(Paths \ VpPaths))
          /\ UNCHANGED trouble
       \/ batch' = Oldest(batch) /\ Trouble
    /\ raced' = raced \ (batch' \ batch)
    /\ toRead' = batch'
    /\ read' = Zero
    /\ pm' = IF batch' = {} THEN "idle" ELSE "read"
    /\ UNCHANGED <<queue, writer, row, log, applied, inserted>>
    /\ UNCHANGED ingestion

\* One object is read from S3, all vehicle positions before trip updates.
ReadPath(p) ==
    /\ pm = "read"
    /\ p \in toRead
    /\ p \in VpPaths \/ toRead \cap VpPaths = {}
    /\ read' = [read EXCEPT ![p] = object[p]]
    /\ toRead' = toRead \ {p}
    /\ pm' = IF toRead = {p} THEN "apply" ELSE "read"
    /\ UNCHANGED <<queue, writer, row, log, batch, applied, inserted, raced,
                   trouble>>
    /\ UNCHANGED ingestion

\* The events go to the database (build_temp_events and what follows).
ApplyEvents ==
    /\ pm = "apply"
    /\ applied' = [p \in Paths |-> IF p \in batch THEN read[p] ELSE applied[p]]
    /\ pm' = "mark"
    /\ UNCHANGED <<queue, writer, row, log, batch, toRead, read, inserted,
                   raced, trouble>>
    /\ UNCHANGED ingestion

\* The end of a round: its ids get these flags.
Mark(flags) ==
    /\ log' = [p \in Paths |-> IF p \in batch THEN flags ELSE log[p]]
    /\ pm' = "idle"
    /\ batch' = {}
    /\ toRead' = {}
    /\ read' = Zero
    /\ UNCHANGED <<queue, writer, row, applied, inserted, raced>>
    /\ UNCHANGED ingestion

\* Mutant: the round is marked before its events are in the database.
MarkEarly ==
    /\ pm \in {"read", "apply", "mark"}
    /\ Mark("done")
    /\ UNCHANGED trouble

MarkProcessed ==
    /\ pm = "mark"
    /\ Mark("done")
    /\ UNCHANGED trouble

\* Mutant: the ids of a failed round stay unprocessed.
MarkFailedForgets ==
    /\ pm \in {"read", "apply", "mark"}
    /\ pm' = "idle"
    /\ batch' = {}
    /\ toRead' = {}
    /\ read' = Zero
    /\ UNCHANGED <<queue, writer, row, log, applied, inserted, raced, trouble>>
    /\ UNCHANGED ingestion

\* Anything raises, the update of the flags included: all ids of the round
\* are marked as failed.
MarkFailed ==
    /\ pm \in {"read", "apply", "mark"}
    /\ Mark("failed")
    /\ UNCHANGED trouble

\* The manager is killed, or marking the failure raises too: the round is
\* forgotten, the rows stay as they are.
ManagerCrash ==
    /\ pm # "idle"
    /\ Trouble
    /\ pm' = "idle"
    /\ batch' = {}
    /\ toRead' = {}
    /\ read' = Zero
    /\ UNCHANGED <<queue, writer, row, log, applied, inserted, raced>>
    /\ UNCHANGED ingestion

(***************************************************************************)
(* Specification                                                           *)
(***************************************************************************)

Writer == WriterGet \/ WriterInsert

Manager ==
    \/ SelectVp \/ SelectTu
    \/ \E p \in Paths : ReadPath(p)
    \/ ApplyEvents \/ MarkProcessed \/ MarkFailed

Ingestion ==
    \/ \E p \in Paths : Upload(p) \/ SendMetadata(p)
    \/ Sigterm \/ StopWriter \/ Exit \/ Restart \/ IngestionCrash

Next == Ingestion \/ Writer \/ Manager \/ ManagerCrash

Spec == Init /\ [][Next]_vars

\* The writer process and the loop of the manager keep running, main waits
\* for nothing but the writer, and ECS restarts a stopped task.
FairSpec ==
    /\ Spec
    /\ WF_vars(Writer) /\ WF_vars(Manager)
    /\ WF_vars(StopWriter) /\ WF_vars(Exit) /\ WF_vars(Restart)
    /\ \A p \in Paths : WF_vars(SendMetadata(p))

(***************************************************************************)
(* Properties                                                              *)
(***************************************************************************)

\* When ingestion has shut down by itself, every announced object has its
\* row: the None was queued last and was waited for (check_for_sigterm,
\* _rds_writer_process).
ShutdownDrainsQueue ==
    main = "exited" => \A p \in Paths : inserted[p] >= sent[p]

\* A path that is marked processed has the events of its last announced
\* object in the database (performance_manager/README.md: every un-processed
\* path is processed; _rds_writer_process marks it un-processed again).
ProcessedIsCurrent ==
    \A p \in Paths : log[p] = "done" => applied[p] >= inserted[p]

\* The same, except for paths that were upserted while the round that marked
\* them was under way: that race is the only way to lose an announcement,
\* crashes of either application and failed queries are not.
ProcessedIsCurrentUnlessRaced ==
    \A p \in Paths \ raced : log[p] = "done" => applied[p] >= inserted[p]

\* An unprocessed path is eventually processed or marked as failed, also
\* when it is not among the oldest and when rounds are cut short.
UnprocessedIsHandled ==
    \A p \in Paths : (log[p] = "new") ~> (log[p] \in {"done", "failed"})
=============================================================================
