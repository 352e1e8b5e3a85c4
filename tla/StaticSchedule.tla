---------------------------- MODULE StaticSchedule ----------------------------
(***************************************************************************)
(* GTFS schedules, from the archive of published schedules to the static   *)
(* tables that the performance manager joins events with.                  *)
(*                                                                         *)
(* Ingestion (convert_gtfs.py) writes one object per table and announces   *)
(* the object of FEED_INFO; the performance manager                        *)
(* (l0_gtfs_static_load.py) loads an announced version table by table,     *)
(* removes it when a table fails, and picks one version per service date   *)
(* for the events (gtfs_utils.py).                                         *)
(*                                                                         *)
(* A schedule is its place in the order of publication, which is also the  *)
(* order of the version keys.  Four of the nine tables stand for all: the  *)
(* first one, the two a trigger relates, and the one that may be empty.    *)
(***************************************************************************)
EXTENDS Integers, FiniteSets, SequencesExt

CONSTANTS
    FeedStart, FeedEnd,  \* first and last date of each schedule
    Published,           \* date of publication, the feed_active_date
    Empty,               \* Empty[s]: the tables of s without rows
    ZipOrder,            \* order of the tables in a zip file
    Dates,               \* service dates of the events
    MaxObjects,          \* bound: FEED_INFO objects of a version
    MaxFaults            \* bound: faults in a behaviour

Schedules == DOMAIN FeedStart

\* Mutant: static_feed_info is loaded last, as its path is announced last.
LoadFeedInfoLast == <<"STOP_TIMES", "TRIPS", "CALENDAR_DATES", "FEED_INFO">>

\* The order in which get_table_objects returns the tables.
LoadOrder == <<"FEED_INFO", "STOP_TIMES", "TRIPS", "CALENDAR_DATES">>
Tables == Range(LoadOrder)
MayBeEmpty == {"CALENDAR_DATES"}

ASSUME ScheduleAssumption ==
    /\ FeedStart \in Seq(Nat) /\ FeedEnd \in Seq(Nat) /\ Published \in Seq(Nat)
    /\ DOMAIN FeedEnd = Schedules /\ DOMAIN Published = Schedules
    /\ Empty \in [Schedules -> SUBSET MayBeEmpty]
    /\ ZipOrder \in Seq(Tables) /\ Range(ZipOrder) = Tables
    /\ IsInjective(ZipOrder)
    /\ Dates \subseteq Nat /\ MaxObjects \in Nat

VARIABLES
    archived,   \* number of schedules in archived_feeds.txt
    todo, step, \* schedules of this round, place in the schedule at hand
    objects,    \* tables of each version in the springboard
    feedInfos,  \* FEED_INFO objects of each version
    queue,      \* announced paths on their way to metadata_log
    logged,     \* rows of metadata_log for each version
    marked,     \* how many of them are marked as processed
    pm, batch,  \* step of the manager, rows of its round
    version, i, \* version at hand, place in LoadOrder or update
    rows,       \* copies of each table in the database
    created,    \* rows of static_feed_info, oldest created_on first
    branched,   \* versions whose trips got branch and trunk routes
    metrics,    \* updates of modify_static_tables that are done
    used,       \* version of the trips of each date
    failed,     \* versions marked rail_pm_process_fail
    faults, unlisted, dropped, lost,  \* observers of faults
    unclean     \* observer: versions whose clean-up did not run to its end

ingest == <<archived, todo, step, objects, feedInfos, queue, logged,
            unlisted, dropped, lost>>
manager == <<marked, pm, batch, version, i, rows, created, branched, metrics,
             used, failed, unclean>>
vars == <<ingest, manager, faults>>

\* seq without e, which it has once.
Without(seq, e) == RemoveAt(seq, CHOOSE k \in DOMAIN seq : seq[k] = e)

None == 0
Zero == [s \in Schedules |-> 0]

Init ==
    /\ archived = 0 /\ todo = {} /\ step = 1
    /\ objects = [s \in Schedules |-> {}]
    /\ feedInfos = Zero /\ queue = <<>> /\ logged = Zero /\ marked = Zero
    /\ pm = "idle" /\ batch = Zero /\ version = None /\ i = 1
    /\ rows = [t \in Tables |-> Zero]
    /\ created = <<>> /\ branched = {} /\ metrics = Zero
    /\ used = [d \in Dates |-> None]
    /\ failed = {} /\ faults = 0
    /\ unlisted = FALSE /\ dropped = {} /\ lost = {} /\ unclean = {}

Fault ==
    /\ faults < MaxFaults
    /\ faults' = faults + 1

----------------------------------------------------------------------------
(* Ingestion *)

\* The MBTA adds a schedule to the archive.
Publish ==
    /\ archived < Len(FeedStart)
    /\ archived' = archived + 1
    /\ UNCHANGED <<todo, step, objects, feedInfos, queue, logged, unlisted,
                   dropped, lost, manager, faults>>

\* t hides s: published on the same date, later in the sorted frame.
Hides(t, s) ==
    /\ Published[t] = Published[s]
    /\ \/ FeedStart[t] > FeedStart[s]
       \/ FeedStart[t] = FeedStart[s] /\ t > s

\* ordered_schedule_frame
Ordered == {s \in 1..archived : ~\E t \in 1..archived : Hides(t, s)}

\* The object that ends the listing of lamp/FEED_INFO/.
LastFeedInfo == Max({s \in Schedules : feedInfos[s] > 0})

\* Mutant: the version that is in S3 is not left out.
ConvertLastAgain(listing) ==
    IF listing = {} THEN Ordered
    ELSE {s \in Ordered : FeedStart[s] >= FeedStart[LastFeedInfo]}

\* Mutant: without a first object there is nothing to compare with.
ConvertAfterLast(listing) ==
    {s \in Ordered : listing # {} /\ FeedStart[s] > FeedStart[LastFeedInfo]}

\* gtfs_files_to_convert; an empty listing filters nothing.
ToConvert(listing) ==
    IF listing = {} THEN Ordered
    ELSE {s \in Ordered : /\ FeedStart[s] >= FeedStart[LastFeedInfo]
                          /\ s # LastFeedInfo}

\* A failed listing is an empty one.
SelectSchedules ==
    /\ todo = {}
    /\ \E listing \in {{s \in Schedules : feedInfos[s] > 0}, {}} :
         /\ \/ listing = {s \in Schedules : feedInfos[s] > 0}
               /\ UNCHANGED <<faults, unlisted>>
            \/ listing = {} /\ Fault /\ unlisted' = TRUE
         /\ todo' = ToConvert(listing)
    /\ todo' # {}
    /\ \A s \in todo' : feedInfos[s] < MaxObjects
    /\ step' = 1
    /\ UNCHANGED <<archived, objects, feedInfos, queue, logged, dropped, lost,
                   manager>>

\* Mutant: the files are taken as the zip lists them.
ConvertAsListed == ZipOrder

\* process_schedule leaves feed_info for the end.
ConvertOrder == Append(Without(ZipOrder, "FEED_INFO"), "FEED_INFO")

\* Schedules are converted oldest first.
Current == Min(todo)

\* create_table: an empty table writes nothing; FEED_INFO is announced.
CreateTable ==
    /\ todo # {}
    /\ LET t == ConvertOrder[step]
           writes == t \notin Empty[Current]
           announces == t = "FEED_INFO"
       IN /\ objects' = IF writes
                        THEN [objects EXCEPT ![Current] = @ \cup {t}]
                        ELSE objects
          /\ feedInfos' = IF announces
                          THEN [feedInfos EXCEPT ![Current] = @ + 1]
                          ELSE feedInfos
          /\ queue' = IF announces THEN Append(queue, Current) ELSE queue
    /\ IF step = Len(ConvertOrder)
       THEN todo' = todo \ {Current} /\ step' = 1
       ELSE todo' = todo /\ step' = step + 1
    /\ UNCHANGED <<archived, logged, unlisted, dropped, lost, manager, faults>>

\* Any exception of process_schedule is logged and the next one is tried.
ScheduleFails ==
    /\ todo # {}
    /\ Fault
    /\ dropped' = dropped \cup {Current}
    /\ todo' = todo \ {Current}
    /\ step' = 1
    /\ UNCHANGED <<archived, objects, feedInfos, queue, logged, unlisted, lost,
                   manager>>

\* The rds writer upserts a row; each path has a new uuid.
Record ==
    /\ queue # <<>>
    /\ logged' = [logged EXCEPT ![Head(queue)] = @ + 1]
    /\ queue' = Tail(queue)
    /\ UNCHANGED <<archived, todo, step, objects, feedInfos, unlisted, dropped,
                   lost, manager, faults>>

\* The container is killed: the round and the queue are gone.
IngestionCrash ==
    /\ Fault
    /\ dropped' = dropped \cup todo
    /\ lost' = lost \cup Range(queue)
    /\ todo' = {} /\ step' = 1 /\ queue' = <<>>
    /\ UNCHANGED <<archived, objects, feedInfos, logged, unlisted, manager>>

----------------------------------------------------------------------------
(* Performance manager: process_static_tables and a round of events *)

Goto(p) == pm' = p /\ i' = 1

\* get_unprocessed_files groups the rows of a version.
ReadPaths ==
    /\ pm = "idle"
    /\ batch' = [s \in Schedules |-> logged[s] - marked[s]]
    /\ Goto("next")
    /\ UNCHANGED <<marked, version, rows, created, branched, metrics, used,
                   failed, unclean, ingest, faults>>

\* Oldest version first; with none left the events are processed.
NextPath ==
    /\ pm = "next"
    /\ LET waiting == {s \in Schedules : batch[s] > 0}
       IN IF waiting = {} THEN version' = None /\ Goto("events")
                          ELSE version' = Min(waiting) /\ Goto("load")
    /\ UNCHANGED <<marked, batch, rows, created, branched, metrics, used,
                   failed, unclean, ingest, faults>>

\* load_parquet_files needs an object of every table that must have rows.
\* A failure cleans nothing, also when a killed round left rows behind.
Load ==
    /\ pm = "load"
    /\ \/ Tables \ MayBeEmpty \subseteq objects[version] /\ Goto("insert")
          /\ UNCHANGED <<faults, unclean>>
       \/ /\ Goto("mark_failed")
          /\ IF Tables \ MayBeEmpty \subseteq objects[version]
             THEN Fault ELSE UNCHANGED faults
          /\ unclean' = unclean \cup ({version} \cap Range(created))
    /\ UNCHANGED <<marked, batch, version, rows, created, branched, metrics,
                   used, failed, ingest>>

\* Mutant: static_version_key is not unique.
NeverRejected(t) == FALSE

\* static_feed_info is unique in its version, the other tables are not.
Rejected(t) == t = "FEED_INFO" /\ version \in Range(created)

\* The rows of a table, and what the trigger before the insert of trips
\* finds in static_stop_times.
AddRows(t) ==
    /\ rows' = [rows EXCEPT ![t][version] = @ + 1]
    /\ created' = IF t = "FEED_INFO" THEN Append(created, version) ELSE created
    /\ branched' = IF t = "TRIPS" /\ rows["STOP_TIMES"][version] > 0
                   THEN branched \cup {version} ELSE branched

\* The next table of LoadOrder.
AfterInsert ==
    IF i < Len(LoadOrder) THEN i' = i + 1 /\ pm' = pm ELSE Goto("modify")

\* insert_data_tables: an error of the insert or of the vacuum after it
\* starts the clean-up.
InsertTable ==
    /\ pm = "insert"
    /\ LET t == LoadOrder[i] IN
         \/ /\ t \notin objects[version] /\ AfterInsert
            /\ UNCHANGED <<rows, created, branched, faults>>
         \/ /\ t \in objects[version] /\ ~Rejected(t)
            /\ AddRows(t)
            /\ \/ AfterInsert /\ UNCHANGED faults
               \/ Goto("clean") /\ Fault
         \/ /\ t \in objects[version]
            /\ Goto("clean")
            /\ IF Rejected(t) THEN UNCHANGED faults ELSE Fault
            /\ UNCHANGED <<rows, created, branched>>
    /\ UNCHANGED <<marked, batch, version, metrics, used, failed, unclean,
                   ingest>>

\* The delete of a table of the version, whoever inserted its rows.
DeleteRows(t) ==
    /\ rows' = [rows EXCEPT ![t][version] = 0]
    /\ created' = IF t = "FEED_INFO" /\ version \in Range(created)
                  THEN Without(created, version) ELSE created
    /\ branched' = IF t = "TRIPS" THEN branched \ {version} ELSE branched
    /\ metrics' = IF t = "STOP_TIMES"
                  THEN [metrics EXCEPT ![version] = 0] ELSE metrics

\* Mutant: vehicle_trips has no foreign key.
NeverReferenced(t) == FALSE

\* vehicle_trips refers to static_feed_info: the delete of a version that
\* trips were given is refused.
Referenced(t) == t = "FEED_INFO" /\ version \in Range(used)

CleanTable ==
    /\ pm = "clean"
    /\ LET t == LoadOrder[i] IN
         \/ /\ ~Referenced(t)
            /\ DeleteRows(t)
            /\ IF i < Len(LoadOrder) THEN i' = i + 1 /\ pm' = pm
                                     ELSE Goto("mark_failed")
            /\ UNCHANGED <<unclean, faults>>
         \/ /\ Goto("mark_failed")
            /\ IF Referenced(t)
               THEN UNCHANGED <<unclean, faults>>
               ELSE Fault /\ unclean' = unclean \cup {version}
            /\ UNCHANGED <<rows, created, branched, metrics>>
    /\ UNCHANGED <<marked, batch, version, used, failed, ingest>>

\* modify_static_tables: travel times, branch headways, trunk headways.
Modify ==
    /\ pm = "modify"
    /\ \/ /\ metrics' = [metrics EXCEPT ![version] = i]
          /\ IF i < 3 THEN i' = i + 1 /\ pm' = pm ELSE Goto("mark")
          /\ UNCHANGED faults
       \/ Goto("mark_failed") /\ Fault /\ UNCHANGED metrics
    /\ UNCHANGED <<marked, batch, version, rows, created, branched, used,
                   failed, unclean, ingest>>

\* The rows that were read are marked, by pk_id.
MarkRows == marked' = [marked EXCEPT ![version] = @ + batch[version]]

MarkProcessed ==
    /\ pm = "mark"
    /\ \/ /\ MarkRows /\ batch' = [batch EXCEPT ![version] = 0]
          /\ Goto("next") /\ UNCHANGED faults
       \/ Goto("mark_failed") /\ Fault /\ UNCHANGED <<marked, batch>>
    /\ UNCHANGED <<version, rows, created, branched, metrics, used, failed,
                   unclean, ingest>>

\* The manager waits for an operator; if even the mark fails the round ends.
MarkFailed ==
    /\ pm = "mark_failed"
    /\ \/ /\ MarkRows /\ failed' = failed \cup {version}
          /\ Goto("wait") /\ UNCHANGED faults
       \/ Goto("idle") /\ Fault /\ UNCHANGED <<marked, failed>>
    /\ batch' = Zero
    /\ UNCHANGED <<version, rows, created, branched, metrics, used, unclean,
                   ingest>>

\* The operator stops the task, ECS starts it again.
Intervene ==
    /\ pm = "wait"
    /\ Goto("idle")
    /\ UNCHANGED <<marked, batch, version, rows, created, branched, metrics,
                   used, failed, unclean, ingest, faults>>

ManagerCrash ==
    /\ pm \notin {"idle", "wait"}
    /\ Fault
    /\ unclean' = IF pm = "clean" THEN unclean \cup {version} ELSE unclean
    /\ batch' = Zero
    /\ Goto("idle")
    /\ UNCHANGED <<marked, version, rows, created, branched, metrics, used,
                   failed, ingest>>

CreatedAt(s) == CHOOSE k \in DOMAIN created : created[k] = s

\* t is chosen before s: ORDER BY key DESC, created_on DESC.
Before(key, t, s) ==
    \/ key[t] > key[s]
    \/ key[t] = key[s] /\ CreatedAt(t) > CreatedAt(s)

First(key, S) == CHOOSE t \in S : \A s \in S \ {t} : Before(key, t, s)

\* static_version_key_from_service_date: live match, else archive match.
VersionFor(d) ==
    LET archive == {s \in Range(created) : FeedStart[s] <= d /\ d <= FeedEnd[s]}
        live == {s \in archive : Published[s] <= d}
    IN IF live # {} THEN First(Published, live)
       ELSE IF archive # {} THEN First(FeedStart, archive)
       ELSE None

\* The events of a round are of some dates, a date without a schedule fails
\* the round; update_static_version_key moves all trips of a date to its
\* version.
ProcessEvents ==
    /\ pm = "events"
    /\ \E D \in SUBSET {d \in Dates : VersionFor(d) # None} :
         used' = [d \in Dates |-> IF d \in D THEN VersionFor(d) ELSE used[d]]
    /\ Goto("idle")
    /\ UNCHANGED <<marked, batch, version, rows, created, branched, metrics,
                   failed, unclean, ingest, faults>>

----------------------------------------------------------------------------
Ingestion == SelectSchedules \/ CreateTable \/ ScheduleFails

Manager ==
    \/ ReadPaths \/ NextPath \/ Load \/ InsertTable \/ CleanTable \/ Modify
    \/ MarkProcessed \/ MarkFailed \/ ProcessEvents

Next ==
    \/ Publish \/ Ingestion \/ Record \/ IngestionCrash
    \/ Manager \/ Intervene \/ ManagerCrash

Spec == Init /\ [][Next]_vars

\* Both containers run their loops and the writer its queue; nobody has to
\* intervene and no schedule has to be published.
FairSpec ==
    /\ Spec
    /\ WF_vars(Ingestion) /\ WF_vars(Record) /\ WF_vars(Manager)

(***************************************************************************)
(* Properties                                                              *)
(***************************************************************************)

\* Type invariant of the springboard, the log and the database.
TypeOK ==
    /\ archived \in 0..Len(FeedStart)
    /\ todo \subseteq Schedules /\ step \in 1..Len(ConvertOrder)
    /\ objects \in [Schedules -> SUBSET Tables]
    /\ feedInfos \in [Schedules -> 0..MaxObjects]
    /\ queue \in Seq(Schedules)
    /\ \A f \in {logged, marked, batch} : f \in [Schedules -> 0..MaxObjects]
    /\ version \in Schedules \cup {None} /\ i \in 1..Len(LoadOrder)
    /\ rows \in [Tables -> [Schedules -> Nat]]
    /\ created \in Seq(Schedules) /\ IsInjective(created)
    /\ metrics \in [Schedules -> 0..3]
    /\ used \in [Dates -> Schedules \cup {None}]

\* The path of a FEED_INFO object starts the load of the whole schedule, so
\* all other tables are in the springboard before it is announced
\* (convert_gtfs.py:91).
FeedInfoIsLast ==
    \A s \in Schedules :
        logged[s] > 0 \/ s \in Range(queue) => objects[s] = Tables \ Empty[s]

\* Crashes and failures at any step included, events never meet a version
\* with a table missing, loaded twice, loaded before the table its trigger
\* reads, or, unless it is marked as failed, without its computed columns;
\* and of a version that is gone no table is left.  Only a clean-up that
\* does not run to its end breaks this.
VersionsAreWhole ==
    pm = "events" =>
        \A s \in Schedules \ unclean :
            \/ /\ s \in Range(created) /\ s \in branched
               /\ \A t \in Tables : rows[t][s] = IF t \in Empty[s] THEN 0 ELSE 1
               /\ s \notin failed => metrics[s] = 3
            \/ s \notin Range(created) /\ \A t \in Tables : rows[t][s] = 0

\* With feeds whose start dates increase, a version is announced once: a
\* second object would make the load fail on the unique key of
\* static_feed_info, take the version away if no trip refers to it, and stop
\* the manager.  A failed listing of FEED_INFO counts as an empty one and
\* breaks this.
AnnouncedOnce ==
    ~unlisted => \A s \in Schedules : feedInfos[s] <= 1

\* A version that trips were given never leaves the database, and any other
\* leaves it only while a path of it waits to be processed: one whose load is
\* settled only when it is announced a second time, never by the recovery of
\* a crash or by the failure of another version.
UsedVersionStays ==
    [][\A s \in Range(created) \ Range(created') :
          /\ s \notin Range(used)
          /\ logged[s] > marked[s]]_vars

\* Every schedule in the archive is loaded in the end, unless its conversion
\* failed or was interrupted, its path was in the queue at a crash, another
\* one of the same date hides it, or it is marked as failed; and as long as
\* the manager does not wait for an operator.
PublishedIsLoaded ==
    \A s \in Schedules :
        s <= archived
          ~> \/ s \in Range(created) /\ metrics[s] = 3
             \/ s \in dropped \cup lost \cup failed
             \/ s \notin Ordered
             \/ pm = "wait"
=============================================================================
