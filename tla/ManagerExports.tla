----------------------------- MODULE ManagerExports -----------------------------
(***************************************************************************)
(* What the performance manager publishes of its vehicle events: a flat    *)
(* file for each service date with an index (performance_manager/          *)
(* flat_file.py), and one parquet file of all dates that the jobs of       *)
(* tableau/ turn into a datasource.                                        *)
(*                                                                         *)
(* One thread of the manager runs the fast loop, whose rounds process      *)
(* events and then write the flat files, and between its rounds the slow   *)
(* loop, which updates the parquet.  The hyper update is a container of    *)
(* its own.  The events of a date are a number of rows and a revision: an  *)
(* update changes rows without adding any.                                 *)
(***************************************************************************)
EXTENDS Integers, FiniteSetsExt

CONSTANTS
    LastDate,    \* bound: dates are 1..LastDate
    MaxRows,     \* bound: rows of a date
    MaxRounds,   \* bound: rounds with events
    MaxReleases, \* bound: new schedules and deployments
    None,        \* no such file
    MaxTrouble   \* bound: failures and crashes

Dates == 1..LastDate

VARIABLES
    events,      \* rows, revision and schedule of the trips of each date
    schedule,    \* static_version_key_from_service_date
    temp,        \* dates in temp_event_compare
    rpmVersion,  \* RPM_VERSION of the running code
    lampVersion, \* lamp_version of the running code
    files,       \* flat file of each date
    index,       \* rpm_version of index.csv, 0 without one
    fast,        \* "idle", "check" or "write"
    parquet,     \* version and days of LAMP_ALL_RT_fields.parquet
    source,      \* days of the Tableau datasource
    newer,       \* which of these two was written last
    hyper,       \* days of the local hyper file
    rounds, releases,
    behind,      \* observer: dates whose flat file a fault left as it was
    pending,     \* observer: dates with rows that no update has seen
    late,        \* observer: dates that got rows behind the window of updates
    overtaken,   \* observer: parquet was written while hyper was built
    trouble

databaseVars == <<events, schedule, temp, pending, late>>
codeVars == <<rpmVersion, lampVersion>>
flatVars == <<files, index, fast, behind>>
tableauVars == <<parquet, source, newer, hyper, overtaken>>
exportVars == <<databaseVars, codeVars, flatVars, tableauVars, rounds, releases,
                trouble>>

Rows(d) == [rows |-> events[d].rows, rev |-> events[d].rev]
NoRows == [rows |-> 0, rev |-> 0]
Processed == {d \in Dates : events[d].rows > 0}
Archived == {d \in Dates : files[d] # None}

Fail == trouble < MaxTrouble /\ trouble' = trouble + 1
Release ==
    /\ releases < MaxReleases /\ releases' = releases + 1
    /\ UNCHANGED rounds

Init ==
    /\ events = [d \in Dates |-> [rows |-> 0, rev |-> 0, key |-> 0]]
    /\ schedule = [d \in Dates |-> 0] /\ temp = {}
    /\ rpmVersion = 1 /\ lampVersion = 1
    /\ files = [d \in Dates |-> None] /\ index = 0 /\ fast = "idle"
    /\ parquet = None /\ source = None /\ newer = "parquet" /\ hyper = None
    /\ rounds = 0 /\ releases = 0 /\ behind = {} /\ pending = {} /\ late = {}
    /\ overtaken = FALSE /\ trouble = 0

----------------------------------------------------------------------------
(* HyperRtRail: the update of the parquet starts a day before its last one *)

Empty(days) == \A d \in Dates : days[d].rows = 0
LatestDate(days) == Max({d \in Dates : days[d].rows > 0})
Window(days) == {d \in Dates : d >= LatestDate(days) - 1}
Count(days, dates) == MapThenSumSet(LAMBDA d : days[d].rows, dates)

----------------------------------------------------------------------------
(* The fast loop *)

\* A schedule is loaded that applies from a date on.
LoadSchedule(from) ==
    /\ fast = "idle" /\ Release
    /\ schedule' = [d \in Dates |-> IF d >= from THEN schedule[d] + 1 ELSE schedule[d]]
    /\ UNCHANGED <<events, temp, pending, late, codeVars, flatVars, tableauVars, trouble>>

\* A round without events leaves temp_event_compare as it is.
QuietRound ==
    /\ fast = "idle" /\ fast' = "check"
    /\ UNCHANGED <<databaseVars, codeVars, files, index, behind, tableauVars,
                   rounds, releases, trouble>>

\* process_gtfs_rt_files: temp_event_compare gets the events of the round and
\* keeps those that add or change a row; their dates take the schedule in
\* force.  It may fail before vehicle_events has the changes.
ProcessEvents(added, updated) ==
    /\ fast = "idle" /\ fast' = "check"
    /\ rounds < MaxRounds /\ rounds' = rounds + 1
    /\ added \cap updated = {} /\ updated \subseteq Processed
    /\ \A d \in added : events[d].rows < MaxRows
    /\ temp' = added \cup updated
    /\ \/ /\ events' = [d \in Dates |->
                IF d \notin temp' THEN events[d]
                ELSE [rows |-> events[d].rows + IF d \in added THEN 1 ELSE 0,
                      rev |-> rounds', key |-> schedule[d]]]
          /\ pending' = pending \cup added
          /\ late' = late \cup IF parquet = None THEN {}
                               ELSE IF Empty(parquet.days) THEN {}
                               ELSE added \ Window(parquet.days)
          /\ UNCHANGED trouble
       \/ Fail /\ UNCHANGED <<events, pending, late>>
    /\ UNCHANGED <<schedule, codeVars, files, index, behind, tableauVars, releases>>

\* Dates that the flat files of this round would have brought up to date.
Due == temp \cup (Processed \ Archived)

\* check_version: files of another version are all deleted.  The listing may
\* fail and find none of them.
CheckVersion ==
    /\ fast = "check" /\ fast' = "write"
    /\ \/ /\ index = rpmVersion
          /\ UNCHANGED <<files, index, behind, trouble>>
       \/ /\ index # rpmVersion
          /\ files' = [d \in Dates |-> None] /\ index' = 0
          /\ UNCHANGED <<behind, trouble>>
       \/ /\ index # rpmVersion /\ Fail
          /\ behind' = behind \cup Archived
          /\ UNCHANGED <<files, index>>
    /\ UNCHANGED <<databaseVars, codeVars, tableauVars, rounds, releases>>

\* An object cannot be deleted, or the version not be read: no file of this
\* round is written.
CheckFails ==
    /\ fast = "check" /\ fast' = "idle" /\ Fail
    /\ \E deleted \in SUBSET Archived :
         /\ index = rpmVersion => deleted = {}
         /\ files' = [d \in Dates |-> IF d \in deleted THEN None ELSE files[d]]
         /\ behind' = behind \cup Due \cup deleted
    /\ UNCHANGED <<databaseVars, codeVars, index, tableauVars, rounds, releases>>

\* Mutant: only the dates that have no file.
MissingDates(archived) == Processed \ archived

\* dates_to_update
DatesToUpdate(archived) == (Processed \ archived) \cup temp

\* write_daily_table joins the trips of the schedule in force now.
DailyTable(d) ==
    [version |-> rpmVersion,
     table |-> IF events[d].key = schedule[d] THEN Rows(d) ELSE NoRows]

\* write_flat_files: a date may fail alone, the index with its version comes
\* last, and a listing that fails makes all dates look unarchived.  The death
\* of the manager between two files is the failure of all later ones.
WriteFiles ==
    /\ fast = "write" /\ fast' = "idle"
    /\ \E archived \in {Archived, {}}, indexed \in BOOLEAN :
         LET dates == DatesToUpdate(archived)
         IN \E failed \in SUBSET dates :
              /\ IF archived = Archived /\ failed = {} /\ (indexed \/ dates = {})
                 THEN UNCHANGED trouble ELSE Fail
              /\ files' = [d \in Dates |-> IF d \in dates \ failed THEN DailyTable(d)
                                           ELSE files[d]]
              /\ behind' = (behind \ dates) \cup failed
              /\ index' = IF indexed /\ dates # {} THEN rpmVersion ELSE index
    /\ UNCHANGED <<databaseVars, codeVars, tableauVars, rounds, releases>>

\* A new container of the manager, of the same or another version.
Restart ==
    /\ fast' = "idle"
    /\ behind' = IF fast = "idle" THEN behind ELSE behind \cup Due
    /\ UNCHANGED <<databaseVars, files, index, tableauVars>>

Crash == Fail /\ Restart /\ UNCHANGED <<codeVars, rounds, releases>>

Deploy ==
    /\ Release /\ Restart /\ UNCHANGED trouble
    /\ \/ rpmVersion' = rpmVersion + 1 /\ UNCHANGED lampVersion
       \/ lampVersion' = lampVersion + 1 /\ UNCHANGED rpmVersion

----------------------------------------------------------------------------
(* The slow loop and the hyper update *)

\* Mutant: the rows of the window are added to the file only when the last
\* date is a new one.
UpdatedByLastDate(days) ==
    IF LatestDate([d \in Dates |-> Rows(d)]) = LatestDate(days) THEN days
    ELSE [d \in Dates |-> IF d \in Window(days) THEN Rows(d) ELSE days[d]]

\* update_parquet compares numbers of rows; old dates stay as they are.
Updated(days) ==
    IF Count(events, Window(days)) = Count(days, Window(days)) THEN days
    ELSE [d \in Dates |-> IF d \in Window(days) THEN Rows(d) ELSE days[d]]

Upload(days, missing) ==
    \/ /\ parquet' = [version |-> lampVersion, days |-> days]
       /\ newer' = "parquet" /\ overtaken' = (hyper # None)
       /\ pending' = {} /\ late' = missing
       /\ UNCHANGED trouble
    \/ Fail /\ UNCHANGED <<parquet, newer, overtaken, pending, late>>

\* run_parquet.  A parquet without rows has no statistics: every update of it
\* raises.
UpdateParquet ==
    /\ fast = "idle"
    /\ IF parquet = None \/ parquet.version # lampVersion
       THEN Upload([d \in Dates |-> Rows(d)], {})
       ELSE /\ ~Empty(parquet.days)
            /\ IF Updated(parquet.days) = parquet.days
               THEN /\ pending' = {}
                    /\ UNCHANGED <<parquet, newer, overtaken, late, trouble>>
               ELSE Upload(Updated(parquet.days), late)
    /\ UNCHANGED <<events, schedule, temp, codeVars, flatVars, source, hyper,
                   rounds, releases>>

\* run_hyper reads the parquet unless the datasource was updated after it.
CreateLocalHyper ==
    /\ hyper = None /\ parquet # None
    /\ source = None \/ newer = "parquet"
    /\ hyper' = parquet.days /\ overtaken' = FALSE
    /\ UNCHANGED <<databaseVars, codeVars, flatVars, parquet, source, newer,
                   rounds, releases, trouble>>

\* overwrite_datasource; after a failure everything is tried again.
OverwriteDatasource ==
    /\ hyper # None /\ hyper' = None
    /\ \/ source' = hyper /\ newer' = "source" /\ UNCHANGED trouble
       \/ Fail /\ UNCHANGED <<source, newer>>
    /\ UNCHANGED <<databaseVars, codeVars, flatVars, parquet, overtaken, rounds,
                   releases>>

Next ==
    \/ \E from \in Dates : LoadSchedule(from)
    \/ QuietRound
    \/ \E added, updated \in SUBSET Dates : ProcessEvents(added, updated)
    \/ CheckVersion \/ CheckFails \/ WriteFiles \/ Crash \/ Deploy
    \/ UpdateParquet \/ CreateLocalHyper \/ OverwriteDatasource

Spec == Init /\ [][Next]_exportVars

(***************************************************************************)
(* Properties                                                              *)
(***************************************************************************)

Table == [rows : 0..MaxRows, rev : 0..MaxRounds]
Days == [Dates -> Table]

\* Type invariant.
TypeOK ==
    /\ \A d \in Dates : Rows(d) \in Table /\ events[d].key <= schedule[d]
    /\ temp \cup behind \cup pending \cup late \subseteq Dates
    /\ \A d \in Archived : files[d].table \in Table /\ files[d].version <= rpmVersion
    /\ index <= rpmVersion /\ fast \in {"idle", "check", "write"}
    /\ parquet # None => parquet.days \in Days /\ parquet.version <= lampVersion
    /\ source # None => source \in Days
    /\ hyper # None => hyper \in Days
    /\ newer \in {"parquet", "source"} /\ overtaken \in BOOLEAN

\* Between rounds each date with events has a flat file, at least of the version
\* in the index, with all its events and their last changes, or with none when a
\* schedule was loaded after the last events of the date and the date was
\* written again; except for dates that a fault left as they were, and these
\* recover as long as temp_event_compare has them or their file is missing.
FlatFilesFollowEvents ==
    fast = "idle" =>
        \A d \in Processed \ behind :
           /\ files[d] # None
           /\ files[d].version >= index
           /\ \/ files[d].table = Rows(d)
              \/ files[d].table = NoRows /\ events[d].key # schedule[d]

\* The parquet has as many rows of each date as the database, although only
\* sums over the window are compared, except for rows that came after the
\* last update or behind the window; and the datasource, when it is the newer
\* of the two, has the days of the parquet, unless this was written while the
\* hyper file was built.
TableauFollowsEvents ==
    /\ parquet # None =>
         \A d \in Dates \ (pending \cup late) :
            parquet.days[d].rows = events[d].rows
    /\ newer = "source" /\ ~overtaken => source = parquet.days
=============================================================================
