----------------------------- MODULE CompressGtfs -----------------------------
(***************************************************************************)
(* The archive of GTFS schedules (ingestion/compress_gtfs): one folder for *)
(* each year, one file for each table, and each record with the dates from *)
(* and to which it was in force.  Every loop of the ingestion compares the *)
(* published schedules with the archive, merges those it does not know,    *)
(* oldest first, and uploads the folders.                                  *)
(*                                                                         *)
(* A date is a day number: the code's YYYYMMDD integers are only compared  *)
(* and split into year and day.  An exception leaves the loop of the       *)
(* ingestion, so it ends the container like a crash does, and the next one *)
(* starts with an empty disk.                                              *)
(***************************************************************************)
EXTENDS Integers, FiniteSets, Sequences

CONSTANTS
    Records,       \* records of the tables other than feed_info
    Tables,        \* the tables in the order of compression
    DaysPerYear,
    LastDay,       \* bound: last day of publication
    MaxSchedules,  \* bound
    Missing,       \* no such file
    MaxTrouble     \* bound: crashes and failures

VARIABLES
    feed,      \* archived_feeds.txt: day and records of each schedule
    step,      \* "idle", "compress" or "upload"
    todo,      \* schedules to compress
    table,     \* number of the next table of the first of them
    folders,   \* years with a local folder
    disk,      \* local files: rows by year and table
    bucket,    \* files of the public archive bucket
    sending,   \* files to upload, as pairs of year and table
    compressed,\* schedules of this loop
    archived,  \* observer: schedules of loops that came to an end
    spoiled,   \* observer: years with a file that was not transferred or replaced
    trouble

archiveVars == <<feed, step, todo, table, folders, disk, bucket, sending,
                 compressed, archived, spoiled, trouble>>

TableSet == {Tables[i] : i \in DOMAIN Tables}
Validity == DaysPerYear            \* 365 days

Year(day) == day \div DaysPerYear
Years == 0..(Year(LastDay + Validity))
FirstDay(year) == year * DaysPerYear
NoFiles == [y \in Years |-> [t \in TableSet |-> Missing]]

ActiveFrom(v) == feed[v].day + 1
ActiveTo(v) == feed[v].day + Validity
Partition(v) == Year(ActiveFrom(v))

\* ordered_schedule_frame: of the schedules of a day only the last one.
Listed == {v \in DOMAIN feed : \A w \in DOMAIN feed :
              feed[w].day = feed[v].day => w <= v}
FeedYears == {Year(feed[v].day) : v \in Listed}

\* gtfs_to_frame: feed_info has the version, the others any records.
Content(v, t) == IF t = "feed_info" THEN {v} ELSE feed[v].records

Row(r, from, to) == [record |-> r, from |-> from, to |-> to]
RowsAt(file, day) == {r \in file : r.from <= day /\ day <= r.to}

----------------------------------------------------------------------------
(* frame_parquet_diffs and merge_frame_with_parquet *)

Same(file, v, t, day) == {r \in RowsAt(file, day) : r.record \in Content(v, t)}
Old(file, v, t, day) == {r \in RowsAt(file, day) : r.record \notin Content(v, t)}
New(file, v, t, day) ==
    {Row(r, ActiveFrom(v), ActiveTo(v)) :
        r \in Content(v, t) \ {q.record : q \in RowsAt(file, day)}}

Until(rows, day) == {[r EXCEPT !.to = day] : r \in rows}
From(rows, day) == {[r EXCEPT !.from = day] : r \in rows}

\* Mutant: old records end when the new ones start.
MergedOverlapping(file, v, t) ==
    LET day == ActiveFrom(v)
    IN (file \ RowsAt(file, day)) \cup Until(Same(file, v, t, day), ActiveTo(v))
         \cup Until(Old(file, v, t, day), day) \cup New(file, v, t, day)

\* The file of the year has it all.
Merged(file, v, t) ==
    LET day == ActiveFrom(v)
    IN (file \ RowsAt(file, day)) \cup Until(Same(file, v, t, day), ActiveTo(v))
         \cup Until(Old(file, v, t, day), feed[v].day) \cup New(file, v, t, day)

\* The first schedule of a year: the file of the year before is closed ...
Closed(file, v) ==
    LET day == FirstDay(Partition(v)) - 1
    IN (file \ RowsAt(file, day)) \cup Until(RowsAt(file, day), day)

\* ... and what was in force goes on in the new one.
Continued(file, v, t) ==
    LET first == FirstDay(Partition(v))
        rows == From(Until(Same(file, v, t, first - 1), ActiveTo(v)), first)
                  \cup From(Until(Old(file, v, t, first - 1), feed[v].day), first)
                  \cup New(file, v, t, first - 1)
    IN {r \in rows : r.to > r.from}

----------------------------------------------------------------------------
Init ==
    /\ feed = <<>> /\ step = "idle" /\ todo = <<>> /\ table = 1
    /\ folders = {} /\ disk = NoFiles /\ bucket = NoFiles
    /\ sending = {} /\ compressed = {} /\ archived = {} /\ spoiled = {}
    /\ trouble = 0

Publish(day, records) ==
    /\ Len(feed) < MaxSchedules
    /\ \A v \in DOMAIN feed : feed[v].day <= day
    /\ feed' = Append(feed, [day |-> day, records |-> records])
    /\ UNCHANGED <<step, todo, table, folders, disk, bucket, sending,
                   compressed, archived, spoiled, trouble>>

\* The container ends; the next one has an empty disk.
Restart ==
    /\ step' = "idle" /\ todo' = <<>> /\ table' = 1 /\ sending' = {}
    /\ folders' = {} /\ disk' = NoFiles /\ compressed' = {}
    /\ UNCHANGED <<feed, bucket, archived>>

InBucket(year) == \E t \in TableSet : bucket[year][t] # Missing
OnDisk(year) == disk[year]["feed_info"] # Missing

\* By day of publication.
Ordered(versions) ==
    CHOOSE s \in [1..Cardinality(versions) -> versions] :
        \A i, j \in DOMAIN s : i < j => feed[s[i]].day < feed[s[j]].day

\* schedules_to_compress: the last year that has an archive, on disk or in
\* the bucket, tells what is known.  A listing that fails finds nothing, a
\* download that fails leaves no file.
Select ==
    /\ step = "idle" /\ feed # <<>>
    /\ \E unlisted \in SUBSET FeedYears, unread \in SUBSET TableSet :
         LET found == {y \in FeedYears : OnDisk(y) \/ (InBucket(y) /\ y \notin unlisted)}
             last == CHOOSE y \in found : \A z \in found : y >= z
             sync == found # {} /\ ~OnDisk(last)
             synced == IF ~sync THEN disk
                       ELSE [disk EXCEPT ![last] = [t \in TableSet |->
                               IF t \in unread THEN Missing ELSE bucket[last][t]]]
             known == IF found = {} THEN {}
                      ELSE {r.record : r \in synced[last]["feed_info"]}
             new == {v \in Listed : found = {} \/ Year(feed[v].day) >= last}
         IN /\ unlisted \subseteq {y \in FeedYears : InBucket(y) /\ ~OnDisk(y)}
            /\ unread # {} => sync
            /\ trouble' = trouble + Cardinality(unlisted) + Cardinality(unread)
            /\ trouble' <= MaxTrouble
            /\ IF found # {} /\ synced[last]["feed_info"] = Missing
               THEN Restart /\ UNCHANGED spoiled
               ELSE /\ todo' = Ordered(new \ known)
                    /\ folders' = folders \cup
                         {y \in FeedYears : found = {} \/ y >= last}
                    /\ disk' = synced
                    /\ spoiled' = IF unread = {} THEN spoiled ELSE spoiled \cup {last}
                    /\ step' = "compress"
                    /\ UNCHANGED <<feed, table, bucket, sending, compressed, archived>>

Write(year, t, file, files) == [files EXCEPT ![year][t] = file]

\* compress_gtfs_file
CompressTable ==
    /\ step = "compress" /\ todo # <<>>
    /\ LET v == Head(todo)
           t == Tables[table]
           year == Partition(v)
           rows == New({}, v, t, 0)
       IN \/ /\ disk[year][t] # Missing
             /\ disk' = Write(year, t, Merged(disk[year][t], v, t), disk)
          \/ /\ disk[year][t] = Missing /\ year > 0 /\ disk[year - 1][t] # Missing
             /\ year \in folders
             /\ disk' = Write(year, t, Continued(disk[year - 1][t], v, t),
                          Write(year - 1, t, Closed(disk[year - 1][t], v), disk))
          \/ /\ disk[year][t] = Missing
             /\ year > 0 => disk[year - 1][t] = Missing
             /\ rows # {} => year \in folders
             /\ disk' = IF rows = {} THEN disk ELSE Write(year, t, rows, disk)
    /\ IF table < Len(Tables)
       THEN table' = table + 1 /\ UNCHANGED <<todo, compressed>>
       ELSE /\ table' = 1 /\ todo' = Tail(todo)
            /\ compressed' = compressed \cup {Head(todo)}
    /\ UNCHANGED <<feed, step, folders, bucket, sending, archived, spoiled, trouble>>

\* An attempt fails after the file of the year before was written, and the
\* table is tried again.
AttemptFails ==
    /\ step = "compress" /\ todo # <<>> /\ trouble < MaxTrouble
    /\ LET v == Head(todo)
           t == Tables[table]
           year == Partition(v)
       IN /\ year > 0 /\ disk[year][t] = Missing /\ disk[year - 1][t] # Missing
          /\ disk' = Write(year - 1, t, Closed(disk[year - 1][t], v), disk)
    /\ trouble' = trouble + 1
    /\ UNCHANGED <<feed, step, todo, table, folders, bucket, sending,
                   compressed, archived, spoiled>>

\* The folder of the partition is missing: folders are made for the years
\* of publication, and this schedule was published on the last day of one.
NoFolder ==
    /\ step = "compress" /\ todo # <<>>
    /\ LET year == Partition(Head(todo))
           t == Tables[table]
       IN /\ year \notin folders /\ disk[year][t] = Missing
          /\ \/ year > 0 /\ disk[year - 1][t] # Missing
             \/ Content(Head(todo), t) # {}
    /\ Restart /\ UNCHANGED <<spoiled, trouble>>

\* gtfs_to_parquet: the folders of the years of publication.
Prepared == {f \in {Year(feed[v].day) : v \in compressed} \X TableSet :
                disk[f[1]][f[2]] # Missing}

\* Years in which the bucket has a file of a table that has none any more: the
\* archive was begun anew, and nothing replaces this file.
Forsaken == {y \in {f[1] : f \in Prepared} :
                \E t \in TableSet : bucket[y][t] # Missing /\ disk[y][t] = Missing}

StartUpload ==
    /\ step = "compress" /\ todo = <<>>
    /\ step' = "upload"
    /\ sending' = Prepared
    /\ spoiled' = spoiled \cup Forsaken
    /\ UNCHANGED <<feed, todo, table, folders, disk, bucket, compressed,
                   archived, trouble>>

\* The files in any order; the result of upload_file is ignored.
UploadFile(year, t) ==
    /\ step = "upload" /\ <<year, t>> \in sending
    /\ sending' = sending \ {<<year, t>>}
    /\ \/ /\ bucket' = Write(year, t, disk[year][t], bucket)
          /\ UNCHANGED <<spoiled, trouble>>
       \/ /\ trouble < MaxTrouble /\ trouble' = trouble + 1
          /\ spoiled' = spoiled \cup {year}
          /\ UNCHANGED bucket
    /\ UNCHANGED <<feed, step, todo, table, folders, disk, compressed, archived>>

EndLoop ==
    /\ step = "upload" /\ sending = {}
    /\ step' = "idle" /\ archived' = archived \cup compressed /\ compressed' = {}
    /\ UNCHANGED <<feed, todo, table, folders, disk, bucket, sending, spoiled,
                   trouble>>

\* The container is killed, or an exception leaves the loop: a schedule
\* cannot be read, a table cannot be merged, not even at the fourth attempt.
\* In the middle of the uploads it tears the year apart.
Crash ==
    /\ trouble < MaxTrouble /\ trouble' = trouble + 1
    /\ Restart
    /\ spoiled' = spoiled \cup IF sending = Prepared THEN {}
                               ELSE {f[1] : f \in sending}

Next ==
    \/ \E day \in 0..LastDay, records \in SUBSET Records : Publish(day, records)
    \/ Select \/ CompressTable \/ AttemptFails \/ NoFolder \/ StartUpload
    \/ \E year \in Years, t \in TableSet : UploadFile(year, t)
    \/ EndLoop \/ Crash

Spec == Init /\ [][Next]_archiveVars

(***************************************************************************)
(* Properties                                                              *)
(***************************************************************************)

Files == SUBSET [record : Records \cup DOMAIN feed,
                 from : 1..(LastDay + 1), to : 0..(LastDay + Validity)]

\* Type invariant.  A row that never was in force ends the day before it
\* starts: its schedule was replaced on the day of its publication.
TypeOK ==
    /\ step \in {"idle", "compress", "upload"}
    /\ {todo[i] : i \in DOMAIN todo} \cup compressed \cup archived \subseteq DOMAIN feed
    /\ table \in DOMAIN Tables
    /\ folders \cup spoiled \subseteq Years /\ sending \subseteq Years \X TableSet
    /\ \A y \in Years, t \in TableSet : \A file \in {disk[y][t], bucket[y][t]} :
          file # Missing => /\ file \in Files
                            /\ \A r \in file : r.to >= r.from - 1

\* The schedule in force on a day: the last one published before.
InForce(day) ==
    LET before == {v \in Listed : feed[v].day < day}
    IN {v \in before : ActiveTo(v) >= day
                       /\ \A w \in before : feed[w].day <= feed[v].day}

\* On the first day of a year the file lacks the records that the first
\* schedule of that year ended: gtfs_end_date > gtfs_active_date drops them.
Dropped(day) == day = FirstDay(Year(day)) /\ \E v \in DOMAIN feed : feed[v].day = day

\* For each day the archive in the bucket holds the records of the schedule
\* in force and nothing else, once this schedule, and one for the partition
\* of the year, was archived; whatever was published, merged, tried again or
\* begun anew before and since; except for the records above, and for years
\* in which, or in the year before which, a file was not transferred, or
\* stayed in the bucket after the archive was begun anew without the table.
\* It holds them once unless this happened in any year before: where the
\* files of a year do not agree, a schedule that is merged again can leave a
\* record in force twice, and both rows are continued from year to year.
ArchiveIsTimetable ==
    \A day \in 1..(LastDay + Validity) : \A v \in InForce(day) \cap archived :
        LET year == Year(day)
        IN /\ {year - 1, year} \cap spoiled = {} /\ ~Dropped(day)
           /\ \E w \in archived : Partition(w) = year
           => \A t \in TableSet :
                LET file == bucket[year][t]
                    rows == IF file = Missing THEN {} ELSE RowsAt(file, day)
                IN /\ {r.record : r \in rows} = Content(v, t)
                   /\ (\A y \in spoiled : y > year) =>
                         Cardinality(rows) = Cardinality(Content(v, t))
=============================================================================
