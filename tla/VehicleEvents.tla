---------------------------- MODULE VehicleEvents ----------------------------
(***************************************************************************)
(* The rounds of the performance manager on the level of events            *)
(* (performance_manager/l0_gtfs_rt_events.py): the records of the selected *)
(* objects are reduced to one event for each trip and station, put in      *)
(* temp_event_compare, flagged, and merged into vehicle_events by three    *)
(* statements, each a transaction of its own.  A round can fail or be cut  *)
(* short between any two of them.                                          *)
(*                                                                         *)
(* How paths get into metadata_log is the subject of MetadataLog: here a   *)
(* record and its path arrive in one step.                                 *)
(***************************************************************************)
EXTENDS Integers, FiniteSets

CONSTANTS
    Events,      \* trip and station pairs (unique_trip_stop_columns)
    RecordCount, \* bound: records of the feeds
    Moves,       \* the vehicle positions with a vehicle on its way
    Stops,       \* the vehicle positions with a vehicle at the station; the
                 \* other records are trip updates
    EventOf,     \* the event of a record
    TimeOf,      \* vehicle_timestamp, or the predicted arrival
    PathOf,      \* the springboard path of the object a record is in
    Paths,
    DayOf,       \* the day in a path
    PathCount,   \* how many days one round processes
    NoTime,      \* NULL in a timestamp column: later than every time
    MaxTrouble   \* bound: rounds that fail or are cut short

\* Records are numbered in the order of the feed's time.
Records == 1 .. RecordCount

Times == {TimeOf[r] : r \in Records}

ASSUME EventsAssumption ==
    /\ RecordCount \in Nat
    /\ Moves \subseteq Records
    /\ Stops \subseteq Records
    /\ Moves \cap Stops = {}
    /\ EventOf \in [Records -> Events]
    /\ TimeOf \in [Records -> Nat]
    /\ PathOf \in [Records -> Paths]
    /\ DayOf \in [Paths -> Nat]
    /\ PathCount \in Nat \ {0}
    /\ NoTime \in Nat
    /\ \A t \in Times : t < NoTime
    /\ MaxTrouble \in Nat

VARIABLES
    object,    \* object[p]: the records in the object of p
    status,    \* the flags of p in metadata_log
    pc,        \* where process_gtfs_rt_files is
    batch,     \* the paths of the round
    read,      \* read[p]: the records that the round has read from p
    staged,    \* the events with a row in temp_event_compare ...
    temp,      \* ... and these rows
    stored,    \* the events with a row in vehicle_events ...
    events,    \* ... and these rows
    seen,      \* observer: read[p] of the last round that marked p processed
    trouble    \* bound: troubles so far

tables == <<staged, temp, stored, events>>
vars == <<object, status, pc, batch, read, staged, temp, stored, events, seen,
          trouble>>

TimesOrNull == Times \cup {NoTime}
Rows == [move : TimesOrNull, stop : TimesOrNull, tu : TimesOrNull]
Statuses == {"absent", "new", "done", "failed"}

TypeOK ==
    /\ object \in [Paths -> SUBSET Records]
    /\ status \in [Paths -> Statuses]
    /\ pc \in {"idle", "load", "flag", "insert", "stop", "tu", "mark"}
    /\ batch \subseteq Paths
    /\ read \in [Paths -> SUBSET Records]
    /\ staged \subseteq Events
    /\ temp \in [Events -> Rows]
    /\ stored \subseteq Events
    /\ events \in [Events -> Rows]
    /\ seen \in [Paths -> SUBSET Records]
    /\ trouble \in Nat

NoRecords == [p \in Paths |-> {}]
EmptyRow == [move |-> NoTime, stop |-> NoTime, tu |-> NoTime]

Init ==
    /\ object = NoRecords
    /\ status = [p \in Paths |-> "absent"]
    /\ pc = "idle"
    /\ batch = {}
    /\ read = NoRecords
    /\ staged = {}
    /\ temp = [e \in Events |-> EmptyRow]
    /\ stored = {}
    /\ events = [e \in Events |-> EmptyRow]
    /\ seen = NoRecords
    /\ trouble = 0

(***************************************************************************)
(* Reducing records to events                                              *)
(***************************************************************************)

Updates == Records \ (Moves \cup Stops)

\* The records of a set that tell about an event.
About(e, S) == {r \in S : EventOf[r] = e}

\* transform_vp_timestamps keeps the earliest time.
Earliest(S) ==
    CHOOSE t \in {TimeOf[r] : r \in S} \cup {NoTime} : \A r \in S : t <= TimeOf[r]

\* reduce_trip_updates keeps the prediction of the last message.
Last(S) ==
    IF S = {} THEN NoTime ELSE TimeOf[CHOOSE r \in S : \A s \in S : s <= r]

\* The event of a set of records (combine_events).
Reduce(S) == [move |-> Earliest(S \cap Moves),
              stop |-> Earliest(S \cap Stops),
              tu   |-> Last(S \cap Updates)]

(***************************************************************************)
(* Rounds                                                                  *)
(***************************************************************************)

\* A record is published and its path is new again.
Ingest(r) ==
    /\ r \notin object[PathOf[r]]
    /\ object' = [object EXCEPT ![PathOf[r]] = @ \cup {r}]
    /\ status' = [status EXCEPT ![PathOf[r]] = "new"]
    /\ UNCHANGED <<pc, batch, read, seen, trouble>>
    /\ UNCHANGED tables

\* get_gtfs_rt_paths: all new paths of the oldest days.
Select ==
    LET new == {p \in Paths : status[p] = "new"}
        before(p) == {DayOf[q] : q \in {r \in new : DayOf[r] < DayOf[p]}}
    IN  /\ pc = "idle"
        /\ new # {}
        /\ batch' = {p \in new : Cardinality(before(p)) < PathCount}
        /\ pc' = "load"
        /\ UNCHANGED <<object, status, read, seen, trouble>>
        /\ UNCHANGED tables

\* The objects are read, temp_event_compare is truncated and filled.
Load ==
    /\ pc = "load"
    /\ read' = [p \in Paths |-> IF p \in batch THEN object[p] ELSE {}]
    /\ LET records == UNION {object[p] : p \in batch}
       IN  /\ staged' = {EventOf[r] : r \in records}
           /\ temp' = [e \in Events |-> Reduce(About(e, records))]
    /\ pc' = "flag"
    /\ UNCHANGED <<object, status, batch, stored, events, seen, trouble>>

\* The conditions of do_update.  A NULL in the event compares as "not
\* earlier", a NULL in the table as "later".  The second one compares with
\* vp_move_timestamp.
ToUpdate(e) ==
    \/ temp[e].move < events[e].move
    \/ /\ temp[e].stop # NoTime
       /\ events[e].stop = NoTime \/ temp[e].move < events[e].stop
    \/ temp[e].tu # NoTime

\* Mutant: only events that are new or on their way earlier are kept.
FlagMoves ==
    /\ pc = "flag"
    /\ staged' = {e \in staged :
                    e \notin stored \/ temp[e].move < events[e].move}
    /\ pc' = IF staged' = {} THEN "mark" ELSE "insert"
    /\ UNCHANGED <<object, status, batch, read, temp, stored, events, seen,
                   trouble>>

\* flag_insert_update_events: flags, then deletes what has no flag.
FlagEvents ==
    /\ pc = "flag"
    /\ staged' = {e \in staged : e \notin stored \/ ToUpdate(e)}
    /\ pc' = IF staged' = {} THEN "mark" ELSE "insert"
    /\ UNCHANGED <<object, status, batch, read, temp, stored, events, seen,
                   trouble>>

\* Mutant: the insert leaves the events that exist alone.
InsertMoveDoNothing ==
    /\ pc = "insert"
    /\ stored' = stored \cup staged
    /\ events' = [e \in Events |->
                    IF e \in staged \ stored
                    THEN [events[e] EXCEPT !.move = temp[e].move]
                    ELSE events[e]]
    /\ pc' = "stop"
    /\ UNCHANGED <<object, status, batch, read, staged, temp, seen, trouble>>

\* Mutant: the insert takes every move time.
InsertMoveAlways ==
    /\ pc = "insert"
    /\ stored' = stored \cup staged
    /\ events' = [e \in Events |->
                    IF e \in staged /\ temp[e].move # NoTime
                    THEN [events[e] EXCEPT !.move = temp[e].move]
                    ELSE events[e]]
    /\ pc' = "stop"
    /\ UNCHANGED <<object, status, batch, read, staged, temp, seen, trouble>>

\* update_events_from_temp, first statement: inserts every event, without
\* its stop times; an event that exists gets an earlier move time.
InsertMove ==
    /\ pc = "insert"
    /\ stored' = stored \cup staged
    /\ events' = [e \in Events |->
                    IF e \in staged /\ temp[e].move < events[e].move
                    THEN [events[e] EXCEPT !.move = temp[e].move]
                    ELSE events[e]]
    /\ pc' = "stop"
    /\ UNCHANGED <<object, status, batch, read, staged, temp, seen, trouble>>

\* Mutant: the join does not compare the stations.
UpdateStopOfAny ==
    /\ pc = "stop"
    /\ \E f \in staged :
        events' = [e \in Events |->
                    IF e \in staged /\ temp[f].stop < events[e].stop
                    THEN [events[e] EXCEPT !.stop = temp[f].stop]
                    ELSE events[e]]
    /\ pc' = "tu"
    /\ UNCHANGED <<object, status, batch, read, staged, temp, stored, seen,
                   trouble>>

\* Second statement: earlier stop times.
UpdateStop ==
    /\ pc = "stop"
    /\ events' = [e \in Events |->
                    IF e \in staged /\ temp[e].stop < events[e].stop
                    THEN [events[e] EXCEPT !.stop = temp[e].stop]
                    ELSE events[e]]
    /\ pc' = "tu"
    /\ UNCHANGED <<object, status, batch, read, staged, temp, stored, seen,
                   trouble>>

\* Mutant: the first prediction is kept.
UpdateTuOnce ==
    /\ pc = "tu"
    /\ events' = [e \in Events |->
                    IF e \in staged /\ events[e].tu = NoTime
                    THEN [events[e] EXCEPT !.tu = temp[e].tu]
                    ELSE events[e]]
    /\ pc' = "mark"
    /\ UNCHANGED <<object, status, batch, read, staged, temp, stored, seen,
                   trouble>>

\* Third statement: the prediction of this round, earlier or later.
UpdateTu ==
    /\ pc = "tu"
    /\ events' = [e \in Events |->
                    IF e \in staged /\ temp[e].tu # NoTime
                    THEN [events[e] EXCEPT !.tu = temp[e].tu]
                    ELSE events[e]]
    /\ pc' = "mark"
    /\ UNCHANGED <<object, status, batch, read, staged, temp, stored, seen,
                   trouble>>

\* The end of a round: its paths get these flags.
Mark(flags) ==
    /\ status' = [p \in Paths |-> IF p \in batch THEN flags ELSE status[p]]
    /\ pc' = "idle"
    /\ batch' = {}
    /\ read' = NoRecords
    /\ UNCHANGED object
    /\ UNCHANGED tables

MarkProcessed ==
    /\ pc = "mark"
    /\ Mark("done")
    /\ seen' = [p \in Paths |-> IF p \in batch THEN read[p] ELSE seen[p]]
    /\ UNCHANGED trouble

Trouble ==
    /\ trouble < MaxTrouble
    /\ trouble' = trouble + 1

\* Mutant: a failed round puts the column's name where its flag belongs.
MarkFailedWrongFlag ==
    /\ pc # "idle"
    /\ Trouble
    /\ Mark("process_fail")
    /\ UNCHANGED seen

\* A statement raises, or one of process_trips or of the metrics.
MarkFailed ==
    /\ pc # "idle"
    /\ Trouble
    /\ Mark("failed")
    /\ UNCHANGED seen

\* The manager is killed: the paths stay as they are in metadata_log.
Crash ==
    /\ pc # "idle"
    /\ Trouble
    /\ pc' = "idle"
    /\ batch' = {}
    /\ read' = NoRecords
    /\ UNCHANGED <<object, status, seen>>
    /\ UNCHANGED tables

Next ==
    \/ \E r \in Records : Ingest(r)
    \/ Select \/ Load \/ FlagEvents
    \/ InsertMove \/ UpdateStop \/ UpdateTu
    \/ MarkProcessed \/ MarkFailed \/ Crash

Spec == Init /\ [][Next]_vars

(***************************************************************************)
(* Properties                                                              *)
(***************************************************************************)

Processed == UNION {seen[p] : p \in Paths}

\* The move time of an event is never later than a processed report of it,
\* whatever the order of the rounds and wherever earlier rounds broke off.
MoveIsEarliest ==
    \A r \in Processed \cap Moves : events[EventOf[r]].move <= TimeOf[r]

\* The same for stop times (performance_manager/README.md, "Event
\* Compression": the earliest vehicle_timestamp is saved).
StopIsEarliest ==
    \A r \in Processed \cap Stops : events[EventOf[r]].stop <= TimeOf[r]

\* ... which the code does when the same object also reports that the
\* vehicle was on its way to the station before.
StopIsEarliestAfterMove ==
    \A p \in Paths : \A r \in seen[p] \cap Stops :
        (\E m \in seen[p] \cap Moves :
            EventOf[m] = EventOf[r] /\ TimeOf[m] <= TimeOf[r])
          => events[EventOf[r]].stop <= TimeOf[r]

\* The predicted arrival is never older than the last processed prediction,
\* for events whose predictions are in one object: neither a late record
\* nor a repeated round brings an older one back.
PredictionIsNotOutdated ==
    \A e \in Events : \A p \in Paths :
        LET updates == About(e, Updates)
            last == {r \in seen[p] \cap updates :
                        \A s \in seen[p] \cap updates : s <= r}
        IN  (\A r \in updates : PathOf[r] = p)
              => \A r \in last : \E s \in object[p] \cap updates :
                    s >= r /\ events[e].tu = TimeOf[s]

\* No step removes an event or moves one of its times to later.
NoLaterTimes ==
    /\ stored \subseteq stored'
    /\ \A e \in Events : /\ events'[e].move <= events[e].move
                         /\ events'[e].stop <= events[e].stop

TimesNeverGrow == [][NoLaterTimes]_vars

\* A row of times that records of a set have reported for an event.
ReportedBy(S, row, e) ==
    LET among(t, K) == t = NoTime \/ \E r \in About(e, S) \cap K : TimeOf[r] = t
    IN  among(row.move, Moves) /\ among(row.stop, Stops) /\ among(row.tu, Updates)

Published == UNION {object[p] : p \in Paths}

\* A time in vehicle_events was reported for this event, and an event
\* without a row has no time: rounds never mix up events or kinds of record.
TimesAreReported ==
    \A e \in Events : /\ ReportedBy(Published, events[e], e)
                      /\ e \in stored \/ events[e] = EmptyRow
=============================================================================
