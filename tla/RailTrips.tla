------------------------------ MODULE RailTrips ------------------------------
(***************************************************************************)
(* The second half of a round of the performance manager: trips and        *)
(* metrics of one service date (performance_manager/l1_rt_trips.py,        *)
(* l1_rt_metrics.py, l1_cte_statements.py).                                *)
(*                                                                         *)
(* A round merges the events of some objects into vehicle_events and       *)
(* brings the columns that are derived from them up to date.  Each         *)
(* statement is a transaction of its own.  Most of them look only at trips *)
(* with a row left in temp_event_compare, some at all trips of the date.   *)
(*                                                                         *)
(* The merge itself is the subject of VehicleEvents, the choice and the    *)
(* load of static schedules that of StaticSchedule.                        *)
(***************************************************************************)
EXTENDS Integers, FiniteSets, SequencesExt

CONSTANTS
    Trips,        \* the realtime trips
    Stations,     \* parent stations
    RouteOf,      \* route_id of a trip
    DirectionOf,  \* direction_id of a trip
    FeedStartOf,  \* start_time of a trip in the feed, or Null
    SequenceOf,   \* stop_sequence of a trip at a station
    Objects,      \* the objects of the feed
    Reports,      \* what they say: object, trip, station, move, stop, tu
    GreenRoutes, Ashmont, Braintree,  \* routes, stations of the Red branches
    Schedule,     \* static trips of each version: trip, route, direction,
                  \* start, stops, typicality
    Feed,         \* first and last date of each version
    Date,         \* the service date
    Null,         \* later than all times, larger than all numbers
    MaxTrouble    \* bound: rounds that fail or are cut short

Versions == DOMAIN Schedule
Times == 0 .. Null

\* A report has a time: records without one are not read
\* (vehicle_position_filters, trip_update_filters).
ASSUME RailTripsAssumption ==
    /\ IsFiniteSet(Stations)
    /\ FeedStartOf \in [Trips -> Times]
    /\ SequenceOf \in [Trips \X Stations -> Nat]
    /\ \A r \in Reports :
          /\ r.object \in Objects
          /\ {r.move, r.stop, r.tu} \subseteq Times
          /\ {r.move, r.stop, r.tu} # {Null}
    /\ Schedule \in Seq(Range(Schedule)) /\ 1 \in Versions
    /\ \A v \in Versions :
          /\ \A s \in Schedule[v] : /\ s.start \in Times /\ s.stops \in Seq(Stations)
                                   /\ Len(s.stops) < Null
          /\ Feed[v].first <= Date /\ Date < Feed[v].last
    /\ Null \in Nat /\ MaxTrouble \in Nat

VARIABLES
    loaded,     \* versions 1..loaded are in the database
    pc,         \* next statement of the round
    batch,      \* objects of the round
    done,       \* objects marked as processed
    staged,     \* rows of temp_event_compare, by trip and station ...
    temp,       \* ... and their times
    version,    \* static_version_key of these rows
    stored,     \* rows of vehicle_events ...
    events,     \* ... their times
    derived,    \* ... and their computed columns
    trips,      \* vehicle_trips
    trouble,
    unfinished, \* observer: trips of a round that ended after the merge
    outdated,   \* observer: trips that got another version from a round
                \* without events of them
    torn        \* observer: a round ended between two versions

vars == <<loaded, pc, batch, done, staged, temp, version, stored, events,
          derived, trips, trouble, unfinished, outdated, torn>>
observers == <<trouble, unfinished, outdated, torn>>

Keys == Trips \X Stations
TripOf(k) == k[1]
StationOf(k) == k[2]

NoTimes == [move |-> Null, stop |-> Null, tu |-> Null]
NoColumns == [prev |-> <<>>, next |-> <<>>, canonical |-> Null, sync |-> Null,
              travel |-> Null, dwell |-> Null, trunk |-> Null, branch |-> Null]
NoTrip == [known |-> FALSE, version |-> 0, start |-> Null, trunk |-> "none",
           branch |-> "none",
           count |-> 0, guess |-> "none", exact |-> FALSE]

Least(S) == CHOOSE n \in S \cup {Null} : \A m \in S : n <= m

----------------------------------------------------------------------------
(* The static schedule *)

\* The trigger on static_trips: Braintree goes first.
StaticBranch(s) ==
    IF s.route \in GreenRoutes THEN s.route
    ELSE IF s.route # "Red" THEN "none"
    ELSE IF Range(s.stops) \cap Braintree # {} THEN "Red-B"
    ELSE IF Range(s.stops) \cap Ashmont # {} THEN "Red-A" ELSE "none"

TrunkOf(route) == IF route \in GreenRoutes THEN "Green" ELSE route
RouteOrBranch(branch, route) == IF branch = "none" THEN TrunkOf(route) ELSE branch
StaticRoute(s) == RouteOrBranch(StaticBranch(s), s.route)

\* Dates of a version in service_id_by_date_and_route: up to the next start
\* among the versions in the database, the last date not included.
LastDate(v, n) ==
    LET later == {Feed[w].first : w \in {u \in 1..n : Feed[u].first > Feed[v].first}}
    IN (IF later = {} THEN Feed[v].last ELSE Least(later)) - 1

InService(v, n) == Feed[v].first <= Date /\ Date <= LastDate(v, n)

\* canon_trips: for each route and direction the pattern with the greater
\* typicality, 1 and 5 only.
CanonTrips(v) ==
    LET typical == {s \in Schedule[v] : s.typicality \in {1, 5}}
        same(s) == {u \in typical : /\ StaticRoute(u) = StaticRoute(s)
                                    /\ u.direction = s.direction}
    IN {CHOOSE u \in same(s) : \A w \in same(s) : u.typicality >= w.typicality :
            s \in typical}

\* static_canon: the stations of these trips, numbered from 1.
StaticCanon ==
    [v \in Versions |->
        UNION {{[direction |-> s.direction, trunk |-> TrunkOf(s.route),
                 route |-> StaticRoute(s), station |-> s.stops[i], seq |-> i] :
                    i \in DOMAIN s.stops} : s \in CanonTrips(v)}]

\* zero_points: the station that most branches and directions pass, then the
\* one with the widest range of numbers.
ZeroPoints(canon) ==
    LET rows(trunk, station) ==
            {c \in canon : c.trunk = trunk /\ c.station = station}
        width(trunk, station) ==
            LET seqs == {c.seq : c \in rows(trunk, station)}
            IN (CHOOSE n \in seqs : \A m \in seqs : n >= m) - Least(seqs)
        beats(trunk, a, b) ==
            \/ Cardinality(rows(trunk, a)) > Cardinality(rows(trunk, b))
            \/ /\ Cardinality(rows(trunk, a)) = Cardinality(rows(trunk, b))
               /\ width(trunk, a) >= width(trunk, b)
        on(trunk) == {c.station : c \in {d \in canon : d.trunk = trunk}}
    IN [trunk \in {c.trunk : c \in canon} |->
            CHOOSE a \in on(trunk) : \A b \in on(trunk) : beats(trunk, a, b)]

\* sync_values: numbers relative to the zero point, shifted so that those of
\* a trunk and direction start with its least number.
SyncValues(canon) ==
    LET zero == ZeroPoints(canon)
        adjusts(c) == {d.seq : d \in {e \in canon :
                          /\ e.direction = c.direction /\ e.route = c.route
                          /\ e.station = zero[e.trunk]}}
        near(c) == {d \in canon : d.direction = c.direction /\ d.trunk = c.trunk}
        minSeq(c) == Least({d.seq : d \in {e \in near(c) : adjusts(e) # {}}})
        offsets(d) == {a - d.seq : a \in adjusts(d)}
        \* the greatest offset is the least difference, negated
        all(c) == UNION {offsets(d) : d \in near(c)}
        shift(c) == CHOOSE n \in all(c) : \A m \in all(c) : n >= m
    IN UNION {{[direction |-> c.direction, trunk |-> c.trunk,
                station |-> c.station,
                sync |-> c.seq - a + shift(c) + minSeq(c)] :
                    a \in adjusts(c)} : c \in canon}

StaticSync == [v \in Versions |-> SyncValues(StaticCanon[v])]

\* A schedule in which a station has one number on each canonical trip and
\* one synchronised number on each trunk.
NumbersAreUnique ==
    \A v \in Versions :
        /\ \A c, d \in StaticCanon[v] :
              c.direction = d.direction /\ c.route = d.route /\ c.station = d.station
                => c.seq = d.seq
        /\ \A r, s \in StaticSync[v] :
              r.direction = s.direction /\ r.trunk = s.trunk /\ r.station = s.station
                => r.sync = s.sync

----------------------------------------------------------------------------
(* Reading vehicle_events *)

KeysOf(t) == {k \in stored : TripOf(k) = t}
StagedTrips == {TripOf(k) : k \in staged}
Known == {t \in Trips : trips[t].known}

\* rt_trips_sub: events that a vehicle was seen at.
Real(k) == k \in stored /\ (events[k].move # Null \/ events[k].stop # Null)
RealKeys(t) == {k \in KeysOf(t) : Real(k)}

\* An event without vehicle position has no stop_sequence: it sorts last.
Sequence == [k \in Keys |-> IF Real(k) THEN SequenceOf[k] ELSE Null]

Coalesce(a, b) == IF a # Null THEN a ELSE b
Stopped(k) == Coalesce(events[k].stop, events[k].tu)
Seen == [k \in Keys |-> Coalesce(events[k].move, events[k].stop)]

\* lead and lag in a set of rows ordered by a key; <<>> without one.
Lead(S, k, by) ==
    LET later == {j \in S : by[j] > by[k]}
    IN IF later = {} THEN <<>>
       ELSE CHOOSE j \in later : \A i \in later : by[j] <= by[i]
Lag(S, k, by) ==
    LET earlier == {j \in S : by[j] < by[k]}
    IN IF earlier = {} THEN <<>>
       ELSE CHOOSE j \in earlier : \A i \in earlier : by[j] >= by[i]

\* get_red_branch: Ashmont goes first.
RealtimeBranch(t) ==
    LET stops == {StationOf(k) : k \in KeysOf(t)}
    IN IF RouteOf[t] \in GreenRoutes THEN RouteOf[t]
       ELSE IF RouteOf[t] # "Red" THEN "none"
       ELSE IF stops \cap Ashmont # {} THEN "Red-A"
       ELSE IF stops \cap Braintree # {} THEN "Red-B" ELSE "none"

StopCount(t) == Cardinality(RealKeys(t))

PrevStop(k) == Lag(KeysOf(TripOf(k)), k, Sequence)
NextStop(k) == Lead(KeysOf(TripOf(k)), k, Sequence)

\* The metrics; Null where the statement does not touch the row.
TravelTime(k) ==
    IF /\ Real(k) /\ Stopped(k) # Null /\ events[k].move # Null
       /\ Stopped(k) > events[k].move
    THEN Stopped(k) - events[k].move ELSE Null

\* first_stop_flag: by the static trip, if it passes the station not later
\* than the realtime trip does, else by the events.
FirstStop(k, n) ==
    LET t == TripOf(k)
        rank == Cardinality({j \in RealKeys(t) : SequenceOf[j] <= SequenceOf[k]})
        ranks == UNION {{i \in DOMAIN s.stops : s.stops[i] = StationOf(k) /\ i <= rank} :
                     s \in {u \in Schedule[trips[t].version] :
                              u.trip = trips[t].guess /\ InService(trips[t].version, n)}}
    IN IF ranks = {} THEN rank = 1 ELSE 1 \in ranks

DwellTime(k, n) ==
    LET rows == {j \in RealKeys(TripOf(k)) : ~FirstStop(j, n)}
        next == Lead(rows, k, Seen)
    IN IF /\ k \in rows /\ trips[TripOf(k)].count > 1
          /\ next # <<>> /\ Stopped(k) # Null
       THEN IF events[next].move # Null /\ events[next].move > Stopped(k)
            THEN events[next].move - Stopped(k) ELSE Null
       ELSE Null

\* next_station_move
Departure ==
    [k \in Keys |-> LET next == Lead(RealKeys(TripOf(k)), k, Seen)
                    IN IF next = <<>> THEN Null ELSE events[next].move]

\* The time since the departure before it among some events.
Headway(k, rows) ==
    LET before == Lag(rows, k, Departure)
    IN IF k \in rows /\ Departure[k] # Null /\ before # <<>>
       THEN Departure[k] - Departure[before] ELSE Null

\* The events at the same station and in the same direction, of trips with
\* more than one stop.
Alongside(k) ==
    {j \in stored : /\ Real(j) /\ StationOf(j) = StationOf(k)
                    /\ DirectionOf[TripOf(j)] = DirectionOf[TripOf(k)]
                    /\ trips[TripOf(j)].count > 1}

TrunkHeadway(k) ==
    Headway(k, {j \in Alongside(k) :
                  trips[TripOf(j)].trunk = trips[TripOf(k)].trunk})

BranchHeadway(k) ==
    IF trips[TripOf(k)].branch = "none" THEN Null
    ELSE Headway(k, {j \in Alongside(k) :
                       trips[TripOf(j)].branch = trips[TripOf(k)].branch})

\* The numbers of the canonical trip of a trip's branch or trunk.
CanonicalSequences(k) ==
    LET row == trips[TripOf(k)]
    IN {c.seq : c \in {d \in StaticCanon[row.version] :
           /\ d.direction = DirectionOf[TripOf(k)]
           /\ d.route = IF row.branch = "none" THEN row.trunk ELSE row.branch
           /\ d.station = StationOf(k)}}

SyncSequences(k) ==
    LET row == trips[TripOf(k)]
    IN {s.sync : s \in {r \in StaticSync[row.version] :
           /\ r.direction = DirectionOf[TripOf(k)] /\ r.trunk = row.trunk
           /\ r.station = StationOf(k)}}

\* The static trips a trip may be matched with, and the closest of them.
Candidates(t, n) ==
    {s \in Schedule[trips[t].version] :
        /\ InService(trips[t].version, n)
        /\ s.direction = DirectionOf[t]
        /\ StaticRoute(s) = IF trips[t].branch = "none" THEN trips[t].trunk
                            ELSE trips[t].branch}

Distance(t, s) ==
    IF trips[t].start >= s.start THEN trips[t].start - s.start
    ELSE s.start - trips[t].start

Closest(t, n) ==
    {s.trip : s \in {u \in Candidates(t, n) :
        \A w \in Candidates(t, n) : Distance(t, u) <= Distance(t, w)}}

----------------------------------------------------------------------------
Init ==
    /\ loaded = 1 /\ pc = "idle" /\ batch = {} /\ done = {}
    /\ staged = {} /\ temp = [k \in Keys |-> NoTimes] /\ version = 0
    /\ stored = {} /\ events = [k \in Keys |-> NoTimes]
    /\ derived = [k \in Keys |-> NoColumns]
    /\ trips = [t \in Trips |-> NoTrip]
    /\ trouble = 0 /\ unfinished = {} /\ outdated = {} /\ torn = FALSE

\* Another version that is valid on the date; process_static_tables runs
\* before the round.
LoadSchedule ==
    /\ pc = "idle" /\ loaded + 1 \in Versions
    /\ loaded' = loaded + 1
    /\ UNCHANGED <<pc, batch, done, staged, temp, version, stored, events,
                   derived, trips, observers>>

\* The events of some objects in temp_event_compare, with the version that
\* was published last.
LoadTemp ==
    /\ pc = "idle"
    /\ \E files \in SUBSET (Objects \ done) \ {{}} :
         LET said(k) == {r \in Reports : r.object \in files
                                         /\ r.trip = TripOf(k)
                                         /\ r.station = StationOf(k)}
         IN /\ batch' = files
            /\ staged' = {k \in Keys : said(k) # {}}
            /\ temp' = [k \in Keys |-> [move |-> Least({r.move : r \in said(k)}),
                                        stop |-> Least({r.stop : r \in said(k)}),
                                        tu |-> Least({r.tu : r \in said(k)})]]
    /\ version' = loaded
    /\ pc' = "trips"
    /\ UNCHANGED <<loaded, done, stored, events, derived, trips, observers>>

At(step, next) ==
    /\ pc = step /\ pc' = next
    /\ UNCHANGED <<loaded, batch, done, temp, version>>

UnchangedEvents == UNCHANGED <<staged, stored, events, derived>>
UnchangedTrips == UNCHANGED <<trips, observers>>

SetTrips(S, row(_)) ==
    trips' = [t \in Trips |-> IF t \in S THEN row(t) ELSE trips[t]]
SetColumns(S, row(_)) ==
    derived' = [k \in Keys |-> IF k \in S THEN row(k) ELSE derived[k]]

\* Mutant: only trips with a start time.
LoadNewTripsWithStart ==
    /\ At("trips", "flag")
    /\ LET new(t) == [NoTrip EXCEPT !.known = TRUE, !.version = version,
                                    !.start = FeedStartOf[t]]
       IN SetTrips({t \in StagedTrips \ Known : FeedStartOf[t] # Null}, new)
    /\ UnchangedEvents /\ UNCHANGED observers

\* load_new_trip_data: trips that are there already stay as they are.
LoadNewTrips ==
    /\ At("trips", "flag")
    /\ LET new(t) == [NoTrip EXCEPT !.known = TRUE, !.version = version,
                                    !.start = FeedStartOf[t]]
       IN SetTrips(StagedTrips \ Known, new)
    /\ UnchangedEvents /\ UNCHANGED observers

ToUpdate(k) ==
    \/ temp[k].move < events[k].move
    \/ /\ temp[k].stop # Null
       /\ events[k].stop = Null \/ temp[k].move < events[k].stop
    \/ temp[k].tu # Null

\* flag_insert_update_events: a round without changes goes no further.
FlagEvents ==
    LET kept == {k \in staged : k \notin stored \/ ToUpdate(k)}
    IN /\ At("flag", IF kept = {} THEN "mark" ELSE "merge")
       /\ staged' = kept
       /\ UNCHANGED <<stored, events, derived>> /\ UnchangedTrips

\* The three statements of update_events_from_temp.
MergeEvents ==
    /\ At("merge", "version")
    /\ stored' = stored \cup staged
    /\ events' = [k \in Keys |->
          IF k \notin staged THEN events[k]
          ELSE [move |-> Least({temp[k].move, events[k].move}),
                stop |-> Least({temp[k].stop, events[k].stop}),
                tu |-> Coalesce(temp[k].tu, events[k].tu)]]
    /\ UNCHANGED <<staged, derived>> /\ UnchangedTrips

\* Mutant: only the trips with new events.
UpdateVersionOfStaged ==
    /\ At("version", "branch")
    /\ LET row(t) == [trips[t] EXCEPT !.version = version]
       IN SetTrips(StagedTrips, row)
    /\ torn' = FALSE
    /\ UnchangedEvents /\ UNCHANGED <<trouble, unfinished, outdated>>

\* update_static_version_key: all trips of the date.
UpdateVersion ==
    /\ At("version", "branch")
    /\ LET row(t) == [trips[t] EXCEPT !.version = version]
       IN SetTrips(Known, row)
    /\ outdated' = outdated \cup {t \in Known : trips[t].version # version}
    /\ torn' = FALSE
    /\ UnchangedEvents /\ UNCHANGED <<trouble, unfinished>>

\* update_branch_trunk_route_id
UpdateBranch ==
    /\ At("branch", "counts")
    /\ LET row(t) == [trips[t] EXCEPT !.branch = RealtimeBranch(t),
                                      !.trunk = TrunkOf(RouteOf[t])]
       IN SetTrips(StagedTrips, row)
    /\ UnchangedEvents /\ UNCHANGED observers

\* update_trip_stop_counts
UpdateStopCounts ==
    /\ At("counts", "links")
    /\ LET row(t) == [trips[t] EXCEPT !.count = StopCount(t)]
       IN SetTrips({t \in StagedTrips : StopCount(t) > 0}, row)
    /\ UnchangedEvents /\ UNCHANGED observers

\* update_prev_next_trip_stop: all events of these trips.
UpdateLinks ==
    /\ At("links", "exact")
    /\ LET row(k) == [derived[k] EXCEPT !.prev = PrevStop(k),
                                        !.next = NextStop(k)]
       IN SetColumns({k \in stored : TripOf(k) \in StagedTrips}, row)
    /\ UNCHANGED <<staged, stored, events>> /\ UnchangedTrips

\* update_static_trip_id_guess_exact: with a start time in the feed only.
MatchExact ==
    /\ At("exact", "starts")
    /\ LET scheduled == {s.trip : s \in Schedule[version]}
           row(t) == [trips[t] EXCEPT !.guess = t, !.exact = TRUE]
       IN SetTrips({t \in StagedTrips : t \in scheduled /\ FeedStartOf[t] # Null},
                   row)
    /\ UnchangedEvents /\ UNCHANGED observers

MissingStart == {t \in StagedTrips : FeedStartOf[t] = Null /\ trips[t].start = Null}

\* update_start_times, first for scheduled trips ...
ScheduledStarts ==
    /\ At("starts", "added")
    /\ LET static(t) == {s.start : s \in {u \in Schedule[trips[t].version] : u.trip = t}}
           row(t) == [trips[t] EXCEPT !.start = Least(static(t))]
       IN SetTrips(MissingStart, row)
    /\ UnchangedEvents /\ UNCHANGED observers

\* ... then from the events of those that still have none.
AddedStarts ==
    /\ At("added", "canonical")
    /\ LET first(t) == Coalesce(Least({events[k].move : k \in KeysOf(t)}),
                       Coalesce(Least({events[k].stop : k \in KeysOf(t)}),
                                Least({events[k].tu : k \in KeysOf(t)})))
           row(t) == [trips[t] EXCEPT !.start = first(t)]
       IN SetTrips(MissingStart, row)
    /\ UnchangedEvents /\ UNCHANGED observers

\* The events of the date in trips with the version of the round.
OfVersion == {k \in stored : trips[TripOf(k)].version = version}

\* update_stop_sequence, two statements
UpdateCanonical ==
    /\ At("canonical", "sync")
    /\ LET row(k) == [derived[k] EXCEPT !.canonical = Least(CanonicalSequences(k))]
       IN SetColumns({k \in OfVersion : CanonicalSequences(k) # {}}, row)
    /\ UNCHANGED <<staged, stored, events>> /\ UnchangedTrips

UpdateSync ==
    /\ At("sync", "backup")
    /\ \E sync \in [{k \in OfVersion : SyncSequences(k) # {}} ->
                       UNION {SyncSequences(k) : k \in OfVersion}] :
         /\ \A k \in DOMAIN sync : sync[k] \in SyncSequences(k)
         /\ LET row(k) == [derived[k] EXCEPT !.sync = sync[k]]
            IN SetColumns(DOMAIN sync, row)
    /\ UNCHANGED <<staged, stored, events>> /\ UnchangedTrips

\* Mutant: trips that were matched before are left alone.
BackupMatchOnce ==
    /\ At("backup", "travel")
    /\ LET open == {t \in StagedTrips : trips[t].guess = "none"
                                        /\ Closest(t, loaded) # {}}
           row(t) == [trips[t] EXCEPT !.guess = CHOOSE id \in Closest(t, loaded) : TRUE]
       IN SetTrips(open, row)
    /\ outdated' = outdated \ StagedTrips
    /\ UnchangedEvents /\ UNCHANGED <<trouble, unfinished, torn>>

\* backup_rt_static_trip_match: any of the closest.
BackupMatch ==
    /\ At("backup", "travel")
    /\ LET open == {t \in StagedTrips : ~trips[t].exact
                                        /\ Closest(t, loaded) # {}}
       IN \E guess \in [open -> UNION {Closest(t, loaded) : t \in open}] :
            /\ \A t \in open : guess[t] \in Closest(t, loaded)
            /\ LET row(t) == [trips[t] EXCEPT !.guess = guess[t]]
               IN SetTrips(open, row)
    /\ outdated' = outdated \ StagedTrips
    /\ UnchangedEvents /\ UNCHANGED <<trouble, unfinished, torn>>

\* update_metrics_columns: the events of all trips of the date.
UpdateTravel ==
    /\ At("travel", "dwell")
    /\ LET row(k) == [derived[k] EXCEPT !.travel = TravelTime(k)]
       IN SetColumns({k \in stored : TravelTime(k) # Null}, row)
    /\ UNCHANGED <<staged, stored, events>> /\ UnchangedTrips

UpdateDwell ==
    /\ At("dwell", "branchHeadway")
    /\ LET row(k) == [derived[k] EXCEPT !.dwell = DwellTime(k, loaded)]
       IN SetColumns({k \in stored : DwellTime(k, loaded) # Null}, row)
    /\ UNCHANGED <<staged, stored, events>> /\ UnchangedTrips

UpdateBranchHeadway ==
    /\ At("branchHeadway", "trunkHeadway")
    /\ LET row(k) == [derived[k] EXCEPT !.branch = BranchHeadway(k)]
       IN SetColumns({k \in stored : BranchHeadway(k) # Null}, row)
    /\ UNCHANGED <<staged, stored, events>> /\ UnchangedTrips

\* Mutant: only the events of the trips with new events.
UpdateTrunkHeadwayOfStaged ==
    /\ At("trunkHeadway", "mark")
    /\ LET row(k) == [derived[k] EXCEPT !.trunk = TrunkHeadway(k)]
       IN SetColumns({k \in stored : /\ TripOf(k) \in StagedTrips
                                     /\ TrunkHeadway(k) # Null}, row)
    /\ UNCHANGED <<staged, stored, events>> /\ UnchangedTrips

UpdateTrunkHeadway ==
    /\ At("trunkHeadway", "mark")
    /\ LET row(k) == [derived[k] EXCEPT !.trunk = TrunkHeadway(k)]
       IN SetColumns({k \in stored : TrunkHeadway(k) # Null}, row)
    /\ UNCHANGED <<staged, stored, events>> /\ UnchangedTrips

MarkProcessed ==
    /\ pc = "mark" /\ pc' = "idle"
    /\ done' = done \cup batch
    /\ unfinished' = unfinished \ StagedTrips
    /\ UNCHANGED <<loaded, batch, temp, version, trips, trouble, outdated, torn>>
    /\ UnchangedEvents

\* A statement fails and the objects are marked as failed, or the container
\* is killed and they stay as they are.
CutShort ==
    /\ pc \notin {"idle", "mark"} /\ trouble < MaxTrouble
    /\ pc' = "idle" /\ trouble' = trouble + 1
    /\ done' \in {done, done \cup batch}
    /\ unfinished' = IF pc \in {"trips", "flag", "merge"} THEN unfinished
                     ELSE unfinished \cup StagedTrips
    /\ torn' = (torn \/ pc \in {"flag", "merge", "version"})
    /\ UNCHANGED <<loaded, batch, temp, version, trips, outdated>>
    /\ UnchangedEvents

Next ==
    \/ LoadSchedule \/ LoadTemp \/ LoadNewTrips \/ FlagEvents \/ MergeEvents
    \/ UpdateVersion \/ UpdateBranch \/ UpdateStopCounts \/ UpdateLinks
    \/ MatchExact \/ ScheduledStarts \/ AddedStarts \/ UpdateCanonical
    \/ UpdateSync \/ BackupMatch \/ UpdateTravel \/ UpdateDwell
    \/ UpdateBranchHeadway \/ UpdateTrunkHeadway \/ MarkProcessed \/ CutShort

Spec == Init /\ [][Next]_vars

(***************************************************************************)
(* Properties                                                              *)
(***************************************************************************)

Steps ==
    {"idle", "trips", "flag", "merge", "version", "branch", "counts", "links",
     "exact", "starts", "added", "canonical", "sync", "backup", "travel",
     "dwell", "branchHeadway", "trunkHeadway", "mark"}

EventTimes == [move : Times, stop : Times, tu : Times]

Columns ==
    LET Links == Keys \cup {<<>>}
        syncs == {r.sync : r \in UNION Range(StaticSync)}
    IN [prev : Links, next : Links, canonical : Nat, sync : syncs \cup {Null},
        travel : Nat, dwell : Nat, trunk : Nat, branch : Nat]

TripRows ==
    LET scheduled == {s.trip : s \in UNION Range(Schedule)}
        trunks == {TrunkOf(RouteOf[t]) : t \in Trips}
        branches == GreenRoutes \cup {"Red-A", "Red-B"}
    IN [known : BOOLEAN, version : Versions \cup {0}, start : Times,
        trunk : trunks \cup {"none"}, branch : branches \cup {"none"},
        count : Nat, guess : Trips \cup scheduled \cup {"none"},
        exact : BOOLEAN]

\* Type invariant: the values of the columns, and every event has its trip.
TypeOK ==
    /\ loaded \in Versions /\ version \in Versions \cup {0}
    /\ pc \in Steps /\ trouble \in Nat /\ torn \in BOOLEAN
    /\ batch \subseteq Objects /\ done \subseteq Objects
    /\ staged \subseteq Keys /\ temp \in [Keys -> EventTimes]
    /\ stored \subseteq Keys /\ events \in [Keys -> EventTimes]
    /\ derived \in [Keys -> Columns]
    /\ trips \in [Trips -> TripRows]
    /\ unfinished \subseteq Known /\ outdated \subseteq Known
    /\ \A k \in stored : trips[TripOf(k)].known

Saved(column, value) == value # Null => column = value

\* Between rounds the columns that statements derive from the events are
\* those that the events of the date give now, in whatever pieces and order
\* these came: neighbours on the trip, branch and number of stops, for trips
\* whose rounds ended well; stop sequences (the same for a station in every
\* branch of its trunk) and metrics, which depend on other trips as well,
\* when all rounds did.  A value that is no longer given stays.
DerivedFollowsEvents ==
    pc = "idle" =>
        /\ \A t \in Known \ unfinished :
             /\ \A k \in KeysOf(t) : /\ derived[k].prev = PrevStop(k)
                                     /\ derived[k].next = NextStop(k)
             /\ KeysOf(t) # {} => /\ trips[t].branch = RealtimeBranch(t)
                                  /\ trips[t].count = StopCount(t)
        /\ unfinished = {} => \A k \in stored :
             LET n == trips[TripOf(k)].version
             IN /\ \A s \in CanonicalSequences(k) : derived[k].canonical = s
                /\ \A s \in SyncSequences(k) : derived[k].sync = s
                /\ Saved(derived[k].travel, TravelTime(k))
                /\ Saved(derived[k].dwell, DwellTime(k, n))
                /\ Saved(derived[k].trunk, TrunkHeadway(k))
                /\ Saved(derived[k].branch, BranchHeadway(k))

\* A trip without an exact match has the static trip of its branch and
\* direction that starts closest to it, once its branch is known and although
\* its start time may come from its events; except trips that a cut short
\* round left, or that got another version while no events of them came.
MatchIsClosest ==
    pc = "idle" => \A t \in Known \ (unfinished \cup outdated) :
        LET n == trips[t].version
        IN KeysOf(t) # {} /\ ~trips[t].exact /\ Candidates(t, n) # {} =>
             trips[t].start # Null /\ trips[t].guess \in Closest(t, n)

\* "each day only uses one key" (update_static_version_key): all trips of
\* the date refer to the same version, unless a round ended before it.
OneVersionPerDay ==
    pc = "idle" /\ ~torn =>
        \A t, u \in Known : trips[t].version = trips[u].version
=============================================================================
