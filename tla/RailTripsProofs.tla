--------------------------- MODULE RailTripsProofs ---------------------------
(***************************************************************************)
(* Proofs about RailTrips, for any trips, reports and schedules, any       *)
(* grouping of the objects into rounds and any number of rounds that end   *)
(* early: the types of all columns, one version of the schedule per day,   *)
(* the static trip that a trip is matched with, and the derived columns.   *)
(***************************************************************************)
EXTENDS RailTrips, TLAPS, FiniteSetTheorems, WellFoundedInduction

(***************************************************************************)
(* Minima and neighbours                                                   *)
(***************************************************************************)

\* A set of numbers that is not empty has a least element.
LEMMA LeastNumber ==
    ASSUME NEW S, S \subseteq Nat, S # {}
    PROVE  \E x \in S : \A y \in S : x <= y
<1> DEFINE R == OpToRel(<, Nat)
<1>1. IsWellFoundedOn(R, Nat)
  BY NatLessThanWellFounded
<1>2. PICK x \in S : \A y \in S : <<y, x>> \notin R
  <2> HIDE DEF R
  <2> QED BY <1>1, WFMin
<1>3. \A a, b \in Nat : a < b => <<a, b>> \in R
  BY DEF OpToRel
<1>4. ASSUME NEW y \in S PROVE x <= y
  <2> HIDE DEF R
  <2>1. x \in Nat /\ y \in Nat BY <1>4
  <2>2. ~(y < x) BY <1>2, <1>3, <2>1
  <2> QED BY <2>1, <2>2
<1> QED BY <1>4

\* Least returns an element that is not larger than any, or Null.
LEMMA LeastProperty ==
    ASSUME NEW S, S \subseteq Nat
    PROVE  /\ Least(S) \in S \cup {Null}
           /\ \A m \in S : Least(S) <= m
           /\ Least(S) \in Nat
<1>1. Null \in Nat BY RailTripsAssumption
<1>2. \E n \in S \cup {Null} : \A m \in S : n <= m
  <2>1. CASE S = {} BY <2>1
  <2>2. CASE S # {} BY <2>2, LeastNumber
  <2> QED BY <2>1, <2>2
<1>3. /\ Least(S) \in S \cup {Null}
      /\ \A m \in S : Least(S) <= m
  BY <1>2 DEF Least
<1> QED BY <1>1, <1>3

\* The least of some times is a time, and Null only when all of them are.
LEMMA LeastTime ==
    ASSUME NEW S, S \subseteq Times
    PROVE  /\ Least(S) \in Times
           /\ (\E m \in S : m # Null) => Least(S) # Null
<1>1. Null \in Nat /\ Null \in Times BY RailTripsAssumption DEF Times
<1>2. S \subseteq Nat BY DEF Times
<1>3. /\ Least(S) \in S \cup {Null}
      /\ \A m \in S : Least(S) <= m
  BY <1>2, LeastProperty
<1>4. ASSUME NEW m \in S, m # Null PROVE Least(S) # Null
  <2>1. m \in Nat /\ m < Null BY <1>1, <1>4 DEF Times
  <2>2. Least(S) <= m BY <1>3
  <2> QED BY <1>1, <2>1, <2>2
<1> QED BY <1>1, <1>3, <1>4

\* lag and lead return a row of the set, earlier or later than the given one.
LEMMA NeighbourProperty ==
    ASSUME NEW S, NEW k \in S, NEW by, \A j \in S : by[j] \in Nat
    PROVE  /\ Lag(S, k, by) # <<>> => Lag(S, k, by) \in S /\ by[Lag(S, k, by)] < by[k]
           /\ Lead(S, k, by) # <<>> => Lead(S, k, by) \in S
<1> DEFINE earlier == {j \in S : by[j] < by[k]}
           later == {j \in S : by[j] > by[k]}
<1>1. ASSUME earlier # {}
      PROVE  \E j \in earlier : \A i \in earlier : by[j] >= by[i]
  <2> DEFINE D == {by[k] - by[j] : j \in earlier}
  <2>1. D \subseteq Nat /\ D # {}
    <3>1. ASSUME NEW j \in earlier PROVE by[k] - by[j] \in Nat
      <4>1. by[k] \in Nat /\ by[j] \in Nat /\ by[j] < by[k] BY <3>1
      <4> QED BY <4>1
    <3> QED BY <1>1, <3>1
  <2>2. PICK d \in D : \A e \in D : d <= e
    <3> HIDE DEF D
    <3> QED BY <2>1, LeastNumber
  <2>3. PICK j \in earlier : d = by[k] - by[j] BY <2>2
  <2>4. ASSUME NEW i \in earlier PROVE by[j] >= by[i]
    <3>1. by[k] - by[j] <= by[k] - by[i] BY <2>2, <2>3
    <3>2. by[k] \in Nat /\ by[j] \in Nat /\ by[i] \in Nat BY <2>3, <2>4
    <3> QED BY <3>1, <3>2
  <2> QED BY <2>3, <2>4
<1>2. ASSUME later # {}
      PROVE  \E j \in later : \A i \in later : by[j] <= by[i]
  <2> DEFINE D == {by[j] : j \in later}
  <2>1. D \subseteq Nat /\ D # {} BY <1>2
  <2>2. PICK d \in D : \A e \in D : d <= e
    <3> HIDE DEF D
    <3> QED BY <2>1, LeastNumber
  <2>3. PICK j \in later : d = by[j] BY <2>2
  <2> QED BY <2>2, <2>3
<1>3. ASSUME Lag(S, k, by) # <<>> PROVE Lag(S, k, by) \in earlier
  <2>1. earlier # {} BY <1>3 DEF Lag
  <2>2. Lag(S, k, by) = CHOOSE j \in earlier : \A i \in earlier : by[j] >= by[i]
    BY <2>1 DEF Lag
  <2> QED BY <1>1, <2>1, <2>2
<1>4. ASSUME Lead(S, k, by) # <<>> PROVE Lead(S, k, by) \in later
  <2>1. later # {} BY <1>4 DEF Lead
  <2>2. Lead(S, k, by) = CHOOSE j \in later : \A i \in later : by[j] <= by[i]
    BY <2>1 DEF Lead
  <2> QED BY <1>2, <2>1, <2>2
<1> QED BY <1>3, <1>4

\* lag and lead only look at the rows of the set.
LEMMA NeighbourFrame ==
    ASSUME NEW S, NEW k \in S, NEW by, NEW bx, \A j \in S : by[j] = bx[j]
    PROVE  /\ Lag(S, k, by) = Lag(S, k, bx)
           /\ Lead(S, k, by) = Lead(S, k, bx)
<1> DEFINE earlier == {j \in S : by[j] < by[k]}
           later == {j \in S : by[j] > by[k]}
           before == {j \in S : bx[j] < bx[k]}
           after == {j \in S : bx[j] > bx[k]}
<1>1. earlier = before /\ later = after
  OBVIOUS
<1>2. /\ Lag(S, k, by) = IF earlier = {} THEN <<>>
                         ELSE CHOOSE j \in earlier : \A i \in earlier : by[j] >= by[i]
      /\ Lag(S, k, bx) = IF before = {} THEN <<>>
                         ELSE CHOOSE j \in before : \A i \in before : bx[j] >= bx[i]
  BY DEF Lag
<1>3. /\ Lead(S, k, by) = IF later = {} THEN <<>>
                          ELSE CHOOSE j \in later : \A i \in later : by[j] <= by[i]
      /\ Lead(S, k, bx) = IF after = {} THEN <<>>
                          ELSE CHOOSE j \in after : \A i \in after : bx[j] <= bx[i]
  BY DEF Lead
<1>4. (\A j \in earlier : by[j] = bx[j]) /\ (\A j \in later : by[j] = bx[j])
  OBVIOUS
<1> HIDE DEF earlier, later, before, after
<1>5. (CHOOSE j \in earlier : \A i \in earlier : by[j] >= by[i])
        = (CHOOSE j \in before : \A i \in before : bx[j] >= bx[i])
  BY <1>1, <1>4, Zenon
<1>6. (CHOOSE j \in later : \A i \in later : by[j] <= by[i])
        = (CHOOSE j \in after : \A i \in after : bx[j] <= bx[i])
  BY <1>1, <1>4, Zenon
<1>7. Lag(S, k, by) = Lag(S, k, bx)
  <2>1. CASE earlier = {} BY <1>1, <1>2, <2>1, Zenon
  <2>2. CASE earlier # {} BY <1>1, <1>2, <1>5, <2>2, Zenon
  <2> QED BY <2>1, <2>2
<1>8. Lead(S, k, by) = Lead(S, k, bx)
  <2>1. CASE later = {} BY <1>1, <1>3, <2>1, Zenon
  <2>2. CASE later # {} BY <1>1, <1>3, <1>6, <2>2, Zenon
  <2> QED BY <2>1, <2>2
<1> QED BY <1>7, <1>8

(***************************************************************************)
(* What the reading operators return                                       *)
(***************************************************************************)

\* The constants have these types.
LEMMA ConstantTypes ==
    /\ Null \in Nat /\ Null \in Times /\ Times \subseteq Nat
    /\ \A k \in Keys : TripOf(k) \in Trips /\ StationOf(k) \in Stations
                       /\ SequenceOf[k] \in Nat
    /\ \A t \in Trips : FeedStartOf[t] \in Times
BY RailTripsAssumption DEF Times, Keys, TripOf, StationOf

\* The times of an event.
LEMMA EventTypes ==
    ASSUME TypeOK
    PROVE  /\ \A k \in Keys : /\ events[k].move \in Times /\ events[k].stop \in Times
                              /\ events[k].tu \in Times /\ Stopped(k) \in Times
                              /\ Sequence[k] \in Nat /\ Seen[k] \in Nat
           /\ \A t \in Trips : KeysOf(t) \subseteq Keys /\ RealKeys(t) \subseteq KeysOf(t)
<1>1. \A k \in Keys : /\ events[k].move \in Times /\ events[k].stop \in Times
                      /\ events[k].tu \in Times
  BY DEF TypeOK, EventTimes
<1>2. \A k \in Keys : Stopped(k) \in Times BY <1>1 DEF Stopped, Coalesce
<1>3. \A k \in Keys : Sequence[k] \in Nat /\ Seen[k] \in Nat
  BY <1>1, ConstantTypes DEF Sequence, Seen, Coalesce
<1>4. \A t \in Trips : KeysOf(t) \subseteq Keys /\ RealKeys(t) \subseteq KeysOf(t)
  BY DEF TypeOK, KeysOf, RealKeys
<1> QED BY <1>1, <1>2, <1>3, <1>4

\* The number of stops is a number, and zero only without stops.
LEMMA StopCountType ==
    ASSUME TypeOK, NEW t \in Trips
    PROVE  StopCount(t) \in Nat /\ (StopCount(t) = 0 <=> RealKeys(t) = {})
<1> DEFINE station == [k \in RealKeys(t) |-> StationOf(k)]
<1>1. \A k \in RealKeys(t) : k \in Keys /\ TripOf(k) = t
  BY EventTypes DEF RealKeys, KeysOf
<1>2. station \in Injection(RealKeys(t), Stations)
  <2>1. station \in [RealKeys(t) -> Stations] BY <1>1, ConstantTypes
  <2>2. \A j, k \in RealKeys(t) : station[j] = station[k] => j = k
    BY <1>1 DEF Keys, TripOf, StationOf
  <2> QED BY <2>1, <2>2 DEF Injection, IsInjective
<1>3. IsFiniteSet(RealKeys(t))
  <2>1. IsFiniteSet(Stations) BY RailTripsAssumption
  <2> QED BY <1>2, <2>1, FS_Injection
<1> QED BY <1>3, FS_CardinalityType, FS_EmptySet DEF StopCount

\* The departure after an event is a time.
LEMMA DepartureType ==
    ASSUME TypeOK, NEW k \in stored, Real(k)
    PROVE  Departure[k] \in Nat
<1> DEFINE S == RealKeys(TripOf(k))
           next == Lead(S, k, Seen)
<1>1. k \in Keys /\ TripOf(k) \in Trips /\ k \in S
  BY ConstantTypes DEF TypeOK, RealKeys, KeysOf
<1>2. S \subseteq Keys BY <1>1, EventTypes
<1>3. \A j \in S : Seen[j] \in Nat BY <1>2, EventTypes
<1>4. next # <<>> => next \in Keys
  <2> HIDE DEF S
  <2> QED BY <1>1, <1>2, <1>3, NeighbourProperty
<1>5. Departure[k] = IF next = <<>> THEN Null ELSE events[next].move
  BY <1>1 DEF Departure
<1> HIDE DEF next
<1> QED BY <1>4, <1>5, EventTypes, ConstantTypes

\* A headway is a number.
LEMMA HeadwayType ==
    ASSUME TypeOK, NEW k, NEW rows, rows \subseteq stored, \A j \in rows : Real(j)
    PROVE  Headway(k, rows) \in Nat
<1> DEFINE before == Lag(rows, k, Departure)
<1>1. Null \in Nat BY ConstantTypes
<1>2. CASE k \in rows /\ Departure[k] # Null /\ before # <<>>
  <2>1. \A j \in rows : Departure[j] \in Nat BY DepartureType
  <2>2. before \in rows /\ Departure[before] < Departure[k]
    BY <1>2, <2>1, NeighbourProperty
  <2>3. Headway(k, rows) = Departure[k] - Departure[before]
    BY <1>2 DEF Headway
  <2>4. Departure[k] \in Nat /\ Departure[before] \in Nat BY <1>2, <2>1, <2>2
  <2> HIDE DEF before
  <2> QED BY <2>2, <2>3, <2>4
<1>3. CASE ~(k \in rows /\ Departure[k] # Null /\ before # <<>>)
  BY <1>1, <1>3 DEF Headway
<1> QED BY <1>2, <1>3

\* The metrics are numbers.
LEMMA MetricTypes ==
    ASSUME TypeOK, NEW k \in stored, NEW n
    PROVE  /\ TravelTime(k) \in Nat
           /\ DwellTime(k, n) \in Nat
           /\ TrunkHeadway(k) \in Nat
           /\ BranchHeadway(k) \in Nat
<1>1. k \in Keys /\ TripOf(k) \in Trips /\ Null \in Nat
  BY ConstantTypes DEF TypeOK
<1>2. Stopped(k) \in Nat /\ events[k].move \in Nat
  BY <1>1, EventTypes, ConstantTypes
<1>3. TravelTime(k) \in Nat
  BY <1>1, <1>2 DEF TravelTime
<1>4. DwellTime(k, n) \in Nat
  <2> DEFINE rows == {j \in RealKeys(TripOf(k)) : ~FirstStop(j, n)}
             next == Lead(rows, k, Seen)
  <2>1. rows \subseteq Keys BY <1>1, EventTypes
  <2>2. \A j \in rows : Seen[j] \in Nat BY <2>1, EventTypes
  <2>3. k \in rows /\ next # <<>> => next \in Keys
    <3> HIDE DEF rows
    <3> QED BY <2>1, <2>2, NeighbourProperty
  <2>4. DwellTime(k, n) =
          IF /\ k \in rows /\ trips[TripOf(k)].count > 1
             /\ next # <<>> /\ Stopped(k) # Null
          THEN IF events[next].move # Null /\ events[next].move > Stopped(k)
               THEN events[next].move - Stopped(k) ELSE Null
          ELSE Null
    BY DEF DwellTime
  <2>5. k \in rows /\ next # <<>> => events[next].move \in Nat
    BY <2>3, EventTypes, ConstantTypes
  <2> HIDE DEF rows, next
  <2> QED BY <1>1, <1>2, <2>4, <2>5
<1>5. Alongside(k) \subseteq stored /\ \A j \in Alongside(k) : Real(j)
  BY DEF Alongside
<1>6. TrunkHeadway(k) \in Nat
  BY <1>5, HeadwayType DEF TrunkHeadway
<1>7. BranchHeadway(k) \in Nat
  BY <1>1, <1>5, HeadwayType DEF BranchHeadway
<1> QED BY <1>3, <1>4, <1>6, <1>7

\* The neighbours of an event on its trip are events.
LEMMA LinkTypes ==
    ASSUME TypeOK, NEW k \in stored
    PROVE  PrevStop(k) \in Keys \cup {<<>>} /\ NextStop(k) \in Keys \cup {<<>>}
<1>1. TripOf(k) \in Trips /\ k \in KeysOf(TripOf(k))
  BY ConstantTypes DEF TypeOK, KeysOf
<1>2. KeysOf(TripOf(k)) \subseteq Keys BY <1>1, EventTypes
<1>3. \A j \in KeysOf(TripOf(k)) : Sequence[j] \in Nat BY <1>2, EventTypes
<1> QED BY <1>1, <1>2, <1>3, NeighbourProperty DEF PrevStop, NextStop

\* The numbers of stations on canonical trips.
LEMMA CanonTypes ==
    ASSUME NEW v \in Versions
    PROVE  \A c \in StaticCanon[v] : c.seq \in Nat /\ c.seq < Null
<1> DEFINE typical == {s \in Schedule[v] : s.typicality \in {1, 5}}
           same(s) == {u \in typical : /\ StaticRoute(u) = StaticRoute(s)
                                       /\ u.direction = s.direction}
<1>1. ASSUME NEW s \in typical
      PROVE  (CHOOSE u \in same(s) : \A w \in same(s) : u.typicality >= w.typicality)
                \in Schedule[v]
  <2>1. s \in same(s) BY <1>1
  <2>2. \A u \in same(s) : u.typicality \in {1, 5} OBVIOUS
  <2>3. \E u \in same(s) : \A w \in same(s) : u.typicality >= w.typicality
    <3>1. CASE \E u \in same(s) : u.typicality = 5 BY <2>2, <3>1
    <3>2. CASE \A u \in same(s) : u.typicality # 5
      <4>1. \A u \in same(s) : u.typicality = 1 BY <2>2, <3>2
      <4> QED BY <2>1, <4>1
    <3> QED BY <3>1, <3>2
  <2>4. (CHOOSE u \in same(s) : \A w \in same(s) : u.typicality >= w.typicality)
          \in same(s)
    BY <2>3
  <2> QED BY <2>4
<1>2. CanonTrips(v) \subseteq Schedule[v]
  BY <1>1 DEF CanonTrips
<1>3. ASSUME NEW s \in Schedule[v], NEW i \in DOMAIN s.stops
      PROVE  i \in Nat /\ i < Null
  <2>1. s.stops \in Seq(Stations) /\ Len(s.stops) < Null BY RailTripsAssumption
  <2> QED BY <2>1, ConstantTypes
<1>4. \A s \in CanonTrips(v) : \A i \in DOMAIN s.stops : i \in Nat /\ i < Null
  BY <1>2, <1>3
<1>5. StaticCanon[v] =
        UNION {{[direction |-> s.direction, trunk |-> TrunkOf(s.route),
                 route |-> StaticRoute(s), station |-> s.stops[i], seq |-> i] :
                    i \in DOMAIN s.stops} : s \in CanonTrips(v)}
  BY DEF StaticCanon
<1> QED BY <1>4, <1>5

(***************************************************************************)
(* Steps of a round                                                        *)
(***************************************************************************)

\* Where a round is after a statement.
AfterTrunk == {"mark"}
AfterBranchHeadway == {"trunkHeadway"} \cup AfterTrunk
AfterDwell == {"branchHeadway"} \cup AfterBranchHeadway
AfterTravel == {"dwell"} \cup AfterDwell
AfterBackup == {"travel"} \cup AfterTravel
AfterSync == {"backup"} \cup AfterBackup
AfterCanonical == {"sync"} \cup AfterSync
AfterAdded == {"canonical"} \cup AfterCanonical
AfterLinks == {"exact", "starts", "added"} \cup AfterAdded
AfterCounts == {"links"} \cup AfterLinks
AfterBranch == {"counts"} \cup AfterCounts
AfterVersion == {"branch"} \cup AfterBranch
AfterMerge == {"version"} \cup AfterVersion
BeforeMerge == {"idle", "trips", "flag", "merge"}

\* A round works with the version that was loaded last, its trips are known,
\* and after the statement that sets it all trips have this version.  A round
\* that merges nothing has no rows left when it ends.
RoundInv ==
    /\ pc # "idle" => version = loaded
    /\ \A t \in Known : trips[t].version \in Versions
    /\ pc \notin {"idle", "trips"} => StagedTrips \subseteq Known
    /\ pc \notin {"idle", "trips", "flag", "mark"} => staged # {}
    /\ pc \in AfterMerge => staged \subseteq stored
    /\ pc \in AfterVersion /\ staged # {} =>
          \A t \in Known : trips[t].version = version

\* Columns of a trip that an update leaves alone.
Keeps(new, row, columns) == \A c \in columns : new[c] = row[c]

\* A row keeps its own columns.
LEMMA KeepsAll == \A row, columns : Keeps(row, row, columns)
BY DEF Keeps

\* A statement that updates trips with rows in temp_event_compare, but not
\* their version.
StagedUpdate ==
    /\ pc \in AfterVersion \ {"mark"} /\ pc' \in AfterVersion \ {"mark"}
    /\ UNCHANGED <<loaded, batch, done, temp, version, staged, stored, events,
                   derived, trouble, unfinished, torn>>
    /\ trips' \in [Trips -> TripRows]
    /\ \A t \in Trips : Keeps(trips'[t], trips[t], {"known", "version"})
    /\ \A t \in Trips \ StagedTrips : trips'[t] = trips[t]
    /\ outdated' \subseteq outdated

\* A statement that updates computed columns of events.
ColumnUpdate ==
    /\ pc \in AfterVersion \ {"mark"} /\ pc' \in AfterVersion
    /\ UNCHANGED <<loaded, batch, done, temp, version, staged, stored, events,
                   trips, trouble, unfinished, outdated, torn>>
    /\ derived' \in [Keys -> Columns]

\* Updates of one row of vehicle_trips.
LEMMA VersionEdit ==
    ASSUME NEW row \in TripRows, NEW v \in Versions
    PROVE  LET new == [row EXCEPT !.version = v]
           IN  new \in TripRows /\ new.version = v /\ new.known = row.known
BY DEF TripRows

\* ... the number of stops,
LEMMA CountEdit ==
    ASSUME NEW row \in TripRows, NEW n \in Nat
    PROVE  LET new == [row EXCEPT !.count = n]
           IN  /\ new \in TripRows /\ new.count = n
               /\ Keeps(new, row, {"known", "version", "start", "trunk", "branch",
                                   "guess", "exact"})
BY DEF TripRows, Keeps

\* ... the start time,
LEMMA StartEdit ==
    ASSUME NEW row \in TripRows, NEW time \in Times
    PROVE  LET new == [row EXCEPT !.start = time]
           IN  /\ new \in TripRows /\ new.start = time
               /\ Keeps(new, row, {"known", "version", "count", "trunk", "branch",
                                   "guess", "exact"})
BY DEF TripRows, Keeps

\* ... and the exact match.
LEMMA ExactEdit ==
    ASSUME NEW row \in TripRows, NEW t \in Trips
    PROVE  LET new == [row EXCEPT !.guess = t, !.exact = TRUE]
           IN  /\ new \in TripRows
               /\ Keeps(new, row, {"known", "version", "start", "trunk", "branch",
                                   "count"})
BY DEF TripRows, Keeps

\* The same for branch and trunk, which a realtime trip gets from its route
\* and stations.
LEMMA BranchEdit ==
    ASSUME NEW t \in Trips, NEW row \in TripRows
    PROVE  LET new == [row EXCEPT !.branch = RealtimeBranch(t),
                                  !.trunk = TrunkOf(RouteOf[t])]
           IN  /\ new \in TripRows
               /\ new.branch = RealtimeBranch(t)
               /\ Keeps(new, row, {"known", "version", "start", "count", "guess",
                                   "exact"})
<1>1. RealtimeBranch(t) \in GreenRoutes \cup {"Red-A", "Red-B"} \cup {"none"}
  BY DEF RealtimeBranch
<1>2. TrunkOf(RouteOf[t]) \in {TrunkOf(RouteOf[u]) : u \in Trips}
  OBVIOUS
<1> QED BY <1>1, <1>2 DEF TripRows, Keeps

\* ... and for a static trip of the version.
LEMMA GuessEdit ==
    ASSUME NEW t \in Trips, NEW n, trips[t].version \in Versions,
           NEW id \in Closest(t, n), NEW row \in TripRows
    PROVE  LET new == [row EXCEPT !.guess = id]
           IN  /\ new \in TripRows
               /\ new.guess = id
               /\ Keeps(new, row, {"known", "version", "start", "trunk", "branch",
                                   "count", "exact"})
<1>1. PICK s \in Schedule[trips[t].version] : id = s.trip
  BY DEF Closest, Candidates
<1>2. Schedule[trips[t].version] \in Range(Schedule)
  BY DEF Range, Versions
<1>3. id \in {u.trip : u \in UNION Range(Schedule)}
  BY <1>1, <1>2
<1> QED BY <1>3 DEF TripRows, Keeps

\* The trips of the rows in temp_event_compare.
LEMMA StagedTypes ==
    ASSUME TypeOK
    PROVE  StagedTrips \subseteq Trips /\ Known \subseteq Trips
BY ConstantTypes DEF TypeOK, StagedTrips, Known

\* A start time from the events of a trip.
FirstTime(t) ==
    Coalesce(Least({events[k].move : k \in KeysOf(t)}),
             Coalesce(Least({events[k].stop : k \in KeysOf(t)}),
                      Least({events[k].tu : k \in KeysOf(t)})))

\* It is a time.
LEMMA FirstTimeType ==
    ASSUME TypeOK, NEW t \in Trips
    PROVE  FirstTime(t) \in Times
<1>1. /\ {events[k].move : k \in KeysOf(t)} \subseteq Times
      /\ {events[k].stop : k \in KeysOf(t)} \subseteq Times
      /\ {events[k].tu : k \in KeysOf(t)} \subseteq Times
  BY EventTypes
<1>2. /\ Least({events[k].move : k \in KeysOf(t)}) \in Times
      /\ Least({events[k].stop : k \in KeysOf(t)}) \in Times
      /\ Least({events[k].tu : k \in KeysOf(t)}) \in Times
  BY <1>1, LeastTime
<1> QED BY <1>2 DEF FirstTime, Coalesce

\* What the statements on trips change.
LEMMA BranchEffect ==
    ASSUME TypeOK, RoundInv, UpdateBranch
    PROVE  /\ StagedUpdate /\ outdated' = outdated
           /\ pc = "branch" /\ pc' = "counts"
           /\ \A t \in StagedTrips :
                /\ trips'[t].branch = RealtimeBranch(t)
                /\ Keeps(trips'[t], trips[t], {"start", "count", "guess", "exact"})
<1>1. /\ pc = "branch" /\ pc' = "counts"
      /\ UNCHANGED <<loaded, batch, done, temp, version, staged, stored, events,
                     derived, trouble, unfinished, outdated, torn>>
      /\ trips' = [t \in Trips |->
                    IF t \in StagedTrips
                    THEN [trips[t] EXCEPT !.branch = RealtimeBranch(t),
                                          !.trunk = TrunkOf(RouteOf[t])]
                    ELSE trips[t]]
  BY DEF UpdateBranch, At, SetTrips, UnchangedEvents, observers
<1>2. ASSUME NEW t \in Trips
      PROVE  /\ trips'[t] \in TripRows
             /\ Keeps(trips'[t], trips[t], {"known", "version"})
             /\ t \in StagedTrips =>
                  /\ trips'[t].branch = RealtimeBranch(t)
                  /\ Keeps(trips'[t], trips[t], {"start", "count", "guess", "exact"})
  <2>1. trips[t] \in TripRows BY DEF TypeOK
  <2>2. CASE t \in StagedTrips
    <3>1. trips'[t] = [trips[t] EXCEPT !.branch = RealtimeBranch(t),
                                       !.trunk = TrunkOf(RouteOf[t])]
      BY <1>1, <2>2
    <3>2. /\ trips'[t] \in TripRows
          /\ trips'[t].branch = RealtimeBranch(t)
          /\ Keeps(trips'[t], trips[t],
                   {"known", "version", "start", "count", "guess", "exact"})
      BY <2>1, <3>1, BranchEdit
    <3> QED BY <3>2 DEF Keeps
  <2>3. CASE t \notin StagedTrips
    BY <1>1, <2>1, <2>3, KeepsAll
  <2> QED BY <2>2, <2>3
<1>3. trips' \in [Trips -> TripRows] BY <1>1, <1>2
<1>4. StagedUpdate
  BY <1>1, <1>2, <1>3
  DEF StagedUpdate, AfterVersion, AfterBranch
<1> QED BY <1>1, <1>2, <1>4, StagedTypes

\* ... the number of stops is set where there are any,
LEMMA CountsEffect ==
    ASSUME TypeOK, RoundInv, UpdateStopCounts
    PROVE  /\ StagedUpdate /\ outdated' = outdated
           /\ pc = "counts" /\ pc' = "links"
           /\ \A t \in StagedTrips :
                /\ trips'[t].count = IF StopCount(t) > 0 THEN StopCount(t)
                                     ELSE trips[t].count
                /\ Keeps(trips'[t], trips[t],
                         {"start", "trunk", "branch", "guess", "exact"})
<1>1. /\ pc = "counts" /\ pc' = "links"
      /\ UNCHANGED <<loaded, batch, done, temp, version, staged, stored, events,
                     derived, trouble, unfinished, outdated, torn>>
      /\ trips' = [t \in Trips |->
                    IF t \in {u \in StagedTrips : StopCount(u) > 0}
                    THEN [trips[t] EXCEPT !.count = StopCount(t)]
                    ELSE trips[t]]
  BY DEF UpdateStopCounts, At, SetTrips, UnchangedEvents, observers
<1>2. ASSUME NEW t \in Trips
      PROVE  /\ trips'[t] \in TripRows
             /\ Keeps(trips'[t], trips[t], {"known", "version"})
             /\ t \in StagedTrips =>
                  /\ trips'[t].count = IF StopCount(t) > 0 THEN StopCount(t)
                                       ELSE trips[t].count
                  /\ Keeps(trips'[t], trips[t],
                           {"start", "trunk", "branch", "guess", "exact"})
             /\ t \notin StagedTrips => trips'[t] = trips[t]
  <2>1. trips[t] \in TripRows BY DEF TypeOK
  <2>2. StopCount(t) \in Nat BY StopCountType
  <2>3. CASE t \in StagedTrips /\ StopCount(t) > 0
    <3>1. trips'[t] = [trips[t] EXCEPT !.count = StopCount(t)]
      BY <1>1, <2>3
    <3>2. /\ trips'[t] \in TripRows /\ trips'[t].count = StopCount(t)
          /\ Keeps(trips'[t], trips[t],
                   {"known", "version", "start", "trunk", "branch", "guess", "exact"})
      BY <2>1, <2>2, <3>1, CountEdit
    <3> QED BY <2>3, <3>2 DEF Keeps
  <2>4. CASE ~(t \in StagedTrips /\ StopCount(t) > 0)
    <3>1. trips'[t] = trips[t] BY <1>1, <2>4
    <3> QED BY <2>1, <2>4, <3>1 DEF Keeps
  <2> QED BY <2>3, <2>4
<1>3. trips' \in [Trips -> TripRows] BY <1>1, <1>2
<1>4. StagedUpdate
  BY <1>1, <1>2, <1>3
  DEF StagedUpdate, AfterVersion, AfterBranch, AfterCounts
<1> QED BY <1>1, <1>2, <1>4, StagedTypes

\* ... the exact match changes nothing that the branch and start time need,
LEMMA ExactEffect ==
    ASSUME TypeOK, RoundInv, MatchExact
    PROVE  /\ StagedUpdate /\ outdated' = outdated
           /\ pc = "exact" /\ pc' = "starts"
           /\ \A t \in StagedTrips :
                Keeps(trips'[t], trips[t], {"start", "trunk", "branch", "count"})
<1> DEFINE S == {t \in StagedTrips : /\ t \in {s.trip : s \in Schedule[version]}
                                     /\ FeedStartOf[t] # Null}
<1>1. /\ pc = "exact" /\ pc' = "starts"
      /\ UNCHANGED <<loaded, batch, done, temp, version, staged, stored, events,
                     derived, trouble, unfinished, outdated, torn>>
      /\ trips' = [t \in Trips |->
                    IF t \in S THEN [trips[t] EXCEPT !.guess = t, !.exact = TRUE]
                    ELSE trips[t]]
  BY DEF MatchExact, At, SetTrips, UnchangedEvents, observers
<1>2. S \subseteq StagedTrips OBVIOUS
<1> HIDE DEF S
<1>3. ASSUME NEW t \in Trips
      PROVE  /\ trips'[t] \in TripRows
             /\ Keeps(trips'[t], trips[t], {"known", "version"})
             /\ Keeps(trips'[t], trips[t], {"start", "trunk", "branch", "count"})
             /\ t \notin StagedTrips => trips'[t] = trips[t]
  <2>1. trips[t] \in TripRows BY DEF TypeOK
  <2>2. CASE t \in S
    <3>1. trips'[t] = [trips[t] EXCEPT !.guess = t, !.exact = TRUE] BY <1>1, <2>2
    <3>2. /\ trips'[t] \in TripRows
          /\ Keeps(trips'[t], trips[t],
                   {"known", "version", "start", "trunk", "branch", "count"})
      BY <2>1, <3>1, ExactEdit
    <3> QED BY <1>2, <2>2, <3>2 DEF Keeps
  <2>3. CASE t \notin S
    BY <1>1, <2>1, <2>3 DEF Keeps
  <2> QED BY <2>2, <2>3
<1>4. trips' \in [Trips -> TripRows] BY <1>1, <1>3
<1>5. StagedUpdate
  BY <1>1, <1>3, <1>4
  DEF StagedUpdate, AfterVersion, AfterBranch, AfterCounts, AfterLinks
<1> QED BY <1>1, <1>3, <1>5, StagedTypes

\* The two statements on start times: the second one leaves no trip without.
LEMMA StartsEffect ==
    ASSUME TypeOK, RoundInv, ScheduledStarts \/ AddedStarts
    PROVE  /\ StagedUpdate /\ outdated' = outdated
           /\ pc \in {"starts", "added"} /\ pc' \in {"added", "canonical"}
           /\ \A t \in StagedTrips :
                /\ Keeps(trips'[t], trips[t],
                         {"trunk", "branch", "count", "guess", "exact"})
                /\ trips[t].start # Null => trips'[t].start = trips[t].start
           /\ AddedStarts => \A t \in StagedTrips :
                FeedStartOf[t] = Null /\ trips[t].start = Null
                  => trips'[t].start = FirstTime(t)
<1>1. MissingStart \subseteq StagedTrips /\ \A t \in MissingStart : trips[t].start = Null
  BY DEF MissingStart
<1>2. ASSUME NEW value, \A t \in MissingStart : value[t] \in Times,
             trips' = [t \in Trips |-> IF t \in MissingStart
                                       THEN [trips[t] EXCEPT !.start = value[t]]
                                       ELSE trips[t]]
      PROVE  /\ trips' \in [Trips -> TripRows]
             /\ \A t \in Trips : Keeps(trips'[t], trips[t], {"known", "version"})
             /\ \A t \in Trips :
                  Keeps(trips'[t], trips[t],
                        {"trunk", "branch", "count", "guess", "exact"})
             /\ \A t \in Trips \ StagedTrips : trips'[t] = trips[t]
             /\ \A t \in Trips : trips[t].start # Null
                                   => trips'[t].start = trips[t].start
             /\ \A t \in MissingStart \cap Trips : trips'[t].start = value[t]
  <2>1. ASSUME NEW t \in Trips
        PROVE  /\ trips'[t] \in TripRows
               /\ Keeps(trips'[t], trips[t], {"known", "version"})
               /\ Keeps(trips'[t], trips[t],
                        {"trunk", "branch", "count", "guess", "exact"})
               /\ t \notin MissingStart => trips'[t] = trips[t]
               /\ t \in MissingStart => trips'[t].start = value[t]
    <3>1. trips[t] \in TripRows BY DEF TypeOK
    <3>2. CASE t \in MissingStart
      <4>1. trips'[t] = [trips[t] EXCEPT !.start = value[t]] BY <1>2, <3>2
      <4>2. /\ trips'[t] \in TripRows /\ trips'[t].start = value[t]
            /\ Keeps(trips'[t], trips[t],
                     {"known", "version", "count", "trunk", "branch", "guess", "exact"})
        BY <1>2, <3>1, <3>2, <4>1, StartEdit
      <4> QED BY <3>2, <4>2 DEF Keeps
    <3>3. CASE t \notin MissingStart
      BY <1>2, <3>1, <3>3 DEF Keeps
    <3> QED BY <3>2, <3>3
  <2>2. trips' \in [Trips -> TripRows] BY <1>2, <2>1
  <2> QED BY <1>1, <2>1, <2>2
<1>3. CASE ScheduledStarts
  <2> DEFINE start == [t \in MissingStart |->
                        Least({s.start : s \in {u \in Schedule[trips[t].version] :
                                                   u.trip = t}})]
  <2>1. /\ pc = "starts" /\ pc' = "added"
        /\ UNCHANGED <<loaded, batch, done, temp, version, staged, stored, events,
                       derived, trouble, unfinished, outdated, torn>>
        /\ trips' = [t \in Trips |-> IF t \in MissingStart
                                     THEN [trips[t] EXCEPT !.start = start[t]]
                                     ELSE trips[t]]
    BY <1>3 DEF ScheduledStarts, At, SetTrips, UnchangedEvents, observers
  <2>2. \A t \in MissingStart : start[t] \in Times
    <3>1. ASSUME NEW t \in MissingStart
          PROVE  {s.start : s \in {u \in Schedule[trips[t].version] : u.trip = t}}
                    \subseteq Times
      <4>1. t \in Known
        BY <1>1, <2>1, <3>1 DEF RoundInv
      <4>2. trips[t].version \in Versions BY <4>1 DEF RoundInv
      <4> QED BY <4>2, RailTripsAssumption
    <3> QED BY <3>1, LeastTime
  <2> HIDE DEF start
  <2>3. StagedUpdate
    BY <1>2, <2>1, <2>2
    DEF StagedUpdate, AfterVersion, AfterBranch, AfterCounts, AfterLinks
  <2>4. ~AddedStarts BY <2>1 DEF AddedStarts, At
  <2> QED BY <1>2, <2>1, <2>2, <2>3, <2>4, StagedTypes
<1>4. CASE AddedStarts
  <2>1. /\ pc = "added" /\ pc' = "canonical"
        /\ UNCHANGED <<loaded, batch, done, temp, version, staged, stored, events,
                       derived, trouble, unfinished, outdated, torn>>
        /\ trips' = [t \in Trips |-> IF t \in MissingStart
                                     THEN [trips[t] EXCEPT !.start = FirstTime(t)]
                                     ELSE trips[t]]
    BY <1>4 DEF AddedStarts, At, SetTrips, UnchangedEvents, observers, FirstTime
  <2> DEFINE start == [t \in MissingStart |-> FirstTime(t)]
  <2>2. \A t \in MissingStart : start[t] \in Times
    BY <1>1, FirstTimeType, StagedTypes
  <2>3. trips' = [t \in Trips |-> IF t \in MissingStart
                                  THEN [trips[t] EXCEPT !.start = start[t]]
                                  ELSE trips[t]]
    BY <2>1
  <2>4. \A t \in MissingStart : start[t] = FirstTime(t)
    OBVIOUS
  <2> HIDE DEF start
  <2>5. StagedUpdate
    BY <1>2, <2>1, <2>2, <2>3
    DEF StagedUpdate, AfterVersion, AfterBranch, AfterCounts, AfterLinks, AfterAdded
  <2>6. \A t \in StagedTrips : FeedStartOf[t] = Null /\ trips[t].start = Null
                                 => t \in MissingStart
    BY DEF MissingStart
  <2>7. \A t \in StagedTrips :
          FeedStartOf[t] = Null /\ trips[t].start = Null
            => trips'[t].start = FirstTime(t)
    BY <1>2, <2>2, <2>6, <2>3, <2>4, StagedTypes
  <2> QED BY <1>2, <2>1, <2>2, <2>5, <2>3, <2>7, StagedTypes
<1> QED BY <1>3, <1>4

\* ... and the backup match is one of the closest trips of the last version.
LEMMA BackupEffect ==
    ASSUME TypeOK, RoundInv, BackupMatch
    PROVE  /\ StagedUpdate /\ outdated' = outdated \ StagedTrips
           /\ pc = "backup" /\ pc' = "travel"
           /\ \A t \in StagedTrips :
                /\ Keeps(trips'[t], trips[t],
                         {"start", "trunk", "branch", "count", "exact"})
                /\ ~trips[t].exact /\ Closest(t, loaded) # {}
                     => trips'[t].guess \in Closest(t, loaded)
<1> DEFINE open == {t \in StagedTrips : ~trips[t].exact /\ Closest(t, loaded) # {}}
<1>1. /\ pc = "backup" /\ pc' = "travel"
      /\ UNCHANGED <<loaded, batch, done, temp, version, staged, stored, events,
                     derived, trouble, unfinished, torn>>
      /\ outdated' = outdated \ StagedTrips
  BY DEF BackupMatch, At, UnchangedEvents
<1>2. PICK guess :
        /\ \A t \in open : guess[t] \in Closest(t, loaded)
        /\ trips' = [t \in Trips |-> IF t \in open
                                     THEN [trips[t] EXCEPT !.guess = guess[t]]
                                     ELSE trips[t]]
  BY DEF BackupMatch, SetTrips
<1>3. open \subseteq StagedTrips /\ open \subseteq Known
  BY <1>1 DEF RoundInv
<1>4. ASSUME NEW t \in Trips
      PROVE  /\ trips'[t] \in TripRows
             /\ Keeps(trips'[t], trips[t], {"known", "version"})
             /\ Keeps(trips'[t], trips[t],
                      {"start", "trunk", "branch", "count", "exact"})
             /\ t \in open => trips'[t].guess \in Closest(t, loaded)
             /\ t \notin open => trips'[t] = trips[t]
  <2>1. trips[t] \in TripRows BY DEF TypeOK
  <2>2. CASE t \in open
    <3>1. trips[t].version \in Versions BY <1>3, <2>2 DEF RoundInv
    <3>2. guess[t] \in Closest(t, loaded) BY <1>2, <2>2
    <3>3. trips'[t] = [trips[t] EXCEPT !.guess = guess[t]] BY <1>2, <2>2
    <3> HIDE DEF open
    <3> QED BY <2>1, <2>2, <3>1, <3>2, <3>3, GuessEdit DEF Keeps
  <2>3. CASE t \notin open
    <3>1. trips'[t] = trips[t] BY <1>2, <2>3
    <3> QED BY <2>1, <2>3, <3>1 DEF Keeps
  <2> QED BY <2>2, <2>3
<1>5. trips' \in [Trips -> TripRows] BY <1>2, <1>4
<1>6. StagedUpdate
  BY <1>1, <1>3, <1>4, <1>5
  DEF StagedUpdate, AfterVersion, AfterBranch, AfterCounts, AfterLinks, AfterAdded,
      AfterCanonical, AfterSync, AfterBackup
<1> QED BY <1>1, <1>4, <1>6, StagedTypes

(***************************************************************************)
(* What the statements on events change                                    *)
(***************************************************************************)

\* Updates of one row of computed columns.
LEMMA SyncEdit ==
    ASSUME NEW row \in Columns, NEW v \in Versions, NEW r \in StaticSync[v]
    PROVE  LET new == [row EXCEPT !.sync = r.sync]
           IN  /\ new \in Columns /\ new.sync = r.sync
               /\ Keeps(new, row, {"prev", "next", "canonical", "travel", "dwell",
                                   "trunk", "branch"})
<1>1. StaticSync[v] \in Range(StaticSync)
  BY DEF Range, StaticSync
<1>2. r.sync \in {s.sync : s \in UNION Range(StaticSync)}
  BY <1>1
<1> QED BY <1>2 DEF Columns, Keeps

\* All events of the trips with rows left get their neighbours,
LEMMA LinksEffect ==
    ASSUME TypeOK, RoundInv, UpdateLinks
    PROVE  /\ ColumnUpdate
           /\ pc = "links" /\ pc' = "exact"
           /\ \A k \in stored :
                IF TripOf(k) \in StagedTrips
                THEN derived'[k].prev = PrevStop(k) /\ derived'[k].next = NextStop(k)
                ELSE derived'[k] = derived[k]
<1> DEFINE S == {k \in stored : TripOf(k) \in StagedTrips}
<1>1. /\ pc = "links" /\ pc' = "exact"
      /\ UNCHANGED <<loaded, batch, done, temp, version, staged, stored, events,
                     trips, trouble, unfinished, outdated, torn>>
      /\ derived' = [k \in Keys |->
                       IF k \in S THEN [derived[k] EXCEPT !.prev = PrevStop(k),
                                                          !.next = NextStop(k)]
                       ELSE derived[k]]
  BY DEF UpdateLinks, At, SetColumns, UnchangedTrips, observers
<1>2. S \subseteq stored /\ stored \subseteq Keys BY DEF TypeOK
<1>3. \A k \in stored : k \in S <=> TripOf(k) \in StagedTrips
  OBVIOUS
<1> HIDE DEF S
<1>4. ASSUME NEW k \in Keys
      PROVE  /\ derived'[k] \in Columns
             /\ k \in S => derived'[k].prev = PrevStop(k) /\ derived'[k].next = NextStop(k)
             /\ k \notin S => derived'[k] = derived[k]
  <2>1. derived[k] \in Columns BY DEF TypeOK
  <2>2. CASE k \in S
    <3>1. derived'[k] = [derived[k] EXCEPT !.prev = PrevStop(k), !.next = NextStop(k)]
      BY <1>1, <2>2
    <3>2. PrevStop(k) \in Keys \cup {<<>>} /\ NextStop(k) \in Keys \cup {<<>>}
      BY <1>2, <2>2, LinkTypes
    <3>3. /\ derived'[k] \in Columns
          /\ derived'[k].prev = PrevStop(k) /\ derived'[k].next = NextStop(k)
      BY <2>1, <3>1, <3>2 DEF Columns
    <3> QED BY <2>2, <3>3
  <2>3. CASE k \notin S
    BY <1>1, <2>1, <2>3
  <2> QED BY <2>2, <2>3
<1>5. derived' \in [Keys -> Columns] BY <1>1, <1>4
<1>6. ColumnUpdate
  BY <1>1, <1>5
  DEF ColumnUpdate, AfterVersion, AfterBranch, AfterCounts, AfterLinks, AfterAdded,
      AfterCanonical, AfterSync, AfterBackup, AfterTravel,
      AfterDwell, AfterBranchHeadway, AfterTrunk
<1> QED BY <1>1, <1>2, <1>3, <1>4, <1>6

\* The numbers of an event's station are numbers.
LEMMA CanonicalNumbers ==
    ASSUME TypeOK, RoundInv, pc # "idle", NEW k, trips[TripOf(k)].version = version
    PROVE  /\ \A s \in CanonicalSequences(k) : s \in Nat /\ s < Null
           /\ Least(CanonicalSequences(k)) \in Nat
<1>1. version \in Versions BY DEF TypeOK, RoundInv
<1>2. \A c \in StaticCanon[version] : c.seq \in Nat /\ c.seq < Null
  BY <1>1, CanonTypes
<1>3. \A s \in CanonicalSequences(k) : s \in Nat /\ s < Null
  BY <1>2 DEF CanonicalSequences
<1>4. CanonicalSequences(k) \subseteq Nat BY <1>3
<1> QED BY <1>3, <1>4, LeastProperty

\* ... then every event of the date gets the least number of its station,
LEMMA CanonicalEffect ==
    ASSUME TypeOK, RoundInv, UpdateCanonical
    PROVE  /\ ColumnUpdate
           /\ pc = "canonical" /\ pc' = "sync"
           /\ \A k \in Keys :
                Keeps(derived'[k], derived[k],
                      {"prev", "next", "sync", "travel", "dwell", "trunk", "branch"})
           /\ \A k \in stored :
                trips[TripOf(k)].version = version /\ CanonicalSequences(k) # {}
                => derived'[k].canonical = Least(CanonicalSequences(k))
<1> DEFINE S == {k \in stored :
                   trips[TripOf(k)].version = version /\ CanonicalSequences(k) # {}}
<1>1. /\ pc = "canonical" /\ pc' = "sync"
      /\ UNCHANGED <<loaded, batch, done, temp, version, staged, stored, events,
                     trips, trouble, unfinished, outdated, torn>>
      /\ derived' = [k \in Keys |->
                       IF k \in S
                       THEN [derived[k] EXCEPT !.canonical = Least(CanonicalSequences(k))]
                       ELSE derived[k]]
  BY DEF UpdateCanonical, At, SetColumns, UnchangedTrips, observers, OfVersion
<1>2. S \subseteq stored /\ stored \subseteq Keys BY DEF TypeOK
<1>3. \A k \in S : Least(CanonicalSequences(k)) \in Nat
  BY <1>1, CanonicalNumbers
<1>4. \A k \in stored :
        trips[TripOf(k)].version = version /\ CanonicalSequences(k) # {} => k \in S
  OBVIOUS
<1> HIDE DEF S
<1>5. ASSUME NEW k \in Keys
      PROVE  /\ derived'[k] \in Columns
             /\ Keeps(derived'[k], derived[k],
                      {"prev", "next", "sync", "travel", "dwell", "trunk", "branch"})
             /\ k \in S => derived'[k].canonical = Least(CanonicalSequences(k))
  <2>1. derived[k] \in Columns BY DEF TypeOK
  <2>2. CASE k \in S
    <3>1. derived'[k] = [derived[k] EXCEPT !.canonical = Least(CanonicalSequences(k))]
      BY <1>1, <2>2
    <3>2. Least(CanonicalSequences(k)) \in Nat BY <1>3, <2>2
    <3>3. /\ derived'[k] \in Columns /\ derived'[k].canonical = Least(CanonicalSequences(k))
          /\ Keeps(derived'[k], derived[k],
                   {"prev", "next", "sync", "travel", "dwell", "trunk", "branch"})
      BY <2>1, <3>1, <3>2 DEF Columns, Keeps
    <3> QED BY <2>2, <3>3
  <2>3. CASE k \notin S
    BY <1>1, <2>1, <2>3, KeepsAll
  <2> QED BY <2>2, <2>3
<1>6. derived' \in [Keys -> Columns] BY <1>1, <1>5
<1>7. ColumnUpdate
  BY <1>1, <1>6
  DEF ColumnUpdate, AfterVersion, AfterBranch, AfterCounts, AfterLinks, AfterAdded,
      AfterCanonical, AfterSync, AfterBackup, AfterTravel,
      AfterDwell, AfterBranchHeadway, AfterTrunk
<1> QED BY <1>1, <1>2, <1>4, <1>5, <1>7

\* ... a synchronised number,
LEMMA SyncEffect ==
    ASSUME TypeOK, RoundInv, UpdateSync
    PROVE  /\ ColumnUpdate
           /\ pc = "sync" /\ pc' = "backup"
           /\ \A k \in Keys :
                Keeps(derived'[k], derived[k],
                      {"prev", "next", "canonical", "travel", "dwell", "trunk", "branch"})
           /\ \A k \in stored : trips[TripOf(k)].version = version /\ SyncSequences(k) # {}
                => derived'[k].sync \in SyncSequences(k)
<1> DEFINE S == {k \in OfVersion : SyncSequences(k) # {}}
<1>1. /\ pc = "sync" /\ pc' = "backup"
      /\ UNCHANGED <<loaded, batch, done, temp, version, staged, stored, events,
                     trips, trouble, unfinished, outdated, torn>>
  BY DEF UpdateSync, At, UnchangedTrips, observers
<1>2. PICK sync \in [S -> UNION {SyncSequences(k) : k \in OfVersion}] :
        /\ \A k \in S : sync[k] \in SyncSequences(k)
        /\ derived' = [k \in Keys |->
                         IF k \in S THEN [derived[k] EXCEPT !.sync = sync[k]]
                         ELSE derived[k]]
  <2>1. PICK sync \in [S -> UNION {SyncSequences(k) : k \in OfVersion}] :
          /\ \A k \in DOMAIN sync : sync[k] \in SyncSequences(k)
          /\ derived' = [k \in Keys |->
                           IF k \in DOMAIN sync
                           THEN [derived[k] EXCEPT !.sync = sync[k]] ELSE derived[k]]
    BY DEF UpdateSync, SetColumns
  <2>2. DOMAIN sync = S OBVIOUS
  <2> HIDE DEF S
  <2> QED BY <2>1, <2>2
<1>3. /\ S \subseteq stored /\ stored \subseteq Keys
      /\ \A k \in S : trips[TripOf(k)].version = version
      /\ \A k \in stored : trips[TripOf(k)].version = version /\ SyncSequences(k) # {}
                             => k \in S
  BY DEF TypeOK, OfVersion
<1>4. version \in Versions BY <1>1 DEF TypeOK, RoundInv
<1> HIDE DEF S
<1>5. ASSUME NEW k \in Keys
      PROVE  /\ derived'[k] \in Columns
             /\ Keeps(derived'[k], derived[k],
                      {"prev", "next", "canonical", "travel", "dwell", "trunk", "branch"})
             /\ k \in S => derived'[k].sync \in SyncSequences(k)
  <2>1. derived[k] \in Columns BY DEF TypeOK
  <2>2. CASE k \in S
    <3>1. derived'[k] = [derived[k] EXCEPT !.sync = sync[k]]
      BY <1>2, <2>2
    <3>2. sync[k] \in SyncSequences(k) BY <1>2, <2>2
    <3>3. PICK r \in StaticSync[version] : sync[k] = r.sync
      BY <1>3, <2>2, <3>2 DEF SyncSequences
    <3> QED BY <1>4, <2>1, <3>1, <3>2, <3>3, SyncEdit
  <2>3. CASE k \notin S
    BY <1>2, <2>1, <2>3, KeepsAll
  <2> QED BY <2>2, <2>3
<1>6. derived' \in [Keys -> Columns] BY <1>2, <1>5
<1>7. ColumnUpdate
  BY <1>1, <1>6
  DEF ColumnUpdate, AfterVersion, AfterBranch, AfterCounts, AfterLinks, AfterAdded,
      AfterCanonical, AfterSync, AfterBackup, AfterTravel,
      AfterDwell, AfterBranchHeadway, AfterTrunk
<1> QED BY <1>1, <1>3, <1>5, <1>7

\* ... and the metrics, where the statement gives a value: travel time,
LEMMA TravelEffect ==
    ASSUME TypeOK, RoundInv, UpdateTravel
    PROVE  /\ ColumnUpdate
           /\ pc = "travel" /\ pc' = "dwell"
           /\ \A k \in Keys :
                Keeps(derived'[k], derived[k],
                      {"prev", "next", "canonical", "sync", "dwell", "trunk", "branch"})
           /\ \A k \in stored : TravelTime(k) # Null
                => derived'[k].travel = TravelTime(k)
<1> DEFINE S == {k \in stored : TravelTime(k) # Null}
<1>1. /\ pc = "travel" /\ pc' = "dwell"
      /\ UNCHANGED <<loaded, batch, done, temp, version, staged, stored, events,
                     trips, trouble, unfinished, outdated, torn>>
      /\ derived' = [k \in Keys |->
                       IF k \in S THEN [derived[k] EXCEPT !.travel = TravelTime(k)]
                       ELSE derived[k]]
  BY DEF UpdateTravel, At, SetColumns, UnchangedTrips, observers
<1>2. S \subseteq stored /\ stored \subseteq Keys BY DEF TypeOK
<1>3. \A k \in S : TravelTime(k) \in Nat
  BY <1>2, MetricTypes
<1>4. \A k \in stored : TravelTime(k) # Null => k \in S
  OBVIOUS
<1> HIDE DEF S
<1>5. ASSUME NEW k \in Keys
      PROVE  /\ derived'[k] \in Columns
             /\ Keeps(derived'[k], derived[k],
                      {"prev", "next", "canonical", "sync", "dwell", "trunk", "branch"})
             /\ k \in S => derived'[k].travel = TravelTime(k)
  <2>1. derived[k] \in Columns BY DEF TypeOK
  <2>2. CASE k \in S
    <3>1. derived'[k] = [derived[k] EXCEPT !.travel = TravelTime(k)]
      BY <1>1, <2>2
    <3>2. TravelTime(k) \in Nat BY <1>3, <2>2
    <3>3. /\ derived'[k] \in Columns /\ derived'[k].travel = TravelTime(k)
          /\ Keeps(derived'[k], derived[k],
                   {"prev", "next", "canonical", "sync", "dwell", "trunk", "branch"})
      BY <2>1, <3>1, <3>2 DEF Columns, Keeps
    <3> QED BY <2>2, <3>3
  <2>3. CASE k \notin S
    BY <1>1, <2>1, <2>3, KeepsAll
  <2> QED BY <2>2, <2>3
<1>6. derived' \in [Keys -> Columns] BY <1>1, <1>5
<1>7. ColumnUpdate
  BY <1>1, <1>6
  DEF ColumnUpdate, AfterVersion, AfterBranch, AfterCounts, AfterLinks, AfterAdded,
      AfterCanonical, AfterSync, AfterBackup, AfterTravel,
      AfterDwell, AfterBranchHeadway, AfterTrunk
<1> QED BY <1>1, <1>2, <1>4, <1>5, <1>7

\* ... dwell time,
LEMMA DwellEffect ==
    ASSUME TypeOK, RoundInv, UpdateDwell
    PROVE  /\ ColumnUpdate
           /\ pc = "dwell" /\ pc' = "branchHeadway"
           /\ \A k \in Keys :
                Keeps(derived'[k], derived[k],
                      {"prev", "next", "canonical", "sync", "travel", "trunk", "branch"})
           /\ \A k \in stored : DwellTime(k, loaded) # Null
                => derived'[k].dwell = DwellTime(k, loaded)
<1> DEFINE S == {k \in stored : DwellTime(k, loaded) # Null}
<1>1. /\ pc = "dwell" /\ pc' = "branchHeadway"
      /\ UNCHANGED <<loaded, batch, done, temp, version, staged, stored, events,
                     trips, trouble, unfinished, outdated, torn>>
      /\ derived' = [k \in Keys |->
                       IF k \in S THEN [derived[k] EXCEPT !.dwell = DwellTime(k, loaded)]
                       ELSE derived[k]]
  BY DEF UpdateDwell, At, SetColumns, UnchangedTrips, observers
<1>2. S \subseteq stored /\ stored \subseteq Keys BY DEF TypeOK
<1>3. \A k \in S : DwellTime(k, loaded) \in Nat
  BY <1>2, MetricTypes
<1>4. \A k \in stored : DwellTime(k, loaded) # Null => k \in S
  OBVIOUS
<1> HIDE DEF S
<1>5. ASSUME NEW k \in Keys
      PROVE  /\ derived'[k] \in Columns
             /\ Keeps(derived'[k], derived[k],
                      {"prev", "next", "canonical", "sync", "travel", "trunk", "branch"})
             /\ k \in S => derived'[k].dwell = DwellTime(k, loaded)
  <2>1. derived[k] \in Columns BY DEF TypeOK
  <2>2. CASE k \in S
    <3>1. derived'[k] = [derived[k] EXCEPT !.dwell = DwellTime(k, loaded)]
      BY <1>1, <2>2
    <3>2. DwellTime(k, loaded) \in Nat BY <1>3, <2>2
    <3>3. /\ derived'[k] \in Columns /\ derived'[k].dwell = DwellTime(k, loaded)
          /\ Keeps(derived'[k], derived[k],
                   {"prev", "next", "canonical", "sync", "travel", "trunk", "branch"})
      BY <2>1, <3>1, <3>2 DEF Columns, Keeps
    <3> QED BY <2>2, <3>3
  <2>3. CASE k \notin S
    BY <1>1, <2>1, <2>3, KeepsAll
  <2> QED BY <2>2, <2>3
<1>6. derived' \in [Keys -> Columns] BY <1>1, <1>5
<1>7. ColumnUpdate
  BY <1>1, <1>6
  DEF ColumnUpdate, AfterVersion, AfterBranch, AfterCounts, AfterLinks, AfterAdded,
      AfterCanonical, AfterSync, AfterBackup, AfterTravel,
      AfterDwell, AfterBranchHeadway, AfterTrunk
<1> QED BY <1>1, <1>2, <1>4, <1>5, <1>7

\* ... the headway on the branch,
LEMMA BranchHeadwayEffect ==
    ASSUME TypeOK, RoundInv, UpdateBranchHeadway
    PROVE  /\ ColumnUpdate
           /\ pc = "branchHeadway" /\ pc' = "trunkHeadway"
           /\ \A k \in Keys :
                Keeps(derived'[k], derived[k],
                      {"prev", "next", "canonical", "sync", "travel", "dwell", "trunk"})
           /\ \A k \in stored : BranchHeadway(k) # Null
                => derived'[k].branch = BranchHeadway(k)
<1> DEFINE S == {k \in stored : BranchHeadway(k) # Null}
<1>1. /\ pc = "branchHeadway" /\ pc' = "trunkHeadway"
      /\ UNCHANGED <<loaded, batch, done, temp, version, staged, stored, events,
                     trips, trouble, unfinished, outdated, torn>>
      /\ derived' = [k \in Keys |->
                       IF k \in S THEN [derived[k] EXCEPT !.branch = BranchHeadway(k)]
                       ELSE derived[k]]
  BY DEF UpdateBranchHeadway, At, SetColumns, UnchangedTrips, observers
<1>2. S \subseteq stored /\ stored \subseteq Keys BY DEF TypeOK
<1>3. \A k \in S : BranchHeadway(k) \in Nat
  BY <1>2, MetricTypes
<1>4. \A k \in stored : BranchHeadway(k) # Null => k \in S
  OBVIOUS
<1> HIDE DEF S
<1>5. ASSUME NEW k \in Keys
      PROVE  /\ derived'[k] \in Columns
             /\ Keeps(derived'[k], derived[k],
                      {"prev", "next", "canonical", "sync", "travel", "dwell", "trunk"})
             /\ k \in S => derived'[k].branch = BranchHeadway(k)
  <2>1. derived[k] \in Columns BY DEF TypeOK
  <2>2. CASE k \in S
    <3>1. derived'[k] = [derived[k] EXCEPT !.branch = BranchHeadway(k)]
      BY <1>1, <2>2
    <3>2. BranchHeadway(k) \in Nat BY <1>3, <2>2
    <3>3. /\ derived'[k] \in Columns /\ derived'[k].branch = BranchHeadway(k)
          /\ Keeps(derived'[k], derived[k],
                   {"prev", "next", "canonical", "sync", "travel", "dwell", "trunk"})
      BY <2>1, <3>1, <3>2 DEF Columns, Keeps
    <3> QED BY <2>2, <3>3
  <2>3. CASE k \notin S
    BY <1>1, <2>1, <2>3, KeepsAll
  <2> QED BY <2>2, <2>3
<1>6. derived' \in [Keys -> Columns] BY <1>1, <1>5
<1>7. ColumnUpdate
  BY <1>1, <1>6
  DEF ColumnUpdate, AfterVersion, AfterBranch, AfterCounts, AfterLinks, AfterAdded,
      AfterCanonical, AfterSync, AfterBackup, AfterTravel,
      AfterDwell, AfterBranchHeadway, AfterTrunk
<1> QED BY <1>1, <1>2, <1>4, <1>5, <1>7

\* ... and on the trunk.
LEMMA TrunkHeadwayEffect ==
    ASSUME TypeOK, RoundInv, UpdateTrunkHeadway
    PROVE  /\ ColumnUpdate
           /\ pc = "trunkHeadway" /\ pc' = "mark"
           /\ \A k \in Keys :
                Keeps(derived'[k], derived[k],
                      {"prev", "next", "canonical", "sync", "travel", "dwell", "branch"})
           /\ \A k \in stored : TrunkHeadway(k) # Null
                => derived'[k].trunk = TrunkHeadway(k)
<1> DEFINE S == {k \in stored : TrunkHeadway(k) # Null}
<1>1. /\ pc = "trunkHeadway" /\ pc' = "mark"
      /\ UNCHANGED <<loaded, batch, done, temp, version, staged, stored, events,
                     trips, trouble, unfinished, outdated, torn>>
      /\ derived' = [k \in Keys |->
                       IF k \in S THEN [derived[k] EXCEPT !.trunk = TrunkHeadway(k)]
                       ELSE derived[k]]
  BY DEF UpdateTrunkHeadway, At, SetColumns, UnchangedTrips, observers
<1>2. S \subseteq stored /\ stored \subseteq Keys BY DEF TypeOK
<1>3. \A k \in S : TrunkHeadway(k) \in Nat
  BY <1>2, MetricTypes
<1>4. \A k \in stored : TrunkHeadway(k) # Null => k \in S
  OBVIOUS
<1> HIDE DEF S
<1>5. ASSUME NEW k \in Keys
      PROVE  /\ derived'[k] \in Columns
             /\ Keeps(derived'[k], derived[k],
                      {"prev", "next", "canonical", "sync", "travel", "dwell", "branch"})
             /\ k \in S => derived'[k].trunk = TrunkHeadway(k)
  <2>1. derived[k] \in Columns BY DEF TypeOK
  <2>2. CASE k \in S
    <3>1. derived'[k] = [derived[k] EXCEPT !.trunk = TrunkHeadway(k)]
      BY <1>1, <2>2
    <3>2. TrunkHeadway(k) \in Nat BY <1>3, <2>2
    <3>3. /\ derived'[k] \in Columns /\ derived'[k].trunk = TrunkHeadway(k)
          /\ Keeps(derived'[k], derived[k],
                   {"prev", "next", "canonical", "sync", "travel", "dwell", "branch"})
      BY <2>1, <3>1, <3>2 DEF Columns, Keeps
    <3> QED BY <2>2, <3>3
  <2>3. CASE k \notin S
    BY <1>1, <2>1, <2>3, KeepsAll
  <2> QED BY <2>2, <2>3
<1>6. derived' \in [Keys -> Columns] BY <1>1, <1>5
<1>7. ColumnUpdate
  BY <1>1, <1>6
  DEF ColumnUpdate, AfterVersion, AfterBranch, AfterCounts, AfterLinks, AfterAdded,
      AfterCanonical, AfterSync, AfterBackup, AfterTravel,
      AfterDwell, AfterBranchHeadway, AfterTrunk
<1> QED BY <1>1, <1>2, <1>4, <1>5, <1>7

(***************************************************************************)
(* What the other statements change                                        *)
(***************************************************************************)

\* The rows left in temp_event_compare and those of vehicle_events have a
\* time.
HasTime(row) == {row.move, row.stop, row.tu} # {Null}

TimeInv ==
    /\ \A k \in staged : HasTime(temp[k])
    /\ \A k \in stored : HasTime(events[k])

\* What some objects say of an event.
Said(files, k) == {r \in Reports : r.object \in files /\ r.trip = TripOf(k)
                                   /\ r.station = StationOf(k)}

\* temp_event_compare: the rows have a time.
LEMMA LoadTempEffect ==
    ASSUME TypeOK, LoadTemp
    PROVE  /\ pc = "idle" /\ pc' = "trips" /\ version' = loaded
           /\ batch' \subseteq Objects /\ staged' \subseteq Keys
           /\ temp' \in [Keys -> EventTimes]
           /\ \A k \in staged' : HasTime(temp'[k])
           /\ UNCHANGED <<loaded, done, stored, events, derived, trips, observers>>
<1>1. PICK files \in SUBSET (Objects \ done) :
        /\ batch' = files
        /\ staged' = {k \in Keys : Said(files, k) # {}}
        /\ temp' = [k \in Keys |-> [move |-> Least({r.move : r \in Said(files, k)}),
                                    stop |-> Least({r.stop : r \in Said(files, k)}),
                                    tu |-> Least({r.tu : r \in Said(files, k)})]]
  BY DEF LoadTemp, Said
<1>2. ASSUME NEW k \in Keys
      PROVE  /\ temp'[k] \in EventTimes
             /\ Said(files, k) # {} => HasTime(temp'[k])
  <2>1. temp'[k] = [move |-> Least({r.move : r \in Said(files, k)}),
                    stop |-> Least({r.stop : r \in Said(files, k)}),
                    tu |-> Least({r.tu : r \in Said(files, k)})]
    BY <1>1
  <2>2. \A r \in Said(files, k) : /\ {r.move, r.stop, r.tu} \subseteq Times
                                  /\ {r.move, r.stop, r.tu} # {Null}
    BY RailTripsAssumption DEF Said
  <2>3. /\ {r.move : r \in Said(files, k)} \subseteq Times
        /\ {r.stop : r \in Said(files, k)} \subseteq Times
        /\ {r.tu : r \in Said(files, k)} \subseteq Times
    BY <2>2
  <2> DEFINE moves == {r.move : r \in Said(files, k)}
             stops == {r.stop : r \in Said(files, k)}
             tus == {r.tu : r \in Said(files, k)}
  <2>4. \A r \in Said(files, k) : r.move \in moves /\ r.stop \in stops /\ r.tu \in tus
    OBVIOUS
  <2>5. /\ temp'[k].move = Least(moves) /\ temp'[k].stop = Least(stops)
        /\ temp'[k].tu = Least(tus)
    BY <2>1
  <2>6. /\ Least(moves) \in Times /\ Least(stops) \in Times /\ Least(tus) \in Times
        /\ (\E m \in moves : m # Null) => Least(moves) # Null
        /\ (\E m \in stops : m # Null) => Least(stops) # Null
        /\ (\E m \in tus : m # Null) => Least(tus) # Null
    <3>1. moves \subseteq Times /\ stops \subseteq Times /\ tus \subseteq Times
      BY <2>3
    <3> HIDE DEF moves, stops, tus
    <3> QED BY <3>1, LeastTime
  <2>7. /\ temp'[k].move \in Times /\ temp'[k].stop \in Times /\ temp'[k].tu \in Times
        /\ \A r \in Said(files, k) : /\ r.move # Null => temp'[k].move # Null
                                     /\ r.stop # Null => temp'[k].stop # Null
                                     /\ r.tu # Null => temp'[k].tu # Null
    <3> HIDE DEF moves, stops, tus
    <3> QED BY <2>4, <2>5, <2>6
  <2>8. temp'[k] \in EventTimes BY <2>1, <2>7 DEF EventTimes
  <2>9. ASSUME NEW r \in Said(files, k) PROVE HasTime(temp'[k])
    <3>1. r.move # Null \/ r.stop # Null \/ r.tu # Null BY <2>2
    <3> QED BY <2>7, <3>1 DEF HasTime
  <2> QED BY <2>8, <2>9
<1>3. temp' \in [Keys -> EventTimes] BY <1>1, <1>2
<1> QED BY <1>1, <1>2, <1>3 DEF LoadTemp, TypeOK

\* Trips that are there already stay as they are.
LEMMA NewTripsEffect ==
    ASSUME TypeOK, RoundInv, LoadNewTrips
    PROVE  /\ pc = "trips" /\ pc' = "flag"
           /\ trips' \in [Trips -> TripRows]
           /\ Known' = Known \cup StagedTrips
           /\ \A t \in Known : trips'[t] = trips[t]
           /\ \A t \in StagedTrips \ Known :
                trips'[t] = [NoTrip EXCEPT !.known = TRUE, !.version = version,
                                           !.start = FeedStartOf[t]]
           /\ \A t \in Trips \ StagedTrips : trips'[t] = trips[t]
           /\ UNCHANGED <<loaded, batch, done, staged, temp, version, stored,
                          events, derived, observers>>
<1> DEFINE new(t) == [NoTrip EXCEPT !.known = TRUE, !.version = version,
                                    !.start = FeedStartOf[t]]
<1>1. trips' = [t \in Trips |-> IF t \in StagedTrips \ Known THEN new(t) ELSE trips[t]]
  BY DEF LoadNewTrips, SetTrips
<1>2. pc = "trips" /\ pc' = "flag"
      /\ UNCHANGED <<loaded, batch, done, staged, temp, version, stored, events,
                     derived, observers>>
  BY DEF LoadNewTrips, At, UnchangedEvents
<1>3. version \in Versions BY <1>2 DEF RoundInv, TypeOK
<1>4. ASSUME NEW t \in Trips
      PROVE  new(t) \in TripRows /\ new(t).known
  <2>1. FeedStartOf[t] \in Times BY ConstantTypes
  <2> QED BY <1>3, <2>1 DEF NoTrip, TripRows
<1>5. trips' \in [Trips -> TripRows]
  <2> HIDE DEF new
  <2> QED BY <1>1, <1>4 DEF TypeOK
<1>6. \A t \in Trips : trips'[t] = IF t \in StagedTrips \ Known THEN new(t) ELSE trips[t]
  BY <1>1
<1>7. Known' = Known \cup StagedTrips
  <2> HIDE DEF new
  <2>1. \A t \in Trips : trips'[t].known <=> t \in Known \cup StagedTrips
    BY <1>4, <1>6, Zenon DEF Known
  <2>2. Known' = {t \in Trips : trips'[t].known} BY DEF Known
  <2>3. Known \cup StagedTrips \subseteq Trips BY StagedTypes
  <2> QED BY <2>1, <2>2, <2>3, Zenon
<1> QED BY <1>2, <1>5, <1>6, <1>7, StagedTypes

\* Rows without change go, and without rows the round goes to its end.
LEMMA FlagEffect ==
    ASSUME TypeOK, FlagEvents
    PROVE  /\ pc = "flag" /\ pc' = IF staged' = {} THEN "mark" ELSE "merge"
           /\ staged' = {k \in staged : k \notin stored \/ ToUpdate(k)}
           /\ UNCHANGED <<loaded, batch, done, temp, version, stored, events,
                          derived, trips, observers>>
BY DEF FlagEvents, At, UnchangedTrips

\* Events of other trips stay as they are, and no time is lost.
LEMMA MergeEffect ==
    ASSUME TypeOK, MergeEvents
    PROVE  /\ pc = "merge" /\ pc' = "version"
           /\ stored' = stored \cup staged
           /\ events' \in [Keys -> EventTimes]
           /\ \A k \in Keys \ staged : events'[k] = events[k]
           /\ \A k \in stored : Real(k) => Real(k)'
           /\ TimeInv => \A k \in stored' : HasTime(events'[k])
           /\ UNCHANGED <<loaded, batch, done, staged, temp, version, derived,
                          trips, observers>>
<1> DEFINE merged(k) == [move |-> Least({temp[k].move, events[k].move}),
                         stop |-> Least({temp[k].stop, events[k].stop}),
                         tu |-> Coalesce(temp[k].tu, events[k].tu)]
<1>1. /\ pc = "merge" /\ pc' = "version"
      /\ stored' = stored \cup staged
      /\ events' = [k \in Keys |-> IF k \notin staged THEN events[k] ELSE merged(k)]
      /\ UNCHANGED <<loaded, batch, done, staged, temp, version, derived, trips,
                     observers>>
  BY DEF MergeEvents, At, UnchangedTrips
<1>2. ASSUME NEW k \in Keys
      PROVE  /\ merged(k) \in EventTimes /\ (HasTime(temp[k]) => HasTime(merged(k)))
             /\ events[k].move # Null => merged(k).move # Null
             /\ events[k].stop # Null => merged(k).stop # Null
  <2>1. /\ temp[k].move \in Times /\ temp[k].stop \in Times /\ temp[k].tu \in Times
        /\ events[k].move \in Times /\ events[k].stop \in Times /\ events[k].tu \in Times
    BY DEF TypeOK, EventTimes
  <2>2. /\ Least({temp[k].move, events[k].move}) \in Times
        /\ Least({temp[k].stop, events[k].stop}) \in Times
        /\ Coalesce(temp[k].tu, events[k].tu) \in Times
        /\ temp[k].move # Null => Least({temp[k].move, events[k].move}) # Null
        /\ temp[k].stop # Null => Least({temp[k].stop, events[k].stop}) # Null
        /\ temp[k].tu # Null => Coalesce(temp[k].tu, events[k].tu) # Null
        /\ events[k].move # Null => Least({temp[k].move, events[k].move}) # Null
        /\ events[k].stop # Null => Least({temp[k].stop, events[k].stop}) # Null
    BY <2>1, LeastTime DEF Coalesce
  <2> QED BY <2>2 DEF EventTimes, HasTime
<1>3. \A k \in Keys : events'[k] = IF k \notin staged THEN events[k] ELSE merged(k)
  BY <1>1
<1> HIDE DEF merged
<1>4. events' \in [Keys -> EventTimes] BY <1>1, <1>2 DEF TypeOK
<1>5. ASSUME TimeInv, NEW k \in stored'
      PROVE  HasTime(events'[k])
  BY <1>1, <1>2, <1>3, <1>5 DEF TimeInv, TypeOK
<1>6. ASSUME NEW k \in stored, Real(k) PROVE Real(k)'
  <2>1. k \in Keys /\ k \in stored' BY <1>1 DEF TypeOK
  <2>2. /\ events[k].move # Null => events'[k].move # Null
        /\ events[k].stop # Null => events'[k].stop # Null
    BY <1>2, <1>3, <2>1
  <2> QED BY <1>6, <2>1, <2>2 DEF Real
<1> QED BY <1>1, <1>3, <1>4, <1>5, <1>6

\* All trips get the version, and keep the rest.
LEMMA VersionEffect ==
    ASSUME TypeOK, RoundInv, UpdateVersion
    PROVE  /\ pc = "version" /\ pc' = "branch" /\ torn' = FALSE
           /\ trips' \in [Trips -> TripRows] /\ Known' = Known
           /\ \A t \in Known : trips'[t].version = version
           /\ \A t \in Known : Keeps(trips'[t], trips[t],
                {"start", "trunk", "branch", "count", "guess", "exact"})
           /\ \A t \in Trips \ Known : trips'[t] = trips[t]
           /\ outdated' = outdated \cup {t \in Known : trips[t].version # version}
           /\ UNCHANGED <<loaded, batch, done, staged, temp, version, stored,
                          events, derived, trouble, unfinished>>
<1>1. /\ pc = "version" /\ pc' = "branch" /\ torn' = FALSE
      /\ outdated' = outdated \cup {t \in Known : trips[t].version # version}
      /\ UNCHANGED <<loaded, batch, done, staged, temp, version, stored,
                     events, derived, trouble, unfinished>>
  BY DEF UpdateVersion, At, UnchangedEvents
<1>2. trips' = [t \in Trips |-> IF t \in Known THEN [trips[t] EXCEPT !.version = version]
                                ELSE trips[t]]
  BY DEF UpdateVersion, SetTrips
<1>3. version \in Versions BY <1>1 DEF RoundInv, TypeOK
<1>4. ASSUME NEW t \in Trips
      PROVE  /\ trips'[t] \in TripRows /\ trips'[t].known = trips[t].known
             /\ t \in Known => trips'[t].version = version
             /\ t \in Known => Keeps(trips'[t], trips[t],
                {"start", "trunk", "branch", "count", "guess", "exact"})
             /\ t \notin Known => trips'[t] = trips[t]
  <2>1. trips[t] \in TripRows BY DEF TypeOK
  <2>2. CASE t \in Known
    <3>1. trips'[t] = [trips[t] EXCEPT !.version = version] BY <1>2, <2>2
    <3>2. /\ trips'[t] \in TripRows /\ trips'[t].version = version
          /\ trips'[t].known = trips[t].known
      BY <1>3, <2>1, <3>1, VersionEdit
    <3>3. Keeps(trips'[t], trips[t],
                {"start", "trunk", "branch", "count", "guess", "exact"})
      BY <2>1, <3>1 DEF TripRows, Keeps
    <3> QED BY <2>2, <3>2, <3>3
  <2>3. CASE t \notin Known
    BY <1>2, <2>1, <2>3
  <2> QED BY <2>2, <2>3
<1>5. trips' \in [Trips -> TripRows] BY <1>2, <1>4
<1>6. Known' = Known
  <2>1. Known' = {t \in Trips : trips'[t].known} BY DEF Known
  <2> QED BY <1>4, <2>1 DEF Known
<1> QED BY <1>1, <1>4, <1>5, <1>6, StagedTypes

(***************************************************************************)
(* Types and the order of a round                                          *)
(***************************************************************************)

\* Every statement of a round, by what it may change.
LEMMA StagedActions ==
    ASSUME TypeOK, RoundInv,
           \/ UpdateBranch \/ UpdateStopCounts \/ MatchExact
           \/ ScheduledStarts \/ AddedStarts \/ BackupMatch
    PROVE  StagedUpdate
BY BranchEffect, CountsEffect, ExactEffect, StartsEffect, BackupEffect

\* ... and those on events.
LEMMA ColumnActions ==
    ASSUME TypeOK, RoundInv,
           \/ UpdateLinks \/ UpdateCanonical \/ UpdateSync \/ UpdateTravel
           \/ UpdateDwell \/ UpdateBranchHeadway \/ UpdateTrunkHeadway
    PROVE  ColumnUpdate
BY LinksEffect, CanonicalEffect, SyncEffect, TravelEffect, DwellEffect,
   BranchHeadwayEffect, TrunkHeadwayEffect

\* The steps after the one that sets the version.
LEMMA StepNames ==
    /\ AfterVersion \subseteq AfterMerge /\ AfterMerge \subseteq Steps
    /\ AfterMerge \cap {"idle", "trips", "flag"} = {}
    /\ \A step \in Steps \ AfterMerge : step \in BeforeMerge
    /\ AfterMerge = {"version"} \cup AfterVersion /\ "version" \notin AfterVersion
    /\ AfterMerge \cap BeforeMerge = {} /\ BeforeMerge \subseteq Steps
BY DEF AfterVersion, AfterMerge, AfterBranch, AfterCounts, AfterLinks, AfterAdded,
       AfterCanonical, AfterSync, AfterBackup, AfterTravel, AfterDwell,
       AfterBranchHeadway, AfterTrunk, Steps, BeforeMerge

\* A statement on trips changes neither which are known nor their version,
LEMMA StagedUpdateFrame ==
    ASSUME TypeOK, StagedUpdate
    PROVE  /\ Known' = Known /\ StagedTrips' = StagedTrips
           /\ \A t \in Trips : trips'[t].version = trips[t].version
<1>1. \A t \in Trips : trips'[t].known = trips[t].known
                       /\ trips'[t].version = trips[t].version
  BY DEF StagedUpdate, Keeps
<1>2. Known' = {t \in Trips : trips'[t].known} BY DEF Known
<1>3. Known' = Known BY <1>1, <1>2, Zenon DEF Known
<1>4. StagedTrips' = {TripOf(k) : k \in staged'} BY DEF StagedTrips
<1>5. StagedTrips' = StagedTrips BY <1>4 DEF StagedUpdate, StagedTrips
<1> QED BY <1>1, <1>3, <1>5

\* ... so it keeps types and order,
LEMMA StagedUpdateStep ==
    ASSUME TypeOK, RoundInv, StagedUpdate
    PROVE  TypeOK' /\ RoundInv'
<1>1. /\ Known' = Known /\ StagedTrips' = StagedTrips
      /\ \A t \in Trips : trips'[t].version = trips[t].version
  BY StagedUpdateFrame
<1>2. pc \in AfterVersion \ {"mark"} /\ pc' \in AfterVersion \ {"mark"}
  BY DEF StagedUpdate
<1>3. \A k \in stored : trips'[TripOf(k)].known
  <2>1. \A k \in stored : TripOf(k) \in Known
    BY ConstantTypes DEF TypeOK, Known
  <2>2. \A t \in Known' : trips'[t].known BY DEF Known
  <2> QED BY <1>1, <2>1, <2>2
<1>4. TypeOK'
  BY <1>1, <1>2, <1>3, StepNames DEF TypeOK, StagedUpdate
<1>5. /\ staged # {} /\ staged \subseteq stored /\ version = loaded
      /\ \A t \in Known : trips[t].version = version
      /\ \A t \in Known : trips[t].version \in Versions
      /\ StagedTrips \subseteq Known
  BY <1>2, StepNames DEF RoundInv
<1>6. Known \subseteq Trips BY StagedTypes
<1>7. RoundInv'
  BY <1>1, <1>5, <1>6 DEF RoundInv, StagedUpdate
<1> QED BY <1>4, <1>7

\* ... as a statement on events does.
LEMMA ColumnUpdateStep ==
    ASSUME TypeOK, RoundInv, ColumnUpdate
    PROVE  /\ TypeOK' /\ RoundInv'
           /\ Known' = Known /\ StagedTrips' = StagedTrips
<1>1. Known' = Known /\ StagedTrips' = StagedTrips
  BY DEF ColumnUpdate, Known, StagedTrips
<1>2. pc \in AfterVersion \ {"mark"} /\ pc' \in AfterVersion
  BY DEF ColumnUpdate
<1>3. TypeOK'
  BY <1>1, <1>2, StepNames DEF TypeOK, ColumnUpdate
<1>4. /\ staged # {} /\ staged \subseteq stored /\ version = loaded
      /\ \A t \in Known : trips[t].version = version
      /\ \A t \in Known : trips[t].version \in Versions
      /\ StagedTrips \subseteq Known
  BY <1>2, StepNames DEF RoundInv
<1>5. RoundInv'
  BY <1>1, <1>4 DEF RoundInv, ColumnUpdate
<1> QED BY <1>1, <1>3, <1>5

\* They hold at first,
LEMMA RoundInit ==
    ASSUME Init
    PROVE  TypeOK /\ RoundInv /\ TimeInv
<1>1. Null \in Times /\ Null \in Nat BY ConstantTypes
<1>2. NoTimes \in EventTimes BY <1>1 DEF NoTimes, EventTimes
<1>3. NoColumns \in Columns BY <1>1 DEF NoColumns, Columns
<1>4. NoTrip \in TripRows BY <1>1 DEF NoTrip, TripRows
<1>5. Known = {} BY DEF Init, Known, NoTrip
<1>6. TypeOK
  BY <1>2, <1>3, <1>4, <1>5, RailTripsAssumption DEF Init, TypeOK, Steps
<1>7. StagedTrips = {} BY DEF Init, StagedTrips
<1>8. RoundInv BY <1>5, <1>7, StepNames DEF RoundInv, Init
<1>9. TimeInv BY DEF TimeInv, Init
<1> QED BY <1>6, <1>8, <1>9

\* ... and every step keeps types, order and times.
LEMMA RoundStep ==
    ASSUME TypeOK, RoundInv, TimeInv, [Next]_vars
    PROVE  TypeOK' /\ RoundInv' /\ TimeInv'
<1> USE StepNames
<1>1. CASE UNCHANGED vars
  BY <1>1 DEF vars, TypeOK, RoundInv, TimeInv, Known, StagedTrips
<1>2. CASE LoadSchedule
  <2>1. UNCHANGED <<pc, batch, done, staged, temp, version, stored, events, derived,
                    trips, trouble, unfinished, outdated, torn>>
        /\ loaded' \in Versions /\ pc = "idle"
    BY <1>2 DEF LoadSchedule, observers
  <2>2. Known' = Known /\ StagedTrips' = StagedTrips
    BY <2>1 DEF Known, StagedTrips
  <2> QED BY <2>1, <2>2 DEF TypeOK, RoundInv, TimeInv
<1>3. CASE LoadTemp
  <2>1. /\ pc = "idle" /\ pc' = "trips" /\ version' = loaded
        /\ batch' \subseteq Objects /\ staged' \subseteq Keys
        /\ temp' \in [Keys -> EventTimes]
        /\ \A k \in staged' : HasTime(temp'[k])
        /\ UNCHANGED <<loaded, done, stored, events, derived, trips, trouble,
                       unfinished, outdated, torn>>
    BY <1>3, LoadTempEffect DEF observers
  <2>2. Known' = Known BY <2>1 DEF Known
  <2>3. TypeOK' BY <2>1, <2>2 DEF TypeOK, Steps
  <2> QED BY <2>1, <2>2, <2>3 DEF RoundInv, TimeInv
<1>4. CASE LoadNewTrips
  <2>1. /\ pc = "trips" /\ pc' = "flag"
        /\ trips' \in [Trips -> TripRows]
        /\ Known' = Known \cup StagedTrips
        /\ \A t \in Known : trips'[t] = trips[t]
        /\ \A t \in StagedTrips \ Known :
             trips'[t] = [NoTrip EXCEPT !.known = TRUE, !.version = version,
                                        !.start = FeedStartOf[t]]
        /\ UNCHANGED <<loaded, batch, done, staged, temp, version, stored,
                       events, derived, trouble, unfinished, outdated, torn>>
    BY <1>4, NewTripsEffect DEF observers
  <2>2. StagedTrips' = StagedTrips BY <2>1 DEF StagedTrips
  <2>3. \A k \in stored : trips'[TripOf(k)].known
    <3>1. \A k \in stored : TripOf(k) \in Known
      BY ConstantTypes DEF TypeOK, Known
    <3> QED BY <2>1, <3>1 DEF TypeOK
  <2>4. TypeOK' BY <2>1, <2>3 DEF TypeOK, Steps
  <2>5. version \in Versions BY <2>1 DEF TypeOK, RoundInv
  <2>6. \A t \in Known' : trips'[t].version \in Versions
    <3>1. ASSUME NEW t \in StagedTrips \ Known PROVE trips'[t].version = version
      <4>1. trips'[t] = [NoTrip EXCEPT !.known = TRUE, !.version = version,
                                       !.start = FeedStartOf[t]]
        BY <2>1
      <4> QED BY <4>1 DEF NoTrip
    <3> QED BY <2>1, <2>5, <3>1 DEF RoundInv
  <2> QED BY <2>1, <2>2, <2>4, <2>6 DEF RoundInv, TimeInv
<1>5. CASE FlagEvents
  <2>1. /\ pc = "flag" /\ pc' = IF staged' = {} THEN "mark" ELSE "merge"
        /\ staged' \subseteq staged
        /\ UNCHANGED <<loaded, batch, done, temp, version, stored, events,
                       derived, trips, trouble, unfinished, outdated, torn>>
    BY <1>5, FlagEffect DEF observers
  <2>2. Known' = Known /\ StagedTrips' \subseteq StagedTrips
    BY <2>1 DEF Known, StagedTrips
  <2>3. TypeOK' BY <2>1, <2>2 DEF TypeOK, Steps
  <2>4. pc' \notin AfterMerge \/ (pc' = "mark" /\ staged' = {})
    <3>1. "merge" \notin AfterMerge BY DEF BeforeMerge
    <3> QED BY <2>1, <3>1
  <2>5. StagedTrips' \subseteq Known' BY <2>1, <2>2 DEF RoundInv
  <2>6. RoundInv'
    BY <2>1, <2>2, <2>4, <2>5 DEF RoundInv
  <2> QED BY <2>1, <2>3, <2>6 DEF TimeInv
<1>6. CASE MergeEvents
  <2>1. /\ pc = "merge" /\ pc' = "version"
        /\ stored' = stored \cup staged
        /\ events' \in [Keys -> EventTimes]
        /\ \A k \in stored' : HasTime(events'[k])
        /\ UNCHANGED <<loaded, batch, done, staged, temp, version, derived,
                       trips, trouble, unfinished, outdated, torn>>
    BY <1>6, MergeEffect DEF observers
  <2>2. Known' = Known /\ StagedTrips' = StagedTrips
    BY <2>1 DEF Known, StagedTrips
  <2>3. \A k \in staged : trips[TripOf(k)].known
    BY <2>1 DEF RoundInv, StagedTrips, Known
  <2>4. TypeOK' BY <2>1, <2>2, <2>3 DEF TypeOK, Steps
  <2> QED BY <2>1, <2>2, <2>4 DEF RoundInv, TimeInv
<1>7. CASE UpdateVersion
  <2>1. /\ pc = "version" /\ pc' = "branch" /\ torn' = FALSE
        /\ trips' \in [Trips -> TripRows] /\ Known' = Known
        /\ \A t \in Known : trips'[t].version = version
        /\ outdated' = outdated \cup {t \in Known : trips[t].version # version}
        /\ UNCHANGED <<loaded, batch, done, staged, temp, version, stored,
                       events, derived, trouble, unfinished>>
    BY <1>7, VersionEffect
  <2>2. StagedTrips' = StagedTrips BY <2>1 DEF StagedTrips
  <2>3. \A k \in stored : trips'[TripOf(k)].known
    <3>1. \A k \in stored : TripOf(k) \in Known
      BY ConstantTypes DEF TypeOK, Known
    <3>2. \A t \in Known' : trips'[t].known BY DEF Known
    <3> QED BY <2>1, <3>1, <3>2
  <2>4. outdated' \subseteq Known BY <2>1 DEF TypeOK
  <2>5. TypeOK' BY <2>1, <2>3, <2>4 DEF TypeOK, Steps
  <2>6. version \in Versions BY <2>1 DEF TypeOK, RoundInv
  <2> QED BY <2>1, <2>2, <2>5, <2>6 DEF RoundInv, TimeInv
<1>8. CASE \/ UpdateBranch \/ UpdateStopCounts \/ MatchExact
           \/ ScheduledStarts \/ AddedStarts \/ BackupMatch
  <2>1. StagedUpdate BY <1>8, StagedActions
  <2> QED BY <2>1, StagedUpdateStep DEF TimeInv, StagedUpdate
<1>9. CASE \/ UpdateLinks \/ UpdateCanonical \/ UpdateSync \/ UpdateTravel
           \/ UpdateDwell \/ UpdateBranchHeadway \/ UpdateTrunkHeadway
  <2>1. ColumnUpdate BY <1>9, ColumnActions
  <2> QED BY <2>1, ColumnUpdateStep DEF TimeInv, ColumnUpdate
<1>10. CASE MarkProcessed
  <2>1. /\ pc = "mark" /\ pc' = "idle" /\ done' = done \cup batch
        /\ unfinished' \subseteq unfinished
        /\ UNCHANGED <<loaded, batch, temp, version, trips, trouble, outdated, torn,
                       staged, stored, events, derived>>
    BY <1>10 DEF MarkProcessed, UnchangedEvents
  <2>2. Known' = Known BY <2>1 DEF Known
  <2> QED BY <2>1, <2>2 DEF TypeOK, RoundInv, TimeInv, Steps
<1>11. CASE CutShort
  <2>1. /\ pc \notin {"idle", "mark"} /\ pc' = "idle" /\ trouble' = trouble + 1
        /\ done' \in {done, done \cup batch}
        /\ unfinished' = IF pc \in {"trips", "flag", "merge"} THEN unfinished
                         ELSE unfinished \cup StagedTrips
        /\ torn' = (torn \/ pc \in {"flag", "merge", "version"})
        /\ UNCHANGED <<loaded, batch, temp, version, trips, outdated,
                       staged, stored, events, derived>>
    BY <1>11 DEF CutShort, UnchangedEvents
  <2>2. Known' = Known BY <2>1 DEF Known
  <2>3. unfinished' \subseteq Known BY <2>1 DEF TypeOK, RoundInv
  <2>4. torn' \in BOOLEAN /\ trouble' \in Nat BY <2>1 DEF TypeOK
  <2>5. TypeOK' BY <2>1, <2>2, <2>3, <2>4 DEF TypeOK, Steps
  <2> QED BY <2>1, <2>2, <2>5 DEF RoundInv, TimeInv
<1> QED
  BY <1>1, <1>2, <1>3, <1>4, <1>5, <1>6, <1>7, <1>8, <1>9, <1>10, <1>11 DEF Next

\* The columns have their types and every event has its trip, with the rows of
\* a round known as trips before its events are merged.
THEOREM TypeCorrect == Spec => []TypeOK
<1>1. Init => TypeOK /\ RoundInv /\ TimeInv BY RoundInit
<1>2. (TypeOK /\ RoundInv /\ TimeInv) /\ [Next]_vars => (TypeOK /\ RoundInv /\ TimeInv)'
  BY RoundStep
<1> QED BY <1>1, <1>2, PTL DEF Spec

(***************************************************************************)
(* One version of the schedule per day                                     *)
(***************************************************************************)

Agree == \A t, u \in Known : trips[t].version = trips[u].version

\* While no round ended in between, trips disagree about the version only
\* between the load of a round's new trips and the update of all trips, and
\* such a round has rows to merge.
VersionInv ==
    ~torn => /\ pc \in {"idle", "trips", "mark"} => Agree
             /\ pc = "flag" => Agree \/ ~(staged \subseteq stored)

\* Every step keeps the versions together.
LEMMA VersionStep ==
    ASSUME TypeOK, RoundInv, VersionInv, [Next]_vars
    PROVE  VersionInv'
<1> SUFFICES ASSUME ~torn'
             PROVE  /\ pc' \in {"idle", "trips", "mark"} => Agree'
                    /\ pc' = "flag" => Agree' \/ ~(staged' \subseteq stored')
  BY DEF VersionInv
<1> USE StepNames
<1>1. CASE UNCHANGED vars
  BY <1>1 DEF vars, VersionInv, Agree, Known
<1>2. CASE LoadSchedule
  BY <1>2 DEF LoadSchedule, observers, VersionInv, Agree, Known
<1>3. CASE LoadTemp
  BY <1>3, LoadTempEffect DEF observers, VersionInv, Agree, Known
<1>4. CASE LoadNewTrips
  <2>1. /\ pc = "trips" /\ pc' = "flag" /\ torn' = torn
        /\ Known' = Known \cup StagedTrips
        /\ \A t \in Known : trips'[t] = trips[t]
        /\ staged' = staged /\ stored' = stored
    BY <1>4, NewTripsEffect DEF observers
  <2>2. CASE StagedTrips \subseteq Known
    BY <2>1, <2>2 DEF VersionInv, Agree
  <2>3. CASE ~(StagedTrips \subseteq Known)
    <3>1. PICK k \in staged : TripOf(k) \notin Known BY <2>3 DEF StagedTrips
    <3>2. k \notin stored BY <3>1, ConstantTypes DEF TypeOK, Known
    <3> QED BY <2>1, <3>1, <3>2
  <2> QED BY <2>2, <2>3
<1>5. CASE FlagEvents
  <2>1. /\ pc = "flag" /\ pc' = IF staged' = {} THEN "mark" ELSE "merge"
        /\ staged' = {k \in staged : k \notin stored \/ ToUpdate(k)}
        /\ torn' = torn /\ trips' = trips
    BY <1>5, FlagEffect DEF observers
  <2>2. staged' = {} => staged \subseteq stored BY <2>1
  <2> QED BY <2>1, <2>2 DEF VersionInv, Agree, Known
<1>6. CASE MergeEvents
  BY <1>6, MergeEffect
<1>7. CASE UpdateVersion
  BY <1>7, VersionEffect
<1>8. CASE \/ UpdateBranch \/ UpdateStopCounts \/ MatchExact
           \/ ScheduledStarts \/ AddedStarts \/ BackupMatch
  <2>1. StagedUpdate BY <1>8, StagedActions
  <2> QED BY <2>1 DEF StagedUpdate
<1>9. CASE \/ UpdateLinks \/ UpdateCanonical \/ UpdateSync \/ UpdateTravel
           \/ UpdateDwell \/ UpdateBranchHeadway \/ UpdateTrunkHeadway
  <2>1. ColumnUpdate BY <1>9, ColumnActions
  <2>2. /\ pc \in AfterVersion \ {"mark"} /\ pc' \in AfterVersion
        /\ trips' = trips
    BY <2>1 DEF ColumnUpdate
  <2>3. \A t \in Known : trips[t].version = version
    BY <2>2 DEF RoundInv
  <2>4. Agree' BY <2>2, <2>3 DEF Agree, Known
  <2> QED BY <2>2, <2>4
<1>10. CASE MarkProcessed
  BY <1>10 DEF MarkProcessed, VersionInv, Agree, Known
<1>11. CASE CutShort
  <2>1. /\ pc \notin {"idle", "mark"} /\ pc' = "idle" /\ trips' = trips
        /\ torn' = (torn \/ pc \in {"flag", "merge", "version"})
    BY <1>11 DEF CutShort
  <2>2. ~torn /\ pc \notin {"flag", "merge", "version"} BY <2>1
  <2>3. CASE pc = "trips"
    BY <2>1, <2>2, <2>3 DEF VersionInv, Agree, Known
  <2>4. CASE pc # "trips"
    <3>1. pc \in AfterVersion
      BY <2>1, <2>2, <2>4 DEF TypeOK, BeforeMerge
    <3>2. \A t \in Known : trips[t].version = version
      BY <2>1, <2>2, <2>4, <3>1 DEF RoundInv
    <3> QED BY <2>1, <3>2 DEF Agree, Known
  <2> QED BY <2>3, <2>4
<1> QED
  BY <1>1, <1>2, <1>3, <1>4, <1>5, <1>6, <1>7, <1>8, <1>9, <1>10, <1>11 DEF Next

\* All trips of the date refer to the same version of the schedule between
\* rounds, unless a round ended between the load of its trips and the update
\* of the versions and none has come as far since.
THEOREM DayUsesOneVersion == Spec => []OneVersionPerDay
<1>1. Init => TypeOK /\ RoundInv /\ TimeInv /\ VersionInv
  <2>1. Init => Known = {} BY DEF Init, Known, NoTrip
  <2> QED BY <2>1, RoundInit DEF Init, VersionInv, Agree
<1>2. (TypeOK /\ RoundInv /\ TimeInv /\ VersionInv) /\ [Next]_vars
        => (TypeOK /\ RoundInv /\ TimeInv /\ VersionInv)'
  BY RoundStep, VersionStep
<1>3. VersionInv => OneVersionPerDay BY DEF VersionInv, OneVersionPerDay, Agree
<1> QED BY <1>1, <1>2, <1>3, PTL DEF Spec

(***************************************************************************)
(* The closest static trip                                                 *)
(***************************************************************************)

\* Candidates and Closest, read from a row of vehicle_trips.
Options(t, row) ==
    {s \in Schedule[row.version] :
        /\ InService(row.version, row.version)
        /\ s.direction = DirectionOf[t]
        /\ StaticRoute(s) = IF row.branch = "none" THEN row.trunk ELSE row.branch}
Far(row, s) ==
    IF row.start >= s.start THEN row.start - s.start ELSE s.start - row.start
Nearest(t, row) ==
    {s.trip : s \in {u \in Options(t, row) :
        \A w \in Options(t, row) : Far(row, u) <= Far(row, w)}}

MatchedRow(t, row) ==
    ~row.exact /\ Options(t, row) # {} => row.start # Null /\ row.guess \in Nearest(t, row)
Matched(t) == KeysOf(t) # {} => MatchedRow(t, trips[t])

\* These are Candidates and Closest.
LEMMA SameOptions ==
    ASSUME NEW t
    PROVE  /\ Candidates(t, trips[t].version) = Options(t, trips[t])
           /\ Closest(t, trips[t].version) = Nearest(t, trips[t])
BY DEF Candidates, Options, Closest, Nearest, Distance, Far

\* The nearest static trips depend on four columns ...
LEMMA NearestFrame ==
    ASSUME NEW t, NEW row, NEW new,
           Keeps(new, row, {"version", "start", "branch", "trunk"})
    PROVE  Options(t, new) = Options(t, row) /\ Nearest(t, new) = Nearest(t, row)
<1>1. /\ new.version = row.version /\ new.start = row.start
      /\ new.branch = row.branch /\ new.trunk = row.trunk
  BY DEF Keeps
<1>2. Options(t, new) = Options(t, row) BY <1>1 DEF Options
<1>3. \A s : Far(new, s) = Far(row, s) BY <1>1 DEF Far
<1> QED BY <1>2, <1>3 DEF Nearest

\* ... and there is one when there is any candidate.
LEMMA NearestExists ==
    ASSUME NEW t, NEW row \in TripRows, row.version \in Versions, Options(t, row) # {}
    PROVE  Nearest(t, row) # {}
<1> DEFINE D == {Far(row, s) : s \in Options(t, row)}
<1>1. ASSUME NEW s \in Options(t, row) PROVE Far(row, s) \in Nat
  <2>1. s \in Schedule[row.version] BY DEF Options
  <2>2. s.start \in Nat BY <2>1, RailTripsAssumption DEF Times
  <2>3. row.start \in Nat BY ConstantTypes DEF TripRows
  <2> QED BY <2>2, <2>3 DEF Far
<1>2. D \subseteq Nat /\ D # {} BY <1>1
<1>3. PICK d \in D : \A e \in D : d <= e
  <2> HIDE DEF D
  <2> QED BY <1>2, LeastNumber
<1>4. PICK s \in Options(t, row) : d = Far(row, s) BY <1>3
<1>5. \A w \in Options(t, row) : Far(row, s) <= Far(row, w) BY <1>3, <1>4
<1> QED BY <1>4, <1>5 DEF Nearest

\* A trip with events has a start time when the statements on start times are
\* through.
LEMMA FirstTimeExists ==
    ASSUME TypeOK, TimeInv, NEW t \in Trips, KeysOf(t) # {}
    PROVE  FirstTime(t) # Null
<1> DEFINE moves == {events[k].move : k \in KeysOf(t)}
           stops == {events[k].stop : k \in KeysOf(t)}
           tus == {events[k].tu : k \in KeysOf(t)}
<1>1. PICK k \in KeysOf(t) : HasTime(events[k]) BY DEF TimeInv, KeysOf
<1>2. /\ events[k].move \in moves /\ events[k].stop \in stops /\ events[k].tu \in tus
      /\ events[k].move # Null \/ events[k].stop # Null \/ events[k].tu # Null
  BY <1>1 DEF HasTime
<1>3. moves \subseteq Times /\ stops \subseteq Times /\ tus \subseteq Times
  BY EventTypes
<1>4. FirstTime(t) = Coalesce(Least(moves), Coalesce(Least(stops), Least(tus)))
  BY DEF FirstTime
<1> HIDE DEF moves, stops, tus
<1>5. /\ events[k].move # Null => Least(moves) # Null
      /\ events[k].stop # Null => Least(stops) # Null
      /\ events[k].tu # Null => Least(tus) # Null
  BY <1>2, <1>3, LeastTime
<1> QED BY <1>2, <1>4, <1>5 DEF Coalesce

\* A trip has its match unless its last round did not come so far, or it got
\* another version since; during a round the trips with new events may be
\* without one until the statement that matches them, and have a start time
\* before that.
MatchInv ==
    /\ \A t \in Known \ (unfinished \cup outdated) :
          pc \in BeforeMerge \/ t \notin StagedTrips => Matched(t)
    /\ pc \in AfterBackup => \A t \in StagedTrips : Matched(t)
    /\ pc \in AfterAdded => \A t \in StagedTrips : trips[t].start # Null
    /\ \A t \in Known : FeedStartOf[t] # Null => trips[t].start # Null

\* The statements of a round that match nothing yet.
LEMMA MatchStaged ==
    ASSUME TypeOK, RoundInv, TimeInv, MatchInv,
           \/ UpdateBranch \/ UpdateStopCounts \/ MatchExact
           \/ ScheduledStarts \/ AddedStarts
    PROVE  MatchInv'
<1> USE StepNames
<1>1. StagedUpdate BY StagedActions
<1>2. /\ outdated' = outdated
      /\ pc \in {"branch", "counts", "exact", "starts", "added"}
      /\ pc' \in {"counts", "links", "starts", "added", "canonical"}
      /\ pc' = "canonical" => AddedStarts
      /\ \A t \in StagedTrips : trips[t].start # Null
                                  => trips'[t].start = trips[t].start
  <2>1. CASE UpdateBranch
    BY <2>1, BranchEffect DEF Keeps
  <2>2. CASE UpdateStopCounts
    BY <2>2, CountsEffect DEF Keeps
  <2>3. CASE MatchExact
    BY <2>3, ExactEffect DEF Keeps
  <2>4. CASE ScheduledStarts
    <3>1. pc' = "added" BY <2>4 DEF ScheduledStarts, At
    <3> QED BY <2>4, <3>1, StartsEffect
  <2>5. CASE AddedStarts
    BY <2>5, StartsEffect
  <2> QED BY <2>1, <2>2, <2>3, <2>4, <2>5
<1>3. /\ Known' = Known /\ StagedTrips' = StagedTrips
      /\ unfinished' = unfinished /\ stored' = stored /\ staged' = staged
      /\ \A t \in Trips \ StagedTrips : trips'[t] = trips[t]
  BY <1>1, StagedUpdateFrame DEF StagedUpdate
<1>4. \A t : KeysOf(t)' = KeysOf(t) BY <1>3 DEF KeysOf
<1>5. /\ StagedTrips \subseteq Known /\ Known \subseteq Trips
      /\ staged \subseteq stored
  BY <1>1, StagedTypes DEF StagedUpdate, RoundInv
<1>6. pc \notin BeforeMerge /\ pc' \notin BeforeMerge /\ pc' \notin AfterBackup
  BY <1>2 DEF BeforeMerge, AfterBackup, AfterTravel, AfterDwell, AfterBranchHeadway,
              AfterTrunk
<1>7. ASSUME NEW t \in Known \ (unfinished \cup outdated), t \notin StagedTrips
      PROVE  Matched(t)'
  <2>1. Matched(t) BY <1>7 DEF MatchInv
  <2>2. trips'[t] = trips[t] BY <1>3, <1>5, <1>7
  <2> QED BY <1>4, <2>1, <2>2 DEF Matched
<1>8. \A t \in Known : FeedStartOf[t] # Null => trips'[t].start # Null
  BY <1>2, <1>3, <1>5 DEF MatchInv
<1>9. ASSUME pc' = "canonical", NEW t \in StagedTrips
      PROVE  trips'[t].start # Null
  <2>1. AddedStarts BY <1>2, <1>9
  <2>2. KeysOf(t) # {} BY <1>5 DEF StagedTrips, KeysOf
  <2>3. FirstTime(t) # Null BY <1>5, <2>2, FirstTimeExists
  <2>4. FeedStartOf[t] # Null => trips[t].start # Null BY <1>5 DEF MatchInv
  <2> QED BY <1>2, <2>1, <2>3, <2>4, StartsEffect
<1>10. pc' \in AfterAdded => pc' = "canonical"
  BY <1>2 DEF AfterAdded, AfterCanonical, AfterSync, AfterBackup, AfterTravel,
              AfterDwell, AfterBranchHeadway, AfterTrunk
<1> QED BY <1>2, <1>3, <1>6, <1>7, <1>8, <1>9, <1>10 DEF MatchInv

\* The statement that matches.
LEMMA MatchBackup ==
    ASSUME TypeOK, RoundInv, MatchInv, BackupMatch
    PROVE  MatchInv'
<1> USE StepNames
<1>1. /\ StagedUpdate /\ outdated' = outdated \ StagedTrips
      /\ pc = "backup" /\ pc' = "travel"
  BY BackupEffect
<1>2. /\ Known' = Known /\ StagedTrips' = StagedTrips
      /\ unfinished' = unfinished /\ stored' = stored /\ staged' = staged
      /\ \A t \in Trips \ StagedTrips : trips'[t] = trips[t]
  BY <1>1, StagedUpdateFrame DEF StagedUpdate
<1>3. \A t : KeysOf(t)' = KeysOf(t) BY <1>2 DEF KeysOf
<1>4. /\ StagedTrips \subseteq Known /\ Known \subseteq Trips
      /\ staged # {} /\ version = loaded /\ pc \in AfterVersion /\ pc \in AfterAdded
  BY <1>1, StagedTypes DEF RoundInv, StagedUpdate, AfterAdded, AfterCanonical, AfterSync
<1>5. \A t \in StagedTrips : trips[t].version = loaded /\ trips[t].version \in Versions
                             /\ trips[t].start # Null
  BY <1>4 DEF RoundInv, MatchInv
<1>6. ASSUME NEW t \in Known \ (unfinished \cup outdated), t \notin StagedTrips
      PROVE  Matched(t)'
  <2>1. Matched(t) BY <1>6 DEF MatchInv
  <2>2. trips'[t] = trips[t] BY <1>2, <1>4, <1>6
  <2> QED BY <1>3, <2>1, <2>2 DEF Matched
<1>7. ASSUME NEW t \in StagedTrips
      PROVE  trips'[t].start # Null /\ MatchedRow(t, trips'[t])
  <2>1. t \in Trips BY <1>4
  <2>2. /\ Keeps(trips'[t], trips[t], {"start", "trunk", "branch", "count", "exact"})
        /\ Keeps(trips'[t], trips[t], {"known", "version"})
        /\ ~trips[t].exact /\ Closest(t, loaded) # {}
             => trips'[t].guess \in Closest(t, loaded)
    BY <1>1, <2>1, BackupEffect DEF StagedUpdate
  <2>3. Keeps(trips'[t], trips[t], {"version", "start", "branch", "trunk"})
    BY <2>2 DEF Keeps
  <2>4. /\ Options(t, trips'[t]) = Options(t, trips[t])
        /\ Nearest(t, trips'[t]) = Nearest(t, trips[t])
    <3>1. ASSUME NEW row, NEW new, Keeps(new, row, {"version", "start", "branch", "trunk"})
          PROVE  Options(t, new) = Options(t, row) /\ Nearest(t, new) = Nearest(t, row)
      BY <3>1, NearestFrame
    <3> QED BY <2>3, <3>1
  <2>5. Closest(t, loaded) = Nearest(t, trips[t])
    BY <1>5, SameOptions
  <2>6. trips'[t].exact = trips[t].exact /\ trips'[t].start = trips[t].start
    BY <2>2 DEF Keeps
  <2>7. Options(t, trips[t]) # {} => Nearest(t, trips[t]) # {}
    BY <1>5, <2>1, NearestExists DEF TypeOK
  <2> QED BY <1>5, <2>2, <2>4, <2>5, <2>6, <2>7 DEF MatchedRow
<1>8. \A t \in StagedTrips : Matched(t)'
  BY <1>7 DEF Matched
<1>9. \A t \in Known : FeedStartOf[t] # Null => trips'[t].start # Null
  BY <1>2, <1>4, <1>7 DEF MatchInv
<1>10. pc' \notin BeforeMerge BY <1>1 DEF BeforeMerge
<1> QED BY <1>1, <1>2, <1>6, <1>7, <1>8, <1>9, <1>10 DEF MatchInv

\* Every step keeps the matches.
LEMMA MatchStep ==
    ASSUME TypeOK, RoundInv, TimeInv, MatchInv, [Next]_vars
    PROVE  MatchInv'
<1> USE StepNames
<1>1. CASE UNCHANGED <<trips, stored, staged, pc, unfinished, outdated>>
  <2>1. Known' = Known /\ StagedTrips' = StagedTrips /\ \A t : KeysOf(t)' = KeysOf(t)
    BY <1>1 DEF Known, StagedTrips, KeysOf
  <2>2. \A t : Matched(t)' <=> Matched(t) BY <1>1, <2>1 DEF Matched
  <2> QED BY <1>1, <2>1, <2>2 DEF MatchInv
<1>2. CASE UNCHANGED vars \/ LoadSchedule
  <2>1. UNCHANGED <<trips, stored, staged, pc, unfinished, outdated>>
    BY <1>2 DEF vars, LoadSchedule, observers
  <2> QED BY <1>1, <2>1
<1>3. CASE LoadTemp
  <2>1. /\ pc = "idle" /\ pc' = "trips"
        /\ UNCHANGED <<trips, stored, unfinished, outdated>>
    BY <1>3, LoadTempEffect DEF observers
  <2>2. Known' = Known /\ \A t : KeysOf(t)' = KeysOf(t)
    BY <2>1 DEF Known, KeysOf
  <2>3. \A t : Matched(t)' <=> Matched(t) BY <2>1, <2>2 DEF Matched
  <2>4. pc \in BeforeMerge /\ pc' \notin AfterBackup /\ pc' \notin AfterAdded
    BY <2>1 DEF BeforeMerge, AfterAdded, AfterCanonical, AfterSync, AfterBackup,
                AfterTravel, AfterDwell, AfterBranchHeadway, AfterTrunk
  <2> QED BY <2>1, <2>2, <2>3, <2>4 DEF MatchInv
<1>4. CASE LoadNewTrips
  <2>1. /\ pc = "trips" /\ pc' = "flag"
        /\ Known' = Known \cup StagedTrips
        /\ \A t \in Known : trips'[t] = trips[t]
        /\ \A t \in StagedTrips \ Known :
             trips'[t] = [NoTrip EXCEPT !.known = TRUE, !.version = version,
                                        !.start = FeedStartOf[t]]
        /\ UNCHANGED <<staged, stored, unfinished, outdated>>
    BY <1>4, NewTripsEffect DEF observers
  <2>2. \A t : KeysOf(t)' = KeysOf(t) BY <2>1 DEF KeysOf
  <2>3. pc \in BeforeMerge /\ pc' \notin AfterBackup /\ pc' \notin AfterAdded
    BY <2>1 DEF BeforeMerge, AfterAdded, AfterCanonical, AfterSync, AfterBackup,
                AfterTravel, AfterDwell, AfterBranchHeadway, AfterTrunk
  <2>4. ASSUME NEW t \in Known' \ (unfinished \cup outdated)
        PROVE  Matched(t)'
    <3>1. CASE t \in Known
      <4>1. Matched(t) BY <2>3, <2>4, <3>1 DEF MatchInv
      <4>2. trips'[t] = trips[t] BY <2>1, <3>1
      <4> QED BY <2>2, <4>1, <4>2 DEF Matched
    <3>2. CASE t \notin Known
      <4>1. t \in Trips BY <2>1, <2>4, StagedTypes
      <4>2. KeysOf(t) = {} BY <3>2, <4>1 DEF KeysOf, TypeOK, Known
      <4> QED BY <2>2, <4>2 DEF Matched
    <3> QED BY <3>1, <3>2
  <2>5. ASSUME NEW t \in Known', FeedStartOf[t] # Null
        PROVE  trips'[t].start # Null
    <3>1. CASE t \in Known
      BY <2>1, <2>5, <3>1 DEF MatchInv
    <3>2. CASE t \notin Known
      <4>1. trips'[t] = [NoTrip EXCEPT !.known = TRUE, !.version = version,
                                       !.start = FeedStartOf[t]]
        BY <2>1, <2>5, <3>2
      <4> QED BY <2>5, <4>1 DEF NoTrip
    <3> QED BY <3>1, <3>2
  <2> QED BY <2>1, <2>3, <2>4, <2>5 DEF MatchInv
<1>5. CASE FlagEvents
  <2>1. /\ pc = "flag" /\ pc' = IF staged' = {} THEN "mark" ELSE "merge"
        /\ UNCHANGED <<trips, stored, unfinished, outdated>>
    BY <1>5, FlagEffect DEF observers
  <2>2. Known' = Known /\ \A t : KeysOf(t)' = KeysOf(t)
    BY <2>1 DEF Known, KeysOf
  <2>3. \A t : Matched(t)' <=> Matched(t) BY <2>1, <2>2 DEF Matched
  <2>4. pc \in BeforeMerge /\ "merge" \notin AfterBackup /\ "merge" \notin AfterAdded
    BY <2>1 DEF BeforeMerge, AfterAdded, AfterCanonical, AfterSync, AfterBackup,
                AfterTravel, AfterDwell, AfterBranchHeadway, AfterTrunk
  <2>5. pc' # "merge" => StagedTrips' = {} BY <2>1 DEF StagedTrips
  <2> QED BY <2>1, <2>2, <2>3, <2>4, <2>5 DEF MatchInv
<1>6. CASE MergeEvents
  <2>1. /\ pc = "merge" /\ pc' = "version" /\ stored' = stored \cup staged
        /\ UNCHANGED <<trips, staged, unfinished, outdated>>
    BY <1>6, MergeEffect DEF observers
  <2>2. /\ Known' = Known /\ StagedTrips' = StagedTrips
        /\ \A t : t \notin StagedTrips => KeysOf(t)' = KeysOf(t)
    BY <2>1 DEF Known, StagedTrips, KeysOf
  <2>3. \A t : t \notin StagedTrips => (Matched(t)' <=> Matched(t))
    BY <2>1, <2>2 DEF Matched
  <2>4. pc \in BeforeMerge /\ pc' \notin AfterBackup /\ pc' \notin AfterAdded
        /\ pc' \notin BeforeMerge
    BY <2>1 DEF BeforeMerge, AfterAdded, AfterCanonical, AfterSync, AfterBackup,
                AfterTravel, AfterDwell, AfterBranchHeadway, AfterTrunk
  <2> QED BY <2>1, <2>2, <2>3, <2>4 DEF MatchInv
<1>7. CASE UpdateVersion
  <2>1. /\ pc = "version" /\ pc' = "branch" /\ Known' = Known
        /\ trips' \in [Trips -> TripRows]
        /\ \A t \in Known : trips'[t].version = version
        /\ \A t \in Known : Keeps(trips'[t], trips[t],
             {"start", "trunk", "branch", "count", "guess", "exact"})
        /\ outdated' = outdated \cup {t \in Known : trips[t].version # version}
        /\ UNCHANGED <<staged, stored, unfinished>>
    BY <1>7, VersionEffect
  <2>2. StagedTrips' = StagedTrips /\ \A t : KeysOf(t)' = KeysOf(t)
    BY <2>1 DEF StagedTrips, KeysOf
  <2>3. pc' \notin AfterBackup /\ pc' \notin AfterAdded /\ pc' \notin BeforeMerge
    BY <2>1 DEF BeforeMerge, AfterAdded, AfterCanonical, AfterSync, AfterBackup,
                AfterTravel, AfterDwell, AfterBranchHeadway, AfterTrunk
  <2>4. ASSUME NEW t \in Known \ (unfinished \cup outdated'), t \notin StagedTrips
        PROVE  Matched(t)'
    <3>1. Matched(t) BY <2>1, <2>4 DEF MatchInv
    <3>2. trips[t].version = version BY <2>1, <2>4
    <3>3. trips[t].known /\ t \in Trips BY <2>4 DEF Known
    <3>4. trips'[t].known BY <2>1, <2>4 DEF Known
    <3>5. trips[t] \in TripRows /\ trips'[t] \in TripRows BY <2>1, <3>3 DEF TypeOK
    <3>6. trips'[t] = trips[t]
      BY <2>1, <2>4, <3>2, <3>3, <3>4, <3>5 DEF TripRows, Keeps
    <3> QED BY <2>2, <3>1, <3>6 DEF Matched
  <2>5. \A t \in Known : trips'[t].start = trips[t].start BY <2>1 DEF Keeps
  <2> QED BY <2>1, <2>2, <2>3, <2>4, <2>5 DEF MatchInv
<1>8. CASE \/ UpdateBranch \/ UpdateStopCounts \/ MatchExact
           \/ ScheduledStarts \/ AddedStarts
  BY <1>8, MatchStaged
<1>9. CASE BackupMatch
  BY <1>9, MatchBackup
<1>10. CASE \/ UpdateLinks \/ UpdateCanonical \/ UpdateSync \/ UpdateTravel
            \/ UpdateDwell \/ UpdateBranchHeadway \/ UpdateTrunkHeadway
  <2>1. ColumnUpdate BY <1>10, ColumnActions
  <2>2. /\ UNCHANGED <<trips, staged, stored, unfinished, outdated>>
        /\ pc \in AfterVersion \ {"mark"} /\ pc' \in AfterVersion
    BY <2>1 DEF ColumnUpdate
  <2>3. Known' = Known /\ StagedTrips' = StagedTrips /\ \A t : KeysOf(t)' = KeysOf(t)
    BY <2>2 DEF Known, StagedTrips, KeysOf
  <2>4. \A t : Matched(t)' <=> Matched(t) BY <2>2, <2>3 DEF Matched
  <2>5. pc' \in AfterBackup => pc \in AfterBackup
    BY <1>10, LinksEffect, CanonicalEffect, SyncEffect, TravelEffect, DwellEffect,
       BranchHeadwayEffect, TrunkHeadwayEffect
    DEF AfterBackup, AfterTravel, AfterDwell, AfterBranchHeadway, AfterTrunk
  <2>6. pc' \in AfterAdded => pc \in AfterAdded
    BY <1>10, LinksEffect, CanonicalEffect, SyncEffect, TravelEffect, DwellEffect,
       BranchHeadwayEffect, TrunkHeadwayEffect
    DEF AfterAdded, AfterCanonical, AfterSync, AfterBackup, AfterTravel, AfterDwell,
        AfterBranchHeadway, AfterTrunk
  <2> QED BY <2>2, <2>3, <2>4, <2>5, <2>6 DEF MatchInv
<1>11. CASE MarkProcessed
  <2>1. /\ pc = "mark" /\ pc' = "idle" /\ unfinished' = unfinished \ StagedTrips
        /\ UNCHANGED <<trips, staged, stored, outdated>>
    BY <1>11 DEF MarkProcessed, UnchangedEvents
  <2>2. Known' = Known /\ StagedTrips' = StagedTrips /\ \A t : KeysOf(t)' = KeysOf(t)
    BY <2>1 DEF Known, StagedTrips, KeysOf
  <2>3. \A t : Matched(t)' <=> Matched(t) BY <2>1, <2>2 DEF Matched
  <2>4. pc \in AfterBackup /\ pc' \notin AfterBackup /\ pc' \notin AfterAdded
    BY <2>1 DEF AfterAdded, AfterCanonical, AfterSync, AfterBackup, AfterTravel,
                AfterDwell, AfterBranchHeadway, AfterTrunk
  <2> QED BY <2>1, <2>2, <2>3, <2>4 DEF MatchInv
<1>12. CASE CutShort
  <2>1. /\ pc \notin {"idle", "mark"} /\ pc' = "idle"
        /\ unfinished' = IF pc \in {"trips", "flag", "merge"} THEN unfinished
                         ELSE unfinished \cup StagedTrips
        /\ UNCHANGED <<trips, staged, stored, outdated>>
    BY <1>12 DEF CutShort, UnchangedEvents
  <2>2. Known' = Known /\ StagedTrips' = StagedTrips /\ \A t : KeysOf(t)' = KeysOf(t)
    BY <2>1 DEF Known, StagedTrips, KeysOf
  <2>3. \A t : Matched(t)' <=> Matched(t) BY <2>1, <2>2 DEF Matched
  <2>4. pc' \notin AfterBackup /\ pc' \notin AfterAdded
    BY <2>1 DEF AfterAdded, AfterCanonical, AfterSync, AfterBackup, AfterTravel,
                AfterDwell, AfterBranchHeadway, AfterTrunk
  <2>5. pc \in {"trips", "flag", "merge"} => pc \in BeforeMerge BY DEF BeforeMerge
  <2>6. \A t \in Known \ (unfinished' \cup outdated) : Matched(t)
    BY <2>1, <2>5 DEF MatchInv
  <2> QED BY <2>1, <2>2, <2>3, <2>4, <2>6 DEF MatchInv
<1> QED
  BY <1>2, <1>3, <1>4, <1>5, <1>6, <1>7, <1>8, <1>9, <1>10, <1>11, <1>12 DEF Next

\* A trip without an exact match has the candidate that starts closest to it,
\* in whatever pieces its events came.
THEOREM TripsAreMatched == Spec => []MatchIsClosest
<1>1. Init => TypeOK /\ RoundInv /\ TimeInv /\ MatchInv
  <2>1. Init => Known = {} BY DEF Init, Known, NoTrip
  <2>2. Init => pc \notin AfterBackup /\ pc \notin AfterAdded
    BY DEF Init, AfterAdded, AfterCanonical, AfterSync, AfterBackup, AfterTravel,
           AfterDwell, AfterBranchHeadway, AfterTrunk
  <2> QED BY <2>1, <2>2, RoundInit DEF MatchInv
<1>2. (TypeOK /\ RoundInv /\ TimeInv /\ MatchInv) /\ [Next]_vars
        => (TypeOK /\ RoundInv /\ TimeInv /\ MatchInv)'
  BY RoundStep, MatchStep
<1>3. MatchInv => MatchIsClosest
  <2> SUFFICES ASSUME MatchInv, pc = "idle",
                      NEW t \in Known \ (unfinished \cup outdated),
                      KeysOf(t) # {}, ~trips[t].exact,
                      Candidates(t, trips[t].version) # {}
               PROVE  /\ trips[t].start # Null
                      /\ trips[t].guess \in Closest(t, trips[t].version)
    BY DEF MatchIsClosest
  <2>1. Matched(t) BY DEF MatchInv, BeforeMerge
  <2> QED BY <2>1, SameOptions DEF Matched, MatchedRow
<1> QED BY <1>1, <1>2, <1>3, PTL DEF Spec

(***************************************************************************)
(* Neighbours, branch and number of stops                                  *)
(***************************************************************************)

Linked(t) == \A k \in KeysOf(t) : derived[k].prev = PrevStop(k)
                                  /\ derived[k].next = NextStop(k)
Branched(t) == KeysOf(t) # {} => trips[t].branch = RealtimeBranch(t)
Counted(t) == KeysOf(t) # {} => trips[t].count = StopCount(t)

\* The columns that a trip's events alone give are right for every trip whose
\* rounds ended well; during a round each statement brings those of its trips
\* up to date, and a count is never set for a trip without stops.
TripInv ==
    /\ \A t \in Known \ unfinished : pc \in BeforeMerge \/ t \notin StagedTrips
          => Linked(t) /\ Branched(t) /\ Counted(t)
    /\ pc \in AfterBranch => \A t \in StagedTrips : Branched(t)
    /\ pc \in AfterCounts => \A t \in StagedTrips : Counted(t)
    /\ pc \in AfterLinks => \A t \in StagedTrips : Linked(t)
    /\ \A t \in Trips : RealKeys(t) = {} => trips[t].count = 0

\* What the events of a trip give depends on these events only.
LEMMA TripFrame ==
    ASSUME TypeOK, NEW t \in Trips, KeysOf(t)' = KeysOf(t),
           \A k \in KeysOf(t) : events'[k] = events[k]
    PROVE  /\ RealKeys(t)' = RealKeys(t)
           /\ StopCount(t)' = StopCount(t)
           /\ RealtimeBranch(t)' = RealtimeBranch(t)
           /\ \A k \in KeysOf(t) : PrevStop(k)' = PrevStop(k) /\ NextStop(k)' = NextStop(k)
<1>1. \A k \in KeysOf(t) : k \in stored /\ k \in stored' /\ k \in Keys /\ TripOf(k) = t
  BY DEF KeysOf, TypeOK
<1>2. \A k \in KeysOf(t) : Real(k)' <=> Real(k)
  BY <1>1 DEF Real
<1>3. RealKeys(t)' = RealKeys(t)
  <2>1. RealKeys(t)' = {k \in KeysOf(t)' : Real(k)'} BY DEF RealKeys
  <2> QED BY <1>2, <2>1, Zenon DEF RealKeys
<1>4. StopCount(t)' = StopCount(t)
  BY <1>3 DEF StopCount
<1>5. RealtimeBranch(t)' = RealtimeBranch(t)
  BY DEF RealtimeBranch
<1>6. \A k \in KeysOf(t) : Sequence'[k] = Sequence[k]
  BY <1>1, <1>2 DEF Sequence
<1>7. ASSUME NEW k \in KeysOf(t)
      PROVE  PrevStop(k)' = PrevStop(k) /\ NextStop(k)' = NextStop(k)
  <2>1. /\ PrevStop(k)' = Lag(KeysOf(t), k, Sequence')
        /\ NextStop(k)' = Lead(KeysOf(t), k, Sequence')
        /\ PrevStop(k) = Lag(KeysOf(t), k, Sequence)
        /\ NextStop(k) = Lead(KeysOf(t), k, Sequence)
    BY <1>1 DEF PrevStop, NextStop
  <2>2. ASSUME NEW S, NEW by, NEW bx, k \in S, \A j \in S : by[j] = bx[j]
        PROVE  Lag(S, k, by) = Lag(S, k, bx) /\ Lead(S, k, by) = Lead(S, k, bx)
    BY <2>2, NeighbourFrame
  <2> QED BY <1>6, <2>1, <2>2
<1> QED BY <1>3, <1>4, <1>5, <1>7

\* A trip that a step leaves as it is keeps its derived columns.
LEMMA TripKept ==
    ASSUME TypeOK, NEW t \in Trips, KeysOf(t)' = KeysOf(t),
           \A k \in KeysOf(t) : events'[k] = events[k]
    PROVE  /\ trips'[t].branch = trips[t].branch => (Branched(t)' <=> Branched(t))
           /\ trips'[t].count = trips[t].count => (Counted(t)' <=> Counted(t))
           /\ (\A k \in KeysOf(t) : Keeps(derived'[k], derived[k], {"prev", "next"}))
                => (Linked(t)' <=> Linked(t))
<1>1. /\ StopCount(t)' = StopCount(t) /\ RealtimeBranch(t)' = RealtimeBranch(t)
      /\ \A k \in KeysOf(t) : PrevStop(k)' = PrevStop(k) /\ NextStop(k)' = NextStop(k)
  BY TripFrame
<1>2. trips'[t].branch = trips[t].branch => (Branched(t)' <=> Branched(t))
  BY <1>1 DEF Branched
<1>3. trips'[t].count = trips[t].count => (Counted(t)' <=> Counted(t))
  BY <1>1 DEF Counted
<1>4. ASSUME \A k \in KeysOf(t) : Keeps(derived'[k], derived[k], {"prev", "next"})
      PROVE  Linked(t)' <=> Linked(t)
  BY <1>1, <1>4 DEF Linked, Keeps
<1> QED BY <1>2, <1>3, <1>4

\* The statements on trips.
LEMMA TripUpdates ==
    ASSUME TypeOK, RoundInv, TripInv,
           \/ UpdateBranch \/ UpdateStopCounts \/ MatchExact
           \/ ScheduledStarts \/ AddedStarts \/ BackupMatch
    PROVE  TripInv'
<1> USE StepNames
<1>1. StagedUpdate BY StagedActions
<1>2. /\ Known' = Known /\ StagedTrips' = StagedTrips
      /\ unfinished' = unfinished /\ stored' = stored /\ staged' = staged
      /\ derived' = derived /\ events' = events
      /\ \A t \in Trips \ StagedTrips : trips'[t] = trips[t]
      /\ pc \notin BeforeMerge /\ pc' \notin BeforeMerge
  BY <1>1, StagedUpdateFrame DEF StagedUpdate
<1>3. \A t : KeysOf(t)' = KeysOf(t) BY <1>2 DEF KeysOf
<1>4. \A t \in Trips :
        /\ StopCount(t)' = StopCount(t) /\ RealKeys(t)' = RealKeys(t)
        /\ RealtimeBranch(t)' = RealtimeBranch(t)
        /\ trips'[t].branch = trips[t].branch => (Branched(t)' <=> Branched(t))
        /\ trips'[t].count = trips[t].count => (Counted(t)' <=> Counted(t))
        /\ Linked(t)' <=> Linked(t)
  BY <1>2, <1>3, TripFrame, TripKept DEF Keeps
<1>5. StagedTrips \subseteq Trips /\ Known \subseteq Trips BY StagedTypes
<1>6. \A t \in Known \ unfinished : t \notin StagedTrips
        => Linked(t)' /\ Branched(t)' /\ Counted(t)'
  BY <1>2, <1>4, <1>5 DEF TripInv
<1>7. CASE UpdateBranch
  <2>1. /\ pc' = "counts"
        /\ \A t \in StagedTrips : /\ trips'[t].branch = RealtimeBranch(t)
                                  /\ trips'[t].count = trips[t].count
    BY <1>7, BranchEffect DEF Keeps
  <2>2. pc' \notin AfterCounts /\ pc' \notin AfterLinks
    BY <2>1 DEF AfterCounts, AfterLinks, AfterAdded,
       AfterCanonical, AfterSync, AfterBackup, AfterTravel, AfterDwell,
       AfterBranchHeadway, AfterTrunk
  <2>3. \A t \in StagedTrips : Branched(t)'
    BY <1>4, <1>5, <2>1 DEF Branched
  <2>4. \A t \in Trips : RealKeys(t)' = {} => trips'[t].count = 0
    BY <1>2, <1>4, <2>1 DEF TripInv
  <2> QED BY <1>2, <1>6, <2>2, <2>3, <2>4 DEF TripInv
<1>8. CASE UpdateStopCounts
  <2>1. /\ pc = "counts" /\ pc' = "links"
        /\ \A t \in StagedTrips :
             /\ trips'[t].branch = trips[t].branch
             /\ trips'[t].count = IF StopCount(t) > 0 THEN StopCount(t)
                                  ELSE trips[t].count
    BY <1>8, CountsEffect DEF Keeps
  <2>2. pc \in AfterBranch /\ pc' \notin AfterLinks
    BY <2>1 DEF AfterBranch, AfterCounts, AfterLinks, AfterAdded,
       AfterCanonical, AfterSync, AfterBackup, AfterTravel, AfterDwell,
       AfterBranchHeadway, AfterTrunk
  <2>3. \A t \in StagedTrips : trips'[t].count = StopCount(t)
    BY <1>5, <2>1, StopCountType DEF TripInv
  <2>4. \A t \in StagedTrips : Branched(t)' /\ Counted(t)'
    BY <1>4, <1>5, <2>1, <2>2, <2>3 DEF TripInv, Counted
  <2>5. \A t \in Trips : RealKeys(t)' = {} => trips'[t].count = 0
    BY <1>2, <1>4, <2>3, StopCountType DEF TripInv
  <2> QED BY <1>2, <1>6, <2>2, <2>4, <2>5 DEF TripInv
<1>9. CASE MatchExact \/ ScheduledStarts \/ AddedStarts \/ BackupMatch
  <2>1. \A t \in StagedTrips : /\ trips'[t].branch = trips[t].branch
                               /\ trips'[t].count = trips[t].count
    BY <1>9, ExactEffect, StartsEffect, BackupEffect DEF Keeps
  <2>2. pc \in AfterLinks
    BY <1>9, ExactEffect, StartsEffect, BackupEffect
    DEF AfterLinks, AfterAdded, AfterCanonical, AfterSync
  <2>3. AfterLinks \subseteq AfterCounts /\ AfterCounts \subseteq AfterBranch
    BY DEF AfterBranch, AfterCounts
  <2>4. \A t \in StagedTrips : Branched(t)' /\ Counted(t)' /\ Linked(t)'
    BY <1>4, <1>5, <2>1, <2>2, <2>3 DEF TripInv
  <2>5. \A t \in Trips : RealKeys(t)' = {} => trips'[t].count = 0
    BY <1>2, <1>4, <2>1 DEF TripInv
  <2> QED BY <1>2, <1>6, <2>4, <2>5 DEF TripInv
<1> QED BY <1>7, <1>8, <1>9

\* The statements on events: only one sets neighbours, the others keep them.
LEMMA TripColumns ==
    ASSUME TypeOK, RoundInv, TripInv,
           \/ UpdateLinks \/ UpdateCanonical \/ UpdateSync \/ UpdateTravel
           \/ UpdateDwell \/ UpdateBranchHeadway \/ UpdateTrunkHeadway
    PROVE  TripInv'
<1> USE StepNames
<1>1. /\ UNCHANGED <<trips, staged, stored, events, unfinished>>
      /\ pc \in AfterVersion \ {"mark"} /\ pc' \in AfterVersion
  BY ColumnActions DEF ColumnUpdate
<1>2. /\ Known' = Known /\ StagedTrips' = StagedTrips
      /\ \A t : KeysOf(t)' = KeysOf(t)
      /\ pc \notin BeforeMerge /\ pc' \notin BeforeMerge
  BY <1>1 DEF Known, StagedTrips, KeysOf
<1>3. \A t \in Trips :
        /\ RealKeys(t)' = RealKeys(t)
        /\ \A k \in KeysOf(t) : PrevStop(k)' = PrevStop(k) /\ NextStop(k)' = NextStop(k)
        /\ Branched(t)' <=> Branched(t)
        /\ Counted(t)' <=> Counted(t)
        /\ (\A k \in KeysOf(t) : Keeps(derived'[k], derived[k], {"prev", "next"}))
             => (Linked(t)' <=> Linked(t))
  BY <1>1, <1>2, TripFrame, TripKept
<1>4. StagedTrips \subseteq Trips /\ Known \subseteq Trips BY StagedTypes
<1>5. /\ pc \in AfterCounts /\ pc \in AfterBranch
      /\ ~UpdateLinks => pc \in AfterLinks
  BY LinksEffect, CanonicalEffect, SyncEffect, TravelEffect, DwellEffect,
     BranchHeadwayEffect, TrunkHeadwayEffect
  DEF AfterBranch, AfterCounts, AfterLinks, AfterAdded, AfterCanonical, AfterSync,
      AfterBackup, AfterTravel, AfterDwell, AfterBranchHeadway, AfterTrunk
<1>6. \A t \in Trips : KeysOf(t) \subseteq stored /\ KeysOf(t) \subseteq Keys
                       /\ \A k \in KeysOf(t) : TripOf(k) = t
  BY DEF KeysOf, TypeOK
<1>7. ASSUME NEW t \in Trips, Linked(t), UpdateLinks => t \notin StagedTrips
      PROVE  Linked(t)'
  <2>1. CASE UpdateLinks
    <3>1. \A k \in KeysOf(t) : derived'[k] = derived[k]
      BY <1>6, <1>7, <2>1, LinksEffect
    <3> QED BY <1>3, <1>7, <3>1 DEF Keeps
  <2>2. CASE ~UpdateLinks
    <3>1. \A k \in Keys : Keeps(derived'[k], derived[k], {"prev", "next"})
      BY <2>2, CanonicalEffect, SyncEffect, TravelEffect, DwellEffect,
         BranchHeadwayEffect, TrunkHeadwayEffect DEF Keeps
    <3> QED BY <1>3, <1>6, <1>7, <3>1
  <2> QED BY <2>1, <2>2
<1>8. ASSUME UpdateLinks, NEW t \in StagedTrips
      PROVE  Linked(t)'
  <2>1. \A k \in KeysOf(t) : derived'[k].prev = PrevStop(k)
                             /\ derived'[k].next = NextStop(k)
    BY <1>4, <1>6, <1>8, LinksEffect
  <2> QED BY <1>2, <1>3, <1>4, <2>1 DEF Linked
<1>9. \A t \in StagedTrips : Branched(t)' /\ Counted(t)' /\ Linked(t)'
  BY <1>3, <1>4, <1>5, <1>7, <1>8 DEF TripInv
<1>10. \A t \in Known \ unfinished : t \notin StagedTrips
         => Linked(t)' /\ Branched(t)' /\ Counted(t)'
  BY <1>3, <1>4, <1>7 DEF TripInv
<1> QED BY <1>1, <1>2, <1>3, <1>9, <1>10 DEF TripInv

\* Every step keeps the columns of the trips.
LEMMA TripStep ==
    ASSUME TypeOK, RoundInv, TripInv, [Next]_vars
    PROVE  TripInv'
<1> USE StepNames
<1>1. ASSUME UNCHANGED <<trips, derived, stored, events, staged, pc, unfinished>>
      PROVE  TripInv'
  <2>1. /\ Known' = Known /\ StagedTrips' = StagedTrips
        /\ \A t : KeysOf(t)' = KeysOf(t)
    BY <1>1 DEF Known, StagedTrips, KeysOf
  <2>2. StagedTrips \subseteq Trips /\ Known \subseteq Trips BY StagedTypes
  <2>3. \A t \in Trips : /\ Branched(t)' <=> Branched(t)
                         /\ Counted(t)' <=> Counted(t)
                         /\ Linked(t)' <=> Linked(t)
                         /\ RealKeys(t)' = RealKeys(t)
    BY <1>1, <2>1, TripFrame, TripKept DEF Keeps
  <2> QED BY <1>1, <2>1, <2>2, <2>3 DEF TripInv
<1>2. CASE UNCHANGED vars \/ LoadSchedule
  <2>1. UNCHANGED <<trips, derived, stored, events, staged, pc, unfinished>>
    BY <1>2 DEF vars, LoadSchedule, observers
  <2> QED BY <1>1, <2>1
<1>3. CASE LoadTemp \/ FlagEvents \/ MarkProcessed \/ CutShort
  <2>1. UNCHANGED <<trips, derived, stored, events>>
    BY <1>3, LoadTempEffect, FlagEffect
    DEF observers, MarkProcessed, CutShort, UnchangedEvents
  <2>2. Known' = Known /\ \A t : KeysOf(t)' = KeysOf(t)
    BY <2>1 DEF Known, KeysOf
  <2>3. StagedTrips \subseteq Trips /\ Known \subseteq Trips BY StagedTypes
  <2>4. \A t \in Trips : /\ Branched(t)' <=> Branched(t)
                         /\ Counted(t)' <=> Counted(t)
                         /\ Linked(t)' <=> Linked(t)
                         /\ RealKeys(t)' = RealKeys(t)
    BY <2>1, <2>2, TripFrame, TripKept DEF Keeps
  <2>5. pc' \in BeforeMerge \/ (pc' = "mark" /\ StagedTrips' = {})
    BY <1>3, LoadTempEffect, FlagEffect
    DEF MarkProcessed, CutShort, BeforeMerge, StagedTrips
  <2>6. /\ pc' \in AfterBranch \/ pc' \in AfterCounts \/ pc' \in AfterLinks
             => StagedTrips' = {}
        /\ "mark" \in AfterBranch /\ "mark" \in AfterCounts /\ "mark" \in AfterLinks
    BY <2>5 DEF BeforeMerge, AfterBranch, AfterCounts, AfterLinks, AfterAdded,
       AfterCanonical, AfterSync, AfterBackup, AfterTravel, AfterDwell,
       AfterBranchHeadway, AfterTrunk
  <2>7. \A t \in Known \ unfinished' : Linked(t) /\ Branched(t) /\ Counted(t)
    <3>1. CASE LoadTemp \/ FlagEvents
      <4>1. pc \in BeforeMerge /\ unfinished' = unfinished
        BY <3>1, LoadTempEffect, FlagEffect DEF BeforeMerge, observers
      <4> QED BY <4>1 DEF TripInv
    <3>2. CASE MarkProcessed
      <4>1. pc = "mark" /\ unfinished' = unfinished \ StagedTrips
        BY <3>2 DEF MarkProcessed
      <4> QED BY <2>6, <4>1 DEF TripInv
    <3>3. CASE CutShort
      <4>1. unfinished' = IF pc \in {"trips", "flag", "merge"} THEN unfinished
                          ELSE unfinished \cup StagedTrips
        BY <3>3 DEF CutShort
      <4> QED BY <4>1 DEF TripInv, BeforeMerge
    <3> QED BY <1>3, <3>1, <3>2, <3>3
  <2> QED BY <2>1, <2>2, <2>3, <2>4, <2>5, <2>6, <2>7 DEF TripInv
<1>4. CASE LoadNewTrips
  <2>1. /\ pc = "trips" /\ pc' = "flag"
        /\ Known' = Known \cup StagedTrips
        /\ \A t \in Known : trips'[t] = trips[t]
        /\ \A t \in StagedTrips \ Known :
             trips'[t] = [NoTrip EXCEPT !.known = TRUE, !.version = version,
                                        !.start = FeedStartOf[t]]
        /\ \A t \in Trips \ StagedTrips : trips'[t] = trips[t]
        /\ UNCHANGED <<staged, stored, events, derived, unfinished>>
    BY <1>4, NewTripsEffect DEF observers
  <2>2. \A t : KeysOf(t)' = KeysOf(t) BY <2>1 DEF KeysOf
  <2>3. pc \in BeforeMerge /\ pc' \notin AfterBranch /\ pc' \notin AfterCounts
        /\ pc' \notin AfterLinks
    BY <2>1 DEF BeforeMerge, AfterBranch, AfterCounts, AfterLinks, AfterAdded,
       AfterCanonical, AfterSync, AfterBackup, AfterTravel, AfterDwell,
       AfterBranchHeadway, AfterTrunk
  <2>4. StagedTrips \subseteq Trips /\ Known \subseteq Trips BY StagedTypes
  <2>5. ASSUME NEW t \in Known' \ unfinished
        PROVE  Linked(t)' /\ Branched(t)' /\ Counted(t)'
    <3>1. t \in Trips BY <2>1, <2>4
    <3>2. CASE t \in Known
      <4>1. Linked(t) /\ Branched(t) /\ Counted(t)
        BY <2>3, <2>5, <3>2 DEF TripInv
      <4> QED BY <2>1, <2>2, <3>1, <3>2, <4>1, TripKept DEF Keeps
    <3>3. CASE t \notin Known
      <4>1. KeysOf(t) = {} BY <3>1, <3>3 DEF KeysOf, TypeOK, Known
      <4> QED BY <2>2, <4>1 DEF Linked, Branched, Counted
    <3> QED BY <3>2, <3>3
  <2>6. ASSUME NEW t \in Trips, RealKeys(t)' = {}
        PROVE  trips'[t].count = 0
    <3>1. RealKeys(t) = {} BY <2>1, <2>2, <2>6, TripFrame
    <3>2. trips[t].count = 0 BY <3>1 DEF TripInv
    <3>3. CASE t \in StagedTrips \ Known
      <4>1. trips'[t] = [NoTrip EXCEPT !.known = TRUE, !.version = version,
                                       !.start = FeedStartOf[t]]
        BY <2>1, <3>3
      <4> QED BY <4>1 DEF NoTrip
    <3>4. CASE t \notin StagedTrips \ Known
      BY <2>1, <3>2, <3>4
    <3> QED BY <3>3, <3>4
  <2> QED BY <2>1, <2>3, <2>5, <2>6 DEF TripInv
<1>5. CASE MergeEvents
  <2>1. /\ pc = "merge" /\ pc' = "version" /\ stored' = stored \cup staged
        /\ \A k \in Keys \ staged : events'[k] = events[k]
        /\ \A k \in stored : Real(k) => Real(k)'
        /\ UNCHANGED <<trips, staged, derived, unfinished>>
    BY <1>5, MergeEffect DEF observers
  <2>2. /\ Known' = Known /\ StagedTrips' = StagedTrips
        /\ \A t : t \notin StagedTrips => KeysOf(t)' = KeysOf(t)
    BY <2>1 DEF Known, StagedTrips, KeysOf
  <2>3. pc \in BeforeMerge /\ pc' \notin AfterBranch /\ pc' \notin AfterCounts
        /\ pc' \notin AfterLinks /\ pc' \notin BeforeMerge
    BY <2>1 DEF BeforeMerge, AfterBranch, AfterCounts, AfterLinks, AfterAdded,
       AfterCanonical, AfterSync, AfterBackup, AfterTravel, AfterDwell,
       AfterBranchHeadway, AfterTrunk
  <2>4. StagedTrips \subseteq Trips /\ Known \subseteq Trips BY StagedTypes
  <2>5. ASSUME NEW t \in Known \ unfinished, t \notin StagedTrips
        PROVE  Linked(t)' /\ Branched(t)' /\ Counted(t)'
    <3>1. Linked(t) /\ Branched(t) /\ Counted(t) BY <2>3, <2>5 DEF TripInv
    <3>2. \A k \in KeysOf(t) : events'[k] = events[k]
      BY <2>1, <2>5 DEF KeysOf, StagedTrips, TypeOK
    <3> QED BY <2>1, <2>2, <2>4, <2>5, <3>1, <3>2, TripKept DEF Keeps
  <2>6. ASSUME NEW t \in Trips, RealKeys(t)' = {}
        PROVE  trips'[t].count = 0
    <3>1. \A k \in KeysOf(t) : k \in stored /\ k \in KeysOf(t)'
      BY <2>1 DEF KeysOf
    <3>2. \A k \in KeysOf(t) : Real(k) => k \in RealKeys(t)'
      BY <2>1, <3>1 DEF RealKeys
    <3>3. RealKeys(t) = {} BY <2>6, <3>2 DEF RealKeys
    <3> QED BY <2>1, <3>3 DEF TripInv
  <2> QED BY <2>1, <2>2, <2>3, <2>5, <2>6 DEF TripInv
<1>6. CASE UpdateVersion
  <2>1. /\ pc = "version" /\ pc' = "branch" /\ Known' = Known
        /\ \A t \in Known : Keeps(trips'[t], trips[t],
             {"start", "trunk", "branch", "count", "guess", "exact"})
        /\ \A t \in Trips \ Known : trips'[t] = trips[t]
        /\ UNCHANGED <<staged, stored, events, derived, unfinished>>
    BY <1>6, VersionEffect
  <2>2. StagedTrips' = StagedTrips /\ \A t : KeysOf(t)' = KeysOf(t)
    BY <2>1 DEF StagedTrips, KeysOf
  <2>3. pc \notin BeforeMerge /\ pc' \notin AfterBranch /\ pc' \notin AfterCounts
        /\ pc' \notin AfterLinks /\ pc' \notin BeforeMerge
    BY <2>1 DEF BeforeMerge, AfterBranch, AfterCounts, AfterLinks, AfterAdded,
       AfterCanonical, AfterSync, AfterBackup, AfterTravel, AfterDwell,
       AfterBranchHeadway, AfterTrunk
  <2>4. StagedTrips \subseteq Trips /\ Known \subseteq Trips BY StagedTypes
  <2>5. \A t \in Trips : /\ trips'[t].branch = trips[t].branch
                         /\ trips'[t].count = trips[t].count
    BY <2>1 DEF Keeps
  <2>6. \A t \in Trips : /\ Branched(t)' <=> Branched(t)
                         /\ Counted(t)' <=> Counted(t)
                         /\ Linked(t)' <=> Linked(t)
                         /\ RealKeys(t)' = RealKeys(t)
    BY <2>1, <2>2, <2>5, TripFrame, TripKept DEF Keeps
  <2> QED BY <2>1, <2>2, <2>3, <2>4, <2>5, <2>6 DEF TripInv
<1>7. CASE \/ UpdateBranch \/ UpdateStopCounts \/ MatchExact
           \/ ScheduledStarts \/ AddedStarts \/ BackupMatch
  BY <1>7, TripUpdates
<1>8. CASE \/ UpdateLinks \/ UpdateCanonical \/ UpdateSync \/ UpdateTravel
           \/ UpdateDwell \/ UpdateBranchHeadway \/ UpdateTrunkHeadway
  BY <1>8, TripColumns
<1> QED
  BY <1>2, <1>3, <1>4, <1>5, <1>6, <1>7, <1>8 DEF Next

(***************************************************************************)
(* Stop sequences and metrics                                              *)
(***************************************************************************)

\* The dwell time under the version that the trip refers to.
Dwell(k) == DwellTime(k, trips[TripOf(k)].version)

CanonicalRight ==
    \A k \in stored : \A s \in CanonicalSequences(k) : derived[k].canonical = s
SyncRight == \A k \in stored : \A s \in SyncSequences(k) : derived[k].sync = s
TravelRight == \A k \in stored : Saved(derived[k].travel, TravelTime(k))
DwellRight == \A k \in stored : Saved(derived[k].dwell, Dwell(k))
BranchRight == \A k \in stored : Saved(derived[k].branch, BranchHeadway(k))
TrunkRight == \A k \in stored : Saved(derived[k].trunk, TrunkHeadway(k))
AllRight ==
    /\ CanonicalRight /\ SyncRight /\ TravelRight /\ DwellRight
    /\ BranchRight /\ TrunkRight

\* Columns that depend on other trips as well are right when all rounds ended
\* well; a round that merges rows sets them one after the other, for all
\* events of the date.
MetricInv ==
    /\ pc \in BeforeMerge /\ unfinished = {} => AllRight
    /\ pc = "mark" /\ staged = {} /\ unfinished = {} => AllRight
    /\ staged # {} =>
         /\ pc \in AfterCanonical => CanonicalRight
         /\ pc \in AfterSync => SyncRight
         /\ pc \in AfterTravel => TravelRight
         /\ pc \in AfterDwell => DwellRight
         /\ pc \in AfterBranchHeadway => BranchRight
         /\ pc \in AfterTrunk => TrunkRight

\* What a statement on events reads depends on the events, and on the trips
\* that have any.
LEMMA SequencesFrame ==
    ASSUME NEW k, Keeps(trips'[TripOf(k)], trips[TripOf(k)], {"version", "trunk", "branch"})
    PROVE  /\ CanonicalSequences(k)' = CanonicalSequences(k)
           /\ SyncSequences(k)' = SyncSequences(k)
<1>1. /\ trips'[TripOf(k)].version = trips[TripOf(k)].version
      /\ trips'[TripOf(k)].trunk = trips[TripOf(k)].trunk
      /\ trips'[TripOf(k)].branch = trips[TripOf(k)].branch
  BY DEF Keeps
<1>2. CanonicalSequences(k)' = CanonicalSequences(k)
  BY <1>1 DEF CanonicalSequences
<1>3. SyncSequences(k)' = SyncSequences(k)
  BY <1>1 DEF SyncSequences
<1> QED BY <1>2, <1>3

\* ... as they are when the events are,
LEMMA EventsFrame ==
    ASSUME UNCHANGED <<stored, events>>
    PROVE  /\ \A k : (Real(k)' <=> Real(k)) /\ Stopped(k)' = Stopped(k)
           /\ Seen' = Seen
           /\ \A t : RealKeys(t)' = RealKeys(t)
           /\ Departure' = Departure
           /\ \A k : TravelTime(k)' = TravelTime(k)
<1>1. \A k : (Real(k)' <=> Real(k)) /\ Stopped(k)' = Stopped(k)
  BY DEF Real, Stopped
<1>2. Seen' = Seen BY DEF Seen
<1>3. \A t : RealKeys(t)' = RealKeys(t) BY DEF RealKeys, KeysOf, Real
<1>4. Departure' = Departure BY DEF Departure, RealKeys, KeysOf, Real, Seen
<1>5. \A k : TravelTime(k)' = TravelTime(k) BY DEF TravelTime, Real, Stopped
<1> QED BY <1>1, <1>2, <1>3, <1>4, <1>5

\* first_stop_flag, read from a row of vehicle_trips and the trip's events.
FirstOf(j, real, row, n) ==
    LET rank == Cardinality({i \in real : SequenceOf[i] <= SequenceOf[j]})
        ranks == UNION {{i \in DOMAIN s.stops : s.stops[i] = StationOf(j) /\ i <= rank} :
                    s \in {u \in Schedule[row.version] :
                             u.trip = row.guess /\ InService(row.version, n)}}
    IN IF ranks = {} THEN rank = 1 ELSE 1 \in ranks

\* ... and when the trips with events are.
LEMMA MetricsFrame ==
    ASSUME TypeOK, UNCHANGED <<stored, events>>, NEW k \in stored,
           \A j \in stored : trips'[TripOf(j)] = trips[TripOf(j)]
    PROVE  /\ CanonicalSequences(k)' = CanonicalSequences(k)
           /\ SyncSequences(k)' = SyncSequences(k)
           /\ TravelTime(k)' = TravelTime(k)
           /\ Dwell(k)' = Dwell(k)
           /\ BranchHeadway(k)' = BranchHeadway(k)
           /\ TrunkHeadway(k)' = TrunkHeadway(k)
<1>1. /\ \A j : (Real(j)' <=> Real(j)) /\ Stopped(j)' = Stopped(j)
      /\ Seen' = Seen /\ Departure' = Departure
      /\ \A t : RealKeys(t)' = RealKeys(t)
      /\ TravelTime(k)' = TravelTime(k)
  BY EventsFrame
<1>2. CanonicalSequences(k)' = CanonicalSequences(k)
      /\ SyncSequences(k)' = SyncSequences(k)
  BY SequencesFrame DEF Keeps
<1>3. Dwell(k)' = Dwell(k)
  <2>1. trips'[TripOf(k)] = trips[TripOf(k)] OBVIOUS
  <2> DEFINE n == trips[TripOf(k)].version
             rows == {j \in RealKeys(TripOf(k)) : ~FirstStop(j, n)}
  <2>2. \A j \in RealKeys(TripOf(k)) : TripOf(j) = TripOf(k)
    BY DEF RealKeys, KeysOf
  <2>3. ASSUME NEW j \in RealKeys(TripOf(k))
        PROVE  FirstStop(j, n)' <=> FirstStop(j, n)
    <3>1. FirstStop(j, n) <=> FirstOf(j, RealKeys(TripOf(j)), trips[TripOf(j)], n)
      BY DEF FirstStop, FirstOf
    <3>2. FirstStop(j, n)' <=> FirstOf(j, RealKeys(TripOf(j))', trips'[TripOf(j)], n')
      BY DEF FirstStop, FirstOf
    <3>3. /\ RealKeys(TripOf(j))' = RealKeys(TripOf(j))
          /\ trips'[TripOf(j)] = trips[TripOf(j)] /\ n' = n
      BY <1>1, <2>1, <2>2
    <3> HIDE DEF n
    <3> QED BY <3>1, <3>2, <3>3
  <2>4. rows' = rows
    BY <1>1, <2>3
  <2>5. Lead(rows', k, Seen') = Lead(rows, k, Seen)
    BY <1>1, <2>4, Zenon
  <2>6. Dwell(k) = IF /\ k \in rows /\ trips[TripOf(k)].count > 1
                      /\ Lead(rows, k, Seen) # <<>> /\ Stopped(k) # Null
                   THEN IF /\ events[Lead(rows, k, Seen)].move # Null
                           /\ events[Lead(rows, k, Seen)].move > Stopped(k)
                        THEN events[Lead(rows, k, Seen)].move - Stopped(k) ELSE Null
                   ELSE Null
    BY DEF Dwell, DwellTime
  <2>7. Dwell(k)' = IF /\ k \in rows' /\ trips'[TripOf(k)].count > 1
                       /\ Lead(rows', k, Seen') # <<>> /\ Stopped(k)' # Null
                    THEN IF /\ events'[Lead(rows', k, Seen')].move # Null
                            /\ events'[Lead(rows', k, Seen')].move > Stopped(k)'
                         THEN events'[Lead(rows', k, Seen')].move - Stopped(k)' ELSE Null
                    ELSE Null
    BY DEF Dwell, DwellTime
  <2> HIDE DEF rows
  <2> QED BY <1>1, <2>1, <2>4, <2>5, <2>6, <2>7
<1>4. Alongside(k)' = Alongside(k)
  <2>1. \A j \in stored : trips'[TripOf(j)].count = trips[TripOf(j)].count
    OBVIOUS
  <2> QED BY <1>1, <2>1 DEF Alongside
<1>5. Alongside(k) \subseteq stored BY DEF Alongside
<1>6. \A rows : Headway(k, rows)' = Headway(k, rows)
  BY <1>1 DEF Headway
<1>7. BranchHeadway(k)' = BranchHeadway(k)
  <2> DEFINE rows == {j \in Alongside(k) :
                       trips[TripOf(j)].branch = trips[TripOf(k)].branch}
  <2>1. rows' = rows BY <1>4, <1>5
  <2>2. BranchHeadway(k) = IF trips[TripOf(k)].branch = "none" THEN Null
                           ELSE Headway(k, rows)
    BY DEF BranchHeadway
  <2>3. BranchHeadway(k)' = IF trips'[TripOf(k)].branch = "none" THEN Null
                            ELSE Headway(k, rows)'
    BY DEF BranchHeadway
  <2>4. Headway(k, rows)' = Headway(k, rows)
    BY <1>1, <2>1 DEF Headway
  <2> HIDE DEF rows
  <2> QED BY <2>2, <2>3, <2>4
<1>8. TrunkHeadway(k)' = TrunkHeadway(k)
  <2> DEFINE rows == {j \in Alongside(k) :
                       trips[TripOf(j)].trunk = trips[TripOf(k)].trunk}
  <2>1. rows' = rows BY <1>4, <1>5
  <2>2. TrunkHeadway(k) = Headway(k, rows)
    BY DEF TrunkHeadway
  <2>3. TrunkHeadway(k)' = Headway(k, rows)'
    BY DEF TrunkHeadway
  <2>4. Headway(k, rows)' = Headway(k, rows)
    BY <1>1, <2>1 DEF Headway
  <2> HIDE DEF rows
  <2> QED BY <2>2, <2>3, <2>4
<1> QED BY <1>1, <1>2, <1>3, <1>7, <1>8

\* A step that leaves the events, their columns and their trips alone.
LEMMA AllKept ==
    ASSUME TypeOK, UNCHANGED <<stored, events, derived>>,
           \A j \in stored : trips'[TripOf(j)] = trips[TripOf(j)]
    PROVE  AllRight' <=> AllRight
<1>1. \A k \in stored :
        /\ CanonicalSequences(k)' = CanonicalSequences(k)
        /\ SyncSequences(k)' = SyncSequences(k)
        /\ TravelTime(k)' = TravelTime(k)
        /\ Dwell(k)' = Dwell(k)
        /\ BranchHeadway(k)' = BranchHeadway(k)
        /\ TrunkHeadway(k)' = TrunkHeadway(k)
  BY MetricsFrame
<1>2. CanonicalRight' <=> CanonicalRight BY <1>1 DEF CanonicalRight
<1>3. SyncRight' <=> SyncRight BY <1>1 DEF SyncRight
<1>4. TravelRight' <=> TravelRight BY <1>1 DEF TravelRight, Saved
<1>5. DwellRight' <=> DwellRight BY <1>1 DEF DwellRight, Saved
<1>6. BranchRight' <=> BranchRight BY <1>1 DEF BranchRight, Saved
<1>7. TrunkRight' <=> TrunkRight BY <1>1 DEF TrunkRight, Saved
<1> QED BY <1>2, <1>3, <1>4, <1>5, <1>6, <1>7 DEF AllRight

\* The statements on events.
LEMMA MetricColumns ==
    ASSUME NumbersAreUnique, TypeOK, RoundInv, MetricInv,
           \/ UpdateCanonical \/ UpdateSync \/ UpdateTravel
           \/ UpdateDwell \/ UpdateBranchHeadway \/ UpdateTrunkHeadway
    PROVE  MetricInv'
<1> USE StepNames
<1>1. /\ UNCHANGED <<trips, staged, stored, events, unfinished, loaded, version>>
      /\ pc \in AfterVersion \ {"mark"} /\ pc' \in AfterVersion
  BY ColumnActions DEF ColumnUpdate
<1>2. /\ staged # {} /\ version = loaded /\ version \in Versions
      /\ \A k \in stored : trips[TripOf(k)].version = version
  <2>1. \A k \in stored : TripOf(k) \in Known BY ConstantTypes DEF TypeOK, Known
  <2> QED BY <1>1, <2>1 DEF RoundInv, TypeOK
<1>3. \A k \in stored :
        /\ CanonicalSequences(k)' = CanonicalSequences(k)
        /\ SyncSequences(k)' = SyncSequences(k)
        /\ TravelTime(k)' = TravelTime(k)
        /\ Dwell(k)' = Dwell(k)
        /\ BranchHeadway(k)' = BranchHeadway(k)
        /\ TrunkHeadway(k)' = TrunkHeadway(k)
  BY <1>1, MetricsFrame
<1>4. stored \subseteq Keys BY DEF TypeOK
<1>5. \A k \in stored : Dwell(k) = DwellTime(k, loaded)
  BY <1>2 DEF Dwell
<1>6. ASSUME \A k \in stored : derived'[k].canonical = derived[k].canonical,
             CanonicalRight
      PROVE  CanonicalRight'
  BY <1>1, <1>3, <1>6 DEF CanonicalRight
<1>7. ASSUME \A k \in stored : derived'[k].sync = derived[k].sync, SyncRight
      PROVE  SyncRight'
  BY <1>1, <1>3, <1>7 DEF SyncRight
<1>8. ASSUME \A k \in stored : derived'[k].travel = derived[k].travel, TravelRight
      PROVE  TravelRight'
  BY <1>1, <1>3, <1>8 DEF TravelRight, Saved
<1>9. ASSUME \A k \in stored : derived'[k].dwell = derived[k].dwell, DwellRight
      PROVE  DwellRight'
  BY <1>1, <1>3, <1>9 DEF DwellRight, Saved
<1>10. ASSUME \A k \in stored : derived'[k].branch = derived[k].branch, BranchRight
       PROVE  BranchRight'
  BY <1>1, <1>3, <1>10 DEF BranchRight, Saved
<1>11. CASE UpdateCanonical
  <2>1. /\ pc = "canonical" /\ pc' = "sync"
        /\ \A k \in stored : CanonicalSequences(k) # {}
             => derived'[k].canonical = Least(CanonicalSequences(k))
    BY <1>2, <1>11, CanonicalEffect
  <2>2. ASSUME NEW k \in stored, NEW s \in CanonicalSequences(k)
        PROVE  derived'[k].canonical = s
    <3>1. \A m \in CanonicalSequences(k) : m \in Nat /\ m < Null
      BY <1>2, <2>1, CanonicalNumbers
    <3>2. \A a, b \in CanonicalSequences(k) : a = b
      BY <1>2 DEF CanonicalSequences, NumbersAreUnique
    <3>3. /\ \A m \in CanonicalSequences(k) : Least(CanonicalSequences(k)) <= m
          /\ Least(CanonicalSequences(k)) \in CanonicalSequences(k) \cup {Null}
      <4>1. CanonicalSequences(k) \subseteq Nat BY <3>1
      <4> QED BY <4>1, LeastProperty
    <3>4. Least(CanonicalSequences(k)) \in CanonicalSequences(k)
      BY <3>1, <3>3, ConstantTypes
    <3> QED BY <2>1, <3>2, <3>4
  <2>3. CanonicalRight' BY <1>1, <1>3, <2>2 DEF CanonicalRight
  <2>4. pc' \notin BeforeMerge /\ pc' \notin AfterSync /\ pc' \notin AfterTravel
        /\ pc' \notin AfterDwell /\ pc' \notin AfterBranchHeadway /\ pc' \notin AfterTrunk
        /\ pc' # "mark"
    BY <2>1 DEF BeforeMerge, AfterSync, AfterBackup, AfterTravel, AfterDwell,
                AfterBranchHeadway, AfterTrunk
  <2> QED BY <2>3, <2>4 DEF MetricInv
<1>12. CASE UpdateSync
  <2>1. /\ pc = "sync" /\ pc' = "backup"
        /\ \A k \in Keys : derived'[k].canonical = derived[k].canonical
        /\ \A k \in stored : SyncSequences(k) # {}
             => derived'[k].sync \in SyncSequences(k)
    BY <1>2, <1>12, SyncEffect DEF Keeps
  <2>2. ASSUME NEW k \in stored, NEW s \in SyncSequences(k)
        PROVE  derived'[k].sync = s
    <3>1. \A a, b \in SyncSequences(k) : a = b
      BY <1>2 DEF SyncSequences, NumbersAreUnique
    <3> QED BY <2>1, <3>1
  <2>3. SyncRight' BY <1>1, <1>3, <2>2 DEF SyncRight
  <2>4. CanonicalRight'
    BY <1>2, <1>4, <1>6, <2>1 DEF MetricInv, AfterCanonical
  <2>5. pc' \notin BeforeMerge /\ pc' \notin AfterTravel
        /\ pc' \notin AfterDwell /\ pc' \notin AfterBranchHeadway /\ pc' \notin AfterTrunk
        /\ pc' # "mark"
    BY <2>1 DEF BeforeMerge, AfterTravel, AfterDwell, AfterBranchHeadway, AfterTrunk
  <2> QED BY <2>3, <2>4, <2>5 DEF MetricInv
<1>13. CASE UpdateTravel
  <2>1. /\ pc = "travel" /\ pc' = "dwell"
        /\ \A k \in Keys : /\ derived'[k].canonical = derived[k].canonical
                           /\ derived'[k].sync = derived[k].sync
        /\ \A k \in stored : Saved(derived'[k].travel, TravelTime(k))
    BY <1>13, TravelEffect DEF Keeps, Saved
  <2>2. TravelRight' BY <1>1, <1>3, <2>1 DEF TravelRight, Saved
  <2>3. CanonicalRight' /\ SyncRight'
    BY <1>2, <1>4, <1>6, <1>7, <2>1
    DEF MetricInv, AfterCanonical, AfterSync, AfterBackup
  <2>4. pc' \notin BeforeMerge /\ pc' \notin AfterDwell
        /\ pc' \notin AfterBranchHeadway /\ pc' \notin AfterTrunk /\ pc' # "mark"
    BY <2>1 DEF BeforeMerge, AfterDwell, AfterBranchHeadway, AfterTrunk
  <2> QED BY <2>2, <2>3, <2>4 DEF MetricInv
<1>14. CASE UpdateDwell
  <2>1. /\ pc = "dwell" /\ pc' = "branchHeadway"
        /\ \A k \in Keys : /\ derived'[k].canonical = derived[k].canonical
                           /\ derived'[k].sync = derived[k].sync
                           /\ derived'[k].travel = derived[k].travel
        /\ \A k \in stored : Saved(derived'[k].dwell, Dwell(k))
    BY <1>5, <1>14, DwellEffect DEF Keeps, Saved
  <2>2. DwellRight' BY <1>1, <1>3, <2>1 DEF DwellRight, Saved
  <2>3. CanonicalRight' /\ SyncRight' /\ TravelRight'
    BY <1>2, <1>4, <1>6, <1>7, <1>8, <2>1
    DEF MetricInv, AfterCanonical, AfterSync, AfterBackup, AfterTravel
  <2>4. pc' \notin BeforeMerge /\ pc' \notin AfterBranchHeadway
        /\ pc' \notin AfterTrunk /\ pc' # "mark"
    BY <2>1 DEF BeforeMerge, AfterBranchHeadway, AfterTrunk
  <2> QED BY <2>2, <2>3, <2>4 DEF MetricInv
<1>15. CASE UpdateBranchHeadway
  <2>1. /\ pc = "branchHeadway" /\ pc' = "trunkHeadway"
        /\ \A k \in Keys : /\ derived'[k].canonical = derived[k].canonical
                           /\ derived'[k].sync = derived[k].sync
                           /\ derived'[k].travel = derived[k].travel
                           /\ derived'[k].dwell = derived[k].dwell
        /\ \A k \in stored : Saved(derived'[k].branch, BranchHeadway(k))
    BY <1>15, BranchHeadwayEffect DEF Keeps, Saved
  <2>2. BranchRight' BY <1>1, <1>3, <2>1 DEF BranchRight, Saved
  <2>3. CanonicalRight' /\ SyncRight' /\ TravelRight' /\ DwellRight'
    BY <1>2, <1>4, <1>6, <1>7, <1>8, <1>9, <2>1
    DEF MetricInv, AfterCanonical, AfterSync, AfterBackup, AfterTravel, AfterDwell
  <2>4. pc' \notin BeforeMerge /\ pc' \notin AfterTrunk /\ pc' # "mark"
    BY <2>1 DEF BeforeMerge, AfterTrunk
  <2> QED BY <2>2, <2>3, <2>4 DEF MetricInv
<1>16. CASE UpdateTrunkHeadway
  <2>1. /\ pc = "trunkHeadway" /\ pc' = "mark"
        /\ \A k \in Keys : /\ derived'[k].canonical = derived[k].canonical
                           /\ derived'[k].sync = derived[k].sync
                           /\ derived'[k].travel = derived[k].travel
                           /\ derived'[k].dwell = derived[k].dwell
                           /\ derived'[k].branch = derived[k].branch
        /\ \A k \in stored : Saved(derived'[k].trunk, TrunkHeadway(k))
    BY <1>16, TrunkHeadwayEffect DEF Keeps, Saved
  <2>2. TrunkRight' BY <1>1, <1>3, <2>1 DEF TrunkRight, Saved
  <2>3. CanonicalRight' /\ SyncRight' /\ TravelRight' /\ DwellRight' /\ BranchRight'
    BY <1>2, <1>4, <1>6, <1>7, <1>8, <1>9, <1>10, <2>1
    DEF MetricInv, AfterCanonical, AfterSync, AfterBackup, AfterTravel, AfterDwell,
        AfterBranchHeadway
  <2> QED BY <1>1, <1>2, <2>1, <2>2, <2>3 DEF MetricInv, BeforeMerge
<1> QED BY <1>11, <1>12, <1>13, <1>14, <1>15, <1>16

\* Every step keeps stop sequences and metrics.
LEMMA MetricStep ==
    ASSUME NumbersAreUnique, TypeOK, RoundInv, MetricInv, [Next]_vars
    PROVE  MetricInv'
<1> USE StepNames
<1>1. CASE UNCHANGED vars \/ LoadSchedule \/ LoadTemp \/ FlagEvents
  <2>1. UNCHANGED <<trips, derived, stored, events, unfinished>>
    BY <1>1, LoadTempEffect, FlagEffect DEF vars, LoadSchedule, observers
  <2>2. AllRight' <=> AllRight BY <2>1, AllKept
  <2>3. CASE UNCHANGED vars \/ LoadSchedule
    <3>1. UNCHANGED <<pc, staged>> BY <2>3 DEF vars, LoadSchedule
    <3>2. \A k \in stored :
        /\ CanonicalSequences(k)' = CanonicalSequences(k)
        /\ SyncSequences(k)' = SyncSequences(k)
        /\ TravelTime(k)' = TravelTime(k)
        /\ Dwell(k)' = Dwell(k)
        /\ BranchHeadway(k)' = BranchHeadway(k)
        /\ TrunkHeadway(k)' = TrunkHeadway(k)
      BY <2>1, MetricsFrame
    <3>3. /\ CanonicalRight' <=> CanonicalRight
          /\ SyncRight' <=> SyncRight
      BY <2>1, <3>2 DEF CanonicalRight, SyncRight
    <3>4. /\ TravelRight' <=> TravelRight
          /\ DwellRight' <=> DwellRight
          /\ BranchRight' <=> BranchRight
          /\ TrunkRight' <=> TrunkRight
      BY <2>1, <3>2 DEF TravelRight, DwellRight, BranchRight, TrunkRight, Saved
    <3> QED BY <2>1, <2>2, <3>1, <3>3, <3>4 DEF MetricInv
  <2>4. CASE LoadTemp \/ FlagEvents
    <3>1. /\ pc \in BeforeMerge
          /\ pc' \in {"trips", "merge"} \/ (pc' = "mark" /\ staged' = {})
      BY <2>4, LoadTempEffect, FlagEffect DEF BeforeMerge
    <3>2. /\ pc' \notin AfterCanonical \/ staged' = {}
          /\ pc' \notin AfterSync \/ staged' = {}
          /\ pc' \notin AfterTravel \/ staged' = {}
          /\ pc' \notin AfterDwell \/ staged' = {}
          /\ pc' \notin AfterBranchHeadway \/ staged' = {}
          /\ pc' \notin AfterTrunk \/ staged' = {}
      BY <3>1 DEF AfterCanonical, AfterSync, AfterBackup, AfterTravel, AfterDwell,
                  AfterBranchHeadway, AfterTrunk
    <3> QED BY <2>1, <2>2, <3>1, <3>2 DEF MetricInv
  <2> QED BY <1>1, <2>3, <2>4
<1>2. CASE LoadNewTrips
  <2>1. /\ pc = "trips" /\ pc' = "flag"
        /\ \A t \in Known : trips'[t] = trips[t]
        /\ UNCHANGED <<staged, stored, events, derived, unfinished>>
    BY <1>2, NewTripsEffect DEF observers
  <2>2. \A j \in stored : trips'[TripOf(j)] = trips[TripOf(j)]
    BY <2>1, ConstantTypes DEF TypeOK, Known
  <2>3. AllRight' <=> AllRight BY <2>1, <2>2, AllKept
  <2>4. /\ pc \in BeforeMerge /\ pc' # "mark"
        /\ pc' \notin AfterCanonical /\ pc' \notin AfterSync /\ pc' \notin AfterTravel
        /\ pc' \notin AfterDwell /\ pc' \notin AfterBranchHeadway /\ pc' \notin AfterTrunk
    BY <2>1 DEF BeforeMerge, AfterCanonical, AfterSync, AfterBackup, AfterTravel,
                AfterDwell, AfterBranchHeadway, AfterTrunk
  <2> QED BY <2>1, <2>3, <2>4 DEF MetricInv
<1>3. CASE \/ MergeEvents \/ UpdateVersion \/ UpdateBranch \/ UpdateStopCounts
           \/ UpdateLinks \/ MatchExact \/ ScheduledStarts \/ AddedStarts
  <2>1. pc' \in {"version", "branch", "counts", "links", "exact", "starts", "added",
                 "canonical"}
    BY <1>3, MergeEffect, VersionEffect, BranchEffect, CountsEffect, LinksEffect,
       ExactEffect, StartsEffect
  <2>2. /\ pc' \notin BeforeMerge /\ pc' # "mark"
        /\ pc' \notin AfterCanonical /\ pc' \notin AfterSync /\ pc' \notin AfterTravel
        /\ pc' \notin AfterDwell /\ pc' \notin AfterBranchHeadway /\ pc' \notin AfterTrunk
    BY <2>1 DEF BeforeMerge, AfterCanonical, AfterSync, AfterBackup, AfterTravel,
                AfterDwell, AfterBranchHeadway, AfterTrunk
  <2> QED BY <2>2 DEF MetricInv
<1>4. CASE BackupMatch
  <2>1. /\ pc = "backup" /\ pc' = "travel"
        /\ StagedUpdate
        /\ \A t \in StagedTrips : Keeps(trips'[t], trips[t], {"trunk", "branch"})
    BY <1>4, BackupEffect DEF Keeps
  <2>2. /\ UNCHANGED <<staged, stored, events, derived>>
        /\ \A t \in Trips : trips'[t].version = trips[t].version
        /\ \A t \in Trips \ StagedTrips : trips'[t] = trips[t]
    BY <2>1 DEF StagedUpdate, Keeps
  <2>3. \A t \in Trips : Keeps(trips'[t], trips[t], {"version", "trunk", "branch"})
    BY <2>1, <2>2 DEF Keeps
  <2>4. \A k \in stored : /\ CanonicalSequences(k)' = CanonicalSequences(k)
                          /\ SyncSequences(k)' = SyncSequences(k)
    BY <2>3, SequencesFrame, ConstantTypes DEF TypeOK
  <2>5. staged # {} BY <2>1 DEF RoundInv
  <2>6. CanonicalRight /\ SyncRight
    BY <2>1, <2>5 DEF MetricInv, AfterCanonical, AfterSync
  <2>7. CanonicalRight' /\ SyncRight'
    BY <2>2, <2>4, <2>6 DEF CanonicalRight, SyncRight
  <2>8. /\ pc' \notin BeforeMerge /\ pc' # "mark"
        /\ pc' \notin AfterTravel
        /\ pc' \notin AfterDwell /\ pc' \notin AfterBranchHeadway /\ pc' \notin AfterTrunk
    BY <2>1 DEF BeforeMerge, AfterTravel, AfterDwell, AfterBranchHeadway, AfterTrunk
  <2> QED BY <2>7, <2>8 DEF MetricInv
<1>5. CASE \/ UpdateCanonical \/ UpdateSync \/ UpdateTravel
           \/ UpdateDwell \/ UpdateBranchHeadway \/ UpdateTrunkHeadway
  BY <1>5, MetricColumns
<1>6. CASE MarkProcessed \/ CutShort
  <2>1. /\ pc' = "idle"
        /\ UNCHANGED <<trips, derived, stored, events, staged>>
    BY <1>6 DEF MarkProcessed, CutShort, UnchangedEvents
  <2>2. AllRight' <=> AllRight BY <2>1, AllKept
  <2>3. /\ pc' # "mark"
        /\ pc' \notin AfterCanonical /\ pc' \notin AfterSync /\ pc' \notin AfterTravel
        /\ pc' \notin AfterDwell /\ pc' \notin AfterBranchHeadway /\ pc' \notin AfterTrunk
    BY <2>1 DEF AfterCanonical, AfterSync, AfterBackup, AfterTravel, AfterDwell,
                AfterBranchHeadway, AfterTrunk
  <2>4. ASSUME unfinished' = {} PROVE AllRight
    <3>1. CASE MarkProcessed
      <4>1. pc = "mark" /\ unfinished' = unfinished \ StagedTrips
        BY <3>1 DEF MarkProcessed
      <4>2. CASE staged = {}
        <5>1. StagedTrips = {} BY <4>2 DEF StagedTrips
        <5> QED BY <2>4, <4>1, <4>2, <5>1 DEF MetricInv
      <4>3. CASE staged # {}
        BY <4>1, <4>3 DEF MetricInv, AllRight, AfterCanonical, AfterSync, AfterBackup,
          AfterTravel, AfterDwell, AfterBranchHeadway, AfterTrunk
      <4> QED BY <4>2, <4>3
    <3>2. CASE CutShort
      <4>1. /\ pc \notin {"idle", "mark"}
            /\ unfinished' = IF pc \in {"trips", "flag", "merge"} THEN unfinished
                             ELSE unfinished \cup StagedTrips
        BY <3>2 DEF CutShort
      <4>2. CASE pc \in {"trips", "flag", "merge"}
        BY <2>4, <4>1, <4>2 DEF MetricInv, BeforeMerge
      <4>3. CASE pc \notin {"trips", "flag", "merge"}
        <5>1. staged # {} BY <4>1, <4>3 DEF RoundInv
        <5>2. StagedTrips # {} BY <5>1 DEF StagedTrips
        <5> QED BY <2>4, <4>1, <4>3, <5>2
      <4> QED BY <4>2, <4>3
    <3> QED BY <1>6, <3>1, <3>2
  <2> QED BY <2>1, <2>2, <2>3, <2>4 DEF MetricInv
<1> QED
  BY <1>1, <1>2, <1>3, <1>4, <1>5, <1>6 DEF Next

\* Between rounds the derived columns are those that the events give, in
\* whatever pieces and order these came, for every schedule in which a
\* station has one number per canonical trip and per trunk.
THEOREM DerivedIsCurrent ==
    ASSUME NumbersAreUnique
    PROVE  Spec => []DerivedFollowsEvents
<1> DEFINE I == TypeOK /\ RoundInv /\ TimeInv /\ TripInv /\ MetricInv
<1>1. Init => I
  <2> SUFFICES ASSUME Init PROVE I OBVIOUS
  <2>1. Known = {} /\ stored = {} BY DEF Init, Known, NoTrip
  <2>2. \A t \in Trips : trips[t].count = 0 BY DEF Init, NoTrip
  <2>3. pc = "idle" /\ StagedTrips = {} /\ staged = {} BY DEF Init, StagedTrips
  <2>4. TripInv BY <2>1, <2>2, <2>3 DEF TripInv
  <2>5. AllRight
    BY <2>1 DEF AllRight, CanonicalRight, SyncRight, TravelRight, DwellRight,
                BranchRight, TrunkRight
  <2>6. MetricInv BY <2>3, <2>5 DEF MetricInv
  <2> QED BY <2>4, <2>6, RoundInit
<1>2. I /\ [Next]_vars => I'
  BY RoundStep, TripStep, MetricStep
<1>3. I => DerivedFollowsEvents
  <2> SUFFICES ASSUME I, pc = "idle"
               PROVE  /\ \A t \in Known \ unfinished : Linked(t) /\ Branched(t) /\ Counted(t)
                      /\ unfinished = {} => AllRight
    BY DEF DerivedFollowsEvents, Linked, Branched, Counted, AllRight, CanonicalRight,
           SyncRight, TravelRight, DwellRight, BranchRight, TrunkRight, Dwell
  <2> QED BY DEF TripInv, MetricInv, BeforeMerge
<1> QED BY <1>1, <1>2, <1>3, PTL DEF Spec

=============================================================================
