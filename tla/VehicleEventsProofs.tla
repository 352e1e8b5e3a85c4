------------------------ MODULE VehicleEventsProofs --------------------------
(***************************************************************************)
(* Proofs about VehicleEvents, for every feed and any number of failed or  *)
(* interrupted rounds: its type invariant, that times of events only go    *)
(* down, that processed move times are never lost, and neither are         *)
(* processed stop times that follow a move of the same object, and that no *)
(* older prediction replaces a processed one.                              *)
(***************************************************************************)
EXTENDS VehicleEvents, TLAPS, WellFoundedInduction

(***************************************************************************)
(* Minima and maxima of sets of numbers                                    *)
(***************************************************************************)

\* A set of numbers that is not empty has a least element.
LEMMA LeastNumber ==
    ASSUME NEW S, S \subseteq Nat, S # {}
    PROVE  \E x \in S : \A y \in S : x <= y
<1> DEFINE R == OpToRel(<, Nat)
<1>1. IsWellFoundedOn(R, Nat)
  BY NatLessThanWellFounded
<1>2. PICK x \in S : \A y \in S : <<y, x>> \notin R
  <2> HIDE DEF R
  <2> QED BY <1>1, WFMin
<1>3. \A a, b \in Nat : a < b => <<a, b>> \in R
  BY DEF OpToRel
<1>4. ASSUME NEW y \in S PROVE x <= y
  <2> HIDE DEF R
  <2>1. x \in Nat /\ y \in Nat BY <1>4
  <2>2. ~(y < x) BY <1>2, <1>3, <2>1
  <2> QED BY <2>1, <2>2
<1> QED BY <1>4

\* A set of records that is not empty has a last one.
LEMMA LastRecord ==
    ASSUME NEW S, S \subseteq Records, S # {}
    PROVE  \E x \in S : \A y \in S : y <= x
<1>1. RecordCount \in Nat BY EventsAssumption
<1> DEFINE D == {RecordCount - r : r \in S}
<1>2. D \subseteq Nat /\ D # {}
  <2>1. ASSUME NEW r \in S PROVE RecordCount - r \in Nat
    <3>1. r \in 1 .. RecordCount BY <2>1 DEF Records
    <3> QED BY <1>1, <3>1
  <2> QED BY <2>1
<1>3. PICK d \in D : \A e \in D : d <= e
  <2> HIDE DEF D
  <2> QED BY <1>2, LeastNumber
<1>4. PICK x \in S : d = RecordCount - x BY <1>3
<1>5. ASSUME NEW y \in S PROVE y <= x
  <2>1. d <= RecordCount - y BY <1>3
  <2>2. x \in 1 .. RecordCount /\ y \in 1 .. RecordCount BY DEF Records
  <2> QED BY <1>1, <1>4, <2>1, <2>2
<1> QED BY <1>5

\* Times and NULL are numbers, NULL is the largest.
LEMMA TimesAreNumbers ==
    /\ TimesOrNull \subseteq Nat
    /\ NoTime \in TimesOrNull
    /\ \A r \in Records : TimeOf[r] \in TimesOrNull
    /\ \A t \in TimesOrNull : t <= NoTime
<1>1. Times \subseteq Nat /\ NoTime \in Nat BY EventsAssumption DEF Times
<1>2. \A r \in Records : TimeOf[r] \in Times BY DEF Times
<1>3. \A t \in Times : t < NoTime BY EventsAssumption
<1>4. \A t \in Times : t <= NoTime BY <1>1, <1>3
<1>5. NoTime <= NoTime BY <1>1
<1> QED BY <1>1, <1>2, <1>4, <1>5 DEF TimesOrNull

\* Earliest returns a time of the set, or NULL, that is not later than any.
LEMMA EarliestProperty ==
    ASSUME NEW S, S \subseteq Records
    PROVE  /\ Earliest(S) \in {TimeOf[r] : r \in S} \cup {NoTime}
           /\ Earliest(S) \in TimesOrNull
           /\ \A r \in S : Earliest(S) <= TimeOf[r]
<1> DEFINE T == {TimeOf[r] : r \in S} \cup {NoTime}
<1>1. T \subseteq Nat /\ T # {} BY TimesAreNumbers
<1>2. \E t \in T : \A u \in T : t <= u
  <2> HIDE DEF T
  <2> QED BY <1>1, LeastNumber
<1>3. \E t \in T : \A r \in S : t <= TimeOf[r] BY <1>2
<1>4. Earliest(S) \in T /\ \A r \in S : Earliest(S) <= TimeOf[r]
  BY <1>3 DEF Earliest
<1> QED BY <1>4, TimesAreNumbers

\* Last returns a time of the set, or NULL.
LEMMA LastProperty ==
    ASSUME NEW S, S \subseteq Records
    PROVE  /\ Last(S) \in {TimeOf[r] : r \in S} \cup {NoTime}
           /\ Last(S) \in TimesOrNull
<1>1. CASE S = {} BY <1>1, TimesAreNumbers DEF Last
<1>2. CASE S # {}
  <2>1. \E x \in S : \A y \in S : y <= x BY <1>2, LastRecord
  <2>2. (CHOOSE r \in S : \A s \in S : s <= r) \in S BY <2>1
  <2> QED BY <1>2, <2>2, TimesAreNumbers DEF Last
<1> QED BY <1>1, <1>2

\* What the reduction of a set of records looks like.
LEMMA ReduceProperty ==
    ASSUME NEW S, S \subseteq Records
    PROVE  /\ Reduce(S) \in Rows
           /\ \A r \in S \cap Moves : Reduce(S).move <= TimeOf[r]
           /\ \A r \in S \cap Stops : Reduce(S).stop <= TimeOf[r]
           /\ Reduce(S).move \in {TimeOf[r] : r \in S \cap Moves} \cup {NoTime}
           /\ Reduce(S).stop \in {TimeOf[r] : r \in S \cap Stops} \cup {NoTime}
           /\ Reduce(S).tu \in {TimeOf[r] : r \in S \cap Updates} \cup {NoTime}
<1>1. /\ S \cap Moves \subseteq Records
      /\ S \cap Stops \subseteq Records
      /\ S \cap Updates \subseteq Records
  OBVIOUS
<1>2. /\ Earliest(S \cap Moves) \in TimesOrNull
      /\ Earliest(S \cap Stops) \in TimesOrNull
      /\ Last(S \cap Updates) \in TimesOrNull
  BY <1>1, EarliestProperty, LastProperty
<1>3. Reduce(S) \in Rows BY <1>2 DEF Reduce, Rows
<1>4. /\ Reduce(S).move = Earliest(S \cap Moves)
      /\ Reduce(S).stop = Earliest(S \cap Stops)
      /\ Reduce(S).tu = Last(S \cap Updates)
  BY DEF Reduce
<1> QED BY <1>1, <1>3, <1>4, EarliestProperty, LastProperty

(***************************************************************************)
(* The inductive invariant                                                 *)
(***************************************************************************)

\* The move times that the round has read are on their way to the events,
\* or are no news for them.
MoveInRound ==
    \A p \in Paths : \A r \in read[p] \cap Moves :
        LET e == EventOf[r]
        IN  /\ pc = "flag" => e \in staged /\ temp[e].move <= TimeOf[r]
            /\ pc = "insert" => IF e \in staged
                                THEN temp[e].move <= TimeOf[r]
                                ELSE events[e].move <= TimeOf[r]
            /\ pc \in {"stop", "tu", "mark"} => events[e].move <= TimeOf[r]

\* A set of records has a stop with an earlier move to the same station.
MovedBefore(r, S) ==
    \E m \in S \cap Moves : EventOf[m] = EventOf[r] /\ TimeOf[m] <= TimeOf[r]

\* The same for stop times that the flags do not overlook.
StopInRound ==
    \A p \in Paths : \A r \in read[p] \cap Stops :
        LET e == EventOf[r]
        IN  MovedBefore(r, read[p]) =>
            /\ pc = "flag" => e \in staged /\ temp[e].stop <= TimeOf[r]
            /\ pc \in {"insert", "stop"} => IF e \in staged
                                            THEN temp[e].stop <= TimeOf[r]
                                            ELSE events[e].stop <= TimeOf[r]
            /\ pc \in {"tu", "mark"} => events[e].stop <= TimeOf[r]

\* A round only takes reported times, into rows that are there.
TempIsReported ==
    /\ pc \notin {"idle", "load"} =>
        \A e \in Events : ReportedBy(Published, temp[e], e)
    /\ pc \in {"stop", "tu"} => staged \subseteq stored

\* What every step keeps, beside the types.
Merged ==
    /\ MoveInRound
    /\ StopInRound
    /\ TempIsReported
    /\ MoveIsEarliest
    /\ StopIsEarliestAfterMove
    /\ TimesAreReported

(***************************************************************************)
(* Types                                                                   *)
(***************************************************************************)

\* The rows that a set of actions writes into vehicle_events.
LEMMA RowUpdate ==
    ASSUME NEW a \in Rows, NEW t \in TimesOrNull
    PROVE  /\ [a EXCEPT !.move = t] \in Rows
           /\ [a EXCEPT !.stop = t] \in Rows
           /\ [a EXCEPT !.tu = t] \in Rows
BY DEF Rows

\* Types are kept by every step.
LEMMA TypeStep ==
    TypeOK /\ [Next]_vars => TypeOK'
<1> SUFFICES ASSUME TypeOK, [Next]_vars PROVE TypeOK'
  OBVIOUS
<1>1. ASSUME NEW r \in Records, Ingest(r) PROVE TypeOK'
  <2>1. PathOf[r] \in Paths BY EventsAssumption
  <2>2. object' \in [Paths -> SUBSET Records] BY <1>1, <2>1 DEF TypeOK, Ingest
  <2>3. status' \in [Paths -> Statuses]
    BY <1>1, <2>1 DEF TypeOK, Ingest, Statuses
  <2> QED BY <1>1, <2>2, <2>3 DEF TypeOK, Ingest, tables
<1>2. CASE Select
  BY <1>2 DEF TypeOK, Select, tables
<1>3. CASE Load
  <2>1. read' \in [Paths -> SUBSET Records] BY <1>3 DEF TypeOK, Load
  <2> DEFINE S == UNION {object[p] : p \in batch}
  <2>2. S \subseteq Records BY DEF TypeOK
  <2>3. staged' \subseteq Events
    BY <1>3, <2>2, EventsAssumption DEF Load
  <2>4. \A e \in Events : Reduce(About(e, S)) \in Rows
    BY <2>2, ReduceProperty DEF About
  <2>5. temp' \in [Events -> Rows] BY <1>3, <2>4 DEF Load
  <2> QED BY <1>3, <2>1, <2>3, <2>5 DEF TypeOK, Load
<1>4. CASE FlagEvents
  <2>1. pc' \in {"mark", "insert"} BY <1>4 DEF FlagEvents
  <2>2. staged' \subseteq Events BY <1>4 DEF TypeOK, FlagEvents
  <2> QED BY <1>4, <2>1, <2>2 DEF TypeOK, FlagEvents
<1>5. CASE InsertMove
  <2>1. \A e \in Events : temp[e].move \in TimesOrNull BY DEF TypeOK, Rows
  <2>2. events' \in [Events -> Rows]
    BY <1>5, <2>1, RowUpdate DEF TypeOK, InsertMove
  <2> QED BY <1>5, <2>2 DEF TypeOK, InsertMove
<1>6. CASE UpdateStop
  <2>1. \A e \in Events : temp[e].stop \in TimesOrNull BY DEF TypeOK, Rows
  <2>2. events' \in [Events -> Rows]
    BY <1>6, <2>1, RowUpdate DEF TypeOK, UpdateStop
  <2> QED BY <1>6, <2>2 DEF TypeOK, UpdateStop
<1>7. CASE UpdateTu
  <2>1. \A e \in Events : temp[e].tu \in TimesOrNull BY DEF TypeOK, Rows
  <2>2. events' \in [Events -> Rows]
    BY <1>7, <2>1, RowUpdate DEF TypeOK, UpdateTu
  <2> QED BY <1>7, <2>2 DEF TypeOK, UpdateTu
<1>8. ASSUME NEW flags \in Statuses, Mark(flags)
      PROVE  /\ status' \in [Paths -> Statuses]
             /\ pc' = "idle"
             /\ batch' = {}
             /\ read' \in [Paths -> SUBSET Records]
             /\ UNCHANGED <<object, staged, temp, stored, events>>
  BY <1>8 DEF TypeOK, Mark, NoRecords, tables
<1>9. CASE MarkProcessed
  <2>1. Mark("done") /\ trouble' = trouble BY <1>9 DEF MarkProcessed
  <2>2. seen' \in [Paths -> SUBSET Records] BY <1>9 DEF TypeOK, MarkProcessed
  <2> QED BY <1>8, <2>1, <2>2 DEF TypeOK, Statuses
<1>10. CASE MarkFailed
  <2>1. Mark("failed") /\ seen' = seen BY <1>10 DEF MarkFailed
  <2>2. trouble' \in Nat BY <1>10 DEF TypeOK, MarkFailed, Trouble
  <2> QED BY <1>8, <2>1, <2>2 DEF TypeOK, Statuses
<1>11. CASE Crash
  <2>1. trouble' \in Nat BY <1>11 DEF TypeOK, Crash, Trouble
  <2> QED BY <1>11, <2>1 DEF TypeOK, Crash, tables, NoRecords
<1>12. CASE UNCHANGED vars
  BY <1>12 DEF TypeOK, vars
<1> QED
  BY <1>1, <1>2, <1>3, <1>4, <1>5, <1>6, <1>7, <1>9, <1>10, <1>11, <1>12
  DEF Next

\* Tables, flags and observers have the types that TypeOK names.
THEOREM TypeCorrect == Spec => []TypeOK
<1>1. Init => TypeOK
  BY TimesAreNumbers
  DEF Init, TypeOK, NoRecords, EmptyRow, Rows, Statuses
<1> QED BY <1>1, TypeStep, PTL DEF Spec

(***************************************************************************)
(* Times only go down                                                      *)
(***************************************************************************)

\* A step lets the times of the events alone or lowers them.
LEMMA NoLaterStep ==
    TypeOK /\ [Next]_vars => NoLaterTimes
<1> SUFFICES ASSUME TypeOK, [Next]_vars PROVE NoLaterTimes
  OBVIOUS
<1>1. \A e \in Events : /\ events[e] \in Rows
                        /\ events[e].move \in Nat /\ events[e].stop \in Nat
                        /\ temp[e].move \in Nat /\ temp[e].stop \in Nat
  BY TimesAreNumbers DEF TypeOK, Rows
<1>2. CASE stored' = stored /\ events' = events
  BY <1>1, <1>2 DEF NoLaterTimes
<1>3. CASE InsertMove
  <2>1. stored \subseteq stored' BY <1>3 DEF InsertMove
  <2>2. ASSUME NEW e \in Events
        PROVE  /\ events'[e].move <= events[e].move
               /\ events'[e].stop <= events[e].stop
    <3>1. CASE e \in staged /\ temp[e].move < events[e].move
      <4>1. events'[e] = [events[e] EXCEPT !.move = temp[e].move]
        BY <1>3, <3>1 DEF InsertMove
      <4>2. events'[e].move = temp[e].move /\ events'[e].stop = events[e].stop
        BY <1>1, <4>1 DEF Rows
      <4> QED BY <1>1, <3>1, <4>2
    <3>2. CASE ~(e \in staged /\ temp[e].move < events[e].move)
      <4>1. events'[e] = events[e] BY <1>3, <3>2 DEF InsertMove
      <4> QED BY <1>1, <4>1
    <3> QED BY <3>1, <3>2
  <2> QED BY <2>1, <2>2 DEF NoLaterTimes
<1>4. CASE UpdateStop
  <2>1. stored' = stored BY <1>4 DEF UpdateStop
  <2>2. ASSUME NEW e \in Events
        PROVE  /\ events'[e].move <= events[e].move
               /\ events'[e].stop <= events[e].stop
    <3>1. CASE e \in staged /\ temp[e].stop < events[e].stop
      <4>1. events'[e] = [events[e] EXCEPT !.stop = temp[e].stop]
        BY <1>4, <3>1 DEF UpdateStop
      <4>2. events'[e].stop = temp[e].stop /\ events'[e].move = events[e].move
        BY <1>1, <4>1 DEF Rows
      <4> QED BY <1>1, <3>1, <4>2
    <3>2. CASE ~(e \in staged /\ temp[e].stop < events[e].stop)
      <4>1. events'[e] = events[e] BY <1>4, <3>2 DEF UpdateStop
      <4> QED BY <1>1, <4>1
    <3> QED BY <3>1, <3>2
  <2> QED BY <2>1, <2>2 DEF NoLaterTimes
<1>5. CASE UpdateTu
  <2>1. stored' = stored BY <1>5 DEF UpdateTu
  <2>2. ASSUME NEW e \in Events
        PROVE  events'[e].move = events[e].move /\ events'[e].stop = events[e].stop
    <3>1. events'[e] \in {[events[e] EXCEPT !.tu = temp[e].tu], events[e]}
      BY <1>5 DEF UpdateTu
    <3> QED BY <1>1, <3>1 DEF Rows
  <2> QED BY <1>1, <2>1, <2>2 DEF NoLaterTimes
<1>6. ASSUME NEW r \in Records, Ingest(r) PROVE stored' = stored /\ events' = events
  BY <1>6 DEF Ingest, tables
<1>7. ASSUME Select \/ Load \/ FlagEvents PROVE stored' = stored /\ events' = events
  BY <1>7 DEF Select, Load, FlagEvents, tables
<1>8. ASSUME MarkProcessed \/ MarkFailed \/ Crash
      PROVE  stored' = stored /\ events' = events
  BY <1>8 DEF MarkProcessed, MarkFailed, Crash, Mark, tables
<1>9. ASSUME UNCHANGED vars PROVE stored' = stored /\ events' = events
  BY <1>9 DEF vars
<1> QED BY <1>2, <1>3, <1>4, <1>5, <1>6, <1>7, <1>8, <1>9 DEF Next

\* No round, failure or crash moves a time of an event to later.
THEOREM TimesOnlyGoDown == Spec => TimesNeverGrow
<1>1. TypeOK /\ [Next]_vars => [NoLaterTimes]_vars
  BY NoLaterStep
<1> QED BY <1>1, TypeCorrect, PTL DEF Spec, TimesNeverGrow

(***************************************************************************)
(* Reported times reach the events and stay there                          *)
(***************************************************************************)

\* All times are numbers that can be compared.
LEMMA TimesCompare ==
    ASSUME TypeOK
    PROVE  /\ \A e \in Events :
                /\ temp[e].move \in TimesOrNull /\ temp[e].stop \in TimesOrNull
                /\ events[e].move \in TimesOrNull /\ events[e].stop \in TimesOrNull
                /\ temp[e].move \in Nat /\ temp[e].stop \in Nat
                /\ events[e].move \in Nat /\ events[e].stop \in Nat
           /\ \A r \in Records : TimeOf[r] \in Nat /\ EventOf[r] \in Events
           /\ NoTime \in Nat
BY TimesAreNumbers, EventsAssumption DEF TypeOK, Rows

\* A reported row is reported by every larger set of records.
LEMMA ReportedByMore ==
    ASSUME NEW S, NEW T, S \subseteq T, NEW row, NEW e, ReportedBy(S, row, e)
    PROVE  ReportedBy(T, row, e)
BY DEF ReportedBy, About

\* What a round puts in the temporary table is reported.
LEMMA ReducedIsReported ==
    ASSUME NEW S, S \subseteq Records, NEW e
    PROVE  ReportedBy(S, Reduce(About(e, S)), e)
<1>1. About(e, S) \subseteq Records BY DEF About
<1> QED BY <1>1, ReduceProperty DEF ReportedBy

\* An event whose row is deleted from the temporary table has no news in it.
LEMMA UnflaggedIsOld ==
    ASSUME TypeOK, NEW e \in Events, ~ToUpdate(e)
    PROVE  /\ events[e].move <= temp[e].move
           /\ temp[e].stop # NoTime => events[e].stop <= temp[e].move
BY TimesCompare, TimesAreNumbers DEF ToUpdate

\* A stop that is not later than a move is not NULL.
LEMMA ReadTimesAreKnown ==
    \A r \in Records : TimeOf[r] # NoTime
BY EventsAssumption DEF Times

\* Loading puts everything that was read into the temporary table.
LEMMA LoadMerges ==
    ASSUME TypeOK, Merged, Load
    PROVE  MoveInRound' /\ StopInRound' /\ TempIsReported'
<1> DEFINE S == UNION {object[p] : p \in batch}
<1>1. S \subseteq Records /\ S \subseteq Published
  BY DEF TypeOK, Published
<1>2. pc' = "flag" /\ object' = object BY DEF Load
<1>3. ASSUME NEW p \in Paths, NEW r \in read'[p]
      PROVE  r \in Records /\ r \in About(EventOf[r], S) /\ EventOf[r] \in staged'
             /\ EventOf[r] \in Events
  <2>1. r \in S BY <1>3 DEF Load
  <2> QED BY <1>1, <2>1, EventsAssumption DEF Load, About
<1>4. \A e \in Events : temp'[e] = Reduce(About(e, S)) BY DEF Load
<1>5. \A e \in Events : About(e, S) \subseteq Records BY <1>1 DEF About
<1>6. MoveInRound'
  <2>1. ASSUME NEW p \in Paths, NEW r \in read'[p] \cap Moves
        PROVE  temp'[EventOf[r]].move <= TimeOf[r]
    BY <1>3, <1>4, <1>5, <2>1, ReduceProperty
  <2> QED BY <1>2, <1>3, <2>1 DEF MoveInRound
<1>7. StopInRound'
  <2>1. ASSUME NEW p \in Paths, NEW r \in read'[p] \cap Stops
        PROVE  temp'[EventOf[r]].stop <= TimeOf[r]
    BY <1>3, <1>4, <1>5, <2>1, ReduceProperty
  <2> QED BY <1>2, <1>3, <2>1 DEF StopInRound
<1>8. TempIsReported'
  <2>1. \A e \in Events : ReportedBy(S, temp'[e], e)
    BY <1>1, <1>4, ReducedIsReported
  <2>2. \A e \in Events : ReportedBy(Published, temp'[e], e)
    BY <1>1, <2>1, ReportedByMore
  <2>3. Published' = Published BY <1>2 DEF Published
  <2> QED BY <1>2, <2>2, <2>3 DEF TempIsReported
<1> QED BY <1>6, <1>7, <1>8

\* Deleting unflagged rows loses no move time, and no stop time that has a
\* move before it.
LEMMA FlagsMerge ==
    ASSUME TypeOK, Merged, FlagEvents
    PROVE  MoveInRound' /\ StopInRound' /\ TempIsReported'
<1>1. /\ pc = "flag" /\ pc' \in {"mark", "insert"}
      /\ (pc' = "mark") => (staged' = {})
      /\ UNCHANGED <<object, read, temp, events, stored>>
  BY DEF FlagEvents
<1>2. \A p \in Paths : read[p] \subseteq Records BY DEF TypeOK
<1>3. ASSUME NEW e \in Events, e \in staged, e \notin staged'
      PROVE  ~ToUpdate(e)
  BY <1>3 DEF FlagEvents
<1>4. ASSUME NEW p \in Paths, NEW r \in read[p] \cap Moves
      PROVE  /\ EventOf[r] \in Events /\ EventOf[r] \in staged
             /\ temp[EventOf[r]].move <= TimeOf[r]
             /\ EventOf[r] \notin staged' => events[EventOf[r]].move <= TimeOf[r]
  <2>1. r \in Records /\ EventOf[r] \in Events BY <1>2, TimesCompare
  <2>2. EventOf[r] \in staged /\ temp[EventOf[r]].move <= TimeOf[r]
    BY <1>1 DEF Merged, MoveInRound
  <2>3. EventOf[r] \notin staged' => events[EventOf[r]].move <= temp[EventOf[r]].move
    BY <1>3, <2>1, <2>2, UnflaggedIsOld
  <2> QED BY <2>1, <2>2, <2>3, TimesCompare
<1>5. MoveInRound'
  BY <1>1, <1>4 DEF MoveInRound
<1>6. ASSUME NEW p \in Paths, NEW r \in read[p] \cap Stops, MovedBefore(r, read[p])
      PROVE  /\ EventOf[r] \in staged
             /\ temp[EventOf[r]].stop <= TimeOf[r]
             /\ EventOf[r] \notin staged' => events[EventOf[r]].stop <= TimeOf[r]
  <2>1. r \in Records /\ EventOf[r] \in Events BY <1>2, TimesCompare
  <2>2. EventOf[r] \in staged /\ temp[EventOf[r]].stop <= TimeOf[r]
    BY <1>1, <1>6 DEF Merged, StopInRound
  <2>3. PICK m \in read[p] \cap Moves :
            EventOf[m] = EventOf[r] /\ TimeOf[m] <= TimeOf[r]
    BY <1>6 DEF MovedBefore
  <2>4. temp[EventOf[r]].move <= TimeOf[m] BY <1>4, <2>3
  <2>5. TimeOf[m] \in Nat /\ TimeOf[r] \in Nat BY <1>2, <2>3, TimesCompare
  <2>6. temp[EventOf[r]].stop # NoTime
    <3>1. TimeOf[r] <= NoTime /\ TimeOf[r] # NoTime
      BY <2>1, TimesAreNumbers, ReadTimesAreKnown
    <3> QED BY <2>1, <2>2, <2>5, <3>1, TimesCompare
  <2>7. ASSUME EventOf[r] \notin staged' PROVE events[EventOf[r]].stop <= TimeOf[r]
    <3>1. events[EventOf[r]].stop <= temp[EventOf[r]].move
      BY <1>3, <2>1, <2>2, <2>6, <2>7, UnflaggedIsOld
    <3> QED BY <2>1, <2>3, <2>4, <2>5, <3>1, TimesCompare
  <2> QED BY <2>2, <2>7
<1>7. StopInRound'
  BY <1>1, <1>6 DEF StopInRound, MovedBefore
<1>8. TempIsReported'
  BY <1>1 DEF Merged, TempIsReported, Published
<1> QED BY <1>5, <1>7, <1>8

\* What was processed stays covered while times only go down.
LEMMA ProcessedStays ==
    ASSUME TypeOK, TypeOK', NoLaterTimes, MoveIsEarliest, StopIsEarliestAfterMove,
           seen' = seen
    PROVE  MoveIsEarliest' /\ StopIsEarliestAfterMove'
<1>1. \A p \in Paths : seen[p] \subseteq Records BY DEF TypeOK
<1>2. \A e \in Events : /\ events[e].move \in Nat /\ events[e].stop \in Nat
                        /\ events'[e].move \in Nat /\ events'[e].stop \in Nat
  BY TimesAreNumbers DEF TypeOK, Rows
<1>3. \A r \in Records : EventOf[r] \in Events /\ TimeOf[r] \in Nat
  BY EventsAssumption
<1>4. MoveIsEarliest'
  <2>1. ASSUME NEW r \in Processed \cap Moves
        PROVE  events'[EventOf[r]].move <= TimeOf[r]
    <3>1. r \in Records BY <1>1, <2>1 DEF Processed
    <3>2. events[EventOf[r]].move <= TimeOf[r] BY <2>1 DEF MoveIsEarliest
    <3>3. events'[EventOf[r]].move <= events[EventOf[r]].move
      BY <1>3, <3>1 DEF NoLaterTimes
    <3> QED BY <1>2, <1>3, <3>1, <3>2, <3>3
  <2> QED BY <2>1 DEF MoveIsEarliest, Processed
<1>5. StopIsEarliestAfterMove'
  <2>1. ASSUME NEW p \in Paths, NEW r \in seen[p] \cap Stops,
               \E m \in seen[p] \cap Moves :
                  EventOf[m] = EventOf[r] /\ TimeOf[m] <= TimeOf[r]
        PROVE  events'[EventOf[r]].stop <= TimeOf[r]
    <3>1. r \in Records BY <1>1
    <3>2. events[EventOf[r]].stop <= TimeOf[r] BY <2>1 DEF StopIsEarliestAfterMove
    <3>3. events'[EventOf[r]].stop <= events[EventOf[r]].stop
      BY <1>3, <3>1 DEF NoLaterTimes
    <3> QED BY <1>2, <1>3, <3>1, <3>2, <3>3
  <2> QED BY <2>1 DEF StopIsEarliestAfterMove
<1> QED BY <1>4, <1>5

\* A row of events that takes one time from the temporary table.
LEMMA MixedIsReported ==
    ASSUME TypeOK, NEW e \in Events, NEW S,
           ReportedBy(S, temp[e], e), ReportedBy(S, events[e], e)
    PROVE  /\ ReportedBy(S, [events[e] EXCEPT !.move = temp[e].move], e)
           /\ ReportedBy(S, [events[e] EXCEPT !.stop = temp[e].stop], e)
           /\ ReportedBy(S, [events[e] EXCEPT !.tu = temp[e].tu], e)
<1>1. events[e] \in Rows BY DEF TypeOK
<1>2. \A t : /\ [events[e] EXCEPT !.move = t].move = t
             /\ [events[e] EXCEPT !.move = t].stop = events[e].stop
             /\ [events[e] EXCEPT !.move = t].tu = events[e].tu
             /\ [events[e] EXCEPT !.stop = t].move = events[e].move
             /\ [events[e] EXCEPT !.stop = t].stop = t
             /\ [events[e] EXCEPT !.stop = t].tu = events[e].tu
             /\ [events[e] EXCEPT !.tu = t].move = events[e].move
             /\ [events[e] EXCEPT !.tu = t].stop = events[e].stop
             /\ [events[e] EXCEPT !.tu = t].tu = t
  BY <1>1 DEF Rows
<1>3. ReportedBy(S, [events[e] EXCEPT !.move = temp[e].move], e)
  BY <1>2 DEF ReportedBy
<1>4. ReportedBy(S, [events[e] EXCEPT !.stop = temp[e].stop], e)
  BY <1>2 DEF ReportedBy
<1>5. ReportedBy(S, [events[e] EXCEPT !.tu = temp[e].tu], e)
  BY <1>2 DEF ReportedBy
<1> QED BY <1>3, <1>4, <1>5

\* The first statement: the events have the move times of the round.
LEMMA InsertMerges ==
    ASSUME TypeOK, Merged, InsertMove
    PROVE  MoveInRound' /\ StopInRound' /\ TempIsReported' /\ TimesAreReported'
<1>1. /\ pc = "insert" /\ pc' = "stop" /\ stored' = stored \cup staged
      /\ UNCHANGED <<object, read, staged, temp>>
  BY DEF InsertMove
<1>2. \A e \in Events :
        IF e \in staged /\ temp[e].move < events[e].move
        THEN events'[e] = [events[e] EXCEPT !.move = temp[e].move]
        ELSE events'[e] = events[e]
  BY DEF InsertMove
<1>3. ASSUME NEW e \in Events
      PROVE  /\ events'[e].stop = events[e].stop
             /\ e \in staged => events'[e].move <= temp[e].move
             /\ e \notin staged => events'[e] = events[e]
  <2>1. events[e] \in Rows BY DEF TypeOK
  <2>2. CASE e \in staged /\ temp[e].move < events[e].move
    <3>1. events'[e].move = temp[e].move /\ events'[e].stop = events[e].stop
      BY <1>2, <2>1, <2>2 DEF Rows
    <3> QED BY <2>2, <3>1, TimesCompare
  <2>3. CASE ~(e \in staged /\ temp[e].move < events[e].move)
    <3>1. events'[e] = events[e] BY <1>2, <2>3
    <3> QED BY <2>3, <3>1, TimesCompare
  <2> QED BY <2>2, <2>3
<1>4. \A p \in Paths : read[p] \subseteq Records BY DEF TypeOK
<1>5. MoveInRound'
  <2>1. ASSUME NEW p \in Paths, NEW r \in read[p] \cap Moves
        PROVE  events'[EventOf[r]].move <= TimeOf[r]
    <3>1. r \in Records /\ EventOf[r] \in Events BY <1>4, TimesCompare
    <3>2. IF EventOf[r] \in staged THEN temp[EventOf[r]].move <= TimeOf[r]
                                   ELSE events[EventOf[r]].move <= TimeOf[r]
      BY <1>1 DEF Merged, MoveInRound
    <3>3. events'[EventOf[r]].move \in Nat
      BY <1>2, <3>1, TimesCompare DEF TypeOK, Rows
    <3> QED BY <1>3, <3>1, <3>2, <3>3, TimesCompare
  <2> QED BY <1>1, <2>1 DEF MoveInRound
<1>6. StopInRound'
  <2>1. ASSUME NEW p \in Paths, NEW r \in read[p] \cap Stops, MovedBefore(r, read[p])
        PROVE  IF EventOf[r] \in staged THEN temp[EventOf[r]].stop <= TimeOf[r]
                                        ELSE events'[EventOf[r]].stop <= TimeOf[r]
    <3>1. EventOf[r] \in Events BY <1>4, TimesCompare
    <3> QED BY <1>1, <1>3, <2>1, <3>1 DEF Merged, StopInRound
  <2> QED BY <1>1, <2>1 DEF StopInRound, MovedBefore
<1>7. \A e \in Events : ReportedBy(Published, temp[e], e)
  BY <1>1 DEF Merged, TempIsReported
<1>8. TempIsReported'
  BY <1>1, <1>7 DEF TempIsReported, Published
<1>9. TimesAreReported'
  <2>1. Published' = Published BY <1>1 DEF Published
  <2>2. \A e \in Events : ReportedBy(Published, events'[e], e)
    BY <1>2, <1>7, MixedIsReported DEF Merged, TimesAreReported
  <2>3. \A e \in Events : e \in stored' \/ events'[e] = EmptyRow
    BY <1>1, <1>3 DEF Merged, TimesAreReported
  <2> QED BY <2>1, <2>2, <2>3 DEF TimesAreReported
<1> QED BY <1>5, <1>6, <1>8, <1>9

\* The second statement: they have its stop times.
LEMMA StopsMerge ==
    ASSUME TypeOK, Merged, UpdateStop
    PROVE  MoveInRound' /\ StopInRound' /\ TempIsReported' /\ TimesAreReported'
<1>1. /\ pc = "stop" /\ pc' = "tu"
      /\ UNCHANGED <<object, read, staged, temp, stored>>
  BY DEF UpdateStop
<1>2. \A e \in Events :
        IF e \in staged /\ temp[e].stop < events[e].stop
        THEN events'[e] = [events[e] EXCEPT !.stop = temp[e].stop]
        ELSE events'[e] = events[e]
  BY DEF UpdateStop
<1>3. ASSUME NEW e \in Events
      PROVE  /\ events'[e].move = events[e].move
             /\ e \in staged => events'[e].stop <= temp[e].stop
             /\ e \notin staged => events'[e] = events[e]
             /\ events'[e].stop \in Nat
  <2>1. events[e] \in Rows BY DEF TypeOK
  <2>2. CASE e \in staged /\ temp[e].stop < events[e].stop
    <3>1. events'[e].stop = temp[e].stop /\ events'[e].move = events[e].move
      BY <1>2, <2>1, <2>2 DEF Rows
    <3> QED BY <2>2, <3>1, TimesCompare
  <2>3. CASE ~(e \in staged /\ temp[e].stop < events[e].stop)
    <3>1. events'[e] = events[e] BY <1>2, <2>3
    <3> QED BY <2>3, <3>1, TimesCompare
  <2> QED BY <2>2, <2>3
<1>4. \A p \in Paths : read[p] \subseteq Records BY DEF TypeOK
<1>5. MoveInRound'
  <2>1. ASSUME NEW p \in Paths, NEW r \in read[p] \cap Moves
        PROVE  events'[EventOf[r]].move <= TimeOf[r]
    <3>1. EventOf[r] \in Events BY <1>4, TimesCompare
    <3> QED BY <1>1, <1>3, <3>1 DEF Merged, MoveInRound
  <2> QED BY <1>1, <2>1 DEF MoveInRound
<1>6. StopInRound'
  <2>1. ASSUME NEW p \in Paths, NEW r \in read[p] \cap Stops, MovedBefore(r, read[p])
        PROVE  events'[EventOf[r]].stop <= TimeOf[r]
    <3>1. r \in Records /\ EventOf[r] \in Events BY <1>4, TimesCompare
    <3>2. IF EventOf[r] \in staged THEN temp[EventOf[r]].stop <= TimeOf[r]
                                   ELSE events[EventOf[r]].stop <= TimeOf[r]
      BY <1>1, <2>1 DEF Merged, StopInRound
    <3> QED BY <1>3, <3>1, <3>2, TimesCompare
  <2> QED BY <1>1, <2>1 DEF StopInRound, MovedBefore
<1>7. /\ \A e \in Events : ReportedBy(Published, temp[e], e)
      /\ staged \subseteq stored
  BY <1>1 DEF Merged, TempIsReported
<1>8. TempIsReported'
  BY <1>1, <1>7 DEF TempIsReported, Published
<1>9. TimesAreReported'
  <2>1. Published' = Published BY <1>1 DEF Published
  <2>2. \A e \in Events : ReportedBy(Published, events'[e], e)
    BY <1>2, <1>7, MixedIsReported DEF Merged, TimesAreReported
  <2>3. \A e \in Events : e \in stored' \/ events'[e] = EmptyRow
    BY <1>1, <1>3, <1>7 DEF Merged, TimesAreReported
  <2> QED BY <2>1, <2>2, <2>3 DEF TimesAreReported
<1> QED BY <1>5, <1>6, <1>8, <1>9

\* The third statement touches neither.
LEMMA PredictionsMerge ==
    ASSUME TypeOK, Merged, UpdateTu
    PROVE  MoveInRound' /\ StopInRound' /\ TempIsReported' /\ TimesAreReported'
<1>1. /\ pc = "tu" /\ pc' = "mark"
      /\ UNCHANGED <<object, read, staged, temp, stored>>
  BY DEF UpdateTu
<1>2. \A e \in Events :
        IF e \in staged /\ temp[e].tu # NoTime
        THEN events'[e] = [events[e] EXCEPT !.tu = temp[e].tu]
        ELSE events'[e] = events[e]
  BY DEF UpdateTu
<1>3. \A e \in Events : /\ events'[e].move = events[e].move
                        /\ events'[e].stop = events[e].stop
                        /\ e \notin staged => events'[e] = events[e]
  BY <1>2 DEF TypeOK, Rows
<1>4. \A r \in Records : EventOf[r] \in Events BY TimesCompare
<1>5. \A p \in Paths : read[p] \subseteq Records BY DEF TypeOK
<1>6. MoveInRound'
  BY <1>1, <1>3, <1>4, <1>5 DEF Merged, MoveInRound
<1>7. StopInRound'
  BY <1>1, <1>3, <1>4, <1>5 DEF Merged, StopInRound, MovedBefore
<1>8. /\ \A e \in Events : ReportedBy(Published, temp[e], e)
      /\ staged \subseteq stored
  BY <1>1 DEF Merged, TempIsReported
<1>9. TempIsReported'
  BY <1>1, <1>8 DEF TempIsReported, Published
<1>10. TimesAreReported'
  <2>1. Published' = Published BY <1>1 DEF Published
  <2>2. \A e \in Events : ReportedBy(Published, events'[e], e)
    BY <1>2, <1>8, MixedIsReported DEF Merged, TimesAreReported
  <2>3. \A e \in Events : e \in stored' \/ events'[e] = EmptyRow
    BY <1>1, <1>3, <1>8 DEF Merged, TimesAreReported
  <2> QED BY <2>1, <2>2, <2>3 DEF TimesAreReported
<1> QED BY <1>6, <1>7, <1>9, <1>10

\* Every step keeps the invariant.
LEMMA MergedStep ==
    TypeOK /\ Merged /\ [Next]_vars => Merged'
<1> SUFFICES ASSUME TypeOK, Merged, [Next]_vars PROVE Merged'
  OBVIOUS
<1>1. TypeOK' /\ NoLaterTimes BY TypeStep, NoLaterStep
<1>2. ASSUME seen' = seen PROVE MoveIsEarliest' /\ StopIsEarliestAfterMove'
  BY <1>1, <1>2, ProcessedStays DEF Merged
<1>3. ASSUME UNCHANGED <<object, stored, events>> PROVE TimesAreReported'
  BY <1>3 DEF Merged, TimesAreReported, Published
<1>4. ASSUME UNCHANGED <<object, stored, events>>, pc' = "idle"
      PROVE  MoveInRound' /\ StopInRound' /\ TempIsReported' /\ TimesAreReported'
  <2>1. MoveInRound' /\ StopInRound'
    BY <1>4 DEF MoveInRound, StopInRound
  <2> QED BY <1>3, <1>4, <2>1 DEF TempIsReported
<1>5. ASSUME NEW r \in Records, Ingest(r) PROVE Merged'
  <2>1. UNCHANGED <<pc, read, seen, staged, temp, stored, events>>
    BY <1>5 DEF Ingest, tables
  <2>2. MoveInRound' /\ StopInRound'
    BY <2>1 DEF Merged, MoveInRound, StopInRound, MovedBefore
  <2>3. Published \subseteq Published'
    BY <1>5 DEF TypeOK, Ingest, Published
  <2>4. TempIsReported'
    BY <2>1, <2>3, ReportedByMore DEF Merged, TempIsReported
  <2>5. TimesAreReported'
    BY <2>1, <2>3, ReportedByMore DEF Merged, TimesAreReported
  <2> QED BY <1>2, <2>1, <2>2, <2>4, <2>5 DEF Merged
<1>6. CASE Select
  <2>1. pc' = "load" /\ UNCHANGED <<object, seen, stored, events>>
    BY <1>6 DEF Select, tables
  <2>2. MoveInRound' /\ StopInRound' /\ TempIsReported'
    BY <2>1 DEF MoveInRound, StopInRound, TempIsReported
  <2> QED BY <1>2, <1>3, <2>1, <2>2 DEF Merged
<1>7. CASE Load
  <2>1. UNCHANGED <<object, seen, stored, events>> BY <1>7 DEF Load
  <2> QED BY <1>2, <1>3, <1>7, <2>1, LoadMerges DEF Merged
<1>8. CASE FlagEvents
  <2>1. UNCHANGED <<object, seen, stored, events>> BY <1>8 DEF FlagEvents
  <2> QED BY <1>2, <1>3, <1>8, <2>1, FlagsMerge DEF Merged
<1>9. CASE InsertMove
  <2>1. seen' = seen BY <1>9 DEF InsertMove
  <2> QED BY <1>2, <1>9, <2>1, InsertMerges DEF Merged
<1>10. CASE UpdateStop
  <2>1. seen' = seen BY <1>10 DEF UpdateStop
  <2> QED BY <1>2, <1>10, <2>1, StopsMerge DEF Merged
<1>11. CASE UpdateTu
  <2>1. seen' = seen BY <1>11 DEF UpdateTu
  <2> QED BY <1>2, <1>11, <2>1, PredictionsMerge DEF Merged
<1>12. CASE MarkProcessed
  <2>1. /\ pc = "mark" /\ pc' = "idle"
        /\ UNCHANGED <<object, stored, events>>
        /\ \A p \in Paths : seen'[p] \in {read[p], seen[p]}
    BY <1>12 DEF MarkProcessed, Mark, tables
  <2>2. MoveIsEarliest'
    <3>1. ASSUME NEW p \in Paths, NEW r \in seen'[p] \cap Moves
          PROVE  events[EventOf[r]].move <= TimeOf[r]
      BY <2>1, <3>1 DEF Merged, MoveInRound, MoveIsEarliest, Processed
    <3> QED BY <2>1, <3>1 DEF MoveIsEarliest, Processed
  <2>3. StopIsEarliestAfterMove'
    <3>1. ASSUME NEW p \in Paths, NEW r \in seen'[p] \cap Stops,
                 MovedBefore(r, seen'[p])
          PROVE  events[EventOf[r]].stop <= TimeOf[r]
      <4>1. CASE seen'[p] = read[p]
        BY <2>1, <3>1, <4>1 DEF Merged, StopInRound
      <4>2. CASE seen'[p] = seen[p]
        BY <3>1, <4>2 DEF Merged, StopIsEarliestAfterMove, MovedBefore
      <4> QED BY <2>1, <4>1, <4>2
    <3> QED BY <2>1, <3>1 DEF StopIsEarliestAfterMove, MovedBefore
  <2> QED BY <1>4, <2>1, <2>2, <2>3 DEF Merged
<1>13. CASE MarkFailed
  <2>1. pc' = "idle" /\ UNCHANGED <<object, seen, stored, events>>
    BY <1>13 DEF MarkFailed, Mark, tables
  <2> QED BY <1>2, <1>4, <2>1 DEF Merged
<1>14. CASE Crash
  <2>1. pc' = "idle" /\ UNCHANGED <<object, seen, stored, events>>
    BY <1>14 DEF Crash, tables
  <2> QED BY <1>2, <1>4, <2>1 DEF Merged
<1>15. CASE UNCHANGED vars
  <2>1. UNCHANGED <<object, pc, read, seen, staged, temp, stored, events>>
    BY <1>15 DEF vars
  <2>2. MoveInRound' /\ StopInRound' /\ TempIsReported'
    BY <2>1
    DEF Merged, MoveInRound, StopInRound, MovedBefore, TempIsReported, Published
  <2> QED BY <1>2, <1>3, <2>1, <2>2 DEF Merged
<1> QED
  BY <1>5, <1>6, <1>7, <1>8, <1>9, <1>10, <1>11, <1>12, <1>13, <1>14, <1>15
  DEF Next

\* The invariant holds always.
LEMMA AlwaysMerged == Spec => []Merged
<1>1. Init => Merged
  <2> SUFFICES ASSUME Init PROVE Merged
    OBVIOUS
  <2>1. pc = "idle" /\ \A p \in Paths : seen[p] = {}
    BY DEF Init, NoRecords
  <2>2. MoveIsEarliest /\ StopIsEarliestAfterMove
    BY <2>1 DEF MoveIsEarliest, StopIsEarliestAfterMove, Processed
  <2>3. TimesAreReported
    BY DEF Init, TimesAreReported, ReportedBy, EmptyRow
  <2> QED
    BY <2>1, <2>2, <2>3 DEF Merged, MoveInRound, StopInRound, TempIsReported
<1> QED BY <1>1, MergedStep, TypeCorrect, PTL DEF Spec

\* A processed move time is never lost, whatever the order of the rounds
\* and wherever rounds broke off (transform_vp_timestamps, the flags and the
\* statements of update_events_from_temp together).
THEOREM MovesAreNeverLost == Spec => []MoveIsEarliest
<1>1. Merged => MoveIsEarliest BY DEF Merged
<1> QED BY <1>1, AlwaysMerged, PTL

\* A processed stop time is never lost when the same object had the vehicle
\* on its way to the station before: the wrong column in do_update is
\* harmless then.
THEOREM StopsAfterMovesAreNeverLost == Spec => []StopIsEarliestAfterMove
<1>1. Merged => StopIsEarliestAfterMove BY DEF Merged
<1> QED BY <1>1, AlwaysMerged, PTL

\* Every time in vehicle_events was reported for its event, by a record of
\* its kind.
THEOREM TimesHaveReports == Spec => []TimesAreReported
<1>1. Merged => TimesAreReported BY DEF Merged
<1> QED BY <1>1, AlwaysMerged, PTL

(***************************************************************************)
(* Predictions are not replaced by older ones                              *)
(***************************************************************************)

\* The predictions of an event, and the events that are predicted in one
\* object only: those are the ones of which PredictionIsNotOutdated speaks.
UpdatesOf(e) == About(e, Updates)
OnlyIn(e, p) == \A r \in UpdatesOf(e) : PathOf[r] = p

\* A time is a prediction of an event that is published in an object and is
\* not older than those of a set.
Predicts(t, e, S, published) ==
    \A r \in S \cap UpdatesOf(e) :
        \E s \in published \cap UpdatesOf(e) : s >= r /\ t = TimeOf[s]

\* What a round has read and what was processed is still in the object.
PublishedInPlace ==
    \A p \in Paths : /\ \A r \in object[p] : PathOf[r] = p
                     /\ read[p] \subseteq object[p]
                     /\ seen[p] \subseteq object[p]

\* The temporary table holds the last prediction the round has read of an
\* event, which no processed one follows, until it is in vehicle_events.
\* An event with a prediction is never without its flag.
PredictionInRound ==
    \A e \in Events, p \in Paths : OnlyIn(e, p) =>
        /\ pc \in {"flag", "insert", "stop", "tu"} =>
            /\ Predicts(temp[e].tu, e, read[p], object[p])
            /\ temp[e].tu # NoTime => Predicts(temp[e].tu, e, seen[p], object[p])
            /\ read[p] \cap UpdatesOf(e) # {} => e \in staged /\ temp[e].tu # NoTime
        /\ pc = "mark" => Predicts(events[e].tu, e, read[p], object[p])

\* The prediction in vehicle_events is as new as every processed one.
PredictionStays ==
    \A e \in Events, p \in Paths : OnlyIn(e, p) =>
        Predicts(events[e].tu, e, seen[p], object[p])

PredictionInv == PublishedInPlace /\ PredictionInRound /\ PredictionStays

\* Last returns the time of the last record.
LEMMA LastIsLast ==
    ASSUME NEW S, S \subseteq Records, S # {}
    PROVE  \E s \in S : Last(S) = TimeOf[s] /\ \A r \in S : r <= s
<1>1. \E x \in S : \A y \in S : y <= x BY LastRecord
<1> DEFINE x == CHOOSE r \in S : \A s \in S : s <= r
<1>2. x \in S /\ \A y \in S : y <= x BY <1>1
<1>3. Last(S) = TimeOf[x] BY DEF Last
<1> QED BY <1>2, <1>3

\* A larger object and a smaller set make the claim weaker.
LEMMA PredictsMore ==
    ASSUME NEW t, NEW e, NEW S, NEW T, NEW published, NEW more,
           T \subseteq S, published \subseteq more, Predicts(t, e, S, published)
    PROVE  Predicts(t, e, T, more)
BY DEF Predicts

\* Loading takes the last prediction of an object.
LEMMA LoadPredicts ==
    ASSUME TypeOK, PredictionInv, Load
    PROVE  PublishedInPlace' /\ PredictionInRound'
<1> DEFINE S == UNION {object[q] : q \in batch}
<1>1. /\ pc' = "flag" /\ UNCHANGED <<object, seen>>
      /\ \A p \in Paths : read'[p] = IF p \in batch THEN object[p] ELSE {}
      /\ staged' = {EventOf[r] : r \in S}
      /\ \A e \in Events : temp'[e] = Reduce(About(e, S))
  BY DEF Load
<1>2. S \subseteq Records /\ batch \subseteq Paths BY DEF TypeOK
<1>3. PublishedInPlace'
  BY <1>1 DEF PredictionInv, PublishedInPlace
<1>4. ASSUME NEW e \in Events, NEW p \in Paths, OnlyIn(e, p)
      PROVE  /\ Predicts(temp'[e].tu, e, read'[p], object[p])
             /\ temp'[e].tu # NoTime => Predicts(temp'[e].tu, e, seen[p], object[p])
             /\ read'[p] \cap UpdatesOf(e) # {} => e \in staged' /\ temp'[e].tu # NoTime
  <2> DEFINE N == About(e, S) \cap Updates
  <2>1. temp'[e].tu = Last(N)
    <3>1. temp'[e] = Reduce(About(e, S)) BY <1>1
    <3>2. Reduce(About(e, S)).tu = Last(About(e, S) \cap Updates) BY DEF Reduce
    <3> QED BY <3>1, <3>2
  <2>2. N = S \cap UpdatesOf(e) /\ N \subseteq Records
    BY <1>2 DEF About, UpdatesOf, Updates
  <2>3. \A r \in N : r \in object[p] /\ p \in batch
    <3>1. ASSUME NEW q \in batch, NEW r \in object[q] \cap UpdatesOf(e) PROVE q = p
      <4>1. PathOf[r] = p BY <1>4, <3>1 DEF OnlyIn
      <4>2. PathOf[r] = q BY <1>2, <3>1 DEF PredictionInv, PublishedInPlace
      <4> QED BY <4>1, <4>2
    <3> QED BY <2>2, <3>1
  <2>4. CASE N = {}
    <3>1. temp'[e].tu = NoTime BY <2>1, <2>4 DEF Last
    <3>2. read'[p] \subseteq S BY <1>1
    <3>3. read'[p] \cap UpdatesOf(e) = {} BY <2>2, <2>4, <3>2
    <3> QED BY <3>1, <3>3 DEF Predicts
  <2>5. CASE N # {}
    <3>1. PICK s \in N : Last(N) = TimeOf[s] /\ \A r \in N : r <= s
      BY <2>2, <2>5, LastIsLast
    <3>2. s \in object[p] \cap UpdatesOf(e) /\ p \in batch /\ s \in Records
      BY <2>2, <2>3, <3>1
    <3>3. \A r \in object[p] \cap UpdatesOf(e) : r \in N
      BY <2>2, <3>2
    <3>4. \A r \in N : r \in Int
      <4>1. Records \subseteq Int BY EventsAssumption DEF Records
      <4> QED BY <2>2, <4>1
    <3>5. Predicts(temp'[e].tu, e, object[p], object[p])
      <4>1. ASSUME NEW r \in object[p] \cap UpdatesOf(e)
            PROVE  s >= r /\ temp'[e].tu = TimeOf[s]
        BY <2>1, <3>1, <3>3, <3>4, <4>1
      <4> QED BY <3>2, <4>1 DEF Predicts
    <3>6. read'[p] = object[p] /\ seen[p] \subseteq object[p]
      BY <1>1, <3>2 DEF PredictionInv, PublishedInPlace
    <3>7. Predicts(temp'[e].tu, e, seen[p], object[p])
      BY <3>5, <3>6, PredictsMore
    <3>8. temp'[e].tu # NoTime BY <2>1, <3>1, <3>2, ReadTimesAreKnown
    <3>9. e \in staged'
      <4>1. EventOf[s] = e BY <3>2 DEF UpdatesOf, About
      <4>2. s \in S BY <2>2, <3>1
      <4> QED BY <1>1, <4>1, <4>2
    <3> QED BY <3>5, <3>6, <3>7, <3>8, <3>9
  <2> QED BY <2>4, <2>5
<1>5. PredictionInRound'
  BY <1>1, <1>4 DEF PredictionInRound
<1> QED BY <1>3, <1>5

\* An event with a prediction keeps its row in the temporary table.
LEMMA FlagsPredict ==
    ASSUME TypeOK, PredictionInv, FlagEvents
    PROVE  PredictionInRound'
<1>1. /\ pc = "flag" /\ pc' \in {"mark", "insert"}
      /\ (pc' = "mark") => (staged' = {})
      /\ UNCHANGED <<object, read, temp, events, seen>>
      /\ \A e \in staged : temp[e].tu # NoTime => e \in staged'
  BY DEF FlagEvents, ToUpdate
<1>2. ASSUME NEW e \in Events, NEW p \in Paths, OnlyIn(e, p)
      PROVE  /\ Predicts(temp[e].tu, e, read[p], object[p])
             /\ temp[e].tu # NoTime => Predicts(temp[e].tu, e, seen[p], object[p])
             /\ read[p] \cap UpdatesOf(e) # {} => e \in staged' /\ temp[e].tu # NoTime
             /\ pc' = "mark" => Predicts(events[e].tu, e, read[p], object[p])
  <2>1. /\ Predicts(temp[e].tu, e, read[p], object[p])
        /\ temp[e].tu # NoTime => Predicts(temp[e].tu, e, seen[p], object[p])
        /\ read[p] \cap UpdatesOf(e) # {} => e \in staged /\ temp[e].tu # NoTime
    BY <1>1, <1>2 DEF PredictionInv, PredictionInRound
  <2>2. read[p] \cap UpdatesOf(e) # {} => e \in staged' BY <1>1, <2>1
  <2>3. pc' = "mark" => read[p] \cap UpdatesOf(e) = {} BY <1>1, <2>2
  <2>4. pc' = "mark" => Predicts(events[e].tu, e, read[p], object[p])
    BY <2>3 DEF Predicts
  <2> QED BY <2>1, <2>2, <2>4
<1> QED BY <1>1, <1>2 DEF PredictionInRound

\* The last statement brings the prediction of the round to the events.
LEMMA UpdatePredicts ==
    ASSUME TypeOK, PredictionInv, UpdateTu
    PROVE  PredictionInRound' /\ PredictionStays'
<1>1. /\ pc = "tu" /\ pc' = "mark"
      /\ UNCHANGED <<object, read, seen>>
      /\ \A e \in Events :
            IF e \in staged /\ temp[e].tu # NoTime
            THEN events'[e] = [events[e] EXCEPT !.tu = temp[e].tu]
            ELSE events'[e] = events[e]
  BY DEF UpdateTu
<1>2. ASSUME NEW e \in Events, NEW p \in Paths, OnlyIn(e, p)
      PROVE  /\ Predicts(events'[e].tu, e, read[p], object[p])
             /\ Predicts(events'[e].tu, e, seen[p], object[p])
  <2>1. /\ Predicts(temp[e].tu, e, read[p], object[p])
        /\ temp[e].tu # NoTime => Predicts(temp[e].tu, e, seen[p], object[p])
        /\ read[p] \cap UpdatesOf(e) # {} => e \in staged /\ temp[e].tu # NoTime
        /\ Predicts(events[e].tu, e, seen[p], object[p])
    BY <1>1, <1>2 DEF PredictionInv, PredictionInRound, PredictionStays
  <2>2. CASE e \in staged /\ temp[e].tu # NoTime
    <3>1. events[e] \in Rows BY DEF TypeOK
    <3>2. events'[e].tu = temp[e].tu BY <1>1, <2>2, <3>1 DEF Rows
    <3> QED BY <2>1, <2>2, <3>2
  <2>3. CASE ~(e \in staged /\ temp[e].tu # NoTime)
    <3>1. events'[e] = events[e] BY <1>1, <2>3
    <3>2. read[p] \cap UpdatesOf(e) = {} BY <2>1, <2>3
    <3>3. Predicts(events[e].tu, e, read[p], object[p]) BY <3>2 DEF Predicts
    <3> QED BY <2>1, <3>1, <3>3
  <2> QED BY <2>2, <2>3
<1>3. PredictionInRound' BY <1>1, <1>2 DEF PredictionInRound
<1>4. PredictionStays' BY <1>1, <1>2 DEF PredictionStays
<1> QED BY <1>3, <1>4

\* Every step keeps the invariant.
LEMMA PredictionStep ==
    TypeOK /\ PredictionInv /\ [Next]_vars => PredictionInv'
<1> SUFFICES ASSUME TypeOK, PredictionInv, [Next]_vars PROVE PredictionInv'
  OBVIOUS
<1>1. ASSUME UNCHANGED <<object, seen>>,
             \A p \in Paths : read'[p] \in {read[p], {}}
      PROVE  PublishedInPlace'
  BY <1>1 DEF PredictionInv, PublishedInPlace
<1>2. ASSUME UNCHANGED <<object, seen>>,
             \A e \in Events : events'[e].tu = events[e].tu
      PROVE  PredictionStays'
  BY <1>2 DEF PredictionInv, PredictionStays
<1>3. ASSUME NEW r \in Records, Ingest(r) PROVE PredictionInv'
  <2>1. UNCHANGED <<pc, read, seen, staged, temp, events>>
    BY <1>3 DEF Ingest, tables
  <2>2. \A p \in Paths : /\ object[p] \subseteq object'[p]
                         /\ \A s \in object'[p] \ object[p] : PathOf[s] = p
    BY <1>3, EventsAssumption DEF TypeOK, Ingest
  <2>3. PublishedInPlace'
    <3>1. ASSUME NEW p \in Paths
          PROVE  /\ \A s \in object'[p] : PathOf[s] = p
                 /\ read[p] \subseteq object'[p] /\ seen[p] \subseteq object'[p]
      BY <2>2 DEF PredictionInv, PublishedInPlace
    <3> QED BY <2>1, <3>1 DEF PublishedInPlace
  <2>4. ASSUME NEW t, NEW e, NEW p \in Paths, NEW S, Predicts(t, e, S, object[p])
        PROVE  Predicts(t, e, S, object'[p])
    BY <2>2, <2>4, PredictsMore
  <2>5. PredictionInRound'
    BY <2>1, <2>4 DEF PredictionInv, PredictionInRound
  <2>6. PredictionStays'
    BY <2>1, <2>4 DEF PredictionInv, PredictionStays
  <2> QED BY <2>3, <2>5, <2>6 DEF PredictionInv
<1>4. CASE Select
  <2>1. pc' = "load" /\ UNCHANGED <<object, seen, read, events>>
    BY <1>4 DEF Select, tables
  <2>2. PredictionInRound' BY <2>1 DEF PredictionInRound
  <2> QED BY <1>1, <1>2, <2>1, <2>2 DEF PredictionInv
<1>5. CASE Load
  <2>1. UNCHANGED <<object, seen, events>> BY <1>5 DEF Load
  <2> QED BY <1>2, <1>5, <2>1, LoadPredicts DEF PredictionInv
<1>6. CASE FlagEvents
  <2>1. UNCHANGED <<object, seen, read, events>> BY <1>6 DEF FlagEvents
  <2> QED BY <1>1, <1>2, <1>6, <2>1, FlagsPredict DEF PredictionInv
<1>7. ASSUME pc \in {"insert", "stop"}, pc' \in {"stop", "tu"},
             UNCHANGED <<object, seen, read, staged, temp>>,
             \A e \in Events : events'[e].tu = events[e].tu
      PROVE  PredictionInv'
  <2>1. PredictionInRound'
    BY <1>7 DEF PredictionInv, PredictionInRound
  <2> QED BY <1>1, <1>2, <1>7, <2>1 DEF PredictionInv
<1>8. CASE InsertMove
  <2>1. \A e \in Events : events'[e].tu = events[e].tu
    <3>1. \A e \in Events : events[e] \in Rows BY DEF TypeOK
    <3>2. \A e \in Events :
            events'[e] \in {[events[e] EXCEPT !.move = temp[e].move], events[e]}
      BY <1>8 DEF InsertMove
    <3> QED BY <3>1, <3>2 DEF Rows
  <2> QED BY <1>7, <1>8, <2>1 DEF InsertMove
<1>9. CASE UpdateStop
  <2>1. \A e \in Events : events'[e].tu = events[e].tu
    <3>1. \A e \in Events : events[e] \in Rows BY DEF TypeOK
    <3>2. \A e \in Events :
            events'[e] \in {[events[e] EXCEPT !.stop = temp[e].stop], events[e]}
      BY <1>9 DEF UpdateStop
    <3> QED BY <3>1, <3>2 DEF Rows
  <2> QED BY <1>7, <1>9, <2>1 DEF UpdateStop
<1>10. CASE UpdateTu
  <2>1. UNCHANGED <<object, seen, read>> BY <1>10 DEF UpdateTu
  <2> QED BY <1>1, <1>10, <2>1, UpdatePredicts DEF PredictionInv
<1>11. CASE MarkProcessed
  <2>1. /\ pc = "mark" /\ pc' = "idle" /\ UNCHANGED <<object, events>>
        /\ \A p \in Paths : read'[p] = {} /\ seen'[p] \in {read[p], seen[p]}
    BY <1>11 DEF MarkProcessed, Mark, tables, NoRecords
  <2>2. PublishedInPlace'
    BY <2>1 DEF PredictionInv, PublishedInPlace
  <2>3. PredictionStays'
    <3>1. ASSUME NEW e \in Events, NEW p \in Paths, OnlyIn(e, p)
          PROVE  /\ Predicts(events[e].tu, e, read[p], object[p])
                 /\ Predicts(events[e].tu, e, seen[p], object[p])
      BY <2>1, <3>1 DEF PredictionInv, PredictionInRound, PredictionStays
    <3> QED BY <2>1, <3>1 DEF PredictionStays
  <2>4. PredictionInRound' BY <2>1 DEF PredictionInRound
  <2> QED BY <2>2, <2>3, <2>4 DEF PredictionInv
<1>12. CASE MarkFailed \/ Crash
  <2>1. /\ pc' = "idle" /\ UNCHANGED <<object, seen, events>>
        /\ \A p \in Paths : read'[p] = {}
    BY <1>12 DEF MarkFailed, Crash, Mark, tables, NoRecords
  <2>2. PredictionInRound' BY <2>1 DEF PredictionInRound
  <2> QED BY <1>1, <1>2, <2>1, <2>2 DEF PredictionInv
<1>13. CASE UNCHANGED vars
  <2>1. UNCHANGED <<object, pc, read, seen, staged, temp, events>>
    BY <1>13 DEF vars
  <2>2. PredictionInRound'
    BY <2>1 DEF PredictionInv, PredictionInRound
  <2> QED BY <1>1, <1>2, <2>1, <2>2 DEF PredictionInv
<1> QED
  BY <1>3, <1>4, <1>5, <1>6, <1>8, <1>9, <1>10, <1>11, <1>12, <1>13 DEF Next

\* The prediction of an event is never older than the last processed one
\* when its predictions are in one object: records that come late, rounds
\* that are repeated and rounds that break off between the statements bring
\* no older one back (reduce_trip_updates, the flags and the last statement
\* of update_events_from_temp together).
THEOREM PredictionsStayCurrent == Spec => []PredictionIsNotOutdated
<1>1. Init => PredictionInv
  BY DEF Init, NoRecords, PredictionInv, PublishedInPlace, PredictionInRound,
         PredictionStays, Predicts
<1>2. PredictionStays => PredictionIsNotOutdated
  BY DEF PredictionStays, Predicts, OnlyIn, UpdatesOf, PredictionIsNotOutdated
<1>3. PredictionInv => PredictionIsNotOutdated BY <1>2 DEF PredictionInv
<1> QED BY <1>1, <1>3, PredictionStep, TypeCorrect, PTL DEF Spec
=============================================================================
