------------------------------ MODULE ExportsProofs ------------------------------
(***************************************************************************)
(* Proofs about Exports, for all tables, records, objects, alerts, kinds,  *)
(* dates, bounds, failures and crashes: the four components keep the types *)
(* of their states, the archive of schedules has the one in force on each  *)
(* day, the Glides files have the records that the reader passed, the      *)
(* export of alerts has those of every processed object, and flat files,   *)
(* parquet and datasource follow the events, each but for the named        *)
(* losses.                                                                 *)
(***************************************************************************)
EXTENDS Exports, FiniteSetTheorems, SequenceTheorems, WellFoundedInduction, TLAPS

LEMMA HasConverters == Kinds \in Nat \ {0}
BY ExportsAssumption

LEMMA NoSuchCopy == NoFile \notin SUBSET Alerts
BY ExportsAssumption

\* A set of numbers that is not empty has a least element.
LEMMA LeastNumber ==
    ASSUME NEW S, S \subseteq Nat, S # {}
    PROVE  \E x \in S : \A y \in S : x <= y
<1> DEFINE R == OpToRel(<, Nat)
<1>1. IsWellFoundedOn(R, Nat)
  BY NatLessThanWellFounded
<1>2. PICK x \in S : \A y \in S : <<y, x>> \notin R
  <2> HIDE DEF R
  <2> QED BY <1>1, WFMin
<1>3. \A a, b \in Nat : a < b => <<a, b>> \in R
  BY DEF OpToRel
<1>4. ASSUME NEW y \in S PROVE x <= y
  <2> HIDE DEF R
  <2>1. x \in Nat /\ y \in Nat BY <1>4
  <2>2. ~(y < x) BY <1>2, <1>3, <2>1
  <2> QED BY <2>1, <2>2
<1> QED BY <1>4

\* A set of numbers that is not empty and has a bound has a greatest element.
LEMMA GreatestNumber ==
    ASSUME NEW S, NEW b \in Nat, S \subseteq 0..b, S # {}
    PROVE  \E x \in S : \A y \in S : x >= y
<1> DEFINE R == {n \in Nat : b - n \in S}
<1>1. R # {}
  <2>1. PICK x \in S : TRUE OBVIOUS
  <2>2. b - x \in Nat /\ b - (b - x) = x BY <2>1
  <2> QED BY <2>1, <2>2
<1>2. PICK n \in R : \A m \in R : n <= m
  <2> HIDE DEF R
  <2>1. R \subseteq Nat BY DEF R
  <2> QED BY <1>1, <2>1, LeastNumber
<1>3. ASSUME NEW y \in S PROVE b - n >= y
  <2>1. b - y \in Nat /\ b - (b - y) = y BY <1>3
  <2>2. b - y \in R BY <2>1
  <2>3. n <= b - y
    <3> HIDE DEF R
    <3> QED BY <1>2, <2>2
  <2> QED BY <1>2, <1>3, <2>3
<1> QED BY <1>2, <1>3

(***************************************************************************)
(* CompressGtfs: facts about years and files                               *)
(***************************************************************************)

\* A file of the archive: of no row is the end earlier than the day before
\* its start.
ArchiveFiles == {file \in Archive!Files : \A r \in file : r.to >= r.from - 1}

Folder == [Archive!TableSet -> {Missing} \cup ArchiveFiles]

ArchiveShape ==
    /\ feed \in Seq([day : 0..LastDay, records : SUBSET Records])
    /\ compressStep \in {"idle", "compress", "upload"}
    /\ todo \in Seq(DOMAIN feed)
    /\ compressed \subseteq DOMAIN feed /\ archived \subseteq DOMAIN feed
    /\ table \in DOMAIN Tables
    /\ folders \subseteq Archive!Years /\ spoiled \subseteq Archive!Years
    /\ sending \subseteq Archive!Years \X Archive!TableSet
    /\ disk \in [Archive!Years -> Folder] /\ bucket \in [Archive!Years -> Folder]

\* Each day is in the year that begins before it.
LEMMA YearOfDay ==
    ASSUME NEW day \in Nat
    PROVE  /\ Archive!Year(day) \in Nat
           /\ Archive!FirstDay(Archive!Year(day)) \in Nat
           /\ Archive!FirstDay(Archive!Year(day)) <= day
           /\ day < Archive!FirstDay(Archive!Year(day)) + DaysPerYear
BY ExportsAssumption DEF Archive!Year, Archive!FirstDay

LEMMA LaterYears ==
    ASSUME NEW x \in Nat, NEW y \in Nat, x < y
    PROVE  /\ Archive!FirstDay(x) \in Nat /\ Archive!FirstDay(y) \in Nat
           /\ Archive!FirstDay(x) + DaysPerYear <= Archive!FirstDay(y)
BY ExportsAssumption DEF Archive!FirstDay

LEMMA LaterDays ==
    ASSUME NEW day \in Nat, NEW later \in Nat, day <= later
    PROVE  Archive!Year(day) <= Archive!Year(later)
<1> DEFINE x == Archive!Year(day)
           y == Archive!Year(later)
<1>1. /\ x \in Nat /\ y \in Nat /\ Archive!FirstDay(x) \in Nat
      /\ Archive!FirstDay(y) \in Nat
      /\ Archive!FirstDay(x) <= day /\ later < Archive!FirstDay(y) + DaysPerYear
  BY YearOfDay
<1> HIDE DEF x, y
<1>2. ~(y < x) BY <1>1, LaterYears, ExportsAssumption
<1> QED BY <1>1, <1>2 DEF x, y

LEMMA FeedFacts ==
    ASSUME ArchiveShape
    PROVE  /\ Len(feed) \in Nat /\ DOMAIN feed = 1 .. Len(feed)
           /\ \A v \in DOMAIN feed : /\ feed[v].day \in 0..LastDay
                                     /\ feed[v].records \subseteq Records
<1> DEFINE R == [day : 0..LastDay, records : SUBSET Records]
<1>1. feed \in Seq(R) BY DEF ArchiveShape
<1>2. /\ Len(feed) \in Nat /\ DOMAIN feed = 1 .. Len(feed)
      /\ \A v \in DOMAIN feed : feed[v] \in R
  <2> HIDE DEF R
  <2> QED BY <1>1
<1> QED BY <1>2

\* The days of a schedule, and their years.
LEMMA VersionFacts ==
    ASSUME ArchiveShape, NEW v \in DOMAIN feed
    PROVE  /\ feed[v].day \in 0..LastDay
           /\ Archive!ActiveFrom(v) = feed[v].day + 1
           /\ Archive!ActiveTo(v) = feed[v].day + DaysPerYear
           /\ Archive!Partition(v) \in Archive!Years
           /\ Archive!Year(feed[v].day) \in Archive!Years
           /\ Archive!FirstDay(Archive!Partition(v)) \in Nat
           /\ Archive!FirstDay(Archive!Partition(v)) <= feed[v].day + 1
           /\ Archive!Partition(v) > 0 =>
                 /\ Archive!FirstDay(Archive!Partition(v)) >= DaysPerYear
                 /\ Archive!Partition(v) - 1 \in Archive!Years
<1>1. feed[v].day \in 0..LastDay /\ feed[v].day \in Nat /\ feed[v].day + 1 \in Nat
  BY FeedFacts, ExportsAssumption
<1>2. /\ Archive!ActiveFrom(v) = feed[v].day + 1
      /\ Archive!ActiveTo(v) = feed[v].day + DaysPerYear
  BY DEF Archive!ActiveFrom, Archive!ActiveTo, Archive!Validity
<1> DEFINE final == LastDay + DaysPerYear
<1>3. final \in Nat /\ feed[v].day <= final /\ feed[v].day + 1 <= final
  BY <1>1, ExportsAssumption
<1>4. Archive!Years = 0 .. Archive!Year(final)
  BY DEF Archive!Years, Archive!Validity
<1> HIDE DEF final
<1>5. /\ Archive!Year(feed[v].day) \in Nat /\ Archive!Year(final) \in Nat
      /\ Archive!Year(feed[v].day) <= Archive!Year(final)
  BY <1>1, <1>3, YearOfDay, LaterDays
<1>6. /\ Archive!Partition(v) \in Nat
      /\ Archive!Partition(v) <= Archive!Year(final)
      /\ Archive!FirstDay(Archive!Partition(v)) \in Nat
      /\ Archive!FirstDay(Archive!Partition(v)) <= feed[v].day + 1
  BY <1>1, <1>2, <1>3, YearOfDay, LaterDays DEF Archive!Partition
<1>7. ASSUME Archive!Partition(v) > 0
      PROVE  /\ Archive!FirstDay(Archive!Partition(v)) >= DaysPerYear
             /\ Archive!Partition(v) - 1 \in 0 .. Archive!Year(final)
  <2>1. /\ Archive!FirstDay(0) + DaysPerYear <= Archive!FirstDay(Archive!Partition(v))
        /\ Archive!FirstDay(0) \in Nat
    BY <1>6, <1>7, LaterYears
  <2> QED BY <1>5, <1>6, <1>7, <2>1, ExportsAssumption
<1> QED BY <1>1, <1>2, <1>4, <1>5, <1>6, <1>7

LEMMA ContentFacts ==
    ASSUME ArchiveShape, NEW v \in DOMAIN feed, NEW t
    PROVE  Archive!Content(v, t) \subseteq Records \cup DOMAIN feed
BY FeedFacts DEF Archive!Content

LEMMA FileRows ==
    ASSUME NEW file
    PROVE  file \in ArchiveFiles <=>
              \A r \in file : /\ r \in [record : Records \cup DOMAIN feed,
                                        from : 1..(LastDay + 1),
                                        to : 0..(LastDay + DaysPerYear)]
                              /\ r.to >= r.from - 1
BY DEF ArchiveFiles, Archive!Files, Archive!Validity

\* The operators on files keep their types.
LEMMA NewRows ==
    ASSUME ArchiveShape, NEW v \in DOMAIN feed, NEW t, NEW file, NEW day
    PROVE  Archive!New(file, v, t, day) \in ArchiveFiles
<1> SUFFICES ASSUME NEW r \in Archive!Content(v, t),
                    r \in Records \cup DOMAIN feed
             PROVE  LET q == Archive!Row(r, Archive!ActiveFrom(v), Archive!ActiveTo(v))
                    IN /\ q \in [record : Records \cup DOMAIN feed,
                                 from : 1..(LastDay + 1),
                                 to : 0..(LastDay + DaysPerYear)]
                       /\ q.to >= q.from - 1
  BY ContentFacts, FileRows DEF Archive!New
<1>1. /\ feed[v].day \in 0..LastDay /\ LastDay \in Nat /\ DaysPerYear \in Nat \ {0}
      /\ Archive!ActiveFrom(v) = feed[v].day + 1
      /\ Archive!ActiveTo(v) = feed[v].day + DaysPerYear
  BY VersionFacts, ExportsAssumption
<1> QED BY <1>1 DEF Archive!Row

LEMMA UntilRows ==
    ASSUME NEW file \in ArchiveFiles, NEW rows \in SUBSET file, NEW day \in Nat,
           day <= LastDay + DaysPerYear, \A r \in rows : r.from <= day + 1
    PROVE  Archive!Until(rows, day) \in ArchiveFiles
<1> SUFFICES ASSUME NEW r \in rows
             PROVE  LET q == [r EXCEPT !.to = day]
                    IN /\ q \in [record : Records \cup DOMAIN feed,
                                 from : 1..(LastDay + 1),
                                 to : 0..(LastDay + DaysPerYear)]
                       /\ q.to >= q.from - 1
  BY FileRows DEF Archive!Until
<1>1. r \in [record : Records \cup DOMAIN feed, from : 1..(LastDay + 1),
             to : 0..(LastDay + DaysPerYear)]
  BY FileRows
<1>2. day \in 0..(LastDay + DaysPerYear) /\ LastDay \in Nat BY ExportsAssumption
<1> QED BY <1>1, <1>2

LEMMA FileUnion ==
    ASSUME NEW file \in ArchiveFiles, NEW rows \in ArchiveFiles
    PROVE  file \cup rows \in ArchiveFiles
BY FileRows

LEMMA FilePart ==
    ASSUME NEW file \in ArchiveFiles, NEW rows \in SUBSET file
    PROVE  rows \in ArchiveFiles
BY FileRows

LEMMA MergedFile ==
    ASSUME ArchiveShape, NEW v \in DOMAIN feed, NEW t, NEW file \in ArchiveFiles
    PROVE  Archive!Merged(file, v, t) \in ArchiveFiles
<1> DEFINE day == Archive!ActiveFrom(v)
           same == Archive!Same(file, v, t, day)
           old == Archive!Old(file, v, t, day)
<1>1. /\ feed[v].day \in 0..LastDay /\ LastDay \in Nat /\ DaysPerYear \in Nat \ {0}
      /\ day = feed[v].day + 1 /\ Archive!ActiveTo(v) = feed[v].day + DaysPerYear
  BY VersionFacts, ExportsAssumption
<1>2. /\ same \in SUBSET file /\ old \in SUBSET file
      /\ \A r \in same \cup old : r.from <= day
  BY DEF Archive!Same, Archive!Old, Archive!RowsAt
<1>3. \A r \in file : r.from \in Nat BY FileRows
<1>4. Archive!Until(same, Archive!ActiveTo(v)) \in ArchiveFiles
  <2>1. \A r \in same : r.from <= Archive!ActiveTo(v) + 1
    <3> HIDE DEF same, old
    <3> QED BY <1>1, <1>2, <1>3 
  <2>2. Archive!ActiveTo(v) \in Nat /\ Archive!ActiveTo(v) <= LastDay + DaysPerYear
    BY <1>1
  <2> HIDE DEF same
  <2> QED BY <1>2, <2>1, <2>2, UntilRows
<1>5. Archive!Until(old, feed[v].day) \in ArchiveFiles
  <2>1. \A r \in old : r.from <= feed[v].day + 1
    BY <1>1, <1>2
  <2>2. feed[v].day \in Nat /\ feed[v].day <= LastDay + DaysPerYear BY <1>1
  <2> HIDE DEF old
  <2> QED BY <1>2, <2>1, <2>2, UntilRows
<1>6. Archive!New(file, v, t, day) \in ArchiveFiles BY NewRows
<1>7. file \ Archive!RowsAt(file, day) \in ArchiveFiles BY FilePart
<1>8. Archive!Merged(file, v, t) =
         ((file \ Archive!RowsAt(file, day)) \cup Archive!Until(same,
             Archive!ActiveTo(v)))
            \cup (Archive!Until(old, feed[v].day) \cup Archive!New(file, v, t, day))
  BY DEF Archive!Merged
<1>9. /\ (file \ Archive!RowsAt(file, day))
            \cup Archive!Until(same, Archive!ActiveTo(v)) \in ArchiveFiles
      /\ Archive!Until(old, feed[v].day) \cup Archive!New(file, v, t, day)
            \in ArchiveFiles
  <2> HIDE DEF day, same, old
  <2> QED BY <1>4, <1>5, <1>6, <1>7, FileUnion
<1> HIDE DEF day, same, old
<1> QED BY <1>8, <1>9, FileUnion

LEMMA ClosedFile ==
    ASSUME ArchiveShape, NEW v \in DOMAIN feed, NEW file \in ArchiveFiles,
           Archive!Partition(v) > 0
    PROVE  Archive!Closed(file, v) \in ArchiveFiles
<1> DEFINE day == Archive!FirstDay(Archive!Partition(v)) - 1
           rows == Archive!RowsAt(file, day)
<1>1. /\ day \in Nat /\ day <= LastDay + DaysPerYear
  BY VersionFacts, ExportsAssumption
<1>2. rows \in SUBSET file /\ \A r \in rows : r.from <= day + 1
  <2>1. \A r \in file : r.from \in Nat BY FileRows
  <2> QED BY <1>1, <2>1 DEF Archive!RowsAt
<1>3. Archive!Until(rows, day) \in ArchiveFiles
  <2> HIDE DEF day, rows
  <2> QED BY <1>1, <1>2, UntilRows
<1>4. file \ rows \in ArchiveFiles BY FilePart
<1>5. Archive!Closed(file, v) = (file \ rows) \cup Archive!Until(rows, day)
  BY DEF Archive!Closed
<1> HIDE DEF day, rows
<1> QED BY <1>3, <1>4, <1>5, FileUnion

LEMMA ContinuedFile ==
    ASSUME ArchiveShape, NEW v \in DOMAIN feed, NEW t, NEW file \in ArchiveFiles,
           Archive!Partition(v) > 0
    PROVE  Archive!Continued(file, v, t) \in ArchiveFiles
<1> DEFINE first == Archive!FirstDay(Archive!Partition(v))
           new == Archive!New(file, v, t, first - 1)
<1>1. /\ feed[v].day \in 0..LastDay /\ LastDay \in Nat /\ DaysPerYear \in Nat \ {0}
      /\ Archive!ActiveTo(v) = feed[v].day + DaysPerYear
      /\ first \in 1..(LastDay + 1)
  BY VersionFacts, ExportsAssumption
<1>2. new \in ArchiveFiles BY NewRows
<1> SUFFICES ASSUME NEW q \in Archive!Continued(file, v, t)
             PROVE  /\ q \in [record : Records \cup DOMAIN feed,
                              from : 1..(LastDay + 1),
                              to : 0..(LastDay + DaysPerYear)]
                    /\ q.to >= q.from - 1
  BY FileRows
<1>3. CASE q \in new BY <1>2, <1>3, FileRows
<1>4. CASE q \notin new
  <2>1. PICK r \in file, day \in {Archive!ActiveTo(v), feed[v].day} :
           q = [[r EXCEPT !.to = day] EXCEPT !.from = first] /\ q.to > q.from
    BY <1>4 DEF Archive!Continued, Archive!From, Archive!Until, Archive!Same,
                Archive!Old, Archive!RowsAt
  <2>2. r \in [record : Records \cup DOMAIN feed, from : 1..(LastDay + 1),
               to : 0..(LastDay + DaysPerYear)]
    BY FileRows
  <2>3. day \in 0..(LastDay + DaysPerYear) BY <1>1
  <2> HIDE DEF first
  <2>4. q \in [record : Records \cup DOMAIN feed, from : 1..(LastDay + 1),
               to : 0..(LastDay + DaysPerYear)]
    BY <1>1, <2>1, <2>2, <2>3
  <2>5. q.to > q.from BY <2>1
  <2>6. q.to \in Nat /\ q.from \in Nat BY <1>1, <2>4
  <2>7. q.to >= q.from - 1 BY <2>5, <2>6
  <2> QED BY <2>4, <2>7
<1> QED BY <1>3, <1>4

LEMMA WriteFolder ==
    ASSUME NEW year \in Archive!Years, NEW t \in Archive!TableSet,
           NEW file \in {Missing} \cup ArchiveFiles,
           NEW folder \in [Archive!Years -> Folder]
    PROVE  Archive!Write(year, t, file, folder) \in [Archive!Years -> Folder]
BY DEF Archive!Write, Folder

LEMMA WrittenFile ==
    ASSUME NEW year \in Archive!Years, NEW t \in Archive!TableSet, NEW file,
           NEW folder \in [Archive!Years -> Folder]
    PROVE  \A y \in Archive!Years, s \in Archive!TableSet :
              Archive!Write(year, t, file, folder)[y][s]
                 = IF y = year /\ s = t THEN file ELSE folder[y][s]
BY DEF Archive!Write, Folder

(***************************************************************************)
(* Sets of schedules of different days have their order                    *)
(***************************************************************************)
InOrder(s) == \A i, j \in DOMAIN s : i < j => feed[s[i]].day < feed[s[j]].day

LEMMA OneOrder ==
    ASSUME ArchiveShape, NEW n \in Nat, NEW V \in SUBSET Archive!Listed,
           IsFiniteSet(V), Cardinality(V) = n,
           \A m \in Nat : \A W \in SUBSET Archive!Listed :
               m < n /\ IsFiniteSet(W) /\ Cardinality(W) = m =>
                  \E s \in [1..m -> W] : InOrder(s)
    PROVE  \E s \in [1..n -> V] : InOrder(s)
<1>1. CASE n = 0
  <2>1. V = {} BY <1>1, FS_EmptySet
  <2> DEFINE s == [i \in 1..n |-> i]
  <2>2. s \in [1..n -> V] /\ DOMAIN s = {} BY <1>1, <2>1
  <2>3. InOrder(s)
    <3> HIDE DEF s
    <3> QED BY <2>2 DEF InOrder
  <2> QED BY <2>2, <2>3
<1>2. CASE n > 0
  <2> DEFINE days == {feed[v].day : v \in V}
  <2>1. V # {} BY <1>2, FS_EmptySet
  <2>2. days \subseteq 0..LastDay /\ days # {}
    BY <2>1, FeedFacts DEF Archive!Listed
  <2>3. PICK d \in days : \A e \in days : d >= e
    <3> HIDE DEF days
    <3> QED BY <2>2, ExportsAssumption, GreatestNumber
  <2>4. PICK v \in V : feed[v].day = d OBVIOUS
  <2>5. \A w \in V \ {v} : feed[w].day < feed[v].day
    <3> SUFFICES ASSUME NEW w \in V, w # v PROVE feed[w].day < feed[v].day
      OBVIOUS
    <3>1. /\ feed[w].day \in Nat /\ feed[v].day \in Nat
          /\ w \in Nat /\ v \in Nat
      BY FeedFacts, ExportsAssumption DEF Archive!Listed
    <3>2. feed[w].day <= feed[v].day BY <2>3, <2>4
    <3>3. feed[w].day # feed[v].day
      BY <3>1 DEF Archive!Listed
    <3> QED BY <3>1, <3>2, <3>3
  <2> DEFINE W == V \ {v}
  <2>6. IsFiniteSet(W) /\ Cardinality(W) = n - 1
    BY FS_RemoveElement
  <2>7. W \in SUBSET Archive!Listed /\ n - 1 \in Nat /\ n - 1 < n BY <1>2
  <2>8. PICK q \in [1..(n - 1) -> W] : InOrder(q)
    <3> HIDE DEF W
    <3> QED BY <2>6, <2>7
  <2> DEFINE s == [i \in 1..n |-> IF i = n THEN v ELSE q[i]]
  <2>9. /\ s \in [1..n -> V] /\ s[n] = v
        /\ \A i \in 1..n : i # n => i \in 1..(n - 1) /\ s[i] = q[i] /\ s[i] \in W
    BY <1>2, <2>8
  <2>10. InOrder(s)
    <3> HIDE DEF s, W
    <3> SUFFICES ASSUME NEW i \in 1..n, NEW j \in 1..n, i < j
                 PROVE  feed[s[i]].day < feed[s[j]].day
      BY <2>9 DEF InOrder
    <3>1. i # n BY <1>2
    <3>2. CASE j = n
      <4>1. s[i] \in V \ {v} BY <2>9, <3>1 DEF W
      <4> QED BY <2>5, <2>9, <3>2, <4>1
    <3>3. CASE j # n
      <4>1. /\ i \in DOMAIN q /\ j \in DOMAIN q /\ s[i] = q[i] /\ s[j] = q[j]
        BY <2>8, <2>9, <3>1, <3>3
      <4> QED BY <2>8, <4>1 DEF InOrder
    <3> QED BY <3>2, <3>3
  <2> HIDE DEF s
  <2> QED BY <2>9, <2>10
<1> QED BY <1>1, <1>2

LEMMA AllOrders ==
    ASSUME ArchiveShape
    PROVE  \A m \in Nat : \A W \in SUBSET Archive!Listed :
              IsFiniteSet(W) /\ Cardinality(W) = m
                  => \E s \in [1..m -> W] : InOrder(s)
<1> DEFINE Bad == {m \in Nat : \E W \in SUBSET Archive!Listed :
                     /\ IsFiniteSet(W) /\ Cardinality(W) = m
                     /\ ~ \E s \in [1..m -> W] : InOrder(s)}
<1>1. SUFFICES ASSUME Bad # {} PROVE FALSE
  OBVIOUS
<1>2. PICK n \in Bad : \A m \in Bad : n <= m
  <2>1. Bad \subseteq Nat OBVIOUS
  <2> HIDE DEF Bad
  <2> QED BY <1>1, <2>1, LeastNumber
<1>3. \A m \in Nat : \A W \in SUBSET Archive!Listed :
         m < n /\ IsFiniteSet(W) /\ Cardinality(W) = m =>
            \E s \in [1..m -> W] : InOrder(s)
  <2> SUFFICES ASSUME NEW m \in Nat, m < n PROVE m \notin Bad
    OBVIOUS
  <2>1. n \in Nat OBVIOUS
  <2> HIDE DEF Bad
  <2> QED BY <1>2, <2>1
<1>4. PICK V \in SUBSET Archive!Listed :
         /\ IsFiniteSet(V) /\ Cardinality(V) = n
         /\ ~ \E s \in [1..n -> V] : InOrder(s)
  OBVIOUS
<1>5. n \in Nat OBVIOUS
<1> HIDE DEF Bad
<1> QED BY <1>3, <1>4, <1>5, OneOrder

LEMMA OrderedVersions ==
    ASSUME ArchiveShape, NEW V \in SUBSET Archive!Listed
    PROVE  Archive!Ordered(V) \in Seq(DOMAIN feed)
<1>1. IsFiniteSet(V) /\ Cardinality(V) \in Nat
  <2>1. IsFiniteSet(1 .. Len(feed)) BY FeedFacts, FS_Interval
  <2>2. V \subseteq 1 .. Len(feed) BY FeedFacts DEF Archive!Listed
  <2> QED BY <2>1, <2>2, FS_Subset, FS_CardinalityType
<1> DEFINE n == Cardinality(V)
<1>2. PICK s \in [1..n -> V] : InOrder(s)
  BY <1>1, AllOrders
<1>3. Archive!Ordered(V) \in [1..n -> V]
  <2>1. Archive!Ordered(V) = CHOOSE q \in [1..n -> V] : InOrder(q)
    <3>1. Archive!Cardinality(V) = n
      BY Zenon DEF Archive!Cardinality, Cardinality
    <3> HIDE DEF n
    <3> QED BY <3>1 DEF Archive!Ordered, InOrder
  <2> HIDE DEF n
  <2> QED BY <1>2, <2>1
<1>4. V \subseteq DOMAIN feed BY DEF Archive!Listed
<1> HIDE DEF n
<1>5. n \in Nat BY <1>1 DEF n
<1>6. Archive!Ordered(V) \in [1..n -> DOMAIN feed]
  BY <1>3, <1>4
<1> QED BY <1>5, <1>6, SeqDef

(***************************************************************************)
(* CompressGtfs: every step keeps the types                                *)
(***************************************************************************)
LEMMA ArchiveInit ==
    ASSUME Archive!Init
    PROVE  ArchiveShape
<1>1. Archive!NoFiles \in [Archive!Years -> Folder]
  BY DEF Archive!NoFiles, Folder
<1>2. 1 \in DOMAIN Tables
  BY ExportsAssumption DEF Archive!TableSet
<1> QED BY <1>1, <1>2 DEF ArchiveShape, Archive!Init

\* What depends on the feed only.
LEMMA SameFolders ==
    ASSUME UNCHANGED feed
    PROVE  Folder' = Folder
BY DEF Folder, ArchiveFiles, Archive!Files, Archive!Validity

LEMMA ArchivePublish ==
    ASSUME ArchiveShape, NEW day \in 0..LastDay, NEW rs \in SUBSET Records,
           Archive!Publish(day, rs)
    PROVE  ArchiveShape'
<1> DEFINE R == [day : 0..LastDay, records : SUBSET Records]
           e == [day |-> day, records |-> rs]
<1>1. feed' = Append(feed, e) /\ feed \in Seq(R) /\ e \in R
  BY DEF Archive!Publish, ArchiveShape
<1>2. feed' \in Seq(R) /\ DOMAIN feed \subseteq DOMAIN feed'
  <2> HIDE DEF R, e
  <2> QED BY <1>1
<1>3. ArchiveFiles \subseteq ArchiveFiles'
  BY <1>2 DEF ArchiveFiles, Archive!Files, Archive!Validity
<1>4. Folder \subseteq Folder'
  BY <1>3 DEF Folder
<1>5. /\ disk' \in [Archive!Years -> Folder']
      /\ bucket' \in [Archive!Years -> Folder']
  BY <1>4 DEF Archive!Publish, ArchiveShape
<1>6. todo' \in Seq(DOMAIN feed')
  <2>1. todo \in Seq(DOMAIN feed) /\ todo' = todo
    BY DEF Archive!Publish, ArchiveShape
  <2>2. /\ Len(todo) \in Nat /\ todo = [i \in 1..Len(todo) |-> todo[i]]
        /\ \A i \in 1..Len(todo) : todo[i] \in DOMAIN feed
    BY <2>1
  <2>3. todo \in [1..Len(todo) -> DOMAIN feed']
    BY <1>2, <2>2
  <2> QED BY <2>1, <2>2, <2>3, SeqDef
<1> HIDE DEF R, e
<1> QED BY <1>2, <1>5, <1>6 DEF Archive!Publish, ArchiveShape, R

LEMMA ArchiveRestart ==
    ASSUME ArchiveShape, Archive!Restart, spoiled' \subseteq Archive!Years
    PROVE  ArchiveShape'
<1>1. Archive!NoFiles \in [Archive!Years -> Folder]
  BY DEF Archive!NoFiles, Folder
<1>2. 1 \in DOMAIN Tables
  BY ExportsAssumption DEF Archive!TableSet
<1>3. Folder' = Folder BY SameFolders DEF Archive!Restart
<1> QED BY <1>1, <1>2, <1>3 DEF ArchiveShape, Archive!Restart

LEMMA YearsOfFeed ==
    ASSUME ArchiveShape
    PROVE  Archive!FeedYears \subseteq Archive!Years
<1>1. Archive!Listed \subseteq DOMAIN feed BY DEF Archive!Listed
<1> QED BY <1>1, VersionFacts DEF Archive!FeedYears

LEMMA ArchiveSelect ==
    ASSUME ArchiveShape, Archive!Select
    PROVE  ArchiveShape'
<1>1. PICK unlisted \in SUBSET Archive!FeedYears, unseen \in SUBSET Archive!TableSet :
         LET found == {y \in Archive!FeedYears :
                          \/ Archive!OnDisk(y)
                          \/ Archive!InBucket(y) /\ y \notin unlisted}
             latest == CHOOSE y \in found : \A z \in found : y >= z
             sync == found # {} /\ ~Archive!OnDisk(latest)
             synced == IF ~sync THEN disk
                       ELSE [disk EXCEPT ![latest] = [t \in Archive!TableSet |->
                               IF t \in unseen THEN Missing ELSE bucket[latest][t]]]
             seen == IF found = {} THEN {}
                     ELSE {r.record : r \in synced[latest]["feed_info"]}
             new == {v \in Archive!Listed :
                        found = {} \/ Archive!Year(feed[v].day) >= latest}
         IN /\ unseen # {} => sync
            /\ IF found # {} /\ synced[latest]["feed_info"] = Missing
               THEN Archive!Restart /\ UNCHANGED spoiled
               ELSE /\ todo' = Archive!Ordered(new \ seen)
                    /\ folders' = folders \cup
                         {y \in Archive!FeedYears : found = {} \/ y >= latest}
                    /\ disk' = synced
                    /\ spoiled' = IF unseen = {} THEN spoiled
                           ELSE spoiled \cup {latest}
                    /\ compressStep' = "compress"
                    /\ UNCHANGED <<feed, table, bucket, sending, compressed,
                                   archived>>
  BY ZenonT(60) DEF Archive!Select
<1> DEFINE found == {y \in Archive!FeedYears :
                        \/ Archive!OnDisk(y)
                        \/ Archive!InBucket(y) /\ y \notin unlisted}
           latest == CHOOSE y \in found : \A z \in found : y >= z
           sync == found # {} /\ ~Archive!OnDisk(latest)
           synced == IF ~sync THEN disk
                     ELSE [disk EXCEPT ![latest] = [t \in Archive!TableSet |->
                             IF t \in unseen THEN Missing ELSE bucket[latest][t]]]
           seen == IF found = {} THEN {}
                   ELSE {r.record : r \in synced[latest]["feed_info"]}
           new == {v \in Archive!Listed :
                      found = {} \/ Archive!Year(feed[v].day) >= latest}
<1>2. found # {} => latest \in Archive!Years
  <2>1. found \subseteq Archive!Years BY YearsOfFeed
  <2>2. /\ Archive!Years = 0 .. Archive!Year(LastDay + DaysPerYear)
        /\ Archive!Year(LastDay + DaysPerYear) \in Nat
    <3>1. LastDay + DaysPerYear \in Nat BY ExportsAssumption
    <3> QED BY <3>1, YearOfDay DEF Archive!Years, Archive!Validity
  <2>3. ASSUME found # {} PROVE \E y \in found : \A z \in found : y >= z
    <3> HIDE DEF found
    <3> QED BY <2>1, <2>2, <2>3, GreatestNumber
  <2> HIDE DEF found
  <2>4. found # {} => latest \in found BY <2>3
  <2> QED BY <2>1, <2>4
<1>3. /\ disk \in [Archive!Years -> Folder] /\ bucket \in [Archive!Years -> Folder]
      /\ folders \subseteq Archive!Years /\ spoiled \subseteq Archive!Years
  BY DEF ArchiveShape
<1>4. synced \in [Archive!Years -> Folder]
  <2> HIDE DEF found, latest
  <2>1. CASE ~sync BY <1>3, <2>1
  <2>2. CASE sync
    <3>1. latest \in Archive!Years BY <1>2, <2>2
    <3>2. [t \in Archive!TableSet |-> IF t \in unseen THEN Missing ELSE bucket[latest][t]]
             \in Folder
      BY <1>3, <3>1 DEF Folder
    <3> QED BY <1>3, <2>2, <3>1, <3>2
  <2> QED BY <2>1, <2>2
<1>5. new \ seen \in SUBSET Archive!Listed OBVIOUS
<1>6. /\ unseen # {} => sync
      /\ \/ Archive!Restart /\ UNCHANGED spoiled
         \/ /\ todo' = Archive!Ordered(new \ seen)
            /\ folders' = folders \cup
                  {y \in Archive!FeedYears : found = {} \/ y >= latest}
            /\ disk' = synced
            /\ spoiled' = IF unseen = {} THEN spoiled ELSE spoiled \cup {latest}
            /\ compressStep' = "compress"
            /\ UNCHANGED <<feed, table, bucket, sending, compressed, archived>>
  BY <1>1, Zenon
<1>7. sync => latest \in Archive!Years BY <1>2
<1>8. {y \in Archive!FeedYears : found = {} \/ y >= latest} \subseteq Archive!Years
  BY YearsOfFeed
<1> HIDE DEF found, latest, synced, seen, new, sync
<1>9. CASE Archive!Restart /\ UNCHANGED spoiled
  BY <1>3, <1>9, ArchiveRestart
<1>10. CASE ~(Archive!Restart /\ UNCHANGED spoiled)
  <2>1. todo' \in Seq(DOMAIN feed') BY <1>5, <1>6, <1>10, OrderedVersions
  <2>2. disk' \in [Archive!Years -> Folder']
            /\ bucket' \in [Archive!Years -> Folder']
    BY <1>3, <1>4, <1>6, <1>10, SameFolders
  <2>3. folders' \subseteq Archive!Years /\ spoiled' \subseteq Archive!Years
    BY <1>3, <1>6, <1>7, <1>8, <1>10
  <2> QED BY <1>6, <1>10, <2>1, <2>2, <2>3 DEF ArchiveShape
<1> QED BY <1>6, <1>9, <1>10

\* The next schedule to compress and its table.
LEMMA NextTable ==
    ASSUME ArchiveShape, todo # <<>>
    PROVE  /\ Head(todo) \in DOMAIN feed /\ Tail(todo) \in Seq(DOMAIN feed)
           /\ Tables[table] \in Archive!TableSet
           /\ Len(Tables) \in Nat /\ DOMAIN Tables = 1..Len(Tables)
           /\ Archive!Partition(Head(todo)) \in Archive!Years
<1>1. todo \in Seq(DOMAIN feed) /\ table \in DOMAIN Tables BY DEF ArchiveShape
<1>2. Head(todo) \in DOMAIN feed /\ Tail(todo) \in Seq(DOMAIN feed)
  BY <1>1
<1>3. Tables \in Seq(STRING) BY ExportsAssumption
<1>4. Len(Tables) \in Nat /\ DOMAIN Tables = 1..Len(Tables) BY <1>3
<1>5. Tables[table] \in Archive!TableSet BY <1>1 DEF Archive!TableSet
<1>6. Archive!Partition(Head(todo)) \in Archive!Years BY <1>2, VersionFacts
<1> QED BY <1>2, <1>4, <1>5, <1>6

\* What a folder holds is a file, or nothing.
LEMMA FolderFile ==
    ASSUME NEW folder \in [Archive!Years -> Folder], NEW year \in Archive!Years,
           NEW t \in Archive!TableSet
    PROVE  folder[year][t] \in {Missing} \cup ArchiveFiles
BY DEF Folder

LEMMA ArchiveCompressTable ==
    ASSUME ArchiveShape, Archive!CompressTable
    PROVE  ArchiveShape'
<1> DEFINE v == Head(todo)
           t == Tables[table]
           year == Archive!Partition(v)
           rows == Archive!New({}, v, t, 0)
<1>1. todo # <<>> /\ UNCHANGED <<feed, compressStep, folders, bucket, sending,
                                archived, spoiled>>
  BY DEF Archive!CompressTable
<1>2. /\ v \in DOMAIN feed /\ Tail(todo) \in Seq(DOMAIN feed)
      /\ t \in Archive!TableSet /\ year \in Archive!Years
      /\ Len(Tables) \in Nat /\ DOMAIN Tables = 1..Len(Tables)
  BY <1>1, NextTable
<1>3. disk \in [Archive!Years -> Folder] BY DEF ArchiveShape
<1>4. \/ /\ disk[year][t] # Missing
         /\ disk' = Archive!Write(year, t, Archive!Merged(disk[year][t], v, t),
                disk)
      \/ /\ year > 0 /\ disk[year - 1][t] # Missing
         /\ disk' = Archive!Write(year, t,
                Archive!Continued(disk[year - 1][t], v, t),
                      Archive!Write(year - 1, t,
                                    Archive!Closed(disk[year - 1][t], v), disk))
      \/ disk' = disk
      \/ disk' = Archive!Write(year, t, rows, disk)
  BY DEF Archive!CompressTable
<1> HIDE DEF v, t, year, rows
<1>5. disk' \in [Archive!Years -> Folder]
  <2>1. CASE /\ disk[year][t] # Missing
             /\ disk' = Archive!Write(year, t,
                    Archive!Merged(disk[year][t], v, t), disk)
    <3>1. disk[year][t] \in ArchiveFiles BY <1>2, <1>3, <2>1, FolderFile
    <3>2. Archive!Merged(disk[year][t], v, t) \in ArchiveFiles
      BY <1>2, <3>1, MergedFile
    <3> QED BY <1>2, <1>3, <2>1, <3>2, WriteFolder
  <2>2. CASE /\ year > 0 /\ disk[year - 1][t] # Missing
             /\ disk' = Archive!Write(year, t,
                          Archive!Continued(disk[year - 1][t], v, t),
                          Archive!Write(year - 1, t,
                                        Archive!Closed(disk[year - 1][t], v), disk))
    <3>1. year - 1 \in Archive!Years /\ Archive!Partition(v) > 0
      BY <1>2, <2>2, VersionFacts DEF year
    <3>2. disk[year - 1][t] \in ArchiveFiles BY <1>2, <1>3, <2>2, <3>1, FolderFile
    <3>3. /\ Archive!Closed(disk[year - 1][t], v) \in ArchiveFiles
          /\ Archive!Continued(disk[year - 1][t], v, t) \in ArchiveFiles
      BY <1>2, <3>1, <3>2, ClosedFile, ContinuedFile
    <3>4. Archive!Write(year - 1, t, Archive!Closed(disk[year - 1][t], v), disk)
             \in [Archive!Years -> Folder]
      BY <1>2, <1>3, <3>1, <3>3, WriteFolder
    <3> QED BY <1>2, <2>2, <3>3, <3>4, WriteFolder
  <2>3. CASE disk' = Archive!Write(year, t, rows, disk)
    <3>1. rows \in ArchiveFiles BY <1>2, NewRows DEF rows
    <3> QED BY <1>2, <1>3, <2>3, <3>1, WriteFolder
  <2> QED BY <1>3, <1>4, <2>1, <2>2, <2>3
<1>6. \/ table' = table + 1 /\ table < Len(Tables) /\ UNCHANGED <<todo, compressed>>
      \/ /\ table' = 1 /\ todo' = Tail(todo)
         /\ compressed' = compressed \cup {v}
  BY DEF Archive!CompressTable, v
<1>7. /\ table' \in DOMAIN Tables /\ todo' \in Seq(DOMAIN feed)
      /\ compressed' \subseteq DOMAIN feed
  <2>1. /\ table \in 1..Len(Tables) /\ todo \in Seq(DOMAIN feed)
        /\ compressed \subseteq DOMAIN feed
    BY <1>2 DEF ArchiveShape
  <2>2. table' \in 1..Len(Tables) BY <1>2, <1>6, <2>1
  <2>3. todo' \in Seq(DOMAIN feed) /\ compressed' \subseteq DOMAIN feed
    BY <1>2, <1>6, <2>1
  <2> QED BY <1>2, <2>2, <2>3
<1>8. Folder' = Folder BY <1>1, SameFolders
<1> QED BY <1>1, <1>5, <1>7, <1>8 DEF ArchiveShape

LEMMA ArchiveAttemptFails ==
    ASSUME ArchiveShape, Archive!AttemptFails
    PROVE  ArchiveShape'
<1> DEFINE v == Head(todo)
           t == Tables[table]
           year == Archive!Partition(v)
<1>1. /\ todo # <<>> /\ year > 0 /\ disk[year - 1][t] # Missing
      /\ disk' = Archive!Write(year - 1, t,
             Archive!Closed(disk[year - 1][t], v), disk)
      /\ UNCHANGED <<feed, compressStep, todo, table, folders, bucket, sending,
                     compressed, archived, spoiled>>
  BY DEF Archive!AttemptFails
<1>2. v \in DOMAIN feed /\ t \in Archive!TableSet /\ year \in Archive!Years
  BY <1>1, NextTable
<1>3. disk \in [Archive!Years -> Folder] BY DEF ArchiveShape
<1>4. year - 1 \in Archive!Years BY <1>1, <1>2, VersionFacts
<1>5. Archive!Partition(v) > 0 BY <1>1
<1> HIDE DEF v, t, year
<1>6. disk[year - 1][t] \in ArchiveFiles BY <1>1, <1>2, <1>3, <1>4, FolderFile
<1>7. Archive!Closed(disk[year - 1][t], v) \in ArchiveFiles
  BY <1>2, <1>5, <1>6, ClosedFile
<1>8. disk' \in [Archive!Years -> Folder]
  BY <1>1, <1>2, <1>3, <1>4, <1>7, WriteFolder
<1>9. Folder' = Folder BY <1>1, SameFolders
<1> QED BY <1>1, <1>8, <1>9 DEF ArchiveShape

LEMMA ArchiveUploads ==
    ASSUME ArchiveShape,
           \/ Archive!StartUpload
           \/ \E y \in Archive!Years,
                  t \in Archive!TableSet : Archive!UploadFile(y, t)
           \/ Archive!EndLoop
    PROVE  ArchiveShape'
<1>1. CASE Archive!StartUpload
  <2>1. Archive!Prepared \subseteq Archive!Years \X Archive!TableSet
    BY VersionFacts DEF Archive!Prepared, ArchiveShape
  <2>2. Archive!Forsaken \subseteq Archive!Years
    BY <2>1 DEF Archive!Forsaken
  <2>3. Folder' = Folder BY <1>1, SameFolders DEF Archive!StartUpload
  <2> QED BY <1>1, <2>1, <2>2, <2>3 DEF ArchiveShape, Archive!StartUpload
<1>2. ASSUME NEW y \in Archive!Years, NEW t \in Archive!TableSet,
             Archive!UploadFile(y, t)
      PROVE  ArchiveShape'
  <2>1. Folder' = Folder BY <1>2, SameFolders DEF Archive!UploadFile
  <2>2. bucket' \in [Archive!Years -> Folder]
    <3>1. disk[y][t] \in {Missing} \cup ArchiveFiles
      BY FolderFile DEF ArchiveShape
    <3>2. Archive!Write(y, t, disk[y][t], bucket) \in [Archive!Years -> Folder]
      BY <3>1, WriteFolder DEF ArchiveShape
    <3> QED BY <1>2, <3>2 DEF Archive!UploadFile, ArchiveShape
  <2>3. spoiled' \subseteq Archive!Years /\ sending' \subseteq sending
    BY <1>2 DEF Archive!UploadFile, ArchiveShape
  <2>4. UNCHANGED <<feed, compressStep, todo, table, folders, disk, compressed,
                    archived>>
    BY <1>2 DEF Archive!UploadFile
  <2> QED BY <2>1, <2>2, <2>3, <2>4 DEF ArchiveShape
<1>3. CASE Archive!EndLoop
  <2>1. Folder' = Folder BY <1>3, SameFolders DEF Archive!EndLoop
  <2> QED BY <1>3, <2>1 DEF ArchiveShape, Archive!EndLoop
<1> QED BY <1>1, <1>2, <1>3

LEMMA ArchiveEnds ==
    ASSUME ArchiveShape, Archive!NoFolder \/ Archive!Crash
    PROVE  ArchiveShape'
<1>1. CASE Archive!NoFolder
  BY <1>1, ArchiveRestart DEF Archive!NoFolder, ArchiveShape
<1>2. CASE Archive!Crash
  <2>1. {f[1] : f \in sending} \subseteq Archive!Years BY DEF ArchiveShape
  <2>2. spoiled' \subseteq Archive!Years BY <1>2, <2>1 DEF Archive!Crash,
            ArchiveShape
  <2> QED BY <1>2, <2>2, ArchiveRestart DEF Archive!Crash
<1> QED BY <1>1, <1>2

LEMMA ArchiveNext ==
    ASSUME ArchiveShape, Archive!Next
    PROVE  ArchiveShape'
BY ArchivePublish, ArchiveSelect, ArchiveCompressTable, ArchiveAttemptFails,
   ArchiveEnds, ArchiveUploads DEF Archive!Next

LEMMA ArchiveStutter ==
    ASSUME ArchiveShape, UNCHANGED archiveVars
    PROVE  ArchiveShape'
<1>1. Folder' = Folder BY SameFolders DEF archiveVars
<1> QED BY <1>1 DEF ArchiveShape, archiveVars

LEMMA ArchiveTypes ==
    ASSUME ArchiveShape
    PROVE  Archive!TypeOK
<1>1. {todo[i] : i \in DOMAIN todo} \subseteq DOMAIN feed
  <2>1. todo \in Seq(DOMAIN feed) BY DEF ArchiveShape
  <2> QED BY <2>1
<1>2. ASSUME NEW y \in Archive!Years, NEW t \in Archive!TableSet,
             NEW file \in {disk[y][t], bucket[y][t]}, file # Missing
      PROVE  file \in Archive!Files /\ \A r \in file : r.to >= r.from - 1
  <2>1. file \in ArchiveFiles BY <1>2, FolderFile DEF ArchiveShape
  <2> QED BY <2>1 DEF ArchiveFiles
<1> QED BY <1>1, <1>2 DEF Archive!TypeOK, ArchiveShape

(***************************************************************************)
(* CompressGtfs: rows and days                                             *)
(***************************************************************************)

\* The value for a missing file is no set of rows.
MissingIsNoFile ==
    Missing \notin SUBSET [record : Records \cup Nat, from : Nat, to : Nat]

RowsOf(file) == IF file = Missing THEN {} ELSE file
RecordsAt(rows, d) == {r.record : r \in Archive!RowsAt(rows, d)}
DaysOf(y) == Archive!FirstDay(y) .. (Archive!FirstDay(y) + DaysPerYear - 1)
OnceAt(rows, d) == \A r, q \in Archive!RowsAt(rows, d) : r.record = q.record
    => r = q

LEMMA Files ==
    ASSUME ArchiveShape, MissingIsNoFile, NEW file \in ArchiveFiles
    PROVE  file # Missing /\ RowsOf(file) = file
<1>1. DOMAIN feed \subseteq Nat BY FeedFacts
<1>2. LastDay \in Nat /\ DaysPerYear \in Nat BY ExportsAssumption
<1>3. file \in SUBSET [record : Records \cup Nat, from : Nat, to : Nat]
  BY <1>1, <1>2, FileRows
<1> QED BY <1>3 DEF MissingIsNoFile, RowsOf

LEMMA RowsOfFile ==
    ASSUME NEW folder \in [Archive!Years -> Folder], NEW y \in Archive!Years,
           NEW t \in Archive!TableSet
    PROVE  RowsOf(folder[y][t]) \in ArchiveFiles
<1>1. {} \in ArchiveFiles BY FileRows
<1> QED BY <1>1, FolderFile DEF RowsOf

LEMMA RowTypes ==
    ASSUME NEW rows \in ArchiveFiles, NEW r \in rows
    PROVE  /\ r \in [record : Records \cup DOMAIN feed, from : Nat, to : Nat]
           /\ r.from \in Nat /\ r.to \in Nat /\ r.from > 0
<1>1. LastDay \in Nat /\ DaysPerYear \in Nat BY ExportsAssumption
<1>2. r \in [record : Records \cup DOMAIN feed, from : 1..(LastDay + 1),
             to : 0..(LastDay + DaysPerYear)]
  BY FileRows
<1> QED BY <1>1, <1>2

LEMMA NextYear ==
    ASSUME NEW y \in Nat
    PROVE  /\ Archive!FirstDay(y) \in Nat
           /\ Archive!FirstDay(y + 1) = Archive!FirstDay(y) + DaysPerYear
           /\ y > 0 => /\ y - 1 \in Nat
                       /\ Archive!FirstDay(y)
                              = Archive!FirstDay(y - 1) + DaysPerYear
BY ExportsAssumption DEF Archive!FirstDay

\* Each day is in one year.
LEMMA DayOfYear ==
    ASSUME NEW d \in Nat, NEW y \in Nat
    PROVE  d \in DaysOf(y) <=> Archive!Year(d) = y
<1> DEFINE z == Archive!Year(d)
<1>1. /\ z \in Nat /\ Archive!FirstDay(z) \in Nat /\ Archive!FirstDay(y) \in Nat
      /\ Archive!FirstDay(z) <= d /\ d < Archive!FirstDay(z) + DaysPerYear
  BY YearOfDay, NextYear
<1> HIDE DEF z
<1>2. DaysPerYear \in Nat BY ExportsAssumption
<1>3. z < y => ~(d >= Archive!FirstDay(y))
  BY <1>1, <1>2, LaterYears
<1>4. y < z => ~(d < Archive!FirstDay(y) + DaysPerYear)
  BY <1>1, <1>2, LaterYears
<1> QED BY <1>1, <1>2, <1>3, <1>4 DEF DaysOf, z

LEMMA DayTypes ==
    ASSUME NEW y \in Nat, NEW d \in DaysOf(y)
    PROVE  d \in Nat /\ Archive!FirstDay(y) <= d
           /\ d < Archive!FirstDay(y) + DaysPerYear
<1>1. Archive!FirstDay(y) \in Nat /\ DaysPerYear \in Nat
  BY NextYear, ExportsAssumption
<1> QED BY <1>1 DEF DaysOf

\* The first day of a schedule is in the year of its partition, and all
\* later days of that year are in its year of validity.
LEMMA VersionDays ==
    ASSUME ArchiveShape, NEW v \in DOMAIN feed
    PROVE  /\ Archive!Partition(v) \in Nat
           /\ feed[v].day \in Nat
           /\ feed[v].day + 1 \in DaysOf(Archive!Partition(v))
           /\ Archive!FirstDay(Archive!Partition(v)) <= feed[v].day + 1
           /\ \A d \in DaysOf(Archive!Partition(v)) : d <= feed[v].day + DaysPerYear
<1>1. /\ feed[v].day \in Nat /\ feed[v].day + 1 \in Nat
      /\ Archive!Partition(v) = Archive!Year(feed[v].day + 1)
  BY VersionFacts, ExportsAssumption DEF Archive!Partition
<1>2. Archive!Partition(v) \in Nat BY <1>1, YearOfDay
<1>3. feed[v].day + 1 \in DaysOf(Archive!Partition(v)) BY <1>1, <1>2, DayOfYear
<1>4. /\ Archive!FirstDay(Archive!Partition(v)) \in Nat
      /\ Archive!FirstDay(Archive!Partition(v)) <= feed[v].day + 1
  BY <1>2, <1>3, NextYear, DayTypes
<1>5. ASSUME NEW d \in DaysOf(Archive!Partition(v))
      PROVE  d <= feed[v].day + DaysPerYear
  <2>1. d \in Nat /\ d < Archive!FirstDay(Archive!Partition(v)) + DaysPerYear
    BY <1>2, DayTypes
  <2> QED BY <1>1, <1>4, <2>1, ExportsAssumption
<1> QED BY <1>1, <1>2, <1>3, <1>4, <1>5

LEMMA YearOrder ==
    ASSUME ArchiveShape, NEW v \in DOMAIN feed, NEW w \in DOMAIN feed,
           feed[v].day <= feed[w].day
    PROVE  Archive!Partition(v) <= Archive!Partition(w)
BY VersionDays, LaterDays, VersionFacts DEF Archive!Partition

(***************************************************************************)
(* CompressGtfs: what a merge does to the days of a file                   *)
(***************************************************************************)

\* Before its first day a schedule changes nothing, after it the file has
\* the records of the schedule.
LEMMA MergedDays ==
    ASSUME ArchiveShape, NEW v \in DOMAIN feed, NEW t, NEW rows \in ArchiveFiles,
           \A r \in rows : r.from <= feed[v].day + 1, NEW d \in Nat
    PROVE  LET merged == Archive!Merged(rows, v, t)
           IN /\ d <= feed[v].day => RecordsAt(merged, d) = RecordsAt(rows, d)
              /\ feed[v].day < d /\ d <= feed[v].day + DaysPerYear
                    => RecordsAt(merged, d) = Archive!Content(v, t)
              /\ OnceAt(rows, d) /\ d <= feed[v].day => OnceAt(merged, d)
              /\ OnceAt(rows, feed[v].day + 1) /\ feed[v].day < d
                     => OnceAt(merged, d)
<1> DEFINE day == feed[v].day + 1
           end == feed[v].day + DaysPerYear
           At(r) == r.from <= day /\ day <= r.to
           C == Archive!Content(v, t)
           merged == Archive!Merged(rows, v, t)
<1>1. /\ feed[v].day \in Nat /\ DaysPerYear \in Nat \ {0, 1}
      /\ Archive!ActiveFrom(v) = day /\ Archive!ActiveTo(v) = end
  BY VersionFacts, VersionDays, ExportsAssumption
<1>2. \A q : q \in merged <=>
         \/ q \in rows /\ ~At(q)
         \/ \E r \in rows : At(r) /\ r.record \in C /\ q = [r EXCEPT !.to = end]
         \/ \E r \in rows : At(r) /\ r.record \notin C
                            /\ q = [r EXCEPT !.to = feed[v].day]
         \/ \E x \in C : /\ \A r \in rows : At(r) => r.record # x
                         /\ q = [record |-> x, from |-> day, to |-> end]
  BY <1>1 DEF Archive!Merged, Archive!RowsAt, Archive!Until, Archive!Same,
              Archive!Old, Archive!New, Archive!Row
<1>3. \A r \in rows : /\ r \in [record : Records \cup DOMAIN feed, from : Nat, to : Nat]
                      /\ r.from \in Nat /\ r.to \in Nat /\ r.from <= day
  BY RowTypes
<1> HIDE DEF merged, C
\* The rows of the merged file that are in force on the day d.
<1>4. ASSUME NEW q \in merged, q.from <= d, d <= q.to, d < day
      PROVE  \E r \in rows : /\ r.record = q.record /\ r.from = q.from
                             /\ r.from <= d /\ d <= r.to
                             /\ (~At(r) /\ q = r) \/ (At(r) /\ q = [r EXCEPT !.to =
                                   IF r.record \in C THEN end ELSE feed[v].day])
  BY <1>1, <1>2, <1>3, <1>4
<1>5. ASSUME NEW r \in rows, r.from <= d, d <= r.to, d < day
      PROVE  \E q \in merged : q.record = r.record /\ q.from <= d /\ d <= q.to
  <2>1. CASE ~At(r) BY <1>2, <1>5, <2>1
  <2>2. CASE At(r) /\ r.record \in C
    <3> DEFINE q == [r EXCEPT !.to = end]
    <3>1. q \in merged BY <1>2, <2>2
    <3>2. q.record = r.record /\ q.from = r.from /\ q.to = end BY <1>3
    <3> QED BY <1>1, <1>3, <1>5, <3>1, <3>2
  <2>3. CASE At(r) /\ r.record \notin C
    <3> DEFINE q == [r EXCEPT !.to = feed[v].day]
    <3>1. q \in merged BY <1>2, <2>3
    <3>2. q.record = r.record /\ q.from = r.from /\ q.to = feed[v].day BY <1>3
    <3> QED BY <1>1, <1>3, <1>5, <3>1, <3>2
  <2> QED BY <2>1, <2>2, <2>3
<1>6. ASSUME NEW q \in merged, q.from <= d, d <= q.to, day <= d
      PROVE  /\ q.record \in C
             /\ \/ \E r \in rows : /\ At(r) /\ r.record = q.record
                                   /\ q = [r EXCEPT !.to = end]
                \/ /\ \A r \in rows : At(r) => r.record # q.record
                   /\ q = [record |-> q.record, from |-> day, to |-> end]
  <2>1. q \in rows => At(q) BY <1>1, <1>3, <1>6
  <2>2. ASSUME NEW r \in rows, q = [r EXCEPT !.to = feed[v].day] PROVE FALSE
    <3>1. q.to = feed[v].day BY <1>3, <2>2
    <3> QED BY <1>1, <1>6, <3>1
  <2>3. \A r \in rows : [r EXCEPT !.to = end].record = r.record BY <1>3
  <2>4. CASE \E r \in rows : At(r) /\ r.record \in C /\ q = [r EXCEPT !.to = end]
    BY <2>3, <2>4
  <2>5. ASSUME NEW x \in C, \A r \in rows : At(r) => r.record # x,
               q = [record |-> x, from |-> day, to |-> end]
        PROVE  /\ q.record = x
               /\ \A r \in rows : At(r) => r.record # q.record
               /\ q = [record |-> q.record, from |-> day, to |-> end]
    <3>1. q.record = x BY <2>5
    <3> HIDE DEF At
    <3> QED BY <2>5, <3>1
  <2> HIDE DEF At
  <2> QED BY <1>2, <2>1, <2>2, <2>4, <2>5
<1>7. ASSUME NEW x \in C, day <= d, d <= end
      PROVE  \E q \in merged : q.record = x /\ q.from <= d /\ d <= q.to
  <2>1. CASE \E r \in rows : At(r) /\ r.record = x
    <3>1. PICK r \in rows : At(r) /\ r.record = x BY <2>1
    <3> DEFINE q == [r EXCEPT !.to = end]
    <3>2. q \in merged BY <1>2, <3>1
    <3>3. q.record = r.record /\ q.from = r.from /\ q.to = end BY <1>3
    <3> QED BY <1>1, <1>3, <1>7, <3>1, <3>2, <3>3
  <2>2. CASE ~ \E r \in rows : At(r) /\ r.record = x
    <3> DEFINE q == [record |-> x, from |-> day, to |-> end]
    <3>1. q \in merged BY <1>2, <2>2
    <3> QED BY <1>1, <1>7, <3>1
  <2> QED BY <2>1, <2>2
<1>8. d <= feed[v].day => RecordsAt(merged, d) = RecordsAt(rows, d)
  BY <1>1, <1>4, <1>5 DEF RecordsAt, Archive!RowsAt
<1>9. feed[v].day < d /\ d <= end => RecordsAt(merged, d) = C
  BY <1>1, <1>6, <1>7 DEF RecordsAt, Archive!RowsAt
<1>10. OnceAt(rows, d) /\ d <= feed[v].day => OnceAt(merged, d)
  <2> SUFFICES ASSUME OnceAt(rows, d), d <= feed[v].day,
                      NEW q \in merged, q.from <= d, d <= q.to,
                      NEW p \in merged, p.from <= d, d <= p.to, q.record = p.record
               PROVE  q = p
    BY DEF OnceAt, Archive!RowsAt
  <2>1. d < day BY <1>1
  <2>2. PICK r \in rows : /\ r.record = q.record /\ r.from <= d /\ d <= r.to
                          /\ (~At(r) /\ q = r) \/ (At(r) /\ q = [r EXCEPT !.to =
                                IF r.record \in C THEN end ELSE feed[v].day])
    BY <1>4, <2>1
  <2>3. PICK s \in rows : /\ s.record = p.record /\ s.from <= d /\ d <= s.to
                          /\ (~At(s) /\ p = s) \/ (At(s) /\ p = [s EXCEPT !.to =
                                IF s.record \in C THEN end ELSE feed[v].day])
    BY <1>4, <2>1
  <2>4. r = s BY <2>2, <2>3 DEF OnceAt, Archive!RowsAt
  <2> QED BY <2>2, <2>3, <2>4
<1>11. OnceAt(rows, day) /\ feed[v].day < d => OnceAt(merged, d)
  <2> SUFFICES ASSUME OnceAt(rows, day), feed[v].day < d,
                      NEW q \in merged, q.from <= d, d <= q.to,
                      NEW p \in merged, p.from <= d, d <= p.to, q.record = p.record
               PROVE  q = p
    BY DEF OnceAt, Archive!RowsAt
  <2>1. day <= d BY <1>1
  <2>2. \A r, s \in rows : At(r) /\ At(s) /\ r.record = s.record => r = s
    BY DEF OnceAt, Archive!RowsAt
  <2> QED BY <1>6, <2>1, <2>2
<1> QED BY <1>8, <1>9, <1>10, <1>11 DEF merged, C

\* A new year: before its first day the schedule leaves the records of the
\* last day of the year before, except for those that would be in force on
\* the first day of the year only.
LEMMA ContinuedDays ==
    ASSUME ArchiveShape, NEW v \in DOMAIN feed, NEW t, NEW rows \in ArchiveFiles,
           NEW y \in Nat, y > 0, Archive!Partition(v) = y, NEW d \in DaysOf(y)
    PROVE  LET first == Archive!FirstDay(y)
               continued == Archive!Continued(rows, v, t)
           IN /\ d <= feed[v].day /\ ~(d = first /\ feed[v].day = first)
                    => RecordsAt(continued, d) = RecordsAt(rows, first - 1)
              /\ feed[v].day < d => RecordsAt(continued, d) = Archive!Content(v, t)
              /\ OnceAt(rows, first - 1) => OnceAt(continued, d)
              /\ \A r \in continued : r.from <= feed[v].day + 1
<1> DEFINE first == Archive!FirstDay(y)
           day == feed[v].day + 1
           end == feed[v].day + DaysPerYear
           At(r) == r.from <= first - 1 /\ first - 1 <= r.to
           C == Archive!Content(v, t)
           continued == Archive!Continued(rows, v, t)
           Same(r) == [record |-> r.record, from |-> first, to |-> end]
           Old(r) == [record |-> r.record, from |-> first, to |-> feed[v].day]
           New(x) == [record |-> x, from |-> day, to |-> end]
<1>1. /\ feed[v].day \in Nat /\ DaysPerYear \in Nat \ {0, 1}
      /\ Archive!ActiveFrom(v) = day /\ Archive!ActiveTo(v) = end
      /\ first \in Nat /\ first <= day /\ first > 0
      /\ d \in Nat /\ first <= d /\ d <= end
  <2>1. /\ feed[v].day \in Nat /\ DaysPerYear \in Nat \ {0, 1}
        /\ Archive!ActiveFrom(v) = day /\ Archive!ActiveTo(v) = end
    BY VersionFacts, VersionDays, ExportsAssumption
  <2>2. first \in Nat /\ first <= day /\ d <= end BY VersionDays, NextYear
  <2>3. d \in Nat /\ first <= d BY DayTypes
  <2>4. first > 0
    <3>1. first = Archive!FirstDay(y - 1) + DaysPerYear
              /\ Archive!FirstDay(y - 1) \in Nat
      BY NextYear
    <3> QED BY <2>1, <3>1
  <2> QED BY <2>1, <2>2, <2>3, <2>4
<1>2. \A r \in rows : /\ r \in [record : Records \cup DOMAIN feed, from : Nat, to : Nat]
                      /\ r.from \in Nat /\ r.to \in Nat
  BY RowTypes
<1>3. \A r \in rows, e \in Nat :
         [[r EXCEPT !.to = e] EXCEPT !.from = first]
            = [record |-> r.record, from |-> first, to |-> e]
  <2> SUFFICES ASSUME NEW r \in rows, NEW e \in Nat
               PROVE  [[r EXCEPT !.to = e] EXCEPT !.from = first]
                         = [record |-> r.record, from |-> first, to |-> e]
    OBVIOUS
  <2>1. r \in [record : Records \cup DOMAIN feed, from : Nat, to : Nat]
    BY <1>2
  <2>2. [r EXCEPT !.to = e] = [record |-> r.record, from |-> r.from, to |-> e]
    BY <2>1
  <2>3. [[record |-> r.record, from |-> r.from, to |-> e] EXCEPT !.from = first]
           = [record |-> r.record, from |-> first, to |-> e]
    OBVIOUS
  <2> HIDE DEF first
  <2> QED BY <2>2, <2>3, Zenon
<1>4. end > first /\ end > day BY <1>1
<1>5. \A q : q \in continued <=>
         \/ \E r \in rows : At(r) /\ r.record \in C /\ q = Same(r)
         \/ /\ feed[v].day > first
            /\ \E r \in rows : At(r) /\ r.record \notin C /\ q = Old(r)
         \/ \E x \in C : (\A r \in rows : At(r) => r.record # x) /\ q = New(x)
  <2> DEFINE same == {r \in rows : At(r) /\ r.record \in C}
             old == {r \in rows : At(r) /\ r.record \notin C}
             new == {x \in C : \A r \in rows : At(r) => r.record # x}
  <2>1. Archive!Same(rows, v, t, first - 1) = same
    BY DEF Archive!Same, Archive!RowsAt
  <2>2. Archive!Old(rows, v, t, first - 1) = old
    BY DEF Archive!Old, Archive!RowsAt
  <2>3. Archive!New(rows, v, t, first - 1) = {New(x) : x \in new}
    BY <1>1 DEF Archive!New, Archive!RowsAt, Archive!Row
  <2>4. /\ Archive!From(Archive!Until(same, end), first) = {Same(r) : r \in same}
        /\ Archive!From(Archive!Until(old, feed[v].day), first)
               = {Old(r) : r \in old}
    <3>1. end \in Nat /\ same \subseteq rows /\ old \subseteq rows BY <1>1
    <3>2. \A S \in SUBSET rows, e \in Nat :
             Archive!From(Archive!Until(S, e), first)
                = {[record |-> r.record, from |-> first, to |-> e] : r \in S}
      <4> SUFFICES ASSUME NEW S \in SUBSET rows, NEW e \in Nat
                   PROVE  Archive!From(Archive!Until(S, e), first)
                             = {[record |-> r.record, from |-> first,
                                 to |-> e] : r \in S}
        OBVIOUS
      <4>1. Archive!From(Archive!Until(S, e), first)
               = {[[r EXCEPT !.to = e] EXCEPT !.from = first] : r \in S}
        BY DEF Archive!From, Archive!Until
      <4>2. \A r \in S : [[r EXCEPT !.to = e] EXCEPT !.from = first]
                         = [record |-> r.record, from |-> first, to |-> e]
        BY <1>3
      <4> DEFINE f(r) == [[r EXCEPT !.to = e] EXCEPT !.from = first]
                 g(r) == [record |-> r.record, from |-> first, to |-> e]
      <4>3. \A r \in S : f(r) = g(r) BY <4>2
      <4>4. {f(r) : r \in S} = {g(r) : r \in S}
        <5> HIDE DEF f, g
        <5> QED BY <4>3
      <4> QED BY <4>1, <4>4
    <3> HIDE DEF same, old
    <3> QED BY <1>1, <3>1, <3>2
  <2>5. continued = {r \in {Same(r) : r \in same} \cup {Old(r) : r \in old}
                             \cup {New(x) : x \in new} : r.to > r.from}
    <3> HIDE DEF same, old, new
    <3> QED BY <1>1, <2>1, <2>2, <2>3, <2>4 DEF Archive!Continued
  <2>6. /\ \A r : Same(r).to > Same(r).from
        /\ \A x : New(x).to > New(x).from
        /\ \A r : Old(r).to > Old(r).from <=> feed[v].day > first
    BY <1>1, <1>4
  <2> HIDE DEF continued, Same, Old, New, At, C
  <2> QED BY <2>5, <2>6
<1> HIDE DEF continued, C
<1>6. feed[v].day < d => RecordsAt(continued, d) = C
  <2> SUFFICES ASSUME feed[v].day < d PROVE RecordsAt(continued, d) = C
    OBVIOUS
  <2>1. ASSUME NEW q \in continued, q.from <= d, d <= q.to PROVE q.record \in C
    <3>1. ~ \E r \in rows : q = Old(r) BY <1>1, <2>1
    <3> QED BY <1>5, <2>1, <3>1
  <2>2. ASSUME NEW x \in C
        PROVE  \E q \in continued : q.record = x /\ q.from <= d /\ d <= q.to
    <3>1. CASE \E r \in rows : At(r) /\ r.record = x
      <4>1. PICK r \in rows : At(r) /\ r.record = x BY <3>1
      <4>2. Same(r) \in continued BY <1>5, <2>2, <4>1
      <4> QED BY <1>1, <4>1, <4>2
    <3>2. CASE ~ \E r \in rows : At(r) /\ r.record = x
      <4>1. New(x) \in continued BY <1>5, <2>2, <3>2
      <4> QED BY <1>1, <4>1
    <3> QED BY <3>1, <3>2
  <2> QED BY <2>1, <2>2 DEF RecordsAt, Archive!RowsAt
<1>7. d <= feed[v].day /\ ~(d = first /\ feed[v].day = first)
         => RecordsAt(continued, d) = RecordsAt(rows, first - 1)
  <2> SUFFICES ASSUME d <= feed[v].day, ~(d = first /\ feed[v].day = first)
               PROVE  RecordsAt(continued, d) = RecordsAt(rows, first - 1)
    OBVIOUS
  <2>1. ASSUME NEW q \in continued, q.from <= d, d <= q.to
        PROVE  \E r \in rows : At(r) /\ r.record = q.record
    <3>1. ~ \E x \in C : q = New(x) BY <1>1, <2>1
    <3> QED BY <1>5, <2>1, <3>1
  <2>2. ASSUME NEW r \in rows, At(r)
        PROVE  \E q \in continued : q.record = r.record /\ q.from <= d /\ d <= q.to
    <3>1. CASE r.record \in C
      <4>1. Same(r) \in continued BY <1>5, <2>2, <3>1
      <4> QED BY <1>1, <4>1
    <3>2. CASE r.record \notin C
      <4>1. feed[v].day > first BY <1>1
      <4>2. Old(r) \in continued BY <1>5, <2>2, <3>2, <4>1
      <4> QED BY <1>1, <4>2
    <3> QED BY <3>1, <3>2
  <2> QED BY <2>1, <2>2 DEF RecordsAt, Archive!RowsAt
<1>8. OnceAt(rows, first - 1) => OnceAt(continued, d)
  <2> SUFFICES ASSUME OnceAt(rows, first - 1),
                      NEW q \in continued, NEW p \in continued, q.record = p.record
               PROVE  q = p
    BY DEF OnceAt, Archive!RowsAt
  <2>1. \A r, s \in rows : At(r) /\ At(s) /\ r.record = s.record => r = s
    BY DEF OnceAt, Archive!RowsAt
  <2>2. \A r : Same(r).record = r.record /\ Old(r).record = r.record
    OBVIOUS
  <2>3. \A x : New(x).record = x OBVIOUS
  <2> HIDE DEF Same, Old, New, At
  <2> QED BY <1>5, <2>1, <2>2, <2>3
<1>9. \A r \in continued : r.from <= day
  BY <1>1, <1>5
<1> QED BY <1>6, <1>7, <1>8, <1>9 DEF continued, C

\* Closing the file of a year takes no row from its days.
LEMMA ClosedDays ==
    ASSUME ArchiveShape, NEW v \in DOMAIN feed, NEW rows \in ArchiveFiles,
           NEW y \in Nat, y > 0, Archive!Partition(v) = y, NEW d \in DaysOf(y - 1)
    PROVE  LET closed == Archive!Closed(rows, v)
           IN /\ RecordsAt(closed, d) = RecordsAt(rows, d)
              /\ OnceAt(rows, d) => OnceAt(closed, d)
              /\ \A r \in closed : \E q \in rows : r.from = q.from
              /\ {r.record : r \in closed} = {r.record : r \in rows}
<1> DEFINE end == Archive!FirstDay(y) - 1
           At(r) == r.from <= end /\ end <= r.to
           closed == Archive!Closed(rows, v)
           Cut(r) == IF At(r) THEN [r EXCEPT !.to = end] ELSE r
<1>1. end \in Nat /\ d \in Nat /\ d <= end
  <2>1. y - 1 \in Nat /\ Archive!FirstDay(y) = Archive!FirstDay(y - 1) + DaysPerYear
        /\ Archive!FirstDay(y - 1) \in Nat
    BY NextYear
  <2>2. d \in Nat /\ d < Archive!FirstDay(y - 1) + DaysPerYear BY <2>1, DayTypes
  <2> QED BY <2>1, <2>2, ExportsAssumption
<1>2. \A r \in rows : /\ r \in [record : Records \cup DOMAIN feed, from : Nat, to : Nat]
                      /\ r.from \in Nat /\ r.to \in Nat
  BY RowTypes
<1>3. closed = {Cut(r) : r \in rows}
  BY DEF Archive!Closed, Archive!RowsAt, Archive!Until
<1>4. \A r \in rows : /\ Cut(r).record = r.record /\ Cut(r).from = r.from
                      /\ r.from <= d => (d <= Cut(r).to <=> d <= r.to)
  BY <1>1, <1>2
<1> HIDE DEF closed, Cut
<1>5. RecordsAt(closed, d) = RecordsAt(rows, d)
  BY <1>3, <1>4 DEF RecordsAt, Archive!RowsAt
<1>6. OnceAt(rows, d) => OnceAt(closed, d)
  BY <1>3, <1>4 DEF OnceAt, Archive!RowsAt
<1>7. /\ \A r \in closed : \E q \in rows : r.from = q.from
      /\ {r.record : r \in closed} = {r.record : r \in rows}
  BY <1>3, <1>4
<1> QED BY <1>5, <1>6, <1>7 DEF closed

\* A schedule in a file of its own.
LEMMA FreshDays ==
    ASSUME ArchiveShape, NEW v \in DOMAIN feed, NEW t, NEW d \in Nat
    PROVE  LET rows == Archive!New({}, v, t, 0)
           IN /\ d <= feed[v].day => RecordsAt(rows, d) = {}
              /\ feed[v].day < d /\ d <= feed[v].day + DaysPerYear
                    => RecordsAt(rows, d) = Archive!Content(v, t)
              /\ OnceAt(rows, d)
              /\ \A r \in rows : r.from = feed[v].day + 1
              /\ {r.record : r \in rows} = Archive!Content(v, t)
<1> DEFINE rows == Archive!New({}, v, t, 0)
           New(x) == [record |-> x, from |-> feed[v].day + 1,
                      to |-> feed[v].day + DaysPerYear]
           C == Archive!Content(v, t)
<1>1. /\ feed[v].day \in Nat /\ DaysPerYear \in Nat \ {0, 1}
      /\ Archive!ActiveFrom(v) = feed[v].day + 1
      /\ Archive!ActiveTo(v) = feed[v].day + DaysPerYear
  BY VersionFacts, VersionDays, ExportsAssumption
<1>2. rows = {New(x) : x \in C}
  BY <1>1 DEF Archive!New, Archive!RowsAt, Archive!Row
<1>3. \A x : /\ New(x).record = x /\ New(x).from = feed[v].day + 1
             /\ New(x).to = feed[v].day + DaysPerYear
  OBVIOUS
<1> HIDE DEF New, rows, C
<1>4. d <= feed[v].day => RecordsAt(rows, d) = {}
  BY <1>1, <1>2, <1>3 DEF RecordsAt, Archive!RowsAt
<1>5. feed[v].day < d /\ d <= feed[v].day + DaysPerYear => RecordsAt(rows, d) = C
  BY <1>1, <1>2, <1>3 DEF RecordsAt, Archive!RowsAt
<1>6. OnceAt(rows, d) BY <1>2, <1>3 DEF OnceAt, Archive!RowsAt
<1>7. (\A r \in rows : r.from = feed[v].day + 1) /\ {r.record : r \in rows} = C
  BY <1>2, <1>3
<1> QED BY <1>4, <1>5, <1>6, <1>7 DEF rows, C

(***************************************************************************)
(* CompressGtfs: the file of a table t and a year y after the schedules M  *)
(* of this year were merged into it                                        *)
(***************************************************************************)
Of(versions, y) == {v \in versions : Archive!Partition(v) = y}

\* Each day has the records of the last schedule of the year before it.
Current(rows, t, y, M) ==
    \A d \in DaysOf(y), c \in M :
        feed[c].day < d /\ (\A u \in M : feed[u].day < d => u <= c)
            => RecordsAt(rows, d) = Archive!Content(c, t)

\* Until its first schedule the year has the records of the last one of the
\* year before, as long as that is valid.
LastOf(v, y) == v \in Of(DOMAIN feed, y) /\ \A u \in Of(DOMAIN feed, y) : u <= v
BeforeAll(d, M) == \A u \in M : d <= feed[u].day

Opening(rows, t, y, M) ==
    y - 1 \notin spoiled /\ M # {} =>
        \A d \in DaysOf(y), v \in DOMAIN feed :
            BeforeAll(d, M) /\ ~Archive!Dropped(d) /\ LastOf(v, y - 1)
            /\ d <= feed[v].day + DaysPerYear
               => RecordsAt(rows, d) = Archive!Content(v, t)

Begun(rows, M) == \A r \in rows : \E c \in M : r.from <= feed[c].day + 1

\* No record is in force twice, unless a year so far has files that do not
\* agree.
Once(rows, y) ==
    (\A z \in spoiled : z > y) => \A d \in DaysOf(y) : OnceAt(rows, d)

Right(rows, t, y, M) ==
    /\ Current(rows, t, y, M) /\ Opening(rows, t, y, M)
    /\ Begun(rows, M) /\ Once(rows, y)

LEMMA RightNothing ==
    ASSUME NEW t, NEW y \in Nat
    PROVE  Right({}, t, y, {})
<1>1. Current({}, t, y, {}) /\ Opening({}, t, y, {}) BY DEF Current, Opening
<1>2. Begun({}, {}) BY DEF Begun
<1>3. Once({}, y) BY DEF Once, OnceAt, Archive!RowsAt
<1> QED BY <1>1, <1>2, <1>3 DEF Right

LEMMA RightMerged ==
    ASSUME ArchiveShape, NEW rows \in ArchiveFiles, NEW t, NEW y \in Nat,
           NEW M \in SUBSET Of(DOMAIN feed, y), Right(rows, t, y, M),
           NEW v \in Of(DOMAIN feed, y), M # {} \/ y = 0,
           \A c \in M : c < v /\ feed[c].day <= feed[v].day
    PROVE  Right(Archive!Merged(rows, v, t), t, y, M \cup {v})
<1> DEFINE merged == Archive!Merged(rows, v, t)
           N == M \cup {v}
<1>1. /\ v \in DOMAIN feed /\ v \in Nat /\ Archive!Partition(v) = y
      /\ feed[v].day \in Nat
      /\ feed[v].day + 1 \in DaysOf(y)
      /\ \A d \in DaysOf(y) : d \in Nat /\ d <= feed[v].day + DaysPerYear
  BY FeedFacts, VersionDays, DayTypes DEF Of
<1>2. \A c \in M : c \in DOMAIN feed /\ c \in Nat /\ feed[c].day \in Nat
  BY FeedFacts, VersionDays DEF Of
<1>3. \A r \in rows : r.from \in Nat /\ r.from <= feed[v].day + 1
  <2> SUFFICES ASSUME NEW r \in rows
                      PROVE r.from \in Nat /\ r.from <= feed[v].day + 1
    OBVIOUS
  <2>1. PICK c \in M : r.from <= feed[c].day + 1 BY DEF Right, Begun
  <2>2. r.from \in Nat BY RowTypes
  <2> QED BY <1>1, <1>2, <2>1, <2>2
<1>4. ASSUME NEW d \in DaysOf(y)
      PROVE  /\ d <= feed[v].day => RecordsAt(merged, d) = RecordsAt(rows, d)
             /\ feed[v].day < d => RecordsAt(merged, d) = Archive!Content(v, t)
             /\ OnceAt(rows, d) /\ d <= feed[v].day => OnceAt(merged, d)
             /\ OnceAt(rows, feed[v].day + 1) /\ feed[v].day < d
                    => OnceAt(merged, d)
  <2>1. d \in Nat /\ d <= feed[v].day + DaysPerYear BY <1>1
  <2> QED BY <1>1, <1>3, <2>1, MergedDays
<1>5. \A r \in merged : r.from <= feed[v].day + 1
  <2>1. feed[v].day + DaysPerYear \in Nat /\ Archive!ActiveFrom(v) = feed[v].day + 1
    BY <1>1, ExportsAssumption, VersionFacts
  <2>2. \A r \in rows : \A e : [r EXCEPT !.to = e].from = r.from
    <3>1. \A r \in rows :
             r \in [record : Records \cup DOMAIN feed, from : Nat, to : Nat]
      BY RowTypes
    <3> QED BY <3>1
  <2>3. ASSUME NEW S \in SUBSET rows, NEW e, NEW q \in Archive!Until(S, e)
        PROVE  q.from <= feed[v].day + 1
    <3>1. PICK r \in S : q = [r EXCEPT !.to = e] BY DEF Archive!Until
    <3>2. q.from = r.from BY <2>2, <3>1
    <3> QED BY <1>3, <3>2
  <2>4. \A q \in Archive!New(rows, v, t, feed[v].day + 1) :
           q.from = feed[v].day + 1
    BY <2>1 DEF Archive!New, Archive!Row
  <2>5. /\ Archive!Same(rows, v, t, feed[v].day + 1) \in SUBSET rows
        /\ Archive!Old(rows, v, t, feed[v].day + 1) \in SUBSET rows
    BY DEF Archive!Same, Archive!Old, Archive!RowsAt
  <2> QED BY <1>1, <1>3, <2>1, <2>3, <2>4, <2>5 DEF Archive!Merged
<1> HIDE DEF merged
<1>6. Current(merged, t, y, N)
  <2> SUFFICES ASSUME NEW d \in DaysOf(y), NEW c \in N, feed[c].day < d,
                      \A u \in N : feed[u].day < d => u <= c
               PROVE  RecordsAt(merged, d) = Archive!Content(c, t)
    BY DEF Current
  <2>1. CASE feed[v].day < d
    <3>1. c = v BY <1>1, <1>2, <2>1
    <3> QED BY <1>4, <2>1, <3>1
  <2>2. CASE ~(feed[v].day < d)
    <3>1. d <= feed[v].day BY <1>1, <2>2
    <3>2. c \in M BY <2>2
    <3> QED BY <1>4, <3>1, <3>2 DEF Right, Current
  <2> QED BY <2>1, <2>2
<1>7. Opening(merged, t, y, N)
  <2> SUFFICES ASSUME y - 1 \notin spoiled, NEW d \in DaysOf(y),
                      NEW w \in DOMAIN feed, BeforeAll(d, N), ~Archive!Dropped(d),
                      LastOf(w, y - 1), d <= feed[w].day + DaysPerYear
               PROVE  RecordsAt(merged, d) = Archive!Content(w, t)
    BY DEF Opening
  <2>1. y # 0
    <3>1. Archive!Partition(w) \in Nat /\ Archive!Partition(w) = y - 1
      BY VersionDays DEF LastOf, Of
    <3> QED BY <3>1
  <2>2. BeforeAll(d, M) /\ d <= feed[v].day BY DEF BeforeAll
  <2>3. RecordsAt(rows, d) = Archive!Content(w, t) BY <2>1, <2>2 DEF Right, Opening
  <2> QED BY <1>4, <2>2, <2>3
<1>8. Begun(merged, N) BY <1>5 DEF Begun
<1>9. Once(merged, y)
  <2> SUFFICES ASSUME \A d \in DaysOf(y) : OnceAt(rows, d), NEW d \in DaysOf(y)
               PROVE  OnceAt(merged, d)
    BY DEF Right, Once
  <2> QED BY <1>1, <1>4
<1> QED BY <1>6, <1>7, <1>8, <1>9 DEF Right, merged, N

LEMMA RightContinued ==
    ASSUME ArchiveShape, NEW rows \in ArchiveFiles, NEW t,
           NEW y \in Nat, y > 0, NEW v \in Of(DOMAIN feed, y),
           NEW M \in SUBSET Of(DOMAIN feed, y - 1),
           y - 1 \notin spoiled => Right(rows, t, y - 1, M),
           \A u : LastOf(u, y - 1) => u \in M
    PROVE  Right(Archive!Continued(rows, v, t), t, y, {v})
<1> DEFINE continued == Archive!Continued(rows, v, t)
           first == Archive!FirstDay(y)
<1>1. /\ v \in DOMAIN feed /\ feed[v].day \in Nat /\ Archive!Partition(v) = y
      /\ y - 1 \in Nat
  BY VersionDays DEF Of
<1>2. ASSUME NEW d \in DaysOf(y)
      PROVE  /\ d \in Nat
             /\ d <= feed[v].day /\ ~(d = first /\ feed[v].day = first)
                   => RecordsAt(continued, d) = RecordsAt(rows, first - 1)
             /\ feed[v].day < d => RecordsAt(continued, d) = Archive!Content(v, t)
             /\ OnceAt(rows, first - 1) => OnceAt(continued, d)
             /\ \A r \in continued : r.from <= feed[v].day + 1
  BY <1>1, ContinuedDays, DayTypes
<1>3. /\ first - 1 \in DaysOf(y - 1) /\ first \in DaysOf(y) /\ first \in Nat
      /\ \A d \in DaysOf(y - 1) : d \in Nat /\ d <= first - 1
  <2>1. /\ Archive!FirstDay(y - 1) \in Nat /\ first \in Nat
        /\ first = Archive!FirstDay(y - 1) + DaysPerYear
    BY <1>1, NextYear
  <2> HIDE DEF first
  <2>2. first - 1 \in DaysOf(y - 1) BY <2>1, ExportsAssumption DEF DaysOf
  <2>3. first \in DaysOf(y) BY <2>1, ExportsAssumption DEF DaysOf, first
  <2>4. \A d \in DaysOf(y - 1) : d \in Nat /\ d <= first - 1
    BY <1>1, <2>1, DayTypes, ExportsAssumption
  <2> QED BY <2>1, <2>2, <2>3, <2>4
<1> HIDE DEF continued
<1>4. Current(continued, t, y, {v}) BY <1>2 DEF Current
<1>5. Opening(continued, t, y, {v})
  <2> SUFFICES ASSUME y - 1 \notin spoiled, NEW d \in DaysOf(y),
                      NEW u \in DOMAIN feed,
                      BeforeAll(d, {v}), ~Archive!Dropped(d), LastOf(u, y - 1)
               PROVE  RecordsAt(continued, d) = Archive!Content(u, t)
    BY DEF Opening
  <2>1. u \in M /\ (\A w \in M : w <= u) /\ d <= feed[v].day
    BY DEF LastOf, BeforeAll
  <2>2. feed[u].day < first - 1
    <3>1. feed[u].day \in Nat /\ feed[u].day + 1 \in DaysOf(y - 1)
      BY VersionDays DEF LastOf, Of
    <3>2. feed[u].day + 1 <= first - 1 BY <1>3, <3>1
    <3> HIDE DEF first
    <3> QED BY <1>3, <3>1, <3>2
  <2>3. RecordsAt(rows, first - 1) = Archive!Content(u, t)
    <3> HIDE DEF first
    <3> QED BY <1>3, <2>1, <2>2 DEF Right, Current
  <2>4. ~(d = first /\ feed[v].day = first)
    <3>1. Archive!Year(first) = y BY <1>3, DayOfYear
    <3> QED BY <1>1, <3>1 DEF Archive!Dropped
  <2> QED BY <1>2, <2>1, <2>3, <2>4
<1>6. Begun(continued, {v}) BY <1>2, <1>3 DEF Begun
<1>7. Once(continued, y)
  <2> SUFFICES ASSUME \A z \in spoiled : z > y, NEW d \in DaysOf(y)
               PROVE  OnceAt(continued, d)
    BY DEF Once
  <2>1. spoiled \subseteq Nat
    <3>1. Archive!Years \subseteq Nat BY DEF Archive!Years
    <3> QED BY <3>1 DEF ArchiveShape
  <2>2. y - 1 \notin spoiled /\ \A z \in spoiled : z > y - 1 BY <1>1, <2>1
  <2>3. OnceAt(rows, first - 1) BY <1>3, <2>2 DEF Right, Once
  <2> QED BY <1>2, <2>3
<1> QED BY <1>4, <1>5, <1>6, <1>7 DEF Right, continued

LEMMA RightClosed ==
    ASSUME ArchiveShape, NEW rows \in ArchiveFiles, NEW t,
           NEW y \in Nat, y > 0, NEW v \in Of(DOMAIN feed, y),
           NEW M, Right(rows, t, y - 1, M)
    PROVE  Right(Archive!Closed(rows, v), t, y - 1, M)
<1> DEFINE closed == Archive!Closed(rows, v)
<1>1. /\ v \in DOMAIN feed /\ Archive!Partition(v) = y BY DEF Of
<1>2. \A d \in DaysOf(y - 1) : /\ RecordsAt(closed, d) = RecordsAt(rows, d)
                               /\ OnceAt(rows, d) => OnceAt(closed, d)
  BY <1>1, ClosedDays
<1>3. \A r \in closed : \E q \in rows : r.from = q.from
  <2>1. PICK d : d \in DaysOf(y - 1)
    <3>1. y - 1 \in Nat /\ Archive!FirstDay(y - 1) \in Nat BY NextYear
    <3> QED BY <3>1, ExportsAssumption DEF DaysOf
  <2> QED BY <1>1, <2>1, ClosedDays
<1> HIDE DEF closed
<1>4. Current(closed, t, y - 1, M) BY <1>2 DEF Right, Current
<1>5. Opening(closed, t, y - 1, M) BY <1>2 DEF Right, Opening
<1>6. Begun(closed, M) BY <1>3 DEF Right, Begun
<1>7. Once(closed, y - 1) BY <1>2 DEF Right, Once
<1> QED BY <1>4, <1>5, <1>6, <1>7 DEF Right, closed

\* A schedule whose table has no file yet is merged into no rows, which in a
\* new year are continued from no rows.
LEMMA NewFile ==
    ASSUME ArchiveShape, NEW v \in DOMAIN feed, NEW t
    PROVE  /\ Archive!New({}, v, t, 0) = Archive!Merged({}, v, t)
           /\ Archive!New({}, v, t, 0) = Archive!Continued({}, v, t)
<1>1. /\ feed[v].day \in Nat /\ Archive!ActiveFrom(v) = feed[v].day + 1
      /\ Archive!ActiveTo(v) = feed[v].day + DaysPerYear
      /\ DaysPerYear \in Nat \ {0, 1}
  BY VersionDays, VersionFacts, ExportsAssumption
<1>2. \A d : Archive!New({}, v, t, d) = Archive!New({}, v, t, 0)
  BY DEF Archive!New, Archive!RowsAt
<1>3. \A r \in Archive!New({}, v, t, 0) : r.to > r.from
  BY <1>1 DEF Archive!New, Archive!Row
<1> QED BY <1>2, <1>3
    DEF Archive!Merged, Archive!Continued, Archive!Same, Archive!Old,
        Archive!RowsAt, Archive!Until, Archive!From

(***************************************************************************)
(* CompressGtfs: the inductive invariant                                   *)
(***************************************************************************)
Recorded(file) == {r.record : r \in RowsOf(file)}
LocalVersions(y) == Recorded(disk[y]["feed_info"])
BucketVersions(y) == Recorded(bucket[y]["feed_info"])
Waiting == {todo[i] : i \in DOMAIN todo}
InHand == IF todo = <<>> THEN {} ELSE {Head(todo)}
Done == {Tables[i] : i \in 1..(table - 1)}

\* The schedules of a year in the file of a table, and those that will be in
\* it at the end of the loop.
MergedOn(y, t) ==
    Of(LocalVersions(y), y) \cup (IF t \in Done THEN Of(InHand, y) ELSE {})
Known(y) == Of(LocalVersions(y) \cup Waiting, y)

\* Schedules are published, and compressed, in the order of their numbers.
OrderInv ==
    /\ \A v, w \in DOMAIN feed : v <= w => feed[v].day <= feed[w].day
    /\ \A i, j \in DOMAIN todo : i < j => todo[i] < todo[j]
    /\ \A y \in Archive!Years : \A c \in LocalVersions(y), x \in Waiting : c < x

\* The course of the loop.  A year that has both a folder and a schedule of
\* this loop is uploaded: one of its schedules was published in this year.
LoopInv ==
    /\ compressStep # "compress" => todo = <<>>
    /\ todo = <<>> => table = 1
    /\ compressStep = "idle" => compressed = {}
    /\ compressStep # "upload" => sending = {}
    /\ compressStep = "upload" => sending \subseteq Archive!Prepared
    /\ \A v \in compressed : v \in LocalVersions(Archive!Partition(v))
    /\ \A v \in compressed \cup Waiting :
          Archive!Partition(v) \in folders =>
             \E w \in compressed \cup Waiting :
                Archive!Year(feed[w].day) = Archive!Partition(v)

\* Folders and files are of years of publication, and feed_info has schedules
\* of its year and of years before it.
PublishedIn(y) == \E v \in DOMAIN feed : Archive!Year(feed[v].day) = y
FilesInv ==
    \A y \in Archive!Years :
        /\ \A c \in LocalVersions(y) \cup BucketVersions(y) :
              c \in DOMAIN feed /\ Archive!Partition(c) <= y
        /\ disk[y]["feed_info"] # Missing => Of(LocalVersions(y), y) # {}
        /\ bucket[y]["feed_info"] # Missing => Of(BucketVersions(y), y) # {}
        /\ \A t \in Archive!TableSet : disk[y][t] # Missing => y \in folders
        /\ y \in folders => PublishedIn(y)
        /\ Archive!InBucket(y) => PublishedIn(y) /\ Of(DOMAIN feed, y) # {}

\* No schedule is left out: what is known of a year is so up to the last one
\* known, from the first one or, if that was published on the last day of the
\* year before, from when there is a folder.
KnownInv ==
    \A y \in Archive!Years :
        /\ \A c \in Known(y), w \in Of(Archive!Listed, y) : w < c => w \in Known(y)
        /\ y \in folders /\ Known(y) # {} =>
              \A w \in Of(Archive!Listed, y) :
                 Archive!Year(feed[w].day) = y - 1 => w \in Known(y)
        /\ Known(y) # {} => Of(Archive!Listed \cap archived, y) \subseteq Known(y)
        /\ y > 0 /\ Of(LocalVersions(y), y) = {} /\ Of(Waiting, y) # {} =>
              Of(Archive!Listed, y - 1) \subseteq Known(y - 1)
        /\ Archive!InBucket(y) /\ (\E z \in 0..y : Known(z) # {}) => Known(y) # {}

\* The same for the files of the bucket.
ListedInv ==
    \A y \in Archive!Years :
        \A c \in Of(BucketVersions(y), y), w \in Of(Archive!Listed, y) :
            w < c \/ Archive!Year(feed[w].day) = y - 1 => w \in BucketVersions(y)

\* The local files.  A file is made with the first schedule of a year that
\* has records, or to continue the file of the year before, and never later.
DiskInv ==
    \A y \in Archive!Years, t \in Archive!TableSet :
        /\ disk[y][t] # Missing => MergedOn(y, t) # {}
        /\ y > 0 /\ MergedOn(y, t) # {} /\ disk[y][t] = Missing =>
              disk[y - 1][t] = Missing
        /\ y \notin spoiled =>
              \A rows, M : rows = RowsOf(disk[y][t]) /\ M = MergedOn(y, t)
                              => Right(rows, t, y, M)

\* The files of the bucket have the schedules of loops that came to an end.
Sent(y, t) == compressStep = "upload" /\ <<y, t>> \in Archive!Prepared \ sending
Holds(y, M) ==
    /\ Of(Archive!Listed \cap archived, y) \subseteq M
    /\ Of(archived, y) # {} => M # {}
    /\ \A t \in Archive!TableSet : ~Sent(y, t) =>
          /\ \A rows : rows = RowsOf(bucket[y][t]) => Right(rows, t, y, M)
          /\ t = "feed_info" => M = Of(BucketVersions(y), y)
BucketInv ==
    \A y \in Archive!Years \ spoiled :
        /\ \E M \in SUBSET Of(DOMAIN feed, y) : Holds(y, M)
        /\ \A t \in Archive!TableSet : Sent(y, t) => bucket[y][t] = disk[y][t]
        /\ compressStep = "upload" /\ y \in {f[1] : f \in Archive!Prepared} =>
              \A t \in Archive!TableSet :
                 disk[y][t] = Missing => bucket[y][t] = Missing

LEMMA ListedLast ==
    ASSUME ArchiveShape, NEW v \in DOMAIN feed
    PROVE  \E w \in Archive!Listed : w >= v /\ feed[w].day = feed[v].day
<1> DEFINE S == {w \in DOMAIN feed : feed[w].day = feed[v].day}
<1>1. DOMAIN feed = 1..Len(feed) /\ Len(feed) \in Nat BY FeedFacts
<1>2. PICK w \in S : \A u \in S : w >= u
  <2>1. S \subseteq 0..Len(feed) /\ S # {} BY <1>1
  <2> HIDE DEF S
  <2> QED BY <1>1, <2>1, GreatestNumber
<1>3. w \in Archive!Listed
  <2> SUFFICES ASSUME NEW u \in DOMAIN feed, feed[u].day = feed[w].day PROVE u <= w
    BY DEF Archive!Listed
  <2>1. u \in S OBVIOUS
  <2>2. u \in Nat /\ w \in Nat BY <1>1
  <2> HIDE DEF S
  <2> QED BY <1>2, <2>1, <2>2
<1>4. w >= v
  <2>1. v \in S OBVIOUS
  <2> HIDE DEF S
  <2> QED BY <1>2, <2>1
<1> QED BY <1>3, <1>4

LEMMA ListedFacts ==
    ASSUME ArchiveShape
    PROVE  /\ Archive!Listed \subseteq DOMAIN feed
           /\ DOMAIN feed \subseteq Nat
           /\ \A y : y \in Archive!FeedYears <=> PublishedIn(y)
           /\ \A y : Of(DOMAIN feed, y) # {} => Of(Archive!Listed, y) # {}
<1>1. Archive!Listed \subseteq DOMAIN feed BY DEF Archive!Listed
<1>2. DOMAIN feed \subseteq Nat BY FeedFacts
<1>3. \A y : y \in Archive!FeedYears <=> PublishedIn(y)
  BY <1>1, ListedLast DEF Archive!FeedYears, PublishedIn
<1>4. ASSUME NEW y, NEW v \in Of(DOMAIN feed, y) PROVE Of(Archive!Listed, y) # {}
  <2>1. v \in DOMAIN feed /\ Archive!Partition(v) = y BY DEF Of
  <2>2. PICK w \in Archive!Listed : feed[w].day = feed[v].day
    BY <2>1, ListedLast
  <2>3. Archive!Partition(w) = y
    BY <2>1, <2>2 DEF Archive!Partition, Archive!ActiveFrom
  <2> QED BY <2>2, <2>3 DEF Of
<1> QED BY <1>1, <1>2, <1>3, <1>4

\* The year of publication of a schedule is that of its partition, or, on
\* the last day of a year, the year before.
LEMMA PublishedYear ==
    ASSUME ArchiveShape, NEW v \in DOMAIN feed
    PROVE  /\ Archive!Partition(v) \in Nat /\ Archive!Year(feed[v].day) \in Nat
           /\ Archive!Partition(v) \in Archive!Years
           /\ \/ Archive!Year(feed[v].day) = Archive!Partition(v)
              \/ /\ Archive!Year(feed[v].day) + 1 = Archive!Partition(v)
                 /\ feed[v].day + 1 = Archive!FirstDay(Archive!Partition(v))
<1> DEFINE y == Archive!Partition(v)
<1>1. /\ y \in Nat /\ y \in Archive!Years /\ feed[v].day \in Nat
      /\ feed[v].day + 1 \in DaysOf(y)
  BY VersionDays, VersionFacts
<1> HIDE DEF y
<1>2. /\ Archive!FirstDay(y) \in Nat /\ Archive!FirstDay(y) <= feed[v].day + 1
      /\ feed[v].day + 1 < Archive!FirstDay(y) + DaysPerYear
  BY <1>1, NextYear, DayTypes
<1>3. CASE Archive!FirstDay(y) <= feed[v].day
  <2>1. feed[v].day \in DaysOf(y) BY <1>1, <1>2, <1>3, ExportsAssumption DEF DaysOf
  <2> QED BY <1>1, <2>1, DayOfYear DEF y
<1>4. CASE Archive!FirstDay(y) = feed[v].day + 1
  <2>1. y > 0 BY <1>1, <1>2, <1>4, ExportsAssumption DEF Archive!FirstDay
  <2>2. /\ y - 1 \in Nat /\ Archive!FirstDay(y - 1) \in Nat
        /\ Archive!FirstDay(y) = Archive!FirstDay(y - 1) + DaysPerYear
    BY <1>1, <2>1, NextYear
  <2>3. feed[v].day \in DaysOf(y - 1)
    BY <1>1, <1>4, <2>2, ExportsAssumption DEF DaysOf
  <2>4. Archive!Year(feed[v].day) = y - 1 BY <1>1, <2>2, <2>3, DayOfYear
  <2>5. Archive!Year(feed[v].day) + 1 = y BY <1>1, <2>4
  <2> QED BY <1>1, <1>4, <2>2, <2>4, <2>5 DEF y
<1> QED BY <1>1, <1>2, <1>3, <1>4

\* The schedules of a sequence are those of the set, in their order.
LEMMA OrderedAll ==
    ASSUME ArchiveShape, OrderInv, NEW V \in SUBSET Archive!Listed
    PROVE  LET s == Archive!Ordered(V)
           IN /\ {s[i] : i \in DOMAIN s} = V
              /\ \A i, j \in DOMAIN s : i < j => s[i] < s[j]
<1> DEFINE n == Cardinality(V)
           s == Archive!Ordered(V)
<1>1. IsFiniteSet(V) /\ n \in Nat
  <2>1. IsFiniteSet(1 .. Len(feed)) BY FeedFacts, FS_Interval
  <2>2. V \subseteq 1 .. Len(feed) BY FeedFacts DEF Archive!Listed
  <2> QED BY <2>1, <2>2, FS_Subset, FS_CardinalityType
<1>2. s \in [1..n -> V] /\ InOrder(s)
  <2>1. PICK q \in [1..n -> V] : InOrder(q) BY <1>1, AllOrders
  <2>2. s = CHOOSE p \in [1..n -> V] : InOrder(p)
    <3>1. Archive!Cardinality(V) = n
      BY Zenon DEF Archive!Cardinality, Cardinality
    <3> HIDE DEF n
    <3> QED BY <3>1 DEF Archive!Ordered, InOrder
  <2> HIDE DEF n, s
  <2> QED BY <2>1, <2>2
<1> HIDE DEF n, s
<1>3. \A i, j \in 1..n : i < j => feed[s[i]].day < feed[s[j]].day
  BY <1>2 DEF InOrder
<1>4. \A i \in 1..n : s[i] \in DOMAIN feed /\ s[i] \in Nat /\ feed[s[i]].day \in Nat
  BY <1>2, ListedFacts, VersionDays
<1>5. \A i, j \in 1..n : i < j => s[i] < s[j]
  <2> SUFFICES ASSUME NEW i \in 1..n, NEW j \in 1..n, i < j, ~(s[i] < s[j])
               PROVE  FALSE
    OBVIOUS
  <2>1. s[j] <= s[i] BY <1>4
  <2>2. feed[s[j]].day <= feed[s[i]].day BY <1>4, <2>1 DEF OrderInv
  <2> QED BY <1>3, <1>4, <2>2
<1>6. s \in Injection(1..n, V)
  <2> SUFFICES ASSUME NEW i \in 1..n, NEW j \in 1..n, s[i] = s[j] PROVE i = j
    BY <1>2 DEF Injection, IsInjective
  <2>1. ~(i < j) /\ ~(j < i) BY <1>4, <1>5
  <2> QED BY <1>1, <2>1
<1>7. {s[i] : i \in 1..n} = V
  <2> DEFINE W == {s[i] : i \in 1..n}
  <2>1. s \in Bijection(1..n, W)
    BY <1>2, <1>6 DEF Bijection, Injection, IsInjective, Surjection
  <2>2. IsFiniteSet(1..n) /\ Cardinality(1..n) = n
    BY <1>1, FS_Interval
  <2>3. IsFiniteSet(W) /\ Cardinality(W) = n
    <3> HIDE DEF W
    <3> QED BY <2>1, <2>2, FS_Bijection DEF ExistsBijection
  <2>4. W \subseteq V BY <1>2
  <2> HIDE DEF W
  <2>5. W = V BY <1>1, <2>3, <2>4, FS_Subset DEF n
  <2> QED BY <2>5 DEF W
<1> QED BY <1>2, <1>5, <1>7 DEF s

RecordsIn(rows) == {r.record : r \in rows}

\* What feed_info records.
LEMMA MergedVersions ==
    ASSUME ArchiveShape, NEW v \in DOMAIN feed, NEW rows \in ArchiveFiles
    PROVE  RecordsIn(Archive!Merged(rows, v, "feed_info"))
           = RecordsIn(rows) \cup {v}
<1> DEFINE day == Archive!ActiveFrom(v)
           at == Archive!RowsAt(rows, day)
<1>1. Archive!Content(v, "feed_info") = {v} BY DEF Archive!Content
<1>2. \A r \in rows : \A e : [r EXCEPT !.to = e].record = r.record
  <2>1. \A r \in rows :
           r \in [record : Records \cup DOMAIN feed, from : Nat, to : Nat]
    BY RowTypes
  <2> QED BY <2>1
<1>3. \A S \in SUBSET rows : \A e : RecordsIn(Archive!Until(S, e)) = RecordsIn(S)
  <2> SUFFICES ASSUME NEW S \in SUBSET rows, NEW e
               PROVE  RecordsIn(Archive!Until(S, e)) = RecordsIn(S)
    OBVIOUS
  <2>1. \A r \in S : [r EXCEPT !.to = e].record = r.record BY <1>2
  <2> DEFINE f(r) == [r EXCEPT !.to = e]
  <2>2. \A r \in S : f(r).record = r.record BY <2>1
  <2>3. Archive!Until(S, e) = {f(r) : r \in S} BY DEF Archive!Until
  <2> HIDE DEF f
  <2> QED BY <2>2, <2>3 DEF RecordsIn
<1>4. RecordsIn(Archive!New(rows, v, "feed_info", day)) = {v} \ RecordsIn(at)
  <2> DEFINE new == {v} \ RecordsIn(at)
             g(x) == Archive!Row(x, day, Archive!ActiveTo(v))
  <2>1. Archive!New(rows, v, "feed_info", day) = {g(x) : x \in new}
    BY <1>1 DEF RecordsIn, Archive!New
  <2>2. \A x : g(x).record = x BY DEF Archive!Row
  <2> HIDE DEF g, new
  <2>3. RecordsIn({g(x) : x \in new}) = new BY <2>2 DEF RecordsIn
  <2> QED BY <2>1, <2>3 DEF new
<1>5. /\ Archive!Same(rows, v, "feed_info", day) \in SUBSET rows
      /\ Archive!Old(rows, v, "feed_info", day) \in SUBSET rows
      /\ Archive!Same(rows, v, "feed_info", day)
            \cup Archive!Old(rows, v, "feed_info", day) = at
      /\ at \subseteq rows
  BY DEF Archive!Same, Archive!Old, Archive!RowsAt
<1>6. \A S, Q : RecordsIn(S \cup Q) = RecordsIn(S) \cup RecordsIn(Q)
  BY DEF RecordsIn
<1>7. RecordsIn(Archive!Merged(rows, v, "feed_info"))
         = RecordsIn(rows \ at) \cup RecordsIn(at) \cup ({v} \ RecordsIn(at))
  <2> HIDE DEF at, day
  <2>1. RecordsIn(Archive!Until(Archive!Same(rows, v, "feed_info", day),
                                Archive!ActiveTo(v)))
           = RecordsIn(Archive!Same(rows, v, "feed_info", day))
    BY <1>3, <1>5
  <2>2. RecordsIn(Archive!Until(Archive!Old(rows, v, "feed_info", day),
            feed[v].day))
           = RecordsIn(Archive!Old(rows, v, "feed_info", day))
    BY <1>3, <1>5
  <2>3. RecordsIn(Archive!Same(rows, v, "feed_info", day))
           \cup RecordsIn(Archive!Old(rows, v, "feed_info", day)) = RecordsIn(at)
    BY <1>5, <1>6
  <2>4. Archive!Merged(rows, v, "feed_info")
           = (rows \ at) \cup Archive!Until(Archive!Same(rows, v, "feed_info", day),
                                           Archive!ActiveTo(v))
                \cup Archive!Until(Archive!Old(rows, v, "feed_info", day),
                    feed[v].day)
                \cup Archive!New(rows, v, "feed_info", day)
    BY DEF Archive!Merged, at, day
  <2> DEFINE a == rows \ at
             b == Archive!Until(Archive!Same(rows, v, "feed_info", day),
                                Archive!ActiveTo(v))
             c == Archive!Until(Archive!Old(rows, v, "feed_info", day), feed[v].day)
             e == Archive!New(rows, v, "feed_info", day)
  <2>5. RecordsIn(a \cup b \cup c \cup e)
           = RecordsIn(a) \cup RecordsIn(b) \cup RecordsIn(c) \cup RecordsIn(e)
    <3> HIDE DEF a, b, c, e
    <3> QED BY DEF RecordsIn
  <2>6. RecordsIn(b) \cup RecordsIn(c) = RecordsIn(at) BY <2>1, <2>2, <2>3
  <2>7. RecordsIn(e) = {v} \ RecordsIn(at) BY <1>4
  <2>8. Archive!Merged(rows, v, "feed_info") = a \cup b \cup c \cup e BY <2>4
  <2> HIDE DEF a, b, c, e
  <2> QED BY <2>5, <2>6, <2>7, <2>8 DEF a
<1>8. RecordsIn(rows \ at) \cup RecordsIn(at) = RecordsIn(rows)
  <2> HIDE DEF at
  <2> QED BY <1>5 DEF RecordsIn
<1> QED BY <1>5, <1>7, <1>8 DEF RecordsIn

LEMMA ContinuedVersions ==
    ASSUME ArchiveShape, NEW v \in DOMAIN feed, NEW rows \in ArchiveFiles,
           Archive!Partition(v) > 0, v \notin RecordsIn(rows)
    PROVE  /\ v \in RecordsIn(Archive!Continued(rows, v, "feed_info"))
           /\ RecordsIn(Archive!Continued(rows, v, "feed_info"))
                 \subseteq RecordsIn(rows) \cup {v}
<1> DEFINE first == Archive!FirstDay(Archive!Partition(v))
           t == "feed_info"
           day == first - 1
<1>1. Archive!Content(v, t) = {v} BY DEF Archive!Content
<1>2. \A r \in rows : \A e, f : [[r EXCEPT !.to = e] EXCEPT !.from = f].record = r.record
  <2>1. \A r \in rows :
           r \in [record : Records \cup DOMAIN feed, from : Nat, to : Nat]
    BY RowTypes
  <2> SUFFICES ASSUME NEW r \in rows, NEW e, NEW f
               PROVE  [[r EXCEPT !.to = e] EXCEPT !.from = f].record = r.record
    OBVIOUS
  <2>2. PICK q : q = [r EXCEPT !.to = e] OBVIOUS
  <2>3. q = [record |-> r.record, from |-> r.from, to |-> e] BY <2>1, <2>2
  <2>4. [q EXCEPT !.from = f].record = r.record BY <2>3
  <2> QED BY <2>2, <2>4
<1>3. ASSUME NEW S \in SUBSET rows, NEW e, NEW f
      PROVE  RecordsIn(Archive!From(Archive!Until(S, e), f))
             \subseteq RecordsIn(rows)
  <2> DEFINE g(r) == [[r EXCEPT !.to = e] EXCEPT !.from = f]
  <2>1. \A r \in S : g(r).record = r.record BY <1>2
  <2>2. Archive!From(Archive!Until(S, e), f) = {g(r) : r \in S}
    BY DEF Archive!From, Archive!Until
  <2> HIDE DEF g
  <2> QED BY <2>1, <2>2 DEF RecordsIn
<1>4. /\ Archive!Same(rows, v, t, day) \in SUBSET rows
      /\ Archive!Old(rows, v, t, day) \in SUBSET rows
  BY DEF Archive!Same, Archive!Old, Archive!RowsAt
<1> DEFINE new == [record |-> v, from |-> Archive!ActiveFrom(v),
        to |-> Archive!ActiveTo(v)]
<1>5. Archive!New(rows, v, t, day) = {new}
  BY <1>1 DEF RecordsIn, Archive!New, Archive!Row, Archive!RowsAt
<1>6. new.to > new.from /\ new.record = v
  BY VersionFacts, VersionDays, ExportsAssumption
<1> HIDE DEF new, t
<1> DEFINE same == Archive!From(Archive!Until(Archive!Same(rows, v, t, day),
                                              Archive!ActiveTo(v)), first)
           old == Archive!From(Archive!Until(Archive!Old(rows, v, t, day),
                                             feed[v].day), first)
<1>7. Archive!Continued(rows, v, t)
          = {r \in same \cup old \cup {new} : r.to > r.from}
  BY <1>5 DEF Archive!Continued
<1>8. RecordsIn(same) \subseteq RecordsIn(rows)
          /\ RecordsIn(old) \subseteq RecordsIn(rows)
  <2> HIDE DEF day, first
  <2> QED BY <1>3, <1>4
<1> HIDE DEF same, old
<1> QED BY <1>6, <1>7, <1>8 DEF RecordsIn, t

LEMMA ClosedVersions ==
    ASSUME ArchiveShape, NEW v \in DOMAIN feed, NEW rows \in ArchiveFiles
    PROVE  RecordsIn(Archive!Closed(rows, v)) = RecordsIn(rows)
<1> DEFINE end == Archive!FirstDay(Archive!Partition(v)) - 1
           at == Archive!RowsAt(rows, end)
           f(r) == [r EXCEPT !.to = end]
<1>1. \A r \in rows : f(r).record = r.record
  <2>1. \A r \in rows :
           r \in [record : Records \cup DOMAIN feed, from : Nat, to : Nat]
    BY RowTypes
  <2> QED BY <2>1
<1>2. Archive!Closed(rows, v) = (rows \ at) \cup {f(r) : r \in at}
  BY DEF Archive!Closed, Archive!Until
<1>3. at \subseteq rows BY DEF Archive!RowsAt
<1> HIDE DEF at, f
<1> QED BY <1>1, <1>2, <1>3 DEF RecordsIn

(***************************************************************************)
(* CompressGtfs: what does not change                                      *)
(***************************************************************************)
\* Schedules are only added, and later than the others.
FeedGrows ==
    /\ DOMAIN feed \subseteq DOMAIN feed'
    /\ \A v \in DOMAIN feed : feed'[v] = feed[v]
    /\ \A n \in DOMAIN feed' \ DOMAIN feed : /\ n \in Nat /\ feed'[n].day \in Nat
                                             /\ \A v \in DOMAIN feed :
                                                   v < n /\ feed[v].day <= feed'[n].day

LEMMA OldSchedules ==
    ASSUME ArchiveShape, FeedGrows
    PROVE  /\ \A v \in DOMAIN feed : \A t :
                 /\ Archive!Partition(v)' = Archive!Partition(v)
                 /\ Archive!Content(v, t)' = Archive!Content(v, t)
           /\ \A v \in DOMAIN feed, n \in DOMAIN feed' \ DOMAIN feed :
                 Archive!Partition(v) <= Archive!Partition(n)'
           /\ \A v \in Archive!Listed' : v \in DOMAIN feed => v \in Archive!Listed
           /\ \A y : PublishedIn(y) => PublishedIn(y)'
           /\ \A d : Archive!Dropped(d) => Archive!Dropped(d)'
<1>1. \A v \in DOMAIN feed : \A t :
         /\ Archive!Partition(v)' = Archive!Partition(v)
         /\ Archive!Content(v, t)' = Archive!Content(v, t)
  BY DEF FeedGrows, Archive!Partition, Archive!ActiveFrom, Archive!Content
<1>2. ASSUME NEW v \in DOMAIN feed, NEW n \in DOMAIN feed' \ DOMAIN feed
      PROVE  Archive!Partition(v) <= Archive!Partition(n)'
  <2>1. feed[v].day \in Nat /\ feed'[n].day \in Nat /\ feed[v].day <= feed'[n].day
    BY VersionDays DEF FeedGrows
  <2>2. feed[v].day + 1 <= feed'[n].day + 1 BY <2>1
  <2> QED BY <2>1, <2>2, LaterDays DEF Archive!Partition, Archive!ActiveFrom
<1>3. \A v \in Archive!Listed' : v \in DOMAIN feed => v \in Archive!Listed
  BY DEF FeedGrows, Archive!Listed
<1>4. \A y : PublishedIn(y) => PublishedIn(y)'
  BY DEF FeedGrows, PublishedIn
<1>5. \A d : Archive!Dropped(d) => Archive!Dropped(d)'
  BY DEF FeedGrows, Archive!Dropped
<1> QED BY <1>1, <1>2, <1>3, <1>4, <1>5

LEMMA RightStays ==
    ASSUME ArchiveShape, FeedGrows, spoiled \subseteq spoiled',
           NEW rows, NEW t, NEW y \in Nat, NEW M \in SUBSET Of(DOMAIN feed, y),
           Right(rows, t, y, M)
    PROVE  Right(rows, t, y, M)'
<1>1. M \subseteq DOMAIN feed BY DEF Of
<1>2. Current(rows, t, y, M)'
  <2> SUFFICES ASSUME NEW d \in DaysOf(y), NEW c \in M, feed'[c].day < d,
                      \A u \in M : feed'[u].day < d => u <= c
               PROVE  RecordsAt(rows, d) = Archive!Content(c, t)'
    BY DEF Current
  <2>1. \A u \in M : feed'[u] = feed[u] BY <1>1 DEF FeedGrows
  <2>2. RecordsAt(rows, d) = Archive!Content(c, t) BY <2>1 DEF Right, Current
  <2> QED BY <1>1, <2>2, OldSchedules
<1>3. Opening(rows, t, y, M)'
  <2> SUFFICES ASSUME y - 1 \notin spoiled', M # {}, NEW d \in DaysOf(y),
                      NEW v \in DOMAIN feed', BeforeAll(d, M)',
                          ~Archive!Dropped(d)',
                      LastOf(v, y - 1)', d <= feed'[v].day + DaysPerYear
               PROVE  RecordsAt(rows, d) = Archive!Content(v, t)'
    BY DEF Opening
  <2>1. BeforeAll(d, M) BY <1>1 DEF BeforeAll, FeedGrows
  <2>2. ~Archive!Dropped(d) BY OldSchedules
  <2>3. v \in DOMAIN feed
    <3> SUFFICES ASSUME v \notin DOMAIN feed PROVE FALSE OBVIOUS
    <3>1. PICK c \in M : c \in DOMAIN feed /\ Archive!Partition(c) = y
      BY DEF Of
    <3>2. Archive!Partition(v)' = y - 1 BY DEF LastOf, Of
    <3> QED BY <3>1, <3>2, OldSchedules
  <2>4. LastOf(v, y - 1)
    <3>1. \A u \in Of(DOMAIN feed, y - 1) : u \in Of(DOMAIN feed, y - 1)'
      BY OldSchedules DEF Of, FeedGrows
    <3>2. v \in Of(DOMAIN feed, y - 1) BY <2>3, OldSchedules DEF LastOf, Of
    <3> QED BY <3>1, <3>2 DEF LastOf
  <2>5. feed'[v] = feed[v] BY <2>3 DEF FeedGrows
  <2>6. RecordsAt(rows, d) = Archive!Content(v, t)
    BY <2>1, <2>2, <2>3, <2>4, <2>5 DEF Right, Opening
  <2> QED BY <2>3, <2>6, OldSchedules
<1>4. Begun(rows, M)' BY <1>1 DEF Right, Begun, FeedGrows
<1>5. Once(rows, y)' BY DEF Right, Once
<1> QED BY <1>2, <1>3, <1>4, <1>5 DEF Right

LEMMA SameFeed == ASSUME UNCHANGED feed PROVE FeedGrows
BY DEF FeedGrows

LEMMA FeedInfoTable == "feed_info" \in Archive!TableSet
BY ExportsAssumption DEF Archive!TableSet

LEMMA YearsNat ==
    /\ Archive!Years \subseteq Nat
    /\ \A y \in Archive!Years, z \in Nat : z <= y => z \in Archive!Years
<1> DEFINE final == Archive!Year(LastDay + DaysPerYear)
<1>1. final \in Nat
  <2>1. LastDay + DaysPerYear \in Nat BY ExportsAssumption
  <2> QED BY <2>1, YearOfDay
<1>2. Archive!Years = 0..final BY DEF Archive!Years, Archive!Validity
<1> HIDE DEF final
<1> QED BY <1>1, <1>2

LEMMA OfOldSchedules ==
    ASSUME ArchiveShape, FeedGrows, NEW V \in SUBSET DOMAIN feed, NEW y
    PROVE  Of(V, y)' = Of(V, y)
BY OldSchedules DEF Of

LEMMA SameFiles ==
    ASSUME ArchiveShape, FilesInv, FeedGrows, UNCHANGED <<disk, todo, table>>
    PROVE  /\ Waiting \subseteq DOMAIN feed /\ Waiting' = Waiting
           /\ \A y \in Archive!Years :
                /\ LocalVersions(y) \subseteq DOMAIN feed
                /\ LocalVersions(y)' = LocalVersions(y)
                /\ Of(Waiting, y)' = Of(Waiting, y)
                /\ Of(LocalVersions(y), y)' = Of(LocalVersions(y), y)
                /\ Known(y) \subseteq DOMAIN feed
                /\ Known(y)' = Known(y)
                /\ \A t : /\ MergedOn(y, t)' = MergedOn(y, t)
                          /\ MergedOn(y, t) \in SUBSET Of(DOMAIN feed, y)
<1>1. Waiting \subseteq DOMAIN feed /\ InHand \subseteq DOMAIN feed
  <2>1. todo \in Seq(DOMAIN feed) BY DEF ArchiveShape
  <2> QED BY <2>1 DEF Waiting, InHand
<1>2. Waiting' = Waiting /\ InHand' = InHand /\ Done' = Done
  BY DEF Waiting, InHand, Done
<1> SUFFICES ASSUME NEW y \in Archive!Years
             PROVE  /\ LocalVersions(y) \subseteq DOMAIN feed
                    /\ LocalVersions(y)' = LocalVersions(y)
                    /\ Of(Waiting, y)' = Of(Waiting, y)
                    /\ Of(LocalVersions(y), y)' = Of(LocalVersions(y), y)
                    /\ Known(y) \subseteq DOMAIN feed
                    /\ Known(y)' = Known(y)
                    /\ \A t : /\ MergedOn(y, t)' = MergedOn(y, t)
                              /\ MergedOn(y, t) \in SUBSET Of(DOMAIN feed, y)
  BY <1>1, <1>2
<1>3. LocalVersions(y) \subseteq DOMAIN feed BY DEF FilesInv
<1>4. LocalVersions(y)' = LocalVersions(y) BY DEF LocalVersions, Recorded
<1>5. \A V \in SUBSET DOMAIN feed :
         {v \in V : Archive!Partition(v)' = y}
             = {v \in V : Archive!Partition(v) = y}
  BY OldSchedules
<1>6. Of(Waiting, y)' = Of(Waiting, y) BY <1>1, <1>2, <1>5 DEF Of
<1>7. Of(LocalVersions(y), y)' = Of(LocalVersions(y), y) BY <1>3, <1>4, <1>5 DEF Of
<1>8. Of(InHand, y)' = Of(InHand, y) BY <1>1, <1>2, <1>5 DEF Of
<1>9. Known(y) \subseteq DOMAIN feed BY <1>1, <1>3 DEF Known, Of
<1>10. Known(y)' = Known(y)
  <2>1. LocalVersions(y) \cup Waiting \in SUBSET DOMAIN feed BY <1>1, <1>3
  <2> QED BY <1>2, <1>4, <1>5, <2>1 DEF Known, Of
<1>11. \A t : MergedOn(y, t)' = MergedOn(y, t)
  BY <1>2, <1>7, <1>8 DEF MergedOn
<1>12. \A t : MergedOn(y, t) \in SUBSET Of(DOMAIN feed, y)
  BY <1>1, <1>3 DEF MergedOn, Of
<1> QED BY <1>3, <1>4, <1>6, <1>7, <1>9, <1>10, <1>11, <1>12

LEMMA DiskStays ==
    ASSUME ArchiveShape, FilesInv, DiskInv, FeedGrows, spoiled \subseteq spoiled',
           UNCHANGED <<disk, todo, table>>
    PROVE  DiskInv'
<1> SUFFICES ASSUME NEW y \in Archive!Years, NEW t \in Archive!TableSet
             PROVE  /\ disk'[y][t] # Missing => MergedOn(y, t)' # {}
                    /\ y > 0 /\ MergedOn(y, t)' # {} /\ disk'[y][t] = Missing =>
                          disk'[y - 1][t] = Missing
                    /\ y \notin spoiled' =>
                          \A rows, M : rows = RowsOf(disk'[y][t])
                              /\ M = MergedOn(y, t)'
                                          => Right(rows, t, y, M)'
  BY DEF DiskInv
<1>1. /\ MergedOn(y, t)' = MergedOn(y, t)
      /\ MergedOn(y, t) \in SUBSET Of(DOMAIN feed, y)
  BY SameFiles
<1>2. ASSUME NEW rows, NEW M, y \notin spoiled', rows = RowsOf(disk[y][t]),
             M = MergedOn(y, t)
      PROVE  Right(rows, t, y, M)'
  <2>1. Right(rows, t, y, M) BY <1>2 DEF DiskInv
  <2>2. y \in Nat /\ M \in SUBSET Of(DOMAIN feed, y) BY <1>1, <1>2, YearsNat
  <2> QED BY <2>1, <2>2, RightStays
<1> QED BY <1>1, <1>2 DEF DiskInv

\* Archiving more of what is on disk, and sending more files to years that
\* are on disk, leaves what is known as it is.
LEMMA KnownStays ==
    ASSUME ArchiveShape, OrderInv, FilesInv, KnownInv, FeedGrows,
           UNCHANGED <<disk, todo, table, folders>>,
           \A v \in archived' : v \in archived
               \/ (v \in DOMAIN feed /\ v \in LocalVersions(Archive!Partition(v))),
           \A y \in Archive!Years :
               Archive!InBucket(y)' => Archive!InBucket(y) \/ Known(y) # {}
    PROVE  KnownInv'
<1> SUFFICES ASSUME NEW y \in Archive!Years
             PROVE  /\ \A c \in Known(y)', w \in Of(Archive!Listed, y)' :
                          w < c => w \in Known(y)'
                    /\ y \in folders /\ Known(y)' # {} =>
                          \A w \in Of(Archive!Listed, y)' :
                             Archive!Year(feed'[w].day) = y - 1 => w \in Known(y)'
                    /\ Known(y)' # {} =>
                          Of(Archive!Listed \cap archived, y)' \subseteq Known(y)'
                    /\ y > 0 /\ Of(LocalVersions(y), y)' = {}
                           /\ Of(Waiting, y)' # {} =>
                          Of(Archive!Listed, y - 1)' \subseteq Known(y - 1)'
                    /\ Archive!InBucket(y)' /\ (\E z \in 0..y : Known(z)' # {})
                          => Known(y)' # {}
  BY DEF KnownInv
<1>1. /\ Known(y)' = Known(y) /\ Known(y) \subseteq DOMAIN feed
      /\ Of(LocalVersions(y), y)' = Of(LocalVersions(y), y)
      /\ Of(Waiting, y)' = Of(Waiting, y)
      /\ Waiting \subseteq DOMAIN feed
  BY SameFiles
<1>2. ASSUME NEW z, NEW w \in Of(Archive!Listed, z)'
      PROVE  /\ w \in DOMAIN feed => w \in Of(Archive!Listed, z) /\ feed'[w] = feed[w]
             /\ w \notin DOMAIN feed =>
                   /\ w \in DOMAIN feed' \ DOMAIN feed /\ Archive!Partition(w)' = z
                   /\ \A v \in DOMAIN feed : v < w /\ Archive!Partition(v) <= z
  <2>1. w \in Archive!Listed' /\ Archive!Partition(w)' = z BY DEF Of
  <2>2. w \in DOMAIN feed' BY <2>1 DEF Archive!Listed
  <2>3. CASE w \in DOMAIN feed
    BY <2>1, <2>3, OldSchedules DEF Of, FeedGrows
  <2>4. CASE w \notin DOMAIN feed
    BY <2>1, <2>2, <2>4, OldSchedules DEF FeedGrows
  <2> QED BY <2>3, <2>4
<1>3. DOMAIN feed \subseteq Nat /\ y \in Nat BY FeedFacts, YearsNat
<1>4. ASSUME NEW c \in Known(y), NEW w \in Of(Archive!Listed, y)', w < c
      PROVE  w \in Known(y)
  <2>1. w \in DOMAIN feed
    <3> SUFFICES ASSUME w \notin DOMAIN feed PROVE FALSE OBVIOUS
    <3>1. c < w /\ c \in Nat /\ w \in Nat
      BY <1>1, <1>2, <1>3 DEF FeedGrows
    <3> QED BY <1>4, <3>1
  <2> QED BY <1>2, <1>4, <2>1 DEF KnownInv
<1>5. ASSUME y \in folders, Known(y) # {}, NEW w \in Of(Archive!Listed, y)',
             Archive!Year(feed'[w].day) = y - 1
      PROVE  w \in Known(y)
  <2>1. w \in DOMAIN feed
    <3> SUFFICES ASSUME w \notin DOMAIN feed PROVE FALSE OBVIOUS
    <3>1. PICK u \in DOMAIN feed : Archive!Year(feed[u].day) = y
      BY <1>5 DEF FilesInv, PublishedIn
    <3>2. /\ feed[u].day \in Nat /\ feed'[w].day \in Nat
          /\ feed[u].day <= feed'[w].day
      BY <1>2, VersionDays DEF FeedGrows
    <3>3. Archive!Year(feed[u].day) <= Archive!Year(feed'[w].day)
      BY <3>2, LaterDays
    <3> QED BY <1>3, <1>5, <3>1, <3>3
  <2> QED BY <1>2, <1>5, <2>1 DEF KnownInv
<1>6. ASSUME Known(y) # {}, NEW v \in Of(Archive!Listed \cap archived, y)'
      PROVE  v \in Known(y)
  <2>1. v \in Of(Archive!Listed, y)' /\ v \in archived' BY DEF Of
  <2>2. v \in DOMAIN feed BY <2>1 DEF ArchiveShape
  <2>3. v \in Of(Archive!Listed, y) BY <1>2, <2>1, <2>2
  <2>4. CASE v \in archived
    <3>1. v \in Of(Archive!Listed \cap archived, y) BY <2>3, <2>4 DEF Of
    <3> QED BY <1>6, <3>1 DEF KnownInv
  <2>5. CASE v \in LocalVersions(Archive!Partition(v))
    BY <2>3, <2>5 DEF Known, Of
  <2> QED BY <2>1, <2>4, <2>5
<1>7. ASSUME y > 0, Of(LocalVersions(y), y) = {}, Of(Waiting, y) # {},
             NEW w \in Of(Archive!Listed, y - 1)'
      PROVE  w \in Known(y - 1)'
  <2>1. w \in DOMAIN feed
    <3> SUFFICES ASSUME w \notin DOMAIN feed PROVE FALSE OBVIOUS
    <3>1. PICK x \in Waiting : Archive!Partition(x) = y BY <1>7 DEF Of
    <3> QED BY <1>1, <1>2, <1>3, <3>1
  <2>2. w \in Known(y - 1) BY <1>2, <1>7, <2>1 DEF KnownInv
  <2>3. y - 1 \in Archive!Years BY <1>3, <1>7, YearsNat
  <2> QED BY <2>2, <2>3, SameFiles
<1>8. ASSUME Archive!InBucket(y)', NEW z \in 0..y, Known(z)' # {}
      PROVE  Known(y) # {}
  <2>1. z \in Archive!Years BY <1>3, YearsNat
  <2>2. Known(z) # {} BY <1>8, <2>1, SameFiles
  <2> QED BY <1>8, <2>2 DEF KnownInv
<1> QED BY <1>1, <1>4, <1>5, <1>6, <1>7, <1>8

LEMMA HoldsStays ==
    ASSUME ArchiveShape, FilesInv, FeedGrows, spoiled \subseteq spoiled',
           UNCHANGED <<bucket, archived>>,
           NEW y \in Archive!Years, NEW M \in SUBSET Of(DOMAIN feed, y),
               Holds(y, M),
           \A t \in Archive!TableSet : Sent(y, t) => Sent(y, t)'
    PROVE  M \in SUBSET Of(DOMAIN feed, y)' /\ Holds(y, M)'
<1>1. M \in SUBSET Of(DOMAIN feed, y)'
  BY OldSchedules DEF Of, FeedGrows
<1>2. Of(Archive!Listed \cap archived, y)' \subseteq M
  <2> SUFFICES ASSUME NEW v \in Of(Archive!Listed \cap archived, y)' PROVE v \in M
    OBVIOUS
  <2>1. v \in Archive!Listed' /\ v \in archived /\ Archive!Partition(v)' = y
    BY DEF Of
  <2>2. v \in DOMAIN feed BY <2>1 DEF ArchiveShape
  <2>3. v \in Archive!Listed /\ Archive!Partition(v) = y BY <2>1, <2>2, OldSchedules
  <2> QED BY <2>1, <2>3 DEF Holds, Of
<1>3. Of(archived, y)' = Of(archived, y) BY OldSchedules DEF Of, ArchiveShape
<1>4. BucketVersions(y) \subseteq DOMAIN feed BY DEF FilesInv
<1>5. Of(BucketVersions(y), y)' = Of(BucketVersions(y), y)
  <2>1. BucketVersions(y)' = BucketVersions(y) BY DEF BucketVersions, Recorded
  <2> QED BY <1>4, <2>1, OldSchedules DEF Of
<1>6. ASSUME NEW t \in Archive!TableSet, ~Sent(y, t)',
             NEW rows, rows = RowsOf(bucket[y][t])
      PROVE  Right(rows, t, y, M)'
  <2>1. Right(rows, t, y, M) BY <1>6 DEF Holds
  <2> QED BY <2>1, YearsNat, RightStays
<1>7. ASSUME NEW t \in Archive!TableSet, ~Sent(y, t)', t = "feed_info"
      PROVE  M = Of(BucketVersions(y), y)
  BY <1>7 DEF Holds
<1>8. (Of(archived, y) # {} => M # {}) BY DEF Holds
<1> QED BY <1>1, <1>2, <1>3, <1>5, <1>6, <1>7, <1>8 DEF Holds

\* The files of the bucket stay right in steps that do not upload.
LEMMA BucketStays ==
    ASSUME ArchiveShape, FilesInv, BucketInv, FeedGrows, spoiled \subseteq spoiled',
           UNCHANGED <<bucket, archived>>,
           \/ compressStep # "upload" /\ compressStep' # "upload"
           \/ UNCHANGED <<disk, compressed, sending, compressStep>>
    PROVE  BucketInv'
<1>1. CASE compressStep # "upload" /\ compressStep' # "upload"
  <2>1. ASSUME NEW y \in Archive!Years \ spoiled'
        PROVE  \E M \in SUBSET Of(DOMAIN feed, y)' : Holds(y, M)'
    <3>1. PICK M \in SUBSET Of(DOMAIN feed, y) : Holds(y, M) BY DEF BucketInv
    <3>2. \A t : ~Sent(y, t) BY <1>1 DEF Sent
    <3> QED BY <3>1, <3>2, HoldsStays
  <2> QED BY <1>1, <2>1 DEF BucketInv, Sent
<1>2. CASE UNCHANGED <<disk, compressed, sending, compressStep>>
  <2>1. Archive!Prepared' = Archive!Prepared
    BY <1>2 DEF Archive!Prepared, FeedGrows, ArchiveShape
  <2>2. \A y, t : Sent(y, t)' = Sent(y, t) BY <1>2, <2>1 DEF Sent
  <2>3. ASSUME NEW y \in Archive!Years \ spoiled'
        PROVE  \E M \in SUBSET Of(DOMAIN feed, y)' : Holds(y, M)'
    <3>1. PICK M \in SUBSET Of(DOMAIN feed, y) : Holds(y, M) BY DEF BucketInv
    <3> QED BY <2>2, <3>1, HoldsStays
  <2> QED BY <1>2, <2>1, <2>2, <2>3 DEF BucketInv
<1> QED BY <1>1, <1>2

LEMMA ListedStays ==
    ASSUME ArchiveShape, FilesInv, ListedInv, FeedGrows, UNCHANGED bucket
    PROVE  ListedInv'
<1> SUFFICES ASSUME NEW y \in Archive!Years, NEW c \in Of(BucketVersions(y), y)',
                    NEW w \in Of(Archive!Listed, y)',
                    w < c \/ Archive!Year(feed'[w].day) = y - 1
             PROVE  w \in BucketVersions(y)'
  BY DEF ListedInv
<1>1. BucketVersions(y)' = BucketVersions(y)
          /\ BucketVersions(y) \subseteq DOMAIN feed
  BY DEF BucketVersions, Recorded, FilesInv
<1>2. c \in DOMAIN feed /\ c \in Of(BucketVersions(y), y)
  BY <1>1, OldSchedules DEF Of
<1>3. w \in Archive!Listed' /\ Archive!Partition(w)' = y /\ w \in DOMAIN feed'
  BY DEF Of, Archive!Listed
<1>4. w \in DOMAIN feed
  <2> SUFFICES ASSUME w \notin DOMAIN feed PROVE FALSE OBVIOUS
  <2>1. c < w /\ c \in Nat /\ w \in Nat /\ y \in Nat
    BY <1>2, <1>3, FeedFacts, YearsNat DEF FeedGrows
  <2>2. PICK u \in DOMAIN feed : Archive!Year(feed[u].day) = y
    <3>1. Archive!InBucket(y)
      <4>1. bucket[y]["feed_info"] # Missing
        BY <1>2 DEF Of, BucketVersions, Recorded, RowsOf
      <4> QED BY <4>1, FeedInfoTable DEF Archive!InBucket
    <3> QED BY <3>1 DEF FilesInv, PublishedIn
  <2>3. /\ feed[u].day \in Nat /\ feed'[w].day \in Nat
        /\ feed[u].day <= feed'[w].day
    BY <1>3, VersionDays DEF FeedGrows
  <2>4. Archive!Year(feed[u].day) <= Archive!Year(feed'[w].day) BY <2>3, LaterDays
  <2> QED BY <2>1, <2>2, <2>4
<1>5. w \in Of(Archive!Listed, y) /\ feed'[w] = feed[w]
  BY <1>3, <1>4, OldSchedules DEF Of, FeedGrows
<1> QED BY <1>1, <1>2, <1>5 DEF ListedInv

(***************************************************************************)
(* CompressGtfs: the steps                                                 *)
(***************************************************************************)
ArchiveInv ==
    /\ ArchiveShape /\ OrderInv /\ LoopInv /\ FilesInv /\ KnownInv /\ ListedInv
    /\ DiskInv /\ BucketInv

LEMMA PublishGrows ==
    ASSUME ArchiveInv, NEW day \in 0..LastDay, NEW rs \in SUBSET Records,
           Archive!Publish(day, rs)
    PROVE  /\ FeedGrows
           /\ \A v, w \in DOMAIN feed' : v <= w => feed'[v].day <= feed'[w].day
<1> DEFINE e == [day |-> day, records |-> rs]
           R == [day : 0..LastDay, records : SUBSET Records]
<1>1. feed' = Append(feed, e) /\ feed \in Seq(R)
  BY DEF Archive!Publish, ArchiveInv, ArchiveShape
<1>2. \A v \in DOMAIN feed : feed[v].day <= day BY DEF Archive!Publish
<1>3. /\ DOMAIN feed = 1..Len(feed) /\ Len(feed) \in Nat
      /\ \A v \in DOMAIN feed : feed[v].day \in Nat
  BY FeedFacts, VersionDays DEF ArchiveInv
<1>4. /\ DOMAIN feed' = 1..(Len(feed) + 1)
      /\ \A v \in DOMAIN feed : feed'[v] = feed[v]
      /\ feed'[Len(feed) + 1] = e
  <2> HIDE DEF e, R
  <2> QED BY <1>1, <1>3
<1>5. e.day = day /\ day \in Nat BY ExportsAssumption
<1> HIDE DEF e
<1>6. FeedGrows
  <2>1. \A n \in DOMAIN feed' \ DOMAIN feed : n = Len(feed) + 1 BY <1>3, <1>4
  <2>2. \A v \in DOMAIN feed : v < Len(feed) + 1 BY <1>3
  <2> QED BY <1>2, <1>3, <1>4, <1>5, <2>1, <2>2 DEF FeedGrows
<1>7. ASSUME NEW v \in DOMAIN feed', NEW w \in DOMAIN feed', v <= w
      PROVE  feed'[v].day <= feed'[w].day
  <2>1. CASE w = Len(feed) + 1
    BY <1>2, <1>3, <1>4, <1>5, <2>1
  <2>2. CASE w # Len(feed) + 1
    BY <1>3, <1>4, <1>7, <2>2 DEF ArchiveInv, OrderInv
  <2> QED BY <2>1, <2>2
<1> QED BY <1>6, <1>7

LEMMA FilesStay ==
    ASSUME ArchiveShape, FilesInv, FeedGrows,
           UNCHANGED <<disk, bucket, todo, table, folders>>
    PROVE  FilesInv'
<1> SUFFICES ASSUME NEW y \in Archive!Years
             PROVE  /\ \A c \in LocalVersions(y)' \cup BucketVersions(y)' :
                          c \in DOMAIN feed' /\ Archive!Partition(c)' <= y
                    /\ disk'[y]["feed_info"] # Missing =>
                          Of(LocalVersions(y), y)' # {}
                    /\ bucket'[y]["feed_info"] # Missing =>
                          Of(BucketVersions(y), y)' # {}
                    /\ \A t \in Archive!TableSet : disk'[y][t] # Missing
                           => y \in folders'
                    /\ y \in folders' => PublishedIn(y)'
                    /\ Archive!InBucket(y)' =>
                          PublishedIn(y)' /\ Of(DOMAIN feed, y)' # {}
  BY DEF FilesInv
<1>1. LocalVersions(y)' = LocalVersions(y) /\ BucketVersions(y)' = BucketVersions(y)
  BY DEF LocalVersions, BucketVersions, Recorded
<1>2. \A c \in LocalVersions(y) \cup BucketVersions(y) :
         c \in DOMAIN feed /\ Archive!Partition(c) <= y
  BY DEF FilesInv
<1>3. \A c \in LocalVersions(y) \cup BucketVersions(y) :
         c \in DOMAIN feed' /\ Archive!Partition(c)' <= y
  BY <1>2, OldSchedules DEF FeedGrows
<1>4. /\ Of(LocalVersions(y), y)' = Of(LocalVersions(y), y)
      /\ Of(BucketVersions(y), y)' = Of(BucketVersions(y), y)
      /\ Of(DOMAIN feed, y) \subseteq Of(DOMAIN feed, y)'
  BY <1>1, <1>2, OldSchedules DEF Of, FeedGrows
<1>5. Archive!InBucket(y)' = Archive!InBucket(y) BY DEF Archive!InBucket
<1> QED BY <1>1, <1>3, <1>4, <1>5, OldSchedules DEF FilesInv

LEMMA ArchivePublishes ==
    ASSUME ArchiveInv, NEW day \in 0..LastDay, NEW rs \in SUBSET Records,
           Archive!Publish(day, rs)
    PROVE  ArchiveInv'
<1>1. UNCHANGED <<compressStep, todo, table, folders, disk, bucket, sending,
                  compressed, archived, spoiled>>
  BY DEF Archive!Publish
<1>2. /\ ArchiveShape /\ OrderInv /\ LoopInv /\ FilesInv /\ KnownInv /\ ListedInv
      /\ DiskInv /\ BucketInv
  BY DEF ArchiveInv
<1>3. FeedGrows BY PublishGrows
<1>4. ArchiveShape' BY <1>2, ArchivePublish
<1>5. OrderInv'
  <2>1. \A y \in Archive!Years : LocalVersions(y)' = LocalVersions(y)
    BY <1>1 DEF LocalVersions, Recorded
  <2>2. Waiting' = Waiting BY <1>1 DEF Waiting
  <2> QED BY <1>1, <1>2, <2>1, <2>2, PublishGrows DEF OrderInv
<1>6. LoopInv'
  <2>1. \A y \in Archive!Years : LocalVersions(y)' = LocalVersions(y)
    BY <1>1 DEF LocalVersions, Recorded
  <2>2. compressed \cup Waiting \subseteq DOMAIN feed /\ Waiting' = Waiting
    BY <1>1, <1>2, <1>3, SameFiles DEF ArchiveShape
  <2>3. \A v \in compressed \cup Waiting :
           /\ Archive!Partition(v)' = Archive!Partition(v) /\ feed'[v] = feed[v]
           /\ Archive!Partition(v) \in Archive!Years
    BY <1>2, <1>3, <2>2, OldSchedules, VersionFacts DEF FeedGrows
  <2>4. Archive!Prepared' = Archive!Prepared
    BY <1>1, <1>2, <1>3 DEF Archive!Prepared, FeedGrows, ArchiveShape
  <2>5. \A v \in compressed :
            v \in LocalVersions(Archive!Partition(v)) BY <1>2 DEF LoopInv
  <2>6. \A v \in compressed' : v \in LocalVersions(Archive!Partition(v))'
    <3> SUFFICES ASSUME NEW v \in compressed
                 PROVE  v \in LocalVersions(Archive!Partition(v))'
      BY <1>1
    <3>1. disk'[Archive!Partition(v)'] = disk[Archive!Partition(v)] BY <1>1, <2>3
    <3>2. v \in LocalVersions(Archive!Partition(v)) BY <2>5
    <3> QED BY <3>1, <3>2 DEF LocalVersions, Recorded
  <2> QED BY <1>1, <1>2, <2>2, <2>3, <2>4, <2>6 DEF LoopInv
<1>7. FilesInv' BY <1>1, <1>2, <1>3, FilesStay
<1>8. KnownInv'
  <2>1. \A y \in Archive!Years :
           Archive!InBucket(y)' => Archive!InBucket(y) \/ Known(y) # {}
    BY <1>1 DEF Archive!InBucket
  <2>2. UNCHANGED <<disk, todo, table, folders>> BY <1>1
  <2>3. \A v \in archived' : v \in archived
            \/ (v \in DOMAIN feed /\ v \in LocalVersions(Archive!Partition(v)))
    BY <1>1
  <2> QED BY <1>2, <1>3, <2>1, <2>2, <2>3, KnownStays
<1>9. ListedInv' BY <1>1, <1>2, <1>3, ListedStays
<1>10. DiskInv' BY <1>1, <1>2, <1>3, DiskStays
<1>11. BucketInv' BY <1>1, <1>2, <1>3, BucketStays
<1> QED BY <1>4, <1>5, <1>6, <1>7, <1>8, <1>9, <1>10, <1>11 DEF ArchiveInv

LEMMA ArchiveRestartKeeps ==
    ASSUME ArchiveInv, Archive!Restart, spoiled \subseteq spoiled'
    PROVE  /\ OrderInv' /\ LoopInv' /\ FilesInv' /\ KnownInv' /\ ListedInv'
           /\ DiskInv'
<1>1. /\ ArchiveShape /\ OrderInv /\ FilesInv /\ KnownInv /\ ListedInv
  BY DEF ArchiveInv
<1>2. /\ compressStep' = "idle" /\ todo' = <<>> /\ table' = 1 /\ sending' = {}
      /\ folders' = {} /\ disk' = Archive!NoFiles /\ compressed' = {}
      /\ feed' = feed /\ bucket' = bucket /\ archived' = archived
  BY DEF Archive!Restart
<1>3. FeedGrows BY <1>2 DEF FeedGrows
<1>4. \A y \in Archive!Years, t \in Archive!TableSet : disk'[y][t] = Missing
  BY <1>2 DEF Archive!NoFiles
<1>5. \A y \in Archive!Years : LocalVersions(y)' = {}
  BY <1>4, FeedInfoTable DEF LocalVersions, Recorded, RowsOf
<1>6. Waiting' = {} /\ InHand' = {} BY <1>2 DEF Waiting, InHand
<1>7. \A y \in Archive!Years : Known(y)' = {} /\ \A t : MergedOn(y, t)' = {}
  BY <1>5, <1>6 DEF Known, MergedOn, Of
<1>8. OrderInv'
  <2>1. DOMAIN todo' = {} BY <1>2
  <2> QED BY <1>1, <1>2, <1>5, <1>6, <2>1 DEF OrderInv
<1>9. LoopInv' BY <1>2, <1>6 DEF LoopInv
<1>10. \A y \in Archive!Years : BucketVersions(y)' = BucketVersions(y)
  BY <1>2 DEF BucketVersions, Recorded
<1>11. FilesInv'
  <2> SUFFICES ASSUME NEW y \in Archive!Years
               PROVE  /\ \A c \in BucketVersions(y) :
                            c \in DOMAIN feed' /\ Archive!Partition(c)' <= y
                      /\ bucket'[y]["feed_info"] # Missing =>
                            Of(BucketVersions(y), y)' # {}
                      /\ Archive!InBucket(y)' =>
                            PublishedIn(y)' /\ Of(DOMAIN feed, y)' # {}
    BY <1>2, <1>4, <1>5, <1>10, FeedInfoTable DEF FilesInv
  <2>1. \A c \in BucketVersions(y) : c \in DOMAIN feed /\ Archive!Partition(c) <= y
    BY <1>1 DEF FilesInv
  <2>2. Archive!InBucket(y)' = Archive!InBucket(y) BY <1>2 DEF Archive!InBucket
  <2>3. /\ Of(BucketVersions(y), y)' = Of(BucketVersions(y), y)
        /\ Of(DOMAIN feed, y)' = Of(DOMAIN feed, y)
    BY <1>1, <1>2, <1>3, <1>10, <2>1, OldSchedules DEF Of
  <2> QED BY <1>1, <1>2, <1>3, <2>1, <2>2, <2>3, OldSchedules DEF FilesInv
<1>12. KnownInv'
  <2>1. \A y \in Archive!Years : \A z \in 0..y : z \in Archive!Years BY YearsNat
  <2>2. \A y \in Archive!Years : Of(Waiting, y)' = {} BY <1>6 DEF Of
  <2> QED BY <1>2, <1>7, <2>1, <2>2 DEF KnownInv
<1>13. ListedInv' BY <1>1, <1>2, <1>3, ListedStays
<1>14. DiskInv'
  <2>1. ASSUME NEW y \in Archive!Years, NEW t PROVE Right({}, t, y, {})'
    <3>1. Right({}, t, y, {}) BY YearsNat, RightNothing
    <3>2. {} \in SUBSET Of(DOMAIN feed, y) /\ y \in Nat BY YearsNat
    <3> QED BY <1>1, <1>3, <3>1, <3>2, RightStays
  <2>2. \A y \in Archive!Years, t \in Archive!TableSet : RowsOf(disk'[y][t]) = {}
    BY <1>4 DEF RowsOf
  <2> QED BY <1>4, <1>7, <2>1, <2>2 DEF DiskInv
<1> QED BY <1>8, <1>9, <1>11, <1>12, <1>13, <1>14

\* The files of a year, once none of them is left to upload, have the
\* schedules of the loop as well.
LEMMA BucketSettles ==
    ASSUME ArchiveInv, compressStep = "upload", NEW y \in Archive!Years \ spoiled,
           \A t \in Archive!TableSet : <<y, t>> \notin sending
    PROVE  \E M \in SUBSET Of(DOMAIN feed, y) :
              /\ Of(Archive!Listed \cap (archived \cup compressed), y) \subseteq M
              /\ Of(archived \cup compressed, y) # {} => M # {}
              /\ \A t \in Archive!TableSet : \A rows :
                    rows = RowsOf(bucket[y][t]) => Right(rows, t, y, M)
              /\ M = Of(BucketVersions(y), y)
<1>1. /\ ArchiveShape /\ LoopInv /\ FilesInv /\ KnownInv /\ DiskInv /\ BucketInv
  BY DEF ArchiveInv
<1>2. todo = <<>> BY <1>1 DEF LoopInv
<1>3. Waiting = {} /\ InHand = {} BY <1>2 DEF Waiting, InHand
<1>4. \A t : MergedOn(y, t) = Of(LocalVersions(y), y)
  BY <1>3 DEF MergedOn, Of
<1>5. Known(y) = Of(LocalVersions(y), y) BY <1>3 DEF Known
<1>6. \A v \in compressed : Archive!Partition(v) = y => v \in LocalVersions(y)
  BY <1>1 DEF LoopInv
<1>7. CASE y \in {f[1] : f \in Archive!Prepared}
  <2>1. PICK f \in Archive!Prepared : f[1] = y BY <1>7
  <2>2. /\ f[1] \in {Archive!Year(feed[v].day) : v \in compressed}
        /\ f[2] \in Archive!TableSet /\ disk[f[1]][f[2]] # Missing
    BY DEF Archive!Prepared
  <2>3. \A t \in Archive!TableSet : disk[y][t] # Missing
            => <<y, t>> \in Archive!Prepared
    BY <2>1, <2>2 DEF Archive!Prepared
  <2>4. \A t \in Archive!TableSet : RowsOf(bucket[y][t]) = RowsOf(disk[y][t])
    <3> SUFFICES ASSUME NEW t \in Archive!TableSet
                 PROVE  RowsOf(bucket[y][t]) = RowsOf(disk[y][t])
      OBVIOUS
    <3>1. CASE disk[y][t] = Missing
      <4>1. bucket[y][t] = Missing BY <1>1, <1>7, <3>1 DEF BucketInv
      <4> QED BY <3>1, <4>1
    <3>2. CASE disk[y][t] # Missing
      <4>1. Sent(y, t) BY <2>3, <3>2 DEF Sent
      <4>2. bucket[y][t] = disk[y][t] BY <1>1, <4>1 DEF BucketInv
      <4> QED BY <4>2
    <3> QED BY <3>1, <3>2
  <2>5. Known(y) # {} BY <1>1, <1>4, <1>5, <2>1, <2>2 DEF DiskInv
  <2>6. Of(Archive!Listed \cap archived, y) \subseteq Known(y)
    BY <1>1, <2>5 DEF KnownInv
  <2>7. Of(compressed, y) \subseteq Known(y) BY <1>5, <1>6 DEF Of
  <2>8. Of(Archive!Listed \cap (archived \cup compressed), y) \subseteq Known(y)
    BY <2>6, <2>7 DEF Of
  <2>9. Known(y) \in SUBSET Of(DOMAIN feed, y)
    BY <1>1, <1>5 DEF FilesInv, Of
  <2>10. ASSUME NEW t \in Archive!TableSet, NEW rows, rows = RowsOf(bucket[y][t])
         PROVE  Right(rows, t, y, Known(y))
    <3>1. rows = RowsOf(disk[y][t]) /\ Known(y) = MergedOn(y, t)
      BY <1>4, <1>5, <2>4, <2>10
    <3> QED BY <1>1, <3>1 DEF DiskInv
  <2>11. Known(y) = Of(BucketVersions(y), y)
    <3>1. BucketVersions(y) = LocalVersions(y)
      BY <2>4, FeedInfoTable DEF BucketVersions, LocalVersions, Recorded
    <3> QED BY <1>5, <3>1
  <2> QED BY <2>5, <2>8, <2>9, <2>10, <2>11
<1>8. CASE y \notin {f[1] : f \in Archive!Prepared}
  <2>1. \A t : <<y, t>> \notin Archive!Prepared
    <3> SUFFICES ASSUME NEW t, <<y, t>> \in Archive!Prepared PROVE FALSE OBVIOUS
    <3>1. <<y, t>>[1] = y OBVIOUS
    <3> QED BY <1>8, <3>1
  <2>2. \A t : ~Sent(y, t) BY <2>1 DEF Sent
  <2>3. PICK M \in SUBSET Of(DOMAIN feed, y) : Holds(y, M) BY <1>1 DEF BucketInv
  <2>4. Of(compressed, y) = {}
    <3> SUFFICES ASSUME NEW v \in compressed, Archive!Partition(v) = y PROVE FALSE
      BY DEF Of
    <3>1. v \in LocalVersions(y) BY <1>6
    <3>2. disk[y]["feed_info"] # Missing
      BY <3>1 DEF LocalVersions, Recorded, RowsOf
    <3>3. y \in folders BY <1>1, <3>2, FeedInfoTable DEF FilesInv
    <3>4. PICK w \in compressed : Archive!Year(feed[w].day) = y
      BY <1>1, <1>3, <3>3 DEF LoopInv
    <3>5. <<y, "feed_info">> \in Archive!Prepared
      BY <3>2, <3>4, FeedInfoTable DEF Archive!Prepared
    <3> QED BY <2>1, <3>5
  <2>5. /\ Of(Archive!Listed \cap (archived \cup compressed), y)
              = Of(Archive!Listed \cap archived, y)
        /\ Of(archived \cup compressed, y) = Of(archived, y)
    BY <2>4 DEF Of
  <2> QED BY <2>2, <2>3, <2>5, FeedInfoTable DEF Holds
<1> QED BY <1>7, <1>8

LEMMA SettledStays ==
    ASSUME ArchiveInv, compressStep = "upload", compressStep' # "upload",
           UNCHANGED <<feed, bucket>>, spoiled \subseteq spoiled',
           archived' \subseteq archived \cup compressed,
           NEW y \in Archive!Years \ spoiled',
           \A t \in Archive!TableSet : <<y, t>> \notin sending
    PROVE  \E M \in SUBSET Of(DOMAIN feed, y)' : Holds(y, M)'
<1>1. PICK M \in SUBSET Of(DOMAIN feed, y) :
         /\ Of(Archive!Listed \cap (archived \cup compressed), y) \subseteq M
         /\ Of(archived \cup compressed, y) # {} => M # {}
         /\ \A t \in Archive!TableSet : \A rows :
               rows = RowsOf(bucket[y][t]) => Right(rows, t, y, M)
         /\ M = Of(BucketVersions(y), y)
  BY BucketSettles
<1>2. ArchiveShape /\ FilesInv /\ FeedGrows /\ y \in Nat
  BY YearsNat DEF ArchiveInv, FeedGrows
<1>3. \A v : Archive!Partition(v)' = Archive!Partition(v)
  BY DEF Archive!Partition, Archive!ActiveFrom
<1>4. Archive!Listed' = Archive!Listed BY DEF Archive!Listed
<1>5. Of(DOMAIN feed, y)' = Of(DOMAIN feed, y) BY <1>3 DEF Of
<1>6. Of(Archive!Listed \cap archived, y)' \subseteq M BY <1>1, <1>3, <1>4 DEF Of
<1>7. Of(archived, y)' # {} => M # {} BY <1>1, <1>3 DEF Of
<1>8. Of(BucketVersions(y), y)' = M
  BY <1>1, <1>3 DEF Of, BucketVersions, Recorded
<1>9. ASSUME NEW t \in Archive!TableSet, NEW rows, rows = RowsOf(bucket[y][t])
      PROVE  Right(rows, t, y, M)'
  <2>1. Right(rows, t, y, M) BY <1>1, <1>9
  <2> QED BY <1>2, <2>1, RightStays
<1> QED BY <1>5, <1>6, <1>7, <1>8, <1>9 DEF Holds

LEMMA ArchiveRestarts ==
    ASSUME ArchiveInv, Archive!NoFolder \/ Archive!Crash
    PROVE  ArchiveInv'
<1>1. /\ ArchiveShape /\ LoopInv /\ FilesInv /\ BucketInv
  BY DEF ArchiveInv
<1>2. /\ Archive!Restart /\ spoiled \subseteq spoiled' /\ compressStep' = "idle"
      /\ UNCHANGED <<feed, bucket, archived>>
  BY DEF Archive!NoFolder, Archive!Crash, Archive!Restart
<1>3. FeedGrows BY <1>2 DEF FeedGrows
<1>4. BucketInv'
  <2>1. CASE compressStep # "upload" BY <1>1, <1>2, <1>3, <2>1, BucketStays
  <2>2. CASE compressStep = "upload"
    <3>1. spoiled' = spoiled \cup IF sending = Archive!Prepared THEN {}
                                  ELSE {f[1] : f \in sending}
      BY <2>2 DEF Archive!NoFolder, Archive!Crash
    <3>2. ASSUME NEW y \in Archive!Years \ spoiled'
          PROVE  \E M \in SUBSET Of(DOMAIN feed, y)' : Holds(y, M)'
      <4>1. CASE sending = Archive!Prepared
        <5>1. PICK M \in SUBSET Of(DOMAIN feed, y) : Holds(y, M)
          BY <1>1, <1>2, <3>2 DEF BucketInv
        <5>2. \A t : ~Sent(y, t) BY <4>1 DEF Sent
        <5> QED BY <1>1, <1>2, <1>3, <5>1, <5>2, HoldsStays
      <4>2. CASE sending # Archive!Prepared
        <5>1. \A t \in Archive!TableSet : <<y, t>> \notin sending
          <6> SUFFICES ASSUME NEW t \in Archive!TableSet, <<y, t>> \in sending
                              PROVE FALSE
            OBVIOUS
          <6>1. <<y, t>>[1] = y OBVIOUS
          <6> QED BY <3>1, <3>2, <4>2, <6>1
        <5> QED BY <1>2, <2>2, <3>2, <5>1, SettledStays
      <4> QED BY <4>1, <4>2
    <3> QED BY <1>2, <3>2 DEF BucketInv, Sent
  <2> QED BY <2>1, <2>2
<1>5. ArchiveShape' BY <1>1, ArchiveEnds
<1> QED BY <1>2, <1>4, <1>5, ArchiveRestartKeeps DEF ArchiveInv

\* Steps that leave the local files as they are.
LEMMA UploadKeeps ==
    ASSUME ArchiveInv,
           UNCHANGED <<feed, todo, table, folders, disk>>,
               spoiled \subseteq spoiled'
    PROVE  FeedGrows /\ OrderInv' /\ DiskInv'
<1>1. FeedGrows /\ ArchiveShape /\ FilesInv /\ DiskInv /\ OrderInv
  BY DEF ArchiveInv, FeedGrows
<1>2. OrderInv' BY <1>1 DEF OrderInv, LocalVersions, Recorded, Waiting
<1> QED BY <1>1, <1>2, DiskStays

LEMMA ArchiveStartsUpload ==
    ASSUME ArchiveInv, Archive!StartUpload
    PROVE  ArchiveInv'
<1>1. /\ ArchiveShape /\ OrderInv /\ LoopInv /\ FilesInv /\ KnownInv /\ ListedInv
      /\ DiskInv /\ BucketInv
  BY DEF ArchiveInv
<1>2. /\ compressStep = "compress" /\ todo = <<>> /\ compressStep' = "upload"
      /\ sending' = Archive!Prepared /\ spoiled' = spoiled \cup Archive!Forsaken
      /\ UNCHANGED <<feed, todo, table, folders, disk, bucket, compressed,
                     archived>>
  BY DEF Archive!StartUpload
<1>3. ArchiveShape' BY <1>1, ArchiveUploads
<1>4. FeedGrows /\ OrderInv' /\ DiskInv' BY <1>2, UploadKeeps
<1>5. Archive!Prepared' = Archive!Prepared BY <1>2 DEF Archive!Prepared
<1>6. LoopInv'
  <2>1. /\ \A v : Archive!Partition(v)' = Archive!Partition(v)
        /\ \A y : LocalVersions(y)' = LocalVersions(y)
        /\ Waiting' = Waiting
    BY <1>2 DEF Archive!Partition, Archive!ActiveFrom, LocalVersions, Recorded,
        Waiting
  <2>2. \A v \in compressed : v \in LocalVersions(Archive!Partition(v))'
    <3> SUFFICES ASSUME NEW v \in compressed
                 PROVE  v \in LocalVersions(Archive!Partition(v))'
      OBVIOUS
    <3>1. v \in LocalVersions(Archive!Partition(v)) BY <1>1 DEF LoopInv
    <3>2. disk'[Archive!Partition(v)'] = disk[Archive!Partition(v)]
      BY <1>2 DEF Archive!Partition, Archive!ActiveFrom
    <3> QED BY <3>1, <3>2 DEF LocalVersions, Recorded
  <2> QED BY <1>1, <1>2, <1>5, <2>1, <2>2 DEF LoopInv
<1>7. FilesInv' BY <1>1, <1>2, <1>4, FilesStay
<1>8. KnownInv'
  <2>1. \A y \in Archive!Years :
           Archive!InBucket(y)' => Archive!InBucket(y) \/ Known(y) # {}
    BY <1>2 DEF Archive!InBucket
  <2>2. UNCHANGED <<disk, todo, table, folders>> BY <1>2
  <2>3. \A v \in archived' : v \in archived
            \/ (v \in DOMAIN feed /\ v \in LocalVersions(Archive!Partition(v)))
    BY <1>2
  <2> QED BY <1>1, <1>4, <2>1, <2>2, <2>3, KnownStays
<1>9. ListedInv' BY <1>1, <1>2, <1>4, ListedStays
<1>10. BucketInv'
  <2>1. \A y, t : ~Sent(y, t)' BY <1>2, <1>5 DEF Sent
  <2>2. \A y, t : ~Sent(y, t) BY <1>2 DEF Sent
  <2> SUFFICES ASSUME NEW y \in Archive!Years \ spoiled'
               PROVE  /\ \E M \in SUBSET Of(DOMAIN feed, y)' : Holds(y, M)'
                      /\ y \in {f[1] : f \in Archive!Prepared} =>
                            \A t \in Archive!TableSet :
                               disk[y][t] = Missing => bucket[y][t] = Missing
    BY <1>2, <1>5, <2>1 DEF BucketInv
  <2>3. PICK M \in SUBSET Of(DOMAIN feed, y) : Holds(y, M)
    BY <1>1, <1>2 DEF BucketInv
  <2>4. M \in SUBSET Of(DOMAIN feed, y)' /\ Holds(y, M)'
    BY <1>1, <1>2, <1>4, <2>2, <2>3, HoldsStays
  <2>5. y \notin Archive!Forsaken BY <1>2
  <2> QED BY <2>4, <2>5 DEF Archive!Forsaken
<1> QED BY <1>3, <1>4, <1>6, <1>7, <1>8, <1>9, <1>10 DEF ArchiveInv

LEMMA ArchiveEndsLoop ==
    ASSUME ArchiveInv, Archive!EndLoop
    PROVE  ArchiveInv'
<1>1. /\ ArchiveShape /\ OrderInv /\ LoopInv /\ FilesInv /\ KnownInv /\ ListedInv
      /\ DiskInv /\ BucketInv
  BY DEF ArchiveInv
<1>2. /\ compressStep = "upload" /\ sending = {} /\ compressStep' = "idle"
      /\ archived' = archived \cup compressed /\ compressed' = {}
      /\ UNCHANGED <<feed, todo, table, folders, disk, bucket, sending, spoiled>>
  BY DEF Archive!EndLoop
<1>3. ArchiveShape' BY <1>1, ArchiveUploads
<1>4. FeedGrows /\ OrderInv' /\ DiskInv' BY <1>2, UploadKeeps
<1>5. todo = <<>> /\ Waiting = {} /\ Waiting' = {}
  BY <1>1, <1>2 DEF LoopInv, Waiting
<1>6. LoopInv' BY <1>1, <1>2, <1>5 DEF LoopInv
<1>7. FilesInv' BY <1>1, <1>2, <1>4, FilesStay
<1>8. KnownInv'
  <2>1. \A y \in Archive!Years :
           Archive!InBucket(y)' => Archive!InBucket(y) \/ Known(y) # {}
    BY <1>2 DEF Archive!InBucket
  <2>2. UNCHANGED <<disk, todo, table, folders>> BY <1>2
  <2>3. \A v \in archived' : v \in archived
            \/ (v \in DOMAIN feed /\ v \in LocalVersions(Archive!Partition(v)))
    BY <1>1, <1>2 DEF LoopInv, ArchiveShape
  <2> QED BY <1>1, <1>4, <2>1, <2>2, <2>3, KnownStays
<1>9. ListedInv' BY <1>1, <1>2, <1>4, ListedStays
<1>10. BucketInv'
  <2>1. ASSUME NEW y \in Archive!Years \ spoiled'
        PROVE  \E M \in SUBSET Of(DOMAIN feed, y)' : Holds(y, M)'
    <3>1. \A t \in Archive!TableSet : <<y, t>> \notin sending BY <1>2
    <3>2. compressStep' # "upload" /\ UNCHANGED <<feed, bucket>>
          /\ spoiled \subseteq spoiled'
                 /\ archived' \subseteq archived \cup compressed
      BY <1>2
    <3> QED BY <1>2, <2>1, <3>1, <3>2, SettledStays
  <2> QED BY <1>2, <2>1 DEF BucketInv, Sent
<1> QED BY <1>3, <1>4, <1>6, <1>7, <1>8, <1>9, <1>10 DEF ArchiveInv

LEMMA ArchiveUploadsFile ==
    ASSUME ArchiveInv, NEW year \in Archive!Years, NEW table0 \in Archive!TableSet,
           Archive!UploadFile(year, table0)
    PROVE  ArchiveInv'
<1>1. /\ ArchiveShape /\ OrderInv /\ LoopInv /\ FilesInv /\ KnownInv /\ ListedInv
      /\ DiskInv /\ BucketInv
  BY DEF ArchiveInv
<1> DEFINE file == <<year, table0>>
<1>2. /\ compressStep = "upload" /\ file \in sending /\ sending' = sending \ {file}
      /\ \/ /\ bucket' = Archive!Write(year, table0, disk[year][table0], bucket)
            /\ spoiled' = spoiled
         \/ bucket' = bucket /\ spoiled' = spoiled \cup {year}
      /\ UNCHANGED <<feed, compressStep, todo, table, folders, disk, compressed,
                     archived>>
  BY DEF Archive!UploadFile
<1>3. ArchiveShape' BY <1>1, ArchiveUploads
<1>4. FeedGrows /\ OrderInv' /\ DiskInv' BY <1>2, UploadKeeps
<1>5. /\ Archive!Prepared' = Archive!Prepared
      /\ \A v : Archive!Partition(v)' = Archive!Partition(v)
      /\ \A y : LocalVersions(y)' = LocalVersions(y)
      /\ \A y : PublishedIn(y)' = PublishedIn(y)
      /\ Waiting' = Waiting /\ Archive!Listed' = Archive!Listed
  BY <1>2 DEF Archive!Prepared, Archive!Partition, Archive!ActiveFrom,
              LocalVersions, Recorded, Waiting, PublishedIn, Archive!Listed
<1>6. file \in Archive!Prepared /\ disk[year][table0] # Missing
  <2>1. file \in Archive!Prepared BY <1>1, <1>2 DEF LoopInv
  <2> QED BY <2>1 DEF Archive!Prepared
<1>7. LoopInv'
  <2>1. \A v \in compressed : v \in LocalVersions(Archive!Partition(v))'
    <3> SUFFICES ASSUME NEW v \in compressed
                 PROVE  v \in LocalVersions(Archive!Partition(v))'
      OBVIOUS
    <3>1. v \in LocalVersions(Archive!Partition(v)) BY <1>1 DEF LoopInv
    <3>2. disk'[Archive!Partition(v)'] = disk[Archive!Partition(v)]
      BY <1>2 DEF Archive!Partition, Archive!ActiveFrom
    <3> QED BY <3>1, <3>2 DEF LocalVersions, Recorded
  <2> QED BY <1>1, <1>2, <1>5, <2>1 DEF LoopInv
<1>8. todo = <<>> /\ Waiting = {} /\ InHand = {}
  BY <1>1, <1>2 DEF LoopInv, Waiting, InHand
<1>9. Known(year) = Of(LocalVersions(year), year) /\ Known(year) # {}
  <2>1. MergedOn(year, table0) = Of(LocalVersions(year), year)
    BY <1>8 DEF MergedOn, Of
  <2>2. MergedOn(year, table0) # {} BY <1>1, <1>6 DEF DiskInv
  <2> QED BY <1>8, <2>1, <2>2 DEF Known
<1>10. \A y \in Archive!Years, t \in Archive!TableSet :
          bucket'[y][t] = bucket[y][t]
             \/ (y = year /\ t = table0 /\ bucket'[y][t] = disk[y][t])
  BY <1>1, <1>2 DEF Archive!Write, ArchiveShape, Folder
<1>11. \A y \in Archive!Years :
          BucketVersions(y)' = BucketVersions(y)
             \/ (y = year /\ BucketVersions(y)' = LocalVersions(y))
  BY <1>10, FeedInfoTable DEF BucketVersions, LocalVersions, Recorded
<1>12. FilesInv'
  <2> SUFFICES ASSUME NEW y \in Archive!Years
               PROVE  /\ \A c \in BucketVersions(y)' :
                            c \in DOMAIN feed /\ Archive!Partition(c) <= y
                      /\ bucket'[y]["feed_info"] # Missing =>
                            Of(BucketVersions(y), y)' # {}
                      /\ Archive!InBucket(y)' =>
                            PublishedIn(y) /\ Of(DOMAIN feed, y) # {}
    <3>1. \A z : /\ Of(LocalVersions(z), z)' = Of(LocalVersions(z), z)
                 /\ Of(DOMAIN feed, z)' = Of(DOMAIN feed, z)
      BY <1>2, <1>5 DEF Of
    <3> QED BY <1>1, <1>2, <1>5, <3>1 DEF FilesInv
  <2>1. \A c \in LocalVersions(y) \cup BucketVersions(y) :
           c \in DOMAIN feed /\ Archive!Partition(c) <= y
    BY <1>1 DEF FilesInv
  <2>2. \A c \in BucketVersions(y)' : c \in DOMAIN feed /\ Archive!Partition(c) <= y
    BY <1>11, <2>1
  <2>3. ASSUME bucket'[y]["feed_info"] # Missing
               PROVE Of(BucketVersions(y), y)' # {}
    <3>1. CASE bucket'[y]["feed_info"] = bucket[y]["feed_info"]
      <4>1. BucketVersions(y)' = BucketVersions(y)
        BY <3>1 DEF BucketVersions, Recorded
      <4>2. Of(BucketVersions(y), y) # {} BY <1>1, <2>3, <3>1 DEF FilesInv
      <4> QED BY <1>5, <4>1, <4>2 DEF Of
    <3>2. CASE y = year /\ bucket'[y]["feed_info"] = disk[y]["feed_info"]
      <4>1. BucketVersions(y)' = LocalVersions(y)
        BY <3>2 DEF BucketVersions, LocalVersions, Recorded
      <4>2. Of(LocalVersions(y), y) # {} BY <1>9, <3>2
      <4> QED BY <1>5, <4>1, <4>2 DEF Of
    <3> QED BY <1>10, <3>1, <3>2, FeedInfoTable
  <2>4. ASSUME Archive!InBucket(y)'
        PROVE  PublishedIn(y) /\ Of(DOMAIN feed, y) # {}
    <3>1. CASE Archive!InBucket(y) BY <1>1, <3>1 DEF FilesInv
    <3>2. CASE ~Archive!InBucket(y)
      <4>1. y = year BY <1>10, <2>4, <3>2 DEF Archive!InBucket
      <4>2. y \in folders BY <1>1, <1>6, <4>1 DEF FilesInv
      <4>3. Of(DOMAIN feed, y) # {} BY <1>9, <2>1, <4>1 DEF Of
      <4> QED BY <1>1, <4>2, <4>3 DEF FilesInv
    <3> QED BY <3>1, <3>2
  <2> QED BY <2>2, <2>3, <2>4
<1>13. KnownInv'
  <2>1. \A y \in Archive!Years :
           Archive!InBucket(y)' => Archive!InBucket(y) \/ Known(y) # {}
    BY <1>9, <1>10 DEF Archive!InBucket
  <2>2. UNCHANGED <<disk, todo, table, folders>> BY <1>2
  <2>3. \A v \in archived' : v \in archived
            \/ (v \in DOMAIN feed /\ v \in LocalVersions(Archive!Partition(v)))
    BY <1>2
  <2> QED BY <1>1, <1>4, <2>1, <2>2, <2>3, KnownStays
<1>14. ListedInv'
  <2> SUFFICES ASSUME NEW y \in Archive!Years, NEW c \in Of(BucketVersions(y), y)',
                      NEW w \in Of(Archive!Listed, y)',
                      w < c \/ Archive!Year(feed[w].day) = y - 1
               PROVE  w \in BucketVersions(y)'
    BY <1>2 DEF ListedInv
  <2>1. w \in Of(Archive!Listed, y) BY <1>5 DEF Of
  <2>2. CASE BucketVersions(y)' = BucketVersions(y)
    <3>1. c \in Of(BucketVersions(y), y) BY <1>5, <2>2 DEF Of
    <3> QED BY <1>1, <2>1, <2>2, <3>1 DEF ListedInv
  <2>3. CASE y = year /\ BucketVersions(y)' = LocalVersions(y)
    <3>1. c \in Known(y) BY <1>5, <1>9, <2>3 DEF Of
    <3>2. y \in folders BY <1>1, <1>6, <2>3 DEF FilesInv
    <3>3. w \in Known(y) BY <1>1, <2>1, <3>1, <3>2 DEF KnownInv
    <3> QED BY <1>9, <2>3, <3>3 DEF Of
  <2> QED BY <1>11, <2>2, <2>3
<1>15. BucketInv'
  <2> SUFFICES ASSUME NEW y \in Archive!Years, y \notin spoiled'
               PROVE  /\ \E M \in SUBSET Of(DOMAIN feed, y)' : Holds(y, M)'
                      /\ \A t \in Archive!TableSet :
                            Sent(y, t)' => bucket'[y][t] = disk[y][t]
                      /\ y \in {f[1] : f \in Archive!Prepared} =>
                            \A t \in Archive!TableSet :
                               disk[y][t] = Missing => bucket'[y][t] = Missing
    BY <1>2, <1>5 DEF BucketInv
  <2>1. y \notin spoiled BY <1>2
  <2>2. ASSUME NEW t \in Archive!TableSet
        PROVE  /\ Sent(y, t) => Sent(y, t)'
               /\ Sent(y, t)' => Sent(y, t) \/ (y = year /\ t = table0)
               /\ y = year /\ t = table0 => Sent(y, t)'
    BY <1>2, <1>5, <1>6 DEF Sent
  <2>3. ASSUME y = year PROVE bucket'[y][table0] = disk[y][table0]
    <3>1. spoiled' = spoiled BY <1>2, <2>3
    <3>2. bucket' = Archive!Write(year, table0, disk[year][table0], bucket)
      BY <1>2, <2>3
    <3> QED BY <1>1, <2>3, <3>2 DEF Archive!Write, ArchiveShape, Folder
  <2>4. \A t \in Archive!TableSet : Sent(y, t)' => bucket'[y][t] = disk[y][t]
    BY <1>1, <1>10, <2>1, <2>2, <2>3 DEF BucketInv
  <2>5. y \in {f[1] : f \in Archive!Prepared} =>
           \A t \in Archive!TableSet : disk[y][t] = Missing
               => bucket'[y][t] = Missing
    <3>1. y \in {f[1] : f \in Archive!Prepared} =>
             \A t \in Archive!TableSet : disk[y][t] = Missing
                 => bucket[y][t] = Missing
      BY <1>1, <1>2, <2>1 DEF BucketInv
    <3> QED BY <1>6, <1>10, <3>1
  <2>6. PICK M \in SUBSET Of(DOMAIN feed, y) : Holds(y, M)
    BY <1>1, <2>1 DEF BucketInv
  <2>7. M \in SUBSET Of(DOMAIN feed, y)' BY <1>2, <1>5 DEF Of
  <2>8. /\ Of(Archive!Listed \cap archived, y)' \subseteq M
        /\ Of(archived, y)' # {} => M # {}
    BY <1>2, <1>5, <2>6 DEF Holds, Of
  <2>9. ASSUME NEW t \in Archive!TableSet, ~Sent(y, t)'
        PROVE  /\ \A rows : rows = RowsOf(bucket'[y][t]) => Right(rows, t, y, M)'
               /\ t = "feed_info" => M = Of(BucketVersions(y), y)'
    <3>1. ~Sent(y, t) /\ bucket'[y][t] = bucket[y][t]
      BY <1>10, <2>2, <2>9
    <3>2. ASSUME NEW rows, rows = RowsOf(bucket[y][t]) PROVE Right(rows, t, y, M)'
      <4>1. Right(rows, t, y, M) BY <2>6, <3>1, <3>2 DEF Holds
      <4>2. y \in Nat /\ spoiled \subseteq spoiled' BY <1>2, YearsNat
      <4> QED BY <1>1, <1>4, <4>1, <4>2, RightStays
    <3>3. ASSUME t = "feed_info" PROVE M = Of(BucketVersions(y), y)'
      <4>1. M = Of(BucketVersions(y), y) BY <2>6, <3>1, <3>3 DEF Holds
      <4>2. BucketVersions(y)' = BucketVersions(y)
        BY <3>1, <3>3 DEF BucketVersions, Recorded
      <4> QED BY <1>5, <4>1, <4>2 DEF Of
    <3> QED BY <3>1, <3>2, <3>3
  <2>10. Holds(y, M)' BY <2>8, <2>9 DEF Holds
  <2> QED BY <2>4, <2>5, <2>7, <2>10
<1> QED BY <1>3, <1>4, <1>7, <1>12, <1>13, <1>14, <1>15 DEF ArchiveInv

(***************************************************************************)
(* CompressGtfs: selection                                                 *)
(***************************************************************************)
LEMMA IdleFacts ==
    ASSUME ArchiveInv, compressStep = "idle"
    PROVE  /\ todo = <<>> /\ table = 1 /\ Waiting = {} /\ InHand = {} /\ Done = {}
           /\ compressed = {} /\ sending = {}
           /\ \A y \in Archive!Years :
                /\ Known(y) = Of(LocalVersions(y), y)
                /\ \A t : MergedOn(y, t) = Of(LocalVersions(y), y)
                /\ \A t \in Archive!TableSet : disk[y][t] # Missing
                       => Archive!OnDisk(y)
                /\ Archive!OnDisk(y) => /\ y \in Archive!FeedYears /\ y \in folders
                                        /\ Of(LocalVersions(y), y) # {}
                /\ ~Archive!OnDisk(y) => LocalVersions(y) = {}
<1>1. ArchiveShape /\ LoopInv /\ FilesInv /\ DiskInv BY DEF ArchiveInv
<1>2. /\ todo = <<>> /\ table = 1 /\ Waiting = {} /\ InHand = {} /\ Done = {}
      /\ compressed = {} /\ sending = {}
  BY <1>1 DEF LoopInv, Waiting, InHand, Done
<1> SUFFICES ASSUME NEW y \in Archive!Years
             PROVE  /\ Known(y) = Of(LocalVersions(y), y)
                    /\ \A t : MergedOn(y, t) = Of(LocalVersions(y), y)
                    /\ \A t \in Archive!TableSet :
                          disk[y][t] # Missing => Archive!OnDisk(y)
                    /\ Archive!OnDisk(y) => /\ y \in Archive!FeedYears /\ y \in folders
                                            /\ Of(LocalVersions(y), y) # {}
                    /\ ~Archive!OnDisk(y) => LocalVersions(y) = {}
  BY <1>2
<1>3. Known(y) = Of(LocalVersions(y), y) BY <1>2 DEF Known
<1>4. \A t : MergedOn(y, t) = Of(LocalVersions(y), y) BY <1>2 DEF MergedOn, Of
<1>5. ~Archive!OnDisk(y) => LocalVersions(y) = {}
  BY DEF Archive!OnDisk, LocalVersions, Recorded, RowsOf
<1>6. \A t \in Archive!TableSet : disk[y][t] # Missing => Archive!OnDisk(y)
  <2> SUFFICES ASSUME NEW t \in Archive!TableSet, disk[y][t] # Missing
               PROVE  Archive!OnDisk(y)
    OBVIOUS
  <2>1. MergedOn(y, t) # {} BY <1>1 DEF DiskInv
  <2> QED BY <1>4, <1>5, <2>1 DEF Of
<1>7. ASSUME Archive!OnDisk(y)
      PROVE  y \in Archive!FeedYears /\ y \in folders
             /\ Of(LocalVersions(y), y) # {}
  <2>1. disk[y]["feed_info"] # Missing BY <1>7 DEF Archive!OnDisk
  <2>2. y \in folders /\ PublishedIn(y) /\ Of(LocalVersions(y), y) # {}
    BY <1>1, <2>1, FeedInfoTable DEF FilesInv
  <2> QED BY <1>1, <2>2, ListedFacts
<1> QED BY <1>3, <1>4, <1>5, <1>6, <1>7

\* What each selection leaves as it is.
LEMMA SelectKeeps ==
    ASSUME ArchiveInv, compressStep = "idle", compressStep' = "compress",
           UNCHANGED <<feed, table, bucket, sending, compressed, archived>>,
           spoiled \subseteq spoiled'
    PROVE  /\ FeedGrows /\ ListedInv' /\ BucketInv'
           /\ \A v : Archive!Partition(v)' = Archive!Partition(v)
           /\ Archive!Listed' = Archive!Listed
           /\ \A y : PublishedIn(y)' = PublishedIn(y)
           /\ Archive!FeedYears' = Archive!FeedYears
           /\ \A y : BucketVersions(y)' = BucketVersions(y)
           /\ \A y : Archive!InBucket(y)' = Archive!InBucket(y)
           /\ Done' = {} /\ \A y, t : MergedOn(y, t)' = Of(LocalVersions(y), y)'
<1>1. ArchiveShape /\ FilesInv /\ ListedInv /\ BucketInv /\ table = 1
  BY IdleFacts DEF ArchiveInv
<1>2. FeedGrows BY DEF FeedGrows
<1>3. ListedInv' BY <1>1, <1>2, ListedStays
<1>4. BucketInv' BY <1>1, <1>2, BucketStays
<1>5. \A v : Archive!Partition(v)' = Archive!Partition(v)
  BY DEF Archive!Partition, Archive!ActiveFrom
<1>6. Done' = {} BY <1>1 DEF Done
<1>7. \A y, t : MergedOn(y, t)' = Of(LocalVersions(y), y)'
  BY <1>6 DEF MergedOn
<1> QED BY <1>2, <1>3, <1>4, <1>5, <1>6, <1>7
    DEF Of, Archive!Listed, PublishedIn, Archive!FeedYears, BucketVersions, Recorded,
        Archive!InBucket

\* No archive is found: all schedules are merged into new files.
LEMMA ArchiveBegins ==
    ASSUME ArchiveInv, compressStep = "idle", compressStep' = "compress",
           UNCHANGED <<feed, table, bucket, sending, compressed, archived,
                       spoiled, disk>>,
           \A y \in Archive!FeedYears : ~Archive!OnDisk(y),
           todo' = Archive!Ordered(Archive!Listed),
           folders' = folders \cup Archive!FeedYears,
           ArchiveShape'
    PROVE  ArchiveInv'
<1>1. /\ ArchiveShape /\ OrderInv /\ LoopInv /\ FilesInv /\ KnownInv
  BY DEF ArchiveInv
<1>2. /\ FeedGrows /\ ListedInv' /\ BucketInv'
      /\ \A v : Archive!Partition(v)' = Archive!Partition(v)
      /\ Archive!Listed' = Archive!Listed
      /\ \A y : PublishedIn(y)' = PublishedIn(y)
      /\ Archive!FeedYears' = Archive!FeedYears
      /\ \A y : BucketVersions(y)' = BucketVersions(y)
      /\ \A y : Archive!InBucket(y)' = Archive!InBucket(y)
      /\ Done' = {} /\ \A y, t : MergedOn(y, t)' = Of(LocalVersions(y), y)'
  BY SelectKeeps
<1>3. \A y \in Archive!Years :
         /\ LocalVersions(y) = {} /\ LocalVersions(y)' = {}
         /\ \A t \in Archive!TableSet : disk'[y][t] = Missing
  BY IdleFacts DEF LocalVersions, Recorded
<1>4. /\ Waiting' = Archive!Listed
      /\ \A i, j \in DOMAIN todo' : i < j => todo'[i] < todo'[j]
  BY <1>1, OrderedAll DEF Waiting
<1>5. OrderInv' BY <1>1, <1>3, <1>4 DEF OrderInv
<1>6. \A y \in folders' : y \in Archive!FeedYears /\ PublishedIn(y)
  <2>1. folders \subseteq Archive!Years BY <1>1 DEF ArchiveShape
  <2> QED BY <1>1, <2>1, ListedFacts DEF FilesInv
<1>7. LoopInv'
  <2>1. compressed = {} /\ sending = {} /\ table = 1 BY IdleFacts
  <2>2. \A v \in Archive!Listed : Archive!Partition(v) \in folders' =>
           \E w \in Archive!Listed :
               Archive!Year(feed[w].day) = Archive!Partition(v)
    BY <1>6 DEF Archive!FeedYears
  <2> QED BY <1>2, <1>4, <2>1, <2>2 DEF LoopInv
<1>8. FilesInv'
  <2>1. \A y : /\ Of(BucketVersions(y), y)' = Of(BucketVersions(y), y)
               /\ Of(DOMAIN feed, y)' = Of(DOMAIN feed, y)
    BY <1>2 DEF Of
  <2> QED BY <1>1, <1>2, <1>3, <1>6, <2>1, FeedInfoTable DEF FilesInv
<1>9. KnownInv'
  <2>1. \A y \in Archive!Years :
           /\ Known(y)' = Of(Archive!Listed, y)
           /\ Of(Archive!Listed, y)' = Of(Archive!Listed, y)
    BY <1>2, <1>3, <1>4 DEF Known, Of
  <2>2. \A y \in Archive!Years :
            Of(Archive!Listed \cap archived, y)' \subseteq Known(y)'
    BY <1>2, <2>1 DEF Of
  <2>3. \A y \in Archive!Years :
           Archive!InBucket(y)' => Known(y)' # {}
    BY <1>1, <1>2, <2>1, ListedFacts DEF FilesInv
  <2>4. \A y \in Archive!Years : y > 0 => y - 1 \in Archive!Years
    BY YearsNat
  <2> QED BY <2>1, <2>2, <2>3, <2>4 DEF KnownInv
<1>10. DiskInv'
  <2>1. \A y \in Archive!Years : \A t :
           /\ MergedOn(y, t)' = {} /\ Right({}, t, y, {})'
    <3> SUFFICES ASSUME NEW y \in Archive!Years, NEW t
                 PROVE  MergedOn(y, t)' = {} /\ Right({}, t, y, {})'
      OBVIOUS
    <3>1. MergedOn(y, t)' = {} BY <1>2, <1>3 DEF Of
    <3>2. Right({}, t, y, {}) BY YearsNat, RightNothing
    <3>3. {} \in SUBSET Of(DOMAIN feed, y) /\ y \in Nat BY YearsNat
    <3> QED BY <1>1, <1>2, <3>1, <3>2, <3>3, RightStays
  <2>2. \A y \in Archive!Years, t \in Archive!TableSet : RowsOf(disk'[y][t]) = {}
    BY <1>3 DEF RowsOf
  <2> QED BY <1>3, <2>1, <2>2 DEF DiskInv
<1> QED BY <1>2, <1>5, <1>7, <1>8, <1>9, <1>10 DEF ArchiveInv

\* The schedules to compress after the last year found, given those it has.
Selected(latest, had) ==
    {v \in Archive!Listed : Archive!Year(feed[v].day) >= latest} \ had

\* The schedules that wait after the last year found, latest, and what this
\* year has of the archive.
LEMMA ContinueFacts ==
    ASSUME ArchiveInv, compressStep = "idle", NEW latest \in Archive!FeedYears,
           \A y \in Archive!FeedYears : y > latest => ~Archive!OnDisk(y),
           NEW had, \/ Archive!OnDisk(latest) /\ had = LocalVersions(latest)
                    \/ bucket[latest]["feed_info"] # Missing
                       /\ had = BucketVersions(latest)
    PROVE  /\ latest \in Archive!Years /\ latest \in Nat
           /\ \A c \in had : c \in DOMAIN feed /\ Archive!Partition(c) <= latest
           /\ Of(had, latest) # {}
           /\ \A v \in Selected(latest, had) :
                 /\ v \in Archive!Listed /\ v \in DOMAIN feed
                 /\ Archive!Partition(v) >= latest
           /\ \A c \in had, x \in Selected(latest, had) : c < x
           /\ \A w \in Archive!Listed : Archive!Partition(w) = latest
                 => w \in had \cup Selected(latest, had)
           /\ \A w \in Archive!Listed : Archive!Partition(w) > latest
                  => w \in Selected(latest, had)
<1> DEFINE waiting == Selected(latest, had)
<1> USE DEF Selected
<1>1. /\ ArchiveShape /\ OrderInv /\ FilesInv /\ KnownInv /\ ListedInv
  BY DEF ArchiveInv
<1>2. latest \in Archive!Years /\ latest \in Nat
  BY <1>1, YearsOfFeed, YearsNat
<1>3. \A c \in had : c \in DOMAIN feed /\ Archive!Partition(c) <= latest
  BY <1>1, <1>2 DEF FilesInv
<1>4. Of(had, latest) # {} BY <1>1, <1>2, IdleFacts DEF FilesInv
<1>5. \A c \in Of(had, latest), w \in Of(Archive!Listed, latest) :
         w < c \/ Archive!Year(feed[w].day) = latest - 1 => w \in had
  <2>1. CASE Archive!OnDisk(latest) /\ had = LocalVersions(latest)
    <3>1. Known(latest) = Of(had, latest) /\ latest \in folders
      BY <1>2, <2>1, IdleFacts
    <3>2. \A w \in Known(latest) : w \in had BY <3>1 DEF Of
    <3> QED BY <1>1, <1>2, <3>1, <3>2 DEF KnownInv
  <2>2. CASE had = BucketVersions(latest)
    BY <1>1, <1>2, <2>2 DEF ListedInv
  <2> QED BY <2>1, <2>2
<1>6. \A v \in Archive!Listed :
         /\ v \in DOMAIN feed /\ v \in Nat
         /\ Archive!Partition(v) \in Nat /\ Archive!Year(feed[v].day) \in Nat
         /\ \/ Archive!Year(feed[v].day) = Archive!Partition(v)
            \/ Archive!Year(feed[v].day) + 1 = Archive!Partition(v)
  BY <1>1, ListedFacts, PublishedYear
<1>7. \A v \in waiting : /\ v \in Archive!Listed /\ v \in DOMAIN feed
                         /\ Archive!Partition(v) >= latest
  <2>1. \A v \in waiting : v \in Archive!Listed
            /\ Archive!Year(feed[v].day) >= latest
    OBVIOUS
  <2> QED BY <1>2, <1>6, <2>1
<1>8. ASSUME NEW c \in had, NEW x \in waiting PROVE c < x
  <2>1. /\ c \in Nat /\ x \in Nat /\ c \in DOMAIN feed /\ x \in DOMAIN feed
        /\ Archive!Partition(c) \in Nat /\ Archive!Partition(x) \in Nat
    BY <1>1, <1>3, <1>7, FeedFacts, VersionDays
  <2> SUFFICES ASSUME x <= c PROVE FALSE BY <2>1
  <2>2. Archive!Partition(x) <= Archive!Partition(c)
    <3>1. feed[x].day <= feed[c].day BY <1>1, <2>1 DEF OrderInv
    <3>2. feed[x].day \in Nat /\ feed[c].day \in Nat BY <1>1, <2>1, VersionDays
    <3>3. feed[x].day + 1 <= feed[c].day + 1 BY <3>1, <3>2
    <3> QED BY <3>2, <3>3, LaterDays DEF Archive!Partition, Archive!ActiveFrom
  <2>3. Archive!Partition(x) = latest /\ Archive!Partition(c) = latest
    BY <1>2, <1>3, <1>7, <2>1, <2>2
  <2>4. x # c OBVIOUS
  <2>5. x < c BY <2>1, <2>4
  <2>6. c \in Of(had, latest) /\ x \in Of(Archive!Listed, latest)
    BY <1>7, <2>3 DEF Of
  <2>7. x \in had BY <1>5, <2>5, <2>6
  <2> QED BY <2>7
<1>9. ASSUME NEW w \in Archive!Listed, Archive!Partition(w) = latest
      PROVE  w \in had \cup waiting
  <2>1. CASE Archive!Year(feed[w].day) = latest
    BY <1>2, <2>1
  <2>2. CASE Archive!Year(feed[w].day) = latest - 1
    <3>1. w \in Of(Archive!Listed, latest) BY <1>9 DEF Of
    <3> QED BY <1>4, <1>5, <2>2, <3>1
  <2> QED BY <1>2, <1>6, <1>9, <2>1, <2>2
<1>10. ASSUME NEW w \in Archive!Listed, Archive!Partition(w) > latest
       PROVE  w \in waiting
  <2>1. Archive!Year(feed[w].day) >= latest BY <1>2, <1>6, <1>10
  <2>2. w \notin had
    <3>1. \A c \in had : Archive!Partition(c) <= latest BY <1>3
    <3>2. Archive!Partition(w) \in Nat BY <1>6
    <3> QED BY <1>2, <1>10, <3>1, <3>2
  <2> QED BY <2>1, <2>2
<1> QED BY <1>2, <1>3, <1>4, <1>7, <1>8, <1>9, <1>10

\* The last year found is brought up to date, and those after it are begun.
LEMMA ArchiveContinues ==
    ASSUME ArchiveInv, compressStep = "idle", compressStep' = "compress",
           UNCHANGED <<feed, table, bucket, sending, compressed, archived>>,
           NEW latest \in Archive!FeedYears,
           \A y \in Archive!FeedYears : y > latest => ~Archive!OnDisk(y),
           NEW unseen \in SUBSET Archive!TableSet,
           \/ Archive!OnDisk(latest) /\ disk' = disk /\ spoiled' = spoiled
           \/ /\ ~Archive!OnDisk(latest) /\ Archive!InBucket(latest)
              /\ disk' = [disk EXCEPT ![latest] = [t \in Archive!TableSet |->
                             IF t \in unseen THEN Missing ELSE bucket[latest][t]]]
              /\ spoiled' = IF unseen = {} THEN spoiled ELSE spoiled \cup {latest},
           disk'[latest]["feed_info"] # Missing,
           todo' = Archive!Ordered({v \in Archive!Listed :
                      Archive!Year(feed[v].day) >= latest} \ LocalVersions(latest)'),
           folders' = folders \cup {y \in Archive!FeedYears : y >= latest},
           ArchiveShape'
    PROVE  ArchiveInv'
<1>1. /\ ArchiveShape /\ OrderInv /\ LoopInv /\ FilesInv /\ KnownInv /\ ListedInv
      /\ DiskInv /\ BucketInv
  BY DEF ArchiveInv
<1>2. /\ FeedGrows /\ ListedInv' /\ BucketInv' /\ spoiled \subseteq spoiled'
      /\ \A v : Archive!Partition(v)' = Archive!Partition(v)
      /\ Archive!Listed' = Archive!Listed
      /\ \A y : PublishedIn(y)' = PublishedIn(y)
      /\ Archive!FeedYears' = Archive!FeedYears
      /\ \A y : BucketVersions(y)' = BucketVersions(y)
      /\ \A y : Archive!InBucket(y)' = Archive!InBucket(y)
      /\ Done' = {} /\ \A y, t : MergedOn(y, t)' = Of(LocalVersions(y), y)'
  <2>1. spoiled \subseteq spoiled' OBVIOUS
  <2> QED BY <2>1, SelectKeeps
<1>3. latest \in Archive!Years BY <1>1, YearsOfFeed
<1>4. \A y \in Archive!Years : \A t \in Archive!TableSet :
         /\ disk[y][t] # Missing => Archive!OnDisk(y)
         /\ y > latest => disk[y][t] = Missing
  BY IdleFacts
<1>5. ASSUME ~Archive!OnDisk(latest)
      PROVE  /\ unseen = {} => \A t \in Archive!TableSet : disk'[latest][t] = bucket[latest][t]
             /\ disk'[latest]["feed_info"] = bucket[latest]["feed_info"]
             /\ \A y \in Archive!Years : \A t \in Archive!TableSet :
                   disk[y][t] = Missing /\ (y # latest => disk'[y][t] = Missing)
  <2>1. ASSUME NEW y \in Archive!Years, NEW t \in Archive!TableSet
               PROVE disk[y][t] = Missing
    <3> SUFFICES ASSUME disk[y][t] # Missing PROVE FALSE OBVIOUS
    <3>1. Archive!OnDisk(y) BY <1>4
    <3>2. Known(y) # {} /\ y \in Archive!FeedYears BY <3>1, IdleFacts
    <3>3. y \in 0..latest BY <1>3, <3>1, <3>2, YearsNat
    <3>4. Known(latest) # {} BY <1>1, <1>3, <1>5, <3>2, <3>3 DEF KnownInv
    <3>5. LocalVersions(latest) # {} BY <1>3, <3>4, IdleFacts DEF Of
    <3> QED BY <1>3, <1>5, <3>5, IdleFacts
  <2>2. disk \in [Archive!Years -> Folder] BY <1>1 DEF ArchiveShape
  <2>3. disk'[latest] = [t \in Archive!TableSet |->
                           IF t \in unseen THEN Missing ELSE bucket[latest][t]]
    BY <1>3, <1>5, <2>2
  <2>4. \A y \in Archive!Years : y # latest => disk'[y] = disk[y]
    BY <1>3, <1>5, <2>2
  <2> QED BY <2>1, <2>3, <2>4, FeedInfoTable
<1> DEFINE had == LocalVersions(latest)'
           waiting == {v \in Archive!Listed :
                          Archive!Year(feed[v].day) >= latest} \ had
<1>6. \/ Archive!OnDisk(latest) /\ had = LocalVersions(latest)
      \/ bucket[latest]["feed_info"] # Missing /\ had = BucketVersions(latest)
  <2>1. CASE Archive!OnDisk(latest) BY <2>1 DEF LocalVersions, Recorded
  <2>2. CASE ~Archive!OnDisk(latest)
    BY <1>5, <2>2 DEF LocalVersions, BucketVersions, Recorded
  <2> QED BY <2>1, <2>2
<1>7. /\ latest \in Nat
      /\ \A c \in had : c \in DOMAIN feed /\ Archive!Partition(c) <= latest
      /\ Of(had, latest) # {}
      /\ \A v \in waiting : /\ v \in Archive!Listed /\ v \in DOMAIN feed
                            /\ Archive!Partition(v) >= latest
      /\ \A c \in had, x \in waiting : c < x
      /\ \A w \in Archive!Listed : Archive!Partition(w) = latest
            => w \in had \cup waiting
      /\ \A w \in Archive!Listed : Archive!Partition(w) > latest => w \in waiting
  <2>1. PICK h : h = had OBVIOUS
  <2>2. waiting = Selected(latest, h) BY <2>1 DEF Selected
  <2> HIDE DEF had, waiting
  <2>3. \/ Archive!OnDisk(latest) /\ h = LocalVersions(latest)
        \/ bucket[latest]["feed_info"] # Missing /\ h = BucketVersions(latest)
    BY <1>6, <2>1
  <2>4. /\ latest \in Nat
        /\ \A c \in h : c \in DOMAIN feed /\ Archive!Partition(c) <= latest
        /\ Of(h, latest) # {}
        /\ \A v \in Selected(latest, h) :
              /\ v \in Archive!Listed /\ v \in DOMAIN feed
              /\ Archive!Partition(v) >= latest
        /\ \A c \in h, x \in Selected(latest, h) : c < x
        /\ \A v \in Archive!Listed : Archive!Partition(v) = latest
              => v \in h \cup Selected(latest, h)
        /\ \A v \in Archive!Listed : Archive!Partition(v) > latest
              => v \in Selected(latest, h)
    BY <2>3, ContinueFacts
  <2> QED BY <2>1, <2>2, <2>4
<1>8. /\ Waiting' = waiting
      /\ \A i, j \in DOMAIN todo' : i < j => todo'[i] < todo'[j]
  <2>1. todo' = Archive!Ordered(waiting) /\ waiting \in SUBSET Archive!Listed
    OBVIOUS
  <2> HIDE DEF waiting
  <2>2. LET s == Archive!Ordered(waiting)
        IN /\ {s[i] : i \in DOMAIN s} = waiting
           /\ \A i, j \in DOMAIN s : i < j => s[i] < s[j]
    BY <1>1, <2>1, OrderedAll
  <2> QED BY <2>1, <2>2 DEF Waiting
<1>9. \A y \in Archive!Years :
         /\ y > latest => LocalVersions(y)' = {}
         /\ y # latest
                => LocalVersions(y)' = LocalVersions(y)
                \/ LocalVersions(y)' = {}
         /\ y # latest => \A t \in Archive!TableSet :
               disk'[y][t] = Missing \/ disk'[y][t] = disk[y][t]
  <2> SUFFICES ASSUME NEW y \in Archive!Years, y # latest
               PROVE  /\ y > latest => LocalVersions(y)' = {}
                      /\ LocalVersions(y)' = LocalVersions(y)
                             \/ LocalVersions(y)' = {}
                      /\ \A t \in Archive!TableSet :
                            disk'[y][t] = Missing \/ disk'[y][t] = disk[y][t]
    BY <1>7
  <2>1. CASE Archive!OnDisk(latest)
    <3>1. LocalVersions(y)' = LocalVersions(y) BY <2>1 DEF LocalVersions, Recorded
    <3>2. y > latest => LocalVersions(y) = {}
      BY <1>4, FeedInfoTable DEF LocalVersions, Recorded, RowsOf
    <3> QED BY <2>1, <3>1, <3>2
  <2>2. CASE ~Archive!OnDisk(latest)
    BY <1>5, <2>2, FeedInfoTable DEF LocalVersions, Recorded, RowsOf
  <2> QED BY <2>1, <2>2
<1> HIDE DEF had, waiting
<1>10. OrderInv'
  <2>1. ASSUME NEW y \in Archive!Years, NEW c \in LocalVersions(y)',
               NEW x \in waiting
        PROVE  c < x
    <3>1. CASE y = latest BY <1>7, <2>1, <3>1 DEF had
    <3>2. CASE y # latest
      <4>1. c \in LocalVersions(y) /\ y < latest /\ y \in Nat
        BY <1>3, <1>7, <1>9, <2>1, <3>2, YearsNat
      <4>2. c \in DOMAIN feed /\ x \in DOMAIN feed /\ Archive!Partition(c) <= y
        BY <1>1, <1>7, <2>1, <4>1 DEF FilesInv
      <4>3. /\ c \in Nat /\ x \in Nat
            /\ Archive!Partition(c) \in Nat /\ Archive!Partition(x) \in Nat
            /\ feed[c].day \in Nat /\ feed[x].day \in Nat
        BY <1>1, <4>2, FeedFacts, VersionDays
      <4>4. Archive!Partition(c) < Archive!Partition(x)
        BY <1>7, <2>1, <4>1, <4>2, <4>3
      <4>5. ~(x <= c)
        <5> SUFFICES ASSUME x <= c PROVE FALSE OBVIOUS
        <5>1. feed[x].day <= feed[c].day BY <1>1, <4>2 DEF OrderInv
        <5>2. feed[x].day + 1 <= feed[c].day + 1 BY <4>3, <5>1
        <5>3. Archive!Partition(x) <= Archive!Partition(c)
          BY <4>3, <5>2, LaterDays DEF Archive!Partition, Archive!ActiveFrom
        <5> QED BY <4>3, <4>4, <5>3
      <4> QED BY <4>3, <4>5
    <3> QED BY <3>1, <3>2
  <2> QED BY <1>1, <1>8, <2>1 DEF OrderInv
<1>11. \A y \in folders' : y \in Archive!FeedYears /\ PublishedIn(y)
  <2>1. folders \subseteq Archive!Years BY <1>1 DEF ArchiveShape
  <2> QED BY <1>1, <2>1, ListedFacts DEF FilesInv
<1>12. LoopInv'
  <2>1. compressed = {} /\ sending = {} /\ table = 1 BY IdleFacts
  <2>2. ASSUME NEW v \in waiting, Archive!Partition(v) \in folders'
        PROVE  \E w \in waiting : Archive!Year(feed[w].day) = Archive!Partition(v)
    <3>1. v \in DOMAIN feed /\ Archive!Partition(v) >= latest BY <1>7
    <3>2. PICK u \in Archive!Listed :
              Archive!Year(feed[u].day) = Archive!Partition(v)
      BY <1>11, <2>2 DEF Archive!FeedYears
    <3>3. /\ Archive!Partition(v) \in Nat /\ Archive!Year(feed[v].day) \in Nat
          /\ Archive!Partition(u) \in Nat /\ Archive!Year(feed[u].day) \in Nat
          /\ \/ Archive!Year(feed[v].day) = Archive!Partition(v)
             \/ Archive!Year(feed[v].day) + 1 = Archive!Partition(v)
          /\ \/ Archive!Year(feed[u].day) = Archive!Partition(u)
             \/ Archive!Year(feed[u].day) + 1 = Archive!Partition(u)
      BY <1>1, <3>1, ListedFacts, PublishedYear
    <3>4. CASE Archive!Year(feed[v].day) = Archive!Partition(v) BY <3>4
    <3>5. CASE Archive!Year(feed[v].day) # Archive!Partition(v)
      <4>1. Archive!Year(feed[v].day) >= latest BY DEF waiting
      <4>2. Archive!Partition(u) > latest BY <1>7, <3>2, <3>3, <3>5, <4>1
      <4> QED BY <1>7, <3>2, <4>2
    <3> QED BY <3>4, <3>5
  <2> QED BY <1>2, <1>8, <2>1, <2>2 DEF LoopInv
<1>14. \A y \in Archive!Years : Of(LocalVersions(y), y)' =
          {v \in LocalVersions(y)' : Archive!Partition(v) = y}
  BY <1>2 DEF Of
<1>15. FilesInv'
  <2> SUFFICES ASSUME NEW y \in Archive!Years
               PROVE  /\ \A c \in LocalVersions(y)' \cup BucketVersions(y) :
                            c \in DOMAIN feed /\ Archive!Partition(c) <= y
                      /\ disk'[y]["feed_info"] # Missing =>
                            Of(LocalVersions(y), y)' # {}
                      /\ \A t \in Archive!TableSet : disk'[y][t] # Missing
                             => y \in folders'
    <3>1. \A z : /\ Of(BucketVersions(z), z)' = Of(BucketVersions(z), z)
                 /\ Of(DOMAIN feed, z)' = Of(DOMAIN feed, z)
      BY <1>2 DEF Of
    <3> QED BY <1>1, <1>2, <1>11, <3>1 DEF FilesInv
  <2>1. \A c \in BucketVersions(y) : c \in DOMAIN feed /\ Archive!Partition(c) <= y
    BY <1>1 DEF FilesInv
  <2>2. CASE y = latest
    <3>1. y \in folders' BY <1>7, <2>2
    <3> QED BY <1>7, <1>14, <2>1, <2>2, <3>1 DEF had, Of
  <2>3. CASE y # latest
    <3>1. \A c \in LocalVersions(y)' : c \in DOMAIN feed
              /\ Archive!Partition(c) <= y
      BY <1>1, <1>9, <2>3 DEF FilesInv
    <3>2. \A t \in Archive!TableSet : disk'[y][t] # Missing => y \in folders'
      BY <1>1, <1>9, <2>3 DEF FilesInv
    <3>3. ASSUME disk'[y]["feed_info"] # Missing PROVE Of(LocalVersions(y), y)' # {}
      <4>1. disk'[y]["feed_info"] = disk[y]["feed_info"]
        BY <1>9, <2>3, <3>3, FeedInfoTable
      <4>2. LocalVersions(y)' = LocalVersions(y) BY <4>1 DEF LocalVersions, Recorded
      <4>3. Of(LocalVersions(y), y) # {} BY <1>1, <3>3, <4>1 DEF FilesInv
      <4> QED BY <1>14, <4>2, <4>3 DEF Of
    <3> QED BY <2>1, <3>1, <3>2, <3>3
  <2> QED BY <2>2, <2>3
<1>16. \A y \in Archive!Years :
          /\ Known(y)'
                 = {v \in LocalVersions(y)' \cup waiting :
                 Archive!Partition(v) = y}
          /\ y >= latest => Of(Archive!Listed, y) \subseteq Known(y)'
          /\ y < latest => /\ Of(waiting, y) = {}
                           /\ Known(y)' = Of(LocalVersions(y), y)'
                           /\ Known(y)' = Known(y) \/ Known(y)' = {}
  <2> SUFFICES ASSUME NEW y \in Archive!Years
               PROVE  /\ Known(y)' = {v \in LocalVersions(y)' \cup waiting :
                                        Archive!Partition(v) = y}
                      /\ y >= latest => Of(Archive!Listed, y) \subseteq Known(y)'
                      /\ y < latest => /\ Of(waiting, y) = {}
                                       /\ Known(y)' = Of(LocalVersions(y), y)'
                                       /\ Known(y)' = Known(y) \/ Known(y)' = {}
    OBVIOUS
  <2>1. y \in Nat BY YearsNat
  <2>2. Known(y)'
            = {v \in LocalVersions(y)' \cup waiting : Archive!Partition(v) = y}
    BY <1>2, <1>8 DEF Known, Of
  <2>3. ASSUME y >= latest, NEW w \in Archive!Listed, Archive!Partition(w) = y
        PROVE  w \in LocalVersions(y)' \cup waiting
    <3>1. CASE y = latest BY <1>7, <2>3, <3>1 DEF had
    <3>2. CASE y # latest BY <1>7, <2>1, <2>3, <3>2
    <3> QED BY <3>1, <3>2
  <2>4. ASSUME y < latest
        PROVE  /\ Of(waiting, y) = {} /\ Known(y)' = Of(LocalVersions(y), y)'
               /\ Known(y)' = Known(y) \/ Known(y)' = {}
    <3>1. \A v \in waiting : Archive!Partition(v) # y
      BY <1>7, <2>1, <2>4
    <3>2. Known(y)' = Of(LocalVersions(y), y)' BY <1>14, <2>2, <3>1
    <3>3. Known(y) = Of(LocalVersions(y), y) BY IdleFacts
    <3>4. LocalVersions(y)' = LocalVersions(y) \/ LocalVersions(y)' = {}
      BY <1>7, <1>9, <2>1, <2>4
    <3>5. Known(y)' = Known(y) \/ Known(y)' = {}
      BY <1>14, <3>2, <3>3, <3>4 DEF Of
    <3> QED BY <3>1, <3>2, <3>5 DEF Of
  <2> QED BY <2>2, <2>3, <2>4 DEF Of
<1>17. KnownInv'
  <2> SUFFICES ASSUME NEW y \in Archive!Years
               PROVE  /\ \A c \in Known(y)', w \in Of(Archive!Listed, y) :
                            w < c => w \in Known(y)'
                      /\ y \in folders' /\ Known(y)' # {} =>
                            \A w \in Of(Archive!Listed, y) :
                               Archive!Year(feed[w].day) = y - 1 => w \in Known(y)'
                      /\ Known(y)' # {} =>
                            Of(Archive!Listed \cap archived, y) \subseteq Known(y)'
                      /\ y > 0 /\ Of(LocalVersions(y), y)' = {}
                             /\ Of(Waiting, y)' # {} =>
                            Of(Archive!Listed, y - 1) \subseteq Known(y - 1)'
                      /\ Archive!InBucket(y) /\ (\E z \in 0..y : Known(z)' # {})
                            => Known(y)' # {}
    <3>1. \A z : /\ Of(Archive!Listed, z)' = Of(Archive!Listed, z)
                 /\ Of(Archive!Listed \cap archived, z)'
                       = Of(Archive!Listed \cap archived, z)
      BY <1>2 DEF Of
    <3> QED BY <1>2, <3>1 DEF KnownInv
  <2>1. y \in Nat /\ latest \in Nat BY <1>7, YearsNat
  <2>2. CASE y < latest
    <3>1. Of(Waiting, y)' = {}
      BY <1>2, <1>8, <1>16, <2>2 DEF Of
    <3>2. /\ \A c \in Known(y)', w \in Of(Archive!Listed, y) :
                w < c => w \in Known(y)'
          /\ y \in folders' /\ Known(y)' # {} =>
                \A w \in Of(Archive!Listed, y) :
                   Archive!Year(feed[w].day) = y - 1 => w \in Known(y)'
          /\ Known(y)' # {}
                 => Of(Archive!Listed \cap archived, y) \subseteq Known(y)'
      <4>1. CASE Known(y)' = {} BY <4>1
      <4>2. CASE Known(y)' = Known(y)
        <5>1. y \in folders' => y \in folders BY <2>1, <2>2
        <5>2. /\ \A c \in Known(y), w \in Of(Archive!Listed, y) :
                    w < c => w \in Known(y)
              /\ y \in folders /\ Known(y) # {} =>
                    \A w \in Of(Archive!Listed, y) :
                       Archive!Year(feed[w].day) = y - 1 => w \in Known(y)
              /\ Known(y) # {}
                     => Of(Archive!Listed \cap archived, y) \subseteq Known(y)
          BY <1>1 DEF KnownInv
        <5> QED BY <4>2, <5>1, <5>2
      <4> QED BY <1>16, <2>2, <4>1, <4>2
    <3>4. (\E z \in 0..y : Known(z)' # {}) /\ Archive!InBucket(y) => Known(y)' # {}
      <4> SUFFICES ASSUME NEW z \in 0..y, Known(z)' # {}, Archive!InBucket(y)
                   PROVE  Known(y)' # {}
        OBVIOUS
      <4>1. z \in Archive!Years /\ z < latest /\ y # latest BY <2>1, <2>2, YearsNat
      <4>2. Known(z) # {} BY <1>16, <4>1
      <4>3. Known(y) # {} BY <1>1, <4>2 DEF KnownInv
      <4>4. CASE Archive!OnDisk(latest)
        <5>1. LocalVersions(y)' = LocalVersions(y) BY <4>4 DEF LocalVersions,
                  Recorded
        <5>2. Known(y) = Of(LocalVersions(y), y) BY IdleFacts
        <5> QED BY <1>14, <1>16, <2>2, <4>3, <5>1, <5>2 DEF Of
      <4>5. CASE ~Archive!OnDisk(latest)
        <5>1. LocalVersions(z)' = {}
          BY <1>5, <2>1, <2>2, <4>1, <4>5, FeedInfoTable DEF LocalVersions,
              Recorded, RowsOf
        <5> QED BY <1>14, <1>16, <4>1, <5>1
      <4> QED BY <4>4, <4>5
    <3> QED BY <3>1, <3>2, <3>4
  <2>3. CASE ~(y < latest)
    <3>0. y >= latest BY <2>1, <2>3
    <3>1. Of(Archive!Listed, y) \subseteq Known(y)' BY <1>16, <3>0
    <3>2. Of(Archive!Listed \cap archived, y) \subseteq Known(y)' BY <3>1 DEF Of
    <3>3. ASSUME y > 0, Of(LocalVersions(y), y)' = {}
          PROVE  Of(Archive!Listed, y - 1) \subseteq Known(y - 1)'
      <4>1. y # latest BY <1>7, <1>14, <3>3 DEF had, Of
      <4>2. y - 1 \in Archive!Years /\ y - 1 >= latest BY <2>1, <3>0, <3>3,
                <4>1, YearsNat
      <4> QED BY <1>16, <4>2
    <3>4. Archive!InBucket(y) => Known(y)' # {}
      <4>1. Archive!InBucket(y) => Of(Archive!Listed, y) # {}
        BY <1>1, ListedFacts DEF FilesInv
      <4> QED BY <3>1, <4>1
    <3> QED BY <3>1, <3>2, <3>3, <3>4
  <2> QED BY <2>1, <2>2, <2>3
<1>18. DiskInv'
  <2> SUFFICES ASSUME NEW y \in Archive!Years, NEW t \in Archive!TableSet
               PROVE  /\ disk'[y][t] # Missing => Of(LocalVersions(y), y)' # {}
                      /\ y > 0 /\ Of(LocalVersions(y), y)' # {}
                             /\ disk'[y][t] = Missing
                            => disk'[y - 1][t] = Missing
                      /\ y \notin spoiled' =>
                            \A rows, M : rows = RowsOf(disk'[y][t])
                                         /\ M = Of(LocalVersions(y), y)'
                                            => Right(rows, t, y, M)'
    BY <1>2 DEF DiskInv
  <2>1. y \in Nat BY YearsNat
  <2>2. CASE Archive!OnDisk(latest)
    <3>1. LocalVersions(y)' = LocalVersions(y) BY <2>2 DEF LocalVersions, Recorded
    <3>2. Of(LocalVersions(y), y)' = Of(LocalVersions(y), y) BY <1>14, <3>1 DEF Of
    <3>3. MergedOn(y, t) = Of(LocalVersions(y), y) BY IdleFacts
    <3>4. MergedOn(y, t) \in SUBSET Of(DOMAIN feed, y)
      BY <1>1, <3>3 DEF FilesInv, Of
    <3>5. ASSUME y \notin spoiled', NEW rows, NEW M, rows = RowsOf(disk[y][t]),
                 M = MergedOn(y, t)
          PROVE  Right(rows, t, y, M)'
      <4>1. Right(rows, t, y, M) BY <1>2, <3>5, <1>1 DEF DiskInv
      <4> QED BY <1>1, <1>2, <2>1, <3>4, <3>5, <4>1, RightStays
    <3> QED BY <1>1, <2>2, <3>2, <3>3, <3>5 DEF DiskInv
  <2>3. CASE ~Archive!OnDisk(latest) /\ y # latest
    <3>1. disk'[y][t] = Missing BY <1>5, <2>3
    <3>2. LocalVersions(y)' = {}
      BY <1>5, <2>3, FeedInfoTable DEF LocalVersions, Recorded, RowsOf
    <3>3. Of(LocalVersions(y), y)' = {} BY <1>14, <3>2
    <3>4. Right({}, t, y, {})'
      <4>1. Right({}, t, y, {}) BY <2>1, RightNothing
      <4>2. {} \in SUBSET Of(DOMAIN feed, y) OBVIOUS
      <4> QED BY <1>1, <1>2, <2>1, <4>1, <4>2, RightStays
    <3> QED BY <3>1, <3>3, <3>4 DEF RowsOf
  <2>4. CASE ~Archive!OnDisk(latest) /\ y = latest
    <3>1. Of(LocalVersions(y), y)' # {} BY <1>7, <1>14, <2>4 DEF had, Of
    <3>2. ASSUME y > 0 PROVE disk'[y - 1][t] = Missing
      <4>1. y - 1 \in Archive!Years /\ y - 1 # latest BY <2>1, <2>4, <3>2, YearsNat
      <4> QED BY <1>5, <2>4, <4>1
    <3>3. ASSUME y \notin spoiled', NEW rows, NEW M, rows = RowsOf(disk'[y][t]),
                 M = Of(LocalVersions(y), y)'
          PROVE  Right(rows, t, y, M)'
      <4>1. unseen = {} BY <2>4, <3>3
      <4>2. disk'[y][t] = bucket[y][t] /\ LocalVersions(y)' = BucketVersions(y)
        BY <1>5, <2>4, <4>1 DEF LocalVersions, BucketVersions, Recorded
      <4>3. y \in Archive!Years \ spoiled BY <1>2, <3>3
      <4>4. PICK N \in SUBSET Of(DOMAIN feed, y) : Holds(y, N)
        BY <1>1, <4>3 DEF BucketInv
      <4>5. \A s : ~Sent(y, s) BY DEF Sent
      <4>6. N = Of(BucketVersions(y), y) BY <4>4, <4>5, FeedInfoTable DEF Holds
      <4>7. M = N BY <1>14, <3>3, <4>2, <4>6 DEF Of
      <4>8. Right(rows, t, y, M) BY <3>3, <4>2, <4>4, <4>5, <4>7 DEF Holds
      <4> QED BY <1>1, <1>2, <2>1, <4>4, <4>7, <4>8, RightStays
    <3> QED BY <3>1, <3>2, <3>3
  <2> QED BY <2>2, <2>3, <2>4
<1> QED BY <1>2, <1>10, <1>12, <1>15, <1>17, <1>18 DEF ArchiveInv

LEMMA ArchiveSelects ==
    ASSUME ArchiveInv, Archive!Select
    PROVE  ArchiveInv'
<1>1. PICK unlisted \in SUBSET Archive!FeedYears, unseen \in SUBSET Archive!TableSet :
         LET found == {y \in Archive!FeedYears :
                          \/ Archive!OnDisk(y)
                          \/ Archive!InBucket(y) /\ y \notin unlisted}
             latest == CHOOSE y \in found : \A z \in found : y >= z
             sync == found # {} /\ ~Archive!OnDisk(latest)
             synced == IF ~sync THEN disk
                       ELSE [disk EXCEPT ![latest] = [t \in Archive!TableSet |->
                               IF t \in unseen THEN Missing ELSE bucket[latest][t]]]
             seen == IF found = {} THEN {}
                     ELSE {r.record : r \in synced[latest]["feed_info"]}
             new == {v \in Archive!Listed :
                        found = {} \/ Archive!Year(feed[v].day) >= latest}
         IN /\ unseen # {} => sync
            /\ IF found # {} /\ synced[latest]["feed_info"] = Missing
               THEN Archive!Restart /\ UNCHANGED spoiled
               ELSE /\ todo' = Archive!Ordered(new \ seen)
                    /\ folders' = folders \cup
                         {y \in Archive!FeedYears : found = {} \/ y >= latest}
                    /\ disk' = synced
                    /\ spoiled' = IF unseen = {} THEN spoiled
                           ELSE spoiled \cup {latest}
                    /\ compressStep' = "compress"
                    /\ UNCHANGED <<feed, table, bucket, sending, compressed,
                                   archived>>
  BY ZenonT(60) DEF Archive!Select
<1>2. compressStep = "idle" BY DEF Archive!Select
<1>3. ArchiveShape /\ BucketInv /\ FilesInv BY DEF ArchiveInv
<1>4. ArchiveShape' BY <1>3, ArchiveSelect
<1> DEFINE found == {y \in Archive!FeedYears :
                        \/ Archive!OnDisk(y)
                        \/ Archive!InBucket(y) /\ y \notin unlisted}
           latest == CHOOSE y \in found : \A z \in found : y >= z
           sync == found # {} /\ ~Archive!OnDisk(latest)
           synced == IF ~sync THEN disk
                     ELSE [disk EXCEPT ![latest] = [t \in Archive!TableSet |->
                             IF t \in unseen THEN Missing ELSE bucket[latest][t]]]
           seen == IF found = {} THEN {}
                   ELSE {r.record : r \in synced[latest]["feed_info"]}
           new == {v \in Archive!Listed :
                      found = {} \/ Archive!Year(feed[v].day) >= latest}
<1>5. /\ unseen # {} => sync
      /\ \/ Archive!Restart /\ UNCHANGED spoiled
         \/ /\ ~(found # {} /\ synced[latest]["feed_info"] = Missing)
            /\ todo' = Archive!Ordered(new \ seen)
            /\ folders' = folders \cup
                  {y \in Archive!FeedYears : found = {} \/ y >= latest}
            /\ disk' = synced
            /\ spoiled' = IF unseen = {} THEN spoiled ELSE spoiled \cup {latest}
            /\ compressStep' = "compress"
            /\ UNCHANGED <<feed, table, bucket, sending, compressed, archived>>
  BY <1>1, Zenon
<1>6. \A y \in Archive!FeedYears : Archive!OnDisk(y) => y \in found OBVIOUS
<1>7. \A y \in found : y \in Archive!FeedYears
          /\ (Archive!OnDisk(y) \/ Archive!InBucket(y))
  OBVIOUS
<1>8. found # {} => latest \in found /\ \A z \in found : latest >= z
  <2>1. found \subseteq Archive!Years BY <1>3, YearsOfFeed
  <2>2. /\ Archive!Years = 0 .. Archive!Year(LastDay + DaysPerYear)
        /\ Archive!Year(LastDay + DaysPerYear) \in Nat
    <3>1. LastDay + DaysPerYear \in Nat BY ExportsAssumption
    <3> QED BY <3>1, YearOfDay DEF Archive!Years, Archive!Validity
  <2>3. ASSUME found # {} PROVE \E y \in found : \A z \in found : y >= z
    <3> HIDE DEF found
    <3> QED BY <2>1, <2>2, <2>3, GreatestNumber
  <2> HIDE DEF found
  <2> QED BY <2>3
<1> HIDE DEF found, latest
<1>9. CASE Archive!Restart /\ UNCHANGED spoiled
  <2>1. /\ compressStep' = "idle" /\ UNCHANGED <<feed, bucket, archived>>
    BY <1>9 DEF Archive!Restart
  <2>2. FeedGrows BY <2>1 DEF FeedGrows
  <2>3. BucketInv' BY <1>2, <1>3, <1>9, <2>1, <2>2, BucketStays
  <2>4. spoiled \subseteq spoiled' BY <1>9
  <2> QED BY <1>4, <1>9, <2>3, <2>4, ArchiveRestartKeeps DEF ArchiveInv
<1>10. CASE ~(Archive!Restart /\ UNCHANGED spoiled) /\ found = {}
  <2>1. disk' = disk /\ spoiled' = spoiled BY <1>5, <1>10
  <2>2. todo' = Archive!Ordered(Archive!Listed)
    <3>1. new = Archive!Listed /\ seen = {} BY <1>10
    <3>2. new \ seen = Archive!Listed BY <3>1
    <3> QED BY <1>5, <1>10, <3>2
  <2>3. folders' = folders \cup Archive!FeedYears
    <3>1. {y \in Archive!FeedYears : found = {} \/ y >= latest} = Archive!FeedYears
      BY <1>10
    <3> QED BY <1>5, <1>10, <3>1
  <2>4. /\ compressStep' = "compress"
        /\ UNCHANGED <<feed, table, bucket, sending, compressed, archived>>
    BY <1>5, <1>10
  <2>5. \A y \in Archive!FeedYears : ~Archive!OnDisk(y) BY <1>6, <1>10
  <2> HIDE DEF new, seen, sync, synced
  <2> QED BY <1>2, <1>4, <2>1, <2>2, <2>3, <2>4, <2>5, ArchiveBegins
<1>11. CASE ~(Archive!Restart /\ UNCHANGED spoiled) /\ found # {}
  <2>1. PICK y0 : y0 = latest OBVIOUS
  <2>2. latest \in Archive!FeedYears
            /\ (Archive!OnDisk(latest) \/ Archive!InBucket(latest))
    BY <1>7, <1>8, <1>11
  <2>3. latest \in Nat
    BY <1>3, <2>2, YearsOfFeed, YearsNat
  <2>4. \A y \in Archive!FeedYears : y > latest => ~Archive!OnDisk(y)
    <3> SUFFICES ASSUME NEW y \in Archive!FeedYears, y > latest, Archive!OnDisk(y)
                 PROVE  FALSE
      OBVIOUS
    <3>1. latest >= y /\ y \in Nat BY <1>3, <1>6, <1>8, YearsOfFeed, YearsNat
    <3> QED BY <2>3, <3>1
  <2>5. /\ compressStep' = "compress"
        /\ UNCHANGED <<feed, table, bucket, sending, compressed, archived>>
        /\ disk' = synced /\ disk'[latest]["feed_info"] # Missing
    BY <1>5, <1>11
  <2>6. /\ y0 \in Archive!FeedYears
        /\ \A y \in Archive!FeedYears : y > y0 => ~Archive!OnDisk(y)
        /\ disk'[y0]["feed_info"] # Missing
    BY <2>1, <2>2, <2>4, <2>5
  <2>7. \/ Archive!OnDisk(latest) /\ disk' = disk /\ spoiled' = spoiled
        \/ /\ ~Archive!OnDisk(latest) /\ Archive!InBucket(latest)
           /\ disk' = [disk EXCEPT ![latest] = [t \in Archive!TableSet |->
                          IF t \in unseen THEN Missing ELSE bucket[latest][t]]]
           /\ spoiled' = IF unseen = {} THEN spoiled ELSE spoiled \cup {latest}
    <3>1. CASE Archive!OnDisk(latest) BY <1>5, <1>11, <3>1
    <3>2. CASE ~Archive!OnDisk(latest)
      <4>1. synced = [disk EXCEPT ![latest] = [t \in Archive!TableSet |->
                          IF t \in unseen THEN Missing ELSE bucket[latest][t]]]
        BY <1>11, <3>2
      <4> HIDE DEF synced
      <4> QED BY <1>5, <1>11, <2>2, <3>2, <4>1
    <3> QED BY <3>1, <3>2
  <2>8. todo' = Archive!Ordered({v \in Archive!Listed :
                   Archive!Year(feed[v].day) >= y0} \ LocalVersions(y0)')
    <3>1. new = {v \in Archive!Listed : Archive!Year(feed[v].day) >= y0}
      BY <1>11, <2>1
    <3>2. seen = LocalVersions(y0)'
      <4>1. seen = {r.record : r \in synced[latest]["feed_info"]} BY <1>11
      <4> HIDE DEF seen, synced
      <4>2. seen = {r.record : r \in disk'[y0]["feed_info"]} BY <2>1, <2>5, <4>1
      <4> QED BY <2>6, <4>2 DEF LocalVersions, Recorded, RowsOf
    <3> HIDE DEF new, seen, synced
    <3> QED BY <1>5, <1>11, <3>1, <3>2
  <2>9. folders' = folders \cup {y \in Archive!FeedYears : y >= y0}
    BY <1>5, <1>11, <2>1
  <2>10. \/ Archive!OnDisk(y0) /\ disk' = disk /\ spoiled' = spoiled
        \/ /\ ~Archive!OnDisk(y0) /\ Archive!InBucket(y0)
           /\ disk' = [disk EXCEPT ![y0] = [t \in Archive!TableSet |->
                          IF t \in unseen THEN Missing ELSE bucket[y0][t]]]
           /\ spoiled' = IF unseen = {} THEN spoiled ELSE spoiled \cup {y0}
    BY <2>1, <2>7, Zenon
  <2> HIDE DEF new, seen, sync, synced
  <2> QED BY <1>2, <1>4, <2>5, <2>8, <2>9, <2>6, <2>10, ArchiveContinues
<1> QED BY <1>9, <1>10, <1>11

(***************************************************************************)
(* CompressGtfs: compression                                               *)
(***************************************************************************)
LEMMA EarlierPartition ==
    ASSUME ArchiveShape, OrderInv, NEW v \in DOMAIN feed, NEW w \in DOMAIN feed,
           v <= w
    PROVE  /\ feed[v].day <= feed[w].day
           /\ Archive!Partition(v) \in Nat /\ Archive!Partition(w) \in Nat
           /\ Archive!Partition(v) <= Archive!Partition(w)
<1>1. /\ feed[v].day <= feed[w].day /\ feed[v].day \in Nat /\ feed[w].day \in Nat
      /\ Archive!Partition(v) \in Nat /\ Archive!Partition(w) \in Nat
  BY VersionDays DEF OrderInv
<1>2. feed[v].day + 1 <= feed[w].day + 1 BY <1>1
<1> QED BY <1>1, <1>2, LaterDays DEF Archive!Partition, Archive!ActiveFrom

\* The schedule at the head is later than what is merged, no file is of a
\* later year, and the year before a new one is complete.
LEMMA HeadFacts ==
    ASSUME ArchiveInv, todo # <<>>, NEW v, v = Head(todo), NEW t, t = Tables[table],
           NEW year, year = Archive!Partition(v)
    PROVE  /\ v \in DOMAIN feed /\ v \in Nat /\ v \in Waiting /\ InHand = {v}
           /\ year \in Archive!Years /\ year \in Nat
           /\ t \in Archive!TableSet /\ t \notin Done
           /\ \A x \in Waiting : x \in DOMAIN feed /\ v <= x /\ x \in Nat
           /\ \A y \in Archive!Years :
                /\ MergedOn(y, t) = Of(LocalVersions(y), y)
                /\ MergedOn(y, t) \in SUBSET Of(DOMAIN feed, y)
                /\ \A c \in LocalVersions(y) :
                      c \in DOMAIN feed /\ c \in Nat /\ c < v
                          /\ feed[c].day <= feed[v].day
                /\ y > year => \A s : MergedOn(y, s) = {}
           /\ year > 0 /\ MergedOn(year, t) = {} =>
                 \A u : LastOf(u, year - 1) => u \in MergedOn(year - 1, t)
<1>1. /\ ArchiveShape /\ OrderInv /\ FilesInv /\ KnownInv BY DEF ArchiveInv
<1>2. v \in DOMAIN feed /\ v \in Nat /\ year \in Archive!Years /\ year \in Nat
      /\ t \in Archive!TableSet /\ Tables \in Seq(STRING)
      /\ Len(Tables) \in Nat /\ DOMAIN Tables = 1..Len(Tables)
  <2>1. /\ v \in DOMAIN feed /\ year \in Archive!Years /\ t \in Archive!TableSet
        /\ Len(Tables) \in Nat /\ DOMAIN Tables = 1..Len(Tables)
    BY <1>1, NextTable
  <2>2. v \in Nat /\ year \in Nat BY <1>1, <2>1, FeedFacts, YearsNat
  <2> QED BY <2>1, <2>2, ExportsAssumption
<1>3. InHand = {v} BY DEF InHand
<1>4. /\ todo \in Seq(DOMAIN feed) /\ Len(todo) \in Nat
             /\ DOMAIN todo = 1..Len(todo)
      /\ 1 \in DOMAIN todo /\ v = todo[1]
      /\ \A i \in DOMAIN todo : todo[i] \in DOMAIN feed
  <2>1. todo \in Seq(DOMAIN feed) BY <1>1 DEF ArchiveShape
  <2> QED BY <2>1
<1>5. v \in Waiting BY <1>4 DEF Waiting
<1>6. ASSUME NEW x \in Waiting PROVE x \in DOMAIN feed /\ v <= x /\ x \in Nat
  <2>1. PICK i \in DOMAIN todo : x = todo[i] BY DEF Waiting
  <2>2. x \in DOMAIN feed /\ x \in Nat BY <1>1, <1>4, <2>1, FeedFacts
  <2>3. i = 1 \/ 1 < i BY <1>4
  <2>4. v = x \/ v < x BY <1>1, <1>4, <2>1, <2>3 DEF OrderInv
  <2> QED BY <1>2, <2>2, <2>4
<1>7. t \notin Done
  <2>1. table \in 1..Len(Tables) BY <1>1, <1>2 DEF ArchiveShape
  <2> SUFFICES ASSUME NEW i \in 1..(table - 1), t = Tables[i]
                      PROVE FALSE BY DEF Done
  <2>2. i \in DOMAIN Tables /\ table \in DOMAIN Tables /\ i # table BY <1>2, <2>1
  <2> QED BY <2>2, ExportsAssumption
<1>8. ASSUME NEW y \in Archive!Years
      PROVE  /\ MergedOn(y, t) = Of(LocalVersions(y), y)
             /\ MergedOn(y, t) \in SUBSET Of(DOMAIN feed, y)
             /\ \A c \in LocalVersions(y) :
                   c \in DOMAIN feed /\ c \in Nat /\ c < v
                       /\ feed[c].day <= feed[v].day
             /\ y > year => \A s : MergedOn(y, s) = {}
  <2>1. MergedOn(y, t) = Of(LocalVersions(y), y) BY <1>7 DEF MergedOn
  <2>2. \A c \in LocalVersions(y) : c \in DOMAIN feed BY <1>1 DEF FilesInv
  <2>3. ASSUME NEW c \in LocalVersions(y)
        PROVE  /\ c \in DOMAIN feed /\ c \in Nat /\ c < v /\ feed[c].day <= feed[v].day
               /\ Archive!Partition(c) \in Nat /\ Archive!Partition(c) <= year
    <3>1. c \in DOMAIN feed /\ c \in Nat /\ c < v
      BY <1>1, <1>5, <2>2, FeedFacts DEF OrderInv
    <3>2. c <= v BY <1>2, <3>1
    <3> QED BY <1>1, <1>2, <3>1, <3>2, EarlierPartition
  <2>4. ASSUME y > year, NEW s PROVE MergedOn(y, s) = {}
    <3>1. y \in Nat BY YearsNat
    <3>2. Of(LocalVersions(y), y) = {} BY <1>2, <2>3, <2>4, <3>1 DEF Of
    <3>3. Of(InHand, y) = {} BY <1>2, <1>3, <2>4, <3>1 DEF Of
    <3> QED BY <3>2, <3>3 DEF MergedOn
  <2> QED BY <2>1, <2>2, <2>3, <2>4 DEF Of
<1>9. ASSUME year > 0, MergedOn(year, t) = {}, NEW u, LastOf(u, year - 1)
      PROVE  u \in MergedOn(year - 1, t)
  <2>1. /\ u \in DOMAIN feed /\ Archive!Partition(u) = year - 1
        /\ \A w \in DOMAIN feed : Archive!Partition(w) = year - 1 => w <= u
    BY <1>9 DEF LastOf, Of
  <2>2. u \in Archive!Listed
    <3>1. PICK w \in Archive!Listed : w >= u /\ feed[w].day = feed[u].day
      BY <1>1, <2>1, ListedLast
    <3>2. w \in DOMAIN feed /\ Archive!Partition(w) = year - 1
      BY <1>1, <2>1, <3>1, ListedFacts DEF Archive!Partition, Archive!ActiveFrom
    <3>3. w = u BY <1>1, <2>1, <3>1, <3>2, FeedFacts
    <3> QED BY <3>1, <3>3
  <2>3. Of(LocalVersions(year), year) = {} /\ Of(Waiting, year) # {}
    BY <1>2, <1>5, <1>8, <1>9 DEF Of
  <2>4. u \in Known(year - 1)
    <3>1. u \in Of(Archive!Listed, year - 1) BY <2>1, <2>2 DEF Of
    <3> QED BY <1>1, <1>2, <1>9, <2>3, <3>1 DEF KnownInv
  <2>5. u \notin Waiting
    <3> SUFFICES ASSUME u \in Waiting PROVE FALSE OBVIOUS
    <3>1. Archive!Partition(v) <= Archive!Partition(u)
      BY <1>1, <1>2, <1>6, EarlierPartition
    <3> QED BY <1>2, <2>1, <3>1
  <2>6. u \in Of(LocalVersions(year - 1), year - 1) BY <2>4, <2>5 DEF Known, Of
  <2>7. year - 1 \in Archive!Years BY <1>2, <1>9, YearsNat
  <2> QED BY <1>8, <2>6, <2>7
<1> QED BY <1>2, <1>3, <1>5, <1>6, <1>7, <1>8, <1>9

\* What compress_gtfs_file does to the files.
FilesCompressed(v, t, year) ==
    /\ \A y \in Archive!Years, s \in Archive!TableSet :
          \/ <<y, s>> # <<year, t>> /\ disk'[y][s] = disk[y][s]
          \/ /\ y = year - 1 /\ s = t /\ disk[y][s] # Missing
             /\ disk'[y][s] = Archive!Closed(disk[y][s], v)
          \/ y = year /\ s = t
    /\ year \notin spoiled =>
          \A rows, M : rows = RowsOf(disk'[year][t])
              /\ M = MergedOn(year, t) \cup {v}
                          => Right(rows, t, year, M)
    /\ disk'[year][t] = Missing /\ year > 0 =>
          disk[year - 1][t] = Missing
    /\ disk'[year][t] # Missing => year \in folders
    /\ t = "feed_info" =>
          /\ v \in Recorded(disk'[year][t])
          /\ LocalVersions(year) \subseteq Recorded(disk'[year][t])
          /\ \A c \in Recorded(disk'[year][t]) :
                \/ c = v \/ c \in LocalVersions(year)
                \/ year > 0 /\ c \in LocalVersions(year - 1)

\* A table of a year that has schedules already, or has no year before it.
LEMMA CompressMerges ==
    ASSUME ArchiveInv, MissingIsNoFile, todo # <<>>, NEW v, v = Head(todo),
           NEW t, t = Tables[table], NEW year, year = Archive!Partition(v),
           disk[year][t] # Missing,
           disk' = Archive!Write(year, t, Archive!Merged(disk[year][t], v, t), disk)
    PROVE  FilesCompressed(v, t, year)
<1>1. /\ ArchiveShape /\ FilesInv /\ DiskInv BY DEF ArchiveInv
<1>2. /\ v \in DOMAIN feed /\ year \in Archive!Years /\ year \in Nat
      /\ t \in Archive!TableSet
      /\ MergedOn(year, t) \in SUBSET Of(DOMAIN feed, year)
      /\ MergedOn(year, t) = Of(LocalVersions(year), year)
      /\ \A c \in LocalVersions(year) : c < v /\ feed[c].day <= feed[v].day
  BY HeadFacts
<1>3. PICK file : file = disk[year][t] OBVIOUS
<1>4. PICK merged : merged = Archive!Merged(file, v, t) OBVIOUS
<1>5. disk \in [Archive!Years -> Folder] BY <1>1 DEF ArchiveShape
<1>6. file \in ArchiveFiles BY <1>2, <1>3, <1>5, FolderFile
<1>7. merged \in ArchiveFiles BY <1>1, <1>2, <1>4, <1>6, MergedFile
<1>8. /\ file # Missing /\ RowsOf(file) = file
      /\ merged # Missing /\ RowsOf(merged) = merged
  BY <1>1, <1>6, <1>7, Files
<1>9. /\ disk'[year][t] = merged
      /\ \A y \in Archive!Years, s \in Archive!TableSet :
            <<y, s>> # <<year, t>> => disk'[y][s] = disk[y][s]
  BY <1>2, <1>3, <1>4, <1>5, WrittenFile
<1>10. ASSUME year \notin spoiled, NEW M, M = MergedOn(year, t) \cup {v}
       PROVE  Right(merged, t, year, M)
  <2>1. PICK N : N = MergedOn(year, t) OBVIOUS
  <2>2. N # {} BY <1>1, <1>2, <2>1 DEF DiskInv
  <2>3. Right(file, t, year, N) BY <1>1, <1>2, <1>3, <1>8, <1>10, <2>1 DEF DiskInv
  <2>4. \A c \in N : c < v /\ feed[c].day <= feed[v].day BY <1>2, <2>1 DEF Of
  <2>5. v \in Of(DOMAIN feed, year) /\ N \in SUBSET Of(DOMAIN feed, year)
    BY <1>2, <2>1 DEF Of
  <2>6. Right(merged, t, year, N \cup {v})
    BY <1>1, <1>2, <1>4, <1>6, <2>2, <2>3, <2>4, <2>5, RightMerged
  <2> QED BY <1>10, <2>1, <2>6
<1>11. year \in folders BY <1>1, <1>2 DEF FilesInv
<1>12. ASSUME t = "feed_info"
       PROVE  Recorded(disk'[year][t]) = LocalVersions(year) \cup {v}
  <2>1. RecordsIn(merged) = RecordsIn(file) \cup {v}
    BY <1>1, <1>2, <1>4, <1>6, <1>12, MergedVersions
  <2> QED BY <1>3, <1>8, <1>9, <1>12, <2>1 DEF Recorded, LocalVersions, RecordsIn
<1>13. \A y \in Archive!Years, s \in Archive!TableSet :
          <<y, s>> # <<year, t>> => disk'[y][s] = disk[y][s]
  BY <1>9
<1>14. year \notin spoiled =>
          \A rows, M : rows = RowsOf(disk'[year][t]) /\ M = MergedOn(year, t) \cup {v}
                          => Right(rows, t, year, M)
  BY <1>8, <1>9, <1>10
<1>15. disk'[year][t] # Missing BY <1>8, <1>9
<1>16. t = "feed_info" =>
          /\ v \in Recorded(disk'[year][t])
          /\ LocalVersions(year) \subseteq Recorded(disk'[year][t])
          /\ \A c \in Recorded(disk'[year][t]) : c = v \/ c \in LocalVersions(year)
  BY <1>12
<1> QED BY <1>11, <1>13, <1>14, <1>15, <1>16 DEF FilesCompressed

\* The first schedule of a year: what is in force goes on.
LEMMA CompressContinues ==
    ASSUME ArchiveInv, MissingIsNoFile, todo # <<>>, NEW v, v = Head(todo),
           NEW t, t = Tables[table], NEW year, year = Archive!Partition(v),
           disk[year][t] = Missing, year > 0, disk[year - 1][t] # Missing,
           year \in folders,
           disk' = Archive!Write(year, t,
               Archive!Continued(disk[year - 1][t], v, t),
                       Archive!Write(year - 1, t,
                                     Archive!Closed(disk[year - 1][t], v), disk))
    PROVE  FilesCompressed(v, t, year) /\ MergedOn(year, t) = {}
<1>1. /\ ArchiveShape /\ FilesInv /\ DiskInv BY DEF ArchiveInv
<1>2. /\ v \in DOMAIN feed /\ year \in Archive!Years /\ year \in Nat
      /\ t \in Archive!TableSet
      /\ MergedOn(year, t) = Of(LocalVersions(year), year)
      /\ MergedOn(year, t) = {} =>
            \A u : LastOf(u, year - 1) => u \in MergedOn(year - 1, t)
  BY HeadFacts
<1>3. year - 1 \in Archive!Years /\ year - 1 \in Nat /\ year - 1 # year
  BY <1>2, YearsNat
<1>4. /\ MergedOn(year - 1, t) \in SUBSET Of(DOMAIN feed, year - 1)
      /\ \A c \in LocalVersions(year - 1) : c < v /\ c \in Nat
  BY <1>3, HeadFacts
<1>5. MergedOn(year, t) = {} BY <1>1, <1>2 DEF DiskInv
<1>6. PICK file : file = disk[year - 1][t] OBVIOUS
<1>7. PICK continued : continued = Archive!Continued(file, v, t) OBVIOUS
<1>8. disk \in [Archive!Years -> Folder] BY <1>1 DEF ArchiveShape
<1>9. file \in ArchiveFiles BY <1>2, <1>3, <1>6, <1>8, FolderFile
<1>10. continued \in ArchiveFiles BY <1>1, <1>2, <1>7, <1>9, ContinuedFile
<1>11. /\ file # Missing /\ RowsOf(file) = file
       /\ continued # Missing /\ RowsOf(continued) = continued
  BY <1>1, <1>9, <1>10, Files
<1>12. /\ disk'[year][t] = continued
       /\ disk'[year - 1][t] = Archive!Closed(file, v)
       /\ \A y \in Archive!Years, s \in Archive!TableSet :
             <<y, s>> # <<year, t>> /\ <<y, s>> # <<year - 1, t>>
                => disk'[y][s] = disk[y][s]
  <2>1. PICK closed : closed = Archive!Closed(file, v) OBVIOUS
  <2>2. PICK before : before = year - 1 OBVIOUS
  <2>3. PICK between : between = Archive!Write(before, t, closed, disk) OBVIOUS
  <2>4. disk' = Archive!Write(year, t, continued, between)
    BY <1>6, <1>7, <2>1, <2>2, <2>3
  <2>5. before \in Archive!Years /\ year \in Archive!Years /\ t \in Archive!TableSet
    BY <1>2, <1>3, <2>2
  <2>6. between \in [Archive!Years -> Folder]
    <3>1. closed \in ArchiveFiles BY <1>1, <1>2, <1>3, <1>9, <2>1, ClosedFile
    <3> QED BY <1>8, <2>3, <2>5, <3>1, WriteFolder
  <2>7. \A y \in Archive!Years, s \in Archive!TableSet :
           between[y][s] = IF y = before /\ s = t THEN closed ELSE disk[y][s]
    BY <1>8, <2>3, <2>5, WrittenFile
  <2>8. \A y \in Archive!Years, s \in Archive!TableSet :
           disk'[y][s] = IF y = year /\ s = t THEN continued ELSE between[y][s]
    BY <2>4, <2>5, <2>6, WrittenFile
  <2>9. before # year BY <1>2, <2>2
  <2>10. disk'[year][t] = continued /\ disk'[before][t] = closed
    BY <2>5, <2>7, <2>8, <2>9
  <2>11. \A y \in Archive!Years, s \in Archive!TableSet :
            <<y, s>> # <<year, t>> /\ <<y, s>> # <<before, t>>
               => disk'[y][s] = disk[y][s]
    BY <2>7, <2>8
  <2> QED BY <2>1, <2>2, <2>10, <2>11, Zenon
<1>13. ASSUME year \notin spoiled, NEW M, M = MergedOn(year, t) \cup {v}
       PROVE  Right(continued, t, year, M)
  <2>1. PICK N : N = MergedOn(year - 1, t) OBVIOUS
  <2>2. year - 1 \notin spoiled => Right(file, t, year - 1, N)
    BY <1>1, <1>2, <1>3, <1>6, <1>11, <2>1 DEF DiskInv
  <2>3. \A u : LastOf(u, year - 1) => u \in N BY <1>2, <1>5, <2>1
  <2>4. v \in Of(DOMAIN feed, year) /\ N \in SUBSET Of(DOMAIN feed, year - 1)
    BY <1>2, <1>4, <2>1 DEF Of
  <2>5. Right(continued, t, year, {v})
    BY <1>1, <1>2, <1>7, <1>9, <2>2, <2>3, <2>4, RightContinued
  <2> QED BY <1>5, <1>13, <2>5
<1>14. ASSUME t = "feed_info"
       PROVE  /\ v \in Recorded(disk'[year][t])
              /\ LocalVersions(year) = {}
              /\ \A c \in Recorded(disk'[year][t]) :
                    c = v \/ c \in LocalVersions(year - 1)
  <2>1. RecordsIn(file) = LocalVersions(year - 1)
    BY <1>6, <1>11, <1>14 DEF LocalVersions, Recorded, RecordsIn
  <2>2. v \notin RecordsIn(file)
    <3>1. v \in Nat BY <1>1, <1>2, FeedFacts
    <3> QED BY <1>4, <2>1, <3>1
  <2>3. /\ v \in RecordsIn(continued)
        /\ RecordsIn(continued) \subseteq RecordsIn(file) \cup {v}
    BY <1>1, <1>2, <1>7, <1>9, <1>14, <2>2, ContinuedVersions
  <2>4. Recorded(disk'[year][t]) = RecordsIn(continued)
    BY <1>11, <1>12 DEF Recorded, RecordsIn
  <2>5. LocalVersions(year) = {} BY <1>14 DEF LocalVersions, Recorded, RowsOf
  <2> QED BY <2>1, <2>3, <2>4, <2>5
<1> QED
  <2>1. ASSUME NEW y \in Archive!Years, NEW s \in Archive!TableSet
        PROVE  \/ <<y, s>> # <<year, t>> /\ disk'[y][s] = disk[y][s]
               \/ /\ y = year - 1 /\ s = t /\ disk[y][s] # Missing
                  /\ disk'[y][s] = Archive!Closed(disk[y][s], v)
               \/ y = year /\ s = t
    BY <1>6, <1>12
  <2>2. year \notin spoiled =>
           \A rows, M : rows = RowsOf(disk'[year][t])
               /\ M = MergedOn(year, t) \cup {v}
                           => Right(rows, t, year, M)
    <3> SUFFICES ASSUME year \notin spoiled, NEW rows, NEW M,
                        rows = RowsOf(disk'[year][t]),
                            M = MergedOn(year, t) \cup {v}
                 PROVE  Right(rows, t, year, M)
      OBVIOUS
    <3>1. rows = continued BY <1>11, <1>12
    <3> QED BY <1>13, <3>1
  <2>3. disk'[year][t] # Missing BY <1>11, <1>12
  <2> QED BY <1>5, <1>14, <2>1, <2>2, <2>3 DEF FilesCompressed

\* There is no file to continue.
LEMMA CompressStarts ==
    ASSUME ArchiveInv, MissingIsNoFile, todo # <<>>, NEW v, v = Head(todo),
           NEW t, t = Tables[table], NEW year, year = Archive!Partition(v),
           disk[year][t] = Missing, year > 0 => disk[year - 1][t] = Missing,
           NEW rows, rows = Archive!New({}, v, t, 0),
           rows # {} => year \in folders,
           disk' = IF rows = {} THEN disk ELSE Archive!Write(year, t, rows, disk)
    PROVE  FilesCompressed(v, t, year)
<1>1. /\ ArchiveShape /\ FilesInv /\ DiskInv BY DEF ArchiveInv
<1>2. /\ v \in DOMAIN feed /\ year \in Archive!Years /\ year \in Nat
      /\ t \in Archive!TableSet
      /\ MergedOn(year, t) \in SUBSET Of(DOMAIN feed, year)
      /\ MergedOn(year, t) = Of(LocalVersions(year), year)
      /\ \A c \in LocalVersions(year) : c < v /\ feed[c].day <= feed[v].day
      /\ year > 0 /\ MergedOn(year, t) = {} =>
            \A u : LastOf(u, year - 1) => u \in MergedOn(year - 1, t)
  BY HeadFacts
<1>3. disk \in [Archive!Years -> Folder] BY <1>1 DEF ArchiveShape
<1>4. rows \in ArchiveFiles BY <1>1, <1>2, NewRows
<1>5. rows # Missing /\ RowsOf(rows) = rows BY <1>1, <1>4, Files
<1>6. /\ RowsOf(disk'[year][t]) = rows
      /\ disk'[year][t] # Missing => rows # {}
      /\ \A y \in Archive!Years, s \in Archive!TableSet :
            <<y, s>> # <<year, t>> => disk'[y][s] = disk[y][s]
  <2>1. CASE rows = {} BY <2>1 DEF RowsOf
  <2>2. CASE rows # {}
    <3>1. disk' = Archive!Write(year, t, rows, disk) BY <2>2
    <3> QED BY <1>2, <1>3, <1>5, <2>2, <3>1, WrittenFile
  <2> QED BY <2>1, <2>2
<1>7. {} \in ArchiveFiles BY FileRows
<1>8. v \in Of(DOMAIN feed, year) BY <1>2 DEF Of
<1>9. ASSUME year \notin spoiled, NEW M, M = MergedOn(year, t) \cup {v}
      PROVE  Right(rows, t, year, M)
  <2>1. PICK N : N = MergedOn(year, t) OBVIOUS
  <2>2. CASE N # {} \/ year = 0
    <3>1. Right({}, t, year, N) BY <1>1, <1>2, <1>9, <2>1 DEF DiskInv, RowsOf
    <3>2. rows = Archive!Merged({}, v, t) BY <1>1, <1>2, NewFile
    <3>3. \A c \in N : c < v /\ feed[c].day <= feed[v].day BY <1>2, <2>1 DEF Of
    <3>4. N \in SUBSET Of(DOMAIN feed, year) BY <1>2, <2>1
    <3>5. Right(rows, t, year, N \cup {v})
      BY <1>1, <1>2, <1>7, <1>8, <2>2, <3>1, <3>2, <3>3, <3>4, RightMerged
    <3> QED BY <1>9, <2>1, <3>5
  <2>3. CASE N = {} /\ year # 0
    <3>1. PICK P : P = MergedOn(year - 1, t) OBVIOUS
    <3>2. /\ year > 0 /\ year - 1 \in Archive!Years BY <1>2, <2>3, YearsNat
    <3>3. P \in SUBSET Of(DOMAIN feed, year - 1) BY <3>1, <3>2, HeadFacts
    <3>4. PICK none : none = {} OBVIOUS
    <3>5. year - 1 \notin spoiled => Right(none, t, year - 1, P)
      BY <1>1, <1>2, <3>1, <3>2, <3>4 DEF DiskInv, RowsOf
    <3>6. \A u : LastOf(u, year - 1) => u \in P BY <1>2, <2>1, <2>3, <3>1, <3>2
    <3>7. rows = Archive!Continued(none, v, t) BY <1>1, <1>2, <3>4, NewFile
    <3>8. none \in ArchiveFiles BY <1>7, <3>4
    <3>9. Right(Archive!Continued(none, v, t), t, year, {v})
      BY <1>1, <1>2, <1>8, <3>2, <3>3, <3>5, <3>6, <3>8, RightContinued
    <3>10. Right(rows, t, year, {v}) BY <3>7, <3>9
    <3> QED BY <1>9, <2>1, <2>3, <3>10
  <2> QED BY <2>2, <2>3
<1>10. ASSUME t = "feed_info"
       PROVE  Recorded(disk'[year][t]) = {v} /\ LocalVersions(year) = {}
  <2>1. RecordsIn(rows) = {v}
    <3>1. Archive!Content(v, t) = {v} BY <1>10 DEF Archive!Content
    <3>2. rows = {Archive!Row(v, Archive!ActiveFrom(v), Archive!ActiveTo(v))}
      BY <3>1 DEF Archive!New, Archive!RowsAt
    <3>3. Archive!Row(v, Archive!ActiveFrom(v), Archive!ActiveTo(v)).record = v
      BY DEF Archive!Row
    <3>4. \A x : RecordsIn({x}) = {x.record} BY DEF RecordsIn
    <3> QED BY <3>2, <3>3, <3>4
  <2>2. LocalVersions(year) = {} BY <1>10 DEF LocalVersions, Recorded, RowsOf
  <2> QED BY <1>6, <2>1, <2>2 DEF Recorded, RecordsIn
<1> QED BY <1>6, <1>9, <1>10 DEF FilesCompressed

LEMMA TableCompressed ==
    ASSUME ArchiveInv, MissingIsNoFile, Archive!CompressTable, NEW v, v = Head(todo),
           NEW t, t = Tables[table], NEW year, year = Archive!Partition(v)
    PROVE  FilesCompressed(v, t, year)
<1>1. todo # <<>> BY DEF Archive!CompressTable
<1> DEFINE rows == Archive!New({}, v, t, 0)
<1>2. \/ /\ disk[year][t] # Missing
         /\ disk' = Archive!Write(year, t, Archive!Merged(disk[year][t], v, t),
                disk)
      \/ /\ disk[year][t] = Missing /\ year > 0 /\ disk[year - 1][t] # Missing
         /\ year \in folders
         /\ disk' = Archive!Write(year, t,
                Archive!Continued(disk[year - 1][t], v, t),
                        Archive!Write(year - 1, t,
                                      Archive!Closed(disk[year - 1][t], v), disk))
      \/ /\ disk[year][t] = Missing
         /\ year > 0 => disk[year - 1][t] = Missing
         /\ rows # {} => year \in folders
         /\ disk' = IF rows = {} THEN disk ELSE Archive!Write(year, t, rows, disk)
  BY DEF Archive!CompressTable
<1>3. CASE /\ disk[year][t] # Missing
           /\ disk' = Archive!Write(year, t,
                  Archive!Merged(disk[year][t], v, t), disk)
  BY <1>1, <1>3, CompressMerges
<1>4. CASE /\ disk[year][t] = Missing /\ year > 0 /\ disk[year - 1][t] # Missing
           /\ year \in folders
           /\ disk' = Archive!Write(year, t,
                  Archive!Continued(disk[year - 1][t], v, t),
                          Archive!Write(year - 1, t,
                                        Archive!Closed(disk[year - 1][t], v), disk))
  BY <1>1, <1>4, CompressContinues
<1>5. CASE /\ disk[year][t] = Missing
           /\ year > 0 => disk[year - 1][t] = Missing
           /\ rows # {} => year \in folders
           /\ disk' = IF rows = {} THEN disk ELSE Archive!Write(year, t, rows, disk)
  <2>1. PICK r : r = rows OBVIOUS
  <2>2. /\ r = Archive!New({}, v, t, 0) /\ (r # {} => year \in folders)
        /\ disk' = IF r = {} THEN disk ELSE Archive!Write(year, t, r, disk)
    BY <1>5, <2>1
  <2> HIDE DEF rows
  <2> QED BY <1>1, <1>5, <2>2, CompressStarts
<1> HIDE DEF rows
<1> QED BY <1>2, <1>3, <1>4, <1>5

\* A file that is closed is not missing, and has its schedules.
LEMMA ClosedStays ==
    ASSUME ArchiveShape, MissingIsNoFile, NEW v \in DOMAIN feed,
           Archive!Partition(v) > 0, NEW file \in {Missing} \cup ArchiveFiles,
           file # Missing
    PROVE  LET closed == Archive!Closed(file, v)
           IN /\ closed \in ArchiveFiles
              /\ closed # Missing /\ RowsOf(closed) = closed
              /\ RowsOf(file) = file
              /\ Recorded(closed) = Recorded(file)
<1>1. file \in ArchiveFiles OBVIOUS
<1>2. PICK closed : closed = Archive!Closed(file, v) OBVIOUS
<1>3. closed \in ArchiveFiles BY <1>1, <1>2, ClosedFile
<1>4. closed # Missing /\ RowsOf(closed) = closed /\ RowsOf(file) = file
  BY <1>1, <1>3, Files
<1>5. RecordsIn(closed) = RecordsIn(file) BY <1>1, <1>2, ClosedVersions
<1>6. Recorded(closed) = Recorded(file) BY <1>4, <1>5 DEF Recorded, RecordsIn
<1> QED BY <1>2, <1>3, <1>4, <1>6

LEMMA CompressedVersions ==
    ASSUME ArchiveInv, MissingIsNoFile, todo # <<>>, NEW v, v = Head(todo),
           NEW t, t = Tables[table], NEW year, year = Archive!Partition(v),
           FilesCompressed(v, t, year), UNCHANGED feed
    PROVE  /\ \A y \in Archive!Years :
                 y # year \/ t # "feed_info" => LocalVersions(y)' = LocalVersions(y)
           /\ t = "feed_info" =>
                 /\ v \in LocalVersions(year)'
                 /\ LocalVersions(year) \subseteq LocalVersions(year)'
                 /\ \A c \in LocalVersions(year)' :
                       /\ c \in DOMAIN feed /\ Archive!Partition(c) <= year
                              /\ c <= v
                       /\ c = v \/ c \in LocalVersions(year)
                              \/ Archive!Partition(c) < year
<1>1. /\ ArchiveShape /\ FilesInv BY DEF ArchiveInv
<1>2. /\ v \in DOMAIN feed /\ v \in Nat /\ year \in Archive!Years /\ year \in Nat
      /\ t \in Archive!TableSet
      /\ \A y \in Archive!Years : \A c \in LocalVersions(y) :
            c \in DOMAIN feed /\ c \in Nat /\ c < v
  BY HeadFacts
<1>3. disk \in [Archive!Years -> Folder] BY <1>1 DEF ArchiveShape
<1>4. ASSUME NEW y \in Archive!Years, y # year \/ t # "feed_info"
      PROVE  LocalVersions(y)' = LocalVersions(y)
  <2>1. CASE disk'[y]["feed_info"] = disk[y]["feed_info"]
    BY <2>1 DEF LocalVersions, Recorded
  <2>2. CASE /\ y = year - 1 /\ disk[y]["feed_info"] # Missing
             /\ disk'[y]["feed_info"] = Archive!Closed(disk[y]["feed_info"], v)
    <3>1. Archive!Partition(v) > 0 BY <1>2, <2>2, YearsNat
    <3>2. disk[y]["feed_info"] \in {Missing} \cup ArchiveFiles
      BY <1>3, FolderFile, FeedInfoTable
    <3>3. PICK file : file = disk[y]["feed_info"] OBVIOUS
    <3>4. Recorded(Archive!Closed(file, v)) = Recorded(file)
      BY <1>1, <1>2, <2>2, <3>1, <3>2, <3>3, ClosedStays
    <3>5. Recorded(disk'[y]["feed_info"]) = Recorded(disk[y]["feed_info"])
      BY <2>2, <3>3, <3>4
    <3> QED BY <3>5 DEF LocalVersions, Recorded
  <2> QED BY <1>4, <2>1, <2>2, FeedInfoTable DEF FilesCompressed
<1>5. ASSUME t = "feed_info"
      PROVE  /\ v \in LocalVersions(year)'
             /\ LocalVersions(year) \subseteq LocalVersions(year)'
             /\ \A c \in LocalVersions(year)' :
                   /\ c \in DOMAIN feed /\ Archive!Partition(c) <= year /\ c <= v
                   /\ c = v \/ c \in LocalVersions(year)
                          \/ Archive!Partition(c) < year
  <2>1. LocalVersions(year)' = Recorded(disk'[year][t])
    BY <1>5 DEF LocalVersions, Recorded
  <2>2. ASSUME NEW c \in LocalVersions(year)'
        PROVE  /\ c \in DOMAIN feed /\ Archive!Partition(c) <= year /\ c <= v
               /\ c = v \/ c \in LocalVersions(year) \/ Archive!Partition(c) < year
    <3>1. CASE c = v BY <1>2, <3>1
    <3>2. CASE c \in LocalVersions(year) BY <1>1, <1>2, <3>2 DEF FilesInv
    <3>3. CASE year > 0 /\ c \in LocalVersions(year - 1)
      <4>1. year - 1 \in Archive!Years BY <1>2, <3>3, YearsNat
      <4>2. c \in DOMAIN feed /\ Archive!Partition(c) <= year - 1
        BY <1>1, <3>3, <4>1 DEF FilesInv
      <4>3. Archive!Partition(c) \in Nat BY <1>1, <4>2, VersionDays
      <4> QED BY <1>2, <3>3, <4>1, <4>2, <4>3
    <3> QED BY <1>5, <2>1, <2>2, <3>1, <3>2, <3>3 DEF FilesCompressed
  <2> QED BY <1>5, <2>1, <2>2 DEF FilesCompressed
<1> QED BY <1>4, <1>5

NextTableOrSchedule ==
    \/ /\ table < Len(Tables) /\ table' = table + 1 /\ todo' = todo
       /\ compressed' = compressed
    \/ /\ ~(table < Len(Tables)) /\ table' = 1 /\ todo' = Tail(todo)
       /\ compressed' = compressed \cup {Head(todo)}

LEMMA CompressedTables ==
    ASSUME ArchiveInv, todo # <<>>, NEW v, v = Head(todo), NEW t, t = Tables[table],
           NextTableOrSchedule
    PROVE  /\ t # "feed_info" =>
                 /\ todo' = todo /\ compressed' = compressed
                 /\ Waiting' = Waiting /\ InHand' = {v} /\ Done' = Done \cup {t}
           /\ t = "feed_info" =>
                 /\ compressed' = compressed \cup {v} /\ Waiting' = Waiting \ {v}
                 /\ Done = Archive!TableSet \ {t} /\ Done' = {}
           /\ \A i, j \in DOMAIN todo' : i < j => todo'[i] < todo'[j]
           /\ todo' = <<>> => table' = 1
<1>1. ArchiveShape /\ OrderInv BY DEF ArchiveInv
<1>2. /\ Tables \in Seq(STRING) /\ Len(Tables) \in Nat
             /\ DOMAIN Tables = 1..Len(Tables)
      /\ table \in 1..Len(Tables)
      /\ Tables[Len(Tables)] = "feed_info" /\ Len(Tables) \in DOMAIN Tables
      /\ \A i, j \in DOMAIN Tables : Tables[i] = Tables[j] => i = j
  BY <1>1, NextTable, ExportsAssumption DEF ArchiveShape
<1>3. table < Len(Tables) <=> t # "feed_info" BY <1>2
<1>4. todo \in Seq(DOMAIN feed) BY <1>1 DEF ArchiveShape
<1>5. ASSUME t # "feed_info"
      PROVE  /\ todo' = todo /\ compressed' = compressed
             /\ Waiting' = Waiting /\ InHand' = {v} /\ Done' = Done \cup {t}
  <2>1. /\ table' = table + 1 /\ todo' = todo /\ compressed' = compressed
    BY <1>3, <1>5 DEF NextTableOrSchedule
  <2>2. 1..((table + 1) - 1) = 1..(table - 1) \cup {table} BY <1>2
  <2>3. Done' = Done \cup {t} BY <2>1, <2>2 DEF Done
  <2> QED BY <2>1, <2>3 DEF Waiting, InHand
<1>6. ASSUME t = "feed_info"
      PROVE  /\ compressed' = compressed \cup {v} /\ Waiting' = Waiting \ {v}
             /\ Done = Archive!TableSet \ {t} /\ Done' = {}
             /\ \A i, j \in DOMAIN todo' : i < j => todo'[i] < todo'[j]
             /\ table' = 1
  <2>1. table' = 1 /\ todo' = Tail(todo) /\ compressed' = compressed \cup {v}
    BY <1>3, <1>6 DEF NextTableOrSchedule
  <2>2. table = Len(Tables) BY <1>2, <1>3, <1>6
  <2>3. Done = Archive!TableSet \ {t}
    <3>1. \A i \in DOMAIN Tables : i \in 1..(table - 1) <=> Tables[i] # t
      BY <1>2, <1>6, <2>2
    <3>2. 1..(table - 1) \subseteq DOMAIN Tables BY <1>2
    <3> QED BY <3>1, <3>2 DEF Done, Archive!TableSet
  <2>4. Done' = {} BY <2>1 DEF Done
  <2>5. /\ Len(todo) \in Nat /\ Len(todo) > 0 /\ DOMAIN todo = 1..Len(todo)
        /\ DOMAIN todo' = 1..(Len(todo) - 1)
        /\ \A i \in 1..(Len(todo) - 1) : todo'[i] = todo[i + 1]
        /\ v = todo[1]
        /\ \A i \in DOMAIN todo : todo[i] \in Nat
    <3>1. \A i \in DOMAIN todo : todo[i] \in DOMAIN feed BY <1>4
    <3> QED BY <1>1, <1>4, <2>1, <3>1, FeedFacts
  <2>6. \A i, j \in DOMAIN todo' : i < j => todo'[i] < todo'[j]
    <3> SUFFICES ASSUME NEW i \in DOMAIN todo', NEW j \in DOMAIN todo', i < j
                 PROVE  todo'[i] < todo'[j]
      OBVIOUS
    <3>1. /\ i + 1 \in DOMAIN todo /\ j + 1 \in DOMAIN todo /\ i + 1 < j + 1 BY <2>5
    <3> QED BY <1>1, <2>5, <3>1 DEF OrderInv
  <2>7. Waiting' = Waiting \ {v}
    <3>1. ASSUME NEW i \in DOMAIN todo, i # 1
          PROVE  /\ i - 1 \in DOMAIN todo' /\ todo'[i - 1] = todo[i] /\ todo[i] # v
      <4>1. i - 1 \in 1..(Len(todo) - 1) /\ (i - 1) + 1 = i BY <2>5, <3>1
      <4>2. 1 \in DOMAIN todo /\ 1 < i BY <2>5, <3>1
      <4>3. todo[1] < todo[i] BY <1>1, <4>2 DEF OrderInv
      <4> QED BY <2>5, <4>1, <4>2, <4>3
    <3>2. ASSUME NEW i \in DOMAIN todo'
          PROVE  /\ i + 1 \in DOMAIN todo /\ todo'[i] = todo[i + 1] /\ i + 1 # 1
      BY <2>5
    <3>3. \A x \in Waiting' : x \in Waiting \ {v}
      <4> SUFFICES ASSUME NEW i \in DOMAIN todo' PROVE todo'[i] \in Waiting \ {v}
        BY DEF Waiting
      <4>1. /\ i + 1 \in DOMAIN todo /\ todo'[i] = todo[i + 1] /\ i + 1 # 1 BY <3>2
      <4>2. todo[i + 1] # v BY <3>1, <4>1
      <4> QED BY <4>1, <4>2 DEF Waiting
    <3>4. \A x \in Waiting \ {v} : x \in Waiting'
      <4> SUFFICES ASSUME NEW i \in DOMAIN todo, todo[i] # v
                          PROVE todo[i] \in Waiting'
        BY DEF Waiting
      <4>1. i # 1 BY <2>5
      <4>2. i - 1 \in DOMAIN todo' /\ todo'[i - 1] = todo[i] BY <3>1, <4>1
      <4> QED BY <4>2 DEF Waiting
    <3> QED BY <3>3, <3>4
  <2> QED BY <2>1, <2>3, <2>4, <2>6, <2>7
<1>7. t # "feed_info" => \A i, j \in DOMAIN todo' : i < j => todo'[i] < todo'[j]
  BY <1>1, <1>5 DEF OrderInv
<1> QED BY <1>5, <1>6, <1>7

LEMMA CompressedMerged ==
    ASSUME ArchiveInv, MissingIsNoFile, todo # <<>>, NEW v, v = Head(todo),
           NEW t, t = Tables[table], NEW year, year = Archive!Partition(v),
           FilesCompressed(v, t, year), UNCHANGED feed, NextTableOrSchedule
    PROVE  /\ MergedOn(year, t)' = MergedOn(year, t) \cup {v}
           /\ \A y \in Archive!Years, s \in Archive!TableSet :
                 <<y, s>> # <<year, t>> => MergedOn(y, s)' = MergedOn(y, s)
           /\ \A y \in Archive!Years : /\ Known(y)' = Known(y)
                                       /\ Of(LocalVersions(y), y) \subseteq
                                             Of(LocalVersions(y), y)'
                                       /\ Of(Waiting, y)' \subseteq Of(Waiting, y)
<1>1. \A w : Archive!Partition(w)' = Archive!Partition(w)
  BY DEF Archive!Partition, Archive!ActiveFrom
<1>2. /\ v \in DOMAIN feed /\ v \in Nat /\ v \in Waiting /\ InHand = {v}
      /\ year \in Archive!Years /\ year \in Nat
      /\ t \in Archive!TableSet /\ t \notin Done
      /\ MergedOn(year, t) = Of(LocalVersions(year), year)
  BY HeadFacts
<1>3. /\ t # "feed_info"
             => Waiting' = Waiting /\ InHand' = {v} /\ Done' = Done \cup {t}
      /\ t = "feed_info" =>
            /\ Waiting' = Waiting \ {v} /\ Done = Archive!TableSet \ {t}
                   /\ Done' = {}
  BY CompressedTables
<1>4. /\ \A y \in Archive!Years :
            y # year \/ t # "feed_info" => LocalVersions(y)' = LocalVersions(y)
      /\ t = "feed_info" =>
            /\ v \in LocalVersions(year)'
            /\ LocalVersions(year) \subseteq LocalVersions(year)'
            /\ \A c \in LocalVersions(year)' :
                  c = v \/ c \in LocalVersions(year) \/ Archive!Partition(c) < year
  BY CompressedVersions
<1>5. CASE t # "feed_info"
  <2>1. \A y \in Archive!Years :
           /\ LocalVersions(y)' = LocalVersions(y)
           /\ Of(LocalVersions(y), y)' = Of(LocalVersions(y), y)
           /\ Of(Waiting, y)' = Of(Waiting, y)
           /\ Of(InHand, y)' = Of(InHand, y)
    BY <1>1, <1>2, <1>3, <1>4, <1>5 DEF Of
  <2>2. Of(InHand, year) = {v} /\ \A y : y # year => Of(InHand, y) = {}
    BY <1>2 DEF Of
  <2>3. MergedOn(year, t)' = MergedOn(year, t) \cup {v}
    BY <1>2, <1>3, <1>5, <2>1, <2>2 DEF MergedOn
  <2>4. ASSUME NEW y \in Archive!Years, NEW s \in Archive!TableSet,
               <<y, s>> # <<year, t>>
        PROVE  MergedOn(y, s)' = MergedOn(y, s)
    <3>1. CASE y # year BY <2>1, <2>2, <3>1 DEF MergedOn
    <3>2. CASE s # t
      <4>1. s \in Done' <=> s \in Done BY <1>3, <1>5, <3>2
      <4> QED BY <2>1, <4>1 DEF MergedOn
    <3> QED BY <2>4, <3>1, <3>2
  <2>5. \A y \in Archive!Years : Known(y)' = Known(y)
    <3> SUFFICES ASSUME NEW y \in Archive!Years PROVE Known(y)' = Known(y) OBVIOUS
    <3>1. (LocalVersions(y) \cup Waiting)' = LocalVersions(y) \cup Waiting
      BY <1>3, <1>5, <2>1
    <3> QED BY <1>1, <3>1 DEF Known, Of
  <2> QED BY <2>1, <2>3, <2>4, <2>5
<1>6. CASE t = "feed_info"
  <2>1. Of(LocalVersions(year), year)' = Of(LocalVersions(year), year) \cup {v}
    <3>1. Of(LocalVersions(year), year)' =
             {c \in LocalVersions(year)' : Archive!Partition(c) = year}
      BY <1>1 DEF Of
    <3>2. Archive!Partition(v) = year OBVIOUS
    <3>3. \A c : Archive!Partition(c) = year => ~(Archive!Partition(c) < year)
      BY <1>2
    <3> QED BY <1>4, <1>6, <3>1, <3>2, <3>3 DEF Of
  <2>2. \A y \in Archive!Years : y # year =>
           /\ LocalVersions(y)' = LocalVersions(y)
           /\ Of(LocalVersions(y), y)' = Of(LocalVersions(y), y)
    BY <1>1, <1>4 DEF Of
  <2>3. \A y, s : MergedOn(y, s)' = Of(LocalVersions(y), y)'
    BY <1>3, <1>6 DEF MergedOn
  <2>4. MergedOn(year, t)' = MergedOn(year, t) \cup {v} BY <1>2, <2>1, <2>3
  <2>5. ASSUME NEW y \in Archive!Years, NEW s \in Archive!TableSet,
               <<y, s>> # <<year, t>>
        PROVE  MergedOn(y, s)' = MergedOn(y, s)
    <3>1. CASE y # year
      <4>1. Of(InHand, y) = {} BY <1>2, <3>1 DEF Of
      <4> QED BY <2>2, <2>3, <3>1, <4>1 DEF MergedOn
    <3>2. CASE y = year /\ s # t
      <4>1. s \in Done /\ Of(InHand, year) = {v} BY <1>2, <1>3, <1>6, <3>2 DEF Of
      <4> QED BY <2>1, <2>3, <3>2, <4>1 DEF MergedOn
    <3> QED BY <2>5, <3>1, <3>2
  <2>6. \A y \in Archive!Years : Known(y)' = Known(y) /\ Of(Waiting, y)' \subseteq Of(Waiting, y)
    <3> SUFFICES ASSUME NEW y \in Archive!Years
                 PROVE  Known(y)' = Known(y)
                        /\ Of(Waiting, y)' \subseteq Of(Waiting, y)
      OBVIOUS
    <3>1. Of(Waiting, y)' = Of(Waiting, y) \ {v} BY <1>1, <1>3, <1>6 DEF Of
    <3>2. Known(y) = Of(LocalVersions(y), y) \cup Of(Waiting, y) BY DEF Known, Of
    <3>3. Known(y)' = Of(LocalVersions(y), y)' \cup Of(Waiting, y)' BY DEF Known, Of
    <3>4. CASE y = year
      <4>1. v \in Of(Waiting, y) BY <1>2, <3>4 DEF Of
      <4> QED BY <2>1, <3>1, <3>2, <3>3, <3>4, <4>1
    <3>5. CASE y # year
      <4>1. v \notin Of(Waiting, y) BY <3>5 DEF Of
      <4> QED BY <2>2, <3>1, <3>2, <3>3, <3>5, <4>1
    <3> QED BY <3>1, <3>4, <3>5
  <2> QED BY <2>1, <2>2, <2>4, <2>5, <2>6
<1> QED BY <1>5, <1>6

\* The invariants that depend on the files only by the schedules they have.
LEMMA CompressedFilesInv ==
    ASSUME ArchiveInv, UNCHANGED <<feed, bucket, folders>>,
           \A y \in Archive!Years :
              /\ \A c \in LocalVersions(y)' : c \in DOMAIN feed
                     /\ Archive!Partition(c) <= y
              /\ disk'[y]["feed_info"] # Missing => Of(LocalVersions(y), y)' # {}
              /\ \A t \in Archive!TableSet : disk'[y][t] # Missing => y \in folders
    PROVE  FilesInv'
<1>1. FilesInv BY DEF ArchiveInv
<1>2. /\ \A y : BucketVersions(y)' = BucketVersions(y)
      /\ \A y : PublishedIn(y)' = PublishedIn(y)
      /\ \A y : Archive!InBucket(y)' = Archive!InBucket(y)
      /\ \A v : Archive!Partition(v)' = Archive!Partition(v)
  BY DEF BucketVersions, Recorded, PublishedIn, Archive!InBucket, Archive!Partition,
         Archive!ActiveFrom
<1>3. \A y : /\ Of(BucketVersions(y), y)' = Of(BucketVersions(y), y)
             /\ Of(DOMAIN feed, y)' = Of(DOMAIN feed, y)
  BY <1>2 DEF Of
<1> QED BY <1>1, <1>2, <1>3 DEF FilesInv

LEMMA CompressedKnownInv ==
    ASSUME ArchiveInv, UNCHANGED <<feed, bucket, folders, archived>>,
           \A y \in Archive!Years : /\ Known(y)' = Known(y)
                                    /\ Of(LocalVersions(y), y) \subseteq
                                          Of(LocalVersions(y), y)'
                                    /\ Of(Waiting, y)' \subseteq Of(Waiting, y)
    PROVE  KnownInv'
<1>1. KnownInv BY DEF ArchiveInv
<1>2. /\ \A y : Archive!InBucket(y)' = Archive!InBucket(y)
      /\ \A v : Archive!Partition(v)' = Archive!Partition(v)
      /\ Archive!Listed' = Archive!Listed
  BY DEF Archive!InBucket, Archive!Partition, Archive!ActiveFrom, Archive!Listed
<1>3. \A y : /\ Of(Archive!Listed, y)' = Of(Archive!Listed, y)
             /\ Of(Archive!Listed \cap archived, y)'
                    = Of(Archive!Listed \cap archived, y)
  BY <1>2 DEF Of
<1> SUFFICES ASSUME NEW y \in Archive!Years
             PROVE  /\ \A c \in Known(y)', w \in Of(Archive!Listed, y) :
                          w < c => w \in Known(y)'
                    /\ y \in folders /\ Known(y)' # {} =>
                          \A w \in Of(Archive!Listed, y) :
                             Archive!Year(feed[w].day) = y - 1 => w \in Known(y)'
                    /\ Known(y)' # {} =>
                          Of(Archive!Listed \cap archived, y) \subseteq Known(y)'
                    /\ y > 0 /\ Of(LocalVersions(y), y)' = {}
                           /\ Of(Waiting, y)' # {} =>
                          Of(Archive!Listed, y - 1) \subseteq Known(y - 1)'
                    /\ Archive!InBucket(y) /\ (\E z \in 0..y : Known(z)' # {})
                          => Known(y)' # {}
  BY <1>2, <1>3 DEF KnownInv
<1>4. /\ \A c \in Known(y), w \in Of(Archive!Listed, y) : w < c => w \in Known(y)
      /\ y \in folders /\ Known(y) # {} =>
            \A w \in Of(Archive!Listed, y) :
               Archive!Year(feed[w].day) = y - 1 => w \in Known(y)
      /\ Known(y) # {} => Of(Archive!Listed \cap archived, y) \subseteq Known(y)
      /\ y > 0 /\ Of(LocalVersions(y), y) = {} /\ Of(Waiting, y) # {} =>
            Of(Archive!Listed, y - 1) \subseteq Known(y - 1)
      /\ Archive!InBucket(y) /\ (\E z \in 0..y : Known(z) # {}) => Known(y) # {}
  BY <1>1 DEF KnownInv
<1>5. y \in Nat /\ (y > 0 => y - 1 \in Archive!Years)
          /\ 0..y \subseteq Archive!Years
  BY YearsNat
<1>6. Known(y)' = Known(y) /\ \A z \in 0..y : Known(z)' = Known(z) BY <1>5
<1>7. y > 0 /\ Of(LocalVersions(y), y)' = {} /\ Of(Waiting, y)' # {} =>
         Of(Archive!Listed, y - 1) \subseteq Known(y - 1)'
  <2>1. y > 0 => Known(y - 1)' = Known(y - 1) BY <1>5
  <2>2. Of(LocalVersions(y), y)' = {} => Of(LocalVersions(y), y) = {} OBVIOUS
  <2>3. Of(Waiting, y)' # {} => Of(Waiting, y) # {} OBVIOUS
  <2> QED BY <1>4, <2>1, <2>2, <2>3
<1> QED BY <1>4, <1>6, <1>7

\* A file that is closed stays right.
LEMMA ClosedRight ==
    ASSUME ArchiveInv, MissingIsNoFile, UNCHANGED <<feed, spoiled>>,
           NEW v \in DOMAIN feed, NEW y \in Archive!Years,
               Archive!Partition(v) = y + 1,
           NEW t \in Archive!TableSet, disk[y][t] # Missing,
           disk'[y][t] = Archive!Closed(disk[y][t], v)
    PROVE  /\ disk'[y][t] # Missing /\ Recorded(disk'[y][t]) = Recorded(disk[y][t])
           /\ y \notin spoiled => \A rows, M :
                 rows = RowsOf(disk'[y][t]) /\ M = MergedOn(y, t)
                 /\ M \in SUBSET Of(DOMAIN feed, y) => Right(rows, t, y, M)'
<1>1. ArchiveShape /\ DiskInv /\ y \in Nat /\ FeedGrows
  BY YearsNat DEF ArchiveInv, FeedGrows
<1>2. disk \in [Archive!Years -> Folder] BY <1>1 DEF ArchiveShape
<1>3. PICK file : file = disk[y][t] OBVIOUS
<1>4. file \in {Missing} \cup ArchiveFiles /\ file # Missing BY <1>2, <1>3,
          FolderFile
<1>5. PICK closed : closed = Archive!Closed(file, v) OBVIOUS
<1>6. Archive!Partition(v) > 0 BY <1>1
<1>7. /\ closed \in ArchiveFiles /\ closed # Missing /\ RowsOf(closed) = closed
      /\ RowsOf(file) = file /\ Recorded(closed) = Recorded(file)
  BY <1>1, <1>4, <1>5, <1>6, ClosedStays
<1>8. ASSUME y \notin spoiled, NEW M, M = MergedOn(y, t),
             M \in SUBSET Of(DOMAIN feed, y)
      PROVE  Right(closed, t, y, M)'
  <2>1. Right(file, t, y, M) BY <1>1, <1>3, <1>7, <1>8 DEF DiskInv
  <2>2. PICK z : z = y + 1 OBVIOUS
  <2>3. z \in Nat /\ z > 0 /\ z - 1 = y /\ v \in Of(DOMAIN feed, z)
    BY <1>1, <2>2 DEF Of
  <2>4. file \in ArchiveFiles BY <1>4
  <2>5. Right(closed, t, y, M)
    <3>1. Right(file, t, z - 1, M) BY <2>1, <2>3
    <3>2. Right(Archive!Closed(file, v), t, z - 1, M)
      BY <1>1, <2>3, <2>4, <3>1, RightClosed
    <3> QED BY <1>5, <2>3, <3>2
  <2> QED BY <1>1, <1>8, <2>5, RightStays
<1>9. disk'[y][t] = closed BY <1>3, <1>5
<1>10. ASSUME y \notin spoiled, NEW rows, NEW M, rows = RowsOf(disk'[y][t]),
              M = MergedOn(y, t), M \in SUBSET Of(DOMAIN feed, y)
       PROVE  Right(rows, t, y, M)'
  <2>1. rows = closed BY <1>7, <1>9, <1>10
  <2>2. Right(closed, t, y, M)' BY <1>8, <1>10
  <2> QED BY <2>1, <2>2
<1> QED BY <1>3, <1>7, <1>9, <1>10

\* A file that stays, or is closed.
LEMMA FileStays ==
    ASSUME ArchiveInv, MissingIsNoFile, UNCHANGED <<feed, spoiled>>,
           NEW v \in DOMAIN feed, NEW y \in Archive!Years,
               NEW t \in Archive!TableSet,
           MergedOn(y, t) \in SUBSET Of(DOMAIN feed, y),
           \/ disk'[y][t] = disk[y][t]
           \/ /\ Archive!Partition(v) = y + 1 /\ disk[y][t] # Missing
              /\ disk'[y][t] = Archive!Closed(disk[y][t], v)
    PROVE  /\ disk'[y][t] = Missing <=> disk[y][t] = Missing
           /\ y \notin spoiled => \A rows, M :
                 rows = RowsOf(disk'[y][t]) /\ M = MergedOn(y, t)
                     => Right(rows, t, y, M)'
<1>1. ArchiveShape /\ DiskInv /\ y \in Nat /\ FeedGrows
  BY YearsNat DEF ArchiveInv, FeedGrows
<1>2. CASE disk'[y][t] = disk[y][t]
  <2> SUFFICES ASSUME y \notin spoiled, NEW rows, NEW M,
                      rows = RowsOf(disk'[y][t]), M = MergedOn(y, t)
               PROVE  Right(rows, t, y, M)'
    BY <1>2
  <2>1. rows = RowsOf(disk[y][t]) BY <1>2
  <2>2. Right(rows, t, y, M) BY <1>1, <2>1 DEF DiskInv
  <2>3. M \in SUBSET Of(DOMAIN feed, y) OBVIOUS
  <2> QED BY <1>1, <2>2, <2>3, RightStays
<1>3. CASE /\ Archive!Partition(v) = y + 1 /\ disk[y][t] # Missing
           /\ disk'[y][t] = Archive!Closed(disk[y][t], v)
  BY <1>3, ClosedRight
<1> QED BY <1>2, <1>3

LEMMA CompressedDiskInv ==
    ASSUME ArchiveInv, MissingIsNoFile, todo # <<>>, NEW v, v = Head(todo),
           NEW t, t = Tables[table], NEW year, year = Archive!Partition(v),
           FilesCompressed(v, t, year), UNCHANGED <<feed, spoiled>>,
               NextTableOrSchedule
    PROVE  DiskInv'
<1>1. ArchiveShape /\ DiskInv /\ FeedGrows BY DEF ArchiveInv, FeedGrows
<1>2. /\ v \in DOMAIN feed /\ year \in Archive!Years /\ year \in Nat
      /\ t \in Archive!TableSet
      /\ MergedOn(year, t) \in SUBSET Of(DOMAIN feed, year)
      /\ \A y \in Archive!Years : y > year => \A s : MergedOn(y, s) = {}
  BY HeadFacts
<1>3. /\ MergedOn(year, t)' = MergedOn(year, t) \cup {v}
      /\ \A y \in Archive!Years, s \in Archive!TableSet :
            <<y, s>> # <<year, t>> => MergedOn(y, s)' = MergedOn(y, s)
  BY CompressedMerged
<1>4. \A y \in Archive!Years : \A s : MergedOn(y, s) \in SUBSET Of(DOMAIN feed, y)
  <2>1. InHand \subseteq DOMAIN feed BY <1>2, HeadFacts
  <2>2. \A y \in Archive!Years : LocalVersions(y) \subseteq DOMAIN feed
    BY DEF ArchiveInv, FilesInv
  <2> QED BY <2>1, <2>2 DEF MergedOn, Of
<1>5. ASSUME NEW y \in Archive!Years, NEW s \in Archive!TableSet,
             <<y, s>> # <<year, t>>
      PROVE  /\ disk'[y][s] = Missing <=> disk[y][s] = Missing
             /\ y \notin spoiled => \A rows, M :
                   rows = RowsOf(disk'[y][s]) /\ M = MergedOn(y, s)
                      => Right(rows, s, y, M)'
  <2>1. \/ disk'[y][s] = disk[y][s]
        \/ /\ Archive!Partition(v) = y + 1 /\ disk[y][s] # Missing
           /\ disk'[y][s] = Archive!Closed(disk[y][s], v)
    <3>1. y \in Nat BY YearsNat
    <3> QED BY <1>2, <1>5, <3>1 DEF FilesCompressed
  <2> QED BY <1>1, <1>2, <1>4, <2>1, FileStays
<1>6. ASSUME year > 0, disk'[year][t] = Missing
      PROVE  disk'[year - 1][t] = Missing
  <2>1. disk[year - 1][t] = Missing BY <1>6 DEF FilesCompressed
  <2>2. year - 1 \in Archive!Years /\ <<year - 1, t>> # <<year, t>>
    BY <1>2, <1>6, YearsNat
  <2> QED BY <1>2, <1>5, <2>1, <2>2
<1>7. ASSUME year \notin spoiled, NEW rows, NEW M,
             rows = RowsOf(disk'[year][t]), M = MergedOn(year, t)'
      PROVE  Right(rows, t, year, M)'
  <2>1. M = MergedOn(year, t) \cup {v} BY <1>3, <1>7
  <2>2. Right(rows, t, year, M) BY <1>7, <2>1 DEF FilesCompressed
  <2>3. M \in SUBSET Of(DOMAIN feed, year) BY <1>2, <2>1 DEF Of
  <2> QED BY <1>1, <1>2, <2>2, <2>3, RightStays
<1>8. ASSUME NEW y \in Archive!Years, NEW s \in Archive!TableSet,
             y > 0, MergedOn(y, s)' # {}, disk'[y][s] = Missing
      PROVE  disk'[y - 1][s] = Missing
  <2>1. CASE <<y, s>> = <<year, t>> BY <1>6, <1>8, <2>1
  <2>2. CASE <<y, s>> # <<year, t>>
    <3>1. MergedOn(y, s) # {} /\ disk[y][s] = Missing BY <1>3, <1>5, <1>8, <2>2
    <3>2. disk[y - 1][s] = Missing BY <1>1, <1>8, <3>1 DEF DiskInv
    <3>3. y \in Nat /\ y - 1 \in Archive!Years BY <1>8, YearsNat
    <3>4. <<y - 1, s>> # <<year, t>> BY <1>2, <3>1, <3>3
    <3> QED BY <1>5, <3>2, <3>3, <3>4
  <2> QED BY <2>1, <2>2
<1>9. ASSUME NEW y \in Archive!Years, NEW s \in Archive!TableSet,
             disk'[y][s] # Missing
      PROVE  MergedOn(y, s)' # {}
  <2>1. CASE <<y, s>> = <<year, t>> BY <1>3, <2>1
  <2>2. CASE <<y, s>> # <<year, t>>
    <3>1. MergedOn(y, s) # {} BY <1>1, <1>5, <1>9, <2>2 DEF DiskInv
    <3> QED BY <1>3, <2>2, <3>1
  <2> QED BY <2>1, <2>2
<1>10. ASSUME NEW y \in Archive!Years, NEW s \in Archive!TableSet, y \notin spoiled,
              NEW rows, NEW M, rows = RowsOf(disk'[y][s]), M = MergedOn(y, s)'
       PROVE  Right(rows, s, y, M)'
  <2>1. CASE <<y, s>> = <<year, t>> BY <1>7, <1>10, <2>1
  <2>2. CASE <<y, s>> # <<year, t>>
    <3>1. M = MergedOn(y, s) BY <1>3, <1>10, <2>2
    <3> QED BY <1>5, <1>10, <2>2, <3>1
  <2> QED BY <2>1, <2>2
<1>11. \A y \in Archive!Years, s \in Archive!TableSet : \A rows :
          rows = RowsOf(disk[y][s])' <=> rows = RowsOf(disk'[y][s])
  BY DEF RowsOf
<1> QED BY <1>8, <1>9, <1>10, <1>11 DEF DiskInv

LEMMA CompressedOrderInv ==
    ASSUME ArchiveInv, MissingIsNoFile, todo # <<>>, NEW v, v = Head(todo),
           NEW t, t = Tables[table], NEW year, year = Archive!Partition(v),
           FilesCompressed(v, t, year), UNCHANGED feed, NextTableOrSchedule
    PROVE  OrderInv'
<1>1. OrderInv BY DEF ArchiveInv
<1>2. /\ \A x \in Waiting : v <= x /\ x \in Nat
      /\ v \in Nat
  BY HeadFacts
<1>3. ASSUME NEW y \in Archive!Years, NEW c \in LocalVersions(y)',
             NEW x \in Waiting'
      PROVE  c < x
  <2>1. x \in Waiting /\ (t = "feed_info" => x # v) BY <1>3, CompressedTables
  <2>2. CASE c \in LocalVersions(y) BY <1>1, <2>1, <2>2 DEF OrderInv
  <2>3. CASE c \notin LocalVersions(y)
    <3>1. y = year /\ t = "feed_info" BY <1>3, <2>3, CompressedVersions
    <3>2. c \in DOMAIN feed /\ c <= v BY <1>3, <3>1, CompressedVersions
    <3>3. c \in Nat BY <3>2, FeedFacts DEF ArchiveInv
    <3> QED BY <1>2, <2>1, <3>1, <3>2, <3>3
  <2> QED BY <2>2, <2>3
<1>4. \A i, j \in DOMAIN todo' : i < j => todo'[i] < todo'[j] BY CompressedTables
<1> QED BY <1>1, <1>3, <1>4 DEF OrderInv

LEMMA CompressedLoopInv ==
    ASSUME ArchiveInv, MissingIsNoFile, todo # <<>>, NEW v, v = Head(todo),
           NEW t, t = Tables[table], NEW year, year = Archive!Partition(v),
           FilesCompressed(v, t, year), NextTableOrSchedule,
           compressStep = "compress",
               UNCHANGED <<feed, compressStep, folders, sending>>
    PROVE  LoopInv'
<1>1. LoopInv BY DEF ArchiveInv
<1>2. /\ \A x : Archive!Partition(x)' = Archive!Partition(x)
      /\ v \in Waiting /\ year \in Archive!Years
  BY HeadFacts DEF Archive!Partition, Archive!ActiveFrom
<1>3. (compressed \cup Waiting)' = compressed \cup Waiting BY <1>2, CompressedTables
<1>4. ASSUME NEW x \in compressed'
      PROVE  x \in LocalVersions(Archive!Partition(x))'
  <2>1. CASE x \in compressed
    <3>1. x \in LocalVersions(Archive!Partition(x)) BY <1>1, <2>1 DEF LoopInv
    <3>2. Archive!Partition(x) \in Archive!Years
      BY <2>1, PublishedYear DEF ArchiveInv, ArchiveShape
    <3>3. LocalVersions(Archive!Partition(x))
              \subseteq LocalVersions(Archive!Partition(x))'
      <4>1. PICK y : y = Archive!Partition(x) OBVIOUS
      <4>2. LocalVersions(y) \subseteq LocalVersions(y)'
        BY <3>2, <4>1, CompressedVersions
      <4> QED BY <1>2, <4>1, <4>2
    <3> QED BY <3>1, <3>3
  <2>2. CASE x \notin compressed
    <3>1. x = v /\ t = "feed_info" BY <1>4, <2>2, CompressedTables
    <3>2. v \in LocalVersions(year)' BY <3>1, CompressedVersions
    <3>3. Archive!Partition(v)' = year BY <1>2
    <3> QED BY <3>1, <3>2, <3>3
  <2> QED BY <2>1, <2>2
<1>5. todo' = <<>> => table' = 1 BY CompressedTables
<1>6. \A x \in (compressed \cup Waiting)' : Archive!Partition(x)' \in folders' =>
         \E w \in (compressed \cup Waiting)' :
            Archive!Year(feed'[w].day) = Archive!Partition(x)'
  BY <1>1, <1>2, <1>3 DEF LoopInv
<1>7. compressStep' = "compress" /\ sending' = {} BY <1>1 DEF LoopInv
<1> QED BY <1>4, <1>5, <1>6, <1>7 DEF LoopInv

LEMMA ArchiveCompresses ==
    ASSUME ArchiveInv, MissingIsNoFile, Archive!CompressTable
    PROVE  ArchiveInv'
<1>1. /\ compressStep = "compress" /\ todo # <<>>
      /\ UNCHANGED <<feed, compressStep, folders, bucket, sending, archived,
                     spoiled>>
  BY DEF Archive!CompressTable
<1>2. PICK v : v = Head(todo) OBVIOUS
<1>3. PICK t : t = Tables[table] OBVIOUS
<1>4. PICK year : year = Archive!Partition(v) OBVIOUS
<1>5. NextTableOrSchedule BY DEF Archive!CompressTable, NextTableOrSchedule
<1>6. FilesCompressed(v, t, year) BY <1>2, <1>3, <1>4, TableCompressed
<1>7. /\ ArchiveShape /\ FilesInv /\ ListedInv /\ BucketInv /\ FeedGrows
      /\ spoiled \subseteq spoiled'
  BY <1>1 DEF ArchiveInv, FeedGrows
<1>8. ArchiveShape' BY <1>7, ArchiveCompressTable
<1>9. OrderInv' BY <1>1, <1>2, <1>3, <1>4, <1>5, <1>6, CompressedOrderInv
<1>10. LoopInv' BY <1>1, <1>2, <1>3, <1>4, <1>5, <1>6, CompressedLoopInv
<1>11. DiskInv' BY <1>1, <1>2, <1>3, <1>4, <1>5, <1>6, CompressedDiskInv
<1>12. /\ MergedOn(year, t)' = MergedOn(year, t) \cup {v}
       /\ \A y \in Archive!Years :
             /\ Known(y)' = Known(y)
             /\ Of(LocalVersions(y), y) \subseteq Of(LocalVersions(y), y)'
             /\ Of(Waiting, y)' \subseteq Of(Waiting, y)
  BY <1>1, <1>2, <1>3, <1>4, <1>5, <1>6, CompressedMerged
<1>13. KnownInv' BY <1>1, <1>12, CompressedKnownInv
<1>14. /\ v \in DOMAIN feed /\ year \in Archive!Years /\ year \in Nat
       /\ t \in Archive!TableSet
  BY <1>1, <1>2, <1>3, <1>4, HeadFacts
<1>15. \A x : Archive!Partition(x)' = Archive!Partition(x)
  BY <1>1 DEF Archive!Partition, Archive!ActiveFrom
<1>16. ASSUME NEW y \in Archive!Years, NEW s \in Archive!TableSet,
              ~(y = year /\ s = t), disk'[y][s] # Missing
       PROVE  disk[y][s] # Missing
  <2>1. \/ disk'[y][s] = disk[y][s] \/ disk[y][s] # Missing
    BY <1>6, <1>16 DEF FilesCompressed
  <2> QED BY <1>16, <2>1
<1>17. ASSUME NEW y \in Archive!Years
       PROVE  /\ \A c \in LocalVersions(y)' :
                    c \in DOMAIN feed /\ Archive!Partition(c) <= y
              /\ disk'[y]["feed_info"] # Missing => Of(LocalVersions(y), y)' # {}
  <2>1. /\ \A c \in LocalVersions(y) : c \in DOMAIN feed
               /\ Archive!Partition(c) <= y
        /\ disk[y]["feed_info"] # Missing => Of(LocalVersions(y), y) # {}
    BY <1>7 DEF FilesInv
  <2>2. CASE y = year /\ t = "feed_info"
    <3>1. /\ v \in LocalVersions(year)'
          /\ \A c \in LocalVersions(year)' :
                c \in DOMAIN feed /\ Archive!Partition(c) <= year
      BY <1>1, <1>2, <1>3, <1>4, <1>6, <2>2, CompressedVersions
    <3>2. v \in Of(LocalVersions(year), year)' BY <1>4, <1>15, <3>1 DEF Of
    <3> QED BY <2>2, <3>1, <3>2
  <2>3. CASE ~(y = year /\ t = "feed_info")
    <3>1. LocalVersions(y)' = LocalVersions(y)
      BY <1>1, <1>2, <1>3, <1>4, <1>6, <2>3, CompressedVersions
    <3>2. disk'[y]["feed_info"] # Missing => disk[y]["feed_info"] # Missing
      BY <1>16, <2>3, FeedInfoTable
    <3> QED BY <1>12, <2>1, <3>1, <3>2
  <2> QED BY <2>2, <2>3
<1>18. ASSUME NEW y \in Archive!Years, NEW s \in Archive!TableSet,
              disk'[y][s] # Missing
       PROVE  y \in folders
  <2>1. CASE y = year /\ s = t BY <1>6, <1>18, <2>1 DEF FilesCompressed
  <2>2. CASE ~(y = year /\ s = t)
    <3>1. disk[y][s] # Missing BY <1>18, <1>16, <2>2
    <3> QED BY <1>7, <3>1 DEF FilesInv
  <2> QED BY <2>1, <2>2
<1>19. FilesInv' BY <1>1, <1>17, <1>18, CompressedFilesInv
<1>20. ListedInv' BY <1>1, <1>7, ListedStays
<1>21. BucketInv' BY <1>1, <1>7, BucketStays
<1> QED BY <1>8, <1>9, <1>10, <1>11, <1>13, <1>19, <1>20, <1>21 DEF ArchiveInv

LEMMA ArchiveAttempts ==
    ASSUME ArchiveInv, MissingIsNoFile, Archive!AttemptFails
    PROVE  ArchiveInv'
<1>1. /\ compressStep = "compress" /\ todo # <<>>
      /\ UNCHANGED <<feed, compressStep, todo, table, folders, bucket, sending,
                     compressed, archived, spoiled>>
  BY DEF Archive!AttemptFails
<1>2. PICK v : v = Head(todo) OBVIOUS
<1>3. PICK t : t = Tables[table] OBVIOUS
<1>4. PICK year : year = Archive!Partition(v) OBVIOUS
<1>5. /\ ArchiveShape /\ OrderInv /\ LoopInv /\ FilesInv /\ ListedInv /\ DiskInv
      /\ BucketInv /\ FeedGrows /\ spoiled \subseteq spoiled'
  BY <1>1 DEF ArchiveInv, FeedGrows
<1>6. /\ v \in DOMAIN feed /\ year \in Archive!Years /\ year \in Nat
      /\ t \in Archive!TableSet /\ InHand \subseteq DOMAIN feed
  BY <1>1, <1>2, <1>3, <1>4, HeadFacts
<1>7. /\ year > 0 /\ disk[year - 1][t] # Missing
      /\ disk' = Archive!Write(year - 1, t,
             Archive!Closed(disk[year - 1][t], v), disk)
  BY <1>2, <1>3, <1>4 DEF Archive!AttemptFails
<1>8. disk \in [Archive!Years -> Folder] BY <1>5 DEF ArchiveShape
<1>9. ASSUME NEW y \in Archive!Years, NEW s \in Archive!TableSet
      PROVE  \/ disk'[y][s] = disk[y][s]
             \/ /\ Archive!Partition(v) = y + 1 /\ disk[y][s] # Missing
                /\ disk'[y][s] = Archive!Closed(disk[y][s], v)
  <2>1. PICK before : before = year - 1 OBVIOUS
  <2>2. before \in Archive!Years /\ before + 1 = year BY <1>6, <1>7, <2>1, YearsNat
  <2>3. PICK closed : closed = Archive!Closed(disk[before][t], v) OBVIOUS
  <2>4. disk' = Archive!Write(before, t, closed, disk) BY <1>7, <2>1, <2>3
  <2>5. disk'[y][s] = IF y = before /\ s = t THEN closed ELSE disk[y][s]
    <3>1. before \in Archive!Years /\ t \in Archive!TableSet BY <1>6, <2>2
    <3> QED BY <1>8, <2>4, <3>1, WrittenFile
  <2> QED BY <1>4, <1>7, <2>1, <2>2, <2>3, <2>5
<1>10. ASSUME NEW y \in Archive!Years PROVE LocalVersions(y)' = LocalVersions(y)
  <2>1. PICK file : file = disk[y]["feed_info"] OBVIOUS
  <2>2. file \in {Missing} \cup ArchiveFiles
    BY <1>8, <2>1, FolderFile, FeedInfoTable
  <2>3. CASE disk'[y]["feed_info"] = file BY <2>1, <2>3 DEF LocalVersions, Recorded
  <2>4. CASE /\ Archive!Partition(v) = y + 1 /\ file # Missing
             /\ disk'[y]["feed_info"] = Archive!Closed(file, v)
    <3>1. Archive!Partition(v) > 0 BY <1>4, <1>7
    <3>2. Recorded(Archive!Closed(file, v)) = Recorded(file)
      BY <1>5, <1>6, <2>2, <2>4, <3>1, ClosedStays
    <3>3. Recorded(disk'[y]["feed_info"]) = Recorded(file) BY <2>4, <3>2
    <3> QED BY <2>1, <3>3 DEF LocalVersions, Recorded
  <2> QED BY <1>9, <2>1, <2>3, <2>4, FeedInfoTable
<1>11. /\ \A x : Archive!Partition(x)' = Archive!Partition(x)
       /\ Waiting' = Waiting /\ InHand' = InHand /\ Done' = Done
  BY <1>1 DEF Archive!Partition, Archive!ActiveFrom, Waiting, InHand, Done
<1>12. ASSUME NEW y \in Archive!Years
       PROVE  /\ Of(LocalVersions(y), y)' = Of(LocalVersions(y), y)
              /\ Known(y)' = Known(y) /\ Of(Waiting, y)' = Of(Waiting, y)
              /\ \A s : MergedOn(y, s)' = MergedOn(y, s)
              /\ \A s : MergedOn(y, s) \in SUBSET Of(DOMAIN feed, y)
  <2>1. /\ Of(LocalVersions(y), y)' = Of(LocalVersions(y), y)
        /\ Of(Waiting, y)' = Of(Waiting, y) /\ Of(InHand, y)' = Of(InHand, y)
    BY <1>10, <1>11 DEF Of
  <2>2. Known(y)' = Known(y)
    <3>1. (LocalVersions(y) \cup Waiting)' = LocalVersions(y) \cup Waiting
      BY <1>10, <1>11
    <3> QED BY <1>11, <3>1 DEF Known, Of
  <2>3. \A s : MergedOn(y, s)' = MergedOn(y, s) BY <1>11, <2>1 DEF MergedOn
  <2>4. LocalVersions(y) \subseteq DOMAIN feed BY <1>5 DEF FilesInv
  <2>5. \A s : MergedOn(y, s) \in SUBSET Of(DOMAIN feed, y)
    BY <1>6, <2>4 DEF MergedOn, Of
  <2> QED BY <2>1, <2>2, <2>3, <2>5
<1>13. ASSUME NEW y \in Archive!Years, NEW s \in Archive!TableSet
       PROVE  /\ disk'[y][s] = Missing <=> disk[y][s] = Missing
              /\ y \notin spoiled => \A rows, M :
                    rows = RowsOf(disk'[y][s]) /\ M = MergedOn(y, s)
                       => Right(rows, s, y, M)'
  BY <1>1, <1>6, <1>9, <1>12, FileStays
<1>14. DiskInv'
  <2>1. ASSUME NEW y \in Archive!Years, NEW s \in Archive!TableSet,
               y > 0, MergedOn(y, s)' # {}, disk'[y][s] = Missing
        PROVE  disk'[y - 1][s] = Missing
    <3>1. y - 1 \in Archive!Years BY <2>1, YearsNat
    <3>2. disk[y - 1][s] = Missing BY <1>5, <1>12, <1>13, <2>1 DEF DiskInv
    <3> QED BY <1>13, <3>1, <3>2
  <2>2. \A y \in Archive!Years, s \in Archive!TableSet :
           disk'[y][s] # Missing => MergedOn(y, s)' # {}
    BY <1>5, <1>12, <1>13 DEF DiskInv
  <2>3. ASSUME NEW y \in Archive!Years, NEW s \in Archive!TableSet, y \notin spoiled,
               NEW rows, NEW M, rows = RowsOf(disk'[y][s]), M = MergedOn(y, s)'
        PROVE  Right(rows, s, y, M)'
    BY <1>12, <1>13, <2>3
  <2>4. \A y \in Archive!Years, s \in Archive!TableSet : \A rows :
           rows = RowsOf(disk[y][s])' <=> rows = RowsOf(disk'[y][s])
    BY DEF RowsOf
  <2> QED BY <1>1, <2>1, <2>2, <2>3, <2>4 DEF DiskInv
<1>15. OrderInv' BY <1>1, <1>5, <1>10, <1>11 DEF OrderInv
<1>16. LoopInv'
  <2>1. \A x \in compressed :
           x \in LocalVersions(Archive!Partition(x))'
    <3> SUFFICES ASSUME NEW x \in compressed
                 PROVE  x \in LocalVersions(Archive!Partition(x))'
      OBVIOUS
    <3>1. PICK y : y = Archive!Partition(x) OBVIOUS
    <3>2. y \in Archive!Years BY <1>5, <3>1, PublishedYear DEF ArchiveShape
    <3>3. x \in LocalVersions(y) BY <1>5, <3>1 DEF LoopInv
    <3> QED BY <1>10, <1>11, <3>1, <3>2, <3>3
  <2> QED BY <1>1, <1>5, <1>11, <2>1 DEF LoopInv
<1>17. FilesInv'
  <2>1. ASSUME NEW y \in Archive!Years
        PROVE  /\ \A c \in LocalVersions(y)' :
                     c \in DOMAIN feed /\ Archive!Partition(c) <= y
               /\ disk'[y]["feed_info"] # Missing => Of(LocalVersions(y), y)' # {}
               /\ \A s \in Archive!TableSet : disk'[y][s] # Missing => y \in folders
    BY <1>5, <1>10, <1>12, <1>13, FeedInfoTable DEF FilesInv
  <2> QED BY <1>1, <2>1, CompressedFilesInv
<1>18. KnownInv' BY <1>1, <1>12, CompressedKnownInv
<1>19. ListedInv' BY <1>1, <1>5, ListedStays
<1>20. BucketInv' BY <1>1, <1>5, BucketStays
<1>21. ArchiveShape' BY <1>5, ArchiveAttemptFails
<1> QED BY <1>14, <1>15, <1>16, <1>17, <1>18, <1>19, <1>20, <1>21 DEF ArchiveInv

LEMMA ArchiveInvInit ==
    ASSUME Archive!Init
    PROVE  ArchiveInv
<1>1. /\ feed = <<>> /\ compressStep = "idle" /\ todo = <<>> /\ table = 1
      /\ folders = {} /\ sending = {} /\ compressed = {} /\ archived = {}
             /\ spoiled = {}
      /\ disk = Archive!NoFiles /\ bucket = Archive!NoFiles
  BY DEF Archive!Init
<1>2. ArchiveShape BY ArchiveInit
<1>3. \A y \in Archive!Years, t \in Archive!TableSet :
         disk[y][t] = Missing /\ bucket[y][t] = Missing
  BY <1>1 DEF Archive!NoFiles
<1>4. \A y \in Archive!Years : LocalVersions(y) = {} /\ BucketVersions(y) = {}
  BY <1>3, FeedInfoTable DEF LocalVersions, BucketVersions, Recorded, RowsOf
<1>5. Waiting = {} /\ InHand = {} /\ Done = {} /\ DOMAIN feed = {}
  BY <1>1 DEF Waiting, InHand, Done
<1>6. OrderInv /\ LoopInv BY <1>1, <1>4, <1>5 DEF OrderInv, LoopInv
<1>7. FilesInv
  BY <1>1, <1>3, <1>4, FeedInfoTable DEF FilesInv, Archive!InBucket
<1>8. \A y \in Archive!Years : Known(y) = {} /\ \A t : MergedOn(y, t) = {}
  BY <1>4, <1>5 DEF Known, MergedOn, Of
<1>9. KnownInv
  <2>1. \A y \in Archive!Years : ~Archive!InBucket(y) BY <1>3 DEF Archive!InBucket
  <2>2. Archive!Listed = {} BY <1>5 DEF Archive!Listed
  <2>3. \A y : Of(Archive!Listed, y) = {} BY <2>2 DEF Of
  <2> QED BY <1>8, <2>1, <2>3 DEF KnownInv
<1>10. ListedInv BY <1>4 DEF ListedInv, Of
<1>11. \A y \in Archive!Years : \A t : Right({}, t, y, {}) BY YearsNat, RightNothing
<1>12. \A y \in Archive!Years, t \in Archive!TableSet :
          RowsOf(disk[y][t]) = {} /\ RowsOf(bucket[y][t]) = {}
  BY <1>3 DEF RowsOf
<1>13. DiskInv BY <1>3, <1>8, <1>11, <1>12 DEF DiskInv
<1>14. BucketInv
  <2>1. ASSUME NEW y \in Archive!Years
        PROVE  Holds(y, {})
    <3>1. Of(archived, y) = {} /\ Of(Archive!Listed \cap archived, y) = {}
      BY <1>1 DEF Of
    <3>2. Of(BucketVersions(y), y) = {} BY <1>4 DEF Of
    <3> QED BY <1>11, <1>12, <2>1, <3>1, <3>2 DEF Holds
  <2>2. \A y, t : ~Sent(y, t) BY <1>1 DEF Sent
  <2>3. \A y : {} \in SUBSET Of(DOMAIN feed, y) OBVIOUS
  <2> QED BY <1>1, <2>1, <2>2, <2>3 DEF BucketInv
<1> QED BY <1>2, <1>6, <1>7, <1>9, <1>10, <1>13, <1>14 DEF ArchiveInv

LEMMA ArchiveInvStutter ==
    ASSUME ArchiveInv, UNCHANGED archiveVars
    PROVE  ArchiveInv'
<1>1. /\ ArchiveShape /\ OrderInv /\ LoopInv /\ FilesInv /\ KnownInv /\ ListedInv
      /\ DiskInv /\ BucketInv
  BY DEF ArchiveInv
<1>2. /\ FeedGrows /\ spoiled \subseteq spoiled'
      /\ UNCHANGED <<feed, compressStep, todo, table, folders, disk, bucket,
                     sending,
                     compressed, archived, spoiled>>
  BY DEF archiveVars, FeedGrows
<1>3. /\ \A x : Archive!Partition(x)' = Archive!Partition(x)
      /\ Waiting' = Waiting /\ Archive!Prepared' = Archive!Prepared
      /\ \A y : LocalVersions(y)' = LocalVersions(y)
      /\ \A y : Archive!InBucket(y)' = Archive!InBucket(y)
  BY <1>2 DEF Archive!Partition, Archive!ActiveFrom, Waiting, Archive!Prepared,
              LocalVersions, Recorded, RowsOf, Archive!InBucket
<1>4. ArchiveShape' BY <1>1, ArchiveStutter
<1>5. OrderInv' BY <1>1, <1>2, <1>3 DEF OrderInv
<1>6. LoopInv' BY <1>1, <1>2, <1>3 DEF LoopInv
<1>7. FilesInv' BY <1>1, <1>2, FilesStay
<1>8. KnownInv' BY <1>1, <1>2, <1>3, KnownStays
<1>9. ListedInv' BY <1>1, <1>2, ListedStays
<1>10. DiskInv' BY <1>1, <1>2, DiskStays
<1>11. BucketInv' BY <1>1, <1>2, BucketStays
<1> QED BY <1>4, <1>5, <1>6, <1>7, <1>8, <1>9, <1>10, <1>11 DEF ArchiveInv

LEMMA ArchiveInvNext ==
    ASSUME ArchiveInv, MissingIsNoFile, Archive!Next
    PROVE  ArchiveInv'
BY ArchivePublishes, ArchiveSelects, ArchiveCompresses, ArchiveAttempts, ArchiveRestarts,
   ArchiveStartsUpload, ArchiveUploadsFile, ArchiveEndsLoop DEF Archive!Next

(***************************************************************************)
(* CompressGtfs: the archive is the timetable                              *)
(***************************************************************************)
\* The schedule in force is the last one before the day, of this year or of
\* the year before.
LEMMA InForceFacts ==
    ASSUME ArchiveInv, NEW day \in 1..(LastDay + DaysPerYear),
           NEW v \in Archive!InForce(day), NEW year, year = Archive!Year(day)
    PROVE  /\ year \in Archive!Years /\ year \in Nat /\ day \in DaysOf(year)
           /\ v \in Archive!Listed /\ v \in DOMAIN feed
           /\ feed[v].day < day /\ day <= feed[v].day + DaysPerYear
           /\ \A u \in DOMAIN feed : feed[u].day < day => u <= v
           /\ \/ Archive!Partition(v) = year
              \/ year > 0 /\ Archive!Partition(v) = year - 1 /\ LastOf(v, year - 1)
<1>1. ArchiveShape /\ OrderInv BY DEF ArchiveInv
<1>2. LastDay \in Nat /\ DaysPerYear \in Nat /\ DaysPerYear > 1 BY ExportsAssumption
<1>3. day \in Nat /\ LastDay + DaysPerYear \in Nat /\ day <= LastDay + DaysPerYear
  BY <1>2
<1>4. year \in Nat /\ year \in Archive!Years /\ day \in DaysOf(year)
  <2>1. year \in Nat BY <1>3, YearOfDay
  <2>2. year <= Archive!Year(LastDay + DaysPerYear) BY <1>3, LaterDays
  <2>3. Archive!Year(LastDay + DaysPerYear) \in Nat BY <1>3, YearOfDay
  <2>4. year \in Archive!Years BY <2>1, <2>2, <2>3 DEF Archive!Years,
            Archive!Validity
  <2> QED BY <1>3, <2>1, <2>4, DayOfYear
<1>5. /\ v \in Archive!Listed /\ feed[v].day < day
             /\ day <= feed[v].day + DaysPerYear
      /\ \A w \in Archive!Listed : feed[w].day < day => feed[w].day <= feed[v].day
  BY DEF Archive!InForce, Archive!ActiveTo, Archive!Validity
<1>6. /\ DOMAIN feed \subseteq Nat /\ v \in DOMAIN feed
      /\ \A u \in DOMAIN feed : feed[u].day \in Nat
  BY <1>1, <1>5, ListedFacts, VersionDays
<1>7. ASSUME NEW u \in DOMAIN feed, feed[u].day < day
      PROVE  u <= v
  <2>1. PICK w \in Archive!Listed : w >= u /\ feed[w].day = feed[u].day
    BY <1>1, ListedLast
  <2>2. feed[u].day <= feed[v].day BY <1>5, <1>7, <2>1
  <2>3. CASE feed[u].day = feed[v].day BY <1>5, <2>3 DEF Archive!Listed
  <2>4. CASE feed[u].day # feed[v].day
    <3>1. ~(feed[v].day <= feed[u].day) BY <1>6, <2>2, <2>4
    <3>2. ~(v <= u) BY <1>1, <1>6, <3>1 DEF OrderInv
    <3> QED BY <1>6, <3>2
  <2> QED BY <2>3, <2>4
<1>8. /\ Archive!Partition(v) \in Nat
             /\ feed[v].day + 1 \in DaysOf(Archive!Partition(v))
  BY <1>1, <1>6, VersionDays
<1>9. Archive!Partition(v) <= year
  <2>1. feed[v].day + 1 \in Nat /\ feed[v].day + 1 <= day BY <1>3, <1>5, <1>6
  <2> QED BY <1>3, <2>1, LaterDays DEF Archive!Partition, Archive!ActiveFrom
<1>10. year <= Archive!Partition(v) + 1
  <2>1. PICK y : y = Archive!Partition(v) OBVIOUS
  <2>2. /\ Archive!FirstDay(y + 1) = Archive!FirstDay(y) + DaysPerYear
        /\ Archive!FirstDay(y + 2) = Archive!FirstDay(y + 1) + DaysPerYear
        /\ Archive!FirstDay(y) \in Nat
    <3>1. y \in Nat /\ y + 1 \in Nat /\ (y + 1) + 1 = y + 2 BY <1>8, <2>1
    <3> QED BY <3>1, NextYear
  <2>3. feed[v].day + 1 < Archive!FirstDay(y) + DaysPerYear
    BY <1>8, <2>1, DayTypes
  <2>4. day < Archive!FirstDay(y + 2) BY <1>2, <1>3, <1>5, <1>6, <2>2, <2>3
  <2>5. ASSUME y + 2 <= year PROVE FALSE
    <3>1. Archive!FirstDay(y + 2) <= Archive!FirstDay(year)
      <4>1. y \in Nat BY <1>8, <2>1
      <4>2. PICK z : z = y + 2 OBVIOUS
      <4>3. z \in Nat /\ z <= year BY <2>5, <4>1, <4>2
      <4>4. z * DaysPerYear <= year * DaysPerYear BY <1>2, <1>4, <4>3
      <4> QED BY <4>2, <4>4 DEF Archive!FirstDay
    <3>2. Archive!FirstDay(year) <= day BY <1>4, DayTypes
    <3>3. Archive!FirstDay(year) \in Nat /\ Archive!FirstDay(y + 2) \in Nat
      BY <1>2, <1>4, <2>2, NextYear
    <3> QED BY <1>3, <2>4, <3>1, <3>2, <3>3
  <2> QED BY <1>4, <1>8, <2>1, <2>5
<1>11. ASSUME Archive!Partition(v) # year
       PROVE  year > 0 /\ Archive!Partition(v) = year - 1 /\ LastOf(v, year - 1)
  <2>1. year > 0 /\ Archive!Partition(v) = year - 1 BY <1>4, <1>8, <1>9, <1>10,
            <1>11
  <2>2. ASSUME NEW u \in Of(DOMAIN feed, year - 1) PROVE u <= v
    <3>1. u \in DOMAIN feed /\ Archive!Partition(u) = year - 1 BY <2>2 DEF Of
    <3>2. feed[u].day + 1 < Archive!FirstDay(year - 1) + DaysPerYear
      BY <1>1, <1>4, <2>1, <3>1, VersionDays, DayTypes
    <3>3. Archive!FirstDay(year) = Archive!FirstDay(year - 1) + DaysPerYear
      BY <1>4, <2>1, NextYear
    <3>4. Archive!FirstDay(year) <= day /\ Archive!FirstDay(year) \in Nat
      BY <1>4, DayTypes, NextYear
    <3>5. feed[u].day < day BY <1>3, <1>6, <3>1, <3>2, <3>3, <3>4
    <3> QED BY <1>7, <3>1, <3>5
  <2> QED BY <1>6, <2>1, <2>2 DEF LastOf, Of
<1> QED BY <1>4, <1>5, <1>6, <1>7, <1>11

\* A file of the bucket has the schedules of loops that came to an end.
LEMMA BucketRight ==
    ASSUME ArchiveInv, NEW y \in Archive!Years \ spoiled, NEW t \in Archive!TableSet,
           Of(archived, y) # {}
    PROVE  \E M \in SUBSET Of(DOMAIN feed, y) :
              /\ Of(Archive!Listed \cap archived, y) \subseteq M /\ M # {}
              /\ \A rows : rows = RowsOf(bucket[y][t]) => Right(rows, t, y, M)
<1>1. BucketInv /\ DiskInv /\ KnownInv /\ LoopInv BY DEF ArchiveInv
<1>2. PICK M \in SUBSET Of(DOMAIN feed, y) : Holds(y, M) BY <1>1 DEF BucketInv
<1>3. CASE ~Sent(y, t) BY <1>2, <1>3 DEF Holds
<1>4. CASE Sent(y, t)
  <2>1. bucket[y][t] = disk[y][t] BY <1>1, <1>4 DEF BucketInv
  <2>2. todo = <<>> /\ table = 1 BY <1>1, <1>4 DEF Sent, LoopInv
  <2>3. Waiting = {} /\ InHand = {} BY <2>2 DEF Waiting, InHand
  <2>4. MergedOn(y, t) = Of(LocalVersions(y), y)
            /\ Known(y) = Of(LocalVersions(y), y)
    BY <2>3 DEF MergedOn, Known, Of
  <2>5. Of(LocalVersions(y), y) \in SUBSET Of(DOMAIN feed, y)
    BY DEF ArchiveInv, FilesInv, Of
  <2>6. disk[y][t] # Missing BY <1>4 DEF Sent, Archive!Prepared
  <2>7. Of(LocalVersions(y), y) # {} BY <1>1, <2>4, <2>6 DEF DiskInv
  <2>8. Of(Archive!Listed \cap archived, y) \subseteq Of(LocalVersions(y), y)
    BY <1>1, <2>4, <2>7 DEF KnownInv
  <2>9. \A rows : rows = RowsOf(bucket[y][t]) =>
           Right(rows, t, y, Of(LocalVersions(y), y))
    BY <1>1, <2>1, <2>4 DEF DiskInv
  <2> QED BY <2>5, <2>7, <2>8, <2>9
<1> QED BY <1>3, <1>4

LEMMA RecordsOnce ==
    ASSUME NEW rows, NEW S, IsFiniteSet(S), {r.record : r \in rows} = S,
           \A r, q \in rows : r.record = q.record => r = q
    PROVE  Archive!Cardinality(rows) = Archive!Cardinality(S)
<1> DEFINE f == [x \in S |-> CHOOSE r \in rows : r.record = x]
<1>1. \A x \in S : f[x] \in rows /\ f[x].record = x OBVIOUS
<1>2. f \in [S -> rows] BY <1>1
<1>3. \A x, y \in S : f[x] = f[y] => x = y BY <1>1
<1>4. \A r \in rows : \E x \in S : f[x] = r
  <2> SUFFICES ASSUME NEW r \in rows PROVE \E x \in S : f[x] = r OBVIOUS
  <2>1. r.record \in S OBVIOUS
  <2>2. f[r.record] = r BY <1>1, <2>1
  <2> QED BY <2>1, <2>2
<1> HIDE DEF f
<1>5. ExistsBijection(S, rows)
  <2>1. IsInjective(f) BY <1>2, <1>3 DEF IsInjective
  <2>2. f \in Bijection(S, rows)
    BY <1>2, <1>4, <2>1 DEF Bijection, Injection, Surjection
  <2> QED BY <2>2 DEF ExistsBijection
<1>6. Cardinality(rows) = Cardinality(S) BY <1>5, FS_Bijection
<1> QED BY <1>6, Zenon DEF Archive!Cardinality, Cardinality

LEMMA ArchiveSafe ==
    ASSUME ArchiveInv
    PROVE  Archive!ArchiveIsTimetable
<1> SUFFICES ASSUME NEW day \in 1..(LastDay + DaysPerYear),
                    NEW v \in Archive!InForce(day) \cap archived,
                    {Archive!Year(day) - 1, Archive!Year(day)} \cap spoiled = {},
                    ~Archive!Dropped(day),
                    \E w \in archived : Archive!Partition(w) = Archive!Year(day),
                    NEW t \in Archive!TableSet
             PROVE  LET file == bucket[Archive!Year(day)][t]
                        rows == IF file = Missing THEN {}
                            ELSE Archive!RowsAt(file, day)
                    IN /\ {r.record : r \in rows} = Archive!Content(v, t)
                       /\ (\A y \in spoiled : y > Archive!Year(day)) =>
                             Archive!Cardinality(rows)
                                = Archive!Cardinality(Archive!Content(v, t))
  BY Zenon DEF Archive!ArchiveIsTimetable, Archive!Validity
<1>1. PICK year : year = Archive!Year(day) OBVIOUS
<1>2. PICK file : file = bucket[year][t] OBVIOUS
<1>3. PICK rows : rows = IF file = Missing THEN {} ELSE Archive!RowsAt(file, day)
  OBVIOUS
<1>4. /\ year \in Archive!Years /\ year \in Nat /\ day \in DaysOf(year)
      /\ v \in Archive!Listed /\ v \in DOMAIN feed
      /\ feed[v].day < day /\ day <= feed[v].day + DaysPerYear
      /\ \A u \in DOMAIN feed : feed[u].day < day => u <= v
      /\ \/ Archive!Partition(v) = year
         \/ year > 0 /\ Archive!Partition(v) = year - 1 /\ LastOf(v, year - 1)
  BY <1>1, InForceFacts
<1>5. PICK M \in SUBSET Of(DOMAIN feed, year) :
         /\ Of(Archive!Listed \cap archived, year) \subseteq M /\ M # {}
         /\ \A rs : rs = RowsOf(bucket[year][t]) => Right(rs, t, year, M)
  <2>1. Of(archived, year) # {} BY <1>1 DEF Of
  <2>2. year \in Archive!Years \ spoiled BY <1>1, <1>4
  <2> QED BY <2>1, <2>2, BucketRight
<1>6. PICK rs : rs = RowsOf(file) OBVIOUS
<1>7. Right(rs, t, year, M) BY <1>2, <1>5, <1>6
<1>8. rows = Archive!RowsAt(rs, day) BY <1>3, <1>6 DEF RowsOf, Archive!RowsAt
<1>9. M \subseteq DOMAIN feed /\ \A u \in M : Archive!Partition(u) = year BY DEF Of
<1>10. RecordsAt(rs, day) = Archive!Content(v, t)
  <2>1. CASE Archive!Partition(v) = year
    <3>1. v \in M BY <1>4, <1>5, <2>1 DEF Of
    <3> QED BY <1>4, <1>7, <1>9, <3>1 DEF Right, Current
  <2>2. CASE year > 0 /\ Archive!Partition(v) = year - 1 /\ LastOf(v, year - 1)
    <3>1. BeforeAll(day, M)
      <4> SUFFICES ASSUME NEW u \in M, feed[u].day < day PROVE FALSE
        <5>1. day \in Nat /\ \A u \in M : feed[u].day \in Nat
          BY <1>4, <1>9, DayTypes, VersionDays DEF ArchiveInv
        <5> QED BY <5>1 DEF BeforeAll
      <4>1. u \in DOMAIN feed /\ u <= v BY <1>4, <1>9
      <4>2. Archive!Partition(u) <= Archive!Partition(v)
        BY <1>4, <4>1, EarlierPartition DEF ArchiveInv
      <4> QED BY <1>4, <1>9, <2>2, <4>2
    <3>2. year - 1 \notin spoiled BY <1>1
    <3> QED BY <1>4, <1>5, <1>7, <2>2, <3>1, <3>2 DEF Right, Opening
  <2> QED BY <1>4, <2>1, <2>2
<1>11. {r.record : r \in rows} = Archive!Content(v, t) BY <1>8, <1>10 DEF RecordsAt
<1>12. ASSUME \A y \in spoiled : y > year
       PROVE  Archive!Cardinality(rows) = Archive!Cardinality(Archive!Content(v, t))
  <2>1. OnceAt(rs, day) BY <1>4, <1>7, <1>12 DEF Right, Once
  <2>2. \A r, q \in rows : r.record = q.record => r = q BY <1>8, <2>1 DEF OnceAt
  <2>3. IsFiniteSet(Archive!Content(v, t))
    <3>1. IsFiniteSet({v}) BY FS_Singleton
    <3>2. feed[v].records \subseteq Records BY <1>4, FeedFacts DEF ArchiveInv
    <3>3. IsFiniteSet(feed[v].records) BY <3>2, ExportsAssumption, FS_Subset
    <3> QED BY <3>1, <3>3 DEF Archive!Content
  <2> QED BY <1>11, <2>2, <2>3, RecordsOnce
<1> QED BY <1>1, <1>2, <1>3, <1>11, <1>12

(***************************************************************************)
(* GlidesIngestion: the inductive invariant                                *)
(***************************************************************************)

GlidesShape ==
    /\ stream \in Seq([kind : 1..Kinds, fitness : Glides!Fitness])
    /\ horizon \in Nat /\ horizon <= Len(stream)
    /\ iterator \in Nat /\ iterator <= Len(stream) + 1
    /\ last \in Nat /\ last <= Len(stream)
    /\ glidesStep \in {"idle", "read", "append"} /\ kind \in 1..Kinds
    /\ records \subseteq passed /\ passed \subseteq DOMAIN stream
    /\ lost \subseteq Glides!Good \cap passed /\ unread \subseteq 1..Kinds
    /\ local \in [1..Kinds -> SUBSET Nat] /\ remote \in [1..Kinds -> SUBSET Nat]

\* The files have good records of their kind that were passed, and none that
\* is lost; those that are not yet appended in this round are as they were
\* downloaded.
GlidesFiles ==
    /\ \A k \in 1..Kinds : \A p \in local[k] \cup remote[k] :
          p \in Glides!Good /\ p \in passed /\ stream[p].kind = k
    /\ \A p \in lost : p \notin remote[stream[p].kind]
    /\ glidesStep = "read" => kind = 1
    /\ glidesStep # "idle" => \A k \in 1..Kinds :
          k >= kind /\ k \notin unread => local[k] = remote[k]

\* A record that was not lost is in its file, or waits to be appended.
RecordsKept ==
    \A p \in (passed \cap Glides!Good) \ lost :
        \/ p \in remote[stream[p].kind]
        \/ /\ p \in records
           /\ \/ glidesStep = "read"
              \/ glidesStep = "append" /\ stream[p].kind >= kind

GlidesInv == GlidesShape /\ GlidesFiles /\ RecordsKept

(***************************************************************************)
(* GlidesIngestion: facts about records                                    *)
(***************************************************************************)

LEMMA GoodRecords ==
    ASSUME GlidesShape
    PROVE  \A p \in Glides!Good : /\ p \in DOMAIN stream /\ p \in Nat
                                  /\ stream[p].kind \in 1..Kinds
<1> DEFINE R == [kind : 1..Kinds, fitness : Glides!Fitness]
<1>1. stream \in Seq(R) BY DEF GlidesShape
<1>2. /\ DOMAIN stream = 1 .. Len(stream) /\ Len(stream) \in Nat
      /\ \A p \in DOMAIN stream : stream[p] \in R
  <2> HIDE DEF R
  <2> QED BY <1>1
<1> QED BY <1>2 DEF Glides!Good

\* The good records of a kind.
LEMMA GoodOfKind ==
    ASSUME NEW S, NEW k, NEW p \in Glides!Good
    PROVE  p \in Glides!OfKind(S, k) <=> p \in S /\ stream[p].kind = k
BY DEF Glides!OfKind, Glides!Good

LEMMA GlidesInit == Glides!Init => GlidesInv
<1> SUFFICES ASSUME Glides!Init PROVE GlidesInv
  OBVIOUS
<1>1. stream = <<>> /\ Len(stream) = 0 /\ DOMAIN stream = {} BY DEF Glides!Init
<1>2. stream \in Seq([kind : 1..Kinds, fitness : Glides!Fitness]) BY <1>1
<1>3. 1 \in 1..Kinds BY HasConverters
<1>4. GlidesShape BY <1>1, <1>2, <1>3 DEF Glides!Init, GlidesShape
<1>5. GlidesFiles BY DEF Glides!Init, GlidesFiles
<1>6. RecordsKept BY DEF Glides!Init, RecordsKept
<1> QED BY <1>4, <1>5, <1>6 DEF GlidesInv

(***************************************************************************)
(* GlidesIngestion: the steps                                              *)
(***************************************************************************)

\* A new record changes nothing for the old ones.
LEMMA PutStep ==
    ASSUME GlidesInv, NEW k \in 1..Kinds, NEW fitness \in Glides!Fitness,
           Glides!Put(k, fitness)
    PROVE  GlidesInv'
<1> USE DEF GlidesInv
<1> DEFINE r == [kind |-> k, fitness |-> fitness]
<1>1. /\ stream' = Append(stream, r)
      /\ r \in [kind : 1..Kinds, fitness : Glides!Fitness]
  BY DEF Glides!Put
<1>2. /\ stream' \in Seq([kind : 1..Kinds, fitness : Glides!Fitness])
      /\ Len(stream) \in Nat /\ Len(stream') = Len(stream) + 1
      /\ DOMAIN stream = 1 .. Len(stream) /\ DOMAIN stream' = 1 .. Len(stream')
      /\ \A p \in DOMAIN stream : stream'[p] = stream[p]
  <2> HIDE DEF r
  <2> QED BY <1>1 DEF GlidesShape
<1>3. DOMAIN stream \subseteq DOMAIN stream' BY <1>2
<1>4. Glides!Good \subseteq Glides!Good' BY <1>2, <1>3 DEF Glides!Good
<1>5. \A p \in DOMAIN stream : p \in Glides!Good' => p \in Glides!Good
  BY <1>2 DEF Glides!Good
<1>6. UNCHANGED <<horizon, iterator, last, glidesStep, records, kind, local,
                  remote, unread, passed, lost>>
  BY DEF Glides!Put, Glides!readerVars, Glides!fileVars
<1>7. GlidesShape'
  <2>1. /\ horizon <= Len(stream') /\ iterator <= Len(stream') + 1
        /\ last <= Len(stream')
    BY <1>2 DEF GlidesShape
  <2>2. passed \subseteq DOMAIN stream' /\ lost \subseteq Glides!Good' \cap passed
    BY <1>3, <1>4 DEF GlidesShape
  <2> QED BY <1>2, <1>6, <2>1, <2>2 DEF GlidesShape
<1>8. \A p \in Glides!Good : p \in DOMAIN stream BY DEF Glides!Good
<1>9. GlidesFiles'
  <2>1. \A j \in 1..Kinds : \A p \in local[j] \cup remote[j] :
           p \in Glides!Good' /\ p \in passed /\ stream'[p].kind = j
    BY <1>2, <1>4, <1>8 DEF GlidesFiles
  <2>2. \A p \in lost : stream'[p] = stream[p] BY <1>2, <1>8 DEF GlidesShape
  <2> QED BY <1>6, <2>1, <2>2 DEF GlidesFiles
<1>10. RecordsKept' BY <1>2, <1>5, <1>6 DEF RecordsKept, GlidesShape
<1> QED BY <1>7, <1>9, <1>10

LEMMA SameGood == stream' = stream => Glides!Good' = Glides!Good
BY DEF Glides!Good

\* Steps that change neither files nor records.
LEMMA ReaderStep ==
    ASSUME GlidesInv, Glides!Expire \/ Glides!UpdateIterator \/ Glides!ReadFails
    PROVE  GlidesInv'
<1> USE DEF GlidesInv
<1>1. /\ UNCHANGED <<stream, last, records, kind, local, remote, unread, passed,
                     lost>>
      /\ Glides!Good' = Glides!Good
      /\ \/ glidesStep' = glidesStep
         \/ glidesStep = "read" /\ glidesStep' = "append"
  BY SameGood
  DEF Glides!Expire, Glides!UpdateIterator, Glides!ReadFails, Glides!readerVars,
      Glides!fileVars
<1>2. Len(stream) \in Nat BY DEF GlidesShape
<1>3. /\ horizon' \in Nat /\ horizon' <= Len(stream)
      /\ iterator' \in Nat /\ iterator' <= Len(stream) + 1
  BY <1>2
  DEF GlidesShape, Glides!Expire, Glides!UpdateIterator, Glides!ReadFails,
      Glides!readerVars
<1>4. GlidesShape' BY <1>1, <1>3 DEF GlidesShape
<1>5. GlidesFiles' BY <1>1 DEF GlidesFiles
<1>6. ASSUME NEW p \in (passed \cap Glides!Good) \ lost, p \in records,
             glidesStep = "read"
      PROVE  stream[p].kind >= kind
  <2>1. stream[p].kind \in 1..Kinds BY GoodRecords
  <2>2. kind = 1 BY <1>6 DEF GlidesFiles
  <2> QED BY <2>1, <2>2, HasConverters
<1>7. RecordsKept' BY <1>1, <1>6 DEF RecordsKept
<1> QED BY <1>4, <1>5, <1>7

LEMMA BeginGlides == GlidesInv /\ Glides!Begin => GlidesInv'
<1> SUFFICES ASSUME GlidesInv, Glides!Begin PROVE GlidesInv'
  OBVIOUS
<1> USE DEF GlidesInv
<1>1. PICK failed \in SUBSET (1..Kinds) :
         /\ unread' = failed
         /\ local' = [k \in 1..Kinds |-> IF k \in failed THEN {} ELSE remote[k]]
  BY DEF Glides!Begin
<1>2. /\ glidesStep = "idle" /\ glidesStep' = "read" /\ records' = {} /\ kind' = 1
      /\ UNCHANGED <<stream, horizon, iterator, last, remote, passed, lost>>
      /\ Glides!Good' = Glides!Good
  BY SameGood DEF Glides!Begin, Glides!readerVars
<1>3. 1 \in 1..Kinds BY HasConverters
<1>4. local' \in [1..Kinds -> SUBSET Nat] BY <1>1 DEF GlidesShape
<1>5. GlidesShape' BY <1>1, <1>2, <1>3, <1>4 DEF GlidesShape
<1>6. GlidesFiles' BY <1>1, <1>2 DEF GlidesFiles
<1>7. RecordsKept' BY <1>2 DEF RecordsKept
<1> QED BY <1>5, <1>6, <1>7

LEMMA GetStep == GlidesInv /\ Glides!GetRecords => GlidesInv'
<1> SUFFICES ASSUME GlidesInv, Glides!GetRecords PROVE GlidesInv'
  OBVIOUS
<1> USE DEF GlidesInv
<1> DEFINE first == IF iterator > horizon THEN iterator ELSE horizon + 1
           garbledIn(b) == {p \in b : stream[p].fitness = "garbled"}
           readOf(b) == {p \in b : \A q \in garbledIn(b) : p < q}
<1>1. PICK end \in (first - 1)..Len(stream) :
         LET batch == first..end
             garbled == garbledIn(batch)
             read == readOf(batch)
         IN /\ iterator' = end + 1
            /\ last' = IF batch = {} THEN last
                       ELSE IF garbled = {} THEN end
                       ELSE CHOOSE q \in garbled : \A p \in garbled : q <= p
            /\ records' = records \cup read
            /\ passed' = passed \cup batch
            /\ lost' = (lost \ read) \cup ((batch \ read) \cap Glides!Absent)
            /\ glidesStep' = IF garbled # {} \/ end = Len(stream)
                              THEN "append" ELSE "read"
  BY DEF Glides!GetRecords
<1> DEFINE batch == first..end
           garbled == garbledIn(batch)
           read == readOf(batch)
<1>2. /\ glidesStep = "read" /\ glidesStep' \in {"read", "append"}
      /\ UNCHANGED <<stream, horizon, kind, local, remote, unread>>
      /\ Glides!Good' = Glides!Good
  BY <1>1, SameGood DEF Glides!GetRecords, Glides!fileVars
<1>3. /\ first \in Nat /\ first >= 1 /\ end \in Nat /\ end <= Len(stream)
      /\ Len(stream) \in Nat /\ DOMAIN stream = 1 .. Len(stream)
  <2>1. /\ iterator \in Nat /\ iterator # 0 /\ horizon \in Nat
        /\ Len(stream) \in Nat /\ DOMAIN stream = 1 .. Len(stream)
    BY DEF GlidesShape, Glides!GetRecords
  <2>2. first \in Nat /\ first >= 1 BY <2>1
  <2> HIDE DEF first
  <2>3. end \in Int /\ first - 1 <= end /\ end <= Len(stream)
    BY <2>1, <2>2
  <2> QED BY <2>1, <2>2, <2>3
<1>4. batch \subseteq DOMAIN stream /\ batch \subseteq Nat
  BY <1>3
<1>5. read \subseteq batch /\ garbled \subseteq batch OBVIOUS
<1>6. last' \in Nat /\ last' <= Len(stream)
  <2>1. CASE batch = {} BY <1>1, <2>1 DEF GlidesShape
  <2>2. CASE batch # {} /\ garbled = {} BY <1>1, <1>3, <2>2
  <2>3. CASE batch # {} /\ garbled # {}
    <3> DEFINE q == CHOOSE q \in garbled : \A p \in garbled : q <= p
    <3>1. garbled \subseteq Nat BY <1>4, <1>5
    <3>2. \E x \in garbled : \A y \in garbled : x <= y
      <4> HIDE DEF garbled
      <4> QED BY <2>3, <3>1, LeastNumber
    <3>3. last' = q BY <1>1, <2>3
    <3>4. q \in garbled
      <4> HIDE DEF garbled
      <4> QED BY <3>2
    <3>5. q \in 1 .. Len(stream) BY <1>3, <1>4, <1>5, <3>4
    <3> QED BY <1>3, <3>3, <3>5
  <2> QED BY <2>1, <2>2, <2>3
<1>7. /\ iterator' = end + 1
      /\ records' = records \cup read
      /\ passed' = passed \cup batch
      /\ lost' = (lost \ read) \cup ((batch \ read) \cap Glides!Absent)
  BY <1>1
<1> HIDE DEF batch, garbled, read, first
<1>8. GlidesShape'
  <2>1. iterator' \in Nat /\ iterator' <= Len(stream) + 1 BY <1>3, <1>7
  <2>2. records' \subseteq passed' /\ passed' \subseteq DOMAIN stream
    BY <1>4, <1>5, <1>7 DEF GlidesShape
  <2>3. lost' \subseteq Glides!Good \cap passed'
    BY <1>7 DEF GlidesShape, Glides!Absent
  <2> QED BY <1>2, <1>6, <2>1, <2>2, <2>3 DEF GlidesShape
<1>9. GlidesFiles' BY <1>2, <1>7 DEF GlidesFiles, Glides!Absent
<1>10. kind = 1 /\ \A p \in Glides!Good : stream[p].kind >= kind
  BY <1>2, GoodRecords, HasConverters DEF GlidesFiles
<1>11. ASSUME NEW p \in (passed' \cap Glides!Good) \ lost'
       PROVE  p \in remote[stream[p].kind] \/ p \in records'
  <2>1. CASE p \in read BY <1>7, <2>1
  <2>2. CASE p \notin read
    <3>1. CASE p \in remote[stream[p].kind] BY <3>1
    <3>2. CASE p \notin remote[stream[p].kind]
      <4>1. p \in (passed \cap Glides!Good) \ lost
        BY <1>7, <1>11, <2>2, <3>2 DEF Glides!Absent
      <4> QED BY <1>7, <4>1 DEF RecordsKept
    <3> QED BY <3>1, <3>2
  <2> QED BY <2>1, <2>2
<1>12. RecordsKept' BY <1>2, <1>10, <1>11 DEF RecordsKept
<1> QED BY <1>8, <1>9, <1>12

\* Join, upload and queue the records of one kind.
LEMMA AppendGlides == GlidesInv /\ Glides!AppendRecords => GlidesInv'
<1> SUFFICES ASSUME GlidesInv, Glides!AppendRecords PROVE GlidesInv'
  OBVIOUS
<1> USE DEF GlidesInv
<1>1. /\ glidesStep = "append"
      /\ UNCHANGED <<stream, horizon, iterator, last, records, unread, passed>>
      /\ Glides!Good' = Glides!Good /\ kind \in 1..Kinds
  BY SameGood DEF Glides!AppendRecords, Glides!readerVars, GlidesShape
<1>2. \A p \in records : p \in Glides!OfKind(records, kind) => p \in Glides!Good
  BY DEF Glides!AppendRecords
<1>3. local' = [local EXCEPT ![kind] = Glides!Joined(kind)]
  BY DEF Glides!AppendRecords
<1>4. \A p \in Glides!Joined(kind) :
         /\ p \in Nat /\ p \in Glides!Good /\ p \in passed
         /\ stream[p].kind = kind
  <2> SUFFICES ASSUME NEW p \in Glides!Joined(kind)
               PROVE  /\ p \in Nat /\ p \in Glides!Good /\ p \in passed
                      /\ stream[p].kind = kind
    OBVIOUS
  <2>1. CASE p \in Glides!OfKind(records, kind)
    <3>1. p \in records /\ stream[p].kind = kind BY <2>1 DEF Glides!OfKind
    <3> QED BY <1>2, <2>1, <3>1, GoodRecords DEF GlidesShape
  <2>2. CASE p \in local[kind]
    <3> QED BY <1>1, <2>2, GoodRecords DEF GlidesFiles
  <2> QED BY <2>1, <2>2 DEF Glides!Joined
<1>5. local' \in [1..Kinds -> SUBSET Nat]
  BY <1>1, <1>3, <1>4 DEF GlidesShape
<1>6. /\ local'[kind] = Glides!Joined(kind)
      /\ \A k \in 1..Kinds \ {kind} : local'[k] = local[k]
  BY <1>1, <1>3 DEF GlidesShape
<1>7. \/ /\ remote' = [remote EXCEPT ![kind] = local'[kind]]
         /\ lost' = (lost \cup IF kind \in unread THEN remote[kind] ELSE {})
                      \ local'[kind]
      \/ /\ remote' = remote
         /\ lost' = lost \cup (Glides!OfKind(records, kind) \ remote[kind])
  BY DEF Glides!AppendRecords
<1>8. \/ kind < Kinds /\ kind' = kind + 1 /\ glidesStep' = glidesStep
      \/ kind >= Kinds /\ kind' = 1 /\ glidesStep' = "idle"
  BY <1>1, HasConverters DEF Glides!AppendRecords
<1>9. kind' \in 1..Kinds BY <1>1, <1>8, HasConverters
<1>10. \A p \in Glides!OfKind(records, kind) :
          /\ p \in Glides!Good /\ p \in passed
          /\ stream[p].kind = kind
          /\ p \in Glides!Joined(kind)
  BY <1>2 DEF Glides!OfKind, GlidesShape, Glides!Joined
<1>11. /\ remote' \in [1..Kinds -> SUBSET Nat]
       /\ remote'[kind] \in {remote[kind], Glides!Joined(kind)}
       /\ \A k \in 1..Kinds \ {kind} : remote'[k] = remote[k]
  BY <1>1, <1>5, <1>6, <1>7 DEF GlidesShape
<1>12. \A p \in lost' : p \in Glides!Good /\ p \in passed
  BY <1>1, <1>7, <1>10 DEF GlidesShape, GlidesFiles
<1>13. GlidesShape'
  BY <1>1, <1>5, <1>9, <1>11, <1>12 DEF GlidesShape, Glides!AppendRecords
<1>14. \A p \in lost' : p \notin remote'[stream[p].kind]
  <2>1. CASE /\ remote' = [remote EXCEPT ![kind] = local'[kind]]
             /\ lost' = (lost \cup IF kind \in unread THEN remote[kind] ELSE {})
                          \ local'[kind]
    <3> SUFFICES ASSUME NEW p \in lost', p \in remote'[stream[p].kind] PROVE FALSE
      OBVIOUS
    <3>1. remote'[kind] = local'[kind] BY <1>1, <2>1 DEF GlidesShape
    <3>2. stream[p].kind \in 1..Kinds BY <1>12, GoodRecords
    <3>3. stream[p].kind # kind BY <2>1, <3>1
    <3>4. p \in lost BY <1>1, <2>1, <3>3 DEF GlidesFiles
    <3> QED BY <1>11, <3>2, <3>3, <3>4 DEF GlidesFiles
  <2>2. CASE /\ remote' = remote
             /\ lost' = lost \cup (Glides!OfKind(records, kind) \ remote[kind])
    BY <1>10, <2>2 DEF GlidesFiles
  <2> QED BY <1>7, <2>1, <2>2
<1>15. GlidesFiles'
  <2>1. \A k \in 1..Kinds : \A p \in local'[k] \cup remote'[k] :
           p \in Glides!Good /\ p \in passed /\ stream[p].kind = k
    BY <1>4, <1>6, <1>11 DEF GlidesFiles
  <2>2. glidesStep' # "read" BY <1>1, <1>8
  <2>3. glidesStep' # "idle" => \A k \in 1..Kinds :
           k >= kind' /\ k \notin unread => local'[k] = remote'[k]
    <3> SUFFICES ASSUME glidesStep' # "idle", NEW k \in 1..Kinds, k >= kind',
                        k \notin unread
                 PROVE  local'[k] = remote'[k]
      OBVIOUS
    <3>1. kind' = kind + 1 /\ kind \in Nat /\ k \in Nat
      BY <1>1, <1>8, HasConverters
    <3>2. k # kind /\ k >= kind BY <3>1
    <3> QED BY <1>1, <1>6, <1>11, <3>2 DEF GlidesFiles
  <2> QED BY <1>1, <1>14, <2>1, <2>2, <2>3 DEF GlidesFiles
<1>16. RecordsKept'
  <2> SUFFICES ASSUME NEW p \in (passed \cap Glides!Good) \ lost',
                      p \notin remote'[stream[p].kind]
               PROVE  p \in records /\ glidesStep' = "append"
                      /\ stream[p].kind >= kind'
    BY <1>1 DEF RecordsKept
  <2>1. stream[p].kind \in 1..Kinds BY GoodRecords
  <2>2. p \notin lost
    <3>1. CASE p \in local'[kind]
      <4>1. stream[p].kind = kind BY <1>4, <1>6, <3>1
      <4>2. CASE remote' = [remote EXCEPT ![kind] = local'[kind]]
        <5>1. remote'[kind] = local'[kind] BY <1>1, <4>2 DEF GlidesShape
        <5> QED BY <3>1, <4>1, <5>1
      <4>3. CASE lost' = lost \cup (Glides!OfKind(records, kind) \ remote[kind])
        BY <4>3
      <4> QED BY <1>7, <4>2, <4>3
    <3>2. CASE p \notin local'[kind] BY <1>7, <3>2
    <3> QED BY <3>1, <3>2
  <2>3. CASE stream[p].kind = kind
    <3>1. p \in remote[kind] \/ p \in records
      BY <2>2, <2>3 DEF RecordsKept
    <3>2. CASE p \in records
      <4>1. p \in Glides!OfKind(records, kind) BY <2>3, <3>2, GoodOfKind
      <4>2. p \in local'[kind] BY <1>6, <1>10, <4>1
      <4> QED BY <1>1, <1>7, <2>3, <4>1, <4>2 DEF GlidesShape
    <3>3. CASE p \in remote[kind]
      <4>1. p \notin local'[kind] BY <1>1, <1>7, <2>3, <3>3 DEF GlidesShape
      <4>2. kind \notin unread BY <1>7, <2>3, <3>3, <4>1
      <4>3. p \in local[kind] BY <1>1, <3>3, <4>2, HasConverters DEF GlidesFiles
      <4> QED BY <1>6, <4>1, <4>3 DEF Glides!Joined
    <3> QED BY <3>1, <3>2, <3>3
  <2>4. CASE stream[p].kind # kind
    <3>1. p \in records /\ stream[p].kind >= kind
      BY <1>1, <1>11, <2>1, <2>2, <2>4 DEF RecordsKept
    <3>2. stream[p].kind > kind /\ kind < Kinds /\ kind \in Nat
      BY <1>1, <2>1, <2>4, <3>1, HasConverters
    <3> QED BY <1>1, <1>8, <2>1, <3>1, <3>2, HasConverters
  <2> QED BY <2>3, <2>4
<1> QED BY <1>13, <1>15, <1>16, HasConverters

\* What a round that ends early leaves behind is lost.
LEMMA UnsavedRecords ==
    ASSUME GlidesInv, NEW p \in (passed \cap Glides!Good) \ lost,
           glidesStep # "idle"
    PROVE  p \in remote[stream[p].kind] \/ p \in Glides!Unsaved
<1>1. stream[p].kind \in 1..Kinds BY GoodRecords DEF GlidesInv
<1>2. glidesStep = "read" => stream[p].kind >= kind
  BY <1>1, HasConverters DEF GlidesInv, GlidesFiles
<1> QED BY <1>2 DEF GlidesInv, RecordsKept, Glides!Unsaved, Glides!Absent

LEMMA ConvertFailsStep == GlidesInv /\ Glides!ConvertFails => GlidesInv'
<1> SUFFICES ASSUME GlidesInv, Glides!ConvertFails PROVE GlidesInv'
  OBVIOUS
<1>1. /\ glidesStep = "append" /\ glidesStep' = "idle" /\ kind' = 1
      /\ lost' = lost \cup Glides!Unsaved
      /\ UNCHANGED <<stream, horizon, iterator, last, records, local, remote,
                     unread, passed>>
      /\ Glides!Good' = Glides!Good
  BY SameGood DEF Glides!ConvertFails, Glides!readerVars, Glides!fileVars
<1>2. GlidesShape'
  BY <1>1, HasConverters
  DEF GlidesInv, GlidesShape, Glides!Unsaved, Glides!Absent
<1>3. GlidesFiles'
  BY <1>1 DEF GlidesInv, GlidesFiles, Glides!Unsaved, Glides!Absent
<1>4. RecordsKept' BY <1>1, UnsavedRecords DEF RecordsKept
<1> QED BY <1>2, <1>3, <1>4, HasConverters DEF GlidesInv

\* The next container will pass what the stream has once more.
LEMMA CrashStep == GlidesInv /\ Glides!Crash => GlidesInv'
<1> SUFFICES ASSUME GlidesInv, Glides!Crash PROVE GlidesInv'
  OBVIOUS
<1> DEFINE gone == IF glidesStep = "idle" THEN lost ELSE lost \cup Glides!Unsaved
<1>1. /\ glidesStep' = "idle" /\ kind' = 1 /\ records' = {} /\ iterator' = 0
      /\ last' = 0
      /\ local' = [k \in 1..Kinds |-> {}] /\ unread' = {}
      /\ passed' = passed \ {p \in gone : p > horizon}
      /\ lost' = {p \in gone : p <= horizon}
      /\ UNCHANGED <<stream, horizon, remote>>
      /\ Glides!Good' = Glides!Good
  BY SameGood DEF Glides!Crash
<1>2. \A p \in gone : /\ p \in Glides!Good /\ p \in passed
                        /\ p \notin remote[stream[p].kind]
  BY DEF GlidesInv, GlidesShape, GlidesFiles, Glides!Unsaved, Glides!Absent
<1>3. \A p \in (passed \cap Glides!Good) \ gone : p \in remote[stream[p].kind]
  BY UnsavedRecords DEF GlidesInv, RecordsKept
<1>4. \A p \in Glides!Good : p \in Nat BY GoodRecords DEF GlidesInv
<1>5. horizon \in Nat BY DEF GlidesInv, GlidesShape
<1> HIDE DEF gone
<1>6. \A p \in passed : p \in passed' \/ (p \in gone /\ p > horizon)
  BY <1>1
<1>7. \A p \in lost' : p \in gone /\ p \in passed'
  BY <1>1, <1>2, <1>4, <1>5
<1>8. GlidesShape'
  BY <1>1, <1>2, <1>7, HasConverters DEF GlidesInv, GlidesShape
<1>9. GlidesFiles'
  BY <1>1, <1>2, <1>6, <1>7 DEF GlidesInv, GlidesFiles
<1>10. RecordsKept'
  <2> SUFFICES ASSUME NEW p \in (passed' \cap Glides!Good) \ lost'
               PROVE  p \in remote[stream[p].kind]
    BY <1>1 DEF RecordsKept
  <2>1. p \in passed /\ p \notin gone BY <1>1, <1>4, <1>5
  <2> QED BY <1>3, <2>1
<1> QED BY <1>8, <1>9, <1>10, HasConverters DEF GlidesInv

LEMMA GlidesNext == GlidesInv /\ Glides!Next => GlidesInv'
<1>1. ASSUME GlidesInv, NEW k \in 1..Kinds, NEW fitness \in Glides!Fitness,
             Glides!Put(k, fitness)
      PROVE  GlidesInv'
  BY <1>1, PutStep
<1> QED
  BY <1>1, ReaderStep, BeginGlides, GetStep, AppendGlides, ConvertFailsStep,
     CrashStep
  DEF Glides!Next

LEMMA GlidesSafe == GlidesInv => Glides!TypeOK /\ Glides!GlidesAreKept
<1> SUFFICES ASSUME GlidesInv PROVE Glides!TypeOK /\ Glides!GlidesAreKept
  OBVIOUS
<1>1. ASSUME NEW k \in 1..Kinds, NEW p \in local[k] \cup remote[k]
      PROVE  p \in Glides!OfKind(Glides!Good, k)
  <2>1. p \in Glides!Good /\ stream[p].kind = k
    BY <1>1 DEF GlidesInv, GlidesFiles
  <2> QED BY <2>1, GoodOfKind
<1>2. Glides!TypeOK BY <1>1 DEF GlidesInv, GlidesShape, Glides!TypeOK
<1>3. ASSUME glidesStep = "idle", NEW k \in 1..Kinds,
             NEW p \in Glides!OfKind((passed \cap Glides!Good) \ lost, k)
      PROVE  p \in remote[k]
  <2>1. p \in (passed \cap Glides!Good) \ lost /\ stream[p].kind = k
    BY <1>3 DEF Glides!OfKind
  <2> QED BY <1>3, <2>1 DEF GlidesInv, RecordsKept
<1>4. Glides!GlidesAreKept BY <1>3 DEF Glides!GlidesAreKept
<1> QED BY <1>2, <1>4

(***************************************************************************)
(* AlertsExport: the inductive invariant                                   *)
(***************************************************************************)

\* What the local copy has.
LocalCopy == IF copy = NoFile THEN {} ELSE copy

\* The objects of a chunk that is under way.
OpenChunk == IF alertsStep \in {"append", "mark"} THEN chunk ELSE {}

\* The objects whose alerts the upload of this round has to contain: those
\* it marked, and in a round over all objects those that are behind it.
DueAlerts == IF match THEN marked ELSE Objects \ (unreadObjects \cup OpenChunk)

AlertsShape ==
    /\ content \in [Objects -> SUBSET Alerts]
    /\ status \in [Objects -> {"none", "new", "processed", "failed"}]
    /\ export \in [version : Nat, alerts : SUBSET Alerts]
    /\ expected \in Nat /\ export.version <= expected
    /\ alertsStep \in {"idle", "read", "append", "mark"}
    /\ match \in BOOLEAN /\ newData \in BOOLEAN /\ blind \in BOOLEAN
    /\ unreadObjects \subseteq Objects /\ chunk \subseteq Objects
    /\ marked \subseteq Objects
    /\ raced \subseteq Objects /\ cut \subseteq Objects
    /\ fresh \subseteq Alerts /\ known \subseteq Alerts
    /\ copy # NoFile => copy \subseteq Alerts

\* The course of a round.
AlertsCourse ==
    /\ alertsStep = "idle" => /\ unreadObjects = {} /\ chunk = {} /\ marked = {}
                              /\ ~match /\ ~newData /\ ~blind
    /\ alertsStep # "idle" => (match <=> export.version = expected)
    /\ unreadObjects \cap (chunk \cup marked) = {}
    /\ match => \A f \in unreadObjects : status[f] = "new"
    /\ blind => match
    /\ ~newData => marked = {}
    /\ newData => copy # NoFile
    /\ alertsStep = "mark" => newData

\* Where the alerts of an object are that was not announced again since.
AlertsPlaces ==
    /\ alertsStep # "idle" => known = LocalCopy
    /\ alertsStep = "append" => fresh \cap LocalCopy = {}
    /\ alertsStep = "append"
           => \A f \in chunk \ raced : content[f] \subseteq fresh \cup LocalCopy
    /\ alertsStep = "mark"
           => \A f \in chunk \ raced : content[f] \subseteq LocalCopy
    /\ match /\ ~blind => export.alerts \subseteq LocalCopy
    /\ alertsStep # "idle" => \A f \in DueAlerts \ raced :
          status[f] = "processed" => content[f] \subseteq LocalCopy
    /\ export.version = expected
           => \A f \in Objects \ (raced \cup cut \cup marked) :
          status[f] = "processed" => content[f] \subseteq export.alerts

ExportInv == AlertsShape /\ AlertsCourse /\ AlertsPlaces

LEMMA ExportInit == AlertFile!Init => ExportInv
<1> SUFFICES ASSUME AlertFile!Init PROVE ExportInv
  OBVIOUS
<1>1. /\ content \in [Objects -> SUBSET Alerts]
      /\ status \in [Objects -> {"none", "new", "processed", "failed"}]
      /\ export \in [version : Nat, alerts : SUBSET Alerts]
      /\ export.version <= expected
  BY DEF AlertFile!Init
<1>2. AlertsShape BY <1>1 DEF AlertFile!Init, AlertsShape
<1>3. AlertsCourse BY DEF AlertFile!Init, AlertsCourse
<1>4. AlertsPlaces BY DEF AlertFile!Init, AlertsPlaces
<1> QED BY <1>2, <1>3, <1>4 DEF ExportInv

(***************************************************************************)
(* AlertsExport: the steps                                                 *)
(***************************************************************************)

LEMMA AnnounceStep ==
    ASSUME ExportInv, NEW f \in Objects, NEW more \in SUBSET Alerts,
           AlertFile!Announce(f, more)
    PROVE  ExportInv'
<1> USE DEF ExportInv
<1>1. /\ \A g \in Objects \ {f} : /\ content'[g] = content[g]
                                   /\ status'[g] = status[g]
      /\ status'[f] = "new" /\ cut' = cut \ {f}
      /\ \A g \in Objects \ {f} : g \in raced' <=> g \in raced
      /\ f \in chunk /\ alertsStep \in {"append", "mark"} => f \in raced'
      /\ UNCHANGED <<export, expected, AlertFile!roundVars>>
  BY DEF AlertFile!Announce, AlertsShape
<1>2. AlertsShape' BY DEF AlertFile!Announce, AlertsShape, AlertFile!roundVars
<1>3. AlertsCourse' BY <1>1 DEF AlertsShape, AlertsCourse, AlertFile!roundVars
<1>4. LocalCopy' = LocalCopy /\ DueAlerts' = DueAlerts
  BY <1>1 DEF LocalCopy, DueAlerts, OpenChunk, AlertFile!roundVars
<1>5. DueAlerts \subseteq Objects BY DEF DueAlerts, AlertsShape
<1>6. AlertsPlaces'
  BY <1>1, <1>4, <1>5 DEF AlertsShape, AlertsPlaces, AlertFile!roundVars
<1> QED BY <1>2, <1>3, <1>6

\* The end of a round whose copy is not uploaded: by a new container, of this
\* or a later version, or by a failure.
LEMMA StopStep ==
    ASSUME ExportInv, AlertFile!StopRound, cut' = AlertFile!Unsaved, expected' \in Nat,
           expected' >= expected, copy' = NoFile \/ copy' = copy,
           UNCHANGED <<content, status, export, raced>>
    PROVE  ExportInv'
<1> USE DEF ExportInv
<1>1. AlertsShape'
  <2>1. cut' \subseteq Objects BY DEF AlertsShape, AlertFile!Unsaved
  <2>2. export.version <= expected' BY DEF AlertsShape
  <2> QED BY <2>1, <2>2 DEF AlertsShape, AlertFile!StopRound
<1>2. AlertsCourse' BY DEF AlertsCourse, AlertFile!StopRound
<1>3. ASSUME export.version = expected', NEW f \in Objects \ (raced \cup cut'),
             status[f] = "processed"
      PROVE  content[f] \subseteq export.alerts
  <2>1. export.version = expected BY <1>3 DEF AlertsShape
  <2>2. f \notin cut \cup marked
    BY <1>3, <2>1 DEF AlertFile!Unsaved, AlertsCourse
  <2> QED BY <1>3, <2>1, <2>2 DEF AlertsPlaces
<1>4. AlertsPlaces' BY <1>3 DEF AlertsPlaces, AlertFile!StopRound
<1> QED BY <1>1, <1>2, <1>4

LEMMA BeginAlerts ==
    ASSUME ExportInv, AlertFile!Begin
    PROVE  ExportInv'
<1> USE DEF ExportInv
<1>1. /\ alertsStep = "idle" /\ alertsStep' = "read"
      /\ match' = (export.version = expected)
      /\ unreadObjects' = AlertFile!Selected(~match')
      /\ known' = LocalCopy'
      /\ UNCHANGED <<content, status, export, expected, chunk, fresh, newData,
                     marked, raced, cut>>
      /\ \/ /\ copy' = IF match' THEN export.alerts ELSE copy
            /\ UNCHANGED blind
         \/ match' /\ copy' = NoFile /\ blind' = TRUE
      /\ ~blind
  <2>1. alertsStep = "idle" BY DEF AlertFile!Begin
  <2>2. match' = (export.version = expected)
            /\ unreadObjects' = AlertFile!Selected(~match')
    BY DEF AlertFile!Begin
  <2>3. \/ /\ copy' = IF match' THEN export.alerts ELSE copy
           /\ UNCHANGED blind
        \/ match' /\ copy' = NoFile /\ blind' = TRUE
    BY DEF AlertFile!Begin
  <2>4. known' = LocalCopy' BY DEF AlertFile!Begin, LocalCopy
  <2>5. ~blind BY <2>1 DEF AlertsCourse
  <2> QED BY <2>1, <2>2, <2>3, <2>4, <2>5 DEF AlertFile!Begin
<1>2. unreadObjects' \subseteq Objects BY <1>1 DEF AlertFile!Selected
<1>3. AlertsShape' BY <1>1, <1>2 DEF AlertsShape, LocalCopy
<1>4. match' => \A f \in unreadObjects' : status[f] = "new"
  BY <1>1 DEF AlertFile!Selected
<1>5. AlertsCourse'
  <2>1. chunk' = {} /\ marked' = {} /\ ~newData' BY <1>1 DEF AlertsCourse
  <2>2. alertsStep' # "idle" /\ alertsStep' # "mark" BY <1>1
  <2>3. match' <=> export'.version = expected' BY <1>1
  <2>4. blind' => match'
    <3>1. CASE UNCHANGED blind BY <1>1, <3>1
    <3>2. CASE match' BY <3>2
    <3> QED BY <1>1, <3>1, <3>2
  <2>5. match' => \A f \in unreadObjects' : status'[f] = "new" BY <1>1, <1>4
  <2> QED BY <2>1, <2>2, <2>3, <2>4, <2>5 DEF AlertsCourse
<1>6. ~match' => \A f \in Objects \ unreadObjects' : status[f] # "processed"
  BY <1>1 DEF AlertFile!Selected
<1>7. marked = {} /\ chunk = {} BY <1>1 DEF AlertsCourse
<1>8. match' /\ ~blind' => export.alerts \subseteq LocalCopy'
  BY <1>1, NoSuchCopy DEF LocalCopy, AlertsShape
<1>9. AlertsPlaces'
  BY <1>1, <1>6, <1>7, <1>8 DEF AlertsPlaces, DueAlerts, OpenChunk
<1> QED BY <1>3, <1>5, <1>9

LEMMA ReadStep == ExportInv /\ AlertFile!ReadChunk => ExportInv'
<1> SUFFICES ASSUME ExportInv, AlertFile!ReadChunk PROVE ExportInv'
  OBVIOUS
<1> USE DEF ExportInv
<1>1. PICK objects \in SUBSET unreadObjects :
         /\ chunk' = objects /\ unreadObjects' = unreadObjects \ objects
         /\ fresh' = AlertFile!AlertsOf(objects) \ known
         /\ raced' = raced \ objects
  BY DEF AlertFile!ReadChunk
<1>2. /\ alertsStep = "read" /\ alertsStep' = "append"
      /\ UNCHANGED <<content, status, export, expected, match, known, copy,
                     newData, marked, blind, cut>>
  BY DEF AlertFile!ReadChunk
<1>3. objects \subseteq Objects BY DEF AlertsShape
<1>4. /\ AlertFile!AlertsOf(objects) \subseteq Alerts
      /\ \A f \in objects : content[f] \subseteq AlertFile!AlertsOf(objects)
  BY <1>3 DEF AlertsShape, AlertFile!AlertsOf
<1>5. AlertsShape' BY <1>1, <1>2, <1>3, <1>4 DEF AlertsShape
<1>6. AlertsCourse' BY <1>1, <1>2 DEF AlertsCourse
<1>7. /\ LocalCopy' = LocalCopy /\ known = LocalCopy
      /\ DueAlerts' \subseteq DueAlerts /\ DueAlerts \cap objects = {}
  BY <1>1, <1>2, <1>3
  DEF LocalCopy, AlertsPlaces, DueAlerts, OpenChunk, AlertsCourse
<1>8. /\ fresh' \cap LocalCopy = {}
      /\ \A f \in objects : content[f] \subseteq fresh' \cup LocalCopy
  BY <1>1, <1>4, <1>7
<1>9. \A f \in DueAlerts' \ raced' : status[f] = "processed"
          => content[f] \subseteq LocalCopy
  BY <1>1, <1>2, <1>7 DEF AlertsPlaces
<1>10. export.version = expected => \A f \in objects : status[f] = "new"
  BY <1>1, <1>2 DEF AlertsCourse
<1>11. export.version = expected =>
          \A f \in Objects \ (raced' \cup cut \cup marked) :
             status[f] = "processed" => content[f] \subseteq export.alerts
  BY <1>1, <1>10 DEF AlertsPlaces
<1>12. AlertsPlaces' BY <1>1, <1>2, <1>7, <1>8, <1>9, <1>11 DEF AlertsPlaces
<1> QED BY <1>5, <1>6, <1>12

LEMMA AppendAlerts ==
    ASSUME ExportInv, AlertFile!Append
    PROVE  ExportInv'
<1> USE DEF ExportInv
<1>1. /\ alertsStep = "append" /\ alertsStep' = "mark" /\ newData' = TRUE
      /\ copy' = fresh \cup LocalCopy /\ known' = known \cup fresh
      /\ UNCHANGED <<content, status, export, expected, match, unreadObjects,
                     chunk, fresh, marked, blind, raced, cut>>
  BY DEF AlertFile!Append, LocalCopy
<1>2. copy' \subseteq Alerts /\ copy' # NoFile
  BY <1>1, NoSuchCopy DEF AlertsShape, LocalCopy
<1>3. AlertsShape' BY <1>1, <1>2 DEF AlertsShape
<1>4. AlertsCourse' BY <1>1, <1>2 DEF AlertsCourse
<1>5. LocalCopy' = fresh \cup LocalCopy BY <1>1, <1>2 DEF LocalCopy
<1>6. known' = LocalCopy' BY <1>1, <1>5 DEF AlertsPlaces
<1>7. DueAlerts' = DueAlerts BY <1>1 DEF DueAlerts, OpenChunk
<1>8. AlertsPlaces' BY <1>1, <1>5, <1>6, <1>7 DEF AlertsPlaces
<1> QED BY <1>3, <1>4, <1>8

\* A chunk without new alerts is done, a marked one as well, and a failed one
\* is no longer processed.
LEMMA ChunkEndStep ==
    ASSUME ExportInv,
           AlertFile!SkipChunk \/ AlertFile!Mark \/ AlertFile!ChunkFails
    PROVE  ExportInv'
<1> USE DEF ExportInv
<1>1. /\ alertsStep \in {"append", "mark"} /\ alertsStep' = "read"
      /\ UNCHANGED <<content, export, expected, match, unreadObjects, chunk,
                     fresh, known, copy, newData, blind, raced, cut>>
      /\ LocalCopy' = LocalCopy
  BY DEF AlertFile!SkipChunk, AlertFile!Mark, AlertFile!ChunkFails, LocalCopy
<1>2. \A f \in Objects \ chunk : status'[f] = status[f]
  BY DEF AlertFile!SkipChunk, AlertFile!Mark, AlertFile!ChunkFails,
      AlertFile!SetStatus
<1>3. /\ marked' \in {marked, marked \cup chunk}
      /\ (marked' # marked => alertsStep = "mark")
  BY DEF AlertFile!SkipChunk, AlertFile!Mark, AlertFile!ChunkFails
<1>4. status' \in [Objects -> {"none", "new", "processed", "failed"}]
  BY DEF AlertFile!SkipChunk, AlertFile!Mark, AlertFile!ChunkFails,
      AlertFile!SetStatus, AlertsShape
<1>5. AlertsShape' BY <1>1, <1>3, <1>4 DEF AlertsShape
<1>6. AlertsCourse' BY <1>1, <1>2, <1>3 DEF AlertsCourse, AlertsShape
<1>7. \A f \in chunk \ raced : status'[f] = "processed"
          => content[f] \subseteq LocalCopy
  <2>1. CASE AlertFile!SkipChunk BY <2>1 DEF AlertFile!SkipChunk, AlertsPlaces
  <2>2. CASE AlertFile!Mark BY <2>2 DEF AlertFile!Mark, AlertsPlaces
  <2>3. CASE AlertFile!ChunkFails
    BY <2>3 DEF AlertFile!ChunkFails, AlertFile!SetStatus, AlertsShape
  <2> QED BY <2>1, <2>2, <2>3
<1>8. DueAlerts' \subseteq DueAlerts \cup chunk
  BY <1>1, <1>3 DEF DueAlerts, OpenChunk
<1>9. \A f \in DueAlerts' \ raced : status'[f] = "processed"
          => content[f] \subseteq LocalCopy
  BY <1>1, <1>2, <1>7, <1>8 DEF AlertsPlaces, DueAlerts, AlertsShape
<1>10. export.version = expected =>
          \A f \in Objects \ (raced \cup cut \cup marked') :
             status'[f] = "processed" => status[f] = "processed"
  <2>1. CASE AlertFile!SkipChunk BY <2>1 DEF AlertFile!SkipChunk
  <2>2. CASE AlertFile!Mark BY <2>2 DEF AlertFile!Mark
  <2>3. CASE AlertFile!ChunkFails
    BY <2>3 DEF AlertFile!ChunkFails, AlertFile!SetStatus
  <2> QED BY <2>1, <2>2, <2>3
<1>11. marked \subseteq marked' BY <1>3
<1>12. AlertsPlaces' BY <1>1, <1>9, <1>10, <1>11 DEF AlertsPlaces
<1> QED BY <1>5, <1>6, <1>12

LEMMA UploadStep == ExportInv /\ AlertFile!Upload => ExportInv'
<1> SUFFICES ASSUME ExportInv, AlertFile!Upload PROVE ExportInv'
  OBVIOUS
<1> USE DEF ExportInv
<1>1. /\ alertsStep = "read" /\ unreadObjects = {} /\ AlertFile!StopRound
      /\ UNCHANGED <<content, status, expected, copy, raced>>
  BY DEF AlertFile!Upload
<1>2. CASE ~newData
  <2>1. UNCHANGED <<export, cut>> /\ marked = {}
    BY <1>2 DEF AlertFile!Upload, AlertsCourse
  <2>2. AlertsShape' BY <1>1, <2>1 DEF AlertsShape, AlertFile!StopRound
  <2>3. AlertsCourse' BY <1>1 DEF AlertsCourse, AlertFile!StopRound
  <2>4. AlertsPlaces' BY <1>1, <2>1 DEF AlertsPlaces, AlertFile!StopRound
  <2> QED BY <2>2, <2>3, <2>4
<1>3. CASE newData
  <2>1. /\ copy # NoFile /\ LocalCopy = copy /\ copy \subseteq Alerts
        /\ export' = [version |-> expected, alerts |-> LocalCopy]
    BY <1>3 DEF AlertFile!Upload, AlertsCourse, LocalCopy, AlertsShape
  <2>2. cut' = IF blind THEN cut \cup (Objects \ marked)
               ELSE IF match THEN cut ELSE {}
    BY <1>3 DEF AlertFile!Upload
  <2>3. AlertsShape'
    <3>1. LocalCopy \subseteq Alerts /\ expected \in Nat /\ expected <= expected
      BY <2>1 DEF AlertsShape
    <3>2. /\ export' \in [version : Nat, alerts : SUBSET Alerts]
          /\ export'.version <= expected
      BY <2>1, <3>1
    <3>3. cut' \subseteq Objects BY <2>2 DEF AlertsShape
    <3> QED BY <1>1, <3>2, <3>3 DEF AlertsShape, AlertFile!StopRound
  <2>4. AlertsCourse' BY <1>1 DEF AlertsCourse, AlertFile!StopRound
  <2>5. ASSUME NEW f \in Objects \ (raced \cup cut'), status[f] = "processed"
        PROVE  content[f] \subseteq LocalCopy
    <3>1. CASE ~match
      <4>1. f \in DueAlerts BY <1>1, <3>1 DEF DueAlerts, OpenChunk
      <4> QED BY <1>1, <2>5, <4>1 DEF AlertsPlaces
    <3>2. CASE match /\ f \in marked
      <4>1. f \in DueAlerts BY <3>2 DEF DueAlerts
      <4> QED BY <1>1, <2>5, <4>1 DEF AlertsPlaces
    <3>3. CASE match /\ f \notin marked
      <4>1. ~blind /\ f \notin cut BY <2>2, <2>5, <3>3
      <4>2. content[f] \subseteq export.alerts
        BY <1>1, <2>5, <3>3, <4>1 DEF AlertsPlaces, AlertsCourse
      <4> QED BY <3>3, <4>1, <4>2 DEF AlertsPlaces
    <3> QED BY <3>1, <3>2, <3>3
  <2>6. AlertsPlaces' BY <1>1, <2>1, <2>5 DEF AlertsPlaces, AlertFile!StopRound
  <2> QED BY <2>3, <2>4, <2>6
<1> QED BY <1>2, <1>3 DEF AlertsShape

LEMMA ExportNext == ExportInv /\ AlertFile!Next => ExportInv'
<1> SUFFICES ASSUME ExportInv, AlertFile!Next PROVE ExportInv'
  OBVIOUS
<1>1. ASSUME NEW f \in Objects, NEW more \in SUBSET Alerts,
             AlertFile!Announce(f, more)
      PROVE  ExportInv'
  BY <1>1, AnnounceStep
<1>2. expected \in Nat BY DEF ExportInv, AlertsShape
<1>3. CASE AlertFile!Deploy
  <2>1. /\ AlertFile!StopRound /\ cut' = AlertFile!Unsaved
        /\ expected' = expected + 1
        /\ copy' = NoFile /\ UNCHANGED <<content, status, export, raced>>
    BY <1>3 DEF AlertFile!Deploy, AlertFile!Restart
  <2>2. expected' \in Nat /\ expected' >= expected BY <1>2, <2>1
  <2> QED BY <2>1, <2>2, StopStep
<1>4. CASE AlertFile!Crash
  <2>1. /\ AlertFile!StopRound /\ cut' = AlertFile!Unsaved /\ expected' = expected
        /\ copy' = NoFile /\ UNCHANGED <<content, status, export, raced>>
    BY <1>4 DEF AlertFile!Crash, AlertFile!Restart
  <2>2. expected' \in Nat /\ expected' >= expected BY <1>2, <2>1
  <2> QED BY <2>1, <2>2, StopStep
<1>5. CASE AlertFile!RoundFails \/ AlertFile!UploadFails
  <2>1. /\ AlertFile!StopRound /\ cut' = AlertFile!Unsaved /\ expected' = expected
        /\ copy' = copy /\ UNCHANGED <<content, status, export, raced>>
    BY <1>5 DEF AlertFile!RoundFails, AlertFile!UploadFails
  <2>2. expected' \in Nat /\ expected' >= expected BY <1>2, <2>1
  <2> QED BY <2>1, <2>2, StopStep
<1> QED
  BY <1>1, <1>3, <1>4, <1>5, AppendAlerts, BeginAlerts, ReadStep, ChunkEndStep,
     UploadStep
  DEF AlertFile!Next

LEMMA ExportSafe == ExportInv => AlertFile!TypeOK /\ AlertFile!AlertsAreExported
<1> SUFFICES ASSUME ExportInv
             PROVE  AlertFile!TypeOK /\ AlertFile!AlertsAreExported
  OBVIOUS
<1>1. AlertFile!TypeOK
  BY DEF ExportInv, AlertsShape, AlertsCourse, AlertFile!TypeOK
<1>2. alertsStep = "idle" => marked = {} BY DEF ExportInv, AlertsCourse
<1>3. copy # NoFile => LocalCopy = copy BY DEF LocalCopy
<1>4. AlertFile!AlertsAreExported
  BY <1>2, <1>3 DEF ExportInv, AlertsPlaces, AlertFile!AlertsAreExported
<1> QED BY <1>1, <1>4

(***************************************************************************)
(* ManagerExports: sums of rows                                            *)
(***************************************************************************)
\* The element by which a sum is taken apart.
Pick(T) == CHOOSE d \in T : TRUE

\* g gives the number of rows of each set of some dates.
Adds(g, days, D) ==
    \A T \in D :
        g[T] = IF T = {} THEN 0 ELSE days[Pick(T)].rows + g[T \ {Pick(T)}]

LEMMA PickFacts ==
    ASSUME NEW S, IsFiniteSet(S), NEW T \in SUBSET S, T # {}
    PROVE  /\ Pick(T) \in T /\ T \ {Pick(T)} \in SUBSET S
           /\ IsFiniteSet(T) /\ Cardinality(T) \in Nat
           /\ Cardinality(T \ {Pick(T)}) = Cardinality(T) - 1
           /\ Cardinality(T) > 0
<1>1. Pick(T) \in T BY DEF Pick
<1>2. IsFiniteSet(T) BY FS_Subset
<1>3. Cardinality(T) \in Nat /\ Cardinality(T \ {Pick(T)}) = Cardinality(T) - 1
  BY <1>1, <1>2, FS_CardinalityType, FS_RemoveElement
<1>4. Cardinality(T) # 0 BY <1>2, FS_EmptySet
<1> QED BY <1>1, <1>2, <1>3, <1>4

\* Sets of at most n of some dates have a number of rows.
LEMMA SumsOfSize ==
    ASSUME NEW days, NEW S, IsFiniteSet(S)
    PROVE  \A n \in Nat : \E g :
           Adds(g, days, {T \in SUBSET S : Cardinality(T) <= n})
<1> DEFINE D(n) == {T \in SUBSET S : Cardinality(T) <= n}
           Bad == {n \in Nat : ~ \E g : Adds(g, days, D(n))}
<1>1. SUFFICES ASSUME Bad # {} PROVE FALSE
  OBVIOUS
<1>2. PICK n \in Bad : \A m \in Bad : n <= m BY <1>1, LeastNumber
<1>3. ASSUME n = 0 PROVE \E g : Adds(g, days, D(n))
  <2> DEFINE g == [T \in SUBSET S |-> 0]
  <2>1. ASSUME NEW T \in D(n) PROVE T = {}
    <3>1. IsFiniteSet(T) /\ T \in SUBSET S BY FS_Subset
    <3>2. Cardinality(T) \in Nat BY <3>1, FS_CardinalityType
    <3>3. Cardinality(T) = 0 BY <1>3, <3>2
    <3> QED BY <3>1, <3>3, FS_EmptySet
  <2>2. Adds(g, days, D(n)) BY <2>1 DEF Adds
  <2> QED BY <2>2
<1>4. ASSUME n # 0 PROVE \E g : Adds(g, days, D(n))
  <2>1. n - 1 \in Nat /\ n - 1 < n /\ n \in Nat BY <1>4
  <2>2. PICK h : Adds(h, days, D(n - 1))
    <3>1. n - 1 \notin Bad
      <4> HIDE DEF Bad
      <4> QED BY <1>2, <2>1
    <3> QED BY <2>1, <3>1
  <2> DEFINE v(T) == IF T = {} THEN 0 ELSE days[Pick(T)].rows + h[T \ {Pick(T)}]
             g == [T \in SUBSET S |-> v(T)]
  <2>3. ASSUME NEW T \in SUBSET S, Cardinality(T) <= n - 1 PROVE g[T] = h[T]
    BY <2>2, <2>3 DEF Adds
  <2>4. ASSUME NEW T \in SUBSET S, Cardinality(T) <= n, T # {}
        PROVE  g[T] = days[Pick(T)].rows + g[T \ {Pick(T)}]
    <3> DEFINE U == T \ {Pick(T)}
    <3>1. U \in SUBSET S /\ Cardinality(U) <= n - 1 BY <2>1, <2>4, PickFacts
    <3>2. g[U] = h[U] BY <2>3, <3>1
    <3> QED BY <2>4, <3>2
  <2>5. Adds(g, days, D(n))
    <3>1. ASSUME NEW T \in D(n)
          PROVE  g[T] = IF T = {} THEN 0
                 ELSE days[Pick(T)].rows + g[T \ {Pick(T)}]
      <4>1. CASE T = {} BY <4>1
      <4>2. CASE T # {} 
        <5> HIDE DEF g
        <5> QED BY <2>4, <4>2
      <4> QED BY <4>1, <4>2
    <3> HIDE DEF g
    <3> QED BY <3>1 DEF Adds
  <2> QED BY <2>5
<1> QED BY <1>2, <1>3, <1>4

\* Count is such a sum.
LEMMA CountAdds ==
    ASSUME NEW days, NEW S, IsFiniteSet(S)
    PROVE  \E g : Manager!Count(days, S) = g[S] /\ Adds(g, days, SUBSET S)
<1> DEFINE E(g) == [T \in SUBSET S |->
                       IF T = {} THEN 0
                       ELSE days[Pick(T)].rows + g[T \ {Pick(T)}]]
           sum == CHOOSE g : g = E(g)
<1>1. Manager!Count(days, S) = sum[S]
  BY DEF Manager!Count, Manager!MapThenSumSet, Manager!MapThenFoldSet, Pick
<1>2. \E g : g = E(g)
  <2>1. Cardinality(S) \in Nat BY FS_CardinalityType
  <2>2. PICK h :
            Adds(h, days, {T \in SUBSET S : Cardinality(T) <= Cardinality(S)})
    <3>1. \A n \in Nat : \E g :
              Adds(g, days, {T \in SUBSET S : Cardinality(T) <= n})
      BY SumsOfSize
    <3> QED BY <2>1, <3>1
  <2>3. \A T \in SUBSET S : Cardinality(T) <= Cardinality(S) BY FS_Subset
  <2>4. Adds(h, days, SUBSET S) BY <2>2, <2>3 DEF Adds
  <2> DEFINE g == [T \in SUBSET S |-> h[T]]
  <2>5. g = E(g)
    <3>1. \A T \in SUBSET S : g[T] = h[T] OBVIOUS
    <3>2. ASSUME NEW T \in SUBSET S
          PROVE  h[T] = IF T = {} THEN 0
                 ELSE days[Pick(T)].rows + g[T \ {Pick(T)}]
      <4>1. CASE T = {} BY <2>4, <4>1 DEF Adds
      <4>2. CASE T # {} 
        <5>1. T \ {Pick(T)} \in SUBSET S OBVIOUS
        <5>2. g[T \ {Pick(T)}] = h[T \ {Pick(T)}] BY <3>1, <5>1
        <5> HIDE DEF g
        <5> QED BY <2>4, <4>2, <5>2 DEF Adds
      <4> QED BY <4>1, <4>2
    <3> QED BY <3>2
  <2> QED BY <2>5
<1>3. sum = E(sum)
  BY <1>2
<1>4. Adds(sum, days, SUBSET S)
  <2>1. \A T \in SUBSET S : E(sum)[T] = IF T = {} THEN 0
                              ELSE days[Pick(T)].rows + sum[T \ {Pick(T)}]
    OBVIOUS
  <2> HIDE DEF sum
  <2>2. \A T \in SUBSET S : sum[T] = IF T = {} THEN 0
                              ELSE days[Pick(T)].rows + sum[T \ {Pick(T)}]
    <3> HIDE DEF E
    <3> QED BY <1>3, <2>1
  <2> QED BY <2>2 DEF Adds
<1> QED BY <1>1, <1>4

\* When no date has fewer rows and together they have no more, each has as
\* many as before.
LEMMA SameCount ==
    ASSUME NEW days, NEW more, NEW S, IsFiniteSet(S),
           \A d \in S : /\ days[d].rows \in Nat /\ more[d].rows \in Nat
                        /\ days[d].rows <= more[d].rows,
           Manager!Count(days, S) = Manager!Count(more, S)
    PROVE  \A d \in S : days[d].rows = more[d].rows
<1>1. PICK g : Manager!Count(days, S) = g[S] /\ Adds(g, days, SUBSET S)
  BY CountAdds
<1>2. PICK h : Manager!Count(more, S) = h[S] /\ Adds(h, more, SUBSET S)
  BY CountAdds
<1> DEFINE P(T) == /\ g[T] \in Nat /\ h[T] \in Nat /\ g[T] <= h[T]
                   /\ g[T] = h[T] => \A d \in T : days[d].rows = more[d].rows
           Bad == {n \in Nat : \E T \in SUBSET S : Cardinality(T) = n /\ ~P(T)}
<1>3. Bad = {}
  <2> SUFFICES ASSUME Bad # {} PROVE FALSE
    OBVIOUS
  <2>1. PICK n \in Bad : \A m \in Bad : n <= m BY LeastNumber
  <2>2. PICK T \in SUBSET S : Cardinality(T) = n /\ ~P(T) BY <2>1
  <2>3. T # {} 
    <3>1. g[{}] = 0 /\ h[{}] = 0 BY <1>1, <1>2 DEF Adds
    <3>2. P({}) BY <3>1
    <3> HIDE DEF P
    <3> QED BY <2>2, <3>2
  <2> DEFINE U == T \ {Pick(T)}
  <2>4. /\ Pick(T) \in T /\ U \in SUBSET S /\ Cardinality(U) = n - 1 /\ n > 0
        /\ n \in Nat
    BY <2>2, <2>3, PickFacts
  <2>5. P(U)
    <3>1. n - 1 \in Nat /\ n - 1 < n BY <2>4
    <3>2. n - 1 \notin Bad BY <2>1, <3>1, <2>4
    <3> HIDE DEF P, U
    <3> QED BY <2>4, <3>1, <3>2
  <2>6. g[T] = days[Pick(T)].rows + g[U] /\ h[T] = more[Pick(T)].rows + h[U]
    BY <1>1, <1>2, <2>3 DEF Adds
  <2>7. Pick(T) \in S BY <2>4
  <2>8. P(T)
    <3>1. /\ days[Pick(T)].rows \in Nat /\ more[Pick(T)].rows \in Nat
          /\ days[Pick(T)].rows <= more[Pick(T)].rows
      BY <2>7
    <3>2. g[T] \in Nat /\ h[T] \in Nat /\ g[T] <= h[T] BY <2>5, <2>6, <3>1
    <3>3. ASSUME g[T] = h[T] PROVE \A d \in T : days[d].rows = more[d].rows
      <4>1. days[Pick(T)].rows = more[Pick(T)].rows /\ g[U] = h[U]
        BY <2>5, <2>6, <3>1, <3>3
      <4> QED BY <2>5, <4>1
    <3> QED BY <3>2, <3>3
  <2> QED BY <2>2, <2>8
<1>4. Cardinality(S) \in Nat BY FS_CardinalityType
<1>5. P(S) BY <1>3, <1>4
<1> QED BY <1>1, <1>2, <1>5

(***************************************************************************)
(* ManagerExports: the inductive invariant                                 *)
(***************************************************************************)

\* The types, with those of the files and of the rows of each date.
ManagerShape ==
    /\ events \in
          [Manager!Dates -> [rows : 0..MaxRows, rev : 0..MaxRounds, key : Nat]]
    /\ schedule \in [Manager!Dates -> Nat]
    /\ \A d \in Manager!Dates : events[d].key <= schedule[d]
    /\ temp \subseteq Manager!Dates /\ behind \subseteq Manager!Dates
    /\ pending \subseteq Manager!Dates /\ late \subseteq Manager!Dates
    /\ rpmVersion \in Nat /\ lampVersion \in Nat /\ rounds \in 0..MaxRounds
    /\ files \in
         [Manager!Dates -> {None} \cup [version : Nat, table : Manager!Table]]
    /\ \A d \in Manager!Dates : files[d] # None => files[d].version <= rpmVersion
    /\ index \in Nat /\ index <= rpmVersion
    /\ fast \in {"idle", "check", "write"}
    /\ parquet \in {None} \cup [version : Nat, days : Manager!Days]
    /\ parquet # None => parquet.version <= lampVersion
    /\ source \in {None} \cup Manager!Days /\ hyper \in {None} \cup Manager!Days
    /\ newer \in {"parquet", "source"} /\ overtaken \in BOOLEAN

\* The flat file of a date is what FlatFilesFollowEvents asks for.
Settled(d) ==
    /\ files[d] # None
    /\ files[d].version >= index
    /\ \/ files[d].table = Manager!Rows(d)
       \/ files[d].table = Manager!NoRows /\ events[d].key # schedule[d]

\* Between rounds the dates that no fault left behind are settled; during a
\* round some of them wait for it, and once the version was checked those
\* that do not have the version of the index that will be written.
FlatInv ==
    \A d \in Manager!Processed \ behind :
        \/ Settled(d) /\ (fast = "write" => index = rpmVersion)
        \/ fast # "idle" /\ d \in Manager!Due

\* The parquet is at most behind the database.
ParquetInv ==
    parquet # None =>
        /\ \A d \in Manager!Dates : parquet.days[d].rows <= events[d].rows
        /\ \A d \in Manager!Dates \ (pending \cup late) :
               parquet.days[d].rows = events[d].rows
        /\ ~Manager!Empty(parquet.days)
               => pending \ Manager!Window(parquet.days) \subseteq late

\* The hyper file and the datasource come from the parquet.
HyperInv ==
    /\ hyper # None => newer = "parquet" /\ parquet # None
    /\ hyper # None /\ ~overtaken => hyper = parquet.days
    /\ newer = "source" => source # None /\ parquet # None
    /\ newer = "source" /\ ~overtaken => source = parquet.days

ManagerInv == ManagerShape /\ FlatInv /\ ParquetInv /\ HyperInv

LEMMA ManagerTyped == ManagerShape => Manager!TypeOK
<1> SUFFICES ASSUME ManagerShape PROVE Manager!TypeOK
  OBVIOUS
<1> USE DEF ManagerShape
<1>1. \A d \in Manager!Dates : /\ Manager!Rows(d) \in Manager!Table
                               /\ events[d].key <= schedule[d]
  BY DEF Manager!Rows, Manager!Table
<1>2. \A d \in Manager!Archived : files[d].table \in Manager!Table
          /\ files[d].version <= rpmVersion
  BY DEF Manager!Archived
<1>3. parquet # None
          => parquet.days \in Manager!Days /\ parquet.version <= lampVersion
  OBVIOUS
<1>4. temp \cup behind \cup pending \cup late \subseteq Manager!Dates OBVIOUS
<1> QED BY <1>1, <1>2, <1>3, <1>4 DEF Manager!TypeOK

LEMMA ManagerInit == Manager!Init => ManagerInv
<1> SUFFICES ASSUME Manager!Init PROVE ManagerInv
  OBVIOUS
<1>1. ManagerShape
  <2>1. /\ 0 \in 0..MaxRows /\ 0 \in 0..MaxRounds
        /\ 0 \in Nat /\ 1 \in Nat /\ 0 <= 1
    BY ExportsAssumption
  <2>2. \A d \in Manager!Dates : events[d] = [rows |-> 0, rev |-> 0, key |-> 0]
    BY DEF Manager!Init
  <2>3. events \in
          [Manager!Dates -> [rows : 0..MaxRows, rev : 0..MaxRounds, key : Nat]]
    BY <2>1 DEF Manager!Init
  <2>4. /\ schedule \in [Manager!Dates -> Nat]
        /\ \A d \in Manager!Dates : events[d].key <= schedule[d]
    BY <2>1, <2>2 DEF Manager!Init
  <2>5. /\ files \in
             [Manager!Dates -> {None} \cup [version : Nat, table : Manager!Table]]
        /\ \A d \in Manager!Dates : files[d] = None
    BY DEF Manager!Init
  <2> QED BY <2>1, <2>3, <2>4, <2>5 DEF Manager!Init, ManagerShape
<1>2. Manager!Processed = {} BY DEF Manager!Init, Manager!Processed
<1>3. FlatInv BY <1>2 DEF FlatInv
<1>4. ParquetInv /\ HyperInv BY DEF Manager!Init, ParquetInv, HyperInv
<1> QED BY <1>1, <1>3, <1>4 DEF ManagerInv

(***************************************************************************)
(* ManagerExports: the steps                                               *)
(***************************************************************************)

\* What the slow loop and the hyper update do not touch.
LEMMA FlatFrame ==
    ASSUME FlatInv,
           UNCHANGED <<events, schedule, temp, Manager!codeVars, Manager!flatVars>>
    PROVE  FlatInv'
BY DEF FlatInv, Settled, Manager!Rows, Manager!Due, Manager!Processed,
    Manager!Archived, Manager!codeVars, Manager!flatVars

LEMMA TableauFrame ==
    ASSUME ParquetInv, HyperInv,
           UNCHANGED <<events, pending, late, Manager!tableauVars>>
    PROVE  ParquetInv' /\ HyperInv'
BY DEF ParquetInv, HyperInv, Manager!Empty, Manager!Window, Manager!LatestDate,
    Manager!tableauVars

LEMMA LoadScheduleKeeps ==
    ASSUME ManagerInv, NEW from \in Manager!Dates, Manager!LoadSchedule(from)
    PROVE  ManagerInv'
<1> USE DEF ManagerInv
<1>1. /\ fast = "idle"
      /\ UNCHANGED <<events, temp, pending, late, Manager!codeVars,
                     Manager!flatVars,
                                      Manager!tableauVars, rounds>>
      /\ schedule' = [d \in Manager!Dates |->
                        IF d >= from THEN schedule[d] + 1 ELSE schedule[d]]
  BY DEF Manager!LoadSchedule, Manager!Release
<1>2. \A d \in Manager!Dates : schedule'[d] \in Nat /\ schedule[d] <= schedule'[d]
  BY <1>1 DEF ManagerShape
<1>3. ManagerShape'
  <2>1. \A d \in Manager!Dates : events[d].key \in Nat /\ schedule[d] \in Nat
    BY DEF ManagerShape
  <2>2. \A d \in Manager!Dates : events'[d].key <= schedule'[d]
    BY <1>1, <1>2, <2>1 DEF ManagerShape
  <2>3. schedule' \in [Manager!Dates -> Nat] BY <1>1, <1>2
  <2> QED BY <1>1, <2>2, <2>3
          DEF ManagerShape, Manager!codeVars, Manager!flatVars,
              Manager!tableauVars
<1>4. FlatInv'
  <2> SUFFICES ASSUME NEW d \in Manager!Processed' \ behind' PROVE Settled(d)'
    BY <1>1 DEF FlatInv, Manager!flatVars
  <2>1. d \in Manager!Dates /\ Settled(d)
    BY <1>1 DEF FlatInv, Manager!Processed, Manager!flatVars
  <2>2. events[d].key # schedule[d] => events[d].key # schedule'[d]
    <3>1. /\ events[d].key \in Nat /\ schedule[d] \in Nat
          /\ events[d].key <= schedule[d]
          /\ schedule'[d] \in Nat /\ schedule[d] <= schedule'[d]
      BY <1>2, <2>1 DEF ManagerShape
    <3> QED BY <3>1
  <2> QED BY <1>1, <2>1, <2>2 DEF Settled, Manager!Rows, Manager!flatVars
<1> QED BY <1>1, <1>3, <1>4, TableauFrame

LEMMA QuietRoundKeeps ==
    ASSUME ManagerInv, Manager!QuietRound
    PROVE  ManagerInv'
<1> USE DEF ManagerInv
<1>1. /\ fast = "idle" /\ fast' = "check"
      /\ UNCHANGED <<Manager!databaseVars, Manager!codeVars, files, index,
                     behind, Manager!tableauVars, rounds>>
  BY DEF Manager!QuietRound
<1>2. ManagerShape'
  BY <1>1
  DEF ManagerShape, Manager!databaseVars, Manager!codeVars, Manager!tableauVars
<1>3. FlatInv'
  BY <1>1
  DEF FlatInv, Settled, Manager!Rows, Manager!Processed, Manager!databaseVars
<1> QED BY <1>1, <1>2, <1>3, TableauFrame DEF Manager!databaseVars

LEMMA ProcessEventsKeeps ==
    ASSUME ManagerInv, NEW added \in SUBSET Manager!Dates,
           NEW updated \in SUBSET Manager!Dates,
           Manager!ProcessEvents(added, updated)
    PROVE  ManagerInv'
<1> USE DEF ManagerInv
<1>1. /\ fast = "idle" /\ fast' = "check"
      /\ rounds < MaxRounds /\ rounds' = rounds + 1
      /\ added \cap updated = {} /\ updated \subseteq Manager!Processed
      /\ \A d \in added : events[d].rows < MaxRows
      /\ temp' = added \cup updated
      /\ UNCHANGED <<schedule, Manager!codeVars, files, index, behind,
                     Manager!tableauVars>>
  BY DEF Manager!ProcessEvents
<1>2. CASE UNCHANGED <<events, pending, late>>
  <2>1. ManagerShape'
    BY <1>1, <1>2, ExportsAssumption
    DEF ManagerShape, Manager!codeVars, Manager!tableauVars
  <2>2. FlatInv'
    BY <1>1, <1>2 DEF FlatInv, Settled, Manager!Rows, Manager!Processed
  <2> QED BY <1>1, <1>2, <2>1, <2>2, TableauFrame
<1>3. CASE /\ events' = [d \in Manager!Dates |->
                IF d \notin temp' THEN events[d]
                ELSE [rows |-> events[d].rows + IF d \in added THEN 1 ELSE 0,
                      rev |-> rounds', key |-> schedule[d]]]
           /\ pending' = pending \cup added
           /\ late' = late \cup IF parquet = None THEN {}
                                ELSE IF Manager!Empty(parquet.days) THEN {}
                                ELSE added \ Manager!Window(parquet.days)
  <2>1. ASSUME NEW d \in Manager!Dates
        PROVE  /\ events'[d] \in [rows : 0..MaxRows, rev : 0..MaxRounds, key : Nat]
               /\ events'[d].key <= schedule'[d]
               /\ events[d].rows <= events'[d].rows
               /\ d \notin added => events'[d].rows = events[d].rows
               /\ d \notin temp' => events'[d] = events[d]
    <3>1. /\ events[d] \in [rows : 0..MaxRows, rev : 0..MaxRounds, key : Nat]
          /\ schedule[d] \in Nat /\ rounds \in 0..MaxRounds
          /\ events[d].key <= schedule[d]
      BY DEF ManagerShape
    <3>2. CASE d \in temp'
      <4>1. events'[d] = [rows |-> events[d].rows + IF d \in added THEN 1 ELSE 0,
                          rev |-> rounds', key |-> schedule[d]]
        BY <1>3, <3>2
      <4>2. rounds' \in 0..MaxRounds BY <1>1, <3>1, ExportsAssumption
      <4>3. events[d].rows + (IF d \in added THEN 1 ELSE 0) \in 0..MaxRows
        BY <1>1, <3>1, ExportsAssumption
      <4> QED BY <1>1, <3>1, <3>2, <4>1, <4>2, <4>3
    <3>3. CASE d \notin temp'
      BY <1>1, <1>3, <3>1, <3>3
    <3> QED BY <3>2, <3>3
  <2>2. ManagerShape'
    <3>1. events' \in
            [Manager!Dates -> [rows : 0..MaxRows, rev : 0..MaxRounds, key : Nat]]
      BY <1>3, <2>1
    <3>2. /\ temp' \subseteq Manager!Dates /\ pending' \subseteq Manager!Dates
          /\ late' \subseteq Manager!Dates
      BY <1>1, <1>3 DEF ManagerShape
    <3>3. rounds' \in 0..MaxRounds BY <1>1, ExportsAssumption DEF ManagerShape
    <3> QED BY <1>1, <2>1, <3>1, <3>2, <3>3
            DEF ManagerShape, Manager!codeVars, Manager!tableauVars
  <2>3. FlatInv'
    <3> SUFFICES ASSUME NEW d \in Manager!Processed' \ behind', d \notin temp'
                 PROVE  Settled(d)'
      BY <1>1 DEF FlatInv, Manager!Due
    <3>1. d \in Manager!Dates /\ events'[d] = events[d]
      BY <2>1 DEF Manager!Processed
    <3>2. Settled(d) BY <1>1, <3>1 DEF FlatInv, Manager!Processed
    <3> QED BY <1>1, <3>1, <3>2 DEF Settled, Manager!Rows
  <2>4. ParquetInv'
    <3> SUFFICES ASSUME parquet # None
                 PROVE  /\ \A d \in Manager!Dates : parquet.days[d].rows <= events'[d].rows
                        /\ \A d \in Manager!Dates \ (pending' \cup late') :
                              parquet.days[d].rows = events'[d].rows
                        /\ ~Manager!Empty(parquet.days) =>
                              pending' \ Manager!Window(parquet.days)
                                  \subseteq late'
      BY <1>1
      DEF ParquetInv, Manager!tableauVars, Manager!Empty, Manager!Window,
          Manager!LatestDate
    <3>1. ASSUME NEW d \in Manager!Dates
          PROVE  parquet.days[d].rows <= events'[d].rows
      <4>1. /\ parquet.days[d].rows \in Nat /\ events[d].rows \in Nat
            /\ events'[d].rows \in Nat
        BY <2>2 DEF ManagerShape, Manager!Days, Manager!Table
      <4>2. parquet.days[d].rows <= events[d].rows BY DEF ParquetInv
      <4> QED BY <2>1, <4>1, <4>2
    <3>2. ASSUME NEW d \in Manager!Dates \ (pending' \cup late')
          PROVE  parquet.days[d].rows = events'[d].rows
      BY <1>3, <2>1 DEF ParquetInv
    <3>3. ~Manager!Empty(parquet.days)
              => pending' \ Manager!Window(parquet.days) \subseteq late'
      BY <1>3 DEF ParquetInv
    <3> QED BY <3>1, <3>2, <3>3
  <2>5. HyperInv' BY <1>1 DEF HyperInv, Manager!tableauVars
  <2> QED BY <2>2, <2>3, <2>4, <2>5
<1> QED BY <1>2, <1>3 DEF Manager!ProcessEvents

LEMMA CheckVersionKeeps ==
    ASSUME ManagerInv, Manager!CheckVersion
    PROVE  ManagerInv'
<1> USE DEF ManagerInv
<1>1. /\ fast = "check" /\ fast' = "write"
      /\ UNCHANGED <<Manager!databaseVars, Manager!codeVars,
                     Manager!tableauVars, rounds>>
  BY DEF Manager!CheckVersion
<1>2. CASE index = rpmVersion /\ UNCHANGED <<files, index, behind>>
  <2>1. ManagerShape'
    BY <1>1, <1>2
    DEF ManagerShape, Manager!databaseVars, Manager!codeVars,
        Manager!tableauVars
  <2>2. FlatInv'
    BY <1>1, <1>2
    DEF FlatInv, Settled, Manager!Rows, Manager!Due, Manager!Processed,
        Manager!Archived, Manager!databaseVars, Manager!codeVars
  <2> QED BY <1>1, <2>1, <2>2, TableauFrame DEF Manager!databaseVars
<1>3. CASE /\ files' = [d \in Manager!Dates |-> None] /\ index' = 0
           /\ behind' = behind
  <2>1. ManagerShape'
    BY <1>1, <1>3
    DEF ManagerShape, Manager!databaseVars, Manager!codeVars,
        Manager!tableauVars
  <2>2. FlatInv'
    <3>1. Manager!Archived' = {} BY <1>3 DEF Manager!Archived
    <3> QED BY <1>1, <3>1 DEF FlatInv, Manager!Due
  <2> QED BY <1>1, <2>1, <2>2, TableauFrame DEF Manager!databaseVars
<1>4. CASE behind' = behind \cup Manager!Archived /\ UNCHANGED <<files, index>>
  <2>1. ManagerShape'
    BY <1>1, <1>4
    DEF ManagerShape, Manager!Archived, Manager!databaseVars, Manager!codeVars,
        Manager!tableauVars
  <2>2. FlatInv'
    <3>1. /\ Manager!Archived' = Manager!Archived
          /\ Manager!Processed' = Manager!Processed
      BY <1>1, <1>4
      DEF Manager!Archived, Manager!Processed, Manager!databaseVars
    <3>2. Manager!Processed \ (behind \cup Manager!Archived)
              \subseteq Manager!Processed \ Manager!Archived OBVIOUS
    <3> QED BY <1>1, <1>4, <3>1, <3>2 DEF FlatInv, Manager!Due
  <2> QED BY <1>1, <2>1, <2>2, TableauFrame DEF Manager!databaseVars
<1> QED BY <1>2, <1>3, <1>4 DEF Manager!CheckVersion

LEMMA CheckFailsKeeps ==
    ASSUME ManagerInv, Manager!CheckFails
    PROVE  ManagerInv'
<1> USE DEF ManagerInv
<1>1. PICK deleted \in SUBSET Manager!Archived :
         /\ files' = [d \in Manager!Dates |->
                        IF d \in deleted THEN None ELSE files[d]]
         /\ behind' = behind \cup Manager!Due \cup deleted
  BY DEF Manager!CheckFails
<1>2. /\ fast = "check" /\ fast' = "idle"
      /\ UNCHANGED <<Manager!databaseVars, Manager!codeVars, index,
                     Manager!tableauVars, rounds>>
  BY DEF Manager!CheckFails
<1>3. ManagerShape'
  <2>1. files' \in
          [Manager!Dates -> {None} \cup [version : Nat, table : Manager!Table]]
    BY <1>1 DEF ManagerShape
  <2>2. \A d \in Manager!Dates : files'[d] # None
            => files'[d].version <= rpmVersion
    BY <1>1 DEF ManagerShape
  <2>3. behind' \subseteq Manager!Dates
    BY <1>1 DEF ManagerShape, Manager!Due, Manager!Archived, Manager!Processed
  <2> QED BY <1>2, <2>1, <2>2, <2>3
          DEF ManagerShape, Manager!databaseVars, Manager!codeVars,
              Manager!tableauVars
<1>4. FlatInv'
  <2> SUFFICES ASSUME NEW d \in Manager!Processed' \ behind' PROVE Settled(d)'
    BY <1>2 DEF FlatInv
  <2>1. /\ d \in Manager!Processed \ behind /\ d \notin Manager!Due
        /\ d \notin deleted /\ d \in Manager!Dates
    BY <1>1, <1>2 DEF Manager!Processed, Manager!databaseVars
  <2>2. Settled(d) BY <2>1 DEF FlatInv
  <2>3. files'[d] = files[d] BY <1>1, <2>1
  <2> QED BY <1>2, <2>2, <2>3 DEF Settled, Manager!Rows, Manager!databaseVars
<1> QED BY <1>2, <1>3, <1>4, TableauFrame DEF Manager!databaseVars

LEMMA WriteFilesKeeps ==
    ASSUME ManagerInv, Manager!WriteFiles
    PROVE  ManagerInv'
<1> USE DEF ManagerInv
<1>0. \E listed \in {Manager!Archived, {}}, indexed \in BOOLEAN :
         \E failed \in SUBSET Manager!DatesToUpdate(listed) :
         /\ files' = [d \in Manager!Dates |->
                        IF d \in Manager!DatesToUpdate(listed) \ failed
                        THEN Manager!DailyTable(d) ELSE files[d]]
         /\ behind' = (behind \ Manager!DatesToUpdate(listed)) \cup failed
         /\ index' = IF indexed /\ Manager!DatesToUpdate(listed) # {}
                       THEN rpmVersion ELSE index
  BY DEF Manager!WriteFiles
<1>a. PICK listed \in {Manager!Archived, {}}, indexed \in BOOLEAN :
         \E failed \in SUBSET Manager!DatesToUpdate(listed) :
         /\ files' = [d \in Manager!Dates |->
                        IF d \in Manager!DatesToUpdate(listed) \ failed
                        THEN Manager!DailyTable(d) ELSE files[d]]
         /\ behind' = (behind \ Manager!DatesToUpdate(listed)) \cup failed
         /\ index' = IF indexed /\ Manager!DatesToUpdate(listed) # {}
                       THEN rpmVersion ELSE index
  BY <1>0
<1>1. PICK failed \in SUBSET Manager!DatesToUpdate(listed) :
         /\ files' = [d \in Manager!Dates |->
                        IF d \in Manager!DatesToUpdate(listed) \ failed
                        THEN Manager!DailyTable(d) ELSE files[d]]
         /\ behind' = (behind \ Manager!DatesToUpdate(listed)) \cup failed
         /\ index' = IF indexed /\ Manager!DatesToUpdate(listed) # {}
                       THEN rpmVersion ELSE index
  BY <1>a
<1> DEFINE dates == Manager!DatesToUpdate(listed)
<1>2. /\ fast = "write" /\ fast' = "idle"
      /\ UNCHANGED <<Manager!databaseVars, Manager!codeVars,
                     Manager!tableauVars, rounds>>
  BY DEF Manager!WriteFiles
<1>3. dates \subseteq Manager!Dates /\ Manager!Due \subseteq dates
  BY DEF Manager!DatesToUpdate, Manager!Due, Manager!Archived, Manager!Processed,
      ManagerShape
<1>4. ASSUME NEW d \in Manager!Dates
      PROVE  /\ Manager!DailyTable(d) \in [version : Nat, table : Manager!Table]
             /\ Manager!DailyTable(d) # None
             /\ Manager!DailyTable(d).version = rpmVersion
             /\ \/ Manager!DailyTable(d).table = Manager!Rows(d)
                \/ Manager!DailyTable(d).table = Manager!NoRows
                       /\ events[d].key # schedule[d]
  <2>1. Manager!Rows(d) \in Manager!Table /\ Manager!NoRows \in Manager!Table
    BY ExportsAssumption
    DEF ManagerShape, Manager!Rows, Manager!NoRows, Manager!Table
  <2>2. Manager!DailyTable(d) \in [version : Nat, table : Manager!Table]
    BY <2>1 DEF Manager!DailyTable, ManagerShape
  <2>3. Manager!DailyTable(d) # None BY <2>2, ExportsAssumption
  <2> QED BY <2>2, <2>3 DEF Manager!DailyTable
<1> HIDE DEF dates
<1>5. index' \in Nat /\ index' <= rpmVersion /\ rpmVersion \in Nat
  BY <1>1 DEF ManagerShape
<1>6. ManagerShape'
  <2>1. ASSUME NEW d \in Manager!Dates
        PROVE  /\ files'[d] \in {None} \cup [version : Nat, table : Manager!Table]
               /\ files'[d] # None => files'[d].version <= rpmVersion
    BY <1>1, <1>4, <1>5 DEF ManagerShape
  <2>2. files' \in
          [Manager!Dates -> {None} \cup [version : Nat, table : Manager!Table]]
    BY <1>1, <2>1
  <2>3. behind' \subseteq Manager!Dates BY <1>1, <1>3 DEF ManagerShape, dates
  <2> QED BY <1>2, <1>5, <2>1, <2>2, <2>3
          DEF ManagerShape, Manager!databaseVars, Manager!codeVars,
              Manager!tableauVars
<1>7. FlatInv'
  <2> SUFFICES ASSUME NEW d \in Manager!Processed' \ behind' PROVE Settled(d)'
    BY <1>2 DEF FlatInv
  <2>1. d \in Manager!Dates /\ d \in Manager!Processed /\ d \notin failed
    BY <1>1, <1>2 DEF Manager!Processed, Manager!databaseVars
  <2>2. CASE d \in dates
    <3>1. files'[d] = Manager!DailyTable(d) BY <1>1, <2>1, <2>2 DEF dates
    <3> QED BY <1>2, <1>4, <1>5, <2>1, <3>1
            DEF Settled, Manager!Rows, Manager!databaseVars
  <2>3. CASE d \notin dates
    <3>1. d \notin behind /\ files'[d] = files[d] BY <1>1, <2>1, <2>3 DEF dates
    <3>2. Settled(d) /\ index = rpmVersion
      BY <1>2, <1>3, <2>1, <2>3, <3>1 DEF FlatInv
    <3>3. index' = index BY <1>1, <3>2
    <3> QED BY <1>2, <3>1, <3>2, <3>3
            DEF Settled, Manager!Rows, Manager!databaseVars
  <2> QED BY <2>2, <2>3
<1> QED BY <1>2, <1>6, <1>7, TableauFrame DEF Manager!databaseVars

\* A new container, of whatever version.
LEMMA RestartKeeps ==
    ASSUME ManagerInv, Manager!Restart, rpmVersion' \in Nat, lampVersion' \in Nat,
           rpmVersion <= rpmVersion', lampVersion <= lampVersion',
           UNCHANGED rounds
    PROVE  ManagerInv'
<1> USE DEF ManagerInv
<1>1. /\ fast' = "idle"
      /\ behind' = IF fast = "idle" THEN behind ELSE behind \cup Manager!Due
      /\ UNCHANGED <<Manager!databaseVars, files, index, Manager!tableauVars>>
  BY DEF Manager!Restart
<1>2. ManagerShape'
  <2>1. behind' \subseteq Manager!Dates
    BY <1>1 DEF ManagerShape, Manager!Due, Manager!Processed
  <2>2. \A d \in Manager!Dates : files'[d] # None => files'[d].version <= rpmVersion'
    <3> SUFFICES ASSUME NEW d \in Manager!Dates, files[d] # None
                 PROVE  files[d].version <= rpmVersion'
      BY <1>1
    <3>1. /\ files[d].version \in Nat /\ files[d].version <= rpmVersion
          /\ rpmVersion \in Nat
      BY DEF ManagerShape
    <3> QED BY <3>1
  <2>3. index' \in Nat /\ index' <= rpmVersion' BY <1>1 DEF ManagerShape
  <2>4. parquet' # None => parquet'.version <= lampVersion'
    <3> SUFFICES ASSUME parquet # None PROVE parquet.version <= lampVersion'
      BY <1>1 DEF Manager!tableauVars
    <3>1. /\ parquet.version \in Nat /\ parquet.version <= lampVersion
          /\ lampVersion \in Nat
      BY DEF ManagerShape
    <3> QED BY <3>1
  <2> QED BY <1>1, <2>1, <2>2, <2>3, <2>4
          DEF ManagerShape, Manager!databaseVars, Manager!tableauVars
<1>3. FlatInv'
  <2> SUFFICES ASSUME NEW d \in Manager!Processed' \ behind' PROVE Settled(d)'
    BY <1>1 DEF FlatInv
  <2>1. d \in Manager!Processed \ behind
    BY <1>1 DEF Manager!Processed, Manager!databaseVars
  <2>2. Settled(d) BY <1>1, <2>1 DEF FlatInv
  <2> QED BY <1>1, <2>2 DEF Settled, Manager!Rows, Manager!databaseVars
<1> QED BY <1>1, <1>2, <1>3, TableauFrame DEF Manager!databaseVars

LEMMA ContainerKeeps ==
    ASSUME ManagerInv, Manager!Crash \/ Manager!Deploy
    PROVE  ManagerInv'
<1>1. rpmVersion \in Nat /\ lampVersion \in Nat BY DEF ManagerInv, ManagerShape
<1>2. Manager!Restart /\ UNCHANGED rounds
  BY DEF Manager!Crash, Manager!Deploy, Manager!Release
<1>3. /\ rpmVersion' \in Nat /\ rpmVersion <= rpmVersion'
      /\ lampVersion' \in Nat /\ lampVersion <= lampVersion'
  BY <1>1 DEF Manager!Crash, Manager!Deploy, Manager!codeVars
<1> QED BY <1>2, <1>3, RestartKeeps

\* The update of the parquet writes the rows of the database to its window.
LEMMA UpdateParquetKeeps ==
    ASSUME ManagerInv, Manager!UpdateParquet
    PROVE  ManagerInv'
<1> USE DEF ManagerInv
<1> DEFINE all == [d \in Manager!Dates |-> Manager!Rows(d)]
           uploads(days, missing) ==
               /\ parquet' = [version |-> lampVersion, days |-> days]
               /\ newer' = "parquet" /\ overtaken' = (hyper # None)
               /\ pending' = {} /\ late' = missing
<1>1. UNCHANGED <<events, schedule, temp, Manager!codeVars, Manager!flatVars,
                  source, hyper, rounds>>
  BY DEF Manager!UpdateParquet
<1>2. FlatInv' BY <1>1, FlatFrame
<1>3. \A d \in Manager!Dates : /\ Manager!Rows(d) \in Manager!Table
                               /\ Manager!Rows(d).rows = events[d].rows
                               /\ events[d].rows \in Nat
  BY DEF ManagerShape, Manager!Rows, Manager!Table
<1>4. ASSUME NEW days \in Manager!Days, NEW missing \in SUBSET Manager!Dates,
             uploads(days, missing),
             \A d \in Manager!Dates :
                /\ days[d].rows <= events[d].rows
                /\ d \notin missing => days[d].rows = events[d].rows
      PROVE  ManagerInv'
  <2>1. /\ parquet' \in [version : Nat, days : Manager!Days] /\ parquet' # None
        /\ parquet'.days = days /\ parquet'.version = lampVersion
               /\ lampVersion \in Nat
    <3>1. lampVersion \in Nat BY DEF ManagerShape
    <3>2. parquet' \in [version : Nat, days : Manager!Days] BY <1>4, <3>1
    <3> QED BY <1>4, <3>1, <3>2, ExportsAssumption
  <2>2. ManagerShape'
    BY <1>1, <1>4, <2>1 DEF ManagerShape, Manager!codeVars, Manager!flatVars
  <2>3. ParquetInv' BY <1>1, <1>4, <2>1 DEF ParquetInv
  <2>4. HyperInv'
    BY <1>1, <1>4, <2>1 DEF HyperInv
  <2> QED BY <1>2, <2>2, <2>3, <2>4
<1>5. CASE UNCHANGED <<parquet, newer, overtaken, pending, late>>
  <2>1. ManagerShape'
    BY <1>1, <1>5 DEF ManagerShape, Manager!codeVars, Manager!flatVars
  <2> QED BY <1>1, <1>2, <1>5, <2>1, TableauFrame DEF Manager!tableauVars
<1>6. CASE parquet = None \/ parquet.version # lampVersion
  <2>1. Manager!Upload(all, {}) BY <1>6 DEF Manager!UpdateParquet
  <2>2. all \in Manager!Days BY <1>3 DEF Manager!Days
  <2>3. \A d \in Manager!Dates : /\ all[d].rows <= events[d].rows
                                 /\ all[d].rows = events[d].rows
    BY <1>3
  <2>4. uploads(all, {}) => ManagerInv' 
    <3> HIDE DEF all, ManagerInv
    <3> QED BY <1>4, <2>2, <2>3
  <2> QED BY <1>5, <2>1, <2>4 DEF Manager!Upload
<1>7. CASE ~(parquet = None \/ parquet.version # lampVersion)
  <2> DEFINE old == parquet.days
             new == Manager!Updated(old)
  <2>1. parquet # None /\ old \in Manager!Days
            /\ parquet \in [version : Nat, days : Manager!Days]
    BY <1>7 DEF ManagerShape
  <2>2. ~Manager!Empty(old) BY <1>7 DEF Manager!UpdateParquet
  <2>3. Manager!Window(old) \subseteq Manager!Dates BY DEF Manager!Window
  <2>4. IsFiniteSet(Manager!Window(old))
    <3>1. IsFiniteSet(Manager!Dates)
      BY ExportsAssumption, FS_Interval DEF Manager!Dates
    <3> QED BY <2>3, <3>1, FS_Subset
  <2>5. \A d \in Manager!Dates :
           /\ old[d].rows \in Nat /\ old[d].rows <= events[d].rows
           /\ d \notin pending \cup late => old[d].rows = events[d].rows
    BY <2>1 DEF ParquetInv, Manager!Days, Manager!Table
  <2>6. pending \ Manager!Window(old) \subseteq late
    BY <2>1, <2>2 DEF ParquetInv
  <2>7. late \subseteq Manager!Dates BY DEF ManagerShape
  <2>8. CASE Manager!Count(events, Manager!Window(old))
            = Manager!Count(old, Manager!Window(old))
    <3>1. \A d \in Manager!Window(old) : old[d].rows = events[d].rows
      <4>1. \A d \in Manager!Window(old) :
               /\ old[d].rows \in Nat /\ events[d].rows \in Nat
               /\ old[d].rows <= events[d].rows
        BY <1>3, <2>3, <2>5
      <4> QED BY <2>4, <2>8, <4>1, SameCount
    <3>2. \A d \in Manager!Dates \ late : old[d].rows = events[d].rows
      BY <2>5, <2>6, <3>1
    <3>3. new = old BY <2>8 DEF Manager!Updated
    <3>4. pending' = {} /\ UNCHANGED <<parquet, newer, overtaken, late>>
      BY <1>7, <3>3 DEF Manager!UpdateParquet
    <3>5. ManagerShape'
      BY <1>1, <3>4 DEF ManagerShape, Manager!codeVars, Manager!flatVars
    <3>6. ParquetInv'
      BY <1>1, <2>1, <2>5, <3>2, <3>4 DEF ParquetInv
    <3>7. HyperInv' BY <1>1, <3>4 DEF HyperInv
    <3> QED BY <1>2, <3>5, <3>6, <3>7
  <2>9. CASE Manager!Count(events, Manager!Window(old))
            # Manager!Count(old, Manager!Window(old))
    <3>1. new = [d \in Manager!Dates |->
                   IF d \in Manager!Window(old) THEN Manager!Rows(d) ELSE old[d]]
      BY <2>9 DEF Manager!Updated
    <3>2. new \in Manager!Days
      <4>1. \A d \in Manager!Dates : old[d] \in Manager!Table
        BY <2>1 DEF Manager!Days
      <4> QED BY <1>3, <3>1, <4>1 DEF Manager!Days
    <3>3. ASSUME NEW d \in Manager!Dates
          PROVE  /\ new[d].rows <= events[d].rows
                 /\ d \notin late => new[d].rows = events[d].rows
      <4>1. CASE d \in Manager!Window(old)
        <5>1. new[d] = Manager!Rows(d) BY <3>1, <4>1
        <5> QED BY <1>3, <5>1
      <4>2. CASE d \notin Manager!Window(old)
        <5>1. new[d] = old[d] BY <3>1, <4>2
        <5> QED BY <2>5, <2>6, <4>2, <5>1
      <4> QED BY <4>1, <4>2
    <3>4. uploads(new, late) => ManagerInv'
      <4> HIDE DEF new, ManagerInv
      <4> QED BY <1>4, <2>7, <3>2, <3>3
    <3>5. CASE new = old
      <4>1. pending' = {} /\ UNCHANGED <<parquet, newer, overtaken, late>>
        BY <1>7, <3>5 DEF Manager!UpdateParquet
      <4>2. ManagerShape'
        BY <1>1, <4>1 DEF ManagerShape, Manager!codeVars, Manager!flatVars
      <4>3. \A d \in Manager!Dates \ late : old[d].rows = events[d].rows
        BY <3>3, <3>5
      <4>4. ParquetInv'
        BY <1>1, <2>1, <2>5, <4>1, <4>3 DEF ParquetInv
      <4>5. HyperInv' BY <1>1, <4>1 DEF HyperInv
      <4> QED BY <1>2, <4>2, <4>4, <4>5
    <3>6. CASE new # old
      <4>1. Manager!Upload(new, late) BY <1>7, <3>6 DEF Manager!UpdateParquet
      <4> QED BY <1>5, <3>4, <4>1 DEF Manager!Upload
    <3> QED BY <3>5, <3>6
  <2> QED BY <2>8, <2>9
<1> QED BY <1>6, <1>7

LEMMA HyperKeeps ==
    ASSUME ManagerInv, Manager!CreateLocalHyper \/ Manager!OverwriteDatasource
    PROVE  ManagerInv'
<1> USE DEF ManagerInv
<1>1. UNCHANGED <<Manager!databaseVars, Manager!codeVars, Manager!flatVars,
                  parquet, rounds>>
  BY DEF Manager!CreateLocalHyper, Manager!OverwriteDatasource
<1>2. FlatInv' BY <1>1, FlatFrame DEF Manager!databaseVars
<1>3. ParquetInv'
  BY <1>1
  DEF ParquetInv, Manager!Empty, Manager!Window, Manager!LatestDate,
      Manager!databaseVars
<1>4. parquet # None => parquet.days \in Manager!Days /\ parquet.days # None
  BY ExportsAssumption DEF ManagerShape
<1>5. ManagerShape'
  BY <1>1, <1>4
  DEF ManagerShape, Manager!CreateLocalHyper, Manager!OverwriteDatasource,
      Manager!databaseVars, Manager!codeVars, Manager!flatVars
<1>6. HyperInv'
  <2>1. CASE Manager!CreateLocalHyper
    <3>1. /\ parquet # None /\ (source = None \/ newer = "parquet")
          /\ hyper' = parquet.days /\ overtaken' = FALSE
          /\ UNCHANGED <<parquet, source, newer>>
      BY <2>1 DEF Manager!CreateLocalHyper
    <3>2. newer = "parquet" BY <3>1 DEF HyperInv, ManagerShape
    <3> QED BY <3>1, <3>2 DEF HyperInv
  <2>2. CASE Manager!OverwriteDatasource
    <3>1. /\ hyper # None /\ hyper' = None /\ UNCHANGED <<parquet, overtaken>>
          /\ \/ source' = hyper /\ newer' = "source"
             \/ UNCHANGED <<source, newer>>
      BY <2>2 DEF Manager!OverwriteDatasource
    <3> QED BY <3>1 DEF HyperInv
  <2> QED BY <2>1, <2>2
<1> QED BY <1>2, <1>3, <1>5, <1>6

LEMMA ManagerStepKeeps == ManagerInv /\ Manager!Next => ManagerInv'
BY LoadScheduleKeeps, QuietRoundKeeps, ProcessEventsKeeps, CheckVersionKeeps,
   CheckFailsKeeps, WriteFilesKeeps, ContainerKeeps, UpdateParquetKeeps,
   HyperKeeps
DEF Manager!Next

LEMMA ManagerSafe ==
    ASSUME ManagerInv
    PROVE  /\ Manager!TypeOK
           /\ Manager!FlatFilesFollowEvents
           /\ Manager!TableauFollowsEvents
<1>1. Manager!TypeOK BY ManagerTyped DEF ManagerInv
<1>2. Manager!FlatFilesFollowEvents
  BY DEF ManagerInv, FlatInv, Settled, Manager!FlatFilesFollowEvents
<1>3. Manager!TableauFollowsEvents
  BY DEF ManagerInv, ParquetInv, HyperInv, Manager!TableauFollowsEvents
<1> QED BY <1>1, <1>2, <1>3

(***************************************************************************)
(* The composition                                                         *)
(***************************************************************************)

\* Each component keeps its invariant, and the others stand still.
ExportsInv ==
    /\ job = "archive" => ArchiveShape
    /\ job = "archive" /\ MissingIsNoFile => ArchiveInv
    /\ job = "glides" => GlidesInv
    /\ job = "alerts" => ExportInv
    /\ job = "manager" => ManagerInv

LEMMA GlidesStutter == GlidesInv /\ UNCHANGED glidesVars => GlidesInv'
<1> SUFFICES ASSUME GlidesInv, UNCHANGED glidesVars PROVE GlidesInv'
  OBVIOUS
<1>1. Glides!Good' = Glides!Good BY SameGood DEF glidesVars
<1>2. GlidesShape' BY <1>1 DEF glidesVars, GlidesInv, GlidesShape
<1>3. GlidesFiles' BY <1>1 DEF glidesVars, GlidesInv, GlidesFiles
<1>4. RecordsKept' BY <1>1 DEF glidesVars, GlidesInv, RecordsKept
<1> QED BY <1>2, <1>3, <1>4 DEF GlidesInv

LEMMA AlertsStutter == ExportInv /\ UNCHANGED alertVars => ExportInv'
BY DEF alertVars, ExportInv, AlertsShape, AlertsCourse, AlertsPlaces, LocalCopy,
       DueAlerts, OpenChunk

LEMMA ManagerStutter == ManagerInv /\ UNCHANGED managerVars => ManagerInv'
<1> SUFFICES ASSUME ManagerInv, UNCHANGED managerVars PROVE ManagerInv'
  OBVIOUS
<1>1. /\ UNCHANGED <<Manager!databaseVars, Manager!codeVars, Manager!flatVars>>
      /\ UNCHANGED <<Manager!tableauVars, rounds>>
  BY DEF managerVars, Manager!databaseVars, Manager!codeVars, Manager!flatVars,
         Manager!tableauVars
<1>2. ManagerShape'
  BY <1>1 DEF ManagerInv, ManagerShape, Manager!databaseVars, Manager!codeVars,
              Manager!flatVars, Manager!tableauVars
<1> QED
  BY <1>1, <1>2, FlatFrame, TableauFrame DEF ManagerInv, Manager!databaseVars

LEMMA ExportsInit == Init => ExportsInv
BY ArchiveInit, ArchiveInvInit, GlidesInit, ExportInit, ManagerInit DEF Init,
    ExportsInv

LEMMA ExportsNext == ExportsInv /\ [Next]_vars => ExportsInv'
<1> SUFFICES ASSUME ExportsInv, [Next]_vars PROVE ExportsInv'
  OBVIOUS
<1>1. CASE ArchiveStep
  BY <1>1, ArchiveNext, ArchiveInvNext DEF ArchiveStep, ExportsInv
<1>2. CASE GlidesStep BY <1>2, GlidesNext DEF GlidesStep, ExportsInv
<1>3. CASE AlertsStep BY <1>3, ExportNext DEF AlertsStep, ExportsInv
<1>4. CASE ManagerStep BY <1>4, ManagerStepKeeps DEF ManagerStep, ExportsInv
<1>5. CASE UNCHANGED vars
  BY <1>5, ArchiveStutter, ArchiveInvStutter, GlidesStutter, AlertsStutter,
      ManagerStutter DEF vars, ExportsInv
<1> QED BY <1>1, <1>2, <1>3, <1>4, <1>5 DEF Next

\* The states of the four components keep their types.  In the archive of
\* schedules no row ends earlier than the day before it starts, whatever was
\* merged, closed at the end of a year, tried again or begun anew.
THEOREM TypeCorrect == Spec => []TypeOK
<1>1. ExportsInv => TypeOK
  BY ArchiveTypes, GlidesSafe, ExportSafe, ManagerSafe DEF ExportsInv, TypeOK
<1> QED BY <1>1, ExportsInit, ExportsNext, PTL DEF Spec

\* For each day the archive of schedules in the bucket has the records of the
\* schedule in force, whatever was published, merged, continued from year to
\* year, tried again, begun anew or cut off by a crash before and since, but
\* for the exceptions that ArchiveIsTimetable names; and it has them once if
\* no year so far is one of these.
THEOREM ArchiveFollowsSchedules == MissingIsNoFile => (Spec => []ArchiveIsTimetable)
<1> SUFFICES ASSUME MissingIsNoFile PROVE Spec => []ArchiveIsTimetable
  OBVIOUS
<1>1. ExportsInv => ArchiveIsTimetable
  BY ArchiveSafe DEF ExportsInv, ArchiveIsTimetable
<1> QED BY <1>1, ExportsInit, ExportsNext, PTL DEF Spec

\* Between rounds every good record of Glides that was passed is in the file
\* of its kind, except for the losses that GlidesAreKept names.
THEOREM PassedRecordsAreKept == Spec => []GlidesAreKept
<1>1. ExportsInv => GlidesAreKept BY GlidesSafe DEF ExportsInv, GlidesAreKept
<1> QED BY <1>1, ExportsInit, ExportsNext, PTL DEF Spec

\* Between rounds the export has the alerts of every processed object, except
\* for the losses that AlertsAreExported names, and no alert twice.
THEOREM ProcessedAlertsAreExported == Spec => []AlertsAreExported
<1>1. ExportsInv => AlertsAreExported
  BY ExportSafe DEF ExportsInv, AlertsAreExported
<1> QED BY <1>1, ExportsInit, ExportsNext, PTL DEF Spec

\* Between rounds each date with events has a flat file of them that is as
\* new as the index, except for the dates that a fault left behind.
THEOREM EventsAreArchived == Spec => []FlatFilesFollowEvents
<1>1. ExportsInv => FlatFilesFollowEvents
  BY ManagerSafe DEF ExportsInv, FlatFilesFollowEvents
<1> QED BY <1>1, ExportsInit, ExportsNext, PTL DEF Spec

\* The parquet has as many rows of each date as the database had at its last
\* update, although only sums over a window of dates are compared; and the
\* datasource, when it is the newer of the two, has the days of the parquet.
THEOREM EventsArePublished == Spec => []TableauFollowsEvents
<1>1. ExportsInv => TableauFollowsEvents
  BY ManagerSafe DEF ExportsInv, TableauFollowsEvents
<1> QED BY <1>1, ExportsInit, ExportsNext, PTL DEF Spec
================================================================================
