------------------------ MODULE StaticScheduleProofs -------------------------
(***************************************************************************)
(* Proofs about StaticSchedule, for any schedules, service dates and       *)
(* number of faults: its type invariant, that feed_info is the last table  *)
(* of a schedule, that events only meet whole versions, that a version is  *)
(* announced once when start dates increase, and that a version that trips *)
(* were given stays.                                                       *)
(***************************************************************************)
EXTENDS StaticSchedule, FiniteSetTheorems, WellFoundedInduction, TLAPS

(***************************************************************************)
(* Minima, sequences and the order of the tables                           *)
(***************************************************************************)

\* A set of numbers that is not empty has a least element.
LEMMA LeastNumber ==
    ASSUME NEW S, S \subseteq Nat, S # {}
    PROVE  \E x \in S : \A y \in S : x <= y
<1> DEFINE R == OpToRel(<, Nat)
<1>1. IsWellFoundedOn(R, Nat)
  BY NatLessThanWellFounded
<1>2. PICK x \in S : \A y \in S : <<y, x>> \notin R
  <2> HIDE DEF R
  <2> QED BY <1>1, WFMin
<1>3. \A a, b \in Nat : a < b => <<a, b>> \in R
  BY DEF OpToRel
<1>4. ASSUME NEW y \in S PROVE x <= y
  <2> HIDE DEF R
  <2>1. x \in Nat /\ y \in Nat BY <1>4
  <2>2. ~(y < x) BY <1>2, <1>3, <2>1
  <2> QED BY <2>1, <2>2
<1> QED BY <1>4

\* Min of numbers is the least of them.
LEMMA MinIsLeast ==
    ASSUME NEW S, S \subseteq Nat, S # {}
    PROVE  Min(S) \in S /\ \A y \in S : Min(S) <= y
BY LeastNumber DEF Min

\* Schedules are numbered from 1.
LEMMA SchedulesAreNumbers ==
    /\ Len(FeedStart) \in Nat
    /\ Schedules = 1 .. Len(FeedStart)
    /\ Schedules \subseteq Nat
    /\ None \notin Schedules
    /\ IsFiniteSet(Schedules)
<1>1. Len(FeedStart) \in Nat /\ Schedules = 1 .. Len(FeedStart)
  BY ScheduleAssumption DEF Schedules
<1>2. IsFiniteSet(Schedules) BY <1>1, FS_Interval
<1> QED BY <1>1, <1>2 DEF None

\* The element of seq that is e leaves it, the others stay and are distinct.
LEMMA WithoutFacts ==
    ASSUME NEW T, NEW seq \in Seq(T), IsInjective(seq), NEW e \in Range(seq)
    PROVE  /\ Without(seq, e) \in Seq(T)
           /\ Range(Without(seq, e)) = Range(seq) \ {e}
           /\ IsInjective(Without(seq, e))
<1> DEFINE k == CHOOSE j \in DOMAIN seq : seq[j] = e
           n == Len(seq)
           u == SubSeq(seq, 1, k - 1)
           v == SubSeq(seq, k + 1, n)
           w == u \o v
<1>1. n \in Nat /\ DOMAIN seq = 1 .. n /\ \A j \in 1 .. n : seq[j] \in T
  OBVIOUS
<1>2. k \in 1 .. n /\ seq[k] = e
  BY <1>1 DEF Range
<1>3. Without(seq, e) = w
  BY DEF Without, RemoveAt
<1>4. \A a, b \in 1 .. n : seq[a] = seq[b] => a = b
  BY <1>1 DEF IsInjective
<1> HIDE DEF k, n
<1>5. /\ u \in Seq(T) /\ Len(u) = k - 1 /\ \A j \in 1 .. k - 1 : u[j] = seq[j]
  BY <1>1, <1>2
<1>6. /\ v \in Seq(T) /\ Len(v) = n - k
      /\ \A j \in 1 .. n - k : v[j] = seq[k + j]
  BY <1>1, <1>2
<1> HIDE DEF u, v
<1>7. /\ w \in Seq(T) /\ Len(w) = n - 1 /\ DOMAIN w = 1 .. n - 1
      /\ \A j \in 1 .. n - 1 : w[j] = IF j < k THEN seq[j] ELSE seq[j + 1]
  <2>1. /\ w \in Seq(T) /\ Len(w) = n - 1 /\ DOMAIN w = 1 .. n - 1
    BY <1>1, <1>2, <1>5, <1>6
  <2>2. \A j \in 1 .. (k - 1) + (n - k) :
            w[j] = IF j <= k - 1 THEN u[j] ELSE v[j - (k - 1)]
    BY <1>1, <1>2, <1>5, <1>6
  <2>3. ASSUME NEW j \in 1 .. n - 1
        PROVE  w[j] = IF j < k THEN seq[j] ELSE seq[j + 1]
    <3> HIDE DEF w
    <3>1. CASE j < k BY <1>1, <1>2, <1>5, <2>2, <3>1
    <3>2. CASE ~(j < k)
      <4>1. w[j] = v[j - (k - 1)] BY <1>1, <1>2, <2>2, <3>2
      <4>2. v[j - (k - 1)] = seq[k + (j - (k - 1))] BY <1>1, <1>2, <1>6, <3>2
      <4>3. k + (j - (k - 1)) = j + 1 BY <1>1, <1>2
      <4> QED BY <3>2, <4>1, <4>2, <4>3
    <3> QED BY <3>1, <3>2
  <2> QED BY <2>1, <2>3
<1> HIDE DEF w
<1>8. Range(w) \subseteq Range(seq) \ {e}
  <2> SUFFICES ASSUME NEW j \in 1 .. n - 1
               PROVE  w[j] \in Range(seq) \ {e}
    BY <1>7 DEF Range
  <2>1. CASE j < k BY <1>1, <1>2, <1>4, <1>7, <2>1 DEF Range
  <2>2. CASE ~(j < k) BY <1>1, <1>2, <1>4, <1>7, <2>2 DEF Range
  <2> QED BY <2>1, <2>2
<1>9. Range(seq) \ {e} \subseteq Range(w)
  <2> SUFFICES ASSUME NEW a \in 1 .. n, seq[a] # e
               PROVE  seq[a] \in Range(w)
    BY <1>1 DEF Range
  <2>1. CASE a < k
    <3>1. a \in 1 .. n - 1 /\ w[a] = seq[a] BY <1>1, <1>2, <1>7, <2>1
    <3> QED BY <1>7, <3>1 DEF Range
  <2>2. CASE a > k
    <3>1. a - 1 \in 1 .. n - 1 /\ ~(a - 1 < k) /\ (a - 1) + 1 = a
      BY <1>1, <1>2, <2>2
    <3>2. w[a - 1] = seq[a] BY <1>7, <3>1
    <3> QED BY <1>7, <3>1, <3>2 DEF Range
  <2> QED BY <1>1, <1>2, <2>1, <2>2
<1>10. IsInjective(w)
  <2> SUFFICES ASSUME NEW a \in 1 .. n - 1, NEW b \in 1 .. n - 1, w[a] = w[b]
               PROVE  a = b
    BY <1>7 DEF IsInjective
  <2> QED BY <1>1, <1>2, <1>4, <1>7
<1> QED BY <1>3, <1>7, <1>8, <1>9, <1>10

\* What an appended element adds to a sequence.
LEMMA AppendFacts ==
    ASSUME NEW T, NEW seq \in Seq(T), NEW e \in T
    PROVE  /\ Append(seq, e) \in Seq(T)
           /\ Len(Append(seq, e)) = Len(seq) + 1
           /\ Range(Append(seq, e)) = Range(seq) \cup {e}
           /\ IsInjective(seq) /\ e \notin Range(seq)
                => IsInjective(Append(seq, e))
<1> DEFINE n == Len(seq)
           w == Append(seq, e)
<1>1. n \in Nat /\ DOMAIN seq = 1 .. n
  OBVIOUS
<1>2. /\ w \in Seq(T) /\ Len(w) = n + 1 /\ DOMAIN w = 1 .. n + 1
      /\ w[n + 1] = e /\ \A j \in 1 .. n : w[j] = seq[j]
  OBVIOUS
<1> HIDE DEF n, w
<1>3. Range(w) = Range(seq) \cup {e}
  <2>1. \A j \in 1 .. n + 1 : j \in 1 .. n \/ j = n + 1 BY <1>1
  <2>2. \A j \in 1 .. n : j \in 1 .. n + 1 BY <1>1
  <2>3. n + 1 \in 1 .. n + 1 BY <1>1
  <2> QED BY <1>1, <1>2, <2>1, <2>2, <2>3 DEF Range
<1>4. ASSUME IsInjective(seq), e \notin Range(seq) PROVE IsInjective(w)
  <2>1. \A j \in 1 .. n + 1 : j \in 1 .. n \/ j = n + 1 BY <1>1
  <2>2. \A j \in 1 .. n : seq[j] # e BY <1>1, <1>4 DEF Range
  <2> QED BY <1>1, <1>2, <1>4, <2>1, <2>2 DEF IsInjective
<1> QED BY <1>2, <1>3, <1>4 DEF n, w

\* The tables, in the order in which they are loaded.
LEMMA LoadOrderFacts ==
    /\ Len(LoadOrder) = 4
    /\ LoadOrder[1] = "FEED_INFO" /\ LoadOrder[2] = "STOP_TIMES"
    /\ LoadOrder[3] = "TRIPS" /\ LoadOrder[4] = "CALENDAR_DATES"
    /\ Tables = {"FEED_INFO", "STOP_TIMES", "TRIPS", "CALENDAR_DATES"}
    /\ \A s \in Schedules : Empty[s] \subseteq {"CALENDAR_DATES"}
<1>1. DOMAIN LoadOrder = 1 .. 4 BY DEF LoadOrder
<1>2. Tables = {LoadOrder[k] : k \in 1 .. 4} BY <1>1 DEF Tables, Range
<1>3. \A k \in 1 .. 4 : k = 1 \/ k = 2 \/ k = 3 \/ k = 4 OBVIOUS
<1>4. /\ LoadOrder[1] = "FEED_INFO" /\ LoadOrder[2] = "STOP_TIMES"
      /\ LoadOrder[3] = "TRIPS" /\ LoadOrder[4] = "CALENDAR_DATES"
      /\ Len(LoadOrder) = 4
  BY DEF LoadOrder
<1>5. 1 \in 1 .. 4 /\ 2 \in 1 .. 4 /\ 3 \in 1 .. 4 /\ 4 \in 1 .. 4 OBVIOUS
<1>6. Tables = {"FEED_INFO", "STOP_TIMES", "TRIPS", "CALENDAR_DATES"}
  BY <1>2, <1>3, <1>4, <1>5
<1> QED BY <1>4, <1>6, ScheduleAssumption DEF MayBeEmpty

\* feed_info is converted after all other tables of a zip.
LEMMA ConvertOrderFacts ==
    /\ Len(ConvertOrder) \in Nat \ {0}
    /\ ConvertOrder \in Seq(Tables)
    /\ DOMAIN ConvertOrder = 1 .. Len(ConvertOrder)
    /\ ConvertOrder[Len(ConvertOrder)] = "FEED_INFO"
    /\ Range(ConvertOrder) = Tables
    /\ \A k \in 1 .. Len(ConvertOrder) - 1 : ConvertOrder[k] # "FEED_INFO"
<1> DEFINE w == Without(ZipOrder, "FEED_INFO")
<1>1. "FEED_INFO" \in Tables BY LoadOrderFacts
<1>2. /\ w \in Seq(Tables) /\ Range(w) = Tables \ {"FEED_INFO"}
      /\ IsInjective(w)
  BY <1>1, WithoutFacts, ScheduleAssumption
<1> HIDE DEF w
<1>3. ConvertOrder = Append(w, "FEED_INFO") BY DEF ConvertOrder, w
<1>4. /\ ConvertOrder \in Seq(Tables)
      /\ Len(ConvertOrder) = Len(w) + 1
      /\ Range(ConvertOrder) = Tables
  <2> DEFINE c == Append(w, "FEED_INFO")
  <2>1. c \in Seq(Tables) /\ Len(c) = Len(w) + 1 BY <1>1, <1>2
  <2>2. Range(c) = Range(w) \cup {"FEED_INFO"} BY <1>1, <1>2, AppendFacts
  <2> HIDE DEF c
  <2>3. Range(c) = Tables BY <1>1, <1>2, <2>2
  <2>4. ConvertOrder = c BY <1>3 DEF c
  <2> QED BY <2>1, <2>3, <2>4
<1>5. ConvertOrder[Len(w) + 1] = "FEED_INFO" BY <1>1, <1>2, <1>3
<1>6. ASSUME NEW k \in 1 .. Len(w) PROVE ConvertOrder[k] # "FEED_INFO"
  <2>1. w[k] # "FEED_INFO" BY <1>2 DEF Range
  <2> QED BY <1>1, <1>2, <1>3, <2>1
<1>7. Len(w) \in Nat BY <1>2
<1> QED BY <1>4, <1>5, <1>6, <1>7

(***************************************************************************)
(* The queue of announced paths                                            *)
(***************************************************************************)

Waiting(q, s) == {k \in DOMAIN q : q[k] = s}
InQueue(q, s) == Cardinality(Waiting(q, s))

\* The paths of a schedule in a queue can be counted.
LEMMA InQueueIsNumber ==
    ASSUME NEW q \in Seq(Schedules), NEW s
    PROVE  /\ Waiting(q, s) \subseteq 1 .. Len(q)
           /\ IsFiniteSet(Waiting(q, s)) /\ InQueue(q, s) \in Nat
           /\ s \in Range(q) => InQueue(q, s) > 0
<1>1. Len(q) \in Nat /\ DOMAIN q = 1 .. Len(q) OBVIOUS
<1>2. Waiting(q, s) \in SUBSET (1 .. Len(q)) BY <1>1 DEF Waiting
<1>3. IsFiniteSet(1 .. Len(q)) BY <1>1, FS_Interval
<1>4. IsFiniteSet(Waiting(q, s)) BY <1>2, <1>3, FS_Subset
<1>5. InQueue(q, s) \in Nat BY <1>4, FS_CardinalityType DEF InQueue
<1>6. ASSUME s \in Range(q) PROVE InQueue(q, s) > 0
  <2>1. Waiting(q, s) # {} BY <1>6 DEF Waiting, Range
  <2>2. InQueue(q, s) # 0 BY <1>4, <2>1, FS_EmptySet DEF InQueue
  <2> QED BY <1>5, <2>2
<1> QED BY <1>2, <1>4, <1>5, <1>6

\* Nothing is in an empty queue.
LEMMA NothingInQueue ==
    /\ <<>> \in Seq(Schedules) /\ Range(<<>>) = {} /\ IsInjective(<<>>)
    /\ \A s : InQueue(<<>>, s) = 0
<1>1. DOMAIN <<>> = {} OBVIOUS
<1>2. \A s : Waiting(<<>>, s) = {} BY <1>1 DEF Waiting
<1>3. \A s : InQueue(<<>>, s) = 0 BY <1>2, FS_EmptySet DEF InQueue
<1> QED BY <1>1, <1>3 DEF Range, IsInjective

\* An announcement adds one path of its schedule.
LEMMA InQueueAppend ==
    ASSUME NEW q \in Seq(Schedules), NEW e \in Schedules, NEW s
    PROVE  InQueue(Append(q, e), s) = InQueue(q, s) + (IF s = e THEN 1 ELSE 0)
<1> DEFINE n == Len(q)
           w == Append(q, e)
<1>1. n \in Nat /\ DOMAIN q = 1 .. n /\ n + 1 \notin 1 .. n
  OBVIOUS
<1>2. /\ DOMAIN w = 1 .. n + 1 /\ w[n + 1] = e
      /\ \A j \in 1 .. n : w[j] = q[j]
  OBVIOUS
<1>3. Waiting(q, s) \subseteq 1 .. n /\ IsFiniteSet(Waiting(q, s))
      /\ Cardinality(Waiting(q, s)) \in Nat
  BY InQueueIsNumber DEF InQueue
<1>4. \A j : j \in 1 .. n + 1 <=> j \in 1 .. n \/ j = n + 1
  BY <1>1
<1> HIDE DEF n, w
<1>5. CASE s = e
  <2>1. Waiting(w, s) = Waiting(q, s) \cup {n + 1}
    BY <1>1, <1>2, <1>4, <1>5 DEF Waiting
  <2>2. n + 1 \notin Waiting(q, s) BY <1>1, <1>3
  <2>3. Cardinality(Waiting(w, s)) = Cardinality(Waiting(q, s)) + 1
    BY <1>3, <2>1, <2>2, FS_AddElement
  <2> QED BY <1>5, <2>3 DEF InQueue, w
<1>6. CASE s # e
  <2>1. Waiting(w, s) = Waiting(q, s)
    BY <1>1, <1>2, <1>4, <1>6 DEF Waiting
  <2> QED BY <1>3, <1>6, <2>1 DEF InQueue, w
<1> QED BY <1>5, <1>6

\* The writer takes one path of its schedule.
LEMMA InQueueTail ==
    ASSUME NEW q \in Seq(Schedules), q # <<>>, NEW s
    PROVE  /\ Head(q) \in Schedules /\ Tail(q) \in Seq(Schedules)
           /\ Range(Tail(q)) \subseteq Range(q)
           /\ InQueue(q, s)
                = InQueue(Tail(q), s) + (IF s = Head(q) THEN 1 ELSE 0)
<1> DEFINE n == Len(q)
           w == Tail(q)
           later == Waiting(q, s) \ {1}
<1>1. n \in Nat \ {0} /\ DOMAIN q = 1 .. n /\ Head(q) = q[1]
  OBVIOUS
<1>2. /\ w \in Seq(Schedules) /\ DOMAIN w = 1 .. n - 1
      /\ \A j \in 1 .. n - 1 : w[j] = q[j + 1]
  OBVIOUS
<1>3. /\ IsFiniteSet(Waiting(q, s)) /\ IsFiniteSet(Waiting(w, s))
      /\ Cardinality(Waiting(q, s)) \in Nat
      /\ Cardinality(Waiting(w, s)) \in Nat
  BY <1>2, InQueueIsNumber DEF InQueue
<1> HIDE DEF n, w
<1>4. Cardinality(later) = Cardinality(Waiting(w, s))
  <2> DEFINE shift == [j \in Waiting(w, s) |-> j + 1]
  <2>1. \A j \in Waiting(w, s) : j \in 1 .. n - 1 /\ q[j + 1] = s
    BY <1>2 DEF Waiting
  <2>2. \A j \in Waiting(w, s) : j + 1 \in later
    BY <1>1, <2>1 DEF Waiting
  <2>3. \A j \in later : j \in 2 .. n /\ j - 1 \in 1 .. n - 1
    BY <1>1 DEF Waiting
  <2>4. \A j \in later : j - 1 \in Waiting(w, s)
    <3> SUFFICES ASSUME NEW j \in later PROVE j - 1 \in Waiting(w, s)
      OBVIOUS
    <3>1. j \in 2 .. n /\ j - 1 \in 1 .. n - 1 /\ (j - 1) + 1 = j BY <1>1, <2>3
    <3>2. w[j - 1] = q[j] BY <1>2, <3>1
    <3>3. q[j] = s BY DEF Waiting
    <3> QED BY <1>2, <3>1, <3>2, <3>3 DEF Waiting
  <2> HIDE DEF later
  <2>5. shift \in [Waiting(w, s) -> later] BY <2>2
  <2>6. \A a, b \in Waiting(w, s) : shift[a] = shift[b] => a = b
    BY <1>1, <2>1
  <2>7. \A b \in later : \E a \in Waiting(w, s) : shift[a] = b
    <3> SUFFICES ASSUME NEW b \in later
                 PROVE  \E a \in Waiting(w, s) : shift[a] = b
      OBVIOUS
    <3>1. b - 1 \in Waiting(w, s) BY <2>4
    <3>2. shift[b - 1] = b BY <1>1, <2>3, <3>1
    <3> QED BY <3>1, <3>2
  <2> HIDE DEF shift
  <2>8. shift \in Bijection(Waiting(w, s), later)
    BY <2>5, <2>6, <2>7 DEF Bijection, Injection, Surjection, IsInjective
  <2>9. ExistsBijection(Waiting(w, s), later) BY <2>8 DEF ExistsBijection
  <2> QED BY <1>3, <2>9, FS_Bijection
<1>5. Cardinality(later) = Cardinality(Waiting(q, s))
                             - (IF 1 \in Waiting(q, s) THEN 1 ELSE 0)
  <2>1. Cardinality(later) = IF 1 \in Waiting(q, s)
                             THEN Cardinality(Waiting(q, s)) - 1
                             ELSE Cardinality(Waiting(q, s))
    BY <1>3, FS_RemoveElement
  <2> HIDE DEF later
  <2>2. CASE 1 \in Waiting(q, s) BY <2>1, <2>2
  <2>3. CASE 1 \notin Waiting(q, s) BY <1>3, <2>1, <2>3
  <2> QED BY <2>2, <2>3
<1>6. 1 \in Waiting(q, s) <=> s = Head(q)
  BY <1>1 DEF Waiting
<1>7. Range(w) \subseteq Range(q)
  BY <1>1, <1>2 DEF Range
<1>8. Head(q) \in Schedules BY <1>1
<1> QED BY <1>2, <1>3, <1>4, <1>5, <1>6, <1>7, <1>8 DEF InQueue, w

(***************************************************************************)
(* The version of a date                                                   *)
(***************************************************************************)

\* Every row of static_feed_info has its place in the order of creation.
LEMMA PlaceOfVersion ==
    ASSUME created \in Seq(Schedules), NEW s \in Range(created)
    PROVE  CreatedAt(s) \in DOMAIN created /\ created[CreatedAt(s)] = s
BY DEF CreatedAt, Range

\* The order of the query has a first version among any that are loaded.
LEMMA FirstIsChosen ==
    ASSUME created \in Seq(Schedules), NEW key \in [Schedules -> Nat],
           NEW S \in SUBSET Range(created), S # {}
    PROVE  First(key, S) \in S
<1> DEFINE before(s) == {t \in S : Before(key, t, s)}
           counts == {n \in Nat : \E s \in S : n = Cardinality(before(s))}
<1>1. S \subseteq Schedules
  BY DEF Range
<1>2. /\ \A s \in S : key[s] \in Nat /\ CreatedAt(s) \in Nat
      /\ \A s, t \in S : CreatedAt(s) = CreatedAt(t) => s = t
  <2>1. \A s \in S : CreatedAt(s) \in DOMAIN created /\ created[CreatedAt(s)] = s
    BY PlaceOfVersion
  <2>2. DOMAIN created \subseteq Nat OBVIOUS
  <2> QED BY <1>1, <2>1, <2>2
<1>3. /\ \A s \in S : ~Before(key, s, s)
      /\ \A s, t \in S : s # t => Before(key, s, t) \/ Before(key, t, s)
      /\ \A s, t, u \in S :
             Before(key, s, t) /\ Before(key, t, u) => Before(key, s, u)
  BY <1>2 DEF Before
<1>4. \A s \in S : IsFiniteSet(before(s)) /\ Cardinality(before(s)) \in Nat
  <2> SUFFICES ASSUME NEW s \in S
               PROVE  IsFiniteSet(before(s)) /\ Cardinality(before(s)) \in Nat
    OBVIOUS
  <2>1. before(s) \in SUBSET Schedules BY <1>1
  <2> HIDE DEF before
  <2>2. IsFiniteSet(before(s)) BY <2>1, SchedulesAreNumbers, FS_Subset
  <2> QED BY <2>2, FS_CardinalityType
<1>5. counts # {} /\ counts \subseteq Nat
  <2> HIDE DEF before
  <2> QED BY <1>4
<1>6. PICK n \in counts : \A m \in counts : n <= m
  <2> HIDE DEF counts
  <2> QED BY <1>5, LeastNumber
<1>7. PICK s \in S : n = Cardinality(before(s))
  BY <1>6
<1>8. ASSUME NEW t \in S, Before(key, t, s) PROVE FALSE
  <2>1. before(t) \subseteq before(s) /\ t \in before(s) /\ t \notin before(t)
    BY <1>3, <1>8
  <2>2. Cardinality(before(t)) \in counts
    <3> HIDE DEF before
    <3> QED BY <1>4
  <2> HIDE DEF before, counts
  <2>3. Cardinality(before(s)) <= Cardinality(before(t)) BY <1>6, <1>7, <2>2
  <2>4. /\ before(t) \in SUBSET before(s)
        /\ IsFiniteSet(before(s))
        /\ Cardinality(before(t)) \in Nat /\ Cardinality(before(s)) \in Nat
    BY <1>4, <2>1
  <2>5. Cardinality(before(t)) <= Cardinality(before(s)) BY <2>4, FS_Subset
  <2>6. Cardinality(before(t)) = Cardinality(before(s)) BY <2>3, <2>4, <2>5
  <2>7. before(s) = before(t) BY <2>4, <2>6, FS_Subset
  <2> QED BY <2>1, <2>7
<1>9. \A t \in S \ {s} : Before(key, s, t)
  BY <1>3, <1>8
<1> QED BY <1>9 DEF First

\* The version of a date is in static_feed_info.
LEMMA VersionIsLoaded ==
    ASSUME created \in Seq(Schedules), NEW d \in Dates
    PROVE  VersionFor(d) \in Range(created) \cup {None}
<1> DEFINE archive == {s \in Range(created) :
                          FeedStart[s] <= d /\ d <= FeedEnd[s]}
           live == {s \in archive : Published[s] <= d}
<1>1. FeedStart \in [Schedules -> Nat] /\ Published \in [Schedules -> Nat]
  <2>1. FeedStart \in [Schedules -> Nat] BY ScheduleAssumption DEF Schedules
  <2>2. Published \in [Schedules -> Nat]
    <3>1. Published \in [DOMAIN Published -> Nat] BY ScheduleAssumption
    <3> QED BY <3>1, ScheduleAssumption
  <2> QED BY <2>1, <2>2
<1>2. archive \in SUBSET Range(created) /\ live \in SUBSET Range(created)
      /\ live \subseteq archive
  OBVIOUS
<1>3. VersionFor(d) = IF live # {} THEN First(Published, live)
                      ELSE IF archive # {} THEN First(FeedStart, archive)
                      ELSE None
  BY DEF VersionFor
<1> HIDE DEF live, archive
<1>4. CASE live # {}
  <2>1. First(Published, live) \in live BY <1>1, <1>2, <1>4, FirstIsChosen
  <2> QED BY <1>2, <1>3, <1>4, <2>1
<1>5. CASE live = {} /\ archive # {}
  <2>1. First(FeedStart, archive) \in archive BY <1>1, <1>2, <1>5, FirstIsChosen
  <2> QED BY <1>2, <1>3, <1>5, <2>1
<1>6. CASE live = {} /\ archive = {}
  BY <1>3, <1>6
<1> QED BY <1>4, <1>5, <1>6

(***************************************************************************)
(* Types                                                                   *)
(***************************************************************************)

\* The steps of the manager that work at one version.
Busy == {"load", "insert", "clean", "modify", "mark", "mark_failed"}

\* A path is announced before it is logged and logged before it is read, and
\* what the manager read stays unmarked until it marks it.
CountInv ==
    \A s \in Schedules :
        /\ logged[s] + InQueue(queue, s) <= feedInfos[s]
        /\ marked[s] + batch[s] <= logged[s]
        /\ s \in todo => feedInfos[s] < MaxObjects

\* Where the manager is in its round.
RoundInv ==
    /\ pm \in Busy => version \in Schedules /\ batch[version] > 0
    /\ pm = "modify" => i \in 1 .. 3
    /\ pm = "events" => \A s \in Schedules : batch[s] = 0

TypeInv == TypeOK /\ CountInv /\ RoundInv

LEMMA TypeInit == Init => TypeInv
<1> SUFFICES ASSUME Init PROVE TypeInv
  OBVIOUS
<1> USE DEF Init
<1>1. MaxObjects \in Nat BY ScheduleAssumption
<1>2. Zero \in [Schedules -> 0 .. MaxObjects] /\ Zero \in [Schedules -> Nat]
      /\ Zero \in [Schedules -> 0 .. 3] /\ \A s \in Schedules : Zero[s] = 0
  BY <1>1 DEF Zero
<1>3. /\ queue \in Seq(Schedules) /\ created \in Seq(Schedules)
      /\ IsInjective(created)
  BY NothingInQueue
<1>4. 1 \in 1 .. Len(ConvertOrder) /\ 1 \in 1 .. Len(LoadOrder)
  BY ConvertOrderFacts, LoadOrderFacts
<1>5. archived \in 0 .. Len(FeedStart) BY SchedulesAreNumbers
<1>6. rows \in [Tables -> [Schedules -> Nat]] BY <1>2
<1>7. objects \in [Schedules -> SUBSET Tables] OBVIOUS
<1>8. used \in [Dates -> Schedules \cup {None}] OBVIOUS
<1>9. TypeOK
  BY <1>2, <1>3, <1>4, <1>5, <1>6, <1>7, <1>8 DEF TypeOK
<1>10. CountInv
  BY <1>2, NothingInQueue DEF CountInv
<1>11. RoundInv
  BY DEF RoundInv, Busy
<1> QED BY <1>9, <1>10, <1>11 DEF TypeInv

\* The counts are numbers.
LEMMA CountsAreNumbers ==
    ASSUME TypeOK
    PROVE  /\ MaxObjects \in Nat
           /\ \A s \in Schedules :
                 /\ logged[s] \in Nat /\ marked[s] \in Nat /\ batch[s] \in Nat
                 /\ feedInfos[s] \in Nat /\ feedInfos[s] <= MaxObjects
                 /\ InQueue(queue, s) \in Nat
<1>1. MaxObjects \in Nat BY ScheduleAssumption
<1>2. \A s \in Schedules : InQueue(queue, s) \in Nat
  BY InQueueIsNumber DEF TypeOK
<1> QED BY <1>1, <1>2 DEF TypeOK

\* The schedules of a round and the one at hand.
LEMMA CurrentFacts ==
    ASSUME TypeOK, todo # {}
    PROVE  /\ Current \in todo /\ Current \in Schedules
           /\ \A s \in todo : Current <= s
BY MinIsLeast, SchedulesAreNumbers DEF TypeOK, Current

LEMMA OrderedFacts ==
    ASSUME TypeOK, NEW listing
    PROVE  Ordered \subseteq Schedules /\ ToConvert(listing) \subseteq Ordered
<1>1. 1 .. archived \subseteq Schedules
  BY SchedulesAreNumbers DEF TypeOK
<1> QED BY <1>1 DEF Ordered, ToConvert

LEMMA TypeIngestion ==
    TypeInv /\ (Publish \/ Ingestion \/ Record \/ IngestionCrash) => TypeInv'
<1> SUFFICES ASSUME TypeInv, Publish \/ Ingestion \/ Record \/ IngestionCrash
             PROVE  TypeInv'
  OBVIOUS
<1> USE DEF manager
<1>1. TypeOK /\ CountInv /\ RoundInv BY DEF TypeInv
<1>2. UNCHANGED manager
  BY DEF Publish, Ingestion, SelectSchedules, CreateTable, ScheduleFails,
         Record, IngestionCrash
<1>3. RoundInv' BY <1>1, <1>2 DEF RoundInv
<1>4. 1 \in 1 .. Len(ConvertOrder) BY ConvertOrderFacts
<1>5. CASE Publish
  <2>1. archived' \in 0 .. Len(FeedStart)
    BY <1>1, <1>5, SchedulesAreNumbers DEF Publish, TypeOK
  <2>2. TypeOK' BY <1>1, <1>5, <2>1 DEF Publish, TypeOK
  <2>3. CountInv' BY <1>1, <1>5 DEF Publish, CountInv
  <2> QED BY <1>3, <2>2, <2>3 DEF TypeInv
<1>6. CASE SelectSchedules
  <2>1. todo' \subseteq Schedules BY <1>1, <1>6, OrderedFacts DEF SelectSchedules
  <2>2. TypeOK' BY <1>1, <1>4, <1>6, <2>1 DEF SelectSchedules, TypeOK
  <2>3. CountInv' BY <1>1, <1>6, <2>1 DEF SelectSchedules, CountInv
  <2> QED BY <1>3, <2>2, <2>3 DEF TypeInv
<1>7. CASE CreateTable
  <2> DEFINE t == ConvertOrder[step]
             c == Current
             n == Len(ConvertOrder)
  <2>1. c \in todo /\ c \in Schedules BY <1>1, <1>7, CurrentFacts DEF CreateTable
  <2>2. step \in 1 .. n /\ n \in Nat /\ t \in Tables
    BY <1>1, ConvertOrderFacts DEF TypeOK
  <2>3. t = "FEED_INFO" <=> step = n
    <3>1. step = n => t = "FEED_INFO" BY ConvertOrderFacts
    <3>2. step # n => step \in 1 .. n - 1 BY <2>2
    <3>3. step # n => t # "FEED_INFO" BY <3>2, ConvertOrderFacts
    <3> QED BY <3>1, <3>3
  <2>4. /\ objects' = IF t \notin Empty[c]
                      THEN [objects EXCEPT ![c] = @ \cup {t}] ELSE objects
        /\ feedInfos' = IF step = n
                        THEN [feedInfos EXCEPT ![c] = @ + 1] ELSE feedInfos
        /\ queue' = IF step = n THEN Append(queue, c) ELSE queue
        /\ IF step = n THEN todo' = todo \ {c} /\ step' = 1
                       ELSE todo' = todo /\ step' = step + 1
        /\ UNCHANGED <<archived, logged>>
    BY <1>7, <2>3 DEF CreateTable
  <2>5. feedInfos[c] < MaxObjects BY <1>1, <2>1 DEF CountInv
  <2> HIDE DEF t, c, n
  <2>6. objects' \in [Schedules -> SUBSET Tables]
    BY <1>1, <2>1, <2>2, <2>4 DEF TypeOK
  <2>7. feedInfos' \in [Schedules -> 0 .. MaxObjects]
    <3>1. feedInfos \in [Schedules -> 0 .. MaxObjects] /\ MaxObjects \in Nat
      BY <1>1, CountsAreNumbers DEF TypeOK
    <3> QED BY <2>1, <2>4, <2>5, <3>1
  <2>8. queue' \in Seq(Schedules)
    BY <1>1, <2>1, <2>4, AppendFacts DEF TypeOK
  <2>9. todo' \subseteq Schedules /\ step' \in 1 .. n
    <3>1. CASE step = n BY <1>1, <2>2, <2>4, <3>1 DEF TypeOK
    <3>2. CASE step # n BY <1>1, <2>2, <2>4, <3>2 DEF TypeOK
    <3> QED BY <3>1, <3>2
  <2>10. TypeOK'
    BY <1>1, <1>2, <2>4, <2>6, <2>7, <2>8, <2>9 DEF TypeOK, n
  <2>11. ASSUME NEW s \in Schedules
         PROVE  /\ logged'[s] + InQueue(queue', s) <= feedInfos'[s]
                /\ s \in todo' => feedInfos'[s] < MaxObjects
    <3>1. /\ logged[s] + InQueue(queue, s) <= feedInfos[s]
          /\ s \in todo => feedInfos[s] < MaxObjects
          /\ logged[s] \in Nat /\ feedInfos[s] \in Nat
          /\ InQueue(queue, s) \in Nat
      BY <1>1, CountsAreNumbers DEF CountInv
    <3>2. CASE step # n BY <2>4, <3>1, <3>2
    <3>3. CASE step = n
      <4>1. InQueue(queue', s)
              = InQueue(queue, s) + (IF s = c THEN 1 ELSE 0)
        BY <1>1, <2>1, <2>4, <3>3, InQueueAppend DEF TypeOK
      <4>2. feedInfos'[s] = feedInfos[s] + (IF s = c THEN 1 ELSE 0)
        BY <1>1, <2>4, <3>1, <3>3 DEF TypeOK
      <4>3. s \in todo' => s \in todo /\ s # c BY <2>4, <3>3
      <4>4. CASE s = c BY <2>4, <3>1, <4>1, <4>2, <4>3, <4>4
      <4>5. CASE s # c BY <2>4, <3>1, <4>1, <4>2, <4>3, <4>5
      <4> QED BY <4>4, <4>5
    <3> QED BY <3>2, <3>3
  <2>12. CountInv' BY <1>1, <1>2, <2>4, <2>11 DEF CountInv
  <2> QED BY <1>3, <2>10, <2>12 DEF TypeInv
<1>8. CASE ScheduleFails
  <2>1. TypeOK' BY <1>1, <1>4, <1>8 DEF ScheduleFails, TypeOK
  <2>2. CountInv' BY <1>1, <1>8 DEF ScheduleFails, CountInv
  <2> QED BY <1>3, <2>1, <2>2 DEF TypeInv
<1>9. CASE Record
  <2> DEFINE h == Head(queue)
  <2>1. queue \in Seq(Schedules) /\ queue # <<>>
    BY <1>1, <1>9 DEF Record, TypeOK
  <2>2. h \in Schedules /\ queue' \in Seq(Schedules)
    BY <1>9, <2>1, InQueueTail DEF Record
  <2>3. /\ logged' = [logged EXCEPT ![h] = @ + 1]
        /\ UNCHANGED <<archived, todo, step, objects, feedInfos>>
    BY <1>9 DEF Record
  <2> HIDE DEF h
  <2>4. ASSUME NEW s \in Schedules
        PROVE  /\ logged'[s] \in Nat /\ logged[s] <= logged'[s]
               /\ logged'[s] + InQueue(queue', s) <= feedInfos[s]
               /\ logged'[s] <= MaxObjects
    <3>1. /\ logged[s] + InQueue(queue, s) <= feedInfos[s]
          /\ logged[s] \in Nat /\ feedInfos[s] \in Nat
          /\ feedInfos[s] <= MaxObjects /\ MaxObjects \in Nat
      BY <1>1, CountsAreNumbers DEF CountInv
    <3>2. /\ InQueue(queue, s) = InQueue(queue', s) + (IF s = h THEN 1 ELSE 0)
          /\ InQueue(queue', s) \in Nat
      BY <1>9, <2>1, <2>2, InQueueTail, InQueueIsNumber DEF Record, h
    <3>3. logged'[s] = logged[s] + (IF s = h THEN 1 ELSE 0)
      <4>1. s \in DOMAIN logged BY <1>1 DEF TypeOK
      <4>2. logged'[s] = IF s = h THEN logged[s] + 1 ELSE logged[s]
        BY <2>3, <4>1
      <4> QED BY <3>1, <4>2
    <3>4. CASE s = h BY <3>1, <3>2, <3>3, <3>4
    <3>5. CASE s # h BY <3>1, <3>2, <3>3, <3>5
    <3> QED BY <3>4, <3>5
  <2>5. logged' \in [Schedules -> 0 .. MaxObjects]
    <3>1. DOMAIN logged' = Schedules /\ logged' = [s \in Schedules |-> logged'[s]]
      BY <1>1, <2>3 DEF TypeOK
    <3> QED BY <2>4, <3>1, CountsAreNumbers, <1>1
  <2>6. TypeOK' BY <1>1, <1>2, <2>2, <2>3, <2>5 DEF TypeOK
  <2>7. ASSUME NEW s \in Schedules
        PROVE  /\ marked'[s] + batch'[s] <= logged'[s]
               /\ s \in todo' => feedInfos'[s] < MaxObjects
    <3>1. /\ marked[s] + batch[s] <= logged[s] /\ logged[s] <= logged'[s]
          /\ marked[s] \in Nat /\ batch[s] \in Nat
          /\ logged[s] \in Nat /\ logged'[s] \in Nat
          /\ s \in todo => feedInfos[s] < MaxObjects
      BY <1>1, <2>4, CountsAreNumbers DEF CountInv
    <3> QED BY <1>2, <2>3, <3>1
  <2>8. CountInv' BY <2>3, <2>4, <2>7 DEF CountInv
  <2> QED BY <1>3, <2>6, <2>8 DEF TypeInv
<1>10. CASE IngestionCrash
  <2>1. /\ queue' = <<>> /\ todo' = {} /\ step' = 1
        /\ UNCHANGED <<archived, objects, feedInfos, logged>>
    BY <1>10 DEF IngestionCrash
  <2>2. queue' \in Seq(Schedules) BY <2>1, NothingInQueue
  <2>3. TypeOK' BY <1>1, <1>2, <1>4, <2>1, <2>2 DEF TypeOK
  <2>4. ASSUME NEW s \in Schedules
        PROVE  logged[s] + InQueue(queue', s) <= feedInfos[s]
    <3>1. InQueue(queue', s) = 0 BY <2>1, NothingInQueue
    <3> QED BY <1>1, <3>1, CountsAreNumbers DEF CountInv
  <2>5. CountInv' BY <1>1, <1>2, <2>1, <2>4 DEF CountInv
  <2> QED BY <1>3, <2>3, <2>5 DEF TypeInv
<1> QED BY <1>5, <1>6, <1>7, <1>8, <1>9, <1>10 DEF Ingestion

\* A step of the manager keeps its own types.
ManagerTyped ==
    /\ \A f \in {marked, batch} : f \in [Schedules -> 0 .. MaxObjects]
    /\ version \in Schedules \cup {None} /\ i \in 1 .. 4
    /\ rows \in [Tables -> [Schedules -> Nat]]
    /\ created \in Seq(Schedules) /\ IsInjective(created)
    /\ metrics \in [Schedules -> 0 .. 3]
    /\ used \in [Dates -> Schedules \cup {None}]

\* The place in LoadOrder after a table.
LEMMA PlaceAfter ==
    ASSUME TypeOK
    PROVE  /\ i \in 1 .. 4 /\ 1 \in 1 .. 4
           /\ i < Len(LoadOrder) => i + 1 \in 1 .. 4 /\ i + 1 > 1
           /\ LoadOrder[i] \in Tables
BY LoadOrderFacts DEF TypeOK

\* A row of a table and version is counted or deleted.
LEMMA RowsTyped ==
    ASSUME rows \in [Tables -> [Schedules -> Nat]],
           NEW t \in Tables, NEW v \in Schedules, NEW n \in Nat,
           rows' = [rows EXCEPT ![t][v] = n]
    PROVE  /\ rows' \in [Tables -> [Schedules -> Nat]]
           /\ \A u \in Tables, s \in Schedules :
                 rows'[u][s] = IF u = t /\ s = v THEN n ELSE rows[u][s]
OBVIOUS

LEMMA ManagerTypedIsEnough ==
    ASSUME TypeOK, UNCHANGED ingest, ManagerTyped'
    PROVE  TypeOK'
BY LoadOrderFacts DEF TypeOK, ManagerTyped, ingest

LEMMA TypeManager ==
    TypeInv /\ (Manager \/ Intervene \/ ManagerCrash) => TypeInv'
<1> SUFFICES ASSUME TypeInv, Manager \/ Intervene \/ ManagerCrash
             PROVE  TypeInv'
  OBVIOUS
<1>1. TypeOK /\ CountInv /\ RoundInv BY DEF TypeInv
<1>2. UNCHANGED ingest
  BY DEF Manager, ReadPaths, NextPath, Load, InsertTable, CleanTable, Modify,
         MarkProcessed, MarkFailed, ProcessEvents, Intervene, ManagerCrash
<1>3. ManagerTyped BY <1>1, LoadOrderFacts DEF TypeOK, ManagerTyped
<1>4. SUFFICES ManagerTyped' /\ CountInv' /\ RoundInv'
  BY <1>1, <1>2, ManagerTypedIsEnough DEF TypeInv
<1>5. /\ i \in 1 .. 4 /\ 1 \in 1 .. 4
      /\ i < Len(LoadOrder) => i + 1 \in 1 .. 4
      /\ LoadOrder[i] \in Tables
  BY <1>1, PlaceAfter
<1>6. Zero \in [Schedules -> 0 .. MaxObjects] /\ \A s \in Schedules : Zero[s] = 0
  BY ScheduleAssumption DEF Zero
<1>7. /\ MaxObjects \in Nat
      /\ \A s \in Schedules :
           /\ logged[s] \in Nat /\ marked[s] \in Nat /\ batch[s] \in Nat
           /\ logged[s] <= MaxObjects
           /\ marked[s] + batch[s] <= logged[s]
           /\ logged[s] + InQueue(queue, s) <= feedInfos[s]
           /\ s \in todo => feedInfos[s] < MaxObjects
  <2>1. \A s \in Schedules : logged[s] \in 0 .. MaxObjects BY <1>1 DEF TypeOK
  <2> QED BY <1>1, <2>1, CountsAreNumbers DEF CountInv
<1>8. /\ marked \in [Schedules -> Nat] /\ batch \in [Schedules -> Nat]
  BY <1>3, <1>7 DEF ManagerTyped
\* Where marked and batch stay, so do the counts.
<1>9. ASSUME UNCHANGED <<marked, batch>> PROVE CountInv'
  BY <1>1, <1>2, <1>9 DEF CountInv, ingest
<1>10. ASSUME batch' = Zero,
              \/ UNCHANGED marked
              \/ MarkRows /\ version \in Schedules
       PROVE  CountInv' /\ marked' \in [Schedules -> 0 .. MaxObjects]
  <2>1. ASSUME NEW s \in Schedules
        PROVE  marked'[s] \in Nat /\ marked'[s] <= logged[s]
    <3>1. marked'[s] \in {marked[s], marked[s] + batch[s]}
      BY <1>8, <1>10 DEF MarkRows
    <3> QED BY <1>7, <3>1
  <2>2. marked' = [s \in Schedules |-> marked'[s]] BY <1>8, <1>10 DEF MarkRows
  <2>3. \A s \in Schedules : marked'[s] \in 0 .. MaxObjects BY <1>7, <2>1
  <2>4. \A s \in Schedules : marked'[s] + batch'[s] <= logged'[s]
    BY <1>2, <1>6, <1>10, <2>1 DEF ingest
  <2>5. CountInv' BY <1>1, <1>2, <2>4 DEF CountInv, ingest
  <2> QED BY <2>2, <2>3, <2>5
<1>11. CASE ReadPaths
  <2>1. /\ batch' = [s \in Schedules |-> logged[s] - marked[s]]
        /\ pm' = "next" /\ i' = 1
        /\ UNCHANGED <<marked, version, rows, created, metrics, used>>
    BY <1>11 DEF ReadPaths, Goto
  <2>2. \A s \in Schedules : /\ batch'[s] \in 0 .. MaxObjects
                             /\ marked[s] + batch'[s] <= logged[s]
    BY <1>7, <2>1
  <2>3. batch' \in [Schedules -> 0 .. MaxObjects] BY <2>1, <2>2
  <2>4. ManagerTyped' BY <1>3, <1>5, <2>1, <2>3 DEF ManagerTyped
  <2>5. CountInv' BY <1>1, <1>2, <2>1, <2>2 DEF CountInv, ingest
  <2>6. RoundInv' BY <2>1 DEF RoundInv, Busy
  <2> QED BY <2>4, <2>5, <2>6
<1>12. CASE NextPath
  <2> DEFINE waiting == {s \in Schedules : batch[s] > 0}
  <2>1. /\ IF waiting = {} THEN version' = None /\ pm' = "events" /\ i' = 1
                           ELSE version' = Min(waiting) /\ pm' = "load" /\ i' = 1
        /\ UNCHANGED <<marked, batch, rows, created, metrics, used>>
    BY <1>12 DEF NextPath, Goto
  <2>2. waiting # {} => Min(waiting) \in waiting
    BY SchedulesAreNumbers, MinIsLeast
  <2>3. waiting = {} => \A s \in Schedules : batch[s] = 0 BY <1>7
  <2>4. ManagerTyped' BY <1>3, <1>5, <2>1, <2>2 DEF ManagerTyped
  <2>5. CountInv' BY <1>9, <2>1
  <2>6. RoundInv' BY <2>1, <2>2, <2>3 DEF RoundInv, Busy
  <2> QED BY <2>4, <2>5, <2>6
<1>13. CASE Load
  <2>1. /\ i' = 1 /\ pm' \in {"insert", "mark_failed"} /\ pm = "load"
        /\ UNCHANGED <<marked, batch, version, rows, created, metrics, used>>
    BY <1>13 DEF Load, Goto
  <2>2. ManagerTyped' BY <1>3, <1>5, <2>1 DEF ManagerTyped
  <2>3. RoundInv' BY <1>1, <2>1 DEF RoundInv, Busy
  <2> QED BY <1>9, <2>1, <2>2, <2>3
<1>14. CASE InsertTable
  <2> DEFINE t == LoadOrder[i]
  <2>1. version \in Schedules /\ t \in Tables
    BY <1>1, <1>5, <1>14 DEF InsertTable, RoundInv, Busy
  <2>2. /\ i' \in 1 .. 4 /\ pm = "insert"
        /\ pm' \in {"insert", "modify", "clean"}
        /\ pm' = "modify" => i' = 1
        /\ UNCHANGED <<marked, batch, version, metrics, used>>
    BY <1>5, <1>14 DEF InsertTable, AfterInsert, Goto
  <2>3. \/ UNCHANGED <<rows, created>>
        \/ AddRows(t) /\ ~Rejected(t)
    BY <1>14 DEF InsertTable
  <2> HIDE DEF t
  <2>4. rows' \in [Tables -> [Schedules -> Nat]]
    <3>1. CASE UNCHANGED rows BY <1>3, <3>1 DEF ManagerTyped
    <3>2. CASE rows' = [rows EXCEPT ![t][version] = @ + 1]
      <4>1. rows \in [Tables -> [Schedules -> Nat]] BY <1>3 DEF ManagerTyped
      <4>2. rows[t][version] + 1 \in Nat BY <2>1, <4>1
      <4>3. rows' = [rows EXCEPT ![t][version] = rows[t][version] + 1]
        BY <2>1, <3>2, <4>1
      <4> QED BY <2>1, <4>1, <4>2, <4>3, RowsTyped
    <3> QED BY <2>3, <3>1, <3>2 DEF AddRows
  <2>5. created' \in Seq(Schedules) /\ IsInjective(created')
    <3>1. created \in Seq(Schedules) /\ IsInjective(created)
      BY <1>3 DEF ManagerTyped
    <3>2. CASE UNCHANGED created BY <3>1, <3>2
    <3>3. CASE created' = Append(created, version) /\ version \notin Range(created)
      BY <2>1, <3>1, <3>3, AppendFacts
    <3> QED BY <2>3, <3>2, <3>3 DEF AddRows, Rejected
  <2>6. ManagerTyped' BY <1>3, <2>2, <2>4, <2>5 DEF ManagerTyped
  <2>7. RoundInv' BY <1>1, <2>2 DEF RoundInv, Busy
  <2> QED BY <1>9, <2>2, <2>6, <2>7
<1>15. CASE CleanTable
  <2> DEFINE t == LoadOrder[i]
  <2>1. version \in Schedules /\ t \in Tables
    BY <1>1, <1>5, <1>15 DEF CleanTable, RoundInv, Busy
  <2>2. /\ i' \in 1 .. 4 /\ pm = "clean" /\ pm' \in {"clean", "mark_failed"}
        /\ UNCHANGED <<marked, batch, version, used>>
    BY <1>5, <1>15 DEF CleanTable, Goto
  <2>3. UNCHANGED <<rows, created, metrics>> \/ DeleteRows(t)
    BY <1>15 DEF CleanTable
  <2> HIDE DEF t
  <2>4. rows' \in [Tables -> [Schedules -> Nat]]
    <3>1. CASE UNCHANGED rows BY <1>3, <3>1 DEF ManagerTyped
    <3>2. CASE rows' = [rows EXCEPT ![t][version] = 0]
      BY <1>3, <2>1, <3>2, RowsTyped DEF ManagerTyped
    <3> QED BY <2>3, <3>1, <3>2 DEF DeleteRows
  <2>5. created' \in Seq(Schedules) /\ IsInjective(created')
    <3>1. created \in Seq(Schedules) /\ IsInjective(created)
      BY <1>3 DEF ManagerTyped
    <3>2. CASE UNCHANGED created BY <3>1, <3>2
    <3>3. CASE created' = Without(created, version) /\ version \in Range(created)
      BY <3>1, <3>3, WithoutFacts
    <3> QED BY <2>3, <3>2, <3>3 DEF DeleteRows
  <2>6. metrics' \in [Schedules -> 0 .. 3]
    <3>1. metrics \in [Schedules -> 0 .. 3] BY <1>3 DEF ManagerTyped
    <3>2. metrics' = [metrics EXCEPT ![version] = 0] \/ metrics' = metrics
      BY <2>3 DEF DeleteRows
    <3>3. 0 \in 0 .. 3 OBVIOUS
    <3> QED BY <3>1, <3>2, <3>3
  <2>7. ManagerTyped' BY <1>3, <2>2, <2>4, <2>5, <2>6 DEF ManagerTyped
  <2>8. RoundInv' BY <1>1, <2>2 DEF RoundInv, Busy
  <2> QED BY <1>9, <2>2, <2>7, <2>8
<1>16. CASE Modify
  <2>1. version \in Schedules /\ i \in 1 .. 3
    BY <1>1, <1>16 DEF Modify, RoundInv, Busy
  <2>2. /\ pm = "modify"
        /\ \/ pm' = "modify" /\ i < 3 /\ i' = i + 1
           \/ pm' \in {"mark", "mark_failed"} /\ i' = 1
        /\ UNCHANGED <<marked, batch, version, rows, created, used>>
    BY <1>16 DEF Modify, Goto
  <2>3. metrics' \in [Schedules -> 0 .. 3]
    <3>1. metrics \in [Schedules -> 0 .. 3] BY <1>3 DEF ManagerTyped
    <3>2. metrics' = [metrics EXCEPT ![version] = i] \/ metrics' = metrics
      BY <1>16 DEF Modify
    <3>3. i \in 0 .. 3 BY <2>1
    <3> QED BY <3>1, <3>2, <3>3
  <2>4. i' \in 1 .. 4 /\ (pm' = "modify" => i' \in 1 .. 3) BY <2>1, <2>2
  <2>5. ManagerTyped' BY <1>3, <2>2, <2>3, <2>4 DEF ManagerTyped
  <2>6. RoundInv' BY <1>1, <2>2, <2>4 DEF RoundInv, Busy
  <2> QED BY <1>9, <2>2, <2>5, <2>6
<1>17. CASE MarkProcessed
  <2>1. version \in Schedules BY <1>1, <1>17 DEF MarkProcessed, RoundInv, Busy
  <2>2. /\ i' = 1 /\ pm = "mark"
        /\ UNCHANGED <<version, rows, created, metrics, used>>
    BY <1>17 DEF MarkProcessed, Goto
  <2>3. CASE pm' = "mark_failed" /\ UNCHANGED <<marked, batch>>
    <3>1. ManagerTyped' BY <1>3, <1>5, <2>2, <2>3 DEF ManagerTyped
    <3>2. RoundInv' BY <1>1, <2>2, <2>3 DEF RoundInv, Busy
    <3> QED BY <1>9, <2>3, <3>1, <3>2
  <2>4. CASE MarkRows /\ batch' = [batch EXCEPT ![version] = 0] /\ pm' = "next"
    <3>1. ASSUME NEW s \in Schedules
          PROVE  /\ marked'[s] \in 0 .. MaxObjects /\ batch'[s] \in 0 .. MaxObjects
                 /\ marked'[s] + batch'[s] <= logged[s]
      <4>1. CASE s = version
        <5>1. marked'[s] = marked[s] + batch[s] /\ batch'[s] = 0
          BY <1>8, <2>1, <2>4, <4>1 DEF MarkRows
        <5> QED BY <1>7, <5>1
      <4>2. CASE s # version
        <5>1. marked'[s] = marked[s] /\ batch'[s] = batch[s]
          BY <1>8, <2>1, <2>4, <4>2 DEF MarkRows
        <5> QED BY <1>7, <5>1
      <4> QED BY <4>1, <4>2
    <3>2. /\ marked' = [s \in Schedules |-> marked'[s]]
          /\ batch' = [s \in Schedules |-> batch'[s]]
      BY <1>8, <2>4 DEF MarkRows
    <3>3. /\ marked' \in [Schedules -> 0 .. MaxObjects]
          /\ batch' \in [Schedules -> 0 .. MaxObjects]
      BY <3>1, <3>2
    <3>4. ManagerTyped' BY <1>3, <1>5, <2>2, <3>3 DEF ManagerTyped
    <3>5. CountInv' BY <1>1, <1>2, <3>1 DEF CountInv, ingest
    <3>6. RoundInv' BY <2>4 DEF RoundInv, Busy
    <3> QED BY <3>4, <3>5, <3>6
  <2> QED BY <1>17, <2>3, <2>4 DEF MarkProcessed, Goto
<1>18. CASE MarkFailed
  <2>1. /\ version \in Schedules /\ batch' = Zero /\ i' = 1
        /\ pm' \in {"wait", "idle"}
        /\ MarkRows \/ UNCHANGED marked
        /\ UNCHANGED <<version, rows, created, metrics, used>>
    BY <1>1, <1>18 DEF MarkFailed, RoundInv, Busy, Goto
  <2>2. CountInv' /\ marked' \in [Schedules -> 0 .. MaxObjects]
    BY <1>10, <2>1
  <2>3. ManagerTyped' BY <1>3, <1>5, <1>6, <2>1, <2>2 DEF ManagerTyped
  <2>4. RoundInv' BY <2>1 DEF RoundInv, Busy
  <2> QED BY <2>2, <2>3, <2>4
<1>19. CASE ProcessEvents
  <2>1. /\ pm' = "idle" /\ i' = 1
        /\ UNCHANGED <<marked, batch, version, rows, created, metrics>>
    BY <1>19 DEF ProcessEvents, Goto
  <2>2. used' \in [Dates -> Schedules \cup {None}]
    <3>1. \A d \in Dates : VersionFor(d) \in Schedules \cup {None}
      <4>1. created \in Seq(Schedules) BY <1>3 DEF ManagerTyped
      <4>2. Range(created) \subseteq Schedules BY <4>1 DEF Range
      <4> QED BY <4>1, <4>2, VersionIsLoaded
    <3>2. PICK D \in SUBSET Dates :
             used' = [d \in Dates |-> IF d \in D THEN VersionFor(d) ELSE used[d]]
      BY <1>19 DEF ProcessEvents
    <3>3. used \in [Dates -> Schedules \cup {None}] BY <1>3 DEF ManagerTyped
    <3> QED BY <3>1, <3>2, <3>3
  <2>3. ManagerTyped' BY <1>3, <1>5, <2>1, <2>2 DEF ManagerTyped
  <2>4. RoundInv' BY <2>1 DEF RoundInv, Busy
  <2> QED BY <1>9, <2>1, <2>3, <2>4
<1>20. CASE Intervene
  <2>1. /\ pm' = "idle" /\ i' = 1
        /\ UNCHANGED <<marked, batch, version, rows, created, metrics, used>>
    BY <1>20 DEF Intervene, Goto
  <2>2. ManagerTyped' BY <1>3, <1>5, <2>1 DEF ManagerTyped
  <2>3. RoundInv' BY <2>1 DEF RoundInv, Busy
  <2> QED BY <1>9, <2>1, <2>2, <2>3
<1>21. CASE ManagerCrash
  <2>1. /\ pm' = "idle" /\ i' = 1 /\ batch' = Zero
        /\ UNCHANGED <<marked, version, rows, created, metrics, used>>
    BY <1>21 DEF ManagerCrash, Goto
  <2>2. CountInv' BY <1>10, <2>1
  <2>3. ManagerTyped' BY <1>3, <1>5, <1>6, <2>1 DEF ManagerTyped
  <2>4. RoundInv' BY <2>1 DEF RoundInv, Busy
  <2> QED BY <2>2, <2>3, <2>4
<1> QED
  BY <1>11, <1>12, <1>13, <1>14, <1>15, <1>16, <1>17, <1>18, <1>19, <1>20,
     <1>21 DEF Manager

\* The counts, the springboard and the database have their types: no path is
\* logged more often than it was announced, none is marked that was not
\* read, and static_feed_info holds a version once.
THEOREM TypeCorrect == Spec => []TypeOK
<1>1. TypeInv /\ [Next]_vars => TypeInv'
  <2> SUFFICES ASSUME TypeInv, [Next]_vars PROVE TypeInv'
    OBVIOUS
  <2>1. CASE Next
    BY <2>1, TypeIngestion, TypeManager DEF Next
  <2>2. CASE UNCHANGED vars
    BY <2>2 DEF TypeInv, TypeOK, CountInv, RoundInv, vars, ingest, manager
  <2> QED BY <2>1, <2>2
<1>2. TypeInv => TypeOK BY DEF TypeInv
<1> QED BY <1>1, <1>2, TypeInit, PTL DEF Spec

(***************************************************************************)
(* The springboard                                                         *)
(***************************************************************************)

\* The tables that were taken from the zip at hand are in the springboard or
\* have no rows; the path of feed_info is only announced after all of them.
SpringboardInv ==
    /\ \A s \in Schedules :
          /\ objects[s] \subseteq Tables \ Empty[s]
          /\ feedInfos[s] > 0 => objects[s] = Tables \ Empty[s]
    /\ todo # {} =>
          \A k \in 1 .. step - 1 :
              ConvertOrder[k] \in objects[Current] \cup Empty[Current]

LEMMA SpringboardInit == Init => SpringboardInv
<1> SUFFICES ASSUME Init PROVE SpringboardInv
  OBVIOUS
<1>1. \A s \in Schedules : ~(feedInfos[s] > 0) BY DEF Init, Zero
<1>2. todo = {} /\ \A s \in Schedules : objects[s] = {} BY DEF Init
<1> QED BY <1>1, <1>2 DEF SpringboardInv

LEMMA SpringboardStep ==
    TypeInv /\ SpringboardInv /\ [Next]_vars => SpringboardInv'
<1> SUFFICES ASSUME TypeInv, SpringboardInv, [Next]_vars PROVE SpringboardInv'
  OBVIOUS
<1>1. TypeOK /\ TypeOK' /\ CountInv
  BY TypeIngestion, TypeManager
     DEF TypeInv, TypeOK, CountInv, RoundInv, Next, vars, ingest, manager
<1>2. ASSUME UNCHANGED <<objects, feedInfos>>, step' = 1 PROVE SpringboardInv'
  BY <1>2 DEF SpringboardInv
<1>3. ASSUME UNCHANGED <<objects, feedInfos, todo, step>> PROVE SpringboardInv'
  BY <1>3 DEF SpringboardInv, Current
<1>4. CASE Publish BY <1>3, <1>4 DEF Publish
<1>5. CASE SelectSchedules BY <1>2, <1>5 DEF SelectSchedules
<1>6. CASE ScheduleFails BY <1>2, <1>6 DEF ScheduleFails
<1>7. CASE Record BY <1>3, <1>7 DEF Record
<1>8. CASE IngestionCrash BY <1>2, <1>8 DEF IngestionCrash
<1>9. CASE UNCHANGED ingest BY <1>3, <1>9 DEF ingest
<1>10. CASE CreateTable
  <2> DEFINE t == ConvertOrder[step]
             c == Current
             n == Len(ConvertOrder)
  <2>1. todo # {} /\ c \in todo /\ c \in Schedules
    BY <1>1, <1>10, CurrentFacts DEF CreateTable
  <2>2. step \in 1 .. n /\ n \in Nat /\ t \in Tables
    BY <1>1, ConvertOrderFacts DEF TypeOK
  <2>3. /\ objects \in [Schedules -> SUBSET Tables]
        /\ feedInfos \in [Schedules -> Nat]
    BY <1>1, CountsAreNumbers DEF TypeOK
  <2>4. /\ objects' = IF t \notin Empty[c]
                      THEN [objects EXCEPT ![c] = @ \cup {t}] ELSE objects
        /\ feedInfos' = IF t = "FEED_INFO"
                        THEN [feedInfos EXCEPT ![c] = @ + 1] ELSE feedInfos
        /\ IF step = n THEN todo' = todo \ {c} /\ step' = 1
                       ELSE todo' = todo /\ step' = step + 1
    BY <1>10 DEF CreateTable
  <2>5. \A k \in 1 .. step - 1 : ConvertOrder[k] \in objects[c] \cup Empty[c]
    BY <2>1 DEF SpringboardInv
  <2>6. t = "FEED_INFO" => step = n
    <3>1. step # n => step \in 1 .. n - 1 BY <2>2
    <3> QED BY <3>1, ConvertOrderFacts
  <2>7. Current' = Min(todo') BY DEF Current
  <2>8. c = Min(todo) BY DEF Current
  <2> HIDE DEF t, c, n
  <2>9. \A s \in Schedules : /\ objects[s] \subseteq Tables \ Empty[s]
                             /\ feedInfos[s] > 0 => objects[s] = Tables \ Empty[s]
    BY DEF SpringboardInv
  <2>10. \A s \in Schedules : /\ objects'[s] \subseteq Tables \ Empty[s]
                              /\ objects[s] \subseteq objects'[s]
    BY <2>1, <2>2, <2>3, <2>4, <2>9
  <2>11. t \in objects'[c] \cup Empty[c] BY <2>1, <2>3, <2>4
  <2>12. \A k \in 1 .. step : ConvertOrder[k] \in objects'[c] \cup Empty[c]
    <3> SUFFICES ASSUME NEW k \in 1 .. step
                 PROVE  ConvertOrder[k] \in objects'[c] \cup Empty[c]
      OBVIOUS
    <3>1. CASE k = step BY <2>11, <3>1 DEF t
    <3>2. CASE k # step
      <4>1. k \in 1 .. step - 1 BY <2>2, <3>2
      <4> QED BY <2>1, <2>5, <2>10, <4>1
    <3> QED BY <3>1, <3>2
  <2>13. ASSUME t = "FEED_INFO" PROVE objects'[c] = Tables \ Empty[c]
    <3>1. step = n BY <2>6, <2>13
    <3>2. ASSUME NEW u \in Tables PROVE u \in objects'[c] \cup Empty[c]
      <4>1. PICK k \in 1 .. n : ConvertOrder[k] = u
        BY ConvertOrderFacts DEF Range, n
      <4> QED BY <2>12, <3>1, <4>1
    <3> QED BY <2>1, <2>10, <3>2
  <2>14. ASSUME NEW s \in Schedules, feedInfos'[s] > 0
         PROVE  objects'[s] = Tables \ Empty[s]
    <3>1. CASE s = c /\ t = "FEED_INFO" BY <2>13, <3>1
    <3>2. CASE ~(s = c /\ t = "FEED_INFO")
      <4>1. feedInfos'[s] = feedInfos[s] BY <2>1, <2>3, <2>4, <3>2
      <4>2. objects[s] = Tables \ Empty[s] BY <2>9, <2>14, <4>1
      <4> QED BY <2>10, <4>2
    <3> QED BY <3>1, <3>2
  <2>15. todo' # {} => \A k \in 1 .. step' - 1 :
             ConvertOrder[k] \in objects'[Current'] \cup Empty[Current']
    <3>1. CASE step = n
      <4>1. \A k \in 1 .. step' - 1 : FALSE BY <2>4, <3>1
      <4> QED BY <4>1
    <3>2. CASE step # n
      <4>1. step' - 1 = step /\ Current' = c BY <2>2, <2>4, <2>7, <2>8, <3>2
      <4> QED BY <2>12, <4>1
    <3> QED BY <3>1, <3>2
  <2> QED BY <2>10, <2>14, <2>15 DEF SpringboardInv
<1>11. CASE UNCHANGED vars BY <1>3, <1>11 DEF vars, ingest
<1>12. Manager \/ Intervene \/ ManagerCrash => UNCHANGED ingest
  BY DEF Manager, ReadPaths, NextPath, Load, InsertTable, CleanTable, Modify,
         MarkProcessed, MarkFailed, ProcessEvents, Intervene, ManagerCrash
<1> QED
  BY <1>4, <1>5, <1>6, <1>7, <1>8, <1>9, <1>10, <1>11, <1>12
     DEF Next, Ingestion

\* What is logged or in the queue was announced.
LEMMA AnnouncedIsWritten ==
    ASSUME TypeInv, NEW s \in Schedules,
           logged[s] > 0 \/ s \in Range(queue)
    PROVE  feedInfos[s] > 0
<1>1. TypeOK /\ CountInv BY DEF TypeInv
<1>2. /\ logged[s] + InQueue(queue, s) <= feedInfos[s]
      /\ logged[s] \in Nat /\ feedInfos[s] \in Nat
      /\ InQueue(queue, s) \in Nat
  BY <1>1, CountsAreNumbers DEF CountInv
<1>3. s \in Range(queue) => InQueue(queue, s) > 0
  BY <1>1, InQueueIsNumber DEF TypeOK
<1> QED BY <1>2, <1>3

\* The types and the springboard hold in every state.
LEMMA SpringboardCorrect == Spec => [](TypeInv /\ SpringboardInv)
<1>1. TypeInv /\ SpringboardInv /\ [Next]_vars => (TypeInv /\ SpringboardInv)'
  <2> SUFFICES ASSUME TypeInv, SpringboardInv, [Next]_vars
               PROVE  TypeInv' /\ SpringboardInv'
    OBVIOUS
  <2>1. CASE Next
    BY <2>1, TypeIngestion, TypeManager, SpringboardStep DEF Next
  <2>2. CASE UNCHANGED vars
    BY <2>2, SpringboardStep
       DEF TypeInv, TypeOK, CountInv, RoundInv, vars, ingest, manager
  <2> QED BY <2>1, <2>2
<1> QED BY <1>1, TypeInit, SpringboardInit, PTL DEF Spec

\* All other tables of a schedule are in the springboard before the path of
\* its feed_info is announced (convert_gtfs.py:91), whatever the order of
\* the zip is, which tables have no rows and where a conversion breaks off.
THEOREM FeedInfoComesLast == Spec => []FeedInfoIsLast
<1>1. TypeInv /\ SpringboardInv => FeedInfoIsLast
  BY AnnouncedIsWritten DEF SpringboardInv, FeedInfoIsLast
<1> QED BY <1>1, SpringboardCorrect, PTL

(***************************************************************************)
(* A version is announced once                                             *)
(***************************************************************************)

\* Every schedule starts later than the ones that were published before.
StartsIncrease ==
    \A s, t \in Schedules : s < t => FeedStart[s] < FeedStart[t]

\* Nothing of the round was announced before, as long as no listing failed.
OnceInv ==
    ~unlisted =>
        /\ \A s \in Schedules : feedInfos[s] <= 1
        /\ \A s \in todo : feedInfos[s] = 0

\* The last element of a listing.
LEMMA MaxIsGreatest ==
    ASSUME NEW S, S \subseteq Schedules, S # {}
    PROVE  Max(S) \in S /\ \A y \in S : y <= Max(S)
<1> DEFINE n == Len(FeedStart)
           D == {n - x : x \in S}
<1>1. n \in Nat /\ S \subseteq 1 .. n BY SchedulesAreNumbers
<1>2. D \subseteq Nat /\ D # {}
  <2>1. \A x \in S : n - x \in Nat BY <1>1
  <2> QED BY <2>1
<1>3. PICK d \in D : \A e \in D : d <= e
  <2> HIDE DEF D
  <2> QED BY <1>2, LeastNumber
<1>4. PICK x \in S : d = n - x BY <1>3
<1>5. \A y \in S : d <= n - y BY <1>3
<1>6. \A y \in S : y <= x
  <2> HIDE DEF n, D
  <2> QED BY <1>1, <1>4, <1>5
<1>7. \A y \in S : x >= y BY <1>1, <1>6
<1>8. Max(S) \in S /\ \A y \in S : Max(S) >= y BY <1>7 DEF Max
<1> QED BY <1>1, <1>8

LEMMA OnceStep ==
    ASSUME StartsIncrease, TypeInv, OnceInv, [Next]_vars
    PROVE  OnceInv'
<1>1. TypeOK BY DEF TypeInv
<1>2. ASSUME UNCHANGED <<unlisted, feedInfos>>, todo' \subseteq todo
      PROVE  OnceInv'
  BY <1>2 DEF OnceInv
<1>3. CASE Publish BY <1>2, <1>3 DEF Publish
<1>4. CASE SelectSchedules
  <2> DEFINE listed == {s \in Schedules : feedInfos[s] > 0}
  <2>1. /\ UNCHANGED feedInfos
        /\ \/ unlisted' = TRUE
           \/ unlisted' = unlisted /\ todo' = ToConvert(listed)
    BY <1>4 DEF SelectSchedules
  <2>2. CASE unlisted' = TRUE BY <2>2 DEF OnceInv
  <2>3. CASE unlisted' = unlisted /\ todo' = ToConvert(listed)
    <3>1. todo' \subseteq Schedules BY <1>1, <2>3, OrderedFacts
    <3>2. \A s \in Schedules : feedInfos[s] \in Nat BY <1>1, CountsAreNumbers
    <3>3. ASSUME NEW s \in todo' PROVE feedInfos[s] = 0
      <4>1. CASE listed = {} BY <3>1, <3>2, <4>1
      <4>2. CASE listed # {}
        <5> DEFINE m == Max(listed)
        <5>1. m \in listed /\ \A y \in listed : y <= m
          <6>1. listed \subseteq Schedules OBVIOUS
          <6> HIDE DEF listed
          <6> QED BY <4>2, <6>1, MaxIsGreatest
        <5>2. FeedStart[s] >= FeedStart[m] /\ s # m
          BY <2>3, <4>2 DEF ToConvert, LastFeedInfo
        <5>3. /\ s \in Nat /\ m \in Nat /\ s \in Schedules /\ m \in Schedules
              /\ FeedStart[s] \in Nat /\ FeedStart[m] \in Nat
          <6>1. s \in Schedules /\ m \in Schedules BY <3>1, <5>1
          <6>2. FeedStart \in [Schedules -> Nat]
            BY ScheduleAssumption DEF Schedules
          <6> HIDE DEF m
          <6> QED BY <6>1, <6>2, SchedulesAreNumbers
        <5> HIDE DEF m
        <5>4. s > m BY <5>2, <5>3 DEF StartsIncrease
        <5>5. s \notin listed BY <5>1, <5>3, <5>4
        <5> QED BY <3>2, <5>3, <5>5
      <4> QED BY <4>1, <4>2
    <3> QED BY <2>1, <2>3, <3>3 DEF OnceInv
  <2> QED BY <2>1, <2>2, <2>3
<1>5. CASE CreateTable
  <2> DEFINE c == Current
             n == Len(ConvertOrder)
  <2>1. c \in todo /\ c \in Schedules BY <1>1, <1>5, CurrentFacts DEF CreateTable
  <2>2. ConvertOrder[step] = "FEED_INFO" => step = n
    <3>1. step \in 1 .. n /\ n \in Nat BY <1>1, ConvertOrderFacts DEF TypeOK
    <3>2. step # n => step \in 1 .. n - 1 BY <3>1
    <3> QED BY <3>2, ConvertOrderFacts
  <2>3. /\ feedInfos' = IF ConvertOrder[step] = "FEED_INFO"
                        THEN [feedInfos EXCEPT ![c] = @ + 1] ELSE feedInfos
        /\ IF step = n THEN todo' = todo \ {c} ELSE todo' = todo
        /\ UNCHANGED unlisted
    BY <1>5 DEF CreateTable
  <2>4. /\ feedInfos \in [Schedules -> Nat] /\ todo \subseteq Schedules
    BY <1>1, CountsAreNumbers DEF TypeOK
  <2> HIDE DEF c, n
  <2>5. CASE ConvertOrder[step] # "FEED_INFO" BY <1>2, <2>3, <2>5
  <2>6. CASE ConvertOrder[step] = "FEED_INFO"
    <3>1. feedInfos' = [feedInfos EXCEPT ![c] = @ + 1] /\ todo' = todo \ {c}
      BY <2>2, <2>3, <2>6
    <3>2. ~unlisted => feedInfos[c] = 0 BY <2>1 DEF OnceInv
    <3>3. feedInfos'[c] = feedInfos[c] + 1
          /\ \A s \in Schedules \ {c} : feedInfos'[s] = feedInfos[s]
      BY <2>1, <2>4, <3>1
    <3> QED BY <2>3, <2>4, <3>1, <3>2, <3>3 DEF OnceInv
  <2> QED BY <2>5, <2>6
<1>6. CASE ScheduleFails BY <1>2, <1>6 DEF ScheduleFails
<1>7. CASE Record BY <1>2, <1>7 DEF Record
<1>8. CASE IngestionCrash BY <1>2, <1>8 DEF IngestionCrash
<1>9. CASE UNCHANGED ingest BY <1>2, <1>9 DEF ingest
<1>10. Manager \/ Intervene \/ ManagerCrash \/ UNCHANGED vars => UNCHANGED ingest
  BY DEF Manager, ReadPaths, NextPath, Load, InsertTable, CleanTable, Modify,
         MarkProcessed, MarkFailed, ProcessEvents, Intervene, ManagerCrash, vars
<1> QED
  BY <1>3, <1>4, <1>5, <1>6, <1>7, <1>8, <1>9, <1>10 DEF Next, Ingestion

\* With feeds whose start dates increase no version is announced twice,
\* whichever schedules fail, are hidden or are lost in a crash, unless a
\* listing of FEED_INFO failed (gtfs_files_to_convert).
THEOREM VersionAnnouncedOnce ==
    ASSUME StartsIncrease
    PROVE  Spec => []AnnouncedOnce
<1>1. Init => OnceInv BY DEF Init, OnceInv, Zero
<1>2. TypeInv /\ OnceInv /\ [Next]_vars => OnceInv' BY OnceStep
<1>3. OnceInv => AnnouncedOnce BY DEF OnceInv, AnnouncedOnce
<1> QED BY <1>1, <1>2, <1>3, SpringboardCorrect, PTL DEF Spec

(***************************************************************************)
(* Versions in the database                                                *)
(***************************************************************************)

\* The version is in a batch that is not settled or will be in the next one.
Pending(s) ==
    IF pm \in {"idle", "wait"} THEN logged[s] > marked[s] ELSE batch[s] > 0

Copies(t, s) == IF t \in Empty[s] THEN 0 ELSE 1

FullRows(s) == s \in branched /\ \A t \in Tables : rows[t][s] = Copies(t, s)

NoRows(s) == \A t \in Tables : rows[t][s] = 0

Whole(s) ==
    /\ s \in Range(created) /\ FullRows(s)
    /\ s \notin failed => metrics[s] = 3

\* Trips refer to rows of static_feed_info, and never to the version that is
\* loaded or deleted at the moment.
UsedInv ==
    /\ Range(used) \subseteq Range(created) \cup {None}
    /\ pm \in {"modify", "mark"} \/ (pm = "insert" /\ i > 1)
          => version \in Range(created) /\ version \notin Range(used)
    /\ pm = "clean" /\ i > 1 => version \notin Range(created)

\* What is in the database is whole or will be dealt with.
SettledInv ==
    \A s \in Schedules \ unclean :
        /\ s \in Range(created) => Pending(s) \/ Whole(s)
        /\ s \notin Range(created) => NoRows(s) \/ (pm = "clean" /\ s = version)
        /\ s \in Range(used) => Whole(s)

\* How far the load or the clean-up of the version at hand is.
AtHandInv ==
    version \notin unclean =>
        /\ pm = "insert" /\ i > 1 =>
              /\ \A k \in 1 .. 4 : rows[LoadOrder[k]][version]
                     = IF k < i THEN Copies(LoadOrder[k], version) ELSE 0
              /\ i > 3 => version \in branched
        /\ pm = "clean" => \A k \in 1 .. i - 1 : rows[LoadOrder[k]][version] = 0
        /\ pm = "modify" =>
              FullRows(version) /\ (i > 1 => metrics[version] = i - 1)
        /\ pm = "mark" => FullRows(version) /\ metrics[version] = 3
        /\ pm = "mark_failed" /\ version \in Range(created) => FullRows(version)

WholeInv == UsedInv /\ SettledInv /\ AtHandInv

LEMMA WholeInit == Init => WholeInv
<1> SUFFICES ASSUME Init PROVE WholeInv
  OBVIOUS
<1>1. /\ pm = "idle" /\ i = 1 /\ created = <<>> /\ Range(used) \subseteq {None}
      /\ \A s \in Schedules : NoRows(s)
  BY DEF Init, Range, NoRows, Zero
<1>2. Range(created) = {} BY <1>1, NothingInQueue
<1>3. None \notin Schedules BY SchedulesAreNumbers
<1>4. UsedInv BY <1>1 DEF UsedInv
<1>5. \A s \in Schedules : s \notin Range(used) BY <1>1, <1>3
<1>6. SettledInv BY <1>1, <1>2, <1>5 DEF SettledInv
<1>7. AtHandInv BY <1>1 DEF AtHandInv
<1> QED BY <1>4, <1>6, <1>7 DEF WholeInv

\* A version whose rows stay is as whole as it was.
LEMMA SameRows ==
    ASSUME NEW s,
           \A t \in Tables : rows'[t][s] = rows[t][s],
           s \in Range(created') <=> s \in Range(created),
           s \in branched' <=> s \in branched,
           metrics'[s] = metrics[s], s \in failed => s \in failed'
    PROVE  /\ FullRows(s)' <=> FullRows(s)
           /\ NoRows(s)' <=> NoRows(s)
           /\ Whole(s) => Whole(s)'
<1>1. FullRows(s)' <=> FullRows(s) BY DEF FullRows, Copies
<1>2. NoRows(s)' <=> NoRows(s) BY DEF NoRows
<1> QED BY <1>1, <1>2 DEF Whole

\* The numbers behind a pending version.
LEMMA PendingFacts ==
    ASSUME TypeInv, NEW s \in Schedules
    PROVE  /\ logged[s] \in Nat /\ marked[s] \in Nat /\ batch[s] \in Nat
           /\ batch[s] > 0 => logged[s] > marked[s]
BY CountsAreNumbers DEF TypeInv, CountInv

LEMMA WholeIngestion ==
    ASSUME TypeInv, WholeInv,
           Publish \/ Ingestion \/ Record \/ IngestionCrash \/ UNCHANGED vars
    PROVE  WholeInv'
<1>1. UNCHANGED manager
  BY DEF Publish, Ingestion, SelectSchedules, CreateTable, ScheduleFails,
         Record, IngestionCrash, vars, manager
<1>2. ASSUME NEW s \in Schedules, Pending(s) PROVE Pending(s)'
  <2>1. CASE UNCHANGED logged
    BY <1>1, <1>2, <2>1 DEF Pending, manager
  <2>2. CASE Record
    <3>1. queue \in Seq(Schedules) /\ logged \in [Schedules -> Nat]
      BY CountsAreNumbers DEF TypeInv, TypeOK
    <3>2. logged' = [logged EXCEPT ![Head(queue)] = @ + 1] BY <2>2 DEF Record
    <3>3. logged'[s] >= logged[s] /\ logged'[s] \in Nat BY <3>1, <3>2
    <3>4. marked[s] \in Nat /\ logged[s] \in Nat BY PendingFacts
    <3> QED BY <1>1, <1>2, <3>3, <3>4 DEF Pending, manager
  <2> QED
    BY <2>1, <2>2
       DEF Publish, Ingestion, SelectSchedules, CreateTable, ScheduleFails,
           IngestionCrash, vars, ingest
<1>3. UsedInv' BY <1>1 DEF WholeInv, UsedInv, manager
<1>4. AtHandInv'
  BY <1>1 DEF WholeInv, AtHandInv, FullRows, Copies, manager
<1>5. ASSUME NEW s \in Schedules PROVE (Whole(s) => Whole(s)') /\ (NoRows(s) => NoRows(s)')
  BY <1>1, SameRows DEF manager
<1>6. SettledInv'
  BY <1>1, <1>2, <1>5 DEF WholeInv, SettledInv, manager
<1> QED BY <1>3, <1>4, <1>6 DEF WholeInv

\* The steps of the manager that leave the rows alone.
LEMMA WholeRound ==
    ASSUME TypeInv, WholeInv,
           \/ ReadPaths \/ NextPath \/ Load \/ MarkProcessed \/ MarkFailed
           \/ ProcessEvents \/ Intervene \/ ManagerCrash
    PROVE  WholeInv'
<1>1. TypeOK /\ RoundInv /\ UsedInv /\ SettledInv /\ AtHandInv
  BY DEF TypeInv, WholeInv
<1>2. /\ UNCHANGED <<rows, created, branched, metrics, logged>>
      /\ failed \subseteq failed' /\ unclean \subseteq unclean' /\ i' = 1
  BY DEF ReadPaths, NextPath, Load, MarkProcessed, MarkFailed, ProcessEvents,
         Intervene, ManagerCrash, Goto, ingest
<1>3. ASSUME NEW s
      PROVE  /\ FullRows(s)' <=> FullRows(s)
             /\ NoRows(s)' <=> NoRows(s)
             /\ Whole(s) => Whole(s)'
  BY <1>2, SameRows
<1>4. /\ marked \in [Schedules -> Nat] /\ batch \in [Schedules -> Nat]
      /\ logged \in [Schedules -> Nat]
  BY <1>1, CountsAreNumbers DEF TypeOK
<1>5. \A s \in Schedules : batch[s] > 0 => logged[s] > marked[s]
  BY PendingFacts
<1>6. \A s \in Schedules : Zero[s] = 0 BY DEF Zero
<1>7. SUFFICES /\ Range(used') \subseteq Range(created) \cup {None}
               /\ pm' \in {"modify", "mark"} => FALSE
               /\ AtHandInv'
               /\ \A s \in Schedules \ unclean' :
                     /\ s \in Range(created) => Pending(s)' \/ Whole(s)'
                     /\ s \notin Range(created) => NoRows(s)
                     /\ s \in Range(used') => Whole(s)'
  <2> SUFFICES UsedInv' /\ SettledInv' BY DEF WholeInv
  <2>1. ~(i' > 1) BY <1>2
  <2>2. UsedInv' BY <1>2, <2>1 DEF UsedInv
  <2>3. SettledInv' BY <1>2, <1>3 DEF SettledInv
  <2> QED BY <2>2, <2>3
<1>8. ASSUME UNCHANGED used
      PROVE  /\ Range(used') \subseteq Range(created) \cup {None}
             /\ \A s \in Schedules \ unclean' : s \in Range(used') => Whole(s)'
  BY <1>1, <1>2, <1>3, <1>8 DEF UsedInv, SettledInv
<1>9. ASSUME pm' \in {"idle", "next", "events", "wait", "load"} PROVE AtHandInv'
  BY <1>9 DEF AtHandInv
<1>10. CASE ReadPaths
  <2>1. /\ pm = "idle" /\ pm' = "next" /\ UNCHANGED <<marked, used, unclean>>
        /\ batch' = [s \in Schedules |-> logged[s] - marked[s]]
    BY <1>10 DEF ReadPaths, Goto
  <2>2. ASSUME NEW s \in Schedules, Pending(s) PROVE Pending(s)'
    <3>1. logged[s] > marked[s] /\ batch'[s] = logged[s] - marked[s]
      BY <2>1, <2>2 DEF Pending
    <3>2. batch'[s] > 0 BY <1>4, <3>1
    <3> QED BY <2>1, <3>2 DEF Pending
  <2> QED BY <1>1, <1>3, <1>8, <1>9, <2>1, <2>2 DEF SettledInv
<1>11. CASE NextPath
  <2>1. /\ pm = "next" /\ pm' \in {"events", "load"}
        /\ UNCHANGED <<marked, batch, used, unclean>>
    BY <1>11 DEF NextPath, Goto
  <2>2. ASSUME NEW s \in Schedules, Pending(s) PROVE Pending(s)'
    BY <2>1, <2>2 DEF Pending
  <2> QED BY <1>1, <1>3, <1>8, <1>9, <2>1, <2>2 DEF SettledInv
<1>12. CASE Load
  <2>1. /\ pm = "load" /\ UNCHANGED <<marked, batch, used, version>>
        /\ \/ pm' = "insert" /\ UNCHANGED unclean
           \/ /\ pm' = "mark_failed"
              /\ unclean' = unclean \cup ({version} \cap Range(created))
    BY <1>12 DEF Load, Goto
  <2>2. ASSUME NEW s \in Schedules, Pending(s) PROVE Pending(s)'
    BY <2>1, <2>2 DEF Pending
  <2>3. AtHandInv' BY <1>2, <2>1 DEF AtHandInv
  <2> QED BY <1>1, <1>2, <1>3, <1>8, <2>1, <2>2, <2>3 DEF SettledInv
<1>13. CASE MarkProcessed
  <2>1. /\ pm = "mark" /\ UNCHANGED <<used, unclean, version>>
        /\ \/ pm' = "next" /\ batch' = [batch EXCEPT ![version] = 0]
           \/ pm' = "mark_failed" /\ UNCHANGED batch
    BY <1>13 DEF MarkProcessed, Goto
  <2>2. version \notin unclean =>
            FullRows(version) /\ metrics[version] = 3 /\ version \in Range(created)
    <3>1. version \in Range(created) BY <1>1, <2>1 DEF UsedInv
    <3>2. version \notin unclean => FullRows(version) /\ metrics[version] = 3
      BY <1>1, <2>1 DEF AtHandInv
    <3> QED BY <3>1, <3>2
  <2>3. ASSUME NEW s \in Schedules \ unclean, Pending(s) PROVE Pending(s)' \/ Whole(s)'
    <3>1. CASE s = version BY <1>2, <1>3, <2>2, <3>1 DEF Whole
    <3>2. CASE s # version
      <4>1. batch'[s] = batch[s] BY <1>4, <2>1, <3>2
      <4> QED BY <2>1, <2>3, <4>1 DEF Pending
    <3> QED BY <3>1, <3>2
  <2>4. AtHandInv' BY <1>3, <2>1, <2>2 DEF AtHandInv
  <2> QED BY <1>1, <1>3, <1>8, <2>1, <2>3, <2>4 DEF SettledInv
<1>14. CASE MarkFailed
  <2>1. /\ pm = "mark_failed" /\ UNCHANGED <<used, unclean, version>>
        /\ version \in Schedules
        /\ \/ /\ pm' = "wait" /\ failed' = failed \cup {version}
              /\ marked' = [marked EXCEPT ![version] = @ + batch[version]]
           \/ pm' = "idle" /\ UNCHANGED marked
    BY <1>1, <1>14 DEF MarkFailed, MarkRows, Goto, RoundInv, Busy
  <2>2. version \notin unclean /\ version \in Range(created) => FullRows(version)
    BY <1>1, <2>1 DEF AtHandInv
  <2>3. ASSUME NEW s \in Schedules \ unclean, Pending(s), s \in Range(created)
        PROVE  Pending(s)' \/ Whole(s)'
    <3>1. logged[s] > marked[s] BY <1>5, <2>1, <2>3 DEF Pending
    <3>2. CASE s = version /\ pm' = "wait"
      BY <1>2, <1>3, <2>1, <2>2, <2>3, <3>2 DEF Whole
    <3>3. CASE s # version \/ pm' # "wait"
      <4>1. marked'[s] = marked[s] BY <1>4, <2>1, <3>3
      <4> QED BY <1>2, <2>1, <3>1, <4>1 DEF Pending
    <3> QED BY <3>2, <3>3
  <2> QED BY <1>1, <1>3, <1>8, <1>9, <2>1, <2>3 DEF SettledInv
<1>15. CASE ProcessEvents
  <2>1. pm = "events" /\ pm' = "idle" /\ UNCHANGED unclean
    BY <1>15 DEF ProcessEvents, Goto
  <2>2. \A s \in Schedules : ~Pending(s)
    BY <1>1, <2>1 DEF RoundInv, Pending
  <2>3. \A s \in Schedules \ unclean :
           s \in Range(created) => Whole(s)'
    BY <1>1, <1>3, <2>2 DEF SettledInv
  <2>4. Range(used') \subseteq Range(created) \cup {None}
    <3>1. \A d \in Dates : VersionFor(d) \in Range(created) \cup {None}
      BY <1>1, VersionIsLoaded DEF TypeOK
    <3>2. PICK D \in SUBSET Dates :
             used' = [d \in Dates |-> IF d \in D THEN VersionFor(d) ELSE used[d]]
      BY <1>15 DEF ProcessEvents
    <3>3. \A d \in Dates : used[d] \in Range(created) \cup {None}
      BY <1>1 DEF UsedInv, TypeOK, Range
    <3>4. \A d \in Dates : used'[d] \in Range(created) \cup {None}
      BY <3>1, <3>2, <3>3
    <3>5. DOMAIN used' = Dates BY <3>2
    <3> QED BY <3>4, <3>5 DEF Range
  <2>5. \A s \in Schedules : s \in Range(used') => s \in Range(created)
    BY <2>4, SchedulesAreNumbers
  <2> QED BY <1>1, <1>9, <2>1, <2>3, <2>4, <2>5 DEF SettledInv
<1>16. CASE Intervene
  <2>1. /\ pm = "wait" /\ pm' = "idle"
        /\ UNCHANGED <<marked, batch, used, unclean>>
    BY <1>16 DEF Intervene, Goto
  <2>2. ASSUME NEW s \in Schedules, Pending(s) PROVE Pending(s)'
    BY <1>2, <2>1, <2>2 DEF Pending
  <2> QED BY <1>1, <1>3, <1>8, <1>9, <2>1, <2>2 DEF SettledInv
<1>17. CASE ManagerCrash
  <2>1. /\ pm \notin {"idle", "wait"} /\ pm' = "idle"
        /\ UNCHANGED <<marked, used>>
        /\ pm = "clean" => version \in unclean'
    BY <1>17 DEF ManagerCrash, Goto
  <2>2. ASSUME NEW s \in Schedules, Pending(s) PROVE Pending(s)'
    <3>1. logged[s] > marked[s] BY <1>5, <2>1, <2>2 DEF Pending
    <3> QED BY <1>2, <2>1, <3>1 DEF Pending
  <2> QED BY <1>1, <1>2, <1>3, <1>8, <1>9, <2>1, <2>2 DEF SettledInv
<1> QED
  BY <1>10, <1>11, <1>12, <1>13, <1>14, <1>15, <1>16, <1>17

\* The tables at each place of LoadOrder.
LEMMA TablesByPlace ==
    /\ \A k \in 1 .. 4 : LoadOrder[k] \in Tables
    /\ \A t \in Tables : \E k \in 1 .. 4 : LoadOrder[k] = t
    /\ \A k, l \in 1 .. 4 : LoadOrder[k] = LoadOrder[l] => k = l
    /\ \A k \in 1 .. 4 :
          /\ (LoadOrder[k] = "FEED_INFO") <=> (k = 1)
          /\ (LoadOrder[k] = "STOP_TIMES") <=> (k = 2)
          /\ (LoadOrder[k] = "TRIPS") <=> (k = 3)
<1>1. \A k \in 1 .. 4 : k = 1 \/ k = 2 \/ k = 3 \/ k = 4 OBVIOUS
<1>2. 1 \in 1 .. 4 /\ 2 \in 1 .. 4 /\ 3 \in 1 .. 4 /\ 4 \in 1 .. 4 OBVIOUS
<1>3. \A k \in 1 .. 4 : LoadOrder[k] \in Tables BY <1>1, LoadOrderFacts
<1>4. \A t \in Tables : \E k \in 1 .. 4 : LoadOrder[k] = t
  BY <1>2, LoadOrderFacts
<1>5. ASSUME NEW k \in 1 .. 4
      PROVE  /\ (LoadOrder[k] = "FEED_INFO") <=> (k = 1)
             /\ (LoadOrder[k] = "STOP_TIMES") <=> (k = 2)
             /\ (LoadOrder[k] = "TRIPS") <=> (k = 3)
             /\ (LoadOrder[k] = "CALENDAR_DATES") <=> (k = 4)
  <2>1. CASE k = 1 BY <2>1, LoadOrderFacts
  <2>2. CASE k = 2 BY <2>2, LoadOrderFacts
  <2>3. CASE k = 3 BY <2>3, LoadOrderFacts
  <2>4. CASE k = 4 BY <2>4, LoadOrderFacts
  <2> QED BY <2>1, <2>2, <2>3, <2>4
<1>6. ASSUME NEW k \in 1 .. 4, NEW l \in 1 .. 4, LoadOrder[k] = LoadOrder[l]
      PROVE  k = l
  <2>1. CASE k = 1 BY <1>5, <1>6, <2>1
  <2>2. CASE k = 2 BY <1>5, <1>6, <2>2
  <2>3. CASE k = 3 BY <1>5, <1>6, <2>3
  <2>4. CASE k = 4 BY <1>5, <1>6, <2>4
  <2> QED BY <2>1, <2>2, <2>3, <2>4
<1>7. \A k, l \in 1 .. 4 : LoadOrder[k] = LoadOrder[l] => k = l BY <1>6
<1>8. \A k \in 1 .. 4 :
          /\ (LoadOrder[k] = "FEED_INFO") <=> (k = 1)
          /\ (LoadOrder[k] = "STOP_TIMES") <=> (k = 2)
          /\ (LoadOrder[k] = "TRIPS") <=> (k = 3)
  BY <1>5
<1> QED BY <1>3, <1>4, <1>7, <1>8

\* The version at hand, and all tables of it that have rows are written.
LEMMA VersionAtHand ==
    ASSUME TypeInv, SpringboardInv, pm \in Busy
    PROVE  /\ version \in Schedules /\ version # None
           /\ batch[version] > 0
           /\ objects[version] = Tables \ Empty[version]
<1>1. version \in Schedules /\ batch[version] > 0 BY DEF TypeInv, RoundInv
<1>2. logged[version] > 0
  <2>1. /\ logged[version] \in Nat /\ marked[version] \in Nat
        /\ batch[version] > 0 => logged[version] > marked[version]
    BY <1>1, PendingFacts
  <2> QED BY <1>1, <2>1
<1>3. feedInfos[version] > 0 BY <1>1, <1>2, AnnouncedIsWritten
<1>4. objects[version] = Tables \ Empty[version]
  BY <1>1, <1>3 DEF SpringboardInv
<1> QED BY <1>1, <1>4, SchedulesAreNumbers

\* What a step of the load or of the clean-up does to the other versions.
LEMMA OthersStay ==
    ASSUME TypeInv, SettledInv, pm \in {"insert", "clean", "modify"},
           pm' \in Busy, UNCHANGED <<version, batch, used, failed>>,
           unclean \subseteq unclean',
           \A s \in Schedules \ {version} :
              /\ \A t \in Tables : rows'[t][s] = rows[t][s]
              /\ s \in Range(created') <=> s \in Range(created)
              /\ s \in branched' <=> s \in branched
              /\ metrics'[s] = metrics[s],
           version \notin unclean' =>
              /\ version \notin Range(created')
                    => NoRows(version)' \/ pm' = "clean"
              /\ version \in Range(used) => Whole(version)'
    PROVE  SettledInv'
<1> SUFFICES ASSUME NEW s \in Schedules \ unclean'
             PROVE  /\ s \in Range(created') => Pending(s)' \/ Whole(s)'
                    /\ s \notin Range(created')
                         => NoRows(s)' \/ (pm' = "clean" /\ s = version')
                    /\ s \in Range(used') => Whole(s)'
  BY DEF SettledInv
<1>1. pm \notin {"idle", "wait"} /\ pm' \notin {"idle", "wait"} BY DEF Busy
<1>2. CASE s = version
  <2>1. batch[version] > 0 BY DEF TypeInv, RoundInv, Busy
  <2>2. Pending(s)' BY <1>1, <1>2, <2>1 DEF Pending
  <2> QED BY <1>2, <2>2
<1>3. CASE s # version
  <2>1. (NoRows(s)' <=> NoRows(s)) /\ (Whole(s) => Whole(s)')
    BY <1>3, SameRows
  <2>2. Pending(s) => Pending(s)' BY <1>1 DEF Pending
  <2> QED BY <1>3, <2>1, <2>2 DEF SettledInv
<1> QED BY <1>2, <1>3

LEMMA WholeModify ==
    ASSUME TypeInv, SpringboardInv, WholeInv, Modify
    PROVE  WholeInv'
<1>1. TypeOK /\ RoundInv /\ UsedInv /\ SettledInv /\ AtHandInv
  BY DEF TypeInv, WholeInv
<1>2. /\ pm = "modify" /\ i \in 1 .. 3 /\ version \in Schedules
      /\ version \in Range(created) /\ version \notin Range(used)
      /\ version \notin unclean => FullRows(version)
  BY <1>1 DEF Modify, RoundInv, UsedInv, AtHandInv, Busy
<1>3. /\ \/ pm' = "modify" /\ i < 3 /\ i' = i + 1
            /\ metrics' = [metrics EXCEPT ![version] = i]
         \/ pm' = "mark" /\ ~(i < 3) /\ i' = 1
            /\ metrics' = [metrics EXCEPT ![version] = i]
         \/ pm' = "mark_failed" /\ UNCHANGED metrics /\ i' = 1
      /\ UNCHANGED <<version, batch, rows, created, branched, used, failed,
                     unclean, logged, marked>>
  BY DEF Modify, Goto, ingest
<1>4. metrics \in [Schedules -> 0 .. 3] BY <1>1 DEF TypeOK
<1>5. UsedInv' BY <1>1, <1>2, <1>3 DEF UsedInv
<1>6. SettledInv'
  <2>1. \A s \in Schedules \ {version} : metrics'[s] = metrics[s]
    BY <1>3, <1>4
  <2>2. pm' \in Busy BY <1>3 DEF Busy
  <2> QED BY <1>1, <1>2, <1>3, <2>1, <2>2, OthersStay
<1>7. AtHandInv'
  <2>1. FullRows(version)' <=> FullRows(version)
    BY <1>3 DEF FullRows, Copies
  <2>2. CASE pm' = "modify"
    <3>1. metrics'[version] = i /\ i' = i + 1 BY <1>2, <1>3, <1>4, <2>2
    <3>2. metrics'[version] = i' - 1 BY <1>2, <3>1
    <3> QED BY <1>2, <1>3, <2>1, <2>2, <3>2 DEF AtHandInv
  <2>3. CASE pm' = "mark"
    <3>1. metrics'[version] = 3 BY <1>2, <1>3, <1>4, <2>3
    <3> QED BY <1>2, <1>3, <2>1, <2>3, <3>1 DEF AtHandInv
  <2>4. CASE pm' = "mark_failed"
    BY <1>2, <1>3, <2>1, <2>4 DEF AtHandInv
  <2> QED BY <1>3, <2>2, <2>3, <2>4
<1> QED BY <1>5, <1>6, <1>7 DEF WholeInv

LEMMA WholeInsert ==
    ASSUME TypeInv, SpringboardInv, WholeInv, InsertTable
    PROVE  WholeInv'
<1> DEFINE t == LoadOrder[i]
           v == version
<1>1. TypeOK /\ UsedInv /\ SettledInv /\ AtHandInv
  BY DEF TypeInv, WholeInv
<1>2. pm = "insert" /\ pm \in Busy BY DEF InsertTable, Busy
<1>3. /\ v \in Schedules /\ v # None
      /\ objects[v] = Tables \ Empty[v]
  BY <1>2, VersionAtHand
<1>4. /\ i \in 1 .. 4 /\ t \in Tables
      /\ (t = "FEED_INFO") <=> (i = 1)
      /\ (t = "TRIPS") <=> (i = 3)
      /\ t \in objects[v] <=> t \notin Empty[v]
      /\ i = 1 => t \in objects[v]
  <2>1. i \in 1 .. 4 /\ Len(LoadOrder) = 4 BY <1>1, LoadOrderFacts DEF TypeOK
  <2>2. t \in Tables BY <2>1, TablesByPlace
  <2>3. (t = "FEED_INFO") <=> (i = 1) BY <2>1, TablesByPlace
  <2>4. (t = "TRIPS") <=> (i = 3) BY <2>1, TablesByPlace
  <2>5. t \in objects[v] <=> t \notin Empty[v] BY <1>3, <2>2
  <2>6. "FEED_INFO" \notin Empty[v] BY <1>3, LoadOrderFacts
  <2> QED BY <2>1, <2>2, <2>3, <2>4, <2>5, <2>6
<1>5. /\ rows \in [Tables -> [Schedules -> Nat]]
      /\ created \in Seq(Schedules)
  BY <1>1 DEF TypeOK
<1>6. UNCHANGED <<batch, version, metrics, used, failed, unclean>>
  BY DEF InsertTable
\* The three outcomes of an insert.
<1>7. \/ /\ t \notin objects[v] /\ AfterInsert
         /\ UNCHANGED <<rows, created, branched>>
      \/ /\ t \in objects[v] /\ ~Rejected(t) /\ AddRows(t)
         /\ AfterInsert \/ (pm' = "clean" /\ i' = 1)
      \/ /\ pm' = "clean" /\ i' = 1 /\ UNCHANGED <<rows, created, branched>>
  BY DEF InsertTable, Goto
<1>8. AfterInsert => \/ i < 4 /\ i' = i + 1 /\ pm' = "insert"
                     \/ i = 4 /\ i' = 1 /\ pm' = "modify"
  BY <1>2, <1>4, LoadOrderFacts DEF AfterInsert, Goto
<1> HIDE DEF t, v
<1>9. Rejected(t) <=> i = 1 /\ v \in Range(created)
  BY <1>4 DEF Rejected, v
<1>10. AddRows(t) =>
          /\ \A u \in Tables, s \in Schedules : rows'[u][s]
                = IF u = t /\ s = v THEN rows[u][s] + 1 ELSE rows[u][s]
          /\ i = 1 => Range(created') = Range(created) \cup {v}
          /\ i # 1 => created' = created
          /\ branched' = IF i = 3 /\ rows["STOP_TIMES"][v] > 0
                         THEN branched \cup {v} ELSE branched
  <2> SUFFICES ASSUME AddRows(t)
               PROVE  /\ \A u \in Tables, s \in Schedules : rows'[u][s]
                            = IF u = t /\ s = v THEN rows[u][s] + 1 ELSE rows[u][s]
                      /\ i = 1 => Range(created') = Range(created) \cup {v}
                      /\ i # 1 => created' = created
                      /\ branched' = IF i = 3 /\ rows["STOP_TIMES"][v] > 0
                                     THEN branched \cup {v} ELSE branched
    OBVIOUS
  <2>1. rows' = [rows EXCEPT ![t][v] = @ + 1] BY DEF AddRows, v
  <2>2. rows[t][v] + 1 \in Nat BY <1>3, <1>4, <1>5
  <2>3. rows' = [rows EXCEPT ![t][v] = rows[t][v] + 1]
    BY <1>3, <1>4, <1>5, <2>1
  <2>4. \A u \in Tables, s \in Schedules : rows'[u][s]
           = IF u = t /\ s = v THEN rows[t][v] + 1 ELSE rows[u][s]
    BY <1>3, <1>4, <1>5, <2>2, <2>3, RowsTyped
  <2>5. created' = IF i = 1 THEN Append(created, v) ELSE created
    BY <1>4 DEF AddRows, v
  <2>6. i = 1 => Range(created') = Range(created) \cup {v}
    BY <1>3, <1>5, <2>5, AppendFacts
  <2>7. branched' = IF i = 3 /\ rows["STOP_TIMES"][v] > 0
                    THEN branched \cup {v} ELSE branched
    BY <1>4 DEF AddRows, v
  <2> QED BY <2>4, <2>5, <2>6, <2>7
\* Only the version at hand changes.
<1>11. /\ Range(created) \subseteq Range(created')
       /\ Range(created') \subseteq Range(created) \cup {v}
       /\ \A s \in Schedules \ {v} :
             /\ \A u \in Tables : rows'[u][s] = rows[u][s]
             /\ s \in branched' <=> s \in branched
  <2>1. CASE UNCHANGED <<rows, created, branched>> BY <2>1
  <2>2. CASE AddRows(t) BY <1>10, <2>2
  <2> QED BY <1>7, <2>1, <2>2
\* No trip has the version while it is loaded.
<1>12. pm' # "clean" => v \in Range(created') /\ v \notin Range(used)
  <2> SUFFICES ASSUME pm' # "clean"
               PROVE  v \in Range(created') /\ v \notin Range(used)
    OBVIOUS
  <2>1. CASE i = 1
    <3>1. ~Rejected(t) /\ AddRows(t) BY <1>4, <1>7, <2>1
    <3>2. v \notin Range(created) BY <1>9, <2>1, <3>1
    <3>3. v \in Range(created') BY <1>10, <2>1, <3>1
    <3> QED BY <1>1, <1>3, <3>2, <3>3 DEF UsedInv
  <2>2. CASE i # 1
    <3>1. i > 1 BY <1>4, <2>2
    <3> QED BY <1>1, <1>2, <1>11, <3>1 DEF UsedInv, v
  <2> QED BY <2>1, <2>2
<1>13. UsedInv'
  <2>1. pm' = "clean" => i' = 1 BY <1>2, <1>7, <1>8
  <2> QED BY <1>1, <1>6, <1>11, <1>12, <2>1 DEF UsedInv, v
<1>14. SettledInv'
  <2>1. v \in Range(used) => UNCHANGED <<rows, created, branched>>
    <3> SUFFICES ASSUME v \in Range(used) PROVE UNCHANGED <<rows, created, branched>>
      OBVIOUS
    <3>1. v \in Range(created) BY <1>1, <1>3 DEF UsedInv
    <3>2. ~(i > 1) BY <1>1, <1>2 DEF UsedInv, v
    <3>3. i = 1 BY <1>4, <3>2
    <3> QED BY <1>4, <1>7, <1>9, <3>1, <3>3
  <2>2. v \notin unclean /\ v \in Range(used) => Whole(v)'
    <3> SUFFICES ASSUME v \notin unclean, v \in Range(used) PROVE Whole(v)'
      OBVIOUS
    <3>1. Whole(v) BY <1>1, <1>3 DEF SettledInv
    <3>2. /\ rows' = rows /\ created' = created /\ branched' = branched
          /\ metrics' = metrics /\ failed' = failed
      BY <1>6, <2>1
    <3>3. v' = v BY <1>6 DEF v
    <3> QED BY <3>1, <3>2, <3>3 DEF Whole, FullRows, Copies
  <2>3. pm' \in Busy BY <1>7, <1>8 DEF Busy
  <2>4. \A s \in Schedules \ {v} :
           s \in Range(created') <=> s \in Range(created)
    BY <1>11
  <2> QED
    BY <1>1, <1>2, <1>6, <1>11, <1>12, <2>2, <2>3, <2>4, OthersStay
       DEF v, TypeInv
<1>15. AtHandInv'
  <2> SUFFICES ASSUME v \notin unclean PROVE AtHandInv'
    BY <1>6 DEF AtHandInv, v
  <2>1. CASE pm' = "clean"
    <3>1. i' = 1 BY <1>2, <1>7, <1>8, <2>1
    <3>2. \A k \in 1 .. i' - 1 : FALSE BY <3>1
    <3> QED BY <2>1, <3>2 DEF AtHandInv
  <2>2. CASE pm' # "clean"
    <3>1. AfterInsert /\ (AddRows(t) \/ UNCHANGED <<rows, created, branched>>)
          /\ (t \in objects[v] => AddRows(t) /\ ~Rejected(t))
      BY <1>7, <2>2
    \* Before the step the tables up to this one are loaded, ...
    <3>2. \A k \in 1 .. 4 : rows[LoadOrder[k]][v]
             = IF k < i THEN Copies(LoadOrder[k], v) ELSE 0
      <4>1. CASE i = 1
        <5>1. v \notin Range(created) BY <1>4, <1>9, <3>1, <4>1
        <5>2. NoRows(v) BY <1>1, <1>2, <1>3, <5>1 DEF SettledInv
        <5>3. \A k \in 1 .. 4 : ~(k < i) BY <4>1
        <5> QED BY <5>2, <5>3, TablesByPlace DEF NoRows
      <4>2. CASE i > 1 BY <1>1, <1>2, <4>2 DEF AtHandInv, v
      <4> QED BY <1>4, <4>1, <4>2
    \* ... after it this one is, too.
    <3>3. \A k \in 1 .. 4 : rows'[LoadOrder[k]][v]
             = IF k < i + 1 THEN Copies(LoadOrder[k], v) ELSE 0
      <4> SUFFICES ASSUME NEW k \in 1 .. 4
                   PROVE  rows'[LoadOrder[k]][v]
                             = IF k < i + 1 THEN Copies(LoadOrder[k], v) ELSE 0
        OBVIOUS
      <4>1. LoadOrder[k] \in Tables BY TablesByPlace
      <4>2. CASE k # i
        <5>1. LoadOrder[k] # t BY <1>4, <4>2, TablesByPlace DEF t
        <5>2. rows'[LoadOrder[k]][v] = rows[LoadOrder[k]][v]
          BY <1>3, <1>10, <3>1, <4>1, <5>1
        <5>3. k < i + 1 <=> k < i BY <1>4, <4>2
        <5> QED BY <3>2, <5>2, <5>3
      <4>3. CASE k = i
        <5>1. LoadOrder[k] = t /\ rows[t][v] = 0 BY <3>2, <4>3 DEF t
        <5>2. CASE t \in objects[v]
          <6>1. rows'[t][v] = 1 BY <1>3, <1>4, <1>10, <3>1, <5>1, <5>2
          <6>2. Copies(t, v) = 1 BY <1>4, <5>2 DEF Copies
          <6> QED BY <1>4, <4>3, <5>1, <6>1, <6>2
        <5>3. CASE t \notin objects[v]
          <6>1. UNCHANGED rows BY <1>7, <2>2, <5>3
          <6>2. Copies(t, v) = 0 BY <1>4, <5>3 DEF Copies
          <6> QED BY <1>4, <4>3, <5>1, <6>1, <6>2
        <5> QED BY <5>2, <5>3
      <4> QED BY <4>2, <4>3
    \* The trigger of the trips finds the stop times.
    <3>4. i >= 3 => v \in branched'
      <4> SUFFICES ASSUME i >= 3 PROVE v \in branched'
        OBVIOUS
      <4>1. CASE i = 3
        <5>1. rows["STOP_TIMES"][v] = Copies("STOP_TIMES", v)
          <6>1. 2 \in 1 .. 4 /\ LoadOrder[2] = "STOP_TIMES" /\ 2 < i
            BY <4>1, LoadOrderFacts
          <6> QED BY <3>2, <6>1
        <5>2. "STOP_TIMES" \notin Empty[v] /\ "TRIPS" \notin Empty[v]
          BY <1>3, LoadOrderFacts
        <5>3. rows["STOP_TIMES"][v] > 0 BY <5>1, <5>2 DEF Copies
        <5>4. AddRows(t)
          BY <1>4, <3>1, <4>1, <5>2
        <5> QED BY <1>10, <4>1, <5>3, <5>4
      <4>2. CASE i = 4
        <5>1. v \in branched BY <1>1, <1>2, <4>2 DEF AtHandInv, v
        <5> QED BY <1>10, <3>1, <5>1
      <4> QED BY <1>4, <4>1, <4>2
    <3>5. CASE i < 4 /\ i' = i + 1 /\ pm' = "insert"
      <4>1. i' > 3 => i >= 3 BY <1>4, <3>5
      <4> QED BY <1>6, <3>3, <3>4, <3>5, <4>1 DEF AtHandInv, v, Copies
    <3>6. CASE i = 4 /\ i' = 1 /\ pm' = "modify"
      <4>1. \A u \in Tables : rows'[u][v] = Copies(u, v)
        <5> SUFFICES ASSUME NEW k \in 1 .. 4
                     PROVE  rows'[LoadOrder[k]][v] = Copies(LoadOrder[k], v)
          BY TablesByPlace
        <5>1. k < i + 1 BY <3>6
        <5> QED BY <3>3, <5>1
      <4>2. FullRows(v)' BY <1>4, <3>4, <3>6, <4>1, <1>6 DEF FullRows, Copies, v
      <4> QED BY <1>6, <3>6, <4>2 DEF AtHandInv, v
    <3> QED BY <1>8, <3>1, <3>5, <3>6
  <2> QED BY <2>1, <2>2
<1> QED BY <1>13, <1>14, <1>15 DEF WholeInv

LEMMA WholeClean ==
    ASSUME TypeInv, SpringboardInv, WholeInv, CleanTable
    PROVE  WholeInv'
<1> DEFINE t == LoadOrder[i]
           v == version
<1>1. TypeOK /\ UsedInv /\ SettledInv /\ AtHandInv
  BY DEF TypeInv, WholeInv
<1>2. pm = "clean" /\ pm \in Busy BY DEF CleanTable, Busy
<1>3. v \in Schedules /\ v # None BY <1>2, VersionAtHand
<1>4. /\ i \in 1 .. 4 /\ t \in Tables
      /\ (t = "FEED_INFO") <=> (i = 1)
  <2>1. i \in 1 .. 4 BY <1>1, LoadOrderFacts DEF TypeOK
  <2> QED BY <2>1, TablesByPlace
<1>5. /\ rows \in [Tables -> [Schedules -> Nat]]
      /\ created \in Seq(Schedules) /\ IsInjective(created)
      /\ metrics \in [Schedules -> 0 .. 3]
  BY <1>1 DEF TypeOK
<1>6. /\ UNCHANGED <<batch, version, used, failed>> /\ unclean \subseteq unclean'
      /\ v' = v
  BY DEF CleanTable
\* The table is deleted, or the clean-up breaks off: because trips refer to
\* the version, or by an error.
<1>7. \/ /\ ~Referenced(t) /\ DeleteRows(t)
         /\ \/ i < 4 /\ i' = i + 1 /\ pm' = "clean"
            \/ i = 4 /\ i' = 1 /\ pm' = "mark_failed"
      \/ /\ pm' = "mark_failed" /\ i' = 1
         /\ Referenced(t) \/ v \in unclean'
         /\ UNCHANGED <<rows, created, branched, metrics>>
  BY <1>2, <1>4, LoadOrderFacts DEF CleanTable, Goto
<1> HIDE DEF t, v
<1>8. Referenced(t) <=> (i = 1 /\ v \in Range(used))
  BY <1>4 DEF Referenced, v
<1>9. ASSUME DeleteRows(t)
      PROVE  /\ \A u \in Tables, s \in Schedules :
                   rows'[u][s] = IF u = t /\ s = v THEN 0 ELSE rows[u][s]
             /\ i = 1 => Range(created') = Range(created) \ {v}
             /\ i # 1 => created' = created
             /\ \A s \in Schedules \ {v} :
                    /\ s \in branched' <=> s \in branched
                    /\ metrics'[s] = metrics[s]
  <2>1. rows' = [rows EXCEPT ![t][v] = 0] BY <1>9 DEF DeleteRows, v
  <2>2. \A u \in Tables, s \in Schedules :
           rows'[u][s] = IF u = t /\ s = v THEN 0 ELSE rows[u][s]
    BY <1>3, <1>4, <1>5, <2>1, RowsTyped
  <2>3. created' = IF i = 1 /\ v \in Range(created)
                   THEN Without(created, v) ELSE created
    BY <1>4, <1>9 DEF DeleteRows, v
  <2>4. i = 1 => Range(created') = Range(created) \ {v}
    <3>1. CASE v \in Range(created)
      <4>1. Range(Without(created, v)) = Range(created) \ {v}
        BY <1>5, <3>1, WithoutFacts
      <4> QED BY <2>3, <3>1, <4>1
    <3>2. CASE v \notin Range(created) BY <2>3, <3>2
    <3> QED BY <3>1, <3>2
  <2>5. \A s \in Schedules \ {v} : /\ s \in branched' <=> s \in branched
                                  /\ metrics'[s] = metrics[s]
    <3>1. /\ branched' = branched \ {v} \/ branched' = branched
          /\ metrics' = [metrics EXCEPT ![v] = 0] \/ metrics' = metrics
      BY <1>9 DEF DeleteRows, v
    <3> QED BY <1>5, <3>1
  <2> QED BY <2>2, <2>3, <2>4, <2>5
\* Only the version at hand changes, and it leaves only without trips.
<1>10. /\ \A s \in Schedules \ {v} :
             /\ \A u \in Tables : rows'[u][s] = rows[u][s]
             /\ s \in Range(created') <=> s \in Range(created)
             /\ s \in branched' <=> s \in branched
             /\ metrics'[s] = metrics[s]
       /\ Range(created') \subseteq Range(created)
       /\ Range(created) \ {v} \subseteq Range(created')
  <2>1. CASE UNCHANGED <<rows, created, branched, metrics>> BY <2>1
  <2>2. CASE DeleteRows(t)
    <3>1. CASE i = 1 BY <1>9, <2>2, <3>1
    <3>2. CASE i # 1 BY <1>9, <2>2, <3>2
    <3> QED BY <3>1, <3>2
  <2> QED BY <1>7, <2>1, <2>2
<1>11. ASSUME v \in Range(used)
       PROVE  /\ i = 1 /\ pm' = "mark_failed"
              /\ UNCHANGED <<rows, created, branched, metrics>>
  <2>1. v \in Range(created) BY <1>1, <1>3, <1>11 DEF UsedInv
  <2>2. ~(i > 1) BY <1>1, <1>2, <2>1 DEF UsedInv, v
  <2>3. i = 1 BY <1>4, <2>2
  <2> QED BY <1>7, <1>8, <1>11, <2>3
<1>12. (i > 1 \/ DeleteRows(t)) => v \notin Range(created')
  <2>1. CASE i > 1
    <3>1. v \notin Range(created) BY <1>1, <1>2, <2>1 DEF UsedInv, v
    <3> QED BY <1>10, <3>1
  <2>2. CASE i = 1 /\ DeleteRows(t) BY <1>9, <2>2
  <2> QED BY <1>4, <2>1, <2>2
<1>13. UsedInv'
  <2>1. Range(used) \subseteq Range(created') \cup {None}
    BY <1>1, <1>10, <1>11 DEF UsedInv
  <2>2. pm' = "clean" => v \notin Range(created')
    BY <1>7, <1>12
  <2>3. pm' \in {"clean", "mark_failed"} BY <1>7
  <2> QED BY <1>6, <2>1, <2>2, <2>3 DEF UsedInv, v
\* A complete clean-up leaves no row of the version.
<1>14. ASSUME v \notin unclean, DeleteRows(t)
       PROVE  \A k \in 1 .. i : rows'[LoadOrder[k]][v] = 0
  <2> SUFFICES ASSUME NEW k \in 1 .. i PROVE rows'[LoadOrder[k]][v] = 0
    OBVIOUS
  <2>1. k \in 1 .. 4 /\ LoadOrder[k] \in Tables BY <1>4, TablesByPlace
  <2>2. CASE k = i BY <1>3, <1>9, <1>14, <2>1, <2>2 DEF t
  <2>3. CASE k # i
    <3>1. k \in 1 .. i - 1 BY <1>4, <2>3
    <3>2. rows[LoadOrder[k]][v] = 0 BY <1>1, <1>2, <1>14, <3>1 DEF AtHandInv, v
    <3> QED BY <1>3, <1>9, <1>14, <2>1, <3>2
  <2> QED BY <2>2, <2>3
<1>15. SettledInv'
  <2>1. v \notin unclean' /\ v \notin Range(created')
           => NoRows(v)' \/ pm' = "clean"
    <3> SUFFICES ASSUME v \notin unclean', v \notin Range(created'), pm' # "clean"
                 PROVE  NoRows(v)'
      OBVIOUS
    <3>1. CASE DeleteRows(t)
      <4>1. i = 4 \/ Referenced(t) BY <1>7
      <4>2. i = 4
        <5>1. ~Referenced(t)
          <6>1. v \in Range(used) => FALSE
            <7>1. v \in Range(used) => v \in Range(created') BY <1>3, <1>13, <1>6 DEF UsedInv
            <7> QED BY <7>1
          <6> QED BY <1>8, <6>1
        <5> QED BY <4>1, <5>1
      <4>3. \A k \in 1 .. 4 : rows'[LoadOrder[k]][v] = 0 BY <1>6, <1>14, <3>1, <4>2
      <4> QED BY <1>6, <4>3, TablesByPlace DEF NoRows
    <3>2. CASE ~DeleteRows(t)
      <4>1. Referenced(t) /\ UNCHANGED created BY <1>7, <3>2
      <4>2. v \in Range(created) BY <1>1, <1>3, <1>8, <4>1 DEF UsedInv
      <4> QED BY <4>1, <4>2
    <3> QED BY <3>1, <3>2
  <2>2. v \notin unclean' /\ v \in Range(used) => Whole(v)'
    <3> SUFFICES ASSUME v \notin unclean', v \in Range(used) PROVE Whole(v)'
      OBVIOUS
    <3>1. Whole(v) BY <1>1, <1>3, <1>6 DEF SettledInv
    <3> QED BY <1>6, <1>11, <3>1 DEF Whole, FullRows, Copies
  <2>3. pm' \in Busy BY <1>7 DEF Busy
  <2> QED
    BY <1>1, <1>2, <1>6, <1>10, <2>1, <2>2, <2>3, OthersStay DEF v, TypeInv
<1>16. AtHandInv'
  <2> SUFFICES ASSUME v \notin unclean' PROVE AtHandInv'
    BY <1>6 DEF AtHandInv, v
  <2>1. CASE pm' = "clean"
    <3>1. i' - 1 = i /\ DeleteRows(t) BY <1>4, <1>7, <2>1
    <3>2. \A k \in 1 .. i' - 1 : rows'[LoadOrder[k]][v] = 0
      BY <1>6, <1>14, <3>1
    <3> QED BY <1>6, <2>1, <3>2 DEF AtHandInv, v
  <2>2. CASE pm' = "mark_failed"
    <3>1. ASSUME v \in Range(created') PROVE FullRows(v)'
      <4>1. ~DeleteRows(t) BY <1>12, <3>1
      <4>2. Referenced(t) BY <1>7, <4>1
      <4>3. v \in Range(used) /\ UNCHANGED <<rows, branched>> BY <1>8, <1>11, <4>2
      <4>4. FullRows(v) BY <1>1, <1>3, <1>6, <4>3 DEF SettledInv, Whole
      <4> QED BY <1>6, <4>3, <4>4 DEF FullRows, Copies
    <3> QED BY <1>6, <2>2, <3>1 DEF AtHandInv, v
  <2> QED BY <1>7, <2>1, <2>2
<1> QED BY <1>13, <1>15, <1>16 DEF WholeInv

\* Types, springboard and database hold together in every state.
LEMMA WholeCorrect == Spec => [](TypeInv /\ SpringboardInv /\ WholeInv)
<1>1. TypeInv /\ SpringboardInv /\ WholeInv /\ [Next]_vars => WholeInv'
  BY WholeIngestion, WholeRound, WholeModify, WholeInsert, WholeClean
     DEF Next, Manager
<1> QED BY <1>1, WholeInit, SpringboardCorrect, PTL DEF Spec

\* Events never meet a version with a table missing, loaded twice, loaded
\* before the table its trigger reads or, unless it is marked as failed,
\* without its computed columns, and no table is left of a version that is
\* gone: whatever fails or is killed, except a clean-up that does not run to
\* its end (process_static_tables, insert_data_tables).
THEOREM EventsMeetWholeVersions == Spec => []VersionsAreWhole
<1>1. TypeInv /\ WholeInv => VersionsAreWhole
  <2> SUFFICES ASSUME TypeInv, WholeInv, pm = "events",
                      NEW s \in Schedules \ unclean
               PROVE  \/ /\ s \in Range(created) /\ s \in branched
                         /\ \A t \in Tables :
                               rows[t][s] = IF t \in Empty[s] THEN 0 ELSE 1
                         /\ s \notin failed => metrics[s] = 3
                      \/ s \notin Range(created) /\ \A t \in Tables : rows[t][s] = 0
    BY DEF VersionsAreWhole
  <2>1. ~Pending(s) BY DEF TypeInv, RoundInv, Pending
  <2>2. CASE s \in Range(created)
    <3>1. Whole(s) BY <2>1, <2>2 DEF WholeInv, SettledInv
    <3> QED BY <3>1 DEF Whole, FullRows, Copies
  <2>3. CASE s \notin Range(created)
    <3>1. NoRows(s) BY <2>3 DEF WholeInv, SettledInv
    <3> QED BY <2>3, <3>1 DEF NoRows
  <2> QED BY <2>2, <2>3
<1> QED BY <1>1, WholeCorrect, PTL

\* A version that trips were given never leaves the database, and one whose
\* load is settled leaves it only when it was announced again: what is
\* deleted has no trips and is in the batch of the round.
THEOREM UsedVersionsAreKept == Spec => UsedVersionStays
<1>1. TypeInv /\ WholeInv /\ [Next]_vars =>
        [\A s \in Range(created) \ Range(created') :
            /\ s \notin Range(used)
            /\ logged[s] > marked[s]]_vars
  <2> SUFFICES ASSUME TypeInv, WholeInv, [Next]_vars,
                      NEW s \in Range(created) \ Range(created')
               PROVE  s \notin Range(used) /\ logged[s] > marked[s]
    OBVIOUS
  <2>1. created \in Seq(Schedules) /\ IsInjective(created)
    BY DEF TypeInv, TypeOK
  <2>2. ASSUME UNCHANGED created PROVE FALSE BY <2>2
  <2>3. ~InsertTable
    <3> SUFFICES ASSUME InsertTable PROVE FALSE
      OBVIOUS
    <3>1. version \in Schedules BY DEF TypeInv, RoundInv, Busy, InsertTable
    <3>2. created' = created \/ created' = Append(created, version)
      BY DEF InsertTable, AddRows
    <3>3. Range(Append(created, version)) = Range(created) \cup {version}
      BY <2>1, <3>1, AppendFacts
    <3> QED BY <3>2, <3>3
  <2>4. CleanTable
    BY <2>2, <2>3
       DEF Next, Ingestion, Manager, Publish, SelectSchedules, CreateTable,
           ScheduleFails, Record, IngestionCrash, ReadPaths, NextPath, Load,
           Modify, MarkProcessed, MarkFailed, ProcessEvents, Intervene,
           ManagerCrash, vars, manager
  <2>5. version \in Schedules /\ batch[version] > 0
    BY <2>4 DEF TypeInv, RoundInv, Busy, CleanTable
  <2>6. /\ ~Referenced("FEED_INFO") /\ version \in Range(created)
        /\ created' = Without(created, version)
    <3>1. created' # created BY <2>2
    <3> QED BY <2>4, <3>1 DEF CleanTable, DeleteRows
  <2>7. s = version BY <2>1, <2>6, WithoutFacts
  <2>8. s \notin Range(used) BY <2>6, <2>7 DEF Referenced
  <2> QED BY <2>5, <2>7, <2>8, PendingFacts
<1> QED BY <1>1, WholeCorrect, PTL DEF Spec, UsedVersionStays
===============================================================================
