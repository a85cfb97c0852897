--------------------------- MODULE CalendarProofs ----------------------------
(***************************************************************************)
(* What holds of the page's calendar and its copy of the schedules for any *)
(* schedules, days and month, and any number of loads under way.           *)
(***************************************************************************)
EXTENDS Calendar, FiniteSetTheorems, WellFoundedInduction, TLAPS

-----------------------------------------------------------------------------
(***************************************************************************)
(* The grid of a month                                                     *)
(***************************************************************************)

\* Whatever the month, a day with a cell has one cell, in the column of its
\* weekday (renderCalendar).
THEOREM GridInPlace ==
    ASSUME NEW firstDay \in Weekdays, NEW lastDate \in Lengths, NEW date \in 1 .. lastDate,
           NEW i \in Cells, Grid(firstDay, lastDate)[i] = date
    PROVE  /\ i % 7 = Weekday(firstDay, date)
           /\ \A j \in Cells : Grid(firstDay, lastDate)[j] = date => j = i
<1>1. i = firstDay + date - 1
  BY DEF Grid, Cells, Weekdays, Lengths, NoDay
<1>2. i % 7 = Weekday(firstDay, date)
  BY <1>1 DEF Weekday
<1>3. \A j \in Cells : Grid(firstDay, lastDate)[j] = date => j = firstDay + date - 1
  BY DEF Grid, Cells, Weekdays, Lengths, NoDay
<1> QED
  BY <1>1, <1>2, <1>3

\* All days of a month have a cell exactly if five weeks are enough: a month
\* of 31 days that begins on a Friday or Saturday, and one of 30 that begins
\* on a Saturday, lose their last days (totalCells is 35).
THEOREM GridComplete ==
    ASSUME NEW firstDay \in Weekdays, NEW lastDate \in Lengths
    PROVE  DaysShown(firstDay, lastDate) = 1 .. lastDate <=> firstDay + lastDate <= 35
<1>1. ASSUME firstDay + lastDate <= 35, NEW date \in 1 .. lastDate
      PROVE  date \in DaysShown(firstDay, lastDate)
  <2>1. firstDay + date - 1 \in Cells
    BY <1>1 DEF Cells, Weekdays, Lengths
  <2>2. Grid(firstDay, lastDate)[firstDay + date - 1] = date
    BY <1>1, <2>1 DEF Grid, Weekdays, Lengths
  <2> QED
    BY <2>1, <2>2 DEF DaysShown
<1>2. ASSUME firstDay + lastDate > 35
      PROVE  lastDate \notin DaysShown(firstDay, lastDate)
  <2>1. ASSUME NEW i \in Cells, Grid(firstDay, lastDate)[i] = lastDate
        PROVE  FALSE
    BY <1>2, <2>1 DEF Grid, Cells, Weekdays, Lengths, NoDay
  <2> QED
    BY <2>1 DEF DaysShown
<1>3. lastDate \in 1 .. lastDate
  BY DEF Lengths
<1>4. DaysShown(firstDay, lastDate) \subseteq 1 .. lastDate
  BY DEF DaysShown
<1>5. CASE firstDay + lastDate <= 35
  <2>1. 1 .. lastDate \subseteq DaysShown(firstDay, lastDate)
    BY <1>1, <1>5
  <2> QED
    BY <1>4, <1>5, <2>1
<1>6. CASE firstDay + lastDate > 35
  <2>1. ~(firstDay + lastDate <= 35)
    BY <1>6 DEF Weekdays, Lengths
  <2> QED
    BY <1>2, <1>3, <1>6, <2>1
<1>7. firstDay + lastDate <= 35 \/ firstDay + lastDate > 35
  BY DEF Weekdays, Lengths
<1> QED
  BY <1>5, <1>6, <1>7

-----------------------------------------------------------------------------
(***************************************************************************)
(* The schedules of a day                                                  *)
(***************************************************************************)

\* What holds of 0 and goes from each number to the next holds up to any number.
LEMMA UpTo ==
    ASSUME NEW N \in Nat, NEW T \in SUBSET Nat,
           0 \in T, \A n \in 1 .. N : n - 1 \in T => n \in T
    PROVE  0 .. N \subseteq T
<1> DEFINE R == StrictSubsetOrdering(Nat)
           S == FiniteSubsetsOf(Nat)
           U == {1 .. n : n \in (0 .. N) \ T}
<1> SUFFICES ASSUME NEW bad \in 0 .. N, bad \notin T PROVE FALSE
  OBVIOUS
<1>1. IsWellFoundedOn(R, S)
  BY FS_StrictSubsetOrderingWellFounded
<1>2. U \subseteq S /\ U # {}
  <2>1. ASSUME NEW n \in 0 .. N PROVE 1 .. n \in S
    <3>1. IsFiniteSet(1 .. n) /\ 1 .. n \in SUBSET Nat
      BY FS_Interval
    <3> QED
      BY <3>1 DEF FiniteSubsetsOf
  <2> HIDE DEF S
  <2> QED
    BY <2>1
<1>3. \E x \in U : \A y \in U : ~(<<y, x>> \in R)
  <2> HIDE DEF R, S, U
  <2> QED
    BY <1>1, <1>2, WFMin
<1>4. PICK n \in (0 .. N) \ T : \A m \in (0 .. N) \ T : ~(<<1 .. m, 1 .. n>> \in R)
  BY <1>3
<1>5. n \in 1 .. N /\ n - 1 \in (0 .. N) \ T
  OBVIOUS
<1> DEFINE a == 1 .. (n - 1)
           b == 1 .. n
<1>6. a \in SUBSET Nat /\ b \in SUBSET Nat /\ a \subseteq b /\ a # b
  <2>1. n \in b /\ n \notin a
    BY <1>5
  <2> QED
    BY <1>5, <2>1
<1> HIDE DEF a, b
<1>7. <<a, b>> \in StrictSubsetOrdering(Nat)
  BY <1>6 DEF StrictSubsetOrdering
<1> QED
  BY <1>4, <1>5, <1>7 DEF a, b

\* What the first m entries of a list contribute to a day.
IsAmong(f, list, d, m) ==
    f = [n \in 0 .. m |->
            IF n = 0 THEN <<>>
            ELSE IF DateOf[list[n]] = d THEN Append(f[n - 1], list[n])
            ELSE f[n - 1]]

LEMMA AmongStep ==
    ASSUME NEW f, NEW list, NEW d, NEW m \in Nat, IsAmong(f, list, d, m), NEW n \in 0 .. m
    PROVE  f[n] = IF n = 0 THEN <<>>
                  ELSE IF DateOf[list[n]] = d THEN Append(f[n - 1], list[n])
                  ELSE f[n - 1]
<1> DEFINE F(k) == IF k = 0 THEN <<>>
                   ELSE IF DateOf[list[k]] = d THEN Append(f[k - 1], list[k])
                   ELSE f[k - 1]
<1>1. f = [k \in 0 .. m |-> F(k)]
  BY Zenon DEF IsAmong
<1> HIDE DEF F
<1>2. f[n] = F(n)
  BY <1>1
<1> QED
  BY <1>2 DEF F

\* The function that OfDay is taken from exists, for any list.
LEMMA AmongExists ==
    ASSUME NEW list \in Lists, NEW d
    PROVE  \E f : IsAmong(f, list, d, Len(list))
<1> DEFINE T == {m \in Nat : m <= Len(list) => \E f : IsAmong(f, list, d, m)}
<1>1. 0 \in T
  <2> DEFINE f == [n \in 0 .. 0 |-> <<>>]
  <2>1. IsAmong(f, list, d, 0)
    BY DEF IsAmong
  <2> HIDE DEF f
  <2> QED
    BY <2>1
<1>2. ASSUME NEW m \in 1 .. Len(list), m - 1 \in T PROVE m \in T
  <2>1. PICK f : IsAmong(f, list, d, m - 1)
    BY <1>2 DEF Lists
  <2> DEFINE g == [n \in 0 .. m |->
                      IF n < m THEN f[n]
                      ELSE IF DateOf[list[n]] = d THEN Append(f[n - 1], list[n])
                      ELSE f[n - 1]]
  <2>2. ASSUME NEW n \in 0 .. m
        PROVE  g[n] = IF n = 0 THEN <<>>
                      ELSE IF DateOf[list[n]] = d THEN Append(g[n - 1], list[n])
                      ELSE g[n - 1]
    <3>1. CASE n = m
      <4>1. g[n - 1] = f[n - 1] /\ n # 0
        BY <3>1
      <4> QED
        BY <3>1, <4>1
    <3>2. CASE n # m
      <4>1. n \in 0 .. (m - 1) /\ g[n] = f[n] /\ (n # 0 => g[n - 1] = f[n - 1])
        BY <3>2
      <4> HIDE DEF g
      <4> QED
        BY <2>1, <4>1 DEF IsAmong
    <3> QED
      BY <3>1, <3>2
  <2>3. g = [n \in 0 .. m |-> g[n]]
    OBVIOUS
  <2> HIDE DEF g
  <2>4. IsAmong(g, list, d, m)
    BY <2>2, <2>3 DEF IsAmong
  <2> QED
    BY <2>4
<1>3. Len(list) \in Nat
  BY DEF Lists
<1>4. 0 .. Len(list) \subseteq T
  <2> HIDE DEF T
  <2>1. T \in SUBSET Nat
    BY DEF T
  <2> QED
    BY <1>1, <1>2, <1>3, <2>1, UpTo
<1> QED
  BY <1>3, <1>4

LEMMA OfDayAmong ==
    ASSUME NEW list \in Lists, NEW d
    PROVE  \E f : IsAmong(f, list, d, Len(list)) /\ OfDay(list, d) = f[Len(list)]
<1> DEFINE Walk(f) == f = [n \in 0 .. Len(list) |->
                          IF n = 0 THEN <<>>
                          ELSE IF DateOf[list[n]] = d THEN Append(f[n - 1], list[n])
                          ELSE f[n - 1]]
           among == CHOOSE f : Walk(f)
<1>1. \E f : Walk(f)
  <2>1. ASSUME NEW f, IsAmong(f, list, d, Len(list)) PROVE Walk(f)
    BY <2>1 DEF IsAmong
  <2> HIDE DEF Walk
  <2> QED
    BY <2>1, AmongExists
<1>2. Walk(among)
  <2> HIDE DEF Walk
  <2> QED
    BY <1>1
<1>3. OfDay(list, d) = among[Len(list)]
  BY Zenon DEF OfDay
<1>4. IsAmong(among, list, d, Len(list))
  <2> HIDE DEF among
  <2> QED
    BY <1>2, Zenon DEF IsAmong
<1> HIDE DEF among, Walk
<1> QED
  BY <1>3, <1>4

\* No more than n of the first n schedules are of a day.
LEMMA AmongShape ==
    ASSUME NEW list \in Lists, NEW d, NEW f, IsAmong(f, list, d, Len(list)),
           NEW n \in 0 .. Len(list)
    PROVE  f[n] \in Lists /\ Len(f[n]) <= n
<1> DEFINE T == {m \in Nat : m <= Len(list) => f[m] \in Lists /\ Len(f[m]) <= m}
<1>1. 0 \in T
  BY DEF IsAmong, Lists
<1>2. ASSUME NEW m \in 1 .. Len(list), m - 1 \in T PROVE m \in T
  <2>1. f[m - 1] \in Lists /\ Len(f[m - 1]) <= m - 1
    BY <1>2 DEF Lists
  <2>2. list[m] \in Entries \union {Demo}
    BY DEF Lists
  <2>3. f[m] = IF DateOf[list[m]] = d THEN Append(f[m - 1], list[m]) ELSE f[m - 1]
    <3>1. m \in 0 .. Len(list) /\ m # 0 /\ Len(list) \in Nat
      BY DEF Lists
    <3> QED
      BY <3>1, AmongStep
  <2>4. f[m] \in Lists /\ Len(f[m]) <= Len(f[m - 1]) + 1 /\ Len(f[m - 1]) \in Nat
    BY <2>1, <2>2, <2>3 DEF Lists
  <2> QED
    BY <2>1, <2>4
<1>3. Len(list) \in Nat
  BY DEF Lists
<1>4. n \in T
  <2> HIDE DEF T
  <2>1. T \in SUBSET Nat
    BY DEF T
  <2> QED
    BY <1>1, <1>2, <1>3, <2>1, UpTo
<1> QED
  BY <1>3, <1>4

LEMMA OfDayShape ==
    ASSUME NEW list \in Lists, NEW d
    PROVE  OfDay(list, d) \in Lists /\ Len(OfDay(list, d)) <= Len(list)
BY OfDayAmong, AmongShape DEF Lists

\* A schedule of another day changes nothing.
LEMMA OfDayAppend ==
    ASSUME NEW list \in Lists, NEW e \in Entries \union {Demo}, NEW d, DateOf[e] # d
    PROVE  OfDay(Append(list, e), d) = OfDay(list, d)
<1> DEFINE more == Append(list, e)
           N == Len(list)
<1>1. more \in Lists /\ N \in Nat /\ Len(more) = N + 1 /\ more[N + 1] = e
  BY DEF Lists
<1>2. \A n \in 1 .. N : more[n] = list[n]
  BY DEF Lists
<1> HIDE DEF more, N
<1>3. PICK f : IsAmong(f, list, d, N) /\ OfDay(list, d) = f[N]
  BY OfDayAmong DEF N
<1>4. PICK g : IsAmong(g, more, d, N + 1) /\ OfDay(more, d) = g[N + 1]
  BY <1>1, OfDayAmong
<1> DEFINE T == {n \in Nat : n <= N => f[n] = g[n]}
<1>5. 0 \in T
  BY <1>1, <1>3, <1>4, AmongStep
<1>6. ASSUME NEW n \in 1 .. N, n - 1 \in T PROVE n \in T
  <2>1. f[n - 1] = g[n - 1] /\ more[n] = list[n]
    BY <1>1, <1>2, <1>6
  <2>2. f[n] = IF DateOf[list[n]] = d THEN Append(f[n - 1], list[n]) ELSE f[n - 1]
    BY <1>1, <1>3, AmongStep
  <2>3. g[n] = IF DateOf[more[n]] = d THEN Append(g[n - 1], more[n]) ELSE g[n - 1]
    BY <1>1, <1>4, AmongStep
  <2> QED
    BY <2>1, <2>2, <2>3
<1>7. N \in T
  <2> HIDE DEF T
  <2>1. T \in SUBSET Nat
    BY DEF T
  <2> QED
    BY <1>1, <1>5, <1>6, <2>1, UpTo
<1>8. g[N + 1] = g[N]
  <2>1. N + 1 \in Nat /\ N + 1 # 0 /\ N + 1 \in 0 .. (N + 1) /\ (N + 1) - 1 = N
    BY <1>1
  <2> QED
    BY <1>1, <1>4, <2>1, AmongStep
<1> QED
  BY <1>1, <1>3, <1>4, <1>7, <1>8 DEF more

-----------------------------------------------------------------------------
(***************************************************************************)
(* Types                                                                   *)
(***************************************************************************)

\* Those that may still be appended to the copy.
Unsettled == {e \in Entries : row[e] \in {"new", "sent", "stored"}}

\* A list short enough for all that may be appended to it.
Fits(list) ==
    /\ list \in Lists
    /\ Len(list) + Cardinality(Unsettled) <= 1 + 2 * Cardinality(Entries)

DaysTyped ==
    /\ day \in Dates /\ today \in Dates /\ day >= OpenedOn
    /\ watching \in BOOLEAN /\ alone \in BOOLEAN /\ undrawn \in BOOLEAN
ViewTyped ==
    /\ selected \in Dates \union {None}
    /\ lines = Upcoming \/ IsList(lines)
LoadTyped ==
    /\ load \in [Calls -> [kind : Kinds \union {"none"}, list : Lists \union {NotRead, Over}]]
    /\ \A c \in Calls :
          \/ load[c].list = NotRead
          \/ load[c].list = Over /\ load[c].kind = "regenerate"
          \/ /\ load[c].list \in Lists /\ Len(load[c].list) <= Cardinality(Entries)
             /\ load[c].kind \notin {"none", "open"}

Typed ==
    /\ DaysTyped /\ ViewTyped /\ LoadTyped
    /\ row \in [Entries -> Fates]
    /\ Fits(schedules)

LEMMA DatesAreDays == Dates \subseteq Nat /\ OpenedOn \in Nat /\ LastDay \in Nat
<1>1. LastDate \in Nat
  BY CalendarAssumption DEF Lengths
<1>2. 1 .. LastDate \subseteq Nat
  BY <1>1
<1> QED
  BY <1>2, CalendarAssumption

\* Schedules are finitely many.
LEMMA Sizes ==
    /\ Cardinality(Entries) \in Nat
    /\ IsFiniteSet(Unsettled)
    /\ Cardinality(Unsettled) \in Nat /\ Cardinality(Unsettled) <= Cardinality(Entries)
    /\ IsFiniteSet(Stored)
    /\ Cardinality(Stored) \in Nat /\ Cardinality(Stored) <= Cardinality(Entries)
<1>1. IsFiniteSet(Entries) /\ Unsettled \in SUBSET Entries /\ Stored \in SUBSET Entries
  BY CalendarAssumption DEF Unsettled, Stored
<1> HIDE DEF Unsettled, Stored
<1> QED
  BY <1>1, FS_Subset, FS_CardinalityType

\* No list is taken for a place in a load.
LEMMA NotLists == NotRead \notin Lists /\ Over \notin Lists /\ NotRead # Over
<1>1. NotRead[1] = "not read" /\ Over[1] = "over" /\ Len(NotRead) = 1 /\ Len(Over) = 1
  BY DEF NotRead, Over
<1>2. \A list \in Lists : Len(list) = 1 => list[1] \in Entries \union {Demo}
  BY DEF Lists
<1>3. "not read" \notin Entries \union {Demo} /\ "over" \notin Entries \union {Demo}
  BY NameAssumption
<1> QED
  BY <1>1, <1>2, <1>3

LEMMA TypeParts == Typed => TypeOK
BY Sizes DEF Typed, TypeOK, DaysTyped, ViewTyped, LoadTyped, Fits, IsList, Lists

LEMMA EmptyList == <<>> \in Lists /\ Len(<<>>) = 0
BY DEF Lists

LEMMA InitTyped == ASSUME Init PROVE Typed
<1>1. DaysTyped
  <2>1. OpenedOn \in Dates /\ OpenedOn \in Nat
    BY DatesAreDays, CalendarAssumption
  <2>2. /\ day = OpenedOn /\ today = OpenedOn
        /\ watching = FALSE /\ alone = TRUE /\ undrawn = FALSE
    BY DEF Init
  <2>3. OpenedOn >= OpenedOn
    BY <2>1
  <2> QED
    BY <2>1, <2>2, <2>3, Zenon DEF DaysTyped
<1>2. ViewTyped
  BY Sizes, EmptyList DEF Init, ViewTyped, IsList
<1>3. LoadTyped
  BY DEF Init, LoadTyped, Begun, Idle, Kinds
<1>4. row \in [Entries -> Fates]
  BY DEF Init, Fates
<1>5. Fits(schedules)
  <2>1. schedules \in Lists /\ Len(schedules) = 1
    BY DEF Init, Lists
  <2> QED
    BY <2>1, Sizes DEF Fits
<1> QED
  BY <1>1, <1>2, <1>3, <1>4, <1>5 DEF Typed

\* renderSchedule, for a list of the page.
LEMMA RenderTyped ==
    ASSUME NEW d \in Dates, NEW list, Fits(list), RenderSchedule(d, list)
    PROVE  ViewTyped' /\ undrawn' \in BOOLEAN
<1>1. OfDay(list, d) \in Lists /\ Len(OfDay(list, d)) <= Len(list) /\ Len(list) \in Nat
  BY OfDayShape DEF Fits, Lists
<1>2. Len(OfDay(list, d)) \in Nat
  BY <1>1 DEF Lists
<1>3. IsList(OfDay(list, d))
  BY <1>1, <1>2, Sizes DEF Fits, IsList
<1> QED
  BY <1>3 DEF RenderSchedule, ViewTyped, IsList, Lists

LEMMA ConcludeTyped ==
    ASSUME DaysTyped, ViewTyped, NEW kind, NEW list, Fits(list), Conclude(kind, list)
    PROVE  ViewTyped' /\ undrawn' \in BOOLEAN /\ watching' \in BOOLEAN
<1>1. \/ \E d \in Dates : RenderSchedule(d, list)
      \/ UNCHANGED <<selected, lines>> /\ undrawn' = TRUE
  BY DEF Conclude, DaysTyped, ViewTyped
<1>2. watching' \in BOOLEAN
  BY DEF Conclude, DaysTyped
<1>3. CASE \E d \in Dates : RenderSchedule(d, list)
  BY <1>2, <1>3, RenderTyped
<1>4. CASE UNCHANGED <<selected, lines>> /\ undrawn' = TRUE
  BY <1>2, <1>4 DEF ViewTyped, IsList, Lists
<1> QED
  BY <1>1, <1>3, <1>4

\* What a schedule's next fate does to the room that must be left.
LEMMA Settling ==
    ASSUME row \in [Entries -> Fates], NEW e \in Entries, NEW fate \in Fates,
           row' = [row EXCEPT ![e] = fate],
           row[e] \notin {"new", "sent", "stored"} => fate \notin {"new", "sent", "stored"}
    PROVE  /\ row' \in [Entries -> Fates]
           /\ Unsettled' \subseteq Unsettled
           /\ Cardinality(Unsettled') \in Nat /\ Cardinality(Unsettled') <= Cardinality(Unsettled)
           /\ row[e] = "stored" /\ fate = "kept" =>
                  Cardinality(Unsettled') = Cardinality(Unsettled) - 1
<1>1. row' \in [Entries -> Fates]
  OBVIOUS
<1>2. Unsettled' \subseteq Unsettled
  BY DEF Unsettled
<1>3. Cardinality(Unsettled') \in Nat /\ Cardinality(Unsettled') <= Cardinality(Unsettled)
  <2> DEFINE U == Unsettled
             V == Unsettled'
  <2>1. IsFiniteSet(U) /\ V \in SUBSET U
    BY <1>2, Sizes
  <2> HIDE DEF U, V
  <2>2. IsFiniteSet(V) /\ Cardinality(V) <= Cardinality(U)
    BY <2>1, FS_Subset
  <2> QED
    BY <2>2, FS_CardinalityType DEF U, V
<1>4. ASSUME row[e] = "stored", fate = "kept"
      PROVE  Cardinality(Unsettled') = Cardinality(Unsettled) - 1
  <2>1. Unsettled' = Unsettled \ {e} /\ e \in Unsettled
    BY <1>4 DEF Unsettled, Fates
  <2> QED
    BY <2>1, Sizes, FS_RemoveElement
<1> QED
  BY <1>1, <1>2, <1>3, <1>4

\* One load goes on to what is one of its places.
LEMMA LoadChanges ==
    ASSUME LoadTyped, NEW c \in Calls, NEW call,
           load' = [load EXCEPT ![c] = call],
           call.kind \in Kinds \union {"none"}, call = [kind |-> call.kind, list |-> call.list],
           \/ call.list = NotRead
           \/ call.list = Over /\ call.kind = "regenerate"
           \/ /\ call.list \in Lists /\ Len(call.list) <= Cardinality(Entries)
              /\ call.kind \notin {"none", "open"}
    PROVE  LoadTyped'
<1>1. load' \in [Calls -> [kind : Kinds \union {"none"}, list : Lists \union {NotRead, Over}]]
  <2>1. call \in [kind : Kinds \union {"none"}, list : Lists \union {NotRead, Over}]
    OBVIOUS
  <2> QED
    BY <2>1 DEF LoadTyped
<1>2. \A b \in Calls : load'[b] = IF b = c THEN call ELSE load[b]
  BY DEF LoadTyped
<1>3. Lists' = Lists
  BY DEF Lists
<1> QED
  BY <1>1, <1>2, <1>3 DEF LoadTyped

\* What the server reads has each of its rows once.
LEMMA ServerListShape ==
    ASSUME NEW list \in ServerLists
    PROVE  /\ list \in Lists /\ Len(list) = Cardinality(Stored)
           /\ Len(list) <= Cardinality(Entries)
           /\ \A i \in DOMAIN list : list[i] \in Stored
           /\ \A i, j \in DOMAIN list : list[i] = list[j] => i = j
           /\ \A e \in Stored : \E i \in DOMAIN list : list[i] = e
<1> DEFINE N == Cardinality(Stored)
<1>1. /\ list \in [1 .. N -> Stored]
      /\ \A i, j \in 1 .. N : i # j => list[i] # list[j]
  BY DEF ServerLists, SetToSeqs
<1>2. N \in Nat /\ N <= Cardinality(Entries) /\ IsFiniteSet(Stored)
  BY Sizes
<1>3. Stored \subseteq Entries \union {Demo}
  BY DEF Stored
<1>4. list \in Lists /\ Len(list) = N
  BY <1>1, <1>2, <1>3 DEF Lists
<1>5. list \in Injection(1 .. N, Stored)
  BY <1>1 DEF Injection, IsInjective
<1>6. Cardinality(1 .. N) = N
  BY <1>2, FS_Interval
<1>7. list \in Surjection(1 .. N, Stored)
  <2> HIDE DEF Stored
  <2> QED
    BY <1>2, <1>5, <1>6, FS_Injection
<1>8. \A e \in Stored : \E i \in 1 .. N : list[i] = e
  BY <1>7 DEF Surjection
<1> QED
  BY <1>1, <1>2, <1>4, <1>8

\* The end of a load.
LEMMA LoadedTyped ==
    ASSUME Typed, NEW c \in Calls, Pending(c), NEW list, Fits(list), Loaded(c, list),
           alone' \in BOOLEAN
    PROVE  Typed'
<1>1. /\ UNCHANGED <<day, today, row>> /\ schedules' = list
      /\ row' \in [Entries -> Fates]
  BY DEF Loaded, Typed
<1>2. Fits(schedules)'
  BY <1>1 DEF Fits, Lists, Unsettled
<1>3. CASE load[c].kind = "regenerate"
  <2>1. /\ load' = [load EXCEPT ![c] = [kind |-> "regenerate", list |-> Over]]
        /\ undrawn' = TRUE /\ UNCHANGED <<watching, selected, lines>>
    BY <1>3 DEF Loaded, Typed, LoadTyped
  <2>2. LoadTyped'
    BY <2>1, LoadChanges DEF Typed, Kinds
  <2>3. ViewTyped'
    BY <2>1 DEF Typed, ViewTyped, IsList, Lists
  <2> QED
    BY <1>1, <1>2, <2>1, <2>2, <2>3 DEF Typed, DaysTyped
<1>4. CASE load[c].kind # "regenerate"
  <2>1. Conclude(load[c].kind, list) /\ load' = [load EXCEPT ![c] = Idle]
    BY <1>4 DEF Loaded
  <2>2. LoadTyped'
    BY <2>1, LoadChanges DEF Typed, Idle, Begun
  <2>3. ViewTyped' /\ undrawn' \in BOOLEAN /\ watching' \in BOOLEAN
    BY <2>1, ConcludeTyped DEF Typed
  <2> QED
    BY <1>1, <1>2, <2>2, <2>3 DEF Typed, DaysTyped
<1> QED
  BY <1>3, <1>4

LEMMA StepTyped == ASSUME Typed, [Next]_vars PROVE Typed'
<1> DEFINE RowsSame == row' \in [Entries -> Fates] /\ Fits(schedules)'
           ViewSame == ViewTyped'
<1>1. UNCHANGED <<row, schedules>> => RowsSame
  BY DEF Typed, Fits, Lists, Unsettled
<1>2. UNCHANGED <<selected, lines>> => ViewSame
  BY DEF Typed, ViewTyped, IsList, Lists
<1>3. UNCHANGED load => LoadTyped'
  BY DEF Typed, LoadTyped, Lists
<1>4. UNCHANGED <<day, today, watching, alone, undrawn>> => DaysTyped'
  BY DEF Typed, DaysTyped
<1> HIDE DEF RowsSame, ViewSame
<1>5. RowsSame /\ ViewSame /\ LoadTyped' /\ DaysTyped' => Typed'
  BY DEF RowsSame, ViewSame, Typed
<1>6. \A d \in Dates : RenderSchedule(d, schedules) => ViewSame /\ undrawn' \in BOOLEAN
  BY RenderTyped DEF Typed, ViewSame
<1>7. ASSUME NEW d \in Dates, Click(d) PROVE Typed'
  <2>1. ViewSame /\ undrawn' \in BOOLEAN
    BY <1>6, <1>7 DEF Click
  <2>2. DaysTyped'
    BY <1>7, <2>1 DEF Click, Typed, DaysTyped
  <2> QED
    BY <1>1, <1>3, <1>5, <1>7, <2>1, <2>2 DEF Click
<1>8. CASE ShowUpcoming
  <2>1. ViewSame
    BY <1>8 DEF ShowUpcoming, Typed, ViewTyped, Upcoming, ViewSame
  <2> QED
    BY <1>1, <1>3, <1>4, <1>5, <1>8, <2>1 DEF ShowUpcoming
<1>9. ASSUME NEW c \in Calls, NEW kind \in Kinds, Begin(c, kind) PROVE Typed'
  <2>1. LoadTyped'
    BY <1>9, LoadChanges DEF Begin, Begun, Typed
  <2>2. DaysTyped'
    BY <1>9 DEF Begin, Quiet, Typed, DaysTyped
  <2> QED
    BY <1>1, <1>2, <1>5, <1>9, <2>1, <2>2 DEF Begin
<1>10. ASSUME NEW c \in Calls, Regenerate(c) \/ Synchronise(c) \/ ReloadAfterDeletion(c)
       PROVE  Typed'
  <2>1. \E kind \in Kinds : Begin(c, kind)
    BY <1>10 DEF Regenerate, Synchronise, ReloadAfterDeletion, Kinds
  <2> QED
    BY <1>9, <2>1
<1>11. ASSUME NEW c \in Calls, HolidaysArrive(c) PROVE Typed'
  <2>1. /\ UNCHANGED <<day, today, row, schedules, alone>>
        /\ load[c].kind \in {"open", "regenerate"}
    BY <1>11 DEF HolidaysArrive
  <2>2. CASE load[c].list = Over
    <3>1. Conclude("refresh", schedules) /\ load' = [load EXCEPT ![c] = Idle]
      BY <1>11, <2>2 DEF HolidaysArrive
    <3>2. LoadTyped'
      BY <3>1, LoadChanges DEF Typed, Idle, Begun
    <3>3. ViewSame /\ undrawn' \in BOOLEAN /\ watching' \in BOOLEAN
      BY <3>1, ConcludeTyped DEF Typed, ViewSame
    <3>4. DaysTyped'
      BY <2>1, <3>3 DEF Typed, DaysTyped
    <3> QED
      BY <1>1, <1>5, <2>1, <3>2, <3>3, <3>4
  <2>3. CASE load[c].list # Over
    <3> DEFINE to == IF load[c].kind = "open" THEN "start" ELSE "refresh"
               call == [kind |-> to, list |-> load[c].list]
    <3>1. load' = [load EXCEPT ![c] = call] /\ UNCHANGED <<watching, selected, lines, undrawn>>
      BY <1>11, <2>3 DEF HolidaysArrive, Typed, LoadTyped
    <3>2. /\ call.list = NotRead \/ (call.list \in Lists /\ Len(call.list) <= Cardinality(Entries))
          /\ call.kind \in Kinds /\ call.kind \notin {"none", "open"}
      BY <2>3 DEF Typed, LoadTyped, Kinds
    <3>3. LoadTyped'
      BY <3>1, <3>2, LoadChanges DEF Typed
    <3> QED
      BY <1>1, <1>2, <1>4, <1>5, <2>1, <3>1, <3>3
  <2> QED
    BY <2>2, <2>3
<1>12. ASSUME NEW c \in Calls, ServerReads(c) PROVE Typed'
  <2>1. PICK list \in ServerLists : load' = [load EXCEPT ![c].list = list]
    BY <1>12 DEF ServerReads
  <2>2. load' = [load EXCEPT ![c] = [kind |-> load[c].kind, list |-> list]]
    <3>1. load[c] \in [kind : Kinds \union {"none"}, list : Lists \union {NotRead, Over}]
      BY DEF Typed, LoadTyped
    <3>2. [load[c] EXCEPT !.list = list] = [kind |-> load[c].kind, list |-> list]
      BY <3>1
    <3> QED
      BY <2>1, <3>2
  <2>3. load[c].kind \in Kinds \ {"none", "open"}
    BY <1>12 DEF ServerReads, Pending, Typed, LoadTyped, Kinds
  <2>4. list \in Lists /\ Len(list) <= Cardinality(Entries)
    BY ServerListShape
  <2> DEFINE call == [kind |-> load[c].kind, list |-> list]
  <2>5. LoadTyped'
    BY <2>2, <2>3, <2>4, LoadChanges DEF Typed
  <2> QED
    BY <1>1, <1>2, <1>4, <1>5, <1>12, <2>5 DEF ServerReads
<1>13. ASSUME NEW c \in Calls, Arrive(c) PROVE Typed'
  <2> DEFINE list == load[c].list
  <2>1. list \in Lists /\ Len(list) <= Cardinality(Entries) /\ Len(list) \in Nat
    BY <1>13 DEF Arrive, Pending, Typed, LoadTyped, Lists
  <2>2. Fits(list)
    BY <2>1, Sizes DEF Fits
  <2> QED
    BY <1>13, <2>2, LoadedTyped DEF Arrive, Typed, DaysTyped
<1>14. ASSUME NEW c \in Calls, Fail(c) PROVE Typed'
  <2>1. Fits(<<>>)
    BY EmptyList, Sizes DEF Fits
  <2> QED
    BY <1>14, <2>1, LoadedTyped DEF Fail, Typed
<1>15. ASSUME NEW e \in Entries, NEW fate \in Fates, row' = [row EXCEPT ![e] = fate],
              row[e] \notin {"new", "sent", "stored"} => fate \notin {"new", "sent", "stored"},
              schedules' = schedules
       PROVE  RowsSame
  <2>1. /\ row' \in [Entries -> Fates] /\ Cardinality(Unsettled') \in Nat
        /\ Cardinality(Unsettled') <= Cardinality(Unsettled)
    BY <1>15, Settling DEF Typed
  <2>2. Len(schedules) \in Nat
    BY DEF Typed, Fits, Lists
  <2> QED
    BY <1>15, <2>1, <2>2, Sizes DEF Typed, Fits, Lists, RowsSame
<1>16. ASSUME NEW e \in Entries, Submit(e) \/ Store(e) \/ GiveUp(e) \/ Vanish(e) \/ Appear(e)
       PROVE  Typed'
  <2>1. /\ UNCHANGED <<day, today, watching, schedules, selected, lines, load, undrawn>>
        /\ alone' \in BOOLEAN
    BY <1>16 DEF Submit, Store, GiveUp, Vanish, Appear, Typed, DaysTyped, InFlight
  <2>2. \E fate \in Fates :
           /\ row' = [row EXCEPT ![e] = fate]
           /\ row[e] \notin {"new", "sent", "stored"} => fate \notin {"new", "sent", "stored"}
    BY <1>16 DEF Submit, Store, GiveUp, Vanish, Appear, Fates
  <2>3. RowsSame
    BY <1>15, <2>1, <2>2
  <2>4. DaysTyped'
    BY <2>1 DEF Typed, DaysTyped
  <2> QED
    BY <1>2, <1>3, <1>5, <2>1, <2>3, <2>4
<1>17. ASSUME NEW e \in Entries, Acknowledge(e) PROVE Typed'
  <2> DEFINE list == Append(schedules, e)
  <2>1. /\ row[e] = "stored" /\ row' = [row EXCEPT ![e] = "kept"] /\ schedules' = list
        /\ UNCHANGED <<day, today, watching, load, alone>>
    BY <1>17 DEF Acknowledge
  <2>2. /\ row' \in [Entries -> Fates] /\ Cardinality(Unsettled') \in Nat
        /\ Cardinality(Unsettled') = Cardinality(Unsettled) - 1
    BY <2>1, Settling DEF Typed, Fates
  <2>3. list \in Lists /\ Len(list) = Len(schedules) + 1 /\ Len(schedules) \in Nat
    BY DEF Typed, Fits, Lists
  <2>4. RowsSame
    BY <2>1, <2>2, <2>3, Sizes DEF Typed, Fits, Lists, RowsSame
  <2>5. IsList(OfDay(list, selected))
    <3>1. OfDay(list, selected) \in Lists /\ Len(OfDay(list, selected)) <= Len(list)
      BY <2>3, OfDayShape
    <3>2. Len(OfDay(list, selected)) \in Nat
      BY <3>1 DEF Lists
    <3>3. Len(list) <= 1 + 2 * Cardinality(Entries)
      BY <2>1, <2>2, <2>3, <2>4, Sizes DEF RowsSame, Fits
    <3> HIDE DEF list
    <3> QED
      BY <2>3, <3>1, <3>2, <3>3, Sizes DEF IsList
  <2>6. ViewSame /\ undrawn' \in BOOLEAN
    BY <1>17, <2>5
       DEF Acknowledge, RenderSchedule, Typed, DaysTyped, ViewTyped, IsList, Lists, ViewSame
  <2>7. DaysTyped'
    BY <2>1, <2>6 DEF Typed, DaysTyped
  <2> QED
    BY <1>3, <1>5, <2>1, <2>4, <2>6, <2>7
<1>18. CASE Midnight
  <2>1. DaysTyped'
    <3>1. day \in Nat /\ LastDay \in Nat /\ OpenedOn \in Nat /\ day' = day + 1 /\ day < LastDay
      BY <1>18, DatesAreDays DEF Midnight, Typed, DaysTyped
    <3>2. day' \in OpenedOn .. LastDay
      BY <3>1 DEF Typed, DaysTyped
    <3>3. day' \in Dates /\ day' >= OpenedOn
      BY <3>1, <3>2, CalendarAssumption
    <3> QED
      BY <1>18, <3>3 DEF Midnight, Typed, DaysTyped
  <2> QED
    BY <1>1, <1>2, <1>3, <1>5, <1>18, <2>1 DEF Midnight
<1>19. CASE DateChanges
  <2>1. ViewSame /\ undrawn' \in BOOLEAN
    BY <1>6, <1>19 DEF DateChanges, Typed, DaysTyped
  <2>2. DaysTyped'
    BY <1>19, <2>1 DEF DateChanges, Typed, DaysTyped
  <2> QED
    BY <1>1, <1>3, <1>5, <1>19, <2>1, <2>2 DEF DateChanges
<1>20. CASE UNCHANGED vars
  BY <1>1, <1>2, <1>3, <1>4, <1>5, <1>20 DEF vars
<1> QED
  BY <1>7, <1>8, <1>10, <1>11, <1>12, <1>13, <1>14, <1>16, <1>17, <1>18, <1>19, <1>20
     DEF Next, LoadStep

LEMMA SpecTyped == Spec => []Typed
BY InitTyped, StepTyped, PTL DEF Spec

-----------------------------------------------------------------------------
(***************************************************************************)
(* The copy                                                                *)
(***************************************************************************)

Kept == {e \in Entries : row[e] = "kept"}

\* The list has those schedules once and no other.
Exactly(list, S) ==
    \A e \in Entries \union {Demo} : Count(list, e) = IF e \in S THEN 1 ELSE 0

\* ListFollows, and what it rests on while a load or a post is under way: with
\* nothing that can part them there is one load at most and no post next to it,
\* so that what the server read is still what it has when the answer arrives.
CopyInv ==
    alone =>
        /\ \A b, c \in InFlight : b = c
        /\ InFlight # {} => Posting = {}
        /\ \A c \in InFlight :
              /\ load[c].list \in Lists => Exactly(load[c].list, Stored)
              /\ load[c].list = Over => Exactly(schedules, Stored)
        /\ InFlight = {} => Exactly(schedules, Kept)

\* What the server reads, the answer says: each row once.
LEMMA ServerListExact ==
    ASSUME NEW list \in ServerLists
    PROVE  Exactly(list, Stored)
<1> SUFFICES ASSUME NEW e \in Entries \union {Demo}
             PROVE  Count(list, e) = IF e \in Stored THEN 1 ELSE 0
  BY DEF Exactly
<1> DEFINE P == {i \in DOMAIN list : list[i] = e}
<1>1. CASE e \in Stored
  <2>1. PICK i \in DOMAIN list : list[i] = e
    BY <1>1, ServerListShape
  <2>2. \A j \in DOMAIN list : list[j] = e => j = i
    BY <2>1, ServerListShape
  <2>3. P = {i}
    BY <2>1, <2>2
  <2> HIDE DEF P
  <2>4. Cardinality(P) = 1
    BY <2>3, FS_Singleton
  <2> QED
    BY <1>1, <2>4 DEF Count, P
<1>2. CASE e \notin Stored
  <2>1. P = {}
    BY <1>2, ServerListShape
  <2> HIDE DEF P
  <2>2. Cardinality(P) = 0
    BY <2>1, FS_EmptySet
  <2> QED
    BY <1>2, <2>2 DEF Count, P
<1> QED
  BY <1>1, <1>2

\* An appended schedule is there once more, and the others as before.
LEMMA CountAppend ==
    ASSUME NEW list \in Lists, NEW e \in Entries \union {Demo}, NEW f \in Entries \union {Demo}
    PROVE  Count(Append(list, e), f) = IF f = e THEN Count(list, f) + 1 ELSE Count(list, f)
<1> DEFINE more == Append(list, e)
           N == Len(list)
           P == {i \in DOMAIN list : list[i] = f}
           Q == {i \in DOMAIN more : more[i] = f}
<1>1. /\ N \in Nat /\ DOMAIN list = 1 .. N /\ DOMAIN more = 1 .. (N + 1)
      /\ more[N + 1] = e /\ \A i \in 1 .. N : more[i] = list[i]
  BY DEF Lists
<1> HIDE DEF more, N
<1>2. P \in SUBSET (1 .. N) /\ N + 1 \notin P
  BY <1>1
<1>3. IsFiniteSet(P)
  <2> HIDE DEF P
  <2>1. IsFiniteSet(1 .. N)
    BY <1>1, FS_Interval
  <2> QED
    BY <1>2, <2>1, FS_Subset
<1>4. CASE f = e
  <2>1. Q = P \union {N + 1}
    BY <1>1, <1>4
  <2> HIDE DEF P, Q
  <2>2. Cardinality(Q) = Cardinality(P) + 1
    BY <1>2, <1>3, <2>1, FS_AddElement
  <2> QED
    BY <1>4, <2>2 DEF Count, P, Q, more
<1>5. CASE f # e
  <2>1. Q = P
    BY <1>1, <1>5
  <2> HIDE DEF P, Q
  <2> QED
    BY <1>5, <2>1 DEF Count, P, Q, more
<1> QED
  BY <1>4, <1>5

LEMMA InitCopy == ASSUME Init PROVE CopyInv
<1>1. PICK first \in Calls :
          load = [c \in Calls |-> IF c = first THEN Begun("open") ELSE Idle]
  BY DEF Init
<1>2. Begun("open") # Idle
  BY DEF Begun, Idle
<1>3. InFlight = {first}
  BY <1>1, <1>2 DEF InFlight
<1>4. Posting = {}
  BY DEF Init, Posting
<1>5. load[first].list = NotRead
  BY <1>1 DEF Begun
<1> QED
  BY <1>3, <1>4, <1>5, NotLists DEF CopyInv

\* The load c is over, and the copy is what the server has.
LEMMA LoadEnds ==
    ASSUME Typed, CopyInv, NEW c \in InFlight, load' = [load EXCEPT ![c] = Idle],
           UNCHANGED row, alone' => alone, alone' => Exactly(schedules', Stored)
    PROVE  CopyInv'
<1> SUFFICES ASSUME alone' PROVE CopyInv'
  BY DEF CopyInv
<1>1. Posting = {} /\ \A b \in InFlight : b = c
  BY DEF CopyInv
<1>2. InFlight' = {}
  BY <1>1 DEF InFlight, Typed, LoadTyped
<1>3. Kept' = Stored
  BY <1>1 DEF Kept, Stored, Posting
<1>4. Exactly(schedules', Kept')
  BY <1>3
<1>5. Exactly(schedules, Kept)'
  BY <1>4 DEF Exactly, Count
<1> QED
  BY <1>2, <1>5 DEF CopyInv

\* The load c has got further, and what it carries is what the server has.
LEMMA LoadGoesOn ==
    ASSUME Typed, CopyInv, NEW c \in InFlight, NEW call, call # Idle,
           load' = [load EXCEPT ![c] = call],
           UNCHANGED row, alone' => alone,
           alone' => /\ call.list \in Lists => Exactly(call.list, Stored)
                     /\ call.list = Over => Exactly(schedules', Stored)
    PROVE  CopyInv'
<1> SUFFICES ASSUME alone' PROVE CopyInv'
  BY DEF CopyInv
<1>1. Posting = {} /\ \A b \in InFlight : b = c
  BY DEF CopyInv
<1>2. InFlight' = {c} /\ load'[c] = call
  BY <1>1 DEF InFlight, Typed, LoadTyped
<1>3. Posting' = {} /\ Stored' = Stored /\ Lists' = Lists /\ Over' = Over
  BY <1>1 DEF Posting, Stored, Lists, Over
<1>4. call.list \in Lists => Exactly(load[c].list, Stored)'
  BY <1>2, <1>3 DEF Exactly, Count
<1>5. call.list = Over => Exactly(schedules, Stored)'
  BY <1>3 DEF Exactly, Count
<1> QED
  BY <1>2, <1>3, <1>4, <1>5 DEF CopyInv

LEMMA StepCopy == ASSUME Typed, CopyInv, [Next]_vars PROVE CopyInv'
<1>1. UNCHANGED <<row, schedules, load, alone>> => CopyInv'
  BY DEF CopyInv, InFlight, Posting, Exactly, Count, Stored, Kept, Lists
<1>2. ASSUME ~alone' PROVE CopyInv'
  BY <1>2 DEF CopyInv
<1>3. ASSUME NEW c \in Calls, NEW kind \in Kinds, Begin(c, kind) PROVE CopyInv'
  <2>1. /\ load[c] = Idle /\ load' = [load EXCEPT ![c] = Begun(kind)]
        /\ alone' = Quiet /\ UNCHANGED <<row, schedules>>
    BY <1>3 DEF Begin
  <2>2. CASE Quiet
    <3>1. InFlight = {} /\ Posting' = {}
      BY <2>1, <2>2 DEF Quiet, Posting
    <3>2. Begun(kind) # Idle /\ Begun(kind).list = NotRead
      BY DEF Begun, Idle, Kinds
    <3>3. InFlight' = {c} /\ load'[c].list = NotRead
      BY <2>1, <3>1, <3>2 DEF InFlight, Typed, LoadTyped
    <3>4. NotRead \notin Lists' /\ NotRead # Over
      BY NotLists DEF Lists
    <3> QED
      BY <3>1, <3>3, <3>4 DEF CopyInv
  <2>3. CASE ~Quiet
    BY <1>2, <2>1, <2>3
  <2> QED
    BY <2>2, <2>3
<1>4. ASSUME NEW c \in Calls, Regenerate(c) \/ Synchronise(c) \/ ReloadAfterDeletion(c)
      PROVE  CopyInv'
  <2>1. \E kind \in Kinds : Begin(c, kind)
    BY <1>4 DEF Regenerate, Synchronise, ReloadAfterDeletion, Kinds
  <2> QED
    BY <1>3, <2>1
<1>5. ASSUME NEW c \in Calls, HolidaysArrive(c) PROVE CopyInv'
  <2>1. /\ UNCHANGED <<row, schedules, alone>>
        /\ load[c].kind \in {"open", "regenerate"} /\ c \in InFlight
    BY <1>5 DEF HolidaysArrive, InFlight, Idle, Begun
  <2>2. CASE load[c].list = Over
    <3>1. load' = [load EXCEPT ![c] = Idle]
      BY <1>5, <2>2 DEF HolidaysArrive
    <3>2. alone => Exactly(schedules, Stored)
      BY <2>1, <2>2 DEF CopyInv
    <3> QED
      BY <2>1, <3>1, <3>2, LoadEnds
  <2>3. CASE load[c].list # Over
    <3> DEFINE to == IF load[c].kind = "open" THEN "start" ELSE "refresh"
               call == [kind |-> to, list |-> load[c].list]
    <3>1. load' = [load EXCEPT ![c] = call]
      BY <1>5, <2>3 DEF HolidaysArrive, Typed, LoadTyped
    <3>2. call # Idle
      BY DEF Idle, Begun
    <3>3. alone' => /\ call.list \in Lists => Exactly(call.list, Stored)
                    /\ call.list = Over => Exactly(schedules', Stored)
      BY <2>1, <2>3 DEF CopyInv
    <3> HIDE DEF call
    <3> QED
      BY <2>1, <3>1, <3>2, <3>3, LoadGoesOn
  <2> QED
    BY <2>2, <2>3
<1>6. ASSUME NEW c \in Calls, ServerReads(c) PROVE CopyInv'
  <2>1. PICK list \in ServerLists : load' = [load EXCEPT ![c].list = list]
    BY <1>6 DEF ServerReads
  <2> DEFINE call == [kind |-> load[c].kind, list |-> list]
  <2>2. load' = [load EXCEPT ![c] = call]
    <3>1. load[c] \in [kind : Kinds \union {"none"}, list : Lists \union {NotRead, Over}]
      BY DEF Typed, LoadTyped
    <3>2. [load[c] EXCEPT !.list = list] = call
      BY <3>1
    <3> QED
      BY <2>1, <3>2
  <2>3. c \in InFlight /\ call # Idle /\ UNCHANGED <<row, schedules, alone>>
    BY <1>6 DEF ServerReads, Pending, InFlight, Idle, Begun
  <2>4. Exactly(list, Stored) /\ list # Over
    BY ServerListExact, ServerListShape, NotLists
  <2>5. call.list = list
    OBVIOUS
  <2> HIDE DEF call
  <2> QED
    BY <2>2, <2>3, <2>4, <2>5, LoadGoesOn
<1>7. ASSUME NEW c \in Calls, Arrive(c) PROVE CopyInv'
  <2>1. /\ c \in InFlight /\ UNCHANGED <<row, alone>> /\ schedules' = load[c].list
        /\ load[c].list \in Lists
    BY <1>7 DEF Arrive, Pending, Loaded, InFlight, Idle, Begun, Typed, LoadTyped
  <2>2. alone => Exactly(schedules', Stored)
    BY <2>1 DEF CopyInv
  <2>3. CASE load[c].kind = "regenerate"
    <3> DEFINE call == [kind |-> "regenerate", list |-> Over]
    <3>1. load' = [load EXCEPT ![c] = call]
      BY <1>7, <2>3 DEF Arrive, Loaded, Typed, LoadTyped
    <3>2. call # Idle /\ call.list = Over
      BY DEF Idle, Begun
    <3> HIDE DEF call
    <3> QED
      BY <2>1, <2>2, <3>1, <3>2, NotLists, LoadGoesOn
  <2>4. CASE load[c].kind # "regenerate"
    <3>1. load' = [load EXCEPT ![c] = Idle]
      BY <1>7, <2>4 DEF Arrive, Loaded
    <3> QED
      BY <2>1, <2>2, <3>1, LoadEnds
  <2> QED
    BY <2>3, <2>4
<1>8. ASSUME NEW c \in Calls, Fail(c) PROVE CopyInv'
  BY <1>2, <1>8 DEF Fail
<1>9. ASSUME Posting # {}, UNCHANGED load, alone' => alone,
             alone' => Exactly(schedules', Kept')
      PROVE  CopyInv'
  <2> SUFFICES ASSUME alone' PROVE CopyInv'
    BY DEF CopyInv
  <2>1. InFlight = {} /\ InFlight' = {}
    BY <1>9 DEF CopyInv, InFlight
  <2>2. Exactly(schedules, Kept)'
    BY <1>9 DEF Exactly, Count
  <2> QED
    BY <2>1, <2>2 DEF CopyInv
<1>10. ASSUME NEW e \in Entries, Submit(e) PROVE CopyInv'
  <2> SUFFICES ASSUME alone' PROVE CopyInv'
    BY DEF CopyInv
  <2>1. alone /\ InFlight = {} /\ UNCHANGED <<schedules, load>>
    BY <1>10 DEF Submit
  <2>2. Kept' = Kept
    BY <1>10 DEF Submit, Kept, Typed
  <2>3. InFlight' = {}
    BY <2>1 DEF InFlight
  <2>4. Exactly(schedules, Kept)'
    BY <2>1, <2>2 DEF CopyInv, Exactly, Count
  <2> QED
    BY <2>3, <2>4 DEF CopyInv
<1>11. ASSUME NEW e \in Entries, Store(e) \/ (GiveUp(e) /\ row[e] = "sent") PROVE CopyInv'
  <2>1. /\ e \in Posting /\ UNCHANGED <<schedules, load>>
    BY <1>11 DEF Store, GiveUp, Posting
  <2>2. alone' => alone
    BY <1>11, Zenon DEF Store, GiveUp
  <2>3. Kept' = Kept
    BY <1>11 DEF Store, GiveUp, Kept, Typed
  <2>4. alone => Exactly(schedules, Kept)
    BY <2>1 DEF CopyInv
  <2>5. alone' => Exactly(schedules', Kept')
    BY <2>1, <2>2, <2>3, <2>4
  <2> QED
    BY <1>9, <2>1, <2>2, <2>5
<1>12. ASSUME NEW e \in Entries, GiveUp(e), row[e] # "sent" PROVE CopyInv'
  BY <1>2, <1>12 DEF GiveUp
<1>13. ASSUME NEW e \in Entries, Acknowledge(e) PROVE CopyInv'
  <2>1. /\ e \in Posting /\ row[e] = "stored" /\ row' = [row EXCEPT ![e] = "kept"]
        /\ schedules' = Append(schedules, e) /\ UNCHANGED <<load, alone>>
    BY <1>13 DEF Acknowledge, Posting
  <2>2. alone => Exactly(schedules, Kept)
    BY <2>1 DEF CopyInv
  <2>3. Kept' = Kept \union {e} /\ e \notin Kept
    BY <2>1 DEF Kept, Typed
  <2>4. alone' => Exactly(schedules', Kept')
    <3> SUFFICES ASSUME alone, NEW f \in Entries \union {Demo}
                 PROVE  Count(schedules', f) = IF f \in Kept' THEN 1 ELSE 0
      BY <2>1 DEF Exactly
    <3>1. Count(schedules, f) = IF f \in Kept THEN 1 ELSE 0
      BY <2>2 DEF Exactly
    <3>2. Count(schedules', f) = IF f = e THEN Count(schedules, f) + 1 ELSE Count(schedules, f)
      BY <2>1, CountAppend DEF Typed, Fits
    <3> QED
      BY <2>3, <3>1, <3>2
  <2> QED
    BY <1>9, <2>1, <2>4
<1>14. ASSUME NEW e \in Entries, Vanish(e) \/ Appear(e) PROVE CopyInv'
  BY <1>2, <1>14 DEF Vanish, Appear
<1>15. ASSUME (\E d \in Dates : Click(d)) \/ ShowUpcoming \/ Midnight \/ DateChanges
              \/ UNCHANGED vars
       PROVE  CopyInv'
  BY <1>1, <1>15 DEF Click, ShowUpcoming, Midnight, DateChanges, vars
<1> QED
  BY <1>4, <1>5, <1>6, <1>7, <1>8, <1>10, <1>11, <1>12, <1>13, <1>14, <1>15 DEF Next, LoadStep

LEMMA CopyFollows == ASSUME CopyInv PROVE ListFollows
<1> SUFFICES ASSUME alone, Quiet,
                    NEW e \in Entries \union {Demo}
             PROVE  Count(schedules, e) = IF e \in Stored THEN 1 ELSE 0
  BY DEF ListFollows
<1>1. InFlight = {} /\ Posting = {}
  BY DEF Quiet
<1>2. Kept = Stored
  BY <1>1 DEF Kept, Stored, Posting
<1>3. Exactly(schedules, Kept)
  BY <1>1 DEF CopyInv
<1> QED
  BY <1>2, <1>3 DEF Exactly

-----------------------------------------------------------------------------
(***************************************************************************)
(* The lines                                                               *)
(***************************************************************************)

\* LinesFollow, of the lines.
LinesInv ==
    selected # None /\ lines # Upcoming /\ ~undrawn => lines = OfDay(schedules, selected)

\* After a load either the day on the screen is drawn from the new copy, or
\* the copy is marked as not drawn yet.
LEMMA Concluded ==
    ASSUME Typed, NEW kind, NEW list, Conclude(kind, list), schedules' = list
    PROVE  LinesInv'
<1>1. \/ \E d : RenderSchedule(d, list)
      \/ undrawn' = TRUE
  BY DEF Conclude
<1>2. CASE \E d : RenderSchedule(d, list)
  BY <1>2 DEF RenderSchedule, LinesInv, OfDay
<1>3. CASE undrawn' = TRUE
  BY <1>3 DEF LinesInv
<1> QED
  BY <1>1, <1>2, <1>3

LEMMA StepLines == ASSUME Typed, LinesInv, [Next]_vars PROVE LinesInv'
<1>1. UNCHANGED <<schedules, selected, lines, undrawn>> => LinesInv'
  BY DEF LinesInv, OfDay, Upcoming
<1>2. ASSUME NEW d, RenderSchedule(d, schedules), UNCHANGED schedules PROVE LinesInv'
  BY <1>2 DEF RenderSchedule, LinesInv, OfDay
<1>3. CASE ShowUpcoming
  BY <1>3 DEF ShowUpcoming, LinesInv, Upcoming
<1>4. ASSUME NEW c \in Calls, NEW list, Loaded(c, list) PROVE LinesInv'
  <2>1. CASE load[c].kind = "regenerate"
    BY <1>4, <2>1 DEF Loaded, LinesInv
  <2>2. CASE load[c].kind # "regenerate"
    BY <1>4, <2>2, Concluded DEF Loaded
  <2> QED
    BY <2>1, <2>2
<1>5. ASSUME NEW c \in Calls, HolidaysArrive(c) PROVE LinesInv'
  <2>1. CASE load[c].list = Over
    BY <1>5, <2>1, Concluded DEF HolidaysArrive
  <2>2. CASE load[c].list # Over
    BY <1>1, <1>5, <2>2 DEF HolidaysArrive
  <2> QED
    BY <2>1, <2>2
<1>6. ASSUME NEW c \in Calls, LoadStep(c) PROVE LinesInv'
  BY <1>1, <1>4, <1>5, <1>6 DEF LoadStep, ServerReads, Arrive, Fail
<1>7. ASSUME NEW c \in Calls, Regenerate(c) \/ Synchronise(c) \/ ReloadAfterDeletion(c)
      PROVE  LinesInv'
  BY <1>1, <1>7 DEF Regenerate, Synchronise, ReloadAfterDeletion, Begin
<1>8. ASSUME NEW e \in Entries, Acknowledge(e) PROVE LinesInv'
  <2>1. schedules' = Append(schedules, e)
    BY <1>8 DEF Acknowledge
  <2>2. CASE selected = DateOf[e]
    <3>1. RenderSchedule(selected, schedules')
      BY <1>8, <2>1, <2>2 DEF Acknowledge
    <3>2. lines' = OfDay(schedules', selected')
      BY <3>1 DEF RenderSchedule
    <3>3. OfDay(schedules, selected)' = OfDay(schedules', selected')
      BY DEF OfDay
    <3> QED
      BY <3>2, <3>3 DEF LinesInv
  <2>3. CASE selected # DateOf[e]
    <3>1. OfDay(schedules', selected) = OfDay(schedules, selected)
      BY <2>1, <2>3, OfDayAppend DEF Typed, Fits
    <3>2. UNCHANGED <<selected, lines, undrawn>>
      BY <1>8, <2>3 DEF Acknowledge
    <3>3. OfDay(schedules, selected)' = OfDay(schedules', selected)
      BY <3>2 DEF OfDay
    <3> QED
      BY <3>1, <3>2, <3>3 DEF LinesInv, Upcoming
  <2> QED
    BY <2>2, <2>3
<1>9. ASSUME NEW e \in Entries, Submit(e) \/ Store(e) \/ GiveUp(e) \/ Vanish(e) \/ Appear(e)
      PROVE  LinesInv'
  BY <1>1, <1>9 DEF Submit, Store, GiveUp, Vanish, Appear
<1>10. ASSUME NEW d \in Dates, Click(d) PROVE LinesInv'
  BY <1>2, <1>10 DEF Click
<1>11. CASE DateChanges
  BY <1>2, <1>11 DEF DateChanges
<1>12. CASE Midnight \/ UNCHANGED vars
  BY <1>1, <1>12 DEF Midnight, vars
<1> QED
  BY <1>3, <1>6, <1>7, <1>8, <1>9, <1>10, <1>11, <1>12 DEF Next

LEMMA ButtonsFollow == ASSUME Typed, LinesInv PROVE LinesFollow
<1> SUFFICES ASSUME selected # None, lines # Upcoming, ~undrawn
             PROVE  lines = OfDay(schedules, selected) /\ Buttons = lines
  BY DEF LinesFollow
<1>1. lines = OfDay(schedules, selected)
  BY DEF LinesInv
<1>2. lines \in Lists
  BY DEF Typed, ViewTyped, IsList
<1>3. Buttons = [i \in DOMAIN lines |-> lines[i]]
  BY <1>1 DEF Buttons
<1> QED
  BY <1>1, <1>2, <1>3 DEF Lists

-----------------------------------------------------------------------------

\* The types, and no list outgrows what can be appended to it.
THEOREM CalendarTyped == Spec => []TypeOK
BY SpecTyped, TypeParts, PTL

\* A copy that no load crossed and nobody else touched has each schedule of the
\* server once, however often it was loaded and whatever was entered.
THEOREM CopyHasEachOnce == Spec => []ListFollows
<1>1. Init => CopyInv
  BY InitCopy
<1>2. Spec => []CopyInv
  BY <1>1, SpecTyped, StepCopy, PTL DEF Spec
<1> QED
  BY <1>2, CopyFollows, PTL

\* Lines and the buttons behind them are those of the day on the screen.
THEOREM LinesAreOfTheDay == Spec => []LinesFollow
<1>1. Init => LinesInv
  BY DEF Init, LinesInv
<1>2. Spec => []LinesInv
  BY <1>1, SpecTyped, StepLines, PTL DEF Spec
<1> QED
  BY <1>2, SpecTyped, ButtonsFollow, PTL
=============================================================================
