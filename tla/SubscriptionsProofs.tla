------------------------- MODULE SubscriptionsProofs -------------------------
(***************************************************************************)
(* What holds of subscriptions and the page's copy of them for any ids,    *)
(* dates, months, cycles, instants and bounds, and any number of chains of *)
(* requests pending: TypeOK, OnSchedule, RenewalCatchesUp and ListFollows. *)
(*                                                                         *)
(* The loop of RenewOverduePayments and the schedule are functions defined *)
(* by recursion over the table of dates.  WalkExists shows that there are  *)
(* such functions, from the end of the table down; what they do at a step  *)
(* is all that is used from there on, by way of the least or the greatest  *)
(* date that would refute the claim.                                       *)
(***************************************************************************)
EXTENDS Subscriptions, FiniteSetTheorems, WellFoundedInduction, TLAPS

\* Any set of numbers has a least one: what an induction over numbers needs.
LEMMA LeastNumber ==
    ASSUME NEW T \in SUBSET Nat, T # {}
    PROVE  \E n \in T : \A m \in T : n <= m
<1> DEFINE R == StrictSubsetOrdering(Nat)
           S == FiniteSubsetsOf(Nat)
           U == {1 .. n : n \in T}
<1>1. IsWellFoundedOn(R, S)
  BY FS_StrictSubsetOrderingWellFounded
<1>2. U \subseteq S /\ U # {}
  <2>1. ASSUME NEW n \in T PROVE 1 .. n \in S
    <3>1. IsFiniteSet(1 .. n) /\ 1 .. n \in SUBSET Nat
      BY FS_Interval
    <3> QED
      BY <3>1 DEF FiniteSubsetsOf
  <2> HIDE DEF S
  <2> QED
    BY <2>1
<1>3. \E x \in U : \A y \in U : ~(<<y, x>> \in R)
  <2> HIDE DEF R, S, U
  <2> QED
    BY <1>1, <1>2, WFMin
<1>4. PICK n \in T : \A m \in T : ~(<<1 .. m, 1 .. n>> \in R)
  BY <1>3
<1>5. ASSUME NEW m \in T, m < n PROVE FALSE
  <2> DEFINE a == 1 .. m
             b == 1 .. n
  <2>1. a \in SUBSET Nat /\ b \in SUBSET Nat /\ a \subseteq b /\ a # b
    <3>1. n \in b /\ n \notin a
      BY <1>5
    <3> QED
      BY <1>5, <3>1
  <2> HIDE DEF a, b
  <2>2. <<a, b>> \in StrictSubsetOrdering(Nat)
    BY <2>1 DEF StrictSubsetOrdering
  <2> QED
    BY <1>4, <2>2 DEF a, b
<1> QED
  BY <1>5

-----------------------------------------------------------------------------
(***************************************************************************)
(* The calendar                                                            *)
(***************************************************************************)

End == MonthStart[Len(MonthStart)]

LEMMA TableShape ==
    /\ Len(MonthStart) \in Nat \ {0} /\ \A m \in 1 .. Len(MonthStart) : MonthStart[m] \in Nat
    /\ End \in Nat /\ Table \subseteq Nat /\ \A d \in Table : d < End
    /\ Dates \subseteq Table
    /\ Instants \subseteq Nat
<1>1. Len(MonthStart) \in Nat \ {0} /\ DOMAIN MonthStart = 1 .. Len(MonthStart)
      /\ \A m \in 1 .. Len(MonthStart) : MonthStart[m] \in Nat
  BY SubscriptionsAssumption
<1>2. MonthStart[1] \in Nat /\ End \in Nat
  BY <1>1 DEF End
<1> QED
  BY <1>1, <1>2, SubscriptionsAssumption DEF End, Table

\* A set of dates has a last one.
LEMMA LastDate ==
    ASSUME NEW T \in SUBSET Table, T # {}
    PROVE  \E d \in T : \A e \in T : e <= d
<1> DEFINE U == {End - d : d \in T}
<1>1. U \in SUBSET Nat /\ U # {}
  <2>1. \A d \in T : End - d \in Nat
    BY TableShape
  <2> QED
    BY <2>1
<1>2. PICK n \in U : \A m \in U : n <= m
  <2> HIDE DEF U
  <2> QED
    BY <1>1, LeastNumber
<1>3. PICK d \in T : n = End - d
  BY <1>2
<1>4. ASSUME NEW e \in T PROVE e <= d
  <2>1. n <= End - e
    BY <1>2
  <2> QED
    BY <1>3, <2>1, TableShape
<1> QED
  BY <1>4

\* Every date of the table is in one of its months.
LEMMA MonthOfDate ==
    ASSUME NEW d \in Table
    PROVE  /\ Month(d) \in 1 .. (Len(MonthStart) - 1)
           /\ d \in MonthStart[Month(d)] .. (MonthStart[Month(d) + 1] - 1)
<1> DEFINE T == {m \in 1 .. Len(MonthStart) : d < MonthStart[m]}
<1>1. T \in SUBSET Nat /\ Len(MonthStart) \in T
  BY TableShape DEF End
<1>2. PICK n \in T : \A m \in T : n <= m
  <2> HIDE DEF T
  <2> QED
    BY <1>1, LeastNumber
<1>3. n # 1 /\ n - 1 \in 1 .. (Len(MonthStart) - 1)
  BY <1>2, TableShape DEF Table
<1>4. n - 1 \notin T /\ MonthStart[n - 1] \in Nat /\ MonthStart[n] \in Nat
  BY <1>2, <1>3, TableShape
<1>5. d \in MonthStart[n - 1] .. (MonthStart[(n - 1) + 1] - 1)
  BY <1>2, <1>3, <1>4, TableShape
<1>6. \E m \in 1 .. (Len(MonthStart) - 1) : d \in MonthStart[m] .. (MonthStart[m + 1] - 1)
  BY <1>3, <1>5
<1> QED
  BY <1>6 DEF Month

\* calculateNextPaymentDate goes forward, whatever the lengths of the months.
LEMMA NextIsLater ==
    ASSUME NEW d \in Table, NEW t \in Instants, Before(d, t), NEW cycle, Known(cycle)
    PROVE  NextPaymentDate(d, cycle) \in Table /\ NextPaymentDate(d, cycle) > d
<1>1. /\ Month(d) + 12 < Len(MonthStart)
      /\ NextPaymentDate(d, cycle) \in Table
  BY TableAssumption DEF Known
<1>2. ASSUME NEW k \in {1, 12} PROVE AddMonths(d, k) > d
  <2>1. Month(d) \in 1 .. Len(MonthStart) /\ Month(d) + k \in 1 .. Len(MonthStart)
    BY <1>1, MonthOfDate, TableShape
  <2>2. MonthStart[Month(d)] < MonthStart[Month(d) + k]
    BY <2>1, TableShape, SubscriptionsAssumption
  <2> QED
    BY <2>1, <2>2, TableShape DEF AddMonths
<1>3. d \in Nat
  BY TableShape
<1>4. CASE cycle = "daily"
  BY <1>1, <1>3, <1>4 DEF NextPaymentDate
<1>5. CASE cycle = "weekly"
  BY <1>1, <1>3, <1>5 DEF NextPaymentDate
<1>6. CASE cycle = "monthly"
  BY <1>1, <1>2, <1>6 DEF NextPaymentDate
<1>7. CASE cycle = "yearly"
  BY <1>1, <1>2, <1>7 DEF NextPaymentDate
<1> QED
  BY <1>4, <1>5, <1>6, <1>7 DEF Known

-----------------------------------------------------------------------------
(***************************************************************************)
(* Going from payment to payment                                           *)
(***************************************************************************)

\* A walk that goes on for as long as the date is in Go, and then says where
\* it is, is well defined: each step leads to a later date of the table.
LEMMA WalkExists ==
    ASSUME NEW Go \in SUBSET Table, NEW next, \A x \in Go : next[x] \in Table /\ next[x] > x
    PROVE  \E f : f = [x \in Table |-> IF x \in Go THEN f[next[x]] ELSE x]
<1> DEFINE Rest(n) == {x \in Table : x >= End - n}
           Walk(n, f) == f = [x \in Rest(n) |-> IF x \in Go THEN f[next[x]] ELSE x]
           T == {n \in Nat : ~ \E f : Walk(n, f)}
<1>1. T = {}
  <2> SUFFICES ASSUME T # {} PROVE FALSE
    OBVIOUS
  <2>1. PICK n \in T : \A m \in T : n <= m
    <3>1. T \in SUBSET Nat
      OBVIOUS
    <3> HIDE DEF T
    <3> QED
      BY <3>1, LeastNumber
  <2>2. CASE n = 0
    <3>1. Rest(0) = {}
      BY TableShape
    <3>2. Walk(0, [x \in Rest(0) |-> x])
      BY <3>1
    <3> QED
      BY <2>1, <2>2, <3>2
  <2>3. CASE n # 0
    <3>1. n - 1 \in Nat /\ n - 1 \notin T
      <4>1. n \in Nat
        OBVIOUS
      <4> HIDE DEF T
      <4> QED
        BY <2>1, <2>3, <4>1
    <3>2. PICK f : Walk(n - 1, f)
      BY <3>1
    <3> DEFINE g == [x \in Rest(n) |->
                        IF x \in Rest(n - 1) THEN f[x]
                        ELSE IF x \in Go THEN f[next[x]] ELSE x]
    <3>3. Rest(n - 1) \subseteq Rest(n)
      BY <2>1, <2>3, TableShape
    <3>4. ASSUME NEW x \in Rest(n) PROVE g[x] = IF x \in Go THEN g[next[x]] ELSE x
      <4>1. x \in Go => next[x] \in Rest(n - 1)
        BY <2>1, <2>3, TableShape
      <4>2. x \in Rest(n - 1) => f[x] = IF x \in Go THEN f[next[x]] ELSE x
        BY <3>2
      <4>3. x \in Go => g[next[x]] = f[next[x]]
        BY <3>3, <4>1
      <4> HIDE DEF Rest
      <4> QED
        BY <4>2, <4>3
    <3>5. Walk(n, g)
      <4> HIDE DEF Rest
      <4>1. g = [x \in Rest(n) |-> g[x]]
        OBVIOUS
      <4> HIDE DEF g
      <4> QED
        BY <3>4, <4>1
    <3> HIDE DEF Walk
    <3> QED
      BY <2>1, <3>5
  <2> QED
    BY <2>2, <2>3
<1>2. PICK f : Walk(End, f)
  BY <1>1, TableShape
<1>3. Rest(End) = Table
  <2>1. \A x \in Table : x >= End - End
    BY TableShape
  <2> QED
    BY <2>1
<1> QED
  BY <1>2, <1>3

LEMMA RenewedSteps ==
    ASSUME NEW d \in Table, NEW t \in Instants, NEW cycle, Known(cycle)
    PROVE  Renewed(d, cycle, t) =
               IF Before(d, t) THEN Renewed(NextPaymentDate(d, cycle), cycle, t) ELSE d
<1> DEFINE Go == {x \in Table : Before(x, t)}
           next == [x \in Table |-> NextPaymentDate(x, cycle)]
           Walk(f) == f = [x \in Table |-> IF Before(x, t) THEN f[NextPaymentDate(x, cycle)] ELSE x]
           from == CHOOSE f : Walk(f)
<1>1. \E f : Walk(f)
  <2>1. \A x \in Go : next[x] \in Table /\ next[x] > x
    BY NextIsLater
  <2>2. \E f : f = [x \in Table |-> IF x \in Go THEN f[next[x]] ELSE x]
    <3> HIDE DEF Go, next
    <3>1. Go \in SUBSET Table
      BY DEF Go
    <3> QED
      BY <2>1, <3>1, WalkExists
  <2>3. ASSUME NEW f, f = [x \in Table |-> IF x \in Go THEN f[next[x]] ELSE x]
        PROVE  Walk(f)
    BY <2>3
  <2> HIDE DEF Walk, Go, next
  <2> QED
    BY <2>2, <2>3
<1>2. Walk(from)
  <2> HIDE DEF Walk
  <2> QED
    BY <1>1
<1>3. \A x : Renewed(x, cycle, t) = from[x]
  BY DEF Renewed
<1> HIDE DEF from
<1>4. from[d] = IF Before(d, t) THEN from[NextPaymentDate(d, cycle)] ELSE d
  BY <1>2
<1> QED
  BY <1>3, <1>4

LEMMA ReachedSteps ==
    ASSUME NEW row, NEW d \in Table, NEW t \in Instants
    PROVE  Reached(row, d, t) =
               IF d < row.date /\ Known(row.cycle) /\ Before(d, t)
               THEN Reached(row, NextPaymentDate(d, row.cycle), t) ELSE d
<1> DEFINE Go == {x \in Table : x < row.date /\ Known(row.cycle) /\ Before(x, t)}
           next == [x \in Table |-> NextPaymentDate(x, row.cycle)]
           Walk(f) == f = [x \in Table |-> IF x < row.date /\ Known(row.cycle) /\ Before(x, t)
                                           THEN f[NextPaymentDate(x, row.cycle)] ELSE x]
           from == CHOOSE f : Walk(f)
<1>1. \E f : Walk(f)
  <2>1. \A x \in Go : next[x] \in Table /\ next[x] > x
    BY NextIsLater
  <2>2. \E f : f = [x \in Table |-> IF x \in Go THEN f[next[x]] ELSE x]
    <3> HIDE DEF Go, next
    <3>1. Go \in SUBSET Table
      BY DEF Go
    <3> QED
      BY <2>1, <3>1, WalkExists
  <2>3. ASSUME NEW f, f = [x \in Table |-> IF x \in Go THEN f[next[x]] ELSE x]
        PROVE  Walk(f)
    BY <2>3
  <2> HIDE DEF Walk, Go, next
  <2> QED
    BY <2>2, <2>3
<1>2. Walk(from)
  <2> HIDE DEF Walk
  <2> QED
    BY <1>1
<1>3. \A x : Reached(row, x, t) = from[x]
  BY DEF Reached
<1> HIDE DEF from
<1>4. from[d] = IF d < row.date /\ Known(row.cycle) /\ Before(d, t)
               THEN from[NextPaymentDate(d, row.cycle)] ELSE d
  BY <1>2
<1> QED
  BY <1>3, <1>4

\* The loop of RenewOverduePayments ends, at a date of the table that is not
\* over, and never goes back.
LEMMA RenewedCatchesUp ==
    ASSUME NEW t \in Instants, NEW cycle, Known(cycle)
    PROVE  \A d \in Table : /\ Renewed(d, cycle, t) \in Table
                            /\ Renewed(d, cycle, t) >= d
                            /\ ~Before(Renewed(d, cycle, t), t)
<1> DEFINE Good(d) == /\ Renewed(d, cycle, t) \in Table
                      /\ Renewed(d, cycle, t) >= d
                      /\ ~Before(Renewed(d, cycle, t), t)
           T == {d \in Table : ~Good(d)}
<1>1. ASSUME T # {} PROVE FALSE
  <2>1. PICK d \in T : \A e \in T : e <= d
    <3> HIDE DEF T
    <3>1. T \in SUBSET Table
      BY DEF T
    <3> QED
      BY <1>1, <3>1, LastDate
  <2>2. d \in Table /\ d \in Nat /\ ~Good(d)
    BY TableShape
  <2>3. CASE Before(d, t)
    <3> DEFINE n == NextPaymentDate(d, cycle)
    <3>1. n \in Table /\ n > d /\ n \in Nat
      BY <2>2, <2>3, NextIsLater, TableShape
    <3>2. Renewed(d, cycle, t) = Renewed(n, cycle, t)
      BY <2>2, <2>3, RenewedSteps
    <3>3. n \notin T
      <4> HIDE DEF T, n
      <4> QED
        BY <2>1, <2>2, <3>1
    <3>4. Good(n)
      BY <3>1, <3>3
    <3>5. Renewed(n, cycle, t) \in Nat
      BY <3>4, TableShape
    <3> HIDE DEF n
    <3> QED
      BY <2>2, <3>1, <3>2, <3>4, <3>5
  <2>4. CASE ~Before(d, t)
    BY <2>2, <2>4, RenewedSteps
  <2> QED
    BY <2>3, <2>4
<1> QED
  BY <1>1

\* Time goes on: what was reached still is.
LEMMA ReachedLaterOn ==
    ASSUME NEW row, NEW t \in Instants, NEW u \in Instants, t <= u
    PROVE  \A d \in Table : Reached(row, d, t) = row.date => Reached(row, d, u) = row.date
<1> DEFINE Good(d) == Reached(row, d, t) = row.date => Reached(row, d, u) = row.date
           T == {d \in Table : ~Good(d)}
<1>1. ASSUME T # {} PROVE FALSE
  <2>1. PICK d \in T : \A e \in T : e <= d
    <3> HIDE DEF T
    <3>1. T \in SUBSET Table
      BY DEF T
    <3> QED
      BY <1>1, <3>1, LastDate
  <2>2. d \in Table /\ d \in Nat /\ ~Good(d)
    BY TableShape
  <2>3. CASE d < row.date /\ Known(row.cycle) /\ Before(d, t)
    <3> DEFINE n == NextPaymentDate(d, row.cycle)
    <3>0. Before(d, u)
      <4>1. t \in Nat /\ u \in Nat
        BY TableShape
      <4> QED
        BY <2>2, <2>3, <4>1 DEF Before
    <3>1. n \in Table /\ n > d /\ n \in Nat
      BY <2>2, <2>3, NextIsLater, TableShape
    <3>2. Reached(row, d, t) = Reached(row, n, t) /\ Reached(row, d, u) = Reached(row, n, u)
      BY <2>2, <2>3, <3>0, ReachedSteps
    <3>3. n \notin T
      <4> HIDE DEF T, n
      <4> QED
        BY <2>1, <2>2, <3>1
    <3>4. Good(n)
      BY <3>1, <3>3
    <3> HIDE DEF n
    <3> QED
      BY <2>2, <3>1, <3>2, <3>4
  <2>4. CASE ~(d < row.date /\ Known(row.cycle) /\ Before(d, t))
    <3>1. Reached(row, d, t) = d
      BY <2>2, <2>4, ReachedSteps
    <3>2. d = row.date
      BY <2>2, <3>1
    <3>3. Reached(row, d, u) = d
      BY <2>2, <3>2, ReachedSteps
    <3> QED
      BY <2>2, <3>2, <3>3
  <2> QED
    BY <2>3, <2>4
<1> QED
  BY <1>1

\* A row that is moved on stays on the schedule.
LEMMA RenewedIsReached ==
    ASSUME NEW row \in Rows, Known(row.cycle), NEW t \in Instants, NEW first \in Table,
           Reached(row, first, t) = row.date
    PROVE  LET next == Renewed(row.date, row.cycle, t) IN
           Reached([row EXCEPT !.date = next], first, t) = next
<1> DEFINE next == Renewed(row.date, row.cycle, t)
           moved == [row EXCEPT !.date = next]
<1>1. /\ row.date \in Table /\ next \in Table /\ next >= row.date
      /\ row.date \in Nat /\ next \in Nat
  BY RenewedCatchesUp, TableShape DEF Rows
<1>2. moved.date = next /\ moved.cycle = row.cycle
  BY DEF Rows
<1> HIDE DEF next, moved
<1>3. \A d \in Table : Renewed(d, row.cycle, t) = next => Reached(moved, d, t) = next
  <2> DEFINE Good(d) == Renewed(d, row.cycle, t) = next => Reached(moved, d, t) = next
             T == {d \in Table : ~Good(d)}
  <2>1. ASSUME T # {} PROVE FALSE
    <3>1. PICK d \in T : \A e \in T : e <= d
      <4> HIDE DEF T
      <4>1. T \in SUBSET Table
        BY DEF T
      <4> QED
        BY <2>1, <4>1, LastDate
    <3>2. d \in Table /\ d \in Nat /\ ~Good(d)
      BY TableShape
    <3>3. CASE Before(d, t)
      <4> DEFINE n == NextPaymentDate(d, row.cycle)
      <4>1. n \in Table /\ n > d /\ n \in Nat
        BY <3>2, <3>3, NextIsLater, TableShape
      <4>2. Renewed(d, row.cycle, t) = Renewed(n, row.cycle, t)
        BY <3>2, <3>3, RenewedSteps
      <4>3. n \notin T
        <5> HIDE DEF T, n
        <5> QED
          BY <3>1, <3>2, <4>1
      <4>4. Good(n)
        BY <4>1, <4>3
      <4>5. next >= n
        BY <3>2, <4>1, <4>2, RenewedCatchesUp
      <4>6. Reached(moved, d, t) = Reached(moved, n, t)
        BY <1>1, <1>2, <3>2, <3>3, <4>1, <4>5, ReachedSteps
      <4> HIDE DEF n
      <4> QED
        BY <3>2, <4>2, <4>4, <4>6
    <3>4. CASE ~Before(d, t)
      BY <1>2, <3>2, <3>4, RenewedSteps, ReachedSteps
    <3> QED
      BY <3>3, <3>4
  <2> QED
    BY <2>1
<1>4. \A d \in Table : Reached(row, d, t) = row.date => Reached(moved, d, t) = next
  <2> DEFINE Good(d) == Reached(row, d, t) = row.date => Reached(moved, d, t) = next
             T == {d \in Table : ~Good(d)}
  <2>1. ASSUME T # {} PROVE FALSE
    <3>1. PICK d \in T : \A e \in T : e <= d
      <4> HIDE DEF T
      <4>1. T \in SUBSET Table
        BY DEF T
      <4> QED
        BY <2>1, <4>1, LastDate
    <3>2. d \in Table /\ d \in Nat /\ ~Good(d)
      BY TableShape
    <3>3. CASE d < row.date /\ Known(row.cycle) /\ Before(d, t)
      <4> DEFINE n == NextPaymentDate(d, row.cycle)
      <4>1. n \in Table /\ n > d /\ n \in Nat
        BY <3>2, <3>3, NextIsLater, TableShape
      <4>2. Reached(row, d, t) = Reached(row, n, t)
        BY <3>2, <3>3, ReachedSteps
      <4>3. n \notin T
        <5> HIDE DEF T, n
        <5> QED
          BY <3>1, <3>2, <4>1
      <4>4. Good(n)
        BY <4>1, <4>3
      <4>5. d < next
        BY <1>1, <3>2, <3>3
      <4>6. Reached(moved, d, t) = Reached(moved, n, t)
        BY <1>2, <3>2, <3>3, <4>5, ReachedSteps
      <4> HIDE DEF n
      <4> QED
        BY <3>2, <4>2, <4>4, <4>6
    <3>4. CASE ~(d < row.date /\ Known(row.cycle) /\ Before(d, t))
      <4>1. Reached(row, d, t) = d
        BY <3>2, <3>4, ReachedSteps
      <4>2. d = row.date
        BY <3>2, <4>1
      <4>3. Renewed(d, row.cycle, t) = next
        BY <4>2 DEF next
      <4> QED
        BY <1>3, <3>2, <4>3
    <3> QED
      BY <3>3, <3>4
  <2> QED
    BY <2>1
<1>5. Reached(moved, first, t) = next
  BY <1>4
<1> QED
  BY <1>5 DEF moved, next

-----------------------------------------------------------------------------
(***************************************************************************)
(* Types                                                                   *)
(***************************************************************************)

\* An operation names what its handler needs.
OpOK(o) ==
    /\ o.kind \in {"create", "save"} => o.row.date \in Table /\ o.row.cycle \in Cycles
    /\ o.kind \in {"save", "status", "delete"} => o.id \in Ids
    /\ o.kind = "status" => o.row.status \in Statuses

Typed == TypeOK /\ \A c \in Calls : OpOK(op[c])

Ops == [kind : Kinds, id : 0 .. MaxIds, row : Fields]

LEMMA RowShapes ==
    /\ NoRow \in Fields /\ NoRow \notin Rows /\ Rows \subseteq Fields
    /\ Nothing \in Lists
    /\ NoOp \in Ops /\ OpOK(NoOp)
    /\ \A kind \in Kinds \ {"create", "save", "status", "delete"} :
          [NoOp EXCEPT !.kind = kind] \in Ops /\ OpOK([NoOp EXCEPT !.kind = kind])
<1>1. NoRow \in Fields
  BY DEF NoRow, Fields
<1>2. 0 \in 0 .. MaxIds
  BY SubscriptionsAssumption
<1>3. NoRow \notin Rows
  BY DEF NoRow, Rows, Statuses
<1>4. Rows \subseteq Fields
  BY DEF Rows, Fields
<1>5. Nothing \in Lists
  BY DEF Nothing, Lists
<1>6. NoOp \in Ops /\ OpOK(NoOp)
  BY <1>1, <1>2 DEF NoOp, Ops, OpOK, Kinds
<1>7. ASSUME NEW kind \in Kinds \ {"create", "save", "status", "delete"}
      PROVE  [NoOp EXCEPT !.kind = kind] \in Ops /\ OpOK([NoOp EXCEPT !.kind = kind])
  BY <1>1, <1>2, <1>7 DEF NoOp, Ops, OpOK
<1> QED
  BY <1>1, <1>3, <1>4, <1>5, <1>6, <1>7

LEMMA AskedShape == ASSUME NEW o \in Asked PROVE o \in Ops /\ OpOK(o)
<1> DEFINE entered == [date : Dates, cycle : Cycles, status : {"active"}]
<1>1. 0 \in 0 .. MaxIds /\ Ids \subseteq 0 .. MaxIds
  BY SubscriptionsAssumption DEF Ids
<1>2. \A row \in entered : row \in Fields /\ row.date \in Table /\ row.cycle \in Cycles
  BY TableShape DEF Fields, Statuses
<1>3. \A s \in Statuses : /\ [NoRow EXCEPT !.status = s] \in Fields
                          /\ [NoRow EXCEPT !.status = s].status = s
  BY DEF NoRow, Fields
<1>4. CASE o \in [kind : {"create"}, id : {0}, row : entered]
           \/ o \in [kind : {"save"}, id : Ids, row : entered]
  <2>1. o = [kind |-> o.kind, id |-> o.id, row |-> o.row] /\ o.kind \in {"create", "save"}
        /\ o.id \in {0} \union Ids /\ (o.kind = "save" => o.id \in Ids) /\ o.row \in entered
    BY <1>4
  <2> QED
    BY <1>1, <1>2, <2>1 DEF Ops, OpOK, Kinds
<1>5. CASE o \in [kind : {"status"}, id : Ids, row : {[NoRow EXCEPT !.status = s] : s \in Statuses}]
  <2>1. o = [kind |-> o.kind, id |-> o.id, row |-> o.row] /\ o.kind = "status" /\ o.id \in Ids
    BY <1>5
  <2>2. PICK s \in Statuses : o.row = [NoRow EXCEPT !.status = s]
    BY <1>5
  <2> QED
    BY <1>1, <1>3, <2>1, <2>2 DEF Ops, OpOK, Kinds
<1>6. CASE o \in [kind : {"delete", "renew"}, id : Ids, row : {NoRow}]
  <2>1. o = [kind |-> o.kind, id |-> o.id, row |-> o.row] /\ o.kind \in {"delete", "renew"}
        /\ o.id \in Ids /\ o.row = NoRow
    BY <1>6
  <2> QED
    BY <1>1, <2>1, RowShapes DEF Ops, OpOK, Kinds
<1> QED
  BY <1>4, <1>5, <1>6 DEF Asked

-----------------------------------------------------------------------------
(***************************************************************************)
(* What a handler does to one row                                          *)
(***************************************************************************)

Untouched(i) == rows'[i] = rows[i] /\ anchor'[i] = anchor[i]
Entered(i) == rows'[i] \in Rows /\ anchor'[i] = rows'[i].date
Switched(i) ==
    /\ rows[i] # NoRow /\ anchor'[i] = anchor[i]
    /\ \E s \in Statuses : rows'[i] = [rows[i] EXCEPT !.status = s]
Removed(i) == rows'[i] = NoRow /\ anchor'[i] = anchor[i]
MovedOn(i) ==
    /\ rows[i] # NoRow /\ Known(rows[i].cycle) /\ anchor'[i] = anchor[i]
    /\ rows'[i] = [rows[i] EXCEPT !.date = Renewed(rows[i].date, rows[i].cycle, now)]

Handled(i) ==
    \/ Untouched(i) \/ Switched(i) \/ Removed(i) \/ MovedOn(i)
    \/ Entered(i) /\ i <= created' /\ (rows[i] = NoRow => i = created + 1)

LEMMA HandleRows ==
    ASSUME TypeOK, NEW o \in Ops, OpOK(o), Handle(o)
    PROVE  /\ rows' \in [Ids -> Rows \union {NoRow}] /\ anchor' \in [Ids -> Table \union {0}]
           /\ created' \in 0 .. MaxIds /\ created' >= created
           /\ \A i \in Ids : Handled(i)
<1>0. /\ rows \in [Ids -> Rows \union {NoRow}] /\ anchor \in [Ids -> Table \union {0}]
      /\ created \in 0 .. MaxIds /\ created \in Int /\ created + 1 \in Int
      /\ \A i \in Ids : rows[i] # NoRow => i <= created
  BY SubscriptionsAssumption DEF TypeOK, Lists
<1>1. o.row \in Fields /\ o.id \in 0 .. MaxIds
  BY DEF Ops
<1>2. ASSUME NEW status \in Statuses, o.kind \in {"create", "save"}
      PROVE  /\ [o.row EXCEPT !.status = status] \in Rows
             /\ [o.row EXCEPT !.status = status].date = o.row.date
  BY <1>1, <1>2 DEF OpOK, Fields, Rows
<1>3. CASE o.kind = "create" /\ Create(o.row)
  <2> DEFINE j == created + 1
             row == [o.row EXCEPT !.status = "active"]
  <2>1. j \in Ids /\ j = created' /\ row \in Rows /\ row.date = o.row.date /\ o.row.date \in Table
    BY <1>0, <1>2, <1>3, SubscriptionsAssumption DEF Create, Statuses, Ids, OpOK
  <2>2. rows' = [rows EXCEPT ![j] = row] /\ anchor' = [anchor EXCEPT ![j] = o.row.date]
    BY <1>3 DEF Create
  <2> HIDE DEF row
  <2>3. created' \in 0 .. MaxIds /\ created' >= created
    BY <1>0, <1>3, SubscriptionsAssumption DEF Create
  <2>4. rows' \in [Ids -> Rows \union {NoRow}] /\ anchor' \in [Ids -> Table \union {0}]
    BY <1>0, <2>1, <2>2
  <2>5. ASSUME NEW i \in Ids PROVE Handled(i)
    <3>1. CASE i = j
      BY <1>0, <2>1, <2>2, <3>1 DEF Handled, Entered
    <3>2. CASE i # j
      BY <1>0, <2>1, <2>2, <3>2 DEF Handled, Untouched
    <3> QED
      BY <3>1, <3>2
  <2> QED
    BY <2>3, <2>4, <2>5
<1>4. CASE o.kind = "save" /\ Update(o.id, o.row)
  <2> DEFINE j == o.id
             row == [o.row EXCEPT !.status = rows[j].status]
  <2>1. j \in Ids /\ rows[j] # NoRow /\ rows[j] \in Rows /\ o.row.date \in Table
    BY <1>0, <1>4 DEF Update, OpOK
  <2>2. row \in Rows /\ row.date = o.row.date
    <3>1. rows[j].status \in Statuses
      BY <2>1 DEF Rows
    <3> QED
      BY <1>2, <1>4, <3>1
  <2>3. /\ rows' = [rows EXCEPT ![j] = row]
        /\ anchor' = [anchor EXCEPT ![j] = o.row.date] /\ created' = created
    BY <1>4 DEF Update
  <2> HIDE DEF row, j
  <2>4. rows' \in [Ids -> Rows \union {NoRow}] /\ anchor' \in [Ids -> Table \union {0}]
    BY <1>0, <2>1, <2>2, <2>3
  <2>5. ASSUME NEW i \in Ids PROVE Handled(i)
    <3>1. CASE i = j
      BY <1>0, <2>1, <2>2, <2>3, <3>1 DEF Handled, Entered
    <3>2. CASE i # j
      BY <1>0, <2>1, <2>3, <3>2 DEF Handled, Untouched
    <3> QED
      BY <3>1, <3>2
  <2> QED
    BY <1>0, <2>3, <2>4, <2>5
<1>5. CASE o.kind = "status" /\ UpdateStatus(o.id, o.row.status)
  <2> DEFINE j == o.id
             status == o.row.status
  <2>1. j \in Ids /\ rows[j] # NoRow /\ rows[j] \in Rows /\ status \in Statuses
    BY <1>0, <1>5 DEF UpdateStatus, OpOK
  <2>2. rows' = [rows EXCEPT ![j].status = status] /\ anchor' = anchor /\ created' = created
    BY <1>5 DEF UpdateStatus
  <2> HIDE DEF status, j
  <2>3. [rows[j] EXCEPT !.status = status] \in Rows
    BY <2>1 DEF Rows
  <2>4. rows' \in [Ids -> Rows \union {NoRow}] /\ anchor' \in [Ids -> Table \union {0}]
    BY <1>0, <2>1, <2>2, <2>3
  <2>5. ASSUME NEW i \in Ids PROVE Handled(i)
    <3>1. CASE i = j
      BY <1>0, <2>1, <2>2, <3>1 DEF Handled, Switched
    <3>2. CASE i # j
      BY <1>0, <2>1, <2>2, <3>2 DEF Handled, Untouched
    <3> QED
      BY <3>1, <3>2
  <2> QED
    BY <1>0, <2>2, <2>4, <2>5
<1>6. CASE o.kind = "delete" /\ Delete(o.id)
  <2>1. /\ o.id \in Ids /\ rows' = [rows EXCEPT ![o.id] = NoRow]
        /\ anchor' = anchor /\ created' = created
    BY <1>6 DEF Delete, OpOK
  <2>2. rows' \in [Ids -> Rows \union {NoRow}] /\ anchor' \in [Ids -> Table \union {0}]
    BY <1>0, <2>1
  <2>3. ASSUME NEW i \in Ids PROVE Handled(i)
    BY <1>0, <2>1 DEF Handled, Untouched, Removed
  <2> QED
    BY <1>0, <2>1, <2>2, <2>3
<1>7. CASE o.kind = "renew" /\ RenewOverduePayments /\ UNCHANGED <<created, anchor>>
  <2>1. rows' = [i \in Ids |-> IF i \in Moved
                               THEN [rows[i] EXCEPT !.date = Renewed(rows[i].date, rows[i].cycle, now)]
                               ELSE rows[i]]
    BY <1>7 DEF RenewOverduePayments
  <2>2. ASSUME NEW i \in Ids
        PROVE  rows'[i] \in Rows \union {NoRow} /\ Handled(i)
    <3>1. CASE i \in Moved
      <4>1. rows[i] # NoRow /\ rows[i] \in Rows /\ Known(rows[i].cycle)
        BY <1>0, <3>1 DEF Moved, Selected, NoRow
      <4>2. Renewed(rows[i].date, rows[i].cycle, now) \in Table
        BY <4>1, RenewedCatchesUp DEF Rows, TypeOK
      <4>3. rows'[i] = [rows[i] EXCEPT !.date = Renewed(rows[i].date, rows[i].cycle, now)]
        BY <2>1, <3>1
      <4>4. rows'[i] \in Rows
        BY <4>1, <4>2, <4>3 DEF Rows
      <4> QED
        BY <1>7, <4>1, <4>3, <4>4 DEF Handled, MovedOn
    <3>2. CASE i \notin Moved
      BY <1>0, <1>7, <2>1, <3>2 DEF Handled, Untouched
    <3> QED
      BY <3>1, <3>2
  <2>3. rows' \in [Ids -> Rows \union {NoRow}]
    BY <2>1, <2>2
  <2> QED
    BY <1>0, <1>7, <2>2, <2>3
<1> QED
  BY <1>3, <1>4, <1>5, <1>6, <1>7 DEF Handle

\* What of the type invariant the handlers write.
LEMMA HandleType ==
    ASSUME TypeOK, NEW o \in Ops, OpOK(o), Handle(o)
    PROVE  /\ rows' \in Lists /\ anchor' \in [Ids -> Table \union {0}]
           /\ created' \in 0 .. MaxIds /\ \A i \in Ids : rows'[i] # NoRow => i <= created'
<1>1. created \in Int /\ created' \in Int /\ Ids \subseteq Int
  BY HandleRows, SubscriptionsAssumption DEF TypeOK, Ids
<1>2. ASSUME NEW i \in Ids, rows'[i] # NoRow PROVE i <= created'
  <2>1. rows[i] # NoRow => i <= created
    BY DEF TypeOK
  <2>2. Handled(i) /\ created' >= created
    BY HandleRows
  <2>3. rows[i] # NoRow \/ i <= created'
    BY <1>2, <2>2 DEF Handled, Untouched, Switched, Removed, MovedOn
  <2> QED
    BY <1>1, <2>1, <2>2, <2>3
<1> QED
  BY <1>2, HandleRows DEF Lists

-----------------------------------------------------------------------------
(***************************************************************************)
(* The schedule                                                            *)
(***************************************************************************)

Scheduled(row, first) == first \in Table /\ Reached(row, first, now) = row.date
SchedInv == \A i \in Ids : rows[i] # NoRow => Scheduled(rows[i], anchor[i])

\* What is reached depends on nothing of the row but its date and its cycle.
LEMMA HandleSched ==
    ASSUME TypeOK, SchedInv, NEW o \in Ops, OpOK(o), Handle(o), UNCHANGED now
    PROVE  SchedInv'
<1> SUFFICES ASSUME NEW i \in Ids, rows'[i] # NoRow
             PROVE  anchor'[i] \in Table /\ Reached(rows'[i], anchor'[i], now) = rows'[i].date
  BY DEF SchedInv, Scheduled
<1>0. now \in Instants /\ rows[i] \in Rows \union {NoRow} /\ rows'[i] \in Rows
      /\ (rows[i] # NoRow => Scheduled(rows[i], anchor[i]))
  BY HandleRows DEF TypeOK, Lists, SchedInv
<1>1. CASE Untouched(i)
  BY <1>0, <1>1 DEF Untouched, Scheduled
<1>2. CASE Entered(i)
  <2>1. rows'[i].date \in Table /\ rows'[i].date \in Nat
    BY <1>0, TableShape DEF Rows
  <2>2. Reached(rows'[i], rows'[i].date, now) = rows'[i].date
    BY <1>0, <2>1, ReachedSteps
  <2> QED
    BY <1>2, <2>1, <2>2 DEF Entered
<1>3. CASE Switched(i)
  <2>1. rows[i] \in Rows /\ rows'[i].date = rows[i].date /\ rows'[i].cycle = rows[i].cycle
    BY <1>0, <1>3 DEF Switched, Rows
  <2>2. \A x : Reached(rows'[i], x, now) = Reached(rows[i], x, now)
    BY <2>1 DEF Reached
  <2> QED
    BY <1>0, <1>3, <2>1, <2>2 DEF Switched, Scheduled
<1>4. CASE MovedOn(i)
  <2>1. rows[i] \in Rows /\ Scheduled(rows[i], anchor[i])
    BY <1>0, <1>4 DEF MovedOn
  <2>2. rows'[i].date = Renewed(rows[i].date, rows[i].cycle, now)
    BY <1>4, <2>1 DEF MovedOn, Rows
  <2> QED
    BY <1>0, <1>4, <2>1, <2>2, RenewedIsReached DEF MovedOn, Scheduled
<1>5. CASE Removed(i)
  BY <1>5 DEF Removed
<1> QED
  BY <1>1, <1>2, <1>3, <1>4, <1>5, HandleRows DEF Handled

-----------------------------------------------------------------------------
(***************************************************************************)
(* Every step keeps the types                                              *)
(***************************************************************************)

\* What of the type invariant is about the server.
ServerTyped ==
    /\ rows \in Lists /\ created \in 0 .. MaxIds /\ \A i \in Ids : rows[i] # NoRow => i <= created
    /\ now \in Instants /\ writes \in 0 .. MaxWrites /\ anchor \in [Ids -> Table \union {0}]
Places == {"idle", "form", "sent", "done", "unmoved", "list", "listed", "lost"}
PageTyped ==
    /\ list \in Lists /\ wrapped \in BOOLEAN /\ monitored \in BOOLEAN
    /\ pc \in [Calls -> Places] /\ op \in [Calls -> Ops] /\ \A c \in Calls : OpOK(op[c])
    /\ answer \in [Calls -> Lists] /\ crossed \in BOOLEAN

LEMMA TypeParts ==
    /\ Typed <=> ServerTyped /\ PageTyped /\ astray \in BOOLEAN
    /\ Typed' <=> ServerTyped' /\ PageTyped' /\ astray' \in BOOLEAN
BY DEF Typed, TypeOK, ServerTyped, PageTyped, Ops, Places

LEMMA InitTyped == ASSUME Init PROVE Typed
<1>1. 0 \in 0 .. MaxIds /\ 0 \in 0 .. MaxWrites
  BY SubscriptionsAssumption
<1>2. ServerTyped
  BY <1>1, RowShapes DEF Init, ServerTyped, Nothing
<1>3. PageTyped
  BY RowShapes DEF Init, PageTyped, Places
<1> QED
  BY <1>2, <1>3, TypeParts DEF Init

\* A step of the page that puts one chain into another place.
LEMMA MoveTyped ==
    ASSUME Typed, NEW c \in Calls, NEW place \in Places, pc' = [pc EXCEPT ![c] = place],
           \/ UNCHANGED op
           \/ \E o \in Ops : OpOK(o) /\ op' = [op EXCEPT ![c] = o],
           \/ UNCHANGED answer
           \/ \E l \in Lists : answer' = [answer EXCEPT ![c] = l],
           list' \in Lists, wrapped' \in BOOLEAN, monitored' \in BOOLEAN, crossed' \in BOOLEAN
    PROVE  PageTyped'
<1>0. PageTyped
  BY TypeParts
<1>1. pc' \in [Calls -> Places]
  BY <1>0 DEF PageTyped
<1>2. op' \in [Calls -> Ops] /\ \A d \in Calls : OpOK(op'[d])
  <2>1. CASE UNCHANGED op
    BY <1>0, <2>1 DEF PageTyped
  <2>2. ASSUME NEW o \in Ops, OpOK(o), op' = [op EXCEPT ![c] = o]
        PROVE  op' \in [Calls -> Ops] /\ \A d \in Calls : OpOK(op'[d])
    <3>1. \A d \in Calls : op'[d] = IF d = c THEN o ELSE op[d]
      BY <1>0, <2>2 DEF PageTyped
    <3> QED
      BY <1>0, <2>2, <3>1 DEF PageTyped
  <2> QED
    BY <2>1, <2>2
<1>3. answer' \in [Calls -> Lists]
  BY <1>0 DEF PageTyped
<1> QED
  BY <1>1, <1>2, <1>3 DEF PageTyped

LEMMA HandleServer ==
    ASSUME Typed, NEW o \in Ops, OpOK(o), Handle(o), UNCHANGED now, writes' \in 0 .. MaxWrites
    PROVE  ServerTyped'
BY HandleType, TypeParts DEF ServerTyped, Typed

LEMMA StopOps ==
    ASSUME NEW c \in Calls, Stop(c)
    PROVE  /\ \E o \in Ops : OpOK(o) /\ op' = [op EXCEPT ![c] = o]
           /\ \E l \in Lists : answer' = [answer EXCEPT ![c] = l]
BY RowShapes DEF Stop

LEMMA StepTyped == ASSUME Typed, [Next]_vars PROVE Typed'
<1>0. ServerTyped /\ PageTyped /\ astray \in BOOLEAN
  BY TypeParts
<1> DEFINE Server == UNCHANGED <<rows, created, now, anchor>>
<1>w. ASSUME writes < MaxWrites, writes' = writes + 1 PROVE writes' \in 0 .. MaxWrites
  BY <1>0, <1>w, SubscriptionsAssumption DEF ServerTyped
<1>s. ASSUME Server, writes' \in 0 .. MaxWrites PROVE ServerTyped'
  BY <1>0, <1>s DEF ServerTyped
<1>u. writes \in 0 .. MaxWrites
  BY <1>0 DEF ServerTyped
<1>1. CASE Elsewhere
  <2>1. PICK o \in Asked : Handle(o)
    BY <1>1 DEF Elsewhere
  <2>2. ServerTyped'
    BY <1>1, <1>w, <2>1, AskedShape, HandleServer DEF Elsewhere
  <2>3. PageTyped'
    BY <1>0, <1>1 DEF Elsewhere, page, PageTyped
  <2> QED
    BY <1>1, <2>2, <2>3, TypeParts DEF Elsewhere
<1>2. ASSUME NEW c \in Calls, LoadPage(c) PROVE Typed'
  <2>1. [NoOp EXCEPT !.kind = "init"] \in Ops /\ OpOK([NoOp EXCEPT !.kind = "init"])
    BY RowShapes DEF Kinds
  <2>2. PageTyped'
    BY <1>0, <1>2, <2>1, RowShapes, MoveTyped DEF LoadPage, Goto, Places, PageTyped
  <2> QED
    BY <1>0, <1>2, <1>s, <1>u, <2>2, TypeParts DEF LoadPage
<1>3. ASSUME NEW c \in Calls, MonitorDateChange(c) PROVE Typed'
  <2>1. [NoOp EXCEPT !.kind = "renew"] \in Ops /\ OpOK([NoOp EXCEPT !.kind = "renew"])
    BY RowShapes DEF Kinds
  <2>2. CASE wrapped
    <3>1. /\ pc' = [pc EXCEPT ![c] = "sent"]
          /\ op' = [op EXCEPT ![c] = [NoOp EXCEPT !.kind = "renew"]]
          /\ monitored' = TRUE /\ crossed' \in BOOLEAN /\ UNCHANGED <<list, wrapped, answer>>
      BY <1>0, <1>3, <2>2 DEF MonitorDateChange, Goto, Begin, PageTyped
    <3> QED
      BY <1>0, <1>3, <1>s, <1>u, <2>1, <3>1, MoveTyped, TypeParts
         DEF MonitorDateChange, Places, PageTyped
  <2>3. CASE ~wrapped
    <3>1. PageTyped'
      BY <1>0, <1>3, <2>3 DEF MonitorDateChange, PageTyped
    <3> QED
      BY <1>0, <1>3, <1>s, <1>u, <3>1, TypeParts DEF MonitorDateChange
  <2> QED
    BY <2>2, <2>3
<1>4. ASSUME NEW c \in Calls, NEW i \in Ids, OpenForm(c, i) PROVE Typed'
  <2> DEFINE o == [kind |-> "save", id |-> i,
                   row |-> [list[i] EXCEPT !.cycle = Shown(list[i].cycle)]]
  <2>1. list[i] \in Rows
    BY <1>0, <1>4 DEF OpenForm, PageTyped, Lists
  <2>2. Shown(list[i].cycle) \in Cycles
    BY SubscriptionsAssumption DEF Shown, Offered
  <2>3. o \in Ops /\ OpOK(o)
    <3>1. o.row \in Rows
      BY <2>1, <2>2 DEF Rows
    <3>2. o.row \in Fields /\ o.row.date \in Table /\ o.row.cycle \in Cycles
      BY <3>1, RowShapes DEF Rows
    <3>3. i \in 0 .. MaxIds
      BY SubscriptionsAssumption DEF Ids
    <3> QED
      BY <3>2, <3>3 DEF Ops, OpOK, Kinds
  <2>4. /\ pc' = [pc EXCEPT ![c] = "form"] /\ op' = [op EXCEPT ![c] = o]
        /\ crossed' \in BOOLEAN /\ UNCHANGED <<list, wrapped, monitored, answer>>
    BY <1>0, <1>4 DEF OpenForm, Goto, Begin, PageTyped
  <2> HIDE DEF o
  <2>5. PageTyped'
    BY <1>0, <2>3, <2>4, MoveTyped DEF PageTyped, Places
  <2> QED
    BY <1>0, <1>4, <1>s, <1>u, <2>5, TypeParts DEF OpenForm
<1>5. ASSUME NEW c \in Calls, SaveForm(c) PROVE Typed'
  <2>1. PICK d \in Dates \union {op[c].row.date}, cycle \in Offered :
            op' = [op EXCEPT ![c].row = [op[c].row EXCEPT !.date = d, !.cycle = cycle]]
    BY <1>5 DEF SaveForm
  <2> DEFINE o == [op[c] EXCEPT !.row = [op[c].row EXCEPT !.date = d, !.cycle = cycle]]
  <2>2. op[c] \in Ops /\ OpOK(op[c]) /\ op[c].row \in Fields
    BY <1>0 DEF PageTyped, Ops
  <2>3. /\ cycle \in Cycles /\ d \in Table \union {0}
        /\ (op[c].kind \in {"create", "save"} => d \in Table)
    BY <2>2, TableShape DEF Offered, OpOK, Fields
  <2>4. [op[c].row EXCEPT !.date = d, !.cycle = cycle] \in Fields
    BY <2>2, <2>3 DEF Fields
  <2>5. o \in Ops /\ o.kind = op[c].kind /\ o.id = op[c].id /\ o.row.date = d /\ o.row.cycle = cycle
        /\ o.row.status = op[c].row.status
    BY <2>2, <2>4 DEF Ops, Fields
  <2>6. OpOK(o)
    <3> HIDE DEF o
    <3> QED
      BY <2>2, <2>3, <2>5 DEF OpOK
  <2>7. op' = [op EXCEPT ![c] = o] /\ pc' = [pc EXCEPT ![c] = "sent"]
    BY <1>5, <2>1 DEF SaveForm, Goto
  <2> HIDE DEF o
  <2>8. PageTyped'
    BY <1>0, <1>5, <2>5, <2>6, <2>7, MoveTyped DEF SaveForm, PageTyped, Places
  <2> QED
    BY <1>0, <1>5, <1>s, <1>w, <2>8, TypeParts DEF SaveForm
<1>6. ASSUME NEW c \in Calls, NEW o \in Asked, Press(c, o) PROVE Typed'
  <2>1. /\ pc' = [pc EXCEPT ![c] = "sent"] /\ op' = [op EXCEPT ![c] = o]
        /\ crossed' \in BOOLEAN /\ UNCHANGED <<list, wrapped, monitored, answer>>
    BY <1>0, <1>6 DEF Press, Goto, Begin, PageTyped
  <2>2. PageTyped'
    BY <1>0, <2>1, AskedShape, MoveTyped DEF PageTyped, Places
  <2> QED
    BY <1>0, <1>6, <1>s, <1>w, <2>2, TypeParts DEF Press
<1>7. ASSUME NEW c \in Calls, OpenList(c) PROVE Typed'
  <2>1. [NoOp EXCEPT !.kind = "view"] \in Ops /\ OpOK([NoOp EXCEPT !.kind = "view"])
    BY RowShapes DEF Kinds
  <2>2. /\ pc' = [pc EXCEPT ![c] = "list"] /\ op' = [op EXCEPT ![c] = [NoOp EXCEPT !.kind = "view"]]
        /\ crossed' \in BOOLEAN /\ UNCHANGED <<list, wrapped, monitored, answer>>
    BY <1>0, <1>7 DEF OpenList, Goto, Begin, PageTyped
  <2>3. PageTyped'
    BY <1>0, <2>1, <2>2, MoveTyped DEF PageTyped, Places
  <2> QED
    BY <1>0, <1>7, <1>s, <1>u, <2>3, TypeParts DEF OpenList
<1>8. ASSUME NEW c \in Calls, Serve(c) PROVE Typed'
  <2>1. op[c] \in Ops /\ OpOK(op[c])
    BY <1>0 DEF PageTyped
  <2>2. UNCHANGED <<now, list, wrapped, monitored, answer, writes, crossed>>
    BY <1>8 DEF Serve
  <2>3. ServerTyped'
    <3>1. CASE Handle(op[c])
      BY <1>u, <2>1, <2>2, <3>1, HandleServer
    <3>2. CASE UNCHANGED <<rows, created, anchor>>
      BY <1>s, <1>u, <2>2, <3>2
    <3> QED
      BY <1>8, <3>1, <3>2 DEF Serve
  <2>4. PageTyped'
    <3>1. CASE UNCHANGED op /\ \E place \in {"done", "unmoved"} : pc' = [pc EXCEPT ![c] = place]
      BY <1>0, <2>2, <3>1, MoveTyped DEF PageTyped, Places
    <3>2. CASE pc' = [pc EXCEPT ![c] = "idle"] /\ op' = [op EXCEPT ![c] = NoOp]
      BY <1>0, <2>2, <3>2, RowShapes, MoveTyped DEF PageTyped, Places
    <3> QED
      BY <1>8, <3>1, <3>2 DEF Serve, Goto
  <2>5. astray' \in BOOLEAN
    BY <1>0, <1>8 DEF Serve
  <2> QED
    BY <2>3, <2>4, <2>5, TypeParts
<1>9. ASSUME NEW c \in Calls, ReadAnswer(c) PROVE Typed'
  <2>1. list' \in Lists
    <3>1. CASE pc[c] = "done" /\ op[c].kind = "status" /\ list[op[c].id] # NoRow
      <4>1. /\ op[c].id \in Ids /\ op[c].row.status \in Statuses
            /\ list \in [Ids -> Rows \union {NoRow}]
        BY <1>0, <3>1 DEF PageTyped, OpOK, Lists
      <4>2. [list[op[c].id] EXCEPT !.status = op[c].row.status] \in Rows
        BY <3>1, <4>1 DEF Rows
      <4>3. list' = [list EXCEPT ![op[c].id] = [list[op[c].id] EXCEPT !.status = op[c].row.status]]
        BY <1>9, <3>1 DEF ReadAnswer, Goto
      <4> QED
        BY <4>1, <4>2, <4>3 DEF Lists
    <3>2. CASE ~(pc[c] = "done" /\ op[c].kind = "status" /\ list[op[c].id] # NoRow)
      BY <1>0, <1>9, <3>2 DEF ReadAnswer, Goto, PageTyped
    <3> QED
      BY <3>1, <3>2
  <2>2. UNCHANGED <<wrapped, monitored, crossed>>
    BY <1>9 DEF ReadAnswer
  <2>3. PageTyped'
    <3>1. CASE pc' = [pc EXCEPT ![c] = "list"] /\ UNCHANGED <<op, answer>>
      BY <1>0, <2>1, <2>2, <3>1, MoveTyped DEF PageTyped, Places
    <3>2. CASE pc' = [pc EXCEPT ![c] = "idle"] /\ Stop(c)
      BY <1>0, <2>1, <2>2, <3>2, StopOps, MoveTyped DEF PageTyped, Places
    <3> QED
      BY <1>9, <3>1, <3>2 DEF ReadAnswer, Goto
  <2> QED
    BY <1>0, <1>9, <1>s, <1>u, <2>3, TypeParts DEF ReadAnswer
<1>10. ASSUME NEW c \in Calls, ServeList(c) PROVE Typed'
  <2>1. UNCHANGED <<list, wrapped, monitored, op, crossed>> /\ rows \in Lists
    BY <1>0, <1>10 DEF ServeList, ServerTyped
  <2>2. PageTyped'
    <3>1. CASE pc' = [pc EXCEPT ![c] = "listed"] /\ answer' = [answer EXCEPT ![c] = rows]
      BY <1>0, <2>1, <3>1, MoveTyped DEF PageTyped, Places
    <3>2. CASE pc' = [pc EXCEPT ![c] = "lost"] /\ UNCHANGED answer
      BY <1>0, <2>1, <3>2, MoveTyped DEF PageTyped, Places
    <3> QED
      BY <1>10, <3>1, <3>2 DEF ServeList, Goto
  <2> QED
    BY <1>0, <1>10, <1>s, <1>u, <2>2, TypeParts DEF ServeList
<1>11. ASSUME NEW c \in Calls, ReadList(c) PROVE Typed'
  <2>1. /\ pc' = [pc EXCEPT ![c] = "idle"] /\ Stop(c) /\ UNCHANGED <<monitored, crossed>>
        /\ list' \in Lists /\ wrapped' \in BOOLEAN
    BY <1>0, <1>11, RowShapes DEF ReadList, PageTyped
  <2>2. PageTyped'
    BY <1>0, <2>1, StopOps, MoveTyped DEF PageTyped, Places
  <2> QED
    BY <1>0, <1>11, <1>s, <1>u, <2>2, TypeParts DEF ReadList
<1>12. ASSUME NEW c \in Calls, CloseForm(c) PROVE Typed'
  <2>1. /\ pc' = [pc EXCEPT ![c] = "idle"] /\ Stop(c)
        /\ UNCHANGED <<list, wrapped, monitored, crossed>>
    BY <1>12 DEF CloseForm, Goto
  <2>2. PageTyped'
    BY <1>0, <2>1, StopOps, MoveTyped DEF PageTyped, Places
  <2> QED
    BY <1>0, <1>12, <1>s, <1>u, <2>2, TypeParts DEF CloseForm
<1>13. CASE Tick
  <2>1. ServerTyped'
    BY <1>0, <1>13 DEF Tick, ServerTyped
  <2>2. PageTyped'
    BY <1>0, <1>13 DEF Tick, page, PageTyped
  <2> QED
    BY <1>0, <1>13, <2>1, <2>2, TypeParts DEF Tick
<1>14. CASE UNCHANGED vars
  BY <1>0, <1>14, TypeParts DEF vars, ServerTyped, PageTyped
<1> QED
  BY <1>1, <1>2, <1>3, <1>4, <1>5, <1>6, <1>7, <1>8, <1>9, <1>10, <1>11, <1>12,
     <1>13, <1>14 DEF Next

-----------------------------------------------------------------------------
(***************************************************************************)
(* Every step keeps the schedule, and the page's copy                      *)
(***************************************************************************)

\* The rows change by a handler or not at all; the clock only goes on.
LEMMA StepRows ==
    ASSUME Typed, [Next]_vars
    PROVE  \/ UNCHANGED <<rows, created, anchor>> /\ now' \in Instants /\ now <= now'
           \/ \E o \in Ops : OpOK(o) /\ Handle(o) /\ UNCHANGED now
<1>0. \A c \in Calls : op[c] \in Ops /\ OpOK(op[c])
  BY TypeParts DEF PageTyped
<1>1. now \in Instants /\ now \in Nat
  BY TypeParts, TableShape DEF ServerTyped
<1>2. CASE Elsewhere
  BY <1>2, AskedShape DEF Elsewhere
<1>3. ASSUME NEW c \in Calls, Serve(c)
      PROVE  \/ UNCHANGED <<rows, created, anchor, now>>
             \/ Handle(op[c]) /\ UNCHANGED now
  BY <1>3 DEF Serve
<1>4. CASE Tick
  <2>1. now' \in Instants /\ now' > now /\ UNCHANGED <<rows, created, anchor>>
    BY <1>4 DEF Tick
  <2> QED
    BY <1>1, <2>1, TableShape
<1>5. CASE \E c \in Calls :
              \/ LoadPage(c) \/ MonitorDateChange(c) \/ (\E i \in Ids : OpenForm(c, i))
              \/ SaveForm(c) \/ (\E o \in Asked : Press(c, o)) \/ OpenList(c)
              \/ ReadAnswer(c) \/ ServeList(c) \/ ReadList(c) \/ CloseForm(c)
  <2>1. UNCHANGED <<rows, created, anchor, now>>
    BY <1>5 DEF LoadPage, MonitorDateChange, OpenForm, SaveForm, Press, OpenList, ReadAnswer,
                ServeList, ReadList, CloseForm
  <2> QED
    BY <1>1, <2>1
<1>6. CASE UNCHANGED vars
  BY <1>1, <1>6 DEF vars
<1> QED
  BY <1>0, <1>1, <1>2, <1>3, <1>4, <1>5, <1>6 DEF Next

LEMMA StepSched == ASSUME Typed, SchedInv, [Next]_vars PROVE SchedInv'
<1>0. now \in Instants
  BY TypeParts DEF ServerTyped
<1>1. CASE UNCHANGED <<rows, created, anchor>> /\ now' \in Instants /\ now <= now'
  BY <1>0, <1>1, ReachedLaterOn DEF SchedInv, Scheduled
<1>2. ASSUME NEW o \in Ops, OpOK(o), Handle(o), UNCHANGED now PROVE SchedInv'
  BY <1>2, HandleSched DEF Typed
<1> QED
  BY <1>1, <1>2, StepRows

\* What the query reads it reads whole: after the handler, no active row that
\* the server can renew is overdue by more than the text comparison misses.
LEMMA RenewCatchesUp ==
    ASSUME Typed, RenewOverduePayments, NEW i \in Ids,
           rows'[i].status = "active", Known(rows'[i].cycle)
    PROVE  ~Before(rows'[i].date, Reach)
<1>0. now \in Instants /\ rows[i] \in Rows \union {NoRow}
  BY TypeParts DEF ServerTyped, Lists
<1>1. now \in Nat /\ ZoneAhead \in Int /\ Reach \in Int /\ Reach <= now /\ Reach <= now + ZoneAhead
  BY <1>0, TableShape, SubscriptionsAssumption DEF Reach
<1>2. CASE i \in Moved
  <2>1. rows'[i] = [rows[i] EXCEPT !.date = Renewed(rows[i].date, rows[i].cycle, now)]
    BY <1>2 DEF RenewOverduePayments
  <2>2. rows[i] \in Rows /\ Known(rows[i].cycle)
    BY <1>0, <1>2 DEF Moved, Selected, NoRow
  <2> DEFINE next == Renewed(rows[i].date, rows[i].cycle, now)
  <2>3. rows'[i].date = next
    BY <2>1, <2>2 DEF Rows
  <2>4. next \in Nat /\ ~Before(next, now)
    BY <1>0, <2>2, RenewedCatchesUp, TableShape DEF Rows
  <2> HIDE DEF next
  <2> QED
    BY <1>1, <2>3, <2>4 DEF Before
<1>3. CASE i \notin Moved
  <2>1. rows'[i] = rows[i]
    BY <1>3 DEF RenewOverduePayments
  <2>2. rows[i] \in Rows /\ rows[i].status = "active" /\ Known(rows[i].cycle)
    BY <1>0, <2>1 DEF NoRow
  <2>3. rows[i].date \in Nat
    BY <2>2, TableShape DEF Rows
  <2>4. ~(2 * rows[i].date < now + ZoneAhead) \/ ~Before(rows[i].date, now)
    BY <1>3, <2>2 DEF Moved, Selected, Overdue
  <2> QED
    BY <1>1, <2>1, <2>3, <2>4 DEF Before
<1> QED
  BY <1>2, <1>3

\* Only the server's answer takes a renewal on from where it was sent.
LEMMA StepCatchesUp ==
    ASSUME Typed, [Next]_vars, NEW c \in Calls, pc[c] = "sent", op[c].kind = "renew",
           pc'[c] \in {"done", "unmoved"}, NEW i \in Ids,
           rows'[i].status = "active", Known(rows'[i].cycle)
    PROVE  ~Before(rows'[i].date, Reach)
<1>0. pc \in [Calls -> Places]
  BY TypeParts DEF PageTyped
<1>1. CASE \E d \in Calls : Serve(d)
  <2>1. PICK d \in Calls : Serve(d)
    BY <1>1
  <2>2. \E place \in Places : pc' = [pc EXCEPT ![d] = place]
    BY <2>1 DEF Serve, Goto, Places
  <2>3. c = d
    BY <1>0, <2>2
  <2>4. pc' # [pc EXCEPT ![c] = "idle"]
    BY <1>0
  <2>5. Handle(op[c])
    BY <2>1, <2>3, <2>4 DEF Serve, Goto
  <2>6. RenewOverduePayments
    BY <2>5 DEF Handle
  <2> QED
    BY <2>6, RenewCatchesUp
<1>2. CASE ~ \E d \in Calls : Serve(d)
  <2>1. CASE Elsewhere \/ Tick \/ UNCHANGED vars
    BY <2>1 DEF Elsewhere, Tick, vars, page
  <2>2. ASSUME NEW d \in Calls,
               \/ LoadPage(d) \/ MonitorDateChange(d) \/ (\E j \in Ids : OpenForm(d, j))
               \/ SaveForm(d) \/ (\E o \in Asked : Press(d, o)) \/ OpenList(d)
               \/ ReadAnswer(d) \/ ServeList(d) \/ ReadList(d) \/ CloseForm(d)
        PROVE  \/ UNCHANGED pc
               \/ pc[d] # "sent" /\ \E place : pc' = [pc EXCEPT ![d] = place]
    BY <2>2 DEF LoadPage, MonitorDateChange, OpenForm, SaveForm, Press, OpenList, ReadAnswer,
                ServeList, ReadList, CloseForm, Goto
  <2>3. ASSUME NEW d \in Calls, NEW place, pc[d] # "sent", pc' = [pc EXCEPT ![d] = place]
        PROVE  FALSE
    BY <1>0, <2>3
  <2> QED
    BY <1>2, <2>1, <2>2, <2>3 DEF Next
<1> QED
  BY <1>1, <1>2

\* Chains that never crossed are under way one at a time.
Lone == \A c \in Calls, d \in Calls : pc[c] # "idle" /\ pc[d] # "idle" => c = d

\* What the copy, or the list on its way to it, then is.
Copied ==
    /\ Quiet => list = rows
    /\ \A c \in Calls :
          /\ pc[c] \in {"form", "sent", "unmoved"} => list = rows
          /\ pc[c] = "listed" => answer[c] = rows
          /\ pc[c] # "lost"

CopyInv == ~crossed => Lone /\ (~astray => Copied)

LEMMA StepCopy == ASSUME Typed, CopyInv, [Next]_vars PROVE CopyInv'
<1>0. /\ pc \in [Calls -> Places] /\ answer \in [Calls -> Lists]
      /\ crossed \in BOOLEAN /\ astray \in BOOLEAN
  BY TypeParts DEF PageTyped
\* A chain begins.
<1>1. ASSUME NEW c \in Calls, pc[c] = "idle", NEW place \in {"form", "sent", "list"},
             pc' = [pc EXCEPT ![c] = place], Begin, UNCHANGED <<list, rows, answer, astray>>
      PROVE  CopyInv'
  <2> SUFFICES ASSUME ~crossed' PROVE Lone' /\ (~astray => Copied')
    BY <1>1 DEF CopyInv
  <2>1. Quiet /\ ~crossed
    BY <1>0, <1>1 DEF Begin
  <2>2. \A d \in Calls : pc'[d] = IF d = c THEN place ELSE "idle"
    BY <1>0, <1>1, <2>1 DEF Quiet
  <2>3. Lone'
    BY <2>2 DEF Lone
  <2>4. ~astray => Copied'
    BY <1>1, <2>1, <2>2 DEF CopyInv, Copied, Quiet
  <2> QED
    BY <2>3, <2>4
\* It goes on or ends.
<1>2. ASSUME NEW c \in Calls, pc[c] # "idle", NEW place \in Places, pc' = [pc EXCEPT ![c] = place],
             UNCHANGED crossed,
             ~crossed /\ Lone /\ ~astray' =>
                /\ place \in {"idle", "form", "sent", "unmoved"} => list' = rows'
                /\ place = "listed" => answer'[c] = rows'
                /\ place # "lost"
      PROVE  CopyInv'
  <2> SUFFICES ASSUME ~crossed PROVE Lone' /\ (~astray' => Copied')
    BY <1>2 DEF CopyInv
  <2>1. \A d \in Calls : pc'[d] = IF d = c THEN place ELSE "idle"
    BY <1>0, <1>2 DEF CopyInv, Lone
  <2>2. Lone'
    BY <2>1 DEF Lone
  <2>3. ~astray' => Copied'
    BY <1>2, <2>1 DEF CopyInv, Copied, Quiet
  <2> QED
    BY <2>2, <2>3
<1>3. ASSUME NEW c \in Calls, LoadPage(c) PROVE CopyInv'
  <2>1. \A d \in Calls : pc'[d] = IF d = c THEN "list" ELSE "idle"
    BY <1>0, <1>3 DEF LoadPage, Goto, Quiet
  <2> QED
    BY <2>1 DEF CopyInv, Lone, Copied, Quiet
<1>4. ASSUME NEW c \in Calls, MonitorDateChange(c) PROVE CopyInv'
  <2>1. CASE wrapped
    BY <1>1, <1>4, <2>1 DEF MonitorDateChange, Goto
  <2>2. CASE ~wrapped
    BY <1>4, <2>2 DEF MonitorDateChange, CopyInv, Lone, Copied, Quiet
  <2> QED
    BY <2>1, <2>2
<1>5. ASSUME NEW c \in Calls,
             (\E i \in Ids : OpenForm(c, i)) \/ (\E o \in Asked : Press(c, o)) \/ OpenList(c)
      PROVE  CopyInv'
  BY <1>1, <1>5 DEF OpenForm, Press, OpenList, Goto
<1>6. ASSUME NEW c \in Calls, SaveForm(c) PROVE CopyInv'
  <2>1. ~crossed /\ ~astray => list = rows
    BY <1>6 DEF SaveForm, Goto, CopyInv, Copied
  <2> QED
    BY <1>2, <1>6, <2>1 DEF SaveForm, Goto, Places
<1>7. ASSUME NEW c \in Calls, Serve(c) PROVE CopyInv'
  <2>1. pc[c] = "sent" /\ UNCHANGED <<list, crossed>>
    BY <1>7 DEF Serve, Goto
  <2>2. ~crossed /\ ~astray => list = rows
    BY <2>1 DEF CopyInv, Copied
  <2>3. CASE pc' = [pc EXCEPT ![c] = "done"]
    BY <1>2, <2>1, <2>3 DEF Places
  <2>4. CASE /\ pc' = [pc EXCEPT ![c] = "idle"]
             /\ UNCHANGED <<rows, astray>> \/ astray' = TRUE
    BY <1>2, <2>1, <2>2, <2>4 DEF Places
  <2>5. CASE /\ pc' = [pc EXCEPT ![c] = "unmoved"]
             /\ op[c].kind = "renew" /\ Moved = {} /\ Handle(op[c]) /\ UNCHANGED astray
    <3>1. rows' = [i \in Ids |-> IF i \in {} THEN [rows[i] EXCEPT !.date = Renewed(rows[i].date, rows[i].cycle, now)] ELSE rows[i]]
      BY <2>5 DEF Handle, RenewOverduePayments
    <3>2. rows \in [Ids -> Rows \union {NoRow}]
      BY TypeParts DEF ServerTyped, Lists
    <3>3. rows' = rows
      BY <3>1, <3>2
    <3> QED
      BY <1>2, <2>1, <2>2, <2>5, <3>3 DEF Places
  <2> QED
    BY <1>7, <2>3, <2>4, <2>5 DEF Serve, Goto
<1>8. ASSUME NEW c \in Calls, ReadAnswer(c) PROVE CopyInv'
  <2>1. CASE pc[c] = "done" /\ pc' = [pc EXCEPT ![c] = "list"]
    BY <1>2, <1>8, <2>1 DEF ReadAnswer, Places
  <2>2. CASE pc[c] = "unmoved" /\ pc' = [pc EXCEPT ![c] = "idle"]
    <3>1. UNCHANGED <<list, rows, crossed, astray>>
      BY <1>8, <2>2 DEF ReadAnswer, Goto
    <3> QED
      BY <1>2, <2>2, <3>1 DEF CopyInv, Copied, Places
  <2> QED
    BY <1>8, <2>1, <2>2 DEF ReadAnswer, Goto
<1>9. ASSUME NEW c \in Calls, ServeList(c) PROVE CopyInv'
  <2>1. pc[c] = "list" /\ UNCHANGED <<rows, crossed>>
    BY <1>9 DEF ServeList, Goto
  <2>2. CASE pc' = [pc EXCEPT ![c] = "listed"] /\ answer' = [answer EXCEPT ![c] = rows]
    <3>1. answer'[c] = rows
      BY <1>0, <2>2
    <3> QED
      BY <1>2, <2>1, <2>2, <3>1 DEF Places
  <2>3. CASE pc' = [pc EXCEPT ![c] = "lost"] /\ astray' = TRUE
    BY <1>2, <2>1, <2>3 DEF Places
  <2> QED
    BY <1>9, <2>2, <2>3 DEF ServeList, Goto
<1>10. ASSUME NEW c \in Calls, ReadList(c) PROVE CopyInv'
  <2>1. ~crossed /\ ~astray => pc[c] = "listed" /\ answer[c] = rows
    BY <1>10 DEF ReadList, CopyInv, Copied
  <2> QED
    BY <1>2, <1>10, <2>1 DEF ReadList, Places
<1>11. ASSUME NEW c \in Calls, CloseForm(c) PROVE CopyInv'
  <2>1. ~crossed /\ ~astray => list = rows
    BY <1>11 DEF CloseForm, Goto, CopyInv, Copied
  <2> QED
    BY <1>2, <1>11, <2>1 DEF CloseForm, Goto, Places
<1>12. CASE Elsewhere
  BY <1>12 DEF Elsewhere, page, CopyInv, Lone
<1>13. CASE Tick \/ UNCHANGED vars
  BY <1>13 DEF Tick, vars, page, CopyInv, Lone, Copied, Quiet
<1> QED
  BY <1>3, <1>4, <1>5, <1>6, <1>7, <1>8, <1>9, <1>10, <1>11, <1>12, <1>13 DEF Next

-----------------------------------------------------------------------------
(***************************************************************************)
(* Theorems                                                                *)
(***************************************************************************)

LEMMA SpecTyped == Spec => []Typed
BY InitTyped, StepTyped, PTL DEF Spec

LEMMA SpecSched == Spec => []SchedInv
<1>1. Init => SchedInv
  BY DEF Init, Nothing, SchedInv
<1> QED
  BY <1>1, SpecTyped, StepSched, PTL DEF Spec

\* The types of rows, copies and requests; above all, no handler puts a row
\* where none was created, and a renewal finds a date.
THEOREM SubscriptionsTyped == Spec => []TypeOK
<1>1. Typed => TypeOK
  BY DEF Typed
<1> QED
  BY <1>1, SpecTyped, PTL

\* Whatever renewals, edits from old copies and other clients there were, the
\* next payment is on the schedule that begins with the date last entered, and
\* RenewOverduePayments has skipped none that is still to come.
THEOREM PaymentsOnSchedule == Spec => []OnSchedule
<1>1. SchedInv => OnSchedule
  BY DEF SchedInv, Scheduled, OnSchedule
<1> QED
  BY <1>1, SpecSched, PTL

\* However long payments are overdue, one answered renewal leaves no active
\* subscription with a cycle the server knows overdue, for any months, offset
\* and other rows; west of UTC, those overdue by less than the offset may stay.
THEOREM RenewalsCatchUp == Spec => RenewalCatchesUp
<1>1. Typed /\ [Next]_vars =>
        [\A c \in Calls :
          pc[c] = "sent" /\ op[c].kind = "renew" /\ pc'[c] \in {"done", "unmoved"} =>
              \A i \in Ids : rows'[i].status = "active" /\ Known(rows'[i].cycle) =>
                                ~Before(rows'[i].date, Reach)]_vars
  BY StepCatchesUp
<1> QED
  BY <1>1, SpecTyped, PTL DEF Spec, RenewalCatchesUp

\* With nothing under way, the page's copy is what the server has, unless chains
\* of requests crossed, another client wrote, or something was lost: whatever
\* was done, loadSubscriptions comes last.
THEOREM CopyFollows == Spec => []ListFollows
<1>1. Init => CopyInv
  BY DEF Init, CopyInv, Lone, Copied, Quiet
<1>2. CopyInv => ListFollows
  BY DEF CopyInv, Copied, ListFollows
<1> QED
  BY <1>1, <1>2, SpecTyped, StepCopy, PTL DEF Spec
=============================================================================
