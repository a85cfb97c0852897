-------------------------- MODULE RateLimiterProofs -------------------------
(***************************************************************************)
(* The rate limiter of log.go implements one window per visitor, for every *)
(* limit, window length and number of visitors.  The proof needs only that *)
(* entries are well-typed: an entry that is forgotten is older than its    *)
(* window, so the abstract window is closed by then.                       *)
(***************************************************************************)
EXTENDS RateLimiter, FiniteSetTheorems, TLAPS

EntriesOK == entry \in [Ips -> Entries]

\* Counting a request keeps an entry well-typed.
LEMMA CountedType ==
    ASSUME NEW e \in Entries
    PROVE  /\ Counted(e) \in Entries
           /\ Counted(e) # NoEntry
           /\ Counted(e).age \in 0 .. (Keep + 1)
           /\ Counted(e).count \in Nat \ {0}
<1>1. CASE e = NoEntry
  BY <1>1, LimiterAssumption DEF Counted, Entries, NoEntry
<1>2. CASE e # NoEntry
  <2>1. e \in [count : Nat, age : 0 .. (Keep + 1)]
    BY <1>2 DEF Entries
  <2> QED
    BY <2>1, LimiterAssumption DEF Counted, Entries, NoEntry
<1> QED
  BY <1>1, <1>2

LEMMA OlderType ==
    ASSUME NEW e \in Entries
    PROVE  Older(e) \in Entries
<1>1. CASE e = NoEntry
  BY <1>1 DEF Older
<1>2. CASE e # NoEntry
  BY <1>2, LimiterAssumption DEF Older, Entries, NoEntry
<1> QED
  BY <1>1, <1>2

LEMMA EntriesInvariant == Spec => []EntriesOK
<1>1. Init => EntriesOK
  BY DEF Init, EntriesOK, Entries
<1>2. EntriesOK /\ [Next]_vars => EntriesOK'
  <2> SUFFICES ASSUME EntriesOK, [Next]_vars
               PROVE  EntriesOK'
    OBVIOUS
  <2>1. ASSUME NEW ip \in Ips, CheckRateLimit(ip)
        PROVE  EntriesOK'
    <3>1. Counted(entry[ip]) \in Entries
      BY CountedType DEF EntriesOK
    <3> QED
      BY <2>1, <3>1 DEF CheckRateLimit, EntriesOK
  <2>2. CASE CleanupMaps
    BY <2>2 DEF CleanupMaps, EntriesOK, Entries
  <2>3. CASE Tick
    BY <2>3, OlderType DEF Tick, EntriesOK
  <2>4. CASE UNCHANGED vars
    BY <2>4 DEF vars, EntriesOK
  <2> QED
    BY <2>1, <2>2, <2>3, <2>4 DEF Next
<1> QED
  BY <1>1, <1>2, PTL DEF Spec

\* A request is counted as the next of this tick, and a tick makes all older.
LEMMA ShiftedType ==
    ASSUME NEW requests \in SUBSET Requests
    PROVE  /\ Shifted(requests) \in SUBSET Requests
           /\ \A q \in Shifted(requests) : q.age # 0
BY LimiterAssumption DEF Shifted, Requests

LEMMA NewType ==
    ASSUME NEW n \in Nat, n + 1 <= MaxAsked
    PROVE  [age |-> 0, nr |-> n + 1] \in Requests
BY LimiterAssumption DEF Requests

Finite == \A ip \in Ips : IsFiniteSet(asked[ip]) /\ IsFiniteSet(passed[ip])

Typed == TypeOK /\ EntriesOK /\ Finite

New(ip) == [age |-> 0, nr |-> Cardinality({r \in asked[ip] : r.age = 0}) + 1]

LEMMA NewRequest ==
    ASSUME TypeOK, Finite, NEW ip \in Ips, CheckRateLimit(ip)
    PROVE  /\ New(ip) \in Requests
           /\ asked' = [asked EXCEPT ![ip] = @ \union {New(ip)}]
           /\ passed' \in {passed, [passed EXCEPT ![ip] = @ \union {New(ip)}]}
<1>1. Cardinality({r \in asked[ip] : r.age = 0}) \in Nat
  BY FS_Subset, FS_CardinalityType DEF Finite
<1>2. New(ip).nr <= MaxAsked
  BY DEF CheckRateLimit, New
<1>3. New(ip) \in Requests
  BY <1>1, <1>2, NewType DEF New
<1>4. passed \in [Ips -> SUBSET Requests]
  BY DEF TypeOK
<1>5. passed' = [passed EXCEPT ![ip] = @ \union {New(ip)}] \/ passed' = [passed EXCEPT ![ip] = @]
  BY DEF CheckRateLimit, New
<1> QED
  BY <1>3, <1>4, <1>5 DEF CheckRateLimit, New

LEMMA ShiftedFinite ==
    ASSUME NEW requests \in SUBSET Requests, IsFiniteSet(requests)
    PROVE  /\ IsFiniteSet(Shifted(requests))
           /\ Cardinality(Shifted(requests)) <= Cardinality(requests)
           /\ (\A r \in requests : r.age < Window) => Cardinality(Shifted(requests)) = Cardinality(requests)
<1> DEFINE young == {q \in requests : q.age < Window}
           f == [r \in young |-> [r EXCEPT !.age = @ + 1]]
<1>1. IsFiniteSet(young) /\ Cardinality(young) <= Cardinality(requests)
  BY FS_Subset
<1>2. f \in Surjection(young, Shifted(requests))
  BY DEF Surjection, Shifted
<1>3. ASSUME NEW a \in young, NEW b \in young, f[a] = f[b] PROVE a = b
  <2>1. a \in Requests /\ b \in Requests
    OBVIOUS
  <2>2. f[a].age = a.age + 1 /\ f[b].age = b.age + 1 /\ f[a].nr = a.nr /\ f[b].nr = b.nr
    BY <2>1 DEF Requests
  <2>3. a.age \in Nat /\ b.age \in Nat
    BY <2>1, LimiterAssumption DEF Requests
  <2>4. a.age = b.age /\ a.nr = b.nr
    <3> HIDE DEF f
    <3>1. a.age + 1 = b.age + 1 /\ a.nr = b.nr
      BY <1>3, <2>2
    <3> QED
      BY <2>3, <3>1
  <2> QED
    BY <2>1, <2>4 DEF Requests
<1>4. f \in Bijection(young, Shifted(requests))
  BY <1>2, <1>3 DEF Bijection, Injection, IsInjective, Surjection
<1>5. IsFiniteSet(Shifted(requests)) /\ Cardinality(Shifted(requests)) = Cardinality(young)
  <2> HIDE DEF f, young
  <2> QED
    BY <1>1, <1>4, FS_Bijection DEF ExistsBijection
<1>6. (\A r \in requests : r.age < Window) => young = requests
  OBVIOUS
<1> QED
  BY <1>1, <1>5, <1>6

LEMMA SpecTyped == Spec => []Typed
<1>2. Init => TypeOK /\ Finite
  BY FS_EmptySet DEF Init, TypeOK, Entries, Finite
<1>3. TypeOK /\ Finite /\ EntriesOK' /\ [Next]_vars => TypeOK' /\ Finite'
  <2> SUFFICES ASSUME TypeOK, Finite, EntriesOK', [Next]_vars
               PROVE  TypeOK' /\ Finite'
    OBVIOUS
  <2>1. ASSUME NEW ip \in Ips, CheckRateLimit(ip)
        PROVE  TypeOK' /\ Finite'
    <3>1. asked' \in [Ips -> SUBSET Requests] /\ passed' \in [Ips -> SUBSET Requests]
      BY <2>1, NewRequest DEF TypeOK
    <3>2. verdict' \in [Ips -> {"none", "pass", "refuse"}]
      BY <2>1 DEF CheckRateLimit, TypeOK
    <3>3. ASSUME NEW i \in Ips PROVE IsFiniteSet(asked'[i]) /\ IsFiniteSet(passed'[i])
      <4>1. /\ asked'[i] \in {asked[i], asked[i] \union {New(ip)}}
            /\ passed'[i] \in {passed[i], passed[i] \union {New(ip)}}
        BY <2>1, NewRequest DEF TypeOK
      <4>2. /\ IsFiniteSet(asked[i] \union {New(ip)})
            /\ IsFiniteSet(passed[i] \union {New(ip)})
        BY FS_AddElement DEF Finite
      <4> QED
        BY <4>1, <4>2 DEF Finite
    <3> QED
      BY <3>1, <3>2, <3>3 DEF TypeOK, EntriesOK, Finite
  <2>2. CASE CleanupMaps
    BY <2>2 DEF CleanupMaps, TypeOK, EntriesOK, Finite
  <2>3. CASE Tick
    <3>1. asked' \in [Ips -> SUBSET Requests] /\ passed' \in [Ips -> SUBSET Requests]
      BY <2>3, ShiftedType DEF Tick, TypeOK
    <3>2. Finite'
      BY <2>3, ShiftedFinite DEF Tick, TypeOK, Finite
    <3> QED
      BY <2>3, <3>1, <3>2 DEF Tick, TypeOK, EntriesOK
  <2>4. CASE UNCHANGED vars
    BY <2>4 DEF vars, TypeOK, Finite
  <2> QED
    BY <2>1, <2>2, <2>3, <2>4 DEF Next
<1> QED
  BY <1>2, <1>3, EntriesInvariant, PTL DEF Spec, Typed

\* The types of the limiter's state, and of what is remembered of its answers.
THEOREM LimiterTyped == Spec => []TypeOK
<1>1. Typed => TypeOK
  BY DEF Typed
<1> QED
  BY <1>1, SpecTyped, PTL

\* The requests since the window opened, and those before it.
Since(requests, age) == {r \in requests : r.age <= age}
Earlier(requests, age) == {r \in requests : r.age > age}

Numbered(ip) ==
    \A r \in asked[ip] : r.age = 0 => r.nr <= Cardinality({q \in asked[ip] : q.age = 0})

Open(ip) ==
    LET age == entry[ip].age IN
    /\ Cardinality(Since(asked[ip], age)) >= entry[ip].count
    /\ Cardinality(Since(passed[ip], age)) <= entry[ip].count
    /\ Cardinality(Since(passed[ip], age)) <= Limit
    /\ Cardinality(Earlier(passed[ip], age)) <= Limit

Closed(ip) ==
    /\ \A r \in asked[ip] \union passed[ip] : r.age # 0
    /\ Cardinality(passed[ip]) <= Limit

Metered(ip) ==
    /\ Numbered(ip)
    /\ IF Current(ip) THEN Open(ip) ELSE Closed(ip)
    /\ verdict[ip] = "refuse" => Cardinality(asked[ip]) > Limit

LEMMA SinceFinite ==
    ASSUME NEW requests, IsFiniteSet(requests), NEW age \in Int,
           \A r \in requests : r.age \in Int
    PROVE  /\ IsFiniteSet(Since(requests, age)) /\ IsFiniteSet(Earlier(requests, age))
           /\ Cardinality(Since(requests, age)) \in Nat
           /\ Cardinality(Earlier(requests, age)) \in Nat
           /\ Cardinality(requests) \in Nat
           /\ Cardinality(requests) =
                 Cardinality(Since(requests, age)) + Cardinality(Earlier(requests, age))
<1>1. /\ Since(requests, age) \in SUBSET requests /\ Earlier(requests, age) \in SUBSET requests
      /\ requests = Since(requests, age) \union Earlier(requests, age)
      /\ Since(requests, age) \intersect Earlier(requests, age) = {}
  BY DEF Since, Earlier
<1>2. IsFiniteSet(Since(requests, age)) /\ IsFiniteSet(Earlier(requests, age))
  BY <1>1, FS_Subset
<1>3. Cardinality(requests) = Cardinality(Since(requests, age)) + Cardinality(Earlier(requests, age))
                              - Cardinality({})
  BY <1>1, <1>2, FS_Union
<1> QED
  BY <1>2, <1>3, FS_CardinalityType, FS_EmptySet

\* The entry as a request finds it, and as it leaves it.
LEMMA CountedOnce ==
    ASSUME NEW e \in Entries
    PROVE  IF e # NoEntry /\ e.age <= Window
           THEN Counted(e).age = e.age /\ Counted(e).count = e.count + 1 /\ e.count \in Nat /\ e.age \in Nat
           ELSE Counted(e).age = 0 /\ Counted(e).count = 1
<1>1. CASE e = NoEntry
  BY <1>1 DEF Counted
<1>2. CASE e # NoEntry
  <2>1. e \in [count : Nat, age : 0 .. (Keep + 1)]
    BY <1>2 DEF Entries
  <2> QED
    BY <1>2, <2>1, LimiterAssumption DEF Counted
<1> QED
  BY <1>1, <1>2

LEMMA CheckMeters ==
    ASSUME Typed, NEW ip \in Ips, Metered(ip), CheckRateLimit(ip)
    PROVE  Metered(ip)'
<1> DEFINE a == asked[ip]
           p == passed[ip]
           new == Counted(entry[ip])
           passes == entry[ip] = NoEntry \/ new.count <= Limit
           request == New(ip)
<1>1. /\ a \in SUBSET Requests /\ p \in SUBSET Requests /\ IsFiniteSet(a) /\ IsFiniteSet(p)
      /\ entry[ip] \in Entries
  BY DEF Typed, TypeOK, Finite, EntriesOK
<1>2. /\ request \in Requests /\ asked'[ip] = a \union {request}
      /\ passed'[ip] = IF passes THEN p \union {request} ELSE p
      /\ entry'[ip] = new
      /\ verdict'[ip] = IF passes THEN "pass" ELSE "refuse"
  BY NewRequest DEF Typed, TypeOK, CheckRateLimit, New
<1>3. new # NoEntry /\ new.age \in Nat /\ new.count \in Nat \ {0} /\ Limit \in Nat \ {0} /\ Window \in Nat
  BY <1>1, CountedType, LimiterAssumption
<1> DEFINE zero == {q \in a : q.age = 0}
<1>4. /\ request.age = 0 /\ request.nr = Cardinality(zero) + 1 /\ IsFiniteSet(zero)
      /\ Cardinality(zero) \in Nat
  BY <1>1, FS_Subset, FS_CardinalityType DEF New
<1>5. request \notin a
  <2>1. ASSUME request \in a PROVE FALSE
    <3>1. request.nr <= Cardinality(zero)
      BY <1>4, <2>1 DEF Metered, Numbered
    <3> QED
      BY <1>4, <3>1
  <2> QED
    BY <2>1
<1>6. Numbered(ip)'
  <2>1. {q \in asked'[ip] : q.age = 0} = zero \union {request}
    BY <1>2, <1>4
  <2>2. Cardinality({q \in asked'[ip] : q.age = 0}) = Cardinality(zero) + 1
    BY <1>4, <1>5, <2>1, FS_AddElement
  <2>3. \A r \in zero : r.nr <= Cardinality(zero) /\ r.nr \in Nat
    BY <1>1, LimiterAssumption DEF Metered, Numbered, Requests
  <2>4. \A r \in asked'[ip] : r.age = 0 => r.nr <= Cardinality(zero) + 1
    BY <1>2, <1>4, <2>3
  <2> QED
    BY <2>2, <2>4 DEF Numbered
<1>7. \A r \in a \union p \union {request} : r.age \in Nat
  BY <1>1, <1>2, LimiterAssumption DEF Requests
<1> HIDE DEF a, p, new, passes, request, zero
<1>8. ASSUME NEW h, IsFiniteSet(h), \A r \in h : r.age \in Nat, NEW age \in Nat
      PROVE  /\ Since(h \union {request}, age) = Since(h, age) \union {request}
             /\ Earlier(h \union {request}, age) = Earlier(h, age)
             /\ Cardinality(Since(h \union {request}, age)) <= Cardinality(Since(h, age)) + 1
             /\ request \notin h =>
                   Cardinality(Since(h \union {request}, age)) = Cardinality(Since(h, age)) + 1
  <2>1. /\ Since(h \union {request}, age) = Since(h, age) \union {request}
        /\ Earlier(h \union {request}, age) = Earlier(h, age)
    BY <1>4, <1>8 DEF Since, Earlier
  <2>2. IsFiniteSet(Since(h, age)) /\ Cardinality(Since(h, age)) \in Nat
    BY <1>8, SinceFinite
  <2>3. request \notin h => request \notin Since(h, age)
    BY DEF Since
  <2>4. Cardinality(Since(h, age) \union {request}) =
          IF request \in Since(h, age) THEN Cardinality(Since(h, age)) ELSE Cardinality(Since(h, age)) + 1
    BY <2>2, FS_AddElement
  <2> QED
    BY <2>1, <2>2, <2>3, <2>4
<1>9. CASE Current(ip)
  <2>1. new.age = entry[ip].age /\ new.count = entry[ip].count + 1 /\ entry[ip].count \in Nat
        /\ new.age <= Window /\ entry[ip] # NoEntry
    BY <1>1, <1>9, CountedOnce DEF Current, new
  <2>2. Current(ip)'
    BY <1>2, <1>3, <2>1 DEF Current
  <2>3. Open(ip)
    BY <1>9 DEF Metered
  <2> DEFINE age == new.age
  <2>4. /\ Cardinality(Since(a, age)) \in Nat /\ Cardinality(Since(p, age)) \in Nat
        /\ Cardinality(Earlier(p, age)) \in Nat
    BY <1>1, <1>3, <1>7, SinceFinite DEF a, p
  <2>5. /\ Cardinality(Since(a, age)) >= entry[ip].count
        /\ Cardinality(Since(p, age)) <= entry[ip].count
        /\ Cardinality(Since(p, age)) <= Limit
        /\ Cardinality(Earlier(p, age)) <= Limit
    BY <2>1, <2>3 DEF Open, a, p
  <2>6. /\ Cardinality(Since(a \union {request}, age)) = Cardinality(Since(a, age)) + 1
        /\ Cardinality(Since(p \union {request}, age)) <= Cardinality(Since(p, age)) + 1
        /\ Cardinality(Since(p \union {request}, age)) \in Nat
        /\ Earlier(p \union {request}, age) = Earlier(p, age)
    <3>1. IsFiniteSet(a) /\ IsFiniteSet(p) /\ request \notin a /\ age \in Nat
      BY <1>1, <1>3, <1>5 DEF a, p
    <3>2. IsFiniteSet(p \union {request}) /\ \A r \in p \union {request} : r.age \in Int
      BY <1>7, <3>1, FS_AddElement
    <3>3. Cardinality(Since(p \union {request}, age)) \in Nat
      BY <3>1, <3>2, SinceFinite
    <3>4. (\A r \in a : r.age \in Nat) /\ (\A r \in p : r.age \in Nat)
      BY <1>7
    <3> HIDE DEF age
    <3>5. Cardinality(Since(a \union {request}, age)) = Cardinality(Since(a, age)) + 1
      BY <1>8, <3>1, <3>4
    <3>6. /\ Cardinality(Since(p \union {request}, age)) <= Cardinality(Since(p, age)) + 1
          /\ Earlier(p \union {request}, age) = Earlier(p, age)
      BY <1>8, <3>1, <3>4
    <3> QED
      BY <3>3, <3>5, <3>6
  <2>7. Open(ip)'
    <3> HIDE DEF age
    <3>1. passes => entry[ip].count + 1 <= Limit
      BY <2>1 DEF passes
    <3>2. entry'[ip].age = age /\ entry'[ip].count = entry[ip].count + 1
      BY <1>2, <2>1 DEF age
    <3>3. Cardinality(Since(asked'[ip], age)) >= entry[ip].count + 1
      BY <1>2, <2>1, <2>4, <2>5, <2>6
    <3>4. CASE passes
      BY <1>2, <1>3, <2>1, <2>4, <2>5, <2>6, <3>1, <3>2, <3>3, <3>4 DEF Open
    <3>5. CASE ~passes
      BY <1>2, <1>3, <2>1, <2>4, <2>5, <2>6, <3>2, <3>3, <3>5 DEF Open
    <3> QED
      BY <3>4, <3>5
  <2>8. verdict'[ip] = "refuse" => Cardinality(asked'[ip]) > Limit
    <3> SUFFICES ASSUME ~passes PROVE Cardinality(asked'[ip]) > Limit
      BY <1>2
    <3>1. new.count > Limit /\ Cardinality(Since(a \union {request}, age)) >= new.count
      BY <1>3, <2>1, <2>4, <2>5, <2>6 DEF passes
    <3>2. /\ IsFiniteSet(a \union {request})
      BY <1>1, FS_AddElement DEF a
    <3>3. Cardinality(a \union {request}) >= Cardinality(Since(a \union {request}, age))
          /\ Cardinality(a \union {request}) \in Nat
          /\ Cardinality(Since(a \union {request}, age)) \in Nat
      BY <1>3, <1>7, <3>2, SinceFinite
    <3> QED
      BY <1>2, <1>3, <3>1, <3>3
  <2> QED
    BY <1>6, <2>2, <2>7, <2>8 DEF Metered
<1>10. CASE ~Current(ip)
  <2>1. new.age = 0 /\ new.count = 1 /\ passes
    <3>1. new.age = 0 /\ new.count = 1
      BY <1>1, <1>10, CountedOnce DEF Current, new
    <3> QED
      BY <1>3, <3>1 DEF passes
  <2>2. Current(ip)'
    BY <1>2, <1>3, <2>1 DEF Current
  <2>3. Closed(ip)
    BY <1>10 DEF Metered
  <2>4. /\ Since(a \union {request}, 0) = {request} /\ Since(p \union {request}, 0) = {request}
        /\ Earlier(p \union {request}, 0) = p
    BY <1>4, <1>7, <2>3 DEF Since, Earlier, Closed, a, p
  <2>5. Open(ip)'
    <3>1. /\ asked'[ip] = a \union {request} /\ passed'[ip] = p \union {request}
          /\ entry'[ip].age = 0 /\ entry'[ip].count = 1
      BY <1>2, <2>1
    <3>2. Cardinality({request}) = 1 /\ Cardinality(p) <= Limit
      BY <2>3, FS_Singleton DEF Closed, p
    <3> QED
      BY <1>3, <2>4, <3>1, <3>2 DEF Open
  <2> QED
    BY <1>2, <1>6, <2>1, <2>2, <2>5 DEF Metered
<1> QED
  BY <1>9, <1>10

\* A tick later the window is one tick older, and so are its requests.
LEMMA TickMeters ==
    ASSUME Typed, NEW ip \in Ips, Metered(ip), Tick
    PROVE  Metered(ip)'
<1> DEFINE a == asked[ip]
           p == passed[ip]
           e == entry[ip]
<1>1. /\ a \in SUBSET Requests /\ p \in SUBSET Requests /\ IsFiniteSet(a) /\ IsFiniteSet(p)
      /\ e \in Entries
  BY DEF Typed, TypeOK, Finite, EntriesOK
<1>2. /\ asked'[ip] = Shifted(a) /\ passed'[ip] = Shifted(p) /\ verdict'[ip] = "none"
      /\ entry'[ip] = Older(e)
  BY DEF Tick
<1>3. Limit \in Nat \ {0} /\ Window \in Nat /\ Keep \in Nat /\ Window <= Keep
  BY LimiterAssumption
<1>4. /\ \A q \in Shifted(a) \union Shifted(p) : q.age # 0
      /\ Cardinality(Shifted(p)) <= Cardinality(p)
      /\ Cardinality(Shifted(p)) \in Nat /\ Cardinality(p) \in Nat
  BY <1>1, ShiftedType, ShiftedFinite, FS_CardinalityType
<1>5. Numbered(ip)'
  BY <1>2, <1>4 DEF Numbered
<1>6. CASE ~Current(ip)
  <2>1. ~Current(ip)'
    BY <1>1, <1>2, <1>3, <1>6 DEF Current, Older, Entries, NoEntry
  <2>2. Cardinality(p) <= Limit
    BY <1>6 DEF Metered, Closed
  <2>3. Closed(ip)'
    BY <1>2, <1>3, <1>4, <2>2 DEF Closed
  <2> QED
    BY <1>2, <1>5, <2>1, <2>3 DEF Metered
<1>7. CASE Current(ip)
  <2>1. /\ e # NoEntry /\ e.age <= Window /\ e.age \in Nat /\ e.count \in Nat
        /\ e \in [count : Nat, age : 0 .. (Keep + 1)]
    BY <1>1, <1>3, <1>7 DEF Current, Entries
  <2>2. entry'[ip].age = e.age + 1 /\ entry'[ip].count = e.count /\ entry'[ip] # NoEntry
    BY <1>2, <1>3, <2>1 DEF Older, NoEntry
  <2>3. Open(ip)
    BY <1>7 DEF Metered
  <2>4. CASE e.age = Window
    <3>1. ~Current(ip)'
      BY <1>3, <2>2, <2>4 DEF Current
    <3>2. Since(p, e.age) = p
      BY <1>1, <1>3, <2>4 DEF Since, Requests
    <3>3. Closed(ip)'
      BY <1>2, <1>3, <1>4, <2>3, <3>2 DEF Closed, Open
    <3> QED
      BY <1>2, <1>5, <3>1, <3>3 DEF Metered
  <2>5. CASE e.age < Window
    <3>1. Current(ip)'
      BY <1>3, <2>1, <2>2, <2>5 DEF Current
    <3>2. ASSUME NEW h \in SUBSET Requests, IsFiniteSet(h)
          PROVE  /\ Cardinality(Since(Shifted(h), e.age + 1)) = Cardinality(Since(h, e.age))
                 /\ Cardinality(Earlier(Shifted(h), e.age + 1)) <= Cardinality(Earlier(h, e.age))
                 /\ Cardinality(Since(h, e.age)) \in Nat
                 /\ Cardinality(Earlier(Shifted(h), e.age + 1)) \in Nat
                 /\ Cardinality(Earlier(h, e.age)) \in Nat
      <4>1. /\ Since(Shifted(h), e.age + 1) = Shifted(Since(h, e.age))
            /\ Earlier(Shifted(h), e.age + 1) = Shifted(Earlier(h, e.age))
        <5> DEFINE aged(r) == [r EXCEPT !.age = @ + 1]
                   old == e.age
        <5>1. \A r \in h : r.age \in Nat /\ aged(r).age = r.age + 1
          BY <1>3 DEF Requests
        <5>2. \A g : Shifted(g) = {aged(r) : r \in {q \in g : q.age < Window}}
          BY DEF Shifted
        <5>3. old \in Nat /\ old < Window /\ Window \in Nat
          BY <1>3, <2>1, <2>5
        <5> HIDE DEF aged, old
        <5>4. \A r \in h : (r.age <= old <=> aged(r).age <= old + 1) /\ (r.age <= old => r.age < Window)
          BY <5>1, <5>3
        <5>5. Since(Shifted(h), old + 1) = Shifted(Since(h, old))
          BY <5>2, <5>4 DEF Since
        <5>6. \A r \in h : r.age > old <=> aged(r).age > old + 1
          BY <5>1, <5>3
        <5>7. Earlier(Shifted(h), old + 1) = Shifted(Earlier(h, old))
          BY <5>2, <5>6 DEF Earlier
        <5> QED
          BY <5>5, <5>7 DEF old
      <4>2. \A r \in h : r.age \in Int
        BY <1>3 DEF Requests
      <4>3. /\ Since(h, e.age) \in SUBSET Requests /\ Earlier(h, e.age) \in SUBSET Requests
            /\ \A r \in Since(h, e.age) : r.age < Window
        BY <1>3, <2>1, <2>5, <4>2 DEF Since, Earlier
      <4>4. IsFiniteSet(Since(h, e.age)) /\ IsFiniteSet(Earlier(h, e.age))
        BY <2>1, <3>2, <4>2, SinceFinite
      <4> QED
        BY <4>1, <4>3, <4>4, ShiftedFinite, FS_CardinalityType
    <3>3. Open(ip)'
      BY <1>1, <1>2, <1>3, <2>1, <2>2, <2>3, <3>2 DEF Open
    <3> QED
      BY <1>2, <1>5, <3>1, <3>3 DEF Metered
  <2> QED
    BY <1>3, <2>1, <2>4, <2>5
<1> QED
  BY <1>6, <1>7

LEMMA StepMeters ==
    ASSUME Typed, \A ip \in Ips : Metered(ip), [Next]_vars
    PROVE  \A ip \in Ips : Metered(ip)'
<1> SUFFICES ASSUME NEW ip \in Ips PROVE Metered(ip)'
  OBVIOUS
<1>1. ASSUME UNCHANGED <<entry[ip], verdict[ip], asked[ip], passed[ip]>> PROVE Metered(ip)'
  BY <1>1 DEF Metered, Numbered, Current, Open, Closed
<1>2. ASSUME NEW i \in Ips, CheckRateLimit(i) PROVE Metered(ip)'
  <2>1. CASE i = ip
    BY <1>2, <2>1, CheckMeters
  <2>2. CASE i # ip
    BY <1>1, <1>2, <2>2 DEF CheckRateLimit, Typed, TypeOK
  <2> QED
    BY <2>1, <2>2
<1>3. CASE CleanupMaps
  <2>1. UNCHANGED <<verdict, asked, passed>>
    BY <1>3 DEF CleanupMaps
  <2>2. CASE ip \in Idle
    <3>1. ~Current(ip)
      BY <2>2, LimiterAssumption DEF Idle, Current, Typed, EntriesOK, Entries, NoEntry
    <3>2. ~Current(ip)'
      BY <1>3, <2>2 DEF CleanupMaps, Current
    <3> QED
      BY <2>1, <3>1, <3>2 DEF Metered, Numbered, Closed
  <2>3. CASE ip \notin Idle
    BY <1>1, <1>3, <2>1, <2>3 DEF CleanupMaps
  <2> QED
    BY <2>2, <2>3
<1>4. CASE Tick
  BY <1>4, TickMeters
<1>5. CASE UNCHANGED vars
  BY <1>1, <1>5 DEF vars
<1> QED
  BY <1>2, <1>3, <1>4, <1>5 DEF Next

LEMMA SpecMeters == Spec => [](Typed /\ \A ip \in Ips : Metered(ip))
<1>1. Init => \A ip \in Ips : Metered(ip)
  BY FS_EmptySet, LimiterAssumption DEF Init, Metered, Numbered, Current, Closed
<1>2. Typed /\ (\A ip \in Ips : Metered(ip)) /\ [Next]_vars => (\A ip \in Ips : Metered(ip))'
  BY StepMeters
<1> QED
  BY <1>1, <1>2, SpecTyped, PTL DEF Spec

\* However the windows lie, no minute lets more than twice the limit pass: the
\* requests of a minute belong to at most two windows (checkRateLimit).
THEOREM TwiceTheLimit == Spec => []Throttled
<1>1. ASSUME Typed, \A i \in Ips : Metered(i), NEW ip \in Ips PROVE Cardinality(passed[ip]) <= 2 * Limit
  <2>1. /\ IsFiniteSet(passed[ip]) /\ Limit \in Nat /\ Metered(ip)
        /\ \A r \in passed[ip] : r.age \in Int
    BY <1>1, LimiterAssumption DEF Typed, TypeOK, Finite, Requests
  <2>2. CASE Current(ip)
    <3>1. entry[ip].age \in Int
      BY <1>1, <2>2, LimiterAssumption DEF Current, Typed, EntriesOK, Entries
    <3> QED
      BY <2>1, <2>2, <3>1, SinceFinite DEF Metered, Open
  <2>3. CASE ~Current(ip)
    BY <2>1, <2>3, FS_CardinalityType DEF Metered, Closed
  <2> QED
    BY <2>2, <2>3
<1>2. Typed /\ (\A ip \in Ips : Metered(ip)) => Throttled
  BY <1>1 DEF Throttled
<1> QED
  BY <1>2, SpecMeters, PTL

\* A refusal answers more than Limit requests of the last minute, cleanups and
\* new windows notwithstanding (checkRateLimit, cleanupMaps).
THEOREM RefusalsHaveCause == Spec => []RefusedForCause
<1>1. (\A ip \in Ips : Metered(ip)) => RefusedForCause
  BY DEF Metered, RefusedForCause
<1> QED
  BY <1>1, SpecMeters, PTL

\* What one entry looks like to the abstract window.
LEMMA Seen ==
    ASSUME NEW ip \in Ips
    PROVE  /\ Opened[ip] = IF Current(ip) THEN entry[ip].age ELSE Window + 1
           /\ LetThrough[ip] = IF ~Current(ip) THEN 0
                               ELSE IF entry[ip].count <= Limit THEN entry[ip].count ELSE Limit
           /\ Opened'[ip] = IF Current(ip)' THEN entry'[ip].age ELSE Window + 1
           /\ LetThrough'[ip] =
                IF ~Current(ip)' THEN 0
                ELSE IF entry'[ip].count <= Limit THEN entry'[ip].count ELSE Limit
BY DEF Opened, LetThrough

\* A change of one entry changes one window.
LEMMA SeenFunctions ==
    /\ Opened = [ip \in Ips |-> Opened[ip]] /\ LetThrough = [ip \in Ips |-> LetThrough[ip]]
    /\ Opened' = [ip \in Ips |-> Opened'[ip]]
    /\ LetThrough' = [ip \in Ips |-> LetThrough'[ip]]
BY DEF Opened, LetThrough

\* A counted request passes or is refused as the abstract window says.
LEMMA CheckMaps ==
    ASSUME EntriesOK, NEW ip \in Ips, CheckRateLimit(ip)
    PROVE  RateWindow!Pass(ip) \/ RateWindow!Refuse(ip)
<1> DEFINE e == entry[ip]
           new == Counted(e)
<1>1. /\ e \in Entries /\ new \in Entries /\ new # NoEntry
      /\ new.age \in 0 .. (Keep + 1) /\ new.count \in Nat \ {0}
  BY CountedType DEF EntriesOK
<1>2. entry' = [entry EXCEPT ![ip] = new] /\ entry'[ip] = new
  BY DEF CheckRateLimit, EntriesOK
<1>3. \A i \in Ips \ {ip} : Opened'[i] = Opened[i] /\ LetThrough'[i] = LetThrough[i]
  <2> TAKE i \in Ips \ {ip}
  <2>1. entry'[i] = entry[i]
    BY <1>2 DEF EntriesOK
  <2> QED
    BY <2>1, Seen DEF Current
<1>4. CASE ~Current(ip)
  <2>1. new = [count |-> 1, age |-> 0]
    BY <1>1, <1>4, LimiterAssumption DEF Counted, Current, Entries, NoEntry
  <2>2. Opened[ip] = Window + 1 /\ LetThrough[ip] = 0
    BY <1>4, Seen
  <2>3. Current(ip)' /\ entry'[ip].age = 0 /\ entry'[ip].count = 1
    BY <1>1, <1>2, <2>1, LimiterAssumption DEF Current
  <2>4. Opened'[ip] = 0 /\ LetThrough'[ip] = 1
    BY <2>3, Seen, LimiterAssumption
  <2>5. verdict' = [verdict EXCEPT ![ip] = "pass"]
    <3>1. new.count <= Limit
      BY <2>1, LimiterAssumption
    <3> QED
      BY <3>1 DEF CheckRateLimit
  <2>6. Opened' = [Opened EXCEPT ![ip] = IF @ > Window THEN 0 ELSE @]
    BY <1>3, <2>2, <2>4, SeenFunctions, LimiterAssumption
  <2>7. LetThrough' = [LetThrough EXCEPT ![ip] = @ + 1]
    BY <1>3, <2>2, <2>4, SeenFunctions
  <2> QED
    BY <2>2, <2>5, <2>6, <2>7, LimiterAssumption DEF RateWindow!Pass
<1>5. CASE Current(ip)
  <2>1. e # NoEntry /\ e.age <= Window /\ e \in [count : Nat, age : 0 .. (Keep + 1)]
    BY <1>1, <1>5 DEF Current, Entries
  <2>2. new = [e EXCEPT !.count = @ + 1]
    BY <2>1, LimiterAssumption DEF Counted
  <2>3. new.age = e.age /\ new.count = e.count + 1
    BY <2>1, <2>2
  <2>4. Current(ip)'
    BY <1>1, <1>2, <2>1, <2>3 DEF Current
  <2>5. Opened[ip] = e.age /\ Opened'[ip] = e.age
    BY <1>2, <1>5, <2>3, <2>4, Seen
  <2>6. Opened' = [Opened EXCEPT ![ip] = IF @ > Window THEN 0 ELSE @]
    BY <1>3, <2>1, <2>5, SeenFunctions, LimiterAssumption
  <2>7. CASE e.count + 1 <= Limit
    <3>1. LetThrough[ip] = e.count /\ LetThrough'[ip] = e.count + 1 /\ LetThrough[ip] < Limit
      BY <1>2, <1>5, <2>1, <2>3, <2>4, <2>7, Seen, LimiterAssumption
    <3>2. verdict' = [verdict EXCEPT ![ip] = "pass"]
      BY <2>3, <2>7 DEF CheckRateLimit
    <3>3. LetThrough' = [LetThrough EXCEPT ![ip] = @ + 1]
      BY <1>3, <3>1, SeenFunctions
    <3> QED
      BY <2>6, <3>1, <3>2, <3>3 DEF RateWindow!Pass
  <2>8. CASE ~(e.count + 1 <= Limit)
    <3>1. LetThrough[ip] = Limit /\ LetThrough'[ip] = Limit
      BY <1>2, <1>5, <2>1, <2>3, <2>4, <2>8, Seen, LimiterAssumption
    <3>2. verdict' = [verdict EXCEPT ![ip] = "refuse"]
      BY <2>1, <2>3, <2>8 DEF CheckRateLimit
    <3>3. LetThrough' = LetThrough /\ Opened' = Opened
      BY <1>3, <2>5, <3>1, SeenFunctions
    <3> QED
      BY <3>1, <3>2, <3>3 DEF RateWindow!Refuse
  <2> QED
    BY <2>7, <2>8
<1> QED
  BY <1>4, <1>5

\* What is forgotten no longer counts.
LEMMA CleanupMapsToStutter ==
    ASSUME EntriesOK, CleanupMaps
    PROVE  Opened' = Opened /\ LetThrough' = LetThrough
<1>1. ASSUME NEW ip \in Ips
      PROVE  Opened'[ip] = Opened[ip] /\ LetThrough'[ip] = LetThrough[ip]
  <2>1. CASE ip \in Idle
    <3>1. ~Current(ip)
      BY <2>1, LimiterAssumption DEF Idle, Current, EntriesOK, Entries, NoEntry
    <3>2. ~Current(ip)'
      BY <2>1 DEF CleanupMaps, Current
    <3> QED
      BY <3>1, <3>2, Seen
  <2>2. CASE ip \notin Idle
    <3>1. entry'[ip] = entry[ip]
      BY <2>2 DEF CleanupMaps
    <3> QED
      BY <3>1, Seen DEF Current
  <2> QED
    BY <2>1, <2>2
<1> QED
  BY <1>1, SeenFunctions

\* The clock ages a window until it closes.
LEMMA TickMaps ==
    ASSUME EntriesOK, Tick
    PROVE  RateWindow!Tick
<1>1. ASSUME NEW ip \in Ips
      PROVE  /\ Opened'[ip] = IF Opened[ip] <= Window THEN Opened[ip] + 1 ELSE Opened[ip]
             /\ LetThrough'[ip] = IF Opened[ip] < Window THEN LetThrough[ip] ELSE 0
  <2>1. entry'[ip] = Older(entry[ip]) /\ entry[ip] \in Entries
    BY DEF Tick, EntriesOK
  <2>2. CASE Current(ip)
    <3>1. /\ entry[ip] # NoEntry /\ entry[ip].age <= Window
          /\ entry[ip] \in [count : Nat, age : 0 .. (Keep + 1)]
      BY <2>1, <2>2 DEF Current, Entries
    <3>2. entry'[ip] = [entry[ip] EXCEPT !.age = @ + 1]
      BY <2>1, <3>1, LimiterAssumption DEF Older
    <3>3. /\ entry'[ip].age = entry[ip].age + 1 /\ entry'[ip].count = entry[ip].count
          /\ entry'[ip] # NoEntry
      BY <3>1, <3>2 DEF NoEntry
    <3>4. Current(ip)' <=> entry[ip].age + 1 <= Window
      BY <3>3 DEF Current
    <3> QED
      BY <2>2, <3>1, <3>3, <3>4, Seen, LimiterAssumption
  <2>3. CASE ~Current(ip)
    <3>1. ~Current(ip)'
      BY <2>1, <2>3, LimiterAssumption DEF Current, Older, Entries, NoEntry
    <3> QED
      BY <2>3, <3>1, Seen, LimiterAssumption
  <2> QED
    BY <2>2, <2>3
<1>2. verdict' = [ip \in Ips |-> "none"]
  BY DEF Tick
<1> QED
  BY <1>1, <1>2, SeenFunctions DEF RateWindow!Tick

\* For every limit, minute, retention time and set of visitors: the limiter
\* that forgets idle visitors implements the window that is never forgotten.
THEOREM LimiterImplementsWindow == Spec => ImplementsWindow
<1>1. Init => RateWindow!Init
  BY DEF Init, RateWindow!Init, Opened, LetThrough, Current
<1>2. EntriesOK /\ [Next]_vars => [RateWindow!Next]_(<<Opened, LetThrough, verdict>>)
  <2> SUFFICES ASSUME EntriesOK, [Next]_vars
               PROVE  [RateWindow!Next]_(<<Opened, LetThrough, verdict>>)
    OBVIOUS
  <2>1. ASSUME NEW ip \in Ips, CheckRateLimit(ip)
        PROVE  RateWindow!Next
    BY <2>1, CheckMaps DEF RateWindow!Next
  <2>2. CASE CleanupMaps
    BY <2>2, CleanupMapsToStutter DEF CleanupMaps
  <2>3. CASE Tick
    BY <2>3, TickMaps DEF RateWindow!Next
  <2>4. CASE UNCHANGED vars
    BY <2>4 DEF vars, Opened, LetThrough, Current
  <2> QED
    BY <2>1, <2>2, <2>3, <2>4 DEF Next
<1> QED
  BY <1>1, <1>2, EntriesInvariant, PTL DEF Spec, ImplementsWindow, RateWindow!Spec
=============================================================================
