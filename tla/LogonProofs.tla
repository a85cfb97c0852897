----------------------------- MODULE LogonProofs ------------------------------
(***************************************************************************)
(* What holds of logging in (logon.go): of passkey ceremonies, for any     *)
(* number of users, devices, finish requests, challenges and restarts, and *)
(* any lifetime; and of accounts, for any number of requests, users and    *)
(* passwords.                                                              *)
(***************************************************************************)
EXTENDS Passkeys, Accounts, TLAPS

IsStored(k, u) == store[k][u] # NoEntry

\* A request that is under way handles a response.
Busy == \A w \in Workers : pc[w] # "idle" => handled[w] \in Responses

\* Every stored challenge has a number of its own, and nobody has taken it out.
Unspent ==
    /\ \A k \in Kinds, u \in Users :
          IsStored(k, u) => store[k][u].id <= issued /\ taken[store[k][u].id] = 0
    /\ \A k, l \in Kinds, u, v \in Users :
          IsStored(k, u) /\ IsStored(l, v) /\ store[k][u].id = store[l][v].id => k = l /\ u = v

\* Nothing has happened to the challenges that are still to be issued.
Untouched == \A i \in Ids : i > issued => taken[i] = 0 /\ age[i] = 0

\* What is left of a challenge's life complements its age.
Timed ==
    \A k \in Kinds, u \in Users :
        IsStored(k, u) /\ store[k][u].left >= 0
            => age[store[k][u].id] + store[k][u].left = TTL

\* The passkeys on record, and those a request has read, were registered for
\* the user they are attributed to.
Owned ==
    /\ \A u \in Users : credential[u] \in enrolled[u] \union {None}
    /\ \A w \in Workers :
          pc[w] # "idle" => seen[w] \in enrolled[handled[w].user] \union {None}

IInv ==
    /\ TypeOK /\ Busy
    /\ Unspent /\ Untouched /\ SpentOnce
    /\ Timed
    /\ Owned /\ LoginByOwnPasskey

-----------------------------------------------------------------------------
LEMMA NoEntryIsNone ==
    /\ NoEntry \in Entries /\ NoEntry.id \notin Ids
    /\ \A e \in Entries : e # NoEntry <=> e.id \in Ids
    /\ \A e \in Entries : /\ e.left \in Int /\ e.left <= TTL
                          /\ e # NoEntry => e.left \in -1 .. TTL
    /\ \A e \in Entries : e # NoEntry =>
          e \in [id : Ids, allowed : Devices \union {None}, left : -1 .. TTL]
BY PasskeysAssumption DEF NoEntry, Entries, Ids

LEMMA EmptyTypes == Empty \in [Kinds -> [Users -> Entries]]
<1>1. [u \in Users |-> NoEntry] \in [Users -> Entries]
  BY NoEntryIsNone
<1> QED
  BY <1>1 DEF Empty

LEMMA InitIInv == Init => IInv
<1> SUFFICES ASSUME Init PROVE IInv
  OBVIOUS
<1> USE PasskeysAssumption
<1>1. \A k \in Kinds, u \in Users : store[k][u] = NoEntry
  BY DEF Init, Empty
<1>2. TypeOK
  <2>1. store \in [Kinds -> [Users -> Entries]] /\ data \in [Workers -> Entries]
    BY EmptyTypes, NoEntryIsNone DEF Init
  <2>2. age \in [Ids -> 0 .. (TTL + 1)] /\ taken \in [Ids -> Nat]
    <3>1. 0 \in 0 .. (TTL + 1) /\ 0 \in Nat
      OBVIOUS
    <3> QED
      BY <3>1 DEF Init
  <2>3. issued \in 0 .. MaxIssued /\ restarts \in 0 .. MaxRestarts
    BY DEF Init
  <2> QED
    BY <2>1, <2>2, <2>3 DEF Init, TypeOK
<1>3. Busy /\ Untouched /\ SpentOnce /\ Owned /\ LoginByOwnPasskey
  BY DEF Init, Busy, Untouched, SpentOnce, Owned, LoginByOwnPasskey
<1>4. Unspent /\ Timed
  BY <1>1 DEF Unspent, Timed, IsStored
<1> QED
  BY <1>2, <1>3, <1>4 DEF IInv

-----------------------------------------------------------------------------
(* Types                                                                   *)

LEMMA AnswerTypes ==
    ASSUME TypeOK, Busy, NEW w \in Workers, Answer(w)
    PROVE  /\ pc' \in [Workers -> {"idle", "pop", "conclude"}]
           /\ handled' \in [Workers -> Responses \union {NoResponse}]
           /\ seen' \in [Workers -> Devices \union {None}]
           /\ data' \in [Workers -> Entries]
           /\ Busy'
BY NoEntryIsNone DEF TypeOK, Busy, Answer

LEMMA IssueTypes ==
    ASSUME TypeOK, NEW k \in Kinds, NEW u \in Users, NEW a \in Devices \union {None},
           Issue(k, u, a)
    PROVE  /\ store' \in [Kinds -> [Users -> Entries]]
           /\ issued' \in 0 .. MaxIssued
           /\ issued + 1 \in Ids
           /\ [id |-> issued + 1, allowed |-> a, left |-> TTL] \in Entries
<1> USE PasskeysAssumption
<1>1. issued' \in 0 .. MaxIssued /\ issued + 1 \in Ids
  BY DEF TypeOK, Issue, Ids
<1>2. [id |-> issued + 1, allowed |-> a, left |-> TTL] \in Entries
  BY <1>1 DEF Entries
<1>3. store' \in [Kinds -> [Users -> Entries]]
  BY <1>2 DEF TypeOK, Issue
<1> QED
  BY <1>1, <1>2, <1>3

LEMMA StepTypes == TypeOK /\ Busy /\ [Next]_vars => TypeOK' /\ Busy'
<1> SUFFICES ASSUME TypeOK, Busy, [Next]_vars PROVE TypeOK' /\ Busy'
  OBVIOUS
<1> USE PasskeysAssumption
<1>1. ASSUME NEW u \in Users, RegisterStart(u)
      PROVE  TypeOK' /\ Busy'
  <2>1. store' \in [Kinds -> [Users -> Entries]] /\ issued' \in 0 .. MaxIssued
    BY <1>1, IssueTypes DEF RegisterStart, Kinds
  <2> QED
    BY <1>1, <2>1 DEF RegisterStart, TypeOK, Busy
<1>2. ASSUME NEW u \in Users, LoginStart(u)
      PROVE  TypeOK' /\ Busy'
  <2>0. credential[u] \in Devices \union {None}
    BY DEF TypeOK
  <2>1. store' \in [Kinds -> [Users -> Entries]] /\ issued' \in 0 .. MaxIssued
    BY <1>2, <2>0, IssueTypes DEF LoginStart, Kinds
  <2> QED
    BY <1>2, <2>1 DEF LoginStart, TypeOK, Busy
<1>3. ASSUME NEW k \in Kinds, NEW u \in Users, NEW d \in Devices, Sign(k, u, d)
      PROVE  TypeOK' /\ Busy'
  <2>1. store[k][u] \in Entries
    BY DEF TypeOK
  <2>2. store[k][u].id \in Ids
    BY <1>3, <2>1, NoEntryIsNone DEF Sign
  <2>3. responses' \subseteq Responses
    BY <1>3, <2>2 DEF Sign, TypeOK, Responses
  <2> QED
    BY <1>3, <2>3 DEF Sign, TypeOK, Busy
<1>4. ASSUME NEW w \in Workers, NEW r \in responses, Finish(w, r)
      PROVE  TypeOK' /\ Busy'
  <2>1. r \in Responses /\ r.user \in Users
    BY DEF TypeOK, Responses
  <2> QED
    BY <1>4, <2>1 DEF Finish, TypeOK, Busy
<1>5. ASSUME NEW w \in Workers, Pop(w)
      PROVE  TypeOK' /\ Busy'
  <2>1. handled[w] \in Responses
    BY <1>5 DEF Pop, Busy
  <2>2. handled[w].kind \in Kinds /\ handled[w].user \in Users /\ handled[w].id \in Ids
    BY <2>1 DEF Responses
  <2>3. store[handled[w].kind][handled[w].user] \in Entries
    BY <2>2 DEF TypeOK
  <2>4. store' \in [Kinds -> [Users -> Entries]]
    BY <1>5, <2>2, NoEntryIsNone DEF Pop, TypeOK
  <2>5. taken' \in [Ids -> Nat]
    BY <1>5, <2>2 DEF Pop, TypeOK
  <2>6. /\ pc' \in [Workers -> {"idle", "pop", "conclude"}]
        /\ handled' \in [Workers -> Responses \union {NoResponse}]
        /\ seen' \in [Workers -> Devices \union {None}]
        /\ data' \in [Workers -> Entries]
        /\ Busy'
    <3>1. CASE Answer(w)
      BY <3>1, AnswerTypes
    <3>2. CASE ~Answer(w)
      BY <1>5, <2>1, <2>3, <3>2 DEF Pop, TypeOK, Busy
    <3> QED
      BY <3>1, <3>2
  <2> QED
    BY <1>5, <2>4, <2>5, <2>6 DEF Pop, TypeOK
<1>6. ASSUME NEW w \in Workers, ConcludeRegistration(w)
      PROVE  TypeOK' /\ Busy'
  <2>1. handled[w] \in Responses
    BY <1>6 DEF ConcludeRegistration, Busy
  <2>2. handled[w].device \in Devices
    BY <2>1 DEF Responses
  <2>3. credential' \in [Users -> Devices \union {None}] /\ enrolled' \in [Users -> SUBSET Devices]
    BY <1>6, <2>2 DEF ConcludeRegistration, TypeOK
  <2> QED
    BY <1>6, <2>3, AnswerTypes DEF ConcludeRegistration, TypeOK
<1>7. ASSUME NEW w \in Workers, ConcludeLogin(w)
      PROVE  TypeOK' /\ Busy'
  <2>1. handled[w] \in Responses
    BY <1>7 DEF ConcludeLogin, Busy
  <2>2. handled[w].device \in Devices
    BY <2>1 DEF Responses
  <2>3. opened' \in [Users -> SUBSET Devices]
    BY <1>7, <2>2 DEF ConcludeLogin, TypeOK
  <2> QED
    BY <1>7, <2>3, AnswerTypes DEF ConcludeLogin, TypeOK
<1>8. ASSUME Cleanup PROVE TypeOK' /\ Busy'
  BY <1>8, NoEntryIsNone DEF Cleanup, TypeOK, Busy
<1>9. ASSUME Restart PROVE TypeOK' /\ Busy'
  <2>1. store' \in [Kinds -> [Users -> Entries]] /\ data' \in [Workers -> Entries]
    BY <1>9, EmptyTypes, NoEntryIsNone DEF Restart
  <2> QED
    <3>1. restarts' \in 0 .. MaxRestarts
      <4>1. restarts \in 0 .. MaxRestarts /\ restarts < MaxRestarts /\ restarts' = restarts + 1
        BY <1>9 DEF Restart, TypeOK
      <4> QED
        BY <4>1
    <3>3. instance' \in BOOLEAN
      BY <1>9 DEF Restart
    <3>2. /\ pc' \in [Workers -> {"idle", "pop", "conclude"}]
          /\ handled' \in [Workers -> Responses \union {NoResponse}]
          /\ seen' \in [Workers -> Devices \union {None}]
          /\ Busy'
      BY <1>9 DEF Restart, Busy
    <3> QED
      BY <1>9, <2>1, <3>1, <3>2, <3>3 DEF Restart, TypeOK
<1>10. ASSUME Tick PROVE TypeOK' /\ Busy'
  <2>1. ASSUME NEW k \in Kinds, NEW u \in Users,
               ~(store[k][u] = NoEntry \/ store[k][u].left < 0)
        PROVE  [store[k][u] EXCEPT !.left = @ - 1] \in Entries
    <3>1. store[k][u] \in [id : Ids, allowed : Devices \union {None}, left : -1 .. TTL]
      BY <2>1, NoEntryIsNone DEF TypeOK
    <3>2. [store[k][u] EXCEPT !.left = @ - 1]
             \in [id : Ids, allowed : Devices \union {None}, left : -1 .. TTL]
      BY <2>1, <3>1
    <3> QED
      BY <3>2 DEF Entries
  <2>2. store' \in [Kinds -> [Users -> Entries]]
    BY <1>10, <2>1 DEF Tick, TypeOK
  <2>3. age' \in [Ids -> 0 .. (TTL + 1)]
    <3>1. ASSUME NEW i \in Ids
          PROVE  (IF i > issued \/ age[i] > TTL THEN age[i] ELSE age[i] + 1) \in 0 .. (TTL + 1)
      BY DEF TypeOK, Ids
    <3> QED
      BY <1>10, <3>1 DEF Tick
  <2> QED
    BY <1>10, <2>2, <2>3 DEF Tick, TypeOK, Busy
<1>11. CASE UNCHANGED vars
  BY <1>11 DEF vars, TypeOK, Busy
<1> QED
  BY <1>1, <1>2, <1>3, <1>4, <1>5, <1>6, <1>7, <1>8, <1>9, <1>10, <1>11 DEF Next

-----------------------------------------------------------------------------
(* Challenges                                                              *)

\* A challenge leaves the store, or grows older there, and nothing else does.
LEMMA SmallerStore ==
    ASSUME IInv, TypeOK',
           UNCHANGED issued,
           \A k \in Kinds, u \in Users :
              IsStored(k, u)' => IsStored(k, u) /\ store'[k][u].id = store[k][u].id,
           \A k \in Kinds, u \in Users :
              IsStored(k, u)' => taken'[store[k][u].id] = taken[store[k][u].id]
    PROVE  Unspent'
<1>1. ASSUME NEW k \in Kinds, NEW u \in Users, IsStored(k, u)'
      PROVE  store'[k][u].id <= issued' /\ taken'[store'[k][u].id] = 0
  BY <1>1 DEF IInv, Unspent
<1>2. ASSUME NEW k \in Kinds, NEW u \in Users, NEW l \in Kinds, NEW v \in Users,
             IsStored(k, u)', IsStored(l, v)', store'[k][u].id = store'[l][v].id
      PROVE  k = l /\ u = v
  BY <1>2 DEF IInv, Unspent
<1> QED
  BY <1>1, <1>2 DEF Unspent

LEMMA IssueChallenge ==
    ASSUME IInv, TypeOK', NEW kind \in Kinds, NEW user \in Users,
           NEW a \in Devices \union {None}, Issue(kind, user, a),
           UNCHANGED <<age, taken>>
    PROVE  Unspent' /\ Untouched' /\ SpentOnce' /\ Timed'
<1> USE PasskeysAssumption
<1> DEFINE new == [id |-> issued + 1, allowed |-> a, left |-> TTL]
<1>1. issued \in Int /\ issued' = issued + 1 /\ issued + 1 \in Ids
  <2>1. issued \in Int /\ issued' = issued + 1
    BY DEF Issue, IInv, TypeOK
  <2> QED
    BY <2>1, IssueTypes DEF IInv
<1>2. \A k \in Kinds, u \in Users :
         store'[k][u] = IF k = kind /\ u = user THEN new ELSE store[k][u]
  BY DEF Issue, IInv, TypeOK
<1>3. taken[issued + 1] = 0 /\ age[issued + 1] = 0
  BY <1>1 DEF IInv, Untouched
<1>4. \A k \in Kinds, u \in Users : IsStored(k, u) => store[k][u].id \in Ids
  BY NoEntryIsNone DEF IsStored, IInv, TypeOK
<1>5. \A k \in Kinds, u \in Users :
         (k = kind /\ u = user) \/ (IsStored(k, u)' => IsStored(k, u) /\ store'[k][u].id <= issued)
  BY <1>2 DEF IsStored, IInv, Unspent
<1>6. new.id = issued + 1 /\ new.left = TTL
  OBVIOUS
<1>7. Unspent'
  <2>1. ASSUME NEW k \in Kinds, NEW u \in Users, IsStored(k, u)'
        PROVE  store'[k][u].id <= issued' /\ taken'[store'[k][u].id] = 0
    <3>1. CASE k = kind /\ u = user
      BY <1>1, <1>2, <1>3, <1>6, <3>1
    <3>2. CASE ~(k = kind /\ u = user)
      BY <1>1, <1>2, <1>4, <1>5, <2>1, <3>2 DEF IInv, Unspent, Ids, IsStored
    <3> QED
      BY <3>1, <3>2
  <2>2. ASSUME NEW k \in Kinds, NEW u \in Users, NEW l \in Kinds, NEW v \in Users,
               IsStored(k, u)', IsStored(l, v)', store'[k][u].id = store'[l][v].id
        PROVE  k = l /\ u = v
    <3>1. CASE k = kind /\ u = user
      BY <1>1, <1>2, <1>4, <1>5, <1>6, <2>2, <3>1 DEF Ids
    <3>2. CASE l = kind /\ v = user
      BY <1>1, <1>2, <1>4, <1>5, <1>6, <2>2, <3>2 DEF Ids
    <3>3. CASE ~(k = kind /\ u = user) /\ ~(l = kind /\ v = user)
      BY <1>2, <2>2, <3>3 DEF IInv, Unspent, IsStored
    <3> QED
      BY <3>1, <3>2, <3>3
  <2> QED
    BY <2>1, <2>2 DEF Unspent
<1>8. Timed'
  <2>1. ASSUME NEW k \in Kinds, NEW u \in Users, IsStored(k, u)', store'[k][u].left >= 0
        PROVE  age'[store'[k][u].id] + store'[k][u].left = TTL
    <3>1. CASE k = kind /\ u = user
      BY <1>2, <1>3, <1>6, <3>1
    <3>2. CASE ~(k = kind /\ u = user)
      BY <1>2, <2>1, <3>2 DEF IInv, Timed, IsStored
    <3> QED
      BY <3>1, <3>2
  <2> QED
    BY <2>1 DEF Timed
<1>9. Untouched' /\ SpentOnce'
  BY <1>1 DEF IInv, Untouched, SpentOnce, Ids
<1> QED
  BY <1>7, <1>8, <1>9

\* Whoever takes a challenge out takes it out of the store, and in time.
LEMMA PopChallenge ==
    ASSUME IInv, TypeOK', NEW w \in Workers, Pop(w)
    PROVE  /\ Unspent' /\ Untouched' /\ SpentOnce' /\ Timed'
           /\ \A i \in Ids : taken'[i] # taken[i] => age[i] <= TTL
<1> USE PasskeysAssumption
<1> DEFINE kind == handled[w].kind
           user == handled[w].user
           entry == store[kind][user]
<1>1. handled[w] \in Responses
  BY DEF Pop, IInv, Busy
<1>2. kind \in Kinds /\ user \in Users /\ handled[w].id \in Ids
  BY <1>1 DEF Responses
<1>3. entry \in Entries
  BY <1>2 DEF IInv, TypeOK
<1>4. \A k \in Kinds, u \in Users :
         store'[k][u] = IF k = kind /\ u = user THEN NoEntry ELSE store[k][u]
  BY <1>2 DEF Pop, IInv, TypeOK
<1>5. issued' = issued /\ age' = age
  BY DEF Pop
<1>6. \A k \in Kinds, u \in Users : IsStored(k, u) => store[k][u].id \in Ids
  BY NoEntryIsNone DEF IsStored, IInv, TypeOK
<1>7. \A k \in Kinds, u \in Users :
         IsStored(k, u)' => /\ IsStored(k, u) /\ store'[k][u] = store[k][u]
                          /\ ~(k = kind /\ u = user)
  BY <1>4 DEF IsStored
<1>8. CASE taken' = taken
  <2>1. Unspent'
    BY <1>5, <1>7, <1>8, SmallerStore
  <2>2. Timed'
    BY <1>5, <1>7 DEF IInv, Timed
  <2> QED
    BY <1>5, <1>8, <2>1, <2>2 DEF IInv, Untouched, SpentOnce
<1>9. CASE taken' # taken
  <2>1. /\ IsStored(kind, user) /\ entry.left >= 0 /\ entry.id = handled[w].id
        /\ taken' = [taken EXCEPT ![entry.id] = @ + 1]
    BY <1>9 DEF Pop, IsStored
  <2>2. taken[entry.id] = 0 /\ entry.id <= issued /\ entry.id \in Ids
    BY <1>2, <1>6, <2>1 DEF IInv, Unspent
  <2>3. age[entry.id] + entry.left = TTL
    BY <1>2, <2>1 DEF IInv, Timed
  <2>4. \A i \in Ids : taken'[i] = IF i = entry.id THEN 1 ELSE taken[i]
    BY <2>1, <2>2 DEF IInv, TypeOK
  <2>5. Unspent'
    <3>1. \A k \in Kinds, u \in Users : IsStored(k, u)' => store[k][u].id # entry.id
      BY <1>2, <1>7, <2>1 DEF IInv, Unspent
    <3>2. \A k \in Kinds, u \in Users :
             IsStored(k, u)' => taken'[store[k][u].id] = taken[store[k][u].id]
      BY <1>6, <1>7, <2>4, <3>1
    <3> QED
      BY <1>5, <1>7, <3>2, SmallerStore
  <2>6. Timed'
    BY <1>5, <1>7 DEF IInv, Timed
  <2>7. age[entry.id] <= TTL
    BY <1>3, <2>1, <2>2, <2>3, NoEntryIsNone DEF IInv, TypeOK
  <2>8. \A i \in Ids : taken'[i] # taken[i] => age[i] <= TTL
    BY <2>4, <2>7
  <2>9. Untouched'
    BY <1>5, <2>2, <2>4 DEF IInv, TypeOK, Untouched, Ids
  <2>10. SpentOnce'
    BY <2>4 DEF IInv, SpentOnce
  <2> QED
    BY <2>5, <2>6, <2>8, <2>9, <2>10
<1> QED
  BY <1>8, <1>9

LEMMA TickChallenge ==
    ASSUME IInv, TypeOK', Tick
    PROVE  Unspent' /\ Untouched' /\ SpentOnce' /\ Timed'
<1> USE PasskeysAssumption
<1>1. \A k \in Kinds, u \in Users : IsStored(k, u) => store[k][u].id \in Ids
  BY NoEntryIsNone DEF IsStored, IInv, TypeOK
<1>2. ASSUME NEW k \in Kinds, NEW u \in Users, IsStored(k, u)'
      PROVE  /\ IsStored(k, u) /\ store'[k][u].id = store[k][u].id
             /\ store'[k][u].left >= 0
                    => /\ store[k][u].left >= 0
                       /\ store'[k][u].left = store[k][u].left - 1
  <2>1. CASE store[k][u] = NoEntry \/ store[k][u].left < 0
    <3>1. store'[k] = [v \in Users |->
              IF store[k][v] = NoEntry \/ store[k][v].left < 0 THEN store[k][v]
              ELSE [store[k][v] EXCEPT !.left = @ - 1]]
      BY DEF Tick
    <3>2. store'[k][u] = store[k][u]
      BY <2>1, <3>1
    <3>3. store[k][u].left \in Int
      BY NoEntryIsNone DEF IInv, TypeOK
    <3> QED
      BY <1>2, <2>1, <3>2, <3>3 DEF IsStored
  <2>2. CASE ~(store[k][u] = NoEntry \/ store[k][u].left < 0)
    <3>1. store[k][u] \in [id : Ids, allowed : Devices \union {None}, left : -1 .. TTL]
      BY <2>2, NoEntryIsNone DEF IInv, TypeOK
    <3>2. store'[k][u] = [store[k][u] EXCEPT !.left = @ - 1]
      BY <2>2 DEF Tick
    <3> QED
      BY <2>2, <3>1, <3>2 DEF IsStored
  <2> QED
    BY <2>1, <2>2
<1>3. issued' = issued /\ taken' = taken
  BY DEF Tick
<1>4. Unspent'
  BY <1>2, <1>3, SmallerStore
<1>5. ASSUME NEW k \in Kinds, NEW u \in Users, IsStored(k, u)', store'[k][u].left >= 0
      PROVE  age'[store'[k][u].id] + store'[k][u].left = TTL
  <2> DEFINE i == store[k][u].id
  <2>1. i \in Ids /\ i <= issued
    BY <1>1, <1>2, <1>5 DEF IInv, Unspent
  <2>2. age[i] + store[k][u].left = TTL
    BY <1>2, <1>5 DEF IInv, Timed
  <2>3. store[k][u].left \in Int /\ store[k][u].left >= 0 /\ age[i] \in Int /\ issued \in Int /\ i \in Int
    BY <1>2, <1>5, <2>1, NoEntryIsNone DEF IInv, TypeOK, Ids
  <2>4. age'[i] = age[i] + 1
    BY <2>1, <2>2, <2>3 DEF Tick
  <2> QED
    BY <1>2, <1>5, <2>2, <2>3, <2>4
<1>6. Untouched'
  BY <1>3 DEF Tick, IInv, Untouched
<1> QED
  BY <1>3, <1>4, <1>5, <1>6 DEF Timed, IInv, SpentOnce

LEMMA StepChallenges ==
    IInv /\ [Next]_vars /\ TypeOK' =>
        /\ Unspent' /\ Untouched' /\ SpentOnce' /\ Timed'
        /\ \A i \in Ids : taken'[i] # taken[i] => age[i] <= TTL
<1> SUFFICES ASSUME IInv, [Next]_vars, TypeOK'
             PROVE  /\ Unspent' /\ Untouched' /\ SpentOnce' /\ Timed'
                    /\ \A i \in Ids : taken'[i] # taken[i] => age[i] <= TTL
  OBVIOUS
<1>1. ASSUME NEW u \in Users, RegisterStart(u) \/ LoginStart(u)
      PROVE  /\ Unspent' /\ Untouched' /\ SpentOnce' /\ Timed' /\ taken' = taken
  <2>1. credential[u] \in Devices \union {None}
    BY DEF IInv, TypeOK
  <2>2. PICK k \in Kinds, a \in Devices \union {None} : Issue(k, u, a)
    BY <1>1, <2>1 DEF RegisterStart, LoginStart, Kinds
  <2>3. UNCHANGED <<age, taken>>
    BY <1>1 DEF RegisterStart, LoginStart
  <2> QED
    BY <2>2, <2>3, IssueChallenge
<1>2. ASSUME UNCHANGED <<store, issued, age, taken>>
      PROVE  /\ Unspent' /\ Untouched' /\ SpentOnce' /\ Timed' /\ taken' = taken
  BY <1>2 DEF IInv, Unspent, Untouched, SpentOnce, Timed, IsStored
<1>3. CASE \E w \in Workers : Pop(w)
  BY <1>3, PopChallenge
<1>4. ASSUME Cleanup \/ Restart
      PROVE  /\ Unspent' /\ Untouched' /\ SpentOnce' /\ Timed' /\ taken' = taken
  <2>1. ASSUME NEW k \in Kinds, NEW u \in Users, IsStored(k, u)'
        PROVE  IsStored(k, u) /\ store'[k][u] = store[k][u]
    <3>1. CASE Cleanup
      BY <2>1, <3>1 DEF Cleanup, IsStored
    <3>2. CASE Restart
      BY <2>1, <3>2 DEF Restart, Empty, IsStored
    <3> QED
      BY <1>4, <3>1, <3>2
  <2>2. UNCHANGED <<issued, age, taken>>
    BY <1>4 DEF Cleanup, Restart
  <2>3. Unspent'
    BY <2>1, <2>2, SmallerStore
  <2>4. Timed'
    BY <2>1, <2>2 DEF IInv, Timed
  <2> QED
    BY <2>2, <2>3, <2>4 DEF IInv, Untouched, SpentOnce
<1>5. CASE Tick
  BY <1>5, TickChallenge DEF Tick
<1>6. CASE \E k \in Kinds, u \in Users, d \in Devices : Sign(k, u, d)
  BY <1>2, <1>6 DEF Sign
<1>7. CASE \E w \in Workers : \/ \E r \in responses : Finish(w, r)
                              \/ ConcludeRegistration(w) \/ ConcludeLogin(w)
  BY <1>2, <1>7 DEF Finish, ConcludeRegistration, ConcludeLogin
<1>8. CASE UNCHANGED vars
  BY <1>2, <1>8 DEF vars
<1> QED
  BY <1>1, <1>3, <1>4, <1>5, <1>6, <1>7, <1>8 DEF Next

-----------------------------------------------------------------------------
(* Passkeys                                                                *)

\* Registrations only add to what a user was told, and a request that has
\* ended claims nothing.
LEMMA MoreEnrolled ==
    ASSUME IInv, TypeOK',
           \A u \in Users : enrolled[u] \subseteq enrolled'[u],
           UNCHANGED <<credential, opened>>,
           \A w \in Workers :
              pc'[w] # "idle" => /\ pc[w] # "idle" /\ handled'[w] = handled[w]
                                /\ seen'[w] = seen[w]
    PROVE  Owned' /\ LoginByOwnPasskey'
<1>1. \A w \in Workers : pc[w] # "idle" => handled[w].user \in Users
  BY DEF IInv, Busy, Responses
<1> QED
  BY <1>1 DEF IInv, Owned, LoginByOwnPasskey

LEMMA StepPasskeys == IInv /\ [Next]_vars /\ TypeOK' => Owned' /\ LoginByOwnPasskey'
<1> SUFFICES ASSUME IInv, [Next]_vars, TypeOK' PROVE Owned' /\ LoginByOwnPasskey'
  OBVIOUS
<1>0. \A w \in Workers : pc[w] # "idle" =>
         handled[w] \in Responses /\ handled[w].user \in Users /\ handled[w].device \in Devices
  BY DEF IInv, Busy, Responses
<1>1. CASE UNCHANGED <<credential, pc, handled, seen, enrolled, opened>>
  BY <1>1, MoreEnrolled
<1>2. ASSUME NEW w \in Workers, NEW r \in responses, Finish(w, r)
      PROVE  Owned' /\ LoginByOwnPasskey'
  <2>1. r.user \in Users
    BY DEF IInv, TypeOK, Responses
  <2>2. \A v \in Workers : v # w => pc'[v] = pc[v] /\ handled'[v] = handled[v] /\ seen'[v] = seen[v]
    BY <1>2 DEF Finish, IInv, TypeOK
  <2>3. handled'[w] = r /\ seen'[w] = credential[r.user]
    BY <1>2 DEF Finish, IInv, TypeOK
  <2> QED
    BY <1>0, <1>2, <2>1, <2>2, <2>3 DEF Finish, IInv, Owned, LoginByOwnPasskey
<1>3. ASSUME NEW w \in Workers, Pop(w)
      PROVE  Owned' /\ LoginByOwnPasskey'
  <2>1. \A v \in Workers :
           pc'[v] # "idle" => pc[v] # "idle" /\ handled'[v] = handled[v] /\ seen'[v] = seen[v]
    BY <1>3 DEF Pop, Answer, IInv, TypeOK
  <2> QED
    BY <1>3, <2>1, MoreEnrolled DEF Pop
<1>4. ASSUME NEW w \in Workers, ConcludeRegistration(w)
      PROVE  Owned' /\ LoginByOwnPasskey'
  <2>1. \A v \in Workers :
           pc'[v] # "idle" => v # w /\ pc[v] # "idle" /\ handled'[v] = handled[v] /\ seen'[v] = seen[v]
    BY <1>4 DEF ConcludeRegistration, Answer, IInv, TypeOK
  <2>2. CASE UNCHANGED <<credential, enrolled>>
    BY <1>4, <2>1, <2>2, MoreEnrolled DEF ConcludeRegistration
  <2>3. CASE /\ credential' = [credential EXCEPT ![handled[w].user] = handled[w].device]
             /\ enrolled' = [enrolled EXCEPT ![handled[w].user] = @ \union {handled[w].device}]
    <3>1. handled[w].user \in Users
      BY <1>0, <1>4 DEF ConcludeRegistration
    <3>2. \A u \in Users : enrolled[u] \subseteq enrolled'[u]
      BY <2>3 DEF IInv, TypeOK
    <3>3. \A u \in Users : credential'[u] \in enrolled'[u] \union {None}
      BY <2>3, <3>1 DEF IInv, TypeOK, Owned
    <3>4. opened' = opened
      BY <1>4 DEF ConcludeRegistration
    <3> QED
      BY <1>0, <2>1, <3>2, <3>3, <3>4 DEF IInv, Owned, LoginByOwnPasskey
  <2> QED
    BY <1>4, <2>2, <2>3 DEF ConcludeRegistration
<1>5. ASSUME NEW w \in Workers, ConcludeLogin(w)
      PROVE  Owned' /\ LoginByOwnPasskey'
  <2>1. \A v \in Workers :
           pc'[v] # "idle" => pc[v] # "idle" /\ handled'[v] = handled[v] /\ seen'[v] = seen[v]
    BY <1>5 DEF ConcludeLogin, Answer, IInv, TypeOK
  <2>2. CASE ~Accepted(w)
    BY <1>5, <2>1, <2>2, MoreEnrolled DEF ConcludeLogin
  <2>3. CASE Accepted(w)
    <3>1. pc[w] # "idle" /\ handled[w].user \in Users /\ handled[w].device \in Devices
      BY <1>0, <1>5 DEF ConcludeLogin
    <3>2. handled[w].device \in enrolled[handled[w].user]
      BY <2>3, <3>1, PasskeysAssumption DEF Accepted, IInv, Owned
    <3>3. UNCHANGED <<credential, enrolled>>
          /\ opened' = [opened EXCEPT ![handled[w].user] = @ \union {handled[w].device}]
      BY <1>5, <2>3 DEF ConcludeLogin
    <3>4. LoginByOwnPasskey'
      BY <3>1, <3>2, <3>3 DEF IInv, TypeOK, LoginByOwnPasskey
    <3>5. Owned'
      BY <2>1, <3>3 DEF IInv, Owned
    <3> QED
      BY <3>4, <3>5
  <2> QED
    BY <2>2, <2>3
<1>6. CASE Restart
  <2>1. \A w \in Workers : pc'[w] = "idle"
    BY <1>6 DEF Restart
  <2> QED
    BY <1>6, <2>1, MoreEnrolled DEF Restart
<1> QED
  BY <1>1, <1>2, <1>3, <1>4, <1>5, <1>6
     DEF Next, vars, RegisterStart, LoginStart, Sign, Cleanup, Tick

-----------------------------------------------------------------------------
(* Theorems                                                                *)

LEMMA StepIInv == IInv /\ [Next]_vars => IInv'
<1> SUFFICES ASSUME IInv, [Next]_vars PROVE IInv'
  OBVIOUS
<1>1. TypeOK' /\ Busy'
  BY StepTypes DEF IInv
<1> QED
  BY <1>1, StepChallenges, StepPasskeys DEF IInv

LEMMA AlwaysIInv == Spec => []IInv
BY InitIInv, StepIInv, PTL DEF Spec

\* The types of the ceremonies' state.
THEOREM CeremoniesTyped == Spec => []TypeOK
<1>1. IInv => TypeOK
  BY DEF IInv
<1> QED
  BY <1>1, AlwaysIInv, PTL

\* popChallengeSession and popLoginSession hand a challenge to one finish
\* request at most, in every order the requests, the cleanup and restarts come.
THEOREM ChallengesAreSpentOnce == Spec => []SpentOnce
<1>1. IInv => SpentOnce
  BY DEF IInv
<1> QED
  BY <1>1, AlwaysIInv, PTL

\* They hand out none that is older than webAuthnSessionTTL, although expired
\* ones stay stored until the cleanup.
THEOREM ChallengesAreTakenInTime == Spec => NeverTakenLate
<1>1. IInv /\ [Next]_vars => [\A i \in Ids : taken'[i] # taken[i] => age[i] <= TTL]_vars
  BY StepTypes, StepChallenges DEF IInv
<1> QED
  BY <1>1, AlwaysIInv, PTL DEF Spec, NeverTakenLate

\* A passkey opens a session only for a user it was registered for, whatever
\* is registered and replaced between a log-in's reading and its conclusion.
THEOREM LoginsAreByOwnPasskey == Spec => []LoginByOwnPasskey
<1>1. IInv => LoginByOwnPasskey
  BY DEF IInv
<1> QED
  BY <1>1, AlwaysIInv, PTL

-----------------------------------------------------------------------------
(***************************************************************************)
(* Accounts: who wins a name, and when a promised password can be lost     *)
(***************************************************************************)
\* What a request asks fits the statement it is about to execute.
Purposeful ==
    \A w \in Handlers :
        /\ place[w] = "insert" => req[w] \in Requests /\ req[w].kind = "register"
        /\ place[w] = "passkey" => req[w] \in Requests /\ req[w].kind = "passkey"
        /\ place[w] \in {"authenticate", "rehash", "update"} =>
              req[w] \in Requests /\ req[w].kind \in {"login", "change"}
        /\ place[w] = "update" => req[w].kind = "change"

\* Plaintext passwords are those the table started with.  A request that read
\* one and is about to rehash it has been given the same text.
OldPlaintext ==
    /\ Legacy \subseteq Usernames
    /\ \A u \in Legacy : row[u] # NoRow
    /\ \A u \in Usernames : row[u].password.kind = "plain" => u \in Legacy
    /\ \A w \in Handlers :
          /\ found[w].password.kind = "plain" => req[w].user \in Legacy
          /\ place[w] = "rehash" => /\ found[w].password.kind = "plain"
                                 /\ found[w].password.text = req[w].password

\* The winner of a name has a row, and it is not one of the first ones.
WinnersStored ==
    \A r \in winners :
        /\ r \in Requests /\ r.user \in Usernames \ Legacy
        /\ row[r.user] # NoRow

\* Who has read a row is served while the row still exists.
SeenStored ==
    \A w \in Handlers :
        /\ found[w] # NoRow => req[w] \in Requests /\ row[req[w].user] # NoRow
        /\ place[w] = "update" => found[w] # NoRow
        /\ place[w] \in {"idle", "insert", "passkey"} => found[w] = NoRow

\* Who has read a plaintext password has read what is promised, unless the
\* promise changed afterwards, and then the change overlapped this request.
ReadAsPromised ==
    \A w \in Handlers :
        found[w].password.kind = "plain" =>
            \/ found[w].password.text = promised[req[w].user]
            \/ req[w].user \in overlapped

AccountsInv ==
    /\ AccountsTypeOK /\ Purposeful /\ OldPlaintext /\ WinnersStored /\ SeenStored
    /\ WinnerOwnsAccount /\ ReadAsPromised /\ PromiseLostOnlyToRehash

-----------------------------------------------------------------------------
\* The shapes of rows that the proofs tell apart.
LEMMA RowShapes ==
    ASSUME NEW e, NEW p
    PROVE  /\ [email |-> e, password |-> Hash(p)] # NoRow
           /\ [email |-> NoEmail, password |-> NoPassword] # NoRow
           /\ Hash(p).kind = "hash" /\ Hash(p).text = p
           /\ NoRow.password = NoPassword
           /\ NoPassword.kind = "null" /\ NoPassword.text = "none"
<1>1. Hash(p).kind = "hash" /\ Hash(p).text = p
  BY DEF Hash
<1>2. NoPassword.kind = "null" /\ NoPassword.text = "none" /\ NoRow.password = NoPassword
  BY DEF NoPassword, NoRow
<1>3. [email |-> e, password |-> Hash(p)].password # NoRow.password
  BY <1>1, <1>2
<1>4. [email |-> NoEmail, password |-> NoPassword].email # NoRow.email
  BY DEF NoEmail, NoRow
<1>5. QED
  BY <1>1, <1>2, <1>3, <1>4

\* The table as it is found satisfies the invariant.
LEMMA InitAccounts == AccountsInit => AccountsInv
<1> SUFFICES ASSUME AccountsInit PROVE AccountsInv
  OBVIOUS
<1> USE AccountsAssumption
<1>1. PICK old \in Passwords, email \in Emails :
        /\ row = [u \in Usernames |->
                    IF u \in Legacy
                    THEN [email |-> email, password |-> [kind |-> "plain", text |-> old]]
                    ELSE NoRow]
        /\ promised = [u \in Usernames |-> IF u \in Legacy THEN old ELSE "none"]
  BY DEF AccountsInit
<1>2. [email |-> email, password |-> [kind |-> "plain", text |-> old]] \in Rows
  BY DEF Rows, Stored
<1>3. [email |-> email, password |-> [kind |-> "plain", text |-> old]] # NoRow
  BY DEF NoRow, NoPassword
<1>4. AccountsTypeOK
  BY <1>1, <1>2 DEF AccountsInit, AccountsTypeOK, Rows
<1>5. Purposeful
  BY DEF AccountsInit, Purposeful
<1>6. OldPlaintext
  BY <1>1, <1>3, RowShapes DEF AccountsInit, OldPlaintext
<1>7. WinnersStored /\ WinnerOwnsAccount
  BY DEF AccountsInit, WinnersStored, WinnerOwnsAccount
<1>8. ReadAsPromised
  BY RowShapes DEF AccountsInit, ReadAsPromised
<1>9. PromiseLostOnlyToRehash
  BY <1>1, RowShapes DEF PromiseLostOnlyToRehash
<1>10. SeenStored
  BY DEF AccountsInit, SeenStored
<1>11. QED
  BY <1>4, <1>5, <1>6, <1>7, <1>8, <1>9, <1>10 DEF AccountsInv

-----------------------------------------------------------------------------
\* What a request reads of its fields, for each kind.
LEMMA RequestFields ==
    ASSUME NEW r \in Requests
    PROVE  /\ r.user \in Usernames
           /\ r.kind = "register" => r.email \in Emails /\ r.password \in Passwords
           /\ r.kind \in {"login", "change"} => r.password \in Passwords
           /\ r.kind = "change" => r.new \in Passwords
           /\ r.kind \in {"register", "login", "change", "passkey"}
BY DEF Requests

\* Changing the password of a stored row leaves a stored row.
LEMMA NewPassword ==
    ASSUME NEW old \in Rows, old # NoRow, NEW p \in Passwords
    PROVE  /\ [old EXCEPT !.password = Hash(p)] \in Rows
           /\ [old EXCEPT !.password = Hash(p)] # NoRow
           /\ [old EXCEPT !.password = Hash(p)].email = old.email
           /\ [old EXCEPT !.password = Hash(p)].password = Hash(p)
<1>1. old \in [email : Emails \union {NoEmail}, password : Stored]
  BY DEF Rows
<1>2. Hash(p) \in Stored
  BY DEF Hash, Stored
<1>3. Hash(p) # NoPassword
  BY RowShapes
<1>4. [old EXCEPT !.password = Hash(p)].password # NoRow.password
  BY <1>1, <1>3, RowShapes
<1>5. QED
  BY <1>1, <1>2, <1>4 DEF Rows

\* A request that has read nothing of the table and enters its first statement.
LEMMA EnteringKeeps ==
    ASSUME AccountsInv, NEW w \in Handlers, NEW r \in Requests,
           r.kind \in {"register", "passkey"}, Arrive(w, r),
           UNCHANGED <<row, found, winners, changed, promised, overlapped>>
    PROVE  AccountsInv'
<1> USE DEF AccountsInv
<1>1. /\ place[w] = "idle" /\ found[w] = NoRow
      /\ req' = [req EXCEPT ![w] = r]
      /\ place' = [place EXCEPT ![w] = IF r.kind = "register" THEN "insert" ELSE "passkey"]
  BY DEF Arrive, SeenStored
<1>2. AccountsTypeOK'
  BY <1>1 DEF AccountsTypeOK
<1>3. Purposeful'
  BY <1>1 DEF AccountsTypeOK, Purposeful
<1>4. OldPlaintext'
  BY <1>1, RowShapes DEF AccountsTypeOK, OldPlaintext
<1>5. SeenStored'
  BY <1>1 DEF AccountsTypeOK, SeenStored
<1>6. ReadAsPromised'
  BY <1>1, RowShapes DEF AccountsTypeOK, ReadAsPromised
<1>7. WinnersStored' /\ WinnerOwnsAccount' /\ PromiseLostOnlyToRehash'
  BY DEF WinnersStored, WinnerOwnsAccount, PromiseLostOnlyToRehash
<1>8. QED
  BY <1>2, <1>3, <1>4, <1>5, <1>6, <1>7

\* A log-in or a change arrives and reads the row.
LEMMA LoginKeeps ==
    ASSUME AccountsInv, NEW w \in Handlers, NEW r \in Requests, Login(w, r)
    PROVE  AccountsInv'
<1> USE DEF AccountsInv
<1>1. /\ r.kind \in {"login", "change"} /\ r.user \in Usernames
      /\ req' = [req EXCEPT ![w] = r]
      /\ place' = [place EXCEPT ![w] = "authenticate"]
      /\ found' = [found EXCEPT ![w] = row[r.user]]
      /\ UNCHANGED <<row, winners, changed, promised, overlapped>>
  BY RequestFields DEF Login, Arrive
<1>2. AccountsTypeOK'
  BY <1>1 DEF AccountsTypeOK
<1>3. Purposeful'
  BY <1>1 DEF AccountsTypeOK, Purposeful
<1>4. OldPlaintext'
  BY <1>1 DEF AccountsTypeOK, OldPlaintext
<1>5. SeenStored'
  BY <1>1 DEF AccountsTypeOK, SeenStored
<1>6. ReadAsPromised'
  BY <1>1 DEF AccountsTypeOK, ReadAsPromised, PromiseLostOnlyToRehash
<1>7. WinnersStored' /\ WinnerOwnsAccount' /\ PromiseLostOnlyToRehash'
  BY <1>1 DEF WinnersStored, WinnerOwnsAccount, PromiseLostOnlyToRehash
<1>8. QED
  BY <1>2, <1>3, <1>4, <1>5, <1>6, <1>7

\* A request is answered and nothing else happens.
LEMMA AnswerKeeps ==
    ASSUME AccountsInv, NEW w \in Handlers, Reply(w),
           UNCHANGED <<row, winners, changed, promised, overlapped>>
    PROVE  AccountsInv'
<1> USE DEF AccountsInv, Reply
<1>1. AccountsTypeOK'
  BY DEF AccountsTypeOK, Rows
<1>2. Purposeful'
  BY DEF AccountsTypeOK, Purposeful
<1>3. OldPlaintext'
  BY RowShapes DEF AccountsTypeOK, OldPlaintext
<1>4. SeenStored'
  BY DEF AccountsTypeOK, SeenStored
<1>5. ReadAsPromised'
  BY RowShapes DEF AccountsTypeOK, ReadAsPromised
<1>6. WinnersStored' /\ WinnerOwnsAccount' /\ PromiseLostOnlyToRehash'
  BY DEF WinnersStored, WinnerOwnsAccount, PromiseLostOnlyToRehash
<1>7. QED
  BY <1>1, <1>2, <1>3, <1>4, <1>5, <1>6

\* A request goes on to its next statement.
LEMMA GotoKeeps ==
    ASSUME AccountsInv, NEW w \in Handlers, NEW step, Goto(w, step),
           place[w] \in {"authenticate", "rehash"}, found[w] # NoRow,
           \/ /\ step = "rehash" /\ found[w].password.kind = "plain"
              /\ found[w].password.text = req[w].password
           \/ step = "update" /\ req[w].kind = "change",
           UNCHANGED <<row, found, winners, changed, promised, overlapped>>
    PROVE  AccountsInv'
<1> USE DEF AccountsInv, Goto
<1>1. AccountsTypeOK'
  BY DEF AccountsTypeOK
<1>2. Purposeful'
  BY DEF AccountsTypeOK, Purposeful
<1>3. OldPlaintext'
  BY DEF AccountsTypeOK, OldPlaintext
<1>4. SeenStored'
  BY DEF AccountsTypeOK, SeenStored
<1>5. ReadAsPromised'
  BY DEF ReadAsPromised
<1>6. WinnersStored' /\ WinnerOwnsAccount' /\ PromiseLostOnlyToRehash'
  BY DEF WinnersStored, WinnerOwnsAccount, PromiseLostOnlyToRehash
<1>7. QED
  BY <1>1, <1>2, <1>3, <1>4, <1>5, <1>6

\* authenticateAuthUser, after its SELECT, writes nothing.
LEMMA AuthenticateKeeps ==
    ASSUME AccountsInv, NEW w \in Handlers, Authenticate(w)
    PROVE  AccountsInv'
<1>1. place[w] = "authenticate" /\ UNCHANGED <<row, winners, changed, promised, overlapped>>
  BY DEF Authenticate
<1>2. CASE Reply(w)
  BY <1>1, <1>2, AnswerKeeps
<1>3. CASE /\ found[w].password.text = req[w].password /\ found[w].password.kind = "plain"
           /\ Goto(w, "rehash") /\ UNCHANGED found
  <2>1. found[w] # NoRow
    BY <1>3, RowShapes
  <2>2. QED
    BY <1>1, <1>3, <2>1, GotoKeeps
<1>4. CASE /\ found[w].password.kind = "hash" /\ req[w].kind = "change"
           /\ Goto(w, "update") /\ UNCHANGED found
  <2>1. found[w] # NoRow
    BY <1>4, RowShapes
  <2>2. QED
    BY <1>1, <1>4, <2>1, GotoKeeps
<1>5. QED
  BY <1>2, <1>3, <1>4 DEF Authenticate

\* A statement of w has just stored an account under a name that had no row:
\* no log-in can have read that row, and nobody had won the name.
LEMMA InsertionKeeps ==
    ASSUME AccountsInv, NEW w \in Handlers, Reply(w),
           NEW u \in Usernames, row[u] = NoRow,
           NEW new \in Rows, new # NoRow, new.password.kind # "plain",
           row' = [row EXCEPT ![u] = new],
           NEW text \in Passwords \union {"none"}, new.password.text = text,
           promised' = [promised EXCEPT ![u] = text],
           \/ UNCHANGED winners
           \/ \E r \in Requests :
                 /\ r.user = u /\ new.email = r.email /\ new.password = Hash(r.password)
                 /\ winners' = winners \union {r},
           UNCHANGED <<changed, overlapped>>
    PROVE  AccountsInv'
<1> USE DEF AccountsInv, Reply
<1>1. u \notin Legacy
  BY DEF OldPlaintext
<1>2. \A r \in winners : r.user # u
  BY DEF WinnersStored
<1>3. AccountsTypeOK'
  BY DEF AccountsTypeOK, Rows
<1>4. Purposeful'
  BY DEF AccountsTypeOK, Purposeful
<1>5. OldPlaintext'
  BY <1>1, RowShapes DEF AccountsTypeOK, OldPlaintext
<1>6. WinnersStored'
  BY <1>1 DEF AccountsTypeOK, WinnersStored
<1>7. SeenStored'
  BY DEF AccountsTypeOK, SeenStored
<1>8. WinnerOwnsAccount'
  BY <1>2 DEF AccountsTypeOK, WinnerOwnsAccount, WinnersStored
<1>9. ReadAsPromised'
  BY <1>1, RowShapes DEF AccountsTypeOK, ReadAsPromised, OldPlaintext
<1>10. PromiseLostOnlyToRehash'
  BY DEF AccountsTypeOK, PromiseLostOnlyToRehash
<1>11. QED
  BY <1>3, <1>4, <1>5, <1>6, <1>7, <1>8, <1>9, <1>10

\* A registration stores the account and wins the name, or is answered 500.
LEMMA CreateAuthUserKeeps ==
    ASSUME AccountsInv, NEW w \in Handlers, CreateAuthUser(w)
    PROVE  AccountsInv'
<1> DEFINE r == req[w]
           new == [email |-> r.email, password |-> Hash(r.password)]
<1>1. Reply(w) /\ UNCHANGED <<changed, overlapped>>
  BY DEF CreateAuthUser
<1>2. CASE UNCHANGED <<row, winners, promised>>
  BY <1>1, <1>2, AnswerKeeps
<1>3. CASE /\ row[r.user] = NoRow
           /\ row' = [row EXCEPT ![r.user] = new]
           /\ winners' = winners \union {r}
           /\ promised' = [promised EXCEPT ![r.user] = r.password]
  <2>1. r \in Requests /\ r.kind = "register"
    BY DEF CreateAuthUser, AccountsInv, Purposeful
  <2>2. r.user \in Usernames /\ r.email \in Emails /\ r.password \in Passwords
    BY <2>1, RequestFields
  <2>3. new \in Rows /\ new # NoRow /\ new.password.kind # "plain" /\ new.password.text = r.password
    BY <2>2, RowShapes DEF Rows, Stored, Hash
  <2> HIDE DEF r
  <2>4. new.email = r.email /\ new.password = Hash(r.password)
    OBVIOUS
  <2> HIDE DEF new
  <2>5. QED
    BY <1>1, <1>3, <2>1, <2>2, <2>3, <2>4, InsertionKeeps
<1>4. QED
  BY <1>2, <1>3 DEF CreateAuthUser

\* The account of a passkey registration promises no password and takes no name.
LEMMA InsertUserKeeps ==
    ASSUME AccountsInv, NEW w \in Handlers, InsertUser(w)
    PROVE  AccountsInv'
<1> DEFINE u == req[w].user
           new == [email |-> NoEmail, password |-> NoPassword]
<1>1. Reply(w) /\ UNCHANGED <<winners, changed, promised, overlapped>>
  BY DEF InsertUser
<1>2. CASE UNCHANGED row
  BY <1>1, <1>2, AnswerKeeps
<1>3. CASE row[u] = NoRow /\ row' = [row EXCEPT ![u] = new]
  <2>1. u \in Usernames
    BY RequestFields DEF InsertUser, AccountsInv, Purposeful
  <2>2. new \in Rows /\ new # NoRow /\ new.password.kind # "plain" /\ new.password.text = "none"
    BY RowShapes DEF Rows, Stored
  <2>3. promised[u] = "none" /\ promised \in [Usernames -> Passwords \union {"none"}]
    BY <1>3, <2>1, RowShapes DEF AccountsInv, PromiseLostOnlyToRehash, OldPlaintext, AccountsTypeOK
  <2>4. promised' = [promised EXCEPT ![u] = "none"]
    BY <1>1, <2>1, <2>3
  <2> HIDE DEF u, new
  <2>5. QED
    BY <1>1, <1>3, <2>1, <2>2, <2>4, InsertionKeeps
<1>4. QED
  BY <1>2, <1>3 DEF InsertUser

\* The rehash writes the text that was read: the promised one, unless a
\* change overlapped it.  Nobody has won the name of a legacy user.
LEMMA RehashKeeps ==
    ASSUME AccountsInv, NEW w \in Handlers, Rehash(w)
    PROVE  AccountsInv'
<1> DEFINE r == req[w]
           new == [row[r.user] EXCEPT !.password = Hash(r.password)]
<1> USE DEF AccountsInv
<1>1. UNCHANGED <<winners, changed, promised, overlapped>> /\ place[w] = "rehash"
  BY DEF Rehash
<1>2. /\ r \in Requests /\ r.user \in Legacy /\ r.user \in Usernames /\ r.password \in Passwords
      /\ found[w].password.kind = "plain" /\ found[w].password.text = r.password
      /\ found[w] # NoRow /\ row[r.user] # NoRow /\ row[r.user] \in Rows
  <2>1. r \in Requests /\ r.kind \in {"login", "change"}
    BY <1>1 DEF Purposeful
  <2>2. r.user \in Usernames /\ r.password \in Passwords
    BY <2>1, RequestFields
  <2>3. /\ found[w].password.kind = "plain" /\ found[w].password.text = r.password
        /\ r.user \in Legacy /\ row[r.user] # NoRow
    BY <1>1 DEF OldPlaintext
  <2>4. found[w] # NoRow
    BY <2>3, RowShapes
  <2>5. QED
    BY <2>1, <2>2, <2>3, <2>4 DEF AccountsTypeOK
<1>3. CASE UNCHANGED row
  <2>1. CASE Reply(w)
    BY <1>1, <1>3, <2>1, AnswerKeeps
  <2>2. CASE r.kind = "change" /\ Goto(w, "update") /\ UNCHANGED found
    BY <1>1, <1>2, <1>3, <2>2, GotoKeeps
  <2>3. QED
    BY <2>1, <2>2 DEF Rehash
<1>4. CASE row' = [row EXCEPT ![r.user] = new]
  <2>1. /\ new \in Rows /\ new # NoRow /\ new.email = row[r.user].email
        /\ new.password = Hash(r.password)
    BY <1>2, NewPassword
  <2>2. new.password.kind = "hash" /\ new.password.text = r.password
    BY <2>1, RowShapes
  <2> HIDE DEF new
  <2>3. \/ Reply(w)
        \/ r.kind = "change" /\ Goto(w, "update") /\ UNCHANGED found
    BY DEF Rehash
  <2>4. AccountsTypeOK'
    BY <1>1, <1>2, <1>4, <2>1, <2>3 DEF AccountsTypeOK, Reply, Goto, Rows
  <2>5. Purposeful'
    BY <1>1, <1>2, <2>3 DEF AccountsTypeOK, Purposeful, Reply, Goto
  <2>6. OldPlaintext'
    BY <1>1, <1>2, <1>4, <2>1, <2>2, <2>3, RowShapes DEF AccountsTypeOK, OldPlaintext, Reply, Goto
  <2>7. WinnersStored'
    BY <1>1, <1>4, <2>1 DEF AccountsTypeOK, WinnersStored
  <2>8. SeenStored'
    BY <1>1, <1>2, <1>4, <2>1, <2>3 DEF AccountsTypeOK, SeenStored, Reply, Goto
  <2>9. WinnerOwnsAccount'
    BY <1>1, <1>2, <1>4 DEF AccountsTypeOK, WinnerOwnsAccount, WinnersStored
  <2>10. ReadAsPromised'
    BY <1>1, <2>3, RowShapes DEF AccountsTypeOK, ReadAsPromised, Reply, Goto
  <2>11. PromiseLostOnlyToRehash'
    BY <1>1, <1>2, <1>4, <2>2 DEF AccountsTypeOK, PromiseLostOnlyToRehash, ReadAsPromised
  <2>12. QED
    BY <2>4, <2>5, <2>6, <2>7, <2>8, <2>9, <2>10, <2>11
<1>5. QED
  BY <1>3, <1>4 DEF Rehash

\* A change that succeeds promises what it stores, and notes whether a log-in
\* that has read the plaintext it replaces is still under way.
LEMMA UpdateAuthUserPasswordKeeps ==
    ASSUME AccountsInv, NEW w \in Handlers, UpdateAuthUserPassword(w)
    PROVE  AccountsInv'
<1> DEFINE r == req[w]
           new == [row[r.user] EXCEPT !.password = Hash(r.new)]
<1> USE DEF AccountsInv
<1>1. Reply(w) /\ UNCHANGED winners /\ place[w] = "update"
  BY DEF UpdateAuthUserPassword
<1>2. /\ r \in Requests /\ r.user \in Usernames /\ r.new \in Passwords
      /\ row[r.user] # NoRow /\ row[r.user] \in Rows
  BY <1>1, RequestFields DEF Purposeful, SeenStored, AccountsTypeOK
<1>3. CASE UNCHANGED <<row, changed, promised, overlapped>>
  BY <1>1, <1>3, AnswerKeeps
<1>4. CASE /\ row' = [row EXCEPT ![r.user] = new]
           /\ changed' = changed \union {r.user}
           /\ promised' = [promised EXCEPT ![r.user] = r.new]
           /\ overlapped' = Overlapping(w, r.user)
  <2>1. /\ new \in Rows /\ new # NoRow /\ new.email = row[r.user].email
        /\ new.password = Hash(r.new)
    BY <1>2, NewPassword
  <2>2. new.password.kind = "hash" /\ new.password.text = r.new
    BY <2>1, RowShapes
  <2> HIDE DEF new
  <2>3. /\ overlapped' \in {overlapped \union {r.user}, overlapped \ {r.user}}
        /\ \A v \in Handlers \ {w} :
              req[v].user = r.user /\ found[v].password.kind = "plain" => r.user \in overlapped'
    BY <1>4 DEF Overlapping
  <2> USE DEF Reply
  <2>4. AccountsTypeOK'
    BY <1>1, <1>2, <1>4, <2>1, <2>3 DEF AccountsTypeOK, Rows
  <2>5. Purposeful'
    BY <1>1 DEF AccountsTypeOK, Purposeful
  <2>6. OldPlaintext'
    BY <1>1, <1>4, <2>1, <2>2, RowShapes DEF AccountsTypeOK, OldPlaintext
  <2>7. WinnersStored'
    BY <1>1, <1>4, <2>1 DEF AccountsTypeOK, WinnersStored
  <2>8. SeenStored'
    BY <1>1, <1>4, <2>1 DEF AccountsTypeOK, SeenStored
  <2>9. WinnerOwnsAccount'
    BY <1>1, <1>4, <2>1 DEF AccountsTypeOK, WinnerOwnsAccount, WinnersStored
  <2>10. ReadAsPromised'
    <3> SUFFICES ASSUME NEW v \in Handlers, found'[v].password.kind = "plain"
                 PROVE  \/ found'[v].password.text = promised'[req'[v].user]
                        \/ req'[v].user \in overlapped'
      BY DEF ReadAsPromised
    <3>1. v # w
      BY <1>1, RowShapes DEF AccountsTypeOK
    <3>2. req'[v] = req[v] /\ found'[v] = found[v] /\ req[v].user \in Usernames
      BY <1>1, <3>1 DEF AccountsTypeOK, OldPlaintext
    <3>3. CASE req[v].user = r.user
      BY <2>3, <3>1, <3>2, <3>3
    <3>4. CASE req[v].user # r.user
      BY <1>2, <1>4, <2>3, <3>2, <3>4 DEF AccountsTypeOK, ReadAsPromised
    <3>5. QED
      BY <3>3, <3>4
  <2>11. PromiseLostOnlyToRehash'
    BY <1>1, <1>4, <2>2, <2>3 DEF AccountsTypeOK, PromiseLostOnlyToRehash
  <2>12. QED
    BY <2>4, <2>5, <2>6, <2>7, <2>8, <2>9, <2>10, <2>11
<1>5. QED
  BY <1>1, <1>3, <1>4 DEF UpdateAuthUserPassword

\* Every step of every request preserves the invariant.
LEMMA NextAccounts == AccountsInv /\ [AccountsNext]_accountsVars => AccountsInv'
<1> SUFFICES ASSUME AccountsInv, [AccountsNext]_accountsVars PROVE AccountsInv'
  OBVIOUS
<1>1. CASE UNCHANGED accountsVars
  BY <1>1 DEF accountsVars, AccountsInv, AccountsTypeOK, Purposeful, OldPlaintext, WinnersStored, SeenStored,
              WinnerOwnsAccount, ReadAsPromised, PromiseLostOnlyToRehash
<1>2. ASSUME NEW w \in Handlers, NEW r \in Requests, Register(w, r) PROVE AccountsInv'
  BY <1>2, EnteringKeeps DEF Register
<1>3. ASSUME NEW w \in Handlers, NEW r \in Requests, Login(w, r) PROVE AccountsInv'
  BY <1>3, LoginKeeps
<1>4. ASSUME NEW w \in Handlers, NEW r \in Requests, StartPasskey(w, r) PROVE AccountsInv'
  BY <1>4, EnteringKeeps DEF StartPasskey
<1>5. ASSUME NEW w \in Handlers, CreateAuthUser(w) PROVE AccountsInv'
  BY <1>5, CreateAuthUserKeeps
<1>6. ASSUME NEW w \in Handlers, Authenticate(w) PROVE AccountsInv'
  BY <1>6, AuthenticateKeeps
<1>7. ASSUME NEW w \in Handlers, Rehash(w) PROVE AccountsInv'
  BY <1>7, RehashKeeps
<1>8. ASSUME NEW w \in Handlers, UpdateAuthUserPassword(w) PROVE AccountsInv'
  BY <1>8, UpdateAuthUserPasswordKeeps
<1>9. ASSUME NEW w \in Handlers, InsertUser(w) PROVE AccountsInv'
  BY <1>9, InsertUserKeeps
<1>10. QED
  BY <1>1, <1>2, <1>3, <1>4, <1>5, <1>6, <1>7, <1>8, <1>9 DEF AccountsNext

-----------------------------------------------------------------------------
\* The inductive invariant holds of every state of authentication requests
\* (logon.go), whatever their number and however their statements interleave.
LEMMA AlwaysAccounts ==
    AccountsSpec => []AccountsInv
BY InitAccounts, NextAccounts, PTL DEF AccountsSpec

\* Of all who register a name at most one is told that he succeeded, and the
\* account is his until its password is changed: a password log-in, the rehash
\* and the account of a passkey registration never take it from him.
THEOREM RegistrationHasOneWinner ==
    AccountsSpec => []WinnerOwnsAccount
<1>1. AccountsInv => WinnerOwnsAccount
  BY DEF AccountsInv
<1>2. QED
  BY <1>1, AlwaysAccounts, PTL

\* The password last promised by an answer 200 of handleAuthRegister or
\* handleAuthChangePassword is the stored one, unless the account was a legacy
\* one and a log-in that had read its plaintext overlapped the change.
THEOREM PromisesAreKept ==
    AccountsSpec => []PromiseLostOnlyToRehash
<1>1. AccountsInv => PromiseLostOnlyToRehash
  BY DEF AccountsInv
<1>2. QED
  BY <1>1, AlwaysAccounts, PTL

\* Every row and every request in flight has its type.
THEOREM AccountsTyped ==
    AccountsSpec => []AccountsTypeOK
<1>1. AccountsInv => AccountsTypeOK
  BY DEF AccountsInv
<1>2. QED
  BY <1>1, AlwaysAccounts, PTL
=============================================================================
