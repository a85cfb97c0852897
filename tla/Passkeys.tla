------------------------------ MODULE Passkeys -------------------------------
(***************************************************************************)
(* Passkey ceremonies (logon.go, WebAuthn): a start handler leaves a       *)
(* challenge in memory, the authenticator signs it, and the finish handler *)
(* looks the user up, takes the challenge out, and concludes.  Accounts    *)
(* already exist; creating one is part of Accounts.                        *)
(*                                                                         *)
(* Users and devices are model values.  A response carries the challenge   *)
(* it answers; the browser may send it again, late or after a restart.     *)
(***************************************************************************)
EXTENDS Integers

CONSTANTS
    Users,
    Devices,      \* authenticators
    Workers,      \* finish requests that can be in flight
    None,
    TTL,          \* webAuthnSessionTTL, in ticks
    MaxIssued,    \* bound: challenges ever issued
    MaxRestarts   \* bound

ASSUME PasskeysAssumption ==
    /\ TTL \in Nat /\ MaxIssued \in Nat /\ MaxRestarts \in Nat
    /\ None \notin Devices

VARIABLES
    instance,    \* webAuthnInstance is set and the cleanup ticker runs
    store,       \* challengeStore and loginSessionStore
    credential,  \* users.credential_id: one column, one passkey
    responses,   \* signed by a device and sent, perhaps not yet received
    pc, handled, \* the finish requests and the response each handles
    seen,        \* the credential a log-in has read
    data,        \* the challenge it has taken out
    issued,      \* challenges issued so far, which numbers them
    restarts,
    age,         \* history: ticks since a challenge was issued
    taken,       \* history: responses whose challenge was taken out and matched
    enrolled,    \* history: the passkeys each user was told are registered
    opened       \* history: the passkeys that opened a session for each user

vars == <<instance, store, credential, responses, pc, handled, seen, data, issued,
          restarts, age, taken, enrolled, opened>>

Kinds == {"register", "login"}
Ids == 1 .. MaxIssued
NoEntry == [id |-> 0, allowed |-> None, left |-> 0]
Entries == {NoEntry} \union [id : Ids, allowed : Devices \union {None}, left : -1 .. TTL]
Responses == [kind : Kinds, user : Users, id : Ids, device : Devices]
NoResponse == [kind |-> "none", user |-> None, id |-> 0, device |-> None]

TypeOK ==
    /\ instance \in BOOLEAN
    /\ store \in [Kinds -> [Users -> Entries]]
    /\ credential \in [Users -> Devices \union {None}]
    /\ responses \subseteq Responses
    /\ pc \in [Workers -> {"idle", "pop", "conclude"}]
    /\ handled \in [Workers -> Responses \union {NoResponse}]
    /\ seen \in [Workers -> Devices \union {None}]
    /\ data \in [Workers -> Entries]
    /\ issued \in 0 .. MaxIssued
    /\ restarts \in 0 .. MaxRestarts
    /\ age \in [Ids -> 0 .. (TTL + 1)]
    /\ taken \in [Ids -> Nat]
    /\ enrolled \in [Users -> SUBSET Devices]
    /\ opened \in [Users -> SUBSET Devices]

Empty == [k \in Kinds |-> [u \in Users |-> NoEntry]]

Init ==
    /\ instance = FALSE
    /\ store = Empty
    /\ credential = [u \in Users |-> None]
    /\ responses = {}
    /\ pc = [w \in Workers |-> "idle"]
    /\ handled = [w \in Workers |-> NoResponse]
    /\ seen = [w \in Workers |-> None]
    /\ data = [w \in Workers |-> NoEntry]
    /\ issued = 0 /\ restarts = 0
    /\ age = [i \in Ids |-> 0]
    /\ taken = [i \in Ids |-> 0]
    /\ enrolled = [u \in Users |-> {}]
    /\ opened = [u \in Users |-> {}]

\* setChallengeSession and setLoginSession replace whatever is there.
Issue(kind, u, allowed) ==
    /\ issued < MaxIssued
    /\ issued' = issued + 1
    /\ store' = [store EXCEPT ![kind][u] = [id |-> issued + 1, allowed |-> allowed, left |-> TTL]]

\* HandleWebAuthnRegisterStart
RegisterStart(u) ==
    /\ instance' = TRUE
    /\ Issue("register", u, None)
    /\ UNCHANGED <<credential, responses, pc, handled, seen, data, restarts, age, taken,
                   enrolled, opened>>

\* HandleWebAuthnLoginStart: BeginLogin refuses a user without a passkey.  This
\* handler does not call initWebAuthn, and breaks off until another one has.
LoginStart(u) ==
    /\ instance
    /\ credential[u] # None
    /\ Issue("login", u, credential[u])
    /\ UNCHANGED <<instance, credential, responses, pc, handled, seen, data, restarts,
                   age, taken, enrolled, opened>>

\* A device signs the latest challenge its user has been given.
Sign(kind, u, d) ==
    LET r == [kind |-> kind, user |-> u, id |-> store[kind][u].id, device |-> d] IN
    /\ store[kind][u] # NoEntry
    /\ \A other \in responses : other.id # r.id
    /\ responses' = responses \union {r}
    /\ UNCHANGED <<instance, store, credential, pc, handled, seen, data, issued, restarts,
                   age, taken, enrolled, opened>>

\* The finish handlers up to the lookup of the user.
Finish(w, r) ==
    /\ pc[w] = "idle"
    /\ instance' = TRUE
    /\ pc' = [pc EXCEPT ![w] = "pop"]
    /\ handled' = [handled EXCEPT ![w] = r]
    /\ seen' = [seen EXCEPT ![w] = credential[r.user]]
    /\ UNCHANGED <<store, credential, responses, data, issued, restarts, age, taken,
                   enrolled, opened>>

Answer(w) ==
    /\ pc' = [pc EXCEPT ![w] = "idle"]
    /\ handled' = [handled EXCEPT ![w] = NoResponse]
    /\ seen' = [seen EXCEPT ![w] = None]
    /\ data' = [data EXCEPT ![w] = NoEntry]

\* Mistaken variant: the entry stays until the cleanup.
PopKeeping(w) ==
    LET r == handled[w]
        entry == store[r.kind][r.user]
    IN  /\ pc[w] = "pop"
        /\ \/ /\ entry # NoEntry /\ entry.left >= 0
              /\ pc' = [pc EXCEPT ![w] = "conclude"]
              /\ data' = [data EXCEPT ![w] = entry]
              /\ taken' = IF entry.id = r.id THEN [taken EXCEPT ![r.id] = @ + 1] ELSE taken
              /\ UNCHANGED <<handled, seen>>
           \/ /\ entry = NoEntry \/ entry.left < 0
              /\ Answer(w) /\ UNCHANGED taken
        /\ UNCHANGED <<instance, store, credential, responses, issued, restarts, age, enrolled, opened>>

\* Mistaken variant: expired entries are left to the cleanup.
PopWithoutExpiry(w) ==
    LET r == handled[w]
        entry == store[r.kind][r.user]
    IN  /\ pc[w] = "pop"
        /\ store' = [store EXCEPT ![r.kind][r.user] = NoEntry]
        /\ \/ /\ entry # NoEntry
              /\ pc' = [pc EXCEPT ![w] = "conclude"]
              /\ data' = [data EXCEPT ![w] = entry]
              /\ taken' = IF entry.id = r.id THEN [taken EXCEPT ![r.id] = @ + 1] ELSE taken
              /\ UNCHANGED <<handled, seen>>
           \/ /\ entry = NoEntry
              /\ Answer(w) /\ UNCHANGED taken
        /\ UNCHANGED <<instance, credential, responses, issued, restarts, age, enrolled, opened>>

\* popChallengeSession and popLoginSession: whatever is stored for the user is
\* taken out, also an expired challenge and one this response does not answer.
Pop(w) ==
    LET r == handled[w]
        entry == store[r.kind][r.user]
    IN  /\ pc[w] = "pop"
        /\ store' = [store EXCEPT ![r.kind][r.user] = NoEntry]
        /\ \/ /\ entry # NoEntry /\ entry.left >= 0
              /\ pc' = [pc EXCEPT ![w] = "conclude"]
              /\ data' = [data EXCEPT ![w] = entry]
              /\ taken' = IF entry.id = r.id THEN [taken EXCEPT ![r.id] = @ + 1] ELSE taken
              /\ UNCHANGED <<handled, seen>>
           \/ /\ entry = NoEntry \/ entry.left < 0
              /\ Answer(w) /\ UNCHANGED taken
        /\ UNCHANGED <<instance, credential, responses, issued, restarts, age, enrolled, opened>>

\* FinishRegistration and saveCredentialToDB, which overwrites the column and
\* may fail.
ConcludeRegistration(w) ==
    LET r == handled[w]
        accepted == data[w].id = r.id
    IN  /\ pc[w] = "conclude" /\ r.kind = "register"
        /\ \/ /\ accepted
              /\ credential' = [credential EXCEPT ![r.user] = r.device]
              /\ enrolled' = [enrolled EXCEPT ![r.user] = @ \union {r.device}]
           \/ UNCHANGED <<credential, enrolled>>
        /\ Answer(w)
        /\ UNCHANGED <<instance, store, responses, issued, restarts, age, taken, opened>>

\* Mistaken variant: the passkey the user has now is not looked at.
AcceptedByAllowed(w) ==
    /\ data[w].id = handled[w].id
    /\ data[w].allowed # None

\* FinishLogin, and issueSessionAndRestore if it succeeds: the challenge, the
\* passkeys it was issued for and the one the user has now must agree.
Accepted(w) ==
    /\ data[w].id = handled[w].id
    /\ data[w].allowed = seen[w]
    /\ handled[w].device = seen[w]

ConcludeLogin(w) ==
    LET r == handled[w] IN
    /\ pc[w] = "conclude" /\ r.kind = "login"
    /\ opened' = IF Accepted(w) THEN [opened EXCEPT ![r.user] = @ \union {r.device}] ELSE opened
    /\ Answer(w)
    /\ UNCHANGED <<instance, store, credential, responses, issued, restarts, age, taken,
                   enrolled>>

\* cleanupExpiredWebAuthnSessions, once initWebAuthn has started its ticker.
Cleanup ==
    /\ instance
    /\ store' = [k \in Kinds |-> [u \in Users |->
                    IF store[k][u].left < 0 THEN NoEntry ELSE store[k][u]]]
    /\ UNCHANGED <<instance, credential, responses, pc, handled, seen, data, issued,
                   restarts, age, taken, enrolled, opened>>

Restart ==
    /\ restarts < MaxRestarts
    /\ restarts' = restarts + 1
    /\ instance' = FALSE
    /\ store' = Empty
    /\ pc' = [w \in Workers |-> "idle"]
    /\ handled' = [w \in Workers |-> NoResponse]
    /\ seen' = [w \in Workers |-> None]
    /\ data' = [w \in Workers |-> NoEntry]
    /\ UNCHANGED <<credential, responses, issued, age, taken, enrolled, opened>>

Tick ==
    /\ store' = [k \in Kinds |-> [u \in Users |->
                    IF store[k][u] = NoEntry \/ store[k][u].left < 0 THEN store[k][u]
                    ELSE [store[k][u] EXCEPT !.left = @ - 1]]]
    /\ age' = [i \in Ids |-> IF i > issued \/ age[i] > TTL THEN age[i] ELSE age[i] + 1]
    /\ UNCHANGED <<instance, credential, responses, pc, handled, seen, data, issued,
                   restarts, taken, enrolled, opened>>

Next ==
    \/ \E u \in Users : RegisterStart(u) \/ LoginStart(u)
    \/ \E k \in Kinds, u \in Users, d \in Devices : Sign(k, u, d)
    \/ \E w \in Workers :
          \/ \E r \in responses : Finish(w, r)
          \/ Pop(w) \/ ConcludeRegistration(w) \/ ConcludeLogin(w)
    \/ Cleanup
    \/ Restart
    \/ Tick

Spec == Init /\ [][Next]_vars

-----------------------------------------------------------------------------
(***************************************************************************)
(* Properties                                                              *)
(***************************************************************************)

\* A challenge is spent by the first finish request that takes it out, however
\* many copies of its response are handled at the same time.
SpentOnce == \A i \in Ids : taken[i] <= 1

\* No challenge is accepted when it has expired, cleaned up or not.
NeverTakenLate ==
    [][\A i \in Ids : taken'[i] # taken[i] => age[i] <= TTL]_vars

\* A session is opened only with a passkey that was registered for that user,
\* whatever ceremonies of other users, old responses and replaced passkeys are
\* under way.
LoginByOwnPasskey == \A u \in Users : opened[u] \subseteq enrolled[u]
=============================================================================
