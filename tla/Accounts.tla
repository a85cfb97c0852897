------------------------------ MODULE Accounts -------------------------------
(***************************************************************************)
(* The users table of acc.db as the handlers of logon.go use it            *)
(* concurrently: registration, password log-in with the rehash of legacy   *)
(* plaintext passwords, password change, and the account that starting a   *)
(* passkey registration creates.  A handler is the goroutine of one        *)
(* request; each action is one SQL statement.  Rows are never deleted and  *)
(* username is UNIQUE, so the table is a function of the username.         *)
(***************************************************************************)
EXTENDS Integers, FiniteSets

CONSTANTS
    Handlers,
    Usernames,
    Emails,
    Passwords,  \* those validateAuthRegisterRequest and validatePasswordStrength accept
    Legacy      \* users who start with a plaintext password

ASSUME AccountsAssumption == Legacy \subseteq Usernames

VARIABLES
    row,       \* users: username -> row, NoRow if there is none
    place, req, \* where each request is, and what it asks
    found,     \* the row a request has read
    winners,   \* history: registrations that were told they succeeded
    changed,   \* history: users whose password was changed since
    promised,  \* history: the password last promised to the user
    overlapped \* history: the last change overlapped a log-in that may rehash

accountsVars == <<row, place, req, found, winners, changed, promised, overlapped>>

NoPassword == [kind |-> "null", text |-> "none"]
Stored == {NoPassword} \union [kind : {"plain", "hash"}, text : Passwords]
NoEmail == "null"
NoRow == [email |-> "no row", password |-> NoPassword]
Rows == {NoRow} \union [email : Emails \union {NoEmail}, password : Stored]

Requests ==
    [kind : {"register"}, user : Usernames, email : Emails, password : Passwords, new : {"none"}]
    \union [kind : {"login"}, user : Usernames, email : {NoEmail}, password : Passwords, new : {"none"}]
    \union [kind : {"change"}, user : Usernames, email : {NoEmail}, password : Passwords, new : Passwords]
    \union [kind : {"passkey"}, user : Usernames, email : {NoEmail}, password : {"none"}, new : {"none"}]

NoRequest == [kind |-> "none", user |-> "none", email |-> NoEmail, password |-> "none", new |-> "none"]

AccountsTypeOK ==
    /\ row \in [Usernames -> Rows]
    /\ place \in [Handlers -> {"idle", "insert", "authenticate", "rehash", "update", "passkey"}]
    /\ req \in [Handlers -> Requests \union {NoRequest}]
    /\ found \in [Handlers -> Rows]
    /\ winners \in SUBSET Requests
    /\ changed \in SUBSET Usernames
    /\ promised \in [Usernames -> Passwords \union {"none"}]
    /\ overlapped \in SUBSET Usernames

AccountsInit ==
    /\ \E old \in Passwords, email \in Emails :
          /\ row = [u \in Usernames |->
                      IF u \in Legacy
                      THEN [email |-> email, password |-> [kind |-> "plain", text |-> old]]
                      ELSE NoRow]
          /\ promised = [u \in Usernames |-> IF u \in Legacy THEN old ELSE "none"]
    /\ place = [w \in Handlers |-> "idle"]
    /\ req = [w \in Handlers |-> NoRequest]
    /\ found = [w \in Handlers |-> NoRow]
    /\ winners = {}
    /\ changed = {}
    /\ overlapped = {}

\* hashPassword
Hash(p) == [kind |-> "hash", text |-> p]

Reply(w) ==
    /\ place' = [place EXCEPT ![w] = "idle"]
    /\ req' = [req EXCEPT ![w] = NoRequest]
    /\ found' = [found EXCEPT ![w] = NoRow]

Goto(w, step) ==
    /\ place' = [place EXCEPT ![w] = step]
    /\ UNCHANGED req

\* A request passes the checks that look at nothing but the request.
Arrive(w, r) ==
    /\ place[w] = "idle"
    /\ r.kind = "change" => r.new # r.password
    /\ place' = [place EXCEPT ![w] = CASE r.kind = "register" -> "insert"
                                    [] r.kind = "passkey" -> "passkey"
                                    [] OTHER -> "authenticate"]
    /\ req' = [req EXCEPT ![w] = r]

\* authUserExists
AuthUserExists(u, email) == row[u] # NoRow \/ \E other \in Usernames : row[other].email = email

\* handleAuthRegister up to the check; a taken name or address ends it.
Register(w, r) ==
    /\ r.kind = "register"
    /\ ~AuthUserExists(r.user, r.email)
    /\ Arrive(w, r)
    /\ UNCHANGED <<row, found, winners, changed, promised, overlapped>>

\* Mistaken variant: INSERT OR REPLACE.
CreateAuthUserReplacing(w) ==
    LET r == req[w] IN
    /\ place[w] = "insert"
    /\ row' = [row EXCEPT ![r.user] = [email |-> r.email, password |-> Hash(r.password)]]
    /\ winners' = winners \union {r}
    /\ promised' = [promised EXCEPT ![r.user] = r.password]
    /\ Reply(w)
    /\ UNCHANGED <<changed, overlapped>>

\* createAuthUser: UNIQUE(username) decides between two who both passed the
\* check; the loser, or one whose INSERT fails otherwise, is answered 500.
CreateAuthUser(w) ==
    LET r == req[w] IN
    /\ place[w] = "insert"
    /\ \/ /\ row[r.user] = NoRow
          /\ row' = [row EXCEPT ![r.user] = [email |-> r.email, password |-> Hash(r.password)]]
          /\ winners' = winners \union {r}
          /\ promised' = [promised EXCEPT ![r.user] = r.password]
       \/ UNCHANGED <<row, winners, promised>>
    /\ Reply(w)
    /\ UNCHANGED <<changed, overlapped>>

\* handleAuthLogin and handleAuthChangePassword, which both authenticate.
Login(w, r) ==
    /\ r.kind \in {"login", "change"}
    /\ Arrive(w, r)
    /\ found' = [found EXCEPT ![w] = row[r.user]]
    /\ UNCHANGED <<row, winners, changed, promised, overlapped>>

\* authenticateAuthUser, after its SELECT: no row and a NULL password are
\* errors, then bcrypt, then the plaintext comparison.
Authenticate(w) ==
    LET stored == found[w].password IN
    /\ place[w] = "authenticate"
    /\ \/ /\ stored.text = req[w].password /\ stored.kind = "plain"
          /\ Goto(w, "rehash") /\ UNCHANGED found
       \/ /\ stored.text = req[w].password /\ stored.kind = "hash" /\ req[w].kind = "change"
          /\ Goto(w, "update") /\ UNCHANGED found
       \/ /\ \/ stored.text # req[w].password
             \/ stored.kind = "hash" /\ req[w].kind = "login"
          /\ Reply(w)
    /\ UNCHANGED <<row, winners, changed, promised, overlapped>>

\* The UPDATE that replaces the plaintext password; its failure is logged.
Rehash(w) ==
    LET r == req[w] IN
    /\ place[w] = "rehash"
    /\ \/ row' = [row EXCEPT ![r.user].password = Hash(r.password)]
       \/ UNCHANGED row
    /\ \/ r.kind = "login" /\ Reply(w)
       \/ r.kind = "change" /\ Goto(w, "update") /\ UNCHANGED found
    /\ UNCHANGED <<winners, changed, promised, overlapped>>

\* History: whether another request has read a plaintext password of u and
\* may still rehash it.
Overlapping(w, u) ==
    IF \E v \in Handlers \ {w} : req[v].user = u /\ found[v].password.kind = "plain"
    THEN overlapped \union {u} ELSE overlapped \ {u}

\* Mistaken variant: a failed UPDATE is answered like a successful one.
UpdateAuthUserPasswordUnchecked(w) ==
    LET r == req[w] IN
    /\ place[w] = "update"
    /\ \/ row' = [row EXCEPT ![r.user].password = Hash(r.new)]
       \/ UNCHANGED row
    /\ changed' = changed \union {r.user}
    /\ promised' = [promised EXCEPT ![r.user] = r.new]
    /\ overlapped' = Overlapping(w, r.user)
    /\ Reply(w)
    /\ UNCHANGED winners

\* updateAuthUserPassword; a failing UPDATE is answered 500.
UpdateAuthUserPassword(w) ==
    LET r == req[w] IN
    /\ place[w] = "update"
    /\ \/ /\ row' = [row EXCEPT ![r.user].password = Hash(r.new)]
          /\ changed' = changed \union {r.user}
          /\ promised' = [promised EXCEPT ![r.user] = r.new]
          /\ overlapped' = Overlapping(w, r.user)
       \/ UNCHANGED <<row, changed, promised, overlapped>>
    /\ Reply(w)
    /\ UNCHANGED winners

\* HandleWebAuthnRegisterStart: an existing account is used as it is.
StartPasskey(w, r) ==
    /\ r.kind = "passkey"
    /\ row[r.user] = NoRow
    /\ Arrive(w, r)
    /\ UNCHANGED <<row, found, winners, changed, promised, overlapped>>

\* insertUser; it fails if the name has been taken since.
InsertUser(w) ==
    LET u == req[w].user IN
    /\ place[w] = "passkey"
    /\ \/ /\ row[u] = NoRow
          /\ row' = [row EXCEPT ![u] = [email |-> NoEmail, password |-> NoPassword]]
       \/ UNCHANGED row
    /\ Reply(w)
    /\ UNCHANGED <<winners, changed, promised, overlapped>>

AccountsNext ==
    \E w \in Handlers :
        \/ \E r \in Requests : Register(w, r) \/ Login(w, r) \/ StartPasskey(w, r)
        \/ CreateAuthUser(w)
        \/ Authenticate(w) \/ Rehash(w) \/ UpdateAuthUserPassword(w)
        \/ InsertUser(w)

AccountsSpec == AccountsInit /\ [][AccountsNext]_accountsVars

-----------------------------------------------------------------------------
(***************************************************************************)
(* Properties                                                              *)
(***************************************************************************)

\* Of all who register a name, at the same time or not, at most one is told
\* that he succeeded, and the account is his: his address, and his password
\* until the password is changed.
WinnerOwnsAccount ==
    \A r \in winners :
        /\ \A other \in winners : other.user = r.user => other = r
        /\ row[r.user].email = r.email
        /\ r.user \in changed \/ row[r.user].password = Hash(r.password)

\* The password a user has been promised, by a registration or a change that
\* was answered 200, is the one that is stored, unless a legacy account was
\* about to be rehashed when it was changed.
PromiseLostOnlyToRehash ==
    \A u \in Usernames :
        \/ row[u].password.text = promised[u]
        \/ u \in Legacy /\ u \in overlapped

=============================================================================
