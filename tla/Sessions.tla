------------------------------ MODULE Sessions -------------------------------
(***************************************************************************)
(* Sessions and their restoring (logon.go, home/account.js), seen from one *)
(* browser.  The server keeps nothing but its signing secret: who is       *)
(* logged in is what two cookies (session, device) and two entries of      *)
(* localStorage (the user shown, the restore token) say, and every tab of  *)
(* the browser reads and writes them.                                      *)
(*                                                                         *)
(* A call is one log-in, registration or restore from the opening of its   *)
(* form to the last continuation of its promise.  The server's part is one *)
(* step, since it reads nothing that another request writes; cookies are   *)
(* in the browser when the headers are, and the script goes on later.      *)
(*                                                                         *)
(* Instants are counted in days from 0, cookies and tokens hold the last   *)
(* instant they are good for.                                              *)
(***************************************************************************)
EXTENDS Integers, Sequences, FiniteSets

CONSTANTS
    Users,
    Calls,       \* promises that can be pending in the browser's tabs
    None,
    SessionTTL,  \* SESSION_TTL_HOURS
    RestoreTTL,  \* RESTORE_TOKEN_TTL_DAYS
    DeviceTTL,   \* setDeviceIDCookie: 180 days
    MaxNow,      \* bound: instants
    MaxDevices,  \* bound: device ids ever made
    MaxCalls,    \* bound: forms opened and pages loaded
    MaxRestarts  \* bound

ASSUME SessionsAssumption ==
    /\ {SessionTTL, RestoreTTL, DeviceTTL, MaxNow, MaxDevices, MaxCalls, MaxRestarts} \subseteq Nat
    /\ None \notin Users

VARIABLES
    secret,   \* sessionSecret; SESSION_SECRET is not set, so each start makes one
    now,
    local,    \* the server takes the browser's address for a local one
    session, device,  \* cookies
    shown,    \* localStorage tabdock_user
    token,    \* localStorage tabdock_restore_token
    pc, call, \* the pending calls
    devices,  \* device ids made so far, which numbers them
    begun,    \* calls begun so far
    proved,   \* history: when the server last handed a session to each user, -1 for never
    crossed,  \* history: two calls were pending at a time
    adrift,   \* history: a device cookie has run out
    registered,  \* history: a registration was shown as a log-in
    left      \* history: logged out with nothing pending, and no form sent since

vars == <<secret, now, local, session, device, shown, token, pc, call, devices, begun,
          proved, crossed, adrift, registered, left>>

Kinds == {"login", "passkey", "register", "restore"}
Secrets == 0 .. MaxRestarts
Instants == 0 .. (MaxNow + DeviceTTL + RestoreTTL + SessionTTL)
NoSession == [user |-> None, until |-> 0, secret |-> 0]
NoDevice == [id |-> 0, until |-> 0]
NoToken == [user |-> None, device |-> 0, until |-> 0, secret |-> 0]
Sessions == [user : Users, until : Instants, secret : Secrets]
DeviceCookies == [id : 1 .. MaxDevices, until : Instants]
Tokens == [user : Users, device : 1 .. MaxDevices, until : Instants, secret : Secrets]

\* What an answer carries: the Set-Cookie headers and the body.
Answers == [ok : BOOLEAN, session : Sessions \union {NoSession},
            device : DeviceCookies \union {NoDevice}, token : Tokens \union {NoToken}]
NoAnswer == [ok |-> FALSE, session |-> NoSession, device |-> NoDevice, token |-> NoToken]
NoCall == [kind |-> "none", user |-> None, token |-> NoToken, device |-> 0, answer |-> NoAnswer]

TypeOK ==
    /\ secret \in Secrets /\ now \in 0 .. MaxNow /\ local \in BOOLEAN
    /\ session \in Sessions \union {NoSession}
    /\ device \in DeviceCookies \union {NoDevice}
    /\ shown \in Users \union {None}
    /\ token \in Tokens \union {NoToken}
    /\ pc \in [Calls -> {"idle", "form", "sent", "answered", "arrived", "info"}]
    /\ call \in [Calls -> {NoCall} \union
                    [kind : Kinds, user : Users \union {None}, token : Tokens \union {NoToken},
                     device : 0 .. MaxDevices, answer : Answers]]
    /\ devices \in 0 .. MaxDevices /\ begun \in 0 .. MaxCalls
    /\ proved \in [Users -> -1 .. MaxNow]
    /\ {crossed, adrift, registered, left} \subseteq BOOLEAN

Init ==
    /\ secret = 0 /\ now = 0 /\ local \in BOOLEAN
    /\ session = NoSession /\ device = NoDevice /\ shown = None /\ token = NoToken
    /\ pc = [c \in Calls |-> "idle"]
    /\ call = [c \in Calls |-> NoCall]
    /\ devices = 0 /\ begun = 0
    /\ proved = [u \in Users |-> -1]
    /\ crossed = FALSE /\ adrift = FALSE /\ registered = FALSE /\ left = FALSE

Quiet == \A c \in Calls : pc[c] = "idle"

-----------------------------------------------------------------------------
(***************************************************************************)
(* The server                                                              *)
(***************************************************************************)

\* Mistaken variant: the time a token is good for is not looked at.
VerifiedSignature(signed) == signed.user # None /\ signed.secret = secret

\* parseAndVerifySessionCookieValue and parseAndVerifyRestoreToken
Verified(signed) == signed.user # None /\ signed.secret = secret /\ now <= signed.until

\* getUsernameFromRequest for a request of the page: the session, and for a
\* local address also the name that the page's fetch wrapper adds.
ServedAs ==
    IF Verified(session) THEN session.user
    ELSE IF local THEN shown ELSE None

\* The device id the browser sends.
SentDevice == IF device # NoDevice /\ now <= device.until THEN device.id ELSE 0

\* Mistaken variant: the request's cookie is taken as it is, also if there is none.
EnsuredDeviceAsSent(c) == call[c].device

\* Mistaken variant: a device gets a new id with every session.
EnsuredDeviceAnew(c) == devices + 1

\* ensureDeviceIDCookie looks at the request, so the id that handleAuthRestore
\* has just put into the answer for a local browser without one is not found,
\* and the cookie set last is the new one.
EnsuredDevice(c) == IF call[c].device = 0 THEN devices + 1 ELSE call[c].device

\* Mistaken variant: the passkey handler answers without a session.
SessionForPassword(c, u) ==
    IF call[c].kind = "passkey" THEN NoSession
    ELSE [user |-> u, until |-> now + SessionTTL, secret |-> secret]

\* createSessionCookieValue
SessionFor(c, u) == [user |-> u, until |-> now + SessionTTL, secret |-> secret]

Respond(c, answer) ==
    /\ pc' = [pc EXCEPT ![c] = "answered"]
    /\ call' = [call EXCEPT ![c].answer = answer]

\* issueSessionAndRestore, and what its callers answer.  handleAuthRestore
\* looks the user up afterwards: that may fail with the cookies set.
Issue(c, u) ==
    LET d == EnsuredDevice(c)
        cookie == IF d = call[c].device THEN NoDevice ELSE [id |-> d, until |-> now + DeviceTTL]
        restore == [user |-> u, device |-> d, until |-> now + RestoreTTL, secret |-> secret]
    IN  /\ d <= MaxDevices
        /\ devices' = IF d > devices THEN d ELSE devices
        /\ \/ Respond(c, [ok |-> TRUE, session |-> SessionFor(c, u), device |-> cookie,
                          token |-> restore])
           \/ /\ call[c].kind = "restore"
              /\ Respond(c, [ok |-> FALSE, session |-> SessionFor(c, u), device |-> cookie,
                             token |-> NoToken])
        /\ proved' = [proved EXCEPT ![u] = now]

Refuse(c) ==
    /\ Respond(c, NoAnswer)
    /\ UNCHANGED <<devices, proved>>

UnchangedByServer == UNCHANGED <<secret, now, local, session, device, shown, token, begun,
                                 crossed, adrift, registered, left>>

\* handleAuthLogin and HandleWebAuthnLoginFinish: the user is the right one, or not.
ServeLogin(c) ==
    /\ pc[c] = "sent" /\ call[c].kind \in {"login", "passkey"}
    /\ Issue(c, call[c].user) \/ Refuse(c)
    /\ UnchangedByServer

\* handleAuthRegister opens no session.
ServeRegister(c) ==
    /\ pc[c] = "sent" /\ call[c].kind = "register"
    /\ \/ Respond(c, [NoAnswer EXCEPT !.ok = TRUE]) /\ UNCHANGED <<devices, proved>>
       \/ Refuse(c)
    /\ UnchangedByServer

Restorable(c) ==
    /\ Verified(call[c].token)
    /\ local \/ call[c].token.device = call[c].device

\* handleAuthRestore
ServeRestore(c) ==
    /\ pc[c] = "sent" /\ call[c].kind = "restore"
    /\ \/ Restorable(c) /\ Issue(c, call[c].token.user)
       \/ ~Restorable(c) /\ Refuse(c)
    /\ UnchangedByServer

\* Requests that are being handled are cut off.  What was signed before is
\* worth nothing now.
Restart ==
    /\ secret < MaxRestarts
    /\ secret' = secret + 1
    /\ pc' = [c \in Calls |-> IF pc[c] = "sent" THEN "idle" ELSE pc[c]]
    /\ call' = [c \in Calls |-> IF pc[c] = "sent" THEN NoCall ELSE call[c]]
    /\ proved' = [u \in Users |-> -1]
    /\ UNCHANGED <<now, local, session, device, shown, token, devices, begun, crossed,
                   adrift, registered, left>>

-----------------------------------------------------------------------------
(***************************************************************************)
(* The browser                                                             *)
(***************************************************************************)

Begin(c) ==
    /\ pc[c] = "idle"
    /\ begun < MaxCalls /\ begun' = begun + 1
    /\ crossed' = (crossed \/ ~Quiet)

\* setupLoginModal shows the forms if nobody is logged in when it is drawn.
OpenForm(c) ==
    /\ Begin(c)
    /\ shown = None
    /\ pc' = [pc EXCEPT ![c] = "form"]
    /\ UNCHANGED <<secret, now, local, session, device, shown, token, call, devices,
                   proved, adrift, registered, left>>

\* handleNormalLogin, handlePasskeyLogin (startLogin's last fetch), handleRegister
Submit(c, kind, u) ==
    /\ pc[c] = "form"
    /\ pc' = [pc EXCEPT ![c] = "sent"]
    /\ call' = [call EXCEPT ![c] = [NoCall EXCEPT !.kind = kind, !.user = u, !.device = SentDevice]]
    /\ left' = FALSE
    /\ UNCHANGED <<secret, now, local, session, device, shown, token, devices, begun,
                   proved, crossed, adrift, registered>>

\* A page has been loaded: attemptSessionRestore.
LoadPage(c) ==
    /\ Begin(c)
    /\ shown = None /\ token # NoToken
    /\ pc' = [pc EXCEPT ![c] = "sent"]
    /\ call' = [call EXCEPT ![c] =
                   [NoCall EXCEPT !.kind = "restore", !.token = token, !.device = SentDevice]]
    /\ UNCHANGED <<secret, now, local, session, device, shown, token, devices, proved,
                   adrift, registered, left>>

\* The headers are here, and with them the cookies.
Arrive(c) ==
    LET answer == call[c].answer IN
    /\ pc[c] = "answered"
    /\ pc' = [pc EXCEPT ![c] = "arrived"]
    /\ session' = IF answer.session = NoSession THEN session ELSE answer.session
    /\ device' = IF answer.device = NoDevice THEN device ELSE answer.device
    /\ UNCHANGED <<secret, now, local, shown, token, call, devices, begun, proved,
                   crossed, adrift, registered, left>>

End(c) ==
    /\ pc' = [pc EXCEPT ![c] = "idle"]
    /\ call' = [call EXCEPT ![c] = NoCall]

\* The body of a log-in: handleNormalLogin saves the token, the handler that
\* handlePasskeyLogin installs does not; both ask for the user's details next.
ReadLogin(c) ==
    LET answer == call[c].answer IN
    /\ pc[c] = "arrived" /\ call[c].kind \in {"login", "passkey"}
    /\ \/ /\ answer.ok
          /\ token' = IF call[c].kind = "login" THEN answer.token ELSE token
          /\ pc' = [pc EXCEPT ![c] = "info"]
          /\ UNCHANGED call
       \/ ~answer.ok /\ End(c) /\ UNCHANGED token
    /\ UNCHANGED <<secret, now, local, session, device, shown, devices, begun, proved,
                   crossed, adrift, registered, left>>

\* /api/auth/user-info has answered, or (for a passkey: either way) failed.
ReadInfo(c) ==
    /\ pc[c] = "info"
    /\ \/ shown' = call[c].user
       \/ call[c].kind = "login" /\ UNCHANGED shown
    /\ End(c)
    /\ UNCHANGED <<secret, now, local, session, device, token, devices, begun, proved,
                   crossed, adrift, registered, left>>

ReadRegister(c) ==
    /\ pc[c] = "arrived" /\ call[c].kind = "register"
    /\ \/ call[c].answer.ok /\ shown' = call[c].user /\ registered' = TRUE
       \/ ~call[c].answer.ok /\ UNCHANGED <<shown, registered>>
    /\ End(c)
    /\ UNCHANGED <<secret, now, local, session, device, token, devices, begun, proved,
                   crossed, adrift, left>>

\* Refusals of handleAuthRestore are plain text, so reading them as JSON
\* fails before clearRestoreToken is reached.
ReadRestore(c) ==
    LET answer == call[c].answer IN
    /\ pc[c] = "arrived" /\ call[c].kind = "restore"
    /\ \/ answer.ok /\ token' = answer.token /\ shown' = answer.token.user
       \/ ~answer.ok /\ UNCHANGED <<token, shown>>
    /\ End(c)
    /\ UNCHANGED <<secret, now, local, session, device, devices, begun, proved, crossed,
                   adrift, registered, left>>

\* The form or the tab is closed, or the connection breaks.
GiveUp(c) ==
    /\ pc[c] # "idle"
    /\ End(c)
    /\ UNCHANGED <<secret, now, local, session, device, shown, token, devices, begun,
                   proved, crossed, adrift, registered, left>>

\* Mistaken variant: the token stays.
LogoutKeepingToken ==
    /\ shown # None
    /\ shown' = None
    /\ left' = Quiet
    /\ UNCHANGED <<secret, now, local, session, device, token, pc, call, devices, begun,
                   proved, crossed, adrift, registered>>

\* logout: no request is made, and the session cookie stays.
Logout ==
    /\ shown # None
    /\ shown' = None
    /\ token' = NoToken
    /\ left' = Quiet
    /\ UNCHANGED <<secret, now, local, session, device, pc, call, devices, begun, proved,
                   crossed, adrift, registered>>

Tick ==
    /\ now < MaxNow
    /\ now' = now + 1
    /\ adrift' = (adrift \/ (device # NoDevice /\ now' > device.until))
    /\ UNCHANGED <<secret, local, session, device, shown, token, pc, call, devices, begun,
                   proved, crossed, registered, left>>

Next ==
    \/ \E c \in Calls :
          \/ OpenForm(c)
          \/ \E u \in Users, kind \in Kinds \ {"restore"} : Submit(c, kind, u)
          \/ LoadPage(c)
          \/ ServeLogin(c) \/ ServeRegister(c) \/ ServeRestore(c)
          \/ Arrive(c)
          \/ ReadLogin(c) \/ ReadInfo(c) \/ ReadRegister(c) \/ ReadRestore(c)
          \/ GiveUp(c)
    \/ Restart
    \/ Logout
    \/ Tick

Spec == Init /\ [][Next]_vars

-----------------------------------------------------------------------------
(***************************************************************************)
(* Properties                                                              *)
(***************************************************************************)

\* A restore continues a session the server handed to that user no longer than
\* the token's lifetime ago, under the same secret: absence and restarts end it.
AbsenceEndsSession ==
    [][\A c \in Calls :
          call[c].kind = "restore" /\ call'[c].answer.session # call[c].answer.session
             /\ pc'[c] = "answered" =>
          LET u == call[c].token.user IN
          proved[u] >= 0 /\ now - proved[u] <= RestoreTTL]_vars

\* As long as calls do not cross and the device cookie lives, a restore token
\* that is still good names the device the browser will send with it, whichever
\* log-ins, lost answers and abandoned pages there have been.
TokenFitsDevice ==
    ~crossed /\ ~adrift /\ Quiet /\ Verified(token) => token.device = device.id

\* The user the page shows is the one the server serves, or the server serves
\* nobody: whatever calls were lost, as long as they do not cross and nobody
\* has just registered.
ShownAloneIsServed ==
    ~crossed /\ ~registered /\ Quiet /\ shown # None => ServedAs \in {shown, None}

\* A user who has logged out with nothing pending stays so until a form is sent.
LogoutStays == left => shown = None
=============================================================================
