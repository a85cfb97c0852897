---------------------------- MODULE SessionsProofs -----------------------------
(***************************************************************************)
(* What holds of sessions and their restoring for any users, any number of *)
(* calls pending in the browser's tabs, any lifetimes and any bounds.      *)
(***************************************************************************)
EXTENDS Sessions, TLAPS

\* A call carries what its kind and its place call for.
OfCall(c) ==
    /\ pc[c] \in {"idle", "form"} => call[c] = NoCall
    /\ pc[c] \notin {"idle", "form"} => call[c].kind \in Kinds
    /\ call[c].kind \in {"login", "passkey", "register"} => call[c].user \in Users
    /\ call[c].kind = "restore" => call[c].token \in Tokens
    /\ pc[c] = "info" => call[c].kind \in {"login", "passkey"} /\ call[c].answer.ok
    /\ pc[c] = "sent" => call[c].answer = NoAnswer

Filled == [kind : Kinds, user : Users \union {None}, token : Tokens \union {NoToken},
           device : 0 .. MaxDevices, answer : Answers]
Places == {"idle", "form", "sent", "answered", "arrived", "info"}

\* TypeOK, of all but the calls.
Kept ==
    /\ secret \in Secrets /\ now \in 0 .. MaxNow /\ local \in BOOLEAN
    /\ session \in Sessions \union {NoSession}
    /\ device \in DeviceCookies \union {NoDevice}
    /\ shown \in Users \union {None}
    /\ token \in Tokens \union {NoToken}
    /\ devices \in 0 .. MaxDevices /\ begun \in 0 .. MaxCalls
    /\ proved \in [Users -> -1 .. MaxNow]
    /\ {crossed, adrift, registered, left} \subseteq BOOLEAN

Typed == TypeOK /\ \A c \in Calls : OfCall(c)

\* A token of this secret was made when its user last got a session, or before.
Vouched(t) ==
    /\ t.secret <= secret
    /\ t.user # None /\ t.secret = secret =>
          proved[t.user] >= 0 /\ t.until <= proved[t.user] + RestoreTTL

AllVouched ==
    /\ \A u \in Users : proved[u] <= now
    /\ Vouched(token)
    /\ \A c \in Calls : Vouched(call[c].token) /\ Vouched(call[c].answer.token)

\* Who has left has neither token nor call that could bring a user back.
Left == left => shown = None /\ token = NoToken /\ \A c \in Calls : pc[c] \in {"idle", "form"}

\* Calls that never crossed are pending one at a time.
Lone == \A c \in Calls, d \in Calls : pc[c] # "idle" /\ pc[d] # "idle" => c = d

\* A call that succeeded, and the user it will show.
Answered(c) == pc[c] \in {"answered", "arrived", "info"} /\ call[c].answer.ok
Whose(c) == IF call[c].kind = "restore" THEN call[c].answer.token.user ELSE call[c].user

\* What is required of a call for the user shown to be the one served.
Honest(c) ==
    Answered(c) /\ call[c].kind # "register" =>
          /\ call[c].answer.session # NoSession
          /\ call[c].answer.session.user = Whose(c)
          /\ pc[c] \in {"arrived", "info"} => session.user = Whose(c)

\* Somebody is shown only when nothing is pending, and the cookie is theirs.
ShownInv ==
    /\ ~registered /\ shown # None => Quiet /\ session.user = shown
    /\ \A c \in Calls : Honest(c)

\* A token that is good still comes with the living cookie of its device.
Alive(t) == t.user # None /\ now <= t.until
Fits(t) == Alive(t) => device # NoDevice /\ now <= device.until /\ t.device = device.id

\* The same of what a pending call has sent and been answered.
Fitting(c) ==
    LET answer == call[c].answer IN
    /\ pc[c] \in {"sent", "answered"} => call[c].device = SentDevice
    /\ pc[c] = "answered" =>
          /\ answer.device = NoDevice /\ answer.token.user # None =>
                call[c].device # 0 /\ answer.token.device = call[c].device
          /\ answer.device # NoDevice =>
                /\ call[c].device = 0
                /\ answer.token.user # None =>
                      /\ answer.token.device = answer.device.id
                      /\ answer.token.until <= answer.device.until
    /\ pc[c] = "arrived" => Fits(answer.token)

FitsInv == Fits(token) /\ \A c \in Calls : Fitting(c)

-----------------------------------------------------------------------------

LEMMA TypeParts ==
    /\ TypeOK <=> Kept /\ pc \in [Calls -> Places] /\ call \in [Calls -> {NoCall} \union Filled]
    /\ TypeOK' <=> Kept' /\ pc' \in [Calls -> Places] /\ call' \in [Calls -> {NoCall} \union Filled]
  BY DEF TypeOK, Kept, Places, Filled

LEMMA NoRecords ==
    /\ NoSession.user = None /\ NoDevice.id = 0
    /\ NoToken.user = None /\ NoToken.secret = 0
    /\ NoToken \notin Tokens /\ NoDevice \notin DeviceCookies /\ NoSession \notin Sessions
    /\ NoAnswer \in Answers /\ NoAnswer.token = NoToken /\ NoAnswer.ok = FALSE
    /\ NoAnswer.session = NoSession /\ NoAnswer.device = NoDevice
    /\ NoCall.token = NoToken /\ NoCall.answer = NoAnswer /\ NoCall.kind = "none"
<1>1. NoSession.user = None /\ NoDevice.id = 0 /\ NoToken.user = None /\ NoToken.secret = 0
  BY DEF NoSession, NoDevice, NoToken
<1>2. NoToken \notin Tokens
  <2>1. \A t \in Tokens : t.user \in Users
    BY DEF Tokens
  <2> QED
    BY <1>1, <2>1, SessionsAssumption
<1>3. NoDevice \notin DeviceCookies
  BY <1>1, SessionsAssumption DEF DeviceCookies
<1>4. NoSession \notin Sessions
  BY <1>1, SessionsAssumption DEF Sessions
<1>5. /\ NoAnswer \in Answers /\ NoAnswer.token = NoToken /\ NoAnswer.ok = FALSE
      /\ NoAnswer.session = NoSession /\ NoAnswer.device = NoDevice
  BY DEF NoAnswer, Answers
<1>6. NoCall.token = NoToken /\ NoCall.answer = NoAnswer /\ NoCall.kind = "none"
  BY DEF NoCall
<1> QED
  BY <1>1, <1>2, <1>3, <1>4, <1>5, <1>6

LEMMA AnswerType ==
    ASSUME Typed, NEW c \in Calls, pc[c] \notin {"idle", "form"}
    PROVE  /\ call[c] \in Filled
           /\ call[c].answer \in Answers
           /\ call[c].user \in Users \union {None}
           /\ call[c].token \in Tokens \union {NoToken}
           /\ call[c].device \in 0 .. MaxDevices
           /\ call[c].answer.token \in Tokens \union {NoToken}
           /\ call[c].answer.token.user \in Users \union {None}
           /\ call[c].answer.session \in Sessions \union {NoSession}
           /\ call[c].answer.device \in DeviceCookies \union {NoDevice}
<1>1. call[c] \in Filled
  BY TypeParts, NoRecords DEF Typed, OfCall, Kinds
<1>2. call[c].answer \in Answers
  BY <1>1 DEF Filled
<1>3. call[c].answer.token \in Tokens \union {NoToken}
  BY <1>2 DEF Answers
<1>4. call[c].answer.token.user \in Users \union {None}
  BY <1>3, NoRecords DEF Tokens
<1> QED
  BY <1>1, <1>2, <1>3, <1>4 DEF Filled, Answers

LEMMA IssueType ==
    ASSUME Typed, NEW c \in Calls, NEW u \in Users, pc[c] = "sent", Issue(c, u)
    PROVE  /\ devices' \in 0 .. MaxDevices
           /\ proved' \in [Users -> -1 .. MaxNow]
           /\ \E answer \in Answers : Respond(c, answer)
<1> DEFINE d == EnsuredDevice(c)
           cookie == IF d = call[c].device THEN NoDevice ELSE [id |-> d, until |-> now + DeviceTTL]
           restore == [user |-> u, device |-> d, until |-> now + RestoreTTL, secret |-> secret]
<1>1. call[c].device \in 0 .. MaxDevices /\ devices \in 0 .. MaxDevices /\ now \in 0 .. MaxNow
  BY AnswerType, TypeParts DEF Typed, Kept
<1>2. d \in 1 .. MaxDevices
  BY <1>1, SessionsAssumption DEF Issue, EnsuredDevice
<1>3. SessionFor(c, u) \in Sessions
  BY <1>1, SessionsAssumption DEF Typed, TypeOK, SessionFor, Sessions, Instants
<1>4. cookie \in DeviceCookies \union {NoDevice}
  BY <1>1, <1>2, SessionsAssumption DEF DeviceCookies, Instants
<1>5. restore \in Tokens
  BY <1>1, <1>2, SessionsAssumption DEF Typed, TypeOK, Tokens, Instants
<1>6. devices' \in 0 .. MaxDevices
  BY <1>1, <1>2 DEF Issue
<1>7. proved' \in [Users -> -1 .. MaxNow]
  BY <1>1 DEF Issue, Typed, TypeOK
<1>8. \E answer \in Answers : Respond(c, answer)
  <2>1. [ok |-> TRUE, session |-> SessionFor(c, u), device |-> cookie, token |-> restore] \in Answers
    BY <1>3, <1>4, <1>5 DEF Answers
  <2>2. [ok |-> FALSE, session |-> SessionFor(c, u), device |-> cookie, token |-> NoToken] \in Answers
    BY <1>3, <1>4 DEF Answers
  <2> HIDE DEF cookie
  <2> QED
    BY <2>1, <2>2 DEF Issue, cookie
<1> QED
  BY <1>6, <1>7, <1>8

LEMMA RespondType ==
    ASSUME Typed, NEW c \in Calls, pc[c] = "sent", NEW answer \in Answers, Respond(c, answer),
           UnchangedByServer, devices' \in 0 .. MaxDevices, proved' \in [Users -> -1 .. MaxNow]
    PROVE  Typed'
<1>1. call[c] \in Filled
  BY AnswerType
<1>2. call' = [call EXCEPT ![c] = [call[c] EXCEPT !.answer = answer]]
  BY DEF Respond
<1>3. [call[c] EXCEPT !.answer = answer] \in Filled
  BY <1>1 DEF Filled
<1>4. /\ [call[c] EXCEPT !.answer = answer].kind = call[c].kind
      /\ [call[c] EXCEPT !.answer = answer].user = call[c].user
      /\ [call[c] EXCEPT !.answer = answer].token = call[c].token
  BY <1>1 DEF Filled
<1> DEFINE new == [call[c] EXCEPT !.answer = answer]
<1>5. call' \in [Calls -> {NoCall} \union Filled] /\ pc' \in [Calls -> Places]
  <2>1. call \in [Calls -> {NoCall} \union Filled] /\ pc \in [Calls -> Places]
    BY TypeParts DEF Typed
  <2>2. pc' = [pc EXCEPT ![c] = "answered"]
    BY DEF Respond
  <2> HIDE DEF new
  <2> QED
    BY <1>2, <1>3, <2>1, <2>2 DEF new, Places
<1>6. Kept'
  BY TypeParts DEF UnchangedByServer, Typed, Kept
<1>7. ASSUME NEW d \in Calls PROVE OfCall(d)'
  <2>1. CASE d = c
    <3>1. pc'[c] = "answered" /\ call'[c] = new
      BY <1>2 DEF Respond, Typed, TypeOK
    <3>2. call[c].kind \in Kinds
      BY <1>1 DEF Filled
    <3> HIDE DEF new
    <3> QED
      BY <2>1, <3>1, <3>2, <1>4 DEF new, Typed, OfCall
  <2>2. CASE d # c
    <3>1. pc'[d] = pc[d] /\ call'[d] = call[d]
      BY <1>2, <2>2 DEF Respond, Typed, TypeOK
    <3> QED
      BY <3>1 DEF Typed, OfCall
  <2> QED
    BY <2>1, <2>2
<1> QED
  BY <1>5, <1>6, <1>7, TypeParts DEF Typed

\* A step of the browser puts one call into a new place.
LEMMA MoveType ==
    ASSUME Typed, Kept', NEW c \in Calls, NEW place, NEW new,
           pc' = [pc EXCEPT ![c] = place], call' = [call EXCEPT ![c] = new],
           \/ new = NoCall /\ place \in {"idle", "form"}
           \/ new = call[c] /\ pc[c] \in {"answered", "arrived"} /\ place = "arrived"
           \/ /\ new = call[c] /\ place = "info"
              /\ call[c].kind \in {"login", "passkey"} /\ call[c].answer.ok
           \/ /\ place = "sent" /\ new \in Filled /\ new.answer = NoAnswer
              /\ new.kind # "restore" => new.user \in Users
              /\ new.kind = "restore" => new.token \in Tokens
    PROVE  Typed'
<1>0. pc \in [Calls -> Places] /\ call \in [Calls -> {NoCall} \union Filled]
  BY TypeParts DEF Typed
<1>1. place \in Places /\ new \in {NoCall} \union Filled
  BY <1>0 DEF Places
<1>2. pc' \in [Calls -> Places] /\ call' \in [Calls -> {NoCall} \union Filled]
  BY <1>0, <1>1
<1>3. ASSUME NEW d \in Calls PROVE OfCall(d)'
  <2>1. CASE d = c
    <3>1. pc'[c] = place /\ call'[c] = new
      BY <1>0
    <3>2. OfCall(c)
      BY DEF Typed
    <3>3. CASE new = NoCall /\ place \in {"idle", "form"}
      BY <2>1, <3>1, <3>3, NoRecords DEF OfCall
    <3>4. CASE new = call[c] /\ pc[c] \in {"answered", "arrived"} /\ place = "arrived"
      BY <2>1, <3>1, <3>2, <3>4, NoRecords DEF OfCall
    <3>5. CASE /\ new = call[c] /\ place = "info"
               /\ call[c].kind \in {"login", "passkey"} /\ call[c].answer.ok
      BY <2>1, <3>1, <3>2, <3>5, NoRecords DEF OfCall
    <3>6. CASE /\ place = "sent" /\ new \in Filled /\ new.answer = NoAnswer
               /\ new.kind # "restore" => new.user \in Users
               /\ new.kind = "restore" => new.token \in Tokens
      <4>1. new.kind \in Kinds
        BY <3>6 DEF Filled
      <4> QED
        BY <2>1, <3>1, <3>6, <4>1 DEF OfCall, Kinds
    <3> QED
      BY <3>3, <3>4, <3>5, <3>6
  <2>2. CASE d # c
    BY <1>0, <2>2 DEF Typed, OfCall
  <2> QED
    BY <2>1, <2>2
<1> QED
  BY <1>2, <1>3, TypeParts DEF Typed

LEMMA InitTyped == ASSUME Init PROVE Typed
<1>1. Kept
  <2>1. {MaxNow, MaxDevices, MaxCalls, MaxRestarts} \subseteq Nat
    BY SessionsAssumption
  <2>2. proved \in [Users -> -1 .. MaxNow]
    BY <2>1 DEF Init
  <2>3. /\ secret \in Secrets /\ now \in 0 .. MaxNow
        /\ devices \in 0 .. MaxDevices /\ begun \in 0 .. MaxCalls
    BY <2>1 DEF Init, Secrets
  <2>4. {crossed, adrift, registered, left} \subseteq BOOLEAN
    BY DEF Init
  <2> QED
    BY <2>2, <2>3, <2>4 DEF Init, Kept
<1>2. pc \in [Calls -> Places] /\ call \in [Calls -> {NoCall} \union Filled]
  BY DEF Init, Places
<1>3. \A c \in Calls : OfCall(c)
  BY NoRecords DEF Init, OfCall
<1> QED
  BY <1>1, <1>2, <1>3, TypeParts DEF Typed

LEMMA ServeType ==
    ASSUME Typed, NEW c \in Calls, ServeLogin(c) \/ ServeRegister(c) \/ ServeRestore(c)
    PROVE  Typed'
<1>1. devices \in 0 .. MaxDevices /\ proved \in [Users -> -1 .. MaxNow]
  BY DEF Typed, TypeOK
<1>2. ASSUME NEW u \in Users, pc[c] = "sent", Issue(c, u), UnchangedByServer PROVE Typed'
  <2>1. PICK answer \in Answers : Respond(c, answer)
    BY <1>2, IssueType
  <2> QED
    BY <1>2, <2>1, IssueType, RespondType
<1>3. ASSUME pc[c] = "sent", Refuse(c), UnchangedByServer PROVE Typed'
  BY <1>1, <1>3, RespondType, NoRecords DEF Refuse
<1>4. CASE ServeLogin(c)
  <2>1. call[c].user \in Users
    BY <1>4 DEF ServeLogin, Typed, OfCall
  <2> QED
    BY <1>2, <1>3, <1>4, <2>1 DEF ServeLogin
<1>5. CASE ServeRegister(c)
  <2>1. [NoAnswer EXCEPT !.ok = TRUE] \in Answers
    BY NoRecords DEF Answers
  <2> QED
    BY <1>1, <1>3, <1>5, <2>1, RespondType DEF ServeRegister
<1>6. CASE ServeRestore(c)
  <2>1. call[c].token.user \in Users
    BY <1>6 DEF ServeRestore, Typed, OfCall, Tokens
  <2> QED
    BY <1>2, <1>3, <1>6, <2>1 DEF ServeRestore
<1> QED
  BY <1>4, <1>5, <1>6

LEMMA SentDeviceType ==
    ASSUME Typed PROVE SentDevice \in 0 .. MaxDevices
<1>1. CASE device \in DeviceCookies
  BY <1>1, SessionsAssumption DEF SentDevice, DeviceCookies
<1>2. CASE device = NoDevice
  BY <1>2, SessionsAssumption DEF SentDevice
<1> QED
  BY <1>1, <1>2 DEF Typed, TypeOK

LEMMA StepTyped == ASSUME Typed, [Next]_vars PROVE Typed'
<1>0. Kept /\ pc \in [Calls -> Places] /\ call \in [Calls -> {NoCall} \union Filled]
  BY TypeParts DEF Typed
<1>1. ASSUME NEW c \in Calls, OpenForm(c) PROVE Typed'
  <2>1. call[c] = NoCall /\ call' = [call EXCEPT ![c] = NoCall]
    BY <1>0, <1>1 DEF OpenForm, Begin, Typed, OfCall
  <2>2. pc' = [pc EXCEPT ![c] = "form"] /\ Kept'
    BY <1>0, <1>1, SessionsAssumption DEF OpenForm, Begin, Kept, Quiet
  <2> QED
    BY <2>1, <2>2, MoveType
<1>2. ASSUME NEW c \in Calls, LoadPage(c) PROVE Typed'
  <2> DEFINE new == [NoCall EXCEPT !.kind = "restore", !.token = token, !.device = SentDevice]
  <2>1. token \in Tokens
    BY <1>0, <1>2 DEF LoadPage, Kept
  <2>2. new.answer = NoAnswer /\ new.kind = "restore" /\ new.token = token
    BY DEF NoCall
  <2>3. new \in Filled
    BY <2>1, SentDeviceType, NoRecords DEF NoCall, Kinds, Filled
  <2>4. pc' = [pc EXCEPT ![c] = "sent"] /\ call' = [call EXCEPT ![c] = new]
    BY <1>2 DEF LoadPage
  <2>5. Kept'
    BY <1>0, <1>2, SessionsAssumption DEF LoadPage, Begin, Kept, Quiet
  <2> HIDE DEF new
  <2> QED
    BY <2>1, <2>2, <2>3, <2>4, <2>5, MoveType
<1>3. ASSUME NEW c \in Calls, NEW u \in Users, NEW kind \in Kinds \ {"restore"}, Submit(c, kind, u)
      PROVE  Typed'
  <2> DEFINE new == [NoCall EXCEPT !.kind = kind, !.user = u, !.device = SentDevice]
  <2>1. new.answer = NoAnswer /\ new.kind # "restore" /\ new.user \in Users
    BY DEF NoCall
  <2>2. new \in Filled
    BY SentDeviceType, NoRecords DEF NoCall, Kinds, Filled
  <2>3. pc' = [pc EXCEPT ![c] = "sent"] /\ call' = [call EXCEPT ![c] = new]
    BY <1>3 DEF Submit
  <2>4. Kept'
    BY <1>0, <1>3 DEF Submit, Kept
  <2> HIDE DEF new
  <2> QED
    BY <2>1, <2>2, <2>3, <2>4, MoveType
<1>4. ASSUME NEW c \in Calls, Arrive(c) PROVE Typed'
  <2>1. pc' = [pc EXCEPT ![c] = "arrived"] /\ call' = [call EXCEPT ![c] = call[c]]
    BY <1>0, <1>4 DEF Arrive
  <2>2. /\ session' \in Sessions \union {NoSession}
        /\ device' \in DeviceCookies \union {NoDevice}
    BY <1>0, <1>4, AnswerType DEF Arrive, Kept
  <2>3. Kept'
    BY <1>0, <1>4, <2>2 DEF Arrive, Kept
  <2> QED
    BY <1>4, <2>1, <2>3, MoveType DEF Arrive
<1>5. ASSUME NEW c \in Calls, GiveUp(c) PROVE Typed'
  <2>1. Kept'
    BY <1>0, <1>5 DEF GiveUp, Kept
  <2> QED
    BY <1>5, <2>1, MoveType DEF GiveUp, End
<1>6. ASSUME NEW c \in Calls, ReadLogin(c) PROVE Typed'
  <2>1. token' \in Tokens \union {NoToken}
    BY <1>0, <1>6, AnswerType DEF ReadLogin, Kept
  <2>2. Kept'
    BY <1>0, <1>6, <2>1 DEF ReadLogin, Kept
  <2>3. CASE End(c)
    BY <2>2, <2>3, MoveType DEF End
  <2>4. CASE call[c].answer.ok /\ pc' = [pc EXCEPT ![c] = "info"] /\ UNCHANGED call
    <3>1. call' = [call EXCEPT ![c] = call[c]]
      BY <1>0, <2>4
    <3> QED
      BY <1>6, <2>2, <2>4, <3>1, MoveType DEF ReadLogin
  <2> QED
    BY <1>6, <2>3, <2>4 DEF ReadLogin
<1>7. ASSUME NEW c \in Calls, ReadInfo(c) \/ ReadRegister(c) \/ ReadRestore(c) PROVE Typed'
  <2>1. pc' = [pc EXCEPT ![c] = "idle"] /\ call' = [call EXCEPT ![c] = NoCall]
    BY <1>7 DEF ReadInfo, ReadRegister, ReadRestore, End
  <2>2. shown' \in Users \union {None} /\ token' \in Tokens \union {NoToken}
    BY <1>0, <1>7, AnswerType DEF ReadInfo, ReadRegister, ReadRestore, Kept
  <2>3. registered' \in BOOLEAN /\ UNCHANGED <<secret, now, local, session, device, devices,
                begun, proved, crossed, adrift, left>>
    BY <1>0, <1>7 DEF ReadInfo, ReadRegister, ReadRestore, Kept
  <2>4. Kept'
    BY <1>0, <2>2, <2>3 DEF Kept
  <2> QED
    BY <2>1, <2>4, MoveType
<1>8. CASE Restart
  <2>1. call' \in [Calls -> {NoCall} \union Filled] /\ pc' \in [Calls -> Places]
    BY <1>0, <1>8 DEF Restart, Places
  <2>2. secret' \in Secrets /\ proved' \in [Users -> -1 .. MaxNow]
    BY <1>0, <1>8, SessionsAssumption DEF Restart, Kept, Secrets
  <2>3. Kept'
    BY <1>0, <1>8, <2>2 DEF Restart, Kept
  <2>4. \A c \in Calls : OfCall(c)'
    BY <1>8, NoRecords DEF Restart, Typed, OfCall
  <2> QED
    BY <2>1, <2>3, <2>4, TypeParts DEF Typed
<1>9. CASE Logout \/ Tick
  <2>0. now' \in 0 .. MaxNow /\ {left', adrift'} \subseteq BOOLEAN
    <3>1. CASE Logout
      BY <1>0, <3>1 DEF Logout, Kept, Quiet
    <3>2. CASE Tick
      BY <1>0, <3>2, SessionsAssumption DEF Tick, Kept
    <3> QED
      BY <1>9, <3>1, <3>2
  <2>1. Kept'
    BY <1>0, <1>9, <2>0 DEF Logout, Tick, Kept
  <2>2. UNCHANGED <<pc, call>>
    BY <1>9 DEF Logout, Tick
  <2> QED
    BY <1>0, <2>1, <2>2, TypeParts DEF Typed, OfCall
<1>10. CASE UNCHANGED vars
  <2>1. Kept' /\ UNCHANGED <<pc, call>>
    BY <1>0, <1>10 DEF vars, Kept
  <2> QED
    BY <1>0, <2>1, TypeParts DEF Typed, OfCall
<1> QED
  BY <1>1, <1>2, <1>3, <1>4, <1>5, <1>6, <1>7, <1>8, <1>9, <1>10, ServeType DEF Next

-----------------------------------------------------------------------------

\* The one call that the server's step touches, and what it is told.
Told(c) ==
    /\ UnchangedByServer
    /\ pc[c] = "sent" /\ pc' = [pc EXCEPT ![c] = "answered"]
    /\ \A d \in Calls \ {c} : call'[d] = call[d]
    /\ call'[c].kind = call[c].kind /\ call'[c].user = call[c].user
    /\ call'[c].token = call[c].token /\ call'[c].device = call[c].device

\* For whom a call asks: the name typed in, or the one in the token.
For(c) == IF call[c].kind = "restore" THEN call[c].token.user ELSE call[c].user

\* What the server tells it: a session for whom the call was for, or nothing.
Granted(c) ==
    LET answer == call'[c].answer IN
    /\ For(c) \in Users /\ call[c].kind # "register"
    /\ call[c].kind = "restore" => Restorable(c)
    /\ proved' = [proved EXCEPT ![For(c)] = now]
    /\ answer.session # NoSession /\ answer.session.user = For(c)
    /\ \/ answer.token = NoToken /\ ~answer.ok
       \/ /\ answer.token.user = For(c) /\ answer.token.until = now + RestoreTTL
          /\ answer.token.secret = secret
          /\ answer.token.device = EnsuredDevice(c)
    /\ IF call[c].device # 0 THEN answer.device = NoDevice
       ELSE /\ answer.device # NoDevice /\ answer.device.id = EnsuredDevice(c)
            /\ answer.device.until = now + DeviceTTL

Refused(c) ==
    LET answer == call'[c].answer IN
    /\ proved' = proved
    /\ answer.session = NoSession /\ answer.device = NoDevice /\ answer.token = NoToken
    /\ answer.ok => call[c].kind = "register"

LEMMA RespondTells ==
    ASSUME Typed, NEW c \in Calls, pc[c] = "sent", NEW answer, Respond(c, answer), UnchangedByServer
    PROVE  Told(c) /\ call'[c].answer = answer
<1>1. call[c] \in Filled /\ call \in [Calls -> {NoCall} \union Filled]
  BY AnswerType, TypeParts DEF Typed
<1>2. call'[c] = [call[c] EXCEPT !.answer = answer] /\ \A d \in Calls \ {c} : call'[d] = call[d]
  <2> HIDE DEF Filled
  <2> QED
    BY <1>1 DEF Respond
<1>3. pc' = [pc EXCEPT ![c] = "answered"]
  BY DEF Respond
<1>4. /\ [call[c] EXCEPT !.answer = answer].kind = call[c].kind
      /\ [call[c] EXCEPT !.answer = answer].user = call[c].user
      /\ [call[c] EXCEPT !.answer = answer].token = call[c].token
      /\ [call[c] EXCEPT !.answer = answer].device = call[c].device
      /\ [call[c] EXCEPT !.answer = answer].answer = answer
  BY <1>1 DEF Filled
<1> QED
  BY <1>2, <1>3, <1>4 DEF Told

LEMMA IssueGrants ==
    ASSUME Typed, NEW c \in Calls, pc[c] = "sent", For(c) \in Users, call[c].kind # "register",
           call[c].kind = "restore" => Restorable(c),
           Issue(c, For(c)), UnchangedByServer
    PROVE  Told(c) /\ Granted(c)
<1> DEFINE d == EnsuredDevice(c)
           cookie == IF d = call[c].device THEN NoDevice ELSE [id |-> d, until |-> now + DeviceTTL]
           restore == [user |-> For(c), device |-> d, until |-> now + RestoreTTL, secret |-> secret]
<1>1. call[c].device \in Nat /\ devices \in Nat
  BY AnswerType, TypeParts, SessionsAssumption DEF Typed, Kept
<1>2. d # 0 /\ (d = call[c].device <=> call[c].device # 0)
  BY <1>1 DEF EnsuredDevice
<1>3. IF call[c].device # 0 THEN cookie = NoDevice
      ELSE cookie # NoDevice /\ cookie.id = d /\ cookie.until = now + DeviceTTL
  <2> HIDE DEF d
  <2> QED
    BY <1>2, NoRecords
<1>4. /\ restore.user = For(c) /\ restore.until = now + RestoreTTL
      /\ restore.secret = secret /\ restore.device = d
  OBVIOUS
<1>5. SessionFor(c, For(c)).user = For(c) /\ SessionFor(c, For(c)) # NoSession
  BY NoRecords, SessionsAssumption DEF SessionFor
<1>6. PICK answer :
        /\ Respond(c, answer)
        /\ answer.session = SessionFor(c, For(c)) /\ answer.device = cookie
        /\ \/ answer.token = restore
           \/ answer.token = NoToken /\ ~answer.ok
  <2> DEFINE good == [ok |-> TRUE, session |-> SessionFor(c, For(c)), device |-> cookie,
                      token |-> restore]
             bad == [ok |-> FALSE, session |-> SessionFor(c, For(c)), device |-> cookie,
                     token |-> NoToken]
  <2>1. Respond(c, good) \/ Respond(c, bad)
    BY DEF Issue
  <2>2. /\ good.session = SessionFor(c, For(c)) /\ good.device = cookie /\ good.token = restore
        /\ bad.session = SessionFor(c, For(c)) /\ bad.device = cookie /\ bad.token = NoToken
        /\ bad.ok = FALSE
    OBVIOUS
  <2> HIDE DEF good, bad
  <2> QED
    BY <2>1, <2>2
<1>7. proved' = [proved EXCEPT ![For(c)] = now]
  BY DEF Issue
<1>8. Told(c) /\ call'[c].answer = answer
  BY <1>6, RespondTells
<1> HIDE DEF cookie, restore
<1> QED
  BY <1>3, <1>4, <1>5, <1>6, <1>7, <1>8 DEF Granted

LEMMA ServerTells ==
    ASSUME Typed, NEW c \in Calls, ServeLogin(c) \/ ServeRegister(c) \/ ServeRestore(c)
    PROVE  Told(c) /\ (Granted(c) \/ Refused(c))
<1>1. ASSUME pc[c] = "sent", Refuse(c), UnchangedByServer PROVE Told(c) /\ Refused(c)
  BY <1>1, RespondTells, NoRecords DEF Refuse, Refused
<1>2. CASE ServeLogin(c)
  <2>1. For(c) = call[c].user /\ For(c) \in Users
    BY <1>2 DEF ServeLogin, For, Typed, OfCall
  <2> QED
    BY <1>1, <1>2, <2>1, IssueGrants DEF ServeLogin
<1>3. CASE ServeRestore(c)
  <2>1. For(c) = call[c].token.user /\ For(c) \in Users
    BY <1>3 DEF ServeRestore, For, Typed, OfCall, Tokens
  <2> QED
    BY <1>1, <1>3, <2>1, IssueGrants DEF ServeRestore
<1>4. CASE ServeRegister(c)
  <2> DEFINE answer == [NoAnswer EXCEPT !.ok = TRUE]
  <2>1. /\ answer.session = NoSession /\ answer.device = NoDevice /\ answer.token = NoToken
    BY DEF NoAnswer
  <2>2. CASE Respond(c, answer) /\ UNCHANGED <<devices, proved>>
    <3>1. Told(c) /\ call'[c].answer = answer
      BY <1>4, <2>2, RespondTells DEF ServeRegister
    <3> HIDE DEF answer
    <3> QED
      BY <1>4, <2>1, <2>2, <3>1 DEF ServeRegister, Refused
  <2> QED
    BY <1>1, <1>4, <2>2 DEF ServeRegister
<1> QED
  BY <1>2, <1>3, <1>4

\* What the browser's steps do to the calls.
LEMMA BrowserMoves ==
    ASSUME Typed, NEW c \in Calls
    PROVE  /\ OpenForm(c) =>
                /\ pc[c] = "idle" /\ pc' = [pc EXCEPT ![c] = "form"] /\ call' = call
                /\ call[c] = NoCall
           /\ LoadPage(c) =>
                /\ pc' = [pc EXCEPT ![c] = "sent"] /\ \A d \in Calls \ {c} : call'[d] = call[d]
                /\ call'[c].kind = "restore" /\ call'[c].token = token
                /\ call'[c].device = SentDevice /\ call'[c].answer = NoAnswer
           /\ \A u \in Users, kind \in Kinds \ {"restore"} : Submit(c, kind, u) =>
                /\ pc' = [pc EXCEPT ![c] = "sent"] /\ \A d \in Calls \ {c} : call'[d] = call[d]
                /\ call'[c].kind = kind /\ call'[c].token = NoToken
                /\ call'[c].device = SentDevice /\ call'[c].answer = NoAnswer
           /\ End(c) =>
                /\ pc' = [pc EXCEPT ![c] = "idle"] /\ \A d \in Calls \ {c} : call'[d] = call[d]
                /\ call'[c] = NoCall
<1>0. call \in [Calls -> {NoCall} \union Filled]
  BY TypeParts DEF Typed
<1>1. ASSUME OpenForm(c) PROVE call[c] = NoCall
  BY <1>1 DEF OpenForm, Begin, Typed, OfCall
<1>2. ASSUME LoadPage(c)
      PROVE  /\ \A d \in Calls \ {c} : call'[d] = call[d]
             /\ call'[c].kind = "restore" /\ call'[c].token = token
             /\ call'[c].device = SentDevice /\ call'[c].answer = NoAnswer
  <2> DEFINE new == [NoCall EXCEPT !.kind = "restore", !.token = token, !.device = SentDevice]
  <2>1. new.kind = "restore" /\ new.token = token /\ new.device = SentDevice /\ new.answer = NoAnswer
    BY DEF NoCall
  <2>2. call' = [call EXCEPT ![c] = new]
    BY <1>2 DEF LoadPage
  <2> HIDE DEF new
  <2> QED
    BY <1>0, <2>1, <2>2
<1>3. ASSUME NEW u \in Users, NEW kind \in Kinds \ {"restore"}, Submit(c, kind, u)
      PROVE  /\ \A d \in Calls \ {c} : call'[d] = call[d]
             /\ call'[c].kind = kind /\ call'[c].token = NoToken
             /\ call'[c].device = SentDevice /\ call'[c].answer = NoAnswer
  <2> DEFINE new == [NoCall EXCEPT !.kind = kind, !.user = u, !.device = SentDevice]
  <2>1. new.kind = kind /\ new.token = NoToken /\ new.device = SentDevice /\ new.answer = NoAnswer
    BY DEF NoCall
  <2>2. call' = [call EXCEPT ![c] = new]
    BY <1>3 DEF Submit
  <2> HIDE DEF new
  <2> QED
    BY <1>0, <2>1, <2>2
<1>4. pc \in [Calls -> Places]
  BY TypeParts DEF Typed
<1>5. ASSUME End(c)
      PROVE  (\A d \in Calls \ {c} : call'[d] = call[d]) /\ call'[c] = NoCall
  BY <1>0, <1>5 DEF End
<1>6. OpenForm(c) => pc[c] = "idle" /\ pc' = [pc EXCEPT ![c] = "form"] /\ call' = call
  BY DEF OpenForm, Begin
<1>7. LoadPage(c) => pc' = [pc EXCEPT ![c] = "sent"]
  BY DEF LoadPage
<1>8. \A u \in Users, kind \in Kinds \ {"restore"} : Submit(c, kind, u) => pc' = [pc EXCEPT ![c] = "sent"]
  BY DEF Submit
<1>9. End(c) => pc' = [pc EXCEPT ![c] = "idle"]
  BY DEF End
<1> QED
  BY <1>1, <1>2, <1>3, <1>5, <1>6, <1>7, <1>8, <1>9

LEMMA StepLeft == ASSUME Typed, Left, [Next]_vars PROVE Left'
<1>0. pc \in [Calls -> Places]
  BY TypeParts DEF Typed
<1>1. ASSUME NEW c \in Calls, ServeLogin(c) \/ ServeRegister(c) \/ ServeRestore(c) PROVE Left'
  BY <1>0, <1>1, ServerTells DEF Told, UnchangedByServer, Left
<1>2. ASSUME NEW c \in Calls,
             \/ OpenForm(c) \/ LoadPage(c) \/ Arrive(c) \/ ReadLogin(c) \/ ReadInfo(c)
             \/ ReadRegister(c) \/ ReadRestore(c) \/ GiveUp(c)
      PROVE Left'
  BY <1>0, <1>2 DEF OpenForm, LoadPage, Begin, Arrive, ReadLogin, ReadInfo, ReadRegister,
     ReadRestore, GiveUp, End, Left
<1>3. ASSUME NEW c \in Calls, NEW u \in Users, NEW kind \in Kinds \ {"restore"}, Submit(c, kind, u)
      PROVE Left'
  BY <1>3 DEF Submit, Left
<1>4. CASE Restart
  BY <1>0, <1>4 DEF Restart, Left
<1>5. CASE Logout
  BY <1>0, <1>5 DEF Logout, Left, Quiet
<1>6. CASE Tick
  BY <1>6 DEF Tick, Left
<1>7. CASE UNCHANGED vars
  BY <1>7 DEF vars, Left
<1> QED
  BY <1>1, <1>2, <1>3, <1>4, <1>5, <1>6, <1>7 DEF Next

-----------------------------------------------------------------------------

\* Nothing that vouches for a token changes.
Fresh == UNCHANGED <<secret, now, proved>>

LEMMA VouchedTypes ==
    ASSUME Typed
    PROVE  /\ secret \in Nat /\ now \in Nat /\ proved \in [Users -> Int]
           /\ RestoreTTL \in Nat
           /\ \A t \in Tokens \union {NoToken} :
                 /\ t.secret \in Nat /\ t.until \in Nat
                 /\ t.user \in Users \union {None}
           /\ token \in Tokens \union {NoToken}
           /\ \A c \in Calls : /\ call[c].token \in Tokens \union {NoToken}
                               /\ call[c].answer.token \in Tokens \union {NoToken}
<1>1. RestoreTTL \in Nat /\ MaxNow \in Nat /\ MaxRestarts \in Nat
  BY SessionsAssumption
<1>2. secret \in Nat /\ now \in Nat /\ proved \in [Users -> Int] /\ token \in Tokens \union {NoToken}
  BY <1>1, TypeParts DEF Typed, Kept, Secrets
<1>3. Instants \subseteq Nat /\ Secrets \subseteq Nat
  BY SessionsAssumption DEF Instants, Secrets
<1>4. NoToken.secret \in Nat /\ NoToken.until \in Nat /\ NoToken.user = None
  BY DEF NoToken
<1>5. \A t \in Tokens : t.secret \in Nat /\ t.until \in Nat /\ t.user \in Users
  BY <1>3 DEF Tokens
<1>6. ASSUME NEW c \in Calls PROVE /\ call[c].token \in Tokens \union {NoToken}
                                   /\ call[c].answer.token \in Tokens \union {NoToken}
  <2>1. CASE pc[c] \in {"idle", "form"}
    BY <2>1, NoRecords DEF Typed, OfCall
  <2>2. CASE pc[c] \notin {"idle", "form"}
    BY <2>2, AnswerType
  <2> QED
    BY <2>1, <2>2
<1> QED
  BY <1>1, <1>2, <1>4, <1>5, <1>6

LEMMA StayVouched ==
    ASSUME Typed, Fresh, NEW t, Vouched(t) PROVE Vouched(t)'
  BY DEF Fresh, Vouched

LEMMA NoneVouched == ASSUME Typed PROVE Vouched(NoToken) /\ (Fresh => Vouched(NoToken)')
<1>1. Vouched(NoToken)
  BY VouchedTypes, NoRecords DEF Vouched
<1> QED
  BY <1>1 DEF Vouched, Fresh

LEMMA StepVouched == ASSUME Typed, AllVouched, [Next]_vars PROVE AllVouched'
<1>0. pc \in [Calls -> Places] /\ call \in [Calls -> {NoCall} \union Filled]
  BY TypeParts DEF Typed
<1>1. ASSUME NEW c \in Calls, ServeLogin(c) \/ ServeRegister(c) \/ ServeRestore(c)
      PROVE  AllVouched'
  <2>1. Told(c)
    BY <1>1, ServerTells
  <2>2. CASE Refused(c)
    <3>1. Fresh
      BY <2>1, <2>2 DEF Told, UnchangedByServer, Refused, Fresh
    <3>2. call'[c].answer.token = NoToken
      BY <2>2 DEF Refused
    <3>3. ASSUME NEW d \in Calls PROVE Vouched(call[d].token)' /\ Vouched(call[d].answer.token)'
      <4>1. CASE d = c
        BY <2>1, <3>1, <3>2, <4>1, NoneVouched, VouchedTypes DEF Told, AllVouched, Fresh, Vouched
      <4>2. CASE d # c
        BY <2>1, <3>1, <4>2, VouchedTypes DEF Told, AllVouched, Fresh, Vouched
      <4> QED
        BY <4>1, <4>2
    <3>4. Vouched(token)' /\ \A u \in Users : proved'[u] <= now'
      BY <2>1, <3>1 DEF Told, UnchangedByServer, AllVouched, Fresh, Vouched
    <3> QED
      BY <3>3, <3>4 DEF AllVouched
  <2>3. CASE Granted(c)
    <3>1. UNCHANGED <<secret, now, token>> /\ proved' = [proved EXCEPT ![For(c)] = now]
          /\ For(c) \in Users
      BY <2>1, <2>3 DEF Told, UnchangedByServer, Granted
    <3>2. \A u \in Users : proved'[u] <= now' /\ proved'[u] >= proved[u]
      BY <3>1, VouchedTypes DEF AllVouched
    <3>3. ASSUME NEW t \in Tokens \union {NoToken}, Vouched(t)
          PROVE  t.secret <= secret' /\ (t.user # None /\ t.secret = secret' =>
                    proved'[t.user] >= 0 /\ t.until <= proved'[t.user] + RestoreTTL)
      BY <3>1, <3>2, <3>3, VouchedTypes DEF Vouched
    <3>4. Vouched(token)'
      BY <3>1, <3>3, VouchedTypes DEF AllVouched, Vouched
    <3>5. ASSUME NEW d \in Calls PROVE Vouched(call[d].token)'
      <4>1. call'[d].token = call[d].token
        BY <2>1 DEF Told
      <4> QED
        BY <3>3, <4>1, VouchedTypes DEF AllVouched, Vouched
    <3>6. ASSUME NEW d \in Calls PROVE Vouched(call[d].answer.token)'
      <4>1. CASE d = c
        <5>1. CASE call'[c].answer.token = NoToken
          BY <3>1, <4>1, <5>1, NoRecords, VouchedTypes DEF Vouched
        <5>2. CASE /\ call'[c].answer.token.user = For(c)
                   /\ call'[c].answer.token.until = now + RestoreTTL
                   /\ call'[c].answer.token.secret = secret
          <6>1. proved'[For(c)] = now
            BY <3>1, VouchedTypes
          <6> QED
            BY <3>1, <4>1, <5>2, <6>1, VouchedTypes DEF Vouched
        <5> QED
          BY <2>3, <5>1, <5>2 DEF Granted
      <4>2. CASE d # c
        <5>1. call'[d] = call[d]
          BY <2>1, <4>2 DEF Told
        <5> QED
          BY <3>3, <5>1, VouchedTypes DEF AllVouched, Vouched
      <4> QED
        BY <4>1, <4>2
    <3> QED
      BY <3>2, <3>4, <3>5, <3>6 DEF AllVouched
  <2> QED
    BY <1>1, <2>2, <2>3, ServerTells
<1>2. ASSUME NEW c \in Calls, Fresh, \A d \in Calls \ {c} : call'[d] = call[d],
             token' \in {token, NoToken, call[c].answer.token},
             call'[c].token \in {token, NoToken, call[c].token},
             call'[c].answer \in {NoAnswer, call[c].answer}
      PROVE  AllVouched'
  <2>1. Vouched(token)'
    BY <1>2, NoneVouched DEF AllVouched, Fresh, Vouched
  <2>2. Vouched(call[c].token)' /\ Vouched(call[c].answer.token)'
    BY <1>2, NoneVouched, NoRecords DEF AllVouched, Fresh, Vouched
  <2>3. ASSUME NEW d \in Calls \ {c} PROVE Vouched(call[d].token)' /\ Vouched(call[d].answer.token)'
    BY <1>2 DEF AllVouched, Fresh, Vouched
  <2>4. \A u \in Users : proved'[u] <= now'
    BY <1>2 DEF AllVouched, Fresh
  <2> QED
    BY <2>1, <2>2, <2>3, <2>4 DEF AllVouched
<1>3. ASSUME NEW c \in Calls, OpenForm(c) \/ Arrive(c) PROVE AllVouched'
  <2>1. Fresh /\ UNCHANGED <<call, token>>
    BY <1>3 DEF OpenForm, Begin, Arrive, Fresh
  <2> QED
    BY <1>2, <2>1
<1>4. ASSUME NEW c \in Calls, LoadPage(c) PROVE AllVouched'
  <2>1. Fresh /\ UNCHANGED token
    BY <1>4 DEF LoadPage, Begin, Fresh
  <2> QED
    BY <1>2, <1>4, <2>1, BrowserMoves
<1>5. ASSUME NEW c \in Calls, NEW u \in Users, NEW kind \in Kinds \ {"restore"}, Submit(c, kind, u)
      PROVE  AllVouched'
  <2>1. Fresh /\ UNCHANGED token
    BY <1>5 DEF Submit, Fresh
  <2> QED
    BY <1>2, <1>5, <2>1, BrowserMoves
<1>6. ASSUME NEW c \in Calls, ReadInfo(c) \/ ReadRegister(c) \/ ReadRestore(c) \/ GiveUp(c)
      PROVE  AllVouched'
  <2>1. Fresh /\ token' \in {token, call[c].answer.token} /\ End(c)
    BY <1>6 DEF ReadInfo, ReadRegister, ReadRestore, GiveUp, Fresh
  <2> QED
    BY <1>2, <2>1, BrowserMoves, NoRecords
<1>7. ASSUME NEW c \in Calls, ReadLogin(c) PROVE AllVouched'
  <2>1. Fresh /\ token' \in {token, call[c].answer.token} /\ (End(c) \/ UNCHANGED call)
    BY <1>7 DEF ReadLogin, Fresh
  <2> QED
    BY <1>2, <2>1, BrowserMoves, NoRecords
<1>8. CASE Restart
  <2>1. secret' = secret + 1 /\ UNCHANGED <<now, token>> /\ \A u \in Users : proved'[u] = -1
    BY <1>8 DEF Restart
  <2>2. ASSUME NEW t \in Tokens \union {NoToken}, t.secret <= secret
        PROVE  t.secret <= secret' /\ t.secret # secret'
    BY <2>1, <2>2, VouchedTypes
  <2>3. Vouched(token)'
    BY <2>1, <2>2, VouchedTypes DEF AllVouched, Vouched
  <2>4. ASSUME NEW d \in Calls PROVE Vouched(call[d].token)' /\ Vouched(call[d].answer.token)'
    <3>1. call'[d] \in {call[d], NoCall}
      BY <1>8 DEF Restart
    <3>2. /\ call'[d].token \in Tokens \union {NoToken}
          /\ call'[d].answer.token \in Tokens \union {NoToken}
          /\ call'[d].token.secret <= secret /\ call'[d].answer.token.secret <= secret
      BY <3>1, VouchedTypes, NoRecords DEF AllVouched, Vouched
    <3> QED
      BY <3>2, <2>2 DEF Vouched
  <2> QED
    BY <2>1, <2>3, <2>4, VouchedTypes DEF AllVouched
<1>9. CASE Logout
  <2>1. Fresh /\ UNCHANGED call /\ token' = NoToken
    BY <1>9 DEF Logout, Fresh
  <2>2. Vouched(token)'
    BY <2>1, NoneVouched DEF Vouched
  <2> QED
    BY <2>1, <2>2 DEF AllVouched, Fresh, Vouched
<1>10. CASE Tick
  <2>1. now' = now + 1 /\ UNCHANGED <<secret, proved, token, call>>
    BY <1>10 DEF Tick
  <2>2. \A u \in Users : proved'[u] <= now'
    BY <2>1, VouchedTypes DEF AllVouched
  <2> QED
    BY <2>1, <2>2 DEF AllVouched, Vouched
<1>11. CASE UNCHANGED vars
  BY <1>11 DEF vars, AllVouched, Vouched
<1> QED
  BY <1>1, <1>3, <1>4, <1>5, <1>6, <1>7, <1>8, <1>9, <1>10, <1>11 DEF Next

-----------------------------------------------------------------------------

LEMMA StepLone ==
    ASSUME Typed, ~crossed => Lone, [Next]_vars
    PROVE  (~crossed => Lone)' /\ (~crossed' => ~crossed)
<1>0. pc \in [Calls -> Places]
  BY TypeParts DEF Typed
<1>1. ASSUME NEW c \in Calls, crossed' = (crossed \/ ~Quiet), NEW place, pc' = [pc EXCEPT ![c] = place]
      PROVE  (~crossed => Lone)' /\ (~crossed' => ~crossed)
  BY <1>0, <1>1 DEF Quiet, Lone
<1>2. ASSUME NEW c \in Calls, pc[c] # "idle", crossed' = crossed, NEW place, pc' = [pc EXCEPT ![c] = place]
      PROVE  (~crossed => Lone)' /\ (~crossed' => ~crossed)
  BY <1>0, <1>2 DEF Lone
<1>3. ASSUME NEW c \in Calls, OpenForm(c) \/ LoadPage(c)
      PROVE  (~crossed => Lone)' /\ (~crossed' => ~crossed)
  BY <1>1, <1>3 DEF OpenForm, LoadPage, Begin
<1>4. ASSUME NEW c \in Calls, ServeLogin(c) \/ ServeRegister(c) \/ ServeRestore(c)
      PROVE  (~crossed => Lone)' /\ (~crossed' => ~crossed)
  BY <1>2, <1>4, ServerTells DEF Told, UnchangedByServer
<1>5. ASSUME NEW c \in Calls,
             \/ \E u \in Users, kind \in Kinds \ {"restore"} : Submit(c, kind, u)
             \/ Arrive(c) \/ ReadLogin(c) \/ ReadInfo(c)
             \/ ReadRegister(c) \/ ReadRestore(c) \/ GiveUp(c)
      PROVE  (~crossed => Lone)' /\ (~crossed' => ~crossed)
  BY <1>2, <1>5 DEF Submit, Arrive, ReadLogin, ReadInfo, ReadRegister, ReadRestore, GiveUp, End
<1>6. CASE Restart
  BY <1>0, <1>6 DEF Restart, Lone
<1>7. CASE Logout \/ Tick \/ UNCHANGED vars
  BY <1>7 DEF Logout, Tick, vars, Lone
<1> QED
  BY <1>3, <1>4, <1>5, <1>6, <1>7 DEF Next

\* If the page shows somebody, nothing is pending: a step then ends no call.
LEMMA ShownStays ==
    ASSUME Typed, Lone, ShownInv, UNCHANGED <<session, shown, registered>>,
           NEW c \in Calls, NEW place, pc' = [pc EXCEPT ![c] = place],
           pc[c] # "idle" \/ shown = None,
           \A d \in Calls \ {c} : call'[d] = call[d],
           Honest(c)'
    PROVE  ShownInv'
<1>0. pc \in [Calls -> Places]
  BY TypeParts DEF Typed
<1>1. ~registered' /\ shown' # None => Quiet' /\ session'.user = shown'
  BY <1>0 DEF ShownInv, Quiet
<1>2. ASSUME NEW d \in Calls, d # c PROVE Honest(d)'
  BY <1>0, <1>2 DEF ShownInv, Honest, Answered, Whose
<1> QED
  BY <1>1, <1>2 DEF ShownInv, Honest

\* The last step of the only call: it is not pending any longer.
LEMMA ShownEnds ==
    ASSUME Typed, Lone, ShownInv, UNCHANGED session, NEW c \in Calls, pc[c] # "idle", End(c),
           ~registered' => ~registered,
           ~registered' /\ shown' # None => shown' = shown \/ session.user = shown'
    PROVE  ShownInv'
<1>0. pc \in [Calls -> Places]
  BY TypeParts DEF Typed
<1>1. pc' = [pc EXCEPT ![c] = "idle"]
  BY DEF End
<1>2. Quiet'
  BY <1>0, <1>1 DEF Lone, Quiet
<1>3. \A d \in Calls : ~Answered(d)'
  BY <1>2 DEF Quiet, Answered
<1>4. ~registered' /\ shown' # None => session'.user = shown'
  BY DEF ShownInv
<1> QED
  BY <1>2, <1>3, <1>4 DEF ShownInv, Honest

LEMMA StepShown ==
    ASSUME Typed, Lone, ShownInv, [Next]_vars, ~crossed'
    PROVE  ShownInv'
<1>0. pc \in [Calls -> Places]
  BY TypeParts DEF Typed
<1>1. ASSUME NEW c \in Calls, OpenForm(c) PROVE ShownInv'
  <2>1. Honest(c)'
    BY <1>0, <1>1 DEF OpenForm, Honest, Answered
  <2> QED
    BY <1>1, <2>1, ShownStays, BrowserMoves DEF OpenForm
<1>2. ASSUME NEW c \in Calls, LoadPage(c) PROVE ShownInv'
  <2>1. Honest(c)'
    BY <1>0, <1>2 DEF LoadPage, Honest, Answered
  <2> QED
    BY <1>2, <2>1, ShownStays, BrowserMoves DEF LoadPage
<1>3. ASSUME NEW c \in Calls, NEW u \in Users, NEW kind \in Kinds \ {"restore"}, Submit(c, kind, u)
      PROVE  ShownInv'
  <2>1. Honest(c)'
    BY <1>0, <1>3 DEF Submit, Honest, Answered
  <2> QED
    BY <1>3, <2>1, ShownStays, BrowserMoves DEF Submit
<1>4. ASSUME NEW c \in Calls, ServeLogin(c) \/ ServeRegister(c) \/ ServeRestore(c)
      PROVE  ShownInv'
  <2>1. Told(c)
    BY <1>4, ServerTells
  <2>2. pc'[c] = "answered"
    BY <1>0, <2>1 DEF Told
  <2>3. Honest(c)'
    <3>1. CASE Refused(c)
      BY <2>1, <3>1 DEF Refused, Honest, Answered, Told
    <3>2. CASE Granted(c)
      <4>1. call'[c].answer.ok => call'[c].answer.token.user = For(c)
        BY <3>2 DEF Granted
      <4> QED
        BY <2>1, <2>2, <3>2, <4>1 DEF Granted, Honest, Answered, Told, Whose, For
    <3> QED
      BY <1>4, <3>1, <3>2, ServerTells
  <2> QED
    BY <2>1, <2>3, ShownStays DEF Told, UnchangedByServer
<1>5. ASSUME NEW c \in Calls, Arrive(c) PROVE ShownInv'
  <2>1. /\ pc[c] = "answered" /\ pc' = [pc EXCEPT ![c] = "arrived"]
        /\ UNCHANGED <<shown, registered, call>>
        /\ session' = IF call[c].answer.session = NoSession THEN session ELSE call[c].answer.session
    BY <1>5 DEF Arrive
  <2>2. ~registered' => shown' = None
    BY <2>1 DEF ShownInv, Quiet
  <2>3. ASSUME NEW d \in Calls, Answered(d)', call[d].kind # "register" PROVE d = c
    BY <1>0, <2>1, <2>3 DEF Lone, Answered
  <2>4. Honest(c) => Honest(c)'
    BY <1>0, <2>1 DEF Honest, Answered, Whose
  <2> QED
    BY <2>1, <2>2, <2>3, <2>4 DEF ShownInv, Honest
<1>6. ASSUME NEW c \in Calls, GiveUp(c) PROVE ShownInv'
  BY <1>6, ShownEnds DEF GiveUp
<1>7. ASSUME NEW c \in Calls, ReadLogin(c) PROVE ShownInv'
  <2>1. CASE End(c)
    BY <1>7, <2>1, ShownEnds DEF ReadLogin
  <2>2. CASE call[c].answer.ok /\ pc' = [pc EXCEPT ![c] = "info"] /\ UNCHANGED call
    <3>1. Honest(c)'
      BY <1>0, <1>7, <2>2 DEF ReadLogin, ShownInv, Honest, Answered, Whose
    <3> QED
      BY <1>7, <2>2, <3>1, ShownStays DEF ReadLogin
  <2> QED
    BY <1>7, <2>1, <2>2 DEF ReadLogin
<1>8. ASSUME NEW c \in Calls, ReadInfo(c) PROVE ShownInv'
  <2>1. pc[c] = "info" /\ call[c].kind \in {"login", "passkey"}
    BY <1>8 DEF ReadInfo, Typed, OfCall
  <2>2. call[c].answer.ok => session.user = call[c].user
    BY <2>1 DEF ShownInv, Honest, Answered, Whose
  <2>3. call[c].answer.ok
    BY <2>1 DEF Typed, OfCall
  <2> QED
    BY <2>3, <1>8, <2>1, <2>2, ShownEnds DEF ReadInfo
<1>9. ASSUME NEW c \in Calls, ReadRegister(c) PROVE ShownInv'
  BY <1>9, ShownEnds DEF ReadRegister
<1>10. ASSUME NEW c \in Calls, ReadRestore(c) PROVE ShownInv'
  <2>1. call[c].answer.ok => session.user = call[c].answer.token.user
    BY <1>10 DEF ReadRestore, ShownInv, Honest, Answered, Whose
  <2> QED
    BY <1>10, <2>1, ShownEnds DEF ReadRestore
<1>11. CASE Restart
  <2>1. ASSUME NEW d \in Calls, Answered(d)' PROVE Answered(d) /\ UNCHANGED <<pc[d], call[d], session>>
    BY <1>0, <1>11, <2>1, NoRecords DEF Restart, Answered
  <2>2. Quiet => Quiet'
    BY <1>11 DEF Restart, Quiet
  <2> QED
    BY <1>11, <2>1, <2>2 DEF Restart, ShownInv, Honest, Answered, Whose
<1>12. CASE Logout
  BY <1>12 DEF Logout, ShownInv, Honest, Answered, Whose, Quiet
<1>13. CASE Tick \/ UNCHANGED vars
  <2>1. UNCHANGED <<pc, call, shown, session, registered>>
    BY <1>13 DEF Tick, vars
  <2> QED
    BY <2>1 DEF ShownInv, Honest, Answered, Whose, Quiet
<1> QED
  BY <1>1, <1>2, <1>3, <1>4, <1>5, <1>6, <1>7, <1>8, <1>9, <1>10, <1>11, <1>12, <1>13 DEF Next

-----------------------------------------------------------------------------

LEMMA FitsTypes ==
    ASSUME Typed
    PROVE  /\ now \in Nat /\ devices \in Nat /\ RestoreTTL \in Nat /\ DeviceTTL \in Nat
           /\ device.id \in Nat /\ device.until \in Nat /\ (device = NoDevice <=> device.id = 0)
           /\ SentDevice = (IF device # NoDevice /\ now <= device.until THEN device.id ELSE 0)
           /\ token.until \in Nat
           /\ \A c \in Calls : pc[c] \notin {"idle", "form"} =>
                 /\ call[c].device \in Nat
                 /\ call[c].answer.token.until \in Nat
                 /\ call[c].answer.device.until \in Nat
                 /\ call[c].answer.device.id \in Nat
                 /\ (call[c].answer.device = NoDevice <=> call[c].answer.device.id = 0)
<1>1. Instants \subseteq Nat /\ MaxNow \in Nat /\ MaxDevices \in Nat
  BY SessionsAssumption DEF Instants
<1>2. ASSUME NEW x \in DeviceCookies PROVE x.id \in Nat /\ x.until \in Nat /\ x.id # 0
  <2>1. x.id \in 1 .. MaxDevices /\ x.until \in Instants
    BY DEF DeviceCookies
  <2>2. x.id \in Nat /\ x.id # 0
    BY <1>1, <2>1
  <2>3. x.until \in Nat
    BY <1>1, <2>1
  <2> QED
    BY <2>2, <2>3
<1>3. NoDevice.id = 0 /\ NoDevice.until = 0
  BY DEF NoDevice
<1>4. \A x \in DeviceCookies \union {NoDevice} :
         x.id \in Nat /\ x.until \in Nat /\ (x = NoDevice <=> x.id = 0)
  BY <1>2, <1>3
<1>5. /\ now \in Nat /\ devices \in Nat /\ RestoreTTL \in Nat /\ DeviceTTL \in Nat
      /\ device \in DeviceCookies \union {NoDevice}
  BY <1>1, TypeParts, SessionsAssumption DEF Typed, Kept
<1>6. ASSUME NEW c \in Calls, pc[c] \notin {"idle", "form"}
      PROVE  call[c].device \in Nat /\ call[c].answer.device \in DeviceCookies \union {NoDevice}
  BY <1>1, <1>6, AnswerType
<1> QED
  BY <1>4, <1>5, <1>6, VouchedTypes DEF SentDevice

\* A step that leaves the cookie and the clock alone.
LEMMA FitsStays ==
    ASSUME Typed, Lone, FitsInv, UNCHANGED <<now, device>>,
           NEW c \in Calls, NEW place, pc' = [pc EXCEPT ![c] = place], pc[c] # "idle" \/ Quiet,
           Fits(token)', Fitting(c)'
    PROVE  FitsInv'
<1>0. pc \in [Calls -> Places]
  BY TypeParts DEF Typed
<1>1. ASSUME NEW d \in Calls, d # c PROVE Fitting(d)'
  BY <1>0, <1>1 DEF Lone, Quiet, Fitting
<1> QED
  BY <1>1 DEF FitsInv

LEMMA StepFits ==
    ASSUME Typed, Lone, ~adrift => FitsInv, [Next]_vars, ~crossed', ~adrift',
           RestoreTTL <= DeviceTTL
    PROVE  FitsInv'
<1>0. pc \in [Calls -> Places]
  BY TypeParts DEF Typed
<1>00. FitsInv
  BY DEF Next, vars, OpenForm, LoadPage, Submit, ServeLogin, ServeRegister, ServeRestore,
     UnchangedByServer, Arrive, ReadLogin, ReadInfo, ReadRegister, ReadRestore, GiveUp, Restart,
     Logout, Tick
<1>a. ASSUME UNCHANGED <<now, device, token>> PROVE Fits(token)'
  BY <1>a, <1>00 DEF FitsInv, Fits, Alive
<1>1. ASSUME NEW c \in Calls, OpenForm(c) PROVE FitsInv'
  <2>1. pc'[c] = "form" /\ Quiet /\ UNCHANGED <<now, device, token>>
    BY <1>0, <1>1 DEF OpenForm, Begin
  <2> QED
    BY <1>00, <1>a, <1>1, <2>1, FitsStays DEF OpenForm, Fitting
<1>2. ASSUME NEW c \in Calls, LoadPage(c) PROVE FitsInv'
  <2>1. pc'[c] = "sent" /\ Quiet /\ UNCHANGED <<now, device, token>> /\ call'[c].device = SentDevice
    BY <1>0, <1>2, BrowserMoves DEF LoadPage, Begin
  <2> QED
    BY <1>00, <1>a, <1>2, <2>1, FitsStays DEF LoadPage, Fitting, SentDevice
<1>3. ASSUME NEW c \in Calls, NEW u \in Users, NEW kind \in Kinds \ {"restore"}, Submit(c, kind, u)
      PROVE  FitsInv'
  <2>1. /\ pc'[c] = "sent" /\ UNCHANGED <<now, device, token>> /\ call'[c].device = SentDevice
        /\ pc[c] = "form" /\ pc' = [pc EXCEPT ![c] = "sent"]
    BY <1>0, <1>3, BrowserMoves DEF Submit
  <2> QED
    BY <1>00, <1>a, <2>1, FitsStays DEF Fitting, SentDevice
<1>4. ASSUME NEW c \in Calls, ServeLogin(c) \/ ServeRegister(c) \/ ServeRestore(c)
      PROVE  FitsInv'
  <2>1. Told(c)
    BY <1>4, ServerTells
  <2>2. /\ pc'[c] = "answered" /\ UNCHANGED <<now, device, token>>
        /\ call'[c].device = call[c].device /\ call[c].device = SentDevice
    BY <1>0, <1>00, <2>1 DEF Told, UnchangedByServer, FitsInv, Fitting
  <2>3. Fitting(c)'
    <3>1. CASE Refused(c)
      BY <2>2, <3>1, NoRecords DEF Refused, Fitting, SentDevice
    <3>2. CASE Granted(c)
      <4>1. now + RestoreTTL <= now + DeviceTTL
        BY FitsTypes
      <4>2. call[c].device # 0 => EnsuredDevice(c) = call[c].device
        BY DEF EnsuredDevice
      <4> QED
        BY <2>2, <3>2, <4>1, <4>2, NoRecords DEF Granted, Fitting, SentDevice
    <3> QED
      BY <1>4, <3>1, <3>2, ServerTells
  <2> QED
    BY <1>00, <1>a, <2>1, <2>2, <2>3, FitsStays DEF Told
<1>5. ASSUME NEW c \in Calls, Arrive(c) PROVE FitsInv'
  <2>1. /\ pc[c] = "answered" /\ pc' = [pc EXCEPT ![c] = "arrived"]
        /\ UNCHANGED <<now, token, call>>
        /\ device' = IF call[c].answer.device = NoDevice THEN device ELSE call[c].answer.device
    BY <1>5 DEF Arrive
  <2>2. Fitting(c) /\ Fits(token)
    BY <1>00 DEF FitsInv
  <2>3. call[c].device = SentDevice
    BY <2>1, <2>2 DEF Fitting
  <2>4. CASE call[c].answer.device = NoDevice
    <3>1. device' = device
      BY <2>1, <2>4
    <3>2. Fits(call[c].answer.token)
      BY <2>1, <2>2, <2>3, <2>4, FitsTypes DEF Fitting, Fits, Alive
    <3>3. Fitting(c)'
      BY <1>0, <2>1, <3>1, <3>2 DEF Fitting, Fits, Alive
    <3> QED
      BY <1>00, <1>a, <2>1, <3>1, <3>3, FitsStays
  <2>5. CASE call[c].answer.device # NoDevice
    <3>1. device' = call[c].answer.device /\ ~Alive(token)
      BY <2>1, <2>2, <2>3, <2>5, FitsTypes DEF Fitting, Fits
    <3>2. Fits(token)'
      BY <2>1, <3>1 DEF Fits, Alive
    <3>3. Fits(call[c].answer.token)'
      <4>1. call[c].answer.token.user # None =>
              /\ call[c].answer.token.device = call[c].answer.device.id
              /\ call[c].answer.token.until <= call[c].answer.device.until
        BY <2>1, <2>2, <2>5 DEF Fitting
      <4>2. call[c].answer.token.until \in Nat /\ call[c].answer.device.until \in Nat /\ now \in Nat
        BY <2>1, FitsTypes
      <4> QED
        BY <2>1, <2>5, <3>1, <4>1, <4>2 DEF Fits, Alive
    <3>4. Fitting(c)'
      BY <1>0, <2>1, <3>3 DEF Fitting
    <3>5. ASSUME NEW d \in Calls, d # c PROVE Fitting(d)'
      BY <1>0, <2>1, <3>5 DEF Lone, Fitting
    <3> QED
      BY <3>2, <3>4, <3>5 DEF FitsInv
  <2> QED
    BY <2>4, <2>5
<1>6. ASSUME NEW c \in Calls, pc[c] # "idle", End(c), UNCHANGED <<now, device>>, Fits(token)'
      PROVE FitsInv'
  <2>1. pc'[c] = "idle" /\ pc' = [pc EXCEPT ![c] = "idle"]
    BY <1>0, <1>6 DEF End
  <2> QED
    BY <1>00, <1>6, <2>1, FitsStays DEF Fitting
<1>7. ASSUME NEW c \in Calls, pc[c] = "arrived", UNCHANGED <<now, device>>, token' = call[c].answer.token
      PROVE Fits(token)'
  BY <1>7, <1>00 DEF FitsInv, Fitting, Fits, Alive
<1>8. ASSUME NEW c \in Calls, ReadInfo(c) \/ ReadRegister(c) \/ ReadRestore(c) \/ GiveUp(c)
      PROVE  FitsInv'
  BY <1>a, <1>6, <1>7, <1>8 DEF ReadInfo, ReadRegister, ReadRestore, GiveUp
<1>9. ASSUME NEW c \in Calls, ReadLogin(c) PROVE FitsInv'
  <2>1. Fits(token)' /\ UNCHANGED <<now, device>> /\ pc[c] = "arrived"
    BY <1>a, <1>7, <1>9 DEF ReadLogin
  <2>2. CASE End(c)
    BY <1>6, <2>1, <2>2
  <2>3. CASE pc' = [pc EXCEPT ![c] = "info"]
    <3>1. pc'[c] = "info"
      BY <1>0, <2>3
    <3> QED
      BY <1>00, <2>1, <2>3, <3>1, FitsStays DEF Fitting
  <2> QED
    BY <1>9, <2>2, <2>3 DEF ReadLogin
<1>10. CASE Restart
  <2>1. Fits(token)'
    BY <1>a, <1>10 DEF Restart
  <2>2. ASSUME NEW d \in Calls PROVE Fitting(d)'
    <3>1. (pc'[d] = pc[d] /\ call'[d] = call[d]) \/ pc'[d] = "idle"
      BY <1>0, <1>10 DEF Restart
    <3> QED
      BY <1>00, <1>10, <3>1 DEF Restart, FitsInv, Fitting, Fits, Alive, SentDevice
  <2> QED
    BY <2>1, <2>2 DEF FitsInv
<1>11. CASE Logout
  <2>1. token' = NoToken /\ UNCHANGED <<now, device, pc, call>>
    BY <1>11 DEF Logout
  <2> QED
    BY <1>00, <2>1, NoRecords DEF FitsInv, Fitting, Fits, Alive, SentDevice
<1>12. CASE Tick
  <2>1. now' = now + 1 /\ UNCHANGED <<device, token, pc, call>>
    BY <1>12 DEF Tick
  <2>2. device = NoDevice \/ now' <= device.until
    <3>1. ~(device # NoDevice /\ now' > device.until)
      BY <1>12, Zenon DEF Tick
    <3> QED
      BY <2>1, <3>1, FitsTypes
  <2>3. ASSUME NEW t, t.until \in Nat, Fits(t) PROVE Fits(t)'
    BY <2>1, <2>2, <2>3, FitsTypes DEF Fits, Alive
  <2>4. SentDevice' = SentDevice
    BY <2>1, <2>2, FitsTypes DEF SentDevice
  <2> QED
    BY <1>00, <2>1, <2>3, <2>4, FitsTypes DEF FitsInv, Fitting
<1>13. CASE UNCHANGED vars
  BY <1>00, <1>13 DEF vars, FitsInv, Fitting, Fits, Alive, SentDevice
<1> QED
  BY <1>1, <1>2, <1>3, <1>4, <1>5, <1>8, <1>9, <1>10, <1>11, <1>12, <1>13 DEF Next

-----------------------------------------------------------------------------

(***************************************************************************)
(* Theorems                                                                *)
(***************************************************************************)

\* The types of cookies, localStorage, calls and answers: above all a device
\* id that a token or a cookie names was made by ensureDeviceIDCookie.
THEOREM SessionsTypes == Spec => []TypeOK
<1>1. Typed => TypeOK
  BY DEF Typed
<1> QED
  BY <1>1, InitTyped, StepTyped, PTL DEF Spec

LEMMA SpecTyped == Spec => []Typed
BY InitTyped, StepTyped, PTL DEF Spec

\* After a logout with nothing pending, nobody is shown until a form is sent:
\* attemptSessionRestore finds no token.
THEOREM LogoutIsLasting == Spec => []LogoutStays
<1>1. Init => Left
  BY DEF Init, Left
<1>2. Left => LogoutStays
  BY DEF Left, LogoutStays
<1> QED
  BY <1>1, <1>2, SpecTyped, StepLeft, PTL DEF Spec

\* handleAuthRestore opens a session only for a user to whom the server, under
\* the same secret, handed one within the lifetime of restore tokens.
THEOREM SessionsEnd == Spec => AbsenceEndsSession
<1>1. Init => AllVouched
  <2>1. ASSUME Init PROVE AllVouched
    <3>1. \A u \in Users : proved[u] <= now
      BY <2>1 DEF Init
    <3>2. Vouched(NoToken)
      BY <2>1, InitTyped, NoneVouched
    <3>3. Vouched(token) /\ \A c \in Calls : Vouched(call[c].token) /\ Vouched(call[c].answer.token)
      BY <2>1, <3>2, NoRecords DEF Init
    <3> QED
      BY <3>1, <3>3 DEF AllVouched
  <2> QED
    BY <2>1
<1>2. ASSUME Typed, AllVouched, [Next]_vars, NEW c \in Calls,
             call[c].kind = "restore", call'[c].answer.session # call[c].answer.session,
             pc'[c] = "answered"
      PROVE  proved[call[c].token.user] >= 0 /\ now - proved[call[c].token.user] <= RestoreTTL
  <2>0. pc \in [Calls -> Places] /\ call \in [Calls -> {NoCall} \union Filled]
    BY <1>2, TypeParts DEF Typed
  <2>1. ASSUME NEW d \in Calls, ServeLogin(d) \/ ServeRegister(d) \/ ServeRestore(d)
        PROVE  d = c /\ Granted(c)
    <3>1. d = c
      BY <1>2, <2>1, ServerTells DEF Told
    <3>2. call[c].answer.session = NoSession
      BY <1>2, <2>1, <3>1, ServerTells, NoRecords DEF Told, Typed, OfCall
    <3> QED
      BY <1>2, <2>1, <3>1, <3>2, ServerTells DEF Refused
  <2>2. \E d \in Calls : ServeLogin(d) \/ ServeRegister(d) \/ ServeRestore(d)
    <3>1. ASSUME NEW d \in Calls, pc' = [pc EXCEPT ![d] = "form"] \/ pc' = [pc EXCEPT ![d] = "sent"]
                   \/ pc' = [pc EXCEPT ![d] = "idle"] \/ pc' = [pc EXCEPT ![d] = "info"],
                 \A e \in Calls \ {d} : call'[e] = call[e]
          PROVE  FALSE
      BY <1>2, <2>0, <3>1
    <3>2. ASSUME UNCHANGED call PROVE FALSE
      BY <1>2, <3>2
    <3>3. ASSUME NEW d \in Calls PROVE ~OpenForm(d) /\ ~Arrive(d)
      BY <3>2 DEF OpenForm, Arrive
    <3>4. ASSUME NEW d \in Calls
          PROVE  /\ ~LoadPage(d) /\ ~End(d)
                 /\ \A u \in Users, kind \in Kinds \ {"restore"} : ~Submit(d, kind, u)
      BY <1>2, <3>1, BrowserMoves
    <3>5. ASSUME NEW d \in Calls
          PROVE ~ReadLogin(d) /\ ~ReadInfo(d) /\ ~ReadRegister(d) /\ ~ReadRestore(d) /\ ~GiveUp(d)
      BY <3>2, <3>4 DEF ReadLogin, ReadInfo, ReadRegister, ReadRestore, GiveUp
    <3>6. ~Restart /\ ~Logout /\ ~Tick /\ ~UNCHANGED vars
      BY <1>2, <3>2, <2>0 DEF Restart, Logout, Tick, vars
    <3> QED
      BY <1>2, <3>3, <3>4, <3>5, <3>6 DEF Next
  <2>3. Restorable(c)
    BY <1>2, <2>1, <2>2 DEF Granted
  <2>4. Vouched(call[c].token)
    BY <1>2 DEF AllVouched
  <2>5. call[c].token.user \in Users /\ call[c].token \in Tokens
    BY <1>2 DEF Typed, OfCall, Tokens
  <2> QED
    BY <1>2, <2>3, <2>4, <2>5, VouchedTypes DEF Restorable, Verified, Vouched
<1>3. Typed /\ AllVouched /\ [Next]_vars =>
        [\A c \in Calls :
          call[c].kind = "restore" /\ call'[c].answer.session # call[c].answer.session
             /\ pc'[c] = "answered" =>
          LET u == call[c].token.user IN
          proved[u] >= 0 /\ now - proved[u] <= RestoreTTL]_vars
  BY <1>2
<1> QED
  BY <1>1, <1>3, SpecTyped, StepVouched, PTL DEF Spec, AbsenceEndsSession

LEMMA SpecLone == Spec => [](~crossed => Lone)
<1>1. Init => Lone
  BY DEF Init, Lone
<1> QED
  BY <1>1, SpecTyped, StepLone, PTL DEF Spec

\* As long as calls do not cross, the user the page shows is the one the
\* server serves, unless it serves nobody or a registration was just shown.
THEOREM ShownIsServed == Spec => []ShownAloneIsServed
<1>1. Init => ShownInv
  BY DEF Init, ShownInv, Honest, Answered
<1>2. Typed /\ (~crossed => Lone) /\ (~crossed => ShownInv) /\ [Next]_vars => (~crossed => ShownInv)'
  BY StepLone, StepShown
<1>3. (~crossed => ShownInv) => ShownAloneIsServed
  BY DEF ShownInv, ShownAloneIsServed, ServedAs
<1> QED
  BY <1>1, <1>2, <1>3, SpecTyped, SpecLone, PTL DEF Spec

\* As long as calls do not cross and no device cookie runs out in the browser,
\* a token that is good names the device whose cookie is there.  The lifetime
\* of restore tokens may not exceed the device cookie's (30 days unless it is
\* configured, and 180): otherwise an answer that comes after the cookie's end
\* brings a token whose device the browser does not send, and a local browser
\* restores it under another device.
THEOREM TokensFit == ASSUME RestoreTTL <= DeviceTTL PROVE Spec => []TokenFitsDevice
<1> DEFINE I == ~crossed /\ ~adrift => FitsInv
<1>1. Init => I
  BY NoRecords DEF Init, FitsInv, Fitting, Fits, Alive
<1>2. Typed /\ (~crossed => Lone) /\ I /\ [Next]_vars => I'
  BY StepLone, StepFits
<1>3. I => TokenFitsDevice
  BY DEF FitsInv, Fits, Alive, TokenFitsDevice, Verified
<1> HIDE DEF I
<1> QED
  BY <1>1, <1>2, <1>3, SpecTyped, SpecLone, PTL DEF Spec
=============================================================================
