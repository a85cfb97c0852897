----------------------------- MODULE PageProofs -----------------------------
(***************************************************************************)
(* What holds of the page whatever its data: of the reminders of payments, *)
(* for any users, payments and calls of the server, while full syncs come  *)
(* in between; and of the forecasts of any regions.                        *)
(***************************************************************************)
EXTENDS FullSync, Weather, FiniteSetTheorems, TLAPS

\* The types, but for the bound on the timers, which takes a count of the
\* calls under way.
Shape ==
    /\ now \in 0 .. LastTick
    /\ seenDay \in Days
    /\ user \in Users \union {NoUser} /\ session \in Users \union {NoUser}
    /\ cached \subseteq Payments
    /\ timers \in [Payments -> [Labels -> Nat]]
    /\ notified \subseteq Kinds \X Payments
    /\ call \in [Calls -> {Idle} \union Listings]
    /\ dialog \in Dialogs
    /\ alone \in BOOLEAN /\ delivered \in BOOLEAN /\ troubled \in BOOLEAN
    /\ announced \subseteq Payments
    /\ sync \in Stages

LEMMA DaysOfTicks ==
    ASSUME NEW t \in 0 .. LastTick
    PROVE  DayOf(t) \in Days
BY RemindersAssumption DEF DayOf, Days

LEMMA InitShape == Init => Shape
<1> SUFFICES ASSUME Init PROVE Shape
  OBVIOUS
<1>1. 0 \in 0 .. LastTick /\ 0 \in Days
  <2>1. 0 \in 0 .. LastTick /\ DayOf(0) = 0
    BY RemindersAssumption DEF DayOf
  <2> QED
    BY <2>1, DaysOfTicks
<1>2. timers \in [Payments -> [Labels -> Nat]] /\ call \in [Calls -> {Idle} \union Listings]
  BY DEF Init, RemindersInit
<1>3. NoDialog \in Dialogs /\ "off" \in Stages
  BY DEF NoDialog, Dialogs, Waiting, Stages
<1> QED
  BY <1>1, <1>2, <1>3 DEF Init, RemindersInit, Shape

\* A dialog is put up, whichever it is.
LEMMA PutShape ==
    ASSUME Shape, NEW new \in Dialogs, Put(new)
    PROVE  /\ dialog' \in Dialogs
           /\ notified' \subseteq Kinds \X Payments
           /\ announced' \subseteq Payments
BY DEF Shape, Put, Announce, Dialogs

LEMMA ImmediateShape ==
    ASSUME Shape, NEW list \in SUBSET Payments, NEW day \in Days, NEW who \in Waiting,
           ShowImmediateNotifications(list, day, who)
    PROVE  /\ dialog' \in Dialogs
           /\ notified' \subseteq Kinds \X Payments
           /\ announced' \subseteq Payments
<1>1. CASE DueSoon(list, day) = {}
  BY <1>1 DEF ShowImmediateNotifications, Shape
<1>2. CASE DueSoon(list, day) # {}
  <2>1. DueSoon(list, day) \subseteq Kinds \X Payments
    BY DEF DueSoon
  <2>2. [what |-> "list", keys |-> DueSoon(list, day), for |-> who] \in Dialogs
    BY <2>1 DEF Dialogs, Waiting
  <2> QED
    BY <1>2, <2>2, PutShape DEF ShowImmediateNotifications
<1> QED
  BY <1>1, <1>2

\* A reschedule leaves no timers and at most one more call.
LEMMA RescheduleShape ==
    ASSUME Shape, NEW c \in Calls, NEW u, NEW immediate \in BOOLEAN, NEW who \in Waiting,
           Reschedule(c, u, immediate, who)
    PROVE  /\ timers' \in [Payments -> [Labels -> Nat]]
           /\ notified' \subseteq Kinds \X Payments
           /\ call' \in [Calls -> {Idle} \union Listings]
           /\ alone' \in BOOLEAN /\ delivered' \in BOOLEAN
<1>1. Asked(immediate, who) \in Listings
  BY DEF Asked, Listings
<1> QED
  BY <1>1 DEF Reschedule, Shape, Quiet

LEMMA OtherDialogs == [NoDialog EXCEPT !.what = "other"] \in Dialogs /\ NoDialog \in Dialogs
    /\ [NoDialog EXCEPT !.what = "timer"] \in Dialogs
BY DEF NoDialog, Dialogs, Waiting

\* The lists a call may bring.
LEMMA ListShape ==
    ASSUME Shape, NEW c \in Calls, call[c].at = "read"
    PROVE  /\ call[c].list \in SUBSET Payments
           /\ call[c].immediate \in BOOLEAN
           /\ call[c].for \in Waiting
BY DEF Shape, Idle, Listings

LEMMA ReminderStepShape ==
    ASSUME Shape, RemindersNext, UNCHANGED sync
    PROVE  Shape'
<1> USE RemindersAssumption
<1>1. ASSUME NEW c \in Calls, EveryHour(c) \/ RescheduleNow(c) \/ DateChanged(c)
      PROVE  Shape'
  <2>1. \E immediate \in BOOLEAN : Reschedule(c, user, immediate, "page")
    BY <1>1 DEF EveryHour, RescheduleNow, DateChanged
  <2>2. DayOf(now) \in Days
    BY DaysOfTicks DEF Shape
  <2>3. /\ timers' \in [Payments -> [Labels -> Nat]]
        /\ notified' \subseteq Kinds \X Payments
        /\ call' \in [Calls -> {Idle} \union Listings]
        /\ alone' \in BOOLEAN /\ delivered' \in BOOLEAN
    BY <2>1, RescheduleShape DEF Waiting
  <2> QED
    BY <1>1, <2>2, <2>3 DEF Shape, EveryHour, RescheduleNow, DateChanged
<1>2. ASSUME NEW c \in Calls, NEW u \in Users, Login(c, u)
      PROVE  Shape'
  <2>1. Reschedule(c, u, TRUE, "page")
    BY <1>2 DEF Login
  <2>2. /\ timers' \in [Payments -> [Labels -> Nat]]
        /\ notified' \subseteq Kinds \X Payments
        /\ call' \in [Calls -> {Idle} \union Listings]
        /\ alone' \in BOOLEAN /\ delivered' \in BOOLEAN
    BY <2>1, RescheduleShape DEF Waiting
  <2> QED
    BY <1>2, <2>2 DEF Shape, Login, Trouble
<1>3. ASSUME NEW c \in Calls, AnswerUpcoming(c)
      PROVE  Shape'
  <2>1. [at |-> "read", immediate |-> call[c].immediate, for |-> call[c].for,
         list |-> Upcoming(session)] \in Listings
    BY <1>3 DEF AnswerUpcoming, Shape, Idle, Listings, Upcoming
  <2> QED
    BY <1>3, <2>1 DEF AnswerUpcoming, Shape
<1>4. ASSUME NEW c \in Calls, Deliver(c)
      PROVE  Shape'
  <2>1. /\ call[c].list \in SUBSET Payments
        /\ call[c].for \in Waiting
    BY <1>4, ListShape DEF Deliver
  <2>2. DayOf(now) \in Days
    BY DaysOfTicks DEF Shape
  <2>3. /\ dialog' \in Dialogs
        /\ notified' \subseteq Kinds \X Payments
        /\ announced' \subseteq Payments
    <3>1. CASE call[c].immediate
      BY <1>4, <2>1, <2>2, <3>1, ImmediateShape DEF Deliver
    <3>2. CASE ~call[c].immediate
      BY <1>4, <3>2 DEF Deliver, Shape
    <3> QED
      BY <3>1, <3>2
  <2>4. timers' \in [Payments -> [Labels -> Nat]]
    BY <1>4 DEF Deliver, SetTimers, Shape
  <2> QED
    BY <1>4, <2>1, <2>3, <2>4 DEF Deliver, Shape
<1>5. ASSUME NEW c \in Calls, FailUpcoming(c)
      PROVE  Shape'
  BY <1>5 DEF FailUpcoming, Trouble, Shape
<1>6. ASSUME NEW p \in Payments, NEW label \in Labels, TimerFires(p, label)
      PROVE  Shape'
  <2>1. timers' \in [Payments -> [Labels -> Nat]]
    BY <1>6 DEF TimerFires, Shape
  <2>2. notified' \subseteq Kinds \X Payments /\ announced' \subseteq Payments
    BY <1>6 DEF TimerFires, Announce, Shape, Dialogs
  <2> QED
    BY <1>6, <2>1, <2>2, OtherDialogs DEF TimerFires, Shape
<1>7. ASSUME NEW day \in Days, ScheduleRendered(day)
      PROVE  Shape'
  <2>1. cached \in SUBSET Payments
    BY DEF Shape
  <2> QED
    BY <1>7, <2>1, ImmediateShape DEF ScheduleRendered, Shape, Waiting
<1>8. CASE CloseDialog
  BY <1>8, PutShape, OtherDialogs DEF CloseDialog, Shape
<1>9. CASE OtherDialog
  BY <1>9, PutShape, OtherDialogs DEF OtherDialog, Shape
<1>10. CASE Logout
  BY <1>10 DEF Logout, Trouble, Shape
<1>11. CASE Tick
  <2>1. now' \in 0 .. LastTick
    BY <1>11 DEF Tick, Shape
  <2>2. troubled' \in BOOLEAN /\ announced' \subseteq Payments
    <3>1. Trouble \/ UNCHANGED <<announced, troubled>>
      BY <1>11 DEF Tick
    <3> QED
      BY <3>1 DEF Trouble, Shape
  <2> QED
    BY <1>11, <2>1, <2>2 DEF Tick, Shape
<1> QED
  BY <1>1, <1>2, <1>3, <1>4, <1>5, <1>6, <1>7, <1>8, <1>9, <1>10, <1>11 DEF RemindersNext

\* The stages in their order.
LEMMA TasksInOrder ==
    /\ DOMAIN Tasks = 1 .. 6
    /\ Tasks[1] = "schedules" /\ Tasks[2] = "subscriptions" /\ Tasks[3] = "calendar"
    /\ Tasks[4] = "notifications" /\ Tasks[5] = "awaiting" /\ Tasks[6] = "result"
BY DEF Tasks

LEMMA AfterTask ==
    ASSUME NEW i \in 1 .. 5
    PROVE  After(Tasks[i]) = Tasks[i + 1]
<1>1. \A j \in 1 .. 6 : Tasks[j] = Tasks[i] => j = i
  BY TasksInOrder
<1>2. (CHOOSE j \in DOMAIN Tasks : Tasks[j] = Tasks[i]) = i
  BY <1>1, TasksInOrder
<1>3. After(Tasks[i]) = Tasks[1 + i]
  BY <1>2, Zenon DEF After
<1> QED
  BY <1>3

LEMMA AfterStage ==
    ASSUME sync \in {"schedules", "subscriptions", "calendar", "notifications", "awaiting"}
    PROVE  After(sync) \in Stages
<1>1. PICK i \in 1 .. 5 : sync = Tasks[i]
  BY TasksInOrder
<1>2. After(sync) = Tasks[i + 1] /\ i + 1 \in DOMAIN Tasks
  BY <1>1, AfterTask, TasksInOrder
<1> QED
  BY <1>2 DEF Stages

LEMMA SyncStepShape ==
    ASSUME Shape, Sync
    PROVE  Shape'
<1>1. sync' \in Stages
  <2>1. CASE StartSync
    BY <2>1, TasksInOrder DEF StartSync, Stages
  <2>2. CASE EndSync
    BY <2>2 DEF EndSync, Stages
  <2>3. CASE ShowResult \/ (\E day \in Days : EndDrawing(day)) \/ \E c \in Calls : StartNotifications(c)
    BY <2>3, AfterStage DEF ShowResult, EndDrawing, StartNotifications, Drawing
  <2> QED
    BY <2>1, <2>2, <2>3 DEF Sync
<1>2. ASSUME NEW new \in Dialogs, Put(new), UNCHANGED <<unchangedBySync, timers, call, alone>>
      PROVE  Shape'
  BY <1>1, <1>2, PutShape DEF Shape, unchangedBySync
<1>3. CASE StartSync \/ EndSync
  BY <1>2, <1>3, OtherDialogs DEF StartSync, EndSync
<1>4. CASE ShowResult
  <2>1. [what |-> "other", keys |-> {}, for |-> "sync"] \in Dialogs
    BY DEF Dialogs, Waiting
  <2> QED
    BY <1>2, <1>4, <2>1 DEF ShowResult
<1>5. ASSUME NEW day \in Days, EndDrawing(day)
      PROVE  Shape'
  <2>1. cached \in SUBSET Payments
    BY DEF Shape
  <2> QED
    BY <1>1, <1>5, <2>1, ImmediateShape DEF EndDrawing, Shape, Waiting, unchangedBySync
<1>6. ASSUME NEW c \in Calls, StartNotifications(c)
      PROVE  Shape'
  BY <1>1, <1>6, RescheduleShape DEF StartNotifications, Shape, Waiting
<1> QED
  BY <1>3, <1>4, <1>5, <1>6 DEF Sync

-----------------------------------------------------------------------------
\* A call that comes back brings at most one timer of a kind, so that timers
\* and calls together stay as many as there may be calls.
Room ==
    \A p \in Payments, label \in Labels :
        timers[p][label] + Cardinality(InFlight) <= Cardinality(Calls)

\* While a reschedule is alone there is no other call; until its list has come
\* there is no timer, and then there is no call.
Alone ==
    alone =>
        /\ \A c, d \in InFlight : c = d
        /\ delivered => InFlight = {}
        /\ ~delivered => \A p \in Payments, label \in Labels : timers[p][label] = 0
        /\ OneTimerEach

\* The list that it will bring is of the user who is logged in.
Own ==
    /\ user # NoUser => session = user
    /\ alone /\ user # NoUser =>
          \A c \in Calls : call[c].at = "read" => \A p \in call[c].list : Owner[p] = user
    /\ OwnReminders

IInv == Shape /\ Room /\ Alone /\ Own

\* What the three say of a state depends on these variables alone.
Still == UNCHANGED <<now, user, session, cached, timers, call, alone, delivered>>

LEMMA StillKeeps ==
    ASSUME IInv, Still
    PROVE  Room' /\ Alone' /\ Own'
BY DEF IInv, Still, Room, Alone, Own, OneTimerEach, OwnReminders, InFlight

LEMMA RescheduleKeeps ==
    ASSUME IInv, NEW c \in Calls, NEW u, NEW immediate \in BOOLEAN, NEW who \in Waiting,
           Reschedule(c, u, immediate, who), user' = u, user' # NoUser => session' = user'
    PROVE  Room' /\ Alone' /\ Own'
<1> DEFINE asked == Asked(immediate, who)
<1>1. asked # Idle /\ asked.at = "asked"
  BY DEF Asked, Idle
<1>2. \A p \in Payments, label \in Labels : timers'[p][label] = 0
  BY DEF Reschedule
<1>3. ~delivered'
  BY DEF Reschedule
<1>4. InFlight' \subseteq InFlight \union {c}
  BY DEF Reschedule, InFlight, IInv, Shape
<1>5. Room'
  <2>1. InFlight' \in SUBSET Calls
    BY DEF InFlight
  <2>2. Cardinality(InFlight') <= Cardinality(Calls) /\ Cardinality(InFlight') \in Nat
    BY <2>1, FS_Subset, FS_CardinalityType, RemindersAssumption
  <2> QED
    BY <1>2, <2>2 DEF Room
<1>6. alone' => InFlight = {}
  BY DEF Reschedule, Quiet
<1>7. Alone'
  BY <1>2, <1>3, <1>4, <1>6 DEF Alone, OneTimerEach
<1>8. alone' => \A d \in Calls : call'[d].at # "read"
  <2>1. \A d \in Calls : call'[d] = call[d] \/ call'[d] = asked
    BY DEF Reschedule, IInv, Shape
  <2> QED
    BY <1>1, <1>6, <2>1 DEF InFlight, Idle
<1> QED
  BY <1>3, <1>5, <1>7, <1>8 DEF Own, OwnReminders

LEMMA TickKeeps ==
    ASSUME IInv, Tick
    PROVE  Room' /\ Alone' /\ Own'
<1>1. now \in Int /\ now' = now + 1
  BY DEF Tick, IInv, Shape
<1>2. \A p \in Payments, label \in Labels : TimerAt(p, label) \in Int
  BY RemindersAssumption DEF TimerAt, Due
<1>3. Alone'
  BY <1>1, <1>2 DEF Tick, IInv, Alone, OneTimerEach, InFlight
<1>4. Room' /\ Own'
  BY DEF Tick, IInv, Room, Own, OwnReminders, InFlight
<1> QED
  BY <1>3, <1>4

LEMMA LogoutKeeps ==
    ASSUME IInv, Logout
    PROVE  Room' /\ Alone' /\ Own'
BY DEF Logout, IInv, Room, Alone, Own, OneTimerEach, OwnReminders, InFlight

LEMMA AnswerKeeps ==
    ASSUME IInv, NEW c \in Calls, AnswerUpcoming(c)
    PROVE  Room' /\ Alone' /\ Own'
<1>1. call'[c].at = "read" /\ call'[c].list = Upcoming(session) /\ call'[c] # Idle
  BY DEF AnswerUpcoming, IInv, Shape, Idle
<1>2. call[c] # Idle
  BY DEF AnswerUpcoming, Idle
<1>3. InFlight' = InFlight
  BY <1>1, <1>2 DEF AnswerUpcoming, InFlight, IInv, Shape
<1>4. Room' /\ Alone'
  BY <1>3 DEF AnswerUpcoming, IInv, Room, Alone, OneTimerEach
<1>5. user # NoUser => \A p \in call'[c].list : Owner[p] = user
  BY <1>1 DEF Upcoming, IInv, Own
<1>6. \A d \in Calls \ {c} : call'[d] = call[d]
  BY DEF AnswerUpcoming
<1> QED
  BY <1>4, <1>5, <1>6 DEF AnswerUpcoming, IInv, Own, OwnReminders

\* A call has come back, with or without its list.
LEMMA CallOver ==
    ASSUME IInv, NEW c \in Calls, call[c] # Idle, call' = [call EXCEPT ![c] = Idle]
    PROVE  /\ InFlight' = InFlight \ {c}
           /\ Cardinality(InFlight') = Cardinality(InFlight) - 1
           /\ Cardinality(InFlight) \in Nat
           /\ \A d \in Calls \ {c} : call'[d] = call[d]
           /\ call'[c].at = "idle"
<1>1. InFlight \in SUBSET Calls /\ c \in InFlight
  BY DEF InFlight
<1>2. InFlight' = InFlight \ {c}
  BY DEF InFlight, IInv, Shape
<1>3. IsFiniteSet(InFlight) /\ Cardinality(InFlight) \in Nat
  BY <1>1, FS_Subset, FS_CardinalityType, RemindersAssumption
<1>4. Cardinality(InFlight \ {c}) = Cardinality(InFlight) - 1
  BY <1>1, <1>3, FS_RemoveElement
<1> QED
  BY <1>2, <1>3, <1>4 DEF IInv, Shape, Idle

LEMMA FailKeeps ==
    ASSUME IInv, NEW c \in Calls, FailUpcoming(c)
    PROVE  Room' /\ Alone' /\ Own'
<1>1. call[c] # Idle /\ call' = [call EXCEPT ![c] = Idle]
  BY DEF FailUpcoming
<1>2. /\ InFlight' = InFlight \ {c}
      /\ Cardinality(InFlight') = Cardinality(InFlight) - 1
      /\ Cardinality(InFlight) \in Nat
      /\ \A d \in Calls \ {c} : call'[d] = call[d]
      /\ call'[c].at = "idle"
  BY <1>1, CallOver
<1>3. UNCHANGED <<now, user, session, cached, timers, alone, delivered>>
  BY DEF FailUpcoming
<1>4. Cardinality(Calls) \in Nat
  BY FS_CardinalityType, RemindersAssumption
<1>5. Room'
  <2>1. \A p \in Payments, label \in Labels : timers[p][label] \in Nat
    BY DEF IInv, Shape
  <2> QED
    BY <1>3, <1>4, <1>2, <2>1 DEF IInv, Room
<1>6. Alone'
  BY <1>3, <1>2 DEF IInv, Alone, OneTimerEach
<1>7. Own'
  BY <1>3, <1>2 DEF IInv, Own, OwnReminders
<1> QED
  BY <1>5, <1>6, <1>7

LEMMA DeliverKeeps ==
    ASSUME IInv, NEW c \in Calls, Deliver(c)
    PROVE  Room' /\ Alone' /\ Own'
<1> DEFINE list == call[c].list
           comes(p, label) == IF p \in list /\ now < TimerAt(p, label) THEN 1 ELSE 0
<1>1. call[c] # Idle /\ call' = [call EXCEPT ![c] = Idle] /\ call[c].at = "read"
  BY DEF Deliver, Idle
<1>2. /\ InFlight' = InFlight \ {c}
      /\ Cardinality(InFlight') = Cardinality(InFlight) - 1
      /\ Cardinality(InFlight) \in Nat
      /\ \A d \in Calls \ {c} : call'[d] = call[d]
      /\ call'[c].at = "idle"
  BY <1>1, CallOver
<1>3. UNCHANGED <<now, user, session, alone>> /\ cached' = list /\ delivered'
  BY DEF Deliver
<1>4. \A p \in Payments, label \in Labels :
          /\ timers'[p][label] = timers[p][label] + comes(p, label)
          /\ timers[p][label] \in Nat
  BY DEF Deliver, SetTimers, IInv, Shape
<1>5. Cardinality(Calls) \in Nat
  BY FS_CardinalityType, RemindersAssumption
<1>6. Room'
  <2> SUFFICES ASSUME NEW p \in Payments, NEW label \in Labels
               PROVE  timers'[p][label] + Cardinality(InFlight') <= Cardinality(Calls)
    BY DEF Room
  <2>1. comes(p, label) \in 0 .. 1
    OBVIOUS
  <2>2. timers[p][label] + Cardinality(InFlight) <= Cardinality(Calls)
    BY DEF IInv, Room
  <2> HIDE DEF comes
  <2> QED
    BY <1>4, <1>5, <1>2, <2>1, <2>2
<1>7. ASSUME alone
      PROVE  /\ InFlight' = {}
             /\ \A p \in Payments, label \in Labels : timers'[p][label] = comes(p, label)
  <2>1. InFlight = {c}
    BY <1>1, <1>7 DEF IInv, Alone, InFlight
  <2>2. \A p \in Payments, label \in Labels : timers[p][label] = 0
    BY <1>7, <2>1 DEF IInv, Alone
  <2>3. \A p \in Payments, label \in Labels : comes(p, label) \in 0 .. 1
    OBVIOUS
  <2> HIDE DEF comes
  <2> QED
    BY <1>4, <1>2, <2>1, <2>2, <2>3
<1>8. Alone'
  BY <1>3, <1>7 DEF Alone, OneTimerEach
<1>9. alone /\ user # NoUser => \A p \in list : Owner[p] = user
  BY <1>1 DEF IInv, Own
<1>10. Own'
  <2>1. user' # NoUser => session' = user'
    BY <1>3 DEF IInv, Own
  <2>2. OwnReminders'
    BY <1>3, <1>7, <1>9 DEF OwnReminders
  <2>3. alone' => \A d \in Calls : call'[d].at # "read"
    BY <1>3, <1>7, <1>2 DEF InFlight, Idle
  <2> QED
    BY <2>1, <2>2, <2>3 DEF Own
<1> QED
  BY <1>6, <1>8, <1>10

LEMMA TimerKeeps ==
    ASSUME IInv, NEW p \in Payments, NEW label \in Labels, TimerFires(p, label)
    PROVE  Room' /\ Alone' /\ Own'
<1>1. /\ timers[p][label] \in Nat /\ timers[p][label] > 0
      /\ timers'[p][label] = timers[p][label] - 1
      /\ now >= TimerAt(p, label)
      /\ \A q \in Payments, other \in Labels :
            <<q, other>> # <<p, label>> => timers'[q][other] = timers[q][other]
  BY DEF TimerFires, IInv, Shape
<1>2. UNCHANGED <<now, user, session, cached, call, alone, delivered>> /\ InFlight' = InFlight
  BY DEF TimerFires, InFlight
<1>3. Cardinality(Calls) \in Nat /\ Cardinality(InFlight) \in Nat
  <2>1. InFlight \in SUBSET Calls
    BY DEF InFlight
  <2> QED
    BY <2>1, FS_Subset, FS_CardinalityType, RemindersAssumption
<1>4. \A q \in Payments, other \in Labels :
          /\ timers[q][other] \in Nat /\ timers'[q][other] \in Nat
          /\ timers'[q][other] <= timers[q][other]
          /\ timers'[q][other] # timers[q][other] => now >= TimerAt(q, other)
          /\ TimerAt(q, other) \in Int /\ now \in Int
  BY <1>1, RemindersAssumption DEF IInv, Shape, TimerAt, Due
<1>5. Room'
  BY <1>2, <1>3, <1>4 DEF IInv, Room
<1>6. OneTimerEach'
  <2> SUFFICES ASSUME alone, NEW q \in Payments, NEW other \in Labels
               PROVE  /\ timers'[q][other] <= 1
                      /\ delivered /\ q \in cached /\ now < TimerAt(q, other)
                            => timers'[q][other] = 1
    BY <1>2 DEF OneTimerEach, TimerAt, Due
  <2> QED
    BY <1>4 DEF IInv, Alone, OneTimerEach
<1>7. Alone'
  BY <1>2, <1>4, <1>6 DEF IInv, Alone
<1>8. Own'
  BY <1>2, <1>4 DEF IInv, Own, OwnReminders
<1> QED
  BY <1>5, <1>7, <1>8

-----------------------------------------------------------------------------
LEMMA InitIInv == Init => IInv
<1> SUFFICES ASSUME Init PROVE IInv
  OBVIOUS
<1>1. InFlight = {} /\ (\A c \in Calls : call[c].at = "idle")
  BY DEF Init, RemindersInit, InFlight, Idle
<1>2. \A p \in Payments, label \in Labels : timers[p][label] = 0
  BY DEF Init, RemindersInit
<1>3. Cardinality(Calls) \in Nat /\ Cardinality({}) = 0
  BY FS_CardinalityType, FS_EmptySet, RemindersAssumption
<1>4. Room
  BY <1>1, <1>2, <1>3 DEF Room
<1>5. Alone /\ Own
  BY <1>1, <1>2 DEF Init, RemindersInit, Alone, Own, OneTimerEach, OwnReminders
<1> QED
  BY <1>4, <1>5, InitShape DEF IInv

LEMMA ReminderStepKeeps ==
    ASSUME IInv, RemindersNext, UNCHANGED sync
    PROVE  Room' /\ Alone' /\ Own'
<1>1. user # NoUser => session = user
  BY DEF IInv, Own
<1>2. ASSUME NEW c \in Calls, EveryHour(c) \/ RescheduleNow(c) \/ DateChanged(c)
      PROVE  Room' /\ Alone' /\ Own'
  <2>1. /\ \E immediate \in BOOLEAN : Reschedule(c, user, immediate, "page")
        /\ user' = user /\ session' = session
    BY <1>2 DEF EveryHour, RescheduleNow, DateChanged
  <2> QED
    BY <1>1, <2>1, RescheduleKeeps DEF Waiting
<1>3. ASSUME NEW c \in Calls, NEW u \in Users, Login(c, u)
      PROVE  Room' /\ Alone' /\ Own'
  BY <1>3, RescheduleKeeps DEF Login, Waiting
<1>4. CASE (\E day \in Days : ScheduleRendered(day)) \/ CloseDialog \/ OtherDialog
  <2>1. Still
    BY <1>4 DEF ScheduleRendered, CloseDialog, OtherDialog, Still
  <2> QED
    BY <2>1, StillKeeps
<1> QED
  BY <1>2, <1>3, <1>4, AnswerKeeps, DeliverKeeps, FailKeeps, TimerKeeps, LogoutKeeps, TickKeeps
     DEF RemindersNext

LEMMA SyncStepKeeps ==
    ASSUME IInv, Sync
    PROVE  Room' /\ Alone' /\ Own'
<1>1. ASSUME NEW c \in Calls, StartNotifications(c)
      PROVE  Room' /\ Alone' /\ Own'
  <2>1. Reschedule(c, user, TRUE, "sync") /\ user' = user /\ session' = session
    BY <1>1 DEF StartNotifications
  <2>2. user # NoUser => session = user
    BY DEF IInv, Own
  <2> QED
    BY <2>1, <2>2, RescheduleKeeps DEF Waiting
<1>2. CASE StartSync \/ ShowResult \/ EndSync \/ \E day \in Days : EndDrawing(day)
  <2>1. Still
    BY <1>2 DEF StartSync, ShowResult, EndSync, EndDrawing, unchangedBySync, Still
  <2> QED
    BY <2>1, StillKeeps
<1> QED
  BY <1>1, <1>2 DEF Sync

LEMMA StepIInv == IInv /\ [Next]_vars => IInv'
<1> SUFFICES ASSUME IInv, [Next]_vars PROVE IInv'
  OBVIOUS
<1>1. Shape
  BY DEF IInv
<1>2. CASE RemindersNext /\ UNCHANGED sync
  BY <1>1, <1>2, ReminderStepShape, ReminderStepKeeps DEF IInv
<1>3. CASE Sync
  BY <1>1, <1>3, SyncStepShape, SyncStepKeeps DEF IInv
<1>4. CASE UNCHANGED vars
  <2>1. Shape'
    BY <1>1, <1>4 DEF vars, reminderVars, Shape
  <2>2. Still
    BY <1>4 DEF vars, reminderVars, Still
  <2> QED
    BY <2>1, <2>2, StillKeeps DEF IInv
<1> QED
  BY <1>2, <1>3, <1>4 DEF Next

LEMMA SpecIInv == Spec => []IInv
BY InitIInv, StepIInv, PTL DEF Spec

\* The types, and with them: a payment never has more timers of a kind than
\* there may be calls of /api/subscriptions/upcoming at once, whatever fails
\* and however reschedules overlap (notificationTimers).
THEOREM TimersBounded == Spec => []SyncTypeOK
<1>1. IInv => SyncTypeOK
  <2> SUFFICES ASSUME IInv PROVE SyncTypeOK
    OBVIOUS
  <2>1. Cardinality(InFlight) \in Nat /\ Cardinality(Calls) \in Nat
    <3>1. InFlight \in SUBSET Calls
      BY DEF InFlight
    <3> QED
      BY <3>1, FS_Subset, FS_CardinalityType, RemindersAssumption
  <2>2. timers \in [Payments -> [Labels -> 0 .. Cardinality(Calls)]]
    <3>1. \A p \in Payments, label \in Labels : timers[p][label] \in 0 .. Cardinality(Calls)
      BY <2>1 DEF IInv, Room, Shape
    <3> QED
      BY <3>1 DEF IInv, Shape
  <2> QED
    BY <2>2 DEF IInv, Shape, SyncTypeOK, TypeOK
<1> QED
  BY <1>1, SpecIInv, PTL

\* If the last reschedule began while no other one was waiting, each payment
\* has at most one timer for each reminder, and exactly one for those still to
\* come once the list has arrived (clearNotificationTimers, scheduleReminder).
THEOREM RescheduleAloneSetsOneTimerEach == Spec => []OneTimerEach
<1>1. IInv => OneTimerEach
  BY DEF IInv, Alone, OneTimerEach
<1> QED
  BY <1>1, SpecIInv, PTL

\* Nobody who is logged in is reminded of the payments of another, if the last
\* reschedule was alone (saveLoginState, logout, scheduleNotifications).
THEOREM RescheduleAloneIsOwn == Spec => []OwnReminders
<1>1. IInv => OwnReminders
  BY DEF IInv, Own
<1> QED
  BY <1>1, SpecIInv, PTL

\* Whoever waits for a list dialog is whoever asked for the list.
LEMMA ListWaits ==
    ASSUME NEW list, NEW day, NEW who, ShowImmediateNotifications(list, day, who)
    PROVE  dialog'.for \in {dialog.for, who}
<1>1. CASE DueSoon(list, day) = {}
  BY <1>1 DEF ShowImmediateNotifications
<1>2. CASE DueSoon(list, day) # {}
  BY <1>2 DEF ShowImmediateNotifications, Put
<1> QED
  BY <1>1, <1>2

\* What the page does to a call: nothing, or it ends, begins or goes on.
PageCall(c) ==
    \/ call'[c] \in {Idle, call[c]}
    \/ call'[c].for = "page"
    \/ call[c] # Idle /\ call'[c].for = call[c].for

\* None of that concerns the sync, nor does a dialog of the page.
LEMMA PageKeepsOneSync ==
    ASSUME OneSyncAtATime, UNCHANGED sync, dialog'.for \in {dialog.for, "page"},
           \A c \in Calls : PageCall(c)
    PROVE  OneSyncAtATime'
BY DEF PageCall, OneSyncAtATime, InFlight

LEMMA ReminderStepOneSync ==
    ASSUME Shape, OneSyncAtATime, RemindersNext, UNCHANGED sync
    PROVE  OneSyncAtATime'
<1>0. call \in [Calls -> {Idle} \union Listings]
  BY DEF Shape
<1>1. ASSUME NEW c \in Calls, NEW u, NEW immediate, Reschedule(c, u, immediate, "page"),
             UNCHANGED dialog
      PROVE  OneSyncAtATime'
  <2>1. Asked(immediate, "page").for = "page"
    BY DEF Asked
  <2>2. \A d \in Calls : call'[d] = call[d] \/ call'[d] = Asked(immediate, "page")
    BY <1>0, <1>1 DEF Reschedule
  <2>3. \A d \in Calls : PageCall(d)
    BY <2>1, <2>2 DEF PageCall
  <2> QED
    BY <1>1, <2>3, PageKeepsOneSync
<1>2. ASSUME NEW c \in Calls, EveryHour(c) \/ RescheduleNow(c) \/ DateChanged(c)
                              \/ \E u \in Users : Login(c, u)
      PROVE  OneSyncAtATime'
  BY <1>1, <1>2 DEF EveryHour, RescheduleNow, DateChanged, Login
<1>3. ASSUME NEW c \in Calls, AnswerUpcoming(c) PROVE OneSyncAtATime'
  <2> DEFINE answer == [at |-> "read", immediate |-> call[c].immediate, for |-> call[c].for,
                        list |-> Upcoming(session)]
  <2>1. call[c] # Idle
    BY <1>3 DEF AnswerUpcoming, Idle
  <2>2. \A d \in Calls : call'[d] = IF d = c THEN answer ELSE call[d]
    BY <1>0, <1>3 DEF AnswerUpcoming
  <2>3. UNCHANGED dialog /\ answer.for = call[c].for
    BY <1>3 DEF AnswerUpcoming
  <2> HIDE DEF answer
  <2>4. \A d \in Calls : PageCall(d)
    BY <2>1, <2>2, <2>3 DEF PageCall
  <2> QED
    BY <2>3, <2>4, PageKeepsOneSync
<1>4. ASSUME NEW c \in Calls, Deliver(c) PROVE OneSyncAtATime'
  <2>1. /\ call[c] # Idle /\ call[c].for \in Waiting
        /\ \A d \in Calls : call'[d] = IF d = c THEN Idle ELSE call[d]
    BY <1>0, <1>4, ListShape DEF Deliver, Idle
  <2>2. dialog'.for \in {dialog.for, call[c].for}
    BY <1>4, ListWaits DEF Deliver
  <2>3. CASE call[c].for = "page"
    <3>1. \A d \in Calls : PageCall(d)
      BY <2>1 DEF PageCall
    <3> QED
      BY <2>2, <2>3, <3>1, PageKeepsOneSync
  <2>4. CASE call[c].for = "sync"
    <3>1. sync = "awaiting"
      BY <2>1, <2>4 DEF OneSyncAtATime, InFlight
    <3> QED
      BY <2>1, <3>1 DEF OneSyncAtATime, InFlight
  <2> QED
    BY <2>1, <2>3, <2>4 DEF Waiting
<1>5. ASSUME NEW c \in Calls, FailUpcoming(c) PROVE OneSyncAtATime'
  <2>1. \A d \in Calls : call'[d] = IF d = c THEN Idle ELSE call[d]
    BY <1>0, <1>5 DEF FailUpcoming
  <2>2. \A d \in Calls : PageCall(d)
    BY <2>1 DEF PageCall
  <2> QED
    BY <1>5, <2>2, PageKeepsOneSync DEF FailUpcoming
<1>6. CASE \/ CloseDialog \/ OtherDialog \/ Logout \/ Tick
           \/ (\E p \in Payments, label \in Labels : TimerFires(p, label))
           \/ (\E day \in Days : ScheduleRendered(day))
  <2>1. UNCHANGED call
    BY <1>6 DEF CloseDialog, OtherDialog, Logout, Tick, TimerFires, ScheduleRendered
  <2>2. /\ NoDialog.for = "page" /\ [NoDialog EXCEPT !.what = "other"].for = "page"
        /\ [NoDialog EXCEPT !.what = "timer"].for = "page"
    BY DEF NoDialog
  <2>3. dialog'.for \in {dialog.for, "page"}
    <3>1. CASE \E day \in Days : ScheduleRendered(day)
      BY <3>1, ListWaits DEF ScheduleRendered
    <3>2. CASE CloseDialog \/ OtherDialog \/ Logout \/ Tick
      BY <2>2, <3>2 DEF CloseDialog, OtherDialog, Logout, Tick, Put
    <3>3. CASE \E p \in Payments, label \in Labels : TimerFires(p, label)
      BY <2>2, <3>3 DEF TimerFires
    <3> QED
      BY <1>6, <3>1, <3>2, <3>3
  <2> QED
    BY <2>1, <2>3, PageKeepsOneSync DEF PageCall
<1> QED
  BY <1>2, <1>3, <1>4, <1>5, <1>6 DEF RemindersNext

LEMMA SyncStepOneSync ==
    ASSUME Shape, OneSyncAtATime, Sync
    PROVE  OneSyncAtATime'
<1>0. call \in [Calls -> {Idle} \union Listings]
  BY DEF Shape
<1>1. sync # "awaiting" => \A c \in InFlight : call[c].for # "sync"
  BY DEF OneSyncAtATime
<1>2. CASE StartSync
  BY <1>1, <1>2 DEF StartSync, OneSyncAtATime, InFlight, Put, NoDialog
<1>3. CASE ShowResult
  <2>1. sync' = "result" /\ UNCHANGED call
    BY <1>3, AfterTask, TasksInOrder DEF ShowResult
  <2> QED
    BY <1>3, <2>1 DEF ShowResult, OneSyncAtATime, InFlight
<1>4. CASE EndSync
  BY <1>1, <1>4 DEF EndSync, OneSyncAtATime, InFlight, Put, NoDialog
<1>5. ASSUME NEW day \in Days, EndDrawing(day) PROVE OneSyncAtATime'
  <2>1. UNCHANGED call /\ sync \in Drawing
    BY <1>5 DEF EndDrawing
  <2>2. dialog'.for \in {dialog.for, "page"} /\ dialog.for # "sync"
    BY <1>5, <2>1, ListWaits DEF EndDrawing, OneSyncAtATime, Drawing
  <2> QED
    BY <1>1, <2>1, <2>2 DEF OneSyncAtATime, InFlight, Drawing
<1>6. ASSUME NEW c \in Calls, StartNotifications(c) PROVE OneSyncAtATime'
  <2>1. sync = "notifications" /\ sync' = "awaiting" /\ UNCHANGED dialog
    BY <1>6, AfterTask, TasksInOrder DEF StartNotifications
  <2>2. \A d \in Calls : d # c => call'[d] = call[d]
    BY <1>0, <1>6 DEF StartNotifications, Reschedule
  <2> QED
    BY <1>1, <2>1, <2>2 DEF OneSyncAtATime, InFlight
<1> QED
  BY <1>2, <1>3, <1>4, <1>5, <1>6 DEF Sync

\* A full sync is over only when its call and its dialog are, and a second one
\* never waits for those of the first: for any users, payments and calls.
THEOREM SyncsDoNotMix == Spec => []OneSyncAtATime
<1>1. Init => OneSyncAtATime
  BY DEF Init, RemindersInit, OneSyncAtATime, InFlight, NoDialog
<1>2. Shape /\ OneSyncAtATime /\ [Next]_vars => OneSyncAtATime'
  <2> SUFFICES ASSUME Shape, OneSyncAtATime, [Next]_vars PROVE OneSyncAtATime'
    OBVIOUS
  <2>1. CASE UNCHANGED vars
    BY <2>1 DEF vars, reminderVars, OneSyncAtATime, InFlight
  <2> QED
    BY <2>1, ReminderStepOneSync, SyncStepOneSync DEF Next
<1>3. IInv => Shape
  BY DEF IInv
<1> QED
  BY <1>1, <1>2, <1>3, SpecIInv, PTL DEF Spec

-----------------------------------------------------------------------------
(***************************************************************************)
(* Announcements                                                           *)
(***************************************************************************)

\* The page knows no day that has not begun.
Behind == seenDay <= DayOf(now)

\* What counts as notified, or will when its dialog is gone, was announced.
KeysAnnounced ==
    ~troubled => \A p \in Payments :
        <<"tomorrow", p>> \in notified \union dialog.keys => p \in announced

\* A call that will announce p when it comes back.
Announcing(c, p) ==
    /\ call[c] # Idle /\ call[c].immediate
    /\ call[c].at = "read" => p \in call[c].list

\* From the day before its day on a payment is announced, but for the first
\* half of that day, in which the page has yet to see that the date changed or
\* waits for the list.
Warned(p) ==
    ~troubled /\ Owner[p] = user /\ now >= 2 * PayDay[p] - 2 =>
        \/ p \in announced
        \/ /\ now = 2 * PayDay[p] - 2
           /\ seenDay # DayOf(now) \/ \E c \in Calls : Announcing(c, p)

AnnounceInv == Behind /\ KeysAnnounced /\ \A p \in Payments : Warned(p)

LEMMA HalfDays ==
    /\ \A t \in Nat : DayOf(t) \in Nat /\ t \in {2 * DayOf(t), 2 * DayOf(t) + 1}
    /\ \A t \in Nat : DayOf(t) <= DayOf(t + 1)
    /\ \A d \in Nat : DayOf(2 * d) = d
BY DEF DayOf

LEMMA InitAnnounce ==
    ASSUME Init, \A p \in Payments : PayDay[p] >= 2
    PROVE  AnnounceInv
<1>1. Behind
  BY HalfDays DEF Init, RemindersInit, Behind
<1>2. KeysAnnounced
  BY DEF Init, RemindersInit, KeysAnnounced, NoDialog
<1>3. \A p \in Payments : Warned(p)
  BY RemindersAssumption DEF Init, RemindersInit, Warned
<1> QED
  BY <1>1, <1>2, <1>3 DEF AnnounceInv

\* A dialog takes the place of another: what it names is announced.
LEMMA PutAnnounces ==
    ASSUME AnnounceInv, NEW new, Put(new), troubled' = troubled
    PROVE  /\ KeysAnnounced'
           /\ ~troubled => announced \subseteq announced'
           /\ ~troubled => \A p \in Payments : <<"tomorrow", p>> \in new.keys => p \in announced'
BY DEF AnnounceInv, Put, Announce, KeysAnnounced

LEMMA ImmediateAnnounces ==
    ASSUME AnnounceInv, NEW list, NEW day, NEW who,
           ShowImmediateNotifications(list, day, who), troubled' = troubled
    PROVE  /\ KeysAnnounced'
           /\ ~troubled => announced \subseteq announced'
           /\ ~troubled => \A p \in Payments :
                 <<"tomorrow", p>> \in DueSoon(list, day) => p \in announced'
<1>1. CASE DueSoon(list, day) = {}
  BY <1>1 DEF ShowImmediateNotifications, AnnounceInv, KeysAnnounced
<1>2. CASE DueSoon(list, day) # {}
  BY <1>2, PutAnnounces DEF ShowImmediateNotifications
<1> QED
  BY <1>1, <1>2

\* A step of the page in which no call ends and no day is seen.
LEMMA CalmKeepsWarned ==
    ASSUME AnnounceInv, UNCHANGED <<now, user, seenDay, call, troubled>>,
           ~troubled => announced \subseteq announced'
    PROVE  Behind' /\ \A p \in Payments : Warned(p)'
BY DEF AnnounceInv, Behind, Warned, Announcing

\* Trouble excuses everything.
LEMMA TroubleExcuses ==
    ASSUME AnnounceInv, Trouble, UNCHANGED <<now, seenDay>>
    PROVE  AnnounceInv'
BY DEF AnnounceInv, Trouble, Behind, KeysAnnounced, Warned

\* A reschedule leaves other calls as they are; one that saw the new day asks
\* for the list of a user.
LEMMA RescheduleKeepsWarned ==
    ASSUME IInv, AnnounceInv, NEW c \in Calls, NEW immediate \in BOOLEAN, NEW who \in Waiting,
           Reschedule(c, user, immediate, who),
           UNCHANGED <<now, user, dialog, announced, troubled>>,
           \/ seenDay' = seenDay
           \/ seenDay' = DayOf(now) /\ immediate
    PROVE  AnnounceInv'
<1>1. Behind'
  <2>1. DayOf(now) \in Nat
    BY HalfDays DEF IInv, Shape
  <2> QED
    BY <2>1 DEF AnnounceInv, Behind
<1>2. KeysAnnounced'
  BY DEF Reschedule, AnnounceInv, KeysAnnounced
<1>3. ASSUME NEW p \in Payments PROVE Warned(p)'
  <2>1. \A d \in Calls : Announcing(d, p) => Announcing(d, p)'
    BY DEF Reschedule, IInv, Shape, Announcing
  <2>2. user # NoUser /\ immediate => Announcing(c, p)'
    BY DEF Reschedule, IInv, Shape, Announcing, Asked, Idle
  <2>3. Owner[p] = user => user # NoUser
    BY RemindersAssumption
  <2> QED
    BY <2>1, <2>2, <2>3 DEF AnnounceInv, Warned
<1> QED
  BY <1>1, <1>2, <1>3 DEF AnnounceInv

\* The list that the server reads the day before holds the payment.
LEMMA AnswerKeepsWarned ==
    ASSUME IInv, AnnounceInv, NEW c \in Calls, AnswerUpcoming(c)
    PROVE  AnnounceInv'
<1>1. Behind' /\ KeysAnnounced'
  BY DEF AnswerUpcoming, AnnounceInv, Behind, KeysAnnounced
<1>2. ASSUME NEW p \in Payments PROVE Warned(p)'
  <2> SUFFICES ASSUME ~troubled, Owner[p] = user, now = 2 * PayDay[p] - 2,
                      NEW d \in Calls, Announcing(d, p)
               PROVE  Announcing(d, p)'
    BY DEF AnswerUpcoming, AnnounceInv, Warned
  <2>1. p \in Upcoming(session)
    <3>1. user # NoUser /\ session = user
      BY RemindersAssumption DEF IInv, Own
    <3>2. PayDay[p] \in Nat
      BY RemindersAssumption
    <3> QED
      BY <3>1, <3>2 DEF Upcoming, Due
  <2>2. CASE d = c
    BY <2>1, <2>2 DEF AnswerUpcoming, IInv, Shape, Announcing, Idle
  <2>3. CASE d # c
    BY <2>3 DEF AnswerUpcoming, Announcing
  <2> QED
    BY <2>2, <2>3
<1> QED
  BY <1>1, <1>2 DEF AnnounceInv

LEMMA DeliverKeepsWarned ==
    ASSUME IInv, AnnounceInv, NEW c \in Calls, Deliver(c)
    PROVE  AnnounceInv'
<1> DEFINE list == call[c].list
           today == DayOf(now)
<1>1. /\ UNCHANGED <<now, seenDay, user, troubled>>
      /\ call' = [call EXCEPT ![c] = Idle] /\ call[c].at = "read"
      /\ call[c].immediate => ShowImmediateNotifications(list, today, call[c].for)
      /\ ~call[c].immediate => UNCHANGED <<dialog, notified, announced>>
  BY DEF Deliver
<1>2. /\ KeysAnnounced'
      /\ ~troubled => announced \subseteq announced'
      /\ ~troubled /\ call[c].immediate => \A p \in Payments :
            <<"tomorrow", p>> \in DueSoon(list, today) => p \in announced'
  <2>1. CASE call[c].immediate
    <3>1. ShowImmediateNotifications(list, today, call[c].for) /\ troubled' = troubled
      BY <1>1, <2>1
    <3> HIDE DEF list, today
    <3> QED
      BY <3>1, ImmediateAnnounces
  <2>2. CASE ~call[c].immediate
    BY <1>1, <2>2 DEF AnnounceInv, KeysAnnounced
  <2> QED
    BY <2>1, <2>2
<1>3. ASSUME NEW p \in Payments PROVE Warned(p)'
  <2> SUFFICES ASSUME ~troubled, Owner[p] = user, now = 2 * PayDay[p] - 2, p \notin announced',
                      NEW d \in Calls, Announcing(d, p)
               PROVE  Announcing(d, p)'
    BY <1>1, <1>2 DEF AnnounceInv, Warned
  <2>1. ASSUME d = c PROVE FALSE
    <3>1. call[c].immediate /\ p \in list
      BY <1>1, <2>1 DEF Announcing
    <3>2. <<"tomorrow", p>> \notin notified
      BY <1>2 DEF AnnounceInv, KeysAnnounced
    <3>3. PayDay[p] >= today /\ PayDay[p] - today = 1
      <4>1. PayDay[p] \in Nat /\ now \in Nat
        BY RemindersAssumption DEF IInv, Shape
      <4>2. now = 2 * (PayDay[p] - 1) /\ PayDay[p] - 1 \in Nat
        BY <4>1
      <4>3. today = PayDay[p] - 1
        BY <4>2, HalfDays
      <4> QED
        BY <4>1, <4>3
    <3>4. <<"tomorrow", p>> \in DueSoon(list, today)
      BY <3>1, <3>2, <3>3 DEF DueSoon, Kinds
    <3> QED
      BY <1>2, <3>1, <3>4
  <2>2. call'[d] = call[d]
    BY <1>1, <2>1
  <2> QED
    BY <2>2 DEF Announcing
<1>4. Behind'
  BY <1>1 DEF AnnounceInv, Behind
<1> QED
  BY <1>2, <1>3, <1>4 DEF AnnounceInv

LEMMA TimerKeepsWarned ==
    ASSUME AnnounceInv, NEW p \in Payments, NEW label \in Labels, TimerFires(p, label)
    PROVE  AnnounceInv'
<1>1. KeysAnnounced' /\ (~troubled => announced \subseteq announced')
  BY DEF TimerFires, AnnounceInv, KeysAnnounced, Announce, NoDialog
<1>2. UNCHANGED <<now, user, seenDay, call, troubled>>
  BY DEF TimerFires
<1> QED
  BY <1>1, <1>2, CalmKeepsWarned DEF AnnounceInv

LEMMA NextHalfDay ==
    ASSUME NEW d \in Nat, NEW t \in Nat, d >= 2
    PROVE  /\ t + 1 >= 2 * d - 2 /\ ~(t >= 2 * d - 2) => t + 1 = 2 * (d - 1)
           /\ t + 1 = 2 * (d - 1) => DayOf(t) # d - 1
           /\ d <= DayOf(t) => t >= 2 * d
  BY DEF DayOf

\* The half day before a payment's last day ends with the date seen and nothing
\* under way: the next one begins with a date to be seen, and the first half of
\* the last day ends with the announcement.
LEMMA TickKeepsWarned ==
    ASSUME IInv, AnnounceInv, Tick, \A p \in Payments : PayDay[p] >= 2
    PROVE  AnnounceInv'
<1>1. now \in Nat /\ now' = now + 1 /\ UNCHANGED <<seenDay, user, call, notified, dialog>>
  BY DEF Tick, IInv, Shape
<1>2. DayOf(now) \in Nat /\ DayOf(now') \in Nat /\ DayOf(now) <= DayOf(now') /\ seenDay \in Int
  BY <1>1, HalfDays DEF IInv, Shape, Days
<1>3. Behind'
  BY <1>1, <1>2 DEF AnnounceInv, Behind
<1>4. CASE Trouble
  BY <1>3, <1>4 DEF Trouble, AnnounceInv, KeysAnnounced, Warned
<1>5. CASE ~Trouble
  <2>1. InFlight = {} /\ seenDay = DayOf(now) /\ UNCHANGED <<announced, troubled>>
    BY <1>5 DEF Tick, Quiet
  <2>2. KeysAnnounced'
    BY <1>1, <2>1 DEF AnnounceInv, KeysAnnounced
  <2>3. ASSUME NEW p \in Payments PROVE Warned(p)'
    <3> SUFFICES ASSUME ~troubled, Owner[p] = user, now' >= 2 * PayDay[p] - 2, p \notin announced
                 PROVE  now' = 2 * PayDay[p] - 2 /\ seenDay # DayOf(now')
      BY <1>1, <2>1 DEF Warned
    <3>1. PayDay[p] \in Nat /\ PayDay[p] >= 2
      BY RemindersAssumption
    <3>2. ~(now >= 2 * PayDay[p] - 2)
      BY <2>1 DEF AnnounceInv, Warned, Announcing, InFlight
    <3>3. now' = 2 * (PayDay[p] - 1) /\ PayDay[p] - 1 \in Nat
      BY <1>1, <3>1, <3>2, NextHalfDay
    <3>4. DayOf(now') = PayDay[p] - 1
      BY <3>3, HalfDays
    <3>5. DayOf(now) # PayDay[p] - 1
      BY <1>1, <3>1, <3>3, NextHalfDay
    <3> QED
      BY <2>1, <3>1, <3>3, <3>4, <3>5
  <2> QED
    BY <1>3, <2>2, <2>3 DEF AnnounceInv
<1> QED
  BY <1>4, <1>5

LEMMA StepAnnounce ==
    ASSUME IInv, AnnounceInv, [Next]_vars, \A p \in Payments : PayDay[p] >= 2
    PROVE  AnnounceInv'
<1>1. ASSUME NEW list, NEW day, NEW who, ShowImmediateNotifications(list, day, who),
             UNCHANGED <<now, user, seenDay, call, troubled>>
      PROVE  AnnounceInv'
  BY <1>1, ImmediateAnnounces, CalmKeepsWarned DEF AnnounceInv
<1>2. ASSUME NEW new, Put(new), UNCHANGED <<now, user, seenDay, call, troubled>>
      PROVE  AnnounceInv'
  BY <1>2, PutAnnounces, CalmKeepsWarned DEF AnnounceInv
<1>3. ASSUME NEW c \in Calls,
             EveryHour(c) \/ RescheduleNow(c) \/ DateChanged(c) \/ StartNotifications(c)
      PROVE  AnnounceInv'
  <2>1. CASE EveryHour(c) \/ RescheduleNow(c) \/ StartNotifications(c)
    <3>1. \E immediate \in BOOLEAN, who \in Waiting : Reschedule(c, user, immediate, who)
      BY <2>1 DEF EveryHour, RescheduleNow, StartNotifications, Waiting
    <3>2. UNCHANGED <<now, user, seenDay, dialog, announced, troubled>>
      BY <2>1 DEF EveryHour, RescheduleNow, StartNotifications
    <3> QED
      BY <3>1, <3>2, RescheduleKeepsWarned
  <2>2. CASE DateChanged(c)
    BY <2>2, RescheduleKeepsWarned DEF DateChanged, Waiting
  <2> QED
    BY <1>3, <2>1, <2>2
<1>4. ASSUME Trouble, UNCHANGED <<now, seenDay>> PROVE AnnounceInv'
  BY <1>4, TroubleExcuses
<1>5. CASE RemindersNext
  <2>1. ASSUME NEW c \in Calls, NEW u \in Users, Login(c, u) PROVE AnnounceInv'
    BY <1>4, <2>1 DEF Login
  <2>2. ASSUME NEW c \in Calls, FailUpcoming(c) PROVE AnnounceInv'
    BY <1>4, <2>2 DEF FailUpcoming
  <2>3. CASE Logout
    BY <1>4, <2>3 DEF Logout
  <2>4. ASSUME NEW day \in Days, ScheduleRendered(day) PROVE AnnounceInv'
    BY <1>1, <2>4 DEF ScheduleRendered
  <2>5. CASE CloseDialog \/ OtherDialog
    BY <1>2, <2>5 DEF CloseDialog, OtherDialog
  <2> QED
    BY <1>3, <1>5, <2>1, <2>2, <2>3, <2>4, <2>5, AnswerKeepsWarned, DeliverKeepsWarned,
       TimerKeepsWarned, TickKeepsWarned
       DEF RemindersNext
<1>6. CASE Sync
  <2>1. ASSUME NEW day \in Days, EndDrawing(day) PROVE AnnounceInv'
    <3>1. CASE UNCHANGED <<dialog, notified, announced>>
      BY <2>1, <3>1, CalmKeepsWarned DEF EndDrawing, unchangedBySync, AnnounceInv, KeysAnnounced
    <3> QED
      BY <1>1, <2>1, <3>1 DEF EndDrawing, unchangedBySync
  <2>2. CASE StartSync \/ ShowResult \/ EndSync
    BY <1>2, <2>2 DEF StartSync, ShowResult, EndSync, unchangedBySync
  <2> QED
    BY <1>3, <1>6, <2>1, <2>2 DEF Sync
<1>7. CASE UNCHANGED vars
  BY <1>7, CalmKeepsWarned DEF vars, reminderVars, AnnounceInv, KeysAnnounced
<1> QED
  BY <1>5, <1>6, <1>7 DEF Next

\* Whoever keeps the page open is told of a payment before its day begins, for
\* every payment that is due two days or more after the page was opened: the
\* page then sees the day before it begin (updateClock, scheduleNotifications,
\* showImmediateNotifications).
THEOREM PaymentsAreAnnounced ==
    ASSUME \A p \in Payments : PayDay[p] >= 2
    PROVE  Spec => []AnnouncedInTime
<1>1. IInv /\ AnnounceInv => AnnouncedInTime
  <2> SUFFICES ASSUME IInv, AnnounceInv, NEW p \in Payments,
                      Owner[p] = user, PayDay[p] <= DayOf(now), ~troubled
               PROVE  p \in announced
    BY DEF AnnouncedInTime
  <2>1. now \in Nat /\ PayDay[p] \in Nat
    BY RemindersAssumption DEF IInv, Shape
  <2>2. now >= 2 * PayDay[p]
    BY <2>1, NextHalfDay
  <2> QED
    BY <2>1, <2>2 DEF AnnounceInv, Warned
<1>2. Init => AnnounceInv
  BY InitAnnounce
<1>3. IInv /\ AnnounceInv /\ [Next]_vars => AnnounceInv'
  BY StepAnnounce
<1> QED
  BY <1>1, <1>2, <1>3, SpecIInv, PTL DEF Spec

-----------------------------------------------------------------------------
(***************************************************************************)
(* The forecast, for any regions, positions and number of overlapping      *)
(* calls                                                                   *)
(***************************************************************************)

\* A forecast on its way was given for the region asked for.
UpstreamInPlace ==
    \A f \in Fetches : fetch[f].at = "upstream" =>
        \A i \in Positions : fetch[f].forecast[i] \in {Null, Value(fetch[f].region, i)}

InPlaceInv == WeatherTypeOK /\ ValuesInPlace /\ UpstreamInPlace

LEMMA CallShapes ==
    /\ NotFetching \in FetchStates /\ Useless \in FetchStates
    /\ \A r \in Regions : [at |-> "asked", region |-> r] \in FetchStates
    /\ \A r \in Regions, forecast \in Forecasts :
          /\ [at |-> "upstream", region |-> r, forecast |-> forecast] \in FetchStates
          /\ [at |-> "answered", region |-> r, forecast |-> forecast] \in FetchStates
    /\ \A c \in FetchStates :
          /\ c.at = "asked" =>
                c.region \in Regions /\ c = [at |-> "asked", region |-> c.region]
          /\ c.at \in {"upstream", "answered"} =>
                /\ c.region \in Regions /\ c.forecast \in Forecasts
                /\ c = [at |-> c.at, region |-> c.region, forecast |-> c.forecast]
BY DEF FetchStates, NotFetching, Useless

LEMMA NothingShape ==
    NothingKnown \in Forecasts /\ \A i \in Positions : NothingKnown[i] = Null
BY DEF NothingKnown, Forecasts

\* mergeWeatherMain keeps values in their places, and forgets none.
LEMMA MergeInPlace ==
    ASSUME NEW r \in Regions, NEW old \in Forecasts, NEW new \in Forecasts
    PROVE  /\ MergeWeatherMain(old, new) \in Forecasts
           /\ \A i \in Positions :
                 /\ old[i] # Null => MergeWeatherMain(old, new)[i] # Null
                 /\ old[i] \in {Null, Value(r, i)} /\ new[i] \in {Null, Value(r, i)}
                       => MergeWeatherMain(old, new)[i] \in {Null, Value(r, i)}
BY DEF MergeWeatherMain, MergeWeatherValue, Forecasts

LEMMA InitInPlace == WeatherInit => InPlaceInv
<1> SUFFICES ASSUME WeatherInit PROVE InPlaceInv
  OBVIOUS
<1>1. WeatherTypeOK
  BY CallShapes, NothingShape DEF WeatherInit, WeatherTypeOK
<1>2. \A f \in Fetches : fetch[f].at = "idle"
  BY DEF WeatherInit, NotFetching
<1>3. ValuesInPlace
  BY <1>2, NothingShape DEF WeatherInit, ValuesInPlace
<1>4. UpstreamInPlace
  BY <1>2 DEF UpstreamInPlace
<1> QED
  BY <1>1, <1>3, <1>4 DEF InPlaceInv

\* A call that asks, fails or ends brings no value.
LEMMA OtherCalls ==
    ASSUME InPlaceInv, UNCHANGED <<shown, cache>>, title' \in Regions,
           fetch' \in [Fetches -> FetchStates],
           \A f \in Fetches : fetch'[f].at \in {"upstream", "answered"} => fetch'[f] = fetch[f]
    PROVE  InPlaceInv'
BY DEF InPlaceInv, WeatherTypeOK, ValuesInPlace, UpstreamInPlace

LEMMA StepInPlace == InPlaceInv /\ [WeatherNext]_weatherVars => InPlaceInv'
<1> SUFFICES ASSUME InPlaceInv, [WeatherNext]_weatherVars PROVE InPlaceInv'
  OBVIOUS
<1>0. WeatherTypeOK
  BY DEF InPlaceInv
<1>1. ASSUME NEW f \in Fetches, NEW r \in Regions, Ask(f, r)
      PROVE  InPlaceInv'
  <2>1. fetch' \in [Fetches -> FetchStates] /\ title' \in Regions
    BY <1>0, <1>1, CallShapes DEF Ask, WeatherTypeOK
  <2>2. \A g \in Fetches : fetch'[g].at \in {"upstream", "answered"} => fetch'[g] = fetch[g]
    BY <1>0, <1>1 DEF Ask, WeatherTypeOK
  <2> QED
    BY <1>1, <2>1, <2>2, OtherCalls DEF Ask
<1>2. ASSUME NEW f \in Fetches, FailUpstream(f) \/ GiveUp(f)
      PROVE  InPlaceInv'
  <2>1. /\ fetch' \in [Fetches -> FetchStates] /\ title' \in Regions
        /\ UNCHANGED <<shown, cache>>
    BY <1>0, <1>2, CallShapes DEF FailUpstream, GiveUp, WeatherTypeOK
  <2>2. \A g \in Fetches : fetch'[g].at \in {"upstream", "answered"} => fetch'[g] = fetch[g]
    BY <1>0, <1>2 DEF FailUpstream, GiveUp, WeatherTypeOK, NotFetching, Useless
  <2> QED
    BY <2>1, <2>2, OtherCalls
<1>3. ASSUME NEW f \in Fetches, NEW forecast \in Forecasts, AnswerUpstream(f, forecast)
      PROVE  InPlaceInv'
  <2> DEFINE r == fetch[f].region
  <2>1. r \in Regions
    BY <1>0, <1>3, CallShapes DEF AnswerUpstream, WeatherTypeOK
  <2>2. \A i \in Positions : forecast[i] \in {Null, Value(r, i)}
    BY <1>3 DEF AnswerUpstream, Issued
  <2>3. /\ fetch' = [fetch EXCEPT ![f] = [at |-> "upstream", region |-> r, forecast |-> forecast]]
        /\ UNCHANGED <<title, shown, cache>>
    BY <1>3 DEF AnswerUpstream
  <2>4. fetch' \in [Fetches -> FetchStates]
    BY <1>0, <2>1, <2>3, CallShapes DEF WeatherTypeOK
  <2>5. /\ fetch'[f] = [at |-> "upstream", region |-> r, forecast |-> forecast]
        /\ \A g \in Fetches : g # f => fetch'[g] = fetch[g]
    BY <1>0, <2>3 DEF WeatherTypeOK
  <2>6. UpstreamInPlace'
    BY <2>2, <2>5 DEF InPlaceInv, UpstreamInPlace, Value
  <2>7. ValuesInPlace'
    BY <2>3, <2>5 DEF InPlaceInv, ValuesInPlace, Value
  <2> QED
    BY <1>0, <2>3, <2>4, <2>6, <2>7 DEF InPlaceInv, WeatherTypeOK
<1>4. ASSUME NEW f \in Fetches, AnswerWithoutForecast(f)
      PROVE  InPlaceInv'
  <2>1. fetch' \in [Fetches -> FetchStates] /\ cache' \in [Regions -> Forecasts]
    BY <1>0, <1>4, CallShapes, NothingShape DEF AnswerWithoutForecast, WeatherTypeOK
  <2>2. \A g \in Fetches : fetch'[g].at \in {"upstream", "answered"} => fetch'[g] = fetch[g]
    BY <1>0, <1>4 DEF AnswerWithoutForecast, WeatherTypeOK, Useless
  <2>3. \A r \in Regions, i \in Positions : cache'[r][i] \in {Null, cache[r][i]}
    BY <1>0, <1>4, NothingShape DEF AnswerWithoutForecast, WeatherTypeOK
  <2>4. UNCHANGED <<title, shown>>
    BY <1>4 DEF AnswerWithoutForecast
  <2> QED
    BY <2>1, <2>2, <2>3, <2>4 DEF InPlaceInv, WeatherTypeOK, ValuesInPlace, UpstreamInPlace
<1>5. ASSUME NEW f \in Fetches, MergeWeatherResponse(f)
      PROVE  InPlaceInv'
  <2> DEFINE r == fetch[f].region
             forecast == fetch[f].forecast
             merged == MergeWeatherMain(cache[r], forecast)
  <2>1. /\ r \in Regions /\ forecast \in Forecasts
        /\ fetch[f] = [at |-> "upstream", region |-> r, forecast |-> forecast]
    BY <1>0, <1>5, CallShapes DEF MergeWeatherResponse, WeatherTypeOK
  <2>2. cache[r] \in Forecasts
    BY <1>0, <2>1 DEF WeatherTypeOK
  <2>3. /\ \A i \in Positions : cache[r][i] \in {Null, Value(r, i)}
        /\ \A i \in Positions : forecast[i] \in {Null, Value(r, i)}
    BY <1>5, <2>1 DEF MergeWeatherResponse, InPlaceInv, ValuesInPlace, UpstreamInPlace
  <2>4. merged \in Forecasts /\ \A i \in Positions : merged[i] \in {Null, Value(r, i)}
    BY <2>1, <2>2, <2>3, MergeInPlace
  <2>5. /\ cache' = [cache EXCEPT ![r] = merged]
        /\ fetch' = [fetch EXCEPT ![f] = [at |-> "answered", region |-> r, forecast |-> merged]]
        /\ UNCHANGED <<title, shown>>
    BY <1>5 DEF MergeWeatherResponse
  <2> HIDE DEF merged
  <2>6. /\ fetch'[f] = [at |-> "answered", region |-> r, forecast |-> merged]
        /\ \A g \in Fetches : g # f => fetch'[g] = fetch[g]
    BY <1>0, <2>5 DEF WeatherTypeOK
  <2>7. fetch' \in [Fetches -> FetchStates] /\ cache' \in [Regions -> Forecasts]
    <3>1. [at |-> "answered", region |-> r, forecast |-> merged] \in FetchStates
      BY <2>1, <2>4, CallShapes
    <3> HIDE DEF r, forecast
    <3> QED
      BY <1>0, <2>1, <2>4, <2>5, <3>1 DEF WeatherTypeOK
  <2>8. \A s \in Regions : cache'[s] = IF s = r THEN merged ELSE cache[s]
    BY <1>0, <2>1, <2>5 DEF WeatherTypeOK
  <2>9. UpstreamInPlace'
    BY <2>6 DEF InPlaceInv, UpstreamInPlace, Value
  <2>10. ValuesInPlace'
    <3>1. \A i \in Positions, s \in Regions : cache'[s][i] \in {Null, Value(s, i)}
      BY <2>4, <2>8 DEF InPlaceInv, ValuesInPlace
    <3>2. fetch'[f].forecast = merged /\ fetch'[f].region = r
      BY <2>6
    <3>3. \A i \in Positions, g \in Fetches : fetch'[g].at = "answered" =>
             fetch'[g].forecast[i] \in {Null, Value(fetch'[g].region, i)}
      BY <2>4, <2>6, <3>2 DEF InPlaceInv, ValuesInPlace
    <3>4. \A i \in Positions : shown'[i] = Null \/ shown'[i].position = i
      BY <2>5 DEF InPlaceInv, ValuesInPlace
    <3> QED
      BY <3>1, <3>3, <3>4 DEF ValuesInPlace, Value
  <2> QED
    BY <1>0, <2>5, <2>7, <2>9, <2>10 DEF InPlaceInv, WeatherTypeOK
<1>6. ASSUME NEW f \in Fetches, Show(f)
      PROVE  InPlaceInv'
  <2>1. fetch[f].forecast \in Forecasts
    BY <1>0, <1>6, CallShapes DEF Show, WeatherTypeOK
  <2>2. \A i \in Positions : fetch[f].forecast[i] = Null \/ fetch[f].forecast[i].position = i
    BY <1>6 DEF Show, InPlaceInv, ValuesInPlace, Value
  <2>3. \A i \in Positions : shown[i] = Null \/ shown[i].position = i
    BY DEF InPlaceInv, ValuesInPlace
  <2>4. shown' \in Forecasts /\ \A i \in Positions : shown'[i] = Null \/ shown'[i].position = i
    BY <1>0, <1>6, <2>1, <2>2, <2>3 DEF Show, WeatherTypeOK, Forecasts
  <2>5. fetch' \in [Fetches -> FetchStates]
    BY <1>0, <1>6, CallShapes DEF Show, WeatherTypeOK
  <2>6. \A g \in Fetches : fetch'[g].at \in {"upstream", "answered"} => fetch'[g] = fetch[g]
    BY <1>0, <1>6 DEF Show, WeatherTypeOK, NotFetching
  <2>7. UNCHANGED <<title, cache>>
    BY <1>6 DEF Show
  <2> QED
    BY <2>4, <2>5, <2>6, <2>7 DEF InPlaceInv, WeatherTypeOK, ValuesInPlace, UpstreamInPlace
<1>7. CASE Restart
  <2>1. fetch' \in [Fetches -> FetchStates] /\ cache' \in [Regions -> Forecasts]
    BY <1>0, <1>7, CallShapes, NothingShape DEF Restart, WeatherTypeOK
  <2>2. \A g \in Fetches : fetch'[g].at \in {"upstream", "answered"} => fetch'[g] = fetch[g]
    BY <1>7 DEF Restart, Useless
  <2>3. \A r \in Regions, i \in Positions : cache'[r][i] = Null
    BY <1>7, NothingShape DEF Restart
  <2>4. UNCHANGED <<title, shown>>
    BY <1>7 DEF Restart
  <2> QED
    BY <2>1, <2>2, <2>3, <2>4 DEF InPlaceInv, WeatherTypeOK, ValuesInPlace, UpstreamInPlace
<1>8. CASE UNCHANGED weatherVars
  BY <1>8 DEF weatherVars, InPlaceInv, WeatherTypeOK, ValuesInPlace, UpstreamInPlace
<1>9. title \in Regions
  BY <1>0 DEF WeatherTypeOK
<1> QED
  BY <1>1, <1>2, <1>3, <1>4, <1>5, <1>6, <1>7, <1>8, <1>9 DEF WeatherNext, Poll, SaveLocation

LEMMA StepKnowledge ==
    InPlaceInv /\ [WeatherNext]_weatherVars =>
        [\A r \in Regions, i \in Positions :
            cache[r][i] # Null /\ cache'[r][i] = Null =>
                Restart \/ \E f \in Fetches : AnswerWithoutForecast(f)]_weatherVars
<1> SUFFICES ASSUME InPlaceInv, [WeatherNext]_weatherVars, NEW r \in Regions, NEW i \in Positions,
                    cache[r][i] # Null, cache'[r][i] = Null
             PROVE  Restart \/ \E f \in Fetches : AnswerWithoutForecast(f)
  OBVIOUS
<1>1. ASSUME cache' = cache PROVE FALSE
  BY <1>1
<1>2. ASSUME NEW f \in Fetches, MergeWeatherResponse(f) PROVE FALSE
  <2>1. fetch[f].region \in Regions /\ fetch[f].forecast \in Forecasts
    BY <1>2, CallShapes DEF MergeWeatherResponse, InPlaceInv, WeatherTypeOK
  <2>2. cache[fetch[f].region] \in Forecasts
    BY <2>1 DEF InPlaceInv, WeatherTypeOK
  <2>3. \A j \in Positions : cache[fetch[f].region][j] # Null =>
           MergeWeatherMain(cache[fetch[f].region], fetch[f].forecast)[j] # Null
    BY <2>1, <2>2, MergeInPlace
  <2>4. cache'[r] = IF r = fetch[f].region
                    THEN MergeWeatherMain(cache[fetch[f].region], fetch[f].forecast)
                    ELSE cache[r]
    BY <1>2, <2>1 DEF MergeWeatherResponse, InPlaceInv, WeatherTypeOK
  <2> QED
    BY <2>3, <2>4
<1> QED
  BY <1>1, <1>2
     DEF WeatherNext, weatherVars, Poll, SaveLocation, Ask, AnswerUpstream, FailUpstream,
         Show, GiveUp

-----------------------------------------------------------------------------
(* Theorems                                                                *)

LEMMA AlwaysInPlace == WeatherSpec => []InPlaceInv
BY InitInPlace, StepInPlace, PTL DEF WeatherSpec

\* The types of the page's and the server's forecasts.
THEOREM ForecastsTyped == WeatherSpec => []WeatherTypeOK
<1>1. InPlaceInv => WeatherTypeOK
  BY DEF InPlaceInv
<1> QED
  BY <1>1, AlwaysInPlace, PTL

\* mergeWeatherResponse mixes values neither of two regions nor of two days,
\* however the calls for them overlap.
THEOREM ForecastsStayInPlace == WeatherSpec => []ValuesInPlace
<1>1. InPlaceInv => ValuesInPlace
  BY DEF InPlaceInv
<1> QED
  BY <1>1, AlwaysInPlace, PTL

\* It never replaces a value by nothing.
THEOREM MergesForgetNothing == WeatherSpec => KnowledgeKept
BY AlwaysInPlace, StepKnowledge, PTL DEF WeatherSpec, KnowledgeKept
=============================================================================
