------------------------------ MODULE Reminders ------------------------------
(***************************************************************************)
(* How the page reminds its visitor of payments: SubscriptionManager of    *)
(* subscription.js, with the events of script.js, calendar.js and          *)
(* account.js that set it going.  A reschedule clears the timers, asks the *)
(* server for the payments of the next three days and sets timers for      *)
(* them; the answer arrives when it likes.  What is due soon is put up in  *)
(* a dialog.  SweetAlert2 has one dialog: another one takes its place, and *)
(* whoever waits for the first one is released as if it had been closed.   *)
(*                                                                         *)
(* Time is counted in half days, of which the first begins at the local    *)
(* midnight.  A payment is due at the UTC midnight of its day, which is    *)
(* taken to be in the second half (in Japan: 9 o'clock).  The server       *)
(* answers for the user who logged in last: logout leaves the cookie (see  *)
(* Sessions).                                                              *)
(***************************************************************************)
EXTENDS Integers, FiniteSets

CONSTANTS
    Users, NoUser,
    Payments, Owner, PayDay,  \* the payment of a user, and the day it is due
    Calls,                    \* calls of /api/subscriptions/upcoming under way at once
    LastTick                  \* where the clock of the model stops

ASSUME RemindersAssumption ==
    /\ Owner \in [Payments -> Users]
    /\ PayDay \in [Payments -> Nat]
    /\ NoUser \notin Users
    /\ IsFiniteSet(Calls)
    /\ LastTick \in Nat

VARIABLES
    now,        \* half days since the page was opened
    seenDay,    \* currentDate of script.js
    user,       \* tabdock_user
    session,    \* the user the server answers for
    cached,     \* cachedUpcoming
    timers,     \* notificationTimers: how many for a payment and a label
    notified,   \* notifiedKeys, but for those of timers, which nothing looks up
    call,       \* the calls of scheduleNotifications that wait for the server
    dialog,     \* the dialog on the screen
    \* history
    alone,      \* no call was under way when the last reschedule began
    delivered,  \* and its list has arrived
    troubled,   \* a call failed or took half a day, a handler ran that late, or
                \* somebody logged in or out
    announced   \* until then: the payments announced for the day after

reminderVars == <<now, seenDay, user, session, cached, timers, notified, call,
                  dialog, alone, delivered, announced, troubled>>

Labels == {"3 days", "tomorrow"}
Kinds == {"selected", "today", "tomorrow", "3 days"}
Waiting == {"page", "sync"}  \* who waits for a call or a dialog

DayOf(tick) == tick \div 2
Days == 0 .. DayOf(LastTick)
Due(p) == 2 * PayDay[p] + 1

\* When the timer for a label goes off, as far as ticks tell.
TimerAt(p, label) == IF label = "tomorrow" THEN Due(p) - 2 ELSE Due(p) - 6

Idle == [at |-> "idle"]
Listings == [at : {"asked"}, immediate : BOOLEAN, for : Waiting]
    \union [at : {"read"}, immediate : BOOLEAN, for : Waiting, list : SUBSET Payments]
Asked(immediate, who) == [at |-> "asked", immediate |-> immediate, for |-> who]

NoDialog == [what |-> "none", keys |-> {}, for |-> "page"]
Dialogs == [what : {"none", "list", "timer", "other"},
            keys : SUBSET (Kinds \X Payments), for : Waiting]

InFlight == {c \in Calls : call[c] # Idle}
Quiet == InFlight = {}

TypeOK ==
    /\ now \in 0 .. LastTick
    /\ seenDay \in Days
    /\ user \in Users \union {NoUser} /\ session \in Users \union {NoUser}
    /\ cached \subseteq Payments
    /\ timers \in [Payments -> [Labels -> 0 .. Cardinality(Calls)]]
    /\ notified \subseteq Kinds \X Payments
    /\ call \in [Calls -> {Idle} \union Listings]
    /\ dialog \in Dialogs
    /\ alone \in BOOLEAN /\ delivered \in BOOLEAN /\ troubled \in BOOLEAN
    /\ announced \subseteq Payments

\* The page is opened; its first reschedule is a RescheduleNow.
RemindersInit ==
    /\ now = 0
    /\ seenDay = 0
    /\ user \in Users \union {NoUser}
    /\ session = user
    /\ cached = {}
    /\ timers = [p \in Payments |-> [label \in Labels |-> 0]]
    /\ notified = {}
    /\ call = [c \in Calls |-> Idle]
    /\ dialog = NoDialog
    /\ alone = TRUE /\ delivered = FALSE /\ troubled = FALSE
    /\ announced = {}

-----------------------------------------------------------------------------
(***************************************************************************)
(* Dialogs                                                                 *)
(***************************************************************************)

Announce(S) == announced' = IF troubled THEN {} ELSE announced \union S
Trouble == troubled' = TRUE /\ announced' = {}

\* Swal.fire.  The keys of a list count as notified once its dialog is gone.
Put(new) ==
    /\ dialog' = new
    /\ notified' = notified \union dialog.keys
    /\ Announce({p \in Payments : <<"tomorrow", p>> \in new.keys})

\* What showImmediateNotifications finds due, seen from a day of the calendar.
DueSoon(list, day) ==
    LET away(p) == PayDay[p] - DayOf(now)  \* never used of a day that is over
        ahead(p, n) == PayDay[p] >= DayOf(now) /\ away(p) = n
    IN  {key \in Kinds \X list :
            /\ key \notin notified
            /\ CASE key[1] = "selected" -> PayDay[key[2]] = day
                 [] key[1] = "today"    -> ahead(key[2], 0)
                 [] key[1] = "tomorrow" -> ahead(key[2], 1)
                 [] key[1] = "3 days"   -> ahead(key[2], 3)}

ShowImmediateNotifications(list, day, who) ==
    IF DueSoon(list, day) = {}
    THEN UNCHANGED <<dialog, notified, announced>>
    ELSE Put([what |-> "list", keys |-> DueSoon(list, day), for |-> who])

\* A day was drawn in the calendar, or its payments were drawn again.
ScheduleRendered(day) ==
    /\ DueSoon(cached, day) # {}
    /\ ShowImmediateNotifications(cached, day, "page")
    /\ UNCHANGED <<now, seenDay, user, session, cached, timers, call, alone, delivered, troubled>>

\* The visitor closes the dialog.
CloseDialog ==
    /\ dialog # NoDialog
    /\ Put(NoDialog)
    /\ UNCHANGED <<now, seenDay, user, session, cached, timers, call, alone, delivered, troubled>>

\* Any other part of the page has something to say.
OtherDialog ==
    /\ Put([NoDialog EXCEPT !.what = "other"])
    /\ UNCHANGED <<now, seenDay, user, session, cached, timers, call, alone, delivered, troubled>>

-----------------------------------------------------------------------------
(***************************************************************************)
(* scheduleNotifications                                                   *)
(***************************************************************************)

\* Mistaken variant: the timers of the last list are left running.
RescheduleOnTop(c, u, immediate, who) ==
    /\ call[c] = Idle
    /\ notified' = {}
    /\ alone' = Quiet
    /\ delivered' = FALSE
    /\ call' = IF u = NoUser THEN call ELSE [call EXCEPT ![c] = Asked(immediate, who)]
    /\ UNCHANGED timers

\* Up to the call of the server; without a user there is none.
Reschedule(c, u, immediate, who) ==
    /\ call[c] = Idle
    /\ timers' = [p \in Payments |-> [label \in Labels |-> 0]]
    /\ notified' = {}
    /\ alone' = Quiet
    /\ delivered' = FALSE
    /\ call' = IF u = NoUser THEN call ELSE [call EXCEPT ![c] = Asked(immediate, who)]

\* Every hour.
EveryHour(c) ==
    /\ Reschedule(c, user, FALSE, "page")
    /\ UNCHANGED <<now, seenDay, user, session, cached, dialog, announced, troubled>>

\* The page is opened, or a payment has been registered in it.
RescheduleNow(c) ==
    /\ Reschedule(c, user, TRUE, "page")
    /\ UNCHANGED <<now, seenDay, user, session, cached, dialog, announced, troubled>>

\* updateClock of script.js, once a second.
DateChanged(c) ==
    /\ seenDay # DayOf(now)
    /\ seenDay' = DayOf(now)
    /\ Reschedule(c, user, TRUE, "page")
    /\ UNCHANGED <<now, user, session, cached, dialog, announced, troubled>>

\* Mistaken variant: a log-in leaves the list of the last user in place.
LoginQuietly(c, u) ==
    /\ user' = u
    /\ session' = u
    /\ Trouble
    /\ UNCHANGED <<now, seenDay, cached, timers, notified, call, dialog,
                   alone, delivered>>

\* saveLoginState, by a log-in or a restored session.
Login(c, u) ==
    /\ user' = u
    /\ session' = u
    /\ Trouble
    /\ Reschedule(c, u, TRUE, "page")
    /\ UNCHANGED <<now, seenDay, cached, dialog>>

\* logout: timers and list stay.
Logout ==
    /\ user # NoUser
    /\ user' = NoUser
    /\ Trouble
    /\ UNCHANGED <<now, seenDay, session, cached, timers, notified, call, dialog,
                   alone, delivered>>

\* Mistaken variant: a day is looked ahead instead of three.
UpcomingTomorrow(u) ==
    {p \in Payments : Owner[p] = u /\ now < Due(p) /\ Due(p) <= now + 2}

\* GetUpcoming, the query on the server.
Upcoming(u) == {p \in Payments : Owner[p] = u /\ now < Due(p) /\ Due(p) <= now + 6}

\* The server reads its table; the answer is on its way.
AnswerUpcoming(c) ==
    /\ call[c].at = "asked"
    /\ call' = [call EXCEPT ![c] = [at |-> "read", immediate |-> @.immediate,
                                    for |-> @.for, list |-> Upcoming(session)]]
    /\ UNCHANGED <<now, seenDay, user, session, cached, timers, notified, dialog,
                   alone, delivered, announced, troubled>>

SetTimers(list) ==
    timers' = [p \in Payments |-> [label \in Labels |->
        timers[p][label] + IF p \in list /\ now < TimerAt(p, label) THEN 1 ELSE 0]]

\* The rest of scheduleNotifications.
Deliver(c) ==
    LET answer == call[c]
    IN  /\ answer.at = "read"
        /\ call' = [call EXCEPT ![c] = Idle]
        /\ cached' = answer.list
        /\ delivered' = TRUE
        /\ SetTimers(answer.list)
        /\ IF answer.immediate
           THEN ShowImmediateNotifications(answer.list, DayOf(now), answer.for)
           ELSE UNCHANGED <<dialog, notified, announced>>
        /\ UNCHANGED <<now, seenDay, user, session, alone, troubled>>

\* No answer, or one that is not a list: timers and keys are gone already.
FailUpcoming(c) ==
    /\ call[c] # Idle
    /\ call' = [call EXCEPT ![c] = Idle]
    /\ Trouble
    /\ UNCHANGED <<now, seenDay, user, session, cached, timers, notified, dialog,
                   alone, delivered>>

\* The callback of a timer.
TimerFires(p, label) ==
    /\ timers[p][label] > 0
    /\ now >= TimerAt(p, label)
    /\ timers' = [timers EXCEPT ![p][label] = @ - 1]
    /\ dialog' = [NoDialog EXCEPT !.what = "timer"]
    /\ notified' = notified \union dialog.keys
    /\ Announce({q \in {p} : label = "tomorrow"})
    /\ UNCHANGED <<now, seenDay, user, session, cached, call, alone, delivered, troubled>>

-----------------------------------------------------------------------------

\* Half a day passes.
Tick ==
    /\ now < LastTick
    /\ now' = now + 1
    /\ IF \/ ~Quiet
          \/ seenDay # DayOf(now)
          \/ \E p \in Payments, label \in Labels :
                timers[p][label] > 0 /\ TimerAt(p, label) <= now
       THEN Trouble
       ELSE UNCHANGED <<announced, troubled>>
    /\ UNCHANGED <<seenDay, user, session, cached, timers, notified, call, dialog,
                   alone, delivered>>

RemindersNext ==
    \/ \E c \in Calls :
          \/ EveryHour(c) \/ RescheduleNow(c) \/ DateChanged(c)
          \/ \E u \in Users : Login(c, u)
          \/ AnswerUpcoming(c) \/ Deliver(c) \/ FailUpcoming(c)
    \/ \E p \in Payments, label \in Labels : TimerFires(p, label)
    \/ \E day \in Days : ScheduleRendered(day)
    \/ CloseDialog \/ OtherDialog
    \/ Logout
    \/ Tick
=============================================================================
