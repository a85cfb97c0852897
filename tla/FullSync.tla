------------------------------ MODULE FullSync -------------------------------
(***************************************************************************)
(* The full synchronisation of the developer menu (devtools.js) on top of  *)
(* the reminders: the tasks of performFullSync, awaited one after another, *)
(* share the one dialog of the page with them.  A task that fails is noted *)
(* and the next one begins; what a task fetches is left to the module of   *)
(* its data.                                                               *)
(***************************************************************************)
EXTENDS Reminders

VARIABLE sync  \* "off" (isFullSyncRunning is false) or what it is doing

vars == <<reminderVars, sync>>

\* syncTasks that draw days again, and the one that reschedules; the time the
\* others take is part of the wait for the next of these.
Drawing == {"schedules", "subscriptions", "calendar"}
Tasks == <<"schedules", "subscriptions", "calendar", "notifications", "awaiting", "result">>
Stages == {"off"} \union {Tasks[i] : i \in DOMAIN Tasks}
After(task) == Tasks[1 + CHOOSE i \in DOMAIN Tasks : Tasks[i] = task]

SyncTypeOK == TypeOK /\ sync \in Stages

Init == RemindersInit /\ sync = "off"

unchangedBySync == <<now, seenDay, user, session, cached, delivered, troubled>>

\* Mistaken variant: neither the flag nor the button keeps a second one off.
StartSyncAgain ==
    /\ sync' = Tasks[1]
    /\ Put([NoDialog EXCEPT !.what = "other"])
    /\ UNCHANGED <<unchangedBySync, timers, call, alone>>

\* The button, unless it is disabled.
StartSync ==
    /\ sync = "off"
    /\ sync' = Tasks[1]
    /\ Put([NoDialog EXCEPT !.what = "other"])
    /\ UNCHANGED <<unchangedBySync, timers, call, alone>>

\* A task ends by drawing the selected day, if there is one; the last one draws
\* today if there is none.  A day drawn twice is a ScheduleRendered before it.
EndDrawing(day) ==
    /\ sync \in Drawing
    /\ sync' = After(sync)
    /\ \/ ShowImmediateNotifications(cached, day, "page")
       \/ sync # "calendar" /\ UNCHANGED <<dialog, notified, announced>>
    /\ UNCHANGED <<unchangedBySync, timers, call, alone>>

StartNotifications(c) ==
    /\ sync = "notifications"
    /\ sync' = After(sync)
    /\ Reschedule(c, user, TRUE, "sync")
    /\ UNCHANGED <<now, seenDay, user, session, cached, dialog, announced, troubled>>

\* Mistaken variant: a failed call leaves the sync where it is.
ShowResultIfDelivered ==
    /\ sync = "awaiting"
    /\ delivered
    /\ dialog.for # "sync"
    /\ \A c \in InFlight : call[c].for # "sync"
    /\ sync' = After(sync)
    /\ Put([what |-> "other", keys |-> {}, for |-> "sync"])
    /\ UNCHANGED <<unchangedBySync, timers, call, alone>>

\* The call has been answered or has failed, and the visitor has closed the
\* dialog that came of it, or another dialog has taken its place.  The table
\* of results is a dialog that closes itself after six seconds.
ShowResult ==
    /\ sync = "awaiting"
    /\ dialog.for # "sync"
    /\ \A c \in InFlight : call[c].for # "sync"
    /\ sync' = After(sync)
    /\ Put([what |-> "other", keys |-> {}, for |-> "sync"])
    /\ UNCHANGED <<unchangedBySync, timers, call, alone>>

\* The dialog of the results is gone; the finally clause closes whatever
\* dialog there is by then.
EndSync ==
    /\ sync = "result"
    /\ dialog.for # "sync"
    /\ sync' = "off"
    /\ Put(NoDialog)
    /\ UNCHANGED <<unchangedBySync, timers, call, alone>>

Sync ==
    \/ StartSync \/ ShowResult \/ EndSync
    \/ \E day \in Days : EndDrawing(day)
    \/ \E c \in Calls : StartNotifications(c)

Next == (RemindersNext /\ UNCHANGED sync) \/ Sync

Spec == Init /\ [][Next]_vars

\* Fetches and callbacks end, and the visitor closes the dialogs he is shown.
\* The bound on calls may hold one up for a while, but not for ever.
FairSpec ==
    /\ Spec
    /\ WF_vars(ShowResult \/ EndSync \/ \E day \in Days : EndDrawing(day))
    /\ SF_vars(\E c \in Calls : StartNotifications(c))
    /\ WF_vars(CloseDialog /\ UNCHANGED sync)
    /\ \A c \in Calls : WF_vars((AnswerUpcoming(c) \/ Deliver(c) \/ FailUpcoming(c)) /\ UNCHANGED sync)

-----------------------------------------------------------------------------
(***************************************************************************)
(* Properties                                                              *)
(***************************************************************************)

\* If the last reschedule began while no other one was waiting, each payment
\* has at most one timer for each reminder, and once its list has arrived each
\* payment of the list has one for each reminder still to come
\* (clearNotificationTimers and scheduleReminder, with the server in between).
OneTimerEach ==
    alone =>
        \A p \in Payments, label \in Labels :
            /\ timers[p][label] <= 1
            /\ delivered /\ p \in cached /\ now < TimerAt(p, label) => timers[p][label] = 1

\* Then, too, nobody who is logged in is reminded of the payments of another:
\* neither a timer nor the list that dialogs are made of survives the change
\* of user (saveLoginState, logout).
OwnReminders ==
    alone /\ delivered /\ user # NoUser =>
        \A p \in Payments :
            p \in cached \/ (\E label \in Labels : timers[p][label] > 0) => Owner[p] = user

\* Whoever keeps the page open is told of a payment that is due two or more
\* days after it was opened, and before its day begins, however reschedules,
\* drawings, a full sync and other dialogs overlap, unless a call failed, a
\* handler was late by half a day or the user changed.
AnnouncedInTime ==
    \A p \in Payments :
        Owner[p] = user /\ PayDay[p] <= DayOf(now) /\ ~troubled => p \in announced

\* A full sync is over only when nothing that it asked for is still to come, so
\* that a second one never waits for a call or a dialog of the first, nor is
\* released by them (isFullSyncRunning, and the await of each task).
OneSyncAtATime ==
    /\ \A c, d \in InFlight : call[c].for = "sync" /\ call[d].for = "sync" => c = d
    /\ \A c \in InFlight : call[c].for = "sync" => sync = "awaiting"
    /\ dialog.for = "sync" => sync \in {"awaiting", "result"}

\* Whatever fails on the way, and whatever dialogs get in its way, a full sync
\* ends and can be asked for again (isFullSyncRunning).
SyncEnds == sync # "off" ~> sync = "off"
=============================================================================
