------------------------------ MODULE Calendar -------------------------------
(***************************************************************************)
(* The calendar of the start page: calendar.js, with its callers in        *)
(* account.js, devtools.js, shift_modal.js and subscription.js.  It keeps  *)
(* a copy of the schedules of the server and draws those of one day.  A    *)
(* load replaces the whole copy when it is answered; a schedule entered    *)
(* here is posted and then appended to the copy.  Any of these may be      *)
(* under way together.                                                     *)
(*                                                                         *)
(* A schedule is one row of the server; entering the same thing twice is   *)
(* entering two of them.  Times of the day are kept only as the order in   *)
(* which the server lists the rows.  Days are those of one month.          *)
(***************************************************************************)
EXTENDS MonthGrid, Sequences, SequencesExt

CONSTANTS
    Entries, Demo,         \* schedules, and the one the script begins with
    Known,                 \* those the server has when the page is opened
    DateOf, RankOf,        \* their days, and their places in ORDER BY date, time
    Calls,                 \* loads under way at once
    FirstDay, LastDate,    \* the month drawn in the grid
    Dates,                 \* the days of it that matter
    OpenedOn, LastDay,     \* the day the page was opened, and where the model ends
    None

ASSUME CalendarAssumption ==
    /\ IsFiniteSet(Entries) /\ Known \subseteq Entries /\ Demo \notin Entries
    /\ FirstDay \in Weekdays /\ LastDate \in Lengths
    /\ Dates \subseteq 1 .. LastDate /\ LastDay \in Nat
    /\ OpenedOn \in Dates /\ OpenedOn .. LastDay \subseteq Dates
    /\ DateOf \in [Entries \union {Demo} -> 1 .. LastDate]
    /\ RankOf \in [Entries \union {Demo} -> Nat]
    /\ None \notin 0 .. LastDate

ASSUME NameAssumption == {"not read", "over"} \intersect (Entries \union {Demo}) = {}

VARIABLES
    day,        \* the date
    today,      \* as calendar.js knows it
    watching,   \* monitorDateChange has been called
    row,        \* what has become of each schedule
    schedules,  \* the copy of the page
    selected,   \* selectedDate
    lines,      \* the schedules drawn for the selected day, or Upcoming
    load,       \* the loads under way
    \* history
    alone,      \* nothing has happened that can part copy and server
    undrawn     \* the copy was replaced by a handler that has not drawn it yet

vars == <<day, today, watching, row, schedules, selected, lines, load, alone, undrawn>>

Upcoming == <<None>>  \* nothing in that view can be opened

\* A schedule is sent from here and stored, and kept once nothing is awaited
\* any more; it is gone if it was refused or has been deleted.
Fates == {"new", "sent", "stored", "kept", "gone"}
Stored == {e \in Entries : row[e] \in {"stored", "kept"}}

\* ORDER BY leaves open in which order rows of the same time come.
ServerLists ==
    {list \in SetToSeqs(Stored) :
        \A i, j \in DOMAIN list : i < j => RankOf[list[i]] <= RankOf[list[j]]}

Lists == Seq(Entries \union {Demo})
IsList(list) == list \in Lists /\ Len(list) <= 1 + 2 * Cardinality(Entries)
OfDay(list, d) ==
    LET among[n \in 0 .. Len(list)] ==   \* the first n
            IF n = 0 THEN <<>>
            ELSE IF DateOf[list[n]] = d THEN Append(among[n - 1], list[n])
            ELSE among[n - 1]
    IN  among[Len(list)]

\* The functions that load, by what they have yet to do: the start of the page
\* (which reads the holidays first), refreshCalendar with and without holidays
\* to wait for, reloadSchedules, and loadSchedules alone.
Kinds == {"open", "start", "regenerate", "refresh", "reload", "bare"}
NotRead == <<"not read">>
Over == <<"over">>       \* the copy has been replaced, the holidays are awaited
Begun(kind) == [kind |-> kind, list |-> NotRead]
Idle == Begun("none")

InFlight == {c \in Calls : load[c] # Idle}
Posting == {e \in Entries : row[e] \in {"sent", "stored"}}
Quiet == InFlight = {} /\ Posting = {}

TypeOK ==
    /\ day \in Dates /\ today \in Dates
    /\ watching \in BOOLEAN /\ alone \in BOOLEAN /\ undrawn \in BOOLEAN
    /\ row \in [Entries -> Fates]
    /\ IsList(schedules)
    /\ selected \in Dates \union {None}
    /\ lines = Upcoming \/ IsList(lines)
    /\ load \in [Calls -> [kind : Kinds \union {"none"}, list : Lists \union {NotRead, Over}]]
    /\ \A c \in Calls :
          \/ load[c].list = NotRead
          \/ load[c].list = Over /\ load[c].kind = "regenerate"
          \/ IsList(load[c].list) /\ load[c].kind \notin {"none", "open"}

Init ==
    /\ day = OpenedOn
    /\ today = OpenedOn
    /\ watching = FALSE
    /\ row = [e \in Entries |-> IF e \in Known THEN "kept" ELSE "new"]
    /\ schedules = <<Demo>>
    /\ selected = None
    /\ lines = <<>>
    /\ load \in {[c \in Calls |-> IF c = first THEN Begun("open") ELSE Idle] : first \in Calls}
    /\ alone = TRUE
    /\ undrawn = FALSE

-----------------------------------------------------------------------------
(***************************************************************************)
(* Drawing                                                                 *)
(***************************************************************************)

\* renderSchedule.
RenderSchedule(d, list) ==
    /\ selected' = d
    /\ lines' = OfDay(list, d)
    /\ undrawn' = FALSE

\* A day of the grid is clicked.
Click(d) ==
    /\ d \in DaysShown(FirstDay, LastDate)
    /\ RenderSchedule(d, schedules)
    /\ UNCHANGED <<day, today, watching, row, schedules, load, alone>>

\* The button for the next five schedules; selectedDate stays.
ShowUpcoming ==
    /\ lines' = Upcoming
    /\ UNCHANGED <<day, today, watching, row, schedules, selected, load, alone, undrawn>>

\* What openAllScheduleModal puts behind the button of each line it copies: it
\* looks the line up in the copy of now, by its position.
Buttons ==
    LET ofNow == OfDay(schedules, selected)
    IN  [i \in DOMAIN lines |-> IF i \in DOMAIN ofNow THEN ofNow[i] ELSE None]

-----------------------------------------------------------------------------
(***************************************************************************)
(* Loading                                                                 *)
(***************************************************************************)

Begin(c, kind) ==
    /\ load[c] = Idle
    /\ load' = [load EXCEPT ![c] = Begun(kind)]
    /\ alone' = Quiet
    /\ UNCHANGED <<day, today, watching, row, schedules, selected, lines, undrawn>>

\* refreshCalendar with forceReload: the button of the developer menu, and what
\* follows a change of user or a new subscription.
Regenerate(c) == Begin(c, "regenerate")

\* Two tasks of the full sync.  As soon as a day is selected they are the same.
Synchronise(c) == Begin(c, "refresh") \/ (selected = None /\ Begin(c, "reload"))

\* The end of deleteAllShiftsForUser; before a day is selected, reloadSchedules
\* does no more either.
ReloadAfterDeletion(c) == selected # None /\ Begin(c, "bare")

Pending(c) == load[c].kind \notin {"none", "open"} /\ load[c].list # Over

ServerReads(c) ==
    /\ Pending(c) /\ load[c].list = NotRead
    /\ \E list \in ServerLists : load' = [load EXCEPT ![c].list = list]
    /\ UNCHANGED <<day, today, watching, row, schedules, selected, lines, alone, undrawn>>

\* What the functions do after their loads, the copy being list by then.
Conclude(kind, list) ==
    /\ watching' = (watching \/ kind = "start")
    /\ CASE kind = "start" ->
                RenderSchedule(today, list)
         [] kind = "refresh" ->
                RenderSchedule(IF selected = None THEN day ELSE selected, list)
         [] kind = "reload" /\ selected # None ->
                RenderSchedule(selected, list)
         [] OTHER ->
                UNCHANGED <<selected, lines>> /\ undrawn' = TRUE

\* The holidays, or nothing in their place.
HolidaysArrive(c) ==
    /\ load[c].kind \in {"open", "regenerate"}
    /\ IF load[c].list = Over
       THEN /\ Conclude("refresh", schedules)
            /\ load' = [load EXCEPT ![c] = Idle]
       ELSE /\ load' = [load EXCEPT ![c].kind = IF @ = "open" THEN "start" ELSE "refresh"]
            /\ UNCHANGED <<watching, selected, lines, undrawn>>
    /\ UNCHANGED <<day, today, row, schedules, alone>>

\* loadSchedules is over and has made the copy what list says.
Loaded(c, list) ==
    /\ schedules' = list
    /\ IF load[c].kind = "regenerate"
       THEN /\ load' = [load EXCEPT ![c].list = Over]
            /\ undrawn' = TRUE
            /\ UNCHANGED <<watching, selected, lines>>
       ELSE /\ Conclude(load[c].kind, list)
            /\ load' = [load EXCEPT ![c] = Idle]
    /\ UNCHANGED <<day, today, row>>

Arrive(c) ==
    /\ Pending(c) /\ load[c].list # NotRead
    /\ Loaded(c, load[c].list)
    /\ UNCHANGED alone

\* Mistaken variant: the function that loads ends with its load.
FailUncaught(c) ==
    /\ Pending(c)
    /\ load' = [load EXCEPT ![c] = Idle]
    /\ alone' = FALSE
    /\ UNCHANGED <<day, today, watching, row, schedules, selected, lines, undrawn>>

\* No answer, or not JSON (a 401, say): the copy stays.  JSON, but no array:
\* it is emptied.
Fail(c) ==
    /\ Pending(c)
    /\ \E list \in {schedules, <<>>} : Loaded(c, list)
    /\ alone' = FALSE

-----------------------------------------------------------------------------
(***************************************************************************)
(* Entering a schedule                                                     *)
(***************************************************************************)

\* submitRegularSchedule, which nothing keeps from being called again.
Submit(e) ==
    /\ row[e] = "new"
    /\ row' = [row EXCEPT ![e] = "sent"]
    /\ alone' = (alone /\ InFlight = {})
    /\ UNCHANGED <<day, today, watching, schedules, selected, lines, load, undrawn>>

Store(e) ==
    /\ row[e] = "sent"
    /\ row' = [row EXCEPT ![e] = "stored"]
    /\ UNCHANGED <<day, today, watching, schedules, selected, lines, load, alone, undrawn>>

\* The server refuses, or the request or its answer gets lost.
GiveUp(e) ==
    /\ e \in Posting
    /\ row' = [row EXCEPT ![e] = IF @ = "sent" THEN "gone" ELSE "kept"]
    /\ alone' = (alone /\ row[e] = "sent")
    /\ UNCHANGED <<day, today, watching, schedules, selected, lines, load, undrawn>>

\* Mistaken variants: the new schedule is not drawn; it is not kept.
AcknowledgeUndrawn(e) ==
    /\ row[e] = "stored"
    /\ row' = [row EXCEPT ![e] = "kept"]
    /\ schedules' = Append(schedules, e)
    /\ UNCHANGED <<day, today, watching, selected, lines, load, alone, undrawn>>

AcknowledgeOnly(e) ==
    /\ row[e] = "stored"
    /\ row' = [row EXCEPT ![e] = "kept"]
    /\ UNCHANGED <<day, today, watching, schedules, selected, lines, load, alone, undrawn>>

\* The rest of submitRegularSchedule.
Acknowledge(e) ==
    /\ row[e] = "stored"
    /\ row' = [row EXCEPT ![e] = "kept"]
    /\ schedules' = Append(schedules, e)
    /\ IF selected = DateOf[e]
       THEN RenderSchedule(selected, Append(schedules, e))
       ELSE UNCHANGED <<selected, lines, undrawn>>
    /\ UNCHANGED <<day, today, watching, load, alone>>

\* Another page deletes a schedule; so does this one when it deletes all shifts.
Vanish(e) ==
    /\ row[e] = "kept"
    /\ row' = [row EXCEPT ![e] = "gone"]
    /\ alone' = FALSE
    /\ UNCHANGED <<day, today, watching, schedules, selected, lines, load, undrawn>>

\* Another page adds one; so does this one when shifts are registered, for the
\* dialog addShift waits for has been replaced by then and has no close, so
\* that it never gets as far as its reload.
Appear(e) ==
    /\ row[e] = "new"
    /\ row' = [row EXCEPT ![e] = "kept"]
    /\ alone' = FALSE
    /\ UNCHANGED <<day, today, watching, schedules, selected, lines, load, undrawn>>

-----------------------------------------------------------------------------
(***************************************************************************)
(* The date                                                                *)
(***************************************************************************)

Midnight ==
    /\ day < LastDay
    /\ day' = day + 1
    /\ UNCHANGED <<today, watching, row, schedules, selected, lines, load, alone, undrawn>>

\* monitorDateChange, once a minute.  The grid stays on its month.
DateChanges ==
    /\ watching
    /\ today # day
    /\ today' = day
    /\ RenderSchedule(day, schedules)
    /\ UNCHANGED <<day, watching, row, schedules, load, alone>>

-----------------------------------------------------------------------------

LoadStep(c) ==
    HolidaysArrive(c) \/ ServerReads(c) \/ Arrive(c) \/ Fail(c)

Next ==
    \/ \E d \in Dates : Click(d)
    \/ ShowUpcoming
    \/ \E c \in Calls :
          \/ Regenerate(c) \/ Synchronise(c) \/ ReloadAfterDeletion(c)
          \/ LoadStep(c)
    \/ \E e \in Entries : Submit(e) \/ Store(e) \/ GiveUp(e) \/ Acknowledge(e) \/ Vanish(e) \/ Appear(e)
    \/ Midnight \/ DateChanges

Spec == Init /\ [][Next]_vars

\* Requests are answered or fail, and the timer of the page goes on.
FairSpec ==
    /\ Spec
    /\ WF_vars(DateChanges)
    /\ \A c \in Calls : WF_vars(LoadStep(c))

-----------------------------------------------------------------------------
(***************************************************************************)
(* Properties                                                              *)
(***************************************************************************)

Count(list, e) == Cardinality({i \in DOMAIN list : list[i] = e})

\* Once nothing is under way, the copy holds each row of the server once and
\* nothing else, unless since the last load begun on its own a load crossed a
\* load or a post, a request failed, or somebody else changed the rows
\* (loadSchedules, submitRegularSchedule).
ListFollows ==
    alone /\ Quiet =>
        \A e \in Entries \union {Demo} : Count(schedules, e) = IF e \in Stored THEN 1 ELSE 0

\* The lines on the screen are the schedules of the selected day, in order, and
\* the button of a line opens the schedule of that line, after every handler
\* except one that has replaced the copy and is still waiting for the holidays,
\* and the one that never draws it (schedulePos in openAllScheduleModal).
LinesFollow ==
    selected # None /\ lines # Upcoming /\ ~undrawn =>
        lines = OfDay(schedules, selected) /\ Buttons = lines

\* However late the start of the page is over, it turns to the new day in the
\* end (monitorDateChange, which begins after two loads).
DayTurns == \A d \in Dates : <>[](day = d) => <>[](today = d)
=============================================================================
