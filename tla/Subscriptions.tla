---------------------------- MODULE Subscriptions ----------------------------
(***************************************************************************)
(* Subscriptions of one user: the rows of subscription.db, the handlers    *)
(* that write them (subscription/), and a page (subscription_calendar.js)  *)
(* that keeps a copy of them, edits from that copy, and asks the server to *)
(* move overdue payments on.  Another client writes at any time.           *)
(*                                                                         *)
(* A payment is due at the midnight that begins a day.  Dates count days,  *)
(* instants half days, so that instant 2 * d is midnight and 2 * d + 1 is  *)
(* during day d.  Months have the lengths that MonthStart says.            *)
(***************************************************************************)
EXTENDS Integers, Sequences

CONSTANTS
    MonthStart,  \* the first date of each month
    Dates,       \* dates a user may enter
    Cycles,      \* billing cycles a user may enter
    Instants,    \* instants at which something happens
    ZoneAhead,   \* half days by which the server's clock is ahead of UTC, negative if behind
    Calls,       \* chains of requests the page can have under way
    MaxIds,      \* bound: subscriptions ever created
    MaxWrites    \* bound: forms submitted and buttons pressed, here and elsewhere

ASSUME SubscriptionsAssumption ==
    /\ MonthStart \in Seq(Nat) /\ MonthStart # <<>>
    /\ \A m \in DOMAIN MonthStart, n \in DOMAIN MonthStart : m < n => MonthStart[m] < MonthStart[n]
    /\ \A d \in Dates : d \in MonthStart[1] .. (MonthStart[Len(MonthStart)] - 1)
    /\ "monthly" \in Cycles
    /\ Instants \subseteq Nat
    /\ ZoneAhead \in Int
    /\ {MaxIds, MaxWrites} \subseteq Nat

VARIABLES
    rows,      \* subscriptions
    created,   \* ids handed out
    now,
    list,      \* subscriptionCalendarManager.subscriptions
    wrapped,   \* setupAutoPaymentDateUpdate has replaced monitorDateChange
    monitored, \* calendar.js has called it
    pc, op, answer,  \* the page's chains, what each asked for, and the list it was given
    writes,
    anchor,    \* history: the date that was last entered for each subscription
    crossed,   \* history: two chains were under way at a time
    astray     \* history: since the page's last list, something failed or another client wrote

vars == <<rows, created, now, list, wrapped, monitored, pc, op, answer, writes, anchor,
          crossed, astray>>
page == <<list, wrapped, monitored, pc, op, answer, crossed>>

Ids == 1 .. MaxIds
\* "expired" is to the code what "inactive" is.
Statuses == {"active", "inactive", "canceled"}
Table == MonthStart[1] .. (MonthStart[Len(MonthStart)] - 1)
Rows == [date : Table, cycle : Cycles, status : Statuses]
Fields == [date : Table \union {0}, cycle : Cycles \union {"none"}, status : Statuses \union {"none"}]
Kinds == {"none", "init", "view", "create", "save", "status", "delete", "renew"}
NoRow == [date |-> 0, cycle |-> "none", status |-> "none"]
Lists == [Ids -> Rows \union {NoRow}]
Nothing == [i \in Ids |-> NoRow]
Known(cycle) == cycle \in {"daily", "weekly", "monthly", "yearly"}
NoOp == [kind |-> "none", id |-> 0, row |-> NoRow]

TypeOK ==
    /\ rows \in Lists
    /\ created \in 0 .. MaxIds /\ \A i \in Ids : rows[i] # NoRow => i <= created
    /\ now \in Instants
    /\ list \in Lists
    /\ wrapped \in BOOLEAN /\ monitored \in BOOLEAN
    /\ pc \in [Calls -> {"idle", "form", "sent", "done", "unmoved", "list", "listed", "lost"}]
    /\ op \in [Calls -> [kind : Kinds, id : 0 .. MaxIds, row : Fields]]
    /\ answer \in [Calls -> Lists]
    /\ writes \in 0 .. MaxWrites
    /\ anchor \in [Ids -> Table \union {0}]
    /\ crossed \in BOOLEAN /\ astray \in BOOLEAN

Init ==
    /\ rows = Nothing /\ created = 0
    /\ now \in {t \in Instants : \A u \in Instants : t <= u}
    /\ list = Nothing /\ wrapped = FALSE /\ monitored = TRUE
    /\ pc = [c \in Calls |-> "idle"]
    /\ op = [c \in Calls |-> NoOp]
    /\ answer = [c \in Calls |-> Nothing]
    /\ writes = 0
    /\ anchor = [i \in Ids |-> 0]
    /\ crossed = FALSE /\ astray = FALSE

-----------------------------------------------------------------------------
(***************************************************************************)
(* The calendar                                                            *)
(***************************************************************************)

Month(d) == CHOOSE m \in 1 .. (Len(MonthStart) - 1) : d \in MonthStart[m] .. (MonthStart[m + 1] - 1)

\* time.Time.AddDate for months: a day the month does not have runs over into
\* the next one, so the 31st of January is followed by the 2nd or 3rd of March.
AddMonths(d, k) == MonthStart[Month(d) + k] + d - MonthStart[Month(d)]

\* calculateNextPaymentDate
NextPaymentDate(d, cycle) ==
    CASE cycle = "daily" -> d + 1
      [] cycle = "weekly" -> d + 7
      [] cycle = "monthly" -> AddMonths(d, 1)
      [] cycle = "yearly" -> AddMonths(d, 12)

Before(d, t) == 2 * d < t

\* The table of months goes on for a year after the last instant.
ASSUME TableAssumption ==
    \A d \in Table, t \in Instants : Before(d, t) =>
        /\ Month(d) + 12 < Len(MonthStart)
        /\ \A cycle \in {"daily", "weekly", "monthly", "yearly"} : NextPaymentDate(d, cycle) \in Table

\* Mistaken variant: the next payment is counted from today.
RenewedFromToday(d, cycle, t) == NextPaymentDate(t \div 2, cycle)

\* Mistaken variant: one period is added, however long the payment is overdue.
RenewedOnce(d, cycle, t) == NextPaymentDate(d, cycle)

\* The loop of RenewOverduePayments.
Renewed(d, cycle, t) ==
    LET from[x \in Table] == IF Before(x, t) THEN from[NextPaymentDate(x, cycle)] ELSE x
    IN  from[d]

-----------------------------------------------------------------------------
(***************************************************************************)
(* The server                                                              *)
(***************************************************************************)

\* The rows RenewOverduePayments reads.  Dates and the time are compared as
\* text, each in its own zone.  East of UTC a row may be read before it is
\* overdue; the loop then does nothing and the row is skipped, as one with a
\* cycle that the server does not know is.  West of UTC a row that is overdue by
\* less than the offset is not read.
Selected(i) == rows[i].status = "active" /\ 2 * rows[i].date < now + ZoneAhead
Overdue(i) == rows[i].status = "active" /\ Before(rows[i].date, now)
Moved == {i \in Ids : Selected(i) /\ Overdue(i) /\ Known(rows[i].cycle)}

\* The transaction: all rows or none.
RenewOverduePayments ==
    rows' = [i \in Ids |->
                IF i \in Moved
                THEN [rows[i] EXCEPT !.date = Renewed(@, rows[i].cycle, now)]
                ELSE rows[i]]

\* Mistaken variant: a subscription that is gone is put in again.
UpdateOrInsert(i, row) ==
    /\ rows' = [rows EXCEPT ![i] = [row EXCEPT !.status = IF rows[i] = NoRow THEN "active" ELSE rows[i].status]]
    /\ anchor' = [anchor EXCEPT ![i] = row.date]
    /\ UNCHANGED created

\* SubscriptionDB.Update replaces every column but the status with what the
\* form says, changed there or not.
Update(i, row) ==
    /\ rows[i] # NoRow
    /\ rows' = [rows EXCEPT ![i] = [row EXCEPT !.status = rows[i].status]]
    /\ anchor' = [anchor EXCEPT ![i] = row.date]
    /\ UNCHANGED created

Create(row) ==
    /\ created < MaxIds
    /\ created' = created + 1
    /\ rows' = [rows EXCEPT ![created + 1] = [row EXCEPT !.status = "active"]]
    /\ anchor' = [anchor EXCEPT ![created + 1] = row.date]

UpdateStatus(i, status) ==
    /\ rows[i] # NoRow
    /\ rows' = [rows EXCEPT ![i].status = status]
    /\ UNCHANGED <<created, anchor>>

Delete(i) ==
    /\ rows[i] # NoRow
    /\ rows' = [rows EXCEPT ![i] = NoRow]
    /\ UNCHANGED <<created, anchor>>

\* One handler of subscription/handler.go.
Handle(o) ==
    \/ o.kind = "create" /\ Create(o.row)
    \/ o.kind = "save" /\ Update(o.id, o.row)
    \/ o.kind = "status" /\ UpdateStatus(o.id, o.row.status)
    \/ o.kind = "delete" /\ Delete(o.id)
    \/ o.kind = "renew" /\ RenewOverduePayments /\ UNCHANGED <<created, anchor>>

\* What another client may ask for: whatever the API takes.
Asked ==
    LET row == [date : Dates, cycle : Cycles, status : {"active"}] IN
         [kind : {"create"}, id : {0}, row : row]
    \union [kind : {"save"}, id : Ids, row : row]
    \union [kind : {"status"}, id : Ids, row : {[NoRow EXCEPT !.status = s] : s \in Statuses}]
    \union [kind : {"delete", "renew"}, id : Ids, row : {NoRow}]

Elsewhere ==
    /\ writes < MaxWrites /\ writes' = writes + 1
    /\ \E o \in Asked : Handle(o)
    /\ astray' = TRUE
    /\ UNCHANGED <<now, page>>

-----------------------------------------------------------------------------
(***************************************************************************)
(* The page                                                                *)
(***************************************************************************)

Quiet == \A c \in Calls : pc[c] = "idle"
Goto(c, from, to) == pc[c] = from /\ pc' = [pc EXCEPT ![c] = to]
Begin == crossed' = (crossed \/ ~Quiet)
Stop(c) == op' = [op EXCEPT ![c] = NoOp] /\ answer' = [answer EXCEPT ![c] = Nothing]

\* The page is loaded: SubscriptionCalendarManager.initialize begins with
\* loadSubscriptions, while calendar.js loads its own data.
LoadPage(c) ==
    /\ Quiet
    /\ Goto(c, "idle", "list")
    /\ op' = [op EXCEPT ![c] = [NoOp EXCEPT !.kind = "init"]]
    /\ list' = Nothing /\ wrapped' = FALSE /\ monitored' = FALSE
    /\ crossed' = FALSE
    /\ UNCHANGED <<rows, created, now, answer, writes, anchor, astray>>

\* The last line of calendar.js' start.  If the wrapper is there, it asks for
\* the renewal, this once.
MonitorDateChange(c) ==
    /\ ~monitored
    /\ monitored' = TRUE
    /\ \/ /\ wrapped
          /\ Begin
          /\ Goto(c, "idle", "sent")
          /\ op' = [op EXCEPT ![c] = [NoOp EXCEPT !.kind = "renew"]]
       \/ ~wrapped /\ UNCHANGED <<crossed, pc, op>>
    /\ UNCHANGED <<rows, created, now, list, wrapped, answer, writes, anchor, astray>>

\* The cycles the page's forms offer.  The edit form shows the first of them for
\* a cycle that it does not.
Offered == Cycles \intersect {"monthly", "yearly"}
Shown(cycle) == IF cycle \in Offered THEN cycle ELSE "monthly"

\* The edit form is filled from the page's copy of the row, and may stay open
\* while the copy is loaded again.
OpenForm(c, i) ==
    /\ Begin
    /\ list[i] # NoRow
    /\ Goto(c, "idle", "form")
    /\ op' = [op EXCEPT ![c] = [kind |-> "save", id |-> i,
                                    row |-> [list[i] EXCEPT !.cycle = Shown(@)]]]
    /\ UNCHANGED <<rows, created, now, list, wrapped, monitored, answer, writes, anchor, astray>>

\* The user changes the date or the cycle, or some other field.
SaveForm(c) ==
    /\ writes < MaxWrites /\ writes' = writes + 1
    /\ Goto(c, "form", "sent")
    /\ \E d \in Dates \union {op[c].row.date}, cycle \in Offered :
          op' = [op EXCEPT ![c].row = [@ EXCEPT !.date = d, !.cycle = cycle]]
    /\ UNCHANGED <<rows, created, now, list, wrapped, monitored, answer, anchor, crossed, astray>>

\* handleSubmit of the add form, handleToggleStatus, handleCancellation,
\* handleDelete.  A dialog goes on showing a row as it was when it was opened, so
\* its buttons may ask for what the copy no longer suggests.
Press(c, o) ==
    /\ writes < MaxWrites /\ writes' = writes + 1
    /\ Begin
    /\ \/ o.kind = "create" /\ o.row.cycle \in Offered
       \/ o.kind \in {"status", "delete"} /\ o.id <= created
    /\ Goto(c, "idle", "sent")
    /\ op' = [op EXCEPT ![c] = o]
    /\ UNCHANGED <<rows, created, now, list, wrapped, monitored, answer, anchor, astray>>

\* showSubscriptionListModal, handleSubscriptionsUpdated
OpenList(c) ==
    /\ Begin
    /\ Goto(c, "idle", "list")
    /\ op' = [op EXCEPT ![c] = [NoOp EXCEPT !.kind = "view"]]
    /\ UNCHANGED <<rows, created, now, list, wrapped, monitored, answer, writes, anchor, astray>>

\* The request is handled, refused, or handled and its answer lost.  The answer
\* to a renewal says whether it moved anything; an error is only shown.
Serve(c) ==
    /\ \/ /\ Goto(c, "sent", IF op[c].kind = "renew" /\ Moved = {} THEN "unmoved" ELSE "done")
          /\ Handle(op[c])
          /\ UNCHANGED <<op, astray>>
       \/ /\ Goto(c, "sent", "idle")
          /\ op' = [op EXCEPT ![c] = NoOp]
          /\ \/ UNCHANGED <<rows, created, anchor, astray>>
             \/ Handle(op[c]) /\ astray' = TRUE
    /\ UNCHANGED <<now, list, wrapped, monitored, answer, writes, crossed>>

\* Mistaken variant: the change is made in the copy only.
ReadAnswerLocally(c) ==
    /\ pc[c] = "done"
    /\ list' = IF op[c].kind = "status" /\ list[op[c].id] # NoRow
               THEN [list EXCEPT ![op[c].id].status = op[c].row.status] ELSE list
    /\ pc' = [pc EXCEPT ![c] = IF op[c].kind \in {"status", "save"} THEN "idle" ELSE "list"]
    /\ IF op[c].kind \in {"status", "save"} THEN Stop(c) ELSE UNCHANGED <<op, answer>>
    /\ UNCHANGED <<rows, created, now, wrapped, monitored, writes, anchor, crossed, astray>>

\* A switched subscription is changed in the copy at once, and after every
\* success the list is loaded again; the handlers of the buttons do it once or
\* twice, which is the same for the copy.  A renewal that moved nothing is of no
\* interest to the page.
ReadAnswer(c) ==
    /\ \/ /\ Goto(c, "done", "list")
          /\ list' = IF op[c].kind = "status" /\ list[op[c].id] # NoRow
                     THEN [list EXCEPT ![op[c].id].status = op[c].row.status] ELSE list
          /\ UNCHANGED <<op, answer>>
       \/ Goto(c, "unmoved", "idle") /\ Stop(c) /\ UNCHANGED list
    /\ UNCHANGED <<rows, created, now, wrapped, monitored, writes, anchor, crossed, astray>>

\* loadSubscriptions at the server, or lost on the way there or back.
ServeList(c) ==
    /\ \/ /\ Goto(c, "list", "listed")
          /\ answer' = [answer EXCEPT ![c] = rows]
          /\ astray' = FALSE
       \/ /\ Goto(c, "list", "lost")
          /\ astray' = TRUE
          /\ UNCHANGED answer
    /\ UNCHANGED <<rows, created, now, list, wrapped, monitored, op, writes, anchor, crossed>>

\* Mistaken variant: the copy is kept if there is nothing to show.
ReadListUnlessEmpty(c) ==
    /\ pc[c] \in {"listed", "lost"} /\ pc' = [pc EXCEPT ![c] = "idle"]
    /\ list' = IF answer[c] = Nothing THEN list ELSE answer[c]
    /\ wrapped' = (wrapped \/ op[c].kind = "init")
    /\ Stop(c)
    /\ UNCHANGED <<rows, created, now, monitored, writes, anchor, crossed, astray>>

\* loadSubscriptions: a failure empties the copy.  The first load is followed
\* by setupAutoPaymentDateUpdate.
ReadList(c) ==
    /\ pc[c] \in {"listed", "lost"} /\ pc' = [pc EXCEPT ![c] = "idle"]
    /\ list' = IF pc[c] = "listed" THEN answer[c] ELSE Nothing
    /\ wrapped' = (wrapped \/ op[c].kind = "init")
    /\ Stop(c)
    /\ UNCHANGED <<rows, created, now, monitored, writes, anchor, crossed, astray>>

CloseForm(c) ==
    /\ Goto(c, "form", "idle")
    /\ Stop(c)
    /\ UNCHANGED <<rows, created, now, list, wrapped, monitored, writes, anchor, crossed, astray>>

Tick ==
    /\ now' \in {t \in Instants : t > now}
    /\ UNCHANGED <<rows, created, page, writes, anchor, astray>>

Next ==
    \/ Elsewhere
    \/ \E c \in Calls :
          \/ LoadPage(c) \/ MonitorDateChange(c)
          \/ \E i \in Ids : OpenForm(c, i)
          \/ SaveForm(c)
          \/ \E o \in Asked : Press(c, o)
          \/ OpenList(c)
          \/ Serve(c) \/ ReadAnswer(c) \/ ServeList(c) \/ ReadList(c) \/ CloseForm(c)
    \/ Tick

Spec == Init /\ [][Next]_vars

-----------------------------------------------------------------------------
(***************************************************************************)
(* Properties                                                              *)
(***************************************************************************)

\* Where going from payment to payment leads, from a first one on, as long as
\* they are over and come before the one that the row says is next.
Reached(row, first, t) ==
    LET from[x \in Table] ==
            IF x < row.date /\ Known(row.cycle) /\ Before(x, t)
            THEN from[NextPaymentDate(x, row.cycle)] ELSE x
    IN  from[first]

\* Whatever was renewed early, late or twice, edited from an old copy or
\* switched off for a while: the next payment is on the schedule that begins
\* with the date last entered, and no payment before it is still to come.
OnSchedule ==
    \A i \in Ids : rows[i] # NoRow => Reached(rows[i], anchor[i], now) = rows[i].date

\* How far the text comparison looks: on a server west of UTC, not up to now.
Reach == IF ZoneAhead < 0 THEN now + ZoneAhead ELSE now

\* However long nobody has asked, and whatever other rows there are: a renewal
\* that is answered leaves no active subscription with a cycle the server knows
\* overdue, but for one that on a server west of UTC is overdue by less than the
\* offset (subscription.go:94).
RenewalCatchesUp ==
    [][\A c \in Calls :
          pc[c] = "sent" /\ op[c].kind = "renew" /\ pc'[c] \in {"done", "unmoved"} =>
              \A i \in Ids : rows'[i].status = "active" /\ Known(rows'[i].cycle) =>
                                ~Before(rows'[i].date, Reach)]_vars

\* When nothing is under way, the page's copy is what the server has, unless
\* chains have crossed, another client has written, or something was lost.
ListFollows == ~crossed /\ ~astray /\ Quiet => list = rows
=============================================================================
