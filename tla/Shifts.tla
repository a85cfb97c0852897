------------------------------- MODULE Shifts --------------------------------
(***************************************************************************)
(* Shifts and the calendar.  A post of shifts (handleShiftPost, main.go)   *)
(* writes the shifts table of shift.db entry by entry, clears the shift    *)
(* entries of the calendar in schedule.db and creates them again; the      *)
(* schedule handlers (schedule/) edit the same calendar and store          *)
(* attachments.  No step of this is in a transaction: one action is one    *)
(* statement or file operation, any of them may fail, requests overlap,    *)
(* and the process may stop between any two.                               *)
(*                                                                         *)
(* A table row is what it says, not its id, so equal rows are one.         *)
(***************************************************************************)
EXTENDS Integers, Sequences, SequencesExt

CONSTANTS
    Users,
    Workers,   \* requests in flight
    Shift,     \* shift entries, with date, time and place
    Batches,   \* what a post may contain: sequences of shift entries
    MaxFiles   \* bound: attachments ever uploaded

ASSUME ShiftsAssumption == Batches \subseteq Seq(Shift) /\ MaxFiles \in Nat

VARIABLES
    known,     \* the users in the users table of shift.db, which no code writes
    shifts,    \* shifts: the entries stored for each user
    calendar,  \* schedules: the rows of each user's calendar
    files,     \* CalendarDir, by number in place of the uuid
    pc, who,   \* what each request does next, and for whom
    batch, at, \* the posted shifts and the next one to store
    draft,     \* the row a schedule handler is about to insert
    kept,      \* history: entries answered 201 and not deleted since
    undone,    \* history: posts that a deletion of the same user's shifts overlapped
    gone,      \* history: entries that were deleted at least once
    round,     \* history: the posts of the latest uninterrupted stretch
    faulty     \* history: a statement failed or a shift was taken from the calendar since

vars == <<known, shifts, calendar, files, pc, who, batch, at, draft,
          kept, undone, gone, round, faulty>>

stores == <<known, shifts, calendar, files>>
history == <<kept, undone, gone, round, faulty>>

\* Only a post writes titles that begin with "[シフト]", unless a user types one.
ShiftRows == [kind : {"shift"}, shift : Shift]

\* The file an own entry's attachment names, and whether it was uploaded with
\* the entry.  NoFile stands for no attachment and for a name that is no file's.
NoFile == 0
OwnRows == [kind : {"own"}, file : 0 .. MaxFiles, uploaded : BOOLEAN]
Typed == [kind |-> "typed"]
Rows == ShiftRows \union OwnRows \union {Typed}
NoRow == [kind |-> "none"]
Prefixed(rows) == {r \in rows : r.kind \in {"shift", "typed"}}

AsRows(b) == {[kind |-> "shift", shift |-> s] : s \in ToSet(b)}

TypeOK ==
    /\ known \subseteq Users
    /\ shifts \in [Users -> SUBSET Shift]
    /\ calendar \in [Users -> SUBSET Rows]
    /\ files \in [1 .. MaxFiles -> {"absent", "partial", "whole"}]
    /\ pc \in [Workers -> {"idle", "register", "fill", "copy", "insert"}]
    /\ who \in [Workers -> Users]
    /\ batch \in [Workers -> Batches \union {<<>>}]
    /\ at \in [Workers -> Nat] /\ \A w \in Workers : at[w] \in 1 .. (Len(batch[w]) + 1)
    /\ draft \in [Workers -> OwnRows \union {Typed, NoRow}]
    /\ kept \in [Users -> SUBSET Shift] /\ gone \in [Users -> SUBSET Shift]
    /\ undone \subseteq Workers
    /\ round \in [Users -> SUBSET Batches]
    /\ faulty \subseteq Users

Init ==
    /\ known \in SUBSET Users
    /\ shifts = [u \in Users |-> {}]
    /\ calendar = [u \in Users |-> {}]
    /\ files = [f \in 1 .. MaxFiles |-> "absent"]
    /\ pc = [w \in Workers |-> "idle"]
    /\ who \in [Workers -> Users]
    /\ batch = [w \in Workers |-> <<>>] /\ at = [w \in Workers |-> 1]
    /\ draft = [w \in Workers |-> NoRow]
    /\ kept = [u \in Users |-> {}] /\ gone = [u \in Users |-> {}]
    /\ undone = {} /\ faulty = {}
    /\ round = [u \in Users |-> {}]

Goto(w, from, to) == pc[w] = from /\ pc' = [pc EXCEPT ![w] = to]

Posting(u) == {w \in Workers : who[w] = u /\ pc[w] \in {"register", "fill"}}

Faulty(u) == faulty' = faulty \union {u}

\* The request is over: its locals are gone.
Forget(w) ==
    /\ batch' = [batch EXCEPT ![w] = <<>>] /\ at' = [at EXCEPT ![w] = 1]
    /\ undone' = undone \ {w}

-----------------------------------------------------------------------------
\* handleShiftPost up to the look-up of the user in shift.db: one who is not
\* there is turned away.
PostShifts(w, u, b) ==
    /\ u \in known
    /\ Goto(w, "idle", "register")
    /\ who' = [who EXCEPT ![w] = u]
    /\ batch' = [batch EXCEPT ![w] = b]
    /\ round' = [round EXCEPT ![u] = IF Posting(u) = {} THEN {b} ELSE @ \union {b}]
    /\ faulty' = IF Posting(u) = {} THEN faulty \ {u} ELSE faulty
    /\ UNCHANGED <<stores, at, draft, kept, undone, gone>>

\* Mistaken variant: a failure is logged and the next entry registered.
RegisterShiftLogging(w) ==
    LET u == who[w]
        next == at[w] + 1
    IN  /\ at[w] <= Len(batch[w])
        /\ Goto(w, "register", "register")
        /\ at' = [at EXCEPT ![w] = next]
        /\ \/ /\ shifts' = [shifts EXCEPT ![u] = @ \union {batch[w][at[w]]}]
              /\ UNCHANGED faulty
           \/ /\ Faulty(u)
              /\ UNCHANGED shifts
        /\ UNCHANGED <<known, calendar, files, who, batch, draft, kept, undone, gone, round>>

\* Mistaken variant: a post replaces the table as it replaces the calendar.
RegisterShiftReplacing(w) ==
    LET u == who[w] IN
    /\ at[w] <= Len(batch[w])
    /\ Goto(w, "register", "register")
    /\ shifts' = [shifts EXCEPT ![u] = (IF at[w] = 1 THEN {} ELSE @) \union {batch[w][at[w]]}]
    /\ at' = [at EXCEPT ![w] = @ + 1]
    /\ UNCHANGED <<known, calendar, files, who, batch, draft, history>>

\* registerShift for the next entry.  A failure ends the request with 500 and
\* leaves the entries before it registered.
RegisterShift(w) ==
    LET u == who[w] IN
    /\ at[w] <= Len(batch[w])
    /\ \/ /\ Goto(w, "register", "register")
          /\ shifts' = [shifts EXCEPT ![u] = @ \union {batch[w][at[w]]}]
          /\ at' = [at EXCEPT ![w] = @ + 1]
          /\ UNCHANGED <<batch, undone, faulty>>
       \/ /\ Goto(w, "register", "idle")
          /\ Forget(w) /\ Faulty(u)
          /\ UNCHANGED shifts
    /\ UNCHANGED <<known, calendar, files, who, draft, kept, gone, round>>

\* Mistaken variants: nothing to create, nothing to clear; or the prefix of
\* the title is forgotten.
ClearShiftRowsIfAny(w) ==
    LET u == who[w] IN
    /\ at[w] = Len(batch[w]) + 1
    /\ Goto(w, "register", "fill")
    /\ at' = [at EXCEPT ![w] = 1]
    /\ calendar' = [calendar EXCEPT ![u] = IF batch[w] = <<>> THEN @ ELSE @ \ Prefixed(@)]
    /\ UNCHANGED <<known, shifts, files, who, batch, draft, history>>

ClearAllRows(w) ==
    LET u == who[w] IN
    /\ at[w] = Len(batch[w]) + 1
    /\ Goto(w, "register", "fill")
    /\ at' = [at EXCEPT ![w] = 1]
    /\ calendar' = [calendar EXCEPT ![u] = {}]
    /\ UNCHANGED <<known, shifts, files, who, batch, draft, history>>

\* DeleteByTitlePrefix, whose failure is only logged.
ClearShiftRows(w) ==
    LET u == who[w] IN
    /\ at[w] = Len(batch[w]) + 1
    /\ Goto(w, "register", "fill")
    /\ at' = [at EXCEPT ![w] = 1]
    /\ \/ /\ calendar' = [calendar EXCEPT ![u] = @ \ Prefixed(@)]
          /\ UNCHANGED faulty
       \/ /\ Faulty(u)
          /\ UNCHANGED calendar
    /\ UNCHANGED <<known, shifts, files, who, batch, draft, kept, undone, gone, round>>

\* Create for the next entry, whose failure is only logged.
FillCalendar(w) ==
    LET u == who[w] IN
    /\ at[w] <= Len(batch[w])
    /\ Goto(w, "fill", "fill")
    /\ at' = [at EXCEPT ![w] = @ + 1]
    /\ \/ /\ calendar' = [calendar EXCEPT ![u] =
                            @ \union {[kind |-> "shift", shift |-> batch[w][at[w]]]}]
          /\ UNCHANGED faulty
       \/ /\ Faulty(u)
          /\ UNCHANGED calendar
    /\ UNCHANGED <<known, shifts, files, who, batch, draft, kept, undone, gone, round>>

\* 201 Created.
AnswerCreated(w) ==
    LET u == who[w] IN
    /\ at[w] = Len(batch[w]) + 1
    /\ Goto(w, "fill", "idle")
    /\ kept' = IF w \in undone THEN kept
               ELSE [kept EXCEPT ![u] = @ \union ToSet(batch[w])]
    /\ Forget(w)
    /\ UNCHANGED <<stores, who, draft, gone, round, faulty>>

\* deleteAllShiftsForUser: the calendar is not looked at.
DeleteShifts(u) ==
    /\ u \in known
    /\ shifts' = [shifts EXCEPT ![u] = {}]
    /\ kept' = [kept EXCEPT ![u] = {}]
    /\ gone' = [gone EXCEPT ![u] = @ \union shifts[u]]
    /\ undone' = undone \union Posting(u)
    /\ UNCHANGED <<known, calendar, files, pc, who, batch, at, draft, round, faulty>>

-----------------------------------------------------------------------------
\* The names a request's JSON may give an attachment that is not uploaded.
Named == {NoFile} \union {f \in DOMAIN files : files[f] # "absent"}

\* schedule.Handler.Create: an attachment that comes with the request is
\* created and copied first; without one the name in the JSON is taken as it is.
CreateSchedule(w, u) ==
    /\ who' = [who EXCEPT ![w] = u]
    /\ \/ \E r \in {Typed} \union [kind : {"own"}, file : Named, uploaded : {FALSE}] :
            /\ Goto(w, "idle", "insert")
            /\ draft' = [draft EXCEPT ![w] = r]
            /\ UNCHANGED files
       \/ \E f \in DOMAIN files :
            /\ files[f] = "absent" /\ \A g \in 1 .. (f - 1) : files[g] # "absent"
            /\ Goto(w, "idle", "copy")
            /\ draft' = [draft EXCEPT ![w] = [kind |-> "own", file |-> f, uploaded |-> TRUE]]
            /\ files' = [files EXCEPT ![f] = "partial"]
    /\ UNCHANGED <<known, shifts, calendar, batch, at, history>>

\* Mistaken variant: a short copy is logged and the row inserted.
CopyAttachmentLogging(w) ==
    /\ Goto(w, "copy", "insert")
    /\ \/ files' = [files EXCEPT ![draft[w].file] = "whole"]
       \/ UNCHANGED files
    /\ UNCHANGED <<known, shifts, calendar, who, batch, at, draft, history>>

\* io.Copy; a short copy is answered 500 and stays where it is.
CopyAttachment(w) ==
    /\ \/ /\ Goto(w, "copy", "insert")
          /\ files' = [files EXCEPT ![draft[w].file] = "whole"]
          /\ UNCHANGED draft
       \/ /\ Goto(w, "copy", "idle")
          /\ draft' = [draft EXCEPT ![w] = NoRow]
          /\ UNCHANGED files
    /\ UNCHANGED <<known, shifts, calendar, who, batch, at, history>>

\* ScheduleDB.Create; a failure leaves the attachment without a row.
InsertSchedule(w) ==
    LET u == who[w] IN
    /\ Goto(w, "insert", "idle")
    /\ draft' = [draft EXCEPT ![w] = NoRow]
    /\ \/ calendar' = [calendar EXCEPT ![u] = @ \union {draft[w]}]
       \/ UNCHANGED calendar
    /\ UNCHANGED <<known, shifts, files, who, batch, at, history>>

\* ScheduleDB.Delete and DeleteAll: rows go, attachments stay.
DeleteSchedules(u, rows) ==
    /\ rows # {}
    /\ calendar' = [calendar EXCEPT ![u] = @ \ rows]
    /\ faulty' = IF \E r \in rows : r.kind = "shift" THEN faulty \union {u} ELSE faulty
    /\ UNCHANGED <<known, shifts, files, pc, who, batch, at, draft, kept, undone, gone,
                   round>>

\* The process stops and starts again: what is stored stays.
Restart ==
    /\ pc' = [w \in Workers |-> "idle"]
    /\ batch' = [w \in Workers |-> <<>>] /\ at' = [w \in Workers |-> 1]
    /\ draft' = [w \in Workers |-> NoRow]
    /\ undone' = {}
    /\ faulty' = faulty \union {u \in Users : Posting(u) # {}}
    /\ UNCHANGED <<stores, who, kept, gone, round>>

Next ==
    \/ \E u \in Users :
          \/ DeleteShifts(u)
          \/ \E rows \in {calendar[u]} \union {{r} : r \in calendar[u]} : DeleteSchedules(u, rows)
    \/ \E w \in Workers :
          \/ \E u \in Users : CreateSchedule(w, u)
          \/ \E u \in Users, b \in Batches : PostShifts(w, u, b)
          \/ RegisterShift(w) \/ ClearShiftRows(w) \/ FillCalendar(w) \/ AnswerCreated(w)
          \/ CopyAttachment(w) \/ InsertSchedule(w)
    \/ Restart

Spec == Init /\ [][Next]_vars

-----------------------------------------------------------------------------
(***************************************************************************)
(* Properties                                                              *)
(***************************************************************************)

\* Posts replace the shifts in the calendar.  When a stretch of overlapping
\* posts in which no statement failed and nobody edited the calendar is over,
\* the calendar shows one of them whole and nothing but theirs.
CalendarFollows ==
    \A u \in Users :
        LET shown == {r \in calendar[u] : r.kind = "shift"} IN
        Posting(u) = {} /\ u \notin faulty /\ round[u] # {} =>
            /\ shown \subseteq UNION {AsRows(b) : b \in round[u]}
            /\ \E b \in round[u] : AsRows(b) \subseteq shown

\* A post answered 201 has stored all its shifts, and they stay until the user
\* deletes them, whatever other requests are under way.
CreatedMeansStored == \A u \in Users : kept[u] \subseteq shifts[u]

\* The calendar shows no shift the shifts table never had: whichever
\* statements fail, a shift it does not have now was deleted from it.
CalendarBacked ==
    \A u \in Users : \A r \in calendar[u] :
        r.kind = "shift" => r.shift \in shifts[u] \union gone[u]

\* Posts take away no entry of any user's own, unless its title begins as
\* those of shifts do.
OwnEntriesStay ==
    [][\A u \in Users :
          LET own(rows) == {r \in rows : r.kind = "own"} IN
          ~(own(calendar[u]) \subseteq own(calendar'[u])) =>
              \E rows \in {calendar[u]} \union {{r} : r \in calendar[u]} :
                  DeleteSchedules(u, rows)]_vars

\* An attachment uploaded with an entry of the calendar is there and complete,
\* whichever steps of which uploads failed: what cannot be fetched is a name
\* that a client sent without the file.
AttachmentsWhole ==
    \A u \in Users : \A r \in calendar[u] :
        r.kind = "own" /\ r.uploaded =>
            r.file # NoFile /\ files[r.file] = "whole"
=============================================================================
