---------------------------- MODULE ShiftsProofs ----------------------------
(***************************************************************************)
(* What the shifts table, the calendar and the attachments have to do with *)
(* each other, for any users, requests in flight and posts.  A request     *)
(* carries what it has read and done from one statement to the next, so    *)
(* the invariant says what that is still worth once others have run.       *)
(***************************************************************************)
EXTENDS Shifts, SequenceTheorems, TLAPS

Posts(w) == pc[w] \in {"register", "fill"}

\* A request that posts no shifts holds none.
Resting == \A w \in Workers : ~Posts(w) => batch[w] = <<>>

\* Who is about to insert an entry with an upload has copied it whole.
Uploads ==
    \A w \in Workers :
        /\ pc[w] = "copy" => draft[w] \in OwnRows /\ draft[w].file # NoFile
        /\ pc[w] = "insert" => draft[w] \in OwnRows \union {Typed}
        /\ pc[w] = "insert" /\ draft[w].kind = "own" /\ draft[w].uploaded =>
               draft[w].file # NoFile /\ files[draft[w].file] = "whole"

\* The entries of a post that have been registered.
Registered(w) ==
    {batch[w][i] : i \in IF pc[w] = "register" THEN 1 .. (at[w] - 1) ELSE DOMAIN batch[w]}

\* They are in the table unless a deletion overlapped the post, and if one did
\* they were deleted.
Backed ==
    \A w \in Workers : Posts(w) =>
        /\ w \notin undone => Registered(w) \subseteq shifts[who[w]]
        /\ Registered(w) \subseteq shifts[who[w]] \union gone[who[w]]

Shown(u) == {r \in calendar[u] : r.kind = "shift"}

\* The rows a post has created since it cleared the calendar.
Created(w) == {[kind |-> "shift", shift |-> batch[w][i]] : i \in 1 .. (at[w] - 1)}

\* The calendar shows nothing but shifts of this stretch of posts, and of one
\* of them, the last to clear it, all that it has created so far.
Cleared(u) ==
    /\ Shown(u) \subseteq UNION {AsRows(b) : b \in round[u]}
    /\ \/ \E b \in round[u] : AsRows(b) \subseteq Shown(u)
       \/ \E w \in Workers : who[w] = u /\ pc[w] = "fill" /\ Created(w) \subseteq Shown(u)

Follows ==
    /\ \A w \in Workers : Posts(w) => batch[w] \in round[who[w]]
    /\ \A u \in Users : u \notin faulty /\ round[u] # {} =>
          \/ Cleared(u)
          \/ Posting(u) # {} /\ \A w \in Posting(u) : pc[w] = "register"

IInv ==
    /\ TypeOK /\ Resting
    /\ Uploads /\ AttachmentsWhole
    /\ Backed /\ CreatedMeansStored /\ CalendarBacked
    /\ Follows

-----------------------------------------------------------------------------
LEMMA BatchesAreSequences ==
    ASSUME NEW b \in Batches \union {<<>>}
    PROVE  /\ b \in Seq(Shift) /\ Len(b) \in Nat /\ DOMAIN b = 1 .. Len(b)
           /\ \A i \in 1 .. Len(b) : b[i] \in Shift
           /\ ToSet(b) \subseteq Shift
<1>1. b \in Seq(Shift)
  BY ShiftsAssumption, EmptySeq
<1>2. Len(b) \in Nat /\ DOMAIN b = 1 .. Len(b) /\ \A i \in 1 .. Len(b) : b[i] \in Shift
  BY <1>1
<1> QED
  BY <1>1, <1>2 DEF ToSet

LEMMA InitIInv == Init => IInv
<1> SUFFICES ASSUME Init PROVE IInv
  OBVIOUS
<1> USE ShiftsAssumption
<1>1. /\ pc = [w \in Workers |-> "idle"] /\ batch = [w \in Workers |-> <<>>]
      /\ at = [w \in Workers |-> 1] /\ draft = [w \in Workers |-> NoRow]
      /\ calendar = [u \in Users |-> {}] /\ kept = [u \in Users |-> {}]
      /\ round = [u \in Users |-> {}]
  BY DEF Init
<1>2. TypeOK
  <2>1. Len(<<>>) = 0
    OBVIOUS
  <2> QED
    BY <1>1, <2>1 DEF Init, TypeOK
<1>3. \A w \in Workers : pc[w] = "idle" /\ ~Posts(w)
  BY <1>1 DEF Posts
<1> QED
  BY <1>1, <1>2, <1>3 DEF IInv, Resting, Uploads, AttachmentsWhole, Backed,
     CreatedMeansStored, CalendarBacked, Follows
-----------------------------------------------------------------------------
(***************************************************************************)
(* Types                                                                   *)
(***************************************************************************)

LEMMA WorkerTypes ==
    ASSUME TypeOK, NEW w \in Workers
    PROVE  /\ who[w] \in Users
           /\ batch[w] \in Batches \union {<<>>}
           /\ at[w] \in Nat /\ at[w] \in 1 .. (Len(batch[w]) + 1)
           /\ Len(batch[w]) \in Nat /\ DOMAIN batch[w] = 1 .. Len(batch[w])
           /\ \A i \in 1 .. Len(batch[w]) : batch[w][i] \in Shift
           /\ ToSet(batch[w]) \subseteq Shift
<1>1. batch[w] \in Batches \union {<<>>}
  BY DEF TypeOK
<1> QED
  BY <1>1, BatchesAreSequences DEF TypeOK

LEMMA PostTypes ==
    ASSUME TypeOK, Resting, NEW w \in Workers, NEW u \in Users, NEW b \in Batches,
           PostShifts(w, u, b)
    PROVE  TypeOK' /\ Resting'
<1>1. at[w] = 1 /\ Len(b) \in Nat
  <2>1. batch[w] = <<>> /\ Len(<<>>) = 0
    BY EmptySeq DEF Resting, Posts, PostShifts, Goto
  <2> QED
    BY <2>1, WorkerTypes, BatchesAreSequences
<1>2. batch' = [batch EXCEPT ![w] = b] /\ at' = at /\ pc' = [pc EXCEPT ![w] = "register"]
  BY DEF PostShifts, Goto
<1>3. \A v \in Workers : at'[v] \in 1 .. (Len(batch'[v]) + 1)
  BY <1>1, <1>2 DEF TypeOK
<1>4. round' \in [Users -> SUBSET Batches] /\ faulty' \subseteq Users
  BY DEF PostShifts, TypeOK
<1>5. TypeOK'
  BY <1>2, <1>3, <1>4 DEF PostShifts, TypeOK, stores
<1> QED
  BY <1>2, <1>5 DEF TypeOK, Resting, Posts

LEMMA NamedFiles == ASSUME TypeOK PROVE Named \subseteq 0 .. MaxFiles
BY ShiftsAssumption DEF Named, NoFile, TypeOK

LEMMA StepTypes == TypeOK /\ Resting /\ Uploads /\ [Next]_vars => TypeOK' /\ Resting'
<1> SUFFICES ASSUME TypeOK, Resting, Uploads, [Next]_vars PROVE TypeOK' /\ Resting'
  OBVIOUS
<1>0. Len(<<>>) = 0
  BY EmptySeq
<1>1. ASSUME NEW w \in Workers, RegisterShift(w)
      PROVE  TypeOK' /\ Resting'
  <2>1. batch[w][at[w]] \in Shift /\ who[w] \in Users /\ at[w] \in Nat
    BY <1>1, WorkerTypes DEF RegisterShift
  <2>2. shifts' \in [Users -> SUBSET Shift] /\ faulty' \subseteq Users
    <3>1. shifts[who[w]] \union {batch[w][at[w]]} \in SUBSET Shift
      BY <2>1 DEF TypeOK
    <3>2. shifts' \in [Users -> SUBSET Shift]
      BY <1>1, <3>1 DEF RegisterShift, TypeOK
    <3>3. faulty' \subseteq Users
      BY <1>1, <2>1 DEF RegisterShift, TypeOK, Faulty
    <3> QED
      BY <3>2, <3>3
  <2>3. CASE /\ Goto(w, "register", "register")
             /\ at' = [at EXCEPT ![w] = @ + 1]
             /\ UNCHANGED <<batch, undone>>
    <3>1. \A v \in Workers : at'[v] \in 1 .. (Len(batch'[v]) + 1)
      BY <1>1, <2>1, <2>3, WorkerTypes DEF TypeOK, RegisterShift
    <3> QED
      BY <1>1, <2>1, <2>2, <2>3, <3>1 DEF RegisterShift, TypeOK, Resting, Posts, Goto
  <2>4. CASE Goto(w, "register", "idle") /\ Forget(w)
    BY <1>0, <1>1, <2>1, <2>2, <2>4 DEF RegisterShift, TypeOK, Resting, Posts, Goto, Forget
  <2> QED
    BY <1>1, <2>3, <2>4 DEF RegisterShift
<1>2. ASSUME NEW w \in Workers, ClearShiftRows(w)
      PROVE  TypeOK' /\ Resting'
  <2>1. Len(batch[w]) \in Nat /\ who[w] \in Users
    BY WorkerTypes
  <2>2. calendar' \in [Users -> SUBSET Rows] /\ faulty' \subseteq Users
    BY <1>2, <2>1 DEF ClearShiftRows, TypeOK, Faulty
  <2> QED
    BY <1>2, <2>1, <2>2 DEF ClearShiftRows, TypeOK, Resting, Posts, Goto
<1>3. ASSUME NEW w \in Workers, FillCalendar(w)
      PROVE  TypeOK' /\ Resting'
  <2>1. batch[w][at[w]] \in Shift /\ who[w] \in Users /\ at[w] \in Nat
    BY <1>3, WorkerTypes DEF FillCalendar
  <2>2. [kind |-> "shift", shift |-> batch[w][at[w]]] \in Rows
    BY <2>1 DEF Rows, ShiftRows
  <2>3. calendar' \in [Users -> SUBSET Rows] /\ faulty' \subseteq Users
    <3> DEFINE row == [kind |-> "shift", shift |-> batch[w][at[w]]]
    <3> HIDE DEF row
    <3>1. row \in Rows
      BY <2>2 DEF row
    <3>2. calendar' = [calendar EXCEPT ![who[w]] = @ \union {row}] \/ calendar' = calendar
      BY <1>3 DEF FillCalendar, row
    <3>3. faulty' \subseteq Users
      BY <1>3, <2>1 DEF FillCalendar, TypeOK, Faulty
    <3>4. calendar[who[w]] \union {row} \in SUBSET Rows
      BY <2>1, <3>1 DEF TypeOK
    <3>5. calendar \in [Users -> SUBSET Rows]
      BY DEF TypeOK
    <3> QED
      BY ONLY <2>1, <3>2, <3>3, <3>4, <3>5
  <2>4. \A v \in Workers : at'[v] \in 1 .. (Len(batch'[v]) + 1)
    BY <1>3, <2>1, WorkerTypes DEF TypeOK, FillCalendar
  <2> QED
    BY <1>3, <2>1, <2>3, <2>4 DEF FillCalendar, TypeOK, Resting, Posts, Goto
<1>4. ASSUME NEW w \in Workers, AnswerCreated(w)
      PROVE  TypeOK' /\ Resting'
  <2>1. ToSet(batch[w]) \subseteq Shift /\ who[w] \in Users
    BY WorkerTypes
  <2>2. kept' \in [Users -> SUBSET Shift]
    BY <1>4, <2>1 DEF AnswerCreated, TypeOK
  <2> QED
    BY <1>0, <1>4, <2>2 DEF AnswerCreated, TypeOK, Resting, Posts, Goto, Forget, stores
<1>5. ASSUME NEW u \in Users, DeleteShifts(u)
      PROVE  TypeOK' /\ Resting'
  <2>1. /\ shifts' \in [Users -> SUBSET Shift] /\ kept' \in [Users -> SUBSET Shift]
        /\ gone' \in [Users -> SUBSET Shift] /\ undone' \subseteq Workers
    BY <1>5 DEF DeleteShifts, TypeOK, Posting
  <2> QED
    BY <1>5, <2>1 DEF DeleteShifts, TypeOK, Resting, Posts
<1>6. ASSUME NEW w \in Workers, NEW u \in Users, CreateSchedule(w, u)
      PROVE  TypeOK' /\ Resting'
  <2>0. ShiftsAssumption
    BY ShiftsAssumption
  <2>1. CASE \E r \in {Typed} \union [kind : {"own"}, file : Named, uploaded : {FALSE}] :
                 /\ Goto(w, "idle", "insert")
                 /\ draft' = [draft EXCEPT ![w] = r]
                 /\ UNCHANGED files
    <3>1. [kind : {"own"}, file : Named, uploaded : {FALSE}] \subseteq OwnRows
      BY NamedFiles DEF OwnRows
    <3>2. draft' \in [Workers -> OwnRows \union {Typed, NoRow}]
      BY <2>1, <3>1 DEF TypeOK
    <3> QED
      BY <1>6, <2>1, <3>2 DEF CreateSchedule, TypeOK, Resting, Posts, Goto, history
  <2>2. CASE \E f \in DOMAIN files :
                 /\ Goto(w, "idle", "copy")
                 /\ draft' = [draft EXCEPT ![w] = [kind |-> "own", file |-> f, uploaded |-> TRUE]]
                 /\ files' = [files EXCEPT ![f] = "partial"]
    <3>1. \A f \in DOMAIN files : [kind |-> "own", file |-> f, uploaded |-> TRUE] \in OwnRows
      BY <2>0 DEF OwnRows, ShiftsAssumption, TypeOK
    <3>2. /\ draft' \in [Workers -> OwnRows \union {Typed, NoRow}]
          /\ files' \in [1 .. MaxFiles -> {"absent", "partial", "whole"}]
      BY <2>2, <3>1 DEF TypeOK
    <3> QED
      BY <1>6, <2>2, <3>2 DEF CreateSchedule, TypeOK, Resting, Posts, Goto, history
  <2> QED
    BY <1>6, <2>1, <2>2 DEF CreateSchedule
<1>7. ASSUME NEW w \in Workers, CopyAttachment(w)
      PROVE  TypeOK' /\ Resting'
  <2>1. files' \in [1 .. MaxFiles -> {"absent", "partial", "whole"}]
    BY <1>7 DEF CopyAttachment, TypeOK
  <2>2. draft' \in [Workers -> OwnRows \union {Typed, NoRow}]
    BY <1>7 DEF CopyAttachment, TypeOK
  <2> QED
    BY <1>7, <2>1, <2>2 DEF CopyAttachment, TypeOK, Resting, Posts, Goto, history
<1>8. ASSUME NEW w \in Workers, InsertSchedule(w)
      PROVE  TypeOK' /\ Resting'
  <2>1. draft[w] \in Rows /\ who[w] \in Users
    BY <1>8, WorkerTypes DEF InsertSchedule, Goto, Uploads, Rows
  <2>2. calendar' \in [Users -> SUBSET Rows]
    <3>1. calendar[who[w]] \union {draft[w]} \in SUBSET Rows
      BY <2>1 DEF TypeOK
    <3> QED
      BY <1>8, <3>1 DEF InsertSchedule, TypeOK
  <2>3. draft' \in [Workers -> OwnRows \union {Typed, NoRow}]
    BY <1>8 DEF InsertSchedule, TypeOK
  <2> QED
    BY <1>8, <2>2, <2>3 DEF InsertSchedule, TypeOK, Resting, Posts, Goto, history
<1>9. ASSUME NEW u \in Users, NEW rows, DeleteSchedules(u, rows)
      PROVE  TypeOK' /\ Resting'
  <2>1. calendar' \in [Users -> SUBSET Rows] /\ faulty' \subseteq Users
    BY <1>9 DEF DeleteSchedules, TypeOK
  <2> QED
    BY <1>9, <2>1 DEF DeleteSchedules, TypeOK, Resting, Posts
<1>10. CASE Restart
  BY <1>0, <1>10 DEF Restart, TypeOK, Resting, Posts, stores
<1>11. CASE UNCHANGED vars
  BY <1>11 DEF vars, TypeOK, Resting, Posts
<1> QED
  BY <1>1, <1>2, <1>3, <1>4, <1>5, <1>6, <1>7, <1>8, <1>9, <1>10, <1>11, PostTypes DEF Next

-----------------------------------------------------------------------------
(***************************************************************************)
(* Attachments                                                             *)
(***************************************************************************)

LEMMA RowShapes ==
    ASSUME NEW r \in Rows
    PROVE  /\ r.kind = "own" => r \in OwnRows /\ r.file \in 0 .. MaxFiles
           /\ r.kind = "shift" => r \in ShiftRows /\ r.shift \in Shift
           /\ r \in OwnRows \union {Typed} => r.kind # "shift"
           /\ r \in OwnRows => /\ r.kind = "own" /\ r.file \in 0 .. MaxFiles
                              /\ r.uploaded \in BOOLEAN
           /\ Typed.kind = "typed"
BY DEF Rows, ShiftRows, OwnRows, Typed

\* What becomes of the calendar.
LEMMA OneCalendar ==
    ASSUME TypeOK, NEW v \in Users, NEW rows, calendar' = [calendar EXCEPT ![v] = rows]
    PROVE  calendar'[v] = rows /\ \A u \in Users \ {v} : calendar'[u] = calendar[u]
BY DEF TypeOK

RowOf(s) == [kind |-> "shift", shift |-> s]

LEMMA Clears ==
    ASSUME TypeOK, NEW w \in Workers, ClearShiftRows(w)
    PROVE  \/ calendar' = calendar /\ faulty' = faulty \union {who[w]}
           \/ /\ faulty' = faulty
              /\ calendar'[who[w]] = calendar[who[w]] \ Prefixed(calendar[who[w]])
              /\ \A u \in Users \ {who[w]} : calendar'[u] = calendar[u]
<1> DEFINE left == calendar[who[w]] \ Prefixed(calendar[who[w]])
<1>1. \/ calendar' = calendar /\ faulty' = faulty \union {who[w]}
      \/ faulty' = faulty /\ calendar' = [calendar EXCEPT ![who[w]] = left]
  BY DEF ClearShiftRows, Faulty
<1> HIDE DEF left
<1>2. who[w] \in Users
  BY DEF TypeOK
<1>3. calendar' = [calendar EXCEPT ![who[w]] = left] =>
          calendar'[who[w]] = left /\ \A u \in Users \ {who[w]} : calendar'[u] = calendar[u]
  BY <1>2, OneCalendar
<1> QED
  BY <1>1, <1>3 DEF left

LEMMA Fills ==
    ASSUME TypeOK, NEW w \in Workers, FillCalendar(w)
    PROVE  \/ calendar' = calendar /\ faulty' = faulty \union {who[w]}
           \/ /\ faulty' = faulty
              /\ calendar'[who[w]] = calendar[who[w]] \union {RowOf(batch[w][at[w]])}
              /\ \A u \in Users \ {who[w]} : calendar'[u] = calendar[u]
<1> DEFINE more == calendar[who[w]] \union {RowOf(batch[w][at[w]])}
<1>1. \/ calendar' = calendar /\ faulty' = faulty \union {who[w]}
      \/ faulty' = faulty /\ calendar' = [calendar EXCEPT ![who[w]] = more]
  BY DEF FillCalendar, Faulty, RowOf
<1> HIDE DEF more
<1>2. who[w] \in Users
  BY DEF TypeOK
<1>3. calendar' = [calendar EXCEPT ![who[w]] = more] =>
          calendar'[who[w]] = more /\ \A u \in Users \ {who[w]} : calendar'[u] = calendar[u]
  BY <1>2, OneCalendar
<1> QED
  BY <1>1, <1>3 DEF more

LEMMA Inserts ==
    ASSUME TypeOK, NEW w \in Workers, InsertSchedule(w)
    PROVE  \/ calendar' = calendar
           \/ /\ calendar'[who[w]] = calendar[who[w]] \union {draft[w]}
              /\ \A u \in Users \ {who[w]} : calendar'[u] = calendar[u]
<1> DEFINE more == calendar[who[w]] \union {draft[w]}
<1>1. calendar' = calendar \/ calendar' = [calendar EXCEPT ![who[w]] = more]
  BY DEF InsertSchedule
<1> HIDE DEF more
<1>2. who[w] \in Users
  BY DEF TypeOK
<1>3. calendar' = [calendar EXCEPT ![who[w]] = more] =>
          calendar'[who[w]] = more /\ \A u \in Users \ {who[w]} : calendar'[u] = calendar[u]
  BY <1>2, OneCalendar
<1> QED
  BY <1>1, <1>3 DEF more

\* A whole attachment stays whole, so only new rows and drafts matter.
LEMMA WholeStays ==
    ASSUME TypeOK, AttachmentsWhole,
           \A f \in 1 .. MaxFiles : files[f] = "whole" => files'[f] = "whole",
           \A u \in Users : calendar'[u] \subseteq calendar[u]
    PROVE  AttachmentsWhole'
<1> SUFFICES ASSUME NEW u \in Users, NEW r \in calendar'[u], r.kind = "own", r.uploaded
             PROVE  r.file # NoFile /\ files'[r.file] = "whole"
  BY DEF AttachmentsWhole
<1>1. r \in calendar[u] /\ r \in Rows /\ r.file # NoFile
  BY DEF TypeOK, AttachmentsWhole
<1>2. r.file \in 1 .. MaxFiles
  BY <1>1, RowShapes, ShiftsAssumption DEF NoFile
<1> QED
  BY <1>1, <1>2 DEF AttachmentsWhole

LEMMA DraftsKeep ==
    ASSUME TypeOK, Uploads, NEW w \in Workers,
           \A f \in 1 .. MaxFiles : files[f] = "whole" => files'[f] = "whole",
           \/ pc'[w] = pc[w] /\ draft'[w] = draft[w]
           \/ pc'[w] \notin {"copy", "insert"}
    PROVE  /\ pc'[w] = "copy" => draft'[w] \in OwnRows /\ draft'[w].file # NoFile
           /\ pc'[w] = "insert" => draft'[w] \in OwnRows \union {Typed}
           /\ pc'[w] = "insert" /\ draft'[w].kind = "own" /\ draft'[w].uploaded =>
                  draft'[w].file # NoFile /\ files'[draft'[w].file] = "whole"
<1> SUFFICES ASSUME pc'[w] = pc[w], draft'[w] = draft[w], pc[w] \in {"copy", "insert"}
             PROVE  pc[w] = "insert" /\ draft[w].kind = "own" /\ draft[w].uploaded =>
                        draft[w].file # NoFile /\ files'[draft[w].file] = "whole"
  BY DEF Uploads
<1> SUFFICES ASSUME pc[w] = "insert", draft[w].kind = "own", draft[w].uploaded
             PROVE  draft[w].file # NoFile /\ files'[draft[w].file] = "whole"
  OBVIOUS
<1>1. draft[w] \in Rows /\ draft[w].file # NoFile
  BY DEF Uploads, Rows
<1>2. draft[w].file \in 1 .. MaxFiles
  BY <1>1, RowShapes, ShiftsAssumption DEF NoFile
<1> QED
  BY <1>1, <1>2 DEF Uploads

LEMMA StepUploads ==
    TypeOK /\ Uploads /\ AttachmentsWhole /\ [Next]_vars => Uploads' /\ AttachmentsWhole'
<1> SUFFICES ASSUME TypeOK, Uploads, AttachmentsWhole, [Next]_vars
             PROVE  Uploads' /\ AttachmentsWhole'
  OBVIOUS
<1> DEFINE Fine(w) ==
             /\ pc'[w] = "copy" => draft'[w] \in OwnRows /\ draft'[w].file # NoFile
             /\ pc'[w] = "insert" => draft'[w] \in OwnRows \union {Typed}
             /\ pc'[w] = "insert" /\ draft'[w].kind = "own" /\ draft'[w].uploaded =>
                    draft'[w].file # NoFile /\ files'[draft'[w].file] = "whole"
           Same(w) == \/ pc'[w] = pc[w] /\ draft'[w] = draft[w]
                      \/ pc'[w] \notin {"copy", "insert"}
           Monotone == \A f \in 1 .. MaxFiles : files[f] = "whole" => files'[f] = "whole"
<1>0. /\ Monotone => \A w \in Workers : Same(w) => Fine(w)
      /\ (\A w \in Workers : Fine(w)) => Uploads'
  BY DraftsKeep DEF Uploads
<1> HIDE DEF Fine
\* The steps of posts, and whatever else copies and creates nothing.
<1>1. ASSUME files' = files, \A w \in Workers : Same(w),
             \A u \in Users : calendar'[u] \subseteq calendar[u]
      PROVE  Uploads' /\ AttachmentsWhole'
  BY <1>0, <1>1, WholeStays
<1>2. ASSUME NEW w \in Workers, FillCalendar(w)
      PROVE  Uploads' /\ AttachmentsWhole'
  <2>1. \A v \in Workers : Same(v)
    BY <1>2 DEF FillCalendar, Goto, TypeOK
  <2>2. files' = files
    BY <1>2 DEF FillCalendar
  <2>3. \A u \in Users : \A r \in calendar'[u] : r.kind = "own" => r \in calendar[u]
    <3>1. who[w] \in Users /\ RowOf(batch[w][at[w]]).kind = "shift"
      BY DEF TypeOK, RowOf
    <3> QED
      BY <1>2, <3>1, Fills
  <2>4. AttachmentsWhole'
    BY <2>2, <2>3 DEF AttachmentsWhole
  <2> QED
    BY <1>0, <2>1, <2>2, <2>4
<1>3. ASSUME NEW w \in Workers, NEW u \in Users, CreateSchedule(w, u)
      PROVE  Uploads' /\ AttachmentsWhole'
  <2>1. CASE \E r \in {Typed} \union [kind : {"own"}, file : Named, uploaded : {FALSE}] :
                 /\ Goto(w, "idle", "insert")
                 /\ draft' = [draft EXCEPT ![w] = r]
                 /\ UNCHANGED files
    <3>1. \A v \in Workers \ {w} : Same(v)
      BY <2>1 DEF Goto, TypeOK
    <3>2. Fine(w)
      <4>1. \A r \in [kind : {"own"}, file : Named, uploaded : {FALSE}] :
               r \in OwnRows /\ ~r.uploaded
        BY NamedFiles DEF OwnRows
      <4>2. /\ pc'[w] = "insert"
            /\ \/ draft'[w] = Typed
               \/ draft'[w] \in [kind : {"own"}, file : Named, uploaded : {FALSE}]
        BY <2>1 DEF Goto, TypeOK
      <4>3. draft'[w] = Typed \/ (draft'[w] \in OwnRows /\ ~draft'[w].uploaded)
        <5> DEFINE claims == [kind : {"own"}, file : Named, uploaded : {FALSE}]
        <5>1. /\ \A r \in claims : r \in OwnRows /\ ~r.uploaded
              /\ draft'[w] = Typed \/ draft'[w] \in claims
          BY <4>1, <4>2
        <5> HIDE DEF claims
        <5> QED
          BY <5>1
      <4>4. Typed.kind # "own" /\ "insert" # "copy"
        BY DEF Typed
      <4> QED
        BY <4>2, <4>3, <4>4 DEF Fine
    <3>3. AttachmentsWhole'
      BY <1>3, <2>1 DEF CreateSchedule, AttachmentsWhole
    <3> QED
      BY <1>0, <2>1, <3>1, <3>2, <3>3
  <2>2. CASE \E f \in DOMAIN files :
                 /\ files[f] = "absent" /\ \A g \in 1 .. (f - 1) : files[g] # "absent"
                 /\ Goto(w, "idle", "copy")
                 /\ draft' = [draft EXCEPT ![w] = [kind |-> "own", file |-> f, uploaded |-> TRUE]]
                 /\ files' = [files EXCEPT ![f] = "partial"]
    <3>1. \A v \in Workers \ {w} : Same(v)
      BY <2>2 DEF Goto, TypeOK
    <3>2. Monotone
      BY <2>2 DEF TypeOK
    <3>3. Fine(w)
      <4>1. PICK f \in 1 .. MaxFiles :
               pc'[w] = "copy" /\ draft'[w] = [kind |-> "own", file |-> f, uploaded |-> TRUE]
        <5>1. PICK f \in DOMAIN files :
                 /\ pc' = [pc EXCEPT ![w] = "copy"]
                 /\ draft' = [draft EXCEPT ![w] =
                                 [kind |-> "own", file |-> f, uploaded |-> TRUE]]
          BY <2>2 DEF Goto
        <5>2. pc'[w] = "copy"
          BY <5>1 DEF TypeOK
        <5>3. draft'[w] = [kind |-> "own", file |-> f, uploaded |-> TRUE]
          BY <5>1 DEF TypeOK
        <5>4. f \in 1 .. MaxFiles
          BY DEF TypeOK
        <5> QED
          BY <5>2, <5>3, <5>4
      <4>2. draft'[w] \in OwnRows /\ draft'[w].file # NoFile
        BY <4>1, ShiftsAssumption DEF OwnRows, NoFile
      <4> QED
        BY <4>1, <4>2 DEF Fine
    <3>4. AttachmentsWhole'
      BY <1>3, <3>2, WholeStays DEF CreateSchedule
    <3> QED
      BY <1>0, <3>1, <3>2, <3>3, <3>4
  <2> QED
    BY <1>3, <2>1, <2>2 DEF CreateSchedule
<1>4. ASSUME NEW w \in Workers, CopyAttachment(w)
      PROVE  Uploads' /\ AttachmentsWhole'
  <2>0. draft[w] \in OwnRows /\ draft[w].file \in 1 .. MaxFiles
    <3>1. draft[w] \in OwnRows /\ draft[w].file # NoFile
      BY <1>4 DEF CopyAttachment, Uploads, Goto
    <3> QED
      BY <3>1, ShiftsAssumption DEF OwnRows, NoFile
  <2>1. Monotone
    BY <1>4 DEF CopyAttachment, TypeOK
  <2>2. \A v \in Workers \ {w} : Same(v)
    BY <1>4 DEF CopyAttachment, Goto, TypeOK
  <2>3. Fine(w)
    <3>1. CASE Goto(w, "copy", "insert") /\ files' = [files EXCEPT ![draft[w].file] = "whole"]
               /\ UNCHANGED draft
      BY <2>0, <3>1 DEF Fine, Goto, TypeOK, NoFile
    <3>2. CASE Goto(w, "copy", "idle")
      BY <3>2 DEF Fine, Goto, TypeOK
    <3> QED
      BY <1>4, <3>1, <3>2 DEF CopyAttachment
  <2>4. AttachmentsWhole'
    BY <1>4, <2>1, WholeStays DEF CopyAttachment
  <2> QED
    BY <1>0, <2>1, <2>2, <2>3, <2>4
<1>5. ASSUME NEW w \in Workers, InsertSchedule(w)
      PROVE  Uploads' /\ AttachmentsWhole'
  <2>1. files' = files /\ \A v \in Workers : Same(v)
    BY <1>5 DEF InsertSchedule, Goto, TypeOK
  <2>2. draft[w].kind = "own" /\ draft[w].uploaded =>
            draft[w].file # NoFile /\ files[draft[w].file] = "whole"
    BY <1>5 DEF InsertSchedule, Goto, Uploads
  <2>3. \A u \in Users : \A r \in calendar'[u] : r \in calendar[u] \/ r = draft[w]
    BY <1>5, Inserts, WorkerTypes
  <2>4. AttachmentsWhole'
    BY <2>1, <2>2, <2>3 DEF AttachmentsWhole
  <2> QED
    BY <1>0, <2>1, <2>4
<1>6. ASSUME NEW w \in Workers, NEW u \in Users, NEW b \in Batches, PostShifts(w, u, b)
      PROVE  Uploads' /\ AttachmentsWhole'
  BY <1>1, <1>6 DEF PostShifts, Goto, stores, TypeOK
<1>7. ASSUME NEW w \in Workers, RegisterShift(w)
      PROVE  Uploads' /\ AttachmentsWhole'
  BY <1>1, <1>7 DEF RegisterShift, Goto, TypeOK
<1>8. ASSUME NEW w \in Workers, ClearShiftRows(w)
      PROVE  Uploads' /\ AttachmentsWhole'
  <2>1. \A u \in Users : calendar'[u] \subseteq calendar[u]
    BY <1>8, Clears, WorkerTypes
  <2>2. files' = files /\ \A v \in Workers : Same(v)
    BY <1>8 DEF ClearShiftRows, Goto, TypeOK
  <2> QED
    BY <1>1, <2>1, <2>2
<1>9. ASSUME NEW w \in Workers, AnswerCreated(w)
      PROVE  Uploads' /\ AttachmentsWhole'
  BY <1>1, <1>9 DEF AnswerCreated, Goto, stores, TypeOK
<1>10. ASSUME NEW u \in Users, DeleteShifts(u)
       PROVE  Uploads' /\ AttachmentsWhole'
  BY <1>1, <1>10 DEF DeleteShifts
<1>11. ASSUME NEW u \in Users, NEW rows, DeleteSchedules(u, rows)
       PROVE  Uploads' /\ AttachmentsWhole'
  BY <1>1, <1>11 DEF DeleteSchedules, TypeOK
<1>12. CASE Restart
  BY <1>1, <1>12 DEF Restart, stores
<1>13. CASE UNCHANGED vars
  BY <1>1, <1>13 DEF vars
<1> QED
  BY <1>2, <1>3, <1>4, <1>5, <1>6, <1>7, <1>8, <1>9, <1>10, <1>11, <1>12, <1>13 DEF Next

-----------------------------------------------------------------------------
(***************************************************************************)
(* Shifts in the table and in the calendar                                 *)
(***************************************************************************)

\* What a request may rely on: that the entries it has registered are in the
\* table, or have been deleted from it.
Relies(w) ==
    Posts(w) => /\ w \notin undone => Registered(w) \subseteq shifts[who[w]]
                /\ Registered(w) \subseteq shifts[who[w]] \union gone[who[w]]

Steady(w) == UNCHANGED <<pc[w], batch[w], at[w], who[w]>>

LEMMA OthersRely ==
    ASSUME NEW w \in Workers, Relies(w), Steady(w),
           shifts[who[w]] \union gone[who[w]] \subseteq shifts'[who[w]] \union gone'[who[w]],
           w \notin undone' => w \notin undone /\ shifts[who[w]] \subseteq shifts'[who[w]]
    PROVE  Relies(w)'
<1>1. Registered(w)' = Registered(w) /\ (Posts(w)' <=> Posts(w))
  BY DEF Registered, Posts, Steady
<1>2. who'[w] = who[w]
  BY DEF Steady
<1> QED
  BY <1>1, <1>2 DEF Relies

\* The steps of schedule handlers and whoever else leaves the table alone.
LEMMA TableAlone ==
    ASSUME TypeOK, Backed, CreatedMeansStored, CalendarBacked,
           UNCHANGED <<shifts, kept, gone, undone>>,
           \A w \in Workers : Steady(w) \/ ~Posts(w)',
           \A u \in Users : \A r \in calendar'[u] : r.kind = "shift" => r \in calendar[u]
    PROVE  Backed' /\ CreatedMeansStored' /\ CalendarBacked'
<1>1. \A w \in Workers : Relies(w)
  BY DEF Backed, Relies
<1>2. \A w \in Workers : Relies(w)'
  <2> SUFFICES ASSUME NEW w \in Workers PROVE Relies(w)'
    OBVIOUS
  <2>1. CASE Steady(w)
    BY <1>1, <2>1, OthersRely
  <2>2. CASE ~Posts(w)'
    BY <2>2 DEF Relies
  <2> QED
    BY <2>1, <2>2
<1>3. Backed'
  BY <1>2 DEF Backed, Relies
<1> QED
  BY <1>3 DEF CreatedMeansStored, CalendarBacked

LEMMA StepBacked ==
    /\ TypeOK /\ Resting /\ Uploads
    /\ Backed /\ CreatedMeansStored /\ CalendarBacked
    /\ [Next]_vars
    => Backed' /\ CreatedMeansStored' /\ CalendarBacked'
<1> SUFFICES ASSUME TypeOK, Resting, Uploads, Backed, CreatedMeansStored, CalendarBacked,
                    [Next]_vars
             PROVE  Backed' /\ CreatedMeansStored' /\ CalendarBacked'
  OBVIOUS
<1>0. /\ \A w \in Workers : Relies(w)
      /\ (\A w \in Workers : Relies(w)') => Backed'
  BY DEF Backed, Relies
<1>1. ASSUME NEW w \in Workers, NEW u \in Users, NEW b \in Batches, PostShifts(w, u, b)
      PROVE  Backed' /\ CreatedMeansStored' /\ CalendarBacked'
  <2>1. at'[w] = 1 /\ pc'[w] = "register"
    <3>1. batch[w] = <<>> /\ Len(<<>>) = 0
      BY <1>1, EmptySeq DEF Resting, Posts, PostShifts, Goto
    <3>2. pc'[w] = "register" /\ at' = at
      BY <1>1 DEF PostShifts, Goto, TypeOK
    <3> QED
      BY <3>1, <3>2, WorkerTypes
  <2>2. Registered(w)' = {}
    BY <2>1 DEF Registered
  <2>3. Relies(w)'
    BY <2>2 DEF Relies
  <2>4. \A v \in Workers \ {w} : Steady(v)
    BY <1>1 DEF PostShifts, Goto, TypeOK, Steady
  <2>5. \A v \in Workers \ {w} : Relies(v)'
    BY <1>0, <1>1, <2>4, OthersRely DEF PostShifts, stores
  <2> QED
    BY <1>0, <1>1, <2>3, <2>5 DEF PostShifts, stores, CreatedMeansStored, CalendarBacked
<1>2. ASSUME NEW w \in Workers, RegisterShift(w)
      PROVE  Backed' /\ CreatedMeansStored' /\ CalendarBacked'
  <2>1. who[w] \in Users /\ at[w] \in Nat \ {0} /\ at[w] <= Len(batch[w])
    BY <1>2, WorkerTypes DEF RegisterShift
  <2>2. \A v \in Workers \ {w} : Steady(v)
    BY <1>2 DEF RegisterShift, Forget, Goto, TypeOK, Steady
  <2>3. CASE /\ Goto(w, "register", "register")
             /\ shifts' = [shifts EXCEPT ![who[w]] = @ \union {batch[w][at[w]]}]
             /\ at' = [at EXCEPT ![w] = @ + 1]
             /\ UNCHANGED <<batch, undone, faulty>>
    <3> DEFINE more == shifts[who[w]] \union {batch[w][at[w]]}
    <3>1. shifts'[who[w]] = more /\ \A u \in Users \ {who[w]} : shifts'[u] = shifts[u]
      <4>1. shifts' = [shifts EXCEPT ![who[w]] = more]
        BY <2>3
      <4> HIDE DEF more
      <4> QED
        BY <2>1, <4>1 DEF TypeOK
    <3>2. \A u \in Users : shifts[u] \subseteq shifts'[u]
      BY <3>1
    <3>3. \A v \in Workers \ {w} : Relies(v)'
      BY <1>0, <1>2, <2>2, <2>3, <3>2, OthersRely, WorkerTypes DEF RegisterShift
    <3>4. Registered(w)' \subseteq Registered(w) \union {batch[w][at[w]]}
      <4>1. pc[w] = "register" /\ pc'[w] = "register" /\ at'[w] = at[w] + 1 /\ batch' = batch
        BY <2>3 DEF Goto, TypeOK
      <4>2. \A i \in 1 .. (at'[w] - 1) : i \in 1 .. (at[w] - 1) \/ i = at[w]
        BY <2>1, <4>1
      <4> QED
        BY <4>1, <4>2 DEF Registered
    <3>5. Relies(w)'
      <4>1. Posts(w) /\ who' = who /\ gone' = gone /\ undone' = undone
        BY <1>2, <2>3 DEF Posts, Goto, RegisterShift
      <4>2. batch[w][at[w]] \in shifts'[who[w]]
        BY <3>1
      <4> QED
        BY <1>0, <3>2, <3>4, <2>1, <4>1, <4>2 DEF Relies
    <3> QED
      BY <1>0, <1>2, <3>2, <3>3, <3>5 DEF RegisterShift, CreatedMeansStored, CalendarBacked
  <2>4. CASE Goto(w, "register", "idle") /\ Forget(w) /\ UNCHANGED shifts
    <3>1. ~Posts(w)'
      BY <2>4 DEF Posts, Goto, TypeOK
    <3>2. \A v \in Workers \ {w} : Relies(v)'
      <4>1. /\ shifts' = shifts /\ gone' = gone
            /\ \A v \in Workers \ {w} : v \notin undone' => v \notin undone
        BY <1>2, <2>4 DEF RegisterShift, Forget
      <4> QED
        BY <1>0, <2>2, <4>1, OthersRely
    <3>3. Backed'
      BY <1>0, <3>1, <3>2 DEF Relies
    <3> QED
      BY <1>2, <2>4, <3>3 DEF RegisterShift, CreatedMeansStored, CalendarBacked
  <2> QED
    BY <1>2, <2>3, <2>4 DEF RegisterShift
<1>3. ASSUME NEW w \in Workers, ClearShiftRows(w)
      PROVE  Backed' /\ CreatedMeansStored' /\ CalendarBacked'
  <2>1. pc[w] = "register" /\ pc'[w] = "fill" /\ batch' = batch /\ at[w] = Len(batch[w]) + 1
    BY <1>3 DEF ClearShiftRows, Goto, TypeOK
  <2>2. Registered(w)' = Registered(w)
    <3>1. 1 .. (at[w] - 1) = DOMAIN batch[w]
      BY <2>1, WorkerTypes
    <3> QED
      BY <2>1, <3>1 DEF Registered
  <2>3. /\ UNCHANGED <<shifts, gone, undone, kept, who>>
        /\ \A v \in Workers \ {w} : Steady(v)
    BY <1>3 DEF ClearShiftRows, Goto, TypeOK, Steady
  <2>4. Posts(w) /\ Posts(w)'
    BY <2>1 DEF Posts
  <2>5. Relies(w)'
    BY <1>0, <2>2, <2>3, <2>4 DEF Relies
  <2>6. \A v \in Workers \ {w} : Relies(v)'
    BY <1>0, <2>3, OthersRely
  <2>7. \A u \in Users : calendar'[u] \subseteq calendar[u]
    BY <1>3, Clears, WorkerTypes
  <2> QED
    BY <1>0, <2>3, <2>5, <2>6, <2>7 DEF CreatedMeansStored, CalendarBacked
<1>4. ASSUME NEW w \in Workers, FillCalendar(w)
      PROVE  Backed' /\ CreatedMeansStored' /\ CalendarBacked'
  <2>1. pc[w] = "fill" /\ pc'[w] = "fill" /\ batch' = batch /\ at[w] \in DOMAIN batch[w]
    BY <1>4, WorkerTypes DEF FillCalendar, Goto, TypeOK
  <2>2. Registered(w)' = Registered(w) /\ batch[w][at[w]] \in Registered(w)
    BY <2>1 DEF Registered
  <2>3. /\ UNCHANGED <<shifts, gone, undone, kept, who>>
        /\ \A v \in Workers \ {w} : Steady(v)
    BY <1>4 DEF FillCalendar, Goto, TypeOK, Steady
  <2>4. Posts(w) /\ Posts(w)'
    BY <2>1 DEF Posts
  <2>5. Relies(w)'
    BY <1>0, <2>2, <2>3, <2>4 DEF Relies
  <2>6. \A v \in Workers \ {w} : Relies(v)'
    BY <1>0, <2>3, OthersRely
  <2>7. batch[w][at[w]] \in shifts[who[w]] \union gone[who[w]]
    BY <1>0, <2>2, <2>4 DEF Relies
  <2>8. \A u \in Users : \A r \in calendar'[u] :
            r \in calendar[u] \/ (u = who[w] /\ r = RowOf(batch[w][at[w]]))
    <3>1. \/ calendar' = calendar
          \/ /\ calendar'[who[w]] = calendar[who[w]] \union {RowOf(batch[w][at[w]])}
             /\ \A u \in Users \ {who[w]} : calendar'[u] = calendar[u]
      BY <1>4, Fills
    <3> QED
      BY <3>1
  <2>9. CalendarBacked'
    BY <2>3, <2>7, <2>8 DEF CalendarBacked, RowOf
  <2> QED
    BY <1>0, <2>3, <2>5, <2>6, <2>9 DEF CreatedMeansStored
<1>5. ASSUME NEW w \in Workers, AnswerCreated(w)
      PROVE  Backed' /\ CreatedMeansStored' /\ CalendarBacked'
  <2>1. pc[w] = "fill" /\ ~Posts(w)'
    BY <1>5 DEF AnswerCreated, Goto, TypeOK, Posts
  <2>2. /\ UNCHANGED <<shifts, calendar, gone, who>>
        /\ \A v \in Workers \ {w} : Steady(v) /\ (v \notin undone' => v \notin undone)
    BY <1>5 DEF AnswerCreated, Forget, Goto, TypeOK, Steady, stores
  <2>3. \A v \in Workers \ {w} : Relies(v)'
    BY <1>0, <2>2, OthersRely
  <2>4. Relies(w)'
    BY <2>1 DEF Relies
  <2>5. w \notin undone => ToSet(batch[w]) \subseteq shifts[who[w]]
    BY <1>0, <2>1 DEF Relies, Posts, Registered, ToSet
  <2>6. CreatedMeansStored'
    <3>1. who[w] \in Users
      BY WorkerTypes
    <3>2. CASE w \in undone
      BY <1>5, <2>2, <3>2 DEF AnswerCreated, CreatedMeansStored
    <3>3. CASE w \notin undone
      <4> DEFINE more == kept[who[w]] \union ToSet(batch[w])
      <4>1. kept' = [kept EXCEPT ![who[w]] = more]
        BY <1>5, <3>3 DEF AnswerCreated
      <4>2. more \subseteq shifts[who[w]]
        BY <2>5, <3>1, <3>3 DEF CreatedMeansStored
      <4> HIDE DEF more
      <4>3. \A u \in Users : kept'[u] = IF u = who[w] THEN more ELSE kept[u]
        BY <3>1, <4>1 DEF TypeOK
      <4> QED
        BY <2>2, <4>2, <4>3 DEF CreatedMeansStored
    <3> QED
      BY <3>2, <3>3
  <2> QED
    BY <1>0, <2>2, <2>3, <2>4, <2>6 DEF CalendarBacked
<1>6. ASSUME NEW u \in Users, DeleteShifts(u)
      PROVE  Backed' /\ CreatedMeansStored' /\ CalendarBacked'
  <2>1. /\ shifts'[u] = {} /\ kept'[u] = {} /\ gone'[u] = gone[u] \union shifts[u]
        /\ \A t \in Users \ {u} : shifts'[t] = shifts[t] /\ kept'[t] = kept[t] /\ gone'[t] = gone[t]
    <3> DEFINE more == gone[u] \union shifts[u]
    <3>1. gone' = [gone EXCEPT ![u] = more] /\ shifts' = [shifts EXCEPT ![u] = {}]
          /\ kept' = [kept EXCEPT ![u] = {}]
      BY <1>6 DEF DeleteShifts
    <3>2. \A t \in Users : gone'[t] = IF t = u THEN more ELSE gone[t]
      <4> HIDE DEF more
      <4> QED
        BY <3>1 DEF TypeOK
    <3>3. \A t \in Users : /\ shifts'[t] = IF t = u THEN {} ELSE shifts[t]
                           /\ kept'[t] = IF t = u THEN {} ELSE kept[t]
      BY <3>1 DEF TypeOK
    <3> QED
      BY <3>2, <3>3
  <2>2. \A t \in Users : shifts[t] \union gone[t] \subseteq shifts'[t] \union gone'[t]
    BY <2>1
  <2>3. \A w \in Workers : Relies(w)'
    <3> SUFFICES ASSUME NEW w \in Workers PROVE Relies(w)'
      OBVIOUS
    <3>1. Steady(w) /\ who[w] \in Users
      BY <1>6, WorkerTypes DEF DeleteShifts, Steady
    <3>2. CASE Posts(w)
      <4>1. w \notin undone' => w \notin undone /\ who[w] # u
        BY <1>6, <3>2 DEF DeleteShifts, Posting, Posts
      <4> QED
        BY <1>0, <2>1, <2>2, <3>1, <4>1, OthersRely
    <3>3. CASE ~Posts(w)
      BY <3>1, <3>3 DEF Relies, Posts, Steady
    <3> QED
      BY <3>2, <3>3
  <2>4. CreatedMeansStored'
    BY <2>1 DEF CreatedMeansStored
  <2>5. CalendarBacked'
    BY <1>6, <2>2 DEF DeleteShifts, CalendarBacked
  <2> QED
    BY <1>0, <2>3, <2>4, <2>5
<1>7. ASSUME NEW w \in Workers, NEW u \in Users, CreateSchedule(w, u)
      PROVE  Backed' /\ CreatedMeansStored' /\ CalendarBacked'
  <2>1. \A v \in Workers : Steady(v) \/ ~Posts(v)'
    BY <1>7 DEF CreateSchedule, Goto, TypeOK, Steady, Posts
  <2> QED
    BY <1>7, <2>1, TableAlone DEF CreateSchedule, history
<1>8. ASSUME NEW w \in Workers, CopyAttachment(w)
      PROVE  Backed' /\ CreatedMeansStored' /\ CalendarBacked'
  <2>1. \A v \in Workers : Steady(v) \/ ~Posts(v)'
    BY <1>8 DEF CopyAttachment, Goto, TypeOK, Steady, Posts
  <2> QED
    BY <1>8, <2>1, TableAlone DEF CopyAttachment, history
<1>9. ASSUME NEW w \in Workers, InsertSchedule(w)
      PROVE  Backed' /\ CreatedMeansStored' /\ CalendarBacked'
  <2>1. \A v \in Workers : Steady(v) \/ ~Posts(v)'
    BY <1>9 DEF InsertSchedule, Goto, TypeOK, Steady, Posts
  <2>2. draft[w] \in OwnRows \union {Typed}
    BY <1>9 DEF InsertSchedule, Goto, Uploads
  <2>3. draft[w].kind # "shift"
    BY <2>2, RowShapes DEF Rows
  <2>4. \A u \in Users : \A r \in calendar'[u] : r \in calendar[u] \/ r = draft[w]
    BY <1>9, Inserts, WorkerTypes
  <2> QED
    BY <1>9, <2>1, <2>3, <2>4, TableAlone DEF InsertSchedule, history
<1>10. ASSUME NEW u \in Users, NEW rows, DeleteSchedules(u, rows)
       PROVE  Backed' /\ CreatedMeansStored' /\ CalendarBacked'
  <2>1. \A t \in Users : calendar'[t] \subseteq calendar[t]
    BY <1>10 DEF DeleteSchedules, TypeOK
  <2>2. \A v \in Workers : Steady(v)
    BY <1>10 DEF DeleteSchedules, Steady
  <2> QED
    BY <1>10, <2>1, <2>2, TableAlone DEF DeleteSchedules
<1>11. CASE Restart
  <2>1. \A w \in Workers : ~Posts(w)'
    BY <1>11 DEF Restart, Posts
  <2> QED
    BY <1>0, <1>11, <2>1 DEF Restart, stores, Relies, CreatedMeansStored, CalendarBacked
<1>12. CASE UNCHANGED vars
  BY <1>12 DEF vars, Backed, Posts, Registered, CreatedMeansStored, CalendarBacked
<1> QED
  BY <1>1, <1>2, <1>3, <1>4, <1>5, <1>6, <1>7, <1>8, <1>9, <1>10, <1>11, <1>12 DEF Next

-----------------------------------------------------------------------------
(***************************************************************************)
(* The last post to clear the calendar                                     *)
(***************************************************************************)

Beginning(u) == Posting(u) # {} /\ \A w \in Posting(u) : pc[w] = "register"
Upright(u) == u \notin faulty /\ round[u] # {} => Cleared(u) \/ Beginning(u)

\* Steps that are not about the posts of a user.
LEMMA ElsewhereCleared ==
    ASSUME NEW u \in Users, Cleared(u), Shown(u)' = Shown(u), round[u] \subseteq round'[u],
           \A w \in Workers : pc[w] = "fill" /\ who[w] = u => Steady(w)
    PROVE  Cleared(u)'
<1>1. Shown(u)' \subseteq UNION {AsRows(b) : b \in round'[u]}
  BY DEF Cleared
<1>2. CASE \E b \in round[u] : AsRows(b) \subseteq Shown(u)
  BY <1>1, <1>2 DEF Cleared
<1>3. ASSUME NEW w \in Workers, who[w] = u, pc[w] = "fill", Created(w) \subseteq Shown(u)
      PROVE  Cleared(u)'
  <2>1. Steady(w)
    BY <1>3
  <2>2. who'[w] = u /\ pc'[w] = "fill" /\ Created(w)' = Created(w)
    BY <1>3, <2>1 DEF Steady, Created
  <2> QED
    BY <1>1, <1>3, <2>2 DEF Cleared
<1> QED
  BY <1>2, <1>3 DEF Cleared

\* The same of what comes before, for steps that no post of the user makes.
LEMMA ElsewhereUpright ==
    ASSUME TypeOK, NEW u \in Users, Upright(u), Shown(u)' = Shown(u), round'[u] = round[u],
           u \in faulty => u \in faulty',
           \A w \in Workers : Steady(w) \/ ((who[w] # u \/ ~Posts(w)) /\ (who'[w] # u \/ ~Posts(w)'))
    PROVE  Upright(u)'
<1> SUFFICES ASSUME u \notin faulty', round'[u] # {}
             PROVE  Cleared(u)' \/ Beginning(u)'
  BY DEF Upright
<1>1. CASE Cleared(u)
  BY <1>1, ElsewhereCleared DEF Posts
<1>2. CASE Beginning(u)
  <2>1. Posting(u)' = Posting(u) /\ \A w \in Posting(u) : pc'[w] = pc[w]
    BY DEF Posting, Posts, Steady
  <2> QED
    BY <1>2, <2>1 DEF Beginning
<1> QED
  BY <1>1, <1>2 DEF Upright

\* A step of a user's post that is neither its first nor its last.
LEMMA ElsewhereBatches ==
    ASSUME TypeOK, Follows, round' = round, batch' = batch, who' = who,
           \A w \in Workers : Posts(w)' => Posts(w)
    PROVE  \A w \in Workers : Posts(w)' => batch'[w] \in round'[who'[w]]
BY DEF Follows

LEMMA StepFollows ==
    TypeOK /\ Resting /\ Uploads /\ Follows /\ [Next]_vars => Follows'
<1> SUFFICES ASSUME TypeOK, Resting, Uploads, Follows, [Next]_vars PROVE Follows'
  OBVIOUS
<1> DEFINE Batched == \A w \in Workers : Posts(w) => batch[w] \in round[who[w]]
<1>0. /\ Batched /\ \A u \in Users : Upright(u)
      /\ Batched' /\ (\A u \in Users : Upright(u)') => Follows'
  BY DEF Follows, Upright, Beginning
<1>1. ASSUME NEW w \in Workers, NEW u \in Users, NEW b \in Batches, PostShifts(w, u, b)
      PROVE  Follows'
  <2>1. /\ pc[w] = "idle" /\ pc'[w] = "register" /\ batch'[w] = b /\ who'[w] = u
        /\ \A v \in Workers \ {w} : Steady(v)
    BY <1>1 DEF PostShifts, Goto, TypeOK, Steady
  <2>2. /\ calendar' = calendar
        /\ \A t \in Users \ {u} : round'[t] = round[t] /\ (t \in faulty => t \in faulty')
        /\ Posting(u) = {} => round'[u] = {b}
        /\ Posting(u) # {} => round'[u] = round[u] \union {b} /\ faulty' = faulty
    <3> DEFINE more == IF Posting(u) = {} THEN {b} ELSE round[u] \union {b}
    <3>1. round' = [round EXCEPT ![u] = more]
      BY <1>1 DEF PostShifts
    <3>2. \A t \in Users : round'[t] = IF t = u THEN more ELSE round[t]
      <4> HIDE DEF more
      <4> QED
        BY <3>1 DEF TypeOK
    <3> QED
      BY <1>1, <3>2 DEF PostShifts, stores
  <2>3. \A v \in Posting(u)' : v = w \/ v \in Posting(u)
    BY <2>1 DEF Posting, Steady
  <2>4. Batched'
    <3> SUFFICES ASSUME NEW v \in Workers, Posts(v)'
                 PROVE  batch'[v] \in round'[who'[v]]
      OBVIOUS
    <3>1. CASE v = w
      BY <2>1, <2>2, <3>1
    <3>2. CASE v # w
      <4>1. Steady(v) /\ Posts(v) /\ batch[v] \in round[who[v]] /\ who[v] \in Users
        BY <1>0, <2>1, <3>2, WorkerTypes DEF Posts, Steady
      <4>2. who[v] = u => Posting(u) # {}
        BY <4>1 DEF Posting, Posts
      <4> QED
        BY <2>2, <4>1, <4>2 DEF Steady
    <3> QED
      BY <3>1, <3>2
  <2>5. Upright(u)'
    <3>1. w \in Posting(u)'
      BY <2>1 DEF Posting
    <3>2. CASE Posting(u) = {}
      <4>1. Beginning(u)'
        BY <2>1, <2>3, <3>1, <3>2 DEF Beginning
      <4> QED
        BY <4>1 DEF Upright
    <3>3. CASE Posting(u) # {} /\ u \notin faulty'
      <4>1. round[u] # {} /\ u \notin faulty
        <5>1. PICK v \in Workers : who[v] = u /\ Posts(v)
          BY <3>3 DEF Posting, Posts
        <5> QED
          BY <1>0, <2>2, <3>3, <5>1
      <4>2. CASE Cleared(u)
        <5>1. Shown(u)' = Shown(u)
          BY <2>2 DEF Shown
        <5>2. Cleared(u)'
          BY <2>1, <2>2, <3>3, <4>2, <5>1, ElsewhereCleared
        <5> QED
          BY <5>2 DEF Upright
      <4>3. CASE Beginning(u)
        <5>1. Beginning(u)'
          BY <2>1, <2>3, <3>1, <4>3 DEF Beginning, Posting, Steady
        <5> QED
          BY <5>1 DEF Upright
      <4> QED
        BY <1>0, <4>1, <4>2, <4>3 DEF Upright
    <3> QED
      BY <3>2, <3>3 DEF Upright
  <2>6. \A t \in Users \ {u} : Upright(t)'
    <3> SUFFICES ASSUME NEW t \in Users \ {u} PROVE Upright(t)'
      OBVIOUS
    <3>1. Shown(t)' = Shown(t)
      BY <2>2 DEF Shown
    <3>2. \A v \in Workers : Steady(v) \/ ((who[v] # t \/ ~Posts(v)) /\ (who'[v] # t \/ ~Posts(v)'))
      BY <2>1 DEF Posts
    <3> QED
      BY <1>0, <2>2, <3>1, <3>2, ElsewhereUpright
  <2> QED
    BY <1>0, <2>4, <2>5, <2>6
\* Requests of one user leave the calendars of the others alone.
<1>2. ASSUME NEW w \in Workers, NEW t \in Users, t # who[w], who' = who, round' = round,
             \A v \in Workers \ {w} : Steady(v), t \in faulty => t \in faulty',
             calendar'[t] = calendar[t]
      PROVE  Upright(t)'
  <2>1. Shown(t)' = Shown(t)
    BY <1>2 DEF Shown
  <2> QED
    BY <1>0, <1>2, <2>1, ElsewhereUpright
<1>3. ASSUME NEW w \in Workers, RegisterShift(w)
      PROVE  Follows'
  <2>1. /\ UNCHANGED <<calendar, who, round>> /\ who[w] \in Users
        /\ \A v \in Workers \ {w} : Steady(v)
        /\ \A t \in Users : t \in faulty => t \in faulty'
    BY <1>3, WorkerTypes DEF RegisterShift, Forget, Goto, Faulty, TypeOK, Steady
  <2>2. pc[w] = "register" /\ \/ pc'[w] = "register" /\ batch' = batch
                              \/ pc'[w] = "idle" /\ who[w] \in faulty'
    BY <1>3 DEF RegisterShift, Goto, Faulty, TypeOK
  <2>3. Batched'
    BY <1>0, <2>1, <2>2 DEF Posts, Steady
  <2>4. \A t \in Users \ {who[w]} : Upright(t)'
    BY <1>2, <2>1
  <2>5. Upright(who[w])'
    <3>1. Shown(who[w])' = Shown(who[w])
      BY <2>1 DEF Shown
    <3>2. CASE pc'[w] = "register" /\ who[w] \notin faulty' /\ Cleared(who[w])
      <4>1. Cleared(who[w])'
        BY <2>1, <2>2, <3>1, <3>2, ElsewhereCleared
      <4> QED
        BY <2>1, <4>1 DEF Upright
    <3>3. CASE pc'[w] = "register" /\ who[w] \notin faulty' /\ Beginning(who[w])
      <4>1. Beginning(who[w])'
        BY <2>1, <2>2, <3>3 DEF Beginning, Posting, Steady
      <4> QED
        BY <2>1, <4>1 DEF Upright
    <3>4. CASE who[w] \in faulty'
      BY <2>1, <3>4 DEF Upright
    <3> QED
      BY <1>0, <2>1, <2>2, <3>2, <3>3, <3>4 DEF Upright
  <2> QED
    BY <1>0, <2>1, <2>3, <2>4, <2>5
<1>4. ASSUME NEW w \in Workers, ClearShiftRows(w)
      PROVE  Follows'
  <2>1. /\ UNCHANGED <<who, round, batch>> /\ who[w] \in Users
        /\ pc[w] = "register" /\ pc'[w] = "fill" /\ at'[w] = 1
        /\ \A v \in Workers \ {w} : Steady(v)
    BY <1>4, WorkerTypes DEF ClearShiftRows, Goto, TypeOK, Steady
  <2>2. \/ calendar' = calendar /\ faulty' = faulty \union {who[w]}
        \/ /\ faulty' = faulty
           /\ calendar'[who[w]] = calendar[who[w]] \ Prefixed(calendar[who[w]])
           /\ \A t \in Users \ {who[w]} : calendar'[t] = calendar[t]
    BY <1>4, Clears
  <2>3. Batched'
    BY <1>0, <2>1 DEF Posts, Steady
  <2>4. \A t \in Users \ {who[w]} : Upright(t)'
    BY <1>2, <2>1, <2>2
  <2>5. ASSUME who[w] \notin faulty'
        PROVE  Cleared(who[w])'
    <3>1. calendar'[who[w]] = calendar[who[w]] \ Prefixed(calendar[who[w]])
      BY <2>2, <2>5
    <3>2. Shown(who[w])' = {}
      BY <2>1, <3>1 DEF Shown, Prefixed
    <3>3. Created(w)' = {}
      BY <2>1 DEF Created
    <3> QED
      BY <2>1, <3>2, <3>3 DEF Cleared
  <2>6. Upright(who[w])'
    BY <2>1, <2>5 DEF Upright
  <2> QED
    BY <1>0, <2>1, <2>3, <2>4, <2>6
<1>5. ASSUME NEW w \in Workers, FillCalendar(w)
      PROVE  Follows'
  <2>1. /\ UNCHANGED <<who, round, batch>> /\ who[w] \in Users
        /\ pc[w] = "fill" /\ pc'[w] = "fill" /\ at'[w] = at[w] + 1
        /\ at[w] \in 1 .. Len(batch[w]) /\ pc' = pc
        /\ \A v \in Workers \ {w} : Steady(v)
    BY <1>5, WorkerTypes DEF FillCalendar, Goto, TypeOK, Steady
  <2>2. \/ calendar' = calendar /\ faulty' = faulty \union {who[w]}
        \/ /\ faulty' = faulty
           /\ calendar'[who[w]] = calendar[who[w]] \union {RowOf(batch[w][at[w]])}
           /\ \A t \in Users \ {who[w]} : calendar'[t] = calendar[t]
    BY <1>5, Fills
  <2>3. Batched'
    BY <1>0, <2>1 DEF Posts
  <2>4. \A t \in Users \ {who[w]} : Upright(t)'
    BY <1>2, <2>1, <2>2
  <2>5. ASSUME who[w] \notin faulty', round[who[w]] # {}
        PROVE  Cleared(who[w])'
    <3> DEFINE u == who[w]
               row == RowOf(batch[w][at[w]])
    <3>1. faulty' = faulty /\ calendar'[u] = calendar[u] \union {row}
      BY <2>2, <2>5
    <3>2. Shown(u)' = Shown(u) \union {row}
      BY <2>1, <3>1 DEF Shown, RowOf
    <3>3. ~Beginning(u)
      BY <2>1 DEF Beginning, Posting
    <3>4. Cleared(u)
      BY <1>0, <2>1, <2>5, <3>1, <3>3 DEF Upright
    <3>5. batch[w] \in round[u] /\ row \in AsRows(batch[w])
      <4>1. batch[w] \in round[u]
        BY <1>0, <2>1 DEF Posts
      <4>2. batch[w][at[w]] \in ToSet(batch[w])
        BY <2>1, WorkerTypes DEF ToSet
      <4> QED
        BY <4>1, <4>2 DEF AsRows, RowOf
    <3>6. Shown(u)' \subseteq UNION {AsRows(b) : b \in round[u]}
      BY <3>2, <3>4, <3>5 DEF Cleared
    <3>7. CASE \E b \in round[u] : AsRows(b) \subseteq Shown(u)
      BY <2>1, <3>2, <3>6, <3>7 DEF Cleared
    <3>8. ASSUME NEW v \in Workers, who[v] = u, pc[v] = "fill", Created(v) \subseteq Shown(u)
          PROVE  Cleared(u)'
      <4>1. Created(v)' \subseteq Created(v) \union {row}
        <5>1. CASE v = w
          <6>1. \A i \in 1 .. (at'[w] - 1) : i \in 1 .. (at[w] - 1) \/ i = at[w]
            BY <2>1
          <6> QED
            BY <2>1, <5>1, <6>1 DEF Created, RowOf
        <5>2. CASE v # w
          BY <2>1, <5>2 DEF Created, Steady
        <5> QED
          BY <5>1, <5>2
      <4> QED
        BY <2>1, <3>2, <3>6, <3>8, <4>1 DEF Cleared
    <3> QED
      BY <3>4, <3>7, <3>8 DEF Cleared
  <2>6. Upright(who[w])'
    BY <2>1, <2>5 DEF Upright
  <2> QED
    BY <1>0, <2>1, <2>3, <2>4, <2>6
<1>6. ASSUME NEW w \in Workers, AnswerCreated(w)
      PROVE  Follows'
  <2>1. /\ UNCHANGED <<calendar, who, round, faulty>> /\ who[w] \in Users
        /\ pc[w] = "fill" /\ pc'[w] = "idle" /\ at[w] = Len(batch[w]) + 1
        /\ \A v \in Workers \ {w} : Steady(v)
    BY <1>6, WorkerTypes DEF AnswerCreated, Forget, Goto, TypeOK, Steady, stores
  <2>2. Batched'
    BY <1>0, <2>1 DEF Posts, Steady
  <2>3. \A t \in Users \ {who[w]} : Upright(t)'
    BY <1>2, <2>1
  <2>4. ASSUME who[w] \notin faulty, round[who[w]] # {}
        PROVE  Cleared(who[w])'
    <3> DEFINE u == who[w]
    <3>1. Shown(u)' = Shown(u)
      BY <2>1 DEF Shown
    <3>2. ~Beginning(u)
      BY <2>1 DEF Beginning, Posting
    <3>3. Cleared(u)
      BY <1>0, <2>1, <2>4, <3>2 DEF Upright
    <3>4. CASE \E b \in round[u] : AsRows(b) \subseteq Shown(u)
      BY <2>1, <3>1, <3>3, <3>4 DEF Cleared
    <3>5. ASSUME NEW v \in Workers, who[v] = u, pc[v] = "fill", Created(v) \subseteq Shown(u)
          PROVE  Cleared(u)'
      <4>1. CASE v = w
        <5>1. AsRows(batch[w]) \subseteq Created(w)
          <6>1. 1 .. (at[w] - 1) = DOMAIN batch[w]
            BY <2>1, WorkerTypes
          <6> QED
            BY <6>1 DEF AsRows, Created, ToSet
        <5>2. batch[w] \in round[u]
          BY <1>0, <2>1 DEF Posts
        <5> QED
          BY <2>1, <3>1, <3>3, <3>5, <4>1, <5>1, <5>2 DEF Cleared
      <4>2. CASE v # w
        <5>1. Created(v)' = Created(v) /\ who'[v] = u /\ pc'[v] = "fill"
          BY <2>1, <3>5, <4>2 DEF Created, Steady
        <5> QED
          BY <2>1, <3>1, <3>3, <3>5, <5>1 DEF Cleared
      <4> QED
        BY <4>1, <4>2
    <3> QED
      BY <3>3, <3>4, <3>5 DEF Cleared
  <2>5. Upright(who[w])'
    BY <2>1, <2>4 DEF Upright
  <2> QED
    BY <1>0, <2>1, <2>2, <2>3, <2>5
\* Other steps keep the posts and the shifts in the calendar, unless they take
\* one of these away.
<1>7. ASSUME round' = round, \A u \in Users : u \in faulty => u \in faulty',
             \A w \in Workers : Steady(w) \/ (~Posts(w) /\ ~Posts(w)'),
             \A u \in Users : u \notin faulty' => Shown(u)' = Shown(u)
      PROVE  Follows'
  <2>1. Batched'
    BY <1>0, <1>7 DEF Posts, Steady
  <2>2. \A u \in Users : Upright(u)'
    <3> SUFFICES ASSUME NEW u \in Users PROVE Upright(u)'
      OBVIOUS
    <3>1. CASE u \in faulty'
      BY <3>1 DEF Upright
    <3>2. CASE u \notin faulty'
      BY <1>0, <1>7, <3>2, ElsewhereUpright
    <3> QED
      BY <3>1, <3>2
  <2> QED
    BY <1>0, <2>1, <2>2
<1>8. ASSUME NEW u \in Users, DeleteShifts(u)
      PROVE  Follows'
  <2>1. round' = round /\ faulty' = faulty /\ calendar' = calendar
    BY <1>8 DEF DeleteShifts
  <2>2. \A v \in Workers : Steady(v)
    BY <1>8 DEF DeleteShifts, Steady
  <2>3. \A t \in Users : Shown(t)' = Shown(t)
    BY <2>1 DEF Shown
  <2> QED
    BY <1>7, <2>1, <2>2, <2>3
<1>9. ASSUME NEW w \in Workers, NEW u \in Users, CreateSchedule(w, u)
      PROVE  Follows'
  <2>1. \A v \in Workers : Steady(v) \/ (~Posts(v) /\ ~Posts(v)')
    BY <1>9 DEF CreateSchedule, Goto, TypeOK, Steady, Posts
  <2>2. round' = round /\ faulty' = faulty /\ calendar' = calendar
    BY <1>9 DEF CreateSchedule, history
  <2>3. \A t \in Users : Shown(t)' = Shown(t)
    BY <2>2 DEF Shown
  <2> QED
    BY <1>7, <2>1, <2>2, <2>3
<1>10. ASSUME NEW w \in Workers, CopyAttachment(w)
       PROVE  Follows'
  <2>1. \A v \in Workers : Steady(v) \/ (~Posts(v) /\ ~Posts(v)')
    BY <1>10 DEF CopyAttachment, Goto, TypeOK, Steady, Posts
  <2>2. round' = round /\ faulty' = faulty /\ calendar' = calendar
    BY <1>10 DEF CopyAttachment, history
  <2>3. \A t \in Users : Shown(t)' = Shown(t)
    BY <2>2 DEF Shown
  <2> QED
    BY <1>7, <2>1, <2>2, <2>3
<1>11. ASSUME NEW w \in Workers, InsertSchedule(w)
       PROVE  Follows'
  <2>1. \A v \in Workers : Steady(v) \/ (~Posts(v) /\ ~Posts(v)')
    BY <1>11 DEF InsertSchedule, Goto, TypeOK, Steady, Posts
  <2>2. draft[w].kind # "shift"
    <3>1. draft[w] \in OwnRows \union {Typed}
      BY <1>11 DEF InsertSchedule, Goto, Uploads
    <3> QED
      BY <3>1, RowShapes DEF Rows
  <2>3. \A u \in Users : calendar'[u] \in {calendar[u], calendar[u] \union {draft[w]}}
    BY <1>11, Inserts, WorkerTypes
  <2>4. \A u \in Users : Shown(u)' = Shown(u)
    BY <2>2, <2>3 DEF Shown
  <2>5. round' = round /\ faulty' = faulty
    BY <1>11 DEF InsertSchedule, history
  <2> QED
    BY <1>7, <2>1, <2>4, <2>5
<1>12. ASSUME NEW u \in Users, NEW rows, DeleteSchedules(u, rows)
       PROVE  Follows'
  <2>1. /\ calendar'[u] = calendar[u] \ rows
        /\ \A t \in Users \ {u} : calendar'[t] = calendar[t]
    <3> DEFINE left == calendar[u] \ rows
    <3>1. calendar' = [calendar EXCEPT ![u] = left]
      BY <1>12 DEF DeleteSchedules
    <3> HIDE DEF left
    <3>2. calendar'[u] = left /\ \A t \in Users \ {u} : calendar'[t] = calendar[t]
      BY <3>1, OneCalendar
    <3> QED
      BY <3>2 DEF left
  <2>2. u \notin faulty' => \A r \in rows : r.kind # "shift"
    BY <1>12 DEF DeleteSchedules
  <2>3. \A t \in Users : t \notin faulty' => Shown(t)' = Shown(t)
    BY <2>1, <2>2 DEF Shown
  <2>4. round' = round /\ \A t \in Users : t \in faulty => t \in faulty'
    BY <1>12 DEF DeleteSchedules
  <2>5. \A v \in Workers : Steady(v)
    BY <1>12 DEF DeleteSchedules, Steady
  <2> QED
    BY <1>7, <2>3, <2>4, <2>5
<1>13. CASE Restart
  <2>1. \A u \in Users : u \notin faulty' => Posting(u) = {}
    BY <1>13 DEF Restart
  <2>2. \A w \in Workers : ~Posts(w)'
    BY <1>13 DEF Restart, Posts
  <2>3. /\ UNCHANGED <<calendar, round, who>>
        /\ \A u \in Users : u \in faulty => u \in faulty'
    BY <1>13 DEF Restart, stores
  <2>4. \A u \in Users : Upright(u)'
    <3> SUFFICES ASSUME NEW u \in Users, u \notin faulty', round[u] # {}
                 PROVE  Cleared(u)'
      BY <2>3 DEF Upright
    <3>1. Cleared(u)
      BY <1>0, <2>1, <2>3 DEF Upright, Beginning
    <3>2. \A w \in Workers : who[w] = u => pc[w] # "fill"
      BY <2>1 DEF Posting
    <3>3. Shown(u)' = Shown(u)
      BY <2>3 DEF Shown
    <3> QED
      BY <2>3, <3>1, <3>2, <3>3, ElsewhereCleared
  <2> QED
    BY <1>0, <2>2, <2>4
<1>14. CASE UNCHANGED vars
  <2>1. round' = round /\ faulty' = faulty /\ calendar' = calendar
    BY <1>14 DEF vars
  <2>2. \A v \in Workers : Steady(v)
    BY <1>14 DEF vars, Steady
  <2>3. \A t \in Users : Shown(t)' = Shown(t)
    BY <2>1 DEF Shown
  <2> QED
    BY <1>7, <2>1, <2>2, <2>3
<1> QED
  BY <1>1, <1>3, <1>4, <1>5, <1>6, <1>8, <1>9, <1>10, <1>11, <1>12, <1>13, <1>14 DEF Next

-----------------------------------------------------------------------------
(***************************************************************************)
(* Theorems                                                                *)
(***************************************************************************)

LEMMA AlwaysIInv == Spec => []IInv
<1>1. IInv /\ [Next]_vars => IInv'
  BY StepTypes, StepUploads, StepBacked, StepFollows DEF IInv
<1> QED
  BY InitIInv, <1>1, PTL DEF Spec

\* Every row, file and request has its type.
THEOREM ShiftsTyped == Spec => []TypeOK
<1>1. IInv => TypeOK
  BY DEF IInv
<1> QED
  BY <1>1, AlwaysIInv, PTL

\* Whatever fails and overlaps, the shifts of a post answered 201 are in the
\* table until they are deleted (handleShiftPost, deleteAllShiftsForUser).
THEOREM CreatedShiftsAreStored == Spec => []CreatedMeansStored
<1>1. IInv => CreatedMeansStored
  BY DEF IInv
<1> QED
  BY <1>1, AlwaysIInv, PTL

\* The calendar shows no shift that was never in the table.
THEOREM CalendarShowsOnlyShifts == Spec => []CalendarBacked
<1>1. IInv => CalendarBacked
  BY DEF IInv
<1> QED
  BY <1>1, AlwaysIInv, PTL

\* However many posts overlap, if all their statements succeed and nobody edits
\* their entries the calendar ends with one of them whole: the last to clear it.
THEOREM LastToClearIsShown == Spec => []CalendarFollows
<1>1. IInv => CalendarFollows
  <2> SUFFICES ASSUME IInv, NEW u \in Users, Posting(u) = {}, u \notin faulty, round[u] # {}
               PROVE  /\ Shown(u) \subseteq UNION {AsRows(b) : b \in round[u]}
                      /\ \E b \in round[u] : AsRows(b) \subseteq Shown(u)
    BY DEF CalendarFollows, Shown
  <2>1. Cleared(u)
    BY DEF IInv, Follows
  <2>2. \A w \in Workers : who[w] = u => pc[w] # "fill"
    BY DEF Posting
  <2> QED
    BY <2>1, <2>2 DEF Cleared
<1> QED
  BY <1>1, AlwaysIInv, PTL

\* An attachment on offer has been copied to its end (schedule.Handler.Create).
THEOREM AttachmentsAreWhole == Spec => []AttachmentsWhole
<1>1. IInv => AttachmentsWhole
  BY DEF IInv
<1> QED
  BY <1>1, AlwaysIInv, PTL

\* Posts of shifts, and all else but their deletion, leave a user's own entries
\* in the calendar (DeleteByTitlePrefix).
THEOREM OwnEntriesAreKept == Spec => OwnEntriesStay
<1> DEFINE Kept(u) == \A r \in calendar[u] : r.kind = "own" => r \in calendar'[u]
           Deleted(u) == \E rows \in {calendar[u]} \union {{r} : r \in calendar[u]} :
                            DeleteSchedules(u, rows)
<1>1. TypeOK /\ [Next]_vars => [\A u \in Users : Kept(u) \/ Deleted(u)]_vars
  <2> SUFFICES ASSUME TypeOK, Next, NEW u \in Users PROVE Kept(u) \/ Deleted(u)
    OBVIOUS
  <2>1. CASE calendar' = calendar
    BY <2>1
  <2>2. ASSUME NEW w \in Workers, ClearShiftRows(w) PROVE Kept(u)
    BY <2>2, Clears DEF Prefixed
  <2>3. ASSUME NEW w \in Workers, FillCalendar(w) PROVE Kept(u)
    BY <2>3, Fills
  <2>4. ASSUME NEW w \in Workers, InsertSchedule(w) PROVE Kept(u)
    BY <2>4, Inserts
  <2>5. ASSUME NEW t \in Users, NEW rows \in {calendar[t]} \union {{r} : r \in calendar[t]},
               DeleteSchedules(t, rows)
        PROVE  Kept(u) \/ Deleted(u)
    <3>1. CASE t = u
      BY <2>5, <3>1
    <3>2. CASE t # u
      <4> DEFINE left == calendar[t] \ rows
      <4>1. calendar' = [calendar EXCEPT ![t] = left]
        BY <2>5 DEF DeleteSchedules
      <4> HIDE DEF left
      <4>2. calendar'[u] = calendar[u]
        BY <3>2, <4>1, OneCalendar
      <4> QED
        BY <4>2
    <3> QED
      BY <3>1, <3>2
  <2>6. ASSUME NEW t \in Users, DeleteShifts(t) PROVE calendar' = calendar
    BY <2>6 DEF DeleteShifts
  <2>7. ASSUME NEW w \in Workers,
               \/ \E t \in Users : CreateSchedule(w, t)
               \/ \E t \in Users, b \in Batches : PostShifts(w, t, b)
               \/ RegisterShift(w) \/ AnswerCreated(w) \/ CopyAttachment(w)
        PROVE  calendar' = calendar
    BY <2>7 DEF CreateSchedule, PostShifts, RegisterShift, AnswerCreated, CopyAttachment, stores
  <2>8. CASE Restart
    BY <2>1, <2>8 DEF Restart, stores
  <2> QED
    BY <2>1, <2>2, <2>3, <2>4, <2>5, <2>6, <2>7, <2>8 DEF Next
<1>2. (\A u \in Users : Kept(u) \/ Deleted(u)) =>
      \A u \in Users :
          LET own(rows) == {r \in rows : r.kind = "own"}
          IN  ~(own(calendar[u]) \subseteq own(calendar'[u])) =>
                  \E rows \in {calendar[u]} \union {{r} : r \in calendar[u]} :
                      DeleteSchedules(u, rows)
  OBVIOUS
<1>3. [\A u \in Users : Kept(u) \/ Deleted(u)]_vars =>
      [\A u \in Users :
          LET own(rows) == {r \in rows : r.kind = "own"}
          IN  ~(own(calendar[u]) \subseteq own(calendar'[u])) =>
                  \E rows \in {calendar[u]} \union {{r} : r \in calendar[u]} :
                      DeleteSchedules(u, rows)]_vars
  BY <1>2
<1> HIDE DEF Kept, Deleted
<1> QED
  BY <1>1, <1>3, ShiftsTyped, PTL DEF Spec, OwnEntriesStay
=============================================================================
