----------------------------- MODULE MCCalendar ------------------------------
(***************************************************************************)
(* Calendar with two schedules of the 30th, one already stored; the other  *)
(* comes before it on the server and after it in the copy when it is       *)
(* entered here.  The month has 31 days and begins on a Saturday, so that  *)
(* the 30th has no cell and is shown only when its midnight has passed.    *)
(***************************************************************************)
EXTENDS Calendar

CONSTANTS early, late, demo

DateOfDef == [e \in Entries \union {Demo} |-> IF e = demo THEN 29 ELSE 30]
RankOfDef == [e \in Entries \union {Demo} |-> IF e = late THEN 2 ELSE 1]
=============================================================================
