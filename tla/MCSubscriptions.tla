--------------------------- MODULE MCSubscriptions ---------------------------
(***************************************************************************)
(* 2024, a leap year, to March 2026; day 0 is the 1st of January.  Payments*)
(* are due on the 31st of January or the 29th of February.  Things happen  *)
(* at the midnight that begins the 29th of February, on that day, and more *)
(* than a year later.  The server is half a day behind UTC, where the text *)
(* comparison leaves out overdue rows; ahead of UTC it leaves out none.    *)
(***************************************************************************)
EXTENDS Subscriptions, TLC

MCMonthStart ==
    <<0, 31, 60, 91, 121, 152, 182, 213, 244, 274, 305, 335, 366, 397, 425, 456, 486,
      517, 547, 578, 609, 639, 670, 700, 731, 762, 790>>

MCDates == {30, 59}
MCCycles == {"weekly", "monthly", "quarterly"}
MCInstants == {118, 119, 2 * 420 + 1}
MCWest == -1

Symmetry == Permutations(Calls)
=============================================================================
