------------------------------ MODULE MCShifts ------------------------------
(***************************************************************************)
(* Two requests in flight: enough for a post to overlap another post, the  *)
(* deletion of the shifts, or the creation of a schedule.  One batch has   *)
(* two shifts, one shares a shift with it, and one is empty.               *)
(***************************************************************************)
EXTENDS Shifts, TLC

CONSTANTS early, late

MCShift == {early, late}
MCBatches == {<<>>, <<late>>, <<early, late>>}

Symmetry == Permutations(Workers)
=============================================================================
