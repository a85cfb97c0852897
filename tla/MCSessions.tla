----------------------------- MODULE MCSessions -----------------------------
(***************************************************************************)
(* Two calls pending at a time, in one tab or in two.  A session lives one *)
(* day, a restore token two, a device cookie three, and the clock runs     *)
(* long enough to see each of them end.                                    *)
(***************************************************************************)
EXTENDS Sessions, TLC

Symmetry == Permutations(Users) \union Permutations(Calls)
=============================================================================
