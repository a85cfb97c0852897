---------------------------- MODULE MCScoreStore ----------------------------
(***************************************************************************)
(* Small instances of ScoreStore.  Penalties of one or two points reach     *)
(* every level from every other; the waits are two, one and two ticks (24, *)
(* 6 and 12 hours in the program, where the middle level also waits least).*)
(***************************************************************************)
EXTENDS ScoreStore, TLC

Symmetry == Permutations(Workers) \union Permutations(Ips)
=============================================================================
