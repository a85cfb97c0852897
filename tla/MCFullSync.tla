----------------------------- MODULE MCFullSync ------------------------------
(***************************************************************************)
(* FullSync with two users and a payment of one of them, due two days      *)
(* after the page was opened.                                              *)
(***************************************************************************)
EXTENDS FullSync

CONSTANTS ann, bob, rent

OwnerDef == [p \in Payments |-> ann]
PayDayDef == [p \in Payments |-> 2]
=============================================================================
