----------------------------- MODULE MCAccounts -----------------------------
(***************************************************************************)
(* Accounts with two or three requests in flight.  Two users are enough    *)
(* for two registrations to share an address; three requests of one legacy *)
(* user are enough for a log-in and two changes to overlap.  Requests in   *)
(* flight, passwords and addresses are interchangeable.                    *)
(***************************************************************************)
EXTENDS Accounts, TLC

Symmetry ==
    Permutations(Handlers) \union Permutations(Passwords) \union Permutations(Emails)
=============================================================================
