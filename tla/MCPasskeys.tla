----------------------------- MODULE MCPasskeys -----------------------------
(***************************************************************************)
(* Two finish requests in flight and three challenges: one to register a   *)
(* passkey, and two to log in with it or to replace it.  Two devices stand *)
(* for the one the server remembers and one it does not.                   *)
(***************************************************************************)
EXTENDS Passkeys, TLC

Symmetry == Permutations(Workers) \union Permutations(Devices)
=============================================================================
