------------------------------ MODULE MCWeather ------------------------------
(***************************************************************************)
(* Weather with two regions, two places in a forecast and two calls under  *)
(* way: enough for the answer for one region to overtake the one for the   *)
(* other, and for a value to be missing beside one that is not.            *)
(***************************************************************************)
EXTENDS Weather
=============================================================================
