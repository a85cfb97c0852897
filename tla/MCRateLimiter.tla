--------------------------- MODULE MCRateLimiter ----------------------------
(***************************************************************************)
(* RateLimiter with a limit of two and a minute of two ticks.              *)
(***************************************************************************)
EXTENDS RateLimiter
=============================================================================
