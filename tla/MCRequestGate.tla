---------------------------- MODULE MCRequestGate ----------------------------
(***************************************************************************)
(* RequestGate with the amounts of log.go scaled down: the levels 15/25/50 *)
(* become 3/4/5 and the largest amount 2.  A tick stands for a quarter of  *)
(* an hour; the waits keep their order (middle < high < low), a block is   *)
(* shorter than a grace period and a grace period not longer than a wait,  *)
(* as in security_config.json.                                             *)
(***************************************************************************)
EXTENDS RequestGate

MCPenalty == [method |-> 2, rate |-> 1, oversized |-> 2, header |-> 2, path |-> 2,
              deny |-> 2, warn |-> 1, relaxedDeny |-> 1, boost |-> 1]

\* Plain requests and those one check objects to.
MCSingle ==
    {Clean,
     [Clean EXCEPT !.method = FALSE], [Clean EXCEPT !.cloudflare = FALSE],
     [Clean EXCEPT !.country = TRUE], [Clean EXCEPT !.over = TRUE],
     [Clean EXCEPT !.threat = "oversized"], [Clean EXCEPT !.threat = "header"],
     [Clean EXCEPT !.path = "suspicious"], [Clean EXCEPT !.path = "sql or script"],
     [Clean EXCEPT !.path = "webauthn"],
     [Clean EXCEPT !.agent = "warn"], [Clean EXCEPT !.agent = "deny"]}

\* Those that a second check objects to after a first one may have let them
\* go on.
MCRequests ==
    MCSingle \union
    {[Clean EXCEPT !.cloudflare = FALSE, !.agent = "warn"],
     [Clean EXCEPT !.cloudflare = FALSE, !.agent = "deny"],
     [Clean EXCEPT !.over = TRUE, !.agent = "deny"],
     [Clean EXCEPT !.over = TRUE, !.path = "sql or script"]}
=============================================================================
