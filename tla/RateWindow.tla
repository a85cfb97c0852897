----------------------------- MODULE RateWindow ------------------------------
(***************************************************************************)
(* What the rate limiter promises: one fixed window per visitor, which     *)
(* opens with a request, stays open for Window ticks and lets Limit        *)
(* requests pass.  Nothing is ever forgotten or cleaned up here.           *)
(***************************************************************************)
EXTENDS Integers

CONSTANTS
    Ips,
    Limit,  \* rate_limit_per_min
    Window  \* one minute, in ticks

VARIABLES
    open,    \* ticks since the window opened; Window + 1 when it is closed
    passed,  \* requests let through in the open window, 0 when it is closed
    verdict  \* the latest answer to each visitor

Init ==
    /\ open = [ip \in Ips |-> Window + 1]
    /\ passed = [ip \in Ips |-> 0]
    /\ verdict = [ip \in Ips |-> "none"]

Pass(ip) ==
    /\ passed[ip] < Limit
    /\ passed' = [passed EXCEPT ![ip] = @ + 1]
    /\ open' = [open EXCEPT ![ip] = IF @ > Window THEN 0 ELSE @]
    /\ verdict' = [verdict EXCEPT ![ip] = "pass"]

Refuse(ip) ==
    /\ passed[ip] = Limit
    /\ verdict' = [verdict EXCEPT ![ip] = "refuse"]
    /\ UNCHANGED <<open, passed>>

Tick ==
    /\ open' = [ip \in Ips |-> IF open[ip] <= Window THEN open[ip] + 1 ELSE open[ip]]
    /\ passed' = [ip \in Ips |-> IF open[ip] < Window THEN passed[ip] ELSE 0]
    /\ verdict' = [ip \in Ips |-> "none"]

Next ==
    \/ \E ip \in Ips : Pass(ip) \/ Refuse(ip)
    \/ Tick

Spec == Init /\ [][Next]_<<open, passed, verdict>>
=============================================================================
