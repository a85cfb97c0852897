---------------------------- MODULE RateLimiter -----------------------------
(***************************************************************************)
(* checkRateLimit of log.go and the cleanup that forgets idle visitors.    *)
(* Both run under rateLimitMutex, so each is one action.  Ips are public   *)
(* addresses and their requests are not for the exempt file types: the     *)
(* others pass without leaving a trace.                                    *)
(***************************************************************************)
EXTENDS Integers, FiniteSets

CONSTANTS
    Ips,
    Limit,   \* rate_limit_per_min
    Window,  \* one minute, in ticks
    Keep,    \* five minutes, in ticks
    MaxAsked \* bound: requests of one visitor per tick

ASSUME LimiterAssumption ==
    /\ Limit \in Nat \ {0}
    /\ Window \in Nat /\ Keep \in Nat /\ Window <= Keep
    /\ MaxAsked \in Nat

VARIABLES
    entry,    \* rateLimitMap: absent, or count and age of LastReset
    verdict,  \* the answer to the visitor's latest request in this tick
    asked,    \* history: the requests of the last Window ticks
    passed    \* history: those of them that were let through

vars == <<entry, verdict, asked, passed>>

NoEntry == [count |-> 0, age |-> -1]
Entries == [count : Nat, age : 0 .. (Keep + 1)] \union {NoEntry}

\* A request is the nr-th one that a visitor made so many ticks ago.
Requests == [age : 0 .. Window, nr : 1 .. MaxAsked]

TypeOK ==
    /\ entry \in [Ips -> Entries]
    /\ verdict \in [Ips -> {"none", "pass", "refuse"}]
    /\ asked \in [Ips -> SUBSET Requests]
    /\ passed \in [Ips -> SUBSET Requests]

Init ==
    /\ entry = [ip \in Ips |-> NoEntry]
    /\ verdict = [ip \in Ips |-> "none"]
    /\ asked = [ip \in Ips |-> {}]
    /\ passed = [ip \in Ips |-> {}]

\* Mistaken variant: a new window starts its count but not its clock.
CountedForgettingReset(e) ==
    IF e = NoEntry THEN [count |-> 1, age |-> 0]
    ELSE IF e.age > Window THEN [count |-> 1, age |-> e.age]
    ELSE [e EXCEPT !.count = @ + 1]

\* Mistaken variant: the count carries over into the next window.
CountedCarryingOver(e) ==
    IF e = NoEntry THEN [count |-> 1, age |-> 0]
    ELSE IF e.age > Window THEN [count |-> e.count + 1, age |-> 0]
    ELSE [e EXCEPT !.count = @ + 1]

\* The entry once a request has been counted.
Counted(e) ==
    IF e = NoEntry \/ e.age > Window THEN [count |-> 1, age |-> 0]
    ELSE [e EXCEPT !.count = @ + 1]

CheckRateLimit(ip) ==
    LET new == Counted(entry[ip])
        passes == entry[ip] = NoEntry \/ new.count <= Limit
        request == [age |-> 0, nr |-> Cardinality({r \in asked[ip] : r.age = 0}) + 1]
    IN  /\ request.nr <= MaxAsked
        /\ entry' = [entry EXCEPT ![ip] = new]
        /\ verdict' = [verdict EXCEPT ![ip] = IF passes THEN "pass" ELSE "refuse"]
        /\ asked' = [asked EXCEPT ![ip] = @ \union {request}]
        /\ passed' = [passed EXCEPT ![ip] = IF passes THEN @ \union {request} ELSE @]

\* Mistaken variant: every entry goes.
IdleAll == {ip \in Ips : entry[ip] # NoEntry}

\* The visitors cleanupMaps forgets.
Idle == {ip \in Ips : entry[ip].age > Keep}

CleanupMaps ==
    /\ entry' = [ip \in Ips |-> IF ip \in Idle THEN NoEntry ELSE entry[ip]]
    /\ UNCHANGED <<verdict, asked, passed>>

Older(e) == IF e = NoEntry \/ e.age > Keep THEN e ELSE [e EXCEPT !.age = @ + 1]
Shifted(requests) == {[r EXCEPT !.age = @ + 1] : r \in {q \in requests : q.age < Window}}

Tick ==
    /\ entry' = [ip \in Ips |-> Older(entry[ip])]
    /\ verdict' = [ip \in Ips |-> "none"]
    /\ asked' = [ip \in Ips |-> Shifted(asked[ip])]
    /\ passed' = [ip \in Ips |-> Shifted(passed[ip])]

Next ==
    \/ \E ip \in Ips : CheckRateLimit(ip)
    \/ CleanupMaps
    \/ Tick

Spec == Init /\ [][Next]_vars

-----------------------------------------------------------------------------
(***************************************************************************)
(* Properties                                                              *)
(***************************************************************************)

\* The windows do not slide, so what passes in one minute may be more than
\* the limit, but it is never more than twice the limit.
Throttled == \A ip \in Ips : Cardinality(passed[ip]) <= 2 * Limit

\* Nobody is refused who has not really made more than Limit requests within
\* the last minute: refused requests do not prolong the window.
RefusedForCause ==
    \A ip \in Ips : verdict[ip] = "refuse" => Cardinality(asked[ip]) > Limit

\* Forgetting idle entries is invisible: the limiter implements a window per
\* visitor that is never forgotten.
Current(ip) == entry[ip] # NoEntry /\ entry[ip].age <= Window

Opened == [ip \in Ips |-> IF Current(ip) THEN entry[ip].age ELSE Window + 1]

LetThrough ==
    [ip \in Ips |-> IF ~Current(ip) THEN 0
                    ELSE IF entry[ip].count <= Limit THEN entry[ip].count ELSE Limit]

RateWindow == INSTANCE RateWindow WITH open <- Opened, passed <- LetThrough

ImplementsWindow == RateWindow!Spec
=============================================================================
