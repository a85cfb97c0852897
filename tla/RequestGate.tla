----------------------------- MODULE RequestGate -----------------------------
(***************************************************************************)
(* secureHandler (log.go): the checks every request passes, in their       *)
(* order, and the memory they share: scores and their timers, dynamic      *)
(* blocks, first-access grace periods.  One action is one whole request,   *)
(* or what a stop of the process leaves of it; what overlapping requests   *)
(* do to the score map is ScoreStore's subject, and whether a request is   *)
(* over the rate limit is RateLimiter's.                                   *)
(*                                                                         *)
(* Ips are public addresses.  A private or trusted one passes after the    *)
(* method check alone and leaves none of this state behind.                *)
(***************************************************************************)
EXTENDS ScorePolicy, Sequences, FiniteSetsExt

CONSTANTS
    StartLevels,        \* the security levels the server may be started with
    Requests,           \* the requests the visitors send, see RequestType
    Penalty,            \* what each check adds to the score
    BlockTime,          \* dynamic_block_time_min
    Grace,              \* first_access_grace_period_min
    RequireCloudflare,  \* require_cloudflare
    MaxScore            \* bound: no request is made from a score beyond it

Levels == {"balanced-secure", "relaxed", "other"}
Absent == -1
Age(limit) == {Absent} \union (0 .. limit)

RequestType ==
    [method : BOOLEAN,     \* isAllowedMethod
     cloudflare : BOOLEAN, \* isFromCloudflare
     country : BOOLEAN,    \* isBlockedCountry
     over : BOOLEAN,       \* checkRateLimit fails
     threat : {"clean", "oversized", "header"},
     path : {"plain", "suspicious", "sql or script", "webauthn"},
     agent : {"ok", "warn", "deny"}]

ASSUME GateAssumption ==
    /\ Requests \subseteq RequestType /\ StartLevels \subseteq Levels
    /\ BlockTime \in Nat /\ Grace \in Nat
    /\ RequireCloudflare \in BOOLEAN
    /\ Penalty \in [method : Nat, rate : Nat, oversized : Nat, header : Nat, path : Nat,
                    deny : Nat, warn : Nat, relaxedDeny : Nat, boost : Nat]

VARIABLES
    level,  \* security_level, read once at start
    score,  \* ipScores and ip_scores.json, which agree between requests
    quiet,  \* age of ipScoreLastReset[ip]
    block,  \* age of dynamicBlockMap[ip]
    grace,  \* age of firstAccessIPs[ip], counted from when it was granted
    saved,  \* the same in first_access_ips.json
    why,    \* history: the check that set the block
    last    \* history: whether the last request was plain, and the check that
            \* stopped the last one answered

gateVars == <<level, score, quiet, block, grace, saved, why, last>>

Order == <<"cloudflare", "country", "method", "rate", "dynamic", "threat",
           "path", "agent", "score">>
Checks == {Order[i] : i \in DOMAIN Order}

Past(limit, age) == age # Absent /\ age >= limit
Within(limit, age) == age # Absent /\ age < limit

InGrace(ip) == Within(Grace, grace[ip])
Blocked(ip) == Within(BlockTime, block[ip])

GateTypeOK ==
    /\ level \in Levels
    /\ score \in [Ips -> Nat]
    /\ quiet \in [Ips -> Age(MaxQuiet)]
    /\ block \in [Ips -> Age(BlockTime + 1)]
    /\ grace \in [Ips -> Age(Grace + 1)] /\ saved \in [Ips -> Age(Grace + 1)]
    /\ why \in [Ips -> Checks \union {"none"}]
    /\ last \in [Ips -> [clean : BOOLEAN, stop : Checks \union {"none", "served", "bypass"}]]

Clean == [method |-> TRUE, cloudflare |-> TRUE, country |-> FALSE, over |-> FALSE,
          threat |-> "clean", path |-> "plain", agent |-> "ok"]

GateInit ==
    /\ level \in StartLevels
    /\ score = [ip \in Ips |-> 0]
    /\ quiet = [ip \in Ips |-> Absent] /\ block = [ip \in Ips |-> Absent]
    /\ grace = [ip \in Ips |-> Absent] /\ saved = [ip \in Ips |-> Absent]
    /\ why = [ip \in Ips |-> "none"]
    /\ last = [ip \in Ips |-> [clean |-> FALSE, stop |-> "none"]]

-----------------------------------------------------------------------------
Suspicious == {"suspicious", "sql or script"}

\* calculateNonCloudflareBoost
Boost(r) == IF level = "balanced-secure" \/ r.cloudflare THEN 0 ELSE Penalty.boost

\* What each check adds to the score of the visitor if it is reached.
Gains(r) ==
    LET strict == level # "relaxed"
        If(condition, n) == IF condition THEN n ELSE 0
    IN  [method |-> If(~r.method, Penalty.method),
         rate |-> If(r.over /\ strict, Penalty.rate),
         threat |-> If(r.threat = "oversized" /\ strict, Penalty.oversized)
                    + If(r.threat = "header" /\ strict, Penalty.header),
         path |-> If(r.path \in Suspicious, Penalty.path + Boost(r)),
         agent |-> If(r.agent = "deny" /\ strict, Penalty.deny + Boost(r))
                   + If(r.agent = "deny" /\ ~strict, Penalty.relaxedDeny + Boost(r))
                   + If(r.agent = "warn" /\ strict, Penalty.warn + Boost(r))]

\* The score from which handleFinalScore stops a request; relaxed only logs.
StopsAt == IF level = "balanced-secure" THEN BlockAt ELSE MediumAt

\* Whether a check stops the request; earned is the score it brings to the
\* last one.  Only balanced mode honours firstAccess.
Stops(check, ip, r, firstAccess, earned) ==
    LET balanced == level = "balanced-secure"
        strict == level # "relaxed"
        lenient == balanced /\ firstAccess
    IN  \/ /\ check = "cloudflare" /\ ~r.cloudflare
           /\ balanced /\ ~firstAccess /\ RequireCloudflare
        \/ check = "country" /\ r.country /\ strict
        \/ check = "method" /\ ~r.method
        \/ check = "rate" /\ r.over /\ strict /\ ~lenient
        \/ check = "dynamic" /\ Blocked(ip) /\ strict
        \/ check = "threat" /\ r.threat # "clean" /\ strict
        \/ check = "path" /\ r.path \in Suspicious
        \/ check = "agent" /\ r.agent = "deny" /\ strict /\ ~lenient
        \/ check = "score" /\ earned >= StopsAt /\ strict

\* The checks that would stop the request if it reached them.
Stopping(ip, r, firstAccess, earned) ==
    {i \in DOMAIN Order : Stops(Order[i], ip, r, firstAccess, earned)}

\* Mistaken variant: a request stopped by a dynamic block renews it.
BlockingAndRenewing(r) ==
    {"rate", "agent", "score", "dynamic"}
        \union (IF r.path = "sql or script" THEN {"path"} ELSE {})

\* addDynamicBlock is called by these checks when they stop the request.
Blocking(r) ==
    {"rate", "agent", "score"} \union (IF r.path = "sql or script" THEN {"path"} ELSE {})

\* prepareScoreState: an expired score is cleared.
Forgiven(ip) ==
    /\ score[ip] > 0
    /\ quiet[ip] # Absent
    /\ Expired(score[ip], quiet[ip])

\* Mistaken variant: the score does not matter.
GrantsGraceToAnyone(ip, currentScore) == grace[ip] = Absent

\* resolveFirstAccess: a visitor without a score and without an entry, even
\* one that was cleaned up, gets a grace period.
GrantsGrace(ip, currentScore) == currentScore = 0 /\ grace[ip] = Absent

Current(ip) == IF Forgiven(ip) THEN 0 ELSE score[ip]

Sum(gains, checks) ==
    LET Of(c, n) == IF c \in checks THEN n ELSE 0 IN
    Of("method", gains.method) + Of("rate", gains.rate) + Of("threat", gains.threat)
        + Of("path", gains.path) + Of("agent", gains.agent)

\* The check that stops the request, the checks it meets and the score it
\* leaves with.
Outcome(ip, r, current, gains) ==
    LET stops == Stopping(ip, r, InGrace(ip) \/ GrantsGrace(ip, current),
                          current + Sum(gains, Checks))
        meets == {Order[i] : i \in IF stops = {} THEN DOMAIN Order ELSE 1 .. Min(stops)}
    IN  [stop |-> IF stops = {} THEN "served" ELSE Order[Min(stops)],
         meets |-> meets,
         total |-> current + Sum(gains, meets)]

Request(ip, r) ==
    /\ score[ip] <= MaxScore
    /\ r.path # "webauthn"
    /\ \E current \in {Current(ip)}, gains \in {Gains(r)} :
       \E o \in {Outcome(ip, r, current, gains)} :
        LET sets == o.stop \in Blocking(r)
            \* isDynamicallyBlocked drops the entry it finds expired
            expires == /\ "dynamic" \in o.meets /\ level # "relaxed"
                       /\ Past(BlockTime, block[ip])
            clock == IF current = 0 THEN Absent
                     ELSE IF quiet[ip] = Absent THEN 0 ELSE quiet[ip]
        IN
        /\ score' = [score EXCEPT ![ip] = o.total]
        /\ quiet' = [quiet EXCEPT ![ip] = IF o.total > current THEN 0 ELSE clock]
        /\ grace' = [grace EXCEPT ![ip] = IF GrantsGrace(ip, current) THEN 0 ELSE @]
        /\ block' = [block EXCEPT ![ip] = IF sets THEN 0 ELSE IF expires THEN Absent ELSE @]
        /\ why' = [why EXCEPT ![ip] = IF sets THEN o.stop ELSE IF expires THEN "none" ELSE @]
        /\ last' = [last EXCEPT ![ip] = [clean |-> r = Clean, stop |-> o.stop]]
        /\ UNCHANGED <<level, saved>>

\* handleBypassRoutes: /api/webauthn/ is served before any check.
BypassRequest(ip, r) ==
    /\ r.path = "webauthn"
    /\ last' = [last EXCEPT ![ip] = [clean |-> FALSE, stop |-> "bypass"]]
    /\ UNCHANGED <<level, score, quiet, block, grace, saved, why>>

CleanupFirstAccessIPs ==
    grace' = [ip \in Ips |-> IF grace[ip] > Grace THEN Absent ELSE grace[ip]]

SaveFirstAccessIPs == saved' = grace'

\* cleanupMaps, every ten minutes.
CleanupMaps ==
    LET stale == {ip \in Ips : block[ip] > BlockTime} IN
        /\ CleanupFirstAccessIPs /\ SaveFirstAccessIPs
        /\ quiet' = [ip \in Ips |-> IF score[ip] = 0 THEN Absent ELSE quiet[ip]]
        /\ block' = [ip \in Ips |-> IF ip \in stale THEN Absent ELSE block[ip]]
        /\ why' = [ip \in Ips |-> IF ip \in stale THEN "none" ELSE why[ip]]
        /\ UNCHANGED <<level, score, last>>

AllForgotten == [ip \in Ips |-> 0]
NoGrace == [ip \in Ips |-> Absent]

\* The process starts: what the two files hold comes back, timers and dynamic
\* blocks do not.  A stop while first_access_ips.json was being written has
\* left nothing in it.
Start(scores) ==
    /\ score' = scores
    /\ quiet' = [ip \in Ips |-> Absent]
    /\ block' = [ip \in Ips |-> Absent]
    /\ why' = [ip \in Ips |-> "none"]
    /\ \E kept \in {saved, NoGrace} : grace' = kept /\ saved' = kept
    /\ UNCHANGED level

\* A restart while no request was changing scores.
Restart == Start(score) /\ UNCHANGED last

\* What a stop during a request may leave in ip_scores.json: every change of
\* the score is saved at once (resetIPScore, incrementScore), and while
\* os.WriteFile is at work the file does not decode, so everybody's score is
\* gone.
LeftBehind(ip, r) ==
    LET current == Current(ip)
        gains == Gains(r)
        meets == Outcome(ip, r, current, gains).meets
        reached == {current + Sum(gains, meets \intersect {Order[i] : i \in 1 .. n}) :
                       n \in DOMAIN Order}
        whole == {[score EXCEPT ![ip] = n] : n \in {current} \union reached}
    IN  {score} \union whole
            \union (IF whole = {score} THEN {} ELSE {AllForgotten})

\* The process stops during a request, which is never answered.
Interrupt(ip, r) ==
    /\ score[ip] <= MaxScore
    /\ r.path # "webauthn"
    /\ \E scores \in LeftBehind(ip, r) : Start(scores)
    /\ last' = [last EXCEPT ![ip].clean = (r = Clean)]

Aged(f, limit) ==
    [ip \in Ips |-> IF f[ip] \in {Absent, limit} THEN f[ip] ELSE f[ip] + 1]

\* Ages that no comparison tells apart any more stop growing.
GateTick ==
    /\ quiet' = Aged(quiet, MaxQuiet)
    /\ block' = Aged(block, BlockTime + 1)
    /\ grace' = Aged(grace, Grace + 1) /\ saved' = Aged(saved, Grace + 1)
    /\ UNCHANGED <<level, score, why, last>>

GateNext ==
    \/ \E ip \in Ips, r \in Requests : Request(ip, r) \/ BypassRequest(ip, r)
    \/ \E ip \in Ips, r \in Requests : Interrupt(ip, r)
    \/ CleanupMaps
    \/ Restart
    \/ GateTick

GateSpec == GateInit /\ [][GateNext]_gateVars

\* The clock runs and every visitor keeps coming back with a plain request.
GateFairSpec ==
    /\ GateSpec
    /\ WF_gateVars(GateTick)
    /\ \A ip \in Ips : WF_gateVars(Request(ip, Clean))

-----------------------------------------------------------------------------
(***************************************************************************)
(* Properties                                                              *)
(***************************************************************************)

\* In balanced mode a visitor in his grace period is under a dynamic block
\* only for what the grace period does not excuse: a request for a path with
\* "sql" or "script" in it, or the block-level score.  A block set for the
\* rate or the user agent is over before any grace period can begin.
GraceExcuses ==
    \A ip \in Ips :
        level = "balanced-secure" /\ InGrace(ip) /\ Blocked(ip)
            => why[ip] \in {"path", "score"}

\* Outside relaxed mode a visitor at the block level reaches no handler any
\* more but the passkey routes, and he stays at it whatever time passes and
\* however often maps are cleaned up and the process restarts; only a process
\* that stops in the middle of a request that saves scores may forget it, and
\* then it forgets everybody's.  The requests here do not overlap; for those
\* that do see BlockLevelStays of ScoreStore.
BlockLevelIsFinal ==
    [][\A ip \in Ips :
          level # "relaxed" /\ score[ip] >= BlockAt =>
              /\ \/ score'[ip] >= BlockAt
                 \/ /\ \E v \in Ips, r \in Requests : Interrupt(v, r)
                    /\ score' = AllForgotten
              /\ \A r \in Requests : Request(ip, r) => last'[ip].stop # "served"]_gateVars

\* In balanced mode nobody below the block level is shut out for good: once a
\* visitor only sends plain requests he is served, since requests that a
\* dynamic block stops do not renew the block.
ServedInTheEnd ==
    \A ip \in Ips :
        level = "balanced-secure" /\ <>[]last[ip].clean
            => <>[](last[ip].stop = "served" \/ score[ip] >= BlockAt)
=============================================================================
