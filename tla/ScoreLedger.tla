----------------------------- MODULE ScoreLedger -----------------------------
(***************************************************************************)
(* What the scoring in log.go promises its callers, without locks or       *)
(* request interleavings: a penalty adds to the visitor's score, a score   *)
(* is forgiven as a whole, only below the block level and only after the   *)
(* visitor stayed quiet for the time its level asks for, and each change   *)
(* is saved before the next one.  A restart goes back to what was saved.   *)
(* ScoreStore implements it as long as requests do not overlap.            *)
(***************************************************************************)
EXTENDS ScorePolicy

CONSTANT Penalties

VARIABLES
    score,  \* score[ip]: penalties since the last forgiveness
    quiet,  \* quiet[ip]: never more than the time since the last penalty
    saved   \* the scores as a restart would find them

ledgerVars == <<score, quiet, saved>>

Nothing == [ip \in Ips |-> 0]

Init == score = Nothing /\ quiet = Nothing /\ saved = Nothing

Penalize(ip, n) ==
    /\ saved = score
    /\ score' = [score EXCEPT ![ip] = @ + n]
    /\ quiet' = [quiet EXCEPT ![ip] = 0]
    /\ UNCHANGED saved

Forgive(ip) ==
    /\ saved = score
    /\ score[ip] > 0
    /\ Expired(score[ip], quiet[ip])
    /\ score' = [score EXCEPT ![ip] = 0]
    /\ UNCHANGED <<quiet, saved>>

\* A change is saved in two steps, and nothing is saved in between.
Clear ==
    /\ saved # score
    /\ saved' = Nothing
    /\ UNCHANGED <<score, quiet>>

Save ==
    /\ saved' = score
    /\ UNCHANGED <<score, quiet>>

Restart ==
    /\ score' = saved
    /\ quiet' = Nothing
    /\ UNCHANGED saved

\* The clock of a visitor without a score may be dropped at any time.
DropClocks(S) ==
    /\ \A ip \in S : score[ip] = 0
    /\ quiet' = [ip \in Ips |-> IF ip \in S THEN 0 ELSE quiet[ip]]
    /\ UNCHANGED <<score, saved>>

\* Time passes; a clock that is held back for a moment only runs slow.
Tick(S) ==
    /\ quiet' = [ip \in Ips |-> IF ip \in S THEN Older(quiet[ip]) ELSE quiet[ip]]
    /\ UNCHANGED <<score, saved>>

Next ==
    \/ \E ip \in Ips : Forgive(ip) \/ \E n \in Penalties : Penalize(ip, n)
    \/ \E S \in SUBSET Ips : DropClocks(S) \/ Tick(S)
    \/ Clear \/ Save \/ Restart

Spec == Init /\ [][Next]_ledgerVars
=============================================================================
