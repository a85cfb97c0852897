----------------------------- MODULE ScoreProofs -----------------------------
(***************************************************************************)
(* What holds of scores (log.go): of the store, for any number of          *)
(* overlapping requests, visitors, amounts and restarts; and of the checks *)
(* of secureHandler, for any visitors and requests, any penalties,         *)
(* thresholds and periods.                                                 *)
(***************************************************************************)
EXTENDS ScoreStore, RequestGate, TLAPS

\* NoInflation is inductive only together with the same bound on every copy
\* of the scores that may find its way back to mem.
IInv == TypeOK /\ NoInflation /\ CopiesBounded

\* A saturating clock stays in its range (Older, the model of time.Since).
LEMMA OlderType ==
    ASSUME NEW t \in 0 .. MaxQuiet
    PROVE  Older(t) \in 0 .. MaxQuiet
BY PolicyAssumption DEF Older

\* A file after WriteFile is decodable only with what was written.
LEMMA OverlayType ==
    ASSUME NEW old \in Contents, NEW new \in Contents, NEW f \in Overlay(old, new)
    PROVE  /\ f \in Contents
           /\ \A ip \in Ips : f.scores[ip] = new.scores[ip] \/ f.scores[ip] = 0
BY DEF Overlay, Contents, Torn, Scores, NoScores

\* Before the first request nothing is scored and nothing is copied.
LEMMA InitIInv == Init => IInv
BY PolicyAssumption, StoreAssumption
   DEF Init, IInv, TypeOK, NoInflation, CopiesBounded, Empty, Contents, Scores,
       NoScores, NoTimer, Steps

\* No step of a request, of the cleanup, of the clock or of a restart breaks
\* the types or the bounds.
LEMMA StepIInv == IInv /\ [Next]_vars => IInv'
<1> SUFFICES ASSUME IInv, [Next]_vars PROVE IInv'
    OBVIOUS
<1> USE PolicyAssumption, StoreAssumption
<1> USE DEF IInv, TypeOK, NoInflation, CopiesBounded, Goto
<1>1. ASSUME NEW w \in Workers, NEW ip \in Ips, ReadScores(w, ip) PROVE IInv'
    BY <1>1 DEF ReadScores, Steps
<1>2. ASSUME NEW w \in Workers, ApplyScores(w) PROVE IInv'
    BY <1>2 DEF ApplyScores, Empty, Contents, Scores, NoScores, Steps
<1>3. ASSUME NEW w \in Workers, ReadScore(w) PROVE IInv'
    BY <1>3 DEF ReadScore, Scores, Steps
<1>4. ASSUME NEW w \in Workers, CheckExpiry(w) PROVE IInv'
    BY <1>4 DEF CheckExpiry, Steps, NoTimer
<1>5. ASSUME NEW w \in Workers, ResetScore(w) PROVE IInv'
    BY <1>5 DEF ResetScore, Scores, Steps
<1>6. ASSUME NEW w \in Workers, ResetTimer(w) PROVE IInv'
    BY <1>6 DEF ResetTimer, Steps
<1>7. ASSUME NEW w \in Workers, NEW n \in Penalties, AddPenalty(w, n) PROVE IInv'
    <2>1. TypeOK'
        BY <1>7 DEF AddPenalty, Scores, Steps
    <2>2. \A ip \in Ips : /\ given[ip] \in Nat /\ given'[ip] \in Nat
                          /\ given[ip] <= given'[ip]
        <3>1. n \in Nat /\ given \in [Ips -> Nat] /\ given' = [given EXCEPT ![who[w]] = @ + n]
            BY <1>7 DEF AddPenalty, Scores
        <3> QED
            BY ONLY <3>1
    <2>3. NoInflation'
        BY <1>7 DEF AddPenalty, Scores
    <2>4. CopiesBounded'
        <3>1. \A c \in Contents, ip \in Ips : c.scores[ip] \in Nat
            BY DEF Contents, Scores
        <3>2. file' = file /\ copy' = copy
            BY <1>7 DEF AddPenalty
        <3>3. SUFFICES ASSUME NEW ip \in Ips, NEW c \in Contents,
                              c.scores[ip] <= given[ip]
                       PROVE  c.scores[ip] <= given'[ip]
            BY <3>2
        <3>4. QED
            BY <2>2, <3>1, <3>3
    <2>5. QED
        BY <2>1, <2>3, <2>4
<1>8. ASSUME NEW w \in Workers, RestartTimer(w) PROVE IInv'
    BY <1>8 DEF RestartTimer, Steps
<1>9. ASSUME NEW w \in Workers, TakeSnapshot(w) PROVE IInv'
    BY <1>9 DEF TakeSnapshot, Whole, Contents, Steps
<1>10. ASSUME NEW w \in Workers, TruncateFile(w) PROVE IInv'
    BY <1>10 DEF TruncateFile, Empty, Contents, Scores, NoScores, Steps
<1>11. ASSUME NEW w \in Workers, WriteFile(w) PROVE IInv'
    <2>1. /\ file' \in Contents
          /\ \A ip \in Ips : file'.scores[ip] = copy[w].scores[ip] \/ file'.scores[ip] = 0
        <3>1. /\ file \in Contents /\ copy[w] \in Contents
              /\ file' \in Overlay(file, copy[w])
            BY <1>11 DEF WriteFile
        <3>2. QED
            BY <3>1, OverlayType
    <2>2. copy' = [copy EXCEPT ![w] = Empty] /\ Empty \in Contents
        BY <1>11 DEF WriteFile, Empty, Contents, Scores, NoScores
    <2>3. TypeOK'
        BY <1>11, <2>1, <2>2 DEF WriteFile, Steps
    <2>4. CopiesBounded'
        <3>1. SUFFICES ASSUME NEW ip \in Ips
                       PROVE  /\ file'.scores[ip] <= given[ip]
                              /\ \A v \in Workers : copy'[v].scores[ip] <= given[ip]
            BY <1>11 DEF WriteFile
        <3>2. given[ip] \in Nat /\ Empty.scores[ip] = 0
            BY DEF Scores, Empty, NoScores
        <3>3. file'.scores[ip] <= given[ip]
            BY <2>1, <3>2
        <3>4. ASSUME NEW v \in Workers PROVE copy'[v].scores[ip] <= given[ip]
            <4>1. copy'[v] = Empty \/ copy'[v] = copy[v]
                BY <2>2
            <4>2. QED
                BY <3>2, <4>1
        <3>5. QED
            BY <3>3, <3>4
    <2>5. QED
        BY <1>11, <2>3, <2>4 DEF WriteFile
<1>12. ASSUME NEW w \in Workers, Answer(w) PROVE IInv'
    BY <1>12 DEF Answer, Steps
<1>13. CASE CleanupTimers
    BY <1>13 DEF CleanupTimers, NoTimer
<1>14. CASE Tick
    BY <1>14, OlderType DEF Tick, NoTimer
<1>15. CASE Crash
    BY <1>15 DEF Crash, Empty, Contents, Scores, NoScores, NoTimer, Steps
<1>16. CASE UNCHANGED vars
    BY <1>16 DEF vars
<1>17. QED
    BY <1>1, <1>2, <1>3, <1>4, <1>5, <1>6, <1>7, <1>8, <1>9, <1>10, <1>11, <1>12,
       <1>13, <1>14, <1>15, <1>16 DEF Next, Serve

\* The strengthened invariant holds throughout.
LEMMA InductiveInvariant == Spec => []IInv
BY InitIInv, StepIInv, PTL DEF Spec

\* Every variable keeps its type, however many requests overlap.
THEOREM TypeCorrect == Spec => []TypeOK
<1>1. IInv => TypeOK
    BY DEF IInv
<1>2. QED
    BY <1>1, InductiveInvariant, PTL

\* Stale reloads, torn files, lost updates and restarts never raise anyone's
\* score above the penalties given to him (loadScores, saveScores,
\* incrementScore, resetIPScore).
THEOREM NeverInflated == Spec => []NoInflation
<1>1. IInv => NoInflation
    BY DEF IInv
<1>2. QED
    BY <1>1, InductiveInvariant, PTL

-----------------------------------------------------------------------------
(***************************************************************************)
(* The block level under overlapping requests and restarts.                *)
(***************************************************************************)

\* A block level on record survives every step but a stop in the middle of
\* writing the file: no request holds anything that could lower it.
LEMMA StepOnRecord ==
    ASSUME TypeOK, NEW ip \in Ips, OnRecord(ip), [Next]_vars,
           ~(Crash /\ file.kind # "whole")
    PROVE  OnRecord(ip)'
<1> USE PolicyAssumption, StoreAssumption
<1> USE DEF TypeOK, OnRecord, AtBlock, ComesBack, Goto
<1>1. ASSUME NEW w \in Workers, NEW v \in Ips, ReadScores(w, v) PROVE OnRecord(ip)'
    BY <1>1 DEF ReadScores
<1>2. ASSUME NEW w \in Workers, ApplyScores(w) PROVE OnRecord(ip)'
    BY <1>2 DEF ApplyScores, Empty
<1>3. ASSUME NEW w \in Workers, ReadScore(w) PROVE OnRecord(ip)'
    BY <1>3 DEF ReadScore, Scores
<1>4. ASSUME NEW w \in Workers, CheckExpiry(w) PROVE OnRecord(ip)'
    BY <1>4 DEF CheckExpiry, Expired, ResetWait
<1>5. ASSUME NEW w \in Workers, ResetScore(w) PROVE OnRecord(ip)'
    BY <1>5 DEF ResetScore
<1>6. ASSUME NEW w \in Workers, ResetTimer(w) PROVE OnRecord(ip)'
    BY <1>6 DEF ResetTimer
<1>7. ASSUME NEW w \in Workers, NEW n \in Penalties, AddPenalty(w, n) PROVE OnRecord(ip)'
    <2>1. mem'[ip] >= mem[ip] /\ mem[ip] \in Nat /\ mem'[ip] \in Nat
        <3>1. n \in Nat /\ mem \in [Ips -> Nat] /\ mem' = [mem EXCEPT ![who[w]] = @ + n]
            BY <1>7 DEF AddPenalty, Scores
        <3> QED
            BY ONLY <3>1
    <2>2. mem[ip] >= BlockAt
        BY <1>7 DEF AddPenalty
    <2>3. mem'[ip] >= BlockAt
        BY <2>1, <2>2
    <2> QED
        BY <1>7, <2>3 DEF AddPenalty
<1>8. ASSUME NEW w \in Workers, RestartTimer(w) PROVE OnRecord(ip)'
    BY <1>8 DEF RestartTimer
<1>9. ASSUME NEW w \in Workers, TakeSnapshot(w) PROVE OnRecord(ip)'
    BY <1>9 DEF TakeSnapshot, Whole
<1>10. ASSUME NEW w \in Workers, TruncateFile(w) PROVE OnRecord(ip)'
    BY <1>10 DEF TruncateFile, Empty
<1>11. ASSUME NEW w \in Workers, WriteFile(w) PROVE OnRecord(ip)'
    <2>1. AtBlock(file, ip)'
        BY <1>11 DEF WriteFile, Overlay, Torn
    <2> QED
        BY <1>11, <2>1 DEF WriteFile, Empty
<1>12. ASSUME NEW w \in Workers, Answer(w) PROVE OnRecord(ip)'
    BY <1>12 DEF Answer
<1>13. CASE CleanupTimers
    BY <1>13 DEF CleanupTimers
<1>14. CASE Tick
    BY <1>14 DEF Tick
<1>15. CASE Crash
    BY <1>15 DEF Crash, Empty
<1>16. CASE UNCHANGED vars
    BY <1>16 DEF vars
<1>17. QED
    BY <1>1, <1>2, <1>3, <1>4, <1>5, <1>6, <1>7, <1>8, <1>9, <1>10, <1>11, <1>12,
       <1>13, <1>14, <1>15, <1>16 DEF Next, Serve

\* Once the file and every copy of it say that a visitor is at the block level
\* and no request is about to forgive less, overlapping requests, undecodable
\* files, the cleanup and restarts leave it at that, unless the process stops
\* while the file is being written.
THEOREM BlockLevelOutlastsOverlaps == Spec => BlockLevelStays
<1>1. TypeOK /\ [Next]_vars =>
          [\A ip \in Ips :
              OnRecord(ip) => OnRecord(ip)' \/ (Crash /\ file.kind # "whole")]_vars
    BY StepOnRecord
<1>2. QED
    BY <1>1, TypeCorrect, PTL DEF Spec, BlockLevelStays

-----------------------------------------------------------------------------
(***************************************************************************)
(* One request at a time.                                                  *)
(***************************************************************************)

\* A restarted process before its first request has read the file.
Fresh == mem = NoScores /\ timer = [ip \in Ips |-> NoTimer]

\* What a lone request knows at each of its steps: the file it reloads from
\* is the map it saved last, the score it judges is still the current one, and
\* whenever it is about to save there is something to save.
Lone(w) ==
    /\ file.kind # "whole" => file.scores = NoScores
    /\ pc[w] \in {"idle", "apply"} => file.scores = mem \/ (Fresh /\ file.kind = "whole")
    /\ pc[w] \in {"prepare", "expiry", "reset", "gate"} => file.scores = mem
    /\ pc[w] \in {"resetTimer", "timer", "save", "truncate"} => file.scores # mem
    /\ pc[w] = "apply" => copy[w] = file
    /\ pc[w] = "expiry" => seen[w] = mem[who[w]] /\ mem[who[w]] > 0
    /\ pc[w] = "reset" => /\ mem[who[w]] > 0
                         /\ timer[who[w]] # NoTimer
                         /\ Expired(mem[who[w]], timer[who[w]])
    /\ pc[w] = "resetTimer" => mem[who[w]] = 0
    /\ pc[w] = "truncate" => copy[w] = Whole(mem)
    /\ pc[w] = "write" => copy[w] = Whole(mem) /\ file = Empty

\* An expired score stays expired while the clock runs.
LEMMA ExpiredStays ==
    ASSUME NEW n \in Nat, NEW t \in 0 .. MaxQuiet, Expired(n, t)
    PROVE  Expired(n, Older(t))
BY PolicyAssumption DEF Expired, Older, ResetWait

\* A lone request keeps its knowledge through every step, and through the
\* cleanup, the clock and a stop at any point.
LEMMA StepLone ==
    ASSUME NEW w, Workers = {w}, TypeOK, Lone(w), [Next]_vars
    PROVE  Lone(w)'
<1> USE DEF TypeOK, Lone, Fresh, Goto
<1>1. ASSUME NEW ip \in Ips, ReadScores(w, ip) PROVE Lone(w)'
    BY <1>1 DEF ReadScores
<1>2. CASE ApplyScores(w)
    BY <1>2 DEF ApplyScores
<1>3. CASE ReadScore(w)
    BY <1>3 DEF ReadScore
<1>4. CASE CheckExpiry(w)
    BY <1>4 DEF CheckExpiry
<1>5. CASE ResetScore(w)
    <2>1. mem' # mem
        BY <1>5 DEF ResetScore, Scores
    <2> QED
        BY <1>5, <2>1 DEF ResetScore, Scores
<1>6. CASE ResetTimer(w)
    BY <1>6 DEF ResetTimer
<1>7. ASSUME NEW n \in Penalties, AddPenalty(w, n) PROVE Lone(w)'
    <2>1. mem' # mem
        <3>1. /\ n \in Nat \ {0} /\ mem \in [Ips -> Nat] /\ who[w] \in Ips
              /\ mem' = [mem EXCEPT ![who[w]] = @ + n]
            BY <1>7, StoreAssumption DEF AddPenalty, Scores
        <3>2. mem'[who[w]] = mem[who[w]] + n
            BY <3>1
        <3> QED
            BY <3>1, <3>2
    <2> QED
        BY <1>7, <2>1 DEF AddPenalty
<1>8. CASE RestartTimer(w)
    BY <1>8 DEF RestartTimer
<1>9. CASE TakeSnapshot(w)
    BY <1>9 DEF TakeSnapshot
<1>10. CASE TruncateFile(w)
    BY <1>10 DEF TruncateFile, Empty
<1>11. CASE WriteFile(w)
    BY <1>11 DEF WriteFile, Overlay, Empty, Whole
<1>12. CASE Answer(w)
    BY <1>12 DEF Answer
<1>13. CASE CleanupTimers
    BY <1>13 DEF CleanupTimers, Scores
<1>14. CASE Tick
    <2>1. who[w] \in Ips /\ mem[who[w]] \in Nat
        BY DEF Scores
    <2>2. timer[who[w]] # NoTimer => timer[who[w]] \in 0 .. MaxQuiet
        BY <2>1
    <2>3. timer[who[w]] # NoTimer => timer'[who[w]] = Older(timer[who[w]])
        BY <1>14, <2>1 DEF Tick
    <2>4. timer[who[w]] # NoTimer => timer'[who[w]] # NoTimer
        BY <2>2, <2>3, OlderType DEF NoTimer
    <2>5. Fresh => Fresh'
        BY <1>14 DEF Tick
    <2>6. QED
        BY <1>14, <2>1, <2>2, <2>3, <2>4, <2>5, ExpiredStays DEF Tick
<1>15. CASE Crash
    BY <1>15 DEF Crash
<1>16. CASE UNCHANGED vars
    BY <1>16 DEF vars
<1>17. QED
    BY <1>1, <1>2, <1>3, <1>4, <1>5, <1>6, <1>7, <1>8, <1>9, <1>10, <1>11, <1>12,
       <1>13, <1>14, <1>15, <1>16 DEF Next, Serve

\* Every step of a lone request, of the cleanup or of the clock, and a stop of
\* the process is a step of the ledger, or leaves it alone.
LEMMA StepImplements ==
    ASSUME NEW w, Workers = {w}, TypeOK, Lone(w), [Next]_vars
    PROVE  [Ledger!Next]_(Ledger!ledgerVars)
<1> DEFINE ledger == <<LedgerScore, LedgerQuiet, file.scores>>
<1>0. /\ LedgerScore = IF pc[w] \in {"idle", "apply"} THEN file.scores ELSE mem
      /\ LedgerScore' = IF pc'[w] \in {"idle", "apply"} THEN file'.scores ELSE mem'
      /\ LedgerScore \in Scores
    BY DEF LedgerScore, TypeOK, Contents
<1> USE DEF TypeOK, Goto, LedgerQuiet
<1>1. ASSUME NEW ip \in Ips, ReadScores(w, ip) PROVE UNCHANGED ledger
    BY <1>0, <1>1 DEF ReadScores
<1>2. ASSUME ApplyScores(w) PROVE UNCHANGED ledger
    <2>1. mem' = file.scores
        BY <1>2 DEF ApplyScores, Lone
    <2>2. QED
        BY <1>0, <1>2, <2>1 DEF ApplyScores
<1>3. ASSUME ReadScore(w) PROVE UNCHANGED ledger
    BY <1>0, <1>3 DEF ReadScore
<1>4. ASSUME CheckExpiry(w) PROVE UNCHANGED ledger
    BY <1>0, <1>4 DEF CheckExpiry
<1>5. ASSUME ResetScore(w) PROVE \E ip \in Ips : Ledger!Forgive(ip)
    BY <1>0, <1>5 DEF ResetScore, Lone, Ledger!Forgive, Scores,
                      Expired, ResetWait, Ledger!Expired, Ledger!ResetWait
<1>6. ASSUME ResetTimer(w) PROVE \E S \in SUBSET Ips : Ledger!DropClocks(S)
    <2>1. {who[w]} \in SUBSET Ips
        OBVIOUS
    <2>2. QED
        BY <1>0, <1>6, <2>1 DEF ResetTimer, Lone, Ledger!DropClocks
<1>7. ASSUME NEW n \in Penalties, AddPenalty(w, n)
      PROVE  \E ip \in Ips, m \in Penalties : Ledger!Penalize(ip, m)
    <2>1. LedgerScore = mem /\ LedgerScore' = mem' /\ file.scores = mem /\ file' = file
        BY <1>0, <1>7 DEF AddPenalty, Lone
    <2>2. who[w] \in Ips /\ mem' = [mem EXCEPT ![who[w]] = @ + n]
        BY <1>7 DEF AddPenalty
    <2>3. LedgerQuiet' = [LedgerQuiet EXCEPT ![who[w]] = 0]
        BY <1>7 DEF AddPenalty
    <2>4. QED
        BY <2>1, <2>2, <2>3 DEF Ledger!Penalize
<1>8. ASSUME RestartTimer(w) PROVE UNCHANGED ledger
    BY <1>0, <1>8 DEF RestartTimer, NoTimer
<1>9. ASSUME TakeSnapshot(w) PROVE UNCHANGED ledger
    BY <1>0, <1>9 DEF TakeSnapshot
<1>10. ASSUME TruncateFile(w) PROVE Ledger!Clear
    BY <1>0, <1>10 DEF TruncateFile, Lone, Empty, NoScores, Ledger!Clear, Ledger!Nothing
<1>11. ASSUME WriteFile(w) PROVE Ledger!Save
    <2>1. file' = Whole(mem)
        BY <1>11 DEF WriteFile, Lone, Overlay, Empty
    <2>2. QED
        BY <1>0, <1>11, <2>1 DEF WriteFile, Whole, Ledger!Save
<1>12. ASSUME Answer(w) PROVE UNCHANGED ledger
    BY <1>0, <1>12 DEF Answer, Lone
<1>13. ASSUME CleanupTimers PROVE \E S \in SUBSET Ips : Ledger!DropClocks(S)
    <2> DEFINE idle == {ip \in Ips : mem[ip] = 0 /\ timer[ip] # NoTimer}
    <2>1. idle \in SUBSET Ips
        OBVIOUS
    <2>2. \A ip \in idle : LedgerScore[ip] = 0
        BY <1>0 DEF Lone, Fresh
    <2>3. UNCHANGED <<LedgerScore, file.scores>>
        BY <1>0, <1>13 DEF CleanupTimers
    <2>4. LedgerQuiet' = [ip \in Ips |-> IF ip \in idle THEN 0 ELSE LedgerQuiet[ip]]
        BY <1>13 DEF CleanupTimers
    <2>5. Ledger!DropClocks(idle)
        BY <2>2, <2>3, <2>4 DEF Ledger!DropClocks
    <2>6. QED
        BY <2>1, <2>5 DEF Ledger!DropClocks
<1>14. ASSUME Tick PROVE \E S \in SUBSET Ips : Ledger!Tick(S)
    <2> DEFINE running == {ip \in Ips : timer[ip] # NoTimer
                                        /\ ~(pc[w] = "timer" /\ who[w] = ip)}
    <2>1. running \in SUBSET Ips
        OBVIOUS
    <2>2. Ledger!Tick(running)
        BY <1>0, <1>14, OlderType DEF Tick, Ledger!Tick, Ledger!Older, Older, NoTimer
    <2>3. QED
        BY <2>1, <2>2 DEF Ledger!Tick
<1>15. ASSUME Crash PROVE Ledger!Restart
    BY <1>0, <1>15 DEF Crash, Ledger!Restart, Ledger!Nothing
<1>16. ASSUME UNCHANGED vars PROVE UNCHANGED ledger
    BY <1>0, <1>16 DEF vars
<1>17. who[w] \in Ips
    OBVIOUS
<1> HIDE DEF ledger
<1>18. ASSUME UNCHANGED ledger PROVE UNCHANGED Ledger!ledgerVars
    BY <1>18 DEF ledger, Ledger!ledgerVars
<1>19. \/ UNCHANGED ledger
       \/ \E ip \in Ips : Ledger!Forgive(ip)
       \/ \E ip \in Ips, n \in Penalties : Ledger!Penalize(ip, n)
       \/ \E S \in SUBSET Ips : Ledger!DropClocks(S) \/ Ledger!Tick(S)
       \/ Ledger!Clear \/ Ledger!Save \/ Ledger!Restart
    <2>1. CASE Serve(w)
        BY <2>1, <1>2, <1>3, <1>4, <1>5, <1>6, <1>8, <1>9, <1>10, <1>11, <1>12, <1>17
           DEF Serve
    <2>2. CASE \E ip \in Ips : ReadScores(w, ip)
        BY <2>2, <1>1
    <2>3. CASE \E n \in Penalties : AddPenalty(w, n)
        BY <2>3, <1>7, <1>17
    <2>4. CASE CleanupTimers
        BY <2>4, <1>13
    <2>5. CASE Tick
        BY <2>5, <1>14
    <2>6. CASE UNCHANGED vars
        BY <2>6, <1>16
    <2>7. CASE Crash
        BY <2>7, <1>15
    <2>8. QED
        BY <2>1, <2>2, <2>3, <2>4, <2>5, <2>6, <2>7 DEF Next
<1>20. QED
    BY <1>18, <1>19 DEF Ledger!Next

\* Requests that never overlap keep the ledger's promise, wherever the process
\* stops, whatever the visitors, amounts, levels and waits.
THEOREM LoneRequestsImplementLedger ==
    ASSUME NEW w, Workers = {w}
    PROVE  Spec => ImplementsLedger
<1>1. Init => Lone(w)
    BY DEF Init, Lone, Empty
<1>2. TypeOK /\ Lone(w) /\ [Next]_vars => Lone(w)'
    BY StepLone
<1>3. Init => Ledger!Init
    BY DEF Init, Ledger!Init, Ledger!Nothing, LedgerScore, LedgerQuiet, NoScores, Empty
<1>4. TypeOK /\ Lone(w) /\ [Next]_vars => [Ledger!Next]_(Ledger!ledgerVars)
    BY StepImplements
<1>5. QED
    BY <1>1, <1>2, <1>3, <1>4, TypeCorrect, PTL
       DEF Spec, ImplementsLedger, Ledger!Spec

-----------------------------------------------------------------------------
(***************************************************************************)
(* The checks                                                              *)
(***************************************************************************)

Names == {"cloudflare", "country", "method", "rate", "dynamic", "threat", "path", "agent", "score"}

LEMMA NineChecks ==
    /\ DOMAIN Order = 1 .. 9
    /\ \A i \in 1 .. 9 : Order[i] \in Names
    /\ Checks = Names
    /\ Order[9] = "score"
<1>1. DOMAIN Order = 1 .. 9
  BY DEF Order
<1>2. /\ Order[1] = "cloudflare" /\ Order[2] = "country" /\ Order[3] = "method"
      /\ Order[4] = "rate" /\ Order[5] = "dynamic" /\ Order[6] = "threat"
      /\ Order[7] = "path" /\ Order[8] = "agent" /\ Order[9] = "score"
  BY DEF Order
<1>3. 1 .. 9 = {1, 2, 3, 4, 5, 6, 7, 8, 9}
  OBVIOUS
<1>4. \A i \in 1 .. 9 : Order[i] \in Names
  BY <1>2, <1>3 DEF Names
<1>5. Names \subseteq Checks
  BY <1>1, <1>2, <1>3 DEF Checks, Names
<1>6. Checks \subseteq Names
  BY <1>1, <1>4 DEF Checks
<1> QED
  BY <1>1, <1>2, <1>4, <1>5, <1>6

\* Among the checks that stop a request there is a first one.
LEMMA FirstOfNine ==
    ASSUME NEW S \in SUBSET (1 .. 9), S # {}
    PROVE  Min(S) \in S
<1>1. \E x \in S : \A y \in S : x =< y
  <2> DEFINE Least(n) == n \in S /\ \A k \in S : n =< k
             Above(n) == \A k \in S : n < k
  <2>1. Above(0)
    OBVIOUS
  <2>2. \A n \in 0 .. 8 : Above(n) => Least(n + 1) \/ Above(n + 1)
    OBVIOUS
  <2>3. ~Above(9)
    <3>1. PICK x \in S : TRUE
      OBVIOUS
    <3>2. x \in 1 .. 9 /\ ~(9 < x)
      OBVIOUS
    <3> QED
      BY <3>2
  <2> HIDE DEF Least, Above
  <2>4. /\ Least(1) \/ Above(1)
        /\ \A n \in {1, 2, 3, 4, 5, 6, 7, 8} : Above(n) => Least(n + 1) \/ Above(n + 1)
    BY <2>1, <2>2
  <2>5. \E n \in 1 .. 9 : Least(n)
    <3>1. \/ Least(1) \/ Least(2) \/ Least(3) \/ Least(4) \/ Least(5)
          \/ Least(6) \/ Least(7) \/ Least(8) \/ Least(9)
      BY <2>3, <2>4
    <3> QED
      BY <3>1
  <2> QED
    BY <2>5 DEF Least
<1> QED
  BY <1>1 DEF Min

\* Requests only add to a score.
LEMMA GainsAreNatural ==
    ASSUME NEW r
    PROVE  /\ Gains(r).method \in Nat /\ Gains(r).rate \in Nat
           /\ Gains(r).threat \in Nat
           /\ Gains(r).path \in Nat /\ Gains(r).agent \in Nat
<1>1. /\ Penalty.method \in Nat /\ Penalty.rate \in Nat /\ Penalty.oversized \in Nat
      /\ Penalty.header \in Nat /\ Penalty.path \in Nat /\ Penalty.deny \in Nat
      /\ Penalty.warn \in Nat /\ Penalty.relaxedDeny \in Nat /\ Penalty.boost \in Nat
  BY GateAssumption
<1>2. Boost(r) \in Nat
  BY <1>1 DEF Boost
<1> QED
  BY <1>1, <1>2 DEF Gains

LEMMA SumIsNatural ==
    ASSUME NEW r, NEW checks
    PROVE  Sum(Gains(r), checks) \in Nat
BY GainsAreNatural DEF Sum

\* A check that is met and has its price raises the score.
LEMMA SumCounts ==
    ASSUME NEW r, NEW checks
    PROVE  /\ "rate" \in checks => Sum(Gains(r), checks) >= Gains(r).rate
           /\ "agent" \in checks => Sum(Gains(r), checks) >= Gains(r).agent
<1> DEFINE Of(c, n) == IF c \in checks THEN n ELSE 0
           g == Gains(r)
<1>1. /\ Of("method", g.method) \in Nat /\ Of("rate", g.rate) \in Nat
      /\ Of("threat", g.threat) \in Nat /\ Of("path", g.path) \in Nat
      /\ Of("agent", g.agent) \in Nat
  BY GainsAreNatural
<1>2. Sum(g, checks) = Of("method", g.method) + Of("rate", g.rate) + Of("threat", g.threat)
                           + Of("path", g.path) + Of("agent", g.agent)
  BY DEF Sum
<1>3. "rate" \in checks => Of("rate", g.rate) = g.rate
  OBVIOUS
<1>4. "agent" \in checks => Of("agent", g.agent) = g.agent
  OBVIOUS
<1> HIDE DEF Of, g
<1> QED
  BY <1>1, <1>2, <1>3, <1>4 DEF g

\* What becomes of a request: it is served, or the first check that objects
\* stops it and is among those it meets.
LEMMA OutcomeOf ==
    ASSUME NEW ip \in Ips, NEW r, NEW current \in Nat
    PROVE  LET o == Outcome(ip, r, current, Gains(r))
               firstAccess == InGrace(ip) \/ GrantsGrace(ip, current)
               earned == current + Sum(Gains(r), Checks)
           IN  /\ o.total = current + Sum(Gains(r), o.meets)
               /\ o.total \in Nat /\ o.total >= current
               /\ \/ /\ o.stop = "served"
                     /\ \A check \in Names : ~Stops(check, ip, r, firstAccess, earned)
                  \/ /\ o.stop \in Names /\ o.stop \in o.meets
                     /\ Stops(o.stop, ip, r, firstAccess, earned)
<1> DEFINE o == Outcome(ip, r, current, Gains(r))
           firstAccess == InGrace(ip) \/ GrantsGrace(ip, current)
           earned == current + Sum(Gains(r), Checks)
           stops == Stopping(ip, r, firstAccess, earned)
           meets == {Order[i] : i \in IF stops = {} THEN DOMAIN Order
                                               ELSE 1 .. Min(stops)}
<1>1. /\ o.stop = IF stops = {} THEN "served" ELSE Order[Min(stops)]
      /\ o.meets = meets
      /\ o.total = current + Sum(Gains(r), meets)
  BY DEF Outcome
<1>2. o.total \in Nat /\ o.total >= current
  BY <1>1, SumIsNatural
<1>3. stops = {i \in 1 .. 9 : Stops(Order[i], ip, r, firstAccess, earned)}
  BY NineChecks DEF Stopping
<1>4. CASE stops = {}
  <2>1. \A i \in 1 .. 9 : ~Stops(Order[i], ip, r, firstAccess, earned)
    BY <1>3, <1>4
  <2>2. \A check \in Names : \E i \in 1 .. 9 : Order[i] = check
    BY NineChecks DEF Checks
  <2> QED
    BY <1>1, <1>2, <1>4, <2>1, <2>2
<1>5. CASE stops # {}
  <2>1. Min(stops) \in stops
    BY <1>3, <1>5, FirstOfNine
  <2>2. /\ Min(stops) \in 1 .. 9
        /\ Stops(Order[Min(stops)], ip, r, firstAccess, earned)
    BY <1>3, <2>1
  <2>3. Min(stops) \in 1 .. Min(stops)
    BY <2>2
  <2>4. Order[Min(stops)] \in meets
    BY <1>5, <2>3
  <2> QED
    BY <1>1, <1>2, <1>5, <2>2, <2>4, NineChecks
<1> QED
  BY <1>4, <1>5

-----------------------------------------------------------------------------
(* Types                                                                   *)

LEMMA Ages ==
    ASSUME NEW limit \in Nat
    PROVE  /\ Absent \in Age(limit) /\ 0 \in Age(limit)
           /\ Age(limit) \subseteq Int
           /\ \A f \in [Ips -> Age(limit)] : Aged(f, limit) \in [Ips -> Age(limit)]
<1>1. \A a \in Age(limit) : (IF a \in {Absent, limit} THEN a ELSE a + 1) \in Age(limit)
  BY DEF Age, Absent
<1>2. \A f \in [Ips -> Age(limit)] : Aged(f, limit) \in [Ips -> Age(limit)]
  BY <1>1 DEF Aged
<1>3. Absent \in Age(limit) /\ 0 \in Age(limit) /\ Age(limit) \subseteq Int
  BY DEF Age, Absent
<1> QED
  BY <1>2, <1>3

LEMMA Limits ==
    MaxQuiet \in Nat /\ BlockTime + 1 \in Nat /\ Grace + 1 \in Nat
BY PolicyAssumption, GateAssumption

LEMMA CurrentIsNatural ==
    ASSUME GateTypeOK, NEW ip \in Ips
    PROVE  Current(ip) \in Nat
BY DEF GateTypeOK, Current

LEMMA InitTypes == ASSUME GateInit PROVE GateTypeOK
<1>1. level \in Levels
  BY GateAssumption DEF GateInit
<1>2. /\ quiet \in [Ips -> Age(MaxQuiet)] /\ block \in [Ips -> Age(BlockTime + 1)]
      /\ grace \in [Ips -> Age(Grace + 1)] /\ saved \in [Ips -> Age(Grace + 1)]
  BY Ages, Limits DEF GateInit
<1>3. /\ score \in [Ips -> Nat] /\ why \in [Ips -> Checks \union {"none"}]
      /\ last \in [Ips -> [clean : BOOLEAN, stop : Checks \union {"none", "served", "bypass"}]]
  BY DEF GateInit
<1> QED
  BY <1>1, <1>2, <1>3 DEF GateTypeOK

LEMMA RequestTypes ==
    ASSUME GateTypeOK, NEW ip \in Ips, NEW r, Request(ip, r)
    PROVE  GateTypeOK'
<1> DEFINE current == Current(ip)
           o == Outcome(ip, r, current, Gains(r))
<1>1. current \in Nat
  BY CurrentIsNatural
<1>2. o.total \in Nat /\ o.stop \in Names \union {"served"}
  BY <1>1, OutcomeOf
<1>3. /\ Absent \in Age(MaxQuiet) /\ 0 \in Age(MaxQuiet)
      /\ Absent \in Age(BlockTime + 1) /\ 0 \in Age(BlockTime + 1)
      /\ 0 \in Age(Grace + 1)
  BY Ages, Limits
<1>4. Names = Checks
  BY NineChecks
<1>5. o.stop \in Blocking(r) => o.stop \in Checks
  BY <1>4 DEF Blocking, Names
<1> HIDE DEF o, current
<1>6. score' \in [Ips -> Nat]
  BY <1>2 DEF Request, GateTypeOK, o, current
<1>7. quiet' \in [Ips -> Age(MaxQuiet)]
  BY <1>3 DEF Request, GateTypeOK
<1>8. grace' \in [Ips -> Age(Grace + 1)]
  BY <1>3 DEF Request, GateTypeOK
<1>9. block' \in [Ips -> Age(BlockTime + 1)]
  BY <1>3 DEF Request, GateTypeOK
<1>10. why' \in [Ips -> Checks \union {"none"}]
  BY <1>5 DEF Request, GateTypeOK, o, current
<1>11. last' \in [Ips -> [clean : BOOLEAN, stop : Checks \union {"none", "served", "bypass"}]]
  BY <1>2, <1>4 DEF Request, GateTypeOK, o, current
<1>12. level' \in Levels /\ saved' \in [Ips -> Age(Grace + 1)]
  BY DEF Request, GateTypeOK
<1> QED
  BY <1>6, <1>7, <1>8, <1>9, <1>10, <1>11, <1>12 DEF GateTypeOK

\* What a stop leaves in the score file: nothing, or scores that are no lower
\* than before, but for a visitor whose score is forgiven.
LEMMA LeftScores ==
    ASSUME GateTypeOK, NEW ip \in Ips, NEW r, NEW scores \in LeftBehind(ip, r)
    PROVE  /\ scores \in [Ips -> Nat]
           /\ \/ scores = AllForgotten
              \/ /\ \A v \in Ips \ {ip} : scores[v] = score[v]
                 /\ scores[ip] = score[ip] \/ scores[ip] >= Current(ip)
<1> DEFINE current == Current(ip)
           gains == Gains(r)
           meets == Outcome(ip, r, current, gains).meets
           reached == {current + Sum(gains, meets \intersect {Order[i] : i \in 1 .. n}) :
                          n \in DOMAIN Order}
<1>1. current \in Nat
  BY CurrentIsNatural
<1>2. \A n \in reached : n \in Nat /\ n >= current
  <2>1. \A S : Sum(gains, S) \in Nat
    BY SumIsNatural
  <2>2. ASSUME NEW S PROVE current + Sum(gains, S) \in Nat /\ current + Sum(gains, S) >= current
    <3> HIDE DEF gains, current
    <3> QED
      BY <1>1, <2>1
  <2>3. SUFFICES ASSUME NEW i \in DOMAIN Order
                 PROVE  LET n == current + Sum(gains, meets \intersect {Order[j] : j \in 1 .. i})
                        IN  n \in Nat /\ n >= current
    OBVIOUS
  <2> QED
    BY <2>2
<1>3. \/ scores = score \/ scores = AllForgotten
      \/ \E n \in {current} \union reached : scores = [score EXCEPT ![ip] = n]
  BY DEF LeftBehind
<1> HIDE DEF current, reached
<1>4. score \in [Ips -> Nat] /\ AllForgotten \in [Ips -> Nat]
  BY DEF GateTypeOK, AllForgotten
<1>5. ASSUME NEW n \in {current} \union reached, scores = [score EXCEPT ![ip] = n]
      PROVE  /\ scores \in [Ips -> Nat]
             /\ \A v \in Ips \ {ip} : scores[v] = score[v]
             /\ scores[ip] >= current
  <2>1. n \in Nat /\ n >= current
    BY <1>1, <1>2
  <2> QED
    BY <1>4, <1>5, <2>1
<1> QED
  BY <1>3, <1>4, <1>5 DEF current

LEMMA StartTypes ==
    ASSUME GateTypeOK, NEW scores \in [Ips -> Nat], Start(scores),
           last' \in [Ips -> [clean : BOOLEAN, stop : Checks \union {"none", "served", "bypass"}]]
    PROVE  GateTypeOK'
<1>1. quiet' \in [Ips -> Age(MaxQuiet)] /\ block' \in [Ips -> Age(BlockTime + 1)]
  BY Ages, Limits DEF Start
<1>2. NoGrace \in [Ips -> Age(Grace + 1)]
  BY Ages, Limits DEF NoGrace
<1>3. grace' \in [Ips -> Age(Grace + 1)] /\ saved' \in [Ips -> Age(Grace + 1)]
  BY <1>2 DEF Start, GateTypeOK
<1> QED
  BY <1>1, <1>3 DEF Start, GateTypeOK

LEMMA StepTypes ==
    ASSUME GateTypeOK, [GateNext]_gateVars
    PROVE  GateTypeOK'
<1>1. ASSUME NEW ip \in Ips, NEW r \in Requests, BypassRequest(ip, r)
      PROVE  GateTypeOK'
  BY <1>1 DEF BypassRequest, GateTypeOK
<1>2. CASE CleanupMaps
  <2>1. /\ Absent \in Age(MaxQuiet)
        /\ Absent \in Age(BlockTime + 1) /\ Absent \in Age(Grace + 1)
    BY Ages, Limits
  <2>2. grace' \in [Ips -> Age(Grace + 1)] /\ saved' \in [Ips -> Age(Grace + 1)]
    BY <1>2, <2>1 DEF CleanupMaps, CleanupFirstAccessIPs,
        SaveFirstAccessIPs, GateTypeOK
  <2>3. quiet' \in [Ips -> Age(MaxQuiet)] /\ block' \in [Ips -> Age(BlockTime + 1)]
    BY <1>2, <2>1 DEF CleanupMaps, GateTypeOK
  <2>4. why' \in [Ips -> Checks \union {"none"}]
    BY <1>2 DEF CleanupMaps, GateTypeOK
  <2> QED
    BY <1>2, <2>2, <2>3, <2>4 DEF CleanupMaps, GateTypeOK
<1>3. CASE Restart
  <2>1. Start(score)
    BY <1>3 DEF Restart
  <2> QED
    BY <1>3, <2>1, StartTypes DEF Restart, GateTypeOK
<1>6. ASSUME NEW ip \in Ips, NEW r \in Requests, Interrupt(ip, r)
      PROVE  GateTypeOK'
  <2>1. PICK scores \in LeftBehind(ip, r) : Start(scores)
    BY <1>6 DEF Interrupt
  <2>2. scores \in [Ips -> Nat]
    BY LeftScores
  <2>3. last' \in [Ips -> [clean : BOOLEAN, stop : Checks \union {"none", "served", "bypass"}]]
    BY <1>6 DEF Interrupt, GateTypeOK
  <2> QED
    BY <2>1, <2>2, <2>3, StartTypes
<1>4. CASE GateTick
  <2>1. /\ quiet' \in [Ips -> Age(MaxQuiet)] /\ block' \in [Ips -> Age(BlockTime + 1)]
        /\ grace' \in [Ips -> Age(Grace + 1)] /\ saved' \in [Ips -> Age(Grace + 1)]
    BY <1>4, Ages, Limits DEF GateTick, GateTypeOK
  <2> QED
    BY <1>4, <2>1 DEF GateTick, GateTypeOK
<1>5. CASE UNCHANGED gateVars
  BY <1>5 DEF gateVars, GateTypeOK
<1> QED
  BY <1>1, <1>2, <1>3, <1>4, <1>5, <1>6, RequestTypes DEF GateNext

\* The types of the gate's shared memory.
THEOREM GateTyped ==
    GateSpec => []GateTypeOK
<1>1. GateInit => GateTypeOK
  BY InitTypes
<1>2. GateTypeOK /\ [GateNext]_gateVars => GateTypeOK'
  BY StepTypes
<1> QED
  BY <1>1, <1>2, PTL DEF GateSpec

-----------------------------------------------------------------------------
(* The block level                                                         *)

LEMMA NotForgivenAtBlockLevel ==
    ASSUME GateTypeOK, NEW ip \in Ips, score[ip] >= BlockAt
    PROVE  Current(ip) = score[ip]
BY PolicyAssumption DEF Current, Forgiven, Expired, ResetWait, GateTypeOK

\* Outside relaxed mode the score is not forgiven, handleFinalScore stops
\* what comes that far, and nothing else lowers a score but a stop while the
\* file is being written.
LEMMA StepBlockLevel ==
    ASSUME GateTypeOK, [GateNext]_gateVars
    PROVE  [\A ip \in Ips :
               level # "relaxed" /\ score[ip] >= BlockAt =>
                   /\ \/ score'[ip] >= BlockAt
                      \/ /\ \E v \in Ips, r \in Requests : Interrupt(v, r)
                         /\ score' = AllForgotten
                   /\ \A r \in Requests : Request(ip, r) => last'[ip].stop # "served"]_gateVars
<1> SUFFICES ASSUME NEW ip \in Ips, level # "relaxed", score[ip] >= BlockAt
             PROVE  /\ \/ score'[ip] >= BlockAt
                       \/ /\ \E v \in Ips, r \in Requests : Interrupt(v, r)
                          /\ score' = AllForgotten
                    /\ \A r \in Requests : Request(ip, r) => last'[ip].stop # "served"
  OBVIOUS
<1>1. ASSUME NEW r \in Requests, Request(ip, r)
      PROVE  score'[ip] >= BlockAt /\ last'[ip].stop # "served"
  <2> DEFINE current == Current(ip)
             o == Outcome(ip, r, current, Gains(r))
             earned == current + Sum(Gains(r), Checks)
  <2>1. current = score[ip] /\ current \in Nat
    BY NotForgivenAtBlockLevel, CurrentIsNatural
  <2>2. earned >= StopsAt
    <3>1. Sum(Gains(r), Checks) \in Nat
      BY SumIsNatural
    <3> QED
      BY <2>1, <3>1, PolicyAssumption DEF StopsAt
  <2>3. Stops("score", ip, r, InGrace(ip) \/ GrantsGrace(ip, current), earned)
    BY <2>2 DEF Stops
  <2>4. "score" \in Names
    BY DEF Names
  <2>5. o.stop # "served"
    <3>1. CASE \A check \in Names :
                 ~Stops(check, ip, r, InGrace(ip) \/ GrantsGrace(ip, current), earned)
      BY <2>3, <2>4, <3>1
    <3>2. CASE o.stop \in Names
      BY <3>2 DEF Names
    <3> QED
      BY <2>1, <3>1, <3>2, OutcomeOf
  <2>6. o.total \in Nat /\ o.total >= current
    BY <2>1, OutcomeOf
  <2>7. score'[ip] = o.total /\ last'[ip].stop = o.stop
    BY <1>1 DEF Request, GateTypeOK
  <2> QED
    BY <2>1, <2>5, <2>6, <2>7, PolicyAssumption
<1>2. ASSUME NEW v \in Ips, NEW r \in Requests, v # ip, Request(v, r)
      PROVE  score'[ip] = score[ip]
  BY <1>2 DEF Request, GateTypeOK
<1>3. ASSUME NEW v \in Ips, NEW r \in Requests, BypassRequest(v, r)
      PROVE  score'[ip] = score[ip]
  BY <1>3 DEF BypassRequest, GateTypeOK
<1>4. CASE CleanupMaps \/ Restart \/ GateTick \/ UNCHANGED gateVars
  <2>1. score' = score
    BY <1>4 DEF CleanupMaps, Restart, Start, GateTick, gateVars
  <2> QED
    BY <1>1, <2>1
<1>5. ASSUME NEW v \in Ips, NEW r \in Requests, Interrupt(v, r)
      PROVE  score'[ip] >= BlockAt \/ score' = AllForgotten
  <2>1. score' \in LeftBehind(v, r)
    BY <1>5 DEF Interrupt, Start
  <2>2. score[ip] \in Nat
    BY DEF GateTypeOK
  <2> QED
    BY <2>1, <2>2, LeftScores, NotForgivenAtBlockLevel, PolicyAssumption
<1> QED
  BY <1>1, <1>2, <1>3, <1>4, <1>5 DEF GateNext

\* Outside relaxed mode a visitor at the block level is not served, and he is
\* taken from it only together with everybody else, by a stop in the middle of
\* a request that saves scores.
THEOREM TheBlockLevelIsFinal ==
    GateSpec => BlockLevelIsFinal
<1>1. GateTypeOK /\ [GateNext]_gateVars =>
          [\A ip \in Ips :
              level # "relaxed" /\ score[ip] >= BlockAt =>
                  /\ \/ score'[ip] >= BlockAt
                     \/ /\ \E v \in Ips, r \in Requests : Interrupt(v, r)
                        /\ score' = AllForgotten
                  /\ \A r \in Requests : Request(ip, r) => last'[ip].stop # "served"]_gateVars
  BY StepBlockLevel
<1> QED
  BY <1>1, GateTyped, PTL DEF GateSpec, BlockLevelIsFinal

-----------------------------------------------------------------------------
(* Grace periods                                                           *)

\* While a block for the rate or the user agent lasts, the score that was
\* raised with it is too young to be forgiven, and no grace period runs.
Inexcusable(ip) ==
    level = "balanced-secure" /\ Blocked(ip) /\ why[ip] \notin {"path", "score"} =>
        /\ score[ip] > 0
        /\ quiet[ip] # Absent /\ quiet[ip] <= block[ip]
        /\ ~InGrace(ip)

GraceInv == \A ip \in Ips : Inexcusable(ip)

\* The rate and the user agent have a price, and no score is forgiven while
\* a block lasts (a wait of zero forgives nothing).
Priced == Penalty.rate > 0 /\ Penalty.deny > 0
Patient ==
    /\ LowWait = 0 \/ BlockTime <= LowWait
    /\ MediumWait = 0 \/ BlockTime <= MediumWait
    /\ HighWait = 0 \/ BlockTime <= HighWait

LEMMA RequestKeepsGrace ==
    ASSUME Priced, Patient, GateTypeOK,
           NEW ip \in Ips, NEW r, Inexcusable(ip), Request(ip, r)
    PROVE  Inexcusable(ip)'
<1> DEFINE current == Current(ip)
           o == Outcome(ip, r, current, Gains(r))
           firstAccess == InGrace(ip) \/ GrantsGrace(ip, current)
           sets == o.stop \in Blocking(r)
           expires == /\ "dynamic" \in o.meets /\ level # "relaxed"
                      /\ Past(BlockTime, block[ip])
           clock == IF current = 0 THEN Absent
                    ELSE IF quiet[ip] = Absent THEN 0 ELSE quiet[ip]
<1> SUFFICES ASSUME level = "balanced-secure", Blocked(ip)', why'[ip] \notin {"path", "score"}
             PROVE  /\ score'[ip] > 0
                    /\ quiet'[ip] # Absent /\ quiet'[ip] <= block'[ip]
                    /\ ~InGrace(ip)'
  BY DEF Inexcusable, Request
<1>1. current \in Nat
  BY CurrentIsNatural
<1>2. o.total \in Nat /\ o.total >= current
  BY <1>1, OutcomeOf
<1>3. /\ score'[ip] = o.total
      /\ quiet'[ip] = IF o.total > current THEN 0 ELSE clock
      /\ grace'[ip] = IF GrantsGrace(ip, current) THEN 0 ELSE grace[ip]
      /\ block'[ip] = IF sets THEN 0 ELSE IF expires THEN Absent ELSE block[ip]
      /\ why'[ip] = IF sets THEN o.stop ELSE IF expires THEN "none" ELSE why[ip]
  BY DEF Request, GateTypeOK
<1>4. CASE sets
  <2>1. o.stop \in {"rate", "agent"}
    BY <1>3, <1>4 DEF Blocking
  <2>2. /\ o.stop \in o.meets
        /\ Stops(o.stop, ip, r, firstAccess, current + Sum(Gains(r), Checks))
    BY <1>1, <2>1, OutcomeOf
  <2>3. /\ ~firstAccess
        /\ o.stop = "rate" => r.over
        /\ o.stop = "agent" => r.agent = "deny"
    BY <2>1, <2>2 DEF Stops
  <2>4. /\ Penalty.rate \in Nat /\ Penalty.deny \in Nat /\ Penalty.boost \in Nat
        /\ Boost(r) \in Nat
    BY GateAssumption DEF Boost
  <2>5. /\ o.stop = "rate" => Gains(r).rate > 0
        /\ o.stop = "agent" => Gains(r).agent > 0
    BY <2>3, <2>4 DEF Gains, Priced
  <2>6. Sum(Gains(r), o.meets) > 0
    <3>1. /\ Sum(Gains(r), o.meets) \in Nat
          /\ Gains(r).rate \in Nat /\ Gains(r).agent \in Nat
      BY SumIsNatural, GainsAreNatural
    <3>2. /\ o.stop = "rate" => Sum(Gains(r), o.meets) >= Gains(r).rate
          /\ o.stop = "agent" => Sum(Gains(r), o.meets) >= Gains(r).agent
      BY <2>2, SumCounts
    <3> HIDE DEF o
    <3> QED
      BY <2>1, <2>5, <3>1, <3>2
  <2>7. o.total > current
    <3>1. o.total = current + Sum(Gains(r), o.meets)
      BY <1>1, OutcomeOf
    <3>2. Sum(Gains(r), o.meets) \in Nat
      BY SumIsNatural
    <3> HIDE DEF o, current
    <3> QED
      BY <1>1, <2>6, <3>1, <3>2
  <2>8. quiet'[ip] = 0 /\ block'[ip] = 0 /\ grace'[ip] = grace[ip]
    BY <1>3, <1>4, <2>3, <2>7
  <2>9. ~InGrace(ip)'
    BY <2>3, <2>8 DEF InGrace
  <2> HIDE DEF o, current
  <2> QED
    BY <1>1, <1>2, <1>3, <2>7, <2>8, <2>9 DEF Absent
<1>5. CASE ~sets
  <2>1. ~expires /\ block'[ip] = block[ip] /\ why'[ip] = why[ip]
    <3>1. Blocked(ip)' => block'[ip] # Absent
      BY DEF Blocked, Within
    <3> QED
      BY <1>3, <1>5, <3>1
  <2>2. Blocked(ip)
    BY <2>1 DEF Blocked
  <2>3. /\ score[ip] > 0 /\ quiet[ip] # Absent /\ quiet[ip] <= block[ip]
        /\ ~InGrace(ip)
    BY <2>1, <2>2 DEF Inexcusable
  <2>4. quiet[ip] < BlockTime
    BY <2>2, <2>3, Ages, Limits, GateAssumption DEF Blocked, Within, GateTypeOK
  <2>5. ~Forgiven(ip)
    <3>1. quiet[ip] \in Int
      BY Ages, Limits DEF GateTypeOK
    <3> QED
      BY <2>4, <3>1, PolicyAssumption, GateAssumption
         DEF Forgiven, Expired, ResetWait, Patient
  <2>6. current = score[ip]
    BY <2>5 DEF Current
  <2>7. grace'[ip] = grace[ip]
    BY <1>3, <2>3, <2>6 DEF GrantsGrace
  <2>8. ~InGrace(ip)'
    BY <2>3, <2>7 DEF InGrace
  <2>9. quiet'[ip] \in {0, quiet[ip]}
    BY <1>3, <2>3, <2>6
  <2>10. block[ip] >= 0
    BY <2>2 DEF Blocked, Within, GateTypeOK, Age, Absent
  <2>11. score'[ip] > 0
    BY <1>1, <1>2, <1>3, <2>3, <2>6
  <2> HIDE DEF o, current
  <2> QED
    BY <2>1, <2>3, <2>8, <2>9, <2>10, <2>11 DEF Absent
<1> QED
  BY <1>4, <1>5

LEMMA StepGrace ==
    ASSUME Priced, Patient,
           GateTypeOK, GraceInv, [GateNext]_gateVars
    PROVE  GraceInv'
<1> SUFFICES ASSUME NEW ip \in Ips
             PROVE  Inexcusable(ip)'
  BY DEF GraceInv
<1>0. Inexcusable(ip)
  BY DEF GraceInv
<1>1. CASE \E r \in Requests : Request(ip, r)
  BY <1>0, <1>1, RequestKeepsGrace
<1>2. ASSUME NEW v \in Ips, NEW r \in Requests, v # ip, Request(v, r)
      PROVE  Inexcusable(ip)'
  <2>1. /\ level' = level /\ score'[ip] = score[ip] /\ quiet'[ip] = quiet[ip]
        /\ block'[ip] = block[ip] /\ why'[ip] = why[ip] /\ grace'[ip] = grace[ip]
    BY <1>2 DEF Request, GateTypeOK
  <2> QED
    BY <1>0, <2>1 DEF Inexcusable, Blocked, InGrace
<1>3. CASE \E v \in Ips, r \in Requests : BypassRequest(v, r)
  BY <1>0, <1>3 DEF BypassRequest, Inexcusable, Blocked, InGrace
<1>4. CASE CleanupMaps
  <2>1. Blocked(ip)' => Blocked(ip) /\ block'[ip] = block[ip] /\ why'[ip] = why[ip]
    BY <1>4 DEF CleanupMaps, Blocked, Within
  <2>2. /\ level' = level /\ score' = score
        /\ score[ip] > 0 => quiet'[ip] = quiet[ip]
        /\ InGrace(ip)' => InGrace(ip)
    BY <1>4 DEF CleanupMaps, CleanupFirstAccessIPs, InGrace, Within, GateTypeOK
  <2> QED
    BY <1>0, <2>1, <2>2 DEF Inexcusable
<1>5. CASE Restart \/ \E v \in Ips, r \in Requests : Interrupt(v, r)
  <2>1. PICK scores : Start(scores)
    BY <1>5 DEF Restart, Interrupt
  <2> QED
    BY <2>1 DEF Start, Inexcusable, Blocked, Within
<1>6. CASE GateTick
  <2>1. /\ quiet[ip] \in Age(MaxQuiet) /\ block[ip] \in Age(BlockTime + 1)
        /\ grace[ip] \in Age(Grace + 1)
    BY DEF GateTypeOK
  <2>2. /\ quiet'[ip] = IF quiet[ip] \in {Absent, MaxQuiet} THEN quiet[ip] ELSE quiet[ip] + 1
        /\ block'[ip] = IF block[ip] \in {Absent, BlockTime + 1} THEN block[ip] ELSE block[ip] + 1
        /\ grace'[ip] = IF grace[ip] \in {Absent, Grace + 1} THEN grace[ip] ELSE grace[ip] + 1
    BY <1>6 DEF GateTick, Aged
  <2>3. Blocked(ip)' => Blocked(ip) /\ block'[ip] = block[ip] + 1
    BY <2>1, <2>2, GateAssumption DEF Blocked, Within, Age, Absent
  <2>4. InGrace(ip)' => InGrace(ip)
    BY <2>1, <2>2, GateAssumption DEF InGrace, Within, Age, Absent
  <2>5. quiet[ip] # Absent =>
           quiet'[ip] # Absent /\ quiet'[ip] \in {quiet[ip], quiet[ip] + 1}
    BY <2>1, <2>2, PolicyAssumption DEF Age, Absent
  <2>6. UNCHANGED <<level, score, why>>
    BY <1>6 DEF GateTick
  <2>7. quiet[ip] \in Int /\ block[ip] \in Int
    BY <2>1 DEF Age, Absent
  <2> QED
    BY <1>0, <2>3, <2>4, <2>5, <2>6, <2>7 DEF Inexcusable
<1>7. CASE UNCHANGED gateVars
  BY <1>0, <1>7 DEF gateVars, Inexcusable, Blocked, InGrace
<1> QED
  BY <1>1, <1>2, <1>3, <1>4, <1>5, <1>6, <1>7 DEF GateNext

\* In balanced mode the blocks a grace period excuses are over before one can
\* begin: for every configuration in which the rate and the user agent cost
\* something and no wait is shorter than a block.
THEOREM GracePeriodsExcuse ==
    ASSUME Priced, Patient
    PROVE  GateSpec => []GraceExcuses
<1>1. GateInit => GraceInv
  BY DEF GateInit, GraceInv, Inexcusable, Blocked, Within
<1>2. GateTypeOK /\ GraceInv /\ [GateNext]_gateVars => GraceInv'
  BY StepGrace
<1>3. GraceInv => GraceExcuses
  BY DEF GraceInv, Inexcusable, GraceExcuses
<1> QED
  BY <1>1, <1>2, <1>3, GateTyped, PTL DEF GateSpec
=============================================================================
