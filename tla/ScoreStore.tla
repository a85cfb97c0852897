----------------------------- MODULE ScoreStore -----------------------------
(***************************************************************************)
(* The IP score store of log.go as requests use it concurrently: the map   *)
(* ipScores, the file ip_scores.json it is reloaded from on every request  *)
(* and rewritten to after every change, and the timers ipScoreLastReset.   *)
(* A worker is the goroutine of one HTTP request.  Each action is what a   *)
(* goroutine does between two points where another can run: one critical   *)
(* section or one system call.                                             *)
(*                                                                         *)
(* Ips are addresses that are neither private nor trusted: incrementScore  *)
(* returns at once for the others.                                         *)
(***************************************************************************)
EXTENDS ScorePolicy, FiniteSets

CONSTANTS
    Workers,      \* requests that can be in flight together
    Penalties,    \* the amounts incrementScore is called with
    MaxGiven,     \* bound: penalties given to one visitor
    MaxCrashes    \* bound: restarts of the process

ASSUME StoreAssumption ==
    /\ Penalties \subseteq Nat \ {0}
    /\ MaxGiven \in Nat
    /\ MaxCrashes \in Nat

VARIABLES
    mem,      \* ipScores; 0 stands for an absent key, no key is stored with 0
    timer,    \* ticks since ipScoreLastReset[ip], NoTimer when absent
    file,     \* ip_scores.json
    pc,       \* what the request does next
    who,      \* the address the request came from
    copy,     \* bytes in hand: read by ReadFile, or produced by MarshalIndent
    seen,     \* currentScore, the local of prepareScoreState
    given,    \* history: all penalties ever given to ip
    crashes

vars == <<mem, timer, file, pc, who, copy, seen, given, crashes>>

NoTimer == -1
Scores == [Ips -> Nat]
NoScores == [ip \in Ips |-> 0]

\* A file that does not decode is missing, truncated, or a mix of two writes.
Whole(s) == [kind |-> "whole", scores |-> s]
Empty == [kind |-> "empty", scores |-> NoScores]
Torn == [kind |-> "torn", scores |-> NoScores]
Contents == [kind : {"whole", "empty", "torn"}, scores : Scores]

Steps == {"idle", "apply", "prepare", "expiry", "reset", "resetTimer",
          "gate", "timer", "save", "truncate", "write"}

TypeOK ==
    /\ mem \in Scores
    /\ timer \in [Ips -> {NoTimer} \union (0 .. MaxQuiet)]
    /\ file \in Contents
    /\ pc \in [Workers -> Steps]
    /\ who \in [Workers -> Ips]
    /\ copy \in [Workers -> Contents]
    /\ seen \in [Workers -> Nat]
    /\ given \in Scores
    /\ crashes \in 0 .. MaxCrashes

Init ==
    /\ mem = NoScores
    /\ timer = [ip \in Ips |-> NoTimer]
    /\ file = Empty
    /\ pc = [w \in Workers |-> "idle"]
    /\ who \in [Workers -> Ips]
    /\ copy = [w \in Workers |-> Empty]
    /\ seen = [w \in Workers |-> 0]
    /\ given = NoScores
    /\ crashes = 0

Goto(w, from, to) ==
    /\ pc[w] = from
    /\ pc' = [pc EXCEPT ![w] = to]

\* A request arrives and loadScores reads the file.
ReadScores(w, ip) ==
    /\ Goto(w, "idle", "apply")
    /\ who' = [who EXCEPT ![w] = ip]
    /\ copy' = [copy EXCEPT ![w] = file]
    /\ UNCHANGED <<mem, timer, file, seen, given, crashes>>

\* Mistaken variant of loadScores: the file is added to the map.
ApplyScoresAdding(w) ==
    /\ \E to \in {"prepare", "idle"} : Goto(w, "apply", to)
    /\ mem' = [ip \in Ips |-> mem[ip] + copy[w].scores[ip]]
    /\ copy' = [copy EXCEPT ![w] = Empty]
    /\ UNCHANGED <<timer, file, who, seen, given, crashes>>

\* Mistaken variant: a file that does not decode empties the map.
ApplyScoresBlindly(w) ==
    /\ \E to \in {"prepare", "idle"} : Goto(w, "apply", to)
    /\ mem' = copy[w].scores
    /\ copy' = [copy EXCEPT ![w] = Empty]
    /\ UNCHANGED <<timer, file, who, seen, given, crashes>>

\* The rest of loadScores replaces the whole map, unless the bytes do not
\* decode.  A bypass route or a trusted caller is then done with scores.
ApplyScores(w) ==
    /\ \E to \in {"prepare", "idle"} : Goto(w, "apply", to)
    /\ mem' = IF copy[w].kind = "whole" THEN copy[w].scores ELSE mem
    /\ copy' = [copy EXCEPT ![w] = Empty]
    /\ UNCHANGED <<timer, file, who, seen, given, crashes>>

\* prepareScoreState reads the score under the read lock ...
ReadScore(w) ==
    /\ Goto(w, "prepare", IF mem[who[w]] > 0 THEN "expiry" ELSE "gate")
    /\ seen' = [seen EXCEPT ![w] = mem[who[w]]]
    /\ UNCHANGED <<mem, timer, file, who, copy, given, crashes>>

\* Mistaken variant: a timer that is missing, as after a restart, is not
\* started again.
CheckExpiryOfStarted(w) ==
    LET ip == who[w]
        expired == timer[ip] # NoTimer /\ Expired(seen[w], timer[ip])
    IN  /\ Goto(w, "expiry", IF expired THEN "reset" ELSE "gate")
        /\ seen' = [seen EXCEPT ![w] = 0]
        /\ UNCHANGED <<mem, timer, file, who, copy, given, crashes>>

\* ... and shouldResetScore judges, later, the value that was read.
CheckExpiry(w) ==
    LET ip == who[w]
        expired == timer[ip] # NoTimer /\ Expired(seen[w], timer[ip])
    IN  /\ Goto(w, "expiry", IF expired THEN "reset" ELSE "gate")
        /\ timer' = [timer EXCEPT ![ip] = IF @ = NoTimer THEN 0 ELSE @]
        /\ seen' = [seen EXCEPT ![w] = 0]
        /\ UNCHANGED <<mem, file, who, copy, given, crashes>>

\* resetIPScore: the two maps are cleared under two locks, one after the other.
ResetScore(w) ==
    /\ Goto(w, "reset", "resetTimer")
    /\ mem' = [mem EXCEPT ![who[w]] = 0]
    /\ UNCHANGED <<timer, file, who, copy, seen, given, crashes>>

ResetTimer(w) ==
    /\ Goto(w, "resetTimer", "save")
    /\ timer' = [timer EXCEPT ![who[w]] = NoTimer]
    /\ UNCHANGED <<mem, file, who, copy, seen, given, crashes>>

\* incrementScore, called by any of the checks after prepareScoreState.
AddPenalty(w, n) ==
    /\ given[who[w]] + n <= MaxGiven
    /\ Goto(w, "gate", "timer")
    /\ mem' = [mem EXCEPT ![who[w]] = @ + n]
    /\ given' = [given EXCEPT ![who[w]] = @ + n]
    /\ UNCHANGED <<timer, file, who, copy, seen, crashes>>

\* Mistaken variant: a penalty does not extend the wait of its visitor.
RestartTimerOnlyOnce(w) ==
    /\ Goto(w, "timer", "save")
    /\ timer' = [timer EXCEPT ![who[w]] = IF @ = NoTimer THEN 0 ELSE @]
    /\ UNCHANGED <<mem, file, who, copy, seen, given, crashes>>

RestartTimer(w) ==
    /\ Goto(w, "timer", "save")
    /\ timer' = [timer EXCEPT ![who[w]] = 0]
    /\ UNCHANGED <<mem, file, who, copy, seen, given, crashes>>

\* saveScores: the map is marshalled under the read lock; WriteFile then
\* truncates and writes without any lock.
TakeSnapshot(w) ==
    /\ Goto(w, "save", "truncate")
    /\ copy' = [copy EXCEPT ![w] = Whole(mem)]
    /\ UNCHANGED <<mem, timer, file, who, seen, given, crashes>>

TruncateFile(w) ==
    /\ Goto(w, "truncate", "write")
    /\ file' = Empty
    /\ UNCHANGED <<mem, timer, who, copy, seen, given, crashes>>

\* Over bytes another goroutine wrote after this one truncated, a shorter
\* text leaves the tail of the longer one behind.
Overlay(old, new) ==
    IF old.kind = "empty" \/ old = new THEN {new} ELSE {new, Torn}

WriteFile(w) ==
    /\ Goto(w, "write", "gate")
    /\ file' \in Overlay(file, copy[w])
    /\ copy' = [copy EXCEPT ![w] = Empty]
    /\ UNCHANGED <<mem, timer, who, seen, given, crashes>>

\* The request is answered, by a check that stops it or by the handler.
Answer(w) ==
    /\ Goto(w, "gate", "idle")
    /\ UNCHANGED <<mem, timer, file, who, copy, seen, given, crashes>>

Serve(w) ==
    \/ ApplyScores(w) \/ ReadScore(w) \/ CheckExpiry(w)
    \/ ResetScore(w) \/ ResetTimer(w) \/ RestartTimer(w)
    \/ TakeSnapshot(w) \/ TruncateFile(w) \/ WriteFile(w) \/ Answer(w)

\* cleanupMaps drops the timers of visitors without a score, holding both locks.
CleanupTimers ==
    /\ timer' = [ip \in Ips |-> IF mem[ip] = 0 THEN NoTimer ELSE timer[ip]]
    /\ UNCHANGED <<mem, file, pc, who, copy, seen, given, crashes>>

Tick ==
    /\ timer' = [ip \in Ips |-> IF timer[ip] = NoTimer THEN NoTimer
                                ELSE Older(timer[ip])]
    /\ UNCHANGED <<mem, file, pc, who, copy, seen, given, crashes>>

\* The process stops and starts again: only the file survives.
Crash ==
    /\ crashes < MaxCrashes
    /\ crashes' = crashes + 1
    /\ mem' = NoScores
    /\ timer' = [ip \in Ips |-> NoTimer]
    /\ pc' = [w \in Workers |-> "idle"]
    /\ copy' = [w \in Workers |-> Empty]
    /\ seen' = [w \in Workers |-> 0]
    /\ UNCHANGED <<file, who, given>>

Next ==
    \/ \E w \in Workers :
          \/ Serve(w)
          \/ \E ip \in Ips : ReadScores(w, ip)
          \/ \E n \in Penalties : AddPenalty(w, n)
    \/ CleanupTimers
    \/ Tick
    \/ Crash

Spec == Init /\ [][Next]_vars

\* A goroutine that can run does run, and the clock does not stop.  Nothing
\* is assumed of the visitors.
FairSpec ==
    /\ Spec
    /\ WF_vars(Tick)
    /\ \A w \in Workers : WF_vars(Serve(w))

-----------------------------------------------------------------------------
(***************************************************************************)
(* Properties                                                              *)
(***************************************************************************)

\* Whatever requests overlap, and however often the process restarts, nobody
\* is held to a higher score than the penalties given to him: stale reloads
\* and torn files lose penalties, they never invent any (loadScores,
\* saveScores, incrementScore).
NoInflation == \A ip \in Ips : mem[ip] <= given[ip]

\* The same of every other place a score can be in on its way back to mem.
CopiesBounded ==
    \A ip \in Ips :
        /\ file.scores[ip] <= given[ip]
        /\ \A w \in Workers : copy[w].scores[ip] <= given[ip]

\* The ledger sees the timer that incrementScore is about to restart as
\* restarted, and a missing one as just started.
LedgerQuiet ==
    [ip \in Ips |->
        IF timer[ip] = NoTimer \/ \E w \in Workers : pc[w] = "timer" /\ who[w] = ip
        THEN 0 ELSE timer[ip]]

\* Between requests the file has the scores: after a restart the map is empty
\* until the first request has read it.
LedgerScore ==
    IF \A w \in Workers : pc[w] \in {"idle", "apply"} THEN file.scores ELSE mem

Ledger == INSTANCE ScoreLedger
    WITH score <- LedgerScore, quiet <- LedgerQuiet, saved <- file.scores

\* Requests that never overlap keep the ledger's promise: reloading the file
\* on every request changes nothing, each change reaches the file before the
\* next one, and no score goes away that the reset rules do not forgive and
\* that a stop of the process between the change and the end of saving it does
\* not undo or lose.
ImplementsLedger == Ledger!Spec

\* A visitor who keeps coming is forgiven in the end, once he earns no more
\* penalties, unless he reached the block level; restarts, which drop the
\* timers, only delay it.  This is said of requests that do not overlap: of
\* those that do, each may bring back what another one has just forgiven
\* (prepareScoreState, shouldResetScore, resetIPScore).
Forgiveness ==
    \A ip \in Ips :
        []<>(\E w \in Workers : pc[w] = "prepare" /\ who[w] = ip)
            => <>[](mem[ip] = 0 \/ mem[ip] >= BlockAt)

AtBlock(contents, ip) == contents.kind = "whole" => contents.scores[ip] >= BlockAt

\* After a stop the map is empty until the first request has read the file.
ComesBack ==
    /\ file.kind = "whole"
    /\ \A w \in Workers : \/ pc[w] = "idle"
                          \/ pc[w] = "apply" /\ copy[w].kind = "whole"

\* The block level of a visitor is on record when the file and every copy of
\* it say so and no request is about to forgive a lower score.
OnRecord(ip) ==
    /\ mem[ip] >= BlockAt \/ ComesBack
    /\ AtBlock(file, ip)
    /\ \A w \in Workers :
          /\ AtBlock(copy[w], ip)
          /\ who[w] = ip => /\ pc[w] # "reset"
                            /\ pc[w] = "expiry" => seen[w] >= BlockAt

\* A block level that is on record stays, whatever requests overlap, torn and
\* empty files included, and whatever restarts and time do, except if the
\* process stops while the file is being written (loadScores, saveScores,
\* shouldResetScore).
BlockLevelStays ==
    [][\A ip \in Ips :
          OnRecord(ip) => OnRecord(ip)' \/ (Crash /\ file.kind # "whole")]_vars
=============================================================================
