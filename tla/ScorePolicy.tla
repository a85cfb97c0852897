----------------------------- MODULE ScorePolicy -----------------------------
(***************************************************************************)
(* When a visitor's score may be forgiven (log.go, getResetDuration and    *)
(* thresholdDuration).  Durations are counted in ticks of the clock the    *)
(* modules that extend this one share; the program counts minutes.         *)
(***************************************************************************)
EXTENDS Integers

CONSTANTS
    Ips,                            \* the addresses visitors come from
    MediumAt, HighAt, BlockAt,      \* ScoreThresholdMedium, High and Block
    LowWait, MediumWait, HighWait,  \* reset_thresholds "0", "15" and "25"
    MaxQuiet                        \* clocks saturate here

ASSUME PolicyAssumption ==
    /\ MediumAt \in Nat /\ HighAt \in Nat /\ BlockAt \in Nat
    /\ 0 < MediumAt /\ MediumAt <= HighAt /\ HighAt <= BlockAt
    /\ LowWait \in Nat /\ MediumWait \in Nat /\ HighWait \in Nat
    /\ MaxQuiet \in Nat
    /\ LowWait <= MaxQuiet /\ MediumWait <= MaxQuiet /\ HighWait <= MaxQuiet

\* Mistaken variant: the block level waits like the one below it.
ResetWaitForgivesAll(score) ==
    IF score >= HighAt THEN HighWait
    ELSE IF score >= MediumAt THEN MediumWait
    ELSE LowWait

\* Zero stands for "no reset": the block level, or a configured 0 minutes.
ResetWait(score) ==
    IF score >= BlockAt THEN 0
    ELSE IF score >= HighAt THEN HighWait
    ELSE IF score >= MediumAt THEN MediumWait
    ELSE LowWait

Expired(score, quiet) ==
    /\ ResetWait(score) # 0
    /\ quiet >= ResetWait(score)

\* A saturating clock step.
Older(quiet) == IF quiet < MaxQuiet THEN quiet + 1 ELSE quiet
=============================================================================
