---------------------------- MODULE RunLifecycle ----------------------------
(***************************************************************************)
(* What a run promises, without its stages: planning, then building, then  *)
(* verifying, then a report.  It goes back to building only to fix a       *)
(* failed verification and back to planning only by a backward loop, and   *)
(* both are paid for from budgets that only a passed verification refills. *)
(* A run may stop anywhere.                                                *)
(***************************************************************************)
EXTENDS Naturals

CONSTANTS
    LoopBudget,     \* backward loops of one run
    FixBudget       \* verification fixes between two passed verifications

VARIABLES
    part,           \* the part of the run that is under way
    loopsLeft,
    fixesLeft

vars == <<part, loopsLeft, fixesLeft>>

Part == {"planning", "building", "verifying", "reporting", "done"}

Init ==
    /\ part = "planning"
    /\ loopsLeft = LoopBudget
    /\ fixesLeft = FixBudget

Move(from, to) == part = from /\ part' = to

PlanReady == Move("planning", "building") /\ UNCHANGED <<loopsLeft, fixesLeft>>

Built == Move("building", "verifying") /\ UNCHANGED <<loopsLeft, fixesLeft>>

FixFailure ==
    /\ Move("verifying", "building")
    /\ fixesLeft > 0
    /\ fixesLeft' = fixesLeft - 1
    /\ UNCHANGED loopsLeft

VerificationPassed ==
    /\ Move("verifying", "reporting")
    /\ fixesLeft' = FixBudget
    /\ UNCHANGED loopsLeft

Reported == Move("reporting", "done") /\ UNCHANGED <<loopsLeft, fixesLeft>>

LoopBack ==
    /\ part # "done"
    /\ loopsLeft > 0
    /\ part' = "planning"
    /\ loopsLeft' = loopsLeft - 1
    /\ UNCHANGED fixesLeft

Next ==
    \/ PlanReady \/ Built \/ FixFailure \/ VerificationPassed \/ Reported \/ LoopBack

Spec == Init /\ [][Next]_vars
=============================================================================
