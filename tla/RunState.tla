------------------------------ MODULE RunState ------------------------------
(***************************************************************************)
(* The Run aggregate of pi-deepwork and the pure policies around it: what  *)
(* src/domain/run, src/domain/stage and src/domain/backward-loop compute   *)
(* about a run without any side effect, and how                            *)
(* application/pipeline/outcome-interpreter.ts turns a stage's outcome     *)
(* into the next state of the run.                                         *)
(*                                                                         *)
(* A run is an immutable record.  The fields that are only ever written    *)
(* for display (stagesCompleted, phaseHistory, timestamps, resumeSource)   *)
(* are left out: no decision reads them.                                   *)
(***************************************************************************)
EXTENDS Naturals

CONSTANTS
    MaxBackwardLoops,  \* MAX_BACKWARD_LOOPS: backward loops of one run
    MaxAcceptFix,      \* MAX_ACCEPT_FIX_ATTEMPTS: repairs of one acceptance
    MaxVerifyFix       \* MAX_VERIFY_FIX_ATTEMPTS: repairs after verification

ASSUME CapsAssumption ==
    /\ MaxBackwardLoops \in Nat
    /\ MaxAcceptFix \in Nat
    /\ MaxVerifyFix \in Nat

-----------------------------------------------------------------------------
(* Values (domain/value/index.ts).  "none" stands for `undefined`. *)

StageName ==
    {"goals", "research", "design", "structure", "plan",
     "implement", "accept", "replan", "verify", "report"}

NextStage == StageName \cup {"done"}

Route == {"full", "quick-fix", "unknown"}

VerifyStatus == {"PASS", "PARTIAL", "FAIL"}

BackwardLoopClassification ==
    {"LOOP_PLAN", "LOOP_STRUCTURE", "LOOP_DESIGN", "LOOP_GOALS",
     "DEFER_REPLAN", "NO_LOOP"}

RunRecord ==
    [route              : Route,
     currentPhase       : Nat \ {0},
     totalPhases        : Nat,
     lastCompletedStage : StageName \cup {"none"},
     nextStage          : NextStage,
     verifyStatus       : VerifyStatus \cup {"none"},
     backwardLoops      : 0 .. MaxBackwardLoops,
     acceptFixAttempts  : 0 .. MaxAcceptFix,
     verifyFixAttempts  : 0 .. MaxVerifyFix]

AtLeastOne(n) == IF n >= 1 THEN n ELSE 1

-----------------------------------------------------------------------------
(* The aggregate's operations (class Run). *)

StartRun ==
    [route |-> "unknown", currentPhase |-> 1, totalPhases |-> 0,
     lastCompletedStage |-> "none", nextStage |-> "goals",
     verifyStatus |-> "none", backwardLoops |-> 0,
     acceptFixAttempts |-> 0, verifyFixAttempts |-> 0]

CompleteStage(r, stage, next) ==
    [r EXCEPT !.lastCompletedStage = stage, !.nextStage = next]

SetNextStage(r, next) == [r EXCEPT !.nextStage = next]

(* Mutants of the operations below, as a slip in the code would make them. *)
UnchangedRun(r) == r

BackwardLoopCapPassed(r) == r.backwardLoops > MaxBackwardLoops

(* The phase moves on by one but never past the (new) total. *)
AdvancePhase(r, total) ==
    [r EXCEPT !.currentPhase = IF @ + 1 <= AtLeastOne(total)
                               THEN @ + 1 ELSE AtLeastOne(total),
              !.totalPhases = total]

ResetCurrentPhase(r) == [r EXCEPT !.currentPhase = 1]

IncrementBackwardLoops(r) == [r EXCEPT !.backwardLoops = @ + 1]

IncrementAcceptFix(r) == [r EXCEPT !.acceptFixAttempts = @ + 1]

ResetAcceptFix(r) == [r EXCEPT !.acceptFixAttempts = 0]

IncrementVerifyFix(r) == [r EXCEPT !.verifyFixAttempts = @ + 1]

ResetVerifyFix(r) == [r EXCEPT !.verifyFixAttempts = 0]

IsBackwardLoopCapHit(r) == r.backwardLoops >= MaxBackwardLoops

IsAcceptFixCapHit(r) == r.acceptFixAttempts >= MaxAcceptFix

IsVerifyFixCapHit(r) == r.verifyFixAttempts >= MaxVerifyFix

-----------------------------------------------------------------------------
(* Policies. *)

NextStageFor(stage, route, phase, total, verify) ==
    CASE stage = "goals"     -> "research"
      [] stage = "research"  -> IF route = "quick-fix" THEN "plan" ELSE "design"
      [] stage = "design"    -> "structure"
      [] stage = "structure" -> "plan"
      [] stage = "plan"      -> "implement"
      [] stage = "implement" -> "accept"
      [] stage = "accept"    -> IF route = "quick-fix" \/ phase >= AtLeastOne(total)
                                THEN "verify" ELSE "replan"
      [] stage = "replan"    -> "implement"
      [] stage = "verify"    -> IF verify = "PASS" THEN "report" ELSE "implement"
      [] stage = "report"    -> "done"

BackwardLoopTarget(classification) ==
    CASE classification = "LOOP_GOALS"     -> "goals"
      [] classification = "LOOP_DESIGN"    -> "design"
      [] classification = "LOOP_STRUCTURE" -> "structure"
      [] classification = "DEFER_REPLAN"   -> "replan"
      [] OTHER                             -> "plan"

(* A failed acceptance goes back to implement unless its coverage plan hit *)
(* the review cap or the tester changed files that are not tests.          *)
IsImplementationRepairable(outcome) == ~outcome.cap /\ ~outcome.boundary

-----------------------------------------------------------------------------
(* The outcome interpreter.  A verify outcome always carries its status as  *)
(* telemetry.verify_status, so extractVerifyStatus is outcome.status.       *)

Advance(r, stage) ==
    CompleteStage(r, stage,
        NextStageFor(stage, r.route, r.currentPhase, r.totalPhases, r.verifyStatus))

(* manifestPhases is what parseTotalPhases reads from the phase manifest:   *)
(* at least 1, and 1 when the manifest is missing or malformed.             *)
ApplyStageTransition(r, stage, outcome, manifestPhases) ==
    CASE stage = "goals" ->
           Advance([r EXCEPT !.route = IF outcome.route = "quick-fix"
                                       THEN "quick-fix" ELSE "full"], stage)
      [] stage = "plan" ->
           Advance([r EXCEPT !.totalPhases = manifestPhases], stage)
      [] stage = "accept" -> ResetAcceptFix(Advance(r, stage))
      [] stage = "replan" ->
           LET total == IF r.totalPhases >= r.currentPhase + 1
                        THEN r.totalPhases ELSE r.currentPhase + 1
           IN  AdvancePhase(Advance(r, stage), total)
      [] stage = "verify" ->
           LET verified == Advance([r EXCEPT !.verifyStatus = outcome.status], stage)
           IN  IF outcome.status = "PASS" THEN ResetVerifyFix(verified) ELSE verified
      [] OTHER -> Advance(r, stage)

(* Mutant: an uncounted acceptance fix. *)
RouteAcceptFixUncounted(r) == CompleteStage(r, "accept", "implement")

(* maybeRouteAcceptFix and maybeRouteVerifyFix, below their caps. *)
RouteAcceptFix(r) == IncrementAcceptFix(CompleteStage(r, "accept", "implement"))

RouteVerifyFix(r, status) ==
    IncrementVerifyFix(ResetCurrentPhase(
        CompleteStage([r EXCEPT !.verifyStatus = status], "verify", "implement")))
=============================================================================
