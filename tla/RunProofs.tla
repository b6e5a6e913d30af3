------------------------------ MODULE RunProofs ------------------------------
(***************************************************************************)
(* Theorems about Pipeline, for every value of its constants, and about    *)
(* Recovery, for any number of restarts: what they keep as long as the     *)
(* state file survives them, and how far a run that is inferred may be.    *)
(***************************************************************************)
EXTENDS Recovery, Integers, FiniteSetTheorems, WellFoundedInduction, TLAPS

USE DEF NextStage

-----------------------------------------------------------------------------
(* Types of the aggregate's operations. *)

LEMMA NextStageForType ==
    ASSUME NEW stage \in StageName, NEW route, NEW phase, NEW total, NEW verify
    PROVE  NextStageFor(stage, route, phase, total, verify) \in NextStage
BY DEF NextStageFor, StageName

LEMMA AdvanceType ==
    ASSUME NEW r \in RunRecord, NEW stage \in StageName
    PROVE  Advance(r, stage) \in RunRecord
<1>1. NextStageFor(stage, r.route, r.currentPhase, r.totalPhases, r.verifyStatus)
         \in NextStage
  BY NextStageForType
<1> QED BY <1>1 DEF Advance, CompleteStage, RunRecord

LEMMA AdvancePhaseType ==
    ASSUME NEW r \in RunRecord, NEW total \in Nat
    PROVE  AdvancePhase(r, total) \in RunRecord
<1> DEFINE phase == IF r.currentPhase + 1 <= AtLeastOne(total)
                    THEN r.currentPhase + 1 ELSE AtLeastOne(total)
<1>1. phase \in Nat \ {0}
  BY DEF RunRecord, AtLeastOne
<1>2. AdvancePhase(r, total) = [r EXCEPT !.currentPhase = phase, !.totalPhases = total]
  BY DEF AdvancePhase, RunRecord
<1> HIDE DEF phase
<1> QED BY <1>1, <1>2 DEF RunRecord

LEMMA StageTransitionType ==
    ASSUME NEW r \in RunRecord, NEW stage \in StageName,
           NEW o \in Outcome, NEW m \in Nat \ {0}
    PROVE  ApplyStageTransition(r, stage, o, m) \in RunRecord
<1> USE CapsAssumption
<1>1. CASE stage = "goals"
  <2>1. [r EXCEPT !.route = IF o.route = "quick-fix" THEN "quick-fix" ELSE "full"]
           \in RunRecord
    BY DEF RunRecord, Route
  <2> QED BY <1>1, <2>1, AdvanceType DEF ApplyStageTransition
<1>2. CASE stage = "plan"
  <2>1. [r EXCEPT !.totalPhases = m] \in RunRecord
    BY DEF RunRecord
  <2> QED BY <1>2, <2>1, AdvanceType DEF ApplyStageTransition
<1>3. CASE stage = "accept"
  <2>1. Advance(r, stage) \in RunRecord
    BY AdvanceType
  <2>2. ResetAcceptFix(Advance(r, stage)) \in RunRecord
    BY <2>1 DEF ResetAcceptFix, RunRecord
  <2> QED BY <1>3, <2>2 DEF ApplyStageTransition
<1>4. CASE stage = "replan"
  <2> DEFINE total == IF r.totalPhases >= r.currentPhase + 1
                      THEN r.totalPhases ELSE r.currentPhase + 1
  <2>1. Advance(r, stage) \in RunRecord
    BY AdvanceType
  <2>2. total \in Nat
    BY DEF RunRecord
  <2>3. AdvancePhase(Advance(r, stage), total) \in RunRecord
    BY <2>1, <2>2, AdvancePhaseType
  <2> QED BY <1>4, <2>3 DEF ApplyStageTransition
<1>5. CASE stage = "verify"
  <2> DEFINE v == Advance([r EXCEPT !.verifyStatus = o.status], stage)
  <2>1. [r EXCEPT !.verifyStatus = o.status] \in RunRecord
    BY DEF RunRecord, Outcome, VerifyStatus
  <2>2. v \in RunRecord
    BY <2>1, AdvanceType
  <2>3. ResetVerifyFix(v) \in RunRecord
    BY <2>2 DEF ResetVerifyFix, RunRecord
  <2> QED BY <1>5, <2>2, <2>3 DEF ApplyStageTransition
<1>6. CASE stage \notin {"goals", "plan", "accept", "replan", "verify"}
  BY <1>6, AdvanceType DEF ApplyStageTransition
<1> QED BY <1>1, <1>2, <1>3, <1>4, <1>5, <1>6

LEMMA BackwardLoopType ==
    ASSUME NEW r \in RunRecord, ~IsBackwardLoopCapHit(r),
           NEW c \in BackwardLoopClassification
    PROVE  SetNextStage(ResetCurrentPhase(IncrementBackwardLoops(r)),
                        BackwardLoopTarget(c)) \in RunRecord
<1>1. BackwardLoopTarget(c) \in NextStage
  BY DEF BackwardLoopTarget, StageName, BackwardLoopClassification
<1>2. r.backwardLoops + 1 \in 0 .. MaxBackwardLoops
  BY CapsAssumption DEF IsBackwardLoopCapHit, RunRecord
<1>3. IncrementBackwardLoops(r) \in RunRecord
  BY <1>2 DEF IncrementBackwardLoops, RunRecord
<1>4. ResetCurrentPhase(IncrementBackwardLoops(r)) \in RunRecord
  BY <1>3 DEF ResetCurrentPhase, RunRecord
<1> QED BY <1>1, <1>4 DEF SetNextStage, RunRecord

LEMMA RouteVerifyFixType ==
    ASSUME NEW r \in RunRecord, ~IsVerifyFixCapHit(r), NEW status \in VerifyStatus
    PROVE  RouteVerifyFix(r, status) \in RunRecord
<1>1. r.verifyFixAttempts + 1 \in 0 .. MaxVerifyFix
  BY CapsAssumption DEF IsVerifyFixCapHit, RunRecord
<1> DEFINE done == CompleteStage([r EXCEPT !.verifyStatus = status], "verify", "implement")
<1>2. done \in RunRecord /\ done.verifyFixAttempts = r.verifyFixAttempts
  BY DEF CompleteStage, RunRecord, StageName
<1>3. ResetCurrentPhase(done) \in RunRecord
      /\ ResetCurrentPhase(done).verifyFixAttempts = r.verifyFixAttempts
  BY <1>2 DEF ResetCurrentPhase, RunRecord
<1> HIDE DEF done
<1>4. IncrementVerifyFix(ResetCurrentPhase(done)) \in RunRecord
  BY <1>1, <1>3 DEF IncrementVerifyFix, RunRecord
<1> QED BY <1>4 DEF RouteVerifyFix, done

LEMMA RouteAcceptFixType ==
    ASSUME NEW r \in RunRecord, ~IsAcceptFixCapHit(r)
    PROVE  RouteAcceptFix(r) \in RunRecord
<1>1. r.acceptFixAttempts + 1 \in 0 .. MaxAcceptFix
  BY CapsAssumption DEF IsAcceptFixCapHit, RunRecord
<1>2. CompleteStage(r, "accept", "implement") \in RunRecord
      /\ CompleteStage(r, "accept", "implement").acceptFixAttempts = r.acceptFixAttempts
  BY DEF CompleteStage, RunRecord, StageName
<1> QED BY <1>1, <1>2 DEF RouteAcceptFix, IncrementAcceptFix, RunRecord

LEMMA StartRunType == StartRun \in RunRecord
BY CapsAssumption DEF StartRun, RunRecord, Route, StageName, VerifyStatus

-----------------------------------------------------------------------------
(* Types of the stages' outcomes. *)

(* The outcomes that ask for no backward loop. *)
PlainOutcome == {o \in Outcome : o.loop = "none"}

LEMMA OutcomeForms ==
    ASSUME NEW w \in SUBSET ArtifactKind
    PROVE  /\ Passed(w) \in PlainOutcome /\ Failed(w) \in PlainOutcome
           /\ Capped(w) \in PlainOutcome /\ Partial(w) \in PlainOutcome
           /\ \A r \in Route : [Passed(w) EXCEPT !.route = r] \in PlainOutcome
           /\ [Failed(w) EXCEPT !.boundary = TRUE] \in PlainOutcome
           /\ \A c \in BackwardLoopClassification :
                 [Failed(w) EXCEPT !.loop = c] \in Outcome
<1>1. Passed(w) \in PlainOutcome
  BY DEF Passed, PlainOutcome, Outcome, Route
<1>2. Failed(w) \in PlainOutcome
  BY <1>1 DEF Failed, PlainOutcome, Outcome
<1>3. Capped(w) \in PlainOutcome
  BY <1>2 DEF Capped, PlainOutcome, Outcome
<1>4. Partial(w) \in PlainOutcome
  BY <1>1 DEF Partial, PlainOutcome, Outcome
<1>5. \A r \in Route : [Passed(w) EXCEPT !.route = r] \in PlainOutcome
  BY <1>1 DEF PlainOutcome, Outcome
<1>6. [Failed(w) EXCEPT !.boundary = TRUE] \in PlainOutcome
  BY <1>2 DEF PlainOutcome, Outcome
<1>7. \A c \in BackwardLoopClassification : [Failed(w) EXCEPT !.loop = c] \in Outcome
  BY <1>2 DEF PlainOutcome, Outcome
<1> QED BY <1>1, <1>2, <1>3, <1>4, <1>5, <1>6, <1>7

LEMMA OwnOutcomesType ==
    ASSUME NEW stage \in StageName
    PROVE  OwnOutcomes(stage) \subseteq PlainOutcome
<1> USE OutcomeForms DEF ArtifactKind
<1>1. GoalsOutcomes \subseteq PlainOutcome
  <2> DEFINE all == {"requirements", "goals", "config"}
             quick == [Passed(all) EXCEPT !.route = "quick-fix"]
             full == [Passed(all) EXCEPT !.route = "full"]
  <2>1. quick \in PlainOutcome /\ full \in PlainOutcome
    BY DEF Route
  <2>2. {Failed({}), Failed({"requirements"}), Failed(all), Capped(all)} \subseteq PlainOutcome
    OBVIOUS
  <2>3. GoalsOutcomes \subseteq
           {Failed({}), Failed({"requirements"}), Failed(all), Capped(all), quick, full}
    BY DEF GoalsOutcomes
  <2> HIDE DEF all, quick, full
  <2> QED BY <2>1, <2>2, <2>3
<1>2. ResearchOutcomes \subseteq PlainOutcome
  BY DEF ResearchOutcomes
<1>3. SynthesisOutcomes("design") \subseteq PlainOutcome
      /\ SynthesisOutcomes("structure") \subseteq PlainOutcome
  BY DEF SynthesisOutcomes
<1>4. PlanOutcomes \subseteq PlainOutcome
  BY DEF PlanOutcomes
<1>5. ImplementOutcomes \subseteq PlainOutcome
  BY DEF ImplementOutcomes
<1>6. AcceptOutcomes \subseteq PlainOutcome
  BY DEF AcceptOutcomes
<1>7. ReplanOutcomes \subseteq PlainOutcome
  BY DEF ReplanOutcomes
<1>8. VerifyOutcomes \subseteq PlainOutcome
  BY DEF VerifyOutcomes
<1>9. {Passed({"stage10Summary"})} \subseteq PlainOutcome
  OBVIOUS
<1> QED
  BY <1>1, <1>2, <1>3, <1>4, <1>5, <1>6, <1>7, <1>8, <1>9 DEF OwnOutcomes, StageName

LEMMA StageOutcomesType ==
    ASSUME NEW stage \in StageName
    PROVE  StageOutcomes(stage) \subseteq Outcome
<1>1. LoopOutcomes(stage) \subseteq Outcome
  <2> SUFFICES ASSUME NEW o \in LoopOutcomes(stage) PROVE o \in Outcome
    OBVIOUS
  <2>1. PICK c \in Requests[stage], w \in {{}, {"plan", "phaseManifest"}} :
           o = [Failed(w) EXCEPT !.loop = c]
    BY DEF LoopOutcomes
  <2>2. c \in BackwardLoopClassification
    BY PipelineAssumption
  <2>3. w \in SUBSET ArtifactKind
    BY DEF ArtifactKind
  <2> QED BY <2>1, <2>2, <2>3, OutcomeForms
<1> QED BY <1>1, OwnOutcomesType DEF StageOutcomes, PlainOutcome

LEMMA StageWritesType ==
    ASSUME NEW stage, NEW w \in StageWrites(stage)
    PROVE  w \subseteq ArtifactKind
BY DEF StageWrites, ArtifactKind

LEMMA ManifestAfterType ==
    ASSUME manifest \in Nat \ {0}, NEW w
    PROVE  ManifestAfter(w) \subseteq Nat \ {0}
BY PipelineAssumption DEF ManifestAfter
-----------------------------------------------------------------------------
(* Type correctness.  A loop that is still running has a stage to run.      *)

HasStage == Running => run.nextStage \in StageName

TInv == TypeOK /\ HasStage

LEMMA SettleType ==
    ASSUME NEW o \in Outcome, Settle(o)
    PROVE  outcome' \in Outcome /\ control' \in Control /\ retries' \in {0, 1}
BY DEF Settle, Control, Terminal

LEMMA WriteType ==
    ASSUME TypeOK, NEW w \in SUBSET ArtifactKind, Write(w)
    PROVE  artifacts' \subseteq ArtifactKind /\ manifest' \in Nat \ {0}
BY ManifestAfterType DEF TypeOK, Write

LEMMA ContinueType ==
    ASSUME TypeOK, NEW r \in RunRecord, Continue(r)
    PROVE  /\ run' \in RunRecord /\ control' \in Control /\ outcome' \in Outcome
           /\ retries' \in {0, 1} /\ config' \in Config
           /\ HasStage'
<1>1. Passed({}) \in Outcome
  BY OutcomeForms DEF PlainOutcome
<1>2. r.nextStage \in StageName \cup {"done"}
  BY DEF RunRecord
<1> QED BY <1>1, <1>2 DEF Continue, TypeOK, Control, Terminal, HasStage, Running

LEMMA TypeInit == Init => TInv
<1> SUFFICES ASSUME Init PROVE TInv
  OBVIOUS
<1>1. config \in Config
  BY PipelineAssumption DEF Init, Config
<1>2. run \in RunRecord /\ outcome \in Outcome
  BY StartRunType, OutcomeForms DEF Init, PlainOutcome
<1>3. HasStage
  BY DEF Init, HasStage, StartRun, StageName
<1> QED BY <1>1, <1>2, <1>3 DEF Init, TInv, TypeOK, Control, ArtifactKind

LEMMA TypeExecute == TInv /\ ExecuteStage => TInv'
<1> SUFFICES ASSUME TInv, ExecuteStage PROVE TInv'
  OBVIOUS
<1> USE DEF TInv
<1>0. \A o \in StageOutcomes(run.nextStage) :
         control = "stage" => o \in Outcome /\ o.wrote \in SUBSET ArtifactKind
  <2>1. control = "stage" => run.nextStage \in StageName
    BY DEF HasStage, Running, Terminal
  <2> QED BY <2>1, StageOutcomesType DEF Outcome
<1>1. CASE StageSettles
  <2>1. PICK o \in StageOutcomes(run.nextStage) : Write(o.wrote) /\ Settle(o)
    BY <1>1 DEF StageSettles
  <2>2. o \in Outcome /\ o.wrote \in SUBSET ArtifactKind
    BY <1>0, <1>1 DEF StageSettles
  <2> QED BY <1>1, <2>1, <2>2, SettleType, WriteType
          DEF StageSettles, TypeOK, HasStage, Running, Terminal
<1>2. CASE StageHitsCapAutomated
  <2>1. PICK o \in StageOutcomes(run.nextStage) :
           /\ Write(o.wrote)
           /\ Settle(IF config.policy = "best-effort"
                     THEN [o EXCEPT !.status = "PARTIAL"] ELSE o)
    BY <1>2 DEF StageHitsCapAutomated
  <2>2. o \in Outcome /\ o.wrote \in SUBSET ArtifactKind
    BY <1>0, <1>2 DEF StageHitsCapAutomated
  <2>3. [o EXCEPT !.status = "PARTIAL"] \in Outcome
    BY <2>2 DEF Outcome
  <2> QED BY <1>2, <2>1, <2>2, <2>3, SettleType, WriteType
          DEF StageHitsCapAutomated, TypeOK, HasStage, Running, Terminal
<1>3. CASE StageHitsCapInteractive
  <2>1. PICK o \in StageOutcomes(run.nextStage) : Write(o.wrote) /\ outcome' = o
    BY <1>3 DEF StageHitsCapInteractive
  <2>2. o \in Outcome /\ o.wrote \in SUBSET ArtifactKind
    BY <1>0, <1>3 DEF StageHitsCapInteractive
  <2> QED BY <1>3, <2>1, <2>2, WriteType
          DEF StageHitsCapInteractive, TypeOK, HasStage, Running, Terminal, Control
<1>4. CASE OperatorApproves
  <2>1. [outcome EXCEPT !.status = "PARTIAL"] \in Outcome
    BY DEF TypeOK, Outcome
  <2> QED BY <1>4, <2>1, SettleType
          DEF OperatorApproves, TypeOK, HasStage, Running, Terminal
<1>5. CASE OperatorRetries
  BY <1>5, OutcomeForms
     DEF OperatorRetries, PlainOutcome, TypeOK, HasStage, Running, Terminal, Control
<1>6. CASE OperatorRejects
  BY <1>6, SettleType DEF OperatorRejects, TypeOK, HasStage, Running, Terminal
<1>7. ASSUME StageThrows
      PROVE  artifacts' \subseteq ArtifactKind /\ manifest' \in Nat \ {0}
  <2>1. PICK w \in SUBSET ArtifactKind : Write(w)
    BY <1>7, StageWritesType DEF StageThrows
  <2> QED BY <2>1, WriteType
<1>8. CASE ThrowRetried
  BY <1>7, <1>8 DEF ThrowRetried, TypeOK, HasStage, Running
<1>9. CASE ThrowAborts
  BY <1>7, <1>9 DEF ThrowAborts, TypeOK, HasStage, Running, Control, Terminal
<1> QED BY <1>1, <1>2, <1>3, <1>4, <1>5, <1>6, <1>8, <1>9 DEF ExecuteStage

LEMMA TypeInterpret == TInv /\ Interpret => TInv'
<1> SUFFICES ASSUME TInv, Interpret PROVE TInv'
  OBVIOUS
<1> USE DEF TInv
<1>0. control = "interpret" => run.nextStage \in StageName
  BY DEF HasStage, Running, Terminal
<1>1. CASE DeferToReplan
  <2>1. SetNextStage(run, "replan") \in RunRecord
    BY DEF SetNextStage, TypeOK, RunRecord, StageName
  <2>2. run.currentPhase \in Nat
    BY DEF TypeOK, RunRecord
  <2> QED BY <1>1, <2>1, <2>2, ContinueType DEF DeferToReplan, TypeOK
<1>2. ASSUME Stop PROVE TInv'
  BY <1>2 DEF Stop, TypeOK, HasStage, Running, Control, Terminal
<1>3. CASE BackwardLoop
  <2>1. outcome.loop \in BackwardLoopClassification
    BY <1>3 DEF BackwardLoop, Loops, TypeOK, Outcome
  <2>2. SetNextStage(ResetCurrentPhase(IncrementBackwardLoops(run)),
                     BackwardLoopTarget(outcome.loop)) \in RunRecord
    BY <1>3, <2>1, BackwardLoopType DEF BackwardLoop, TypeOK
  <2>3. artifacts' \subseteq ArtifactKind /\ manifest' \in Nat \ {0}
    BY <1>3 DEF BackwardLoop, TypeOK
  <2> QED BY <1>3, <2>2, <2>3, ContinueType DEF BackwardLoop, TypeOK
<1>4. CASE VerifyFix
  <2>1. outcome.status \in VerifyStatus
    BY DEF TypeOK, Outcome, VerifyStatus
  <2>2. RouteVerifyFix(run, outcome.status) \in RunRecord
    BY <1>4, <2>1, RouteVerifyFixType DEF VerifyFix, TypeOK
  <2> QED BY <1>4, <2>2, ContinueType DEF VerifyFix, TypeOK
<1>5. CASE AcceptFix
  <2>1. RouteAcceptFix(run) \in RunRecord
    BY <1>5, RouteAcceptFixType DEF AcceptFix, TypeOK
  <2> QED BY <1>5, <2>1, ContinueType DEF AcceptFix, TypeOK
<1>6. CASE Transition
  <2>1. run.nextStage \in StageName
    BY <1>0, <1>6 DEF Transition, Continue
  <2>2. ApplyStageTransition(run, run.nextStage, outcome, manifest) \in RunRecord
    BY <2>1, StageTransitionType DEF TypeOK
  <2>3. closed' \subseteq Nat /\ softened' \subseteq StageName
    BY <1>6, <2>1 DEF Transition, TypeOK, RunRecord
  <2> QED BY <1>6, <2>2, <2>3, ContinueType DEF Transition, TypeOK
<1> QED BY <1>1, <1>2, <1>3, <1>4, <1>5, <1>6
        DEF Interpret, BackwardLoopCapped, VerifyFixCapped, AcceptStops, StageFailed

LEMMA TypeStep == TInv /\ [Next]_vars => TInv'
<1> SUFFICES ASSUME TInv, [Next]_vars PROVE TInv'
  OBVIOUS
<1>1. CASE ExecuteStage
  BY <1>1, TypeExecute
<1>2. CASE Interpret
  BY <1>2, TypeInterpret
<1>3. CASE UNCHANGED vars
  BY <1>3 DEF vars, TInv, TypeOK, HasStage, Running
<1> QED BY <1>1, <1>2, <1>3 DEF Next, Ended

(* Every reachable state has its types; no counter of backward loops,       *)
(* acceptance fixes or verification fixes passes its cap.                   *)
THEOREM TypeCorrect == Spec => []TypeOK
<1>1. Spec => []TInv
  BY TypeInit, TypeStep, PTL DEF Spec
<1> QED BY <1>1, PTL DEF TInv
-----------------------------------------------------------------------------
(* The order of phases, deferrals to replan included. *)

(* A completed replan is followed by implement and disturbs nothing else. *)
LEMMA ReplanAdvance ==
    ASSUME NEW r \in RunRecord
    PROVE  LET a == Advance(r, "replan")
           IN  /\ a \in RunRecord
               /\ a.nextStage = "implement"
               /\ a.currentPhase = r.currentPhase
               /\ a.route = r.route
<1> DEFINE a == Advance(r, "replan")
<1>1. a \in RunRecord
  BY AdvanceType DEF StageName
<1>2. NextStageFor("replan", r.route, r.currentPhase, r.totalPhases, r.verifyStatus)
         = "implement"
  BY DEF NextStageFor
<1>3. a = [r EXCEPT !.lastCompletedStage = "replan", !.nextStage = "implement"]
  BY <1>2 DEF Advance, CompleteStage
<1> QED BY <1>1, <1>3 DEF RunRecord

(* What a transition does to the fields that the phases depend on. *)
LEMMA TransitionEffect ==
    ASSUME NEW r \in RunRecord, NEW stage \in StageName, NEW o \in Outcome,
           NEW m \in Nat \ {0}, NEW n, n = ApplyStageTransition(r, stage, o, m)
    PROVE  /\ stage \notin {"plan", "replan"} => n.totalPhases = r.totalPhases
           /\ stage # "replan" => n.currentPhase = r.currentPhase
           /\ stage # "goals" => n.route = r.route
           /\ stage = "plan" => n.totalPhases = m
           /\ stage = "replan" =>
                 /\ n.totalPhases >= r.currentPhase + 1
                 /\ n.currentPhase = r.currentPhase + 1
           /\ stage \in {"goals", "research", "design", "structure"} =>
                 n.nextStage \in {"research", "design", "structure", "plan"}
           /\ stage \in {"plan", "replan"} => n.nextStage = "implement"
           /\ stage = "implement" => n.nextStage = "accept"
           /\ stage = "accept" =>
                 n.nextStage = IF r.route = "quick-fix"
                                  \/ r.currentPhase >= AtLeastOne(r.totalPhases)
                               THEN "verify" ELSE "replan"
           /\ stage = "verify" =>
                 /\ n.nextStage = IF o.status = "PASS" THEN "report" ELSE "implement"
                 /\ n.verifyStatus = o.status
                 /\ o.status = "PASS" => n.verifyFixAttempts = 0
           /\ stage = "report" =>
                 /\ n.nextStage = "done"
                 /\ n.verifyStatus = r.verifyStatus
                 /\ n.verifyFixAttempts = r.verifyFixAttempts
<1> USE DEF ApplyStageTransition, Advance, CompleteStage, NextStageFor, RunRecord
<1>1. CASE stage = "goals"
  BY <1>1
<1>2. CASE stage \in {"research", "design", "structure", "implement", "report"}
  BY <1>2
<1>3. CASE stage = "plan"
  BY <1>3
<1>4. CASE stage = "accept"
  BY <1>4 DEF ResetAcceptFix
<1>5. CASE stage = "replan"
  <2> DEFINE a == Advance(r, stage)
             total == IF r.totalPhases >= r.currentPhase + 1
                      THEN r.totalPhases ELSE r.currentPhase + 1
  <2>1. a \in RunRecord /\ a.currentPhase = r.currentPhase
        /\ a.route = r.route /\ a.nextStage = "implement"
    <3> HIDE DEF ApplyStageTransition, Advance, CompleteStage, NextStageFor, RunRecord
    <3> QED BY <1>5, ReplanAdvance
  <2>2. n = AdvancePhase(a, total)
    BY <1>5
  <2>3. total \in Nat /\ total >= r.currentPhase + 1
        /\ r.currentPhase + 1 <= AtLeastOne(total)
    BY DEF AtLeastOne
  <2> HIDE DEF a, total
  <2>4. n.totalPhases = total /\ n.currentPhase = r.currentPhase + 1
        /\ n.route = r.route /\ n.nextStage = "implement"
    BY <2>1, <2>2, <2>3 DEF AdvancePhase
  <2> HIDE DEF ApplyStageTransition, Advance, CompleteStage, NextStageFor, RunRecord
  <2> QED BY <1>5, <2>3, <2>4
<1>6. CASE stage = "verify"
  BY <1>6 DEF ResetVerifyFix
<1> QED BY <1>1, <1>2, <1>3, <1>4, <1>5, <1>6 DEF StageName

(* Verification can send the run back to phase 1 only when there is one. *)
PhasesCounted ==
    run.route # "quick-fix" /\ run.nextStage \in {"verify", "report", "done"}
        => run.totalPhases >= 1

(* Every phase before the current one is closed, at every stage. *)
EarlierClosed ==
    run.route # "quick-fix" => 1 .. (run.currentPhase - 1) \subseteq closed

PhaseFacts ==
    /\ PlanningStartsOver
    /\ PhasesInOrder
    /\ AllPhasesClosed
    /\ PhasesCounted
    /\ EarlierClosed

PhaseInv == TInv /\ PhaseFacts

(* executeStage leaves the run alone. *)
LEMMA PhaseExecute == PhaseInv /\ ExecuteStage => PhaseInv'
<1> SUFFICES ASSUME PhaseInv, ExecuteStage PROVE PhaseInv'
  OBVIOUS
<1>1. TInv'
  BY TypeExecute DEF PhaseInv
<1>2. run' = run /\ closed' = closed
  BY DEF ExecuteStage, StageSettles, StageHitsCapAutomated, StageHitsCapInteractive,
     OperatorApproves, OperatorRetries, OperatorRejects, ThrowRetried, ThrowAborts
<1> QED BY <1>1, <1>2
        DEF PhaseInv, PhaseFacts, PlanningStartsOver, PhasesInOrder, AllPhasesClosed,
            PhasesCounted, EarlierClosed

LEMMA PhaseInterpret == PhaseInv /\ Interpret => PhaseInv'
<1> SUFFICES ASSUME PhaseInv, Interpret PROVE PhaseInv'
  OBVIOUS
<1> USE DEF PlanningStartsOver, PhasesInOrder, AllPhasesClosed, PhasesCounted,
            EarlierClosed
<1>0. TInv /\ run \in RunRecord /\ outcome \in Outcome
  BY DEF PhaseInv, TInv, TypeOK
<1>1. TInv'
  BY TypeInterpret DEF PhaseInv
<1>3. ASSUME Stop PROVE PhaseFacts'
  BY <1>3 DEF Stop, PhaseInv, PhaseFacts
<1>4. ASSUME BackwardLoop PROVE PhaseFacts'
  <2>1. closed' = {}
        /\ run' = SetNextStage(ResetCurrentPhase(IncrementBackwardLoops(run)),
                               BackwardLoopTarget(outcome.loop))
    BY <1>4 DEF BackwardLoop, Continue
  <2>2. run'.currentPhase = 1
        /\ run'.nextStage = BackwardLoopTarget(outcome.loop)
    BY <2>1, <1>0 DEF SetNextStage, ResetCurrentPhase, IncrementBackwardLoops, RunRecord
  <2>3. BackwardLoopTarget(outcome.loop) \in {"goals", "design", "structure", "plan"}
    BY <1>4, <1>0 DEF BackwardLoop, Loops, BackwardLoopTarget
  <2> QED BY <2>1, <2>2, <2>3 DEF PhaseFacts
<1>5. ASSUME VerifyFix PROVE PhaseFacts'
  <2>1. run' = RouteVerifyFix(run, outcome.status) /\ run.nextStage = "verify"
    BY <1>5 DEF VerifyFix, Continue, NeedsVerifyFix
  <2>2. run'.nextStage = "implement" /\ run'.currentPhase = 1
        /\ run'.totalPhases = run.totalPhases /\ run'.route = run.route
    BY <2>1, <1>0 DEF RouteVerifyFix, IncrementVerifyFix, ResetCurrentPhase,
       CompleteStage, RunRecord
  <2> QED BY <2>1, <2>2, <1>0 DEF PhaseFacts, PhaseInv, RunRecord
<1>6. ASSUME AcceptFix PROVE PhaseFacts'
  <2>1. run' = RouteAcceptFix(run) /\ run.nextStage = "accept" /\ closed' = closed
    BY <1>6 DEF AcceptFix, Continue, NeedsAcceptFix
  <2>2. run'.nextStage = "implement" /\ run'.currentPhase = run.currentPhase
        /\ run'.totalPhases = run.totalPhases /\ run'.route = run.route
    BY <2>1, <1>0 DEF RouteAcceptFix, IncrementAcceptFix, CompleteStage, RunRecord
  <2> QED BY <2>1, <2>2, <1>0 DEF PhaseFacts, PhaseInv
<1>7. ASSUME Transition PROVE PhaseFacts'
  <2> DEFINE stage == run.nextStage
  <2>1. stage \in StageName
    BY <1>0, <1>7 DEF TInv, HasStage, Running, Terminal, Transition, Continue
  <2>2. run' = ApplyStageTransition(run, stage, outcome, manifest)
        /\ closed' = IF stage = "accept" THEN closed \cup {run.currentPhase} ELSE closed
    BY <1>7 DEF Transition, Continue
  <2>3. manifest \in Nat \ {0} /\ run' \in RunRecord
    BY <1>0, <1>1 DEF TInv, TypeOK
  <2>4. stage = "verify" => outcome.status = "PASS"
    BY <1>7 DEF Transition, NeedsVerifyFix
  <2> HIDE DEF stage
  <2>5. PlanningStartsOver /\ PhasesInOrder /\ AllPhasesClosed /\ PhasesCounted
        /\ EarlierClosed
    BY DEF PhaseInv, PhaseFacts
  <2> USE <1>0, <2>1, <2>2, <2>3, <2>4, <2>5, TransitionEffect
  <2>6. CASE stage \in {"goals", "research", "design", "structure"}
    BY <2>6 DEF PhaseFacts, stage
  <2>7. CASE stage = "plan"
    BY <2>7 DEF PhaseFacts, stage, RunRecord
  <2>8. CASE stage = "implement"
    BY <2>8 DEF PhaseFacts, stage
  <2>9. CASE stage = "accept"
    BY <2>9 DEF PhaseFacts, stage, RunRecord, AtLeastOne
  <2>10. CASE stage = "replan"
    BY <2>10 DEF PhaseFacts, stage, RunRecord
  <2>11. CASE stage \in {"verify", "report"}
    BY <2>11 DEF PhaseFacts, stage
  <2> QED BY <2>1, <2>6, <2>7, <2>8, <2>9, <2>10, <2>11 DEF StageName
<1>8. ASSUME DeferToReplan PROVE PhaseFacts'
  <2>1. run' = SetNextStage(run, "replan") /\ closed' = closed \cup {run.currentPhase}
    BY <1>8 DEF DeferToReplan, Continue
  <2>2. run'.nextStage = "replan" /\ run'.currentPhase = run.currentPhase
        /\ run'.totalPhases = run.totalPhases /\ run'.route = run.route
    BY <2>1, <1>0 DEF SetNextStage, RunRecord
  <2> QED BY <2>1, <2>2, <1>0 DEF PhaseFacts, PhaseInv, RunRecord
<1> QED BY <1>1, <1>3, <1>4, <1>5, <1>6, <1>7, <1>8
        DEF Interpret, BackwardLoopCapped, VerifyFixCapped, AcceptStops, StageFailed,
            PhaseInv, PhaseFacts

LEMMA PhaseInit == Init => PhaseInv
<1> SUFFICES ASSUME Init PROVE PhaseInv
  OBVIOUS
<1>1. run.nextStage = "goals" /\ run.currentPhase = 1 /\ closed = {}
  BY DEF Init, StartRun
<1> QED BY <1>1, TypeInit
        DEF PhaseInv, PhaseFacts, PlanningStartsOver, PhasesInOrder, AllPhasesClosed,
            PhasesCounted, EarlierClosed

LEMMA PhaseStep == PhaseInv /\ [Next]_vars => PhaseInv'
<1> SUFFICES ASSUME PhaseInv, [Next]_vars PROVE PhaseInv'
  OBVIOUS
<1>1. CASE ExecuteStage
  BY <1>1, PhaseExecute
<1>2. CASE Interpret
  BY <1>2, PhaseInterpret
<1>3. CASE UNCHANGED vars
  <2>1. TInv'
    BY <1>3, TypeStep DEF PhaseInv
  <2> QED BY <1>3, <2>1 DEF vars, PhaseInv, PhaseFacts, PlanningStartsOver,
             PhasesInOrder, AllPhasesClosed, PhasesCounted, EarlierClosed
<1> QED BY <1>1, <1>2, <1>3 DEF Next, Ended

(* Phases are implemented, accepted and replanned in order, verification    *)
(* and the end come after every phase is accepted or deferred, and planning *)
(* starts at phase 1 with no phase closed: whatever loops the stages ask    *)
(* for, deferrals to replan included.                                       *)
THEOREM PhasesKept == Spec => []PhaseDiscipline
<1>1. PhaseInv => PhaseDiscipline
  BY DEF PhaseInv, PhaseFacts, PhaseDiscipline
<1> QED BY <1>1, PhaseInit, PhaseStep, PTL DEF Spec

-----------------------------------------------------------------------------
(* The report.  A settled verification has written its summary.             *)

SummaryWritten ==
    control \in {"gate", "interpret"} /\ run.nextStage = "verify" /\ outcome.loop = "none"
        => "stage9Summary" \in artifacts

ReportInv == TInv /\ ReportIsEarned /\ SummaryWritten

LEMMA VerifyOutcomeSummary ==
    ASSUME NEW o \in StageOutcomes("verify"), o.loop = "none"
    PROVE  "stage9Summary" \in o.wrote
<1>1. CASE o \in OwnOutcomes("verify")
  BY <1>1 DEF OwnOutcomes, VerifyOutcomes, Passed, Failed, Partial
<1>2. CASE o \in LoopOutcomes("verify")
  <2>1. PICK c \in Requests["verify"], w \in {{}} : o = [Failed(w) EXCEPT !.loop = c]
    BY <1>2 DEF LoopOutcomes
  <2>2. c # "none"
    BY PipelineAssumption DEF StageName, BackwardLoopClassification
  <2> QED BY <2>1, <2>2 DEF Failed, Passed
<1> QED BY <1>1, <1>2 DEF StageOutcomes

LEMMA ReportExecute == ReportInv /\ ExecuteStage => ReportInv'
<1> SUFFICES ASSUME ReportInv, ExecuteStage PROVE ReportInv'
  OBVIOUS
<1>1. TInv' /\ TInv
  BY TypeExecute DEF ReportInv
<1>2. run' = run /\ artifacts \subseteq artifacts'
  BY DEF ExecuteStage, StageSettles, StageHitsCapAutomated, StageHitsCapInteractive,
     OperatorApproves, OperatorRetries, OperatorRejects, StageThrows, ThrowRetried,
     ThrowAborts, Write
<1>3. ReportIsEarned'
  BY <1>2 DEF ReportInv, ReportIsEarned
<1>4. SummaryWritten'
  <2> SUFFICES ASSUME run.nextStage = "verify", outcome'.loop = "none",
                      control' \in {"gate", "interpret"}
               PROVE  "stage9Summary" \in artifacts'
    BY <1>2 DEF SummaryWritten
  <2>1. ASSUME NEW o \in StageOutcomes("verify"), Write(o.wrote), o.loop = "none"
        PROVE  "stage9Summary" \in artifacts'
    BY <2>1, VerifyOutcomeSummary DEF Write
  <2>2. StageOutcomes("verify") \subseteq Outcome
    BY StageOutcomesType DEF StageName
  <2>3. \A o \in Outcome : [o EXCEPT !.status = "PARTIAL"].loop = o.loop
    BY DEF Outcome
  <2>4. CASE StageSettles
    BY <2>1, <2>4 DEF StageSettles, Settle
  <2>5. CASE StageHitsCapAutomated
    BY <2>1, <2>2, <2>3, <2>5 DEF StageHitsCapAutomated, Settle
  <2>6. CASE StageHitsCapInteractive
    BY <2>1, <2>6 DEF StageHitsCapInteractive
  <2>7. CASE OperatorApproves \/ OperatorRejects
    <3>1. outcome \in Outcome
      BY <1>1 DEF TInv, TypeOK
    <3> QED BY <1>2, <2>3, <2>7, <3>1
            DEF OperatorApproves, OperatorRejects, Settle, ReportInv, SummaryWritten
  <2>8. CASE OperatorRetries
    BY <2>8 DEF OperatorRetries
  <2>9. CASE ThrowRetried \/ ThrowAborts
    BY <2>9 DEF ThrowRetried, ThrowAborts, StageThrows
  <2> QED BY <2>4, <2>5, <2>6, <2>7, <2>8, <2>9 DEF ExecuteStage
<1> QED BY <1>1, <1>3, <1>4 DEF ReportInv

LEMMA ReportInterpret == ReportInv /\ Interpret => ReportInv'
<1> SUFFICES ASSUME ReportInv, Interpret PROVE ReportInv'
  OBVIOUS
<1>0. TInv /\ run \in RunRecord /\ outcome \in Outcome /\ control = "interpret"
  BY DEF ReportInv, TInv, TypeOK, Interpret, DeferToReplan, BackwardLoopCapped,
     BackwardLoop, VerifyFix, VerifyFixCapped, AcceptFix, AcceptStops, StageFailed,
     Transition, Stop, Continue
<1>1. TInv'
  BY TypeInterpret DEF ReportInv
<1>2. SummaryWritten'
  BY DEF Interpret, DeferToReplan, BackwardLoopCapped, BackwardLoop, VerifyFix,
     VerifyFixCapped, AcceptFix, AcceptStops, StageFailed, Transition, Stop,
     Continue, Terminal, SummaryWritten
<1>3. ASSUME Stop PROVE ReportIsEarned'
  BY <1>3 DEF Stop, ReportInv, ReportIsEarned
<1>4. ASSUME DeferToReplan \/ BackwardLoop \/ VerifyFix \/ AcceptFix
      PROVE  run'.nextStage \notin {"report", "done"}
  <2>1. CASE DeferToReplan
    BY <2>1, <1>0 DEF DeferToReplan, Continue, SetNextStage, RunRecord
  <2>2. CASE BackwardLoop
    <3>1. run'.nextStage = BackwardLoopTarget(outcome.loop)
      BY <2>2, <1>0 DEF BackwardLoop, Continue, SetNextStage, ResetCurrentPhase,
         IncrementBackwardLoops, RunRecord
    <3> QED BY <3>1 DEF BackwardLoopTarget
  <2>3. CASE VerifyFix
    BY <2>3, <1>0 DEF VerifyFix, Continue, RouteVerifyFix, IncrementVerifyFix,
       ResetCurrentPhase, CompleteStage, RunRecord
  <2>4. CASE AcceptFix
    BY <2>4, <1>0 DEF AcceptFix, Continue, RouteAcceptFix, IncrementAcceptFix,
       CompleteStage, RunRecord
  <2> QED BY <1>4, <2>1, <2>2, <2>3, <2>4
<1>5. ASSUME Transition PROVE ReportIsEarned'
  <2> DEFINE stage == run.nextStage
  <2>1. stage \in StageName
    BY <1>0 DEF TInv, HasStage, Running, Terminal
  <2>2. run' = ApplyStageTransition(run, stage, outcome, manifest) /\ artifacts' = artifacts
    BY <1>5 DEF Transition, Continue
  <2>3. manifest \in Nat \ {0}
    BY <1>0 DEF TInv, TypeOK
  <2>4. ReportIsEarned /\ SummaryWritten
    BY DEF ReportInv
  <2>5. outcome.loop = "none"
    BY <1>5 DEF Transition
  <2>6. stage \notin {"verify", "report"} => run'.nextStage \notin {"report", "done"}
    BY <1>0, <2>1, <2>2, <2>3, TransitionEffect DEF StageName
  <2>7. CASE stage = "verify"
    BY <1>0, <2>1, <2>2, <2>3, <2>4, <2>5, <2>7, TransitionEffect
       DEF ReportIsEarned, SummaryWritten
  <2>8. CASE stage = "report"
    BY <1>0, <2>1, <2>2, <2>3, <2>4, <2>8, TransitionEffect DEF ReportIsEarned
  <2> QED BY <2>6, <2>7, <2>8 DEF ReportIsEarned
<1>6. ReportIsEarned'
  BY <1>3, <1>4, <1>5
     DEF Interpret, BackwardLoopCapped, VerifyFixCapped, AcceptStops, StageFailed,
         ReportIsEarned, Stop, ReportInv
<1> QED BY <1>1, <1>2, <1>6 DEF ReportInv

(* A run reaches its report, and a PASS, only from a passed verification    *)
(* with its summary on disk and a restored fix budget, whatever backward    *)
(* loops the stages ask for.                                                *)
THEOREM ReportEarned == Spec => []ReportIsEarned
<1>1. Init => ReportInv
  BY TypeInit DEF Init, StartRun, ReportInv, ReportIsEarned, SummaryWritten
<1>2. ReportInv /\ [Next]_vars => ReportInv'
  <2> SUFFICES ASSUME ReportInv, [Next]_vars PROVE ReportInv'
    OBVIOUS
  <2>1. CASE ExecuteStage
    BY <2>1, ReportExecute
  <2>2. CASE Interpret
    BY <2>2, ReportInterpret
  <2>3. CASE UNCHANGED vars
    <3>1. TInv'
      BY <2>3, TypeStep DEF ReportInv
    <3>2. ReportIsEarned'
      BY <2>3 DEF vars, ReportInv, ReportIsEarned
    <3>3. SummaryWritten'
      BY <2>3 DEF vars, ReportInv, SummaryWritten
    <3> QED BY <3>1, <3>2, <3>3 DEF ReportInv
  <2> QED BY <2>1, <2>2, <2>3 DEF Next, Ended
<1>3. Spec => []ReportInv
  BY <1>1, <1>2, PTL DEF Spec
<1> QED BY <1>3, PTL DEF ReportInv

-----------------------------------------------------------------------------
(* The loop implements RunLifecycle, if only the stages of the phases defer *)
(* to replan (implement is the one that may).                               *)

(* A transition spends no budget, and only a passed verification refills    *)
(* one.                                                                     *)
LEMMA TransitionBudgets ==
    ASSUME NEW r \in RunRecord, NEW stage \in StageName, NEW o \in Outcome,
           NEW m \in Nat \ {0}, NEW n, n = ApplyStageTransition(r, stage, o, m)
    PROVE  /\ n.backwardLoops = r.backwardLoops
           /\ stage # "verify" => n.verifyFixAttempts = r.verifyFixAttempts
           /\ stage # "accept" => n.acceptFixAttempts = r.acceptFixAttempts
<1> USE DEF ApplyStageTransition, Advance, CompleteStage, RunRecord
<1>1. CASE stage \in {"research", "design", "structure", "implement", "report"}
  BY <1>1
<1>2. CASE stage \in {"goals", "plan"}
  BY <1>2
<1>3. CASE stage = "accept"
  BY <1>3 DEF ResetAcceptFix
<1>4. CASE stage = "replan"
  BY <1>4 DEF AdvancePhase
<1>5. CASE stage = "verify"
  BY <1>5 DEF ResetVerifyFix
<1> QED BY <1>1, <1>2, <1>3, <1>4, <1>5 DEF StageName

LEMMA LifecycleInit == Init => Lifecycle!Init
BY CapsAssumption DEF Init, StartRun, Lifecycle!Init, PartOf

-----------------------------------------------------------------------------
(* The steps, one lemma for each way on. *)

Stutters == UNCHANGED Lifecycle!vars

LEMMA SameRunStutters == run' = run => Stutters
BY DEF Stutters, Lifecycle!vars, PartOf

LEMMA BackwardLoopLoopsBack ==
    ASSUME PhaseInv, BackwardLoop
    PROVE  Lifecycle!LoopBack
<1>0. run \in RunRecord /\ outcome \in Outcome /\ run.nextStage # "done"
  BY DEF PhaseInv, TInv, TypeOK, HasStage, Running, Terminal, BackwardLoop, Continue,
     StageName
<1>1. run' = SetNextStage(ResetCurrentPhase(IncrementBackwardLoops(run)),
                          BackwardLoopTarget(outcome.loop))
  BY DEF BackwardLoop, Continue
<1>2. /\ run'.nextStage = BackwardLoopTarget(outcome.loop)
      /\ run'.backwardLoops = run.backwardLoops + 1
      /\ run'.verifyFixAttempts = run.verifyFixAttempts
  BY <1>0, <1>1 DEF SetNextStage, ResetCurrentPhase, IncrementBackwardLoops, RunRecord
<1>3. BackwardLoopTarget(outcome.loop) \in {"goals", "design", "structure", "plan"}
  BY <1>0 DEF BackwardLoop, Loops, BackwardLoopTarget
<1>4. PartOf(run.nextStage) # "done" /\ PartOf(run'.nextStage) = "planning"
  BY <1>0, <1>2, <1>3 DEF PartOf
<1>5. run.backwardLoops < MaxBackwardLoops /\ run.backwardLoops \in Nat
      /\ MaxBackwardLoops \in Nat
  BY <1>0, CapsAssumption DEF BackwardLoop, IsBackwardLoopCapHit, RunRecord
<1>6. MaxBackwardLoops - run.backwardLoops > 0
      /\ MaxBackwardLoops - run'.backwardLoops = (MaxBackwardLoops - run.backwardLoops) - 1
  BY <1>2, <1>5
<1> QED BY <1>2, <1>4, <1>6 DEF Lifecycle!LoopBack

LEMMA VerifyFixFixesFailure ==
    ASSUME PhaseInv, VerifyFix
    PROVE  Lifecycle!FixFailure
<1>0. run \in RunRecord /\ run.nextStage = "verify"
  BY DEF PhaseInv, TInv, TypeOK, VerifyFix, NeedsVerifyFix
<1>1. run' = RouteVerifyFix(run, outcome.status)
  BY DEF VerifyFix, Continue
<1>2. /\ run'.nextStage = "implement"
      /\ run'.backwardLoops = run.backwardLoops
      /\ run'.verifyFixAttempts = run.verifyFixAttempts + 1
  BY <1>0, <1>1 DEF RouteVerifyFix, IncrementVerifyFix, ResetCurrentPhase,
     CompleteStage, RunRecord
<1>3. PartOf(run.nextStage) = "verifying" /\ PartOf(run'.nextStage) = "building"
  BY <1>0, <1>2 DEF PartOf
<1>4. run.verifyFixAttempts < MaxVerifyFix /\ run.verifyFixAttempts \in Nat
      /\ MaxVerifyFix \in Nat
  BY <1>0, CapsAssumption DEF VerifyFix, IsVerifyFixCapHit, RunRecord
<1>5. MaxVerifyFix - run.verifyFixAttempts > 0
      /\ MaxVerifyFix - run'.verifyFixAttempts = (MaxVerifyFix - run.verifyFixAttempts) - 1
  BY <1>2, <1>4
<1> QED BY <1>2, <1>3, <1>5 DEF Lifecycle!FixFailure, Lifecycle!Move

LEMMA AcceptFixStutters ==
    ASSUME PhaseInv, AcceptFix
    PROVE  Stutters
<1>0. run \in RunRecord /\ run.nextStage = "accept"
  BY DEF PhaseInv, TInv, TypeOK, AcceptFix, NeedsAcceptFix
<1>1. run' = RouteAcceptFix(run)
  BY DEF AcceptFix, Continue
<1>2. /\ run'.nextStage = "implement"
      /\ run'.backwardLoops = run.backwardLoops
      /\ run'.verifyFixAttempts = run.verifyFixAttempts
  BY <1>0, <1>1 DEF RouteAcceptFix, IncrementAcceptFix, CompleteStage, RunRecord
<1> QED BY <1>0, <1>2 DEF Stutters, Lifecycle!vars, PartOf

(* Planning, building and the ends of the other parts. *)
LEMMA TransitionMovesOn ==
    ASSUME PhaseInv, Transition
    PROVE  Lifecycle!Next \/ Stutters
<1> DEFINE stage == run.nextStage
<1>0. run \in RunRecord /\ outcome \in Outcome /\ manifest \in Nat \ {0}
      /\ stage \in StageName
  BY DEF PhaseInv, TInv, TypeOK, HasStage, Running, Terminal, Transition, Continue
<1>1. run' = ApplyStageTransition(run, stage, outcome, manifest)
  BY DEF Transition, Continue
<1>2. stage = "verify" => outcome.status = "PASS"
  BY DEF Transition, NeedsVerifyFix
<1>3. /\ run'.backwardLoops = run.backwardLoops
      /\ stage # "verify" => run'.verifyFixAttempts = run.verifyFixAttempts
  BY <1>0, <1>1, TransitionBudgets
<1>4. CASE stage \in {"goals", "research", "design", "structure"}
  <2>1. run'.nextStage \in {"research", "design", "structure", "plan"}
    BY <1>0, <1>1, <1>4, TransitionEffect
  <2> QED BY <2>1, <1>3, <1>4 DEF Stutters, Lifecycle!vars, PartOf
<1>5. CASE stage = "plan"
  <2>1. run'.nextStage = "implement"
    BY <1>0, <1>1, <1>5, TransitionEffect
  <2> QED BY <2>1, <1>3, <1>5 DEF Lifecycle!Next, Lifecycle!PlanReady,
             Lifecycle!Move, PartOf
<1>6. CASE stage \in {"implement", "replan"}
  <2>1. run'.nextStage \in {"accept", "implement"}
    BY <1>0, <1>1, <1>6, TransitionEffect
  <2> QED BY <2>1, <1>3, <1>6 DEF Stutters, Lifecycle!vars, PartOf
<1>7. CASE stage = "accept"
  <2>1. run'.nextStage \in {"verify", "replan"}
    BY <1>0, <1>1, <1>7, TransitionEffect
  <2> QED BY <2>1, <1>3, <1>7 DEF Lifecycle!Next, Lifecycle!Built, Lifecycle!Move,
             Stutters, Lifecycle!vars, PartOf
<1>8. CASE stage = "verify"
  <2>1. run'.nextStage = "report" /\ run'.verifyFixAttempts = 0
    BY <1>0, <1>1, <1>2, <1>8, TransitionEffect
  <2>2. MaxVerifyFix - run'.verifyFixAttempts = MaxVerifyFix
    BY <2>1, CapsAssumption
  <2> QED BY <2>1, <2>2, <1>3, <1>8 DEF Lifecycle!Next, Lifecycle!VerificationPassed,
             Lifecycle!Move, PartOf
<1>9. CASE stage = "report"
  <2>1. run'.nextStage = "done"
    BY <1>0, <1>1, <1>9, TransitionEffect
  <2> QED BY <2>1, <1>3, <1>9 DEF Lifecycle!Next, Lifecycle!Reported,
             Lifecycle!Move, PartOf
<1> QED BY <1>0, <1>4, <1>5, <1>6, <1>7, <1>8, <1>9 DEF StageName

(* A stage of the phases alone may defer to replan; implement does. *)
DeferralsFromBuilding ==
    \A stage \in StageName :
        "DEFER_REPLAN" \in Requests[stage] => PartOf(stage) = "building"

(* So a deferral that is being interpreted stays within building. *)
DeferInv ==
    control \in {"gate", "interpret"} /\ outcome.loop = "DEFER_REPLAN"
        => PartOf(run.nextStage) = "building"

LEMMA DeferralOutcome ==
    ASSUME DeferralsFromBuilding, NEW stage \in StageName, NEW o \in StageOutcomes(stage)
    PROVE  o.loop = "DEFER_REPLAN" => PartOf(stage) = "building"
<1>1. CASE o \in OwnOutcomes(stage)
  BY <1>1, OwnOutcomesType DEF PlainOutcome
<1>2. CASE o \in LoopOutcomes(stage)
  <2>1. PICK c \in Requests[stage], w \in {{}, {"plan", "phaseManifest"}} :
           o = [Failed(w) EXCEPT !.loop = c]
    BY <1>2 DEF LoopOutcomes
  <2>2. o.loop = c
    BY <2>1 DEF Failed, Passed
  <2> QED BY <2>1, <2>2 DEF DeferralsFromBuilding
<1> QED BY <1>1, <1>2 DEF StageOutcomes

LEMMA DeferStep ==
    ASSUME DeferralsFromBuilding, TInv, DeferInv, [Next]_vars
    PROVE  DeferInv'
<1>1. CASE ExecuteStage
  <2>1. control = "stage" => run.nextStage \in StageName
    BY DEF TInv, HasStage, Running, Terminal
  <2>2. \A o \in StageOutcomes(run.nextStage) : control = "stage" =>
           /\ o \in Outcome
           /\ o.loop = "DEFER_REPLAN" => PartOf(run.nextStage) = "building"
    BY <2>1, DeferralOutcome, StageOutcomesType
  <2>3. outcome \in Outcome
    BY DEF TInv, TypeOK
  <2>4. \A o \in Outcome : [o EXCEPT !.status = "PARTIAL"].loop = o.loop
    BY DEF Outcome
  <2> USE DEF DeferInv, PartOf
  <2>5. CASE StageSettles
    BY <2>2, <2>5 DEF StageSettles, Settle
  <2>6. CASE StageHitsCapAutomated
    BY <2>2, <2>4, <2>6 DEF StageHitsCapAutomated, Settle
  <2>7. CASE StageHitsCapInteractive
    BY <2>2, <2>7 DEF StageHitsCapInteractive
  <2>8. CASE OperatorApproves \/ OperatorRejects
    BY <2>3, <2>4, <2>8 DEF OperatorApproves, OperatorRejects, Settle
  <2>9. CASE OperatorRetries \/ ThrowRetried \/ ThrowAborts
    BY <2>9 DEF OperatorRetries, ThrowRetried, ThrowAborts, StageThrows
  <2> QED BY <1>1, <2>5, <2>6, <2>7, <2>8, <2>9 DEF ExecuteStage
<1>2. CASE Interpret
  <2>1. control' \in {"stopped", "finished", "stage"}
    BY <1>2 DEF Interpret, DeferToReplan, BackwardLoopCapped, BackwardLoop, VerifyFix,
       VerifyFixCapped, AcceptFix, AcceptStops, StageFailed, Transition, Stop, Continue
  <2> QED BY <2>1 DEF DeferInv
<1>3. CASE UNCHANGED vars
  BY <1>3 DEF vars, DeferInv
<1> QED BY <1>1, <1>2, <1>3 DEF Next, Ended

LEMMA LifecycleStep ==
    PhaseInv /\ DeferInv /\ [Next]_vars => [Lifecycle!Next]_(Lifecycle!vars)
<1> SUFFICES ASSUME PhaseInv, DeferInv, [Next]_vars
             PROVE  Lifecycle!Next \/ Stutters
  BY DEF Stutters
<1>1. CASE ExecuteStage \/ Ended \/ UNCHANGED vars
  <2>1. run' = run
    BY <1>1 DEF ExecuteStage, StageSettles, StageHitsCapAutomated,
       StageHitsCapInteractive, OperatorApproves, OperatorRetries, OperatorRejects,
       ThrowRetried, ThrowAborts, Ended, vars
  <2> QED BY <2>1, SameRunStutters
<1>2. CASE Interpret
  <2>1. ASSUME Stop PROVE Stutters
    BY <2>1, SameRunStutters DEF Stop
  <2>2. CASE BackwardLoop
    BY <2>2, BackwardLoopLoopsBack DEF Lifecycle!Next
  <2>3. CASE VerifyFix
    BY <2>3, VerifyFixFixesFailure DEF Lifecycle!Next
  <2>4. CASE AcceptFix
    BY <2>4, AcceptFixStutters
  <2>5. CASE Transition
    BY <2>5, TransitionMovesOn
  <2>6. CASE DeferToReplan
    <3>1. PartOf(run.nextStage) = "building" /\ run' = SetNextStage(run, "replan")
      BY <2>6 DEF DeferToReplan, Continue, DeferInv
    <3>2. run'.nextStage = "replan" /\ run'.backwardLoops = run.backwardLoops
          /\ run'.verifyFixAttempts = run.verifyFixAttempts
      BY <3>1 DEF PhaseInv, TInv, TypeOK, SetNextStage, RunRecord
    <3> QED BY <3>1, <3>2 DEF Stutters, Lifecycle!vars, PartOf
  <2> QED BY <1>2, <2>1, <2>2, <2>3, <2>4, <2>5, <2>6
          DEF Interpret, BackwardLoopCapped, VerifyFixCapped, AcceptStops, StageFailed
<1> QED BY <1>1, <1>2 DEF Next

(* Every behaviour of the loop is, stage by stage, one of RunLifecycle:     *)
(* only counted verification fixes lead back to building and only counted   *)
(* backward loops back to planning.                                         *)
THEOREM LoopKeepsLifecycle ==
    ASSUME DeferralsFromBuilding PROVE Spec => KeepsLifecycle
<1>1. Init => DeferInv
  BY DEF Init, DeferInv
<1>2. TInv /\ DeferInv /\ [Next]_vars => DeferInv'
  BY DeferStep
<1>3. PhaseInv => TInv
  BY DEF PhaseInv
<1>4. Spec => Lifecycle!Spec
  BY <1>1, <1>2, <1>3, PhaseInit, PhaseStep, LifecycleInit, LifecycleStep, PTL
     DEF Spec, Lifecycle!Spec
<1> QED BY <1>4 DEF KeepsLifecycle

-----------------------------------------------------------------------------
(* The artifacts of a stage's predecessors, if only a stage that follows    *)
(* the plan asks for backward loops, as implement and replan do.            *)

Planned == {"implement", "accept", "replan", "verify", "report", "done"}

LoopsLeadBack == \A stage \in StageName \ Planned : Requests[stage] = {}

(* Each stage before the next one has left what it is there to leave, save  *)
(* for the exceptions of InputsPresent.                                     *)
InputsKeptIn(there) ==
    /\ run.nextStage # "goals" => {"requirements", "goals", "config"} \subseteq there
    /\ run.nextStage \notin {"goals", "research"} =>
          "researchSummary" \in there \/ "research" \in softened
    /\ run.nextStage \notin {"goals", "research", "design"} =>
          "design" \in there \/ run.route = "quick-fix"
    /\ run.nextStage \notin {"goals", "research", "design", "structure"} =>
          "structure" \in there \/ run.route = "quick-fix"
    /\ run.nextStage \in Planned =>
          /\ {"plan", "phaseManifest"} \subseteq there
          /\ "baselineResults" \in there \/ "plan" \in softened

InputsKept == InputsKeptIn(artifacts)

(* An outcome from which the run may go on, at once or softened. *)
MayGoOn(o) == o.status # "FAIL" \/ o.cap

(* What a stage with such an outcome has left among the artifacts there. *)
Leaves(stage, o, there) ==
    /\ stage = "goals" => {"requirements", "goals", "config"} \subseteq there
    /\ stage = "research" => "researchSummary" \in there \/ o.cap
    /\ stage \in {"design", "structure"} => stage \in there
    /\ stage = "plan" =>
          /\ {"plan", "phaseManifest"} \subseteq there
          /\ "baselineResults" \in there \/ o.cap

OutcomeLeft ==
    /\ control = "gate" => outcome.cap
    /\ control \in {"gate", "interpret"} /\ outcome.loop = "none" /\ MayGoOn(outcome)
         => Leaves(run.nextStage, outcome, artifacts)

(* A loop is only requested by a stage of which InputsKept knows the plan. *)
LoopFromPlanned ==
    control \in {"gate", "interpret"} /\ outcome.loop # "none"
        => run.nextStage \in Planned

InputsInv == ReportInv /\ InputsKept /\ OutcomeLeft /\ LoopFromPlanned

LEMMA OutcomeFields ==
    ASSUME NEW w
    PROVE  /\ Passed(w).wrote = w /\ ~Passed(w).cap
           /\ Partial(w).wrote = w /\ ~Partial(w).cap
           /\ Failed(w).wrote = w /\ Failed(w).status = "FAIL" /\ ~Failed(w).cap
           /\ Capped(w).wrote = w /\ Capped(w).cap
           /\ \A r : [Passed(w) EXCEPT !.route = r].wrote = w
           /\ \A c : LET o == [Failed(w) EXCEPT !.loop = c]
                    IN  o.wrote = w /\ o.status = "FAIL" /\ ~o.cap /\ o.loop = c
BY DEF Passed, Partial, Failed, Capped

LEMMA OutcomeLeaves ==
    ASSUME NEW stage \in StageName, NEW o \in StageOutcomes(stage), MayGoOn(o)
    PROVE  Leaves(stage, o, o.wrote)
<1>1. CASE o \in LoopOutcomes(stage)
  <2>1. PICK c \in Requests[stage], w \in {{}, {"plan", "phaseManifest"}} :
           o = [Failed(w) EXCEPT !.loop = c]
    BY <1>1 DEF LoopOutcomes
  <2>2. o.status = "FAIL" /\ ~o.cap
    BY <2>1, OutcomeFields
  <2> QED BY <2>2 DEF MayGoOn
<1>2. CASE o \in OwnOutcomes(stage)
  <2> USE OutcomeFields DEF Leaves, MayGoOn
  <2>1. CASE stage = "goals"
    <3> DEFINE all == {"requirements", "goals", "config"}
    <3>1. \/ o \in {Failed({}), Failed({"requirements"}), Failed(all), Capped(all)}
          \/ \E r : o = [Passed(all) EXCEPT !.route = r]
      BY <1>2, <2>1 DEF OwnOutcomes, GoalsOutcomes
    <3>2. o.wrote = all
      <4> HIDE DEF all
      <4>1. CASE o \in {Failed({}), Failed({"requirements"})}
        BY <4>1
      <4>2. CASE o \in {Failed(all), Capped(all)}
        BY <4>2
      <4>3. CASE \E r : o = [Passed(all) EXCEPT !.route = r]
        BY <4>3
      <4> QED BY <3>1, <4>1, <4>2, <4>3
    <3> QED BY <2>1, <3>2
  <2>2. CASE stage = "research"
    <3> DEFINE summary == {"researchSummary"}
    <3>1. o \in {Passed(summary), Failed({}), Failed(summary), Capped({}), Capped(summary)}
      BY <1>2, <2>2 DEF OwnOutcomes, ResearchOutcomes
    <3>2. o.wrote = summary \/ o.cap
      <4> HIDE DEF summary
      <4> QED BY <3>1
    <3> QED BY <2>2, <3>2
  <2>3. CASE stage \in {"design", "structure"}
    <3>1. o \in {Passed({stage}), Capped({stage}), Failed({stage})}
      BY <1>2, <2>3 DEF OwnOutcomes, SynthesisOutcomes
    <3>2. o.wrote = {stage}
      BY <3>1
    <3> QED BY <2>3, <3>2
  <2>4. CASE stage = "plan"
    <3> DEFINE all == {"plan", "phaseManifest", "baselineResults"}
               some == {"plan", "phaseManifest"}
    <3>1. o \in {Passed(all), Capped(all), Capped(some)}
      BY <1>2, <2>4 DEF OwnOutcomes, PlanOutcomes
    <3>2. o.wrote = all \/ (o.wrote = some /\ o.cap)
      <4> HIDE DEF all, some
      <4> QED BY <3>1
    <3> QED BY <2>4, <3>2
  <2>5. CASE stage \notin {"goals", "research", "design", "structure", "plan"}
    BY <2>5
  <2> QED BY <2>1, <2>2, <2>3, <2>4, <2>5
<1> QED BY <1>1, <1>2 DEF StageOutcomes

LEMMA OutcomeLoops ==
    ASSUME LoopsLeadBack, NEW stage \in StageName, NEW o \in StageOutcomes(stage)
    PROVE  o.loop # "none" => stage \in Planned
<1>1. CASE o \in OwnOutcomes(stage)
  BY <1>1, OwnOutcomesType DEF PlainOutcome
<1>2. CASE o \in LoopOutcomes(stage)
  BY <1>2 DEF LoopOutcomes, LoopsLeadBack
<1> QED BY <1>1, <1>2 DEF StageOutcomes

(* What is there stays there while a stage runs and is resolved. *)
LEMMA ExecuteKeepsArtifacts ==
    ASSUME ExecuteStage
    PROVE  run' = run /\ softened' = softened /\ artifacts \subseteq artifacts'
BY DEF ExecuteStage, StageSettles, StageHitsCapAutomated, StageHitsCapInteractive,
   OperatorApproves, OperatorRetries, OperatorRejects, StageThrows, ThrowRetried,
   ThrowAborts, Write

LEMMA InputsExecute ==
    ASSUME LoopsLeadBack, InputsInv, ExecuteStage
    PROVE  InputsInv'
<1>1. ReportInv' /\ TInv /\ TInv'
  BY ReportExecute, TypeExecute DEF InputsInv, ReportInv
<1>2. run' = run /\ softened' = softened /\ artifacts \subseteq artifacts'
  BY ExecuteKeepsArtifacts
<1>3. InputsKept'
  BY <1>2 DEF InputsInv, InputsKept, InputsKeptIn
<1>4. OutcomeLeft' /\ LoopFromPlanned'
  <2>1. control = "stage" => run.nextStage \in StageName
    BY <1>1 DEF TInv, HasStage, Running, Terminal
  <2>2. ASSUME NEW o \in StageOutcomes(run.nextStage), control = "stage",
               Write(o.wrote)
        PROVE  /\ o \in Outcome
               /\ MayGoOn(o) => Leaves(run.nextStage, o, artifacts')
               /\ o.loop # "none" => run.nextStage \in Planned
    <3>1. MayGoOn(o) => Leaves(run.nextStage, o, o.wrote)
      BY <2>1, <2>2, OutcomeLeaves
    <3>2. o.wrote \subseteq artifacts'
      BY <2>2 DEF Write
    <3>3. MayGoOn(o) => Leaves(run.nextStage, o, artifacts')
      BY <3>1, <3>2 DEF Leaves
    <3> QED BY <2>1, <2>2, <3>3, OutcomeLoops, StageOutcomesType
  <2>3. \A o \in Outcome :
           LET s == [o EXCEPT !.status = "PARTIAL"]
           IN  s.cap = o.cap /\ s.loop = o.loop
    BY DEF Outcome
  <2> USE DEF OutcomeLeft, LoopFromPlanned
  <2>4. CASE StageSettles
    BY <1>2, <2>2, <2>4 DEF StageSettles, Settle
  <2>5. CASE StageHitsCapAutomated
    <3>1. PICK o \in StageOutcomes(run.nextStage) :
             /\ Escalates(o)
             /\ Write(o.wrote)
             /\ Settle(IF config.policy = "best-effort"
                       THEN [o EXCEPT !.status = "PARTIAL"] ELSE o)
      BY <2>5 DEF StageHitsCapAutomated
    <3>2. o \in Outcome /\ Leaves(run.nextStage, o, artifacts')
          /\ (o.loop # "none" => run.nextStage \in Planned)
      BY <2>2, <2>5, <3>1 DEF StageHitsCapAutomated, Escalates, MayGoOn
    <3>3. control' = "interpret" /\ outcome'.cap = o.cap /\ outcome'.loop = o.loop
      BY <2>3, <3>1, <3>2 DEF Settle
    <3> QED BY <1>2, <3>2, <3>3 DEF Leaves
  <2>6. CASE StageHitsCapInteractive
    <3>1. PICK o \in StageOutcomes(run.nextStage) :
             Escalates(o) /\ Write(o.wrote) /\ outcome' = o
      BY <2>6 DEF StageHitsCapInteractive
    <3> QED BY <1>2, <2>2, <2>6, <3>1 DEF StageHitsCapInteractive, Escalates
  <2>7. CASE OperatorApproves \/ OperatorRejects
    <3>1. outcome \in Outcome /\ control = "gate" /\ outcome.cap
      BY <1>1, <2>7 DEF TInv, TypeOK, OperatorApproves, OperatorRejects, InputsInv
    <3>2. /\ control' = "interpret" /\ artifacts' = artifacts
          /\ outcome'.cap = outcome.cap /\ outcome'.loop = outcome.loop
      BY <2>3, <2>7, <3>1 DEF OperatorApproves, OperatorRejects, Settle
    <3> QED BY <1>2, <3>1, <3>2 DEF InputsInv, MayGoOn, Leaves
  <2>8. CASE OperatorRetries
    BY <2>8 DEF OperatorRetries
  <2>9. CASE ThrowRetried \/ ThrowAborts
    BY <2>9 DEF ThrowRetried, ThrowAborts, StageThrows
  <2> QED BY <2>4, <2>5, <2>6, <2>7, <2>8, <2>9 DEF ExecuteStage
<1> QED BY <1>1, <1>3, <1>4 DEF InputsInv

(* The stages up to plan follow each other; from plan on it is planned.     *)
LEMMA TransitionOrder ==
    ASSUME NEW r \in RunRecord, NEW stage \in StageName, NEW o \in Outcome,
           NEW m \in Nat \ {0}, NEW n, n = ApplyStageTransition(r, stage, o, m)
    PROVE  /\ stage = "goals" => n.nextStage = "research"
           /\ stage = "research" =>
                 n.nextStage = IF r.route = "quick-fix" THEN "plan" ELSE "design"
           /\ stage = "design" => n.nextStage = "structure"
           /\ stage = "structure" => n.nextStage = "plan"
           /\ stage \notin {"goals", "research", "design", "structure"}
                 => n.nextStage \in Planned
<1>1. CASE stage \in {"goals", "research", "design", "structure"}
  BY <1>1 DEF ApplyStageTransition, Advance, CompleteStage, NextStageFor, RunRecord
<1>2. CASE stage \notin {"goals", "research", "design", "structure"}
  BY <1>2, TransitionEffect DEF StageName, Planned
<1> QED BY <1>1, <1>2

(* A backward loop deletes the artifacts of its target and of the stages    *)
(* after it, and no others.                                                 *)
LEMMA BackwardLoopKeepsInputs ==
    ASSUME TInv, BackwardLoop, run.nextStage \in Planned,
           InputsKeptIn(artifacts \cup Archived(BackwardLoopTarget(outcome.loop)))
    PROVE  InputsKept'
<1> DEFINE target == BackwardLoopTarget(outcome.loop)
<1>1. run \in RunRecord /\ outcome \in Outcome
  BY DEF TInv, TypeOK
<1>2. target \in {"goals", "design", "structure", "plan"}
  BY <1>1 DEF BackwardLoop, Loops, BackwardLoopTarget
<1>3. run'.nextStage = target /\ run'.route = run.route /\ softened' = softened
  BY <1>1 DEF BackwardLoop, Continue, SetNextStage, ResetCurrentPhase,
     IncrementBackwardLoops, RunRecord
<1>4. artifacts \ Archived(target) \subseteq artifacts'
  BY DEF BackwardLoop
<1> HIDE DEF target
<1>5. CASE target = "goals"
  BY <1>3, <1>5 DEF InputsKept, InputsKeptIn, Planned
<1>6. CASE target \in {"design", "structure", "plan"}
  <2>1. {"requirements", "goals", "config", "researchSummary"}
           \cap Archived(target) = {}
    BY <1>6 DEF Archived
  <2>2. target # "design" => "design" \notin Archived(target)
    BY <1>6 DEF Archived
  <2>3. target = "plan" => "structure" \notin Archived(target)
    BY DEF Archived
  <2>4. InputsKeptIn(artifacts \cup Archived(target))
    BY DEF target
  <2> QED BY <1>3, <1>4, <1>6, <2>1, <2>2, <2>3, <2>4
          DEF InputsKept, InputsKeptIn, Planned
<1> QED BY <1>2, <1>5, <1>6

LEMMA InputsKeptGrows ==
    ASSUME NEW some, NEW more, some \subseteq more, InputsKeptIn(some)
    PROVE  InputsKeptIn(more)
BY DEF InputsKeptIn

LEMMA InputsInterpret ==
    ASSUME LoopsLeadBack, InputsInv, Interpret
    PROVE  InputsInv'
<1>1. ReportInv' /\ TInv
  BY ReportInterpret DEF InputsInv, ReportInv
<1>2. run \in RunRecord /\ outcome \in Outcome /\ manifest \in Nat \ {0}
  BY <1>1 DEF TInv, TypeOK
<1>3. control = "interpret" /\ control' \notin {"gate", "interpret"}
  BY DEF Interpret, DeferToReplan, BackwardLoopCapped, BackwardLoop, VerifyFix,
     VerifyFixCapped, AcceptFix, AcceptStops, StageFailed, Transition, Stop, Continue
<1>4. OutcomeLeft' /\ LoopFromPlanned'
  BY <1>3 DEF OutcomeLeft, LoopFromPlanned
<1>5. ASSUME Stop PROVE InputsKept'
  BY <1>5 DEF Stop, InputsInv, InputsKept, InputsKeptIn
<1>6. ASSUME BackwardLoop PROVE InputsKept'
  <2>1. run.nextStage \in Planned
    BY <1>2, <1>3, <1>6 DEF BackwardLoop, Loops, InputsInv, LoopFromPlanned
  <2>2. InputsKeptIn(artifacts \cup Archived(BackwardLoopTarget(outcome.loop)))
    BY InputsKeptGrows DEF InputsInv, InputsKept, InputsKeptIn
  <2> QED BY <1>1, <1>6, <2>1, <2>2, BackwardLoopKeepsInputs
<1>7. ASSUME DeferToReplan \/ VerifyFix \/ AcceptFix PROVE InputsKept'
  <2>1. run.nextStage \in Planned
    BY <1>3, <1>7 DEF InputsInv, LoopFromPlanned, DeferToReplan, VerifyFix,
       NeedsVerifyFix, AcceptFix, NeedsAcceptFix, Planned
  <2>2. artifacts' = artifacts /\ softened' = softened
    BY <1>7 DEF DeferToReplan, VerifyFix, AcceptFix
  <2>3. run'.route = run.route /\ run'.nextStage \in {"replan", "implement"}
    BY <1>2, <1>7 DEF DeferToReplan, VerifyFix, AcceptFix, Continue, SetNextStage,
       RouteVerifyFix, RouteAcceptFix, IncrementVerifyFix, IncrementAcceptFix,
       ResetCurrentPhase, CompleteStage, RunRecord
  <2> QED BY <2>1, <2>2, <2>3 DEF InputsInv, InputsKept, InputsKeptIn, Planned
<1>8. ASSUME Transition PROVE InputsKept'
  <2> DEFINE stage == run.nextStage
  <2>1. stage \in StageName
    BY <1>1, <1>3 DEF TInv, HasStage, Running, Terminal
  <2>2. /\ run' = ApplyStageTransition(run, stage, outcome, manifest)
        /\ artifacts' = artifacts
        /\ softened' = IF outcome.cap THEN softened \cup {stage} ELSE softened \ {stage}
    BY <1>8 DEF Transition, Continue
  <2>3. Leaves(stage, outcome, artifacts)
    BY <1>3, <1>8 DEF Transition, InputsInv, OutcomeLeft, MayGoOn
  <2>4. InputsKept
    BY DEF InputsInv
  <2>5. /\ stage # "goals" => run'.route = run.route
        /\ stage = "goals" => run'.nextStage = "research"
        /\ stage = "research" =>
              run'.nextStage = IF run.route = "quick-fix" THEN "plan" ELSE "design"
        /\ stage = "design" => run'.nextStage = "structure"
        /\ stage = "structure" => run'.nextStage = "plan"
        /\ stage \notin {"goals", "research", "design", "structure"}
              => run'.nextStage \in Planned
    BY <1>2, <2>1, <2>2, TransitionEffect, TransitionOrder
  <2> HIDE DEF stage
  <2> USE <2>2, <2>3, <2>4, <2>5 DEF InputsKept, InputsKeptIn, Leaves, Planned
  <2>6. CASE stage = "goals"
    BY <2>6
  <2>7. CASE stage = "research"
    BY <2>7 DEF stage
  <2>8. CASE stage \in {"design", "structure"}
    BY <2>8 DEF stage
  <2>9. CASE stage = "plan"
    BY <2>9 DEF stage
  <2>10. CASE stage \in {"implement", "accept", "replan", "verify", "report"}
    BY <2>10 DEF stage
  <2> QED BY <2>1, <2>6, <2>7, <2>8, <2>9, <2>10 DEF StageName
<1>9. InputsKept'
  BY <1>5, <1>6, <1>7, <1>8
     DEF Interpret, BackwardLoopCapped, VerifyFixCapped, AcceptStops, StageFailed
<1> QED BY <1>1, <1>4, <1>9 DEF InputsInv

LEMMA InputsInit == Init => InputsInv
BY TypeInit DEF Init, StartRun, InputsInv, ReportInv, ReportIsEarned,
   SummaryWritten, InputsKept, InputsKeptIn, OutcomeLeft, LoopFromPlanned, Planned

LEMMA InputsStep ==
    ASSUME LoopsLeadBack, InputsInv, [Next]_vars
    PROVE  InputsInv'
<1>1. CASE ExecuteStage
  BY <1>1, InputsExecute
<1>2. CASE Interpret
  BY <1>2, InputsInterpret
<1>3. CASE UNCHANGED vars
  <2>1. TInv'
    BY <1>3, TypeStep DEF InputsInv, ReportInv
  <2>2. ReportIsEarned' /\ SummaryWritten'
    BY <1>3 DEF vars, InputsInv, ReportInv, ReportIsEarned, SummaryWritten
  <2>3. InputsKept' /\ OutcomeLeft' /\ LoopFromPlanned'
    BY <1>3 DEF vars, InputsInv, InputsKept, InputsKeptIn, OutcomeLeft, LoopFromPlanned
  <2> QED BY <2>1, <2>2, <2>3 DEF InputsInv, ReportInv
<1> QED BY <1>1, <1>2, <1>3 DEF Next, Ended

LEMMA InputsFollow == InputsInv => InputsPresent
<1> SUFFICES ASSUME InputsInv, control = "stage",
                    NEW kind \in StageReads(run.nextStage) \ artifacts
             PROVE  \/ kind = "researchSummary" /\ "research" \in softened
                    \/ kind = "baselineResults" /\ "plan" \in softened
                    \/ kind = "design" /\ run.route = "quick-fix"
  BY DEF InputsPresent
<1>1. run.nextStage \in StageName
  BY DEF InputsInv, ReportInv, TInv, HasStage, Running, Terminal
<1>2. InputsKept /\ (run.nextStage = "report" => "stage9Summary" \in artifacts)
  BY DEF InputsInv, ReportInv, ReportIsEarned
<1> QED BY <1>1, <1>2 DEF StageReads, DesignReads, InputsKept, InputsKeptIn, Planned, StageName

(* A stage finds every artifact it insists on reading, with the three       *)
(* exceptions the property names, through all loops, fixes, softened caps   *)
(* and retries, if only stages that follow the plan ask for backward loops. *)
THEOREM InputsAreThere ==
    ASSUME LoopsLeadBack PROVE Spec => []InputsPresent
<1>1. InputsInv /\ [Next]_vars => InputsInv'
  BY InputsStep
<1> QED BY <1>1, InputsInit, InputsFollow, PTL DEF Spec

-----------------------------------------------------------------------------
(* No artifact of a discarded plan survives its backward loop.              *)

(* NO_LOOP is a value of the port that no stage sends: the loop would count *)
(* it and go back to plan without archiving anything.                       *)
LoopsNameTarget == \A stage \in StageName : "NO_LOOP" \notin Requests[stage]

FreshInv ==
    /\ TInv
    /\ Running => artifacts \cap Downstream(run.nextStage) = {}
    /\ control \in {"gate", "interpret"} => outcome.loop # "NO_LOOP"

(* No stage writes an artifact of a later one. *)
LEMMA OutcomeWrites ==
    ASSUME NEW stage \in StageName, NEW o \in StageOutcomes(stage)
    PROVE  o.wrote \cap Downstream(stage) = {}
<1>1. CASE o \in LoopOutcomes(stage)
  <2>1. PICK c \in Requests[stage],
             w \in IF stage = "replan" THEN {{}, {"plan", "phaseManifest"}} ELSE {{}} :
           o = [Failed(w) EXCEPT !.loop = c]
    BY <1>1 DEF LoopOutcomes
  <2>2. o.wrote = w
    BY <2>1, OutcomeFields
  <2> QED BY <2>1, <2>2 DEF Downstream
<1>2. CASE o \in OwnOutcomes(stage)
  <2> USE <1>2, OutcomeFields DEF OwnOutcomes
  <2>1. CASE stage = "goals"
    <3> DEFINE all == {"requirements", "goals", "config"}
    <3>1. \/ o \in {Failed({}), Failed({"requirements"}), Failed(all), Capped(all)}
          \/ \E r : o = [Passed(all) EXCEPT !.route = r]
      BY <2>1 DEF GoalsOutcomes
    <3>2. o.wrote \in {{}, {"requirements"}, all}
      <4> HIDE DEF all
      <4>1. CASE o \in {Failed({}), Failed({"requirements"}), Failed(all), Capped(all)}
        BY <4>1
      <4>2. CASE \E r : o = [Passed(all) EXCEPT !.route = r]
        BY <4>2
      <4> QED BY <3>1, <4>1, <4>2
    <3> QED BY <2>1, <3>2 DEF Downstream
  <2>2. CASE stage = "research"
    <3>1. o.wrote \subseteq {"researchSummary"}
      BY <2>2 DEF ResearchOutcomes
    <3> QED BY <2>2, <3>1 DEF Downstream
  <2>3. CASE stage \in {"design", "structure"}
    <3>1. o.wrote \subseteq {stage}
      BY <2>3 DEF SynthesisOutcomes
    <3> QED BY <2>3, <3>1 DEF Downstream
  <2>4. CASE stage = "plan"
    <3>1. o.wrote \subseteq {"plan", "phaseManifest", "baselineResults"}
      BY <2>4 DEF PlanOutcomes
    <3> QED BY <2>4, <3>1 DEF Downstream
  <2>5. CASE stage \notin {"goals", "research", "design", "structure", "plan"}
    BY <2>5 DEF Downstream
  <2> QED BY <2>1, <2>2, <2>3, <2>4, <2>5
<1> QED BY <1>1, <1>2 DEF StageOutcomes

LEMMA ThrownWrites ==
    ASSUME NEW stage \in StageName, NEW w \in StageWrites(stage)
    PROVE  w \cap Downstream(stage) = {}
<1>1. CASE stage = "goals"
  BY <1>1 DEF StageWrites, Downstream
<1>2. CASE stage \in {"research", "design", "structure"}
  BY <1>2 DEF StageWrites, Downstream
<1>3. CASE stage = "plan"
  BY <1>3 DEF StageWrites, Downstream
<1>4. CASE stage \notin {"goals", "research", "design", "structure", "plan"}
  BY <1>4 DEF Downstream
<1> QED BY <1>1, <1>2, <1>3, <1>4

LEMMA OutcomeNamesTarget ==
    ASSUME LoopsNameTarget, NEW stage \in StageName, NEW o \in StageOutcomes(stage)
    PROVE  o.loop # "NO_LOOP"
<1>1. CASE o \in OwnOutcomes(stage)
  BY <1>1, OwnOutcomesType DEF PlainOutcome
<1>2. CASE o \in LoopOutcomes(stage)
  <2>1. PICK c \in Requests[stage], w \in {{}, {"plan", "phaseManifest"}} :
           o = [Failed(w) EXCEPT !.loop = c]
    BY <1>2 DEF LoopOutcomes
  <2>2. o.loop = c
    BY <2>1, OutcomeFields
  <2> QED BY <2>1, <2>2 DEF LoopsNameTarget
<1> QED BY <1>1, <1>2 DEF StageOutcomes

LEMMA FreshExecute ==
    ASSUME LoopsNameTarget, FreshInv, ExecuteStage
    PROVE  FreshInv'
<1>1. TInv' /\ TInv /\ run' = run
  BY TypeExecute, ExecuteKeepsArtifacts DEF FreshInv
<1>2. control = "stage" => run.nextStage \in StageName
  BY <1>1 DEF TInv, HasStage, Running, Terminal
<1>3. ASSUME NEW o \in StageOutcomes(run.nextStage), control = "stage", Write(o.wrote)
      PROVE  /\ artifacts' \cap Downstream(run.nextStage) = {}
             /\ o.loop # "NO_LOOP" /\ o \in Outcome
  <2>1. o.wrote \cap Downstream(run.nextStage) = {}
    BY <1>2, <1>3, OutcomeWrites
  <2>2. artifacts \cap Downstream(run.nextStage) = {}
    BY <1>3 DEF FreshInv, Running, Terminal
  <2> QED BY <1>2, <1>3, <2>1, <2>2, OutcomeNamesTarget, StageOutcomesType DEF Write
<1>4. \A o \in Outcome : [o EXCEPT !.status = "PARTIAL"].loop = o.loop
  BY DEF Outcome
<1>5. CASE StageSettles \/ StageHitsCapInteractive
  BY <1>1, <1>3, <1>5 DEF StageSettles, StageHitsCapInteractive, Settle, FreshInv
<1>6. CASE StageHitsCapAutomated
  BY <1>1, <1>3, <1>4, <1>6 DEF StageHitsCapAutomated, Settle, FreshInv
<1>7. CASE OperatorApproves \/ OperatorRejects
  <2>1. outcome \in Outcome /\ control = "gate"
    BY <1>1, <1>7 DEF TInv, TypeOK, OperatorApproves, OperatorRejects
  <2>2. artifacts' = artifacts /\ outcome'.loop = outcome.loop
    BY <1>4, <1>7, <2>1 DEF OperatorApproves, OperatorRejects, Settle
  <2> QED BY <1>1, <2>1, <2>2 DEF FreshInv, Running, Terminal
<1>8. CASE OperatorRetries
  BY <1>1, <1>8 DEF OperatorRetries, FreshInv, Running, Terminal
<1>9. CASE ThrowRetried \/ ThrowAborts
  <2>1. control = "stage"
    BY <1>9 DEF ThrowRetried, ThrowAborts, StageThrows
  <2>2. PICK w : Write(w) /\ w \cap Downstream(run.nextStage) = {}
    BY <1>2, <1>9, <2>1, ThrownWrites DEF ThrowRetried, ThrowAborts, StageThrows
  <2>3. artifacts' \cap Downstream(run.nextStage) = {}
    BY <2>1, <2>2 DEF Write, FreshInv, Running, Terminal
  <2> QED BY <1>1, <1>9, <2>1, <2>3 DEF ThrowRetried, ThrowAborts, FreshInv
<1> QED BY <1>5, <1>6, <1>7, <1>8, <1>9 DEF ExecuteStage

LEMMA ArchivedCoversDownstream ==
    ASSUME NEW target \in {"goals", "design", "structure", "plan"}
    PROVE  Downstream(target) \subseteq Archived(target)
<1>1. CASE target = "goals"
  BY <1>1 DEF Downstream, Archived
<1>2. CASE target \in {"design", "structure", "plan"}
  BY <1>2 DEF Downstream, Archived
<1> QED BY <1>1, <1>2

(* What follows the next stage follows this one. *)
LEMMA DownstreamShrinks ==
    /\ Downstream("research") \subseteq Downstream("goals")
    /\ \A stage \in {"design", "plan"} : Downstream(stage) \subseteq Downstream("research")
    /\ Downstream("structure") \subseteq Downstream("design")
    /\ Downstream("plan") \subseteq Downstream("structure")
BY DEF Downstream

LEMMA FreshInterpret ==
    ASSUME FreshInv, Interpret
    PROVE  FreshInv'
<1>1. TInv' /\ run \in RunRecord /\ outcome \in Outcome /\ manifest \in Nat \ {0}
  BY TypeInterpret DEF FreshInv, TInv, TypeOK
<1>2. control = "interpret" /\ control' \notin {"gate", "interpret"}
  BY DEF Interpret, DeferToReplan, BackwardLoopCapped, BackwardLoop, VerifyFix,
     VerifyFixCapped, AcceptFix, AcceptStops, StageFailed, Transition, Stop, Continue
<1>3. artifacts \cap Downstream(run.nextStage) = {} /\ outcome.loop # "NO_LOOP"
      /\ run.nextStage \in StageName
  BY <1>2 DEF FreshInv, TInv, HasStage, Running, Terminal
<1>4. ASSUME Stop PROVE FreshInv'
  BY <1>1, <1>2, <1>4 DEF Stop, FreshInv, Running, Terminal
<1>5. ASSUME BackwardLoop PROVE artifacts' \cap Downstream(run'.nextStage) = {}
  <2> DEFINE target == BackwardLoopTarget(outcome.loop)
  <2>1. target \in {"goals", "design", "structure", "plan"}
    BY <1>1, <1>5 DEF BackwardLoop, Loops, BackwardLoopTarget
  <2>2. run'.nextStage = target /\ artifacts' = artifacts \ Archived(target)
    BY <1>1, <1>3, <1>5 DEF BackwardLoop, Continue, SetNextStage, ResetCurrentPhase,
       IncrementBackwardLoops, RunRecord
  <2> HIDE DEF target
  <2> QED BY <2>1, <2>2, ArchivedCoversDownstream
<1>6. ASSUME DeferToReplan \/ VerifyFix \/ AcceptFix
      PROVE  artifacts' \cap Downstream(run'.nextStage) = {}
  <2>1. run'.nextStage \in {"replan", "implement"}
    BY <1>1, <1>6 DEF DeferToReplan, VerifyFix, AcceptFix, Continue, SetNextStage,
       RouteVerifyFix, RouteAcceptFix, IncrementVerifyFix, IncrementAcceptFix,
       ResetCurrentPhase, CompleteStage, RunRecord
  <2> QED BY <2>1 DEF Downstream
<1>7. ASSUME Transition PROVE artifacts' \cap Downstream(run'.nextStage) = {}
  <2>1. artifacts' = artifacts
        /\ run' = ApplyStageTransition(run, run.nextStage, outcome, manifest)
    BY <1>7 DEF Transition, Continue
  <2>2. CASE run.nextStage \in {"goals", "research", "design", "structure"}
    BY <1>1, <1>3, <2>1, <2>2, TransitionOrder, DownstreamShrinks
  <2>3. CASE run.nextStage \notin {"goals", "research", "design", "structure"}
    <3>1. run'.nextStage \in Planned
      BY <1>1, <1>3, <2>1, <2>3, TransitionOrder
    <3> QED BY <3>1 DEF Planned, Downstream
  <2> QED BY <2>2, <2>3
<1> QED BY <1>1, <1>2, <1>4, <1>5, <1>6, <1>7
        DEF FreshInv, Interpret, BackwardLoopCapped, VerifyFixCapped, AcceptStops, StageFailed

(* A planning stage never starts beside artifacts of the stages after it:   *)
(* what a backward loop discards it also deletes.                           *)
THEOREM NothingStale ==
    ASSUME LoopsNameTarget PROVE Spec => []NoStaleDownstream
<1>1. Init => FreshInv
  BY TypeInit DEF Init, FreshInv
<1>2. FreshInv /\ [Next]_vars => FreshInv'
  <2> SUFFICES ASSUME FreshInv, [Next]_vars PROVE FreshInv'
    OBVIOUS
  <2>1. CASE ExecuteStage
    BY <2>1, FreshExecute
  <2>2. CASE Interpret
    BY <2>2, FreshInterpret
  <2>3. CASE UNCHANGED vars
    <3>1. TInv'
      BY <2>3, TypeStep DEF FreshInv
    <3> QED BY <2>3, <3>1 DEF vars, FreshInv, Running
  <2> QED BY <2>1, <2>2, <2>3 DEF Next, Ended
<1>3. FreshInv => NoStaleDownstream
  BY DEF FreshInv, NoStaleDownstream, Running, Terminal
<1> QED BY <1>1, <1>2, <1>3, PTL DEF Spec

-----------------------------------------------------------------------------
(* The way to the end. *)

LEMMA CloserIntro ==
    ASSUME NEW d, NEW e, NEW i \in 1 .. 9, d[i] < e[i],
           \A j \in 1 .. (i - 1) : d[j] = e[j]
    PROVE  Closer(d, e)
BY DEF Closer

(* While the run stays as it is, the loop body moves on. *)
LEMMA SameRunCloser ==
    ASSUME run' = run,
           \/ ControlLeft' < ControlLeft
           \/ control' = control /\ 1 - retries' < 1 - retries
    PROVE  Closer(Distance', Distance)
<1>1. \A j \in 1 .. 7 : Distance'[j] = Distance[j]
  BY DEF Distance, PlanningLeft, PhasesLeft, PhasePartLeft
<1>2. CASE ControlLeft' < ControlLeft
  <2>1. Distance'[8] < Distance[8]
    BY <1>2 DEF Distance
  <2> QED BY <1>1, <2>1 DEF Closer
<1>3. CASE control' = control /\ 1 - retries' < 1 - retries
  <2>1. Distance'[8] = Distance[8] /\ Distance'[9] < Distance[9]
    BY <1>3 DEF Distance, ControlLeft
  <2> QED BY <1>1, <2>1 DEF Closer
<1> QED BY <1>2, <1>3

LEMMA ExecuteCloser ==
    ASSUME TInv, ExecuteStage, ~OperatorRetries
    PROVE  Closer(Distance', Distance)
<1>1. run' = run
  BY ExecuteKeepsArtifacts
<1>2. CASE ThrowRetried
  <2>1. control' = control /\ retries = 0 /\ retries' = 1
    BY <1>2 DEF ThrowRetried
  <2> QED BY <1>1, <2>1, SameRunCloser
<1>3. CASE ~ThrowRetried
  <2>1. \/ control = "stage" /\ control' \in {"gate", "interpret", "aborted"}
        \/ control = "gate" /\ control' = "interpret"
    BY <1>3 DEF ExecuteStage, StageSettles, StageHitsCapAutomated, StageThrows,
       StageHitsCapInteractive, OperatorApproves, OperatorRejects, ThrowAborts, Settle
  <2>2. ControlLeft' < ControlLeft
    BY <2>1 DEF ControlLeft
  <2> QED BY <1>1, <2>2, SameRunCloser
<1> QED BY <1>2, <1>3

(* The parts of the distance of a run. *)
LEMMA DistanceParts ==
    /\ Distance[1] = MaxBackwardLoops - run.backwardLoops
    /\ Distance[2] = PlanningLeft(run.nextStage)
    /\ Distance[3] = MaxVerifyFix - run.verifyFixAttempts
    /\ Distance[4] = PhasesLeft
    /\ Distance[5] = PhasePartLeft(run.nextStage)
    /\ Distance[6] = MaxAcceptFix - run.acceptFixAttempts
    /\ Distance[7] = IF run.nextStage \in {"implement", "report"} THEN 1 ELSE 0
BY DEF Distance

LEMMA DistancePartsNext ==
    /\ Distance'[1] = MaxBackwardLoops - run'.backwardLoops
    /\ Distance'[2] = PlanningLeft(run'.nextStage)
    /\ Distance'[3] = MaxVerifyFix - run'.verifyFixAttempts
    /\ Distance'[4] = PhasesLeft'
    /\ Distance'[5] = PhasePartLeft(run'.nextStage)
    /\ Distance'[6] = MaxAcceptFix - run'.acceptFixAttempts
    /\ Distance'[7] = IF run'.nextStage \in {"implement", "report"} THEN 1 ELSE 0
BY DEF Distance, PlanningLeft, PhasePartLeft

LEMMA BackwardLoopCloser ==
    ASSUME TInv, BackwardLoop
    PROVE  Closer(Distance', Distance)
<1>1. run \in RunRecord /\ ~IsBackwardLoopCapHit(run)
  BY DEF TInv, TypeOK, BackwardLoop
<1>2. run'.backwardLoops = run.backwardLoops + 1
  BY <1>1 DEF BackwardLoop, Continue, SetNextStage, ResetCurrentPhase,
     IncrementBackwardLoops, RunRecord
<1>3. Distance'[1] < Distance[1]
  BY <1>1, <1>2, CapsAssumption, DistanceParts, DistancePartsNext DEF RunRecord
<1> QED BY <1>3, CloserIntro

LEMMA VerifyFixCloser ==
    ASSUME TInv, VerifyFix
    PROVE  Closer(Distance', Distance)
<1>1. run \in RunRecord /\ run.nextStage = "verify"
  BY DEF TInv, TypeOK, VerifyFix, NeedsVerifyFix
<1>2. /\ run'.backwardLoops = run.backwardLoops
      /\ run'.nextStage = "implement"
      /\ run'.verifyFixAttempts = run.verifyFixAttempts + 1
  BY <1>1 DEF VerifyFix, Continue, RouteVerifyFix, IncrementVerifyFix,
     ResetCurrentPhase, CompleteStage, RunRecord
<1>3. Distance'[1] = Distance[1] /\ Distance'[2] = Distance[2]
  BY <1>1, <1>2, DistanceParts, DistancePartsNext DEF PlanningLeft
<1>4. Distance'[3] < Distance[3]
  BY <1>1, <1>2, CapsAssumption, DistanceParts, DistancePartsNext DEF RunRecord
<1> QED BY <1>3, <1>4 DEF Closer

LEMMA AcceptFixCloser ==
    ASSUME TInv, AcceptFix
    PROVE  Closer(Distance', Distance)
<1>1. run \in RunRecord /\ run.nextStage = "accept"
  BY DEF TInv, TypeOK, AcceptFix, NeedsAcceptFix
<1>2. /\ run'.backwardLoops = run.backwardLoops
      /\ run'.nextStage = "implement"
      /\ run'.verifyFixAttempts = run.verifyFixAttempts
      /\ run'.totalPhases = run.totalPhases
      /\ run'.currentPhase = run.currentPhase
      /\ run'.acceptFixAttempts = run.acceptFixAttempts + 1
  BY <1>1 DEF AcceptFix, Continue, RouteAcceptFix, IncrementAcceptFix, CompleteStage,
     RunRecord
<1>3. \A j \in 1 .. 5 : Distance'[j] = Distance[j]
  BY <1>1, <1>2, DistanceParts, DistancePartsNext
     DEF PlanningLeft, PhasesLeft, PhasePartLeft
<1>4. Distance'[6] < Distance[6]
  BY <1>1, <1>2, CapsAssumption, DistanceParts, DistancePartsNext DEF RunRecord
<1> QED BY <1>3, <1>4 DEF Closer

LEMMA TransitionCloser ==
    ASSUME TInv, Transition, ~(run'.totalPhases > run.totalPhases)
    PROVE  Closer(Distance', Distance)
<1> DEFINE stage == run.nextStage
<1>1. /\ run \in RunRecord /\ outcome \in Outcome /\ manifest \in Nat \ {0}
      /\ stage \in StageName
      /\ run' = ApplyStageTransition(run, stage, outcome, manifest)
      /\ stage = "verify" => outcome.status = "PASS"
  BY DEF TInv, TypeOK, HasStage, Running, Terminal, Transition, NeedsVerifyFix, Continue
<1>2. /\ run'.backwardLoops = run.backwardLoops
      /\ stage # "verify" => run'.verifyFixAttempts = run.verifyFixAttempts
      /\ stage # "accept" => run'.acceptFixAttempts = run.acceptFixAttempts
  BY <1>1, TransitionBudgets
<1>3. Distance'[1] = Distance[1]
  BY <1>2, DistanceParts, DistancePartsNext
<1>4. CASE stage \in {"goals", "research", "design", "structure"}
  <2>1. PlanningLeft(run'.nextStage) < PlanningLeft(stage)
    BY <1>1, <1>4, TransitionOrder DEF PlanningLeft
  <2> QED BY <1>3, <2>1, DistanceParts, DistancePartsNext DEF Closer
<1>5. CASE stage = "plan"
  <2>1. run'.nextStage = "implement"
    BY <1>1, <1>5, TransitionEffect
  <2>2. PlanningLeft(run'.nextStage) < PlanningLeft(stage)
    BY <1>5, <2>1 DEF PlanningLeft
  <2> QED BY <1>3, <2>2, DistanceParts, DistancePartsNext DEF Closer
<1>6. CASE stage = "implement"
  <2>1. run'.nextStage = "accept" /\ run'.totalPhases = run.totalPhases
        /\ run'.currentPhase = run.currentPhase
    BY <1>1, <1>6, TransitionEffect
  <2>2. \A j \in 1 .. 6 : Distance'[j] = Distance[j]
    BY <1>2, <1>6, <2>1, DistanceParts, DistancePartsNext
       DEF PlanningLeft, PhasesLeft, PhasePartLeft
  <2>3. Distance'[7] < Distance[7]
    BY <1>6, <2>1, DistanceParts, DistancePartsNext
  <2> QED BY <2>2, <2>3 DEF Closer
<1>7. CASE stage = "accept"
  <2>1. run'.nextStage \in {"verify", "replan"} /\ run'.totalPhases = run.totalPhases
        /\ run'.currentPhase = run.currentPhase
    BY <1>1, <1>7, TransitionEffect
  <2>2. \A j \in 1 .. 4 : Distance'[j] = Distance[j]
    BY <1>2, <1>7, <2>1, DistanceParts, DistancePartsNext DEF PlanningLeft, PhasesLeft
  <2>3. Distance'[5] < Distance[5]
    BY <1>7, <2>1, DistanceParts, DistancePartsNext DEF PhasePartLeft
  <2> QED BY <2>2, <2>3 DEF Closer
<1>8. CASE stage = "replan"
  <2>1. /\ run'.nextStage = "implement"
        /\ run'.totalPhases >= run.currentPhase + 1
        /\ run'.currentPhase = run.currentPhase + 1
    BY <1>1, <1>8, TransitionEffect
  <2>2. run.totalPhases >= run'.totalPhases /\ run.currentPhase \in Nat
        /\ run.totalPhases \in Nat /\ run'.totalPhases \in Nat
    BY <1>1, StageTransitionType DEF RunRecord
  <2>3. PhasesLeft' < PhasesLeft
    BY <2>1, <2>2 DEF PhasesLeft
  <2>4. \A j \in 1 .. 3 : Distance'[j] = Distance[j]
    BY <1>2, <1>8, <2>1, DistanceParts, DistancePartsNext DEF PlanningLeft
  <2> QED BY <2>3, <2>4, DistanceParts, DistancePartsNext DEF Closer
<1>9. CASE stage = "verify"
  <2>1. run'.nextStage = "report"
    BY <1>1, <1>9, TransitionEffect
  <2>2. PlanningLeft(run'.nextStage) < PlanningLeft(stage)
    BY <1>9, <2>1 DEF PlanningLeft
  <2> QED BY <1>3, <2>2, DistanceParts, DistancePartsNext DEF Closer
<1>10. CASE stage = "report"
  <2>1. run'.nextStage = "done" /\ run'.totalPhases = run.totalPhases
        /\ run'.currentPhase = run.currentPhase
    BY <1>1, <1>10, TransitionEffect
  <2>2. \A j \in 1 .. 6 : Distance'[j] = Distance[j]
    BY <1>2, <1>10, <2>1, DistanceParts, DistancePartsNext
       DEF PlanningLeft, PhasesLeft, PhasePartLeft
  <2>3. Distance'[7] < Distance[7]
    BY <1>10, <2>1, DistanceParts, DistancePartsNext
  <2> QED BY <2>2, <2>3 DEF Closer
<1> QED BY <1>1, <1>4, <1>5, <1>6, <1>7, <1>8, <1>9, <1>10 DEF StageName

LEMMA InterpretCloser ==
    ASSUME TInv, Interpret, ~DeferToReplan, ~(run'.totalPhases > run.totalPhases)
    PROVE  Closer(Distance', Distance)
<1>1. ASSUME Stop PROVE Closer(Distance', Distance)
  <2>1. run' = run /\ control = "interpret" /\ control' = "stopped"
    BY <1>1 DEF Stop
  <2>2. ControlLeft' < ControlLeft
    BY <2>1 DEF ControlLeft
  <2> QED BY <2>1, <2>2, SameRunCloser
<1> QED BY <1>1, BackwardLoopCloser, VerifyFixCloser, AcceptFixCloser, TransitionCloser
        DEF Interpret, BackwardLoopCapped, VerifyFixCapped, AcceptStops, StageFailed

(* Every step but an operator's retry, a deferral and a transition that     *)
(* adds phases brings the run closer to its end, in a lexicographic order   *)
(* of nine parts: no cycle of loops, fixes, resets and retries is left.     *)
THEOREM StepsAdvance == Spec => EveryStepAdvances
<1> DEFINE A == \/ OperatorRetries
                \/ DeferToReplan
                \/ run'.totalPhases > run.totalPhases
                \/ Closer(Distance', Distance)
<1>1. TInv /\ [Next]_vars => [A]_vars
  BY ExecuteCloser, InterpretCloser DEF Next, Ended
<1>2. TInv /\ [Next]_vars => TInv'
  BY TypeStep
<1> HIDE DEF A
<1>3. Spec => [][A]_vars
  BY <1>1, <1>2, TypeInit, PTL DEF Spec
<1> QED BY <1>3 DEF A, EveryStepAdvances

HIDE DEF NextStage

-----------------------------------------------------------------------------
(* Restarts.                                                               *)

(* No crash hits a save; a crash anywhere else leaves the state file whole. *)
SavesSurvive == TornSaves = FALSE

(* Only the stages of the phases and verify ask for backward loops or       *)
(* deferrals; implement and replan do.                                      *)
LoopsFromPhases ==
    \A stage \in StageName \ {"implement", "accept", "replan", "verify"} :
        Requests[stage] = {}

LEMMA LoopsFromPhasesLeadBack == LoopsFromPhases => LoopsLeadBack
BY DEF LoopsFromPhases, LoopsLeadBack, Planned

-----------------------------------------------------------------------------
(* The state file.                                                          *)

(* The file is torn exactly while it is written, and otherwise holds what   *)
(* the loop holds; an archiving goes on until its loop is decided.          *)
FileInv ==
    /\ (stateFile = Torn) <=> (io = "saving")
    /\ stateFile # Torn => stateFile = run
    /\ io \in {"none", "archiving", "saving"}
    /\ io = "archiving" => Archiving

(* A loop is asked for by a stage of the phases, or by verify. *)
LoopFromPhase ==
    control \in {"gate", "interpret"} /\ outcome.loop # "none"
        => run.nextStage \in {"implement", "accept", "replan", "verify"}

LoopInv == PhaseInv /\ ReportInv /\ LoopFromPhase

LEMMA TornIsNoRun == Torn \notin RunRecord
BY DEF Torn, RunRecord, Route

LEMMA StageIsExecuted == StageReturns \/ StageBreaks => ExecuteStage
BY DEF StageReturns, StageBreaks, ExecuteStage

LEMMA InterpretFromInterpret ==
    ASSUME Interpret
    PROVE  control = "interpret" /\ control' \notin {"gate", "interpret"}
BY DEF Interpret, DeferToReplan, BackwardLoopCapped, BackwardLoop, VerifyFix,
   VerifyFixCapped, AcceptFix, AcceptStops, StageFailed, Transition, Stop, Continue

LEMMA LoopFromPhaseExecute ==
    ASSUME LoopsFromPhases, TInv, LoopFromPhase, ExecuteStage
    PROVE  LoopFromPhase'
<1>1. run' = run /\ outcome \in Outcome
  BY ExecuteKeepsArtifacts DEF TInv, TypeOK
<1>2. control = "stage" => run.nextStage \in StageName
  BY DEF TInv, HasStage, Running, Terminal
<1>3. ASSUME NEW o \in StageOutcomes(run.nextStage), control = "stage"
      PROVE  /\ o \in Outcome
             /\ o.loop # "none" =>
                   run.nextStage \in {"implement", "accept", "replan", "verify"}
  <2>1. o \in Outcome
    BY <1>2, <1>3, StageOutcomesType
  <2>2. CASE o \in OwnOutcomes(run.nextStage)
    BY <1>2, <1>3, <2>1, <2>2, OwnOutcomesType DEF PlainOutcome
  <2>3. CASE o \in LoopOutcomes(run.nextStage)
    BY <1>2, <1>3, <2>1, <2>3 DEF LoopOutcomes, LoopsFromPhases
  <2> QED BY <2>1, <2>2, <2>3 DEF StageOutcomes
<1>4. \A o \in Outcome : [o EXCEPT !.status = "PARTIAL"].loop = o.loop
  BY DEF Outcome
<1> USE DEF LoopFromPhase
<1>5. CASE StageSettles \/ StageHitsCapInteractive
  BY <1>1, <1>3, <1>5 DEF StageSettles, StageHitsCapInteractive, Settle
<1>6. CASE StageHitsCapAutomated
  BY <1>1, <1>3, <1>4, <1>6 DEF StageHitsCapAutomated, Settle
<1>7. CASE OperatorApproves \/ OperatorRejects
  BY <1>1, <1>4, <1>7 DEF OperatorApproves, OperatorRejects, Settle
<1>8. CASE OperatorRetries \/ ThrowRetried \/ ThrowAborts
  BY <1>8 DEF OperatorRetries, ThrowRetried, ThrowAborts, StageThrows
<1> QED BY <1>5, <1>6, <1>7, <1>8 DEF ExecuteStage

LEMMA ExecuteKeepsLoopInv ==
    ASSUME LoopsFromPhases, LoopInv, ExecuteStage PROVE LoopInv'
BY PhaseExecute, ReportExecute, LoopFromPhaseExecute DEF LoopInv, PhaseInv

LEMMA InterpretKeepsLoopInv ==
    ASSUME LoopInv, Interpret PROVE LoopInv'
BY PhaseInterpret, ReportInterpret, InterpretFromInterpret DEF LoopInv, LoopFromPhase

(* Phases and types do not see what an archiving deletes, and the report's  *)
(* stage asks for no loop.                                                  *)
LEMMA ArchiveKeepsLoopInv ==
    ASSUME LoopInv, ArchiveArtifact \/ ArchivePhase PROVE LoopInv'
<1>1. /\ UNCHANGED <<config, run, control, outcome, retries, closed, softened>>
      /\ artifacts' \subseteq artifacts /\ manifest' \in {1, manifest}
  BY DEF ArchiveArtifact, ArchivePhase, vars
<1>2. run.nextStage \in {"implement", "accept", "replan", "verify"}
      /\ outcome.loop # "none"
  BY DEF ArchiveArtifact, ArchivePhase, Archiving, Loops, LoopInv, LoopFromPhase
<1>3. TInv'
  BY <1>1 DEF LoopInv, PhaseInv, TInv, TypeOK, HasStage, Running
<1>4. PhaseFacts'
  BY <1>1 DEF LoopInv, PhaseInv, PhaseFacts, PlanningStartsOver, PhasesInOrder,
     AllPhasesClosed, PhasesCounted, EarlierClosed
<1>5. ReportIsEarned' /\ SummaryWritten' /\ LoopFromPhase'
  BY <1>1, <1>2 DEF ReportIsEarned, SummaryWritten, LoopFromPhase
<1> QED BY <1>3, <1>4, <1>5 DEF LoopInv, PhaseInv, ReportInv

(* A crash between two stages, and the resume of the saved run. *)
LEMMA RestartKeepsLoopInv ==
    ASSUME LoopInv, FileInv, SavesSurvive, Crash \/ Resume PROVE LoopInv'
<1>1. /\ UNCHANGED <<run, artifacts, manifest, closed, softened>>
      /\ config' \in Config /\ retries' \in {0, 1} /\ outcome' \in Outcome
      /\ control' \in Control \ {"gate", "interpret"}
      /\ control' \notin Terminal => run.nextStage # "done"
  <2>1. config \in Config /\ retries \in {0, 1} /\ outcome \in Outcome
    BY DEF LoopInv, PhaseInv, TInv, TypeOK
  <2>2. CASE Crash
    BY <2>1, <2>2 DEF Crash, Control, Terminal
  <2>3. CASE Resume
    <3>1. stateFile = run
      BY <2>3 DEF Resume, FileInv
    <3>2. Passed({}) \in Outcome
      BY OutcomeForms DEF PlainOutcome
    <3>3. Restart(run, config.task) /\ closed' = closed
      BY <2>3, <3>1 DEF Resume, LoadState
    <3> QED BY <2>1, <3>2, <3>3 DEF Restart, Config, Control, Terminal
  <2> QED BY <2>2, <2>3
<1>2. run.nextStage \in StageName \cup {"done"}
  BY DEF LoopInv, PhaseInv, TInv, TypeOK, RunRecord, NextStage
<1>3. TInv'
  BY <1>1, <1>2 DEF LoopInv, PhaseInv, TInv, TypeOK, HasStage, Running
<1>4. PhaseFacts'
  BY <1>1 DEF LoopInv, PhaseInv, PhaseFacts, PlanningStartsOver, PhasesInOrder,
     AllPhasesClosed, PhasesCounted, EarlierClosed
<1>5. ReportIsEarned' /\ SummaryWritten' /\ LoopFromPhase'
  BY <1>1 DEF LoopInv, ReportInv, ReportIsEarned, SummaryWritten, LoopFromPhase
<1> QED BY <1>3, <1>4, <1>5 DEF LoopInv, PhaseInv, ReportInv

(* While the saves survive, nothing is ever inferred. *)
LEMMA NothingInferred ==
    ASSUME FileInv PROVE ~ResumeInferred /\ ~StartAfresh
BY DEF FileInv, ResumeInferred, StartAfresh, Restart

LEMMA LoopInvInit == RecoveryInit => LoopInv
<1> SUFFICES ASSUME RecoveryInit PROVE LoopInv
  OBVIOUS
<1>1. Init
  BY DEF RecoveryInit
<1>2. run.nextStage = "goals" /\ control = "stage"
  BY <1>1 DEF Init, StartRun
<1> QED BY <1>1, <1>2, PhaseInit, TypeInit
        DEF LoopInv, ReportInv, ReportIsEarned, SummaryWritten, LoopFromPhase

LEMMA LoopInvStep ==
    ASSUME LoopsFromPhases, SavesSurvive, LoopInv, FileInv, [RecoveryNext]_rvars
    PROVE  LoopInv'
<1>1. CASE StageReturns \/ StageBreaks
  BY <1>1, StageIsExecuted, ExecuteKeepsLoopInv
<1>2. CASE ArchiveArtifact \/ ArchivePhase
  BY <1>2, ArchiveKeepsLoopInv
<1>3. CASE Decide
  BY <1>3, InterpretKeepsLoopInv DEF Decide
<1>4. CASE Crash \/ Resume
  BY <1>4, RestartKeepsLoopInv
<1>5. CASE Saved \/ Over \/ UNCHANGED rvars
  <2>1. UNCHANGED vars
    BY <1>5 DEF Saved, Over, rvars
  <2>2. PhaseInv'
    BY <2>1, PhaseStep DEF LoopInv
  <2> QED BY <2>1, <2>2 DEF vars, LoopInv, PhaseInv, ReportInv, ReportIsEarned,
             SummaryWritten, LoopFromPhase
<1> QED BY <1>1, <1>2, <1>3, <1>4, <1>5, NothingInferred DEF RecoveryNext

LEMMA FileInvInit == RecoveryInit => FileInv
BY DEF RecoveryInit, FileInv

LEMMA FileInvStep ==
    ASSUME SavesSurvive, LoopInv, FileInv, [RecoveryNext]_rvars
    PROVE  FileInv'
<1>0. run \in RunRecord /\ run # Torn
  BY TornIsNoRun DEF LoopInv, PhaseInv, TInv, TypeOK
<1> USE DEF FileInv
<1>1. CASE StageReturns \/ StageBreaks
  <2>1. run' = run /\ io = "none" /\ io' = io /\ stateFile' = stateFile
    BY <1>1, StageIsExecuted, ExecuteKeepsArtifacts DEF StageReturns, StageBreaks
  <2> QED BY <2>1
<1>2. CASE ArchiveArtifact \/ ArchivePhase
  <2>1. /\ UNCHANGED <<run, control, outcome, stateFile>>
        /\ Archiving /\ io' = "archiving" /\ io # "saving"
    BY <1>2 DEF ArchiveArtifact, ArchivePhase, BeginsOrGoesOn, vars
  <2>2. Archiving'
    BY <2>1 DEF Archiving, Loops, IsBackwardLoopCapHit
  <2> QED BY <2>1, <2>2
<1>3. CASE Decide
  BY <1>3 DEF Decide
<1>4. CASE Saved
  BY <1>0, <1>4 DEF Saved, vars
<1>5. CASE Crash
  BY <1>5 DEF Crash, SavesSurvive, durable
<1>6. CASE Resume
  BY <1>6 DEF Resume, Restart
<1>7. CASE Over \/ UNCHANGED rvars
  BY <1>7 DEF Over, rvars, vars, durable, Archiving, Loops
<1> QED BY <1>1, <1>2, <1>3, <1>4, <1>5, <1>6, <1>7, NothingInferred DEF RecoveryNext

-----------------------------------------------------------------------------
(* No loop is forgotten.                                                    *)

CountInv ==
    /\ loopsTaken \in Nat
    /\ interrupted \in 0 .. loopsTaken
    /\ io = "archiving" => interrupted < loopsTaken
    /\ LoopsCounted

(* A decision takes no loop back, and that of an archiving counts its own. *)
LEMMA DecisionCounts ==
    ASSUME TInv, Interpret
    PROVE  /\ run.backwardLoops \in Nat /\ run'.backwardLoops \in Nat
           /\ run'.backwardLoops >= run.backwardLoops
           /\ Archiving => BackwardLoop /\ run'.backwardLoops = run.backwardLoops + 1
<1>1. run \in RunRecord /\ run' \in RunRecord /\ outcome \in Outcome
      /\ manifest \in Nat \ {0} /\ run.nextStage \in StageName
  BY TypeInterpret, InterpretFromInterpret
     DEF TInv, TypeOK, HasStage, Running, Terminal
<1>2. run.backwardLoops \in Nat /\ run'.backwardLoops \in Nat
  BY <1>1 DEF RunRecord
<1>3. Archiving => BackwardLoop
  BY DEF Archiving, Interpret, DeferToReplan, BackwardLoopCapped, Loops, VerifyFix,
     VerifyFixCapped, NeedsVerifyFix, AcceptFix, AcceptStops, NeedsAcceptFix,
     StageFailed, Transition
<1>4. BackwardLoop => run'.backwardLoops = run.backwardLoops + 1
  BY <1>1 DEF BackwardLoop, Continue, SetNextStage, ResetCurrentPhase,
     IncrementBackwardLoops, RunRecord
<1>5. DeferToReplan \/ VerifyFix \/ AcceptFix => run'.backwardLoops = run.backwardLoops
  BY <1>1 DEF DeferToReplan, VerifyFix, AcceptFix, Continue, SetNextStage,
     RouteVerifyFix, RouteAcceptFix, IncrementVerifyFix, IncrementAcceptFix,
     ResetCurrentPhase, CompleteStage, RunRecord
<1>6. Transition => run'.backwardLoops = run.backwardLoops
  BY <1>1, TransitionBudgets DEF Transition, Continue
<1>7. Stop => run'.backwardLoops = run.backwardLoops
  BY DEF Stop
<1> QED BY <1>2, <1>3, <1>4, <1>5, <1>6, <1>7
        DEF Interpret, BackwardLoopCapped, VerifyFixCapped, AcceptStops, StageFailed

LEMMA CountInit == RecoveryInit => CountInv
<1> SUFFICES ASSUME RecoveryInit PROVE CountInv
  OBVIOUS
<1>1. run.backwardLoops = 0
  BY DEF RecoveryInit, Init, StartRun
<1> QED BY <1>1 DEF RecoveryInit, CountInv, LoopsCounted

LEMMA CountStep ==
    ASSUME SavesSurvive, LoopInv, FileInv, CountInv, [RecoveryNext]_rvars
    PROVE  CountInv'
<1>0. TInv /\ run.backwardLoops \in Nat
  BY DEF LoopInv, PhaseInv, TInv, TypeOK, RunRecord
<1> USE DEF CountInv, LoopsCounted
<1>1. CASE StageReturns \/ StageBreaks
  <2>1. run' = run /\ UNCHANGED <<io, loopsTaken, interrupted>>
    BY <1>1, StageIsExecuted, ExecuteKeepsArtifacts
       DEF StageReturns, StageBreaks, history
  <2> QED BY <2>1
<1>2. CASE ArchiveArtifact \/ ArchivePhase
  <2>1. run' = run /\ BeginsOrGoesOn
    BY <1>2 DEF ArchiveArtifact, ArchivePhase, vars
  <2> QED BY <1>0, <2>1 DEF BeginsOrGoesOn
<1>3. CASE Decide
  <2>1. Interpret /\ io \in {"none", "archiving"} /\ io' = "saving"
        /\ UNCHANGED <<loopsTaken, interrupted>>
    BY <1>3 DEF Decide, history
  <2>2. io = "archiving" => Archiving
    BY DEF FileInv
  <2> QED BY <1>0, <2>1, <2>2, DecisionCounts
<1>4. CASE Saved
  BY <1>4 DEF Saved, vars, history
<1>5. CASE Crash
  BY <1>0, <1>5 DEF Crash, SavesSurvive
<1>6. CASE Resume
  <2>1. stateFile = run
    BY <1>6 DEF Resume, FileInv
  <2>2. run' = run /\ io = "none" /\ io' = "saving"
        /\ UNCHANGED <<loopsTaken, interrupted>>
    BY <1>6, <2>1 DEF Resume, Restart, LoadState
  <2> QED BY <2>2
<1>7. CASE Over \/ UNCHANGED rvars
  BY <1>7 DEF Over, rvars, vars, history
<1> QED BY <1>1, <1>2, <1>3, <1>4, <1>5, <1>6, <1>7, NothingInferred DEF RecoveryNext

(* A restart forgets no backward loop but those a crash interrupted: over   *)
(* the whole life of a run, whatever the number of restarts.                *)
THEOREM RestartsCountLoops ==
    ASSUME SavesSurvive, LoopsFromPhases PROVE RecoverySpec => []LoopsCounted
<1> DEFINE I == LoopInv /\ FileInv /\ CountInv
<1>1. RecoveryInit => I
  BY LoopInvInit, FileInvInit, CountInit
<1>2. I /\ [RecoveryNext]_rvars => I'
  BY LoopInvStep, FileInvStep, CountStep
<1>3. I => LoopsCounted
  BY DEF CountInv
<1> HIDE DEF I
<1> QED BY <1>1, <1>2, <1>3, PTL DEF RecoverySpec

-----------------------------------------------------------------------------
(* What resume looks at has its types; a marker lies in a phase directory.  *)

SummaryInv ==
    /\ restarts \in 0 .. MaxRestarts
    /\ phaseDirs \in Nat
    /\ markers \subseteq PhaseStage \X (1 .. phaseDirs)
    /\ configRoute \in Route
    /\ verdict \in VerifyStatus \cup {"none"}

LEMMA MarkersFit ==
    ASSUME NEW dirs \in Nat, phaseDirs \in Nat, dirs >= phaseDirs,
           markers \subseteq PhaseStage \X (1 .. phaseDirs),
           run \in RunRecord, run.nextStage \in PhaseStage
    PROVE  /\ markers \subseteq PhaseStage \X (1 .. dirs)
           /\ dirs >= run.currentPhase =>
                 markers \cup {Marker} \subseteq PhaseStage \X (1 .. dirs)
<1>1. 1 .. phaseDirs \subseteq 1 .. dirs
  OBVIOUS
<1>2. markers \subseteq PhaseStage \X (1 .. dirs)
  BY <1>1
<1>3. run.currentPhase \in Nat \ {0}
  BY DEF RunRecord
<1>4. dirs >= run.currentPhase => Marker \in PhaseStage \X (1 .. dirs)
  BY <1>3 DEF Marker
<1> QED BY <1>2, <1>4

LEMMA PhaseDirsGrow ==
    ASSUME phaseDirs \in Nat, manifest' \in Nat, run \in RunRecord,
           NEW wrote, NEW dirs \in PhaseDirsAfter(wrote)
    PROVE  /\ dirs \in Nat /\ dirs >= phaseDirs
           /\ \/ run.nextStage \in {"implement", "accept"}
              \/ run.nextStage = "replan" /\ wrote # {}
              => dirs >= run.currentPhase
<1>1. run.currentPhase \in Nat
  BY DEF RunRecord
<1>2. \A m, n \in Nat : LargerOf(m, n) \in Nat /\ LargerOf(m, n) >= m /\ LargerOf(m, n) >= n
  BY DEF LargerOf
<1>3. CASE run.nextStage = "plan"
  BY <1>2, <1>3 DEF PhaseDirsAfter
<1>4. CASE run.nextStage \in {"implement", "accept"}
  BY <1>1, <1>2, <1>4 DEF PhaseDirsAfter
<1>5. CASE run.nextStage = "replan"
  BY <1>1, <1>2, <1>5 DEF PhaseDirsAfter
<1>6. CASE run.nextStage \notin {"plan", "implement", "accept", "replan"}
  BY <1>6 DEF PhaseDirsAfter
<1> QED BY <1>3, <1>4, <1>5, <1>6

LEMMA ReturnsKeepsSummaries ==
    ASSUME TInv, SummaryInv, StageReturns PROVE SummaryInv'
<1>1. TInv /\ TInv' /\ run \in RunRecord /\ manifest' \in Nat
  BY StageIsExecuted, TypeExecute DEF TInv, TypeOK
<1>2. /\ markers' \in MarkersAfter(outcome')
      /\ configRoute' \in ConfigRoutesAfter(outcome'.wrote)
      /\ verdict' \in VerdictsAfter(outcome'.wrote)
      /\ phaseDirs' \in PhaseDirsAfter(outcome'.wrote)
      /\ restarts' = restarts
  BY DEF StageReturns
<1>3. configRoute' \in Route /\ verdict' \in VerifyStatus \cup {"none"}
  BY <1>2 DEF ConfigRoutesAfter, VerdictsAfter, SummaryInv, Route
<1>4. /\ phaseDirs' \in Nat /\ phaseDirs' >= phaseDirs
      /\ \/ run.nextStage \in {"implement", "accept"}
         \/ run.nextStage = "replan" /\ outcome'.wrote # {}
         => phaseDirs' >= run.currentPhase
  BY <1>1, <1>2, PhaseDirsGrow DEF SummaryInv
<1>5. markers' \subseteq PhaseStage \X (1 .. phaseDirs')
  <2>1. CASE run.nextStage \in PhaseStage
    <3>1. \/ markers' \subseteq markers
          \/ markers' \subseteq markers \cup {Marker} /\ phaseDirs' >= run.currentPhase
      BY <1>2, <1>4, <2>1 DEF MarkersAfter, PhaseStage
    <3> QED BY <1>1, <1>4, <2>1, <3>1, MarkersFit DEF SummaryInv
  <2>2. CASE run.nextStage \notin PhaseStage
    <3>1. markers' = markers
      BY <1>2, <2>2 DEF MarkersAfter, PhaseStage
    <3>2. 1 .. phaseDirs \subseteq 1 .. phaseDirs'
      BY <1>4 DEF SummaryInv
    <3> QED BY <3>1, <3>2 DEF SummaryInv
  <2> QED BY <2>1, <2>2
<1> QED BY <1>2, <1>3, <1>4, <1>5 DEF SummaryInv

(* A broken replan has read the plan it was to rewrite, so a marker of its  *)
(* phase has its directory.                                                 *)
LEMMA BreaksKeepsSummaries ==
    ASSUME TInv, SummaryInv, StageBreaks PROVE SummaryInv'
<1> DEFINE wrote == artifacts' \cap UNION StageWrites(run.nextStage)
<1>1. TInv /\ TInv' /\ run \in RunRecord /\ manifest' \in Nat /\ restarts' = restarts
      /\ artifacts \subseteq artifacts'
  BY StageIsExecuted, TypeExecute, ExecuteKeepsArtifacts
     DEF TInv, TypeOK, StageBreaks
<1>2. CASE ~InputsReadable
  BY <1>1, <1>2 DEF StageBreaks, SummaryInv
<1>3. CASE InputsReadable
  <2>1. /\ markers' \in MarkersBroken
        /\ configRoute' \in {configRoute} \cup ConfigRoutesAfter(wrote)
        /\ verdict' \in {verdict} \cup VerdictsAfter(wrote)
        /\ phaseDirs' \in IF Marker \in markers' THEN PhaseDirsAfter(wrote)
                          ELSE {phaseDirs} \cup PhaseDirsAfter(wrote)
    BY <1>3 DEF StageBreaks
  <2>2. run.nextStage = "replan" => wrote # {}
    <3> SUFFICES ASSUME run.nextStage = "replan" PROVE "plan" \in wrote
      OBVIOUS
    <3>1. "plan" \in StageReads("replan")
      BY DEF StageReads
    <3>2. {"plan"} \in StageWrites("replan")
      BY DEF StageWrites
    <3> QED BY <1>1, <1>3, <3>1, <3>2 DEF InputsReadable
  <2> HIDE DEF wrote
  <2>3. configRoute' \in Route /\ verdict' \in VerifyStatus \cup {"none"}
    BY <2>1 DEF ConfigRoutesAfter, VerdictsAfter, SummaryInv, Route
  <2>4. /\ phaseDirs' \in Nat /\ phaseDirs' >= phaseDirs
        /\ Marker \in markers' /\ run.nextStage \in PhaseStage
              => phaseDirs' >= run.currentPhase
    BY <1>1, <2>1, <2>2, PhaseDirsGrow DEF SummaryInv, PhaseStage
  <2>5. markers' \subseteq PhaseStage \X (1 .. phaseDirs')
    <3>1. CASE run.nextStage \in PhaseStage
      <4>1. markers' \subseteq markers \cup {Marker}
        BY <2>1, <3>1 DEF MarkersBroken
      <4>2. CASE Marker \in markers'
        BY <1>1, <2>4, <3>1, <4>1, <4>2, MarkersFit DEF SummaryInv
      <4>3. CASE Marker \notin markers'
        BY <1>1, <2>4, <3>1, <4>1, <4>3, MarkersFit DEF SummaryInv
      <4> QED BY <4>2, <4>3
    <3>2. CASE run.nextStage \notin PhaseStage
      <4>1. markers' = markers
        BY <2>1, <3>2 DEF MarkersBroken
      <4>2. 1 .. phaseDirs \subseteq 1 .. phaseDirs'
        BY <2>4 DEF SummaryInv
      <4> QED BY <4>1, <4>2 DEF SummaryInv
    <3> QED BY <3>1, <3>2
  <2> QED BY <1>1, <2>3, <2>4, <2>5 DEF SummaryInv
<1> QED BY <1>2, <1>3

LEMMA SummaryInit == RecoveryInit => SummaryInv
BY RecoveryAssumption DEF RecoveryInit, SummaryInv, Route

LEMMA SummaryStep ==
    ASSUME TInv, SummaryInv, [RecoveryNext]_rvars
    PROVE  SummaryInv'
<1>1. CASE StageReturns
  BY <1>1, ReturnsKeepsSummaries
<1>2. CASE StageBreaks
  BY <1>2, BreaksKeepsSummaries
<1>3. CASE ArchiveArtifact
  BY <1>3 DEF ArchiveArtifact, SummaryInv
<1>4. CASE ArchivePhase
  BY <1>4 DEF ArchivePhase, SummaryInv
<1>5. CASE Decide \/ Saved \/ Crash \/ Over \/ UNCHANGED rvars
  BY <1>5 DEF Decide, Saved, Crash, Over, rvars, durable, SummaryInv
<1>6. CASE Resume \/ ResumeInferred \/ StartAfresh
  <2>1. restarts' = restarts + 1 /\ restarts < MaxRestarts
        /\ UNCHANGED <<markers, phaseDirs, configRoute, verdict>>
    BY <1>6 DEF Resume, ResumeInferred, StartAfresh, Restart
  <2> QED BY <2>1, RecoveryAssumption DEF SummaryInv
<1> QED BY <1>1, <1>2, <1>3, <1>4, <1>5, <1>6 DEF RecoveryNext

LEMMA OrderFollows ==
    LoopInv /\ FileInv /\ CountInv /\ SummaryInv => RestartsKeepOrder
BY DEF LoopInv, PhaseInv, TInv, PhaseFacts, ReportInv, FileInv, CountInv, SummaryInv,
   RestartsKeepOrder, RecoveryTypeOK, PhaseDiscipline, TypeOK

(* However often a run is stopped, crashes and is resumed from its state    *)
(* file: the file is what the loop held, phases stay in order, and the      *)
(* report is earned.                                                        *)
THEOREM RestartsKeepTheOrder ==
    ASSUME SavesSurvive, LoopsFromPhases PROVE RecoverySpec => []RestartsKeepOrder
<1> DEFINE I == LoopInv /\ FileInv /\ CountInv /\ SummaryInv
<1>1. RecoveryInit => I
  BY LoopInvInit, FileInvInit, CountInit, SummaryInit
<1>2. I /\ [RecoveryNext]_rvars => I'
  BY LoopInvStep, FileInvStep, CountStep, SummaryStep DEF LoopInv, PhaseInv
<1>3. I => RestartsKeepOrder
  BY OrderFollows
<1> HIDE DEF I
<1> QED BY <1>1, <1>2, <1>3, PTL DEF RecoverySpec

-----------------------------------------------------------------------------
(* What the stages read.                                                    *)

(* While an archiving is under way, all but what it deletes is kept. *)
ArchivingKeeps ==
    InputsKeptIn(artifacts \cup Archived(BackwardLoopTarget(outcome.loop)))

RestartInputs ==
    interrupted = 0 =>
        IF io = "archiving" THEN ArchivingKeeps ELSE InputsInv

LEMMA RestartInputsArchive ==
    ASSUME FileInv, CountInv, RestartInputs, ArchiveArtifact \/ ArchivePhase
    PROVE  RestartInputs'
<1>1. /\ UNCHANGED <<run, outcome, softened, interrupted>>
      /\ io \in {"none", "archiving"} /\ io' = "archiving"
      /\ artifacts \subseteq artifacts' \cup Archived(BackwardLoopTarget(outcome.loop))
  BY DEF ArchiveArtifact, ArchivePhase, BeginsOrGoesOn, ToArchive, vars
<1>2. SUFFICES ASSUME interrupted = 0 PROVE ArchivingKeeps'
  BY <1>1 DEF RestartInputs
<1> DEFINE gone == Archived(BackwardLoopTarget(outcome.loop))
<1>3. ArchivingKeeps
  <2>1. CASE io = "archiving"
    BY <1>2, <2>1 DEF RestartInputs
  <2>2. CASE io = "none"
    <3>1. InputsKeptIn(artifacts)
      BY <1>2, <2>2 DEF RestartInputs, InputsInv, InputsKept
    <3> QED BY <3>1, InputsKeptGrows DEF ArchivingKeeps
  <2> QED BY <1>1, <2>1, <2>2
<1>4. InputsKeptIn(artifacts' \cup gone)
  <2>1. artifacts \cup gone \subseteq artifacts' \cup gone
    BY <1>1
  <2> HIDE DEF gone
  <2>2. InputsKeptIn(artifacts \cup gone)
    BY <1>3 DEF ArchivingKeeps, gone
  <2> QED BY <2>1, <2>2, InputsKeptGrows
<1> QED BY <1>1, <1>4 DEF ArchivingKeeps, InputsKeptIn, Archived, BackwardLoopTarget

LEMMA RestartInputsDecide ==
    ASSUME LoopsFromPhases, LoopInv, FileInv, RestartInputs, Decide
    PROVE  RestartInputs'
<1>1. Interpret /\ io \in {"none", "archiving"} /\ io' = "saving"
      /\ interrupted' = interrupted
  BY DEF Decide, history
<1>2. SUFFICES ASSUME interrupted = 0 PROVE InputsInv'
  BY <1>1 DEF RestartInputs
<1>3. CASE io = "none"
  BY <1>1, <1>2, <1>3, InputsInterpret, LoopsFromPhasesLeadBack DEF RestartInputs
<1>4. CASE io = "archiving"
  <2>1. TInv /\ ReportInv' /\ Archiving
    BY <1>1, <1>4, InterpretKeepsLoopInv DEF LoopInv, PhaseInv, FileInv
  <2>2. BackwardLoop
    BY <1>1, <2>1, DecisionCounts
  <2>3. run.nextStage \in Planned
    BY <2>1 DEF LoopInv, LoopFromPhase, Archiving, Loops, Planned
  <2>4. InputsKept'
    BY <1>2, <1>4, <2>1, <2>2, <2>3, BackwardLoopKeepsInputs
       DEF RestartInputs, ArchivingKeeps
  <2>5. OutcomeLeft' /\ LoopFromPlanned'
    BY <1>1, InterpretFromInterpret DEF OutcomeLeft, LoopFromPlanned
  <2> QED BY <2>1, <2>4, <2>5 DEF InputsInv
<1> QED BY <1>1, <1>3, <1>4

LEMMA RestartInputsInit == RecoveryInit => RestartInputs
BY InputsInit DEF RecoveryInit, RestartInputs

LEMMA RestartInputsStep ==
    ASSUME LoopsFromPhases, SavesSurvive, LoopInv, FileInv, CountInv, RestartInputs,
           [RecoveryNext]_rvars
    PROVE  RestartInputs'
<1>1. CASE StageReturns \/ StageBreaks
  <2>1. io = "none" /\ io' = io /\ interrupted' = interrupted
    BY <1>1 DEF StageReturns, StageBreaks, history
  <2> QED BY <1>1, <2>1, StageIsExecuted, InputsExecute, LoopsFromPhasesLeadBack
          DEF RestartInputs
<1>2. CASE ArchiveArtifact \/ ArchivePhase
  BY <1>2, RestartInputsArchive
<1>3. CASE Decide
  BY <1>3, RestartInputsDecide
<1>4. CASE Crash \/ Resume
  <2>1. CASE io = "archiving"
    BY <1>4, <2>1 DEF Crash, Resume, Restart, RestartInputs, CountInv
  <2>2. CASE io # "archiving"
    <3>1. LoopInv'
      BY <1>4, RestartKeepsLoopInv
    <3>2. stateFile = run \/ Crash
      BY <1>4 DEF Resume, FileInv
    <3>3. /\ UNCHANGED <<run, artifacts, softened>>
          /\ control' \notin {"gate", "interpret"}
          /\ io' # "archiving" /\ interrupted' = interrupted
      BY <1>4, <2>2, <3>2
         DEF Crash, Resume, Restart, LoadState
    <3>4. InputsInv => InputsInv'
      BY <3>1, <3>3 DEF LoopInv, InputsInv, InputsKept, InputsKeptIn, OutcomeLeft,
         LoopFromPlanned
    <3> QED BY <2>2, <3>3, <3>4 DEF RestartInputs
  <2> QED BY <2>1, <2>2
<1>5. CASE Saved
  <2>1. UNCHANGED vars /\ io = "saving" /\ io' = "none" /\ interrupted' = interrupted
    BY <1>5 DEF Saved, history
  <2>2. InputsInv => InputsInv'
    BY <2>1, InputsStep, LoopsFromPhasesLeadBack
  <2> QED BY <2>1, <2>2 DEF RestartInputs
<1>6. CASE Over \/ UNCHANGED rvars
  <2>1. UNCHANGED vars /\ io' = io /\ interrupted' = interrupted
    BY <1>6 DEF Over, rvars, history
  <2>2. InputsInv => InputsInv'
    BY <2>1, InputsStep, LoopsFromPhasesLeadBack
  <2>3. ArchivingKeeps => ArchivingKeeps'
    BY <2>1 DEF vars, ArchivingKeeps, InputsKeptIn
  <2> QED BY <2>1, <2>2, <2>3 DEF RestartInputs
<1> QED BY <1>1, <1>2, <1>3, <1>4, <1>5, <1>6, NothingInferred DEF RecoveryNext

LEMMA RestartInputsFollow ==
    LoopInv /\ FileInv /\ CountInv /\ RestartInputs => RestartsKeepInputs
<1> SUFFICES ASSUME LoopInv, FileInv, CountInv, RestartInputs, interrupted = 0
             PROVE  InputsPresent
  BY DEF RestartsKeepInputs, CountInv
<1>1. CASE io = "archiving"
  BY <1>1 DEF FileInv, Archiving, InputsPresent
<1>2. CASE io # "archiving"
  BY <1>2, InputsFollow DEF RestartInputs
<1> QED BY <1>1, <1>2

(* After any number of restarts a stage finds its inputs, with the          *)
(* exceptions of InputsPresent, unless a crash interrupted an archiving.    *)
THEOREM RestartsKeepTheInputs ==
    ASSUME SavesSurvive, LoopsFromPhases PROVE RecoverySpec => []RestartsKeepInputs
<1> DEFINE I == LoopInv /\ FileInv /\ CountInv /\ RestartInputs
<1>1. RecoveryInit => I
  BY LoopInvInit, FileInvInit, CountInit, RestartInputsInit
<1>2. I /\ [RecoveryNext]_rvars => I'
  BY LoopInvStep, FileInvStep, CountStep, RestartInputsStep
<1>3. I => RestartsKeepInputs
  BY RestartInputsFollow
<1> HIDE DEF I
<1> QED BY <1>1, <1>2, <1>3, PTL DEF RecoverySpec

-----------------------------------------------------------------------------
(* What inference can know.                                                 *)

(* Every loop that is asked for names the stage it goes back to.  The port  *)
(* also admits a loop without target and a deferral, which no stage sends.  *)
LoopsArchive ==
    \A stage \in StageName : Requests[stage] \cap {"NO_LOOP", "DEFER_REPLAN"} = {}

(* The order of the stages; those of the phases share a place, and have     *)
(* parts in it.                                                             *)
Place(stage) ==
    CASE stage = "goals" -> 1     [] stage = "research" -> 2
      [] stage = "design" -> 3    [] stage = "structure" -> 4
      [] stage = "plan" -> 5      [] stage = "verify" -> 7
      [] stage = "report" -> 8    [] stage = "done" -> 9
      [] OTHER -> 6

Part(stage) == CASE stage = "implement" -> 1 [] stage = "accept" -> 2 [] OTHER -> 3

(* The run has come this far by neither restart nor backward loop. *)
Straight == restarts = 0 /\ loopsTaken = 0

(* The next stage was decided on and not begun. *)
Fresh == stateFile = Torn /\ outcome.status = "PASS"

(* A stage that has left its mark is behind, or is the one under way. *)
Behind(n) == n < Place(run.nextStage) \/ (n = Place(run.nextStage) /\ ~Fresh)

KindsBehind ==
    /\ "goals" \in artifacts => Behind(1)
    /\ "researchSummary" \in artifacts => Behind(2)
    /\ "design" \in artifacts => Behind(3)
    /\ "structure" \in artifacts => Behind(4)
    /\ "plan" \in artifacts => Behind(5)
    /\ verdict # "none" => Behind(7) \/ run.verifyFixAttempts > 0
    /\ "stage10Summary" \in artifacts => Behind(8)

(* The last part of the current phase that may have left its marker; while  *)
(* an acceptance is repaired its marker may be there.                       *)
LastPart ==
    IF run.acceptFixAttempts > 0 THEN 2
    ELSE Part(run.nextStage) - (IF Fresh THEN 1 ELSE 0)

MarkersBehind ==
    \A m \in markers :
        /\ Place(run.nextStage) >= 6
        /\ run.nextStage \in PhaseStage /\ run.verifyFixAttempts = 0 =>
              m[2] < run.currentPhase \/ (m[2] = run.currentPhase /\ Part(m[1]) <= LastPart)

WayFacts ==
    /\ run.route = "unknown" <=> run.nextStage = "goals"
    /\ run.route = "quick-fix" =>
          run.nextStage \notin {"design", "structure", "replan"} /\ run.currentPhase = 1
    /\ run.nextStage = "replan" =>
          run.acceptFixAttempts = 0 /\ run.currentPhase < run.totalPhases

LoopFails ==
    control = "interpret" /\ outcome.loop # "none" =>
        outcome.status = "FAIL" /\ outcome.loop \notin {"NO_LOOP", "DEFER_REPLAN"}

SavingFacts ==
    /\ io \in {"none", "saving"}
    /\ stateFile = Torn => io = "saving" \/ control = "aborted"

StraightInv ==
    /\ LoopInv /\ InputsInv /\ SummaryInv
    /\ SavingFacts /\ LoopFails /\ KindsBehind /\ MarkersBehind /\ WayFacts

AheadInv ==
    /\ restarts \in Nat /\ loopsTaken \in Nat
    /\ Straight => StraightInv

-----------------------------------------------------------------------------
(* A stage leaves only marks of its own. *)

MarksOf(stage, kind) ==
    /\ kind = "goals" => stage = "goals"
    /\ kind = "researchSummary" => stage = "research"
    /\ kind \in {"design", "structure"} => stage = kind
    /\ kind = "plan" => stage \in {"plan", "replan"}
    /\ kind = "stage9Summary" => stage = "verify"
    /\ kind = "stage10Summary" => stage = "report"

LEMMA LoopOutcomeFails ==
    ASSUME LoopsArchive, NEW stage \in StageName, NEW o \in StageOutcomes(stage)
    PROVE  o.loop # "none" => /\ o.status = "FAIL" /\ ~o.cap
                              /\ o.loop \notin {"NO_LOOP", "DEFER_REPLAN"}
<1>1. CASE o \in OwnOutcomes(stage)
  BY <1>1, OwnOutcomesType DEF PlainOutcome
<1>2. CASE o \in LoopOutcomes(stage)
  <2>1. PICK c \in Requests[stage], w \in {{}, {"plan", "phaseManifest"}} :
           o = [Failed(w) EXCEPT !.loop = c]
    BY <1>2 DEF LoopOutcomes
  <2>2. o.loop = c /\ o.status = "FAIL" /\ ~o.cap
    BY <2>1, OutcomeFields
  <2> QED BY <2>1, <2>2 DEF LoopsArchive
<1> QED BY <1>1, <1>2 DEF StageOutcomes

LEMMA OutcomeMarks ==
    ASSUME NEW stage \in StageName, NEW o \in StageOutcomes(stage), NEW kind \in o.wrote
    PROVE  MarksOf(stage, kind)
<1>0. o.wrote \cap Downstream(stage) = {}
  BY OutcomeWrites
<1>1. CASE o \in LoopOutcomes(stage)
  <2>1. PICK c \in Requests[stage],
             w \in IF stage = "replan" THEN {{}, {"plan", "phaseManifest"}} ELSE {{}} :
           o = [Failed(w) EXCEPT !.loop = c]
    BY <1>1 DEF LoopOutcomes
  <2>2. o.wrote = w
    BY <2>1, OutcomeFields
  <2> QED BY <2>1, <2>2 DEF MarksOf
<1>2. CASE o \in OwnOutcomes(stage)
  <2> USE <1>2, OutcomeFields DEF OwnOutcomes
  <2>1. CASE stage = "goals"
    <3>1. o.wrote \subseteq {"requirements", "goals", "config"}
      <4> DEFINE all == {"requirements", "goals", "config"}
      <4>1. \/ o \in {Failed({}), Failed({"requirements"}), Failed(all), Capped(all)}
            \/ \E r : o = [Passed(all) EXCEPT !.route = r]
        BY <2>1 DEF GoalsOutcomes
      <4>2. o.wrote \in {{}, {"requirements"}, all}
        <5> HIDE DEF all
        <5>1. CASE o \in {Failed({}), Failed({"requirements"}), Failed(all), Capped(all)}
          BY <5>1
        <5>2. CASE \E r : o = [Passed(all) EXCEPT !.route = r]
          BY <5>2
        <5> QED BY <4>1, <5>1, <5>2
      <4> QED BY <4>2
    <3> QED BY <2>1, <3>1 DEF MarksOf
  <2>2. CASE stage = "research"
    <3>1. o.wrote \subseteq {"researchSummary"}
      BY <2>2 DEF ResearchOutcomes
    <3> QED BY <2>2, <3>1 DEF MarksOf
  <2>3. CASE stage \in {"design", "structure"}
    <3>1. o.wrote \subseteq {stage}
      BY <2>3 DEF SynthesisOutcomes
    <3> QED BY <2>3, <3>1 DEF MarksOf
  <2>4. CASE stage = "plan"
    <3>1. o.wrote \subseteq {"plan", "phaseManifest", "baselineResults"}
      BY <2>4 DEF PlanOutcomes
    <3> QED BY <2>4, <3>1 DEF MarksOf
  <2>5. CASE stage = "implement"
    <3>1. o.wrote \subseteq {}
      BY <2>5 DEF ImplementOutcomes
    <3> QED BY <3>1
  <2>6. CASE stage = "accept"
    <3> DEFINE changed == [Failed({}) EXCEPT !.boundary = TRUE]
    <3>1. changed.wrote = {}
      BY DEF Failed, Passed
    <3>2. o \in {Passed({}), Failed({}), Capped({}), changed}
      BY <2>6 DEF AcceptOutcomes
    <3> HIDE DEF changed
    <3>3. o.wrote = {}
      BY <3>1, <3>2
    <3> QED BY <3>3
  <2>7. CASE stage = "replan"
    <3>1. o.wrote \subseteq {"plan", "phaseManifest"}
      BY <2>7 DEF ReplanOutcomes
    <3> QED BY <2>7, <3>1 DEF MarksOf
  <2>8. CASE stage = "verify"
    <3>1. o.wrote \subseteq {"stage9Summary"}
      BY <2>8 DEF VerifyOutcomes
    <3> QED BY <2>8, <3>1 DEF MarksOf
  <2>9. CASE stage = "report"
    <3>1. o.wrote \subseteq {"stage10Summary"}
      BY <2>9
    <3> QED BY <2>9, <3>1 DEF MarksOf
  <2> QED BY <2>1, <2>2, <2>3, <2>4, <2>5, <2>6, <2>7, <2>8, <2>9 DEF StageName
<1> QED BY <1>1, <1>2 DEF StageOutcomes

LEMMA ThrownMarks ==
    ASSUME NEW stage \in StageName, NEW w \in StageWrites(stage), NEW kind \in w
    PROVE  MarksOf(stage, kind)
<1>1. CASE stage \in {"goals", "plan", "replan"}
  BY <1>1 DEF StageWrites, MarksOf
<1>2. CASE stage \in {"research", "design", "structure", "verify", "report"}
  BY <1>2 DEF StageWrites, MarksOf
<1>3. CASE stage \in {"implement", "accept"}
  BY <1>3 DEF StageWrites
<1> QED BY <1>1, <1>2, <1>3 DEF StageName

LEMMA StageEffect ==
    ASSUME LoopsArchive, TInv, StageReturns \/ StageBreaks
    PROVE  /\ run.nextStage \in StageName /\ control = "stage" /\ io = "none"
           /\ UNCHANGED <<run, io, stateFile, restarts, loopsTaken>>
           /\ control' \in {"stage", "interpret", "aborted"}
           /\ artifacts \subseteq artifacts'
           /\ \A kind \in artifacts' \ artifacts : MarksOf(run.nextStage, kind)
           /\ verdict' # verdict => run.nextStage = "verify"
           /\ \/ markers' \subseteq markers
              \/ run.nextStage \in PhaseStage /\ markers' \subseteq markers \cup {Marker}
           /\ LoopFails'
<1>1. /\ run.nextStage \in StageName /\ control = "stage" /\ io = "none"
      /\ UNCHANGED <<run, io, stateFile, restarts, loopsTaken>>
      /\ artifacts \subseteq artifacts'
  <2>1. control = "stage"
    BY DEF StageReturns, StageBreaks, StageSettles, StageHitsCapAutomated, ThrowRetried,
       ThrowAborts, StageThrows
  <2>2. run.nextStage \in StageName
    BY <2>1 DEF TInv, HasStage, Running, Terminal
  <2>3. run' = run /\ artifacts \subseteq artifacts'
    BY StageIsExecuted, ExecuteKeepsArtifacts
  <2> QED BY <2>1, <2>2, <2>3 DEF StageReturns, StageBreaks, history
<1>2. CASE StageReturns
  <2>1. PICK o \in StageOutcomes(run.nextStage) :
           /\ Write(o.wrote) /\ control' = "interpret"
           /\ \/ outcome' = o
              \/ Escalates(o) /\ outcome' = [o EXCEPT !.status = "PARTIAL"]
    <3>1. CASE StageSettles
      BY <3>1 DEF StageSettles, Settle
    <3>2. CASE StageHitsCapAutomated
      BY <3>2 DEF StageHitsCapAutomated, Settle
    <3> QED BY <1>2, <3>1, <3>2 DEF StageReturns
  <2>2. o \in Outcome
    BY <1>1, StageOutcomesType
  <2>3. outcome'.wrote = o.wrote /\ outcome'.loop = o.loop
    BY <2>1, <2>2 DEF Outcome
  <2>4. \A kind \in o.wrote : MarksOf(run.nextStage, kind)
    BY <1>1, OutcomeMarks
  <2>5. \A kind \in artifacts' \ artifacts : MarksOf(run.nextStage, kind)
    BY <2>1, <2>4 DEF Write
  <2>6. verdict' # verdict => run.nextStage = "verify"
    <3>1. verdict' \in VerdictsAfter(o.wrote)
      BY <1>2, <2>3 DEF StageReturns
    <3> QED BY <2>4, <3>1 DEF VerdictsAfter, MarksOf
  <2>7. \/ markers' \subseteq markers
        \/ run.nextStage \in PhaseStage /\ markers' \subseteq markers \cup {Marker}
    BY <1>2 DEF StageReturns, MarkersAfter, PhaseStage
  <2>8. LoopFails'
    <3>1. o.loop # "none" => /\ o.status = "FAIL" /\ ~o.cap
                             /\ o.loop \notin {"NO_LOOP", "DEFER_REPLAN"}
      BY <1>1, LoopOutcomeFails
    <3> QED BY <2>1, <2>3, <3>1 DEF LoopFails, Escalates
  <2> QED BY <1>1, <2>1, <2>5, <2>6, <2>7, <2>8
<1>3. CASE StageBreaks
  <2>1. /\ control' \in {"stage", "aborted"}
        /\ \E w \in IF InputsReadable THEN StageWrites(run.nextStage) ELSE {{}} : Write(w)
    BY <1>1, <1>3 DEF StageBreaks, ThrowRetried, ThrowAborts, StageThrows
  <2>2. \A kind \in artifacts' \ artifacts : MarksOf(run.nextStage, kind)
    BY <1>1, <2>1, ThrownMarks DEF Write
  <2>3. verdict' # verdict => run.nextStage = "verify"
    <3> SUFFICES ASSUME verdict' # verdict PROVE run.nextStage = "verify"
      OBVIOUS
    <3>1. verdict' \in VerdictsAfter(artifacts' \cap UNION StageWrites(run.nextStage))
      BY <1>3 DEF StageBreaks
    <3>2. "stage9Summary" \in UNION StageWrites(run.nextStage)
      BY <3>1 DEF VerdictsAfter
    <3> QED BY <1>1, <3>2, ThrownMarks DEF MarksOf
  <2>4. \/ markers' \subseteq markers
        \/ run.nextStage \in PhaseStage /\ markers' \subseteq markers \cup {Marker}
    BY <1>3 DEF StageBreaks, MarkersBroken
  <2>5. LoopFails'
    BY <2>1 DEF LoopFails
  <2> QED BY <1>1, <2>1, <2>2, <2>3, <2>4, <2>5
<1> QED BY <1>2, <1>3

LEMMA PlaceType ==
    ASSUME NEW stage PROVE Place(stage) \in 1 .. 9
BY DEF Place

LEMMA StageKeepsStraight ==
    ASSUME LoopsFromPhases, LoopsArchive, StraightInv, StageReturns \/ StageBreaks
    PROVE  StraightInv'
<1>1. LoopInv' /\ InputsInv' /\ SummaryInv'
  <2>1. ExecuteStage
    BY StageIsExecuted
  <2>2. SummaryInv'
    BY ReturnsKeepsSummaries, BreaksKeepsSummaries DEF StraightInv, LoopInv, PhaseInv
  <2> QED BY <2>1, <2>2, ExecuteKeepsLoopInv, InputsExecute, LoopsFromPhasesLeadBack
          DEF StraightInv
<1>2. TInv /\ run \in RunRecord
  BY DEF StraightInv, LoopInv, PhaseInv, TInv, TypeOK
<1>3. /\ run.nextStage \in StageName /\ control = "stage" /\ io = "none"
      /\ UNCHANGED <<run, io, stateFile>>
      /\ control' \in {"stage", "interpret", "aborted"}
      /\ artifacts \subseteq artifacts'
      /\ \A kind \in artifacts' \ artifacts : MarksOf(run.nextStage, kind)
      /\ verdict' # verdict => run.nextStage = "verify"
      /\ \/ markers' \subseteq markers
         \/ run.nextStage \in PhaseStage /\ markers' \subseteq markers \cup {Marker}
      /\ LoopFails'
  BY <1>2, StageEffect
<1>4. stateFile # Torn /\ stateFile' # Torn
  BY <1>3 DEF StraightInv, SavingFacts
<1>5. SavingFacts' /\ WayFacts'
  BY <1>3, <1>4 DEF StraightInv, SavingFacts, WayFacts
<1>6. KindsBehind'
  <2> DEFINE place == Place(run.nextStage)
  <2>0. place \in 1 .. 9
    BY PlaceType
  <2>1. ASSUME NEW n \in 1 .. 9 PROVE Behind(n)' <=> n <= place
    <3>1. Place(run.nextStage)' = place /\ ~Fresh'
      BY <1>3, <1>4 DEF Fresh
    <3>2. Behind(n)' <=> (n < place \/ n = place)
      BY <3>1 DEF Behind
    <3> QED BY <2>0, <3>2
  <2>2. ASSUME NEW n \in 1 .. 9, Behind(n) PROVE n <= place
    BY <2>0, <2>2 DEF Behind
  <2>3. /\ run.nextStage = "goals" => 1 <= place
        /\ run.nextStage = "research" => 2 <= place
        /\ run.nextStage = "design" => 3 <= place
        /\ run.nextStage = "structure" => 4 <= place
        /\ run.nextStage \in {"plan", "replan"} => 5 <= place
        /\ run.nextStage = "verify" => 7 <= place
        /\ run.nextStage = "report" => 8 <= place
    BY DEF Place
  <2> HIDE DEF place
  <2>4. /\ "goals" \in artifacts => 1 <= place
        /\ "researchSummary" \in artifacts => 2 <= place
        /\ "design" \in artifacts => 3 <= place
        /\ "structure" \in artifacts => 4 <= place
        /\ "plan" \in artifacts => 5 <= place
        /\ verdict # "none" => 7 <= place \/ run.verifyFixAttempts > 0
        /\ "stage10Summary" \in artifacts => 8 <= place
    BY <2>2 DEF StraightInv, KindsBehind
  <2>5. /\ "goals" \in artifacts' => 1 <= place
        /\ "researchSummary" \in artifacts' => 2 <= place
        /\ "design" \in artifacts' => 3 <= place
        /\ "structure" \in artifacts' => 4 <= place
        /\ "plan" \in artifacts' => 5 <= place
        /\ "stage10Summary" \in artifacts' => 8 <= place
    BY <1>3, <2>3, <2>4 DEF MarksOf
  <2>6. verdict' # "none" => 7 <= place \/ run'.verifyFixAttempts > 0
    BY <1>3, <2>3, <2>4
  <2> QED BY <2>1, <2>5, <2>6 DEF KindsBehind
<1>7. MarkersBehind'
  <2>1. /\ \A m \in markers : m[1] \in PhaseStage /\ m[2] \in Nat
        /\ run.currentPhase \in Nat /\ run.acceptFixAttempts \in Nat
    BY <1>2 DEF StraightInv, SummaryInv, RunRecord
  <2>2. /\ LastPart \in Nat /\ LastPart <= LastPart' /\ LastPart' \in Nat
        /\ run.nextStage \in PhaseStage => Part(run.nextStage) <= LastPart'
    <3>1. ~Fresh'
      BY <1>4 DEF Fresh
    <3>2. run.nextStage = "replan" => run.acceptFixAttempts = 0
      BY DEF StraightInv, WayFacts
    <3> QED BY <1>3, <2>1, <3>1, <3>2 DEF LastPart, Part, PhaseStage
  <2>3. \A stage : Part(stage) \in Nat
    BY DEF Part
  <2>4. run.nextStage \in PhaseStage => Place(run.nextStage) >= 6
    BY DEF Place, PhaseStage
  <2>5. Marker[1] = run.nextStage /\ Marker[2] = run.currentPhase
    BY DEF Marker
  <2>6. ASSUME NEW m \in markers'
        PROVE  /\ Place(run.nextStage) >= 6
               /\ run.nextStage \in PhaseStage /\ run.verifyFixAttempts = 0 =>
                     \/ m[2] < run.currentPhase
                     \/ m[2] = run.currentPhase /\ Part(m[1]) <= LastPart'
    <3>1. CASE m \in markers
      BY <2>1, <2>2, <2>3, <3>1 DEF StraightInv, MarkersBehind
    <3>2. CASE m = Marker /\ run.nextStage \in PhaseStage
      BY <2>2, <2>4, <2>5, <3>2
    <3> QED BY <1>3, <2>6, <3>1, <3>2
  <2> QED BY <1>3, <2>6 DEF MarkersBehind
<1> QED BY <1>1, <1>3, <1>5, <1>6, <1>7 DEF StraightInv

(* A step that changes neither the run nor its marks keeps them behind.     *)
LEMMA MarksStay ==
    ASSUME StraightInv, UNCHANGED <<run, artifacts, markers, verdict>>, Fresh' => Fresh
    PROVE  KindsBehind' /\ MarkersBehind' /\ WayFacts'
<1>1. /\ \A m \in markers : m[1] \in PhaseStage /\ m[2] \in Nat
      /\ run.currentPhase \in Nat /\ run.acceptFixAttempts \in Nat
  BY DEF StraightInv, SummaryInv, RunRecord, LoopInv, PhaseInv, TInv, TypeOK
<1>2. \A n : Behind(n) => Behind(n)'
  BY DEF Behind
<1>3. KindsBehind'
  BY <1>2 DEF StraightInv, KindsBehind
<1>4. LastPart \in Nat /\ LastPart' \in Nat /\ LastPart <= LastPart'
  BY <1>1 DEF LastPart, Part
<1>5. \A stage : Part(stage) \in Nat
  BY DEF Part
<1>6. MarkersBehind'
  <2>1. ASSUME NEW m \in markers, run.nextStage \in PhaseStage, run.verifyFixAttempts = 0
        PROVE  m[2] < run.currentPhase \/ (m[2] = run.currentPhase /\ Part(m[1]) <= LastPart')
    BY <1>1, <1>4, <1>5, <2>1 DEF StraightInv, MarkersBehind
  <2> QED BY <2>1 DEF StraightInv, MarkersBehind
<1> QED BY <1>3, <1>6 DEF StraightInv, WayFacts

LEMMA FixFields ==
    ASSUME NEW r \in RunRecord, NEW status
    PROVE  /\ LET a == RouteAcceptFix(r)
              IN  /\ a.nextStage = "implement" /\ a.currentPhase = r.currentPhase
                  /\ a.route = r.route /\ a.verifyFixAttempts = r.verifyFixAttempts
                  /\ a.acceptFixAttempts = r.acceptFixAttempts + 1
           /\ LET v == RouteVerifyFix(r, status)
              IN  /\ v.nextStage = "implement" /\ v.currentPhase = 1 /\ v.route = r.route
                  /\ v.verifyFixAttempts = r.verifyFixAttempts + 1
BY DEF RouteAcceptFix, RouteVerifyFix, IncrementAcceptFix, IncrementVerifyFix,
   ResetCurrentPhase, CompleteStage, RunRecord

LEMMA TransitionPlace ==
    ASSUME NEW r \in RunRecord, NEW stage \in StageName, NEW o \in Outcome,
           NEW m \in Nat \ {0}, NEW n, n = ApplyStageTransition(r, stage, o, m),
           stage = "verify" => o.status = "PASS"
    PROVE  \/ Place(n.nextStage) > Place(stage)
           \/ stage \in PhaseStage /\ n.nextStage \in PhaseStage
<1>1. CASE stage \in {"goals", "research", "design", "structure"}
  BY <1>1, TransitionOrder DEF Place
<1>2. CASE stage \notin {"goals", "research", "design", "structure"}
  <2>1. /\ stage \in {"plan", "replan"} => n.nextStage = "implement"
        /\ stage = "implement" => n.nextStage = "accept"
        /\ stage = "accept" => n.nextStage \in {"verify", "replan"}
        /\ stage = "verify" => n.nextStage = "report"
        /\ stage = "report" => n.nextStage = "done"
    BY TransitionEffect
  <2> QED BY <1>2, <2>1 DEF StageName, Place, PhaseStage
<1> QED BY <1>1, <1>2

LEMMA TransitionWay ==
    ASSUME NEW r \in RunRecord, NEW stage \in StageName, NEW o \in Outcome,
           NEW m \in Nat \ {0}, NEW n, n = ApplyStageTransition(r, stage, o, m),
           stage = "verify" => o.status = "PASS"
    PROVE  /\ stage = "goals" => n.route \in {"full", "quick-fix"}
           /\ n.nextStage # "goals"
           /\ n.nextStage \in {"design", "structure"} =>
                 stage = "design" \/ (stage = "research" /\ r.route # "quick-fix")
           /\ n.nextStage = "replan" =>
                 /\ stage = "accept" /\ r.route # "quick-fix"
                 /\ r.currentPhase < r.totalPhases
           /\ stage = "accept" => n.acceptFixAttempts = 0
           /\ n.verifyFixAttempts = r.verifyFixAttempts \/ n.nextStage = "report"
<1>1. CASE stage = "goals"
  <2>1. n.route \in {"full", "quick-fix"}
    BY <1>1 DEF ApplyStageTransition, Advance, CompleteStage, RunRecord
  <2> QED BY <1>1, <2>1, TransitionOrder, TransitionBudgets
<1>2. CASE stage = "accept"
  <2>1. n.acceptFixAttempts = 0
    BY <1>2 DEF ApplyStageTransition, ResetAcceptFix, Advance, CompleteStage, RunRecord
  <2>2. n.nextStage = IF r.route = "quick-fix" \/ r.currentPhase >= AtLeastOne(r.totalPhases)
                      THEN "verify" ELSE "replan"
    BY <1>2, TransitionEffect
  <2>3. n.verifyFixAttempts = r.verifyFixAttempts
    BY <1>2, TransitionBudgets
  <2>4. r.currentPhase \in Nat /\ r.currentPhase >= 1 /\ r.totalPhases \in Nat
    BY DEF RunRecord
  <2>5. n.nextStage = "replan" => r.route # "quick-fix" /\ r.currentPhase < r.totalPhases
    BY <2>2, <2>4 DEF AtLeastOne
  <2> QED BY <1>2, <2>1, <2>2, <2>3, <2>5
<1>3. CASE stage \in {"research", "design", "structure"}
  BY <1>3, TransitionOrder, TransitionBudgets
<1>4. CASE stage \in {"plan", "implement", "replan", "report"}
  <2>1. n.nextStage \in {"implement", "accept", "done"}
    BY <1>4, TransitionEffect
  <2>2. n.verifyFixAttempts = r.verifyFixAttempts
    BY <1>4, TransitionBudgets
  <2> QED BY <1>4, <2>1, <2>2
<1>5. CASE stage = "verify"
  BY <1>5, TransitionEffect
<1> QED BY <1>1, <1>2, <1>3, <1>4, <1>5 DEF StageName

(* A run that goes straight archives nothing, so it decides on no loop.     *)
LEMMA StraightDecision ==
    ASSUME StraightInv, Decide
    PROVE  /\ control = "interpret" /\ run.nextStage \in StageName
           /\ \/ Stop /\ outcome.status # "PASS"
              \/ VerifyFix \/ AcceptFix
              \/ Transition /\ (run.nextStage = "verify" => outcome.status = "PASS")
<1>1. control = "interpret"
  BY InterpretFromInterpret DEF Decide
<1>2. run.nextStage \in StageName /\ outcome \in Outcome
  BY <1>1 DEF StraightInv, LoopInv, PhaseInv, TInv, TypeOK, HasStage, Running, Terminal
<1>3. outcome.loop # "none" =>
        outcome.status = "FAIL" /\ outcome.loop \notin {"NO_LOOP", "DEFER_REPLAN"}
  BY <1>1 DEF StraightInv, LoopFails
<1>4. ~BackwardLoop
  <2> SUFFICES ASSUME BackwardLoop PROVE FALSE
    OBVIOUS
  <2>1. Archiving
    BY <1>1, <1>3 DEF BackwardLoop, Archiving, Loops
  <2>2. run.nextStage \in Planned
    BY <1>1, <2>1 DEF Archiving, Loops, StraightInv, InputsInv, LoopFromPlanned
  <2>3. "plan" \in artifacts
    BY <2>2 DEF StraightInv, InputsInv, InputsKept, InputsKeptIn
  <2>4. "plan" \in ToArchive
    BY <2>3 DEF ToArchive, Archived
  <2> QED BY <2>1, <2>4 DEF Decide
<1>5. ~DeferToReplan
  BY <1>3 DEF DeferToReplan
<1>6. BackwardLoopCapped \/ VerifyFixCapped \/ AcceptStops \/ StageFailed
        => Stop /\ outcome.status # "PASS"
  BY <1>3 DEF BackwardLoopCapped, Loops, VerifyFixCapped, NeedsVerifyFix, AcceptStops,
     NeedsAcceptFix, StageFailed
<1>7. Transition => (run.nextStage = "verify" => outcome.status = "PASS")
  BY DEF Transition, NeedsVerifyFix
<1> QED BY <1>1, <1>2, <1>4, <1>5, <1>6, <1>7 DEF Decide, Interpret

LEMMA DecideKeepsStraight ==
    ASSUME LoopsFromPhases, StraightInv, Decide
    PROVE  StraightInv'
<1>1. LoopInv' /\ InputsInv' /\ SummaryInv'
  <2>1. Interpret
    BY DEF Decide
  <2>2. SummaryInv'
    BY DEF Decide, StraightInv, SummaryInv
  <2> QED BY <2>1, <2>2, InterpretKeepsLoopInv, InputsInterpret, LoopsFromPhasesLeadBack
          DEF StraightInv
<1>2. /\ run \in RunRecord /\ outcome \in Outcome /\ manifest \in Nat \ {0}
      /\ run' \in RunRecord
  BY <1>1 DEF StraightInv, LoopInv, PhaseInv, TInv, TypeOK
<1>3. SavingFacts' /\ LoopFails'
  <2>1. control' \notin {"gate", "interpret"} /\ io' = "saving"
    BY InterpretFromInterpret DEF Decide
  <2> QED BY <2>1 DEF SavingFacts, LoopFails
<1>4. UNCHANGED <<markers, verdict>>
  BY DEF Decide
<1>5. CASE Stop /\ outcome.status # "PASS"
  <2>1. run' = run /\ artifacts' = artifacts /\ ~Fresh'
    BY <1>5 DEF Stop, Fresh
  <2> QED BY <1>1, <1>3, <1>4, <2>1, MarksStay DEF StraightInv
<1>6. ASSUME run.nextStage \in StageName, artifacts' = artifacts, outcome' = Passed({}),
             \/ Place(run'.nextStage) > Place(run.nextStage)
             \/ run.nextStage \in PhaseStage /\ run'.nextStage \in PhaseStage
             \/ run'.nextStage \in PhaseStage /\ run.nextStage = "verify"
                /\ run'.verifyFixAttempts > 0,
             \/ run'.verifyFixAttempts = run.verifyFixAttempts
             \/ run'.nextStage = "report"
             \/ run'.verifyFixAttempts > 0,
             run'.nextStage \in PhaseStage /\ run'.verifyFixAttempts = 0 =>
                \A m \in markers :
                   \/ m[2] < run'.currentPhase
                   \/ m[2] = run'.currentPhase /\ Part(m[1]) <= LastPart',
             WayFacts'
      PROVE  StraightInv'
  <2> DEFINE place == Place(run.nextStage)
             after == Place(run'.nextStage)
  <2>1. place \in 1 .. 9 /\ after \in 1 .. 9
    BY PlaceType
  <2>2. run.verifyFixAttempts \in Nat /\ run'.verifyFixAttempts \in Nat
    BY <1>2 DEF RunRecord
  <2>3. /\ \A stage \in PhaseStage : Place(stage) = 6
        /\ Place("verify") = 7 /\ Place("report") = 8
    BY DEF Place, PhaseStage
  <2>4. ASSUME NEW n \in 1 .. 9 PROVE Behind(n) => n <= place
    BY <2>1 DEF Behind
  <2>5. ASSUME NEW n \in 1 .. 9, n < after PROVE Behind(n)'
    BY <2>5 DEF Behind
  <2>6. \/ after > place
        \/ place = 6 /\ after = 6
        \/ place = 7 /\ after = 6 /\ run'.verifyFixAttempts > 0
    BY <1>6, <2>3
  <2>7. run'.nextStage = "report" => after = 8
    BY <2>3
  <2> HIDE DEF place, after
  <2>9. KindsBehind'
    <3>1. \A n \in 1 .. 5 : n <= place => Behind(n)'
      BY <2>1, <2>5, <2>6
    <3>2. 8 <= place => Behind(8)'
      BY <2>1, <2>5, <2>6
    <3>3. 7 <= place \/ run.verifyFixAttempts > 0
             => Behind(7)' \/ run'.verifyFixAttempts > 0
      BY <1>6, <2>1, <2>5, <2>6, <2>7
    <3>4. /\ "goals" \in artifacts => 1 <= place
          /\ "researchSummary" \in artifacts => 2 <= place
          /\ "design" \in artifacts => 3 <= place
          /\ "structure" \in artifacts => 4 <= place
          /\ "plan" \in artifacts => 5 <= place
          /\ verdict # "none" => 7 <= place \/ run.verifyFixAttempts > 0
          /\ "stage10Summary" \in artifacts => 8 <= place
      BY <2>4 DEF StraightInv, KindsBehind
    <3> QED BY <1>4, <1>6, <3>1, <3>2, <3>3, <3>4 DEF KindsBehind
  <2>10. MarkersBehind'
    <3>1. \A m \in markers : place >= 6
      BY DEF StraightInv, MarkersBehind, place
    <3>2. \A m \in markers : after >= 6
      BY <2>1, <2>6, <3>1
    <3> QED BY <1>4, <1>6, <3>2 DEF MarkersBehind, after
  <2> QED BY <1>1, <1>3, <1>6, <2>9, <2>10 DEF StraightInv
<1>7. Fresh' <=> outcome'.status = "PASS"
  BY DEF Decide, Fresh
<1>8. Passed({}).status = "PASS"
  BY DEF Passed
<1>9. /\ \A m \in markers : m[1] \in PhaseStage /\ m[2] \in Nat
      /\ run.currentPhase \in Nat /\ run.acceptFixAttempts \in Nat
      /\ run.verifyFixAttempts \in Nat
  BY <1>2 DEF StraightInv, SummaryInv, RunRecord
<1>10. CASE VerifyFix
  <2>1. /\ run.nextStage = "verify" /\ artifacts' = artifacts /\ outcome' = Passed({})
        /\ run' = RouteVerifyFix(run, outcome.status)
    BY <1>10 DEF VerifyFix, NeedsVerifyFix, Continue
  <2>2. /\ run'.nextStage = "implement" /\ run'.currentPhase = 1 /\ run'.route = run.route
        /\ run'.verifyFixAttempts = run.verifyFixAttempts + 1
    BY <1>2, <2>1, FixFields
  <2>3. WayFacts'
    BY <2>1, <2>2 DEF StraightInv, WayFacts
  <2>4. run.nextStage \in StageName /\ run'.nextStage \in PhaseStage
        /\ run'.verifyFixAttempts > 0
    BY <1>9, <2>1, <2>2 DEF StageName, PhaseStage
  <2> QED BY <1>6, <2>1, <2>3, <2>4
<1>11. CASE AcceptFix
  <2>1. /\ run.nextStage = "accept" /\ artifacts' = artifacts /\ outcome' = Passed({})
        /\ run' = RouteAcceptFix(run)
    BY <1>11 DEF AcceptFix, NeedsAcceptFix, Continue
  <2>2. /\ run'.nextStage = "implement" /\ run'.currentPhase = run.currentPhase
        /\ run'.route = run.route /\ run'.verifyFixAttempts = run.verifyFixAttempts
        /\ run'.acceptFixAttempts = run.acceptFixAttempts + 1
    BY <1>2, <2>1, FixFields
  <2>3. WayFacts'
    BY <2>1, <2>2 DEF StraightInv, WayFacts
  <2>4. LastPart' = 2
    BY <1>9, <2>2 DEF LastPart
  <2>5. LastPart \in Nat /\ LastPart <= 2
    BY <1>9, <2>1 DEF LastPart, Part
  <2>6. \A stage : Part(stage) \in Nat
    BY DEF Part
  <2>7. run'.nextStage \in PhaseStage /\ run'.verifyFixAttempts = 0 =>
                \A m \in markers :
                   \/ m[2] < run'.currentPhase
                   \/ m[2] = run'.currentPhase /\ Part(m[1]) <= LastPart'
    BY <1>9, <2>1, <2>2, <2>4, <2>5, <2>6 DEF StraightInv, MarkersBehind, PhaseStage
  <2>8. run.nextStage \in StageName /\ run.nextStage \in PhaseStage
        /\ run'.nextStage \in PhaseStage
    BY <2>1, <2>2 DEF StageName, PhaseStage
  <2> QED BY <1>6, <2>1, <2>2, <2>3, <2>7, <2>8
<1>12. CASE Transition /\ (run.nextStage = "verify" => outcome.status = "PASS")
  <2>1. /\ artifacts' = artifacts /\ outcome' = Passed({})
        /\ run' = ApplyStageTransition(run, run.nextStage, outcome, manifest)
    BY <1>12 DEF Transition, Continue
  <2>2. run.nextStage \in StageName
    BY StraightDecision
  <2>3. /\ \/ Place(run'.nextStage) > Place(run.nextStage)
           \/ run.nextStage \in PhaseStage /\ run'.nextStage \in PhaseStage
        /\ \/ run'.verifyFixAttempts = run.verifyFixAttempts
           \/ run'.nextStage = "report"
    BY <1>2, <1>12, <2>1, <2>2, TransitionPlace, TransitionWay
  <2>4. WayFacts'
    <3>1. /\ run.nextStage = "goals" => run'.route \in {"full", "quick-fix"}
          /\ run'.nextStage # "goals"
          /\ run'.nextStage \in {"design", "structure"} =>
                \/ run.nextStage = "design"
                \/ run.nextStage = "research" /\ run.route # "quick-fix"
          /\ run'.nextStage = "replan" =>
                /\ run.nextStage = "accept" /\ run.route # "quick-fix"
                /\ run.currentPhase < run.totalPhases
          /\ run.nextStage = "accept" => run'.acceptFixAttempts = 0
      BY <1>2, <1>12, <2>1, <2>2, TransitionWay
    <3>2. /\ run.nextStage \notin {"plan", "replan"} => run'.totalPhases = run.totalPhases
          /\ run.nextStage # "replan" => run'.currentPhase = run.currentPhase
          /\ run.nextStage # "goals" => run'.route = run.route
          /\ run.nextStage = "goals" => run'.nextStage = "research"
      BY <1>2, <2>1, <2>2, TransitionEffect, TransitionOrder
    <3>3. run.nextStage = "goals" => run.currentPhase = 1
      BY DEF StraightInv, LoopInv, PhaseInv, PhaseFacts, PlanningStartsOver
    <3> QED BY <3>1, <3>2, <3>3 DEF StraightInv, WayFacts
  <2>5. ASSUME run'.nextStage \in PhaseStage, run'.verifyFixAttempts = 0, NEW m \in markers
        PROVE  \/ m[2] < run'.currentPhase
               \/ m[2] = run'.currentPhase /\ Part(m[1]) <= LastPart'
    <3>1. Place(run.nextStage) >= 6
      BY DEF StraightInv, MarkersBehind
    <3>2. run.nextStage \in PhaseStage
      <4>1. Place(run'.nextStage) = 6
        BY <2>5 DEF Place, PhaseStage
      <4> QED BY <2>3, <3>1, <4>1, PlaceType
    <3>3. run.verifyFixAttempts = 0
      BY <2>3, <2>5 DEF PhaseStage
    <3>4. m[2] < run.currentPhase \/ (m[2] = run.currentPhase /\ Part(m[1]) <= LastPart)
      BY <3>2, <3>3 DEF StraightInv, MarkersBehind
    <3>5. /\ run.nextStage = "implement" => run'.nextStage = "accept"
          /\ run.nextStage = "accept" => run'.nextStage = "replan"
          /\ run.nextStage # "replan" => run'.currentPhase = run.currentPhase
          /\ run.nextStage = "replan" => run'.currentPhase = run.currentPhase + 1
      BY <1>2, <2>1, <2>2, <2>5, TransitionEffect DEF PhaseStage
    <3>6. CASE run.nextStage = "replan"
      BY <1>9, <3>4, <3>5, <3>6
    <3>7. CASE run.nextStage = "implement"
      <4>1. run'.acceptFixAttempts = run.acceptFixAttempts
        BY <1>2, <2>1, <2>2, <3>7, TransitionBudgets
      <4>2. LastPart \in Nat /\ LastPart <= LastPart' /\ LastPart' \in Nat
        BY <1>7, <1>8, <1>9, <2>1, <3>5, <3>7, <4>1 DEF LastPart, Part
      <4>3. Part(m[1]) \in Nat
        BY DEF Part
      <4> QED BY <3>4, <3>5, <3>7, <4>2, <4>3
    <3>8. CASE run.nextStage = "accept"
      <4>1. run'.acceptFixAttempts = 0
        BY <1>2, <1>12, <2>1, <2>2, <3>8, TransitionWay
      <4>2. LastPart \in Nat /\ LastPart <= 2 /\ LastPart' = 2
        BY <1>7, <1>8, <1>9, <2>1, <3>5, <3>8, <4>1 DEF LastPart, Part
      <4>3. Part(m[1]) \in Nat
        BY DEF Part
      <4> QED BY <3>4, <3>5, <3>8, <4>2, <4>3
    <3> QED BY <3>2, <3>6, <3>7, <3>8 DEF PhaseStage
  <2> QED BY <1>6, <2>1, <2>2, <2>3, <2>4, <2>5
<1> QED BY <1>5, <1>10, <1>11, <1>12, StraightDecision

LEMMA CrashKeepsLoopInv ==
    ASSUME LoopInv, Crash PROVE LoopInv'
<1>1. /\ UNCHANGED <<config, run, outcome, retries, artifacts, manifest, closed, softened>>
      /\ control' = "aborted"
  BY DEF Crash
<1>2. TInv'
  BY <1>1 DEF LoopInv, PhaseInv, TInv, TypeOK, HasStage, Running, Control, Terminal
<1>3. PhaseFacts'
  BY <1>1 DEF LoopInv, PhaseInv, PhaseFacts, PlanningStartsOver, PhasesInOrder,
     AllPhasesClosed, PhasesCounted, EarlierClosed
<1>4. ReportIsEarned' /\ SummaryWritten' /\ LoopFromPhase'
  BY <1>1 DEF LoopInv, ReportInv, ReportIsEarned, SummaryWritten, LoopFromPhase
<1> QED BY <1>2, <1>3, <1>4 DEF LoopInv, PhaseInv, ReportInv

LEMMA CrashKeepsStraight ==
    ASSUME StraightInv, Crash PROVE StraightInv'
<1>1. /\ UNCHANGED <<run, outcome, artifacts, softened, stateFile, markers, phaseDirs,
                     configRoute, verdict, restarts>>
      /\ control' = "aborted" /\ io' = "none"
  BY DEF Crash, durable
<1>2. LoopInv'
  BY CrashKeepsLoopInv DEF StraightInv
<1>3. SummaryInv' /\ SavingFacts' /\ LoopFails'
  BY <1>1 DEF StraightInv, SummaryInv, SavingFacts, LoopFails
<1>4. InputsInv'
  BY <1>1, <1>2 DEF StraightInv, LoopInv, InputsInv, InputsKept, InputsKeptIn, OutcomeLeft,
     LoopFromPlanned
<1>5. KindsBehind' /\ MarkersBehind' /\ WayFacts'
  BY <1>1, MarksStay DEF Fresh
<1> QED BY <1>2, <1>3, <1>4, <1>5 DEF StraightInv

LEMMA SavedKeepsStraight ==
    ASSUME LoopsFromPhases, StraightInv, Saved \/ Over \/ UNCHANGED rvars
    PROVE  StraightInv'
<1>1. /\ UNCHANGED vars
      /\ UNCHANGED <<markers, phaseDirs, configRoute, verdict, restarts>>
      /\ \/ stateFile' = run /\ io' = "none"
         \/ stateFile' = stateFile /\ io' = io
  BY DEF Saved, Over, rvars, durable
<1>2. run # Torn
  BY TornIsNoRun DEF StraightInv, LoopInv, PhaseInv, TInv, TypeOK
<1>3. LoopInv' /\ InputsInv'
  <2>1. PhaseInv' /\ InputsInv'
    BY <1>1, PhaseStep, InputsStep, LoopsFromPhasesLeadBack DEF StraightInv, LoopInv
  <2> QED BY <1>1, <2>1 DEF vars, StraightInv, LoopInv, InputsInv, LoopFromPhase
<1>4. SummaryInv' /\ LoopFails' /\ SavingFacts'
  BY <1>1, <1>2 DEF vars, StraightInv, SummaryInv, LoopFails, SavingFacts
<1>5. KindsBehind' /\ MarkersBehind' /\ WayFacts'
  <2>1. Fresh' => Fresh
    BY <1>1, <1>2 DEF vars, Fresh
  <2> QED BY <1>1, <2>1, MarksStay DEF vars
<1> QED BY <1>3, <1>4, <1>5 DEF StraightInv

LEMMA AheadInit == RecoveryInit => AheadInv
<1> SUFFICES ASSUME RecoveryInit
             PROVE  StraightInv /\ {restarts, loopsTaken} \subseteq Nat
  BY DEF AheadInv
<1>1. Init
  BY DEF RecoveryInit
<1>2. LoopInv /\ InputsInv /\ SummaryInv
  BY <1>1, LoopInvInit, InputsInit, SummaryInit
<1>3. /\ artifacts = {} /\ verdict = "none" /\ markers = {} /\ control = "stage"
      /\ io = "saving" /\ restarts = 0 /\ loopsTaken = 0
      /\ run.route = "unknown" /\ run.nextStage = "goals"
  BY <1>1 DEF RecoveryInit, Init, StartRun
<1> QED BY <1>2, <1>3 DEF StraightInv, SavingFacts, LoopFails, KindsBehind,
    MarkersBehind, WayFacts

LEMMA AheadStep ==
    ASSUME LoopsFromPhases, LoopsArchive, AheadInv, [RecoveryNext]_rvars
    PROVE  AheadInv'
<1> USE DEF AheadInv
<1>1. CASE StageReturns \/ StageBreaks
  <2>1. UNCHANGED <<restarts, loopsTaken>>
    BY <1>1 DEF StageReturns, StageBreaks, history
  <2> QED BY <1>1, <2>1, StageKeepsStraight DEF Straight
<1>2. CASE ArchiveArtifact \/ ArchivePhase
  <2>1. /\ restarts' = restarts
        /\ loopsTaken' = IF io = "none" THEN loopsTaken + 1 ELSE loopsTaken
        /\ io \in {"none", "archiving"}
    BY <1>2 DEF ArchiveArtifact, ArchivePhase, BeginsOrGoesOn
  <2>2. Straight => io # "archiving"
    BY DEF StraightInv, SavingFacts
  <2> QED BY <2>1, <2>2 DEF Straight
<1>3. CASE Decide
  <2>1. UNCHANGED <<restarts, loopsTaken>>
    BY <1>3 DEF Decide, history
  <2> QED BY <1>3, <2>1, DecideKeepsStraight DEF Straight
<1>4. CASE Crash
  <2>1. UNCHANGED <<restarts, loopsTaken>>
    BY <1>4 DEF Crash, durable
  <2> QED BY <1>4, <2>1, CrashKeepsStraight DEF Straight
<1>5. CASE Resume \/ ResumeInferred \/ StartAfresh
  <2>1. restarts' = restarts + 1 /\ loopsTaken' = loopsTaken
    BY <1>5 DEF Resume, ResumeInferred, StartAfresh, Restart
  <2> QED BY <2>1 DEF Straight
<1>6. CASE Saved \/ Over \/ UNCHANGED rvars
  <2>1. UNCHANGED <<restarts, loopsTaken>>
    BY <1>6 DEF Saved, Over, rvars, durable, history
  <2> QED BY <1>6, <2>1, SavedKeepsStraight DEF Straight
<1> QED BY <1>1, <1>2, <1>3, <1>4, <1>5, <1>6 DEF RecoveryNext

-----------------------------------------------------------------------------
(* What is inferred.                                                        *)

(* The phases done are the first ones, and their number is the last of them. *)
LEMMA DonePhases ==
    ASSUME NEW n \in Nat,
           NEW done, done = {p \in 1 .. n : \A q \in 1 .. p : PhaseDone(q)}
    PROVE  /\ Cardinality(done) \in 0 .. n
           /\ \A p \in 1 .. Cardinality(done) : PhaseDone(p)
<1> DEFINE Up(k) == \A q \in 1 .. k : PhaseDone(q)
           missing == {m \in 0 .. n : Up(n - m)}
<1>1. n \in missing /\ missing \subseteq Nat
  OBVIOUS
<1>2. PICK m \in missing : \A j \in missing : ~ (<<j, m>> \in OpToRel(<, Nat))
  BY <1>1, NatLessThanWellFounded, WFMin
<1>3. \A j \in missing : m <= j
  <2> HIDE DEF missing
  <2>1. \A j \in missing : ~ (j < m)
    BY <1>1, <1>2 DEF OpToRel
  <2> QED BY <1>1, <2>1
<1>4. PICK k \in 0 .. n : k = n - m /\ Up(k)
  <2>1. m \in 0 .. n /\ Up(n - m)
    OBVIOUS
  <2>2. n - m \in 0 .. n
    BY <2>1
  <2> QED BY <2>1, <2>2
<1>5. \A p \in 1 .. n : Up(p) => p <= k
  <2> SUFFICES ASSUME NEW p \in 1 .. n, Up(p) PROVE p <= k
    OBVIOUS
  <2>1. n - p \in 0 .. n /\ n - (n - p) = p
    OBVIOUS
  <2>2. n - p \in missing
    BY <2>1
  <2>3. m <= n - p /\ m \in 0 .. n
    BY <1>3, <2>2
  <2> QED BY <1>4, <2>3
<1>6. \A p \in 1 .. k : p \in 1 .. n /\ Up(p)
  BY <1>4
<1>7. done = 1 .. k
  <2> HIDE DEF missing
  <2>1. done = {p \in 1 .. n : Up(p)}
    OBVIOUS
  <2> HIDE DEF Up
  <2> QED BY <1>4, <1>5, <1>6, <2>1
<1>8. Cardinality(done) = k
  <2>1. Cardinality(1 .. k) = IF 1 > k THEN 0 ELSE k - 1 + 1
    BY FS_Interval
  <2>2. Cardinality(1 .. k) = k
    BY <2>1
  <2> HIDE DEF missing, Up
  <2> QED BY <1>7, <2>2
<1> QED BY <1>4, <1>8

(* Progress follows the places, the phases and the parts. *)
LEMMA AtMostByPlace ==
    ASSUME NEW a, NEW b, a.nextStage \in NextStage, b.nextStage \in NextStage,
           a.currentPhase \in Nat, b.currentPhase \in Nat
    PROVE  /\ Place(a.nextStage) < Place(b.nextStage) => AtMost(Progress(a), Progress(b))
           /\ Place(a.nextStage) = Place(b.nextStage) /\ Place(a.nextStage) # 6
                 => AtMost(Progress(a), Progress(b))
           /\ a.nextStage \in PhaseStage /\ b.nextStage \in PhaseStage =>
                 (a.currentPhase < b.currentPhase => AtMost(Progress(a), Progress(b)))
           /\ a.nextStage \in PhaseStage /\ b.nextStage \in PhaseStage
              /\ a.currentPhase = b.currentPhase
              /\ Part(a.nextStage) <= Part(b.nextStage)
                 => AtMost(Progress(a), Progress(b))
<1> DEFINE Where(r) == LET n == Place(r.nextStage) IN IF n < 6 THEN n - 1 ELSE n
           InPhase(r) == r.nextStage \in PhaseStage
<1>1. ASSUME NEW r, r.nextStage \in NextStage
      PROVE  Progress(r) = IF InPhase(r)
                           THEN <<6, r.currentPhase, Part(r.nextStage)>>
                           ELSE <<Where(r), 0, 0>>
  BY <1>1 DEF Progress, PlanningLeft, Place, Part, PhaseStage, NextStage, StageName
<1>2. ASSUME NEW r, r.nextStage \in NextStage
      PROVE  /\ Place(r.nextStage) \in 1 .. 9
             /\ InPhase(r) <=> Place(r.nextStage) = 6
             /\ Part(r.nextStage) \in 1 .. 3
  BY <1>2 DEF Place, Part, PhaseStage, NextStage, StageName
<1>3. ASSUME NEW d1 \in Nat, NEW d2 \in Nat, NEW d3 \in Nat,
             NEW e1 \in Nat, NEW e2 \in Nat, NEW e3 \in Nat,
             \/ d1 < e1
             \/ d1 = e1 /\ d2 < e2
             \/ d1 = e1 /\ d2 = e2 /\ d3 <= e3
      PROVE  AtMost(<<d1, d2, d3>>, <<e1, e2, e3>>)
  <2> DEFINE d == <<d1, d2, d3>>
             e == <<e1, e2, e3>>
  <2>1. /\ d[1] = d1 /\ d[2] = d2 /\ d[3] = d3
        /\ e[1] = e1 /\ e[2] = e2 /\ e[3] = e3
    OBVIOUS
  <2>2. CASE d1 = e1 /\ d2 = e2 /\ d3 = e3
    BY <2>2 DEF AtMost
  <2>3. CASE d1 < e1
    <3>1. 1 \in 1 .. 3 /\ d[1] < e[1] /\ \A j \in 1 .. (1 - 1) : d[j] = e[j]
      BY <2>1, <2>3
    <3> QED BY <3>1 DEF AtMost
  <2>4. CASE d1 = e1 /\ d2 < e2
    <3>1. 2 \in 1 .. 3 /\ d[2] < e[2] /\ \A j \in 1 .. (2 - 1) : d[j] = e[j]
      BY <2>1, <2>4
    <3> QED BY <3>1 DEF AtMost
  <2>5. CASE d1 = e1 /\ d2 = e2 /\ d3 < e3
    <3>1. \A j \in 1 .. (3 - 1) : j = 1 \/ j = 2
      OBVIOUS
    <3>2. 3 \in 1 .. 3 /\ d[3] < e[3] /\ \A j \in 1 .. (3 - 1) : d[j] = e[j]
      BY <2>1, <2>5, <3>1
    <3> QED BY <3>2 DEF AtMost
  <2> QED BY <1>3, <2>2, <2>3, <2>4, <2>5
<1>4. ASSUME NEW r, r.nextStage \in NextStage PROVE Where(r) \in Nat
  BY <1>2, <1>4
<1> DEFINE P(r) == IF InPhase(r) THEN r.currentPhase ELSE 0
           Q(r) == IF InPhase(r) THEN Part(r.nextStage) ELSE 0
<1>5. ASSUME NEW r, r.nextStage \in NextStage, r.currentPhase \in Nat
      PROVE  /\ Progress(r) = <<Where(r), P(r), Q(r)>>
             /\ P(r) \in Nat /\ Q(r) \in Nat
  <2>1. InPhase(r) => Where(r) = 6
    BY <1>2, <1>5
  <2> QED BY <1>1, <1>2, <1>5, <2>1
<1>6. \/ Where(a) < Where(b)
      \/ Where(a) = Where(b) /\ P(a) < P(b)
      \/ Where(a) = Where(b) /\ P(a) = P(b) /\ Q(a) <= Q(b)
      => AtMost(Progress(a), Progress(b))
  <2> HIDE DEF Where, P, Q
  <2> QED BY <1>3, <1>4, <1>5
<1>7. Place(a.nextStage) < Place(b.nextStage) => Where(a) < Where(b)
  BY <1>2
<1>8. Place(a.nextStage) = Place(b.nextStage) /\ Place(a.nextStage) # 6
        => Where(a) = Where(b) /\ P(a) = P(b) /\ Q(a) <= Q(b)
  BY <1>2
<1>9. InPhase(a) /\ InPhase(b) =>
        /\ Where(a) = Where(b)
        /\ P(a) = a.currentPhase /\ P(b) = b.currentPhase
        /\ Q(a) = Part(a.nextStage) /\ Q(b) = Part(b.nextStage)
  BY <1>2
<1> HIDE DEF Where, P, Q
<1> QED BY <1>6, <1>7, <1>8, <1>9

(* The run, when it is inferred straight ahead. *)
AtRest ==
    /\ StraightInv
    /\ Fresh
    /\ run.acceptFixAttempts = 0
    /\ run.verifyFixAttempts = 0
    /\ run.route = configRoute
    /\ run.totalPhases <= manifest

LEMMA RestTypes ==
    ASSUME AtRest
    PROVE  /\ run.nextStage \in NextStage
           /\ run.currentPhase \in Nat \ {0}
           /\ run.totalPhases \in Nat
           /\ manifest \in Nat \ {0}
           /\ MaxPhase \in Nat \ {0}
           /\ Place(run.nextStage) \in 1 .. 9
           /\ run.nextStage \in PhaseStage <=> Place(run.nextStage) = 6
<1>1. run \in RunRecord /\ manifest \in Nat \ {0} /\ phaseDirs \in Nat
  BY DEF AtRest, StraightInv, LoopInv, PhaseInv, TInv, TypeOK, SummaryInv
<1>2. MaxPhase \in Nat \ {0}
  BY <1>1 DEF MaxPhase, LargerOf
<1>3. run.nextStage \in NextStage
  BY <1>1 DEF RunRecord
<1> QED BY <1>1, <1>2, <1>3 DEF RunRecord, Place, PhaseStage, NextStage, StageName

(* What the markers tell of a run in the phases. *)
LEMMA RestMarkers ==
    ASSUME AtRest, NEW m \in markers
    PROVE  /\ Place(run.nextStage) >= 6
           /\ run.nextStage \in PhaseStage =>
                 \/ m[2] < run.currentPhase
                 \/ m[2] = run.currentPhase /\ Part(m[1]) < Part(run.nextStage)
<1>1. /\ Place(run.nextStage) >= 6
      /\ run.nextStage \in PhaseStage =>
            \/ m[2] < run.currentPhase
            \/ m[2] = run.currentPhase /\ Part(m[1]) <= LastPart
  BY DEF AtRest, StraightInv, MarkersBehind
<1>2. LastPart = Part(run.nextStage) - 1
  BY RestTypes DEF AtRest, LastPart
<1>3. Part(run.nextStage) \in 1 .. 3 /\ Part(m[1]) \in 1 .. 3
  BY DEF Part
<1> QED BY <1>1, <1>2, <1>3

(* The last step found in the phases, and the phase. *)
LEMMA InferredPhasesBehind ==
    ASSUME AtRest, "plan" \in artifacts, InferredPhases.last # "none"
    PROVE  LET last  == InferredPhases.last
               phase == InferredPhases.phase
               next  == NextStageFor(last, configRoute, phase, manifest, verdict)
           IN  /\ phase \in Nat \ {0}
               /\ next \in PhaseStage \cup {"verify"}
               /\ Place(run.nextStage) >= 6
               /\ run.nextStage \in PhaseStage =>
                     /\ next \in PhaseStage
                     /\ \/ phase < run.currentPhase
                        \/ phase = run.currentPhase /\ Part(next) <= Part(run.nextStage)
<1> DEFINE done  == {p \in 1 .. MaxPhase : \A q \in 1 .. p : PhaseDone(q)}
           k == Cardinality(done)
           cur == run.currentPhase
<1>1. k \in 0 .. MaxPhase /\ \A p \in 1 .. k : PhaseDone(p)
  BY DonePhases, RestTypes
<1>2. /\ k + 1 > MaxPhase =>
            InferredPhases.last = "replan" /\ InferredPhases.phase = MaxPhase
      /\ ~ (k + 1 > MaxPhase) =>
            /\ InferredPhases.phase = k + 1
            /\ InferredPhases.last =
                  IF <<"implement", k + 1>> \notin markers
                  THEN IF k + 1 = 1 THEN "none" ELSE "replan"
                  ELSE IF <<"accept", k + 1>> \notin markers THEN "implement"
                  ELSE "accept"
  <2> DEFINE found == IF <<"implement", k + 1>> \notin markers
                      THEN IF k + 1 = 1 THEN "none" ELSE "replan"
                      ELSE IF <<"accept", k + 1>> \notin markers THEN "implement"
                      ELSE "accept"
  <2>1. InferredPhases = IF k + 1 > MaxPhase THEN [last |-> "replan", phase |-> MaxPhase]
                         ELSE [last |-> found, phase |-> k + 1]
    BY DEF InferredPhases
  <2> HIDE DEF found, k
  <2>2. /\ k + 1 > MaxPhase =>
              InferredPhases.last = "replan" /\ InferredPhases.phase = MaxPhase
        /\ ~ (k + 1 > MaxPhase) =>
              InferredPhases.last = found /\ InferredPhases.phase = k + 1
    BY <2>1
  <2> QED BY <2>2 DEF found
<1> HIDE DEF k
<1>3. Place(run.nextStage) >= 6
  BY RestTypes DEF AtRest, StraightInv, KindsBehind, Behind, Place
<1>4. ASSUME NEW p \in Nat \ {0}, NEW stage \in PhaseStage, <<stage, p>> \in markers,
             run.nextStage \in PhaseStage
      PROVE  p < cur \/ (p = cur /\ Part(stage) < Part(run.nextStage))
  <2> DEFINE m == <<stage, p>>
  <2>1. m[1] = stage /\ m[2] = p /\ m \in markers
    BY <1>4
  <2> HIDE DEF m
  <2> QED BY <1>4, <2>1, RestMarkers
<1>5. Part("implement") = 1 /\ Part("accept") = 2 /\ Part("replan") = 3
      /\ Part(run.nextStage) \in 1 .. 3
  BY DEF Part
<1>6. k \in Nat /\ cur \in Nat \ {0} /\ MaxPhase \in Nat \ {0}
  BY <1>1, RestTypes
<1>12. "implement" \in PhaseStage /\ "accept" \in PhaseStage /\ "replan" \in PhaseStage
       /\ k + 1 \in Nat \ {0}
  BY <1>6 DEF PhaseStage
<1>7. k > 0 /\ run.nextStage \in PhaseStage => k < cur
  <2> SUFFICES ASSUME k > 0, run.nextStage \in PhaseStage PROVE k < cur
    OBVIOUS
  <2>1. <<"replan", k>> \in markers
    <3>1. k \in 1 .. k
      BY <1>6
    <3> QED BY <1>1, <3>1 DEF PhaseDone, PhaseStage
  <2>2. k < cur \/ (k = cur /\ Part("replan") < Part(run.nextStage))
    BY <1>4, <1>6, <2>1, <1>12
  <2> QED BY <1>5, <2>2
<1>8. CASE k + 1 > MaxPhase
  <2>1. InferredPhases.last = "replan" /\ InferredPhases.phase = MaxPhase /\ k = MaxPhase
    BY <1>1, <1>2, <1>6, <1>8
  <2>2. \A route, phase, total, v : NextStageFor("replan", route, phase, total, v) = "implement"
    BY DEF NextStageFor
  <2> QED BY <1>3, <1>5, <1>6, <1>7, <2>1, <2>2 DEF PhaseStage
<1>9. CASE k + 1 <= MaxPhase /\ <<"implement", k + 1>> \notin markers
  <2>0. ~ (k + 1 > MaxPhase)
    BY <1>6, <1>9
  <2>1. /\ InferredPhases.last = IF k + 1 = 1 THEN "none" ELSE "replan"
        /\ InferredPhases.phase = k + 1
    BY <1>2, <1>9, <2>0
  <2>4. InferredPhases.last = "replan" /\ k > 0
    BY <1>6, <2>1
  <2>2. \A route, phase, total, v : NextStageFor("replan", route, phase, total, v) = "implement"
    BY DEF NextStageFor
  <2>3. run.nextStage \in PhaseStage => k + 1 < cur \/ k + 1 = cur
    BY <1>6, <1>7, <2>4
  <2> QED BY <1>3, <1>5, <1>6, <2>1, <2>2, <2>3, <2>4 DEF PhaseStage
<1>10. CASE /\ k + 1 <= MaxPhase /\ <<"implement", k + 1>> \in markers
            /\ <<"accept", k + 1>> \notin markers
  <2>1. InferredPhases.last = "implement" /\ InferredPhases.phase = k + 1
    BY <1>2, <1>6, <1>10
  <2>2. \A route, phase, total, v : NextStageFor("implement", route, phase, total, v) = "accept"
    BY DEF NextStageFor
  <2>3. run.nextStage \in PhaseStage =>
          k + 1 < cur \/ (k + 1 = cur /\ Part("implement") < Part(run.nextStage))
    BY <1>4, <1>12, <1>10
  <2> QED BY <1>3, <1>5, <1>6, <2>1, <2>2, <2>3 DEF PhaseStage
<1>11. CASE /\ k + 1 <= MaxPhase /\ <<"implement", k + 1>> \in markers
            /\ <<"accept", k + 1>> \in markers
  <2> DEFINE next == NextStageFor("accept", configRoute, k + 1, manifest, verdict)
  <2>1. InferredPhases.last = "accept" /\ InferredPhases.phase = k + 1
    BY <1>2, <1>6, <1>11
  <2>2. next = IF configRoute = "quick-fix" \/ k + 1 >= AtLeastOne(manifest)
               THEN "verify" ELSE "replan"
    BY DEF NextStageFor
  <2>3. run.nextStage \in PhaseStage =>
          k + 1 < cur \/ (k + 1 = cur /\ run.nextStage = "replan")
    <3>1. run.nextStage \in PhaseStage =>
            k + 1 < cur \/ (k + 1 = cur /\ Part("accept") < Part(run.nextStage))
      BY <1>4, <1>12, <1>11
    <3> QED BY <3>1 DEF Part, PhaseStage
  <2>4. AtLeastOne(manifest) = manifest /\ manifest \in Nat /\ run.totalPhases \in Nat
    BY RestTypes DEF AtLeastOne
  <2>5. ASSUME run.nextStage \in PhaseStage PROVE next = "replan"
    <3>1. configRoute # "quick-fix"
      BY <1>6, <2>3, <2>5 DEF AtRest, StraightInv, WayFacts
    <3>2. run.nextStage \in {"implement", "accept"} => cur <= run.totalPhases
      BY <3>1 DEF AtRest, StraightInv, LoopInv, PhaseInv, PhaseFacts, PhasesInOrder
    <3>3. run.nextStage = "replan" => cur < run.totalPhases
      BY DEF AtRest, StraightInv, WayFacts
    <3>4. run.totalPhases <= manifest
      BY DEF AtRest
    <3>5. k + 1 < manifest
      BY <1>6, <2>3, <2>4, <2>5, <3>2, <3>3, <3>4 DEF PhaseStage
    <3> QED BY <1>6, <2>2, <2>4, <3>1, <3>5
  <2>6. next \in PhaseStage \cup {"verify"}
    BY <2>2 DEF PhaseStage
  <2>7. run.nextStage \in PhaseStage =>
          k + 1 < cur \/ (k + 1 = cur /\ Part(next) <= Part(run.nextStage))
    BY <1>5, <2>3, <2>5
  <2>8. run.nextStage \in PhaseStage => next \in PhaseStage
    BY <2>5 DEF PhaseStage
  <2> HIDE DEF next
  <2>9. next = NextStageFor(InferredPhases.last, configRoute, InferredPhases.phase,
                            manifest, verdict)
    BY <2>1 DEF next
  <2> QED BY <1>3, <1>6, <2>1, <2>6, <2>7, <2>8, <2>9
<1> QED BY <1>6, <1>8, <1>9, <1>10, <1>11

(* The types, whatever happens to the run and to its state file. *)
TypesInv ==
    /\ TInv /\ SummaryInv
    /\ loopsTaken \in Nat
    /\ interrupted \in 0 .. loopsTaken
    /\ io = "archiving" => interrupted < loopsTaken
    /\ io \in {"none", "archiving", "saving"}
    /\ stateFile = Torn => io = "saving" \/ control = "aborted"
    /\ stateFile # Torn => stateFile = run

LEMMA InferredRunType ==
    ASSUME TInv, SummaryInv, InferredLast # "none"
    PROVE  InferredRun \in RunRecord
<1>1. manifest \in Nat \ {0} /\ phaseDirs \in Nat
  BY DEF TInv, TypeOK, SummaryInv
<1>2. MaxPhase \in Nat \ {0}
  BY <1>1 DEF MaxPhase, LargerOf
<1> DEFINE done == {p \in 1 .. MaxPhase : \A q \in 1 .. p : PhaseDone(q)}
           k == Cardinality(done)
<1>3. k \in 0 .. MaxPhase
  BY <1>2, DonePhases
<1>4. /\ InferredPhases.phase = IF k + 1 > MaxPhase THEN MaxPhase ELSE k + 1
      /\ InferredPhases.last \in PhaseStage \cup {"none"}
  <2> DEFINE found == IF <<"implement", k + 1>> \notin markers
                      THEN IF k + 1 = 1 THEN "none" ELSE "replan"
                      ELSE IF <<"accept", k + 1>> \notin markers THEN "implement"
                      ELSE "accept"
  <2>1. InferredPhases = IF k + 1 > MaxPhase THEN [last |-> "replan", phase |-> MaxPhase]
                         ELSE [last |-> found, phase |-> k + 1]
    BY DEF InferredPhases
  <2>2. found \in PhaseStage \cup {"none"} /\ "replan" \in PhaseStage
    BY DEF PhaseStage
  <2> HIDE DEF found, k
  <2> QED BY <2>1, <2>2
<1> HIDE DEF k
<1>5. InferredPhases.phase \in Nat \ {0}
  BY <1>2, <1>3, <1>4
<1>6. InferredPhase \in Nat \ {0}
  BY <1>5 DEF InferredPhase
<1>7. InferredPlanning \in StageName \cup {"none"}
  <2> DEFINE stages == <<"plan", "structure", "design", "research", "goals">>
             there  == {i \in 1 .. 5 :
                          /\ StageMarker[stages[i]] \in artifacts
                          /\ configRoute = "quick-fix" =>
                                stages[i] \notin {"design", "structure"}}
  <2>1. InferredPlanning = IF there = {} THEN "none"
                           ELSE stages[CHOOSE i \in there : \A j \in there : i <= j]
    BY DEF InferredPlanning
  <2>2. ASSUME there # {} PROVE \E i \in there : \A j \in there : i <= j
    <3>1. there \subseteq 1 .. 5
      OBVIOUS
    <3> HIDE DEF there
    <3>2. PICK j : j \in there
      BY <2>2
    <3>3. j = 1 \/ j = 2 \/ j = 3 \/ j = 4 \/ j = 5
      BY <3>1, <3>2
    <3>4. 1 \in there \/ 2 \in there \/ 3 \in there \/ 4 \in there \/ 5 \in there
      BY <3>2, <3>3
    <3> QED BY <3>1, <3>4
  <2>3. there # {} => (CHOOSE i \in there : \A j \in there : i <= j) \in 1 .. 5
    <3>1. there \subseteq 1 .. 5
      OBVIOUS
    <3> HIDE DEF there
    <3> QED BY <2>2, <3>1
  <2>4. \A i \in 1 .. 5 : stages[i] \in StageName
    BY DEF StageName
  <2> QED BY <2>1, <2>3, <2>4
<1>8. InferredLast \in StageName
  BY <1>4, <1>7 DEF InferredLast, PhaseStage, StageName
<1> DEFINE next == NextStageFor(InferredLast, configRoute, InferredPhase, manifest, verdict)
<1>9. next \in NextStage
  BY <1>8 DEF NextStageFor, StageName, NextStage
<1>10. configRoute \in Route /\ verdict \in VerifyStatus \cup {"none"}
  BY DEF SummaryInv
<1>11. /\ 0 \in 0 .. MaxBackwardLoops /\ 0 \in 0 .. MaxAcceptFix /\ 0 \in 0 .. MaxVerifyFix
  BY CapsAssumption
<1> HIDE DEF next
<1> QED BY <1>1, <1>6, <1>8, <1>9, <1>10, <1>11 DEF InferredRun, RunRecord, next

LEMMA RestartType ==
    ASSUME TInv, NEW r \in RunRecord, NEW task \in {"none", config.task},
           Restart(r, task), closed' \in {{}, closed}
    PROVE  TInv'
<1>1. /\ run' = r /\ retries' = 0 /\ outcome' = Passed({})
      /\ control' = IF r.nextStage = "done" THEN "finished" ELSE "stage"
      /\ UNCHANGED <<artifacts, manifest, softened>>
      /\ config' \in Config
  <2>1. config \in Config
    BY DEF TInv, TypeOK
  <2> QED BY <2>1 DEF Restart, Config
<1>2. outcome' \in Outcome
  BY <1>1, OutcomeForms DEF PlainOutcome
<1>3. r.nextStage \in StageName \cup {"done"}
  BY DEF RunRecord, NextStage
<1>4. control' \in Control /\ (control' = "finished" \/ r.nextStage \in StageName)
  BY <1>1, <1>3 DEF Control, Terminal
<1> QED BY <1>1, <1>2, <1>4 DEF TInv, TypeOK, HasStage, Running, Terminal

LEMMA TypesStep ==
    ASSUME TypesInv, [RecoveryNext]_rvars
    PROVE  TypesInv'
<1>0. TInv /\ SummaryInv /\ run \in RunRecord /\ run # Torn
  BY TornIsNoRun DEF TypesInv, TInv, TypeOK
<1>1. SummaryInv'
  BY <1>0, SummaryStep
<1>2. TInv'
  <2>1. CASE StageReturns \/ StageBreaks
    BY <1>0, <2>1, StageIsExecuted, TypeExecute
  <2>2. CASE ArchiveArtifact \/ ArchivePhase
    <3>1. /\ UNCHANGED <<config, run, control, outcome, retries, closed, softened>>
          /\ artifacts' \subseteq artifacts /\ manifest' \in {1, manifest}
      BY <2>2 DEF ArchiveArtifact, ArchivePhase, vars
    <3> QED BY <1>0, <3>1 DEF TInv, TypeOK, HasStage, Running
  <2>3. CASE Decide
    BY <1>0, <2>3, TypeInterpret DEF Decide
  <2>4. CASE Crash
    <3>1. /\ UNCHANGED <<config, run, outcome, retries, artifacts, manifest, closed, softened>>
          /\ control' = "aborted"
      BY <2>4 DEF Crash
    <3> QED BY <1>0, <3>1 DEF TInv, TypeOK, HasStage, Running, Control, Terminal
  <2>5. CASE Saved \/ Over \/ UNCHANGED rvars
    <3>1. UNCHANGED vars
      BY <2>5 DEF Saved, Over, rvars
    <3> QED BY <1>0, <3>1, TypeStep
  <2>6. CASE Resume
    <3>1. stateFile = run
      BY <2>6 DEF Resume, TypesInv
    <3>2. Restart(run, config.task) /\ closed' = closed
      BY <2>6, <3>1 DEF Resume, LoadState
    <3> QED BY <1>0, <3>2, RestartType
  <2>7. CASE ResumeInferred
    <3>1. InferredLast # "none" /\ Restart(InferredRun, "none") /\ closed' = closed
      BY <2>7 DEF ResumeInferred
    <3> QED BY <1>0, <3>1, InferredRunType, RestartType
  <2>8. CASE StartAfresh
    <3>1. StartRun \in RunRecord
      BY CapsAssumption DEF StartRun, RunRecord, Route, NextStage, StageName
    <3>2. Restart(StartRun, "none") /\ closed' = {}
      BY <2>8 DEF StartAfresh
    <3> QED BY <1>0, <3>1, <3>2, RestartType
  <2> QED BY <2>1, <2>2, <2>3, <2>4, <2>5, <2>6, <2>7, <2>8 DEF RecoveryNext
<1>3. /\ loopsTaken' \in Nat
      /\ interrupted' \in 0 .. loopsTaken'
      /\ io' = "archiving" => interrupted' < loopsTaken'
      /\ io' \in {"none", "archiving", "saving"}
  <2> USE DEF TypesInv
  <2>1. CASE StageReturns \/ StageBreaks
    BY <2>1 DEF StageReturns, StageBreaks, history
  <2>2. CASE ArchiveArtifact \/ ArchivePhase
    <3>1. BeginsOrGoesOn
      BY <2>2 DEF ArchiveArtifact, ArchivePhase
    <3> QED BY <3>1 DEF BeginsOrGoesOn
  <2>3. CASE Decide \/ Saved
    BY <2>3 DEF Decide, Saved, history
  <2>4. CASE Crash
    BY <2>4 DEF Crash
  <2>5. CASE Resume \/ ResumeInferred \/ StartAfresh
    BY <2>5 DEF Resume, ResumeInferred, StartAfresh, Restart
  <2>6. CASE Over \/ UNCHANGED rvars
    BY <2>6 DEF Over, rvars, history
  <2> QED BY <2>1, <2>2, <2>3, <2>4, <2>5, <2>6 DEF RecoveryNext
<1>4. /\ stateFile' = Torn => io' = "saving" \/ control' = "aborted"
      /\ stateFile' # Torn => stateFile' = run'
  <2> USE DEF TypesInv
  <2>1. CASE StageReturns \/ StageBreaks
    <3>1. io = "none" /\ control = "stage"
      <4>1. io = "none"
        BY <2>1 DEF StageReturns, StageBreaks
      <4>2. control = "stage"
        BY <2>1 DEF StageReturns, StageBreaks, StageSettles, StageHitsCapAutomated,
           ThrowRetried, ThrowAborts, StageThrows
      <4> QED BY <4>1, <4>2
    <3>2. run' = run /\ stateFile' = stateFile
      BY <2>1, StageIsExecuted, ExecuteKeepsArtifacts DEF StageReturns, StageBreaks
    <3> QED BY <3>1, <3>2
  <2>2. CASE ArchiveArtifact \/ ArchivePhase
    BY <2>2 DEF ArchiveArtifact, ArchivePhase, BeginsOrGoesOn, Archiving, vars
  <2>3. CASE Decide
    BY <2>3 DEF Decide
  <2>4. CASE Saved
    BY <1>0, <2>4 DEF Saved, vars
  <2>5. CASE Crash
    BY <2>5 DEF Crash, durable
  <2>6. CASE Resume \/ ResumeInferred \/ StartAfresh
    BY <2>6 DEF Resume, ResumeInferred, StartAfresh, Restart
  <2>7. CASE Over \/ UNCHANGED rvars
    BY <2>7 DEF Over, rvars, vars, durable
  <2> QED BY <2>1, <2>2, <2>3, <2>4, <2>5, <2>6, <2>7 DEF RecoveryNext
<1> QED BY <1>1, <1>2, <1>3, <1>4 DEF TypesInv

LEMMA TypesInit == RecoveryInit => TypesInv
<1> SUFFICES ASSUME RecoveryInit PROVE TypesInv
  OBVIOUS
<1>1. Init
  BY DEF RecoveryInit
<1>2. TInv /\ SummaryInv
  BY <1>1, TypeInit, SummaryInit
<1> QED BY <1>2 DEF TypesInv, RecoveryInit

(* Torn saves included, a run always has its types, and a state file that   *)
(* can be read holds what the loop holds: what is inferred is a run that    *)
(* the loop can take up.                                                    *)
THEOREM RestartsKeepTypes == RecoverySpec => []RecoveryTypeOK
<1>1. TypesInv => RecoveryTypeOK
  BY DEF TypesInv, SummaryInv, TInv, TypeOK, RecoveryTypeOK
<1> QED BY <1>1, TypesInit, TypesStep, PTL DEF RecoverySpec

(* A run that is inferred in planning. *)
LEMMA InferredPlanningBehind ==
    ASSUME AtRest, InferredPlanning # "none"
    PROVE  LET last == InferredPlanning
               next == NextStageFor(last, configRoute, 1, manifest, verdict)
           IN  /\ next \in StageName
               /\ Place(next) <= Place(run.nextStage)
               /\ Place(next) = 6 => next = "implement"
               /\ last = "plan" => "plan" \in artifacts
<1> DEFINE stages == <<"plan", "structure", "design", "research", "goals">>
           there  == {i \in 1 .. 5 :
                        /\ StageMarker[stages[i]] \in artifacts
                        /\ configRoute = "quick-fix" => stages[i] \notin {"design", "structure"}}
           last == InferredPlanning
           next == NextStageFor(last, configRoute, 1, manifest, verdict)
<1>1. PICK i \in there : last = stages[i]
  <2>1. last = IF there = {} THEN "none"
               ELSE stages[CHOOSE i \in there : \A j \in there : i <= j]
    BY DEF InferredPlanning
  <2>2. there # {}
    BY <2>1
  <2>3. \E i \in there : \A j \in there : i <= j
    <3>1. there \subseteq 1 .. 5
      OBVIOUS
    <3> HIDE DEF there
    <3>2. 1 \in there \/ 2 \in there \/ 3 \in there \/ 4 \in there \/ 5 \in there
      <4>1. PICK j : j \in there
        BY <2>2
      <4>2. j = 1 \/ j = 2 \/ j = 3 \/ j = 4 \/ j = 5
        BY <3>1, <4>1
      <4> QED BY <4>1, <4>2
    <3> QED BY <3>1, <3>2
  <2>4. (CHOOSE i \in there : \A j \in there : i <= j) \in there
    <3> HIDE DEF there
    <3> QED BY <2>3
  <2> QED BY <2>1, <2>2, <2>4
<1>2. /\ last \in {"plan", "structure", "design", "research", "goals"}
      /\ StageMarker[last] \in artifacts
  <2>1. i \in 1 .. 5 /\ StageMarker[stages[i]] \in artifacts
    BY <1>1
  <2>2. stages[i] \in {"plan", "structure", "design", "research", "goals"}
    BY <2>1
  <2> QED BY <1>1, <2>1, <2>2
<1>3. Place(last) < Place(run.nextStage)
  <2>1. \A n \in Nat : Behind(n) => n < Place(run.nextStage)
    BY DEF AtRest, Behind
  <2>2. KindsBehind
    BY DEF AtRest, StraightInv
  <2> QED BY <1>2, <2>1, <2>2 DEF KindsBehind, StageMarker, Place
<1>4. /\ run.route = configRoute
      /\ run.route = "quick-fix" => run.nextStage \notin {"design", "structure"}
      /\ run.nextStage \in NextStage
  BY RestTypes DEF AtRest, StraightInv, WayFacts
<1>5. next = CASE last = "goals" -> "research"
               [] last = "research" -> IF configRoute = "quick-fix" THEN "plan" ELSE "design"
               [] last = "design" -> "structure"
               [] last = "structure" -> "plan"
               [] last = "plan" -> "implement"
  BY <1>2 DEF NextStageFor
<1>6. next \in StageName /\ Place(next) <= Place(run.nextStage)
      /\ (Place(next) = 6 => next = "implement")
  <2> HIDE DEF last, next
  <2>1. CASE last = "research" /\ configRoute = "quick-fix"
    BY <1>3, <1>4, <1>5, <2>1 DEF Place, NextStage, StageName
  <2>2. CASE ~ (last = "research" /\ configRoute = "quick-fix")
    BY <1>2, <1>3, <1>4, <1>5, <2>2 DEF Place, NextStage, StageName
  <2> QED BY <2>1, <2>2
<1>7. last = "plan" => "plan" \in artifacts
  BY <1>2 DEF StageMarker
<1> HIDE DEF last, next
<1> QED BY <1>6, <1>7 DEF last, next

LEMMA InferredRunBehind ==
    ASSUME AtRest, InferredLast # "none"
    PROVE  AtMost(Progress(InferredRun), Progress(run))
<1> DEFINE r == InferredRun
           behind == AtMost(Progress(r), Progress(run))
<1> SUFFICES behind
  OBVIOUS
<1>1. /\ r.currentPhase = InferredPhase
      /\ r.nextStage = NextStageFor(InferredLast, configRoute, InferredPhase, manifest, verdict)
  BY DEF InferredRun
<1> HIDE DEF r, behind
<1> DEFINE from == InferredPlanning = "plan" /\ InferredPhases.last # "none"
<1>2. InferredPhase = IF from THEN InferredPhases.phase ELSE 1
  BY DEF InferredPhase
<1>3. InferredPlanning = "plan" => "plan" \in artifacts
  BY InferredPlanningBehind
<1>4. InferredPhase \in Nat
  BY <1>2, <1>3, InferredPhasesBehind
<1>5. /\ run.nextStage \in NextStage /\ run.currentPhase \in Nat
      /\ Place(run.nextStage) \in 1 .. 9
      /\ run.nextStage \in PhaseStage <=> Place(run.nextStage) = 6
      /\ run.currentPhase >= 1
  BY RestTypes
<1>6. ASSUME r.nextStage \in NextStage
      PROVE  /\ Place(r.nextStage) < Place(run.nextStage) => behind
             /\ Place(r.nextStage) = Place(run.nextStage) /\ Place(r.nextStage) # 6
                   => behind
             /\ r.nextStage \in PhaseStage /\ run.nextStage \in PhaseStage =>
                   (r.currentPhase < run.currentPhase => behind)
             /\ r.nextStage \in PhaseStage /\ run.nextStage \in PhaseStage
                /\ r.currentPhase = run.currentPhase
                /\ Part(r.nextStage) <= Part(run.nextStage)
                   => behind
  BY <1>1, <1>4, <1>5, <1>6, AtMostByPlace DEF behind
<1>7. \A n \in Nat : Behind(n) => n < Place(run.nextStage)
  BY DEF AtRest, Behind
<1>8. KindsBehind /\ run.verifyFixAttempts = 0
  BY DEF AtRest, StraightInv
<1>9. CASE "stage10Summary" \in artifacts
  <2>1. InferredLast = "report"
    BY <1>9 DEF InferredLast
  <2>2. r.nextStage = "done"
    BY <1>1, <2>1 DEF NextStageFor
  <2>3. Place(run.nextStage) > 8
    BY <1>7, <1>8, <1>9 DEF KindsBehind
  <2>4. Place("done") = 9 /\ "done" \in NextStage
    BY DEF Place, NextStage
  <2> QED BY <1>5, <1>6, <2>2, <2>3, <2>4
<1>10. CASE "stage10Summary" \notin artifacts /\ verdict # "none"
  <2>1. InferredLast = "verify"
    BY <1>10 DEF InferredLast
  <2>2. r.nextStage \in {"report", "implement"}
    BY <1>1, <2>1 DEF NextStageFor
  <2>3. Place(run.nextStage) > 7
    BY <1>7, <1>8, <1>10 DEF KindsBehind
  <2>4. Place("report") = 8 /\ Place("implement") = 6 /\ {"report", "implement"} \subseteq NextStage
    BY DEF Place, NextStage, StageName
  <2> QED BY <1>5, <1>6, <2>2, <2>3, <2>4
<1>11. CASE "stage10Summary" \notin artifacts /\ verdict = "none" /\ from
  <2>1. InferredLast = InferredPhases.last /\ InferredPhase = InferredPhases.phase
    BY <1>2, <1>11 DEF InferredLast
  <2>2. /\ r.nextStage \in PhaseStage \cup {"verify"}
        /\ Place(run.nextStage) >= 6
        /\ run.nextStage \in PhaseStage =>
              /\ r.nextStage \in PhaseStage
              /\ \/ r.currentPhase < run.currentPhase
                 \/ /\ r.currentPhase = run.currentPhase
                    /\ Part(r.nextStage) <= Part(run.nextStage)
    BY <1>1, <1>3, <1>11, <2>1, InferredPhasesBehind
  <2>3. /\ r.nextStage \in NextStage
        /\ r.nextStage \in PhaseStage => Place(r.nextStage) = 6
        /\ r.nextStage = "verify" => Place(r.nextStage) = 7
    BY <2>2 DEF Place, PhaseStage, NextStage, StageName
  <2>4. CASE run.nextStage \in PhaseStage
    BY <1>6, <2>2, <2>3, <2>4
  <2>5. CASE run.nextStage \notin PhaseStage
    <3>1. Place(run.nextStage) >= 7
      BY <1>5, <2>2, <2>5
    <3>2. \/ Place(r.nextStage) < Place(run.nextStage)
          \/ Place(r.nextStage) = Place(run.nextStage) /\ Place(r.nextStage) # 6
      BY <1>5, <2>2, <2>3, <3>1
    <3> QED BY <1>6, <2>3, <3>2
  <2> QED BY <2>4, <2>5
<1>12. CASE "stage10Summary" \notin artifacts /\ verdict = "none" /\ ~from
  <2>1. InferredLast = InferredPlanning /\ InferredPhase = 1
    BY <1>2, <1>12 DEF InferredLast
  <2>2. /\ r.nextStage \in StageName
        /\ Place(r.nextStage) <= Place(run.nextStage)
        /\ Place(r.nextStage) = 6 => r.nextStage = "implement"
    BY <1>1, <2>1, InferredPlanningBehind
  <2>3. r.nextStage \in NextStage /\ Place(r.nextStage) \in 1 .. 9
    BY <2>2 DEF NextStage, StageName, Place
  <2>4. CASE Place(r.nextStage) = 6 /\ Place(run.nextStage) = 6
    <3>1. r.nextStage = "implement" /\ run.nextStage \in PhaseStage /\ r.currentPhase = 1
      BY <1>1, <1>5, <2>1, <2>2, <2>4
    <3>2. "implement" \in PhaseStage /\ Part("implement") = 1 /\ Part(run.nextStage) \in 1 .. 3
      BY DEF PhaseStage, Part
    <3>3. r.currentPhase < run.currentPhase \/ r.currentPhase = run.currentPhase
      BY <1>5, <3>1
    <3>4. r.nextStage \in PhaseStage /\ Part(r.nextStage) <= Part(run.nextStage)
      BY <3>1, <3>2
    <3> QED BY <1>6, <2>3, <3>1, <3>3, <3>4
  <2>5. CASE ~ (Place(r.nextStage) = 6 /\ Place(run.nextStage) = 6)
    BY <1>5, <1>6, <2>2, <2>3, <2>5
  <2> QED BY <2>4, <2>5
<1> QED BY <1>9, <1>10, <1>11, <1>12

(* On the way straight ahead a run that is inferred from its artifacts is   *)
(* no further than the run was, however many phases, agents' errors and     *)
(* crashes between two steps: nothing that was not done is skipped.         *)
THEOREM InferenceKeepsBehind ==
    ASSUME LoopsFromPhases, LoopsArchive
    PROVE  RecoverySpec => InferenceNeverAhead
<1> DEFINE Behindhand ==
             ResumeInferred
               => \/ AtMost(Progress(run'), Progress(run))
                  \/ run.acceptFixAttempts + run.verifyFixAttempts + loopsTaken + restarts > 0
                  \/ outcome.status # "PASS"
                  \/ run.route # configRoute
                  \/ run.totalPhases > manifest
<1>1. ASSUME AheadInv, TypesInv, ResumeInferred,
             ~ (run.acceptFixAttempts + run.verifyFixAttempts + loopsTaken + restarts > 0),
             outcome.status = "PASS", run.route = configRoute,
             ~ (run.totalPhases > manifest)
      PROVE  AtMost(Progress(run'), Progress(run))
  <2>1. run' = InferredRun /\ stateFile = Torn /\ InferredLast # "none"
    BY <1>1 DEF ResumeInferred, Restart
  <2>2. /\ run.acceptFixAttempts \in Nat /\ run.verifyFixAttempts \in Nat
        /\ loopsTaken \in Nat /\ restarts \in Nat
        /\ run.totalPhases \in Nat /\ manifest \in Nat
    BY <1>1 DEF TypesInv, TInv, TypeOK, RunRecord, SummaryInv
  <2>3. restarts = 0 /\ loopsTaken = 0 /\ run.acceptFixAttempts = 0 /\ run.verifyFixAttempts = 0
    <3>1. \A a, b, c, d \in Nat : ~ (a + b + c + d > 0) => a = 0 /\ b = 0 /\ c = 0 /\ d = 0
      OBVIOUS
    <3> QED BY <1>1, <2>2, <3>1
  <2>4. run.totalPhases <= manifest
    BY <1>1, <2>2
  <2>5. AtRest
    BY <1>1, <2>1, <2>3, <2>4 DEF AtRest, AheadInv, Straight, Fresh
  <2> QED BY <2>1, <2>5, InferredRunBehind
<1>2. AheadInv /\ TypesInv /\ [RecoveryNext]_rvars => [Behindhand]_rvars
  BY <1>1
<1>3. RecoveryInit => AheadInv /\ TypesInv
  BY AheadInit, TypesInit
<1>4. AheadInv /\ TypesInv /\ [RecoveryNext]_rvars => AheadInv' /\ TypesInv'
  BY AheadStep, TypesStep
<1> HIDE DEF Behindhand
<1>5. RecoverySpec => [][Behindhand]_rvars
  BY <1>2, <1>3, <1>4, PTL DEF RecoverySpec
<1> QED BY <1>5 DEF Behindhand, InferenceNeverAhead

=============================================================================
