------------------------------ MODULE Pipeline ------------------------------
(***************************************************************************)
(* One execution of runPipeline (application/pipeline/pipeline-loop.ts):   *)
(* the loop that runs the stage named by run.nextStage through             *)
(* executeStage (stage-runner.ts), resolves an unclean review cap          *)
(* (review-gate-coordinator.ts) and interprets the outcome: a backward     *)
(* loop, a fix route, a stop, or the transition to the next stage.         *)
(*                                                                         *)
(* A stage is a box that reads artifacts, writes artifacts and returns one *)
(* of the outcomes its code can return; which one depends on agents and    *)
(* people, so it is a choice.  An artifact is represented by its presence  *)
(* in the run directory, the phase manifest also by its number of phases.  *)
(***************************************************************************)
EXTENDS RunState

CONSTANTS
    PhaseCounts,    \* numbers of phases a plan may put into its manifest
    Requests,       \* the backward loops each stage may ask for
    PhaseLimit,     \* bound: no deferral to replan at or past this phase
    Tasks           \* the kinds of user task considered

ASSUME PipelineAssumption ==
    /\ PhaseCounts \subseteq Nat \ {0}
    /\ Requests \in [StageName -> SUBSET BackwardLoopClassification]
    /\ PhaseLimit \in Nat
    /\ Tasks \subseteq {"none", "simple", "general"}

VARIABLES
    config,     \* interaction mode, failure policy and kind of task
    run,        \* the Run aggregate held by the loop
    control,    \* where the loop is, see Control
    outcome,    \* the outcome being resolved or interpreted
    retries,    \* automaticRetries of the current executeStage call
    artifacts,  \* the top-level artifacts in the run directory
    manifest,   \* total phases of phase-manifest.md, 1 when there is none
    closed,     \* history: phases accepted, or deferred to replan, since the
                \* phases last restarted
    softened    \* history: stages whose latest completion is a softened cap

vars == <<config, run, control, outcome, retries, artifacts, manifest,
          closed, softened>>

-----------------------------------------------------------------------------
Config ==
    [mode : {"interactive", "automated"},
     policy : {"fail-closed", "best-effort"},
     task : {"none", "simple", "general"}]

(* "stage": executeStage runs the next stage; "gate": an operator is asked  *)
(* about an unclean cap; "interpret": the outcome is settled.  The others   *)
(* are the ways runPipeline ends: the loop condition fails (PASS), break    *)
(* (PARTIAL), or an error leaves the loop.                                  *)
Terminal == {"finished", "stopped", "aborted"}

Control == {"stage", "gate", "interpret"} \cup Terminal

ArtifactKind ==
    {"requirements", "goals", "config", "researchSummary", "design",
     "structure", "plan", "phaseManifest", "baselineResults",
     "stage9Summary", "stage10Summary"}

(* The part of StageOutcome the loop looks at, and the top-level artifacts  *)
(* the stage wrote before it returned.                                      *)
Outcome ==
    [status : {"PASS", "PARTIAL", "FAIL"},
     cap : BOOLEAN,         \* telemetry.terminal_review_state = unclean-cap
     boundary : BOOLEAN,    \* telemetry.boundary_violation
     loop : BackwardLoopClassification \cup {"none"},
     route : Route,
     wrote : SUBSET ArtifactKind]

Passed(written) ==
    [status |-> "PASS", cap |-> FALSE, boundary |-> FALSE, loop |-> "none",
     route |-> "unknown", wrote |-> written]

Failed(written) == [Passed(written) EXCEPT !.status = "FAIL"]

Capped(written) == [Failed(written) EXCEPT !.cap = TRUE]

Partial(written) == [Passed(written) EXCEPT !.status = "PARTIAL"]

-----------------------------------------------------------------------------
(* The stages, as the loop sees them. *)

(* detectSimpleExactFileTask: the task asks for one file with given content *)
(* and the run is on the quick-fix route.                                   *)
OnFastPath == config.task = "simple" /\ run.route = "quick-fix"

(* The artifacts a stage reads with readArtifact, which throws when one is  *)
(* missing.  Stages only read design and structure on the full route,       *)
(* except structure itself, which always reads the design.                  *)
DesignReads == IF run.route = "full" THEN {"design", "structure"} ELSE {}

StageReads(stage) ==
    IF OnFastPath /\ stage \in {"research", "implement", "accept", "verify", "report"}
    THEN {}
    ELSE CASE stage = "research" -> {"goals", "requirements"}
           [] stage = "design" -> {"goals", "requirements", "researchSummary"}
           [] stage = "structure" ->
                {"goals", "requirements", "researchSummary", "design"}
           [] stage = "plan" -> {"goals", "requirements", "researchSummary"} \cup DesignReads
           [] stage = "accept" -> {"phaseManifest", "goals", "requirements"} \cup DesignReads
           [] stage = "replan" -> {"goals", "plan", "phaseManifest"} \cup DesignReads
           [] stage = "verify" -> {"baselineResults", "goals", "requirements"}
           [] stage = "report" -> {"config", "goals", "baselineResults", "stage9Summary"}
           [] OTHER -> {}

(* What a stage may have written when it returns or throws: the prefixes of *)
(* its writes, which it makes in this order.                                *)
StageWrites(stage) ==
    CASE stage = "goals" ->
           {{}, {"requirements"}, {"requirements", "goals"},
            {"requirements", "goals", "config"}}
      [] stage = "research"  -> {{}, {"researchSummary"}}
      [] stage = "design"    -> {{}, {"design"}}
      [] stage = "structure" -> {{}, {"structure"}}
      [] stage = "plan" ->
           {{}, {"plan"}, {"plan", "phaseManifest"},
            {"plan", "phaseManifest", "baselineResults"}}
      [] stage = "replan"    -> {{}, {"plan"}, {"plan", "phaseManifest"}}
      [] stage = "verify"    -> {{}, {"stage9Summary"}}
      [] stage = "report"    -> {{}, {"stage10Summary"}}
      [] OTHER               -> {{}}

GoalsOutcomes ==
    LET all == {"requirements", "goals", "config"}
    IN  CASE config.task = "none" -> {Failed({})}
          [] config.task = "simple" ->
               {[Passed(all) EXCEPT !.route = "quick-fix"]}
          [] OTHER ->
               {[Passed(all) EXCEPT !.route = r] : r \in {"full", "quick-fix"}}
               \cup {Failed({"requirements"}), Failed(all), Capped(all)}

(* A synthesizer that reports Status FAIL is flagged as an unclean cap even *)
(* though it left no summary (research-pass.ts:70-76).                      *)
ResearchOutcomes ==
    LET summary == {"researchSummary"}
    IN  IF OnFastPath THEN {Passed(summary)}
        ELSE {Passed(summary), Failed({}), Failed(summary), Capped({}), Capped(summary)}

(* Design and structure: runSynthesizeReviewGate.  A plain failure is an    *)
(* operator's rejection without feedback.                                   *)
SynthesisOutcomes(kind) ==
    {Passed({kind}), Capped({kind})}
    \cup (IF config.mode = "interactive" /\ config.policy = "fail-closed"
          THEN {Failed({kind})} ELSE {})

(* The plan's review cap leaves no baseline; a failed task spec leaves an   *)
(* "unavailable" one.                                                       *)
PlanOutcomes ==
    LET all == {"plan", "phaseManifest", "baselineResults"}
    IN  IF OnFastPath THEN {Passed(all)}
        ELSE {Passed(all), Capped(all), Capped({"plan", "phaseManifest"})}

ImplementOutcomes ==
    IF OnFastPath THEN {Passed({})} ELSE {Passed({}), Partial({}), Failed({})}

AcceptOutcomes ==
    IF OnFastPath THEN {Passed({}), Failed({})}
    ELSE {Passed({}), Failed({}), Capped({}), [Failed({}) EXCEPT !.boundary = TRUE]}

ReplanOutcomes ==
    {Passed({"plan", "phaseManifest"}), Capped({"plan", "phaseManifest"})}

VerifyOutcomes ==
    LET summary == {"stage9Summary"}
    IN  {Passed(summary), Failed(summary)}
        \cup (IF OnFastPath THEN {} ELSE {Partial(summary)})

(* The outcomes without a backward loop request. *)
OwnOutcomes(stage) ==
    CASE stage = "goals"                    -> GoalsOutcomes
      [] stage = "research"                 -> ResearchOutcomes
      [] stage \in {"design", "structure"}  -> SynthesisOutcomes(stage)
      [] stage = "plan"                     -> PlanOutcomes
      [] stage = "implement"                -> ImplementOutcomes
      [] stage = "accept"                   -> AcceptOutcomes
      [] stage = "replan"                   -> ReplanOutcomes
      [] stage = "verify"                   -> VerifyOutcomes
      [] OTHER                              -> {Passed({"stage10Summary"})}

(* A replan writer may ask for a loop in a later round, after an earlier    *)
(* one rewrote plan and manifest.                                           *)
LoopOutcomes(stage) ==
    IF OnFastPath THEN {}
    ELSE {[Failed(w) EXCEPT !.loop = c] :
             c \in {d \in Requests[stage] :
                       d = "DEFER_REPLAN" => run.currentPhase < PhaseLimit},
             w \in IF stage = "replan" THEN {{}, {"plan", "phaseManifest"}} ELSE {{}}}

StageOutcomes(stage) == OwnOutcomes(stage) \cup LoopOutcomes(stage)

(* The phase counts the manifest may show after those writes. *)
ManifestAfter(written) ==
    IF "phaseManifest" \notin written THEN {manifest}
    ELSE IF OnFastPath THEN {1} ELSE PhaseCounts

-----------------------------------------------------------------------------
Init ==
    /\ config \in [mode : {"interactive", "automated"},
                   policy : {"fail-closed", "best-effort"},
                   task : Tasks]
    /\ run = StartRun
    /\ control = "stage"
    /\ outcome = Passed({})
    /\ retries = 0
    /\ artifacts = {}
    /\ manifest = 1
    /\ closed = {}
    /\ softened = {}

-----------------------------------------------------------------------------
(* executeStage and resolveStageFailure. *)

InputsReadable == StageReads(run.nextStage) \subseteq artifacts

(* The stage's effects on the run directory. *)
Write(written) ==
    /\ artifacts' = artifacts \cup written
    /\ manifest' \in ManifestAfter(written)

(* Only a failure at an unclean cap is escalated, and never acceptance's. *)
Escalates(o) == o.status = "FAIL" /\ o.cap /\ run.nextStage # "accept"

Settle(o) ==
    /\ outcome' = o
    /\ control' = "interpret"
    /\ retries' = 0

(* The stage returns an outcome that needs no resolution. *)
StageSettles ==
    /\ control = "stage" /\ InputsReadable
    /\ \E o \in StageOutcomes(run.nextStage) :
         /\ ~Escalates(o)
         /\ Write(o.wrote)
         /\ Settle(o)
    /\ UNCHANGED <<config, run, closed, softened>>

(* Automated: the cap stops the run under fail-closed and becomes PARTIAL   *)
(* under best-effort.                                                       *)
StageHitsCapAutomated ==
    /\ control = "stage" /\ InputsReadable
    /\ config.mode = "automated"
    /\ \E o \in StageOutcomes(run.nextStage) :
         /\ Escalates(o)
         /\ Write(o.wrote)
         /\ Settle(IF config.policy = "best-effort"
                   THEN [o EXCEPT !.status = "PARTIAL"] ELSE o)
    /\ UNCHANGED <<config, run, closed, softened>>

(* Interactive: the operator is asked, whatever the failure policy. *)
StageHitsCapInteractive ==
    /\ control = "stage" /\ InputsReadable
    /\ config.mode = "interactive"
    /\ \E o \in StageOutcomes(run.nextStage) :
         /\ Escalates(o)
         /\ Write(o.wrote)
         /\ outcome' = o
    /\ control' = "gate"
    /\ UNCHANGED <<config, run, retries, closed, softened>>

OperatorApproves ==
    /\ control = "gate"
    /\ Settle([outcome EXCEPT !.status = "PARTIAL"])
    /\ UNCHANGED <<config, run, artifacts, manifest, closed, softened>>

(* The stage runs again in the same executeStage call, which keeps its      *)
(* count of automatic retries.                                              *)
OperatorRetries ==
    /\ control = "gate"
    /\ control' = "stage"
    /\ outcome' = Passed({})
    /\ UNCHANGED <<config, run, retries, artifacts, manifest, closed, softened>>

(* "abort", or a dismissed dialog. *)
OperatorRejects ==
    /\ control = "gate"
    /\ Settle(outcome)
    /\ UNCHANGED <<config, run, artifacts, manifest, closed, softened>>

(* The stage throws: a required artifact is missing, which it finds before  *)
(* it writes, or any other error after some of its writes.                  *)
StageThrows ==
    /\ control = "stage"
    /\ \E written \in IF InputsReadable THEN StageWrites(run.nextStage) ELSE {{}} :
         Write(written)

ThrowRetried ==
    /\ StageThrows
    /\ config.policy = "best-effort" /\ retries = 0
    /\ retries' = 1
    /\ UNCHANGED <<config, run, control, outcome, closed, softened>>

(* Fail-closed, a second error, or an abort signal, which is never retried. *)
ThrowAborts ==
    /\ StageThrows
    /\ control' = "aborted"
    /\ UNCHANGED <<config, run, outcome, retries, closed, softened>>

-----------------------------------------------------------------------------
(* The loop body after executeStage. *)

Stop ==
    /\ control = "interpret"
    /\ control' = "stopped"
    /\ UNCHANGED <<config, run, outcome, retries, artifacts, manifest,
                   closed, softened>>

Continue(next) ==
    /\ control = "interpret"
    /\ control' = IF next.nextStage = "done" THEN "finished" ELSE "stage"
    /\ run' = next
    /\ outcome' = Passed({})
    /\ UNCHANGED <<config, retries>>

(* DEFER_REPLAN: feedback for the phase is recorded and replan runs next;   *)
(* this is not counted as a backward loop.                                  *)
DeferToReplan ==
    /\ outcome.loop = "DEFER_REPLAN"
    /\ Continue(SetNextStage(run, "replan"))
    /\ closed' = closed \cup {run.currentPhase}
    /\ UNCHANGED <<artifacts, manifest, softened>>

Loops == outcome.loop \notin {"none", "DEFER_REPLAN"}

BackwardLoopCapped == Loops /\ IsBackwardLoopCapHit(run) /\ Stop

(* Mutants of the archived set: the structure survives a loop to design;    *)
(* the research summary is deleted with the design.                         *)
ArchivedKeepsStructure(target) ==
    {"plan", "phaseManifest", "baselineResults", "stage9Summary", "stage10Summary"}
    \cup (IF target \in {"goals", "design"} THEN {"design"} ELSE {})
    \cup (IF target = "goals" THEN {"goals", "researchSummary", "structure"} ELSE {})

ArchivedTakesResearch(target) ==
    {"plan", "phaseManifest", "baselineResults", "stage9Summary", "stage10Summary"}
    \cup (IF target \in {"goals", "design"}
          THEN {"design", "structure", "researchSummary"} ELSE {})
    \cup (IF target = "goals" THEN {"goals"} ELSE {"structure"})

(* resetArtifactsForBackwardLoop: the top-level artifacts archived and      *)
(* deleted for a loop to the given stage.                                   *)
Archived(target) ==
    {"plan", "phaseManifest", "baselineResults", "stage9Summary", "stage10Summary"}
    \cup (IF target \in {"goals", "design", "structure"} THEN {"structure"} ELSE {})
    \cup (IF target \in {"goals", "design"} THEN {"design"} ELSE {})
    \cup (IF target = "goals" THEN {"goals", "researchSummary"} ELSE {})

BackwardLoop ==
    LET target == BackwardLoopTarget(outcome.loop)
    IN  /\ Loops
        /\ ~IsBackwardLoopCapHit(run)
        /\ IF outcome.loop = "NO_LOOP" THEN UNCHANGED <<artifacts, manifest>>
           ELSE artifacts' = artifacts \ Archived(target) /\ manifest' = 1
        /\ Continue(SetNextStage(ResetCurrentPhase(IncrementBackwardLoops(run)), target))
        /\ closed' = {}
        /\ UNCHANGED softened

(* handleReroute *)
NeedsVerifyFix ==
    outcome.loop = "none" /\ run.nextStage = "verify" /\ outcome.status # "PASS"

VerifyFix ==
    /\ NeedsVerifyFix
    /\ ~IsVerifyFixCapHit(run)
    /\ Continue(RouteVerifyFix(run, outcome.status))
    /\ closed' = {}
    /\ UNCHANGED <<artifacts, manifest, softened>>

VerifyFixCapped == NeedsVerifyFix /\ IsVerifyFixCapHit(run) /\ Stop

NeedsAcceptFix ==
    outcome.loop = "none" /\ run.nextStage = "accept" /\ outcome.status = "FAIL"

AcceptFix ==
    /\ NeedsAcceptFix
    /\ IsImplementationRepairable(outcome)
    /\ ~IsAcceptFixCapHit(run)
    /\ Continue(RouteAcceptFix(run))
    /\ UNCHANGED <<artifacts, manifest, closed, softened>>

AcceptStops ==
    /\ NeedsAcceptFix
    /\ ~IsImplementationRepairable(outcome) \/ IsAcceptFixCapHit(run)
    /\ Stop

StageFailed ==
    /\ outcome.loop = "none"
    /\ outcome.status = "FAIL"
    /\ run.nextStage \notin {"verify", "accept"}
    /\ Stop

(* applyStageTransition and the save that follows it. *)
Transition ==
    /\ outcome.loop = "none"
    /\ outcome.status # "FAIL"
    /\ ~NeedsVerifyFix
    /\ Continue(ApplyStageTransition(run, run.nextStage, outcome, manifest))
    /\ closed' = IF run.nextStage = "accept"
                   THEN closed \cup {run.currentPhase} ELSE closed
    /\ softened' = IF outcome.cap THEN softened \cup {run.nextStage}
                   ELSE softened \ {run.nextStage}
    /\ UNCHANGED <<artifacts, manifest>>

Ended == control \in Terminal /\ UNCHANGED vars

ExecuteStage ==
    \/ StageSettles \/ StageHitsCapAutomated \/ StageHitsCapInteractive
    \/ OperatorApproves \/ OperatorRetries \/ OperatorRejects
    \/ ThrowRetried \/ ThrowAborts

Interpret ==
    \/ DeferToReplan \/ BackwardLoopCapped \/ BackwardLoop
    \/ VerifyFix \/ VerifyFixCapped \/ AcceptFix \/ AcceptStops
    \/ StageFailed \/ Transition

Next == ExecuteStage \/ Interpret \/ Ended

Spec == Init /\ [][Next]_vars

(* In automated mode nobody is waited for: every dispatch ends by itself or *)
(* by its timeout, so the loop always takes its next step.                  *)
FairSpec == Spec /\ WF_vars(ExecuteStage) /\ WF_vars(Interpret)

-----------------------------------------------------------------------------
(* Properties. *)

Running == control \notin Terminal

(* Every variable has its type; in particular no counter of loops and fixes *)
(* ever passes its cap, whatever order loops, fixes and resets come in.     *)
TypeOK ==
    /\ config \in Config
    /\ run \in RunRecord
    /\ control \in Control
    /\ outcome \in Outcome
    /\ retries \in {0, 1}
    /\ artifacts \subseteq ArtifactKind
    /\ manifest \in Nat \ {0}
    /\ closed \subseteq Nat
    /\ softened \subseteq StageName

(* Phases are done in order: a phase is implemented and accepted only when  *)
(* all earlier ones are closed (accepted, or deferred to replan), and       *)
(* replan runs only after its phase is closed.                              *)
PhasesInOrder ==
    run.route # "quick-fix" =>
        /\ run.nextStage \in {"implement", "accept"} =>
              /\ 1 .. (run.currentPhase - 1) \subseteq closed
              /\ run.currentPhase <= run.totalPhases
        /\ run.nextStage = "replan" => 1 .. run.currentPhase \subseteq closed

(* On the full route verification starts, and the run ends, only when every *)
(* phase of the run has been closed since the phases last restarted (a      *)
(* backward loop and a verify fix both restart them).                       *)
AllPhasesClosed ==
    run.route # "quick-fix" /\ run.nextStage \in {"verify", "report", "done"}
        => 1 .. run.totalPhases \subseteq closed

(* A stage up to plan runs at phase 1, and no acceptance from an earlier    *)
(* plan survives into it.                                                   *)
PlanningStartsOver ==
    run.nextStage \in {"goals", "research", "design", "structure", "plan"}
        => run.currentPhase = 1 /\ closed = {}

(* Together: however loops, fixes and deferrals restart the phases, none is *)
(* skipped, and none is taken over from a discarded plan.                   *)
PhaseDiscipline == PhasesInOrder /\ AllPhasesClosed /\ PlanningStartsOver

(* The report, and with it a PASS for the run, follows a passed             *)
(* verification whose summary is on disk and whose fix budget was restored. *)
ReportIsEarned ==
    run.nextStage \in {"report", "done"}
        => /\ run.verifyStatus = "PASS"
           /\ run.verifyFixAttempts = 0
           /\ "stage9Summary" \in artifacts

(* When a stage starts, every artifact it insists on reading is there, with *)
(* three known exceptions: a research or plan stage whose failure was       *)
(* softened may have left no summary or no baseline, and the quick-fix      *)
(* route has no design for a structure stage that a backward loop asks for. *)
InputsPresent ==
    control = "stage" =>
        \A kind \in StageReads(run.nextStage) \ artifacts :
            \/ kind = "researchSummary" /\ "research" \in softened
            \/ kind = "baselineResults" /\ "plan" \in softened
            \/ kind = "design" /\ run.route = "quick-fix"

(* The artifacts of the stages after the given one; from plan on the phases *)
(* share the plan's artifacts.                                              *)
Downstream(stage) ==
    LET verified == {"stage9Summary", "stage10Summary"}
        planned  == {"plan", "phaseManifest", "baselineResults"} \cup verified
    IN  CASE stage = "goals"     -> {"researchSummary", "design", "structure"} \cup planned
          [] stage = "research"  -> {"design", "structure"} \cup planned
          [] stage = "design"    -> {"structure"} \cup planned
          [] stage = "structure" -> planned
          [] stage = "plan"      -> verified
          [] OTHER               -> {}

(* A stage up to plan never starts with artifacts of later stages, left by  *)
(* a plan that a backward loop discarded: resume would infer from them that *)
(* those stages are complete.                                               *)
NoStaleDownstream ==
    control = "stage" => artifacts \cap Downstream(run.nextStage) = {}

(* The run's distance from its end, most significant part first: backward   *)
(* loops left; how far planning is from done; verify fixes left; phases     *)
(* left; the part of the phase; accept fixes left; the order of implement   *)
(* and accept, and of report and done; where the loop body is; whether the  *)
(* automatic retry is left.                                                 *)
PlanningLeft(stage) ==
    CASE stage = "goals" -> 6     [] stage = "research" -> 5
      [] stage = "design" -> 4    [] stage = "structure" -> 3
      [] stage = "plan" -> 2      [] stage \in {"report", "done"} -> 0
      [] OTHER -> 1

PhasePartLeft(stage) ==
    CASE stage \in {"implement", "accept"} -> 2
      [] stage = "replan" -> 1
      [] OTHER -> 0

ControlLeft ==
    CASE control = "stage" -> 3 [] control = "gate" -> 2
      [] control = "interpret" -> 1 [] OTHER -> 0

PhasesLeft ==
    IF run.totalPhases > run.currentPhase THEN run.totalPhases - run.currentPhase ELSE 0

Distance ==
    <<MaxBackwardLoops - run.backwardLoops,
      PlanningLeft(run.nextStage),
      MaxVerifyFix - run.verifyFixAttempts,
      PhasesLeft,
      PhasePartLeft(run.nextStage),
      MaxAcceptFix - run.acceptFixAttempts,
      IF run.nextStage \in {"implement", "report"} THEN 1 ELSE 0,
      ControlLeft,
      1 - retries>>

Closer(d, e) ==
    \E i \in 1 .. 9 : d[i] < e[i] /\ \A j \in 1 .. (i - 1) : d[j] = e[j]

(* Every step brings the run closer to its end, except that an operator may *)
(* have a stage run again and that a deferral may add a phase; resets of    *)
(* the fix counters never pay for more fixes than the phases, the           *)
(* verifications and the loops allow.                                       *)
EveryStepAdvances ==
    [][\/ OperatorRetries
       \/ DeferToReplan
       \/ run'.totalPhases > run.totalPhases
       \/ Closer(Distance', Distance)]_vars

(* An automated run ends: no combination of backward loops, fix routes,     *)
(* softened caps and retries goes round for ever.                           *)
AutomatedRunEnds == config.mode = "automated" => <>(control \in Terminal)

-----------------------------------------------------------------------------
(* The run keeps the promises of RunLifecycle. *)

PartOf(stage) ==
    CASE stage \in {"implement", "accept", "replan"} -> "building"
      [] stage = "verify" -> "verifying"
      [] stage = "report" -> "reporting"
      [] stage = "done"   -> "done"
      [] OTHER            -> "planning"

Lifecycle == INSTANCE RunLifecycle
    WITH LoopBudget <- MaxBackwardLoops,
         FixBudget <- MaxVerifyFix,
         part <- PartOf(run.nextStage),
         loopsLeft <- MaxBackwardLoops - run.backwardLoops,
         fixesLeft <- MaxVerifyFix - run.verifyFixAttempts

(* Planning, building, verifying and reporting follow each other; only a    *)
(* counted verification fix leads back to building and only a counted       *)
(* backward loop back to planning, and a fix budget is refilled only by a   *)
(* passed verification.                                                     *)
KeepsLifecycle == Lifecycle!Spec

-----------------------------------------------------------------------------
(* What the documentation says and the code does not do. *)

(* README.md:131 and docs/mental-model.md:91: the quick-fix route skips the *)
(* Design and Structure stages.                                             *)
QuickFixSkipsDesign ==
    run.route = "quick-fix" => run.nextStage \notin {"design", "structure"}

(* README.md:147: the phase loop repeats until all phases are complete,     *)
(* then proceeds to Verify.  The phases are those of the phase manifest.    *)
ManifestPhasesAccepted ==
    run.route = "full" /\ run.nextStage = "verify"
        => 1 .. manifest \subseteq closed

(* README.md:98: under best-effort an unresolved review cap is softened to  *)
(* PARTIAL and the run proceeds; here, for the plan's review on the full    *)
(* route: the stages that follow find their inputs.                         *)
SoftenedPlanProceeds ==
    control = "stage" /\ run.route = "full" /\ softened = {"plan"}
        => InputsReadable

(* README.md:83: under best-effort unresolved review caps are auto-approved *)
(* as PARTIAL; so an automated best-effort run never stops at one.          *)
BestEffortSoftensCaps ==
    config.mode = "automated" /\ config.policy = "best-effort"
        => ~(control = "stopped" /\ outcome.status = "FAIL" /\ outcome.cap)
=============================================================================
