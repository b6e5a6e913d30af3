------------------------------ MODULE Recovery ------------------------------
(***************************************************************************)
(* A run that survives its process: state.json (infra/fs/state-repository),*)
(* crashes of the process, and the resume of a run (infra/fs/              *)
(* state-reconstruction.ts), around the loop of Pipeline.                  *)
(*                                                                         *)
(* The loop saves the run after every change it makes to it and before the *)
(* next stage; only a backward loop changes the run directory first.       *)
(* writeFile truncates the state file before it fills it, so a crash in a  *)
(* save leaves a file that does not parse, which resume treats as missing  *)
(* and replaces by what it infers from the artifacts.                      *)
(*                                                                         *)
(* A crash inside a stage leaves the files that an error in it leaves, so  *)
(* ThrowAborts stands for both.                                            *)
(***************************************************************************)
EXTENDS Pipeline, Sequences, FiniteSets

CONSTANTS
    MaxRestarts,    \* bound: restarts of one run
    TornSaves       \* whether a crash may hit a save

ASSUME RecoveryAssumption ==
    /\ MaxRestarts \in Nat
    /\ TornSaves \in BOOLEAN
    /\ "simple" \notin Tasks    \* its later stages find the task in goals.md

VARIABLES
    stateFile,      \* state.json: a run, or Torn
    io,             \* what the loop is awaiting between two stages
    restarts,       \* number of restarts so far
    markers,        \* <<stage, phase>> whose summary in phases/ shows no failure
    phaseDirs,      \* the largest phase directory in phases/, 0 for none
    configRoute,    \* the route in config.md
    verdict,        \* the status that stage9-summary.md shows
    loopsTaken,     \* history: backward loops that began to archive
    interrupted     \* history: how many of them a crash interrupted

durable == <<stateFile, markers, phaseDirs, configRoute, verdict>>

history == <<loopsTaken, interrupted>>

rvars == <<vars, durable, history, io, restarts>>

Torn == [route |-> "torn"]

PhaseStage == {"implement", "accept", "replan"}

LargerOf(m, n) == IF m >= n THEN m ELSE n

-----------------------------------------------------------------------------
RecoveryInit ==
    /\ Init
    /\ config.mode = "automated"
    /\ stateFile = Torn
    /\ io = "saving"
    /\ restarts = 0
    /\ markers = {}
    /\ phaseDirs = 0
    /\ configRoute = "unknown"
    /\ verdict = "none"
    /\ loopsTaken = 0
    /\ interrupted = 0

-----------------------------------------------------------------------------
(* What a stage leaves in the files that resume looks at. *)

Marker == <<run.nextStage, run.currentPhase>>

(* implement writes its summary last and only when it succeeds.  The        *)
(* acceptance summary is the tester agent's own unless it is missing, and   *)
(* one from an earlier round stays, so it may contradict the outcome.       *)
(* The note of a replan is optional.                                        *)
MarkersAfter(o) ==
    CASE run.nextStage = "implement" ->
           {IF o.status = "FAIL" THEN markers ELSE markers \cup {Marker}}
      [] run.nextStage = "accept" /\ ~o.cap ->
           {markers \ {Marker}, markers \cup {Marker}}
      [] run.nextStage = "replan" /\ o.wrote # {} ->
           {markers, markers \cup {Marker}}
      [] OTHER -> {markers}

(* The tester agent writes its summary at any time; the others write theirs *)
(* after everything else that can fail but little.                          *)
MarkersBroken ==
    IF run.nextStage \notin PhaseStage THEN {markers}
    ELSE {markers, markers \cup {Marker}}
         \cup IF run.nextStage = "accept" THEN {markers \ {Marker}} ELSE {}

(* A rewrite in the goals review replaces config.md, not the outcome's      *)
(* route.                                                                   *)
ConfigRoutesAfter(wrote) ==
    IF "config" \in wrote THEN {"full", "quick-fix"} ELSE {configRoute}

(* verify and resume read the status out of the same text by different      *)
(* rules (which headings count, and what when there is none), so they may   *)
(* disagree.                                                                *)
VerdictsAfter(wrote) ==
    IF "stage9Summary" \in wrote THEN VerifyStatus \cup {"none"} ELSE {verdict}

(* Phase directories are made by plan at its end, by whatever writes a      *)
(* phase file, and by replan for the task specs of the next phase.          *)
PhaseDirsAfter(wrote) ==
    CASE run.nextStage = "plan" /\ "baselineResults" \in wrote ->
           {LargerOf(phaseDirs, manifest')}
      [] run.nextStage \in {"implement", "accept"} -> {LargerOf(phaseDirs, run.currentPhase)}
      [] run.nextStage = "replan" /\ wrote # {} ->
           {LargerOf(phaseDirs, run.currentPhase), LargerOf(phaseDirs, run.currentPhase + 1)}
      [] OTHER -> {phaseDirs}

StageReturns ==
    /\ io = "none"
    /\ StageSettles \/ StageHitsCapAutomated
    /\ markers' \in MarkersAfter(outcome')
    /\ configRoute' \in ConfigRoutesAfter(outcome'.wrote)
    /\ verdict' \in VerdictsAfter(outcome'.wrote)
    /\ phaseDirs' \in PhaseDirsAfter(outcome'.wrote)
    /\ UNCHANGED <<stateFile, io, restarts, history>>

(* An error, or a crash, anywhere in the stage.  What it may have written,  *)
(* judged by what is there now, may be what it found there.                 *)
StageBreaks ==
    /\ io = "none"
    /\ ThrowRetried \/ ThrowAborts
    /\ IF InputsReadable
       THEN LET wrote == artifacts' \cap UNION StageWrites(run.nextStage)
            IN  /\ markers' \in MarkersBroken
                /\ configRoute' \in {configRoute} \cup ConfigRoutesAfter(wrote)
                /\ verdict' \in {verdict} \cup VerdictsAfter(wrote)
                /\ phaseDirs' \in IF Marker \in markers' THEN PhaseDirsAfter(wrote)
                                  ELSE {phaseDirs} \cup PhaseDirsAfter(wrote)
       ELSE UNCHANGED <<markers, configRoute, verdict, phaseDirs>>
    /\ UNCHANGED <<stateFile, io, restarts, history>>

-----------------------------------------------------------------------------
(* A backward loop archives first, file by file, then the loop goes on.     *)

ArchiveOrder ==
    <<"goals", "researchSummary", "design", "structure", "plan",
      "phaseManifest", "baselineResults", "stage9Summary", "stage10Summary">>

Archiving ==
    /\ control = "interpret"
    /\ Loops
    /\ ~IsBackwardLoopCapHit(run)
    /\ outcome.loop # "NO_LOOP"

ToArchive == Archived(BackwardLoopTarget(outcome.loop)) \cap artifacts

BeginsOrGoesOn ==
    /\ io \in {"none", "archiving"}
    /\ io' = "archiving"
    /\ loopsTaken' = IF io = "none" THEN loopsTaken + 1 ELSE loopsTaken
    /\ UNCHANGED interrupted

ArchiveArtifact ==
    /\ Archiving
    /\ \E i \in 1 .. Len(ArchiveOrder) :
         /\ ArchiveOrder[i] \in ToArchive
         /\ \A j \in 1 .. (i - 1) : ArchiveOrder[j] \notin ToArchive
         /\ artifacts' = artifacts \ {ArchiveOrder[i]}
         /\ manifest' = IF ArchiveOrder[i] = "phaseManifest" THEN 1 ELSE manifest
    /\ BeginsOrGoesOn
    /\ verdict' = IF "stage9Summary" \in artifacts' THEN verdict ELSE "none"
    /\ UNCHANGED <<config, run, control, outcome, retries, closed, softened,
                   stateFile, markers, phaseDirs, configRoute, restarts>>

(* The phase directories go last; in one step, since only inference reads   *)
(* them and a crash among them leaves the state file whole.                 *)
ArchivePhase ==
    /\ Archiving
    /\ ToArchive = {}
    /\ phaseDirs > 0
    /\ phaseDirs' = 0
    /\ markers' = {}
    /\ BeginsOrGoesOn
    /\ UNCHANGED <<vars, stateFile, configRoute, verdict, restarts>>

(* Every way on from a stage ends in a save. *)
DecideUnsaved ==    \* mutant: the decision is not saved
    /\ io \in {"none", "archiving"}
    /\ Archiving => ToArchive = {} /\ phaseDirs = 0
    /\ Interpret
    /\ io' = "none"
    /\ UNCHANGED <<durable, history, restarts>>

Decide ==
    /\ io \in {"none", "archiving"}
    /\ Archiving => ToArchive = {} /\ phaseDirs = 0
    /\ Interpret
    /\ stateFile' = Torn
    /\ io' = "saving"
    /\ UNCHANGED <<markers, phaseDirs, configRoute, verdict, history, restarts>>

Saved ==
    /\ io = "saving"
    /\ stateFile' = run
    /\ io' = "none"
    /\ UNCHANGED <<vars, markers, phaseDirs, configRoute, verdict, history, restarts>>

-----------------------------------------------------------------------------
(* Crashes and resume. *)

(* Between two stages. *)
Crash ==
    /\ restarts < MaxRestarts
    /\ \/ io = "saving" /\ TornSaves
       \/ io \in {"none", "archiving"} /\ control = "interpret"
    /\ control' = "aborted"
    /\ io' = "none"
    /\ interrupted' = IF io = "archiving" THEN interrupted + 1 ELSE interrupted
    /\ UNCHANGED <<config, run, outcome, retries, artifacts, manifest, closed,
                   softened, durable, loopsTaken, restarts>>

(* inferPhaseLoop: phases are followed in order up to the first step        *)
(* without a marker; the result is the last step done and the phase then.   *)
MaxPhase == LargerOf(LargerOf(manifest, phaseDirs), 1)

(* Mutant: a phase without its replan counts as done. *)
PhaseDoneUnplanned(p) == {<<"implement", p>>, <<"accept", p>>} \subseteq markers

PhaseDone(p) == \A stage \in PhaseStage : <<stage, p>> \in markers

InferredPhases ==
    LET done  == {p \in 1 .. MaxPhase : \A q \in 1 .. p : PhaseDone(q)}
        first == Cardinality(done) + 1      \* the first phase not done
    IN  IF first > MaxPhase THEN [last |-> "replan", phase |-> MaxPhase]
        ELSE [last |-> IF <<"implement", first>> \notin markers
                       THEN IF first = 1 THEN "none" ELSE "replan"
                       ELSE IF <<"accept", first>> \notin markers THEN "implement"
                       ELSE "accept",
              phase |-> first]

StageMarker ==
    [goals |-> "goals", research |-> "researchSummary", design |-> "design",
     structure |-> "structure", plan |-> "plan"]

(* The latest stage up to plan whose artifact is there; nobody looks        *)
(* whether the earlier ones are.                                            *)
InferredPlanning ==
    LET stages == <<"plan", "structure", "design", "research", "goals">>
        there  == {i \in 1 .. 5 :
                     /\ StageMarker[stages[i]] \in artifacts
                     /\ configRoute = "quick-fix" => stages[i] \notin {"design", "structure"}}
    IN  IF there = {} THEN "none"
        ELSE stages[CHOOSE i \in there : \A j \in there : i <= j]

InferredLast ==
    IF "stage10Summary" \in artifacts THEN "report"
    ELSE IF verdict # "none" THEN "verify"
    ELSE IF InferredPlanning = "plan" /\ InferredPhases.last # "none"
    THEN InferredPhases.last
    ELSE InferredPlanning

InferredPhase ==
    IF InferredPlanning = "plan" /\ InferredPhases.last # "none"
    THEN InferredPhases.phase ELSE 1

InferredRun ==
    [route |-> configRoute, currentPhase |-> InferredPhase, totalPhases |-> manifest,
     lastCompletedStage |-> InferredLast,
     nextStage |-> NextStageFor(InferredLast, configRoute, InferredPhase, manifest, verdict),
     verifyStatus |-> verdict, backwardLoops |-> 0,
     acceptFixAttempts |-> 0, verifyFixAttempts |-> 0]

(* Mutant: the loop counter is not read back. *)
ForgetfulState(file) == [file EXCEPT !.backwardLoops = 0]

LoadState(file) == file

(* The loop starts from the given run, under the flags of the new command,  *)
(* and saves it first.                                                      *)
Restart(r, task) ==
    /\ io = "none"
    /\ control \in Terminal
    /\ restarts < MaxRestarts
    /\ restarts' = restarts + 1
    /\ run' = r
    /\ control' = IF r.nextStage = "done" THEN "finished" ELSE "stage"
    /\ outcome' = Passed({})
    /\ retries' = 0
    /\ stateFile' = Torn
    /\ io' = "saving"
    /\ \E policy \in {"fail-closed", "best-effort"} :
         config' = [config EXCEPT !.policy = policy, !.task = task]
    /\ UNCHANGED <<artifacts, manifest, softened, markers, phaseDirs, configRoute,
                   verdict, loopsTaken, interrupted>>

Resume ==
    /\ stateFile # Torn
    /\ Restart(LoadState(stateFile), config.task)
    /\ UNCHANGED closed

(* The user's task is in state.json alone. *)
ResumeInferred ==
    /\ stateFile = Torn
    /\ InferredLast # "none"
    /\ Restart(InferredRun, "none")
    /\ UNCHANGED closed

StartAfresh ==
    /\ stateFile = Torn
    /\ InferredLast = "none"
    /\ Restart(StartRun, "none")
    /\ closed' = {}

(* Nothing is left to do: the run is over and saved, or its restarts are    *)
(* used up.                                                                 *)
Over ==
    /\ io = "none"
    /\ control \in Terminal
    /\ restarts = MaxRestarts
    /\ UNCHANGED rvars

RecoveryNext ==
    \/ StageReturns \/ StageBreaks
    \/ ArchiveArtifact \/ ArchivePhase \/ Decide \/ Saved
    \/ Crash \/ Resume \/ ResumeInferred \/ StartAfresh \/ Over

RecoverySpec == RecoveryInit /\ [][RecoveryNext]_rvars

-----------------------------------------------------------------------------
(* Properties. *)

(* Types; the state file is torn only while it is written or after a crash  *)
(* then, and while a stage runs it holds the run that the loop holds.       *)
RecoveryTypeOK ==
    /\ TypeOK
    /\ stateFile \in RunRecord \cup {Torn}
    /\ io \in {"none", "archiving", "saving"}
    /\ restarts \in 0 .. MaxRestarts
    /\ markers \subseteq PhaseStage \X (1 .. phaseDirs)
    /\ configRoute \in Route
    /\ verdict \in VerifyStatus \cup {"none"}
    /\ interrupted \in 0 .. loopsTaken
    /\ stateFile = Torn => io = "saving" \/ control = "aborted"
    /\ stateFile # Torn => stateFile = run

(* As long as the state file survives, it is what the loop holds, phases    *)
(* stay in order and the report is earned, whatever happens before, between *)
(* and after the restarts.                                                  *)
RestartsKeepOrder == RecoveryTypeOK /\ PhaseDiscipline /\ ReportIsEarned

(* As long as the state file survives, a restart forgets no backward loop   *)
(* but those whose archiving a crash interrupted, so the cap bounds the     *)
(* loops over the whole life of a run.                                      *)
LoopsCounted ==
    loopsTaken <= run.backwardLoops + interrupted
                  + (IF io = "archiving" THEN 1 ELSE 0)

(* As long as the state file survives, a stage finds its inputs after any   *)
(* number of restarts, with the exceptions of InputsPresent, unless a crash *)
(* interrupted an archiving.                                                *)
RestartsKeepInputs == InputsPresent \/ interrupted > 0

(* How far a run is: planning, then the phases, then verification. *)
Progress(r) ==
    CASE r.nextStage = "done"   -> <<9, 0, 0>>
      [] r.nextStage = "report" -> <<8, 0, 0>>
      [] r.nextStage = "verify" -> <<7, 0, 0>>
      [] r.nextStage \in PhaseStage ->
           <<6, r.currentPhase, CASE r.nextStage = "implement" -> 1
                                  [] r.nextStage = "accept" -> 2
                                  [] OTHER -> 3>>
      [] OTHER -> <<6 - PlanningLeft(r.nextStage), 0, 0>>

AtMost(d, e) ==
    d = e \/ \E i \in 1 .. 3 : d[i] < e[i] /\ \A j \in 1 .. (i - 1) : d[j] = e[j]

(* Inference never claims more than was done, on the way straight ahead:    *)
(* before any restart, loop and fix, unless the run stopped at a failure,    *)
(* and as long as config.md and phase-manifest.md still say what the run    *)
(* was told (the goals review may rewrite the one, a replan the other).     *)
InferenceNeverAhead ==
    [][ResumeInferred
         => \/ AtMost(Progress(run'), Progress(run))
            \/ run.acceptFixAttempts + run.verifyFixAttempts + loopsTaken + restarts > 0
            \/ outcome.status # "PASS"
            \/ run.route # configRoute
            \/ run.totalPhases > manifest]_rvars

-----------------------------------------------------------------------------
(* What the documentation says and the code does not do. *)

(* docs/mental-model.md:135: state is saved after every transition, which   *)
(* is what makes resume possible; so a resumed run, nothing softened, finds *)
(* the inputs of its stage.                                                 *)
ResumedRunProceeds ==
    restarts > 0 /\ control = "stage" /\ softened = {} /\ run.route = "full"
        => InputsReadable

(* docs/mental-model.md:120: a run stops when the backward-loop cap is hit; *)
(* so it never completes more loops than the cap.                           *)
LoopCapHolds == loopsTaken - interrupted <= MaxBackwardLoops

(* README.md:117: when the state file is missing, the last completed stage  *)
(* is inferred from the artifacts; so the stages before the inferred one    *)
(* need not be done again.                                                  *)
InferredStageCompleted ==
    [][ResumeInferred => AtMost(Progress(run'), Progress(run))]_rvars
=============================================================================
