----------------------------- MODULE Acceptance -----------------------------
(***************************************************************************)
(* The accept stage of one phase (accept.ts, acceptance-tester.ts), over   *)
(* the repairs that a failure is sent back to implement for.  A coverage   *)
(* plan is written and reviewed by three agents until none of them fails   *)
(* it; then a session with write access authors and runs tests, in up to   *)
(* three rounds, and what it changed is compared with what it may change.  *)
(*                                                                         *)
(* It is compared by name, with a listing taken before the rounds:         *)
(* changedFiles trims the lines of git status before it cuts their first   *)
(* three characters off, so a file that is changed but not staged          *)
(* (" M a/b") is listed without its first letter.                          *)
(*                                                                         *)
(* A stage that throws is run once more, without a checkpoint in between;  *)
(* one that stops or dies may be resumed.  Either starts anew with a new   *)
(* coverage plan and a new listing, in the workspace that it finds.        *)
(***************************************************************************)
EXTENDS Naturals, FiniteSets

CONSTANTS
  Reviewers,     \* ACCEPTANCE_PLAN_REVIEWERS
  ReviewDepth,   \* thorough or fast
  Files,         \* what sessions may touch in the workspace
  ClassOf,       \* per file: how its path is classified: test, artifact or other
  ClassOfShorn,  \* ... and how its path without the first letter is
  Summary, Results, \* two of the files: stage8-summary.md, acceptance-results.md
  Repairs,       \* how often a failure is sent back: MAX_ACCEPT_FIX_ATTEMPTS
  MaxResumes     \* bound of the model: how often the run is resumed in the stage

ASSUME AcceptanceAssumption ==
  /\ {Summary, Results} \subseteq Files /\ Repairs \in Nat
  /\ ReviewDepth \in {"thorough", "fast"} /\ MaxResumes \in Nat
  /\ ClassOf \in [Files -> {"test", "artifact", "other"}]
  /\ ClassOfShorn \in [Files -> {"test", "artifact", "other"}]

MaxCycles == IF ReviewDepth = "fast" THEN 2 ELSE 3
MaxRounds == 3

VARIABLES
  pc,       \* plan, review, test, check, ended, over
  attempt,  \* acceptFixAttempts
  retried,  \* automaticRetries of this run of the stage is 1
  resumes,
  made,     \* coverage plans that this start of the stage has written
  cycle,    \* plannerReviewCycles
  passed,   \* the one of them that no reviewer failed, or 0
  contract, \* the one in coverage-plan.md; 0: there is none, or an earlier start's
  tree,     \* per file: absent, clean, new (untracked or staged) or changed
  before,   \* the names in changedFiles before the tests are written
  touched,  \* history: files the sessions of this attempt wrote, as far as no
            \* checkpoint has committed them
  round,
  status,   \* of the last session
  stated,   \* what stage8-summary.md says: none, PASS, FAIL or unstated
  outcome   \* the stage's status and whether it ended at a cap or a violation

vars == <<pc, attempt, retried, resumes, made, cycle, passed, contract, tree,
          before, touched, round, status, stated, outcome>>
starts == <<attempt, retried, resumes>>

NotYet == [status |-> "none", cause |-> "none"]
Outcome(s, c) == [status |-> s, cause |-> c]

Init ==
  /\ pc = "plan" /\ attempt = 0 /\ retried = FALSE /\ resumes = 0
  /\ made = 0 /\ cycle = 0 /\ passed = 0 /\ contract = 0
  /\ tree \in [Files -> {"absent", "clean", "new", "changed"}]
  /\ tree[Summary] = "absent" /\ tree[Results] = "absent"
  /\ before = {} /\ touched = {} /\ round = 0 /\ status = "FAIL"
  /\ stated = "none" /\ outcome = NotYet

\* git status --short, as changedFiles reads it: a file and whether its name is shorn
Names ==
  {[file |-> f, shorn |-> tree[f] = "changed"] :
     f \in {g \in Files : tree[g] \in {"new", "changed"}}}

ClassOfName(n) == IF n.shorn THEN ClassOfShorn[n.file] ELSE ClassOf[n.file]

\* A file that a session puts back as it was does not count as written.
Written(t, fs) ==
  [f \in Files |-> IF f \notin fs THEN t[f]
                   ELSE IF t[f] \in {"absent", "new"} THEN "new" ELSE "changed"]

\* What a checkpoint makes of a workspace, and what one leaves that fails: the files
\* are as they were, or are staged, or all but those of the run are.
Committed(t) == [f \in Files |-> IF t[f] = "absent" THEN "absent" ELSE "clean"]
Uncommitted(t) ==
  {[f \in Files |-> IF f \in staged /\ t[f] = "changed" THEN "new" ELSE t[f]] :
     staged \in {{}, {f \in Files : ClassOf[f] # "artifact"}, Files}}

-----------------------------------------------------------------------------
(* The coverage plan. *)

\* dispatchCoveragePlanner, with the text of the reviewers that failed the last one
Plan ==
  /\ pc = "plan" /\ pc' = "review"
  /\ made' = made + 1
  /\ UNCHANGED <<starts, cycle, passed, contract, tree, before, touched, round,
                 status, stated, outcome>>

\* One cycle.  A reviewer fails the plan unless its text says PASS: one that ended
\* in an error does.
Review ==
  /\ pc = "review"
  /\ cycle' = cycle + 1
  /\ \E blocking \in SUBSET Reviewers :
       /\ passed' = IF blocking = {} THEN made ELSE 0
       /\ \/ /\ blocking = {}
             /\ pc' = "test" /\ contract' = made /\ before' = Names /\ round' = 1
             /\ UNCHANGED outcome
          \/ /\ blocking # {} /\ cycle' = MaxCycles
             /\ pc' = "ended" /\ outcome' = Outcome("FAIL", "cap")
             /\ UNCHANGED <<contract, before, round>>
          \/ /\ blocking # {} /\ cycle' < MaxCycles
             /\ pc' = "plan"
             /\ UNCHANGED <<contract, before, round, outcome>>
  /\ UNCHANGED <<starts, made, tree, touched, status, stated>>

-----------------------------------------------------------------------------
(* The tests. *)

\* Mutant of Test: failed rounds are not counted.
TestUncounted ==
  /\ pc = "test"
  /\ \E fs \in SUBSET Files, s \in {"PASS", "FAIL"} :
       /\ tree' = Written(tree, fs) /\ touched' = touched \cup fs
       /\ status' = s
       /\ stated' \in IF Summary \in fs THEN {"PASS", "FAIL", "unstated"} ELSE {stated}
       /\ pc' = IF s = "PASS" THEN "check" ELSE "test"
  /\ UNCHANGED <<starts, made, cycle, passed, contract, before, round, outcome>>

\* A round: the session writes what it likes, tests or not, and says how it went.
Test ==
  /\ pc = "test"
  /\ \E fs \in SUBSET Files, s \in {"PASS", "FAIL"} :
       /\ tree' = Written(tree, fs) /\ touched' = touched \cup fs
       /\ status' = s
       /\ stated' \in IF Summary \in fs THEN {"PASS", "FAIL", "unstated"} ELSE {stated}
       /\ IF s = "PASS" \/ round = MaxRounds
          THEN pc' = "check" /\ UNCHANGED round
          ELSE round' = round + 1 /\ UNCHANGED pc
  /\ UNCHANGED <<starts, made, cycle, passed, contract, before, outcome>>

\* Mutant of Violations: names in the directories of the pipeline are all that counts.
ViolationsNone == {n \in Names \ before : ClassOfName(n) = "artifact"}

\* detectBoundaryViolations
Violations == {n \in Names \ before : ClassOfName(n) = "other"}

\* The files that the stage itself writes once the session is done.
Reports ==
  (IF status = "PASS" THEN {f \in {Summary, Results} : tree[f] = "absent"} ELSE {})
    \cup (IF stated \in {"none", "unstated"} THEN {Summary} ELSE {})

Check ==
  /\ pc = "check" /\ pc' = "ended"
  /\ IF Violations # {}
     THEN outcome' = Outcome("FAIL", "boundary") /\ UNCHANGED <<tree, stated>>
     ELSE /\ tree' = Written(tree, Reports)
          /\ stated' = IF Summary \in Reports THEN status ELSE stated
          /\ outcome' = Outcome(status, "tests")
  /\ UNCHANGED <<starts, made, cycle, passed, contract, before, touched, round,
                 status>>

-----------------------------------------------------------------------------
(* Around the stage. *)

\* isImplementationRepairableAcceptFailure, and the count of repairs
Repairable == outcome.status = "FAIL" /\ outcome.cause = "tests" /\ attempt < Repairs

Starts ==
  /\ pc' = "plan" /\ cycle' = 0 /\ round' = 0 /\ status' = "FAIL" /\ outcome' = NotYet
  /\ made' = 0 /\ passed' = 0 /\ contract' = 0 /\ before' = {}
  /\ UNCHANGED stated

\* implement runs again and a checkpoint commits the workspace, or fails to.
Repair ==
  /\ pc = "ended" /\ Repairable
  /\ Starts
  /\ attempt' = attempt + 1 /\ retried' = FALSE /\ touched' = {}
  /\ \E fs \in SUBSET {f \in Files : ClassOf[f] = "other"} :
       LET t == Written(tree, fs) IN tree' \in {Committed(t)} \cup Uncommitted(t)
  /\ UNCHANGED resumes

\* The files of a stage that ends early: the reports may be there in part.
Left ==
  IF pc = "check" /\ Violations = {} THEN {tree, Written(tree, Reports \ {Summary})}
  ELSE {tree}

\* The stage throws, and executeStage runs it once more.
Retry ==
  /\ pc \in {"plan", "review", "test", "check"} /\ ~retried
  /\ Starts
  /\ tree' \in Left
  /\ retried' = TRUE
  /\ UNCHANGED <<attempt, resumes, touched>>

\* The operator has a failed stage run again; or the process dies, or the run stops at
\* an error or a failure, with a last checkpoint or one that fails, and it is resumed
\* in this stage.
Resume ==
  /\ pc = "over" => outcome.status = "FAIL"
  /\ resumes < MaxResumes /\ resumes' = resumes + 1
  /\ Starts
  /\ \E t \in Left :
       \/ tree' = Committed(t) /\ touched' = {}
       \/ tree' \in Uncommitted(t) /\ UNCHANGED touched
  /\ retried' = FALSE
  /\ UNCHANGED attempt

Finish ==
  /\ pc = "ended" /\ ~Repairable
  /\ pc' = "over"
  /\ UNCHANGED <<starts, made, cycle, passed, contract, tree, before, touched,
                 round, status, stated, outcome>>

Step == Plan \/ Review \/ Test \/ Check \/ Repair \/ Finish

Next == Step \/ Retry \/ Resume

Spec == Init /\ [][Next]_vars

\* Every session ends (Dispatcher).
FairSpec == Spec /\ WF_vars(Step)

-----------------------------------------------------------------------------
(* Properties. *)

AcceptanceTypeOK ==
  /\ pc \in {"plan", "review", "test", "check", "ended", "over"}
  /\ attempt \in 0..Repairs /\ cycle \in 0..MaxCycles /\ round \in 0..MaxRounds
  /\ made \in 0..MaxCycles /\ passed \in 0..made /\ contract \in 0..made
  /\ tree \in [Files -> {"absent", "clean", "new", "changed"}]
  /\ stated \in {"none", "PASS", "FAIL", "unstated"}
  /\ outcome.status \in {"none", "PASS", "FAIL"}

\* Tests are authored only against the last coverage plan, after all reviewers passed
\* that very plan since the stage last started; never against an earlier one, though
\* its file is still there.
PlanWasReviewed ==
  pc \in {"test", "check"} => made > 0 /\ contract = made /\ passed = made

\* A file that is neither a test nor an artifact and that a session has touched in this
\* attempt, in whichever round of whichever start of the stage, is in no pass, unless
\* it was listed before the rounds of the last start, as by a session of the start
\* before, or a checkpoint has committed it.
ProductionChangeReported ==
  outcome.status = "PASS" =>
    \A f \in touched : ClassOf[f] = "other" => f \in {n.file : n \in before}

\* A phase that passed has both reports and a stated status, and one that failed in
\* its tests has the status too: later stages and a resume read them.
PassIsEvidenced ==
  /\ outcome.status = "PASS" => tree[Summary] # "absent" /\ tree[Results] # "absent"
  /\ outcome.cause = "tests" => stated \in {"PASS", "FAIL"}

\* Together: a phase is accepted on reviewed tests, with new changes of production code
\* reported, and on evidence.
AcceptanceSound ==
  AcceptanceTypeOK /\ PlanWasReviewed /\ ProductionChangeReported /\ PassIsEvidenced

\* What was found at a cap or out of bounds goes to the operator, not to implement.
OnlyTestsAreRepaired ==
  [][attempt' # attempt => outcome.cause = "tests" /\ outcome.status = "FAIL"]_vars

\* Whenever it is started the stage ends, whatever its agents say.
AcceptanceEnds == []<>(pc = "over")

-----------------------------------------------------------------------------
(* What the documentation says and the code does not do. *)

\* "Only create or update acceptance/integration/e2e test files. Do not modify
\* production code." (acceptance-tester.ts:135): else the stage does not pass, also
\* when the file was listed before.
UntouchedCodePasses ==
  outcome.status = "PASS" => \A f \in touched : ClassOf[f] # "other"

\* "boundary_violation — acceptance authoring or repair wrote outside the allowed
\* test boundary" (qrspi-backward-loop-detector.md:21): it did.
BoundaryViolationIsReal ==
  outcome.cause = "boundary" => \E f \in touched : ClassOf[f] = "other"

\* "it infers state by scanning artifacts on disk ... stage7/stage8 summaries"
\* (mental-model.md:257): of a phase that was accepted, the summary does not say FAIL.
SummaryMarksPass == outcome.status = "PASS" => stated # "FAIL"

=============================================================================
