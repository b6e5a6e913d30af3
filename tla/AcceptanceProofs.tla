-------------------------- MODULE AcceptanceProofs --------------------------
(***************************************************************************)
(* Proofs about Acceptance for any files, reviewers and repairs: that      *)
(* tests are authored against a reviewed plan only, what a pass leaves,    *)
(* what is repaired, and under which condition no new change of production *)
(* code passes, over any starts of the stage.                              *)
(***************************************************************************)
EXTENDS Acceptance, TLAPS

Causes == {"none", "cap", "boundary", "tests"}
States == {"absent", "clean", "new", "changed"}

Types ==
  /\ pc \in {"plan", "review", "test", "check", "ended", "over"}
  /\ attempt \in 0..Repairs /\ cycle \in 0..MaxCycles /\ round \in 0..MaxRounds
  /\ retried \in BOOLEAN /\ resumes \in Nat
  /\ made \in 0..MaxCycles /\ passed \in 0..made /\ contract \in 0..made
  /\ tree \in [Files -> States]
  /\ touched \subseteq Files
  /\ status \in {"PASS", "FAIL"} /\ stated \in {"none", "PASS", "FAIL", "unstated"}
  /\ outcome \in [status : {"none", "PASS", "FAIL"}, cause : Causes]

\* A cycle is left in each start, one for each plan, rounds are counted from one, and
\* the outcome is there when the stage has ended.
Progress ==
  /\ pc = "plan" => cycle < MaxCycles /\ made = cycle
  /\ pc = "review" => cycle < MaxCycles /\ made = cycle + 1
  /\ pc = "test" => round \in 1..MaxRounds
  /\ pc \notin {"ended", "over"} => outcome = NotYet

IInv == Types /\ Progress /\ PlanWasReviewed /\ PassIsEvidenced

-----------------------------------------------------------------------------
LEMMA CycleBounds == MaxCycles \in {2, 3} /\ MaxRounds = 3
  BY DEF MaxCycles, MaxRounds

LEMMA WrittenIs ==
  ASSUME NEW t \in [Files -> States], NEW fs \in SUBSET Files
  PROVE  /\ Written(t, fs) \in [Files -> States]
         /\ \A f \in fs : Written(t, fs)[f] \in {"new", "changed"}
         /\ \A f \in Files \ fs : Written(t, fs)[f] = t[f]
BY DEF Written, States

LEMMA ReportsIs == Reports \subseteq {Summary, Results} /\ Reports \subseteq Files
BY AcceptanceAssumption DEF Reports

LEMMA InitHolds == Init => IInv
<1> SUFFICES ASSUME Init PROVE IInv
  OBVIOUS
<1>1. retried \in BOOLEAN /\ outcome = NotYet
  BY DEF Init
<1>2. Types
  BY <1>1, AcceptanceAssumption, CycleBounds DEF Init, Types, NotYet, Causes, States
<1> QED
  BY <1>1, <1>2, CycleBounds
     DEF Init, IInv, Progress, PlanWasReviewed, PassIsEvidenced, NotYet

LEMMA PlanKeeps == ASSUME IInv, Plan PROVE IInv'
BY AcceptanceAssumption, CycleBounds
   DEF Plan, starts, IInv, Types, Progress, PlanWasReviewed, PassIsEvidenced, NotYet

LEMMA ReviewKeeps == ASSUME IInv, Review PROVE IInv'
<1> USE AcceptanceAssumption, CycleBounds DEF IInv
<1>0. PICK blocking \in SUBSET Reviewers :
        /\ passed' = IF blocking = {} THEN made ELSE 0
        /\ \/ /\ blocking = {}
              /\ pc' = "test" /\ contract' = made /\ round' = 1 /\ UNCHANGED outcome
           \/ /\ pc' = "ended" /\ outcome' = Outcome("FAIL", "cap")
              /\ UNCHANGED <<contract, round>>
           \/ /\ cycle' < MaxCycles /\ pc' = "plan" /\ UNCHANGED <<contract, round, outcome>>
  BY DEF Review
<1>1. /\ pc = "review" /\ cycle' = cycle + 1
      /\ UNCHANGED <<attempt, retried, resumes, made, tree, touched, status, stated>>
  BY DEF Review, starts
<1>2. Types'
  BY <1>0, <1>1 DEF Types, Progress, Outcome, Causes
<1>3. outcome.status = "none" /\ outcome.cause = "none"
  BY <1>1 DEF Progress, NotYet
<1>4. Progress'
  BY <1>0, <1>1 DEF Progress
<1>5. PlanWasReviewed'
  BY <1>0, <1>1 DEF PlanWasReviewed, Types, Progress
<1>6. PassIsEvidenced'
  BY <1>0, <1>1, <1>3 DEF PassIsEvidenced, Outcome
<1> QED
  BY <1>2, <1>4, <1>5, <1>6

LEMMA TestKeeps == ASSUME IInv, Test PROVE IInv'
<1> USE AcceptanceAssumption, CycleBounds DEF IInv
<1>0. PICK fs \in SUBSET Files, s \in {"PASS", "FAIL"} :
        /\ tree' = Written(tree, fs) /\ touched' = touched \cup fs /\ status' = s
        /\ stated' \in {"PASS", "FAIL", "unstated"} \cup {stated}
        /\ \/ pc' = "check" /\ UNCHANGED round
           \/ round # MaxRounds /\ round' = round + 1 /\ UNCHANGED pc
  BY DEF Test
<1>1. /\ pc = "test"
      /\ UNCHANGED <<attempt, retried, resumes, made, cycle, passed, contract, outcome>>
  BY DEF Test, starts
<1>2. tree' \in [Files -> States]
  BY <1>0, WrittenIs DEF Types
<1>3. Types'
  BY <1>0, <1>1, <1>2 DEF Types, Progress
<1>4. Progress' /\ PlanWasReviewed' /\ PassIsEvidenced'
  BY <1>0, <1>1 DEF Types, Progress, PlanWasReviewed, PassIsEvidenced, NotYet
<1> QED
  BY <1>3, <1>4

LEMMA CheckKeeps == ASSUME IInv, Check PROVE IInv'
<1> USE AcceptanceAssumption, CycleBounds DEF IInv
<1>1. /\ pc = "check" /\ pc' = "ended"
      /\ UNCHANGED <<attempt, retried, resumes, made, cycle, passed, contract, touched,
                     round, status>>
  BY DEF Check, starts
<1>2. CASE outcome' = Outcome("FAIL", "boundary") /\ UNCHANGED <<tree, stated>>
  BY <1>1, <1>2 DEF Types, Progress, PlanWasReviewed, PassIsEvidenced, Outcome, Causes, NotYet
<1>3. CASE /\ tree' = Written(tree, Reports) /\ outcome' = Outcome(status, "tests")
           /\ stated' = IF Summary \in Reports THEN status ELSE stated
  <2>1. /\ tree' \in [Files -> States] /\ \A f \in Reports : tree'[f] # "absent"
        /\ \A f \in Files : tree[f] # "absent" => tree'[f] # "absent"
    BY <1>3, WrittenIs, ReportsIs DEF Types, States
  <2>2. status = "PASS" => tree'[Summary] # "absent" /\ tree'[Results] # "absent"
    BY <2>1 DEF Reports
  <2>3. stated' \in {"PASS", "FAIL"}
    BY <1>3 DEF Reports, Types
  <2> QED
    BY <1>1, <1>3, <2>1, <2>2, <2>3
       DEF Types, Progress, PlanWasReviewed, PassIsEvidenced, Outcome, Causes, NotYet
<1> QED
  BY <1>2, <1>3 DEF Check

\* What checkpoints and early ends leave of a workspace.
LEMMA LeftIs ==
  ASSUME NEW t \in [Files -> States]
  PROVE  /\ Committed(t) \in [Files -> States]
         /\ \A u \in Uncommitted(t) :
              /\ u \in [Files -> States]
              /\ \A f \in Files : t[f] \in {"new", "changed"} => u[f] \in {"new", "changed"}
BY DEF Committed, Uncommitted, States

LEMMA LeftKeeps ==
  ASSUME Types, NEW t \in Left
  PROVE  /\ t \in [Files -> States]
         /\ \A f \in Files : tree[f] \in {"new", "changed"} => t[f] \in {"new", "changed"}
<1>1. CASE t = tree
  BY <1>1 DEF Types
<1>2. CASE t = Written(tree, Reports \ {Summary})
  BY <1>2, WrittenIs, ReportsIs DEF Types
<1> QED
  BY <1>1, <1>2 DEF Left

\* A start of the stage puts its own variables back.
LEMMA StartKeeps ==
  ASSUME Types, Starts, attempt' \in 0..Repairs, retried' \in BOOLEAN, resumes' \in Nat,
         tree' \in [Files -> States], touched' \subseteq Files
  PROVE  IInv'
BY AcceptanceAssumption, CycleBounds
   DEF Starts, IInv, Types, Progress, PlanWasReviewed, PassIsEvidenced, NotYet, Causes

LEMMA RepairKeeps == ASSUME IInv, Repair PROVE IInv'
<1>1. PICK fs \in SUBSET {f \in Files : ClassOf[f] = "other"} :
        tree' \in {Committed(Written(tree, fs))} \cup Uncommitted(Written(tree, fs))
  BY DEF Repair
<1>2. Written(tree, fs) \in [Files -> States]
  BY WrittenIs DEF IInv, Types
<1>3. tree' \in [Files -> States]
  BY <1>1, <1>2, LeftIs
<1>4. attempt' \in 0..Repairs
  BY AcceptanceAssumption DEF Repair, Repairable, IInv, Types
<1> QED
  BY <1>3, <1>4, StartKeeps DEF Repair, IInv, Types

LEMMA RetryKeeps == ASSUME IInv, Retry PROVE IInv'
<1>1. tree' \in [Files -> States]
  BY LeftKeeps DEF Retry, IInv
<1> QED
  BY <1>1, StartKeeps DEF Retry, IInv, Types

LEMMA ResumeKeeps == ASSUME IInv, Resume PROVE IInv'
<1>1. PICK t \in Left :
        \/ tree' = Committed(t) /\ touched' = {}
        \/ tree' \in Uncommitted(t) /\ UNCHANGED touched
  BY DEF Resume
<1>2. tree' \in [Files -> States] /\ touched' \subseteq Files
  BY <1>1, LeftKeeps, LeftIs DEF IInv, Types
<1>3. Types /\ Starts /\ attempt' \in 0..Repairs /\ resumes' \in Nat
  BY DEF Resume, IInv, Types
<1>4. retried' \in BOOLEAN
  BY Zenon DEF Resume
<1> QED
  BY <1>2, <1>3, <1>4, StartKeeps

LEMMA FinishKeeps == ASSUME IInv, Finish PROVE IInv'
BY DEF Finish, starts, IInv, Types, Progress, PlanWasReviewed, PassIsEvidenced, NotYet

LEMMA NextKeeps == ASSUME IInv, [Next]_vars PROVE IInv'
<1>1. CASE UNCHANGED vars
  BY <1>1 DEF vars, IInv, Types, Progress, PlanWasReviewed, PassIsEvidenced
<1> QED
  BY <1>1, PlanKeeps, ReviewKeeps, TestKeeps, CheckKeeps, RepairKeeps, FinishKeeps,
     RetryKeeps, ResumeKeeps DEF Next, Step

LEMMA Invariance == Spec => []IInv
<1>1. IInv /\ [Next]_vars => IInv'
  BY NextKeeps
<1> QED
  BY InitHolds, <1>1, PTL DEF Spec

-----------------------------------------------------------------------------
\* Attempts, cycles and rounds stay within their caps, for any number of repairs.
THEOREM TypesHold == Spec => []AcceptanceTypeOK
<1>1. IInv => AcceptanceTypeOK
  BY DEF IInv, Types, AcceptanceTypeOK, States
<1> QED
  BY Invariance, <1>1, PTL

\* Tests are authored only against the last coverage plan, which no reviewer failed since
\* the stage last started (acceptance-tester.ts:54-96), for any reviewers and depth.
THEOREM PlanReviewed == Spec => []PlanWasReviewed
BY Invariance, PTL DEF IInv

\* A phase that passed has both reports and a stated status (acceptance-tester.ts:197).
THEOREM PassEvidenced == Spec => []PassIsEvidenced
BY Invariance, PTL DEF IInv

\* Only failed tests are sent back to implement (outcome-interpreter.ts:121-141).
THEOREM TestsRepaired == Spec => OnlyTestsAreRepaired
<1>1. [Next]_vars => [attempt' # attempt => outcome.cause = "tests" /\ outcome.status = "FAIL"]_vars
  BY DEF Next, Step, Plan, Review, Test, Check, Repair, Repairable, Finish, Retry, Resume,
         starts, vars
<1> QED
  BY <1>1, PTL DEF Spec, OnlyTestsAreRepaired

-----------------------------------------------------------------------------
(* Where no path of production code looks like a test or an artifact without  *)
(* its first letter, a file that a session touched is in no pass, except      *)
(* those that were listed before the rounds: what sessions have touched is    *)
(* listed by git status until a checkpoint commits it, over whatever starts   *)
(* of the stage, so what is not in the listing before is new in the one after. *)

Listed == \A f \in touched : tree[f] \in {"new", "changed"}

ShornAlike == \A f \in Files : ClassOf[f] = "other" => ClassOfShorn[f] = "other"

Reported == Types /\ Progress /\ Listed /\ ProductionChangeReported

LEMMA ViolationsListed ==
  ASSUME ShornAlike, Types, Listed,
         NEW f \in touched, ClassOf[f] = "other", f \notin {n.file : n \in before}
  PROVE  Violations # {}
<1> DEFINE name == [file |-> f, shorn |-> tree[f] = "changed"]
<1>1. f \in Files /\ name \in Names
  BY DEF Names, Listed, Types
<1>2. ClassOfName(name) = "other"
  BY <1>1 DEF ClassOfName, ShornAlike
<1>3. name \notin before
  OBVIOUS
<1> QED
  BY <1>1, <1>2, <1>3 DEF Violations

LEMMA ListedKeeps == ASSUME IInv, Listed, [Next]_vars PROVE Listed'
<1> USE DEF IInv
<1>1. CASE Test
  <2>1. PICK fs \in SUBSET Files : tree' = Written(tree, fs) /\ touched' = touched \cup fs
    BY <1>1 DEF Test
  <2> QED
    BY <2>1, WrittenIs DEF Types, Listed
<1>2. CASE Check
  BY <1>2, WrittenIs, ReportsIs DEF Check, Types, Listed
<1>3. CASE Retry
  BY <1>3, LeftKeeps DEF Retry, Types, Listed
<1>4. CASE Resume
  <2>1. PICK t \in Left :
          \/ tree' = Committed(t) /\ touched' = {}
          \/ tree' \in Uncommitted(t) /\ UNCHANGED touched
    BY <1>4 DEF Resume
  <2> QED
    BY <2>1, LeftKeeps, LeftIs DEF Types, Listed
<1>5. CASE Plan \/ Review \/ Repair \/ Finish \/ UNCHANGED vars
  BY <1>5 DEF Plan, Review, Repair, Finish, vars, Listed
<1> QED
  BY <1>1, <1>2, <1>3, <1>4, <1>5 DEF Next, Step

LEMMA ReportedKeeps ==
  ASSUME ShornAlike, IInv, IInv', Reported, [Next]_vars
  PROVE  Reported'
<1> USE DEF IInv, Reported
<1>1. Listed'
  BY ListedKeeps
<1>2. CASE Check
  <2>1. outcome'.status = "PASS" => Violations = {}
    BY <1>2 DEF Check, Outcome
  <2>2. outcome'.status = "PASS" =>
          \A f \in touched : ClassOf[f] = "other" => f \in {n.file : n \in before}
    BY <2>1, ViolationsListed
  <2> QED
    BY <1>1, <1>2, <2>2 DEF Check, ProductionChangeReported
<1>3. CASE Finish \/ UNCHANGED vars
  BY <1>1, <1>3 DEF Finish, vars, ProductionChangeReported
<1>4. CASE Plan \/ Review \/ Test
  <2>1. outcome'.status # "PASS"
    BY <1>4 DEF Plan, Review, Test, Progress, Outcome, NotYet
  <2> QED
    BY <1>1, <2>1 DEF ProductionChangeReported
<1>5. CASE Repair \/ Retry \/ Resume
  <2>1. outcome'.status # "PASS"
    BY <1>5 DEF Repair, Retry, Resume, Starts, NotYet
  <2> QED
    BY <1>1, <2>1 DEF ProductionChangeReported
<1> QED
  BY <1>2, <1>3, <1>4, <1>5 DEF Next, Step

\* No new change of production code passes, in whichever round of whichever start of the
\* stage, if paths of production code keep their class where git status shortens them
\* (acceptance-tester.ts:157, 364).
THEOREM ProductionReported ==
  ASSUME ShornAlike
  PROVE  Spec => []ProductionChangeReported
<1>1. Init => Reported
  <2> SUFFICES ASSUME Init PROVE Reported
    OBVIOUS
  <2>1. Types /\ Progress
    BY InitHolds DEF IInv
  <2> QED
    BY <2>1 DEF Init, Reported, Listed, ProductionChangeReported, NotYet
<1>2. IInv /\ IInv' /\ Reported /\ [Next]_vars => Reported'
  BY ReportedKeeps
<1>3. Reported => ProductionChangeReported
  BY DEF Reported
<1> QED
  BY Invariance, <1>1, <1>2, <1>3, PTL DEF Spec

\* All of it together, under the same condition and over any retries, resumes and failed
\* checkpoints: a phase is accepted on reviewed tests, with new changes of production
\* code reported, and on evidence (acceptance-tester.ts).
THEOREM AcceptanceHolds ==
  ASSUME ShornAlike
  PROVE  Spec => []AcceptanceSound
<1>1. AcceptanceTypeOK /\ PlanWasReviewed /\ ProductionChangeReported /\ PassIsEvidenced
        => AcceptanceSound
  BY DEF AcceptanceSound
<1> QED
  BY <1>1, TypesHold, PlanReviewed, ProductionReported, PassEvidenced, PTL

=============================================================================
