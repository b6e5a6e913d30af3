------------------------------ MODULE TaskSpecs ------------------------------
(***************************************************************************)
(* How the tasks of a plan reach the implement stage.  plan.ts drafts and  *)
(* reviews plan.md with an outline per task, then has a spec written and   *)
(* reviewed for every outline file in tasks/outlines; phases/phase-01/tasks *)
(* is a link to tasks/.  replan.ts redrafts the plan after a phase and     *)
(* writes the specs of the next phase into phases/phase-NN/tasks.          *)
(* implement.ts takes the specs of the phase directory if it has any, else *)
(* the base specs, and of these the ones that name the phase.  A backward  *)
(* loop archives tasks/ and phases/.                                       *)
(*                                                                         *)
(* A file is reduced to the draft it was written from and the phase it     *)
(* names.  The agents keep what their prompts say: a draft of the plan     *)
(* outlines all its tasks, one of the replan lists all of the next phase's *)
(* and keeps the completed phases, and the task spec reviewer passes only  *)
(* a spec of the current outline; when a session fails is free, and so is  *)
(* how many phases a replan leaves or adds.                                *)
(***************************************************************************)
EXTENDS Naturals, FiniteSets

CONSTANTS Tasks,     \* task numbers
          Phases,    \* largest number of phases of a plan
          Rounds,    \* review rounds of plan, of task specs and of replan
          MaxDrafts  \* bound of the model: drafts of the plan in a run

ASSUME SpecsAssumption ==
  /\ Tasks \subseteq Nat /\ IsFiniteSet(Tasks) /\ Tasks # {}
  /\ Phases \in Nat \ {0} /\ Rounds \in Nat \ {0} /\ MaxDrafts \in Nat

VARIABLES
  pc, phase,
  total,     \* the run's number of phases, read from the manifest after plan
  plan,      \* plan.md and phase-manifest.md: the phase of each task, 0 none
  draft,     \* number of drafts so far
  first,     \* the first draft since the last backward loop
  outlines,  \* tasks/outlines: per task the draft and phase of its file
  base,      \* tasks: the same
  dirs,      \* phases/phase-NN/tasks for NN > 1: the same
  linked,    \* phases/phase-01/tasks exists
  round, todo,
  loaded,    \* the specs that the implement stage runs
  ran,       \* history: the tasks run since the last backward loop
  given,     \* what the replan writer was given, and whether a review was
  soft,      \* an unresolved cap of the plan stage was let through
  blank      \* history: the phases for which the last draft of a replan has no task,
             \* or whose replan has written no draft yet

vars == <<pc, phase, total, plan, draft, first, outlines, base, dirs, linked,
          round, todo, loaded, ran, given, soft, blank>>
files == <<outlines, base, dirs, linked>>

None == [draft |-> 0, phase |-> 0]
NoFiles == [t \in Tasks |-> None]
Present(dir) == {t \in Tasks : dir[t] # None}
In(p) == {t \in Tasks : plan[t] = p}
NothingGiven == [review |-> TRUE, completed |-> {}, remaining |-> {}]

\* Plans with tasks in each of the phases 1..n, for some n.
Plans == {d \in [Tasks -> 0..Phases] :
            \E n \in 1..Phases : {d[t] : t \in Tasks} \ {0} = 1..n}
Replans == [Tasks -> 0..Phases]
Last(d) == CHOOSE n \in 0..Phases :
             (\E t \in Tasks : d[t] = n) /\ \A t \in Tasks : d[t] <= n

Init ==
  /\ pc = "plan" /\ phase = 1 /\ total = 1
  /\ plan = [t \in Tasks |-> 0] /\ draft = 0 /\ first = 1
  /\ outlines = NoFiles /\ base = NoFiles
  /\ dirs = [p \in 2..Phases |-> NoFiles] /\ linked = FALSE
  /\ round = 1 /\ todo = {}
  /\ loaded = {} /\ ran = {} /\ given = NothingGiven
  /\ soft = FALSE /\ blank = {}

-----------------------------------------------------------------------------
(* The plan stage. *)

\* A draft replaces the outlines of its own tasks, the others stay.  The
\* writer of a later round is not given the review of the earlier one.
WritePlan(d) ==
  /\ pc = "plan" /\ draft < MaxDrafts
  /\ plan' = d /\ draft' = draft + 1
  /\ outlines' = [t \in Tasks |-> IF d[t] # 0
                                  THEN [draft |-> draft + 1, phase |-> d[t]]
                                  ELSE outlines[t]]
  /\ given' = [NothingGiven EXCEPT !.review = (round = 1)]
  /\ pc' = "planReview"
  /\ UNCHANGED <<phase, total, first, base, dirs, linked, round, todo, loaded,
                 ran, soft, blank>>

\* Output without its sections, a failed session's included, throws.
PlanThrows ==
  /\ pc = "plan"
  /\ pc' = "failed"
  /\ UNCHANGED <<phase, total, plan, draft, first, files, round, todo, loaded,
                 ran, given, soft, blank>>

ReviewPlan(pass) ==
  /\ pc = "planReview"
  /\ \/ /\ pass
        /\ pc' = "specs" /\ round' = 1
        /\ todo' = Present(outlines)
     \/ /\ ~pass /\ round = Rounds
        /\ pc' = "capped" /\ UNCHANGED <<round, todo>>
     \/ /\ ~pass /\ round < Rounds
        /\ pc' = "plan" /\ round' = round + 1 /\ UNCHANGED todo
  /\ UNCHANGED <<phase, total, plan, draft, first, files, loaded, ran, given,
                 soft, blank>>

Next1(ts) == CHOOSE t \in ts : \A u \in ts : t <= u

\* phases/phase-01/tasks is linked to tasks/ unless it is there already.
EnsurePhaseLayout == linked' = TRUE

\* One round for the first outline left: the writer writes the spec or not.
WriteSpec(wrote, pass) ==
  LET t == Next1(todo)
      new == IF wrote THEN [base EXCEPT ![t] = outlines[t]] ELSE base IN
  /\ pc = "specs" /\ todo # {}
  /\ pass => new[t] = outlines[t]
  /\ base' = new
  /\ \/ /\ pass
        /\ todo' = todo \ {t} /\ round' = 1 /\ UNCHANGED <<pc, linked>>
     \/ /\ ~pass /\ round < Rounds
        /\ round' = round + 1 /\ UNCHANGED <<pc, todo, linked>>
     \/ /\ ~pass /\ round = Rounds
        /\ pc' = "capped" /\ EnsurePhaseLayout
        /\ todo' = {} /\ UNCHANGED round
  /\ UNCHANGED <<phase, total, plan, draft, first, outlines, dirs, loaded,
                 ran, given, soft, blank>>

\* A writer that reports FAIL ends the stage, earlier specs stay.
SpecFails ==
  /\ pc = "specs" /\ todo # {}
  /\ pc' = "capped" /\ EnsurePhaseLayout
  /\ todo' = {}
  /\ UNCHANGED <<phase, total, plan, draft, first, outlines, base, dirs,
                 round, loaded, ran, given, soft, blank>>

PlanPasses ==
  /\ pc = "specs" /\ todo = {}
  /\ EnsurePhaseLayout
  /\ total' = Last(plan) /\ phase' = 1
  /\ soft' = FALSE /\ blank' = {}
  /\ pc' = "implement"
  /\ UNCHANGED <<plan, draft, first, outlines, base, dirs, round, todo,
                 loaded, ran, given>>

\* The operator, best-effort or a resume: nothing on disk is reset.
Accepted ==
  /\ pc = "capped"
  /\ soft' = TRUE /\ blank' = {}
  /\ total' = Last(plan) /\ phase' = 1
  /\ pc' = "implement"
  /\ UNCHANGED <<plan, draft, first, files, round, todo, loaded, ran, given>>

RetryPlan ==
  /\ pc \in {"capped", "failed"}
  /\ pc' = "plan" /\ round' = 1
  /\ UNCHANGED <<phase, total, plan, draft, first, files, todo, loaded, ran,
                 given, soft, blank>>

-----------------------------------------------------------------------------
(* Implement and what follows it. *)

Dir(p) == IF p = 1 THEN (IF linked THEN base ELSE NoFiles) ELSE dirs[p]

Source(p) == IF Present(Dir(p)) # {} THEN Dir(p) ELSE base

LoadPhaseTasks(p) == {t \in Tasks : Source(p)[t].phase = p}

Implement ==
  /\ pc = "implement"
  /\ loaded' = {[task |-> t, draft |-> Source(phase)[t].draft] :
                  t \in LoadPhaseTasks(phase)}
  /\ ran' = ran \cup LoadPhaseTasks(phase)
  /\ pc' = "accept"
  /\ UNCHANGED <<phase, total, plan, draft, first, files, round, todo, given,
                 soft, blank>>

\* Implement again for an acceptance fix, or from phase 1 for a failed verify.
Fix ==
  /\ pc = "accept"
  /\ \/ UNCHANGED phase
     \/ phase = total /\ phase' = 1
  /\ pc' = "implement"
  /\ UNCHANGED <<total, plan, draft, first, files, round, todo, loaded, ran,
                 given, soft, blank>>

\* Mutant of Finish: the second to last phase is taken for the last.
FinishEarly ==
  /\ pc = "accept"
  /\ IF phase + 1 < total
     THEN pc' = "replan" /\ round' = 1 /\ blank' = blank \cup {phase + 1}
     ELSE pc' = "done" /\ UNCHANGED <<round, blank>>
  /\ UNCHANGED <<phase, total, plan, draft, first, files, todo, loaded, ran,
                 given, soft>>

Finish ==
  /\ pc = "accept"
  /\ IF phase < total
     THEN pc' = "replan" /\ round' = 1 /\ blank' = blank \cup {phase + 1}
     ELSE pc' = "done" /\ UNCHANGED <<round, blank>>
  /\ UNCHANGED <<phase, total, plan, draft, first, files, todo, loaded, ran,
                 given, soft>>

\* Mutant of Archived: the phase directories are forgotten.
ArchivedTasks ==
  outlines' = NoFiles /\ base' = NoFiles /\ UNCHANGED <<dirs, linked>>

\* tasks/ with its outlines, then every entry of phases/.
Archived ==
  /\ outlines' = NoFiles /\ base' = NoFiles
  /\ dirs' = [p \in 2..Phases |-> NoFiles] /\ linked' = FALSE

\* From implement or from replan, to plan or to a stage before it.
BackwardLoop ==
  /\ pc \in {"accept", "replan"} /\ draft < MaxDrafts
  /\ Archived
  /\ plan' = [t \in Tasks |-> 0] /\ first' = draft + 1 /\ ran' = {}
  /\ pc' = "plan" /\ round' = 1 /\ phase' = 1
  /\ UNCHANGED <<total, draft, todo, loaded, given, soft, blank>>

-----------------------------------------------------------------------------
(* The replan stage. *)

\* Replan rules of the writer: completed phases are not rewritten.  Nothing binds
\* the number of phases, which the run read after plan and reads no more.
Keeps(d) ==
  \A t \in Tasks : plan[t] \in 1..phase \/ d[t] \in 1..phase => d[t] = plan[t]

\* The specs of a draft's next phase; those of an earlier draft stay.
WriteNext(d) ==
  [dirs EXCEPT ![phase + 1] =
     [t \in Tasks |-> IF d[t] = phase + 1
                      THEN [draft |-> draft + 1, phase |-> phase + 1] ELSE @[t]]]

Given == [review |-> (round = 1),
          completed |-> Present(Dir(phase)),
          remaining |-> Present(Dir(phase + 1))]

WriteReplan(d) ==
  /\ pc = "replan" /\ draft < MaxDrafts
  /\ Keeps(d)
  /\ plan' = d /\ draft' = draft + 1
  /\ dirs' = WriteNext(d)
  /\ given' = Given
  /\ blank' = IF \E t \in Tasks : d[t] = phase + 1
              THEN blank \ {phase + 1} ELSE blank \cup {phase + 1}
  /\ pc' = "replanReview"
  /\ UNCHANGED <<phase, total, first, outlines, base, linked, round, todo,
                 loaded, ran, soft>>

\* A session that fails, or answers without sections, changes nothing.
WriteNothing ==
  /\ pc = "replan"
  /\ given' = Given
  /\ pc' = "replanReview"
  /\ UNCHANGED <<phase, total, plan, draft, first, files, round, todo, loaded,
                 ran, soft, blank>>

\* Passed, or let through at the cap by the operator or by best-effort.
ReviewReplan(pass) ==
  /\ pc = "replanReview"
  /\ \/ /\ pass \/ round = Rounds
        /\ pc' = "implement" /\ phase' = phase + 1 /\ UNCHANGED round
     \/ /\ ~pass
        /\ pc' = "replan"
        /\ round' = IF round = Rounds THEN 1 ELSE round + 1
        /\ UNCHANGED phase
  /\ UNCHANGED <<total, plan, draft, first, files, todo, loaded, ran, given,
                 soft, blank>>

Done == pc \in {"done", "plan", "replan", "failed", "capped"} /\ UNCHANGED vars

Next ==
  \/ \E d \in Plans : WritePlan(d)
  \/ \E d \in Replans : WriteReplan(d)
  \/ PlanThrows \/ SpecFails \/ PlanPasses \/ Accepted \/ RetryPlan
  \/ \E pass \in BOOLEAN : ReviewPlan(pass) \/ ReviewReplan(pass)
  \/ \E wrote, pass \in BOOLEAN : WriteSpec(wrote, pass)
  \/ Implement \/ Fix \/ Finish \/ BackwardLoop \/ WriteNothing \/ Done

Spec == Init /\ [][Next]_vars

-----------------------------------------------------------------------------
(* Properties. *)

SpecsTypeOK ==
  /\ phase \in 1..total /\ total \in 1..Phases
  /\ round \in 1..Rounds /\ todo \subseteq Present(outlines)
  /\ \A t \in Tasks : outlines[t].draft \in {0} \cup first..draft
  /\ \A s \in loaded : s.task \in Tasks /\ s.draft \in 1..draft

Loaded == {s.task : s \in loaded}

\* Whatever redrafts, replans, fixes and restarts came before, the implement
\* stage of a phase runs every task that the current plan puts into it
\* (implement.ts:315-335), once the plan stage has passed and the replan of the
\* phase wrote something.
PlannedTasksRun ==
  pc = "accept" /\ ~soft /\ phase \notin blank => In(phase) \subseteq Loaded

\* No spec of a plan that a backward loop gave up is run: neither tasks/ nor a
\* phase directory, which would shadow it, survives (artifact-repository.ts:134).
NoDiscardedSpec ==
  pc = "accept" => \A s \in loaded : s.draft >= first

\* A planned task is run as its latest draft specifies it: what a replan wrote
\* for the phase is preferred to the base spec (implement.ts:317).
ReplannedSpecRuns ==
  pc = "accept" /\ phase > 1 =>
    \A s \in loaded : s.draft >= dirs[phase][s.task].draft

\* What is run besides is left over from a draft that a newer one replaced in the
\* same directory: such outlines stay and get specs (plan.ts:211), such specs of a
\* replan stay beside the new ones.  Where one draft wrote all files of the
\* directory, implement runs the tasks of the plan and no others.
OnlyLeftoversBesides ==
  pc = "accept" /\ ~soft /\ phase \notin blank =>
    \A s \in loaded :
      s.task \in In(phase) \/ \E t \in Tasks : Source(phase)[t].draft > s.draft

\* Together: implement runs all that the current plan has for the phase, each task
\* as it was last specified, nothing of a plan that was given up, and besides only
\* what earlier drafts left in the directory.
SpecsSound ==
  /\ SpecsTypeOK /\ PlannedTasksRun /\ NoDiscardedSpec /\ ReplannedSpecRuns
  /\ OnlyLeftoversBesides

\* A run is done only when every task was run that its plan has in a phase of the
\* run, whatever was moved between phases by replans, but for phases whose replan
\* wrote no task (pipeline-loop.ts:172).  A phase that a replan added is not one
\* of the run (AddedPhasesRun).
EveryTaskRan ==
  pc = "done" /\ ~soft => {t \in Tasks : plan[t] \in (1..total) \ blank} \subseteq ran

-----------------------------------------------------------------------------
(* What the documentation says and the code does not do. *)

\* The implement stage runs the tasks of the plan's phase and no others
\* (agents/qrspi-plan-writer.md: the plan lists the tasks of each phase).
OnlyPlannedTasksRun ==
  pc = "accept" /\ ~soft /\ phase \notin blank => Loaded \subseteq In(phase)

\* "Multi-phase work repeats the Implement -> Accept -> Replan loop until all phases
\* are complete" (README.md:147): also those that a replan added.
AddedPhasesRun ==
  pc = "done" /\ ~soft /\ blank = {} => {t \in Tasks : plan[t] # 0} \subseteq ran

\* The specs given to the replan writer as those of the completed phase are of
\* phases that are completed.
CompletedSpecsCompleted ==
  pc = "replanReview" /\ ~soft =>
    \A t \in given.completed : plan[t] \in 1..phase

\* The replan writer is given the specs of the unfinished tasks.
RemainingSpecsGiven ==
  [][pc = "replan" /\ pc' = "replanReview" /\ ~soft =>
       In(phase + 1) \subseteq given'.remaining]_vars

\* A replan passes only with specs for the next phase.
PassWritesSpecs ==
  [][pc = "replanReview" /\ pc' = "implement" => Present(dirs[phase']) # {}]_vars

\* The writer of another round is given the review of the last one.
WriterKnowsReview == given.review

=============================================================================
