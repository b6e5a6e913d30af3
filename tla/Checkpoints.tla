----------------------------- MODULE Checkpoints -----------------------------
(***************************************************************************)
(* The git history that a run leaves (pipeline-loop.ts, CheckpointManager  *)
(* in version-control.ts).  A run starts on a branch of its own, and after *)
(* each completed stage, and when it ends, the workspace and the run       *)
(* directory are committed to whatever is checked out.  Each git command   *)
(* may fail, which stops nothing but that checkpoint, and the process may  *)
(* die between any two of them and be resumed with the run's id.           *)
(*                                                                         *)
(* A backward loop, a deferral or a fix sends the run to another stage:    *)
(* that is saved and not committed, so the next commit has it.             *)
(*                                                                         *)
(* The workspace has two parts: the code, of which the model keeps the     *)
(* last stage that changed it, and the run directory: the state, the       *)
(* number of events in the log, and whether the last of them is an end.    *)
(* Stages are numbered as a run passes them that is not sent elsewhere.    *)
(***************************************************************************)
EXTENDS Naturals, Sequences, SequencesExt

CONSTANTS
  Stages,      \* number of stages
  MayBlock,    \* whether git may refuse to create the run branch
  Elsewhere,   \* whether the user checks out main while the run is stopped
  MaxTurns,    \* bound of the model: how often the run is sent elsewhere
  MaxFailures, \* bound of the model: git commands that fail
  MaxResumes   \* bound of the model: resumes

ASSUME CheckpointsAssumption ==
  /\ Stages \in Nat \ {0} /\ {MaxTurns, MaxFailures, MaxResumes} \subseteq Nat
  /\ {MayBlock, Elsewhere} \subseteq BOOLEAN

VARIABLES
  pc,       \* the step of the pipeline, or down when no process runs
  head,     \* the branch checked out: main or run
  tips,     \* per branch: its commits, none of them when it does not exist
  work,     \* the workspace
  staged,   \* the index
  doing,    \* the stage and action of the checkpoint in progress
  failures, resumes,
  kept      \* history: git refused no run branch and nobody has left it

vars == <<pc, head, tips, work, staged, doing, failures, resumes, kept>>

\* last and next: lastCompletedStage and nextStage of state.json; turn: how often the
\* run was sent elsewhere, which its counters tell; code: the turn and stage of the last
\* change of the code.
Empty == [code |-> [turn |-> 0, stage |-> 0], last |-> 0, next |-> 1, turn |-> 0,
          log |-> 0, closed |-> FALSE]
NoCheckpoint == [stage |-> 0, action |-> "none"]
Commit(tree, what) == [tree |-> tree, stage |-> what.stage, action |-> what.action]

Init ==
  /\ pc = "start" /\ head = "main"
  /\ \E first \in {<<>>, <<Commit(Empty, NoCheckpoint)>>} :
       tips = [b \in {"main", "run"} |-> IF b = "main" THEN first ELSE <<>>]
  /\ work = Empty /\ staged = Empty /\ doing = NoCheckpoint
  /\ failures = 0 /\ resumes = 0 /\ kept = TRUE

Logged(n) == [work EXCEPT !.log = @ + n, !.closed = FALSE]

\* Mutant of CreateRunBranch: the branch is created and not checked out.
CreateRunBranchAside ==
  /\ pc = "start" /\ pc' = "record"
  /\ tips' = [tips EXCEPT !["run"] = <<Commit(Empty, NoCheckpoint)>>]
  /\ UNCHANGED <<head, work, staged, doing, failures, resumes, kept>>

\* createRunBranch: an orphan in a repository without commits, else a branch at
\* main; git refuses if there is one of that name.  The result is not looked at.
CreateRunBranch ==
  /\ pc = "start" /\ pc' = "record"
  /\ \/ /\ tips["run"] = <<>>
        /\ head' = "run"
        /\ tips' = [tips EXCEPT !["run"] =
                      IF tips["main"] = <<>> THEN <<Commit(Empty, NoCheckpoint)>>
                      ELSE tips["main"]]
        /\ UNCHANGED kept
     \/ /\ tips["run"] # <<>> \/ MayBlock
        /\ kept' = (kept /\ head = "run")
        /\ UNCHANGED <<head, tips>>
  /\ UNCHANGED <<work, staged, doing, failures, resumes>>

\* run.started, and the first state is saved
RecordStart ==
  /\ pc = "record" /\ pc' = "stage"
  /\ work' = Logged(1)
  /\ UNCHANGED <<head, tips, staged, doing, failures, resumes, kept>>

-----------------------------------------------------------------------------
(* The pipeline. *)

\* A stage runs; the process may die before its code is all there.
RunStage ==
  LET changed == [turn |-> work.turn, stage |-> work.next] IN
  /\ pc = "stage" /\ work.next <= Stages
  /\ work' = [Logged(1) EXCEPT !.code = changed]
  /\ \/ pc' = "save"
     \/ pc' = "stage" /\ work.code # changed
  /\ UNCHANGED <<head, tips, staged, doing, failures, resumes, kept>>

Begins(what) == doing' = what /\ pc' = "addCode"

\* Mutant of SaveState: the state is not saved.
SaveStateLost ==
  /\ pc = "save"
  /\ Begins([stage |-> work.next, action |-> "complete"])
  /\ UNCHANGED <<head, tips, work, staged, failures, resumes, kept>>

\* applyStageTransition, stateRepo.save, and the checkpoint after it
SaveState ==
  /\ pc = "save"
  /\ work' = [work EXCEPT !.last = work.next, !.next = @ + 1]
  /\ Begins([stage |-> work.next, action |-> "complete"])
  /\ UNCHANGED <<head, tips, staged, failures, resumes, kept>>

\* A stage that sends the run elsewhere: a backward loop or a deferral is saved as it
\* is, a fix of accept or verify with that stage completed.  No checkpoint.
Reroute ==
  /\ pc = "save" /\ work.turn < MaxTurns
  /\ \E to \in 1..Stages, last \in {work.last, work.next} :
       work' = [Logged(1) EXCEPT !.turn = @ + 1, !.next = to, !.last = last]
  /\ pc' = "stage"
  /\ UNCHANGED <<head, tips, staged, doing, failures, resumes, kept>>

\* run.completed when the run is done or breaks off, run.aborted when a stage throws
EndRun ==
  /\ pc = "stage"
  /\ \E action \in {"finalized"} \cup IF work.next <= Stages THEN {"failed"} ELSE {} :
       IF work.last = 0 THEN pc' = "over" /\ UNCHANGED doing
       ELSE Begins([stage |-> work.last, action |-> action])
  /\ work' = [Logged(1) EXCEPT !.closed = TRUE]
  /\ UNCHANGED <<head, tips, staged, failures, resumes, kept>>

-----------------------------------------------------------------------------
(* stageBoundaryCheckpoint. *)

\* After a checkpoint, or an attempt at one, an event; none if it was skipped.
AfterCheckpoint(skipped) ==
  /\ pc' = IF doing.action = "complete" THEN "stage" ELSE "over"
  /\ doing' = NoCheckpoint
  /\ work' = IF skipped THEN work ELSE [work EXCEPT !.log = @ + 1]

\* git add -A -- . without .pipeline
AddCode ==
  /\ pc = "addCode" /\ pc' = "addRun"
  /\ staged' = [staged EXCEPT !.code = work.code]
  /\ UNCHANGED <<head, tips, work, doing, failures, resumes, kept>>

\* git add -A -f -- .pipeline/<runId>
AddRun ==
  /\ pc = "addRun" /\ pc' = "commit"
  /\ staged' = [work EXCEPT !.code = staged.code]
  /\ UNCHANGED <<head, tips, work, doing, failures, resumes, kept>>

HeadTree == IF tips[head] = <<>> THEN Empty ELSE Last(tips[head]).tree

\* git diff --cached, and git commit if there is something
CommitStaged ==
  /\ pc = "commit"
  /\ IF staged = HeadTree THEN UNCHANGED tips
     ELSE tips' = [tips EXCEPT ![head] = Append(@, Commit(staged, doing))]
  /\ AfterCheckpoint(staged = HeadTree)
  /\ UNCHANGED <<head, staged, failures, resumes, kept>>

\* pi.exec reports an error: the checkpoint is given up, what it staged stays.
GitFails ==
  /\ pc \in {"addCode", "addRun", "commit"} /\ failures < MaxFailures
  /\ failures' = failures + 1
  /\ AfterCheckpoint(FALSE)
  /\ UNCHANGED <<head, tips, staged, resumes, kept>>

-----------------------------------------------------------------------------
(* Between processes. *)

Crash ==
  /\ pc \notin {"down", "over"}
  /\ pc' = "down" /\ doing' = NoCheckpoint
  /\ UNCHANGED <<head, tips, work, staged, failures, resumes, kept>>

\* git checkout -f main: a run directory that is tracked where he comes from, and
\* not on main, is removed from the workspace.
UserLeaves ==
  /\ Elsewhere /\ pc \in {"down", "over"} /\ head = "run" /\ tips["main"] # <<>>
  /\ head' = "main"
  /\ work' = IF HeadTree.log > 0 THEN Last(tips["main"]).tree ELSE work
  /\ staged' = Last(tips["main"]).tree
  /\ pc' = "down" /\ kept' = FALSE
  /\ UNCHANGED <<tips, doing, failures, resumes>>

\* Mutant of Resume: the state is not found.
ResumeAnew ==
  /\ pc \in {"down", "over"} /\ resumes < MaxResumes /\ work.next <= Stages
  /\ resumes' = resumes + 1
  /\ pc' = "start" /\ work' = Empty
  /\ UNCHANGED <<head, tips, staged, doing, failures, kept>>

\* run-id:<id>: with a state the run goes on; without one it starts.
Resume ==
  /\ pc \in {"down", "over"} /\ resumes < MaxResumes /\ work.next <= Stages
  /\ resumes' = resumes + 1
  /\ IF work.log = 0 THEN pc' = "start" /\ UNCHANGED work
     ELSE pc' = "stage" /\ work' = Logged(1)
  /\ UNCHANGED <<head, tips, staged, doing, failures, kept>>

Next ==
  \/ CreateRunBranch \/ RecordStart \/ RunStage \/ SaveState \/ Reroute \/ EndRun
  \/ AddCode \/ AddRun \/ CommitStaged \/ GitFails
  \/ Crash \/ UserLeaves \/ Resume

Spec == Init /\ [][Next]_vars

-----------------------------------------------------------------------------
(* Properties. *)

CheckpointsTypeOK ==
  /\ pc \in {"start", "record", "stage", "save", "addCode", "addRun", "commit", "down", "over"}
  /\ head \in {"main", "run"}
  /\ work.code.stage \in 0..Stages /\ work.last \in 0..Stages
  /\ work.next \in 1..(Stages + 1) /\ work.turn \in 0..MaxTurns
  /\ doing.action \in {"none", "complete", "finalized", "failed"}
  /\ pc \in {"addCode", "addRun", "commit"} <=> doing # NoCheckpoint
  /\ kept \in BOOLEAN

Commits == UNION {{tips[b][i] : i \in DOMAIN tips[b]} : b \in {"main", "run"}}

\* The state in a commit is that of its code, and of its message: a commit after
\* stage s says that s is done and has the code of s, of the same turn; no commit says
\* that a stage is done whose code it lacks, and none is more than a turn ahead of its
\* code, also when an earlier checkpoint failed halfway.
CommitsAreConsistent ==
  \A c \in Commits :
    /\ c.tree.code.turn <= c.tree.turn /\ c.tree.turn <= c.tree.code.turn + 1
    /\ c.tree.turn = c.tree.code.turn => c.tree.next <= c.tree.code.stage + 1
    /\ c.action = "complete" =>
         /\ c.tree.last = c.stage /\ c.tree.next = c.stage + 1
         /\ c.tree.code = [turn |-> c.tree.turn, stage |-> c.stage]

\* The trail goes forward: a later commit never has less of the log or of an earlier
\* turn, and one of the same turn never has fewer stages done.
TrailGoesForward ==
  \A b \in {"main", "run"} : \A i, j \in DOMAIN tips[b] :
    LET s == tips[b][i].tree
        t == tips[b][j].tree
    IN i < j => /\ s.log <= t.log /\ s.turn <= t.turn
                /\ s.turn = t.turn => s.next <= t.next

\* "so this run-finalization commit ... captures the run.completed event"
\* (pipeline-loop.ts:206): of a run that is over, when nothing failed, all but the
\* event of that very commit is in the branch.
EndIsCommitted ==
  pc = "over" /\ work.last > 0 /\ failures = 0 =>
    Last(tips[head]).tree = [work EXCEPT !.log = @ - 1]

\* Together: whatever fails halfway, the history can be read as the run's.
HistoryHolds ==
  CheckpointsTypeOK /\ CommitsAreConsistent /\ TrailGoesForward /\ EndIsCommitted

\* "Those commits live only on the run branch" (README.md:232).
RunBranchOnly == \A i \in DOMAIN tips["main"] : tips["main"][i].action = "none"

\* ... which holds as long as git does not refuse the branch and nobody leaves it,
\* over all failures, crashes and resumes.
KeptBranchOnly == kept => RunBranchOnly

\* Under the same condition a run is picked up with what was committed, or what came
\* after it: it never starts anew.
KeptPickedUp ==
  [][kept /\ pc' = "start" /\ pc # "start" => \A c \in Commits : c.tree.log = 0]_vars

-----------------------------------------------------------------------------
(* What the documentation says and the code does not do. *)

\* "a crashed run can be picked back up with run-id" (mental-model.md:257): also
\* when the user has looked at another branch meanwhile.
PickedUpWhereItWas ==
  [][pc' = "start" /\ pc # "start" => \A c \in Commits : c.tree.log = 0]_vars

=============================================================================
