----------------------------- MODULE ImplementWave -----------------------------
(***************************************************************************)
(* The implement stage: the tasks of a wave run in parallel, each in a     *)
(* worktree of its own, through code, test, verify and review; then they   *)
(* are squashed one after the other into the branch that is checked out.   *)
(* The first error of a task ends the stage, not the other tasks: they go  *)
(* on beside a retry of the stage.                                         *)
(***************************************************************************)
EXTENDS WavePlanner

CONSTANTS MaxAttempts,       \* bound of the model: how often the stage is entered
          AutomaticRetries,  \* of the stage after an error: 1 under best-effort, else 0;
                             \* a resume may come under another policy
          Checkouts,         \* what createRunBranch left checked out
          SameProcess,       \* a resume may come while the process still runs
          SwitchesBranch,    \* the user may check out another branch before a resume
          GitFails           \* git may fail for reasons of its own

ASSUME ImplementAssumption ==
    /\ AutomaticRetries \subseteq {0, 1} /\ 0 \in AutomaticRetries
    /\ MaxAttempts \in Nat \ {0}
    /\ Checkouts \subseteq {"run", "main", "unborn"}
    /\ SameProcess \in BOOLEAN /\ SwitchesBranch \in BOOLEAN /\ GitFails \in BOOLEAN
    /\ IsFiniteSet(TaskSpec)

VARIABLES control,    \* where the stage is
          attempt,    \* which time it is entered
          retries,    \* automatic retries that executeStage has left
          wave,       \* index of the current wave
          job,        \* the promise of each attempt and task
          merging,    \* where the merge of the current task is
          log,        \* tasks merged in this attempt, in order
          manifest,   \* the rows of execution-manifest.md
          outcome,    \* how the stage ended
          head,       \* the branch checked out in the workspace
          runExists,  \* the run branch exists
          work,       \* per branch, the tasks whose work it holds
          tree,       \* per task, its worktree
          merged      \* history: what the branch took of each task

stageVars == <<control, attempt, retries, wave, merging, log, manifest, outcome>>
gitVars == <<head, runExists, work, tree, merged>>
vars == <<planVars, stageVars, gitVars, job>>

Attempt == 1..MaxAttempts

NoTree == [exists |-> FALSE]

(* content: what a session wrote last; committed: what the task branch has. *)
Content == {"draft", "verified", "resolved"}

Tree == [exists : {TRUE}, base : SUBSET TaskSpec, content : Content,
         committed : Content, rebasing : BOOLEAN]

Prepares == {"cleanup", "ensure", "create", "add"}
Works == {"code", "test", "verify", "review"}
Settled == {"passed", "failed", "threw"}

Job == [pc : {"idle", "ready", "dead"} \cup Prepares \cup Works \cup Settled,
        try : 1..2, answered : BOOLEAN]

Idle == [pc |-> "idle", try |-> 1, answered |-> FALSE]

Steps == {"commit", "squash", "rebase", "fix", "continue", "recommit", "resquash"}

(* The bound leaves room for the retries of the last entry. *)
RetriesAt(entry) == {r \in AutomaticRetries : entry + r <= MaxAttempts}

Init ==
    /\ PlanInit
    /\ control = "plan" /\ attempt = 1 /\ retries \in RetriesAt(1) /\ wave = 1
    /\ job = [a \in Attempt |-> [t \in TaskSpec |-> Idle]]
    /\ merging = "commit" /\ log = <<>> /\ outcome = "none"
    /\ manifest = [t \in TaskSpec |-> "none"]
    /\ head \in Checkouts
    /\ runExists = (head = "run")
    /\ work = [b \in {"run", "main"} |-> {}]
    /\ tree = [t \in TaskSpec |-> NoTree]
    /\ merged = [t \in TaskSpec |-> "no"]

-----------------------------------------------------------------------------
(* The stage. *)

Wave == waves[wave]

InLog == {log[i] : i \in DOMAIN log}

(* Mutant: the results are merged in the reverse order of their ids. *)
LastTask ==
    CHOOSE t \in Wave \ InLog : \A u \in Wave \ InLog : id(t) >= id(u)

(* The results are sorted by id before they are merged. *)
CurrentTask ==
    CHOOSE t \in Wave \ InLog : \A u \in Wave \ InLog : id(t) <= id(u)

Mine(t) == job[attempt][t]

Move(a, t, pc) == job' = [job EXCEPT ![a][t].pc = pc]

Plan ==
    /\ control = "plan"
    /\ \/ (PlanWave \/ DumpRest) /\ UNCHANGED control
       \/ remaining = {} /\ control' = "wave" /\ UNCHANGED planVars
    /\ UNCHANGED <<attempt, retries, wave, merging, log, manifest, outcome, gitVars, job>>

StartWave ==
    /\ control = "wave" /\ wave \in DOMAIN waves
    /\ job' = [job EXCEPT ![attempt] =
                  [t \in TaskSpec |-> IF t \in Wave THEN [Idle EXCEPT !.pc = "cleanup"]
                                      ELSE @[t]]]
    /\ control' = "prepare"
    /\ UNCHANGED <<attempt, retries, wave, merging, log, manifest, outcome, gitVars, planVars>>

StartTasks ==
    /\ control = "prepare"
    /\ \A t \in Wave : Mine(t).pc = "ready"
    /\ job' = [job EXCEPT ![attempt] =
                  [t \in TaskSpec |-> IF t \in Wave THEN [@[t] EXCEPT !.pc = "code"]
                                      ELSE @[t]]]
    /\ control' = "tasks"
    /\ UNCHANGED <<attempt, retries, wave, merging, log, manifest, outcome, gitVars, planVars>>

(* Mutant: what has not failed has passed. *)
RowsOfAll(passed, failed) ==
    [t \in TaskSpec |-> IF t \in failed THEN "FAIL" ELSE "PASS"]

Rows(passed, failed) ==
    [t \in TaskSpec |-> IF t \in passed THEN "PASS" ELSE IF t \in failed THEN "FAIL" ELSE "none"]

Return(status, rows) ==
    /\ control' = "ended" /\ outcome' = status /\ manifest' = rows

AnyFailed(failures) == failures # {}

WaveFails ==
    /\ control = "tasks"
    /\ \A t \in Wave : Mine(t).pc \in {"passed", "failed"}
    /\ LET failures == {t \in Wave : Mine(t).pc = "failed"}
       IN  AnyFailed(failures) /\ Return("FAIL", Rows(InLog, failures))
    /\ UNCHANGED <<attempt, retries, wave, merging, log, gitVars, planVars, job>>

WavePasses ==
    /\ control = "tasks"
    /\ \A t \in Wave : Mine(t).pc \in {"passed", "failed"}
    /\ ~AnyFailed({t \in Wave : Mine(t).pc = "failed"})
    /\ control' = "merge" /\ merging' = "commit"
    /\ UNCHANGED <<attempt, retries, wave, log, manifest, outcome, gitVars, planVars, job>>

WaveMerged ==
    /\ control = "merge" /\ Wave \subseteq InLog
    /\ control' = "wave" /\ wave' = wave + 1
    /\ UNCHANGED <<attempt, retries, merging, log, manifest, outcome, gitVars, planVars, job>>

(* Regressions and the integration checker; baseline failures are PARTIAL,  *)
(* the checker's are FAIL, with or without a backward loop.                 *)
Check ==
    /\ control = "wave" /\ wave \notin DOMAIN waves
    /\ \E status \in {"PASS", "PARTIAL", "FAIL"} : Return(status, Rows(InLog, {}))
    /\ UNCHANGED <<attempt, retries, wave, merging, log, gitVars, planVars, job>>

(* An error in the stage's own code: telemetry, the file system, git. *)
Throws ==
    /\ GitFails /\ control \in {"wave", "merge"}
    /\ control' = "threw"
    /\ UNCHANGED <<attempt, retries, wave, merging, log, manifest, outcome, gitVars, planVars, job>>

Enter == attempt' = attempt + 1 /\ control' = "wave" /\ wave' = 1 /\ log' = <<>>

RetryStage ==
    /\ control = "threw" /\ retries > 0
    /\ Enter /\ retries' = retries - 1
    /\ UNCHANGED <<merging, manifest, outcome, gitVars, planVars, job>>

AbortStage ==
    /\ control = "threw" /\ retries = 0
    /\ control' = "ended" /\ outcome' = "error"
    /\ UNCHANGED <<attempt, retries, wave, merging, log, manifest, gitVars, planVars, job>>

AllDead ==
    [a \in Attempt |-> [t \in TaskSpec |->
        IF job[a][t].pc \in {"idle"} \cup Settled THEN job[a][t]
        ELSE [job[a][t] EXCEPT !.pc = "dead"]]]

(* The process dies with everything it runs; worktrees and branches stay. *)
Crash ==
    /\ control \notin {"plan", "ended"}
    /\ control' = "ended" /\ outcome' = "error"
    /\ job' = AllDead
    /\ UNCHANGED <<attempt, retries, wave, merging, log, manifest, gitVars, planVars>>

(* A resumed run enters the stage again and creates no branch. *)
ResumeStage ==
    /\ control = "ended" /\ outcome = "error" /\ attempt < MaxAttempts
    /\ Enter /\ retries' \in RetriesAt(attempt') /\ outcome' = "none"
    /\ head' \in {head} \cup (IF SwitchesBranch THEN {"main"} ELSE {})
    /\ job' = IF SameProcess THEN job ELSE AllDead
    /\ UNCHANGED <<merging, manifest, runExists, work, tree, merged, planVars>>

-----------------------------------------------------------------------------
(* One task in its worktree.  a is the attempt it was started in.           *)

(* An error rejects Promise.all; the stage throws if it still waits for it. *)
JobThrows(a, t, waiting) ==
    /\ Move(a, t, "threw")
    /\ control' = IF a = attempt /\ control = waiting THEN "threw" ELSE control

Waits(a, t, waiting) == Move(a, t, waiting) /\ UNCHANGED control

(* Mutant: a worktree that is already there is kept. *)
RemovedNever(t) == tree[t]

Removed(t) == NoTree

CleanUp(a, t) ==
    /\ job[a][t].pc = "cleanup"
    /\ tree' = [tree EXCEPT ![t] = Removed(t)]
    /\ Waits(a, t, "ensure")
    /\ UNCHANGED <<head, runExists, work, merged>>

EnsureRunBranch(a, t) ==
    /\ job[a][t].pc = "ensure"
    /\ Waits(a, t, IF runExists THEN "add" ELSE "create")
    /\ UNCHANGED gitVars

(* git branch and git checkout --orphan fail when the branch exists by now; *)
(* two that check the orphan out before its first commit both succeed.      *)
CreateBranch(a, t) ==
    /\ job[a][t].pc = "create"
    /\ \/ runExists /\ JobThrows(a, t, "prepare") /\ UNCHANGED gitVars
       \/ runExists /\ head = "run" /\ Waits(a, t, "add") /\ UNCHANGED gitVars
       \/ /\ ~runExists
          /\ runExists' = TRUE
          /\ work' = [work EXCEPT !["run"] = work["main"]]
          /\ head' = IF head = "unborn" THEN "run" ELSE head
          /\ Waits(a, t, "add")
          /\ UNCHANGED <<tree, merged>>

NewTree == [exists |-> TRUE, base |-> work["run"], content |-> "draft",
            committed |-> "draft", rebasing |-> FALSE]

AddWorktree(a, t) ==
    /\ job[a][t].pc = "add"
    /\ \/ /\ ~tree[t].exists
          /\ tree' = [tree EXCEPT ![t] = NewTree]
          /\ Waits(a, t, "ready")
          /\ UNCHANGED <<head, runExists, work, merged>>
       \/ /\ tree[t].exists \/ GitFails
          /\ JobThrows(a, t, "prepare")
          /\ UNCHANGED gitVars

(* A session writes wherever its worktree's path leads. *)
Writes(t, content) ==
    tree' = IF tree[t].exists THEN [tree EXCEPT ![t].content = content] ELSE tree

(* A coding session ends with a status; creating it may throw. *)
Code(a, t) ==
    /\ job[a][t].pc = "code"
    /\ \/ Writes(t, "draft") /\ Waits(a, t, "test")
       \/ Writes(t, "draft") /\ Waits(a, t, "failed")
       \/ UNCHANGED tree /\ JobThrows(a, t, "tasks")
    /\ UNCHANGED <<head, runExists, work, merged>>

Test(a, t) ==
    /\ job[a][t].pc = "test"
    /\ \/ Writes(t, "draft") /\ Waits(a, t, "verify")
       \/ Writes(t, "draft") /\ Waits(a, t, "failed")
       \/ UNCHANGED tree /\ JobThrows(a, t, "tasks")
    /\ UNCHANGED <<head, runExists, work, merged>>

(* Mutants: tries are not counted, or the last one passes whatever its      *)
(* verdict.                                                                 *)
TryForever(a, t) == job' = [job EXCEPT ![a][t].pc = "code", ![a][t].answered = FALSE]

LastTryPasses(a, t) ==
    job' = [job EXCEPT ![a][t] =
               IF @.try = 2 THEN [@ EXCEPT !.pc = "passed"]
               ELSE [@ EXCEPT !.pc = "code", !.try = 2, !.answered = FALSE]]

(* A verification that does not pass starts a second try, and only one.     *)
TryAgain(a, t) ==
    job' = [job EXCEPT ![a][t] =
               IF @.try = 2 THEN [@ EXCEPT !.pc = "failed"]
               ELSE [@ EXCEPT !.pc = "code", !.try = 2, !.answered = FALSE]]

Verify(a, t) ==
    /\ job[a][t].pc = "verify"
    /\ \/ Writes(t, "verified") /\ Waits(a, t, "review")
       \/ UNCHANGED <<tree, control>> /\ TryAgain(a, t)
       \/ UNCHANGED tree /\ JobThrows(a, t, "tasks")
    /\ UNCHANGED <<head, runExists, work, merged>>

(* Code quality always reviews, the simplifier only advises.  A dispatch    *)
(* that fails has no text: a FAIL without a severity.                       *)
Reviewer == {"code-quality", "code-simplifier"}
Answer == {"pass", "minor", "blocking", "none"}

Blocks(answers) == answers["code-quality"] = "blocking"

Review(a, t) ==
    /\ job[a][t].pc = "review"
    /\ \/ \E answers \in [Reviewer -> Answer] :
             IF Blocks(answers)
             THEN TryAgain(a, t) /\ UNCHANGED control
             ELSE /\ job' = [job EXCEPT ![a][t].pc = "passed",
                                        ![a][t].answered = answers["code-quality"] # "none"]
                  /\ UNCHANGED control
       \/ JobThrows(a, t, "tasks")
    /\ UNCHANGED gitVars

JobStep(a, t) ==
    /\ \/ CleanUp(a, t) \/ EnsureRunBranch(a, t) \/ CreateBranch(a, t) \/ AddWorktree(a, t)
       \/ Code(a, t) \/ Test(a, t) \/ Verify(a, t) \/ Review(a, t)
    /\ UNCHANGED <<attempt, retries, wave, merging, log, manifest, outcome, planVars>>

-----------------------------------------------------------------------------
(* Merging one task. *)

Merging(step) == control = "merge" /\ ~(Wave \subseteq InLog) /\ merging = step

KeepsStage == UNCHANGED <<attempt, retries, wave, planVars, job>>

GoesOn(step) ==
    /\ merging' = step
    /\ UNCHANGED <<control, log, manifest, outcome>>
    /\ KeepsStage

Abandon(t) ==
    /\ Return("FAIL", Rows(InLog, {t}))
    /\ UNCHANGED <<merging, log>>
    /\ KeepsStage

CommitWorktree(from, next) ==
    LET t == CurrentTask
    IN  /\ Merging(from)
        /\ tree' = IF tree[t].exists THEN [tree EXCEPT ![t].committed = tree[t].content] ELSE tree
        /\ GoesOn(next)
        /\ UNCHANGED <<head, runExists, work, merged>>

(* Where the two sides differ since the worktree was cut, they may conflict. *)
MayConflict(t, branch) == tree[t].exists => work[branch] # tree[t].base

(* git merge --squash merges into what is checked out in the workspace. *)
SquashInto == head

Squashed(t) ==
    /\ tree[t].exists
    /\ work' = [work EXCEPT ![SquashInto] = @ \cup {t}]
    /\ merged' = [merged EXCEPT ![t] = tree[t].committed]
    /\ tree' = [tree EXCEPT ![t] = NoTree]
    /\ log' = Append(log, t)
    /\ merging' = "commit"
    /\ UNCHANGED <<head, runExists, control, manifest, outcome>>
    /\ KeepsStage

Squash ==
    LET t == CurrentTask
    IN  /\ Merging("squash")
        /\ \/ Squashed(t)
           \/ MayConflict(t, SquashInto) /\ GoesOn("rebase") /\ UNCHANGED gitVars

Rebased(t) == [tree EXCEPT ![t].base = work["run"], ![t].rebasing = FALSE]

Rebase ==
    LET t == CurrentTask
    IN  /\ Merging("rebase")
        /\ \/ tree[t].exists /\ tree' = Rebased(t) /\ GoesOn("recommit")
           \/ /\ MayConflict(t, "run")
              /\ tree' = IF tree[t].exists THEN [tree EXCEPT ![t].rebasing = TRUE] ELSE tree
              /\ GoesOn("fix")
        /\ UNCHANGED <<head, runExists, work, merged>>

(* An agent resolves the conflict in the worktree, or gives up. *)
FixConflict ==
    LET t == CurrentTask
    IN  /\ Merging("fix")
        /\ \/ Writes(t, "resolved") /\ GoesOn("continue")
           \/ Writes(t, "resolved") /\ Abandon(t)
        /\ UNCHANGED <<head, runExists, work, merged>>

ContinueRebase ==
    LET t == CurrentTask
    IN  /\ Merging("continue")
        /\ \/ tree[t].exists /\ tree[t].rebasing /\ tree' = Rebased(t) /\ GoesOn("recommit")
           \/ UNCHANGED tree /\ Abandon(t)
        /\ UNCHANGED <<head, runExists, work, merged>>

Resquash ==
    LET t == CurrentTask
    IN  /\ Merging("resquash")
        /\ \/ Squashed(t)
           \/ MayConflict(t, SquashInto) /\ Abandon(t) /\ UNCHANGED gitVars

Merge ==
    \/ CommitWorktree("commit", "squash") \/ Squash \/ Rebase \/ FixConflict
    \/ ContinueRebase \/ CommitWorktree("recommit", "resquash") \/ Resquash

-----------------------------------------------------------------------------
StageStep ==
    \/ Plan \/ StartWave \/ StartTasks \/ WaveFails \/ WavePasses \/ WaveMerged
    \/ Check \/ Merge \/ RetryStage \/ AbortStage

Ended == control = "ended" /\ UNCHANGED vars

Next ==
    \/ StageStep \/ Throws \/ Crash \/ ResumeStage \/ Ended
    \/ \E a \in Attempt, t \in TaskSpec : JobStep(a, t)

Spec == Init /\ [][Next]_vars

(* Straight-line code goes on; sessions end by themselves or by a timeout.  *)
FairSpec ==
    /\ Spec
    /\ WF_vars(StageStep)
    /\ \A a \in Attempt, t \in TaskSpec : WF_vars(JobStep(a, t))

-----------------------------------------------------------------------------
(* Properties. *)

ImplementTypeOK ==
    /\ PlanTypeOK
    /\ control \in {"plan", "wave", "prepare", "tasks", "merge", "threw", "ended"}
    /\ attempt \in Attempt /\ retries \in AutomaticRetries /\ wave \in Nat \ {0}
    /\ job \in [Attempt -> [TaskSpec -> Job]]
    /\ merging \in Steps /\ log \in Seq(TaskSpec)
    /\ manifest \in [TaskSpec -> {"none", "PASS", "FAIL"}]
    /\ outcome \in {"none", "PASS", "PARTIAL", "FAIL", "error"}
    /\ head \in {"run", "main", "unborn"} /\ runExists \in BOOLEAN
    /\ work \in [{"run", "main"} -> SUBSET TaskSpec]
    /\ tree \in [TaskSpec -> Tree \cup {NoTree}]
    /\ merged \in [TaskSpec -> {"no"} \cup Content]

(* While the run branch is checked out, a task is worked on in a worktree   *)
(* that holds everything it depends on (waves, prepareWorktree, squashMerge *)
(* together): an earlier wave was merged into the branch it was cut from.   *)
DependenciesInBase ==
    PlanWriterRule /\ head = "run" /\ control = "tasks" =>
        \A t \in Wave : tree[t].exists /\ Mine(t).pc \in Works =>
            \A d \in deps(t) : \E u \in tree[t].base : id(u) = d

(* A session of an earlier attempt is still there, or was when it ended:    *)
(* the stage threw or was retried beside it.                                *)
OutlivedBy(t) == \E a \in 1..(attempt - 1) : job[a][t].pc \notin {"idle", "dead"}

(* What reaches the branch is what its verification saw, or the resolution  *)
(* of a conflict: no session writes between the two (implementStage.run),   *)
(* but for those of an earlier attempt that outlived it.                    *)
VerifiedMerged ==
    [][\A t \in TaskSpec :
          log' # log /\ merged'[t] # merged[t] /\ merged'[t] = "draft"
              => OutlivedBy(t)]_vars

(* An earlier attempt that threw has cut, or still cuts, a worktree of its own. *)
CutByEarlier(t) == \E a \in 1..(attempt - 1) : job[a][t].pc \in Prepares \cup {"ready"}

(* A stage that passes has every task of the phase on the branch that is    *)
(* checked out, and leaves no worktree but one that an earlier attempt cut. *)
PassMeansMerged ==
    outcome \in {"PASS", "PARTIAL"} =>
        /\ Survivors \subseteq work[head]
        /\ \A t \in TaskSpec : tree[t].exists => CutByEarlier(t)

(* The execution manifest, which the integration checker and the later      *)
(* stages read, says PASS of the tasks that were merged and of no other.    *)
ManifestTellsMerged ==
    outcome \in {"PASS", "PARTIAL", "FAIL"} =>
        /\ {t \in TaskSpec : manifest[t] = "PASS"} = InLog
        /\ \A t \in TaskSpec : manifest[t] = "FAIL" => outcome = "FAIL"

(* Together: what the stage says of its tasks is what it did with them. *)
StageAccounts ==
    ImplementTypeOK /\ DependenciesInBase /\ PassMeansMerged /\ ManifestTellsMerged

(* Worktrees and branches an earlier attempt left behind, a rebase under    *)
(* way included, do not keep git from cutting new ones (prepare), unless    *)
(* the earlier attempt is still cutting its own.                            *)
LeftoversRemoved ==
    control = "prepare" =>
        \A t \in Wave :
            Mine(t).pc = "add" /\ tree[t].exists => CutByEarlier(t)

(* No task is merged as long as one of its wave has not passed.             *)
WaveMergesTogether ==
    [][\A t \in TaskSpec :
          Len(log') > Len(log) /\ t \in Wave => Mine(t).pc = "passed"]_vars

(* The stage merges tasks in the order Integration promises, and passes     *)
(* only when all are merged.                                                *)
Promised ==
    INSTANCE Integration
        WITH Task <- TaskSpec, ids <- specs.id, plan <- waves, integrated <- log,
             complete <- (outcome \in {"PASS", "PARTIAL"})

IntegratesInOrder == Promised!IntegrationSpec /\ WaveMergesTogether

(* The stage ends, whatever its sessions return and whenever it is resumed. *)
StageEnds == <>[](control = "ended")

-----------------------------------------------------------------------------
(* What the documentation says and the code does not do. *)

(* A task that finds no run branch creates it and gets its worktree, as the *)
(* test of prepare has it; here two tasks prepare at the same time.         *)
MissingBranchCreated ==
    [][\A a \in Attempt, t \in TaskSpec :
          job[a][t].pc = "create" => job'[a][t].pc \in {"create", "add"}]_vars

(* Passing tasks are merged into the run branch. *)
MergedIntoRunBranch == InLog \subseteq work["run"]

(* The code review of a task is complete before the task is merged. *)
ReviewedBeforeMerge == \A t \in InLog : Mine(t).answered
=============================================================================
