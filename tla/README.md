# pi-deepwork in TLA+

`pi-deepwork` runs a task through a fixed pipeline of stages, orchestrated by
TypeScript: goals, research, design, structure, plan, then implement, accept and
replan for every phase of the plan, then verify and report. Agents and people do
the work inside a stage; which stage comes next, when to go back, what is merged,
committed and recorded, and when to stop is decided by code. This directory models
that code, checks it with TLC and proves theorems about it with TLAPS. Paths below
are relative to the repository; those that start with `application`, `domain` or
`infra` are below its `src/`.

## Files

| module | what it is | models |
| --- | --- | --- |
| `RunState` | the `Run` aggregate and the pure policies, without variables | `domain/run`, `domain/stage`, `domain/backward-loop`, `application/pipeline/outcome-interpreter.ts` |
| `Pipeline` | one execution of `runPipeline`, each stage a set of outcomes | `application/pipeline/{pipeline-loop,stage-runner,review-gate-coordinator}.ts`; outcomes, reads and writes of `application/stage` |
| `RunLifecycle` | abstract: what a run promises whatever its stages do | implemented by `Pipeline` |
| `Recovery` | the same loop with `state.json`, crashes and resume | `infra/fs/{state-repository,state-reconstruction,artifact-repository}.ts`, the resume in `index.ts` |
| `WavePlanner` | grouping of tasks into waves | `domain/stage/wave-planner.ts` |
| `ImplementWave` | the implement stage: worktrees, sessions, merges, retry, resume | `application/stage/{implement,fast-impl-*,code-review}.ts`, the worktrees of `infra/git/version-control.ts` |
| `Integration` | abstract: tasks reach the branch in order | implemented by `ImplementWave` |
| `ReviewGate` | goals, design and structure: synthesis, review loop, operator | `application/stage/goals.ts`, `application/workflow/{agent-review-loop,synthesize-review-gate-workflow}.ts`, `domain/goals/interview-policy.ts` |
| `Approval` | abstract: only a reviewed draft is approved | implemented by `ReviewGate` |
| `TaskSpecs` | drafts, outlines and specs of tasks from plan to implement and replan | `application/stage/{plan,replan,implement}.ts`, spec directories of `infra/fs/artifact-repository.ts` |
| `Research` | questions and research | `application/stage/{questions,research,research-pass}.ts` |
| `Acceptance` | coverage plan, tests, boundary check, repairs | `application/stage/{accept,acceptance-tester}.ts`, `domain/stage/boundary-policy.ts`, `changedFiles` of `infra/git` |
| `Dispatcher` | a fan-out of sessions with timers and abort | `infra/pi/{session-dispatcher,stage-return-tool}.ts` |
| `LiveActivity` | the presenter as operators on its state | `infra/pi/{live-activity-presenter,session-activity}.ts` |
| `EventLog` | the event log and its queue | `infra/telemetry/jsonl-telemetry-sink.ts` |
| `Cassette` | recording and replay of dispatches and gates | `infra/replay`, the capture of files in `index.ts` |
| `Checkpoints` | run branch and commits, command by command | `infra/git/version-control.ts`, their callers in `pipeline-loop.ts` |
| `MC*` | values of the constants for TLC | |
| `*Proofs` | theorems and proofs: `RunProofs` of `Pipeline` and `Recovery`, `ImplementWaveProofs` of `WavePlanner` and `ImplementWave`, `InfraProofs` of `EventLog`, `Dispatcher` and `Cassette`, and one each for `TaskSpecs`, `ReviewGate`, `Research`, `Acceptance` and `Checkpoints` | |

`Pipeline` extends `RunState`, `Recovery` extends `Pipeline`, `ImplementWave` extends
`WavePlanner`, `Dispatcher` extends `LiveActivity`. `PROJECT.json` maps every
definition to the lines it stands for.

How the modules fit together: `Pipeline` treats a stage as a set of outcomes.
`ReviewGate`, `Research`, `TaskSpecs`, `ImplementWave` and `Acceptance` open that
box, each for the stages named above; they start where `executeStage` calls the
stage and end with the outcome that `Pipeline` draws. Their sessions end in one of a
few ways, which `Dispatcher` models from the inside. `Checkpoints` and `EventLog`
are what the loop calls between the stages, `Recovery` what a crash leaves of it.

## Inventory

For each part: its state; its operations; how it meets the others; what is hard;
what makes it correct.

**Pipeline loop** (`application/pipeline`). State: the `Run`, the number of
automatic retries of the current `executeStage`. Operations: run a stage, resolve
an unclean review cap (soften, ask the operator, stop), interpret the outcome
(defer, loop back, fix acceptance, fix verification, stop, advance). Calls the
stages, the artifact repository (archiving), the state repository (a save after
every decision), gates, telemetry, version control. Hard: three counters with
different resets, two ways to restart the phases, softened failures whose stage
left artifacts out, errors after partial writes. Correct: counters capped, phases
in order and all closed, the report earned, every stage finds its inputs, an
automated run ends.

**Run aggregate and policies** (`domain`, `outcome-interpreter.ts`). State: the run
record. Pure operations, all in `RunState`. Hard: what each operation leaves alone
(a verification fix resets the phase, an acceptance fix does not; nobody resets the
acceptance counter on a loop).

**Review loops** (`application/workflow`, `goals.ts`). State: round and transient
retries of a loop, the rejections so far, the document on disk. Hard: three loops in
each other, and sessions that fail after they wrote. Correct: what is approved is
what was reviewed and shown; fail-closed goals hold no guess; it ends.

**Research**. State: `questions.md`, findings per question number, the summary.
Hard: files of earlier rounds and runs under the same names. Correct: a passed
summary was reviewed as it is, on findings for these questions.

**Plan, replan, task specs**. State: outlines and specs in a base directory, in phase
directories and through a link. Hard: which directory shadows which after drafts,
phases and loops; how many phases a replan leaves or adds. Correct: implement runs all
tasks of the plan, as last specified, and nothing of a plan that was given up.

**Implement**. State: waves, a worktree and branch per task, the manifest. Hard:
parallel worktrees of one repository, merges one after the other, conflicts, an
error that leaves other sessions running, leftovers of a crash. Correct: what is
merged was verified, in order and a wave at a time; the manifest says what happened.

**Accept**. State: coverage plan, rounds, cycles, the listing of changed files.
Correct: tests for a reviewed plan, no unreported change of production code, a PASS
with its evidence.

**Run directory** (`infra/fs`). State: artifacts, `state.json`, phase directories,
`archive/`. Hard: a crash between two writes, a torn state file, artifacts that
contradict each other. Correct: a resumed run continues where it was and forgets no
counter; an inferred one is not ahead.

**Session dispatcher** (`infra/pi/session-dispatcher.ts`). State: a session per
dispatch, a timer, the captured `stage_return`. Hard: completion, timeout and abort
race each other and a late tool call. Correct: the result is the first answer of
its own agent; a fan-out ends.

**Live activity UI**. State: the board of sessions, a throttled repaint, a
heartbeat. Correct: the board shows the sessions that are there, nothing after stop.

**Version control** (`infra/git`). State: run branch, worktrees, index, commits.
Hard: a branch that was not created, a half-made checkpoint, a resume elsewhere.
Correct: commits are consistent, go forward within each turn of the run and stay on
the run branch.

**Telemetry**. State: the event log, the next sequence number, an append queue.
Hard: concurrent appends, failed reads and writes, a torn file, resume. Correct: no
line lost, repeated or misnumbered without a failure; every append is answered.

**Record and replay**. State: entries by key and ordinal, gate decisions. Hard:
parallel dispatches with the same key, captures that fail, requests that a replay makes
otherwise. Correct: as long as the replay makes the recorded requests it returns what
was recorded for them, and stops making them only for a reason that is known.

**Human gates, entry point, model configuration, markdown codec, agent catalog, fast
path policy, build tool, clock, identifiers**. Presentation, parsing and thin
wrappers; see "Not modelled".

Agents, `git`, `npm`, the operator and the pi runtime are external: what they return
is a choice of the model.

## How the models correspond to the code

**Pipeline.** `run` is the loop's `Run`; `control` is the place in the loop body
(`stage`: inside `executeStage`; `gate`: an operator is asked; `interpret`: the
outcome is settled) or the way it ended (`finished`: the loop condition failed;
`stopped`: a `break`; `aborted`: an error left the loop); `outcome` and `retries`
are its locals; `artifacts` and `manifest` are the top-level files of the run
directory, by presence, and the number of phases in `phase-manifest.md`; `config`
holds mode, failure policy and kind of task. `closed` (phases accepted, or deferred
to replan) and `softened` are history variables: no guard reads them.
`executeStage` is one of `StageSettles`, `StageHitsCapAutomated`,
`StageHitsCapInteractive` (then `OperatorApproves`, `OperatorRetries` or
`OperatorRejects`), `ThrowRetried` and `ThrowAborts`; the loop body after it is one
of `DeferToReplan`, `BackwardLoopCapped`, `BackwardLoop`, `VerifyFix`,
`VerifyFixCapped`, `AcceptFix`, `AcceptStops`, `StageFailed` and `Transition`, each
with the assignments and the effects on the run directory that the code makes before
its `save`, `continue` or `break`. A stage is a set of outcomes (`StageOutcomes`):
every combination of status, review cap, boundary violation, loop request, route and
files written that its code can return. `StageReads` are the artifacts that it reads
with `readArtifact`, which throws when one is missing; `StageWrites` the prefixes of
its writes, any of which an error may leave.

**Recovery** adds `stateFile` (the saved run, or `Torn` when it does not parse or is
missing), `io` (what the loop awaits between two stages: nothing, the archiving of a
backward loop, or a save), the evidence inference reads (`markers`, `phaseDirs`,
`configRoute`, `verdict`) and the history `loopsTaken` and `interrupted`. It reuses
the actions of `Pipeline` and adds to each what it does to these files. `Decide` and
`Saved` are the decision and its save, two steps because `writeFile` truncates first;
`ArchiveArtifact` and `ArchivePhase` delete what a loop archives, file by file;
`Crash`, `Resume`, `ResumeInferred` and `StartAfresh` are the end of a process and
the next command with `run-id:`, which may choose another failure policy. A crash
inside a stage leaves the files that an error there leaves, so `ThrowAborts` stands
for both.

**ImplementWave.** `control`, `wave`, `merging` and `manifest` are the locals of
`implementStage.run` at the `await` it is at; `job[a][t]` is the promise of task `t`
in the `a`-th entry into the stage, from cutting the worktree (`prepare`: check the
branch, create it, add the worktree) through coder, tester, verifier and reviewers.
Jobs are per attempt because `Promise.all` rejects with the first error while the
other jobs go on, beside a retry of the stage by the loop or a resume. `head`, `work`,
`tree` are git's: the branch checked out, what each branch holds, each task's
worktree with the work it was cut from and a rebase under way. `SquashMerge`, the
conflict path (rebase, resolver session, merge again) and `removeWorktree` are steps
of their own, each may fail.

**ReviewGate** has one step per session with the writes that follow it: synthesis
(after the interview, for goals), review, rewrite, and the operator's answer.
Documents are numbered in the order in which they are written, so "reviewed as it is"
is an equality of numbers. `config`, `draft`, `requirements`, `reading`, `files` and
`history` are the places that hold a copy of something and may disagree.

**TaskSpecs** follows the spec files: `outlines`, `base`, `dirs` and `linked` are
`tasks/outlines`, `tasks`, `phases/phase-NN/tasks` and the link of phase 1; a file is
the draft it was written from and the phase it names. `loaded` is what
`loadPhaseTasks` returns.

**Research** has one step per session: generating and reviewing questions, researching
one question, synthesizing, reviewing, revising. `findings` and `summary` remember
what they were written from; `MaxRuns` lets the stage run again on its own files. A review
is what it says of which question, in which section and under which name (`Remarks`):
`Recognised` is the text matching of `questionsReferencedByReview`, and what it does not
match is not revised.

**Acceptance** has a step for the planner, one for the three reviewers, which run in
parallel and only read, one for an authoring session and one for the check of the
changed files. `before` and the listing after it are compared by name, as in the code;
`ClassOfShorn` is the class of a path without its first letter, which is what
`changedFiles` delivers for a changed file that is not staged. `Starts` is what a run of
the stage begins with: all of its variables are local, so it takes a new listing in the
workspace as it is. It comes about by `Retry`, the automatic one after a throw, which has
no checkpoint before it; by `Resume`, of the operator or after a stop or a crash, whose
last checkpoint may have committed or failed; and by `Repair`. `touched` is history: what
sessions wrote and no checkpoint has committed.

**Dispatcher** has a session per worker: `Created` and `CreationFails`, the five ends
that race for `reason` (`Settle`), `stage_return` calls as long as the agent is
`alive`, `Return` and `Report`. Sessions have correlation ids (`Cid`) that they may
share: coder, tester and verifier are dispatched without a task, so those of all tasks
of a wave are "generic". `dropped` remembers that one with the same id has ended; it
takes what the others have on the board with it. `screen` is `LiveActivity`'s record of the presenter;
its operators are what each of these calls does to the widgets; `BoxTimer` and
`Heartbeat` are its timers.

**EventLog** has `Begin` (the event is numbered, the file read and its writing begun),
`End` or `WriteFails`, and `Crash` in between, which leaves a prefix of the file, maybe
with a torn line; `queue` is the promise chain. In `ReadFails` the file cannot be read:
`readSafe` takes it for empty, and it is overwritten with one line; in `ResumeUnread`
so does the initialization of a resumed run.

**Cassette** runs `Program`, a list of fan-outs, twice: recording, where a request
takes its ordinal at its start and its entry is appended at its end with the
difference of the directory (without what git hides or fails to deliver, which goes
to `lost`), and replaying from the `tape`. A replay has stubs for git and npm
where the recording had the real ones (index.ts:135, replay-runner.ts:192), so at a
request with a key of `GitKeys`, or that may quote a file which is not as it was, it may
go `astray`: another request is made, or none, and it is not followed further. `FirstOf` is the head of a
bucket sorted by ordinal, `NextGate` the oldest gate of a method that was not played. An
answer is represented by the request it answered and a decision by the fan-out that
asked, so `ReplayIsFaithful` compares who asked in the recording with who asks now.

**Checkpoints** starts with the creation of the branch and splits a checkpoint into
its commands: the state is saved, the code is added, the run directory is added, what
is staged is committed, and an event is logged. Every git command may fail and the
process may die between any two. Stages are numbered as a run passes them, phases
included; `Reroute` is the stage that sends it elsewhere, back or ahead: a backward loop,
a deferral or a fix, each of which is saved without a checkpoint. It begins a new `turn`,
in which the state may name an earlier stage and the run directory hold fewer artifacts;
so what later commits never have less of is said turn by turn. Artifacts other than the
state and the log are not in this model; archiving is in `Pipeline` and `Recovery`.

**Abstract specifications.** `RunLifecycle`, `Integration` and `Approval` say what a
reader of the documentation expects, without rounds, retries or files; `Pipeline`,
`ImplementWave` and `ReviewGate` implement them under refinement mappings
(`KeepsLifecycle`, `IntegratesInOrder`, `ImplementsApproval`). `ImplementWave` also
implements `WavePlanner`'s specification, with the same names.

## Runs

| run | question | distinct states |
| --- | --- | --- |
| `Pipeline_core` | Do counters, phases, report, inputs and the run directory stay consistent under every order of outcomes, does the loop implement `RunLifecycle`, does every step bring it closer to its end, and does an automated run end? | 1.8 million |
| `Recovery_kept` | Does a run keep its order, its report, its inputs and its count of loops through crashes and resumes while its state file survives? | 3.7 million |
| `Recovery_torn` | Is an inferred run ever ahead of the lost one, on the way straight ahead? | 4.3 million |
| `ImplementWave_core` | Are waves sound, is what is merged verified, in order and a wave at a time, does the manifest tell what happened, does the stage end? | 810 thousand |
| `ReviewGate_core` | Is what passes reviewed and shown as it is, do failing sessions never add or skip a round, does the stage implement `Approval` and end? | 32 thousand |
| `TaskSpecs_core` | Does implement run all tasks that the current plan has for the phase, as last specified, and besides only leftovers of earlier drafts, and is every task of the run's phases run? | 2.7 million |
| `Research_core` | Does a passed summary rest on reviewed questions and findings for them, is exactly what a review names researched anew, does the stage return? | 112 thousand |
| `Dispatcher_core` | Is the outcome of a session its own agent's first answer, does the board show what runs, does a fan-out end? | 929 thousand |
| `EventLog_core` | Is the log the numbered history, and is every append answered? | 620 thousand |
| `Cassette_core` | Does a replay give each request what was recorded for it, and its files, until it goes astray, and for which causes does it? | 1.8 million |
| `Acceptance_core` | Are tests written for a reviewed plan, are changes of production code reported, has a PASS its evidence, does acceptance end? | 1.3 million |
| `Checkpoints_core` | Is the history consistent, forward and on the run branch, and is a run picked up where it was? | 2.6 million |

Most properties that a run names are conjunctions whose parts are named for one idea
each and carry their own comment; a run names the conjunction:

| property | says |
| --- | --- |
| `TypeOK` | types, and counters within their caps |
| `PhaseDiscipline` | no phase starts before those in front of it are closed; a finished run closed all; planning starts over at phase 1 |
| `ReportIsEarned` | a report or a PASS only after a passed verification with its summary |
| `RestartsKeepOrder` | the two above and the types, and that the state file is what the loop holds, over restarts |
| `WavesSound` | the waves hold every task once; each dependency within the plan writer's rule is in an earlier wave |
| `StageAccounts` | a worktree holds what its task depends on; a stage that passes has merged all and left no worktree; the manifest says PASS of what was merged |
| `IntegratesInOrder` | implements `Integration`; no task is merged while one of its wave has not passed |
| `ReviewSound` | a pass was reviewed and shown as it is; the goals reviewer knows every rejection; `review:fast` allows two reviews |
| `SpecsSound` | every planned task is loaded; no spec of a discarded plan; the replanned spec before the base one; what is loaded besides is of a draft that a newer one replaced in the same directory |
| `ResearchSound` | a passed summary was read as it is; findings answer this batch; a failed session is no review cap |
| `WidgetsSound` | widgets show only what runs, and a session as long as none with its id has ended; no timer brings one back after a run whose workers returned |
| `LogSound` | lines carry their numbers, the log is the history when nothing failed, no line twice or out of order in any case |
| `ReplaySound` | until the replay is astray, the answers, gates and their order are the recorded ones; a miss only for what failed; nothing is left over |
| `FilesReplayed` | the files come back with the answers, but for changes that no capture took; a replay goes astray only because of git, npm or such a change |
| `AcceptanceSound` | tests for a reviewed plan; production code that was not listed before the rounds never passes changed; a PASS has both reports |
| `HistoryHolds` | a commit's state never claims a stage whose code it lacks; later commits never have less of the log or an earlier turn, nor in one turn fewer stages; the end of a run is committed |

Some name an exception, so that they say no more than is true. `InputsPresent` excepts
softened research and plan stages and the design on the quick-fix route;
`RestartsKeepInputs` a crash inside archiving; `InferenceNeverAhead` a run that
stopped at a failure, has looped, fixed or restarted, or whose files say other than
the run; `EveryStepAdvances` a retry by the operator, a deferral, and a replan that
adds phases; `VerifiedMerged` a session of an earlier attempt that outlived it and may
write into the worktree of the retry; `SpecsSound` and `EveryTaskRan` softened plans
and phases whose replan wrote no task, and `EveryTaskRan` phases that a replan added
behind those the run knows of; `AcceptanceSound` a production file that was listed
before the rounds of the stage's last start, as by a start that was retried. The
exceptions are behaviour of the code; see "Known divergences".

`NoStaleDownstream` is what makes the archiving of a backward loop correct: no
artifact of a later stage survives into planning, where resume would take it for a
completed stage. `LoopsCounted` relates the loops that were taken to those that the
state file knows. `EveryStepAdvances` gives a variant of nine parts that every step
decreases; it explains why the counters bound the run although two of them are reset.

### Bounds

- `Pipeline_core`: 1 backward loop, 1 acceptance fix, 1 verification fix. A cap of 1
  has a first time, which is the last, and a refusal.
  Manifests have 1 or 2 phases, and a replan may go from one to the other.
  `PhaseLimit` only bounds deferrals, which would count phases up without end.
  `implement` may send `DEFER_REPLAN`, which the port admits and no stage sends today.
- `Recovery_kept`: 1 of each, 2 restarts (a restart of a restart), manifests with 2
  phases. It explores states
  that differ only in what inference reads once (`KeptView`): nothing reads that while
  the state file survives. `Recovery_torn`: no loops or fixes, which its property
  excepts, 1 restart. Both have automated runs only, whose operator never answers, and
  no simple exact-file task.
- `ImplementWave_core`: 2 tasks, one behind the other, or side by side in one wave,
  since one waits for a task of an earlier phase; the stage is entered twice, by the automatic retry or by a resume
  under another policy after a crash, with another branch checked out or none created;
  every git command and session may fail. A resume of a run whose process still lives
  is left out (`SameProcess`).
- `ReviewGate_core`: 3 rounds, so that there is a first, a middle and a last one; 1
  transient retry; 2 rejections by the operator; an interview of 2 branches.
- `TaskSpecs_core`: 3 tasks in up to 3 phases, 2 review rounds, 3 drafts in a run: a
  task can be dropped, moved to another phase, and come back, and a replan may leave
  phases out or add one.
- `Research_core`: 2 questions, 2 and 3 rounds as in the code, the stage run twice, and
  five of the eighteen remarks, one per reason to be recognised or not.
- `Dispatcher_core`: 2 workers, one with a session "generic" and then a code reviewer,
  the other with a session "generic" too, 2 `stage_return` calls per session, 2 timers
  of the throttled box pending, of which the presenter remembers one.
- `EventLog_core`: 3 writers, 6 events, 2 processes, 1 failed read or write, 1 crash.
- `Cassette_core`: three fan-outs: a stage agent and its retry with an equal request, two
  parallel scans with equal requests, and two tasks in worktrees, one of which gets to
  its code review; any capture may fail, and 1 dispatch may throw.
- `Acceptance_core`: the 3 reviewers, the thorough depth, 4 files: a source file, a test
  and the two reports, the first two in any state at first; 1 repair (the code has 2), and
  1 resume and 1 automatic retry, which make up to six starts of the stage.
- `Checkpoints_core`: 2 stages, sent elsewhere once, 2 failed commands, 1 resume, with a
  branch that git refuses and a user who checks out main. The log and with it the history
  grow with every step, so each bound is what its case needs: one turn back, to the same
  stage and ahead; two commands of the same or of two checkpoints; one start of the run
  after another.

Deadlock is checked in the runs whose modules have a step for an ended system
(`Pipeline`, `Recovery`, `ImplementWave`, `ReviewGate`, `TaskSpecs`). The other
configurations switch it off, with the reason beside it: there the system stops when
it is over.

### Faults

Sessions that fail, time out, are aborted or return nothing; sessions that end after
they wrote; errors that leave a stage after any prefix of its writes; git commands that
fail one by one; a process that dies between any two steps that leave a trace, and
inside a write (`Recovery`, `EventLog`); resumes, also under other settings and on
another branch; a file write that fails; a session factory that throws; timers that
fire late or never; dispatches that throw while they are recorded.

### Fairness

No action is assumed to have a particular result.

- `Pipeline`: weak fairness of `ExecuteStage` and `Interpret`. `Interpret` is
  straight-line code; `ExecuteStage` awaits agents, and every dispatch ends by itself,
  by its timeout or by an abort (`FanOutEnds`), and the stages by their rounds
  (`AutomatedEnds`, `StageReturns`, `AcceptanceEnds`, `StageEnds`). The feedback
  rounds of an interactive gate have no bound, so `AutomatedRunEnds` and
  `AutomatedEnds` are about automated runs.
- `ImplementWave`: weak fairness of the stage's own step and of each job's step; not of
  crashes, resumes or the user. `Research`, `Acceptance`: of their next step, a
  session's end; not of throws and resumes, so `AcceptanceEnds` says that the stage ends
  however often it is started. `ReviewGate`: of the next step unless the operator is asked.
- `Dispatcher`: `PatientSpec` has weak fairness of what node schedules once a wait is
  settled, and of the session factory. Agents need not do anything. That timers fire
  is a hypothesis of `FanOutEnds` alone; `AbortEndsFanOut` does without.
- `EventLog`: weak fairness of the queue's `Begin` and of the write's end, failed or
  not.

## Proofs

All theorems hold for every value of the constants under the modules' named
assumptions, which say no more than what kind of value a constant is: naturals,
finite sets, subsets of the port's classifications. In particular they hold for any
caps, any number of phases, tasks, questions, rounds and restarts.

### Hypotheses

Some theorems assume more. Each hypothesis is named and stated with the theorems that
use it. `SavesSurvive`, `ShornAlike`, `FromTheStart` and `FilesKept` single out a case; the
others say which requests a stage sends, are true of the code, and hold in the
configurations that check the property, as do the last three of the table:

| hypothesis | of | says | why it is so |
| --- | --- | --- | --- |
| `DeferralsFromBuilding` | `LoopKeepsLifecycle` | only implement, accept and replan defer to replan | no stage sends `DEFER_REPLAN`; the port admits it, and the run gives it to implement. A planning stage that did would jump over building |
| `LoopsLeadBack` | `InputsAreThere` | no stage before implement asks for a loop | the integration check of implement and the replan review are what ask for loops. A loop from design to plan would leave a plan without structure |
| `LoopsNameTarget` | `NothingStale` | no stage sends `NO_LOOP` | as above; the loop would go to plan and archive nothing |
| `SavesSurvive` | `RestartsCountLoops`, `RestartsKeepTheOrder`, `RestartsKeepTheInputs` | no crash tears a save | not true of every crash: it is the case that `Recovery_kept` checks. The other case has `RestartsKeepTypes` and `InferenceKeepsBehind` |
| `LoopsFromPhases` | those three and `InferenceKeepsBehind` | only the stages of the phases and verify ask for loops | as `LoopsLeadBack` |
| `LoopsArchive` | `InferenceKeepsBehind` | no stage sends `NO_LOOP` or `DEFER_REPLAN` | no stage does |
| `ShornAlike` | the part of `AcceptanceHolds` on production code | the shortened path of a production file is not that of a test or an artifact | `changedFiles` cuts the first letter off; of a path such as `atests/x.ts` it leaves one of a test. No other condition: checkpoints may fail, and the stage may be retried and resumed at any step |
| `FromTheStart` | `ReplayIsTheRecording`, `FilesAreReplayed` | the recording is not that of a resumed run | the exception is a row of "Known divergences" |
| `KeysOrdered` | the same two | of two requests with one key, every run makes the same one first | a key has the agent, the kind and the prompt, which names the task and what else tells parallel sessions apart; equal ones are retries in one track, come in different fan-outs, or are started in turn by one `dispatchParallel` |
| `FilesKept` | `FilesAreReplayed` | sessions that write are alone in their directory | true of tasks in worktrees and of single stage agents; the exception, researchers side by side, is a row of "Known divergences" |

### The loop: `RunProofs`

`TypeCorrect`. `TypeOK` is not inductive, a transition needs a stage; `TInv` adds that a
loop that has not ended has one to run.

`PhasesKept`. None of the three parts of `PhaseDiscipline` is inductive without the
others (closing the last phase needs the order, the order after a loop needs that
planning starts over), and a verification fix goes back to phase 1 only if there is
one; `PhaseInv` holds them together. `ReportEarned` needs that a settled verification
has written its summary (`ReportInv`).

`InputsAreThere`. `InputsPresent` speaks of the stage that is about to run. `InputsInv`
says it of every stage up to it: each has left what it is there to leave, but for the
exceptions; that what a stage has just returned, if the loop is to go on with it, is
on disk (`OutcomeLeft`), also when the operator was asked in between; and that a loop
is asked for by a stage that has all of them behind it, so that archiving from its
target on leaves what the target reads.

`NothingStale`. `FreshInv`: nothing that a later stage writes is on disk while a stage is
run, at the gate and at the interpretation too. It needs that a stage writes nothing of
a later one, and that a loop archives everything behind its target.

`StepsAdvance`. Each step lowers the distance of nine parts, compared lexicographically,
with a lemma per action; a step within the loop body lowers only the last two parts
(`SameRunCloser`). `TInv` is enough for it.

`LoopKeepsLifecycle`. Initial states map to initial states, every step to a step or a
stutter, with a lemma for each way on.

### Crashes and resumes: `RunProofs`

With saves that survive: `FileInv` says that the file is torn exactly while it is written
and otherwise what the loop holds, so `Resume` puts back the very run, and nothing is
ever inferred; `LoopInv` collects what the loop's own invariants need of a resumed run.
`CountInv` adds that a loop under way has been taken and not yet interrupted.
`SummaryInv` gives the types of what only inference reads. For
`RestartsKeepTheInputs`, while a loop archives, what a stage would miss is what is
being archived (`ArchivingKeeps`), and the target reads none of that.

`RestartsKeepTypes` holds of torn saves too, and without hypotheses: whatever the
artifacts, `InferredRun` is a run with its types, so that the loop can take it up. Its
core is the phase that inference takes for current, which is among the phases.

`InferenceKeepsBehind`. The action property is about one step, but needs to know what the
artifacts have told since the run began. `StraightInv` holds until a run loops, or
restarts (`AheadInv`): each kind of artifact is there only if its stage is behind, or is
under way and not yet decided on (`KindsBehind`); the markers of phases are of earlier
phases, or of parts of this one that have run, where an acceptance that is repaired may
have left its marker behind (`MarkersBehind`); the route says which stages and phases
exist (`WayFacts`); a failed stage that asks for a loop has status FAIL (`LoopFails`).
The phases done are counted by their markers (`DonePhases`), whose counting up to the
first gap is argued with the least counterexample.

### The stages

`ImplementWaveProofs`. `PlanInv`: waves and remaining tasks partition the specs, and what
is in a wave has its dependencies in earlier ones. `PlanRespectsDependencies` needs in
addition that under the plan writer's rule (a task depends on lower numbers) there is
always a ready task: the one with the least number, from the well-foundedness of the
naturals. `StagePlans` carries both over to the stage, `StageWavesHold` past everything
that the stage does after planning.

`ImplementInv` is the invariant behind the other four theorems. Its parts say that
the log of merges has all of the earlier waves and else only tasks of the one that is
being merged (`LogFacts`), and that the manifest and a PASS say what the log says
(`ReturnFacts`); that who is past preparing has a run branch, and what this attempt
merged is on the branch that is checked out (`GitFacts`); that a worktree which is there
before its job has cut it, or after it was merged, was cut by a job of an earlier
attempt that still waits (`TreeFacts`); that a worktree cut from the run branch holds
the waves before its own (`BaseFacts`); that what was verified is no draft, unless a
session of an earlier attempt still works in it (`DraftFacts`). The parts about
worktrees quantify over all attempts, not only the current one: jobs of an attempt that
threw go on beside the retry, and what they do to the shared places is what makes
`StageAccounts` and `VerifiedMerged` hard. `StageIntegrates` maps each merge to one of
`Integration`, in the order of the waves and of the tasks in a wave.

`TaskSpecsProofs`. What a file's draft number says: outlines and base specs are not older
than the first draft of the plan (`FilesInv`); what has been specified so far, the first
phase, the one under way and the next one while it is replanned, names each of its tasks
(`SpecsAim`), which needs that the plan's writer follows the outlines (`OutlinesTell`,
`SpecsFollow`) and that phases whose replan wrote no task are remembered; and that tasks
of phases behind were run (`RanInv`). Nothing is assumed of how many phases a replan's
plan has; only that it does not rewrite those that are completed (`Keeps`).

`ReviewGateProofs`. Types, then numbers (a document is newer than what it was written
from, a review is of a document that exists), then control: at each place what was
reviewed, shown and read. `StageIsApproval` maps each step to one of `Approval`.

`ResearchProofs`. What a place in the stage knows of batch and round (`Counting`,
`Current`), and for `Revised` that a review has read no revision of its own round, which
is why every later finding is a new one, and that whatever it did not name is as it read
it.

`AcceptanceProofs`. Types and progress; what was reviewed is the contract. `Listed` is
that git lists every file that sessions touched, over retries, resumes and failed
checkpoints until one commits it; so what the listing before the rounds does not have is
new in the one after them and, under `ShornAlike`, a violation.

### Log, sessions, replay and commits

`InfraProofs`, of `EventLog`. The queue is in the order of recording, the file is older
than the queue, and only the first of the queue writes. With these `NeverTwice` holds
under all failures, and `LogHolds` for the rest.

`InfraProofs`, of `Dispatcher`. `RaceInv`: a wait that is settled has a reason, one that
was settled by a call has the call, and what was called first stays first although the
agent lives on and calls again; `FirstAnswerCounts` follows. `WidgetFacts`: the board has
no session twice, the one last active is on it while there is one, strip and box are
there only with sessions and, while the run goes on, always. `BoardFollows` adds that a
session is on the board unless one with its id has ended since it began: the end of a
session takes off whatever has its id. That no timer paints after a fan-out that resolved needs that such a
fan-out has no session left (`FanFacts`), so that a late timer finds an empty board.

`InfraProofs`, of `Cassette`, for any program, keys and overlaps. While a run is recorded,
the entries of the tape and the sessions that run are together the requests that have
started, each with one ordinal, in the order `Before` that every run keeps (`Recording`).
In the replay what is served are the entries of what has started (`Replaying`). So the
head of a bucket is the entry of the very request (`OwnEntry`): another entry with its key
is of a request that starts later and took a later ordinal. Nothing is left at the end
because as many entries are served as requests were made (`NothingIsLeft`). A failed
dispatch leaves only this counting, which is what `MissOnlyWhatFailed` then needs.
`GatesInv`: the gates played are those of the fan-outs behind. None of this is said of a
replay that went astray but what had been served and asked before. For
`FilesAreReplayed`, `Leaves` says what the entries of the first n requests of a place leave there, which is
one state (`LeavesOne`); by `FilesInv` it is what was there in the recording as soon as n
requests had been answered, and what is there in the replay after as many, in whatever
order the entries were appended or served; both of a file that is not in `lost`.

`CheckpointsProofs`. The commit is not ahead of the index and the index not ahead of the
workspace, in the log, the turn and, within a turn, the stage (`Behind`); the code of a
state is of its turn and has its stages, or is of the turn before. With a kept branch nothing is on main. `PickedUp`
follows: while that branch is checked out, the state that was committed is there to be
found.

### What the proofs corrected

- `EveryTaskRan` failed for four phases, which no run has: the model forgot that an
  earlier replan had written nothing as soon as a later one wrote something. `blank` is
  now the set of phases that were replanned without sections, and the property excepts a
  run with any.
- `StageReads`, `InferredPhases` and `InferredLast` were `CASE`s with overlapping arms,
  for which TLA+ leaves the choice open and TLC takes the first. The code tests one
  condition after the other; so do the definitions now.
- The queue of gates was filtered with `SelectSeq`, and decisions were invented names of
  which two gates could share one. Gates that were played are now a set, and a decision is
  that of the gate that asked, so that `ReplayIsFaithful` also tells a wrong gate with the
  same decision.
- The board was filtered with `SelectSeq`, which hid that `Map.delete` takes away one entry
  and that a session is on the board once; `Without` removes it at its place, and
  `Board` says so.

### Only model-checked

Every safety property of the runs, invariants and action properties, is stated by a
theorem. Liveness under fairness (`AutomatedRunEnds`, `StageEnds`, `AutomatedEnds`,
`StageReturns`, `FanOutEnds`, `AbortEndsFanOut`, `RecordIsAnswered`, `AcceptanceEnds`) is
out of the prover's reach and stays with TLC; `StepsAdvance` is the part of the first
that can be proved.

## Known divergences

Where the code does something else than the documentation, a comment, a test or an
agent's prompt says of it, what they say is written as a definition at the end of the
module, under "What the documentation says and the code does not do", with the
quotation. The configurations here do not name these definitions; TLC finds each
violated when it is added to the run's configuration, under `Spec` in the place of a
specification with fairness and with the changes in the last column. Two rows are
about properties that do hold in their run and fail with other constants, or without
the exception they name: `VerifiedMerged` and `FilesReplayed`.

| module, definition | what the code does | to see it |
| --- | --- | --- |
| `Pipeline` `QuickFixSkipsDesign` | `classifyIntegrationLoop` asks for LOOP_DESIGN or LOOP_STRUCTURE whatever the route, so a quick-fix run enters stages that its route skips | caps 1, `StageRequests` |
| `Pipeline` `ManifestPhasesAccepted` | the number of phases is not read again after a replan wrote another manifest, so phases it added are not run | caps 1, `StageRequests`, `PhaseCounts` {1, 2, 3}, `PhaseLimit` 3 |
| `Pipeline` `SoftenedPlanProceeds` | a plan that stops at its review cap runs no baseline; softened, verify aborts on the missing file | caps 1, `StageRequests` |
| `Pipeline` `BestEffortSoftensCaps` | accept's review cap is never softened | caps 1, `StageRequests` |
| `Recovery` `ResumedRunProceeds` | a backward loop archives before it saves; a crash in between resumes a stage whose inputs are gone | `Recovery_kept`, 1 phase, 1 restart |
| `Recovery` `LoopCapHolds` | an inferred run starts with its loop counter at 0 | same, `TornSaves` |
| `Recovery` `InferredStageCompleted` | the markers of planning stages are files that a failed stage also leaves | same, `TornSaves` |
| `WavePlanner` `SatisfiedDependenciesOnly` | a dependency on a task of an earlier phase is never satisfied, and its tasks go into the last wave with those they depend on | `ImplementWave_core` |
| `ImplementWave` `MissingBranchCreated` | of two tasks that prepare in parallel and find no run branch, one fails in creating it | `Checkouts` {"main"} |
| `ImplementWave` `MergedIntoRunBranch` | merges go into whatever branch is checked out | `Checkouts` {"main"}, or as it is |
| `ImplementWave` `ReviewedBeforeMerge` | a review session that ends in an error does not block its task | as it is |
| `ImplementWave` `VerifiedMerged` without `OutlivedBy` | a session of an attempt that threw goes on and writes into the worktree of the retry | as it is |
| `ReviewGate` `TransientRetried` | a failed review session of design and structure counts as a failed review and is not retried | as it is |
| `ReviewGate` `RejectedIsShown` | after a rewrite, the feedback of goals quotes the first synthesis, not what the operator saw | as it is |
| `ReviewGate` `InferredRouteIsTheRuns` | a rewrite may write another route into `config.md` than the outcome has | as it is |
| `ReviewGate` `EachReviewKept` | after a rejection the reviews overwrite those before | as it is |
| `ReviewGate` `QuickFixIsSimple` | any task may be given the quick-fix route by the session | as it is |
| `TaskSpecs` `OnlyPlannedTasksRun` | outlines of rejected drafts are not removed, and their specs are run | 2 phases |
| `TaskSpecs` `AddedPhasesRun` | the number of phases is read after plan only, so a task that a replan moves to a phase it adds is run in none | as it is |
| `TaskSpecs` `CompletedSpecsCompleted` | after phase 1 the specs of all phases are given as completed | 2 phases |
| `TaskSpecs` `RemainingSpecsGiven` | the replan writer is given no remaining specs | 2 phases |
| `TaskSpecs` `PassWritesSpecs` | a replan whose writer leaves no sections passes without specs | 2 phases |
| `TaskSpecs` `WriterKnowsReview` | the plan writer gets the same prompt in every round | 2 phases |
| `Research` `QuestionCapIsCap` | the cap of the question review is an ordinary failure | as it is |
| `Research` `EveryFaultRevised` | the reviewer's prompt has it name files `q-NN.md`, the code looks for `qN` and `qN.md` in two sections; other faults have the summary revised, the findings not | as it is |
| `Research` `SilentSynthesisFails` | a synthesizer that writes nothing passes with the summary of an earlier round | as it is |
| `Research` `SoftenedResearchProceeds` | a synthesizer's FAIL without a summary counts as a cap; softened, the next stage aborts | as it is |
| `Dispatcher` `VisibleWhileAnyRuns` | coder, tester and verifier of every task have the id "generic", code reviewers that of their agent; the end of one removes the widgets of another that runs | as it is |
| `Dispatcher` `WidgetsGoneAfterStop` | sessions that outlive a rejected fan-out paint the cleared widgets again | as it is |
| `EventLog` `AnsweredSurvives` | every append rewrites the file, so a crash may lose what was there, and a read that fails does | as it is |
| `EventLog` `SummariesAgree` | the run log asks for any abort, the metrics for the last end | as it is |
| `Cassette` `FilesReplayed` of parallel sessions | the captured files are those of the directory, not of the session | `Program <- MCParallel` |
| `Cassette` `EveryFileReplayed` | deletions are not captured (`--diff-filter=AM`), nothing is if a git command fails, whose exit code nobody reads, and ignored files never are | as it is |
| `Cassette` `CodeReviewKeyStable` | the prompt and the reviewers of a code review come from git, which is real in a recording and a stub in a replay, so the first review of changed work is missed | as it is |
| `Cassette` `SeededAsRecorded` | a replay starts from the beginning also when the recording was of a resumed run | `StartsAt = 2` |
| `Acceptance` `BoundaryViolationIsReal` | a changed file is listed without its first letter and then not recognised as a test | as it is |
| `Acceptance` `SummaryMarksPass` | a summary with a status is left alone, so an accepted phase may say FAIL | as it is |
| `Acceptance` `UntouchedCodePasses` | names are compared with a listing that each start of the stage takes anew: after a throw in a later round the automatic retry, and after a crash or a stop the resume, lists the production file that a session changed, and passes it; so does a checkpoint that failed before | as it is |
| `Checkpoints` `RunBranchOnly` | a refused branch is ignored, and checkpoints go to the branch that is checked out | as it is |
| `Checkpoints` `PickedUpWhereItWas` | a resume does not check the run branch out; away from it there is no state to find | as it is |

## Not modelled, and simplifications

- Artifacts are what a property tells apart: present or absent for the loop, a number
  for what they were written from inside the stages. Their text is not: a planning
  artifact that holds a heading "Status - FAIL" by accident is not considered, nor is
  an empty one, nor a general task whose `goals.md` happens to parse as a simple one.
- Wording, prompts, rendering and parsing: the markdown codec, the agent catalog, the
  text matching of the fast path, the dialogs of the gates, the flags of the command
  line, the lines of the live widgets, `run-log.md` and `metrics-summary.md` but for
  their status. They are functions of texts that table-driven tests reach.
- Model configuration: functions from a file, a profile and front matter to a model.
- Build tool, clock, identifiers: thin wrappers.
- The semi-live mode of a replay. Of the stubs for git and npm only that they answer
  otherwise than git and npm did: what a pure replay does from the first request on that
  depends on it is not followed (`GoesAstray`), so of a recording with a code review of
  changed work the theorems are about the part before it.
- Two recorders of the event log in one process: a run that was resumed beside sessions
  of the run before it, which are still recording.
- The regression and integration checks at the end of implement, and verify, report and
  the baseline of plan: `Pipeline` has their outcomes, reads and writes, no module opens
  them. Each is a session or two with a mapping of its result.
- What an agent's tools write between an abort and the end of its session is modelled
  where the next step reads it (`ImplementWave`), not elsewhere.
- An error of the loop's own calls between two stages (telemetry, a checkpoint) ends the
  run where it happens. Its effect on files is that of a crash there, which `Recovery`
  and `Checkpoints` have.
- Worktrees and branches of tasks are removed without fail (`Removed`). The code tolerates
  that git fails in it; what is left then makes the next `git worktree add` for the task
  fail, which the stage reports as any other error in preparing it, or stays behind.
- A stage finds a missing input before it writes anything. Plan reads `config.md` later,
  which is always there by then.
- `NO_LOOP` as a request of a stage is handled by the operators of `RunState` but in no
  run's `Requests`, because no stage sends it. The loop would count it, archive nothing
  and go back to plan.
- The fields of a run that only displays read are left out: `stagesCompleted`,
  `phaseHistory`, timestamps, `resumeSource`.
- The modules are checked one by one. That what `ReviewGate`, `Research` or `Acceptance`
  return is among the outcomes that `Pipeline` gives the stage is by construction of
  those sets, not a theorem.

## Plan

Models: the end of implement and verify as steps of their own; the semi-live replay.
