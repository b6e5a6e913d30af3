-------------------------- MODULE ImplementWaveProofs --------------------------
(***************************************************************************)
(* Theorems about WavePlanner for every list of specs, and about            *)
(* ImplementWave for every list, number of attempts and policy: its waves,  *)
(* what it merges, what it leaves, what it says of it, and that it          *)
(* implements Integration.                                                 *)
(***************************************************************************)
EXTENDS ImplementWave, WellFoundedInduction, TLAPS

USE DEF id, deps

-----------------------------------------------------------------------------
(* Of the specs in a set one has a least id. *)
LEMMA LeastId ==
    ASSUME PlanTypeOK, NEW S, S \subseteq TaskSpec, S # {}
    PROVE  \E s \in S : \A t \in S : ~ (id(t) < id(s))
<1> DEFINE ids == {id(s) : s \in S}
<1>1. ids \subseteq Nat
  BY SpecAssumption DEF PlanTypeOK
<1>2. ids # {}
  OBVIOUS
<1>3. PICK n \in ids : \A m \in ids : ~ (<<m, n>> \in OpToRel(<, Nat))
  <2> HIDE DEF ids
  <2> QED BY <1>1, <1>2, NatLessThanWellFounded, WFMin
<1>4. \A m \in ids : ~ (m < n)
  BY <1>1, <1>3 DEF OpToRel
<1> QED BY <1>3, <1>4

(* What the waves hold: every surviving spec once, and under the plan       *)
(* writer's rule the ids of the waves are exactly the completed ones.       *)
WavesHold ==
    /\ remaining \subseteq Survivors
    /\ \A i \in DOMAIN waves : waves[i] \subseteq Survivors \ remaining
    /\ \A s \in Survivors \ remaining : \E i \in DOMAIN waves : s \in waves[i]
    /\ \A i, j \in DOMAIN waves : i # j => waves[i] \cap waves[j] = {}

CompletedAreInWaves ==
    \A d \in completed : \E i \in DOMAIN waves : \E t \in waves[i] : id(t) = d

NothingDumped ==
    PlanWriterRule => \A s \in Survivors \ remaining : id(s) \in completed

PlanInv ==
    /\ PlanTypeOK
    /\ WavesHold
    /\ CompletedAreInWaves
    /\ NothingDumped
    /\ DependenciesFirst

LEMMA PlanInitInv == PlanInit => PlanInv
BY DEF PlanInit, PlanInv, PlanTypeOK, WavesHold, CompletedAreInWaves,
       NothingDumped, DependenciesFirst, Survivors

(* Under the rule some task is ready as long as any is left. *)
LEMMA SomeReady ==
    ASSUME PlanInv, PlanWriterRule, remaining # {}
    PROVE  Ready # {}
<1>1. PICK r \in remaining : \A t \in remaining : ~ (id(t) < id(r))
  BY LeastId DEF PlanInv, PlanTypeOK
<1>2. r \in Survivors
  BY DEF PlanInv, WavesHold
<1>3. ASSUME NEW d \in deps(r)
      PROVE  d \in completed
  <2>1. d < id(r)
    BY <1>2 DEF PlanWriterRule
  <2>2. PICK t \in Survivors : id(t) = d
    BY <1>2 DEF PlanWriterRule
  <2>3. t \notin remaining
    BY <1>1, <2>1, <2>2
  <2> QED BY <2>2, <2>3 DEF PlanInv, NothingDumped
<1> QED BY <1>3 DEF Ready

LEMMA PlanNextInv == PlanInv /\ [PlanNext]_planVars => PlanInv'
<1> SUFFICES ASSUME PlanInv, [PlanNext]_planVars
             PROVE  PlanInv'
  OBVIOUS
<1> USE DEF PlanInv
<1>1. CASE UNCHANGED planVars
  BY <1>1 DEF planVars, PlanTypeOK, WavesHold, CompletedAreInWaves, NothingDumped,
              DependenciesFirst, Survivors, PlanWriterRule
<1>2. ASSUME UNCHANGED specs, NEW W \in SUBSET remaining, waves' = Append(waves, W),
             remaining' = remaining \ W
      PROVE  /\ waves' \in Seq(SUBSET TaskSpec)
             /\ DOMAIN waves' = DOMAIN waves \cup {Len(waves) + 1}
             /\ Len(waves) + 1 \notin DOMAIN waves
             /\ \A i \in DOMAIN waves : waves'[i] = waves[i]
             /\ waves'[Len(waves) + 1] = W
             /\ Survivors' = Survivors
             /\ WavesHold'
  <2>1. /\ waves' \in Seq(SUBSET TaskSpec)
        /\ DOMAIN waves' = DOMAIN waves \cup {Len(waves) + 1}
        /\ Len(waves) + 1 \notin DOMAIN waves
        /\ \A i \in DOMAIN waves : waves'[i] = waves[i]
        /\ waves'[Len(waves) + 1] = W
    BY <1>2 DEF PlanTypeOK
  <2>2. Survivors' = Survivors
    BY <1>2 DEF Survivors
  <2>3. WavesHold'
    BY <1>2, <2>1, <2>2 DEF WavesHold
  <2> QED BY <2>1, <2>2, <2>3
<1>3. CASE PlanWave
  <2>1. Ready \in SUBSET remaining
    BY DEF Ready
  <2>2. /\ waves' \in Seq(SUBSET TaskSpec)
        /\ DOMAIN waves' = DOMAIN waves \cup {Len(waves) + 1}
        /\ Len(waves) + 1 \notin DOMAIN waves
        /\ \A i \in DOMAIN waves : waves'[i] = waves[i]
        /\ waves'[Len(waves) + 1] = Ready
        /\ Survivors' = Survivors
        /\ WavesHold'
    BY <1>2, <1>3, <2>1 DEF PlanWave
  <2>3. PlanTypeOK'
    BY <1>3, <2>1, <2>2 DEF PlanWave, PlanTypeOK
  <2>4. CompletedAreInWaves'
    BY <1>3, <2>2 DEF PlanWave, CompletedAreInWaves
  <2>5. NothingDumped'
    <3>1. PlanWriterRule' = PlanWriterRule
      BY <1>3, <2>2 DEF PlanWave, PlanWriterRule
    <3> QED BY <1>3, <2>2, <3>1 DEF PlanWave, NothingDumped
  <2>6. DependenciesFirst'
    <3> SUFFICES ASSUME PlanWriterRule,
                        NEW i \in DOMAIN waves', NEW s \in waves'[i], NEW d \in deps(s)
                 PROVE  \E j \in 1..(i - 1) : \E t \in waves'[j] : id(t) = d
      BY <1>3, <2>2 DEF PlanWave, DependenciesFirst, PlanWriterRule
    <3>1. CASE i \in DOMAIN waves
      <4>1. PICK j \in 1..(i - 1) : \E t \in waves[j] : id(t) = d
        BY <2>2, <3>1 DEF DependenciesFirst
      <4>2. j \in DOMAIN waves
        BY <3>1 DEF PlanTypeOK
      <4> QED BY <2>2, <4>1, <4>2
    <3>2. CASE i = Len(waves) + 1
      <4>1. d \in completed
        BY <2>2, <3>2 DEF Ready
      <4>2. PICK j \in DOMAIN waves : \E t \in waves[j] : id(t) = d
        BY <4>1 DEF CompletedAreInWaves
      <4>3. j \in 1..(i - 1)
        BY <3>2, <4>2 DEF PlanTypeOK
      <4> QED BY <2>2, <4>2, <4>3
    <3> QED BY <2>2, <3>1, <3>2
  <2> QED BY <2>2, <2>3, <2>4, <2>5, <2>6
<1>4. CASE DumpRest
  <2>1. ~ PlanWriterRule
    BY <1>4, SomeReady DEF DumpRest
  <2>2. /\ waves' \in Seq(SUBSET TaskSpec)
        /\ DOMAIN waves' = DOMAIN waves \cup {Len(waves) + 1}
        /\ \A i \in DOMAIN waves : waves'[i] = waves[i]
        /\ Survivors' = Survivors
        /\ WavesHold'
    BY <1>2, <1>4 DEF DumpRest
  <2>3. ~ PlanWriterRule'
    BY <1>4, <2>1, <2>2 DEF DumpRest, PlanWriterRule
  <2>4. PlanTypeOK'
    BY <1>4, <2>2 DEF DumpRest, PlanTypeOK
  <2>5. CompletedAreInWaves'
    BY <1>4, <2>2 DEF DumpRest, CompletedAreInWaves
  <2> QED BY <2>2, <2>3, <2>4, <2>5 DEF NothingDumped, DependenciesFirst
<1>5. CASE Planned
  BY <1>1, <1>5 DEF Planned
<1> QED BY <1>1, <1>3, <1>4, <1>5 DEF PlanNext

(* Each surviving task is in exactly one wave or still waiting, whatever    *)
(* the dependencies are (buildWaves).                                       *)
THEOREM PlanCoversTasks == PlanSpec => []EachTaskOnce
<1>1. PlanInv => EachTaskOnce
  BY DEF PlanInv, WavesHold, EachTaskOnce
<1> QED BY <1>1, PlanInitInv, PlanNextInv, PTL DEF PlanSpec

(* If every dependency has a lower number and is of the phase, every task   *)
(* comes in a later wave than what it depends on (buildWaves).              *)
THEOREM PlanRespectsDependencies == PlanSpec => []DependenciesFirst
<1>1. PlanInv => DependenciesFirst
  BY DEF PlanInv
<1> QED BY <1>1, PlanInitInv, PlanNextInv, PTL DEF PlanSpec

(* Both: no task is lost, run twice, or run before what it needs.           *)
THEOREM WavesHoldTogether == PlanSpec => []WavesSound
<1>1. EachTaskOnce /\ DependenciesFirst
        => WavesSound
  BY DEF WavesSound
<1> QED
  BY <1>1, PlanCoversTasks, PlanRespectsDependencies, PTL

-----------------------------------------------------------------------------
(* The implement stage draws its waves up by the planner, and nothing that  *)
(* its tasks, merges, retries and restarts do changes them (implement.ts).  *)
THEOREM StagePlans == Spec => PlanSpec
<1>1. Init => PlanInit
  BY DEF Init
<1>2. [Next]_vars => [PlanNext]_planVars
  <2> SUFFICES ASSUME [Next]_vars PROVE PlanNext \/ UNCHANGED planVars
    OBVIOUS
  <2>1. CASE Plan
    BY <2>1 DEF Plan, PlanNext
  <2>2. CASE StartWave \/ StartTasks \/ WaveFails \/ WavePasses \/ WaveMerged \/ Check
    BY <2>2 DEF StartWave, StartTasks, WaveFails, WavePasses, WaveMerged, Check
  <2>3. CASE Merge
    <3>1. KeepsStage => UNCHANGED planVars
      BY DEF KeepsStage
    <3> QED
      BY <2>3, <3>1 DEF Merge, CommitWorktree, Squash, Squashed, Rebase, FixConflict,
         ContinueRebase, Resquash, GoesOn, Abandon
  <2>4. CASE RetryStage \/ AbortStage \/ Throws \/ Crash \/ ResumeStage
    BY <2>4 DEF RetryStage, AbortStage, Throws, Crash, ResumeStage
  <2>5. CASE \E a \in Attempt, t \in TaskSpec : JobStep(a, t)
    BY <2>5 DEF JobStep
  <2>6. CASE Ended \/ UNCHANGED vars
    BY <2>6 DEF Ended, vars
  <2> QED
    BY <2>1, <2>2, <2>3, <2>4, <2>5, <2>6 DEF Next, StageStep
<1> QED BY <1>1, <1>2, PTL DEF Spec, PlanSpec

(* So in every state of the stage no task is lost, run twice, or run before *)
(* what it needs.                                                           *)
THEOREM StageWavesHold == Spec => []WavesSound
BY StagePlans, WavesHoldTogether, PTL


-----------------------------------------------------------------------------
(* What the actions of ImplementWave are built from. *)

LEMMA TreeFields ==
    ASSUME NEW r \in Tree \cup {NoTree}
    PROVE  /\ r.exists \in BOOLEAN
           /\ r.exists => /\ r \in Tree /\ r.base \in SUBSET TaskSpec
                          /\ r.content \in Content /\ r.committed \in Content
           /\ ~ r.exists => r = NoTree
<1>1. CASE r \in Tree
  BY <1>1 DEF Tree
<1>2. CASE r = NoTree
  BY <1>2 DEF NoTree
<1> QED BY <1>1, <1>2

(* Writing changes the content of the worktree that is there, and no other. *)
LEMMA WritesTree ==
    ASSUME tree \in [TaskSpec -> Tree \cup {NoTree}], NEW t \in TaskSpec,
           NEW content \in Content, Writes(t, content)
    PROVE  /\ tree' \in [TaskSpec -> Tree \cup {NoTree}]
           /\ \A u \in TaskSpec : u # t => tree'[u] = tree[u]
           /\ tree'[t].exists = tree[t].exists
           /\ tree[t].exists => tree' = [tree EXCEPT ![t].content = content]
           /\ tree[t].exists => /\ tree'[t].content = content
                                /\ tree'[t].base = tree[t].base
                                /\ tree'[t].committed = tree[t].committed
<1>1. CASE tree[t].exists
  <2>1. tree[t] \in Tree
    BY <1>1, TreeFields
  <2>2. tree' = [tree EXCEPT ![t].content = content]
    BY <1>1 DEF Writes
  <2>3. tree'[t] = [tree[t] EXCEPT !.content = content]
    BY <2>2
  <2>4. /\ tree'[t] \in Tree /\ tree'[t].exists = tree[t].exists
        /\ tree'[t].content = content /\ tree'[t].base = tree[t].base
        /\ tree'[t].committed = tree[t].committed
    BY <2>1, <2>3 DEF Tree
  <2>5. tree' = [tree EXCEPT ![t] = tree'[t]]
    BY <2>2, <2>3
  <2> QED BY <1>1, <2>2, <2>4, <2>5
<1>2. CASE ~ tree[t].exists
  BY <1>2 DEF Writes
<1>3. tree[t].exists \in BOOLEAN
  BY TreeFields
<1> QED BY <1>1, <1>2, <1>3

LEMMA MoveJob ==
    ASSUME job \in [Attempt -> [TaskSpec -> Job]], NEW a \in Attempt, NEW t \in TaskSpec,
           NEW pc \in {"idle", "ready", "dead"} \cup Prepares \cup Works \cup Settled,
           Move(a, t, pc)
    PROVE  /\ job' \in [Attempt -> [TaskSpec -> Job]]
           /\ job'[a][t].pc = pc
           /\ \A b \in Attempt, u \in TaskSpec : b # a \/ u # t => job'[b][u] = job[b][u]
<1>1. job' = [job EXCEPT ![a] = [job[a] EXCEPT ![t] = [job[a][t] EXCEPT !.pc = pc]]]
  BY DEF Move
<1>2. job[a] \in [TaskSpec -> Job] /\ job[a][t] \in Job
  OBVIOUS
<1>3. [job[a][t] EXCEPT !.pc = pc] \in Job /\ [job[a][t] EXCEPT !.pc = pc].pc = pc
  BY <1>2 DEF Job
<1> QED BY <1>1, <1>2, <1>3

LEMMA TryAgainJob ==
    ASSUME job \in [Attempt -> [TaskSpec -> Job]], NEW a \in Attempt, NEW t \in TaskSpec,
           TryAgain(a, t)
    PROVE  /\ job' \in [Attempt -> [TaskSpec -> Job]]
           /\ job'[a][t].pc \in {"failed", "code"}
           /\ \A b \in Attempt, u \in TaskSpec : b # a \/ u # t => job'[b][u] = job[b][u]
<1> DEFINE j == IF job[a][t].try = 2 THEN [job[a][t] EXCEPT !.pc = "failed"]
                ELSE [job[a][t] EXCEPT !.pc = "code", !.try = 2, !.answered = FALSE]
<1>1. job' = [job EXCEPT ![a] = [job[a] EXCEPT ![t] = j]]
  BY DEF TryAgain
<1>2. job[a] \in [TaskSpec -> Job] /\ job[a][t] \in Job
  OBVIOUS
<1>3. j \in Job /\ j.pc \in {"failed", "code"}
  <2>1. CASE job[a][t].try = 2
    <3>1. j = [job[a][t] EXCEPT !.pc = "failed"]
      BY <2>1
    <3> QED BY <1>2, <3>1 DEF Job, Settled
  <2>2. CASE job[a][t].try # 2
    <3>1. j = [[[job[a][t] EXCEPT !.pc = "code"] EXCEPT !.try = 2] EXCEPT !.answered = FALSE]
      BY <2>2
    <3>2. j = [pc |-> "code", try |-> 2, answered |-> FALSE]
      BY <1>2, <3>1 DEF Job
    <3> HIDE DEF j
    <3> QED BY <3>2 DEF Job, Works
  <2> QED BY <2>1, <2>2
<1> HIDE DEF j
<1> QED BY <1>1, <1>2, <1>3

(* A step of one promise: what it may do to its own place, its worktree,    *)
(* the stage and the branches.                                              *)
JobAlone(a, t) ==
    /\ job' \in [Attempt -> [TaskSpec -> Job]]
    /\ \A b \in Attempt, u \in TaskSpec : b # a \/ u # t => job'[b][u] = job[b][u]

TreeAlone(t) ==
    /\ tree' \in [TaskSpec -> Tree \cup {NoTree}]
    /\ \A u \in TaskSpec : u # t => tree'[u] = tree[u]

StageKept(a) ==
    \/ control' = control
    \/ control' = "threw" /\ a = attempt /\ control \in {"prepare", "tasks"}

BranchesKept == UNCHANGED <<head, runExists, work>>

BranchMade ==
    /\ ~ runExists /\ runExists' = TRUE
    /\ work' = [work EXCEPT !["run"] = work["main"]]
    /\ head' = IF head = "unborn" THEN "run" ELSE head

(* p: where the promise was, q: where it is after the step.                 *)
TreeByPlace(t, p, q) ==
    /\ q = "ready" => tree'[t] = NewTree
    /\ q = "ensure" => ~ tree'[t].exists
    /\ q \in {"create", "add", "passed"} => tree'[t] = tree[t]
    /\ q # "ready" /\ tree'[t].exists => tree[t].exists /\ tree'[t].base = tree[t].base
    /\ q = "review" /\ tree'[t].exists => tree'[t].content = "verified"

Places(p, q) ==
    /\ p \in Prepares \cup Works
    /\ p = "cleanup" => q = "ensure"
    /\ q \in {"ready"} \cup Works \cup {"passed", "failed"} => p \in {"add"} \cup Works
    /\ q \in {"create", "add"} => p \in {"ensure", "create"}
    /\ q = "ready" => p = "add"
    /\ q = "passed" => p = "review"
    /\ q \notin {"idle", "dead", "cleanup"}

JobEffect(a, t) ==
    /\ JobAlone(a, t) /\ TreeAlone(t) /\ StageKept(a)
    /\ BranchesKept \/ BranchMade
    /\ job'[a][t].pc = "add" => runExists'
    /\ merged' = merged
    /\ Places(job[a][t].pc, job'[a][t].pc)
    /\ TreeByPlace(t, job[a][t].pc, job'[a][t].pc)

LEMMA JobStepEffect ==
    ASSUME ImplementTypeOK, NEW a \in Attempt, NEW t \in TaskSpec, JobStep(a, t)
    PROVE  JobEffect(a, t)
<1> USE DEF JobEffect, JobAlone, TreeAlone, StageKept, BranchesKept
<1>0. /\ job \in [Attempt -> [TaskSpec -> Job]] /\ tree \in [TaskSpec -> Tree \cup {NoTree}]
      /\ work \in [{"run", "main"} -> SUBSET TaskSpec] /\ runExists \in BOOLEAN
  BY DEF ImplementTypeOK
<1>m. ASSUME NEW pc \in {"idle", "ready", "dead"} \cup Prepares \cup Works \cup Settled,
             Move(a, t, pc)
      PROVE  JobAlone(a, t) /\ job'[a][t].pc = pc
  BY <1>0, <1>m, MoveJob
<1>w. ASSUME NEW waiting \in {"prepare", "tasks"}, JobThrows(a, t, waiting)
      PROVE  JobAlone(a, t) /\ job'[a][t].pc = "threw" /\ StageKept(a)
  <2>1. Move(a, t, "threw")
    BY <1>w DEF JobThrows
  <2>2. JobAlone(a, t) /\ job'[a][t].pc = "threw"
    BY <2>1, <1>m DEF Settled
  <2> QED BY <1>w, <2>2 DEF JobThrows
<1>n. /\ NewTree \in Tree /\ NewTree.exists /\ NewTree.base = work["run"]
  BY <1>0 DEF NewTree, Tree, Content
<1>1. CASE CleanUp(a, t)
  <2>1. JobAlone(a, t) /\ job'[a][t].pc = "ensure" /\ control' = control
    BY <1>1, <1>m DEF CleanUp, Waits, Prepares
  <2>2. TreeAlone(t) /\ tree'[t] = NoTree
    BY <1>0, <1>1 DEF CleanUp, Removed
  <2>3. ~ tree'[t].exists
    BY <2>2 DEF NoTree
  <2> QED BY <1>1, <2>1, <2>2, <2>3 DEF CleanUp, Places, TreeByPlace, Prepares, Works
<1>2. CASE EnsureRunBranch(a, t)
  <2>1. /\ JobAlone(a, t) /\ control' = control
        /\ job'[a][t].pc = IF runExists THEN "add" ELSE "create"
    BY <1>2, <1>m, <1>0 DEF EnsureRunBranch, Waits, Prepares
  <2> QED BY <1>0, <1>2, <2>1 DEF EnsureRunBranch, Places, TreeByPlace, Prepares, Works, gitVars
<1>3. CASE CreateBranch(a, t)
  <2>1. CASE JobThrows(a, t, "prepare") /\ UNCHANGED gitVars
    BY <1>0, <1>3, <2>1, <1>w DEF CreateBranch, Places, TreeByPlace, Prepares, Works, gitVars
  <2>2. CASE runExists /\ head = "run" /\ Waits(a, t, "add") /\ UNCHANGED gitVars
    <3>1. JobAlone(a, t) /\ control' = control /\ job'[a][t].pc = "add"
      BY <2>2, <1>m DEF Waits, Prepares
    <3> QED
      BY <1>0, <1>3, <2>2, <3>1 DEF CreateBranch, Places, TreeByPlace, Prepares, Works, gitVars
  <2>3. CASE BranchMade /\ Waits(a, t, "add") /\ UNCHANGED <<tree, merged>>
    <3>1. JobAlone(a, t) /\ control' = control /\ job'[a][t].pc = "add"
      BY <2>3, <1>m DEF Waits, Prepares
    <3>2. runExists'
      BY <2>3 DEF BranchMade
    <3> QED
      BY <1>0, <1>3, <2>3, <3>1, <3>2 DEF CreateBranch, Places, TreeByPlace, Prepares, Works
  <2> QED BY <1>3, <2>1, <2>2, <2>3 DEF CreateBranch, BranchMade
<1>4. CASE AddWorktree(a, t)
  <2>1. CASE tree' = [tree EXCEPT ![t] = NewTree] /\ Waits(a, t, "ready")
             /\ UNCHANGED <<head, runExists, work, merged>>
    <3>1. JobAlone(a, t) /\ control' = control /\ job'[a][t].pc = "ready"
      BY <2>1, <1>m DEF Waits
    <3>2. TreeAlone(t) /\ tree'[t] = NewTree
      BY <1>0, <1>n, <2>1
    <3> QED
      BY <1>4, <2>1, <3>1, <3>2 DEF AddWorktree, Places, TreeByPlace, Prepares, Works
  <2>2. CASE JobThrows(a, t, "prepare") /\ UNCHANGED gitVars
    BY <1>0, <1>4, <2>2, <1>w DEF AddWorktree, Places, TreeByPlace, Prepares, Works, gitVars
  <2> QED BY <1>4, <2>1, <2>2 DEF AddWorktree
<1>s. ASSUME NEW from \in {"code", "test"}, job[a][t].pc = from,
             NEW next \in {"test", "verify"},
             UNCHANGED <<head, runExists, work, merged>>,
             \/ Writes(t, "draft") /\ Waits(a, t, next)
             \/ Writes(t, "draft") /\ Waits(a, t, "failed")
             \/ UNCHANGED tree /\ JobThrows(a, t, "tasks")
      PROVE  JobEffect(a, t)
  <2>1. CASE UNCHANGED tree /\ JobThrows(a, t, "tasks")
    BY <1>0, <1>s, <2>1, <1>w DEF Places, TreeByPlace, Prepares, Works
  <2>2. ASSUME NEW q \in {next, "failed"}, Writes(t, "draft"), Waits(a, t, q)
        PROVE  JobEffect(a, t)
    <3>1. JobAlone(a, t) /\ control' = control /\ job'[a][t].pc = q
      BY <2>2, <1>m DEF Waits, Works, Settled
    <3>2. /\ TreeAlone(t) /\ tree'[t].exists = tree[t].exists
          /\ tree[t].exists => tree'[t].base = tree[t].base
      BY <1>0, <2>2, WritesTree DEF Content
    <3> QED BY <1>s, <2>2, <3>1, <3>2 DEF Places, TreeByPlace, Prepares, Works
  <2> QED BY <1>s, <2>1, <2>2
<1>5. CASE Code(a, t)
  BY <1>5, <1>s DEF Code
<1>6. CASE Test(a, t)
  BY <1>6, <1>s DEF Test
<1>7. CASE Verify(a, t)
  <2>1. CASE Writes(t, "verified") /\ Waits(a, t, "review")
    <3>1. JobAlone(a, t) /\ control' = control /\ job'[a][t].pc = "review"
      BY <2>1, <1>m DEF Waits, Works
    <3>2. /\ TreeAlone(t) /\ tree'[t].exists = tree[t].exists
          /\ tree[t].exists => /\ tree'[t].base = tree[t].base
                               /\ tree'[t].content = "verified"
      BY <1>0, <2>1, WritesTree DEF Content
    <3> QED BY <1>7, <3>1, <3>2 DEF Verify, Places, TreeByPlace, Prepares, Works
  <2>2. CASE UNCHANGED <<tree, control>> /\ TryAgain(a, t)
    <3>1. JobAlone(a, t) /\ job'[a][t].pc \in {"failed", "code"}
      BY <1>0, <2>2, TryAgainJob
    <3> QED BY <1>0, <1>7, <2>2, <3>1 DEF Verify, Places, TreeByPlace, Prepares, Works
  <2>3. CASE UNCHANGED tree /\ JobThrows(a, t, "tasks")
    BY <1>0, <1>7, <2>3, <1>w DEF Verify, Places, TreeByPlace, Prepares, Works
  <2> QED BY <1>7, <2>1, <2>2, <2>3 DEF Verify
<1>8. CASE Review(a, t)
  <2>1. CASE TryAgain(a, t) /\ UNCHANGED control
    <3>1. JobAlone(a, t) /\ job'[a][t].pc \in {"failed", "code"}
      BY <1>0, <2>1, TryAgainJob
    <3> QED BY <1>0, <1>8, <2>1, <3>1 DEF Review, Places, TreeByPlace, Prepares, Works, gitVars
  <2>2. ASSUME NEW answered \in BOOLEAN, UNCHANGED control,
               job' = [job EXCEPT ![a][t].pc = "passed", ![a][t].answered = answered]
        PROVE  JobEffect(a, t)
    <3> DEFINE j == [[job[a][t] EXCEPT !.pc = "passed"] EXCEPT !.answered = answered]
    <3>1. job' = [job EXCEPT ![a] = [job[a] EXCEPT ![t] = j]]
      BY <1>0, <2>2
    <3>2. j \in Job /\ j.pc = "passed"
      <4>1. job[a][t] \in Job
        BY <1>0
      <4> QED BY <4>1 DEF Job, Settled
    <3>3. JobAlone(a, t) /\ job'[a][t].pc = "passed"
      <4> HIDE DEF j
      <4> QED BY <1>0, <3>1, <3>2
    <3> QED BY <1>0, <1>8, <2>2, <3>3 DEF Review, Places, TreeByPlace, Prepares, Works, gitVars
  <2>3. CASE JobThrows(a, t, "tasks")
    BY <1>0, <1>8, <2>3, <1>w DEF Review, Places, TreeByPlace, Prepares, Works, gitVars
  <2> QED BY <1>8, <2>1, <2>2, <2>3 DEF Review
<1> QED
  BY <1>1, <1>2, <1>3, <1>4, <1>5, <1>6, <1>7, <1>8 DEF JobStep


-----------------------------------------------------------------------------
(* The task that is merged next: the least of its wave that is not merged. *)
LEMMA TheCurrentTask ==
    ASSUME PlanTypeOK, wave \in DOMAIN waves, ~ (Wave \subseteq InLog)
    PROVE  /\ CurrentTask \in TaskSpec
           /\ CurrentTask \in Wave /\ CurrentTask \notin InLog
           /\ \A u \in Wave : id(u) < id(CurrentTask) => u \in InLog
<1>1. Wave \subseteq TaskSpec
  BY DEF PlanTypeOK, Wave
<1>2. Wave \ InLog # {}
  OBVIOUS
<1>3. PICK s \in Wave \ InLog : \A t \in Wave \ InLog : ~ (id(t) < id(s))
  BY <1>1, <1>2, LeastId
<1>4. \A t \in TaskSpec : id(t) \in Nat
  BY SpecAssumption DEF PlanTypeOK
<1>5. \A t \in Wave \ InLog : id(s) <= id(t)
  BY <1>1, <1>3, <1>4
<1>6. /\ CurrentTask \in Wave \ InLog
      /\ \A u \in Wave \ InLog : id(CurrentTask) <= id(u)
  BY <1>5 DEF CurrentTask
<1> QED BY <1>1, <1>4, <1>6

(* A step that does not merge: it changes the worktree of the task, and     *)
(* goes on or gives the stage up.                                           *)
MergeGoesOn(t) ==
    /\ TreeAlone(t) /\ BranchesKept /\ merged' = merged /\ log' = log
    /\ tree'[t].exists = tree[t].exists
    /\ tree'[t].exists => tree'[t].content \in {tree[t].content, "resolved"}
    /\ \/ /\ merging' \in Steps /\ UNCHANGED <<control, manifest, outcome>>
          /\ merging' \in {"squash", "resquash"} /\ tree'[t].exists
                => tree'[t].committed = tree'[t].content
       \/ Return("FAIL", Rows(InLog, {t})) /\ merging' = merging

MergeEffect(t) ==
    /\ control = "merge" /\ ~ (Wave \subseteq InLog) /\ KeepsStage
    /\ \/ (Merging("squash") \/ Merging("resquash")) /\ Squashed(t)
       \/ MergeGoesOn(t)

LEMMA MergesInMerge == Merge => control = "merge" /\ ~ (Wave \subseteq InLog)
BY DEF Merge, Merging, CommitWorktree, Squash, Rebase, FixConflict, ContinueRebase, Resquash

LEMMA MergeStepEffect ==
    ASSUME ImplementTypeOK, wave \in DOMAIN waves, Merge
    PROVE  CurrentTask \in TaskSpec /\ MergeEffect(CurrentTask)
<1> DEFINE t == CurrentTask
<1>0. control = "merge" /\ ~ (Wave \subseteq InLog)
  BY MergesInMerge
<1>1. t \in TaskSpec
  BY <1>0, TheCurrentTask DEF ImplementTypeOK
<1> HIDE DEF t
<1> SUFFICES MergeEffect(t)
  BY <1>1 DEF t
<1>2. /\ tree \in [TaskSpec -> Tree \cup {NoTree}] /\ work \in [{"run", "main"} -> SUBSET TaskSpec]
      /\ merging \in Steps
  BY DEF ImplementTypeOK
<1>3. /\ tree[t].exists \in BOOLEAN
      /\ tree[t].exists => tree[t] \in Tree /\ tree[t].exists = TRUE
  BY <1>1, <1>2, TreeFields
<1>4. ASSUME NEW step, GoesOn(step)
      PROVE  /\ KeepsStage /\ merging' = step /\ log' = log
             /\ UNCHANGED <<control, manifest, outcome>>
  BY <1>4 DEF GoesOn
<1>5. ASSUME Abandon(t)
      PROVE  /\ KeepsStage /\ log' = log /\ merging' = merging
             /\ Return("FAIL", Rows(InLog, {t}))
  BY <1>5 DEF Abandon
<1>6. UNCHANGED tree
        => TreeAlone(t) /\ tree'[t] = tree[t]
  BY <1>2 DEF TreeAlone
<1>r. ASSUME NEW r \in Tree, tree' = [tree EXCEPT ![t] = r]
      PROVE  TreeAlone(t) /\ tree'[t] = r /\ r.exists = TRUE
  BY <1>r, <1>1, <1>2 DEF TreeAlone, Tree
<1> USE DEF MergeEffect, MergeGoesOn, BranchesKept
<1>7. ASSUME NEW from \in {"commit", "recommit"}, NEW next \in {"squash", "resquash"},
             CommitWorktree(from, next)
      PROVE  MergeEffect(t)
  <2>1. /\ GoesOn(next) /\ UNCHANGED <<head, runExists, work, merged>>
        /\ tree' = IF tree[t].exists THEN [tree EXCEPT ![t].committed = tree[t].content]
                   ELSE tree
    BY <1>7 DEF CommitWorktree, t
  <2>2. CASE tree[t].exists
    <3> DEFINE r == [tree[t] EXCEPT !.committed = tree[t].content]
    <3>1. r \in Tree /\ r.content = tree[t].content /\ r.committed = tree[t].content
      BY <1>3, <2>2 DEF Tree
    <3>2. tree' = [tree EXCEPT ![t] = r]
      BY <2>1, <2>2
    <3> HIDE DEF r
    <3> QED BY <1>0, <1>4, <1>r, <2>1, <2>2, <3>1, <3>2 DEF Steps
  <2>3. CASE ~ tree[t].exists
    BY <1>0, <1>4, <1>6, <2>1, <2>3 DEF Steps
  <2> QED BY <1>3, <2>2, <2>3
<1>8. CASE Squash
  <2>1. /\ Merging("squash")
        /\ Squashed(t) \/ (GoesOn("rebase") /\ UNCHANGED gitVars)
    BY <1>8 DEF Squash, t
  <2>2. Squashed(t) => KeepsStage
    BY DEF Squashed
  <2>3. GoesOn("rebase") /\ UNCHANGED gitVars => MergeEffect(t)
    BY <1>0, <1>4, <1>6 DEF gitVars, Steps
  <2> QED BY <1>0, <2>1, <2>2, <2>3
<1>b. ASSUME tree[t].exists, tree' = Rebased(t)
      PROVE  /\ TreeAlone(t) /\ tree'[t].exists = tree[t].exists
             /\ tree'[t].content = tree[t].content
  <2> DEFINE r == [[tree[t] EXCEPT !.base = work["run"]] EXCEPT !.rebasing = FALSE]
  <2>1. r \in Tree /\ r.content = tree[t].content
    BY <1>2, <1>3, <1>b DEF Tree
  <2>2. tree' = [tree EXCEPT ![t] = r]
    BY <1>b, <1>1, <1>2 DEF Rebased
  <2> HIDE DEF r
  <2> QED BY <1>3, <1>b, <1>r, <2>1, <2>2
<1>9. CASE Rebase
  <2>0. UNCHANGED <<head, runExists, work, merged>>
    BY <1>9 DEF Rebase
  <2>1. \/ tree[t].exists /\ tree' = Rebased(t) /\ GoesOn("recommit")
        \/ /\ tree' = IF tree[t].exists THEN [tree EXCEPT ![t].rebasing = TRUE] ELSE tree
           /\ GoesOn("fix")
    BY <1>9 DEF Rebase, t
  <2>2. CASE tree[t].exists /\ tree' = Rebased(t) /\ GoesOn("recommit")
    <3>1. /\ TreeAlone(t) /\ tree'[t].exists = tree[t].exists
          /\ tree'[t].content = tree[t].content
      BY <1>b, <2>2
    <3>2. /\ KeepsStage /\ merging' = "recommit" /\ log' = log
          /\ UNCHANGED <<control, manifest, outcome>>
      BY <1>4, <2>2
    <3> QED BY <1>0, <2>0, <3>1, <3>2 DEF Steps
  <2>3. CASE tree[t].exists /\ tree' = [tree EXCEPT ![t].rebasing = TRUE] /\ GoesOn("fix")
    <3> DEFINE r == [tree[t] EXCEPT !.rebasing = TRUE]
    <3>1. r \in Tree /\ r.content = tree[t].content
      BY <1>3, <2>3 DEF Tree
    <3>2. tree' = [tree EXCEPT ![t] = r]
      BY <2>3
    <3> HIDE DEF r
    <3>3. /\ TreeAlone(t) /\ tree'[t].exists = tree[t].exists
          /\ tree'[t].content = tree[t].content
      BY <1>3, <1>r, <2>3, <3>1, <3>2
    <3>4. /\ KeepsStage /\ merging' = "fix" /\ log' = log
          /\ UNCHANGED <<control, manifest, outcome>>
      BY <1>4, <2>3
    <3> QED BY <1>0, <2>0, <3>3, <3>4 DEF Steps
  <2>4. CASE ~ tree[t].exists /\ UNCHANGED tree /\ GoesOn("fix")
    BY <1>0, <1>4, <1>6, <2>0, <2>4 DEF Steps
  <2> QED BY <1>3, <2>1, <2>2, <2>3, <2>4
<1>c. CASE FixConflict
  <2>0. UNCHANGED <<head, runExists, work, merged>>
    BY <1>c DEF FixConflict
  <2>1. Writes(t, "resolved") /\ (GoesOn("continue") \/ Abandon(t))
    BY <1>c DEF FixConflict, t
  <2>2. /\ TreeAlone(t) /\ tree'[t].exists = tree[t].exists
        /\ tree[t].exists => tree'[t].content = "resolved"
    BY <1>1, <1>2, <2>1, WritesTree DEF Content, TreeAlone
  <2> QED BY <1>0, <1>4, <1>5, <2>0, <2>1, <2>2 DEF Steps
<1>d. CASE ContinueRebase
  <2>0. UNCHANGED <<head, runExists, work, merged>>
    BY <1>d DEF ContinueRebase
  <2>1. \/ tree[t].exists /\ tree' = Rebased(t) /\ GoesOn("recommit")
        \/ UNCHANGED tree /\ Abandon(t)
    BY <1>d DEF ContinueRebase, t
  <2>2. CASE tree[t].exists /\ tree' = Rebased(t) /\ GoesOn("recommit")
    <3>1. /\ TreeAlone(t) /\ tree'[t].exists = tree[t].exists
          /\ tree'[t].content = tree[t].content
      BY <1>b, <2>2
    <3>2. /\ KeepsStage /\ merging' = "recommit" /\ log' = log
          /\ UNCHANGED <<control, manifest, outcome>>
      BY <1>4, <2>2
    <3> QED BY <1>0, <2>0, <3>1, <3>2 DEF Steps
  <2>3. CASE UNCHANGED tree /\ Abandon(t)
    BY <1>0, <1>5, <1>6, <2>0, <2>3
  <2> QED BY <2>1, <2>2, <2>3
<1>e. CASE Resquash
  <2>1. /\ Merging("resquash")
        /\ Squashed(t) \/ (Abandon(t) /\ UNCHANGED gitVars)
    BY <1>e DEF Resquash, t
  <2>2. Squashed(t) => KeepsStage
    BY DEF Squashed
  <2>3. Abandon(t) /\ UNCHANGED gitVars => MergeEffect(t)
    BY <1>0, <1>5, <1>6 DEF gitVars
  <2> QED BY <1>0, <2>1, <2>2, <2>3
<1> QED BY <1>7, <1>8, <1>9, <1>c, <1>d, <1>e DEF Merge


-----------------------------------------------------------------------------
(* A process that dies leaves no promise open. *)
LEMMA AllDeadJobs ==
    ASSUME job \in [Attempt -> [TaskSpec -> Job]], job' = AllDead
    PROVE  /\ job' \in [Attempt -> [TaskSpec -> Job]]
           /\ \A a \in Attempt, t \in TaskSpec :
                 /\ job[a][t].pc \in {"idle"} \cup Settled => job'[a][t] = job[a][t]
                 /\ job[a][t].pc \notin {"idle"} \cup Settled => job'[a][t].pc = "dead"
<1> SUFFICES ASSUME NEW a \in Attempt, NEW t \in TaskSpec
             PROVE  /\ job'[a][t] \in Job
                    /\ job[a][t].pc \in {"idle"} \cup Settled => job'[a][t] = job[a][t]
                    /\ job[a][t].pc \notin {"idle"} \cup Settled => job'[a][t].pc = "dead"
  BY DEF AllDead
<1>1. job[a][t] \in Job
  OBVIOUS
<1>2. job'[a][t] = IF job[a][t].pc \in {"idle"} \cup Settled THEN job[a][t]
                   ELSE [job[a][t] EXCEPT !.pc = "dead"]
  BY DEF AllDead
<1> QED BY <1>1, <1>2 DEF Job

(* The promises of a wave are started together. *)
LEMMA WaveStarts ==
    ASSUME ImplementTypeOK, NEW pc \in {"cleanup", "code"},
           \/ StartWave /\ pc = "cleanup"
           \/ StartTasks /\ pc = "code"
    PROVE  /\ job' \in [Attempt -> [TaskSpec -> Job]]
           /\ \A a \in Attempt, t \in TaskSpec :
                 IF a = attempt /\ t \in Wave THEN job'[a][t].pc = pc
                 ELSE job'[a][t] = job[a][t]
<1>0. job \in [Attempt -> [TaskSpec -> Job]] /\ attempt \in Attempt
  BY DEF ImplementTypeOK
<1>1. CASE StartWave /\ pc = "cleanup"
  <2>1. job' = [job EXCEPT ![attempt] =
                  [t \in TaskSpec |-> IF t \in Wave THEN [Idle EXCEPT !.pc = "cleanup"]
                                      ELSE job[attempt][t]]]
    BY <1>0, <1>1 DEF StartWave
  <2>2. [Idle EXCEPT !.pc = "cleanup"] \in Job /\ [Idle EXCEPT !.pc = "cleanup"].pc = "cleanup"
    <3>1. Idle \in Job
      BY DEF Idle, Job
    <3> QED BY <3>1 DEF Job, Prepares
  <2> QED BY <1>0, <1>1, <2>1, <2>2
<1>2. CASE StartTasks /\ pc = "code"
  <2>1. job' = [job EXCEPT ![attempt] =
                  [t \in TaskSpec |-> IF t \in Wave THEN [job[attempt][t] EXCEPT !.pc = "code"]
                                      ELSE job[attempt][t]]]
    BY <1>0, <1>2 DEF StartTasks
  <2>2. \A t \in TaskSpec : /\ [job[attempt][t] EXCEPT !.pc = "code"] \in Job
                            /\ [job[attempt][t] EXCEPT !.pc = "code"].pc = "code"
    <3> TAKE t \in TaskSpec
    <3>1. job[attempt][t] \in Job
      BY <1>0
    <3> QED BY <3>1 DEF Job, Works
  <2> QED BY <1>0, <1>2, <2>1, <2>2
<1> QED BY <1>1, <1>2

StageFacts ==
    /\ attempt + retries <= MaxAttempts
    /\ control # "plan" => remaining = {}
    /\ control = "plan" => log = <<>> /\ wave = 1
    /\ control # "ended" => outcome = "none"
    /\ control \in {"prepare", "tasks", "merge"} => wave \in DOMAIN waves
    /\ \A a \in Attempt, t \in TaskSpec : a > attempt => job[a][t].pc = "idle"

LEMMA RowsType ==
    ASSUME NEW passed, NEW failed
    PROVE  Rows(passed, failed) \in [TaskSpec -> {"none", "PASS", "FAIL"}]
BY DEF Rows

(* What an entry of the stage starts with. *)
LEMMA StageEnters ==
    ASSUME ImplementTypeOK, RetryStage \/ ResumeStage, StageFacts
    PROVE  /\ attempt' = attempt + 1 /\ attempt' \in Attempt /\ retries' \in AutomaticRetries
           /\ attempt' + retries' <= MaxAttempts
           /\ control' = "wave" /\ control # "plan" /\ wave' = 1 /\ log' = <<>>
           /\ outcome' = "none" /\ outcome \notin {"PASS", "PARTIAL"}
           /\ head' \in {head, "main"}
           /\ UNCHANGED <<merging, manifest, runExists, work, tree, merged, planVars>>
           /\ job' \in [Attempt -> [TaskSpec -> Job]]
           /\ job' = job \/ job' = AllDead
<1>0. /\ attempt \in Attempt /\ retries \in AutomaticRetries
      /\ job \in [Attempt -> [TaskSpec -> Job]]
  BY DEF ImplementTypeOK
<1>1. CASE RetryStage
  <2>1. retries = 1 /\ retries' = 0 /\ 0 \in AutomaticRetries
    BY <1>0, <1>1, ImplementAssumption DEF RetryStage
  <2>2. attempt' = attempt + 1 /\ attempt' \in Attempt /\ attempt' + retries' <= MaxAttempts
    BY <1>0, <1>1, <2>1, ImplementAssumption DEF RetryStage, Enter, StageFacts, Attempt
  <2> QED BY <1>0, <1>1, <2>1, <2>2 DEF RetryStage, Enter, StageFacts, gitVars
<1>2. CASE ResumeStage
  <2>1. attempt' = attempt + 1 /\ attempt' \in Attempt /\ retries' \in RetriesAt(attempt')
    BY <1>0, <1>2, ImplementAssumption DEF ResumeStage, Enter, Attempt
  <2>2. job' \in [Attempt -> [TaskSpec -> Job]] /\ (job' = job \/ job' = AllDead)
    BY <1>0, <1>2, AllDeadJobs DEF ResumeStage
  <2> QED BY <1>2, <2>1, <2>2 DEF ResumeStage, Enter, RetriesAt
<1> QED BY <1>1, <1>2

(* What a merged task changes. *)
LEMMA SquashEffect ==
    ASSUME ImplementTypeOK, NEW t \in TaskSpec, Squashed(t)
    PROVE  /\ tree' = [tree EXCEPT ![t] = NoTree] /\ TreeAlone(t) /\ ~ tree'[t].exists
           /\ work' \in [{"run", "main"} -> SUBSET TaskSpec]
           /\ head \in {"run", "main"} => work'[head] = work[head] \cup {t}
           /\ merged' \in [TaskSpec -> {"no"} \cup Content]
           /\ merged'[t] = tree[t].committed
           /\ \A u \in TaskSpec : u # t => merged'[u] = merged[u]
           /\ log' \in Seq(TaskSpec) /\ log' = Append(log, t) /\ Len(log') = Len(log) + 1
           /\ InLog' = InLog \cup {t} /\ InLog \subseteq TaskSpec
<1>1. /\ tree \in [TaskSpec -> Tree \cup {NoTree}] /\ work \in [{"run", "main"} -> SUBSET TaskSpec]
      /\ merged \in [TaskSpec -> {"no"} \cup Content] /\ log \in Seq(TaskSpec)
      /\ head \in {"run", "main", "unborn"}
  BY DEF ImplementTypeOK
<1>2. tree[t].exists /\ tree[t].committed \in Content
  BY <1>1, TreeFields DEF Squashed
<1>3. tree' = [tree EXCEPT ![t] = NoTree] /\ TreeAlone(t) /\ ~ tree'[t].exists
  BY <1>1 DEF Squashed, TreeAlone, NoTree
<1>4. work' = [work EXCEPT ![head] = work[head] \cup {t}]
  BY DEF Squashed, SquashInto
<1>5. /\ merged' \in [TaskSpec -> {"no"} \cup Content] /\ merged'[t] = tree[t].committed
      /\ \A u \in TaskSpec : u # t => merged'[u] = merged[u]
  BY <1>1, <1>2 DEF Squashed
<1>6. /\ log' = Append(log, t) /\ log' \in Seq(TaskSpec) /\ Len(log') = Len(log) + 1
      /\ DOMAIN log' = DOMAIN log \cup {Len(log) + 1}
      /\ \A i \in DOMAIN log : log'[i] = log[i]
      /\ log'[Len(log) + 1] = t
      /\ \A i \in DOMAIN log : log[i] \in TaskSpec
  BY <1>1 DEF Squashed
<1>7. InLog' = InLog \cup {t} /\ InLog \subseteq TaskSpec
  BY <1>6 DEF InLog
<1>8. work' \in [{"run", "main"} -> SUBSET TaskSpec]
  BY <1>1, <1>4
<1> QED BY <1>1, <1>3, <1>4, <1>5, <1>6, <1>7, <1>8


-----------------------------------------------------------------------------
(* The stage between its steps: types, waves and where it is.              *)
PlannedStage == ImplementTypeOK /\ PlanInv /\ StageFacts

LEMMA PlannedInit == Init => PlannedStage
<1> SUFFICES ASSUME Init PROVE PlannedStage
  OBVIOUS
<1>1. PlanInv
  BY PlanInitInv DEF Init
<1>2. Idle \in Job
  BY DEF Idle, Job
<1>3. 1 \in Attempt /\ retries \in AutomaticRetries /\ 1 + retries <= MaxAttempts
  BY ImplementAssumption DEF Init, Attempt, RetriesAt
<1>4. ImplementTypeOK
  BY <1>1, <1>2, <1>3, ImplementAssumption DEF Init, ImplementTypeOK, PlanInv, Steps
<1>5. StageFacts
  BY <1>3 DEF Init, StageFacts, Idle, Attempt
<1> QED BY <1>1, <1>4, <1>5 DEF PlannedStage

LEMMA PlannedStep ==
    ASSUME PlannedStage, [Next]_vars
    PROVE  PlannedStage'
<1> USE DEF PlannedStage
<1>0. /\ job \in [Attempt -> [TaskSpec -> Job]] /\ attempt \in Attempt /\ Attempt \subseteq Nat
      /\ manifest \in [TaskSpec -> {"none", "PASS", "FAIL"}] /\ log \in Seq(TaskSpec)
      /\ wave \in Nat \ {0}
      /\ tree \in [TaskSpec -> Tree \cup {NoTree}] /\ work \in [{"run", "main"} -> SUBSET TaskSpec]
  BY DEF ImplementTypeOK, Attempt
<1>r. \A passed, failed : Rows(passed, failed) \in [TaskSpec -> {"none", "PASS", "FAIL"}]
  BY RowsType
<1>1. CASE UNCHANGED vars
  <2>1. UNCHANGED planVars
    BY <1>1 DEF vars
  <2>2. PlanInv'
    BY <2>1, PlanNextInv
  <2>3. ImplementTypeOK'
    BY <1>1, <2>2 DEF vars, stageVars, gitVars, ImplementTypeOK, PlanInv
  <2>4. StageFacts'
    BY <1>1 DEF vars, stageVars, gitVars, planVars, StageFacts
  <2> QED BY <2>2, <2>3, <2>4
<1>2. CASE Plan
  <2>1. PlanNext \/ UNCHANGED planVars
    BY <1>2 DEF Plan, PlanNext
  <2>2. PlanInv'
    BY <2>1, PlanNextInv
  <2>3. ImplementTypeOK'
    BY <1>2, <2>2 DEF Plan, stageVars, gitVars, ImplementTypeOK, PlanInv
  <2>4. StageFacts'
    BY <1>2 DEF Plan, StageFacts, planVars
  <2> QED BY <2>2, <2>3, <2>4
<1>p. ASSUME UNCHANGED planVars
      PROVE  PlanInv' /\ PlanTypeOK'
  BY <1>p, PlanNextInv DEF PlanInv
<1>3. CASE StartWave \/ StartTasks
  <2>1. /\ control' \in {"prepare", "tasks"} /\ control \in {"wave", "prepare"}
        /\ wave \in DOMAIN waves
        /\ UNCHANGED <<attempt, retries, wave, merging, log, manifest, outcome, gitVars, planVars>>
    BY <1>3 DEF StartWave, StartTasks, StageFacts
  <2>2. /\ job' \in [Attempt -> [TaskSpec -> Job]]
        /\ \A a \in Attempt, t \in TaskSpec : a # attempt => job'[a][t] = job[a][t]
    BY <1>3, WaveStarts
  <2>3. PlanInv' /\ ImplementTypeOK'
    BY <1>p, <2>1, <2>2 DEF ImplementTypeOK, gitVars
  <2>4. StageFacts'
    BY <1>0, <2>1, <2>2 DEF StageFacts, planVars
  <2> QED BY <2>3, <2>4
<1>4. CASE WaveFails \/ WavePasses \/ WaveMerged \/ Check \/ AbortStage \/ Throws
  <2>1. /\ UNCHANGED <<attempt, retries, log, gitVars, planVars, job>>
        /\ wave' \in {wave, wave + 1}
        /\ control # "plan" /\ control # "ended" /\ control' # "plan"
        /\ control' \in {"wave", "merge", "threw", "ended"}
        /\ control' = "merge" => wave' = wave /\ control = "tasks"
        /\ manifest' \in [TaskSpec -> {"none", "PASS", "FAIL"}]
        /\ control' # "ended" => outcome' = outcome
        /\ outcome' \in {outcome, "PASS", "PARTIAL", "FAIL", "error"}
        /\ merging' \in {merging, "commit"}
    BY <1>0, <1>r, <1>4
       DEF WaveFails, WavePasses, WaveMerged, Check, AbortStage, Throws, Return
  <2>2. PlanInv' /\ ImplementTypeOK'
    BY <1>0, <1>p, <2>1 DEF ImplementTypeOK, gitVars, Steps
  <2>3. StageFacts'
    BY <2>1 DEF StageFacts, planVars
  <2> QED BY <2>2, <2>3
<1>5. CASE Crash
  <2>1. /\ job' \in [Attempt -> [TaskSpec -> Job]]
        /\ \A a \in Attempt, t \in TaskSpec : job[a][t].pc = "idle" => job'[a][t].pc = "idle"
    BY <1>0, <1>5, AllDeadJobs DEF Crash
  <2>2. PlanInv' /\ ImplementTypeOK'
    BY <1>5, <1>p, <2>1 DEF Crash, ImplementTypeOK, gitVars
  <2>3. StageFacts'
    BY <1>5, <2>1 DEF Crash, StageFacts, planVars
  <2> QED BY <2>2, <2>3
<1>6. CASE Merge
  <2>0. control = "merge" /\ wave \in DOMAIN waves /\ outcome = "none"
    BY <1>6, MergesInMerge DEF StageFacts
  <2>1. CurrentTask \in TaskSpec /\ MergeEffect(CurrentTask)
    BY <1>6, <2>0, MergeStepEffect
  <2>2. UNCHANGED <<attempt, retries, wave, planVars, job>>
    BY <2>1 DEF MergeEffect, KeepsStage
  <2>3. CASE Squashed(CurrentTask)
    <3>1. /\ tree' \in [TaskSpec -> Tree \cup {NoTree}]
          /\ work' \in [{"run", "main"} -> SUBSET TaskSpec]
          /\ merged' \in [TaskSpec -> {"no"} \cup Content] /\ log' \in Seq(TaskSpec)
      BY <2>1, <2>3, SquashEffect DEF TreeAlone
    <3>2. /\ merging' = "commit"
          /\ UNCHANGED <<head, runExists, control, manifest, outcome>>
      BY <2>3 DEF Squashed
    <3>3. PlanInv' /\ ImplementTypeOK'
      BY <1>p, <2>2, <3>1, <3>2 DEF ImplementTypeOK, Steps
    <3>4. StageFacts'
      BY <2>0, <2>2, <3>2 DEF StageFacts, planVars
    <3> QED BY <3>3, <3>4
  <2>4. CASE MergeGoesOn(CurrentTask)
    <3>1. /\ tree' \in [TaskSpec -> Tree \cup {NoTree}]
          /\ UNCHANGED <<head, runExists, work, merged, log>>
          /\ merging' \in Steps
          /\ \/ UNCHANGED <<control, manifest, outcome>>
             \/ control' = "ended" /\ outcome' = "FAIL"
          /\ manifest' \in [TaskSpec -> {"none", "PASS", "FAIL"}]
      BY <1>r, <2>4 DEF MergeGoesOn, TreeAlone, BranchesKept, ImplementTypeOK, Return
    <3>2. PlanInv' /\ ImplementTypeOK'
      BY <1>p, <2>2, <3>1 DEF ImplementTypeOK
    <3>3. StageFacts'
      BY <2>0, <2>2, <3>1 DEF StageFacts, planVars
    <3> QED BY <3>2, <3>3
  <2> QED BY <2>1, <2>3, <2>4 DEF MergeEffect
<1>7. CASE RetryStage \/ ResumeStage
  <2>1. /\ attempt' = attempt + 1 /\ attempt' \in Attempt /\ retries' \in AutomaticRetries
        /\ attempt' + retries' <= MaxAttempts
        /\ control' = "wave" /\ control # "plan" /\ wave' = 1 /\ log' = <<>>
        /\ outcome' = "none"
        /\ head' \in {head, "main"}
        /\ UNCHANGED <<merging, manifest, runExists, work, tree, merged, planVars>>
        /\ job' \in [Attempt -> [TaskSpec -> Job]]
        /\ job' = job \/ job' = AllDead
    BY <1>7, StageEnters
  <2>2. PlanInv' /\ ImplementTypeOK'
    BY <1>0, <1>p, <2>1 DEF ImplementTypeOK
  <2>3. \A a \in Attempt, t \in TaskSpec : job[a][t].pc = "idle" => job'[a][t].pc = "idle"
    BY <1>0, <2>1, AllDeadJobs
  <2>4. StageFacts'
    BY <1>0, <2>1, <2>3 DEF StageFacts, planVars
  <2> QED BY <2>2, <2>4
<1>8. ASSUME NEW a \in Attempt, NEW t \in TaskSpec, JobStep(a, t)
      PROVE  PlannedStage'
  <2>1. JobEffect(a, t)
    BY <1>8, JobStepEffect
  <2>2. UNCHANGED <<attempt, retries, wave, merging, log, manifest, outcome, planVars>>
    BY <1>8 DEF JobStep
  <2>3. /\ work' \in [{"run", "main"} -> SUBSET TaskSpec] /\ runExists' \in BOOLEAN
        /\ head' \in {"run", "main", "unborn"}
        /\ control' \in {control, "threw"}
        /\ control' # control => control \in {"prepare", "tasks"}
    BY <1>0, <2>1 DEF JobEffect, BranchesKept, BranchMade, StageKept, ImplementTypeOK
  <2>4. PlanInv' /\ ImplementTypeOK'
    BY <1>p, <2>1, <2>2, <2>3 DEF ImplementTypeOK, JobEffect, JobAlone, TreeAlone
  <2>5. a <= attempt
    BY <1>0, <2>1 DEF StageFacts, JobEffect, Places, Prepares, Works
  <2>6. StageFacts'
    BY <1>0, <2>1, <2>2, <2>3, <2>5 DEF StageFacts, JobEffect, JobAlone, planVars
  <2> QED BY <2>4, <2>6
<1> QED
  BY <1>1, <1>2, <1>3, <1>4, <1>5, <1>6, <1>7, <1>8 DEF Next, StageStep, Ended


-----------------------------------------------------------------------------
(* The log of the attempt: the waves before the current one are merged, and *)
(* nothing is that is not of them or, during its merge, of the current one. *)
LogFacts ==
    /\ InLog \subseteq TaskSpec
    /\ control \in {"wave", "prepare", "tasks", "merge"} =>
          /\ \A v \in DOMAIN waves : v < wave => waves[v] \subseteq InLog
          /\ \A t \in InLog : \E v \in DOMAIN waves :
                t \in waves[v] /\ (v < wave \/ (control = "merge" /\ v = wave))
    /\ \A t \in InLog : Mine(t).pc = "passed"
    /\ control = "merge" => \A t \in Wave : Mine(t).pc = "passed"

ReturnFacts ==
    /\ ManifestTellsMerged
    /\ outcome \in {"PASS", "PARTIAL"} => Survivors \subseteq InLog

(* What is left as it is, is as true as it was. *)
LEMMA LogKept ==
    ASSUME LogFacts, UNCHANGED <<attempt, log, planVars>>,
           wave' = wave, control' \in {"threw", "ended", control},
           \A t \in TaskSpec : Mine(t).pc = "passed" => job'[attempt][t].pc = "passed",
           \A v \in DOMAIN waves : waves[v] \subseteq TaskSpec,
           control = "merge" => wave \in DOMAIN waves
    PROVE  LogFacts'
<1>1. /\ InLog' = InLog /\ waves' = waves /\ wave' = wave /\ Wave' = Wave
  BY DEF InLog, Wave, planVars
<1>2. \A t \in TaskSpec : Mine(t).pc = "passed" => Mine(t)'.pc = "passed"
  BY DEF Mine
<1> QED BY <1>1, <1>2 DEF LogFacts, Wave

LEMMA LogStep ==
    ASSUME PlannedStage, LogFacts, ReturnFacts, [Next]_vars
    PROVE  LogFacts' /\ ReturnFacts'
<1>0. /\ job \in [Attempt -> [TaskSpec -> Job]] /\ attempt \in Attempt /\ Attempt \subseteq Nat
      /\ waves \in Seq(SUBSET TaskSpec) /\ wave \in Nat \ {0}
      /\ \A v \in DOMAIN waves : waves[v] \subseteq TaskSpec
      /\ DOMAIN waves \subseteq Nat \ {0}
      /\ control = "merge" => wave \in DOMAIN waves
      /\ manifest \in [TaskSpec -> {"none", "PASS", "FAIL"}]
  BY DEF PlannedStage, ImplementTypeOK, PlanTypeOK, Attempt, StageFacts
<1>i. \A i, j \in DOMAIN waves : i # j => waves[i] \cap waves[j] = {}
  BY DEF PlannedStage, PlanInv, WavesHold
<1>n. control # "ended" => outcome = "none"
  BY DEF PlannedStage, StageFacts
<1>e. log' = <<>> => InLog' = {}
  BY DEF InLog
<1>u. ASSUME UNCHANGED <<log, manifest, outcome, planVars>>
      PROVE  ReturnFacts'
  BY <1>u DEF ReturnFacts, ManifestTellsMerged, InLog, Survivors, planVars
<1>v. ASSUME outcome' = "none" \/ outcome' = "error"
      PROVE  ReturnFacts'
  BY <1>v DEF ReturnFacts, ManifestTellsMerged
<1>1. CASE UNCHANGED vars
  <2>1. UNCHANGED <<control, attempt, wave, log, manifest, outcome, planVars, job>>
    BY <1>1 DEF vars, stageVars
  <2> QED BY <1>0, <1>u, <2>1, LogKept DEF Mine
<1>2. CASE Plan
  <2>1. InLog = {} /\ log' = <<>> /\ wave = 1 /\ control \notin {"ended", "merge"}
    BY <1>2 DEF Plan, PlannedStage, StageFacts, InLog
  <2>2. LogFacts'
    <3>1. InLog' = {} /\ wave' = 1 /\ control' \in {"plan", "wave"}
      BY <1>2, <1>e, <2>1 DEF Plan
    <3>2. control' = "wave" => \A v \in DOMAIN waves' : ~ (v < wave')
      BY <1>0, <1>2, <2>1, <3>1 DEF Plan, planVars
    <3> QED BY <3>1, <3>2 DEF LogFacts
  <2>3. outcome' = "none"
    BY <1>2, <1>n DEF Plan
  <2> QED BY <1>v, <2>2, <2>3
<1>3. CASE StartWave \/ StartTasks
  <2>1. /\ control \in {"wave", "prepare"} /\ control' \in {"prepare", "tasks"}
        /\ wave \in DOMAIN waves
        /\ UNCHANGED <<attempt, wave, log, manifest, outcome, planVars>>
    BY <1>3 DEF StartWave, StartTasks, PlannedStage, StageFacts
  <2>2. \A a \in Attempt, t \in TaskSpec : a # attempt \/ t \notin Wave => job'[a][t] = job[a][t]
    BY <1>3, WaveStarts DEF PlannedStage
  <2>3. InLog' = InLog
    BY <2>1 DEF InLog
  <2>4. \A t \in InLog : t \notin Wave
    BY <1>0, <1>i, <2>1 DEF LogFacts, Wave
  <2>5. \A t \in InLog : job'[attempt][t].pc = "passed"
    BY <1>0, <2>2, <2>4 DEF LogFacts, Mine
  <2>6. LogFacts'
    BY <2>1, <2>3, <2>5 DEF LogFacts, Mine, planVars
  <2> QED BY <1>u, <2>1, <2>6
<1>4. CASE WaveFails \/ Check
  <2>1. PICK failed \in SUBSET TaskSpec :
             /\ outcome' \in {"PASS", "PARTIAL", "FAIL"} /\ manifest' = Rows(InLog, failed)
             /\ outcome' # "FAIL" => failed = {}
    <3>1. CASE WaveFails
      <4>1. {t \in Wave : Mine(t).pc = "failed"} \in SUBSET TaskSpec
        BY <1>0, <3>1 DEF WaveFails, Wave, PlannedStage, StageFacts
      <4> QED BY <3>1, <4>1 DEF WaveFails, Return
    <3>2. CASE Check
      BY <3>2 DEF Check, Return
    <3> QED BY <1>4, <3>1, <3>2
  <2>2. /\ UNCHANGED <<attempt, wave, log, planVars, job>> /\ control' = "ended"
        /\ control \in {"tasks", "wave"}
    BY <1>4 DEF WaveFails, Check, Return
  <2>3. LogFacts'
    BY <1>0, <2>2, LogKept DEF Mine
  <2>4. InLog' = InLog /\ InLog \subseteq TaskSpec /\ Survivors' = Survivors
    BY <2>2 DEF LogFacts, InLog, Survivors, planVars
  <2>5. ManifestTellsMerged'
    BY <2>1, <2>4 DEF ManifestTellsMerged, Rows
  <2>6. ASSUME outcome' \in {"PASS", "PARTIAL"} PROVE Survivors \subseteq InLog
    <3>1. Check
      BY <1>4, <2>6 DEF WaveFails, Return
    <3>2. \A v \in DOMAIN waves : v < wave
      BY <1>0, <3>1 DEF Check
    <3>3. \A v \in DOMAIN waves : waves[v] \subseteq InLog
      BY <3>1, <3>2 DEF Check, LogFacts
    <3>4. remaining = {}
      BY <3>1 DEF Check, PlannedStage, StageFacts
    <3> QED BY <3>3, <3>4 DEF PlannedStage, PlanInv, WavesHold
  <2> QED BY <2>3, <2>4, <2>5, <2>6 DEF ReturnFacts
<1>5. CASE WavePasses
  <2>1. /\ control = "tasks" /\ control' = "merge" /\ wave \in DOMAIN waves
        /\ UNCHANGED <<attempt, wave, log, manifest, outcome, planVars, job>>
        /\ \A t \in Wave : Mine(t).pc = "passed"
    BY <1>5 DEF WavePasses, AnyFailed, PlannedStage, StageFacts
  <2>2. InLog' = InLog /\ Wave' = Wave
    BY <2>1 DEF InLog, Wave, planVars
  <2>3. LogFacts'
    BY <2>1, <2>2 DEF LogFacts, Mine, planVars
  <2> QED BY <1>u, <2>1, <2>3
<1>6. CASE WaveMerged
  <2>1. /\ control = "merge" /\ control' = "wave" /\ wave' = wave + 1
        /\ Wave \subseteq InLog
        /\ UNCHANGED <<attempt, log, manifest, outcome, planVars, job>>
    BY <1>6 DEF WaveMerged
  <2>2. InLog' = InLog
    BY <2>1 DEF InLog
  <2>3. \A v \in DOMAIN waves : v < wave + 1 => v < wave \/ v = wave
    BY <1>0
  <2>4. LogFacts'
    <3>1. waves' = waves /\ waves[wave] \subseteq InLog
      BY <2>1 DEF planVars, Wave
    <3>2. \A v \in DOMAIN waves : v < wave + 1 => waves[v] \subseteq InLog
      BY <2>1, <2>3, <3>1 DEF LogFacts
    <3>3. ASSUME NEW t \in InLog
          PROVE  \E v \in DOMAIN waves' :
                    t \in waves'[v] /\ (v < wave' \/ (control' = "merge" /\ v = wave'))
      <4>1. PICK v \in DOMAIN waves : t \in waves[v] /\ (v < wave \/ v = wave)
        BY <2>1 DEF LogFacts
      <4>2. v < wave'
        BY <1>0, <2>1, <4>1
      <4>3. v \in DOMAIN waves' /\ t \in waves'[v]
        BY <3>1, <4>1
      <4> QED BY <4>2, <4>3
    <3>4. \A t \in InLog : job'[attempt'][t].pc = "passed"
      BY <2>1 DEF LogFacts, Mine
    <3>5. \A v \in DOMAIN waves' : v < wave' => waves'[v] \subseteq InLog
      BY <2>1, <3>1, <3>2
    <3> QED BY <2>1, <2>2, <3>3, <3>4, <3>5 DEF LogFacts, Mine
  <2> QED BY <1>u, <2>1, <2>4
<1>7. CASE AbortStage \/ Throws
  <2>1. /\ UNCHANGED <<attempt, wave, log, manifest, planVars, job>>
        /\ control' \in {"threw", "ended"}
        /\ outcome' = outcome \/ outcome' = "error"
    BY <1>7 DEF AbortStage, Throws
  <2>2. LogFacts'
    BY <1>0, <2>1, LogKept DEF Mine
  <2> QED BY <1>u, <1>v, <2>1, <2>2
<1>8. CASE Crash
  <2>1. /\ UNCHANGED <<attempt, wave, log, planVars>> /\ control' = "ended" /\ outcome' = "error"
    BY <1>8 DEF Crash
  <2>2. \A t \in TaskSpec : Mine(t).pc = "passed" => job'[attempt][t].pc = "passed"
    BY <1>0, <1>8, AllDeadJobs DEF Crash, Settled, Mine
  <2>3. LogFacts'
    BY <1>0, <2>1, <2>2, LogKept
  <2> QED BY <1>v, <2>1, <2>3
<1>9. CASE RetryStage \/ ResumeStage
  <2>1. control' = "wave" /\ wave' = 1 /\ log' = <<>> /\ outcome' = "none" /\ UNCHANGED planVars
    BY <1>9, StageEnters DEF PlannedStage
  <2>2. LogFacts'
    BY <1>0, <1>e, <2>1 DEF LogFacts, planVars
  <2> QED BY <1>v, <2>1, <2>2
<1>10. CASE Merge
  <2>0. control = "merge" /\ wave \in DOMAIN waves
    BY <1>0, <1>10, MergesInMerge
  <2>1. CurrentTask \in TaskSpec /\ CurrentTask \in Wave /\ MergeEffect(CurrentTask)
    <3>1. MergeEffect(CurrentTask)
      BY <1>10, <2>0, MergeStepEffect DEF PlannedStage
    <3> QED BY <2>0, <3>1, TheCurrentTask DEF MergeEffect, PlannedStage, ImplementTypeOK
  <2>2. UNCHANGED <<attempt, wave, planVars, job>>
    BY <2>1 DEF MergeEffect, KeepsStage
  <2>3. CASE Squashed(CurrentTask)
    <3>1. InLog' = InLog \cup {CurrentTask} /\ Wave' = Wave
      BY <2>1, <2>2, <2>3, SquashEffect DEF PlannedStage, Wave, planVars
    <3>2. control' = control /\ outcome' = "none"
      BY <1>n, <2>0, <2>3 DEF Squashed
    <3>3. LogFacts'
      BY <2>0, <2>1, <2>2, <3>1, <3>2 DEF LogFacts, Mine, planVars, Wave
    <3> QED BY <1>v, <3>2, <3>3
  <2>4. CASE MergeGoesOn(CurrentTask)
    <3>1. /\ log' = log
          /\ \/ UNCHANGED <<control, manifest, outcome>>
             \/ /\ control' = "ended" /\ outcome' = "FAIL"
                /\ manifest' = Rows(InLog, {CurrentTask})
      BY <2>4 DEF MergeGoesOn, Return
    <3>2. LogFacts'
      BY <1>0, <2>2, <3>1, LogKept DEF Mine
    <3>3. InLog' = InLog /\ InLog \subseteq TaskSpec
      BY <3>1 DEF LogFacts, InLog
    <3>4. outcome' = "FAIL" /\ manifest' = Rows(InLog, {CurrentTask}) => ReturnFacts'
      BY <3>3 DEF ReturnFacts, ManifestTellsMerged, Rows
    <3> QED BY <1>u, <2>2, <3>1, <3>2, <3>4
  <2> QED BY <2>1, <2>3, <2>4 DEF MergeEffect
<1>11. ASSUME NEW a \in Attempt, NEW t \in TaskSpec, JobStep(a, t)
       PROVE  LogFacts' /\ ReturnFacts'
  <2>1. JobEffect(a, t)
    BY <1>11, JobStepEffect DEF PlannedStage
  <2>2. UNCHANGED <<attempt, wave, log, manifest, outcome, planVars>>
    BY <1>11 DEF JobStep
  <2>3. \A u \in TaskSpec : Mine(u).pc = "passed" => job'[attempt][u].pc = "passed"
    BY <1>0, <2>1 DEF JobEffect, JobAlone, Places, Prepares, Works, Mine
  <2>4. control' \in {"threw", control}
    BY <2>1 DEF JobEffect, StageKept
  <2>5. LogFacts'
    BY <1>0, <2>2, <2>3, <2>4, LogKept
  <2> QED BY <1>u, <2>2, <2>5
<1> QED
  BY <1>1, <1>2, <1>3, <1>4, <1>5, <1>6, <1>7, <1>8, <1>9, <1>10, <1>11
     DEF Next, StageStep, Ended


-----------------------------------------------------------------------------
(* The branches: who is past preparing has a run branch, worktrees are of   *)
(* the phase's tasks, and what this attempt merged is on the branch that is *)
(* checked out.                                                             *)
GitFacts ==
    /\ runExists => head # "unborn"
    /\ head = "run" => runExists
    /\ \A a \in Attempt, t \in TaskSpec :
          /\ job[a][t].pc \in {"add", "ready", "passed", "failed"} \cup Works => runExists
          /\ job[a][t].pc # "idle" => t \in Survivors
    /\ \A t \in TaskSpec : tree[t].exists => runExists /\ t \in Survivors
    /\ \A t \in InLog : t \in work[head]

(* An earlier attempt has cut the task's worktree and still waits. *)
Recut(t) == \E a \in 1..(attempt - 1) : job[a][t].pc = "ready"

(* A worktree that is there when this attempt is about to cut its own, or   *)
(* after the task was merged, is of an earlier attempt.                     *)
TreeFacts ==
    \A t \in TaskSpec :
        (/\ tree[t].exists
         /\ Mine(t).pc \in {"ensure", "create", "add"} \/ (t \in InLog /\ outcome # "error"))
        => Recut(t)

(* Of a wave's worktrees: each holds the earlier waves if it was cut while  *)
(* the run branch was checked out.                                          *)
BaseFacts ==
    control \in {"prepare", "tasks"} /\ head = "run" =>
        \A t \in Wave : tree[t].exists /\ Mine(t).pc # "cleanup" =>
            \A v \in DOMAIN waves : v < wave => waves[v] \subseteq tree[t].base

(* What was verified or committed for a squash is no draft, but for the     *)
(* sessions of earlier attempts.                                            *)
DraftFacts ==
    /\ control \in {"tasks", "merge"} =>
          \A t \in Wave :
              tree[t].exists /\ ~ OutlivedBy(t) /\ Mine(t).pc \in {"review", "passed"}
                  => tree[t].content # "draft"
    /\ Merging("squash") \/ Merging("resquash") =>
          (tree[CurrentTask].exists /\ ~ OutlivedBy(CurrentTask)
              => tree[CurrentTask].committed # "draft")

StageInv == PlannedStage /\ LogFacts /\ ReturnFacts

LEMMA GitStep ==
    ASSUME StageInv, GitFacts, [Next]_vars
    PROVE  GitFacts'
<1> USE DEF StageInv
<1>0. /\ job \in [Attempt -> [TaskSpec -> Job]] /\ attempt \in Attempt /\ Attempt \subseteq Nat
      /\ tree \in [TaskSpec -> Tree \cup {NoTree}] /\ work \in [{"run", "main"} -> SUBSET TaskSpec]
      /\ runExists \in BOOLEAN /\ head \in {"run", "main", "unborn"}
      /\ InLog \subseteq TaskSpec
  BY DEF PlannedStage, ImplementTypeOK, Attempt, LogFacts
<1>w. wave \in DOMAIN waves => Wave \subseteq Survivors
  BY DEF PlannedStage, PlanInv, WavesHold, Wave, StageFacts
<1>s. specs' = specs => Survivors' = Survivors
  BY DEF Survivors
<1>l. InLog # {} => runExists
  BY <1>0 DEF LogFacts, GitFacts, Mine
<1>k. ASSUME UNCHANGED <<gitVars, specs>>, log' = log,
             \A a \in Attempt, t \in TaskSpec :
                \/ /\ job'[a][t].pc \in {job[a][t].pc, "dead"}
                   /\ job[a][t].pc = "idle" => job'[a][t].pc = "idle"
                \/ t \in Survivors /\ (job'[a][t].pc = "cleanup" \/ runExists)
      PROVE  GitFacts'
  BY <1>k, <1>s, <1>0 DEF GitFacts, gitVars, InLog, Prepares, Works
<1>1. CASE UNCHANGED vars \/ Plan \/ WaveFails \/ WavePasses \/ WaveMerged \/ Check
           \/ AbortStage \/ Throws
  <2>1. UNCHANGED <<gitVars, specs, log, job>>
    BY <1>1 DEF vars, stageVars, planVars, Plan, PlanWave, DumpRest, WaveFails, WavePasses,
       WaveMerged, Check, AbortStage, Throws
  <2> QED BY <1>k, <2>1
<1>2. CASE StartWave
  <2>1. Wave \subseteq Survivors /\ UNCHANGED <<gitVars, specs, log>>
    BY <1>2, <1>w DEF StartWave, planVars
  <2>2. \A a \in Attempt, t \in TaskSpec :
           IF a = attempt /\ t \in Wave THEN job'[a][t].pc = "cleanup"
           ELSE job'[a][t] = job[a][t]
    BY <1>2, WaveStarts DEF PlannedStage
  <2> QED BY <1>k, <2>1, <2>2
<1>3. CASE StartTasks
  <2>1. /\ Wave \subseteq Survivors /\ UNCHANGED <<gitVars, specs, log>>
        /\ \A t \in Wave : Mine(t).pc = "ready"
    BY <1>3, <1>w DEF StartTasks, planVars, PlannedStage, StageFacts
  <2>2. \A a \in Attempt, t \in TaskSpec :
           IF a = attempt /\ t \in Wave THEN job'[a][t].pc = "code"
           ELSE job'[a][t] = job[a][t]
    BY <1>3, WaveStarts DEF PlannedStage
  <2>3. \A t \in Wave \cap TaskSpec : runExists
    BY <1>0, <2>1 DEF GitFacts, Mine
  <2> QED BY <1>k, <2>1, <2>2, <2>3
<1>4. CASE Crash
  <2>1. UNCHANGED <<gitVars, specs, log>> /\ job' = AllDead
    BY <1>4 DEF Crash, planVars
  <2>2. \A a \in Attempt, t \in TaskSpec :
           /\ job'[a][t].pc \in {job[a][t].pc, "dead"}
           /\ job[a][t].pc = "idle" => job'[a][t].pc = "idle"
    BY <1>0, <2>1, AllDeadJobs
  <2> QED BY <1>k, <2>1, <2>2
<1>5. CASE RetryStage \/ ResumeStage
  <2>1. /\ log' = <<>> /\ head' \in {head, "main"} /\ UNCHANGED <<runExists, tree, planVars>>
        /\ job' = job \/ job' = AllDead
    BY <1>5, StageEnters DEF PlannedStage
  <2>2. \A a \in Attempt, t \in TaskSpec :
           /\ job'[a][t].pc \in {job[a][t].pc, "dead"}
           /\ job[a][t].pc = "idle" => job'[a][t].pc = "idle"
    BY <1>0, <2>1, AllDeadJobs
  <2>3. InLog' = {} /\ Survivors' = Survivors
    BY <1>s, <2>1 DEF InLog, planVars
  <2> QED BY <1>0, <2>1, <2>2, <2>3 DEF GitFacts, Works
<1>6. CASE Merge
  <2>1. CurrentTask \in TaskSpec /\ MergeEffect(CurrentTask)
    <3>1. wave \in DOMAIN waves
      BY <1>6, MergesInMerge DEF PlannedStage, StageFacts
    <3> QED BY <1>6, <3>1, MergeStepEffect DEF PlannedStage
  <2>2. UNCHANGED <<planVars, job>> /\ Survivors' = Survivors
    BY <1>s, <2>1 DEF MergeEffect, KeepsStage, planVars
  <2>3. CASE Squashed(CurrentTask)
    <3>1. tree[CurrentTask].exists /\ UNCHANGED <<head, runExists>>
      BY <2>3 DEF Squashed
    <3>2. head \in {"run", "main"}
      BY <1>0, <2>1, <3>1 DEF GitFacts
    <3>3. /\ work'[head] = work[head] \cup {CurrentTask}
          /\ InLog' = InLog \cup {CurrentTask}
          /\ \A u \in TaskSpec : tree'[u].exists => tree[u].exists
      BY <2>1, <2>3, <3>2, SquashEffect DEF PlannedStage, TreeAlone
    <3> QED BY <2>2, <3>1, <3>3 DEF GitFacts
  <2>4. CASE MergeGoesOn(CurrentTask)
    <3>1. /\ UNCHANGED <<head, runExists, work>> /\ InLog' = InLog
          /\ \A u \in TaskSpec : tree'[u].exists => tree[u].exists
      BY <2>1, <2>4 DEF MergeGoesOn, BranchesKept, TreeAlone, InLog
    <3> QED BY <2>2, <3>1 DEF GitFacts
  <2> QED BY <2>1, <2>3, <2>4 DEF MergeEffect
<1>7. ASSUME NEW a \in Attempt, NEW t \in TaskSpec, JobStep(a, t)
      PROVE  GitFacts'
  <2>1. JobEffect(a, t)
    BY <1>7, JobStepEffect DEF PlannedStage
  <2>2. log' = log /\ Survivors' = Survivors /\ InLog' = InLog
    BY <1>7, <1>s DEF JobStep, planVars, InLog
  <2>3. /\ runExists' => head' # "unborn"
        /\ head' = "run" => runExists'
        /\ runExists => runExists'
        /\ \A u \in InLog : u \in work'[head']
    BY <1>0, <1>l, <2>1 DEF JobEffect, BranchesKept, BranchMade, GitFacts
  <2>4. t \in Survivors
    BY <2>1 DEF GitFacts, JobEffect, Places, Prepares, Works
  <2>5. job'[a][t].pc \in {"add", "ready", "passed", "failed"} \cup Works => runExists'
    BY <2>1, <2>3 DEF GitFacts, JobEffect, Places, Works
  <2>6. ASSUME NEW u \in TaskSpec, tree'[u].exists
        PROVE  runExists' /\ u \in Survivors
    <3>1. CASE tree[u].exists
      BY <2>3, <3>1 DEF GitFacts
    <3>2. CASE ~ tree[u].exists
      <4>1. u = t /\ job'[a][t].pc = "ready"
        BY <2>1, <2>6, <3>2 DEF JobEffect, TreeAlone, TreeByPlace
      <4> QED BY <2>4, <2>5, <4>1
    <3> QED BY <3>1, <3>2
  <2>7. ASSUME NEW b \in Attempt, NEW u \in TaskSpec
        PROVE  /\ job'[b][u].pc \in {"add", "ready", "passed", "failed"} \cup Works => runExists'
               /\ job'[b][u].pc # "idle" => u \in Survivors
    <3>1. CASE b # a \/ u # t
      <4>1. job'[b][u] = job[b][u]
        BY <2>1, <3>1 DEF JobEffect, JobAlone
      <4> QED BY <2>3, <4>1 DEF GitFacts
    <3>2. CASE b = a /\ u = t
      BY <2>4, <2>5, <3>2
    <3> QED BY <3>1, <3>2
  <2> QED BY <2>2, <2>3, <2>6, <2>7 DEF GitFacts
<1> QED
  BY <1>1, <1>2, <1>3, <1>4, <1>5, <1>6, <1>7 DEF Next, StageStep, Ended

LEMMA TreeStep ==
    ASSUME StageInv, TreeFacts, [Next]_vars
    PROVE  TreeFacts'
<1> USE DEF StageInv
<1>0. /\ job \in [Attempt -> [TaskSpec -> Job]] /\ attempt \in Attempt
      /\ Attempt = 1..MaxAttempts /\ MaxAttempts \in Nat
      /\ tree \in [TaskSpec -> Tree \cup {NoTree}]
      /\ InLog \subseteq TaskSpec
      /\ control # "ended" => outcome = "none"
  BY ImplementAssumption DEF PlannedStage, ImplementTypeOK, Attempt, LogFacts, StageFacts
<1>a. 1..(attempt - 1) \subseteq Attempt /\ attempt \notin 1..(attempt - 1)
  BY <1>0
(* Neither the worktrees, nor what the attempts before are at, changes. *)
<1>k. ASSUME UNCHANGED <<tree, log, attempt>>,
             outcome # "error" \/ outcome' = "error",
             \A t \in TaskSpec :
                /\ job'[attempt][t].pc \in {"ensure", "create", "add"} => job'[attempt][t] = Mine(t)
                /\ \A a \in 1..(attempt - 1) : job'[a][t] = job[a][t]
      PROVE  TreeFacts'
  <2>1. InLog' = InLog
    BY <1>k DEF InLog
  <2>2. \A t \in TaskSpec : Recut(t) => Recut(t)'
    BY <1>k DEF Recut
  <2> QED BY <1>k, <2>1, <2>2 DEF TreeFacts, Mine
<1>1. CASE UNCHANGED vars \/ Plan \/ WaveFails \/ WavePasses \/ WaveMerged \/ Check
           \/ AbortStage \/ Throws
  <2>1. UNCHANGED <<tree, attempt, log, job>>
    BY <1>1 DEF vars, stageVars, gitVars, Plan, WaveFails, WavePasses,
       WaveMerged, Check, AbortStage, Throws
  <2>2. outcome # "error" \/ outcome' = "error"
    BY <1>0, <1>1 DEF vars, stageVars, Plan, WaveFails, WavePasses, WaveMerged, Check,
       AbortStage, Throws
  <2> QED BY <1>k, <2>1, <2>2 DEF Mine
<1>2. CASE StartWave \/ StartTasks
  <2>1. UNCHANGED <<tree, attempt, log, outcome>>
    BY <1>2 DEF StartWave, StartTasks, gitVars
  <2>2. \A a \in Attempt, t \in TaskSpec :
           \/ job'[a][t] = job[a][t]
           \/ a = attempt /\ job'[a][t].pc \in {"cleanup", "code"}
    BY <1>2, WaveStarts DEF PlannedStage
  <2>3. ASSUME NEW t \in TaskSpec
        PROVE  /\ job'[attempt][t].pc \in {"ensure", "create", "add"} => job'[attempt][t] = Mine(t)
               /\ \A a \in 1..(attempt - 1) : job'[a][t] = job[a][t]
    <3>1. job'[attempt][t] = job[attempt][t] \/ job'[attempt][t].pc \in {"cleanup", "code"}
      BY <1>0, <2>2
    <3>2. \A a \in 1..(attempt - 1) : job'[a][t] = job[a][t]
      BY <1>a, <2>2
    <3> QED BY <3>1, <3>2 DEF Mine
  <2>4. outcome # "error" \/ outcome' = "error"
    BY <2>1
  <2> QED BY <1>k, <2>1, <2>3, <2>4
<1>3. CASE Crash
  <2>1. outcome' = "error" /\ attempt' = attempt /\ job' = AllDead
    BY <1>3 DEF Crash
  <2>2. \A t \in TaskSpec : job'[attempt][t].pc \notin {"ensure", "create", "add"}
    BY <1>0, <2>1, AllDeadJobs DEF Settled
  <2> QED BY <2>1, <2>2 DEF TreeFacts, Mine
<1>4. CASE RetryStage \/ ResumeStage
  <2>1. attempt' = attempt + 1 /\ attempt' \in Attempt /\ log' = <<>>
        /\ (job' = job \/ job' = AllDead)
    BY <1>4, StageEnters DEF PlannedStage
  <2>2. \A t \in TaskSpec : job[attempt'][t].pc = "idle"
    BY <1>0, <2>1 DEF PlannedStage, StageFacts
  <2>3. \A t \in TaskSpec : job'[attempt'][t].pc = "idle"
    BY <1>0, <2>1, <2>2, AllDeadJobs
  <2>4. InLog' = {}
    BY <2>1 DEF InLog
  <2> QED BY <2>3, <2>4 DEF TreeFacts, Mine
<1>5. CASE Merge
  <2>1. CurrentTask \in TaskSpec /\ MergeEffect(CurrentTask)
    <3>1. wave \in DOMAIN waves
      BY <1>5, MergesInMerge DEF PlannedStage, StageFacts
    <3> QED BY <1>5, <3>1, MergeStepEffect DEF PlannedStage
  <2>2. UNCHANGED <<attempt, job>> /\ outcome = "none"
    BY <1>0, <2>1 DEF MergeEffect, KeepsStage
  <2>3. \A t \in TaskSpec : Recut(t) => Recut(t)'
    BY <2>2 DEF Recut
  <2>4. CASE Squashed(CurrentTask)
    <3>1. /\ InLog' = InLog \cup {CurrentTask}
          /\ \A u \in TaskSpec : u # CurrentTask => tree'[u] = tree[u]
          /\ ~ tree'[CurrentTask].exists
      BY <2>1, <2>4, SquashEffect DEF PlannedStage, TreeAlone
    <3> QED BY <2>2, <2>3, <3>1 DEF TreeFacts, Mine
  <2>5. CASE MergeGoesOn(CurrentTask)
    <3>1. InLog' = InLog /\ \A u \in TaskSpec : tree'[u].exists => tree[u].exists
      BY <2>1, <2>5 DEF MergeGoesOn, TreeAlone, InLog
    <3> QED BY <2>2, <2>3, <3>1 DEF TreeFacts, Mine
  <2> QED BY <2>1, <2>4, <2>5 DEF MergeEffect
<1>6. ASSUME NEW a \in Attempt, NEW t \in TaskSpec, JobStep(a, t)
      PROVE  TreeFacts'
  <2>1. JobEffect(a, t)
    BY <1>6, JobStepEffect DEF PlannedStage
  <2>2. UNCHANGED <<attempt, log, outcome>> /\ InLog' = InLog
    BY <1>6 DEF JobStep, InLog
  <2>3. a <= attempt
    BY <1>0, <2>1 DEF PlannedStage, StageFacts, JobEffect, Places, Prepares, Works
  <2>4. ASSUME NEW u \in TaskSpec, Recut(u) PROVE Recut(u)'
    <3>1. PICK b \in 1..(attempt - 1) : job[b][u].pc = "ready"
      BY <2>4 DEF Recut
    <3>2. b # a \/ u # t
      BY <2>1, <3>1 DEF JobEffect, Places, Prepares, Works
    <3>3. job'[b][u].pc = "ready"
      BY <1>a, <2>1, <3>1, <3>2 DEF JobEffect, JobAlone
    <3> QED BY <2>2, <3>3 DEF Recut
  <2>5. ASSUME NEW u \in TaskSpec, tree'[u].exists,
               \/ job'[attempt][u].pc \in {"ensure", "create", "add"}
               \/ u \in InLog /\ outcome # "error"
        PROVE  Recut(u)'
    <3>1. CASE u # t
      <4>1. tree'[u] = tree[u] /\ job'[attempt][u] = job[attempt][u]
        BY <1>0, <2>1, <3>1 DEF JobEffect, JobAlone, TreeAlone
      <4> QED BY <2>4, <2>5, <4>1 DEF TreeFacts, Mine
    <3>2. CASE u = t /\ a = attempt
      <4>1. u \notin InLog
        BY <2>1, <3>2 DEF LogFacts, Mine, JobEffect, Places, Prepares, Works
      <4>2. job[attempt][u].pc \in {"ensure", "create"} /\ tree'[u] = tree[u]
        BY <2>1, <2>5, <3>2, <4>1 DEF JobEffect, Places, TreeByPlace
      <4> QED BY <2>4, <2>5, <4>2 DEF TreeFacts, Mine
    <3>3. CASE u = t /\ a < attempt
      <4>1. a \in 1..(attempt - 1)
        BY <1>0, <3>3
      <4>2. job'[attempt][u] = job[attempt][u]
        BY <1>0, <2>1, <3>3 DEF JobEffect, JobAlone
      <4>3. CASE job'[a][t].pc = "ready"
        BY <2>2, <3>3, <4>1, <4>3 DEF Recut
      <4>4. CASE job'[a][t].pc # "ready"
        <5>1. tree[u].exists
          BY <2>1, <2>5, <3>3, <4>4 DEF JobEffect, TreeByPlace
        <5> QED BY <2>4, <2>5, <4>2, <5>1 DEF TreeFacts, Mine
      <4> QED BY <4>3, <4>4
    <3> QED BY <1>0, <2>3, <3>1, <3>2, <3>3
  <2> QED BY <2>2, <2>5 DEF TreeFacts, Mine
<1> QED
  BY <1>1, <1>2, <1>3, <1>4, <1>5, <1>6 DEF Next, StageStep, Ended


-----------------------------------------------------------------------------
LEMMA BaseStep ==
    ASSUME StageInv, GitFacts, BaseFacts, [Next]_vars
    PROVE  BaseFacts'
<1> USE DEF StageInv
<1>0. /\ job \in [Attempt -> [TaskSpec -> Job]] /\ attempt \in Attempt
      /\ tree \in [TaskSpec -> Tree \cup {NoTree}]
      /\ wave \in DOMAIN waves => Wave \subseteq TaskSpec
  BY DEF PlannedStage, ImplementTypeOK, PlanTypeOK, Wave
<1>1. ASSUME control' \notin {"prepare", "tasks"} PROVE BaseFacts'
  BY <1>1 DEF BaseFacts
<1>2. CASE UNCHANGED vars
  <2>1. UNCHANGED <<control, head, wave, waves, tree, job, attempt>>
    BY <1>2 DEF vars, stageVars, gitVars, planVars
  <2> QED BY <2>1 DEF BaseFacts, Wave, Mine
<1>3. CASE Plan
  BY <1>1, <1>3 DEF Plan
<1>4. CASE StartWave
  <2>1. control' = "prepare" /\ UNCHANGED <<wave, waves, attempt>> /\ wave \in DOMAIN waves
    BY <1>4 DEF StartWave, planVars
  <2>2. \A t \in Wave : Mine(t)'.pc = "cleanup"
    BY <1>0, <1>4, <2>1, WaveStarts DEF PlannedStage, Mine
  <2> QED BY <2>1, <2>2 DEF BaseFacts, Wave
<1>5. CASE StartTasks
  <2>1. /\ control = "prepare" /\ UNCHANGED <<wave, waves, attempt, head, tree>>
        /\ \A t \in Wave : Mine(t).pc = "ready"
    BY <1>5 DEF StartTasks, planVars, gitVars
  <2> QED BY <2>1 DEF BaseFacts, Wave
<1>6. CASE WaveFails \/ WavePasses \/ WaveMerged \/ Check \/ AbortStage \/ Throws \/ Crash
  BY <1>1, <1>6
     DEF WaveFails, WavePasses, WaveMerged, Check, AbortStage, Throws, Crash, Return
<1>7. CASE RetryStage \/ ResumeStage
  BY <1>1, <1>7 DEF RetryStage, ResumeStage, Enter
<1>8. CASE Merge
  <2>1. MergeEffect(CurrentTask)
    <3>1. wave \in DOMAIN waves
      BY <1>8, MergesInMerge DEF PlannedStage, StageFacts
    <3> QED BY <1>8, <3>1, MergeStepEffect DEF PlannedStage
  <2> QED BY <1>1, <2>1 DEF MergeEffect, Squashed, MergeGoesOn, Return
<1>9. ASSUME NEW a \in Attempt, NEW t \in TaskSpec, JobStep(a, t)
      PROVE  BaseFacts'
  <2>1. JobEffect(a, t)
    BY <1>9, JobStepEffect DEF PlannedStage
  <2>2. UNCHANGED <<attempt, wave, waves>> /\ Wave' = Wave
    BY <1>9 DEF JobStep, planVars, Wave
  <2> SUFFICES ASSUME control' \in {"prepare", "tasks"}, head' = "run",
                      NEW u \in Wave, tree'[u].exists, Mine(u)'.pc # "cleanup",
                      NEW v \in DOMAIN waves, v < wave
               PROVE  waves[v] \subseteq tree'[u].base
    BY <2>2 DEF BaseFacts
  <2>3. control \in {"prepare", "tasks"} /\ u \in TaskSpec
    BY <1>0, <2>1 DEF JobEffect, StageKept, PlannedStage, StageFacts
  <2>4. u # t => tree'[u] = tree[u]
    BY <2>1, <2>3 DEF JobEffect, TreeAlone
  <2>5. runExists
    <3>1. CASE tree[u].exists
      BY <2>3, <3>1 DEF GitFacts
    <3>2. CASE ~ tree[u].exists
      <4>1. u = t /\ job[a][t].pc = "add"
        BY <2>1, <2>4, <3>2 DEF JobEffect, TreeByPlace, Places
      <4> QED BY <4>1 DEF GitFacts
    <3> QED BY <3>1, <3>2
  <2>6. head = "run" /\ work' = work
    BY <2>1, <2>5 DEF JobEffect, BranchesKept, BranchMade
  <2>7. CASE u = t /\ job'[a][t].pc = "ready"
    <3>1. tree'[u].base = work["run"]
      BY <2>1, <2>7 DEF JobEffect, TreeByPlace, NewTree
    <3>2. waves[v] \subseteq InLog
      BY <2>3 DEF LogFacts
    <3> QED BY <2>6, <3>1, <3>2 DEF GitFacts
  <2>8. CASE ~ (u = t /\ job'[a][t].pc = "ready")
    <3>1. tree[u].exists /\ tree'[u].base = tree[u].base
      BY <2>1, <2>4, <2>8 DEF JobEffect, TreeByPlace
    <3>2. Mine(u).pc # "cleanup"
      <4>1. CASE u = t /\ a = attempt
        <5>1. job[a][t].pc # "cleanup"
          BY <2>1, <4>1 DEF JobEffect, Places, TreeByPlace
        <5> QED BY <4>1, <5>1 DEF Mine
      <4>2. CASE u # t \/ a # attempt
        BY <1>0, <2>1, <2>2, <2>3, <4>2 DEF JobEffect, JobAlone, Mine
      <4> QED BY <4>1, <4>2
    <3> QED BY <2>3, <2>6, <3>1, <3>2 DEF BaseFacts
  <2> QED BY <2>7, <2>8
<1> QED
  BY <1>2, <1>3, <1>4, <1>5, <1>6, <1>7, <1>8, <1>9 DEF Next, StageStep, Ended

LEMMA SameCurrentTask ==
    ASSUME UNCHANGED <<specs, waves, wave, log>>
    PROVE  CurrentTask' = CurrentTask /\ Wave' = Wave /\ InLog' = InLog
<1>1. Wave' = Wave /\ InLog' = InLog
  BY DEF Wave, InLog
<1>2. \A t : id(t)' = id(t)
  OBVIOUS
<1>3. CurrentTask' = CurrentTask
  BY <1>1, <1>2 DEF CurrentTask
<1> QED BY <1>1, <1>3

LEMMA DraftStep ==
    ASSUME StageInv, DraftFacts, [Next]_vars
    PROVE  DraftFacts'
<1> USE DEF StageInv
<1>0. /\ job \in [Attempt -> [TaskSpec -> Job]] /\ attempt \in Attempt
      /\ Attempt = 1..MaxAttempts /\ MaxAttempts \in Nat
      /\ tree \in [TaskSpec -> Tree \cup {NoTree}]
      /\ control \in {"prepare", "tasks", "merge"}
            => wave \in DOMAIN waves /\ Wave \subseteq TaskSpec
  BY ImplementAssumption
     DEF PlannedStage, ImplementTypeOK, PlanTypeOK, Wave, Attempt, StageFacts
<1>1. ASSUME control' \notin {"tasks", "merge"} PROVE DraftFacts'
  BY <1>1 DEF DraftFacts, Merging
<1>o. attempt' = attempt /\ job' = job => \A t \in TaskSpec : OutlivedBy(t)' = OutlivedBy(t)
  BY DEF OutlivedBy
<1>2. CASE UNCHANGED vars
  <2>1. UNCHANGED <<control, merging, specs, waves, wave, log, tree, job, attempt>>
    BY <1>2 DEF vars, stageVars, gitVars, planVars
  <2>2. CurrentTask' = CurrentTask /\ Wave' = Wave /\ InLog' = InLog
    BY <2>1, SameCurrentTask
  <2> QED BY <2>1, <2>2 DEF DraftFacts, Mine, Merging, OutlivedBy
<1>3. CASE Plan \/ StartWave \/ WaveFails \/ WaveMerged \/ Check \/ AbortStage \/ Throws
           \/ Crash \/ RetryStage \/ ResumeStage
  BY <1>1, <1>3
     DEF Plan, StartWave, WaveFails, WaveMerged, Check, AbortStage, Throws, Crash, Return,
         RetryStage, ResumeStage, Enter
<1>4. CASE StartTasks
  <2>1. control' = "tasks" /\ UNCHANGED <<wave, waves, attempt>> /\ control = "prepare"
    BY <1>4 DEF StartTasks, planVars
  <2>2. \A t \in Wave : Mine(t)'.pc = "code"
    BY <1>0, <1>4, <2>1, WaveStarts DEF PlannedStage, Mine
  <2> QED BY <2>1, <2>2 DEF DraftFacts, Wave, Merging
<1>5. CASE WavePasses
  <2>1. /\ control = "tasks" /\ control' = "merge" /\ merging' = "commit"
        /\ UNCHANGED <<wave, waves, attempt, job, tree>>
    BY <1>5 DEF WavePasses, planVars, gitVars
  <2> QED BY <2>1 DEF DraftFacts, Wave, Merging, Mine, OutlivedBy
<1>6. CASE Merge
  <2>0. control = "merge"
    BY <1>6, MergesInMerge
  <2>1. CurrentTask \in TaskSpec /\ MergeEffect(CurrentTask)
    BY <1>0, <1>6, <2>0, MergeStepEffect DEF PlannedStage
  <2>2. UNCHANGED <<attempt, job, wave, waves, specs>> /\ Wave' = Wave
    BY <2>1 DEF MergeEffect, KeepsStage, planVars, Wave
  <2>3. CASE Squashed(CurrentTask)
    <3>1. /\ \A u \in TaskSpec : u # CurrentTask => tree'[u] = tree[u]
          /\ ~ tree'[CurrentTask].exists
      BY <2>1, <2>3, SquashEffect DEF PlannedStage, TreeAlone
    <3>2. merging' = "commit" /\ control' = control
      BY <2>3 DEF Squashed
    <3> QED BY <1>0, <2>0, <2>2, <3>1, <3>2 DEF DraftFacts, Mine, Merging, OutlivedBy
  <2>4. CASE MergeGoesOn(CurrentTask)
    <3>1. CASE control' # control
      BY <1>1, <2>4, <3>1 DEF MergeGoesOn, Return
    <3>2. CASE control' = control
      <4>1. /\ log' = log /\ tree'[CurrentTask].exists = tree[CurrentTask].exists
            /\ \A u \in TaskSpec : u # CurrentTask => tree'[u] = tree[u]
            /\ tree'[CurrentTask].exists
                  => tree'[CurrentTask].content \in {tree[CurrentTask].content, "resolved"}
            /\ merging' \in {"squash", "resquash"} /\ tree'[CurrentTask].exists
                  => tree'[CurrentTask].committed = tree'[CurrentTask].content
        BY <2>0, <2>4, <3>2 DEF MergeGoesOn, TreeAlone, Return
      <4>2. CurrentTask' = CurrentTask /\ CurrentTask \in Wave
        BY <1>0, <2>0, <2>1, <2>2, <4>1, SameCurrentTask, TheCurrentTask
           DEF MergeEffect, PlannedStage, ImplementTypeOK
      <4>3. \A u \in TaskSpec : OutlivedBy(u)' = OutlivedBy(u) /\ Mine(u)' = Mine(u)
        BY <2>2 DEF OutlivedBy, Mine
      <4>4. \A u \in Wave :
                 tree'[u].exists /\ ~ OutlivedBy(u) /\ Mine(u).pc \in {"review", "passed"}
                               => tree'[u].content # "draft"
        BY <1>0, <2>0, <4>1 DEF DraftFacts
      <4>5. Mine(CurrentTask).pc = "passed"
        BY <2>0, <4>2 DEF LogFacts
      <4> QED
        BY <1>0, <2>0, <2>1, <2>2, <3>2, <4>1, <4>2, <4>3, <4>4, <4>5 DEF DraftFacts, Merging
    <3> QED BY <3>1, <3>2
  <2> QED BY <2>1, <2>3, <2>4 DEF MergeEffect
<1>7. ASSUME NEW a \in Attempt, NEW t \in TaskSpec, JobStep(a, t)
      PROVE  DraftFacts'
  <2>1. JobEffect(a, t)
    BY <1>7, JobStepEffect DEF PlannedStage
  <2>2. UNCHANGED <<attempt, wave, waves, specs, log, merging>>
    BY <1>7 DEF JobStep, planVars
  <2>3. CurrentTask' = CurrentTask /\ Wave' = Wave /\ InLog' = InLog
    BY <2>2, SameCurrentTask
  <2>4. a <= attempt
    BY <1>0, <2>1 DEF PlannedStage, StageFacts, JobEffect, Places, Prepares, Works
  <2>5. a < attempt => OutlivedBy(t)'
    <3>1. a < attempt => a \in 1..(attempt - 1)
      BY <1>0
    <3> QED BY <2>1, <2>2, <3>1 DEF OutlivedBy, JobEffect, Places
  <2>6. ASSUME NEW u \in TaskSpec, OutlivedBy(u)
        PROVE  OutlivedBy(u)'
    <3>1. PICK b \in 1..(attempt - 1) : job[b][u].pc \notin {"idle", "dead"}
      BY <2>6 DEF OutlivedBy
    <3>2. b \in Attempt
      BY <1>0
    <3>3. job'[b][u].pc \notin {"idle", "dead"}
      BY <2>1, <3>1, <3>2 DEF JobEffect, JobAlone, Places
    <3> QED BY <2>2, <3>3 DEF OutlivedBy
  <2>7. CASE control' \notin {"tasks", "merge"}
    BY <1>1, <2>7
  <2>8. CASE control' \in {"tasks", "merge"}
    <3>0. control' = control
      BY <2>1, <2>8 DEF JobEffect, StageKept
    <3>1. ASSUME NEW u \in Wave, tree'[u].exists, ~ OutlivedBy(u)',
                 Mine(u)'.pc \in {"review", "passed"}
          PROVE  tree'[u].content # "draft"
      <4>0. u \in TaskSpec
        BY <1>0, <2>8, <3>0
      <4>1. CASE u # t
        <5>1. tree'[u] = tree[u] /\ Mine(u)' = Mine(u)
          BY <1>0, <2>1, <2>2, <4>0, <4>1 DEF JobEffect, JobAlone, TreeAlone, Mine
        <5> QED BY <2>6, <2>8, <3>0, <3>1, <4>0, <5>1 DEF DraftFacts
      <4>2. CASE u = t
        <5>1. a = attempt
          BY <1>0, <2>4, <2>5, <3>1, <4>2
        <5>2. Mine(u)' = job'[a][t] /\ Mine(u) = job[a][t]
          BY <2>2, <4>2, <5>1 DEF Mine
        <5>3. CASE job'[a][t].pc = "review"
          BY <2>1, <3>1, <4>2, <5>3 DEF JobEffect, TreeByPlace
        <5>4. CASE job'[a][t].pc = "passed"
          <6>1. tree'[u] = tree[u] /\ Mine(u).pc = "review"
            BY <2>1, <4>2, <5>2, <5>4 DEF JobEffect, TreeByPlace, Places
          <6> QED BY <2>6, <2>8, <3>0, <3>1, <4>0, <6>1 DEF DraftFacts
        <5> QED BY <3>1, <5>2, <5>3, <5>4
      <4> QED BY <4>1, <4>2
    <3>2. ASSUME control = "merge", ~ (Wave \subseteq InLog), merging \in {"squash", "resquash"},
                 NEW c, c = CurrentTask, tree'[c].exists, ~ OutlivedBy(c)'
          PROVE  tree'[c].committed # "draft"
      <4>1. c \in Wave /\ c \in TaskSpec
        BY <1>0, <3>2, TheCurrentTask DEF PlannedStage, ImplementTypeOK
      <4>2. Mine(c).pc = "passed"
        BY <3>2, <4>1 DEF LogFacts
      <4>3. t # c
        <5>1. SUFFICES ASSUME t = c PROVE FALSE
          OBVIOUS
        <5>2. a = attempt
          BY <1>0, <2>4, <2>5, <3>2, <5>1
        <5> QED BY <2>1, <4>2, <5>1, <5>2 DEF Mine, JobEffect, Places, Prepares, Works
      <4>4. tree'[c] = tree[c]
        BY <2>1, <4>1, <4>3 DEF JobEffect, TreeAlone
      <4>5. tree[c].exists /\ ~ OutlivedBy(c)
        BY <2>6, <3>2, <4>1, <4>4
      <4>6. Merging("squash") \/ Merging("resquash")
        BY <3>2 DEF Merging
      <4> QED BY <3>2, <4>4, <4>5, <4>6 DEF DraftFacts
    <3>3. ASSUME Merging("squash")' \/ Merging("resquash")'
          PROVE  /\ control = "merge" /\ ~ (Wave \subseteq InLog)
                 /\ merging \in {"squash", "resquash"}
      BY <2>2, <2>3, <3>0, <3>3 DEF Merging
    <3>4. \A c : c = CurrentTask => (OutlivedBy(CurrentTask)' = OutlivedBy(c)')
      BY <2>3 DEF OutlivedBy
    <3> QED BY <2>2, <2>3, <3>0, <3>1, <3>2, <3>3, <3>4 DEF DraftFacts
  <2> QED BY <2>7, <2>8
<1> QED
  BY <1>2, <1>3, <1>4, <1>5, <1>6, <1>7 DEF Next, StageStep, Ended


-----------------------------------------------------------------------------
(* The inductive invariant of the stage. *)
ImplementInv == StageInv /\ GitFacts /\ TreeFacts /\ BaseFacts /\ DraftFacts

LEMMA ImplementInitInv == Init => ImplementInv
<1> SUFFICES ASSUME Init PROVE ImplementInv
  OBVIOUS
<1>1. PlannedStage
  BY PlannedInit
<1>2. InLog = {} /\ control = "plan" /\ outcome = "none"
  BY DEF Init, InLog
<1>3. /\ \A t \in TaskSpec : ~ tree[t].exists
      /\ \A a \in Attempt, t \in TaskSpec : job[a][t].pc = "idle"
  BY DEF Init, NoTree, Idle
<1>4. head \in {"run", "main", "unborn"} /\ runExists = (head = "run")
  BY ImplementAssumption DEF Init
<1> QED
  BY <1>1, <1>2, <1>3, <1>4
     DEF ImplementInv, StageInv, LogFacts, ReturnFacts, ManifestTellsMerged, GitFacts, TreeFacts,
         BaseFacts, DraftFacts, Merging, Works

LEMMA ImplementInvariant == Spec => []ImplementInv
<1>1. ImplementInv /\ [Next]_vars => ImplementInv'
  BY PlannedStep, LogStep, GitStep, TreeStep, BaseStep, DraftStep DEF ImplementInv, StageInv
<1> QED BY <1>1, ImplementInitInv, PTL DEF Spec

(* In every state of the stage, through retries and resumes: under the plan *)
(* writer's rule a task is worked on in a worktree that holds all it        *)
(* depends on, a stage that passes has merged every task and left no        *)
(* worktree of its own, and the execution manifest says PASS of the merged  *)
(* tasks and of no other (implementStage.run, squashMerge).                 *)
THEOREM StageDoesAccount == Spec => []StageAccounts
<1>1. ImplementInv => StageAccounts
  <2> SUFFICES ASSUME ImplementInv PROVE StageAccounts
    OBVIOUS
  <2> USE DEF ImplementInv, StageInv
  <2>0. /\ job \in [Attempt -> [TaskSpec -> Job]] /\ attempt \in Attempt
        /\ waves \in Seq(SUBSET TaskSpec)
    BY DEF PlannedStage, ImplementTypeOK, PlanTypeOK
  <2>1. DependenciesInBase
    <3> SUFFICES ASSUME PlanWriterRule, head = "run", control = "tasks",
                        NEW t \in Wave, tree[t].exists, Mine(t).pc \in Works, NEW d \in deps(t)
                 PROVE  \E u \in tree[t].base : id(u) = d
      BY DEF DependenciesInBase
    <3>1. wave \in DOMAIN waves
      BY DEF PlannedStage, StageFacts
    <3>2. PICK v \in 1..(wave - 1) : \E u \in waves[v] : id(u) = d
      BY <3>1 DEF PlannedStage, PlanInv, DependenciesFirst, Wave
    <3>3. v \in DOMAIN waves /\ v < wave
      BY <2>0, <3>1, <3>2
    <3>4. Mine(t).pc # "cleanup"
      BY DEF Works
    <3>5. waves[v] \subseteq tree[t].base
      BY <3>3, <3>4 DEF BaseFacts
    <3> QED BY <3>2, <3>5
  <2>2. PassMeansMerged
    <3> SUFFICES ASSUME outcome \in {"PASS", "PARTIAL"}
                 PROVE  /\ Survivors \subseteq work[head]
                        /\ \A t \in TaskSpec : tree[t].exists => CutByEarlier(t)
      BY DEF PassMeansMerged
    <3>1. Survivors \subseteq InLog
      BY DEF ReturnFacts
    <3>2. Survivors \subseteq work[head]
      BY <3>1 DEF GitFacts
    <3>3. ASSUME NEW t \in TaskSpec, tree[t].exists PROVE CutByEarlier(t)
      <4>1. t \in InLog
        BY <3>1, <3>3 DEF GitFacts
      <4>2. Recut(t)
        BY <3>3, <4>1 DEF TreeFacts
      <4> QED BY <4>2 DEF Recut, CutByEarlier
    <3> QED BY <3>2, <3>3
  <2> QED BY <2>1, <2>2 DEF StageAccounts, PlannedStage, ReturnFacts
<1> QED BY <1>1, ImplementInvariant, PTL

(* Whatever a crashed or failed attempt left in the workspace, a rebase     *)
(* under way included, is gone when a task's worktree is cut, unless the    *)
(* earlier attempt still cuts its own (prepare).                            *)
THEOREM LeftoversAreRemoved == Spec => []LeftoversRemoved
<1>1. ImplementInv => LeftoversRemoved
  <2> SUFFICES ASSUME ImplementInv, control = "prepare", NEW t \in Wave,
                      Mine(t).pc = "add", tree[t].exists
               PROVE  CutByEarlier(t)
    BY DEF LeftoversRemoved
  <2>1. t \in TaskSpec
    BY DEF ImplementInv, StageInv, PlannedStage, ImplementTypeOK, PlanTypeOK, StageFacts, Wave
  <2>2. Recut(t)
    BY <2>1 DEF ImplementInv, TreeFacts
  <2> QED BY <2>2 DEF Recut, CutByEarlier
<1> QED BY <1>1, ImplementInvariant, PTL

-----------------------------------------------------------------------------
(* Only Squashed changes the log or what the branch took. *)
LEMMA OnlySquashed ==
    ASSUME ImplementInv, [Next]_vars
    PROVE  \/ /\ control = "merge" /\ wave \in DOMAIN waves /\ ~ (Wave \subseteq InLog)
              /\ Merging("squash") \/ Merging("resquash")
              /\ CurrentTask \in TaskSpec /\ Squashed(CurrentTask)
           \/ merged' = merged /\ log' = log
           \/ merged' = merged /\ log' = <<>> /\ (RetryStage \/ ResumeStage)
<1> USE DEF ImplementInv, StageInv
<1>1. CASE Merge
  <2>1. wave \in DOMAIN waves
    BY <1>1, MergesInMerge DEF PlannedStage, StageFacts
  <2>2. CurrentTask \in TaskSpec /\ MergeEffect(CurrentTask)
    BY <1>1, <2>1, MergeStepEffect DEF PlannedStage
  <2> QED BY <2>1, <2>2 DEF MergeEffect, MergeGoesOn
<1>2. CASE RetryStage \/ ResumeStage
  BY <1>2, StageEnters DEF PlannedStage
<1>3. CASE UNCHANGED vars \/ Plan \/ StartWave \/ StartTasks \/ WaveFails \/ WavePasses
           \/ WaveMerged \/ Check \/ AbortStage \/ Throws \/ Crash
  BY <1>3 DEF vars, stageVars, gitVars, Plan, StartWave, StartTasks, WaveFails, WavePasses,
     WaveMerged, Check, AbortStage, Throws, Crash
<1>4. ASSUME NEW a \in Attempt, NEW t \in TaskSpec, JobStep(a, t)
      PROVE  merged' = merged /\ log' = log
  BY <1>4, JobStepEffect DEF PlannedStage, JobEffect, JobStep
<1> QED BY <1>1, <1>2, <1>3, <1>4 DEF Next, StageStep, Ended

(* What the branch takes is what its verification saw or the resolution of  *)
(* a conflict, unless a session of an earlier attempt outlived it.          *)
THEOREM OnlyVerifiedMerged == Spec => VerifiedMerged
<1> DEFINE A == \A t \in TaskSpec :
                   log' # log /\ merged'[t] # merged[t] /\ merged'[t] = "draft" => OutlivedBy(t)
<1>1. ImplementInv /\ [Next]_vars => [A]_vars
  <2> SUFFICES ASSUME ImplementInv, [Next]_vars, NEW t \in TaskSpec,
                      merged'[t] # merged[t], merged'[t] = "draft"
               PROVE  OutlivedBy(t)
    OBVIOUS
  <2>1. /\ Merging("squash") \/ Merging("resquash")
        /\ CurrentTask \in TaskSpec /\ Squashed(CurrentTask)
    BY OnlySquashed
  <2>2. t = CurrentTask /\ merged'[t] = tree[t].committed
    BY <2>1, SquashEffect DEF ImplementInv, StageInv, PlannedStage
  <2>3. tree[t].exists
    BY <2>1, <2>2 DEF Squashed
  <2> QED BY <2>1, <2>2, <2>3 DEF ImplementInv, DraftFacts
<1>2. Spec => [][A]_vars
  <2> HIDE DEF A
  <2> QED BY <1>1, ImplementInvariant, PTL DEF Spec
<1> QED BY <1>2 DEF VerifiedMerged

-----------------------------------------------------------------------------
(* A merged task is the next of the plan, and all of its wave have passed. *)
LEMMA SquashedIsNext ==
    ASSUME ImplementInv, control = "merge", wave \in DOMAIN waves, ~ (Wave \subseteq InLog)
    PROVE  Promised!NextInPlan(CurrentTask)
<1>0. waves \in Seq(SUBSET TaskSpec) /\ PlanTypeOK
  BY DEF ImplementInv, StageInv, PlannedStage, ImplementTypeOK, PlanTypeOK
<1>1. /\ CurrentTask \in Wave /\ CurrentTask \notin InLog
      /\ \A u \in Wave : id(u) < id(CurrentTask) => u \in InLog
  BY <1>0, TheCurrentTask
<1>2. \A v \in 1..(wave - 1) : waves[v] \subseteq InLog
  <2>1. \A v \in 1..(wave - 1) : v \in DOMAIN waves /\ v < wave
    BY <1>0
  <2> QED BY <2>1 DEF ImplementInv, StageInv, LogFacts
<1>3. Promised!Done = InLog
  BY DEF Promised!Done, InLog
<1> QED BY <1>1, <1>2, <1>3 DEF Promised!NextInPlan, Wave

LEMMA StageIntegratesStep ==
    ASSUME ImplementInv, [Next]_vars
    PROVE  [Promised!IntegrationNext]_(Promised!integrationVars)
<1> USE DEF ImplementInv, StageInv
<1> DEFINE complete == outcome \in {"PASS", "PARTIAL"}
<1>0. /\ control # "ended" => outcome = "none"
      /\ control = "plan" => log = <<>>
      /\ waves' \in Seq(SUBSET TaskSpec)
  <2>1. PlannedStage'
    BY PlannedStep
  <2> QED BY <2>1 DEF PlannedStage, StageFacts, ImplementTypeOK, PlanTypeOK
<1>1. CASE Plan
  <2>1. /\ log = <<>> /\ outcome = "none" /\ UNCHANGED <<log, outcome, specs>>
    BY <1>0, <1>1 DEF Plan, PlanWave, DumpRest, planVars
  <2>2. Promised!DrawUp
    BY <1>0, <2>1 DEF Promised!DrawUp
  <2> QED BY <2>2 DEF Promised!IntegrationNext
<1>2. CASE RetryStage \/ ResumeStage
  <2>1. log' = <<>> /\ outcome \notin {"PASS", "PARTIAL"} /\ outcome' = "none"
        /\ UNCHANGED planVars
    BY <1>2, StageEnters DEF PlannedStage
  <2>2. Promised!StartOver
    BY <2>1 DEF Promised!StartOver, planVars
  <2> QED BY <2>2 DEF Promised!IntegrationNext
<1>3. CASE Check
  <2>1. /\ outcome = "none" /\ outcome' \in {"PASS", "PARTIAL", "FAIL"}
        /\ UNCHANGED <<specs, waves, log>>
    BY <1>0, <1>3 DEF Check, Return, planVars
  <2>2. CASE outcome' = "FAIL"
    BY <2>1, <2>2 DEF Promised!integrationVars
  <2>3. CASE outcome' \in {"PASS", "PARTIAL"}
    <3>1. \A v \in DOMAIN waves : waves[v] \subseteq InLog
      <4>1. \A v \in DOMAIN waves : v < wave
        BY <1>3 DEF Check, PlannedStage, ImplementTypeOK, PlanTypeOK
      <4> QED BY <1>3, <4>1 DEF Check, LogFacts
    <3>2. Promised!Finish
      BY <2>1, <2>3, <3>1 DEF Promised!Finish, Promised!Done, InLog
    <3> QED BY <3>2 DEF Promised!IntegrationNext
  <2> QED BY <2>1, <2>2, <2>3
<1>4. CASE /\ control = "merge" /\ wave \in DOMAIN waves /\ ~ (Wave \subseteq InLog)
           /\ CurrentTask \in TaskSpec /\ Squashed(CurrentTask)
  <2>1. Promised!NextInPlan(CurrentTask)
    BY <1>4, SquashedIsNext
  <2>2. log' = Append(log, CurrentTask) /\ UNCHANGED <<outcome, planVars>> /\ outcome = "none"
    BY <1>0, <1>4 DEF Squashed, KeepsStage
  <2>3. Promised!Integrate
    BY <1>4, <2>1, <2>2 DEF Promised!Integrate, planVars
  <2> QED BY <2>3 DEF Promised!IntegrationNext
<1>5. CASE log' = log /\ ~ Plan /\ ~ Check /\ ~ (RetryStage \/ ResumeStage)
  <2>1. UNCHANGED <<specs, waves>> /\ (complete' = complete)
    <3>1. CASE UNCHANGED vars \/ StartWave \/ StartTasks \/ WaveFails \/ WavePasses
               \/ WaveMerged \/ AbortStage \/ Throws \/ Crash
      BY <1>0, <3>1 DEF vars, stageVars, planVars, StartWave, StartTasks, WaveFails, WavePasses,
         WaveMerged, AbortStage, Throws, Crash, Return
    <3>2. CASE Merge
      <4>1. wave \in DOMAIN waves
        BY <3>2, MergesInMerge DEF PlannedStage, StageFacts
      <4>2. MergeEffect(CurrentTask)
        BY <3>2, <4>1, MergeStepEffect DEF PlannedStage
      <4> QED
        BY <1>0, <4>2 DEF MergeEffect, KeepsStage, MergeGoesOn, Squashed, Return, planVars
    <3>3. CASE \E a \in Attempt, t \in TaskSpec : JobStep(a, t)
      BY <3>3 DEF JobStep, planVars
    <3> QED BY <1>5, <3>1, <3>2, <3>3 DEF Next, StageStep, Ended
  <2> QED BY <1>5, <2>1 DEF Promised!integrationVars
<1> QED BY <1>1, <1>2, <1>3, <1>4, <1>5, OnlySquashed

(* The stage implements Integration: tasks reach the branch one after the   *)
(* other, wave by wave, in the order of their ids, and only when the whole  *)
(* wave has passed; a stage that passes has integrated them all.            *)
THEOREM StageIntegrates == Spec => IntegratesInOrder
<1>1. Init => Promised!IntegrationInit
  BY DEF Init, Promised!IntegrationInit
<1>2. ImplementInv /\ [Next]_vars
        => [Promised!IntegrationNext]_(Promised!integrationVars)
  BY StageIntegratesStep
<1>3. Spec => Promised!IntegrationSpec
  BY <1>1, <1>2, ImplementInvariant, PTL DEF Spec, Promised!IntegrationSpec
<1> DEFINE A == \A t \in TaskSpec : Len(log') > Len(log) /\ t \in Wave => Mine(t).pc = "passed"
<1>4. ImplementInv /\ [Next]_vars => [A]_vars
  <2> SUFFICES ASSUME ImplementInv, [Next]_vars, NEW t \in TaskSpec,
                      Len(log') > Len(log), t \in Wave
               PROVE  Mine(t).pc = "passed"
    OBVIOUS
  <2>1. log \in Seq(TaskSpec)
    BY DEF ImplementInv, StageInv, PlannedStage, ImplementTypeOK
  <2>2. control = "merge"
    BY <2>1, OnlySquashed
  <2> QED BY <2>2 DEF ImplementInv, StageInv, LogFacts
<1>5. Spec => WaveMergesTogether
  <2>1. Spec => [][A]_vars
    <3> HIDE DEF A
    <3> QED BY <1>4, ImplementInvariant, PTL DEF Spec
  <2> QED BY <2>1 DEF WaveMergesTogether
<1> QED BY <1>3, <1>5 DEF IntegratesInOrder
=============================================================================
