-------------------------- MODULE CheckpointsProofs --------------------------
(***************************************************************************)
(* Proofs about Checkpoints for any number of stages, of turns, of git     *)
(* commands that fail and of resumes: what the commits of a run say, that  *)
(* its trail goes forward and has its end, and, if git creates the run     *)
(* branch and nobody leaves it, that the branch alone has the trail and a  *)
(* resume uses it.                                                         *)
(*                                                                         *)
(* The invariant orders three places: a commit of the branch that is       *)
(* checked out is behind the index, and the index behind the workspace,    *)
(* also when a checkpoint was given up halfway.  The order is by the log,  *)
(* the turn and, within one turn, the stage.  While the run branch is      *)
(* checked out main has no part of the run.                                *)
(***************************************************************************)
EXTENDS Checkpoints, TLAPS

Branches == {"main", "run"}
InCheckpoint == {"addCode", "addRun", "commit"}
Steps == {"start", "record", "stage", "save", "down", "over"} \cup InCheckpoint
Codes == [turn : 0..MaxTurns, stage : 0..Stages]
Trees == [code : Codes, last : 0..Stages, next : 1..(Stages + 1), turn : 0..MaxTurns,
          log : Nat, closed : BOOLEAN]
Actions == {"none", "complete", "finalized", "failed"}
Messages == [stage : Nat, action : Actions]
CommitSet == [tree : Trees, stage : Nat, action : Actions]

Types ==
  /\ pc \in Steps /\ head \in Branches
  /\ tips \in [Branches -> Seq(CommitSet)]
  /\ work \in Trees /\ staged \in Trees
  /\ doing \in Messages /\ (doing # NoCheckpoint <=> pc \in InCheckpoint)
  /\ failures \in Nat

\* The code is not behind the stages done in this turn, or is of the turn before.
Consistent(t) ==
  /\ t.code.turn <= t.turn /\ t.turn <= t.code.turn + 1
  /\ t.turn = t.code.turn => t.next <= t.code.stage + 1

SameState(s, t) == s.last = t.last /\ s.next = t.next /\ s.turn = t.turn
CodeOf(t) == [turn |-> t.turn, stage |-> t.next]

Workspace ==
  /\ Consistent(work)
  /\ pc = "save" => work.next <= Stages /\ work.code = CodeOf(work)
  /\ pc \in {"start", "record"} => work.log = 0
  /\ pc \in {"stage", "save"} \cup InCheckpoint => work.log > 0
  /\ work.log = 0 => work.turn = 0 /\ work.next = 1

Checkpointing ==
  /\ pc \in {"addRun", "commit"} => staged.code = work.code
  /\ pc = "commit" => staged = work
  /\ pc \in InCheckpoint =>
       IF doing.action = "complete"
       THEN /\ work.last = doing.stage /\ work.next = doing.stage + 1
            /\ work.code = [turn |-> work.turn, stage |-> doing.stage]
       ELSE \A i \in DOMAIN tips[head] : tips[head][i].tree.log < work.log

\* What CommitsAreConsistent says of one commit.
Sound(c) ==
  /\ Consistent(c.tree)
  /\ c.action = "complete" =>
       /\ c.tree.last = c.stage /\ c.tree.next = c.stage + 1
       /\ c.tree.code = [turn |-> c.tree.turn, stage |-> c.stage]

\* What TrailGoesForward says of two.
Behind(s, t) ==
  /\ s.log <= t.log /\ s.turn <= t.turn
  /\ s.turn = t.turn => s.next <= t.next

Trail ==
  /\ \A b \in Branches : \A i \in DOMAIN tips[b] : Sound(tips[b][i])
  /\ \A b \in Branches : \A i, j \in DOMAIN tips[b] :
       i < j => Behind(tips[b][i].tree, tips[b][j].tree)
  /\ \A i \in DOMAIN tips[head] : Behind(tips[head][i].tree, staged)
  /\ Behind(staged, work)
  /\ head = "run" =>
       /\ tips["run"] # <<>>
       /\ \A i \in DOMAIN tips["main"] : Behind(tips["main"][i].tree, Empty)

IInv == Types /\ Workspace /\ Checkpointing /\ Trail /\ EndIsCommitted

\* No commit of the run is on main, and nothing but the branch has it.
Apart ==
  /\ head = "main" => pc \in {"start", "down"} /\ work.log = 0 /\ tips["run"] = <<>>
  /\ RunBranchOnly

-----------------------------------------------------------------------------
LEMMA EmptyIs ==
  /\ Empty \in Trees /\ NoCheckpoint \in Messages /\ NoCheckpoint.action = "none"
  /\ Empty.log = 0 /\ Empty.last = 0 /\ Empty.next = 1 /\ Empty.turn = 0
  /\ Empty.code = [turn |-> 0, stage |-> 0]
  /\ Commit(Empty, NoCheckpoint) \in CommitSet
  /\ Commit(Empty, NoCheckpoint).tree = Empty /\ Commit(Empty, NoCheckpoint).action = "none"
BY CheckpointsAssumption
   DEF Empty, NoCheckpoint, Codes, Trees, Messages, Actions, CommitSet, Commit

LEMMA BehindIs ==
  ASSUME NEW s \in Trees, NEW t \in Trees
  PROVE  /\ Behind(s, s) /\ Behind(Empty, s)
         /\ SameState(s, t) /\ s.log <= t.log => Behind(s, t)
         /\ \A u \in Trees : Behind(s, t) /\ Behind(t, u) => Behind(s, u)
         /\ Behind(s, t) /\ t.log = 0 /\ t.turn = 0 /\ t.next = 1
              => s.log = 0 /\ s.turn = 0 /\ s.next = 1
BY CheckpointsAssumption, EmptyIs DEF Behind, SameState, Trees

LEMMA WorkIs ==
  ASSUME Types
  PROVE  /\ work \in Trees /\ staged \in Trees /\ work.code \in Codes
         /\ work.log \in Nat /\ work.turn \in Nat /\ work.turn \in 0..MaxTurns
         /\ work.next \in Nat /\ work.next \in 1..(Stages + 1)
         /\ work.last \in Nat /\ work.last \in 0..Stages
         /\ Stages \in Nat /\ MaxTurns \in Nat
<1>1. Stages \in Nat /\ MaxTurns \in Nat
  BY CheckpointsAssumption
<1>2. work \in Trees /\ staged \in Trees
  BY DEF Types
<1>3. /\ work.code \in Codes /\ work.log \in Nat /\ work.turn \in 0..MaxTurns
      /\ work.next \in 1..(Stages + 1) /\ work.last \in 0..Stages
  BY <1>2 DEF Trees
<1> QED
  BY <1>1, <1>2, <1>3

LEMMA LoggedIs ==
  ASSUME work \in Trees
  PROVE  /\ Logged(1) \in Trees /\ Logged(1).log = work.log + 1
         /\ SameState(Logged(1), work) /\ Logged(1).code = work.code
<1> DEFINE longer == [work EXCEPT !.log = work.log + 1]
<1>1. /\ longer \in Trees /\ longer.log = work.log + 1
      /\ SameState(longer, work) /\ longer.code = work.code
  BY DEF Trees, SameState
<1>2. Logged(1) = [longer EXCEPT !.closed = FALSE]
  BY DEF Logged
<1> HIDE DEF longer
<1>3. FALSE \in BOOLEAN
  BY Zenon
<1> QED
  BY <1>1, <1>2, <1>3 DEF Trees, SameState

LEMMA CommitTypes ==
  ASSUME Types, NEW b \in Branches, NEW i \in DOMAIN tips[b]
  PROVE  /\ tips[b][i] \in CommitSet /\ tips[b][i].tree \in Trees
         /\ tips[b][i].tree.log \in Nat
<1>1. tips[b] \in Seq(CommitSet)
  BY DEF Types
<1>2. tips[b][i] \in CommitSet
  BY <1>1
<1> QED
  BY <1>2 DEF CommitSet, Trees

\* What is said of commits and index in a step that leaves both alone.
LEMMA TrailKept ==
  ASSUME Types, Trail, UNCHANGED <<head, tips, staged>>,
         work' \in Trees, Behind(work, work')
  PROVE  Trail'
<1>1. Behind(staged, work')
  BY BehindIs DEF Types, Trail
<1> QED
  BY <1>1 DEF Trail

\* ... and that at most adds to the log.
LEMMA TrailLogged ==
  ASSUME Types, Trail, UNCHANGED <<head, tips, staged>>,
         work' \in Trees, SameState(work', work), work'.log >= work.log
  PROVE  Trail'
<1>1. work \in Trees /\ work.log <= work'.log
  BY DEF Types, Trees
<1>2. SameState(work, work')
  BY DEF SameState
<1>3. Behind(work, work')
  BY <1>1, <1>2, BehindIs
<1> QED
  BY <1>3, TrailKept

LEMMA InitHolds == Init => IInv
<1> SUFFICES ASSUME Init PROVE IInv
  OBVIOUS
<1> USE EmptyIs DEF Init
<1>1. PICK first \in {<<>>, <<Commit(Empty, NoCheckpoint)>>} :
        tips = [b \in {"main", "run"} |-> IF b = "main" THEN first ELSE <<>>]
  OBVIOUS
<1>2. tips["run"] = <<>> /\ tips["main"] = first /\ first \in Seq(CommitSet)
      /\ tips \in [Branches -> Seq(CommitSet)]
  <2> HIDE DEF Init
  <2>1. first \in Seq(CommitSet) /\ <<>> \in Seq(CommitSet)
    <3>1. <<>> \in Seq(CommitSet)
      OBVIOUS
    <3> DEFINE c == Commit(Empty, NoCheckpoint)
    <3>2. c \in CommitSet
      BY EmptyIs
    <3> HIDE DEF c
    <3>3. <<c>> \in Seq(CommitSet)
      BY <3>2
    <3> USE DEF c
    <3> QED
      BY <3>1, <3>3, Zenon
  <2> QED
    BY <1>1, <2>1 DEF Branches
<1>3. \A b \in Branches : \A i \in DOMAIN tips[b] :
        i = 1 /\ tips[b][i] = Commit(Empty, NoCheckpoint)
  BY <1>1, <1>2 DEF Branches
<1>4. Types
  BY <1>2 DEF Types, Steps, InCheckpoint, Branches
<1>5. Workspace /\ Checkpointing /\ EndIsCommitted
  BY DEF Workspace, Consistent, Checkpointing, InCheckpoint, EndIsCommitted
<1>6. Trail
  BY <1>3 DEF Trail, Sound, Consistent, Behind, Branches
<1> QED
  BY <1>4, <1>5, <1>6 DEF IInv

LEMMA CreateRunBranchKeeps == ASSUME IInv, CreateRunBranch PROVE IInv'
<1> USE EmptyIs DEF IInv, CreateRunBranch
<1>1. Workspace' /\ Checkpointing' /\ EndIsCommitted'
  BY DEF Workspace, Checkpointing, InCheckpoint, EndIsCommitted, Steps
<1>2. CASE UNCHANGED <<head, tips>>
  <2>1. Types'
    BY <1>2 DEF Types, Steps, InCheckpoint
  <2>2. Trail'
    BY <1>2, TrailLogged DEF Types, Trees, SameState
  <2> QED
    BY <1>1, <2>1, <2>2
<1> DEFINE new == IF tips["main"] = <<>> THEN <<Commit(Empty, NoCheckpoint)>> ELSE tips["main"]
<1>3. CASE tips["run"] = <<>> /\ head' = "run" /\ tips' = [tips EXCEPT !["run"] = new]
  <2>1. new \in Seq(CommitSet) /\ new # <<>>
    BY DEF Types, Branches
  <2>2. tips'["run"] = new /\ tips'["main"] = tips["main"]
    BY <1>3 DEF Types, Branches
  <2>3. Types'
    BY <1>3, <2>1 DEF Types, Steps, InCheckpoint, Branches
  <2>4. head = "main" /\ \A i \in DOMAIN tips["main"] : Behind(tips["main"][i].tree, Empty)
    <3>1. head = "main" /\ pc = "start"
      BY <1>3 DEF Types, Branches, Trail
    <3>2. work.log = 0 /\ work.turn = 0 /\ work.next = 1
      BY <3>1 DEF Workspace
    <3>3. staged.log = 0 /\ staged.turn = 0 /\ staged.next = 1
      BY <3>2, BehindIs DEF Trail, Types
    <3>4. Behind(staged, Empty)
      BY <3>3 DEF Behind
    <3> QED
      BY <3>1, <3>4, CommitTypes, BehindIs DEF Trail, Types, Branches
  <2>5. \A i \in DOMAIN new : Sound(new[i]) /\ Behind(new[i].tree, Empty)
    BY <2>4 DEF Trail, Branches, Sound, Consistent, Behind
  <2>6. \A i, j \in DOMAIN new : i < j => Behind(new[i].tree, new[j].tree)
    BY DEF Trail, Branches
  <2>7. \A i \in DOMAIN new : Behind(new[i].tree, staged)
    <3>1. \A i \in DOMAIN new : new[i] \in CommitSet
      BY <2>1
    <3> HIDE DEF new
    <3>2. \A i \in DOMAIN new : new[i].tree \in Trees
      BY <3>1 DEF CommitSet
    <3> QED
      BY <2>5, <3>2, BehindIs DEF Types
  <2> HIDE DEF new
  <2>8. Trail'
    BY <1>3, <2>1, <2>2, <2>4, <2>5, <2>6, <2>7 DEF Trail, Branches
  <2> QED
    BY <1>1, <2>3, <2>8
<1> QED
  BY <1>2, <1>3

LEMMA RecordStartKeeps == ASSUME IInv, RecordStart PROVE IInv'
<1> USE LoggedIs DEF IInv, RecordStart
<1>1. Types'
  BY DEF Types, Steps, InCheckpoint
<1>2. Workspace' /\ Checkpointing' /\ EndIsCommitted'
  BY DEF SameState, Types, Trees, Workspace, Consistent, Checkpointing, InCheckpoint,
         EndIsCommitted
<1>3. Trail'
  BY <1>1, TrailLogged DEF Types, Trees, SameState
<1> QED
  BY <1>1, <1>2, <1>3

LEMMA RunStageKeeps == ASSUME IInv, RunStage PROVE IInv'
<1> USE WorkIs DEF IInv
<1>0. /\ pc = "stage" /\ work.next <= Stages /\ pc' \in {"stage", "save"}
      /\ work' = [Logged(1) EXCEPT !.code = CodeOf(work)]
      /\ UNCHANGED <<head, tips, staged, doing, failures>>
  BY DEF RunStage, CodeOf
<1>1. /\ work' \in Trees /\ work'.log = work.log + 1 /\ SameState(work', work)
      /\ work'.code = CodeOf(work)
  <2>1. CodeOf(work) \in Codes
    <3>1. work.turn \in 0..MaxTurns /\ work.next \in 0..Stages
      BY <1>0
    <3> QED
      BY <3>1 DEF Codes, CodeOf
  <2>2. Logged(1) \in Trees /\ Logged(1).log = work.log + 1 /\ SameState(Logged(1), work)
    BY LoggedIs
  <2> QED
    BY <1>0, <2>1, <2>2 DEF Trees, SameState
<1>2. CodeOf(work') = CodeOf(work) /\ CodeOf(work).turn = work.turn
      /\ CodeOf(work).stage = work.next
  BY <1>1 DEF CodeOf, SameState
<1>3. Types'
  BY <1>0, <1>1 DEF Types, Steps, InCheckpoint
<1>4. Workspace'
  <2>1. Consistent(work')
    BY <1>1, <1>2 DEF Consistent, SameState
  <2> QED
    BY <1>0, <1>1, <1>2, <2>1 DEF SameState, Workspace, InCheckpoint
<1>5. Checkpointing' /\ EndIsCommitted'
  BY <1>0 DEF Checkpointing, InCheckpoint, EndIsCommitted
<1>6. Trail'
  <2>1. work'.log >= work.log
    BY <1>1
  <2> QED
    BY <1>0, <1>1, <2>1, TrailLogged
<1> QED
  BY <1>3, <1>4, <1>5, <1>6

LEMMA SaveStateKeeps == ASSUME IInv, SaveState PROVE IInv'
<1> USE EmptyIs DEF IInv
<1>0. /\ pc = "save" /\ pc' = "addCode" /\ UNCHANGED <<head, tips, staged, failures>>
      /\ work' = [work EXCEPT !.last = work.next, !.next = @ + 1]
      /\ doing' = [stage |-> work.next, action |-> "complete"]
  BY DEF SaveState, Begins
<1>1. /\ work' \in Trees /\ work'.log = work.log /\ work'.turn = work.turn
      /\ work'.last = work.next /\ work'.next = work.next + 1
      /\ work'.code = work.code /\ work.code = [turn |-> work.turn, stage |-> work.next]
  <2>1. work.next <= Stages /\ work.code = CodeOf(work)
    BY <1>0 DEF Workspace
  <2>2. work.next \in 0..Stages /\ work.next + 1 \in 1..(Stages + 1)
    BY <2>1, CheckpointsAssumption DEF Types, Trees
  <2>3. work' = [[work EXCEPT !.last = work.next] EXCEPT !.next = work.next + 1]
    BY <1>0 DEF Types, Trees
  <2> QED
    BY <2>1, <2>2, <2>3 DEF Types, Trees, CodeOf
<1>2. Types'
  BY <1>0, <1>1 DEF Types, Trees, Messages, Actions, Steps, InCheckpoint
<1>3. Workspace' /\ Checkpointing' /\ EndIsCommitted'
  BY <1>0, <1>1
     DEF SameState, Types, Trees, Workspace, Consistent, Checkpointing, InCheckpoint,
         EndIsCommitted
<1>4. Trail'
  <2>1. Behind(work, work')
    BY <1>1, WorkIs DEF Behind
  <2> QED
    BY <1>0, <1>1, <2>1, TrailKept DEF Types
<1> QED
  BY <1>2, <1>3, <1>4

LEMMA RerouteKeeps == ASSUME IInv, Reroute PROVE IInv'
<1> USE WorkIs DEF IInv
<1>0. PICK to \in 1..Stages, last \in {work.last, work.next} :
        work' = [Logged(1) EXCEPT !.turn = @ + 1, !.next = to, !.last = last]
  BY DEF Reroute
<1>1. /\ pc = "save" /\ pc' = "stage" /\ work.turn < MaxTurns
      /\ UNCHANGED <<head, tips, staged, doing, failures>>
  BY DEF Reroute
<1>2. /\ work' \in Trees /\ work'.log = work.log + 1 /\ work'.turn = work.turn + 1
      /\ work'.code = work.code /\ work.code.turn = work.turn
  <2>1. last \in 0..Stages /\ work.turn + 1 \in 0..MaxTurns /\ to \in 1..(Stages + 1)
    <3>1. work.next <= Stages
      BY <1>1 DEF Workspace
    <3> QED
      BY <1>1, <3>1
  <2>2. Logged(1) \in Trees /\ Logged(1).turn = work.turn /\ Logged(1).code = work.code
        /\ Logged(1).log = work.log + 1
    BY LoggedIs DEF SameState
  <2>3. work.code.turn = work.turn
    BY <1>1 DEF Workspace, CodeOf
  <2> QED
    BY <1>0, <2>1, <2>2, <2>3 DEF Trees
<1>3. Types'
  BY <1>1, <1>2 DEF Types, Steps, InCheckpoint
<1>4. Workspace'
  <2>1. Consistent(work')
    BY <1>2 DEF Consistent
  <2> QED
    BY <1>1, <1>2, <2>1 DEF Workspace, InCheckpoint
<1>5. Checkpointing' /\ EndIsCommitted'
  BY <1>1 DEF Checkpointing, InCheckpoint, EndIsCommitted
<1>6. Trail'
  <2>1. Behind(work, work')
    BY <1>2 DEF Behind
  <2> QED
    BY <1>1, <1>2, <2>1, TrailKept
<1> QED
  BY <1>3, <1>4, <1>5, <1>6

LEMMA EndRunKeeps == ASSUME IInv, EndRun PROVE IInv'
<1> USE WorkIs DEF IInv
<1>0. /\ pc = "stage" /\ UNCHANGED <<head, tips, staged, failures>>
      /\ work' = [Logged(1) EXCEPT !.closed = TRUE]
      /\ \/ work.last = 0 /\ pc' = "over" /\ UNCHANGED doing
         \/ /\ pc' = "addCode" /\ work.last # 0
            /\ \E a \in {"finalized", "failed"} : doing' = [stage |-> work.last, action |-> a]
  BY DEF EndRun, Begins
<1>1. /\ work' \in Trees /\ work'.log = work.log + 1 /\ SameState(work', work)
      /\ work'.code = work.code
  <2>1. TRUE \in BOOLEAN
    OBVIOUS
  <2> QED
    BY <1>0, <2>1, LoggedIs DEF Trees, SameState
<1>2. Types'
  <2>1. doing' \in Messages /\ (doing' # NoCheckpoint <=> pc' \in InCheckpoint)
    <3>1. CASE pc' = "over" /\ UNCHANGED doing
      BY <1>0, <3>1 DEF Types, InCheckpoint
    <3>2. CASE /\ pc' = "addCode"
               /\ \E a \in {"finalized", "failed"} : doing' = [stage |-> work.last, action |-> a]
      BY <3>2, EmptyIs DEF Messages, Actions, InCheckpoint
    <3> QED
      BY <1>0, <3>1, <3>2
  <2> QED
    BY <1>0, <1>1, <2>1 DEF Types, Steps, InCheckpoint
<1>3. Workspace'
  <2>1. Consistent(work')
    BY <1>0, <1>1 DEF SameState, Workspace, Consistent
  <2>2. work'.log > 0 /\ pc' \in {"over", "addCode"}
    BY <1>0, <1>1
  <2> QED
    BY <2>1, <2>2 DEF Workspace, InCheckpoint
<1>4. Checkpointing'
  <2>1. \A i \in DOMAIN tips[head] : tips[head][i].tree.log < work'.log
    <3>1. \A i \in DOMAIN tips[head] : Behind(tips[head][i].tree, work)
      BY CommitTypes, BehindIs DEF Types, Trail
    <3> QED
      <4>1. \A i \in DOMAIN tips[head] : tips[head][i].tree.log \in Nat
        BY CommitTypes DEF Types
      <4>2. \A i \in DOMAIN tips[head] : tips[head][i].tree.log <= work.log
        BY <3>1 DEF Behind
      <4> QED
        BY <1>1, <4>1, <4>2
  <2> QED
    BY <1>0, <2>1 DEF Checkpointing, InCheckpoint
<1>5. EndIsCommitted'
  BY <1>0, <1>1 DEF SameState, EndIsCommitted
<1>6. Trail'
  <2>1. work'.log >= work.log
    BY <1>1
  <2> QED
    BY <1>0, <1>1, <2>1, TrailLogged
<1> QED
  BY <1>2, <1>3, <1>4, <1>5, <1>6

LEMMA AddCodeKeeps == ASSUME IInv, AddCode PROVE IInv'
<1> USE DEF IInv, AddCode
<1>1. staged' \in Trees /\ staged'.code = work.code /\ staged'.log = staged.log
      /\ SameState(staged', staged)
  BY DEF Types, Trees, SameState
<1>2. Types'
  BY <1>1 DEF Types, Steps, InCheckpoint
<1>3. Workspace' /\ Checkpointing' /\ EndIsCommitted'
  BY <1>1 DEF Workspace, Checkpointing, InCheckpoint, EndIsCommitted
<1>4. Trail'
  BY <1>1 DEF Trail, Behind
<1> QED
  BY <1>2, <1>3, <1>4

LEMMA AddRunKeeps == ASSUME IInv, AddRun PROVE IInv'
<1> USE DEF IInv, AddRun
<1>1. staged' = work
  BY DEF Types, Trees, Checkpointing
<1>2. Types'
  BY <1>1 DEF Types, Steps, InCheckpoint
<1>3. Workspace' /\ Checkpointing' /\ EndIsCommitted'
  BY <1>1 DEF Workspace, Checkpointing, InCheckpoint, EndIsCommitted
<1>4. Trail'
  <2>1. \A i \in DOMAIN tips[head] : Behind(tips[head][i].tree, work)
    BY CommitTypes, BehindIs DEF Types, Trail
  <2>2. Behind(work, work)
    BY BehindIs DEF Types
  <2> QED
    BY <1>1, <2>1, <2>2 DEF Trail
<1> QED
  BY <1>2, <1>3, <1>4

\* Giving up or finishing a checkpoint: the commits apart from it.
LEMMA AfterCheckpointIs ==
  ASSUME Types, pc \in InCheckpoint, NEW skipped \in BOOLEAN, AfterCheckpoint(skipped)
  PROVE  /\ pc' = (IF doing.action = "complete" THEN "stage" ELSE "over")
         /\ doing' = NoCheckpoint /\ work' \in Trees
         /\ work' = (IF skipped THEN work ELSE [work EXCEPT !.log = @ + 1])
         /\ work'.log = (IF skipped THEN work.log ELSE work.log + 1)
         /\ SameState(work', work) /\ work'.code = work.code
<1>1. work \in Trees /\ work.log + 1 \in Nat
  BY WorkIs
<1>2. CASE skipped
  BY <1>1, <1>2 DEF AfterCheckpoint, SameState
<1>3. CASE ~skipped
  <2>1. work' = [work EXCEPT !.log = work.log + 1]
    BY <1>3 DEF AfterCheckpoint
  <2> QED
    BY <1>1, <1>3, <2>1 DEF AfterCheckpoint, Trees, SameState
<1> QED
  BY <1>2, <1>3

LEMMA CommitStagedKeeps == ASSUME IInv, CommitStaged PROVE IInv'
<1> USE EmptyIs DEF IInv
<1> DEFINE skipped == staged = HeadTree
           new == Commit(staged, doing)
<1>0. /\ pc = "commit" /\ UNCHANGED <<head, staged, failures>> /\ AfterCheckpoint(skipped)
      /\ staged = work
      /\ IF skipped THEN UNCHANGED tips
         ELSE tips' = [tips EXCEPT ![head] = Append(@, new)]
  BY DEF CommitStaged, Checkpointing
<1>1. /\ pc' = (IF doing.action = "complete" THEN "stage" ELSE "over")
      /\ doing' = NoCheckpoint /\ work' \in Trees
      /\ work' = (IF skipped THEN work ELSE [work EXCEPT !.log = @ + 1])
      /\ work'.log = (IF skipped THEN work.log ELSE work.log + 1)
      /\ SameState(work', work) /\ work'.code = work.code
  BY <1>0, AfterCheckpointIs DEF InCheckpoint
<1> HIDE DEF skipped
<1>2. new \in CommitSet /\ new.tree = staged /\ new.stage = doing.stage
      /\ new.action = doing.action
  BY DEF Commit, CommitSet, Types, Messages
<1>3. Sound(new)
  BY <1>0, <1>2 DEF Sound, Workspace, Checkpointing, InCheckpoint
<1> HIDE DEF new
<1>4. head \in Branches /\ tips[head] \in Seq(CommitSet) /\ tips \in [Branches -> Seq(CommitSet)]
  BY DEF Types
<1>5. Types'
  <2>1. tips' \in [Branches -> Seq(CommitSet)]
    <3>1. Append(tips[head], new) \in Seq(CommitSet)
      BY <1>2, <1>4
    <3> QED
      BY <1>0, <1>4, <3>1
  <2> QED
    BY <1>0, <1>1, <2>1 DEF Types, Steps, InCheckpoint
<1>6. Workspace' /\ Checkpointing'
  BY <1>0, <1>1 DEF Types, Trees, Workspace, Consistent, Checkpointing, InCheckpoint
<1>7. CASE skipped
  <2>1. Trail'
    BY <1>0, <1>1, <1>7, TrailLogged DEF Types, Trees, SameState
  <2>2. pc' = "over" /\ work.last > 0 => FALSE
    <3> SUFFICES ASSUME pc' = "over" PROVE FALSE
      OBVIOUS
    <3>1. work.log > 0 /\ \A i \in DOMAIN tips[head] : tips[head][i].tree.log < work.log
      BY <1>0, <1>1 DEF Checkpointing, Workspace, InCheckpoint
    <3>2. tips[head] # <<>> => HeadTree.log < work.log
      BY <1>4, <3>1 DEF HeadTree, Last
    <3>3. tips[head] = <<>> => HeadTree.log < work.log
      BY <3>1 DEF HeadTree
    <3>4. HeadTree = work
      BY <1>0, <1>7 DEF skipped
    <3> QED
      BY <3>2, <3>3, <3>4 DEF Types, Trees
  <2> QED
    BY <1>1, <1>5, <1>6, <2>1, <2>2 DEF EndIsCommitted
<1>8. CASE ~skipped
  <2> DEFINE n == Len(tips[head]) + 1
  <2>1. tips' = [tips EXCEPT ![head] = Append(@, new)]
    BY <1>0, <1>8
  <2>2. /\ \A b \in Branches : b # head => tips'[b] = tips[b]
        /\ tips'[head] = Append(tips[head], new)
    BY <1>4, <2>1
  <2>3. /\ DOMAIN tips'[head] = 1..n /\ Len(tips'[head]) = n /\ tips'[head][n] = new
        /\ DOMAIN tips[head] = 1..(n - 1) /\ n \in Nat
        /\ \A i \in 1..(n - 1) : tips'[head][i] = tips[head][i]
    BY <1>2, <1>4, <2>2
  <2> HIDE DEF n
  <2>4. \A b \in Branches : \A i \in DOMAIN tips'[b] : Sound(tips'[b][i])
    BY <1>3, <2>2, <2>3 DEF Trail
  <2>5. \A i \in 1..(n - 1) : Behind(tips[head][i].tree, new.tree)
    BY <1>2, <2>3 DEF Trail
  <2>6. \A b \in Branches : \A i, j \in DOMAIN tips'[b] :
          i < j => Behind(tips'[b][i].tree, tips'[b][j].tree)
    <3> SUFFICES ASSUME NEW i \in 1..n, NEW j \in 1..n, i < j
                 PROVE  Behind(tips'[head][i].tree, tips'[head][j].tree)
      BY <2>2, <2>3 DEF Trail
    <3>1. CASE j = n
      <4>1. i \in 1..(n - 1)
        BY <2>3, <3>1
      <4> QED
        BY <2>3, <2>5, <3>1, <4>1
    <3>2. CASE j < n
      <4>1. i \in 1..(n - 1) /\ j \in 1..(n - 1)
        BY <2>3, <3>2
      <4>2. i \in DOMAIN tips[head] /\ j \in DOMAIN tips[head]
            /\ tips'[head][i] = tips[head][i] /\ tips'[head][j] = tips[head][j]
        BY <2>3, <4>1
      <4>3. Behind(tips[head][i].tree, tips[head][j].tree)
        BY <1>4, <4>2 DEF Trail
      <4> QED
        BY <4>2, <4>3
    <3> QED
      BY <2>3, <3>1, <3>2
  <2>7. \A i \in DOMAIN tips'[head] : Behind(tips'[head][i].tree, staged)
    BY <1>2, <2>3 DEF Trail, Behind, Types, Trees
  <2>8. Behind(staged, work')
    BY <1>0, <1>1 DEF Behind, Types, Trees
  <2>9. head = "run" => /\ tips'["run"] # <<>>
                        /\ \A i \in DOMAIN tips'["main"] : Behind(tips'["main"][i].tree, Empty)
    BY <1>2, <1>4, <2>2 DEF Trail, Branches
  <2>10. Trail'
    BY <1>0, <2>4, <2>6, <2>7, <2>8, <2>9 DEF Trail
  <2>11. Last(tips'[head]).tree = [work' EXCEPT !.log = @ - 1]
    <3>1. Last(tips'[head]).tree = work
      BY <1>0, <1>2, <2>3 DEF Last
    <3>2. work = [work' EXCEPT !.log = @ - 1]
      <4>1. work' = [work EXCEPT !.log = work.log + 1]
        BY <1>1, <1>8
      <4>2. work'.log - 1 = work.log
        BY <1>1, <1>8 DEF Types, Trees
      <4>3. work = [[work EXCEPT !.log = work.log + 1] EXCEPT !.log = work.log]
        BY DEF Types, Trees
      <4> QED
        BY <4>1, <4>2, <4>3
    <3> QED
      BY <3>1, <3>2
  <2> QED
    BY <1>0, <1>5, <1>6, <2>10, <2>11 DEF EndIsCommitted
<1> QED
  BY <1>7, <1>8

LEMMA GitFailsKeeps == ASSUME IInv, GitFails PROVE IInv'
<1> USE EmptyIs DEF IInv
<1>0. /\ pc \in InCheckpoint /\ failures' = failures + 1 /\ AfterCheckpoint(FALSE)
      /\ UNCHANGED <<head, tips, staged>>
  BY DEF GitFails, InCheckpoint
<1>1. /\ pc' = (IF doing.action = "complete" THEN "stage" ELSE "over")
      /\ doing' = NoCheckpoint /\ work' \in Trees /\ work'.log = work.log + 1
      /\ SameState(work', work) /\ work'.code = work.code
  BY <1>0, AfterCheckpointIs
<1>2. Types'
  BY <1>0, <1>1 DEF Types, Steps, InCheckpoint
<1>3. Workspace' /\ Checkpointing' /\ EndIsCommitted'
  BY <1>0, <1>1 DEF SameState, Types, Trees, Workspace, Consistent, Checkpointing, InCheckpoint,
         EndIsCommitted
<1>4. Trail'
  BY <1>0, <1>1, TrailLogged DEF Types, Trees, SameState
<1> QED
  BY <1>2, <1>3, <1>4

LEMMA CrashKeeps == ASSUME IInv, Crash PROVE IInv'
<1> USE EmptyIs DEF IInv, Crash
<1>1. Types' /\ Workspace' /\ Checkpointing' /\ EndIsCommitted'
  BY DEF Types, Steps, InCheckpoint, Workspace, Checkpointing, EndIsCommitted
<1>2. Trail'
  BY TrailLogged DEF Types, Trees, SameState
<1> QED
  BY <1>1, <1>2

LEMMA UserLeavesKeeps == ASSUME IInv, UserLeaves PROVE IInv'
<1> USE EmptyIs DEF IInv
<1> DEFINE last == Last(tips["main"])
<1>0. /\ pc \in {"down", "over"} /\ head = "run" /\ head' = "main" /\ pc' = "down"
      /\ tips["main"] # <<>> /\ UNCHANGED <<tips, doing, failures>>
      /\ staged' = last.tree /\ work' \in {last.tree, work}
  BY DEF UserLeaves
<1>1. /\ last \in CommitSet /\ last.tree \in Trees /\ Sound(last) /\ Behind(last.tree, Empty)
      /\ \A i \in DOMAIN tips["main"] : Behind(tips["main"][i].tree, last.tree)
  <2>1. tips["main"] \in Seq(CommitSet) /\ Len(tips["main"]) \in DOMAIN tips["main"]
    BY <1>0 DEF Types, Branches
  <2>2. last = tips["main"][Len(tips["main"])]
    BY DEF Last
  <2>3. last \in CommitSet /\ last.tree \in Trees /\ Sound(last) /\ Behind(last.tree, Empty)
    <3>1. last \in CommitSet /\ last.tree \in Trees
      BY <2>1, <2>2, CommitTypes DEF Branches
    <3>2. Sound(last) /\ Behind(last.tree, Empty)
      BY <1>0, <2>1, <2>2 DEF Trail, Branches
    <3> QED
      BY <3>1, <3>2
  <2>4. \A i \in DOMAIN tips["main"] : tips["main"][i].tree \in Trees
                                       /\ Behind(tips["main"][i].tree, Empty)
    BY <1>0, CommitTypes DEF Trail, Branches
  <2>5. \A i \in DOMAIN tips["main"] : Behind(tips["main"][i].tree, last.tree)
    BY <2>3, <2>4 DEF Behind, Trees
  <2> QED
    BY <2>3, <2>5
<1> HIDE DEF last
<1>2. Types'
  BY <1>0, <1>1 DEF Types, Steps, InCheckpoint, Branches
<1>3. Workspace' /\ Checkpointing' /\ EndIsCommitted'
  BY <1>0, <1>1
     DEF Types, Trees, Behind, Sound, Workspace, Checkpointing, InCheckpoint, EndIsCommitted
<1>4. Behind(staged', work')
  BY <1>0, <1>1, <1>2, BehindIs DEF Types
<1>5. Trail'
  BY <1>0, <1>1, <1>4 DEF Trail, Branches
<1> QED
  BY <1>2, <1>3, <1>5

LEMMA ResumeKeeps == ASSUME IInv, Resume PROVE IInv'
<1> USE LoggedIs DEF IInv, Resume
<1>1. Types'
  BY DEF Types, Steps, InCheckpoint
<1>2. Workspace' /\ Checkpointing' /\ EndIsCommitted'
  BY DEF SameState, Types, Trees, Workspace, Consistent, Checkpointing, InCheckpoint,
         EndIsCommitted
<1>3. Trail'
  <2>1. work' \in Trees /\ SameState(work', work) /\ work'.log >= work.log
    BY WorkIs DEF SameState
  <2> QED
    BY <2>1, TrailLogged
<1> QED
  BY <1>1, <1>2, <1>3

LEMMA NextKeeps == ASSUME IInv, [Next]_vars PROVE IInv'
<1>1. CASE UNCHANGED vars
  BY <1>1 DEF vars, IInv, Types, Workspace, Checkpointing, Trail, EndIsCommitted
<1> QED
  BY <1>1, CreateRunBranchKeeps, RecordStartKeeps, RunStageKeeps, SaveStateKeeps, RerouteKeeps,
     EndRunKeeps, AddCodeKeeps, AddRunKeeps, CommitStagedKeeps, GitFailsKeeps, CrashKeeps,
     UserLeavesKeeps, ResumeKeeps DEF Next

LEMMA Invariance == Spec => []IInv
<1>1. IInv /\ [Next]_vars => IInv'
  BY NextKeeps
<1> QED
  BY InitHolds, <1>1, PTL DEF Spec

-----------------------------------------------------------------------------
(* As long as the run branch is checked out and nobody leaves it. *)

KeptApart == kept \in BOOLEAN /\ (kept = TRUE => Apart)

LEMMA InitApart == Init => KeptApart
BY EmptyIs DEF Init, Apart, RunBranchOnly, KeptApart

LEMMA NextKeepsApart ==
  ASSUME IInv, KeptApart, [Next]_vars
  PROVE  KeptApart'
<1>1. kept' \in BOOLEAN
  BY DEF KeptApart, Next, vars, CreateRunBranch, RecordStart, RunStage, SaveState, Reroute, EndRun,
         AddCode, AddRun, CommitStaged, GitFails, Crash, UserLeaves, Resume
<1> SUFFICES ASSUME kept' = TRUE PROVE Apart'
  BY <1>1 DEF KeptApart
<1> USE DEF Apart, RunBranchOnly
<1>2. CASE CreateRunBranch
  <2>1. Apart /\ head' = "run"
    BY <1>2 DEF CreateRunBranch, KeptApart, Apart
  <2> QED
    BY <1>2, <2>1 DEF CreateRunBranch, IInv, Types, Branches
<1>3. CASE UserLeaves
  BY <1>3 DEF UserLeaves
<1>4. CASE \/ RecordStart \/ RunStage \/ SaveState \/ Reroute \/ EndRun
           \/ AddCode \/ AddRun \/ GitFails
  BY <1>4 DEF RecordStart, RunStage, SaveState, Reroute, EndRun, AddCode, AddRun, GitFails,
              KeptApart
<1>5. CASE CommitStaged
  BY <1>5 DEF CommitStaged, IInv, Types, Branches, KeptApart
<1>6. CASE Crash \/ Resume \/ UNCHANGED vars
  BY <1>6 DEF Crash, Resume, vars, KeptApart
<1> QED
  BY <1>2, <1>3, <1>4, <1>5, <1>6 DEF Next

LEMMA KeptInvariance == Spec => [](IInv /\ KeptApart)
<1>1. IInv /\ KeptApart /\ [Next]_vars => IInv' /\ KeptApart'
  BY NextKeeps, NextKeepsApart
<1> QED
  BY InitHolds, InitApart, <1>1, PTL DEF Spec

-----------------------------------------------------------------------------
\* The history keeps its types, and a checkpoint is always of a stage.
THEOREM TypesHold == Spec => []CheckpointsTypeOK
<1>1. IInv /\ KeptApart => CheckpointsTypeOK
  <2> SUFFICES ASSUME IInv, KeptApart PROVE CheckpointsTypeOK
    OBVIOUS
  <2>1. work \in Trees /\ work.code \in Codes
    BY DEF IInv, Types, Trees
  <2>2. doing.action \in Actions /\ kept \in BOOLEAN
    BY DEF IInv, Types, Messages, KeptApart
  <2>3. /\ pc \in Steps /\ head \in Branches
        /\ pc \in {"addCode", "addRun", "commit"} <=> doing # NoCheckpoint
    BY DEF IInv, Types, InCheckpoint
  <2> QED
    BY <2>1, <2>2, <2>3 DEF Branches, InCheckpoint, Steps, Codes, Trees, Actions, CheckpointsTypeOK
<1> QED
  BY <1>1, KeptInvariance, PTL

\* No commit says that a stage is done whose code it lacks, whatever git
\* command failed and wherever the process died (pipeline-loop.ts:187).
THEOREM CommitsConsistent == Spec => []CommitsAreConsistent
<1>1. IInv => CommitsAreConsistent
  <2> SUFFICES ASSUME IInv, NEW c \in Commits
               PROVE  Sound(c)
    BY CommitTypes DEF CommitsAreConsistent, Sound, Consistent
  <2>1. PICK b \in Branches : c \in {tips[b][i] : i \in DOMAIN tips[b]}
    BY DEF Commits, Branches
  <2> QED
    BY <2>1 DEF IInv, Trail
<1> QED
  BY <1>1, Invariance, PTL

\* A later commit of a branch never has less of the log, never an earlier turn, and in
\* one turn never fewer stages, over any backward loops, deferrals and fixes between
\* them (pipeline-loop.ts:132-151, 260-270).
THEOREM TrailForward == Spec => []TrailGoesForward
<1>1. IInv => TrailGoesForward
  BY DEF IInv, Trail, Behind, Branches, TrailGoesForward
<1> QED
  BY <1>1, Invariance, PTL

\* The end of a run that is over is in the branch, if no git command failed
\* (pipeline-loop.ts:206).
THEOREM EndCommitted == Spec => []EndIsCommitted
<1>1. IInv => EndIsCommitted
  BY DEF IInv
<1> QED
  BY <1>1, Invariance, PTL

\* All of it together.
THEOREM HistoryKept == Spec => []HistoryHolds
<1>1. CheckpointsTypeOK /\ CommitsAreConsistent /\ TrailGoesForward /\ EndIsCommitted
        => HistoryHolds
  BY DEF HistoryHolds
<1> QED
  BY <1>1, TypesHold, CommitsConsistent, TrailForward, EndCommitted, PTL

\* As long as git does not refuse the run branch and nobody leaves it, main has no
\* checkpoint (README.md:232).
THEOREM OnlyOnBranch == Spec => []KeptBranchOnly
<1>1. KeptApart => KeptBranchOnly
  BY DEF KeptApart, Apart, KeptBranchOnly
<1> QED
  BY <1>1, KeptInvariance, PTL

\* ... and a resume never starts a run anew of which anything was committed
\* (mental-model.md:257).
THEOREM PickedUp == Spec => KeptPickedUp
<1>1. IInv /\ KeptApart /\ [Next]_vars =>
        [kept /\ pc' = "start" /\ pc # "start" => \A c \in Commits : c.tree.log = 0]_vars
  <2> SUFFICES ASSUME IInv, KeptApart, Next, kept, pc' = "start", pc # "start", NEW c \in Commits
               PROVE  c.tree.log = 0
    BY DEF vars
  <2>0. Apart
    BY DEF KeptApart
  <2>1. Resume /\ work.log = 0
    BY DEF Next, CreateRunBranch, RecordStart, RunStage, SaveState, Begins, Reroute, EndRun,
           AddCode, AddRun, CommitStaged, GitFails, AfterCheckpoint, Crash, UserLeaves, Resume
  <2>2. PICK b \in Branches : c \in {tips[b][i] : i \in DOMAIN tips[b]}
    BY DEF Commits, Branches
  <2>3. PICK i \in DOMAIN tips[b] : c = tips[b][i]
    BY <2>2
  <2>4. c.tree.log \in Nat /\ work.log = 0
    BY <2>1, <2>3, CommitTypes DEF IInv, Workspace
  <2>5. CASE b = head
    BY <2>3, <2>4, <2>5, CommitTypes DEF IInv, Trail, Behind, Types, Trees
  <2>6. CASE b # head
    BY <2>0, <2>3, <2>4, <2>6, EmptyIs, CommitTypes DEF IInv, Apart, Trail, Behind, Types, Branches
  <2> QED
    BY <2>5, <2>6
<1> QED
  BY <1>1, KeptInvariance, PTL DEF Spec, KeptPickedUp

=============================================================================
