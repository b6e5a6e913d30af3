--------------------------- MODULE TaskSpecsProofs ---------------------------
(***************************************************************************)
(* Theorems about TaskSpecs for every number of tasks, phases, rounds and  *)
(* drafts: what reaches the implement stage is the current plan's.         *)
(***************************************************************************)
EXTENDS TaskSpecs, Integers, WellFoundedInduction, TLAPS

-----------------------------------------------------------------------------
(* The files of tasks/ and phases/. *)

(* A file is not there, or is of a draft since the last backward loop. *)
FileOf(from, to) == {None} \cup [draft : from..to, phase : 1..Phases]

File == FileOf(first, draft)

LEMMA FileFields ==
    ASSUME NEW from \in Nat \ {0}, NEW to \in Nat, NEW f \in FileOf(from, to)
    PROVE  /\ f.draft \in {0} \cup from..to /\ f.phase \in 0..Phases
           /\ f.phase # 0 => f # None /\ f.draft \in from..to
           /\ f # None => f.draft \in from..to /\ f.phase \in 1..Phases
           /\ f = None => f.draft = 0 /\ f.phase = 0
<1>1. CASE f = None
  BY <1>1, SpecsAssumption DEF None
<1>2. CASE f \in [draft : from..to, phase : 1..Phases]
  <2>1. f.draft \in from..to /\ f.phase \in 1..Phases
    BY <1>2
  <2> QED BY <1>1, <2>1, SpecsAssumption
<1> QED BY <1>1, <1>2 DEF FileOf

(* Another draft makes no file a stranger. *)
LEMMA FileGrows ==
    ASSUME NEW from \in Nat \ {0}, NEW to \in Nat
    PROVE  /\ FileOf(from, to) \subseteq FileOf(from, to + 1)
           /\ \A p \in 1..Phases : from <= to + 1
                 => [draft |-> to + 1, phase |-> p] \in FileOf(from, to + 1)
BY DEF FileOf

LEMMA NoneIsFile ==
    ASSUME NEW from, NEW to
    PROVE  None \in FileOf(from, to)
BY DEF FileOf

-----------------------------------------------------------------------------
(* The phases of a plan. *)

LEMMA LastPhase ==
    ASSUME NEW d \in Plans
    PROVE  /\ d \in [Tasks -> 0..Phases] /\ Last(d) \in 1..Phases
           /\ \A t \in Tasks : d[t] <= Last(d)
           /\ \A n \in 1..Last(d) : \E t \in Tasks : d[t] = n
<1>1. PICK n \in 1..Phases : {d[t] : t \in Tasks} \ {0} = 1..n
  BY DEF Plans
<1>2. d \in [Tasks -> 0..Phases] /\ Phases \in Nat
  BY SpecsAssumption DEF Plans
<1>3. /\ n \in 0..Phases /\ \E t \in Tasks : d[t] = n
      /\ \A t \in Tasks : d[t] <= n
  <2>1. n \in {d[t] : t \in Tasks}
    BY <1>1, <1>2
  <2>2. \A t \in Tasks : d[t] \in 1..n \/ d[t] = 0
    BY <1>1
  <2> QED BY <1>2, <2>1, <2>2
<1>4. /\ Last(d) \in 0..Phases /\ \E t \in Tasks : d[t] = Last(d)
      /\ \A t \in Tasks : d[t] <= Last(d)
  BY <1>3 DEF Last
<1>5. Last(d) = n
  BY <1>2, <1>3, <1>4
<1>6. \A m \in 1..n : \E t \in Tasks : d[t] = m
  BY <1>1
<1> QED BY <1>2, <1>4, <1>5, <1>6

(* The next outline is one of those left. *)
LEMMA NextIsLeft ==
    ASSUME NEW ts \in SUBSET Tasks, ts # {}
    PROVE  Next1(ts) \in ts
<1>1. ts \subseteq Nat
  BY SpecsAssumption
<1>2. PICK t \in ts : \A u \in ts : ~ (<<u, t>> \in OpToRel(<, Nat))
  BY <1>1, NatLessThanWellFounded, WFMin
<1>3. \A u \in ts : ~ (u < t)
  BY <1>1, <1>2 DEF OpToRel
<1>4. \A u \in ts : t <= u
  BY <1>1, <1>3
<1> QED BY <1>4 DEF Next1

-----------------------------------------------------------------------------
(* Where the run is, and what its files are. *)

Going == {"implement", "accept", "replan", "replanReview", "done"}

PlaceInv ==
  /\ pc \in {"plan", "planReview", "specs", "capped", "failed"} \cup Going
  /\ total \in 1..Phases /\ phase \in 1..total /\ round \in 1..Rounds
  /\ draft \in Nat /\ first \in 1..(draft + 1)
  /\ plan \in [Tasks -> 0..Phases]
  /\ pc \in {"planReview", "specs", "capped"} => plan \in Plans
  /\ pc \in {"replan", "replanReview"} => phase < total
  /\ pc = "done" => phase = total

FilesInv ==
  /\ outlines \in [Tasks -> File] /\ base \in [Tasks -> File]
  /\ dirs \in [2..Phases -> [Tasks -> File]] /\ linked \in BOOLEAN
  /\ todo \subseteq Present(outlines)
  /\ pc # "specs" => todo = {}
  /\ \A t \in Tasks : base[t] # None => outlines[t] # None

LEMMA PlaceStep ==
    ASSUME PlaceInv, [Next]_vars
    PROVE  PlaceInv'
<1> USE DEF PlaceInv
<1>0. Phases \in Nat \ {0} /\ Rounds \in Nat \ {0} /\ 1 \in 1..Phases
  BY SpecsAssumption
<1>l. plan \in Plans => Last(plan) \in 1..Phases
  BY LastPhase
<1>1. CASE UNCHANGED vars \/ Done
  <2>1. UNCHANGED <<pc, phase, total, plan, draft, first, round>>
    BY <1>1 DEF vars, Done
  <2> QED BY <2>1
<1>2. ASSUME NEW d \in Plans, WritePlan(d) PROVE PlaceInv'
  <2>1. d \in [Tasks -> 0..Phases]
    BY LastPhase
  <2> QED BY <1>0, <1>2, <2>1 DEF WritePlan, Going
<1>3. CASE PlanThrows \/ SpecFails \/ PlanPasses \/ Accepted \/ RetryPlan
  BY <1>0, <1>3, <1>l
     DEF PlanThrows, SpecFails, PlanPasses, Accepted, RetryPlan, EnsurePhaseLayout, files, Going
<1>4. ASSUME NEW pass \in BOOLEAN, ReviewPlan(pass) PROVE PlaceInv'
  BY <1>0, <1>4 DEF ReviewPlan, files, Going
<1>5. ASSUME NEW pass \in BOOLEAN, NEW wrote \in BOOLEAN, WriteSpec(wrote, pass)
      PROVE  PlaceInv'
  BY <1>0, <1>5 DEF WriteSpec, files, Going
<1>6. CASE Implement \/ Fix \/ WriteNothing
  BY <1>0, <1>6 DEF Implement, Fix, WriteNothing, files, Going
<1>7. CASE Finish
  BY <1>0, <1>7 DEF Finish, files, Going
<1>8. CASE BackwardLoop
  BY <1>0, <1>8 DEF BackwardLoop, Going
<1>9. ASSUME NEW d \in Replans, WriteReplan(d) PROVE PlaceInv'
  BY <1>0, <1>9 DEF WriteReplan, Replans, Going
<1>10. ASSUME NEW pass \in BOOLEAN, ReviewReplan(pass) PROVE PlaceInv'
  BY <1>0, <1>10 DEF ReviewReplan, files, Going
<1> QED
  BY <1>1, <1>2, <1>3, <1>4, <1>5, <1>6, <1>7, <1>8, <1>9, <1>10 DEF Next

(* The files of a draft that is added to those there are. *)
LEMMA FilesOfNextDraft ==
    ASSUME PlaceInv, FilesInv, draft' = draft + 1, first' = first
    PROVE  /\ File \subseteq File' /\ None \in File'
           /\ \A p \in 1..Phases : [draft |-> draft + 1, phase |-> p] \in File'
           /\ \A p : [draft |-> draft + 1, phase |-> p] # None
<1>1. first \in Nat \ {0} /\ first <= draft + 1 /\ draft \in Nat
  BY DEF PlaceInv
<1>2. File' = FileOf(first, draft + 1)
  BY DEF File
<1>3. None \in File'
  BY NoneIsFile DEF File
<1> QED BY <1>1, <1>2, <1>3, FileGrows DEF File, None

LEMMA FilesStep ==
    ASSUME PlaceInv, FilesInv, [Next]_vars
    PROVE  FilesInv'
<1>0. /\ outlines \in [Tasks -> File] /\ base \in [Tasks -> File]
      /\ dirs \in [2..Phases -> [Tasks -> File]] /\ linked \in BOOLEAN
      /\ todo \subseteq Present(outlines) /\ (pc # "specs" => todo = {})
      /\ \A t \in Tasks : base[t] # None => outlines[t] # None
  BY DEF FilesInv
<1>n. None \in File /\ None \in File'
  BY NoneIsFile DEF File
<1>1. ASSUME UNCHANGED <<draft, first, outlines, base, dirs>>, linked' \in BOOLEAN,
             \/ todo' = {}
             \/ todo' = Present(outlines) /\ pc' = "specs"
             \/ todo' = todo /\ (pc' = pc \/ pc # "specs")
      PROVE  FilesInv'
  <2>1. File' = File /\ Present(outlines)' = Present(outlines)
    BY <1>1 DEF File, Present
  <2> QED BY <1>0, <1>1, <2>1 DEF FilesInv
<1>2. CASE UNCHANGED vars \/ Done
  BY <1>0, <1>1, <1>2 DEF vars, Done
<1>3. ASSUME NEW d \in Plans, WritePlan(d) PROVE FilesInv'
  <2>1. /\ draft' = draft + 1 /\ first' = first /\ UNCHANGED <<base, dirs, linked, todo>>
        /\ pc = "plan" /\ pc' = "planReview"
        /\ outlines' = [t \in Tasks |-> IF d[t] # 0
                                        THEN [draft |-> draft + 1, phase |-> d[t]]
                                        ELSE outlines[t]]
    BY <1>3 DEF WritePlan
  <2>2. /\ File \subseteq File' /\ d \in [Tasks -> 0..Phases]
        /\ \A p \in 1..Phases : [draft |-> draft + 1, phase |-> p] \in File'
    BY <2>1, FilesOfNextDraft, LastPhase
  <2>3. ASSUME NEW t \in Tasks PROVE outlines'[t] \in File'
    <3>1. d[t] # 0 => d[t] \in 1..Phases
      BY <2>2, SpecsAssumption
    <3> QED BY <1>0, <2>1, <2>2, <3>1
  <2>4. outlines' \in [Tasks -> File']
    BY <2>1, <2>3
  <2>5. base' \in [Tasks -> File'] /\ dirs' \in [2..Phases -> [Tasks -> File']]
    BY <1>0, <2>1, <2>2
  <2>6. \A p : [draft |-> draft + 1, phase |-> p] # None
    BY <2>1, FilesOfNextDraft
  <2>7. \A t \in Tasks : base'[t] # None => outlines'[t] # None
    BY <1>0, <2>1, <2>6
  <2> QED BY <1>0, <2>1, <2>4, <2>5, <2>7 DEF FilesInv
<1>4. CASE PlanThrows \/ SpecFails \/ PlanPasses \/ Accepted \/ RetryPlan
  BY <1>0, <1>1, <1>4
     DEF PlanThrows, SpecFails, PlanPasses, Accepted, RetryPlan, EnsurePhaseLayout, files
<1>5. ASSUME NEW pass \in BOOLEAN, ReviewPlan(pass) PROVE FilesInv'
  BY <1>0, <1>1, <1>5 DEF ReviewPlan, files
<1>6. ASSUME NEW pass \in BOOLEAN, NEW wrote \in BOOLEAN, WriteSpec(wrote, pass)
      PROVE  FilesInv'
  <2>1. /\ UNCHANGED <<draft, first, outlines, dirs>> /\ todo' \subseteq todo
        /\ linked' \in BOOLEAN /\ (pc' = "specs" \/ todo' = {}) /\ todo # {}
        /\ base' = base \/ base' = [base EXCEPT ![Next1(todo)] = outlines[Next1(todo)]]
    BY <1>0, <1>6 DEF WriteSpec, EnsurePhaseLayout
  <2>2. Next1(todo) \in Tasks
    <3>1. todo \subseteq Tasks /\ todo # {}
      BY <1>0, <2>1 DEF Present
    <3> QED BY <3>1, NextIsLeft
  <2>3. base' \in [Tasks -> File]
    BY <1>0, <2>1, <2>2
  <2>4. File' = File /\ Present(outlines)' = Present(outlines)
    BY <2>1 DEF File, Present
  <2>5. \A t \in Tasks : base'[t] # None => outlines'[t] # None
    BY <1>0, <2>1, <2>2
  <2> QED BY <1>0, <2>1, <2>3, <2>4, <2>5 DEF FilesInv
<1>7. CASE Implement \/ Fix \/ Finish \/ WriteNothing
  BY <1>0, <1>1, <1>7 DEF Implement, Fix, Finish, WriteNothing, files
<1>8. CASE BackwardLoop
  <2>1. /\ outlines' = NoFiles /\ base' = NoFiles /\ dirs' = [p \in 2..Phases |-> NoFiles]
        /\ linked' = FALSE /\ todo' = todo /\ pc # "specs"
    BY <1>8 DEF BackwardLoop, Archived
  <2>3. todo' = {}
    BY <1>0, <2>1
  <2>2. NoFiles \in [Tasks -> File'] /\ \A t \in Tasks : NoFiles[t] = None
    BY <1>n DEF NoFiles
  <2> QED BY <2>1, <2>2, <2>3 DEF FilesInv
<1>9. ASSUME NEW d \in Replans, WriteReplan(d) PROVE FilesInv'
  <2>1. /\ draft' = draft + 1 /\ first' = first /\ UNCHANGED <<outlines, base, linked, todo>>
        /\ pc = "replan" /\ pc' = "replanReview" /\ dirs' = WriteNext(d)
    BY <1>9 DEF WriteReplan
  <2>2. /\ File \subseteq File'
        /\ \A p \in 1..Phases : [draft |-> draft + 1, phase |-> p] \in File'
    BY <2>1, FilesOfNextDraft
  <2>3. phase + 1 \in 2..Phases
    BY <2>1, SpecsAssumption DEF PlaceInv
  <2>4. [t \in Tasks |-> IF d[t] = phase + 1
                         THEN [draft |-> draft + 1, phase |-> phase + 1]
                         ELSE dirs[phase + 1][t]] \in [Tasks -> File']
    BY <1>0, <2>2, <2>3
  <2>5. dirs' \in [2..Phases -> [Tasks -> File']]
    BY <1>0, <2>1, <2>2, <2>3, <2>4 DEF WriteNext
  <2>6. outlines' \in [Tasks -> File'] /\ base' \in [Tasks -> File']
    BY <1>0, <2>1, <2>2
  <2>7. Present(outlines)' = Present(outlines)
    BY <2>1 DEF Present
  <2> QED BY <1>0, <2>1, <2>5, <2>6, <2>7 DEF FilesInv
<1>10. ASSUME NEW pass \in BOOLEAN, ReviewReplan(pass) PROVE FilesInv'
  BY <1>0, <1>1, <1>10 DEF ReviewReplan, files
<1> QED
  BY <1>2, <1>3, <1>4, <1>5, <1>6, <1>7, <1>8, <1>9, <1>10 DEF Next

-----------------------------------------------------------------------------
(* What is specified is what is planned. *)

(* The specs that implement takes for the phase name each of its tasks, and  *)
(* another only where a newer one is beside it.                              *)
Good(p) ==
  \A t \in Tasks :
    /\ plan[t] = p => Source(p)[t].phase = p
    /\ plan[t] # p /\ Source(p)[t].phase = p =>
         \E u \in Tasks : Source(p)[u].draft > Source(p)[t].draft

(* What has been specified: the first phase, the one that is implemented,    *)
(* the next one while it is replanned, unless its replan wrote nothing yet.  *)
Settled(q) ==
  \/ q = 1
  \/ /\ q \notin blank
     /\ \/ pc \in {"implement", "accept"} /\ q = phase
        \/ pc \in {"replan", "replanReview"} /\ q = phase + 1

OutlinesTell ==
  pc \in {"planReview", "specs"} =>
    \A t \in Tasks :
      IF plan[t] # 0 THEN outlines[t] = [draft |-> draft, phase |-> plan[t]]
      ELSE outlines[t].draft < draft

SpecsFollow ==
  pc = "specs" => \A t \in Present(outlines) \ todo : base[t] = outlines[t]

SpecsAim ==
  pc \in Going /\ ~soft => \A q \in 1..Phases : Settled(q) => Good(q)

(* The tasks of the phases behind were run. *)
RanInv ==
  pc \in Going /\ ~soft =>
    \A t \in Tasks :
      /\ plan[t] \in 1..phase /\ plan[t] \notin blank
      /\ plan[t] = phase => pc # "implement"
      => t \in ran

LoadedInv ==
  /\ \A s \in loaded : s.task \in Tasks /\ s.draft \in 1..draft
  /\ PlannedTasksRun /\ NoDiscardedSpec /\ ReplannedSpecRuns /\ OnlyLeftoversBesides

SpecsInv ==
  /\ PlaceInv /\ FilesInv
  /\ OutlinesTell /\ SpecsFollow /\ SpecsAim
  /\ RanInv /\ LoadedInv

LEMMA SourceFiles ==
    ASSUME FilesInv, NEW q \in 1..Phases
    PROVE  Source(q) \in [Tasks -> File]
<1>1. NoFiles \in [Tasks -> File]
  BY NoneIsFile DEF NoFiles, File
<1>2. q # 1 => q \in 2..Phases
  BY SpecsAssumption
<1>3. Dir(q) \in [Tasks -> File]
  BY <1>1, <1>2 DEF Dir, FilesInv
<1> QED BY <1>3 DEF Source, FilesInv

LEMMA GoodStays ==
    ASSUME NEW q, Good(q), UNCHANGED <<base, dirs, linked>>,
           \A t \in Tasks : plan'[t] = q <=> plan[t] = q
    PROVE  Good(q)'
<1>1. Source(q)' = Source(q)
  BY DEF Source, Dir, Present
<1> QED BY <1>1 DEF Good

LEMMA OutlineDrafts ==
    ASSUME PlaceInv, FilesInv
    PROVE  \A t \in Tasks : outlines[t].draft <= draft /\ outlines[t].draft \in Nat
<1> SUFFICES ASSUME NEW t \in Tasks
             PROVE  outlines[t].draft <= draft /\ outlines[t].draft \in Nat
  OBVIOUS
<1>1. first \in Nat \ {0} /\ draft \in Nat
  BY DEF PlaceInv
<1>2. outlines[t] \in FileOf(first, draft)
  BY DEF FilesInv, File
<1>3. outlines[t].draft \in {0} \cup first..draft
  BY <1>1, <1>2, FileFields
<1> QED BY <1>1, <1>3

LEMMA OutlinesStep ==
    ASSUME PlaceInv, FilesInv, OutlinesTell, [Next]_vars
    PROVE  OutlinesTell'
<1> USE DEF OutlinesTell
<1>1. CASE UNCHANGED vars \/ Done
  BY <1>1 DEF vars, Done
<1>2. ASSUME NEW d \in Plans, WritePlan(d) PROVE OutlinesTell'
  <2>1. /\ draft' = draft + 1 /\ plan' = d
        /\ outlines' = [t \in Tasks |-> IF d[t] # 0
                                        THEN [draft |-> draft + 1, phase |-> d[t]]
                                        ELSE outlines[t]]
    BY <1>2 DEF WritePlan
  <2>2. \A t \in Tasks : outlines[t].draft <= draft /\ outlines[t].draft \in Nat
    BY OutlineDrafts
  <2>3. draft \in Nat
    BY DEF PlaceInv
  <2> QED BY <2>1, <2>2, <2>3
<1>3. ASSUME NEW pass \in BOOLEAN, ReviewPlan(pass) PROVE OutlinesTell'
  BY <1>3 DEF ReviewPlan, files
<1>4. ASSUME NEW pass \in BOOLEAN, NEW wrote \in BOOLEAN, WriteSpec(wrote, pass)
      PROVE  OutlinesTell'
  BY <1>4 DEF WriteSpec
<1>5. CASE PlanThrows \/ SpecFails \/ PlanPasses \/ Accepted \/ RetryPlan
  BY <1>5 DEF PlanThrows, SpecFails, PlanPasses, Accepted, RetryPlan
<1>6. CASE Implement \/ Fix \/ Finish \/ BackwardLoop \/ WriteNothing
  BY <1>6 DEF Implement, Fix, Finish, BackwardLoop, WriteNothing
<1>7. ASSUME NEW d \in Replans, WriteReplan(d) PROVE OutlinesTell'
  BY <1>7 DEF WriteReplan
<1>8. ASSUME NEW pass \in BOOLEAN, ReviewReplan(pass) PROVE OutlinesTell'
  BY <1>8 DEF ReviewReplan
<1> QED
  BY <1>1, <1>2, <1>3, <1>4, <1>5, <1>6, <1>7, <1>8 DEF Next

LEMMA SpecsFollowStep ==
    ASSUME PlaceInv, FilesInv, SpecsFollow, [Next]_vars
    PROVE  SpecsFollow'
<1>1. CASE UNCHANGED vars \/ Done
  <2>1. UNCHANGED <<pc, outlines, todo, base>>
    BY <1>1 DEF vars, Done
  <2> QED BY <2>1 DEF SpecsFollow, Present
<1>2. ASSUME NEW pass \in BOOLEAN, ReviewPlan(pass) PROVE SpecsFollow'
  <2>1. pc' # "specs" \/ todo' = Present(outlines)
    BY <1>2 DEF ReviewPlan
  <2>2. Present(outlines)' = Present(outlines)
    BY <1>2 DEF ReviewPlan, files, Present
  <2> QED BY <2>1, <2>2 DEF SpecsFollow
<1>3. ASSUME NEW pass \in BOOLEAN, NEW wrote \in BOOLEAN, WriteSpec(wrote, pass)
      PROVE  SpecsFollow'
  <2> DEFINE t == Next1(todo)
             new == IF wrote THEN [base EXCEPT ![t] = outlines[t]] ELSE base
  <2>1. /\ pc = "specs" /\ todo # {} /\ outlines' = outlines /\ base' = new
    BY <1>3 DEF WriteSpec
  <2>p. pass => new[t] = outlines[t]
    BY <1>3 DEF WriteSpec
  <2>r. pc' = "specs" => todo' = todo \/ (pass /\ todo' = todo \ {t})
    BY <1>3 DEF WriteSpec
  <2>2. todo \subseteq Tasks
    BY DEF FilesInv, Present
  <2>3. t \in todo
    BY <2>1, <2>2, NextIsLeft
  <2>4. \A u \in Tasks : u # t => new[u] = base[u]
    BY <2>2, <2>3 DEF FilesInv
  <2>5. Present(outlines)' = Present(outlines) /\ Present(outlines) \subseteq Tasks
    BY <2>1 DEF Present
  <2> HIDE DEF t, new
  <2>6. \A u \in Present(outlines) \ todo : base[u] = outlines[u]
    BY <2>1 DEF SpecsFollow
  <2>7. CASE pc' = "specs"
    <3>1. ASSUME NEW u \in Present(outlines) \ todo' PROVE base'[u] = outlines'[u]
      <4>1. CASE u = t
        BY <2>1, <2>p, <2>r, <2>3, <2>7, <3>1, <4>1
      <4>2. CASE u # t
        BY <2>1, <2>r, <2>4, <2>5, <2>6, <2>7, <3>1, <4>2
      <4> QED BY <4>1, <4>2
    <3> QED BY <2>5, <3>1 DEF SpecsFollow
  <2> QED BY <2>7 DEF SpecsFollow
<1>4. ASSUME NEW d, WritePlan(d) \/ WriteReplan(d) PROVE SpecsFollow'
  BY <1>4 DEF WritePlan, WriteReplan, SpecsFollow
<1>5. CASE PlanThrows \/ SpecFails \/ PlanPasses \/ Accepted \/ RetryPlan
  BY <1>5 DEF PlanThrows, SpecFails, PlanPasses, Accepted, RetryPlan, SpecsFollow
<1>6. CASE Implement \/ Fix \/ Finish \/ BackwardLoop \/ WriteNothing
  BY <1>6 DEF Implement, Fix, Finish, BackwardLoop, WriteNothing, SpecsFollow
<1>7. ASSUME NEW pass \in BOOLEAN, ReviewReplan(pass) PROVE SpecsFollow'
  BY <1>7 DEF ReviewReplan, SpecsFollow
<1> QED
  BY <1>1, <1>2, <1>3, <1>4, <1>5, <1>6, <1>7 DEF Next

LEMMA SpecsAimStep ==
    ASSUME PlaceInv, FilesInv, OutlinesTell, SpecsFollow, SpecsAim, [Next]_vars
    PROVE  SpecsAim'
<1>0. ASSUME UNCHANGED <<base, dirs, linked, plan, soft>>, pc \in Going,
             \A q \in 1..Phases : Settled(q)' => Settled(q)
      PROVE  SpecsAim'
  <2> SUFFICES ASSUME ~soft', NEW q \in 1..Phases, Settled(q)'
               PROVE  Good(q)'
    BY DEF SpecsAim
  <2>1. Good(q)
    BY <1>0 DEF SpecsAim
  <2> QED BY <1>0, <2>1, GoodStays
<1>1. CASE UNCHANGED vars \/ Done
  <2>1. UNCHANGED <<pc, phase, plan, base, dirs, linked, soft, blank>>
    BY <1>1 DEF vars, Done
  <2>2. CASE pc \in Going
    BY <1>0, <2>1, <2>2 DEF Settled
  <2>3. CASE pc \notin Going
    BY <2>1, <2>3 DEF SpecsAim
  <2> QED BY <2>2, <2>3
<1>2. CASE PlanPasses
  <2>1. /\ pc = "specs" /\ todo = {} /\ linked' = TRUE /\ phase' = 1 /\ pc' = "implement"
        /\ UNCHANGED <<plan, outlines, base, dirs>>
    BY <1>2 DEF PlanPasses, EnsurePhaseLayout
  <2>2. ASSUME NEW t \in Tasks, plan[t] = 1 PROVE base[t].phase = 1
    <3>o. outlines[t] = [draft |-> draft, phase |-> plan[t]]
      BY <2>1, <2>2 DEF OutlinesTell
    <3>1. outlines[t].phase = 1
      BY <2>2, <3>o
    <3>2. outlines[t] # None
      BY <3>1 DEF None
    <3>3. base[t] = outlines[t]
      BY <2>1, <3>2 DEF SpecsFollow, Present
    <3> QED BY <3>1, <3>3
  <2>3. Source(1)' = base
    <3>1. Source(1)' = base'
      BY DEF Source, Dir, NoFiles, Present
    <3> QED BY <2>1, <3>1
  <2>l. ASSUME NEW t \in Tasks, plan[t] # 1, base[t].phase = 1
        PROVE  \E u \in Tasks : base[u].draft > base[t].draft
    <3>1. base[t] # None /\ outlines[t] # None
      BY <2>l DEF None, FilesInv
    <3>2. base[t] = outlines[t]
      BY <2>1, <3>1 DEF SpecsFollow, Present
    <3>3. plan[t] = 0
      <4>1. SUFFICES ASSUME plan[t] # 0 PROVE FALSE
        OBVIOUS
      <4>2. outlines[t] = [draft |-> draft, phase |-> plan[t]]
        BY <2>1, <4>1 DEF OutlinesTell
      <4>3. outlines[t].phase = plan[t]
        BY <4>2
      <4> QED BY <2>l, <3>2, <4>3
    <3>4. outlines[t].draft < draft
      BY <2>1, <3>3 DEF OutlinesTell
    <3>5. PICK u \in Tasks : plan[u] = 1
      <4>1. plan \in Plans
        BY <2>1 DEF PlaceInv
      <4>2. 1 \in 1..Last(plan)
        BY <4>1, LastPhase
      <4> QED BY <4>1, <4>2, LastPhase
    <3>6. outlines[u] = [draft |-> draft, phase |-> 1]
      BY <2>1, <3>5 DEF OutlinesTell
    <3>7. outlines[u] # None
      BY <3>6 DEF None
    <3>8. base[u] = outlines[u]
      BY <2>1, <3>7 DEF SpecsFollow, Present
    <3>9. base[u].draft = draft /\ outlines[t].draft \in Nat /\ draft \in Nat
      BY <3>6, <3>8, OutlineDrafts DEF PlaceInv
    <3> QED BY <3>2, <3>4, <3>9
  <2>4. Good(1)'
    BY <2>1, <2>2, <2>3, <2>l DEF Good
  <2>5. \A q : Settled(q)' => q = 1
    BY <2>1 DEF Settled
  <2> QED BY <2>4, <2>5 DEF SpecsAim
<1>3. CASE Accepted
  BY <1>3 DEF Accepted, SpecsAim
<1>4. CASE PlanThrows \/ SpecFails \/ RetryPlan
  BY <1>4 DEF PlanThrows, SpecFails, RetryPlan, SpecsAim, Going
<1>5. ASSUME NEW pass \in BOOLEAN, ReviewPlan(pass) PROVE SpecsAim'
  BY <1>5 DEF ReviewPlan, SpecsAim, Going
<1>6. ASSUME NEW pass \in BOOLEAN, NEW wrote \in BOOLEAN, WriteSpec(wrote, pass)
      PROVE  SpecsAim'
  BY <1>6 DEF WriteSpec, SpecsAim, Going
<1>7. ASSUME NEW d \in Plans, WritePlan(d) PROVE SpecsAim'
  BY <1>7 DEF WritePlan, SpecsAim, Going
<1>8. CASE BackwardLoop
  BY <1>8 DEF BackwardLoop, SpecsAim, Going
<1>9. CASE Implement
  <2>1. /\ UNCHANGED <<base, dirs, linked, plan, soft, phase, blank>>
        /\ pc = "implement" /\ pc' = "accept"
    BY <1>9 DEF Implement, files
  <2> QED BY <1>0, <2>1 DEF Settled, Going
<1>10. CASE Fix
  <2>1. /\ UNCHANGED <<base, dirs, linked, plan, soft, blank>>
        /\ pc = "accept" /\ pc' = "implement" /\ phase' \in {phase, 1}
    BY <1>10 DEF Fix, files
  <2> QED BY <1>0, <2>1 DEF Settled, Going
<1>11. CASE Finish
  <2>1. /\ UNCHANGED <<base, dirs, linked, plan, soft, phase>> /\ pc = "accept"
        /\ \/ pc' = "replan" /\ blank' = blank \cup {phase + 1}
           \/ pc' = "done" /\ blank' = blank
    BY <1>11 DEF Finish, files
  <2> QED BY <1>0, <2>1 DEF Settled, Going
<1>12. CASE WriteNothing
  <2>1. /\ UNCHANGED <<base, dirs, linked, plan, soft, phase, blank>>
        /\ pc = "replan" /\ pc' = "replanReview"
    BY <1>12 DEF WriteNothing, files
  <2> QED BY <1>0, <2>1 DEF Settled, Going
<1>13. ASSUME NEW pass \in BOOLEAN, ReviewReplan(pass) PROVE SpecsAim'
  <2>1. /\ UNCHANGED <<base, dirs, linked, plan, soft, blank>>
        /\ pc = "replanReview"
        /\ \/ pc' = "implement" /\ phase' = phase + 1
           \/ pc' = "replan" /\ phase' = phase
    BY <1>13 DEF ReviewReplan, files
  <2> QED BY <1>0, <2>1 DEF Settled, Going
<1>14. ASSUME NEW d \in Replans, WriteReplan(d) PROVE SpecsAim'
  <2>1. /\ pc = "replan" /\ pc' = "replanReview" /\ plan' = d /\ dirs' = WriteNext(d)
        /\ UNCHANGED <<base, linked, soft, phase>>
        /\ blank' = IF \E t \in Tasks : d[t] = phase + 1
                    THEN blank \ {phase + 1} ELSE blank \cup {phase + 1}
    BY <1>14 DEF WriteReplan
  <2>2. \A t \in Tasks : plan[t] \in 1..phase \/ d[t] \in 1..phase => d[t] = plan[t]
    BY <1>14 DEF WriteReplan, Keeps
  <2>3. phase \in 1..Phases /\ phase + 1 \in 2..Phases /\ phase + 1 \in 1..total
    BY <2>1, SpecsAssumption DEF PlaceInv
  <2> SUFFICES ASSUME ~soft', NEW q \in 1..Phases, Settled(q)'
               PROVE  Good(q)'
    BY DEF SpecsAim
  <2>4. CASE q = 1
    <3>1. Good(1)
      BY <2>1, <2>4 DEF SpecsAim, Going, Settled
    <3>2. Source(1)' = base' /\ Source(1) = base
      BY DEF Source, Dir, NoFiles, Present
    <3>3. \A t \in Tasks : d[t] = 1 <=> plan[t] = 1
      BY <2>2, <2>3
    <3>4. Good(1)'
      BY <2>1, <3>1, <3>2, <3>3 DEF Good
    <3> QED BY <2>4, <3>4
  <2>5. CASE q # 1
    <3>1. q = phase + 1
      BY <2>1, <2>5 DEF Settled
    <3> DEFINE dir == [t \in Tasks |->
                         IF d[t] = phase + 1
                         THEN [draft |-> draft + 1, phase |-> phase + 1]
                         ELSE dirs[phase + 1][t]]
    <3>2. dirs'[q] = dir
      BY <2>1, <2>3, <3>1 DEF WriteNext, FilesInv
    <3>3. \A t \in Tasks :
            d[t] = q => dir[t].phase = q /\ dir[t] # None /\ dir[t].draft = draft + 1
      BY <2>3, <3>1 DEF None
    <3>4. \E t \in Tasks : d[t] = q
      BY <2>1, <2>5, <3>1 DEF Settled
    <3>o. \A t \in Tasks : d[t] # q => dir[t].draft < draft + 1
      <4> SUFFICES ASSUME NEW t \in Tasks, d[t] # q PROVE dir[t].draft < draft + 1
        OBVIOUS
      <4>1. dir[t] = dirs[phase + 1][t] /\ first \in Nat \ {0} /\ draft \in Nat
        BY <3>1 DEF PlaceInv
      <4>2. dir[t] \in FileOf(first, draft)
        BY <2>3, <4>1 DEF FilesInv, File
      <4> HIDE DEF dir
      <4>3. dir[t].draft \in {0} \cup first..draft
        BY <4>1, <4>2, FileFields
      <4> QED BY <4>1, <4>3
    <3> HIDE DEF dir
    <3>5. Dir(q)' = dir
      BY <2>5, <3>2 DEF Dir
    <3>6. Present(dir) # {}
      BY <3>3, <3>4 DEF Present
    <3>7. Source(q)' = dir
      <4>1. Present(Dir(q))' = Present(dir)
        BY <3>5 DEF Present
      <4> QED BY <3>5, <3>6, <4>1 DEF Source
    <3> QED BY <2>1, <3>3, <3>4, <3>o, <3>7 DEF Good
  <2> QED BY <2>4, <2>5
<1> QED
  BY <1>1, <1>2, <1>3, <1>4, <1>5, <1>6, <1>7, <1>8, <1>9, <1>10, <1>11, <1>12,
     <1>13, <1>14 DEF Next

LEMMA RanStep ==
    ASSUME PlaceInv, FilesInv, SpecsAim, RanInv, [Next]_vars
    PROVE  RanInv'
<1>p. /\ plan \in [Tasks -> 0..Phases] /\ total \in 1..Phases /\ phase \in 1..total
      /\ Phases \in Nat
  BY SpecsAssumption DEF PlaceInv
<1>1. CASE UNCHANGED vars \/ Done
  <2>1. UNCHANGED <<pc, phase, plan, soft, blank, ran>>
    BY <1>1 DEF vars, Done
  <2> QED BY <2>1 DEF RanInv
<1>2. CASE PlanPasses \/ Accepted
  <2>1. phase' = 1 /\ pc' = "implement"
    BY <1>2 DEF PlanPasses, Accepted
  <2> QED BY <2>1 DEF RanInv
<1>3. CASE PlanThrows \/ SpecFails \/ RetryPlan
  BY <1>3 DEF PlanThrows, SpecFails, RetryPlan, RanInv, Going
<1>4. ASSUME NEW pass \in BOOLEAN, ReviewPlan(pass) PROVE RanInv'
  BY <1>4 DEF ReviewPlan, RanInv, Going
<1>5. ASSUME NEW pass \in BOOLEAN, NEW wrote \in BOOLEAN, WriteSpec(wrote, pass)
      PROVE  RanInv'
  BY <1>5 DEF WriteSpec, RanInv, Going
<1>6. ASSUME NEW d \in Plans, WritePlan(d) PROVE RanInv'
  BY <1>6 DEF WritePlan, RanInv, Going
<1>7. CASE BackwardLoop
  BY <1>7 DEF BackwardLoop, RanInv, Going
<1>8. CASE Implement
  <2>1. /\ UNCHANGED <<plan, soft, phase, blank>> /\ pc = "implement" /\ pc' = "accept"
        /\ ran' = ran \cup LoadPhaseTasks(phase)
    BY <1>8 DEF Implement
  <2>2. ~soft /\ phase \notin blank => Good(phase)
    BY <1>p, <2>1 DEF SpecsAim, Settled, Going
  <2>3. ~soft /\ phase \notin blank => In(phase) \subseteq LoadPhaseTasks(phase)
    BY <2>2 DEF Good, In, LoadPhaseTasks
  <2> QED BY <1>p, <2>1, <2>3 DEF RanInv, In, Going
<1>9. CASE Fix
  <2>1. /\ UNCHANGED <<plan, soft, blank, ran>> /\ pc = "accept" /\ pc' = "implement"
        /\ phase' \in {phase, 1}
    BY <1>9 DEF Fix
  <2> QED BY <1>p, <2>1 DEF RanInv, Going
<1>10. CASE Finish \/ WriteNothing
  <2>1. /\ UNCHANGED <<plan, soft, phase, ran>> /\ blank \subseteq blank'
        /\ pc \in {"accept", "replan"}
    BY <1>10 DEF Finish, WriteNothing
  <2> QED BY <1>p, <2>1 DEF RanInv, Going
<1>11. ASSUME NEW pass \in BOOLEAN, ReviewReplan(pass) PROVE RanInv'
  <2>1. /\ UNCHANGED <<plan, soft, blank, ran>> /\ pc = "replanReview"
        /\ \/ pc' = "implement" /\ phase' = phase + 1
           \/ pc' = "replan" /\ phase' = phase
    BY <1>11 DEF ReviewReplan
  <2> QED BY <1>p, <2>1 DEF RanInv, Going
<1>12. ASSUME NEW d \in Replans, WriteReplan(d) PROVE RanInv'
  <2>1. /\ pc = "replan" /\ pc' = "replanReview" /\ plan' = d
        /\ blank \ {phase + 1} \subseteq blank'
        /\ UNCHANGED <<soft, phase, ran>>
    BY <1>12 DEF WriteReplan
  <2>2. \A t \in Tasks : d[t] \in 1..phase => d[t] = plan[t]
    BY <1>12 DEF WriteReplan, Keeps
  <2>3. \A t \in Tasks : d[t] \in 1..phase /\ d[t] \notin blank' => plan[t] \notin blank
    BY <1>p, <2>1, <2>2
  <2> QED BY <1>p, <2>1, <2>2, <2>3 DEF RanInv, Going
<1> QED
  BY <1>1, <1>2, <1>3, <1>4, <1>5, <1>6, <1>7, <1>8, <1>9, <1>10, <1>11, <1>12 DEF Next

-----------------------------------------------------------------------------
(* What implement runs. *)

LEMMA LoadedStep ==
    ASSUME PlaceInv, FilesInv, SpecsAim, LoadedInv, [Next]_vars
    PROVE  LoadedInv'
<1>p. draft \in Nat /\ first \in 1..(draft + 1) /\ phase \in 1..Phases
  BY SpecsAssumption DEF PlaceInv
<1>q. \A s \in loaded : s.task \in Tasks /\ s.draft \in 1..draft
  BY DEF LoadedInv
<1>0. ASSUME UNCHANGED loaded, draft' \in {draft, draft + 1}, pc' # "accept"
      PROVE  LoadedInv'
  <2>1. \A s \in loaded' : s.task \in Tasks /\ s.draft \in 1..draft'
    BY <1>p, <1>q, <1>0
  <2> QED BY <1>0, <2>1 DEF LoadedInv, PlannedTasksRun, NoDiscardedSpec, ReplannedSpecRuns,
                            OnlyLeftoversBesides
<1>1. CASE UNCHANGED vars \/ Done
  <2>1. /\ UNCHANGED <<pc, phase, plan, draft, first, dirs, loaded, soft, blank>>
        /\ UNCHANGED <<base, linked>>
    BY <1>1 DEF vars, Done, files
  <2>2. Source(phase)' = Source(phase)
    BY <2>1 DEF Source, Dir, Present
  <2> QED BY <2>1, <2>2 DEF LoadedInv, PlannedTasksRun, NoDiscardedSpec, ReplannedSpecRuns,
                            OnlyLeftoversBesides, In, Loaded
<1>2. CASE PlanPasses \/ Accepted \/ PlanThrows \/ SpecFails \/ RetryPlan
  BY <1>0, <1>2 DEF PlanPasses, Accepted, PlanThrows, SpecFails, RetryPlan
<1>3. ASSUME NEW pass \in BOOLEAN, ReviewPlan(pass) \/ ReviewReplan(pass)
      PROVE  LoadedInv'
  BY <1>0, <1>3 DEF ReviewPlan, ReviewReplan
<1>4. ASSUME NEW pass \in BOOLEAN, NEW wrote \in BOOLEAN, WriteSpec(wrote, pass)
      PROVE  LoadedInv'
  <2>1. UNCHANGED <<loaded, draft>> /\ pc' # "accept"
    BY <1>4 DEF WriteSpec
  <2> QED BY <1>0, <2>1
<1>5. ASSUME NEW d, WritePlan(d) \/ WriteReplan(d) PROVE LoadedInv'
  <2>1. loaded' = loaded /\ draft' = draft + 1 /\ pc' # "accept"
    BY <1>5 DEF WritePlan, WriteReplan
  <2> QED BY <1>0, <2>1
<1>6. CASE Fix \/ Finish \/ BackwardLoop \/ WriteNothing
  <2>1. UNCHANGED <<loaded, draft>> /\ pc' # "accept"
    BY <1>6 DEF Fix, Finish, BackwardLoop, WriteNothing
  <2> QED BY <1>0, <2>1
<1>7. CASE Implement
  <2> DEFINE source == Source(phase)
             tasks == LoadPhaseTasks(phase)
  <2>1. /\ UNCHANGED <<plan, soft, phase, blank, dirs, draft, first>>
        /\ pc = "implement" /\ pc' = "accept"
        /\ loaded' = {[task |-> t, draft |-> source[t].draft] : t \in tasks}
    BY <1>7 DEF Implement, files
  <2>u. UNCHANGED <<base, dirs, linked, phase>>
    BY <1>7 DEF Implement, files
  <2>2. source \in [Tasks -> File]
    BY <1>p, SourceFiles
  <2>3. \A t \in tasks : t \in Tasks /\ source[t].phase = phase
    BY DEF LoadPhaseTasks
  <2>4. ~soft /\ phase \notin blank => In(phase) \subseteq tasks
    <3>1. ~soft /\ phase \notin blank => Good(phase)
      BY <1>p, <2>1 DEF SpecsAim, Settled, Going
    <3> QED BY <3>1 DEF Good, In, LoadPhaseTasks
  <2>l. ~soft /\ phase \notin blank =>
          \A t \in tasks : plan[t] # phase => \E u \in Tasks : source[u].draft > source[t].draft
    <3>1. ~soft /\ phase \notin blank => Good(phase)
      BY <1>p, <2>1 DEF SpecsAim, Settled, Going
    <3> QED BY <3>1 DEF Good, LoadPhaseTasks
  <2>s. Source(phase)' = source
    BY <2>u DEF Source, Dir, Present
  <2>5. phase > 1 => \A t \in Tasks : source[t].draft >= dirs[phase][t].draft
    <3>1. SUFFICES ASSUME phase > 1, NEW t \in Tasks
                   PROVE  source[t].draft >= dirs[phase][t].draft
      OBVIOUS
    <3>2. Dir(phase) = dirs[phase]
      BY <3>1 DEF Dir
    <3>3. source[t].draft \in Nat
      <4>1. source[t] \in FileOf(first, draft)
        BY <2>2 DEF File
      <4>2. source[t].draft \in {0} \cup first..draft
        BY <1>p, <4>1, FileFields
      <4> QED BY <1>p, <4>2
    <3>4. CASE Present(Dir(phase)) # {}
      BY <3>2, <3>3, <3>4 DEF Source
    <3>5. CASE Present(Dir(phase)) = {}
      <4>1. dirs[phase][t] = None
        BY <3>2, <3>5 DEF Present
      <4> QED BY <3>3, <4>1 DEF None
    <3> QED BY <3>4, <3>5
  <2> HIDE DEF source, tasks
  <2>6. \A t \in tasks : source[t].draft \in first..draft
    <3>1. SUFFICES ASSUME NEW t \in tasks PROVE source[t].draft \in first..draft
      OBVIOUS
    <3>2. source[t] \in FileOf(first, draft) /\ source[t].phase # 0
      BY <1>p, <2>2, <2>3 DEF File
    <3> QED BY <1>p, <3>2, FileFields
  <2>7. \A s \in loaded' : \E t \in tasks : s.task = t /\ s.draft = source[t].draft
    BY <2>1
  <2>8. \A t \in tasks : \E s \in loaded' : s.task = t
    <3>1. \A t \in tasks : [task |-> t, draft |-> source[t].draft] \in loaded'
      BY <2>1
    <3> QED BY <3>1
  <2>9. \A s \in loaded' : s.task \in Tasks /\ s.draft \in 1..draft' /\ s.draft >= first'
    BY <1>p, <2>1, <2>3, <2>6, <2>7
  <2>10. PlannedTasksRun'
    BY <2>1, <2>4, <2>8 DEF PlannedTasksRun, In, Loaded
  <2>11. NoDiscardedSpec'
    BY <2>9 DEF NoDiscardedSpec
  <2>12. ReplannedSpecRuns'
    BY <2>1, <2>3, <2>5, <2>7 DEF ReplannedSpecRuns
  <2>13. OnlyLeftoversBesides'
    <3>1. ASSUME ~soft, phase \notin blank, NEW s \in loaded'
          PROVE  plan[s.task] = phase \/ \E u \in Tasks : source[u].draft > s.draft
      BY <2>7, <2>l, <3>1
    <3>2. \A s \in loaded' : s.task \in Tasks
      BY <2>9
    <3>3. \A src : src = Source(phase)' => src = source
      BY <2>s
    <3> QED BY <2>1, <2>s, <3>1, <3>2 DEF OnlyLeftoversBesides, In
  <2> QED BY <2>9, <2>10, <2>11, <2>12, <2>13 DEF LoadedInv
<1> QED
  BY <1>1, <1>2, <1>3, <1>4, <1>5, <1>6, <1>7 DEF Next

-----------------------------------------------------------------------------
(* The theorems. *)

LEMMA SpecsInvInit ==
    Init => SpecsInv
<1> SUFFICES ASSUME Init PROVE SpecsInv
  OBVIOUS
<1> USE DEF Init
<1>1. PlaceInv
  BY SpecsAssumption DEF PlaceInv, Going
<1>2. FilesInv
  <2>1. NoFiles \in [Tasks -> File]
    BY NoneIsFile DEF NoFiles, File
  <2> QED BY <2>1 DEF FilesInv
<1>3. OutlinesTell /\ SpecsFollow /\ SpecsAim /\ RanInv
  BY DEF OutlinesTell, SpecsFollow, SpecsAim, RanInv, Going
<1>4. LoadedInv
  BY DEF LoadedInv, PlannedTasksRun, NoDiscardedSpec, ReplannedSpecRuns, OnlyLeftoversBesides
<1> QED BY <1>1, <1>2, <1>3, <1>4 DEF SpecsInv

LEMMA SpecsInvStep ==
    SpecsInv /\ [Next]_vars => SpecsInv'
BY PlaceStep, FilesStep, OutlinesStep, SpecsFollowStep, SpecsAimStep, RanStep,
   LoadedStep DEF SpecsInv

LEMMA SpecsInvariant ==
    Spec => []SpecsInv
BY SpecsInvInit, SpecsInvStep, PTL DEF Spec

(* What the implement stage runs for a phase holds every task that the plan  *)
(* puts into it, no spec of a plan that was given up, none older than what a *)
(* replan wrote for the phase, and of other tasks only specs beside newer    *)
(* ones: with any number of tasks, phases, review rounds and drafts          *)
(* (implement.ts:315, replan.ts:221, artifact-repository.ts:134).            *)
THEOREM ImplementRunsThePlan ==
    Spec => []SpecsSound
<1>1. SpecsInv => SpecsSound
  <2> SUFFICES ASSUME SpecsInv PROVE SpecsSound
    OBVIOUS
  <2>1. ASSUME NEW t \in Tasks PROVE outlines[t].draft \in {0} \cup first..draft
    <3>1. outlines[t] \in FileOf(first, draft)
      BY DEF SpecsInv, FilesInv, File
    <3>2. first \in Nat \ {0} /\ draft \in Nat
      BY DEF SpecsInv, PlaceInv
    <3> QED BY <3>1, <3>2, FileFields
  <2>2. SpecsTypeOK
    BY <2>1 DEF SpecsInv, PlaceInv, FilesInv, LoadedInv, SpecsTypeOK
  <2> QED BY <2>2 DEF SpecsInv, LoadedInv, SpecsSound
<1> QED BY <1>1, SpecsInvariant, PTL

(* A run that ends has run every task that its plan has in a phase of the    *)
(* run, whichever way replans moved tasks or changed the number of phases,   *)
(* but for phases whose replan wrote no task (pipeline-loop.ts:172).         *)
THEOREM DoneRanEveryTask ==
    Spec => []EveryTaskRan
<1>1. SpecsInv => EveryTaskRan
  <2> SUFFICES ASSUME SpecsInv, pc = "done", ~soft,
                      NEW t \in Tasks, plan[t] \in (1..total) \ blank
               PROVE  t \in ran
    BY DEF EveryTaskRan
  <2>1. phase = total
    BY DEF SpecsInv, PlaceInv
  <2> QED BY <2>1 DEF SpecsInv, RanInv, Going
<1> QED BY <1>1, SpecsInvariant, PTL
=============================================================================
