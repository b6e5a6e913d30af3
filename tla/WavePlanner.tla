------------------------------ MODULE WavePlanner ------------------------------
(***************************************************************************)
(* buildWaves: the tasks of a phase are grouped into waves.  A wave is     *)
(* the set of remaining tasks all of whose dependencies are in earlier     *)
(* waves; when there is none, what remains becomes one last wave.          *)
(***************************************************************************)
EXTENDS Integers, Sequences, FiniteSets

CONSTANTS TaskSpec,   \* the spec files of the phase, numbered in the order they are listed
          SpecLists   \* what they may say: their task ids and their dependencies

ASSUME SpecAssumption ==
    /\ TaskSpec \subseteq Nat
    /\ SpecLists \subseteq [id : [TaskSpec -> Nat], deps : [TaskSpec -> SUBSET Nat]]

VARIABLES specs,      \* the listed specs: [id |-> ..., deps |-> ...]
          remaining,  \* the specs in no wave yet
          completed,  \* the ids that waves have completed
          waves       \* the waves, each a set of specs

planVars == <<specs, remaining, completed, waves>>

id(s) == specs.id[s]

deps(s) == specs.deps[s]

(* The map is keyed by id: of two specs with one id the later one stays. *)
Survivors == {s \in TaskSpec : \A t \in TaskSpec : id(t) = id(s) => t <= s}

Ready == {s \in remaining : deps(s) \subseteq completed}

PlanInit ==
    /\ specs \in SpecLists
    /\ remaining = Survivors
    /\ completed = {}
    /\ waves = <<>>

PlanWave ==
    /\ Ready # {}
    /\ waves' = Append(waves, Ready)
    /\ completed' = completed \cup {id(s) : s \in Ready}
    /\ remaining' = remaining \ Ready
    /\ UNCHANGED specs

(* Mutant: the loop ends without the rest. *)
DumpRestForgets ==
    /\ remaining # {}
    /\ Ready = {}
    /\ remaining' = {}
    /\ UNCHANGED <<specs, completed, waves>>

(* Circular or unresolvable dependencies: the loop ends with one last wave. *)
DumpRest ==
    /\ remaining # {}
    /\ Ready = {}
    /\ waves' = Append(waves, remaining)
    /\ remaining' = {}
    /\ UNCHANGED <<specs, completed>>

Planned == remaining = {} /\ UNCHANGED planVars

PlanNext == PlanWave \/ DumpRest \/ Planned

PlanSpec == PlanInit /\ [][PlanNext]_planVars
-----------------------------------------------------------------------------
PlanTypeOK ==
    /\ specs \in SpecLists
    /\ remaining \subseteq TaskSpec
    /\ completed \subseteq {id(s) : s \in TaskSpec}
    /\ waves \in Seq(SUBSET TaskSpec)

(* The plan writer lists only tasks with a lower number as dependencies; here *)
(* they are also of this phase.                                             *)
PlanWriterRule ==
    \A s \in Survivors : \A d \in deps(s) :
        d < id(s) /\ \E t \in Survivors : id(t) = d

(* Every task that survives the map is in exactly one wave: none is run     *)
(* twice and none is forgotten (buildWaves moves tasks from the map to the  *)
(* waves and its fallback takes all the rest).                              *)
EachTaskOnce ==
    /\ remaining \cup UNION {waves[i] : i \in DOMAIN waves} = Survivors
    /\ \A i \in DOMAIN waves :
          /\ waves[i] \cap remaining = {}
          /\ \A j \in DOMAIN waves : i # j => waves[i] \cap waves[j] = {}

(* When the specs follow the plan writer's rule, a task comes in a later    *)
(* wave than each of its dependencies: the fallback never sees them.        *)
DependenciesFirst ==
    PlanWriterRule =>
        \A i \in DOMAIN waves : \A s \in waves[i] : \A d \in deps(s) :
            \E j \in 1..(i - 1) : \E t \in waves[j] : id(t) = d

(* Together: no task is lost, run twice, or run before what it needs. *)
WavesSound == EachTaskOnce /\ DependenciesFirst

(* What the documentation says of the waves, read for tasks whose           *)
(* dependencies may also be of an earlier phase: they have lower numbers,   *)
(* so nothing is circular, and a dependency in this phase comes first.      *)
SatisfiedDependenciesOnly ==
    (\A s \in TaskSpec : \A d \in deps(s) : d < id(s)) =>
        \A i \in DOMAIN waves : \A s, t \in waves[i] : id(t) \notin deps(s)
=============================================================================
