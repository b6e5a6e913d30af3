------------------------------ MODULE Integration ------------------------------
(***************************************************************************)
(* What the implement stage promises: tasks reach the branch one after the *)
(* other, wave by wave and in the order of their ids within a wave; a      *)
(* stage that starts again starts from the first task; a stage that says   *)
(* it is complete has integrated them all.                                 *)
(***************************************************************************)
EXTENDS Integers, Sequences

CONSTANTS Task

VARIABLES ids,         \* the ids of the tasks
          plan,        \* the waves
          integrated,  \* the tasks integrated since the stage started, in order
          complete     \* the stage has ended well

integrationVars == <<ids, plan, integrated, complete>>

Done == {integrated[i] : i \in DOMAIN integrated}

(* t is next: what comes before it in the plan is done and t is not. *)
NextInPlan(t) ==
    \E w \in DOMAIN plan :
        /\ t \in plan[w] \ Done
        /\ \A v \in 1..(w - 1) : plan[v] \subseteq Done
        /\ \A u \in plan[w] : ids[u] < ids[t] => u \in Done

IntegrationInit == integrated = <<>> /\ complete = FALSE

(* The plan is drawn up before anything is integrated. *)
DrawUp ==
    /\ integrated = <<>> /\ ~complete
    /\ plan' \in Seq(SUBSET Task)
    /\ UNCHANGED <<ids, integrated, complete>>

Integrate ==
    /\ ~complete
    /\ \E t \in Task : NextInPlan(t) /\ integrated' = Append(integrated, t)
    /\ UNCHANGED <<ids, plan, complete>>

StartOver == ~complete /\ integrated' = <<>> /\ UNCHANGED <<ids, plan, complete>>

Finish ==
    /\ ~complete
    /\ \A w \in DOMAIN plan : plan[w] \subseteq Done
    /\ complete' = TRUE
    /\ UNCHANGED <<ids, plan, integrated>>

IntegrationNext == DrawUp \/ Integrate \/ StartOver \/ Finish

IntegrationSpec == IntegrationInit /\ [][IntegrationNext]_integrationVars
=============================================================================
