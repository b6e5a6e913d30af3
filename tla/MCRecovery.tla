----------------------------- MODULE MCRecovery -----------------------------
(* Instances of Recovery for TLC. *)
EXTENDS Recovery

(* The backward loops the stages ask for today, as in MCPipeline. *)
StageRequests ==
    [stage \in StageName |->
        CASE stage = "implement" -> {"LOOP_PLAN", "LOOP_STRUCTURE", "LOOP_DESIGN"}
          [] stage = "replan"    -> {"LOOP_GOALS", "LOOP_DESIGN"}
          [] OTHER               -> {}]

(* While the state file survives, nothing reads what only inference looks   *)
(* at, so states that differ in no more than that are explored once.        *)
KeptView == <<vars, stateFile, io, restarts, phaseDirs, history>>
=============================================================================
