----------------------------- MODULE MCPipeline -----------------------------
(* Instances of Pipeline for TLC. *)
EXTENDS Pipeline

(* The backward loops the stages ask for today: implement through the       *)
(* integration checker (classifyIntegrationLoop), replan through its writer.*)
StageRequests ==
    [stage \in StageName |->
        CASE stage = "implement" -> {"LOOP_PLAN", "LOOP_STRUCTURE", "LOOP_DESIGN"}
          [] stage = "replan"    -> {"LOOP_GOALS", "LOOP_DESIGN"}
          [] OTHER               -> {}]

(* The loop also handles DEFER_REPLAN, which the port admits and no stage   *)
(* sends today: here implement may send it.                                 *)
PortRequests ==
    [StageRequests EXCEPT !["implement"] = @ \cup {"DEFER_REPLAN"}]
=============================================================================
