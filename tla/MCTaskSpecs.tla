----------------------------- MODULE MCTaskSpecs -----------------------------
(* Task numbers of the model; the other bounds are in the configurations.    *)
EXTENDS TaskSpecs

MCTasks == 1..3
=============================================================================
