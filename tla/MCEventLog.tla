----------------------------- MODULE MCEventLog -----------------------------
(* The pipeline and up to two sessions that record at the same time.        *)
EXTENDS EventLog

MCThree == {"pipeline", "T1", "T2"}
MCMain == "pipeline"
=============================================================================
