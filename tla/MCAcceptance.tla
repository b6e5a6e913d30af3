---------------------------- MODULE MCAcceptance ----------------------------
(* A source file, a test in tests/ and the two reports. *)
EXTENDS Acceptance

MCReviewers == {"spec", "code-quality", "goal-traceability"}
MCFiles == {"src/app.ts", "tests/app.ts", "summary", "results"}

MCClassOf ==
  [f \in MCFiles |-> CASE f = "src/app.ts" -> "other"
                       [] f = "tests/app.ts" -> "test"
                       [] OTHER -> "artifact"]
\* rc/app.ts, ests/app.ts and pipeline/...
MCClassOfShorn == [f \in MCFiles |-> "other"]
=============================================================================
