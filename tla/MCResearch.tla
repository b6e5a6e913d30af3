----------------------------- MODULE MCResearch -----------------------------
(* Question numbers and remarks of the model; the bounds are in the          *)
(* configurations.                                                           *)
EXTENDS Research

MCQuestions == 1..2

Remark(section, name, verdict) == [in |-> section, as |-> name, says |-> verdict]

\* One per reason to be recognised or not, and one that only mentions a question.
MCRemarks ==
  {Remark("Artifact Findings", "qN.md", "FAIL"),
   Remark("Artifact Findings", "q-NN.md", "FAIL"),
   Remark("Per-Question Issues", "qN", "FAIL"),
   Remark("Per-Question Issues", "qN", "PASS"),
   Remark("elsewhere", "qN.md", "FAIL")}
=============================================================================
