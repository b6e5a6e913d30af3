---------------------------- MODULE MCReviewGate ----------------------------
(* Two required branches, three rounds (more than review:fast allows), one   *)
(* retry as in the code, and two rejections by the operator.                 *)
EXTENDS ReviewGate

MCBranches == {"constraints", "non-goals"}

=============================================================================
