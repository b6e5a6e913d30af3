--------------------------- MODULE MCCheckpoints ---------------------------
(* Two stages, one turn, two git commands that fail and one resume.         *)
EXTENDS Checkpoints

=============================================================================
