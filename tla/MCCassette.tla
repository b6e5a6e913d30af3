----------------------------- MODULE MCCassette -----------------------------
(* A stage agent with its retry, a parallel fan-out with two equal requests, *)
(* and a wave of two tasks in worktrees, one of which gets to its review.    *)
EXTENDS Cassette

Fan(tracks, ordered, apart, writes, gate) ==
  [tracks |-> tracks, ordered |-> ordered, apart |-> apart, writes |-> writes,
   gate |-> gate]

MCProgram ==
  <<Fan(<< <<"goals", "goals">> >>, FALSE, FALSE, TRUE, "choose"),
    Fan(<< <<"scan">>, <<"scan">> >>, TRUE, FALSE, FALSE, "askText"),
    Fan(<< <<"task1", "code review">>, <<"task2">> >>, FALSE, TRUE, TRUE, "choose")>>

\* Two researchers that write their findings into .pipeline/.
MCParallel ==
  <<Fan(<< <<"research1">>, <<"research2">> >>, TRUE, FALSE, TRUE, "none"),
    Fan(<< <<"plan">> >>, FALSE, FALSE, FALSE, "none")>>

MCOneStage ==
  <<Fan(<< <<"goals", "review">> >>, FALSE, FALSE, TRUE, "choose"),
    Fan(<< <<"plan">> >>, FALSE, FALSE, TRUE, "none")>>

MCKeys ==
  {"goals", "scan", "review", "task1", "task2", "code review", "research1", "research2",
   "plan"}

MCGitKeys == {"code review"}

=============================================================================
