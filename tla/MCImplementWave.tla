---------------------------- MODULE MCImplementWave ----------------------------
(* Two tasks: in a wave each, or one behind a task of an earlier phase,      *)
(* which puts both into the last wave, side by side.                        *)
EXTENDS ImplementWave

Numbered(specSet, dependsOn) ==
    [id |-> [s \in specSet |-> s], deps |-> dependsOn]

TwoSpecs == 1..2

TwoTasks ==
    {Numbered(1..2, <<{}, {1}>>), Numbered(1..2, <<{0}, {1}>>)}
=============================================================================
