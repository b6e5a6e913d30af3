---------------------------- MODULE MCDispatcher ----------------------------
(* Two tasks of a wave: one has a session without a task's id, as its coder, *)
(* tester and verifier have (utils.ts:88), and then a review of its code,    *)
(* which has an id of its own (code-review.ts:22); beside them runs a        *)
(* session of the other task, which shares the id of the first.              *)
EXTENDS Dispatcher

MCWorkers == {"T1", "T2"}
MCIds ==
  [w \in MCWorkers |-> IF w = "T1" THEN <<"generic", "qrspi-review-code-quality">>
                       ELSE <<"generic">>]

=============================================================================
