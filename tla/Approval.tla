------------------------------ MODULE Approval ------------------------------
(***************************************************************************)
(* What a reviewed stage (goals, design, structure) promises, whatever its *)
(* sessions do: a draft is replaced by later drafts until a review passes  *)
(* it; an interactive run presents that very draft to the operator; only   *)
(* such a draft is approved; a rejection starts over with a new draft.     *)
(***************************************************************************)
EXTENDS Naturals

VARIABLES draft,      \* number of the latest draft, 0 before the first
          passed,     \* the draft that the latest review passed, or 0
          presented,  \* the draft before the operator, or 0
          verdict     \* "open", "approved", "failed" or "exempt"

avars == <<draft, passed, presented, verdict>>

Init == draft = 0 /\ passed = 0 /\ presented = 0 /\ verdict = "open"

\* Earlier reviews do not speak for the new draft.
Write == /\ verdict = "open" /\ presented = 0
         /\ draft' = draft + 1 /\ passed' = 0
         /\ UNCHANGED <<presented, verdict>>

PassReview == /\ verdict = "open" /\ draft > 0
              /\ passed' = draft
              /\ UNCHANGED <<draft, presented, verdict>>

Present == /\ verdict = "open" /\ draft > 0 /\ passed = draft
           /\ presented' = draft
           /\ UNCHANGED <<draft, passed, verdict>>

Approve == /\ verdict = "open" /\ draft > 0 /\ passed = draft
           /\ verdict' = "approved"
           /\ UNCHANGED <<draft, passed, presented>>

Reject == /\ verdict = "open" /\ presented = draft /\ draft > 0
          /\ passed' = 0 /\ presented' = 0
          /\ UNCHANGED <<draft, verdict>>

Fail == /\ verdict = "open"
        /\ verdict' = "failed"
        /\ UNCHANGED <<draft, passed, presented>>

\* A task that needs no reviewed draft at all.
Exempt == /\ verdict = "open" /\ draft = 0
          /\ draft' = 1 /\ verdict' = "exempt"
          /\ UNCHANGED <<passed, presented>>

Next == Write \/ PassReview \/ Present \/ Approve \/ Reject \/ Fail \/ Exempt

Spec == Init /\ [][Next]_avars
=============================================================================
