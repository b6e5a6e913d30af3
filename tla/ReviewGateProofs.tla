-------------------------- MODULE ReviewGateProofs --------------------------
(***************************************************************************)
(* Proofs about ReviewGate for any branches, caps, retries and numbers of  *)
(* rejections: its invariants, and that it implements Approval.            *)
(*                                                                         *)
(* The inductive invariant has three parts: the types, how the numbers of  *)
(* documents that the program keeps in several places relate, and what     *)
(* each step of the stage finds.                                           *)
(***************************************************************************)
EXTENDS ReviewGate, TLAPS

Steps == {"start", "interview", "synthesize", "review", "rewrite", "passed", "gate", "done"}
Documents == [id : Nat, route : Routes \cup {"none"}, told : Nat]
Outcomes == [status : {"open", "PASS", "FAIL"}, capped : BOOLEAN,
             route : Routes \cup {"none"}, simple : BOOLEAN]

Types ==
  /\ kind \in Kinds /\ gates \in [mode : Modes, policy : Policies, depth : Depths]
  /\ pc \in Steps
  /\ entries \in [Branches -> {"none", "answered", "guessed"}]
  /\ doc \in Documents /\ draft \in Documents /\ config \in Routes \cup {"none"}
  /\ requirements \in Nat /\ reading \in Nat
  /\ round \in 0..Cap /\ attempt \in 0..Retries
  /\ files \in [1..MaxRounds -> Nat]
  /\ reviewed \in [id : Nat, pass : BOOLEAN]
  /\ history \in Seq(Nat) /\ shown \in Nat
  /\ outcome \in Outcomes

\* The documents that are referred to have been written; of goals, the latest
\* is so many rewrites away from what the synthesis delivered.
Numbers ==
  /\ \A n \in 1..MaxRounds : files[n] <= doc.id /\ (files[n] # 0 => n <= Cap)
  /\ reviewed.id <= doc.id /\ shown <= doc.id
  /\ \A n \in 1..Len(history) : history[n] \in 1..doc.id
  /\ Goals /\ ~outcome.simple =>
       /\ round = 0 => doc.id = 0 /\ draft.id = 0
       /\ round # 0 => draft.id > 0 /\ doc.id = draft.id + round - 1

\* What a step of the stage finds.
Control ==
  /\ (pc = "done") <=> (outcome.status # "open")
  /\ outcome.simple => pc = "done" /\ outcome.status = "PASS"
  /\ pc \in {"start", "interview"} =>
       Goals /\ doc.id = 0 /\ round = 0 /\ history = <<>> /\ requirements = 0
  /\ pc \notin {"gate", "done"} => shown = 0
  /\ pc \in {"start", "interview", "synthesize", "review", "rewrite"} => ~reviewed.pass
  /\ pc \in {"review", "rewrite", "passed", "gate"} => doc.id > 0 /\ round \in 1..Cap
  /\ pc = "rewrite" => round < Cap
  /\ pc \in {"passed", "gate"} => reviewed = [id |-> doc.id, pass |-> TRUE]
  /\ pc = "gate" => gates.mode = "interactive" /\ shown = doc.id
  /\ Goals /\ pc # "done" => requirements = Len(history)
  /\ Goals /\ pc \in {"review", "rewrite", "passed", "gate"} => reading = Len(history)
  /\ Goals /\ gates.policy = "fail-closed" /\ ~outcome.simple
       /\ (doc.id > 0 \/ pc \notin {"start", "interview", "done"}) =>
       \A b \in Branches : entries[b] = "answered"
  /\ PassWasReviewed

IInv == Types /\ Numbers /\ Control

-----------------------------------------------------------------------------
LEMMA CapBounds == ASSUME Types PROVE Cap \in 1..MaxRounds /\ (gates.depth = "fast" => Cap <= 2)
  BY ReviewAssumption DEF Types, Cap, FastRounds

LEMMA InitHolds == Init => IInv
<1> SUFFICES ASSUME Init PROVE IInv
  OBVIOUS
<1>1. Types
  BY ReviewAssumption DEF Init, Types, Cap, FastRounds, Steps, Documents, Outcomes, NoDoc, Open, Goals
<1>2. Numbers
  BY ReviewAssumption, <1>1 DEF Init, Types, Numbers, NoDoc, Open
<1>3. Control
  BY <1>1 DEF Init, Types, Control, PassWasReviewed, NoDoc, Open, Goals
<1> QED
  BY <1>1, <1>2, <1>3 DEF IInv

-----------------------------------------------------------------------------
(* Every action keeps the invariant. *)

LEMMA Ids ==
  ASSUME Types
  PROVE  /\ doc.id \in Nat /\ draft.id \in Nat /\ reviewed.id \in Nat
         /\ reviewed.pass \in BOOLEAN /\ outcome.simple \in BOOLEAN
         /\ outcome.status \in {"open", "PASS", "FAIL"} /\ Len(history) \in Nat
BY DEF Types, Documents, Outcomes

LEMMA OldNumbersStay ==
  ASSUME Types, Numbers, NEW i \in Nat, i > doc.id
  PROVE  /\ \A n \in 1..MaxRounds : files[n] <= i /\ (files[n] # 0 => n <= Cap)
         /\ reviewed.id <= i /\ shown <= i
         /\ \A n \in 1..Len(history) : history[n] \in 1..i
<1>1. \A n \in 1..MaxRounds : files[n] <= i /\ (files[n] # 0 => n <= Cap)
  BY ReviewAssumption, Ids DEF Types, Numbers
<1>2. reviewed.id <= i /\ shown <= i
  BY Ids DEF Types, Numbers
<1>3. \A n \in 1..Len(history) : history[n] \in 1..i
  BY Ids DEF Numbers
<1> QED
  BY <1>1, <1>2, <1>3

LEMMA WrittenIs ==
  ASSUME Types, NEW route \in Routes \cup {"none"}, NEW told \in Nat
  PROVE  Written(route, told) \in Documents /\ Written(route, told).id = doc.id + 1
BY Ids DEF Written, Documents

LEMMA FailsIs ==
  ASSUME NEW capped \in BOOLEAN, Fails(capped)
  PROVE  /\ outcome' \in Outcomes /\ outcome'.status = "FAIL" /\ ~outcome'.simple
         /\ pc' = "done"
BY DEF Fails, Return, Open, Outcomes

LEMMA PassesIs ==
  ASSUME Types, Passes
  PROVE  /\ outcome' \in Outcomes /\ outcome'.status = "PASS" /\ ~outcome'.simple
         /\ pc' = "done"
<1>1. draft.route \in Routes \cup {"none"}
  BY DEF Types, Documents
<1> QED
  BY <1>1 DEF Passes, Return, Open, Outcomes

LEMMA NoTaskKeeps ==
  ASSUME IInv, NoTask
  PROVE  IInv'
<1> USE ReviewAssumption, CapBounds, Ids, FailsIs DEF IInv, Steps, Goals, Ends, run, loop
<1>0. Cap' = Cap /\ UNCHANGED <<kind, gates>>
  BY DEF Cap, NoTask
<1>1. Types'
  BY <1>0 DEF Types, NoTask
<1>2. Numbers'
  BY <1>0, <1>1 DEF Types, Numbers, Control, NoTask
<1>3. Control'
  BY <1>0, <1>1 DEF Types, Numbers, Control, PassWasReviewed, NoTask
<1> QED
  BY <1>1, <1>2, <1>3

LEMMA SimpleTaskKeeps ==
  ASSUME IInv, SimpleTask
  PROVE  IInv'
<1> USE ReviewAssumption, CapBounds, Ids DEF IInv, Steps, Goals, Ends, run, loop
<1>0. Cap' = Cap /\ UNCHANGED <<kind, gates>>
  BY DEF Cap, SimpleTask, Return, Open, Outcomes, Documents, Routes, Kinds
<1>1. Types'
  BY <1>0 DEF Types, SimpleTask, Return, Open, Outcomes, Documents, Routes, Kinds
<1>2. Numbers'
  BY <1>0, <1>1 DEF Types, Numbers, Control, SimpleTask, Return, Open, Outcomes, Documents, Routes, Kinds
<1>3. Control'
  BY <1>0, <1>1 DEF Types, Numbers, Control, PassWasReviewed, SimpleTask, Return, Open, Outcomes, Documents, Routes, Kinds
<1> QED
  BY <1>1, <1>2, <1>3

LEMMA PrePassKeeps ==
  ASSUME IInv, NEW answered \in SUBSET Branches, PrePass(answered)
  PROVE  IInv'
<1> USE ReviewAssumption, CapBounds, Ids DEF IInv, Steps, Goals, run, loop
<1> DEFINE e == [b \in Branches |-> IF b \in answered THEN "answered" ELSE "none"]
<1>0. /\ pc = "start" /\ Cap' = Cap
      /\ UNCHANGED <<kind, gates, doc, config, draft, requirements, reading, round, attempt,
                     files, reviewed, history, shown>>
  BY DEF Cap, PrePass
<1>1. e \in [Branches -> {"none", "answered", "guessed"}]
      /\ Guessed(e) \in [Branches -> {"none", "answered", "guessed"}]
  BY DEF Guessed
<1>2. Unresolved(e) = {} => \A b \in Branches : e[b] = "answered"
  BY DEF Unresolved
<1> HIDE DEF e
<1>3. CASE /\ Unresolved(e) = {} /\ entries' = e /\ pc' = "synthesize" /\ UNCHANGED outcome
  <2>a. Types'
    BY <1>0, <1>1, <1>2, <1>3 DEF Types
  <2>b. Numbers'
    BY <1>0, <1>1, <1>2, <1>3, <2>a DEF Types, Numbers, Control
  <2>c. Control'
    BY <1>0, <1>1, <1>2, <1>3, <2>a DEF Types, Numbers, Control, PassWasReviewed
  <2> QED
    BY <2>a, <2>b, <2>c
<1>4. CASE entries' = e /\ pc' = "interview" /\ UNCHANGED outcome
  <2>a. Types'
    BY <1>0, <1>1, <1>4 DEF Types
  <2>b. Numbers'
    BY <1>0, <1>1, <1>4, <2>a DEF Types, Numbers, Control
  <2>c. Control'
    BY <1>0, <1>1, <1>4, <2>a DEF Types, Numbers, Control, PassWasReviewed
  <2> QED
    BY <2>a, <2>b, <2>c
<1>5. CASE entries' = e /\ Fails(FALSE)
  <2>0. /\ outcome' \in Outcomes /\ outcome'.status = "FAIL" /\ ~outcome'.simple
        /\ pc' = "done"
    BY FailsIs, <1>5
  <2>a. Types'
    BY <1>0, <1>1, <1>5, <2>0 DEF Types
  <2>b. Numbers'
    BY <1>0, <1>1, <1>5, <2>0, <2>a DEF Types, Numbers, Control
  <2>c. Control'
    BY <1>0, <1>1, <1>5, <2>0, <2>a DEF Types, Numbers, Control, PassWasReviewed
  <2> QED
    BY <2>a, <2>b, <2>c
<1>6. CASE /\ gates.policy = "best-effort" /\ entries' = Guessed(e)
           /\ pc' = "synthesize" /\ UNCHANGED outcome
  <2>a. Types'
    BY <1>0, <1>1, <1>6 DEF Types
  <2>b. Numbers'
    BY <1>0, <1>1, <1>6, <2>a DEF Types, Numbers, Control
  <2>c. Control'
    BY <1>0, <1>1, <1>6, <2>a DEF Types, Numbers, Control, PassWasReviewed
  <2> QED
    BY <2>a, <2>b, <2>c
<1> QED
  BY <1>3, <1>4, <1>5, <1>6 DEF PrePass, e

LEMMA InterviewKeeps ==
  ASSUME IInv, NEW end \in Ends, NEW called \in BOOLEAN,
         NEW answers \in [Branches -> {"none", "answered", "guessed"}],
         Interview(end, called, answers)
  PROVE  IInv'
<1> USE ReviewAssumption, CapBounds, Ids DEF IInv, Steps, Goals, run, loop
<1> DEFINE Entries == [Branches -> {"none", "answered", "guessed"}]
<1>0. /\ pc = "interview" /\ Cap' = Cap
      /\ UNCHANGED <<kind, gates, doc, config, draft, requirements, reading, round, files,
                     reviewed, history, shown>>
  BY DEF Cap, Interview
<1>1. Guessed(entries) \in Entries /\ Merged(answers) \in Entries
  BY DEF Guessed, Merged, Types
<1>2. Unresolved(Merged(answers)) = {} => \A b \in Branches : Merged(answers)[b] = "answered"
  BY DEF Unresolved
<1>3. CASE attempt < Retries /\ Retry /\ UNCHANGED <<pc, entries, outcome>>
  <2>a. Types'
    BY <1>0, <1>3 DEF Types, Retry
  <2>b. Numbers'
    BY <1>0, <1>3, <2>a DEF Types, Numbers, Control, Retry
  <2>c. Control'
    BY <1>0, <1>3, <2>a DEF Types, Numbers, Control, PassWasReviewed, Retry
  <2> QED
    BY <2>a, <2>b, <2>c
<1>4. CASE /\ attempt' = 0 /\ Fails(FALSE)
           /\ entries' = entries \/ entries' = Merged(answers)
  <2>0. /\ outcome' \in Outcomes /\ outcome'.status = "FAIL" /\ ~outcome'.simple
        /\ pc' = "done"
    BY FailsIs, <1>4
  <2>a. Types'
    BY <1>0, <1>1, <1>4, <2>0 DEF Types
  <2>b. Numbers'
    BY <1>0, <1>1, <1>4, <2>0, <2>a DEF Types, Numbers, Control
  <2>c. Control'
    BY <1>0, <1>1, <1>4, <2>0, <2>a DEF Types, Numbers, Control, PassWasReviewed
  <2> QED
    BY <2>a, <2>b, <2>c
<1>5. CASE /\ attempt' = 0 /\ gates.policy # "fail-closed" /\ entries' = Guessed(entries)
           /\ pc' = "synthesize" /\ UNCHANGED outcome
  <2>a. Types'
    BY <1>0, <1>1, <1>5 DEF Types
  <2>b. Numbers'
    BY <1>0, <1>1, <1>5, <2>a DEF Types, Numbers, Control
  <2>c. Control'
    BY <1>0, <1>1, <1>5, <2>a DEF Types, Numbers, Control, PassWasReviewed
  <2> QED
    BY <2>a, <2>b, <2>c
<1>6. CASE /\ attempt' = 0 /\ entries' = Merged(answers)
           /\ gates.policy # "fail-closed" \/ Unresolved(Merged(answers)) = {}
           /\ pc' = "synthesize" /\ UNCHANGED outcome
  <2>a. Types'
    BY <1>0, <1>1, <1>2, <1>6 DEF Types
  <2>b. Numbers'
    BY <1>0, <1>1, <1>2, <1>6, <2>a DEF Types, Numbers, Control
  <2>c. Control'
    BY <1>0, <1>1, <1>2, <1>6, <2>a DEF Types, Numbers, Control, PassWasReviewed
  <2> QED
    BY <2>a, <2>b, <2>c
<1> QED
  BY <1>3, <1>4, <1>5, <1>6 DEF Interview, GiveUpInterview

LEMMA SynthesizeKeeps ==
  ASSUME IInv, NEW end \in Ends, NEW called \in BOOLEAN, NEW route \in Routes,
         Synthesize(end, called, route)
  PROVE  IInv'
<1> USE ReviewAssumption, CapBounds, Ids DEF IInv, Steps, Goals, run, loop
<1> DEFINE new == Written(IF Goals THEN route ELSE "none", Len(history))
<1>0. Cap' = Cap /\ UNCHANGED <<kind, gates, entries, requirements, history, shown>>
  BY DEF Cap, Synthesize
<1>1. new \in Documents /\ new.id = doc.id + 1
  BY WrittenIs DEF Types
<1> HIDE DEF new
<1>2. CASE Delivers(end, called)
  <2>1. /\ doc' = new /\ draft' = (IF Goals THEN new ELSE draft)
        /\ config' = (IF Goals THEN route ELSE config)
        /\ pc' = "review" /\ round' = 1 /\ attempt' = 0 /\ reading' = requirements
        /\ UNCHANGED <<files, reviewed, outcome>>
    BY <1>2 DEF Synthesize, StartReview, new
  <2>2. pc = "synthesize"
    BY DEF Synthesize
  <2>a. Types'
    BY <1>0, <1>1, <2>1, <2>2 DEF Types
  <2>b. Numbers'
    <3>1. doc'.id = doc.id + 1 /\ (Goals => draft'.id = doc.id + 1) /\ round' = 1
      BY <1>1, <2>1
    <3>2. /\ \A n \in 1..MaxRounds : files[n] <= doc'.id /\ (files[n] # 0 => n <= Cap)
          /\ reviewed.id <= doc'.id /\ shown <= doc'.id
          /\ \A n \in 1..Len(history) : history[n] \in 1..doc'.id
      BY <1>0, <2>1, <3>1, OldNumbersStay
    <3>3. /\ \A n \in 1..MaxRounds : files'[n] <= doc'.id /\ (files'[n] # 0 => n <= Cap')
          /\ reviewed'.id <= doc'.id /\ shown' <= doc'.id
          /\ \A n \in 1..Len(history') : history'[n] \in 1..doc'.id
      BY <1>0, <2>1, <3>1, <3>2
    <3>4. Goals' => draft'.id > 0 /\ doc'.id = draft'.id + round' - 1
      BY <1>0, <3>1
    <3> QED
      BY <1>0, <2>1, <3>1, <3>3, <3>4 DEF Numbers
  <2>c. Control'
    BY <1>0, <1>1, <2>1, <2>2, <2>a DEF Types, Numbers, Control, PassWasReviewed
  <2> QED
    BY <2>a, <2>b, <2>c
<1>3. CASE ~Delivers(end, called)
  <2>1. Fails(FALSE) /\ UNCHANGED <<doc, draft, config, reading, round, attempt, files, reviewed>>
    BY <1>3 DEF Synthesize
  <2>2. pc = "synthesize"
    BY DEF Synthesize
  <2>a. Types'
    BY FailsIs, <1>0, <2>1, <2>2 DEF Types
  <2>b. Numbers'
    BY FailsIs, <1>0, <2>1, <2>2, <2>a DEF Types, Numbers, Control
  <2>c. Control'
    BY FailsIs, <1>0, <2>1, <2>2, <2>a DEF Types, Numbers, Control, PassWasReviewed
  <2> QED
    BY <2>a, <2>b, <2>c
<1> QED
  BY <1>2, <1>3

LEMMA RewriteKeeps ==
  ASSUME IInv, NEW end \in Ends, NEW called \in BOOLEAN, NEW route \in Routes,
         Rewrite(end, called, route)
  PROVE  IInv'
<1> USE ReviewAssumption, CapBounds, Ids DEF IInv, Steps, Goals, run, loop
<1> DEFINE new == Written(IF Goals THEN route ELSE "none", 0)
<1>0. /\ pc = "rewrite" /\ Cap' = Cap
      /\ UNCHANGED <<kind, gates, entries, draft, requirements, reading, files, reviewed,
                     history, shown>>
  BY DEF Cap, Rewrite
<1>1. new \in Documents /\ new.id = doc.id + 1
  BY WrittenIs DEF Types
<1> HIDE DEF new
<1>2. CASE Retried(end) /\ Retry /\ UNCHANGED <<pc, outcome, doc, config, round>>
  <2>1. attempt' = attempt + 1 /\ attempt < Retries
    BY <1>2 DEF Retried, Retry
  <2>a. Types'
    BY <1>0, <1>2, <2>1 DEF Types
  <2>b. Numbers'
    BY <1>0, <1>2, <2>1, <2>a DEF Types, Numbers, Control
  <2>c. Control'
    BY <1>0, <1>2, <2>1, <2>a DEF Types, Numbers, Control, PassWasReviewed
  <2> QED
    BY <2>a, <2>b, <2>c
<1>3. CASE Fails(FALSE) /\ UNCHANGED <<attempt, doc, config, round>>
  <2>a. Types'
    BY FailsIs, <1>0, <1>3 DEF Types
  <2>b. Numbers'
    BY FailsIs, <1>0, <1>3, <2>a DEF Types, Numbers, Control
  <2>c. Control'
    BY FailsIs, <1>0, <1>3, <2>a DEF Types, Numbers, Control, PassWasReviewed
  <2> QED
    BY <2>a, <2>b, <2>c
<1>4. CASE /\ doc' = new /\ config' = (IF Goals THEN route ELSE config)
           /\ round' = round + 1 /\ attempt' = 0 /\ pc' = "review" /\ UNCHANGED outcome
  <2>1. round + 1 \in 1..Cap /\ doc'.id = doc.id + 1 /\ ~outcome.simple /\ round \in Nat \ {0}
    BY <1>0, <1>1, <1>4 DEF Types, Control
  <2>a. Types'
    BY <1>0, <1>1, <1>4, <2>1 DEF Types
  <2>b. Numbers'
    <3>2. /\ \A n \in 1..MaxRounds : files[n] <= doc'.id /\ (files[n] # 0 => n <= Cap)
          /\ reviewed.id <= doc'.id /\ shown <= doc'.id
          /\ \A n \in 1..Len(history) : history[n] \in 1..doc'.id
      BY <1>0, <1>4, <2>1, OldNumbersStay
    <3>3. /\ \A n \in 1..MaxRounds : files'[n] <= doc'.id /\ (files'[n] # 0 => n <= Cap')
          /\ reviewed'.id <= doc'.id /\ shown' <= doc'.id
          /\ \A n \in 1..Len(history') : history'[n] \in 1..doc'.id
      BY <1>0, <1>4, <2>1, <3>2
    <3>4. Goals' => draft'.id > 0 /\ doc'.id = draft'.id + round' - 1
      BY <1>0, <1>4, <2>1 DEF Numbers
    <3>5. round' # 0
      BY <1>4, <2>1
    <3> QED
      BY <3>3, <3>4, <3>5 DEF Numbers
  <2>c. Control'
    <3>1. ~outcome'.simple /\ outcome'.status = "open" /\ pc' = "review" /\ round' \in 1..Cap'
      BY <1>0, <1>1, <1>4, <2>1 DEF Types, Control
    <3>2. doc'.id > 0 /\ ~reviewed'.pass /\ shown' = 0
      BY <1>0, <1>1, <1>4, <2>1 DEF Types, Control
    <3>3. Goals' => requirements' = Len(history)' /\ reading' = Len(history)'
      BY <1>0, <1>1, <1>4 DEF Types, Control
    <3>4. Goals' /\ gates'.policy = "fail-closed" => \A b \in Branches : entries'[b] = "answered"
      BY <1>0, <1>1, <1>4 DEF Types, Control
    <3> QED
      BY <3>1, <3>2, <3>3, <3>4 DEF Control, PassWasReviewed
  <2> QED
    BY <2>a, <2>b, <2>c
<1> QED
  BY <1>2, <1>3, <1>4 DEF Rewrite, new

LEMMA ReviewKeeps ==
  ASSUME IInv, NEW end \in Ends, NEW pass \in BOOLEAN, Review(end, pass)
  PROVE  IInv'
<1> USE ReviewAssumption, CapBounds, Ids DEF IInv, Steps, Goals, run, loop
<1>0. /\ pc = "review" /\ Cap' = Cap
      /\ UNCHANGED <<kind, gates, entries, doc, config, draft, requirements, reading, round,
                     history, shown>>
  BY DEF Cap, Review
<1>1. CASE Retried(end) /\ Retry /\ UNCHANGED <<pc, outcome, files, reviewed>>
  <2>1. attempt' = attempt + 1 /\ attempt < Retries
    BY <1>1 DEF Retried, Retry
  <2>a. Types'
    BY <1>0, <1>1, <2>1 DEF Types
  <2>b. Numbers'
    BY <1>0, <1>1, <2>1, <2>a DEF Types, Numbers, Control
  <2>c. Control'
    BY <1>0, <1>1, <2>1, <2>a DEF Types, Numbers, Control, PassWasReviewed
  <2> QED
    BY <2>a, <2>b, <2>c
<1>2. CASE Fails(FALSE) /\ UNCHANGED <<attempt, files, reviewed>>
  <2>a. Types'
    BY FailsIs, <1>0, <1>2 DEF Types
  <2>b. Numbers'
    BY FailsIs, <1>0, <1>2, <2>a DEF Types, Numbers, Control
  <2>c. Control'
    BY FailsIs, <1>0, <1>2, <2>a DEF Types, Numbers, Control, PassWasReviewed
  <2> QED
    BY <2>a, <2>b, <2>c
<1>3. CASE /\ files' = [files EXCEPT ![round] = doc.id]
           /\ reviewed' = [id |-> doc.id, pass |-> pass] /\ attempt' = 0
           /\ \/ pass /\ pc' = "passed" /\ UNCHANGED outcome
              \/ ~pass /\ round < Cap /\ pc' = "rewrite" /\ UNCHANGED outcome
  <2>t. files' \in [1..MaxRounds -> Nat] /\ reviewed' \in [id : Nat, pass : BOOLEAN]
    <3>1. files' \in [1..MaxRounds -> Nat]
      BY <1>0, <1>3 DEF Types
    <3>2. reviewed' \in [id : Nat, pass : BOOLEAN]
      BY <1>3, Zenon DEF Types
    <3> QED
      BY <3>1, <3>2
  <2>a. Types'
    BY <1>0, <1>3, <2>t DEF Types
  <2>b. Numbers'
    BY <1>0, <1>3, <2>a DEF Types, Numbers, Control
  <2>c. Control'
    BY <1>0, <1>3, <2>a DEF Types, Numbers, Control, PassWasReviewed
  <2> QED
    BY <2>a, <2>b, <2>c
<1>4. CASE /\ files' = [files EXCEPT ![round] = doc.id]
           /\ reviewed' = [id |-> doc.id, pass |-> pass] /\ attempt' = 0
           /\ ~pass /\ Fails(TRUE)
  <2>0. /\ outcome' \in Outcomes /\ outcome'.status = "FAIL" /\ ~outcome'.simple
        /\ pc' = "done"
    BY FailsIs, <1>4
  <2>t. files' \in [1..MaxRounds -> Nat] /\ reviewed' \in [id : Nat, pass : BOOLEAN]
    <3>1. files' \in [1..MaxRounds -> Nat]
      BY <1>0, <1>4 DEF Types
    <3>2. reviewed' \in [id : Nat, pass : BOOLEAN]
      BY <1>4, Zenon DEF Types
    <3> QED
      BY <3>1, <3>2
  <2>a. Types'
    BY <1>0, <1>4, <2>0, <2>t DEF Types
  <2>b. Numbers'
    BY <1>0, <1>4, <2>0, <2>a DEF Types, Numbers, Control
  <2>c. Control'
    BY <1>0, <1>4, <2>0, <2>a DEF Types, Numbers, Control, PassWasReviewed
  <2> QED
    BY <2>a, <2>b, <2>c
<1> QED
  BY <1>1, <1>2, <1>3, <1>4 DEF Review

LEMMA AutoApproveKeeps ==
  ASSUME IInv, AutoApprove
  PROVE  IInv'
<1> USE ReviewAssumption, CapBounds, Ids, PassesIs DEF IInv, Steps, Goals, Ends, run, loop
<1>0. Cap' = Cap /\ UNCHANGED <<kind, gates>>
  BY DEF Cap, AutoApprove
<1>1. Types'
  BY <1>0 DEF Types, AutoApprove
<1>2. Numbers'
  BY <1>0, <1>1 DEF Types, Numbers, Control, AutoApprove
<1>3. Control'
  BY <1>0, <1>1 DEF Types, Numbers, Control, PassWasReviewed, AutoApprove
<1> QED
  BY <1>1, <1>2, <1>3

LEMMA PresentKeeps ==
  ASSUME IInv, Present
  PROVE  IInv'
<1> USE ReviewAssumption, CapBounds, Ids DEF IInv, Steps, Goals, Ends, run, loop
<1>0. Cap' = Cap /\ UNCHANGED <<kind, gates>>
  BY DEF Cap, Present
<1>1. Types'
  BY <1>0 DEF Types, Present
<1>2. Numbers'
  BY <1>0, <1>1 DEF Types, Numbers, Control, Present
<1>3. Control'
  BY <1>0, <1>1 DEF Types, Numbers, Control, PassWasReviewed, Present
<1> QED
  BY <1>1, <1>2, <1>3

LEMMA ApproveKeeps ==
  ASSUME IInv, Approve
  PROVE  IInv'
<1> USE ReviewAssumption, CapBounds, Ids, PassesIs DEF IInv, Steps, Goals, Ends, run, loop
<1>0. Cap' = Cap /\ UNCHANGED <<kind, gates>>
  BY DEF Cap, Approve
<1>1. Types'
  BY <1>0 DEF Types, Approve
<1>2. Numbers'
  BY <1>0, <1>1 DEF Types, Numbers, Control, Approve
<1>3. Control'
  BY <1>0, <1>1 DEF Types, Numbers, Control, PassWasReviewed, Approve
<1> QED
  BY <1>1, <1>2, <1>3

LEMMA RejectKeeps ==
  ASSUME IInv, NEW text \in BOOLEAN, Reject(text)
  PROVE  IInv'
<1> USE ReviewAssumption, CapBounds, Ids DEF IInv, Steps, Goals, run, loop
<1> DEFINE stop == ~text /\ gates.policy = "fail-closed"
<1>0. /\ pc = "gate" /\ Cap' = Cap
      /\ UNCHANGED <<kind, gates, entries, doc, config, draft, reading, round, attempt, files>>
      /\ requirements' = (IF Goals THEN Len(history') ELSE requirements)
  BY DEF Cap, Reject
<1>1. Block \in 1..doc.id
  BY <1>0 DEF Block, Numbers, Control, Types
<1>2. CASE ~stop
  <2>1. /\ history' = Append(history, Block) /\ pc' = "synthesize" /\ UNCHANGED outcome
        /\ shown' = 0 /\ reviewed' = [id |-> 0, pass |-> FALSE]
    BY <1>2 DEF Reject
  <2>2. /\ history' \in Seq(Nat) /\ Len(history') = Len(history) + 1
        /\ \A n \in 1..Len(history') : history'[n] \in 1..doc.id
    BY <1>1, <2>1 DEF Types, Numbers
  <2>a. Types'
    BY <1>0, <2>1, <2>2 DEF Types
  <2>b. Numbers'
    BY <1>0, <2>1, <2>2, <2>a DEF Types, Numbers, Control
  <2>c. Control'
    BY <1>0, <2>1, <2>2, <2>a DEF Types, Numbers, Control, PassWasReviewed
  <2> QED
    BY <2>a, <2>b, <2>c
<1>3. CASE stop
  <2>1. /\ Fails(FALSE) /\ UNCHANGED <<shown, reviewed>>
        /\ history' = (IF Goals THEN history ELSE Append(history, Block))
    BY <1>3 DEF Reject
  <2>2. /\ history' \in Seq(Nat) /\ Len(history') \in Nat
        /\ \A n \in 1..Len(history') : history'[n] \in 1..doc.id
    BY <1>1, <2>1 DEF Types, Numbers
  <2>a. Types'
    BY FailsIs, <1>0, <2>1, <2>2 DEF Types
  <2>b. Numbers'
    BY FailsIs, <1>0, <2>1, <2>2, <2>a DEF Types, Numbers, Control
  <2>c. Control'
    BY FailsIs, <1>0, <2>1, <2>2, <2>a DEF Types, Numbers, Control, PassWasReviewed
  <2> QED
    BY <2>a, <2>b, <2>c
<1> QED
  BY <1>2, <1>3

LEMMA StutterKeeps == ASSUME IInv, UNCHANGED vars PROVE IInv'
BY DEF IInv, Types, Numbers, Control, PassWasReviewed, Cap, Goals, vars

LEMMA NextKeeps == ASSUME IInv, [Next]_vars PROVE IInv'
<1>1. CASE Next
  BY <1>1, StutterKeeps, NoTaskKeeps, SimpleTaskKeeps, PrePassKeeps, InterviewKeeps, SynthesizeKeeps, RewriteKeeps,
     ReviewKeeps, AutoApproveKeeps, PresentKeeps, ApproveKeeps, RejectKeeps DEF Next, Done
<1> QED
  BY <1>1, StutterKeeps

LEMMA Invariance == Spec => []IInv
<1>1. IInv /\ [Next]_vars => IInv'
  BY NextKeeps
<1> QED
  BY InitHolds, <1>1, PTL DEF Spec

-----------------------------------------------------------------------------
(* The invariants. *)

\* However sessions end and retry, the state of a reviewed stage is what its
\* code expects: the round within the cap, files of documents that were written,
\* an outcome exactly at the end.
THEOREM TypesHold == Spec => []ReviewTypeOK
<1>1. IInv => ReviewTypeOK
  <2> SUFFICES ASSUME IInv PROVE ReviewTypeOK
    OBVIOUS
  <2>1. /\ pc \in {"start", "interview", "synthesize", "review", "rewrite", "passed",
                 "gate", "done"}
        /\ entries \in [Branches -> {"none", "answered", "guessed"}]
        /\ config \in Routes \cup {"none"}
        /\ round \in 0..Cap /\ attempt \in 0..Retries
    BY DEF IInv, Types, Steps
  <2>2. doc.id \in Nat /\ (\A n \in 1..MaxRounds : files[n] \in Nat) /\ reviewed.id \in Nat /\ shown \in Nat
    BY Ids DEF IInv, Types
  <2>3. /\ \A n \in 1..MaxRounds : files[n] \in 0..doc.id
        /\ reviewed.id \in 0..doc.id /\ shown \in 0..doc.id
    BY <2>2 DEF IInv, Numbers
  <2>4. \A n \in 1..Len(history) : history[n] \in 1..doc.id
    BY DEF IInv, Numbers
  <2>5. (pc = "done") <=> (outcome.status # "open")
    BY DEF IInv, Control
  <2> QED
    BY <2>1, <2>3, <2>4, <2>5 DEF ReviewTypeOK
<1> QED
  BY Invariance, <1>1, PTL

\* A stage passes only with the document that the latest review passed and, in an
\* interactive run, that the operator was pointed to (agent-review-loop.ts:60-141).
THEOREM PassReviewed == Spec => []PassWasReviewed
<1>1. IInv => PassWasReviewed
  BY DEF IInv, Control
<1> QED
  BY Invariance, <1>1, PTL

\* A fail-closed run has no document written from a guessed answer (goals.ts:343-443).
THEOREM NeverGuesses == Spec => []FailClosedNeverGuesses
<1>1. IInv => FailClosedNeverGuesses
  BY DEF IInv, Control, FailClosedNeverGuesses
<1> QED
  BY Invariance, <1>1, PTL

\* The goals reviewer has read every rejection so far (goals.ts:130, 327-338).
THEOREM FeedbackKnown == Spec => []ReviewerKnowsFeedback
<1>1. IInv => ReviewerKnowsFeedback
  BY DEF IInv, Control, ReviewerKnowsFeedback
<1> QED
  BY Invariance, <1>1, PTL

\* review:fast allows two reviews and one rewrite of what a synthesis delivered,
\* whatever the stage's own cap and retries (README.md:94).
THEOREM FastStops == Spec => []FastReviewStops
<1>1. IInv => FastReviewStops
  <2> SUFFICES ASSUME IInv, gates.depth = "fast" PROVE FastReviewStops
    BY DEF FastReviewStops
  <2>1. Cap <= 2
    BY CapBounds DEF IInv
  <2>2. \A n \in 1..MaxRounds : files[n] # 0 => n <= FastRounds
    BY <2>1, CapBounds, ReviewAssumption DEF IInv, Types, Numbers, FastRounds
  <2>3. Goals => doc.id <= draft.id + 1 \/ outcome.simple
    BY <2>1, CapBounds, Ids DEF IInv, Types, Numbers
  <2> QED
    BY <2>2, <2>3 DEF FastReviewStops
<1> QED
  BY Invariance, <1>1, PTL

-----------------------------------------------------------------------------
(* Refinement. *)

Passed == IF reviewed.pass THEN reviewed.id ELSE 0
VerdictOf(o) ==
  CASE o.simple -> "exempt"
    [] o.status = "PASS" /\ ~o.simple -> "approved"
    [] o.status = "FAIL" /\ ~o.simple -> "failed"
    [] OTHER -> "open"
Verdict == VerdictOf(outcome)

LEMMA VerdictIs ==
  ASSUME NEW o \in Outcomes
  PROVE  /\ o.simple => VerdictOf(o) = "exempt"
         /\ o.status = "PASS" /\ ~o.simple => VerdictOf(o) = "approved"
         /\ o.status = "FAIL" /\ ~o.simple => VerdictOf(o) = "failed"
         /\ o.status = "open" /\ ~o.simple => VerdictOf(o) = "open"
BY DEF VerdictOf, Outcomes

Abstracted == <<doc.id, Passed, shown, Verdict>>

LEMMA Mapping ==
  /\ Promise!Next <=>
       \/ /\ Verdict = "open" /\ shown = 0 /\ doc'.id = doc.id + 1 /\ Passed' = 0
          /\ shown' = shown /\ Verdict' = Verdict
       \/ /\ Verdict = "open" /\ doc.id > 0 /\ Passed' = doc.id
          /\ doc'.id = doc.id /\ shown' = shown /\ Verdict' = Verdict
       \/ /\ Verdict = "open" /\ doc.id > 0 /\ Passed = doc.id /\ shown' = doc.id
          /\ doc'.id = doc.id /\ Passed' = Passed /\ Verdict' = Verdict
       \/ /\ Verdict = "open" /\ doc.id > 0 /\ Passed = doc.id /\ Verdict' = "approved"
          /\ doc'.id = doc.id /\ Passed' = Passed /\ shown' = shown
       \/ /\ Verdict = "open" /\ shown = doc.id /\ doc.id > 0 /\ Passed' = 0 /\ shown' = 0
          /\ doc'.id = doc.id /\ Verdict' = Verdict
       \/ /\ Verdict = "open" /\ Verdict' = "failed"
          /\ doc'.id = doc.id /\ Passed' = Passed /\ shown' = shown
       \/ /\ Verdict = "open" /\ doc.id = 0 /\ doc'.id = 1 /\ Verdict' = "exempt"
          /\ Passed' = Passed /\ shown' = shown
  /\ (UNCHANGED Abstracted) <=> UNCHANGED Promise!avars
BY DEF Promise!Next, Promise!Write, Promise!PassReview, Promise!Present, Promise!Approve,
       Promise!Reject, Promise!Fail, Promise!Exempt, Promise!avars, Abstracted, Passed, Verdict, VerdictOf

LEMMA OpenOrFailed ==
  ASSUME Types, Types', pc # "done", Control, Control'
  PROVE  /\ Verdict = "open"
         /\ UNCHANGED outcome => Verdict' = "open"
         /\ \A capped \in BOOLEAN : Fails(capped) => Verdict' = "failed"
         /\ Passes => Verdict' = "approved"
<1>1. outcome.status = "open" /\ ~outcome.simple
  BY Ids DEF Control
<1>2. outcome \in Outcomes /\ outcome' \in Outcomes
  BY DEF Types
<1> QED
  BY <1>1, <1>2, VerdictIs, FailsIs, PassesIs DEF Verdict

LEMMA NoTaskMaps ==
  ASSUME IInv, IInv', NoTask
  PROVE  Promise!Next \/ UNCHANGED Promise!avars
<1> USE OpenOrFailed, Ids DEF IInv
<1> QED
  BY Mapping DEF NoTask, run, loop, Abstracted, Passed, Control, Verdict, Steps

LEMMA PrePassMaps ==
  ASSUME IInv, IInv', NEW answered \in SUBSET Branches, PrePass(answered)
  PROVE  Promise!Next \/ UNCHANGED Promise!avars
<1> USE OpenOrFailed, Ids DEF IInv
<1> QED
  BY Mapping DEF PrePass, run, loop, Abstracted, Passed, Control, Verdict, Steps

LEMMA InterviewMaps ==
  ASSUME IInv, IInv', NEW end \in Ends, NEW called \in BOOLEAN,
         NEW answers \in [Branches -> {"none", "answered", "guessed"}],
         Interview(end, called, answers)
  PROVE  Promise!Next \/ UNCHANGED Promise!avars
<1> USE OpenOrFailed, Ids DEF IInv
<1> QED
  BY Mapping DEF Interview, GiveUpInterview, run, loop, Abstracted, Passed, Control, Verdict, Steps

LEMMA SynthesizeMaps ==
  ASSUME IInv, IInv', NEW end \in Ends, NEW called \in BOOLEAN, NEW route \in Routes,
         Synthesize(end, called, route)
  PROVE  Promise!Next \/ UNCHANGED Promise!avars
<1> USE OpenOrFailed, Ids DEF IInv
<1>1. Written(IF Goals THEN route ELSE "none", Len(history)).id = doc.id + 1
  BY DEF Written
<1> QED
  BY <1>1, Mapping DEF Synthesize, StartReview, run, loop, Abstracted, Passed, Control, Verdict

LEMMA RewriteMaps ==
  ASSUME IInv, IInv', NEW end \in Ends, NEW called \in BOOLEAN, NEW route \in Routes,
         Rewrite(end, called, route)
  PROVE  Promise!Next \/ UNCHANGED Promise!avars
<1> USE OpenOrFailed, Ids DEF IInv
<1>1. Written(IF Goals THEN route ELSE "none", 0).id = doc.id + 1
  BY DEF Written
<1> QED
  BY <1>1, Mapping DEF Rewrite, run, Abstracted, Passed, Control, Verdict

LEMMA ReviewMaps ==
  ASSUME IInv, IInv', NEW end \in Ends, NEW pass \in BOOLEAN, Review(end, pass)
  PROVE  Promise!Next \/ UNCHANGED Promise!avars
<1> USE OpenOrFailed, Ids DEF IInv
<1>0. /\ pc = "review" /\ doc.id > 0 /\ ~reviewed.pass /\ Passed = 0 /\ Verdict = "open"
      /\ doc' = doc /\ shown' = shown
  BY DEF Review, run, Control, Passed
<1>1. CASE UNCHANGED <<outcome, reviewed>>
  BY <1>0, <1>1, Mapping DEF Abstracted, Passed, Verdict
<1>2. CASE Fails(FALSE) /\ UNCHANGED reviewed
  BY <1>0, <1>2, Mapping DEF Passed
<1>3. CASE reviewed' = [id |-> doc.id, pass |-> pass] /\ ~pass /\ Fails(TRUE)
  BY <1>0, <1>3, Mapping DEF Passed
<1>4. CASE reviewed' = [id |-> doc.id, pass |-> pass] /\ UNCHANGED outcome
  <2>1. Passed' = doc.id \/ Passed' = 0
    BY <1>4 DEF Passed
  <2> QED
    BY <1>0, <1>4, <2>1, Mapping DEF Abstracted, Verdict
<1> QED
  BY <1>1, <1>2, <1>3, <1>4 DEF Review

LEMMA AutoApproveMaps ==
  ASSUME IInv, IInv', AutoApprove
  PROVE  Promise!Next \/ UNCHANGED Promise!avars
<1> USE OpenOrFailed, Ids DEF IInv
<1> QED
  BY Mapping DEF AutoApprove, run, loop, Abstracted, Passed, Control, Verdict, Steps

LEMMA PresentMaps ==
  ASSUME IInv, IInv', Present
  PROVE  Promise!Next \/ UNCHANGED Promise!avars
<1> USE OpenOrFailed, Ids DEF IInv
<1> QED
  BY Mapping DEF Present, run, loop, Abstracted, Passed, Control, Verdict, Steps

LEMMA ApproveMaps ==
  ASSUME IInv, IInv', Approve
  PROVE  Promise!Next \/ UNCHANGED Promise!avars
<1> USE OpenOrFailed, Ids DEF IInv
<1> QED
  BY Mapping DEF Approve, run, loop, Abstracted, Passed, Control, Verdict, Steps

LEMMA RejectMaps ==
  ASSUME IInv, IInv', NEW text \in BOOLEAN, Reject(text)
  PROVE  Promise!Next \/ UNCHANGED Promise!avars
<1> USE OpenOrFailed, Ids DEF IInv
<1> QED
  BY Mapping DEF Reject, run, Abstracted, Passed, Control, Verdict

LEMMA SimpleTaskMaps ==
  ASSUME IInv, IInv', SimpleTask
  PROVE  Promise!Next \/ UNCHANGED Promise!avars
<1> USE OpenOrFailed, Ids DEF IInv
<1> QED
  BY Mapping, VerdictIs DEF SimpleTask, Return, Open, run, loop, Abstracted, Passed, Control, Verdict, Types

LEMMA StutterMaps == ASSUME UNCHANGED vars PROVE UNCHANGED Promise!avars
BY Mapping DEF vars, Abstracted, Passed, Verdict

\* The goals, design and structure stages implement Approval: drafts replace drafts
\* until a review passes one, that one is presented, and no other is approved.
THEOREM StageIsApproval == Spec => ImplementsApproval
<1>1. Init => Promise!Init
  <2> SUFFICES ASSUME Init PROVE Promise!Init
    OBVIOUS
  <2>1. Verdict = "open"
    <3>1. Open \in Outcomes /\ Open.status = "open" /\ ~Open.simple
      BY DEF Open, Outcomes
    <3> QED
      BY <3>1, VerdictIs DEF Init, Verdict
  <2>2. doc.id = 0 /\ Passed = 0 /\ shown = 0
    BY DEF Init, NoDoc, Passed
  <2> QED
    BY <2>1, <2>2 DEF Promise!Init, Passed, Verdict, VerdictOf
<1>2. IInv /\ IInv' /\ [Next]_vars => [Promise!Next]_(Promise!avars)
  <2> SUFFICES ASSUME IInv, IInv', [Next]_vars
               PROVE  Promise!Next \/ UNCHANGED Promise!avars
    OBVIOUS
  <2>1. CASE UNCHANGED vars
    BY <2>1, StutterMaps
  <2>2. CASE Next
    BY <2>2, StutterMaps, NoTaskMaps, SimpleTaskMaps, PrePassMaps, InterviewMaps,
       SynthesizeMaps, RewriteMaps, ReviewMaps, AutoApproveMaps, PresentMaps, ApproveMaps,
       RejectMaps DEF Next, Done
  <2> QED
    BY <2>1, <2>2
<1> QED
  BY Invariance, <1>1, <1>2, PTL DEF Spec, Promise!Spec, ImplementsApproval

\* All of it together: nothing passes unreviewed, and no review is skipped, repeated or
\* blind (agent-review-loop.ts).
THEOREM ReviewsHold == Spec => []ReviewSound
<1>1. ReviewTypeOK /\ PassWasReviewed /\ ReviewerKnowsFeedback /\ FastReviewStops
        => ReviewSound
  BY DEF ReviewSound
<1> QED
  BY <1>1, TypesHold, PassReviewed, FeedbackKnown, FastStops, PTL

=============================================================================
