--------------------------- MODULE ResearchProofs ---------------------------
(***************************************************************************)
(* Proofs about Research for any set of questions, any caps and any number *)
(* of runs over the files of earlier ones: what a passed research rests    *)
(* on, what counts as a review cap, and that what a review names is        *)
(* researched anew, and nothing else.                                      *)
(*                                                                         *)
(* The invariant follows the findings: while questions are researched,     *)
(* those no longer to do answer the current batch; a revision numbers what *)
(* it replaces with the round, which nothing a review has read reaches.    *)
(***************************************************************************)
EXTENDS Research, Integers, WellFoundedInduction, TLAPS

Steps == {"generate", "reviewQuestions", "research", "review", "revise", "returned"}
Versions == [batch : Nat, rev : Nat]

Types ==
  /\ pc \in Steps /\ runs \in Nat \ {0} /\ round \in Nat \ {0} /\ batch \in Nat
  /\ round <= QRounds \/ round <= RRounds
  /\ questions \in [batch : 0..batch, ids : SUBSET Questions]
  /\ approved \in 0..batch
  /\ findings \in [Questions -> [batch : 0..batch, rev : 0..RRounds]]
  /\ summary \in [batch : 0..batch, rev : 0..RRounds]
  /\ todo \in SUBSET questions.ids /\ DOMAIN asked \in SUBSET questions.ids
  /\ wrote \in BOOLEAN
  /\ outcome.status \in {"open", "PASS", "FAIL"}
  /\ (pc = "returned") <=> (outcome.status # "open")

\* Rounds count up to the cap of their loop, and batches up to one per round.
Counting ==
  /\ pc \in {"generate", "reviewQuestions"} =>
       /\ round <= QRounds
       /\ batch <= (runs - 1) * QRounds + (IF pc = "generate" THEN round - 1 ELSE round)
  /\ pc \notin {"generate", "reviewQuestions"} => batch <= runs * QRounds
  /\ pc \in {"research", "review", "revise"} => round <= RRounds
  /\ pc = "research" => round = 1
  /\ pc = "revise" => round < RRounds

\* The findings of the questions that are no longer to do are of this batch.
Current ==
  /\ pc \in {"research", "review", "revise"} =>
       /\ approved = questions.batch
       /\ \A q \in questions.ids :
            (q \in todo /\ pc = "research") \/ findings[q].batch = questions.batch
  /\ pc \in {"generate", "reviewQuestions"} => todo = {} /\ asked = NoRemarks
  /\ pc = "review" => todo = {}

\* A review has read no revision of its own round or a later one.
Revisions ==
  /\ pc = "research" => \A q \in questions.ids \ todo : findings[q].rev = 0
  /\ pc = "review" => \A q \in questions.ids : findings[q].rev < round
  /\ pc = "revise" =>
       /\ \A q \in questions.ids : findings[q].rev <= round
       /\ todo \subseteq Named(asked)
       /\ \A q \in Named(asked) \ todo : findings[q].rev = round
       /\ \A q \in questions.ids \ Named(asked) : <<q, findings[q]>> \in seen.findings
       /\ \A q \in Questions, f \in Versions : <<q, f>> \in seen.findings => f.rev < round

IInv ==
  /\ Types /\ Counting /\ Current /\ Revisions
  /\ PassWasReadAsItIs /\ FindingsAnswerTheirQuestions /\ FailedSessionIsNoCap

-----------------------------------------------------------------------------
\* The next question is one of those left.
LEMMA FirstIsLeft ==
  ASSUME NEW qs \in SUBSET Questions, qs # {}
  PROVE  First(qs) \in qs
<1>1. qs \subseteq Nat
  BY ResearchAssumption
<1>2. PICK q \in qs : \A r \in qs : ~ (<<r, q>> \in OpToRel(<, Nat))
  BY <1>1, NatLessThanWellFounded, WFMin
<1>3. \A r \in qs : ~ (r < q)
  BY <1>1, <1>2 DEF OpToRel
<1>4. \A r \in qs : q <= r
  BY <1>1, <1>3
<1> QED BY <1>4 DEF First

LEMMA NothingRemarked == DOMAIN NoRemarks = {}
BY DEF NoRemarks

LEMMA InitHolds == Init => IInv
<1> USE ResearchAssumption DEF Init
<1>1. Init => Types
  <2> SUFFICES ASSUME Init PROVE Types
    OBVIOUS
  <2>1. NoFile \in [batch : 0..batch, rev : 0..RRounds]
    BY DEF NoFile
  <2>2. NoQuestions \in [batch : 0..batch, ids : SUBSET Questions]
    BY DEF NoQuestions
  <2>3. outcome.status = "open"
    BY DEF Open
  <2>4. wrote \in BOOLEAN
    BY Zenon
  <2> QED
    BY <2>1, <2>2, <2>3, <2>4, NothingRemarked DEF Types, Steps, NoQuestions
<1>2. Init => Counting
  <2>1. 0 * QRounds = 0
    OBVIOUS
  <2> QED
    BY <2>1 DEF Counting
<1>3. Init => Current /\ Revisions
  BY DEF Current, Revisions
<1>4. Init => PassWasReadAsItIs /\ FindingsAnswerTheirQuestions /\ FailedSessionIsNoCap
  BY DEF Open, PassWasReadAsItIs, FindingsAnswerTheirQuestions, FailedSessionIsNoCap
<1> QED
  BY <1>1, <1>2, <1>3, <1>4 DEF IInv

LEMMA FailsIs ==
  ASSUME NEW why, Fails(why)
  PROVE  /\ pc' = "returned" /\ outcome'.status = "FAIL" /\ outcome'.why = why
         /\ outcome'.cap => why # "dispatch"
BY DEF Fails

\* A failure changes neither what is on disk nor what was counted.
LEMMA FailureKeeps ==
  ASSUME IInv, pc # "returned", pc' = "returned", outcome'.status = "FAIL",
         outcome'.cap => outcome'.why # "dispatch",
         UNCHANGED <<runs, round, batch, approved, questions, findings, todo, asked>>,
         seen' = seen \/ seen' = Read,
         summary' \in [batch : 0..batch, rev : 0..RRounds], wrote' \in BOOLEAN
  PROVE  IInv'
<1>1. batch <= runs * QRounds
  <2>1. (runs - 1) * QRounds + QRounds = runs * QRounds
    BY ResearchAssumption DEF IInv, Types
  <2>2. (runs - 1) * QRounds \in Int
    BY ResearchAssumption DEF IInv, Types
  <2> QED
    BY <2>1, <2>2, ResearchAssumption DEF IInv, Types, Counting
<1>2. Types' /\ Counting'
  BY <1>1 DEF IInv, Types, Counting, Steps
<1>3. Current' /\ Revisions'
  BY DEF Current, Revisions
<1>4. PassWasReadAsItIs' /\ FindingsAnswerTheirQuestions' /\ FailedSessionIsNoCap'
  BY DEF PassWasReadAsItIs, FindingsAnswerTheirQuestions, FailedSessionIsNoCap
<1> QED
  BY <1>2, <1>3, <1>4 DEF IInv

LEMMA GenerateKeeps ==
  ASSUME IInv, NEW ids \in SUBSET Questions, Generate(ids)
  PROVE  IInv'
<1> USE ResearchAssumption DEF IInv, Generate
<1>1. Types'
  BY NothingRemarked DEF Types, Steps, Current
<1>2. Counting'
  <2>1. (runs - 1) * QRounds \in Int
    BY DEF Types
  <2> QED
    BY <2>1 DEF Types, Counting
<1>3. Current' /\ Revisions'
  BY DEF Current, Revisions
<1>4. PassWasReadAsItIs' /\ FindingsAnswerTheirQuestions' /\ FailedSessionIsNoCap'
  BY DEF Types, PassWasReadAsItIs, FindingsAnswerTheirQuestions, FailedSessionIsNoCap
<1> QED
  BY <1>1, <1>2, <1>3, <1>4

LEMMA GenerationFailsKeeps == ASSUME IInv, GenerationFails PROVE IInv'
BY FailsIs, FailureKeeps DEF GenerationFails, disk, IInv, Types

LEMMA ReviewQuestionsKeeps ==
  ASSUME IInv, NEW l \in Verdicts, NEW q \in Verdicts, ReviewQuestions(l, q)
  PROVE  IInv'
<1> USE ResearchAssumption DEF IInv
<1>0. /\ pc = "reviewQuestions" /\ UNCHANGED <<runs, batch, questions, findings, summary, asked,
                                              seen, wrote>>
      /\ approved' \in {questions.batch, approved}
  BY DEF ReviewQuestions, disk
<1>1. (runs - 1) * QRounds + QRounds = runs * QRounds /\ (runs - 1) * QRounds \in Int
  BY DEF Types
<1>2. CASE pc' = "research" /\ round' = 1 /\ todo' = questions.ids /\ UNCHANGED outcome
           /\ approved' = questions.batch
  BY <1>0, <1>1, <1>2
     DEF Types, Steps, Counting, Current, Revisions, PassWasReadAsItIs,
         FindingsAnswerTheirQuestions, FailedSessionIsNoCap
<1>3. CASE round < QRounds /\ pc' = "generate" /\ round' = round + 1
           /\ UNCHANGED <<todo, outcome>>
  BY <1>0, <1>1, <1>3
     DEF Types, Steps, Counting, Current, Revisions, PassWasReadAsItIs,
         FindingsAnswerTheirQuestions, FailedSessionIsNoCap
<1>4. CASE /\ pc' = "returned" /\ outcome'.status = "FAIL" /\ UNCHANGED <<round, todo>>
           /\ outcome'.cap => outcome'.why # "dispatch"
  BY <1>0, <1>1, <1>4
     DEF Types, Steps, Counting, Current, Revisions, PassWasReadAsItIs,
         FindingsAnswerTheirQuestions, FailedSessionIsNoCap
<1> QED
  BY <1>2, <1>3, <1>4, FailsIs DEF ReviewQuestions, BothPass

LEMMA WriteKeeps == ASSUME IInv, WriteQuestionResearch PROVE IInv'
<1> USE ResearchAssumption DEF IInv
<1> DEFINE q == First(todo)
           new == [batch |-> questions.batch, rev |-> IF pc = "research" THEN 0 ELSE round]
<1>0. /\ pc \in {"research", "revise"} /\ findings' = [findings EXCEPT ![q] = new]
      /\ todo' = todo \ {q}
      /\ UNCHANGED <<pc, runs, round, batch, questions, approved, summary, asked, seen, wrote,
                     outcome>>
  BY DEF WriteQuestionResearch, WriteFindings
<1>q. q \in todo
  BY FirstIsLeft DEF Types, WriteQuestionResearch
<1>n. Named(asked)' = Named(asked)
  BY <1>0 DEF Named
<1> HIDE DEF q
<1>1. new \in [batch : 0..batch, rev : 0..RRounds]
  BY <1>0 DEF Types, Counting
<1>2. \A r \in Questions : findings'[r] = IF r = q THEN new ELSE findings[r]
  BY <1>0 DEF Types
<1>3. Types' /\ Counting'
  BY <1>0, <1>1 DEF Types, Counting
<1>4. Current'
  BY <1>0, <1>2 DEF Types, Current
<1>5. Revisions'
  BY <1>0, <1>2, <1>q, <1>n DEF Types, Revisions
<1>6. PassWasReadAsItIs' /\ FindingsAnswerTheirQuestions' /\ FailedSessionIsNoCap'
  BY <1>0 DEF Types, PassWasReadAsItIs, FindingsAnswerTheirQuestions, FailedSessionIsNoCap
<1> QED
  BY <1>3, <1>4, <1>5, <1>6

LEMMA ResearcherFailsKeeps == ASSUME IInv, ResearcherFails PROVE IInv'
BY FailsIs, FailureKeeps DEF ResearcherFails, disk, IInv, Types

LEMMA SynthesizeKeeps ==
  ASSUME IInv, NEW says \in {"done", "FAIL", "failed"}, NEW w \in BOOLEAN, NEW r \in BOOLEAN,
         Synthesize(says, w, r)
  PROVE  IInv'
<1> USE ResearchAssumption DEF IInv
<1>0. /\ pc \in {"research", "revise"} /\ todo = {}
      /\ UNCHANGED <<runs, batch, questions, approved, findings, todo, asked, seen>>
      /\ summary' \in {[batch |-> questions.batch, rev |-> round], summary}
      /\ wrote' \in BOOLEAN
  BY DEF Synthesize
<1>1. summary' \in [batch : 0..batch, rev : 0..RRounds]
  BY <1>0 DEF Types, Counting
<1>2. CASE UNCHANGED round /\ (Fails("dispatch") \/ Fails("synthesizer"))
  BY <1>0, <1>1, <1>2, FailsIs, FailureKeeps
<1>3. CASE /\ pc' = "review" /\ UNCHANGED outcome
           /\ round' = (IF pc = "revise" THEN round + 1 ELSE round)
  <2>1. Types' /\ Counting'
    BY <1>0, <1>1, <1>3 DEF Types, Steps, Counting
  <2>2. Current'
    BY <1>0, <1>3 DEF Types, Current
  <2>3. Revisions'
    BY <1>0, <1>3, <2>1 DEF Types, Counting, Revisions
  <2>4. PassWasReadAsItIs' /\ FindingsAnswerTheirQuestions' /\ FailedSessionIsNoCap'
    BY <1>0, <1>3 DEF Types, PassWasReadAsItIs, FindingsAnswerTheirQuestions, FailedSessionIsNoCap
  <2> QED
    BY <2>1, <2>2, <2>3, <2>4
<1> QED
  BY <1>2, <1>3 DEF Synthesize, After

LEMMA ReadRevisions ==
  ASSUME Types, NEW n \in Nat, \A q \in questions.ids : findings[q].rev < n
  PROVE  \A q \in Questions, f \in Versions : <<q, f>> \in Read.findings => f.rev < n
<1> SUFFICES ASSUME NEW q \in Questions, NEW f \in Versions, <<q, f>> \in Read.findings
             PROVE  f.rev < n
  OBVIOUS
<1>1. PICK p \in questions.ids : <<q, f>> = <<p, findings[p]>>
  BY DEF Read
<1> QED
  BY <1>1

LEMMA ReviewKeeps ==
  ASSUME IInv, NEW says \in Verdicts, NEW remarks, DOMAIN remarks \subseteq questions.ids,
         Review(says, remarks)
  PROVE  IInv'
<1> USE ResearchAssumption DEF IInv
<1>0. /\ pc = "review"
      /\ UNCHANGED <<runs, round, batch, approved, questions, findings, summary, wrote>>
  BY DEF Review, disk
<1>1. CASE UNCHANGED <<todo, asked>> /\ (seen' = seen \/ seen' = Read)
           /\ (Fails("dispatch") \/ Fails("review"))
  BY <1>0, <1>1, FailsIs, FailureKeeps DEF Types
<1>2. CASE /\ seen' = Read /\ pc' = "returned" /\ outcome' = [Open EXCEPT !.status = "PASS"]
           /\ UNCHANGED <<todo, asked>>
  <2>1. Types' /\ Counting'
    BY <1>0, <1>2 DEF Types, Steps, Counting, Open
  <2>2. Current' /\ Revisions'
    BY <1>0, <1>2 DEF Current, Revisions
  <2>3. PassWasReadAsItIs'
    BY <1>0, <1>2 DEF Read, Current, PassWasReadAsItIs
  <2>4. FindingsAnswerTheirQuestions' /\ FailedSessionIsNoCap'
    BY <1>0, <1>2 DEF Current, Open, FindingsAnswerTheirQuestions, FailedSessionIsNoCap
  <2> QED
    BY <2>1, <2>2, <2>3, <2>4
<1>3. CASE /\ round < RRounds /\ seen' = Read /\ asked' = remarks /\ todo' = Named(remarks)
           /\ pc' = "revise"
           /\ UNCHANGED outcome
  <2>n. Named(remarks) \subseteq questions.ids
    BY DEF Named
  <2>1. Types' /\ Counting'
    BY <1>0, <1>3, <2>n DEF Types, Steps, Counting
  <2>2. Current'
    BY <1>0, <1>3 DEF Current
  <2>r. \A q \in questions.ids : <<q, findings[q]>> \in Read.findings
    BY DEF Read
  <2>p. Named(asked)' = Named(remarks)
    BY <1>3 DEF Named
  <2>3. \A q \in Questions, f \in Versions : <<q, f>> \in seen'.findings => f.rev < round
    BY <1>0, <1>3, ReadRevisions DEF Types, Revisions
  <2>4. Revisions'
    BY <1>0, <1>3, <2>3, <2>r, <2>p DEF Types, Revisions
  <2>5. PassWasReadAsItIs' /\ FindingsAnswerTheirQuestions' /\ FailedSessionIsNoCap'
    BY <1>0, <1>3 DEF Types, PassWasReadAsItIs, FindingsAnswerTheirQuestions, FailedSessionIsNoCap
  <2> QED
    BY <2>1, <2>2, <2>4, <2>5
<1> QED
  BY <1>1, <1>2, <1>3 DEF Review

LEMMA AnewKeeps ==
  ASSUME IInv, RunAgain \/ Archived
  PROVE  IInv'
<1> USE ResearchAssumption DEF IInv
<1>0. /\ pc = "returned" /\ pc' = "generate" /\ runs' = runs + 1 /\ round' = 1 /\ todo' = {}
      /\ asked' = NoRemarks /\ wrote' = FALSE /\ outcome' = Open /\ UNCHANGED <<batch, approved, seen>>
      /\ questions' \in {questions, NoQuestions} /\ summary' \in {summary, NoFile}
      /\ findings' = findings \/ findings' = [q \in Questions |-> NoFile]
  BY DEF RunAgain, Archived, disk
<1>1. (runs' - 1) * QRounds = runs * QRounds
  BY <1>0 DEF Types
<1>2. Types' /\ Counting'
  <2>1. Types'
    <3>1. findings' \in [Questions -> [batch : 0..batch, rev : 0..RRounds]]
      BY <1>0 DEF Types, NoFile
    <3>2. /\ questions' \in [batch : 0..batch, ids : SUBSET Questions]
          /\ summary' \in [batch : 0..batch, rev : 0..RRounds]
      BY <1>0 DEF Types, NoQuestions, NoFile
    <3>3. outcome'.status = "open"
      BY <1>0 DEF Open
    <3>4. 1 <= QRounds /\ runs + 1 \in Nat \ {0}
      BY DEF Types
    <3>5. wrote' \in BOOLEAN
      BY <1>0, Zenon
    <3> QED
      BY <1>0, <3>1, <3>2, <3>3, <3>4, <3>5, NothingRemarked DEF Types, Steps
  <2>2. batch' <= (runs' - 1) * QRounds + (round' - 1)
    <3>1. runs * QRounds \in Int /\ batch <= runs * QRounds
      BY <1>0 DEF Types, Counting
    <3> QED
      BY <1>0, <1>1, <3>1 DEF Types
  <2> QED
    BY <1>0, <2>1, <2>2 DEF Types, Counting
<1>3. Current' /\ Revisions'
  BY <1>0 DEF Current, Revisions
<1>4. PassWasReadAsItIs' /\ FindingsAnswerTheirQuestions' /\ FailedSessionIsNoCap'
  BY <1>0 DEF Open, PassWasReadAsItIs, FindingsAnswerTheirQuestions, FailedSessionIsNoCap
<1> QED
  BY <1>2, <1>3, <1>4

LEMMA NextKeeps == ASSUME IInv, [Next]_vars PROVE IInv'
<1>2. ASSUME NEW says \in {"PASS", "failed"}, Review(says, NoRemarks) PROVE IInv'
  BY <1>2, NothingRemarked, ReviewKeeps DEF Verdicts
<1>3. ASSUME NEW qs \in SUBSET questions.ids, NEW remarks \in [qs -> Remarks],
             Review("FAIL", remarks)
      PROVE  IInv'
  BY <1>3, ReviewKeeps DEF Verdicts
<1>1. CASE UNCHANGED vars
  BY <1>1 DEF vars, Named, IInv, Types, Counting, Current, Revisions, Read, PassWasReadAsItIs,
              FindingsAnswerTheirQuestions, FailedSessionIsNoCap
<1> QED
  BY <1>1, <1>2, <1>3, GenerateKeeps, GenerationFailsKeeps, ReviewQuestionsKeeps, WriteKeeps,
     ResearcherFailsKeeps, SynthesizeKeeps, AnewKeeps DEF Next, Step

LEMMA Invariance == Spec => []IInv
<1>1. IInv /\ [Next]_vars => IInv'
  BY NextKeeps
<1> QED
  BY InitHolds, <1>1, PTL DEF Spec

-----------------------------------------------------------------------------
\* A revision is numbered with the round of the revision, which nothing that
\* the review before it read has reached; the others are as it read them.
LEMMA RevisionIsNew ==
  ASSUME IInv, [Next]_vars, pc = "revise", pc' = "review", NEW q \in questions.ids
  PROVE  <<q, findings'[q]>> \notin seen.findings <=>
           q \in DOMAIN asked /\ Recognised(asked[q])
<1>1. \E says \in {"done", "FAIL", "failed"}, w, r \in BOOLEAN : Synthesize(says, w, r)
  BY DEF Next, Step, vars, Generate, GenerationFails, ReviewQuestions, WriteQuestionResearch,
         ResearcherFails, Review, RunAgain, Archived, Fails
<1>2. todo = {} /\ findings' = findings
  BY <1>1 DEF Synthesize
<1>3. q \in Questions /\ findings[q] \in Versions /\ round \in Nat
  BY <1>2, ResearchAssumption DEF IInv, Types, Versions
<1>4. CASE q \in Named(asked)
  <2>1. findings[q].rev = round
    BY <1>2, <1>4 DEF IInv, Revisions
  <2> QED
    BY <1>2, <1>3, <1>4, <2>1 DEF IInv, Revisions, Named
<1>5. CASE q \notin Named(asked)
  BY <1>2, <1>5 DEF IInv, Revisions, Named
<1> QED
  BY <1>4, <1>5

-----------------------------------------------------------------------------
\* The stage keeps its types, its rounds below their caps and its batches below
\* one per round and run.
THEOREM TypesHold == Spec => []ResearchTypeOK
<1>1. IInv => ResearchTypeOK
  <2> SUFFICES ASSUME IInv PROVE ResearchTypeOK
    OBVIOUS
  <2>1. batch <= runs * QRounds
    <3>1. (runs - 1) * QRounds + QRounds = runs * QRounds /\ (runs - 1) * QRounds \in Int
      BY ResearchAssumption DEF IInv, Types
    <3> QED
      BY <3>1, ResearchAssumption DEF IInv, Types, Counting, Steps
  <2> QED
    BY <2>1, ResearchAssumption DEF IInv, Types, Steps, ResearchTypeOK, Files
<1> QED
  BY <1>1, Invariance, PTL

\* What a passed research rests on was read as it is on disk, and its
\* questions were passed by both reviewers (research-pass.ts:104).
THEOREM PassRead == Spec => []PassWasReadAsItIs
<1>1. IInv => PassWasReadAsItIs
  BY DEF IInv
<1> QED
  BY <1>1, Invariance, PTL

\* Findings of a passed research answer the questions of the current batch,
\* whatever earlier runs left (research-pass.ts:36).
THEOREM FindingsAnswer == Spec => []FindingsAnswerTheirQuestions
<1>1. IInv => FindingsAnswerTheirQuestions
  BY DEF IInv
<1> QED
  BY <1>1, Invariance, PTL

\* A failed session is never taken for an unresolved cap (research.ts:48).
THEOREM NoCap == Spec => []FailedSessionIsNoCap
<1>1. IInv => FailedSessionIsNoCap
  BY DEF IInv
<1> QED
  BY <1>1, Invariance, PTL

\* Between two reviews exactly the questions are researched anew that the first one
\* named in a way the code recognises (research-pass.ts:183, 362).
THEOREM Revised == Spec => NamedIsRevised
<1>1. IInv /\ [Next]_vars =>
        [pc = "revise" /\ pc' = "review" =>
           \A q \in questions.ids :
             <<q, findings'[q]>> \notin seen.findings <=>
               q \in DOMAIN asked /\ Recognised(asked[q])]_vars
  BY RevisionIsNew
<1> QED
  BY <1>1, Invariance, PTL DEF Spec, NamedIsRevised

\* All of it together: what a passed stage leaves is what was asked, found and
\* reviewed (research.ts, research-pass.ts).
THEOREM ResearchHolds == Spec => []ResearchSound
<1>1. ResearchTypeOK /\ PassWasReadAsItIs /\ FindingsAnswerTheirQuestions /\ FailedSessionIsNoCap
        => ResearchSound
  BY DEF ResearchSound
<1> QED
  BY <1>1, TypesHold, PassRead, FindingsAnswer, NoCap, PTL

=============================================================================
