------------------------------ MODULE Research ------------------------------
(***************************************************************************)
(* The research stage.  questions.ts has a batch of questions generated    *)
(* and read by a leakage and a quality reviewer in parallel, round after   *)
(* round; research-pass.ts has each question researched (one session for a *)
(* codebase or web question, two for a hybrid one), has the findings       *)
(* synthesized into research/summary.md, reviewed, and the questions that  *)
(* the review names revised.  research.ts turns the two results into the   *)
(* outcome of the stage.                                                   *)
(*                                                                         *)
(* The stage may be run again after it returned, on the files it left; a   *)
(* backward loop to goals archives them.  A file is reduced to what it was *)
(* written from, a review to what it says of which question's findings, in *)
(* which section and under which name.  Which questions a batch holds,     *)
(* what sessions answer and when they fail is free; only that reviewers    *)
(* read what they are given is taken for granted.                          *)
(***************************************************************************)
EXTENDS Naturals, FiniteSets

CONSTANTS Questions,   \* question numbers
          QRounds,     \* MAX_QUESTIONS_REVIEW_ROUNDS after effectiveReviewRounds
          RRounds,     \* MAX_RESEARCH_REVIEW_ROUNDS after effectiveReviewRounds
          MaxRuns,     \* bound of the model: runs of the stage
          Remarks      \* what a review may say of the findings of a question

\* A review speaks of the findings of question N in one of the two sections that
\* the code reads or elsewhere, and names them by the question's id, by the name
\* of their file, or by the name that the reviewer's prompt gives the file.
AllRemarks == [in : {"Artifact Findings", "Per-Question Issues", "elsewhere"},
               as : {"qN", "qN.md", "q-NN.md"},
               says : {"PASS", "FAIL"}]

ASSUME ResearchAssumption ==
  /\ Remarks \subseteq AllRemarks
  /\ Questions \subseteq Nat /\ IsFiniteSet(Questions)
  /\ QRounds \in Nat \ {0} /\ RRounds \in Nat \ {0}
  /\ MaxRuns \in Nat \ {0}

VARIABLES
  pc, runs, round,
  batch,      \* batches generated so far
  questions,  \* questions.md: its batch and the questions in it
  approved,   \* the latest batch that both question reviewers passed
  findings,   \* research/qN.md: per question the batch and the revision
  summary,    \* research/summary.md: the batch and round it was written in
  todo,       \* questions left to research or to revise
  asked,      \* what the latest review that failed says of questions' findings
  seen,       \* what the latest review of the research read
  wrote,      \* the latest synthesizer wrote or returned a summary
  outcome     \* of the stage

vars == <<pc, runs, round, batch, questions, approved, findings, summary, todo,
          asked, seen, wrote, outcome>>
disk == <<questions, findings, summary>>

NoFile == [batch |-> 0, rev |-> 0]
NoQuestions == [batch |-> 0, ids |-> {}]
Unseen == [questions |-> NoQuestions, findings |-> {}, summary |-> NoFile]
NoRemarks == [q \in {} |-> q]
Open == [status |-> "open", why |-> "none", cap |-> FALSE]

Init ==
  /\ pc = "generate" /\ runs = 1 /\ round = 1 /\ batch = 0
  /\ questions = NoQuestions /\ approved = 0
  /\ findings = [q \in Questions |-> NoFile] /\ summary = NoFile
  /\ todo = {} /\ asked = NoRemarks /\ seen = Unseen /\ wrote = FALSE
  /\ outcome = Open

\* The stage fails.  Only what research-pass.ts does not flag as a dispatch
\* failure is an unresolved review cap; nothing of questions.ts is one.
Fails(why) ==
  /\ pc' = "returned"
  /\ outcome' = [status |-> "FAIL", why |-> why,
                 cap |-> why \in {"synthesizer", "review"}]

-----------------------------------------------------------------------------
(* Questions. *)

Generate(ids) ==
  /\ pc = "generate"
  /\ batch' = batch + 1
  /\ questions' = [batch |-> batch + 1, ids |-> ids]
  /\ pc' = "reviewQuestions"
  /\ UNCHANGED <<runs, round, approved, findings, summary, todo, asked, seen,
                 wrote, outcome>>

GenerationFails ==
  /\ pc = "generate"
  /\ Fails("dispatch")
  /\ UNCHANGED <<runs, round, batch, approved, disk, todo, asked, seen, wrote>>

BothPass(verdicts) == verdicts = {"PASS"}

\* dispatchParallel: both reviewers are waited for, in either order.
ReviewQuestions(leakage, quality) ==
  LET verdicts == {leakage, quality} IN
  /\ pc = "reviewQuestions"
  /\ \/ /\ "failed" \in verdicts
        /\ Fails("dispatch")
        /\ UNCHANGED <<round, todo>>
     \/ /\ "failed" \notin verdicts /\ BothPass(verdicts)
        /\ pc' = "research" /\ round' = 1 /\ todo' = questions.ids
        /\ UNCHANGED outcome
     \/ /\ "failed" \notin verdicts /\ ~BothPass(verdicts) /\ round < QRounds
        /\ pc' = "generate" /\ round' = round + 1
        /\ UNCHANGED <<todo, outcome>>
     \/ /\ "failed" \notin verdicts /\ ~BothPass(verdicts) /\ round = QRounds
        /\ Fails("questions")
        /\ UNCHANGED <<round, todo>>
  /\ approved' = IF leakage = "PASS" /\ quality = "PASS" THEN questions.batch
                 ELSE approved
  /\ UNCHANGED <<runs, batch, disk, asked, seen, wrote>>

-----------------------------------------------------------------------------
(* Research. *)

First(qs) == CHOOSE q \in qs : \A r \in qs : q <= r

\* Mutant of WriteFindings: findings that are there are not replaced.
WriteNewFindings(q) ==
  findings' = [findings EXCEPT ![q] =
    IF pc = "research" /\ @ # NoFile THEN @
    ELSE [batch |-> questions.batch, rev |-> IF pc = "research" THEN 0 ELSE round]]

\* The codebase findings, the web findings or both, written at once.
WriteFindings(q) ==
  findings' = [findings EXCEPT ![q] =
    [batch |-> questions.batch, rev |-> IF pc = "research" THEN 0 ELSE round]]

WriteQuestionResearch ==
  /\ pc \in {"research", "revise"} /\ todo # {}
  /\ WriteFindings(First(todo))
  /\ todo' = todo \ {First(todo)}
  /\ UNCHANGED <<pc, runs, round, batch, questions, approved, summary, asked,
                 seen, wrote, outcome>>

ResearcherFails ==
  /\ pc \in {"research", "revise"} /\ todo # {}
  /\ Fails("dispatch")
  /\ UNCHANGED <<runs, round, batch, approved, disk, todo, asked, seen, wrote>>

\* ensureResearchSummaryArtifact: an existing summary is taken, whoever wrote
\* it; else the synthesizer's text if it looks like one.
SummaryThere(writes, returns) == writes \/ summary # NoFile \/ returns

\* Mutant of After: a review that names no question does not use up a round.
AfterNamed == IF pc = "revise" /\ DOMAIN asked # {} THEN round + 1 ELSE round

\* The round of the next review.
After == IF pc = "revise" THEN round + 1 ELSE round

\* The synthesizer writes the summary itself, returns it as text, or neither.
Synthesize(says, writes, returns) ==
  LET new == [batch |-> questions.batch, rev |-> round] IN
  /\ pc \in {"research", "revise"} /\ todo = {}
  /\ summary' = IF \/ writes
                   \/ says = "done" /\ summary = NoFile /\ returns
                THEN new ELSE summary
  /\ wrote' = (writes \/ returns)
  /\ \/ /\ says = "failed"
        /\ Fails("dispatch") /\ UNCHANGED round
     \/ /\ says = "FAIL"
        /\ Fails("synthesizer") /\ UNCHANGED round
     \/ /\ says = "done" /\ ~SummaryThere(writes, returns)
        /\ Fails("dispatch") /\ UNCHANGED round
     \/ /\ says = "done" /\ SummaryThere(writes, returns)
        /\ pc' = "review"
        /\ round' = After
        /\ UNCHANGED outcome
  /\ UNCHANGED <<runs, batch, questions, approved, findings, todo, asked, seen>>

FailedArtifact(r) ==
  r.in = "Artifact Findings" /\ r.as = "qN.md" /\ r.says = "FAIL"

\* A question's issues are recognised by its id, whatever they say of it.
Recognised(r) ==
  \/ FailedArtifact(r)
  \/ r.in = "Per-Question Issues" /\ r.as # "q-NN.md"

\* Mutant of Named: only the table of artifacts is searched.
NamedInTable(remarks) == {q \in DOMAIN remarks : FailedArtifact(remarks[q])}

\* questionsReferencedByReview
Named(remarks) == {q \in DOMAIN remarks : Recognised(remarks[q])}

Read == [questions |-> questions,
         findings |-> {<<q, findings[q]>> : q \in questions.ids},
         summary |-> summary]

\* The reviewer reads questions, findings and summary from the disk; remarks is what
\* it says of the questions that it says something of.
Review(says, remarks) ==
  /\ pc = "review"
  /\ \/ /\ says = "failed"
        /\ Fails("dispatch")
        /\ UNCHANGED <<todo, asked, seen>>
     \/ /\ says = "PASS"
        /\ seen' = Read
        /\ pc' = "returned" /\ outcome' = [Open EXCEPT !.status = "PASS"]
        /\ UNCHANGED <<todo, asked>>
     \/ /\ says = "FAIL" /\ round = RRounds
        /\ seen' = Read
        /\ Fails("review")
        /\ UNCHANGED <<todo, asked>>
     \/ /\ says = "FAIL" /\ round < RRounds
        /\ seen' = Read
        /\ asked' = remarks /\ todo' = Named(remarks)
        /\ pc' = "revise" /\ UNCHANGED outcome
  /\ UNCHANGED <<runs, round, batch, approved, disk, wrote>>

-----------------------------------------------------------------------------
(* The stage and its caller. *)

\* Run again by the operator, by a resume or by a fix, on what is there.
RunAgain ==
  /\ pc = "returned" /\ runs < MaxRuns
  /\ runs' = runs + 1 /\ pc' = "generate" /\ round' = 1
  /\ todo' = {} /\ asked' = NoRemarks /\ wrote' = FALSE /\ outcome' = Open
  /\ UNCHANGED <<batch, approved, disk, seen>>

\* A backward loop to goals archives questions.md and research/.
Archived ==
  /\ pc = "returned" /\ runs < MaxRuns
  /\ questions' = NoQuestions /\ summary' = NoFile
  /\ findings' = [q \in Questions |-> NoFile]
  /\ runs' = runs + 1 /\ pc' = "generate" /\ round' = 1
  /\ todo' = {} /\ asked' = NoRemarks /\ wrote' = FALSE /\ outcome' = Open
  /\ UNCHANGED <<batch, approved, seen>>

Verdicts == {"PASS", "FAIL", "failed"}

Step ==
  \/ \E ids \in SUBSET Questions : Generate(ids)
  \/ GenerationFails
  \/ \E l, q \in Verdicts : ReviewQuestions(l, q)
  \/ WriteQuestionResearch \/ ResearcherFails
  \/ \E says \in {"done", "FAIL", "failed"} : \E w, r \in BOOLEAN :
       Synthesize(says, w, r)
  \/ \E says \in {"PASS", "failed"} : Review(says, NoRemarks)
  \/ \E qs \in SUBSET questions.ids : \E remarks \in [qs -> Remarks] :
       Review("FAIL", remarks)

Next == Step \/ RunAgain \/ Archived

Spec == Init /\ [][Next]_vars

\* Every session ends (Dispatcher) and the stage goes on when one has.
FairSpec == Spec /\ WF_vars(Step)

-----------------------------------------------------------------------------
(* Properties. *)

Files == [batch : 0..batch, rev : 0..RRounds]

ResearchTypeOK ==
  /\ pc \in {"generate", "reviewQuestions", "research", "review", "revise",
             "returned"}
  /\ round \in 1..IF QRounds > RRounds THEN QRounds ELSE RRounds
  /\ batch <= runs * QRounds /\ questions.batch \in 0..batch
  /\ questions.ids \subseteq Questions
  /\ findings \in [Questions -> Files] /\ summary \in Files
  /\ todo \subseteq questions.ids /\ DOMAIN asked \subseteq questions.ids
  /\ (pc = "returned") = (outcome.status # "open")

\* A stage that passes leaves the questions that both question reviewers
\* passed, and the research reviewer read the very findings and summary that
\* are on disk (research-pass.ts:104): nothing is written after the review.
PassWasReadAsItIs ==
  outcome.status = "PASS" => approved = questions.batch /\ seen = Read

\* However often the stage was run before, the findings that a passed summary
\* rests on answer the questions of the current batch, not an earlier question
\* with the same number (research-pass.ts:36).
FindingsAnswerTheirQuestions ==
  outcome.status = "PASS" =>
    \A q \in questions.ids : findings[q].batch = questions.batch

\* A stage is offered to the operator, or softened, as a review cap only if a
\* session judged its work; a failed session stops the run (research.ts:48).
FailedSessionIsNoCap == outcome.cap => outcome.why # "dispatch"

\* Together: what a passed stage leaves is what was asked, found and reviewed.
ResearchSound ==
  /\ ResearchTypeOK /\ PassWasReadAsItIs
  /\ FindingsAnswerTheirQuestions /\ FailedSessionIsNoCap

\* The next review reads new findings of exactly the questions that the one before
\* named in a way the code recognises (research-pass.ts:183, 362); all others are
\* as that review read them, although they have files of the same names.
NamedIsRevised ==
  [][pc = "revise" /\ pc' = "review" =>
       \A q \in questions.ids :
         <<q, findings'[q]>> \notin seen.findings <=>
           q \in DOMAIN asked /\ Recognised(asked[q])]_vars

\* The stage always returns, whatever its sessions answer: both loops are
\* bounded, also under review:fast (questions.ts:36, research-pass.ts:95).
StageReturns == pc # "returned" ~> pc = "returned"

-----------------------------------------------------------------------------
(* What the documentation says and the code does not do. *)

\* An unresolved cap of the question review is an unclean cap as any other
\* (README.md:98).
QuestionCapIsCap == outcome.why = "questions" => outcome.cap

\* "Attribute every issue to a specific artifact (`q-NN.md` or `summary.md`)"
\* (agents/qrspi-research-reviewer.md:46), and every question whose findings are
\* faulted is researched anew.
EveryFaultRevised ==
  [][pc = "revise" /\ pc' = "review" =>
       \A q \in DOMAIN asked :
         asked[q].says = "FAIL" => <<q, findings'[q]>> \notin seen.findings]_vars

\* A synthesizer that leaves no summary fails the stage
\* (test/application/research-pass.test.ts:113).
SilentSynthesisFails ==
  [][pc # "review" /\ pc' = "review" => wrote']_vars

\* What is softened to PARTIAL lets the run proceed (README.md:98): the next
\* stage reads the summary.
SoftenedResearchProceeds == outcome.cap => summary # NoFile

=============================================================================
