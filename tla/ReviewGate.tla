----------------------------- MODULE ReviewGate -----------------------------
(***************************************************************************)
(* The stages that end with a reviewed document: goals (goals.ts), and     *)
(* design and structure (synthesize-review-gate-workflow.ts).  A session   *)
(* synthesizes the document, the review loop (agent-review-loop.ts) has it *)
(* reviewed and rewritten up to a cap, an interactive run asks the         *)
(* operator, and a rejection starts over with the operator's feedback.     *)
(*                                                                         *)
(* One step is one session with the writes that follow it.  Documents are  *)
(* numbered in the order they are written; what a text says is reduced to  *)
(* its number, its route and the rejections its writer was told of.        *)
(***************************************************************************)
EXTENDS Naturals, Sequences

CONSTANTS Branches,   \* the required branches of the goals interview
          MaxRounds,  \* review rounds of a stage under review:thorough
          Retries,    \* MAX_TRANSIENT_DISPATCH_RETRIES
          MaxGates    \* bound of the model: rejections by the operator

ASSUME ReviewAssumption ==
  /\ MaxRounds \in Nat \ {0} /\ Retries \in Nat /\ MaxGates \in Nat

FastRounds == 2

Kinds == {"goals", "document"}
Routes == {"full", "quick-fix"}
Modes == {"interactive", "automated"}
Policies == {"fail-closed", "best-effort"}
Depths == {"thorough", "fast"}

\* How a session ends for its caller; a stage_return counts as finished.
Ends == {"finished", "timeout", "session_error", "aborted"}

VARIABLES
  kind,         \* which of the two implementations runs
  gates,        \* the run's flags: mode, policy, depth
  pc,
  entries,      \* interview: per branch "none", "answered" or "guessed"
  doc,          \* the document on disk: its number, route, rejections told
  config,       \* the route in config.md, "none" before it is written
  draft,        \* goalsReturn: what the latest synthesis returned
  requirements, \* rejections told by requirements.md
  reading,      \* the requirements that the review loop was started with
  round, attempt,
  files,        \* review-round-NN.md: number of the document it reviews, 0 none
  reviewed,     \* the latest review: the document's number and the verdict
  history,      \* the feedback blocks: number of the rejected document
  shown,        \* the document before the operator, 0 none
  last,         \* how the session of the latest step ended, "none" otherwise
  interrupted,  \* the abort signal has fired
  outcome

run == <<kind, gates>>
loop == <<round, attempt, files, reviewed>>
vars == <<kind, gates, pc, entries, doc, config, draft, requirements, reading,
          round, attempt, files, reviewed, history, shown, last, interrupted,
          outcome>>

NoDoc == [id |-> 0, route |-> "none", told |-> 0]
Open == [status |-> "open", capped |-> FALSE, route |-> "none", simple |-> FALSE]

Goals == kind = "goals"
Cap == IF gates.depth = "fast" /\ FastRounds < MaxRounds THEN FastRounds ELSE MaxRounds

Init ==
  /\ kind \in Kinds
  /\ gates \in [mode : Modes, policy : Policies, depth : Depths]
  /\ pc = IF Goals THEN "start" ELSE "synthesize"
  /\ entries = [b \in Branches |-> "none"]
  /\ doc = NoDoc /\ draft = NoDoc /\ config = "none"
  /\ requirements = 0 /\ reading = 0
  /\ round = 0 /\ attempt = 0
  /\ files = [n \in 1..MaxRounds |-> 0]
  /\ reviewed = [id |-> 0, pass |-> FALSE]
  /\ history = <<>> /\ shown = 0
  /\ last = "none" /\ interrupted = FALSE
  /\ outcome = Open

-----------------------------------------------------------------------------
(* Sessions and endings. *)

\* Once the abort signal has fired, every session ends aborted; the step in
\* which it fires is the one whose session ends so.
Session(end) ==
  /\ interrupted => end = "aborted"
  /\ interrupted' = (end = "aborted")
  /\ last' = end

\* A failed session leaves no text, or what it said before it was cut off.
MayPass(end) == end # "session_error" /\ ~interrupted

\* Mutant of Retry: a retry is not counted.
RetryUncounted == attempt' = attempt

Retry == attempt' = attempt + 1

Transient(end) == end \in {"timeout", "session_error"}

Return(o) ==
  /\ outcome' = o
  /\ pc' = "done"

Fails(capped) == Return([Open EXCEPT !.status = "FAIL", !.capped = capped])
Passes ==
  Return([Open EXCEPT !.status = "PASS",
                      !.route = IF Goals THEN draft.route ELSE "none"])

-----------------------------------------------------------------------------
(* Goals: the task, the fast path and the interview. *)

NoTask ==
  /\ pc = "start"
  /\ Fails(FALSE)
  /\ UNCHANGED <<run, entries, doc, config, draft, requirements, reading, loop,
                 history, shown, interrupted>>
  /\ last' = "none"

SimpleTask ==
  /\ pc = "start"
  /\ doc' = [id |-> 1, route |-> "quick-fix", told |-> 0]
  /\ config' = "quick-fix"
  /\ Return([Open EXCEPT !.status = "PASS", !.route = "quick-fix", !.simple = TRUE])
  /\ UNCHANGED <<run, entries, draft, requirements, reading, loop, history,
                 shown, interrupted>>
  /\ last' = "none"

\* Mutant of Unresolved: fallbacks count as answers.
UnresolvedIfSilent(e) == {b \in Branches : e[b] = "none"}

Unresolved(e) == {b \in Branches : e[b] # "answered"}
Guessed(e) == [b \in Branches |-> IF e[b] = "none" THEN "guessed" ELSE e[b]]

\* The task's text answers some branches; the rest is asked, guessed or fatal.
PrePass(answered) ==
  LET e == [b \in Branches |-> IF b \in answered THEN "answered" ELSE "none"] IN
  /\ pc = "start"
  /\ \/ /\ Unresolved(e) = {}
        /\ entries' = e /\ pc' = "synthesize" /\ UNCHANGED outcome
     \/ /\ Unresolved(e) # {} /\ gates.mode = "interactive"
        /\ entries' = e /\ pc' = "interview" /\ UNCHANGED outcome
     \/ /\ Unresolved(e) # {} /\ gates.mode = "automated"
        /\ gates.policy = "fail-closed"
        /\ entries' = e /\ Fails(FALSE)
     \/ /\ Unresolved(e) # {} /\ gates.mode = "automated"
        /\ gates.policy = "best-effort"
        /\ entries' = Guessed(e) /\ pc' = "synthesize" /\ UNCHANGED outcome
  /\ UNCHANGED <<run, doc, config, draft, requirements, reading, loop, history,
                 shown, interrupted>>
  /\ last' = "none"

\* What the interviewer answered: the task's own answers take precedence.
Merged(answers) ==
  [b \in Branches |-> IF entries[b] = "none" THEN answers[b] ELSE entries[b]]

GiveUpInterview ==
  IF gates.policy = "fail-closed"
  THEN Fails(FALSE) /\ UNCHANGED entries
  ELSE entries' = Guessed(entries) /\ pc' = "synthesize" /\ UNCHANGED outcome

Interview(end, called, answers) ==
  /\ pc = "interview"
  /\ Session(end)
  /\ \/ /\ Transient(end) /\ attempt < Retries
        /\ Retry /\ UNCHANGED <<pc, entries, outcome>>
     \/ /\ ~(Transient(end) /\ attempt < Retries)
        /\ attempt' = 0
        /\ \/ /\ end # "finished" \/ ~called
              /\ GiveUpInterview
           \/ /\ end = "finished" /\ called
              /\ entries' = Merged(answers)
              /\ IF gates.policy = "fail-closed" /\ Unresolved(Merged(answers)) # {}
                 THEN Fails(FALSE)
                 ELSE pc' = "synthesize" /\ UNCHANGED outcome
  /\ UNCHANGED <<run, doc, config, draft, requirements, reading, round, files,
                 reviewed, history, shown>>

-----------------------------------------------------------------------------
(* Synthesis, review and rewrite. *)

Written(route, told) == [id |-> doc.id + 1, route |-> route, told |-> told]

\* goals: only what goals_return delivered is written, goals.md and config.md.
\* The other stages write the session's text however it ended.
Delivers(end, called) == Goals => end = "finished" /\ called

StartReview ==
  /\ pc' = "review" /\ round' = 1 /\ attempt' = 0
  /\ reading' = requirements
  /\ UNCHANGED <<files, reviewed>>

Synthesize(end, called, route) ==
  LET new == Written(IF Goals THEN route ELSE "none", Len(history)) IN
  /\ pc = "synthesize"
  /\ Session(end)
  /\ \/ /\ Delivers(end, called)
        /\ doc' = new
        /\ draft' = IF Goals THEN new ELSE draft
        /\ config' = IF Goals THEN route ELSE config
        /\ StartReview
        /\ UNCHANGED outcome
     \/ /\ ~Delivers(end, called)
        /\ Fails(FALSE)
        /\ UNCHANGED <<doc, draft, config, reading, loop>>
  /\ UNCHANGED <<run, entries, requirements, history, shown>>

\* A failed review or rewrite is only reported to the loop by goals.
Retried(end) == Goals /\ Transient(end) /\ attempt < Retries

Review(end, pass) ==
  /\ pc = "review"
  /\ pass => MayPass(end)
  /\ Session(end)
  /\ \/ /\ Retried(end)
        /\ Retry
        /\ UNCHANGED <<pc, outcome, files, reviewed>>
     \/ /\ Goals /\ end # "finished" /\ ~Retried(end)
        /\ Fails(FALSE)
        /\ UNCHANGED <<attempt, files, reviewed>>
     \/ /\ ~Goals \/ end = "finished"
        /\ files' = [files EXCEPT ![round] = doc.id]
        /\ reviewed' = [id |-> doc.id, pass |-> pass]
        /\ attempt' = 0
        /\ \/ pass /\ pc' = "passed" /\ UNCHANGED outcome
           \/ ~pass /\ round = Cap /\ Fails(TRUE)
           \/ ~pass /\ round < Cap /\ pc' = "rewrite" /\ UNCHANGED outcome
  /\ UNCHANGED <<run, entries, doc, config, draft, requirements, reading, round,
                 history, shown>>

\* Mutant of Rewrite: what the last round rewrites is not reviewed again.
RewritePasses(end, called, route) ==
  /\ pc = "rewrite"
  /\ Session(end)
  /\ Delivers(end, called)
  /\ doc' = Written(IF Goals THEN route ELSE "none", 0)
  /\ config' = IF Goals THEN route ELSE config
  /\ round' = round + 1 /\ attempt' = 0
  /\ pc' = IF round + 1 = Cap THEN "passed" ELSE "review"
  /\ UNCHANGED <<outcome, run, entries, draft, requirements, reading, files,
                 reviewed, history, shown>>

\* Mutant of Reject: the gate is shown again without a new synthesis.
RejectPresents(text) ==
  /\ pc = "gate" /\ Len(history) < MaxGates
  /\ pc' = "passed"
  /\ shown' = 0 /\ reviewed' = [id |-> 0, pass |-> FALSE]
  /\ UNCHANGED <<run, entries, doc, config, draft, requirements, reading, round,
                 attempt, files, history, interrupted, outcome>>
  /\ last' = "none"

\* The rewriter gets the review, never the operator's earlier feedback.
Rewrite(end, called, route) ==
  /\ pc = "rewrite"
  /\ Session(end)
  /\ \/ /\ Retried(end)
        /\ Retry
        /\ UNCHANGED <<pc, outcome, doc, config, round>>
     \/ /\ ~Retried(end) /\ ~Delivers(end, called)
        /\ Fails(FALSE)
        /\ UNCHANGED <<attempt, doc, config, round>>
     \/ /\ Delivers(end, called)
        /\ doc' = Written(IF Goals THEN route ELSE "none", 0)
        /\ config' = IF Goals THEN route ELSE config
        /\ round' = round + 1 /\ attempt' = 0 /\ pc' = "review"
        /\ UNCHANGED outcome
  /\ UNCHANGED <<run, entries, draft, requirements, reading, files, reviewed,
                 history, shown>>

-----------------------------------------------------------------------------
(* The operator's gate. *)

AutoApprove ==
  /\ pc = "passed" /\ gates.mode = "automated"
  /\ Passes
  /\ UNCHANGED <<run, entries, doc, config, draft, requirements, reading, loop,
                 history, shown, interrupted>>
  /\ last' = "none"

Present ==
  /\ pc = "passed" /\ gates.mode = "interactive"
  /\ shown' = doc.id /\ pc' = "gate"
  /\ UNCHANGED <<run, entries, doc, config, draft, requirements, reading, loop,
                 history, interrupted, outcome>>
  /\ last' = "none"

\* A dismissed dialog is an approval.
Approve ==
  /\ pc = "gate"
  /\ Passes
  /\ UNCHANGED <<run, entries, doc, config, draft, requirements, reading, loop,
                 history, shown, interrupted>>
  /\ last' = "none"

\* goals records what its synthesis returned, the others read the file.
Block == IF Goals THEN draft.id ELSE doc.id

Reject(text) ==
  LET stop == ~text /\ gates.policy = "fail-closed" IN
  /\ pc = "gate" /\ Len(history) < MaxGates
  /\ IF stop THEN Fails(FALSE) ELSE pc' = "synthesize" /\ UNCHANGED outcome
  /\ history' = IF stop /\ Goals THEN history ELSE Append(history, Block)
  /\ requirements' = IF Goals THEN Len(history') ELSE requirements
  /\ shown' = IF stop THEN shown ELSE 0
  /\ reviewed' = IF stop THEN reviewed ELSE [id |-> 0, pass |-> FALSE]
  /\ UNCHANGED <<run, entries, doc, config, draft, reading, round, attempt,
                 files, interrupted>>
  /\ last' = "none"

-----------------------------------------------------------------------------

Done == pc = "done" /\ UNCHANGED vars

Next ==
  \/ NoTask \/ SimpleTask
  \/ \E answered \in SUBSET Branches : PrePass(answered)
  \/ \E end \in Ends, called \in BOOLEAN,
        answers \in [Branches -> {"none", "answered", "guessed"}] :
       Interview(end, called, answers)
  \/ \E end \in Ends, called \in BOOLEAN, route \in Routes :
       Synthesize(end, called, route) \/ Rewrite(end, called, route)
  \/ \E end \in Ends, pass \in BOOLEAN : Review(end, pass)
  \/ AutoApprove \/ Present \/ Approve
  \/ \E text \in BOOLEAN : Reject(text)
  \/ Done

Spec == Init /\ [][Next]_vars

\* Sessions end (each has a timeout); the operator need not answer.
FairSpec == Spec /\ WF_vars(Next /\ pc # "gate")

-----------------------------------------------------------------------------
(* Properties. *)

\* Documents are numbered in the order they are written, files tell which
\* document they review, and an outcome exists exactly when the stage is done.
ReviewTypeOK ==
  /\ pc \in {"start", "interview", "synthesize", "review", "rewrite", "passed",
             "gate", "done"}
  /\ entries \in [Branches -> {"none", "answered", "guessed"}]
  /\ config \in Routes \cup {"none"}
  /\ round \in 0..Cap /\ attempt \in 0..Retries
  /\ \A n \in 1..MaxRounds : files[n] \in 0..doc.id
  /\ reviewed.id \in 0..doc.id /\ shown \in 0..doc.id
  /\ \A n \in 1..Len(history) : history[n] \in 1..doc.id
  /\ (pc = "done") <=> (outcome.status # "open")

\* A stage passes with a document on disk that the latest review passed: no
\* rewrite, no later synthesis and no cap lets an unreviewed text through
\* (agent-review-loop.ts:60-141), however sessions fail and retry.  In an
\* interactive run it is also the text that the operator was pointed to.
PassWasReviewed ==
  outcome.status = "PASS" /\ ~outcome.simple =>
    /\ reviewed = [id |-> doc.id, pass |-> TRUE]
    /\ gates.mode = "interactive" => shown = doc.id

\* A fail-closed run never goes on with a guessed answer of the interview,
\* whichever of the task, the interviewer and the fallbacks supplied which
\* branch (goals.ts:343-443, README.md:82).
FailClosedNeverGuesses ==
  Goals /\ gates.policy = "fail-closed" /\ doc.id > 0 /\ ~outcome.simple =>
    \A b \in Branches : entries[b] = "answered"

\* The goals reviewer is told of every rejection so far although the rewriter
\* is not: requirements.md is rewritten before the next synthesis and read
\* again before its reviews (goals.ts:130, 327-338).
ReviewerKnowsFeedback ==
  Goals /\ pc \in {"review", "rewrite", "passed", "gate"} =>
    reading = Len(history)

\* review:fast allows one review, one rewrite and one more review of whatever a
\* synthesis delivered; nothing a failing session does adds to it (README.md:94).
FastReviewStops ==
  gates.depth = "fast" =>
    /\ \A n \in 1..MaxRounds : files[n] # 0 => n <= FastRounds
    /\ Goals => doc.id <= draft.id + 1 \/ outcome.simple

\* Together: nothing passes unreviewed, and no review is skipped, repeated or blind.
ReviewSound ==
  ReviewTypeOK /\ PassWasReviewed /\ ReviewerKnowsFeedback /\ FastReviewStops

\* Reviews, rejections and endings happen in the order that Approval allows.
Promise == INSTANCE Approval WITH
  draft <- doc.id,
  passed <- IF reviewed.pass THEN reviewed.id ELSE 0,
  presented <- shown,
  verdict <- CASE outcome.simple -> "exempt"
               [] outcome.status = "PASS" /\ ~outcome.simple -> "approved"
               [] outcome.status = "FAIL" /\ ~outcome.simple -> "failed"
               [] OTHER -> "open"
ImplementsApproval == Promise!Spec

\* An automated stage comes to an outcome: rounds and retries are bounded and
\* nothing waits for the operator.
AutomatedEnds == gates.mode = "automated" ~> pc = "done"

-----------------------------------------------------------------------------
(* What the documentation says and the code does not do. *)

\* A review whose session timed out or errored is tried again, it does not
\* count as a review ("This loop also handles transient dispatch retries.",
\* docs/mental-model.md:185).
TransientRetried ==
  [][pc = "review" /\ Transient(last') /\ attempt < Retries =>
       pc' = "review" /\ files' = files]_vars

\* The block given back to the synthesizer as "### Rejected Artifact" holds the
\* document that the operator rejected (agents/qrspi-goals-synthesizer.md:19).
RejectedIsShown ==
  [][\A text \in BOOLEAN :
       Reject(text) /\ history' # history => history'[Len(history')] = shown]_vars

\* The route that an inference of the run reads from config.md is the route of
\* the run (docs/mental-model.md:257).
InferredRouteIsTheRuns ==
  outcome.status = "PASS" /\ Goals => config = outcome.route

\* Each review is persisted as a round file (docs/mental-model.md:185): none is
\* replaced by a later one.
EachReviewKept ==
  [][\A n \in 1..MaxRounds : files[n] # 0 => files'[n] = files[n]]_vars

\* Only a simple exact-file task takes the quick-fix route (README.md:131, 141).
QuickFixIsSimple ==
  outcome.status = "PASS" /\ outcome.route = "quick-fix" => outcome.simple

=============================================================================
