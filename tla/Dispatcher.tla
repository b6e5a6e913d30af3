----------------------------- MODULE Dispatcher -----------------------------
(***************************************************************************)
(* Agent sessions (session-dispatcher.ts, stage-return-tool.ts) dispatched *)
(* by a fan-out of parallel workers (implement.ts:80): every worker has    *)
(* sessions one after the other and records their end; Promise.all waits   *)
(* for the workers, but is rejected as soon as one cannot have its session *)
(* created, and then the run ends while the other sessions go on.  The     *)
(* live widgets (LiveActivity) follow the sessions.  They know a session   *)
(* by its correlation id, which sessions of parallel workers may share:    *)
(* dispatchGenericCoding without a task, as by the coder, tester and       *)
(* verifier of every task, has the id "generic" (utils.ts:88).             *)
(*                                                                         *)
(* What ends the wait for a prompt is a race of the agent's end, an error, *)
(* a stage_return call, the timeout and the operator's abort.  abort() is  *)
(* not waited for: the agent may still call tools, stage_return among them.*)
(***************************************************************************)
EXTENDS LiveActivity, FiniteSets

CONSTANTS Workers,     \* workers of the fan-out
          Cid,         \* of each worker the correlation ids of its sessions in turn
          MaxCalls,    \* bound of the model: stage_return calls of a session
          MaxTimers    \* bound of the model: pending timers of the box

ASSUME DispatcherAssumption ==
  /\ IsFiniteSet(Workers) /\ Workers # {}
  /\ DOMAIN Cid = Workers
  /\ \A w \in Workers : Cid[w] # <<>> /\ Cid[w] \in Seq(STRING \ {NoSession})
  /\ MaxCalls \in Nat /\ MaxTimers \in Nat

VARIABLES
  pc,        \* of each worker's current session
  sessions,  \* sessions that each worker has had
  calls,     \* customToolCalls: the statuses given to stage_return
  alive,     \* the agent still works
  reason,    \* endReason
  outcome,   \* of normalizeStageReturn
  aborted,   \* the operator's signal
  fan,       \* the promise of the fan-out
  over,      \* the run has ended and the presenter is stopped
  screen,
  dropped    \* history: while the session ran, one with the same id ended

dvars ==
  <<pc, sessions, calls, alive, reason, outcome, aborted, fan, over, screen,
    dropped>>

DispatcherInit ==
  /\ pc = [w \in Workers |-> "creating"] /\ sessions = [w \in Workers |-> 1]
  /\ calls = [w \in Workers |-> <<>>] /\ alive = [w \in Workers |-> FALSE]
  /\ reason = [w \in Workers |-> "none"] /\ outcome = [w \in Workers |-> "none"]
  /\ aborted = FALSE /\ fan = "waiting" /\ over = FALSE
  /\ screen = Start(NewScreen) /\ dropped = [w \in Workers |-> FALSE]

Attached(w) == pc[w] \in {"running", "settled"}

\* request.correlationId ?? request.target.name
Id(w) == Cid[w][sessions[w]]

\* Mutant of Created: the signal is listened to but not looked at.
CreatedAnyway(w) ==
  /\ pc[w] = "creating"
  /\ screen' = OnSessionStart(screen, Id(w))
  /\ pc' = [pc EXCEPT ![w] = "running"] /\ alive' = [alive EXCEPT ![w] = TRUE]
  /\ dropped' = [dropped EXCEPT ![w] = FALSE]
  /\ UNCHANGED <<sessions, calls, reason, outcome, aborted, fan, over>>

\* A signal that was aborted before is not listened to any more.
Created(w) ==
  /\ pc[w] = "creating"
  /\ screen' = OnSessionStart(screen, Id(w))
  /\ IF aborted
     THEN /\ pc' = [pc EXCEPT ![w] = "settled"]
          /\ reason' = [reason EXCEPT ![w] = "aborted"]
          /\ UNCHANGED alive
     ELSE /\ pc' = [pc EXCEPT ![w] = "running"]
          /\ alive' = [alive EXCEPT ![w] = TRUE]
          /\ UNCHANGED reason
  /\ dropped' = [dropped EXCEPT ![w] = FALSE]
  /\ UNCHANGED <<sessions, calls, outcome, aborted, fan, over>>

\* The session factory throws: so does dispatch, and Promise.all with it.
CreationFails(w) ==
  /\ pc[w] = "creating"
  /\ pc' = [pc EXCEPT ![w] = "threw"]
  /\ fan' = "rejected"
  /\ UNCHANGED <<sessions, calls, alive, reason, outcome, aborted, over, screen, dropped>>

-----------------------------------------------------------------------------
(* The race for the end of a prompt. *)

Settle(w, why) ==
  /\ pc' = [pc EXCEPT ![w] = "settled"]
  /\ reason' = [reason EXCEPT ![w] = why]

AgentEnds(w) ==
  /\ pc[w] = "running"
  /\ Settle(w, "agent_end")
  /\ alive' = [alive EXCEPT ![w] = FALSE]
  /\ UNCHANGED <<sessions, calls, outcome, aborted, fan, over, screen, dropped>>

PromptFails(w) ==
  /\ pc[w] = "running"
  /\ Settle(w, IF aborted THEN "aborted" ELSE "session_error")
  /\ alive' = [alive EXCEPT ![w] = FALSE]
  /\ UNCHANGED <<sessions, calls, outcome, aborted, fan, over, screen, dropped>>

\* The call is recorded however the race stands.
StageReturn(w, status) ==
  /\ alive[w] /\ Len(calls[w]) < MaxCalls
  /\ calls' = [calls EXCEPT ![w] = Append(@, status)]
  /\ IF pc[w] = "running" THEN Settle(w, "stage_return")
     ELSE UNCHANGED <<pc, reason>>
  /\ UNCHANGED <<sessions, alive, outcome, aborted, fan, over, screen, dropped>>

\* Mutant of Timeout: the session is aborted, the promise not resolved.
TimeoutAborts(w) ==
  /\ pc[w] = "running" /\ alive[w]
  /\ alive' = [alive EXCEPT ![w] = FALSE]
  /\ UNCHANGED <<pc, sessions, calls, reason, outcome, aborted, fan, over, screen, dropped>>

Timeout(w) ==
  /\ pc[w] = "running"
  /\ Settle(w, "timeout")
  /\ UNCHANGED <<sessions, calls, alive, outcome, aborted, fan, over, screen, dropped>>

\* Every session that waits listens to the same signal.
Abort ==
  /\ ~aborted /\ ~over
  /\ aborted' = TRUE
  /\ pc' = [w \in Workers |-> IF pc[w] = "running" THEN "settled" ELSE pc[w]]
  /\ reason' = [w \in Workers |->
                  IF pc[w] = "running" THEN "aborted" ELSE reason[w]]
  /\ UNCHANGED <<sessions, calls, alive, outcome, fan, over, screen, dropped>>

\* session.abort() or dispose() takes effect.
AgentStops(w) ==
  /\ alive[w] /\ pc[w] # "running"
  /\ alive' = [alive EXCEPT ![w] = FALSE]
  /\ UNCHANGED <<pc, sessions, calls, reason, outcome, aborted, fan, over, screen, dropped>>

-----------------------------------------------------------------------------
(* The end of a dispatch. *)

\* Mutant of Normalize: the latest call decides.
NormalizeLast(cs) == IF cs = <<>> THEN "FAIL" ELSE cs[Len(cs)]

\* normalizeStageReturn: the first call decides, whatever ended the wait.
Normalize(cs) == IF cs = <<>> THEN "FAIL" ELSE cs[1]

Return(w) ==
  /\ pc[w] = "settled"
  /\ pc' = [pc EXCEPT ![w] = "returned"]
  /\ outcome' = [outcome EXCEPT ![w] = Normalize(calls[w])]
  /\ screen' = OnSessionEnd(screen, Id(w))
  /\ dropped' = [v \in Workers |->
                   dropped[v] \/ (v # w /\ Attached(v) /\ Id(v) = Id(w))]
  /\ UNCHANGED <<sessions, calls, alive, reason, aborted, fan, over>>

\* dispatch.completed is recorded, and shown after it was written.
Report(w) ==
  /\ pc[w] = "returned"
  /\ pc' = [pc EXCEPT ![w] = "reported"]
  /\ screen' = OnDomainEvent(screen)
  /\ UNCHANGED <<sessions, calls, alive, reason, outcome, aborted, fan, over, dropped>>

\* The next session of the worker: a review, a fix, another round.
NextSession(w) ==
  /\ pc[w] = "reported" /\ sessions[w] < Len(Cid[w]) /\ fan # "resolved"
  /\ pc' = [pc EXCEPT ![w] = "creating"]
  /\ sessions' = [sessions EXCEPT ![w] = @ + 1]
  /\ calls' = [calls EXCEPT ![w] = <<>>] /\ alive' = [alive EXCEPT ![w] = FALSE]
  /\ reason' = [reason EXCEPT ![w] = "none"]
  /\ outcome' = [outcome EXCEPT ![w] = "none"]
  /\ UNCHANGED <<aborted, fan, over, screen, dropped>>

AllReported ==
  /\ fan = "waiting" /\ \A w \in Workers : pc[w] = "reported"
  /\ fan' = "resolved"
  /\ UNCHANGED <<pc, sessions, calls, alive, reason, outcome, aborted, over, screen, dropped>>

\* index.ts: the presenter is stopped when the run has returned or thrown.
RunEnds ==
  /\ fan # "waiting" /\ ~over
  /\ over' = TRUE /\ screen' = StopPresenter(screen)
  /\ UNCHANGED <<pc, sessions, calls, alive, reason, outcome, aborted, fan, dropped>>

-----------------------------------------------------------------------------
(* The live widgets. *)

Activity(w, output) ==
  /\ Attached(w) /\ alive[w]
  /\ screen.timers < MaxTimers \/ ~output
  /\ screen' = OnSessionActivity(screen, Id(w), output)
  /\ UNCHANGED <<pc, sessions, calls, alive, reason, outcome, aborted, fan, over, dropped>>

BoxTimer ==
  /\ screen.timers > 0
  /\ screen' = BoxTimerFires(screen)
  /\ UNCHANGED <<pc, sessions, calls, alive, reason, outcome, aborted, fan, over, dropped>>

Heartbeat ==
  /\ screen.beats
  /\ screen' = [screen EXCEPT !.dash = TRUE]
  /\ UNCHANGED <<pc, sessions, calls, alive, reason, outcome, aborted, fan, over, dropped>>

Statuses == {"PASS", "FAIL"}

DispatcherNext ==
  \/ \E w \in Workers :
       \/ Created(w) \/ CreationFails(w)
       \/ AgentEnds(w) \/ PromptFails(w) \/ Timeout(w) \/ AgentStops(w)
       \/ \E s \in Statuses : StageReturn(w, s)
       \/ Return(w) \/ Report(w) \/ NextSession(w)
       \/ \E output \in BOOLEAN : Activity(w, output)
  \/ Abort \/ AllReported \/ RunEnds \/ BoxTimer \/ Heartbeat

DispatcherSpec == DispatcherInit /\ [][DispatcherNext]_dvars

\* The factory answers, and what follows a settled wait is scheduled by node.
Scheduled(w) == (Created(w) \/ CreationFails(w)) \/ Return(w) \/ Report(w)

\* The agents need not do anything, and the timeouts, an hour long, need not come.
PatientSpec ==
  DispatcherSpec /\ WF_dvars(AllReported) /\ \A w \in Workers : WF_dvars(Scheduled(w))

-----------------------------------------------------------------------------
(* Properties. *)

Reasons == {"agent_end", "stage_return", "aborted", "timeout", "session_error"}

\* Also: a race that is settled has a reason, and a result comes after it.
DispatcherTypeOK ==
  /\ \A w \in Workers :
       /\ pc[w] \in {"creating", "running", "settled", "returned", "reported",
                     "threw"}
       /\ calls[w] \in Seq(Statuses)
       /\ (reason[w] \in Reasons) = (pc[w] \in {"settled", "returned", "reported"})
       /\ (outcome[w] \in Statuses) = (pc[w] \in {"returned", "reported"})
  /\ fan \in {"waiting", "resolved", "rejected"}
  /\ screen.timers \in 0..MaxTimers

\* The outcome of a session is what its agent said first, though it says more
\* before the session is gone, and though a timeout or an abort came in between
\* (stage-return-tool.ts:71); a session ended by the call never loses it.
OutcomeIsAgents ==
  \A w \in Workers : pc[w] \in {"returned", "reported"} =>
    /\ outcome[w] = "PASS" => calls[w] # <<>> /\ calls[w][1] = "PASS"
    /\ reason[w] = "stage_return" => outcome[w] = calls[w][1]

\* The strip and the box are on the screen only while a session is on the
\* board, and every session there runs, also when timers of the throttle are
\* left over (live-activity-presenter.ts:183, 298).
WidgetsShowSessions ==
  /\ screen.strip \/ screen.box => screen.tasks # <<>>
  /\ ToSet(screen.tasks) \subseteq {Id(w) : w \in {v \in Workers : Attached(v)}}

\* As long as the run goes on and a session runs that is the only one of its id, or
\* whose namesakes have not ended since it began, it is on the board and the strip
\* and the box are there, whichever sessions with other ids end around it and
\* whatever timers are left over (live-activity-presenter.ts:177, 298).
VisibleWhileActive ==
  ~over => \A w \in Workers :
    Attached(w) /\ ~dropped[w] => Shows(screen, Id(w)) /\ screen.strip /\ screen.box

\* After a run whose workers all returned, no timer or heartbeat brings a
\* widget back.
QuietAfterResolved ==
  over /\ fan = "resolved" => ~screen.dash /\ ~screen.strip /\ ~screen.box

\* Together: the widgets follow the sessions, from the first to the last.
WidgetsSound ==
  DispatcherTypeOK /\ WidgetsShowSessions /\ VisibleWhileActive /\ QuietAfterResolved

TimersFire == \A w \in Workers : WF_dvars(Timeout(w))

\* A hanging agent does not hang the run: the timeouts end the fan-out.
FanOutEnds == TimersFire => (fan = "waiting" ~> fan # "waiting")

\* An abort ends the fan-out without waiting for timeouts, also when a session
\* is created after it (session-dispatcher.ts:216).
AbortEndsFanOut == aborted /\ fan = "waiting" ~> fan # "waiting"

-----------------------------------------------------------------------------
(* What the documentation says and the code does not do. *)

\* "visible while sessions are active" (live-activity-presenter.ts:6): also when
\* another session with the same correlation id ended.
VisibleWhileAnyRuns ==
  ~over /\ (\E w \in Workers : Attached(w)) => screen.strip /\ screen.box

\* "Stops the heartbeat ticker and clears all widgets; call in finally."
\* (session-activity.ts:45)
WidgetsGoneAfterStop == over => ~screen.dash /\ ~screen.strip /\ ~screen.box

=============================================================================
