---------------------------- MODULE LiveActivity ----------------------------
(***************************************************************************)
(* The presenter of live-activity-presenter.ts as operators on its state:  *)
(* the map of sessions in insertion order, the session last active, which  *)
(* of the three widgets are on the screen, the heartbeat and the timers of *)
(* the throttled box.  What the widgets say is left out; there is a UI and *)
(* at least one breadcrumb, since sessions start after run.started.        *)
(***************************************************************************)
EXTENDS Naturals, Sequences, SequencesExt

NoSession == "none"

NewScreen ==
  [tasks |-> <<>>, active |-> NoSession, dash |-> FALSE, strip |-> FALSE,
   box |-> FALSE, pending |-> FALSE, timers |-> 0, beats |-> FALSE]

Shows(u, c) == c \in ToSet(u.tasks)

Start(u) == [u EXCEPT !.dash = TRUE, !.beats = TRUE]

RepaintBox(u) == [u EXCEPT !.box = Shows(u, u.active)]

RepaintAll(u) ==
  [RepaintBox(u) EXCEPT !.dash = TRUE, !.strip = TRUE, !.pending = FALSE]

\* Map.set keeps the place of a key that is there.
OnSessionStart(u, c) ==
  RepaintAll([u EXCEPT !.tasks = IF Shows(u, c) THEN @ ELSE Append(@, c),
                       !.active = c])

\* setTimeout; the handle of a timer that is still to fire is overwritten.
ScheduleBoxRepaint(u) ==
  IF u.pending THEN u
  ELSE [u EXCEPT !.pending = TRUE, !.timers = @ + 1]

\* A turn, a tool or text repaints at once, output of a tool later.
OnSessionActivity(u, c, output) ==
  LET active == [u EXCEPT !.active = c] IN
  IF ~Shows(u, c) THEN u
  ELSE IF output THEN ScheduleBoxRepaint(active) ELSE RepaintAll(active)

\* Map.delete: the others keep their places.
Without(tasks, c) ==
  IF c \in ToSet(tasks) THEN RemoveAt(tasks, CHOOSE i \in DOMAIN tasks : tasks[i] = c)
  ELSE tasks

OnSessionEnd(u, c) ==
  LET left == Without(u.tasks, c)
      next == IF u.active # c THEN u.active
              ELSE IF left = <<>> THEN NoSession ELSE Last(left)
      v == [u EXCEPT !.tasks = left, !.active = next, !.dash = TRUE]
  IN IF left = <<>> THEN [v EXCEPT !.strip = FALSE, !.box = FALSE]
     ELSE RepaintAll(v)

OnDomainEvent(u) ==
  [u EXCEPT !.dash = TRUE, !.strip = @ \/ u.tasks # <<>>]

\* Mutant of BoxTimerFires: the box of the session it was scheduled for.
BoxTimerPaints(u) ==
  [u EXCEPT !.timers = @ - 1, !.pending = FALSE, !.box = TRUE]

BoxTimerFires(u) ==
  RepaintBox([u EXCEPT !.timers = @ - 1, !.pending = FALSE])

\* Only the timer started last is known, and it is the last one to fire.
StopPresenter(u) ==
  [u EXCEPT !.beats = FALSE, !.timers = IF @ = 0 THEN 0 ELSE @ - 1,
            !.dash = FALSE, !.strip = FALSE, !.box = FALSE]

=============================================================================
