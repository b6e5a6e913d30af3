------------------------------ MODULE EventLog ------------------------------
(***************************************************************************)
(* The event log of a run (jsonl-telemetry-sink.ts).  The pipeline and the *)
(* sessions that run in parallel record events; each awaits its own.  The  *)
(* recorder appends one at a time: it numbers the event, reads the whole   *)
(* file and writes it anew with one line more; a file that it cannot read  *)
(* is to it an empty one, and is overwritten.  Writing a file is not       *)
(* atomic: until it is done the file is some prefix of what is written,    *)
(* maybe with a torn last line, and so it stays if the process dies.       *)
(*                                                                         *)
(* A run may be stopped and resumed, by then in another process, which     *)
(* goes on with the file it finds.  run-log.md and metrics-summary.md are  *)
(* derived from the file; of both only the status is modelled.             *)
(***************************************************************************)
EXTENDS Naturals, Sequences, SequencesExt, FiniteSets

CONSTANTS Writers,     \* the pipeline and parallel sessions
          Main,        \* the pipeline
          MaxEvents,   \* bound of the model: events recorded
          MaxProcesses,\* bound of the model: the first process and resumes
          MaxFailures, \* bound of the model: reads and writes that fail
          MaxCrashes   \* bound of the model: crashes

ASSUME EventLogAssumption ==
  /\ Main \in Writers /\ IsFiniteSet(Writers)
  /\ {MaxEvents, MaxProcesses, MaxFailures, MaxCrashes} \subseteq Nat

VARIABLES
  session,  \* of the process: starting, open, closing or down
  processes, failures, crashes,
  made,     \* events recorded so far; the last one's number
  queue,    \* appendQueue: the writers whose events wait
  event,    \* per writer: the event it awaits
  sequence, \* the number of the next line
  writing,  \* per writer: the file that its append is writing, or none
  file,     \* events.jsonl when nobody writes: lines and a torn last one
  answered, \* events whose append has been resolved
  summary   \* the status in run-log.md and the one in metrics-summary.md

vars == <<session, processes, failures, crashes, made, queue, event, sequence,
          writing, file, answered, summary>>

NoEvent == [n |-> 0, kind |-> "none"]
Nothing == [busy |-> FALSE, lines |-> <<>>, torn |-> FALSE]
Empty == [lines |-> <<>>, torn |-> FALSE]
Terminal == {"run.completed", "run.aborted"}

Init ==
  /\ session = "starting" /\ processes = 1 /\ failures = 0 /\ crashes = 0
  /\ made = 0 /\ queue = <<>> /\ event = [w \in Writers |-> NoEvent]
  /\ sequence = 1 /\ writing = [w \in Writers |-> Nothing]
  /\ file = Empty
  /\ answered = {} /\ summary = [log |-> "none", metrics |-> "none"]

Idle(w) == event[w] = NoEvent

Awaits(w, kind) ==
  /\ Idle(w) /\ made < MaxEvents
  /\ made' = made + 1
  /\ event' = [event EXCEPT ![w] = [n |-> made + 1, kind |-> kind]]
  /\ queue' = Append(queue, w)

\* run.started in the first process, run.resumed in the others.
RecordStart ==
  /\ session = "starting"
  /\ Awaits(Main, IF processes = 1 THEN "run.started" ELSE "run.resumed")
  /\ session' = "open"
  /\ UNCHANGED <<processes, failures, crashes, sequence, writing, file, answered,
                 summary>>

\* Any other event; sessions run only once the pipeline has started.
Record(w) ==
  /\ session \in {"open", "closing"} /\ (w = Main => session = "open")
  /\ Awaits(w, "other")
  /\ UNCHANGED <<session, processes, failures, crashes, sequence, writing, file,
                 answered, summary>>

\* The run ends; when it is aborted other sessions may go on (Dispatcher).
RecordEnd(kind) ==
  /\ session = "open"
  /\ kind = "run.completed" => \A w \in Writers : Idle(w)
  /\ Awaits(Main, kind)
  /\ session' = "closing"
  /\ UNCHANGED <<processes, failures, crashes, sequence, writing, file, answered,
                 summary>>

-----------------------------------------------------------------------------
(* Appending. *)

Quiet == \A w \in Writers : ~writing[w].busy

\* The first of the queue numbers its event and starts to write what it has
\* read and one line more.
Writes(w, read) ==
  /\ queue # <<>> /\ Head(queue) = w /\ Quiet
  /\ writing' = [writing EXCEPT ![w] =
       [busy |-> TRUE, torn |-> read.torn,
        lines |-> Append(read.lines, [seq |-> sequence, event |-> event[w]])]]
  /\ sequence' = sequence + 1
  /\ UNCHANGED <<session, processes, crashes, made, queue, event, file, answered,
                 summary>>

\* Mutant of Begin: nothing is appended behind a rejected append.
BeginUnlessFailed(w) ==
  failures = 0 /\ Writes(w, file) /\ UNCHANGED failures

Begin(w) == Writes(w, file) /\ UNCHANGED failures

\* readSafe: the error is swallowed, the whole file will be overwritten.
ReadFails(w) ==
  /\ failures < MaxFailures /\ failures' = failures + 1
  /\ Writes(w, Empty)

Done(w) ==
  /\ writing' = [writing EXCEPT ![w] = Nothing]
  /\ event' = [event EXCEPT ![w] = NoEvent]
  /\ queue' = Tail(queue)

End(w) ==
  /\ writing[w].busy
  /\ file' = [lines |-> writing[w].lines, torn |-> writing[w].torn]
  /\ answered' = answered \cup {event[w].n}
  /\ Done(w)
  /\ UNCHANGED <<session, processes, failures, crashes, made, sequence, summary>>

\* What a file can be that was to be f.  (Where a torn line is in it is not
\* kept; writes go on after one and only a resume empties the file.)
Partial(f) ==
  {[lines |-> SubSeq(f.lines, 1, k), torn |-> t] :
     k \in 0..Len(f.lines), t \in BOOLEAN} \ {[lines |-> f.lines, torn |-> ~f.torn]}

\* Mutant of WriteFails: the append is tried again.
WriteFailsRetries(w) ==
  /\ writing[w].busy /\ failures < MaxFailures
  /\ failures' = failures + 1
  /\ file' \in Partial(writing[w]) \cup {file}
  /\ writing' = [writing EXCEPT ![w] = Nothing]
  /\ UNCHANGED <<session, processes, crashes, made, queue, event, sequence,
                 answered, summary>>

\* The file could not be opened or the disk is full: the append is rejected,
\* the next one has its turn.
WriteFails(w) ==
  /\ writing[w].busy /\ failures < MaxFailures
  /\ failures' = failures + 1
  /\ file' \in Partial(writing[w]) \cup {file}
  /\ Done(w)
  /\ UNCHANGED <<session, processes, crashes, made, sequence, answered, summary>>

OnDisk ==
  IF Quiet THEN {file}
  ELSE UNION {Partial(writing[w]) : w \in {v \in Writers : writing[v].busy}}

-----------------------------------------------------------------------------
(* The derived files. *)

\* What a reader finds: JSON.parse of a torn line throws, and there are none.
Events(f) == IF f.torn THEN <<>> ELSE f.lines

Kinds(ls) == {ls[i].event.kind : i \in DOMAIN ls}
LastEnd(ls) ==
  LET ends == SelectSeq(ls, LAMBDA l : l.event.kind \in Terminal)
  IN IF ends = <<>> THEN "none" ELSE Last(ends).event.kind

\* renderRunLog, resolveRunStatus
LogStatus(ls) ==
  IF LastEnd(ls) = "none" THEN "in-progress"
  ELSE IF "run.aborted" \in Kinds(ls) THEN "aborted" ELSE "completed"

\* renderMetricsSummary; through: the next stage is "done", and the run has not
\* ended as PARTIAL.  "completed" stands for completed-pass, -partial and -fail.
MetricsStatus(ls, through) ==
  IF LastEnd(ls) = "run.aborted" THEN "aborted"
  ELSE IF through THEN "completed" ELSE "stopped-partial"

\* Written by the pipeline alone, between two of its events; a session of an
\* aborted run may be writing the file that is read.
Regenerate ==
  /\ session \in {"open", "closing"} /\ Idle(Main)
  /\ \E f, g \in OnDisk, through \in BOOLEAN :
       summary' = [log |-> LogStatus(Events(f)),
                   metrics |-> MetricsStatus(Events(g), through)]
  /\ UNCHANGED <<session, processes, failures, crashes, made, queue, event,
                 sequence, writing, file, answered>>

-----------------------------------------------------------------------------
(* Processes. *)

Dies ==
  /\ session' = "down"
  /\ queue' = <<>> /\ event' = [w \in Writers |-> NoEvent]
  /\ writing' = [w \in Writers |-> Nothing]

\* The run has ended and the process with it, or goes on with other things.
Leave ==
  /\ session = "closing" /\ \A w \in Writers : Idle(w)
  /\ Dies
  /\ UNCHANGED <<processes, failures, crashes, made, sequence, file, answered,
                 summary>>

Crash ==
  /\ session # "down" /\ crashes < MaxCrashes
  /\ crashes' = crashes + 1
  /\ Dies
  /\ file' \in OnDisk
  /\ UNCHANGED <<processes, failures, made, sequence, answered, summary>>

\* initialize with the events found: without any, the file is emptied.
Initializes(found) ==
  /\ session = "down" /\ processes < MaxProcesses
  /\ processes' = processes + 1 /\ session' = "starting"
  /\ sequence' = Len(found) + 1
  /\ file' = [lines |-> found, torn |-> FALSE]
  /\ UNCHANGED <<crashes, made, queue, event, writing, answered, summary>>

Resume == Initializes(Events(file)) /\ UNCHANGED failures

\* readEvents: a file that cannot be read has no events.
ResumeUnread ==
  /\ failures < MaxFailures /\ failures' = failures + 1
  /\ Initializes(<<>>)

Next ==
  \/ RecordStart \/ \E w \in Writers : Record(w)
  \/ \E kind \in Terminal : RecordEnd(kind)
  \/ \E w \in Writers : Begin(w) \/ ReadFails(w) \/ End(w) \/ WriteFails(w)
  \/ Regenerate \/ Leave \/ Crash \/ Resume \/ ResumeUnread

Spec == Init /\ [][Next]_vars

\* The file system answers; node runs what follows.
FairSpec ==
  Spec /\ \A w \in Writers : /\ WF_vars(Begin(w) \/ ReadFails(w))
                             /\ WF_vars(End(w) \/ WriteFails(w))

-----------------------------------------------------------------------------
(* Properties. *)

EventLogTypeOK ==
  /\ session \in {"starting", "open", "closing", "down"}
  /\ made \in 0..MaxEvents /\ answered \subseteq 1..made
  /\ \A w \in Writers : (w \in ToSet(queue)) = ~Idle(w)
  /\ sequence \in 1..(MaxEvents + 1)
  /\ \A i \in DOMAIN file.lines : file.lines[i].event.n \in 1..made

\* Unless a read or a write failed, line i has the number i, whichever process wrote it
\* and though lines were lost in a crash: event_id names one line.
LinesNumbered ==
  failures = 0 => \A i \in DOMAIN file.lines : file.lines[i].seq = i

\* Without failures and crashes the log holds the recorded events, each once,
\* in the order in which they were recorded, whoever recorded them and over all
\* resumes: an answered one is there, and what is there is answered.
LogIsHistory ==
  failures = 0 /\ crashes = 0 =>
    /\ {file.lines[i].event.n : i \in DOMAIN file.lines} = answered
    /\ \A i, j \in DOMAIN file.lines :
         i < j => file.lines[i].event.n < file.lines[j].event.n

\* Lines are never reordered nor repeated, also after failed reads and writes and
\* after crashes.
NoLineTwice ==
  \A i, j \in DOMAIN file.lines :
    i < j => file.lines[i].event.n < file.lines[j].event.n

\* Together: the log is the numbered history, as far as files and processes
\* allow, and whatever they do no line is in it twice.
LogSound == EventLogTypeOK /\ LinesNumbered /\ LogIsHistory /\ NoLineTwice

\* An append is answered, also after one before it failed (line 104).
RecordIsAnswered == \A w \in Writers : ~Idle(w) ~> Idle(w)

-----------------------------------------------------------------------------
(* What the documentation says and the code does not do. *)

\* "every event ... is appended as JSONL" (mental-model.md:258): what was
\* appended once stays in the log.
AnsweredSurvives ==
  Quiet => answered \subseteq {file.lines[i].event.n : i \in DOMAIN file.lines}

\* "derived run-log.md and metrics-summary.md" (mental-model.md:258): the two
\* tell the same of the run.
SummariesAgree == (summary.log = "aborted") = (summary.metrics = "aborted")

=============================================================================
