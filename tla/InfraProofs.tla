----------------------------- MODULE InfraProofs -----------------------------
(***************************************************************************)
(* Proofs about three parts of the infrastructure that work beside the     *)
(* loop.                                                                   *)
(*                                                                         *)
(* EventLog, for any writers and any number of events, failed reads and    *)
(* writes, crashes and processes: no line is repeated or reordered; as     *)
(* long as nothing fails the log is the history, and as long as no read or *)
(* write fails lines are numbered by their place.  The invariant follows   *)
(* an event from the queue to the file: events wait in the order in which  *)
(* they were made, those in the file are older than all that wait, and     *)
(* only the first of the queue is being written.                           *)
(*                                                                         *)
(* Dispatcher, for any workers, sessions, calls and timers: the outcome of *)
(* a session is its agent's first answer, and the widgets follow the       *)
(* sessions.  The invariant is about the race for the end of a prompt, and *)
(* about the board of the presenter.                                       *)
(*                                                                         *)
(* Cassette, for any program of fan-outs, any keys and any overlap of its  *)
(* sessions: until a replay is astray it answers each request and each     *)
(* gate as recorded and brings back the files that no capture lost, and it *)
(* goes astray for one of two causes.  The invariant counts: what has      *)
(* started has taken one ordinal each, in an order that every run of the   *)
(* program keeps, and the replay has served the entries of what it has     *)
(* started.                                                                *)
(***************************************************************************)
EXTENDS EventLog, Dispatcher, Cassette, Integers, FiniteSetTheorems,
        WellFoundedInduction, SequenceTheorems, TLAPS

(* The event log.                                                          *)

EventKinds == {"none", "run.started", "run.resumed", "other"} \cup Terminal
EventSet == [n : Nat, kind : EventKinds]
Lines == [seq : Nat, event : EventSet]

Types ==
  /\ session \in {"starting", "open", "closing", "down"}
  /\ made \in 0..MaxEvents /\ failures \in Nat /\ crashes \in Nat
  /\ queue \in Seq(Writers) /\ event \in [Writers -> EventSet]
  /\ sequence \in Nat \ {0}
  /\ writing \in [Writers -> [busy : BOOLEAN, lines : Seq(Lines), torn : BOOLEAN]]
  /\ file \in [lines : Seq(Lines), torn : BOOLEAN]
  /\ answered \in SUBSET (1..made)

\* Who waits is in the queue; it holds events in the order they were made.
Queueing ==
  /\ \A i \in DOMAIN queue : ~Idle(queue[i]) /\ event[queue[i]].n \in 1..made
  /\ \A w \in Writers : ~Idle(w) => \E i \in DOMAIN queue : queue[i] = w
  /\ \A i, j \in DOMAIN queue : i < j => event[queue[i]].n < event[queue[j]].n
  /\ session = "down" => queue = <<>>

\* The first of the queue writes one line after those that it has read: those of
\* the file, or none.
WritingFirst ==
  \A w \in Writers : writing[w].busy =>
    /\ queue # <<>> /\ queue[1] = w
    /\ \E read \in {file, Empty} :
         /\ writing[w].lines = Append(read.lines, [seq |-> sequence - 1, event |-> event[w]])
         /\ writing[w].torn = read.torn
         /\ failures = 0 => read = file

\* Events from the lines of a file on are of ever later events.
Ordered(ls) ==
  /\ \A i \in DOMAIN ls : ls[i].event.n \in 1..made /\ i <= ls[i].event.n
  /\ \A i, j \in DOMAIN ls : i < j => ls[i].event.n < ls[j].event.n

Numbered(ls) == \A i \in DOMAIN ls : ls[i].seq = i

Filed ==
  /\ Ordered(file.lines)
  /\ \A i \in DOMAIN file.lines, j \in DOMAIN queue :
       file.lines[i].event.n < event[queue[j]].n

Counting ==
  /\ sequence + Len(queue) <= made + (IF Quiet THEN 1 ELSE 2)
  /\ failures = 0 =>
       /\ Numbered(file.lines)
       /\ session # "down" => sequence = Len(file.lines) + (IF Quiet THEN 1 ELSE 2)
  /\ failures = 0 /\ crashes = 0 =>
       /\ ~file.torn
       /\ {file.lines[i].event.n : i \in DOMAIN file.lines} = answered

IInv == Types /\ Queueing /\ WritingFirst /\ Filed /\ Counting

-----------------------------------------------------------------------------
LEMMA InitHolds == Init => IInv
<1> SUFFICES ASSUME Init PROVE IInv
  OBVIOUS
<1>1. /\ made = 0 /\ failures = 0 /\ crashes = 0 /\ sequence = 1 /\ queue = <<>>
      /\ session = "starting" /\ answered = {} /\ file.lines = <<>>
      /\ \A w \in Writers : event[w] = NoEvent /\ writing[w] = Nothing
  BY DEF Init, Empty
<1>2. ~file.torn /\ file \in [lines : Seq(Lines), torn : BOOLEAN]
  <2>1. <<>> \in Seq(Lines) /\ FALSE \in BOOLEAN
    OBVIOUS
  <2> QED
    BY <2>1, Zenon DEF Init, Empty
<1>3. ~Nothing.busy /\ Nothing \in [busy : BOOLEAN, lines : Seq(Lines), torn : BOOLEAN]
  <2>1. <<>> \in Seq(Lines) /\ FALSE \in BOOLEAN
    OBVIOUS
  <2> QED
    BY <2>1, Zenon DEF Nothing
<1>4. event \in [Writers -> EventSet]
      /\ writing \in [Writers -> [busy : BOOLEAN, lines : Seq(Lines), torn : BOOLEAN]]
  <2>1. NoEvent \in EventSet
    BY DEF NoEvent, EventSet, EventKinds
  <2>2. event = [w \in Writers |-> NoEvent] /\ writing = [w \in Writers |-> Nothing]
    BY DEF Init
  <2> HIDE DEF Init
  <2> QED
    BY <1>3, <2>1, <2>2, Zenon
<1>5. Types
  BY <1>1, <1>2, <1>4, EventLogAssumption DEF Types
<1>6. Queueing /\ WritingFirst /\ Filed
  BY <1>1, <1>3 DEF Queueing, Idle, WritingFirst, Filed, Ordered
<1>7. Counting
  BY <1>1, <1>2, <1>3 DEF Counting, Numbered, Quiet
<1> QED
  BY <1>5, <1>6, <1>7 DEF IInv

\* A new event is later than all that wait and all that are filed.
LEMMA AwaitsKeeps ==
  ASSUME IInv, NEW w \in Writers, NEW kind \in EventKinds, Awaits(w, kind),
         session # "down", session' \in {"open", "closing"},
         UNCHANGED <<failures, crashes, sequence, writing, file, answered>>
  PROVE  IInv'
<1> USE DEF IInv
<1> DEFINE n == Len(queue)
<1>0. /\ Idle(w) /\ made < MaxEvents /\ made' = made + 1 /\ made \in Nat
      /\ event' = [event EXCEPT ![w] = [n |-> made + 1, kind |-> kind]]
      /\ queue' = Append(queue, w) /\ n \in Nat
      /\ [n |-> made + 1, kind |-> kind] \in EventSet
  BY EventLogAssumption DEF Awaits, Types, EventSet
<1>1. /\ event' \in [Writers -> EventSet] /\ event'[w].n = made + 1
      /\ \A v \in Writers : v # w => event'[v] = event[v]
      /\ queue' \in Seq(Writers) /\ Len(queue') = n + 1 /\ queue'[n + 1] = w
      /\ \A i \in 1..n : queue'[i] = queue[i] /\ queue[i] \in Writers /\ queue[i] # w
      /\ DOMAIN queue = 1..n /\ DOMAIN queue' = 1..(n + 1)
  BY <1>0 DEF Types, Queueing
<1> HIDE DEF n
<1>2. \A i \in 1..n : event'[queue'[i]] = event[queue[i]] /\ event[queue[i]].n \in 1..made
  BY <1>1 DEF Queueing
<1>3. Types'
  BY <1>0, <1>1, EventLogAssumption DEF Types
<1>4. Queueing'
  <2>1. \A v \in Writers : event'[v] # NoEvent => \E i \in DOMAIN queue' : queue'[i] = v
    <3> SUFFICES ASSUME NEW v \in Writers, event'[v] # NoEvent
                 PROVE  \E i \in DOMAIN queue' : queue'[i] = v
      OBVIOUS
    <3>1. CASE v = w
      BY <1>0, <1>1, <3>1
    <3>2. CASE v # w
      <4>1. ~Idle(v)
        BY <1>1, <3>2 DEF Idle
      <4>2. PICK i \in 1..n : queue[i] = v
        BY <1>1, <4>1 DEF Queueing
      <4> QED
        BY <1>0, <1>1, <4>2
    <3> QED
      BY <3>1, <3>2
  <2>2. \A i \in DOMAIN queue' : event'[queue'[i]] # NoEvent /\ event'[queue'[i]].n \in 1..made'
    <3>1. \A i \in DOMAIN queue' : event'[queue'[i]].n \in 1..made'
      BY <1>0, <1>1, <1>2
    <3>2. NoEvent.n = 0
      BY DEF NoEvent
    <3> QED
      BY <3>1, <3>2
  <2>3. \A i, j \in DOMAIN queue' : i < j => event'[queue'[i]].n < event'[queue'[j]].n
    <3> SUFFICES ASSUME NEW i \in 1..(n + 1), NEW j \in 1..(n + 1), i < j
                 PROVE  event'[queue'[i]].n < event'[queue'[j]].n
      BY <1>1
    <3>1. i \in 1..n /\ (j \in 1..n \/ j = n + 1)
      BY <1>0
    <3>2. CASE j \in 1..n
      <4>1. event[queue[i]].n < event[queue[j]].n
        BY <1>1, <3>1, <3>2 DEF Queueing
      <4> QED
        BY <1>2, <3>1, <3>2, <4>1
    <3>3. CASE j = n + 1
      <4>1. event'[queue'[i]].n \in 1..made /\ event'[queue'[j]].n = made + 1
        BY <1>1, <1>2, <3>1, <3>3
      <4> DEFINE x == event'[queue'[i]].n
      <4>2. x \in 1..made /\ made \in Nat
        BY <1>0, <4>1
      <4> HIDE DEF x
      <4>3. x < made + 1
        BY <4>2
      <4> QED
        BY <4>1, <4>3 DEF x
    <3> QED
      BY <3>1, <3>2, <3>3
  <2> QED
    BY <2>1, <2>2, <2>3 DEF Queueing, Idle
<1>5. WritingFirst'
  <2> SUFFICES ASSUME NEW v \in Writers, writing[v].busy
               PROVE  /\ queue' # <<>> /\ queue'[1] = v /\ event'[v] = event[v]
    BY DEF WritingFirst
  <2>1. queue # <<>> /\ queue[1] = v
    BY DEF WritingFirst
  <2>2. 1 \in 1..n
    BY <2>1 DEF n, Types
  <2> QED
    BY <1>0, <1>1, <2>1, <2>2
<1>6. Filed'
  <2>1. \A i \in DOMAIN file.lines : file.lines[i].event.n \in 1..made
    BY DEF Filed, Ordered
  <2>2. Ordered(file.lines)'
    BY <1>0, <2>1 DEF Filed, Ordered
  <2>3. \A i \in DOMAIN file.lines, j \in 1..(n + 1) :
          file.lines[i].event.n < event'[queue'[j]].n
    <3> SUFFICES ASSUME NEW i \in DOMAIN file.lines, NEW j \in 1..(n + 1)
                 PROVE  file.lines[i].event.n < event'[queue'[j]].n
      OBVIOUS
    <3>1. j \in 1..n \/ j = n + 1
      BY <1>0
    <3> QED
      BY <1>0, <1>1, <1>2, <2>1, <3>1 DEF Filed
  <2> QED
    BY <1>1, <2>2, <2>3 DEF Filed
<1>7. Counting'
  <2>1. Quiet' <=> Quiet
    BY DEF Quiet
  <2> QED
    BY <1>0, <1>1, <2>1 DEF Counting, Numbered, Types, n
<1> QED
  BY <1>3, <1>4, <1>5, <1>6, <1>7

\* An append begins with what it has read.
LEMMA WritesKeeps ==
  ASSUME IInv, NEW w \in Writers, NEW read \in {file, Empty}, Writes(w, read),
         failures' \in Nat, failures' = 0 => failures = 0 /\ read = file
  PROVE  IInv'
<1> USE DEF IInv
<1> DEFINE line == [seq |-> sequence, event |-> event[w]]
           new == [busy |-> TRUE, torn |-> read.torn, lines |-> Append(read.lines, line)]
<1>0. /\ queue # <<>> /\ queue[1] = w /\ Quiet /\ sequence' = sequence + 1
      /\ writing' = [writing EXCEPT ![w] = new]
      /\ UNCHANGED <<session, made, queue, event, file, answered, crashes>>
  BY DEF Writes
<1>1. line \in Lines /\ read.lines \in Seq(Lines) /\ read.torn \in BOOLEAN
  <2>1. CASE read = file
    BY <2>1 DEF Types, Lines
  <2>2. CASE read = Empty
    BY <2>2 DEF Types, Lines, Empty
  <2> QED
    BY <2>1, <2>2
<1>2. /\ Append(read.lines, line) \in Seq(Lines)
  BY <1>1
<1>3. new \in [busy : BOOLEAN, lines : Seq(Lines), torn : BOOLEAN] /\ new.busy
      /\ new.lines = Append(read.lines, line) /\ new.torn = read.torn
  <2> HIDE DEF line
  <2> QED
    BY <1>1, <1>2, Zenon
<1> HIDE DEF new
<1>4. writing'[w] = new /\ \A v \in Writers : v # w => writing'[v] = writing[v]
  BY <1>0 DEF Types
<1>5. Types'
  BY <1>0, <1>3 DEF Types
<1>6. Queueing' /\ Filed'
  BY <1>0 DEF Queueing, Idle, Filed, Ordered
<1>7. WritingFirst'
  <2>1. \A v \in Writers : writing'[v].busy => v = w
    BY <1>0, <1>4 DEF Quiet
  <2>2. sequence' - 1 = sequence
    BY <1>0 DEF Types
  <2> SUFFICES ASSUME NEW v \in Writers, writing'[v].busy
               PROVE  /\ queue' # <<>> /\ queue'[1] = v
                      /\ \E r \in {file', Empty} :
                           /\ writing'[v].lines
                                = Append(r.lines, [seq |-> sequence' - 1, event |-> event'[v]])
                           /\ writing'[v].torn = r.torn
                           /\ failures' = 0 => r = file'
    BY DEF WritingFirst
  <2>3. v = w /\ writing'[v] = new
    BY <1>4, <2>1
  <2>4. writing'[v].lines = Append(read.lines, [seq |-> sequence' - 1, event |-> event'[v]])
    BY <1>0, <1>3, <2>2, <2>3
  <2>5. writing'[v].torn = read.torn /\ read \in {file', Empty} /\ (failures' = 0 => read = file')
    BY <1>0, <1>3, <2>3
  <2> QED
    BY <1>0, <2>3, <2>4, <2>5
<1>8. ~Quiet'
  BY <1>3, <1>4 DEF Quiet
<1>9. Counting'
  BY <1>0, <1>8 DEF Counting, Numbered, Types, Queueing
<1> QED
  BY <1>5, <1>6, <1>7, <1>9

LEMMA BeginKeeps == ASSUME IInv, NEW w \in Writers, Begin(w) PROVE IInv'
<1>1. Writes(w, file) /\ failures' = failures /\ failures \in Nat
  BY DEF Begin, IInv, Types
<1> QED
  BY <1>1, WritesKeeps

LEMMA ReadFailsKeeps == ASSUME IInv, NEW w \in Writers, ReadFails(w) PROVE IInv'
<1>1. Writes(w, Empty) /\ failures' = failures + 1 /\ failures \in Nat
  BY DEF ReadFails, IInv, Types
<1> QED
  BY <1>1, WritesKeeps

\* What is being written: what was read and one line more, still in order.
LEMMA WrittenIs ==
  ASSUME IInv, NEW w \in Writers, writing[w].busy
  PROVE  /\ [lines |-> writing[w].lines, torn |-> writing[w].torn]
              \in [lines : Seq(Lines), torn : BOOLEAN]
         /\ failures = 0 => /\ Len(writing[w].lines) = Len(file.lines) + 1
                            /\ writing[w].torn = file.torn
         /\ Ordered(writing[w].lines)
         /\ \A i \in DOMAIN writing[w].lines : writing[w].lines[i].event.n <= event[w].n
         /\ failures = 0 => Numbered(writing[w].lines)
         /\ failures = 0 => {writing[w].lines[i].event.n : i \in DOMAIN writing[w].lines}
                             = {file.lines[i].event.n : i \in DOMAIN file.lines} \cup {event[w].n}
         /\ session # "down" /\ ~Quiet
<1> USE DEF IInv
<1>a. PICK read \in {file, Empty} :
        /\ writing[w].lines = Append(read.lines, [seq |-> sequence - 1, event |-> event[w]])
        /\ writing[w].torn = read.torn
        /\ failures = 0 => read = file
  BY DEF WritingFirst
<1> DEFINE old == read.lines
           m == Len(old)
           ls == writing[w].lines
           line == [seq |-> sequence - 1, event |-> event[w]]
<1>1. /\ queue # <<>> /\ queue[1] = w /\ ls = Append(old, line)
      /\ old \in Seq(Lines) /\ m \in Nat /\ ls \in Seq(Lines) /\ writing[w].torn \in BOOLEAN
  <2>1. queue # <<>> /\ queue[1] = w
    BY DEF WritingFirst
  <2>2. ls = Append(old, line)
    BY <1>a
  <2>3. ls \in Seq(Lines) /\ writing[w].torn \in BOOLEAN
    BY DEF Types
  <2>4. old \in Seq(Lines)
    <3>1. CASE read = file
      BY <3>1 DEF Types
    <3>2. CASE read = Empty
      BY <3>2 DEF Empty
    <3> QED
      BY <3>1, <3>2
  <2> QED
    BY <2>1, <2>2, <2>3, <2>4
<1>b. /\ Ordered(old)
      /\ \A i \in DOMAIN old, j \in DOMAIN queue : old[i].event.n < event[queue[j]].n
      /\ failures = 0 => /\ old = file.lines /\ Numbered(old)
                         /\ writing[w].torn = file.torn
                         /\ session # "down" => sequence = m + (IF Quiet THEN 1 ELSE 2)
  <2>1. CASE read = file
    BY <1>a, <2>1 DEF Filed, Counting
  <2>2. CASE read = Empty
    <3>1. old = <<>>
      BY <2>2 DEF Empty
    <3>2. failures = 0 => read = file
      BY <1>a
    <3>3. CASE failures = 0
      BY <1>a, <3>2, <3>3 DEF Filed, Counting
    <3>4. CASE failures # 0
      BY <3>1, <3>4 DEF Ordered
    <3> QED
      BY <3>3, <3>4
  <2> QED
    BY <2>1, <2>2
<1>2. 1 \in DOMAIN queue
  BY <1>1 DEF Types
<1>3. /\ Len(ls) = m + 1 /\ DOMAIN ls = 1..(m + 1) /\ DOMAIN old = 1..m
      /\ ls[m + 1] = line /\ \A i \in 1..m : ls[i] = old[i]
  BY <1>1
<1>c. failures = 0 => m = Len(file.lines)
  BY <1>b
<1> HIDE DEF m, ls, old
<1>4. line.event.n = event[w].n /\ line.seq = sequence - 1
  OBVIOUS
<1> HIDE DEF line
<1>5. event[w].n \in 1..made /\ made \in Nat
      /\ \A i \in 1..m : old[i].event.n < event[w].n /\ old[i].event.n \in 1..made
  <2>1. event[w].n \in 1..made /\ made \in Nat
    BY <1>1, <1>2 DEF Queueing, Types
  <2>2. \A i \in DOMAIN old : old[i].event.n < event[queue[1]].n
    BY <1>2, <1>b
  <2>3. \A i \in DOMAIN old : old[i].event.n \in 1..made
    BY <1>b DEF Ordered
  <2> QED
    BY <1>1, <1>3, <2>1, <2>2, <2>3
<1>6. m + 1 <= event[w].n
  <2>1. CASE m = 0
    BY <1>5, <2>1
  <2>2. CASE m > 0
    <3>1. m \in 1..m
      BY <1>1, <2>2
    <3>2. m <= old[m].event.n
      BY <1>3, <1>b, <3>1 DEF Ordered
    <3>3. old[m].event.n < event[w].n /\ old[m].event.n \in 1..made
      BY <1>5, <3>1
    <3> QED
      BY <1>1, <1>5, <3>2, <3>3
  <2> QED
    BY <1>1, <2>1, <2>2
<1>7. Ordered(ls)
  <2>1. \A i \in DOMAIN ls : ls[i].event.n \in 1..made /\ i <= ls[i].event.n
    <3> SUFFICES ASSUME NEW i \in 1..(m + 1)
                 PROVE  ls[i].event.n \in 1..made /\ i <= ls[i].event.n
      BY <1>3
    <3>1. CASE i = m + 1
      BY <1>3, <1>4, <1>5, <1>6, <3>1
    <3>2. CASE i \in 1..m
      BY <1>3, <1>5, <1>b, <3>2 DEF Ordered
    <3>3. i = m + 1 \/ i \in 1..m
      BY <1>1
    <3> QED
      BY <3>1, <3>2, <3>3
  <2>2. \A i, j \in DOMAIN ls : i < j => ls[i].event.n < ls[j].event.n
    <3> SUFFICES ASSUME NEW i \in 1..(m + 1), NEW j \in 1..(m + 1), i < j
                 PROVE  ls[i].event.n < ls[j].event.n
      BY <1>3
    <3>1. i \in 1..m /\ (j \in 1..m \/ j = m + 1)
      BY <1>1
    <3> QED
      BY <1>3, <1>4, <1>5, <1>b, <3>1 DEF Ordered
  <2> QED
    BY <2>1, <2>2 DEF Ordered
<1>8. \A i \in DOMAIN ls : ls[i].event.n <= event[w].n
  <2> SUFFICES ASSUME NEW i \in 1..(m + 1) PROVE ls[i].event.n <= event[w].n
    BY <1>3
  <2>1. i \in 1..m \/ i = m + 1
    BY <1>1
  <2> QED
    BY <1>3, <1>4, <1>5, <2>1
<1>9. ~Quiet /\ session # "down"
  BY <1>1 DEF Quiet, Queueing
<1>10. failures = 0 => Numbered(ls)
  <2> SUFFICES ASSUME failures = 0, NEW i \in 1..(m + 1) PROVE ls[i].seq = i
    BY <1>3 DEF Numbered
  <2>1. i \in 1..m \/ i = m + 1
    BY <1>1
  <2>2. sequence = m + 2 /\ \A k \in 1..m : old[k].seq = k
    BY <1>3, <1>9, <1>b DEF Numbered
  <2> QED
    BY <1>1, <1>3, <1>4, <2>1, <2>2
<1>11. {ls[i].event.n : i \in DOMAIN ls} = {old[i].event.n : i \in DOMAIN old} \cup {event[w].n}
  <2>1. 1..(m + 1) = 1..m \cup {m + 1}
    BY <1>1
  <2> QED
    BY <1>3, <1>4, <2>1
<1>12. failures = 0 => {ls[i].event.n : i \in DOMAIN ls}
                         = {file.lines[i].event.n : i \in DOMAIN file.lines} \cup {event[w].n}
  BY <1>11, <1>b
<1>13. [lines |-> ls, torn |-> writing[w].torn] \in [lines : Seq(Lines), torn : BOOLEAN]
  BY <1>1
<1>14. failures = 0 => Len(ls) = Len(file.lines) + 1 /\ writing[w].torn = file.torn
  BY <1>3, <1>b, <1>c
<1> QED
  BY <1>7, <1>8, <1>9, <1>10, <1>12, <1>13, <1>14 DEF ls

\* The first of the queue is answered or rejected; the file apart.
LEMMA DoneIs ==
  ASSUME IInv, NEW w \in Writers, writing[w].busy, Done(w),
         UNCHANGED <<session, made, sequence>>
  PROVE  /\ queue' \in Seq(Writers) /\ event' \in [Writers -> EventSet]
         /\ writing' \in [Writers -> [busy : BOOLEAN, lines : Seq(Lines), torn : BOOLEAN]]
         /\ Queueing' /\ (\A v \in Writers : ~writing'[v].busy) /\ Quiet'
         /\ sequence + Len(queue') <= made + 1
         /\ \A j \in DOMAIN queue' : event[w].n < event'[queue'[j]].n
<1> USE DEF IInv
<1> DEFINE n == Len(queue)
<1>0. /\ writing' = [writing EXCEPT ![w] = Nothing] /\ event' = [event EXCEPT ![w] = NoEvent]
      /\ queue' = Tail(queue) /\ queue # <<>> /\ queue[1] = w /\ queue \in Seq(Writers)
  BY DEF Done, WritingFirst, Types
<1>1. /\ queue' \in Seq(Writers) /\ n \in Nat \ {0} /\ Len(queue') = n - 1
      /\ DOMAIN queue = 1..n /\ DOMAIN queue' = 1..(n - 1)
      /\ \A i \in 1..(n - 1) : queue'[i] = queue[i + 1] /\ i + 1 \in 1..n
  BY <1>0
<1> HIDE DEF n
<1>2. /\ event' \in [Writers -> EventSet] /\ event'[w] = NoEvent
      /\ \A v \in Writers : v # w => event'[v] = event[v]
  <2>1. NoEvent \in EventSet
    BY DEF NoEvent, EventSet, EventKinds
  <2> QED
    BY <1>0, <2>1 DEF Types
<1>3. writing' \in [Writers -> [busy : BOOLEAN, lines : Seq(Lines), torn : BOOLEAN]]
      /\ \A v \in Writers : ~writing'[v].busy
  <2>1. ~Nothing.busy /\ Nothing \in [busy : BOOLEAN, lines : Seq(Lines), torn : BOOLEAN]
    <3>1. <<>> \in Seq(Lines) /\ FALSE \in BOOLEAN
      OBVIOUS
    <3> QED
      BY <3>1, Zenon DEF Nothing
  <2>2. \A v \in Writers : writing[v].busy => v = w
    BY <1>0 DEF WritingFirst
  <2> QED
    BY <1>0, <2>1, <2>2 DEF Types
<1>4. \A i \in 1..(n - 1) : /\ queue'[i] \in Writers /\ queue'[i] # w
                            /\ event'[queue'[i]] = event[queue[i + 1]]
                            /\ event[w].n < event[queue[i + 1]].n
  <2> SUFFICES ASSUME NEW i \in 1..(n - 1)
               PROVE  /\ queue'[i] \in Writers /\ queue'[i] # w
                      /\ event'[queue'[i]] = event[queue[i + 1]]
                      /\ event[w].n < event[queue[i + 1]].n
    OBVIOUS
  <2>1. 1 \in 1..n /\ i + 1 \in 1..n /\ 1 < i + 1 /\ queue'[i] = queue[i + 1]
        /\ queue[i + 1] \in Writers
    BY <1>0, <1>1
  <2>2. event[w].n < event[queue[i + 1]].n /\ event[w].n \in Nat
    BY <1>0, <1>1, <2>1 DEF Queueing, Types, EventSet
  <2>3. queue[i + 1] # w
    BY <2>2
  <2> QED
    BY <1>2, <2>1, <2>2, <2>3
<1>5. Queueing'
  <2>1. \A v \in Writers : event'[v] # NoEvent => \E i \in DOMAIN queue' : queue'[i] = v
    <3> SUFFICES ASSUME NEW v \in Writers, event'[v] # NoEvent
                 PROVE  \E i \in DOMAIN queue' : queue'[i] = v
      OBVIOUS
    <3>1. v # w /\ ~Idle(v)
      BY <1>2 DEF Idle
    <3>2. PICK i \in 1..n : queue[i] = v
      BY <1>1, <3>1 DEF Queueing
    <3>3. i - 1 \in 1..(n - 1)
      BY <1>0, <1>1, <3>1, <3>2
    <3>4. queue'[i - 1] = queue[i - 1 + 1] /\ i - 1 + 1 = i
      BY <1>1, <3>2, <3>3
    <3> QED
      BY <1>1, <3>2, <3>3, <3>4
  <2>2. \A i \in DOMAIN queue' : event'[queue'[i]] # NoEvent /\ event'[queue'[i]].n \in 1..made'
    <3>1. \A i \in 1..n : event[queue[i]] # NoEvent /\ event[queue[i]].n \in 1..made
      BY <1>1 DEF Queueing, Idle
    <3> QED
      BY <1>1, <1>4, <3>1
  <2>3. \A i, j \in DOMAIN queue' : i < j => event'[queue'[i]].n < event'[queue'[j]].n
    <3> SUFFICES ASSUME NEW i \in 1..(n - 1), NEW j \in 1..(n - 1), i < j
                 PROVE  event'[queue'[i]].n < event'[queue'[j]].n
      BY <1>1
    <3>1. i + 1 \in 1..n /\ j + 1 \in 1..n /\ i + 1 < j + 1
      BY <1>1
    <3>2. event[queue[i + 1]].n < event[queue[j + 1]].n
      BY <1>1, <3>1 DEF Queueing
    <3> QED
      BY <1>4, <3>2
  <2>4. session' = "down" => queue' = <<>>
    BY <1>0 DEF Queueing
  <2> QED
    BY <2>1, <2>2, <2>3, <2>4 DEF Queueing, Idle
<1>6. sequence + n <= made + 2
  BY DEF Counting, n, Types
<1>7. sequence + Len(queue') <= made + 1
  BY <1>1, <1>6 DEF Types
<1> QED
  BY <1>1, <1>2, <1>3, <1>4, <1>5, <1>7 DEF Quiet

\* The event that is written is one that was made.
LEMMA FirstIs ==
  ASSUME IInv, NEW w \in Writers, writing[w].busy
  PROVE  event[w].n \in 1..made /\ Len(queue) >= 1
<1>1. queue # <<>> /\ queue[1] = w /\ queue \in Seq(Writers)
  BY DEF IInv, WritingFirst, Types
<1>2. 1 \in DOMAIN queue /\ Len(queue) >= 1
  BY <1>1
<1> QED
  BY <1>1, <1>2 DEF IInv, Queueing

LEMMA EndKeeps == ASSUME IInv, NEW w \in Writers, End(w) PROVE IInv'
<1>0. /\ writing[w].busy /\ Done(w)
      /\ file' = [lines |-> writing[w].lines, torn |-> writing[w].torn]
      /\ answered' = answered \cup {event[w].n}
      /\ UNCHANGED <<session, failures, crashes, made, sequence>>
  BY DEF End
<1>1. event[w].n \in 1..made
  BY <1>0, FirstIs
<1>2. file' \in [lines : Seq(Lines), torn : BOOLEAN] /\ file'.lines = writing[w].lines
      /\ (failures = 0 => file'.torn = file.torn)
  BY <1>0, WrittenIs
<1>3. Types'
  BY <1>0, <1>1, <1>2, DoneIs DEF IInv, Types
<1>4. WritingFirst' /\ Queueing'
  BY <1>0, DoneIs DEF WritingFirst
<1>5. Filed'
  <2>1. Ordered(writing[w].lines)
    BY <1>0, WrittenIs
  <2>2. \A i \in DOMAIN file'.lines, j \in DOMAIN queue' :
          file'.lines[i].event.n < event'[queue'[j]].n
    <3> SUFFICES ASSUME NEW i \in DOMAIN file'.lines, NEW j \in DOMAIN queue'
                 PROVE  file'.lines[i].event.n < event'[queue'[j]].n
      OBVIOUS
    <3>1. file'.lines[i].event.n <= event[w].n /\ file'.lines[i].event.n \in 1..made
      BY <1>0, <1>2, <2>1, WrittenIs DEF Ordered
    <3>2. event[w].n < event'[queue'[j]].n /\ event'[queue'[j]].n \in 1..made'
      BY <1>0, DoneIs DEF Queueing
    <3> QED
      BY <1>0, <1>1, <3>1, <3>2
  <2> QED
    BY <1>0, <1>2, <2>1, <2>2 DEF Filed, Ordered
<1>6. Counting'
  <2>1. sequence' + Len(queue') <= made' + 1 /\ Quiet'
    BY <1>0, DoneIs
  <2>2. failures = 0 => Numbered(file'.lines)
                        /\ (session # "down" => sequence = Len(file'.lines) + 1)
    BY <1>0, <1>2, WrittenIs DEF IInv, Counting, Types
  <2>3. failures = 0 /\ crashes = 0 =>
          /\ ~file'.torn
          /\ {file'.lines[i].event.n : i \in DOMAIN file'.lines} = answered'
    <3> SUFFICES ASSUME failures = 0, crashes = 0
                 PROVE  /\ ~file'.torn
                        /\ {file'.lines[i].event.n : i \in DOMAIN file'.lines} = answered'
      OBVIOUS
    <3>1. ~file.torn /\ {file.lines[i].event.n : i \in DOMAIN file.lines} = answered
      BY DEF IInv, Counting
    <3>2. {file'.lines[i].event.n : i \in DOMAIN file'.lines}
            = {file.lines[i].event.n : i \in DOMAIN file.lines} \cup {event[w].n}
      <4>1. {writing[w].lines[i].event.n : i \in DOMAIN writing[w].lines}
              = {file.lines[i].event.n : i \in DOMAIN file.lines} \cup {event[w].n}
        BY <1>0, WrittenIs
      <4>2. file'.lines = writing[w].lines
        BY <1>2
      <4> QED
        BY <4>1, <4>2
    <3>3. ~file'.torn
      BY <1>2, <3>1
    <3> QED
      BY <1>0, <3>1, <3>2, <3>3
  <2> QED
    BY <1>0, <2>1, <2>2, <2>3 DEF Counting, Numbered
<1> QED
  BY <1>3, <1>4, <1>5, <1>6 DEF IInv

\* A part of a file is a file, and its lines are the first of the whole.
LEMMA PartialIs ==
  ASSUME NEW g, NEW ls \in Seq(Lines), g.lines = ls, NEW f \in Partial(g)
  PROVE  /\ f \in [lines : Seq(Lines), torn : BOOLEAN]
         /\ DOMAIN f.lines \subseteq DOMAIN ls
         /\ \A i \in DOMAIN f.lines : f.lines[i] = ls[i]
<1>1. PICK k \in 0..Len(ls), t \in BOOLEAN : f = [lines |-> SubSeq(ls, 1, k), torn |-> t]
  BY DEF Partial
<1>2. /\ SubSeq(ls, 1, k) \in Seq(Lines) /\ Len(SubSeq(ls, 1, k)) = k
      /\ \A i \in 1..k : SubSeq(ls, 1, k)[i] = ls[i]
  <2>1. \A i \in 1..k : ls[i] \in Lines
    OBVIOUS
  <2>2. SubSeq(ls, 1, k) \in Seq(Lines)
    BY <2>1, SubSeqProperties
  <2>3. Len(SubSeq(ls, 1, k)) = IF 1 <= k THEN k - 1 + 1 ELSE 0
    BY <2>1, SubSeqProperties
  <2>4. \A i \in 1..(k - 1 + 1) : SubSeq(ls, 1, k)[i] = ls[1 + i - 1]
    BY <2>1, SubSeqProperties
  <2> QED
    BY <2>2, <2>3, <2>4
<1> DEFINE part == SubSeq(ls, 1, k)
<1>3. part \in Seq(Lines) /\ DOMAIN part = 1..k /\ \A i \in 1..k : part[i] = ls[i]
  BY <1>2
<1>4. f = [lines |-> part, torn |-> t]
  BY <1>1
<1> HIDE DEF part
<1>5. f \in [lines : Seq(Lines), torn : BOOLEAN] /\ f.lines = part
  BY <1>3, <1>4
<1> QED
  BY <1>3, <1>5

\* A prefix of what is in order is in order, and so are its numbers.
LEMMA PrefixIs ==
  ASSUME NEW ls, NEW ms, DOMAIN ms \subseteq DOMAIN ls, \A i \in DOMAIN ms : ms[i] = ls[i],
         Ordered(ls)
  PROVE  Ordered(ms) /\ (Numbered(ls) => Numbered(ms))
BY DEF Ordered, Numbered

LEMMA WriteFailsKeeps == ASSUME IInv, NEW w \in Writers, WriteFails(w) PROVE IInv'
<1>0. /\ writing[w].busy /\ Done(w) /\ file' \in Partial(writing[w]) \cup {file}
      /\ failures' = failures + 1 /\ UNCHANGED <<session, crashes, made, sequence, answered>>
  BY DEF WriteFails
<1>1. event[w].n \in 1..made /\ failures \in Nat
  BY <1>0, FirstIs DEF IInv, Types
<1>2. /\ file' \in [lines : Seq(Lines), torn : BOOLEAN]
      /\ Ordered(file'.lines)
      /\ \A i \in DOMAIN file'.lines : file'.lines[i].event.n <= event[w].n
  <2>1. CASE file' = file
    <3>1. queue[1] = w /\ 1 \in DOMAIN queue
      <4>1. queue # <<>> /\ queue[1] = w /\ queue \in Seq(Writers)
        BY <1>0 DEF IInv, WritingFirst, Types
      <4> QED
        BY <4>1
    <3>2. \A i \in DOMAIN file.lines :
            file.lines[i].event.n < event[w].n /\ file.lines[i].event.n \in 1..made
      BY <3>1 DEF IInv, Filed, Ordered
    <3>3. made \in Nat
      BY DEF IInv, Types
    <3>4. \A i \in DOMAIN file.lines : file.lines[i].event.n <= event[w].n
      BY <1>1, <3>2, <3>3
    <3> QED
      BY <2>1, <3>4 DEF IInv, Types, Filed
  <2>2. CASE file' \in Partial(writing[w])
    <3>1. writing[w].lines \in Seq(Lines)
      BY DEF IInv, Types
    <3> QED
      BY <1>0, <2>2, <3>1, WrittenIs, PartialIs, PrefixIs
  <2> QED
    BY <1>0, <2>1, <2>2
<1>3. Types'
  BY <1>0, <1>1, <1>2, DoneIs DEF IInv, Types
<1>4. WritingFirst' /\ Queueing'
  BY <1>0, DoneIs DEF WritingFirst
<1>5. Filed'
  <2>1. \A i \in DOMAIN file'.lines, j \in DOMAIN queue' :
          file'.lines[i].event.n < event'[queue'[j]].n
    <3> SUFFICES ASSUME NEW i \in DOMAIN file'.lines, NEW j \in DOMAIN queue'
                 PROVE  file'.lines[i].event.n < event'[queue'[j]].n
      OBVIOUS
    <3>1. file'.lines[i].event.n <= event[w].n /\ file'.lines[i].event.n \in 1..made
      BY <1>2 DEF Ordered
    <3>2. event[w].n < event'[queue'[j]].n /\ event'[queue'[j]].n \in 1..made'
      BY <1>0, DoneIs DEF Queueing
    <3> QED
      BY <1>0, <1>1, <3>1, <3>2
  <2> QED
    BY <1>0, <1>2, <2>1 DEF Filed, Ordered
<1>6. Counting'
  <2>1. sequence' + Len(queue') <= made' + 1 /\ Quiet' /\ failures' # 0
    BY <1>0, <1>1, DoneIs
  <2> QED
    BY <2>1 DEF Counting
<1> QED
  BY <1>3, <1>4, <1>5, <1>6 DEF IInv

\* The process ends; a file that was being written is left in part.
LEMMA DiesKeeps ==
  ASSUME IInv, Dies, UNCHANGED <<made, failures, sequence, answered>>,
         crashes' \in Nat, crashes' = 0 => crashes = 0 /\ file' = file,
         file' \in [lines : Seq(Lines), torn : BOOLEAN],
         Ordered(file'.lines), failures = 0 => Numbered(file'.lines)
  PROVE  IInv'
<1> USE DEF IInv
<1>0. /\ session' = "down" /\ queue' = <<>> /\ event' = [v \in Writers |-> NoEvent]
      /\ writing' = [v \in Writers |-> Nothing]
  BY DEF Dies
<1>1. ~Nothing.busy /\ Nothing \in [busy : BOOLEAN, lines : Seq(Lines), torn : BOOLEAN]
  <2>1. <<>> \in Seq(Lines) /\ FALSE \in BOOLEAN
    OBVIOUS
  <2> QED
    BY <2>1, Zenon DEF Nothing
<1>2. NoEvent \in EventSet
  BY DEF NoEvent, EventSet, EventKinds
<1>3. event' \in [Writers -> EventSet]
      /\ writing' \in [Writers -> [busy : BOOLEAN, lines : Seq(Lines), torn : BOOLEAN]]
  BY <1>0, <1>1, <1>2, Zenon
<1>4. Types'
  BY <1>0, <1>3 DEF Types
<1>5. Queueing' /\ WritingFirst' /\ Filed' /\ Quiet'
  BY <1>0, <1>1 DEF Queueing, Idle, WritingFirst, Filed, Ordered, Quiet
<1>6. sequence <= made + 1
  <2>1. CASE Quiet
    BY <2>1 DEF Counting, Types
  <2>2. CASE ~Quiet
    <3>2. Len(queue) >= 1
      BY <2>2, FirstIs DEF Quiet
    <3> QED
      BY <2>2, <3>2 DEF Counting, Types
  <2> QED
    BY <2>1, <2>2
<1>7. Counting'
  <2>1. sequence' + Len(queue') <= made' + 1
    BY <1>0, <1>6 DEF Types
  <2>2. failures' = 0 => Numbered(file'.lines)
    OBVIOUS
  <2>3. failures' = 0 /\ crashes' = 0 =>
          ~file'.torn /\ {file'.lines[i].event.n : i \in DOMAIN file'.lines} = answered'
    BY DEF Counting
  <2> QED
    BY <1>0, <1>5, <2>1, <2>2, <2>3 DEF Counting, Numbered
<1> QED
  BY <1>4, <1>5, <1>7

LEMMA LeaveKeeps == ASSUME IInv, Leave PROVE IInv'
BY DiesKeeps DEF Leave, IInv, Types, Filed, Counting

LEMMA CrashKeeps == ASSUME IInv, Crash PROVE IInv'
<1>0. /\ Dies /\ file' \in OnDisk /\ crashes' = crashes + 1 /\ crashes \in Nat
      /\ UNCHANGED <<made, failures, sequence, answered>>
  BY DEF Crash, IInv, Types
<1>1. /\ file' \in [lines : Seq(Lines), torn : BOOLEAN]
      /\ Ordered(file'.lines) /\ (failures = 0 => Numbered(file'.lines))
  <2>1. CASE file' = file
    BY <2>1 DEF IInv, Types, Filed, Counting
  <2>2. CASE file' # file
    <3>1. PICK w \in Writers : writing[w].busy /\ file' \in Partial(writing[w])
      BY <1>0, <2>2 DEF OnDisk
    <3>2. writing[w].lines \in Seq(Lines)
      BY DEF IInv, Types
    <3> QED
      BY <3>1, <3>2, WrittenIs, PartialIs, PrefixIs
  <2> QED
    BY <2>1, <2>2
<1> QED
  BY <1>0, <1>1, DiesKeeps

\* A process starts with what it finds: the lines of the file, or none.
LEMMA InitializesKeeps ==
  ASSUME IInv, NEW ls, ls \in {file.lines, <<>>}, Initializes(ls),
         failures' \in Nat, failures' = 0 => failures = 0,
         failures' = 0 /\ crashes = 0 => ls = file.lines
  PROVE  IInv'
<1> USE DEF IInv
<1>0. /\ session = "down" /\ session' = "starting" /\ sequence' = Len(ls) + 1
      /\ file' = [lines |-> ls, torn |-> FALSE] /\ queue = <<>>
      /\ UNCHANGED <<crashes, made, queue, event, writing, answered>>
  BY DEF Initializes, Queueing
<1>1. /\ ls \in Seq(Lines) /\ Ordered(ls) /\ (failures = 0 => Numbered(ls))
  <2>1. CASE ls = file.lines
    BY <2>1 DEF Types, Filed, Counting
  <2>2. CASE ls = <<>>
    BY <2>2 DEF Ordered, Numbered
  <2> QED
    BY <2>1, <2>2
<1>2. file' \in [lines : Seq(Lines), torn : BOOLEAN] /\ file'.lines = ls /\ ~file'.torn
  <2>1. FALSE \in BOOLEAN
    OBVIOUS
  <2> QED
    BY <1>0, <1>1, <2>1, Zenon
<1>3. Len(ls) <= made
  <2>1. CASE Len(ls) = 0
    BY <2>1 DEF Types
  <2>2. CASE Len(ls) # 0
    <3>1. Len(ls) \in DOMAIN ls
      BY <1>1, <2>2
    <3>2. Len(ls) <= ls[Len(ls)].event.n /\ ls[Len(ls)].event.n \in 1..made
      BY <1>1, <3>1 DEF Ordered
    <3>3. Len(ls) \in Nat /\ made \in Nat
      BY <1>1 DEF Types
    <3> QED
      BY <3>2, <3>3
  <2> QED
    BY <2>1, <2>2
<1>4. Quiet /\ Quiet'
  BY <1>0 DEF Quiet, WritingFirst
<1>5. Types'
  BY <1>0, <1>1, <1>2 DEF Types
<1>6. Queueing' /\ WritingFirst'
  BY <1>0, <1>4 DEF Queueing, Idle, WritingFirst, Quiet
<1>7. Filed'
  BY <1>0, <1>1, <1>2 DEF Filed, Ordered
<1>8. Counting'
  <2>1. sequence' + Len(queue') <= made' + 1
    <3>1. Len(queue') = 0 /\ sequence' = Len(ls) + 1 /\ made' = made
      BY <1>0
    <3>2. Len(ls) \in Nat /\ made \in Nat
      BY <1>1 DEF Types
    <3> QED
      BY <1>3, <3>1, <3>2
  <2>2. failures' = 0 => Numbered(file.lines)' /\ sequence' = Len(file'.lines) + 1
    BY <1>0, <1>1, <1>2 DEF Numbered
  <2>3. failures' = 0 /\ crashes' = 0 =>
          ~file'.torn /\ {file'.lines[i].event.n : i \in DOMAIN file'.lines} = answered'
    <3> SUFFICES ASSUME failures' = 0, crashes' = 0
                 PROVE  ~file'.torn
                        /\ {file'.lines[i].event.n : i \in DOMAIN file'.lines} = answered'
      OBVIOUS
    <3>1. file'.lines = file.lines /\ answered' = answered
      BY <1>0, <1>2
    <3>2. {file.lines[i].event.n : i \in DOMAIN file.lines} = answered
      BY <1>0 DEF Counting
    <3> QED
      BY <1>2, <3>1, <3>2
  <2> QED
    BY <1>4, <2>1, <2>2, <2>3 DEF Counting
<1> QED
  BY <1>5, <1>6, <1>7, <1>8

LEMMA ResumeKeeps == ASSUME IInv, Resume PROVE IInv'
<1>1. /\ Initializes(Events(file)) /\ failures' = failures /\ failures \in Nat
      /\ Events(file) \in {file.lines, <<>>}
      /\ failures = 0 /\ crashes = 0 => Events(file) = file.lines
  BY DEF Resume, Events, IInv, Types, Counting
<1> QED
  BY <1>1, InitializesKeeps

LEMMA ResumeUnreadKeeps == ASSUME IInv, ResumeUnread PROVE IInv'
<1>1. Initializes(<<>>) /\ failures' = failures + 1 /\ failures \in Nat
  BY DEF ResumeUnread, IInv, Types
<1> QED
  BY <1>1, InitializesKeeps

LEMMA NextKeeps == ASSUME IInv, [Next]_vars PROVE IInv'
<1>1. CASE RecordStart
  BY <1>1, AwaitsKeeps, EventLogAssumption DEF RecordStart, EventKinds
<1>2. ASSUME NEW w \in Writers, Record(w) PROVE IInv'
  BY <1>2, AwaitsKeeps DEF Record, EventKinds
<1>3. ASSUME NEW kind \in Terminal, RecordEnd(kind) PROVE IInv'
  BY <1>3, AwaitsKeeps, EventLogAssumption DEF RecordEnd, EventKinds
<1>4. CASE Regenerate \/ UNCHANGED vars
  <2>1. UNCHANGED <<session, failures, crashes, made, queue, event, sequence, writing, file,
                    answered>>
    BY <1>4 DEF Regenerate, vars
  <2> QED
    <3>1. Types' /\ Queueing' /\ WritingFirst'
      BY <2>1 DEF IInv, Types, Queueing, Idle, WritingFirst
    <3>2. Filed' /\ Counting'
      BY <2>1 DEF IInv, Filed, Ordered, Counting, Numbered, Quiet
    <3> QED
      BY <3>1, <3>2 DEF IInv
<1> QED
  BY <1>1, <1>2, <1>3, <1>4, BeginKeeps, ReadFailsKeeps, EndKeeps, WriteFailsKeeps,
     LeaveKeeps, CrashKeeps, ResumeKeeps, ResumeUnreadKeeps DEF Next

LEMMA Invariance == Spec => []IInv
<1>1. IInv /\ [Next]_vars => IInv'
  BY NextKeeps
<1> QED
  BY InitHolds, <1>1, PTL DEF Spec

-----------------------------------------------------------------------------
\* The log keeps its types; numbers never run ahead of the events made.
THEOREM TypesHold == Spec => []EventLogTypeOK
<1>1. IInv => EventLogTypeOK
  <2> SUFFICES ASSUME IInv PROVE EventLogTypeOK
    OBVIOUS
  <2> USE DEF IInv
  <2>1. \A w \in Writers : (w \in ToSet(queue)) = ~Idle(w)
    <3>1. ToSet(queue) = {queue[i] : i \in DOMAIN queue}
      BY DEF ToSet
    <3> QED
      BY <3>1 DEF Queueing, Idle
  <2>2. sequence \in 1..(MaxEvents + 1)
    <3>1. sequence <= made + 1
      <4>1. CASE Quiet
        BY <4>1 DEF Counting, Types
      <4>2. CASE ~Quiet
        <5>1. Len(queue) >= 1
          BY <4>2, FirstIs DEF Quiet
        <5> QED
          BY <4>2, <5>1 DEF Counting, Types
      <4> QED
        BY <4>1, <4>2
    <3> QED
      BY <3>1, EventLogAssumption DEF Types
  <2> QED
    BY <2>1, <2>2 DEF Types, Filed, Ordered, EventLogTypeOK
<1> QED
  BY <1>1, Invariance, PTL

\* Unless a read or a write failed, line i has number i, over all processes and crashes
\* (jsonl-telemetry-sink.ts:86).
THEOREM NumbersHold == Spec => []LinesNumbered
<1>1. IInv => LinesNumbered
  BY DEF IInv, Counting, Numbered, LinesNumbered
<1> QED
  BY <1>1, Invariance, PTL

\* Without failures and crashes the log is what was recorded, in its order
\* (jsonl-telemetry-sink.ts:73).
THEOREM HistoryHolds == Spec => []LogIsHistory
<1>1. IInv => LogIsHistory
  BY DEF IInv, Filed, Ordered, Counting, LogIsHistory
<1> QED
  BY <1>1, Invariance, PTL

\* Whatever fails, no line is repeated or reordered.
THEOREM NeverTwice == Spec => []NoLineTwice
<1>1. IInv => NoLineTwice
  BY DEF IInv, Filed, Ordered, NoLineTwice
<1> QED
  BY <1>1, Invariance, PTL

\* All of it together: the log is the numbered history, as far as files and
\* processes allow (jsonl-telemetry-sink.ts).
THEOREM LogHolds == Spec => []LogSound
<1>1. EventLogTypeOK /\ LinesNumbered /\ LogIsHistory /\ NoLineTwice
        => LogSound
  BY DEF LogSound
<1> QED
  BY <1>1, TypesHold, NumbersHold, HistoryHolds, NeverTwice, PTL

-----------------------------------------------------------------------------
(* The board of the presenter.                                             *)

Ids == STRING \ {NoSession}

Screen ==
  [tasks : Seq(Ids), active : Ids \cup {NoSession},
   dash : BOOLEAN, strip : BOOLEAN, box : BOOLEAN,
   pending : BOOLEAN, timers : 0..MaxTimers, beats : BOOLEAN]

(* A session is on the board once, the one last active is one of them, and  *)
(* without sessions there is neither strip nor box.                         *)
Board(u) ==
  /\ u \in Screen
  /\ \A i, j \in DOMAIN u.tasks : u.tasks[i] = u.tasks[j] => i = j
  /\ u.tasks # <<>> => Shows(u, u.active)
  /\ u.strip \/ u.box => u.tasks # <<>>

LEMMA ShowsIs ==
  ASSUME NEW u, NEW c PROVE Shows(u, c) <=> \E i \in DOMAIN u.tasks : u.tasks[i] = c
BY DEF Shows, ToSet

LEMMA AppendShows ==
  ASSUME NEW S, NEW s \in Seq(S), NEW c \in S
  PROVE  /\ Append(s, c) \in Seq(S) /\ Append(s, c) # <<>>
         /\ ToSet(Append(s, c)) = ToSet(s) \cup {c}
         /\ c \notin ToSet(s) /\ (\A i, j \in DOMAIN s : s[i] = s[j] => i = j)
              => \A i, j \in DOMAIN Append(s, c) :
                    Append(s, c)[i] = Append(s, c)[j] => i = j
<1> DEFINE a == Append(s, c)
<1>1. /\ a \in Seq(S) /\ Len(a) = Len(s) + 1 /\ a[Len(s) + 1] = c
      /\ \A i \in 1..Len(s) : a[i] = s[i]
      /\ Len(s) \in Nat /\ DOMAIN s = 1..Len(s) /\ DOMAIN a = 1..Len(a)
  BY AppendProperties
<1>2. DOMAIN a = DOMAIN s \cup {Len(s) + 1}
  BY <1>1
<1> HIDE DEF a
<1>3. ToSet(a) = ToSet(s) \cup {c}
  BY <1>1, <1>2 DEF ToSet
<1>4. a # <<>>
  BY <1>1
<1>5. ASSUME c \notin ToSet(s), \A i, j \in DOMAIN s : s[i] = s[j] => i = j,
             NEW i \in DOMAIN a, NEW j \in DOMAIN a, a[i] = a[j]
      PROVE  i = j
  <2>1. \A k \in DOMAIN s : a[k] = s[k] /\ s[k] # c
    BY <1>1, <1>5 DEF ToSet
  <2> QED BY <1>1, <1>2, <1>5, <2>1
<1> QED BY <1>1, <1>3, <1>4, <1>5 DEF a

LEMMA WithoutShows ==
  ASSUME NEW S, NEW s \in Seq(S), NEW c,
         \A i, j \in DOMAIN s : s[i] = s[j] => i = j
  PROVE  /\ Without(s, c) \in Seq(S)
         /\ ToSet(Without(s, c)) = ToSet(s) \ {c}
         /\ \A i, j \in DOMAIN Without(s, c) :
               Without(s, c)[i] = Without(s, c)[j] => i = j
<1>1. CASE c \notin ToSet(s)
  BY <1>1 DEF Without
<1>2. CASE c \in ToSet(s)
  <2> DEFINE k == CHOOSE i \in DOMAIN s : s[i] = c
             n == Len(s)
             r == RemoveAt(s, k)
             p == SubSeq(s, 1, k - 1)
             q == SubSeq(s, k + 1, n)
  <2>1. k \in DOMAIN s /\ s[k] = c
    BY <1>2 DEF ToSet
  <2>2. n \in Nat /\ DOMAIN s = 1..n /\ k \in 1..n
    BY <2>1
  <2> HIDE DEF k
  <2>3. /\ p \in Seq(S) /\ Len(p) = k - 1
        /\ \A i \in 1..(k - 1) : p[i] = s[i]
    <3>1. \A i \in 1..(k - 1) : s[i] \in S
      BY <2>2
    <3> QED BY <2>2, <3>1, SubSeqProperties
  <2>4. /\ q \in Seq(S) /\ Len(q) = n - k
        /\ \A i \in 1..(n - k) : q[i] = s[k + i]
    <3>1. \A i \in (k + 1)..n : s[i] \in S
      BY <2>2
    <3>2. k + 1 \in Int /\ n \in Int
      BY <2>2
    <3>3. /\ q \in Seq(S)
          /\ Len(q) = IF k + 1 <= n THEN n - (k + 1) + 1 ELSE 0
          /\ \A i \in 1..(n - (k + 1) + 1) : q[i] = s[(k + 1) + i - 1]
      BY <3>1, <3>2, SubSeqProperties
    <3>4. ASSUME NEW i \in 1..(n - k) PROVE q[i] = s[k + i]
      <4>1. i \in 1..(n - (k + 1) + 1) /\ (k + 1) + i - 1 = k + i
        BY <2>2
      <4> QED BY <3>3, <4>1
    <3> HIDE DEF q
    <3>5. Len(q) = n - k
      <4> HIDE DEF n
      <4>1. n - (k + 1) + 1 = n - k
        BY <2>2
      <4>2. ~(k + 1 <= n) => n - k = 0
        BY <2>2
      <4> QED BY <3>3, <4>1, <4>2
    <3> QED BY <3>3, <3>4, <3>5
  <2>5. /\ r \in Seq(S) /\ Len(r) = n - 1 /\ DOMAIN r = 1..(n - 1)
        /\ \A i \in 1..(n - 1) : r[i] = IF i < k THEN s[i] ELSE s[i + 1]
    <3>1. r = p \o q
      BY DEF RemoveAt
    <3> HIDE DEF p, q, r
    <3>2. /\ r \in Seq(S) /\ Len(r) = Len(p) + Len(q)
          /\ \A i \in 1..(Len(p) + Len(q)) :
                r[i] = IF i <= Len(p) THEN p[i] ELSE q[i - Len(p)]
      BY <2>3, <2>4, <3>1, ConcatProperties
    <3>3. Len(r) = n - 1
      BY <2>2, <2>3, <2>4, <3>2
    <3>4. ASSUME NEW i \in 1..(n - 1)
          PROVE  r[i] = IF i < k THEN s[i] ELSE s[i + 1]
      <4>1. CASE i < k
        BY <2>2, <2>3, <3>2, <3>3, <4>1
      <4>2. CASE i >= k
        <5>1. r[i] = q[i - (k - 1)] /\ i - (k - 1) \in 1..(n - k)
          BY <2>2, <2>3, <3>2, <3>3, <4>2
        <5>2. k + (i - (k - 1)) = i + 1
          BY <2>2
        <5> QED BY <2>2, <2>4, <4>2, <5>1, <5>2
      <4> QED BY <2>2, <4>1, <4>2
    <3> QED BY <3>2, <3>3, <3>4
  <2> HIDE DEF r
  <2>6. Without(s, c) = r
    BY <1>2 DEF Without, r, k
  <2>7. ToSet(r) \subseteq ToSet(s) \ {c}
    <3>1. ASSUME NEW i \in 1..(n - 1) PROVE r[i] \in ToSet(s) /\ r[i] # c
      <4>1. PICK j \in 1..n : r[i] = s[j] /\ j # k
        BY <2>2, <2>5
      <4> QED BY <2>1, <2>2, <4>1 DEF ToSet
    <3> QED BY <2>5, <3>1 DEF ToSet
  <2>8. ToSet(s) \ {c} \subseteq ToSet(r)
    <3>1. ASSUME NEW j \in 1..n, s[j] # c PROVE \E i \in 1..(n - 1) : r[i] = s[j]
      <4>1. CASE j < k
        <5>1. j \in 1..(n - 1) /\ r[j] = s[j]
          BY <2>2, <2>5, <4>1
        <5> QED BY <5>1
      <4>2. CASE j > k
        <5>1. j - 1 \in 1..(n - 1) /\ r[j - 1] = s[j]
          BY <2>2, <2>5, <4>2
        <5> QED BY <5>1
      <4> QED BY <2>1, <2>2, <3>1, <4>1, <4>2
    <3>2. ASSUME NEW x \in ToSet(s) \ {c} PROVE x \in ToSet(r)
      <4>1. PICK j \in 1..n : s[j] = x /\ s[j] # c
        BY <2>2, <3>2 DEF ToSet
      <4>2. PICK i \in 1..(n - 1) : r[i] = x
        BY <3>1, <4>1
      <4> QED BY <2>5, <4>2 DEF ToSet
    <3> QED BY <3>2
  <2>9. ASSUME NEW i \in DOMAIN r, NEW j \in DOMAIN r, r[i] = r[j] PROVE i = j
    <3>1. i \in 1..(n - 1) /\ j \in 1..(n - 1)
      BY <2>5, <2>9
    <3> DEFINE f(x) == IF x < k THEN x ELSE x + 1
    <3>2. f(i) \in DOMAIN s /\ f(j) \in DOMAIN s /\ s[f(i)] = s[f(j)]
      BY <2>2, <2>5, <2>9, <3>1
    <3>3. f(i) = f(j)
      BY <3>2
    <3> QED BY <2>2, <3>1, <3>3
  <2> QED BY <2>5, <2>6, <2>7, <2>8, <2>9
<1> QED BY <1>1, <1>2

LEMMA NotEmptyShows ==
  ASSUME NEW S, NEW s \in Seq(S), s # <<>>
  PROVE  Last(s) \in ToSet(s) /\ Last(s) \in S
<1>1. Len(s) \in DOMAIN s
  BY EmptySeq
<1> QED BY <1>1 DEF Last, ToSet

LEMMA EmptyShowsNone ==
  ASSUME NEW S, NEW s \in Seq(S) PROVE s = <<>> <=> ToSet(s) = {}
<1>1. s # <<>> => ToSet(s) # {}
  BY NotEmptyShows
<1>2. s = <<>> => ToSet(s) = {}
  BY DEF ToSet
<1> QED BY <1>1, <1>2

LEMMA RepaintedBoard ==
  ASSUME NEW u \in Screen,
         \A i, j \in DOMAIN u.tasks : u.tasks[i] = u.tasks[j] => i = j,
         u.tasks # <<>>, Shows(u, u.active)
  PROVE  /\ Board(RepaintAll(u))
         /\ RepaintAll(u).tasks = u.tasks /\ RepaintAll(u).timers = u.timers
         /\ RepaintAll(u).beats = u.beats
         /\ RepaintAll(u).strip /\ RepaintAll(u).box
BY DEF RepaintAll, RepaintBox, Board, Screen, Shows

LEMMA StartedBoard ==
  ASSUME NEW u, Board(u), NEW c \in Ids
  PROVE  LET v == OnSessionStart(u, c)
         IN  /\ Board(v) /\ v.strip /\ v.box /\ v.beats = u.beats /\ v.timers = u.timers
             /\ ToSet(v.tasks) = ToSet(u.tasks) \cup {c} /\ v.tasks # <<>>
<1> DEFINE tasks == IF Shows(u, c) THEN u.tasks ELSE Append(u.tasks, c)
           v == [u EXCEPT !.tasks = tasks, !.active = c]
<1>1. u.tasks \in Seq(Ids) /\ u \in Screen
  BY DEF Board, Screen
<1>2. /\ tasks \in Seq(Ids) /\ ToSet(tasks) = ToSet(u.tasks) \cup {c} /\ tasks # <<>>
      /\ \A i, j \in DOMAIN tasks : tasks[i] = tasks[j] => i = j
  <2>1. CASE Shows(u, c)
    BY <1>1, <2>1, EmptyShowsNone DEF Shows, Board
  <2>2. CASE ~Shows(u, c)
    BY <1>1, <2>2, AppendShows DEF Shows, Board
  <2> QED BY <2>1, <2>2
<1> HIDE DEF tasks
<1>3. v \in Screen /\ v.tasks = tasks /\ v.active = c
      /\ v.beats = u.beats /\ v.timers = u.timers
  BY <1>1, <1>2 DEF Screen
<1>4. Shows(v, v.active)
  BY <1>2, <1>3 DEF Shows
<1>5. OnSessionStart(u, c) = RepaintAll(v)
  BY DEF OnSessionStart, tasks
<1> HIDE DEF v
<1> QED BY <1>2, <1>3, <1>4, <1>5, RepaintedBoard

LEMMA ActiveBoard ==
  ASSUME NEW u, Board(u), NEW c \in Ids, NEW output \in BOOLEAN,
         u.timers < MaxTimers \/ ~output
  PROVE  LET v == OnSessionActivity(u, c, output)
         IN  /\ Board(v) /\ v.beats = u.beats /\ v.tasks = u.tasks
             /\ u.strip /\ u.box => v.strip /\ v.box
<1> DEFINE a == [u EXCEPT !.active = c]
<1>1. CASE ~Shows(u, c)
  BY <1>1 DEF OnSessionActivity
<1>2. CASE Shows(u, c)
  <2>1. /\ a \in Screen /\ a.tasks = u.tasks /\ a.active = c /\ a.timers = u.timers
        /\ a.beats = u.beats /\ a.strip = u.strip /\ a.box = u.box
        /\ a.pending = u.pending
    BY DEF Board, Screen
  <2>2. Shows(a, a.active) /\ a.tasks # <<>>
    <3>1. a.tasks \in Seq(Ids)
      BY <2>1 DEF Screen
    <3> QED BY <1>2, <2>1, <3>1, EmptyShowsNone DEF Shows
  <2>3. Board(a)
    BY <2>1, <2>2 DEF Board
  <2> HIDE DEF a
  <2>4. CASE output
    <3>1. OnSessionActivity(u, c, output) = ScheduleBoxRepaint(a)
      BY <1>2, <2>4 DEF OnSessionActivity, a
    <3>2. CASE a.pending
      BY <2>1, <2>3, <3>1, <3>2 DEF ScheduleBoxRepaint
    <3>3. CASE ~a.pending
      <4> DEFINE v == [a EXCEPT !.pending = TRUE, !.timers = @ + 1]
      <4>1. /\ v \in Screen /\ v.tasks = a.tasks /\ v.active = a.active
            /\ v.beats = a.beats /\ v.strip = a.strip /\ v.box = a.box
        <5>1. a.timers + 1 \in 0..MaxTimers
          BY <2>1, <2>4, DispatcherAssumption DEF Screen
        <5> QED BY <2>1, <5>1 DEF Screen
      <4>2. OnSessionActivity(u, c, output) = v
        BY <3>1, <3>3 DEF ScheduleBoxRepaint
      <4> HIDE DEF v
      <4> QED BY <2>1, <2>3, <4>1, <4>2 DEF Board, Shows
    <3> QED BY <3>2, <3>3
  <2>5. CASE ~output
    <3>1. OnSessionActivity(u, c, output) = RepaintAll(a)
      BY <1>2, <2>5 DEF OnSessionActivity, a
    <3> QED BY <2>1, <2>2, <2>3, <3>1, RepaintedBoard DEF Board
  <2> QED BY <2>4, <2>5
<1> QED BY <1>1, <1>2

LEMMA EndedBoard ==
  ASSUME NEW u, Board(u), NEW c \in Ids
  PROVE  LET v == OnSessionEnd(u, c)
         IN  /\ Board(v) /\ v.beats = u.beats
             /\ ToSet(v.tasks) = ToSet(u.tasks) \ {c}
             /\ v.tasks # <<>> => v.strip /\ v.box
<1> DEFINE left == Without(u.tasks, c)
           next == IF u.active # c THEN u.active
                   ELSE IF left = <<>> THEN NoSession ELSE Last(left)
           v == [u EXCEPT !.tasks = left, !.active = next, !.dash = TRUE]
           w == [v EXCEPT !.strip = FALSE, !.box = FALSE]
<1>1. u.tasks \in Seq(Ids) /\ u \in Screen /\ u.active \in Ids \cup {NoSession}
  BY DEF Board, Screen
<1>2. /\ left \in Seq(Ids) /\ ToSet(left) = ToSet(u.tasks) \ {c}
      /\ \A i, j \in DOMAIN left : left[i] = left[j] => i = j
  BY <1>1, WithoutShows DEF Board
<1>3. OnSessionEnd(u, c) = IF left = <<>> THEN w ELSE RepaintAll(v)
  BY DEF OnSessionEnd
<1> HIDE DEF left
<1>4. /\ next \in Ids \cup {NoSession}
      /\ left # <<>> => next \in ToSet(left)
  <2>1. CASE left = <<>>
    BY <1>1, <2>1
  <2>2. CASE left # <<>>
    <3>1. Last(left) \in ToSet(left) /\ Last(left) \in Ids
      BY <1>2, <2>2, NotEmptyShows
    <3>2. u.tasks # <<>>
      BY <1>1, <1>2, <3>1, EmptyShowsNone
    <3>3. u.active \in ToSet(u.tasks)
      BY <3>2 DEF Board, Shows
    <3> QED BY <1>1, <1>2, <2>2, <3>1, <3>3
  <2> QED BY <2>1, <2>2
<1> HIDE DEF next
<1>5. /\ v \in Screen /\ v.tasks = left /\ v.active = next /\ v.beats = u.beats
      /\ w \in Screen /\ w.tasks = left /\ w.beats = u.beats /\ ~w.strip /\ ~w.box
  BY <1>1, <1>2, <1>4 DEF Screen
<1> HIDE DEF v, w
<1>6. CASE left = <<>>
  BY <1>2, <1>3, <1>5, <1>6 DEF Board
<1>7. CASE left # <<>>
  <2>1. Shows(v, v.active)
    BY <1>4, <1>5, <1>7 DEF Shows
  <2> QED BY <1>2, <1>3, <1>5, <1>7, <2>1, RepaintedBoard
<1> QED BY <1>6, <1>7

(* What is left of the widgets: events, timers and the heartbeat repaint,   *)
(* stop clears.                                                             *)
LEMMA EventBoard ==
  ASSUME NEW u, Board(u)
  PROVE  LET v == OnDomainEvent(u)
         IN  /\ Board(v) /\ v.beats = u.beats /\ v.tasks = u.tasks
             /\ u.strip => v.strip
             /\ v.box = u.box
BY DEF OnDomainEvent, Board, Screen, Shows

LEMMA TimerBoard ==
  ASSUME NEW u, Board(u), u.timers > 0
  PROVE  LET v == BoxTimerFires(u)
         IN  /\ Board(v) /\ v.beats = u.beats /\ v.tasks = u.tasks
             /\ v.dash = u.dash /\ v.strip = u.strip
             /\ u.tasks # <<>> <=> v.box
<1> DEFINE t == [u EXCEPT !.timers = @ - 1, !.pending = FALSE]
<1>1. /\ t \in Screen /\ t.tasks = u.tasks /\ t.active = u.active /\ t.beats = u.beats
      /\ t.dash = u.dash /\ t.strip = u.strip
  <2>1. u.timers - 1 \in 0..MaxTimers
    BY DispatcherAssumption DEF Board, Screen
  <2> QED BY <2>1 DEF Board, Screen
<1>2. BoxTimerFires(u) = [t EXCEPT !.box = Shows(t, t.active)]
  BY DEF BoxTimerFires, RepaintBox
<1> HIDE DEF t
<1>3. Shows(t, t.active) <=> u.tasks # <<>>
  <2>1. u.tasks \in Seq(Ids)
    BY DEF Board, Screen
  <2> QED BY <1>1, <2>1, EmptyShowsNone DEF Board, Shows
<1>4. Shows(t, t.active) \in BOOLEAN
  BY DEF Shows
<1> DEFINE v == [t EXCEPT !.box = Shows(t, t.active)]
<1>5. /\ v \in Screen /\ v.tasks = u.tasks /\ v.active = u.active /\ v.beats = u.beats
      /\ v.dash = u.dash /\ v.strip = u.strip /\ v.box = Shows(t, t.active)
  BY <1>1, <1>4 DEF Screen
<1> HIDE DEF v
<1>6. BoxTimerFires(u) = v
  BY <1>2 DEF v
<1> QED BY <1>3, <1>5, <1>6 DEF Board, Shows

LEMMA StoppedBoard ==
  ASSUME NEW u, Board(u)
  PROVE  LET v == StopPresenter(u)
         IN  /\ Board(v) /\ v.tasks = u.tasks
             /\ ~v.beats /\ ~v.dash /\ ~v.strip /\ ~v.box
<1>1. (IF u.timers = 0 THEN 0 ELSE u.timers - 1) \in 0..MaxTimers
  BY DispatcherAssumption DEF Board, Screen
<1> QED BY <1>1 DEF StopPresenter, Board, Screen, Shows

-----------------------------------------------------------------------------
(* The race for the end of a prompt, and what came of it.                  *)

Over(w) == pc[w] \in {"returned", "reported"}

RaceTypes ==
  /\ pc \in [Workers -> {"creating", "running", "settled", "returned", "reported",
                           "threw"}]
  /\ calls \in [Workers -> Seq(Statuses)]
  /\ alive \in [Workers -> BOOLEAN]
  /\ reason \in [Workers -> Reasons \cup {"none"}]
  /\ outcome \in [Workers -> Statuses \cup {"none"}]
  /\ aborted \in BOOLEAN /\ over \in BOOLEAN
  /\ fan \in {"waiting", "resolved", "rejected"}

(* A wait has a reason once it is settled and an outcome once it returned;  *)
(* one that a call ended has the call, and the first call stays the first.  *)
RaceOf(w) ==
  /\ (reason[w] \in Reasons) = (pc[w] = "settled" \/ Over(w))
  /\ (outcome[w] \in Statuses) = Over(w)
  /\ reason[w] = "stage_return" => calls[w] # <<>>
  /\ outcome[w] = "PASS" => calls[w] # <<>> /\ calls[w][1] = "PASS"
  /\ Over(w) /\ reason[w] = "stage_return" => outcome[w] = calls[w][1]

(* The fan-out resolves when all sessions are reported, and none follows.   *)
FanFacts ==
  /\ fan = "resolved" => \A w \in Workers : pc[w] = "reported"
  /\ over => fan # "waiting"

RaceInv == RaceTypes /\ (\A w \in Workers : RaceOf(w)) /\ FanFacts

LEMMA NoneIsNone == "none" \notin Reasons /\ "none" \notin Statuses
BY DEF Reasons, Statuses

LEMMA RaceInit == DispatcherInit => RaceInv
<1> SUFFICES ASSUME DispatcherInit PROVE RaceInv
  OBVIOUS
<1>1. <<>> \in Seq(Statuses)
  BY EmptySeq
<1>2. RaceTypes
  BY <1>1 DEF DispatcherInit, RaceTypes
<1>3. ASSUME NEW w \in Workers PROVE RaceOf(w)
  BY NoneIsNone DEF DispatcherInit, RaceOf, Over
<1> QED BY <1>2, <1>3 DEF DispatcherInit, FanFacts, RaceInv

(* A step that settles waits, or moves nothing of the race. *)
LEMMA SettledRace ==
  ASSUME RaceInv, NEW W \in SUBSET Workers, NEW why \in Reasons \ {"stage_return"},
         \A w \in W : pc[w] = "running",
         pc' = [w \in Workers |-> IF w \in W THEN "settled" ELSE pc[w]],
         reason' = [w \in Workers |-> IF w \in W THEN why ELSE reason[w]],
         alive' \in [Workers -> BOOLEAN], aborted' \in BOOLEAN,
         UNCHANGED <<calls, outcome, fan, over>>
  PROVE  RaceInv'
<1>1. RaceTypes'
  BY DEF RaceInv, RaceTypes
<1>2. ASSUME NEW w \in Workers PROVE RaceOf(w)'
  <2>1. RaceOf(w)
    BY DEF RaceInv
  <2>2. CASE w \in W
    BY <2>1, <2>2 DEF RaceOf, Over
  <2>3. CASE w \notin W
    BY <2>1, <2>3 DEF RaceOf, Over
  <2> QED BY <2>2, <2>3
<1>3. FanFacts'
  BY DEF RaceInv, FanFacts
<1> QED BY <1>1, <1>2, <1>3 DEF RaceInv

LEMMA OneSettled ==
  ASSUME RaceInv, NEW w \in Workers, NEW why \in Reasons \ {"stage_return"},
         pc[w] = "running", Settle(w, why),
         alive' \in [Workers -> BOOLEAN], UNCHANGED <<calls, outcome, aborted, fan, over>>
  PROVE  RaceInv'
<1>1. pc' = [v \in Workers |-> IF v \in {w} THEN "settled" ELSE pc[v]]
  BY DEF RaceInv, RaceTypes, Settle
<1>2. reason' = [v \in Workers |-> IF v \in {w} THEN why ELSE reason[v]]
  BY DEF RaceInv, RaceTypes, Settle
<1>3. {w} \in SUBSET Workers /\ aborted' \in BOOLEAN
  BY DEF RaceInv, RaceTypes
<1> QED BY <1>1, <1>2, <1>3, SettledRace

(* The steps of a worker's session from its creation to its report. *)
LEMMA CreatedRace == ASSUME RaceInv, NEW w \in Workers, Created(w) PROVE RaceInv'
<1>1. RaceTypes'
  BY DEF Created, RaceInv, RaceTypes, Reasons
<1>2. ASSUME NEW v \in Workers PROVE RaceOf(v)'
  <2>1. RaceOf(v) /\ RaceTypes /\ UNCHANGED <<calls, outcome>>
    BY DEF Created, RaceInv
  <2>2. CASE v # w
    BY <2>1, <2>2 DEF Created, RaceTypes, RaceOf, Over
  <2>3. CASE v = w /\ aborted
    BY <2>1, <2>3 DEF Created, RaceTypes, RaceOf, Over, Reasons
  <2>4. CASE v = w /\ ~aborted
    BY <2>1, <2>4 DEF Created, RaceTypes, RaceOf, Over
  <2> QED BY <2>2, <2>3, <2>4 DEF RaceInv, RaceTypes
<1>3. FanFacts'
  BY DEF Created, RaceInv, FanFacts
<1> QED BY <1>1, <1>2, <1>3 DEF RaceInv

LEMMA FailedRace == ASSUME RaceInv, NEW w \in Workers, CreationFails(w) PROVE RaceInv'
<1>1. RaceTypes'
  BY DEF CreationFails, RaceInv, RaceTypes
<1>2. ASSUME NEW v \in Workers PROVE RaceOf(v)'
  BY NoneIsNone DEF CreationFails, RaceInv, RaceTypes, RaceOf, Over
<1>3. FanFacts'
  BY DEF CreationFails, RaceInv, FanFacts
<1> QED BY <1>1, <1>2, <1>3 DEF RaceInv

LEMMA CallRace ==
  ASSUME RaceInv, NEW w \in Workers, NEW s \in Statuses, StageReturn(w, s)
  PROVE  RaceInv'
<1> DEFINE said == Append(calls[w], s)
<1>1. /\ calls[w] \in Seq(Statuses) /\ said \in Seq(Statuses) /\ said # <<>>
      /\ calls[w] # <<>> => said[1] = calls[w][1]
  <2>1. calls[w] \in Seq(Statuses)
    BY DEF RaceInv, RaceTypes
  <2>2. calls[w] # <<>> => 1 \in 1..Len(calls[w])
    BY <2>1, EmptySeq
  <2> QED BY <2>1, <2>2, AppendProperties
<1>2. calls' = [calls EXCEPT ![w] = said]
  BY DEF StageReturn
<1> HIDE DEF said
<1>3. RaceTypes'
  <2>1. calls' \in [Workers -> Seq(Statuses)]
    BY <1>1, <1>2 DEF RaceInv, RaceTypes
  <2>2. /\ pc' \in [Workers -> {"creating", "running", "settled", "returned", "reported",
                                "threw"}]
        /\ reason' \in [Workers -> Reasons \cup {"none"}]
    <3>1. CASE UNCHANGED <<pc, reason>>
      BY <3>1 DEF RaceInv, RaceTypes
    <3>2. CASE Settle(w, "stage_return")
      BY <3>2 DEF Settle, RaceInv, RaceTypes, Reasons
    <3> QED
      BY <3>1, <3>2 DEF StageReturn
  <2>3. UNCHANGED <<alive, outcome, aborted, over, fan>>
    BY DEF StageReturn
  <2> QED
    BY <2>1, <2>2, <2>3 DEF RaceInv, RaceTypes
<1>4. ASSUME NEW v \in Workers PROVE RaceOf(v)'
  <2>1. RaceOf(v) /\ RaceTypes /\ RaceOf(w)
    BY DEF RaceInv
  <2>2. CASE v # w
    BY <1>2, <2>1, <2>2 DEF StageReturn, Settle, RaceTypes, RaceOf, Over
  <2>3. CASE v = w /\ pc[w] = "running"
    BY <1>1, <1>2, <2>1, <2>3 DEF StageReturn, Settle, RaceTypes, RaceOf, Over, Reasons
  <2>4. CASE v = w /\ pc[w] # "running"
    BY <1>1, <1>2, <2>1, <2>4 DEF StageReturn, RaceTypes, RaceOf, Over
  <2> QED BY <2>2, <2>3, <2>4
<1>5. FanFacts'
  BY DEF StageReturn, Settle, RaceInv, RaceTypes, FanFacts
<1> QED BY <1>3, <1>4, <1>5 DEF RaceInv

LEMMA NormalizeIs ==
  ASSUME NEW cs \in Seq(Statuses)
  PROVE  /\ Normalize(cs) \in Statuses
         /\ cs # <<>> => Normalize(cs) = cs[1]
         /\ cs = <<>> => Normalize(cs) = "FAIL"
<1>1. cs # <<>> => 1 \in 1..Len(cs)
  BY EmptySeq
<1> QED BY <1>1 DEF Normalize, Statuses

LEMMA ReturnRace == ASSUME RaceInv, NEW w \in Workers, Return(w) PROVE RaceInv'
<1> DEFINE said == Normalize(calls[w])
<1>1. /\ said \in Statuses
      /\ calls[w] # <<>> => said = calls[w][1]
      /\ calls[w] = <<>> => said = "FAIL"
  BY NormalizeIs DEF RaceInv, RaceTypes
<1>2. /\ outcome' = [outcome EXCEPT ![w] = said]
      /\ pc[w] = "settled" /\ pc' = [pc EXCEPT ![w] = "returned"]
      /\ UNCHANGED <<calls, alive, reason, aborted, fan, over>>
  BY DEF Return
<1> HIDE DEF said
<1>3. RaceTypes'
  BY <1>1, <1>2 DEF RaceInv, RaceTypes
<1>4. ASSUME NEW v \in Workers PROVE RaceOf(v)'
  <2>1. RaceOf(v) /\ RaceTypes
    BY DEF RaceInv
  <2>2. CASE v # w
    BY <1>2, <2>1, <2>2 DEF RaceTypes, RaceOf, Over
  <2>3. CASE v = w
    BY <1>1, <1>2, <2>1, <2>3 DEF RaceTypes, RaceOf, Over, Statuses
  <2> QED BY <2>2, <2>3
<1>5. FanFacts'
  BY <1>2 DEF RaceInv, FanFacts
<1> QED BY <1>3, <1>4, <1>5 DEF RaceInv

LEMMA ReportRace == ASSUME RaceInv, NEW w \in Workers, Report(w) PROVE RaceInv'
<1>1. RaceTypes'
  BY DEF Report, RaceInv, RaceTypes
<1>2. ASSUME NEW v \in Workers PROVE RaceOf(v)'
  BY DEF Report, RaceInv, RaceTypes, RaceOf, Over
<1>3. FanFacts'
  BY DEF Report, RaceInv, RaceTypes, FanFacts
<1> QED BY <1>1, <1>2, <1>3 DEF RaceInv

LEMMA NextRace == ASSUME RaceInv, NEW w \in Workers, NextSession(w) PROVE RaceInv'
<1>1. RaceTypes'
  <2>1. <<>> \in Seq(Statuses)
    BY EmptySeq
  <2> QED BY <2>1 DEF NextSession, RaceInv, RaceTypes
<1>2. ASSUME NEW v \in Workers PROVE RaceOf(v)'
  BY NoneIsNone DEF NextSession, RaceInv, RaceTypes, RaceOf, Over
<1>3. FanFacts'
  BY DEF NextSession, RaceInv, RaceTypes, FanFacts
<1> QED BY <1>1, <1>2, <1>3 DEF RaceInv

LEMMA RaceStep ==
  ASSUME RaceInv, [DispatcherNext]_dvars PROVE RaceInv'
<1>1. ASSUME NEW w \in Workers, AgentEnds(w) \/ PromptFails(w) \/ Timeout(w)
      PROVE  RaceInv'
  <2>1. pc[w] = "running" /\ UNCHANGED <<calls, outcome, aborted, fan, over>>
        /\ alive' \in [Workers -> BOOLEAN]
    BY <1>1 DEF AgentEnds, PromptFails, Timeout, RaceInv, RaceTypes
  <2>2. \E why \in Reasons \ {"stage_return"} : Settle(w, why)
    BY <1>1 DEF AgentEnds, PromptFails, Timeout, Reasons
  <2> QED BY <2>1, <2>2, OneSettled
<1>2. CASE Abort
  <2> DEFINE W == {w \in Workers : pc[w] = "running"}
  <2>1. /\ pc' = [w \in Workers |-> IF w \in W THEN "settled" ELSE pc[w]]
        /\ reason' = [w \in Workers |-> IF w \in W THEN "aborted" ELSE reason[w]]
        /\ aborted' = TRUE /\ UNCHANGED <<calls, alive, outcome, fan, over>>
    BY <1>2 DEF Abort
  <2>2. W \in SUBSET Workers /\ \A w \in W : pc[w] = "running"
    OBVIOUS
  <2>3. alive' \in [Workers -> BOOLEAN] /\ aborted' \in BOOLEAN
    BY <2>1 DEF RaceInv, RaceTypes
  <2>4. "aborted" \in Reasons \ {"stage_return"}
    BY DEF Reasons
  <2> HIDE DEF W
  <2> QED BY <2>1, <2>2, <2>3, <2>4, SettledRace
<1>3. ASSUME NEW w \in Workers,
             AgentStops(w) \/ (\E output \in BOOLEAN : Activity(w, output))
      PROVE  RaceInv'
  <2>1. /\ alive' \in [Workers -> BOOLEAN]
        /\ UNCHANGED <<pc, calls, reason, outcome, aborted, fan, over>>
    BY <1>3 DEF AgentStops, Activity, RaceInv, RaceTypes
  <2> QED BY <2>1 DEF RaceInv, RaceTypes, RaceOf, Over, FanFacts
<1>4. CASE AllReported \/ RunEnds
  <2>1. /\ UNCHANGED <<pc, calls, alive, reason, outcome, aborted>>
        /\ fan' \in {"waiting", "resolved", "rejected"} /\ over' \in BOOLEAN
        /\ FanFacts'
    BY <1>4 DEF AllReported, RunEnds, RaceInv, RaceTypes, FanFacts
  <2> QED BY <2>1 DEF RaceInv, RaceTypes, RaceOf, Over
<1>5. CASE BoxTimer \/ Heartbeat \/ UNCHANGED dvars
  <2>1. UNCHANGED <<pc, calls, alive, reason, outcome, aborted, fan, over>>
    BY <1>5 DEF BoxTimer, Heartbeat, dvars
  <2> QED BY <2>1 DEF RaceInv, RaceTypes, RaceOf, Over, FanFacts
<1> QED
  BY <1>1, <1>2, <1>3, <1>4, <1>5, CreatedRace, FailedRace, CallRace, ReturnRace,
     ReportRace, NextRace DEF DispatcherNext

-----------------------------------------------------------------------------
(* The widgets.                                                            *)

(* On the board are only sessions that run; the strip and the box are there *)
(* with them while the run goes on; after it nothing paints but a box timer.*)
WidgetFacts ==
  /\ sessions \in [Workers -> Nat] /\ dropped \in [Workers -> BOOLEAN]
  /\ \A w \in Workers : sessions[w] \in 1..Len(Cid[w])
  /\ Board(screen)
  /\ \A c \in ToSet(screen.tasks) : \E w \in Workers : Attached(w) /\ Id(w) = c
  /\ ~over /\ screen.tasks # <<>> => screen.strip /\ screen.box
  /\ over => ~screen.beats
  /\ over /\ fan = "resolved" => ~screen.dash /\ ~screen.strip /\ ~screen.box

(* Every session that runs is on the board, but for those that the end of   *)
(* another one with their id took off it.                                   *)
BoardFollows ==
  \A w \in Workers : Attached(w) /\ ~dropped[w] => Shows(screen, Id(w))

LEMMA WidgetsInit == DispatcherInit => WidgetFacts /\ BoardFollows
<1> SUFFICES ASSUME DispatcherInit PROVE WidgetFacts /\ BoardFollows
  OBVIOUS
<1>1. screen.tasks = <<>> /\ ~screen.strip /\ ~screen.box /\ screen \in Screen
  <2>1. <<>> \in Seq(Ids) /\ 0 \in 0..MaxTimers
    BY EmptySeq, DispatcherAssumption
  <2> QED BY <2>1 DEF DispatcherInit, Start, NewScreen, Screen
<1>2. ToSet(screen.tasks) = {}
  BY <1>1 DEF ToSet
<1>3. Board(screen)
  BY <1>1 DEF Board
<1>4. sessions \in [Workers -> Nat] /\ \A w \in Workers : sessions[w] \in 1..Len(Cid[w])
  <2>1. ASSUME NEW w \in Workers PROVE 1 \in 1..Len(Cid[w])
    BY EmptySeq, DispatcherAssumption
  <2> QED BY <2>1 DEF DispatcherInit
<1> QED BY <1>1, <1>2, <1>3, <1>4 DEF DispatcherInit, WidgetFacts, BoardFollows, Attached

(* While the screen stays, the same sessions run or more. *)
LEMMA ScreenStays ==
  ASSUME WidgetFacts, UNCHANGED <<over, screen>>,
         fan' = "resolved" => fan = "resolved" \/ ~over,
         sessions' \in [Workers -> Nat], dropped' = dropped,
         \A w \in Workers : sessions'[w] \in 1..Len(Cid[w]),
         \A w \in Workers : Attached(w) => Attached(w)' /\ Id(w)' = Id(w)
  PROVE  WidgetFacts'
BY DEF WidgetFacts

LEMMA FollowsStays ==
  ASSUME BoardFollows, screen' = screen, dropped' = dropped,
         \A w \in Workers : Attached(w)' => Attached(w) /\ Id(w)' = Id(w)
  PROVE  BoardFollows'
BY DEF BoardFollows

LEMMA IdIsOne == ASSUME WidgetFacts, NEW w \in Workers PROVE Id(w) \in Ids
BY DispatcherAssumption, ElementOfSeq DEF WidgetFacts, Ids, Id

LEMMA CreatedWidgets ==
  ASSUME RaceInv, WidgetFacts, NEW w \in Workers, Created(w)
  PROVE  WidgetFacts' /\ (BoardFollows => BoardFollows')
<1>1. /\ Board(screen') /\ screen'.strip /\ screen'.box /\ screen'.beats = screen.beats
      /\ ToSet(screen'.tasks) = ToSet(screen.tasks) \cup {Id(w)}
  BY IdIsOne, StartedBoard DEF Created, WidgetFacts
<1>2. /\ \A v \in Workers : Attached(v)' <=> (Attached(v) \/ v = w)
      /\ dropped' = [dropped EXCEPT ![w] = FALSE]
      /\ UNCHANGED <<sessions, over, fan>>
  BY DEF Created, Attached, RaceInv, RaceTypes
<1>3. fan # "resolved"
  BY DEF Created, RaceInv, FanFacts
<1> QED BY <1>1, <1>2, <1>3 DEF WidgetFacts, BoardFollows, Shows, Id

LEMMA ReturnWidgets ==
  ASSUME RaceInv, WidgetFacts, NEW w \in Workers, Return(w)
  PROVE  WidgetFacts' /\ (BoardFollows => BoardFollows')
<1>1. /\ Board(screen') /\ screen'.beats = screen.beats
      /\ ToSet(screen'.tasks) = ToSet(screen.tasks) \ {Id(w)}
      /\ screen'.tasks # <<>> => screen'.strip /\ screen'.box
  BY IdIsOne, EndedBoard DEF Return, WidgetFacts
<1>2. /\ \A v \in Workers : Attached(v)' <=> (Attached(v) /\ v # w)
      /\ dropped' = [v \in Workers |->
                      dropped[v] \/ (v # w /\ Attached(v) /\ Id(v) = Id(w))]
      /\ UNCHANGED <<sessions, over, fan>>
  BY DEF Return, Attached, RaceInv, RaceTypes
<1>3. fan # "resolved"
  BY DEF Return, RaceInv, FanFacts
<1>4. /\ sessions' \in [Workers -> Nat] /\ dropped' \in [Workers -> BOOLEAN]
      /\ \A v \in Workers : sessions'[v] \in 1..Len(Cid[v]) /\ Id(v)' = Id(v)
  <2>1. ASSUME NEW v \in Workers
        PROVE  (dropped[v] \/ (v # w /\ Attached(v) /\ Id(v) = Id(w))) \in BOOLEAN
    BY DEF WidgetFacts
  <2>2. dropped' \in [Workers -> BOOLEAN]
    BY <1>2, <2>1, Zenon
  <2> QED BY <1>2, <2>2 DEF WidgetFacts, Id
<1>5. ASSUME NEW c \in ToSet(screen'.tasks)
      PROVE  \E v \in Workers : Attached(v)' /\ Id(v)' = c
  <2>1. c \in ToSet(screen.tasks) /\ c # Id(w)
    BY <1>1, <1>5
  <2>2. PICK v \in Workers : Attached(v) /\ Id(v) = c
    BY <2>1 DEF WidgetFacts
  <2>3. v # w
    BY <2>1, <2>2
  <2> QED BY <1>2, <1>4, <2>2, <2>3
<1>6. WidgetFacts'
  BY <1>1, <1>2, <1>3, <1>4, <1>5 DEF WidgetFacts
<1>7. ASSUME BoardFollows, NEW v \in Workers, Attached(v)', ~dropped'[v]
      PROVE  Shows(screen', Id(v)')
  <2>1. v # w /\ Attached(v)
    BY <1>2, <1>7
  <2>2. ~dropped[v] /\ Id(v) # Id(w)
    BY <1>2, <1>7, <2>1
  <2>3. Id(v) \in ToSet(screen.tasks)
    BY <1>7, <2>1, <2>2 DEF BoardFollows, Shows
  <2> QED BY <1>1, <1>4, <2>2, <2>3 DEF Shows
<1> QED BY <1>6, <1>7 DEF BoardFollows

LEMMA ActivityWidgets ==
  ASSUME RaceInv, WidgetFacts, NEW w \in Workers, NEW output \in BOOLEAN,
         Activity(w, output)
  PROVE  WidgetFacts' /\ (BoardFollows => BoardFollows')
<1>1. /\ Board(screen') /\ screen'.beats = screen.beats /\ screen'.tasks = screen.tasks
      /\ screen.strip /\ screen.box => screen'.strip /\ screen'.box
  BY IdIsOne, ActiveBoard DEF Activity, WidgetFacts
<1>2. UNCHANGED <<pc, sessions, dropped, over, fan>> /\ Attached(w)
  BY DEF Activity
<1>3. fan # "resolved"
  BY <1>2 DEF Attached, RaceInv, FanFacts
<1> QED BY <1>1, <1>2, <1>3 DEF WidgetFacts, BoardFollows, Shows, Attached, Id

(* A worker has no more sessions than ids for them. *)
LEMMA NextNumbered ==
  ASSUME WidgetFacts, NEW w \in Workers, NextSession(w)
  PROVE  /\ sessions' \in [Workers -> Nat]
         /\ \A v \in Workers : sessions'[v] \in 1..Len(Cid[v])
         /\ \A v \in Workers : v # w => sessions'[v] = sessions[v]
BY DispatcherAssumption DEF NextSession, WidgetFacts

LEMMA WidgetsStep ==
  ASSUME RaceInv, WidgetFacts, [DispatcherNext]_dvars
  PROVE  WidgetFacts' /\ (BoardFollows => BoardFollows')
<1>1. ASSUME NEW w \in Workers,
             \/ CreationFails(w) \/ AgentEnds(w) \/ PromptFails(w) \/ Timeout(w)
             \/ AgentStops(w)
             \/ \E s \in Statuses : StageReturn(w, s)
      PROVE  WidgetFacts' /\ (BoardFollows => BoardFollows')
  <2>1. /\ UNCHANGED <<over, screen, sessions, dropped>> /\ fan' \in {fan, "rejected"}
        /\ \A v \in Workers : Attached(v)' <=> Attached(v)
    BY <1>1 DEF CreationFails, AgentEnds, PromptFails, Timeout, AgentStops,
       StageReturn, Settle, Attached, RaceInv, RaceTypes
  <2>2. /\ dropped' = dropped /\ sessions' \in [Workers -> Nat]
        /\ \A v \in Workers : sessions'[v] \in 1..Len(Cid[v])
        /\ \A v \in Workers : Attached(v) => Id(v)' = Id(v)
    BY <2>1 DEF WidgetFacts, Id
  <2> QED BY <2>1, <2>2, ScreenStays, FollowsStays
<1>7. ASSUME NEW w \in Workers, NextSession(w)
      PROVE  WidgetFacts' /\ (BoardFollows => BoardFollows')
  <2>1. /\ UNCHANGED <<over, screen, fan>> /\ dropped' = dropped
        /\ \A v \in Workers : Attached(v)' <=> Attached(v)
        /\ ~Attached(w)
    BY <1>7 DEF NextSession, Attached, RaceInv, RaceTypes
  <2>2. /\ sessions' \in [Workers -> Nat]
        /\ \A v \in Workers : sessions'[v] \in 1..Len(Cid[v])
        /\ \A v \in Workers : v # w => sessions'[v] = sessions[v]
    BY <1>7, NextNumbered
  <2>3. \A v \in Workers : Attached(v) => Id(v)' = Id(v)
    BY <2>1, <2>2 DEF Id
  <2> QED BY <2>1, <2>2, <2>3, ScreenStays, FollowsStays
<1>2. CASE Abort \/ AllReported \/ UNCHANGED dvars
  <2>1. /\ UNCHANGED <<over, screen>>
        /\ fan' = "resolved" => fan = "resolved" \/ ~over
        /\ \A v \in Workers : Attached(v)' <=> Attached(v)
        /\ UNCHANGED <<sessions, dropped>> /\ \A v \in Workers : Id(v)' = Id(v)
        /\ sessions' \in [Workers -> Nat]
        /\ \A v \in Workers : sessions'[v] \in 1..Len(Cid[v])
    BY <1>2 DEF Abort, AllReported, dvars, Attached, RaceInv, RaceTypes, FanFacts,
       WidgetFacts, Id
  <2> QED BY <2>1, ScreenStays, FollowsStays
<1>3. ASSUME NEW w \in Workers, Report(w)
      PROVE  WidgetFacts' /\ (BoardFollows => BoardFollows')
  <2>1. /\ Board(screen') /\ screen'.beats = screen.beats /\ screen'.tasks = screen.tasks
        /\ screen.strip => screen'.strip
        /\ screen'.box = screen.box
    BY <1>3, EventBoard DEF Report, WidgetFacts
  <2>2. /\ \A v \in Workers : Attached(v)' <=> Attached(v)
        /\ UNCHANGED <<sessions, dropped, over, fan>>
    BY <1>3 DEF Report, Attached, RaceInv, RaceTypes
  <2>3. fan # "resolved"
    BY <1>3 DEF Report, RaceInv, FanFacts
  <2> QED BY <2>1, <2>2, <2>3 DEF WidgetFacts, BoardFollows, Shows, Id
<1>4. CASE RunEnds
  <2>1. /\ Board(screen') /\ screen'.tasks = screen.tasks
        /\ ~screen'.beats /\ ~screen'.dash /\ ~screen'.strip /\ ~screen'.box
    BY <1>4, StoppedBoard DEF RunEnds, WidgetFacts
  <2>2. UNCHANGED <<pc, sessions, dropped, fan>> /\ over' = TRUE
    BY <1>4 DEF RunEnds
  <2> QED BY <2>1, <2>2 DEF WidgetFacts, BoardFollows, Shows, Attached, Id
<1>5. CASE BoxTimer
  <2>1. /\ Board(screen') /\ screen'.beats = screen.beats /\ screen'.tasks = screen.tasks
        /\ screen'.dash = screen.dash /\ screen'.strip = screen.strip
        /\ screen.tasks # <<>> <=> screen'.box
    BY <1>5, TimerBoard DEF BoxTimer, WidgetFacts
  <2>2. UNCHANGED <<pc, sessions, dropped, fan, over>>
    BY <1>5 DEF BoxTimer
  <2>3. fan = "resolved" => screen.tasks = <<>>
    <3>1. screen.tasks \in Seq(Ids)
      BY DEF WidgetFacts, Board, Screen
    <3>2. fan = "resolved" => ToSet(screen.tasks) = {}
      BY DEF WidgetFacts, RaceInv, FanFacts, Attached
    <3> QED BY <3>1, <3>2, EmptyShowsNone
  <2> QED BY <2>1, <2>2, <2>3 DEF WidgetFacts, BoardFollows, Shows, Attached, Id
<1>6. CASE Heartbeat
  <2>1. /\ Board(screen') /\ screen'.beats = screen.beats /\ screen'.tasks = screen.tasks
        /\ screen'.strip = screen.strip /\ screen'.box = screen.box
    BY <1>6 DEF Heartbeat, WidgetFacts, Board, Screen, Shows
  <2>2. UNCHANGED <<pc, sessions, dropped, fan, over>> /\ ~over
    BY <1>6 DEF Heartbeat, WidgetFacts
  <2> QED BY <2>1, <2>2 DEF WidgetFacts, BoardFollows, Shows, Attached, Id
<1> QED
  BY <1>1, <1>2, <1>3, <1>4, <1>5, <1>6, <1>7, CreatedWidgets, ReturnWidgets, ActivityWidgets
     DEF DispatcherNext

-----------------------------------------------------------------------------
(* The theorems.                                                           *)

LEMMA FanOutInvariant == DispatcherSpec => [](RaceInv /\ WidgetFacts)
<1>1. RaceInv /\ WidgetFacts /\ [DispatcherNext]_dvars => (RaceInv /\ WidgetFacts)'
  BY RaceStep, WidgetsStep
<1> QED BY <1>1, RaceInit, WidgetsInit, PTL DEF DispatcherSpec

(* A session's outcome is what its agent said first, however completion,    *)
(* timeout, abort and further calls race (stage-return-tool.ts:71).         *)
THEOREM FirstAnswerCounts == DispatcherSpec => []OutcomeIsAgents
<1>1. RaceInv => OutcomeIsAgents
  BY DEF RaceInv, RaceOf, Over, OutcomeIsAgents
<1> QED BY <1>1, FanOutInvariant, PTL

(* Whatever ids the sessions have, strip and box are on the screen only     *)
(* with sessions that run, and nothing paints after a fan-out that resolved *)
(* (live-activity-presenter.ts:183, 298).                                   *)
LEMMA WidgetsTyped ==
  RaceInv /\ WidgetFacts => DispatcherTypeOK /\ WidgetsShowSessions /\ QuietAfterResolved
<1> SUFFICES ASSUME RaceInv, WidgetFacts
             PROVE  DispatcherTypeOK /\ WidgetsShowSessions /\ QuietAfterResolved
  OBVIOUS
<1>1. DispatcherTypeOK
  BY DEF RaceInv, RaceTypes, RaceOf, Over, WidgetFacts, Board, Screen, DispatcherTypeOK
<1>2. ToSet(screen.tasks) \subseteq {Id(w) : w \in {v \in Workers : Attached(v)}}
  BY DEF WidgetFacts
<1> QED BY <1>1, <1>2 DEF WidgetFacts, Board, WidgetsShowSessions, QuietAfterResolved

(* The widgets follow the sessions from the first to the last, whichever    *)
(* share an id, for any number of workers, sessions, calls and timers.      *)
THEOREM WidgetsFollow == DispatcherSpec => []WidgetsSound
<1> DEFINE I == RaceInv /\ WidgetFacts /\ BoardFollows
<1>1. DispatcherInit => I
  BY RaceInit, WidgetsInit
<1>2. I /\ [DispatcherNext]_dvars => I'
  BY RaceStep, WidgetsStep
<1>3. I => WidgetsSound
  <2> SUFFICES ASSUME I PROVE WidgetsSound
    OBVIOUS
  <2>1. ASSUME NEW w \in Workers, Attached(w), ~dropped[w]
        PROVE  Shows(screen, Id(w)) /\ screen.tasks # <<>>
    BY <2>1 DEF BoardFollows, Shows, ToSet
  <2>2. VisibleWhileActive
    BY <2>1 DEF WidgetFacts, VisibleWhileActive
  <2> QED BY <2>2, WidgetsTyped DEF WidgetsSound
<1> HIDE DEF I
<1> QED BY <1>1, <1>2, <1>3, PTL DEF DispatcherSpec

-----------------------------------------------------------------------------
(* Record and replay.                                                      *)

\* The recording is not that of a resumed run.
FromTheStart == StartsAt = 1

Requests ==
  {r \in Nat \X Nat \X Nat :
     /\ r[1] \in Fans /\ r[2] \in DOMAIN Program[r[1]].tracks
     /\ r[3] \in DOMAIN Program[r[1]].tracks[r[2]]}

\* One request is made before another in every run of the program.
Before(r, s) ==
  \/ r[1] < s[1]
  \/ /\ r[1] = s[1]
     /\ \/ r[2] = s[2] /\ r[3] < s[3]
        \/ Program[r[1]].ordered /\ r[2] < s[2] /\ r[3] = 1

\* Requests with one key are made in one order.
KeysOrdered ==
  \A r, s \in Requests : Key(r) = Key(s) => r = s \/ Before(r, s) \/ Before(s, r)

\* Sessions that write do not share a directory.
FilesKept ==
  \A f \in Fans : Program[f].writes =>
    \/ Program[f].apart
    \/ \A t, u \in DOMAIN Program[f].tracks : t = u

States == [Places -> Nat \X Nat]
Files == UNION {[D -> Nat \X Nat] : D \in SUBSET Places}
Entries == [key : Keys, ordinal : Nat, of : Requests, files : Files]

CassetteTypes ==
  /\ phase \in {"recording", "replaying", "over", "missed", "astray"}
  /\ fanOut \in 1..(Len(Program) + 1)
  /\ at \in [AllTracks -> Nat] /\ busy \in SUBSET AllTracks /\ IsFiniteSet(busy)
  /\ disk \in States /\ counter \in Nat /\ taken \in [AllTracks -> Nat]
  /\ before \in [AllTracks -> States]
  /\ tape \in Seq(Entries) /\ served \in SUBSET (DOMAIN tape)
  /\ gates \in Seq([method : {"askText", "choose", "confirm", "none"}, of : Fans])
  /\ played \in SUBSET (DOMAIN gates)
  /\ after \in [Fans -> States] /\ lost \in SUBSET Places /\ throws \in Nat

\* Where the fan-out is.
Walk ==
  /\ phase = "over" => fanOut \notin Fans
  /\ fanOut \notin Fans => busy = {}
  /\ fanOut \in Fans =>
       /\ busy \subseteq Tracks
       /\ \A t \in busy : at[t] > 0
       /\ \A t \in Tracks : at[t] <= Len(Program[fanOut].tracks[t])
       /\ Program[fanOut].ordered =>
            \A t, u \in Tracks : u < t /\ at[t] > 0 => at[u] > 0

Started ==
  {r \in Requests : r[1] < fanOut \/ (r[1] = fanOut /\ r[3] <= at[r[2]])}

\* The requests that have taken an ordinal, with it.
Ordinals ==
  {<<tape[i].of, tape[i].ordinal>> : i \in DOMAIN tape}
    \cup {<<Request(t), taken[t]>> : t \in busy}

Taped ==
  /\ \A i \in DOMAIN tape : tape[i].key = Key(tape[i].of)
  /\ \A i, j \in DOMAIN tape :
       tape[i].of = tape[j].of \/ tape[i].ordinal = tape[j].ordinal => i = j
  /\ \A i, j \in DOMAIN tape :
       Before(tape[i].of, tape[j].of) => tape[i].ordinal < tape[j].ordinal
  /\ Len(tape) <= counter

\* Whatever has started has its ordinal, in the order of starting.
Recording ==
  /\ served = {} /\ played = {}
  /\ counter = Len(tape) + Cardinality(busy)
  /\ \A p \in Ordinals : p[1] \in Started /\ p[2] < counter
  /\ \A p, q \in Ordinals : p[1] = q[1] <=> p[2] = q[2]
  /\ \A p, q \in Ordinals : Before(p[1], q[1]) => p[2] < q[2]
  /\ \A r \in Started : \E p \in Ordinals : p[1] = r
  /\ \A i \in DOMAIN tape, t \in busy : tape[i].of # Request(t)

\* As many entries are served as requests were made; if nothing failed, theirs.
Replaying ==
  /\ IsFiniteSet(Started) /\ Cardinality(Started) = Cardinality(served)
  /\ \A t \in busy : taken[t] \in DOMAIN tape
  /\ throws = 0 =>
       /\ \A r \in Requests : \E i \in DOMAIN tape : tape[i].of = r
       /\ \A i \in DOMAIN tape : i \in served <=> tape[i].of \in Started
       /\ \A t \in busy : tape[taken[t]].of = Request(t)

Asks(f) == Program[f].gate # "none"

GatesInv ==
  /\ \A i \in DOMAIN gates :
       /\ Asks(gates[i].of) /\ gates[i].method = Program[gates[i].of].gate
       /\ phase = "recording" => gates[i].of < fanOut
       /\ phase # "recording" => (i \in played <=> gates[i].of < fanOut)
  /\ \A i, j \in DOMAIN gates : i < j => gates[i].of < gates[j].of
  /\ \A f \in Fans :
       Asks(f) /\ (phase = "recording" => f < fanOut) =>
         \E i \in DOMAIN gates : gates[i].of = f

CassetteInv ==
  /\ CassetteTypes /\ Walk /\ Taped
  /\ phase = "recording" => Recording
  /\ phase # "recording" => Replaying
  /\ throws = 0 => GatesInv
  /\ ReplayIsFaithful
  /\ phase = "missed" => throws > 0

\* An entry is of one of the first n requests of a place.
IsOf(e, p, n) == e.of[1] = p[1] /\ e.of[2] = p[2] /\ e.of[3] <= n

\* What the entries of the first n requests of a place leave in it.
Leaves(es, v, p, n) ==
  \/ v = <<0, 0>> /\ \A i \in DOMAIN es : IsOf(es[i], p, n) => p \notin DOMAIN es[i].files
  \/ \E i \in DOMAIN es :
       /\ IsOf(es[i], p, n) /\ p \in DOMAIN es[i].files /\ v = es[i].files[p]
       /\ \A j \in DOMAIN es : IsOf(es[j], p, n) /\ es[j].of[3] > es[i].of[3] =>
            p \notin DOMAIN es[j].files

All(p) == Len(Program[p[1]].tracks[p[2]])

\* How many requests of a place are answered, and what was in it then.
Answered(p) ==
  IF p[1] < fanOut THEN All(p)
  ELSE IF p[1] > fanOut THEN 0
  ELSE IF p[2] \in busy THEN at[p[2]] - 1 ELSE at[p[2]]

Settled(p) == IF p[1] = fanOut /\ p[2] \in busy THEN before[p[2]][p] ELSE disk[p]

FilesInv ==
  /\ \A i \in DOMAIN tape, p \in Places :
       p \in DOMAIN tape[i].files => p = <<tape[i].of[1], tape[i].of[2]>>
  /\ phase = "recording" =>
       /\ \A t \in busy, p \in Places : disk[p] # before[t][p] =>
            Program[fanOut].writes /\ (p = <<fanOut, t>> \/ Program[fanOut].apart)
       /\ \A p \in Places \ lost : Leaves(tape, Settled(p), p, Answered(p))
  /\ phase # "recording" => \A p \in Places \ lost : Leaves(tape, disk[p], p, Answered(p))
  /\ \A f \in Fans : (phase = "recording" => f < fanOut) =>
       \A p \in Places \ lost :
         Leaves(tape, after[f][p], p, IF p[1] <= f THEN All(p) ELSE 0)

CassetteFiles == throws = 0 => FilesInv /\ StraysForCause

-----------------------------------------------------------------------------
(* What the assumption says of the program: its fan-outs, tracks and       *)
(* requests; what the least and the first of a bucket are; and the types.  *)

LEMMA ProgramIs ==
  ASSUME NEW f \in Fans
  PROVE  /\ Program[f].tracks \in Seq(Seq(Keys)) /\ Program[f].ordered \in BOOLEAN
         /\ Program[f].apart \in BOOLEAN /\ Program[f].writes \in BOOLEAN
         /\ Program[f].gate \in {"askText", "choose", "confirm", "none"}
         /\ Fans = 1..Len(Program) /\ Len(Program) \in Nat
         /\ DOMAIN Program[f].tracks \in SUBSET Nat
         /\ DOMAIN Program[f].tracks \in SUBSET AllTracks
         /\ \A t \in DOMAIN Program[f].tracks :
              /\ Len(Program[f].tracks[t]) \in Nat
              /\ DOMAIN Program[f].tracks[t] = 1..Len(Program[f].tracks[t])
              /\ \A n \in 1..Len(Program[f].tracks[t]) : Program[f].tracks[t][n] \in Keys
<1>1. Program \in Seq(FanOuts)
  BY CassetteAssumption
<1>2. Program[f] \in FanOuts /\ Fans = 1..Len(Program) /\ Len(Program) \in Nat
  BY <1>1 DEF Fans
<1>3. /\ Program[f].tracks \in Seq(Seq(Keys)) /\ Program[f].ordered \in BOOLEAN
      /\ Program[f].apart \in BOOLEAN /\ Program[f].writes \in BOOLEAN
      /\ Program[f].gate \in {"askText", "choose", "confirm", "none"}
  BY <1>2 DEF FanOuts
<1>4. DOMAIN Program[f].tracks = 1..Len(Program[f].tracks) /\ Len(Program[f].tracks) \in Nat
  BY <1>3
<1>5. DOMAIN Program[f].tracks \in SUBSET AllTracks
  BY DEF AllTracks
<1>6. ASSUME NEW t \in DOMAIN Program[f].tracks
      PROVE  Program[f].tracks[t] \in Seq(Keys)
  BY <1>3, <1>4
<1>7. ASSUME NEW t \in DOMAIN Program[f].tracks
      PROVE  /\ Len(Program[f].tracks[t]) \in Nat
             /\ DOMAIN Program[f].tracks[t] = 1..Len(Program[f].tracks[t])
             /\ \A n \in 1..Len(Program[f].tracks[t]) : Program[f].tracks[t][n] \in Keys
  BY <1>6
<1> QED BY <1>2, <1>3, <1>4, <1>5, <1>7

LEMMA FansAre == Fans = 1..Len(Program) /\ Len(Program) \in Nat /\ Fans # {}
BY CassetteAssumption DEF Fans

LEMMA TracksAre ==
  ASSUME fanOut \in Fans
  PROVE  /\ Tracks \in SUBSET AllTracks /\ Tracks \in SUBSET Nat
         /\ \A t \in Tracks :
              /\ Len(Program[fanOut].tracks[t]) \in Nat
              /\ \A n \in 1..Len(Program[fanOut].tracks[t]) :
                   /\ <<fanOut, t, n>> \in Requests
                   /\ Key(<<fanOut, t, n>>) = Program[fanOut].tracks[t][n]
                   /\ Key(<<fanOut, t, n>>) \in Keys
<1>1. /\ Tracks \in SUBSET AllTracks /\ Tracks \in SUBSET Nat
      /\ \A t \in Tracks :
           /\ Len(Program[fanOut].tracks[t]) \in Nat
           /\ DOMAIN Program[fanOut].tracks[t] = 1..Len(Program[fanOut].tracks[t])
           /\ \A n \in 1..Len(Program[fanOut].tracks[t]) : Program[fanOut].tracks[t][n] \in Keys
  BY ProgramIs DEF Tracks
<1>2. ASSUME NEW t \in Tracks, NEW n \in 1..Len(Program[fanOut].tracks[t])
      PROVE  /\ <<fanOut, t, n>> \in Requests
             /\ Key(<<fanOut, t, n>>) = Program[fanOut].tracks[t][n]
             /\ Key(<<fanOut, t, n>>) \in Keys
  <2>1. t \in Nat /\ n \in Nat /\ fanOut \in Nat
    BY <1>1, FansAre
  <2>2. n \in DOMAIN Program[fanOut].tracks[t] /\ Program[fanOut].tracks[t][n] \in Keys
    BY <1>1
  <2> QED BY <2>1, <2>2 DEF Requests, Key, Tracks
<1> QED BY <1>1, <1>2

LEMMA RequestsAre ==
  ASSUME NEW r \in Requests
  PROVE  /\ r = <<r[1], r[2], r[3]>> /\ r[1] \in Fans /\ r[2] \in DOMAIN Program[r[1]].tracks
         /\ r[1] \in Nat /\ r[2] \in Nat /\ r[2] \in AllTracks
         /\ r[3] \in 1..Len(Program[r[1]].tracks[r[2]]) /\ r[3] \in Nat
         /\ Key(r) \in Keys
<1>1. r \in Nat \X Nat \X Nat /\ r[1] \in Fans /\ r[2] \in DOMAIN Program[r[1]].tracks
      /\ r[3] \in DOMAIN Program[r[1]].tracks[r[2]]
  BY DEF Requests
<1>2. r[2] \in AllTracks /\ r[3] \in 1..Len(Program[r[1]].tracks[r[2]]) /\ Key(r) \in Keys
  BY <1>1, ProgramIs DEF Key
<1> QED BY <1>1, <1>2

LEMMA LeastIs ==
  ASSUME NEW S \in SUBSET Nat, S # {}
  PROVE  Min(S) \in S /\ \A j \in S : Min(S) <= j
<1>1. PICK x \in S : \A y \in S : ~(<<y, x>> \in OpToRel(<, Nat))
  BY NatLessThanWellFounded, WFMin
<1>2. \A y \in S : ~(y < x)
  BY <1>1 DEF OpToRel
<1>3. \A y \in S : x <= y
  BY <1>2
<1> QED BY <1>3 DEF Min

LEMMA FirstIsOne ==
  ASSUME NEW is \in SUBSET (DOMAIN tape), is # {}, tape \in Seq(Entries)
  PROVE  FirstOf(is) \in is /\ \A j \in is : tape[FirstOf(is)].ordinal <= tape[j].ordinal
<1> DEFINE T == {tape[i].ordinal : i \in is}
<1>1. T \in SUBSET Nat /\ T # {}
  <2>1. \A i \in is : tape[i] \in Entries
    OBVIOUS
  <2> QED BY <2>1 DEF Entries
<1>2. Min(T) \in T /\ \A y \in T : Min(T) <= y
  <2> HIDE DEF T
  <2> QED BY <1>1, LeastIs
<1>3. PICK i \in is : Min(T) = tape[i].ordinal
  BY <1>2
<1>4. \A j \in is : tape[i].ordinal <= tape[j].ordinal
  BY <1>2, <1>3
<1> QED BY <1>4 DEF FirstOf

LEMMA NextGateIs ==
  ASSUME CassetteTypes, NEW method
  PROVE  \/ /\ NextGate(method) \in DOMAIN gates \ played /\ NextGate(method) # 0
            /\ gates[NextGate(method)].method = method
            /\ \A i \in DOMAIN gates \ played :
                 gates[i].method = method => NextGate(method) <= i
         \/ /\ NextGate(method) = 0
            /\ \A i \in DOMAIN gates \ played : gates[i].method # method
<1> DEFINE Q == {i \in DOMAIN gates : i \notin played /\ gates[i].method = method}
<1>1. Q \in SUBSET (Nat \ {0})
  BY DEF CassetteTypes
<1>2. NextGate(method) = IF Q = {} THEN 0 ELSE Min(Q)
  BY DEF NextGate
<1>3. CASE Q = {}
  BY <1>2, <1>3
<1>4. CASE Q # {}
  <2>1. Min(Q) \in Q /\ \A j \in Q : Min(Q) <= j
    BY <1>1, <1>4, LeastIs
  <2> QED BY <1>1, <1>2, <1>4, <2>1
<1> QED BY <1>3, <1>4

LEMMA TypesInit == CassetteInit => CassetteTypes
<1> SUFFICES ASSUME CassetteInit PROVE CassetteTypes
  OBVIOUS
<1>1. Clean \in States /\ Nowhere \in [AllTracks -> Nat]
  BY DEF Clean, Gone, States, Nowhere
<1>2. fanOut \in 1..(Len(Program) + 1)
  BY FansAre, CassetteAssumption DEF CassetteInit
<1>3. after \in [Fans -> States] /\ before \in [AllTracks -> States]
  BY <1>1 DEF CassetteInit
<1>4. IsFiniteSet(busy) /\ busy = {}
  BY FS_EmptySet DEF CassetteInit
<1>5. tape \in Seq(Entries) /\ served \in SUBSET (DOMAIN tape)
      /\ gates \in Seq([method : {"askText", "choose", "confirm", "none"}, of : Fans])
      /\ played \in SUBSET (DOMAIN gates)
  BY DEF CassetteInit
<1> QED BY <1>1, <1>2, <1>3, <1>4, <1>5 DEF CassetteInit, CassetteTypes

\* An entry is one of the tape: it has the files that its session wrote.
LEMMA EntryIs ==
  ASSUME CassetteTypes, Walk, NEW t \in busy, fanOut \in Fans, NEW files \in SUBSET Places
  PROVE  /\ Entry(t, files) \in Entries /\ Request(t) \in Requests
         /\ Entry(t, files).of = Request(t) /\ Entry(t, files).ordinal = taken[t]
         /\ Entry(t, files).key = Key(Request(t))
         /\ DOMAIN Entry(t, files).files = files
         /\ \A p \in files : Entry(t, files).files[p] = disk[p]
<1>1. t \in Tracks /\ at[t] \in 1..Len(Program[fanOut].tracks[t])
  BY TracksAre DEF CassetteTypes, Walk
<1>2. Request(t) \in Requests /\ Key(Request(t)) \in Keys
  BY <1>1, TracksAre DEF Request
<1>3. taken[t] \in Nat
  BY DEF CassetteTypes
<1>4. [p \in files |-> disk[p]] \in [files -> Nat \X Nat]
  <2>1. disk \in [Places -> Nat \X Nat]
    BY DEF CassetteTypes, States
  <2> QED BY <2>1
<1>5. [p \in files |-> disk[p]] \in Files
  BY <1>4 DEF Files
<1>6. Entry(t, files) \in Entries
  BY <1>2, <1>3, <1>5 DEF Entry, Entries
<1> QED BY <1>2, <1>6 DEF Entry

\* What is recorded with an answer, and what is lost with it.
LEMMA AnswerIs ==
  ASSUME CassetteTypes, NEW t, RecordAnswer(t)
  PROVE  \E files \in SUBSET Places :
           /\ tape' = Append(tape, Entry(t, files))
           /\ \/ files = Captured(t) /\ lost' = lost \cup Hidden(t)
              \/ files = {} /\ lost' = lost \cup Changed(t)
<1>1. Captured(t) \in SUBSET Places
  BY DEF Captured, Changed
<1> QED BY <1>1 DEF RecordAnswer, AppendEntry

LEMMA RewindTypes ==
  ASSUME CassetteTypes, Rewind, throws' \in Nat,
         UNCHANGED <<counter, tape, served, gates, played, after, lost>>
  PROVE  CassetteTypes'
<1>1. Clean \in States /\ Nowhere \in [AllTracks -> Nat]
  BY DEF Clean, Gone, States, Nowhere
<1>2. before' \in [AllTracks -> States]
  BY <1>1 DEF Rewind
<1>3. IsFiniteSet(busy') /\ busy' = {}
  BY FS_EmptySet DEF Rewind
<1>4. fanOut' \in 1..(Len(Program) + 1)
  BY FansAre DEF Rewind
<1> QED BY <1>1, <1>2, <1>3, <1>4 DEF Rewind, CassetteTypes

LEMMA TypesStep ==
  ASSUME CassetteTypes, Walk, phase # "recording" => Replaying, CassetteNext
  PROVE  CassetteTypes'
<1> USE DEF CassetteTypes
<1>0. Nowhere \in [AllTracks -> Nat] /\ Clean \in States
  BY DEF Nowhere, Clean, Gone, States
<1>1. ASSUME NEW t \in AllTracks, RecordDispatch(t) PROVE CassetteTypes'
  <2>1. IsFiniteSet(busy') /\ busy' \in SUBSET AllTracks
    BY <1>1, FS_AddElement DEF RecordDispatch, Starts
  <2>2. at' \in [AllTracks -> Nat] /\ taken' \in [AllTracks -> Nat] /\ counter' \in Nat
    BY <1>1 DEF RecordDispatch, Starts
  <2>3. before' \in [AllTracks -> States]
    BY <1>1 DEF RecordDispatch
  <2> QED BY <1>1, <2>1, <2>2, <2>3 DEF RecordDispatch
<1>2. ASSUME NEW t \in AllTracks, SessionWrites(t) PROVE CassetteTypes'
  <2>1. disk' \in States
    <3>1. PICK content \in {Gone, <<at[t], 1>>, <<at[t], 2>>} :
            disk' = [disk EXCEPT ![<<fanOut, t>>] = content]
      BY <1>2 DEF SessionWrites
    <3>2. content \in Nat \X Nat
      BY DEF Gone
    <3> QED BY <3>1, <3>2 DEF States
  <2> QED BY <1>2, <2>1 DEF SessionWrites
<1>3. ASSUME NEW t \in AllTracks, RecordAnswer(t) PROVE CassetteTypes'
  <2>1. IsFiniteSet(busy') /\ busy' \in SUBSET AllTracks
    BY <1>3, FS_RemoveElement DEF RecordAnswer
  <2>2. PICK files \in SUBSET Places :
          /\ tape' = Append(tape, Entry(t, files))
          /\ \/ files = Captured(t) /\ lost' = lost \cup Hidden(t)
             \/ files = {} /\ lost' = lost \cup Changed(t)
    BY <1>3, AnswerIs
  <2>3. Entry(t, files) \in Entries
    BY <1>3, EntryIs DEF RecordAnswer, Running
  <2>4. tape' \in Seq(Entries) /\ DOMAIN tape \subseteq DOMAIN tape'
    BY <2>2, <2>3, AppendProperties
  <2>5. before' \in [AllTracks -> States]
    BY <1>0, <1>3 DEF RecordAnswer
  <2>6. lost' \in SUBSET Places
    BY <2>2 DEF Hidden, Changed
  <2> QED BY <1>3, <2>1, <2>4, <2>5, <2>6 DEF RecordAnswer
<1>4. ASSUME NEW t \in AllTracks, DispatchThrows(t) PROVE CassetteTypes'
  BY <1>4, RewindTypes DEF DispatchThrows
<1>5. ASSUME NEW t \in AllTracks, ReplayDispatch(t) PROVE CassetteTypes'
  <2> DEFINE is == Bucket(Program[fanOut].tracks[t][at[t] + 1])
  <2> HIDE DEF is
  <2>1. CASE is = {}
    <3>1. phase' = "missed" /\ UNCHANGED <<at, busy, taken, served>>
      BY <1>5, <2>1 DEF ReplayDispatch, NextKey, is
    <3> QED BY <1>5, <3>1 DEF ReplayDispatch
  <2>2. CASE is # {}
    <3>1. /\ Starts(t) /\ taken' = [taken EXCEPT ![t] = FirstOf(is)]
          /\ served' = served \cup {FirstOf(is)} /\ UNCHANGED phase
      BY <1>5, <2>2 DEF ReplayDispatch, NextKey, is
    <3>2. FirstOf(is) \in DOMAIN tape
      BY <2>2, FirstIsOne DEF is, Bucket
    <3>3. FirstOf(is) \in Nat /\ served' \in SUBSET (DOMAIN tape)
      BY <3>1, <3>2
    <3>4. IsFiniteSet(busy') /\ busy' \in SUBSET AllTracks
      BY <3>1, FS_AddElement DEF Starts
    <3>5. at' \in [AllTracks -> Nat] /\ taken' \in [AllTracks -> Nat]
      BY <3>1, <3>3 DEF Starts
    <3> QED BY <1>5, <3>1, <3>3, <3>4, <3>5 DEF ReplayDispatch
  <2> QED BY <2>1, <2>2
<1>6. ASSUME NEW t \in AllTracks, ReplayAnswer(t) PROVE CassetteTypes'
  <2>1. IsFiniteSet(busy') /\ busy' \in SUBSET AllTracks
    BY <1>6, FS_RemoveElement DEF ReplayAnswer
  <2>2. tape[taken[t]] \in Entries
    BY <1>6 DEF ReplayAnswer, Replaying
  <2>3. tape[taken[t]].files \in Files
    BY <2>2 DEF Entries
  <2>4. \A p \in DOMAIN tape[taken[t]].files : tape[taken[t]].files[p] \in Nat \X Nat
    BY <2>3 DEF Files
  <2>5. disk' \in States
    BY <1>6, <2>4 DEF ReplayAnswer, States
  <2> QED BY <1>6, <2>1, <2>5 DEF ReplayAnswer
<1>7. CASE RecordGate
  <2>1. fanOut' \in 1..(Len(Program) + 1) /\ at' \in [AllTracks -> Nat]
    BY <1>0, <1>7, FansAre DEF RecordGate, NextFan, Running
  <2>2. after' \in [Fans -> States]
    BY <1>7 DEF RecordGate
  <2>3. gates' \in Seq([method : {"askText", "choose", "confirm", "none"}, of : Fans])
        /\ DOMAIN gates \subseteq DOMAIN gates'
    <3>1. fanOut \in Fans
      BY <1>7 DEF RecordGate, Running
    <3>2. [method |-> Program[fanOut].gate, of |-> fanOut]
            \in [method : {"askText", "choose", "confirm", "none"}, of : Fans]
      BY <3>1, ProgramIs
    <3>3. CASE gates' = gates
      BY <3>3
    <3>4. CASE gates' = Append(gates, [method |-> Program[fanOut].gate, of |-> fanOut])
      BY <3>2, <3>4, AppendProperties
    <3> QED BY <1>7, <3>3, <3>4 DEF RecordGate
  <2> QED BY <1>7, <2>1, <2>2, <2>3 DEF RecordGate
<1>8. CASE Flush
  BY <1>8, RewindTypes DEF Flush
<1>9. CASE ReplayGate
  <2>1. fanOut' \in 1..(Len(Program) + 1) /\ at' \in [AllTracks -> Nat]
    BY <1>0, <1>9, FansAre DEF ReplayGate, NextFan, Running
  <2>2. played' \in SUBSET (DOMAIN gates)
    BY <1>9, NextGateIs DEF ReplayGate
  <2> QED BY <1>9, <2>1, <2>2 DEF ReplayGate
<1>10. CASE ReplayEnds
  BY <1>10 DEF ReplayEnds
<1>11. ASSUME NEW t \in AllTracks, GoesAstray(t) PROVE CassetteTypes'
  BY <1>11 DEF GoesAstray
<1> QED
  BY <1>1, <1>2, <1>3, <1>4, <1>5, <1>6, <1>7, <1>8, <1>9, <1>10, <1>11 DEF CassetteNext

-----------------------------------------------------------------------------
(* Where the fan-out is: one request per track at a time, an ordered one   *)
(* starts its tracks in their order, and it is left when all are answered. *)

LEMMA FreshWalk ==
  ASSUME fanOut' \in 1..(Len(Program) + 1), at' = Nowhere, busy' = {}, phase' # "over"
  PROVE  Walk'
<1>1. ASSUME fanOut' \in Fans
      PROVE  /\ Tracks' \in SUBSET AllTracks
             /\ \A t \in Tracks' : /\ Len(Program[fanOut'].tracks[t]) \in Nat
                                   /\ at'[t] = 0
  BY <1>1, ProgramIs DEF Tracks, Nowhere
<1> QED BY <1>1 DEF Walk

LEMMA StartsWalk ==
  ASSUME CassetteTypes, Walk, NEW t, MayStart(t), Starts(t), fanOut' = fanOut,
         phase' # "over"
  PROVE  Walk' /\ at'[t] = at[t] + 1
<1>1. /\ fanOut \in Fans /\ t \in Tracks \ busy /\ t \in AllTracks
      /\ at[t] < Len(Program[fanOut].tracks[t])
      /\ Program[fanOut].ordered => \A u \in Tracks : u < t => at[u] > 0
  BY TracksAre DEF MayStart, Ready, Running
<1>2. Tracks' = Tracks /\ Tracks \in SUBSET AllTracks /\ Tracks \in SUBSET Nat
  BY <1>1, TracksAre DEF Tracks
<1>3. at \in [AllTracks -> Nat] /\ at' = [at EXCEPT ![t] = at[t] + 1]
      /\ busy' = busy \cup {t}
  BY DEF Starts, CassetteTypes
<1>4. \A u \in Tracks : Len(Program[fanOut].tracks[u]) \in Nat
  BY <1>1, TracksAre
<1>5. /\ busy \in SUBSET Tracks /\ \A u \in busy : at[u] > 0
      /\ \A u \in Tracks : at[u] <= Len(Program[fanOut].tracks[u])
      /\ Program[fanOut].ordered =>
            \A u, v \in Tracks : v < u /\ at[u] > 0 => at[v] > 0
  BY <1>1 DEF Walk
<1>6. at'[t] = at[t] + 1 /\ \A u \in AllTracks : u # t => at'[u] = at[u]
  BY <1>1, <1>3
<1>7. \A u \in Tracks : at'[u] \in Nat /\ at[u] \in Nat /\ at'[u] >= at[u]
  BY <1>1, <1>2, <1>3, <1>6
<1>8. \A u \in busy' : u \in Tracks /\ at'[u] > 0
  BY <1>1, <1>2, <1>3, <1>5, <1>6, <1>7
<1>9. \A u \in Tracks : at'[u] <= Len(Program[fanOut].tracks[u])
  BY <1>1, <1>2, <1>4, <1>5, <1>6, <1>7
<1>10. Program[fanOut].ordered => \A u, v \in Tracks : v < u /\ at'[u] > 0 => at'[v] > 0
  <2> SUFFICES ASSUME Program[fanOut].ordered, NEW u \in Tracks, NEW v \in Tracks,
                      v < u, at'[u] > 0
               PROVE  at'[v] > 0
    OBVIOUS
  <2>1. at[v] > 0
    BY <1>1, <1>2, <1>5, <1>6
  <2> QED BY <1>7, <2>1
<1> QED BY <1>1, <1>2, <1>6, <1>8, <1>9, <1>10 DEF Walk

LEMMA StepsWalk ==
  ASSUME Walk, fanOut' = fanOut, at' = at, busy' \in SUBSET busy, phase' # "over"
  PROVE  Walk'
BY DEF Walk, Tracks

LEMMA DoneIsQuiet ==
  ASSUME CassetteTypes, Walk, fanOut \in Fans, FanDone, NextFan
  PROVE  busy = {} /\ fanOut' \in 1..(Len(Program) + 1) /\ at' = Nowhere
         /\ fanOut' = fanOut + 1
BY FansAre DEF Walk, FanDone, NextFan

LEMMA WalkInit == CassetteInit => Walk
<1> SUFFICES ASSUME CassetteInit PROVE Walk
  OBVIOUS
<1>1. fanOut \in Fans
  BY CassetteAssumption DEF CassetteInit, Fans
<1>2. \A t \in Tracks : Len(Program[fanOut].tracks[t]) \in Nat /\ at[t] = 0
  BY <1>1, TracksAre DEF CassetteInit, Nowhere
<1> QED BY <1>1, <1>2 DEF Walk, CassetteInit

LEMMA ServeIs ==
  ASSUME CassetteTypes, NEW t \in AllTracks, ReplayDispatch(t)
  PROVE  \/ /\ Bucket(Program[fanOut].tracks[t][at[t] + 1]) = {} /\ phase' = "missed"
            /\ UNCHANGED <<at, busy, taken, served>>
         \/ \E k \in Bucket(Program[fanOut].tracks[t][at[t] + 1]) :
              /\ \A j \in Bucket(Program[fanOut].tracks[t][at[t] + 1]) :
                   tape[k].ordinal <= tape[j].ordinal
              /\ k \in DOMAIN tape \ served /\ phase' = phase
              /\ MayStart(t) /\ Starts(t)
              /\ taken' = [taken EXCEPT ![t] = k] /\ served' = served \cup {k}
<1> DEFINE is == Bucket(Program[fanOut].tracks[t][at[t] + 1])
<1>0. is \in SUBSET (DOMAIN tape \ served) /\ tape \in Seq(Entries)
  BY DEF Bucket, CassetteTypes
<1> HIDE DEF is
<1>1. CASE is = {}
  <2>1. phase' = "missed" /\ UNCHANGED <<at, busy, taken, served>>
    BY <1>1 DEF ReplayDispatch, NextKey, is
  <2> QED BY <1>1, <2>1 DEF is
<1>2. CASE is # {}
  <2>1. /\ Starts(t) /\ taken' = [taken EXCEPT ![t] = FirstOf(is)]
        /\ served' = served \cup {FirstOf(is)} /\ UNCHANGED phase /\ MayStart(t)
    BY <1>2 DEF ReplayDispatch, NextKey, is
  <2>2. is \in SUBSET (DOMAIN tape)
    BY <1>0
  <2>3. FirstOf(is) \in is /\ \A j \in is : tape[FirstOf(is)].ordinal <= tape[j].ordinal
    BY <1>0, <1>2, <2>2, FirstIsOne
  <2> QED BY <1>0, <2>1, <2>3 DEF is
<1> QED BY <1>1, <1>2

LEMMA WalkStep ==
  ASSUME CassetteTypes, Walk, CassetteNext
  PROVE  Walk'
<1>1. ASSUME NEW t \in AllTracks, RecordDispatch(t) PROVE Walk'
  BY <1>1, StartsWalk DEF RecordDispatch
<1>2. ASSUME NEW t \in AllTracks, SessionWrites(t) PROVE Walk'
  BY <1>2, StepsWalk DEF SessionWrites
<1>3. ASSUME NEW t \in AllTracks, RecordAnswer(t) PROVE Walk'
  BY <1>3, StepsWalk DEF RecordAnswer
<1>4. ASSUME Rewind PROVE Walk'
  BY <1>4, FreshWalk, FansAre DEF Rewind
<1>5. ASSUME NEW t \in AllTracks, ReplayDispatch(t) PROVE Walk'
  <2>1. fanOut' = fanOut /\ phase = "replaying"
    BY <1>5 DEF ReplayDispatch
  <2>2. CASE phase' = "missed" /\ UNCHANGED <<at, busy>>
    BY <2>1, <2>2, StepsWalk
  <2>3. CASE MayStart(t) /\ Starts(t) /\ phase' = phase
    BY <2>1, <2>3, StartsWalk
  <2> QED BY <1>5, <2>2, <2>3, ServeIs
<1>6. ASSUME NEW t \in AllTracks, ReplayAnswer(t) PROVE Walk'
  BY <1>6, StepsWalk DEF ReplayAnswer
<1>7. CASE RecordGate
  <2>1. busy' = {} /\ at' = Nowhere /\ phase' = "recording"
        /\ fanOut' \in 1..(Len(Program) + 1)
    BY <1>7, DoneIsQuiet DEF RecordGate, Running
  <2> QED BY <2>1, FreshWalk
<1>8. CASE ReplayGate
  <2>1. busy' = {} /\ at' = Nowhere /\ phase' = "replaying"
        /\ fanOut' \in 1..(Len(Program) + 1)
    BY <1>8, DoneIsQuiet DEF ReplayGate, Running
  <2> QED BY <2>1, FreshWalk
<1>9. CASE ReplayEnds
  BY <1>9 DEF ReplayEnds, Walk, Tracks
<1>10. ASSUME NEW t \in AllTracks, GoesAstray(t) PROVE Walk'
  BY <1>10, StepsWalk DEF GoesAstray
<1> QED
  BY <1>1, <1>2, <1>3, <1>4, <1>5, <1>6, <1>7, <1>8, <1>9, <1>10
  DEF CassetteNext, Flush, DispatchThrows

-----------------------------------------------------------------------------
(* The requests that have started only grow, along Before; while a run is  *)
(* recorded each of them has taken one ordinal, in that order.             *)

LEMMA BeforeIsStrict ==
  ASSUME NEW r \in Requests
  PROVE  ~Before(r, r)
BY RequestsAre DEF Before

LEMMA StartedIs ==
  ASSUME NEW r
  PROVE  r \in Started <=>
           r \in Requests /\ (r[1] < fanOut \/ (r[1] = fanOut /\ r[3] <= at[r[2]]))
BY DEF Started

LEMMA StartedGrows ==
  ASSUME CassetteTypes, Walk, NEW t, MayStart(t), Starts(t), fanOut' = fanOut
  PROVE  /\ <<fanOut, t, at[t] + 1>> \in Requests \ Started
         /\ Started' = Started \cup {<<fanOut, t, at[t] + 1>>}
         /\ Request(t)' = <<fanOut, t, at[t] + 1>> /\ t \notin busy /\ t \in AllTracks
         /\ busy' = busy \cup {t}
         /\ \A u \in busy : Request(u)' = Request(u)
         /\ Key(<<fanOut, t, at[t] + 1>>) = Program[fanOut].tracks[t][at[t] + 1]
<1>1. /\ fanOut \in Fans /\ t \in Tracks \ busy /\ t \in AllTracks
      /\ at[t] < Len(Program[fanOut].tracks[t]) /\ Len(Program[fanOut].tracks[t]) \in Nat
  BY TracksAre DEF MayStart, Ready, Running
<1>2. at \in [AllTracks -> Nat] /\ at' = [at EXCEPT ![t] = at[t] + 1] /\ fanOut \in Nat
      /\ busy' = busy \cup {t} /\ busy \in SUBSET AllTracks
  BY FansAre DEF CassetteTypes, Starts
<1>3. at[t] \in Nat /\ at[t] + 1 \in 1..Len(Program[fanOut].tracks[t])
  BY <1>1, <1>2
<1>4. <<fanOut, t, at[t] + 1>> \in Requests
      /\ Key(<<fanOut, t, at[t] + 1>>) = Program[fanOut].tracks[t][at[t] + 1]
  BY <1>1, <1>3, TracksAre
<1>5. <<fanOut, t, at[t] + 1>> \notin Started
  BY <1>2, <1>3, <1>4, StartedIs
<1>6. Request(t)' = <<fanOut, t, at[t] + 1>> /\ \A u \in busy : Request(u)' = Request(u)
  BY <1>1, <1>2 DEF Request
<1>7. ASSUME NEW r
      PROVE  r \in Started' <=> r \in Started \/ r = <<fanOut, t, at[t] + 1>>
  <2>1. r \in Started' <=>
          r \in Requests /\ (r[1] < fanOut \/ (r[1] = fanOut /\ r[3] <= at'[r[2]]))
    BY DEF Started
  <2>2. ASSUME r \in Requests
        PROVE  /\ r = <<r[1], r[2], r[3]>> /\ r[2] \in AllTracks /\ r[3] \in Nat
               /\ r[1] \in Nat
    BY <2>2, RequestsAre
  <2>3. CASE r \in Requests /\ r[1] = fanOut /\ r[2] = t
    <3>1. r[3] <= at[t] + 1 <=> r[3] <= at[t] \/ r[3] = at[t] + 1
      BY <1>3, <2>2, <2>3
    <3>2. at'[r[2]] = at[t] + 1
      BY <1>1, <1>2, <2>3
    <3> QED BY <1>2, <2>1, <2>2, <2>3, <3>1, <3>2, StartedIs
  <2>4. CASE r \in Requests /\ ~(r[1] = fanOut /\ r[2] = t)
    <3>1. r[1] = fanOut => at'[r[2]] = at[r[2]]
      BY <1>2, <2>2, <2>4
    <3> QED BY <2>1, <2>4, <3>1, StartedIs
  <2>5. CASE r \notin Requests
    BY <1>4, <2>1, <2>5, StartedIs
  <2> QED BY <2>3, <2>4, <2>5
<1> QED BY <1>1, <1>2, <1>4, <1>5, <1>6, <1>7

LEMMA StartedNext ==
  ASSUME CassetteTypes, Walk, fanOut \in Fans, FanDone, NextFan
  PROVE  Started' = Started
<1>1. at' = Nowhere /\ fanOut' = fanOut + 1 /\ fanOut \in Nat
  BY FansAre DEF NextFan
<1>2. ASSUME NEW r \in Requests
      PROVE  r \in Started' <=> r \in Started
  <2>1. /\ r[1] \in Nat /\ r[3] \in 1..Len(Program[r[1]].tracks[r[2]]) /\ r[3] \in Nat
        /\ r[2] \in AllTracks /\ r[2] \in DOMAIN Program[r[1]].tracks /\ r[3] > 0
    BY RequestsAre
  <2>2. r[1] = fanOut => r[3] <= at[r[2]]
    BY <2>1 DEF FanDone, Tracks
  <2>3. r \in Started' <=>
          (r[1] < fanOut + 1 \/ (r[1] = fanOut + 1 /\ r[3] <= 0))
    BY <1>1, <2>1 DEF Started, Nowhere
  <2>4. r \in Started' <=> r[1] < fanOut \/ r[1] = fanOut
    BY <1>1, <2>1, <2>3
  <2> QED BY <2>2, <2>4, StartedIs
<1> QED BY <1>2 DEF Started

LEMMA StartedClosed ==
  ASSUME CassetteTypes, Walk, NEW r \in Requests, NEW s \in Started, Before(r, s)
  PROVE  r \in Started
<1>1. s \in Requests /\ (s[1] < fanOut \/ (s[1] = fanOut /\ s[3] <= at[s[2]]))
  BY StartedIs
<1>2. /\ r[1] \in Nat /\ r[2] \in Nat /\ r[3] \in Nat /\ r[2] \in DOMAIN Program[r[1]].tracks
      /\ s[1] \in Nat /\ s[2] \in Nat /\ s[3] \in Nat /\ s[2] \in DOMAIN Program[s[1]].tracks
      /\ s[3] > 0 /\ fanOut \in Nat /\ r[2] \in AllTracks /\ s[2] \in AllTracks
      /\ s[1] \in Fans
  <2>1. fanOut \in Nat
    BY FansAre DEF CassetteTypes
  <2>2. /\ r[1] \in Nat /\ r[2] \in Nat /\ r[3] \in Nat /\ r[2] \in AllTracks
        /\ r[2] \in DOMAIN Program[r[1]].tracks
    BY RequestsAre
  <2>3. /\ s[1] \in Nat /\ s[2] \in Nat /\ s[2] \in AllTracks /\ s[1] \in Fans
        /\ s[2] \in DOMAIN Program[s[1]].tracks /\ s[3] \in Nat
    BY <1>1, RequestsAre
  <2>4. s[3] > 0
    BY <1>1, RequestsAre
  <2> QED
    BY <2>1, <2>2, <2>3, <2>4
<1>3. CASE r[1] < s[1] \/ s[1] < fanOut
  <2>1. r[1] < fanOut
    BY <1>1, <1>2, <1>3 DEF Before
  <2> QED BY <2>1, StartedIs
<1>4. CASE ~(r[1] < s[1]) /\ s[1] = fanOut
  <2>1. /\ r[1] = fanOut /\ r[2] \in Tracks /\ s[2] \in Tracks /\ s[3] <= at[s[2]]
        /\ fanOut \in Fans
    BY <1>1, <1>2, <1>4 DEF Before, Tracks
  <2>2. at[r[2]] \in Nat /\ at[s[2]] \in Nat
    BY <1>2 DEF CassetteTypes
  <2>3. CASE r[2] = s[2] /\ r[3] < s[3]
    <3>1. r[3] <= at[r[2]]
      BY <1>2, <2>1, <2>2, <2>3
    <3> QED BY <2>1, <3>1, StartedIs
  <2>4. CASE Program[r[1]].ordered /\ r[2] < s[2] /\ r[3] = 1
    <3>1. at[s[2]] > 0
      BY <1>2, <2>1, <2>2
    <3>2. at[r[2]] > 0
      BY <2>1, <2>4, <3>1 DEF Walk
    <3>3. r[3] <= at[r[2]]
      BY <2>2, <2>4, <3>2
    <3> QED BY <2>1, <3>3, StartedIs
  <2> QED BY <1>4, <2>3, <2>4 DEF Before
<1> QED BY <1>1, <1>3, <1>4

LEMMA StartedNone ==
  ASSUME Rewind
  PROVE  Started' = {}
<1> SUFFICES ASSUME NEW r \in Started' PROVE FALSE
  OBVIOUS
<1>1. r \in Requests /\ (r[1] < 1 \/ (r[1] = 1 /\ r[3] <= at'[r[2]])) /\ at' = Nowhere
  BY DEF Started, Rewind
<1>2. r[1] >= 1 /\ r[1] \in Nat /\ r[3] >= 1 /\ r[3] \in Nat /\ r[2] \in AllTracks
  BY <1>1, RequestsAre, FansAre
<1>3. at'[r[2]] = 0
  BY <1>1, <1>2 DEF Nowhere
<1> QED BY <1>1, <1>2, <1>3

LEMMA StartedAll ==
  ASSUME CassetteTypes, fanOut \notin Fans
  PROVE  Started = Requests
<1>1. fanOut = Len(Program) + 1
  BY FansAre DEF CassetteTypes
<1>2. \A r \in Requests : r[1] < fanOut
  BY <1>1, RequestsAre, FansAre
<1> QED BY <1>2 DEF Started

LEMMA TapeStays ==
  ASSUME Taped, tape' = tape, counter' >= counter, counter \in Nat, counter' \in Nat,
         Len(tape) \in Nat
  PROVE  Taped'
BY DEF Taped

LEMMA OrdinalsAre ==
  /\ \A i \in DOMAIN tape : <<tape[i].of, tape[i].ordinal>> \in Ordinals
  /\ \A t \in busy : <<Request(t), taken[t]>> \in Ordinals
  /\ \A p \in Ordinals :
       \/ \E i \in DOMAIN tape : p = <<tape[i].of, tape[i].ordinal>>
       \/ \E t \in busy : p = <<Request(t), taken[t]>>
BY DEF Ordinals

LEMMA RecordDispatchTapes ==
  ASSUME CassetteTypes, Walk, Taped, Recording, NEW t \in AllTracks, RecordDispatch(t)
  PROVE  Taped' /\ Recording'
<1> DEFINE r == <<fanOut, t, at[t] + 1>>
<1>0. MayStart(t) /\ Starts(t) /\ fanOut' = fanOut /\ tape' = tape
      /\ taken' = [taken EXCEPT ![t] = counter] /\ counter' = counter + 1
      /\ UNCHANGED <<served, played>>
  BY DEF RecordDispatch
<1>1. /\ r \in Requests \ Started /\ Started' = Started \cup {r} /\ Request(t)' = r
      /\ t \notin busy /\ busy' = busy \cup {t} /\ \A u \in busy : Request(u)' = Request(u)
  BY <1>0, StartedGrows
<1> HIDE DEF r
<1>2. taken'[t] = counter /\ \A u \in busy : taken'[u] = taken[u]
  BY <1>0, <1>1 DEF CassetteTypes
<1>3. Ordinals' = Ordinals \cup {<<r, counter>>}
  <2>1. \A p \in Ordinals' : p \in Ordinals \/ p = <<r, counter>>
    BY <1>0, <1>1, <1>2, OrdinalsAre DEF Ordinals
  <2>2. \A p \in Ordinals : p \in Ordinals'
    BY <1>0, <1>1, <1>2 DEF Ordinals
  <2>3. <<r, counter>> \in Ordinals'
    BY <1>1, <1>2 DEF Ordinals
  <2> QED BY <2>1, <2>2, <2>3
<1>4. /\ \A p \in Ordinals : p[1] \in Started /\ p[2] < counter
      /\ \A p, q \in Ordinals : p[1] = q[1] <=> p[2] = q[2]
      /\ \A p, q \in Ordinals : Before(p[1], q[1]) => p[2] < q[2]
      /\ \A s \in Started : \E p \in Ordinals : p[1] = s
  BY DEF Recording
<1>5. counter \in Nat /\ Len(tape) \in Nat /\ \A p \in Ordinals : p[2] \in Nat
  <2>1. counter \in Nat /\ Len(tape) \in Nat /\ \A u \in busy : taken[u] \in Nat
    BY DEF CassetteTypes
  <2>2. \A i \in DOMAIN tape : tape[i] \in Entries
    BY DEF CassetteTypes
  <2>3. \A i \in DOMAIN tape : tape[i].ordinal \in Nat
    BY <2>2 DEF Entries
  <2> QED BY <2>1, <2>3, OrdinalsAre
<1>6. Taped'
  BY <1>0, <1>5, TapeStays
<1>7. counter' = Len(tape') + Cardinality(busy')
  <2>1. IsFiniteSet(busy)
    BY DEF CassetteTypes
  <2>2. Cardinality(busy') = Cardinality(busy) + 1 /\ Cardinality(busy) \in Nat
    BY <1>1, <2>1, FS_AddElement, FS_CardinalityType
  <2> QED BY <1>0, <1>5, <2>2 DEF Recording
<1>8. \A p \in Ordinals' : p[1] \in Started' /\ p[2] < counter'
  BY <1>0, <1>1, <1>3, <1>4, <1>5
<1>9. ASSUME NEW p \in Ordinals', NEW q \in Ordinals'
      PROVE  (p[1] = q[1] <=> p[2] = q[2]) /\ (Before(p[1], q[1]) => p[2] < q[2])
  <2>1. CASE p \in Ordinals /\ q \in Ordinals
    BY <1>4, <2>1
  <2>2. CASE p \in Ordinals /\ q = <<r, counter>>
    <3>1. p[1] # r /\ p[2] < counter /\ p[2] # counter /\ q[1] = r /\ q[2] = counter
      BY <1>1, <1>4, <1>5, <2>2
    <3> QED BY <3>1
  <2>3. CASE p = <<r, counter>> /\ q \in Ordinals
    <3>1. q[1] # r /\ q[2] # counter /\ p[1] = r /\ p[2] = counter /\ q[1] \in Started
      BY <1>1, <1>4, <1>5, <2>3
    <3>2. ~Before(r, q[1])
      BY <1>1, <3>1, StartedClosed
    <3> QED BY <3>1, <3>2
  <2>4. CASE p = <<r, counter>> /\ q = <<r, counter>>
    BY <1>1, <2>4, BeforeIsStrict
  <2> QED BY <1>3, <2>1, <2>2, <2>3, <2>4
<1>10. \A s \in Started' : \E p \in Ordinals' : p[1] = s
  <2>1. <<r, counter>>[1] = r
    OBVIOUS
  <2> QED BY <1>1, <1>3, <1>4, <2>1
<1>11. \A i \in DOMAIN tape', u \in busy' : tape'[i].of # Request(u)'
  <2>1. \A i \in DOMAIN tape : tape[i].of \in Started
    BY <1>4, OrdinalsAre
  <2> QED BY <1>0, <1>1, <2>1 DEF Recording
<1>12. served' = {} /\ played' = {}
  BY <1>0 DEF Recording
<1> QED BY <1>6, <1>7, <1>8, <1>9, <1>10, <1>11, <1>12 DEF Recording

LEMMA RecordAnswerTapes ==
  ASSUME CassetteTypes, Walk, Taped, Recording, NEW t \in AllTracks, RecordAnswer(t)
  PROVE  Taped' /\ Recording'
<1> PICK files \in SUBSET Places : tape' = Append(tape, Entry(t, files))
  BY AnswerIs
<1> DEFINE e == Entry(t, files)
<1>0. /\ fanOut \in Fans /\ t \in busy /\ tape' = Append(tape, e) /\ busy' = busy \ {t}
      /\ UNCHANGED <<fanOut, at, counter, taken, served, played>>
  BY DEF RecordAnswer, Running
<1>1. e \in Entries /\ e.of = Request(t) /\ e.ordinal = taken[t] /\ e.key = Key(Request(t))
  BY <1>0, EntryIs
<1> HIDE DEF e
<1>2. /\ tape \in Seq(Entries) /\ Len(tape) \in Nat /\ DOMAIN tape = 1..Len(tape)
      /\ Len(tape') = Len(tape) + 1 /\ DOMAIN tape' = 1..(Len(tape) + 1)
      /\ \A i \in DOMAIN tape : tape'[i] = tape[i] /\ i \in DOMAIN tape'
      /\ tape'[Len(tape) + 1] = e /\ Len(tape) + 1 \in DOMAIN tape'
  BY <1>0, <1>1, AppendProperties DEF CassetteTypes
<1>3. \A i \in DOMAIN tape' : i \in DOMAIN tape \/ i = Len(tape) + 1
  BY <1>2
<1>4. Started' = Started /\ \A u \in busy : Request(u)' = Request(u)
  BY <1>0 DEF Started, Request
<1>5. Ordinals' = Ordinals
  <2>1. \A p \in Ordinals' : p \in Ordinals
    <3> SUFFICES ASSUME NEW p \in Ordinals' PROVE p \in Ordinals
      OBVIOUS
    <3>1. CASE \E i \in DOMAIN tape' : p = <<tape'[i].of, tape'[i].ordinal>>
      BY <1>0, <1>1, <1>2, <1>3, <3>1, OrdinalsAre
    <3>2. CASE \E u \in busy' : p = <<Request(u)', taken'[u]>>
      BY <1>0, <1>4, <3>2, OrdinalsAre
    <3> QED BY <3>1, <3>2 DEF Ordinals
  <2>2. \A p \in Ordinals : p \in Ordinals'
    <3> SUFFICES ASSUME NEW p \in Ordinals PROVE p \in Ordinals'
      OBVIOUS
    <3>1. CASE \E i \in DOMAIN tape : p = <<tape[i].of, tape[i].ordinal>>
      <4>1. \E i \in DOMAIN tape' : p = <<tape'[i].of, tape'[i].ordinal>>
        BY <1>2, <3>1
      <4> QED BY <4>1 DEF Ordinals
    <3>2. CASE \E u \in busy : u # t /\ p = <<Request(u), taken[u]>>
      <4>1. \E u \in busy' : p = <<Request(u)', taken'[u]>>
        BY <1>0, <1>4, <3>2
      <4> QED BY <4>1 DEF Ordinals
    <3>3. CASE p = <<Request(t), taken[t]>>
      <4>1. \E i \in DOMAIN tape' : p = <<tape'[i].of, tape'[i].ordinal>>
        BY <1>1, <1>2, <3>3
      <4> QED BY <4>1 DEF Ordinals
    <3> QED BY <3>1, <3>2, <3>3, OrdinalsAre
  <2> QED BY <2>1, <2>2
<1>6. /\ \A p \in Ordinals : p[1] \in Started /\ p[2] < counter
      /\ \A p, q \in Ordinals : p[1] = q[1] <=> p[2] = q[2]
      /\ \A p, q \in Ordinals : Before(p[1], q[1]) => p[2] < q[2]
      /\ \A s \in Started : \E p \in Ordinals : p[1] = s
  BY DEF Recording
<1>7. \A i \in DOMAIN tape' :
        \E p \in Ordinals : p[1] = tape'[i].of /\ p[2] = tape'[i].ordinal
  <2> SUFFICES ASSUME NEW i \in DOMAIN tape'
               PROVE  \E p \in Ordinals : p[1] = tape'[i].of /\ p[2] = tape'[i].ordinal
    OBVIOUS
  <2>1. <<tape'[i].of, tape'[i].ordinal>> \in Ordinals
    BY <1>5 DEF Ordinals
  <2> QED BY <2>1
<1>8. \A i, j \in DOMAIN tape' :
        (tape'[i].of = tape'[j].of <=> tape'[i].ordinal = tape'[j].ordinal)
          /\ (Before(tape'[i].of, tape'[j].of) => tape'[i].ordinal < tape'[j].ordinal)
  BY <1>6, <1>7
<1>9. \A i, j \in DOMAIN tape' : tape'[i].of = tape'[j].of => i = j
  BY <1>0, <1>1, <1>2, <1>3 DEF Taped, Recording
<1>10. \A i \in DOMAIN tape' : tape'[i].key = Key(tape'[i].of)
  BY <1>1, <1>2, <1>3 DEF Taped
<1>11. counter' = Len(tape') + Cardinality(busy') /\ Len(tape') <= counter'
  <2>1. Cardinality(busy') = Cardinality(busy) - 1 /\ Cardinality(busy) \in Nat
        /\ Cardinality(busy') \in Nat
    BY <1>0, FS_RemoveElement, FS_CardinalityType DEF CassetteTypes
  <2> QED BY <1>0, <1>2, <2>1 DEF Recording
<1>12. \A i \in DOMAIN tape', u \in busy' : tape'[i].of # Request(u)'
  <2>1. \A u \in busy' : Request(u) # Request(t) /\ u \in busy
    BY <1>0 DEF Request
  <2> QED BY <1>1, <1>2, <1>3, <1>4, <2>1 DEF Recording
<1>13. Taped'
  BY <1>8, <1>9, <1>10, <1>11 DEF Taped
<1>14. /\ \A p \in Ordinals' : p[1] \in Started' /\ p[2] < counter'
       /\ \A p, q \in Ordinals' : p[1] = q[1] <=> p[2] = q[2]
       /\ \A p, q \in Ordinals' : Before(p[1], q[1]) => p[2] < q[2]
       /\ \A s \in Started' : \E p \in Ordinals' : p[1] = s
       /\ served' = {} /\ played' = {}
  BY <1>0, <1>4, <1>5, <1>6 DEF Recording
<1> QED BY <1>11, <1>12, <1>13, <1>14 DEF Recording

-----------------------------------------------------------------------------
(* The replay: of the entries with the key of the next request, the first  *)
(* in the order of ordinals is its own.                                    *)

LEMMA SameOrdinals ==
  ASSUME busy' = busy, tape' = tape, taken' = taken,
         \A u \in busy : Request(u)' = Request(u)
  PROVE  Ordinals' = Ordinals
BY DEF Ordinals

LEMMA RecordingStays ==
  ASSUME CassetteTypes, Taped, Recording, Started' = Started,
         UNCHANGED <<busy, counter, taken, tape, served, played>>,
         \A u \in busy : Request(u)' = Request(u)
  PROVE  Taped' /\ Recording'
<1>1. Ordinals' = Ordinals
  BY SameOrdinals
<1>2. Taped'
  BY DEF Taped
<1>3. Recording'
  BY <1>1 DEF Recording
<1> QED BY <1>2, <1>3

LEMMA RewindTapes ==
  ASSUME CassetteTypes, Walk, Taped, Recording, Rewind,
         UNCHANGED <<counter, tape, served>>, throws' = 0 => fanOut \notin Fans
  PROVE  Taped' /\ Replaying'
<1>1. Started' = {} /\ busy' = {} /\ served' = {}
  BY StartedNone DEF Rewind, Recording
<1>2. IsFiniteSet(Started') /\ Cardinality(Started') = Cardinality(served')
  BY <1>1, FS_EmptySet
<1>3. ASSUME throws' = 0
      PROVE  \A r \in Requests : \E i \in DOMAIN tape : tape[i].of = r
  <2>1. Started = Requests /\ busy = {}
    BY <1>3, StartedAll DEF Walk
  <2> SUFFICES ASSUME NEW r \in Requests
               PROVE  \E i \in DOMAIN tape : tape[i].of = r
    OBVIOUS
  <2>2. PICK p \in Ordinals : p[1] = r
    BY <2>1 DEF Recording
  <2>3. PICK i \in DOMAIN tape : p = <<tape[i].of, tape[i].ordinal>>
    BY <2>1, OrdinalsAre
  <2> QED BY <2>2, <2>3
<1>4. Taped'
  BY DEF Taped
<1>5. Replaying'
  BY <1>1, <1>2, <1>3 DEF Replaying
<1> QED BY <1>4, <1>5

LEMMA ReplayingStays ==
  ASSUME Taped, Replaying, Started' = Started, busy' \in SUBSET busy,
         UNCHANGED <<counter, taken, tape, served, throws>>,
         \A u \in busy' : Request(u)' = Request(u)
  PROVE  Taped' /\ Replaying'
<1>1. Taped'
  BY DEF Taped
<1>2. Replaying'
  BY DEF Replaying
<1> QED BY <1>1, <1>2

LEMMA OwnEntry ==
  ASSUME KeysOrdered, CassetteTypes, Walk, Taped, Replaying, throws = 0,
         NEW t \in AllTracks, ReplayDispatch(t)
  PROVE  \E k \in Bucket(Program[fanOut].tracks[t][at[t] + 1]) :
           /\ tape[k].of = <<fanOut, t, at[t] + 1>>
           /\ \A j \in Bucket(Program[fanOut].tracks[t][at[t] + 1]) :
                j # k => tape[k].ordinal < tape[j].ordinal
<1> DEFINE r == <<fanOut, t, at[t] + 1>>
<1> DEFINE key == Program[fanOut].tracks[t][at[t] + 1]
<1>1. MayStart(t)
  BY DEF ReplayDispatch
<1>2. r \in Requests \ Started /\ Key(r) = key
  <2>1. /\ fanOut \in Fans /\ t \in Tracks /\ at[t] \in Nat /\ fanOut \in Nat
        /\ at[t] < Len(Program[fanOut].tracks[t]) /\ Len(Program[fanOut].tracks[t]) \in Nat
    BY <1>1, TracksAre, FansAre DEF MayStart, Ready, Running, CassetteTypes
  <2>2. at[t] + 1 \in 1..Len(Program[fanOut].tracks[t])
    BY <2>1
  <2>3. r \in Requests /\ Key(r) = key
    BY <2>1, <2>2, TracksAre
  <2> QED BY <2>1, <2>3, StartedIs
<1>3. \A s \in Requests : Before(s, r) => s \in Started
  <2> SUFFICES ASSUME NEW s \in Requests, Before(s, r) PROVE s \in Started
    OBVIOUS
  <2>1. /\ fanOut \in Fans /\ t \in Tracks /\ at[t] \in Nat /\ fanOut \in Nat
        /\ t \in Nat
        /\ Program[fanOut].ordered => \A u \in Tracks : u < t => at[u] > 0
    BY <1>1, TracksAre, FansAre DEF MayStart, Ready, Running, CassetteTypes
  <2>2. /\ s[1] \in Nat /\ s[2] \in Nat /\ s[3] \in Nat /\ s[2] \in DOMAIN Program[s[1]].tracks
        /\ s[2] \in AllTracks
    BY RequestsAre
  <2>3. r[1] = fanOut /\ r[2] = t /\ r[3] = at[t] + 1
    OBVIOUS
  <2> HIDE DEF r
  <2>4. CASE s[1] < fanOut
    BY <2>4, StartedIs
  <2>5. CASE s[1] = fanOut /\ s[2] = t /\ s[3] < at[t] + 1
    <3>1. s[3] <= at[s[2]]
      BY <2>1, <2>2, <2>5
    <3> QED BY <2>5, <3>1, StartedIs
  <2>6. CASE s[1] = fanOut /\ Program[fanOut].ordered /\ s[2] < t /\ s[3] = 1
    <3>0. s[2] \in Tracks /\ at[s[2]] \in Nat
      BY <2>2, <2>6 DEF Tracks, CassetteTypes
    <3>1. at[s[2]] > 0 /\ at[s[2]] \in Nat
      BY <2>1, <2>6, <3>0
    <3>2. s[3] <= at[s[2]]
      BY <2>6, <3>1
    <3> QED BY <2>6, <3>2, StartedIs
  <2> QED BY <2>3, <2>4, <2>5, <2>6 DEF Before
<1> HIDE DEF r, key
<1>4. PICK k \in DOMAIN tape : tape[k].of = r
  BY <1>2 DEF Replaying
<1>5. k \in Bucket(key)
  BY <1>2, <1>4 DEF Replaying, Taped, Bucket
<1>6. ASSUME NEW j \in Bucket(key), j # k
      PROVE  tape[k].ordinal < tape[j].ordinal
  <2>1. j \in DOMAIN tape /\ tape[j].of \notin Started /\ Key(tape[j].of) = Key(r)
        /\ tape[j].of # r
    BY <1>2, <1>4, <1>6 DEF Replaying, Taped, Bucket
  <2>2. tape[j].of \in Requests
    <3>1. tape[j] \in Entries
      BY <2>1 DEF CassetteTypes
    <3> QED BY <3>1 DEF Entries
  <2>3. Before(r, tape[j].of)
    BY <1>2, <1>3, <2>1, <2>2 DEF KeysOrdered
  <2> QED BY <1>4, <2>1, <2>3 DEF Taped
<1> QED BY <1>4, <1>5, <1>6 DEF r, key

LEMMA ServeTapes ==
  ASSUME KeysOrdered, CassetteTypes, Walk, Taped, Replaying,
         NEW t \in AllTracks, ReplayDispatch(t)
  PROVE  Taped' /\ Replaying' /\ (phase' = "missed" => throws > 0)
<1> DEFINE r == <<fanOut, t, at[t] + 1>>
<1> DEFINE is == Bucket(Program[fanOut].tracks[t][at[t] + 1])
<1>0. /\ fanOut' = fanOut /\ phase = "replaying"
      /\ UNCHANGED <<counter, tape, throws>>
  BY DEF ReplayDispatch
<1>1. Taped'
  BY <1>0 DEF Taped
<1>2. ASSUME throws = 0
      PROVE  \E k \in is : /\ tape[k].of = r
                           /\ \A j \in is : j # k => tape[k].ordinal < tape[j].ordinal
  BY <1>2, OwnEntry
<1>3. CASE /\ is = {} /\ phase' = "missed" /\ UNCHANGED <<at, busy, taken, served>>
  <2>1. throws # 0 /\ throws \in Nat
    BY <1>2, <1>3 DEF CassetteTypes
  <2>2. Started' = Started /\ \A u \in busy' : Request(u)' = Request(u)
    BY <1>0, <1>3 DEF Started, Request
  <2>3. Replaying'
    BY <1>0, <1>3, <2>2, ReplayingStays
  <2> QED BY <1>1, <2>1, <2>3
<1>4. ASSUME NEW k \in is,
             \A j \in is : tape[k].ordinal <= tape[j].ordinal,
             k \in DOMAIN tape \ served, phase' = phase, MayStart(t), Starts(t),
             taken' = [taken EXCEPT ![t] = k], served' = served \cup {k}
      PROVE  Replaying' /\ phase' # "missed"
  <2>1. /\ r \in Requests \ Started /\ Started' = Started \cup {r} /\ Request(t)' = r
        /\ t \notin busy /\ busy' = busy \cup {t} /\ \A u \in busy : Request(u)' = Request(u)
    BY <1>0, <1>4, StartedGrows
  <2>2. taken'[t] = k /\ \A u \in busy : taken'[u] = taken[u]
    BY <1>4, <2>1 DEF CassetteTypes
  <2>3. IsFiniteSet(served)
    <3>1. DOMAIN tape = 1..Len(tape) /\ Len(tape) \in Nat /\ served \in SUBSET (DOMAIN tape)
      BY DEF CassetteTypes
    <3>2. 1 \in Int /\ Len(tape) \in Int
      BY <3>1
    <3>3. IsFiniteSet(1..Len(tape))
      BY <3>2, FS_Interval, Zenon
    <3> QED BY <3>1, <3>3, FS_Subset
  <2>4. Cardinality(served') = Cardinality(served) + 1
    BY <1>4, <2>3, FS_AddElement
  <2>5. IsFiniteSet(Started') /\ Cardinality(Started') = Cardinality(Started) + 1
    <3>1. IsFiniteSet(Started) /\ r \notin Started
      BY <2>1 DEF Replaying
    <3> HIDE DEF r
    <3> QED BY <2>1, <3>1, FS_AddElement
  <2>6. \A u \in busy' : taken'[u] \in DOMAIN tape'
    BY <1>0, <1>4, <2>1, <2>2 DEF Replaying
  <2>7. ASSUME throws = 0
        PROVE  tape[k].of = r
    <3> HIDE DEF r, is
    <3>1. PICK i \in is : /\ tape[i].of = r
                          /\ \A j \in is : j # i => tape[i].ordinal < tape[j].ordinal
      BY <1>2, <2>7
    <3>2. tape[i].ordinal \in Nat /\ tape[k].ordinal \in Nat
      <4>1. i \in DOMAIN tape /\ k \in DOMAIN tape
        BY <1>4 DEF is, Bucket
      <4>2. tape[i] \in Entries /\ tape[k] \in Entries
        BY <4>1 DEF CassetteTypes
      <4> QED BY <4>2 DEF Entries
    <3>3. k = i
      BY <1>4, <3>1, <3>2
    <3> QED BY <3>1, <3>3
  <2> HIDE DEF r, is
  <2>8. ASSUME throws' = 0
        PROVE  /\ \A s \in Requests : \E i \in DOMAIN tape' : tape'[i].of = s
               /\ \A i \in DOMAIN tape' : i \in served' <=> tape'[i].of \in Started'
               /\ \A u \in busy' : tape'[taken'[u]].of = Request(u)'
    <3>1. throws = 0 /\ tape[k].of = r
      BY <1>0, <2>7, <2>8
    <3>2. \A i \in DOMAIN tape : tape[i].of = r <=> i = k
      BY <1>4, <3>1 DEF Taped
    <3> QED BY <1>0, <1>4, <2>1, <2>2, <3>1, <3>2 DEF Replaying
  <2>9. Cardinality(Started') = Cardinality(served')
    BY <2>4, <2>5 DEF Replaying
  <2>10. Replaying'
    BY <2>5, <2>6, <2>8, <2>9 DEF Replaying
  <2> QED BY <1>0, <1>4, <2>10
<1> HIDE DEF is, r
<1>5. \/ is = {} /\ phase' = "missed" /\ UNCHANGED <<at, busy, taken, served>>
      \/ \E k \in is :
              /\ \A j \in is : tape[k].ordinal <= tape[j].ordinal
              /\ k \in DOMAIN tape \ served /\ phase' = phase
              /\ MayStart(t) /\ Starts(t)
              /\ taken' = [taken EXCEPT ![t] = k] /\ served' = served \cup {k}
  BY ServeIs DEF is
<1>6. CASE \E k \in is :
              /\ \A j \in is : tape[k].ordinal <= tape[j].ordinal
              /\ k \in DOMAIN tape \ served /\ phase' = phase
              /\ MayStart(t) /\ Starts(t)
              /\ taken' = [taken EXCEPT ![t] = k] /\ served' = served \cup {k}
  BY <1>1, <1>4, <1>6
<1> QED BY <1>3, <1>5, <1>6

-----------------------------------------------------------------------------
(* Tape and requests through all steps; and the gates, of which those of   *)
(* earlier fan-outs are recorded, then played, in the order of fan-outs.   *)

LEMMA TapesStep ==
  ASSUME KeysOrdered, CassetteTypes, Walk, Taped, phase = "recording" => Recording,
         phase # "recording" => Replaying, phase = "missed" => throws > 0, CassetteNext
  PROVE  /\ Taped' /\ (phase' = "recording" => Recording')
         /\ (phase' # "recording" => Replaying') /\ (phase' = "missed" => throws' > 0)
<1>1. ASSUME NEW t \in AllTracks, RecordDispatch(t)
      PROVE  Taped' /\ Recording' /\ phase' = "recording"
  BY <1>1, RecordDispatchTapes DEF RecordDispatch
<1>2. ASSUME NEW t \in AllTracks, SessionWrites(t)
      PROVE  Taped' /\ Recording' /\ phase' = "recording"
  <2>1. Started' = Started /\ (\A u \in busy : Request(u)' = Request(u))
        /\ UNCHANGED <<busy, counter, taken, tape, served, played>> /\ phase = "recording"
        /\ phase' = phase
    BY <1>2 DEF SessionWrites, Started, Request
  <2> QED BY <2>1, RecordingStays
<1>3. ASSUME NEW t \in AllTracks, RecordAnswer(t)
      PROVE  Taped' /\ Recording' /\ phase' = "recording"
  BY <1>3, RecordAnswerTapes DEF RecordAnswer
<1>4. ASSUME NEW t \in AllTracks, DispatchThrows(t)
      PROVE  Taped' /\ Replaying' /\ phase' = "replaying"
  <2>1. throws' # 0
    BY <1>4 DEF DispatchThrows, CassetteTypes
  <2>2. Rewind /\ phase = "recording" /\ UNCHANGED <<counter, tape, served>>
        /\ phase' = "replaying"
    BY <1>4 DEF DispatchThrows, Rewind
  <2> QED BY <2>1, <2>2, RewindTapes
<1>5. ASSUME NEW t \in AllTracks, ReplayDispatch(t)
      PROVE  /\ Taped' /\ Replaying' /\ phase' \in {"replaying", "missed"}
             /\ phase' = "missed" => throws' > 0
  <2>1. phase = "replaying" /\ throws' = throws
    BY <1>5 DEF ReplayDispatch
  <2>2. phase' \in {"replaying", "missed"}
    BY <1>5, <2>1, ServeIs
  <2> QED BY <1>5, <2>1, <2>2, ServeTapes
<1>6. ASSUME NEW t \in AllTracks, ReplayAnswer(t)
      PROVE  Taped' /\ Replaying' /\ phase' = "replaying"
  <2>1. Started' = Started /\ (\A u \in busy' : Request(u)' = Request(u))
        /\ UNCHANGED <<counter, taken, tape, served, throws>> /\ phase = "replaying"
        /\ phase' = phase /\ busy' \in SUBSET busy
    BY <1>6 DEF ReplayAnswer, Started, Request
  <2> QED BY <2>1, ReplayingStays
<1>7. ASSUME RecordGate
      PROVE  Taped' /\ Recording' /\ phase' = "recording"
  <2>1. /\ fanOut \in Fans /\ FanDone /\ NextFan /\ phase = "recording" /\ phase' = phase
        /\ UNCHANGED <<busy, counter, taken, tape, served, played>>
    BY <1>7 DEF RecordGate, Running
  <2>2. Started' = Started /\ busy = {}
    BY <2>1, StartedNext, DoneIsQuiet
  <2> QED BY <2>1, <2>2, RecordingStays
<1>8. ASSUME Flush
      PROVE  Taped' /\ Replaying' /\ phase' = "replaying"
  <2>1. Rewind /\ phase = "recording" /\ UNCHANGED <<counter, tape, served>>
        /\ phase' = "replaying" /\ fanOut \notin Fans
    BY <1>8 DEF Flush, Rewind
  <2> QED BY <2>1, RewindTapes
<1>9. ASSUME ReplayGate
      PROVE  Taped' /\ Replaying' /\ phase' = "replaying"
  <2>1. /\ fanOut \in Fans /\ FanDone /\ NextFan /\ phase = "replaying" /\ phase' = phase
        /\ UNCHANGED <<busy, counter, taken, tape, served, throws>>
    BY <1>9 DEF ReplayGate, Running
  <2>2. Started' = Started /\ busy = {}
    BY <2>1, StartedNext, DoneIsQuiet
  <2> QED BY <2>1, <2>2, ReplayingStays
<1>10. ASSUME ReplayEnds
       PROVE  Taped' /\ Replaying' /\ phase' = "over"
  <2>1. Started' = Started /\ (\A u \in busy' : Request(u)' = Request(u))
        /\ UNCHANGED <<busy, counter, taken, tape, served, throws>> /\ phase = "replaying"
        /\ phase' = "over"
    BY <1>10 DEF ReplayEnds, Started, Request
  <2> QED BY <2>1, ReplayingStays
<1>11. ASSUME NEW t \in AllTracks, GoesAstray(t)
       PROVE  Taped' /\ Replaying' /\ phase' = "astray"
  <2>1. Started' = Started /\ (\A u \in busy' : Request(u)' = Request(u))
        /\ UNCHANGED <<busy, counter, taken, tape, served, throws>> /\ phase = "replaying"
        /\ phase' = "astray"
    BY <1>11 DEF GoesAstray, Started, Request
  <2> QED BY <2>1, ReplayingStays
<1> QED
  BY <1>1, <1>2, <1>3, <1>4, <1>5, <1>6, <1>7, <1>8, <1>9, <1>10, <1>11 DEF CassetteNext

(* Gates. *)

LEMMA GatesTyped ==
  ASSUME CassetteTypes
  PROVE  /\ DOMAIN gates = 1..Len(gates) /\ Len(gates) \in Nat /\ fanOut \in Nat
         /\ \A i \in DOMAIN gates : gates[i].of \in Fans /\ gates[i].of \in Nat
<1> DEFINE GateEntries == [method : {"askText", "choose", "confirm", "none"}, of : Fans]
<1>1. gates \in Seq(GateEntries) /\ fanOut \in Nat
  BY FansAre DEF CassetteTypes
<1>2. /\ DOMAIN gates = 1..Len(gates) /\ Len(gates) \in Nat
      /\ \A i \in DOMAIN gates : gates[i] \in GateEntries
  <2> HIDE DEF GateEntries
  <2> QED BY <1>1
<1> QED BY <1>1, <1>2, FansAre

LEMMA RecordGateGates ==
  ASSUME CassetteTypes, GatesInv, RecordGate
  PROVE  GatesInv'
<1> DEFINE g == [method |-> Program[fanOut].gate, of |-> fanOut]
<1>1. fanOut \in Fans /\ phase = "recording" /\ phase' = "recording" /\ fanOut' = fanOut + 1
      /\ UNCHANGED played
  BY DEF RecordGate, Running, NextFan
<1>2. Fans \in SUBSET Nat /\ fanOut \in Nat
  BY <1>1, FansAre
<1>3. CASE Program[fanOut].gate = "none"
  <2>1. gates' = gates /\ ~Asks(fanOut)
    BY <1>3 DEF RecordGate, Asks
  <2> QED BY <1>1, <1>2, <2>1, GatesTyped DEF GatesInv
<1>4. CASE Program[fanOut].gate # "none"
  <2>1. gates' = Append(gates, g) /\ Asks(fanOut)
    BY <1>4 DEF RecordGate, Asks
  <2>2. g \in [method : {"askText", "choose", "confirm", "none"}, of : Fans]
    BY <1>1, ProgramIs
  <2>3. g.method = Program[fanOut].gate /\ g.of = fanOut
    OBVIOUS
  <2> HIDE DEF g
  <2>4. /\ Len(gates) \in Nat /\ DOMAIN gates = 1..Len(gates)
        /\ DOMAIN gates' = 1..(Len(gates) + 1)
        /\ \A i \in DOMAIN gates : gates'[i] = gates[i] /\ i \in DOMAIN gates'
        /\ gates'[Len(gates) + 1] = g /\ Len(gates) + 1 \in DOMAIN gates'
    BY <2>1, <2>2, AppendProperties DEF CassetteTypes
  <2>5. \A i \in DOMAIN gates' : i \in DOMAIN gates \/ i = Len(gates) + 1
    BY <2>4
  <2>6. \A i \in DOMAIN gates : gates[i].of < fanOut /\ gates[i].of \in Nat
    BY <1>1, GatesTyped DEF GatesInv
  <2>7. \A i \in DOMAIN gates' :
          /\ Asks(gates'[i].of) /\ gates'[i].method = Program[gates'[i].of].gate
          /\ gates'[i].of < fanOut'
    BY <1>1, <1>2, <2>1, <2>3, <2>4, <2>5, <2>6 DEF GatesInv
  <2>8. \A i, j \in DOMAIN gates' : i < j => gates'[i].of < gates'[j].of
    <3> SUFFICES ASSUME NEW i \in DOMAIN gates', NEW j \in DOMAIN gates', i < j
                 PROVE  gates'[i].of < gates'[j].of
      OBVIOUS
    <3>1. i \in DOMAIN gates
      BY <2>4
    <3>2. CASE j \in DOMAIN gates
      BY <2>4, <3>1, <3>2 DEF GatesInv
    <3>3. CASE j = Len(gates) + 1
      BY <2>3, <2>4, <2>6, <3>1, <3>3
    <3> QED BY <2>5, <3>2, <3>3
  <2>9. ASSUME NEW f \in Fans, Asks(f), f < fanOut'
        PROVE  \E i \in DOMAIN gates' : gates'[i].of = f
    <3>1. CASE f < fanOut
      <4>1. PICK i \in DOMAIN gates : gates[i].of = f
        BY <1>1, <2>9, <3>1 DEF GatesInv
      <4> QED BY <2>4, <4>1
    <3>2. CASE f = fanOut
      BY <2>3, <2>4, <3>2
    <3> QED BY <1>1, <1>2, <2>9, <3>1, <3>2
  <2> QED BY <1>1, <2>7, <2>8, <2>9 DEF GatesInv
<1> QED BY <1>3, <1>4

LEMMA ReplayGateGates ==
  ASSUME CassetteTypes, GatesInv, ReplayIsFaithful, ReplayGate, throws = 0
  PROVE  GatesInv' /\ ReplayIsFaithful'
<1>1. /\ fanOut \in Fans /\ phase = "replaying" /\ phase' = "replaying"
      /\ fanOut' = fanOut + 1 /\ gates' = gates /\ UNCHANGED <<replies, throws>>
  BY DEF ReplayGate, Running, NextFan
<1>2. fanOut \in Nat /\ \A i \in DOMAIN gates : gates[i].of \in Nat /\ i \in Nat
  BY GatesTyped
<1>3. CASE Program[fanOut].gate = "none"
  <2>1. UNCHANGED <<played, asked>>
    BY <1>3 DEF ReplayGate
  <2>2. \A i \in DOMAIN gates : gates[i].of # fanOut
    BY <1>3 DEF GatesInv, Asks
  <2>3. \A i \in DOMAIN gates : gates[i].of < fanOut <=> gates[i].of < fanOut + 1
    BY <1>2, <2>2
  <2>4. GatesInv'
    BY <1>1, <2>1, <2>3 DEF GatesInv
  <2>5. ReplayIsFaithful'
    BY <1>1, <2>1 DEF ReplayIsFaithful
  <2> QED BY <2>4, <2>5
<1>4. CASE Program[fanOut].gate # "none"
  <2> DEFINE n == NextGate(Program[fanOut].gate)
  <2>1. PICK k \in DOMAIN gates : gates[k].of = fanOut
    BY <1>1, <1>4 DEF GatesInv, Asks
  <2>2. k \notin played /\ gates[k].method = Program[fanOut].gate
    BY <1>1, <1>2, <2>1 DEF GatesInv
  <2>3. /\ n \in DOMAIN gates \ played /\ n # 0
        /\ \A i \in DOMAIN gates \ played : gates[i].method = Program[fanOut].gate => n <= i
    BY <2>1, <2>2, NextGateIs
  <2>4. n <= k /\ gates[n].of >= fanOut
    BY <1>1, <1>2, <2>1, <2>2, <2>3 DEF GatesInv
  <2>5. n < k => gates[n].of < gates[k].of
    BY <2>1, <2>3 DEF GatesInv
  <2>6. n = k
    <3> HIDE DEF n
    <3> QED BY <1>2, <2>1, <2>3, <2>4, <2>5
  <2>7. asked' = asked \cup {<<fanOut, gates[n].of>>} /\ played' = played \cup {n}
    BY <1>4, <2>3 DEF ReplayGate
  <2> HIDE DEF n
  <2>8. \A i \in DOMAIN gates : gates[i].of = fanOut => i = k
    BY <1>2, <2>1 DEF GatesInv
  <2>9. \A i \in DOMAIN gates : i \in played' <=> gates[i].of < fanOut + 1
    BY <1>1, <1>2, <2>1, <2>6, <2>7, <2>8 DEF GatesInv
  <2>10. GatesInv'
    BY <1>1, <2>9 DEF GatesInv
  <2>11. ReplayIsFaithful'
    BY <1>1, <2>1, <2>6, <2>7 DEF ReplayIsFaithful
  <2> QED BY <2>10, <2>11
<1> QED BY <1>3, <1>4

LEMMA GatesStay ==
  ASSUME GatesInv, UNCHANGED <<gates, played, fanOut>>,
         phase' = "recording" <=> phase = "recording"
  PROVE  GatesInv'
BY DEF GatesInv

LEMMA FlushGates ==
  ASSUME CassetteTypes, GatesInv, Recording, Flush
  PROVE  GatesInv'
<1>1. /\ fanOut \notin Fans /\ fanOut' = 1 /\ phase = "recording" /\ phase' = "replaying"
      /\ UNCHANGED <<gates, played>> /\ played = {}
  BY DEF Flush, Rewind, Recording
<1>2. \A f \in Fans : f < fanOut /\ f \in Nat /\ ~(f < 1)
  BY <1>1, FansAre DEF CassetteTypes
<1>3. \A i \in DOMAIN gates : ~(gates[i].of < 1)
  BY <1>2, GatesTyped
<1> QED BY <1>1, <1>2, <1>3 DEF GatesInv

LEMMA GatesStep ==
  ASSUME CassetteTypes, phase = "recording" => Recording, phase # "recording" => Replaying,
         throws = 0 => GatesInv, ReplayIsFaithful, CassetteNext
  PROVE  (throws' = 0 => GatesInv') /\ ReplayIsFaithful'
<1> SUFFICES ASSUME throws' = 0
             PROVE  GatesInv' /\ ReplayIsFaithful'
  BY DEF ReplayIsFaithful
<1>0. throws = 0 /\ GatesInv
  <2>1. throws' = throws \/ throws' = throws + 1
    BY DEF CassetteNext, RecordDispatch, SessionWrites, RecordAnswer, DispatchThrows,
           ReplayDispatch, GoesAstray, ReplayAnswer, RecordGate, Flush, ReplayGate,
           ReplayEnds
  <2> QED BY <2>1 DEF CassetteTypes
<1>1. ASSUME NEW t \in AllTracks,
             RecordDispatch(t) \/ SessionWrites(t) \/ RecordAnswer(t) \/ ReplayDispatch(t)
      PROVE  GatesInv' /\ ReplayIsFaithful'
  <2>1. UNCHANGED <<gates, played, fanOut, asked, replies, throws>>
    BY <1>1 DEF RecordDispatch, SessionWrites, RecordAnswer, ReplayDispatch
  <2>2. phase' = "recording" <=> phase = "recording"
    <3>1. CASE ReplayDispatch(t)
      <4>1. phase = "replaying"
        BY <3>1 DEF ReplayDispatch
      <4> QED BY <3>1, <4>1, ServeIs
    <3> QED BY <1>1, <3>1 DEF RecordDispatch, SessionWrites, RecordAnswer
  <2> QED BY <1>0, <2>1, <2>2, GatesStay DEF ReplayIsFaithful
<1>2. ASSUME NEW t \in AllTracks, DispatchThrows(t) PROVE FALSE
  BY <1>0, <1>2 DEF DispatchThrows
<1>3. ASSUME NEW t \in AllTracks, ReplayAnswer(t)
      PROVE  GatesInv' /\ ReplayIsFaithful'
  <2>1. /\ UNCHANGED <<gates, played, fanOut, asked, throws, phase>>
        /\ replies' = replies \cup {<<Request(t), tape[taken[t]].of>>}
        /\ t \in busy /\ phase = "replaying"
    BY <1>3 DEF ReplayAnswer
  <2>2. tape[taken[t]].of = Request(t)
    BY <1>0, <2>1 DEF Replaying
  <2> QED BY <1>0, <2>1, <2>2, GatesStay DEF ReplayIsFaithful
<1>4. CASE RecordGate
  <2>1. UNCHANGED <<asked, replies, throws>>
    BY <1>4 DEF RecordGate
  <2> QED BY <1>0, <1>4, <2>1, RecordGateGates DEF ReplayIsFaithful
<1>5. CASE Flush
  <2>1. UNCHANGED <<asked, replies, throws>> /\ phase = "recording"
    BY <1>5 DEF Flush
  <2> QED BY <1>0, <1>5, <2>1, FlushGates DEF ReplayIsFaithful
<1>6. CASE ReplayGate
  BY <1>0, <1>6, ReplayGateGates
<1>7. CASE ReplayEnds
  <2>1. UNCHANGED <<gates, played, fanOut, asked, replies, throws>>
        /\ phase = "replaying" /\ phase' = "over"
    BY <1>7 DEF ReplayEnds
  <2> QED BY <1>0, <2>1, GatesStay DEF ReplayIsFaithful
<1>8. ASSUME NEW t \in AllTracks, GoesAstray(t)
      PROVE  GatesInv' /\ ReplayIsFaithful'
  <2>1. UNCHANGED <<gates, played, fanOut, asked, replies, throws>>
        /\ phase = "replaying" /\ phase' = "astray"
    BY <1>8 DEF GoesAstray
  <2> QED BY <1>0, <2>1, GatesStay DEF ReplayIsFaithful
<1> QED BY <1>1, <1>2, <1>3, <1>4, <1>5, <1>6, <1>7, <1>8 DEF CassetteNext

-----------------------------------------------------------------------------
(* The whole invariant, and that nothing is left of the cassette.          *)

LEMMA CassetteInitInv ==
  ASSUME FromTheStart
  PROVE  CassetteInit => CassetteInv
<1> SUFFICES ASSUME CassetteInit PROVE CassetteInv
  OBVIOUS
<1>1. CassetteTypes /\ Walk
  BY TypesInit, WalkInit
<1>2. /\ phase = "recording" /\ fanOut = 1 /\ at = Nowhere /\ busy = {} /\ counter = 0
      /\ tape = <<>> /\ served = {} /\ played = {} /\ gates = <<>> /\ asked = {}
      /\ replies = {}
  BY DEF CassetteInit, FromTheStart
<1>3. Started = {}
  <2> SUFFICES ASSUME NEW r \in Started PROVE FALSE
    OBVIOUS
  <2>1. r \in Requests /\ (r[1] < 1 \/ (r[1] = 1 /\ r[3] <= at[r[2]]))
    BY <1>2, StartedIs
  <2>2. r[1] >= 1 /\ r[1] \in Nat /\ r[3] >= 1 /\ r[3] \in Nat /\ r[2] \in AllTracks
    BY <2>1, RequestsAre, FansAre
  <2>3. at[r[2]] = 0
    BY <1>2, <2>2 DEF Nowhere
  <2> QED BY <2>1, <2>2, <2>3
<1>4. DOMAIN tape = {} /\ Len(tape) = 0 /\ Cardinality(busy) = 0 /\ DOMAIN gates = {}
  BY <1>2, FS_EmptySet
<1>5. Taped
  BY <1>2, <1>4 DEF Taped
<1>6. Recording
  BY <1>2, <1>3, <1>4 DEF Recording, Ordinals
<1>7. GatesInv
  BY <1>2, <1>4, FansAre DEF GatesInv
<1> QED BY <1>1, <1>2, <1>5, <1>6, <1>7 DEF CassetteInv, ReplayIsFaithful

LEMMA CassetteStep ==
  ASSUME KeysOrdered, CassetteInv, [CassetteNext]_cvars
  PROVE  CassetteInv'
<1>1. CASE CassetteNext
  BY <1>1, TypesStep, WalkStep, TapesStep, GatesStep DEF CassetteInv
<1>2. CASE UNCHANGED cvars
  <2> USE <1>2 DEF cvars
  <2>1. CassetteTypes' = CassetteTypes
    BY DEF CassetteTypes
  <2>2. Walk' = Walk
    BY DEF Walk, Tracks
  <2>3. Taped' = Taped
    BY DEF Taped
  <2>4. Started' = Started /\ Ordinals' = Ordinals
        /\ \A t \in busy : Request(t)' = Request(t)
    BY DEF Started, Ordinals, Request
  <2>5. Recording => Recording'
    BY <2>4 DEF Recording
  <2>6. Replaying => Replaying'
    BY <2>4 DEF Replaying
  <2>7. GatesInv' = GatesInv /\ ReplayIsFaithful' = ReplayIsFaithful
    BY DEF GatesInv, ReplayIsFaithful
  <2> QED BY <2>1, <2>2, <2>3, <2>5, <2>6, <2>7 DEF CassetteInv
<1> QED BY <1>1, <1>2

\* When the replay is over as many entries were served as there are requests,
\* and the tape holds no more.
LEMMA NothingIsLeft ==
  ASSUME CassetteInv, phase = "over"
  PROVE  served = DOMAIN tape
<1>1. Started = Requests
  BY StartedAll DEF CassetteInv, Walk
<1>2. IsFiniteSet(Requests) /\ Cardinality(Requests) = Cardinality(served)
  BY <1>1 DEF CassetteInv, Replaying
<1> DEFINE of == [i \in DOMAIN tape |-> tape[i].of]
<1>3. /\ tape \in Seq(Entries) /\ DOMAIN tape = 1..Len(tape) /\ Len(tape) \in Nat
      /\ served \in SUBSET (DOMAIN tape)
  BY DEF CassetteInv, CassetteTypes
<1>4. \A i \in DOMAIN tape : tape[i].of \in Requests
  <2>1. \A i \in DOMAIN tape : tape[i] \in Entries
    BY <1>3
  <2> QED BY <2>1 DEF Entries
<1>5. of \in Injection(DOMAIN tape, Requests)
  <2>1. of \in [DOMAIN tape -> Requests] /\ DOMAIN of = DOMAIN tape
    BY <1>4
  <2>2. \A i, j \in DOMAIN of : of[i] = of[j] => i = j
    BY DEF CassetteInv, Taped
  <2> HIDE DEF of
  <2> QED BY <2>1, <2>2 DEF Injection, IsInjective
<1>6. IsFiniteSet(DOMAIN tape) /\ Cardinality(DOMAIN tape) <= Cardinality(Requests)
  <2> HIDE DEF of
  <2> QED BY <1>2, <1>5, FS_Injection
<1>7. Cardinality(served) <= Cardinality(DOMAIN tape)
  BY <1>3, <1>6, FS_Subset
<1>8. Cardinality(served) = Cardinality(DOMAIN tape)
  BY <1>2, <1>3, <1>6, <1>7, FS_Subset, FS_CardinalityType
<1> QED BY <1>3, <1>6, <1>8, FS_Subset

LEMMA CassetteInvSound ==
  ASSUME CassetteInv
  PROVE  ReplaySound
<1>1. CassetteTypes /\ Taped /\ ReplayIsFaithful
  BY DEF CassetteInv
<1>2. CassetteTypeOK
  BY <1>1 DEF CassetteTypes, Taped, CassetteTypeOK
<1>3. MissOnlyWhatFailed
  BY NothingIsLeft DEF CassetteInv, MissOnlyWhatFailed
<1> QED BY <1>1, <1>2, <1>3 DEF ReplaySound

\* For any program of fan-outs, keys and overlaps of sessions, in the recording
\* and in the replay: every request that started has an ordinal of its own, in
\* an order that all runs keep, and the replay serves those of the requests it made.
THEOREM CassetteInvariant ==
  ASSUME FromTheStart, KeysOrdered
  PROVE  CassetteSpec => []CassetteInv
<1>1. CassetteInit => CassetteInv
  BY CassetteInitInv
<1>2. CassetteInv /\ [CassetteNext]_cvars => CassetteInv'
  BY CassetteStep
<1> QED BY <1>1, <1>2, PTL DEF CassetteSpec

\* Until it is over or astray, a replay answers every request and every gate with what
\* the recording got for it, misses only what failed to be recorded, and when it is over
\* has left nothing of the cassette (dispatchKey, nextDispatch and nextGate of
\* cassette.ts), for any program whose equal requests come in one order, recorded from
\* its start.
THEOREM ReplayIsTheRecording ==
  ASSUME FromTheStart, KeysOrdered
  PROVE  CassetteSpec => []ReplaySound
<1>1. CassetteInv => ReplaySound
  BY CassetteInvSound
<1> QED BY <1>1, CassetteInvariant, PTL

-----------------------------------------------------------------------------
(* What the entries of the first n requests of a place leave in it: one    *)
(* state, which only an entry of that place and number can change.         *)

LEMMA EntryOf ==
  ASSUME NEW es \in Seq(Entries), NEW i \in DOMAIN es
  PROVE  /\ es[i].of \in Requests /\ es[i].of[1] \in Nat /\ es[i].of[2] \in Nat
         /\ es[i].of[3] \in Nat /\ es[i].of[3] > 0
         /\ es[i].of = <<es[i].of[1], es[i].of[2], es[i].of[3]>>
<1>1. es[i] \in Entries
  OBVIOUS
<1>2. es[i].of \in Requests
  BY <1>1 DEF Entries
<1> HIDE DEF Requests
<1> QED BY <1>2, RequestsAre

LEMMA LeavesNone ==
  ASSUME NEW es \in Seq(Entries), NEW p
  PROVE  Leaves(es, <<0, 0>>, p, 0)
<1>1. \A i \in DOMAIN es : ~IsOf(es[i], p, 0)
  BY EntryOf DEF IsOf
<1> QED BY <1>1 DEF Leaves

LEMMA LeavesOne ==
  ASSUME NEW es \in Seq(Entries), NEW p, NEW n \in Nat, NEW v, NEW w,
         Leaves(es, v, p, n), Leaves(es, w, p, n),
         \A i, j \in DOMAIN es : es[i].of = es[j].of => i = j
  PROVE  v = w
<1>1. CASE \A i \in DOMAIN es : IsOf(es[i], p, n) => p \notin DOMAIN es[i].files
  BY <1>1 DEF Leaves
<1>2. CASE \E i \in DOMAIN es : IsOf(es[i], p, n) /\ p \in DOMAIN es[i].files
  <2>1. PICK i \in DOMAIN es :
          /\ IsOf(es[i], p, n) /\ p \in DOMAIN es[i].files /\ v = es[i].files[p]
          /\ \A j \in DOMAIN es : IsOf(es[j], p, n) /\ es[j].of[3] > es[i].of[3] =>
               p \notin DOMAIN es[j].files
    BY <1>2 DEF Leaves
  <2>2. PICK k \in DOMAIN es :
          /\ IsOf(es[k], p, n) /\ p \in DOMAIN es[k].files /\ w = es[k].files[p]
          /\ \A j \in DOMAIN es : IsOf(es[j], p, n) /\ es[j].of[3] > es[k].of[3] =>
               p \notin DOMAIN es[j].files
    BY <1>2 DEF Leaves
  <2>3. es[i].of[3] = es[k].of[3]
    BY <2>1, <2>2, EntryOf
  <2>4. es[i].of = es[k].of
    <3>1. /\ es[i].of = <<es[i].of[1], es[i].of[2], es[i].of[3]>>
          /\ es[k].of = <<es[k].of[1], es[k].of[2], es[k].of[3]>>
      BY EntryOf
    <3>2. es[i].of[1] = es[k].of[1] /\ es[i].of[2] = es[k].of[2]
      BY <2>1, <2>2 DEF IsOf
    <3> QED BY <2>3, <3>1, <3>2
  <2> QED BY <2>1, <2>2, <2>4
<1> QED BY <1>1, <1>2

LEMMA LeavesTake ==
  ASSUME NEW es \in Seq(Entries), NEW p, NEW n \in Nat, NEW k \in DOMAIN es,
         es[k].of = <<p[1], p[2], n>>, p \in DOMAIN es[k].files
  PROVE  Leaves(es, es[k].files[p], p, n)
<1>1. IsOf(es[k], p, n) /\ es[k].of[3] = n
  BY DEF IsOf
<1>2. \A j \in DOMAIN es : ~(IsOf(es[j], p, n) /\ es[j].of[3] > es[k].of[3])
  BY <1>1, EntryOf DEF IsOf
<1> QED BY <1>1, <1>2 DEF Leaves

LEMMA LeavesSkip ==
  ASSUME NEW es \in Seq(Entries), NEW p, NEW n \in Nat, n > 0, NEW v, NEW k \in DOMAIN es,
         es[k].of = <<p[1], p[2], n>>, p \notin DOMAIN es[k].files,
         \A i, j \in DOMAIN es : es[i].of = es[j].of => i = j,
         Leaves(es, v, p, n - 1)
  PROVE  Leaves(es, v, p, n)
<1>1. \A i \in DOMAIN es : IsOf(es[i], p, n) => i = k \/ IsOf(es[i], p, n - 1)
  <2> SUFFICES ASSUME NEW i \in DOMAIN es, IsOf(es[i], p, n), ~IsOf(es[i], p, n - 1)
               PROVE  i = k
    OBVIOUS
  <2>1. es[i].of[3] = n
    BY EntryOf DEF IsOf
  <2>2. es[i].of = es[k].of
    BY <2>1, EntryOf DEF IsOf
  <2> QED BY <2>2
<1>2. \A i \in DOMAIN es : IsOf(es[i], p, n - 1) => IsOf(es[i], p, n)
  BY EntryOf DEF IsOf
<1>3. CASE v = <<0, 0>> /\ \A i \in DOMAIN es :
             IsOf(es[i], p, n - 1) => p \notin DOMAIN es[i].files
  BY <1>1, <1>3 DEF Leaves
<1>4. ASSUME NEW i \in DOMAIN es,
             IsOf(es[i], p, n - 1), p \in DOMAIN es[i].files, v = es[i].files[p],
             \A j \in DOMAIN es : IsOf(es[j], p, n - 1) /\ es[j].of[3] > es[i].of[3] =>
               p \notin DOMAIN es[j].files
      PROVE  Leaves(es, v, p, n)
  <2>1. \A j \in DOMAIN es : IsOf(es[j], p, n) /\ es[j].of[3] > es[i].of[3] =>
          p \notin DOMAIN es[j].files
    BY <1>1, <1>4
  <2> QED BY <1>2, <1>4, <2>1 DEF Leaves
<1> QED BY <1>3, <1>4 DEF Leaves

LEMMA LeavesAppend ==
  ASSUME NEW es \in Seq(Entries), NEW e \in Entries, NEW p, NEW n \in Nat, NEW v,
         ~IsOf(e, p, n), Leaves(es, v, p, n)
  PROVE  Leaves(Append(es, e), v, p, n)
<1> DEFINE fs == Append(es, e)
<1>1. /\ DOMAIN es = 1..Len(es) /\ Len(es) \in Nat /\ DOMAIN fs = 1..(Len(es) + 1)
      /\ \A i \in DOMAIN es : i \in DOMAIN fs /\ fs[i] = es[i]
      /\ fs[Len(es) + 1] = e
  BY AppendProperties
<1> HIDE DEF fs
<1>2. \A i \in DOMAIN fs : IsOf(fs[i], p, n) => i \in DOMAIN es /\ fs[i] = es[i]
  BY <1>1
<1>3. CASE v = <<0, 0>> /\ \A i \in DOMAIN es :
             IsOf(es[i], p, n) => p \notin DOMAIN es[i].files
  <2>1. \A i \in DOMAIN fs : IsOf(fs[i], p, n) => p \notin DOMAIN fs[i].files
    BY <1>2, <1>3
  <2>2. Leaves(fs, v, p, n)
    BY <1>3, <2>1 DEF Leaves
  <2> QED BY <2>2 DEF fs
<1>4. ASSUME NEW i \in DOMAIN es,
             IsOf(es[i], p, n), p \in DOMAIN es[i].files, v = es[i].files[p],
             \A j \in DOMAIN es : IsOf(es[j], p, n) /\ es[j].of[3] > es[i].of[3] =>
               p \notin DOMAIN es[j].files
      PROVE  Leaves(Append(es, e), v, p, n)
  <2>1. \A j \in DOMAIN fs : IsOf(fs[j], p, n) /\ fs[j].of[3] > fs[i].of[3] =>
          p \notin DOMAIN fs[j].files
    BY <1>1, <1>2, <1>4
  <2>2. i \in DOMAIN fs /\ fs[i] = es[i]
    BY <1>1
  <2>3. Leaves(fs, v, p, n)
    BY <1>4, <2>1, <2>2 DEF Leaves
  <2> QED BY <2>3 DEF fs
<1> QED BY <1>3, <1>4 DEF Leaves

-----------------------------------------------------------------------------
(* How many requests of a place are answered, through all steps; and the   *)
(* files while sessions start and write.                                   *)

LEMMA PlacesAre ==
  ASSUME NEW p \in Places
  PROVE  /\ p = <<p[1], p[2]>> /\ p[1] \in Fans /\ p[1] \in Nat /\ p[2] \in AllTracks
         /\ p[2] \in DOMAIN Program[p[1]].tracks /\ All(p) \in Nat
         /\ (p[1] = fanOut => p[2] \in Tracks)
<1>1. /\ p \in Fans \X AllTracks /\ p[2] \in DOMAIN Program[p[1]].tracks
  BY DEF Places
<1>2. All(p) \in Nat
  BY <1>1, ProgramIs DEF All
<1> QED BY <1>1, <1>2, FansAre DEF Tracks

LEMMA AnsweredIsNat ==
  ASSUME CassetteTypes, Walk, NEW p \in Places
  PROVE  Answered(p) \in Nat
<1>1. p[1] = fanOut /\ p[2] \in busy => at[p[2]] > 0
  BY PlacesAre DEF Walk
<1>2. at[p[2]] \in Nat /\ All(p) \in Nat /\ p[1] \in Nat /\ fanOut \in Nat
  BY PlacesAre, FansAre DEF CassetteTypes
<1> QED BY <1>1, <1>2 DEF Answered

LEMMA StartsAnswered ==
  ASSUME CassetteTypes, Walk, NEW t, MayStart(t), Starts(t), fanOut' = fanOut
  PROVE  \A p \in Places : Answered(p)' = Answered(p)
<1>1. /\ t \in AllTracks /\ t \notin busy /\ busy' = busy \cup {t} /\ at[t] \in Nat
      /\ at' = [at EXCEPT ![t] = at[t] + 1] /\ at \in [AllTracks -> Nat]
  BY TracksAre DEF MayStart, Ready, Running, Starts, CassetteTypes
<1>2. at'[t] - 1 = at[t] /\ \A u \in AllTracks : u # t => at'[u] = at[u]
  BY <1>1
<1> SUFFICES ASSUME NEW p \in Places PROVE Answered(p)' = Answered(p)
  OBVIOUS
<1>3. CASE p[2] = t
  BY <1>1, <1>2, <1>3 DEF Answered, All
<1>4. CASE p[2] # t
  <2>1. at'[p[2]] = at[p[2]] /\ (p[2] \in busy' <=> p[2] \in busy)
    BY <1>1, <1>2, <1>4, PlacesAre
  <2> QED BY <2>1 DEF Answered, All
<1> QED BY <1>3, <1>4

LEMMA NextAnswered ==
  ASSUME CassetteTypes, Walk, fanOut \in Fans, FanDone, NextFan, busy' = busy
  PROVE  /\ \A p \in Places : Answered(p)' = Answered(p)
         /\ \A p \in Places : Answered(p) = IF p[1] <= fanOut THEN All(p) ELSE 0
<1>1. busy = {} /\ fanOut' = fanOut + 1 /\ at' = Nowhere /\ fanOut \in Nat
  BY DoneIsQuiet, FansAre
<1> SUFFICES ASSUME NEW p \in Places
             PROVE  /\ Answered(p)' = Answered(p)
                    /\ Answered(p) = IF p[1] <= fanOut THEN All(p) ELSE 0
  OBVIOUS
<1>2. p[1] \in Nat /\ at'[p[2]] = 0
  BY <1>1, PlacesAre DEF Nowhere
<1>3. p[1] = fanOut => at[p[2]] = All(p)
  BY PlacesAre DEF FanDone, All
<1>4. Answered(p) = IF p[1] <= fanOut THEN All(p) ELSE 0
  BY <1>1, <1>2, <1>3 DEF Answered
<1>5. Answered(p)' = IF p[1] < fanOut + 1 THEN All(p) ELSE 0
  <2>1. Answered(p)' = IF p[1] < fanOut' THEN All(p)
                       ELSE IF p[1] > fanOut' THEN 0
                       ELSE IF p[2] \in busy' THEN at'[p[2]] - 1 ELSE at'[p[2]]
    BY DEF Answered, All
  <2> QED BY <1>1, <1>2, <2>1
<1> QED BY <1>1, <1>2, <1>4, <1>5

LEMMA AnswerAnswered ==
  ASSUME CassetteTypes, Walk, NEW t \in busy, fanOut \in Fans, busy' = busy \ {t},
         UNCHANGED <<fanOut, at>>
  PROVE  /\ <<fanOut, t>> \in Places
         /\ at[t] \in Nat /\ at[t] > 0
         /\ \A p \in Places : p = <<fanOut, t>> =>
              Answered(p) = at[t] - 1 /\ Answered(p)' = at[t]
         /\ \A p \in Places : p # <<fanOut, t>> => Answered(p)' = Answered(p)
<1>1. t \in Tracks /\ t \in AllTracks /\ at[t] \in Nat /\ at[t] > 0 /\ fanOut \in Nat
  BY FansAre, TracksAre DEF CassetteTypes, Walk
<1>2. <<fanOut, t>> \in Places
  BY <1>1 DEF Places, Tracks
<1>3. ASSUME NEW p \in Places, p = <<fanOut, t>>
      PROVE  Answered(p) = at[t] - 1 /\ Answered(p)' = at[t]
  <2>1. p[1] = fanOut /\ p[2] = t
    BY <1>3
  <2> QED BY <1>1, <2>1 DEF Answered, All
<1>4. ASSUME NEW p \in Places, p # <<fanOut, t>>
      PROVE  Answered(p)' = Answered(p)
  <2>1. p[1] # fanOut \/ p[2] # t
    BY <1>4, PlacesAre
  <2>2. p[1] = fanOut => (p[2] \in busy' <=> p[2] \in busy)
    BY <2>1
  <2>3. p[1] \in Nat
    BY PlacesAre
  <2> QED BY <1>1, <2>2, <2>3 DEF Answered, All
<1> QED BY <1>1, <1>2, <1>3, <1>4

LEMMA RewindAnswered ==
  ASSUME Rewind
  PROVE  \A p \in Places : Answered(p)' = 0
<1> SUFFICES ASSUME NEW p \in Places PROVE Answered(p)' = 0
  OBVIOUS
<1>1. p[1] \in Nat /\ p[1] >= 1 /\ p[2] \in AllTracks
  BY PlacesAre, FansAre
<1>2. fanOut' = 1 /\ busy' = {} /\ at'[p[2]] = 0
  BY <1>1 DEF Rewind, Nowhere
<1>3. Answered(p)' = IF p[1] < fanOut' THEN All(p)
                     ELSE IF p[1] > fanOut' THEN 0
                     ELSE IF p[2] \in busy' THEN at'[p[2]] - 1 ELSE at'[p[2]]
  BY DEF Answered, All
<1> QED BY <1>1, <1>2, <1>3

LEMMA RecordDispatchFiles ==
  ASSUME CassetteTypes, Walk, FilesInv, NEW t \in AllTracks, RecordDispatch(t)
  PROVE  FilesInv'
<1>1. /\ MayStart(t) /\ Starts(t) /\ phase = "recording"
      /\ UNCHANGED <<phase, fanOut, disk, tape, after, lost>>
      /\ before' = [before EXCEPT ![t] = disk]
  BY DEF RecordDispatch
<1>2. \A p \in Places : Answered(p)' = Answered(p)
  BY <1>1, StartsAnswered
<1>3. busy' = busy \cup {t} /\ t \notin busy
  BY <1>1 DEF Starts, MayStart, Ready
<1>4. before'[t] = disk /\ \A u \in AllTracks : u # t => before'[u] = before[u]
  BY <1>1 DEF CassetteTypes
<1>5. \A p \in Places : Settled(p)' = Settled(p)
  <2> SUFFICES ASSUME NEW p \in Places PROVE Settled(p)' = Settled(p)
    OBVIOUS
  <2>1. CASE p[2] = t
    BY <1>1, <1>3, <1>4, <2>1 DEF Settled
  <2>2. CASE p[2] # t
    <3>1. before'[p[2]] = before[p[2]] /\ (p[2] \in busy' <=> p[2] \in busy)
      BY <1>3, <1>4, <2>2, PlacesAre
    <3> QED BY <1>1, <3>1 DEF Settled
  <2> QED BY <2>1, <2>2
<1>6. \A u \in busy', p \in Places : disk'[p] # before'[u][p] =>
        Program[fanOut'].writes /\ (p = <<fanOut', u>> \/ Program[fanOut'].apart)
  <2> SUFFICES ASSUME NEW u \in busy', NEW p \in Places, disk'[p] # before'[u][p]
               PROVE  Program[fanOut].writes /\ (p = <<fanOut, u>> \/ Program[fanOut].apart)
    BY <1>1
  <2>1. u # t /\ u \in busy /\ u \in AllTracks
    BY <1>1, <1>3, <1>4 DEF CassetteTypes
  <2> QED BY <1>1, <1>4, <2>1 DEF FilesInv
<1>7. \A p \in Places \ lost : Leaves(tape', Settled(p)', p, Answered(p)')
  BY <1>1, <1>2, <1>5 DEF FilesInv
<1> QED BY <1>1, <1>6, <1>7 DEF FilesInv

LEMMA SessionWritesFiles ==
  ASSUME FilesKept, CassetteTypes, Walk, FilesInv, NEW t \in AllTracks, SessionWrites(t)
  PROVE  FilesInv'
<1>1. /\ phase = "recording" /\ t \in busy /\ fanOut \in Fans /\ Program[fanOut].writes
      /\ UNCHANGED <<phase, fanOut, at, busy, before, tape, after, lost>>
  BY DEF SessionWrites, Running
<1>2. \A p \in Places : p # <<fanOut, t>> => disk'[p] = disk[p]
  BY DEF SessionWrites, CassetteTypes, States
<1>3. \A p \in Places : Answered(p)' = Answered(p)
  BY <1>1 DEF Answered, All
<1>4. \A p \in Places : Settled(p)' = Settled(p)
  <2> SUFFICES ASSUME NEW p \in Places PROVE Settled(p)' = Settled(p)
    OBVIOUS
  <2>1. CASE p = <<fanOut, t>>
    BY <1>1, <2>1 DEF Settled
  <2>2. CASE p # <<fanOut, t>>
    BY <1>1, <1>2, <2>2 DEF Settled
  <2> QED BY <2>1, <2>2
<1>5. \A u \in busy', p \in Places : disk'[p] # before'[u][p] =>
        Program[fanOut'].writes /\ (p = <<fanOut', u>> \/ Program[fanOut'].apart)
  <2> SUFFICES ASSUME NEW u \in busy, NEW p \in Places, disk'[p] # before[u][p]
               PROVE  p = <<fanOut, u>> \/ Program[fanOut].apart
    BY <1>1
  <2>1. CASE p # <<fanOut, t>>
    BY <1>1, <1>2, <2>1 DEF FilesInv
  <2>2. CASE p = <<fanOut, t>> /\ ~Program[fanOut].apart
    <3>1. u = t
      BY <1>1, <2>2 DEF FilesKept, Walk, Tracks
    <3> QED BY <2>2, <3>1
  <2> QED BY <2>1, <2>2
<1>6. \A p \in Places \ lost : Leaves(tape', Settled(p)', p, Answered(p)')
  BY <1>1, <1>3, <1>4 DEF FilesInv
<1> QED BY <1>1, <1>5, <1>6 DEF FilesInv

-----------------------------------------------------------------------------
(* The files: what the entries leave is what the recorded disk held after  *)
(* each fan-out, and what the replay's disk holds after as many answers.   *)

\* What changed during a session is the file of its own place.
LEMMA ChangedIs ==
  ASSUME FilesInv, phase = "recording", NEW t \in busy
  PROVE  \A p \in Places :
           p \in Changed(t) <=> p = <<fanOut, t>> /\ disk[p] # before[t][p]
<1> SUFFICES ASSUME NEW p \in Places
             PROVE  p \in Changed(t) <=> p = <<fanOut, t>> /\ disk[p] # before[t][p]
  OBVIOUS
<1>1. disk[p] # before[t][p] =>
        Program[fanOut].writes /\ (p = <<fanOut, t>> \/ Program[fanOut].apart)
  BY DEF FilesInv
<1> QED BY <1>1 DEF Changed

LEMMA RecordAnswerFiles ==
  ASSUME FilesKept, CassetteTypes, Walk, Taped', FilesInv, NEW t \in AllTracks,
         RecordAnswer(t)
  PROVE  FilesInv'
<1> PICK files \in SUBSET Places :
         /\ tape' = Append(tape, Entry(t, files))
         /\ \/ files = Captured(t) /\ lost' = lost \cup Hidden(t)
            \/ files = {} /\ lost' = lost \cup Changed(t)
  BY AnswerIs
<1> DEFINE e == Entry(t, files)
<1> DEFINE o == <<fanOut, t>>
<1>1. /\ phase = "recording" /\ t \in busy /\ fanOut \in Fans /\ tape' = Append(tape, e)
      /\ busy' = busy \ {t} /\ before' = [before EXCEPT ![t] = Clean]
      /\ UNCHANGED <<phase, fanOut, at, disk, after>>
  BY DEF RecordAnswer, Running
<1>2. /\ e \in Entries /\ e.of = <<fanOut, t, at[t]>> /\ DOMAIN e.files = files
      /\ \A p \in files : e.files[p] = disk[p]
  BY <1>1, EntryIs DEF Request
<1>3. /\ tape \in Seq(Entries) /\ tape' \in Seq(Entries) /\ Len(tape) + 1 \in DOMAIN tape'
      /\ tape'[Len(tape) + 1] = e
      /\ \A i \in DOMAIN tape' : i = Len(tape) + 1 \/ (i \in DOMAIN tape /\ tape'[i] = tape[i])
  <2> HIDE DEF e
  <2> QED BY <1>1, <1>2, AppendProperties DEF CassetteTypes
<1>4. /\ o \in Places /\ at[t] \in Nat /\ at[t] > 0
      /\ \A p \in Places : p = o => Answered(p) = at[t] - 1 /\ Answered(p)' = at[t]
      /\ \A p \in Places : p # o => Answered(p)' = Answered(p)
  BY <1>1, AnswerAnswered
<1>5. /\ \A p \in files : p = o
      /\ \A p \in Places \ lost' :
           p \notin lost /\ (p = o /\ disk[p] # before[t][p] => p \in files)
  <2>1. \A p \in Places : p \in Changed(t) <=> p = o /\ disk[p] # before[t][p]
    BY <1>1, ChangedIs
  <2> HIDE DEF e, o
  <2> QED BY <2>1 DEF Captured, Hidden
<1>6. \A u \in AllTracks : u # t => before'[u] = before[u]
  BY <1>1 DEF CassetteTypes
<1>7. o[1] = fanOut /\ o[2] = t
  OBVIOUS
<1>8. \A p \in Places : p # o => p[1] # fanOut \/ p[2] # t
  BY PlacesAre
<1> HIDE DEF e, o
<1>9. \A i \in DOMAIN tape', p \in Places :
        p \in DOMAIN tape'[i].files => p = <<tape'[i].of[1], tape'[i].of[2]>>
  <2> SUFFICES ASSUME NEW i \in DOMAIN tape', NEW p \in Places, p \in DOMAIN tape'[i].files
               PROVE  p = <<tape'[i].of[1], tape'[i].of[2]>>
    OBVIOUS
  <2>1. CASE i = Len(tape) + 1
    <3>1. p = o
      BY <1>2, <1>3, <1>5, <2>1
    <3> QED BY <1>2, <1>3, <2>1, <3>1 DEF o
  <2>2. CASE i \in DOMAIN tape /\ tape'[i] = tape[i]
    BY <2>2 DEF FilesInv
  <2> QED BY <1>3, <2>1, <2>2
<1>10. \A u \in busy', p \in Places : disk'[p] # before'[u][p] =>
        Program[fanOut'].writes /\ (p = <<fanOut', u>> \/ Program[fanOut'].apart)
  BY <1>1, <1>6 DEF FilesInv, CassetteTypes
<1>11. ASSUME NEW p \in Places \ lost'
       PROVE  Leaves(tape', Settled(p)', p, Answered(p)')
  <2>1. CASE p # o
    <3>1. Settled(p)' = Settled(p)
      <4>1. p[1] = fanOut => (p[2] \in busy' <=> p[2] \in busy) /\ before'[p[2]] = before[p[2]]
        BY <1>1, <1>6, <1>8, <2>1, PlacesAre
      <4> QED BY <1>1, <4>1 DEF Settled
    <3>2. ~IsOf(e, p, Answered(p))
      BY <1>2, <1>8, <2>1 DEF IsOf
    <3>3. Leaves(tape, Settled(p), p, Answered(p)) /\ Answered(p) \in Nat
      BY <1>1, <1>5, AnsweredIsNat DEF FilesInv
    <3> QED BY <1>1, <1>2, <1>3, <1>4, <2>1, <3>1, <3>2, <3>3, LeavesAppend
  <2>2. CASE p = o
    <3>1. Settled(p)' = disk[p] /\ Settled(p) = before[t][p]
      BY <1>1, <1>7, <2>2 DEF Settled
    <3>2. e.of = <<p[1], p[2], at[t]>>
      BY <1>2, <1>7, <2>2
    <3>3. CASE p \in files
      <4>1. e.files[p] = disk[p] /\ p \in DOMAIN e.files
        BY <1>2, <3>3
      <4>2. Leaves(tape', disk[p], p, at[t])
        BY <1>3, <1>4, <3>2, <4>1, LeavesTake
      <4> QED BY <1>4, <2>2, <3>1, <4>2
    <3>4. CASE p \notin files
      <4>1. disk[p] = before[t][p]
        BY <1>5, <2>2, <3>4
      <4>2. Leaves(tape, disk[p], p, at[t] - 1)
        BY <1>1, <1>4, <1>5, <2>2, <3>1, <4>1 DEF FilesInv
      <4>3. ~IsOf(e, p, at[t] - 1) /\ at[t] - 1 \in Nat
        BY <1>2, <1>4 DEF IsOf
      <4>4. Leaves(tape', disk[p], p, at[t] - 1)
        BY <1>1, <1>2, <1>3, <4>2, <4>3, LeavesAppend
      <4>5. \A i, j \in DOMAIN tape' : tape'[i].of = tape'[j].of => i = j
        BY DEF Taped
      <4>6. p \notin DOMAIN tape'[Len(tape) + 1].files
            /\ tape'[Len(tape) + 1].of = <<p[1], p[2], at[t]>>
        BY <1>2, <1>3, <3>2, <3>4
      <4>7. Leaves(tape', disk[p], p, at[t])
        BY <1>3, <1>4, <4>4, <4>5, <4>6, LeavesSkip
      <4> QED BY <1>4, <2>2, <3>1, <4>7
    <3> QED BY <3>3, <3>4
  <2> QED BY <2>1, <2>2
<1>12. ASSUME NEW f \in Fans, f < fanOut, NEW p \in Places \ lost'
       PROVE  Leaves(tape', after[f][p], p, IF p[1] <= f THEN All(p) ELSE 0)
  <2> DEFINE n == IF p[1] <= f THEN All(p) ELSE 0
  <2>1. n \in Nat /\ Leaves(tape, after[f][p], p, n) /\ fanOut \in Nat /\ f \in Nat
    BY <1>1, <1>5, <1>12, PlacesAre, FansAre DEF FilesInv
  <2>2. ~IsOf(e, p, n)
    <3>1. CASE p[1] <= f
      BY <1>2, <1>12, <2>1, <3>1, PlacesAre DEF IsOf
    <3>2. CASE ~(p[1] <= f)
      BY <1>2, <1>4, <3>2 DEF IsOf
    <3> QED BY <3>1, <3>2
  <2> HIDE DEF n
  <2>3. Leaves(tape', after[f][p], p, n)
    BY <1>1, <1>2, <1>3, <2>1, <2>2, LeavesAppend
  <2> QED BY <2>3 DEF n
<1> QED BY <1>1, <1>9, <1>10, <1>11, <1>12 DEF FilesInv

LEMMA RecordGateFiles ==
  ASSUME CassetteTypes, Walk, FilesInv, RecordGate
  PROVE  FilesInv'
<1>1. /\ phase = "recording" /\ fanOut \in Fans /\ FanDone /\ NextFan
      /\ after' = [after EXCEPT ![fanOut] = disk] /\ fanOut' = fanOut + 1
      /\ UNCHANGED <<phase, busy, disk, before, tape, lost>>
  BY DEF RecordGate, Running, NextFan
<1>2. busy = {} /\ Fans \in SUBSET Nat
  BY <1>1, DoneIsQuiet, FansAre
<1>3. /\ \A p \in Places : Answered(p)' = Answered(p)
      /\ \A p \in Places : Answered(p) = IF p[1] <= fanOut THEN All(p) ELSE 0
  BY <1>1, NextAnswered
<1>4. \A p \in Places : Settled(p)' = disk[p] /\ Settled(p) = disk[p]
  BY <1>1, <1>2 DEF Settled
<1>5. \A p \in Places \ lost : Leaves(tape, disk[p], p, Answered(p))
  BY <1>1, <1>4 DEF FilesInv
<1>6. \A p \in Places \ lost : Leaves(tape', Settled(p)', p, Answered(p)')
  BY <1>1, <1>3, <1>4, <1>5
<1>7. ASSUME NEW f \in Fans, f < fanOut', NEW p \in Places \ lost
      PROVE  Leaves(tape', after'[f][p], p, IF p[1] <= f THEN All(p) ELSE 0)
  <2>1. CASE f = fanOut
    <3>1. after'[f] = disk
      BY <1>1, <2>1 DEF CassetteTypes
    <3> QED BY <1>1, <1>3, <1>5, <2>1, <3>1
  <2>2. CASE f # fanOut
    <3>1. after'[f] = after[f] /\ f < fanOut
      BY <1>1, <1>2, <1>7, <2>2 DEF CassetteTypes
    <3> QED BY <1>1, <3>1 DEF FilesInv
  <2> QED BY <2>1, <2>2
<1> QED BY <1>1, <1>2, <1>6, <1>7 DEF FilesInv

LEMMA FlushFiles ==
  ASSUME CassetteTypes, Walk, FilesInv, Flush
  PROVE  FilesInv'
<1>1. /\ phase = "recording" /\ fanOut \notin Fans /\ Rewind /\ phase' = "replaying"
      /\ disk' = Clean /\ UNCHANGED <<tape, after, lost>> /\ tape \in Seq(Entries)
  BY DEF Flush, Rewind, CassetteTypes
<1>2. \A f \in Fans : f < fanOut
  BY <1>1, FansAre DEF CassetteTypes
<1>3. \A p \in Places : Answered(p)' = 0 /\ disk'[p] = <<0, 0>>
  BY <1>1, RewindAnswered DEF Clean, Gone
<1>4. \A p \in Places : Leaves(tape', disk'[p], p, Answered(p)')
  BY <1>1, <1>3, LeavesNone
<1> QED BY <1>1, <1>2, <1>4 DEF FilesInv

LEMMA ReplayAnswerFiles ==
  ASSUME CassetteTypes, Walk, Taped, Replaying, throws = 0, FilesInv,
         NEW t \in AllTracks, ReplayAnswer(t)
  PROVE  FilesInv'
<1> DEFINE k == taken[t]
<1> DEFINE o == <<fanOut, t>>
<1>1. /\ phase = "replaying" /\ t \in busy /\ fanOut \in Fans /\ busy' = busy \ {t}
      /\ disk' = [p \in Places |->
                    IF p \in DOMAIN tape[k].files THEN tape[k].files[p] ELSE disk[p]]
      /\ UNCHANGED <<phase, fanOut, at, tape, after, lost>>
  BY DEF ReplayAnswer, Running
<1>2. /\ k \in DOMAIN tape /\ tape[k].of = <<fanOut, t, at[t]>> /\ tape \in Seq(Entries)
      /\ \A i, j \in DOMAIN tape : tape[i].of = tape[j].of => i = j
  BY <1>1 DEF Replaying, Request, CassetteTypes, Taped
<1>3. /\ o \in Places /\ at[t] \in Nat /\ at[t] > 0
      /\ \A p \in Places : p = o => Answered(p) = at[t] - 1 /\ Answered(p)' = at[t]
      /\ \A p \in Places : p # o => Answered(p)' = Answered(p)
  BY <1>1, AnswerAnswered
<1>4. o[1] = fanOut /\ o[2] = t /\ \A p \in Places : p \in DOMAIN tape[k].files => p = o
  BY <1>2 DEF FilesInv
<1>5. \A p \in Places \ lost : Leaves(tape, disk[p], p, Answered(p))
  BY <1>1 DEF FilesInv
<1> HIDE DEF k, o
<1>6. ASSUME NEW p \in Places \ lost
      PROVE  Leaves(tape', disk'[p], p, Answered(p)')
  <2>1. CASE p # o
    BY <1>1, <1>3, <1>4, <1>5, <2>1
  <2>2. CASE p = o /\ p \in DOMAIN tape[k].files
    <3>1. disk'[p] = tape[k].files[p] /\ tape[k].of = <<p[1], p[2], at[t]>>
      BY <1>1, <1>2, <1>4, <2>2
    <3>2. Leaves(tape, tape[k].files[p], p, at[t])
      BY <1>2, <1>3, <2>2, <3>1, LeavesTake
    <3> QED BY <1>1, <1>3, <2>2, <3>1, <3>2
  <2>3. CASE p = o /\ p \notin DOMAIN tape[k].files
    <3>1. disk'[p] = disk[p] /\ tape[k].of = <<p[1], p[2], at[t]>>
      BY <1>1, <1>2, <1>4, <2>3
    <3>2. Leaves(tape, disk[p], p, at[t] - 1)
      BY <1>3, <1>5, <2>3
    <3>3. Leaves(tape, disk[p], p, at[t])
      BY <1>2, <1>3, <2>3, <3>1, <3>2, LeavesSkip
    <3> QED BY <1>1, <1>3, <2>3, <3>1, <3>3
  <2> QED BY <2>1, <2>2, <2>3
<1> QED BY <1>1, <1>6 DEF FilesInv

LEMMA ReplayFilesStay ==
  ASSUME FilesInv, phase # "recording", phase' # "recording",
         UNCHANGED <<disk, tape, after, lost>>, \A p \in Places : Answered(p)' = Answered(p)
  PROVE  FilesInv'
BY DEF FilesInv

\* The replay goes astray at a request that depends on git, or has lost a file.
LEMMA CauseOfStraying ==
  ASSUME CassetteTypes, Taped, FilesInv, NEW t \in AllTracks, GoesAstray(t)
  PROVE  StraysForCause'
<1>1. /\ phase = "replaying" /\ fanOut \in Fans /\ Ready(t)
      /\ NextKey(t) \in GitKeys \/ FilesDiffer(t)
      /\ UNCHANGED <<fanOut, at, busy, lost>>
  BY DEF GoesAstray, MayStart, Running
<1>2. CASE NextKey(t) \in GitKeys
  <2>1. Ready(t)' /\ NextKey(t)' \in GitKeys
    BY <1>1, <1>2 DEF Ready, NextKey, Tracks
  <2> QED BY <2>1 DEF StraysForCause
<1>3. CASE lost # {}
  BY <1>1, <1>3 DEF StraysForCause
<1>4. ASSUME NEW p \in Places, p[1] < fanOut, disk[p] # after[fanOut - 1][p]
      PROVE  p \in lost
  <2> SUFFICES ASSUME p \notin lost PROVE FALSE
    OBVIOUS
  <2>1. /\ fanOut \in Nat /\ p[1] \in Nat /\ All(p) \in Nat
        /\ fanOut - 1 \in Fans /\ p[1] <= fanOut - 1
    BY <1>1, <1>4, PlacesAre, FansAre
  <2>2. Leaves(tape, disk[p], p, All(p))
    <3>1. Answered(p) = All(p)
      BY <1>4 DEF Answered
    <3> QED BY <1>1, <3>1 DEF FilesInv
  <2>3. Leaves(tape, after[fanOut - 1][p], p, All(p))
    BY <1>1, <2>1 DEF FilesInv
  <2>4. /\ tape \in Seq(Entries)
        /\ \A i, j \in DOMAIN tape : tape[i].of = tape[j].of => i = j
    BY DEF CassetteTypes, Taped
  <2> QED BY <1>4, <2>1, <2>2, <2>3, <2>4, LeavesOne
<1> QED BY <1>1, <1>2, <1>3, <1>4 DEF FilesDiffer

LEMMA FilesStep ==
  ASSUME FilesKept, CassetteInv, CassetteInv', CassetteFiles, [CassetteNext]_cvars
  PROVE  CassetteFiles'
<1> SUFFICES ASSUME throws' = 0
             PROVE  FilesInv' /\ StraysForCause'
  BY DEF CassetteFiles
<1> USE DEF CassetteInv
<1>0. throws = 0 /\ FilesInv /\ StraysForCause
  <2>1. throws' = throws \/ throws' = throws + 1
    BY DEF CassetteNext, RecordDispatch, SessionWrites, RecordAnswer, DispatchThrows,
           ReplayDispatch, GoesAstray, ReplayAnswer, RecordGate, Flush, ReplayGate,
           ReplayEnds, cvars
  <2>2. throws = 0
    BY <2>1 DEF CassetteTypes
  <2> QED BY <2>2 DEF CassetteFiles
<1>1. ASSUME NEW t \in AllTracks, RecordDispatch(t) PROVE FilesInv'
  BY <1>0, <1>1, RecordDispatchFiles
<1>2. ASSUME NEW t \in AllTracks, SessionWrites(t) PROVE FilesInv'
  BY <1>0, <1>2, SessionWritesFiles
<1>3. ASSUME NEW t \in AllTracks, RecordAnswer(t) PROVE FilesInv'
  BY <1>0, <1>3, RecordAnswerFiles
<1>4. ASSUME NEW t \in AllTracks, DispatchThrows(t) PROVE FilesInv'
  BY <1>0, <1>4 DEF DispatchThrows
<1>5. ASSUME NEW t \in AllTracks, ReplayDispatch(t) PROVE FilesInv'
  <2>1. /\ phase = "replaying" /\ UNCHANGED <<fanOut, disk, tape, after, lost>>
    BY <1>5 DEF ReplayDispatch
  <2>2. CASE phase' = "missed" /\ UNCHANGED <<at, busy>>
    BY <1>0, <2>1, <2>2, ReplayFilesStay DEF Answered, All
  <2>3. CASE MayStart(t) /\ Starts(t) /\ phase' = phase
    BY <1>0, <2>1, <2>3, StartsAnswered, ReplayFilesStay
  <2> QED BY <1>5, <2>2, <2>3, ServeIs
<1>6. ASSUME NEW t \in AllTracks, ReplayAnswer(t) PROVE FilesInv'
  <2>1. Replaying
    BY <1>6 DEF ReplayAnswer
  <2> QED BY <1>0, <1>6, <2>1, ReplayAnswerFiles
<1>7. ASSUME RecordGate PROVE FilesInv'
  BY <1>0, <1>7, RecordGateFiles
<1>8. ASSUME Flush PROVE FilesInv'
  BY <1>0, <1>8, FlushFiles
<1>9. ASSUME ReplayGate PROVE FilesInv'
  <2>1. /\ phase = "replaying" /\ fanOut \in Fans /\ FanDone /\ NextFan
        /\ UNCHANGED <<phase, busy, disk, tape, after, lost>>
    BY <1>9 DEF ReplayGate, Running
  <2> QED BY <1>0, <2>1, NextAnswered, ReplayFilesStay
<1>10. ASSUME ReplayEnds PROVE FilesInv'
  <2>1. /\ phase = "replaying" /\ phase' = "over"
        /\ UNCHANGED <<fanOut, at, busy, disk, tape, after, lost>>
    BY <1>10 DEF ReplayEnds
  <2> QED BY <1>0, <2>1, ReplayFilesStay DEF Answered, All
<1>11. ASSUME UNCHANGED cvars PROVE FilesInv'
  BY <1>0, <1>11 DEF cvars, FilesInv, Answered, Settled, All
<1>12. ASSUME NEW t \in AllTracks, GoesAstray(t) PROVE FilesInv' /\ StraysForCause'
  <2>1. /\ phase = "replaying" /\ phase' = "astray"
        /\ UNCHANGED <<fanOut, at, busy, disk, tape, after, lost>>
    BY <1>12 DEF GoesAstray
  <2>2. FilesInv'
    BY <1>0, <2>1, ReplayFilesStay DEF Answered, All
  <2> QED BY <1>0, <1>12, <2>2, CauseOfStraying
<1>13. phase' # "astray" => StraysForCause'
  BY DEF StraysForCause
<1>14. phase' = "astray" => UNCHANGED cvars \/ \E t \in AllTracks : GoesAstray(t)
  <2>1. \A t \in AllTracks : ReplayDispatch(t) => phase' # "astray"
    BY DEF ReplayDispatch
  <2> QED
    BY <2>1 DEF CassetteNext, RecordDispatch, SessionWrites, RecordAnswer, DispatchThrows,
       ReplayAnswer, RecordGate, Flush, ReplayGate, ReplayEnds, Rewind
<1>15. UNCHANGED cvars => StraysForCause'
  BY <1>0 DEF cvars, StraysForCause, Ready, NextKey, Tracks
<1> QED
  BY <1>1, <1>2, <1>3, <1>4, <1>5, <1>6, <1>7, <1>8, <1>9, <1>10, <1>11, <1>12, <1>13,
     <1>14, <1>15
  DEF CassetteNext

LEMMA FilesInit ==
  ASSUME FromTheStart
  PROVE  CassetteInit => CassetteFiles
<1> SUFFICES ASSUME CassetteInit PROVE FilesInv
  BY DEF CassetteFiles, CassetteInit, StraysForCause
<1>1. /\ phase = "recording" /\ fanOut = 1 /\ at = Nowhere /\ busy = {} /\ tape = <<>>
      /\ disk = Clean /\ tape \in Seq(Entries)
  BY DEF CassetteInit, FromTheStart
<1>2. ASSUME NEW p \in Places
      PROVE  Settled(p) = <<0, 0>> /\ Answered(p) = 0
  <2>1. p[1] \in Nat /\ p[1] >= 1 /\ at[p[2]] = 0
    BY <1>1, PlacesAre, FansAre DEF Nowhere
  <2> QED BY <1>1, <2>1 DEF Settled, Answered, Clean, Gone
<1>3. \A p \in Places : Leaves(tape, Settled(p), p, Answered(p))
  BY <1>1, <1>2, LeavesNone
<1>4. \A f \in Fans : ~(f < fanOut)
  BY <1>1, FansAre
<1> QED BY <1>1, <1>3, <1>4 DEF FilesInv

LEMMA FilesInvSound ==
  ASSUME CassetteInv, CassetteFiles
  PROVE  FilesReplayed
<1> SUFFICES ASSUME phase = "replaying", throws = 0, fanOut > 1, at = Nowhere, busy = {},
                    NEW p \in Places \ lost
             PROVE  disk[p] = after[fanOut - 1][p]
  BY DEF FilesReplayed, FilesComeBack, CassetteFiles
<1> DEFINE f == fanOut - 1
<1>1. f \in Fans /\ fanOut \in Nat /\ f \in Nat /\ fanOut = f + 1
  BY FansAre DEF CassetteInv, CassetteTypes
<1> HIDE DEF f
<1>2. tape \in Seq(Entries)
  BY <1>1 DEF CassetteInv, CassetteTypes
<1>3. disk[p] = after[f][p]
  <2> DEFINE n == IF p[1] <= f THEN All(p) ELSE 0
  <2>1. Leaves(tape, disk[p], p, Answered(p))
    BY DEF CassetteFiles, FilesInv
  <2>2. Leaves(tape, after[f][p], p, n)
    BY <1>1 DEF CassetteFiles, FilesInv
  <2>3. Answered(p) = n /\ n \in Nat
    <3>1. p[1] \in Nat /\ at[p[2]] = 0 /\ All(p) \in Nat
      BY PlacesAre DEF Nowhere
    <3> QED BY <1>1, <3>1 DEF Answered
  <2>4. \A i, j \in DOMAIN tape : tape[i].of = tape[j].of => i = j
    BY DEF CassetteInv, Taped
  <2> HIDE DEF n
  <2> QED BY <1>2, <2>1, <2>2, <2>3, <2>4, LeavesOne
<1> QED BY <1>3 DEF f

\* After each fan-out of a replay the files of its sessions are those that they had
\* left after it in the recording (applyWrittenFiles, replay-dispatcher.ts:6), all but
\* those that no capture saw change, and the replay goes astray only for them or for
\* what git or npm answer, in any program whose writing sessions do not share a directory.
THEOREM FilesAreReplayed ==
  ASSUME FromTheStart, KeysOrdered, FilesKept
  PROVE  CassetteSpec => []FilesReplayed
<1>1. CassetteInit => CassetteFiles
  BY FilesInit
<1>2. CassetteInv /\ CassetteInv' /\ CassetteFiles /\ [CassetteNext]_cvars => CassetteFiles'
  BY FilesStep
<1>3. CassetteInv /\ CassetteFiles => FilesReplayed
  BY FilesInvSound
<1> QED BY <1>1, <1>2, <1>3, CassetteInvariant, PTL DEF CassetteSpec

=============================================================================
