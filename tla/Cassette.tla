------------------------------ MODULE Cassette ------------------------------
(***************************************************************************)
(* Record and replay (infra/replay, index.ts).  A recorded run appends an  *)
(* entry per dispatch to a cassette: the key of the request, which does    *)
(* not tell its directory, the ordinal taken when it started, the answer,  *)
(* and the files that differ in its directory from what they were before.  *)
(* A pure replay makes the requests again from the start and serves each   *)
(* from the bucket of its key, lowest ordinal first, writing the files.    *)
(* Gate decisions are served per method in the order in which they were    *)
(* asked.                                                                  *)
(*                                                                         *)
(* Git and npm answer in the recording (index.ts:135), stubs in the replay *)
(* (replay-runner.ts:192): a request that depends on their answers may be  *)
(* another one there, and so may one whose prompt quotes a file that is    *)
(* not as it was.  The replay is then astray: it misses, or serves what    *)
(* was recorded for something else, and is not followed any further.       *)
(*                                                                         *)
(* The run is a given list of fan-outs, each followed by a gate.  A fan-   *)
(* out has tracks, that run in parallel, each a list of keys: requests of  *)
(* an agent, then of its retry or its reviewer.  An answer is represented  *)
(* by the request that it answered, a decision by the fan-out that asked.  *)
(***************************************************************************)
EXTENDS Naturals, Sequences, SequencesExt, FiniteSetsExt

CONSTANTS
  Program,   \* a sequence of fan-outs, records with these fields:
             \*   tracks   a sequence of sequences of keys
             \*   ordered  one dispatchParallel: it starts them in their order
             \*   apart    each track has a worktree of its own
             \*   writes   the sessions write files
             \*   gate     the gate method called then, or "none"
  Keys,      \* the keys of requests
  GitKeys,   \* those of requests that quote what git or npm answered, or are
             \* made because of it: the code reviewers' (code-review.ts:24)
  Ignored,   \* whether the repository ignores .pipeline/
  StartsAt,  \* the fan-out with which the recording starts: 1 unless resumed
  MaxThrows  \* bound of the model: dispatches that throw in the recording

FanOuts == [tracks : Seq(Seq(Keys)), ordered : BOOLEAN, apart : BOOLEAN,
            writes : BOOLEAN, gate : {"askText", "choose", "confirm", "none"}]

ASSUME CassetteAssumption ==
  /\ Program \in Seq(FanOuts)
  /\ GitKeys \subseteq Keys
  /\ StartsAt \in DOMAIN Program /\ Ignored \in BOOLEAN /\ MaxThrows \in Nat

VARIABLES
  phase,     \* recording, replaying, over, missed, astray
  fanOut,    \* the fan-out, one more than there are at the end
  at,        \* per track: how many of its requests have been made
  busy,      \* the tracks whose last request runs
  disk,      \* per fan-out and track: the state of the file its sessions write
  counter,   \* dispatchCounter of the writer
  taken,     \* per track: in the recording its request's ordinal, in the
             \* replay the entry it was served
  before,    \* per track: the disk when its request started
  tape,      \* dispatch.jsonl, in the order of appending
  served,    \* indices of the entries that were consumed
  gates,     \* gates.jsonl, in the order of appending
  played,    \* indices of the gates that were consumed
  asked,     \* pairs: a gate of the replay, the one whose decision it got
  replies,   \* pairs: a request of the replay, the one whose answer it got
  after,     \* per fan-out: the disk after it in the recording
  lost,      \* history: files of which a change came on no entry
  throws

cvars == <<phase, fanOut, at, busy, disk, counter, taken, before, tape, served,
           gates, played, asked, replies, after, lost, throws>>

Fans == DOMAIN Program
Tracks == DOMAIN Program[fanOut].tracks
AllTracks == UNION {DOMAIN Program[f].tracks : f \in Fans}
Places == {p \in Fans \X AllTracks : p[2] \in DOMAIN Program[p[1]].tracks}
Request(t) == <<fanOut, t, at[t]>>
Key(r) == Program[r[1]].tracks[r[2]][r[3]]
Running == fanOut \in Fans /\ phase \in {"recording", "replaying"}
Nowhere == [t \in AllTracks |-> 0]
Gone == <<0, 0>>
Clean == [p \in Places |-> Gone]

CassetteInit ==
  /\ phase = "recording" /\ fanOut = StartsAt /\ at = Nowhere /\ busy = {}
  /\ disk = Clean /\ counter = 0 /\ taken = Nowhere
  /\ before = [t \in AllTracks |-> Clean]
  /\ tape = <<>> /\ served = {} /\ gates = <<>> /\ played = {} /\ asked = {}
  /\ replies = {} /\ after = [f \in Fans |-> Clean] /\ lost = {} /\ throws = 0

\* dispatchParallel calls dispatch for each request before any is awaited.
Ready(t) ==
  /\ fanOut \in Fans /\ t \in Tracks \ busy
  /\ at[t] < Len(Program[fanOut].tracks[t])
  /\ Program[fanOut].ordered => \A u \in Tracks : u < t => at[u] > 0

MayStart(t) == Running /\ Ready(t)

Starts(t) ==
  /\ at' = [at EXCEPT ![t] = @ + 1]
  /\ busy' = busy \cup {t}

-----------------------------------------------------------------------------
(* Recording. *)

\* RecordingDispatcher.dispatch up to the inner dispatch
RecordDispatch(t) ==
  /\ phase = "recording" /\ MayStart(t) /\ Starts(t)
  /\ taken' = [taken EXCEPT ![t] = counter] /\ counter' = counter + 1
  /\ before' = [before EXCEPT ![t] = disk]
  /\ UNCHANGED <<phase, fanOut, disk, tape, served, gates, played, asked,
                 replies, after, lost, throws>>

\* The session writes its file, and then again, or deletes it.
SessionWrites(t) ==
  /\ phase = "recording" /\ Running /\ t \in busy /\ Program[fanOut].writes
  /\ \E content \in {Gone, <<at[t], 1>>, <<at[t], 2>>} :
       /\ content[2] = 2 => disk[<<fanOut, t>>] = <<at[t], 1>>
       /\ content[2] = 1 => disk[<<fanOut, t>>] # <<at[t], 2>>
       /\ disk' = [disk EXCEPT ![<<fanOut, t>>] = content]
  /\ UNCHANGED <<phase, fanOut, at, busy, counter, taken, before, tape, served,
                 gates, played, asked, replies, after, lost, throws>>

\* In the directory of the dispatch, which shared by a fan-out has the files of all
\* its sessions: what changed since the dispatch started.
Changed(t) ==
  {p \in Places :
     disk[p] # before[t][p] /\ (Program[fanOut].apart => p = <<fanOut, t>>)}

\* What git does not show of it: ignored files and, with --diff-filter=AM, deletions.
Hidden(t) ==
  {p \in Changed(t) : disk[p] = Gone \/ (Ignored /\ ~Program[fanOut].apart)}

\* Mutant of Captured: the new files only.
CapturedNew(t) == {p \in Changed(t) \ Hidden(t) : before[t][p] = Gone}

\* capture.diff: git add -A and diff --cached in the directory of the dispatch
Captured(t) == Changed(t) \ Hidden(t)

Entry(t, files) ==
  [key |-> Key(Request(t)), ordinal |-> taken[t], of |-> Request(t),
   files |-> [p \in files |-> disk[p]]]

AppendEntry(t, files) == Append(tape, Entry(t, files))

\* ... and after it.  No file is captured if a git command fails, as by the index.lock
\* of another capture there: nobody looks at its exit code (index.ts:86).
RecordAnswer(t) ==
  /\ phase = "recording" /\ Running /\ t \in busy
  /\ \/ tape' = AppendEntry(t, Captured(t)) /\ lost' = lost \cup Hidden(t)
     \/ tape' = AppendEntry(t, {}) /\ lost' = lost \cup Changed(t)
  /\ busy' = busy \ {t}
  /\ before' = [before EXCEPT ![t] = Clean]
  /\ UNCHANGED <<phase, fanOut, at, disk, counter, taken, served, gates, played,
                 asked, replies, after, throws>>

FanDone == \A t \in Tracks : t \notin busy /\ at[t] = Len(Program[fanOut].tracks[t])

NextFan == fanOut' = fanOut + 1 /\ at' = Nowhere

\* The gate that follows, and what the next fan-out starts from.
RecordGate ==
  /\ phase = "recording" /\ Running /\ FanDone
  /\ after' = [after EXCEPT ![fanOut] = disk]
  /\ IF Program[fanOut].gate = "none" THEN UNCHANGED gates
     ELSE gates' = Append(gates, [method |-> Program[fanOut].gate, of |-> fanOut])
  /\ NextFan
  /\ UNCHANGED <<phase, busy, disk, counter, taken, before, tape, served, played, asked,
                 replies, lost, throws>>

\* runReplay: a new Run in a new workspace, from the start, whatever was recorded.
Rewind ==
  /\ phase' = "replaying" /\ fanOut' = 1 /\ at' = Nowhere /\ busy' = {}
  /\ disk' = Clean /\ taken' = Nowhere /\ before' = [t \in AllTracks |-> Clean]

\* The recorded run has ended and flushes its cassette.
Flush ==
  /\ phase = "recording" /\ fanOut \notin Fans
  /\ Rewind
  /\ UNCHANGED <<counter, tape, served, gates, played, asked, replies, after,
                 lost, throws>>

\* A dispatch throws and the run fails: what other sessions still answer comes
\* after the flush.
DispatchThrows(t) ==
  /\ phase = "recording" /\ Running /\ t \in busy /\ throws < MaxThrows
  /\ throws' = throws + 1
  /\ Rewind
  /\ UNCHANGED <<counter, tape, served, gates, played, asked, replies, after, lost>>

-----------------------------------------------------------------------------
(* Replaying. *)

Bucket(key) == {i \in DOMAIN tape : i \notin served /\ tape[i].key = key}

\* Mutant of FirstOf: the buckets are not sorted.
FirstOfUnsorted(is) == Min(is)

\* CassetteReader sorts a bucket by ordinal and shifts.
FirstOf(is) == CHOOSE i \in is : \A j \in is : tape[i].ordinal <= tape[j].ordinal

NextKey(t) == Program[fanOut].tracks[t][at[t] + 1]

\* ReplayDispatcher.dispatch, up to the writing of the files
ReplayDispatch(t) ==
  /\ phase = "replaying" /\ MayStart(t)
  /\ LET is == Bucket(NextKey(t))
     IN IF is = {} THEN phase' = "missed" /\ UNCHANGED <<at, busy, taken, served>>
        ELSE /\ Starts(t)
             /\ taken' = [taken EXCEPT ![t] = FirstOf(is)]
             /\ served' = served \cup {FirstOf(is)}
             /\ UNCHANGED phase
  /\ UNCHANGED <<fanOut, disk, counter, before, tape, gates, played, asked,
                 replies, after, lost, throws>>

\* A file that the request may quote is not as it was in the recording.
FilesDiffer(t) ==
  \/ \E p \in Places : p[1] < fanOut /\ disk[p] # after[fanOut - 1][p]
  \/ at[t] > 0 /\ <<fanOut, t>> \in lost

\* Instead of the recorded request another one is made, or none.
GoesAstray(t) ==
  /\ phase = "replaying" /\ MayStart(t)
  /\ NextKey(t) \in GitKeys \/ FilesDiffer(t)
  /\ phase' = "astray"
  /\ UNCHANGED <<fanOut, at, busy, disk, counter, taken, before, tape, served, gates,
                 played, asked, replies, after, lost, throws>>

\* The files are written under the directory of this request, then it is answered.
ReplayAnswer(t) ==
  /\ phase = "replaying" /\ Running /\ t \in busy
  /\ LET e == tape[taken[t]]
     IN /\ disk' = [p \in Places |->
                   IF p \in DOMAIN e.files THEN e.files[p] ELSE disk[p]]
        /\ replies' = replies \cup {<<Request(t), e.of>>}
  /\ busy' = busy \ {t}
  /\ UNCHANGED <<phase, fanOut, at, counter, taken, before, tape, served, gates,
                 played, asked, after, lost, throws>>

\* nextGate shifts the queue of the method; 0 where it is empty.
NextGate(method) ==
  LET queue == {i \in DOMAIN gates : i \notin played /\ gates[i].method = method}
  IN IF queue = {} THEN 0 ELSE Min(queue)

\* The gate waits for nobody; without an entry its caller gets no decision.
ReplayGate ==
  /\ phase = "replaying" /\ Running /\ FanDone
  /\ LET method == Program[fanOut].gate
         i == NextGate(method)
     IN IF method = "none" THEN UNCHANGED <<played, asked>>
        ELSE IF i = 0 THEN asked' = asked \cup {<<fanOut, 0>>} /\ UNCHANGED played
        ELSE asked' = asked \cup {<<fanOut, gates[i].of>>} /\ played' = played \cup {i}
  /\ NextFan
  /\ UNCHANGED <<phase, busy, disk, counter, taken, before, tape, served, gates,
                 replies, after, lost, throws>>

ReplayEnds ==
  /\ phase = "replaying" /\ fanOut \notin Fans
  /\ phase' = "over"
  /\ UNCHANGED <<fanOut, at, busy, disk, counter, taken, before, tape, served,
                 gates, played, asked, replies, after, lost, throws>>

CassetteNext ==
  \/ \E t \in AllTracks :
       \/ RecordDispatch(t) \/ SessionWrites(t) \/ RecordAnswer(t) \/ DispatchThrows(t)
       \/ ReplayDispatch(t) \/ GoesAstray(t) \/ ReplayAnswer(t)
  \/ RecordGate \/ Flush \/ ReplayGate \/ ReplayEnds

CassetteSpec == CassetteInit /\ [][CassetteNext]_cvars

-----------------------------------------------------------------------------
(* Properties. *)

CassetteTypeOK ==
  /\ phase \in {"recording", "replaying", "over", "missed", "astray"}
  /\ fanOut \in 1..(Len(Program) + 1) /\ busy \subseteq AllTracks
  /\ served \subseteq DOMAIN tape /\ Len(tape) <= counter
  /\ \A i, j \in DOMAIN tape : tape[i].ordinal = tape[j].ordinal => i = j

\* As long as it is not astray every request of the replay gets the answer that it
\* got in the recording, however the sessions of a fan-out overlapped then and do
\* now, equal requests of one dispatchParallel included; and so does every gate.
ReplayIsFaithful ==
  throws = 0 =>
    /\ \A p \in replies : p[1] = p[2]
    /\ \A p \in asked : p[1] = p[2]

\* A replay misses no request that the recording answered, and when it is over
\* nothing of the cassette is left.
MissOnlyWhatFailed ==
  /\ phase = "missed" => throws > 0
  /\ phase = "over" => served = DOMAIN tape

\* Together: the replay goes through the recording, neither less nor other than it,
\* until it is over or astray.
ReplaySound == CassetteTypeOK /\ ReplayIsFaithful /\ MissOnlyWhatFailed

\* "so that stage code can read files written as a side-effect of the original
\* dispatch" (replay-dispatcher.ts:6): after a fan-out they are what they were after
\* it in the recording, all but those that were deleted, or changed while git failed.
FilesComeBack ==
  phase = "replaying" /\ fanOut > 1 /\ at = Nowhere /\ busy = {} =>
    \A p \in Places \ lost : disk[p] = after[fanOut - 1][p]

\* A replay that goes astray does so at a request that depends on git or npm, or for
\* a file that was lost.
StraysForCause ==
  phase = "astray" => lost # {} \/ \E t \in AllTracks : Ready(t) /\ NextKey(t) \in GitKeys

\* Together, of a recording that did not fail.
FilesReplayed == throws = 0 => FilesComeBack /\ StraysForCause

-----------------------------------------------------------------------------
(* What the documentation says and the code does not do. *)

\* "The original user task description, required to seed the Run for replay"
\* (cassette.ts:36): a replay starts where the recording did and finds its requests.
SeededAsRecorded == phase = "missed" => throws > 0

\* "This keeps the code-review dispatch key stable across all modes."
\* (replay-runner.ts:191)
CodeReviewKeyStable ==
  phase = "astray" => \A t \in AllTracks : Ready(t) => NextKey(t) \notin GitKeys

\* The comment of FilesComeBack, of all files.
EveryFileReplayed ==
  phase = "replaying" /\ throws = 0 /\ fanOut > 1 /\ at = Nowhere /\ busy = {}
    => disk = after[fanOut - 1]

=============================================================================
