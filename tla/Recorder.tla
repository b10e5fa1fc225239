------------------------------ MODULE Recorder -------------------------------
(***************************************************************************)
(* record_process of recording/recorder.py: one agent process in its own   *)
(* process group, two pumps that copy its pipes to stdout.raw/stderr.raw   *)
(* and describe every chunk and event in transcript.jsonl, and the         *)
(* supervisor that waits, times out, terminates, kills and joins.          *)
(*                                                                         *)
(* A chunk is a sequence of complete lines (Framing models how bytes       *)
(* become lines).  TranscriptWriter.append never suspends while it holds   *)
(* its lock, so what a pump does with one chunk is one step of the event   *)
(* loop.  asyncio's process.wait() is external: in some Python releases a  *)
(* pending wait() also needs the end of both pipes (launch.eofWait).       *)
(***************************************************************************)
EXTENDS Integers, Sequences, FiniteSets

CONSTANTS
  LineKinds,   \* lines the agent may print on stdout: a subset of AllLineKinds
  Behaviours,  \* what the agent may do: a subset of AllBehaviours
  Launches,    \* what is launched, a subset of AllLaunches
  MaxCancels,  \* bound: CancelledErrors thrown into the coroutine
  PipeCap,     \* bound: lines a pipe (with its StreamReader) holds
  MaxLines     \* bound: lines the agent writes to each stream

\* "event" and "terminal" decode; "bad" is a parse error; "unencodable" decodes to an
\* object that canonical_json cannot encode (a lone surrogate)
AllLineKinds  == {"event", "terminal", "bad", "unencodable"}
\* ignores SIGTERM; forks a child that keeps the pipes; which leaves the process group;
\* never reads its stdin; closes it unread and runs on; cannot be started
AllBehaviours == {"ignores_term", "forks", "escapes", "deaf", "closes_stdin", "unspawnable"}
\* of LaunchSpec: stdin is not None, terminal_kinds is not empty, decoder; and of the Python
\* release: a wait() called before the exit returns only after both pipes have ended
AllLaunches == [stdin : BOOLEAN, terminal : BOOLEAN, decoder : {"jsonl", "text"}, eofWait : BOOLEAN]

ASSUME LineKindsAssumption == LineKinds \subseteq AllLineKinds
ASSUME BehavioursAssumption == Behaviours \subseteq AllBehaviours
ASSUME LaunchesAssumption == Launches \subseteq AllLaunches

Streams == {"stdout", "stderr"}
ASSUME BoundsAssumption ==
  MaxCancels \in Nat /\ PipeCap \in Nat \ {0} /\ MaxLines \in [Streams -> Nat]

VARIABLES
  launch,       \* what this call launches; it never changes
  sup,          \* where the coroutine of record_process is
  raising,      \* the exception that unwinds through its finally block
  timedOut, killStage,
  cancels,
  instant,      \* the wait() in progress was called after the leader had been reaped
  child,        \* the leader of the process group
  kin,          \* a descendant that holds the write ends of both pipes
  sigterm,      \* SIGTERM has been sent to the group
  pipe,         \* lines written and not yet read
  written,      \* history: every line written to a stream
  pump,         \* the two pump tasks
  raw,          \* stdout.raw and stderr.raw, as lines
  transcript,   \* records of transcript.jsonl
  arrivalSeq, eventSeq,
  terminalSeen, parseErrors,
  closed        \* transcript.close() has flushed and synced the file

supervisor == <<launch, sup, raising, timedOut, killStage, cancels, instant>>
agent      == <<child, kin, sigterm, written>>
evidence   == <<raw, transcript, arrivalSeq, eventSeq, terminalSeen, parseErrors>>
vars       == <<supervisor, agent, pipe, pump, evidence, closed>>

Final == {"returned", "raised"}
Waiting == {"waiting", "grace", "killed", "cancelling"}

\* what the decoder of this launch can make of a line
DecodedKinds ==
  IF launch.decoder = "text" THEN {"event"}
  ELSE IF launch.terminal THEN AllLineKinds ELSE AllLineKinds \ {"terminal"}
Lines(s) == IF s = "stdout" THEN LineKinds \cap DecodedKinds ELSE {"text"}

Init ==
  /\ launch \in Launches
  /\ sup = "spawn" /\ raising = "none"
  /\ timedOut = FALSE /\ killStage = "none" /\ cancels = 0 /\ instant = FALSE
  /\ child = "unborn" /\ kin = "none" /\ sigterm = FALSE
  /\ pipe = [s \in Streams |-> <<>>] /\ written = [s \in Streams |-> <<>>]
  /\ pump = [s \in Streams |-> "none"]
  /\ raw = [s \in Streams |-> <<>>]
  /\ transcript = <<>> /\ arrivalSeq = 0 /\ eventSeq = 0
  /\ terminalSeen = FALSE /\ parseErrors = 0
  /\ closed = FALSE

-----------------------------------------------------------------------------
(* The transcript                                                          *)

Record(type, source, arrival, seq, offset, length) ==
  [type |-> type, source |-> source, arrival |-> arrival, seq |-> seq,
   offset |-> offset, length |-> length]

\* mutant: the counter is read and not advanced
Append1Frozen(type) ==
  /\ transcript' = Append(transcript, Record(type, "none", arrivalSeq + 1, 0, 0, 0))
  /\ UNCHANGED arrivalSeq

\* a record that is neither a chunk nor an event
Append1(type) ==
  /\ transcript' = Append(transcript, Record(type, "none", arrivalSeq + 1, 0, 0, 0))
  /\ arrivalSeq' = arrivalSeq + 1

-----------------------------------------------------------------------------
(* The agent                                                               *)

Writer == child = "running" \/ kin \in {"group", "escaped"}
GroupExists == child \in {"running", "zombie"} \/ kin = "group"

AgentWrites(s, k) ==
  /\ Writer
  /\ Len(pipe[s]) < PipeCap /\ Len(written[s]) < MaxLines[s]
  /\ pipe' = [pipe EXCEPT ![s] = Append(@, k)]
  /\ written' = [written EXCEPT ![s] = Append(@, k)]
  /\ UNCHANGED <<supervisor, child, kin, sigterm, pump, evidence, closed>>

Fork ==
  /\ "forks" \in Behaviours /\ child = "running" /\ kin = "none"
  /\ kin' \in IF "escapes" \in Behaviours THEN {"group", "escaped"} ELSE {"group"}
  /\ UNCHANGED <<supervisor, child, sigterm, written, pipe, pump, evidence, closed>>

KinExits ==
  /\ kin \in {"group", "escaped"} /\ kin' = "gone"
  /\ UNCHANGED <<supervisor, child, sigterm, written, pipe, pump, evidence, closed>>

LeaderExits ==
  /\ child = "running" /\ child' = "zombie"
  /\ UNCHANGED <<supervisor, kin, sigterm, written, pipe, pump, evidence, closed>>

\* the event loop's child watcher collects the exit status: returncode is set
Reap ==
  /\ child = "zombie" /\ child' = "reaped"
  /\ UNCHANGED <<supervisor, kin, sigterm, written, pipe, pump, evidence, closed>>

-----------------------------------------------------------------------------
(* The pumps                                                               *)

\* lines of a chunk before the first one whose record cannot be encoded
Readable(chunk) ==
  {i \in 1..Len(chunk) : \A j \in 1..i : chunk[j] # "unencodable"}

CountOf(lines, kind) == Cardinality({i \in DOMAIN lines : lines[i] = kind})

\* mutant: decode first, and write what could be decoded
RawAfterDecoding(s, chunk) == raw[s] \o SubSeq(chunk, 1, Cardinality(Readable(chunk)))

RawAfter(s, chunk) == raw[s] \o chunk

ChunkOffset(s, n) == Len(raw[s])

\* mutant: every event carries the offset of its chunk
EventOffsetOfChunk(offset, i) == offset

EventOffset(offset, i) == offset + i - 1

\* mutant: the flag tells of the last event only
SeenLast(lines) ==
  IF lines = <<>> THEN terminalSeen ELSE lines[Len(lines)] = "terminal"

SeenTerminal(lines) == terminalSeen \/ CountOf(lines, "terminal") > 0

\* raw.write, the stream.chunk record, then (stdout only) one event per line.  When append
\* cannot encode a record both sequence numbers are already spent and the pump dies.
PumpReads(s) ==
  /\ pump[s] = "running"
  /\ \E n \in 1..Len(pipe[s]) :
       LET chunk   == SubSeq(pipe[s], 1, n)
           offset  == ChunkOffset(s, n)
           events  == IF s = "stdout" THEN Cardinality(Readable(chunk)) ELSE 0
           broken  == s = "stdout" /\ events < n
           seen    == SubSeq(chunk, 1, events)
       IN  /\ pipe' = [pipe EXCEPT ![s] = SubSeq(@, n + 1, Len(@))]
           /\ raw' = [raw EXCEPT ![s] = RawAfter(s, chunk)]
           /\ transcript' = transcript
                \o <<Record("chunk", s, arrivalSeq + 1, 0, offset, n)>>
                \o [i \in 1..events |->
                      Record("event", s, arrivalSeq + 1 + i, eventSeq + i, EventOffset(offset, i), 1)]
           /\ arrivalSeq' = arrivalSeq + 1 + events + (IF broken THEN 1 ELSE 0)
           /\ eventSeq' = eventSeq + events + (IF broken THEN 1 ELSE 0)
           /\ terminalSeen' = SeenTerminal(seen)
           /\ parseErrors' = parseErrors + CountOf(seen, "bad")
           /\ pump' = [pump EXCEPT ![s] = IF broken THEN "dead" ELSE @]
  /\ UNCHANGED <<supervisor, agent, closed>>

PumpEnds(s) ==
  /\ pump[s] = "running" /\ pipe[s] = <<>> /\ ~Writer
  /\ pump' = [pump EXCEPT ![s] = "done"]
  /\ UNCHANGED <<supervisor, agent, pipe, evidence, closed>>

-----------------------------------------------------------------------------
(* The supervisor                                                          *)

Started ==
  /\ Append1("process.started")
  /\ pump' = [s \in Streams |-> "running"]
  /\ sup' = "waiting"
  /\ UNCHANGED <<raw, eventSeq, terminalSeen, parseErrors>>

Spawn ==
  /\ sup = "spawn"
  /\ child' = "running"
  /\ IF launch.stdin THEN sup' = "stdin" /\ UNCHANGED <<pump, evidence>> ELSE Started
  /\ UNCHANGED <<raising, timedOut, killStage, cancels, instant, launch, kin, sigterm, written, pipe, closed>>

SpawnFails ==
  /\ sup = "spawn" /\ "unspawnable" \in Behaviours
  /\ sup' = "raised" /\ raising' = "error"
  /\ UNCHANGED <<timedOut, killStage, cancels, instant, launch, agent, pipe, pump, evidence, closed>>

\* stdin.drain(): the prompt fits the pipe or the agent has read it
Drained ==
  /\ sup = "stdin"
  /\ Started
  /\ UNCHANGED <<raising, timedOut, killStage, cancels, instant, launch, agent, pipe, closed>>

\* a broken pipe, before the pumps and the try block exist: the agent is gone, or has closed
\* its stdin and is left running
DrainFails ==
  /\ sup = "stdin" /\ (child # "running" \/ "closes_stdin" \in Behaviours)
  /\ sup' = "raised" /\ raising' = "error"
  /\ UNCHANGED <<timedOut, killStage, cancels, instant, launch, agent, pipe, pump, evidence, closed>>

\* a pump has died and nobody empties its full buffer: its transport stops reading
Full == \E s \in Streams : pump[s] = "dead" /\ Len(pipe[s]) >= PipeCap

\* both transports have seen the end of their pipe
Disconnected == ~Writer /\ ~Full

WaitReturns ==
  /\ sup \in Waiting /\ child = "reaped"
  /\ launch.eofWait /\ ~instant => Disconnected
  /\ sup' = "joining"
  /\ raising' = IF sup = "cancelling" THEN "cancel" ELSE raising
  /\ UNCHANGED <<timedOut, killStage, cancels, instant, launch, agent, pipe, pump, evidence, closed>>

\* killpg on a group whose last member has just been reaped raises ProcessLookupError
Timeout ==
  /\ sup = "waiting"
  /\ timedOut' = TRUE /\ killStage' = "term"
  /\ instant' = (child = "reaped")
  /\ IF GroupExists
     THEN sigterm' = TRUE /\ sup' = "grace" /\ UNCHANGED raising
     ELSE sup' = "joining" /\ raising' = "error" /\ UNCHANGED sigterm
  /\ UNCHANGED <<cancels, launch, child, kin, written, pipe, pump, evidence, closed>>

\* mutant: the second signal is another SIGTERM
GraceExpiresGently ==
  /\ sup = "grace"
  /\ killStage' = "kill" /\ instant' = (child = "reaped")
  /\ IF GroupExists THEN sup' = "killed" /\ UNCHANGED raising
     ELSE sup' = "joining" /\ raising' = "error"
  /\ UNCHANGED <<timedOut, cancels, launch, child, kin, sigterm, written, pipe, pump, evidence, closed>>

GraceExpires ==
  /\ sup = "grace"
  /\ killStage' = "kill"
  /\ instant' = (child = "reaped")
  /\ IF GroupExists
     THEN /\ sup' = "killed" /\ UNCHANGED raising
          /\ child' = IF child = "running" THEN "zombie" ELSE child
          /\ kin' = IF kin = "group" THEN "gone" ELSE kin
     ELSE sup' = "joining" /\ raising' = "error" /\ UNCHANGED <<child, kin>>
  /\ UNCHANGED <<timedOut, cancels, launch, sigterm, written, pipe, pump, evidence, closed>>

\* the first cancellation of the wait terminates the group; at any other await it is just
\* an exception, and in the join it cancels both pumps
Cancel ==
  /\ cancels < MaxCancels /\ cancels' = cancels + 1
  /\ \/ /\ sup = "stdin"
        /\ sup' = "raised" /\ raising' = "cancel"
        /\ UNCHANGED <<killStage, sigterm, pump>>
     \/ /\ sup = "waiting" /\ killStage' = "cancel"
        /\ IF child = "reaped"
           THEN sup' = "joining" /\ raising' = "cancel" /\ UNCHANGED sigterm
           ELSE sup' = "cancelling" /\ sigterm' = TRUE /\ UNCHANGED raising
        /\ UNCHANGED pump
     \/ /\ sup \in {"grace", "killed", "cancelling"}
        /\ sup' = "joining" /\ raising' = "cancel"
        /\ UNCHANGED <<killStage, sigterm, pump>>
     \/ /\ sup = "joining"
        /\ sup' = "raised" /\ raising' = "cancel"
        /\ pump' = [s \in Streams |-> IF pump[s] = "running" THEN "dead" ELSE pump[s]]
        /\ UNCHANGED <<killStage, sigterm>>
  /\ UNCHANGED <<timedOut, instant, launch, child, kin, written, pipe, evidence, closed>>

\* mutant: the pumps are not awaited
JoinedEarly ==
  /\ sup = "joining"
  /\ Append1("process.finished")
  /\ closed' = TRUE
  /\ sup' = IF raising = "none" THEN "returned" ELSE "raised"
  /\ UNCHANGED <<raising, timedOut, killStage, cancels, instant, launch, agent, pipe, pump,
                 raw, eventSeq, terminalSeen, parseErrors>>

\* gather(stdout_task, stderr_task), process.finished, transcript.close()
Joined ==
  /\ sup = "joining" /\ \A s \in Streams : pump[s] = "done"
  /\ Append1("process.finished")
  /\ closed' = TRUE
  /\ sup' = IF raising = "none" THEN "returned" ELSE "raised"
  /\ UNCHANGED <<raising, timedOut, killStage, cancels, instant, launch, agent, pipe, pump,
                 raw, eventSeq, terminalSeen, parseErrors>>

\* gather raises the first pump's exception and leaves the other pump running
JoinFails ==
  /\ sup = "joining" /\ \E s \in Streams : pump[s] = "dead"
  /\ sup' = "raised" /\ raising' = "error"
  /\ UNCHANGED <<timedOut, killStage, cancels, instant, launch, agent, pipe, pump, evidence, closed>>

\* the end of asyncio.run cancels a pump that is still reading for a call that raised
LoopEnds ==
  /\ sup = "raised" /\ \E s \in Streams : pump[s] = "running"
  /\ pump' = [s \in Streams |-> IF pump[s] = "running" THEN "dead" ELSE pump[s]]
  /\ UNCHANGED <<supervisor, agent, pipe, evidence, closed>>

\* mutant: an adapter without terminal kinds never sees the end of its protocol
ProcessResultStrict ==
  [timed_out |-> timedOut, kill_stage |-> killStage, terminal_seen |-> terminalSeen,
   parse_errors |-> parseErrors, event_count |-> eventSeq]

\* what a call that returned has handed to the engine; nothing below changes after it
ProcessResult ==
  [timed_out |-> timedOut, kill_stage |-> killStage,
   terminal_seen |-> terminalSeen \/ ~launch.terminal,
   parse_errors |-> parseErrors, event_count |-> eventSeq]

-----------------------------------------------------------------------------
Clogged == launch.eofWait /\ Full

\* the call is over, or its last wait(), which has no timer, will not be released
Over ==
  /\ sup \in Final \/ (sup \in {"killed", "cancelling"} /\ child = "reaped" /\ Clogged)
  /\ UNCHANGED vars

Agent == (\E s \in Streams : \E k \in Lines(s) : AgentWrites(s, k)) \/ Fork \/ KinExits \/ LeaderExits

Supervise == Spawn \/ SpawnFails \/ Drained \/ DrainFails \/ WaitReturns \/ Joined \/ JoinFails

Timers == Timeout \/ GraceExpires

Next ==
  \/ Agent \/ Reap \/ Supervise \/ Timers \/ Cancel \/ LoopEnds \/ Over
  \/ \E s \in Streams : PumpReads(s) \/ PumpEnds(s)

Spec == Init /\ [][Next]_vars

\* an agent that handles SIGTERM ends after it; nothing else makes an agent stop
DiesOfTerm == sigterm /\ "ignores_term" \notin Behaviours /\ LeaderExits
KinDiesOfTerm == sigterm /\ "ignores_term" \notin Behaviours /\ kin = "group" /\ KinExits

\* the event loop runs ready callbacks and expired timers; an agent that reads its stdin
\* lets drain() return
FairSpec ==
  /\ Spec
  /\ WF_vars(Reap) /\ WF_vars(DiesOfTerm) /\ WF_vars(KinDiesOfTerm)
  /\ WF_vars(Spawn) /\ WF_vars("deaf" \notin Behaviours /\ Drained)
  /\ WF_vars(WaitReturns) /\ WF_vars(Joined) /\ WF_vars(JoinFails)
  /\ WF_vars(Timeout) /\ WF_vars(GraceExpires)
  /\ \A s \in Streams : WF_vars(PumpReads(s)) /\ WF_vars(PumpEnds(s))

-----------------------------------------------------------------------------
(* Properties                                                              *)

IsPrefixOf(short, long) ==
  Len(short) <= Len(long) /\ \A i \in 1..Len(short) : short[i] = long[i]

\* The raw files hold what the agent wrote, in its order and up to a point.  A pump that came
\* to its end has copied all of it.  One that did not was killed by a line it could not record,
\* which is in the raw file, or belongs to a call that has already raised; and none was started
\* only when spawning or feeding stdin failed (recorder.py 84-94, 114-141, 219-222).  What is
\* missing then is missing for good, against docs/how-it-works.md:31 and
\* docs/architecture/design-principles.md:27, which promise the full raw bytes.
LossHasItsReason ==
  \A s \in Streams :
    /\ IsPrefixOf(raw[s], written[s])
    /\ pump[s] = "done" => raw[s] = written[s]
    /\ pump[s] = "dead" =>
         \/ sup = "raised"
         \/ s = "stdout" /\ \E i \in 1..Len(raw[s]) : raw[s][i] = "unencodable"
    /\ pump[s] = "none" /\ sup = "raised" => child = "unborn" \/ launch.stdin

\* record_process returns a result only when every pipe has been read to its end and no
\* process that could still write to them is left (recorder.py 192-239).
ReturnIsComplete ==
  sup = "returned" => /\ child = "reaped" /\ kin \in {"none", "gone"}
                      /\ raw = written /\ closed

Events == {i \in DOMAIN transcript : transcript[i].type = "event"}
Chunks(s) == {i \in DOMAIN transcript : transcript[i].type = "chunk" /\ transcript[i].source = s}

\* A transcript that was closed numbers its records and its events without a gap, starts with
\* process.started and ends with the only process.finished.
ClosedTranscriptIsDense ==
  closed =>
    /\ \A i \in DOMAIN transcript : transcript[i].arrival = i
    /\ \A i \in Events :
         transcript[i].seq = Cardinality({j \in Events : j <= i})
    /\ transcript[1].type = "process.started"
    /\ \A i \in DOMAIN transcript :
         (transcript[i].type = "process.finished") <=> (i = Len(transcript))

ChunksTileRaw ==
  \A s \in Streams :
    /\ \A i \in Chunks(s) :
         transcript[i].offset = 0 \/
         \E j \in Chunks(s) : j < i /\ transcript[j].offset + transcript[j].length = transcript[i].offset
    /\ \A n \in 1..Len(raw[s]) :
         Cardinality({i \in Chunks(s) : transcript[i].offset < n
                                       /\ n <= transcript[i].offset + transcript[i].length}) = 1

EventsFollowTheirBytes ==
  \A i \in Events :
    /\ \E j \in Chunks("stdout") :
         /\ j < i /\ transcript[j].offset <= transcript[i].offset
         /\ transcript[i].offset + transcript[i].length <= transcript[j].offset + transcript[j].length
    /\ \A j \in Events : transcript[j].offset = transcript[i].offset => j = i

\* The chunk records of a stream cover its raw file without gap or overlap, at any time; an
\* event describes bytes that a chunk record before it has already accounted for ("raw first,
\* then decode"), and no line becomes two events (recorder.py 114-141).
TranscriptFollowsRaw == ChunksTileRaw /\ EventsFollowTheirBytes

\* A returned result tells what happened: one event per printed line, parse_errors the
\* undecodable ones, terminal_seen iff a terminal event was among them or the launch has no
\* terminal kinds, and timed_out exactly when the ladder sent a signal (recorder.py 229-239).
ResultMatchesOutput ==
  sup = "returned" =>
    /\ ProcessResult.timed_out <=> sigterm
    /\ ProcessResult.timed_out <=> (ProcessResult.kill_stage \in {"term", "kill"})
    /\ ProcessResult.event_count = Len(written["stdout"]) /\ Cardinality(Events) = Len(written["stdout"])
    /\ ProcessResult.parse_errors = CountOf(written["stdout"], "bad")
    /\ ProcessResult.terminal_seen <=> (launch.terminal => CountOf(written["stdout"], "terminal") > 0)

\* An attempt that is neither cancelled nor tied by its pipes to a descendant ends, also when
\* its leader ignores SIGTERM, forks and dies, prints what cannot be encoded, or exits in the
\* middle of the ladder (recorder.py 191-222); whenever the descendants are gone it ends.  On
\* Python releases where wait() needs the end of the pipes there is one exception: a line that
\* cannot be encoded kills the pump, what follows fills the buffer, and wait() never returns.
SupervisionEnds ==
  (sup \in Waiting \cup {"joining"}) ~>
    (sup \in Final \/ kin \in {"group", "escaped"} \/ cancels > 0 \/ Clogged)

-----------------------------------------------------------------------------
(* What the documents say and the code does not do                         *)

\* docs/how-it-works.md:27 - a timeout terminates the process group and kills it after the
\* grace period, so an attempt that is supervised ends.
EveryAttemptEnds == (sup = "waiting") ~> (sup \in Final)
==============================================================================
