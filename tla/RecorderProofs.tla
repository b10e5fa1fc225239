---------------------------- MODULE RecorderProofs ----------------------------
(***************************************************************************)
(* What record_process leaves behind, for every set of lines and every     *)
(* behaviour of the agent, every interleaving of the agent, the two pumps, *)
(* the timers and the cancellations, and any number of lines.              *)
(*                                                                         *)
(*   Copied      the raw files and the pipes hold what was written         *)
(*   Reasoned    why a pump is dead, or was never started                  *)
(*   Supervised  what the supervisor knows where: a wait that ended well   *)
(*               has seen the leader reaped, a timeout that did not fail   *)
(*               has sent its signal                                       *)
(*   Ended       a pump is done only when nobody can write to its pipe     *)
(*   Framed      the transcript begins with process.started and only a     *)
(*               closed one ends with process.finished                     *)
(*   Tiled       the chunk records partition the raw file                  *)
(*   Backed      an event lies in a chunk recorded before it               *)
(*   Counted     while no pump is dead, the counters tell of every record  *)
(*               and of every line of stdout.raw                           *)
(***************************************************************************)
EXTENDS Recorder, FiniteSetTheorems, SequenceTheorems, TLAPS

USE LineKindsAssumption, BehavioursAssumption, LaunchesAssumption, BoundsAssumption

Text == AllLineKinds \cup {"text"}

Entry == [type : {"process.started", "chunk", "event", "process.finished"},
          source : Streams \cup {"none"},
          arrival : Nat, seq : Nat, offset : Nat, length : Nat]

RecordType ==
  /\ launch \in AllLaunches
  /\ sup \in {"spawn", "stdin", "joining"} \cup Waiting \cup Final
  /\ raising \in {"none", "cancel", "error"}
  /\ timedOut \in BOOLEAN /\ sigterm \in BOOLEAN /\ closed \in BOOLEAN
  /\ killStage \in {"none", "term", "kill", "cancel"}
  /\ child \in {"unborn", "running", "zombie", "reaped"}
  /\ kin \in {"none", "group", "escaped", "gone"}
  /\ pump \in [Streams -> {"none", "running", "done", "dead"}]
  /\ pipe \in [Streams -> Seq(Text)]
  /\ raw \in [Streams -> Seq(Text)]
  /\ written \in [Streams -> Seq(Text)]
  /\ transcript \in Seq(Entry)
  /\ arrivalSeq \in Nat /\ eventSeq \in Nat /\ parseErrors \in Nat
  /\ terminalSeen \in BOOLEAN

Copied == \A s \in Streams : raw[s] \o pipe[s] = written[s]

HasUnencodable(lines) == \E i \in 1..Len(lines) : lines[i] = "unencodable"

Reasoned ==
  /\ sup = "stdin" => launch.stdin
  /\ \A s \in Streams :
       /\ pump[s] = "dead" => sup = "raised" \/ (s = "stdout" /\ HasUnencodable(raw[s]))
       /\ pump[s] = "none" =>
            sup \in {"spawn", "stdin"} \/ (sup = "raised" /\ (child = "unborn" \/ launch.stdin))

Supervised ==
  /\ sup \in {"spawn", "stdin"} =>
       /\ transcript = <<>> /\ ~closed /\ arrivalSeq = 0 /\ eventSeq = 0
       /\ parseErrors = 0 /\ ~terminalSeen
       /\ \A s \in Streams : pump[s] = "none" /\ raw[s] = <<>>
  /\ sup = "spawn" => child = "unborn"
  /\ sup = "stdin" => child # "unborn"
  /\ sup \in {"spawn", "stdin", "waiting"} => ~timedOut /\ ~sigterm /\ killStage = "none"
  /\ sup \in {"spawn", "stdin", "cancelling"} \cup Waiting => raising = "none"
  /\ sup \in {"grace", "killed"} => timedOut /\ sigterm /\ killStage \in {"term", "kill"}
  /\ sup \in {"joining", "returned"} /\ raising = "none" =>
       /\ child = "reaped"
       /\ timedOut <=> sigterm
       /\ timedOut <=> (killStage \in {"term", "kill"})
  /\ sup = "returned" => closed /\ raising = "none"

Ended ==
  /\ child = "unborn" => kin = "none"
  /\ \A s \in Streams :
       /\ pump[s] # "none" => child # "unborn"
       /\ pump[s] = "done" => pipe[s] = <<>> /\ ~Writer
  /\ closed => sup \in Final /\ \A s \in Streams : pump[s] = "done"

Framed ==
  /\ \A s \in Streams : pump[s] # "none" => transcript # <<>>
  /\ transcript # <<>> => transcript[1].type = "process.started"
  /\ closed => transcript # <<>>
  /\ \A i \in 1..Len(transcript) :
       (transcript[i].type = "process.finished") <=> (closed /\ i = Len(transcript))

End(i) == transcript[i].offset + transcript[i].length
Covers(i, n) == transcript[i].offset < n /\ n <= End(i)

Tiled ==
  \A s \in Streams :
    /\ \A i \in Chunks(s) : End(i) <= Len(raw[s])
    /\ Len(raw[s]) > 0 => \E i \in Chunks(s) : End(i) = Len(raw[s])
    /\ \A i \in Chunks(s) :
         transcript[i].offset = 0 \/ \E j \in Chunks(s) : j < i /\ End(j) = transcript[i].offset
    /\ \A n \in 1..Len(raw[s]) : \E i \in Chunks(s) : Covers(i, n)
    /\ \A n \in 1..Len(raw[s]) : \A i, j \in Chunks(s) : Covers(i, n) /\ Covers(j, n) => i = j

Backed ==
  /\ \A i \in Events : End(i) <= Len(raw["stdout"]) /\ transcript[i].length = 1
  /\ EventsFollowTheirBytes

NoneDead == \A s \in Streams : pump[s] # "dead"

Counted ==
  NoneDead =>
    /\ arrivalSeq = Len(transcript)
    /\ \A i \in 1..Len(transcript) : transcript[i].arrival = i
    /\ eventSeq = Cardinality(Events)
    /\ \A i \in Events : transcript[i].seq = Cardinality({j \in Events : j <= i})
    /\ Cardinality(Events) = Len(raw["stdout"])
    /\ parseErrors = CountOf(raw["stdout"], "bad")
    /\ terminalSeen <=> (CountOf(raw["stdout"], "terminal") > 0)

RecordInv ==
  RecordType /\ Copied /\ Reasoned /\ Supervised /\ Ended /\ Framed /\ Tiled /\ Backed /\ Counted

-----------------------------------------------------------------------------
(* Sequences, element by element                                           *)

LEMMA FunctionIsSequence ==
  ASSUME NEW S, NEW e \in Nat, NEW f \in [1..e -> S]
  PROVE  f \in Seq(S) /\ Len(f) = e
<1>1. f \in Seq(S)
  BY SeqDef
<1>2. Len(f) \in Nat /\ DOMAIN f = 1..Len(f)
  BY <1>1, LenProperties
<1>3. 1..e = 1..Len(f)
  BY <1>2
<1> QED
  BY <1>1, <1>2, <1>3

LEMMA ConcatElements ==
  ASSUME NEW S, NEW s \in Seq(S), NEW t \in Seq(S)
  PROVE  /\ s \o t \in Seq(S) /\ Len(s \o t) = Len(s) + Len(t)
         /\ Len(s) \in Nat /\ Len(t) \in Nat
         /\ \A i \in 1..Len(s) : (s \o t)[i] = s[i]
         /\ \A k \in 1..Len(t) : (s \o t)[Len(s) + k] = t[k]
<1>1. Len(s) \in Nat /\ Len(t) \in Nat
  BY LenProperties
<1>2. /\ s \o t \in Seq(S) /\ Len(s \o t) = Len(s) + Len(t)
      /\ \A i \in 1..Len(s) + Len(t) : (s \o t)[i] = IF i <= Len(s) THEN s[i] ELSE t[i - Len(s)]
  BY ConcatProperties
<1>3. \A i \in 1..Len(s) : (s \o t)[i] = s[i]
  BY <1>1, <1>2
<1>4. ASSUME NEW k \in 1..Len(t) PROVE (s \o t)[Len(s) + k] = t[k]
  <2>1. Len(s) + k \in 1..Len(s) + Len(t) /\ ~(Len(s) + k <= Len(s)) /\ Len(s) + k - Len(s) = k
    BY <1>1
  <2> QED
    BY <1>2, <2>1
<1> QED
  BY <1>1, <1>2, <1>3, <1>4

LEMMA ConcatLines ==
  \A s, t \in Seq(Text) :
    /\ Len(s \o t) = Len(s) + Len(t) /\ Len(s) \in Nat /\ Len(t) \in Nat
    /\ \A i \in 1..Len(s) : (s \o t)[i] = s[i]
    /\ \A i \in 1..Len(t) : (s \o t)[Len(s) + i] = t[i]
BY ConcatElements

LEMMA PrefixOfConcat == \A a, b \in Seq(Text) : IsPrefixOf(a, a \o b)
<1> SUFFICES ASSUME NEW a \in Seq(Text), NEW b \in Seq(Text) PROVE IsPrefixOf(a, a \o b)
  OBVIOUS
<1>1. /\ Len(a \o b) = Len(a) + Len(b) /\ Len(a) \in Nat /\ Len(b) \in Nat
      /\ \A i \in 1..Len(a) : (a \o b)[i] = a[i]
  BY ConcatLines
<1>2. Len(a) <= Len(a \o b)
  BY <1>1
<1> QED BY <1>1, <1>2 DEF IsPrefixOf

(* Taking n elements from the front loses nothing.                         *)
LEMMA FrontAndRest ==
  ASSUME NEW S, NEW t \in Seq(S), NEW n \in 1..Len(t)
  PROVE  /\ SubSeq(t, 1, n) \in Seq(S) /\ Len(SubSeq(t, 1, n)) = n
         /\ SubSeq(t, n + 1, Len(t)) \in Seq(S)
         /\ SubSeq(t, 1, n) \o SubSeq(t, n + 1, Len(t)) = t
<1>1. Len(t) \in Nat /\ \A i \in 1..Len(t) : t[i] \in S
  BY LenProperties, ElementOfSeq
<1>2. n \in Int /\ 1 \in Int /\ n + 1 \in Int /\ Len(t) \in Int /\ 1 <= n
  BY <1>1
<1>3. (\A i \in 1..n : t[i] \in S) /\ (\A i \in (n + 1)..Len(t) : t[i] \in S)
  BY <1>1
<1>4. SubSeq(t, 1, n) \in Seq(S) /\ Len(SubSeq(t, 1, n)) = n - 1 + 1
  BY <1>2, <1>3, SubSeqProperties
<1>5. SubSeq(t, n + 1, Len(t)) \in Seq(S)
  BY <1>2, <1>3, SubSeqProperties
<1>6. 1 \in 1..Len(t) + 1 /\ n \in 1 - 1..Len(t) /\ Len(t) \in n..Len(t)
  BY <1>1
<1>7. SubSeq(t, 1, n) \o SubSeq(t, n + 1, Len(t)) = SubSeq(t, 1, Len(t))
  BY <1>6, ConcatAdjacentSubSeq
<1> QED
  BY <1>2, <1>4, <1>5, <1>7, SubSeqFull

-----------------------------------------------------------------------------
(* Counting                                                                *)

LEMMA CountIsNat ==
  ASSUME NEW s \in Seq(Text), NEW k
  PROVE  CountOf(s, k) \in Nat /\ (s = <<>> => CountOf(s, k) = 0)
<1>1. Len(s) \in Nat /\ DOMAIN s = 1..Len(s) /\ (s = <<>> => Len(s) = 0)
  BY LenProperties, EmptySeq
<1>2. IsFiniteSet(1..Len(s))
  BY <1>1, FS_Interval
<1>3. {i \in DOMAIN s : s[i] = k} \in SUBSET (1..Len(s))
  BY <1>1
<1>4. CountOf(s, k) \in Nat
  BY <1>2, <1>3, FS_Subset, FS_CardinalityType DEF CountOf
<1>5. ASSUME s = <<>> PROVE CountOf(s, k) = 0
  <2>1. {i \in DOMAIN s : s[i] = k} = {}
    BY <1>1, <1>5
  <2> QED
    BY <2>1, FS_EmptySet DEF CountOf
<1> QED
  BY <1>4, <1>5

LEMMA CountOfConcat ==
  ASSUME NEW s \in Seq(Text), NEW t \in Seq(Text), NEW k
  PROVE  CountOf(s \o t, k) = CountOf(s, k) + CountOf(t, k)
<1> DEFINE A == {i \in 1..Len(s) : s[i] = k}
           B == {i \in 1..Len(t) : t[i] = k}
           C == {i \in (Len(s) + 1)..(Len(s) + Len(t)) : t[i - Len(s)] = k}
           shift == [i \in B |-> Len(s) + i]
<1>1. /\ Len(s) \in Nat /\ Len(t) \in Nat
      /\ s \o t \in Seq(Text) /\ Len(s \o t) = Len(s) + Len(t)
      /\ \A i \in 1..Len(s) : (s \o t)[i] = s[i]
      /\ \A i \in 1..Len(t) : (s \o t)[Len(s) + i] = t[i]
  BY ConcatElements
<1>2. DOMAIN s = 1..Len(s) /\ DOMAIN t = 1..Len(t) /\ DOMAIN (s \o t) = 1..(Len(s) + Len(t))
  BY <1>1, LenProperties
<1>3. IsFiniteSet(A) /\ IsFiniteSet(B)
  <2>1. IsFiniteSet(1..Len(s)) /\ IsFiniteSet(1..Len(t))
    BY <1>1, FS_Interval
  <2> QED
    BY <2>1, FS_Subset
<1>4. shift \in Bijection(B, C)
  <2>1. \A i \in B : Len(s) + i \in C
    BY <1>1
  <2>2. \A x, y \in B : shift[x] = shift[y] => x = y
    BY <1>1
  <2>3. ASSUME NEW c \in C PROVE \E b \in B : shift[b] = c
    <3>1. c - Len(s) \in B /\ Len(s) + (c - Len(s)) = c
      BY <1>1
    <3> QED
      BY <3>1
  <2> QED
    BY <2>1, <2>2, <2>3 DEF Bijection, Injection, Surjection, IsInjective
<1>5. IsFiniteSet(C) /\ Cardinality(C) = Cardinality(B)
  BY <1>3, <1>4, FS_Bijection DEF ExistsBijection
<1>6. {i \in DOMAIN (s \o t) : (s \o t)[i] = k} = A \cup C
  <2>1. ASSUME NEW i \in (Len(s) + 1)..(Len(s) + Len(t)) PROVE (s \o t)[i] = t[i - Len(s)]
    <3>1. i - Len(s) \in 1..Len(t) /\ Len(s) + (i - Len(s)) = i
      BY <1>1
    <3> QED
      BY <1>1, <3>1
  <2>2. 1..(Len(s) + Len(t)) = 1..Len(s) \cup (Len(s) + 1)..(Len(s) + Len(t))
    BY <1>1
  <2> QED
    BY <1>1, <1>2, <2>1, <2>2
<1>7. A \cap C = {}
  BY <1>1
<1>8. Cardinality(A) \in Nat /\ Cardinality(B) \in Nat /\ Cardinality(A \cap C) = 0
  BY <1>3, <1>7, FS_CardinalityType, FS_EmptySet
<1>9. Cardinality(A \cup C) = Cardinality(A) + Cardinality(C) - Cardinality(A \cap C)
  BY <1>3, <1>5, FS_Union
<1>10. CountOf(s, k) = Cardinality(A) /\ CountOf(t, k) = Cardinality(B)
       /\ CountOf(s \o t, k) = Cardinality(A \cup C)
  BY <1>2, <1>6 DEF CountOf
<1> HIDE DEF A, B, C
<1> QED
  BY <1>5, <1>8, <1>9, <1>10

-----------------------------------------------------------------------------
(* What one step does to the transcript                                    *)

(* Every step of the recorder writes nothing, a marker, or a chunk record  *)
(* with e events behind it.                                                *)
Quiet ==
  /\ UNCHANGED <<evidence, closed>>
  /\ \A s \in Streams :
       /\ pump[s] = "dead" => pump'[s] = "dead"
       /\ pump'[s] # "none" => pump[s] # "none"

Marked(type) ==
  /\ transcript' = Append(transcript, Record(type, "none", arrivalSeq + 1, 0, 0, 0))
  /\ arrivalSeq' = arrivalSeq + 1
  /\ UNCHANGED <<raw, eventSeq, terminalSeen, parseErrors>>

Begins ==
  /\ sup \in {"spawn", "stdin"} /\ Marked("process.started")
  /\ pump' = [s \in Streams |-> "running"] /\ UNCHANGED closed

Finishes ==
  /\ sup = "joining" /\ Marked("process.finished")
  /\ \A s \in Streams : pump[s] = "done"
  /\ UNCHANGED pump /\ closed' = TRUE

Pumped(s, n, e) ==
  /\ pump[s] = "running"
  /\ pump' \in {pump, [pump EXCEPT ![s] = "dead"]}
  /\ s = "stderr" => e = 0
  /\ pipe' = [pipe EXCEPT ![s] = SubSeq(pipe[s], n + 1, Len(pipe[s]))]
  /\ raw' = [raw EXCEPT ![s] = raw[s] \o SubSeq(pipe[s], 1, n)]
  /\ transcript' \in Seq(Entry)
  /\ Len(transcript') = Len(transcript) + 1 + e
  /\ \A i \in 1..Len(transcript) : transcript'[i] = transcript[i]
  /\ transcript'[Len(transcript) + 1] = Record("chunk", s, arrivalSeq + 1, 0, Len(raw[s]), n)
  /\ \A i \in 1..e :
       transcript'[Len(transcript) + 1 + i] =
         Record("event", s, arrivalSeq + 1 + i, eventSeq + i, Len(raw[s]) + i - 1, 1)
  /\ arrivalSeq' \in Nat /\ eventSeq' \in Nat /\ parseErrors' \in Nat /\ terminalSeen' \in BOOLEAN
  /\ UNCHANGED <<supervisor, agent, closed>>

(* As long as the pump survives, every line of stdout has become an event. *)
Survived(s, n, e) ==
  LET chunk == SubSeq(pipe[s], 1, n)
  IN  /\ s = "stdout" => e = n
      /\ arrivalSeq' = arrivalSeq + 1 + e
      /\ eventSeq' = eventSeq + e
      /\ s = "stdout" =>
           /\ parseErrors' = parseErrors + CountOf(chunk, "bad")
           /\ terminalSeen' <=> (terminalSeen \/ CountOf(chunk, "terminal") > 0)
      /\ s = "stderr" => parseErrors' = parseErrors /\ (terminalSeen' <=> terminalSeen)

LEMMA Fields ==
  \A type, source, arrival, seq, offset, length :
    LET r == Record(type, source, arrival, seq, offset, length)
    IN  /\ r.type = type /\ r.source = source /\ r.arrival = arrival
        /\ r.seq = seq /\ r.offset = offset /\ r.length = length
BY DEF Record

LEMMA PumpReadsIsPumped ==
  ASSUME RecordType, NEW s \in Streams, PumpReads(s)
  PROVE  \E n \in 1..Len(pipe[s]) : \E e \in 0..n :
           Pumped(s, n, e) /\ (pump'[s] # "dead" => Survived(s, n, e))
<1>0. /\ pipe[s] \in Seq(Text) /\ raw[s] \in Seq(Text) /\ Len(pipe[s]) \in Nat /\ Len(raw[s]) \in Nat
      /\ transcript \in Seq(Entry) /\ Len(transcript) \in Nat
      /\ arrivalSeq \in Nat /\ eventSeq \in Nat /\ parseErrors \in Nat /\ terminalSeen \in BOOLEAN
  <2>1. pipe[s] \in Seq(Text) /\ raw[s] \in Seq(Text) /\ transcript \in Seq(Entry)
    BY DEF RecordType
  <2> QED
    BY <2>1, LenProperties DEF RecordType
<1>1. PICK n \in 1..Len(pipe[s]) :
        LET chunk   == SubSeq(pipe[s], 1, n)
            offset  == ChunkOffset(s, n)
            events  == IF s = "stdout" THEN Cardinality(Readable(chunk)) ELSE 0
            broken  == s = "stdout" /\ events < n
            seen    == SubSeq(chunk, 1, events)
        IN  /\ pipe' = [pipe EXCEPT ![s] = SubSeq(@, n + 1, Len(@))]
            /\ raw' = [raw EXCEPT ![s] = RawAfter(s, chunk)]
            /\ transcript' = transcript
                 \o <<Record("chunk", s, arrivalSeq + 1, 0, offset, n)>>
                 \o [i \in 1..events |->
                       Record("event", s, arrivalSeq + 1 + i, eventSeq + i, EventOffset(offset, i), 1)]
            /\ arrivalSeq' = arrivalSeq + 1 + events + (IF broken THEN 1 ELSE 0)
            /\ eventSeq' = eventSeq + events + (IF broken THEN 1 ELSE 0)
            /\ terminalSeen' = SeenTerminal(seen)
            /\ parseErrors' = parseErrors + CountOf(seen, "bad")
            /\ pump' = [pump EXCEPT ![s] = IF broken THEN "dead" ELSE @]
  BY DEF PumpReads
<1> DEFINE chunk == SubSeq(pipe[s], 1, n)
           e     == IF s = "stdout" THEN Cardinality(Readable(chunk)) ELSE 0
           broken == s = "stdout" /\ e < n
           seen   == SubSeq(chunk, 1, e)
           first  == Record("chunk", s, arrivalSeq + 1, 0, Len(raw[s]), n)
           events == [i \in 1..e |-> Record("event", s, arrivalSeq + 1 + i, eventSeq + i,
                                            Len(raw[s]) + i - 1, 1)]
<1>2. /\ pipe' = [pipe EXCEPT ![s] = SubSeq(pipe[s], n + 1, Len(pipe[s]))]
      /\ raw' = [raw EXCEPT ![s] = raw[s] \o chunk]
      /\ transcript' = transcript \o <<first>> \o events
      /\ arrivalSeq' = arrivalSeq + 1 + e + (IF broken THEN 1 ELSE 0)
      /\ eventSeq' = eventSeq + e + (IF broken THEN 1 ELSE 0)
      /\ terminalSeen' = SeenTerminal(seen)
      /\ parseErrors' = parseErrors + CountOf(seen, "bad")
      /\ pump' = [pump EXCEPT ![s] = IF broken THEN "dead" ELSE pump[s]]
  BY <1>0, <1>1 DEF RawAfter, ChunkOffset, EventOffset, RecordType
<1>3. chunk \in Seq(Text) /\ Len(chunk) = n /\ n \in Nat
  BY <1>0, FrontAndRest
<1>4. e \in 0..n
  <2>1. IsFiniteSet(1..n) /\ Cardinality(1..n) = n
    BY <1>3, FS_Interval
  <2>2. Readable(chunk) \in SUBSET (1..n)
    BY <1>3 DEF Readable
  <2>3. Cardinality(Readable(chunk)) \in Nat /\ Cardinality(Readable(chunk)) <= n
    BY <2>1, <2>2, FS_Subset, FS_CardinalityType
  <2> QED
    BY <1>3, <2>3
<1>5. seen \in Seq(Text) /\ (e = n => seen = chunk) /\ (e = 0 => seen = <<>>)
  <2>1. \A i \in 1..e : chunk[i] \in Text
    BY <1>3, <1>4, ElementOfSeq
  <2>2. seen \in Seq(Text)
    BY <1>3, <1>4, <2>1, SubSeqProperties
  <2>3. SubSeq(chunk, 1, n) = chunk
    BY <1>3, SubSeqFull
  <2>4. SubSeq(chunk, 1, 0) = <<>>
    BY SubSeqEmpty
  <2> QED
    BY <2>2, <2>3, <2>4
<1>6. first \in Entry /\ \A i \in 1..e : events[i] \in Entry
  BY <1>0, <1>3, <1>4 DEF Entry, Record
<1> HIDE DEF chunk, e, first, seen
<1>7. events \in Seq(Entry) /\ Len(events) = e
  <2>1. events \in [1..e -> Entry]
    BY <1>6
  <2> HIDE DEF events
  <2> QED
    BY <1>3, <1>4, <2>1, FunctionIsSequence
<1>8. \A i \in 1..e : events[i] = Record("event", s, arrivalSeq + 1 + i, eventSeq + i,
                                         Len(raw[s]) + i - 1, 1)
  OBVIOUS
<1> HIDE DEF events
<1>9. /\ Append(transcript, first) \in Seq(Entry)
      /\ Len(Append(transcript, first)) = Len(transcript) + 1
      /\ \A i \in 1..Len(transcript) : Append(transcript, first)[i] = transcript[i]
      /\ Append(transcript, first)[Len(transcript) + 1] = first
      /\ Append(transcript, first) = transcript \o <<first>>
  BY <1>0, <1>6, AppendProperties, AppendIsConcat
<1>10. transcript' = Append(transcript, first) \o events
  BY <1>2, <1>9
<1> DEFINE begun == Append(transcript, first)
<1>11. /\ transcript' \in Seq(Entry) /\ Len(transcript') = Len(begun) + e
       /\ \A i \in 1..Len(begun) : transcript'[i] = begun[i]
       /\ \A i \in 1..e : transcript'[Len(begun) + i] = events[i]
  <2>1. begun \in Seq(Entry) /\ transcript' = begun \o events
    BY <1>9, <1>10
  <2> HIDE DEF begun
  <2>2. \A a, b \in Seq(Entry) :
          /\ a \o b \in Seq(Entry) /\ Len(a \o b) = Len(a) + Len(b)
          /\ \A i \in 1..Len(a) : (a \o b)[i] = a[i]
          /\ \A i \in 1..Len(b) : (a \o b)[Len(a) + i] = b[i]
    BY ConcatElements
  <2> QED
    BY <1>7, <2>1, <2>2
<1>12. /\ transcript' \in Seq(Entry) /\ Len(transcript') = Len(transcript) + 1 + e
       /\ \A i \in 1..Len(transcript) : transcript'[i] = transcript[i]
       /\ transcript'[Len(transcript) + 1] = first
       /\ \A i \in 1..e : transcript'[Len(transcript) + 1 + i] = events[i]
  <2> HIDE DEF begun
  <2>1. Len(begun) = Len(transcript) + 1 /\ begun[Len(transcript) + 1] = first
        /\ \A i \in 1..Len(transcript) : begun[i] = transcript[i]
    BY <1>9 DEF begun
  <2>2. Len(transcript) + 1 \in 1..Len(begun) /\ \A i \in 1..Len(transcript) : i \in 1..Len(begun)
    BY <1>0, <2>1
  <2> QED
    BY <1>11, <2>1, <2>2
<1>13. CountOf(seen, "bad") \in Nat /\ CountOf(seen, "terminal") \in Nat
       /\ (seen = <<>> => CountOf(seen, "bad") = 0 /\ CountOf(seen, "terminal") = 0)
  BY <1>5, CountIsNat
<1>14. terminalSeen' = (terminalSeen \/ CountOf(seen, "terminal") > 0)
  BY <1>2 DEF SeenTerminal
<1>15. s = "stderr" => e = 0
  BY DEF e
<1>16. Pumped(s, n, e)
  <2>1. pump[s] = "running" /\ UNCHANGED <<supervisor, agent, closed>>
    BY DEF PumpReads
  <2>2. pump' \in {pump, [pump EXCEPT ![s] = "dead"]}
    BY <1>2, <2>1 DEF RecordType
  <2>3. arrivalSeq' \in Nat /\ eventSeq' \in Nat /\ parseErrors' \in Nat /\ terminalSeen' \in BOOLEAN
    BY <1>0, <1>2, <1>3, <1>4, <1>13, <1>14
  <2> QED
    BY <1>2, <1>8, <1>12, <1>15, <2>1, <2>2, <2>3 DEF Pumped, chunk, first
<1>17. ASSUME pump'[s] # "dead" PROVE Survived(s, n, e)
  <2>1. ~broken
    BY <1>2, <1>17 DEF RecordType
  <2>2. s = "stdout" => e = n
    BY <1>3, <1>4, <2>1
  <2>3. arrivalSeq' = arrivalSeq + 1 + e /\ eventSeq' = eventSeq + e
    BY <1>0, <1>2, <1>3, <1>4, <2>1
  <2>4. s = "stdout" => seen = chunk
    BY <1>5, <2>2
  <2>5. s = "stderr" => seen = <<>>
    BY <1>5, <1>15
  <2>6. CASE s = "stdout"
    <3>1. parseErrors' = parseErrors + CountOf(chunk, "bad")
      BY <1>2, <2>4, <2>6
    <3>2. terminalSeen' <=> (terminalSeen \/ CountOf(chunk, "terminal") > 0)
      BY <1>14, <2>4, <2>6
    <3> QED
      BY <2>2, <2>3, <2>6, <3>1, <3>2 DEF Survived, chunk
  <2>7. CASE s = "stderr"
    <3>1. parseErrors' = parseErrors /\ (terminalSeen' <=> terminalSeen)
      BY <1>0, <1>2, <1>13, <1>14, <2>5, <2>7
    <3> QED
      BY <2>3, <2>7, <3>1 DEF Survived
  <2> QED
    BY <2>6, <2>7 DEF Streams
<1> QED
  BY <1>4, <1>16, <1>17

LEMMA StepShape ==
  ASSUME RecordType, [Next]_vars
  PROVE  \/ Quiet \/ Begins \/ Finishes
         \/ \E s \in Streams : \E n \in 1..Len(pipe[s]) : \E e \in 0..n :
              Pumped(s, n, e) /\ (pump'[s] # "dead" => Survived(s, n, e))
<1> USE DEF evidence
<1>1. CASE Agent \/ Reap
  BY <1>1 DEF Agent, AgentWrites, Fork, KinExits, LeaderExits, Reap, Quiet
<1>2. CASE Spawn \/ Drained
  BY <1>2 DEF Spawn, Drained, Started, Append1, Begins, Marked, Quiet
<1>3. CASE SpawnFails \/ DrainFails \/ WaitReturns \/ JoinFails \/ Timers
  BY <1>3 DEF SpawnFails, DrainFails, WaitReturns, JoinFails, Timers, Timeout, GraceExpires, Quiet
<1>4. CASE Joined
  BY <1>4 DEF Joined, Append1, Finishes, Marked
<1>5. CASE Cancel \/ LoopEnds
  BY <1>5 DEF Cancel, LoopEnds, Quiet, RecordType
<1>6. ASSUME NEW s \in Streams, PumpReads(s) PROVE \E n \in 1..Len(pipe[s]) : \E e \in 0..n :
              Pumped(s, n, e) /\ (pump'[s] # "dead" => Survived(s, n, e))
  BY <1>6, PumpReadsIsPumped
<1>7. ASSUME NEW s \in Streams, PumpEnds(s) PROVE Quiet
  BY <1>7 DEF PumpEnds, Quiet, RecordType
<1>8. CASE Over \/ UNCHANGED vars
  BY <1>8 DEF Over, vars, Quiet
<1> QED
  BY <1>1, <1>2, <1>3, <1>4, <1>5, <1>6, <1>7, <1>8 DEF Next, Supervise

-----------------------------------------------------------------------------
(* Types and the initial state                                             *)

LEMMA InitRecord == Init => RecordInv
<1> SUFFICES ASSUME Init PROVE RecordInv
  OBVIOUS
<1>1. \A S : <<>> \in Seq(S) /\ Len(<<>>) = 0 /\ DOMAIN <<>> = 1..0 /\ <<>> \o <<>> = <<>>
  <2>1. ASSUME NEW S PROVE <<>> \in Seq(S) /\ Len(<<>>) = 0
    BY EmptySeq
  <2>2. ASSUME NEW S PROVE DOMAIN <<>> = 1..0 /\ <<>> \o <<>> = <<>>
    BY <2>1, LenProperties, ConcatEmptySeq
  <2> QED
    BY <2>1, <2>2
<1>2. transcript = <<>> /\ Events = {} /\ \A s \in Streams : Chunks(s) = {} /\ raw[s] = <<>>
  BY <1>1 DEF Init, Events, Chunks
<1>3. Cardinality({}) = 0 /\ \A k : CountOf(<<>>, k) = 0
  BY <1>1, FS_EmptySet, CountIsNat
<1>4. RecordType
  BY <1>1 DEF Init, RecordType
<1>5. Copied /\ Reasoned /\ Supervised /\ Ended /\ Framed
  BY <1>1, <1>2 DEF Init, Copied, Reasoned, Supervised, Ended, Framed, Waiting, Final
<1>6. Tiled /\ Backed
  BY <1>1, <1>2 DEF Tiled, Backed, EventsFollowTheirBytes
<1>7. Counted
  BY <1>1, <1>2, <1>3 DEF Init, Counted, Streams
<1> QED
  BY <1>4, <1>5, <1>6, <1>7 DEF RecordInv

LEMMA MarkIsEntry ==
  ASSUME RecordType, NEW type \in {"process.started", "process.finished"}, Marked(type)
  PROVE  /\ transcript' \in Seq(Entry) /\ arrivalSeq' \in Nat
         /\ Len(transcript) \in Nat /\ Len(transcript') = Len(transcript) + 1
         /\ \A i \in 1..Len(transcript) : transcript'[i] = transcript[i]
         /\ transcript'[Len(transcript) + 1] = Record(type, "none", arrivalSeq + 1, 0, 0, 0)
<1>1. Record(type, "none", arrivalSeq + 1, 0, 0, 0) \in Entry
  BY DEF Record, Entry, RecordType
<1>2. transcript \in Seq(Entry)
  BY DEF RecordType
<1> QED
  BY <1>1, <1>2, AppendProperties, LenProperties DEF Marked, RecordType

(* Where the new entries are, and what they say.                           *)
LEMMA PumpedEntries ==
  ASSUME RecordType, NEW s \in Streams, NEW n \in 1..Len(pipe[s]), NEW e \in 0..n, Pumped(s, n, e)
  PROVE  LET l == Len(transcript)
             h == Len(raw[s])
         IN  /\ l \in Nat /\ h \in Nat /\ n \in Nat /\ e \in Nat /\ 1 <= n /\ e <= n
             /\ Len(transcript') = l + 1 + e
             /\ \A i \in 1..l : transcript'[i] = transcript[i]
             /\ transcript'[l + 1].type = "chunk" /\ transcript'[l + 1].source = s
             /\ transcript'[l + 1].arrival = arrivalSeq + 1
             /\ transcript'[l + 1].offset = h /\ transcript'[l + 1].length = n
             /\ \A i \in (l + 2)..(l + 1 + e) :
                  /\ transcript'[i].type = "event"
                  /\ transcript'[i].arrival = arrivalSeq + 1 + (i - (l + 1))
                  /\ transcript'[i].seq = eventSeq + (i - (l + 1))
                  /\ transcript'[i].offset = h + (i - (l + 1)) - 1
                  /\ transcript'[i].length = 1
             /\ Len(raw'[s]) = h + n
             /\ \A r \in Streams : r # s => raw'[r] = raw[r]
             /\ Events' = Events \cup (l + 2)..(l + 1 + e)
             /\ Events \subseteq 1..l
             /\ \A r \in Streams :
                  /\ Chunks(r)' = IF r = s THEN Chunks(r) \cup {l + 1} ELSE Chunks(r)
                  /\ Chunks(r) \subseteq 1..l
<1> DEFINE l == Len(transcript)
           h == Len(raw[s])
<1>1. pipe[s] \in Seq(Text) /\ raw[s] \in Seq(Text) /\ transcript \in Seq(Entry)
  BY DEF RecordType
<1>2. Len(pipe[s]) \in Nat /\ l \in Nat /\ h \in Nat /\ DOMAIN transcript = 1..l
  BY <1>1, LenProperties
<1>3. n \in Nat /\ 1 <= n
  BY <1>2
<1>4. e \in Nat /\ e <= n
  BY <1>3
<1>5. /\ Len(transcript') = l + 1 + e
      /\ \A i \in 1..l : transcript'[i] = transcript[i]
      /\ transcript'[l + 1] = Record("chunk", s, arrivalSeq + 1, 0, h, n)
      /\ \A i \in 1..e :
           transcript'[l + 1 + i] = Record("event", s, arrivalSeq + 1 + i, eventSeq + i, h + i - 1, 1)
  BY DEF Pumped
<1>6. /\ transcript'[l + 1].type = "chunk" /\ transcript'[l + 1].source = s
      /\ transcript'[l + 1].arrival = arrivalSeq + 1
      /\ transcript'[l + 1].offset = h /\ transcript'[l + 1].length = n
  BY <1>5, Fields
<1>7. ASSUME NEW i \in (l + 2)..(l + 1 + e)
      PROVE  /\ transcript'[i].type = "event"
             /\ transcript'[i].arrival = arrivalSeq + 1 + (i - (l + 1))
             /\ transcript'[i].seq = eventSeq + (i - (l + 1))
             /\ transcript'[i].offset = h + (i - (l + 1)) - 1
             /\ transcript'[i].length = 1
  <2> DEFINE k == i - (l + 1)
  <2>1. k \in 1..e /\ l + 1 + k = i
    BY <1>2, <1>4
  <2> HIDE DEF k
  <2>2. transcript'[i] = Record("event", s, arrivalSeq + 1 + k, eventSeq + k, h + k - 1, 1)
    BY <1>5, <2>1
  <2>3. /\ transcript'[i].type = "event" /\ transcript'[i].arrival = arrivalSeq + 1 + k
        /\ transcript'[i].seq = eventSeq + k /\ transcript'[i].offset = h + k - 1
        /\ transcript'[i].length = 1
    BY <2>2, Fields
  <2> QED
    BY <2>3 DEF k
<1>8. Len(raw'[s]) = h + n /\ \A r \in Streams : r # s => raw'[r] = raw[r]
  <2>1. SubSeq(pipe[s], 1, n) \in Seq(Text) /\ Len(SubSeq(pipe[s], 1, n)) = n
    BY <1>1, FrontAndRest
  <2>2. Len(raw[s] \o SubSeq(pipe[s], 1, n)) = h + n
    BY <1>1, <2>1, ConcatProperties
  <2> QED
    BY <2>2 DEF Pumped, RecordType
<1>9. DOMAIN transcript' = 1..(l + 1 + e)
  <2>1. transcript' \in Seq(Entry)
    BY DEF Pumped
  <2> QED
    BY <1>5, <2>1, LenProperties
<1> HIDE DEF l, h
<1>10. 1..(l + 1 + e) = 1..l \cup {l + 1} \cup (l + 2)..(l + 1 + e)
  BY <1>2, <1>4
<1>11. /\ Events = {i \in 1..l : transcript[i].type = "event"}
       /\ Events' = {i \in 1..(l + 1 + e) : transcript'[i].type = "event"}
  BY <1>2, <1>9 DEF Events
<1>12. Events' = Events \cup (l + 2)..(l + 1 + e) /\ Events \subseteq 1..l
  BY <1>5, <1>6, <1>7, <1>10, <1>11
<1>13. ASSUME NEW r \in Streams
       PROVE  /\ Chunks(r)' = IF r = s THEN Chunks(r) \cup {l + 1} ELSE Chunks(r)
              /\ Chunks(r) \subseteq 1..l
  <2>1. Chunks(r) = {i \in 1..l : transcript[i].type = "chunk" /\ transcript[i].source = r}
    BY <1>2 DEF Chunks
  <2>2. Chunks(r)' = {i \in 1..(l + 1 + e) :
                        transcript'[i].type = "chunk" /\ transcript'[i].source = r}
    BY <1>9 DEF Chunks
  <2> QED
    BY <1>5, <1>6, <1>7, <1>10, <2>1, <2>2
<1> QED
  BY <1>2, <1>3, <1>4, <1>5, <1>6, <1>7, <1>8, <1>12, <1>13 DEF l, h

(* A marker is neither an event nor a chunk.                               *)
LEMMA MarkedEntries ==
  ASSUME RecordType, NEW type \in {"process.started", "process.finished"}, Marked(type)
  PROVE  /\ Events' = Events /\ Events \subseteq 1..Len(transcript)
         /\ \A s \in Streams : Chunks(s)' = Chunks(s) /\ Chunks(s) \subseteq 1..Len(transcript)
<1> DEFINE l == Len(transcript)
<1>1. /\ transcript' \in Seq(Entry) /\ l \in Nat /\ Len(transcript') = l + 1
      /\ \A i \in 1..l : transcript'[i] = transcript[i]
      /\ transcript'[l + 1].type = type
  BY MarkIsEntry, Fields
<1>2. DOMAIN transcript = 1..l /\ DOMAIN transcript' = 1..(l + 1)
  <2>1. transcript \in Seq(Entry)
    BY DEF RecordType
  <2> QED
    BY <1>1, <2>1, LenProperties
<1> HIDE DEF l
<1>3. 1..(l + 1) = 1..l \cup {l + 1}
  BY <1>1
<1>4. Events' = Events /\ Events \subseteq 1..l
  BY <1>1, <1>2, <1>3 DEF Events
<1>5. ASSUME NEW s \in Streams PROVE Chunks(s)' = Chunks(s) /\ Chunks(s) \subseteq 1..l
  BY <1>1, <1>2, <1>3 DEF Chunks
<1> QED
  BY <1>4, <1>5 DEF l

LEMMA TypeStep ==
  ASSUME RecordType, [Next]_vars
  PROVE  RecordType'
<1>1. transcript' \in Seq(Entry) /\ arrivalSeq' \in Nat /\ eventSeq' \in Nat /\ parseErrors' \in Nat
      /\ terminalSeen' \in BOOLEAN /\ closed' \in BOOLEAN
  <2>1. CASE Quiet
    BY <2>1 DEF RecordType, Quiet, evidence
  <2>2. CASE Begins
    BY <2>2, MarkIsEntry DEF RecordType, Begins, Marked
  <2>3. CASE Finishes
    BY <2>3, MarkIsEntry DEF RecordType, Finishes, Marked
  <2>4. ASSUME NEW s \in Streams, NEW n \in 1..Len(pipe[s]), NEW e \in 0..n, Pumped(s, n, e)
        PROVE  <1>1
    BY <2>4 DEF RecordType, Pumped
  <2> QED
    BY <2>1, <2>2, <2>3, <2>4, StepShape
<1>2. /\ pipe' \in [Streams -> Seq(Text)] /\ raw' \in [Streams -> Seq(Text)]
      /\ written' \in [Streams -> Seq(Text)]
      /\ pump' \in [Streams -> {"none", "running", "done", "dead"}]
  <2>1. ASSUME NEW s \in Streams, NEW k \in Lines(s), AgentWrites(s, k) PROVE <1>2
    <3>1. k \in Text
      BY DEF Lines, Text, AllLineKinds
    <3>2. Append(pipe[s], k) \in Seq(Text) /\ Append(written[s], k) \in Seq(Text)
      <4>1. pipe[s] \in Seq(Text) /\ written[s] \in Seq(Text)
        BY DEF RecordType
      <4> QED
        BY <3>1, <4>1, AppendProperties
    <3> QED
      BY <2>1, <3>2 DEF AgentWrites, RecordType, evidence
  <2>2. ASSUME NEW s \in Streams, NEW n \in 1..Len(pipe[s]), NEW e \in 0..n, Pumped(s, n, e)
        PROVE  <1>2
    <3>1. pipe[s] \in Seq(Text) /\ raw[s] \in Seq(Text)
      BY DEF RecordType
    <3>2. SubSeq(pipe[s], 1, n) \in Seq(Text) /\ SubSeq(pipe[s], n + 1, Len(pipe[s])) \in Seq(Text)
      BY <3>1, FrontAndRest
    <3>3. raw[s] \o SubSeq(pipe[s], 1, n) \in Seq(Text)
      BY <3>1, <3>2, ConcatProperties
    <3> QED
      BY <2>2, <3>2, <3>3 DEF Pumped, RecordType, agent
  <2>3. CASE Fork \/ KinExits \/ LeaderExits \/ Reap \/ Supervise \/ Timers \/ Over \/ UNCHANGED vars
    BY <2>3 DEF RecordType, Fork, KinExits, LeaderExits, Reap, Supervise, Timers, Over, vars,
                Spawn, SpawnFails, Drained, DrainFails, WaitReturns, Joined, JoinFails, Started,
                Append1, Timeout, GraceExpires, agent, evidence
  <2>4. CASE Cancel \/ LoopEnds
    BY <2>4 DEF RecordType, Cancel, LoopEnds, agent, evidence
  <2>5. ASSUME NEW s \in Streams, PumpEnds(s) PROVE <1>2
    BY <2>5 DEF PumpEnds, RecordType, agent, evidence
  <2>6. ASSUME NEW s \in Streams, PumpReads(s) PROVE <1>2
    BY <2>6, <2>2, PumpReadsIsPumped
  <2> QED
    BY <2>1, <2>3, <2>4, <2>5, <2>6 DEF Next, Agent
<1>3. /\ sup' \in {"spawn", "stdin", "joining"} \cup Waiting \cup Final
      /\ raising' \in {"none", "cancel", "error"}
      /\ timedOut' \in BOOLEAN /\ sigterm' \in BOOLEAN
      /\ killStage' \in {"none", "term", "kill", "cancel"}
      /\ child' \in {"unborn", "running", "zombie", "reaped"}
      /\ kin' \in {"none", "group", "escaped", "gone"}
      /\ launch' \in AllLaunches
  <2> USE DEF RecordType, Waiting, Final
  <2>1. ASSUME NEW s \in Streams, PumpReads(s) \/ PumpEnds(s) \/ \E k \in Lines(s) : AgentWrites(s, k)
        PROVE  <1>3
    BY <2>1 DEF PumpReads, PumpEnds, AgentWrites, supervisor, agent
  <2>2. CASE Fork \/ KinExits \/ LeaderExits \/ Reap \/ Over \/ UNCHANGED vars
    BY <2>2 DEF Fork, KinExits, LeaderExits, Reap, Over, vars, supervisor, agent
  <2>3. CASE Spawn \/ SpawnFails \/ Drained \/ DrainFails
    BY <2>3 DEF Spawn, SpawnFails, Drained, DrainFails, Started, agent
  <2>4. CASE WaitReturns \/ Joined \/ JoinFails
    BY <2>4 DEF WaitReturns, Joined, JoinFails, agent
  <2>5. CASE Timers
    BY <2>5 DEF Timers, Timeout, GraceExpires
  <2>6. CASE Cancel \/ LoopEnds
    BY <2>6 DEF Cancel, LoopEnds, supervisor, agent
  <2> QED
    BY <2>1, <2>2, <2>3, <2>4, <2>5, <2>6 DEF Next, Agent, Supervise
<1> QED
  BY <1>1, <1>2, <1>3 DEF RecordType

-----------------------------------------------------------------------------
(* Copying, supervising, ending                                            *)

LEMMA CopiedStep ==
  ASSUME RecordType, Copied, [Next]_vars
  PROVE  Copied'
<1>0. \A a, b, c \in Seq(Text) : (a \o b) \o c = a \o (b \o c)
  BY ConcatAssociative
<1> USE DEF Copied
<1>1. ASSUME NEW s \in Streams, NEW k \in Lines(s), AgentWrites(s, k) PROVE Copied'
  <2>1. k \in Text
    BY DEF Lines, Text, AllLineKinds
  <2>2. pipe[s] \in Seq(Text) /\ raw[s] \in Seq(Text) /\ <<k>> \in Seq(Text)
        /\ raw[s] \o pipe[s] \in Seq(Text) /\ raw[s] \o pipe[s] = written[s]
    BY <2>1, ConcatProperties DEF RecordType
  <2>3. Append(pipe[s], k) = pipe[s] \o <<k>> /\ Append(written[s], k) = written[s] \o <<k>>
    BY <2>1, <2>2, AppendIsConcat
  <2>4. raw[s] \o (pipe[s] \o <<k>>) = (raw[s] \o pipe[s]) \o <<k>>
    BY <1>0, <2>2
  <2>5. raw[s] \o Append(pipe[s], k) = Append(written[s], k)
    BY <2>2, <2>3, <2>4
  <2> QED
    BY <1>1, <2>5 DEF AgentWrites, RecordType, evidence
<1>2. ASSUME NEW s \in Streams, PumpReads(s) PROVE Copied'
  <2>1. PICK n \in 1..Len(pipe[s]) : \E e \in 0..n : Pumped(s, n, e)
    BY <1>2, PumpReadsIsPumped
  <2> DEFINE chunk == SubSeq(pipe[s], 1, n)
             rest  == SubSeq(pipe[s], n + 1, Len(pipe[s]))
  <2>2. pipe[s] \in Seq(Text) /\ raw[s] \in Seq(Text)
    BY DEF RecordType
  <2>3. chunk \in Seq(Text) /\ rest \in Seq(Text) /\ chunk \o rest = pipe[s]
    BY <2>2, FrontAndRest
  <2>4. pipe' = [pipe EXCEPT ![s] = rest] /\ raw' = [raw EXCEPT ![s] = raw[s] \o chunk]
        /\ written' = written
    BY <2>1 DEF Pumped, agent
  <2> HIDE DEF chunk, rest
  <2>5. (raw[s] \o chunk) \o rest = raw[s] \o (chunk \o rest)
    BY <1>0, <2>2, <2>3
  <2> QED
    BY <2>3, <2>4, <2>5 DEF RecordType
<1>3. CASE UNCHANGED <<raw, pipe, written>>
  BY <1>3
<1>4. CASE \/ Fork \/ KinExits \/ LeaderExits \/ Reap \/ Supervise \/ Timers \/ Cancel \/ LoopEnds
           \/ Over \/ UNCHANGED vars
  <2>1. UNCHANGED <<raw, pipe, written>>
    BY <1>4 DEF Fork, KinExits, LeaderExits, Reap, Supervise, Timers, Cancel, LoopEnds, Over, vars,
                Spawn, SpawnFails, Drained, DrainFails, WaitReturns, Joined, JoinFails, Started,
                Append1, Timeout, GraceExpires, agent, evidence
  <2> QED
    BY <1>3, <2>1
<1>5. ASSUME NEW s \in Streams, PumpEnds(s) PROVE Copied'
  BY <1>5, <1>3 DEF PumpEnds, agent, evidence
<1> QED
  BY <1>1, <1>2, <1>4, <1>5 DEF Next, Agent

(* A pump dies of a line that is in the raw file by then.                  *)
LEMMA DeadHasLine ==
  ASSUME RecordType, NEW s \in Streams, PumpReads(s)
  PROVE  /\ pump' = [pump EXCEPT ![s] = pump'[s]] /\ pump'[s] \in {"running", "dead"}
         /\ \A r \in Streams : HasUnencodable(raw[r]) => HasUnencodable(raw'[r])
         /\ pump'[s] = "dead" => s = "stdout" /\ HasUnencodable(raw'[s])
<1>1. PICK n \in 1..Len(pipe[s]) :
        LET chunk   == SubSeq(pipe[s], 1, n)
            events  == IF s = "stdout" THEN Cardinality(Readable(chunk)) ELSE 0
            broken  == s = "stdout" /\ events < n
        IN  /\ raw' = [raw EXCEPT ![s] = RawAfter(s, chunk)]
            /\ pump' = [pump EXCEPT ![s] = IF broken THEN "dead" ELSE @]
  BY DEF PumpReads
<1> DEFINE chunk == SubSeq(pipe[s], 1, n)
<1>2. pipe[s] \in Seq(Text) /\ raw[s] \in Seq(Text) /\ Len(pipe[s]) \in Nat
  <2>1. pipe[s] \in Seq(Text) /\ raw[s] \in Seq(Text)
    BY DEF RecordType
  <2> QED BY <2>1, LenProperties
<1>3. chunk \in Seq(Text) /\ Len(chunk) = n /\ n \in Nat
  BY <1>2, FrontAndRest
<1>4. /\ raw' = [raw EXCEPT ![s] = raw[s] \o chunk] /\ pump[s] = "running"
      /\ pump' = [pump EXCEPT ![s] =
                    IF s = "stdout" /\ Cardinality(Readable(chunk)) < n THEN "dead" ELSE pump[s]]
  BY <1>1 DEF RawAfter, RecordType, PumpReads
<1> HIDE DEF chunk
<1>5. /\ Len(raw[s] \o chunk) = Len(raw[s]) + Len(chunk) /\ Len(raw[s]) \in Nat
      /\ \A i \in 1..Len(raw[s]) : (raw[s] \o chunk)[i] = raw[s][i]
      /\ \A i \in 1..Len(chunk) : (raw[s] \o chunk)[Len(raw[s]) + i] = chunk[i]
  BY <1>2, <1>3, ConcatLines
<1>6. HasUnencodable(raw[s]) \/ HasUnencodable(chunk) => HasUnencodable(raw[s] \o chunk)
  <2>1. \A i \in 1..Len(raw[s]) : i \in 1..(Len(raw[s]) + Len(chunk))
    BY <1>3, <1>5
  <2>2. \A i \in 1..Len(chunk) : Len(raw[s]) + i \in 1..(Len(raw[s]) + Len(chunk))
    BY <1>3, <1>5
  <2> QED BY <1>5, <2>1, <2>2 DEF HasUnencodable
<1>7. raw'[s] = raw[s] \o chunk /\ \A r \in Streams \ {s} : raw'[r] = raw[r]
  BY <1>4 DEF RecordType
<1>8. ASSUME Cardinality(Readable(chunk)) < n PROVE HasUnencodable(chunk)
  <2>1. SUFFICES ASSUME ~HasUnencodable(chunk) PROVE FALSE
    OBVIOUS
  <2>2. ASSUME NEW i \in 1..n, NEW j \in 1..i PROVE chunk[j] # "unencodable"
    <3>1. j \in 1..Len(chunk)
      BY <1>3
    <3> QED BY <2>1, <3>1 DEF HasUnencodable
  <2>3. Readable(chunk) = 1..n
    BY <1>3, <2>2 DEF Readable
  <2>4. Cardinality(1..n) = n
    BY <1>3, FS_Interval
  <2> QED BY <1>3, <1>8, <2>3, <2>4
<1> QED BY <1>4, <1>6, <1>7, <1>8 DEF RecordType

LEMMA ReasonedStep ==
  ASSUME RecordType, Supervised, Reasoned, [Next]_vars
  PROVE  Reasoned'
<1> USE DEF Reasoned, Waiting, Final
<1>1. ASSUME UNCHANGED <<raw, pump, launch>>,
             sup' = sup \/ sup \notin {"spawn", "stdin", "raised"},
             sup' # "stdin" \/ sup = "stdin",
             child' = child \/ child # "unborn"
      PROVE  Reasoned'
  BY <1>1 DEF HasUnencodable
<1>2. CASE \/ Fork \/ KinExits \/ LeaderExits \/ Reap \/ Over \/ UNCHANGED vars
           \/ \E s \in Streams : \E k \in Lines(s) : AgentWrites(s, k)
  BY <1>1, <1>2 DEF Fork, KinExits, LeaderExits, Reap, Over, vars, AgentWrites, supervisor, agent, evidence
<1>3. CASE Spawn
  BY <1>3 DEF Spawn, Started, Append1, Supervised, evidence, HasUnencodable
<1>4. CASE Drained
  BY <1>4 DEF Drained, Started, Append1, Supervised, evidence, HasUnencodable
<1>5. CASE SpawnFails \/ DrainFails
  BY <1>5 DEF SpawnFails, DrainFails, Supervised, agent, evidence
<1>6. CASE WaitReturns \/ Joined \/ JoinFails \/ Timers
  <2>1. UNCHANGED <<raw, pump, launch>> /\ sup \notin {"spawn", "stdin", "raised"} /\ sup' # "stdin"
    BY <1>6 DEF WaitReturns, Joined, JoinFails, Timers, Timeout, GraceExpires, evidence
  <2>2. child' = child \/ child # "unborn"
    BY <1>6 DEF WaitReturns, Joined, JoinFails, Timers, Timeout, GraceExpires, agent
  <2> QED BY <1>1, <2>1, <2>2
<1>7. CASE Cancel
  <2>1. UNCHANGED <<raw, child, launch>> /\ sup \notin {"spawn", "raised"} /\ sup' # "stdin"
    BY <1>7 DEF Cancel, evidence
  <2>2. CASE UNCHANGED pump
    BY <1>7, <2>1, <2>2 DEF Cancel, HasUnencodable
  <2>3. CASE sup' = "raised" /\ sup = "joining"
             /\ pump' = [s \in Streams |-> IF pump[s] = "running" THEN "dead" ELSE pump[s]]
    BY <2>1, <2>3
  <2> QED BY <1>7, <2>2, <2>3 DEF Cancel
<1>8. CASE LoopEnds
  BY <1>8 DEF LoopEnds, supervisor, agent, evidence, HasUnencodable
<1>9. ASSUME NEW s \in Streams, PumpReads(s) PROVE Reasoned'
  <2>1. UNCHANGED <<sup, launch, child>> /\ pump[s] = "running"
    BY <1>9 DEF PumpReads, supervisor, agent
  <2>2. /\ pump' = [pump EXCEPT ![s] = pump'[s]] /\ pump'[s] \in {"running", "dead"}
        /\ \A r \in Streams : HasUnencodable(raw[r]) => HasUnencodable(raw'[r])
        /\ pump'[s] = "dead" => s = "stdout" /\ HasUnencodable(raw'[s])
    BY <1>9, DeadHasLine
  <2>3. \A r \in Streams \ {s} : pump'[r] = pump[r]
    BY <2>2 DEF RecordType
  <2>4. HasUnencodable(raw[s])' <=> HasUnencodable(raw'[s])
    BY DEF HasUnencodable
  <2>5. \A r \in Streams : HasUnencodable(raw[r])' <=> HasUnencodable(raw'[r])
    BY DEF HasUnencodable
  <2> QED BY <2>1, <2>2, <2>3, <2>4, <2>5
<1>10. ASSUME NEW s \in Streams, PumpEnds(s) PROVE Reasoned'
  BY <1>10 DEF PumpEnds, RecordType, supervisor, agent, evidence, HasUnencodable
<1> QED
  BY <1>2, <1>3, <1>4, <1>5, <1>6, <1>7, <1>8, <1>9, <1>10 DEF Next, Agent, Supervise

LEMMA SupervisedStep ==
  ASSUME RecordType, Supervised, [Next]_vars
  PROVE  Supervised'
<1> USE DEF Waiting, Final
<1>1. ASSUME NEW s \in Streams, NEW k \in Lines(s), AgentWrites(s, k) PROVE Supervised'
  BY <1>1 DEF AgentWrites, supervisor, evidence, Supervised, Writer
<1>2. CASE Fork \/ KinExits \/ LeaderExits \/ Reap
  BY <1>2 DEF Fork, KinExits, LeaderExits, Reap, supervisor, evidence, Supervised
<1>3. CASE Spawn
  BY <1>3 DEF Spawn, Started, Supervised, evidence
<1>4. CASE Drained
  BY <1>4 DEF Drained, Started, Supervised, agent
<1>5. CASE SpawnFails \/ DrainFails \/ JoinFails
  BY <1>5 DEF SpawnFails, DrainFails, JoinFails, Supervised, agent, evidence
<1>6. CASE WaitReturns
  BY <1>6 DEF WaitReturns, Supervised, agent, evidence
<1>7. CASE Joined
  BY <1>7 DEF Joined, Supervised, agent
<1>8. CASE Timeout
  BY <1>8 DEF Timeout, Supervised, evidence
<1>9. CASE GraceExpires
  BY <1>9 DEF GraceExpires, Supervised, evidence
<1>10. CASE Cancel \/ LoopEnds
  BY <1>10 DEF Cancel, LoopEnds, Supervised, supervisor, agent, evidence
<1>11. CASE Over \/ UNCHANGED vars
  BY <1>11 DEF Over, vars, supervisor, agent, evidence, Supervised
<1>12. ASSUME NEW s \in Streams, PumpReads(s) \/ PumpEnds(s) PROVE Supervised'
  <2>1. pump[s] = "running" /\ UNCHANGED <<supervisor, agent, closed>>
    BY <1>12 DEF PumpReads, PumpEnds
  <2> QED
    BY <2>1 DEF Supervised, supervisor, agent
<1> QED
  BY <1>1, <1>2, <1>3, <1>4, <1>5, <1>6, <1>7, <1>8, <1>9, <1>10, <1>11, <1>12
     DEF Next, Agent, Supervise, Timers

(* Once nobody can write to the pipes, nobody ever can again.              *)
LEMMA EndedStep ==
  ASSUME RecordType, Supervised, Ended, [Next]_vars
  PROVE  Ended'
<1> USE DEF Ended, Writer
<1>1. ASSUME NEW s \in Streams, NEW k \in Lines(s), AgentWrites(s, k) PROVE Ended'
  BY <1>1 DEF AgentWrites, supervisor, evidence
<1>2. CASE Fork \/ KinExits \/ LeaderExits \/ Reap
  BY <1>2 DEF Fork, KinExits, LeaderExits, Reap, supervisor, evidence, RecordType
<1>3. CASE Spawn \/ Drained
  <2>1. /\ sup \in {"spawn", "stdin"} /\ ~closed /\ closed' = closed /\ child' # "unborn"
        /\ \A s \in Streams : pump[s] = "none"
        /\ pump' = [s \in Streams |-> "running"] \/ pump' = pump
    BY <1>3 DEF Spawn, Drained, Started, Supervised, evidence, agent
  <2> QED
    BY <2>1
<1>4. CASE SpawnFails \/ DrainFails \/ JoinFails \/ WaitReturns
  BY <1>4 DEF SpawnFails, DrainFails, JoinFails, WaitReturns, agent, evidence, Supervised, Final, Waiting
<1>5. CASE Joined
  BY <1>5 DEF Joined, agent, Final
<1>6. CASE Timers
  BY <1>6 DEF Timers, Timeout, GraceExpires, evidence, Final, RecordType
<1>7. CASE Cancel \/ LoopEnds
  BY <1>7 DEF Cancel, LoopEnds, supervisor, agent, evidence, Final, RecordType
<1>8. CASE Over \/ UNCHANGED vars
  BY <1>8 DEF Over, vars, supervisor, agent, evidence
<1>9. ASSUME NEW s \in Streams, PumpReads(s) PROVE Ended'
  <2>1. PICK n \in 1..Len(pipe[s]) : \E e \in 0..n : Pumped(s, n, e)
    BY <1>9, PumpReadsIsPumped
  <2>2. /\ pump[s] = "running" /\ pump'[s] \in {"running", "dead"} /\ closed' = closed
        /\ UNCHANGED <<supervisor, agent>>
        /\ \A r \in Streams : r # s => pump'[r] = pump[r] /\ pipe'[r] = pipe[r]
    BY <2>1 DEF Pumped, RecordType
  <2> QED
    BY <2>2 DEF supervisor, agent
<1>10. ASSUME NEW s \in Streams, PumpEnds(s) PROVE Ended'
  BY <1>10 DEF PumpEnds, supervisor, agent, RecordType
<1> QED
  BY <1>1, <1>2, <1>3, <1>4, <1>5, <1>6, <1>7, <1>8, <1>9, <1>10
     DEF Next, Agent, Supervise, Timers

-----------------------------------------------------------------------------
(* The frame of the transcript                                             *)

LEMMA FramedStep ==
  ASSUME RecordType, Supervised, Ended, Framed, [Next]_vars
  PROVE  Framed'
<1>0. /\ transcript \in Seq(Entry) /\ Len(transcript) \in Nat
      /\ transcript # <<>> => Len(transcript) > 0
      /\ Len(<<>>) = 0
  <2>1. transcript \in Seq(Entry)
    BY DEF RecordType
  <2> QED
    BY <2>1, LenProperties, EmptySeq
<1>1. CASE Quiet
  <2>1. transcript' = transcript /\ closed' = closed
        /\ \A s \in Streams : pump'[s] # "none" => pump[s] # "none"
    BY <1>1 DEF Quiet, evidence
  <2> QED
    BY <2>1 DEF Framed
<1>2. CASE Begins
  <2>1. transcript = <<>> /\ ~closed /\ ~closed'
    BY <1>2 DEF Begins, Supervised
  <2>2. Len(transcript) = 0
    BY <1>0, <2>1
  <2>3. Len(transcript') = 1 /\ transcript'[1].type = "process.started"
    BY <1>2, <2>2, MarkIsEntry DEF Begins, Record
  <2>4. transcript' # <<>>
    BY <1>0, <2>3
  <2>5. \A i \in 1..Len(transcript') : i = 1
    BY <2>3
  <2> QED
    BY <2>1, <2>3, <2>4, <2>5 DEF Framed
<1>3. CASE Finishes
  <2>1. transcript # <<>> /\ ~closed /\ closed' /\ pump' = pump
    BY <1>3 DEF Finishes, Framed, Ended, Final, Streams
  <2>2. /\ Len(transcript') = Len(transcript) + 1
        /\ \A i \in 1..Len(transcript) : transcript'[i] = transcript[i]
        /\ transcript'[Len(transcript) + 1].type = "process.finished"
    BY <1>3, MarkIsEntry DEF Finishes, Record
  <2>3. transcript' # <<>>
    BY <1>0, <2>2
  <2>4. 1 \in 1..Len(transcript) /\ transcript'[1].type = "process.started"
    BY <1>0, <2>1, <2>2 DEF Framed
  <2>5. ASSUME NEW i \in 1..Len(transcript')
        PROVE  (transcript'[i].type = "process.finished") <=> (i = Len(transcript'))
    <3>1. CASE i = Len(transcript')
      BY <2>2, <3>1
    <3>2. CASE i # Len(transcript')
      <4>1. i \in 1..Len(transcript)
        BY <1>0, <2>2, <3>2
      <4> QED
        BY <2>1, <2>2, <3>2, <4>1 DEF Framed
    <3> QED
      BY <3>1, <3>2
  <2> QED
    BY <2>1, <2>3, <2>4, <2>5 DEF Framed
<1>4. ASSUME NEW s \in Streams, NEW n \in 1..Len(pipe[s]), NEW e \in 0..n, Pumped(s, n, e)
      PROVE  Framed'
  <2>1. /\ pump[s] = "running" /\ closed' = closed /\ ~closed
        /\ \A r \in Streams : pump'[r] # "none" => pump[r] # "none"
    BY <1>4 DEF Pumped, Ended, RecordType
  <2>2. /\ Len(transcript') = Len(transcript) + 1 + e
        /\ \A i \in 1..Len(transcript) : transcript'[i] = transcript[i]
        /\ transcript'[Len(transcript) + 1].type = "chunk"
        /\ \A i \in (Len(transcript) + 2)..(Len(transcript) + 1 + e) : transcript'[i].type = "event"
    BY <1>4, PumpedEntries
  <2>3. e \in Nat
    BY <1>4, PumpedEntries
  <2>4. transcript # <<>> /\ transcript' # <<>>
    BY <1>0, <2>1, <2>2, <2>3 DEF Framed
  <2>5. 1 \in 1..Len(transcript) /\ transcript'[1].type = "process.started"
    BY <1>0, <2>2, <2>4 DEF Framed
  <2>6. ASSUME NEW i \in 1..Len(transcript') PROVE transcript'[i].type # "process.finished"
    <3>1. CASE i \in 1..Len(transcript)
      BY <2>1, <2>2, <3>1 DEF Framed
    <3>2. CASE i = Len(transcript) + 1
      BY <2>2, <3>2
    <3>3. CASE i > Len(transcript) + 1
      <4>1. i \in (Len(transcript) + 2)..(Len(transcript) + 1 + e)
        BY <1>0, <2>2, <2>3, <3>3
      <4> QED
        BY <2>2, <4>1
    <3> QED
      BY <1>0, <3>1, <3>2, <3>3
  <2> QED
    BY <2>1, <2>4, <2>5, <2>6 DEF Framed
<1> QED
  BY <1>1, <1>2, <1>3, <1>4, StepShape

-----------------------------------------------------------------------------
(* Chunk records and events                                                *)

LEMMA EntriesAreNumbers ==
  ASSUME RecordType
  PROVE  /\ \A i \in 1..Len(transcript) :
              transcript[i].offset \in Nat /\ transcript[i].length \in Nat /\ End(i) \in Nat
         /\ DOMAIN transcript = 1..Len(transcript) /\ Len(transcript) \in Nat
         /\ \A s \in Streams : Len(raw[s]) \in Nat
<1>1. transcript \in Seq(Entry) /\ \A s \in Streams : raw[s] \in Seq(Text)
  BY DEF RecordType
<1>2. \A i \in 1..Len(transcript) : transcript[i] \in Entry
  BY <1>1, ElementOfSeq
<1> QED
  BY <1>1, <1>2, LenProperties DEF Entry, End

(* The entries a marker leaves as they are say what they said.             *)
LEMMA MarkedKeeps ==
  ASSUME RecordType, Tiled, Backed, NEW type \in {"process.started", "process.finished"}, Marked(type)
  PROVE  Tiled' /\ Backed'
<1>1. /\ Events' = Events /\ Events \subseteq 1..Len(transcript) /\ raw' = raw
      /\ \A s \in Streams : Chunks(s)' = Chunks(s) /\ Chunks(s) \subseteq 1..Len(transcript)
      /\ \A i \in 1..Len(transcript) : transcript'[i] = transcript[i]
  BY MarkedEntries, MarkIsEntry DEF Marked
<1>2. /\ \A i \in Events : transcript'[i] = transcript[i] /\ End(i)' = End(i)
      /\ \A s \in Streams : \A i \in Chunks(s) :
           /\ transcript'[i] = transcript[i] /\ End(i)' = End(i)
           /\ \A n : Covers(i, n)' <=> Covers(i, n)
  BY <1>1 DEF End, Covers
<1>3. Tiled'
  BY <1>1, <1>2 DEF Tiled
<1>4. Backed'
  BY <1>1, <1>2 DEF Backed, EventsFollowTheirBytes, Streams
<1> QED
  BY <1>3, <1>4

LEMMA TiledStep ==
  ASSUME RecordType, Tiled, NEW s \in Streams, NEW n \in 1..Len(pipe[s]), NEW e \in 0..n, Pumped(s, n, e)
  PROVE  Tiled'
<1>a. PICK l : l = Len(transcript)
  OBVIOUS
<1>b. PICK h : h = Len(raw[s])
  OBVIOUS
<1>1. /\ l \in Nat /\ h \in Nat /\ n \in Nat /\ e \in Nat /\ 1 <= n
      /\ \A i \in 1..l : transcript'[i] = transcript[i]
      /\ transcript'[l + 1].offset = h /\ transcript'[l + 1].length = n
      /\ Len(raw'[s]) = h + n
      /\ \A r \in Streams : r # s => raw'[r] = raw[r]
      /\ \A r \in Streams :
           /\ Chunks(r)' = IF r = s THEN Chunks(r) \cup {l + 1} ELSE Chunks(r)
           /\ Chunks(r) \subseteq 1..l
  BY <1>a, <1>b, PumpedEntries
<1>2. \A r \in Streams : \A i \in Chunks(r) :
        /\ transcript'[i] = transcript[i] /\ End(i)' = End(i) /\ End(i) \in Nat
        /\ transcript[i].offset \in Nat
        /\ \A m : Covers(i, m)' <=> Covers(i, m)
  BY <1>a, <1>1, EntriesAreNumbers DEF End, Covers
<1>3. End(l + 1)' = h + n /\ \A m : Covers(l + 1, m)' <=> (h < m /\ m <= h + n)
  BY <1>1 DEF End, Covers
<1>4. ASSUME NEW r \in Streams, r # s
      PROVE  /\ \A i \in Chunks(r)' : End(i)' <= Len(raw'[r])
             /\ Len(raw'[r]) > 0 => \E i \in Chunks(r)' : End(i)' = Len(raw'[r])
             /\ \A i \in Chunks(r)' :
                  \/ transcript'[i].offset = 0
                  \/ \E j \in Chunks(r)' : j < i /\ End(j)' = transcript'[i].offset
             /\ \A m \in 1..Len(raw'[r]) : \E i \in Chunks(r)' : Covers(i, m)'
             /\ \A m \in 1..Len(raw'[r]) :
                  \A i, j \in Chunks(r)' : Covers(i, m)' /\ Covers(j, m)' => i = j
  <2>1. Chunks(r)' = Chunks(r) /\ raw'[r] = raw[r]
    BY <1>1, <1>4
  <2> QED
    BY <1>2, <2>1 DEF Tiled
<1>5. /\ \A i \in Chunks(s)' : End(i)' <= Len(raw'[s])
      /\ Len(raw'[s]) > 0 => \E i \in Chunks(s)' : End(i)' = Len(raw'[s])
      /\ \A i \in Chunks(s)' :
           \/ transcript'[i].offset = 0
           \/ \E j \in Chunks(s)' : j < i /\ End(j)' = transcript'[i].offset
      /\ \A m \in 1..Len(raw'[s]) : \E i \in Chunks(s)' : Covers(i, m)'
      /\ \A m \in 1..Len(raw'[s]) :
           \A i, j \in Chunks(s)' : Covers(i, m)' /\ Covers(j, m)' => i = j
  <2>1. Chunks(s)' = Chunks(s) \cup {l + 1} /\ ~(l + 1 \in Chunks(s))
    BY <1>1
  <2>2. /\ \A i \in Chunks(s) : End(i) <= h
        /\ h > 0 => \E i \in Chunks(s) : End(i) = h
        /\ \A i \in Chunks(s) :
             transcript[i].offset = 0 \/ \E j \in Chunks(s) : j < i /\ End(j) = transcript[i].offset
        /\ \A m \in 1..h : \E i \in Chunks(s) : Covers(i, m)
        /\ \A m \in 1..h : \A i, j \in Chunks(s) : Covers(i, m) /\ Covers(j, m) => i = j
    BY <1>b DEF Tiled
  <2>3. \A i \in Chunks(s)' : End(i)' <= Len(raw'[s])
    BY <1>1, <1>2, <1>3, <2>1, <2>2
  <2>4. \E i \in Chunks(s)' : End(i)' = Len(raw'[s])
    BY <1>1, <1>3, <2>1
  <2>5. ASSUME NEW i \in Chunks(s)'
        PROVE  \/ transcript'[i].offset = 0
               \/ \E j \in Chunks(s)' : j < i /\ End(j)' = transcript'[i].offset
    <3>1. CASE i \in Chunks(s)
      BY <1>2, <2>1, <2>2, <3>1
    <3>2. CASE i = l + 1
      <4>1. CASE h = 0
        BY <1>1, <3>2, <4>1
      <4>2. CASE h > 0
        <5>1. PICK j \in Chunks(s) : End(j) = h
          BY <2>2, <4>2
        <5>2. j \in 1..l /\ j < i /\ End(j)' = transcript'[i].offset
          BY <1>1, <1>2, <3>2, <5>1
        <5> QED
          BY <2>1, <5>2
      <4> QED
        BY <1>1, <4>1, <4>2
    <3> QED
      BY <2>1, <3>1, <3>2
  <2>6. ASSUME NEW m \in 1..Len(raw'[s])
        PROVE  /\ \E i \in Chunks(s)' : Covers(i, m)'
               /\ \A i, j \in Chunks(s)' : Covers(i, m)' /\ Covers(j, m)' => i = j
    <3>1. CASE m <= h
      <4>1. m \in 1..h /\ ~Covers(l + 1, m)'
        BY <1>1, <1>3, <3>1
      <4>2. \A i \in Chunks(s)' : Covers(i, m)' => i \in Chunks(s) /\ Covers(i, m)
        BY <1>2, <2>1, <4>1
      <4> QED
        BY <1>2, <2>1, <2>2, <4>1, <4>2
    <3>2. CASE m > h
      <4>1. Covers(l + 1, m)'
        BY <1>1, <1>3, <3>2
      <4>2. \A i \in Chunks(s) : ~Covers(i, m)'
        BY <1>1, <1>2, <2>2, <3>2 DEF Covers
      <4> QED
        BY <2>1, <4>1, <4>2
    <3> QED
      BY <1>1, <3>1, <3>2
  <2> QED
    BY <2>3, <2>4, <2>5, <2>6
<1> QED
  BY <1>4, <1>5 DEF Tiled

LEMMA BackedStep ==
  ASSUME RecordType, Backed, NEW s \in Streams, NEW n \in 1..Len(pipe[s]), NEW e \in 0..n, Pumped(s, n, e)
  PROVE  Backed'
<1>a. PICK l : l = Len(transcript)
  OBVIOUS
<1>b. PICK h : h = Len(raw[s])
  OBVIOUS
<1>c. PICK H : H = Len(raw["stdout"])
  OBVIOUS
<1>1. /\ l \in Nat /\ h \in Nat /\ n \in Nat /\ e \in Nat /\ 1 <= n /\ e <= n
      /\ \A i \in 1..l : transcript'[i] = transcript[i]
      /\ transcript'[l + 1].offset = h /\ transcript'[l + 1].length = n
      /\ \A i \in (l + 2)..(l + 1 + e) :
           transcript'[i].offset = h + (i - (l + 1)) - 1 /\ transcript'[i].length = 1
      /\ Len(raw'[s]) = h + n
      /\ \A r \in Streams : r # s => raw'[r] = raw[r]
      /\ Events' = Events \cup (l + 2)..(l + 1 + e)
      /\ Events \subseteq 1..l
      /\ \A r \in Streams :
           /\ Chunks(r)' = IF r = s THEN Chunks(r) \cup {l + 1} ELSE Chunks(r)
           /\ Chunks(r) \subseteq 1..l
  BY <1>a, <1>b, PumpedEntries
<1>2. /\ H \in Nat /\ "stdout" \in Streams /\ (s = "stdout" => h = H)
      /\ \A i \in 1..l : transcript[i].offset \in Nat /\ transcript[i].length \in Nat
      /\ s # "stdout" => e = 0
  BY <1>a, <1>b, <1>c, EntriesAreNumbers DEF Streams, Pumped
<1>3. /\ Len(raw'["stdout"]) = IF s = "stdout" THEN H + n ELSE H
      /\ Chunks("stdout") \subseteq Chunks("stdout")' /\ Chunks("stdout") \subseteq 1..l
      /\ s = "stdout" => l + 1 \in Chunks("stdout")'
  BY <1>b, <1>c, <1>1, <1>2
<1>4. \A i \in Events : transcript[i].offset + 1 <= H /\ transcript[i].length = 1
                        /\ transcript'[i] = transcript[i] /\ i \in 1..l
  BY <1>c, <1>1, <1>2 DEF Backed, End
<1>5. ASSUME NEW i \in (l + 2)..(l + 1 + e)
      PROVE  /\ s = "stdout" /\ i > l + 1
             /\ transcript'[i].offset = H + (i - (l + 1)) - 1 /\ transcript'[i].length = 1
             /\ transcript'[i].offset \in H..(H + n - 1)
  BY <1>1, <1>2
<1>6. \A i \in Events' : transcript'[i].offset + transcript'[i].length <= Len(raw'["stdout"])
                         /\ transcript'[i].length = 1
  <2>1. \A i \in Events : transcript'[i].offset + transcript'[i].length <= Len(raw'["stdout"])
                          /\ transcript'[i].length = 1
    BY <1>1, <1>2, <1>3, <1>4
  <2>2. \A i \in (l + 2)..(l + 1 + e) :
          transcript'[i].offset + transcript'[i].length <= Len(raw'["stdout"]) /\ transcript'[i].length = 1
    BY <1>1, <1>2, <1>3, <1>5
  <2> QED
    BY <1>1, <2>1, <2>2
<1>7. ASSUME NEW i \in Events'
      PROVE  \E j \in Chunks("stdout")' :
               /\ j < i /\ transcript'[j].offset <= transcript'[i].offset
               /\ transcript'[i].offset + transcript'[i].length
                    <= transcript'[j].offset + transcript'[j].length
  <2>1. CASE i \in Events
    <3>1. PICK j \in Chunks("stdout") :
             /\ j < i /\ transcript[j].offset <= transcript[i].offset
             /\ transcript[i].offset + transcript[i].length
                  <= transcript[j].offset + transcript[j].length
      BY <2>1 DEF Backed, EventsFollowTheirBytes
    <3>2. transcript'[j] = transcript[j] /\ transcript'[i] = transcript[i]
      BY <1>1, <1>3, <1>4, <2>1
    <3> QED
      BY <1>3, <3>1, <3>2
  <2>2. CASE i \in (l + 2)..(l + 1 + e)
    <3>1. /\ l + 1 \in Chunks("stdout")' /\ l + 1 < i
          /\ transcript'[l + 1].offset = H /\ transcript'[l + 1].length = n
          /\ transcript'[i].length = 1 /\ transcript'[i].offset \in H..(H + n - 1)
      BY <1>1, <1>2, <1>3, <1>5, <2>2
    <3>2. transcript'[l + 1].offset <= transcript'[i].offset
          /\ transcript'[i].offset + transcript'[i].length
               <= transcript'[l + 1].offset + transcript'[l + 1].length
      BY <1>1, <1>2, <3>1
    <3> QED
      BY <3>1, <3>2
  <2> QED
    BY <1>1, <2>1, <2>2
<1>8. ASSUME NEW i \in Events', NEW j \in Events', transcript'[j].offset = transcript'[i].offset
      PROVE  j = i
  <2>1. CASE i \in Events /\ j \in Events
    BY <1>4, <1>8, <2>1 DEF Backed, EventsFollowTheirBytes
  <2>2. CASE i \in (l + 2)..(l + 1 + e) /\ j \in (l + 2)..(l + 1 + e)
    <3>1. H + (i - (l + 1)) - 1 = H + (j - (l + 1)) - 1
      BY <1>5, <1>8, <2>2
    <3> QED
      BY <1>1, <1>2, <2>2, <3>1
  <2>3. \A a \in Events : \A b \in (l + 2)..(l + 1 + e) : transcript'[a].offset # transcript'[b].offset
    <3>1. ASSUME NEW a \in Events PROVE transcript'[a].offset < H
      <4>1. /\ transcript[a].offset \in Nat /\ transcript[a].offset + 1 <= H
            /\ transcript'[a].offset = transcript[a].offset
        BY <1>2, <1>4
      <4> QED
        BY <1>2, <4>1
    <3>2. \A b \in (l + 2)..(l + 1 + e) : transcript'[b].offset >= H
      BY <1>1, <1>2, <1>5
    <3> QED
      BY <1>1, <1>2, <1>4, <1>5, <3>1, <3>2
  <2> QED
    BY <1>1, <1>8, <2>1, <2>2, <2>3
<1> QED
  BY <1>6, <1>7, <1>8 DEF Backed, End, EventsFollowTheirBytes

-----------------------------------------------------------------------------
(* The counters                                                            *)

LEMMA CountedMark ==
  ASSUME RecordType, Counted, NEW type \in {"process.started", "process.finished"}, Marked(type),
         NoneDead' => NoneDead
  PROVE  Counted'
<1>1. PICK l : l = Len(transcript)
  OBVIOUS
<1>2. /\ l \in Nat /\ Len(transcript') = l + 1
      /\ \A i \in 1..l : transcript'[i] = transcript[i]
      /\ transcript'[l + 1].arrival = arrivalSeq + 1
      /\ Events' = Events /\ Events \subseteq 1..l
      /\ arrivalSeq' = arrivalSeq + 1
      /\ UNCHANGED <<raw, eventSeq, terminalSeen, parseErrors>>
  BY <1>1, MarkIsEntry, MarkedEntries, Fields DEF Marked
<1> SUFFICES ASSUME NoneDead' PROVE Counted'
  BY DEF Counted
<1>3. /\ arrivalSeq = l
      /\ \A i \in 1..l : transcript[i].arrival = i
      /\ eventSeq = Cardinality(Events)
      /\ \A i \in Events : transcript[i].seq = Cardinality({j \in Events : j <= i})
      /\ Cardinality(Events) = Len(raw["stdout"])
      /\ parseErrors = CountOf(raw["stdout"], "bad")
      /\ terminalSeen <=> (CountOf(raw["stdout"], "terminal") > 0)
  BY <1>1 DEF Counted
<1>4. \A i \in 1..Len(transcript') : transcript'[i].arrival = i
  <2>1. 1..(l + 1) = 1..l \cup {l + 1}
    BY <1>2
  <2> QED
    BY <1>2, <1>3, <2>1
<1>5. \A i \in Events' : transcript'[i].seq = Cardinality({j \in Events' : j <= i})
  BY <1>2, <1>3
<1> QED
  BY <1>2, <1>3, <1>4, <1>5 DEF Counted

LEMMA CountedPump ==
  ASSUME RecordType, Counted, NEW s \in Streams, NEW n \in 1..Len(pipe[s]), NEW e \in 0..n,
         Pumped(s, n, e), pump'[s] # "dead" => Survived(s, n, e)
  PROVE  Counted'
<1>1. PICK l : l = Len(transcript)
  OBVIOUS
<1>2. PICK h : h = Len(raw[s])
  OBVIOUS
<1>3. /\ l \in Nat /\ h \in Nat /\ n \in Nat /\ e \in Nat
      /\ Len(transcript') = l + 1 + e
      /\ \A i \in 1..l : transcript'[i] = transcript[i]
      /\ transcript'[l + 1].arrival = arrivalSeq + 1
      /\ \A i \in (l + 2)..(l + 1 + e) :
           /\ transcript'[i].arrival = arrivalSeq + 1 + (i - (l + 1))
           /\ transcript'[i].seq = eventSeq + (i - (l + 1))
      /\ Len(raw'[s]) = h + n
      /\ \A r \in Streams : r # s => raw'[r] = raw[r]
      /\ Events' = Events \cup (l + 2)..(l + 1 + e)
      /\ Events \subseteq 1..l
  <2>1. /\ Len(transcript) \in Nat /\ Len(raw[s]) \in Nat /\ n \in Nat /\ e \in Nat
        /\ Len(transcript') = Len(transcript) + 1 + e
        /\ \A i \in 1..Len(transcript) : transcript'[i] = transcript[i]
        /\ transcript'[Len(transcript) + 1].arrival = arrivalSeq + 1
        /\ Len(raw'[s]) = Len(raw[s]) + n
        /\ \A r \in Streams : r # s => raw'[r] = raw[r]
        /\ Events' = Events \cup (Len(transcript) + 2)..(Len(transcript) + 1 + e)
        /\ Events \subseteq 1..Len(transcript)
    BY PumpedEntries
  <2>2. \A i \in (Len(transcript) + 2)..(Len(transcript) + 1 + e) :
          /\ transcript'[i].arrival = arrivalSeq + 1 + (i - (Len(transcript) + 1))
          /\ transcript'[i].seq = eventSeq + (i - (Len(transcript) + 1))
    BY PumpedEntries
  <2> QED
    BY <1>1, <1>2, <2>1, <2>2
<1> SUFFICES ASSUME NoneDead' PROVE Counted'
  BY DEF Counted
<1>4. NoneDead /\ pump'[s] # "dead"
  BY DEF NoneDead, Pumped, RecordType
<1>5. /\ arrivalSeq = l
      /\ \A i \in 1..l : transcript[i].arrival = i
      /\ eventSeq = Cardinality(Events)
      /\ \A i \in Events : transcript[i].seq = Cardinality({j \in Events : j <= i})
      /\ Cardinality(Events) = Len(raw["stdout"])
      /\ parseErrors = CountOf(raw["stdout"], "bad")
      /\ terminalSeen <=> (CountOf(raw["stdout"], "terminal") > 0)
  BY <1>1, <1>4 DEF Counted
<1>6. /\ s = "stdout" => e = n
      /\ s = "stderr" => e = 0
      /\ arrivalSeq' = l + 1 + e
      /\ eventSeq' = eventSeq + e
  BY <1>4, <1>5 DEF Survived, Pumped
<1>7. \A i \in 1..Len(transcript') : transcript'[i].arrival = i
  <2>1. 1..(l + 1 + e) = 1..l \cup {l + 1} \cup (l + 2)..(l + 1 + e)
    BY <1>3
  <2>2. ASSUME NEW i \in (l + 2)..(l + 1 + e) PROVE transcript'[i].arrival = i
    <3>1. transcript'[i].arrival = l + 1 + (i - (l + 1))
      BY <1>3, <1>5
    <3>2. l + 1 + (i - (l + 1)) = i
      BY <1>3
    <3> QED
      BY <3>1, <3>2
  <2> QED
    BY <1>3, <1>5, <2>1, <2>2
<1>8. IsFiniteSet(Events) /\ Cardinality(Events) \in Nat
  <2>1. l \in Int /\ 1 \in Int /\ Events \in SUBSET (1..l)
    BY <1>3
  <2>2. IsFiniteSet(1..l)
    BY <2>1, FS_Interval
  <2> QED
    BY <2>1, <2>2, FS_Subset, FS_CardinalityType
<1>9. \A m \in 0..e : Cardinality(Events \cup (l + 2)..(l + 1 + m)) = Cardinality(Events) + m
  <2> SUFFICES ASSUME NEW m \in 0..e
               PROVE  Cardinality(Events \cup (l + 2)..(l + 1 + m)) = Cardinality(Events) + m
    OBVIOUS
  <2>1. m \in Nat /\ l + 2 \in Int /\ l + 1 + m \in Int
    BY <1>3
  <2>2. \A a, b \in Int : IsFiniteSet(a..b) /\ Cardinality(a..b) = IF a > b THEN 0 ELSE b - a + 1
    BY FS_Interval
  <2>3. IsFiniteSet((l + 2)..(l + 1 + m)) /\ Cardinality((l + 2)..(l + 1 + m)) = m
    <3>1. PICK a \in Int : a = l + 2
      BY <2>1
    <3>2. PICK b \in Int : b = l + 1 + m
      BY <2>1
    <3>3. (IF a > b THEN 0 ELSE b - a + 1) = m
      BY <1>3, <2>1, <3>1, <3>2
    <3> QED
      BY <2>2, <3>1, <3>2, <3>3
  <2>4. Events \cap (l + 2)..(l + 1 + m) = {}
    BY <1>3, <2>1
  <2>5. Cardinality(Events \cup (l + 2)..(l + 1 + m)) =
          Cardinality(Events) + Cardinality((l + 2)..(l + 1 + m))
            - Cardinality(Events \cap (l + 2)..(l + 1 + m))
    BY <1>8, <2>3, FS_Union
  <2>6. Cardinality(Events \cap (l + 2)..(l + 1 + m)) = 0
    BY <2>4, FS_EmptySet
  <2> QED
    BY <1>8, <2>1, <2>3, <2>5, <2>6
<1>10. Cardinality(Events') = Cardinality(Events) + e
  BY <1>3, <1>9
<1>11. ASSUME NEW i \in Events'
       PROVE  transcript'[i].seq = Cardinality({j \in Events' : j <= i})
  <2>1. CASE i \in Events
    <3>1. i \in 1..l /\ transcript'[i] = transcript[i]
      BY <1>3, <2>1
    <3>2. {j \in Events' : j <= i} = {j \in Events : j <= i}
      BY <1>3, <3>1
    <3> QED
      BY <1>5, <2>1, <3>1, <3>2
  <2>2. CASE i \in (l + 2)..(l + 1 + e)
    <3>1. PICK m \in 0..e : m = i - (l + 1) /\ i = l + 1 + m
      BY <1>3, <2>2
    <3>2. {j \in Events' : j <= i} = Events \cup (l + 2)..(l + 1 + m)
      <4>1. \A j \in Events : j <= i
        BY <1>3, <2>2
      <4>2. \A j : j \in (l + 2)..(l + 1 + m) <=> j \in (l + 2)..(l + 1 + e) /\ j <= i
        BY <1>3, <3>1
      <4> QED
        BY <1>3, <4>1, <4>2
    <3>3. transcript'[i].seq = eventSeq + m
      BY <1>3, <2>2, <3>1
    <3> QED
      BY <1>5, <1>9, <3>1, <3>2, <3>3
  <2> QED
    BY <1>3, <2>1, <2>2
<1>12. /\ Len(raw'["stdout"]) = Len(raw["stdout"]) + e
       /\ parseErrors' = CountOf(raw'["stdout"], "bad")
       /\ terminalSeen' <=> (CountOf(raw'["stdout"], "terminal") > 0)
  <2>1. CASE s = "stdout"
    <3> DEFINE chunk == SubSeq(pipe[s], 1, n)
    <3>1. pipe[s] \in Seq(Text) /\ raw[s] \in Seq(Text)
      BY DEF RecordType
    <3>2. chunk \in Seq(Text)
      BY <3>1, FrontAndRest
    <3>3. raw'[s] = raw[s] \o chunk
      BY DEF Pumped, RecordType
    <3>4. /\ parseErrors' = parseErrors + CountOf(chunk, "bad")
          /\ terminalSeen' <=> (terminalSeen \/ CountOf(chunk, "terminal") > 0)
      BY <1>4, <2>1 DEF Survived
    <3> HIDE DEF chunk
    <3>5. \A k : CountOf(raw[s] \o chunk, k) = CountOf(raw[s], k) + CountOf(chunk, k)
      BY <3>1, <3>2, CountOfConcat
    <3>6. \A k : CountOf(raw[s], k) \in Nat /\ CountOf(chunk, k) \in Nat
      BY <3>1, <3>2, CountIsNat
    <3>7. CountOf(raw'[s], "terminal") > 0
            <=> (CountOf(raw[s], "terminal") > 0 \/ CountOf(chunk, "terminal") > 0)
      BY <3>3, <3>5, <3>6
    <3> QED
      BY <1>2, <1>3, <1>5, <1>6, <2>1, <3>3, <3>4, <3>5, <3>7
  <2>2. CASE s = "stderr"
    <3>1. raw'["stdout"] = raw["stdout"] /\ e = 0 /\ parseErrors' = parseErrors
          /\ (terminalSeen' <=> terminalSeen)
      BY <1>3, <1>4, <1>6, <2>2 DEF Survived, Streams
    <3>2. Len(raw["stdout"]) \in Nat
      BY EntriesAreNumbers DEF Streams
    <3> QED
      BY <1>5, <3>1, <3>2
  <2> QED
    BY <2>1, <2>2 DEF Streams
<1> QED
  BY <1>3, <1>5, <1>6, <1>7, <1>10, <1>11, <1>12 DEF Counted

-----------------------------------------------------------------------------
(* The invariant and the properties                                        *)

LEMMA RecordInvHolds == Spec => []RecordInv
<1>1. RecordInv /\ [Next]_vars => RecordInv'
  <2> SUFFICES ASSUME RecordInv, [Next]_vars PROVE RecordInv'
    OBVIOUS
  <2>0. /\ RecordType /\ Copied /\ Reasoned /\ Supervised /\ Ended /\ Framed /\ Tiled /\ Backed /\ Counted
    BY DEF RecordInv
  <2>1. RecordType' /\ Copied' /\ Reasoned' /\ Supervised' /\ Ended' /\ Framed'
    BY <2>0, TypeStep, CopiedStep, ReasonedStep, SupervisedStep, EndedStep, FramedStep
  <2>2. CASE Quiet
    <3>1. UNCHANGED <<raw, transcript, arrivalSeq, eventSeq, terminalSeen, parseErrors>>
      BY <2>2 DEF Quiet, evidence
    <3>2. NoneDead' => NoneDead
      BY <2>2 DEF Quiet, NoneDead
    <3>3. Tiled' /\ Backed'
      BY <2>0, <3>1 DEF Tiled, Backed, Events, Chunks, End, Covers, EventsFollowTheirBytes
    <3>4. Counted'
      BY <2>0, <3>1, <3>2 DEF Counted, Events
    <3> QED
      BY <2>1, <3>3, <3>4 DEF RecordInv
  <2>3. CASE Begins
    <3>1. Marked("process.started") /\ (NoneDead' => NoneDead)
      BY <2>0, <2>3 DEF Begins, NoneDead, Supervised
    <3> QED
      BY <2>0, <2>1, <3>1, MarkedKeeps, CountedMark DEF RecordInv
  <2>4. CASE Finishes
    <3>1. Marked("process.finished") /\ (NoneDead' => NoneDead)
      BY <2>4 DEF Finishes, NoneDead
    <3> QED
      BY <2>0, <2>1, <3>1, MarkedKeeps, CountedMark DEF RecordInv
  <2>5. ASSUME NEW s \in Streams, NEW n \in 1..Len(pipe[s]), NEW e \in 0..n, Pumped(s, n, e),
               pump'[s] # "dead" => Survived(s, n, e)
        PROVE  RecordInv'
    BY <2>0, <2>1, <2>5, TiledStep, BackedStep, CountedPump DEF RecordInv
  <2> QED
    BY <2>0, <2>2, <2>3, <2>4, <2>5, StepShape
<1> QED
  BY <1>1, InitRecord, PTL DEF Spec

(* The raw files are what was written up to a point; a pump that ended has *)
(* copied all of it, and one that did not was killed by a line it could    *)
(* not record, or belongs to a call that has raised (recorder.py 84-141).  *)
THEOREM LossHasItsReasonHolds == Spec => []LossHasItsReason
<1>1. ASSUME RecordInv, NEW s \in Streams
      PROVE  /\ IsPrefixOf(raw[s], written[s])
             /\ pump[s] = "done" => raw[s] = written[s]
  <2>1. raw[s] \in Seq(Text) /\ pipe[s] \in Seq(Text) /\ raw[s] \o pipe[s] = written[s]
    BY <1>1 DEF RecordInv, RecordType, Copied
  <2>2. IsPrefixOf(raw[s], raw[s] \o pipe[s])
    BY <2>1, PrefixOfConcat
  <2>3. IsPrefixOf(raw[s], written[s])
    BY <2>1, <2>2
  <2>4. raw[s] \o <<>> = raw[s]
    BY <2>1, ConcatEmptySeq
  <2>5. pump[s] = "done" => pipe[s] = <<>>
    BY <1>1 DEF RecordInv, Ended
  <2> QED
    BY <2>1, <2>3, <2>4, <2>5
<1>2. ASSUME RecordInv, NEW s \in Streams
      PROVE  /\ pump[s] = "dead" =>
                   \/ sup = "raised"
                   \/ s = "stdout" /\ \E i \in 1..Len(raw[s]) : raw[s][i] = "unencodable"
             /\ pump[s] = "none" /\ sup = "raised" => child = "unborn" \/ launch.stdin
  BY <1>2 DEF RecordInv, Reasoned, HasUnencodable
<1>3. RecordInv => LossHasItsReason
  BY <1>1, <1>2 DEF LossHasItsReason
<1> QED
  BY <1>3, RecordInvHolds, PTL

(* A result is returned only when both pipes have been read to their end   *)
(* and no process is left that could write to them (recorder.py 192-239).  *)
THEOREM ReturnIsCompleteHolds == Spec => []ReturnIsComplete
<1>1. ASSUME RecordInv, sup = "returned"
      PROVE  child = "reaped" /\ kin \in {"none", "gone"} /\ raw = written /\ closed
  <2>1. child = "reaped" /\ closed /\ \A s \in Streams : pipe[s] = <<>> /\ ~Writer
    BY <1>1 DEF RecordInv, Supervised, Ended
  <2>2. kin \in {"none", "gone"}
    BY <1>1, <2>1 DEF RecordInv, RecordType, Writer, Streams
  <2>3. ASSUME NEW s \in Streams PROVE raw[s] = written[s]
    <3>1. raw[s] \in Seq(Text) /\ raw[s] \o pipe[s] = written[s]
      BY <1>1 DEF RecordInv, RecordType, Copied
    <3>2. raw[s] \o <<>> = raw[s]
      BY <3>1, ConcatEmptySeq
    <3> QED
      BY <2>1, <3>1, <3>2
  <2>4. raw = written
    BY <1>1, <2>3 DEF RecordInv, RecordType
  <2> QED
    BY <2>1, <2>2, <2>4
<1> QED
  BY <1>1, RecordInvHolds, PTL DEF ReturnIsComplete

(* A transcript that was closed numbers its records and its events without *)
(* a gap between process.started and the only process.finished.            *)
THEOREM ClosedTranscriptIsDenseHolds == Spec => []ClosedTranscriptIsDense
<1>1. ASSUME RecordInv, closed PROVE NoneDead /\ transcript # <<>>
  BY <1>1 DEF RecordInv, Ended, Framed, NoneDead
<1>2. RecordInv => ClosedTranscriptIsDense
  BY <1>1, EntriesAreNumbers DEF RecordInv, Counted, Framed, ClosedTranscriptIsDense
<1> QED
  BY <1>2, RecordInvHolds, PTL

(* The chunk records of a stream partition its raw file at any time, and   *)
(* an event describes bytes that an earlier chunk record has accounted for *)
(* (recorder.py 114-141).                                                  *)
THEOREM TranscriptFollowsRawHolds == Spec => []TranscriptFollowsRaw
<1>1. ASSUME RecordInv, NEW s \in Streams, NEW n \in 1..Len(raw[s])
      PROVE  Cardinality({i \in Chunks(s) : transcript[i].offset < n
                                            /\ n <= transcript[i].offset + transcript[i].length}) = 1
  <2>1. PICK i \in Chunks(s) : Covers(i, n)
    BY <1>1 DEF RecordInv, Tiled
  <2>2. \A j \in Chunks(s) : Covers(j, n) => j = i
    BY <1>1, <2>1 DEF RecordInv, Tiled
  <2>3. {j \in Chunks(s) : transcript[j].offset < n
                           /\ n <= transcript[j].offset + transcript[j].length} = {i}
    BY <2>1, <2>2 DEF Covers, End
  <2> QED
    BY <2>3, FS_Singleton
<1>2. RecordInv => TranscriptFollowsRaw
  BY <1>1 DEF RecordInv, Tiled, Backed, End, TranscriptFollowsRaw, ChunksTileRaw
<1> QED
  BY <1>2, RecordInvHolds, PTL

(* A returned result tells what happened: one event per printed line, the  *)
(* errors among them, the end of the protocol when the launch has one, and *)
(* a timeout exactly when the ladder sent its signal (recorder.py 229-239).*)
THEOREM ResultMatchesOutputHolds == Spec => []ResultMatchesOutput
<1>0. /\ ProcessResult.timed_out = timedOut /\ ProcessResult.kill_stage = killStage
      /\ ProcessResult.terminal_seen = (terminalSeen \/ ~launch.terminal)
      /\ ProcessResult.parse_errors = parseErrors /\ ProcessResult.event_count = eventSeq
  BY DEF ProcessResult
<1>1. ASSUME RecordInv, sup = "returned"
      PROVE  /\ timedOut <=> sigterm
             /\ timedOut <=> (killStage \in {"term", "kill"})
             /\ eventSeq = Len(written["stdout"]) /\ Cardinality(Events) = Len(written["stdout"])
             /\ parseErrors = CountOf(written["stdout"], "bad")
             /\ terminalSeen <=> (CountOf(written["stdout"], "terminal") > 0)
  <2>1. /\ raising = "none" /\ closed /\ (timedOut <=> sigterm)
        /\ timedOut <=> (killStage \in {"term", "kill"})
    BY <1>1 DEF RecordInv, Supervised
  <2>2. NoneDead
    BY <1>1, <2>1 DEF RecordInv, Ended, NoneDead
  <2>3. raw["stdout"] = written["stdout"]
    <3>1. raw["stdout"] \in Seq(Text) /\ raw["stdout"] \o pipe["stdout"] = written["stdout"]
      BY <1>1 DEF RecordInv, RecordType, Copied, Streams
    <3>2. pipe["stdout"] = <<>>
      BY <1>1, <2>1 DEF RecordInv, Ended, Streams
    <3>3. raw["stdout"] \o <<>> = raw["stdout"]
      BY <3>1, ConcatEmptySeq
    <3> QED
      BY <3>1, <3>2, <3>3
  <2>4. /\ Cardinality(Events) = Len(raw["stdout"]) /\ eventSeq = Cardinality(Events)
        /\ parseErrors = CountOf(raw["stdout"], "bad")
        /\ terminalSeen <=> (CountOf(raw["stdout"], "terminal") > 0)
    BY <1>1, <2>2 DEF RecordInv, Counted
  <2> QED
    BY <2>1, <2>3, <2>4
<1>2. RecordInv => launch.terminal \in BOOLEAN
  BY DEF RecordInv, RecordType, AllLaunches
<1>3. RecordInv => ResultMatchesOutput
  BY <1>0, <1>1, <1>2 DEF ResultMatchesOutput
<1> QED
  BY <1>3, RecordInvHolds, PTL
===============================================================================
