------------------------------- MODULE Framing -------------------------------
(***************************************************************************)
(* The incremental JSONL framing of the stdout pump (recording/recorder.py *)
(* 108-139): bytes arrive in chunks cut anywhere; complete lines are taken *)
(* from a buffer and handed to decode_line with the offset they have in    *)
(* stdout.raw; what is left without a newline is handed over at the end.   *)
(***************************************************************************)
EXTENDS Integers, Sequences

CONSTANTS Byte,      \* symbols other than the newline
          Newline,
          MaxBytes,  \* bound: length of the stream
          MaxChunk   \* bytes one read may return: 64 * 1024 in the code

ASSUME NewlineAssumption == Newline \notin Byte
ASSUME SizeAssumption == MaxBytes \in Nat /\ MaxChunk \in Nat \ {0}

Symbol == Byte \cup {Newline}

VARIABLES
  source,   \* bytes the process has written and the pump has not read
  raw,      \* stdout.raw
  offset,   \* bytes read so far
  chunk,    \* [offset |-> chunk_offset, length |-> len(chunk)] of the last read
  buffer,   \* bytes of the current incomplete line(s)
  lines,    \* what decode_line was called with, in order
  phase     \* "read", "split", "done"

vars == <<source, raw, offset, chunk, buffer, lines, phase>>

Init ==
  /\ source \in UNION {[1..n -> Symbol] : n \in 0..MaxBytes}
  /\ raw = <<>> /\ offset = 0 /\ chunk = [offset |-> 0, length |-> 0]
  /\ buffer = <<>> /\ lines = <<>>
  /\ phase = "read"

Read(n) ==
  /\ phase = "read" /\ n <= Len(source)
  /\ raw' = raw \o SubSeq(source, 1, n)
  /\ chunk' = [offset |-> offset, length |-> n]
  /\ offset' = offset + n
  /\ buffer' = buffer \o SubSeq(source, 1, n)
  /\ source' = SubSeq(source, n + 1, Len(source))
  /\ phase' = "split"
  /\ UNCHANGED lines

\* buffer.find(b"\n") + 1, 0 when there is no newline
FirstLineEnd(b) ==
  IF \E i \in DOMAIN b : b[i] = Newline
  THEN CHOOSE i \in DOMAIN b : b[i] = Newline /\ \A j \in 1..(i - 1) : b[j] # Newline
  ELSE 0

\* mutant: the offset of the line's end
LineOffsetAtEnd(rest, newline) == chunk.offset + chunk.length - Len(rest)

LineOffset(rest, newline) == chunk.offset + chunk.length - Len(rest) - newline

\* one turn of the inner while loop
TakeLine ==
  /\ phase = "split" /\ FirstLineEnd(buffer) > 0
  /\ LET newline == FirstLineEnd(buffer)
         rest    == SubSeq(buffer, newline + 1, Len(buffer))
     IN  /\ buffer' = rest
         /\ lines' = Append(lines,
              [offset |-> LineOffset(rest, newline),
               bytes  |-> SubSeq(buffer, 1, newline)])
  /\ UNCHANGED <<source, raw, offset, chunk, phase>>

LoopEnds ==
  /\ phase = "split" /\ FirstLineEnd(buffer) = 0
  /\ phase' = "read"
  /\ UNCHANGED <<source, raw, offset, chunk, buffer, lines>>

\* read() returned b"": the rest is decoded as one last, unterminated line
Eof ==
  /\ phase = "read" /\ source = <<>>
  /\ lines' = IF buffer = <<>> THEN lines
              ELSE Append(lines, [offset |-> offset - Len(buffer), bytes |-> buffer])
  /\ phase' = "done"
  /\ UNCHANGED <<source, raw, offset, chunk, buffer>>

Over == phase = "done" /\ UNCHANGED vars

Next == (\E n \in 1..MaxChunk : Read(n)) \/ TakeLine \/ LoopEnds \/ Eof \/ Over

Spec == Init /\ [][Next]_vars

-----------------------------------------------------------------------------

EndOf(line) == line.offset + Len(line.bytes)
Before(i) == IF i = 1 THEN 0 ELSE EndOf(lines[i - 1])

\* However the stream is cut, the lines handed to decode_line are those a reader of the
\* finished file would find, in their order: each begins where the one before it ended and is
\* not empty, so none is handed over twice and no two overlap; each says what stdout.raw holds
\* at its raw_offset; and in the end they end at the newlines and at the end of the file, so
\* none is skipped and none is cut in two (recorder.py 107-141).
SameAsWholeFile ==
  /\ \A i \in DOMAIN lines :
       /\ lines[i].offset = Before(i) /\ lines[i].bytes # <<>>
       /\ EndOf(lines[i]) <= Len(raw)
       /\ SubSeq(raw, lines[i].offset + 1, EndOf(lines[i])) = lines[i].bytes
  /\ phase = "done" =>
       {EndOf(lines[i]) : i \in DOMAIN lines} = {i \in DOMAIN raw : raw[i] = Newline \/ i = Len(raw)}
==============================================================================
