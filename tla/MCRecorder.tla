----------------------------- MODULE MCRecorder ------------------------------
(* Instances of Recorder for TLC. *)
EXTENDS Recorder

Plain == {"event"}
Forks == {"forks"}

Builtin(eofWait) == [stdin |-> FALSE, terminal |-> TRUE, decoder |-> "jsonl", eofWait |-> eofWait]
Custom(decoder, eofWait) ==
  [stdin |-> TRUE, terminal |-> FALSE, decoder |-> decoder, eofWait |-> eofWait]

\* the adapters of agents with a protocol of their own, and a custom command fed by stdin
BothAdapters == {Builtin(w) : w \in BOOLEAN} \cup {Custom("jsonl", FALSE), Custom("text", TRUE)}
OneAdapter == {Builtin(FALSE)}

\* stdout can overfill a pipe whose pump has died
ThreeAndOne == [s \in Streams |-> IF s = "stdout" THEN 3 ELSE 1]
OneEach == [s \in Streams |-> 1]
==============================================================================
