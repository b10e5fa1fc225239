---------------------------- MODULE FramingProofs -----------------------------
(***************************************************************************)
(* However the bytes of a stream are cut into reads, the lines the pump    *)
(* hands over are those of the finished file, for every alphabet, every    *)
(* stream and every size of a read.                                        *)
(*                                                                         *)
(* The buffer is always the tail of what has been read (Tailed), so the    *)
(* offset computed from lengths alone is the position in the file; the     *)
(* lines handed over lie one behind the other up to it (Adjacent); and     *)
(* their ends are the newlines before it (Handed).                         *)
(***************************************************************************)
EXTENDS Framing, SequenceTheorems, NaturalsInduction, WellFoundedInduction, TLAPS

USE NewlineAssumption, SizeAssumption

Line == [offset : Nat, bytes : Seq(Symbol)]

FrameType ==
  /\ source \in Seq(Symbol) /\ raw \in Seq(Symbol) /\ buffer \in Seq(Symbol)
  /\ lines \in Seq(Line)
  /\ offset = Len(raw)
  /\ chunk \in [offset : Nat, length : Nat]
  /\ phase \in {"read", "split", "done"}

Taken == Len(raw) - Len(buffer)

(* The buffer is what follows the bytes taken so far, without a newline    *)
(* when the inner loop is over.                                            *)
Tailed ==
  /\ Taken \in Nat
  /\ \A k \in 1..Len(buffer) : buffer[k] = raw[Taken + k]
  /\ phase = "split" => chunk.offset + chunk.length = Len(raw)
  /\ phase = "read" => \A k \in 1..Len(buffer) : buffer[k] # Newline

Ends == {EndOf(lines[i]) : i \in 1..Len(lines)}
NewlinesUpTo(n) == {i \in 1..n : raw[i] = Newline}

(* A line says what the file holds at its place.                           *)
InFile(l) ==
  /\ EndOf(l) <= Len(raw)
  /\ \A k \in 1..Len(l.bytes) : raw[l.offset + k] = l.bytes[k]

LinesInFile == \A i \in 1..Len(lines) : InFile(lines[i])

(* Every line begins where the one before it ended, and holds something.   *)
Adjacent == \A i \in 1..Len(lines) : lines[i].offset = Before(i) /\ Len(lines[i].bytes) > 0

HandedTo == Before(Len(lines) + 1)

Handed ==
  /\ LinesInFile
  /\ Adjacent
  /\ phase # "done" =>
       /\ HandedTo = Taken
       /\ Ends = NewlinesUpTo(Taken)
       /\ Taken > 0 => raw[Taken] = Newline
  /\ phase = "done" => Ends = {i \in 1..Len(raw) : raw[i] = Newline \/ i = Len(raw)}

FrameInv == FrameType /\ Tailed /\ Handed

-----------------------------------------------------------------------------
(* Finding a newline                                                       *)

LEMMA LeastNumber ==
  ASSUME NEW S, S \subseteq Nat, S # {}
  PROVE  \E x \in S : \A y \in S : x <= y
<1> DEFINE R == {s \in Nat \X Nat : s[1] < s[2]}
<1>1. R = OpToRel(<, Nat)
  BY Zenon DEF OpToRel
<1>2. IsWellFoundedOn(R, Nat)
  BY <1>1, NatLessThanWellFounded
<1>3. \A x, y \in Nat : y < x => <<y, x>> \in R
  OBVIOUS
<1> HIDE DEF R
<1>4. PICK x \in S : \A y \in S : ~(<<y, x>> \in R)
  BY <1>2, WFMin
<1>5. \A y \in S : ~(y < x)
  BY <1>3, <1>4
<1> QED
  BY <1>5

LEMMA FirstLineEndIsFirst ==
  ASSUME NEW b \in Seq(Symbol)
  PROVE  \/ /\ FirstLineEnd(b) = 0
            /\ \A i \in 1..Len(b) : b[i] # Newline
         \/ /\ FirstLineEnd(b) \in 1..Len(b)
            /\ b[FirstLineEnd(b)] = Newline
            /\ \A i \in 1..(FirstLineEnd(b) - 1) : b[i] # Newline
<1>1. DOMAIN b = 1..Len(b) /\ Len(b) \in Nat
  BY LenProperties
<1>2. CASE \A i \in 1..Len(b) : b[i] # Newline
  BY <1>1, <1>2 DEF FirstLineEnd
<1>3. CASE \E i \in 1..Len(b) : b[i] = Newline
  <2> DEFINE S == {i \in 1..Len(b) : b[i] = Newline}
  <2>1. PICK i \in S : \A j \in S : i <= j
    <3>1. S \subseteq Nat /\ S # {}
      BY <1>3
    <3> QED
      BY <3>1, LeastNumber
  <2>2. i \in DOMAIN b /\ b[i] = Newline /\ \A j \in 1..(i - 1) : b[j] # Newline
    BY <1>1, <2>1
  <2>3. FirstLineEnd(b) = CHOOSE k \in DOMAIN b : b[k] = Newline /\ \A j \in 1..(k - 1) : b[j] # Newline
    BY <2>2 DEF FirstLineEnd
  <2>4. FirstLineEnd(b) \in DOMAIN b /\ b[FirstLineEnd(b)] = Newline
        /\ \A j \in 1..(FirstLineEnd(b) - 1) : b[j] # Newline
    BY <2>2, <2>3
  <2> QED
    BY <1>1, <2>4
<1> QED
  BY <1>2, <1>3

-----------------------------------------------------------------------------
(* Handing a line over                                                     *)

LEMMA HandedOver ==
  ASSUME FrameType, Handed, NEW l \in Line, InFile(l), lines' = Append(lines, l), raw' = raw,
         l.offset = HandedTo, Len(l.bytes) > 0
  PROVE  /\ lines' \in Seq(Line) /\ Ends' = Ends \cup {EndOf(l)}
         /\ LinesInFile' /\ Adjacent' /\ HandedTo' = EndOf(l)
<1>1. /\ lines' \in Seq(Line) /\ Len(lines') = Len(lines) + 1 /\ Len(lines) \in Nat
      /\ \A i \in 1..Len(lines) : lines'[i] = lines[i]
      /\ lines'[Len(lines) + 1] = l
  BY AppendProperties, LenProperties DEF FrameType
<1>2. 1..Len(lines') = 1..Len(lines) \cup {Len(lines) + 1}
  BY <1>1
<1>3. Ends' = Ends \cup {EndOf(l)}
  BY <1>1, <1>2 DEF Ends, EndOf
<1>4. LinesInFile'
  <2> SUFFICES ASSUME NEW i \in 1..Len(lines') PROVE InFile(lines[i])'
    BY DEF LinesInFile
  <2>1. InFile(lines'[i])
    BY <1>1, <1>2 DEF Handed, LinesInFile
  <2> QED
    BY <2>1 DEF InFile, EndOf
<1>m. PICK m \in Nat : m = Len(lines)
  BY <1>1
<1>5. \A i \in 1..(m + 1) : Before(i)' = Before(i)
  <2> SUFFICES ASSUME NEW i \in 1..(m + 1) PROVE Before(i)' = Before(i)
    OBVIOUS
  <2>1. CASE i = 1
    BY <2>1 DEF Before
  <2>2. CASE i # 1
    <3>1. i - 1 \in 1..Len(lines)
      BY <1>m, <2>2
    <3>2. lines'[i - 1] = lines[i - 1]
      BY <1>1, <3>1
    <3> QED BY <2>2, <3>2 DEF Before, EndOf
  <2> QED BY <2>1, <2>2
<1>6. Adjacent'
  <2>1. ASSUME NEW i \in 1..m PROVE lines'[i].offset = Before(i)' /\ Len(lines'[i].bytes) > 0
    <3>1. i \in 1..(m + 1)
      BY <1>m
    <3> QED BY <1>1, <1>m, <1>5, <3>1 DEF Handed, Adjacent
  <2>2. lines'[m + 1].offset = Before(m + 1)' /\ Len(lines'[m + 1].bytes) > 0
    <3>1. m + 1 \in 1..(m + 1) /\ lines'[m + 1] = l /\ Before(m + 1) = HandedTo
      BY <1>1, <1>m DEF HandedTo
    <3> QED BY <1>5, <3>1
  <2>3. ASSUME NEW i \in 1..(m + 1) PROVE lines'[i].offset = Before(i)' /\ Len(lines'[i].bytes) > 0
    <3>1. i \in 1..m \/ i = m + 1
      BY <1>m
    <3> QED BY <2>1, <2>2, <3>1
  <2>4. Len(lines') = m + 1
    BY <1>1, <1>m
  <2> QED BY <2>3, <2>4 DEF Adjacent
<1>7. HandedTo' = EndOf(l)
  <2>1. Len(lines') + 1 = m + 2 /\ m + 2 # 1 /\ (m + 2) - 1 = m + 1
    BY <1>1, <1>m
  <2>2. HandedTo' = Before(m + 2)'
    BY <2>1 DEF HandedTo
  <2>3. Before(m + 2)' = EndOf(lines'[m + 1])
    BY <2>1 DEF Before, EndOf
  <2>4. lines'[m + 1] = l
    BY <1>1, <1>m
  <2> QED BY <2>2, <2>3, <2>4
<1> QED
  BY <1>1, <1>3, <1>4, <1>6, <1>7

LEMMA AdjacentStays ==
  ASSUME lines' = lines
  PROVE  (Adjacent => Adjacent') /\ HandedTo' = HandedTo
BY DEF Adjacent, HandedTo, Before, EndOf

(* One sequence behind another, element by element.                        *)
LEMMA Joined ==
  ASSUME NEW s \in Seq(Symbol), NEW t \in Seq(Symbol)
  PROVE  /\ s \o t \in Seq(Symbol) /\ Len(s \o t) = Len(s) + Len(t)
         /\ \A i \in 1..Len(s) : (s \o t)[i] = s[i]
         /\ \A k \in 1..Len(t) : (s \o t)[Len(s) + k] = t[k]
<1>1. Len(s) \in Nat /\ Len(t) \in Nat
  BY LenProperties
<1>2. /\ s \o t \in Seq(Symbol) /\ Len(s \o t) = Len(s) + Len(t)
      /\ \A i \in 1..Len(s) + Len(t) : (s \o t)[i] = IF i <= Len(s) THEN s[i] ELSE t[i - Len(s)]
  BY ConcatProperties
<1> HIDE DEF Symbol
<1>3. \A i \in 1..Len(s) : (s \o t)[i] = s[i]
  BY <1>1, <1>2
<1>4. ASSUME NEW k \in 1..Len(t) PROVE (s \o t)[Len(s) + k] = t[k]
  <2>1. Len(s) + k \in 1..Len(s) + Len(t) /\ ~(Len(s) + k <= Len(s)) /\ Len(s) + k - Len(s) = k
    BY <1>1
  <2> QED
    BY <1>2, <2>1
<1> QED
  BY <1>2, <1>3, <1>4

LEMMA InitFrame == Init => FrameInv
<1> SUFFICES ASSUME Init PROVE FrameInv
  OBVIOUS
<1>1. source \in Seq(Symbol)
  <2>1. PICK n \in 0..MaxBytes : source \in [1..n -> Symbol]
    BY DEF Init
  <2> QED
    BY <2>1
<1>2. \A S : <<>> \in Seq(S) /\ Len(<<>>) = 0
  BY EmptySeq
<1>3. FrameType
  BY <1>1, <1>2 DEF Init, FrameType
<1>4. Tailed /\ Handed
  BY <1>2 DEF Init, Tailed, Taken, Handed, LinesInFile, Ends, NewlinesUpTo, Adjacent, HandedTo, Before
<1> QED
  BY <1>3, <1>4 DEF FrameInv

LEMMA ReadStep ==
  ASSUME FrameInv, NEW n \in 1..MaxChunk, Read(n)
  PROVE  FrameInv'
<1> DEFINE new == SubSeq(source, 1, n)
<1>0. FrameType /\ Tailed /\ Handed /\ n \in Nat /\ n <= Len(source) /\ Len(source) \in Nat
      /\ Len(raw) \in Nat /\ Len(buffer) \in Nat
  BY LenProperties DEF FrameInv, FrameType, Read
<1>1. /\ new \in Seq(Symbol) /\ Len(new) = n
      /\ SubSeq(source, n + 1, Len(source)) \in Seq(Symbol)
  <2>1. \A i \in 1..Len(source) : source[i] \in Symbol
    BY <1>0, ElementOfSeq DEF FrameType
  <2> QED
    BY <1>0, <2>1, SubSeqProperties
<1> HIDE DEF new
<1>2. /\ raw' \in Seq(Symbol) /\ Len(raw') = Len(raw) + n
      /\ \A i \in 1..Len(raw) : raw'[i] = raw[i]
      /\ \A k \in 1..n : raw'[Len(raw) + k] = new[k]
  <2>1. raw' = raw \o new /\ raw \in Seq(Symbol)
    BY <1>0 DEF Read, FrameType, new
  <2> QED
    BY <1>1, <2>1, Joined
<1>3. /\ buffer' \in Seq(Symbol) /\ Len(buffer') = Len(buffer) + n
      /\ \A i \in 1..Len(buffer) : buffer'[i] = buffer[i]
      /\ \A k \in 1..n : buffer'[Len(buffer) + k] = new[k]
  <2>1. buffer' = buffer \o new /\ buffer \in Seq(Symbol)
    BY <1>0 DEF Read, FrameType, new
  <2> QED
    BY <1>1, <2>1, Joined
<1>4. /\ lines' = lines /\ phase = "read" /\ phase' = "split" /\ offset' = offset + n
      /\ chunk' = [offset |-> offset, length |-> n]
      /\ source' = SubSeq(source, n + 1, Len(source))
  BY DEF Read
<1>5. FrameType'
  BY <1>0, <1>1, <1>2, <1>3, <1>4 DEF FrameType
<1>6. Taken' = Taken /\ Taken \in Nat
  BY <1>0, <1>2, <1>3 DEF Taken, Tailed
<1>7. Tailed'
  <2>1. ASSUME NEW k \in 1..Len(buffer') PROVE buffer'[k] = raw'[Taken + k]
    <3>1. CASE k <= Len(buffer)
      <4>1. k \in 1..Len(buffer) /\ Taken + k \in 1..Len(raw)
        BY <1>0, <1>3, <2>1, <3>1 DEF Tailed, Taken
      <4> QED
        BY <1>0, <1>2, <1>3, <4>1 DEF Tailed
    <3>2. CASE k > Len(buffer)
      <4>1. PICK j \in 1..n : k = Len(buffer) + j
        BY <1>0, <1>3, <2>1, <3>2
      <4>2. Taken + k = Len(raw) + j
        BY <1>0, <4>1 DEF Taken
      <4> QED
        BY <1>2, <1>3, <4>1, <4>2
    <3> QED
      BY <1>0, <1>3, <2>1, <3>1, <3>2
  <2> QED
    BY <1>0, <1>2, <1>4, <1>6, <2>1 DEF Tailed, FrameType
<1>8. Handed'
  <2>1. \A i \in 1..Len(lines) : InFile(lines[i])'
    <3> SUFFICES ASSUME NEW i \in 1..Len(lines) PROVE InFile(lines[i])'
      OBVIOUS
    <3>1. lines[i] \in Line /\ InFile(lines[i]) /\ lines'[i] = lines[i]
      BY <1>0, <1>4, ElementOfSeq DEF FrameType, Handed, LinesInFile
    <3>2. Len(lines[i].bytes) \in Nat /\ lines[i].offset \in Nat
      BY <3>1, LenProperties DEF Line
    <3>3. \A k \in 1..Len(lines[i].bytes) : lines[i].offset + k \in 1..Len(raw)
      BY <1>0, <3>1, <3>2 DEF InFile, EndOf
    <3>4. EndOf(lines[i]) \in Nat
      BY <3>2 DEF EndOf
    <3>5. \A k \in 1..Len(lines[i].bytes) : raw'[lines[i].offset + k] = lines[i].bytes[k]
      BY <1>2, <3>1, <3>3 DEF InFile
    <3> QED
      BY <1>0, <1>2, <1>4, <3>1, <3>4, <3>5 DEF InFile, EndOf
  <2>2. Ends' = Ends /\ NewlinesUpTo(Taken)' = NewlinesUpTo(Taken)
    BY <1>0, <1>2, <1>4, <1>6 DEF Ends, NewlinesUpTo, Taken
  <2>4. (Adjacent => Adjacent') /\ HandedTo' = HandedTo
    BY <1>4, AdjacentStays
  <2>3. Taken > 0 => raw'[Taken] = raw[Taken]
    <3>1. Taken > 0 => Taken \in 1..Len(raw)
      BY <1>0, <1>6 DEF Taken
    <3> QED
      BY <1>2, <3>1
  <2> QED
    BY <1>0, <1>4, <1>6, <2>1, <2>2, <2>3, <2>4 DEF Handed, LinesInFile
<1> QED
  BY <1>5, <1>7, <1>8 DEF FrameInv

LEMMA TakeLineStep ==
  ASSUME FrameInv, TakeLine
  PROVE  FrameInv'
<1> DEFINE nl == FirstLineEnd(buffer)
           line == [offset |-> LineOffset(SubSeq(buffer, nl + 1, Len(buffer)), nl),
                    bytes  |-> SubSeq(buffer, 1, nl)]
<1>0. /\ FrameType /\ Tailed /\ Handed /\ phase = "split" /\ phase' = "split"
      /\ Len(raw) \in Nat /\ Len(buffer) \in Nat /\ Taken \in Nat
  BY LenProperties DEF FrameInv, FrameType, Tailed, TakeLine
<1>1. nl \in 1..Len(buffer) /\ buffer[nl] = Newline /\ \A i \in 1..(nl - 1) : buffer[i] # Newline
  <2>1. buffer \in Seq(Symbol) /\ FirstLineEnd(buffer) > 0
    BY <1>0 DEF FrameType, TakeLine
  <2> QED
    BY <2>1, FirstLineEndIsFirst
<1>2. buffer' = SubSeq(buffer, nl + 1, Len(buffer)) /\ lines' = Append(lines, line)
      /\ UNCHANGED <<source, raw, offset, chunk>>
  BY DEF TakeLine
<1>3. \A i \in 1..Len(buffer) : buffer[i] \in Symbol
  BY <1>0, ElementOfSeq DEF FrameType
<1> HIDE DEF nl
<1>4. /\ buffer' \in Seq(Symbol) /\ Len(buffer') = Len(buffer) - nl
      /\ \A k \in 1..(Len(buffer) - nl) : buffer'[k] = buffer[nl + k]
  <2>1. \A i \in (nl + 1)..Len(buffer) : buffer[i] \in Symbol
    BY <1>0, <1>1, <1>3
  <2>2. /\ SubSeq(buffer, nl + 1, Len(buffer)) \in Seq(Symbol)
        /\ Len(SubSeq(buffer, nl + 1, Len(buffer))) =
             IF nl + 1 <= Len(buffer) THEN Len(buffer) - (nl + 1) + 1 ELSE 0
        /\ \A k \in 1..(Len(buffer) - (nl + 1) + 1) :
             SubSeq(buffer, nl + 1, Len(buffer))[k] = buffer[(nl + 1) + k - 1]
    BY <1>0, <1>1, <2>1, SubSeqProperties
  <2>3. \A k \in 1..(Len(buffer) - nl) : (nl + 1) + k - 1 = nl + k
    BY <1>0, <1>1
  <2>4. /\ Len(buffer) - (nl + 1) + 1 = Len(buffer) - nl
        /\ ~(nl + 1 <= Len(buffer)) => Len(buffer) - nl = 0
    BY <1>0, <1>1
  <2> QED
    BY <1>2, <2>2, <2>3, <2>4
<1>5. /\ SubSeq(buffer, 1, nl) \in Seq(Symbol) /\ Len(SubSeq(buffer, 1, nl)) = nl
      /\ \A k \in 1..nl : SubSeq(buffer, 1, nl)[k] = buffer[k]
  <2>1. \A i \in 1..nl : buffer[i] \in Symbol
    BY <1>0, <1>1, <1>3
  <2> QED
    BY <1>0, <1>1, <2>1, SubSeqProperties
<1>6. line.offset = Taken /\ line.bytes = SubSeq(buffer, 1, nl)
  <2>1. LineOffset(buffer', nl) = chunk.offset + chunk.length - (Len(buffer) - nl) - nl
    BY <1>4 DEF LineOffset
  <2>2. chunk.offset + chunk.length = Len(raw) /\ chunk.offset \in Nat /\ chunk.length \in Nat
    BY <1>0 DEF Tailed, FrameType
  <2> QED
    BY <1>0, <1>1, <1>2, <2>1, <2>2 DEF Taken
<1>7. line \in Line
  BY <1>0, <1>5, <1>6 DEF Line
<1> HIDE DEF line
<1>8. Taken' = Taken + nl /\ Taken' \in Nat /\ Taken' <= Len(raw) /\ Taken' > 0
  <2>1. raw' = raw /\ Len(buffer') = Len(buffer) - nl
    BY <1>2, <1>4
  <2>2. nl \in Nat /\ nl > 0 /\ nl <= Len(buffer)
    BY <1>0, <1>1
  <2>3. Taken' = Taken + nl
    BY <1>0, <2>1, <2>2 DEF Taken
  <2>4. Taken + nl <= Len(raw)
    BY <1>0, <2>2 DEF Taken
  <2> QED
    BY <1>0, <2>2, <2>3, <2>4
<1>9. InFile(line) /\ EndOf(line) = Taken'
  <2>1. EndOf(line) = Taken'
    BY <1>5, <1>6, <1>8 DEF EndOf
  <2>2. \A k \in 1..nl : k \in 1..Len(buffer)
    BY <1>0, <1>1
  <2>3. \A k \in 1..nl : raw[Taken + k] = buffer[k]
    BY <1>0, <2>2 DEF Tailed
  <2> QED
    BY <1>5, <1>6, <1>8, <2>1, <2>3 DEF InFile
<1>10. lines' \in Seq(Line) /\ Ends' = Ends \cup {Taken'} /\ LinesInFile' /\ Adjacent' /\ HandedTo' = Taken'
  <2>1. line.offset = HandedTo /\ Len(line.bytes) > 0
    BY <1>0, <1>1, <1>5, <1>6 DEF Handed
  <2> QED BY <1>0, <1>2, <1>7, <1>9, <2>1, HandedOver
<1>11. raw[Taken'] = Newline
  BY <1>0, <1>1, <1>8 DEF Tailed
<1>12. NewlinesUpTo(Taken)' = NewlinesUpTo(Taken) \cup {Taken'}
  <2>1. ASSUME NEW i \in 1..Taken', raw[i] = Newline, i > Taken PROVE i = Taken'
    <3>0. i - Taken \in 1..nl /\ i = Taken + (i - Taken)
      BY <1>0, <1>1, <1>8, <2>1
    <3>1. PICK k \in 1..nl : i = Taken + k
      BY <3>0
    <3>2. k \in 1..Len(buffer) /\ buffer[k] = Newline
      BY <1>0, <1>1, <2>1, <3>1 DEF Tailed
    <3>3. ~(k \in 1..(nl - 1))
      BY <1>1, <3>2
    <3> QED
      BY <1>0, <1>1, <1>8, <3>1, <3>3
  <2> QED
    BY <1>0, <1>1, <1>2, <1>8, <1>11, <2>1 DEF NewlinesUpTo
<1>13. FrameType'
  BY <1>0, <1>2, <1>4, <1>10 DEF FrameType
<1>14. Tailed'
  <2>1. ASSUME NEW k \in 1..Len(buffer') PROVE buffer'[k] = raw'[Taken' + k]
    <3>1. nl + k \in 1..Len(buffer) /\ Taken' + k = Taken + (nl + k) /\ k \in 1..(Len(buffer) - nl)
      BY <1>0, <1>1, <1>4, <1>8, <2>1
    <3> QED
      BY <1>0, <1>2, <1>4, <3>1 DEF Tailed
  <2> QED
    BY <1>0, <1>2, <1>8, <2>1 DEF Tailed
<1>15. Handed'
  BY <1>0, <1>2, <1>10, <1>11, <1>12 DEF Handed
<1> QED
  BY <1>13, <1>14, <1>15 DEF FrameInv

LEMMA EofStep ==
  ASSUME FrameInv, Eof
  PROVE  FrameInv'
<1>0. /\ FrameType /\ Tailed /\ Handed /\ phase = "read" /\ phase' = "done"
      /\ Len(raw) \in Nat /\ Len(buffer) \in Nat /\ Taken \in Nat
      /\ UNCHANGED <<source, raw, offset, chunk, buffer>>
  BY LenProperties DEF FrameInv, FrameType, Tailed, Eof
<1>1. Tailed'
  BY <1>0 DEF Tailed, Taken
<1>2. CASE buffer = <<>>
  <2>1. lines' = lines /\ Taken = Len(raw)
    <3>1. Len(buffer) = 0
      BY <1>2, EmptySeq
    <3> QED
      BY <1>0, <1>2, <3>1 DEF Eof, Taken
  <2>2. Ends' = Ends /\ Ends = NewlinesUpTo(Len(raw)) /\ LinesInFile'
    BY <1>0, <2>1 DEF Handed, Ends, LinesInFile, InFile, EndOf
  <2>3. NewlinesUpTo(Len(raw)) = {i \in 1..Len(raw) : raw[i] = Newline \/ i = Len(raw)}
    BY <1>0, <2>1 DEF Handed, NewlinesUpTo
  <2>5. Adjacent'
    BY <1>0, <2>1, AdjacentStays DEF Handed
  <2>4. Handed'
    BY <1>0, <2>2, <2>3, <2>5 DEF Handed
  <2> QED
    BY <1>0, <1>1, <2>1, <2>4 DEF FrameInv, FrameType
<1>3. CASE buffer # <<>>
  <2> DEFINE line == [offset |-> offset - Len(buffer), bytes |-> buffer]
  <2>1. lines' = Append(lines, line)
    BY <1>3 DEF Eof
  <2>2. line.offset = Taken /\ line.bytes = buffer /\ Len(buffer) > 0 /\ line \in Line
    <3>1. Len(buffer) > 0
      BY <1>0, <1>3, EmptySeq DEF FrameType
    <3> QED
      BY <1>0, <3>1 DEF FrameType, Taken, Line
  <2> HIDE DEF line
  <2>3. EndOf(line) = Len(raw) /\ InFile(line)
    <3>1. EndOf(line) = Len(raw)
      BY <1>0, <2>2 DEF EndOf, Taken
    <3> QED
      BY <1>0, <2>2, <3>1 DEF InFile, Tailed
  <2>4. lines' \in Seq(Line) /\ Ends' = Ends \cup {Len(raw)} /\ LinesInFile' /\ Adjacent'
    <3>1. line.offset = HandedTo
      BY <1>0, <2>2 DEF Handed
    <3> QED BY <1>0, <2>1, <2>2, <2>3, <3>1, HandedOver
  <2>5. ASSUME NEW i \in 1..Len(raw), raw[i] = Newline PROVE i <= Taken
    <3> SUFFICES ASSUME i > Taken PROVE FALSE
      BY <1>0
    <3>1. PICK k \in 1..Len(buffer) : i = Taken + k
      BY <1>0, <2>5 DEF Taken
    <3> QED
      BY <1>0, <2>5, <3>1 DEF Tailed
  <2>6. Ends = {i \in 1..Len(raw) : raw[i] = Newline}
    BY <1>0, <2>5 DEF Handed, NewlinesUpTo, Taken
  <2>7. Len(raw) \in 1..Len(raw)
    BY <1>0, <2>2 DEF Taken
  <2>8. Ends' = {i \in 1..Len(raw) : raw[i] = Newline \/ i = Len(raw)}
    BY <2>4, <2>6, <2>7
  <2>9. Handed'
    BY <1>0, <2>4, <2>8 DEF Handed
  <2> QED
    BY <1>0, <1>1, <2>4, <2>9 DEF FrameInv, FrameType
<1> QED
  BY <1>2, <1>3

LEMMA FrameInvHolds == Spec => []FrameInv
<1>1. FrameInv /\ [Next]_vars => FrameInv'
  <2> SUFFICES ASSUME FrameInv, [Next]_vars PROVE FrameInv'
    OBVIOUS
  <2>1. CASE LoopEnds
    <3>1. \A k \in 1..Len(buffer) : buffer[k] # Newline
      <4>1. buffer \in Seq(Symbol) /\ FirstLineEnd(buffer) = 0
        BY <2>1 DEF FrameInv, FrameType, LoopEnds
      <4> QED
        BY <4>1, FirstLineEndIsFirst
    <3> QED
      <4>1. (Adjacent => Adjacent') /\ HandedTo' = HandedTo
        BY <2>1, AdjacentStays DEF LoopEnds
      <4> QED
        BY <2>1, <3>1, <4>1 DEF LoopEnds, FrameInv, FrameType, Tailed, Taken, Handed, LinesInFile, InFile,
                                EndOf, Ends, NewlinesUpTo
  <2>2. CASE UNCHANGED vars
    <3>1. /\ raw' = raw /\ source' = source /\ buffer' = buffer /\ lines' = lines
          /\ offset' = offset /\ chunk' = chunk /\ phase' = phase
      BY <2>2 DEF vars
    <3>2. FrameType'
      BY <3>1 DEF FrameInv, FrameType
    <3>3. Tailed'
      BY <3>1 DEF FrameInv, Tailed, Taken
    <3>4. Handed'
      <4>1. (Adjacent => Adjacent') /\ HandedTo' = HandedTo
        BY <3>1, AdjacentStays
      <4> QED
        BY <3>1, <4>1 DEF FrameInv, Handed, LinesInFile, InFile, EndOf, Ends, NewlinesUpTo, Taken
    <3> QED
      BY <3>2, <3>3, <3>4 DEF FrameInv
  <2> QED
    BY <2>1, <2>2, ReadStep, TakeLineStep, EofStep DEF Next, Over
<1> QED
  BY <1>1, InitFrame, PTL DEF Spec

-----------------------------------------------------------------------------
(* The lines handed to decode_line lie one behind the other in stdout.raw, *)
(* each where its raw_offset says, and at the end of the stream they are   *)
(* exactly those of the finished file, none twice and none missing         *)
(* (recorder.py 107-141).                                                  *)
THEOREM SameAsWholeFileHolds == Spec => []SameAsWholeFile
<1>1. ASSUME FrameInv PROVE SameAsWholeFile
  <2>0. /\ FrameType /\ LinesInFile /\ Adjacent /\ Len(raw) \in Nat /\ Len(lines) \in Nat
        /\ DOMAIN lines = 1..Len(lines) /\ DOMAIN raw = 1..Len(raw)
    BY <1>1, LenProperties DEF FrameInv, FrameType, Handed
  <2>1. ASSUME NEW i \in 1..Len(lines)
        PROVE  SubSeq(raw, lines[i].offset + 1, EndOf(lines[i])) = lines[i].bytes
    <3> DEFINE b == lines[i].bytes
               o == lines[i].offset
               e == EndOf(lines[i])
               s == SubSeq(raw, o + 1, e)
    <3>1. o \in Nat /\ b \in Seq(Symbol) /\ InFile(lines[i])
      <4>1. lines[i] \in Line
        BY <2>0, ElementOfSeq DEF FrameType
      <4> QED
        BY <2>0, <4>1 DEF LinesInFile, Line
    <3>2. Len(b) \in Nat /\ e = o + Len(b) /\ e <= Len(raw)
      <4>1. Len(b) \in Nat
        BY <3>1, LenProperties
      <4> QED
        BY <3>1, <4>1 DEF EndOf, InFile
    <3>3. \A k \in 1..Len(b) : raw[o + k] = b[k]
      BY <3>1 DEF InFile
    <3> HIDE DEF o, b, e
    <3>4. \A k \in (o + 1)..e : raw[k] \in Symbol
      <4>1. \A k \in (o + 1)..e : k \in 1..Len(raw)
        BY <2>0, <3>1, <3>2
      <4> QED
        BY <2>0, <4>1, ElementOfSeq DEF FrameType
    <3>5. /\ s \in Seq(Symbol)
          /\ Len(s) = IF o + 1 <= e THEN e - (o + 1) + 1 ELSE 0
          /\ \A k \in 1..(e - (o + 1) + 1) : s[k] = raw[(o + 1) + k - 1]
      BY <3>1, <3>2, <3>4, SubSeqProperties
    <3> HIDE DEF s
    <3>6. Len(s) = Len(b)
      BY <3>1, <3>2, <3>5
    <3>7. \A k \in 1..Len(b) : s[k] = b[k]
      <4>1. \A k \in 1..Len(b) : k \in 1..(e - (o + 1) + 1) /\ (o + 1) + k - 1 = o + k
        BY <3>1, <3>2
      <4> QED
        BY <3>3, <3>5, <4>1
    <3>8. s = b
      BY <3>1, <3>5, <3>6, <3>7, SeqEqual
    <3> QED
      BY <3>8 DEF s, o, b, e
  <2>2. phase = "done" =>
          {EndOf(lines[i]) : i \in DOMAIN lines} = {i \in DOMAIN raw : raw[i] = Newline \/ i = Len(raw)}
    BY <1>1, <2>0 DEF FrameInv, Handed, Ends
  <2>3. ASSUME NEW i \in 1..Len(lines) PROVE lines[i].offset = Before(i) /\ lines[i].bytes # <<>>
    <3>1. lines[i].offset = Before(i) /\ Len(lines[i].bytes) > 0
      BY <2>0 DEF Adjacent
    <3> QED BY <3>1, EmptySeq
  <2>4. \A i \in 1..Len(lines) : EndOf(lines[i]) <= Len(raw)
    BY <2>0 DEF LinesInFile, InFile
  <2> QED
    BY <2>0, <2>1, <2>2, <2>3, <2>4 DEF SameAsWholeFile
<1> QED
  BY <1>1, FrameInvHolds, PTL
===============================================================================
