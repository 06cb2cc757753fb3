-------------------------- MODULE LineReader_proofs --------------------------
(***************************************************************************)
(* For every limit, alphabet, input and chunking: the adapter's line       *)
(* reader keeps exactly the current line's prefix, loses no line at a      *)
(* clean end of input, and implements the chunk-free LineSplitter.         *)
(***************************************************************************)
EXTENDS LineReader, SequenceTheorems, TLAPS

\* The inductive invariant: types, the meaning of the buffer, and that the
\* current line has no newline among the bytes consumed.
Inv == TypeOK /\ BufferIsPrefix /\ NoNewLineAt(start, pos) /\ CleanEndHandledAll

\* A prefix of a range of the input has the length of the range.
LEMMA PrefixLength ==
  ASSUME TypeOK, NEW a \in 0 .. Len(stream), NEW b \in a .. Len(stream)
  PROVE  /\ SubSeq(stream, a + 1, b) \in Seq(Byte)
         /\ Len(SubSeq(stream, a + 1, b)) = b - a
<1>1. \A i \in a + 1 .. b : stream[i] \in Byte
  BY DEF TypeOK
<1>2. QED
  BY <1>1, SubSeqProperties, SMT

\* The buffer holds as many bytes as fit.
LEMMA BufferLength ==
  ASSUME Inv
  PROVE  Len(buffer) = Smaller(pos - start, MaxLine)
<1>1. pos \in start .. Len(stream) /\ start \in 0 .. Len(stream) /\ MaxLine \in Nat
  BY ReaderAssumption DEF Inv, TypeOK
<1>2. Smaller(pos, start + MaxLine) \in start .. Len(stream)
  BY <1>1 DEF Smaller
<1>3. Len(SubSeq(stream, start + 1, Smaller(pos, start + MaxLine)))
        = Smaller(pos, start + MaxLine) - start
  BY <1>1, <1>2, PrefixLength DEF Inv
<1>4. QED
  BY <1>1, <1>3 DEF Inv, BufferIsPrefix, Smaller

\* Reading on to position e keeps the meaning of the buffer.
LEMMA KeepsPrefix ==
  ASSUME Inv, NEW e \in pos .. filled
  PROVE  /\ Kept(e - pos) = SubSeq(stream, start + 1, Smaller(e, start + MaxLine))
         /\ Over(e - pos) = (e - start > MaxLine)
         /\ Kept(e - pos) \in Seq(Byte)
         /\ Over(e - pos) \in BOOLEAN
<1>1. /\ MaxLine \in Nat \ {0} /\ start \in Nat /\ pos \in Nat /\ e \in Nat
      /\ Len(stream) \in Nat /\ stream \in Seq(Byte)
      /\ start <= pos /\ pos <= e /\ e <= Len(stream) /\ truncated \in BOOLEAN
  BY ReaderAssumption DEF Inv, TypeOK
<1>2. Len(buffer) = Smaller(pos - start, MaxLine)
  BY BufferLength
<1>3. truncated <=> pos - start > MaxLine
  BY DEF Inv, BufferIsPrefix
<1>4. Smaller(e, start + MaxLine) \in start .. Len(stream)
  BY <1>1 DEF Smaller
<1>5. SubSeq(stream, start + 1, Smaller(e, start + MaxLine)) \in Seq(Byte)
  BY <1>1, <1>4, PrefixLength DEF Inv
<1>6. CASE truncated
  <2>1. Smaller(pos, start + MaxLine) = Smaller(e, start + MaxLine)
    BY <1>1, <1>3, <1>6 DEF Smaller
  <2>2. Kept(e - pos) = buffer /\ Over(e - pos)
    BY <1>6 DEF Kept, Over
  <2>3. e - start > MaxLine
    BY <1>1, <1>3, <1>6
  <2>4. /\ Over(e - pos) = (e - start > MaxLine)
        /\ Over(e - pos) \in BOOLEAN
    BY <2>3, <1>6, Zenon DEF Over
  <2>5. Kept(e - pos) = SubSeq(stream, start + 1, Smaller(e, start + MaxLine))
    BY <2>1, <2>2 DEF Inv, BufferIsPrefix
  <2>6. Kept(e - pos) \in Seq(Byte)
    BY <2>5, <1>5
  <2>7. QED
    BY <2>4, <2>5, <2>6
<1>7. CASE ~truncated
  <2>1. /\ Smaller(pos, start + MaxLine) = pos
        /\ pos + Take(e - pos) = Smaller(e, start + MaxLine)
        /\ (Take(e - pos) < e - pos) <=> (e - start > MaxLine)
    BY <1>1, <1>2, <1>3, <1>7 DEF Take, Smaller
  <2>2. buffer = SubSeq(stream, start + 1, pos)
    BY <2>1 DEF Inv, BufferIsPrefix
  <2>3. Smaller(e, start + MaxLine) \in pos .. Len(stream)
    BY <1>1, <1>3, <1>7 DEF Smaller
  <2>4. SubSeq(stream, start + 1, pos) \o SubSeq(stream, pos + 1, Smaller(e, start + MaxLine))
          = SubSeq(stream, start + 1, Smaller(e, start + MaxLine))
    <3>1. /\ start + 1 \in 1 .. Len(stream) + 1
          /\ pos \in (start + 1) - 1 .. Len(stream)
      BY <1>1
    <3>2. QED
      BY <3>1, <2>3, <1>1, ConcatAdjacentSubSeq
  <2>5. Kept(e - pos) = SubSeq(stream, start + 1, Smaller(e, start + MaxLine))
    BY <2>1, <2>2, <2>4, <1>7 DEF Kept
  <2>6. /\ Over(e - pos) = (e - start > MaxLine)
        /\ Over(e - pos) \in BOOLEAN
    <3>1. CASE e - start > MaxLine
      BY <2>1, <3>1, Zenon DEF Over
    <3>2. CASE ~(e - start > MaxLine)
      <4>1. Over(e - pos) = FALSE
        BY <2>1, <3>2, <1>7, Zenon DEF Over
      <4>2. (e - start > MaxLine) = FALSE
        BY <3>2, <1>1
      <4>3. QED
        BY <4>1, <4>2, Zenon
    <3>3. QED
      BY <3>1, <3>2
  <2>7. Kept(e - pos) \in Seq(Byte)
    BY <2>5, <1>5
  <2>8. QED
    BY <2>5, <2>6, <2>7
<1>8. QED
  BY <1>1, <1>6, <1>7

\* The initial state satisfies the inductive invariant.
LEMMA InitInv == Init => Inv
<1> SUFFICES ASSUME Init PROVE Inv
  OBVIOUS
<1>1. stream \in Seq(Byte)
  <2>1. PICK n \in 0 .. MaxStream : stream \in [1 .. n -> Byte]
    BY DEF Init, Streams
  <2>2. n \in Nat
    BY ReaderAssumption
  <2>3. QED
    BY <2>1, <2>2, SeqDef
<1>2. TypeOK
  <2>1. Len(stream) \in Nat
    BY <1>1
  <2>2. buffer \in Seq(Byte) /\ handled \in Seq([bytes : Seq(Byte), truncated : BOOLEAN])
    BY EmptySeq DEF Init
  <2>3. filled \in 0 .. Len(stream) /\ pos \in 0 .. filled /\ start \in 0 .. pos
    BY <2>1 DEF Init
  <2>4. QED
    BY <1>1, <2>2, <2>3, Zenon DEF Init, TypeOK
<1>3. Smaller(0, 0 + MaxLine) = 0 /\ (0 - 0 > MaxLine) = FALSE
  BY ReaderAssumption DEF Smaller
<1>4. SubSeq(stream, 0 + 1, 0) = <<>>
  BY SubSeqEmpty
<1>5. BufferIsPrefix
  BY <1>3, <1>4, Zenon DEF Init, BufferIsPrefix
<1>6. NoNewLineAt(start, pos) /\ CleanEndHandledAll
  BY DEF Init, NoNewLineAt, CleanEndHandledAll
<1>7. QED
  BY <1>2, <1>5, <1>6 DEF Inv

\* A line is handled at position e, and the next one starts there.
LEMMA AfterLine ==
  ASSUME Inv, NEW e \in pos .. filled, NEW line \in Seq(Byte), NEW over \in BOOLEAN,
         Handle(line, over), pos' = e, start' = e, UNCHANGED <<stream, filled>>
  PROVE  Inv'
<1>1. TypeOK'
  <2>1. buffer' \in Seq(Byte)
    BY EmptySeq DEF Handle
  <2>2. handled' \in Seq([bytes : Seq(Byte), truncated : BOOLEAN])
    BY AppendProperties DEF Inv, TypeOK, Handle
  <2>3. pc' \in {"reading", "done", "failed"} /\ truncated' \in BOOLEAN
    BY DEF Handle
  <2>4. filled' \in 0 .. Len(stream') /\ pos' \in 0 .. filled' /\ start' \in 0 .. pos'
    BY DEF Inv, TypeOK
  <2>5. QED
    BY <2>1, <2>2, <2>3, <2>4 DEF Inv, TypeOK
<1>2. e \in Nat /\ MaxLine \in Nat
  BY ReaderAssumption DEF Inv, TypeOK
<1>3. Smaller(e, e + MaxLine) = e /\ (e - e > MaxLine) = FALSE
  BY <1>2 DEF Smaller
<1>4. SubSeq(stream, e + 1, e) = <<>>
  BY <1>2, SubSeqEmpty
<1>5. BufferIsPrefix'
  BY <1>3, <1>4, Zenon DEF BufferIsPrefix, Handle
<1>6. NoNewLineAt(start, pos)'
  BY <1>2 DEF NoNewLineAt
<1>7. CleanEndHandledAll'
  BY DEF CleanEndHandledAll, Handle
<1>8. QED
  BY <1>1, <1>5, <1>6, <1>7 DEF Inv

\* Every step of the reader keeps the inductive invariant.
LEMMA StepInv == Inv /\ [Next]_vars => Inv'
<1> SUFFICES ASSUME Inv, [Next]_vars PROVE Inv'
  OBVIOUS
<1>t. /\ MaxLine \in Nat \ {0} /\ start \in Nat /\ pos \in Nat /\ filled \in Nat
      /\ Len(stream) \in Nat /\ start <= pos /\ pos <= filled /\ filled <= Len(stream)
  BY ReaderAssumption DEF Inv, TypeOK
<1>1. CASE Fill
  BY <1>1, <1>t DEF Fill, Inv, TypeOK, BufferIsPrefix, NoNewLineAt, CleanEndHandledAll
<1>2. CASE TakeChunk
  <2>1. filled \in pos .. filled
    BY <1>t
  <2>2. /\ buffer' = SubSeq(stream, start + 1, Smaller(filled, start + MaxLine))
        /\ truncated' = (filled - start > MaxLine)
        /\ buffer' \in Seq(Byte) /\ truncated' \in BOOLEAN
    BY <2>1, <1>2, KeepsPrefix DEF TakeChunk
  <2>3. TypeOK'
    BY <2>2, <1>2, <1>t DEF TakeChunk, Inv, TypeOK
  <2>4. BufferIsPrefix'
    BY <2>2, <1>2 DEF TakeChunk, BufferIsPrefix
  <2>5. NoNewLineAt(start, pos)'
    BY <1>2, <1>t DEF TakeChunk, Inv, NoNewLineAt
  <2>6. CleanEndHandledAll'
    BY <1>2 DEF TakeChunk, Inv, CleanEndHandledAll
  <2>7. QED
    BY <2>3, <2>4, <2>5, <2>6 DEF Inv
<1>3. CASE TakeLine
  <2>1. PICK e \in pos + 1 .. filled :
          /\ Handle(Kept(e - 1 - pos), Over(e - 1 - pos))
          /\ pos' = e /\ start' = e
    BY <1>3 DEF TakeLine
  <2>2. e - 1 \in pos .. filled /\ e \in pos .. filled
    BY <1>t
  <2>3. Kept((e - 1) - pos) \in Seq(Byte) /\ Over((e - 1) - pos) \in BOOLEAN
    BY <2>2, KeepsPrefix
  <2>4. QED
    BY <2>1, <2>2, <2>3, <1>3, AfterLine DEF TakeLine
<1>4. CASE EndOfInput
  <2>1. Len(buffer) = Smaller(pos - start, MaxLine)
    BY BufferLength
  <2>2. start = Len(stream)
    BY <2>1, <1>4, <1>t DEF EndOfInput, AtEnd, Smaller
  <2>3. TypeOK' /\ BufferIsPrefix' /\ NoNewLineAt(start, pos)'
    BY <1>4 DEF EndOfInput, Inv, TypeOK, BufferIsPrefix, NoNewLineAt
  <2>4. CleanEndHandledAll'
    BY <2>2, <1>4 DEF EndOfInput, CleanEndHandledAll
  <2>5. QED
    BY <2>3, <2>4 DEF Inv
<1>5. CASE LastLine
  <2>1. buffer \in Seq(Byte) /\ truncated \in BOOLEAN /\ pos \in pos .. filled
    BY <1>t DEF Inv, TypeOK
  <2>2. Handle(buffer, truncated) /\ pos' = pos /\ start' = pos
        /\ UNCHANGED <<stream, filled>>
    BY <1>5 DEF LastLine
  <2>3. QED
    BY <2>1, <2>2, AfterLine
<1>6. CASE ReadError
  BY <1>6 DEF ReadError, Inv, TypeOK, BufferIsPrefix, NoNewLineAt, CleanEndHandledAll
<1>7. CASE Finished \/ UNCHANGED vars
  BY <1>7 DEF Finished, vars, Inv, TypeOK, BufferIsPrefix, NoNewLineAt,
              CleanEndHandledAll
<1>8. QED
  BY <1>1, <1>2, <1>3, <1>4, <1>5, <1>6, <1>7 DEF Next

\* The inductive invariant holds in every reachable state of the reader.
LEMMA Invariance == Spec => []Inv
  BY InitInv, StepInv, PTL DEF Spec

\* Type correctness of the reader's state.
THEOREM TypeCorrect == Spec => []TypeOK
<1>1. Inv => TypeOK
  BY DEF Inv
<1>2. QED
  BY <1>1, Invariance, PTL

\* The buffer is the current line's prefix, cut at the limit.
THEOREM BufferMeaning == Spec => []BufferIsPrefix
<1>1. Inv => BufferIsPrefix
  BY DEF Inv
<1>2. QED
  BY <1>1, Invariance, PTL

\* The buffer never exceeds MAX_LINE_BYTES.
THEOREM MemoryBounded == Spec => []BufferBounded
<1>1. Inv => BufferBounded
  <2> SUFFICES ASSUME Inv PROVE BufferBounded
    OBVIOUS
  <2>1. MaxLine \in Nat /\ pos \in Nat /\ start \in Nat /\ start <= pos
    BY ReaderAssumption DEF Inv, TypeOK
  <2>2. QED
    BY <2>1, BufferLength DEF BufferBounded, Smaller
<1>2. QED
  BY <1>1, Invariance, PTL

\* Nothing of the input is left over at a clean end.
THEOREM NoLineLost == Spec => []CleanEndHandledAll
<1>1. Inv => CleanEndHandledAll
  BY DEF Inv
<1>2. QED
  BY <1>1, Invariance, PTL

(***************************************************************************)
(* Refinement: a chunk is a stutter of the splitter; the other steps are   *)
(* its steps.                                                              *)
(***************************************************************************)
\* The reader's initial states are initial states of the splitter.
LEMMA InitMaps == Init => Splitter!Init
  BY InitInv DEF Inv, TypeOK, Init, Splitter!Init

\* Every step of the reader is a step of the splitter or a stutter.
LEMMA StepMaps == Inv /\ [Next]_vars => [Splitter!Next]_(Splitter!vars)
<1> SUFFICES ASSUME Inv, [Next]_vars PROVE [Splitter!Next]_(Splitter!vars)
  OBVIOUS
<1>t. /\ MaxLine \in Nat \ {0} /\ start \in Nat /\ pos \in Nat /\ filled \in Nat
      /\ Len(stream) \in Nat /\ start <= pos /\ pos <= filled /\ filled <= Len(stream)
      /\ NoNewLineAt(start, pos)
  BY ReaderAssumption DEF Inv, TypeOK
<1>1. CASE Fill \/ TakeChunk \/ Finished \/ UNCHANGED vars
  BY <1>1 DEF Fill, TakeChunk, Finished, vars, Splitter!vars
<1>2. CASE TakeLine
  <2>1. PICK e \in pos + 1 .. filled :
          /\ stream[e] = NewLine /\ NoNewLineAt(pos, e - 1)
          /\ Handle(Kept(e - 1 - pos), Over(e - 1 - pos))
          /\ pos' = e /\ start' = e
    BY <1>2 DEF TakeLine
  <2>2. e \in start + 1 .. Len(stream) /\ e - 1 \in pos .. filled
    BY <1>t
  <2>3. Splitter!NoNewLine(start, e - 1)
    BY <2>1, <2>2, <1>t DEF NoNewLineAt, Splitter!NoNewLine
  <2>4. /\ Kept((e - 1) - pos) = SubSeq(stream, start + 1, Smaller(e - 1, start + MaxLine))
        /\ Over((e - 1) - pos) = ((e - 1) - start > MaxLine)
    BY <2>2, KeepsPrefix
  <2>5. [bytes |-> Kept(e - 1 - pos), truncated |-> Over(e - 1 - pos)]
          = Splitter!Cut(start, e - 1)
    BY <2>4, Zenon DEF Splitter!Cut, Splitter!Smaller, Smaller
  <2>6. handled' = Append(handled, Splitter!Cut(start, e - 1))
    BY <2>1, <2>5 DEF Handle
  <2>7. Splitter!Line
    BY <2>1, <2>2, <2>3, <2>6, <1>2 DEF TakeLine, Splitter!Line
  <2>8. QED
    BY <2>7 DEF Splitter!Next
<1>3. CASE LastLine
  <2>1. Len(buffer) = Smaller(pos - start, MaxLine)
    BY BufferLength
  <2>2. start < Len(stream) /\ pos = Len(stream)
    <3>1. buffer \in Seq(Byte) /\ buffer # <<>> /\ pos = Len(stream)
      BY <1>3 DEF LastLine, AtEnd, Inv, TypeOK
    <3>2. Len(buffer) # 0
      BY <3>1, EmptySeq
    <3>3. QED
      BY <3>1, <3>2, <2>1, <1>t DEF Smaller
  <2>3. Splitter!NoNewLine(start, Len(stream))
    BY <2>2, <1>t DEF NoNewLineAt, Splitter!NoNewLine
  <2>4. [bytes |-> buffer, truncated |-> truncated] = Splitter!Cut(start, Len(stream))
    BY <2>2, Zenon DEF Inv, BufferIsPrefix, Splitter!Cut, Splitter!Smaller, Smaller
  <2>5. Splitter!LastLine
    BY <2>2, <2>3, <2>4, <1>3 DEF LastLine, AtEnd, Handle, Splitter!LastLine
  <2>6. QED
    BY <2>5 DEF Splitter!Next
<1>4. CASE EndOfInput \/ ReadError
  BY <1>4 DEF EndOfInput, ReadError, AtEnd, Splitter!Next, Splitter!Close
<1>5. QED
  BY <1>1, <1>2, <1>3, <1>4 DEF Next

\* The adapter's reader implements the splitter, for every chunking.
THEOREM ImplementsSplitter == Spec => SplitsLines
<1>1. Spec => Splitter!Init /\ [][Splitter!Next]_(Splitter!vars)
  BY Invariance, InitMaps, StepMaps, PTL DEF Spec
<1>2. QED
  BY <1>1 DEF SplitsLines, Splitter!Spec
=============================================================================
