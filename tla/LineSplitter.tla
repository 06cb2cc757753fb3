---------------------------- MODULE LineSplitter ----------------------------
(***************************************************************************)
(* What the adapter's transport promises (INTERFACE.md, transport framing, *)
(* as main.rs carries it out): the input is cut at its newlines, whatever  *)
(* the chunks it arrives in; every line is handled once, in order; a line  *)
(* over the limit is handled as its first MaxLine bytes, marked truncated; *)
(* a last line without its newline is handled too.                         *)
(***************************************************************************)
EXTENDS Naturals, Sequences

CONSTANTS Byte, NewLine, MaxLine

VARIABLES
  stream,   \* the whole input
  start,    \* bytes before the line to be handled next
  lines,    \* the lines handled so far
  closed    \* no further line will be handled

vars == <<stream, start, lines, closed>>

Smaller(a, b) == IF a <= b THEN a ELSE b

\* The line that occupies positions a+1 .. b of the input.
Cut(a, b) == [bytes |-> SubSeq(stream, a + 1, Smaller(b, a + MaxLine)),
              truncated |-> b - a > MaxLine]

NoNewLine(a, b) == \A k \in a + 1 .. b : stream[k] # NewLine

Init == /\ stream \in Seq(Byte) /\ start = 0 /\ lines = <<>> /\ closed = FALSE

\* The next line ends at its newline.
Line ==
  /\ ~closed
  /\ \E e \in start + 1 .. Len(stream) :
       /\ stream[e] = NewLine /\ NoNewLine(start, e - 1)
       /\ lines' = Append(lines, Cut(start, e - 1))
       /\ start' = e
  /\ closed' \in BOOLEAN /\ UNCHANGED stream

\* The input ends inside a line.
LastLine ==
  /\ ~closed /\ start < Len(stream) /\ NoNewLine(start, Len(stream))
  /\ lines' = Append(lines, Cut(start, Len(stream)))
  /\ start' = Len(stream)
  /\ closed' \in BOOLEAN /\ UNCHANGED stream

\* The input is used up, or a read or write fails.
Close == ~closed /\ closed' = TRUE /\ UNCHANGED <<stream, start, lines>>

Next == Line \/ LastLine \/ Close

Spec == Init /\ [][Next]_vars
=============================================================================
