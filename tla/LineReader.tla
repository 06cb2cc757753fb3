----------------------------- MODULE LineReader -----------------------------
(***************************************************************************)
(* The Rust interop adapter's stdin loop (rust-iface/src/main.rs): a       *)
(* bounded line reader over BufRead::fill_buf / consume. The kernel hands  *)
(* the input over in chunks of any size; the reader's buffer is what it    *)
(* keeps of the line it is in.                                             *)
(***************************************************************************)
EXTENDS Naturals, Sequences

CONSTANTS
  Byte,      \* the byte values told apart
  NewLine,   \* b'\n'
  MaxLine,   \* MAX_LINE_BYTES
  MaxStream  \* bound: length of the whole input

ASSUME ReaderAssumption ==
  /\ NewLine \in Byte /\ MaxLine \in Nat \ {0} /\ MaxStream \in Nat

VARIABLES
  stream,     \* the whole input, as the peer will have written it
  pos,        \* bytes consumed
  filled,     \* bytes the BufReader has read: its chunk is pos+1 .. filled
  buffer,     \* what is kept of the current line
  truncated,  \* bytes of the current line were discarded
  start,      \* bytes before the current line (history)
  handled,    \* the arguments of each handle_line call, in order
  pc          \* reading, done (clean end of input), failed (read or write error)

vars == <<stream, pos, filled, buffer, truncated, start, handled, pc>>

Smaller(a, b) == IF a <= b THEN a ELSE b

Streams == UNION {[1 .. n -> Byte] : n \in 0 .. MaxStream}

Init ==
  /\ stream \in Streams
  /\ pos = 0 /\ filled = 0 /\ buffer = <<>> /\ truncated = FALSE
  /\ start = 0 /\ handled = <<>> /\ pc = "reading"

\* fill_buf with nothing buffered: the kernel delivers some bytes. With bytes
\* buffered it returns those and reads nothing.
Fill ==
  /\ pc = "reading" /\ pos = filled
  /\ filled' \in pos + 1 .. Len(stream)
  /\ UNCHANGED <<stream, pos, buffer, truncated, start, handled, pc>>

\* mutant: no limit
TakeUnbounded(n) == n
\* How much of the next n bytes the buffer has room for, and what it becomes.
Take(n) == Smaller(n, MaxLine - Len(buffer))
Kept(n) == IF truncated THEN buffer
           ELSE buffer \o SubSeq(stream, pos + 1, pos + Take(n))
\* mutant: forgets earlier chunks
OverHere(n) == Take(n) < n
Over(n) == truncated \/ Take(n) < n

\* The chunk holds no newline: keep what fits, consume it all.
NoNewLineAt(a, b) == \A k \in a + 1 .. b : stream[k] # NewLine
\* mutant: consumes nothing
TakeChunkStalls ==
  /\ pc = "reading" /\ pos < filled /\ NoNewLineAt(pos, filled)
  /\ buffer' = Kept(filled - pos) /\ truncated' = Over(filled - pos)
  /\ UNCHANGED <<stream, pos, filled, start, handled, pc>>
TakeChunk ==
  /\ pc = "reading" /\ pos < filled /\ NoNewLineAt(pos, filled)
  /\ buffer' = Kept(filled - pos) /\ truncated' = Over(filled - pos)
  /\ pos' = filled
  /\ UNCHANGED <<stream, filled, start, handled, pc>>

\* mutant: the mark outlives its line
HandleKeepsMark(line, over) ==
  /\ handled' = Append(handled, [bytes |-> line, truncated |-> over])
  /\ pc' \in {"reading", "failed"}
  /\ buffer' = <<>> /\ truncated' = over
\* handle_line on the line, then the response is written and flushed; a write
\* error ends the loop. The next round starts with a cleared buffer.
Handle(line, over) ==
  /\ handled' = Append(handled, [bytes |-> line, truncated |-> over])
  /\ pc' \in {"reading", "failed"}
  /\ buffer' = <<>> /\ truncated' = FALSE

\* mutant: consumes a byte too many
TakeLineOverruns ==
  /\ pc = "reading"
  /\ \E e \in pos + 1 .. filled :
       /\ stream[e] = NewLine /\ NoNewLineAt(pos, e - 1)
       /\ Handle(Kept(e - 1 - pos), Over(e - 1 - pos))
       /\ pos' = e + 1 /\ start' = e + 1
  /\ UNCHANGED <<stream, filled>>
\* The chunk's first newline is at position e: it ends the line and is
\* consumed with it.
TakeLine ==
  /\ pc = "reading"
  /\ \E e \in pos + 1 .. filled :
       /\ stream[e] = NewLine /\ NoNewLineAt(pos, e - 1)
       /\ Handle(Kept(e - 1 - pos), Over(e - 1 - pos))
       /\ pos' = e /\ start' = e
  /\ UNCHANGED <<stream, filled>>

\* fill_buf returns nothing: end of input, between lines or inside one.
AtEnd == pc = "reading" /\ pos = filled /\ pos = Len(stream)
\* mutant: drops the unfinished line
EndOfInputAtOnce ==
  /\ AtEnd /\ pc' = "done"
  /\ UNCHANGED <<stream, pos, filled, buffer, truncated, start, handled>>
EndOfInput ==
  /\ AtEnd /\ buffer = <<>> /\ pc' = "done"
  /\ UNCHANGED <<stream, pos, filled, buffer, truncated, start, handled>>
LastLine ==
  /\ AtEnd /\ buffer # <<>>
  /\ Handle(buffer, truncated)
  /\ start' = pos /\ UNCHANGED <<stream, pos, filled>>

\* fill_buf fails.
ReadError ==
  /\ pc = "reading" /\ pos = filled /\ pc' = "failed"
  /\ UNCHANGED <<stream, pos, filled, buffer, truncated, start, handled>>

Finished == pc # "reading" /\ UNCHANGED vars

Next == \/ Fill \/ TakeChunk \/ TakeLine \/ EndOfInput \/ LastLine \/ ReadError
        \/ Finished

Spec == Init /\ [][Next]_vars

\* The loop keeps running and the writer does not stall the input.
FairSpec == Spec /\ WF_vars(Next)

(***************************************************************************)
(* Properties.                                                             *)
(***************************************************************************)
TypeOK ==
  /\ stream \in Seq(Byte)
  /\ filled \in 0 .. Len(stream) /\ pos \in 0 .. filled /\ start \in 0 .. pos
  /\ buffer \in Seq(Byte) /\ truncated \in BOOLEAN
  /\ handled \in Seq([bytes : Seq(Byte), truncated : BOOLEAN])
  /\ pc \in {"reading", "done", "failed"}

\* The buffer is bounded by the limit however long the line: the reader's
\* memory does not depend on its input.
BufferBounded == Len(buffer) <= MaxLine

\* The buffer is exactly the current line's first MaxLine bytes, and the
\* truncated mark says whether there were more.
BufferIsPrefix ==
  /\ buffer = SubSeq(stream, start + 1, Smaller(pos, start + MaxLine))
  /\ truncated = (pos - start > MaxLine)

\* The reader implements the chunk-free splitter.
Splitter == INSTANCE LineSplitter WITH lines <- handled, closed <- (pc # "reading")
SplitsLines == Splitter!Spec

\* The loop ends cleanly only when every byte belongs to a handled line: the
\* final unterminated line is not lost at end of input.
CleanEndHandledAll == pc = "done" => start = Len(stream)

\* The loop ends: no chunking makes it spin or wait on bytes it already has.
Terminates == <>(pc # "reading")
=============================================================================
