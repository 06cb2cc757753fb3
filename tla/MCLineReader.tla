---------------------------- MODULE MCLineReader ----------------------------
(* Instance of LineReader for TLC: lines below, at and above a limit of two
   bytes, over every input of at most five bytes and every chunking of it. *)
EXTENDS LineReader
CONSTANTS nl, x, y
=============================================================================
