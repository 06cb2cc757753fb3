------------------------------ MODULE MCBridge ------------------------------
(* Instance of Bridge for TLC: the deadlines keep their order (110 s before
   115 s) at scale 1 : 2. *)
EXTENDS Bridge
CONSTANTS g1, g2, early, late
=============================================================================
