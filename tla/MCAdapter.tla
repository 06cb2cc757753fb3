----------------------------- MODULE MCAdapter -----------------------------
(* Regular requests of every operation with up to two changes, u64 of two   *)
(* bits; the record authored last is verified and selected.                 *)
EXTENDS AdapterContract
=============================================================================
