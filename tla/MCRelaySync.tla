--------------------------- MODULE MCRelaySync ---------------------------
(* Relays a and b with records of Appendix B that phase 3 publishes: b     *)
(* pulls from a, as every receiver of the scripts does from its one peer.  *)
EXTENDS RelaySync

CONSTANTS a, b, alice, bob

PullOneWay == [n \in Nodes |-> IF n = a THEN None ELSE a]

Record(did, authority, timestamp, digest, bound) ==
  [did |-> did, authority |-> authority, timestamp |-> timestamp,
   digest |-> digest, bound |-> bound]

b6 == Record(alice, "root", 2, 1, TRUE)
b5 == Record(alice, "rootRevoked", 1, 1, TRUE)
b8 == Record(alice, "root", 1, 1, FALSE)
b9 == Record(bob, "root", 1, 1, TRUE)

Published == {b5, b6, b8, b9}

FixtureValue == {[record |-> b8, position |-> 1], [record |-> b9, position |-> 2]}
=============================================================================
