CONSTANTS
  a = a
  b = b
  alice = alice
  bob = bob
  None = None
  Nodes = {a, b}
  Dids = {alice, bob}
  Records <- Published
  Peer <- PullOneWay
  Clocks = {1, 2}
  Limits = {1, 2}
  MaxGeneration = 3
  FixtureItems <- FixtureValue
SPECIFICATION Spec
INVARIANTS TypeOK CursorSound HoldsTheBest UpdateNumbers PullAgreement
PROPERTIES RevocationSticks ExactlyOnce
