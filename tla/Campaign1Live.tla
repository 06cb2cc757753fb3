--------------------------- MODULE Campaign1Live ---------------------------
(***************************************************************************)
(* Campaign 1, phase 3: the script of phase3.py's main, section by section.*)
(* None of its databases is made fresh: they are files under work/phase3.  *)
(* The Motoko states live in a driver session that starts empty.           *)
(***************************************************************************)
EXTENDS LiveScript

\* R1 and R2 read information and directory; R3 publishes, R4 resolves.
Campaign1Serving ==
  << Serve("rust-relay", "rust", FALSE, Wall), Read("rust-relay"), Read("rust-relay"),
     Publish("rust-relay", B4, {<<"admitted">>}),
     Publish("rust-relay", B4, {<<"noChange">>}),
     Publish("rust-relay", B8, {<<"identityBindingMismatch">>}),
     Publish("rust-relay", B9, {<<"admitted">>}) >>

Campaign1Resolving ==
  << Ask("rust-relay", <<"alice", "alice", "bob">>, {Full(<<"b4", "b4", "b9">>)}),
     Ask("rust-relay", <<"alice", "malformed", "bob">>,
         {<<<<"full", "b4">>, <<"invalidDid">>, <<"full", "b9">>>>}),
     Read("rust-relay") >>

\* The receiver's numbers are its own: two admissions, then the revocation.
Campaign1Changes ==
  << Pull("mrecv", "rust-relay", 256, 1, Recipient, {<<<<"admitted", 1>>, <<"admitted", 2>>>>}),
     Publish("rust-relay", B5, {<<"admitted">>}),
     Pull("mrecv", "rust-relay", 256, 1, Recipient, {<<<<"admitted", 3>>>>}) >>

Campaign1Paging ==
  << Pull("mpage", "rust-relay", 1, 3, Recipient, {<<<<"admitted", 1>>, <<"admitted", 2>>>>}) >>

Campaign1Agreement ==
  << Agree("mrecv", "rust-relay", <<"alice", "bob">>, {<<"b5", "b5", "b9", "b9">>}) >>

\* R7: a relay on another database answers the old cursor with a reset.
Campaign1Reset ==
  << Serve("rust-relay-reset", "rust", FALSE, Wall),
     Pull("mrecv", "rust-relay-reset", 256, 1, Recipient, {<<<<"resetRequired", 0>>>>}),
     Dump("mrecv", {<<3, 3, k, 0>> : k \in 0 .. 3}) >>

\* M1 to M3: the Rust client talks to the shim, one exchange per step.
Campaign1Shim ==
  << Serve("live", "motoko", TRUE, Recipient) >> \o
  Via("shim", << Publish("live", B4, {<<"admitted">>}), Publish("live", B4, {<<"noChange">>}),
                 Publish("live", B9, {<<"admitted">>}),
                 Publish("live", B8, {<<"identityBindingMismatch">>}) >>)

Campaign1ShimResolving ==
  Via("shim", << Ask("live", <<"alice", "alice", "bob">>, {Full(<<"b4", "b4", "b9">>)}),
                 Ask("live", <<"alice", "malformed", "bob">>,
                     {<<<<"full", "b4">>, <<"invalidDid">>, <<"full", "b9">>>>}) >>) \o
  << Read("live") >>

\* M4: an envelope seeded past the ingress; a response that differs from the
\* published one is a finding, not a failure.
Campaign1Isolation ==
  << Seed("iso", "motoko", <<B8, B9>>, <<1, 2>>, 0, 0) >> \o
  Via("shim", << Ask("iso", <<"alice", "bob">>,
                     {Full(<<"b8", "b9">>), <<<<"internalError">>, <<"full", "b9">>>>}) >>)

\* H1 and H2: complete responses each client must refuse, the receiver's state
\* unchanged by the second.
Campaign1Hostile ==
  Soft(<<Refuse>>) \o <<Refuse>> \o Soft(<<Refuse>>) \o
  << Seed("b117", "motoko", <<B4>>, <<41>>, 41, 1),
     PullFixture("b117", PageB117, 2, {<<<<"rejectedResponse", 0>>>>}),
     Dump("b117", {<<41, 41, 0, 1>>}) >>

\* H3 at the Motoko receiver: one candidate refused, the other admitted.
Campaign1Receiver ==
  << Seed("b115", "motoko", <<B4>>, <<41>>, 41, 1),
     PullFixture("b115", PageB115, 2, {<<<<"identityBindingMismatch", 0>>, <<"admitted", 42>>>>}),
     Dump("b115", {<<42, 41, 42, 2>>}) >>

\* H3 at the Rust receiver: a relay seeds its database, a sync runs on it, a
\* second relay shows what it holds.
Campaign1RustReceiver ==
  Guarded({"rust-sync"}, << Serve("rust-sync", "rust", FALSE, Wall),
                            Publish("rust-sync", B4, {<<"admitted">>}) >>) \o
  Soft(<< PullFixture("rust-sync", PageB115, 2, 
                      {<<<<"identityBindingMismatch", 0>>, <<"admitted", k>>>> : k \in 1 .. 3}) >>) \o
  Guarded({"rust-sync"}, << Serve("rust-sync", "rust", FALSE, Wall) >> \o
                         Soft(<<Ask("rust-sync", <<"alice", "bob">>, {Full(<<"b4", "b9">>)})>>))

Campaign1Script ==
  FlattenSeq(
    << Guarded({"rust-relay"}, FlattenSeq(<< Campaign1Serving, Campaign1Resolving, Campaign1Changes,
                                             Campaign1Paging, Campaign1Agreement >>)),
       Guarded({"rust-relay-reset"}, Campaign1Reset),
       Guarded({"live"}, Campaign1Shim \o Campaign1ShimResolving),
       Guarded({"iso"}, Campaign1Isolation),
       Campaign1Hostile, Campaign1Receiver, Campaign1RustReceiver >>)
=============================================================================
