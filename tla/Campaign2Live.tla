--------------------------- MODULE Campaign2Live ---------------------------
(***************************************************************************)
(* Campaign 2: the gates (gates.py) and phase 3 (phase3.py).  Every Rust   *)
(* database goes through fresh_db; the Motoko nodes live as long as the    *)
(* bridge process that hosts them, which is what a guard on them stands    *)
(* for.  A relay whose stop is not in a finally has no guard.              *)
(***************************************************************************)
EXTENDS LiveScript

Unknown(n) == {<<<<"admitted", k>>>> : k \in 1 .. n}

\* Gate 1: a record admitted earlier is premature for the clock the relay then
\* runs under: retained in changes, an error in resolve; the receiver judges it
\* by its own clock.
Gate1 ==
  << Serve("gnode", "motoko", TRUE, Recipient),
     Serve("g1-rust", "rust", TRUE, Wall), Publish("g1-rust", B4, {<<"admitted">>}),
     StopAll({"g1-rust"}), Serve("g1-rust", "rust", FALSE, Premature),
     Present("g1-rust", "nothing", {<<"page", 1>>}),
     Ask("g1-rust", <<"alice">>, {<<<<"premature">>>>}),
     Pull("gnode", "g1-rust", 100, 1, Recipient, Unknown(9)),
     StopAll({"g1-rust"}) >>

Gate1Reversed ==
  << Serve("gateG1", "motoko", TRUE, Recipient), Publish("gateG1", B4, {<<"admitted">>}),
     Reclock("gateG1", Premature),
     Present("gateG1", "nothing", {<<"page", 1>>}),
     Ask("gateG1", <<"alice">>, {<<<<"premature">>>>}),
     Create("g1-receiver") >> \o
  Soft(<< Pull("g1-receiver", "gateG1", 100, 10, Recipient, Unknown(9)) >>)

\* Gate 2: one byte over the record bound is a protocol answer, in both
\* directions; each client refuses it on its own side.
Gate2 ==
  << Serve("g2-rust", "rust", TRUE, Wall), Publish("g2-rust", Large, {<<"recordTooLarge">>}),
     Refuse, StopAll({"g2-rust"}),
     Serve("gateG2", "motoko", TRUE, Recipient),
     Publish("gateG2", Large, {<<"recordTooLarge">>}) >> \o Soft(<<Refuse>>)

\* Gate 3 at one side: a truncated cursor, and one another instance returned.
Probe(a, b) ==
  << Publish(a, B4, {<<"admitted">>, <<"noChange">>}),
     Present(a, "truncated", {<<"invalidCursor", 0>>}),
     Publish(b, B4, {<<"admitted">>, <<"noChange">>}),
     Present(a, b, {<<"resetRequired", 0>>}) >>

Gate3 ==
  << Serve("g3-rust-a", "rust", TRUE, Wall), Serve("g3-rust-b", "rust", TRUE, Wall) >> \o
  Probe("g3-rust-a", "g3-rust-b") \o << StopAll({"g3-rust-a", "g3-rust-b"}) >> \o
  << Serve("gateG3A", "motoko", TRUE, Recipient), Serve("gateG3B", "motoko", TRUE, Recipient) >> \o
  Probe("gateG3A", "gateG3B")

GatesScript ==
  Guarded({"gnode", "gateG1", "gateG2", "gateG3A", "gateG3B"},
          Gate1 \o Gate1Reversed \o Gate2 \o Gate3)

----------------------------------------------------------------------------
\* Direction R, 1 to 3: reads, publications, a losing record on a relay of its own.
RustServes ==
  << Read("r-main"), Read("r-main"),
     Publish("r-main", B4, {<<"admitted">>}), Publish("r-main", B4, {<<"noChange">>}),
     Publish("r-main", B8, {<<"identityBindingMismatch">>}),
     Publish("r-main", B9, {<<"admitted">>}) >>

RustServesLosing ==
  << Serve("r-losing", "rust", TRUE, Wall), Publish("r-losing", B6A, {<<"admitted">>}),
     Publish("r-losing", B6B, {<<"noChange">>}), StopAll({"r-losing"}) >>

\* 4 and 5: resolve, then changes with a revocation in between.
RustServesState ==
  << Ask("r-main", <<"alice", "alice", "bob">>, {Full(<<"b4", "b4", "b9">>)}),
     Ask("r-main", <<"alice", "malformed", "bob">>,
         {<<<<"full", "b4">>, <<"invalidDid">>, <<"full", "b9">>>>}),
     Pull("node", "r-main", 100, 1, Recipient, {<<<<"admitted", 1>>, <<"admitted", 2>>>>}),
     Publish("r-main", B5, {<<"admitted">>}),
     Pull("node", "r-main", 100, 1, Recipient, {<<<<"admitted", 3>>>>}),
     Pull("node", "r-main", 100, 1, Recipient, {<<>>}),
     Ask("r-main", <<"alice", "bob">>, {Full(<<"b5", "b9">>)}) >>

\* Pagination by a second bridge; the hostile request.
RustServesPages ==
  Guarded({"node2"},
    << Serve("node2", "motoko", TRUE, Recipient),
       Pull("node2", "r-main", 1, 5, Recipient,
            {<<<<"admitted", j>>, <<"admitted", k>>>> : j, k \in 1 .. 2}) >>) \o
  << Read("r-main") >>

\* 7: the challenge records cross under the clock of the challenge file.
RustServesCrossing ==
  << Serve("r-crossing", "rust", TRUE, Challenge),
     Publish("r-crossing", Carol, {<<"admitted">>}), Publish("r-crossing", Dave, {<<"admitted">>}),
     Publish("r-crossing", Erin, {<<"admitted">>}),
     Ask("r-crossing", <<"carol", "dave", "erin">>, {Full(<<"carol", "dave", "erin">>)}),
     StopAll({"r-crossing"}) >>

\* Direction M, 1 and 2.  The Rust client's command line publishes, then the
\* raw request is repeated to see its bytes.
MotokoServes ==
  FlattenSeq(
    << << Serve("server", "motoko", TRUE, Recipient), Read("server"), Read("server") >>,
       Soft(<< Publish("server", B4, {<<"admitted">>}), Publish("server", B4, {<<"noChange">>}) >>),
       << Publish("server", B4, {<<"noChange">>}) >>,
       Soft(<< Publish("server", B8, {<<"identityBindingMismatch">>}) >>),
       << Publish("server", B8, {<<"identityBindingMismatch">>}) >>,
       Soft(<< Publish("server", B9, {<<"admitted">>}) >>) >>)

MotokoServesLosing ==
  << Serve("gateLose", "motoko", TRUE, Recipient), Publish("gateLose", B6A, {<<"admitted">>}) >> \o
  Soft(<< Publish("gateLose", B6B, {<<"noChange">>}) >>) \o
  << Publish("gateLose", B6B, {<<"noChange">>}) >>

\* 3 and 4: resolve and sync through the Rust command line; its output is
\* parsed whatever the exit status was.
MotokoServesState ==
  << Ask("server", <<"alice", "alice", "bob">>, {Full(<<"b4", "b4", "b9">>)}),
     Ask("server", <<"alice", "malformed", "bob">>,
         {<<<<"full", "b4">>, <<"invalidDid">>, <<"full", "b9">>>>}),
     Create("m-sync"),
     Pull("m-sync", "server", 100, 10, Recipient,
          {<<<<"admitted", j>>, <<"admitted", k>>>> : j, k \in 1 .. 2}) >> \o
  Soft(<< Publish("server", B5, {<<"admitted">>}) >>) \o
  << Pull("m-sync", "server", 100, 10, Recipient, Unknown(9)),
     Pull("m-sync", "server", 100, 10, Recipient, {<<>>}),
     Create("m-pages"),
     Pull("m-pages", "server", 1, 10, Recipient,
          {<<<<"admitted", j>>, <<"admitted", k>>>> : j, k \in 1 .. 2}) >>

\* The receiver's database and the server give the same winning bytes.
MotokoServesAgreement ==
  << Serve("m-sync", "rust", FALSE, Wall),
     Agree("m-sync", "server", <<"alice", "bob">>,
           {<<j, j, k, k>> : j \in {"none", "b4", "b5"}, k \in {"none", "b9"}}),
     StopAll({"m-sync"}), Read("server") >>

MotokoServesCrossing ==
  << Serve("gateCross", "motoko", TRUE, Challenge) >> \o
  Soft(<< Publish("gateCross", Carol, {<<"admitted">>}), Publish("gateCross", Dave, {<<"admitted">>}),
          Publish("gateCross", Erin, {<<"admitted">>}) >>) \o
  << Ask("gateCross", <<"carol", "dave", "erin">>, {Full(<<"carol", "dave", "erin">>)}) >>

----------------------------------------------------------------------------
\* Hostile responses to the Motoko client; then B.11.5 and B.11.7 to a receiver
\* that holds Alice from a helper relay.
HostileToMotoko ==
  Guarded({"bridge"}, << Serve("bridge", "motoko", TRUE, Recipient),
                         Refuse, Refuse, Refuse, Refuse, Refuse >>) \o
  << Serve("h-helper", "rust", TRUE, Wall), Publish("h-helper", B4, {<<"admitted">>, <<"noChange">>}) >>

HostileReceiver ==
  Guarded({"bridge5"},
    << Serve("bridge5", "motoko", TRUE, Recipient),
       Pull("bridge5", "h-helper", 100, 1, Recipient, {<<<<"admitted", 1>>>>}),
       PullFixture("bridge5", PageB115, 100,
                   {<<<<"identityBindingMismatch", 0>>, <<"admitted", k>>>> : k \in 1 .. 9}),
       PullFixture("bridge5", PageB117, 2, {<<<<"rejectedResponse", 0>>>>}),
       Dump("bridge5", {<<c, a, b, 2>> : c, a, b \in 0 .. 9}) >>)

\* The same to the Rust command line: refused information, directory, resolve.
HostileToRust == Soft(<<Refuse, Refuse, Refuse, Refuse>>)

\* B.11.5 and B.11.7 to a Rust receiver that holds Alice: what it presents next
\* shows that the cursor of the refused page was not used.
HostileRustReceiver ==
  << Create("h-rust"),
     Pull("h-rust", "h-helper", 100, 5, Recipient, {<<<<"admitted", 1>>>>}) >> \o
  Soft(<< PullFixture("h-rust", PageB115, 100,
                      {<<<<"identityBindingMismatch", 0>>, <<"admitted", k>>>> : k \in 1 .. 9}),
          PullFixture("h-rust", PageB117, 2, {<<<<"rejectedResponse", 0>>>>}),
          Dump("h-rust", {<<c, a, b, 2>> : c, a, b \in 0 .. 9}) >>) \o
  Soft(<<Refuse>>) \o << StopAll({"h-helper"}) >>

Campaign2Script ==
  FlattenSeq(
    << << Serve("r-main", "rust", TRUE, Wall), Serve("node", "motoko", TRUE, Recipient) >>,
       Guarded({"r-main", "node"}, FlattenSeq(<< RustServes, RustServesLosing, RustServesState,
                                                 RustServesPages, RustServesCrossing >>)),
       Guarded({"server", "gateLose", "gateCross"},
               FlattenSeq(<< MotokoServes, MotokoServesLosing, MotokoServesState,
                             MotokoServesAgreement, MotokoServesCrossing >>)),
       HostileToMotoko, HostileReceiver, HostileToRust, HostileRustReceiver >>)
=============================================================================
