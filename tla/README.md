# A TLA+ model of the Followee interoperability laboratory

The repository holds the Followee specification and, under `src/interop/`, the
programs that compare two independent participants (a Rust and a Motoko
implementation) with it and with each other: adapters, drivers, orchestrators, a
bundle of test material with its verifier, and two campaigns that use them.
The participants themselves are not in the repository; where the programs depend
on what a participant does, the model has an external definition of it, made of
what the code here relies on.

What is verified is therefore the laboratory: is what a campaign reports really
what the participants said, does every exchange end, does the synchronization
protocol the phase-3 scripts drive have the outcomes they expect of it, would they notice
a participant that departs from the specification, and does a bundle that passes its
verifier say what the specification says?

Paths below are relative to `src/interop/`; `c1` and `c2` are `campaign-1` and
`campaign-2`.

## 1. Inventory

| Component | Code | State | Operations | Hard behaviour | Correct when |
|---|---|---|---|---|---|
| Motoko bridge | `c2/orchestrate/motoko_bridge.js`, `gates.py` (`MotokoBridge`), `motoko-driver/GateNode.mo` | command loop, waiters, HTTP exchange, gate servers and clock boxes, participant process | client, gateInit, gateServe, gateClock, probe, statement, serve, stop | callbacks and two deadlines in any order, a late answer, a dying process, replies without ids | a reply belongs to its command, a success is coherent, every blocking read ends |
| Rust adapter, transport | `c1/adapters/rust-iface/src/main.rs` | BufReader chunk, kept bytes, truncated mark | fill, take, handle, end | chunk boundaries anywhere, the limit, an unfinished last line | the lines handled do not depend on the chunks |
| Rust adapter, requests | `.../src/lib.rs`, `ops.rs` | none | `handle_line`, one function per operation | order of decisions, duplicate members, limits | every line gets one answer, of the right kind |
| Batch exchange and comparison | `c2/orchestrate/interop_common.py`, `phase1.py` | outputs of two processes, report | run a batch, parse, key, compare, cross-compare, group | dropped, repeated, invented, reordered answers; a process that dies | the report says what was said, once |
| Relay synchronization | `c2/orchestrate/phase3.py`, `c1/orchestrate/phase3.py`, `RelayDriver.tmpl.mo` | relays: entries, counter, cursor, generation; the list of checks | publish, resolve, pull, process, reset, fresh database; the script's steps and its report | publication between serve and receive, pages, lost answers, order, clocks, generations | no entry is skipped, the best record is held, a relay that caught up agrees with its peer |
| Motoko session and shim | `c1/orchestrate/phase3.py` (`MotokoSession`, `MotokoShim`) | command log replayed from the start, captured exchanges, handler thread | run, run_quiet, serve, stop | a failed command stays in the log; a thread and the script share one driver input | a replay returns what the run returned |
| Gates before phase 3 | `c2/orchestrate/gates.py` | relay process, databases, verdict file | G1 to G3, abort | a failed check in the middle leaves processes | phase 3 does not run after a failed gate |
| Phase 2 challenges | `c1`, `c2` `orchestrate/phase2.py` | frozen outputs of both participants, a derived result set | digest-check, align labels, compare three ways, cross-verify live | labels and orders that differ between the sides, a value missing on one | every value is compared, and no value is regenerated or mapped |
| Evidence archive | `make_archive.py` | file set, manifest | collect, hash, write | a file that changes meanwhile | the archive is what was hashed |
| Scenario clock shim | `c2/orchestrate/clockshim/clockshim.c` | the environment's constant | clock_gettime | which clocks are replaced | only wall time is constant |
| Bundle verification and seal | `v0.9.*/verify/verify_bundle.py` | bundle, manifest | checks, seal | partial checks, stale manifest | a sealed bundle passes every check |
| Published vectors | `extract_published_vectors.py`, `interopkit/published.py`, `spec.py` | none | selection, timestamps, publish matrix, projection | boundaries, ties, order independence | expectations follow from the specification's rules |
| Codecs | `interopkit/cbor.py`, `base58.py`, `ed25519.py` | none | encode, decode | non-canonical input, leading zeros | decoding accepts exactly what encoding makes |
| Transcripts | `gen_transcripts.py` | script | generate | order of exchanges | the relay protocol can produce them |
| Cross-reference checker, build script, tests, documents | `scripts/check_cross_references.py`, `build.rs`, tests, `Followee-Specification.md`, `INTERFACE.md` | none | | | read for the claims quoted below |

How they interact. An orchestrator starts participants and adapters and talks to
them over pipes: one JSON line out, one in (`LineReader` is the far end of such a
pipe). Phase 1 sends one batch to each adapter and compares (`Exchange`). Phase 3
and the gates keep a bridge process, which in turn keeps the Motoko participant and
carries its HTTP exchanges to the Rust relay (`Bridge`); what those exchanges mean
for the two relays' state is `RelaySync`, in any order, and `LiveExchange` in the order of
the campaigns' scripts, with the coordinator around it. The lines `LineReader` cuts are the
requests `Adapter` answers. The bundle's extracted expectations (`Vectors`, `Bundle`) are
what phase 1 compares with, and its transcripts are what phase 3's checks quote.

## 2. Modules

| Module | What it is |
|---|---|
| `Bridge` | the bridge process, its orchestrator, the participant behind the shim, the peer and the gate servers, in one state machine |
| `MCBridge` | instance: one gate, one or two clock values, deadlines 1 and 2 |
| `Bridge_proofs` | theorems about `Bridge` |
| `LineSplitter` | abstract: the input is cut at its newlines |
| `LineReader` | detailed: `fill_buf`/`consume` in chunks; refines `LineSplitter` |
| `MCLineReader` | instance: limit 2, inputs up to 5 bytes of 3 kinds |
| `LineReader_proofs` | theorems about `LineReader`, the refinement among them |
| `Exchange` | the phase-1 batch, from the request lines to the report |
| `MCExchange` | instance: a permutation group of two, an accepted and a rejected case |
| `Exchange_proofs` | theorems about `Exchange` |
| `RelaySync` | relays, publications, the changes feed, cursors, the receiver |
| `MCRelaySync` | instance: two relays, one pulls from the other |
| `RelaySync_proofs` | theorems about `RelaySync` |
| `RelayState` | one relay as a value, and what a single command makes of it; the ways to depart from the specification |
| `LiveScript` | the vocabulary of a campaign's script: steps, expectations, guards |
| `Campaign1Live`, `Campaign2Live` | the scripts of campaign 1's phase 3, of the gates, and of campaign 2's phase 3 |
| `LiveStep` | one step of a script: what it makes of the relays and clocks, and what the coordinator sees |
| `LiveExchange` | the coordinator that runs a script, with failures, the shim's handler thread and a second attempt |
| `LiveCourse` | what the scripts come to when they are run straight through, as assumptions TLC evaluates |
| `MCLiveExchange` | instance: the three scripts, eleven departures at either side, their courses |
| `LiveExchange_proofs` | theorems about `LiveExchange`, for any well-formed scripts |
| `LiveCourse_proofs` | theorems about `LiveExchange`, for any scripts with such courses |
| `Vectors` | what the v0.9.2 generators make of the specification: vectors, expectations, transcripts; and the specification's rules for them |
| `Bundle` | the bundle under maintenance: edits, generators, manifest, verifier; extends `Vectors` |
| `MCBundle` | instance: one edit of anything, three named ones together |
| `Bundle_proofs` | theorems about `Bundle` |
| `Adapter` | the Rust adapter's answer to one request line after another |
| `AdapterContract` | the interface document's account of a request, without an order, and the properties of the answers |
| `Adapter_proofs` | theorems about `Adapter` |
| `MCAdapter` | instance: regular requests with up to two changes |

### Bridge

`orch` is where the orchestrator's code is (`cmd` blocked in `readline`, an HTTP
request to a gate, `stop` in the finally clause); `bridge` is where the node
process's command loop is. `stdin`, `stdout`, `toPart` and `frames` are the four
pipes. `waiter[i]` are the two `waitFrame` promises of client operation `i`,
`http[i]` its exchange and `result[i]` what its promise settled with; `Settle`
keeps the first of several calls of `done` and `fail`. `age` is the time since the
operation started: `Tick` never passes a deadline that is due, because node fires
timers in deadline order. Each command of the loop is an action (`Client`, `GateInit`,
`GateServe`, `GateClock`, `Probe`, `RawStatement`, `Serve`, `Stop`) and each callback
is one (`RequestFrame`, `OutcomeFrame`, `HttpEnds`, `HttpFails`, the expiries,
`ResponseFrame`, `CommandFrame`). The participant runs statements in order and may
trap on any of them; `RunBuild` and `RunReceive` are external. `box` is the mutable
clock box of a gate server and `clock` what the orchestrator believes it to be.

### LineSplitter and LineReader

`LineReader` has the loop of `main.rs`: `Fill` is `fill_buf` when nothing is
buffered, `TakeChunk` the branch without a newline, `TakeLine` the one with,
`LastLine` and `EndOfInput` the two ends. `start` is a history variable, the
position of the current line. `LineSplitter` knows no chunks and no buffer: a step
handles the next line. The refinement maps `lines` to `handled` and `closed` to
`pc # "reading"`.

### Exchange

`printed[s]` is what side `s` wrote; the Rust side answers line by line (`InOrder`),
the other in any order, with repeated or invented ids. `Collect` is
`_parse_responses`, `ById` the dictionary by `caseId`, `Verdict` is `compare_case` in
its order of decisions, `Outcome` is what a permutation case counts as (its status, or of an accepted
answer the winner and the authority state), `Cross` is `cross_compare_records` with Python's `.get` for an
absent member, `Invariant` is `permutation_invariance`. `Judge` writes the report or
raises. Texts are values; of a response's text the model keeps whether it holds one
of the line boundaries that `str.splitlines` knows beside the newline.

### RelaySync

A node is a relay state of the driver (`state(name)`), or the Rust relay process.
`Publish` is the driver's `publish`; `Ask` is `clientChangesRequest`, the HTTP exchange
and the peer's answer at that moment; `TakePage`, `TakeReset` and `TakeInvalid` are
the branches of `receiveChanges`, and come later: meanwhile the peer may take more.
`Lose` is a failed exchange, `Fresh` a relay started on a new database (R7, and
`fresh_db`), `AskFixture` the phase-3 fixture server (B.11.5 and B.11.7). A record is
its identity, authority, timestamp, digest and whether it is bound to the identity;
an entry's number is the relay's `updateCounter` at its admission, and the feed lists
an entry once, under its last number. What `ingress` decides (`Beats`, `Admits`) and how
the feed is cut (`Ends`: anything within the limit) are external. `seen` and
`deferred` are history: what a database was given, and what it refused as premature.

### RelayState, LiveScript, Campaign1Live, Campaign2Live, LiveStep, LiveExchange, LiveCourse

A script is data: a sequence of steps, each on one relay, with what the coordinator's
`check` accepts of it and the relays that an enclosing `finally` stops. `LiveExchange` runs it:
`world` holds the relays (a Rust database is a file and survives, a Motoko state lives as
long as its process), `clock` those that are served, `failed` the recorded checks, `pc` the
step. `Do` is a step of the main thread; `CliFails` a command line that fails with or
without its effect, where the script looks at its exit status; `Raises` an exception that unwinds through
the guards; `StartRaises` a relay whose start raised after the process was there. `Send`,
`HandlerRuns`, `HandlerReplies`, `HandlerFails`, `ClientGivesUp` and `Conclude` are campaign 1's
exchange through the shim: client, handler thread and main thread, with `capture` for
`captured[-1]`. A command is in the session's log before it is run, and `HandlerFails` has both ways in
which this goes wrong. The command itself fails: the log is `poisoned`, each later request fails without an
answer or a capture, and a direct exchange with the session raises (`Raises`), until the shim is stopped. Or
the run fails, a process that died or took too long: the next replay carries the command out, and since
only the session sees its state, `HandlerFails` does so at once.
`Again` runs the script in the work directory of the first run. `quirk` is one participant's departure from the specification.
Timestamps and clocks are ranks, and the wall clock is above the records of August 2026:
a campaign run before that would see premature records.

The scripts are a constant of `LiveExchange`. `WellFormed` is what it assumes of them: a client
through the shim is never expected to fail, and where a step may raise, the guards around it name
all that `MayServe` says was started and not stopped, but for Rust relays outside campaign 1.
TLC evaluates this on the three scripts of the code.

`LiveCourse` adds what the scripts come to. A course is the sequence of relays and clocks before each step
when the script is run straight through, one step of `LiveStep` after the other; `MCLiveExchange` computes them.
`Course` has one for every departure, and for further attempts one between conforming participants
(not for campaign 1, whose relays start from files). `CourseAssumption` says of each that the steps lead from one entry
to the next, that no step reads a relay whose state an earlier attempt decides, that conforming
participants are seen to do what every step wants and end in agreement, and that a departure in `Noticed` is
seen at some step. `Lineage` has the courses of campaign 1 from each state the databases can be in when an
attempt ends anywhere; `LineageAssumption` says that they are closed under this, that all of them
end in agreement, and that the relays compared depend on no step that may fail and go on.
No interleaving, failure or report is part of these assumptions: TLC executes each script once per case and checks them.

### Vectors and Bundle

Bytes are tokens: the token of a member is the pair of its case and its name, so that two
places hold the same bytes exactly when the model's values are equal. `Vectors` has what
the extractor and the transcript generator write, computed the way they compute it, and
next to it the specification's own rules (`SelectCurrent`, `NextTimestamp`, `Acceptable`,
`TargetError`, `Answers`), which the code does not use. In `Bundle`, `EditFile` and
`EditGenerator` change a case, a value or a text the way a maintainer's slip would,
`Regenerate` is `--write` of both generators, `WriteManifest` the verifier's option, and
`Verify` runs the checks, `CheckSpec` against the pins and against `Repository`, the specification of the repository
the bundle lies in (`None` where there is none); a check yields the problems it may meet first: a failure, or an
exception `main` does not catch (a missing file, a generator's assertion). With several problems the
verdict may be either, since it depends on the order of files. Three facts of the code worth knowing:
a transcript whose generator was dropped or renamed stays, inventoried and compared with
nothing, so `PassIsNormative` speaks of the generated ids; of the rejected publish responses the
verifier wants the names, not the bytes; and a stray transcript written by hand passes after a new manifest.

### Adapter and AdapterContract

An input is a function from member paths to JSON values; a value is a kind, a word a
reader can tell from others, or a numeral with its sign and leading zeros. `Reads` is the order in
which an operation reads and checks its members, and the first that refuses decides
(`Operate`); `HandleLine` has the checks before that. One entry, one item, one
service, one optional text stand for any number of them, and typed values are nested once.
`AdapterContract` says without an order what the interface document allows. It calls null, an empty array and an
empty object the same omission of an optional field, so `Plainly` first writes every omission in the form that the
document's shapes show (null for a text or a migration, no items for a list or a map); `Array` and `Object` stand for the
empty ones where no item has a path of its own. The rest is the account of such an input: a conjunction per typed value,
contact and operation, which speaks of a nested member only where what holds it is given. It is in two parts only
where finding 5 needs them: `Early` is what the adapter checks before it has the DIDs parsed, `Late` what it checks
after, `BadDid` that one of the DIDs is malformed. `authored` is the last record made, so that a later `verifyRecord` or
`selectCurrent` can be about it.

### Mutants

An operator that follows a comment `mutant:` is a deliberately wrong version of the
definition after it: the kind of slip a change of that code could make. It is used by no
specification. Replacing the definition by it makes TLC report the property that
`PROJECT.json` pairs it with, which shows that the property depends on the code.

## 3. Runs

| Run | Specification | States | What it shows |
|---|---|---|---|
| `bridge` (`Bridge.cfg`) | safety | any interleaving of scripts of 5 commands or gate requests, 1 gate, 2 clocks | `ResultIsCoherent`: a success is a refused build or the classification of the operation's own answer; `FedAtMostOnce`; `NoTaintedReply`: once an operation is abandoned, so that a late answer may still change the participant, only `stop` is acknowledged; `ServedUnderAckedClock`; `NoRequestAfterReply`; `ReplyMatchesCommand` |
| `bridge_live` | fair | scripts of 3 | `CommandIsAnswered`: a client operation and a command without a wait are answered, or the bridge is found gone, although participant and peer owe nothing; `FailureEndsTheRun` |
| `line_reader` | fair | all inputs up to 5 bytes, all chunkings, limit 2 | `SplitsLines` (refinement), `BufferIsPrefix`, `BufferBounded`, `CleanEndHandledAll`, `Terminates` |
| `exchange` | safety | a batch of 4, one engine in order, one arbitrary | `ReportIsTotal`, `MatchIsEarned`; `LimitationIsNotBlame`: a coverage limitation exactly where nothing is wrong and something is left out; `InvarianceIsHonest`: a group is invariant exactly when its answers agree in status, winner and authority state; `CrossFollowsVerdicts` |
| `exchange_framing` | violation | a batch of 2 | finding 1 |
| `exchange_altered` | violation | a batch of 2 | finding 2 |
| `relay_sync` | safety | one way, 2 identities, 4 records, 2 clocks, limits 1 and 2, 3 generations | `CursorSound`, `HoldsTheBest`, `UpdateNumbers`, `RevocationSticks`, `ExactlyOnce`; `PullAgreement`: a relay that is at the end of its peer's feed, and was given nothing its peer was not, holds the peer's records |
| `live_exchange` | safety | three scripts, one failure anywhere, 11 departures at 2 sides or none, two attempts | `NoFalseAlarm`: conforming participants and no failure give no failed check; `MisreadsFail`: a check that read another exchange's bytes is a failed one; `EarnedReport`: a clean report read the bytes of its own exchanges and its relays agree; `CleansUp`: which relays an ending leaves; `DeparturesNoticed` |
| `live_rerun` | violation | campaign 1 twice | finding 3 |
| `bundle` | safety | one edit of any file or generator, or three named ones, with regeneration, manifest and verification in any order | `PassIsNormative`: what passes under the released generators is what the specification says; `PassIsGuarded`: what passes under any generators leaks nothing to the authors and keeps the rules the verifier checks by itself |
| `adapter` | safety | regular requests of the eight operations and of an unknown one, with up to 2 changes of members, framing or protocol, u64 of 2 bits | `ContractDecides`: an error exactly when the contract is broken, wherever the break stands, but for finding 5, of requests whose omissions have the form of the shapes; `SaysWhatWasAsked`: a record authored and then verified says what was asked |
| `adapter_omission` | violation | the same, 1 change | finding 4 |

Bounds, and why they are enough.
- `MaxSteps`: 5 commands are enough for make, serve and move a gate's clock, to have an
  operation abandoned, and to issue another command after that. Two clocks tell an old
  from a new clock box.
- `RequestWait` 1 and `OutcomeWait` 2 keep the only thing the code uses of 110 s and
  115 s: their order and that something may happen between them.
- `MaxLine` 2 and `MaxStream` 5: lines below, at and one and more over the limit, a second line
  after an over-long one, empty lines, unfinished lines.
- The batch has one case of every kind; the second engine may print one line more than
  asked for. A match needs two members, one of them null, to tell absent from null.
- `RelaySync`: two identities let a page end between two entries; the records hold a
  revocation, a later root record, one bound to another identity, one more identity, and a
  premature one at the earlier clock (a fifth one that ties with another makes the run too long: ties are left to the theorems here, and
  occur in `live_exchange` and `bundle`); three generations let a cursor outlive its database.
- `live_exchange`: the scripts are whole; one failure is what a campaign that reports can survive
  without being a different campaign, and it may hit any step. Two attempts, since a third
  finds the files of the second.
- `bundle`: one edit shows that each check is needed; the three together (a generator, the
  specification, a stray file) are those whose checks depend on each other.
- `adapter`: two changes let two defects of one request compete for the answer. Two bits
  make every numeral up to and over the bounds of an unsigned, a negative and a domain member.

Fairness. `Bridge`: weak fairness of the step of the command loop that needs no one else (`LoopStep`), of the
two deadlines that `motoko_bridge.js` sets itself (`Deadlines`), of the orchestrator's reads of what has arrived and of
its finally clause. None for the participant, its boot (`participant.ready()` has no deadline), the peer, the network, the
gate servers, the orchestrator's asking, and none for the deadline of a statement that waits for a plain frame
(`CommandExpires`, `HandlerExpires`): its length is `loopback.js`'s default, which is not in the repository. So nothing is
claimed of how long a boot, a `gateInit` or a `probe` may take; `SelfPaced` names what is left.
`LineReader`: weak fairness of the loop, that is, the writer at the other end of the pipe
does not stop forever in the middle; the loop cannot end otherwise. `Exchange` and `RelaySync` have
no liveness property: participants may stop at any time and no code schedules pulls.
`LiveExchange` has none, since any step may block for as long as a participant likes;
`Bundle` none, since maintainers owe no edit; `Adapter` answers in one step.
The liveness run of the bridge needs that no step of it recurs forever, which holds because
`MaxSteps` bounds the script; the script of a campaign is finite as well.

### Findings

1. `exchange_framing`: `_parse_responses` (`c2/orchestrate/interop_common.py:291`) cuts the
   output with `str.splitlines()`, which also cuts at U+0085, U+2028 and U+2029. JSON may
   leave these unescaped, and the interface promises newline framing
   (`v0.9.2/authoring/interface/INTERFACE.md:27-28`). A correct batch is then refused.
2. `exchange_altered`: `compare_members` looks at the expected members only, so a result
   with an additional member is a match, though `orchestrate/tests/test_tamper.py:3-6` says
   every alteration of participant output remains visible as a disagreement.
3. `live_rerun`: campaign 1's `phase3.py` opens the Rust databases in `work/phase3` as it finds
   them (line 410), so a second execution starts with the records of the first and fails checks, though
   `make_archive.py:76-78` says that only opaque values vary between executions. Campaign 2 removes
   its databases first.

4. `adapter_omission`: v0.9.1's `INTERFACE.md:42-44` and `94-95` say that an optional field that is null, an empty
   array or an empty object is an absent field. `ops.rs:286-298` (with `extension_map`, 265-269, and
   `migration_from_input`, 326-329) takes one form of each, null for texts and the migration, `[]` for lists, `{}` for
   extensions, and answers the others with `adapter.invalidInput`. The run shows the first such
   request it finds, a null list of aliases.

Two more divergences were met and are written into passing properties.

5. `ops.rs:9-12` says the input contract is enforced before calling the implementation. A
   migration DID is parsed, and may be rejected, before the rest of the contact, the extensions, the
   signing seed and unknown members are read (`ops.rs:331-348`), and `selectCurrent` parses its target and
   verifies earlier candidates before it decodes later ones. A request that breaks the contract can
   so be answered `rejected`, a protocol result; `ContractDecides` names exactly these cases
   (`BadDid`, `Early`).
6. `INTERFACE.md:34` (v0.9.1) says every response repeats the request's `caseId`. A line that is
   not a request of the profile, such as one with a bare number in its input, is answered for the case
   `unknown` even when its `caseId` is legible. Campaign 1's `phase1.py` looks the case up
   by its id and raises, so nothing is reported of the whole batch.

What no script notices. `DeparturesNoticed` lists for every script the departures it can see at
either implementation. Not in the list, and so invisible to that script: a receiver that forgets its
records on a reset in campaign 2; the Rust relay's use of a refused page's cursor in campaign 1; and a relay of either
kind that lets a later root record replace a revocation, which no script publishes after one.
`CleansUp` shows the exits on which a relay stays: a Rust relay whose own start raised, and in
campaign 2 those that are stopped outside a `finally`.

## 4. Theorems

TLC checks the instances above; the theorems below hold for all values of the constants
that satisfy the named assumption, and are checked by TLAPS.

`Bridge_proofs`, under the assumptions of `Bridge` (deadlines in the code's order, no value of a
domain equal to `None`):
- `BridgeInvariant`: the inductive invariant, in seven parts. `Pipes` says that at most one of the
  command pipe, the reply pipe and the command loop holds the command in flight, and which orchestrator state goes
  with which. `Operations` has two formulas for each client operation: `Operation` follows its
  statement, frame, answer and result, because an answer is fed once only if the way to it is empty before:
  its `build` and `receive` statements and its frames occur at most once, and waiting for the outcome
  begins before the answer can exist; `Started` ties an operation that is going on to the command
  loop and an abandoned one to a command that failed. `Numbered` keeps the number of a new command fresh;
  `ClocksAgree` and `RequestUnderClock` relate the box of the gate server, the acknowledged clock
  and the request in flight.
- From it `TypeCorrect`, `RepliesMatch` (`ReplyMatchesCommand`), `ResultsCohere` (`ResultIsCoherent`), `AnswersFedOnce`
  (`FedAtMostOnce`), `RepliesUntainted` (`NoTaintedReply`), `GateAnswersUnderAckedClock`
  (`ServedUnderAckedClock`) and the action property `RequestsBeforeReply` (`NoRequestAfterReply`).

`LineReader_proofs`, under `ReaderAssumption` (the newline is a byte, the limit is not 0):
`TypeCorrect`, `BufferMeaning` (`BufferIsPrefix`), `MemoryBounded` (`BufferBounded`), `NoLineLost`
(`CleanEndHandledAll`) and `ImplementsSplitter` (`SplitsLines`, the refinement). The invariant adds to
the type and to the meaning of the buffer that there is no newline between the start of the
current line and the bytes consumed: without it a handled line could be two, and the
step of the splitter would not be enabled. The refinement is then one case per action: `TakeLine` is
the splitter's `Line`, `LastLine` its `LastLine`, the ends its `Close`, the rest stutters.

`RelaySync_proofs`, under `SyncAssumption` (finitely many nodes and identities, limits above 0, a
node is not its own peer, the fixture's page names each identity and position once):
- `SyncInvariant`: the inductive invariant. `CursorSound` alone is not inductive, for four
  reasons, and each is a conjunct: the page on its way must be as sound as the cursor it was
  asked with (`ReplySound`); a publication must not put an entry at or before a cursor
  (`CursorReached`: the peer's counter has reached every cursor, and new numbers are above the
  counter); a fresh database must not have a generation some cursor carries (`Generations`); and a
  candidate that the peer holds must be one the receiver can judge (`HeldIsBound`).
- `CursorNeverAhead` (`CursorSound`), `NumbersDistinct` (`UpdateNumbers`), `TypeCorrect`.
- `BestIsHeld` (`HoldsTheBest`): an ingress of one record or of a page keeps the best of what was
  given, since the order of records is transitive (`BeatsTransitive`).
- `RevocationIsFinal` (`RevocationSticks`), from the same lemmas about one ingress.
- `Agreement` (`PullAgreement`): at the end of the feed no record of the peer beats the puller's, by `CursorSound`; none
  of the puller's beats the peer's, because the peer was given whatever the puller was and holds the best of
  it (`HoldsTheBest`); and the order is total on bound records of one identity
  (`BeatsTotal`). Totality is over the model's records: it assumes that two records of one
  identity, authority, timestamp and digest are the same record.
- `EntriesComeOnce` (`ExactlyOnce`), by an invariant of its own, `PagesFollow`: a page on its way follows the
  cursor stored now, because nothing moves the cursor while an answer is awaited. The fixture's cursor
  is the one exception, a page asked for with no cursor and stored over itself changes nothing.

`Bundle_proofs`, under `NoneAssumption` (what is absent is no number, name or stored record) and
for every bound on the edits, the runs' one of anything and any number of them alike:
- `BundleInvariant`: both properties of a verdict, which each other step resets, and one fact about
  transcripts that edits and regenerations keep: only a `changes` request can carry a cursor nobody
  issued, and the vector a publication refers to is the envelope of the record it sends. Without it
  the check of cursors, which looks at `changes` alone, would not be enough.
- `PassGuards` (`PassIsGuarded`): the absence of problems implies the guarantees, by one lemma for
  each. The longest chain is that of a winner (`WinnerOffered`): it is the digest member of a candidate
  in the tree, which the generators made; they assert it where it is published; and it is
  published, because the sealed authors' file publishes it and the projection check compares the two.
- `PassTellsTheSpecification` (`PassIsNormative`): regeneration makes the documents the released ones, and of
  those each case is what the specification's rule says, the selections by an argument that
  does not depend on the order of the candidates (`SelectsBest`).
- `TypeCorrect` (`TypeOK`): ids stay apart, since an edit changes, drops or copies one case at a time, a copy only
  where its id is not taken, and a regeneration keeps of the old transcripts those whose id it does not write.

`Adapter_proofs`, under the assumptions of `Adapter` (a width above 0, the bound on the changes a natural number,
the limits of `validateCbor` below the largest u64):
- `AdapterInvariant`: a line that is changed stays one request; its answer has its status's form and is
  the one that the shapes ask for (`Contract` of the input as it is written); what is kept
  of the record authored last prints as its request (`Kept`), and a verified record is what is kept (`Told`).
- `AdapterTypes` (`TypeOK`): the integers fit because each was read by a reader of that type, and every symbol is
  the interface's.
- `AnsweredByContract` (`ContractDecides`), for any input, of whatever values, whose omissions have the form of the shapes;
  of others it claims nothing (finding 4). A reading passes, stops at a DID, or
  stops at another step, never at two of them (`Settled`), and a concatenation stops where its first part
  does, else where its second does (`SettledConcat`); no induction is needed, since a reading is put together from
  literals. So each part of a request is compared with the account of it that has no order (`TypedMeans`, `ContactMeans`, ...), then
  each operation (`ReadsAccount`), with the readers in the interface's words: what `ParsesU64` takes is what
  `ToString10` prints of a u64 (`Decimal`, `Negative`, `Limit`). `Decided` carries this over to the first step that stops, which
  is the one that `Operate` answers.
- `VerifiedAsAsked` (`SaysWhatWasAsked`). An accepted `authorRecord` has passed every step of its reading
  (`Operated`). The steps are a concatenation of sequences, so `AuthorElems` computes which occur in it for
  any shape of contact and extension; then each text that became an integer was canonical and comes back
  (`UintTrip`, `NintTrip` for the magnitude off by one, `TypedTrip`, `RecordTrip`).

`Exchange_proofs`, under `ExchangeAssumption` (the cases of the batch are distinct, the bundle expects
`accepted` or `rejected` of each, the permutation group is not empty, a status is one of three):
- `ExchangeInvariant`: a counted output has one line per case, and a report is the comparison of
  the outputs that still lie there. The first part is needed because the count is made when a
  process ends and used two steps later.
- `NothingIsLost` (`ReportIsTotal`): an output with as many lines as cases in which every case
  occurs is a bijection (`OneLineEach`, by cardinality), so the dictionary that keeps the last
  answer of an id loses none. `ByIdIsSaid` draws the consequence for the lookup, and the next four
  rest on it.
- `MatchesAreEarned` (`MatchIsEarned`), `LimitationsAreOmissions` (`LimitationIsNotBlame`),
  `CrossIsConsistent` (`CrossFollowsVerdicts`), `InvarianceIsTrue` (`InvarianceIsHonest`), each by a lemma
  about the comparison of one answer or of two; `TypeCorrect`.

`LiveExchange_proofs`, under `LiveAssumption` (every script is well-formed, see section 2; any
departures, any number of failures and of attempts):
- `LogInvariant`: a log that cannot be replayed is the mark of a failure, which `KeepsCourse` needs of every request
  that fails after the first.
- `LiveInvariant`, in five parts. `Progress` is the step counter. `Served`: a relay that is served may be
  served at this step of the script (`MayServe`), and after a step that raised, the ones its guards name are not.
  `Queued` and `Heard` are the exchange through the shim: requests wait in the order of their steps, so the one of
  the step the script is at is the last; when its client was answered none is left, and the capture is that of its
  exchange. The order is needed because a client that gives up leaves its request behind, and it is answered while
  later clients wait.
- `TypeCorrect`, `EndsClean` (`CleansUp`, from `Served` alone) and `MisreadingShows` (`MisreadsFail`): a check can read
  another exchange's bytes only when its own client failed, and no script expects that.

`LiveCourse_proofs`, under `LiveAssumption`, `CourseAssumption` and `LineageAssumption` (which TLC evaluates for the
code's scripts), any number of failures and attempts:
- `KeepsCourse`: as long as no check has failed, no client was left without its answer and nothing raised,
  the attempt is on its course (`OnCourse`): clocks and relays are the course's, but for databases an earlier
  attempt may have left and the script has not yet made anew (`Known`); the request at the shim, the handler's
  answer or the client's is that of this step; all checks so far passed. And an unhurt attempt of conforming
  participants never leaves it (`Unhurt`). The step before which the relays stand is one ahead of the script while the
  handler has run a request that the main thread has not concluded (`Position`). A step is the course's
  because what it writes and shows depends on the relays it reads alone (`SawAgrees`, `AfterAgrees`).
- `NeverFalseAlarm` (`NoFalseAlarm`), and `DepartureShows` (`DeparturesNoticed`): a report without a failed check went the
  whole course, and the step at which the departure shows is one of its checks.
- `KeepsLineage`: the relays that campaign 1 compares are where a course from the leftovers has them, whatever
  failed and whatever was noticed; a raise leaves them before or after the step (`StartRaises`), and the next attempt starts
  with what was left, from where there is a course. It is needed because an attempt of campaign 1 may report success on the
  databases of an earlier one, which `OnCourse` says nothing of.
- `ReportIsEarned` (`EarnedReport`), in any attempt: the bytes by `MisreadsFail`, the agreement by the lineage for
  campaign 1 and by the course for campaign 2.

Only model-checked:
- What a course holds: that the scripts of the code have courses that do as wanted, settle and show the departures
  is executed by TLC, since it is what each step of a concrete script computes, by recursion over pages.
- Every liveness property: the prover has no rule for fairness and `ENABLED`.

## 5. Not modelled

- Phase 2 of the campaigns: a straight-line comparison of frozen files; what runs live in it
  is the exchange of `Exchange`. Campaign 1's phase 1 is `Exchange` with other pins and names.
- The archive: one sequential copy with digests, into a results directory that is not cleaned first.
- The clock shim: its effect is the clock of a relay in `Bridge` and `LiveExchange`.
- CBOR, Base58, Ed25519: byte and field arithmetic without state. Where the modelled code depends on
  them, bytes are tokens and verdicts external.
- v0.9.1 of the bundle and its verifier: the predecessor of what `Vectors` and `Bundle` model.
- The build script, the cross-reference checker, tests and documents.

Of modelled components the model leaves out pins, exact bytes and their digests, wording of
errors, and timing other than the order of deadlines.
