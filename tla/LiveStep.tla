------------------------------ MODULE LiveStep ------------------------------
(***************************************************************************)
(* One step of a live campaign: what it makes of the relays and of their   *)
(* clocks, and what the coordinator sees of it.  `w` holds the relays,     *)
(* databases in files and states in processes; `clk` the clock of those a  *)
(* process serves; `run` the attempt, and the one participant whose        *)
(* implementation departs from the specification.                          *)
(***************************************************************************)
EXTENDS RelayState, LiveScript

Nodes == {"rust-relay", "rust-relay-reset", "mrecv", "mpage", "live", "iso", "b117", "b115",
          "rust-sync", "gnode", "g1-rust", "gateG1", "g1-receiver", "g2-rust", "gateG2",
          "g3-rust-a", "g3-rust-b", "gateG3A", "gateG3B", "r-main", "node", "r-losing", "node2",
          "r-crossing", "server", "gateLose", "m-sync", "m-pages", "gateCross", "bridge",
          "h-helper", "bridge5", "h-rust"}

QuirkOf(run, side) == IF run.quirk # None /\ run.quirk.side = side THEN run.quirk.what ELSE "none"

\* A database that is not there yet is created on first use, with a generation
\* of its own; so is a state the driver is asked for by name.
Fresh(n, side, run) == NewNode(side, <<n, run.attempt>>, QuirkOf(run, side))
At(w, n, run) == IF w[n] = None THEN Fresh(n, "motoko", run) ELSE w[n]

NumberOf(n, did) == IF n.entries[did] = None THEN 0 ELSE n.entries[did].lastUpdated
NameOf(n, did) == IF n.entries[did] = None THEN "none" ELSE n.entries[did].record.name

SeedNode(s, run) ==
  LET empty == Fresh(s.at, s.side, run)
      filled == FoldLeft(LAMBDA n, k : Put(n, s.records[k], s.numbers[k]),
                         empty, [k \in DOMAIN s.records |-> k])
  IN [filled EXCEPT !.counter = s.counter,
                    !.cursor = IF s.cursor = 0 THEN None ELSE FixtureCursor(s.cursor)]

Pulled(s, w, clk, run) ==
  PullAll(At(w, s.at, run), w[s.from], s.limit, s.pages, s.now, clk[s.from])

\* The relays after a step.
After(s, w, clk, run) ==
  CASE s.op = "serve" -> IF s.fresh \/ w[s.at] = None THEN [w EXCEPT ![s.at] = Fresh(s.at, s.side, run)] ELSE w
    [] s.op = "create" -> [w EXCEPT ![s.at] = Fresh(s.at, "rust", run)]
    [] s.op = "publish" -> [w EXCEPT ![s.at] = Take(@, s.record, clk[s.at])]
    [] s.op = "pull" -> [w EXCEPT ![s.at] = Pulled(s, w, clk, run).node]
    [] s.op = "fixture" -> [w EXCEPT ![s.at] = Receive(At(w, s.at, run), s.page, s.limit, s.now).node]
    [] s.op = "seed" -> [w EXCEPT ![s.at] = SeedNode(s, run)]
    [] OTHER -> w

Told(got) == IF got.outcome = "processed" THEN got.told ELSE <<<<got.outcome, 0>>>>

\* The cursor a probe presents.
Presented(s, w, clk) ==
  CASE s.of = "nothing" -> None
    [] s.of = "truncated" -> Malformed
    [] OTHER -> Page(w[s.of], None, 100, clk[s.of]).cursor

\* What the coordinator sees of a step.
Saw(s, w, clk, run) ==
  CASE s.op = "publish" -> <<Judge(w[s.at], s.record, clk[s.at])>>
    [] s.op = "resolve" -> Resolve(w[s.at], s.dids, clk[s.at])
    [] s.op = "pull" -> Told(Pulled(s, w, clk, run))
    [] s.op = "fixture" -> Told(Receive(At(w, s.at, run), s.page, s.limit, s.now))
    [] s.op = "present" -> LET page == Page(w[s.at], Presented(s, w, clk), 100, clk[s.at])
                           IN <<page.kind, Len(page.items)>>
    [] s.op = "agree" -> <<NameOf(w[s.at], s.dids[1]), NameOf(w[s.with], s.dids[1]),
                           NameOf(w[s.at], s.dids[2]), NameOf(w[s.with], s.dids[2])>>
    [] s.op = "dump" -> LET n == w[s.at] IN
                          <<n.counter, NumberOf(n, "alice"), NumberOf(n, "bob"),
                            IF n.cursor = None THEN 0 ELSE n.cursor.position>>
    [] s.op = "read" -> <<"answered">>
    [] s.op = "refuse" -> <<"rejected">>
    [] OTHER -> <<"ok">>

\* The clocks after a step.
Clocked(s, clk) ==
  CASE s.op = "serve" -> [clk EXCEPT ![s.at] = s.now]
    [] s.op = "reclock" -> [clk EXCEPT ![s.at] = s.now]
    [] s.op = "stop" -> [n \in Nodes |-> IF n \in s.at THEN None ELSE clk[n]]
    [] s.op = "seed" /\ s.at = "iso" -> [clk EXCEPT ![s.at] = Recipient]
    [] OTHER -> clk

\* The relays a step may change, those it makes anew, and those whose state it reads.
Writes(s) ==
  IF s.op \in {"serve", "create", "publish", "pull", "fixture", "seed"} THEN {s.at} ELSE {}
Made(s) ==
  IF s.op \in {"create", "seed"} \/ (s.op = "serve" /\ s.fresh) THEN {s.at} ELSE {}
Reads(s) ==
  CASE s.op = "serve" /\ ~s.fresh -> {s.at}
    [] s.op \in {"publish", "resolve", "fixture", "dump"} -> {s.at}
    [] s.op = "pull" -> {s.at, s.from}
    [] s.op = "present" -> {s.at} \cup ({s.of} \ {"nothing", "truncated"})
    [] s.op = "agree" -> {s.at, s.with}
    [] OTHER -> {}

\* The relays a script keeps in files.
Databases(script) ==
  {script[k].at : k \in {k \in DOMAIN script :
     script[k].op = "create" \/ (script[k].op \in {"serve", "seed"} /\ script[k].side = "rust")}}
=============================================================================
