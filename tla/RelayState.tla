----------------------------- MODULE RelayState -----------------------------
(***************************************************************************)
(* One relay as a value, and what a single command makes of it: the states *)
(* the driver keeps by name (RelayDriver.tmpl.mo), the databases the Rust  *)
(* relay keeps in files, the nodes behind the bridge.  RelaySync explores  *)
(* every order of such commands; here they are functions, to be run in the *)
(* order a campaign's script gives them.                                   *)
(*                                                                         *)
(* A node carries the quirk of its implementation: "none", or one way of   *)
(* departing from the specification which a campaign is meant to notice.   *)
(***************************************************************************)
EXTENDS Naturals, Sequences, FiniteSets, SequencesExt

CONSTANT None

Dids == {"alice", "bob", "carol", "dave", "erin"}

\* A generation nobody serves and a cursor nobody can parse.
Foreign == <<"fixture", 0>>
Malformed == [generation |-> <<"malformed", 0>>, position |-> 0]

NewNode(side, generation, quirk) ==
  [side |-> side, quirk |-> quirk, counter |-> 0, cursor |-> None,
   generation |-> IF quirk = "sharesGeneration" THEN <<"shared", 0>> ELSE generation,
   entries |-> [d \in Dids |-> None]]

Outranks(r, s) ==
  \/ r.authority = "rootRevoked" /\ s.authority = "root"
  \/ /\ r.authority = s.authority
     /\ r.timestamp > s.timestamp \/ (r.timestamp = s.timestamp /\ r.digest < s.digest)

\* The ingress of a node on one record.
Judge(n, r, now) ==
  LET held == n.entries[r.did]
      faulty == r.fault # "none" /\ n.quirk # "ignoresBinding"
  IN CASE faulty -> r.fault
       [] ~faulty /\ r.timestamp > now -> "premature"
       [] OTHER -> IF held = None \/ n.quirk = "readmits" THEN "admitted"
                   ELSE IF Outranks(r, held.record) THEN "admitted" ELSE "noChange"

Put(n, r, number) ==
  [n EXCEPT !.entries[r.did] = [record |-> r, lastUpdated |-> number]]

Take(n, r, now) ==
  IF Judge(n, r, now) = "admitted"
    THEN [Put(n, r, n.counter + 1) EXCEPT !.counter = @ + 1] ELSE n

\* The answer for one DID of a resolve request: a Full result, or an error.
\* Motoko verifies a stored envelope once more before it serves it.
Answer(n, did, now) ==
  IF did \notin Dids THEN <<"invalidDid">>
  ELSE LET held == n.entries[did] IN
    IF held = None THEN <<"absent">>
    ELSE IF held.record.timestamp > now /\ n.quirk # "servesPremature" THEN <<"premature">>
    ELSE IF held.record.fault # "none" /\ n.side = "motoko" THEN <<"internalError">>
    ELSE <<"full", held.record.name>>

Resolve(n, dids, now) ==
  LET asked == IF n.quirk = "deduplicates" /\ Len(dids) > 1 /\ dids[1] = dids[2]
                 THEN Tail(dids) ELSE dids
  IN [k \in DOMAIN asked |-> Answer(n, asked[k], now)]

----------------------------------------------------------------------------
\* The entries after a position, in the order of their numbers.
Feed(n, after, now) ==
  LET first == IF n.quirk = "repeatsEntry" /\ after > 0 THEN after - 1 ELSE after
      listed == {e \in {n.entries[d] : d \in Dids} \ {None} :
                   /\ e.lastUpdated > first
                   /\ n.quirk = "hidesPremature" => e.record.timestamp <= now}
  IN SetToSortSeq(listed, LAMBDA e, f : e.lastUpdated < f.lastUpdated)

\* The answer to a changes request.
Page(n, cursor, limit, now) ==
  LET after == IF cursor = None THEN 0 ELSE cursor.position
      feed == Feed(n, after, now)
      items == SubSeq(feed, 1, IF Len(feed) < limit THEN Len(feed) ELSE limit)
      end == IF n.quirk = "skipsToEnd" THEN n.counter
             ELSE IF items = <<>> THEN after ELSE Last(items).lastUpdated
      page == [kind |-> "page", items |-> [k \in DOMAIN items |-> items[k].record],
               more |-> Len(feed) > limit,
               cursor |-> [generation |-> n.generation, position |-> end]]
      refused(kind) == [kind |-> kind, items |-> <<>>, more |-> FALSE, cursor |-> None]
  IN IF cursor = Malformed THEN refused("invalidCursor")
     ELSE IF cursor # None /\ cursor.generation # n.generation THEN refused("resetRequired")
     ELSE page

\* What became of one candidate of a page: its update number, or why not.
Fate(n, r, now) ==
  IF Judge(n, r, now) = "admitted" THEN <<"admitted", n.counter + 1>>
  ELSE <<Judge(n, r, now), 0>>

\* receiveChanges: a response over the limit is refused whole, a reset discards
\* the cursor alone, the candidates of a page are judged one by one and its
\* cursor is stored whatever came of them.
Receive(n, page, limit, now) ==
  LET spoilt == n.quirk = "spoilsPage" /\ \E k \in DOMAIN page.items : page.items[k].fault # "none"
      took == FoldLeft(LAMBDA acc, r : <<Take(acc[1], r, now), Append(acc[2], Fate(acc[1], r, now))>>,
                       <<n, <<>>>>, IF spoilt THEN <<>> ELSE page.items)
      done(node, outcome, told) == [node |-> node, outcome |-> outcome, told |-> told]
  IN IF page.kind = "resetRequired"
       THEN done(IF n.quirk = "resetForgets" THEN NewNode(n.side, n.generation, n.quirk)
                 ELSE [n EXCEPT !.cursor = None], "resetRequired", <<>>)
     ELSE IF page.kind = "invalidCursor" THEN done(n, "relayError", <<>>)
     ELSE IF Len(page.items) > limit
       THEN done(IF n.quirk = "usesRejectedCursor" THEN [n EXCEPT !.cursor = page.cursor] ELSE n,
                 "rejectedResponse", <<>>)
     ELSE done([took[1] EXCEPT !.cursor = page.cursor], "processed", took[2])

\* Pull page after page until the server has no more or the pages run out.
PullAll(n, server, limit, pages, now, serverNow) ==
  LET step(acc) == LET page == Page(server, acc.node.cursor, limit, serverNow)
                       got == Receive(acc.node, page, limit, now)
                   IN [node |-> got.node, outcome |-> got.outcome, pages |-> acc.pages + 1,
                       told |-> acc.told \o got.told, more |-> page.more /\ got.outcome = "processed"]
      after[k \in 0 .. pages] ==
        IF k = 0 THEN [node |-> n, outcome |-> "processed", pages |-> 0, told |-> <<>>, more |-> TRUE]
        ELSE IF after[k - 1].more THEN step(after[k - 1]) ELSE after[k - 1]
  IN after[pages]
=============================================================================
