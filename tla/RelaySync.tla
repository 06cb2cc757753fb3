---------------------------- MODULE RelaySync ----------------------------
(***************************************************************************)
(* Synchronization of relays over the changes feed, as phase 3 drives it:  *)
(* every node is a relay state of the driver (RelayDriver.tmpl.mo), takes  *)
(* publications, serves pages of its changes feed, and pulls from one peer *)
(* with a cursor it treats as opaque.                                      *)
(*                                                                         *)
(* The driver and the orchestrators issue the commands; what one command   *)
(* decides is made by the participants, whose source is not part of the    *)
(* repository.  Those decisions (Beats, Admits, Merged, Answers) are      *)
(* external: they are what the expected outcomes of phase3.py and gates.py *)
(* show of them.  Commands may come in any order, and the node that        *)
(* answers a pull may change before the puller takes the answer.           *)
(***************************************************************************)
EXTENDS Naturals, FiniteSets

CONSTANTS
  Nodes,          \* relay states, named in the driver's commands
  Dids,
  Records,        \* records that may be published: did, authority, timestamp, digest, bound
  Peer,           \* Peer[n]: the node n pulls from, None if it only serves
  Clocks,         \* readings of a recipient's clock, passed with each command
  Limits,         \* values of itemLimit
  MaxGeneration,  \* bound: how many generations of databases are created
  FixtureItems,   \* the entries of the page the fixture server returns
  None

Cursor == [generation : Nat, position : Nat]
Entry == [record : Records, lastUpdated : Nat]
Item == [record : Records, position : Nat]
Reply ==
  [kind : {"page", "invalid"}, items : SUBSET Item, cursor : Cursor]
    \cup [kind : {"resetRequired"}]

ASSUME SyncAssumption ==
  /\ Peer \in [Nodes -> Nodes \cup {None}]
  /\ \A n \in Nodes : Peer[n] # n
  /\ Clocks \subseteq Nat
  /\ Limits \subseteq Nat \ {0}
  /\ MaxGeneration \in Nat
  /\ Records \subseteq [did : Dids, authority : {"root", "rootRevoked"},
                        timestamp : Nat, digest : Nat, bound : BOOLEAN]
  /\ FixtureItems \subseteq Item
  /\ \A i, j \in FixtureItems :
       i.record.did = j.record.did \/ i.position = j.position => i = j
  /\ IsFiniteSet(Nodes) /\ IsFiniteSet(Dids) /\ IsFiniteSet(FixtureItems)
  /\ None \notin Nodes /\ None \notin Cursor /\ None \notin Entry /\ None \notin Reply

VARIABLES
  generation,     \* the generation of each node's database
  entries,        \* entries[n][d]: the current record of d, and the update number it got
  updateCounter,
  peerCursor,
  reply,          \* the answer to n's pull that n has not taken yet
  created,        \* how many generations exist
  seen,           \* history: the admissible records a database was given
  deferred        \* history: the pulled records a database refused as premature

vars == <<generation, entries, updateCounter, peerCursor, reply, created, seen, deferred>>

\* The fixture server's cursor is of no generation any relay has.
FixtureGeneration == 0

----------------------------------------------------------------------------
\* Revocation outranks every root record, then the later timestamp, then the
\* lower digest.
Beats(r, s) ==
  \/ r.authority = "rootRevoked" /\ s.authority = "root"
  \/ /\ r.authority = s.authority
     /\ \/ r.timestamp > s.timestamp
        \/ r.timestamp = s.timestamp /\ r.digest < s.digest

Admissible(r, now) == r.bound /\ r.timestamp <= now

Held(n, d) == entries[n][d] # None

\* mutant: ingress without the precedence of a revocation
AdmitsByTimeOnly(n, r, now) ==
  /\ Admissible(r, now)
  /\ Held(n, r.did) => LET s == entries[n][r.did].record IN
                         \/ r.timestamp > s.timestamp
                         \/ r.timestamp = s.timestamp /\ r.digest < s.digest

\* A record the ingress of n admits.
Admits(n, r, now) ==
  /\ Admissible(r, now)
  /\ Held(n, r.did) => Beats(r, entries[n][r.did].record)

Admitted(n, items, now) == {i \in items : Admits(n, i.record, now)}

\* mutant: a node keeps the update number the peer gave the record
PeerNumber(n, i, admitted) == i.position

\* Each admission takes the next update number, in the order of the items.
UpdateNumber(n, i, admitted) ==
  updateCounter[n] + Cardinality({j \in admitted : j.position <= i.position})

\* The entries of n after its ingress ran on a set of items.
Merged(n, items, now) ==
  LET admitted == Admitted(n, items, now)
  IN [d \in Dids |->
        IF \E i \in admitted : i.record.did = d
          THEN LET i == CHOOSE j \in admitted : j.record.did = d
               IN [record |-> i.record, lastUpdated |-> UpdateNumber(n, i, admitted)]
          ELSE entries[n][d]]

\* State that the ingress of n under the clock `now` leaves behind.
Ingress(n, items, now) ==
  /\ entries' = [entries EXCEPT ![n] = Merged(n, items, now)]
  /\ updateCounter' = [updateCounter EXCEPT ![n] = @ + Cardinality(Admitted(n, items, now))]
  /\ seen' = [seen EXCEPT ![n] = @ \cup {i.record : i \in {j \in items : Admissible(j.record, now)}}]

----------------------------------------------------------------------------
\* The part of p's feed after a position and up to another.  An entry appears
\* once, under the number of its last change.
Listed(p, d, after, upTo) ==
  Held(p, d) /\ entries[p][d].lastUpdated > after /\ entries[p][d].lastUpdated <= upTo

\* mutant: the feed starts at the cursor, not after it
FeedFrom(p, after, upTo) ==
  {[record |-> entries[p][d].record, position |-> entries[p][d].lastUpdated] :
     d \in {e \in Dids : Listed(p, e, after, upTo) \/ Listed(p, e, after - 1, upTo)}}

Feed(p, after, upTo) ==
  {[record |-> entries[p][d].record, position |-> entries[p][d].lastUpdated] :
     d \in {e \in Dids : Listed(p, e, after, upTo)}}

\* Where a page that starts after a position may end: it holds at most limit
\* entries, and one at least if there is any.  The relay chooses.
Ends(p, after, limit) ==
  {e \in after .. updateCounter[p] :
     /\ Cardinality(Feed(p, after, e)) <= limit
     /\ Feed(p, after, updateCounter[p]) # {} => Feed(p, after, e) # {}}

\* mutant: the cursor returned with a page is the end of the feed
PageToEnd(p, after, end) ==
  [kind |-> "page", items |-> Feed(p, after, end),
   cursor |-> [generation |-> generation[p], position |-> updateCounter[p]]]

PageOf(p, after, end) ==
  [kind |-> "page", items |-> Feed(p, after, end),
   cursor |-> [generation |-> generation[p], position |-> end]]

\* mutant: an empty page returns a cursor without a position
AnswersUnplaced(p, cursor, limit) ==
  IF cursor # None /\ cursor.generation # generation[p]
    THEN {[kind |-> "resetRequired"]}
    ELSE LET after == IF cursor = None THEN 0 ELSE cursor.position
         IN {IF Feed(p, after, e) # {} THEN PageOf(p, after, e)
             ELSE [kind |-> "page", items |-> {},
                   cursor |-> [generation |-> generation[p], position |-> None]] :
               e \in Ends(p, after, limit)}

\* The answers p may give to a request with that cursor.  A cursor of another
\* generation is answered by ResetRequired.
Answers(p, cursor, limit) ==
  IF cursor # None /\ cursor.generation # generation[p]
    THEN {[kind |-> "resetRequired"]}
    ELSE LET after == IF cursor = None THEN 0 ELSE cursor.position
         IN {PageOf(p, after, e) : e \in Ends(p, after, limit)}

----------------------------------------------------------------------------
EmptyEntries == [d \in Dids |-> None]

Init ==
  /\ generation \in {g \in [Nodes -> 1 .. Cardinality(Nodes)] :
                       \A m, n \in Nodes : g[m] = g[n] => m = n}
  /\ created = Cardinality(Nodes)
  /\ entries = [n \in Nodes |-> EmptyEntries]
  /\ updateCounter = [n \in Nodes |-> 0]
  /\ peerCursor = [n \in Nodes |-> None]
  /\ reply = [n \in Nodes |-> None]
  /\ seen = [n \in Nodes |-> {}]
  /\ deferred = [n \in Nodes |-> {}]

\* publish: a client's record, judged by the relay under its own clock.
Publish(n, r, now) ==
  /\ Ingress(n, {[record |-> r, position |-> 0]}, now)
  /\ UNCHANGED <<generation, peerCursor, reply, created, deferred>>

\* clientChangesRequest and the exchange: the request presents the stored
\* cursor, the peer answers from what it holds at that moment.
Ask(n, limit) ==
  /\ Peer[n] # None
  /\ reply[n] = None
  /\ \E answer \in Answers(Peer[n], peerCursor[n], limit) :
       reply' = [reply EXCEPT ![n] = answer]
  /\ UNCHANGED <<generation, entries, updateCounter, peerCursor, created, seen, deferred>>

\* The fixture server answers instead: a page whose outer response is invalid
\* or over the limit, or a valid page with one candidate that is not.
AskFixture(n) ==
  /\ Peer[n] # None
  /\ reply[n] = None
  /\ \E kind \in {"invalid", "page"} :
       reply' = [reply EXCEPT ![n] =
                   [kind |-> kind, items |-> FixtureItems,
                    cursor |-> [generation |-> FixtureGeneration, position |-> 2]]]
  /\ UNCHANGED <<generation, entries, updateCounter, peerCursor, created, seen, deferred>>

\* mutant: one candidate that is not admissible spoils its page
TakePageTogether(n, now) ==
  /\ reply[n] # None
  /\ reply[n].kind = "page"
  /\ LET items == IF \A i \in reply[n].items : Admissible(i.record, now)
                    THEN reply[n].items ELSE {}
     IN Ingress(n, items, now)
  /\ deferred' = [deferred EXCEPT ![n] =
                    @ \cup {i.record : i \in {j \in reply[n].items :
                                              j.record.bound /\ j.record.timestamp > now}}]
  /\ peerCursor' = [peerCursor EXCEPT ![n] = reply[n].cursor]
  /\ reply' = [reply EXCEPT ![n] = None]
  /\ UNCHANGED <<generation, created>>

\* receiveChanges #processed: each candidate is judged alone, under the
\* receiver's clock, and the returned cursor is stored whatever came of them.
TakePage(n, now) ==
  /\ reply[n] # None
  /\ reply[n].kind = "page"
  /\ Ingress(n, reply[n].items, now)
  /\ deferred' = [deferred EXCEPT ![n] =
                    @ \cup {i.record : i \in {j \in reply[n].items :
                                              j.record.bound /\ j.record.timestamp > now}}]
  /\ peerCursor' = [peerCursor EXCEPT ![n] = reply[n].cursor]
  /\ reply' = [reply EXCEPT ![n] = None]
  /\ UNCHANGED <<generation, created>>

\* receiveChanges #resetRequired: only the cursor is discarded.
TakeReset(n) ==
  /\ reply[n] # None
  /\ reply[n].kind = "resetRequired"
  /\ peerCursor' = [peerCursor EXCEPT ![n] = None]
  /\ reply' = [reply EXCEPT ![n] = None]
  /\ UNCHANGED <<generation, entries, updateCounter, created, seen, deferred>>

\* receiveChanges #rejectedResponse: nothing of the response is used.
TakeInvalid(n) ==
  /\ reply[n] # None
  /\ reply[n].kind = "invalid"
  /\ reply' = [reply EXCEPT ![n] = None]
  /\ UNCHANGED <<generation, entries, updateCounter, peerCursor, created, seen, deferred>>

\* The exchange fails: the answer never reaches the puller.
Lose(n) ==
  /\ reply[n] # None
  /\ reply' = [reply EXCEPT ![n] = None]
  /\ UNCHANGED <<generation, entries, updateCounter, peerCursor, created, seen, deferred>>

\* The node comes back on a fresh database, which has a generation of its own.
Fresh(n) ==
  /\ created < MaxGeneration
  /\ created' = created + 1
  /\ generation' = [generation EXCEPT ![n] = created + 1]
  /\ entries' = [entries EXCEPT ![n] = EmptyEntries]
  /\ updateCounter' = [updateCounter EXCEPT ![n] = 0]
  /\ peerCursor' = [peerCursor EXCEPT ![n] = None]
  /\ reply' = [reply EXCEPT ![n] = None]
  /\ seen' = [seen EXCEPT ![n] = {}]
  /\ deferred' = [deferred EXCEPT ![n] = {}]

Next ==
  \E n \in Nodes :
    \/ \E r \in Records, now \in Clocks : Publish(n, r, now)
    \/ \E limit \in Limits : Ask(n, limit)
    \/ AskFixture(n)
    \/ \E now \in Clocks : TakePage(n, now)
    \/ TakeReset(n)
    \/ TakeInvalid(n)
    \/ Lose(n)
    \/ Fresh(n)

Spec == Init /\ [][Next]_vars

----------------------------------------------------------------------------
\* The variables have the types of the driver's relay state.
TypeOK ==
  /\ generation \in [Nodes -> Nat \ {FixtureGeneration}]
  /\ entries \in [Nodes -> [Dids -> Entry \cup {None}]]
  /\ updateCounter \in [Nodes -> Nat]
  /\ peerCursor \in [Nodes -> Cursor \cup {None}]
  /\ reply \in [Nodes -> Reply \cup {None}]
  /\ created \in Nat
  /\ seen \in [Nodes -> SUBSET Records]
  /\ deferred \in [Nodes -> SUBSET Records]

\* n knows r or better, or n refused r as premature when it was handed over.
Covers(n, r) ==
  \/ Held(n, r.did) /\ ~Beats(r, entries[n][r.did].record)
  \/ r \in deferred[n]

\* A cursor never runs ahead of what its owner was given: every entry of the
\* peer at or before the cursor is covered, however publications, pages, lost
\* answers and databases came in between.  The receiver asks for nothing before
\* its cursor again (phase3.py stores the cursor exactly and expects the next
\* pull to be empty), so an entry skipped once would be missing for good.
CursorSound ==
  \A n \in Nodes : LET p == Peer[n] IN
    p # None /\ peerCursor[n] # None /\ peerCursor[n].generation = generation[p]
      => \A d \in Dids :
           Held(p, d) /\ entries[p][d].lastUpdated <= peerCursor[n].position
             => Covers(n, entries[p][d].record)

\* What a node holds depends on the set of admissible records it was given and
\* on nothing else: not on their order, on who gave them, or on the paging.
\* phase3.py expects it of both directions, gates.py of both clocks.
HoldsTheBest ==
  \A n \in Nodes, d \in Dids :
    LET given == {r \in seen[n] : r.did = d} IN
      /\ Held(n, d) <=> given # {}
      /\ Held(n, d) => /\ entries[n][d].record \in given
                       /\ \A r \in given : ~Beats(r, entries[n][d].record)

\* The owner of the cursor has come to the end of the peer's feed, and its
\* clock refused nothing on the way.
CaughtUp(n) ==
  /\ peerCursor[n] # None
  /\ peerCursor[n].generation = generation[Peer[n]]
  /\ Feed(Peer[n], peerCursor[n].position, updateCounter[Peer[n]]) = {}
  /\ deferred[n] = {}

\* A receiver that has come to the end of its peer's feed, and was given nothing
\* admissible that its peer was not given, holds what its peer holds, though the
\* two took the records in different orders, over different pages and under
\* different clocks (the receiver's map against the relay's view: R6.agreement
\* in campaign 1's phase3.py, the final agreement of direction_m in campaign 2's).
PullAgreement ==
  \A n \in Nodes : LET p == Peer[n] IN
    p # None /\ CaughtUp(n) /\ seen[n] \subseteq seen[p] =>
      \A d \in Dids :
        /\ Held(n, d) <=> Held(p, d)
        /\ Held(n, d) => entries[n][d].record = entries[p][d].record

\* Update numbers are given out once and are never above the counter: a page
\* cut after any number of entries leaves the rest after its cursor.
UpdateNumbers ==
  \A n \in Nodes : \A d \in Dids : Held(n, d) =>
    /\ entries[n][d].lastUpdated \in 1 .. updateCounter[n]
    /\ \A e \in Dids : Held(n, e) /\ entries[n][e].lastUpdated = entries[n][d].lastUpdated
                        => d = e

\* A learned revocation is never undone while the database lasts.
RevocationSticks ==
  [][\A n \in Nodes, d \in Dids :
       Held(n, d) /\ entries[n][d].record.authority = "rootRevoked"
         => \/ generation'[n] # generation[n]
            \/ Held(n, d)' /\ entries'[n][d].record.authority = "rootRevoked"]_vars

\* The peer's entries reach the puller once: a page taken under the generation
\* of the stored cursor holds only entries after it, and moves it past them all
\* (phase3.py: exactly-once visibility, pagination with itemLimit 1).
SameFeed(n) ==
  /\ peerCursor[n] # None
  /\ peerCursor'[n] # None
  /\ peerCursor'[n] # peerCursor[n]
  /\ peerCursor'[n].generation = peerCursor[n].generation

ExactlyOnce ==
  [][\A n \in Nodes : SameFeed(n) =>
       \A i \in reply[n].items :
         i.position \in (peerCursor[n].position + 1) .. peerCursor'[n].position]_vars
=============================================================================
