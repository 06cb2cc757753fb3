----------------------------- MODULE LiveScript -----------------------------
(***************************************************************************)
(* The steps of a live campaign as data.  A step acts on one relay (`at`),  *)
(* states what the coordinator must see of it (`want`), and names the      *)
(* relays that an enclosing finally stops when the step raises (`guard`).  *)
(* A step through a client's command line that fails is a failed check,    *)
(* and the script goes on, only where the script allows for it (`soft`).   *)
(***************************************************************************)
EXTENDS Naturals, Sequences, SequencesExt

\* The published records.  Timestamps and clocks are ranks; of the two B.6
\* records with one timestamp, Alice A has the lower digest.
Published(name, did, authority, timestamp, digest) ==
  [name |-> name, did |-> did, authority |-> authority, timestamp |-> timestamp,
   digest |-> digest, fault |-> "none"]
B4 == Published("b4", "alice", "root", 1, 4)
B5 == Published("b5", "alice", "rootRevoked", 2, 5)
B6A == Published("b6a", "alice", "root", 1, 6)
B6B == Published("b6b", "alice", "root", 1, 7)
B8 == [Published("b8", "alice", "root", 1, 8) EXCEPT !.fault = "identityBindingMismatch"]
B9 == Published("b9", "bob", "root", 2, 9)
Large == [Published("large", "alice", "root", 2, 1) EXCEPT !.fault = "recordTooLarge"]
Carol == Published("carol", "carol", "root", 4, 10)
Dave == Published("dave", "dave", "root", 4, 11)
Erin == Published("erin", "erin", "rootRevoked", 4, 12)

\* Before every record; the published recipient clock; the wall clock; the
\* clock the challenge file prescribes.
Premature == 0
Recipient == 2
Wall == 3
Challenge == 5

\* The pages the fixture server returns: B.11.5, and B.11.7 over the limit of 2.
FixtureCursor(k) == [generation |-> <<"fixture", 0>>, position |-> k]
PageB115 == [kind |-> "page", items |-> <<B8, B9>>, more |-> FALSE, cursor |-> FixtureCursor(2)]
PageB117 == [kind |-> "page", items |-> <<B8, B9, B9>>, more |-> FALSE, cursor |-> FixtureCursor(3)]

----------------------------------------------------------------------------
Step(op, at, want) ==
  [op |-> op, at |-> at, want |-> want, guard |-> {}, soft |-> FALSE, via |-> "direct"]

Serve(n, side, fresh, now) ==
  Step("serve", n, {<<"ok">>}) @@ [side |-> side, fresh |-> fresh, now |-> now]
\* A database no process serves, used by the sync of a command line.
Create(n) == Step("create", n, {<<"ok">>})
Reclock(n, now) == Step("reclock", n, {<<"ok">>}) @@ [now |-> now]
StopAll(nodes) == Step("stop", nodes, {<<"ok">>})
Publish(n, r, want) == Step("publish", n, want) @@ [record |-> r]
Ask(n, dids, want) == Step("resolve", n, want) @@ [dids |-> dids]
\* A read or a hostile request that leaves no state: information, directory,
\* the invalid outer request.
Read(n) == Step("read", n, {<<"answered">>})
Pull(to, from, limit, pages, now, want) ==
  Step("pull", to, want) @@ [from |-> from, limit |-> limit, pages |-> pages, now |-> now]
PullFixture(to, page, limit, want) ==
  Step("fixture", to, want) @@ [page |-> page, limit |-> limit, now |-> Recipient]
\* Present a cursor to a relay: none, a truncated one, or one of another relay.
Present(n, of, want) == Step("present", n, want) @@ [of |-> of]
\* The current records of some DIDs at two relays.
Agree(n, m, dids, want) == Step("agree", n, want) @@ [with |-> m, dids |-> dids]
\* dumpState: the counter, the numbers of two entries, the cursor's position.
Dump(n, want) == Step("dump", n, want)
Seed(n, side, rs, numbers, counter, cursor) ==
  Step("seed", n, {<<"ok">>}) @@ [side |-> side, records |-> rs, numbers |-> numbers,
                                 counter |-> counter, cursor |-> cursor]
\* A production client takes a complete hostile response and must refuse it.
Refuse == Step("refuse", "client", {<<"rejected">>})

\* try: the steps; finally: stop the nodes.
Guarded(nodes, steps) ==
  [k \in DOMAIN steps |-> [steps[k] EXCEPT !.guard = @ \cup nodes]] \o <<StopAll(nodes)>>

Via(channel, steps) == [k \in DOMAIN steps |-> [steps[k] EXCEPT !.via = channel]]
Soft(steps) == [k \in DOMAIN steps |-> [steps[k] EXCEPT !.soft = TRUE]]

Full(names) == [k \in DOMAIN names |-> <<"full", names[k]>>]
=============================================================================
