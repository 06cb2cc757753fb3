---------------------------- MODULE LiveExchange ----------------------------
(***************************************************************************)
(* Running a live campaign: the coordinator's main thread takes the steps  *)
(* of a script one after the other, checks what it sees, and at the end    *)
(* writes a report.  Around that: exceptions that unwind through the       *)
(* finallys, command lines that fail with or without their effect, the     *)
(* shim's handler thread between the Rust client and the Motoko session    *)
(* (campaign 1), files of an earlier attempt, and one participant whose    *)
(* implementation departs from the specification.                          *)
(***************************************************************************)
EXTENDS LiveStep

CONSTANTS
  Scripts,        \* the campaigns' scripts, by name
  Quirks,         \* departures: records [side, what]
  MaxFaults,      \* bound: failures of any kind in a behaviour
  MaxAttempts     \* bound: runs of the script in the same work directory

ViaShim(s) == s.via = "shim"
Starts(s) == s.op = "serve" /\ s.side = "rust"

\* The relays that a process may serve before step k of a script, and those that
\* the script starts as Rust relays.
Opens(s, n) == (s.op \in {"serve", "reclock"} \/ (s.op = "seed" /\ n = "iso")) /\ s.at = n
Closes(s, n) == s.op = "stop" /\ n \in s.at
MayServe(script, k) ==
  {n \in Nodes : \E j \in 1 .. k - 1 : /\ Opens(script[j], n)
                                     /\ \A i \in j + 1 .. k - 1 : ~Closes(script[i], n)}
RustRelays(script) == {n \in Nodes : \E k \in DOMAIN script : Starts(script[k]) /\ script[k].at = n}

\* A step through the shim is a client's request, whose failure no check expects.  Where a
\* step may raise, the finallys around it stop what is served, but for Rust relays
\* outside of campaign 1; after the last step nothing is.
WellFormed(campaignName, script) ==
  /\ Len(script) \in Nat /\ DOMAIN script = 1 .. Len(script)
  /\ \A k \in DOMAIN script :
       /\ script[k].op = "stop" => ~script[k].soft /\ ~ViaShim(script[k])
       /\ ViaShim(script[k]) => /\ script[k].op \in {"publish", "resolve"}
                               /\ <<"failed">> \notin script[k].want
       /\ script[k].op # "stop" =>
            MayServe(script, k) \ script[k].guard \subseteq
              IF campaignName = "campaign1" THEN {} ELSE RustRelays(script)
  /\ MayServe(script, Len(script) + 1) = {}

ASSUME LiveAssumption ==
  /\ MaxFaults \in Nat
  /\ MaxAttempts \in Nat \ {0}
  /\ \A c \in DOMAIN Scripts : WellFormed(c, Scripts[c])

VARIABLES
  campaign, quirk,
  attempt, faults,
  hurt,           \* history: a failure hit this attempt
  pc,             \* the next step of the script
  world,          \* the relays: databases in files, and states in processes
  clock,          \* of the relays a process serves, None for the others
  failed,         \* CHECKS: the steps whose check failed
  ending,         \* "running", "raised", or "report"
  waiting,        \* the client of step pc has sent its request to the shim
  queue,          \* requests at the shim, answered one after the other
  handler,        \* how far the shim's handler is with the first one
  capture,        \* captured[-1]: a step and what the shim answered, or None
  heard,          \* what the client of step pc was answered, or None
  misread,        \* history: steps checked against the capture of another
  poisoned        \* the shim's session has a command in its log that fails

shim == <<waiting, queue, handler, capture, heard, misread, poisoned>>
vars == <<campaign, quirk, attempt, faults, hurt, pc, world, clock, failed, ending, shim>>

Script == Scripts[campaign]
Now == Script[pc]
Run == [quirk |-> quirk, attempt |-> attempt]

----------------------------------------------------------------------------
\* mutant: check records every condition as met
CheckLeniently(s, saw) == failed

\* check: a condition that does not hold is recorded, and the script goes on.
Check(s, saw) == IF saw \in s.want THEN failed ELSE failed \cup {pc}

----------------------------------------------------------------------------
StartsAt(a) ==
  /\ attempt = a
  /\ pc = 1
  /\ failed = {}
  /\ ending = "running"
  /\ waiting = FALSE /\ queue = <<>> /\ handler = None
  /\ capture = None /\ heard = None /\ misread = {} /\ poisoned = FALSE

Init ==
  /\ campaign \in DOMAIN Scripts
  /\ quirk \in Quirks \cup {None}
  /\ faults = 0 /\ hurt = FALSE
  /\ world = [n \in Nodes |-> None]
  /\ clock = [n \in Nodes |-> None]
  /\ StartsAt(1)

Running == ending = "running" /\ pc <= Len(Script)
\* A step that waits for the handler thread: stopping the shim lets it finish the
\* request it is with, a direct exchange queues behind all of them and is
\* answered when the session's log can be replayed.
Idle == handler = None /\ queue = <<>>
NeedsShim(s) ==
  /\ s.op = "stop" => handler = None
  /\ s.op = "read" => Idle /\ ~poisoned

\* One step of the main thread that is not an exchange through the shim.  The
\* requests, captures and session of a shim are gone when it is stopped.
Do ==
  /\ Running
  /\ ~ViaShim(Now)
  /\ NeedsShim(Now)
  /\ world' = After(Now, world, clock, Run)
  /\ clock' = Clocked(Now, clock)
  /\ failed' = Check(Now, Saw(Now, world, clock, Run))
  /\ pc' = pc + 1
  /\ IF Now.op = "stop"
       THEN /\ queue' = <<>> /\ capture' = None /\ poisoned' = FALSE
            /\ UNCHANGED <<waiting, handler, heard, misread>>
       ELSE UNCHANGED shim
  /\ UNCHANGED <<campaign, quirk, attempt, faults, hurt, ending>>

Fault == faults < MaxFaults /\ faults' = faults + 1 /\ hurt' = TRUE

\* A command line fails where the script looks at its exit status: its work
\* was done, or it was not.
CliFails ==
  /\ Running
  /\ ~ViaShim(Now) /\ Now.soft
  /\ Fault
  /\ world' \in {world, After(Now, world, clock, Run)}
  /\ failed' = failed \cup {pc}
  /\ pc' = pc + 1
  /\ UNCHANGED <<campaign, quirk, attempt, clock, ending, shim>>

\* mutant: the relays are stopped after their section, not in a finally
UnwoundNothing(nodes) == clock

\* The finallys around a step stop their relays.
Unwound(nodes) == [n \in Nodes |-> IF n \in nodes THEN None ELSE clock[n]]

\* A step raises: the finallys around it run, and there is no report.  A direct
\* exchange with a shim whose log cannot be replayed always does.
Raises ==
  /\ Running
  /\ Now.op # "stop"
  /\ \/ Fault
     \/ Now.op = "read" /\ Idle /\ poisoned /\ UNCHANGED <<faults, hurt>>
  /\ ending' = "raised"
  /\ clock' = Unwound(Now.guard)
  /\ UNCHANGED <<campaign, quirk, attempt, pc, world, failed, shim>>

\* RustRelay raises after the process was started: its stop is inside no try
\* yet, and the relay stays.
StartRaises ==
  /\ Running
  /\ Starts(Now)
  /\ Fault
  /\ ending' = "raised"
  /\ world' = After(Now, world, clock, Run)
  /\ clock' = [Unwound(Now.guard) EXCEPT ![Now.at] = Now.now]
  /\ UNCHANGED <<campaign, quirk, attempt, pc, failed, shim>>

\* mutant: the report is written before the last step
ReportEarly ==
  /\ ending = "running"
  /\ pc = Len(Script)
  /\ ending' = "report"
  /\ UNCHANGED <<campaign, quirk, attempt, faults, hurt, pc, world, clock, failed, shim>>

\* The report is written after the last step.
Report ==
  /\ ending = "running"
  /\ pc > Len(Script)
  /\ ending' = "report"
  /\ UNCHANGED <<campaign, quirk, attempt, faults, hurt, pc, world, clock, failed, shim>>

\* The script is run again in the same work directory: files are still there,
\* the driver session and the bridge start from nothing.  (A relay an earlier
\* attempt left behind keeps a port of its own and nobody talks to it.)
Again ==
  /\ ending # "running"
  /\ attempt < MaxAttempts
  /\ world' = LET kept == Databases(Script) IN [n \in Nodes |-> IF n \in kept THEN world[n] ELSE None]
  /\ clock' = [n \in Nodes |-> None]
  /\ attempt' = attempt + 1
  /\ pc' = 1 /\ hurt' = FALSE /\ failed' = {} /\ ending' = "running"
  /\ waiting' = FALSE /\ queue' = <<>> /\ handler' = None
  /\ capture' = None /\ heard' = None /\ misread' = {} /\ poisoned' = FALSE
  /\ UNCHANGED <<campaign, quirk, faults>>

----------------------------------------------------------------------------
\* The Rust client is started and sends its request to the shim.
Send ==
  /\ Running
  /\ ViaShim(Now)
  /\ ~waiting
  /\ waiting' = TRUE
  /\ queue' = Append(queue, pc)
  /\ UNCHANGED <<campaign, quirk, attempt, faults, hurt, pc, world, clock, failed, ending,
                 handler, capture, heard, misread, poisoned>>

\* The handler's session.run: the log is replayed, then the new command run.
HandlerRuns ==
  /\ ending = "running"
  /\ queue # <<>> /\ handler = None /\ ~poisoned
  /\ LET s == Script[Head(queue)]
     IN /\ world' = After(s, world, clock, Run)
        /\ handler' = <<Head(queue), Saw(s, world, clock, Run)>>
  /\ UNCHANGED <<campaign, quirk, attempt, faults, hurt, pc, clock, failed, ending,
                 waiting, queue, capture, heard, misread, poisoned>>

\* mutant: the response is written before the exchange is captured
HandlerRepliesFirst ==
  /\ handler # None /\ heard = None /\ handler # capture
  /\ heard' = IF waiting /\ handler[1] = pc THEN handler[2] ELSE heard
  /\ queue' = Tail(queue)
  /\ handler' = None
  /\ \E late \in BOOLEAN : capture' = IF late THEN capture ELSE handler
  /\ UNCHANGED <<campaign, quirk, attempt, faults, hurt, pc, world, clock, failed, ending,
                 waiting, misread, poisoned>>

\* _reply: the exchange is captured, then the response is written; the client
\* may have given up on it.
HandlerReplies ==
  /\ handler # None
  /\ capture' = handler
  /\ heard' = IF waiting /\ heard = None /\ handler[1] = pc THEN handler[2] ELSE heard
  /\ queue' = Tail(queue)
  /\ handler' = None
  /\ UNCHANGED <<campaign, quirk, attempt, faults, hurt, pc, world, clock, failed, ending,
                 waiting, misread, poisoned>>

\* The driver run fails: the connection is closed without a response and nothing is
\* captured.  The command was appended to the log before.  Either it failed
\* itself, and every later replay fails at it, or the run did (the process died, its
\* time was over), and the next one carries the command out; since nothing else sees
\* the state of the session, that is as good as having done so now.
HandlerFails ==
  /\ ending = "running"
  /\ queue # <<>> /\ handler = None
  /\ \/ ~poisoned /\ Fault /\ poisoned' \in BOOLEAN
     \/ poisoned /\ UNCHANGED <<faults, hurt, poisoned>>
  /\ world' = IF poisoned' THEN world ELSE After(Script[Head(queue)], world, clock, Run)
  /\ queue' = Tail(queue)
  /\ heard' = IF waiting /\ Head(queue) = pc THEN <<"failed">> ELSE heard
  /\ UNCHANGED <<campaign, quirk, attempt, pc, clock, failed, ending,
                 waiting, handler, capture, misread>>

\* The client gives up: its time is over before the shim answered.
ClientGivesUp ==
  /\ Running
  /\ waiting /\ heard = None
  /\ Fault
  /\ heard' = <<"failed">>
  /\ UNCHANGED <<campaign, quirk, attempt, pc, world, clock, failed, ending,
                 waiting, queue, handler, capture, misread, poisoned>>

\* The client has ended: the main thread reads captured[-1], which raises when
\* nothing was captured yet, and checks the client's result and the bytes.
Conclude ==
  /\ Running
  /\ heard # None
  /\ waiting' = FALSE
  /\ heard' = None
  /\ IF capture = None
       THEN /\ ending' = "raised"
            /\ clock' = Unwound(Now.guard)
            /\ UNCHANGED <<pc, failed, misread>>
       ELSE /\ failed' = Check(Now, heard) \cup Check(Now, capture[2])
            /\ misread' = IF capture[1] = pc THEN misread ELSE misread \cup {pc}
            /\ pc' = pc + 1
            /\ UNCHANGED <<ending, clock>>
  /\ UNCHANGED <<campaign, quirk, attempt, faults, hurt, world, queue, handler, capture,
                 poisoned>>

Next ==
  \/ Do \/ CliFails \/ Raises \/ StartRaises \/ Report \/ Again
  \/ Send \/ HandlerRuns \/ HandlerReplies \/ HandlerFails \/ ClientGivesUp \/ Conclude

Spec == Init /\ [][Next]_vars

----------------------------------------------------------------------------
\* Types: the step counter stays within the script and is past it when the
\* report is written, and every step noted as failed or misread is a step of the
\* script (phase3.py: main, CHECKS).
TypeOK ==
  /\ pc \in 1 .. Len(Script) + 1
  /\ ending = "report" => pc = Len(Script) + 1
  /\ failed \subseteq DOMAIN Script /\ misread \subseteq DOMAIN Script

\* A campaign between two implementations that follow the specification, in
\* which nothing failed, records no failed check: what every step expects is
\* what the steps before it left behind.  For campaign 1 this holds of its
\* first run alone (see RerunAgrees).
NoFalseAlarm ==
  ~hurt /\ quirk = None /\ (campaign = "campaign1" => attempt = 1) => failed = {}

\* A run of a campaign in a work directory that was used before agrees with the
\* first one: make_archive.py promises that only the opaque values of phase 3
\* vary between executions.
RerunAgrees == ~hurt /\ quirk = None => failed = {}

\* However a campaign ends, no relay it started is still served.  The exceptions
\* come with an exception alone: a Rust relay whose own start raised, and in
\* campaign 2 the Rust relays which gates.py and phase3.py stop outside of any
\* finally.
CleansUp ==
  ending # "running" =>
    \A n \in Nodes : clock[n] # None =>
      /\ ending = "raised"
      /\ n \in RustRelays(Script)
      /\ campaign = "campaign1" => Starts(Now) /\ Now.at = n

\* Whatever fails on the way, the check of an exchange through the shim reads the
\* bytes of that exchange, or is recorded as failed (captured[-1], check).
MisreadsFail == misread \subseteq failed

Settled(w, n, m) ==
  \A d \in {"alice", "bob"} :
    /\ NameOf(w[n], d) = NameOf(w[m], d)
    /\ NameOf(w[n], d) \in {"b5", "b9"}
\* The relays a campaign compares in the end.
Compared(c) ==
  CASE c = "campaign1" -> {<<"mrecv", "rust-relay">>}
    [] c = "campaign2" -> {<<"node", "r-main">>, <<"m-sync", "server">>}
    [] OTHER -> {}
AllSettled(c, w) == \A pair \in Compared(c) : Settled(w, pair[1], pair[2])

\* A report without a failed check is earned, whatever failed on the way: every
\* check of an exchange through the shim read the bytes of that exchange, and
\* the relays the campaign compares hold the same winning records.
EarnedReport ==
  ending = "report" /\ failed = {} /\ quirk = None => misread = {} /\ AllSettled(campaign, world)

\* The departures each script is able to notice, and at which implementation.
Noticed ==
  LET Of(side, whats) == {[side |-> side, what |-> what] : what \in whats}
      ingress == {"ignoresBinding", "readmits", "deduplicates", "spoilsPage"}
      cursors == {"repeatsEntry", "skipsToEnd"}
      clocks == {"sharesGeneration", "ignoresBinding", "servesPremature", "hidesPremature"}
  IN [campaign1 |-> Of("motoko", ingress \cup {"resetForgets", "usesRejectedCursor"}) \cup
                    Of("rust", ingress \cup cursors \cup {"sharesGeneration"}),
      gates     |-> Of("motoko", clocks) \cup Of("rust", clocks),
      campaign2 |-> Of("motoko", ingress \cup cursors \cup {"usesRejectedCursor"}) \cup
                    Of("rust", ingress \cup cursors \cup {"usesRejectedCursor"})]

\* A campaign that ends in a report has noticed a participant that departs from
\* the specification in one of these ways, also when something failed on the way.
DeparturesNoticed ==
  ending = "report" /\ attempt = 1 /\ quirk \in Noticed[campaign] => failed # {}
=============================================================================
