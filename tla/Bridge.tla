------------------------------- MODULE Bridge -------------------------------
(***************************************************************************)
(* The campaign-2 Motoko bridge (orchestrate/motoko_bridge.js), the        *)
(* orchestrator that drives it over a pipe (gates.py, MotokoBridge), and   *)
(* their environment: the participant process behind its loopback shim,    *)
(* the peer relay a client operation talks to, and the gate servers the    *)
(* bridge opens for the orchestrator's own HTTP requests.                  *)
(*                                                                         *)
(* The bridge is one node process: its commands are sequential, but the    *)
(* two frame waiters of a client operation, the HTTP exchange it carries,  *)
(* the deadlines and the gate handlers are callbacks in any order.         *)
(***************************************************************************)
EXTENDS Naturals, Sequences, FiniteSets

CONSTANTS
  Gates,        \* names of gate nodes
  Clocks,       \* scenario clock values (nowMs)
  MaxSteps,     \* bound: commands and HTTP requests the orchestrator issues
  RequestWait,  \* deadline of the FLW-CLIENT-REQUEST waiter (110000 ms)
  OutcomeWait,  \* deadline of the FLW-CLIENT-OUTCOME waiter (115000 ms)
  None          \* the absent value

ASSUME BridgeAssumption ==
  /\ MaxSteps \in Nat /\ RequestWait \in Nat /\ OutcomeWait \in Nat
  /\ RequestWait < OutcomeWait
  /\ None \notin Clocks

VARIABLES
  orch,      \* the orchestrator: ready, awaiting, http, failed, stopping, done
  issued,    \* commands and requests issued so far; the last one's ordinal
  clock,     \* orchestrator's view: gate -> scenario clock it last had acked
  made,      \* orchestrator's view: gates whose gateInit was acked
  bridge,    \* booting, idle, client, gateInit, probe, exited, dead
  stdin,     \* command lines the bridge has not read yet
  stdout,    \* reply lines the orchestrator has not read yet
  cur,       \* the command the bridge is executing
  imported,  \* gateImported
  box,       \* gateClocks: gate -> the clock box its server reads
  handler,   \* the gate request in progress
  age,       \* time since the running client operation started
  waiter,    \* client operation -> its two waiters
  http,      \* client operation -> its HTTP exchange: off, open, ended, lost
  result,    \* client operation -> what its promise settled with
  toPart,    \* statements in the participant's stdin
  frames,    \* frames in the participant's stdout
  nodes,     \* gate nodes that exist inside the participant
  fed        \* operations whose answer went into receive(), with repetition

orchVars   == <<orch, issued, clock, made>>
bridgeVars == <<bridge, cur, imported, box, age>>
opVars     == <<waiter, http, result>>
partVars   == <<toPart, frames, nodes, fed>>
vars == <<orchVars, bridgeVars, stdin, stdout, handler, opVars, partVars>>

Step == 1 .. MaxSteps
Alive == bridge \notin {"exited", "dead"}

(***************************************************************************)
(* Commands, replies, statements and frames.                               *)
(***************************************************************************)
Command ==
  [op : {"client", "probe", "statement", "serve", "stop"},
   id : Step \cup {0}, gate : {None}, now : {None}]
    \cup [op : {"gateInit"}, id : Step, gate : Gates, now : {None}]
    \cup [op : {"gateServe", "gateClock"}, id : Step, gate : Gates, now : Clocks]

Outcome == {"refused", "classified"}
Settled == [ok : {TRUE}, raw : Step \cup {None}, outcome : Outcome, of : Step]
             \cup [ok : {FALSE}, raw : {None}, outcome : {None}, of : Step]
\* Absence is neither a command nor a result (JavaScript's null, Python's None).
ASSUME NoneAssumption == None \notin Command \cup Settled

Failure(i) == [ok |-> FALSE, raw |-> None, outcome |-> None, of |-> i]

Reply == [cmd : Command, ok : BOOLEAN, value : Settled \cup {None}]
ReplyTo(c, good, v) == [cmd |-> c, ok |-> good, value |-> v]

Statement == [t : {"build", "receive", "import", "make", "ping", "probe",
                   "serve", "tamper"},
              id : Step, gate : Gates \cup {None}, now : Clocks \cup {None}]
Stmt(t, i, g, n) == [t |-> t, id |-> i, gate |-> g, now |-> n]

FrameTag == {"REQUEST", "OUTCOME", "PONG", "PROBE", "RESPONSE"}
Frame == [t : {"OUTCOME"}, id : Step, outcome : Outcome, now : {None}]
           \cup [t : FrameTag \ {"OUTCOME"}, id : Step, outcome : {None},
                 now : Clocks \cup {None}]
Frm(t, i, o, n) == [t |-> t, id |-> i, outcome |-> o, now |-> n]

Send(stmts) == toPart' = toPart \o stmts
Answer(c, good, v) == stdout' = Append(stdout, ReplyTo(c, good, v))

NoHandler == [st |-> "off", gate |-> None, id |-> 0, now |-> None]

Init ==
  /\ orch = "ready" /\ issued = 0 /\ stdin = <<>> /\ stdout = <<>>
  /\ clock = [g \in Gates |-> None] /\ made = {}
  /\ bridge = "booting" /\ cur = None /\ imported = FALSE /\ age = 0
  /\ box = [g \in Gates |-> None] /\ handler = NoHandler
  /\ waiter = [i \in Step |-> [req |-> "off", out |-> "off"]]
  /\ http = [i \in Step |-> "off"] /\ result = [i \in Step |-> None]
  /\ toPart = <<>> /\ frames = <<>> /\ nodes = {} /\ fed = <<>>

(***************************************************************************)
(* The orchestrator.                                                       *)
(***************************************************************************)

\* What gates.py and phase3.py ask for: every gate is made once, served once
\* after that, and its clock is moved only while it is served.
MayAsk(c) ==
  /\ c.op = "gateInit"  => c.gate \notin made
  /\ c.op = "gateServe" => c.gate \in made /\ clock[c.gate] = None
  /\ c.op = "gateClock" => clock[c.gate] # None

\* MotokoBridge.cmd: one line out, then a blocking readline. Writing to a
\* process that is gone raises (BrokenPipeError).
Ask(c) ==
  /\ orch = "ready" /\ issued < MaxSteps
  /\ c.op # "stop" /\ c.id = issued + 1 /\ MayAsk(c)
  /\ issued' = issued + 1
  /\ IF Alive THEN orch' = "awaiting" /\ stdin' = Append(stdin, c)
              ELSE orch' = "failed" /\ UNCHANGED stdin
  /\ UNCHANGED <<clock, made, bridgeVars, stdout, handler, opVars, partVars>>

\* mutant: "ok" is not asserted
TakeReplyUnchecked ==
  /\ orch = "awaiting" /\ stdout # <<>>
  /\ orch' = "ready" /\ stdout' = Tail(stdout)
  /\ UNCHANGED <<issued, clock, made, bridgeVars, stdin, handler, opVars, partVars>>
\* The reply is parsed and "ok" is asserted: a failed command ends the run of
\* commands, because the caller's finally goes straight to stop().
TakeReply ==
  /\ orch = "awaiting" /\ stdout # <<>>
  /\ LET r == Head(stdout) IN
       /\ orch' = IF r.ok THEN "ready" ELSE "failed"
       /\ made' = IF r.ok /\ r.cmd.op = "gateInit" THEN made \cup {r.cmd.gate}
                                                   ELSE made
       /\ clock' = IF r.ok /\ r.cmd.op \in {"gateServe", "gateClock"}
                     THEN [clock EXCEPT ![r.cmd.gate] = r.cmd.now] ELSE clock
  /\ stdout' = Tail(stdout)
  /\ UNCHANGED <<issued, bridgeVars, stdin, handler, opVars, partVars>>

\* End of file instead of a reply: json.loads("") raises.
TakeEof ==
  /\ orch \in {"awaiting", "stopping"} /\ stdout = <<>> /\ ~Alive
  /\ orch' = IF orch = "awaiting" THEN "failed" ELSE "done"
  /\ UNCHANGED <<issued, clock, made, bridgeVars, stdin, stdout, handler,
                 opVars, partVars>>

\* http_request to a gate server: the handler's 'end' callback draws an id,
\* reads the clock box and sends the serve statement in one go. A dead bridge
\* refuses the connection, which raises.
AskGate(g) ==
  /\ orch = "ready" /\ issued < MaxSteps /\ clock[g] # None
  /\ issued' = issued + 1
  /\ IF Alive
       THEN /\ orch' = "http"
            /\ handler' = [st |-> "waiting", gate |-> g, id |-> issued + 1,
                           now |-> None]
            /\ Send(<<Stmt("serve", issued + 1, g, box[g])>>)
       ELSE orch' = "failed" /\ UNCHANGED <<handler, toPart>>
  /\ UNCHANGED <<clock, made, bridgeVars, stdin, stdout, opVars, frames, nodes,
                 fed>>

\* The response reaches http_request; a destroyed response raises.
TakeResponse ==
  /\ orch = "http" /\ handler.st \in {"answered", "destroyed"}
  /\ orch' = IF handler.st = "answered" THEN "ready" ELSE "failed"
  /\ handler' = NoHandler
  /\ UNCHANGED <<issued, clock, made, bridgeVars, stdin, stdout, opVars,
                 partVars>>

\* urlopen(timeout=120) gives up; or the bridge died under the request.
HttpGivesUp ==
  /\ orch = "http" /\ orch' = "failed"
  /\ UNCHANGED <<issued, clock, made, bridgeVars, stdin, stdout, handler,
                 opVars, partVars>>

\* mutant: stop is not in the finally
AskStopOnSuccess ==
  /\ orch = "ready" /\ Alive /\ orch' = "stopping"
  /\ stdin' = Append(stdin, [op |-> "stop", id |-> 0, gate |-> None, now |-> None])
  /\ UNCHANGED <<issued, clock, made, bridgeVars, stdout, handler, opVars, partVars>>
\* MotokoBridge.stop: after the script or after a failure.
AskStop ==
  /\ orch \in {"ready", "failed"}
  /\ IF Alive
       THEN /\ orch' = "stopping"
            /\ stdin' = Append(stdin, [op |-> "stop", id |-> 0, gate |-> None,
                                       now |-> None])
       ELSE orch' = "done" /\ UNCHANGED stdin
  /\ UNCHANGED <<issued, clock, made, bridgeVars, stdout, handler, opVars,
                 partVars>>

\* The stop reply (or any earlier line still in the pipe) is read, then the
\* process is waited for, and killed when it does not exit in 30 s.
TakeStop ==
  /\ orch = "stopping" /\ stdout # <<>>
  /\ orch' = "done" /\ stdout' = Tail(stdout)
  /\ bridge' = IF Alive THEN "dead" ELSE bridge
  /\ UNCHANGED <<issued, clock, made, cur, imported, box, age, stdin, handler,
                 opVars, partVars>>

(***************************************************************************)
(* The bridge's command loop.                                              *)
(***************************************************************************)

\* await participant.ready(): commands wait in the pipe meanwhile; a
\* rejection reaches main().catch and the process exits with code 1.  Nothing
\* here says that the promise ever settles.
Boot ==
  /\ bridge = "booting"
  /\ \/ bridge' = "idle" /\ UNCHANGED stdin
     \/ bridge' = "dead" /\ stdin' = <<>>
  /\ UNCHANGED <<orchVars, stdout, cur, imported, box, age, handler,
                 opVars, partVars>>

\* for await (const line of rl): the next command, when the last is done.
Reads(kind) == bridge = "idle" /\ stdin # <<>> /\ Head(stdin).op = kind
Consume == stdin' = Tail(stdin)

\* mutant: the operation is not awaited, the loop reads on
ClientNotAwaited ==
  /\ Reads("client") /\ Consume
  /\ LET c == Head(stdin) IN
       /\ bridge' = bridge /\ cur' = c /\ age' = 0
       /\ waiter' = [waiter EXCEPT ![c.id] = [req |-> "waiting", out |-> "waiting"]]
       /\ Send(<<Stmt("build", c.id, None, None)>>)
  /\ UNCHANGED <<orchVars, stdout, imported, box, handler, http, result,
                 frames, nodes, fed>>
\* bridgeClientOperation: the build statement goes out and both waiters start
\* in the same tick.
Client ==
  /\ Reads("client") /\ Consume
  /\ LET c == Head(stdin) IN
       /\ bridge' = "client" /\ cur' = c /\ age' = 0
       /\ waiter' = [waiter EXCEPT ![c.id] = [req |-> "waiting", out |-> "waiting"]]
       /\ Send(<<Stmt("build", c.id, None, None)>>)
  /\ UNCHANGED <<orchVars, stdout, imported, box, handler, http, result,
                 frames, nodes, fed>>

\* op gateInit: the import goes out once per process, then the node, then a
\* ping whose PONG is awaited.
GateInit ==
  /\ Reads("gateInit") /\ Consume
  /\ LET c == Head(stdin)
         import == IF imported THEN <<>>
                               ELSE <<Stmt("import", c.id, None, None)>>
     IN /\ bridge' = "gateInit" /\ cur' = c /\ imported' = TRUE
        /\ Send(import \o <<Stmt("make", c.id, c.gate, None),
                            Stmt("ping", c.id, None, None)>>)
  /\ UNCHANGED <<orchVars, stdout, box, age, handler, opVars, frames, nodes, fed>>

\* op gateServe: the clock box is stored, then the server listens; a listen
\* error has no handler and ends the process.
GateServe ==
  /\ Reads("gateServe") /\ Consume
  /\ LET c == Head(stdin) IN
       /\ box' = [box EXCEPT ![c.gate] = c.now]
       /\ \/ bridge' = bridge /\ Answer(c, TRUE, None)
          \/ bridge' = "dead" /\ UNCHANGED stdout
  /\ UNCHANGED <<orchVars, cur, imported, age, handler, opVars, partVars>>

\* mutant: a copy of the clock is moved, not the box the server reads
GateClockCopy ==
  /\ Reads("gateClock") /\ Consume /\ Answer(Head(stdin), TRUE, None)
  /\ UNCHANGED <<orchVars, bridgeVars, handler, opVars, partVars>>
\* op gateClock: assigns into the existing box; without one it throws.
GateClock ==
  /\ Reads("gateClock") /\ Consume
  /\ LET c == Head(stdin) IN
       IF box[c.gate] = None
         THEN Answer(c, FALSE, None) /\ UNCHANGED box
         ELSE Answer(c, TRUE, None) /\ box' = [box EXCEPT ![c.gate] = c.now]
  /\ UNCHANGED <<orchVars, bridge, cur, imported, age, handler, opVars, partVars>>

\* op probe: one statement, one awaited frame.
Probe ==
  /\ Reads("probe") /\ Consume
  /\ bridge' = "probe" /\ cur' = Head(stdin)
  /\ Send(<<Stmt("probe", Head(stdin).id, None, None)>>)
  /\ UNCHANGED <<orchVars, stdout, imported, box, age, handler, opVars, frames,
                 nodes, fed>>

\* op statement: sent and acknowledged without waiting for its effect.
RawStatement ==
  /\ Reads("statement") /\ Consume
  /\ Send(<<Stmt("tamper", Head(stdin).id, None, None)>>)
  /\ Answer(Head(stdin), TRUE, None)
  /\ UNCHANGED <<orchVars, bridgeVars, handler, opVars, frames, nodes, fed>>

\* op serve: the participant's own HTTP server, through the shim; it starts,
\* rejects into the loop's catch, or dies on the port like GateServe.
Serve ==
  /\ Reads("serve") /\ Consume
  /\ \/ bridge' = bridge /\ \E good \in BOOLEAN : Answer(Head(stdin), good, None)
     \/ bridge' = "dead" /\ UNCHANGED stdout
  /\ UNCHANGED <<orchVars, cur, imported, box, age, handler, opVars, partVars>>

\* op stop: close the servers, stop the participant, reply, exit. The
\* participant's pipes and any request in progress go with the process.
Stop ==
  /\ Reads("stop") /\ Consume
  /\ Answer(Head(stdin), TRUE, None) /\ bridge' = "exited"
  /\ toPart' = <<>> /\ frames' = <<>>
  /\ handler' = IF handler.st = "waiting" THEN [handler EXCEPT !.st = "destroyed"]
                                          ELSE handler
  /\ UNCHANGED <<orchVars, cur, imported, box, age, opVars, nodes, fed>>

(***************************************************************************)
(* A client operation's callbacks. done and fail settle the promise once.  *)
(***************************************************************************)
Settle(i, v) ==
  result' = IF result[i] = None THEN [result EXCEPT ![i] = v] ELSE result

Arrives(tag) == Alive /\ frames # <<>> /\ Head(frames).t = tag
Deliver == frames' = Tail(frames)

\* mutant: a late request frame is carried all the same
RequestFrameLate ==
  /\ Arrives("REQUEST") /\ Deliver
  /\ http' = [http EXCEPT ![Head(frames).id] = "open"]
  /\ waiter' = [waiter EXCEPT ![Head(frames).id].req = "got"]
  /\ UNCHANGED <<orchVars, bridgeVars, stdin, stdout, handler, result, toPart,
                 nodes, fed>>
\* FLW-CLIENT-REQUEST: the HTTP request is opened if the waiter is still
\* there; a frame nobody waits for is dropped.
RequestFrame ==
  /\ Arrives("REQUEST") /\ Deliver
  /\ LET i == Head(frames).id IN
       IF waiter[i].req = "waiting"
         THEN /\ waiter' = [waiter EXCEPT ![i].req = "got"]
              /\ http' = [http EXCEPT ![i] = "open"]
         ELSE UNCHANGED <<waiter, http>>
  /\ UNCHANGED <<orchVars, bridgeVars, stdin, stdout, handler, result, toPart,
                 nodes, fed>>

\* FLW-CLIENT-OUTCOME: done with the raw answer recorded so far.
OutcomeFrame ==
  /\ Arrives("OUTCOME") /\ Deliver
  /\ LET i == Head(frames).id IN
       IF waiter[i].out = "waiting"
         THEN /\ waiter' = [waiter EXCEPT ![i].out = "got"]
              /\ Settle(i, [ok |-> TRUE, of |-> i, outcome |-> Head(frames).outcome,
                            raw |-> IF http[i] = "ended" THEN i ELSE None])
         ELSE UNCHANGED <<waiter, result>>
  /\ UNCHANGED <<orchVars, bridgeVars, stdin, stdout, handler, http, toPart,
                 nodes, fed>>

\* The 110 s waiter rejects; its catch swallows the rejection.
RequestExpires(i) ==
  /\ Alive /\ waiter[i].req = "waiting"
  /\ age >= RequestWait \/ result[i] # None
  /\ waiter' = [waiter EXCEPT ![i].req = "expired"]
  /\ UNCHANGED <<orchVars, bridgeVars, stdin, stdout, handler, http, result,
                 partVars>>

\* mutant: the deadline does not fail the operation
OutcomeExpiresSilently(i) ==
  /\ Alive /\ waiter[i].out = "waiting"
  /\ age >= OutcomeWait \/ result[i] # None
  /\ waiter' = [waiter EXCEPT ![i].out = "expired"]
  /\ UNCHANGED <<orchVars, bridgeVars, stdin, stdout, handler, http, result, partVars>>
\* The 115 s waiter rejects: fail. Timers fire in deadline order, so one
\* that is due later waits for the one that is due now.
OutcomeExpires(i) ==
  /\ Alive /\ waiter[i].out = "waiting"
  /\ age >= OutcomeWait \/ result[i] # None
  /\ waiter[i].req = "waiting" => OutcomeWait <= RequestWait
  /\ waiter' = [waiter EXCEPT ![i].out = "expired"]
  /\ Settle(i, Failure(i))
  /\ UNCHANGED <<orchVars, bridgeVars, stdin, stdout, handler, http, partVars>>

\* mutant: the end of the body is handled more than once
HttpEndsAgain(i) ==
  /\ Alive /\ http[i] = "open" /\ Send(<<Stmt("receive", i, None, None)>>)
  /\ UNCHANGED <<orchVars, bridgeVars, stdin, stdout, handler, opVars, frames, nodes, fed>>
\* res 'end': the raw answer is recorded and goes into receive(), whether or
\* not the operation has settled meanwhile.
HttpEnds(i) ==
  /\ Alive /\ http[i] = "open"
  /\ http' = [http EXCEPT ![i] = "ended"]
  /\ Send(<<Stmt("receive", i, None, None)>>)
  /\ UNCHANGED <<orchVars, bridgeVars, stdin, stdout, handler, waiter, result,
                 frames, nodes, fed>>

\* mutant: a failed exchange settles like a build refusal
HttpFailsAsRefusal(i) ==
  /\ Alive /\ http[i] = "open"
  /\ http' = [http EXCEPT ![i] = "lost"]
  /\ Settle(i, [ok |-> TRUE, raw |-> None, outcome |-> "refused", of |-> i])
  /\ UNCHANGED <<orchVars, bridgeVars, stdin, stdout, handler, waiter, partVars>>
\* req 'error': fail. A body cut short raises no req error and never ends.
HttpFails(i) ==
  /\ Alive /\ http[i] = "open"
  /\ http' = [http EXCEPT ![i] = "lost"]
  /\ Settle(i, Failure(i)) \/ UNCHANGED result
  /\ UNCHANGED <<orchVars, bridgeVars, stdin, stdout, handler, waiter, partVars>>

\* The awaited promise settled: the loop replies and reads on.
ReplyClient ==
  /\ bridge = "client" /\ result[cur.id] # None
  /\ Answer(cur, result[cur.id].ok, result[cur.id])
  /\ bridge' = "idle" /\ cur' = None
  /\ UNCHANGED <<orchVars, imported, box, age, stdin, handler, opVars, partVars>>

\* Time passes for the running operation, never past a deadline that is due.
Tick ==
  /\ bridge = "client" /\ age < OutcomeWait /\ result[cur.id] = None
  /\ ~(age >= RequestWait /\ waiter[cur.id].req = "waiting")
  /\ age' = age + 1
  /\ UNCHANGED <<orchVars, bridge, cur, imported, box, stdin, stdout, handler,
                 opVars, partVars>>

(***************************************************************************)
(* The waits of gateInit, probe and the gate handler.                      *)
(***************************************************************************)
Awaited == IF bridge = "gateInit" THEN "PONG" ELSE "PROBE"

\* mutant: the loop replies and keeps waiting
CommandFrameStays ==
  /\ bridge \in {"gateInit", "probe"} /\ (Arrives("PONG") \/ Arrives("PROBE"))
  /\ Deliver /\ Answer(cur, TRUE, None)
  /\ UNCHANGED <<orchVars, bridgeVars, stdin, handler, opVars, toPart, nodes, fed>>
\* PONG or PROBE for the command in progress; a late one is dropped.
CommandFrame ==
  /\ Arrives("PONG") \/ Arrives("PROBE")
  /\ Deliver
  /\ IF /\ bridge \in {"gateInit", "probe"}
        /\ Head(frames).t = Awaited /\ Head(frames).id = cur.id
       THEN Answer(cur, TRUE, None) /\ bridge' = "idle" /\ cur' = None
       ELSE UNCHANGED <<stdout, bridge, cur>>
  /\ UNCHANGED <<orchVars, imported, box, age, stdin, handler, opVars, toPart,
                 nodes, fed>>

\* waitFrame rejects, by whatever deadline the participant's shim gives a wait
\* that comes without one: the loop's catch replies with the error.
CommandExpires ==
  /\ bridge \in {"gateInit", "probe"}
  /\ Answer(cur, FALSE, None) /\ bridge' = "idle" /\ cur' = None
  /\ UNCHANGED <<orchVars, imported, box, age, stdin, handler, opVars, partVars>>

\* FLW-HTTP-RESPONSE: the handler writes the response it was waiting for.
ResponseFrame ==
  /\ Arrives("RESPONSE") /\ Deliver
  /\ handler' = IF handler.st = "waiting" /\ handler.id = Head(frames).id
                  THEN [handler EXCEPT !.st = "answered", !.now = Head(frames).now]
                  ELSE handler
  /\ UNCHANGED <<orchVars, bridgeVars, stdin, stdout, opVars, toPart, nodes, fed>>

\* The handler's waitFrame rejects: res.destroy.
HandlerExpires ==
  /\ Alive /\ handler.st = "waiting"
  /\ handler' = [handler EXCEPT !.st = "destroyed"]
  /\ UNCHANGED <<orchVars, bridgeVars, stdin, stdout, opVars, partVars>>

(***************************************************************************)
(* The participant, as its statements and frames are used by the bridge:   *)
(* statements run in order; a statement that traps prints nothing.         *)
(***************************************************************************)
Runs(tag) == Alive /\ toPart # <<>> /\ Head(toPart).t = tag
Emit(f) == frames' = Append(frames, f)
Quiet == UNCHANGED <<orchVars, bridgeVars, stdin, stdout, handler, opVars>>

\* A client build refuses, or asks for the request to be carried.
RunBuild ==
  /\ Runs("build") /\ toPart' = Tail(toPart)
  /\ LET i == Head(toPart).id IN
       \/ Emit(Frm("OUTCOME", i, "refused", None))
       \/ Emit(Frm("REQUEST", i, None, None))
  /\ Quiet /\ UNCHANGED <<nodes, fed>>

\* receive() classifies the raw answer; it changes the relay's state.
RunReceive ==
  /\ Runs("receive") /\ toPart' = Tail(toPart)
  /\ fed' = Append(fed, Head(toPart).id)
  /\ Emit(Frm("OUTCOME", Head(toPart).id, "classified", None))
  /\ Quiet /\ UNCHANGED nodes

\* import, make, ping, probe and a raw statement. "imported" inside the
\* participant is a node None: a make before it does not compile.
RunDriver ==
  /\ \E t \in {"import", "make", "ping", "probe", "tamper"} : Runs(t)
  /\ toPart' = Tail(toPart)
  /\ LET s == Head(toPart) IN
       /\ nodes' = CASE s.t = "import" -> nodes \cup {None}
                     [] s.t = "make" /\ None \in nodes -> nodes \cup {s.gate}
                     [] OTHER -> nodes
       /\ CASE s.t = "ping" /\ None \in nodes -> Emit(Frm("PONG", s.id, None, None))
            [] s.t = "probe" -> Emit(Frm("PROBE", s.id, None, None))
            [] OTHER -> UNCHANGED frames
  /\ Quiet /\ UNCHANGED fed

\* GateNode.serve at the explicit clock; an unknown node traps.
RunServe ==
  /\ Runs("serve") /\ toPart' = Tail(toPart)
  /\ LET s == Head(toPart) IN
       IF s.gate \in nodes THEN Emit(Frm("RESPONSE", s.id, None, s.now))
                           ELSE UNCHANGED frames
  /\ Quiet /\ UNCHANGED <<nodes, fed>>

\* A statement traps: no frame.
RunTraps ==
  /\ Alive /\ toPart # <<>> /\ toPart' = Tail(toPart)
  /\ Quiet /\ UNCHANGED <<frames, nodes, fed>>

Finished == orch = "done" /\ UNCHANGED vars

Orchestrator ==
  \/ \E c \in Command : Ask(c)
  \/ \E g \in Gates : AskGate(g)
  \/ TakeReply \/ TakeEof \/ TakeResponse \/ HttpGivesUp \/ AskStop \/ TakeStop

BridgeStep ==
  \/ Boot \/ Client \/ GateInit \/ GateServe \/ GateClock \/ Probe
  \/ RawStatement \/ Serve \/ Stop
  \/ RequestFrame \/ OutcomeFrame \/ CommandFrame \/ ResponseFrame
  \/ ReplyClient \/ Tick \/ CommandExpires \/ HandlerExpires
  \/ \E i \in Step : \/ RequestExpires(i) \/ OutcomeExpires(i)

Peer == \E i \in Step : HttpEnds(i) \/ HttpFails(i)
Participant == RunBuild \/ RunReceive \/ RunDriver \/ RunServe \/ RunTraps

Next == Orchestrator \/ BridgeStep \/ Peer \/ Participant \/ Finished

Spec == Init /\ [][Next]_vars

\* What the loop and the timers of a client operation do of their own accord, and
\* what the orchestrator does once it can.  Participant and peer owe nothing, and
\* no wait ends that the bridge sets no deadline for: not the boot, not gateInit,
\* probe and serve, not a gate request.
LoopStep == Client \/ GateClock \/ RawStatement \/ ReplyClient \/ Stop
Deadlines == Tick \/ \E i \in Step : RequestExpires(i) \/ OutcomeExpires(i)
Fairness ==
  /\ WF_vars(LoopStep)
  /\ WF_vars(Deadlines)
  /\ WF_vars(TakeReply \/ TakeEof \/ TakeResponse \/ HttpGivesUp \/ TakeStop)
  /\ WF_vars(AskStop)
FairSpec == Spec /\ Fairness

(***************************************************************************)
(* Properties.                                                             *)
(***************************************************************************)
Waiter == {"off", "waiting", "got", "expired"}

Domains ==
  /\ orch \in {"ready", "awaiting", "http", "failed", "stopping", "done"}
  /\ issued \in 0 .. MaxSteps /\ made \subseteq Gates
  /\ clock \in [Gates -> Clocks \cup {None}] /\ box \in [Gates -> Clocks \cup {None}]
  /\ bridge \in {"booting", "idle", "client", "gateInit", "probe", "exited", "dead"}
  /\ stdin \in Seq(Command) /\ stdout \in Seq(Reply)
  /\ cur \in Command \cup {None} /\ imported \in BOOLEAN /\ age \in 0 .. OutcomeWait
  /\ handler \in [st : {"off", "waiting", "answered", "destroyed"},
                  gate : Gates \cup {None}, id : Step \cup {0},
                  now : Clocks \cup {None}]
  /\ waiter \in [Step -> [req : Waiter, out : Waiter]]
  /\ http \in [Step -> {"off", "open", "ended", "lost"}]
  /\ result \in [Step -> Settled \cup {None}]
  /\ toPart \in Seq(Statement) /\ frames \in Seq(Frame)
  /\ nodes \subseteq Gates \cup {None} /\ fed \in Seq(Step)

\* Every variable stays in its domain; the loop is on a command exactly while it
\* awaits one, and a client operation that has not settled is that command
\* (motoko_bridge.js: main, the awaits of its loop).
TypeOK ==
  /\ Domains
  /\ cur # None <=> bridge \in {"client", "gateInit", "probe"}
  /\ cur # None => cur.op = bridge
  /\ \A i \in Step : waiter[i].out # "off" /\ result[i] = None
                      => bridge = "client" /\ cur.id = i

Abandoned(i) == result[i] # None /\ ~result[i].ok

\* The claim at motoko_bridge.js:80-83: a successful result is a build refusal
\* with no raw answer, or the classification of the operation's own raw
\* answer, which went into receive() before the outcome arrived.
ResultIsCoherent ==
  \A i \in Step : result[i] # None /\ result[i].ok =>
    \/ result[i].outcome = "refused" /\ result[i].raw = None /\ http[i] = "off"
    \/ /\ result[i].outcome = "classified" /\ result[i].raw = i
       /\ \E k \in 1 .. Len(fed) : fed[k] = i

\* The participant classifies an answer at most once, however the deadlines,
\* the late answer and the outcome interleave.
FedAtMostOnce ==
  \A j, k \in 1 .. Len(fed) : fed[j] = fed[k] => j = k

\* An abandoned operation may still change the participant when its answer
\* comes late. No reply the orchestrator goes on to record was produced after
\* that: once an operation is abandoned only "stop" is ever acknowledged.
NoTaintedReply ==
  (\E i \in Step : Abandoned(i)) =>
    \A k \in 1 .. Len(stdout) : stdout[k].ok => stdout[k].cmd.op = "stop"

\* A gate response the orchestrator is about to read was computed under the
\* scenario clock whose change it last had acknowledged (gates G1, step 6a).
ServedUnderAckedClock ==
  orch = "http" /\ handler.st = "answered" => handler.now = clock[handler.gate]

\* No HTTP request leaves for a peer once its operation was replied to: the
\* request waiter never outlives the outcome waiter.
NoRequestAfterReply ==
  [][\A i \in Step : http[i] = "off" /\ http'[i] = "open"
       => bridge = "client" /\ cur.id = i /\ result[i] = None]_vars

\* The one reply line in flight belongs to the command that is waited for, so
\* a reply is never read as the answer to another command.
ReplyMatchesCommand ==
  /\ Len(stdin) + Len(stdout) + (IF cur = None THEN 0 ELSE 1) <= 1
  /\ orch \in {"ready", "http", "failed"} => stdin = <<>> /\ stdout = <<>> /\ cur = None
  /\ \A k \in 1 .. Len(stdout) :
       stdout[k].cmd.id = (IF orch = "stopping" THEN 0 ELSE issued)

\* The commands that the bridge answers by itself, and a bridge that is gone.
SelfPaced ==
  \/ bridge \in {"client", "exited", "dead"}
  \/ bridge = "idle" /\ stdin # <<>> /\ Head(stdin).op \in {"client", "gateClock", "statement"}

\* The blocking readline of a client operation ends, though the participant may
\* hang in it and the peer may never answer or cut its body; so does that of a
\* command without a wait, and one whose bridge has died on a port or at boot.
CommandIsAnswered ==
  orch = "awaiting" /\ SelfPaced ~> orch \in {"ready", "failed"}

\* The finally clause completes: a failed run ends with the bridge gone.
FailureEndsTheRun == orch = "failed" ~> orch = "done" /\ ~Alive
=============================================================================
