---------------------------- MODULE Bridge_proofs ----------------------------
(***************************************************************************)
(* For every set of gates and clocks, every number of commands and every   *)
(* pair of deadlines in the code's order: the bridge keeps one command in  *)
(* flight, an operation's answer goes at most once into the participant,   *)
(* its result is coherent, nothing is recorded after an abandoned          *)
(* operation, and a gate answers under the clock that was acknowledged.    *)
(***************************************************************************)
EXTENDS Bridge, SequenceTheorems, TLAPS

-----------------------------------------------------------------------------
(* What lies in a sequence.                                                *)

Elems(s) == {s[k] : k \in 1 .. Len(s)}

\* Something with one of the tags T and the number i lies in s; at most one does.
Carries(s, T, i) == \E x \in Elems(s) : x.t \in T /\ x.id = i
OnceIn(s, T, i) ==
  \A j, k \in 1 .. Len(s) :
    s[j].t \in T /\ s[j].id = i /\ s[k].t \in T /\ s[k].id = i => j = k

LEMMA ElemsEmpty == Elems(<<>>) = {}
BY DEF Elems

LEMMA ElemsAppend ==
  ASSUME NEW S, NEW s \in Seq(S), NEW e \in S
  PROVE  Elems(Append(s, e)) = Elems(s) \cup {e}
<1>1. /\ Len(Append(s, e)) = Len(s) + 1 /\ Len(s) \in Nat
      /\ \A k \in 1 .. Len(s) : Append(s, e)[k] = s[k]
      /\ Append(s, e)[Len(s) + 1] = e
  BY AppendProperties
<1>2. QED
  BY <1>1 DEF Elems

LEMMA ElemsConcat ==
  ASSUME NEW S, NEW s \in Seq(S), NEW r \in Seq(S)
  PROVE  Elems(s \o r) = Elems(s) \cup Elems(r)
<1>1. /\ Len(s \o r) = Len(s) + Len(r) /\ Len(s) \in Nat /\ Len(r) \in Nat
      /\ \A k \in 1 .. Len(s) + Len(r) :
           (s \o r)[k] = IF k <= Len(s) THEN s[k] ELSE r[k - Len(s)]
  BY ConcatProperties
<1>2. ASSUME NEW k \in 1 .. Len(r) PROVE r[k] \in Elems(s \o r)
  <2>1. Len(s) + k \in 1 .. Len(s) + Len(r) /\ (s \o r)[Len(s) + k] = r[k]
    BY <1>1
  <2>2. QED
    BY <1>1, <2>1 DEF Elems
<1>3. ASSUME NEW k \in 1 .. Len(s) PROVE s[k] \in Elems(s \o r)
  BY <1>1 DEF Elems
<1>4. ASSUME NEW k \in 1 .. Len(s \o r) PROVE (s \o r)[k] \in Elems(s) \cup Elems(r)
  BY <1>1 DEF Elems
<1>5. QED
  BY <1>2, <1>3, <1>4 DEF Elems

LEMMA ElemsTail ==
  ASSUME NEW S, NEW s \in Seq(S), s # <<>>
  PROVE  Elems(s) = {Head(s)} \cup Elems(Tail(s)) /\ Elems(Tail(s)) \subseteq S
<1>1. /\ Len(Tail(s)) = Len(s) - 1 /\ Len(s) \in Nat /\ Len(s) # 0
      /\ \A k \in 1 .. Len(Tail(s)) : Tail(s)[k] = s[k + 1]
      /\ Head(s) = s[1] /\ Tail(s) \in Seq(S)
  BY HeadTailProperties, EmptySeq
<1>2. ASSUME NEW k \in 1 .. Len(s), k # 1 PROVE s[k] \in Elems(Tail(s))
  <2>1. k - 1 \in 1 .. Len(Tail(s)) /\ Tail(s)[k - 1] = s[k]
    BY <1>1, <1>2
  <2>2. QED
    BY <2>1 DEF Elems
<1>3. QED
  BY <1>1, <1>2 DEF Elems

\* Appending and removing keep "at most one".
LEMMA OnceAppend ==
  ASSUME NEW S, NEW s \in Seq(S), NEW e \in S, NEW T, NEW i,
         OnceIn(s, T, i), e.t \in T /\ e.id = i => ~Carries(s, T, i)
  PROVE  OnceIn(Append(s, e), T, i)
<1>1. /\ Len(Append(s, e)) = Len(s) + 1 /\ Len(s) \in Nat
      /\ \A k \in 1 .. Len(s) : Append(s, e)[k] = s[k]
      /\ Append(s, e)[Len(s) + 1] = e
  BY AppendProperties
<1>2. QED
  BY <1>1 DEF OnceIn, Carries, Elems

LEMMA OnceTail ==
  ASSUME NEW S, NEW s \in Seq(S), s # <<>>, NEW T, NEW i, OnceIn(s, T, i)
  PROVE  /\ OnceIn(Tail(s), T, i)
         /\ Head(s).t \in T /\ Head(s).id = i => ~Carries(Tail(s), T, i)
<1>1. /\ Len(Tail(s)) = Len(s) - 1 /\ Len(s) \in Nat /\ Len(s) # 0
      /\ \A k \in 1 .. Len(Tail(s)) : Tail(s)[k] = s[k + 1]
      /\ Head(s) = s[1]
  BY HeadTailProperties, EmptySeq
<1>2. \A k \in 1 .. Len(Tail(s)) : k + 1 \in 1 .. Len(s) /\ k + 1 # 1
  BY <1>1
<1>3. OnceIn(Tail(s), T, i)
  BY <1>1, <1>2 DEF OnceIn
<1>4. Head(s).t \in T /\ Head(s).id = i => ~Carries(Tail(s), T, i)
  BY <1>1, <1>2 DEF OnceIn, Carries, Elems
<1>5. QED
  BY <1>3, <1>4

LEMMA OnceConcat ==
  ASSUME NEW S, NEW s \in Seq(S), NEW r \in Seq(S), NEW T, NEW i,
         OnceIn(s, T, i), ~Carries(r, T, i)
  PROVE  OnceIn(s \o r, T, i)
<1>1. /\ Len(s \o r) = Len(s) + Len(r) /\ Len(s) \in Nat /\ Len(r) \in Nat
      /\ \A k \in 1 .. Len(s) + Len(r) :
           (s \o r)[k] = IF k <= Len(s) THEN s[k] ELSE r[k - Len(s)]
  BY ConcatProperties
<1>2. \A k \in 1 .. Len(s \o r) : (s \o r)[k].t \in T /\ (s \o r)[k].id = i
                                    => k <= Len(s) /\ (s \o r)[k] = s[k]
  BY <1>1 DEF Carries, Elems
<1>3. QED
  BY <1>1, <1>2 DEF OnceIn

-----------------------------------------------------------------------------
(* The inductive invariant.                                                *)

Busy == {"client", "gateInit", "probe"}
\* The id that the line in flight has.
Due == IF orch = "stopping" THEN 0 ELSE issued

\* One command is in flight: in the bridge's stdin, or executing, or answered.
Pipes ==
  /\ stdin # <<>> => Len(stdin) = 1 /\ stdout = <<>> /\ cur = None /\ Alive
  /\ stdout # <<>> => Len(stdout) = 1 /\ cur = None
  /\ stdin # <<>> \/ stdout # <<>> => orch \in {"awaiting", "stopping"}
  /\ cur # None => /\ orch = "awaiting" /\ cur.id = issued /\ cur.op = bridge
                   /\ stdin = <<>> /\ stdout = <<>>
  /\ cur # None <=> bridge \in Busy
  /\ stdin # <<>> => /\ Head(stdin).id = Due
                     /\ Head(stdin).op = "stop" <=> orch = "stopping"
  /\ stdout # <<>> => /\ Head(stdout).cmd.id = Due
                      /\ orch = "stopping" => Head(stdout).cmd.op = "stop"
  /\ orch = "awaiting" => issued \in Step
  /\ orch = "done" => ~Alive

-----------------------------------------------------------------------------
(* Types.                                                                  *)

LEMMA CommandFields ==
  ASSUME NEW c \in Command
  PROVE  /\ c # None /\ c.id \in Step \cup {0}
         /\ c.op \in {"client", "probe", "statement", "serve", "stop", "gateInit",
                      "gateServe", "gateClock"}
         /\ c.op \in {"gateInit", "gateServe", "gateClock"} => c.gate \in Gates
         /\ c.op \in {"gateServe", "gateClock"} => c.now \in Clocks
BY NoneAssumption DEF Command

\* A command that is read is the one that was asked for.
LEMMA ReadCommand ==
  ASSUME Domains, Pipes, NEW kind, Reads(kind)
  PROVE  /\ stdin # <<>> /\ Head(stdin) \in Command /\ Head(stdin).op = kind
         /\ Tail(stdin) = <<>> /\ stdout = <<>> /\ cur = None /\ Alive /\ bridge = "idle"
         /\ kind # "stop" => /\ orch = "awaiting" /\ issued \in Step
                              /\ Head(stdin).id = issued /\ Head(stdin).id \in Step
         /\ kind = "stop" => orch = "stopping" /\ Head(stdin).id = 0
<1>1. stdin \in Seq(Command) /\ stdin # <<>> /\ Head(stdin).op = kind /\ bridge = "idle"
  BY DEF Domains, Reads
<1>2. Head(stdin) \in Command
  BY <1>1
<1>3. Tail(stdin) = <<>>
  <2>1. Len(stdin) = 1
    BY <1>1 DEF Pipes
  <2>2. Tail(stdin) \in Seq(Command) /\ Len(Tail(stdin)) = 0
    BY <1>1, <2>1
  <2>3. QED
    BY <2>2, EmptySeq
<1>4. QED
  BY <1>1, <1>2, <1>3 DEF Pipes, Due

\* An answer is the only line in the pipe.
LEMMA OneAnswer ==
  ASSUME Domains, NEW c \in Command, NEW good \in BOOLEAN, NEW v \in Settled \cup {None},
         stdout = <<>>, Answer(c, good, v)
  PROVE  /\ stdout' \in Seq(Reply) /\ stdout' # <<>> /\ Len(stdout') = 1
         /\ Head(stdout') = ReplyTo(c, good, v) /\ Tail(stdout') = <<>>
<1>1. ReplyTo(c, good, v) \in Reply
  BY DEF ReplyTo, Reply
<1>2. stdout' = <<ReplyTo(c, good, v)>>
  BY DEF Answer
<1>3. QED
  BY <1>1, <1>2

\* The statements sent are statements.
LEMMA StmtType ==
  ASSUME NEW t \in {"build", "receive", "import", "make", "ping", "probe", "serve", "tamper"},
         NEW i \in Step, NEW g \in Gates \cup {None}, NEW n \in Clocks \cup {None}
  PROVE  Stmt(t, i, g, n) \in Statement
BY DEF Stmt, Statement

LEMMA FrmType ==
  ASSUME NEW i \in Step
  PROVE  /\ \A o \in Outcome : Frm("OUTCOME", i, o, None) \in Frame
         /\ \A t \in FrameTag \ {"OUTCOME"}, n \in Clocks \cup {None} :
              Frm(t, i, None, n) \in Frame
BY DEF Frm, Frame

LEMMA FrameFields ==
  ASSUME NEW f \in Frame
  PROVE  /\ f.id \in Step /\ f.now \in Clocks \cup {None} /\ f.t \in FrameTag
         /\ f.t = "OUTCOME" => f.outcome \in Outcome
BY DEF Frame, FrameTag

LEMMA SendOne ==
  ASSUME Domains, NEW s \in Statement, Send(<<s>>)
  PROVE  toPart' \in Seq(Statement) /\ toPart' = Append(toPart, s)
<1>1. toPart \in Seq(Statement)
  BY DEF Domains
<1>2. toPart' = Append(toPart, s)
  BY <1>1 DEF Send
<1>3. QED
  BY <1>1, <1>2, AppendProperties

LEMMA EmitOne ==
  ASSUME Domains, NEW f \in Frame, Emit(f)
  PROVE  frames' \in Seq(Frame)
BY AppendProperties DEF Domains, Emit

LEMMA WaiterSet ==
  ASSUME Domains, NEW i \in Step, NEW v \in Waiter
  PROVE  /\ [waiter EXCEPT ![i].req = v] \in [Step -> [req : Waiter, out : Waiter]]
         /\ [waiter EXCEPT ![i].out = v] \in [Step -> [req : Waiter, out : Waiter]]
BY DEF Domains

LEMMA InitType == Init => Domains
<1> SUFFICES ASSUME Init PROVE Domains
  OBVIOUS
<1>1. /\ stdin \in Seq(Command) /\ stdout \in Seq(Reply)
      /\ toPart \in Seq(Statement) /\ frames \in Seq(Frame) /\ fed \in Seq(Step)
  BY EmptySeq DEF Init
<1>2. issued \in 0 .. MaxSteps /\ age \in 0 .. OutcomeWait
  BY BridgeAssumption DEF Init
<1>3. handler \in [st : {"off", "waiting", "answered", "destroyed"},
                   gate : Gates \cup {None}, id : Step \cup {0}, now : Clocks \cup {None}]
  BY DEF Init, NoHandler
<1>4. waiter \in [Step -> [req : Waiter, out : Waiter]]
  BY DEF Init, Waiter
<1>5. QED
  BY <1>1, <1>2, <1>3, <1>4, Zenon DEF Init, Domains

LEMMA InitPipes == Init => Pipes
BY DEF Init, Pipes, Busy, Alive

\* The type invariant, by the parties the variables belong to.
OrchTypes ==
  /\ orch \in {"ready", "awaiting", "http", "failed", "stopping", "done"}
  /\ issued \in 0 .. MaxSteps /\ made \subseteq Gates
  /\ clock \in [Gates -> Clocks \cup {None}]
BridgeTypes ==
  /\ bridge \in {"booting", "idle", "client", "gateInit", "probe", "exited", "dead"}
  /\ cur \in Command \cup {None} /\ imported \in BOOLEAN /\ age \in 0 .. OutcomeWait
  /\ box \in [Gates -> Clocks \cup {None}]
LineTypes == stdin \in Seq(Command) /\ stdout \in Seq(Reply)
HandlerTypes ==
  handler \in [st : {"off", "waiting", "answered", "destroyed"},
               gate : Gates \cup {None}, id : Step \cup {0}, now : Clocks \cup {None}]
OpTypes ==
  /\ waiter \in [Step -> [req : Waiter, out : Waiter]]
  /\ http \in [Step -> {"off", "open", "ended", "lost"}]
  /\ result \in [Step -> Settled \cup {None}]
PartTypes ==
  /\ toPart \in Seq(Statement) /\ frames \in Seq(Frame)
  /\ nodes \subseteq Gates \cup {None} /\ fed \in Seq(Step)

LEMMA TypeParts ==
  /\ Domains <=> /\ OrchTypes /\ BridgeTypes /\ LineTypes /\ HandlerTypes
                /\ OpTypes /\ PartTypes
  /\ Domains' <=> /\ OrchTypes' /\ BridgeTypes' /\ LineTypes' /\ HandlerTypes'
                 /\ OpTypes' /\ PartTypes'
BY DEF Domains, OrchTypes, BridgeTypes, LineTypes, HandlerTypes, OpTypes, PartTypes

\* What a step leaves alone keeps its type.
LEMMA TypeUnchanged ==
  ASSUME Domains
  PROVE  /\ UNCHANGED orchVars => OrchTypes'
         /\ UNCHANGED bridgeVars => BridgeTypes'
         /\ UNCHANGED <<stdin, stdout>> => LineTypes'
         /\ UNCHANGED handler => HandlerTypes'
         /\ UNCHANGED opVars => OpTypes'
         /\ UNCHANGED partVars => PartTypes'
<1> USE TypeParts DEF orchVars, bridgeVars, opVars, partVars
<1>1. UNCHANGED orchVars => OrchTypes'
  BY DEF OrchTypes
<1>2. UNCHANGED bridgeVars => BridgeTypes'
  BY DEF BridgeTypes
<1>3. UNCHANGED <<stdin, stdout>> => LineTypes'
  BY DEF LineTypes
<1>4. UNCHANGED handler => HandlerTypes'
  BY DEF HandlerTypes
<1>5. UNCHANGED opVars => OpTypes'
  BY DEF OpTypes
<1>6. UNCHANGED partVars => PartTypes'
  BY DEF PartTypes
<1>7. QED
  BY <1>1, <1>2, <1>3, <1>4, <1>5, <1>6

\* Every step keeps the types: per action, the parts that it touches.
LEMMA StepType == Domains /\ Pipes /\ [Next]_vars => Domains'
<1> SUFFICES ASSUME Domains, Pipes, [Next]_vars PROVE Domains'
  OBVIOUS
<1>0. OrchTypes /\ BridgeTypes /\ LineTypes /\ HandlerTypes /\ OpTypes /\ PartTypes
  BY TypeParts
<1>1. ASSUME NEW c \in Command, Ask(c) PROVE Domains'
  <2>1. Append(stdin, c) \in Seq(Command)
    BY <1>0, AppendProperties DEF LineTypes
  <2>2. LineTypes'
    BY <1>1, <1>0, <2>1 DEF Ask, LineTypes
  <2>3. OrchTypes'
    BY <1>1, <1>0, BridgeAssumption DEF Ask, OrchTypes
  <2>4. QED
    BY <1>1, <2>2, <2>3, TypeUnchanged, TypeParts DEF Ask
<1>2. ASSUME NEW g \in Gates, AskGate(g) PROVE Domains'
  <2>1. issued + 1 \in Step /\ box[g] \in Clocks \cup {None}
    BY <1>2, <1>0, BridgeAssumption DEF AskGate, OrchTypes, BridgeTypes, Step
  <2>2. Stmt("serve", issued + 1, g, box[g]) \in Statement
    BY <2>1, StmtType
  <2>3. OrchTypes' /\ HandlerTypes'
    BY <1>2, <1>0, <2>1 DEF AskGate, OrchTypes, HandlerTypes, Step
  <2>4. toPart' \in Seq(Statement)
    BY <1>2, <1>0, <2>2, SendOne DEF AskGate, PartTypes
  <2>5. PartTypes'
    BY <1>2, <1>0, <2>4 DEF AskGate, PartTypes
  <2>6. QED
    BY <1>2, <2>3, <2>5, TypeUnchanged, TypeParts DEF AskGate
<1>3. CASE TakeReply
  <2>1. Head(stdout) \in Reply /\ Tail(stdout) \in Seq(Reply)
    BY <1>3, <1>0 DEF TakeReply, LineTypes
  <2>2. Head(stdout).cmd \in Command
    BY <2>1 DEF Reply
  <2>3. OrchTypes'
    BY <1>3, <1>0, <2>2, CommandFields DEF TakeReply, OrchTypes
  <2>4. LineTypes'
    BY <1>3, <1>0, <2>1 DEF TakeReply, LineTypes
  <2>5. QED
    BY <1>3, <2>3, <2>4, TypeUnchanged, TypeParts DEF TakeReply
<1>4. CASE TakeEof
  <2>1. OrchTypes'
    BY <1>4, <1>0 DEF TakeEof, OrchTypes
  <2>2. QED
    BY <1>4, <2>1, TypeUnchanged, TypeParts DEF TakeEof
<1>5. CASE TakeResponse
  <2>1. OrchTypes' /\ HandlerTypes'
    BY <1>5, <1>0 DEF TakeResponse, OrchTypes, HandlerTypes, NoHandler
  <2>2. QED
    BY <1>5, <2>1, TypeUnchanged, TypeParts DEF TakeResponse
<1>6. CASE HttpGivesUp
  <2>1. OrchTypes'
    BY <1>6, <1>0 DEF HttpGivesUp, OrchTypes
  <2>2. QED
    BY <1>6, <2>1, TypeUnchanged, TypeParts DEF HttpGivesUp
<1>7. CASE AskStop
  <2>1. [op |-> "stop", id |-> 0, gate |-> None, now |-> None] \in Command
    BY Zenon DEF Command
  <2>2. \A c \in Command : Append(stdin, c) \in Seq(Command)
    BY <1>0, AppendProperties DEF LineTypes
  <2>3. LineTypes'
    BY <1>7, <1>0, <2>1, <2>2 DEF AskStop, LineTypes
  <2>4. OrchTypes'
    BY <1>7, <1>0 DEF AskStop, OrchTypes
  <2>5. QED
    BY <1>7, <2>3, <2>4, TypeUnchanged, TypeParts DEF AskStop
<1>8. CASE TakeStop
  <2>1. OrchTypes' /\ LineTypes' /\ BridgeTypes'
    BY <1>8, <1>0 DEF TakeStop, OrchTypes, LineTypes, BridgeTypes
  <2>2. QED
    BY <1>8, <2>1, TypeUnchanged, TypeParts DEF TakeStop, bridgeVars
<1>9. CASE Boot
  <2>1. BridgeTypes' /\ LineTypes'
    BY <1>9, <1>0, EmptySeq DEF Boot, BridgeTypes, LineTypes
  <2>2. QED
    BY <1>9, <2>1, TypeUnchanged, TypeParts DEF Boot
<1>10. CASE Client
  <2>1. Reads("client")
    BY <1>10, <1>0 DEF Client
  <2>2. Head(stdin) \in Command /\ Head(stdin).id \in Step /\ Head(stdin).op = "client"
    BY <2>1, ReadCommand
  <2>3. Tail(stdin) \in Seq(Command) /\ stdout = <<>>
    BY <2>1, ReadCommand, EmptySeq
  <2>4. Stmt("build", Head(stdin).id, None, None) \in Statement
    BY <2>2, StmtType
  <2>5. toPart' \in Seq(Statement)
    BY <1>10, <1>0, <2>4, SendOne DEF Client, PartTypes
  <2>6. PartTypes'
    BY <1>10, <1>0, <2>5 DEF Client, PartTypes
  <2>7. BridgeTypes' /\ LineTypes'
    BY <1>10, <1>0, <2>2, <2>3, BridgeAssumption DEF Client, Consume, BridgeTypes, LineTypes
  <2>8. OpTypes'
    BY <1>10, <1>0, <2>2 DEF Client, OpTypes, Waiter
  <2>9. QED
    BY <1>10, <2>6, <2>7, <2>8, TypeUnchanged, TypeParts DEF Client
<1>11. CASE GateInit
  <2>1. Reads("gateInit")
    BY <1>11, <1>0 DEF GateInit
  <2>2. Head(stdin) \in Command /\ Head(stdin).id \in Step /\ Head(stdin).op = "gateInit"
    BY <2>1, ReadCommand
  <2>3. Tail(stdin) \in Seq(Command) /\ stdout = <<>>
    BY <2>1, ReadCommand, EmptySeq
  <2>4. Head(stdin).gate \in Gates
    BY <2>2, CommandFields
  <2>5. /\ Stmt("import", Head(stdin).id, None, None) \in Statement
        /\ Stmt("make", Head(stdin).id, Head(stdin).gate, None) \in Statement
        /\ Stmt("ping", Head(stdin).id, None, None) \in Statement
    BY <2>2, <2>4, StmtType
  <2>6. /\ <<>> \in Seq(Statement)
        /\ <<Stmt("import", Head(stdin).id, None, None)>> \in Seq(Statement)
        /\ <<Stmt("make", Head(stdin).id, Head(stdin).gate, None),
             Stmt("ping", Head(stdin).id, None, None)>> \in Seq(Statement)
    BY <2>5, EmptySeq
  <2>7. toPart' \in Seq(Statement)
    BY <1>11, <1>0, <2>6, ConcatProperties DEF GateInit, Send, PartTypes
  <2>8. PartTypes'
    BY <1>11, <1>0, <2>7 DEF GateInit, PartTypes
  <2>9. BridgeTypes' /\ LineTypes'
    BY <1>11, <1>0, <2>2, <2>3 DEF GateInit, Consume, BridgeTypes, LineTypes
  <2>10. QED
    BY <1>11, <2>8, <2>9, TypeUnchanged, TypeParts DEF GateInit
<1>12. CASE GateServe
  <2>1. Reads("gateServe")
    BY <1>12, <1>0 DEF GateServe
  <2>2. Head(stdin) \in Command /\ Head(stdin).id \in Step /\ Head(stdin).op = "gateServe"
    BY <2>1, ReadCommand
  <2>3. Tail(stdin) \in Seq(Command) /\ stdout = <<>>
    BY <2>1, ReadCommand, EmptySeq
  <2>4. Head(stdin).gate \in Gates /\ Head(stdin).now \in Clocks
    BY <2>2, CommandFields
  <2>5. LineTypes'
    BY <1>12, <1>0, <2>2, <2>3, OneAnswer DEF GateServe, Consume, LineTypes
  <2>6. BridgeTypes'
    BY <1>12, <1>0, <2>4 DEF GateServe, BridgeTypes
  <2>7. QED
    BY <1>12, <2>5, <2>6, TypeUnchanged, TypeParts DEF GateServe
<1>13. CASE GateClock
  <2>1. Reads("gateClock")
    BY <1>13, <1>0 DEF GateClock
  <2>2. Head(stdin) \in Command /\ Head(stdin).id \in Step /\ Head(stdin).op = "gateClock"
    BY <2>1, ReadCommand
  <2>3. Tail(stdin) \in Seq(Command) /\ stdout = <<>>
    BY <2>1, ReadCommand, EmptySeq
  <2>4. Head(stdin).gate \in Gates /\ Head(stdin).now \in Clocks
    BY <2>2, CommandFields
  <2>5. LineTypes'
    BY <1>13, <1>0, <2>2, <2>3, OneAnswer DEF GateClock, Consume, LineTypes
  <2>6. BridgeTypes'
    BY <1>13, <1>0, <2>4 DEF GateClock, BridgeTypes
  <2>7. QED
    BY <1>13, <2>5, <2>6, TypeUnchanged, TypeParts DEF GateClock
<1>14. CASE Probe
  <2>1. Reads("probe")
    BY <1>14, <1>0 DEF Probe
  <2>2. Head(stdin) \in Command /\ Head(stdin).id \in Step /\ Head(stdin).op = "probe"
    BY <2>1, ReadCommand
  <2>3. Tail(stdin) \in Seq(Command) /\ stdout = <<>>
    BY <2>1, ReadCommand, EmptySeq
  <2>4. Stmt("probe", Head(stdin).id, None, None) \in Statement
    BY <2>2, StmtType
  <2>5. toPart' \in Seq(Statement)
    BY <1>14, <1>0, <2>4, SendOne DEF Probe, PartTypes
  <2>6. PartTypes'
    BY <1>14, <1>0, <2>5 DEF Probe, PartTypes
  <2>7. BridgeTypes' /\ LineTypes'
    BY <1>14, <1>0, <2>2, <2>3 DEF Probe, Consume, BridgeTypes, LineTypes
  <2>8. QED
    BY <1>14, <2>6, <2>7, TypeUnchanged, TypeParts DEF Probe
<1>15. CASE RawStatement
  <2>1. Reads("statement")
    BY <1>15, <1>0 DEF RawStatement
  <2>2. Head(stdin) \in Command /\ Head(stdin).id \in Step /\ Head(stdin).op = "statement"
    BY <2>1, ReadCommand
  <2>3. Tail(stdin) \in Seq(Command) /\ stdout = <<>>
    BY <2>1, ReadCommand, EmptySeq
  <2>4. Stmt("tamper", Head(stdin).id, None, None) \in Statement
    BY <2>2, StmtType
  <2>5. toPart' \in Seq(Statement)
    BY <1>15, <1>0, <2>4, SendOne DEF RawStatement, PartTypes
  <2>6. PartTypes'
    BY <1>15, <1>0, <2>5 DEF RawStatement, PartTypes
  <2>7. LineTypes'
    BY <1>15, <1>0, <2>2, <2>3, OneAnswer DEF RawStatement, Consume, LineTypes
  <2>8. QED
    BY <1>15, <2>6, <2>7, TypeUnchanged, TypeParts DEF RawStatement
<1>16. CASE Serve
  <2>1. Reads("serve")
    BY <1>16, <1>0 DEF Serve
  <2>2. Head(stdin) \in Command /\ Head(stdin).id \in Step /\ Head(stdin).op = "serve"
    BY <2>1, ReadCommand
  <2>3. Tail(stdin) \in Seq(Command) /\ stdout = <<>>
    BY <2>1, ReadCommand, EmptySeq
  <2>4. LineTypes'
    BY <1>16, <1>0, <2>2, <2>3, OneAnswer DEF Serve, Consume, LineTypes
  <2>5. BridgeTypes'
    BY <1>16, <1>0 DEF Serve, BridgeTypes
  <2>6. QED
    BY <1>16, <2>4, <2>5, TypeUnchanged, TypeParts DEF Serve
<1>17. CASE Stop
  <2>1. Reads("stop")
    BY <1>17, <1>0 DEF Stop
  <2>2. Head(stdin) \in Command /\ Tail(stdin) \in Seq(Command) /\ stdout = <<>>
    BY <2>1, ReadCommand, EmptySeq
  <2>3. LineTypes'
    BY <1>17, <1>0, <2>2, OneAnswer DEF Stop, Consume, LineTypes
  <2>4. BridgeTypes' /\ HandlerTypes'
    BY <1>17, <1>0 DEF Stop, BridgeTypes, HandlerTypes
  <2>5. PartTypes'
    BY <1>17, <1>0, EmptySeq DEF Stop, PartTypes
  <2>6. QED
    BY <1>17, <2>3, <2>4, <2>5, TypeUnchanged, TypeParts DEF Stop
<1>18. CASE RequestFrame
  <2>1. Head(frames) \in Frame /\ Tail(frames) \in Seq(Frame)
    BY <1>18, <1>0 DEF RequestFrame, Arrives, PartTypes
  <2>2. PartTypes'
    BY <1>18, <1>0, <2>1 DEF RequestFrame, Deliver, PartTypes
  <2>3. /\ Head(frames).id \in Step /\ Head(frames).now \in Clocks \cup {None}
        /\ Head(frames).t = "OUTCOME" => Head(frames).outcome \in Outcome
    BY <2>1, FrameFields
  <2>4. [waiter EXCEPT ![Head(frames).id].req = "got"] \in [Step -> [req : Waiter, out : Waiter]]
    BY <2>3, WaiterSet DEF Waiter
  <2>5. OpTypes'
    BY <1>18, <1>0, <2>4 DEF RequestFrame, OpTypes
  <2>6. QED
    BY <1>18, <2>2, <2>5, TypeUnchanged, TypeParts DEF RequestFrame
<1>19. CASE OutcomeFrame
  <2>1. Head(frames) \in Frame /\ Tail(frames) \in Seq(Frame)
    BY <1>19, <1>0 DEF OutcomeFrame, Arrives, PartTypes
  <2>2. PartTypes'
    BY <1>19, <1>0, <2>1 DEF OutcomeFrame, Deliver, PartTypes
  <2>3. /\ Head(frames).id \in Step /\ Head(frames).now \in Clocks \cup {None}
        /\ Head(frames).t = "OUTCOME" => Head(frames).outcome \in Outcome
    BY <2>1, FrameFields
  <2>4. [waiter EXCEPT ![Head(frames).id].out = "got"] \in [Step -> [req : Waiter, out : Waiter]]
    BY <2>3, WaiterSet DEF Waiter
  <2>5. [ok |-> TRUE, of |-> Head(frames).id, outcome |-> Head(frames).outcome,
         raw |-> IF http[Head(frames).id] = "ended" THEN Head(frames).id ELSE None] \in Settled
    BY <1>19, <1>0, <2>3 DEF OutcomeFrame, Arrives, Settled
  <2>6. result' \in [Step -> Settled \cup {None}]
    BY <1>19, <1>0, <2>3, <2>5 DEF OutcomeFrame, OpTypes, Settle
  <2>7. OpTypes'
    BY <1>19, <1>0, <2>4, <2>6 DEF OutcomeFrame, OpTypes
  <2>8. QED
    BY <1>19, <2>2, <2>7, TypeUnchanged, TypeParts DEF OutcomeFrame
<1>20. CASE CommandFrame
  <2>1. Head(frames) \in Frame /\ Tail(frames) \in Seq(Frame)
    BY <1>20, <1>0 DEF CommandFrame, Arrives, PartTypes
  <2>2. PartTypes'
    BY <1>20, <1>0, <2>1 DEF CommandFrame, Deliver, PartTypes
  <2>3. bridge \in {"gateInit", "probe"} => cur \in Command /\ stdout = <<>>
    BY <1>0 DEF Pipes, Busy, BridgeTypes
  <2>4. LineTypes'
    BY <1>20, <1>0, <2>3, OneAnswer DEF CommandFrame, LineTypes
  <2>5. BridgeTypes'
    BY <1>20, <1>0 DEF CommandFrame, BridgeTypes
  <2>6. QED
    BY <1>20, <2>2, <2>4, <2>5, TypeUnchanged, TypeParts DEF CommandFrame
<1>21. CASE ResponseFrame
  <2>1. Head(frames) \in Frame /\ Tail(frames) \in Seq(Frame)
    BY <1>21, <1>0 DEF ResponseFrame, Arrives, PartTypes
  <2>2. PartTypes'
    BY <1>21, <1>0, <2>1 DEF ResponseFrame, Deliver, PartTypes
  <2>3. /\ Head(frames).id \in Step /\ Head(frames).now \in Clocks \cup {None}
        /\ Head(frames).t = "OUTCOME" => Head(frames).outcome \in Outcome
    BY <2>1, FrameFields
  <2>4. HandlerTypes'
    BY <1>21, <1>0, <2>3 DEF ResponseFrame, HandlerTypes
  <2>5. QED
    BY <1>21, <2>2, <2>4, TypeUnchanged, TypeParts DEF ResponseFrame
<1>22. CASE ReplyClient
  <2>1. cur \in Command /\ cur.id \in Step /\ stdout = <<>>
    BY <1>22, <1>0 DEF ReplyClient, Pipes, Busy, BridgeTypes
  <2>2. result[cur.id] \in Settled /\ result[cur.id].ok \in BOOLEAN
    BY <1>22, <1>0, <2>1 DEF ReplyClient, OpTypes, Settled
  <2>3. LineTypes'
    BY <1>22, <1>0, <2>1, <2>2, OneAnswer DEF ReplyClient, LineTypes
  <2>4. BridgeTypes'
    BY <1>22, <1>0 DEF ReplyClient, BridgeTypes
  <2>5. QED
    BY <1>22, <2>3, <2>4, TypeUnchanged, TypeParts DEF ReplyClient
<1>23. CASE Tick
  <2>1. BridgeTypes'
    BY <1>23, <1>0, BridgeAssumption DEF Tick, BridgeTypes
  <2>2. QED
    BY <1>23, <2>1, TypeUnchanged, TypeParts DEF Tick
<1>24. CASE CommandExpires
  <2>1. cur \in Command /\ stdout = <<>>
    BY <1>24, <1>0 DEF CommandExpires, Pipes, Busy, BridgeTypes
  <2>2. LineTypes'
    BY <1>24, <1>0, <2>1, OneAnswer DEF CommandExpires, LineTypes
  <2>3. BridgeTypes'
    BY <1>24, <1>0 DEF CommandExpires, BridgeTypes
  <2>4. QED
    BY <1>24, <2>2, <2>3, TypeUnchanged, TypeParts DEF CommandExpires
<1>25. CASE HandlerExpires
  <2>1. HandlerTypes'
    BY <1>25, <1>0 DEF HandlerExpires, HandlerTypes
  <2>2. QED
    BY <1>25, <2>1, TypeUnchanged, TypeParts DEF HandlerExpires
<1>26. ASSUME NEW i \in Step, RequestExpires(i) PROVE Domains'
  <2>1. [waiter EXCEPT ![i].req = "expired"] \in [Step -> [req : Waiter, out : Waiter]]
    BY WaiterSet DEF Waiter
  <2>2. OpTypes'
    BY <1>26, <1>0, <2>1 DEF RequestExpires, OpTypes
  <2>3. QED
    BY <1>26, <2>2, TypeUnchanged, TypeParts DEF RequestExpires
<1>27. ASSUME NEW i \in Step, OutcomeExpires(i) PROVE Domains'
  <2>1. [waiter EXCEPT ![i].out = "expired"] \in [Step -> [req : Waiter, out : Waiter]]
    BY WaiterSet DEF Waiter
  <2>2. Failure(i) \in Settled
    BY DEF Failure, Settled
  <2>3. result' \in [Step -> Settled \cup {None}]
    BY <1>27, <1>0, <2>2 DEF OutcomeExpires, OpTypes, Settle
  <2>4. OpTypes'
    BY <1>27, <1>0, <2>1, <2>3 DEF OutcomeExpires, OpTypes
  <2>5. QED
    BY <1>27, <2>4, TypeUnchanged, TypeParts DEF OutcomeExpires
<1>28. ASSUME NEW i \in Step, HttpEnds(i) PROVE Domains'
  <2>1. Stmt("receive", i, None, None) \in Statement
    BY StmtType
  <2>2. toPart' \in Seq(Statement)
    BY <1>28, <1>0, <2>1, SendOne DEF HttpEnds, PartTypes
  <2>3. PartTypes'
    BY <1>28, <1>0, <2>2 DEF HttpEnds, PartTypes
  <2>4. OpTypes'
    BY <1>28, <1>0 DEF HttpEnds, OpTypes
  <2>5. QED
    BY <1>28, <2>3, <2>4, TypeUnchanged, TypeParts DEF HttpEnds
<1>29. ASSUME NEW i \in Step, HttpFails(i) PROVE Domains'
  <2>1. Failure(i) \in Settled
    BY DEF Failure, Settled
  <2>2. OpTypes'
    BY <1>29, <1>0, <2>1 DEF HttpFails, OpTypes, Settle
  <2>3. QED
    BY <1>29, <2>2, TypeUnchanged, TypeParts DEF HttpFails
<1>30. CASE RunBuild
  <2>1. Head(toPart) \in Statement /\ Tail(toPart) \in Seq(Statement)
    BY <1>30, <1>0 DEF RunBuild, Runs, PartTypes
  <2>2. /\ Head(toPart).id \in Step /\ Head(toPart).gate \in Gates \cup {None}
        /\ Head(toPart).now \in Clocks \cup {None}
    BY <2>1 DEF Statement
  <2>3. /\ Frm("OUTCOME", Head(toPart).id, "refused", None) \in Frame
        /\ Frm("REQUEST", Head(toPart).id, None, None) \in Frame
    BY <2>2, FrmType DEF FrameTag, Outcome
  <2>4. frames' \in Seq(Frame)
    BY <1>30, <1>0, <2>3, EmitOne DEF RunBuild
  <2>5. PartTypes'
    BY <1>30, <1>0, <2>1, <2>4 DEF RunBuild, PartTypes
  <2>6. QED
    BY <1>30, <2>5, TypeUnchanged, TypeParts DEF RunBuild, Quiet
<1>31. CASE RunReceive
  <2>1. Head(toPart) \in Statement /\ Tail(toPart) \in Seq(Statement)
    BY <1>31, <1>0 DEF RunReceive, Runs, PartTypes
  <2>2. /\ Head(toPart).id \in Step /\ Head(toPart).gate \in Gates \cup {None}
        /\ Head(toPart).now \in Clocks \cup {None}
    BY <2>1 DEF Statement
  <2>3. Frm("OUTCOME", Head(toPart).id, "classified", None) \in Frame
    BY <2>2, FrmType DEF FrameTag, Outcome
  <2>4. frames' \in Seq(Frame)
    BY <1>31, <1>0, <2>3, EmitOne DEF RunReceive
  <2>5. fed' \in Seq(Step)
    BY <1>31, <1>0, <2>2, AppendProperties DEF RunReceive, PartTypes
  <2>6. PartTypes'
    BY <1>31, <1>0, <2>1, <2>4, <2>5 DEF RunReceive, PartTypes
  <2>7. QED
    BY <1>31, <2>6, TypeUnchanged, TypeParts DEF RunReceive, Quiet
<1>32. CASE RunDriver
  <2>1. Head(toPart) \in Statement /\ Tail(toPart) \in Seq(Statement)
    BY <1>32, <1>0 DEF RunDriver, Runs, PartTypes
  <2>2. /\ Head(toPart).id \in Step /\ Head(toPart).gate \in Gates \cup {None}
        /\ Head(toPart).now \in Clocks \cup {None}
    BY <2>1 DEF Statement
  <2>3. /\ Frm("PONG", Head(toPart).id, None, None) \in Frame
        /\ Frm("PROBE", Head(toPart).id, None, None) \in Frame
    BY <2>2, FrmType DEF FrameTag
  <2>4. \/ Emit(Frm("PONG", Head(toPart).id, None, None))
        \/ Emit(Frm("PROBE", Head(toPart).id, None, None))
        \/ UNCHANGED frames
    BY <1>32, <1>0 DEF RunDriver
  <2>5. frames' \in Seq(Frame)
    BY <1>0, <2>3, <2>4, EmitOne DEF PartTypes
  <2>6. nodes' \subseteq Gates \cup {None}
    BY <1>32, <1>0, <2>2 DEF RunDriver, PartTypes
  <2>7. PartTypes'
    BY <1>32, <1>0, <2>1, <2>5, <2>6 DEF RunDriver, PartTypes
  <2>8. QED
    BY <1>32, <2>7, TypeUnchanged, TypeParts DEF RunDriver, Quiet
<1>33. CASE RunServe
  <2>1. Head(toPart) \in Statement /\ Tail(toPart) \in Seq(Statement)
    BY <1>33, <1>0 DEF RunServe, Runs, PartTypes
  <2>2. /\ Head(toPart).id \in Step /\ Head(toPart).gate \in Gates \cup {None}
        /\ Head(toPart).now \in Clocks \cup {None}
    BY <2>1 DEF Statement
  <2>3. Frm("RESPONSE", Head(toPart).id, None, Head(toPart).now) \in Frame
    BY <2>2, FrmType DEF FrameTag
  <2>4. Emit(Frm("RESPONSE", Head(toPart).id, None, Head(toPart).now)) \/ UNCHANGED frames
    BY <1>33, <1>0 DEF RunServe
  <2>5. frames' \in Seq(Frame)
    BY <1>0, <2>3, <2>4, EmitOne DEF PartTypes
  <2>6. PartTypes'
    BY <1>33, <1>0, <2>1, <2>5 DEF RunServe, PartTypes
  <2>7. QED
    BY <1>33, <2>6, TypeUnchanged, TypeParts DEF RunServe, Quiet
<1>34. CASE RunTraps
  <2>1. PartTypes'
    BY <1>34, <1>0 DEF RunTraps, PartTypes
  <2>2. QED
    BY <1>34, <2>1, TypeUnchanged, TypeParts DEF RunTraps, Quiet
<1>35. CASE UNCHANGED vars
  <2>1. QED
    BY <1>35, TypeUnchanged, TypeParts DEF vars
<1>36. QED
  BY <1>1, <1>2, <1>3, <1>4, <1>5, <1>6, <1>7, <1>8, <1>9, <1>10, <1>11,
     <1>12, <1>13, <1>14, <1>15, <1>16, <1>17, <1>18, <1>19, <1>20, <1>21,
     <1>22, <1>23, <1>24, <1>25, <1>26, <1>27, <1>28, <1>29, <1>30, <1>31,
     <1>32, <1>33, <1>34, <1>35
  DEF Next, Orchestrator, BridgeStep, Peer, Participant, Finished

-----------------------------------------------------------------------------
(* One command in flight.                                                  *)

\* A line put into an empty pipe is the one that is read.
LEMMA OneLine ==
  ASSUME NEW S, NEW c \in S
  PROVE  /\ Append(<<>>, c) = <<c>> /\ <<c>> # <<>> /\ Len(<<c>>) = 1
         /\ Head(<<c>>) = c /\ Tail(<<c>>) = <<>>
OBVIOUS

LEMMA PipesUnchanged ==
  ASSUME Pipes, UNCHANGED <<orch, issued, bridge, stdin, stdout, cur>>
  PROVE  Pipes'
BY DEF Pipes, Due, Busy, Alive

\* The orchestrator is ready, in a request or past a failure: nothing in flight.
LEMMA NothingInFlight ==
  ASSUME Pipes, orch \notin {"awaiting", "stopping"}
  PROVE  stdin = <<>> /\ stdout = <<>> /\ cur = None /\ bridge \notin Busy
BY DEF Pipes

\* A command is read: nothing else is in the pipes.
LEMMA PipesRead ==
  ASSUME Domains, Pipes, NEW kind, Reads(kind), Consume, UNCHANGED <<orch, issued>>,
         \/ /\ kind \in Busy /\ bridge' = kind
            /\ cur' = Head(stdin) /\ UNCHANGED stdout
         \/ /\ bridge' \in {"idle", "dead"} /\ kind # "stop" /\ UNCHANGED <<cur, stdout>>
         \/ /\ \E good \in BOOLEAN : Answer(Head(stdin), good, None)
            /\ bridge' = IF kind = "stop" THEN "exited" ELSE "idle"
            /\ UNCHANGED cur
  PROVE  Pipes'
<1>1. /\ Head(stdin) \in Command /\ Head(stdin).op = kind /\ stdin' = <<>> /\ stdout = <<>>
      /\ cur = None /\ bridge = "idle"
      /\ orch \in {"awaiting", "stopping"} /\ Head(stdin).id = Due
      /\ orch = "awaiting" => issued \in Step /\ Due = issued
      /\ kind = "stop" <=> orch = "stopping"
  <2>1. stdin # <<>> /\ Head(stdin) \in Command /\ Head(stdin).op = kind /\ Tail(stdin) = <<>>
    BY ReadCommand
  <2>2. stdout = <<>> /\ cur = None /\ bridge = "idle"
    BY ReadCommand
  <2>3. QED
    BY <2>1, <2>2 DEF Pipes, Consume, Due
<1>2. CASE kind \in Busy /\ bridge' = kind /\ cur' = Head(stdin) /\ UNCHANGED stdout
  <2>1. kind # "stop" /\ Head(stdin) # None
    BY <1>1, <1>2, CommandFields DEF Busy
  <2>2. QED
    BY <1>1, <1>2, <2>1 DEF Pipes, Due, Busy
<1>3. CASE bridge' \in {"idle", "dead"} /\ kind # "stop" /\ UNCHANGED <<cur, stdout>>
  BY <1>1, <1>3 DEF Pipes, Due, Busy
<1>4. CASE /\ \E good \in BOOLEAN : Answer(Head(stdin), good, None)
           /\ bridge' = IF kind = "stop" THEN "exited" ELSE "idle"
           /\ UNCHANGED cur
  <2>1. PICK good \in BOOLEAN : Answer(Head(stdin), good, None)
    BY <1>4
  <2>2. /\ stdout' # <<>> /\ Len(stdout') = 1
        /\ Head(stdout') = ReplyTo(Head(stdin), good, None)
    BY <1>1, <2>1, OneAnswer
  <2>3. Head(stdout').cmd = Head(stdin)
    BY <2>2 DEF ReplyTo
  <2>4. QED
    BY <1>1, <1>4, <2>2, <2>3 DEF Pipes, Due, Busy
<1>5. QED
  BY <1>2, <1>3, <1>4

\* The command in progress is answered: the loop is idle again.
LEMMA PipesAnswered ==
  ASSUME Domains, Pipes, bridge \in Busy, bridge' = "idle", cur' = None,
         NEW good \in BOOLEAN, NEW v \in Settled \cup {None}, Answer(cur, good, v),
         UNCHANGED <<orch, issued, stdin>>
  PROVE  Pipes'
<1>1. /\ cur \in Command /\ orch = "awaiting" /\ cur.id = issued
      /\ stdin = <<>> /\ stdout = <<>> /\ issued \in Step
  BY DEF Pipes, Domains
<1>2. stdout' # <<>> /\ Len(stdout') = 1 /\ Head(stdout') = ReplyTo(cur, good, v)
  BY <1>1, OneAnswer
<1>3. Head(stdout').cmd = cur
  BY <1>2 DEF ReplyTo
<1>4. QED
  BY <1>1, <1>2, <1>3 DEF Pipes, Due, Busy

LEMMA StepPipes == Domains /\ Pipes /\ [Next]_vars => Pipes'
<1> SUFFICES ASSUME Domains, Pipes, [Next]_vars PROVE Pipes'
  OBVIOUS
<1>1. ASSUME NEW c \in Command, Ask(c) PROVE Pipes'
  <2>1. stdin = <<>> /\ stdout = <<>> /\ cur = None /\ bridge \notin Busy
    BY <1>1, NothingInFlight DEF Ask
  <2>2. issued' \in Step /\ c.id = issued' /\ c.op # "stop"
    BY <1>1, BridgeAssumption DEF Ask, Domains, Step
  <2>3. CASE Alive
    <3>1. stdin' = <<c>> /\ orch' = "awaiting"
      BY <1>1, <2>1, <2>3, OneLine DEF Ask
    <3>2. QED
      BY <1>1, <2>1, <2>2, <2>3, <3>1, OneLine DEF Ask, Pipes, Due, Alive, bridgeVars
  <2>4. CASE ~Alive
    BY <1>1, <2>1, <2>4 DEF Ask, Pipes, Due, Alive, bridgeVars
  <2>5. QED
    BY <2>3, <2>4
<1>2. ASSUME NEW g \in Gates, AskGate(g) PROVE Pipes'
  <2>1. stdin = <<>> /\ stdout = <<>> /\ cur = None /\ bridge \notin Busy
    BY <1>2, NothingInFlight DEF AskGate
  <2>2. orch' \in {"http", "failed"} /\ UNCHANGED <<stdin, stdout, cur, bridge>>
    BY <1>2 DEF AskGate, bridgeVars
  <2>3. QED
    BY <2>1, <2>2 DEF Pipes
<1>3. CASE TakeReply
  <2>1. /\ stdout' = <<>> /\ stdin = <<>> /\ cur = None /\ bridge \notin Busy
        /\ orch' \in {"ready", "failed"} /\ UNCHANGED <<stdin, cur, bridge>>
    <3>1. stdout # <<>> /\ stdout' = Tail(stdout)
      BY <1>3 DEF TakeReply
    <3>2. /\ orch' \in {"ready", "failed"}
          /\ stdin' = stdin /\ cur' = cur /\ bridge' = bridge
      BY <1>3 DEF TakeReply, bridgeVars
    <3>3. Len(stdout) = 1 /\ stdin = <<>> /\ cur = None /\ bridge \notin Busy
      BY <3>1 DEF Pipes
    <3>4. stdout' = <<>>
      BY <3>1, <3>3 DEF Domains
    <3>5. QED
      BY <3>2, <3>3, <3>4
  <2>2. QED
    BY <2>1 DEF Pipes
<1>4. CASE TakeEof
  BY <1>4 DEF TakeEof, Pipes, bridgeVars, Alive, Busy, Due
<1>5. CASE TakeResponse
  <2>1. stdin = <<>> /\ stdout = <<>> /\ cur = None /\ bridge \notin Busy
    BY <1>5, NothingInFlight DEF TakeResponse
  <2>2. orch' \in {"ready", "failed"} /\ UNCHANGED <<stdin, stdout, cur, bridge>>
    BY <1>5 DEF TakeResponse, bridgeVars
  <2>3. QED
    BY <2>1, <2>2 DEF Pipes
<1>6. CASE HttpGivesUp
  <2>1. stdin = <<>> /\ stdout = <<>> /\ cur = None /\ bridge \notin Busy
    BY <1>6, NothingInFlight DEF HttpGivesUp
  <2>2. QED
    BY <1>6, <2>1 DEF HttpGivesUp, Pipes, bridgeVars
<1>7. CASE AskStop
  <2>1. stdin = <<>> /\ stdout = <<>> /\ cur = None /\ bridge \notin Busy
    BY <1>7, NothingInFlight DEF AskStop
  <2>2. CASE Alive
    <3> DEFINE stop == [op |-> "stop", id |-> 0, gate |-> None, now |-> None]
    <3>1. stdin' = <<stop>> /\ orch' = "stopping" /\ UNCHANGED <<stdout, cur, bridge>>
      BY <1>7, <2>1, <2>2, OneLine DEF AskStop, bridgeVars
    <3>2. Head(stdin') = stop /\ Len(stdin') = 1 /\ stdin' # <<>>
      BY <3>1, OneLine
    <3>3. Head(stdin').op = "stop" /\ Head(stdin').id = 0
      BY <3>2
    <3>4. QED
      BY <2>1, <2>2, <3>1, <3>2, <3>3 DEF Pipes, Due, Alive
  <2>3. CASE ~Alive
    BY <1>7, <2>1, <2>3 DEF AskStop, Pipes, Due, Alive, bridgeVars
  <2>4. QED
    BY <2>2, <2>3
<1>8. CASE TakeStop
  <2>1. stdout' = <<>> /\ stdin = <<>> /\ cur = None /\ bridge \notin Busy
    BY <1>8 DEF TakeStop, Pipes, Domains
  <2>2. QED
    BY <1>8, <2>1 DEF TakeStop, Pipes, Busy, Alive
<1>9. CASE Boot
  BY <1>9 DEF Boot, Pipes, Due, Busy, Alive, orchVars
<1>10. CASE Client
  BY <1>10, PipesRead DEF Client, orchVars, Busy
<1>11. CASE GateInit
  BY <1>11, PipesRead DEF GateInit, orchVars, Busy
<1>12. CASE GateServe
  BY <1>12, PipesRead DEF GateServe, orchVars, Reads
<1>13. CASE GateClock
  BY <1>13, PipesRead DEF GateClock, orchVars, Reads
<1>14. CASE Probe
  BY <1>14, PipesRead DEF Probe, orchVars, Busy
<1>15. CASE RawStatement
  BY <1>15, PipesRead DEF RawStatement, orchVars, bridgeVars, Reads
<1>16. CASE Serve
  BY <1>16, PipesRead DEF Serve, orchVars, Reads
<1>17. CASE Stop
  BY <1>17, PipesRead DEF Stop, orchVars
<1>18. CASE CommandFrame
  <2>1. CASE /\ bridge \in {"gateInit", "probe"}
             /\ Head(frames).t = Awaited /\ Head(frames).id = cur.id
    BY <1>18, <2>1, PipesAnswered DEF CommandFrame, orchVars, Busy
  <2>2. CASE ~(/\ bridge \in {"gateInit", "probe"}
               /\ Head(frames).t = Awaited /\ Head(frames).id = cur.id)
    BY <1>18, <2>2, PipesUnchanged DEF CommandFrame, orchVars
  <2>3. QED
    BY <2>1, <2>2
<1>19. CASE ReplyClient
  <2>1. result[cur.id] \in Settled
    BY <1>19 DEF ReplyClient, Domains, Pipes, Busy
  <2>2. result[cur.id].ok \in BOOLEAN
    BY <2>1 DEF Settled
  <2>3. QED
    BY <1>19, <2>1, <2>2, PipesAnswered DEF ReplyClient, orchVars, Busy
<1>20. CASE CommandExpires
  BY <1>20, PipesAnswered DEF CommandExpires, orchVars, Busy
<1>21. CASE \/ RequestFrame \/ OutcomeFrame \/ ResponseFrame \/ Tick \/ HandlerExpires
            \/ \E i \in Step : RequestExpires(i) \/ OutcomeExpires(i)
            \/ Peer
  BY <1>21, PipesUnchanged
  DEF RequestFrame, OutcomeFrame, ResponseFrame, Tick, HandlerExpires, RequestExpires,
      OutcomeExpires, Peer, HttpEnds, HttpFails, orchVars, bridgeVars
<1>22. CASE Participant \/ UNCHANGED vars
  BY <1>22, PipesUnchanged
  DEF Participant, RunBuild, RunReceive, RunDriver, RunServe, RunTraps, Quiet, vars,
      orchVars, bridgeVars
<1>23. QED
  BY <1>1, <1>2, <1>3, <1>4, <1>5, <1>6, <1>7, <1>8, <1>9, <1>10, <1>11, <1>12, <1>13,
     <1>14, <1>15, <1>16, <1>17, <1>18, <1>19, <1>20, <1>21, <1>22
  DEF Next, Orchestrator, BridgeStep, Finished

-----------------------------------------------------------------------------
(* The client operations.                                                  *)

\* The statements that an operation is worth, and the frames that answer them.
Work == {"build", "receive"}
Word == {"REQUEST", "OUTCOME"}

\* Neither is on its way.
Idle(i) == ~Carries(toPart, Work, i) /\ ~Carries(frames, Word, i)

\* Where operation i stands: its one statement or frame on the way, the
\* exchange, the participant's answers, and what the promise settled with.
Operation(i) ==
  /\ OnceIn(toPart, Work, i) /\ OnceIn(frames, Word, i)
  /\ Carries(toPart, Work, i) => ~Carries(frames, Word, i) /\ i \notin Elems(fed)
  /\ Carries(toPart, {"build"}, i) => http[i] = "off"
  /\ Carries(toPart, {"receive"}, i) => http[i] = "ended"
  /\ Carries(frames, {"REQUEST"}, i) => http[i] = "off" /\ i \notin Elems(fed)
  /\ \A x \in Elems(frames) : x.t = "OUTCOME" /\ x.id = i =>
       \/ x.outcome = "refused" /\ http[i] = "off" /\ i \notin Elems(fed)
       \/ x.outcome = "classified" /\ http[i] = "ended" /\ i \in Elems(fed)
  /\ http[i] \in {"open", "lost"} => Idle(i)
  /\ i \in Elems(fed) => http[i] = "ended"
  /\ result[i] # None /\ result[i].ok =>
       /\ Idle(i)
       /\ \/ result[i].outcome = "refused" /\ result[i].raw = None /\ http[i] = "off"
          \/ result[i].outcome = "classified" /\ result[i].raw = i /\ i \in Elems(fed)
  /\ http[i] # "off" => waiter[i].req # "waiting"
  /\ result[i] # None /\ waiter[i].req = "waiting" => result[i].ok
  /\ waiter[i].out = "off" => /\ Idle(i) /\ waiter[i].req = "off" /\ http[i] = "off"
                              /\ result[i] = None /\ i \notin Elems(fed)

\* What the loop and the orchestrator know of operation i: it runs until it is
\* settled, and once abandoned the failed reply ends the run of commands.
Started(i) ==
  /\ waiter[i].out # "off" => i <= issued
  /\ stdin # <<>> /\ Head(stdin).id = i => waiter[i].out = "off"
  /\ waiter[i].out # "off" /\ result[i] = None => bridge = "client" /\ cur.id = i
  /\ Abandoned(i) =>
       \/ bridge = "client" /\ cur.id = i
       \/ orch = "awaiting" /\ stdout # <<>> /\ ~Head(stdout).ok
       \/ orch \in {"failed", "stopping", "done"}

Operations == \A i \in Step : Operation(i) /\ Started(i)

\* What is sent, emitted, run and delivered, as sets.
LEMMA SendElems ==
  ASSUME Domains, NEW s \in Statement, Send(<<s>>), NEW T, NEW j, OnceIn(toPart, T, j),
         s.t \in T /\ s.id = j => ~Carries(toPart, T, j)
  PROVE  Elems(toPart') = Elems(toPart) \cup {s} /\ OnceIn(toPart', T, j)
<1>1. toPart \in Seq(Statement) /\ toPart' = Append(toPart, s)
  BY SendOne DEF Domains
<1>2. QED
  BY <1>1, ElemsAppend, OnceAppend

LEMMA EmitElems ==
  ASSUME Domains, NEW f \in Frame, Emit(f), NEW T, NEW j, OnceIn(frames, T, j),
         f.t \in T /\ f.id = j => ~Carries(frames, T, j)
  PROVE  Elems(frames') = Elems(frames) \cup {f} /\ OnceIn(frames', T, j)
<1>1. frames \in Seq(Frame) /\ frames' = Append(frames, f)
  BY DEF Domains, Emit
<1>2. QED
  BY <1>1, ElemsAppend, OnceAppend

LEMMA RunElems ==
  ASSUME Domains, toPart # <<>>, toPart' = Tail(toPart), NEW T, NEW j, OnceIn(toPart, T, j)
  PROVE  /\ OnceIn(toPart', T, j) /\ Elems(toPart') \subseteq Elems(toPart)
         /\ Head(toPart) \in Elems(toPart) /\ Head(toPart) \in Statement
         /\ Head(toPart).t \in T /\ Head(toPart).id = j => ~Carries(toPart', T, j)
<1>1. toPart \in Seq(Statement)
  BY DEF Domains
<1>2. QED
  BY <1>1, ElemsTail, OnceTail

LEMMA DeliverElems ==
  ASSUME Domains, frames # <<>>, Deliver, NEW T, NEW j, OnceIn(frames, T, j)
  PROVE  /\ OnceIn(frames', T, j) /\ Elems(frames') \subseteq Elems(frames)
         /\ Head(frames) \in Elems(frames) /\ Head(frames) \in Frame
         /\ Head(frames).t \in T /\ Head(frames).id = j => ~Carries(frames', T, j)
<1>1. frames \in Seq(Frame) /\ frames' = Tail(frames)
  BY DEF Domains, Deliver
<1>2. QED
  BY <1>1, ElemsTail, OnceTail

\* A step that adds nothing of operation j and leaves its variables alone.
LEMMA OperationKept ==
  ASSUME NEW j \in Step, Operation(j),
         waiter'[j] = waiter[j], http'[j] = http[j], result'[j] = result[j],
         j \in Elems(fed') <=> j \in Elems(fed),
         OnceIn(toPart', Work, j), OnceIn(frames', Word, j),
         \A x \in Elems(toPart') : x.t \in Work /\ x.id = j => x \in Elems(toPart),
         \A x \in Elems(frames') : x.t \in Word /\ x.id = j => x \in Elems(frames)
  PROVE  Operation(j)'
<1>1. /\ Carries(toPart', Work, j) => Carries(toPart, Work, j)
      /\ Carries(toPart', {"build"}, j) => Carries(toPart, {"build"}, j)
      /\ Carries(toPart', {"receive"}, j) => Carries(toPart, {"receive"}, j)
  BY DEF Carries, Work
<1>2. /\ Carries(frames', Word, j) => Carries(frames, Word, j)
      /\ Carries(frames', {"REQUEST"}, j) => Carries(frames, {"REQUEST"}, j)
  BY DEF Carries, Word
<1>3. Idle(j) => Idle(j)'
  BY <1>1, <1>2 DEF Idle
<1>4. \A x \in Elems(frames') : x.t = "OUTCOME" /\ x.id = j =>
        \/ x.outcome = "refused" /\ http'[j] = "off" /\ j \notin Elems(fed')
        \/ x.outcome = "classified" /\ http'[j] = "ended" /\ j \in Elems(fed')
  BY DEF Operation, Word
<1>5. QED
  BY <1>1, <1>2, <1>3, <1>4 DEF Operation

\* With none on its way there is at most one on its way.
LEMMA NoneCarried ==
  ASSUME NEW s, NEW T, NEW j, ~Carries(s, T, j)
  PROVE  /\ OnceIn(s, T, j) /\ \A U \in SUBSET T : ~Carries(s, U, j)
         /\ \A x \in Elems(s) : x.t \in T => x.id # j
BY DEF Carries, OnceIn, Elems

\* Each step keeps each operation's stand. <1>2: the steps that add and remove
\* nothing of an operation; the others are the operations' own.
LEMMA StepOperation ==
  ASSUME Domains, Pipes, Operations, [Next]_vars, NEW j \in Step
  PROVE  Operation(j)'
<1> DEFINE Kept == /\ waiter'[j] = waiter[j] /\ http'[j] = http[j] /\ result'[j] = result[j]
                   /\ Elems(fed') = Elems(fed)
           SameWork == /\ OnceIn(toPart', Work, j)
                       /\ \A x \in Elems(toPart') :
                            x.t \in Work /\ x.id = j => x \in Elems(toPart)
           SameWord == /\ OnceIn(frames', Word, j)
                       /\ \A x \in Elems(frames') :
                            x.t \in Word /\ x.id = j => x \in Elems(frames)
<1>a. Operation(j) /\ Started(j) /\ OnceIn(toPart, Work, j) /\ OnceIn(frames, Word, j)
  BY DEF Operations, Operation
<1>b. Kept /\ SameWork /\ SameWord => Operation(j)'
  BY <1>a, OperationKept
<1>c. /\ UNCHANGED <<opVars, fed>> => Kept
      /\ UNCHANGED toPart => SameWork
      /\ UNCHANGED frames => SameWord
  BY <1>a DEF opVars
<1>d. /\ waiter \in [Step -> [req : Waiter, out : Waiter]]
      /\ http \in [Step -> {"off", "open", "ended", "lost"}]
      /\ result \in [Step -> Settled \cup {None}]
  BY DEF Domains
<1> HIDE DEF Kept, SameWork, SameWord
\* A statement that is not an operation's; a frame that is not an operation's.
<1>e. ASSUME NEW s \in Statement, Send(<<s>>), ~(s.t \in Work /\ s.id = j) PROVE SameWork
  <2>1. Elems(toPart') = Elems(toPart) \cup {s} /\ OnceIn(toPart', Work, j)
    BY <1>a, <1>e, SendElems
  <2>2. QED
    BY <1>e, <2>1 DEF SameWork
<1>f. ASSUME NEW f \in Frame, Emit(f), ~(f.t \in Word /\ f.id = j) PROVE SameWord
  <2>1. Elems(frames') = Elems(frames) \cup {f} /\ OnceIn(frames', Word, j)
    BY <1>a, <1>f, EmitElems
  <2>2. QED
    BY <1>f, <2>1 DEF SameWord
<1>g. ASSUME toPart # <<>>, toPart' = Tail(toPart) PROVE SameWork
  BY <1>a, <1>g, RunElems DEF SameWork
<1>h. ASSUME frames # <<>>, Deliver PROVE SameWord
  BY <1>a, <1>h, DeliverElems DEF SameWord

<1>1. CASE \/ \E c \in Command : Ask(c)
           \/ TakeReply \/ TakeEof \/ TakeResponse \/ HttpGivesUp \/ AskStop \/ TakeStop
           \/ Boot \/ GateServe \/ GateClock \/ Serve \/ ReplyClient \/ Tick
           \/ CommandExpires \/ HandlerExpires \/ UNCHANGED vars
  BY <1>1, <1>b, <1>c
  DEF Ask, TakeReply, TakeEof, TakeResponse, HttpGivesUp, AskStop, TakeStop, Boot, GateServe,
      GateClock, Serve, ReplyClient, Tick, CommandExpires, HandlerExpires, vars, partVars
<1>2. ASSUME NEW g \in Gates, AskGate(g) PROVE Operation(j)'
  <2>1. issued + 1 \in Step /\ box[g] \in Clocks \cup {None}
    BY <1>2, BridgeAssumption DEF AskGate, Domains, Step
  <2> DEFINE s == Stmt("serve", issued + 1, g, box[g])
  <2>2. s \in Statement /\ s.t \notin Work
    BY <2>1, StmtType DEF Stmt, Work
  <2>3. SameWork
    <3>1. CASE Send(<<s>>)
      BY <2>2, <3>1, <1>e
    <3>2. CASE UNCHANGED toPart
      BY <3>2, <1>c
    <3>3. QED
      BY <1>2, <3>1, <3>2 DEF AskGate
  <2>4. QED
    BY <1>2, <1>b, <1>c, <2>3 DEF AskGate
<1>3. CASE GateInit
  <2>1. Reads("gateInit") /\ Head(stdin).id \in Step /\ Head(stdin).gate \in Gates
    BY <1>3, ReadCommand, CommandFields DEF GateInit
  <2> DEFINE i == Head(stdin).id
             g == Head(stdin).gate
             import == IF imported THEN <<>> ELSE <<Stmt("import", i, None, None)>>
             r == import \o <<Stmt("make", i, g, None), Stmt("ping", i, None, None)>>
  <2>2. /\ Stmt("import", i, None, None) \in Statement
        /\ Stmt("make", i, g, None) \in Statement /\ Stmt("ping", i, None, None) \in Statement
    BY <2>1, StmtType
  <2>3. r \in Seq(Statement) /\ \A x \in Elems(r) : x.t \notin Work
    <3>1. /\ import \in Seq(Statement)
          /\ <<Stmt("make", i, g, None), Stmt("ping", i, None, None)>> \in Seq(Statement)
      BY <2>2, EmptySeq
    <3>2. Elems(r) = Elems(import)
                       \cup Elems(<<Stmt("make", i, g, None), Stmt("ping", i, None, None)>>)
      <4> DEFINE more == <<Stmt("make", i, g, None), Stmt("ping", i, None, None)>>
      <4>1. import \in Seq(Statement) /\ more \in Seq(Statement)
        BY <3>1
      <4>2. r = import \o more
        OBVIOUS
      <4> HIDE DEF import, more, r
      <4>3. Elems(r) = Elems(import) \cup Elems(more)
        BY <4>1, <4>2, ElemsConcat
      <4>4. QED
        BY <4>3 DEF more
    <3>3. \A x \in Elems(import) : x.t \notin Work
      BY DEF Elems, Stmt, Work
    <3>4. \A x \in Elems(<<Stmt("make", i, g, None), Stmt("ping", i, None, None)>>) : x.t \notin Work
      BY DEF Elems, Stmt, Work
    <3>5. QED
      BY <3>1, <3>2, <3>3, <3>4, ConcatProperties
  <2>4. ~Carries(r, Work, j) /\ toPart \in Seq(Statement) /\ toPart' = toPart \o r
    BY <1>3, <2>3 DEF Carries, GateInit, Send, Domains
  <2>5. Elems(toPart') = Elems(toPart) \cup Elems(r) /\ OnceIn(toPart', Work, j)
    <3> HIDE DEF r
    <3>1. Elems(toPart \o r) = Elems(toPart) \cup Elems(r)
      BY <2>3, <2>4, ElemsConcat
    <3>2. OnceIn(toPart \o r, Work, j)
      BY <1>a, <2>3, <2>4, OnceConcat
    <3>3. QED
      BY <2>4, <3>1, <3>2
  <2>6. SameWork
    BY <2>3, <2>5 DEF SameWork
  <2>7. QED
    BY <1>3, <1>b, <1>c, <2>6 DEF GateInit
<1>4. CASE Probe \/ RawStatement
  <2>1. /\ Head(stdin).id \in Step
        /\ \E t \in {"probe", "tamper"} : Send(<<Stmt(t, Head(stdin).id, None, None)>>)
    <3>1. CASE Probe
      BY <3>1, ReadCommand DEF Probe
    <3>2. CASE RawStatement
      BY <3>2, ReadCommand DEF RawStatement
    <3>3. QED
      BY <1>4, <3>1, <3>2
  <2>2. PICK t \in {"probe", "tamper"} : Send(<<Stmt(t, Head(stdin).id, None, None)>>)
    BY <2>1
  <2>3. /\ Stmt(t, Head(stdin).id, None, None) \in Statement
        /\ Stmt(t, Head(stdin).id, None, None).t \notin Work
    BY <2>1, StmtType DEF Stmt, Work
  <2>4. SameWork
    BY <2>2, <2>3, <1>e
  <2>5. QED
    BY <1>4, <1>b, <1>c, <2>4 DEF Probe, RawStatement
<1>5. CASE Stop
  <2>1. SameWork /\ SameWord
    BY <1>5, ElemsEmpty, NoneCarried DEF Stop, SameWork, SameWord, Carries
  <2>2. QED
    BY <1>5, <1>b, <1>c, <2>1 DEF Stop
<1>6. CASE CommandFrame \/ ResponseFrame
  <2>1. SameWord
    BY <1>6, <1>h DEF CommandFrame, ResponseFrame, Arrives
  <2>2. QED
    BY <1>6, <1>b, <1>c, <2>1 DEF CommandFrame, ResponseFrame
<1>7. CASE RunDriver \/ RunServe \/ RunTraps
  <2>1. toPart # <<>> /\ toPart' = Tail(toPart) /\ UNCHANGED <<opVars, fed>>
    BY <1>7 DEF RunDriver, RunServe, RunTraps, Runs, Quiet
  <2>2. Head(toPart).id \in Step /\ Head(toPart).now \in Clocks \cup {None}
    BY <2>1, <1>a, RunElems DEF Statement
  <2>3. \/ UNCHANGED frames
        \/ Emit(Frm("PONG", Head(toPart).id, None, None))
        \/ Emit(Frm("PROBE", Head(toPart).id, None, None))
        \/ Emit(Frm("RESPONSE", Head(toPart).id, None, Head(toPart).now))
    BY <1>7 DEF RunDriver, RunServe, RunTraps
  <2>4. \A t \in {"PONG", "PROBE", "RESPONSE"}, n \in Clocks \cup {None} :
          /\ Frm(t, Head(toPart).id, None, n) \in Frame
          /\ Frm(t, Head(toPart).id, None, n).t \notin Word
    BY <2>2, FrmType DEF Frm, FrameTag, Word
  <2>5. SameWord
    BY <2>2, <2>3, <2>4, <1>c, <1>f
  <2>6. QED
    BY <1>b, <1>c, <1>g, <2>1, <2>5
\* The operation starts.
<1>8. CASE Client
  <2> DEFINE i == Head(stdin).id
             s == Stmt("build", i, None, None)
  <2>1. Reads("client")
    BY <1>8 DEF Client
  <2>2. i \in Step /\ stdin # <<>>
    BY <2>1, ReadCommand
  <2>3. s \in Statement /\ s.t = "build" /\ s.id = i
    BY <2>2, StmtType DEF Stmt
  <2>4. /\ Send(<<s>>) /\ UNCHANGED <<http, result, frames, fed>>
        /\ waiter' = [waiter EXCEPT ![i] = [req |-> "waiting", out |-> "waiting"]]
    BY <1>8 DEF Client
  <2>5. CASE i # j
    <3>1. SameWork
      BY <2>3, <2>4, <2>5, <1>e
    <3>2. Kept
      BY <1>d, <2>2, <2>4, <2>5 DEF Kept
    <3>3. QED
      BY <1>b, <1>c, <2>4, <3>1, <3>2
  <2>6. CASE i = j
    <3>1. Idle(j) /\ http[j] = "off" /\ result[j] = None /\ j \notin Elems(fed)
      BY <1>a, <2>2, <2>6 DEF Started, Operation
    <3>2. Elems(toPart') = Elems(toPart) \cup {s} /\ OnceIn(toPart', Work, j)
      BY <1>a, <2>3, <2>4, <3>1, SendElems DEF Idle
    <3>3. ~Carries(toPart', {"receive"}, j)
      BY <2>3, <3>1, <3>2 DEF Idle, Carries, Work
    <3>4. waiter'[j] = [req |-> "waiting", out |-> "waiting"]
      BY <1>d, <2>4, <2>6
    <3>5. /\ ~Carries(frames', Word, j) /\ ~Carries(frames', {"REQUEST"}, j)
          /\ \A x \in Elems(frames') : ~(x.t = "OUTCOME" /\ x.id = j)
      BY <2>4, <3>1 DEF Idle, Carries, Word
    <3>6. http'[j] = "off" /\ result'[j] = None /\ j \notin Elems(fed') /\ OnceIn(frames', Word, j)
      BY <1>a, <2>4, <3>1
    <3>7. QED
      BY <3>2, <3>3, <3>4, <3>5, <3>6 DEF Operation
  <2>7. QED
    BY <2>5, <2>6
\* A request frame: an operation that is still waited for opens its exchange.
<1>9. CASE RequestFrame
  <2> DEFINE i == Head(frames).id
  <2>1. /\ frames # <<>> /\ Head(frames).t = "REQUEST" /\ Deliver
        /\ UNCHANGED <<result, toPart, fed>>
    BY <1>9 DEF RequestFrame, Arrives
  <2>2. /\ Head(frames) \in Elems(frames) /\ i \in Step /\ SameWord /\ OnceIn(frames', Word, j)
        /\ i = j => ~Carries(frames', Word, j)
    BY <1>a, <1>h, <2>1, DeliverElems, FrameFields DEF Word
  <2>3. CASE i = j /\ waiter[i].req = "waiting"
    <3>1. Carries(frames, {"REQUEST"}, j) /\ Carries(frames, Word, j)
      BY <2>1, <2>2, <2>3 DEF Carries, Word
    <3>2. ~Carries(toPart, Work, j) /\ j \notin Elems(fed) /\ ~Idle(j)
      BY <1>a, <3>1 DEF Operation, Idle
    <3>3. result[j] = None /\ waiter[j].out # "off"
      BY <1>a, <2>3, <3>2 DEF Operation
    <3>4. waiter'[j].req = "got" /\ waiter'[j].out = waiter[j].out /\ http'[j] = "open"
      BY <1>9, <1>d, <2>3 DEF RequestFrame
    <3>5. /\ ~Carries(toPart', Work, j) /\ ~Carries(toPart', {"build"}, j)
          /\ ~Carries(toPart', {"receive"}, j) /\ OnceIn(toPart', Work, j)
      BY <1>a, <2>1, <3>2 DEF Carries, Work
    <3>6. /\ ~Carries(frames', {"REQUEST"}, j)
          /\ \A x \in Elems(frames') : ~(x.t = "OUTCOME" /\ x.id = j)
      BY <2>2, <2>3 DEF Carries, Word
    <3>7. Idle(j)'
      BY <2>2, <2>3, <3>5 DEF Idle
    <3>8. QED
      BY <2>1, <2>2, <3>2, <3>3, <3>4, <3>5, <3>6, <3>7 DEF Operation
  <2>4. CASE ~(i = j /\ waiter[i].req = "waiting")
    <3>1. Kept
      BY <1>9, <1>d, <2>1, <2>2, <2>4 DEF RequestFrame, Kept
    <3>2. QED
      BY <1>b, <1>c, <2>1, <2>2, <3>1
  <2>5. QED
    BY <2>3, <2>4
\* An outcome frame: a promise that is still pending settles with it.
<1>10. CASE OutcomeFrame
  <2> DEFINE i == Head(frames).id
             o == Head(frames).outcome
             raw == IF http[i] = "ended" THEN i ELSE None
             v == [ok |-> TRUE, of |-> i, outcome |-> o, raw |-> raw]
  <2>1. /\ frames # <<>> /\ Head(frames).t = "OUTCOME" /\ Deliver
        /\ UNCHANGED <<http, toPart, fed>>
    BY <1>10 DEF OutcomeFrame, Arrives
  <2>2. /\ Head(frames) \in Elems(frames) /\ i \in Step /\ SameWord /\ OnceIn(frames', Word, j)
        /\ i = j => ~Carries(frames', Word, j)
    BY <1>a, <1>h, <2>1, DeliverElems, FrameFields DEF Word
  <2>3. CASE i = j /\ waiter[i].out = "waiting"
    <3>1. Carries(frames, Word, j)
      BY <2>1, <2>2, <2>3 DEF Carries, Word
    <3>2. \/ o = "refused" /\ http[j] = "off" /\ j \notin Elems(fed)
          \/ o = "classified" /\ http[j] = "ended" /\ j \in Elems(fed)
      BY <1>a, <2>1, <2>2, <2>3 DEF Operation
    <3>3. ~Carries(toPart, Work, j) /\ ~Idle(j)
      BY <1>a, <3>1 DEF Operation, Idle
    <3>4. waiter'[j].req = waiter[j].req /\ waiter'[j].out = "got"
      BY <1>10, <1>d, <2>3 DEF OutcomeFrame
    <3>5. result'[j] = IF result[j] = None THEN v ELSE result[j]
      BY <1>10, <1>d, <2>3 DEF OutcomeFrame, Settle
    <3>6. /\ ~Carries(toPart', Work, j) /\ ~Carries(toPart', {"build"}, j)
          /\ ~Carries(toPart', {"receive"}, j) /\ OnceIn(toPart', Work, j)
      BY <1>a, <2>1, <3>3 DEF Carries, Work
    <3>7. /\ ~Carries(frames', {"REQUEST"}, j)
          /\ \A x \in Elems(frames') : ~(x.t = "OUTCOME" /\ x.id = j)
      BY <2>2, <2>3 DEF Carries, Word
    <3>8. Idle(j)' /\ http'[j] = http[j] /\ Elems(fed') = Elems(fed)
      BY <2>1, <2>2, <2>3, <3>6 DEF Idle
    <3>9. /\ v.ok /\ v.outcome = o /\ v.raw = raw
          /\ http[j] = "off" => raw = None
          /\ http[j] = "ended" => raw = j
      BY <2>3
    <3>10. result'[j].ok =>
             \/ result'[j].outcome = "refused" /\ result'[j].raw = None /\ http[j] = "off"
             \/ result'[j].outcome = "classified" /\ result'[j].raw = j /\ j \in Elems(fed)
      <4>1. CASE result[j] = None
        BY <3>2, <3>5, <3>9, <4>1
      <4>2. CASE result[j] # None
        BY <1>a, <3>3, <3>5, <4>2 DEF Operation
      <4>3. QED
        BY <4>1, <4>2
    <3>11. /\ waiter'[j].req = "waiting" => result'[j].ok
           /\ http[j] # "off" => waiter'[j].req # "waiting"
      BY <1>a, <3>4, <3>5, <3>9 DEF Operation
    <3>12. \A u \in {"open", "lost"} : http[j] # u
      BY <3>2
    <3>13. j \in Elems(fed) => http[j] = "ended"
      BY <3>2
    <3>14. QED
      BY <2>2, <3>4, <3>6, <3>7, <3>8, <3>10, <3>11, <3>12, <3>13 DEF Operation
  <2>4. CASE ~(i = j /\ waiter[i].out = "waiting")
    <3>1. Kept
      BY <1>10, <1>d, <2>1, <2>2, <2>4 DEF OutcomeFrame, Settle, Kept
    <3>2. QED
      BY <1>b, <1>c, <2>1, <2>2, <3>1
  <2>5. QED
    BY <2>3, <2>4
\* The deadlines: the outcome waiter never expires before the request waiter.
<1>11. ASSUME NEW i \in Step, RequestExpires(i) \/ OutcomeExpires(i) PROVE Operation(j)'
  <2>1. UNCHANGED <<http, toPart, frames, fed>>
    BY <1>11 DEF RequestExpires, OutcomeExpires, partVars
  <2>2. CASE i # j
    <3>1. Kept
      BY <1>11, <1>d, <2>1, <2>2 DEF RequestExpires, OutcomeExpires, Settle, Kept
    <3>2. QED
      BY <1>b, <1>c, <2>1, <3>1
  <2>3. CASE i = j /\ RequestExpires(i)
    <3>1. /\ waiter'[j].req = "expired" /\ waiter'[j].out = waiter[j].out
          /\ waiter[j].req = "waiting" /\ UNCHANGED result
      BY <1>d, <2>3 DEF RequestExpires
    <3>2. UNCHANGED Idle(j)
      BY <2>1 DEF Idle
    <3>3. QED
      BY <1>a, <2>1, <3>1, <3>2 DEF Operation
  <2>4. CASE i = j /\ OutcomeExpires(i)
    <3>1. waiter[j].req # "waiting"
      BY <2>4, BridgeAssumption DEF OutcomeExpires
    <3>2. waiter'[j].req = waiter[j].req /\ waiter'[j].out = "expired"
      BY <1>d, <2>4 DEF OutcomeExpires
    <3>3. result'[j] = IF result[j] = None THEN Failure(j) ELSE result[j]
      BY <1>d, <2>4 DEF OutcomeExpires, Settle
    <3>4. result'[j].ok => result'[j] = result[j] /\ result[j] # None
      BY <3>3 DEF Failure
    <3>5. UNCHANGED Idle(j)
      BY <2>1 DEF Idle
    <3>6. QED
      BY <1>a, <2>1, <3>1, <3>2, <3>4, <3>5 DEF Operation
  <2>5. QED
    BY <1>11, <2>2, <2>3, <2>4
\* The exchange ends: its answer goes to the participant.
<1>12. ASSUME NEW i \in Step, HttpEnds(i) PROVE Operation(j)'
  <2> DEFINE s == Stmt("receive", i, None, None)
  <2>1. /\ http[i] = "open" /\ http' = [http EXCEPT ![i] = "ended"] /\ Send(<<s>>)
        /\ UNCHANGED <<waiter, result, frames, fed>>
    BY <1>12 DEF HttpEnds
  <2>2. s \in Statement /\ s.t = "receive" /\ s.id = i
    BY StmtType DEF Stmt
  <2>3. CASE i # j
    <3>1. SameWork
      BY <2>1, <2>2, <2>3, <1>e
    <3>2. Kept
      BY <1>d, <2>1, <2>3 DEF Kept
    <3>3. QED
      BY <1>b, <1>c, <2>1, <3>1, <3>2
  <2>4. CASE i = j
    <3>1. Idle(j) /\ j \notin Elems(fed) /\ waiter[j].req # "waiting" /\ waiter[j].out # "off"
      BY <1>a, <2>1, <2>4 DEF Operation
    <3>2. result[j] = None \/ ~result[j].ok
      BY <1>a, <2>1, <2>4, <3>1 DEF Operation
    <3>3. Elems(toPart') = Elems(toPart) \cup {s} /\ OnceIn(toPart', Work, j)
      BY <1>a, <2>1, <2>2, <3>1, SendElems DEF Idle
    <3>4. ~Carries(toPart', {"build"}, j)
      BY <2>2, <3>1, <3>3 DEF Idle, Carries, Work
    <3>5. http'[j] = "ended"
      BY <1>d, <2>1, <2>4
    <3>6. /\ ~Carries(frames', Word, j) /\ ~Carries(frames', {"REQUEST"}, j)
          /\ \A x \in Elems(frames') : ~(x.t = "OUTCOME" /\ x.id = j)
      BY <2>1, <3>1 DEF Idle, Carries, Word
    <3>7. QED
      BY <1>a, <2>1, <3>1, <3>2, <3>3, <3>4, <3>5, <3>6 DEF Operation
  <2>5. QED
    BY <2>3, <2>4
<1>13. ASSUME NEW i \in Step, HttpFails(i) PROVE Operation(j)'
  <2>1. /\ http[i] = "open" /\ http' = [http EXCEPT ![i] = "lost"]
        /\ UNCHANGED <<waiter, toPart, frames, fed>>
        /\ Settle(i, Failure(i)) \/ UNCHANGED result
    BY <1>13 DEF HttpFails, partVars
  <2>2. CASE i # j
    <3>1. Kept
      BY <1>d, <2>1, <2>2 DEF Kept, Settle
    <3>2. QED
      BY <1>b, <1>c, <2>1, <3>1
  <2>3. CASE i = j
    <3>1. Idle(j) /\ j \notin Elems(fed) /\ waiter[j].req # "waiting" /\ waiter[j].out # "off"
      BY <1>a, <2>1, <2>3 DEF Operation
    <3>2. result[j] = None \/ ~result[j].ok
      BY <1>a, <2>1, <2>3, <3>1 DEF Operation
    <3>3. result'[j] = result[j] \/ result'[j] = Failure(j)
      BY <1>d, <2>1, <2>3 DEF Settle
    <3>4. result'[j] = None \/ ~result'[j].ok
      BY <3>2, <3>3 DEF Failure
    <3>5. http'[j] = "lost" /\ Idle(j)'
      BY <1>d, <2>1, <2>3, <3>1 DEF Idle
    <3>6. /\ ~Carries(toPart', Work, j) /\ ~Carries(toPart', {"build"}, j)
          /\ ~Carries(toPart', {"receive"}, j)
          /\ ~Carries(frames', Word, j) /\ ~Carries(frames', {"REQUEST"}, j)
          /\ \A x \in Elems(frames') : ~(x.t = "OUTCOME" /\ x.id = j)
      BY <2>1, <3>1 DEF Idle, Carries, Work, Word
    <3>7. QED
      BY <1>a, <2>1, <3>1, <3>4, <3>5, <3>6 DEF Operation
  <2>4. QED
    BY <2>2, <2>3
\* The participant builds or classifies: one frame for the statement it ran.
<1>14. CASE RunBuild
  <2> DEFINE i == Head(toPart).id
             R == Frm("REQUEST", i, None, None)
             O == Frm("OUTCOME", i, "refused", None)
  <2>1. /\ toPart # <<>> /\ Head(toPart).t = "build" /\ toPart' = Tail(toPart)
        /\ Emit(R) \/ Emit(O)
    BY <1>14 DEF RunBuild, Runs, Quiet, opVars
  <2>2. UNCHANGED <<waiter, http, result, fed>>
    BY <1>14 DEF RunBuild, Quiet, opVars
  <2>3. /\ Head(toPart) \in Elems(toPart) /\ i \in Step /\ SameWork
        /\ OnceIn(toPart', Work, j)
        /\ i = j => ~Carries(toPart', Work, j)
    BY <1>a, <1>g, <2>1, RunElems DEF Work, Statement
  <2>4. R \in Frame /\ O \in Frame /\ R.id = i /\ O.id = i /\ R.t = "REQUEST" /\ O.t = "OUTCOME"
        /\ O.outcome = "refused"
    BY <2>3, FrmType DEF Frm, FrameTag, Outcome
  <2>5. CASE i # j
    <3>1. SameWord
      BY <2>1, <2>4, <2>5, <1>f
    <3>2. QED
      BY <1>b, <1>c, <2>2, <2>3, <3>1 DEF opVars
  <2>6. CASE i = j
    <3>1. Carries(toPart, {"build"}, j) /\ Carries(toPart, Work, j)
      BY <2>1, <2>3, <2>6 DEF Carries, Work
    <3>2. /\ http[j] = "off" /\ ~Carries(frames, Word, j) /\ j \notin Elems(fed) /\ ~Idle(j)
      BY <1>a, <3>1 DEF Operation, Idle
    <3>3. (result[j] = None \/ ~result[j].ok) /\ waiter[j].out # "off"
      BY <1>a, <3>2 DEF Operation
    <3>4. /\ OnceIn(frames', Word, j)
          /\ Elems(frames') = Elems(frames) \cup {R} \/ Elems(frames') = Elems(frames) \cup {O}
      BY <1>a, <2>1, <2>4, <3>2, EmitElems
    <3>5. \A x \in Elems(frames') : x.t = "OUTCOME" /\ x.id = j => x.outcome = "refused"
      BY <2>4, <3>2, <3>4 DEF Carries, Word
    <3>6. ~Carries(toPart', Work, j)
      BY <2>3, <2>6
    <3>7. ~Carries(toPart', {"build"}, j) /\ ~Carries(toPart', {"receive"}, j)
      BY <3>6 DEF Carries, Work
    <3>8. /\ http'[j] = "off" /\ j \notin Elems(fed') /\ waiter'[j].out # "off"
          /\ result'[j] = None \/ ~result'[j].ok
          /\ result'[j] # None /\ waiter'[j].req = "waiting" => result'[j].ok
      BY <1>a, <2>2, <3>2, <3>3 DEF Operation
    <3>9. QED
      BY <2>3, <3>4, <3>5, <3>6, <3>7, <3>8 DEF Operation
  <2>7. QED
    BY <2>5, <2>6
<1>15. CASE RunReceive
  <2> DEFINE i == Head(toPart).id
             O == Frm("OUTCOME", i, "classified", None)
  <2>1. /\ toPart # <<>> /\ Head(toPart).t = "receive" /\ toPart' = Tail(toPart)
        /\ Emit(O) /\ fed' = Append(fed, i) /\ UNCHANGED <<waiter, http, result>>
    BY <1>15 DEF RunReceive, Runs, Quiet, opVars
  <2>2. /\ Head(toPart) \in Elems(toPart) /\ i \in Step /\ SameWork
        /\ OnceIn(toPart', Work, j)
        /\ i = j => ~Carries(toPart', Work, j)
    BY <1>a, <1>g, <2>1, RunElems DEF Work, Statement
  <2>3. O \in Frame /\ O.id = i /\ O.t = "OUTCOME" /\ O.outcome = "classified"
    BY <2>2, FrmType DEF Frm, FrameTag, Outcome
  <2>4. Elems(fed') = Elems(fed) \cup {i}
    BY <2>1, <2>2, ElemsAppend DEF Domains
  <2>5. CASE i # j
    <3>1. SameWord
      BY <2>1, <2>3, <2>5, <1>f
    <3>2. QED
      BY <1>a, <2>1, <2>2, <2>4, <2>5, <3>1, OperationKept DEF SameWork, SameWord
  <2>6. CASE i = j
    <3>1. Carries(toPart, {"receive"}, j) /\ Carries(toPart, Work, j)
      BY <2>1, <2>2, <2>6 DEF Carries, Work
    <3>2. http[j] = "ended" /\ ~Carries(frames, Word, j) /\ j \notin Elems(fed) /\ ~Idle(j)
      BY <1>a, <3>1 DEF Operation, Idle
    <3>3. (result[j] = None \/ ~result[j].ok) /\ waiter[j].out # "off"
      BY <1>a, <3>2 DEF Operation
    <3>4. OnceIn(frames', Word, j) /\ Elems(frames') = Elems(frames) \cup {O}
      BY <1>a, <2>1, <2>3, <3>2, EmitElems
    <3>5. /\ \A x \in Elems(frames') : x.t = "OUTCOME" /\ x.id = j => x.outcome = "classified"
          /\ ~Carries(frames', {"REQUEST"}, j)
      BY <2>3, <3>2, <3>4 DEF Carries, Word
    <3>6. ~Carries(toPart', Work, j)
      BY <2>2, <2>6
    <3>7. ~Carries(toPart', {"build"}, j) /\ ~Carries(toPart', {"receive"}, j)
      BY <3>6 DEF Carries, Work
    <3>8. /\ http'[j] = "ended" /\ j \in Elems(fed') /\ waiter'[j].out # "off"
          /\ result'[j] = None \/ ~result'[j].ok
          /\ result'[j] # None /\ waiter'[j].req = "waiting" => result'[j].ok
          /\ waiter'[j].req # "waiting"
      BY <1>a, <2>1, <2>4, <2>6, <3>2, <3>3 DEF Operation
    <3>9. QED
      BY <2>2, <3>4, <3>5, <3>6, <3>7, <3>8 DEF Operation
  <2>7. QED
    BY <2>5, <2>6
<1>16. QED
  BY <1>1, <1>2, <1>3, <1>4, <1>5, <1>6, <1>7, <1>8, <1>9, <1>10, <1>11, <1>12, <1>13,
     <1>14, <1>15
  DEF Next, Orchestrator, BridgeStep, Peer, Participant, Finished

-----------------------------------------------------------------------------
(* What the loop and the orchestrator know of an operation.                *)

\* No promise of j is pending and none was abandoned.
AtRest(j) == (waiter[j].out # "off" => result[j] # None) /\ ~Abandoned(j)

\* Outside a client command, while the run of commands goes on, all are at rest.
LEMMA AllAtRest ==
  ASSUME Pipes, NEW j \in Step, Started(j), orch \in {"ready", "awaiting", "http"},
         bridge # "client", orch = "awaiting" => stdout = <<>>
  PROVE  AtRest(j)
BY DEF Started, AtRest, Abandoned

LEMMA NoneRunning ==
  ASSUME Pipes, NEW j \in Step, Started(j), bridge # "client"
  PROVE  waiter[j].out # "off" => result[j] # None
BY DEF Started

\* A step of the operations' own, or of others, that the loop does not see.
LEMMA StartedKept ==
  ASSUME NEW j \in Step, Started(j),
         UNCHANGED <<issued, stdin, bridge, cur, orch, stdout>>,
         waiter'[j].out = "off" <=> waiter[j].out = "off",
         result'[j] = None => result[j] = None,
         Abandoned(j)' => Abandoned(j) \/ (waiter[j].out # "off" /\ result[j] = None)
  PROVE  Started(j)'
BY DEF Started

LEMMA StepStarted ==
  ASSUME Domains, Pipes, Operations, [Next]_vars, NEW j \in Step
  PROVE  Started(j)'
<1>a. Started(j) /\ Operation(j) /\ j # 0
  BY DEF Operations, Step
<1>b. UNCHANGED <<waiter, result>> => UNCHANGED Abandoned(j) /\ waiter'[j] = waiter[j]
                                        /\ result'[j] = result[j]
  BY DEF Abandoned
<1>c. UNCHANGED <<issued, stdin, bridge, cur, orch, stdout, waiter, result>> => Started(j)'
  BY <1>a, <1>b, StartedKept
<1>d. /\ waiter \in [Step -> [req : Waiter, out : Waiter]]
      /\ result \in [Step -> Settled \cup {None}]
  BY DEF Domains
\* The orchestrator: it asks only when all are at rest.
<1>1. ASSUME NEW c \in Command, Ask(c) PROVE Started(j)'
  <2>1. stdin = <<>> /\ stdout = <<>> /\ cur = None /\ bridge \notin Busy
    BY <1>1, NothingInFlight DEF Ask
  <2>2. AtRest(j)
    BY <1>1, <1>a, <2>1, AllAtRest DEF Ask, Busy
  <2>3. /\ c.id = issued + 1 /\ issued' = issued + 1 /\ UNCHANGED <<waiter, result>>
        /\ stdin' = <<c>> \/ stdin' = <<>>
    BY <1>1, <2>1, OneLine DEF Ask, opVars
  <2>4. issued \in Nat /\ j \in Nat
    BY BridgeAssumption DEF Domains, Step
  <2>5. stdin' # <<>> => Head(stdin').id = issued + 1
    BY <2>3, OneLine
  <2>6. QED
    BY <1>a, <1>b, <2>2, <2>3, <2>4, <2>5 DEF Started, AtRest
<1>2. ASSUME NEW g \in Gates, AskGate(g) PROVE Started(j)'
  <2>1. stdin = <<>> /\ cur = None /\ bridge \notin Busy
    BY <1>2, NothingInFlight DEF AskGate
  <2>2. AtRest(j)
    BY <1>2, <1>a, <2>1, AllAtRest DEF AskGate, Busy
  <2>3. issued' = issued + 1 /\ UNCHANGED <<waiter, result, stdin>>
    BY <1>2 DEF AskGate, opVars
  <2>4. issued \in Nat /\ j \in Nat
    BY BridgeAssumption DEF Domains, Step
  <2>5. QED
    BY <1>a, <1>b, <2>1, <2>2, <2>3, <2>4 DEF Started, AtRest
<1>3. CASE TakeReply \/ TakeEof \/ HttpGivesUp
  <2>1. UNCHANGED <<waiter, result, stdin, issued>>
    BY <1>3 DEF TakeReply, TakeEof, HttpGivesUp, opVars
  <2>2. bridge # "client"
    BY <1>3 DEF TakeReply, TakeEof, HttpGivesUp, Pipes, Busy, Alive
  <2>3. Abandoned(j) => orch' \in {"failed", "done"}
    BY <1>3, <1>a, <2>2, NothingInFlight
    DEF TakeReply, TakeEof, HttpGivesUp, Started
  <2>4. QED
    BY <1>a, <1>b, <2>1, <2>2, <2>3 DEF Started
<1>4. CASE TakeResponse
  <2>1. stdin = <<>> /\ cur = None /\ bridge \notin Busy
    BY <1>4, NothingInFlight DEF TakeResponse
  <2>2. AtRest(j)
    BY <1>4, <1>a, <2>1, AllAtRest DEF TakeResponse, Busy
  <2>3. UNCHANGED <<waiter, result, stdin, issued>>
    BY <1>4 DEF TakeResponse, opVars
  <2>4. QED
    BY <1>a, <1>b, <2>2, <2>3 DEF Started, AtRest
<1>5. CASE AskStop
  <2> DEFINE stop == [op |-> "stop", id |-> 0, gate |-> None, now |-> None]
  <2>1. stdin = <<>> /\ bridge \notin Busy
    BY <1>5, NothingInFlight DEF AskStop
  <2>2. /\ UNCHANGED <<waiter, result, issued>> /\ orch' \in {"stopping", "done"}
        /\ stdin' = <<stop>> \/ stdin' = <<>>
    BY <1>5, <2>1, OneLine DEF AskStop, opVars
  <2>3. stdin' # <<>> => Head(stdin').id = 0
    BY <2>2, OneLine
  <2>4. QED
    BY <1>a, <1>b, <2>1, <2>2, <2>3 DEF Started, Busy
<1>6. CASE TakeStop
  <2>1. UNCHANGED <<waiter, result, issued, stdin>> /\ orch' = "done"
    BY <1>6 DEF TakeStop, opVars
  <2>2. bridge # "client"
    BY <1>6 DEF TakeStop, Pipes, Busy
  <2>3. QED
    BY <1>a, <1>b, <2>1, <2>2 DEF Started
\* The loop: a command is read only when all are at rest, or to stop.
<1>7. CASE Boot
  BY <1>7, <1>a, <1>b DEF Boot, Started, orchVars, opVars
<1>8. CASE Client
  <2> DEFINE i == Head(stdin).id
  <2>1. Reads("client")
    BY <1>8 DEF Client
  <2>2. /\ i \in Step /\ i = issued /\ stdin # <<>> /\ stdout = <<>>
        /\ orch = "awaiting" /\ bridge = "idle"
    BY <2>1, ReadCommand
  <2>3. stdin' = <<>>
    BY <1>8, <2>1, ReadCommand DEF Client, Consume
  <2>4. /\ bridge' = "client" /\ cur' = Head(stdin) /\ UNCHANGED <<result, issued>>
        /\ waiter' = [waiter EXCEPT ![i] = [req |-> "waiting", out |-> "waiting"]]
    BY <1>8 DEF Client, orchVars
  <2>5. AtRest(j) /\ (Abandoned(j)' <=> Abandoned(j))
    BY <1>a, <2>2, <2>4, AllAtRest DEF Abandoned
  <2>6. CASE i = j
    <3>1. result[j] = None
      BY <1>a, <2>2, <2>6 DEF Started, Operation
    <3>2. j <= issued' /\ issued \in Nat
      BY <2>2, <2>4, <2>6, BridgeAssumption DEF Domains, Step
    <3>3. QED
      BY <2>3, <2>4, <2>5, <2>6, <3>2 DEF Started, AtRest
  <2>7. CASE i # j
    <3>1. waiter'[j] = waiter[j]
      BY <1>d, <2>2, <2>4, <2>7
    <3>2. QED
      BY <1>a, <2>3, <2>4, <2>5, <3>1 DEF Started, AtRest
  <2>8. QED
    BY <2>6, <2>7
<1>9. CASE GateInit \/ GateServe \/ GateClock \/ Probe \/ RawStatement \/ Serve
  <2>1. PICK kind \in {"gateInit", "gateServe", "gateClock", "probe", "statement", "serve"} :
          Reads(kind)
    BY <1>9 DEF GateInit, GateServe, GateClock, Probe, RawStatement, Serve
  <2>2. orch = "awaiting" /\ stdout = <<>> /\ bridge = "idle" /\ Tail(stdin) = <<>>
    BY <2>1, ReadCommand
  <2>3. stdin' = <<>> /\ UNCHANGED <<waiter, result, issued>>
    BY <1>9, <2>2
    DEF GateInit, GateServe, GateClock, Probe, RawStatement, Serve, Consume, opVars, orchVars
  <2>4. AtRest(j)
    BY <1>a, <2>2, AllAtRest
  <2>5. QED
    BY <1>a, <1>b, <2>3, <2>4 DEF Started, AtRest
<1>10. CASE Stop
  <2>1. Reads("stop")
    BY <1>10 DEF Stop
  <2>2. orch = "stopping" /\ bridge = "idle" /\ Tail(stdin) = <<>>
    BY <2>1, ReadCommand
  <2>3. stdin' = <<>> /\ UNCHANGED <<waiter, result, issued, orch>>
    BY <1>10, <2>2 DEF Stop, Consume, opVars, orchVars
  <2>4. QED
    BY <1>a, <1>b, <2>2, <2>3 DEF Started
<1>11. ASSUME bridge \in {"gateInit", "probe"}, cur' = None,
              UNCHANGED <<waiter, result, issued, stdin, orch>>
       PROVE  Started(j)'
  <2>1. orch = "awaiting" /\ stdout = <<>> /\ stdin = <<>>
    BY <1>11 DEF Pipes, Busy
  <2>2. AtRest(j)
    BY <1>a, <1>11, <2>1, AllAtRest
  <2>3. QED
    BY <1>a, <1>b, <1>11, <2>1, <2>2 DEF Started, AtRest
<1>12. CASE CommandFrame
  <2>1. CASE /\ bridge \in {"gateInit", "probe"}
             /\ Head(frames).t = Awaited /\ Head(frames).id = cur.id
    BY <1>12, <2>1, <1>11 DEF CommandFrame, opVars, orchVars
  <2>2. CASE ~(/\ bridge \in {"gateInit", "probe"}
               /\ Head(frames).t = Awaited /\ Head(frames).id = cur.id)
    BY <1>12, <2>2, <1>c DEF CommandFrame, opVars, orchVars
  <2>3. QED
    BY <2>1, <2>2
<1>13. CASE CommandExpires
  BY <1>13, <1>11 DEF CommandExpires, opVars, orchVars
\* A failed operation is answered with a failure.
<1>14. CASE ReplyClient
  <2>1. /\ cur \in Command /\ cur.id \in Step /\ orch = "awaiting"
        /\ stdin = <<>> /\ stdout = <<>>
    BY <1>14 DEF ReplyClient, Pipes, Busy, Domains
  <2>2. result[cur.id] \in Settled /\ result[cur.id].ok \in BOOLEAN
    BY <1>14, <2>1 DEF ReplyClient, Domains, Settled
  <2>3. stdout' # <<>> /\ Head(stdout') = ReplyTo(cur, result[cur.id].ok, result[cur.id])
    BY <1>14, <2>1, <2>2, OneAnswer DEF ReplyClient
  <2>4. Head(stdout').ok = result[cur.id].ok
    BY <2>3 DEF ReplyTo
  <2>5. UNCHANGED <<waiter, result, issued, stdin, orch>>
    BY <1>14 DEF ReplyClient, opVars, orchVars
  <2>6. QED
    BY <1>14, <1>a, <1>b, <2>1, <2>3, <2>4, <2>5 DEF ReplyClient, Started, Abandoned
\* Callbacks and timers.
<1>15. CASE RequestFrame
  <2>1. waiter'[j].out = waiter[j].out /\ UNCHANGED result
    BY <1>15, <1>d DEF RequestFrame
  <2>2. QED
    BY <1>15, <1>a, <2>1, StartedKept DEF RequestFrame, orchVars, bridgeVars, Abandoned
<1>16. CASE OutcomeFrame
  <2> DEFINE i == Head(frames).id
             v == [ok |-> TRUE, of |-> i, outcome |-> Head(frames).outcome,
                   raw |-> IF http[i] = "ended" THEN i ELSE None]
  <2>1. waiter'[j].out = "off" <=> waiter[j].out = "off"
    BY <1>16, <1>d DEF OutcomeFrame
  <2>2. /\ result'[j] = result[j] \/ (result[j] = None /\ result'[j] = v)
        /\ v.ok
    BY <1>16, <1>d DEF OutcomeFrame, Settle
  <2>3. /\ Abandoned(j)' => Abandoned(j)
        /\ result'[j] = None => result[j] = None
    <3>1. CASE result'[j] = result[j]
      BY <3>1 DEF Abandoned
    <3>2. CASE result[j] = None /\ result'[j] = v
      BY <2>2, <3>2 DEF Abandoned
    <3>3. QED
      BY <2>2, <3>1, <3>2
  <2>4. QED
    BY <1>16, <1>a, <2>1, <2>3, StartedKept DEF OutcomeFrame, orchVars, bridgeVars
<1>17. ASSUME NEW i \in Step, RequestExpires(i) PROVE Started(j)'
  <2>1. waiter'[j].out = waiter[j].out /\ UNCHANGED result
    BY <1>17, <1>d DEF RequestExpires
  <2>2. QED
    BY <1>17, <1>a, <2>1, StartedKept DEF RequestExpires, orchVars, bridgeVars, Abandoned
<1>18. ASSUME NEW i \in Step, OutcomeExpires(i) PROVE Started(j)'
  <2>1. /\ waiter'[j].out = "off" <=> waiter[j].out = "off"
        /\ waiter[i].out # "off"
        /\ result'[j] = result[j] \/ (i = j /\ result[j] = None /\ result'[j] = Failure(i))
    BY <1>18, <1>d DEF OutcomeExpires, Settle
  <2>2. Failure(i) # None
    <3>1. Failure(i) \in Settled
      BY DEF Failure, Settled
    <3>2. QED
      BY <3>1, NoneAssumption
  <2>3. /\ result'[j] = None => result[j] = None
        /\ Abandoned(j)' => Abandoned(j) \/ (waiter[j].out # "off" /\ result[j] = None)
    BY <2>1, <2>2 DEF Abandoned
  <2>4. QED
    BY <1>18, <1>a, <2>1, <2>3, StartedKept DEF OutcomeExpires, orchVars, bridgeVars
<1>19. ASSUME NEW i \in Step, HttpFails(i) PROVE Started(j)'
  <2>1. /\ http[i] = "open" /\ UNCHANGED waiter
        /\ result'[j] = result[j] \/ (i = j /\ result[j] = None /\ result'[j] = Failure(i))
    BY <1>19, <1>d DEF HttpFails, Settle
  <2>2. Failure(i) # None
    <3>1. Failure(i) \in Settled
      BY DEF Failure, Settled
    <3>2. QED
      BY <3>1, NoneAssumption
  <2>3. i = j => waiter[j].out # "off"
    BY <1>a, <2>1 DEF Operation
  <2>4. /\ result'[j] = None => result[j] = None
        /\ Abandoned(j)' => Abandoned(j) \/ (waiter[j].out # "off" /\ result[j] = None)
    BY <2>1, <2>2, <2>3 DEF Abandoned
  <2>5. QED
    BY <1>19, <1>a, <2>1, <2>4, StartedKept DEF HttpFails, orchVars, bridgeVars
<1>20. CASE \/ ResponseFrame \/ Tick \/ HandlerExpires
            \/ \E i \in Step : HttpEnds(i)
            \/ Participant \/ UNCHANGED vars
  BY <1>20, <1>c
  DEF ResponseFrame, Tick, HandlerExpires, HttpEnds, Participant, RunBuild, RunReceive, RunDriver,
      RunServe, RunTraps, Quiet, vars, orchVars, bridgeVars, opVars
<1>21. QED
  BY <1>1, <1>2, <1>3, <1>4, <1>5, <1>6, <1>7, <1>8, <1>9, <1>10, <1>12, <1>13, <1>14, <1>15,
     <1>16, <1>17, <1>18, <1>19, <1>20
  DEF Next, Orchestrator, BridgeStep, Peer, Finished

-----------------------------------------------------------------------------
(* The gate servers and the scenario clocks.                               *)

\* No statement or frame is numbered past the last command or request.
Numbered ==
  /\ \A x \in Elems(toPart) : x.id <= issued
  /\ \A x \in Elems(frames) : x.id <= issued

\* While commands go on the boxes hold the acknowledged clocks, but for the
\* one clock that the reply in the pipe acknowledges.
ClocksAgree ==
  /\ orch \in {"ready", "http"} => box = clock
  /\ orch = "awaiting" /\ Alive /\ stdout = <<>> => box = clock
  /\ orch = "awaiting" /\ stdout # <<>> /\ Head(stdout).ok =>
       box = IF Head(stdout).cmd.op \in {"gateServe", "gateClock"}
               THEN [clock EXCEPT ![Head(stdout).cmd.gate] = Head(stdout).cmd.now]
               ELSE clock

\* The request in progress carries the acknowledged clock all the way.
RequestUnderClock ==
  orch = "http" =>
    /\ handler.id = issued /\ handler.gate \in Gates
    /\ \A x \in Elems(toPart) : x.t = "serve" /\ x.id = issued => x.now = clock[handler.gate]
    /\ \A x \in Elems(frames) : x.t = "RESPONSE" /\ x.id = issued => x.now = clock[handler.gate]
    /\ handler.st = "answered" => handler.now = clock[handler.gate]

LEMMA ElemsIn ==
  ASSUME NEW S, NEW s \in Seq(S)
  PROVE  Elems(s) \subseteq S
BY DEF Elems

\* A frame answers a statement, a gate response under the statement's clock.
LEMMA NewFrames ==
  ASSUME Domains, [Next]_vars, NEW x \in Elems(frames'), x \notin Elems(frames)
  PROVE  \E s \in Elems(toPart) : /\ x.id = s.id
                                  /\ x.t = "RESPONSE" => s.t = "serve" /\ x.now = s.now
<1>0. toPart \in Seq(Statement) /\ frames \in Seq(Frame)
  BY DEF Domains
<1>1. ASSUME toPart # <<>>
      PROVE  Head(toPart) \in Elems(toPart) /\ Head(toPart) \in Statement
  BY <1>0, <1>1, ElemsTail
<1>2. ASSUME NEW f \in Frame, Emit(f) PROVE x = f
  BY <1>0, <1>2, ElemsAppend DEF Emit
<1>3. ASSUME frames # <<>>, Deliver PROVE FALSE
  BY <1>0, <1>3, ElemsTail DEF Deliver
<1>4. CASE RunBuild \/ RunReceive \/ RunDriver
  <2> DEFINE i == Head(toPart).id
  <2>1. toPart # <<>>
    BY <1>4 DEF RunBuild, RunReceive, RunDriver, Runs
  <2>2. i \in Step
    BY <2>1, <1>1 DEF Statement
  <2>3. \/ Emit(Frm("OUTCOME", i, "refused", None)) \/ Emit(Frm("REQUEST", i, None, None))
        \/ Emit(Frm("OUTCOME", i, "classified", None))
        \/ Emit(Frm("PONG", i, None, None)) \/ Emit(Frm("PROBE", i, None, None))
        \/ UNCHANGED frames
    BY <1>4 DEF RunBuild, RunReceive, RunDriver
  <2>4. /\ Frm("OUTCOME", i, "refused", None) \in Frame
        /\ Frm("OUTCOME", i, "classified", None) \in Frame
        /\ \A t \in {"REQUEST", "PONG", "PROBE"} : Frm(t, i, None, None) \in Frame
    BY <2>2, FrmType DEF Outcome, FrameTag
  <2>5. x.id = i /\ x.t # "RESPONSE"
    BY <2>3, <2>4, <1>2 DEF Frm
  <2>6. QED
    BY <2>1, <2>5, <1>1
<1>5. CASE RunServe
  <2> DEFINE i == Head(toPart).id
             n == Head(toPart).now
  <2>1. toPart # <<>> /\ Head(toPart).t = "serve"
    BY <1>5 DEF RunServe, Runs
  <2>2. i \in Step /\ n \in Clocks \cup {None}
    BY <2>1, <1>1 DEF Statement
  <2>3. Emit(Frm("RESPONSE", i, None, n)) \/ UNCHANGED frames
    BY <1>5 DEF RunServe
  <2>4. x = Frm("RESPONSE", i, None, n)
    BY <2>2, <2>3, <1>2, FrmType DEF FrameTag
  <2>5. x.id = i /\ x.now = n
    BY <2>4 DEF Frm
  <2>6. QED
    BY <2>1, <2>5, <1>1
<1>6. CASE RequestFrame \/ OutcomeFrame \/ CommandFrame \/ ResponseFrame
  BY <1>3, <1>6 DEF RequestFrame, OutcomeFrame, CommandFrame, ResponseFrame, Arrives
<1>7. CASE Stop
  BY <1>7, ElemsEmpty DEF Stop
<1>8. CASE Orchestrator \/ Peer \/ RunTraps \/ UNCHANGED vars
  BY <1>8
  DEF Orchestrator, Ask, AskGate, TakeReply, TakeEof, TakeResponse, HttpGivesUp, AskStop,
      TakeStop, Peer, HttpEnds, HttpFails, RunTraps, vars, partVars
<1>9. CASE \/ Boot \/ Client \/ GateInit \/ GateServe \/ GateClock \/ Probe \/ RawStatement
           \/ Serve \/ ReplyClient \/ Tick \/ CommandExpires \/ HandlerExpires
           \/ \E i \in Step : RequestExpires(i) \/ OutcomeExpires(i)
  BY <1>9
  DEF Boot, Client, GateInit, GateServe, GateClock, Probe, RawStatement, Serve, ReplyClient,
      Tick, CommandExpires, HandlerExpires, RequestExpires, OutcomeExpires, partVars
<1>10. QED
  BY <1>4, <1>5, <1>6, <1>7, <1>8, <1>9
  DEF Next, BridgeStep, Participant, Finished

\* A statement is sent for a command or an exchange that was asked for; a
\* serve statement only with a request, under the clock in the box.
LEMMA NewStatements ==
  ASSUME Domains, Pipes, Operations, [Next]_vars,
         NEW x \in Elems(toPart'), x \notin Elems(toPart)
  PROVE  \/ x.t # "serve" /\ x.id \in Step /\ x.id <= issued
         \/ \E g \in Gates : AskGate(g) /\ x = Stmt("serve", issued + 1, g, box[g])
<1>0. toPart \in Seq(Statement)
  BY DEF Domains
<1>1. ASSUME NEW s \in Statement, Send(<<s>>) PROVE x = s
  <2>1. toPart' = Append(toPart, s)
    BY <1>1, SendOne
  <2>2. Elems(Append(toPart, s)) = Elems(toPart) \cup {s}
    BY <1>0, ElemsAppend
  <2>3. QED
    BY <2>1, <2>2
<1>2. ASSUME toPart # <<>>, toPart' = Tail(toPart) PROVE FALSE
  BY <1>0, <1>2, ElemsTail
<1>3. ASSUME NEW g \in Gates, AskGate(g)
      PROVE  x = Stmt("serve", issued + 1, g, box[g])
  <2>1. issued + 1 \in Step /\ box[g] \in Clocks \cup {None}
    BY <1>3, BridgeAssumption DEF AskGate, Domains, Step
  <2>2. Stmt("serve", issued + 1, g, box[g]) \in Statement
    BY <2>1, StmtType
  <2>3. QED
    BY <1>3, <1>1, <2>2 DEF AskGate
<1>4. CASE Client \/ Probe \/ RawStatement
  <2>1. PICK t \in {"build", "probe", "tamper"} :
          Send(<<Stmt(t, Head(stdin).id, None, None)>>)
    BY <1>4 DEF Client, Probe, RawStatement
  <2>2. PICK kind \in {"client", "probe", "statement"} : Reads(kind)
    BY <1>4 DEF Client, Probe, RawStatement
  <2>3. Head(stdin).id \in Step /\ Head(stdin).id = issued
    BY <2>2, ReadCommand
  <2>4. Stmt(t, Head(stdin).id, None, None) \in Statement
    BY <2>3, StmtType
  <2>5. x = Stmt(t, Head(stdin).id, None, None)
    BY <2>1, <2>4, <1>1
  <2>6. QED
    BY <2>3, <2>5 DEF Stmt, Step
<1>5. CASE GateInit
  <2>1. Reads("gateInit")
    BY <1>5 DEF GateInit
  <2>2. /\ Head(stdin).id \in Step /\ Head(stdin).id = issued
        /\ Head(stdin) \in Command /\ Head(stdin).op = "gateInit"
    BY <2>1, ReadCommand
  <2>3. Head(stdin).gate \in Gates
    BY <2>2, CommandFields
  <2> DEFINE i == Head(stdin).id
             g == Head(stdin).gate
             import == IF imported THEN <<>> ELSE <<Stmt("import", i, None, None)>>
             pair == <<Stmt("make", i, g, None), Stmt("ping", i, None, None)>>
  <2>4. /\ Stmt("import", i, None, None) \in Statement
        /\ Stmt("make", i, g, None) \in Statement /\ Stmt("ping", i, None, None) \in Statement
    BY <2>2, <2>3, StmtType
  <2>5. import \in Seq(Statement) /\ pair \in Seq(Statement)
    BY <2>4, EmptySeq
  <2>6. \A y \in Elems(import) : y.t # "serve" /\ y.id = i
    BY DEF Elems, Stmt
  <2>7. \A y \in Elems(pair) : y.t # "serve" /\ y.id = i
    BY DEF Elems, Stmt
  <2>8. toPart' = toPart \o (import \o pair)
    BY <1>5 DEF GateInit, Send
  <2> HIDE DEF import, pair
  <2>9. import \o pair \in Seq(Statement) /\ Elems(import \o pair) = Elems(import) \cup Elems(pair)
    BY <2>5, ElemsConcat, ConcatProperties
  <2>10. Elems(toPart') = Elems(toPart) \cup Elems(import \o pair)
    <3>1. \A c \in Seq(Statement) : Elems(toPart \o c) = Elems(toPart) \cup Elems(c)
      BY <1>0, ElemsConcat
    <3>2. QED
      BY <2>8, <2>9, <3>1
  <2>11. x.t # "serve" /\ x.id = i
    BY <2>6, <2>7, <2>9, <2>10
  <2>12. QED
    BY <2>2, <2>11 DEF Step
<1>6. ASSUME NEW i \in Step, HttpEnds(i) PROVE x.t # "serve" /\ x.id \in Step /\ x.id <= issued
  <2>1. Stmt("receive", i, None, None) \in Statement
    BY StmtType
  <2>2. x = Stmt("receive", i, None, None)
    BY <1>6, <1>1, <2>1 DEF HttpEnds
  <2>3. waiter[i].out # "off" /\ i <= issued
    BY <1>6 DEF Operations, Operation, Started, HttpEnds
  <2>4. QED
    BY <2>2, <2>3 DEF Stmt
<1>7. CASE Participant
  BY <1>2, <1>7 DEF Participant, RunBuild, RunReceive, RunDriver, RunServe, RunTraps, Runs
<1>8. CASE Stop
  BY <1>8, ElemsEmpty DEF Stop
<1>9. CASE \/ \E c \in Command : Ask(c)
           \/ TakeReply \/ TakeEof \/ TakeResponse \/ HttpGivesUp \/ AskStop \/ TakeStop
           \/ \E i \in Step : HttpFails(i)
           \/ UNCHANGED vars
  BY <1>9
  DEF Ask, TakeReply, TakeEof, TakeResponse, HttpGivesUp, AskStop, TakeStop, HttpFails, vars,
      partVars
<1>10. CASE \/ Boot \/ GateServe \/ GateClock \/ Serve \/ RequestFrame \/ OutcomeFrame
            \/ CommandFrame \/ ResponseFrame \/ ReplyClient \/ Tick \/ CommandExpires
            \/ HandlerExpires \/ \E i \in Step : RequestExpires(i) \/ OutcomeExpires(i)
  BY <1>10
  DEF Boot, GateServe, GateClock, Serve, RequestFrame, OutcomeFrame, CommandFrame,
      ResponseFrame, ReplyClient, Tick, CommandExpires, HandlerExpires, RequestExpires,
      OutcomeExpires, partVars
<1>11. QED
  BY <1>3, <1>4, <1>5, <1>6, <1>7, <1>8, <1>9, <1>10
  DEF Next, Orchestrator, BridgeStep, Peer, Finished

LEMMA StepNumbered == Domains /\ Pipes /\ Operations /\ Numbered /\ [Next]_vars => Numbered'
<1> SUFFICES ASSUME Domains, Pipes, Operations, Numbered, [Next]_vars PROVE Numbered'
  OBVIOUS
<1>1. /\ toPart \in Seq(Statement) /\ frames \in Seq(Frame) /\ issued \in Nat
      /\ \A x \in Elems(toPart) : x.id \in Nat
      /\ \A x \in Elems(frames) : x.id \in Nat
  <2>1. toPart \in Seq(Statement) /\ frames \in Seq(Frame) /\ issued \in Nat
    BY BridgeAssumption DEF Domains
  <2>2. Elems(toPart) \subseteq Statement /\ Elems(frames) \subseteq Frame
    BY <2>1, ElemsIn
  <2>3. \A s \in Statement : s.id \in Nat
    BY DEF Statement, Step
  <2>4. \A f \in Frame : f.id \in Nat
    BY DEF Frame, Step
  <2>5. QED
    BY <2>1, <2>2, <2>3, <2>4
<1>2. issued' = issued \/ issued' = issued + 1
  BY DEF Next, Orchestrator, BridgeStep, Peer, Participant, Finished, vars, orchVars, Quiet,
         Ask, AskGate, TakeReply, TakeEof, TakeResponse, HttpGivesUp, AskStop, TakeStop,
         Boot, Client, GateInit, GateServe, GateClock, Probe, RawStatement, Serve, Stop,
         RequestFrame, OutcomeFrame, CommandFrame, ResponseFrame, ReplyClient, Tick,
         CommandExpires, HandlerExpires, RequestExpires, OutcomeExpires, HttpEnds, HttpFails,
         RunBuild, RunReceive, RunDriver, RunServe, RunTraps
<1>3. ASSUME NEW x \in Elems(toPart') PROVE x.id <= issued'
  <2>1. CASE x \in Elems(toPart)
    BY <1>1, <1>2, <2>1 DEF Numbered
  <2>2. CASE x.t # "serve" /\ x.id \in Step /\ x.id <= issued
    BY <1>1, <1>2, <2>2 DEF Step
  <2>3. CASE \E g \in Gates : AskGate(g) /\ x = Stmt("serve", issued + 1, g, box[g])
    BY <1>1, <2>3 DEF AskGate, Stmt
  <2>4. QED
    BY <2>1, <2>2, <2>3, NewStatements
<1>4. ASSUME NEW x \in Elems(frames') PROVE x.id <= issued'
  <2>1. CASE x \in Elems(frames)
    BY <1>1, <1>2, <2>1 DEF Numbered
  <2>2. CASE x \notin Elems(frames)
    <3>1. PICK s \in Elems(toPart) : x.id = s.id
      BY <2>2, NewFrames
    <3>2. QED
      BY <1>1, <1>2, <3>1 DEF Numbered
  <2>3. QED
    BY <2>1, <2>2
<1>5. QED
  BY <1>3, <1>4 DEF Numbered

LEMMA StepClocks == Domains /\ Pipes /\ ClocksAgree /\ [Next]_vars => ClocksAgree'
<1> SUFFICES ASSUME Domains, Pipes, ClocksAgree, [Next]_vars PROVE ClocksAgree'
  OBVIOUS
<1>1. CASE UNCHANGED <<orch, clock, bridge, stdout, box>>
  BY <1>1 DEF ClocksAgree, Alive
<1>2. CASE \/ \E c \in Command : Ask(c)
           \/ \E g \in Gates : AskGate(g)
           \/ TakeResponse \/ HttpGivesUp \/ AskStop
  <2>1. /\ UNCHANGED <<clock, stdout, box>>
        /\ orch \in {"ready", "http"} \/ orch' \notin {"ready", "http", "awaiting"}
    BY <1>2 DEF Ask, AskGate, TakeResponse, HttpGivesUp, AskStop, bridgeVars
  <2>2. orch \in {"ready", "http"} => stdout = <<>>
    BY DEF Pipes
  <2>3. QED
    BY <2>1, <2>2 DEF ClocksAgree
<1>3. CASE TakeReply
  <2>1. UNCHANGED box /\ orch = "awaiting" /\ stdout # <<>>
    BY <1>3 DEF TakeReply, bridgeVars
  <2>2. CASE Head(stdout).ok
    BY <1>3, <2>1, <2>2 DEF TakeReply, ClocksAgree
  <2>3. CASE ~Head(stdout).ok
    BY <1>3, <2>3 DEF TakeReply, ClocksAgree
  <2>4. QED
    BY <2>2, <2>3
<1>4. CASE TakeEof \/ TakeStop
  <2>1. orch' \in {"failed", "done"}
    BY <1>4 DEF TakeEof, TakeStop
  <2>2. QED
    BY <2>1 DEF ClocksAgree
<1>5. CASE Boot
  BY <1>5 DEF Boot, ClocksAgree, orchVars, Alive
\* A command is read while the boxes agree.
<1>6. CASE Client \/ GateInit \/ Probe
  <2>1. PICK kind \in {"client", "gateInit", "probe"} : Reads(kind)
    BY <1>6 DEF Client, GateInit, Probe
  <2>2. orch = "awaiting" /\ stdout = <<>> /\ Alive
    BY <2>1, ReadCommand
  <2>3. UNCHANGED <<orch, clock, stdout, box>>
    BY <1>6 DEF Client, GateInit, Probe, orchVars
  <2>4. QED
    BY <2>2, <2>3 DEF ClocksAgree
<1>7. ASSUME NEW kind \in {"gateServe", "gateClock", "statement", "serve"}, Reads(kind),
             UNCHANGED <<orch, clock>>,
             \/ bridge' = "dead" /\ UNCHANGED stdout
             \/ \E good \in BOOLEAN :
                  /\ Answer(Head(stdin), good, None)
                  /\ good => box' = IF kind \in {"gateServe", "gateClock"}
                                      THEN [box EXCEPT ![Head(stdin).gate] = Head(stdin).now]
                                      ELSE box
      PROVE  ClocksAgree'
  <2>1. /\ orch = "awaiting" /\ stdout = <<>> /\ Alive
        /\ Head(stdin) \in Command /\ Head(stdin).op = kind
    BY <1>7, ReadCommand
  <2>2. box = clock
    BY <2>1 DEF ClocksAgree
  <2>3. CASE bridge' = "dead" /\ UNCHANGED stdout
    BY <1>7, <2>1, <2>3 DEF ClocksAgree, Alive
  <2>4. ASSUME NEW good \in BOOLEAN, Answer(Head(stdin), good, None),
               good => box' = IF kind \in {"gateServe", "gateClock"}
                                THEN [box EXCEPT ![Head(stdin).gate] = Head(stdin).now] ELSE box
        PROVE  ClocksAgree'
    <3>1. stdout' # <<>> /\ Head(stdout') = ReplyTo(Head(stdin), good, None)
      BY <2>1, <2>4, OneAnswer
    <3>2. Head(stdout').cmd = Head(stdin) /\ Head(stdout').ok = good
      BY <3>1 DEF ReplyTo
    <3>3. QED
      BY <1>7, <2>1, <2>2, <2>4, <3>1, <3>2 DEF ClocksAgree
  <2>5. QED
    BY <1>7, <2>3, <2>4
<1>8. CASE GateServe
  BY <1>7, <1>8 DEF GateServe, orchVars
<1>9. CASE GateClock
  BY <1>7, <1>9 DEF GateClock, orchVars
<1>10. CASE RawStatement
  BY <1>7, <1>10 DEF RawStatement, orchVars, bridgeVars
<1>11. CASE Serve
  BY <1>7, <1>11 DEF Serve, orchVars
<1>12. CASE Stop
  <2>1. Reads("stop")
    BY <1>12 DEF Stop
  <2>2. orch = "stopping" /\ UNCHANGED orch
    BY <1>12, <2>1, ReadCommand DEF Stop, orchVars
  <2>3. QED
    BY <2>2 DEF ClocksAgree
\* A command in progress is answered; it is not one that moves a clock.
<1>13. ASSUME bridge \in Busy, UNCHANGED <<orch, clock, box>>,
              NEW good \in BOOLEAN, NEW v \in Settled \cup {None}, Answer(cur, good, v)
       PROVE  ClocksAgree'
  <2>1. /\ cur \in Command /\ orch = "awaiting" /\ stdout = <<>> /\ cur.op \in Busy
    BY <1>13 DEF Pipes, Domains
  <2>2. box = clock
    BY <1>13, <2>1 DEF ClocksAgree, Alive, Busy
  <2>3. stdout' # <<>> /\ Head(stdout') = ReplyTo(cur, good, v)
    BY <1>13, <2>1, OneAnswer
  <2>4. Head(stdout').cmd = cur
    BY <2>3 DEF ReplyTo
  <2>5. QED
    BY <1>13, <2>1, <2>2, <2>3, <2>4 DEF ClocksAgree, Busy
<1>14. CASE CommandFrame
  <2>1. CASE /\ bridge \in {"gateInit", "probe"}
             /\ Head(frames).t = Awaited /\ Head(frames).id = cur.id
    BY <1>13, <1>14, <2>1 DEF CommandFrame, orchVars, Busy
  <2>2. CASE ~(/\ bridge \in {"gateInit", "probe"}
               /\ Head(frames).t = Awaited /\ Head(frames).id = cur.id)
    BY <1>1, <1>14, <2>2 DEF CommandFrame, orchVars
  <2>3. QED
    BY <2>1, <2>2
<1>15. CASE CommandExpires
  BY <1>13, <1>15 DEF CommandExpires, orchVars, Busy
<1>16. CASE ReplyClient
  <2>1. cur.id \in Step /\ result[cur.id] \in Settled
    BY <1>16 DEF ReplyClient, Pipes, Busy, Domains
  <2>2. result[cur.id].ok \in BOOLEAN
    BY <2>1 DEF Settled
  <2>3. QED
    BY <1>13, <1>16, <2>1, <2>2 DEF ReplyClient, orchVars, Busy
<1>17. CASE \/ RequestFrame \/ OutcomeFrame \/ ResponseFrame \/ Tick \/ HandlerExpires
            \/ \E i \in Step : RequestExpires(i) \/ OutcomeExpires(i)
            \/ Peer \/ Participant \/ UNCHANGED vars
  BY <1>1, <1>17
  DEF RequestFrame, OutcomeFrame, ResponseFrame, Tick, HandlerExpires, RequestExpires,
      OutcomeExpires, Peer, HttpEnds, HttpFails, Participant, RunBuild, RunReceive, RunDriver,
      RunServe, RunTraps, Quiet, vars, orchVars, bridgeVars
<1>18. QED
  BY <1>2, <1>3, <1>4, <1>5, <1>6, <1>8, <1>9, <1>10, <1>11, <1>12, <1>14, <1>15, <1>16, <1>17
  DEF Next, Orchestrator, BridgeStep, Finished

LEMMA StepRequest ==
  Domains /\ Pipes /\ Operations /\ Numbered /\ ClocksAgree /\ RequestUnderClock /\ [Next]_vars
    => RequestUnderClock'
<1> SUFFICES ASSUME Domains, Pipes, Operations, Numbered, ClocksAgree, RequestUnderClock,
                    [Next]_vars
             PROVE  RequestUnderClock'
  OBVIOUS
<1>1. ASSUME NEW g \in Gates, AskGate(g), orch' = "http" PROVE RequestUnderClock'
  <2>1. /\ orch = "ready" /\ issued' = issued + 1 /\ UNCHANGED <<clock, frames>>
        /\ handler' = [st |-> "waiting", gate |-> g, id |-> issued + 1, now |-> None]
    BY <1>1 DEF AskGate
  <2>2. box = clock /\ issued \in Nat
    BY <2>1, BridgeAssumption DEF ClocksAgree, Domains
  <2>3. handler'.id = issued' /\ handler'.gate = g /\ handler'.st = "waiting"
    BY <2>1
  <2>4. ASSUME NEW x \in Elems(toPart'), x.t = "serve", x.id = issued'
        PROVE  x.now = clock[g]
    <3>1. x \notin Elems(toPart)
      BY <2>1, <2>2, <2>4 DEF Numbered
    <3>2. PICK h \in Gates : AskGate(h) /\ x = Stmt("serve", issued + 1, h, box[h])
      BY <2>4, <3>1, NewStatements
    <3>3. handler'.gate = h
      BY <1>1, <3>2 DEF AskGate
    <3>4. QED
      BY <2>2, <2>3, <3>2, <3>3 DEF Stmt
  <2>5. \A x \in Elems(frames') : x.id # issued'
    BY <2>1, <2>2 DEF Numbered
  <2>6. QED
    BY <2>1, <2>3, <2>4, <2>5 DEF RequestUnderClock
\* While the request waits only the participant and the callbacks move.
<1>2. ASSUME orch = "http", orch' = "http", UNCHANGED <<issued, clock>>,
             UNCHANGED handler \/ HandlerExpires \/ ResponseFrame \/ Stop
      PROVE  RequestUnderClock'
  <2>1. \A g \in Gates : ~AskGate(g)
    BY <1>2 DEF AskGate
  <2>2. ASSUME NEW x \in Elems(toPart'), x.t = "serve", x.id = issued
        PROVE  x.now = clock[handler.gate]
    BY <1>2, <2>1, <2>2, NewStatements DEF RequestUnderClock
  <2>3. ASSUME NEW x \in Elems(frames'), x.t = "RESPONSE", x.id = issued
        PROVE  x.now = clock[handler.gate]
    <3>1. CASE x \in Elems(frames)
      BY <1>2, <2>3, <3>1 DEF RequestUnderClock
    <3>2. CASE x \notin Elems(frames)
      <4>1. PICK s \in Elems(toPart) : x.id = s.id /\ s.t = "serve" /\ x.now = s.now
        BY <2>3, <3>2, NewFrames
      <4>2. QED
        BY <1>2, <2>3, <4>1 DEF RequestUnderClock
    <3>3. QED
      BY <3>1, <3>2
  <2>4. /\ handler'.id = handler.id /\ handler'.gate = handler.gate
        /\ handler'.st = "answered" => handler'.now = clock[handler.gate]
    <3>1. handler \in [st : {"off", "waiting", "answered", "destroyed"},
                       gate : Gates \cup {None}, id : Step \cup {0}, now : Clocks \cup {None}]
      BY DEF Domains
    <3>2. CASE UNCHANGED handler
      BY <1>2, <3>2 DEF RequestUnderClock
    <3>3. CASE HandlerExpires \/ Stop
      BY <1>2, <3>1, <3>3 DEF RequestUnderClock, HandlerExpires, Stop
    <3>4. CASE ResponseFrame
      <4>1. frames # <<>> /\ Head(frames).t = "RESPONSE"
        BY <3>4 DEF ResponseFrame, Arrives
      <4>2. Head(frames) \in Elems(frames)
        BY <4>1, ElemsTail DEF Domains
      <4>3. handler.id = Head(frames).id => Head(frames).now = clock[handler.gate]
        BY <1>2, <4>1, <4>2 DEF RequestUnderClock
      <4>4. QED
        BY <1>2, <3>1, <3>4, <4>3 DEF RequestUnderClock, ResponseFrame
    <3>5. QED
      BY <1>2, <3>2, <3>3, <3>4
  <2>5. QED
    BY <1>2, <2>2, <2>3, <2>4 DEF RequestUnderClock
<1>3. CASE Orchestrator
  <2>1. ASSUME ~\E g \in Gates : AskGate(g) PROVE orch' # "http"
    BY <1>3, <2>1
    DEF Orchestrator, Ask, TakeReply, TakeEof, TakeResponse, HttpGivesUp, AskStop, TakeStop
  <2>2. QED
    BY <1>1, <2>1 DEF RequestUnderClock
<1>4. CASE BridgeStep
  <2>1. UNCHANGED <<orch, issued, clock>>
    BY <1>4
    DEF BridgeStep, Boot, Client, GateInit, GateServe, GateClock, Probe, RawStatement, Serve,
        Stop, RequestFrame, OutcomeFrame, CommandFrame, ResponseFrame, ReplyClient, Tick,
        CommandExpires, HandlerExpires, RequestExpires, OutcomeExpires, orchVars
  <2>2. UNCHANGED handler \/ HandlerExpires \/ ResponseFrame \/ Stop
    BY <1>4
    DEF BridgeStep, Boot, Client, GateInit, GateServe, GateClock, Probe, RawStatement, Serve,
        RequestFrame, OutcomeFrame, CommandFrame, ReplyClient, Tick,
        CommandExpires, RequestExpires, OutcomeExpires
  <2>3. QED
    BY <1>2, <2>1, <2>2 DEF RequestUnderClock
<1>5. CASE Peer \/ Participant \/ UNCHANGED vars
  <2>1. UNCHANGED <<orch, issued, clock, handler>>
    BY <1>5
    DEF Peer, HttpEnds, HttpFails, Participant, RunBuild, RunReceive, RunDriver, RunServe,
        RunTraps, Quiet, vars, orchVars
  <2>2. QED
    BY <1>2, <2>1 DEF RequestUnderClock
<1>6. QED
  BY <1>3, <1>4, <1>5 DEF Next, Finished

-----------------------------------------------------------------------------
(* The theorems.                                                           *)

\* An answer that is in receive() is not on its way there again.
LEMMA StepFed == Domains /\ Operations /\ FedAtMostOnce /\ [Next]_vars => FedAtMostOnce'
<1> SUFFICES ASSUME Domains, Operations, FedAtMostOnce, [Next]_vars PROVE FedAtMostOnce'
  OBVIOUS
<1>1. CASE RunReceive
  <2> DEFINE i == Head(toPart).id
  <2>1. /\ toPart # <<>> /\ Head(toPart).t = "receive" /\ fed' = Append(fed, i)
    BY <1>1 DEF RunReceive, Runs
  <2>2. /\ Head(toPart) \in Elems(toPart) /\ i \in Step
    <3>1. toPart \in Seq(Statement)
      BY DEF Domains
    <3>2. Head(toPart) \in Elems(toPart) /\ Head(toPart) \in Statement
      BY <2>1, <3>1, ElemsTail
    <3>3. QED
      BY <3>2 DEF Statement
  <2>3. i \notin Elems(fed)
    BY <2>1, <2>2 DEF Operations, Operation, Carries, Work
  <2>4. /\ Len(fed') = Len(fed) + 1 /\ Len(fed) \in Nat
        /\ \A k \in 1 .. Len(fed) : fed'[k] = fed[k]
        /\ fed'[Len(fed) + 1] = i
    BY <2>1, <2>2, AppendProperties DEF Domains
  <2>5. \A k \in 1 .. Len(fed) : fed'[k] # i
    BY <2>3, <2>4 DEF Elems
  <2>6. QED
    BY <2>4, <2>5 DEF FedAtMostOnce
<1>2. CASE UNCHANGED fed
  BY <1>2 DEF FedAtMostOnce
<1>3. CASE Orchestrator
  BY <1>2, <1>3
  DEF Orchestrator, Ask, AskGate, TakeReply, TakeEof, TakeResponse, HttpGivesUp, AskStop,
      TakeStop, partVars
<1>4. CASE BridgeStep
  BY <1>2, <1>4
  DEF BridgeStep, Boot, Client, GateInit, GateServe, GateClock, Probe, RawStatement, Serve, Stop,
      RequestFrame, OutcomeFrame, CommandFrame, ResponseFrame, ReplyClient, Tick,
      CommandExpires, HandlerExpires, RequestExpires, OutcomeExpires, partVars
<1>5. CASE Peer \/ RunBuild \/ RunDriver \/ RunServe \/ RunTraps \/ UNCHANGED vars
  BY <1>2, <1>5
  DEF Peer, HttpEnds, HttpFails, RunBuild, RunDriver, RunServe, RunTraps, vars, partVars
<1>6. QED
  BY <1>1, <1>3, <1>4, <1>5 DEF Next, Participant, Finished

Inv ==
  /\ Domains /\ Pipes /\ Operations /\ FedAtMostOnce
  /\ Numbered /\ ClocksAgree /\ RequestUnderClock

LEMMA InitInv == Init => Inv
<1> SUFFICES ASSUME Init PROVE Inv
  OBVIOUS
<1>1. Domains /\ Pipes
  BY InitType, InitPipes
<1>2. Elems(toPart) = {} /\ Elems(frames) = {} /\ Elems(fed) = {}
  BY ElemsEmpty DEF Init
<1>3. ASSUME NEW i \in Step PROVE Operation(i) /\ Started(i)
  <2>1. /\ ~Carries(toPart, Work, i) /\ ~Carries(frames, Word, i)
        /\ ~Carries(toPart, {"build"}, i) /\ ~Carries(toPart, {"receive"}, i)
        /\ ~Carries(frames, {"REQUEST"}, i)
    BY <1>2 DEF Carries
  <2>2. OnceIn(toPart, Work, i) /\ OnceIn(frames, Word, i) /\ Idle(i)
    BY <2>1, NoneCarried DEF Idle
  <2>3. waiter[i] = [req |-> "off", out |-> "off"] /\ http[i] = "off" /\ result[i] = None
    BY DEF Init
  <2>4. Operation(i)
    BY <1>2, <2>1, <2>2, <2>3 DEF Operation
  <2>5. Started(i)
    BY <2>3 DEF Started, Abandoned
  <2>6. QED
    BY <2>4, <2>5
<1>4. FedAtMostOnce
  BY DEF Init, FedAtMostOnce
<1>5. Numbered
  BY <1>2 DEF Numbered
<1>6. ClocksAgree /\ RequestUnderClock
  BY DEF Init, ClocksAgree, RequestUnderClock
<1>7. QED
  BY <1>1, <1>3, <1>4, <1>5, <1>6 DEF Inv, Operations

LEMMA StepInv == Inv /\ [Next]_vars => Inv'
<1> SUFFICES ASSUME Inv, [Next]_vars PROVE Inv'
  OBVIOUS
<1>1. Domains' /\ Pipes'
  BY StepType, StepPipes DEF Inv
<1>2. ASSUME NEW i \in Step PROVE Operation(i)' /\ Started(i)'
  BY StepOperation, StepStarted DEF Inv
<1>3. Operations'
  BY <1>2 DEF Operations
<1>4. FedAtMostOnce' /\ Numbered' /\ ClocksAgree' /\ RequestUnderClock'
  BY StepFed, StepNumbered, StepClocks, StepRequest DEF Inv
<1>5. QED
  BY <1>1, <1>3, <1>4 DEF Inv

\* The invariant of the bridge and its orchestrator.
THEOREM BridgeInvariant == Spec => []Inv
<1>1. QED
  BY InitInv, StepInv, PTL DEF Spec

\* Every variable stays in its domain, and a client operation that has not settled is
\* the command the loop is on (motoko_bridge.js: main; gates.py).
THEOREM TypeCorrect == Spec => []TypeOK
<1>1. ASSUME Inv PROVE TypeOK
  <2>1. Domains
    BY <1>1 DEF Inv
  <2>2. /\ cur # None <=> bridge \in {"client", "gateInit", "probe"}
        /\ cur # None => cur.op = bridge
    BY <1>1 DEF Inv, Pipes, Busy
  <2>3. \A i \in Step : waiter[i].out # "off" /\ result[i] = None
                          => bridge = "client" /\ cur.id = i
    BY <1>1 DEF Inv, Operations, Started
  <2>4. QED
    BY <2>1, <2>2, <2>3 DEF TypeOK
<1>2. QED
  BY <1>1, BridgeInvariant, PTL

\* The reply line that is read answers the command that is waited for
\* (MotokoBridge.cmd): one command is in flight, whatever failed before it.
THEOREM RepliesMatch == Spec => []ReplyMatchesCommand
<1>1. ASSUME Inv PROVE ReplyMatchesCommand
  <2>1. Pipes /\ stdin \in Seq(Command) /\ stdout \in Seq(Reply)
    BY <1>1 DEF Inv, Domains
  <2>2. Len(<<>>) = 0
    OBVIOUS
  <2>3. Len(stdin) + Len(stdout) + (IF cur = None THEN 0 ELSE 1) <= 1
    <3>1. /\ stdin = <<>> \/ (Len(stdin) = 1 /\ stdout = <<>> /\ cur = None)
          /\ stdout = <<>> \/ (Len(stdout) = 1 /\ cur = None)
      BY <2>1 DEF Pipes
    <3>2. CASE stdin = <<>> /\ stdout = <<>>
      BY <2>2, <3>2
    <3>3. CASE stdin # <<>>
      <4>1. Len(stdin) = 1 /\ Len(stdout) = 0 /\ cur = None
        BY <2>2, <3>1, <3>3
      <4>2. QED
        BY <4>1
    <3>4. CASE stdin = <<>> /\ stdout # <<>>
      BY <2>2, <3>1, <3>4
    <3>5. QED
      BY <3>2, <3>3, <3>4
  <2>4. orch \in {"ready", "http", "failed"} => stdin = <<>> /\ stdout = <<>> /\ cur = None
    BY <2>1, NothingInFlight
  <2>5. ASSUME NEW k \in 1 .. Len(stdout)
        PROVE  stdout[k].cmd.id = (IF orch = "stopping" THEN 0 ELSE issued)
    <3>1. stdout # <<>>
      BY <2>2, <2>5
    <3>2. Len(stdout) = 1 /\ k = 1
      <4>1. Len(stdout) = 1
        BY <2>1, <3>1 DEF Pipes
      <4>2. QED
        BY <2>5, <4>1
    <3>3. Head(stdout) = stdout[k]
      BY <2>1, <3>1, <3>2
    <3>4. QED
      BY <2>1, <3>1, <3>3 DEF Pipes, Due
  <2>6. QED
    BY <2>3, <2>4, <2>5 DEF ReplyMatchesCommand
<1>2. QED
  BY <1>1, BridgeInvariant, PTL

\* A successful result is a refusal or the classification of the operation's
\* own answer (bridgeClientOperation, motoko_bridge.js:80-83).
THEOREM ResultsCohere == Spec => []ResultIsCoherent
<1>1. ASSUME Inv PROVE ResultIsCoherent
  <2>1. \A i \in Step : i \in Elems(fed) => \E k \in 1 .. Len(fed) : fed[k] = i
    BY DEF Elems
  <2>2. QED
    BY <1>1, <2>1 DEF Inv, Operations, Operation, ResultIsCoherent
<1>2. QED
  BY <1>1, BridgeInvariant, PTL

\* An answer goes at most once into receive(), whichever deadline fired before
\* it came (the res 'end' callback).
THEOREM AnswersFedOnce == Spec => []FedAtMostOnce
<1>1. Inv => FedAtMostOnce
  BY DEF Inv
<1>2. QED
  BY <1>1, BridgeInvariant, PTL

\* Once an operation is abandoned the orchestrator records no successful reply
\* any more, so no late change of the participant is in one (cmd, stop).
THEOREM RepliesUntainted == Spec => []NoTaintedReply
<1>1. ASSUME Inv PROVE NoTaintedReply
  <2> SUFFICES ASSUME NEW i \in Step, Abandoned(i), NEW k \in 1 .. Len(stdout), stdout[k].ok
               PROVE  stdout[k].cmd.op = "stop"
    BY DEF NoTaintedReply
  <2>1. Pipes /\ Started(i) /\ stdout \in Seq(Reply) /\ Len(<<>>) = 0
    BY <1>1 DEF Inv, Operations, Domains
  <2>2. stdout # <<>> /\ k = 1 /\ cur = None /\ orch \in {"awaiting", "stopping"}
    BY <2>1 DEF Pipes
  <2>3. Head(stdout) = stdout[k]
    BY <2>1, <2>2
  <2>4. bridge # "client"
    BY <2>1, <2>2 DEF Pipes, Busy
  <2>5. orch = "stopping"
    BY <2>1, <2>2, <2>3, <2>4 DEF Started
  <2>6. QED
    BY <2>1, <2>2, <2>3, <2>5 DEF Pipes
<1>2. QED
  BY <1>1, BridgeInvariant, PTL

\* A gate answers under the scenario clock that was last acknowledged (gates G1).
THEOREM GateAnswersUnderAckedClock == Spec => []ServedUnderAckedClock
<1>1. Inv => ServedUnderAckedClock
  BY DEF Inv, RequestUnderClock, ServedUnderAckedClock
<1>2. QED
  BY <1>1, BridgeInvariant, PTL

\* No exchange opens after its operation was replied to: with the deadlines in
\* the code's order the request waiter is gone by then (waitFrame).
THEOREM RequestsBeforeReply == Spec => NoRequestAfterReply
<1>1. ASSUME Inv, [Next]_vars, NEW i \in Step, http[i] = "off", http'[i] = "open"
      PROVE  bridge = "client" /\ cur.id = i /\ result[i] = None
  <2>1. /\ Operation(i) /\ Started(i)
        /\ http \in [Step -> {"off", "open", "ended", "lost"}]
    BY <1>1 DEF Inv, Operations, Domains
  <2>2. CASE RequestFrame
    <3>1. /\ frames # <<>> /\ Head(frames).t = "REQUEST" /\ Head(frames).id = i
          /\ waiter[i].req = "waiting"
      BY <1>1, <2>1, <2>2 DEF RequestFrame, Arrives
    <3>2. Head(frames) \in Elems(frames)
      BY <1>1, <3>1, ElemsTail DEF Inv, Domains
    <3>3. Carries(frames, Word, i) /\ ~Idle(i)
      BY <3>1, <3>2 DEF Carries, Word, Idle
    <3>4. result[i] = None /\ waiter[i].out # "off"
      BY <2>1, <3>1, <3>3 DEF Operation
    <3>5. QED
      BY <2>1, <3>4 DEF Started
  <2>3. ASSUME NEW j \in Step, HttpEnds(j) \/ HttpFails(j) PROVE FALSE
    BY <1>1, <2>1, <2>3 DEF HttpEnds, HttpFails
  <2>4. ASSUME UNCHANGED http PROVE FALSE
    BY <1>1, <2>4
  <2>5. CASE Orchestrator
    BY <2>4, <2>5
    DEF Orchestrator, Ask, AskGate, TakeReply, TakeEof, TakeResponse, HttpGivesUp, AskStop,
        TakeStop, opVars
  <2>6. CASE BridgeStep /\ ~RequestFrame
    BY <2>4, <2>6
    DEF BridgeStep, Boot, Client, GateInit, GateServe, GateClock, Probe, RawStatement, Serve,
        Stop, OutcomeFrame, CommandFrame, ResponseFrame, ReplyClient, Tick,
        CommandExpires, HandlerExpires, RequestExpires, OutcomeExpires, opVars
  <2>7. CASE Participant \/ UNCHANGED vars
    BY <2>4, <2>7
    DEF Participant, RunBuild, RunReceive, RunDriver, RunServe, RunTraps, Quiet, vars, opVars
  <2>8. QED
    BY <1>1, <2>2, <2>3, <2>5, <2>6, <2>7 DEF Next, Peer, Finished
<1>2. Inv /\ [Next]_vars => [\A i \in Step : http[i] = "off" /\ http'[i] = "open"
                               => bridge = "client" /\ cur.id = i /\ result[i] = None]_vars
  BY <1>1
<1>3. QED
  BY <1>2, BridgeInvariant, PTL DEF Spec, NoRequestAfterReply
=============================================================================
