------------------------- MODULE LiveExchange_proofs -------------------------
(***************************************************************************)
(* For any well-formed scripts, departures and number of failures and      *)
(* attempts: where the script stands, what is still served when a campaign *)
(* ends, and whose bytes a check through the shim reads.                   *)
(***************************************************************************)
EXTENDS LiveExchange, SequenceTheorems, TLAPS

\* Where the script stands.
Progress ==
  /\ campaign \in DOMAIN Scripts
  /\ pc \in 1 .. Len(Script) + 1
  /\ ending \in {"running", "raised", "report"}
  /\ ending = "report" => pc = Len(Script) + 1
  /\ ending = "raised" => pc \in DOMAIN Script
  /\ failed \subseteq DOMAIN Script /\ misread \subseteq DOMAIN Script

\* What is served has been started by the steps so far and not been stopped; when a
\* step has raised, the finallys around it have stopped theirs.
Left(n) ==
  \/ n \in MayServe(Script, pc) \ Now.guard
  \/ Starts(Now) /\ Now.at = n
Served ==
  /\ clock = [n \in Nodes |-> clock[n]]
  /\ ending = "running" => \A n \in Nodes : clock[n] # None => n \in MayServe(Script, pc)
  /\ ending = "raised" => Now.op # "stop" /\ \A n \in Nodes : clock[n] # None => Left(n)
  /\ ending = "report" => \A n \in Nodes : clock[n] = None

\* Requests wait at the shim in the order of their steps; that of the step the
\* script is at is the last one, and its client is still waiting.
Queued ==
  /\ queue \in Seq(Nat)
  /\ \A i \in 1 .. Len(queue) : queue[i] <= pc /\ (queue[i] = pc /\ ending = "running" => waiting)
  /\ \A i, j \in 1 .. Len(queue) : i < j => queue[i] < queue[j]
  /\ handler # None => queue # <<>> /\ handler[1] = Head(queue)

\* A client that was answered is that of the step the script is at, no request is
\* left at the shim, and the last capture is that of its exchange.
Heard ==
  /\ waiting => pc \in DOMAIN Script /\ ViaShim(Now)
  /\ heard # None => waiting
  /\ heard # None /\ heard # <<"failed">> => queue = <<>> /\ capture # None /\ capture[1] = pc

Inv == Progress /\ Served /\ Queued /\ Heard /\ MisreadsFail

\* Only a failure leaves a command in the session's log that fails.
Logged == poisoned => hurt

-----------------------------------------------------------------------------
(* The scripts.                                                            *)

LEMMA ScriptFacts ==
  ASSUME campaign \in DOMAIN Scripts
  PROVE  WellFormed(campaign, Script)
BY LiveAssumption DEF Script

LEMMA ScriptDomain ==
  ASSUME campaign \in DOMAIN Scripts
  PROVE  Len(Script) \in Nat /\ DOMAIN Script = 1 .. Len(Script)
BY ScriptFacts DEF WellFormed

\* A step adds what it starts to what may be served, and takes what it stops.
LEMMA MayServeNext ==
  ASSUME NEW script, NEW k \in Nat \ {0}, NEW n \in Nodes,
         Opens(script[k], n) \/ (n \in MayServe(script, k) /\ ~Closes(script[k], n))
  PROVE  n \in MayServe(script, k + 1)
<1>1. CASE Opens(script[k], n)
  <2>1. k \in 1 .. (k + 1) - 1 /\ k + 1 .. (k + 1) - 1 = {}
    OBVIOUS
  <2>2. QED
    BY <1>1, <2>1 DEF MayServe
<1>2. CASE n \in MayServe(script, k) /\ ~Closes(script[k], n)
  <2>1. PICK j \in 1 .. k - 1 : /\ Opens(script[j], n)
                               /\ \A i \in j + 1 .. k - 1 : ~Closes(script[i], n)
    BY <1>2 DEF MayServe
  <2>2. j \in 1 .. (k + 1) - 1 /\ \A i \in j + 1 .. (k + 1) - 1 : i \in j + 1 .. k - 1 \/ i = k
    OBVIOUS
  <2>3. \A i \in j + 1 .. (k + 1) - 1 : ~Closes(script[i], n)
    BY <1>2, <2>1, <2>2
  <2>4. QED
    BY <2>1, <2>2, <2>3 DEF MayServe
<1>3. QED
  BY <1>1, <1>2

\* The clocks after a step are of what the step starts, or of what it leaves.
LEMMA ClockedForm ==
  ASSUME NEW s, clock = [m \in Nodes |-> clock[m]]
  PROVE  Clocked(s, clock) = [m \in Nodes |-> Clocked(s, clock)[m]]
<1>1. CASE s.op \in {"serve", "reclock"}
  <2>1. Clocked(s, clock) = [clock EXCEPT ![s.at] = s.now]
    BY <1>1 DEF Clocked
  <2>2. QED
    BY <2>1
<1>2. CASE s.op = "stop"
  <2>1. Clocked(s, clock) = [m \in Nodes |-> IF m \in s.at THEN None ELSE clock[m]]
    BY <1>2 DEF Clocked
  <2>2. QED
    BY <2>1
<1>3. CASE s.op = "seed" /\ s.at = "iso"
  <2>1. Clocked(s, clock) = [clock EXCEPT !["iso"] = Recipient]
    BY <1>3 DEF Clocked
  <2>2. QED
    BY <2>1
<1>4. CASE /\ s.op \notin {"serve", "reclock", "stop"}
           /\ ~(s.op = "seed" /\ s.at = "iso")
  <2>1. Clocked(s, clock) = clock
    BY <1>4 DEF Clocked
  <2>2. QED
    BY <2>1
<1>5. QED
  BY <1>1, <1>2, <1>3, <1>4

LEMMA ClockedNodes ==
  ASSUME NEW s, NEW n \in Nodes, clock = [m \in Nodes |-> clock[m]], Clocked(s, clock)[n] # None
  PROVE  Opens(s, n) \/ (clock[n] # None /\ ~Closes(s, n))
<1>1. CASE s.op \in {"serve", "reclock"}
  <2>1. Clocked(s, clock) = [clock EXCEPT ![s.at] = s.now]
    BY <1>1 DEF Clocked
  <2>2. QED
    BY <1>1, <2>1 DEF Opens, Closes
<1>2. CASE s.op = "stop"
  <2>1. Clocked(s, clock) = [m \in Nodes |-> IF m \in s.at THEN None ELSE clock[m]]
    BY <1>2 DEF Clocked
  <2>2. QED
    BY <1>2, <2>1 DEF Closes
<1>3. CASE s.op = "seed" /\ s.at = "iso"
  <2>1. Clocked(s, clock) = [clock EXCEPT !["iso"] = Recipient]
    BY <1>3 DEF Clocked
  <2>2. QED
    BY <1>3, <2>1 DEF Opens, Closes
<1>4. CASE /\ s.op \notin {"serve", "reclock", "stop"}
           /\ ~(s.op = "seed" /\ s.at = "iso")
  <2>1. Clocked(s, clock) = clock
    BY <1>4 DEF Clocked
  <2>2. QED
    BY <1>4, <2>1 DEF Closes
<1>5. QED
  BY <1>1, <1>2, <1>3, <1>4

-----------------------------------------------------------------------------
(* Each part of the invariant.                                             *)

LEMMA InitInv == Init => Inv
<1> SUFFICES ASSUME Init PROVE Inv
  OBVIOUS
<1>1. campaign \in DOMAIN Scripts /\ pc = 1 /\ ending = "running" /\ failed = {} /\ misread = {}
  BY DEF Init, StartsAt
<1>2. Len(Script) \in Nat
  BY <1>1, ScriptDomain
<1>3. clock = [n \in Nodes |-> None]
  BY DEF Init
<1>4. /\ waiting = FALSE /\ queue = <<>> /\ handler = None /\ heard = None
  BY DEF Init, StartsAt
<1>5. Progress
  BY <1>1, <1>2 DEF Progress
<1>6. Served
  BY <1>1, <1>3 DEF Served
<1>7. Queued
  BY <1>4 DEF Queued
<1>8. Heard /\ MisreadsFail
  BY <1>1, <1>4 DEF Heard, MisreadsFail
<1>9. QED
  BY <1>5, <1>6, <1>7, <1>8 DEF Inv

LEMMA StepFacts ==
  ASSUME Progress, Running
  PROVE  /\ pc \in DOMAIN Script /\ pc \in Nat \ {0} /\ Len(Script) \in Nat
         /\ DOMAIN Script = 1 .. Len(Script) /\ pc + 1 \in 1 .. Len(Script) + 1
<1>1. Len(Script) \in Nat /\ DOMAIN Script = 1 .. Len(Script)
  BY ScriptDomain DEF Progress
<1>2. QED
  BY <1>1 DEF Progress, Running

\* The script goes on, under the clocks of the step or under those before it.
LEMMA GoesOn ==
  ASSUME Progress, Served, Running, campaign' = campaign, pc' = pc + 1, ending' = ending,
         failed' \in {failed, failed \cup {pc}}, misread' \in {misread, misread \cup {pc}},
         clock' = Clocked(Now, clock) \/ (clock' = clock /\ Now.op # "stop")
  PROVE  Progress' /\ Served'
<1>1. Script' = Script /\ ending = "running" /\ ending' = "running"
  BY DEF Script, Running
<1>2. Progress'
  BY <1>1, StepFacts DEF Progress
<1>3. clock' = [n \in Nodes |-> clock'[n]]
  <2>1. CASE clock' = Clocked(Now, clock)
    <3>1. Clocked(Now, clock) = [n \in Nodes |-> Clocked(Now, clock)[n]]
      BY ClockedForm DEF Served
    <3> DEFINE c == Clocked(Now, clock)
    <3> HIDE DEF c
    <3>2. clock' = c /\ c = [n \in Nodes |-> c[n]]
      BY <2>1, <3>1 DEF c
    <3>3. QED
      BY <3>2
  <2>2. CASE clock' = clock
    BY <2>2 DEF Served
  <2>3. QED
    BY <2>1, <2>2
<1>4. ASSUME NEW n \in Nodes, clock'[n] # None PROVE n \in MayServe(Script, pc + 1)
  <2>1. Opens(Now, n) \/ (clock[n] # None /\ ~Closes(Now, n))
    <3>1. CASE clock' = Clocked(Now, clock)
      BY <1>4, <3>1, ClockedNodes DEF Served
    <3>2. CASE clock' = clock /\ Now.op # "stop"
      BY <1>4, <3>2 DEF Closes
    <3>3. QED
      BY <3>1, <3>2
  <2>2. clock[n] # None => n \in MayServe(Script, pc)
    BY <1>1 DEF Served
  <2>3. Opens(Script[pc], n) \/ (n \in MayServe(Script, pc) /\ ~Closes(Script[pc], n))
    BY <2>1, <2>2 DEF Now
  <2>4. QED
    BY <2>3, StepFacts, MayServeNext
<1>5. MayServe(Script, pc)' = MayServe(Script, pc + 1)
  BY <1>1 DEF MayServe
<1>6. Served'
  BY <1>1, <1>3, <1>4, <1>5 DEF Served
<1>7. QED
  BY <1>2, <1>6

\* A step that is not the end of a section raises, and its finallys run.
LEMMA Unwinds ==
  ASSUME Progress, Served, Running, Now.op # "stop", UNCHANGED <<campaign, pc, failed, misread>>,
         ending' = "raised",
         \/ clock' = Unwound(Now.guard)
         \/ Starts(Now) /\ clock' = [Unwound(Now.guard) EXCEPT ![Now.at] = Now.now]
  PROVE  Progress' /\ Served'
<1>1. Script' = Script /\ ending = "running" /\ Now' = Now
  BY DEF Script, Running, Now
<1>2. Progress'
  BY <1>1, StepFacts DEF Progress
<1>3. clock' = [n \in Nodes |-> clock'[n]]
  BY DEF Unwound
<1>4. MayServe(Script, pc)' = MayServe(Script, pc)
  BY <1>1 DEF MayServe
<1>5. ASSUME NEW n \in Nodes, clock'[n] # None PROVE Left(n)
  <2>1. (clock[n] # None /\ n \notin Now.guard) \/ (Starts(Now) /\ Now.at = n)
    BY <1>5 DEF Unwound
  <2>2. clock[n] # None => n \in MayServe(Script, pc)
    BY <1>1 DEF Served
  <2>3. CASE clock[n] # None /\ n \notin Now.guard
    <3>1. n \in MayServe(Script, pc) \ Now.guard
      BY <2>2, <2>3
    <3>2. QED
      BY <3>1 DEF Left
  <2>4. CASE Starts(Now) /\ Now.at = n
    BY <2>4 DEF Left
  <2>5. QED
    BY <2>1, <2>3, <2>4
<1>6. \A n \in Nodes : Left(n)' <=> Left(n)
  BY <1>1, <1>4 DEF Left
<1>7. Served'
  BY <1>1, <1>3, <1>5, <1>6 DEF Served
<1>8. QED
  BY <1>2, <1>7

\* Nothing of the script moves.
LEMMA StandsStill ==
  ASSUME Progress, Served, UNCHANGED <<campaign, pc, failed, misread, clock, ending>>
  PROVE  Progress' /\ Served'
<1>1. Script' = Script /\ Now' = Now
  BY DEF Script, Now
<1>2. MayServe(Script, pc)' = MayServe(Script, pc)
  BY <1>1 DEF MayServe
<1>3. \A n \in Nodes : Left(n)' <=> Left(n)
  BY <1>1, <1>2 DEF Left
<1>4. Progress'
  BY <1>1 DEF Progress
<1>5. Served'
  BY <1>1, <1>2, <1>3 DEF Served
<1>6. QED
  BY <1>4, <1>5

\* The main thread leaves the shim alone while no client of its step is waiting.
LEMMA ShimStands ==
  ASSUME Progress, Queued, Heard, UNCHANGED <<waiting, queue, handler, capture, heard>>, campaign' = campaign,
         \/ pc' = pc /\ ending' \in {ending, "raised", "report"}
         \/ Running /\ ~ViaShim(Now) /\ pc' = pc + 1 /\ ending' = ending
  PROVE  Queued' /\ Heard'
<1>1. Script' = Script
  BY DEF Script
<1>2. Queued'
  <2>1. ~waiting \/ pc' = pc
    BY DEF Heard
  <2>2. \A i \in 1 .. Len(queue) : queue[i] \in Nat
    BY DEF Queued
  <2>3. pc \in Nat
    BY ScriptDomain DEF Progress
  <2>4. \A i \in 1 .. Len(queue) : queue[i] <= pc' /\ (queue[i] = pc' /\ ending' = "running" => waiting)
    BY <2>1, <2>2, <2>3 DEF Queued
  <2>5. QED
    BY <2>4 DEF Queued
<1>3. Heard'
  <2>1. CASE pc' = pc
    BY <1>1, <2>1 DEF Heard, Now
  <2>2. CASE Running /\ ~ViaShim(Now)
    BY <1>1, <2>2 DEF Heard, Now
  <2>3. QED
    BY <2>1, <2>2
<1>4. QED
  BY <1>2, <1>3

LEMMA MainSteps ==
  ASSUME Inv, Do \/ CliFails \/ Raises \/ StartRaises \/ Report
  PROVE  Inv'
<1>0. Progress /\ Served /\ Queued /\ Heard /\ MisreadsFail
  BY DEF Inv
<1>1. CASE Do
  <2>1. /\ Running /\ ~ViaShim(Now) /\ NeedsShim(Now)
        /\ campaign' = campaign /\ pc' = pc + 1 /\ ending' = ending /\ clock' = Clocked(Now, clock)
        /\ failed' \in {failed, failed \cup {pc}} /\ misread' = misread
        /\ UNCHANGED <<waiting, handler, heard>>
    BY <1>1 DEF Do, Check, shim
  <2>2. Progress' /\ Served'
    BY <1>0, <2>1, GoesOn
  <2>3. MisreadsFail'
    BY <1>0, <2>1 DEF MisreadsFail
  <2>4. CASE Now.op = "stop"
    <3>1. queue' = <<>> /\ handler = None
      BY <1>1, <2>1, <2>4 DEF Do, NeedsShim, Idle
    <3>2. ~waiting /\ heard = None
      BY <1>0, <2>1 DEF Heard
    <3>3. Queued'
      BY <2>1, <3>1 DEF Queued
    <3>4. Heard'
      BY <2>1, <3>2 DEF Heard
    <3>5. QED
      BY <2>2, <2>3, <3>3, <3>4 DEF Inv
  <2>5. CASE Now.op # "stop"
    <3>1. UNCHANGED <<queue, capture>>
      BY <1>1, <2>5 DEF Do, shim
    <3>2. QED
      BY <1>0, <2>1, <2>2, <2>3, <3>1, ShimStands DEF Inv
  <2>6. QED
    BY <2>4, <2>5
<1>2. CASE CliFails
  <2>1. /\ Running /\ ~ViaShim(Now) /\ Now.soft
        /\ campaign' = campaign /\ pc' = pc + 1 /\ ending' = ending /\ clock' = clock
        /\ failed' = failed \cup {pc} /\ misread' = misread
        /\ UNCHANGED <<waiting, queue, handler, capture, heard>>
    BY <1>2 DEF CliFails, shim
  <2>2. Now.op # "stop"
    BY <1>0, <2>1, StepFacts, ScriptFacts DEF WellFormed, Progress, Now
  <2>3. Progress' /\ Served'
    BY <1>0, <2>1, <2>2, GoesOn
  <2>4. Queued' /\ Heard'
    BY <1>0, <2>1, ShimStands
  <2>5. MisreadsFail'
    BY <1>0, <2>1 DEF MisreadsFail
  <2>6. QED
    BY <2>3, <2>4, <2>5 DEF Inv
<1>3. CASE Raises \/ StartRaises
  <2>1. /\ Running /\ ending' = "raised" /\ Now.op # "stop"
        /\ UNCHANGED <<campaign, pc, failed, misread, waiting, queue, handler, capture, heard>>
    BY <1>3 DEF Raises, StartRaises, Starts, shim
  <2>2. \/ clock' = Unwound(Now.guard)
        \/ Starts(Now) /\ clock' = [Unwound(Now.guard) EXCEPT ![Now.at] = Now.now]
    BY <1>3 DEF Raises, StartRaises
  <2>3. Progress' /\ Served'
    BY <1>0, <2>1, <2>2, Unwinds
  <2>4. Queued' /\ Heard'
    BY <1>0, <2>1, ShimStands
  <2>5. MisreadsFail'
    BY <1>0, <2>1 DEF MisreadsFail
  <2>6. QED
    BY <2>3, <2>4, <2>5 DEF Inv
<1>4. CASE Report
  <2>1. /\ ending = "running" /\ pc > Len(Script) /\ ending' = "report"
        /\ UNCHANGED <<campaign, pc, failed, misread, clock, waiting, queue, handler, capture, heard>>
    BY <1>4 DEF Report, shim
  <2>2. Script' = Script /\ Len(Script) \in Nat /\ pc = Len(Script) + 1
    <3>1. Len(Script) \in Nat /\ pc \in 1 .. Len(Script) + 1
      BY <1>0, ScriptDomain DEF Progress
    <3>2. QED
      BY <2>1, <3>1 DEF Script
  <2>3. Progress'
    BY <1>0, <2>1, <2>2 DEF Progress
  <2>4. MayServe(Script, pc) = {}
    BY <1>0, <2>2, ScriptFacts DEF WellFormed, Progress
  <2>5. Served'
    BY <1>0, <2>1, <2>4 DEF Served
  <2>6. Queued' /\ Heard'
    BY <1>0, <2>1, ShimStands
  <2>7. MisreadsFail'
    BY <1>0, <2>1 DEF MisreadsFail
  <2>8. QED
    BY <2>3, <2>5, <2>6, <2>7 DEF Inv
<1>5. QED
  BY <1>1, <1>2, <1>3, <1>4

LEMMA AgainStep == ASSUME Inv, Again PROVE Inv'
<1>1. campaign \in DOMAIN Scripts
  BY DEF Inv, Progress
<1>2. Script' = Script /\ Len(Script) \in Nat
  BY <1>1, ScriptDomain DEF Again, Script
<1>3. Progress'
  BY <1>1, <1>2 DEF Again, Progress
<1>4. Served'
  BY DEF Again, Served
<1>5. Queued'
  BY DEF Again, Queued
<1>6. Heard' /\ MisreadsFail'
  BY DEF Again, Heard, MisreadsFail
<1>7. QED
  BY <1>3, <1>4, <1>5, <1>6 DEF Inv

-----------------------------------------------------------------------------
(* The shim.                                                               *)

\* What is left after the first request is still in order.
LEMMA QueueTail ==
  ASSUME Queued, queue # <<>>
  PROVE  /\ Head(queue) \in Nat /\ Head(queue) <= pc /\ Tail(queue) \in Seq(Nat)
         /\ \A i \in 1 .. Len(Tail(queue)) :
              /\ Tail(queue)[i] <= pc /\ Head(queue) < Tail(queue)[i]
              /\ Tail(queue)[i] = pc /\ ending = "running" => waiting
         /\ \A i, j \in 1 .. Len(Tail(queue)) : i < j => Tail(queue)[i] < Tail(queue)[j]
<1>1. queue \in Seq(Nat) /\ Len(queue) \in Nat \ {0}
  BY DEF Queued
<1>2. /\ Head(queue) = queue[1] /\ Tail(queue) \in Seq(Nat) /\ Len(Tail(queue)) = Len(queue) - 1
      /\ \A i \in 1 .. Len(queue) - 1 : Tail(queue)[i] = queue[i + 1]
  BY <1>1
<1>3. \A i \in 1 .. Len(queue) - 1 : i + 1 \in 1 .. Len(queue)
  BY <1>1
<1>4. 1 \in 1 .. Len(queue) /\ \A i \in 1 .. Len(queue) - 1 : 1 < i + 1
  BY <1>1
<1>5. \A i \in 1 .. Len(queue) - 1 : Head(queue) < Tail(queue)[i]
  BY <1>2, <1>3, <1>4 DEF Queued
<1>6. \A i, j \in 1 .. Len(queue) - 1 : i < j => Tail(queue)[i] < Tail(queue)[j]
  <2>1. \A i, j \in 1 .. Len(queue) - 1 : i < j => i + 1 < j + 1
    BY <1>1
  <2>2. QED
    BY <1>2, <1>3, <2>1 DEF Queued
<1>7. \A i \in 1 .. Len(queue) - 1 :
        Tail(queue)[i] <= pc /\ (Tail(queue)[i] = pc /\ ending = "running" => waiting)
  BY <1>2, <1>3 DEF Queued
<1>8. Head(queue) \in Nat /\ Head(queue) <= pc
  BY <1>1, <1>2, <1>4 DEF Queued
<1>9. QED
  BY <1>2, <1>5, <1>6, <1>7, <1>8

\* The last request at the shim is that of the step the script is at.
LEMMA LastRequest ==
  ASSUME Queued, queue # <<>>, Head(queue) = pc
  PROVE  Tail(queue) = <<>>
<1>1. SUFFICES ASSUME Tail(queue) # <<>> PROVE FALSE
  OBVIOUS
<1>2. 1 \in 1 .. Len(Tail(queue))
  BY <1>1, QueueTail
<1>3. Tail(queue)[1] \in Nat /\ Head(queue) < Tail(queue)[1] /\ Tail(queue)[1] <= pc
  BY <1>2, QueueTail
<1>4. pc \in Nat
  BY QueueTail
<1>5. PICK h \in Nat, x \in Nat : h = pc /\ h < x /\ x <= pc
  <2>1. Head(queue) = pc
    OBVIOUS
  <2>2. Head(queue) \in Nat
    BY <1>4, <2>1
  <2>3. QED
    BY <1>3, <2>1, <2>2
<1>6. QED
  BY <1>5

LEMMA SendStep == ASSUME Inv, Send PROVE Inv'
<1>0. Progress /\ Served /\ Queued /\ Heard /\ MisreadsFail
  BY DEF Inv
<1>1. /\ Running /\ ViaShim(Now) /\ ~waiting /\ waiting' = TRUE /\ queue' = Append(queue, pc)
      /\ UNCHANGED <<campaign, pc, failed, clock, ending, handler, capture, heard, misread>>
  BY DEF Send
<1>2. Progress' /\ Served'
  BY <1>0, <1>1, StandsStill
<1>3. heard = None
  BY <1>0, <1>1 DEF Heard
<1>4. pc \in DOMAIN Script /\ pc \in Nat
  BY <1>0, <1>1, StepFacts
<1>5. Heard'
  <2>1. Script' = Script
    BY <1>1 DEF Script
  <2>2. QED
    BY <1>1, <1>3, <1>4, <2>1 DEF Heard, Now
<1>6. Queued'
  <2>1. queue \in Seq(Nat) /\ Len(queue) \in Nat
    BY <1>0 DEF Queued
  <2>2. /\ queue' \in Seq(Nat) /\ Len(queue') = Len(queue) + 1 /\ queue'[Len(queue) + 1] = pc
        /\ \A i \in 1 .. Len(queue) : queue'[i] = queue[i]
    BY <1>1, <1>4, <2>1
  <2>3. \A i \in 1 .. Len(queue) : queue[i] \in Nat /\ queue[i] < pc
    <3>1. ASSUME NEW i \in 1 .. Len(queue) PROVE queue[i] \in Nat /\ queue[i] < pc
      <4>1. queue[i] \in Nat /\ queue[i] <= pc /\ queue[i] # pc
        BY <1>0, <1>1, <2>1 DEF Queued, Running
      <4>2. QED
        BY <1>4, <4>1
    <3>2. QED
      BY <3>1
  <2>4. \A i \in 1 .. Len(queue') : i \in 1 .. Len(queue) \/ i = Len(queue) + 1
    BY <2>1, <2>2
  <2>5. \A i \in 1 .. Len(queue') : queue'[i] <= pc
    BY <1>4, <2>2, <2>3, <2>4
  <2>6. ASSUME NEW i \in 1 .. Len(queue'), NEW j \in 1 .. Len(queue'), i < j
        PROVE  queue'[i] < queue'[j]
    <3>1. i \in 1 .. Len(queue)
      BY <2>1, <2>2, <2>6
    <3>2. CASE j \in 1 .. Len(queue)
      BY <1>0, <2>2, <2>6, <3>1, <3>2 DEF Queued
    <3>3. CASE j = Len(queue) + 1
      BY <2>2, <2>3, <3>1, <3>3
    <3>4. QED
      BY <2>4, <3>2, <3>3
  <2>7. handler # None => queue' # <<>> /\ handler[1] = Head(queue')
    <3>1. SUFFICES ASSUME handler # None PROVE queue' # <<>> /\ handler[1] = Head(queue')
      OBVIOUS
    <3>2. queue # <<>> /\ handler[1] = Head(queue)
      BY <1>0, <3>1 DEF Queued
    <3>3. 1 \in 1 .. Len(queue) /\ Head(queue) = queue[1]
      BY <2>1, <3>2
    <3>4. queue' # <<>> /\ Head(queue') = queue'[1]
      BY <2>1, <2>2
    <3>5. QED
      BY <2>2, <3>2, <3>3, <3>4
  <2>8. QED
    BY <1>1, <2>2, <2>5, <2>6, <2>7 DEF Queued
<1>7. MisreadsFail'
  BY <1>0, <1>1 DEF MisreadsFail
<1>8. QED
  BY <1>2, <1>5, <1>6, <1>7 DEF Inv

LEMMA HandlerSteps ==
  ASSUME Inv, HandlerRuns \/ HandlerReplies \/ HandlerFails \/ ClientGivesUp
  PROVE  Inv'
<1>0. Progress /\ Served /\ Queued /\ Heard /\ MisreadsFail
  BY DEF Inv
<1>a. UNCHANGED <<campaign, pc, failed, misread, clock, ending, waiting>>
  BY DEF HandlerRuns, HandlerReplies, HandlerFails, ClientGivesUp
<1>b. Progress' /\ Served' /\ MisreadsFail'
  BY <1>0, <1>a, StandsStill DEF MisreadsFail
<1>c. waiting => pc \in DOMAIN Script' /\ ViaShim(Now)'
  BY <1>0, <1>a DEF Heard, Now, Script
<1>1. CASE HandlerRuns
  <2>1. /\ queue # <<>> /\ handler'[1] = Head(queue)
        /\ UNCHANGED <<queue, capture, heard>>
    BY <1>1 DEF HandlerRuns
  <2>2. Queued'
    BY <1>0, <1>a, <2>1 DEF Queued
  <2>3. Heard'
    BY <1>0, <1>a, <1>c, <2>1 DEF Heard
  <2>4. QED
    BY <1>b, <2>2, <2>3 DEF Inv
<1>2. CASE HandlerReplies
  <2>1. /\ handler # None /\ capture' = handler /\ queue' = Tail(queue) /\ handler' = None
        /\ heard' = IF waiting /\ heard = None /\ handler[1] = pc THEN handler[2] ELSE heard
    BY <1>2 DEF HandlerReplies
  <2>2. queue # <<>> /\ handler[1] = Head(queue)
    BY <1>0, <2>1 DEF Queued
  <2>3. Queued'
    BY <1>0, <1>a, <2>1, <2>2, QueueTail DEF Queued
  <2>4. Heard'
    <3>1. CASE waiting /\ heard = None /\ handler[1] = pc
      <4>1. queue' = <<>>
        BY <1>0, <2>1, <2>2, <3>1, LastRequest
      <4>2. QED
        BY <1>a, <1>c, <2>1, <3>1, <4>1 DEF Heard
    <3>2. CASE ~(waiting /\ heard = None /\ handler[1] = pc)
      <4>1. heard' = heard
        BY <2>1, <3>2
      <4>2. heard = None \/ heard = <<"failed">>
        BY <1>0, <2>2 DEF Heard
      <4>3. QED
        BY <1>0, <1>a, <1>c, <4>1, <4>2 DEF Heard
    <3>3. QED
      BY <3>1, <3>2
  <2>5. QED
    BY <1>b, <2>3, <2>4 DEF Inv
<1>3. CASE HandlerFails
  <2>1. /\ queue # <<>> /\ handler = None /\ queue' = Tail(queue)
        /\ UNCHANGED <<handler, capture>>
        /\ heard' = IF waiting /\ Head(queue) = pc THEN <<"failed">> ELSE heard
    BY <1>3 DEF HandlerFails
  <2>2. Queued'
    BY <1>0, <1>a, <2>1, QueueTail DEF Queued
  <2>3. Heard'
    <3>1. heard = None \/ heard = <<"failed">>
      BY <1>0, <2>1 DEF Heard
    <3>2. heard' # None => waiting
      BY <1>0, <2>1 DEF Heard
    <3>3. heard' = None \/ heard' = <<"failed">>
      BY <2>1, <3>1
    <3>4. QED
      BY <1>a, <1>c, <3>2, <3>3 DEF Heard
  <2>4. QED
    BY <1>b, <2>2, <2>3 DEF Inv
<1>4. CASE ClientGivesUp
  <2>1. waiting /\ heard' = <<"failed">> /\ UNCHANGED <<queue, handler, capture>>
    BY <1>4 DEF ClientGivesUp
  <2>2. Queued'
    BY <1>0, <1>a, <2>1 DEF Queued
  <2>3. Heard'
    BY <1>a, <1>c, <2>1 DEF Heard
  <2>4. QED
    BY <1>b, <2>2, <2>3 DEF Inv
<1>5. QED
  BY <1>1, <1>2, <1>3, <1>4

LEMMA ConcludeStep == ASSUME Inv, Conclude PROVE Inv'
<1>0. Progress /\ Served /\ Queued /\ Heard /\ MisreadsFail
  BY DEF Inv
<1>1. /\ Running /\ heard # None /\ waiting' = FALSE /\ heard' = None
      /\ UNCHANGED <<campaign, queue, handler, capture>>
  BY DEF Conclude
<1>2. /\ pc \in DOMAIN Script /\ pc \in Nat /\ ViaShim(Now)
  BY <1>0, <1>1, StepFacts DEF Heard
<1>3. Now.op # "stop" /\ <<"failed">> \notin Now.want
  BY <1>0, <1>2, ScriptFacts DEF WellFormed, Progress, Now
<1>4. Heard'
  BY <1>1 DEF Heard
<1>5. CASE capture = None
  <2>1. /\ ending' = "raised" /\ clock' = Unwound(Now.guard)
        /\ UNCHANGED <<pc, failed, misread>>
    BY <1>5 DEF Conclude
  <2>2. Progress' /\ Served'
    BY <1>0, <1>1, <1>3, <2>1, Unwinds
  <2>3. Queued'
    BY <1>0, <1>1, <2>1 DEF Queued
  <2>4. MisreadsFail'
    BY <1>0, <2>1 DEF MisreadsFail
  <2>5. QED
    BY <1>4, <2>2, <2>3, <2>4 DEF Inv
<1>6. CASE capture # None
  <2>1. /\ pc' = pc + 1 /\ ending' = ending /\ clock' = clock
        /\ failed' = Check(Now, heard) \cup Check(Now, capture[2])
        /\ misread' = IF capture[1] = pc THEN misread ELSE misread \cup {pc}
    BY <1>6 DEF Conclude
  <2>2. failed' \in {failed, failed \cup {pc}} /\ misread' \in {misread, misread \cup {pc}}
    BY <2>1 DEF Check
  <2>3. Progress' /\ Served'
    BY <1>0, <1>1, <1>3, <2>1, <2>2, GoesOn
  <2>4. Queued'
    <3>1. \A i \in 1 .. Len(queue) : queue[i] \in Nat /\ queue[i] <= pc
      BY <1>0 DEF Queued
    <3>2. \A i \in 1 .. Len(queue) : queue[i] <= pc' /\ queue[i] # pc'
      BY <1>2, <2>1, <3>1
    <3>3. QED
      BY <1>0, <1>1, <3>2 DEF Queued
  <2>5. MisreadsFail'
    <3>1. CASE capture[1] = pc
      BY <1>0, <2>1, <2>2, <3>1 DEF MisreadsFail
    <3>2. CASE capture[1] # pc
      <4>1. heard = <<"failed">>
        BY <1>0, <1>1, <3>2 DEF Heard
      <4>2. pc \in failed' /\ failed \subseteq failed'
        BY <1>3, <2>1, <4>1 DEF Check
      <4>3. QED
        BY <1>0, <2>1, <4>2 DEF MisreadsFail
    <3>3. QED
      BY <3>1, <3>2
  <2>6. QED
    BY <1>4, <2>3, <2>4, <2>5 DEF Inv
<1>7. QED
  BY <1>5, <1>6

LEMMA NextInv == Inv /\ [Next]_vars => Inv'
<1> SUFFICES ASSUME Inv, [Next]_vars PROVE Inv'
  OBVIOUS
<1>1. CASE Next
  BY <1>1, MainSteps, AgainStep, SendStep, HandlerSteps, ConcludeStep DEF Next
<1>2. CASE UNCHANGED vars
  <2>1. Progress /\ Served /\ Queued /\ Heard /\ MisreadsFail
    BY DEF Inv
  <2>2. UNCHANGED <<campaign, pc, failed, misread, clock, ending, waiting, queue, handler, capture, heard>>
    BY <1>2 DEF vars, shim
  <2>3. Progress' /\ Served'
    BY <2>1, <2>2, StandsStill
  <2>4. Queued' /\ Heard'
    BY <2>1, <2>2, ShimStands
  <2>5. MisreadsFail'
    BY <2>1, <2>2 DEF MisreadsFail
  <2>6. QED
    BY <2>3, <2>4, <2>5 DEF Inv
<1>3. QED
  BY <1>1, <1>2

LEMMA InitLogged == Init => Logged
BY DEF Init, StartsAt, Logged

LEMMA NextLogged == Logged /\ [Next]_vars => Logged'
<1> SUFFICES ASSUME Logged, [Next]_vars PROVE Logged'
  OBVIOUS
<1>1. CASE Do
  <2>1. hurt' = hurt /\ (poisoned' = FALSE \/ poisoned' = poisoned)
    BY <1>1 DEF Do, shim
  <2>2. QED
    BY <2>1 DEF Logged
<1>2. CASE CliFails \/ Raises \/ StartRaises \/ HandlerFails \/ ClientGivesUp
  <2>1. hurt' = TRUE \/ (hurt' = hurt /\ poisoned' = poisoned)
    BY <1>2 DEF CliFails, Raises, StartRaises, HandlerFails, ClientGivesUp, Fault, shim
  <2>2. QED
    BY <2>1 DEF Logged
<1>3. CASE Again
  BY <1>3 DEF Again, Logged
<1>4. CASE Report \/ Send \/ HandlerRuns \/ HandlerReplies \/ Conclude \/ UNCHANGED vars
  <2>1. hurt' = hurt /\ poisoned' = poisoned
    BY <1>4 DEF Report, Send, HandlerRuns, HandlerReplies, Conclude, vars, shim
  <2>2. QED
    BY <2>1 DEF Logged
<1>5. QED
  BY <1>1, <1>2, <1>3, <1>4 DEF Next

LEMMA InvTypeOK == Inv => TypeOK
BY DEF Inv, Progress, TypeOK

LEMMA InvCleansUp == Inv => CleansUp
<1> SUFFICES ASSUME Inv, ending # "running", NEW n \in Nodes, clock[n] # None
             PROVE  /\ ending = "raised"
                    /\ n \in RustRelays(Script)
                    /\ campaign = "campaign1" => Starts(Now) /\ Now.at = n
  BY DEF CleansUp
<1>1. ending = "raised" /\ pc \in DOMAIN Script /\ campaign \in DOMAIN Scripts
  BY DEF Inv, Progress, Served
<1>2. Now.op # "stop" /\ Left(n)
  BY <1>1 DEF Inv, Served
<1>3. CASE Starts(Now) /\ Now.at = n
  BY <1>1, <1>3 DEF RustRelays, Now
<1>4. CASE n \in MayServe(Script, pc) \ Now.guard
  <2>1. n \in IF campaign = "campaign1" THEN {} ELSE RustRelays(Script)
    BY <1>1, <1>2, <1>4, ScriptFacts DEF WellFormed, Now
  <2>2. QED
    BY <1>1, <2>1
<1>5. QED
  BY <1>2, <1>3, <1>4 DEF Left

-----------------------------------------------------------------------------
(* The theorems.                                                           *)

\* The inductive invariant of a live campaign: where its script stands, what is
\* served, and what the shim's handler, its queue and the waiting client agree on.
THEOREM LiveInvariant == Spec => []Inv
<1>1. QED
  BY InitInv, NextInv, PTL DEF Spec

\* A command that fails in every later replay is in the log after a failure alone
\* (phase3.py: MotokoDriverSession.run).
THEOREM LogInvariant == Spec => []Logged
<1>1. QED
  BY InitLogged, NextLogged, PTL DEF Spec

\* The step counter and the recorded checks stay within the script (phase3.py: main).
THEOREM TypeCorrect == Spec => []TypeOK
<1>1. QED
  BY LiveInvariant, InvTypeOK, PTL

\* However a campaign ends, what it still serves is a Rust relay whose start raised or,
\* outside of campaign 1, one that no finally stops, after any number of failures and
\* attempts (phase3.py, gates.py: finally).
THEOREM EndsClean == Spec => []CleansUp
<1>1. QED
  BY LiveInvariant, InvCleansUp, PTL

\* A check made on the bytes of another exchange is always among the failed ones, for
\* any script and any number of failures (MotokoShim, captured[-1]).
THEOREM MisreadingShows == Spec => []MisreadsFail
<1>1. Inv => MisreadsFail
  BY DEF Inv
<1>2. QED
  BY LiveInvariant, <1>1, PTL
=============================================================================
