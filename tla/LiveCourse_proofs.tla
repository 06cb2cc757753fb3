------------------------- MODULE LiveCourse_proofs -------------------------
(***************************************************************************)
(* For any scripts and departures with a course (CourseAssumption), and    *)
(* any number of failures and attempts: as long as no check has failed and *)
(* no client was left without its answer, the campaign is where its course *)
(* is, whatever the shim and the failures around it do.  What the script   *)
(* is then known to see gives what a report is worth.                      *)
(* The relays that campaign 1 compares are followed further, through       *)
(* failures and from attempt to attempt (LineageAssumption).               *)
(***************************************************************************)
EXTENDS LiveCourse, LiveExchange_proofs

Covered == Run \in CoveredRuns(campaign)
Ours == Course[campaign][Run]
Sees(k) == Seen(campaign, Run, Ours, k)

\* As far as the coordinator can tell, nothing went wrong in this attempt.
Clean == failed = {} /\ heard # <<"failed">> /\ ending # "raised"

\* The step before which the relays stand: that of a step through the shim is done when
\* the handler has run it.
Position == IF handler # None \/ heard # None THEN pc + 1 ELSE pc

\* The shim has at most the request of the step the script is at.
ShimOnCourse ==
 
  /\ queue = <<>> \/ (queue = <<pc>> /\ waiting)
  /\ handler # None => handler = <<pc, Sees(pc)>>
  /\ heard # None => /\ heard = Sees(pc) /\ capture = <<pc, Sees(pc)>>
                     /\ queue = <<>> /\ handler = None

\* The relays whose state an earlier attempt has no part in are those of the course.
RelaysAt(k) ==
  /\ DOMAIN world = Nodes /\ DOMAIN Ours[k].world = Nodes
  /\ clock = Ours[k].clock
  /\ \A n \in Known(campaign, attempt, k) : world[n] = Ours[k].world[n]

ChecksPassed == \A k \in 1 .. pc - 1 : Sees(k) \in Script[k].want

OnCourse == Covered /\ Clean => ShimOnCourse /\ RelaysAt(Position) /\ ChecksPassed
Unhurt == Covered /\ quirk = None /\ ~hurt => Clean
Attempts == attempt \in 1 .. MaxAttempts /\ quirk \in Quirks \cup {None}

CourseInv == Attempts /\ OnCourse /\ Unhurt

-----------------------------------------------------------------------------
(* A step depends on the relays it reads.                                  *)

\* What the coordinator sees of it.
LEMMA SawAgrees ==
  ASSUME NEW s, NEW w, NEW v, NEW clk, NEW run, \A n \in Reads(s) : w[n] = v[n]
  PROVE  Saw(s, w, clk, run) = Saw(s, v, clk, run)
<1>1. CASE s.op = "publish"
  <2>1. w[s.at] = v[s.at]
    BY <1>1 DEF Reads
  <2>2. \A u : Saw(s, u, clk, run) = <<Judge(u[s.at], s.record, clk[s.at])>>
    BY <1>1 DEF Saw
  <2>3. QED
    BY <2>1, <2>2
<1>2. CASE s.op = "resolve"
  <2>1. w[s.at] = v[s.at]
    BY <1>2 DEF Reads
  <2>2. \A u : Saw(s, u, clk, run) = Resolve(u[s.at], s.dids, clk[s.at])
    BY <1>2 DEF Saw
  <2>3. QED
    BY <2>1, <2>2
<1>3. CASE s.op = "pull"
  <2>1. w[s.at] = v[s.at] /\ w[s.from] = v[s.from]
    BY <1>3 DEF Reads
  <2>2. At(w, s.at, run) = At(v, s.at, run)
    BY <2>1 DEF At
  <2>3. Pulled(s, w, clk, run) = Pulled(s, v, clk, run)
    BY <2>1, <2>2 DEF Pulled
  <2>4. \A u : Saw(s, u, clk, run) = Told(Pulled(s, u, clk, run))
    BY <1>3 DEF Saw
  <2>5. QED
    BY <2>3, <2>4
<1>4. CASE s.op = "fixture"
  <2>1. w[s.at] = v[s.at]
    BY <1>4 DEF Reads
  <2>2. At(w, s.at, run) = At(v, s.at, run)
    BY <2>1 DEF At
  <2>3. \A u : Saw(s, u, clk, run) = Told(Receive(At(u, s.at, run), s.page, s.limit, s.now))
    BY <1>4 DEF Saw
  <2>4. QED
    BY <2>2, <2>3
<1>5. CASE s.op = "present"
  <2>1. Reads(s) = {s.at} \cup ({s.of} \ {"nothing", "truncated"})
    BY <1>5 DEF Reads
  <2>2. w[s.at] = v[s.at] /\ (s.of \notin {"nothing", "truncated"} => w[s.of] = v[s.of])
    BY <2>1
  <2>3. Presented(s, w, clk) = Presented(s, v, clk)
    <3>1. CASE s.of \in {"nothing", "truncated"}
      BY <3>1 DEF Presented
    <3>2. CASE s.of \notin {"nothing", "truncated"}
      BY <2>2, <3>2 DEF Presented
    <3>3. QED
      BY <3>1, <3>2
  <2>4. Page(w[s.at], Presented(s, w, clk), 100, clk[s.at]) = Page(v[s.at], Presented(s, v, clk), 100, clk[s.at])
    BY <2>2, <2>3
  <2>5. \A u : Saw(s, u, clk, run) =
                 <<Page(u[s.at], Presented(s, u, clk), 100, clk[s.at]).kind,
                   Len(Page(u[s.at], Presented(s, u, clk), 100, clk[s.at]).items)>>
    BY <1>5 DEF Saw
  <2>6. QED
    BY <2>4, <2>5
<1>6. CASE s.op = "agree"
  <2>1. w[s.at] = v[s.at] /\ w[s.with] = v[s.with]
    BY <1>6 DEF Reads
  <2>2. \A u : Saw(s, u, clk, run) = <<NameOf(u[s.at], s.dids[1]), NameOf(u[s.with], s.dids[1]),
                                       NameOf(u[s.at], s.dids[2]), NameOf(u[s.with], s.dids[2])>>
    BY <1>6 DEF Saw
  <2>3. QED
    BY <2>1, <2>2
<1>7. CASE s.op = "dump"
  <2>1. w[s.at] = v[s.at]
    BY <1>7 DEF Reads
  <2>2. \A u : Saw(s, u, clk, run) =
                 <<u[s.at].counter, NumberOf(u[s.at], "alice"), NumberOf(u[s.at], "bob"),
                   IF u[s.at].cursor = None THEN 0 ELSE u[s.at].cursor.position>>
    BY <1>7 DEF Saw
  <2>3. QED
    BY <2>1, <2>2
<1>8. CASE s.op \notin {"publish", "resolve", "pull", "fixture", "present", "agree", "dump"}
  BY <1>8 DEF Saw
<1>9. QED
  BY <1>1, <1>2, <1>3, <1>4, <1>5, <1>6, <1>7, <1>8

\* What it makes of the relays: those it makes anew agree as well.
LEMMA AfterAgrees ==
  ASSUME NEW s, NEW w, NEW v, NEW clk, NEW run, NEW K,
         DOMAIN w = Nodes, DOMAIN v = Nodes, \A n \in K : w[n] = v[n], Reads(s) \subseteq K
  PROVE  /\ DOMAIN After(s, w, clk, run) = Nodes /\ DOMAIN After(s, v, clk, run) = Nodes
         /\ \A n \in Nodes : n \in K \/ n \in Made(s) =>
              After(s, w, clk, run)[n] = After(s, v, clk, run)[n]
<1> DEFINE Good == /\ DOMAIN After(s, w, clk, run) = Nodes /\ DOMAIN After(s, v, clk, run) = Nodes
                   /\ \A n \in Nodes : n \in K \/ n \in Made(s) =>
                        After(s, w, clk, run)[n] = After(s, v, clk, run)[n]
<1>0. ASSUME NEW x, After(s, w, clk, run) = [w EXCEPT ![s.at] = x],
             After(s, v, clk, run) = [v EXCEPT ![s.at] = x]
      PROVE  Good
  <2>1. Made(s) \subseteq {s.at}
    BY DEF Made
  <2>2. DOMAIN [w EXCEPT ![s.at] = x] = Nodes /\ DOMAIN [v EXCEPT ![s.at] = x] = Nodes
    OBVIOUS
  <2>3. \A n \in Nodes : n \in K \/ n = s.at => [w EXCEPT ![s.at] = x][n] = [v EXCEPT ![s.at] = x][n]
    OBVIOUS
  <2>4. QED
    BY <1>0, <2>1, <2>2, <2>3
<1>1. CASE s.op = "serve"
  <2>1. CASE s.fresh
    <3>1. \A u : After(s, u, clk, run) = [u EXCEPT ![s.at] = Fresh(s.at, s.side, run)]
      BY <1>1, <2>1 DEF After
    <3>2. QED
      BY <1>0, <3>1
  <2>2. CASE ~s.fresh
    <3>1. s.at \in K /\ Made(s) = {}
      BY <1>1, <2>2 DEF Reads, Made
    <3>2. w[s.at] = v[s.at]
      BY <3>1
    <3>3. CASE w[s.at] = None
      <4>1. /\ After(s, w, clk, run) = [w EXCEPT ![s.at] = Fresh(s.at, s.side, run)]
            /\ After(s, v, clk, run) = [v EXCEPT ![s.at] = Fresh(s.at, s.side, run)]
        BY <1>1, <3>2, <3>3 DEF After
      <4>2. QED
        BY <1>0, <4>1
    <3>4. CASE w[s.at] # None
      <4>1. After(s, w, clk, run) = w /\ After(s, v, clk, run) = v
        BY <1>1, <2>2, <3>2, <3>4 DEF After
      <4>2. QED
        BY <3>1, <4>1
    <3>5. QED
      BY <3>3, <3>4
  <2>3. QED
    BY <2>1, <2>2
<1>2. CASE s.op = "create"
  <2>1. \A u : After(s, u, clk, run) = [u EXCEPT ![s.at] = Fresh(s.at, "rust", run)]
    BY <1>2 DEF After
  <2>2. QED
    BY <1>0, <2>1
<1>3. CASE s.op = "publish"
  <2>1. w[s.at] = v[s.at]
    BY <1>3 DEF Reads
  <2>2. \A u : After(s, u, clk, run) = [u EXCEPT ![s.at] = Take(u[s.at], s.record, clk[s.at])]
    BY <1>3 DEF After
  <2>3. After(s, v, clk, run) = [v EXCEPT ![s.at] = Take(w[s.at], s.record, clk[s.at])]
    BY <2>1, <2>2
  <2>4. QED
    BY <1>0, <2>2, <2>3
<1>4. CASE s.op = "pull"
  <2>1. w[s.at] = v[s.at] /\ w[s.from] = v[s.from]
    BY <1>4 DEF Reads
  <2>2. At(w, s.at, run) = At(v, s.at, run)
    BY <2>1 DEF At
  <2>3. Pulled(s, w, clk, run) = Pulled(s, v, clk, run)
    BY <2>1, <2>2 DEF Pulled
  <2>4. \A u : After(s, u, clk, run) = [u EXCEPT ![s.at] = Pulled(s, u, clk, run).node]
    BY <1>4 DEF After
  <2>5. After(s, v, clk, run) = [v EXCEPT ![s.at] = Pulled(s, w, clk, run).node]
    BY <2>3, <2>4
  <2>6. QED
    BY <1>0, <2>4, <2>5
<1>5. CASE s.op = "fixture"
  <2>1. w[s.at] = v[s.at]
    BY <1>5 DEF Reads
  <2>2. At(w, s.at, run) = At(v, s.at, run)
    BY <2>1 DEF At
  <2>3. \A u : After(s, u, clk, run) =
                 [u EXCEPT ![s.at] = Receive(At(u, s.at, run), s.page, s.limit, s.now).node]
    BY <1>5 DEF After
  <2>4. After(s, v, clk, run) = [v EXCEPT ![s.at] = Receive(At(w, s.at, run), s.page, s.limit, s.now).node]
    BY <2>2, <2>3
  <2>5. QED
    BY <1>0, <2>3, <2>4
<1>6. CASE s.op = "seed"
  <2>1. \A u : After(s, u, clk, run) = [u EXCEPT ![s.at] = SeedNode(s, run)]
    BY <1>6 DEF After
  <2>2. QED
    BY <1>0, <2>1
<1>7. CASE s.op \notin {"serve", "create", "publish", "pull", "fixture", "seed"}
  <2>1. Made(s) = {} /\ After(s, w, clk, run) = w /\ After(s, v, clk, run) = v
    BY <1>7 DEF Made, After
  <2>2. QED
    BY <2>1
<1>8. QED
  BY <1>1, <1>2, <1>3, <1>4, <1>5, <1>6, <1>7

-----------------------------------------------------------------------------
(* The course.                                                             *)

LEMMA CourseFacts ==
  ASSUME campaign \in DOMAIN Scripts, Covered
  PROVE  /\ Undisturbed(campaign, Run, Ours) /\ SelfContained(campaign, Run, Ours)
         /\ Rehearsed(campaign, Run, Ours)
BY CourseAssumption DEF Covered, Ours

LEMMA RunFields == Run.quirk = quirk /\ Run.attempt = attempt
BY DEF Run

\* What is known before a step, or made anew by it, is known after it.
LEMMA KnownNext ==
  ASSUME NEW c, NEW a, NEW k \in Nat \ {0}, NEW n \in Known(c, a, k + 1)
  PROVE  n \in Nodes /\ (n \in Known(c, a, k) \/ n \in Made(Scripts[c][k]))
<1>1. n \in Nodes
  BY DEF Known
<1>2. CASE a = 1 \/ n \notin Databases(Scripts[c])
  BY <1>1, <1>2 DEF Known
<1>3. CASE \E j \in 1 .. (k + 1) - 1 : n \in Made(Scripts[c][j])
  <2>1. PICK j \in 1 .. (k + 1) - 1 : n \in Made(Scripts[c][j])
    BY <1>3
  <2>2. j \in 1 .. k - 1 \/ j = k
    BY <2>1
  <2>3. QED
    BY <1>1, <2>1, <2>2 DEF Known
<1>4. QED
  BY <1>2, <1>3 DEF Known

\* The next step of the script, taken where the course is, shows what the course shows
\* and leads where the course leads.
LEMMA Advance ==
  ASSUME campaign \in DOMAIN Scripts, Covered, pc \in DOMAIN Script, pc \in Nat \ {0}, RelaysAt(pc)
  PROVE  /\ Saw(Now, world, clock, Run) = Sees(pc)
         /\ DOMAIN After(Now, world, clock, Run) = Nodes /\ DOMAIN Ours[pc + 1].world = Nodes
         /\ Clocked(Now, clock) = Ours[pc + 1].clock
         /\ \A n \in Known(campaign, attempt, pc + 1) :
              After(Now, world, clock, Run)[n] = Ours[pc + 1].world[n]
<1> DEFINE v == Ours[pc].world
           K == Known(campaign, attempt, pc)
<1>1. /\ Undisturbed(campaign, Run, Ours) /\ SelfContained(campaign, Run, Ours)
  BY CourseFacts
<1>2. Now = Scripts[campaign][pc] /\ pc \in DOMAIN Scripts[campaign]
  BY DEF Now, Script
<1>3. /\ Ours[pc + 1].world = After(Now, v, clock, Run)
      /\ Ours[pc + 1].clock = Clocked(Now, clock)
  BY <1>1, <1>2 DEF Undisturbed, Taken, RelaysAt
<1>4. Reads(Now) \subseteq K
  BY <1>1, <1>2, RunFields DEF SelfContained
<1>5. DOMAIN world = Nodes /\ DOMAIN v = Nodes /\ \A n \in K : world[n] = v[n]
  BY DEF RelaysAt
<1>6. Saw(Now, world, clock, Run) = Sees(pc)
  <2>1. \A n \in Reads(Now) : world[n] = v[n]
    BY <1>4, <1>5
  <2>2. Saw(Now, world, clock, Run) = Saw(Now, v, clock, Run)
    BY <2>1, SawAgrees
  <2>3. Sees(pc) = Saw(Now, v, clock, Run)
    BY <1>2 DEF Sees, Seen, RelaysAt
  <2>4. QED
    BY <2>2, <2>3
<1>7. /\ DOMAIN After(Now, world, clock, Run) = Nodes /\ DOMAIN After(Now, v, clock, Run) = Nodes
      /\ \A n \in Nodes : n \in K \/ n \in Made(Now) =>
           After(Now, world, clock, Run)[n] = After(Now, v, clock, Run)[n]
  <2> HIDE DEF v, K
  <2>1. QED
    BY <1>4, <1>5, AfterAgrees
<1>8. \A n \in Known(campaign, attempt, pc + 1) : n \in Nodes /\ (n \in K \/ n \in Made(Now))
  BY <1>2, KnownNext
<1>9. QED
  BY <1>3, <1>6, <1>7, <1>8

\* An answer is neither absent nor a failed client.
LEMMA Answers ==
  ASSUME campaign \in DOMAIN Scripts, Covered, pc \in DOMAIN Script
  PROVE  Sees(pc) # None /\ <<pc, Sees(pc)>> # None
BY CourseFacts DEF SelfContained, Sees, Script

LEMMA WantedAnswers ==
  ASSUME campaign \in DOMAIN Scripts, pc \in DOMAIN Script, ViaShim(Now)
  PROVE  <<"failed">> \notin Now.want /\ Now.op \in {"publish", "resolve"}
BY ScriptFacts DEF WellFormed, Now

LEMMA Unsurprising ==
  ASSUME campaign \in DOMAIN Scripts, Covered, quirk = None, pc \in DOMAIN Script
  PROVE  Sees(pc) \in Now.want
BY CourseFacts, RunFields DEF Rehearsed, Sees, Now, Script

-----------------------------------------------------------------------------
(* Where nothing of the run changes.                                       *)

LEMMA SameRun ==
  ASSUME UNCHANGED <<campaign, quirk, attempt>>
  PROVE  /\ Script' = Script /\ Run' = Run /\ Ours' = Ours /\ (Covered' <=> Covered)
         /\ \A k : Seen(campaign, Run, Ours, k)' = Seen(campaign, Run, Ours, k)
BY DEF Script, Run, Ours, Covered, Seen

LEMMA SeesSame ==
  ASSUME UNCHANGED <<campaign, quirk, attempt>>
  PROVE  \A k : Seen(campaign', Run', Ours', k) = Sees(k)
BY SameRun DEF Sees

-----------------------------------------------------------------------------
(* The main thread.                                                        *)

\* No request is at the shim when the step is not one through the shim.
LEMMA NoRequest ==
  ASSUME Inv, CourseInv, Covered, Clean, ~waiting
  PROVE  queue = <<>> /\ handler = None /\ heard = None /\ Position = pc
         /\ RelaysAt(pc) /\ ChecksPassed
<1>1. ShimOnCourse /\ RelaysAt(Position) /\ ChecksPassed
  BY DEF CourseInv, OnCourse
<1>2. queue = <<>>
  BY <1>1 DEF ShimOnCourse
<1>3. handler = None
  BY <1>2 DEF Inv, Queued
<1>4. heard = None
  BY DEF Inv, Heard
<1>5. Position = pc
  BY <1>3, <1>4 DEF Position
<1>6. QED
  BY <1>1, <1>2, <1>3, <1>4, <1>5

\* The campaign stands before the next step, and this one was seen to be as wanted.
LEMMA StepsOn ==
  ASSUME CourseInv, Progress, pc \in DOMAIN Script, UNCHANGED <<campaign, quirk, attempt>>, pc' = pc + 1,
         ChecksPassed, Sees(pc) \in Now.want
  PROVE  ChecksPassed'
<1>1. pc \in Nat \ {0}
  BY ScriptDomain DEF Progress
<1>2. \A k \in 1 .. pc' - 1 : k \in 1 .. pc - 1 \/ k = pc
  BY <1>1
<1>3. \A k \in 1 .. pc' - 1 : Sees(k) \in Script[k].want
  BY <1>2 DEF ChecksPassed, Now
<1>4. Script' = Script /\ \A k : Seen(campaign', Run', Ours', k) = Sees(k)
  BY SameRun, SeesSame
<1>5. QED
  BY <1>3, <1>4 DEF ChecksPassed, Sees

LEMMA DoOnCourse == ASSUME Inv, CourseInv, Do PROVE CourseInv'
<1>1. /\ Running /\ ~ViaShim(Now) /\ pc' = pc + 1
      /\ world' = After(Now, world, clock, Run) /\ clock' = Clocked(Now, clock)
      /\ failed' = Check(Now, Saw(Now, world, clock, Run))
      /\ UNCHANGED <<campaign, quirk, attempt, hurt, ending, waiting, handler, heard>>
      /\ queue' \in {queue, <<>>}
  BY DEF Do, shim
<1>2. campaign \in DOMAIN Scripts /\ pc \in DOMAIN Script /\ pc \in Nat \ {0} /\ ~waiting
  BY <1>1, ScriptDomain DEF Inv, Progress, Heard, Running
<1>3. ASSUME Covered, Clean
      PROVE  /\ failed' = Check(Now, Sees(pc)) /\ RelaysAt(pc)'
             /\ queue' = <<>> /\ handler' = None /\ heard' = None
             /\ ChecksPassed
  <2>1. queue = <<>> /\ handler = None /\ heard = None /\ RelaysAt(pc) /\ ChecksPassed
    BY <1>2, <1>3, NoRequest
  <2>2. /\ Saw(Now, world, clock, Run) = Sees(pc)
        /\ DOMAIN world' = Nodes /\ DOMAIN Ours[pc + 1].world = Nodes
        /\ clock' = Ours[pc + 1].clock
        /\ \A n \in Known(campaign, attempt, pc + 1) : world'[n] = Ours[pc + 1].world[n]
    BY <1>1, <1>2, <1>3, <2>1, Advance
  <2>3. Ours' = Ours
    BY <1>1, SameRun
  <2>4. RelaysAt(pc)'
    BY <1>1, <2>2, <2>3 DEF RelaysAt
  <2>5. QED
    BY <1>1, <2>1, <2>2, <2>4
<1>4. OnCourse'
  <2>1. SUFFICES ASSUME Covered', Clean' PROVE (ShimOnCourse /\ RelaysAt(Position) /\ ChecksPassed)'
    BY DEF OnCourse
  <2>2. Covered
    BY <1>1, <2>1, SameRun
  <2>3. Clean
    <3>1. failed \subseteq failed'
      BY <1>1 DEF Check
    <3>2. QED
      BY <1>1, <2>1, <3>1 DEF Clean
  <2>4. Sees(pc) \in Now.want
    BY <1>3, <2>1, <2>2, <2>3 DEF Check, Clean
  <2>5. ChecksPassed'
    BY <1>1, <1>2, <1>3, <2>2, <2>3, <2>4, StepsOn DEF Inv
  <2>6. ShimOnCourse'
    BY <1>3, <2>2, <2>3 DEF ShimOnCourse
  <2>7. Position' = pc'
    BY <1>1, <1>3, <2>2, <2>3 DEF Position
  <2>8. RelaysAt(Position)'
    BY <1>3, <2>2, <2>3, <2>7 DEF RelaysAt
  <2>9. QED
    BY <2>5, <2>6, <2>8
<1>5. Unhurt'
  <2>1. SUFFICES ASSUME Covered', quirk' = None, ~hurt' PROVE Clean'
    BY DEF Unhurt
  <2>2. Covered /\ quirk = None /\ Clean
    BY <1>1, <2>1, SameRun DEF CourseInv, Unhurt
  <2>3. Sees(pc) \in Now.want
    BY <1>2, <2>2, Unsurprising
  <2>4. failed' = {} /\ heard' = heard /\ ending' = ending
    BY <1>1, <1>3, <2>2, <2>3 DEF Check, Clean
  <2>5. QED
    BY <2>2, <2>4 DEF Clean
<1>6. Attempts'
  BY <1>1 DEF CourseInv, Attempts
<1>7. QED
  BY <1>4, <1>5, <1>6 DEF CourseInv

\* A failure leaves the course, and is a hurt.
LEMMA FaultOffCourse ==
  ASSUME CourseInv, UNCHANGED <<quirk, attempt>>, hurt', ~Covered' \/ ~Clean'
  PROVE  CourseInv'
BY DEF CourseInv, Attempts, OnCourse, Unhurt

LEMMA FaultsOffCourse ==
  ASSUME Inv, Logged, CourseInv, CliFails \/ Raises \/ StartRaises \/ HandlerFails \/ ClientGivesUp
  PROVE  CourseInv'
<1>a. hurt' = TRUE \/ (poisoned /\ hurt' = hurt)
  BY DEF CliFails, Raises, StartRaises, HandlerFails, ClientGivesUp, Fault
<1>b. UNCHANGED <<campaign, quirk, attempt>>
  BY DEF CliFails, Raises, StartRaises, HandlerFails, ClientGivesUp
<1>0. hurt' /\ UNCHANGED <<campaign, quirk, attempt>>
  BY <1>a, <1>b DEF Logged
<1>1. CASE CliFails
  <2>1. pc \in failed'
    BY <1>1 DEF CliFails
  <2>2. QED
    BY <1>0, <2>1, FaultOffCourse DEF Clean
<1>2. CASE Raises \/ StartRaises
  <2>1. ending' = "raised"
    BY <1>2 DEF Raises, StartRaises
  <2>2. QED
    BY <1>0, <2>1, FaultOffCourse DEF Clean
<1>3. CASE ClientGivesUp
  <2>1. heard' = <<"failed">>
    BY <1>3 DEF ClientGivesUp
  <2>2. QED
    BY <1>0, <2>1, FaultOffCourse DEF Clean
<1>4. CASE HandlerFails
  <2>1. /\ ending = "running" /\ queue # <<>> /\ handler = None
        /\ heard' = IF waiting /\ Head(queue) = pc THEN <<"failed">> ELSE heard
        /\ UNCHANGED <<failed, ending>>
    BY <1>4 DEF HandlerFails
  <2>2. ASSUME Covered', Clean' PROVE FALSE
    <3>1. Covered
      BY <1>0, <2>2, SameRun
    <3>2. CASE Clean
      <4>1. ShimOnCourse
        BY <3>1, <3>2 DEF CourseInv, OnCourse
      <4>2. queue = <<pc>> /\ waiting
        BY <2>1, <4>1 DEF ShimOnCourse
      <4>3. Head(queue) = pc
        BY <4>2
      <4>4. heard' = <<"failed">>
        BY <2>1, <4>2, <4>3
      <4>5. QED
        BY <2>2, <4>4 DEF Clean
    <3>3. CASE ~Clean
      BY <2>1, <2>2, <3>3 DEF Clean
    <3>4. QED
      BY <3>2, <3>3
  <2>3. QED
    BY <1>0, <2>2, FaultOffCourse
<1>5. QED
  BY <1>1, <1>2, <1>3, <1>4

LEMMA StandsOnCourse ==
  ASSUME CourseInv,
         UNCHANGED <<campaign, quirk, attempt, hurt, pc, world, clock, failed,
                     waiting, queue, handler, capture, heard>>,
         ending' = ending \/ (ending = "running" /\ ending' = "report")
  PROVE  CourseInv'
<1>1. Script' = Script /\ Ours' = Ours /\ (Covered' <=> Covered)
      /\ \A k : Seen(campaign', Run', Ours', k) = Sees(k)
  BY SameRun, SeesSame
<1>2. Clean' <=> Clean
  BY DEF Clean
<1>3. Position' = Position
  BY DEF Position
<1>4. ShimOnCourse' <=> ShimOnCourse
  BY <1>1 DEF ShimOnCourse, Sees
<1>5. RelaysAt(Position)' <=> RelaysAt(Position)
  BY <1>1, <1>3 DEF RelaysAt
<1>6. ChecksPassed' <=> ChecksPassed
  BY <1>1 DEF ChecksPassed, Sees
<1>7. QED
  BY <1>1, <1>2, <1>4, <1>5, <1>6 DEF CourseInv, OnCourse, Unhurt, Attempts

\* Another attempt starts where the course starts: what is left of the earlier ones is
\* not among the relays it knows.
LEMMA StartOnCourse ==
  ASSUME campaign \in DOMAIN Scripts, Covered, pc = 1, DOMAIN world = Nodes,
         attempt = 1 => world = [n \in Nodes |-> None],
         \A n \in Nodes : n \notin Databases(Script) => world[n] = None,
         clock = [n \in Nodes |-> None], queue = <<>>, handler = None, heard = None
  PROVE  ShimOnCourse /\ RelaysAt(Position) /\ ChecksPassed
<1>1. Ours[1].world = [n \in Nodes |-> None] /\ Ours[1].clock = [n \in Nodes |-> None]
  BY CourseFacts DEF Undisturbed, StartsWith
<1>2. Position = 1
  BY DEF Position
<1>3. \A n \in Known(campaign, attempt, 1) : n \in Nodes /\ (attempt = 1 \/ n \notin Databases(Script))
  BY DEF Known, Script
<1>4. \A n \in Known(campaign, attempt, 1) : world[n] = None
  BY <1>3
<1>5. RelaysAt(1)
  BY <1>1, <1>3, <1>4 DEF RelaysAt
<1>6. QED
  BY <1>2, <1>5 DEF ShimOnCourse, ChecksPassed

LEMMA InitOnCourse == Init => CourseInv
<1> SUFFICES ASSUME Init PROVE CourseInv
  OBVIOUS
<1>1. Attempts
  BY LiveAssumption DEF Init, StartsAt, Attempts
<1>2. Clean
  BY CourseAssumption DEF Init, StartsAt, Clean
<1>3. ASSUME Covered PROVE ShimOnCourse /\ RelaysAt(Position) /\ ChecksPassed
  <2>1. /\ campaign \in DOMAIN Scripts /\ pc = 1 /\ world = [n \in Nodes |-> None]
        /\ clock = [n \in Nodes |-> None]
        /\ queue = <<>> /\ handler = None /\ heard = None
    BY DEF Init, StartsAt
  <2>2. DOMAIN world = Nodes /\ \A n \in Nodes : world[n] = None
    BY <2>1
  <2>3. QED
    BY <1>3, <2>1, <2>2, StartOnCourse
<1>4. QED
  BY <1>1, <1>2, <1>3 DEF CourseInv, OnCourse, Unhurt
LEMMA AgainOnCourse == ASSUME Inv, CourseInv, Again PROVE CourseInv'
<1>1. /\ attempt < MaxAttempts /\ attempt' = attempt + 1
      /\ world' = [n \in Nodes |-> IF n \in Databases(Script) THEN world[n] ELSE None]
      /\ clock' = [n \in Nodes |-> None]
      /\ pc' = 1 /\ failed' = {} /\ ending' = "running"
      /\ queue' = <<>> /\ handler' = None /\ heard' = None
      /\ UNCHANGED <<campaign, quirk>>
  BY DEF Again
<1>2. attempt \in 1 .. MaxAttempts /\ quirk \in Quirks \cup {None} /\ MaxAttempts \in Nat
  BY LiveAssumption DEF CourseInv, Attempts
<1>3. Attempts' /\ attempt' # 1
  BY <1>1, <1>2 DEF Attempts
<1>4. Clean'
  BY <1>1, CourseAssumption DEF Clean
<1>5. campaign \in DOMAIN Scripts /\ Script' = Script
  BY <1>1 DEF Inv, Progress, Script
<1>6. DOMAIN world' = Nodes /\ \A n \in Nodes : n \notin Databases(Script) => world'[n] = None
  BY <1>1
<1>7. ASSUME Covered' PROVE (ShimOnCourse /\ RelaysAt(Position) /\ ChecksPassed)'
  <2>1. Ours'[1].world = [n \in Nodes |-> None] /\ Ours'[1].clock = [n \in Nodes |-> None]
    <3>1. Run' \in CoveredRuns(campaign) /\ Ours' = Course[campaign][Run']
      BY <1>1, <1>7 DEF Covered, Ours
    <3>2. Undisturbed(campaign, Run', Ours')
      BY <1>5, <3>1, CourseAssumption
    <3>3. QED
      BY <3>2 DEF Undisturbed, StartsWith
  <2>2. Position' = 1
    BY <1>1 DEF Position
  <2>3. \A n \in Known(campaign, attempt', 1) : n \in Nodes /\ n \notin Databases(Script)
    BY <1>3 DEF Known, Script
  <2>4. \A n \in Known(campaign, attempt', 1) : world'[n] = Ours'[1].world[n]
    BY <1>6, <2>1, <2>3
  <2>5. RelaysAt(Position)'
    BY <1>1, <1>6, <2>1, <2>2, <2>4 DEF RelaysAt
  <2>6. ShimOnCourse'
    BY <1>1 DEF ShimOnCourse
  <2>7. ChecksPassed'
    BY <1>1 DEF ChecksPassed
  <2>8. QED
    BY <2>5, <2>6, <2>7
<1>8. QED
  BY <1>3, <1>4, <1>7 DEF CourseInv, OnCourse, Unhurt

-----------------------------------------------------------------------------
(* The shim and its client.                                                *)

LEMMA SendOnCourse == ASSUME Inv, CourseInv, Send PROVE CourseInv'
<1>1. /\ ~waiting /\ waiting' = TRUE /\ queue' = Append(queue, pc)
      /\ UNCHANGED <<campaign, quirk, attempt, hurt, pc, world, clock, failed, ending,
                     handler, capture, heard>>
  BY DEF Send
<1>2. Clean' <=> Clean
  BY <1>1 DEF Clean
<1>3. Ours' = Ours /\ (Covered' <=> Covered) /\ Script' = Script
      /\ \A k : Seen(campaign', Run', Ours', k) = Sees(k)
  BY <1>1, SameRun, SeesSame
<1>4. ASSUME Covered, Clean PROVE (ShimOnCourse /\ RelaysAt(Position) /\ ChecksPassed)'
  <2>1. /\ queue = <<>> /\ handler = None /\ heard = None /\ Position = pc
        /\ RelaysAt(pc) /\ ChecksPassed
    BY <1>1, <1>4, NoRequest
  <2>2. ShimOnCourse'
    BY <1>1, <2>1 DEF ShimOnCourse
  <2>3. Position' = pc
    BY <1>1, <2>1 DEF Position
  <2>4. RelaysAt(Position)'
    BY <1>1, <1>3, <2>1, <2>3 DEF RelaysAt
  <2>5. ChecksPassed'
    BY <1>1, <1>3, <2>1 DEF ChecksPassed, Sees
  <2>6. QED
    BY <2>2, <2>4, <2>5
<1>5. QED
  BY <1>1, <1>2, <1>3, <1>4 DEF CourseInv, OnCourse, Unhurt, Attempts

LEMMA RunsOnCourse == ASSUME Inv, CourseInv, HandlerRuns PROVE CourseInv'
<1>1. /\ ending = "running" /\ queue # <<>> /\ handler = None
      /\ UNCHANGED <<campaign, quirk, attempt, hurt, pc, clock, failed, ending,
                     waiting, queue, capture, heard>>
  BY DEF HandlerRuns
<1>2. Clean' <=> Clean
  BY <1>1 DEF Clean
<1>3. Ours' = Ours /\ (Covered' <=> Covered) /\ Script' = Script
      /\ \A k : Seen(campaign', Run', Ours', k) = Sees(k)
  BY <1>1, SameRun, SeesSame
<1>4. ASSUME Covered, Clean PROVE (ShimOnCourse /\ RelaysAt(Position) /\ ChecksPassed)'
  <2>1. ShimOnCourse /\ RelaysAt(Position) /\ ChecksPassed
    BY <1>4 DEF CourseInv, OnCourse
  <2>2. queue = <<pc>> /\ Head(queue) = pc /\ waiting /\ heard = None
    BY <1>1, <2>1 DEF ShimOnCourse
  <2>3. campaign \in DOMAIN Scripts /\ pc \in DOMAIN Script /\ pc \in Nat \ {0} /\ ViaShim(Now)
    BY <2>2, ScriptDomain DEF Inv, Progress, Heard
  <2>4. Position = pc
    BY <1>1, <2>2 DEF Position
  <2>5. /\ Saw(Now, world, clock, Run) = Sees(pc)
        /\ DOMAIN After(Now, world, clock, Run) = Nodes /\ DOMAIN Ours[pc + 1].world = Nodes
        /\ Clocked(Now, clock) = Ours[pc + 1].clock
        /\ \A n \in Known(campaign, attempt, pc + 1) :
             After(Now, world, clock, Run)[n] = Ours[pc + 1].world[n]
    BY <1>4, <2>1, <2>3, <2>4, Advance
  <2>6. world' = After(Now, world, clock, Run) /\ handler' = <<pc, Sees(pc)>>
    BY <2>2, <2>5 DEF HandlerRuns, Now
  <2>7. Clocked(Now, clock) = clock
    <3>1. Now.op \in {"publish", "resolve"}
      BY <2>3, WantedAnswers
    <3>2. QED
      BY <3>1 DEF Clocked
  <2>8. handler' # None
    BY <1>4, <2>3, <2>6, Answers
  <2>9. Position' = pc + 1
    BY <1>1, <2>8 DEF Position
  <2>10. RelaysAt(Position)'
    BY <1>1, <1>3, <2>5, <2>6, <2>7, <2>9 DEF RelaysAt
  <2>11. ShimOnCourse'
    BY <1>1, <1>3, <2>2, <2>6 DEF ShimOnCourse, Sees
  <2>12. ChecksPassed'
    BY <1>1, <1>3, <2>1 DEF ChecksPassed, Sees
  <2>13. QED
    BY <2>10, <2>11, <2>12
<1>5. QED
  BY <1>1, <1>2, <1>3, <1>4 DEF CourseInv, OnCourse, Unhurt, Attempts

LEMMA RepliesOnCourse == ASSUME Inv, CourseInv, HandlerReplies PROVE CourseInv'
<1>1. /\ handler # None /\ capture' = handler /\ queue' = Tail(queue) /\ handler' = None
      /\ heard' = IF waiting /\ heard = None /\ handler[1] = pc THEN handler[2] ELSE heard
      /\ UNCHANGED <<campaign, quirk, attempt, hurt, pc, world, clock, failed, ending,
                     waiting>>
  BY DEF HandlerReplies
<1>2. Clean' => Clean
  <2>1. heard = <<"failed">> => heard' = <<"failed">>
    BY <1>1, CourseAssumption
  <2>2. QED
    BY <1>1, <2>1 DEF Clean
<1>3. Ours' = Ours /\ (Covered' <=> Covered) /\ Script' = Script
      /\ \A k : Seen(campaign', Run', Ours', k) = Sees(k)
  BY <1>1, SameRun, SeesSame
<1>4. ASSUME Covered, Clean
      PROVE  /\ (ShimOnCourse /\ RelaysAt(Position) /\ ChecksPassed)'
             /\ heard' = Sees(pc) /\ waiting
  <2>1. ShimOnCourse /\ RelaysAt(Position) /\ ChecksPassed
    BY <1>4 DEF CourseInv, OnCourse
  <2>2. handler = <<pc, Sees(pc)>> /\ heard = None
    BY <1>1, <2>1 DEF ShimOnCourse
  <2>3. queue = <<pc>> /\ waiting
    BY <1>1, <2>1 DEF ShimOnCourse, Inv, Queued
  <2>4. campaign \in DOMAIN Scripts /\ pc \in DOMAIN Script
    BY <2>3 DEF Inv, Progress, Heard
  <2>5. heard' = Sees(pc) /\ queue' = <<>> /\ capture' = <<pc, Sees(pc)>>
    BY <1>1, <2>2, <2>3
  <2>6. Position' = pc + 1 /\ Position = pc + 1
    BY <1>1, <1>4, <2>4, <2>5, Answers DEF Position
  <2>7. ShimOnCourse'
    BY <1>1, <1>3, <2>1, <2>5 DEF ShimOnCourse, Sees
  <2>8. RelaysAt(Position)'
    BY <1>1, <1>3, <2>1, <2>6 DEF RelaysAt
  <2>9. ChecksPassed'
    BY <1>1, <1>3, <2>1 DEF ChecksPassed, Sees
  <2>10. QED
    BY <2>3, <2>5, <2>7, <2>8, <2>9
<1>5. Unhurt'
  <2>1. SUFFICES ASSUME Covered', quirk' = None, ~hurt' PROVE Clean'
    BY DEF Unhurt
  <2>2. Covered /\ quirk = None /\ Clean
    BY <1>1, <1>3, <2>1 DEF CourseInv, Unhurt
  <2>3. heard' = Sees(pc) /\ waiting
    BY <1>4, <2>2
  <2>4. campaign \in DOMAIN Scripts /\ pc \in DOMAIN Script /\ ViaShim(Now)
    BY <2>3 DEF Inv, Progress, Heard
  <2>5. Sees(pc) # <<"failed">>
    BY <2>2, <2>4, Unsurprising, WantedAnswers
  <2>6. QED
    BY <1>1, <2>2, <2>3, <2>5 DEF Clean
<1>6. QED
  BY <1>1, <1>2, <1>3, <1>4, <1>5 DEF CourseInv, OnCourse, Attempts

LEMMA ConcludeOnCourse == ASSUME Inv, CourseInv, Conclude PROVE CourseInv'
<1>1. /\ Running /\ heard # None /\ waiting' = FALSE /\ heard' = None
      /\ UNCHANGED <<campaign, quirk, attempt, hurt, world, queue, handler, capture>>
      /\ capture = None => ending' = "raised"
      /\ capture # None => /\ failed' = Check(Now, heard) \cup Check(Now, capture[2])
                           /\ pc' = pc + 1 /\ ending' = ending /\ clock' = clock
  BY DEF Conclude
<1>2. campaign \in DOMAIN Scripts /\ pc \in DOMAIN Script /\ pc \in Nat \ {0} /\ ViaShim(Now)
  BY <1>1, ScriptDomain DEF Inv, Progress, Heard
<1>3. <<"failed">> \notin Now.want
  BY <1>2, WantedAnswers
<1>4. Ours' = Ours /\ (Covered' <=> Covered) /\ Script' = Script
      /\ \A k : Seen(campaign', Run', Ours', k) = Sees(k)
  BY <1>1, SameRun, SeesSame
<1>5. Clean' => Clean
  <2>1. SUFFICES ASSUME Clean' PROVE Clean
    OBVIOUS
  <2>2. capture # None /\ failed' = Check(Now, heard) \cup Check(Now, capture[2]) /\ failed' = {}
    BY <1>1, <2>1 DEF Clean
  <2>3. failed = {} /\ heard \in Now.want
    BY <2>2 DEF Check
  <2>4. ending # "raised"
    BY <1>1 DEF Running
  <2>5. QED
    BY <1>3, <2>3, <2>4 DEF Clean
<1>6. ASSUME Covered, Clean
      PROVE  /\ heard = Sees(pc) /\ queue = <<>> /\ handler = None
             /\ failed' = Check(Now, Sees(pc)) /\ pc' = pc + 1 /\ ending' = ending
             /\ RelaysAt(pc)' /\ ChecksPassed
  <2>1. ShimOnCourse /\ RelaysAt(Position) /\ ChecksPassed
    BY <1>6 DEF CourseInv, OnCourse
  <2>2. /\ heard = Sees(pc) /\ capture = <<pc, Sees(pc)>> /\ queue = <<>> /\ handler = None
       
    BY <1>1, <2>1 DEF ShimOnCourse
  <2>3. capture # None
    BY <1>2, <1>6, <2>2, Answers
  <2>4. failed' = Check(Now, Sees(pc)) /\ pc' = pc + 1 /\ ending' = ending /\ clock' = clock
    BY <1>1, <2>2, <2>3
  <2>5. Position = pc + 1
    BY <1>1 DEF Position
  <2>6. RelaysAt(pc)'
    BY <1>1, <1>4, <2>1, <2>4, <2>5 DEF RelaysAt
  <2>7. QED
    BY <2>1, <2>2, <2>4, <2>6
<1>7. OnCourse'
  <2>1. SUFFICES ASSUME Covered', Clean' PROVE (ShimOnCourse /\ RelaysAt(Position) /\ ChecksPassed)'
    BY DEF OnCourse
  <2>2. Covered /\ Clean
    BY <1>4, <1>5, <2>1
  <2>3. Sees(pc) \in Now.want
    BY <1>6, <2>1, <2>2 DEF Check, Clean
  <2>4. ChecksPassed'
    BY <1>1, <1>2, <1>6, <2>2, <2>3, StepsOn DEF Inv
  <2>5. ShimOnCourse'
    BY <1>1, <1>6, <2>2 DEF ShimOnCourse
  <2>6. Position' = pc'
    BY <1>1, <1>6, <2>2 DEF Position
  <2>7. RelaysAt(Position)'
    BY <1>6, <2>2, <2>6 DEF RelaysAt
  <2>8. QED
    BY <2>4, <2>5, <2>7
<1>8. Unhurt'
  <2>1. SUFFICES ASSUME Covered', quirk' = None, ~hurt' PROVE Clean'
    BY DEF Unhurt
  <2>2. Covered /\ quirk = None /\ Clean
    BY <1>1, <1>4, <2>1 DEF CourseInv, Unhurt
  <2>3. Sees(pc) \in Now.want
    BY <1>2, <2>2, Unsurprising
  <2>4. failed' = {} /\ ending' = ending /\ heard' = None
    BY <1>1, <1>6, <2>2, <2>3 DEF Check, Clean
  <2>5. QED
    BY <2>2, <2>4, CourseAssumption DEF Clean
<1>9. QED
  BY <1>1, <1>7, <1>8 DEF CourseInv, Attempts

LEMMA NextOnCourse == Inv /\ Logged /\ CourseInv /\ [Next]_vars => CourseInv'
<1> SUFFICES ASSUME Inv, Logged, CourseInv, [Next]_vars PROVE CourseInv'
  OBVIOUS
<1>1. CASE Report
  <2>1. /\ UNCHANGED <<campaign, quirk, attempt, hurt, pc, world, clock, failed,
                       waiting, queue, handler, capture, heard>>
        /\ ending = "running" /\ ending' = "report"
    BY <1>1 DEF Report, shim
  <2>2. QED
    BY <2>1, StandsOnCourse
<1>2. CASE UNCHANGED vars
  <2>1. UNCHANGED <<campaign, quirk, attempt, hurt, pc, world, clock, failed, ending,
                    waiting, queue, handler, capture, heard>>
    BY <1>2 DEF vars, shim
  <2>2. QED
    BY <2>1, StandsOnCourse
<1>3. QED
  BY <1>1, <1>2, DoOnCourse, FaultsOffCourse, AgainOnCourse, SendOnCourse, RunsOnCourse,
     RepliesOnCourse, ConcludeOnCourse DEF Next

-----------------------------------------------------------------------------
(* What an earlier attempt of campaign 1 has left.                         *)

Agrees(w, v) == DOMAIN w = Nodes /\ DOMAIN v = Nodes /\ \A n \in Family : w[n] = v[n]

\* The relays of the family are where one of the courses from what was left has them,
\* whatever failed; where the attempt ended, they are where it has had them.
Follows(course) ==
  /\ ending # "raised" => Agrees(world, course[pc].world) /\ clock = course[pc].clock
  /\ ending = "raised" => \E k \in 1 .. Len(Script) + 1 : Agrees(world, course[k].world)

\* The shim is asked for the steps through it alone.
Requested == \A i \in 1 .. Len(queue) : queue[i] \in DOMAIN Script /\ ViaShim(Script[queue[i]])

Inherits == campaign = "campaign1" /\ quirk = None => \E course \in Lineage[attempt] : Follows(course)

FamilyInv == Requested /\ Inherits

\* A step changes no other relay than the one it writes.
LEMMA AfterElsewhere ==
  ASSUME NEW s, NEW w, NEW clk, NEW run, DOMAIN w = Nodes
  PROVE  /\ DOMAIN After(s, w, clk, run) = Nodes
         /\ \A n \in Nodes \ Writes(s) : After(s, w, clk, run)[n] = w[n]
<1>1. ASSUME NEW x, After(s, w, clk, run) = [w EXCEPT ![s.at] = x], Writes(s) = {s.at}
      PROVE  /\ DOMAIN After(s, w, clk, run) = Nodes
             /\ \A n \in Nodes \ Writes(s) : After(s, w, clk, run)[n] = w[n]
  BY <1>1
<1>2. CASE s.op = "serve"
  <2>1. Writes(s) = {s.at}
    BY <1>2 DEF Writes
  <2>2. \/ After(s, w, clk, run) = [w EXCEPT ![s.at] = Fresh(s.at, s.side, run)]
        \/ After(s, w, clk, run) = w
    BY <1>2 DEF After
  <2>3. QED
    BY <1>1, <2>1, <2>2
<1>3. CASE s.op \in {"create", "publish", "pull", "fixture", "seed"}
  <2>1. Writes(s) = {s.at}
    BY <1>3 DEF Writes
  <2>2. \E x : After(s, w, clk, run) = [w EXCEPT ![s.at] = x]
    <3>1. CASE s.op = "create"
      BY <3>1 DEF After
    <3>2. CASE s.op = "publish"
      BY <3>2 DEF After
    <3>3. CASE s.op = "pull"
      BY <3>3 DEF After
    <3>4. CASE s.op = "fixture"
      BY <3>4 DEF After
    <3>5. CASE s.op = "seed"
      BY <3>5 DEF After
    <3>6. QED
      BY <1>3, <3>1, <3>2, <3>3, <3>4, <3>5
  <2>3. QED
    BY <1>1, <2>1, <2>2
<1>4. CASE s.op \notin {"serve", "create", "publish", "pull", "fixture", "seed"}
  <2>1. Writes(s) = {} /\ After(s, w, clk, run) = w
    BY <1>4 DEF Writes, After
  <2>2. QED
    BY <2>1
<1>5. QED
  BY <1>2, <1>3, <1>4

\* A step of the script moves the family as a course does; one that may fail, or is the
\* shim's, leaves it and the clocks alone.
LEMMA FamilyMoves ==
  ASSUME "campaign1" \in DOMAIN Scripts, NEW k \in DOMAIN Scripts["campaign1"], NEW course, NEW run, NEW w,
         Taken("campaign1", run, course), Agrees(w, course[k].world)
  PROVE  LET s == Scripts["campaign1"][k]
         IN /\ Agrees(After(s, w, course[k].clock, run), course[k + 1].world)
            /\ Clocked(s, course[k].clock) = course[k + 1].clock
            /\ s.soft \/ ViaShim(s) => Agrees(w, course[k + 1].world) /\ course[k + 1].clock = course[k].clock
            /\ \A clk : ViaShim(s) => Agrees(After(s, w, clk, run), course[k].world)
<1> DEFINE s == Scripts["campaign1"][k]
           v == course[k].world
           clk0 == course[k].clock
<1>1. course[k + 1].world = After(s, v, clk0, run) /\ course[k + 1].clock = Clocked(s, clk0)
  BY DEF Taken
<1>2. /\ Writes(s) \cap Family # {} => Reads(s) \subseteq Family /\ ~s.soft /\ ~ViaShim(s)
      /\ s.soft => s.op \notin {"serve", "reclock", "stop", "seed"}
  BY LineageAssumption DEF Secluded
<1>3. ViaShim(s) => s.op \in {"publish", "resolve"}
  BY LiveAssumption DEF WellFormed
<1>4. DOMAIN w = Nodes /\ DOMAIN v = Nodes /\ \A n \in Family : w[n] = v[n]
  BY DEF Agrees
<1>5. Family \subseteq Nodes
  BY DEF Family, Nodes
<1> HIDE DEF s, v, clk0
<1>6. ASSUME Writes(s) \cap Family = {}, NEW u, DOMAIN u = Nodes, NEW clk
      PROVE  DOMAIN After(s, u, clk, run) = Nodes /\ \A n \in Family : After(s, u, clk, run)[n] = u[n]
  <2>1. /\ DOMAIN After(s, u, clk, run) = Nodes
        /\ \A n \in Nodes \ Writes(s) : After(s, u, clk, run)[n] = u[n]
    BY <1>6, AfterElsewhere
  <2>2. QED
    BY <1>5, <1>6, <2>1
<1>7. Agrees(After(s, w, clk0, run), After(s, v, clk0, run))
  <2>1. CASE Writes(s) \cap Family = {}
    BY <1>4, <1>6, <2>1 DEF Agrees
  <2>2. CASE Writes(s) \cap Family # {}
    <3>1. Reads(s) \subseteq Family
      BY <1>2, <2>2
    <3>2. /\ DOMAIN After(s, w, clk0, run) = Nodes /\ DOMAIN After(s, v, clk0, run) = Nodes
          /\ \A n \in Nodes : n \in Family \/ n \in Made(s) =>
               After(s, w, clk0, run)[n] = After(s, v, clk0, run)[n]
      BY <1>4, <3>1, AfterAgrees
    <3>3. QED
      BY <1>5, <3>2 DEF Agrees
  <2>3. QED
    BY <2>1, <2>2
<1>8. ASSUME s.soft \/ ViaShim(s)
      PROVE  Agrees(w, After(s, v, clk0, run)) /\ Clocked(s, clk0) = clk0
  <2>1. Writes(s) \cap Family = {}
    BY <1>2, <1>8
  <2>2. Agrees(w, After(s, v, clk0, run))
    BY <1>4, <1>6, <2>1 DEF Agrees
  <2>3. s.op \notin {"serve", "reclock", "stop", "seed"}
    BY <1>2, <1>3, <1>8
  <2>4. QED
    BY <2>2, <2>3 DEF Clocked
<1>9. ASSUME ViaShim(s), NEW clk PROVE Agrees(After(s, w, clk, run), v)
  <2>1. Writes(s) \cap Family = {}
    BY <1>2, <1>9
  <2>2. QED
    BY <1>4, <1>6, <2>1 DEF Agrees
<1>10. QED
  BY <1>1, <1>7, <1>8, <1>9 DEF s, v, clk0

\* What the shim is asked for stays so.
LEMMA RequestedNext == ASSUME Inv, Requested, [Next]_vars PROVE Requested'
<1>0. queue \in Seq(Nat)
  BY DEF Inv, Queued
<1>1. CASE Send
  <2>1. /\ Running /\ ViaShim(Now) /\ queue' = Append(queue, pc) /\ UNCHANGED campaign
    BY <1>1 DEF Send
  <2>2. pc \in DOMAIN Script /\ pc \in Nat /\ Script' = Script
    BY <2>1, ScriptDomain DEF Inv, Progress, Running, Script
  <2>3. /\ Len(queue') = Len(queue) + 1 /\ Len(queue) \in Nat
        /\ \A i \in 1 .. Len(queue') : queue'[i] = IF i <= Len(queue) THEN queue[i] ELSE pc
    BY <1>0, <2>1, <2>2
  <2>4. QED
    BY <2>1, <2>2, <2>3 DEF Requested, Now
<1>2. CASE HandlerReplies \/ HandlerFails
  <2>1. queue' = Tail(queue) /\ UNCHANGED campaign /\ queue # <<>>
    BY <1>2 DEF HandlerReplies, HandlerFails, Inv, Queued
  <2>2. /\ Len(queue') = Len(queue) - 1 /\ Len(queue) \in Nat
        /\ \A i \in 1 .. Len(queue') : queue'[i] = queue[i + 1]
    BY <1>0, <2>1
  <2>3. QED
    BY <2>1, <2>2 DEF Requested, Script
<1>3. CASE queue' = <<>>
  BY <1>3 DEF Requested
<1>4. CASE UNCHANGED <<campaign, queue>>
  BY <1>4 DEF Requested, Script
<1>5. QED
  BY <1>1, <1>2, <1>3, <1>4 DEF Next, vars, shim, Do, CliFails, Raises, StartRaises, Report, Again,
     HandlerRuns, ClientGivesUp, Conclude

LEMMA FamilyFacts ==
  ASSUME Inv, CourseInv, campaign = "campaign1", quirk = None, NEW course \in Lineage[attempt]
  PROVE  /\ "campaign1" \in DOMAIN Scripts /\ Script = Scripts["campaign1"] /\ attempt \in 1 .. MaxAttempts
         /\ Taken("campaign1", Run, course)
         /\ AllSettled("campaign1", course[Len(Script) + 1].world)
         /\ attempt < MaxAttempts => \A k \in 1 .. Len(Script) + 1 :
              \E further \in Lineage[attempt + 1] : StartsWith(further, Remains(Script, course[k].world))
<1>1. "campaign1" \in DOMAIN Scripts /\ Script = Scripts["campaign1"] /\ attempt \in 1 .. MaxAttempts
  BY DEF Inv, Progress, CourseInv, Attempts, Script
<1>2. Run = [quirk |-> None, attempt |-> attempt]
  BY DEF Run
<1>3. QED
  BY <1>1, <1>2, LineageAssumption

\* What the step the script is at, and one at the shim, make of the family.
LEMMA FamilyStep ==
  ASSUME Inv, CourseInv, campaign = "campaign1", quirk = None, NEW course \in Lineage[attempt],
         Follows(course), pc \in DOMAIN Script, ending = "running"
  PROVE  /\ Agrees(After(Now, world, clock, Run), course[pc + 1].world)
         /\ Clocked(Now, clock) = course[pc + 1].clock
         /\ Now.soft \/ ViaShim(Now) => Agrees(world, course[pc + 1].world) /\ course[pc + 1].clock = clock
<1>1. /\ "campaign1" \in DOMAIN Scripts /\ Script = Scripts["campaign1"]
      /\ Taken("campaign1", Run, course)
  BY FamilyFacts
<1>2. Agrees(world, course[pc].world) /\ clock = course[pc].clock
  BY DEF Follows
<1>3. Now = Scripts["campaign1"][pc] /\ pc \in DOMAIN Scripts["campaign1"]
  BY <1>1 DEF Now
<1>4. QED
  BY <1>1, <1>2, <1>3, FamilyMoves

\* The relays of the family stay where they are.
LEMMA FamilyStands ==
  ASSUME NEW course, Follows(course), UNCHANGED <<campaign, pc, clock, world>>,
         ending # "raised", ending' # "raised"
  PROVE  Follows(course)'
BY DEF Follows, Agrees, Script

LEMMA FamilyMain ==
  ASSUME Inv, CourseInv, campaign = "campaign1", quirk = None, NEW course \in Lineage[attempt],
         Follows(course), Do \/ CliFails \/ Raises \/ StartRaises \/ Report
  PROVE  Follows(course)'
<1>0. UNCHANGED campaign /\ ending = "running" /\ Script' = Script
  BY DEF Do, CliFails, Raises, StartRaises, Report, Running, Script
<1>1. CASE Report
  BY <1>0, <1>1, FamilyStands DEF Report
<1>2. CASE Do \/ CliFails \/ Raises \/ StartRaises
  <2>1. pc \in DOMAIN Script /\ pc \in Nat /\ pc \in 1 .. Len(Script) + 1 /\ pc + 1 \in 1 .. Len(Script) + 1
    BY <1>2, ScriptDomain DEF Do, CliFails, Raises, StartRaises, Running, Inv, Progress
  <2>2. /\ Agrees(After(Now, world, clock, Run), course[pc + 1].world)
        /\ Clocked(Now, clock) = course[pc + 1].clock
        /\ Now.soft \/ ViaShim(Now) => Agrees(world, course[pc + 1].world) /\ course[pc + 1].clock = clock
    BY <1>0, <2>1, FamilyStep
  <2>3. Agrees(world, course[pc].world)
    BY <1>0 DEF Follows
  <2>4. CASE Do
    <3>1. pc' = pc + 1 /\ world' = After(Now, world, clock, Run) /\ clock' = Clocked(Now, clock)
          /\ ending' = ending
      BY <2>4 DEF Do
    <3>2. Agrees(world', course[pc'].world) /\ clock' = course[pc'].clock /\ ending' # "raised"
      BY <1>0, <2>2, <3>1
    <3>3. QED
      BY <3>2 DEF Follows, Agrees
  <2>5. CASE CliFails
    <3>1. pc' = pc + 1 /\ world' \in {world, After(Now, world, clock, Run)} /\ clock' = clock
          /\ ending' = ending /\ Now.soft
      BY <2>5 DEF CliFails
    <3>2. Agrees(world', course[pc'].world) /\ clock' = course[pc'].clock /\ ending' # "raised"
      BY <1>0, <2>2, <3>1
    <3>3. QED
      BY <3>2 DEF Follows, Agrees
  <2>6. CASE Raises \/ StartRaises
    <3>1. ending' = "raised" /\ world' \in {world, After(Now, world, clock, Run)}
      BY <2>6 DEF Raises, StartRaises
    <3>2. \E k \in 1 .. Len(Script) + 1 : Agrees(world', course[k].world)
      BY <2>1, <2>2, <2>3, <3>1
    <3>3. QED
      BY <1>0, <3>1, <3>2 DEF Follows, Agrees
  <2>7. QED
    BY <1>2, <2>4, <2>5, <2>6
<1>3. QED
  BY <1>1, <1>2

LEMMA FamilyShim ==
  ASSUME Inv, CourseInv, campaign = "campaign1", quirk = None, NEW course \in Lineage[attempt],
         Follows(course), Requested,
         Send \/ HandlerRuns \/ HandlerReplies \/ HandlerFails \/ ClientGivesUp \/ Conclude
  PROVE  Follows(course)'
<1>0. UNCHANGED campaign /\ Script' = Script
  BY DEF Send, HandlerRuns, HandlerReplies, HandlerFails, ClientGivesUp, Conclude, Script
<1>1. CASE Send \/ ClientGivesUp
  BY <1>1, FamilyStands DEF Send, ClientGivesUp, Running
<1>2. CASE HandlerReplies
  BY <1>0, <1>2 DEF HandlerReplies, Follows, Agrees
<1>3. CASE HandlerRuns \/ HandlerFails
  <2>1. /\ ending = "running" /\ queue # <<>>
        /\ world' \in {world, After(Script[Head(queue)], world, clock, Run)}
        /\ UNCHANGED <<pc, clock, ending>>
    BY <1>3 DEF HandlerRuns, HandlerFails
  <2>2. Head(queue) \in DOMAIN Script /\ ViaShim(Script[Head(queue)])
    BY <2>1 DEF Requested, Inv, Queued
  <2>3. /\ "campaign1" \in DOMAIN Scripts /\ Script = Scripts["campaign1"]
        /\ Taken("campaign1", Run, course)
    BY FamilyFacts
  <2>4. Agrees(world, course[pc].world) /\ clock = course[pc].clock
    BY <2>1 DEF Follows
  <2>5. Writes(Script[Head(queue)]) \cap Family = {}
    BY <2>2, <2>3, LineageAssumption DEF Secluded
  <2>6. /\ DOMAIN world' = Nodes
        /\ \A n \in Nodes \ Writes(Script[Head(queue)]) : world'[n] = world[n]
    BY <2>1, <2>4, AfterElsewhere DEF Agrees
  <2>7. Family \subseteq Nodes
    BY DEF Family, Nodes
  <2>8. \A n \in Family : world'[n] = world[n]
    BY <2>5, <2>6, <2>7
  <2>9. Agrees(world', course[pc].world)
    BY <2>4, <2>6, <2>8 DEF Agrees
  <2>10. QED
    BY <2>1, <2>4, <2>9 DEF Follows, Agrees
<1>4. CASE Conclude
  <2>1. /\ Running /\ heard # None /\ world' = world
        /\ \/ ending' = "raised" /\ pc' = pc
           \/ ending' = ending /\ pc' = pc + 1 /\ clock' = clock
    BY <1>4 DEF Conclude
  <2>2. pc \in DOMAIN Script /\ ViaShim(Now) /\ pc \in 1 .. Len(Script) + 1 /\ ending = "running"
    BY <2>1 DEF Inv, Heard, Progress, Running
  <2>3. Agrees(world, course[pc + 1].world) /\ course[pc + 1].clock = clock /\ Agrees(world, course[pc].world)
    BY <2>2, FamilyStep DEF Follows
  <2>4. CASE ending' = "raised" /\ pc' = pc
    BY <1>0, <2>1, <2>2, <2>3, <2>4 DEF Follows, Agrees
  <2>5. CASE ending' = ending /\ pc' = pc + 1 /\ clock' = clock
    BY <2>1, <2>2, <2>3, <2>5 DEF Follows, Agrees
  <2>6. QED
    BY <2>1, <2>4, <2>5
<1>5. QED
  BY <1>1, <1>2, <1>3, <1>4

\* The next attempt starts with what is left, and has a course from there.
LEMMA FamilyAgain ==
  ASSUME Inv, CourseInv, campaign = "campaign1", quirk = None, NEW course \in Lineage[attempt],
         Follows(course), Again
  PROVE  \E further \in Lineage[attempt'] : Follows(further)'
<1>1. /\ attempt < MaxAttempts /\ attempt' = attempt + 1 /\ pc' = 1 /\ ending' = "running"
      /\ world' = [n \in Nodes |-> IF n \in Databases(Script) THEN world[n] ELSE None]
      /\ clock' = [n \in Nodes |-> None]
  BY DEF Again
<1>2. PICK k \in 1 .. Len(Script) + 1 : Agrees(world, course[k].world)
  BY DEF Follows, Inv, Progress
<1>3. PICK further \in Lineage[attempt + 1] : StartsWith(further, Remains(Script, course[k].world))
  BY <1>1, FamilyFacts
<1>4. further[1].world = Remains(Script, course[k].world) /\ further[1].clock = [n \in Nodes |-> None]
  BY <1>3 DEF StartsWith
<1>5. Agrees(world', further[1].world)
  <2>1. Family \subseteq Nodes
    BY DEF Family, Nodes
  <2>2. \A n \in Family : world'[n] = further[1].world[n]
    BY <1>1, <1>2, <1>4, <2>1 DEF Agrees, Remains
  <2>3. QED
    BY <1>1, <1>4, <2>2 DEF Agrees, Remains
<1>6. Follows(further)'
  BY <1>1, <1>4, <1>5 DEF Follows, Agrees
<1>7. QED
  BY <1>1, <1>6

LEMMA InitFamily == Init => FamilyInv
<1> SUFFICES ASSUME Init PROVE FamilyInv
  OBVIOUS
<1>1. /\ campaign \in DOMAIN Scripts /\ pc = 1 /\ attempt = 1 /\ queue = <<>> /\ ending = "running"
      /\ world = [n \in Nodes |-> None] /\ clock = [n \in Nodes |-> None]
  BY DEF Init, StartsAt
<1>2. ASSUME campaign = "campaign1" PROVE \E course \in Lineage[attempt] : Follows(course)
  <2>1. PICK course \in Lineage[1] : StartsWith(course, [n \in Nodes |-> None])
    BY <1>1, <1>2, LineageAssumption
  <2>2. Family \subseteq Nodes
    BY DEF Family, Nodes
  <2>3. Follows(course)
    BY <1>1, <2>1, <2>2 DEF StartsWith, Follows, Agrees
  <2>4. QED
    BY <1>1, <2>3
<1>3. QED
  BY <1>1, <1>2 DEF FamilyInv, Requested, Inherits

LEMMA NextFamily == Inv /\ CourseInv /\ FamilyInv /\ [Next]_vars => FamilyInv'
<1> SUFFICES ASSUME Inv, CourseInv, FamilyInv, [Next]_vars PROVE FamilyInv'
  OBVIOUS
<1>1. Requested'
  BY RequestedNext DEF FamilyInv
<1>2. UNCHANGED <<campaign, quirk>>
  BY DEF Next, vars, Do, CliFails, Raises, StartRaises, Report, Again, Send, HandlerRuns, HandlerReplies,
     HandlerFails, ClientGivesUp, Conclude
<1>3. ASSUME campaign = "campaign1", quirk = None
      PROVE  \E further \in Lineage[attempt'] : Follows(further)'
  <2>1. PICK course \in Lineage[attempt] : Follows(course)
    BY <1>3 DEF FamilyInv, Inherits
  <2>2. CASE Again
    BY <1>3, <2>1, <2>2, FamilyAgain
  <2>3. CASE Do \/ CliFails \/ Raises \/ StartRaises \/ Report
    <3>1. attempt' = attempt
      BY <2>3 DEF Do, CliFails, Raises, StartRaises, Report
    <3>2. Follows(course)'
      BY <1>3, <2>1, <2>3, FamilyMain
    <3>3. QED
      BY <2>1, <3>1, <3>2
  <2>4. CASE Send \/ HandlerRuns \/ HandlerReplies \/ HandlerFails \/ ClientGivesUp \/ Conclude
    <3>1. attempt' = attempt
      BY <2>4 DEF Send, HandlerRuns, HandlerReplies, HandlerFails, ClientGivesUp, Conclude
    <3>2. Follows(course)'
      BY <1>3, <2>1, <2>4, FamilyShim DEF FamilyInv
    <3>3. QED
      BY <2>1, <3>1, <3>2
  <2>5. CASE UNCHANGED vars
    <3>1. UNCHANGED <<campaign, attempt, pc, world, clock, ending>>
      BY <2>5 DEF vars
    <3>2. Follows(course)'
      BY <2>1, <3>1 DEF Follows, Agrees, Script
    <3>3. QED
      BY <2>1, <3>1, <3>2
  <2>6. QED
    BY <2>2, <2>3, <2>4, <2>5 DEF Next
<1>4. QED
  BY <1>1, <1>2, <1>3 DEF FamilyInv, Inherits

-----------------------------------------------------------------------------
(* What a report is worth.                                                 *)

\* With the report, a campaign without a failed check has come to the end of its course.
LEMMA Finished ==
  ASSUME Inv, CourseInv, Covered, ending = "report", failed = {}
  PROVE  /\ pc = Len(Script) + 1 /\ RelaysAt(pc) /\ ChecksPassed
<1>1. pc = Len(Script) + 1 /\ Len(Script) \in Nat /\ DOMAIN Script = 1 .. Len(Script)
  BY ScriptDomain DEF Inv, Progress
<1>2. pc \notin DOMAIN Script
  BY <1>1
<1>3. ~waiting /\ heard = None
  BY <1>2 DEF Inv, Heard
<1>4. Clean
  BY <1>3, CourseAssumption DEF Clean
<1>5. QED
  BY <1>1, <1>3, <1>4, NoRequest

LEMMA InvNoFalseAlarm == Inv /\ CourseInv => NoFalseAlarm
<1> SUFFICES ASSUME Inv, CourseInv, ~hurt, quirk = None, campaign = "campaign1" => attempt = 1
             PROVE  failed = {}
  BY DEF NoFalseAlarm
<1>1. Covered
  BY DEF CourseInv, Attempts, Covered, CoveredRuns, Run
<1>2. QED
  BY <1>1 DEF CourseInv, Unhurt, Clean

LEMMA InvDeparturesNoticed == Inv /\ CourseInv => DeparturesNoticed
<1> SUFFICES ASSUME Inv, CourseInv, ending = "report", attempt = 1, quirk \in Noticed[campaign],
                    failed = {}
             PROVE  FALSE
  BY DEF DeparturesNoticed
<1>1. Covered /\ campaign \in DOMAIN Scripts
  BY DEF CourseInv, Attempts, Covered, CoveredRuns, Run, Inv, Progress
<1>2. PICK k \in DOMAIN Script : Sees(k) \notin Script[k].want
  BY <1>1, CourseFacts, RunFields DEF Rehearsed, Sees, Script
<1>3. DOMAIN Script = 1 .. Len(Script) /\ Len(Script) \in Nat
  BY <1>1, ScriptDomain
<1>4. pc = Len(Script) + 1 /\ ChecksPassed
  BY <1>1, Finished
<1>5. k \in 1 .. pc - 1
  BY <1>3, <1>4
<1>6. QED
  BY <1>2, <1>4, <1>5 DEF ChecksPassed

LEMMA InvEarnedReport == Inv /\ CourseInv /\ FamilyInv => EarnedReport
<1> SUFFICES ASSUME Inv, CourseInv, FamilyInv, ending = "report", failed = {}, quirk = None
             PROVE  misread = {} /\ AllSettled(campaign, world)
  BY DEF EarnedReport
<1>1. misread = {}
  BY DEF Inv, MisreadsFail
<1>2. CASE campaign = "campaign1"
  <2>1. PICK course \in Lineage[attempt] : Follows(course)
    BY <1>2 DEF FamilyInv, Inherits
  <2>2. pc = Len(Script) + 1 /\ Agrees(world, course[pc].world)
    BY <2>1 DEF Inv, Progress, Follows
  <2>3. AllSettled("campaign1", course[pc].world)
    BY <1>2, <2>1, <2>2, FamilyFacts
  <2>4. \A pair \in Compared("campaign1") : pair[1] \in Family /\ pair[2] \in Family
    BY DEF Compared, Family
  <2>5. \A pair \in Compared("campaign1") :
          world[pair[1]] = course[pc].world[pair[1]] /\ world[pair[2]] = course[pc].world[pair[2]]
    BY <2>2, <2>4 DEF Agrees
  <2>6. AllSettled("campaign1", world)
    BY <2>3, <2>5 DEF AllSettled, Settled
  <2>7. QED
    BY <1>1, <1>2, <2>6
<1>3. CASE campaign # "campaign1"
  <2>1. Covered
    BY <1>3 DEF CourseInv, Attempts, Covered, CoveredRuns, Run
  <2>2. pc = Len(Script) + 1 /\ RelaysAt(pc)
    BY <2>1, Finished
  <2>3. /\ AllSettled(campaign, Ours[pc].world)
        /\ \A pair \in Compared(campaign) : {pair[1], pair[2]} \subseteq Known(campaign, attempt, pc)
    BY <2>1, <2>2, CourseFacts, RunFields DEF Rehearsed, Script, Inv, Progress
  <2>4. ASSUME NEW pair \in Compared(campaign)
        PROVE  world[pair[1]] = Ours[pc].world[pair[1]] /\ world[pair[2]] = Ours[pc].world[pair[2]]
    BY <2>2, <2>3 DEF RelaysAt
  <2>5. AllSettled(campaign, world)
    BY <2>3, <2>4 DEF AllSettled, Settled
  <2>6. QED
    BY <1>1, <2>5
<1>4. QED
  BY <1>2, <1>3

-----------------------------------------------------------------------------
(* The theorems.                                                           *)

\* As long as nothing went wrong as far as the coordinator can tell, the campaign is where
\* its course is, and a participant that follows the specification never makes it look
\* otherwise (phase3.py: main, check).
THEOREM KeepsCourse == Spec => []CourseInv
<1>1. QED
  BY LiveInvariant, LogInvariant, InitOnCourse, NextOnCourse, PTL DEF Spec

\* A campaign in which nothing failed, between participants that follow the specification,
\* records no failed check (phase3.py: check), for any scripts with a course.
THEOREM NeverFalseAlarm == Spec => []NoFalseAlarm
<1>1. QED
  BY LiveInvariant, KeepsCourse, InvNoFalseAlarm, PTL

\* In every attempt of campaign 1, what it compares and what that depends on are where a
\* run from the leftovers of earlier attempts has them, whatever fails (phase3.py: main).
THEOREM KeepsLineage == Spec => []FamilyInv
<1>1. QED
  BY LiveInvariant, KeepsCourse, InitFamily, NextFamily, PTL DEF Spec

\* Whatever failed on the way, and whatever earlier attempts have left, a report without a
\* failed check read the bytes of its own exchanges and comes from relays that settled.
THEOREM ReportIsEarned == Spec => []EarnedReport
<1>1. QED
  BY LiveInvariant, KeepsCourse, KeepsLineage, InvEarnedReport, PTL

\* A departure a script is able to notice is in the report's failed checks, whatever
\* failed on the way.
THEOREM DepartureShows == Spec => []DeparturesNoticed
<1>1. QED
  BY LiveInvariant, KeepsCourse, InvDeparturesNoticed, PTL
=============================================================================
