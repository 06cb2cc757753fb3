----------------------------- MODULE LiveCourse -----------------------------
(***************************************************************************)
(* The course of a live campaign: the relays and their clocks before each  *)
(* step, when the script is run through without a failure.  It is computed *)
(* once from a script, with the operators of LiveStep and one step after   *)
(* the other; LiveExchange interleaves the same steps with the shim, its   *)
(* client and all that fails.                                              *)
(*                                                                         *)
(* What campaign 1 compares in the end depends on databases that an        *)
(* earlier attempt may have left, in any of the states they go through:    *)
(* its further attempts have a course for each of these.                   *)
(***************************************************************************)
EXTENDS LiveExchange

CONSTANTS
  Course,    \* by campaign, run and step: the relays and the clocks before it
  Lineage    \* by attempt: the courses of campaign 1, from all that may be left

\* The runs that have a course: first attempts, and further ones by participants that
\* follow the specification where the script makes its relays anew (campaign 1 does not).
CoveredRuns(c) ==
  {run \in [quirk : Quirks \cup {None}, attempt : 1 .. MaxAttempts] :
     run.attempt = 1 \/ (run.quirk = None /\ c # "campaign1")}

\* What a course shows at a step.
Seen(c, run, course, k) == Saw(Scripts[c][k], course[k].world, course[k].clock, run)

\* The relays whose state before step k is the same in every work directory: those a
\* first attempt or a new process starts from nothing, and those the script made anew.
Known(c, a, k) ==
  {n \in Nodes : \/ a = 1 \/ n \notin Databases(Scripts[c])
                 \/ \E j \in 1 .. k - 1 : n \in Made(Scripts[c][j])}

\* A course starts with no relay served, and takes every step of the script.
StartsWith(course, w) == course[1].world = w /\ course[1].clock = [n \in Nodes |-> None]
Taken(c, run, course) ==
  \A k \in DOMAIN Scripts[c] :
    /\ course[k + 1].world = After(Scripts[c][k], course[k].world, course[k].clock, run)
    /\ course[k + 1].clock = Clocked(Scripts[c][k], course[k].clock)
Undisturbed(c, run, course) ==
  StartsWith(course, [n \in Nodes |-> None]) /\ Taken(c, run, course)

\* No step looks at what an earlier attempt has left; what is seen is an answer.
SelfContained(c, run, course) ==
  \A k \in DOMAIN Scripts[c] :
    /\ Reads(Scripts[c][k]) \subseteq Known(c, run.attempt, k)
    /\ None \notin {Seen(c, run, course, k), <<k, Seen(c, run, course, k)>>}

\* Participants that follow the specification are seen to do what every step wants, and
\* settle; one that departs from it in a way the script notices is seen to.
Rehearsed(c, run, course) ==
  LET last == Len(Scripts[c]) + 1
      surprises == {k \in DOMAIN Scripts[c] : Seen(c, run, course, k) \notin Scripts[c][k].want}
  IN /\ run.quirk = None =>
          /\ surprises = {}
          /\ AllSettled(c, course[last].world)
          /\ \A pair \in Compared(c) : {pair[1], pair[2]} \subseteq Known(c, run.attempt, last)
     /\ run.quirk \in Noticed[c] => surprises # {}

ASSUME CourseAssumption ==
  /\ None # <<"failed">>
  /\ \A c \in DOMAIN Scripts : \A run \in CoveredRuns(c) :
       LET course == Course[c][run]
       IN Undisturbed(c, run, course) /\ SelfContained(c, run, course) /\ Rehearsed(c, run, course)

----------------------------------------------------------------------------
\* The relays that campaign 1 compares, with the one they meet in between.
Family == {"mrecv", "rust-relay", "rust-relay-reset"}

\* No step changes them that reads other relays, that the script lets fail, or that is the
\* shim's; and a step that may fail starts or stops nothing.
Secluded(script) ==
  \A k \in DOMAIN script :
    /\ Writes(script[k]) \cap Family # {} =>
         Reads(script[k]) \subseteq Family /\ ~script[k].soft /\ ~ViaShim(script[k])
    /\ script[k].soft => script[k].op \notin {"serve", "reclock", "stop", "seed"}

\* What an attempt that ends with the relays w leaves of them to the next.
Remains(script, w) == [n \in Nodes |-> IF n \in Family \cap Databases(script) THEN w[n] ELSE None]

ASSUME LineageAssumption ==
  "campaign1" \in DOMAIN Scripts =>
    LET script == Scripts["campaign1"]
        run(a) == [quirk |-> None, attempt |-> a]
    IN /\ Secluded(script)
       /\ \E course \in Lineage[1] : StartsWith(course, [n \in Nodes |-> None])
       /\ \A a \in 1 .. MaxAttempts : \A course \in Lineage[a] :
            /\ Taken("campaign1", run(a), course)
            /\ AllSettled("campaign1", course[Len(script) + 1].world)
            /\ a < MaxAttempts => \A k \in 1 .. Len(script) + 1 :
                 \E further \in Lineage[a + 1] : StartsWith(further, Remains(script, course[k].world))
=============================================================================
