--------------------------- MODULE MCLiveExchange ---------------------------
(* The three scripts, and each departure at either implementation.         *)
EXTENDS LiveCourse, Campaign1Live, Campaign2Live
MCScripts == [campaign1 |-> Campaign1Script, gates |-> GatesScript, campaign2 |-> Campaign2Script]
MCQuirks ==
  [side : {"rust", "motoko"},
   what : {"sharesGeneration", "ignoresBinding", "servesPremature", "hidesPremature", "readmits",
           "deduplicates", "repeatsEntry", "skipsToEnd", "spoilsPage", "resetForgets",
           "usesRejectedCursor"}]
MCFirstCampaign == [campaign1 |-> Campaign1Script]
MCNoQuirks == {}

\* The course of each run, step by step; @@ has TLC compute a function once.
Computed(f) == f @@ <<>>
ComputedNodes(w) ==
  Computed([n \in Nodes |-> IF w[n] = None THEN None ELSE [w[n] EXCEPT !.entries = Computed(@)]])
Nothing == Computed([n \in Nodes |-> None])
CourseFrom(c, run, w) ==
  LET next(s, now) == [world |-> ComputedNodes(After(s, now.world, now.clock, run)),
                       clock |-> Computed(Clocked(s, now.clock))]
  IN FoldLeft(LAMBDA course, s : Append(course, next(s, Last(course))),
              <<[world |-> w, clock |-> Nothing]>>, Scripts[c])
MCCourse == [c \in DOMAIN Scripts |-> [run \in CoveredRuns(c) |-> CourseFrom(c, run, Nothing)]]

\* The courses of the first attempt, and of the second from all that the first may leave.
MCLineage ==
  LET script == Scripts["campaign1"]
      course(a, w) == CourseFrom("campaign1", [quirk |-> None, attempt |-> a], w)
      first == course(1, Nothing)
      left == {ComputedNodes(Remains(script, first[k].world)) : k \in DOMAIN first}
  IN <<{first}, {course(2, w) : w \in left}>>
=============================================================================
