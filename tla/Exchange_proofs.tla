--------------------------- MODULE Exchange_proofs ---------------------------
(***************************************************************************)
(* For every batch, bundle and repertoire of answers: a report is written  *)
(* only when each side answered each case exactly once, and its verdicts   *)
(* then say of those answers what they should.                             *)
(***************************************************************************)
EXTENDS Exchange, FiniteSetTheorems, SequenceTheorems, TLAPS

\* The sides whose output _parse_responses has counted.
Counted == {s \in Side : \/ pc \in {"judge", "written"}
                         \/ pc = "motoko" /\ s = "rust"}

\* The inductive invariant: a counted output has one line per case, and a
\* report is the comparison of the outputs that still lie there.
Inv == /\ pc \in Side \cup {"judge", "written", "aborted", "died"}
       /\ printed \in [Side -> Seq(Response)]
       /\ \A s \in Counted : Len(printed[s]) = Total
       /\ pc = "written" => Answered /\ report = Report
       /\ pc # "written" => report = Null

\* The lines of the batch are its cases, one each, and there is one.
LEMMA BatchFacts ==
  Total \in Nat /\ IsFiniteSet(Case) /\ Cardinality(Case) = Total /\ Total # 0
<1>1. Total \in Nat /\ Lines \in Seq(Case)
  BY ExchangeAssumption DEF Total
<1>2. Lines \in Bijection(1 .. Total, Case)
  <2>1. Lines \in [1 .. Total -> Case]
    BY <1>1 DEF Total
  <2>2. Lines \in Injection(1 .. Total, Case)
    BY <2>1, ExchangeAssumption, Zenon DEF Injection, IsInjective
  <2>3. \A c \in Case : \E k \in 1 .. Total : Lines[k] = c
    BY DEF Case
  <2>4. QED
    BY <2>1, <2>2, <2>3, Zenon DEF Bijection, Surjection
<1>3. IsFiniteSet(1 .. Total) /\ Cardinality(1 .. Total) = Total
  BY <1>1, FS_Interval
<1>4. ExistsBijection(1 .. Total, Case)
  BY <1>2, Zenon DEF ExistsBijection
<1>5. IsFiniteSet(Case) /\ Cardinality(Case) = Total
  BY <1>3, <1>4, FS_Bijection, Zenon
<1>6. Total # 0
  BY <1>1, ExchangeAssumption DEF Case
<1>7. QED
  BY <1>1, <1>5, <1>6

\* A full output in which every case occurs has one line for each.
LEMMA OneLineEach ==
  ASSUME Inv, Answered, NEW s \in Side, Len(printed[s]) = Total
  PROVE  \A c \in Case : \E k \in 1 .. Total :
           /\ printed[s][k].id = c
           /\ \A j \in 1 .. Total : printed[s][j].id = c => j = k
<1> DEFINE idOf == [k \in 1 .. Total |-> printed[s][k].id]
<1>1. Total \in Nat /\ IsFiniteSet(1 .. Total) /\ Cardinality(1 .. Total) = Total
  BY BatchFacts, FS_Interval
<1>2. Ids(s) = {printed[s][k].id : k \in 1 .. Total}
  BY DEF Ids
<1>3. idOf \in Surjection(1 .. Total, Ids(s))
  BY <1>2 DEF Surjection
<1>4. Cardinality(Ids(s)) = Cardinality(1 .. Total) /\ Case \subseteq Ids(s)
  BY <1>1 DEF Answered
<1> HIDE DEF idOf
<1>5. idOf \in Injection(1 .. Total, Ids(s))
  BY <1>1, <1>3, <1>4, FS_Surjection, Zenon
<1> USE DEF idOf
<1>6. \A j, k \in 1 .. Total : printed[s][j].id = printed[s][k].id => j = k
  BY <1>5 DEF Injection, IsInjective
<1> HIDE DEF idOf
<1>7. \A c \in Case : \E k \in 1 .. Total : printed[s][k].id = c
  BY <1>2, <1>4
<1>8. QED
  BY <1>6, <1>7

\* What a side said of a case is then the one answer the comparison reads.
LEMMA ByIdIsSaid ==
  ASSUME Inv, Answered, NEW s \in Side, Len(printed[s]) = Total, NEW c \in Case
  PROVE  ById(s, c) \in Answer /\ Said(s, c) = {ById(s, c)}
<1>1. Total \in Nat
  BY BatchFacts
<1>2. PICK k \in 1 .. Total :
        /\ printed[s][k].id = c
        /\ \A j \in 1 .. Total : printed[s][j].id = c => j = k
  BY OneLineEach
<1> DEFINE Last(i) == /\ printed[s][i].id = c
                      /\ \A j \in i + 1 .. Len(printed[s]) : printed[s][j].id # c
<1>3. Last(k) /\ \A i \in 1 .. Len(printed[s]) : Last(i) => i = k
  BY <1>1, <1>2
<1>4. (CHOOSE i \in 1 .. Len(printed[s]) : Last(i)) = k
  BY <1>3
<1>5. ById(s, c) = printed[s][k].says
  BY <1>4, Zenon DEF ById
<1>6. printed[s][k] \in Response
  <2>1. printed[s] \in Seq(Response)
    BY DEF Inv
  <2>2. QED
    BY <2>1, <1>1
<1>7. {i \in 1 .. Len(printed[s]) : printed[s][i].id = c} = {k}
  BY <1>2
<1>8. Said(s, c) = {printed[s][k].says}
  BY <1>7 DEF Said
<1>9. QED
  BY <1>5, <1>6, <1>8 DEF Response

-----------------------------------------------------------------------------
(* The comparison of one answer.                                           *)

\* The status of an answer is one of three.
LEMMA StatusOf ==
  ASSUME NEW a \in Answer
  PROVE  a.status \in {"accepted", "rejected", "error"}
BY ExchangeAssumption DEF Answer

\* compare_case says match exactly of the answers that agree.
LEMMA MatchIsAgreement ==
  ASSUME NEW c \in Case, NEW a \in Answer
  PROVE  /\ Verdict(Expected[c], a) = "match" <=> Agrees(Expected[c], a)
         /\ Verdict(Expected[c], a) \in Verdicts
<1> DEFINE want == Expected[c]
<1>1. want.outcome \in {"accepted", "rejected"}
  BY ExchangeAssumption
<1>2. a.status \in {"accepted", "rejected", "error"}
  BY StatusOf
<1>3. MemberVerdict(want.members, a.result) = "match" <=>
        \A m \in DOMAIN want.members :
          m \in DOMAIN a.result /\ a.result[m] = want.members[m]
  BY DEF MemberVerdict, Mismatched, NotExposed
<1>4. MemberVerdict(want.members, a.result) \in Verdicts
  BY DEF MemberVerdict, Verdicts
<1> HIDE DEF want
<1>5. Verdict(want, a) = "match" <=> Agrees(want, a)
  BY <1>1, <1>2, <1>3 DEF Verdict, Agrees
<1>6. Verdict(want, a) \in Verdicts
  BY <1>4 DEF Verdict, Verdicts
<1> USE DEF want
<1>7. QED
  BY <1>5, <1>6

\* A coverage limitation is said exactly of the answers that merely omit: the
\* members that are not exposed are asked about after those that differ.
LEMMA LimitationIsOmission ==
  ASSUME NEW c \in Case, NEW a \in Answer
  PROVE  Verdict(Expected[c], a) = "coverageLimitation" <=> Omits(Expected[c], a)
<1> DEFINE want == Expected[c]
<1>1. want.outcome \in {"accepted", "rejected"}
  BY ExchangeAssumption
<1>2. a.status \in {"accepted", "rejected", "error"}
  BY StatusOf
<1>3. MemberVerdict(want.members, a.result) = "coverageLimitation" <=>
        /\ Mismatched(want.members, a.result) = {}
        /\ NotExposed(want.members, a.result) # {}
  BY DEF MemberVerdict
<1>4. Mismatched(want.members, a.result) = {} <=>
        \A m \in DOMAIN want.members \cap DOMAIN a.result :
          a.result[m] = want.members[m]
  BY DEF Mismatched
<1>5. NotExposed(want.members, a.result) # {} <=>
        \E m \in DOMAIN want.members : m \notin DOMAIN a.result
  BY DEF NotExposed
<1> HIDE DEF want
<1>6. Verdict(want, a) = "coverageLimitation" <=>
        /\ want.outcome = "accepted" /\ a.status = "accepted"
        /\ MemberVerdict(want.members, a.result) = "coverageLimitation"
  BY <1>1, <1>2 DEF Verdict
<1>7. Verdict(want, a) = "coverageLimitation" <=> Omits(want, a)
  BY <1>3, <1>4, <1>5, <1>6 DEF Omits
<1> USE DEF want
<1>8. QED
  BY <1>7

\* Two answers that both match the bundle do not differ on its members.
LEMMA CrossAfterMatch ==
  ASSUME NEW c \in VerifyCase, NEW r \in Answer, NEW m \in Answer,
         Cross(c, r, m) = "disagreement", CrossMember \subseteq DOMAIN Expected[c].members
  PROVE  Verdict(Expected[c], r) # "match" \/ Verdict(Expected[c], m) # "match"
<1> SUFFICES ASSUME Agrees(Expected[c], r), Agrees(Expected[c], m) PROVE FALSE
  <2>1. c \in Case
    BY ExchangeAssumption
  <2>2. QED
    BY <2>1, MatchIsAgreement
<1>1. r.status = "accepted" /\ m.status = "accepted"
  BY ExchangeAssumption DEF Cross
<1>2. Expected[c].outcome = "accepted"
  BY <1>1 DEF Agrees
<1>3. \A x \in CrossMember : Get(r.result, x) = Get(m.result, x)
  BY <1>2 DEF Agrees, Get
<1>4. Cross(c, r, m) \in {Null, "match"}
  BY <1>3 DEF Cross
<1>5. QED
  BY <1>4, ExchangeAssumption

-----------------------------------------------------------------------------
(* The invariant.                                                          *)

\* Nothing is counted before the first process ends.
LEMMA InitInv == Init => Inv
<1> SUFFICES ASSUME Init PROVE Inv
  OBVIOUS
<1>1. printed \in [Side -> Seq(Response)]
  BY EmptySeq DEF Init
<1>2. Counted = {}
  BY DEF Init, Counted
<1>3. QED
  BY <1>1, <1>2 DEF Init, Inv, Side

\* A process that runs is not a counted one.
LEMMA RunningIsNotCounted ==
  ASSUME NEW s \in Side, pc = s
  PROVE  s \notin Counted /\ pc \notin {"judge", "written", "aborted", "died"}
BY DEF Side, Counted

\* Appending to the output of the process that runs.
LEMMA PrintsInv ==
  ASSUME Inv, NEW s \in Side, pc = s, NEW r \in Response,
         printed' = [printed EXCEPT ![s] = Append(@, r)], UNCHANGED <<pc, report>>
  PROVE  Inv'
<1>1. s \notin Counted /\ pc \notin {"judge", "written", "aborted", "died"}
  BY RunningIsNotCounted
<1>2. printed' \in [Side -> Seq(Response)]
  BY AppendProperties DEF Inv
<1>3. Counted' = Counted
  BY DEF Counted
<1>4. \A t \in Counted : printed'[t] = printed[t]
  BY <1>1 DEF Inv, Counted
<1>5. QED
  BY <1>1, <1>2, <1>3, <1>4 DEF Inv

\* The comparison reads nothing but the outputs.
LEMMA SameComparison ==
  ASSUME UNCHANGED printed
  PROVE  (Answered <=> Answered') /\ Report' = Report
<1>1. \A s, c : ById(s, c)' = ById(s, c)
  BY Zenon DEF ById
<1>2. \A s : Ids(s)' = Ids(s)
  BY Zenon DEF Ids
<1>3. \A s : Invariant(s)' = Invariant(s)
  BY <1>1, Zenon DEF Invariant
<1>4. Answered <=> Answered'
  BY <1>2, Zenon DEF Answered
<1>5. Report' = Report
  BY <1>1, <1>3, Zenon DEF Report
<1>6. QED
  BY <1>4, <1>5

\* Every step keeps the invariant.
LEMMA NextInv == Inv /\ [Next]_vars => Inv'
<1> SUFFICES ASSUME Inv, [Next]_vars PROVE Inv'
  OBVIOUS
<1>1. ASSUME NEW s \in Side, Respond(s) PROVE Inv'
  <2>1. PICK i \in Id, a \in Answer :
          printed' = [printed EXCEPT ![s] = Append(@, [id |-> i, says |-> a])]
    <3>1. Len(printed[s]) \in Nat /\ Len(printed[s]) < Total
      BY <1>1 DEF Inv, Respond
    <3>2. Lines[Len(printed[s]) + 1] \in Id
      BY <3>1, BatchFacts DEF Case, Id
    <3>3. QED
      BY <1>1, <3>2 DEF Respond, Answer
  <2>2. [id |-> i, says |-> a] \in Response
    BY DEF Response
  <2>3. QED
    BY <1>1, <2>1, <2>2, PrintsInv DEF Respond
<1>2. ASSUME NEW s \in Side, Surplus(s) PROVE Inv'
  <2>1. Head(printed[s]) \in Response
    BY <1>2, BatchFacts DEF Surplus, Inv
  <2>2. QED
    BY <1>2, <2>1, PrintsInv DEF Surplus
<1>3. ASSUME NEW s \in Side, Dies(s) PROVE Inv'
  <2>1. pc # "written" /\ pc' = "died" /\ Counted' = {}
    BY <1>3, RunningIsNotCounted DEF Dies, Counted, Side
  <2>2. QED
    BY <1>3, <2>1 DEF Inv, Dies
<1>4. ASSUME NEW s \in Side, Collect(s) PROVE Inv'
  <2>1. pc = s /\ pc # "written" /\ pc' # "written"
    BY <1>4, RunningIsNotCounted DEF Collect
  <2>2. \A t \in Counted' : Len(printed[t]) = Total
    <3>1. CASE Torn(s) \/ Len(printed[s]) # Total
      BY <1>4, <3>1 DEF Collect, Counted
    <3>2. CASE Len(printed[s]) = Total /\ s = "rust" /\ ~Torn(s)
      BY <1>4, <3>2 DEF Collect, Counted
    <3>3. CASE Len(printed[s]) = Total /\ s = "motoko"
      BY <1>4, <3>3 DEF Collect, Counted, Inv, Side
    <3>4. QED
      BY <3>1, <3>2, <3>3 DEF Side
  <2>3. pc' \in Side \cup {"judge", "written", "aborted", "died"}
    BY <1>4 DEF Collect, Side
  <2>4. QED
    BY <1>4, <2>1, <2>2, <2>3 DEF Inv, Collect
<1>5. CASE Judge
  <2>1. Counted = Side /\ Counted' \subseteq Side
    BY <1>5 DEF Judge, Counted
  <2>2. CASE Answered
    <3>1. Answered' /\ Report' = Report
      BY <1>5, <2>2, SameComparison DEF Judge
    <3>2. QED
      BY <1>5, <2>1, <2>2, <3>1 DEF Judge, Inv
  <2>3. CASE ~Answered
    BY <1>5, <2>1, <2>3 DEF Judge, Inv
  <2>4. QED
    BY <2>2, <2>3
<1>6. CASE UNCHANGED vars
  <2>1. Counted' = Counted /\ (Answered <=> Answered') /\ Report' = Report
    BY <1>6, SameComparison DEF vars, Counted
  <2>2. QED
    BY <1>6, <2>1 DEF vars, Inv
<1>7. QED
  BY <1>1, <1>2, <1>3, <1>4, <1>5, <1>6 DEF Next, Finished

\* Whatever the participants print, in every reachable state: a report is the
\* comparison of two counted outputs that hold every case.
THEOREM ExchangeInvariant == Spec => []Inv
BY InitInv, NextInv, PTL DEF Spec

-----------------------------------------------------------------------------
(* The properties of the report.                                           *)

\* Where a report exists, both outputs are counted and complete.
LEMMA AtReport ==
  ASSUME Inv, report # Null
  PROVE  /\ pc = "written" /\ Answered /\ report = Report
         /\ \A s \in Side : Len(printed[s]) = Total
BY DEF Inv, Counted

\* What the report says of a case is said of the one answer to that case.
LEMMA ReportReads ==
  ASSUME Inv, report # Null, NEW c \in Case
  PROVE  /\ \A s \in Side : /\ report.verdict[s][c] = Verdict(Expected[c], ById(s, c))
                            /\ ById(s, c) \in Answer /\ Said(s, c) = {ById(s, c)}
         /\ report.cross[c] = Cross(c, ById("rust", c), ById("motoko", c))
<1>1. report = Report /\ Answered /\ \A s \in Side : Len(printed[s]) = Total
  BY AtReport
<1>2. \A s \in Side : ById(s, c) \in Answer /\ Said(s, c) = {ById(s, c)}
  BY <1>1, ByIdIsSaid
<1>3. QED
  BY <1>1, <1>2 DEF Report

\* A report has a verdict of the right kind for every side and case.
LEMMA TypeFromInv == Inv => TypeOK
<1> SUFFICES ASSUME Inv PROVE TypeOK
  OBVIOUS
<1>1. ASSUME pc = "written"
      PROVE  report \in [verdict : [Side -> [Case -> Verdicts]],
                         cross : [Case -> {"match", "disagreement", Null}],
                         invariant : [Side -> BOOLEAN]]
  <2>1. report = Report /\ Answered /\ \A s \in Side : Len(printed[s]) = Total
    BY <1>1 DEF Inv, Counted
  <2>2. \A s \in Side, c \in Case : Verdict(Expected[c], ById(s, c)) \in Verdicts
    BY <2>1, ByIdIsSaid, MatchIsAgreement
  <2>3. \A c \in Case : Cross(c, ById("rust", c), ById("motoko", c))
                          \in {"match", "disagreement", Null}
    BY DEF Cross
  <2>4. \A s \in Side : Invariant(s) \in BOOLEAN
    BY DEF Invariant
  <2>5. [s \in Side |-> [c \in Case |-> Verdict(Expected[c], ById(s, c))]]
          \in [Side -> [Case -> Verdicts]]
    BY <2>2
  <2>6. QED
    BY <2>1, <2>3, <2>4, <2>5 DEF Report
<1>2. QED
  BY <1>1 DEF Inv, TypeOK

\* The batch, the outputs and the report keep their type.
THEOREM TypeCorrect == Spec => []TypeOK
BY ExchangeInvariant, TypeFromInv, PTL

\* A report is only written when each side answered each case exactly once
\* and said nothing else: the count of the lines, the count of the ids and the
\* lookups together leave no room for a lost, repeated or invented answer.
THEOREM NothingIsLost == Spec => []ReportIsTotal
<1>1. Inv => ReportIsTotal
  <2> SUFFICES ASSUME Inv, report # Null, NEW s \in Side
               PROVE  /\ Len(printed[s]) = Total
                      /\ \A c \in Case : Cardinality(Said(s, c)) = 1
    BY DEF ReportIsTotal
  <2>1. \A c \in Case : Said(s, c) = {ById(s, c)}
    BY ReportReads
  <2>2. QED
    BY <2>1, AtReport, FS_Singleton
<1>2. QED
  BY <1>1, ExchangeInvariant, PTL

\* A match is reported exactly of the answers that agree with the bundle, in
\* whatever order the answers came.
THEOREM MatchesAreEarned == Spec => []MatchIsEarned
<1>1. Inv => MatchIsEarned
  <2> SUFFICES ASSUME Inv, report # Null, NEW s \in Side, NEW c \in Case
               PROVE  report.verdict[s][c] = "match"
                        <=> \A a \in Said(s, c) : Agrees(Expected[c], a)
    BY DEF MatchIsEarned
  <2>1. /\ report.verdict[s][c] = Verdict(Expected[c], ById(s, c))
        /\ ById(s, c) \in Answer /\ Said(s, c) = {ById(s, c)}
    BY ReportReads
  <2>2. Verdict(Expected[c], ById(s, c)) = "match" <=> Agrees(Expected[c], ById(s, c))
    BY <2>1, MatchIsAgreement
  <2>3. QED
    BY <2>1, <2>2
<1>2. QED
  BY <1>1, ExchangeInvariant, PTL

\* A coverage limitation is reported exactly of the answers that merely fail
\* to expose a member: no such answer is blamed, and no wrong one passes as one.
THEOREM LimitationsAreOmissions == Spec => []LimitationIsNotBlame
<1>1. Inv => LimitationIsNotBlame
  <2> SUFFICES ASSUME Inv, report # Null, NEW s \in Side, NEW c \in Case,
                      NEW a \in Said(s, c)
               PROVE  report.verdict[s][c] = "coverageLimitation" <=> Omits(Expected[c], a)
    BY DEF LimitationIsNotBlame
  <2>1. a \in Answer /\ report.verdict[s][c] = Verdict(Expected[c], a)
    BY ReportReads
  <2>2. QED
    BY <2>1, LimitationIsOmission
<1>2. QED
  BY <1>1, ExchangeInvariant, PTL

\* The cross comparison never contradicts the verdicts: where the sides differ
\* on members the bundle fixes, one of them does not match the bundle.
THEOREM CrossIsConsistent == Spec => []CrossFollowsVerdicts
<1>1. Inv => CrossFollowsVerdicts
  <2> SUFFICES ASSUME Inv, report # Null, NEW c \in VerifyCase,
                      report.cross[c] = "disagreement",
                      CrossMember \subseteq DOMAIN Expected[c].members
               PROVE  \E s \in Side : report.verdict[s][c] # "match"
    BY DEF CrossFollowsVerdicts
  <2>1. c \in Case /\ "rust" \in Side /\ "motoko" \in Side
    BY ExchangeAssumption DEF Side
  <2>2. /\ ById("rust", c) \in Answer /\ ById("motoko", c) \in Answer
        /\ Cross(c, ById("rust", c), ById("motoko", c)) = "disagreement"
        /\ report.verdict["rust"][c] = Verdict(Expected[c], ById("rust", c))
        /\ report.verdict["motoko"][c] = Verdict(Expected[c], ById("motoko", c))
    BY <2>1, ReportReads
  <2>3. \/ Verdict(Expected[c], ById("rust", c)) # "match"
        \/ Verdict(Expected[c], ById("motoko", c)) # "match"
    BY <2>2, CrossAfterMatch
  <2>4. QED
    BY <2>1, <2>2, <2>3
<1>2. QED
  BY <1>1, ExchangeInvariant, PTL

\* Two answers have one outcome when they select the same.
LEMMA SameOutcome ==
  ASSUME NEW a, NEW b
  PROVE  Outcome(a) = Outcome(b) <=> SameSelection(a, b)
<1>1. CASE a.status = "accepted" /\ b.status = "accepted"
  BY <1>1 DEF Outcome, SameSelection
<1>2. CASE a.status # "accepted" /\ b.status # "accepted"
  BY <1>2 DEF Outcome, SameSelection
<1>3. CASE a.status = "accepted" /\ b.status # "accepted"
  BY <1>3 DEF Outcome, SameSelection
<1>4. CASE a.status # "accepted" /\ b.status = "accepted"
  BY <1>4 DEF Outcome, SameSelection
<1>5. QED
  BY <1>1, <1>2, <1>3, <1>4

\* The permutations of a group are reported invariant exactly when their
\* answers name one winner and one authority state, or are all alike in not
\* being accepted.
THEOREM InvarianceIsTrue == Spec => []InvarianceIsHonest
<1>1. Inv => InvarianceIsHonest
  <2> SUFFICES ASSUME Inv, report # Null, NEW s \in Side
               PROVE  report.invariant[s] <=>
                        \A c, d \in Group : \A a \in Said(s, c), b \in Said(s, d) :
                          SameSelection(a, b)
    BY DEF InvarianceIsHonest
  <2> DEFINE Outcomes == {Outcome(ById(s, c)) : c \in Group}
  <2>1. report.invariant[s] <=> Cardinality(Outcomes) = 1
    <3>1. report.invariant[s] = Invariant(s)
      BY AtReport DEF Report
    <3>2. QED
      BY <3>1, Zenon DEF Invariant
  <2>2. \A c \in Group : Said(s, c) = {ById(s, c)}
    BY ReportReads, ExchangeAssumption
  <2>3. Cardinality(Outcomes) = 1 <=> \E x : Outcomes = {x}
    <3>1. IsFiniteSet(Group)
      BY BatchFacts, ExchangeAssumption, FS_Subset
    <3>2. IsFiniteSet(Outcomes)
      <4> DEFINE f == [c \in Group |-> Outcome(ById(s, c))]
      <4>1. f \in Surjection(Group, Outcomes)
        BY DEF Surjection
      <4> HIDE DEF f, Outcomes
      <4>2. QED
        BY <4>1, <3>1, FS_Surjection, Zenon
    <3> HIDE DEF Outcomes
    <3>3. QED
      BY <3>2, FS_Singleton, Zenon
  <2>4. (\E x : Outcomes = {x}) <=>
          \A c, d \in Group : Outcome(ById(s, c)) = Outcome(ById(s, d))
    <3>1. PICK g \in Group : TRUE
      BY ExchangeAssumption
    <3>2. ASSUME \A c, d \in Group : Outcome(ById(s, c)) = Outcome(ById(s, d))
          PROVE  Outcomes = {Outcome(ById(s, g))}
      BY <3>2
    <3>3. ASSUME NEW x, Outcomes = {x}
          PROVE  \A c \in Group : Outcome(ById(s, c)) = x
      BY <3>3
    <3>4. QED
      BY <3>2, <3>3, Zenon
  <2>5. \A c, d \in Group :
          Outcome(ById(s, c)) = Outcome(ById(s, d)) <=> SameSelection(ById(s, c), ById(s, d))
    BY SameOutcome
  <2> HIDE DEF Outcomes
  <2>6. report.invariant[s] <=>
          \A c, d \in Group : Outcome(ById(s, c)) = Outcome(ById(s, d))
    BY <2>1, <2>3, <2>4, Zenon
  <2>7. QED
    BY <2>2, <2>5, <2>6
<1>2. QED
  BY <1>1, ExchangeInvariant, PTL
=============================================================================
