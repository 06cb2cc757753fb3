------------------------------ MODULE Exchange ------------------------------
(***************************************************************************)
(* Phase 1 of the campaign (phase1.py over interop_common.py): the whole   *)
(* batch of request lines goes to each participant process in turn, its    *)
(* output is cut back into responses, keyed by caseId, and compared with   *)
(* the bundle's expectations. A participant is an external process: it may *)
(* answer in any order, skip, repeat or invent a case, or die.             *)
(***************************************************************************)
EXTENDS Naturals, Sequences, FiniteSets

CONSTANTS
  Lines,        \* the caseIds of the batch, in the order of the request lines
  Expected,     \* case -> [outcome, members, error] of the bundle
  VerifyCase,   \* the verifyRecord cases
  Group,        \* the cases of one permutation group
  Winner,       \* winnerRecordBodyDigestHex, the member that names a selection's winner
  Authority,    \* authorityState, the member that names the authority it ended with
  CrossMember,  \* CROSS_MEMBERS
  Answers,      \* bound: case -> what a participant may say of it
  InOrder,      \* bound: sides that answer line by line, as the Rust loop does
  Foreign,      \* a caseId outside the batch
  Null          \* JSON null

Side == {"rust", "motoko"}
Total == Len(Lines)
Case == {Lines[k] : k \in 1 .. Total}
Id == Case \cup {Foreign}

\* A group is made by its first case (setdefault), so it has one.
ASSUME ExchangeAssumption ==
  /\ Lines \in Seq(Case) /\ Null \notin {"match", "disagreement"}
  /\ Foreign \notin Case /\ VerifyCase \subseteq Case
  /\ Group \subseteq Case /\ Group # {}
  /\ \A j, k \in 1 .. Total : Lines[j] = Lines[k] => j = k
  /\ DOMAIN Expected = Case /\ DOMAIN Answers = Id /\ InOrder \subseteq Side
  /\ \A c \in Case : Expected[c].outcome \in {"accepted", "rejected"}
  /\ \A i \in Id : \A a \in Answers[i] : a.status \in {"accepted", "rejected", "error"}

VARIABLES
  pc,       \* rust, motoko (that process runs), judge, written, aborted, died
  printed,  \* side -> the response lines it printed
  report    \* what the phase writes, or Null

vars == <<pc, printed, report>>

Answer == UNION {Answers[i] : i \in Id}
Response == [id : Id, says : Answer]

Init == pc = "rust" /\ printed = [s \in Side |-> <<>>] /\ report = Null

\* The participant prints one response object, ended by a newline.
Respond(s) ==
  /\ pc = s /\ Len(printed[s]) < Total
  /\ \E i \in IF s \in InOrder THEN {Lines[Len(printed[s]) + 1]} ELSE Id :
     \E a \in Answers[i] :
       printed' = [printed EXCEPT ![s] = Append(@, [id |-> i, says |-> a])]
  /\ UNCHANGED <<pc, report>>

\* A full batch and one line more: what it says no longer matters.
Surplus(s) ==
  /\ pc = s /\ Len(printed[s]) = Total /\ s \notin InOrder
  /\ printed' = [printed EXCEPT ![s] = Append(@, Head(@))]
  /\ UNCHANGED <<pc, report>>

\* subprocess.run(check=True) raises on a nonzero exit code.
Dies(s) == pc = s /\ pc' = "died" /\ UNCHANGED <<printed, report>>

\* stdout.splitlines() cuts at U+0085, U+2028 and U+2029 too, which JSON
\* leaves unescaped: a response that holds one becomes pieces, and json.loads
\* raises on the first.
Torn(s) == \E k \in 1 .. Len(printed[s]) : printed[s][k].says.separator

\* mutant: no count
CollectUncounted(s) ==
  /\ pc = s
  /\ pc' = IF Torn(s) THEN "aborted" ELSE IF s = "rust" THEN "motoko" ELSE "judge"
  /\ UNCHANGED <<printed, report>>
\* The process ends: _parse_responses loads every line and counts them.
Collect(s) ==
  /\ pc = s
  /\ pc' = IF Torn(s) \/ Len(printed[s]) # Total THEN "aborted"
           ELSE IF s = "rust" THEN "motoko" ELSE "judge"
  /\ UNCHANGED <<printed, report>>

(***************************************************************************)
(* The comparison.                                                         *)
(***************************************************************************)
Ids(s) == {printed[s][k].id : k \in 1 .. Len(printed[s])}

\* mutant: answers matched to lines
ByPosition(s, c) ==
  printed[s][CHOOSE k \in 1 .. Total : Lines[k] = c].says
\* {r["caseId"]: r for r in responses}: the last response of an id stays.
ById(s, c) ==
  LET k == CHOOSE k \in 1 .. Len(printed[s]) :
             /\ printed[s][k].id = c
             /\ \A j \in k + 1 .. Len(printed[s]) : printed[s][j].id # c
  IN printed[s][k].says

\* mutant: looks at null members only
MismatchedNulls(want, got) ==
  {m \in DOMAIN want \cap DOMAIN got : want[m] = Null /\ got[m] # Null}
\* compare_members: what differs, and what the participant does not expose.
Mismatched(want, got) ==
  {m \in DOMAIN want \cap DOMAIN got : got[m] # want[m]}
NotExposed(want, got) == DOMAIN want \ DOMAIN got

\* mutant: a missing member hides a wrong one
MissingFirst(want, got) ==
  CASE NotExposed(want, got) # {} -> "coverageLimitation"
    [] NotExposed(want, got) = {} /\ Mismatched(want, got) # {} -> "disagreement"
    [] OTHER -> "match"
MemberVerdict(want, got) ==
  CASE Mismatched(want, got) # {} -> "disagreement"
    [] Mismatched(want, got) = {} /\ NotExposed(want, got) # {} -> "coverageLimitation"
    [] OTHER -> "match"

\* compare_case: no judgement, the outcome, then the symbol or the members.
Verdict(want, says) ==
  IF says.status = "error" THEN "infrastructureError"
  ELSE IF says.status # want.outcome THEN "disagreement"
  ELSE IF want.outcome = "accepted" THEN MemberVerdict(want.members, says.result)
  ELSE IF says.error = want.error THEN "match" ELSE "disagreement"

\* dict.get: an absent member reads as null.
Get(result, m) == IF m \in DOMAIN result THEN result[m] ELSE Null

\* cross_compare_records; None where it does not apply.
Cross(c, r, m) ==
  IF c \notin VerifyCase \/ r.status # "accepted" \/ m.status # "accepted"
    THEN Null
    ELSE IF \A x \in CrossMember : Get(r.result, x) = Get(m.result, x)
           THEN "match" ELSE "disagreement"

\* mutant: the winner alone
OutcomeOfWinner(says) ==
  IF says.status = "accepted" THEN <<"accepted", Get(says.result, Winner), Null>>
                              ELSE <<says.status, Null, Null>>
\* permutation_invariance: what an answer selects is the winner with the
\* authority state, and what is not accepted is its status.
Outcome(says) ==
  IF says.status = "accepted"
    THEN <<"accepted", Get(says.result, Winner), Get(says.result, Authority)>>
    ELSE <<says.status, Null, Null>>
Invariant(s) == Cardinality({Outcome(ById(s, c)) : c \in Group}) = 1

\* Every case of the batch is answered by both sides, under its own id.
Answered == \A s \in Side : Cardinality(Ids(s)) = Total /\ Case \subseteq Ids(s)

Report == [verdict   |-> [s \in Side |-> [c \in Case |-> Verdict(Expected[c], ById(s, c))]],
           cross     |-> [c \in Case |-> Cross(c, ById("rust", c), ById("motoko", c))],
           invariant |-> [s \in Side |-> Invariant(s)]]

\* mutant: goes on after the report
JudgeStays ==
  /\ pc = "judge"
  /\ IF Answered THEN pc' = pc /\ report' = Report
                 ELSE pc' = "aborted" /\ UNCHANGED report
  /\ UNCHANGED printed
\* A repeated or missing id raises (AssertionError, KeyError); otherwise every
\* case is judged for both sides and the report is written.
Judge ==
  /\ pc = "judge"
  /\ IF Answered THEN pc' = "written" /\ report' = Report
                 ELSE pc' = "aborted" /\ UNCHANGED report
  /\ UNCHANGED printed

Finished == pc \in {"written", "aborted", "died"} /\ UNCHANGED vars

Next == \/ \E s \in Side : Respond(s) \/ Surplus(s) \/ Dies(s) \/ Collect(s)
        \/ Judge \/ Finished

Spec == Init /\ [][Next]_vars

(***************************************************************************)
(* Properties.                                                             *)
(***************************************************************************)
Verdicts == {"match", "disagreement", "coverageLimitation", "infrastructureError"}

\* Every variable stays in its domain; a report exists exactly when written.
TypeOK ==
  /\ pc \in Side \cup {"judge", "written", "aborted", "died"}
  /\ printed \in [Side -> Seq(Response)]
  /\ pc = "written" =>
       report \in [verdict : [Side -> [Case -> Verdicts]],
                   cross : [Case -> {"match", "disagreement", Null}],
                   invariant : [Side -> BOOLEAN]]
  /\ pc # "written" => report = Null

Said(s, c) == {printed[s][k].says : k \in {k \in 1 .. Len(printed[s]) : printed[s][k].id = c}}

\* Nothing the participants said is lost or counted twice in a report: each
\* side answered each case exactly once and said nothing else. The count in
\* _parse_responses, the assert on the dictionaries and the lookups have to
\* work together for this.
ReportIsTotal ==
  report # Null => \A s \in Side : /\ Len(printed[s]) = Total
                                   /\ \A c \in Case : Cardinality(Said(s, c)) = 1

\* What it takes to agree with the bundle, said without the code's order of
\* decisions.
Agrees(want, says) ==
  /\ says.status = want.outcome
  /\ want.outcome = "rejected" => says.error = want.error
  /\ want.outcome = "accepted" =>
       \A m \in DOMAIN want.members : m \in DOMAIN says.result
                                      /\ says.result[m] = want.members[m]

\* A participant is credited with a match for a case exactly when its own
\* answer to that case agrees, in whatever order its answers came.
MatchIsEarned ==
  report # Null => \A s \in Side, c \in Case :
    report.verdict[s][c] = "match" <=> \A a \in Said(s, c) : Agrees(Expected[c], a)

\* What merely fails to expose a member the bundle fixes: accepted as it
\* should be, everything it does say right, something not said.
Omits(want, says) ==
  /\ want.outcome = "accepted" /\ says.status = "accepted"
  /\ \A m \in DOMAIN want.members \cap DOMAIN says.result :
       says.result[m] = want.members[m]
  /\ \E m \in DOMAIN want.members : m \notin DOMAIN says.result

\* A participant is blamed for what it says and for nothing else: an answer
\* that merely fails to expose a member is reported as a coverage limitation,
\* never as a disagreement or a match, and a limitation never stands for an
\* answer that says something wrong.
LimitationIsNotBlame ==
  report # Null => \A s \in Side, c \in Case : \A a \in Said(s, c) :
    report.verdict[s][c] = "coverageLimitation" <=> Omits(Expected[c], a)

\* What a participant selects: the outcome, and the winner with the authority
\* state where there is one.
SameSelection(a, b) ==
  /\ a.status = b.status
  /\ a.status = "accepted" => \A m \in {Winner, Authority} : Get(a.result, m) = Get(b.result, m)

\* Permutations of one candidate set are reported invariant exactly when no
\* two of them selected differently, in winner or in authority state.
InvarianceIsHonest ==
  report # Null => \A s \in Side :
    report.invariant[s] <=>
      \A c, d \in Group : \A a \in Said(s, c), b \in Said(s, d) : SameSelection(a, b)

\* The two parts of a report do not contradict each other: where the sides
\* disagree on a member the bundle fixes, one of them disagrees with the bundle.
CrossFollowsVerdicts ==
  report # Null => \A c \in VerifyCase :
    /\ report.cross[c] = "disagreement"
    /\ CrossMember \subseteq DOMAIN Expected[c].members
    => \E s \in Side : report.verdict[s][c] # "match"

(***************************************************************************)
(* What the documents say and the code does not do.                        *)
(***************************************************************************)

\* INTERFACE.md:27-28: responses are objects terminated by "\n". A batch in
\* which both sides answer every case once, in objects of one line each, is
\* not refused.
FramingIsNewline ==
  pc = "aborted" => ~ \A s \in Side : \A c \in Case :
                        Len(printed[s]) = Total
                        /\ Cardinality(Said(s, c)) = 1

\* test_tamper.py:3-6: an altered answer remains visible as a disagreement.
\* A match means the result is the expected one, no more and no less.
AlterationIsVisible ==
  report # Null => \A s \in Side, c \in Case, a \in Answer :
    a \in Said(s, c) /\ report.verdict[s][c] = "match"
      /\ Expected[c].outcome = "accepted" => a.result = Expected[c].members
=============================================================================
