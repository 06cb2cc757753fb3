------------------------------- MODULE Bundle -------------------------------
(***************************************************************************)
(* The v0.9.2 bundle under maintenance.  Its files are edited, its          *)
(* generators too; the generators rewrite what they generate, the manifest *)
(* is rewritten, and verify_bundle.py judges what is there.                *)
(***************************************************************************)
EXTENDS Vectors

CONSTANTS
  Together,    \* the bound on edits: one of anything, or one of each of these
  Repository   \* the specification of the repository the bundle lies in, or None

VARIABLES
  made,      \* what the generators write for the coordinator, file by file
  tree,      \* the files of the bundle: cases, or a text; None when deleted
  manifest,  \* what the inventory was written for: the files and verify/
  verdict,   \* of the last verification, while nothing has changed since
  edited     \* what has been edited: <<"file", f>>, <<"generator", f>>

vars == <<made, tree, manifest, verdict, edited>>

----------------------------------------------------------------------------
Coordinator == {"identities", "records", "negatives", "wire", "verification", "selection",
                "timestamps", "publish", "transcripts"}
Twins == [aIdentities |-> "identities", aRecords |-> "records", aNegatives |-> "negatives", aWire |-> "wire"]
Texts == {"specification", "interface", "challenge", "preclassification", "revision", "acceptance", "readme"}
\* The authors' files; `stray` is the place of one that does not belong there.
Authoring == DOMAIN Twins \cup {"specification", "interface", "challenge", "stray"}
Files == Coordinator \cup DOMAIN Twins \cup Texts \cup {"stray"}

Text(version, tokens) == [version |-> version, tokens |-> tokens]
Released(f) ==
  CASE f \in Coordinator -> Built[f]
    [] f \in DOMAIN Twins -> Project(Built[Twins[f]])
    [] f = "specification" -> Text("released", SpecificationText)
    [] f \in Texts \ {"specification"} -> Text("released", {})
    [] f = "stray" -> None

\* Every case or text that a file holds.
IdsOf(file) == {c.id : c \in file}
Case(file, id) == CHOOSE c \in file : c.id = id
Pv(m) == m.identities \cup m.records \cup m.negatives \cup m.wire

\* The generators' own assertions: the published members are those of the
\* specification, the lengths and digests of the wire bytes too; what
\* verification expects of an accepted record is what its bytes project to.
Reproduces(m) ==
  /\ \A c \in Pv(m) : \A x \in DOMAIN c.members :
       x \in c.published \/ c \in m.wire => c.members[x] = <<c.id, x>>
  /\ \A c \in m.verification : c.outcome = "accepted" /\ c.ref # None => c.digest = Digest(c.ref[2])

----------------------------------------------------------------------------
\* Edits.  A case is dropped, or one of its values is another one.
Forge(c) == {[c EXCEPT !.members[x] = <<c.id, "forged">>] : x \in DOMAIN c.members}
AlterVector(c) ==
  Forge(c) \cup {[c EXCEPT !.published = @ \cup {x}] : x \in DOMAIN c.members \ c.published} \cup
  {[c EXCEPT !.members = [y \in DOMAIN @ \ {x} |-> @[y]]] : x \in DOMAIN c.members \ c.published}
\* A transcript under a name that the generators give to none.
Copy(c) == [c EXCEPT !.id = "copy"]
Alter(f, c) ==
  CASE f \in {"identities", "records", "negatives", "wire"} -> AlterVector(c)
    [] f \in DOMAIN Twins -> Forge(c)
    [] f = "verification" ->
         {[c EXCEPT !.outcome = IF @ = "accepted" THEN "badSignature" ELSE "accepted"],
          [c EXCEPT !.digest = <<"b4", "forged">>], [c EXCEPT !.carried = <<"b4", "forged">>]}
    [] f = "selection" ->
         {[c EXCEPT !.winner = Digest(w)] : w \in {"b4", "b5", "b9"}} \cup {[c EXCEPT !.state = "unknown"]}
    [] f = "timestamps" -> {[c EXCEPT !.result = t] : t \in {None, c.now, U64Max}}
    [] f = "publish" ->
         {[c EXCEPT !.verdict = "rejected", !.told = None], [c EXCEPT !.varies = "none"], [c EXCEPT !.code = None],
          [c EXCEPT !.verdict = "accepted", !.told = <<c.status, c.code>>], [c EXCEPT !.code = 7, !.told = <<c.status, 7>>]}
    [] f = "transcripts" ->
         {[c EXCEPT !.framed = FALSE], [c EXCEPT !.deterministic = ~ @], [c EXCEPT !.cursor = IF c.operation = "changes" THEN "neverIssued" ELSE @],
          [c EXCEPT !.must = "nothing"], [c EXCEPT !.response = <<"error", "other">>], [c EXCEPT !.request = <<"b9", "forged">>]}

Versions ==
  [specification |-> {"reworded", "appendix"}, interface |-> {"reworded", "traces"},
   challenge |-> {"reworded", "keyed"}, preclassification |-> {"reworded", "sealLost"},
   revision |-> {"reworded", "impactLost"}, acceptance |-> {"reworded", "obligationLost"},
   readme |-> {"reworded", "stamped"}]
Leaked == {<<"b6a", "envelope">>, <<"verify", "b4">>}
EditsOf(f, file) ==
  IF f = "stray" THEN {Text("verification", {})} \cup {Text("note", {t}) : t \in Leaked}
  ELSE IF f \in Texts
       THEN {Text(v, file.tokens) : v \in Versions[f]} \cup {Text("reworded", file.tokens \cup {t}) : t \in Leaked}
  ELSE {file \ {c} : c \in file} \cup
       (UNION {{(file \ {c}) \cup {d} : d \in Alter(f, c)} : c \in file}) \cup
       (IF f = "publish" THEN UNION {{file \cup {d} : d \in Alter(f, c)} : c \in file} ELSE {}) \cup
       (IF f = "transcripts" /\ "copy" \notin IdsOf(file)
          THEN UNION {{file \cup {Copy(c)}, (file \ {c}) \cup {Copy(c)}} : c \in file} ELSE {})

MayEdit(x) == x \notin edited /\ (edited = {} \/ edited \cup {x} \subseteq Together)

EditFile(f) ==
  /\ MayEdit(<<"file", f>>) /\ (tree[f] # None \/ f = "stray")
  /\ \E new \in EditsOf(f, tree[f]) \cup (IF f \in {"stray", "transcripts"} THEN {} ELSE {None}) :
       tree' = [tree EXCEPT ![f] = new]
  /\ edited' = edited \cup {<<"file", f>>} /\ verdict' = "none"
  /\ UNCHANGED <<made, manifest>>

EditGenerator(f) ==
  /\ MayEdit(<<"generator", f>>)
  /\ \E new \in EditsOf(f, made[f]) : made' = [made EXCEPT ![f] = new]
  /\ edited' = edited \cup {<<"generator", f>>} /\ verdict' = "none"
  /\ UNCHANGED <<tree, manifest>>

\* The generators read the specification as it is in the tree, and stop
\* before they write when it is not the pinned one or not what they rebuild.
Generates == tree.specification = Released("specification") /\ Reproduces(made)
Output(f) == IF f \in DOMAIN Twins THEN Project(made[Twins[f]]) ELSE made[f]

\* mutant: a transcript is written beside the one it replaces
RegenerateBeside ==
  /\ Generates
  /\ tree' = [f \in Files |->
       CASE f = "transcripts" -> made[f] \cup tree[f]
         [] f \in (Coordinator \cup DOMAIN Twins) \ {"transcripts"} -> Output(f)
         [] OTHER -> tree[f]]
  /\ verdict' = "none" /\ UNCHANGED <<made, manifest, edited>>

\* --write of both.  A transcript no longer generated stays where it is.
Regenerate ==
  /\ Generates
  /\ tree' = [f \in Files |->
       CASE f = "transcripts" -> made[f] \cup {c \in tree[f] : c.id \notin IdsOf(made[f])}
         [] f \in (Coordinator \cup DOMAIN Twins) \ {"transcripts"} -> Output(f)
         [] OTHER -> tree[f]]
  /\ verdict' = "none" /\ UNCHANGED <<made, manifest, edited>>

WriteManifest ==
  /\ manifest' = <<tree, made>> /\ verdict' = "none"
  /\ UNCHANGED <<made, tree, edited>>

----------------------------------------------------------------------------
\* Checks.  Each yields the problems it meets: it fails, or it raises what
\* main does not catch, and then nothing after it runs.
Fails(b) == IF b THEN {"failed"} ELSE {}
Raises(b) == IF b THEN {"crashed"} ELSE {}
Exist(fs) == \A f \in fs : tree[f] # None
Reading(fs, problems) == IF Exist(fs) THEN problems ELSE {"crashed"}
AuthorTexts == {f \in Authoring \ {"specification"} : tree[f] # None}

CheckManifest == Fails(manifest # <<tree, made>>)
CheckSpec ==
  Reading({"specification"},
          Fails(\/ tree.specification # Released("specification")
                \/ Repository # None /\ Repository # tree.specification))
CheckAppendixB == Reading({"specification"}, Fails(tree.specification.version = "appendix"))
CheckChallengePreservation == Reading({"challenge"}, Fails(tree.challenge # Released("challenge")))

\* mutant: only the cases present are compared with the generated ones
PublishedRegenerationOfCases ==
  IF ~ Generates THEN {"crashed"}
  ELSE LET fs == (Coordinator \cup DOMAIN Twins) \ {"transcripts"}
       IN Raises(~ Exist(fs)) \cup Fails(\E f \in fs : tree[f] # None /\ ~ tree[f] \subseteq Output(f))

CheckPublishedRegeneration ==
  IF ~ Generates THEN {"crashed"}
  ELSE LET fs == (Coordinator \cup DOMAIN Twins) \ {"transcripts"}
       IN Raises(~ Exist(fs)) \cup Fails(\E f \in fs : tree[f] # None /\ tree[f] # Output(f))

CheckTranscriptRegeneration ==
  IF ~ Generates THEN {"crashed"}
  ELSE Raises(~ IdsOf(made.transcripts) \subseteq IdsOf(tree.transcripts)) \cup
       Fails(\E c \in tree.transcripts : c.id \in IdsOf(made.transcripts) /\ c \notin made.transcripts)

\* Every envelope the generators build verifies under its signer's key.
CheckSignatures ==
  IF ~ Generates THEN {"crashed"}
  ELSE Fails(\E c \in made.records \cup made.negatives :
               "envelope" \in DOMAIN c.members /\ c.members["envelope"] # <<c.id, "envelope">>)

Refers(ref) == ref[2] \in IdsOf(tree[ref[1]])
Member(ref, m) ==
  LET c == Case(tree[ref[1]], ref[2])
  IN IF ref[1] = "publish" THEN <<"status", c.status, c.code>>
     ELSE IF m \in DOMAIN c.members THEN c.members[m] ELSE None
CandidateRef(name) == IF name = "b8" THEN Negative(name) ELSE Record(name)
Candidates(c) == {CandidateRef(c.order[k]) : k \in DOMAIN c.order}

CheckVectorReferences ==
  Reading({"records", "verification", "selection", "negatives"},
    (UNION {IF c.ref = None THEN Fails(c.digest # c.carried)
           ELSE IF ~ Refers(c.ref) THEN {"failed"}
           ELSE Raises(Member(c.ref, "envelope") = None) \cup
                Fails(c.outcome = "accepted" /\ Member(c.ref, "digest") # c.digest) : c \in tree.verification}) \cup
    (UNION {IF \E ref \in Candidates(c) : ~ Refers(ref) THEN {"failed"}
           ELSE Fails(c.winner # None /\ c.winner \notin {Member(ref, "digest") : ref \in Candidates(c)})
           : c \in tree.selection}) \cup
    Fails(\E c, d \in tree.selection : /\ c.group # None /\ c.group = d.group
                                       /\ <<c.winner, c.state>> # <<d.winner, d.state>>) \cup
    Fails(~ IdsOf(Records) \subseteq IdsOf(tree.records)))

\* mutant: what else is accepted is not looked at
PublishResponsesAtLeast ==
  LET cases == tree.publish
      accepted == {c \in cases : c.verdict = "accepted"}
      named(status, codes) == \A code \in codes : <<"rejected", status, code>> \in IdsOf(cases)
      probe(status, code) ==
        \E c \in cases : c.id = <<"rejected", status, code>> /\ c.verdict = "rejected" /\ c.code = code
      forms == {c \in cases : c.id \in {<<"accepted", 1, code>> : code \in {None} \cup NoChangeCodes}}
  IN IF ~ Exist({"publish", "specification"}) \/ tree.specification # Released("specification") THEN {"crashed"}
     ELSE Fails(Cardinality(IdsOf(cases)) # Cardinality(cases)) \cup
          Fails(\E c \in accepted : c.told # <<c.status, c.code>>) \cup
          Fails(~ {<<0, None>>, <<1, None>>} \cup {<<1, code>> : code \in NoChangeCodes} \cup
                  {<<2, code>> : code \in Registry \ NoChangeCodes} \subseteq {<<c.status, c.code>> : c \in accepted}) \cup
          Fails(~ (named(2, NoChangeCodes \cup {None}) /\ named(1, Registry \ NoChangeCodes) /\ named(0, {13, 7}))) \cup
          Fails(~ (probe(2, WidestCode) /\ \A s \in 0 .. 2 : probe(s, FirstUnregistered))) \cup
          Fails(Cardinality({c.code : c \in forms}) # 3) \cup
          Fails(\E c \in forms : c.varies # IF c.id[3] = None THEN "bare" ELSE "coded")

\* The accepted responses are the whole rule and nothing else; of the rejected
\* ones it is the names that must be there.
CheckPublishResponses ==
  LET cases == tree.publish
      accepted == {c \in cases : c.verdict = "accepted"}
      named(status, codes) == \A code \in codes : <<"rejected", status, code>> \in IdsOf(cases)
      probe(status, code) ==
        \E c \in cases : c.id = <<"rejected", status, code>> /\ c.verdict = "rejected" /\ c.code = code
      forms == {c \in cases : c.id \in {<<"accepted", 1, code>> : code \in {None} \cup NoChangeCodes}}
  IN IF ~ Exist({"publish", "specification"}) \/ tree.specification # Released("specification") THEN {"crashed"}
     ELSE Fails(Cardinality(IdsOf(cases)) # Cardinality(cases)) \cup
          Fails(\E c \in accepted : c.told # <<c.status, c.code>>) \cup
          Fails({<<c.status, c.code>> : c \in accepted} #
                {<<0, None>>, <<1, None>>} \cup {<<1, code>> : code \in NoChangeCodes} \cup
                {<<2, code>> : code \in Registry \ NoChangeCodes}) \cup
          Fails(~ (named(2, NoChangeCodes \cup {None}) /\ named(1, Registry \ NoChangeCodes) /\ named(0, {13, 7}))) \cup
          Fails(~ (probe(2, WidestCode) /\ \A s \in 0 .. 2 : probe(s, FirstUnregistered))) \cup
          Fails(Cardinality({c.code : c \in forms}) # 3) \cup
          Fails(\E c \in forms : c.varies # IF c.id[3] = None THEN "bare" ELSE "coded")

\* The fixtures that carry present-empty collections inline.
CheckPresentEmpty ==
  IF ~ Generates \/ ~ Exist({"verification"}) THEN {"crashed"}
  ELSE Fails(~ \E c \in tree.verification :
                 /\ c.id = <<"verify", "wire-empty">> /\ c.outcome = "accepted" /\ c.carried = Digest("wire-empty"))

CheckAuthoringSeal ==
  Fails(\E f \in Authoring : tree[f] # Released(f)) \cup
  Reading({"preclassification"}, Fails(tree.preclassification.version = "sealLost")) \cup
  Reading({"revision"}, Fails(tree.revision.version = "impactLost"))

TokensIn(f) == IF f \in DOMAIN Twins THEN TokensOf(tree[f]) ELSE tree[f].tokens
CheckCaseIdLeak ==
  LET constructed == {"verification", "selection", "timestamps", "publish"}
  IN Fails(tree.stray # None /\ tree.stray.version \in constructed) \cup
     Reading(constructed,
       Fails(\E f \in AuthorTexts : TokensIn(f) \cap UNION {IdsOf(tree[g]) : g \in constructed} # {}))

\* The bytes said to be those of a vector; a wire case that is missing ends
\* the run, as does a member it lacks.
SameAs(body, as) ==
  IF as = None THEN {}
  ELSE IF tree[as[1]] = None THEN {"crashed"}
  ELSE IF ~ Refers(as) THEN {IF as[1] = "wire" THEN "crashed" ELSE "failed"}
  ELSE IF Member(as, as[3]) = None THEN {IF as[1] = "wire" THEN "crashed" ELSE "failed"}
  ELSE Fails(Member(as, as[3]) # body)
CheckTranscripts ==
  UNION {Fails(~ c.framed \/ (c.operation \in {"info", "directory"} /\ c.request # None)) \cup Fails(c.deterministic # (c.http = 200)) \cup
         SameAs(c.request, c.requestAs) \cup SameAs(c.response, c.responseAs) : c \in tree.transcripts}

Pinned == {"changes-premature-retained", "resolve-premature-retained", "publish-record-too-large",
           "info-missing-version", "info-missing-suite", "directory-duplicate-index"}
CheckCampaignGates ==
  IF ~ Generates \/ ~ Pinned \subseteq IdsOf(tree.transcripts) \/ ~ Exist({"acceptance"}) THEN {"crashed"}
  ELSE Fails(\E c \in tree.transcripts : c.id \in Pinned /\
               LET told == Case(Transcripts, c.id)
               IN \/ <<c.response, c.must>> # <<told.response, told.must>>
                  \/ c.id = "publish-record-too-large" /\ c.request # told.request) \cup
       Fails(\E c \in tree.transcripts :
               c.operation = "changes" /\ c.cursor \notin {"null", "peer", "old"}) \cup
       Fails(\A c \in tree.transcripts : c.operation # "changes") \cup
       Fails(tree.acceptance.version = "obligationLost")

CheckChallenges == Reading({"challenge"}, Fails(tree.challenge.version = "keyed"))

\* A value of the coordinator's that the specification does not print.
CoordinatorTokens(f) ==
  CASE f \in {"identities", "records", "negatives", "wire"} -> TokensOf(tree[f])
    [] f = "verification" -> (UNION {{c.digest, c.carried} : c \in tree[f]}) \ {None}
    [] f = "transcripts" -> (UNION {{c.request} \cup (IF c.operation = "resolve" THEN {c.response} ELSE {}) : c \in tree[f]}) \ {None}
    [] f \in {"preclassification", "revision"} -> tree[f].tokens \ IdsOf(Verification)
    [] OTHER -> {}
Derived ==
  (UNION {CoordinatorTokens(f) : f \in {g \in Coordinator \cup {"preclassification", "revision"} : tree[g] # None}})
  \ tree.specification.tokens
CheckLeakproof ==
  Reading({"specification"},
    Fails(Derived = {}) \cup Fails(\E f \in AuthorTexts : TokensIn(f) \cap Derived # {}))

CheckAuthoringProjection ==
  Reading(DOMAIN Twins \cup {"identities", "records", "negatives", "wire"},
    Fails(\E f \in DOMAIN Twins : IdsOf(tree[f]) # IdsOf(tree[Twins[f]])) \cup
    Fails(\E f \in DOMAIN Twins : \E a \in tree[f] : \E c \in tree[Twins[f]] :
            /\ c.id = a.id
            /\ \/ a.published # c.published
               \/ \E x \in DOMAIN a.members : x \notin DOMAIN c.members \/ c.members[x] # a.members[x]))

CheckHygiene == Fails(\E f \in Texts : tree[f] # None /\ tree[f].version \in {"traces", "stamped"})

Problems ==
  CheckManifest \cup CheckSpec \cup CheckAppendixB \cup CheckChallengePreservation \cup
  CheckPublishedRegeneration \cup CheckTranscriptRegeneration \cup CheckSignatures \cup CheckVectorReferences \cup
  CheckPublishResponses \cup CheckPresentEmpty \cup CheckAuthoringSeal \cup CheckCaseIdLeak \cup CheckTranscripts \cup
  CheckCampaignGates \cup CheckChallenges \cup CheckLeakproof \cup CheckAuthoringProjection \cup CheckHygiene

\* verify_bundle.py.  Which problem a check with several meets first depends
\* on the order of its files, which is left open.
Verify ==
  /\ verdict' \in IF Problems = {} THEN {"passed"} ELSE Problems
  /\ UNCHANGED <<made, tree, manifest, edited>>

----------------------------------------------------------------------------
Init ==
  /\ made = Built /\ tree = [f \in Files |-> Released(f)] /\ manifest = <<tree, made>>
  /\ verdict = "none" /\ edited = {}

Next ==
  \/ \E f \in Files : EditFile(f)
  \/ \E f \in Coordinator : EditGenerator(f)
  \/ Regenerate \/ WriteManifest \/ Verify

Spec == Init /\ [][Next]_vars

----------------------------------------------------------------------------
\* Every file is deleted or holds content of its kind, no case twice but in
\* the publish responses; edits and verdicts are of the declared kinds.
TypeOK ==
  /\ DOMAIN tree = Files /\ DOMAIN made = Coordinator
  /\ \A f \in Coordinator \ {"publish"} :
       /\ Cardinality(IdsOf(made[f])) = Cardinality(made[f])
       /\ tree[f] # None => Cardinality(IdsOf(tree[f])) = Cardinality(tree[f])
  /\ \A f \in Texts : tree[f] # None => tree[f].version \in {"released"} \cup Versions[f]
  /\ verdict \in {"none", "passed", "failed", "crashed"}
  /\ edited \subseteq {"file", "generator"} \X Files

\* What a bundle tells when it says what the specification says: the winner and
\* state of every selection, each group in every order; the next timestamp; the
\* accepted publish responses, and every named one; the error of every foreign or
\* malformed target; for each publication a permitted answer; the bytes published.
Normative ==
  /\ \A c \in tree.selection : [winner |-> c.winner, state |-> c.state] = SelectCurrent(c.order, c.now, c.sticky)
  /\ \A c \in tree.selection : c.group # None =>
       Orders({c.order[k] : k \in DOMAIN c.order}) \subseteq {d.order : d \in {e \in tree.selection : e.group = c.group}}
  /\ \A c \in tree.verification : c.target # None => c.outcome = TargetError(c.target)
  /\ \A c \in tree.timestamps : c.result = NextTimestamp(c.now, c.previous)
  /\ \A c \in tree.publish : c.verdict = "accepted" <=> Acceptable(c.status, c.code)
  /\ \A c \in tree.transcripts : c.id \in IdsOf(Transcripts) /\ c.sent # None => c.response \in Answers(c.held, c.sent)
  /\ \A f \in {"identities", "records", "negatives", "wire"} \cup DOMAIN Twins : \A c \in tree[f] :
       \A x \in DOMAIN c.members : c.members[x] = <<c.id, x>>

\* A bundle that passes under the generators as they are is normative.
PassIsNormative == verdict = "passed" /\ made = Built => Normative

\* What a bundle guarantees whatever its generators are: the authors have the
\* released files, in them no value the coordinator constructed; the accepted
\* publish responses are exactly those of the rule; a group has one outcome in
\* every order, and a winner is a candidate; a relay is offered only cursors
\* some relay issued; what is published are the very bytes of the vectors.
IsGuarded ==
  /\ \A f \in Authoring : tree[f] = Released(f)
  /\ \A f \in DOMAIN Twins : TokensOf(tree[f]) \subseteq SpecificationText
  /\ {<<c.status, c.code>> : c \in {d \in tree.publish : d.verdict = "accepted"}} =
     {p \in (0 .. 2) \X (Registry \cup {None, FirstUnregistered, WidestCode}) : Acceptable(p[1], p[2])}
  /\ \A c, d \in tree.selection : c.group # None /\ c.group = d.group => c.winner = d.winner /\ c.state = d.state
  /\ \A c \in tree.selection : c.winner \in {None} \cup {Digest(c.order[k]) : k \in DOMAIN c.order}
  /\ \A c \in tree.transcripts : c.cursor # "neverIssued"
  /\ \A c \in tree.transcripts : c.sent # None /\ c.requestAs # None => c.request = <<c.sent, "envelope">>

\* Whatever the generators are made to write, a bundle that passes the
\* verification is guarded (verify_bundle.py, main).
PassIsGuarded == verdict = "passed" => IsGuarded
=============================================================================
