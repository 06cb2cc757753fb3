--------------------------- MODULE Bundle_proofs ---------------------------
(***************************************************************************)
(* What a verdict of verify_bundle.py stands for: theorems about Bundle.   *)
(***************************************************************************)
EXTENDS Bundle, FiniteSetTheorems, TLAPS

-----------------------------------------------------------------------------
(* The transcripts, through every edit and regeneration.                   *)

Fields == DOMAIN Transcript("info", "info", 200)

\* Only a changes request can carry a cursor nobody issued, and the bytes of
\* a publication are said to be the envelope of the record that is sent.
Faithful(c) ==
  /\ DOMAIN c = Fields
  /\ c.cursor = "neverIssued" => c.operation = "changes"
  /\ c.sent # None /\ c.requestAs # None =>
       c.requestAs \in {<<"records", c.sent, "envelope">>, <<"negatives", c.sent, "envelope">>}

Kept ==
  /\ DOMAIN tree = Files /\ DOMAIN made = Coordinator
  /\ \A c \in tree.transcripts : Faithful(c)
  /\ \A c \in made.transcripts : Faithful(c)

LEMMA TranscriptFaithful ==
  ASSUME NEW id, NEW operation, NEW http
  PROVE  /\ Faithful(Transcript(id, operation, http))
         /\ Transcript(id, operation, http).cursor = "none"
         /\ Transcript(id, operation, http).sent = None
         /\ DOMAIN Transcript(id, operation, http) = Fields
BY DEF Transcript, Faithful, Fields

LEMMA FromWireFaithful ==
  ASSUME NEW id, NEW operation, NEW http, NEW case, NEW cursor, cursor # "neverIssued"
  PROVE  Faithful(FromWire(id, operation, http, case, cursor))
BY DEF FromWire, Transcript, Faithful, Fields

LEMMA PublicationFaithful ==
  ASSUME NEW id, NEW held, NEW sent, NEW file, NEW status, NEW code,
         file \in {None, "records", "negatives"}
  PROVE  Faithful(Publication(id, held, sent, file, sent, status, code))
BY DEF Publication, Transcript, Faithful, Fields

LEMMA ChangesFaithful ==
  ASSUME NEW id, NEW cursor, NEW answer
  PROVE  Faithful(Changes(id, cursor, answer))
BY DEF Changes, Transcript, Faithful, Fields

LEMMA HostileFaithful ==
  ASSUME NEW id, NEW operation, NEW answer
  PROVE  Faithful(Hostile(id, operation, answer))
BY DEF Hostile, Transcript, Faithful, Fields

LEMMA TranscriptsFaithful == \A c \in Transcripts : Faithful(c)
<1>1. \A c \in RelayTranscripts : Faithful(c)
  BY TranscriptFaithful, FromWireFaithful DEF RelayTranscripts
<1>2. \A c \in PublishTranscripts : Faithful(c)
  BY PublicationFaithful DEF PublishTranscripts
<1>3. \A c \in ChangesTranscripts : Faithful(c)
  BY ChangesFaithful, FromWireFaithful DEF ChangesTranscripts
<1>4. \A c \in LateTranscripts : Faithful(c)
  <2>1. Faithful([Transcript("resolve-premature-retained", "resolve", 200)
                    EXCEPT !.response = <<"error", "premature">>])
    BY DEF Transcript, Faithful, Fields
  <2>2. QED
    BY <2>1, ChangesFaithful, PublicationFaithful DEF LateTranscripts
<1>5. \A c \in HostileTranscripts : Faithful(c)
  BY HostileFaithful DEF HostileTranscripts
<1>6. QED
  BY <1>1, <1>2, <1>3, <1>4, <1>5 DEF Transcripts

\* No edit of a transcript changes what makes it faithful.
LEMMA AlterFaithful ==
  ASSUME NEW c, Faithful(c), NEW d \in Alter("transcripts", c) \cup {Copy(c)}
  PROVE  Faithful(d)
<1>1. Faithful(Copy(c))
  BY DEF Copy, Faithful, Fields, Transcript
<1>2. /\ Faithful([c EXCEPT !.framed = FALSE])
      /\ Faithful([c EXCEPT !.deterministic = ~ @])
      /\ Faithful([c EXCEPT !.cursor = IF c.operation = "changes" THEN "neverIssued" ELSE @])
      /\ Faithful([c EXCEPT !.must = "nothing"])
      /\ Faithful([c EXCEPT !.response = <<"error", "other">>])
      /\ Faithful([c EXCEPT !.request = <<"b9", "forged">>])
  BY DEF Faithful, Fields, Transcript
<1>3. Alter("transcripts", c) =
        {[c EXCEPT !.framed = FALSE], [c EXCEPT !.deterministic = ~ @],
         [c EXCEPT !.cursor = IF c.operation = "changes" THEN "neverIssued" ELSE @],
         [c EXCEPT !.must = "nothing"], [c EXCEPT !.response = <<"error", "other">>],
         [c EXCEPT !.request = <<"b9", "forged">>]}
  BY DEF Alter, Twins
<1>4. QED
  BY <1>1, <1>2, <1>3

\* What an edit makes of a document: a case is dropped, replaced by an altered
\* one, or, in the transcripts, copied under another name.
LEMMA EditShape ==
  ASSUME NEW f \in Coordinator \ {"publish"}, NEW file, NEW new \in EditsOf(f, file)
  PROVE  \E c \in file :
           \/ new = file \ {c}
           \/ \E d \in Alter(f, c) : new = (file \ {c}) \cup {d}
           \/ /\ f = "transcripts" /\ "copy" \notin IdsOf(file)
              /\ new = file \cup {Copy(c)} \/ new = (file \ {c}) \cup {Copy(c)}
<1> DEFINE dropped == {file \ {c} : c \in file}
           altered == UNION {{(file \ {c}) \cup {d} : d \in Alter(f, c)} : c \in file}
           copied == UNION {{file \cup {Copy(c)}, (file \ {c}) \cup {Copy(c)}} : c \in file}
<1>1. EditsOf(f, file) =
        dropped \cup altered \cup (IF f = "transcripts" /\ "copy" \notin IdsOf(file) THEN copied ELSE {})
  BY DEF EditsOf, Texts, Coordinator
<1>2. CASE new \in dropped
  BY <1>2
<1>3. CASE new \in altered
  BY <1>3
<1>4. CASE f = "transcripts" /\ "copy" \notin IdsOf(file) /\ new \in copied
  BY <1>4
<1> HIDE DEF dropped, altered, copied
<1>5. QED
  BY <1>1, <1>2, <1>3, <1>4

LEMMA EditsFaithful ==
  ASSUME NEW file, \A c \in file : Faithful(c), NEW new \in EditsOf("transcripts", file)
  PROVE  \A c \in new : Faithful(c)
<1>1. \A c \in file : \A d \in Alter("transcripts", c) \cup {Copy(c)} : Faithful(d)
  BY AlterFaithful
<1>2. "transcripts" \in Coordinator \ {"publish"}
  BY DEF Coordinator
<1>3. PICK c \in file :
        \/ new = file \ {c}
        \/ \E d \in Alter("transcripts", c) : new = (file \ {c}) \cup {d}
        \/ new = file \cup {Copy(c)} \/ new = (file \ {c}) \cup {Copy(c)}
  BY <1>2, EditShape
<1>4. QED
  BY <1>1, <1>3

LEMMA InitKept == Init => Kept
<1> SUFFICES ASSUME Init PROVE Kept
  OBVIOUS
<1>1. tree.transcripts = Transcripts /\ made.transcripts = Transcripts
  <2>1. made.transcripts = Transcripts
    BY DEF Init, Built
  <2>2. tree["transcripts"] = Released("transcripts")
    BY DEF Init, Files, Coordinator
  <2>3. Released("transcripts") = Built["transcripts"]
    BY DEF Released, Coordinator, Twins, Texts
  <2>4. QED
    BY <2>1, <2>2, <2>3 DEF Built
<1>2. DOMAIN tree = Files
  BY DEF Init
<1>3. DOMAIN made = Coordinator
  BY DEF Init, Built, Coordinator
<1>4. QED
  BY <1>1, <1>2, <1>3, TranscriptsFaithful DEF Kept

LEMMA StepKept == Kept /\ [Next]_vars => Kept'
<1> SUFFICES ASSUME Kept, [Next]_vars PROVE Kept'
  OBVIOUS
<1>1. ASSUME NEW f \in Files, EditFile(f) PROVE Kept'
  <2>1. PICK new \in EditsOf(f, tree[f]) \cup (IF f \in {"stray", "transcripts"} THEN {} ELSE {None}) :
          tree' = [tree EXCEPT ![f] = new]
    BY <1>1 DEF EditFile
  <2>2. made' = made /\ DOMAIN tree' = Files
    BY <1>1, <2>1 DEF EditFile, Kept
  <2>3. \A c \in tree'["transcripts"] : Faithful(c)
    <3>1. CASE f = "transcripts"
      <4>1. new \in EditsOf("transcripts", tree.transcripts)
        BY <2>1, <3>1
      <4>2. \A c \in new : Faithful(c)
        BY <4>1, EditsFaithful DEF Kept
      <4>3. tree'["transcripts"] = new
        BY <2>1, <3>1 DEF Kept, Files, Coordinator
      <4>4. QED
        BY <4>2, <4>3
    <3>2. CASE f # "transcripts"
      <4>1. tree'["transcripts"] = tree["transcripts"]
        BY <2>1, <3>2 DEF Kept, Files, Coordinator
      <4>2. QED
        BY <4>1 DEF Kept
    <3>3. QED
      BY <3>1, <3>2
  <2>4. QED
    BY <2>2, <2>3 DEF Kept
<1>2. ASSUME NEW f \in Coordinator, EditGenerator(f) PROVE Kept'
  <2>1. PICK new \in EditsOf(f, made[f]) : made' = [made EXCEPT ![f] = new]
    BY <1>2 DEF EditGenerator
  <2>2. tree' = tree /\ DOMAIN made' = Coordinator
    BY <1>2, <2>1 DEF EditGenerator, Kept
  <2>3. \A c \in made'["transcripts"] : Faithful(c)
    <3>1. CASE f = "transcripts"
      <4>1. new \in EditsOf("transcripts", made.transcripts)
        BY <2>1, <3>1
      <4>2. \A c \in new : Faithful(c)
        BY <4>1, EditsFaithful DEF Kept
      <4>3. made'["transcripts"] = new
        BY <2>1, <3>1 DEF Kept, Coordinator
      <4>4. QED
        BY <4>2, <4>3
    <3>2. CASE f # "transcripts"
      <4>1. made'["transcripts"] = made["transcripts"]
        BY <2>1, <3>2 DEF Kept, Coordinator
      <4>2. QED
        BY <4>1 DEF Kept
    <3>3. QED
      BY <3>1, <3>2
  <2>4. QED
    BY <2>2, <2>3 DEF Kept
<1>3. CASE Regenerate
  <2>1. made' = made /\ DOMAIN tree' = Files
    BY <1>3 DEF Regenerate
  <2>2. tree'["transcripts"] =
          made["transcripts"] \cup {c \in tree["transcripts"] : c.id \notin IdsOf(made["transcripts"])}
    BY <1>3 DEF Regenerate, Files, Coordinator
  <2>3. QED
    BY <2>1, <2>2 DEF Kept
<1>4. CASE WriteManifest \/ Verify \/ UNCHANGED vars
  BY <1>4 DEF WriteManifest, Verify, vars, Kept
<1>5. QED
  BY <1>1, <1>2, <1>3, <1>4 DEF Next

-----------------------------------------------------------------------------
(* What the checks find, one problem at a time.                            *)

Problem == {"failed", "crashed"}

LEMMA NothingFailed == ASSUME NEW b, Fails(b) = {} PROVE ~b
BY DEF Fails

LEMMA WasRead ==
  ASSUME NEW fs, NEW problems, Reading(fs, problems) = {}
  PROVE  Exist(fs) /\ problems = {}
BY DEF Reading

LEMMA FailsOnly ==
  /\ \A b : Fails(b) \subseteq Problem /\ Raises(b) \subseteq Problem
  /\ \A fs, problems : problems \subseteq Problem => Reading(fs, problems) \subseteq Problem
BY DEF Fails, Raises, Reading, Problem

LEMMA NoCheckPasses == Problems \subseteq Problem
<1> USE FailsOnly
<1>0. "failed" \in Problem /\ "crashed" \in Problem
  BY DEF Problem
<1>1. /\ CheckManifest \subseteq Problem /\ CheckSpec \subseteq Problem
      /\ CheckAppendixB \subseteq Problem /\ CheckChallengePreservation \subseteq Problem
  BY DEF CheckManifest, CheckSpec, CheckAppendixB, CheckChallengePreservation
<1>2. /\ CheckPublishedRegeneration \subseteq Problem /\ CheckTranscriptRegeneration \subseteq Problem
      /\ CheckSignatures \subseteq Problem
  BY <1>0 DEF CheckPublishedRegeneration, CheckTranscriptRegeneration, CheckSignatures
<1>3. CheckVectorReferences \subseteq Problem
  <2> DEFINE
    Verified(c) ==
      IF c.ref = None THEN Fails(c.digest # c.carried)
      ELSE IF ~ Refers(c.ref) THEN {"failed"}
      ELSE Raises(Member(c.ref, "envelope") = None) \cup
           Fails(c.outcome = "accepted" /\ Member(c.ref, "digest") # c.digest)
    Chosen(c) ==
      IF \E ref \in Candidates(c) : ~ Refers(ref) THEN {"failed"}
      ELSE Fails(c.winner # None /\ c.winner \notin {Member(ref, "digest") : ref \in Candidates(c)})
    Torn == \E c, d \in tree.selection : /\ c.group # None /\ c.group = d.group
                                         /\ <<c.winner, c.state>> # <<d.winner, d.state>>
  <2>1. \A c : Verified(c) \subseteq Problem /\ Chosen(c) \subseteq Problem
    BY <1>0
  <2>2. CheckVectorReferences =
          Reading({"records", "verification", "selection", "negatives"},
            (UNION {Verified(c) : c \in tree.verification}) \cup
            (UNION {Chosen(c) : c \in tree.selection}) \cup
            Fails(Torn) \cup Fails(~ IdsOf(Records) \subseteq IdsOf(tree.records)))
    BY DEF CheckVectorReferences
  <2> HIDE DEF Verified, Chosen, Torn
  <2>3. /\ UNION {Verified(c) : c \in tree.verification} \subseteq Problem
        /\ UNION {Chosen(c) : c \in tree.selection} \subseteq Problem
    BY <2>1
  <2>4. QED
    BY <2>2, <2>3
<1>4. CheckPublishResponses \subseteq Problem
  <2> DEFINE
    cases == tree.publish
    accepted == {c \in cases : c.verdict = "accepted"}
    named(status, codes) == \A code \in codes : <<"rejected", status, code>> \in IdsOf(cases)
    probe(status, code) ==
      \E c \in cases : c.id = <<"rejected", status, code>> /\ c.verdict = "rejected" /\ c.code = code
    forms == {c \in cases : c.id \in {<<"accepted", 1, code>> : code \in {None} \cup NoChangeCodes}}
    Twice == Cardinality(IdsOf(cases)) # Cardinality(cases)
    Untold == \E c \in accepted : c.told # <<c.status, c.code>>
    Uneven == {<<c.status, c.code>> : c \in accepted} #
                {<<0, None>>, <<1, None>>} \cup {<<1, code>> : code \in NoChangeCodes} \cup
                {<<2, code>> : code \in Registry \ NoChangeCodes}
    Unnamed == ~ (named(2, NoChangeCodes \cup {None}) /\ named(1, Registry \ NoChangeCodes) /\ named(0, {13, 7}))
    Unprobed == ~ (probe(2, WidestCode) /\ \A s \in 0 .. 2 : probe(s, FirstUnregistered))
    Unformed == Cardinality({c.code : c \in forms}) # 3
    Unvaried == \E c \in forms : c.varies # IF c.id[3] = None THEN "bare" ELSE "coded"
  <2>1. CheckPublishResponses =
          IF ~ Exist({"publish", "specification"}) \/ tree.specification # Released("specification") THEN {"crashed"}
          ELSE Fails(Twice) \cup Fails(Untold) \cup Fails(Uneven) \cup Fails(Unnamed) \cup
               Fails(Unprobed) \cup Fails(Unformed) \cup Fails(Unvaried)
    BY DEF CheckPublishResponses
  <2> HIDE DEF Twice, Untold, Uneven, Unnamed, Unprobed, Unformed, Unvaried
  <2>2. QED
    BY <1>0, <2>1
<1>5. CheckPresentEmpty \subseteq Problem /\ CheckAuthoringSeal \subseteq Problem /\ CheckCaseIdLeak \subseteq Problem
  BY <1>0 DEF CheckPresentEmpty, CheckAuthoringSeal, CheckCaseIdLeak
<1>6. CheckTranscripts \subseteq Problem
  <2>1. \A body, as : SameAs(body, as) \subseteq Problem
    BY <1>0 DEF SameAs
  <2>2. QED
    BY <2>1 DEF CheckTranscripts
<1>7. CheckCampaignGates \subseteq Problem
  BY <1>0 DEF CheckCampaignGates
<1>8. /\ CheckChallenges \subseteq Problem /\ CheckLeakproof \subseteq Problem
      /\ CheckAuthoringProjection \subseteq Problem /\ CheckHygiene \subseteq Problem
  BY DEF CheckChallenges, CheckLeakproof, CheckAuthoringProjection, CheckHygiene
<1>9. QED
  BY <1>1, <1>2, <1>3, <1>4, <1>5, <1>6, <1>7, <1>8 DEF Problems

-----------------------------------------------------------------------------
(* What follows when no check finds a problem.                             *)

LEMMA Sealed ==
  ASSUME CheckAuthoringSeal = {}
  PROVE  \A f \in Authoring : tree[f] = Released(f)
<1>1. Fails(\E f \in Authoring : tree[f] # Released(f)) = {}
  BY DEF CheckAuthoringSeal
<1>2. QED
  BY <1>1 DEF Fails

\* What is projected is among what the specification prints.
LEMMA ProjectionPrinted ==
  \A f \in DOMAIN Twins : TokensOf(Project(Built[Twins[f]])) \subseteq SpecificationText
<1>1. ASSUME NEW S, NEW A \in S PROVE TokensOf(A) \subseteq TokensOf(UNION S)
  BY <1>1 DEF TokensOf
<1> DEFINE S == {Project(f) : f \in {Identities, Records, Negatives, Wire}}
<1>2. ASSUME NEW f \in DOMAIN Twins PROVE Built[Twins[f]] \in {Identities, Records, Negatives, Wire}
  BY <1>2 DEF Twins, Built
<1>3. SpecificationText = TokensOf(UNION S)
  BY DEF SpecificationText
<1>4. \A f \in DOMAIN Twins : Project(Built[Twins[f]]) \in S
  BY <1>2
<1> HIDE DEF S
<1>5. QED
  BY <1>1, <1>3, <1>4

LEMMA AuthorsFiles ==
  ASSUME CheckAuthoringSeal = {}
  PROVE  \A f \in DOMAIN Twins : tree[f] = Project(Built[Twins[f]])
<1>1. ASSUME NEW f \in DOMAIN Twins PROVE Released(f) = Project(Built[Twins[f]])
  BY <1>1 DEF Released, Twins, Coordinator, Texts
<1>2. QED
  BY <1>1, Sealed DEF Authoring

LEMMA PublishRule ==
  ASSUME CheckPublishResponses = {}
  PROVE  {<<c.status, c.code>> : c \in {d \in tree.publish : d.verdict = "accepted"}} =
         {p \in (0 .. 2) \X (Registry \cup {None, FirstUnregistered, WidestCode}) : Acceptable(p[1], p[2])}
<1> DEFINE told == {<<c.status, c.code>> : c \in {d \in tree.publish : d.verdict = "accepted"}}
           rule == {<<0, None>>, <<1, None>>} \cup {<<1, code>> : code \in NoChangeCodes} \cup
                   {<<2, code>> : code \in Registry \ NoChangeCodes}
<1>1. Fails(told # rule) = {}
  BY DEF CheckPublishResponses
<1>2. told = rule
  BY <1>1, NothingFailed
<1>3. ASSUME NEW s \in 0 .. 2, NEW code \in Registry \cup {None, FirstUnregistered, WidestCode}
      PROVE  Acceptable(s, code) <=> <<s, code>> \in rule
  <2>1. CASE s = 0
    BY <2>1 DEF Acceptable
  <2>2. CASE s = 1
    BY <2>2 DEF Acceptable
  <2>3. CASE s = 2
    BY <2>3 DEF Acceptable
  <2>4. QED
    BY <2>1, <2>2, <2>3
<1>4. rule \subseteq (0 .. 2) \X (Registry \cup {None, FirstUnregistered, WidestCode})
  BY DEF Registry
<1> HIDE DEF told, rule
<1>5. rule = {p \in (0 .. 2) \X (Registry \cup {None, FirstUnregistered, WidestCode}) : Acceptable(p[1], p[2])}
  BY <1>3, <1>4
<1>6. QED
  BY <1>2, <1>5 DEF told

\* The parts of the check of references that the guarantees rest on.
LEMMA ReferencesHold ==
  ASSUME CheckVectorReferences = {}
  PROVE  /\ \A c \in tree.selection :
              /\ \A ref \in Candidates(c) : Refers(ref)
              /\ c.winner = None \/ \E ref \in Candidates(c) : c.winner = Member(ref, "digest")
         /\ \A c, d \in tree.selection :
              c.group # None /\ c.group = d.group => c.winner = d.winner /\ c.state = d.state
<1> DEFINE
  Chosen(c) ==
    IF \E ref \in Candidates(c) : ~ Refers(ref) THEN {"failed"}
    ELSE Fails(c.winner # None /\ c.winner \notin {Member(ref, "digest") : ref \in Candidates(c)})
  Torn == \E c, d \in tree.selection : /\ c.group # None /\ c.group = d.group
                                       /\ <<c.winner, c.state>> # <<d.winner, d.state>>
<1> DEFINE
  Verified(c) ==
    IF c.ref = None THEN Fails(c.digest # c.carried)
    ELSE IF ~ Refers(c.ref) THEN {"failed"}
    ELSE Raises(Member(c.ref, "envelope") = None) \cup
         Fails(c.outcome = "accepted" /\ Member(c.ref, "digest") # c.digest)
<1>1. (UNION {Chosen(c) : c \in tree.selection}) \cup Fails(Torn) = {}
  <2>1. CheckVectorReferences =
          Reading({"records", "verification", "selection", "negatives"},
            (UNION {Verified(c) : c \in tree.verification}) \cup
            (UNION {Chosen(c) : c \in tree.selection}) \cup
            Fails(Torn) \cup Fails(~ IdsOf(Records) \subseteq IdsOf(tree.records)))
    BY DEF CheckVectorReferences
  <2> HIDE DEF Verified, Chosen, Torn
  <2>2. QED
    BY <2>1, WasRead
<1>2. ~ Torn
  <2> HIDE DEF Torn, Chosen
  <2>1. Fails(Torn) = {}
    BY <1>1
  <2>2. QED
    BY <2>1, NothingFailed
<1>3. ASSUME NEW c \in tree.selection PROVE Chosen(c) = {}
  <2> HIDE DEF Torn, Chosen
  <2>1. QED
    BY <1>1
<1>4. ASSUME NEW c \in tree.selection
      PROVE  /\ \A ref \in Candidates(c) : Refers(ref)
             /\ c.winner = None \/ \E ref \in Candidates(c) : c.winner = Member(ref, "digest")
  <2>1. \A ref \in Candidates(c) : Refers(ref)
    BY <1>3
  <2>2. Fails(c.winner # None /\ c.winner \notin {Member(ref, "digest") : ref \in Candidates(c)}) = {}
    BY <1>3, <2>1
  <2>3. ~ (c.winner # None /\ c.winner \notin {Member(ref, "digest") : ref \in Candidates(c)})
    BY <2>2, NothingFailed
  <2>4. QED
    BY <2>1, <2>3
<1>5. QED
  BY <1>2, <1>4

\* The vectors in the tree are the generated ones, which reproduce what is
\* published.
LEMMA Regenerated ==
  ASSUME CheckPublishedRegeneration = {}
  PROVE  /\ Generates
         /\ \A f \in Coordinator \ {"transcripts"} : tree[f] = made[f]
<1>1. Generates
  BY DEF CheckPublishedRegeneration
<1> DEFINE fs == (Coordinator \cup DOMAIN Twins) \ {"transcripts"}
<1>2. Raises(~ Exist(fs)) \cup Fails(\E f \in fs : tree[f] # None /\ tree[f] # Output(f)) = {}
  BY <1>1 DEF CheckPublishedRegeneration
<1>3. Exist(fs) /\ ~ \E f \in fs : tree[f] # None /\ tree[f] # Output(f)
  <2> HIDE DEF fs
  <2>1. QED
    BY <1>2 DEF Raises, Fails
<1>4. ASSUME NEW f \in Coordinator \ {"transcripts"} PROVE tree[f] = made[f]
  <2>1. f \in fs /\ f \notin DOMAIN Twins
    BY DEF Coordinator, Twins
  <2>2. tree[f] = Output(f)
    BY <1>3, <2>1 DEF Exist
  <2>3. QED
    BY <2>1, <2>2 DEF Output
<1>5. QED
  BY <1>1, <1>4

LEMMA CaseOf ==
  ASSUME NEW file, NEW id \in IdsOf(file)
  PROVE  Case(file, id) \in file /\ Case(file, id).id = id
BY DEF IdsOf, Case

\* Every record and every negative publishes its digest, by the projection
\* that the authors have.
LEMMA DigestPublished ==
  ASSUME CheckAuthoringSeal = {}, CheckAuthoringProjection = {},
         NEW f \in {"records", "negatives"}, NEW c \in tree[f]
  PROVE  "digest" \in c.published
<1>1. PICK t \in DOMAIN Twins : Twins[t] = f
  BY DEF Twins
<1>2. tree[t] = Project(Built[f])
  BY <1>1, AuthorsFiles
<1>3. /\ IdsOf(tree[t]) = IdsOf(tree[f])
      /\ \A a \in tree[t] : \A d \in tree[f] : d.id = a.id => a.published = d.published
  <2>1. /\ ~ \E u \in DOMAIN Twins : IdsOf(tree[u]) # IdsOf(tree[Twins[u]])
        /\ ~ \E u \in DOMAIN Twins : \E a \in tree[u] : \E d \in tree[Twins[u]] :
              /\ d.id = a.id
              /\ \/ a.published # d.published
                 \/ \E x \in DOMAIN a.members : x \notin DOMAIN d.members \/ d.members[x] # a.members[x]
    <3> DEFINE
      Other == \E u \in DOMAIN Twins : IdsOf(tree[u]) # IdsOf(tree[Twins[u]])
      Apart ==
        \E u \in DOMAIN Twins : \E a \in tree[u] : \E d \in tree[Twins[u]] :
          /\ d.id = a.id
          /\ \/ a.published # d.published
             \/ \E x \in DOMAIN a.members : x \notin DOMAIN d.members \/ d.members[x] # a.members[x]
    <3>1. CheckAuthoringProjection =
            Reading(DOMAIN Twins \cup {"identities", "records", "negatives", "wire"},
                    Fails(Other) \cup Fails(Apart))
      BY DEF CheckAuthoringProjection
    <3> HIDE DEF Other, Apart
    <3>2. Fails(Other) = {} /\ Fails(Apart) = {}
      BY <3>1, WasRead
    <3>3. ~ Other /\ ~ Apart
      BY <3>2, NothingFailed
    <3>4. QED
      BY <3>3 DEF Other, Apart
  <2>2. QED
    BY <1>1, <2>1
<1>4. PICK a \in tree[t] : a.id = c.id
  BY <1>3 DEF IdsOf
<1>5. a.published = c.published
  BY <1>3, <1>4
<1>6. \A v \in Built[f] : "digest" \in v.published /\ "published" \in DOMAIN v
  BY DEF Built, Records, Negatives, Vector
<1>7. "digest" \in a.published
  BY <1>2, <1>6 DEF Project
<1>8. QED
  BY <1>5, <1>7

\* A winner is the digest of one of the candidates.
LEMMA WinnerOffered ==
  ASSUME CheckVectorReferences = {}, CheckPublishedRegeneration = {}, CheckAuthoringSeal = {},
         CheckAuthoringProjection = {}, NEW c \in tree.selection
  PROVE  c.winner \in {None} \cup {Digest(c.order[k]) : k \in DOMAIN c.order}
<1>1. CASE c.winner = None
  BY <1>1
<1>2. CASE c.winner # None
  <2>1. PICK ref \in Candidates(c) : c.winner = Member(ref, "digest")
    BY <1>2, ReferencesHold
  <2>2. PICK k \in DOMAIN c.order : ref = CandidateRef(c.order[k])
    BY <2>1 DEF Candidates
  <2>3. PICK f \in {"records", "negatives"} : ref = <<f, c.order[k]>>
    BY <2>2 DEF CandidateRef, Record, Negative
  <2> DEFINE v == Case(tree[f], c.order[k])
  <2>4. v \in tree[f] /\ v.id = c.order[k]
    BY <2>1, <2>3, CaseOf, ReferencesHold DEF Refers
  <2>5. c.winner = IF "digest" \in DOMAIN v.members THEN v.members["digest"] ELSE None
    BY <2>1, <2>3 DEF Member
  <2>6. v \in Pv(made) /\ Reproduces(made)
    BY <2>4, Regenerated DEF Pv, Coordinator, Generates
  <2>7. "digest" \in v.published
    BY <2>4, DigestPublished
  <2> HIDE DEF v
  <2>8. "digest" \in DOMAIN v.members => v.members["digest"] = <<v.id, "digest">>
    BY <2>6, <2>7 DEF Reproduces
  <2>9. c.winner = Digest(c.order[k])
    BY <1>2, <2>4, <2>5, <2>8 DEF Digest
  <2>10. QED
    BY <2>9
<1>3. QED
  BY <1>1, <1>2

LEMMA CursorsIssued ==
  ASSUME Kept, CheckCampaignGates = {}, NEW c \in tree.transcripts
  PROVE  c.cursor # "neverIssued"
<1>1. Fails(\E d \in tree.transcripts :
              d.operation = "changes" /\ d.cursor \notin {"null", "peer", "old"}) = {}
  BY DEF CheckCampaignGates
<1>2. c.operation = "changes" => c.cursor \in {"null", "peer", "old"}
  BY <1>1, NothingFailed
<1>3. QED
  BY <1>2 DEF Kept, Faithful

\* A publication sends the envelope of its record, byte for byte.
LEMMA BytesPublished ==
  ASSUME Kept, CheckTranscripts = {}, CheckSignatures = {}, CheckPublishedRegeneration = {},
         NEW c \in tree.transcripts, c.sent # None, c.requestAs # None
  PROVE  c.request = <<c.sent, "envelope">>
<1>1. PICK f \in {"records", "negatives"} : c.requestAs = <<f, c.sent, "envelope">>
  BY DEF Kept, Faithful
<1> DEFINE as == c.requestAs
           v == Case(tree[f], c.sent)
<1>2. SameAs(c.request, as) = {}
  BY DEF CheckTranscripts
<1>3. /\ Refers(as) /\ Member(as, "envelope") # None
      /\ Fails(Member(as, "envelope") # c.request) = {}
  BY <1>1, <1>2 DEF SameAs
<1>4. v \in tree[f] /\ v.id = c.sent
  BY <1>1, <1>3, CaseOf DEF Refers
<1>5. Member(as, "envelope") = IF "envelope" \in DOMAIN v.members THEN v.members["envelope"] ELSE None
  BY <1>1 DEF Member
<1>6. c.request = Member(as, "envelope")
  BY <1>3, NothingFailed
<1>7. v \in made.records \cup made.negatives
  BY <1>4, Regenerated DEF Coordinator
<1> HIDE DEF v, as
<1>8. "envelope" \in DOMAIN v.members /\ c.request = v.members["envelope"]
  BY <1>3, <1>5, <1>6
<1>9. ~ \E d \in made.records \cup made.negatives :
          "envelope" \in DOMAIN d.members /\ d.members["envelope"] # <<d.id, "envelope">>
  BY Regenerated, NothingFailed DEF CheckSignatures
<1>10. QED
  BY <1>4, <1>7, <1>8, <1>9

\* Without a problem the bundle is guarded, whoever wrote it.
LEMMA NoProblem ==
  ASSUME Kept, Problems = {}
  PROVE  IsGuarded
<1>1. /\ CheckAuthoringSeal = {} /\ CheckPublishResponses = {} /\ CheckVectorReferences = {}
      /\ CheckPublishedRegeneration = {} /\ CheckAuthoringProjection = {}
      /\ CheckCampaignGates = {} /\ CheckTranscripts = {} /\ CheckSignatures = {}
  BY DEF Problems
<1>2. \A f \in Authoring : tree[f] = Released(f)
  BY <1>1, Sealed
<1>3. \A f \in DOMAIN Twins : TokensOf(tree[f]) \subseteq SpecificationText
  BY <1>1, AuthorsFiles, ProjectionPrinted
<1>4. {<<c.status, c.code>> : c \in {d \in tree.publish : d.verdict = "accepted"}} =
      {p \in (0 .. 2) \X (Registry \cup {None, FirstUnregistered, WidestCode}) : Acceptable(p[1], p[2])}
  BY <1>1, PublishRule
<1>5. \A c, d \in tree.selection :
        c.group # None /\ c.group = d.group => c.winner = d.winner /\ c.state = d.state
  BY <1>1, ReferencesHold
<1>6. \A c \in tree.selection :
        c.winner \in {None} \cup {Digest(c.order[k]) : k \in DOMAIN c.order}
  BY <1>1, WinnerOffered
<1>7. \A c \in tree.transcripts : c.cursor # "neverIssued"
  BY <1>1, CursorsIssued
<1>8. \A c \in tree.transcripts :
        c.sent # None /\ c.requestAs # None => c.request = <<c.sent, "envelope">>
  BY <1>1, BytesPublished
<1>9. QED
  BY <1>2, <1>3, <1>4, <1>5, <1>6, <1>7, <1>8 DEF IsGuarded

-----------------------------------------------------------------------------
(* What the generators as they are write is what the specification says.   *)

\* A candidate that outranks every other admissible one is selected, in
\* whatever order they come.
LEMMA SelectsBest ==
  ASSUME NEW order, NEW now, NEW sticky, NEW w \in {order[k] : k \in DOMAIN order},
         Admissible(w, now, sticky),
         \A d \in {order[k] : k \in DOMAIN order} \ {w} :
           Admissible(d, now, sticky) => Outranks(Named[w], Named[d]) /\ ~ Outranks(Named[d], Named[w])
  PROVE  SelectCurrent(order, now, sticky) = [winner |-> Digest(w), state |-> Named[w].authority]
<1> DEFINE fit == {order[k] : k \in {k \in DOMAIN order : Admissible(order[k], now, sticky)}}
           best == {c \in fit : \A d \in fit \ {c} : Outranks(Named[c], Named[d])}
<1>1. fit = {d \in {order[k] : k \in DOMAIN order} : Admissible(d, now, sticky)}
  OBVIOUS
<1>2. w \in fit /\ \A d \in fit \ {w} : Outranks(Named[w], Named[d]) /\ ~ Outranks(Named[d], Named[w])
  BY <1>1
<1> HIDE DEF fit
<1>3. best = {w}
  BY <1>2
<1> HIDE DEF best
<1>4. (CHOOSE c \in best : TRUE) = w /\ best # {}
  BY <1>3
<1>5. SelectCurrent(order, now, sticky) =
        [winner |-> IF best = {} THEN None ELSE Digest(CHOOSE c \in best : TRUE),
         state |-> IF best = {} THEN sticky ELSE Named[CHOOSE c \in best : TRUE].authority]
  BY DEF SelectCurrent, best, fit
<1>6. QED
  BY <1>4, <1>5

LEMMA SelectsNone ==
  ASSUME NEW order, NEW now, NEW sticky, \A k \in DOMAIN order : ~ Admissible(order[k], now, sticky)
  PROVE  SelectCurrent(order, now, sticky) = [winner |-> None, state |-> sticky]
<1> DEFINE fit == {order[k] : k \in {k \in DOMAIN order : Admissible(order[k], now, sticky)}}
           best == {c \in fit : \A d \in fit \ {c} : Outranks(Named[c], Named[d])}
<1>1. fit = {}
  OBVIOUS
<1>2. best = {}
  BY <1>1
<1> HIDE DEF fit, best
<1>3. SelectCurrent(order, now, sticky) =
        [winner |-> IF best = {} THEN None ELSE Digest(CHOOSE c \in best : TRUE),
         state |-> IF best = {} THEN sticky ELSE Named[CHOOSE c \in best : TRUE].authority]
  BY DEF SelectCurrent, best, fit
<1>4. QED
  BY <1>2, <1>3

\* One group of selections, whatever its names: the winner and the state of each
\* are those of the rule, and every order is there.
Leads(names, winner, state) ==
  /\ winner \in names /\ Admissible(winner, Recipient, "unknown") /\ state = Named[winner].authority
  /\ \A d \in names \ {winner} : Admissible(d, Recipient, "unknown") =>
       Outranks(Named[winner], Named[d]) /\ ~ Outranks(Named[d], Named[winner])
LEMMA GroupNormative ==
  ASSUME NEW group, NEW names, NEW winner, NEW state, Leads(names, winner, state),
         NEW cs, cs = Group(group, names, winner, state)
  PROVE  /\ \A c \in cs : [winner |-> c.winner, state |-> c.state] = SelectCurrent(c.order, c.now, c.sticky)
         /\ \A c \in cs : c.group = group /\ {c.order[k] : k \in DOMAIN c.order} = names
         /\ Orders(names) \subseteq {c.order : c \in cs}
<1>1. ASSUME NEW s \in Orders(names)
      PROVE  /\ {s[k] : k \in DOMAIN s} = names
             /\ SelectCurrent(s, Recipient, "unknown") = [winner |-> Digest(winner), state |-> state]
  <2>1. {s[k] : k \in DOMAIN s} = names
    BY DEF Orders
  <2>2. QED
    BY <2>1, SelectsBest DEF Leads
<1> DEFINE one(s) == Selected(<<"select", group, s>>, group, s, Recipient, "unknown", Digest(winner), state)
<1>2. \A s : /\ one(s).winner = Digest(winner) /\ one(s).state = state /\ one(s).order = s
             /\ one(s).now = Recipient /\ one(s).sticky = "unknown" /\ one(s).group = group
  BY DEF Selected
<1>3. cs = {one(s) : s \in Orders(names)}
  BY DEF Group
<1> HIDE DEF one
<1>4. QED
  BY <1>1, <1>2, <1>3

\* What the records of the groups are to each other.
LEMMA Ranking ==
  /\ \A c \in {"b4", "b5", "b6a", "b6b"} : Admissible(c, Recipient, "unknown")
  /\ \A c \in {"b8", "b9"} : ~ Admissible(c, Recipient, "unknown")
  /\ ~ Admissible("b9", Recipient, "unknown") /\ ~ Admissible("b4", Recipient, "rootRevoked")
  /\ ~ Admissible("b4", Premature, "unknown")
  /\ Outranks(Named["b5"], Named["b4"]) /\ ~ Outranks(Named["b4"], Named["b5"])
  /\ Outranks(Named["b6a"], Named["b6b"]) /\ ~ Outranks(Named["b6b"], Named["b6a"])
  /\ Named["b4"].authority = "root" /\ Named["b5"].authority = "rootRevoked" /\ Named["b6a"].authority = "root"
BY DEF Admissible, Outranks, Named, B4, B5, B6A, B6B, B8, B9, Published, Recipient, Premature

LEMMA SelectionNormative ==
  \A c \in Selection :
    /\ [winner |-> c.winner, state |-> c.state] = SelectCurrent(c.order, c.now, c.sticky)
    /\ c.group # None =>
         Orders({c.order[k] : k \in DOMAIN c.order}) \subseteq {d.order : d \in {e \in Selection : e.group = c.group}}
<1> DEFINE Good(c) ==
             /\ [winner |-> c.winner, state |-> c.state] = SelectCurrent(c.order, c.now, c.sticky)
             /\ c.group # None =>
                  Orders({c.order[k] : k \in DOMAIN c.order}) \subseteq {d.order : d \in {e \in Selection : e.group = c.group}}
<1>1. ASSUME NEW group, NEW names, NEW winner, NEW state,
             Group(group, names, winner, state) \subseteq Selection, Leads(names, winner, state)
      PROVE  \A c \in Group(group, names, winner, state) : Good(c)
  <2> DEFINE cs == Group(group, names, winner, state)
  <2>1. /\ \A c \in cs : [winner |-> c.winner, state |-> c.state] = SelectCurrent(c.order, c.now, c.sticky)
        /\ \A c \in cs : c.group = group /\ {c.order[k] : k \in DOMAIN c.order} = names
        /\ Orders(names) \subseteq {c.order : c \in cs}
    <3> HIDE DEF Good
    <3>1. Leads(names, winner, state)
      BY <1>1
    <3>2. QED
      BY <3>1, GroupNormative
  <2> HIDE DEF cs
  <2>2. cs \subseteq Selection
    BY <1>1 DEF cs
  <2>3. {c.order : c \in cs} \subseteq {d.order : d \in {e \in Selection : e.group = group}}
    BY <2>1, <2>2
  <2>4. \A c \in cs : Good(c)
    BY <2>1, <2>3
  <2>5. QED
    BY <2>4 DEF cs
<1> DEFINE G1 == Group("authority-precedence", {"b4", "b5"}, "b5", "rootRevoked")
           G2 == Group("binding-rejection", {"b4", "b8"}, "b4", "root")
           G3 == Group("equal-time-digest", {"b6a", "b6b"}, "b6a", "root")
           G4 == Group("full-mixed", {"b4", "b5", "b8", "b9"}, "b5", "rootRevoked")
           S1 == Selected(<<"select", "sticky">>, None, <<"b4">>, Recipient, "rootRevoked", None, "rootRevoked")
           S2 == Selected(<<"select", "cross-did">>, None, <<"b9">>, Recipient, "unknown", None, "unknown")
           S3 == Selected(<<"select", "premature">>, None, <<"b4">>, Premature, "unknown", None, "unknown")
           S4 == Selected(<<"select", "empty">>, None, <<>>, Recipient, "unknown", None, "unknown")
<1>2. Selection = G1 \cup G2 \cup G3 \cup G4 \cup {S1, S2, S3, S4}
  BY DEF Selection
<1>3. \A c \in G1 : Good(c)
  <2>1. Leads({"b4", "b5"}, "b5", "rootRevoked")
    BY Ranking DEF Leads
  <2>2. G1 \subseteq Selection
    BY <1>2
  <2> HIDE DEF Good
  <2>3. QED
    BY <1>1, <2>1, <2>2
<1>4. \A c \in G2 : Good(c)
  <2>1. Leads({"b4", "b8"}, "b4", "root")
    BY Ranking DEF Leads
  <2>2. G2 \subseteq Selection
    BY <1>2
  <2> HIDE DEF Good
  <2>3. QED
    BY <1>1, <2>1, <2>2
<1>5. \A c \in G3 : Good(c)
  <2>1. Leads({"b6a", "b6b"}, "b6a", "root")
    BY Ranking DEF Leads
  <2>2. G3 \subseteq Selection
    BY <1>2
  <2> HIDE DEF Good
  <2>3. QED
    BY <1>1, <2>1, <2>2
<1>6. \A c \in G4 : Good(c)
  <2>1. Leads({"b4", "b5", "b8", "b9"}, "b5", "rootRevoked")
    BY Ranking DEF Leads
  <2>2. G4 \subseteq Selection
    BY <1>2
  <2> HIDE DEF Good
  <2>3. QED
    BY <1>1, <2>1, <2>2
<1>7. Good(S1) /\ Good(S2) /\ Good(S3) /\ Good(S4)
  <2>1. /\ SelectCurrent(<<"b4">>, Recipient, "rootRevoked") = [winner |-> None, state |-> "rootRevoked"]
        /\ SelectCurrent(<<"b9">>, Recipient, "unknown") = [winner |-> None, state |-> "unknown"]
        /\ SelectCurrent(<<"b4">>, Premature, "unknown") = [winner |-> None, state |-> "unknown"]
        /\ SelectCurrent(<<>>, Recipient, "unknown") = [winner |-> None, state |-> "unknown"]
    BY SelectsNone, Ranking
  <2>2. QED
    BY <2>1 DEF Selected
<1>8. \A c \in Selection : Good(c)
  <2> HIDE DEF G1, G2, G3, G4, S1, S2, S3, S4, Good
  <2>1. QED
    BY <1>2, <1>3, <1>4, <1>5, <1>6, <1>7
<1>9. QED
  BY <1>8

LEMMA VariantNormative ==
  ASSUME NEW id, NEW change, NEW error, error = TargetError(TargetWith(change))
  PROVE  Variant(id, change, error).outcome = TargetError(Variant(id, change, error).target)
BY DEF Variant, Checked

LEMMA VerificationNormative ==
  \A c \in Verification : c.target # None => c.outcome = TargetError(c.target)
<1>1. \A c \in DidVariants : c.outcome = TargetError(c.target)
  <2>1. /\ TargetError(TargetWith([of |-> "attacker"])) = "identityBindingMismatch"
        /\ TargetError(TargetWith([of |-> "bob"])) = "identityBindingMismatch"
        /\ TargetError(TargetWith([code |-> 19])) = "unsupportedHash"
        /\ TargetError(TargetWith([declared |-> 31, present |-> 31])) = "unsupportedHash"
        /\ TargetError(TargetWith([present |-> 33])) = "invalidDid"
        /\ TargetError(TargetWith([present |-> 31])) = "invalidDid"
        /\ TargetError(TargetWith([wellFormed |-> FALSE])) = "invalidDid"
    BY DEF TargetError, TargetWith, AliceTarget
  <2>2. QED
    BY <2>1, VariantNormative DEF DidVariants
<1>2. \A c \in Verification : c \in DidVariants \/ c.target = None
  BY DEF Verification, Checked, WireEmpty
<1>3. QED
  BY <1>1, <1>2

LEMMA TimestampsNormative ==
  \A c \in Timestamps : c.result = NextTimestamp(c.now, c.previous)
BY NoneAssumption DEF Timestamps, NextTimestamp, U64Max

LEMMA PublishNormative ==
  \A c \in PublishResponses : c.verdict = "accepted" <=> Acceptable(c.status, c.code)
<1>1. \A verdict_, status, code, varies :
        /\ Response(verdict_, status, code, varies).verdict = verdict_
        /\ Response(verdict_, status, code, varies).status = status
        /\ Response(verdict_, status, code, varies).code = code
  BY DEF Response
<1>2. /\ Acceptable(0, None) /\ Acceptable(1, None) /\ \A code \in NoChangeCodes : Acceptable(1, code)
      /\ \A code \in Registry \ NoChangeCodes : Acceptable(2, code)
  BY DEF Acceptable
<1>3. /\ \A code \in Registry \ NoChangeCodes : ~ Acceptable(1, code)
      /\ ~ Acceptable(0, 13) /\ ~ Acceptable(0, 7) /\ ~ Acceptable(2, None)
      /\ \A code \in NoChangeCodes : ~ Acceptable(2, code)
      /\ \A status \in 0 .. 2 : ~ Acceptable(status, FirstUnregistered)
      /\ ~ Acceptable(2, WidestCode)
  BY NoneAssumption DEF Acceptable, Registry, NoChangeCodes, FirstUnregistered, WidestCode
<1>4. QED
  BY <1>1, <1>2, <1>3 DEF PublishResponses, Accept, Reject

LEMMA PublicationFields ==
  ASSUME NEW id, NEW held, NEW sent, NEW file, NEW case, NEW status, NEW code
  PROVE  LET c == Publication(id, held, sent, file, case, status, code)
         IN c.held = held /\ c.sent = sent /\ c.response = <<"status", status, code>>
BY DEF Publication, Transcript

LEMMA TranscriptsNormative ==
  \A c \in Transcripts : c.sent # None => c.response \in Answers(c.held, c.sent)
<1>1. \A c \in RelayTranscripts \cup ChangesTranscripts \cup HostileTranscripts : c.sent = None
  <2>1. \A id, operation, http, case, cursor : FromWire(id, operation, http, case, cursor).sent = None
    BY DEF FromWire, Transcript
  <2>2. /\ \A id, cursor, answer : Changes(id, cursor, answer).sent = None
        /\ \A id, operation, answer : Hostile(id, operation, answer).sent = None
        /\ \A id, operation, http : Transcript(id, operation, http).sent = None
    BY DEF Changes, Hostile, Transcript
  <2>3. QED
    BY <2>1, <2>2 DEF RelayTranscripts, ChangesTranscripts, HostileTranscripts
<1> DEFINE large == Publication("publish-record-too-large", None, "large", None, "large", 2, 3)
<1>2. \A c \in LateTranscripts : c.sent = None \/ c = large
  BY DEF LateTranscripts, Changes, Transcript
<1>3. /\ <<"status", 0, None>> \in Answers(None, "b4")
      /\ <<"status", 2, 7>> \in Answers(None, "b8")
      /\ <<"status", 2, 3>> \in Answers(None, "large")
  BY DEF Answers, Judge, NewNode, RecordNamed, Named, Large, B4, B8, Published, Dids, Recipient, FaultCode
<1>4. /\ <<"status", 1, None>> \in Answers("b4", "b4")
      /\ <<"status", 1, 13>> \in Answers("b4", "b4")
      /\ <<"status", 1, 12>> \in Answers("b6a", "b6b")
  <2> DEFINE holding(held) == Put(NewNode("rust", Foreign, "none"), RecordNamed(held), 1)
  <2>1. /\ None # "b4" /\ None # "b6a"
        /\ \A c \in {"b4", "b6a"} : None # [record |-> RecordNamed(c), lastUpdated |-> 1]
    BY NoneAssumption DEF Named, RecordNamed
  <2>2. /\ ~ Outranks(Named["b4"], Named["b4"]) /\ ~ Outranks(Named["b6b"], Named["b6a"])
    BY Ranking DEF Outranks, Named, B4, Published
  <2>3. \A c \in {"b4", "b6a", "b6b"} :
          /\ RecordNamed(c) = Named[c] /\ Named[c].did = "alice" /\ Named[c].fault = "none"
          /\ Named[c].timestamp = 1
    BY DEF RecordNamed, Named, B4, B6A, B6B, Published
  <2>4. \A c \in {"b4", "b6a"} : /\ holding(c).entries["alice"] = [record |-> RecordNamed(c), lastUpdated |-> 1]
                                /\ holding(c).quirk = "none"
    BY <2>3 DEF Put, NewNode, Dids
  <2> HIDE DEF holding
  <2>5. Judge(holding("b4"), RecordNamed("b4"), Recipient) = "noChange"
    BY <2>1, <2>2, <2>3, <2>4 DEF Judge, Recipient
  <2>6. Judge(holding("b6a"), RecordNamed("b6b"), Recipient) = "noChange"
    BY <2>1, <2>2, <2>3, <2>4 DEF Judge, Recipient
  <2>7. /\ Answers("b4", "b4") = {<<"status", 1, None>>, <<"status", 1, 13>>}
        /\ Answers("b6a", "b6b") = {<<"status", 1, None>>, <<"status", 1, 12>>}
    BY <2>1, <2>5, <2>6 DEF Answers, holding
  <2>8. QED
    BY <2>7
<1>5. \A c \in PublishTranscripts \cup {large} : c.response \in Answers(c.held, c.sent)
  BY <1>3, <1>4, PublicationFields DEF PublishTranscripts
<1>6. QED
  BY <1>1, <1>2, <1>5 DEF Transcripts

LEMMA VectorsNormative ==
  \A f \in {"identities", "records", "negatives", "wire"} : \A c \in Built[f] :
    \A x \in DOMAIN c.members : c.members[x] = <<c.id, x>>
BY DEF Built, Identities, Records, Negatives, Wire, Vector

LEMMA ProjectionsNormative ==
  ASSUME NEW file, \A c \in file : \A x \in DOMAIN c.members : c.members[x] = <<c.id, x>>,
         \A c \in file : "members" \in DOMAIN c /\ "id" \in DOMAIN c,
         NEW c \in Project(file), NEW x \in DOMAIN c.members
  PROVE  c.members[x] = <<c.id, x>>
<1> DEFINE shown(d) == [m \in d.published \cap DOMAIN d.members |-> d.members[m]]
<1>1. PICK d \in file : c = [d EXCEPT !.members = shown(d)]
  BY DEF Project
<1>2. "members" \in DOMAIN d /\ "id" \in DOMAIN d
  BY <1>1
<1> HIDE DEF shown
<1>3. c.members = shown(d) /\ c.id = d.id
  BY <1>1, <1>2
<1>4. x \in DOMAIN d.members /\ c.members[x] = d.members[x]
  BY <1>3 DEF shown
<1>5. QED
  BY <1>1, <1>3, <1>4

\* Without a problem and under the released generators it is normative.
LEMMA NoProblemAsBuilt ==
  ASSUME Problems = {}, made = Built
  PROVE  Normative
<1>1. /\ CheckAuthoringSeal = {} /\ CheckPublishedRegeneration = {} /\ CheckTranscriptRegeneration = {}
  BY DEF Problems
<1>2. /\ tree.selection = Selection /\ tree.verification = Verification /\ tree.timestamps = Timestamps
      /\ tree.publish = PublishResponses
      /\ \A f \in {"identities", "records", "negatives", "wire"} : tree[f] = Built[f]
  BY <1>1, Regenerated DEF Coordinator, Built
<1>3. ASSUME NEW c \in tree.transcripts, c.id \in IdsOf(Transcripts) PROVE c \in Transcripts
  <2>1. made.transcripts = Transcripts
    BY DEF Built
  <2>2. Fails(\E d \in tree.transcripts : d.id \in IdsOf(made.transcripts) /\ d \notin made.transcripts) = {}
    BY <1>1 DEF CheckTranscriptRegeneration
  <2>3. QED
    BY <1>3, <2>1, <2>2, NothingFailed
<1>4. \A f \in {"identities", "records", "negatives", "wire"} : \A c \in tree[f] :
        \A x \in DOMAIN c.members : c.members[x] = <<c.id, x>>
  BY <1>2, VectorsNormative
<1>5. \A f \in DOMAIN Twins : \A c \in tree[f] : \A x \in DOMAIN c.members : c.members[x] = <<c.id, x>>
  <2>1. \A f \in {"identities", "records", "negatives", "wire"} : \A c \in Built[f] :
          "members" \in DOMAIN c /\ "id" \in DOMAIN c
    BY DEF Built, Identities, Records, Negatives, Wire, Vector
  <2>2. \A f \in DOMAIN Twins : Twins[f] \in {"identities", "records", "negatives", "wire"}
    BY DEF Twins
  <2>3. QED
    BY <1>1, <2>1, <2>2, AuthorsFiles, VectorsNormative, ProjectionsNormative
<1>6. QED
  BY <1>2, <1>3, <1>4, <1>5, SelectionNormative, VerificationNormative, TimestampsNormative,
     PublishNormative, TranscriptsNormative
  DEF Normative

-----------------------------------------------------------------------------
(* No case twice in a document, through every edit and regeneration.       *)

Documents == Coordinator \ {"publish"}
OneEach(file) ==
  /\ IsFiniteSet(file)
  /\ \A c \in file : "id" \in DOMAIN c
  /\ \A c, d \in file : c.id = d.id => c = d

Typed ==
  /\ DOMAIN tree = Files /\ DOMAIN made = Coordinator
  /\ \A f \in Documents : OneEach(made[f]) /\ (tree[f] # None => OneEach(tree[f]))
  /\ OneEach(tree["transcripts"])
  /\ \A f \in Texts : tree[f] # None => tree[f].version \in {"released"} \cup Versions[f]
  /\ verdict \in {"none", "passed", "failed", "crashed"}
  /\ edited \subseteq {"file", "generator"} \X Files

LEMMA OneEachCounts ==
  ASSUME NEW file, OneEach(file)
  PROVE  Cardinality(IdsOf(file)) = Cardinality(file)
<1> DEFINE name == [c \in file |-> c.id]
<1>1. name \in Surjection(file, IdsOf(file))
  BY DEF Surjection, IdsOf
<1>2. name \in Injection(file, IdsOf(file))
  BY <1>1 DEF OneEach, Injection, IsInjective, Surjection
<1> HIDE DEF name
<1>3. QED
  BY <1>1, <1>2, FS_Surjection DEF OneEach

LEMMA OneEachKept ==
  ASSUME NEW file, OneEach(file)
  PROVE  /\ \A part \in SUBSET file : OneEach(part)
         /\ \A d : "id" \in DOMAIN d /\ d.id \notin IdsOf(file) => OneEach(file \cup {d})
<1>1. ASSUME NEW part \in SUBSET file PROVE OneEach(part)
  <2>1. IsFiniteSet(part)
    BY FS_Subset DEF OneEach
  <2>2. QED
    BY <2>1 DEF OneEach
<1>2. ASSUME NEW d, "id" \in DOMAIN d, d.id \notin IdsOf(file) PROVE OneEach(file \cup {d})
  <2>1. IsFiniteSet(file \cup {d})
    BY FS_AddElement DEF OneEach
  <2>2. \A c \in file : c.id # d.id
    BY <1>2 DEF IdsOf
  <2>3. QED
    BY <1>2, <2>1, <2>2 DEF OneEach
<1>3. QED
  BY <1>1, <1>2

\* Two documents none of whose names meet.
LEMMA OneEachUnion ==
  ASSUME NEW A, NEW B, OneEach(A), OneEach(B), \A c \in A : \A d \in B : c.id # d.id
  PROVE  OneEach(A \cup B)
<1>1. IsFiniteSet(A \cup B)
  BY FS_Union DEF OneEach
<1>2. QED
  BY <1>1 DEF OneEach

\* An altered case keeps its name.
LEMMA AlterNamed ==
  ASSUME NEW f \in Documents, NEW c, "id" \in DOMAIN c, NEW d \in Alter(f, c)
  PROVE  "id" \in DOMAIN d /\ d.id = c.id
<1>1. CASE f \in {"identities", "records", "negatives", "wire"}
  <2>1. Alter(f, c) = AlterVector(c)
    <3>1. f = "identities" => Alter(f, c) = AlterVector(c)
      BY DEF Alter, Twins
    <3>2. f = "records" => Alter(f, c) = AlterVector(c)
      BY DEF Alter, Twins
    <3>3. f = "negatives" => Alter(f, c) = AlterVector(c)
      BY DEF Alter, Twins
    <3>4. f = "wire" => Alter(f, c) = AlterVector(c)
      BY DEF Alter, Twins
    <3>5. QED
      BY <1>1, <3>1, <3>2, <3>3, <3>4
  <2>2. \/ d \in Forge(c)
        \/ d \in {[c EXCEPT !.published = @ \cup {x}] : x \in DOMAIN c.members \ c.published}
        \/ d \in {[c EXCEPT !.members = [y \in DOMAIN @ \ {x} |-> @[y]]] : x \in DOMAIN c.members \ c.published}
    BY <2>1 DEF AlterVector
  <2>3. d \in Forge(c) => \E v : d = [c EXCEPT !.members = v]
    BY DEF Forge
  <2>4. \E v : d = [c EXCEPT !.members = v] \/ d = [c EXCEPT !.published = v]
    BY <2>2, <2>3
  <2>5. QED
    BY <2>4
<1>2. CASE f = "verification"
  <2>1. d \in {[c EXCEPT !.outcome = IF @ = "accepted" THEN "badSignature" ELSE "accepted"],
               [c EXCEPT !.digest = <<"b4", "forged">>], [c EXCEPT !.carried = <<"b4", "forged">>]}
    BY <1>2 DEF Alter, Twins
  <2>2. QED
    BY <2>1
<1>3. CASE f = "selection"
  <2>1. d \in {[c EXCEPT !.winner = Digest(w)] : w \in {"b4", "b5", "b9"}} \cup {[c EXCEPT !.state = "unknown"]}
    BY <1>3 DEF Alter, Twins
  <2>2. QED
    BY <2>1
<1>4. CASE f = "timestamps"
  <2>1. d \in {[c EXCEPT !.result = t] : t \in {None, c.now, U64Max}}
    BY <1>4 DEF Alter, Twins
  <2>2. QED
    BY <2>1
<1>5. CASE f = "transcripts"
  <2>1. d \in {[c EXCEPT !.framed = FALSE], [c EXCEPT !.deterministic = ~ @],
               [c EXCEPT !.cursor = IF c.operation = "changes" THEN "neverIssued" ELSE @],
               [c EXCEPT !.must = "nothing"], [c EXCEPT !.response = <<"error", "other">>],
               [c EXCEPT !.request = <<"b9", "forged">>]}
    BY <1>5 DEF Alter, Twins
  <2>2. QED
    BY <2>1
<1>6. QED
  BY <1>1, <1>2, <1>3, <1>4, <1>5 DEF Documents, Coordinator

LEMMA EditsOneEach ==
  ASSUME NEW f \in Documents, NEW file, OneEach(file), NEW new \in EditsOf(f, file)
  PROVE  OneEach(new)
<1>1. PICK c \in file :
        \/ new = file \ {c}
        \/ \E d \in Alter(f, c) : new = (file \ {c}) \cup {d}
        \/ /\ f = "transcripts" /\ "copy" \notin IdsOf(file)
           /\ new = file \cup {Copy(c)} \/ new = (file \ {c}) \cup {Copy(c)}
  BY EditShape DEF Documents
<1>2. "id" \in DOMAIN c /\ OneEach(file \ {c}) /\ c.id \notin IdsOf(file \ {c})
  <2>1. OneEach(file \ {c})
    BY OneEachKept
  <2>2. QED
    BY <2>1 DEF OneEach, IdsOf
<1>3. CASE new = file \ {c}
  BY <1>2, <1>3
<1>4. CASE \E d \in Alter(f, c) : new = (file \ {c}) \cup {d}
  <2>1. PICK d \in Alter(f, c) : new = (file \ {c}) \cup {d}
    BY <1>4
  <2>2. "id" \in DOMAIN d /\ d.id = c.id
    BY <1>2, AlterNamed
  <2>3. QED
    BY <1>2, <2>1, <2>2, OneEachKept
<1>5. CASE /\ "copy" \notin IdsOf(file)
           /\ new = file \cup {Copy(c)} \/ new = (file \ {c}) \cup {Copy(c)}
  <2>1. "id" \in DOMAIN Copy(c) /\ Copy(c).id = "copy"
    BY <1>2 DEF Copy
  <2>2. "copy" \notin IdsOf(file \ {c})
    BY <1>5 DEF IdsOf
  <2>3. QED
    BY <1>2, <1>5, <2>1, <2>2, OneEachKept
<1>6. QED
  BY <1>1, <1>3, <1>4, <1>5

\* The released documents.
LEMMA FewFinite ==
  /\ \A a, b, c, d : IsFiniteSet({a, b, c, d})
  /\ \A a, b, c, d, e, f, g : IsFiniteSet({a, b, c, d, e, f, g})
<1>1. \A S, T : IsFiniteSet(S) /\ IsFiniteSet(T) => IsFiniteSet(S \cup T)
  BY FS_Union
<1>2. \A a, b : IsFiniteSet({a, b})
  <2> TAKE a, b
  <2>1. IsFiniteSet({a} \cup {b})
    BY <1>1, FS_Singleton
  <2>2. {a, b} = {a} \cup {b}
    OBVIOUS
  <2>3. QED
    BY <2>1, <2>2
<1>3. \A a, b, c, d : IsFiniteSet({a, b, c, d})
  <2> TAKE a, b, c, d
  <2>1. IsFiniteSet({a, b} \cup {c, d})
    BY <1>1, <1>2
  <2>2. {a, b, c, d} = {a, b} \cup {c, d}
    OBVIOUS
  <2>3. QED
    BY <2>1, <2>2
<1>4. \A a, b, c, d, e, f, g : IsFiniteSet({a, b, c, d, e, f, g})
  <2> TAKE a, b, c, d, e, f, g
  <2>1. IsFiniteSet({a, b, c, d} \cup {d, e, f, g})
    BY <1>1, <1>3
  <2>2. {a, b, c, d, e, f, g} = {a, b, c, d} \cup {d, e, f, g}
    OBVIOUS
  <2>3. QED
    BY <2>1, <2>2
<1>5. QED
  BY <1>3, <1>4

LEMMA VectorNamed ==
  ASSUME NEW id, NEW published, NEW derived
  PROVE  "id" \in DOMAIN Vector(id, published, derived) /\ Vector(id, published, derived).id = id
BY DEF Vector

LEMMA PublishedOneEach ==
  OneEach(Identities) /\ OneEach(Records) /\ OneEach(Negatives) /\ OneEach(Wire)
<1>1. OneEach(Identities)
  <2> DEFINE a == Vector("alice", {"did", "commitment"}, {})
             b == Vector("bob", {"did", "commitment"}, {})
             c == Vector("attacker", {"did"}, {"commitment"})
  <2>1. Identities = {a, b, c, c}
    BY DEF Identities
  <2>2. /\ "id" \in DOMAIN a /\ "id" \in DOMAIN b /\ "id" \in DOMAIN c
        /\ a.id = "alice" /\ b.id = "bob" /\ c.id = "attacker"
    BY VectorNamed
  <2> HIDE DEF a, b, c
  <2>3. IsFiniteSet(Identities)
    BY <2>1, FewFinite
  <2>4. QED
    BY <2>1, <2>2, <2>3 DEF OneEach
<1>2. OneEach(Records)
  <2> DEFINE main(c) == Vector(c, {"digest", "envelope"}, {})
             more(c) == Vector(c, {"digest"}, {"envelope"})
  <2>1. Records = {main("b4"), main("b5"), main("b9"), more("b6a"), more("b6b"), more("b6b"), more("b6b")}
    BY DEF Records
  <2>2. \A c : /\ "id" \in DOMAIN main(c) /\ main(c).id = c
               /\ "id" \in DOMAIN more(c) /\ more(c).id = c
    BY VectorNamed
  <2> HIDE DEF main, more
  <2>3. IsFiniteSet(Records)
    BY <2>1, FewFinite
  <2>4. QED
    BY <2>1, <2>2, <2>3 DEF OneEach
<1>3. OneEach(Negatives)
  <2> DEFINE a == Vector("b8", {"digest", "envelope"}, {})
             b == Vector("b10", {"digest"}, {"envelope"})
  <2>1. Negatives = {a, b, b, b}
    BY DEF Negatives
  <2>2. "id" \in DOMAIN a /\ "id" \in DOMAIN b /\ a.id = "b8" /\ b.id = "b10"
    BY VectorNamed
  <2> HIDE DEF a, b
  <2>3. IsFiniteSet(Negatives)
    BY <2>1, FewFinite
  <2>4. QED
    BY <2>1, <2>2, <2>3 DEF OneEach
<1>4. OneEach(Wire)
  <2> DEFINE v1 == Vector("b11-1", {"request"}, {})
             v2 == Vector("b11-2", {"response"}, {})
             both(c) == Vector(c, {"request"}, {"response"})
  <2>1. Wire = {v1, v2, both("b11-3"), both("b11-4"), both("b11-5"), both("b11-6"), both("b11-7")}
    BY DEF Wire
  <2>2. /\ "id" \in DOMAIN v1 /\ v1.id = "b11-1" /\ "id" \in DOMAIN v2 /\ v2.id = "b11-2"
        /\ \A c : "id" \in DOMAIN both(c) /\ both(c).id = c
    BY VectorNamed
  <2> HIDE DEF v1, v2, both
  <2>3. IsFiniteSet(Wire)
    BY <2>1, FewFinite
  <2>4. QED
    BY <2>1, <2>2, <2>3 DEF OneEach
<1>5. QED
  BY <1>1, <1>2, <1>3, <1>4

LEMMA VerificationOneEach == OneEach(Verification)
<1> DEFINE
  plain(c) == Checked(<<"verify", c>>, Record(c), "accepted", Digest(c))
  timed(at) == Checked(<<"verify", "b4", at>>, Record("b4"), "accepted", Digest("b4"))
  b8 == Checked(<<"verify", "b8">>, Negative("b8"), "identityBindingMismatch", None)
  b10 == Checked(<<"verify", "b10">>, Negative("b10"), "invalidCbor", None)
  A == {plain("b4"), plain("b5"), plain("b9"), WireEmpty, b8, b10, b10}
  B == {timed("premature"), timed("boundary"), timed("boundary"), timed("boundary")}
  v1 == Variant("target-foreign-valid-attacker", [of |-> "attacker"], "identityBindingMismatch")
  v2 == Variant("target-foreign-valid-bob", [of |-> "bob"], "identityBindingMismatch")
  v3 == Variant("target-unsupported-hash-code", [code |-> 19], "unsupportedHash")
  v4 == Variant("target-unsupported-digest-length", [declared |-> 31, present |-> 31], "unsupportedHash")
  v5 == Variant("target-trailing-byte", [present |-> 33], "invalidDid")
  v6 == Variant("target-length-disagreement", [present |-> 31], "invalidDid")
  form(f) == Variant(f, [wellFormed |-> FALSE], "invalidDid")
  C == {v1, v2, v3, v4, v5, v6, v6}
  D == {form("target-non-minimal-varint"), form("target-missing-multibase-prefix"),
        form("target-wrong-multibase-prefix"), form("target-percent-encoded"),
        form("target-invalid-base58-character"), form("target-uppercase-did-prefix"),
        form("target-empty-method-id")}
<1>1. Verification = (A \cup B) \cup (C \cup D)
  BY DEF Verification, DidVariants
<1>2. \A id, ref, outcome, digest :
        /\ "id" \in DOMAIN Checked(id, ref, outcome, digest)
        /\ Checked(id, ref, outcome, digest).id = id
  BY DEF Checked
<1>3. \A id, change, error :
        /\ "id" \in DOMAIN Variant(id, change, error)
        /\ Variant(id, change, error).id = <<"verify", id>>
  BY DEF Checked, Variant
<1>4. "id" \in DOMAIN WireEmpty /\ WireEmpty.id = <<"verify", "wire-empty">>
  BY DEF Checked, WireEmpty
<1>5. /\ \A c : "id" \in DOMAIN plain(c) /\ plain(c).id = <<"verify", c>>
      /\ \A at : "id" \in DOMAIN timed(at) /\ timed(at).id = <<"verify", "b4", at>>
      /\ "id" \in DOMAIN b8 /\ b8.id = <<"verify", "b8">>
      /\ "id" \in DOMAIN b10 /\ b10.id = <<"verify", "b10">>
  BY <1>2
<1>6. /\ "id" \in DOMAIN v1 /\ v1.id = <<"verify", "target-foreign-valid-attacker">>
      /\ "id" \in DOMAIN v2 /\ v2.id = <<"verify", "target-foreign-valid-bob">>
      /\ "id" \in DOMAIN v3 /\ v3.id = <<"verify", "target-unsupported-hash-code">>
      /\ "id" \in DOMAIN v4 /\ v4.id = <<"verify", "target-unsupported-digest-length">>
      /\ "id" \in DOMAIN v5 /\ v5.id = <<"verify", "target-trailing-byte">>
      /\ "id" \in DOMAIN v6 /\ v6.id = <<"verify", "target-length-disagreement">>
      /\ \A f : "id" \in DOMAIN form(f) /\ form(f).id = <<"verify", f>>
  BY <1>3
<1> HIDE DEF plain, timed, b8, b10, v1, v2, v3, v4, v5, v6, form
<1>7. IsFiniteSet(A) /\ IsFiniteSet(B) /\ IsFiniteSet(C) /\ IsFiniteSet(D)
  BY FewFinite
<1>8. OneEach(A) /\ OneEach(B)
  BY <1>4, <1>5, <1>7 DEF OneEach
<1>9. OneEach(C) /\ OneEach(D)
  BY <1>6, <1>7 DEF OneEach
<1>10. /\ \A c \in A : c.id \in {<<"verify", n>> : n \in {"b4", "b5", "b9", "wire-empty", "b8", "b10"}}
       /\ \A c \in B : \E at : c.id = <<"verify", "b4", at>>
       /\ \A c \in C : c.id \in {<<"verify", n>> : n \in
             {"target-foreign-valid-attacker", "target-foreign-valid-bob", "target-unsupported-hash-code",
              "target-unsupported-digest-length", "target-trailing-byte", "target-length-disagreement"}}
       /\ \A c \in D : c.id \in {<<"verify", n>> : n \in
             {"target-non-minimal-varint", "target-missing-multibase-prefix", "target-wrong-multibase-prefix",
              "target-percent-encoded", "target-invalid-base58-character", "target-uppercase-did-prefix",
              "target-empty-method-id"}}
  BY <1>4, <1>5, <1>6
<1> HIDE DEF A, B, C, D
<1>11. \A m, n, at : <<"verify", m>> # <<"verify", n, at>>
  OBVIOUS
<1>12. OneEach(A \cup B)
  BY <1>8, <1>10, <1>11, OneEachUnion
<1>13. OneEach(C \cup D)
  BY <1>9, <1>10, OneEachUnion
<1>14. \A c \in A \cup B : \A d \in C \cup D : c.id # d.id
  BY <1>10, <1>11
<1>15. QED
  BY <1>1, <1>12, <1>13, <1>14, OneEachUnion

\* The orders of a finite set of names are finitely many: an order is known by
\* its graph.
LEMMA OrdersFinite ==
  ASSUME NEW names, IsFiniteSet(names)
  PROVE  IsFiniteSet(Orders(names))
<1> DEFINE n == Cardinality(names)
           cells == (1 .. n) \X names
           graph == [s \in Orders(names) |-> {<<k, s[k]>> : k \in 1 .. n}]
<1>1. n \in Nat
  BY FS_CardinalityType
<1> HIDE DEF n
<1>2. IsFiniteSet(SUBSET cells)
  <2>1. IsFiniteSet(1 .. n)
    BY <1>1, FS_Interval
  <2>2. IsFiniteSet(cells)
    BY <2>1, FS_Product
  <2>3. QED
    BY <2>2, FS_SUBSET
<1>3. Orders(names) \subseteq [1 .. n -> names]
  BY DEF Orders, n
<1>4. graph \in [Orders(names) -> SUBSET cells]
  <2>1. ASSUME NEW s \in Orders(names) PROVE {<<k, s[k]>> : k \in 1 .. n} \subseteq cells
    <3>1. \A k \in 1 .. n : s[k] \in names
      BY <1>3
    <3>2. QED
      BY <3>1
  <2> HIDE DEF cells
  <2>2. QED
    BY <2>1
<1>5. ASSUME NEW s \in Orders(names), NEW t \in Orders(names), graph[s] = graph[t] PROVE s = t
  <2>1. s \in [1 .. n -> names] /\ t \in [1 .. n -> names]
    BY <1>3
  <2>2. \A k \in 1 .. n : s[k] = t[k]
    <3> TAKE k \in 1 .. n
    <3>1. <<k, s[k]>> \in graph[t]
      BY <1>5
    <3>2. QED
      BY <3>1
  <2> HIDE DEF graph, cells
  <2>3. s = [k \in 1 .. n |-> s[k]] /\ t = [k \in 1 .. n |-> t[k]]
    BY <2>1
  <2>4. QED
    BY <2>2, <2>3
<1>6. graph \in Injection(Orders(names), SUBSET cells)
  BY <1>4, <1>5 DEF Injection, IsInjective
<1> HIDE DEF graph, cells
<1>7. QED
  BY <1>2, <1>6, FS_Injection

\* A group has one case for each order; its winner and state are its own.
LEMMA GroupOneEach ==
  ASSUME NEW group, NEW names, NEW winner, NEW state, IsFiniteSet(names)
  PROVE  /\ OneEach(Group(group, names, winner, state))
         /\ \A c \in Group(group, names, winner, state) : \E s : c.id = <<"select", group, s>>
<1> DEFINE one(s) == Selected(<<"select", group, s>>, group, s, Recipient, "unknown", Digest(winner), state)
           cs == Group(group, names, winner, state)
           of == [s \in Orders(names) |-> one(s)]
<1>1. cs = {one(s) : s \in Orders(names)}
  BY DEF Group
<1>2. \A s : "id" \in DOMAIN one(s) /\ one(s).id = <<"select", group, s>>
  BY DEF Selected
<1> HIDE DEF one, cs
<1>3. of \in Surjection(Orders(names), cs)
  BY <1>1 DEF Surjection
<1> HIDE DEF of
<1>4. IsFiniteSet(cs)
  BY <1>3, OrdersFinite, FS_Surjection
<1>5. \A c, d \in cs : c.id = d.id => c = d
  BY <1>1, <1>2
<1>6. QED
  BY <1>1, <1>2, <1>4, <1>5 DEF OneEach, cs

LEMMA SelectionOneEach == OneEach(Selection)
<1> DEFINE G1 == Group("authority-precedence", {"b4", "b5"}, "b5", "rootRevoked")
           G2 == Group("binding-rejection", {"b4", "b8"}, "b4", "root")
           G3 == Group("equal-time-digest", {"b6a", "b6b"}, "b6a", "root")
           G4 == Group("full-mixed", {"b4", "b5", "b8", "b9"}, "b5", "rootRevoked")
           S1 == Selected(<<"select", "sticky">>, None, <<"b4">>, Recipient, "rootRevoked", None, "rootRevoked")
           S2 == Selected(<<"select", "cross-did">>, None, <<"b9">>, Recipient, "unknown", None, "unknown")
           S3 == Selected(<<"select", "premature">>, None, <<"b4">>, Premature, "unknown", None, "unknown")
           S4 == Selected(<<"select", "empty">>, None, <<>>, Recipient, "unknown", None, "unknown")
           S == {S1, S2, S3, S4}
<1>1. Selection = ((G1 \cup G2) \cup (G3 \cup G4)) \cup S
  BY DEF Selection
<1>2. /\ IsFiniteSet({"b4", "b5"}) /\ IsFiniteSet({"b4", "b8"}) /\ IsFiniteSet({"b6a", "b6b"})
      /\ IsFiniteSet({"b4", "b5", "b8", "b9"})
  <2>1. /\ {"b4", "b5"} = {"b4", "b5", "b5", "b5"} /\ {"b4", "b8"} = {"b4", "b8", "b8", "b8"}
        /\ {"b6a", "b6b"} = {"b6a", "b6b", "b6b", "b6b"}
    OBVIOUS
  <2>2. QED
    BY <2>1, FewFinite
<1>3. /\ OneEach(G1) /\ \A c \in G1 : \E s : c.id = <<"select", "authority-precedence", s>>
      /\ OneEach(G2) /\ \A c \in G2 : \E s : c.id = <<"select", "binding-rejection", s>>
      /\ OneEach(G3) /\ \A c \in G3 : \E s : c.id = <<"select", "equal-time-digest", s>>
      /\ OneEach(G4) /\ \A c \in G4 : \E s : c.id = <<"select", "full-mixed", s>>
  BY <1>2, GroupOneEach
<1>4. /\ "id" \in DOMAIN S1 /\ S1.id = <<"select", "sticky">>
      /\ "id" \in DOMAIN S2 /\ S2.id = <<"select", "cross-did">>
      /\ "id" \in DOMAIN S3 /\ S3.id = <<"select", "premature">>
      /\ "id" \in DOMAIN S4 /\ S4.id = <<"select", "empty">>
  BY DEF Selected
<1> HIDE DEF G1, G2, G3, G4, S1, S2, S3, S4
<1>5. OneEach(S) /\ \A c \in S : \E n : c.id = <<"select", n>>
  <2>1. IsFiniteSet(S)
    BY FewFinite
  <2>2. QED
    BY <1>4, <2>1 DEF OneEach
<1> HIDE DEF S
<1>6. \A g, h, s, t : g # h => <<"select", g, s>> # <<"select", h, t>>
  OBVIOUS
<1>7. OneEach(G1 \cup G2)
  BY <1>3, <1>6, OneEachUnion
<1>8. OneEach(G3 \cup G4)
  BY <1>3, <1>6, OneEachUnion
<1>9. OneEach((G1 \cup G2) \cup (G3 \cup G4))
  <2>1. \A c \in G1 \cup G2 : \A d \in G3 \cup G4 : c.id # d.id
    BY <1>3, <1>6
  <2>2. QED
    BY <1>7, <1>8, <2>1, OneEachUnion
<1>10. \A c \in (G1 \cup G2) \cup (G3 \cup G4) : \A d \in S : c.id # d.id
  <2>1. \A g, s, n : <<"select", g, s>> # <<"select", n>>
    OBVIOUS
  <2>2. QED
    BY <1>3, <1>5, <2>1
<1>11. QED
  BY <1>1, <1>5, <1>9, <1>10, OneEachUnion

LEMMA TimestampsOneEach == OneEach(Timestamps)
<1> DEFINE row(id, now, previous, result) == [id |-> <<"next", id>>, now |-> now, previous |-> previous, result |-> result]
           A == {row("first", 5, None, 5), row("ahead", 2, 1, 2), row("behind", 1, 2, 3), row("equal", 2, 2, 3)}
           B == {row("boundary", 3, 2, 3), row("zero", 0, None, 0), row("max", U64Max, None, U64Max),
                 row("overflow", 5, U64Max, None)}
<1>1. Timestamps = A \cup B
  BY DEF Timestamps
<1>2. \A id, now, previous, result :
        "id" \in DOMAIN row(id, now, previous, result) /\ row(id, now, previous, result).id = <<"next", id>>
  OBVIOUS
<1> HIDE DEF row
<1>3. OneEach(A)
  <2>1. IsFiniteSet(A)
    BY FewFinite
  <2>2. QED
    BY <1>2, <2>1 DEF OneEach
<1>4. OneEach(B)
  <2>1. IsFiniteSet(B)
    BY FewFinite
  <2>2. QED
    BY <1>2, <2>1 DEF OneEach
<1>5. \A c \in A : \A d \in B : c.id # d.id
  BY <1>2
<1> HIDE DEF A, B
<1>6. QED
  BY <1>1, <1>3, <1>4, <1>5, OneEachUnion

LEMMA TranscriptsOneEach == OneEach(Transcripts)
<1> DEFINE Called(c, id) == "id" \in DOMAIN c /\ c.id = id
<1>1. /\ \A id, operation, http : Called(Transcript(id, operation, http), id)
      /\ \A id, operation, http, case, cursor : Called(FromWire(id, operation, http, case, cursor), id)
      /\ \A id, held, sent, file, case, status, code :
           Called(Publication(id, held, sent, file, case, status, code), id)
      /\ \A id, cursor, answer : Called(Changes(id, cursor, answer), id)
      /\ \A id, operation, answer : Called(Hostile(id, operation, answer), id)
  <2>1. \A id, operation, http : Called(Transcript(id, operation, http), id)
    BY DEF Transcript
  <2>2. \A id, operation, http, case, cursor : Called(FromWire(id, operation, http, case, cursor), id)
    BY DEF FromWire, Transcript
  <2>3. \A id, held, sent, file, case, status, code :
          Called(Publication(id, held, sent, file, case, status, code), id)
    BY DEF Publication, Transcript
  <2>4. \A id, cursor, answer : Called(Changes(id, cursor, answer), id)
    BY DEF Changes, Transcript
  <2>5. \A id, operation, answer : Called(Hostile(id, operation, answer), id)
    BY DEF Hostile, Transcript
  <2>6. QED
    BY <2>1, <2>2, <2>3, <2>4, <2>5
<1> DEFINE ids1 == {"info", "directory", "resolve-candidate-isolation", "resolve-duplicate-dids",
                    "resolve-malformed-did", "resolve-invalid-request-400"}
           ids2 == {"publish-admit", "publish-no-change", "publish-no-change-diagnostic",
                    "publish-losing-record", "publish-rejected"}
           ids3 == {"changes-sync", "changes-item-limit-overflow", "changes-initial-enumeration",
                    "changes-premature-retained"}
           ids4 == {"resolve-premature-retained", "changes-reset-required", "publish-record-too-large"}
           ids5 == {"info-missing-version", "info-missing-suite", "directory-duplicate-index"}
<1>2. OneEach(RelayTranscripts) /\ \A c \in RelayTranscripts : c.id \in ids1
  <2> DEFINE a == Transcript("info", "info", 200)
             b == Transcript("directory", "directory", 200)
             c == FromWire("resolve-candidate-isolation", "resolve", 200, "b11-3", "none")
             d == FromWire("resolve-duplicate-dids", "resolve", 200, "b11-4", "none")
             e == FromWire("resolve-malformed-did", "resolve", 200, "b11-6", "none")
             f == FromWire("resolve-invalid-request-400", "resolve", 400, "b11-1", "none")
  <2>1. RelayTranscripts = {a, b, c, d, e, f, f}
    BY DEF RelayTranscripts
  <2>2. /\ Called(a, "info") /\ Called(b, "directory") /\ Called(c, "resolve-candidate-isolation")
        /\ Called(d, "resolve-duplicate-dids") /\ Called(e, "resolve-malformed-did")
        /\ Called(f, "resolve-invalid-request-400")
    <3> HIDE DEF Called
    <3>1. QED
      BY <1>1
  <2> HIDE DEF a, b, c, d, e, f
  <2>3. IsFiniteSet(RelayTranscripts)
    BY <2>1, FewFinite
  <2>4. QED
    BY <2>1, <2>2, <2>3 DEF OneEach
<1>3. OneEach(PublishTranscripts) /\ \A c \in PublishTranscripts : c.id \in ids2
  <2> DEFINE a == Publication("publish-admit", None, "b4", "records", "b4", 0, None)
             b == Publication("publish-no-change", "b4", "b4", "records", "b4", 1, None)
             c == Publication("publish-no-change-diagnostic", "b4", "b4", "records", "b4", 1, 13)
             d == Publication("publish-losing-record", "b6a", "b6b", "records", "b6b", 1, 12)
             e == Publication("publish-rejected", None, "b8", "negatives", "b8", 2, 7)
  <2>1. PublishTranscripts = {a, b, c, d, e, e, e}
    BY DEF PublishTranscripts
  <2>2. /\ Called(a, "publish-admit") /\ Called(b, "publish-no-change")
        /\ Called(c, "publish-no-change-diagnostic") /\ Called(d, "publish-losing-record")
        /\ Called(e, "publish-rejected")
    <3> HIDE DEF Called
    <3>1. QED
      BY <1>1
  <2> HIDE DEF a, b, c, d, e
  <2>3. IsFiniteSet(PublishTranscripts)
    BY <2>1, FewFinite
  <2>4. QED
    BY <2>1, <2>2, <2>3 DEF OneEach
<1>4. OneEach(ChangesTranscripts) /\ \A c \in ChangesTranscripts : c.id \in ids3
  <2> DEFINE a == FromWire("changes-sync", "changes", 200, "b11-5", "peer")
             b == FromWire("changes-item-limit-overflow", "changes", 200, "b11-7", "peer")
             c == Changes("changes-initial-enumeration", "null", <<"page", "b4", "b9">>)
             d == Changes("changes-premature-retained", "null", <<"page", "b4">>)
  <2>1. ChangesTranscripts = {a, b, c, d}
    BY DEF ChangesTranscripts
  <2>2. /\ Called(a, "changes-sync") /\ Called(b, "changes-item-limit-overflow")
        /\ Called(c, "changes-initial-enumeration") /\ Called(d, "changes-premature-retained")
    <3> HIDE DEF Called
    <3>1. QED
      BY <1>1
  <2> HIDE DEF a, b, c, d
  <2>3. IsFiniteSet(ChangesTranscripts)
    BY <2>1, FewFinite
  <2>4. QED
    BY <2>1, <2>2, <2>3 DEF OneEach
<1>5. OneEach(LateTranscripts) /\ \A c \in LateTranscripts : c.id \in ids4
  <2> DEFINE a == [Transcript("resolve-premature-retained", "resolve", 200) EXCEPT !.response = <<"error", "premature">>]
             b == Changes("changes-reset-required", "old", <<"error", "resetRequired">>)
             c == Publication("publish-record-too-large", None, "large", None, "large", 2, 3)
  <2>1. LateTranscripts = {a, b, c, c}
    BY DEF LateTranscripts
  <2>2. Called(a, "resolve-premature-retained")
    BY DEF Transcript
  <2>3. Called(b, "changes-reset-required") /\ Called(c, "publish-record-too-large")
    <3> HIDE DEF Called
    <3>1. QED
      BY <1>1
  <2> HIDE DEF a, b, c
  <2>4. IsFiniteSet(LateTranscripts)
    BY <2>1, FewFinite
  <2>5. QED
    BY <2>1, <2>2, <2>3, <2>4 DEF OneEach
<1>6. OneEach(HostileTranscripts) /\ \A c \in HostileTranscripts : c.id \in ids5
  <2> DEFINE a == Hostile("info-missing-version", "info", <<"offers", "suite">>)
             b == Hostile("info-missing-suite", "info", <<"offers", "version">>)
             c == Hostile("directory-duplicate-index", "directory", <<"lists", "index", "index">>)
  <2>1. HostileTranscripts = {a, b, c, c}
    BY DEF HostileTranscripts
  <2>2. /\ Called(a, "info-missing-version") /\ Called(b, "info-missing-suite")
        /\ Called(c, "directory-duplicate-index")
    <3> HIDE DEF Called
    <3>1. QED
      BY <1>1
  <2> HIDE DEF a, b, c
  <2>3. IsFiniteSet(HostileTranscripts)
    BY <2>1, FewFinite
  <2>4. QED
    BY <2>1, <2>2, <2>3 DEF OneEach
<1> HIDE DEF Called
<1>7. OneEach(RelayTranscripts \cup PublishTranscripts)
  BY <1>2, <1>3, OneEachUnion
<1>8. OneEach((RelayTranscripts \cup PublishTranscripts) \cup ChangesTranscripts)
  BY <1>2, <1>3, <1>4, <1>7, OneEachUnion
<1>9. OneEach(LateTranscripts \cup HostileTranscripts)
  BY <1>5, <1>6, OneEachUnion
<1>10. OneEach(((RelayTranscripts \cup PublishTranscripts) \cup ChangesTranscripts) \cup
               (LateTranscripts \cup HostileTranscripts))
  <2>1. \A c \in (RelayTranscripts \cup PublishTranscripts) \cup ChangesTranscripts :
          \A d \in LateTranscripts \cup HostileTranscripts : c.id # d.id
    BY <1>2, <1>3, <1>4, <1>5, <1>6
  <2>2. QED
    BY <1>8, <1>9, <2>1, OneEachUnion
<1>11. Transcripts = ((RelayTranscripts \cup PublishTranscripts) \cup ChangesTranscripts) \cup
                     (LateTranscripts \cup HostileTranscripts)
  BY DEF Transcripts
<1>12. QED
  BY <1>10, <1>11

LEMMA ReleasedOneEach == \A f \in Documents : OneEach(Built[f])
<1>1. \A f \in {"identities", "records", "negatives", "wire"} : OneEach(Built[f])
  BY PublishedOneEach DEF Built
<1>2. OneEach(Built["verification"]) /\ OneEach(Built["selection"])
  BY VerificationOneEach, SelectionOneEach DEF Built
<1>3. OneEach(Built["timestamps"]) /\ OneEach(Built["transcripts"])
  BY TimestampsOneEach, TranscriptsOneEach DEF Built
<1>4. QED
  BY <1>1, <1>2, <1>3 DEF Documents, Coordinator

LEMMA InitTyped == Init => Typed
<1> SUFFICES ASSUME Init PROVE Typed
  OBVIOUS
<1>1. DOMAIN tree = Files /\ DOMAIN made = Coordinator
  BY DEF Init, Built, Coordinator
<1>2. \A f \in Coordinator : tree[f] = Built[f] /\ made[f] = Built[f]
  <2>1. \A f \in Coordinator : Released(f) = Built[f]
    <3>1. \A f \in Coordinator : f \notin DOMAIN Twins /\ f \notin Texts /\ f # "stray" /\ f # "specification"
      BY DEF Coordinator, Twins, Texts
    <3>2. QED
      BY <3>1 DEF Released
  <2>2. QED
    BY <2>1 DEF Init, Files
<1>3. \A f \in Texts : tree[f].version = "released"
  <2>1. \A f \in Texts : Released(f) \in {Text("released", SpecificationText), Text("released", {})}
    BY DEF Released, Texts, Coordinator, Twins
  <2>2. \A f \in Texts : Released(f).version = "released"
    BY <2>1 DEF Text
  <2>3. QED
    BY <2>2 DEF Init, Files
<1>4. Documents \subseteq Coordinator /\ "transcripts" \in Documents
  BY DEF Documents, Coordinator
<1>5. QED
  BY <1>1, <1>2, <1>3, <1>4, ReleasedOneEach DEF Init, Typed

\* An edited text is of one of the versions.
LEMMA TextEdits ==
  ASSUME NEW f \in Texts, NEW file, NEW new \in EditsOf(f, file)
  PROVE  new.version \in Versions[f]
<1>1. EditsOf(f, file) = {Text(v, file.tokens) : v \in Versions[f]} \cup
                         {Text("reworded", file.tokens \cup {t}) : t \in Leaked}
  BY DEF EditsOf, Texts
<1>2. "reworded" \in Versions[f]
  BY DEF Texts, Versions
<1>3. QED
  BY <1>1, <1>2 DEF Text

LEMMA StepTyped == Typed /\ [Next]_vars => Typed'
<1> SUFFICES ASSUME Typed, [Next]_vars PROVE Typed'
  OBVIOUS
<1>0. /\ Documents \subseteq Coordinator /\ "transcripts" \in Documents
      /\ Coordinator \subseteq Files /\ Texts \subseteq Files
      /\ \A f \in Texts : f \notin Coordinator /\ f \notin DOMAIN Twins /\ f # "stray"
  BY DEF Documents, Coordinator, Files, Texts, Twins
<1>1. ASSUME NEW f \in Files, EditFile(f) PROVE Typed'
  <2>1. PICK new \in EditsOf(f, tree[f]) \cup (IF f \in {"stray", "transcripts"} THEN {} ELSE {None}) :
          tree' = [tree EXCEPT ![f] = new]
    BY <1>1 DEF EditFile
  <2>2. /\ made' = made /\ DOMAIN tree' = Files /\ verdict' = "none"
        /\ edited' = edited \cup {<<"file", f>>}
    BY <1>1, <2>1 DEF EditFile, Typed
  <2>3. \A g \in Files : tree'[g] = IF g = f THEN new ELSE tree[g]
    BY <2>1 DEF Typed
  <2>4. ASSUME f \in Documents, new \in EditsOf(f, tree[f]) PROVE OneEach(new)
    <3>1. f # "stray" /\ tree[f] # None
      BY <1>1, <2>4 DEF EditFile, Documents, Coordinator
    <3>2. OneEach(tree[f])
      BY <2>4, <3>1 DEF Typed
    <3>3. QED
      BY <2>4, <3>2, EditsOneEach
  <2>5. \A g \in Documents : OneEach(made'[g]) /\ (tree'[g] # None => OneEach(tree'[g]))
    BY <1>0, <2>1, <2>2, <2>3, <2>4 DEF Typed
  <2>6. OneEach(tree'["transcripts"])
    BY <1>0, <2>1, <2>3, <2>4 DEF Typed
  <2>7. \A g \in Texts : tree'[g] # None => tree'[g].version \in {"released"} \cup Versions[g]
    BY <1>0, <2>1, <2>3, TextEdits DEF Typed
  <2>8. edited' \subseteq {"file", "generator"} \X Files
    BY <2>2 DEF Typed
  <2>9. QED
    BY <2>2, <2>5, <2>6, <2>7, <2>8 DEF Typed
<1>2. ASSUME NEW f \in Coordinator, EditGenerator(f) PROVE Typed'
  <2>1. PICK new \in EditsOf(f, made[f]) : made' = [made EXCEPT ![f] = new]
    BY <1>2 DEF EditGenerator
  <2>2. /\ tree' = tree /\ DOMAIN made' = Coordinator /\ verdict' = "none"
        /\ edited' = edited \cup {<<"generator", f>>}
    BY <1>2, <2>1 DEF EditGenerator, Typed
  <2>3. \A g \in Documents : OneEach(made'[g])
    <3>1. \A g \in Coordinator : made'[g] = IF g = f THEN new ELSE made[g]
      BY <2>1 DEF Typed
    <3>2. f \in Documents => OneEach(new)
      BY <2>1, EditsOneEach DEF Typed
    <3>3. QED
      BY <1>0, <3>1, <3>2 DEF Typed
  <2>4. edited' \subseteq {"file", "generator"} \X Files
    BY <1>0, <2>2 DEF Typed
  <2>5. QED
    BY <2>2, <2>3, <2>4 DEF Typed
<1>3. CASE Regenerate
  <2>1. made' = made /\ edited' = edited /\ verdict' = "none" /\ DOMAIN tree' = Files
    BY <1>3 DEF Regenerate
  <2> DEFINE kept == {c \in tree["transcripts"] : c.id \notin IdsOf(made["transcripts"])}
  <2>2. tree'["transcripts"] = made["transcripts"] \cup kept
    BY <1>3 DEF Regenerate, Files, Coordinator
  <2>3. OneEach(tree'["transcripts"])
    <3>1. OneEach(made["transcripts"]) /\ OneEach(kept)
      BY <1>0, OneEachKept DEF Typed
    <3>2. \A c \in made["transcripts"] : \A d \in kept : c.id # d.id
      BY DEF IdsOf
    <3> HIDE DEF kept
    <3>3. QED
      BY <2>2, <3>1, <3>2, OneEachUnion
  <2>4. \A g \in Documents \ {"transcripts"} : tree'[g] = made[g]
    <3>1. \A g \in Documents \ {"transcripts"} : g \in Coordinator \ {"transcripts"} /\ g \notin DOMAIN Twins
      BY DEF Documents, Coordinator, Twins
    <3>2. \A g \in Documents \ {"transcripts"} : tree'[g] = Output(g)
      BY <1>0, <1>3, <3>1 DEF Regenerate
    <3>3. QED
      BY <3>1, <3>2 DEF Output
  <2>5. \A g \in Texts : tree'[g] = tree[g]
    BY <1>0, <1>3 DEF Regenerate
  <2>6. \A g \in Documents : OneEach(made'[g]) /\ (tree'[g] # None => OneEach(tree'[g]))
    BY <2>1, <2>3, <2>4 DEF Typed
  <2>7. QED
    BY <2>1, <2>3, <2>5, <2>6 DEF Typed
<1>4. CASE WriteManifest \/ UNCHANGED vars
  <2>1. UNCHANGED <<tree, made, edited>> /\ (verdict' = "none" \/ verdict' = verdict)
    BY <1>4 DEF WriteManifest, vars
  <2>2. QED
    BY <2>1 DEF Typed
<1>5. CASE Verify
  <2>1. UNCHANGED <<tree, made, edited>>
    BY <1>5 DEF Verify
  <2>2. verdict' \in {"passed", "failed", "crashed"}
    BY <1>5, NoCheckPasses DEF Verify, Problem
  <2>3. QED
    BY <2>1, <2>2 DEF Typed
<1>6. QED
  BY <1>1, <1>2, <1>3, <1>4, <1>5 DEF Next

-----------------------------------------------------------------------------
(* The theorems.                                                           *)

Inv == Kept /\ PassIsGuarded /\ PassIsNormative

\* The verdict is of the tree as it is: every other step resets it.
LEMMA StepInv == Inv /\ [Next]_vars => Inv'
<1> SUFFICES ASSUME Inv, [Next]_vars PROVE Inv'
  OBVIOUS
<1>1. Kept'
  BY StepKept DEF Inv
<1>2. UNCHANGED tree => (IsGuarded => IsGuarded') /\ (Normative => Normative')
  <2>1. UNCHANGED tree => (IsGuarded => IsGuarded')
    BY DEF IsGuarded
  <2>2. UNCHANGED tree => (Normative => Normative')
    BY DEF Normative
  <2>3. QED
    BY <2>1, <2>2
<1>3. CASE Verify
  <2>1. CASE Problems = {}
    <3>1. IsGuarded /\ (made = Built => Normative)
      BY <2>1, NoProblem, NoProblemAsBuilt DEF Inv
    <3>2. QED
      BY <1>1, <1>2, <1>3, <3>1 DEF Verify, Inv, PassIsGuarded, PassIsNormative
  <2>2. CASE Problems # {}
    <3>1. verdict' \in Problem
      BY <1>3, <2>2, NoCheckPasses DEF Verify
    <3>2. verdict' # "passed"
      BY <3>1 DEF Problem
    <3>3. QED
      BY <1>1, <3>2 DEF Inv, PassIsGuarded, PassIsNormative
  <2>3. QED
    BY <2>1, <2>2
<1>4. ASSUME verdict' = "none" PROVE Inv'
  BY <1>1, <1>4 DEF Inv, PassIsGuarded, PassIsNormative
<1>5. CASE \/ \E f \in Files : EditFile(f)
           \/ \E f \in Coordinator : EditGenerator(f)
           \/ Regenerate \/ WriteManifest
  BY <1>4, <1>5 DEF EditFile, EditGenerator, Regenerate, WriteManifest
<1>6. CASE UNCHANGED vars
  BY <1>1, <1>2, <1>6 DEF vars, Inv, PassIsGuarded, PassIsNormative
<1>7. QED
  BY <1>3, <1>5, <1>6 DEF Next

\* The invariant of the bundle under maintenance.
THEOREM BundleInvariant == Spec => []Inv
<1>1. Init => Inv
  BY InitKept DEF Init, Inv, PassIsGuarded, PassIsNormative
<1>2. QED
  BY <1>1, StepInv, PTL DEF Spec

\* A bundle that passes is guarded, whatever the edits of it and of its
\* generators were, and in whatever order (verify_bundle.py, main).
THEOREM PassGuards == Spec => []PassIsGuarded
<1>1. Inv => PassIsGuarded
  BY DEF Inv
<1>2. QED
  BY <1>1, BundleInvariant, PTL

\* A bundle that passes under the generators as they are says what the
\* specification says, whatever was edited and regenerated before.
THEOREM PassTellsTheSpecification == Spec => []PassIsNormative
<1>1. Inv => PassIsNormative
  BY DEF Inv
<1>2. QED
  BY <1>1, BundleInvariant, PTL

\* Whatever is edited and regenerated, no document but the publish responses
\* names a case twice, and a transcript that is generated no more stays beside
\* the new ones under a name of its own (gen_transcripts.py, main).
THEOREM TypeCorrect == Spec => []TypeOK
<1>1. Typed => TypeOK
  BY OneEachCounts DEF Typed, TypeOK, Documents
<1>2. QED
  BY <1>1, InitTyped, StepTyped, PTL DEF Spec
=============================================================================
