------------------------------ MODULE Vectors ------------------------------
(***************************************************************************)
(* The documents the bundle's generators write: expected vectors for the   *)
(* coordinator, their projection for the authors, and the transcripts.     *)
(* A byte string is a token <<case, member>>; a document is a set of cases.*)
(* Next to them, what the specification says of the same questions.        *)
(***************************************************************************)
EXTENDS LiveScript, RelayState

\* The registered wire error codes that matter, the first one beyond, the widest.
NoChangeCodes == {12, 13}
Registry == {3, 7} \cup NoChangeCodes
FirstUnregistered == 14
WidestCode == 99
U64Max == 9

\* A case with the members the specification publishes, and the derived ones.
Vector(id, published, derived) ==
  [id |-> id, published |-> published, members |-> [m \in published \cup derived |-> <<id, m>>]]

Identities == {Vector("alice", {"did", "commitment"}, {}), Vector("bob", {"did", "commitment"}, {}),
               Vector("attacker", {"did"}, {"commitment"})}
Records == {Vector(c, {"digest", "envelope"}, {}) : c \in {"b4", "b5", "b9"}} \cup
           {Vector(c, {"digest"}, {"envelope"}) : c \in {"b6a", "b6b"}}
Negatives == {Vector("b8", {"digest", "envelope"}, {}), Vector("b10", {"digest"}, {"envelope"})}
Wire == {Vector("b11-1", {"request"}, {}), Vector("b11-2", {"response"}, {})} \cup
        {Vector(c, {"request"}, {"response"}) : c \in {"b11-3", "b11-4", "b11-5", "b11-6", "b11-7"}}

\* What the authors receive: the published members alone.
Project(file) ==
  {[c EXCEPT !.members = [m \in c.published \cap DOMAIN c.members |-> c.members[m]]] : c \in file}

TokensOf(file) == UNION {{c.members[m] : m \in DOMAIN c.members} : c \in file}
SpecificationText == TokensOf(UNION {Project(f) : f \in {Identities, Records, Negatives, Wire}})

----------------------------------------------------------------------------
Digest(c) == <<c, "digest">>
Checked(id, ref, outcome, digest) ==
  [id |-> id, ref |-> ref, carried |-> None, outcome |-> outcome, digest |-> digest, target |-> None]
Record(c) == <<"records", c>>
Negative(c) == <<"negatives", c>>

\* Alice's record asked for under other DIDs: the multihash's code, the length
\* it declares and the length it has, whose it is, and its text form.
AliceTarget == [wellFormed |-> TRUE, code |-> 18, declared |-> 32, present |-> 32, of |-> "alice"]
TargetWith(change) ==
  [x \in DOMAIN AliceTarget |-> IF x \in DOMAIN change THEN change[x] ELSE AliceTarget[x]]
Variant(id, change, error) ==
  [Checked(<<"verify", id>>, Record("b4"), error, None) EXCEPT !.target = TargetWith(change)]
DidVariants ==
  {Variant("target-foreign-valid-attacker", [of |-> "attacker"], "identityBindingMismatch"),
   Variant("target-foreign-valid-bob", [of |-> "bob"], "identityBindingMismatch"),
   Variant("target-unsupported-hash-code", [code |-> 19], "unsupportedHash"),
   Variant("target-unsupported-digest-length", [declared |-> 31, present |-> 31], "unsupportedHash"),
   Variant("target-trailing-byte", [present |-> 33], "invalidDid"),
   Variant("target-length-disagreement", [present |-> 31], "invalidDid")} \cup
  {Variant(form, [wellFormed |-> FALSE], "invalidDid") :
     form \in {"target-non-minimal-varint", "target-missing-multibase-prefix", "target-wrong-multibase-prefix",
              "target-percent-encoded", "target-invalid-base58-character", "target-uppercase-did-prefix",
              "target-empty-method-id"}}
\* What the specification says of such a target.
TargetError(t) ==
  CASE ~ t.wellFormed \/ t.declared # t.present -> "invalidDid"
    [] t.wellFormed /\ t.declared = t.present /\ (t.code # 18 \/ t.declared # 32) -> "unsupportedHash"
    [] OTHER -> "identityBindingMismatch"

\* The fixtures that carry present-empty collections in their own bytes.
WireEmpty ==
  [Checked(<<"verify", "wire-empty">>, None, "accepted", Digest("wire-empty")) EXCEPT !.carried = Digest("wire-empty")]

\* Verification: accepted envelopes, at the clock of the premature boundary too;
\* the fixtures that carry their own bytes; the rejected ones; the DID variants.
Verification ==
  {Checked(<<"verify", c>>, Record(c), "accepted", Digest(c)) : c \in {"b4", "b5", "b9"}} \cup
  {Checked(<<"verify", "b4", at>>, Record("b4"), "accepted", Digest("b4")) : at \in {"premature", "boundary"}} \cup
  {WireEmpty} \cup
  {Checked(<<"verify", "b8">>, Negative("b8"), "identityBindingMismatch", None),
   Checked(<<"verify", "b10">>, Negative("b10"), "invalidCbor", None)} \cup
  DidVariants

\* The records behind the names, for selection.
Named == [b4 |-> B4, b5 |-> B5, b6a |-> B6A, b6b |-> B6B, b8 |-> B8, b9 |-> B9]

\* What is absent is none of the values it stands beside.
ASSUME NoneAssumption ==
  /\ None \notin Nat /\ None \notin DOMAIN Named
  /\ None \notin [record : {Named[c] : c \in DOMAIN Named}, lastUpdated : {1}]

Orders(names) == {s \in [1 .. Cardinality(names) -> names] : {s[k] : k \in DOMAIN s} = names}
Selected(id, group, order, now, sticky, winner, state) ==
  [id |-> id, group |-> group, order |-> order, now |-> now, sticky |-> sticky,
   winner |-> winner, state |-> state]
Group(group, names, winner, state) ==
  {Selected(<<"select", group, s>>, group, s, Recipient, "unknown", Digest(winner), state) : s \in Orders(names)}

\* Selection: each group in every order of its candidates, and the single cases.
Selection ==
  Group("authority-precedence", {"b4", "b5"}, "b5", "rootRevoked") \cup
  Group("binding-rejection", {"b4", "b8"}, "b4", "root") \cup
  Group("equal-time-digest", {"b6a", "b6b"}, "b6a", "root") \cup
  Group("full-mixed", {"b4", "b5", "b8", "b9"}, "b5", "rootRevoked") \cup
  {Selected(<<"select", "sticky">>, None, <<"b4">>, Recipient, "rootRevoked", None, "rootRevoked"),
   Selected(<<"select", "cross-did">>, None, <<"b9">>, Recipient, "unknown", None, "unknown"),
   Selected(<<"select", "premature">>, None, <<"b4">>, Premature, "unknown", None, "unknown"),
   Selected(<<"select", "empty">>, None, <<>>, Recipient, "unknown", None, "unknown")}

\* What the specification says: among the admissible records of the target one
\* outranks all others; a revocation once known excludes every root record.
Admissible(c, now, sticky) ==
  LET r == Named[c] IN
    /\ r.did = "alice" /\ r.fault = "none" /\ r.timestamp <= now
    /\ sticky = "rootRevoked" => r.authority = "rootRevoked"
SelectCurrent(order, now, sticky) ==
  LET fit == {order[k] : k \in {k \in DOMAIN order : Admissible(order[k], now, sticky)}}
      best == {c \in fit : \A d \in fit \ {c} : Outranks(Named[c], Named[d])}
  IN [winner |-> IF best = {} THEN None ELSE Digest(CHOOSE c \in best : TRUE),
      state |-> IF best = {} THEN sticky ELSE Named[CHOOSE c \in best : TRUE].authority]

\* Timestamps: the published table, and the rule max(now, previous + 1);
\* None where it overflows.
Timestamps ==
  LET row(id, now, previous, result) == [id |-> <<"next", id>>, now |-> now, previous |-> previous, result |-> result]
  IN {row("first", 5, None, 5), row("ahead", 2, 1, 2), row("behind", 1, 2, 3), row("equal", 2, 2, 3),
      row("boundary", 3, 2, 3), row("zero", 0, None, 0), row("max", U64Max, None, U64Max),
      row("overflow", 5, U64Max, None)}
NextTimestamp(now, previous) ==
  IF previous = None THEN now
  ELSE IF previous >= U64Max THEN None
  ELSE IF now > previous THEN now ELSE previous + 1

----------------------------------------------------------------------------
\* Publish responses: the encoded status and code, and as which pair a client
\* is told to take an accepted one.  Of the forms of status 1 the coded ones vary the bare one.
Response(verdict, status, code, varies) ==
  [id |-> <<verdict, status, code>>, verdict |-> verdict, status |-> status, code |-> code, varies |-> varies,
   told |-> IF verdict = "accepted" THEN <<status, code>> ELSE None]
Accept(status, code) == Response("accepted", status, code, "none")
Reject(status, code) == Response("rejected", status, code, "none")

PublishResponses ==
  {Accept(0, None), Response("accepted", 1, None, "bare")} \cup
  {Response("accepted", 1, code, "coded") : code \in NoChangeCodes} \cup
  {Accept(2, code) : code \in Registry \ NoChangeCodes} \cup
  {Reject(1, code) : code \in Registry \ NoChangeCodes} \cup
  {Reject(0, 13), Reject(0, 7), Reject(2, None)} \cup {Reject(2, code) : code \in NoChangeCodes} \cup
  {Reject(status, FirstUnregistered) : status \in 0 .. 2} \cup {Reject(2, WidestCode)}

\* What the specification says a client accepts.
Acceptable(status, code) ==
  CASE status = 0 -> code = None
    [] status = 1 -> code \in {None} \cup NoChangeCodes
    [] status = 2 -> code \in Registry \ NoChangeCodes

----------------------------------------------------------------------------
\* Transcripts: a framed request and response, the vectors their bytes come
\* from, and for a publication the record the relay holds and the one sent.
Transcript(id, operation, http) ==
  [id |-> id, operation |-> operation, framed |-> TRUE, http |-> http, deterministic |-> TRUE,
   request |-> None, requestAs |-> None, response |-> None, responseAs |-> None,
   cursor |-> "none", held |-> None, sent |-> None, must |-> "nothing"]
FromWire(id, operation, http, case, cursor) ==
  [Transcript(id, operation, http) EXCEPT
     !.request = <<case, "request">>, !.requestAs = <<"wire", case, "request">>, !.cursor = cursor,
     !.response = IF http = 200 THEN <<case, "response">> ELSE None,
     !.responseAs = IF http = 200 THEN <<"wire", case, "response">> ELSE None,
     !.deterministic = (http = 200)]
Publication(id, held, sent, file, case, status, code) ==
  [Transcript(id, "publish", 200) EXCEPT
     !.request = <<case, "envelope">>, !.requestAs = IF file = None THEN None ELSE <<file, case, "envelope">>,
     !.response = <<"status", status, code>>, !.held = held, !.sent = sent,
     !.responseAs = IF status = 1 \/ code = 3 THEN <<"publish", <<"accepted", status, code>>, "response">> ELSE None]
Changes(id, cursor, answer) ==
  [Transcript(id, "changes", 200) EXCEPT !.cursor = cursor, !.response = answer]
Hostile(id, operation, answer) ==
  [Transcript(id, operation, 200) EXCEPT !.response = answer, !.must = "reject"]

RelayTranscripts ==
  {Transcript("info", "info", 200), Transcript("directory", "directory", 200),
   FromWire("resolve-candidate-isolation", "resolve", 200, "b11-3", "none"),
   FromWire("resolve-duplicate-dids", "resolve", 200, "b11-4", "none"),
   FromWire("resolve-malformed-did", "resolve", 200, "b11-6", "none"),
   FromWire("resolve-invalid-request-400", "resolve", 400, "b11-1", "none")}
PublishTranscripts ==
  {Publication("publish-admit", None, "b4", "records", "b4", 0, None),
   Publication("publish-no-change", "b4", "b4", "records", "b4", 1, None),
   Publication("publish-no-change-diagnostic", "b4", "b4", "records", "b4", 1, 13),
   Publication("publish-losing-record", "b6a", "b6b", "records", "b6b", 1, 12),
   Publication("publish-rejected", None, "b8", "negatives", "b8", 2, 7)}
ChangesTranscripts ==
  {FromWire("changes-sync", "changes", 200, "b11-5", "peer"),
   FromWire("changes-item-limit-overflow", "changes", 200, "b11-7", "peer"),
   Changes("changes-initial-enumeration", "null", <<"page", "b4", "b9">>),
   Changes("changes-premature-retained", "null", <<"page", "b4">>)}
LateTranscripts ==
  {[Transcript("resolve-premature-retained", "resolve", 200) EXCEPT !.response = <<"error", "premature">>],
   Changes("changes-reset-required", "old", <<"error", "resetRequired">>),
   Publication("publish-record-too-large", None, "large", None, "large", 2, 3)}
HostileTranscripts ==
  {Hostile("info-missing-version", "info", <<"offers", "suite">>),
   Hostile("info-missing-suite", "info", <<"offers", "version">>),
   Hostile("directory-duplicate-index", "directory", <<"lists", "index", "index">>)}
Transcripts ==
  RelayTranscripts \cup PublishTranscripts \cup ChangesTranscripts \cup LateTranscripts \cup HostileTranscripts

\* What the specification says a relay answers to a publication.
FaultCode == [identityBindingMismatch |-> 7, recordTooLarge |-> 3]
RecordNamed(c) == IF c = "large" THEN Large ELSE Named[c]
Answers(held, sent) ==
  LET empty == NewNode("rust", Foreign, "none")
      relay == IF held = None THEN empty ELSE Put(empty, RecordNamed(held), 1)
      verdict == Judge(relay, RecordNamed(sent), Recipient)
  IN CASE verdict = "admitted" -> {<<"status", 0, None>>}
       [] verdict = "noChange" -> {<<"status", 1, None>>, <<"status", 1, IF held = sent THEN 13 ELSE 12>>}
       [] OTHER -> {<<"status", 2, FaultCode[verdict]>>}

\* Everything the generators write for the coordinator.
Built ==
  [identities |-> Identities, records |-> Records, negatives |-> Negatives, wire |-> Wire,
   verification |-> Verification, selection |-> Selection, timestamps |-> Timestamps,
   publish |-> PublishResponses, transcripts |-> Transcripts]
=============================================================================
