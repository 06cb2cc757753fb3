------------------------------ MODULE Adapter ------------------------------
(***************************************************************************)
(* The Rust interface adapter answering one request line after another:    *)
(* handle_line of lib.rs and the operations of ops.rs, in the order they   *)
(* read a request's members.  The first check that refuses decides the     *)
(* answer.  The implementation behind it (`followee`) is external.         *)
(*                                                                         *)
(* An input is a function from its members to JSON values, nested members  *)
(* by their path; "p.*" is a member that no one asked for in the object p. *)
(***************************************************************************)
EXTENDS Integers, Sequences, FiniteSets, TLC

CONSTANTS
  Width,        \* bits of a u64
  MaxDepth,     \* the interface's domain of maxDepth, 8
  MaxMembers,   \* ... of maxMembers, 256
  MaxChanges,   \* the bound on the changes to a regular request
  None

ASSUME WidthAssumption == Width \in Nat \ {0}
ASSUME ChangesAssumption == MaxChanges \in Nat
ASSUME DomainAssumption == {MaxDepth, MaxMembers} \subseteq 0 .. 2^Width - 2

VARIABLES
  line,       \* the request line: defects, protocol, operation, input, changes
  answer,     \* the response to it, None before
  authored    \* the record authored last: the texts asked for, the body made

vars == <<line, answer, authored>>

----------------------------------------------------------------------------
\* JSON values.  A text is a numeral <<sign, leading zeros, digits>> or a word.
Absent == <<"absent">>
Null == <<"null">>
Bool == <<"bool">>
Array == <<"array">>
Object == <<"object">>
Text == <<"text">>
Kinds == {Absent, Null, Bool, Array, Object, Text}
IsText(v) == v \notin Kinds \ {Text}

Hex32 == <<"hex32">>
Hex64 == <<"hex64">>
Hex == <<"hex">>
NotHex == <<"notHex">>
Envelope == <<"envelope">>   \* the bytes of the record authored last
Did == <<"did">>             \* of that record
NotDid == <<"notDid">>
Bytes == {Hex32, Hex64, Hex, Envelope}

U64 == 0 .. 2^Width - 1
Numerals == ({"", "-"} \X {0} \X (0 .. 2^Width + 1)) \cup
            {<<"+", 0, 1>>, <<"", 1, 0>>, <<"", 1, 1>>, <<"-", 1, 1>>}
Value(t) == IF t[1] = "-" THEN -t[3] ELSE t[3]
ToString10(n) == IF n < 0 THEN <<"-", 0, -n>> ELSE <<"", 0, n>>

\* Rust parses a sign "+" and leading zeros; only what prints the same is canonical.
\* mutant: what Rust's parse takes is taken, canonical or not
ParsesU64Loosely(t) == t \in Numerals /\ t[1] # "-" /\ Value(t) \in U64
ParsesU64(t) == t \in Numerals /\ t[1] # "-" /\ Value(t) \in U64 /\ ToString10(Value(t)) = t
ParsesNint(t) ==
  t \in Numerals /\ ToString10(Value(t)) = t /\ -(2^Width) <= Value(t) /\ Value(t) < 0
Magnitude(t) == -(Value(t) + 1)

----------------------------------------------------------------------------
KeyTypes == {<<"uint">>, <<"nint">>, <<"textType">>}
Types == KeyTypes \cup {<<"bytes">>, <<"boolType">>, <<"nullType">>}

\* The readers: whether the reader r takes the value v.
Takes(r, v) ==
  CASE r = "object" -> v = Object
    [] r = "array" -> v = Array
    [] r = "bool" -> v = Bool
    [] r = "text" -> IsText(v)
    [] r = "present" -> v # Absent
    [] r = "optText" -> v = Null \/ IsText(v)
    [] r = "hex" -> v \in Bytes
    [] r = "hex32" -> v = Hex32
    [] r = "u64" -> ParsesU64(v)
    [] r = "optU64" -> v = Null \/ ParsesU64(v)
    [] r = "nint" -> ParsesNint(v)
    [] r = "known" -> v = Absent
    [] r = "did" -> v \in {Null, Did}
    [] r = "authority" -> v \in {<<"root">>, <<"rootRevoked">>}
    [] r = "seedName" -> v \in {<<"root">>, <<"revocation">>}
    [] r = "type" -> v \in Types \cup {<<"arrayType">>, <<"mapType">>}
    [] r = "keyType" -> v \in KeyTypes
    [] r = "sticky" -> v \in {<<"unknown">>, <<"root">>, <<"rootRevoked">>}
    [] r = "depth" -> ParsesU64(v) => Value(v) <= MaxDepth
    [] r = "members" -> ParsesU64(v) => Value(v) <= MaxMembers

\* A typed value at p; `value` is the member that its type names.
Scalar(p, x) ==
  LET r == CASE x[p \o ".type"] = <<"uint">> -> "u64"
             [] x[p \o ".type"] = <<"nint">> -> "nint"
             [] x[p \o ".type"] = <<"bytes">> -> "hex"
             [] x[p \o ".type"] = <<"textType">> -> "text"
             [] x[p \o ".type"] = <<"boolType">> -> "bool"
             [] x[p \o ".type"] = <<"nullType">> -> "known"
             [] OTHER -> "array"
  IN  <<r, p \o ".value">>
Scalars(type, p, x) ==
  <<<<"object", p>>, <<type, p \o ".type">>, Scalar(p, x), <<"known", p \o ".*">>>>
\* Of the items of an array, of the entries of a map, there is one.
Typed(p, x) ==
  LET items == CASE x[p \o ".type"] = <<"arrayType">> -> Scalars("type", p \o ".item", x)
                 [] x[p \o ".type"] = <<"mapType">> ->
                      <<<<"object", p \o ".entry">>>> \o Scalars("keyType", p \o ".key", x) \o
                      Scalars("type", p \o ".item", x) \o <<<<"known", p \o ".entry.*">>>>
                 [] OTHER -> <<>>
  IN  <<<<"object", p>>, <<"type", p \o ".type">>, Scalar(p, x)>> \o items \o <<<<"known", p \o ".*">>>>
\* An extension map has at most the one entry p.x.
ExtensionMap(p, x) ==
  <<<<"object", p>>>> \o (IF x[p \o ".x"] = Absent THEN <<>> ELSE Typed(p \o ".x", x))

Migration(x) ==
  IF x["migration"] = Null THEN <<>>
  ELSE <<<<"object", "migration">>, <<"optText", "predecessor">>, <<"optText", "successor">>,
         <<"known", "migration.*">>, <<"did", "predecessor">>, <<"did", "successor">>>>
Service(x) ==
  IF x["service"] = Absent THEN <<>>
  ELSE <<<<"object", "service">>, <<"text", "endpoint">>, <<"optText", "label">>, <<"known", "service.*">>>>
Contact(x) ==
  <<<<"object", "contact">>, <<"optText", "displayName">>, <<"array", "alsoKnownAs">>>> \o
  (IF x["alias"] = Absent THEN <<>> ELSE <<<<"text", "alias">>>>) \o
  <<<<"array", "services">>>> \o Service(x) \o
  <<<<"present", "migration">>>> \o Migration(x) \o
  ExtensionMap("contact.extensions", x) \o <<<<"known", "contact.*">>>>

\* What an operation reads and checks, in order.
Fields(members) == <<<<"object", "input">>>> \o members \o <<<<"known", "input.*">>>>
DeriveIdentity == Fields(<<<<"hex32", "rootSeed">>, <<"hex32", "revocationSeed">>>>)
AuthorRecord(x) ==
  Fields(<<<<"hex32", "rootSeed">>, <<"hex32", "revocationSeed">>, <<"authority", "authority">>,
           <<"u64", "timestampMs">>, <<"optU64", "validUntilMs">>>> \o Contact(x) \o
         ExtensionMap("extensions", x) \o <<<<"text", "signingSeed">>>>) \o
  <<<<"seedName", "signingSeed">>, <<"coherent", "signingSeed">>>>
VerifyRecord == Fields(<<<<"text", "targetDid">>, <<"hex", "envelope">>, <<"u64", "nowMs">>>>)
StrictEd25519 == Fields(<<<<"hex", "publicKey">>, <<"hex", "message">>, <<"hex", "signature">>>>)
NextTimestampOp == Fields(<<<<"u64", "nowMs">>, <<"optU64", "previousTimestampMs">>>>)
ValidateCbor ==
  Fields(<<<<"hex", "cbor">>, <<"u64", "maxDepth">>, <<"u64", "maxMembers">>>>) \o
  <<<<"depth", "maxDepth">>, <<"members", "maxMembers">>>>
\* Of the candidates there are at most two.
Candidate(m, x) == IF x[m] = Absent THEN <<>> ELSE <<<<"hex", m>>>>
SelectCurrent(x) ==
  Fields(<<<<"text", "targetDid">>, <<"array", "candidates">>, <<"u64", "nowMs">>, <<"sticky", "stickyAuthority">>>>) \o
  <<<<"did", "targetDid">>>> \o Candidate("candidate1", x) \o Candidate("candidate2", x)
Reads(operation, x) ==
  CASE operation = "hello" -> Fields(<<>>)
    [] operation = "deriveIdentity" -> DeriveIdentity
    [] operation = "authorRecord" -> AuthorRecord(x)
    [] operation = "verifyRecord" -> VerifyRecord
    [] operation = "strictEd25519" -> StrictEd25519
    [] operation = "nextTimestamp" -> NextTimestampOp
    [] operation = "validateCbor" -> ValidateCbor
    [] operation = "selectCurrent" -> SelectCurrent(x)

----------------------------------------------------------------------------
\* Answers: each status has a member of its own.
InfrastructureError(protocol, caseId, symbol) ==
  [protocol |-> protocol, caseId |-> caseId, status |-> "error", errorSymbol |-> symbol]
Accepted(result) == [protocol |-> "1", caseId |-> "case", status |-> "accepted", result |-> result]
Rejected(error) == [protocol |-> "1", caseId |-> "case", status |-> "rejected", error |-> error]

Coherent(x) == <<x["authority"], x["signingSeed"]>> \in
                 {<<<<"root">>, <<"root">>>>, <<<<"rootRevoked">>, <<"revocation">>>>}
Passes(step, x) == IF step[1] = "coherent" THEN Coherent(x) ELSE Takes(step[1], x[step[2]])
\* mutant: the signing key that does not fit is answered as a rejection
RefusalOfKey(step) ==
  CASE step[1] = "did" -> Rejected("invalidDid")
    [] step[1] = "coherent" -> Rejected("adapter.signingKeyMismatch")
    [] OTHER -> InfrastructureError("1", "case", "adapter.invalidInput")
Refusal(step) ==
  CASE step[1] = "did" -> Rejected("invalidDid")
    [] step[1] = "coherent" -> InfrastructureError("1", "case", "adapter.signingKeyMismatch")
    [] OTHER -> InfrastructureError("1", "case", "adapter.invalidInput")

\* Values to the implementation's types, and back to texts.
Optional(v) == IF v = Null THEN <<>> ELSE <<Value(v)>>
OptionalText(o) == IF o = <<>> THEN Null ELSE ToString10(o[1])
FromTyped(p, x) ==
  CASE x[p \o ".type"] = <<"uint">> -> <<"uint", Value(x[p \o ".value"])>>
    [] x[p \o ".type"] = <<"nint">> -> <<"nint", Magnitude(x[p \o ".value"])>>
    [] OTHER -> <<x[p \o ".type"][1], x[p \o ".value"]>>
\* mutant: the magnitude is printed as the value
TypedJsonOfMagnitude(v) ==
  CASE v[1] = "uint" -> <<"uint", ToString10(v[2])>>
    [] v[1] = "nint" -> <<"nint", ToString10(-v[2])>>
    [] OTHER -> v
TypedJson(v) ==
  CASE v[1] = "uint" -> <<"uint", ToString10(v[2])>>
    [] v[1] = "nint" -> <<"nint", ToString10(-(v[2] + 1))>>
    [] OTHER -> v
\* The scalars of the extension, by their paths.
ScalarsOf(x) ==
  LET p == "extensions" \o ".x"
  IN  IF x[p] = Absent THEN {}
      ELSE CASE x[p \o ".type"] = <<"arrayType">> -> {p \o ".item"}
             [] x[p \o ".type"] = <<"mapType">> -> {p \o ".key", p \o ".item"}
             [] OTHER -> {p}

Body(x) == [timestampMs |-> Value(x["timestampMs"]), validUntilMs |-> Optional(x["validUntilMs"]),
            authority |-> x["authority"],
            extensions |-> [p \in ScalarsOf(x) |-> FromTyped(p, x)]]
Record(body) == [timestampMs |-> ToString10(body.timestampMs), validUntilMs |-> OptionalText(body.validUntilMs),
                 authority |-> body.authority,
                 extensions |-> [p \in DOMAIN body.extensions |-> TypedJson(body.extensions[p])]]
\* What an author's request says of the record, in its own words.
Asked(x) == [timestampMs |-> x["timestampMs"], validUntilMs |-> x["validUntilMs"], authority |-> x["authority"],
             extensions |-> [p \in ScalarsOf(x) |-> <<x[p \o ".type"][1], x[p \o ".value"]>>]]

\* What the implementation answers, as far as the adapter can tell; it has no
\* reason to refuse the key of a coherent request.
Verifies(v) == v = Envelope /\ authored # None
NextTimestamp(now, previous) ==
  LET t == IF previous = <<>> \/ now > previous[1] THEN now ELSE previous[1] + 1
  IN  IF t \in U64 THEN ToString10(t) ELSE <<"overflow">>
Selections(x) ==
  LET present == SelectSeq(<<"candidate1", "candidate2">>, LAMBDA m : x[m] # Absent)
      errors == [i \in DOMAIN present |-> IF Verifies(x[present[i]]) THEN Null ELSE <<"invalidCbor">>]
  IN  {[winner |-> w, errors |-> errors] :
         w \in {<<>>} \cup {<<x[present[i]]>> : i \in {j \in DOMAIN present : errors[j] = Null}}}
Implementation(operation, x) ==
  CASE operation = "hello" -> {Accepted("identity")}
    [] operation = "deriveIdentity" -> {Accepted(Did)}
    [] operation = "authorRecord" -> {Accepted(Envelope), Rejected("schemaViolation"), Rejected("recordTooLarge")}
    [] operation = "verifyRecord" ->
         {IF x["targetDid"] # Did THEN Rejected("invalidDid")
          ELSE IF Verifies(x["envelope"]) THEN Accepted(Record(authored.body)) ELSE Rejected("invalidCbor")}
    [] operation = "strictEd25519" ->
         {Accepted(v) : v \in IF x["publicKey"] = Hex32 /\ x["signature"] = Hex64 THEN BOOLEAN ELSE {FALSE}}
    [] operation = "nextTimestamp" ->
         {Accepted(NextTimestamp(Value(x["nowMs"]), Optional(x["previousTimestampMs"])))}
    [] operation = "validateCbor" -> {Accepted(TRUE), Rejected("nonDeterministicCbor")}
    [] operation = "selectCurrent" -> {Accepted(r) : r \in Selections(x)}

Operations == {"hello", "deriveIdentity", "authorRecord", "verifyRecord", "strictEd25519",
               "nextTimestamp", "validateCbor", "selectCurrent"}
Operate(operation, x) ==
  LET reads == Reads(operation, x)
      stops == {i \in DOMAIN reads : ~Passes(reads[i], x)}
  IN  IF stops = {} THEN Implementation(operation, x)
      ELSE {Refusal(reads[CHOOSE i \in stops : \A j \in stops : i <= j])}

HandleLine(l) ==
  CASE "overlong" \in l.defects -> {InfrastructureError("1", "unknown", "adapter.lineTooLong")}
    [] l.defects # {} /\ "overlong" \notin l.defects ->
         {InfrastructureError("1", "unknown", "adapter.malformedRequest")}
    [] l.defects = {} /\ l.protocol # "1" ->
         {InfrastructureError(l.protocol, "case", "adapter.unsupportedProtocol")}
    [] l.defects = {} /\ l.protocol = "1" /\ l.operation \notin Operations ->
         {InfrastructureError("1", "case", "adapter.unsupportedOperation")}
    [] OTHER -> Operate(l.operation, l.input)

----------------------------------------------------------------------------
\* The regular requests: of authorRecord one that says little, one that says all.
One == ToString10(1)
Input(members) == ("input" :> Object) @@ ("input.*" :> Absent) @@ members
TypedValue(p) ==
  (p :> Object) @@ (p \o ".type" :> <<"nint">>) @@ (p \o ".value" :> ToString10(-2)) @@ (p \o ".*" :> Absent)
ContactAnd(members) ==
  members @@
  [m \in {"contact.*", "alias", "service", "service.*", "migration.*", "contact.extensions.x"} |-> Absent] @@
  [m \in {"contact", "contact.extensions", "extensions"} |-> Object] @@
  [m \in {"alsoKnownAs", "services"} |-> Array] @@
  [m \in {"displayName", "label", "migration", "predecessor", "successor", "validUntilMs"} |-> Null] @@
  ("endpoint" :> Text) @@ ("extensions.x.entry" :> Object) @@ ("extensions.x.entry.*" :> Absent) @@
  TypedValue("contact.extensions.x") @@ TypedValue("extensions.x") @@
  TypedValue("extensions.x.key") @@ TypedValue("extensions.x.item") @@
  ("rootSeed" :> Hex32) @@ ("revocationSeed" :> Hex32) @@ ("timestampMs" :> One) @@
  ("authority" :> <<"root">>) @@ ("signingSeed" :> <<"root">>)
Regular(operation) ==
  CASE operation \in {"hello", "probe"} -> {Input(<<>>)}
    [] operation = "deriveIdentity" -> {Input([rootSeed |-> Hex32, revocationSeed |-> Hex32])}
    [] operation = "authorRecord" ->
         {Input(ContactAnd([m \in {"extensions.x"} |-> Absent])),
          Input(ContactAnd(("service" :> Object) @@ ("contact.extensions.x" :> Object) @@
                           ("extensions.x" :> Object) @@ ("alias" :> Text) @@
                           [migration |-> Object, predecessor |-> Did, successor |-> Did, validUntilMs |-> One,
                            authority |-> <<"rootRevoked">>, signingSeed |-> <<"revocation">>]))}
    [] operation = "verifyRecord" -> {Input([targetDid |-> Did, envelope |-> Envelope, nowMs |-> One])}
    [] operation = "strictEd25519" -> {Input([publicKey |-> Hex32, message |-> Hex, signature |-> Hex64])}
    [] operation = "nextTimestamp" -> {Input([nowMs |-> One, previousTimestampMs |-> One])}
    [] operation = "validateCbor" -> {Input([cbor |-> Hex, maxDepth |-> One, maxMembers |-> One])}
    [] operation = "selectCurrent" ->
         {Input([targetDid |-> Did, candidates |-> Array, candidate1 |-> Hex, candidate2 |-> Envelope,
                 nowMs |-> One, stickyAuthority |-> <<"unknown">>])}

\* What else a member may be: another kind of value, a word or a numeral
\* that some reader tells from the regular one.  Typed values are not nested further.
Seeds == {<<"root">>, <<"revocation">>, <<"rootRevoked">>, <<"unknown">>}
Words(m, v) ==
  CASE v \in Numerals -> Numerals \cup {Hex}
    [] v \in Bytes \cup {Did} \/ m \in {"predecessor", "successor"} -> Bytes \cup {NotHex, Did, NotDid}
    [] v \in Seeds -> Seeds
    [] m = "validUntilMs" -> {One}
    [] m = "extensions.x.type" -> Types \cup {<<"arrayType">>, <<"mapType">>}
    [] v = <<"nint">> -> Types
    [] OTHER -> {}

Line(operation, input, changes) ==
  [defects |-> {}, protocol |-> "1", operation |-> operation, input |-> input, changes |-> changes]
Defects == {"overlong", "bom", "blank", "notUtf8", "notProfile", "notEnvelope"}

Init ==
  /\ \E o \in Operations \cup {"probe"} : \E x \in Regular(o) : line = Line(o, x, 0)
  /\ answer = None
  /\ authored = None

Changing == answer = None /\ line.changes < MaxChanges /\ UNCHANGED <<answer, authored>>

ChangeMember ==
  /\ Changing
  /\ \E m \in DOMAIN line.input : \E v \in (Kinds \cup Words(m, line.input[m])) \ {line.input[m]} :
       line' = [line EXCEPT !.input[m] = v, !.changes = @ + 1]

Garble ==
  /\ Changing
  /\ \E d \in Defects \ line.defects : line' = [line EXCEPT !.defects = @ \cup {d}, !.changes = @ + 1]

OtherProtocol ==
  /\ Changing
  /\ line.protocol = "1"
  /\ line' = [line EXCEPT !.protocol = "2", !.changes = @ + 1]

Respond ==
  /\ answer = None
  /\ answer' \in HandleLine(line)
  /\ authored' = IF line.operation = "authorRecord" /\ answer'.status = "accepted"
                 THEN [asked |-> Asked(line.input), body |-> Body(line.input)] ELSE authored
  /\ UNCHANGED line

\* Only what verifies or selects comes with the record authored before.
NextLine ==
  /\ answer # None
  /\ answer' = None
  /\ \E o \in Operations : \E x \in Regular(o) :
       IF authored # None /\ o \in {"verifyRecord", "selectCurrent"}
       THEN line' = Line(o, x, line.changes) /\ UNCHANGED authored
       ELSE line' = Line(o, x, 0) /\ authored' = None

Next == ChangeMember \/ Garble \/ OtherProtocol \/ Respond \/ NextLine
Spec == Init /\ [][Next]_vars
=============================================================================
