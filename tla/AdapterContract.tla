-------------------------- MODULE AdapterContract --------------------------
(***************************************************************************)
(* What the interface document (INTERFACE.md) asks of a request, member by *)
(* member and without an order, and what must be true of the adapter's     *)
(* answers to it.                                                          *)
(***************************************************************************)
EXTENDS Adapter

----------------------------------------------------------------------------
\* An optional field of the protocol is left out by null, by an empty array or by
\* an empty object.  Array and Object stand for the empty ones, but where one of
\* their items or members has a path of its own.
OptionalTexts == {"displayName", "label", "predecessor", "successor", "validUntilMs"}
Holders == [alsoKnownAs |-> "alias", services |-> "service"] @@
           [m \in {"contact.extensions", "extensions"} |-> m \o ".x"]
Omitted(m, x) ==
  \/ m \in OptionalTexts /\ x[m] \in {Null, Array, Object}
  \/ m = "migration" /\ x[m] \in {Null, Array}
  \/ m = "migration" /\ x[m] = Object /\ {x["predecessor"], x["successor"], x["migration.*"]} = {Absent}
  \/ /\ m \in DOMAIN Holders
     /\ x[m] = Null \/ (x[m] \in {Array, Object} /\ x[Holders[m]] = Absent)

\* The same input with every omission in the form that the shapes show: null for a
\* text or a migration, no items or entries for a list or a map.
Plainly(x) ==
  [m \in DOMAIN x |->
     CASE Omitted(m, x) /\ m \in {"alsoKnownAs", "services"} -> Array
       [] Omitted(m, x) /\ m \in {"contact.extensions", "extensions"} -> Object
       [] Omitted(m, x) /\ m \notin DOMAIN Holders -> Null
       [] \E h \in DOMAIN Holders \cap DOMAIN x : m = Holders[h] /\ Omitted(h, x) -> Absent
       [] OTHER -> x[m]]

----------------------------------------------------------------------------
\* The shapes of the members of an input whose omissions are plain.
Decimals == {ToString10(n) : n \in U64}
Negatives == {ToString10(n) : n \in -(2^Width) .. -1}
UpTo(max) == {ToString10(n) : n \in 0 .. max}
OptionalTextual(v) == v = Null \/ IsText(v)

\* A typed value: one of its types, the value of that type, nothing else.
Containers == {<<"arrayType">>, <<"mapType">>}
Fitting(type, v) ==
  CASE type = <<"uint">> -> v \in Decimals
    [] type = <<"nint">> -> v \in Negatives
    [] type = <<"bytes">> -> v \in Bytes
    [] type = <<"textType">> -> IsText(v)
    [] type = <<"boolType">> -> v = Bool
    [] type = <<"nullType">> -> v = Absent
    [] OTHER -> v = Array
ScalarAllowed(types, p, x) ==
  /\ x[p] = Object /\ x[p \o ".*"] = Absent
  /\ x[p \o ".type"] \in types
  /\ Fitting(x[p \o ".type"], x[p \o ".value"])
TypedAllowed(p, x) ==
  /\ ScalarAllowed(Types \cup Containers, p, x)
  /\ x[p \o ".type"] \in Containers => ScalarAllowed(Types \cup Containers, p \o ".item", x)
  /\ x[p \o ".type"] = <<"mapType">> =>
       /\ x[p \o ".entry"] = Object /\ x[p \o ".entry.*"] = Absent
       /\ ScalarAllowed(KeyTypes, p \o ".key", x)
ExtensionsAllowed(p, x) ==
  x[p] = Object /\ (x[p \o ".x"] = Absent \/ TypedAllowed(p \o ".x", x))

\* A contact but for its extensions, and what a migration says as far as it is text.
ServiceAllowed(x) ==
  \/ x["service"] = Absent
  \/ /\ x["service"] = Object /\ x["service.*"] = Absent
     /\ IsText(x["endpoint"]) /\ OptionalTextual(x["label"])
MigrationAllowed(x) ==
  \/ x["migration"] = Null
  \/ /\ x["migration"] = Object /\ x["migration.*"] = Absent
     /\ OptionalTextual(x["predecessor"]) /\ OptionalTextual(x["successor"])
ContactAllowed(x) ==
  /\ x["contact"] = Object
  /\ OptionalTextual(x["displayName"])
  /\ x["alsoKnownAs"] = Array /\ (x["alias"] = Absent \/ IsText(x["alias"]))
  /\ x["services"] = Array /\ ServiceAllowed(x)
  /\ MigrationAllowed(x)

\* What the interface asks of an operation's members; of authorRecord and
\* selectCurrent, but for what the adapter reads once it has parsed their DIDs.
Early(operation, x) ==
  x["input"] = Object /\
  CASE operation = "hello" -> x["input.*"] = Absent
    [] operation = "deriveIdentity" ->
         x["input.*"] = Absent /\ x["rootSeed"] = Hex32 /\ x["revocationSeed"] = Hex32
    [] operation = "authorRecord" ->
         /\ x["rootSeed"] = Hex32 /\ x["revocationSeed"] = Hex32
         /\ x["authority"] \in {<<"root">>, <<"rootRevoked">>}
         /\ x["timestampMs"] \in Decimals /\ x["validUntilMs"] \in Decimals \cup {Null}
         /\ ContactAllowed(x)
    [] operation = "verifyRecord" ->
         /\ x["input.*"] = Absent /\ IsText(x["targetDid"])
         /\ x["envelope"] \in Bytes /\ x["nowMs"] \in Decimals
    [] operation = "strictEd25519" ->
         x["input.*"] = Absent /\ {x["publicKey"], x["message"], x["signature"]} \subseteq Bytes
    [] operation = "nextTimestamp" ->
         /\ x["input.*"] = Absent
         /\ x["nowMs"] \in Decimals /\ x["previousTimestampMs"] \in Decimals \cup {Null}
    [] operation = "validateCbor" ->
         /\ x["input.*"] = Absent /\ x["cbor"] \in Bytes
         /\ x["maxDepth"] \in UpTo(MaxDepth) /\ x["maxMembers"] \in UpTo(MaxMembers)
    [] operation = "selectCurrent" ->
         /\ x["input.*"] = Absent /\ IsText(x["targetDid"]) /\ x["candidates"] = Array
         /\ x["nowMs"] \in Decimals
         /\ x["stickyAuthority"] \in {<<"unknown">>, <<"root">>, <<"rootRevoked">>}
Late(operation, x) ==
  CASE operation = "authorRecord" ->
         /\ ExtensionsAllowed("contact.extensions", x) /\ x["contact.*"] = Absent
         /\ ExtensionsAllowed("extensions", x) /\ x["input.*"] = Absent
         /\ x["signingSeed"] = (IF x["authority"] = <<"root">> THEN <<"root">> ELSE <<"revocation">>)
    [] operation = "selectCurrent" -> {x["candidate1"], x["candidate2"]} \subseteq Bytes \cup {Absent}
    [] OTHER -> TRUE

\* A DID that the adapter has the implementation parse is none.
BadDid(operation, x) ==
  CASE operation = "authorRecord" ->
         x["migration"] = Object /\ ~({x["predecessor"], x["successor"]} \subseteq {Null, Did})
    [] operation = "selectCurrent" -> x["targetDid"] \notin {Null, Did}
    [] OTHER -> FALSE

\* The answer a to the line l with input x, by its framing, its protocol and the contract.
Contract(l, x, a) ==
  LET known == l.defects = {} /\ l.protocol = "1" /\ l.operation \in Operations
      early == Early(l.operation, x)
      masked == early /\ BadDid(l.operation, x)
  IN /\ a.caseId = (IF l.defects = {} THEN "case" ELSE "unknown")
     /\ a.protocol = (IF l.defects = {} THEN l.protocol ELSE "1")
     /\ (a.status = "error") <=> ~known \/ (~(early /\ Late(l.operation, x)) /\ ~masked)
     /\ known /\ masked => a = Rejected("invalidDid")

\* The answers of the interface, and the integers of the implementation's types.
Answers ==
  [protocol : {"1"}, caseId : {"case"}, status : {"rejected"},
   error : {"invalidDid", "invalidCbor", "nonDeterministicCbor", "schemaViolation", "recordTooLarge"}] \cup
  [protocol : {"1", "2"}, caseId : {"case", "unknown"}, status : {"error"},
   errorSymbol : {"adapter.lineTooLong", "adapter.malformedRequest", "adapter.unsupportedProtocol",
                  "adapter.unsupportedOperation", "adapter.invalidInput", "adapter.signingKeyMismatch"}]
Fits(body) ==
  /\ body.timestampMs \in U64
  /\ \A i \in DOMAIN body.validUntilMs : body.validUntilMs[i] \in U64
  /\ \A p \in DOMAIN body.extensions :
       body.extensions[p][1] \in {"uint", "nint"} => body.extensions[p][2] \in U64

\* An answer has the form of its status, with a symbol of the interface; what was
\* authored is in integers of the implementation's types (operation_response).
TypeOK ==
  /\ line.defects \subseteq Defects
  /\ line.protocol \in {"1", "2"}
  /\ line.operation \in Operations \cup {"probe"}
  /\ line.changes \in 0 .. MaxChanges
  /\ answer # None =>
       IF answer.status = "accepted" THEN answer = Accepted(answer.result) ELSE answer \in Answers
  /\ authored # None => Fits(authored.body)

\* A line that is a request of this protocol, with its omissions in the form of the
\* shapes, is answered in its own name, and it is answered with an error exactly
\* when it breaks the interface's contract in some member, wherever that member
\* stands; but a malformed DID that the adapter parses while it is still reading
\* is a rejection, whatever is wrong after it.  Any other line is an error: its
\* case is unknown when it was not read, its own protocol is repeated when it was
\* (handle_line, ops.rs).
ContractDecides == answer # None /\ Plainly(line.input) = line.input => Contract(line, line.input, answer)

\* A field that is null, an empty array or an empty object is a field left out,
\* whatever the form of its omission (INTERFACE.md:42-44, 94-95).  The adapter asks
\* for one form of each and answers the others with adapter.invalidInput
\* (extension_map, contact_from_input, migration_from_input).
OmissionsAreTaken == answer # None => Contract(line, Plainly(line.input), answer)

\* What is verified of the record authored last is what its author's request said,
\* word for word: times and extension values over the full range of the decimal
\* texts survive the way into the implementation's integers and back (author_record,
\* typed_value, verify_record_op, semantic_record_json).
SaysWhatWasAsked ==
  answer # None /\ line.operation = "verifyRecord" /\ answer.status = "accepted" =>
    answer.result = authored.asked
=============================================================================
