--------------------------- MODULE Adapter_proofs ---------------------------
(***************************************************************************)
(* A request is answered by the interface's contract, and what is verified *)
(* is what was asked: theorems about Adapter and AdapterContract.          *)
(***************************************************************************)
EXTENDS AdapterContract, SequenceTheorems, TLAPS

-----------------------------------------------------------------------------
(* The steps of a reading, as a set.                                       *)

Elems(s) == {s[i] : i \in 1 .. Len(s)}
IsSequence(s) == s \in Seq(Elems(s))

LEMMA LiteralElems ==
  /\ IsSequence(<<>>) /\ Elems(<<>>) = {}
  /\ \A a : IsSequence(<<a>>) /\ Elems(<<a>>) = {a}
  /\ \A a, b : IsSequence(<<a, b>>) /\ Elems(<<a, b>>) = {a, b}
  /\ \A a, b, c : IsSequence(<<a, b, c>>) /\ Elems(<<a, b, c>>) = {a, b, c}
  /\ \A a, b, c, d : IsSequence(<<a, b, c, d>>) /\ Elems(<<a, b, c, d>>) = {a, b, c, d}
  /\ \A a, b, c, d, e : /\ IsSequence(<<a, b, c, d, e>>)
                        /\ Elems(<<a, b, c, d, e>>) = {a, b, c, d, e}
  /\ \A a, b, c, d, e, f : /\ IsSequence(<<a, b, c, d, e, f>>)
                           /\ Elems(<<a, b, c, d, e, f>>) = {a, b, c, d, e, f}
BY DEF IsSequence, Elems

LEMMA SequenceIn ==
  ASSUME NEW S, NEW s \in Seq(S)
  PROVE  IsSequence(s) /\ Elems(s) \subseteq S
<1>1. Elems(s) \subseteq S
  BY DEF Elems
<1>2. s \in Seq(Elems(s))
  BY DEF Elems
<1>3. QED
  BY <1>1, <1>2 DEF IsSequence

LEMMA ConcatElems ==
  ASSUME NEW s, NEW t, IsSequence(s), IsSequence(t)
  PROVE  IsSequence(s \o t) /\ Elems(s \o t) = Elems(s) \cup Elems(t)
<1> DEFINE S == Elems(s) \cup Elems(t)
<1>1. Elems(s) \subseteq S /\ Elems(t) \subseteq S
  OBVIOUS
<1>2. s \in Seq(S) /\ t \in Seq(S)
  <2> HIDE DEF S
  <2>1. QED
    BY <1>1 DEF IsSequence
<1> HIDE DEF S
<1>3. /\ s \o t \in Seq(S) /\ Len(s \o t) = Len(s) + Len(t)
      /\ \A i \in 1 .. Len(s) + Len(t) : (s \o t)[i] = IF i <= Len(s) THEN s[i] ELSE t[i - Len(s)]
  BY <1>2, ConcatProperties
<1>4. IsSequence(s \o t)
  BY <1>3, SequenceIn
<1>5. Len(s) \in Nat /\ Len(t) \in Nat
  BY <1>2
<1>6. Elems(s \o t) \subseteq Elems(s) \cup Elems(t)
  BY <1>3, <1>5 DEF Elems
<1>7. Elems(s) \subseteq Elems(s \o t)
  BY <1>3, <1>5 DEF Elems
<1>8. Elems(t) \subseteq Elems(s \o t)
  <2>1. ASSUME NEW i \in 1 .. Len(t) PROVE t[i] \in Elems(s \o t)
    <3>1. Len(s) + i \in 1 .. Len(s) + Len(t) /\ ~ (Len(s) + i <= Len(s)) /\ (Len(s) + i) - Len(s) = i
      BY <1>5, <2>1
    <3>2. (s \o t)[Len(s) + i] = t[i]
      BY <1>3, <3>1
    <3>3. QED
      BY <1>3, <3>1, <3>2 DEF Elems
  <2>2. QED
    BY <2>1 DEF Elems
<1>9. QED
  BY <1>4, <1>6, <1>7, <1>8

-----------------------------------------------------------------------------
(* Texts into integers and back.                                           *)

LEMMA NumeralValue ==
  ASSUME NEW t \in Numerals
  PROVE  t[3] \in Int /\ Value(t) \in Int
<1>1. t[3] \in Int
  <2>1. CASE t \in {"", "-"} \X {0} \X (0 .. 2^Width + 1)
    <3>1. ASSUME NEW R, NEW S, NEW T, t \in R \X S \X T PROVE t[3] \in T
      BY <3>1
    <3>2. t[3] \in 0 .. 2^Width + 1
      BY <2>1, <3>1
    <3>3. QED
      BY <3>2
  <2>2. CASE t \in {<<"+", 0, 1>>, <<"", 1, 0>>, <<"", 1, 1>>, <<"-", 1, 1>>}
    <3>1. ASSUME NEW a, NEW b, NEW c, t = <<a, b, c>> PROVE t[3] = c
      BY <3>1
    <3>2. t[3] = 1 \/ t[3] = 0
      BY <2>2, <3>1
    <3>3. QED
      BY <3>2
  <2>3. QED
    BY <2>1, <2>2 DEF Numerals
<1>2. QED
  BY <1>1 DEF Value

\* What is read as a u64 is printed as it was.
LEMMA UintTrip ==
  ASSUME NEW t, ParsesU64(t)
  PROVE  ToString10(Value(t)) = t
BY DEF ParsesU64

\* The magnitude of a negative integer gives its text back.
LEMMA NintTrip ==
  ASSUME NEW t, ParsesNint(t)
  PROVE  ToString10(-(Magnitude(t) + 1)) = t
<1>1. Value(t) \in Int
  BY NumeralValue DEF ParsesNint
<1>2. -(Magnitude(t) + 1) = Value(t)
  BY <1>1 DEF Magnitude
<1>3. QED
  BY <1>2 DEF ParsesNint

LEMMA OptionalTrip ==
  ASSUME NEW v, Takes("optU64", v)
  PROVE  OptionalText(Optional(v)) = v
<1>1. v = Null \/ ParsesU64(v)
  BY DEF Takes
<1>2. CASE v = Null
  BY <1>2 DEF Optional, OptionalText
<1>3. CASE v # Null
  <2>1. Optional(v) = <<Value(v)>>
    BY <1>3 DEF Optional
  <2>2. <<Value(v)>> # <<>> /\ <<Value(v)>>[1] = Value(v)
    OBVIOUS
  <2>3. QED
    BY <1>1, <1>3, <2>1, <2>2, UintTrip DEF OptionalText
<1>4. QED
  BY <1>2, <1>3

AnyType == Types \cup {<<"arrayType">>, <<"mapType">>}

LEMMA TypedTrip ==
  ASSUME NEW p, NEW x, x[p \o ".type"] \in AnyType, Passes(Scalar(p, x), x)
  PROVE  TypedJson(FromTyped(p, x)) = <<x[p \o ".type"][1], x[p \o ".value"]>>
<1> DEFINE type == x[p \o ".type"]
           value == x[p \o ".value"]
<1>1. CASE type = <<"uint">>
  <2>1. Scalar(p, x) = <<"u64", p \o ".value">>
    BY <1>1 DEF Scalar
  <2>2. ParsesU64(value)
    BY <2>1 DEF Passes, Takes
  <2>3. FromTyped(p, x) = <<"uint", Value(value)>>
    BY <1>1 DEF FromTyped
  <2>4. QED
    BY <1>1, <2>2, <2>3, UintTrip DEF TypedJson
<1>2. CASE type = <<"nint">>
  <2>1. Scalar(p, x) = <<"nint", p \o ".value">>
    BY <1>2 DEF Scalar
  <2>2. ParsesNint(value)
    BY <2>1 DEF Passes, Takes
  <2>3. FromTyped(p, x) = <<"nint", Magnitude(value)>>
    BY <1>2 DEF FromTyped
  <2>4. QED
    BY <1>2, <2>2, <2>3, NintTrip DEF TypedJson
<1>3. CASE type # <<"uint">> /\ type # <<"nint">>
  <2>1. FromTyped(p, x) = <<type[1], value>>
    BY <1>3 DEF FromTyped
  <2>2. type[1] # "uint" /\ type[1] # "nint"
    BY <1>3 DEF AnyType, Types, KeyTypes
  <2>3. QED
    BY <2>1, <2>2 DEF TypedJson
<1>4. QED
  BY <1>1, <1>2, <1>3

\* An integer that is read fits the implementation's type.
LEMMA UintFits ==
  ASSUME NEW t, ParsesU64(t)
  PROVE  Value(t) \in U64
BY DEF ParsesU64

LEMMA NintFits ==
  ASSUME NEW t, ParsesNint(t)
  PROVE  Magnitude(t) \in U64
<1>1. Value(t) \in Int /\ -(2^Width) <= Value(t) /\ Value(t) < 0
  BY NumeralValue DEF ParsesNint
<1>2. 2^Width \in Int
  BY WidthAssumption
<1>3. QED
  BY <1>1, <1>2 DEF Magnitude, U64

LEMMA TypedFits ==
  ASSUME NEW p, NEW x, x[p \o ".type"] \in AnyType, Passes(Scalar(p, x), x),
         FromTyped(p, x)[1] \in {"uint", "nint"}
  PROVE  FromTyped(p, x)[2] \in U64
<1> DEFINE type == x[p \o ".type"]
           value == x[p \o ".value"]
<1>1. CASE type = <<"uint">>
  <2>1. Scalar(p, x) = <<"u64", p \o ".value">>
    BY <1>1 DEF Scalar
  <2>2. ParsesU64(value)
    BY <2>1 DEF Passes, Takes
  <2>3. FromTyped(p, x) = <<"uint", Value(value)>>
    BY <1>1 DEF FromTyped
  <2>4. QED
    BY <2>2, <2>3, UintFits
<1>2. CASE type = <<"nint">>
  <2>1. Scalar(p, x) = <<"nint", p \o ".value">>
    BY <1>2 DEF Scalar
  <2>2. ParsesNint(value)
    BY <2>1 DEF Passes, Takes
  <2>3. FromTyped(p, x) = <<"nint", Magnitude(value)>>
    BY <1>2 DEF FromTyped
  <2>4. QED
    BY <2>2, <2>3, NintFits
<1>3. CASE type # <<"uint">> /\ type # <<"nint">>
  <2>1. FromTyped(p, x) = <<type[1], value>>
    BY <1>3 DEF FromTyped
  <2>2. type[1] # "uint" /\ type[1] # "nint"
    BY <1>3 DEF AnyType, Types, KeyTypes
  <2>3. QED
    BY <2>1, <2>2
<1>4. QED
  BY <1>1, <1>2, <1>3

-----------------------------------------------------------------------------
(* What has been read when a record is authored.                           *)

LEMMA ScalarsElems ==
  ASSUME NEW type, NEW p, NEW x
  PROVE  /\ IsSequence(Scalars(type, p, x))
         /\ {<<type, p \o ".type">>, Scalar(p, x)} \subseteq Elems(Scalars(type, p, x))
<1> DEFINE a == <<"object", p>>
           b == <<type, p \o ".type">>
           c == Scalar(p, x)
           d == <<"known", p \o ".*">>
<1>1. Scalars(type, p, x) = <<a, b, c, d>>
  BY DEF Scalars
<1> HIDE DEF a, b, c, d
<1>2. IsSequence(<<a, b, c, d>>) /\ Elems(<<a, b, c, d>>) = {a, b, c, d}
  BY LiteralElems
<1>3. {b, c} \subseteq Elems(Scalars(type, p, x)) /\ IsSequence(Scalars(type, p, x))
  BY <1>1, <1>2
<1>4. QED
  BY <1>3 DEF b, c

LEMMA TypedElems ==
  ASSUME NEW p, NEW x
  PROVE  /\ IsSequence(Typed(p, x))
         /\ {<<"type", p \o ".type">>, Scalar(p, x)} \subseteq Elems(Typed(p, x))
         /\ x[p \o ".type"] \in {<<"arrayType">>, <<"mapType">>} =>
              {<<"type", (p \o ".item") \o ".type">>, Scalar(p \o ".item", x)} \subseteq Elems(Typed(p, x))
         /\ x[p \o ".type"] = <<"mapType">> =>
              {<<"keyType", (p \o ".key") \o ".type">>, Scalar(p \o ".key", x)} \subseteq Elems(Typed(p, x))
<1> DEFINE
  array == Scalars("type", p \o ".item", x)
  key == Scalars("keyType", p \o ".key", x)
  entry == <<<<"object", p \o ".entry">>>>
  rest == <<<<"known", p \o ".entry.*">>>>
  map == entry \o key \o array \o rest
  items == CASE x[p \o ".type"] = <<"arrayType">> -> array
             [] x[p \o ".type"] = <<"mapType">> -> map
             [] OTHER -> <<>>
  head == <<<<"object", p>>, <<"type", p \o ".type">>, Scalar(p, x)>>
  tail == <<<<"known", p \o ".*">>>>
<1>1. Typed(p, x) = head \o items \o tail
  BY DEF Typed
<1>2. /\ IsSequence(head) /\ IsSequence(tail) /\ IsSequence(entry) /\ IsSequence(rest)
      /\ {<<"type", p \o ".type">>, Scalar(p, x)} \subseteq Elems(head)
  <2> DEFINE a == <<"object", p>>
             b == <<"type", p \o ".type">>
             c == Scalar(p, x)
  <2>1. IsSequence(tail) /\ IsSequence(entry) /\ IsSequence(rest)
    BY LiteralElems
  <2>2. head = <<a, b, c>>
    OBVIOUS
  <2> HIDE DEF a, b, c, head
  <2>3. IsSequence(<<a, b, c>>) /\ Elems(<<a, b, c>>) = {a, b, c}
    BY LiteralElems
  <2>4. IsSequence(head) /\ {b, c} \subseteq Elems(head)
    BY <2>2, <2>3
  <2>5. QED
    BY <2>1, <2>4 DEF b, c
<1>3. /\ IsSequence(array) /\ IsSequence(key)
      /\ {<<"type", (p \o ".item") \o ".type">>, Scalar(p \o ".item", x)} \subseteq Elems(array)
      /\ {<<"keyType", (p \o ".key") \o ".type">>, Scalar(p \o ".key", x)} \subseteq Elems(key)
  BY ScalarsElems
<1> HIDE DEF array, key, entry, rest, head, tail
<1>4. IsSequence(map) /\ Elems(array) \subseteq Elems(map) /\ Elems(key) \subseteq Elems(map)
  <2>1. IsSequence(entry \o key) /\ Elems(key) \subseteq Elems(entry \o key)
    BY <1>2, <1>3, ConcatElems
  <2>2. /\ IsSequence(entry \o key \o array)
        /\ Elems(entry \o key) \cup Elems(array) = Elems(entry \o key \o array)
    BY <1>3, <2>1, ConcatElems
  <2>3. QED
    BY <1>2, <2>1, <2>2, ConcatElems
<1> HIDE DEF map
<1>5. /\ IsSequence(items)
      /\ x[p \o ".type"] = <<"arrayType">> => items = array
      /\ x[p \o ".type"] = <<"mapType">> => items = map
  BY <1>3, <1>4, LiteralElems
<1> HIDE DEF items
<1>6. IsSequence(head \o items) /\ Elems(head \o items) = Elems(head) \cup Elems(items)
  BY <1>2, <1>5, ConcatElems
<1>7. IsSequence(Typed(p, x)) /\ Elems(head) \cup Elems(items) \subseteq Elems(Typed(p, x))
  BY <1>1, <1>2, <1>6, ConcatElems
<1>8. QED
  BY <1>2, <1>3, <1>4, <1>5, <1>7

LEMMA ExtensionElems ==
  ASSUME NEW p, NEW x
  PROVE  /\ IsSequence(ExtensionMap(p, x))
         /\ x[p \o ".x"] # Absent => Elems(Typed(p \o ".x", x)) \subseteq Elems(ExtensionMap(p, x))
<1> DEFINE head == <<<<"object", p>>>>
           rest == IF x[p \o ".x"] = Absent THEN <<>> ELSE Typed(p \o ".x", x)
<1>1. ExtensionMap(p, x) = head \o rest
  BY DEF ExtensionMap
<1>2. IsSequence(head)
  BY LiteralElems
<1>3. IsSequence(rest)
  BY LiteralElems, TypedElems
<1>4. x[p \o ".x"] # Absent => rest = Typed(p \o ".x", x)
  OBVIOUS
<1> HIDE DEF head, rest
<1>5. QED
  BY <1>1, <1>2, <1>3, <1>4, ConcatElems

\* The contact is read to its end before the record's own extensions.
LEMMA ContactElems == ASSUME NEW x PROVE IsSequence(Contact(x))
<1> DEFINE
  a == <<<<"object", "contact">>, <<"optText", "displayName">>, <<"array", "alsoKnownAs">>>>
  b == IF x["alias"] = Absent THEN <<>> ELSE <<<<"text", "alias">>>>
  c == <<<<"array", "services">>>>
  d == <<<<"present", "migration">>>>
  e == ExtensionMap("contact.extensions", x)
  f == <<<<"known", "contact.*">>>>
<1>1. Contact(x) = a \o b \o c \o Service(x) \o d \o Migration(x) \o e \o f
  BY DEF Contact
<1>2. IsSequence(a) /\ IsSequence(b) /\ IsSequence(c) /\ IsSequence(d) /\ IsSequence(e) /\ IsSequence(f)
  BY LiteralElems, ExtensionElems
<1>3. IsSequence(Service(x))
  BY LiteralElems DEF Service
<1>4. IsSequence(Migration(x))
  BY LiteralElems DEF Migration
<1> HIDE DEF a, b, c, d, e, f
<1>5. QED
  BY <1>1, <1>2, <1>3, <1>4, ConcatElems

LEMMA AuthorElems ==
  ASSUME NEW x
  PROVE  /\ IsSequence(AuthorRecord(x))
         /\ {<<"u64", "timestampMs">>, <<"optU64", "validUntilMs">>} \subseteq Elems(AuthorRecord(x))
         /\ Elems(ExtensionMap("extensions", x)) \subseteq Elems(AuthorRecord(x))
<1> DEFINE
  a == <<<<"object", "input">>>>
  u == <<"u64", "timestampMs">>
  v == <<"optU64", "validUntilMs">>
  h == <<"hex32", "rootSeed">>
  i == <<"hex32", "revocationSeed">>
  j == <<"authority", "authority">>
  b == <<h, i, j, u, v>>
  c == Contact(x)
  e == ExtensionMap("extensions", x)
  f == <<<<"text", "signingSeed">>>>
  g == <<<<"known", "input.*">>>>
  k == <<<<"seedName", "signingSeed">>, <<"coherent", "signingSeed">>>>
<1>1. AuthorRecord(x) = (a \o (b \o c \o e \o f) \o g) \o k
  BY DEF AuthorRecord, Fields
<1>2. /\ IsSequence(a) /\ IsSequence(c) /\ IsSequence(e) /\ IsSequence(f) /\ IsSequence(g)
      /\ IsSequence(k)
  BY LiteralElems, ContactElems, ExtensionElems
<1>3. IsSequence(b) /\ u \in Elems(b) /\ v \in Elems(b)
  <2> HIDE DEF u, v, h, i, j
  <2>1. IsSequence(<<h, i, j, u, v>>) /\ Elems(<<h, i, j, u, v>>) = {h, i, j, u, v}
    BY LiteralElems
  <2>2. QED
    BY <2>1
<1> HIDE DEF a, b, c, e, f, g, k
<1>4. IsSequence(b \o c \o e \o f) /\ Elems(b) \cup Elems(e) \subseteq Elems(b \o c \o e \o f)
  <2>1. IsSequence(b \o c) /\ Elems(b) \subseteq Elems(b \o c)
    BY <1>2, <1>3, ConcatElems
  <2>2. IsSequence(b \o c \o e) /\ Elems(b) \cup Elems(e) \subseteq Elems(b \o c \o e)
    BY <1>2, <2>1, ConcatElems
  <2>3. QED
    BY <1>2, <2>2, ConcatElems
<1> DEFINE m == b \o c \o e \o f
<1>5. m = b \o c \o e \o f
  OBVIOUS
<1> HIDE DEF m
<1>6. IsSequence(a \o m) /\ Elems(m) \subseteq Elems(a \o m)
  BY <1>2, <1>4, <1>5, ConcatElems
<1>7. IsSequence(a \o m \o g) /\ Elems(m) \subseteq Elems(a \o m \o g)
  BY <1>2, <1>6, ConcatElems
<1>8. IsSequence(a \o m \o g \o k) /\ Elems(m) \subseteq Elems(a \o m \o g \o k)
  BY <1>2, <1>7, ConcatElems
<1>9. QED
  BY <1>1, <1>3, <1>4, <1>5, <1>8 DEF e, u, v

-----------------------------------------------------------------------------
(* Authoring.                                                              *)

\* An accepted record says what was asked, in integers that fit.
LEMMA RecordTrip ==
  ASSUME NEW x, \A step \in Elems(AuthorRecord(x)) : Passes(step, x)
  PROVE  /\ Record(Body(x)) = Asked(x)
         /\ Fits(Body(x))
<1>1. ParsesU64(x["timestampMs"]) /\ Takes("optU64", x["validUntilMs"])
  <2>1. Passes(<<"u64", "timestampMs">>, x) /\ Passes(<<"optU64", "validUntilMs">>, x)
    BY AuthorElems
  <2>2. Takes("u64", x["timestampMs"]) /\ Takes("optU64", x["validUntilMs"])
    BY <2>1 DEF Passes
  <2>3. QED
    BY <2>2 DEF Takes
<1> DEFINE p == "extensions" \o ".x"
<1>2. ASSUME NEW q \in ScalarsOf(x)
      PROVE  /\ TypedJson(FromTyped(q, x)) = <<x[q \o ".type"][1], x[q \o ".value"]>>
             /\ FromTyped(q, x)[1] \in {"uint", "nint"} => FromTyped(q, x)[2] \in U64
  <2>1. x[p] # Absent
    BY <1>2 DEF ScalarsOf
  <2>2. \A step \in Elems(Typed(p, x)) : Passes(step, x)
    BY <2>1, AuthorElems, ExtensionElems
  <2>3. \A type \in {"type", "keyType"} : \A r :
          Passes(<<type, r \o ".type">>, x) => x[r \o ".type"] \in AnyType
    <3>1. ASSUME NEW r, Passes(<<"type", r \o ".type">>, x) PROVE x[r \o ".type"] \in AnyType
      BY <3>1 DEF Passes, Takes, AnyType
    <3>2. ASSUME NEW r, Passes(<<"keyType", r \o ".type">>, x) PROVE x[r \o ".type"] \in AnyType
      BY <3>2 DEF Passes, Takes, AnyType, Types
    <3>3. QED
      BY <3>1, <3>2
  <2>4. PICK type \in {"type", "keyType"} :
          {<<type, q \o ".type">>, Scalar(q, x)} \subseteq Elems(Typed(p, x))
    <3>1. CASE x[p \o ".type"] = <<"arrayType">>
      <4>1. q = p \o ".item"
        BY <1>2, <2>1, <3>1 DEF ScalarsOf
      <4>2. QED
        BY <3>1, <4>1, TypedElems
    <3>2. CASE x[p \o ".type"] = <<"mapType">>
      <4>1. q \in {p \o ".key", p \o ".item"}
        BY <1>2, <2>1, <3>2 DEF ScalarsOf
      <4>2. QED
        BY <3>2, <4>1, TypedElems
    <3>3. CASE x[p \o ".type"] \notin {<<"arrayType">>, <<"mapType">>}
      <4>1. q = p
        BY <1>2, <2>1, <3>3 DEF ScalarsOf
      <4>2. QED
        BY <4>1, TypedElems
    <3>4. QED
      BY <3>1, <3>2, <3>3
  <2>5. x[q \o ".type"] \in AnyType /\ Passes(Scalar(q, x), x)
    BY <2>2, <2>3, <2>4
  <2>6. QED
    BY <2>5, TypedTrip, TypedFits
<1>3. ToString10(Value(x["timestampMs"])) = x["timestampMs"]
  BY <1>1, UintTrip
<1>4. OptionalText(Optional(x["validUntilMs"])) = x["validUntilMs"]
  BY <1>1, OptionalTrip
<1>5. Record(Body(x)) = Asked(x)
  BY <1>2, <1>3, <1>4 DEF Record, Body, Asked
<1>6. Fits(Body(x))
  <2>1. Body(x).timestampMs \in U64
    BY <1>1, UintFits DEF Body
  <2>2. \A i \in DOMAIN Body(x).validUntilMs : Body(x).validUntilMs[i] \in U64
    <3>1. x["validUntilMs"] = Null \/ ParsesU64(x["validUntilMs"])
      BY <1>1 DEF Takes
    <3>2. Body(x).validUntilMs = Optional(x["validUntilMs"])
      BY DEF Body
    <3>3. QED
      BY <3>1, <3>2, UintFits DEF Optional
  <2>3. Body(x).extensions = [q \in ScalarsOf(x) |-> FromTyped(q, x)]
    BY DEF Body
  <2>4. QED
    BY <1>2, <2>1, <2>2, <2>3 DEF Fits
<1>7. QED
  BY <1>5, <1>6

-----------------------------------------------------------------------------
(* One answer.                                                             *)

\* An answer is a result, or a rejection, or an error, each in its own form.
Formed(a) == IF a.status = "accepted" THEN a = Accepted(a.result) ELSE a \in Answers

Symbols == {"invalidDid", "invalidCbor", "nonDeterministicCbor", "schemaViolation", "recordTooLarge"}
Failures == {"adapter.lineTooLong", "adapter.malformedRequest", "adapter.unsupportedProtocol",
             "adapter.unsupportedOperation", "adapter.invalidInput", "adapter.signingKeyMismatch"}

LEMMA AcceptedForm ==
  ASSUME NEW r
  PROVE  /\ Accepted(r).status = "accepted" /\ Accepted(r).result = r
         /\ Accepted(r).protocol = "1" /\ Accepted(r).caseId = "case" /\ Formed(Accepted(r))
BY DEF Accepted, Formed

LEMMA RejectedForm ==
  ASSUME NEW e \in Symbols
  PROVE  /\ Rejected(e).status = "rejected"
         /\ Rejected(e).protocol = "1" /\ Rejected(e).caseId = "case" /\ Formed(Rejected(e))
BY DEF Rejected, Formed, Answers, Symbols

LEMMA ErrorForm ==
  ASSUME NEW p \in {"1", "2"}, NEW c \in {"case", "unknown"}, NEW e \in Failures
  PROVE  LET a == InfrastructureError(p, c, e)
         IN  a.status = "error" /\ a.protocol = p /\ a.caseId = c /\ Formed(a)
BY DEF InfrastructureError, Formed, Answers, Failures

LEMMA RefusalForm ==
  ASSUME NEW step
  PROVE  /\ Refusal(step).status # "accepted" /\ Formed(Refusal(step))
         /\ Refusal(step).protocol = "1" /\ Refusal(step).caseId = "case"
<1>1. \/ Refusal(step) = Rejected("invalidDid")
      \/ Refusal(step) = InfrastructureError("1", "case", "adapter.signingKeyMismatch")
      \/ Refusal(step) = InfrastructureError("1", "case", "adapter.invalidInput")
  BY DEF Refusal
<1>2. QED
  BY <1>1, RejectedForm, ErrorForm DEF Symbols, Failures

LEMMA ImplementationAnswers ==
  ASSUME NEW operation \in Operations, NEW x, NEW a \in Implementation(operation, x)
  PROVE  (\E r : a = Accepted(r)) \/ (\E s \in Symbols : a = Rejected(s))
<1>1. CASE operation \in {"hello", "deriveIdentity", "authorRecord"}
  BY <1>1 DEF Implementation, Symbols
<1>2. CASE operation = "verifyRecord"
  BY <1>2 DEF Implementation, Symbols
<1>3. CASE operation \in {"strictEd25519", "nextTimestamp"}
  BY <1>3 DEF Implementation
<1>4. CASE operation \in {"validateCbor", "selectCurrent"}
  BY <1>4 DEF Implementation, Symbols
<1>5. QED
  BY <1>1, <1>2, <1>3, <1>4 DEF Operations

LEMMA ImplementationForm ==
  ASSUME NEW operation \in Operations, NEW x, NEW a \in Implementation(operation, x)
  PROVE  Formed(a) /\ a.protocol = "1" /\ a.caseId = "case"
BY ImplementationAnswers, AcceptedForm, RejectedForm

LEMMA Operated ==
  ASSUME NEW operation \in Operations, NEW x, NEW a \in Operate(operation, x)
  PROVE  /\ Formed(a) /\ a.protocol = "1" /\ a.caseId = "case"
         /\ a.status = "accepted" =>
              /\ a \in Implementation(operation, x)
              /\ \A i \in DOMAIN Reads(operation, x) : Passes(Reads(operation, x)[i], x)
<1> DEFINE reads == Reads(operation, x)
           stops == {i \in DOMAIN reads : ~Passes(reads[i], x)}
           first == CHOOSE i \in stops : \A j \in stops : i <= j
<1>1. CASE stops = {}
  <2>1. a \in Implementation(operation, x)
    BY <1>1 DEF Operate
  <2>2. QED
    BY <1>1, <2>1, ImplementationForm
<1>2. CASE stops # {}
  <2>1. a = Refusal(reads[first])
    BY <1>2 DEF Operate
  <2>2. QED
    BY <2>1, RefusalForm
<1>3. QED
  BY <1>1, <1>2

\* A record that is accepted was read to its end.
LEMMA Authored ==
  ASSUME NEW x, NEW a \in Operate("authorRecord", x), a.status = "accepted"
  PROVE  Record(Body(x)) = Asked(x) /\ Fits(Body(x))
<1>1. Reads("authorRecord", x) = AuthorRecord(x)
  BY DEF Reads
<1>2. \A i \in DOMAIN AuthorRecord(x) : Passes(AuthorRecord(x)[i], x)
  BY <1>1, Operated DEF Operations
<1>3. \A step \in Elems(AuthorRecord(x)) : Passes(step, x)
  <2>1. IsSequence(AuthorRecord(x))
    BY AuthorElems
  <2>2. DOMAIN AuthorRecord(x) = 1 .. Len(AuthorRecord(x))
    BY <2>1 DEF IsSequence
  <2>3. QED
    BY <1>2, <2>2 DEF Elems
<1>4. QED
  BY <1>3, RecordTrip

LEMMA Verified ==
  ASSUME NEW x, NEW a \in Operate("verifyRecord", x), a.status = "accepted"
  PROVE  authored # None /\ a.result = Record(authored.body)
<1>1. a \in Implementation("verifyRecord", x)
  BY Operated DEF Operations
<1>2. \/ a = Rejected("invalidDid") \/ a = Rejected("invalidCbor")
      \/ Verifies(x["envelope"]) /\ a = Accepted(Record(authored.body))
  BY <1>1 DEF Implementation
<1>3. QED
  BY <1>2, AcceptedForm, RejectedForm DEF Verifies, Symbols

-----------------------------------------------------------------------------
(* What a reading comes to: all its steps pass, or the first that does not *)
(* parses a DID, or the first that does not is another.                    *)

Passed(s, x) == \A i \in 1 .. Len(s) : Passes(s[i], x)
StopsAt(s, x, i) ==
  i \in 1 .. Len(s) /\ ~Passes(s[i], x) /\ \A j \in 1 .. Len(s) : j < i => Passes(s[j], x)
Stops(s, x, did) == \E i : StopsAt(s, x, i) /\ (s[i][1] = "did" <=> did)

Rejects(s, x) == Stops(s, x, TRUE)
Errs(s, x) == Stops(s, x, FALSE)

\* The reading comes to one of the three; where no DID is parsed, to one of two.
Settled(s, x) ==
  /\ IsSequence(s)
  /\ ~(Passed(s, x) /\ Rejects(s, x))
  /\ Errs(s, x) <=> ~Passed(s, x) /\ ~Rejects(s, x)
Plain(s, x) == Settled(s, x) /\ ~Rejects(s, x)

LEMMA SequenceLength ==
  ASSUME NEW s, IsSequence(s)
  PROVE  Len(s) \in Nat /\ DOMAIN s = 1 .. Len(s)
BY DEF IsSequence

LEMMA StopOrPass ==
  ASSUME NEW s, NEW x, NEW i, StopsAt(s, x, i)
  PROVE  ~Passed(s, x)
BY DEF StopsAt, Passed

LEMMA ConcatIndex ==
  ASSUME NEW s, NEW t, IsSequence(s), IsSequence(t)
  PROVE  /\ Len(s \o t) = Len(s) + Len(t)
         /\ \A i \in 1 .. Len(s) : (s \o t)[i] = s[i]
         /\ \A i \in 1 .. Len(t) : (s \o t)[Len(s) + i] = t[i]
<1> DEFINE S == Elems(s) \cup Elems(t)
<1>1. Elems(s) \subseteq S /\ Elems(t) \subseteq S
  OBVIOUS
<1> HIDE DEF S
<1>2. s \in Seq(S) /\ t \in Seq(S)
  BY <1>1 DEF IsSequence
<1>3. Len(s) \in Nat /\ Len(t) \in Nat
  BY SequenceLength
<1>4. /\ Len(s \o t) = Len(s) + Len(t)
      /\ \A i \in 1 .. Len(s) + Len(t) : (s \o t)[i] = IF i <= Len(s) THEN s[i] ELSE t[i - Len(s)]
  BY <1>2, ConcatProperties
<1>5. QED
  BY <1>3, <1>4

LEMMA ConcatPassed ==
  ASSUME NEW s, NEW t, NEW x, IsSequence(s), IsSequence(t)
  PROVE  Passed(s \o t, x) <=> Passed(s, x) /\ Passed(t, x)
<1>1. Len(s) \in Nat /\ Len(t) \in Nat
  BY SequenceLength
<1>2. ASSUME Passed(s \o t, x) PROVE Passed(s, x) /\ Passed(t, x)
  <2>1. ASSUME NEW i \in 1 .. Len(s) PROVE Passes(s[i], x)
    BY <1>1, <1>2, ConcatIndex DEF Passed
  <2>2. ASSUME NEW i \in 1 .. Len(t) PROVE Passes(t[i], x)
    <3>1. Len(s) + i \in 1 .. Len(s \o t)
      BY <1>1, ConcatIndex
    <3>2. QED
      BY <1>2, <3>1, ConcatIndex DEF Passed
  <2>3. QED
    BY <2>1, <2>2 DEF Passed
<1>3. ASSUME Passed(s, x), Passed(t, x), NEW i \in 1 .. Len(s \o t)
      PROVE  Passes((s \o t)[i], x)
  <2>1. i \in 1 .. Len(s) \/ (i - Len(s) \in 1 .. Len(t) /\ i = Len(s) + (i - Len(s)))
    BY <1>1, <1>3, ConcatIndex
  <2>2. QED
    BY <1>3, <2>1, ConcatIndex DEF Passed
<1>4. QED
  BY <1>2, <1>3 DEF Passed

\* What comes after a step that does not pass is never read.
LEMMA ConcatStops ==
  ASSUME NEW s, NEW t, NEW x, NEW did, IsSequence(s), IsSequence(t)
  PROVE  Stops(s \o t, x, did) <=> Stops(s, x, did) \/ (Passed(s, x) /\ Stops(t, x, did))
<1>1. Len(s) \in Nat /\ Len(t) \in Nat /\ Len(s \o t) = Len(s) + Len(t)
  BY SequenceLength, ConcatIndex
<1>2. ASSUME NEW i, StopsAt(s, x, i) PROVE StopsAt(s \o t, x, i) /\ (s \o t)[i] = s[i]
  <2>1. i \in 1 .. Len(s) /\ ~Passes(s[i], x) /\ \A j \in 1 .. Len(s) : j < i => Passes(s[j], x)
    BY <1>2 DEF StopsAt
  <2>2. i \in 1 .. Len(s \o t) /\ (s \o t)[i] = s[i]
    BY <1>1, <2>1, ConcatIndex
  <2>3. ASSUME NEW j \in 1 .. Len(s \o t), j < i PROVE Passes((s \o t)[j], x)
    <3>1. j \in 1 .. Len(s)
      BY <1>1, <2>1, <2>3
    <3>2. QED
      BY <2>1, <2>3, <3>1, ConcatIndex
  <2>4. QED
    BY <2>1, <2>2, <2>3 DEF StopsAt
<1>3. ASSUME NEW i, StopsAt(t, x, i), Passed(s, x)
      PROVE  StopsAt(s \o t, x, Len(s) + i) /\ (s \o t)[Len(s) + i] = t[i]
  <2>1. i \in 1 .. Len(t) /\ ~Passes(t[i], x) /\ \A j \in 1 .. Len(t) : j < i => Passes(t[j], x)
    BY <1>3 DEF StopsAt
  <2>2. Len(s) + i \in 1 .. Len(s \o t) /\ (s \o t)[Len(s) + i] = t[i]
    BY <1>1, <2>1, ConcatIndex
  <2>3. ASSUME NEW j \in 1 .. Len(s \o t), j < Len(s) + i PROVE Passes((s \o t)[j], x)
    <3>1. CASE j \in 1 .. Len(s)
      BY <1>3, <3>1, ConcatIndex DEF Passed
    <3>2. CASE j \notin 1 .. Len(s)
      <4>1. j - Len(s) \in 1 .. Len(t) /\ j - Len(s) < i /\ j = Len(s) + (j - Len(s))
        BY <1>1, <2>1, <2>3, <3>2
      <4>2. (s \o t)[j] = t[j - Len(s)]
        BY <4>1, ConcatIndex
      <4>3. QED
        BY <2>1, <4>1, <4>2
    <3>3. QED
      BY <3>1, <3>2
  <2>4. QED
    BY <2>1, <2>2, <2>3 DEF StopsAt
<1>4. ASSUME NEW i, StopsAt(s \o t, x, i)
      PROVE  \/ StopsAt(s, x, i) /\ (s \o t)[i] = s[i]
             \/ Passed(s, x) /\ StopsAt(t, x, i - Len(s)) /\ (s \o t)[i] = t[i - Len(s)]
  <2>1. i \in 1 .. Len(s \o t) /\ ~Passes((s \o t)[i], x)
    BY <1>4 DEF StopsAt
  <2>2. ASSUME NEW j \in 1 .. Len(s), j < i PROVE Passes(s[j], x)
    <3>1. j \in 1 .. Len(s \o t)
      BY <1>1
    <3>2. QED
      BY <1>4, <2>2, <3>1, ConcatIndex DEF StopsAt
  <2>3. CASE i \in 1 .. Len(s)
    BY <2>1, <2>2, <2>3, ConcatIndex DEF StopsAt
  <2>4. CASE i \notin 1 .. Len(s)
    <3>1. i - Len(s) \in 1 .. Len(t) /\ i = Len(s) + (i - Len(s)) /\ \A j \in 1 .. Len(s) : j < i
      BY <1>1, <2>1, <2>4
    <3>2. (s \o t)[i] = t[i - Len(s)] /\ Passed(s, x)
      BY <2>2, <3>1, ConcatIndex DEF Passed
    <3>3. ASSUME NEW j \in 1 .. Len(t), j < i - Len(s) PROVE Passes(t[j], x)
      <4>1. Len(s) + j \in 1 .. Len(s \o t) /\ Len(s) + j < i
        BY <1>1, <2>1, <3>3
      <4>2. (s \o t)[Len(s) + j] = t[j]
        BY ConcatIndex
      <4>3. QED
        BY <1>4, <4>1, <4>2 DEF StopsAt
    <3>4. QED
      BY <2>1, <3>1, <3>2, <3>3 DEF StopsAt
  <2>5. QED
    BY <2>3, <2>4
<1>5. ASSUME Stops(s \o t, x, did) PROVE Stops(s, x, did) \/ (Passed(s, x) /\ Stops(t, x, did))
  <2>1. PICK i : StopsAt(s \o t, x, i) /\ ((s \o t)[i][1] = "did" <=> did)
    BY <1>5 DEF Stops
  <2>2. QED
    BY <1>4, <2>1 DEF Stops
<1>6. ASSUME Stops(s, x, did) PROVE Stops(s \o t, x, did)
  <2>1. PICK i : StopsAt(s, x, i) /\ (s[i][1] = "did" <=> did)
    BY <1>6 DEF Stops
  <2>2. QED
    BY <1>2, <2>1 DEF Stops
<1>7. ASSUME Passed(s, x), Stops(t, x, did) PROVE Stops(s \o t, x, did)
  <2>1. PICK i : StopsAt(t, x, i) /\ (t[i][1] = "did" <=> did)
    BY <1>7 DEF Stops
  <2>2. QED
    BY <1>3, <1>7, <2>1 DEF Stops
<1>8. QED
  BY <1>5, <1>6, <1>7

LEMMA SettledConcat ==
  ASSUME NEW s, NEW t, NEW x, Settled(s, x), Settled(t, x)
  PROVE  /\ Settled(s \o t, x)
         /\ Passed(s \o t, x) <=> Passed(s, x) /\ Passed(t, x)
         /\ Rejects(s \o t, x) <=> Rejects(s, x) \/ (Passed(s, x) /\ Rejects(t, x))
<1>1. IsSequence(s) /\ IsSequence(t) /\ IsSequence(s \o t)
  BY ConcatElems DEF Settled
<1>2. Passed(s \o t, x) <=> Passed(s, x) /\ Passed(t, x)
  BY <1>1, ConcatPassed
<1>3. Rejects(s \o t, x) <=> Rejects(s, x) \/ (Passed(s, x) /\ Rejects(t, x))
  BY <1>1, ConcatStops DEF Rejects
<1>4. Errs(s \o t, x) <=> Errs(s, x) \/ (Passed(s, x) /\ Errs(t, x))
  BY <1>1, ConcatStops DEF Errs
<1>5. QED
  BY <1>1, <1>2, <1>3, <1>4 DEF Settled

LEMMA PlainConcat ==
  ASSUME NEW s, NEW t, NEW x, Plain(s, x), Plain(t, x)
  PROVE  /\ Plain(s \o t, x)
         /\ Passed(s \o t, x) <=> Passed(s, x) /\ Passed(t, x)
BY SettledConcat DEF Plain

LEMMA SettledStep ==
  ASSUME NEW a, NEW x
  PROVE  /\ Settled(<<a>>, x)
         /\ Passed(<<a>>, x) <=> Passes(a, x)
         /\ Rejects(<<a>>, x) <=> a[1] = "did" /\ ~Passes(a, x)
<1> DEFINE s == <<a>>
<1>1. IsSequence(s)
  BY LiteralElems
<1>2. Len(s) = 1 /\ s[1] = a
  OBVIOUS
<1> HIDE DEF s
<1>3. Passed(s, x) <=> Passes(a, x)
  BY <1>2 DEF Passed
<1>4. \A i : StopsAt(s, x, i) <=> i = 1 /\ ~Passes(a, x)
  BY <1>2 DEF StopsAt
<1>5. \A d : Stops(s, x, d) <=> ~Passes(a, x) /\ (a[1] = "did" <=> d)
  BY <1>2, <1>4 DEF Stops
<1>6. (Rejects(s, x) <=> a[1] = "did" /\ ~Passes(a, x)) /\ (Errs(s, x) <=> a[1] # "did" /\ ~Passes(a, x))
  BY <1>5 DEF Rejects, Errs
<1>7. Settled(s, x)
  BY <1>1, <1>3, <1>6 DEF Settled
<1>8. QED
  BY <1>3, <1>6, <1>7 DEF s

LEMMA PlainStep ==
  ASSUME NEW a, NEW x, a[1] # "did"
  PROVE  Plain(<<a>>, x) /\ (Passed(<<a>>, x) <=> Passes(a, x))
BY SettledStep DEF Plain

LEMMA PlainEmpty == ASSUME NEW x PROVE Plain(<<>>, x) /\ Passed(<<>>, x)
<1>1. Passed(<<>>, x) /\ \A i : ~StopsAt(<<>>, x, i)
  BY DEF Passed, StopsAt
<1>2. QED
  BY <1>1, LiteralElems DEF Plain, Settled, Stops, Rejects, Errs

\* A short reading passes if its steps do.
LEMMA PlainLiteral ==
  ASSUME NEW x, NEW a, NEW b, NEW c, NEW d, NEW e,
         a[1] # "did", b[1] # "did", c[1] # "did", d[1] # "did", e[1] # "did"
  PROVE  /\ Plain(<<a, b>>, x) /\ (Passed(<<a, b>>, x) <=> Passes(a, x) /\ Passes(b, x))
         /\ Plain(<<a, b, c>>, x)
         /\ Passed(<<a, b, c>>, x) <=> Passes(a, x) /\ Passes(b, x) /\ Passes(c, x)
         /\ Plain(<<a, b, c, d>>, x)
         /\ Passed(<<a, b, c, d>>, x) <=> Passes(a, x) /\ Passes(b, x) /\ Passes(c, x) /\ Passes(d, x)
         /\ Plain(<<a, b, c, d, e>>, x)
         /\ Passed(<<a, b, c, d, e>>, x) <=>
              Passes(a, x) /\ Passes(b, x) /\ Passes(c, x) /\ Passes(d, x) /\ Passes(e, x)
<1> DEFINE
  S == {a, b, c, d, e}
  a1 == <<a>>
  b1 == <<b>>
  c1 == <<c>>
  d1 == <<d>>
  e1 == <<e>>
  two == <<a, b>>
  three == <<a, b, c>>
  four == <<a, b, c, d>>
  five == <<a, b, c, d, e>>
<1>1. a \in S /\ b \in S /\ c \in S /\ d \in S /\ e \in S
  OBVIOUS
<1> HIDE DEF S
<1>2. two = a1 \o b1
  <2>1. a1 \in Seq(S) /\ two = Append(a1, b)
    BY <1>1
  <2>2. QED
    BY <1>1, <2>1, AppendIsConcat
<1>3. three = two \o c1
  BY <1>1
<1>4. four = three \o d1
  BY <1>1
<1>5. five = four \o e1
  BY <1>1
<1>6. /\ Plain(a1, x) /\ (Passed(a1, x) <=> Passes(a, x))
      /\ Plain(b1, x) /\ (Passed(b1, x) <=> Passes(b, x))
      /\ Plain(c1, x) /\ (Passed(c1, x) <=> Passes(c, x))
      /\ Plain(d1, x) /\ (Passed(d1, x) <=> Passes(d, x))
      /\ Plain(e1, x) /\ (Passed(e1, x) <=> Passes(e, x))
  BY PlainStep
<1> HIDE DEF a1, b1, c1, d1, e1, two, three, four, five
<1>7. Plain(two, x) /\ (Passed(two, x) <=> Passes(a, x) /\ Passes(b, x))
  BY <1>2, <1>6, PlainConcat
<1>8. Plain(three, x) /\ (Passed(three, x) <=> Passes(a, x) /\ Passes(b, x) /\ Passes(c, x))
  BY <1>3, <1>6, <1>7, PlainConcat
<1>9. /\ Plain(four, x)
      /\ Passed(four, x) <=> Passes(a, x) /\ Passes(b, x) /\ Passes(c, x) /\ Passes(d, x)
  BY <1>4, <1>6, <1>8, PlainConcat
<1>10. /\ Plain(five, x)
       /\ Passed(five, x) <=>
            Passes(a, x) /\ Passes(b, x) /\ Passes(c, x) /\ Passes(d, x) /\ Passes(e, x)
  BY <1>5, <1>6, <1>9, PlainConcat
<1>11. QED
  BY <1>7, <1>8, <1>9, <1>10 DEF two, three, four, five

-----------------------------------------------------------------------------
(* What the readers take, in the interface's words.                        *)

LEMMA Decimal ==
  ASSUME NEW v
  PROVE  /\ ParsesU64(v) <=> v \in Decimals
         /\ ParsesU64(v) => v # Null
<1>1. ASSUME ParsesU64(v) PROVE v \in Decimals
  <2>1. Value(v) \in U64 /\ v = ToString10(Value(v))
    BY <1>1 DEF ParsesU64
  <2>2. QED
    BY <2>1 DEF Decimals
<1>2. ASSUME NEW n \in U64, v = ToString10(n) PROVE ParsesU64(v) /\ v # Null
  <2>1. n \in Nat /\ n <= 2^Width - 1 /\ 2^Width \in Int
    BY <1>2, WidthAssumption DEF U64
  <2>2. v = <<"", 0, n>>
    <3>1. ~(n < 0)
      BY <2>1
    <3>2. QED
      BY <1>2, <3>1 DEF ToString10
  <2>3. n \in 0 .. 2^Width + 1
    BY <2>1
  <2>4. v \in Numerals
    BY <2>2, <2>3 DEF Numerals
  <2>5. Value(v) = n /\ v[1] # "-"
    BY <2>2 DEF Value
  <2>6. v # Null
    BY <2>2 DEF Null
  <2>7. QED
    BY <1>2, <2>4, <2>5, <2>6 DEF ParsesU64
<1>3. QED
  BY <1>1, <1>2 DEF Decimals

LEMMA Negative ==
  ASSUME NEW v
  PROVE  ParsesNint(v) <=> v \in Negatives
<1>0. 2^Width \in Int
  BY WidthAssumption
<1>1. ASSUME ParsesNint(v) PROVE v \in Negatives
  <2>1. Value(v) \in Int /\ -(2^Width) <= Value(v) /\ Value(v) < 0 /\ v = ToString10(Value(v))
    BY <1>1, NumeralValue DEF ParsesNint
  <2>2. Value(v) \in -(2^Width) .. -1
    BY <1>0, <2>1
  <2>3. QED
    BY <2>1, <2>2 DEF Negatives
<1>2. ASSUME NEW n \in -(2^Width) .. -1, v = ToString10(n) PROVE ParsesNint(v)
  <2>1. n \in Int /\ -(2^Width) <= n /\ n < 0
    BY <1>0, <1>2
  <2>2. v = <<"-", 0, -n>>
    BY <1>2, <2>1 DEF ToString10
  <2>3. -n \in 0 .. 2^Width + 1
    BY <1>0, <2>1
  <2>4. v \in Numerals
    BY <2>2, <2>3 DEF Numerals
  <2>5. Value(v) = n
    <3>1. Value(v) = -(-n)
      BY <2>2 DEF Value
    <3>2. QED
      BY <2>1, <3>1
  <2>6. QED
    BY <1>2, <2>1, <2>4, <2>5 DEF ParsesNint
<1>3. QED
  BY <1>1, <1>2 DEF Negatives

\* A limit of validateCbor is a decimal in its domain.
LEMMA Limit ==
  ASSUME NEW v, NEW max \in {MaxDepth, MaxMembers}
  PROVE  v \in UpTo(max) <=> ParsesU64(v) /\ Value(v) <= max
<1>0. 2^Width \in Int /\ max \in 0 .. 2^Width - 2
  BY WidthAssumption, DomainAssumption
<1>1. ASSUME ParsesU64(v), Value(v) <= max PROVE v \in UpTo(max)
  <2>1. Value(v) \in U64 /\ v = ToString10(Value(v))
    BY <1>1 DEF ParsesU64
  <2>2. Value(v) \in 0 .. max
    BY <1>0, <1>1, <2>1 DEF U64
  <2>3. QED
    BY <2>1, <2>2 DEF UpTo
<1>2. ASSUME NEW n \in 0 .. max, v = ToString10(n) PROVE ParsesU64(v) /\ Value(v) <= max
  <2>1. n \in U64 /\ n <= max /\ n \in Nat
    BY <1>0, <1>2 DEF U64
  <2>2. ParsesU64(v)
    BY <1>2, <2>1, Decimal DEF Decimals
  <2>3. Value(v) = n
    <3>1. ~(n < 0)
      BY <2>1
    <3>2. v = <<"", 0, n>>
      BY <1>2, <3>1 DEF ToString10
    <3>3. QED
      BY <3>2 DEF Value
  <2>4. QED
    BY <2>1, <2>2, <2>3
<1>3. QED
  BY <1>1, <1>2 DEF UpTo

LEMMA StepMeans ==
  ASSUME NEW x, NEW m
  PROVE  /\ Passes(<<"object", m>>, x) <=> x[m] = Object
         /\ Passes(<<"array", m>>, x) <=> x[m] = Array
         /\ Passes(<<"bool", m>>, x) <=> x[m] = Bool
         /\ Passes(<<"text", m>>, x) <=> IsText(x[m])
         /\ Passes(<<"present", m>>, x) <=> x[m] # Absent
         /\ Passes(<<"optText", m>>, x) <=> OptionalTextual(x[m])
         /\ Passes(<<"hex", m>>, x) <=> x[m] \in Bytes
         /\ Passes(<<"hex32", m>>, x) <=> x[m] = Hex32
         /\ Passes(<<"u64", m>>, x) <=> x[m] \in Decimals
         /\ Passes(<<"optU64", m>>, x) <=> x[m] \in Decimals \cup {Null}
         /\ Passes(<<"nint", m>>, x) <=> x[m] \in Negatives
         /\ Passes(<<"known", m>>, x) <=> x[m] = Absent
         /\ Passes(<<"did", m>>, x) <=> x[m] \in {Null, Did}
         /\ Passes(<<"authority", m>>, x) <=> x[m] \in {<<"root">>, <<"rootRevoked">>}
         /\ Passes(<<"seedName", m>>, x) <=> x[m] \in {<<"root">>, <<"revocation">>}
         /\ Passes(<<"type", m>>, x) <=> x[m] \in Types \cup Containers
         /\ Passes(<<"keyType", m>>, x) <=> x[m] \in KeyTypes
         /\ Passes(<<"sticky", m>>, x) <=> x[m] \in {<<"unknown">>, <<"root">>, <<"rootRevoked">>}
<1>1. \A r : Passes(<<r, m>>, x) <=> IF r = "coherent" THEN Coherent(x) ELSE Takes(r, x[m])
  BY DEF Passes
<1>2. /\ Passes(<<"object", m>>, x) <=> x[m] = Object
      /\ Passes(<<"array", m>>, x) <=> x[m] = Array
      /\ Passes(<<"bool", m>>, x) <=> x[m] = Bool
      /\ Passes(<<"text", m>>, x) <=> IsText(x[m])
      /\ Passes(<<"present", m>>, x) <=> x[m] # Absent
      /\ Passes(<<"optText", m>>, x) <=> OptionalTextual(x[m])
  BY <1>1 DEF Takes, OptionalTextual
<1>3. /\ Passes(<<"hex", m>>, x) <=> x[m] \in Bytes
      /\ Passes(<<"hex32", m>>, x) <=> x[m] = Hex32
      /\ Passes(<<"known", m>>, x) <=> x[m] = Absent
      /\ Passes(<<"did", m>>, x) <=> x[m] \in {Null, Did}
      /\ Passes(<<"authority", m>>, x) <=> x[m] \in {<<"root">>, <<"rootRevoked">>}
      /\ Passes(<<"seedName", m>>, x) <=> x[m] \in {<<"root">>, <<"revocation">>}
  BY <1>1 DEF Takes
<1>4. /\ Passes(<<"type", m>>, x) <=> x[m] \in Types \cup Containers
      /\ Passes(<<"keyType", m>>, x) <=> x[m] \in KeyTypes
      /\ Passes(<<"sticky", m>>, x) <=> x[m] \in {<<"unknown">>, <<"root">>, <<"rootRevoked">>}
  BY <1>1 DEF Takes, Containers
<1>5. /\ Passes(<<"u64", m>>, x) <=> ParsesU64(x[m])
      /\ Passes(<<"optU64", m>>, x) <=> x[m] = Null \/ ParsesU64(x[m])
      /\ Passes(<<"nint", m>>, x) <=> ParsesNint(x[m])
  BY <1>1 DEF Takes
<1>6. /\ Passes(<<"u64", m>>, x) <=> x[m] \in Decimals
      /\ Passes(<<"optU64", m>>, x) <=> x[m] \in Decimals \cup {Null}
      /\ Passes(<<"nint", m>>, x) <=> x[m] \in Negatives
  BY <1>5, Decimal, Negative
<1>7. QED
  BY <1>2, <1>3, <1>4, <1>6

-----------------------------------------------------------------------------
(* What each part of a request comes to, without its order.                *)

LEMMA ScalarMeans ==
  ASSUME NEW p, NEW x
  PROVE  /\ Scalar(p, x)[1] # "did"
         /\ Passes(Scalar(p, x), x) <=> Fitting(x[p \o ".type"], x[p \o ".value"])
<1> DEFINE type == x[p \o ".type"]
           m == p \o ".value"
           v == x[m]
           s == Scalar(p, x)
<1>0. /\ Passes(<<"u64", m>>, x) <=> v \in Decimals
      /\ Passes(<<"nint", m>>, x) <=> v \in Negatives
      /\ Passes(<<"hex", m>>, x) <=> v \in Bytes
      /\ Passes(<<"text", m>>, x) <=> IsText(v)
      /\ Passes(<<"bool", m>>, x) <=> v = Bool
      /\ Passes(<<"known", m>>, x) <=> v = Absent
      /\ Passes(<<"array", m>>, x) <=> v = Array
  BY StepMeans
<1>1. \E r \in {"u64", "nint", "hex", "text", "bool", "known", "array"} : s = <<r, m>>
  BY DEF Scalar
<1>2. type = <<"uint">> => s = <<"u64", m>> /\ (Fitting(type, v) <=> v \in Decimals)
  BY DEF Scalar, Fitting
<1>3. type = <<"nint">> => s = <<"nint", m>> /\ (Fitting(type, v) <=> v \in Negatives)
  BY DEF Scalar, Fitting
<1>4. type = <<"bytes">> => s = <<"hex", m>> /\ (Fitting(type, v) <=> v \in Bytes)
  BY DEF Scalar, Fitting
<1>5. type = <<"textType">> => s = <<"text", m>> /\ (Fitting(type, v) <=> IsText(v))
  BY DEF Scalar, Fitting
<1>6. type = <<"boolType">> => s = <<"bool", m>> /\ (Fitting(type, v) <=> v = Bool)
  BY DEF Scalar, Fitting
<1>7. type = <<"nullType">> => s = <<"known", m>> /\ (Fitting(type, v) <=> v = Absent)
  BY DEF Scalar, Fitting
<1>8. type \notin {<<"uint">>, <<"nint">>, <<"bytes">>, <<"textType">>, <<"boolType">>, <<"nullType">>} =>
        s = <<"array", m>> /\ (Fitting(type, v) <=> v = Array)
  BY DEF Scalar, Fitting
<1>9. s[1] # "did"
  <2> HIDE DEF s, m
  <2>1. QED
    BY <1>1
<1>10. Passes(s, x) <=> Fitting(type, v)
  <2> HIDE DEF s, m, v, type
  <2>1. QED
    BY <1>0, <1>2, <1>3, <1>4, <1>5, <1>6, <1>7, <1>8
<1>11. QED
  BY <1>9, <1>10

LEMMA ScalarsMeans ==
  ASSUME NEW p, NEW x
  PROVE  /\ Plain(Scalars("type", p, x), x)
         /\ Passed(Scalars("type", p, x), x) <=> ScalarAllowed(Types \cup Containers, p, x)
         /\ Plain(Scalars("keyType", p, x), x)
         /\ Passed(Scalars("keyType", p, x), x) <=> ScalarAllowed(KeyTypes, p, x)
<1> DEFINE a == <<"object", p>>
           t == <<"type", p \o ".type">>
           k == <<"keyType", p \o ".type">>
           c == Scalar(p, x)
           d == <<"known", p \o ".*">>
<1>1. Scalars("type", p, x) = <<a, t, c, d>> /\ Scalars("keyType", p, x) = <<a, k, c, d>>
  BY DEF Scalars
<1>2. /\ Passes(a, x) <=> x[p] = Object
      /\ Passes(t, x) <=> x[p \o ".type"] \in Types \cup Containers
      /\ Passes(k, x) <=> x[p \o ".type"] \in KeyTypes
      /\ Passes(c, x) <=> Fitting(x[p \o ".type"], x[p \o ".value"])
      /\ Passes(d, x) <=> x[p \o ".*"] = Absent
  BY StepMeans, ScalarMeans
<1>3. a[1] # "did" /\ t[1] # "did" /\ k[1] # "did" /\ c[1] # "did" /\ d[1] # "did"
  BY ScalarMeans
<1> HIDE DEF a, t, k, c, d
<1>4. /\ Plain(<<a, t, c, d>>, x)
      /\ Passed(<<a, t, c, d>>, x) <=> Passes(a, x) /\ Passes(t, x) /\ Passes(c, x) /\ Passes(d, x)
  BY <1>3, PlainLiteral
<1>5. /\ Plain(<<a, k, c, d>>, x)
      /\ Passed(<<a, k, c, d>>, x) <=> Passes(a, x) /\ Passes(k, x) /\ Passes(c, x) /\ Passes(d, x)
  BY <1>3, PlainLiteral
<1>6. QED
  BY <1>1, <1>2, <1>4, <1>5 DEF ScalarAllowed

\* One member that must be an object, an array, a text, or not there.
LEMMA ShortMeans ==
  ASSUME NEW x, NEW m
  PROVE  /\ Plain(<<<<"object", m>>>>, x) /\ (Passed(<<<<"object", m>>>>, x) <=> x[m] = Object)
         /\ Plain(<<<<"array", m>>>>, x) /\ (Passed(<<<<"array", m>>>>, x) <=> x[m] = Array)
         /\ Plain(<<<<"text", m>>>>, x) /\ (Passed(<<<<"text", m>>>>, x) <=> IsText(x[m]))
         /\ Plain(<<<<"hex", m>>>>, x) /\ (Passed(<<<<"hex", m>>>>, x) <=> x[m] \in Bytes)
         /\ Plain(<<<<"present", m>>>>, x) /\ (Passed(<<<<"present", m>>>>, x) <=> x[m] # Absent)
         /\ Plain(<<<<"known", m>>>>, x) /\ (Passed(<<<<"known", m>>>>, x) <=> x[m] = Absent)
<1>1. \A r : r # "did" => Plain(<<<<r, m>>>>, x) /\ (Passed(<<<<r, m>>>>, x) <=> Passes(<<r, m>>, x))
  <2>1. ASSUME NEW r, r # "did"
        PROVE  Plain(<<<<r, m>>>>, x) /\ (Passed(<<<<r, m>>>>, x) <=> Passes(<<r, m>>, x))
    <3> DEFINE a == <<r, m>>
    <3>1. a[1] # "did"
      BY <2>1
    <3> HIDE DEF a
    <3>2. Plain(<<a>>, x) /\ (Passed(<<a>>, x) <=> Passes(a, x))
      BY <3>1, PlainStep
    <3>3. QED
      BY <3>2 DEF a
  <2>2. QED
    BY <2>1
<1>2. /\ Passes(<<"object", m>>, x) <=> x[m] = Object
      /\ Passes(<<"array", m>>, x) <=> x[m] = Array
      /\ Passes(<<"text", m>>, x) <=> IsText(x[m])
      /\ Passes(<<"hex", m>>, x) <=> x[m] \in Bytes
      /\ Passes(<<"present", m>>, x) <=> x[m] # Absent
      /\ Passes(<<"known", m>>, x) <=> x[m] = Absent
  BY StepMeans
<1>3. QED
  BY <1>1, <1>2

LEMMA TypedMeans ==
  ASSUME NEW p, NEW x
  PROVE  Plain(Typed(p, x), x) /\ (Passed(Typed(p, x), x) <=> TypedAllowed(p, x))
<1> DEFINE
  type == x[p \o ".type"]
  array == Scalars("type", p \o ".item", x)
  key == Scalars("keyType", p \o ".key", x)
  entry == <<<<"object", p \o ".entry">>>>
  rest == <<<<"known", p \o ".entry.*">>>>
  map == entry \o key \o array \o rest
  items == CASE type = <<"arrayType">> -> array
             [] type = <<"mapType">> -> map
             [] OTHER -> <<>>
  head == <<<<"object", p>>, <<"type", p \o ".type">>, Scalar(p, x)>>
  tail == <<<<"known", p \o ".*">>>>
  arrayOK == ScalarAllowed(Types \cup Containers, p \o ".item", x)
  keyOK == ScalarAllowed(KeyTypes, p \o ".key", x)
<1>1. Typed(p, x) = head \o items \o tail
  BY DEF Typed
<1>2. /\ Plain(head, x)
      /\ Passed(head, x) <=> /\ x[p] = Object /\ type \in Types \cup Containers
                             /\ Fitting(type, x[p \o ".value"])
  <2> DEFINE a == <<"object", p>>
             b == <<"type", p \o ".type">>
             c == Scalar(p, x)
  <2>1. a[1] # "did" /\ b[1] # "did" /\ c[1] # "did" /\ head = <<a, b, c>>
    BY ScalarMeans
  <2>2. /\ Passes(a, x) <=> x[p] = Object
        /\ Passes(b, x) <=> type \in Types \cup Containers
        /\ Passes(c, x) <=> Fitting(type, x[p \o ".value"])
    BY StepMeans, ScalarMeans
  <2> HIDE DEF a, b, c, head
  <2>3. Plain(<<a, b, c>>, x) /\ (Passed(<<a, b, c>>, x) <=> Passes(a, x) /\ Passes(b, x) /\ Passes(c, x))
    BY <2>1, PlainLiteral
  <2>4. QED
    BY <2>1, <2>2, <2>3
<1>3. /\ Plain(entry, x) /\ (Passed(entry, x) <=> x[p \o ".entry"] = Object)
      /\ Plain(rest, x) /\ (Passed(rest, x) <=> x[p \o ".entry.*"] = Absent)
      /\ Plain(tail, x) /\ (Passed(tail, x) <=> x[p \o ".*"] = Absent)
  BY ShortMeans
<1>4. Plain(array, x) /\ (Passed(array, x) <=> arrayOK) /\ Plain(key, x) /\ (Passed(key, x) <=> keyOK)
  BY ScalarsMeans
<1>5. type \in Containers <=> type = <<"arrayType">> \/ type = <<"mapType">>
  BY DEF Containers
<1>6. TypedAllowed(p, x) <=>
        /\ x[p] = Object /\ type \in Types \cup Containers /\ Fitting(type, x[p \o ".value"])
        /\ x[p \o ".*"] = Absent
        /\ type \in Containers => arrayOK
        /\ type = <<"mapType">> => x[p \o ".entry"] = Object /\ x[p \o ".entry.*"] = Absent /\ keyOK
  BY DEF TypedAllowed, ScalarAllowed
<1> HIDE DEF array, key, entry, rest, head, tail, arrayOK, keyOK
<1>7. /\ Plain(map, x)
      /\ Passed(map, x) <=> x[p \o ".entry"] = Object /\ keyOK /\ arrayOK /\ x[p \o ".entry.*"] = Absent
  <2>1. Plain(entry \o key, x) /\ (Passed(entry \o key, x) <=> Passed(entry, x) /\ Passed(key, x))
    BY <1>3, <1>4, PlainConcat
  <2>2. /\ Plain(entry \o key \o array, x)
        /\ Passed(entry \o key \o array, x) <=> Passed(entry \o key, x) /\ Passed(array, x)
    BY <1>4, <2>1, PlainConcat
  <2>3. Plain(map, x) /\ (Passed(map, x) <=> Passed(entry \o key \o array, x) /\ Passed(rest, x))
    BY <1>3, <2>2, PlainConcat
  <2>4. QED
    BY <1>3, <1>4, <2>1, <2>2, <2>3
<1> HIDE DEF map
<1>8. /\ Plain(items, x)
      /\ Passed(items, x) <=>
           /\ type \in Containers => arrayOK
           /\ type = <<"mapType">> => x[p \o ".entry"] = Object /\ x[p \o ".entry.*"] = Absent /\ keyOK
  <2>1. CASE type = <<"arrayType">>
    <3>1. items = array /\ type # <<"mapType">>
      BY <2>1
    <3> HIDE DEF items
    <3>2. QED
      BY <1>4, <1>5, <2>1, <3>1
  <2>2. CASE type = <<"mapType">>
    <3>1. items = map
      BY <2>2
    <3>2. QED
      BY <1>5, <1>7, <2>2, <3>1
  <2>3. CASE type # <<"arrayType">> /\ type # <<"mapType">>
    <3>1. items = <<>>
      BY <2>3
    <3>2. QED
      BY <1>5, <2>3, <3>1, PlainEmpty
  <2>4. QED
    BY <2>1, <2>2, <2>3
<1> HIDE DEF items
<1>9. Plain(head \o items, x) /\ (Passed(head \o items, x) <=> Passed(head, x) /\ Passed(items, x))
  BY <1>2, <1>8, PlainConcat
<1>10. /\ Plain(head \o items \o tail, x)
       /\ Passed(head \o items \o tail, x) <=> Passed(head \o items, x) /\ Passed(tail, x)
  BY <1>3, <1>9, PlainConcat
<1>11. QED
  BY <1>1, <1>2, <1>3, <1>6, <1>8, <1>9, <1>10

LEMMA ExtensionsMean ==
  ASSUME NEW p, NEW x
  PROVE  /\ Plain(ExtensionMap(p, x), x)
         /\ Passed(ExtensionMap(p, x), x) <=> ExtensionsAllowed(p, x)
<1> DEFINE head == <<<<"object", p>>>>
           rest == IF x[p \o ".x"] = Absent THEN <<>> ELSE Typed(p \o ".x", x)
<1>1. ExtensionMap(p, x) = head \o rest
  BY DEF ExtensionMap
<1>2. Plain(head, x) /\ (Passed(head, x) <=> x[p] = Object)
  BY ShortMeans
<1>3. Plain(rest, x) /\ (Passed(rest, x) <=> x[p \o ".x"] = Absent \/ TypedAllowed(p \o ".x", x))
  <2>1. CASE x[p \o ".x"] = Absent
    BY <2>1, PlainEmpty
  <2>2. CASE x[p \o ".x"] # Absent
    <3>1. rest = Typed(p \o ".x", x)
      BY <2>2
    <3>2. QED
      BY <2>2, <3>1, TypedMeans
  <2>3. QED
    BY <2>1, <2>2
<1> HIDE DEF head, rest
<1>4. QED
  BY <1>1, <1>2, <1>3, PlainConcat DEF ExtensionsAllowed

LEMMA ServiceMeans ==
  ASSUME NEW x
  PROVE  Plain(Service(x), x) /\ (Passed(Service(x), x) <=> ServiceAllowed(x))
<1>1. CASE x["service"] = Absent
  <2>1. Service(x) = <<>>
    BY <1>1 DEF Service
  <2>2. QED
    BY <1>1, <2>1, PlainEmpty DEF ServiceAllowed
<1>2. CASE x["service"] # Absent
  <2> DEFINE a == <<"object", "service">>
             b == <<"text", "endpoint">>
             c == <<"optText", "label">>
             d == <<"known", "service.*">>
  <2>1. Service(x) = <<a, b, c, d>>
    BY <1>2 DEF Service
  <2>2. a[1] # "did" /\ b[1] # "did" /\ c[1] # "did" /\ d[1] # "did"
    OBVIOUS
  <2>3. /\ Passes(a, x) <=> x["service"] = Object
        /\ Passes(b, x) <=> IsText(x["endpoint"])
        /\ Passes(c, x) <=> OptionalTextual(x["label"])
        /\ Passes(d, x) <=> x["service.*"] = Absent
    BY StepMeans
  <2> HIDE DEF a, b, c, d
  <2>4. /\ Plain(<<a, b, c, d>>, x)
        /\ Passed(<<a, b, c, d>>, x) <=> Passes(a, x) /\ Passes(b, x) /\ Passes(c, x) /\ Passes(d, x)
    BY <2>2, PlainLiteral
  <2>5. QED
    BY <1>2, <2>1, <2>3, <2>4 DEF ServiceAllowed
<1>3. QED
  BY <1>1, <1>2

BadMigration(x) ==
  x["migration"] = Object /\ ~({x["predecessor"], x["successor"]} \subseteq {Null, Did})

LEMMA MigrationMeans ==
  ASSUME NEW x
  PROVE  /\ Settled(Migration(x), x)
         /\ Passed(Migration(x), x) <=> MigrationAllowed(x) /\ ~BadMigration(x)
         /\ Rejects(Migration(x), x) <=> MigrationAllowed(x) /\ BadMigration(x)
<1>0. Null # Object
  BY DEF Null, Object
<1>1. CASE x["migration"] = Null
  <2>1. Migration(x) = <<>>
    BY <1>1 DEF Migration
  <2>2. MigrationAllowed(x) /\ ~BadMigration(x)
    BY <1>0, <1>1 DEF MigrationAllowed, BadMigration
  <2>3. QED
    BY <2>1, <2>2, PlainEmpty DEF Plain
<1>2. CASE x["migration"] # Null
  <2> DEFINE
    a == <<"object", "migration">>
    b == <<"optText", "predecessor">>
    c == <<"optText", "successor">>
    d == <<"known", "migration.*">>
    e == <<"did", "predecessor">>
    f == <<"did", "successor">>
    texts == <<a, b, c, d>>
    first == <<e>>
    second == <<f>>
  <2>1. Migration(x) = <<a, b, c, d, e, f>>
    BY <1>2 DEF Migration
  <2>2. a[1] # "did" /\ b[1] # "did" /\ c[1] # "did" /\ d[1] # "did" /\ e[1] = "did" /\ f[1] = "did"
    OBVIOUS
  <2>3. /\ Passes(a, x) <=> x["migration"] = Object
        /\ Passes(b, x) <=> OptionalTextual(x["predecessor"])
        /\ Passes(c, x) <=> OptionalTextual(x["successor"])
        /\ Passes(d, x) <=> x["migration.*"] = Absent
        /\ Passes(e, x) <=> x["predecessor"] \in {Null, Did}
        /\ Passes(f, x) <=> x["successor"] \in {Null, Did}
    BY StepMeans
  <2> HIDE DEF a, b, c, d, e, f
  <2>4. Migration(x) = texts \o first \o second
    <3> DEFINE S == {a, b, c, d, e, f}
               five == <<a, b, c, d, e>>
    <3>1. a \in S /\ b \in S /\ c \in S /\ d \in S /\ e \in S /\ f \in S
      OBVIOUS
    <3> HIDE DEF S
    <3>2. five = texts \o first
      BY <3>1
    <3>3. Migration(x) = five \o second
      BY <2>1, <3>1
    <3>4. QED
      BY <3>2, <3>3
  <2>5. /\ Plain(texts, x)
        /\ Passed(texts, x) <=> Passes(a, x) /\ Passes(b, x) /\ Passes(c, x) /\ Passes(d, x)
    BY <2>2, PlainLiteral
  <2>6. /\ Settled(first, x) /\ (Passed(first, x) <=> Passes(e, x))
        /\ Rejects(first, x) <=> ~Passes(e, x)
        /\ Settled(second, x) /\ (Passed(second, x) <=> Passes(f, x))
        /\ Rejects(second, x) <=> ~Passes(f, x)
    BY <2>2, SettledStep
  <2> HIDE DEF texts, first, second
  <2>7. /\ Settled(texts \o first, x)
        /\ Passed(texts \o first, x) <=> Passed(texts, x) /\ Passes(e, x)
        /\ Rejects(texts \o first, x) <=> Passed(texts, x) /\ ~Passes(e, x)
    BY <2>5, <2>6, SettledConcat DEF Plain
  <2>8. /\ Settled(Migration(x), x)
        /\ Passed(Migration(x), x) <=> Passed(texts, x) /\ Passes(e, x) /\ Passes(f, x)
        /\ Rejects(Migration(x), x) <=> Passed(texts, x) /\ ~(Passes(e, x) /\ Passes(f, x))
    BY <2>4, <2>6, <2>7, SettledConcat
  <2>9. Passed(texts, x) <=> MigrationAllowed(x)
    BY <1>2, <2>3, <2>5 DEF MigrationAllowed
  <2>10. Passed(texts, x) => (Passes(e, x) /\ Passes(f, x) <=> ~BadMigration(x))
    BY <2>3, <2>5 DEF BadMigration
  <2>11. QED
    BY <2>8, <2>9, <2>10
<1>3. QED
  BY <1>1, <1>2

LEMMA AliasMeans ==
  ASSUME NEW x
  PROVE  LET s == IF x["alias"] = Absent THEN <<>> ELSE <<<<"text", "alias">>>>
         IN  Plain(s, x) /\ (Passed(s, x) <=> x["alias"] = Absent \/ IsText(x["alias"]))
<1>1. CASE x["alias"] = Absent
  BY <1>1, PlainEmpty
<1>2. CASE x["alias"] # Absent
  <2> DEFINE s == <<<<"text", "alias">>>>
  <2>1. Plain(s, x) /\ (Passed(s, x) <=> IsText(x["alias"]))
    BY ShortMeans
  <2> HIDE DEF s
  <2>2. QED
    BY <1>2, <2>1 DEF s
<1>3. QED
  BY <1>1, <1>2

LEMMA ContactMeans ==
  ASSUME NEW x
  PROVE  LET rest == ExtensionsAllowed("contact.extensions", x) /\ x["contact.*"] = Absent
         IN  /\ Settled(Contact(x), x)
             /\ Passed(Contact(x), x) <=> ContactAllowed(x) /\ ~BadMigration(x) /\ rest
             /\ Rejects(Contact(x), x) <=> ContactAllowed(x) /\ BadMigration(x)
<1> DEFINE
  a == <<<<"object", "contact">>, <<"optText", "displayName">>, <<"array", "alsoKnownAs">>>>
  b == IF x["alias"] = Absent THEN <<>> ELSE <<<<"text", "alias">>>>
  c == <<<<"array", "services">>>>
  d == <<<<"present", "migration">>>>
  e == ExtensionMap("contact.extensions", x)
  f == <<<<"known", "contact.*">>>>
  service == Service(x)
  migration == Migration(x)
  named == x["contact"] = Object /\ OptionalTextual(x["displayName"]) /\ x["alsoKnownAs"] = Array
  alias == x["alias"] = Absent \/ IsText(x["alias"])
  allowed == ExtensionsAllowed("contact.extensions", x)
<1>1. Contact(x) = a \o b \o c \o service \o d \o migration \o e \o f
  BY DEF Contact
<1>2. Plain(a, x) /\ (Passed(a, x) <=> named)
  <2> DEFINE i == <<"object", "contact">>
             j == <<"optText", "displayName">>
             k == <<"array", "alsoKnownAs">>
  <2>1. a = <<i, j, k>> /\ i[1] # "did" /\ j[1] # "did" /\ k[1] # "did"
    OBVIOUS
  <2>2. (Passes(i, x) /\ Passes(j, x) /\ Passes(k, x)) <=> named
    BY StepMeans
  <2> HIDE DEF i, j, k, a, named
  <2>3. Plain(<<i, j, k>>, x) /\ (Passed(<<i, j, k>>, x) <=> Passes(i, x) /\ Passes(j, x) /\ Passes(k, x))
    BY <2>1, PlainLiteral
  <2>4. QED
    BY <2>1, <2>2, <2>3
<1>3. Plain(b, x) /\ (Passed(b, x) <=> alias)
  BY AliasMeans
<1>4. Plain(c, x) /\ (Passed(c, x) <=> x["services"] = Array)
  BY ShortMeans
<1>5. Plain(d, x) /\ (Passed(d, x) <=> x["migration"] # Absent)
  BY ShortMeans
<1>6. Plain(e, x) /\ (Passed(e, x) <=> allowed)
  BY ExtensionsMean
<1>7. Plain(f, x) /\ (Passed(f, x) <=> x["contact.*"] = Absent)
  BY ShortMeans
<1>8. Plain(service, x) /\ (Passed(service, x) <=> ServiceAllowed(x))
  BY ServiceMeans
<1>9. /\ Settled(migration, x)
      /\ Passed(migration, x) <=> MigrationAllowed(x) /\ ~BadMigration(x)
      /\ Rejects(migration, x) <=> MigrationAllowed(x) /\ BadMigration(x)
  BY MigrationMeans
<1>10. MigrationAllowed(x) => x["migration"] # Absent
  BY DEF MigrationAllowed, Null, Object, Absent
<1>11. ContactAllowed(x) <=>
         named /\ alias /\ x["services"] = Array /\ ServiceAllowed(x) /\ MigrationAllowed(x)
  BY DEF ContactAllowed
<1> HIDE DEF a, b, c, d, e, f, service, migration, named, alias, allowed
<1> DEFINE
  ab == a \o b
  abc == ab \o c
  abcs == abc \o service
  before == abcs \o d
  midway == before \o migration
  after == midway \o e
<1>12. Plain(ab, x) /\ (Passed(ab, x) <=> named /\ alias)
  BY <1>2, <1>3, PlainConcat
<1> HIDE DEF ab
<1>13. Plain(abc, x) /\ (Passed(abc, x) <=> named /\ alias /\ x["services"] = Array)
  BY <1>4, <1>12, PlainConcat
<1> HIDE DEF abc
<1>14. /\ Plain(abcs, x)
       /\ Passed(abcs, x) <=> named /\ alias /\ x["services"] = Array /\ ServiceAllowed(x)
  BY <1>8, <1>13, PlainConcat
<1> HIDE DEF abcs
<1>15. /\ Plain(before, x)
       /\ Passed(before, x) <=>
            named /\ alias /\ x["services"] = Array /\ ServiceAllowed(x) /\ x["migration"] # Absent
  BY <1>5, <1>14, PlainConcat
<1> HIDE DEF before
<1>16. /\ Settled(midway, x)
       /\ Passed(midway, x) <=> ContactAllowed(x) /\ ~BadMigration(x)
       /\ Rejects(midway, x) <=> ContactAllowed(x) /\ BadMigration(x)
  <2>1. /\ Settled(midway, x)
        /\ Passed(midway, x) <=> Passed(before, x) /\ Passed(migration, x)
        /\ Rejects(midway, x) <=> Passed(before, x) /\ Rejects(migration, x)
    BY <1>9, <1>15, SettledConcat DEF Plain
  <2>2. QED
    BY <1>9, <1>10, <1>11, <1>15, <2>1
<1> HIDE DEF midway
<1>17. /\ Settled(after, x)
       /\ Passed(after, x) <=> ContactAllowed(x) /\ ~BadMigration(x) /\ allowed
       /\ Rejects(after, x) <=> ContactAllowed(x) /\ BadMigration(x)
  BY <1>6, <1>16, SettledConcat DEF Plain
<1> HIDE DEF after
<1>18. /\ Settled(after \o f, x)
       /\ Passed(after \o f, x) <=>
            ContactAllowed(x) /\ ~BadMigration(x) /\ allowed /\ x["contact.*"] = Absent
       /\ Rejects(after \o f, x) <=> ContactAllowed(x) /\ BadMigration(x)
  BY <1>7, <1>17, SettledConcat DEF Plain
<1>19. Contact(x) = after \o f
  BY <1>1 DEF after, midway, before, abcs, abc, ab
<1>20. QED
  BY <1>18, <1>19 DEF allowed

LEMMA FieldsMean ==
  ASSUME NEW s, NEW x, Settled(s, x)
  PROVE  /\ Settled(Fields(s), x)
         /\ Passed(Fields(s), x) <=> x["input"] = Object /\ Passed(s, x) /\ x["input.*"] = Absent
         /\ Rejects(Fields(s), x) <=> x["input"] = Object /\ Rejects(s, x)
<1> DEFINE head == <<<<"object", "input">>>>
           tail == <<<<"known", "input.*">>>>
           most == head \o s
<1>1. Fields(s) = most \o tail
  BY DEF Fields
<1>2. /\ Plain(head, x) /\ (Passed(head, x) <=> x["input"] = Object)
      /\ Plain(tail, x) /\ (Passed(tail, x) <=> x["input.*"] = Absent)
  BY ShortMeans
<1> HIDE DEF head, tail
<1>3. /\ Settled(most, x)
      /\ Passed(most, x) <=> x["input"] = Object /\ Passed(s, x)
      /\ Rejects(most, x) <=> x["input"] = Object /\ Rejects(s, x)
  BY <1>2, SettledConcat DEF Plain
<1> HIDE DEF most
<1>4. QED
  BY <1>1, <1>2, <1>3, SettledConcat DEF Plain

LEMMA PlainFieldsMean ==
  ASSUME NEW s, NEW x, Plain(s, x)
  PROVE  /\ Plain(Fields(s), x)
         /\ Passed(Fields(s), x) <=> x["input"] = Object /\ Passed(s, x) /\ x["input.*"] = Absent
BY FieldsMean DEF Plain

\* The reading of each operation, against the interface's account of its members.
Accounts(operation, x) ==
  LET reads == Reads(operation, x)
  IN  /\ Settled(reads, x)
      /\ Passed(reads, x) <=>
           Early(operation, x) /\ Late(operation, x) /\ ~BadDid(operation, x)
      /\ Rejects(reads, x) <=> Early(operation, x) /\ BadDid(operation, x)

LEMMA PlainAccounts ==
  ASSUME NEW operation \in Operations \ {"authorRecord", "selectCurrent"}, NEW x,
         Plain(Reads(operation, x), x), Passed(Reads(operation, x), x) <=> Early(operation, x)
  PROVE  Accounts(operation, x)
<1>1. Late(operation, x) /\ ~BadDid(operation, x)
  BY DEF Late, BadDid
<1>2. QED
  BY <1>1 DEF Accounts, Plain

LEMMA HelloAccounts == ASSUME NEW x PROVE Accounts("hello", x)
<1>1. Reads("hello", x) = Fields(<<>>)
  BY DEF Reads
<1>2. /\ Plain(Reads("hello", x), x)
      /\ Passed(Reads("hello", x), x) <=> x["input"] = Object /\ x["input.*"] = Absent
  BY <1>1, PlainEmpty, PlainFieldsMean
<1>3. Early("hello", x) <=> x["input"] = Object /\ x["input.*"] = Absent
  BY DEF Early
<1>4. QED
  BY <1>2, <1>3, PlainAccounts DEF Operations

LEMMA DeriveAccounts == ASSUME NEW x PROVE Accounts("deriveIdentity", x)
<1> DEFINE
  a == <<"hex32", "rootSeed">>
  b == <<"hex32", "revocationSeed">>
  s == <<a, b>>
  allowed == x["rootSeed"] = Hex32 /\ x["revocationSeed"] = Hex32
<1>1. Reads("deriveIdentity", x) = Fields(s)
  BY DEF Reads, DeriveIdentity
<1>2. a[1] # "did" /\ b[1] # "did"
  OBVIOUS
<1>3. Passes(a, x) /\ Passes(b, x) <=> allowed
  BY StepMeans
<1>4. Early("deriveIdentity", x) <=> x["input"] = Object /\ allowed /\ x["input.*"] = Absent
  BY DEF Early
<1> HIDE DEF a, b, allowed
<1>5. Plain(s, x) /\ (Passed(s, x) <=> Passes(a, x) /\ Passes(b, x))
  BY <1>2, PlainLiteral
<1> HIDE DEF s
<1>6. QED
  BY <1>1, <1>3, <1>4, <1>5, PlainFieldsMean, PlainAccounts DEF Operations

LEMMA VerifyAccounts == ASSUME NEW x PROVE Accounts("verifyRecord", x)
<1> DEFINE
  a == <<"text", "targetDid">>
  b == <<"hex", "envelope">>
  c == <<"u64", "nowMs">>
  s == <<a, b, c>>
  allowed == IsText(x["targetDid"]) /\ x["envelope"] \in Bytes /\ x["nowMs"] \in Decimals
<1>1. Reads("verifyRecord", x) = Fields(s)
  BY DEF Reads, VerifyRecord
<1>2. a[1] # "did" /\ b[1] # "did" /\ c[1] # "did"
  OBVIOUS
<1>3. Passes(a, x) /\ Passes(b, x) /\ Passes(c, x) <=> allowed
  BY StepMeans
<1>4. Early("verifyRecord", x) <=> x["input"] = Object /\ allowed /\ x["input.*"] = Absent
  BY DEF Early
<1> HIDE DEF a, b, c, allowed
<1>5. Plain(s, x) /\ (Passed(s, x) <=> Passes(a, x) /\ Passes(b, x) /\ Passes(c, x))
  BY <1>2, PlainLiteral
<1> HIDE DEF s
<1>6. QED
  BY <1>1, <1>3, <1>4, <1>5, PlainFieldsMean, PlainAccounts DEF Operations

LEMMA StrictAccounts == ASSUME NEW x PROVE Accounts("strictEd25519", x)
<1> DEFINE
  a == <<"hex", "publicKey">>
  b == <<"hex", "message">>
  c == <<"hex", "signature">>
  s == <<a, b, c>>
  allowed == {x["publicKey"], x["message"], x["signature"]} \subseteq Bytes
<1>1. Reads("strictEd25519", x) = Fields(s)
  BY DEF Reads, StrictEd25519
<1>2. a[1] # "did" /\ b[1] # "did" /\ c[1] # "did"
  OBVIOUS
<1>3. Passes(a, x) /\ Passes(b, x) /\ Passes(c, x) <=> allowed
  BY StepMeans
<1>4. Early("strictEd25519", x) <=> x["input"] = Object /\ allowed /\ x["input.*"] = Absent
  BY DEF Early
<1> HIDE DEF a, b, c, allowed
<1>5. Plain(s, x) /\ (Passed(s, x) <=> Passes(a, x) /\ Passes(b, x) /\ Passes(c, x))
  BY <1>2, PlainLiteral
<1> HIDE DEF s
<1>6. QED
  BY <1>1, <1>3, <1>4, <1>5, PlainFieldsMean, PlainAccounts DEF Operations

LEMMA TimestampAccounts == ASSUME NEW x PROVE Accounts("nextTimestamp", x)
<1> DEFINE
  a == <<"u64", "nowMs">>
  b == <<"optU64", "previousTimestampMs">>
  s == <<a, b>>
  allowed == x["nowMs"] \in Decimals /\ x["previousTimestampMs"] \in Decimals \cup {Null}
<1>1. Reads("nextTimestamp", x) = Fields(s)
  BY DEF Reads, NextTimestampOp
<1>2. a[1] # "did" /\ b[1] # "did"
  OBVIOUS
<1>3. Passes(a, x) /\ Passes(b, x) <=> allowed
  BY StepMeans
<1>4. Early("nextTimestamp", x) <=> x["input"] = Object /\ allowed /\ x["input.*"] = Absent
  BY DEF Early
<1> HIDE DEF a, b, allowed
<1>5. Plain(s, x) /\ (Passed(s, x) <=> Passes(a, x) /\ Passes(b, x))
  BY <1>2, PlainLiteral
<1> HIDE DEF s
<1>6. QED
  BY <1>1, <1>3, <1>4, <1>5, PlainFieldsMean, PlainAccounts DEF Operations

\* The limits are read as decimals first, and then held against their domains.
LEMMA CborAccounts == ASSUME NEW x PROVE Accounts("validateCbor", x)
<1> DEFINE
  a == <<"hex", "cbor">>
  b == <<"u64", "maxDepth">>
  c == <<"u64", "maxMembers">>
  d == <<"depth", "maxDepth">>
  e == <<"members", "maxMembers">>
  s == <<a, b, c>>
  t == <<d, e>>
  limits == x["maxDepth"] \in UpTo(MaxDepth) /\ x["maxMembers"] \in UpTo(MaxMembers)
<1>1. Reads("validateCbor", x) = Fields(s) \o t
  BY DEF Reads, ValidateCbor
<1>2. a[1] # "did" /\ b[1] # "did" /\ c[1] # "did" /\ d[1] # "did" /\ e[1] # "did"
  OBVIOUS
<1>3. /\ Passes(a, x) <=> x["cbor"] \in Bytes
      /\ Passes(b, x) <=> ParsesU64(x["maxDepth"])
      /\ Passes(c, x) <=> ParsesU64(x["maxMembers"])
  BY StepMeans, Decimal
<1>4. /\ Passes(d, x) <=> (ParsesU64(x["maxDepth"]) => Value(x["maxDepth"]) <= MaxDepth)
      /\ Passes(e, x) <=> (ParsesU64(x["maxMembers"]) => Value(x["maxMembers"]) <= MaxMembers)
  BY DEF Passes, Takes
<1>5. limits <=> Passes(b, x) /\ Passes(c, x) /\ Passes(d, x) /\ Passes(e, x)
  BY <1>3, <1>4, Limit
<1>6. Early("validateCbor", x) <=>
        x["input"] = Object /\ x["cbor"] \in Bytes /\ limits /\ x["input.*"] = Absent
  BY DEF Early
<1> HIDE DEF a, b, c, d, e, limits
<1>7. /\ Plain(s, x) /\ (Passed(s, x) <=> Passes(a, x) /\ Passes(b, x) /\ Passes(c, x))
      /\ Plain(t, x) /\ (Passed(t, x) <=> Passes(d, x) /\ Passes(e, x))
  BY <1>2, PlainLiteral
<1> HIDE DEF s, t
<1>8. /\ Plain(Fields(s), x)
      /\ Passed(Fields(s), x) <=> x["input"] = Object /\ Passed(s, x) /\ x["input.*"] = Absent
  BY <1>7, PlainFieldsMean
<1>9. /\ Plain(Fields(s) \o t, x)
      /\ Passed(Fields(s) \o t, x) <=> Passed(Fields(s), x) /\ Passed(t, x)
  BY <1>7, <1>8, PlainConcat
<1>10. QED
  BY <1>1, <1>3, <1>5, <1>6, <1>7, <1>8, <1>9, PlainAccounts DEF Operations

LEMMA CandidateMeans ==
  ASSUME NEW m, NEW x
  PROVE  /\ Plain(Candidate(m, x), x)
         /\ Passed(Candidate(m, x), x) <=> x[m] \in Bytes \cup {Absent}
<1>1. CASE x[m] = Absent
  BY <1>1, PlainEmpty DEF Candidate
<1>2. CASE x[m] # Absent
  <2>1. Candidate(m, x) = <<<<"hex", m>>>>
    BY <1>2 DEF Candidate
  <2>2. QED
    BY <1>2, <2>1, ShortMeans
<1>3. QED
  BY <1>1, <1>2

LEMMA SelectAccounts == ASSUME NEW x PROVE Accounts("selectCurrent", x)
<1> DEFINE
  a == <<"text", "targetDid">>
  b == <<"array", "candidates">>
  c == <<"u64", "nowMs">>
  d == <<"sticky", "stickyAuthority">>
  e == <<"did", "targetDid">>
  s == <<a, b, c, d>>
  did == <<e>>
  one == Candidate("candidate1", x)
  two == Candidate("candidate2", x)
  fields == Fields(s)
  parsed == fields \o did
  some == parsed \o one
  allowed == /\ IsText(x["targetDid"]) /\ x["candidates"] = Array /\ x["nowMs"] \in Decimals
             /\ x["stickyAuthority"] \in {<<"unknown">>, <<"root">>, <<"rootRevoked">>}
<1>1. Reads("selectCurrent", x) = some \o two
  BY DEF Reads, SelectCurrent
<1>2. a[1] # "did" /\ b[1] # "did" /\ c[1] # "did" /\ d[1] # "did" /\ e[1] = "did"
  OBVIOUS
<1>3. Passes(a, x) /\ Passes(b, x) /\ Passes(c, x) /\ Passes(d, x) <=> allowed
  BY StepMeans
<1>4. Passes(e, x) <=> ~BadDid("selectCurrent", x)
  BY StepMeans DEF BadDid
<1>5. Early("selectCurrent", x) <=> x["input"] = Object /\ allowed /\ x["input.*"] = Absent
  BY DEF Early
<1>6. Late("selectCurrent", x) <=>
        x["candidate1"] \in Bytes \cup {Absent} /\ x["candidate2"] \in Bytes \cup {Absent}
  BY DEF Late
<1>7. /\ Plain(one, x) /\ (Passed(one, x) <=> x["candidate1"] \in Bytes \cup {Absent})
      /\ Plain(two, x) /\ (Passed(two, x) <=> x["candidate2"] \in Bytes \cup {Absent})
  BY CandidateMeans
<1> HIDE DEF a, b, c, d, e, one, two, allowed
<1>8. Plain(s, x) /\ (Passed(s, x) <=> Passes(a, x) /\ Passes(b, x) /\ Passes(c, x) /\ Passes(d, x))
  BY <1>2, PlainLiteral
<1>9. Settled(did, x) /\ (Passed(did, x) <=> Passes(e, x)) /\ (Rejects(did, x) <=> ~Passes(e, x))
  BY <1>2, SettledStep
<1> HIDE DEF s, did
<1>10. Plain(fields, x) /\ (Passed(fields, x) <=> Early("selectCurrent", x))
  BY <1>3, <1>5, <1>8, PlainFieldsMean
<1> HIDE DEF fields
<1>11. /\ Settled(parsed, x)
       /\ Passed(parsed, x) <=> Early("selectCurrent", x) /\ ~BadDid("selectCurrent", x)
       /\ Rejects(parsed, x) <=> Early("selectCurrent", x) /\ BadDid("selectCurrent", x)
  BY <1>4, <1>9, <1>10, SettledConcat DEF Plain
<1> HIDE DEF parsed
<1>12. /\ Settled(some, x)
       /\ Passed(some, x) <=> Passed(parsed, x) /\ Passed(one, x)
       /\ Rejects(some, x) <=> Rejects(parsed, x)
  BY <1>7, <1>11, SettledConcat DEF Plain
<1> HIDE DEF some
<1>13. /\ Settled(some \o two, x)
       /\ Passed(some \o two, x) <=> Passed(some, x) /\ Passed(two, x)
       /\ Rejects(some \o two, x) <=> Rejects(some, x)
  BY <1>7, <1>12, SettledConcat DEF Plain
<1>14. QED
  BY <1>1, <1>6, <1>7, <1>11, <1>12, <1>13 DEF Accounts

\* A signing key that fits its authority is the one the interface names.
LEMMA SigningKey ==
  ASSUME NEW x, x["authority"] \in {<<"root">>, <<"rootRevoked">>}
  PROVE  (/\ IsText(x["signingSeed"]) /\ x["signingSeed"] \in {<<"root">>, <<"revocation">>}
          /\ Coherent(x)) <=>
         x["signingSeed"] = IF x["authority"] = <<"root">> THEN <<"root">> ELSE <<"revocation">>
<1> DEFINE authority == x["authority"]
           seed == x["signingSeed"]
<1>1. IsText(<<"root">>) /\ IsText(<<"revocation">>)
  BY DEF IsText, Kinds, Absent, Null, Bool, Array, Object, Text
<1>2. Coherent(x) <=> \/ authority = <<"root">> /\ seed = <<"root">>
                      \/ authority = <<"rootRevoked">> /\ seed = <<"revocation">>
  BY DEF Coherent
<1>3. <<"root">> # <<"rootRevoked">>
  OBVIOUS
<1> HIDE DEF authority, seed
<1>4. authority = <<"root">> \/ authority = <<"rootRevoked">>
  BY DEF authority
<1>5. (IsText(seed) /\ seed \in {<<"root">>, <<"revocation">>} /\ Coherent(x)) <=>
      seed = IF authority = <<"root">> THEN <<"root">> ELSE <<"revocation">>
  BY <1>1, <1>2, <1>3, <1>4
<1>6. QED
  BY <1>5 DEF authority, seed

LEMMA AuthorAccounts == ASSUME NEW x PROVE Accounts("authorRecord", x)
<1> DEFINE
  a == <<"hex32", "rootSeed">>
  b == <<"hex32", "revocationSeed">>
  c == <<"authority", "authority">>
  d == <<"u64", "timestampMs">>
  e == <<"optU64", "validUntilMs">>
  k == <<"seedName", "signingSeed">>
  l == <<"coherent", "signingSeed">>
  s == <<a, b, c, d, e>>
  contact == Contact(x)
  extensions == ExtensionMap("extensions", x)
  seed == <<<<"text", "signingSeed">>>>
  keys == <<k, l>>
  sc == s \o contact
  sce == sc \o extensions
  members == sce \o seed
  fields == Fields(members)
  key == x["signingSeed"] = IF x["authority"] = <<"root">> THEN <<"root">> ELSE <<"revocation">>
  basic == /\ x["rootSeed"] = Hex32 /\ x["revocationSeed"] = Hex32
           /\ x["authority"] \in {<<"root">>, <<"rootRevoked">>}
           /\ x["timestampMs"] \in Decimals /\ x["validUntilMs"] \in Decimals \cup {Null}
  restOfContact == ExtensionsAllowed("contact.extensions", x) /\ x["contact.*"] = Absent
  extended == ExtensionsAllowed("extensions", x)
<1>1. Reads("authorRecord", x) = fields \o keys
  BY DEF Reads, AuthorRecord
<1>2. /\ a[1] # "did" /\ b[1] # "did" /\ c[1] # "did" /\ d[1] # "did" /\ e[1] # "did"
      /\ k[1] # "did" /\ l[1] # "did"
  OBVIOUS
<1>3. Passes(a, x) /\ Passes(b, x) /\ Passes(c, x) /\ Passes(d, x) /\ Passes(e, x) <=> basic
  BY StepMeans
<1>4. (Passes(k, x) <=> x["signingSeed"] \in {<<"root">>, <<"revocation">>}) /\ (Passes(l, x) <=> Coherent(x))
  BY StepMeans DEF Passes
<1>5. Early("authorRecord", x) <=> x["input"] = Object /\ basic /\ ContactAllowed(x)
  BY DEF Early
<1>6. Late("authorRecord", x) <=> restOfContact /\ extended /\ x["input.*"] = Absent /\ key
  BY DEF Late
<1>7. BadDid("authorRecord", x) <=> BadMigration(x)
  BY DEF BadDid, BadMigration
<1>8. basic => (IsText(x["signingSeed"]) /\ Passes(k, x) /\ Passes(l, x) <=> key)
  BY <1>4, SigningKey
<1>9. /\ Settled(contact, x)
      /\ Passed(contact, x) <=> ContactAllowed(x) /\ ~BadMigration(x) /\ restOfContact
      /\ Rejects(contact, x) <=> ContactAllowed(x) /\ BadMigration(x)
  BY ContactMeans
<1>10. /\ Plain(extensions, x) /\ (Passed(extensions, x) <=> extended)
       /\ Plain(seed, x) /\ (Passed(seed, x) <=> IsText(x["signingSeed"]))
  BY ExtensionsMean, ShortMeans
<1> HIDE DEF a, b, c, d, e, k, l, contact, extensions, seed, key, basic, restOfContact, extended
<1>11. /\ Plain(s, x)
       /\ Passed(s, x) <=> Passes(a, x) /\ Passes(b, x) /\ Passes(c, x) /\ Passes(d, x) /\ Passes(e, x)
       /\ Plain(keys, x) /\ (Passed(keys, x) <=> Passes(k, x) /\ Passes(l, x))
  BY <1>2, PlainLiteral
<1> HIDE DEF s, keys
<1>12. /\ Settled(sc, x)
       /\ Passed(sc, x) <=> basic /\ Passed(contact, x)
       /\ Rejects(sc, x) <=> basic /\ Rejects(contact, x)
  BY <1>3, <1>9, <1>11, SettledConcat DEF Plain
<1> HIDE DEF sc
<1>13. /\ Settled(sce, x)
       /\ Passed(sce, x) <=> Passed(sc, x) /\ extended
       /\ Rejects(sce, x) <=> Rejects(sc, x)
  BY <1>10, <1>12, SettledConcat DEF Plain
<1> HIDE DEF sce
<1>14. /\ Settled(members, x)
       /\ Passed(members, x) <=> Passed(sce, x) /\ IsText(x["signingSeed"])
       /\ Rejects(members, x) <=> Rejects(sce, x)
  BY <1>10, <1>13, SettledConcat DEF Plain
<1> HIDE DEF members
<1>15. /\ Settled(fields, x)
       /\ Passed(fields, x) <=> x["input"] = Object /\ Passed(members, x) /\ x["input.*"] = Absent
       /\ Rejects(fields, x) <=> x["input"] = Object /\ Rejects(members, x)
  BY <1>14, FieldsMean
<1> HIDE DEF fields
<1>16. /\ Settled(fields \o keys, x)
       /\ Passed(fields \o keys, x) <=> Passed(fields, x) /\ Passes(k, x) /\ Passes(l, x)
       /\ Rejects(fields \o keys, x) <=> Rejects(fields, x)
  BY <1>11, <1>15, SettledConcat DEF Plain
<1>17. Passed(fields \o keys, x) <=>
         Early("authorRecord", x) /\ Late("authorRecord", x) /\ ~BadDid("authorRecord", x)
  BY <1>5, <1>6, <1>7, <1>8, <1>9, <1>12, <1>13, <1>14, <1>15, <1>16
<1>18. Rejects(fields \o keys, x) <=> Early("authorRecord", x) /\ BadDid("authorRecord", x)
  BY <1>5, <1>7, <1>9, <1>12, <1>13, <1>14, <1>15, <1>16
<1>19. QED
  BY <1>1, <1>16, <1>17, <1>18 DEF Accounts

LEMMA ReadsAccount == ASSUME NEW operation \in Operations, NEW x PROVE Accounts(operation, x)
BY HelloAccounts, DeriveAccounts, AuthorAccounts, VerifyAccounts, StrictAccounts, TimestampAccounts,
   CborAccounts, SelectAccounts DEF Operations

-----------------------------------------------------------------------------
(* The answer that the reading decides.                                    *)

LEMMA ImplementationDecides ==
  ASSUME NEW operation \in Operations, NEW x, NEW a \in Implementation(operation, x)
  PROVE  a.status # "error"
<1>1. (\E r : a = Accepted(r)) \/ (\E s \in Symbols : a = Rejected(s))
  BY ImplementationAnswers
<1>2. QED
  BY <1>1, AcceptedForm, RejectedForm

LEMMA Decided ==
  ASSUME NEW operation \in Operations, NEW x, NEW a \in Operate(operation, x)
  PROVE  LET early == Early(operation, x)
             masked == early /\ BadDid(operation, x)
         IN  /\ a.status = "error" <=> ~(early /\ Late(operation, x)) /\ ~masked
             /\ masked => a = Rejected("invalidDid")
<1> DEFINE
  reads == Reads(operation, x)
  stops == {i \in DOMAIN reads : ~Passes(reads[i], x)}
  first == CHOOSE i \in stops : \A j \in stops : i <= j
  early == Early(operation, x)
  late == Late(operation, x)
  bad == BadDid(operation, x)
<1>1. /\ Settled(reads, x)
      /\ Passed(reads, x) <=> early /\ late /\ ~bad
      /\ Rejects(reads, x) <=> early /\ bad
  BY ReadsAccount DEF Accounts
<1>2. a \in IF stops = {} THEN Implementation(operation, x) ELSE {Refusal(reads[first])}
  BY DEF Operate
<1> HIDE DEF reads, early, late, bad
<1>3. Len(reads) \in Nat /\ DOMAIN reads = 1 .. Len(reads)
  BY <1>1, SequenceLength DEF Settled
<1>4. Passed(reads, x) <=> stops = {}
  BY <1>3 DEF Passed
<1>5. ASSUME NEW did, Stops(reads, x, did)
      PROVE  stops # {} /\ (reads[first][1] = "did" <=> did)
  <2>1. PICK i : StopsAt(reads, x, i) /\ (reads[i][1] = "did" <=> did)
    BY <1>5 DEF Stops
  <2>2. i \in stops /\ i \in Int /\ \A j \in stops : j \in Int /\ ~(j < i)
    BY <1>3, <2>1 DEF StopsAt
  <2>3. \A j \in stops : i <= j
    BY <2>2
  <2>4. first \in stops /\ first <= i
    BY <2>2, <2>3
  <2>5. first = i
    BY <2>2, <2>3, <2>4
  <2>6. QED
    BY <2>1, <2>2, <2>5
<1> HIDE DEF first
<1>6. CASE Passed(reads, x)
  <2>1. a \in Implementation(operation, x)
    BY <1>2, <1>4, <1>6
  <2>2. a.status # "error"
    BY <2>1, ImplementationDecides
  <2>3. QED
    BY <1>1, <1>6, <2>2 DEF early, late, bad
<1>7. CASE Rejects(reads, x)
  <2>1. a = Refusal(reads[first]) /\ reads[first][1] = "did"
    BY <1>2, <1>5, <1>7 DEF Rejects
  <2>2. a = Rejected("invalidDid")
    BY <2>1 DEF Refusal
  <2>3. a.status # "error"
    BY <2>2, RejectedForm DEF Symbols
  <2>4. QED
    BY <1>1, <1>7, <2>2, <2>3 DEF early, late, bad
<1>8. CASE Errs(reads, x)
  <2>1. a = Refusal(reads[first]) /\ reads[first][1] # "did"
    BY <1>2, <1>5, <1>8 DEF Errs
  <2>2. a.status = "error"
    <3>1. \/ a = InfrastructureError("1", "case", "adapter.signingKeyMismatch")
          \/ a = InfrastructureError("1", "case", "adapter.invalidInput")
      BY <2>1 DEF Refusal
    <3>2. QED
      BY <3>1, ErrorForm DEF Failures
  <2>3. ~Passed(reads, x) /\ ~Rejects(reads, x)
    BY <1>1, <1>8 DEF Settled
  <2>4. ~(early /\ late) /\ ~(early /\ bad)
    BY <1>1, <2>3
  <2>5. QED
    BY <2>2, <2>4 DEF early, late, bad
<1>9. QED
  BY <1>1, <1>6, <1>7, <1>8 DEF Settled

\* What is answered to one line.
LEMMA Handled ==
  ASSUME NEW l, NEW a \in HandleLine(l), l.protocol \in {"1", "2"}
  PROVE  /\ Formed(a)
         /\ Contract(l, l.input, a)
         /\ a.status = "accepted" =>
              l.operation \in Operations /\ a \in Operate(l.operation, l.input)
<1>1. CASE l.defects # {}
  <2>1. \/ a = InfrastructureError("1", "unknown", "adapter.lineTooLong")
        \/ a = InfrastructureError("1", "unknown", "adapter.malformedRequest")
    BY <1>1 DEF HandleLine
  <2>2. a.status = "error" /\ a.protocol = "1" /\ a.caseId = "unknown" /\ Formed(a)
    BY <2>1, ErrorForm DEF Failures
  <2>3. QED
    BY <1>1, <2>2 DEF Contract
<1>2. CASE l.defects = {} /\ l.protocol # "1"
  <2>1. a = InfrastructureError(l.protocol, "case", "adapter.unsupportedProtocol")
    BY <1>2 DEF HandleLine
  <2>2. a.status = "error" /\ a.protocol = l.protocol /\ a.caseId = "case" /\ Formed(a)
    BY <2>1, ErrorForm DEF Failures
  <2>3. QED
    BY <1>2, <2>2 DEF Contract
<1>3. CASE l.defects = {} /\ l.protocol = "1" /\ l.operation \notin Operations
  <2>1. a = InfrastructureError("1", "case", "adapter.unsupportedOperation")
    BY <1>3 DEF HandleLine
  <2>2. a.status = "error" /\ a.protocol = "1" /\ a.caseId = "case" /\ Formed(a)
    BY <2>1, ErrorForm DEF Failures
  <2>3. QED
    BY <1>3, <2>2 DEF Contract
<1>4. CASE l.defects = {} /\ l.protocol = "1" /\ l.operation \in Operations
  <2>1. a \in Operate(l.operation, l.input)
    BY <1>4 DEF HandleLine
  <2>2. Formed(a) /\ a.protocol = "1" /\ a.caseId = "case"
    BY <1>4, <2>1, Operated
  <2>3. LET early == Early(l.operation, l.input)
            masked == early /\ BadDid(l.operation, l.input)
        IN  /\ a.status = "error" <=> ~(early /\ Late(l.operation, l.input)) /\ ~masked
            /\ masked => a = Rejected("invalidDid")
    BY <1>4, <2>1, Decided
  <2>4. QED
    BY <1>4, <2>1, <2>2, <2>3 DEF Contract
<1>5. QED
  BY <1>1, <1>2, <1>3, <1>4

-----------------------------------------------------------------------------
(* The inductive invariant.                                                *)

\* The line is a request, whole or in parts.
LineOK ==
  /\ line = [defects |-> line.defects, protocol |-> line.protocol, operation |-> line.operation,
             input |-> line.input, changes |-> line.changes]
  /\ line.defects \subseteq Defects
  /\ line.protocol \in {"1", "2"}
  /\ line.operation \in Operations \cup {"probe"}
  /\ line.changes \in 0 .. MaxChanges

\* Its answer has the form of its status, and is the one that the interface's shapes ask for,
\* of an input as it is written.
Answered ==
  answer # None => Formed(answer) /\ Contract(line, line.input, answer)

\* What was authored last says what was asked, and is told as it was kept.
Kept ==
  authored # None => Record(authored.body) = authored.asked /\ Fits(authored.body)
Told ==
  answer # None /\ line.operation = "verifyRecord" /\ answer.status = "accepted" =>
    authored # None /\ answer.result = Record(authored.body)

Inv == LineOK /\ Answered /\ Kept /\ Told

LEMMA LineIsRequest ==
  ASSUME NEW o \in Operations \cup {"probe"}, NEW x, NEW c \in 0 .. MaxChanges,
         line = Line(o, x, c)
  PROVE  LineOK
BY DEF LineOK, Line

LEMMA LineChanged ==
  ASSUME LineOK, Changing, NEW d \in SUBSET Defects, NEW p \in {"1", "2"}, NEW x,
         line' = [defects |-> d, protocol |-> p, operation |-> line.operation,
                  input |-> x, changes |-> line.changes + 1]
  PROVE  LineOK'
<1>1. line.changes + 1 \in 0 .. MaxChanges
  BY ChangesAssumption DEF LineOK, Changing
<1>2. QED
  BY <1>1 DEF LineOK

LEMMA InitInv == Init => Inv
<1> SUFFICES ASSUME Init PROVE Inv
  OBVIOUS
<1>1. LineOK
  BY LineIsRequest, ChangesAssumption DEF Init
<1>2. answer = None /\ authored = None
  BY DEF Init
<1>3. QED
  BY <1>1, <1>2 DEF Inv, Answered, Kept, Told

\* A change to the request leaves what else the invariant speaks of alone.
LEMMA ChangingInv ==
  ASSUME Inv, Changing, LineOK'
  PROVE  Inv'
BY DEF Inv, Changing, Answered, Kept, Told

LEMMA NextInv == Inv /\ [Next]_vars => Inv'
<1> SUFFICES ASSUME Inv, [Next]_vars PROVE Inv'
  OBVIOUS
<1>0. LineOK /\ Kept /\ MaxChanges \in Nat
  BY ChangesAssumption DEF Inv
<1>1. CASE ChangeMember
  <2>1. PICK m, v : line' = [line EXCEPT !.input[m] = v, !.changes = @ + 1]
    BY <1>1 DEF ChangeMember
  <2>2. Changing
    BY <1>1 DEF ChangeMember
  <2>3. LineOK'
    <3>1. \E x : line' = [defects |-> line.defects, protocol |-> line.protocol,
                          operation |-> line.operation, input |-> x, changes |-> line.changes + 1]
      BY <1>0, <2>1 DEF LineOK
    <3>2. line.defects \in SUBSET Defects /\ line.protocol \in {"1", "2"}
      BY <1>0 DEF LineOK
    <3>3. QED
      BY <1>0, <2>2, <3>1, <3>2, LineChanged
  <2>4. QED
    BY <2>2, <2>3, ChangingInv
<1>2. CASE Garble
  <2>1. PICK d \in Defects : line' = [line EXCEPT !.defects = @ \cup {d}, !.changes = @ + 1]
    BY <1>2 DEF Garble
  <2>2. Changing
    BY <1>2 DEF Garble
  <2>3. LineOK'
    <3>1. line' = [defects |-> line.defects \cup {d}, protocol |-> line.protocol,
                   operation |-> line.operation, input |-> line.input, changes |-> line.changes + 1]
      BY <1>0, <2>1 DEF LineOK
    <3>2. line.defects \cup {d} \in SUBSET Defects /\ line.protocol \in {"1", "2"}
      BY <1>0, <2>1 DEF LineOK
    <3>3. QED
      BY <1>0, <2>2, <3>1, <3>2, LineChanged
  <2>4. QED
    BY <2>2, <2>3, ChangingInv
<1>3. CASE OtherProtocol
  <2>1. Changing /\ line' = [line EXCEPT !.protocol = "2", !.changes = @ + 1]
    BY <1>3 DEF OtherProtocol
  <2>2. LineOK'
    <3>1. line' = [defects |-> line.defects, protocol |-> "2",
                   operation |-> line.operation, input |-> line.input, changes |-> line.changes + 1]
      BY <1>0, <2>1 DEF LineOK
    <3>2. line.defects \in SUBSET Defects
      BY <1>0 DEF LineOK
    <3>3. QED
      BY <1>0, <2>1, <3>1, <3>2, LineChanged
  <2>3. QED
    BY <2>1, <2>2, ChangingInv
<1>4. CASE Respond
  <2>1. line' = line /\ answer' \in HandleLine(line)
    BY <1>4 DEF Respond
  <2>2. /\ Formed(answer') /\ Contract(line, line.input, answer')
        /\ answer'.status = "accepted" =>
             line.operation \in Operations /\ answer' \in Operate(line.operation, line.input)
    BY <1>0, <2>1, Handled DEF LineOK
  <2>3. LineOK'
    BY <1>0, <2>1 DEF LineOK
  <2>4. Answered'
    BY <2>1, <2>2 DEF Answered
  <2>5. CASE line.operation = "authorRecord" /\ answer'.status = "accepted"
    <3>1. authored' = [asked |-> Asked(line.input), body |-> Body(line.input)]
      BY <1>4, <2>5 DEF Respond
    <3>2. Record(Body(line.input)) = Asked(line.input) /\ Fits(Body(line.input))
      BY <2>2, <2>5, Authored
    <3>3. Kept'
      <4> DEFINE asked == Asked(line.input)
                 body == Body(line.input)
      <4> HIDE DEF asked, body
      <4>1. authored'.body = body /\ authored'.asked = asked
        BY <3>1 DEF asked, body
      <4>2. Record(body) = asked /\ Fits(body)
        BY <3>2 DEF asked, body
      <4>3. QED
        BY <4>1, <4>2 DEF Kept
    <3>4. Told'
      BY <2>1, <2>5 DEF Told
    <3>5. QED
      BY <2>3, <2>4, <3>3, <3>4 DEF Inv
  <2>6. CASE ~ (line.operation = "authorRecord" /\ answer'.status = "accepted")
    <3>1. authored' = authored
      BY <1>4, <2>6 DEF Respond
    <3>2. Kept'
      BY <1>0, <3>1 DEF Kept
    <3>3. ASSUME line.operation = "verifyRecord", answer'.status = "accepted"
          PROVE  authored # None /\ answer'.result = Record(authored.body)
      BY <2>2, <3>3, Verified
    <3>4. Told'
      BY <2>1, <3>1, <3>3 DEF Told
    <3>5. QED
      BY <2>3, <2>4, <3>2, <3>4 DEF Inv
  <2>7. QED
    BY <2>5, <2>6
<1>5. CASE NextLine
  <2>1. answer' = None /\ (authored' = authored \/ authored' = None)
    BY <1>5 DEF NextLine
  <2>2. \E o \in Operations : \E x : \E c \in {0, line.changes} : line' = Line(o, x, c)
    BY <1>5 DEF NextLine
  <2>3. LineOK'
    BY <1>0, <2>2 DEF LineOK, Line
  <2>4. Kept'
    BY <1>0, <2>1 DEF Kept
  <2>5. Answered' /\ Told'
    BY <2>1 DEF Answered, Told
  <2>6. QED
    BY <2>3, <2>4, <2>5 DEF Inv
<1>6. CASE UNCHANGED vars
  BY <1>6 DEF Inv, LineOK, Answered, Kept, Told, vars
<1>7. QED
  BY <1>1, <1>2, <1>3, <1>4, <1>5, <1>6 DEF Next

LEMMA InvTypeOK == Inv => TypeOK
BY DEF Inv, LineOK, Answered, Formed, Kept, TypeOK

LEMMA InvDecides == Inv => ContractDecides
BY DEF Inv, Answered, ContractDecides

LEMMA InvSays == Inv => SaysWhatWasAsked
BY DEF Inv, Kept, Told, SaysWhatWasAsked

-----------------------------------------------------------------------------
(* The theorems.                                                           *)

\* Every line is answered as the interface's shapes ask and in the form of its status, and what
\* is kept of an authored record is what was asked (handle_line, operation_response,
\* author_record).
THEOREM AdapterInvariant == Spec => []Inv
<1>1. QED
  BY InitInv, NextInv, PTL DEF Spec

\* Every answer is one of the interface's answers, and the integers that reach the
\* implementation fit its u64 (operation_response, typed_value, parse_nint_magnitude).
THEOREM AdapterTypes == Spec => []TypeOK
<1>1. QED
  BY AdapterInvariant, InvTypeOK, PTL

\* A request with its omissions in the form of the shapes is answered with an error exactly
\* when it breaks the interface's contract in some member, wherever that member stands, but for what a malformed DID hides: for
\* every input, of any member values, and every width of the integers (handle_line, ops.rs).
THEOREM AnsweredByContract == Spec => []ContractDecides
<1>1. QED
  BY AdapterInvariant, InvDecides, PTL

\* A record that is verified is told in the words of its author's request, for every
\* width of the integers (author_record, verify_record_op, semantic_record_json).
THEOREM VerifiedAsAsked == Spec => []SaysWhatWasAsked
<1>1. QED
  BY AdapterInvariant, InvSays, PTL
=============================================================================
