-------------------------- MODULE RelaySync_proofs --------------------------
(***************************************************************************)
(* For any relays, records, clocks and page limits: a stored cursor is     *)
(* never ahead of what its owner was given, a relay holds the best record  *)
(* it was given, revocations are final, and two relays that have both read *)
(* the other's feed to its end agree.                                      *)
(***************************************************************************)
EXTENDS RelaySync, FiniteSetTheorems, TLAPS

\* Items of one page: one for each identity, at positions of their own.
PageItems(items) ==
  /\ items \in SUBSET Item
  /\ IsFiniteSet(items)
  /\ \A i, j \in items : i.record.did = j.record.did \/ i.position = j.position => i = j

\* What is held is bound to the identity it is held for.
HeldIsBound ==
  \A n \in Nodes, d \in Dids :
    Held(n, d) => entries[n][d].record.bound /\ entries[n][d].record.did = d

\* Generations are given out once, so a fresh database has one that no stored
\* cursor carries.
Generations ==
  \A n \in Nodes :
    /\ generation[n] <= created
    /\ peerCursor[n] # None => peerCursor[n].generation <= created

\* A page on its way to n is as sound as the cursor it was asked with: every
\* entry it ends after is in it, or was covered before it was asked for.
SoundPage(n, page) ==
  /\ PageItems(page.items)
  /\ Peer[n] # None
  /\ page.cursor.generation <= created
  /\ page.cursor.generation = generation[Peer[n]] =>
       /\ page.cursor.position <= updateCounter[Peer[n]]
       /\ \A d \in Dids :
            Held(Peer[n], d) /\ entries[Peer[n]][d].lastUpdated <= page.cursor.position
              => \/ Covers(n, entries[Peer[n]][d].record)
                 \/ \E i \in page.items : i.record = entries[Peer[n]][d].record

ReplySound ==
  \A n \in Nodes : reply[n] # None /\ reply[n].kind = "page" => SoundPage(n, reply[n])

\* The position of a cursor has been reached by the peer's counter.
CursorReached ==
  \A n \in Nodes :
    Peer[n] # None /\ peerCursor[n] # None /\ peerCursor[n].generation = generation[Peer[n]]
      => peerCursor[n].position <= updateCounter[Peer[n]]

Inv ==
  /\ TypeOK
  /\ HeldIsBound
  /\ UpdateNumbers
  /\ Generations
  /\ CursorReached
  /\ ReplySound
  /\ CursorSound

----------------------------------------------------------------------------
\* The order of records is transitive.
LEMMA BeatsTransitive ==
  ASSUME NEW r \in Records, NEW s \in Records, NEW u \in Records, Beats(r, s), Beats(s, u)
  PROVE  Beats(r, u)
BY SyncAssumption DEF Beats

\* A record does not beat itself.
LEMMA BeatsIrreflexive ==
  ASSUME NEW r \in Records
  PROVE  ~Beats(r, r)
BY SyncAssumption DEF Beats

\* The admitted items are finite in number, and each gets a number after the
\* counter and not after the new counter, different from that of the others.
LEMMA UpdateNumberFacts ==
  ASSUME TypeOK, NEW n \in Nodes, NEW items, PageItems(items), NEW now \in Clocks,
         NEW i \in Admitted(n, items, now)
  PROVE  /\ IsFiniteSet(Admitted(n, items, now))
         /\ UpdateNumber(n, i, Admitted(n, items, now))
              \in updateCounter[n] + 1 .. updateCounter[n] + Cardinality(Admitted(n, items, now))
         /\ \A j \in Admitted(n, items, now) :
              UpdateNumber(n, j, Admitted(n, items, now)) = UpdateNumber(n, i, Admitted(n, items, now))
                => i = j
<1> DEFINE new == Admitted(n, items, now)
           UpTo(j) == {k \in new : k.position <= j.position}
<1>1. new \in SUBSET items
  BY DEF Admitted
<1>2. IsFiniteSet(new)
  BY <1>1, FS_Subset DEF PageItems
<1>3. \A j \in new : /\ IsFiniteSet(UpTo(j)) /\ UpTo(j) \in SUBSET new
                     /\ Cardinality(UpTo(j)) \in Nat
                     /\ Cardinality(UpTo(j)) <= Cardinality(new)
  BY <1>2, FS_Subset, FS_CardinalityType
<1>4. \A j \in new : j \in UpTo(j) /\ j.position \in Nat
  BY <1>1 DEF PageItems, Item
<1>5. \A j \in new : Cardinality(UpTo(j)) # 0
  BY <1>3, <1>4, FS_EmptySet
<1>6. Cardinality(new) \in Nat
  BY <1>2, FS_CardinalityType
<1>7. updateCounter[n] \in Nat
  BY DEF TypeOK
<1>8. \A j \in new : UpdateNumber(n, j, new) = updateCounter[n] + Cardinality(UpTo(j))
  BY DEF UpdateNumber
<1>9. ASSUME NEW j \in new, UpdateNumber(n, j, new) = UpdateNumber(n, i, new)
      PROVE  i = j
  <2>1. Cardinality(UpTo(i)) = Cardinality(UpTo(j))
    <3>1. /\ UpdateNumber(n, i, new) = updateCounter[n] + Cardinality(UpTo(i))
          /\ UpdateNumber(n, j, new) = updateCounter[n] + Cardinality(UpTo(j))
          /\ Cardinality(UpTo(i)) \in Nat /\ Cardinality(UpTo(j)) \in Nat
      BY <1>3, <1>8, <1>9
    <3> HIDE DEF new, UpTo
    <3> QED
      BY <3>1, <1>7, <1>9
  <2>2. UpTo(i) \subseteq UpTo(j) \/ UpTo(j) \subseteq UpTo(i)
    <3>1. i.position <= j.position \/ j.position <= i.position
      BY <1>4
    <3>2. \A k \in new : k.position \in Nat
      BY <1>4
    <3> QED
      BY <3>1, <3>2, <1>4
  <2>3. UpTo(i) = UpTo(j)
    BY <2>1, <2>2, <1>3, FS_Subset
  <2>4. i.position <= j.position /\ j.position <= i.position
    BY <2>3, <1>4
  <2>5. i.position = j.position
    BY <2>4, <1>4
  <2> QED
    BY <2>5, <1>1 DEF PageItems
<1> HIDE DEF UpTo
<1> QED
  BY <1>2, <1>3, <1>5, <1>6, <1>7, <1>8, <1>9

\* What the ingress leaves for an identity: the old entry, or that of the one
\* item for it, which was admitted and has a number after the old counter.
LEMMA MergedEntry ==
  ASSUME TypeOK, NEW n \in Nodes, NEW items, PageItems(items), NEW now \in Clocks,
         NEW d \in Dids
  PROVE  \/ /\ Merged(n, items, now)[d] = entries[n][d]
            /\ \A i \in items : i.record.did = d => ~Admits(n, i.record, now)
         \/ \E i \in Admitted(n, items, now) :
              /\ i.record.did = d
              /\ Merged(n, items, now)[d] =
                   [record |-> i.record,
                    lastUpdated |-> UpdateNumber(n, i, Admitted(n, items, now))]
<1> DEFINE new == Admitted(n, items, now)
<1>1. CASE \E i \in new : i.record.did = d
  <2> DEFINE i == CHOOSE j \in new : j.record.did = d
  <2>1. i \in new /\ i.record.did = d
    BY <1>1
  <2>2. Merged(n, items, now)[d] = [record |-> i.record, lastUpdated |-> UpdateNumber(n, i, new)]
    BY <1>1 DEF Merged
  <2> QED
    BY <2>1, <2>2
<1>2. CASE ~ \E i \in new : i.record.did = d
  <2>1. Merged(n, items, now)[d] = entries[n][d]
    BY <1>2 DEF Merged
  <2> QED
    BY <2>1, <1>2 DEF Admitted
<1> QED
  BY <1>1, <1>2

\* The ingress leaves entries, for the identity they are held for.
LEMMA MergedType ==
  ASSUME TypeOK, NEW n \in Nodes, NEW items, PageItems(items), NEW now \in Clocks
  PROVE  /\ Merged(n, items, now) \in [Dids -> Entry \cup {None}]
         /\ IsFiniteSet(Admitted(n, items, now))
         /\ Cardinality(Admitted(n, items, now)) \in Nat
<1>1. IsFiniteSet(Admitted(n, items, now))
  BY FS_Subset DEF Admitted, PageItems
<1>2. Cardinality(Admitted(n, items, now)) \in Nat
  BY <1>1, FS_CardinalityType
<1>3. ASSUME NEW d \in Dids
      PROVE  Merged(n, items, now)[d] \in Entry \cup {None}
  <2>1. entries[n][d] \in Entry \cup {None}
    BY DEF TypeOK
  <2>2. ASSUME NEW i \in Admitted(n, items, now)
        PROVE  [record |-> i.record,
                lastUpdated |-> UpdateNumber(n, i, Admitted(n, items, now))] \in Entry
    <3>1. UpdateNumber(n, i, Admitted(n, items, now)) \in Nat
      <4>1. updateCounter[n] \in Nat
        BY DEF TypeOK
      <4> QED
        BY <4>1, <1>2, UpdateNumberFacts
    <3>2. i.record \in Records
      BY DEF Admitted, PageItems, Item
    <3> QED
      BY <3>1, <3>2 DEF Entry
  <2>3. \/ Merged(n, items, now)[d] = entries[n][d]
        \/ \E i \in Admitted(n, items, now) :
             Merged(n, items, now)[d] =
               [record |-> i.record,
                lastUpdated |-> UpdateNumber(n, i, Admitted(n, items, now))]
    BY MergedEntry
  <2> QED
    BY <2>1, <2>2, <2>3, Zenon
<1>4. Merged(n, items, now) = [d \in Dids |-> Merged(n, items, now)[d]]
  BY DEF Merged
<1> QED
  BY <1>1, <1>2, <1>3, <1>4

\* Every entry stays or improves: what was not better than the old entry is
\* not better than the new one.
LEMMA MergedImproves ==
  ASSUME TypeOK, NEW n \in Nodes, NEW items, PageItems(items), NEW now \in Clocks,
         NEW d \in Dids, Held(n, d), NEW r \in Records, ~Beats(r, entries[n][d].record)
  PROVE  /\ Merged(n, items, now)[d] # None
         /\ ~Beats(r, Merged(n, items, now)[d].record)
<1>1. CASE Merged(n, items, now)[d] = entries[n][d]
  BY <1>1 DEF Held
<1>2. CASE Merged(n, items, now)[d] # entries[n][d]
  <2>1. PICK i \in Admitted(n, items, now) :
          /\ i.record.did = d
          /\ Merged(n, items, now)[d] =
               [record |-> i.record,
                lastUpdated |-> UpdateNumber(n, i, Admitted(n, items, now))]
    BY <1>2, MergedEntry
  <2>2. Beats(i.record, entries[n][d].record)
    BY <2>1 DEF Admitted, Admits
  <2>3. i.record \in Records /\ entries[n][d].record \in Records
    <3>1. i \in Item
      BY DEF Admitted, PageItems
    <3>2. entries[n][d] \in Entry
      BY DEF TypeOK, Held
    <3> QED
      BY <3>1, <3>2 DEF Item, Entry
  <2>4. ~Beats(r, i.record)
    BY <2>2, <2>3, BeatsTransitive
  <2>5. Merged(n, items, now)[d] \in Entry
    <3>2. UpdateNumber(n, i, Admitted(n, items, now)) \in Nat
      <4>1. updateCounter[n] \in Nat /\ Cardinality(Admitted(n, items, now)) \in Nat
        BY MergedType DEF TypeOK
      <4> QED
        BY <4>1, UpdateNumberFacts
    <3> QED
      BY <2>1, <2>3, <3>2 DEF Entry
  <2>6. Merged(n, items, now)[d] # None
    BY <2>5, SyncAssumption
  <2> QED
    BY <2>1, <2>4, <2>6
<1> QED
  BY <1>1, <1>2

\* A candidate that is admissible is covered once the ingress has run.
LEMMA MergedCovers ==
  ASSUME TypeOK, NEW n \in Nodes, NEW items, PageItems(items), NEW now \in Clocks,
         NEW i \in items, Admissible(i.record, now)
  PROVE  /\ i.record.did \in Dids
         /\ Merged(n, items, now)[i.record.did] # None
         /\ ~Beats(i.record, Merged(n, items, now)[i.record.did].record)
<1> DEFINE d == i.record.did
<1>1. i.record \in Records /\ d \in Dids
  BY SyncAssumption DEF PageItems, Item
<1>2. CASE Admits(n, i.record, now)
  <2>1. PICK j \in Admitted(n, items, now) :
          /\ j.record.did = d
          /\ Merged(n, items, now)[d] =
               [record |-> j.record,
                lastUpdated |-> UpdateNumber(n, j, Admitted(n, items, now))]
    BY <1>1, <1>2, MergedEntry
  <2>2. j = i
    BY <2>1 DEF PageItems, Admitted
  <2>3. Merged(n, items, now)[d].record = i.record
    BY <2>1, <2>2
  <2>4. Merged(n, items, now)[d] # None
    <3>1. UpdateNumber(n, j, Admitted(n, items, now)) \in Nat
      <4>1. updateCounter[n] \in Nat /\ Cardinality(Admitted(n, items, now)) \in Nat
        BY MergedType DEF TypeOK
      <4> QED
        BY <4>1, UpdateNumberFacts
    <3>2. Merged(n, items, now)[d] \in Entry
      BY <2>1, <2>2, <1>1, <3>1 DEF Entry
    <3> QED
      BY <3>2, SyncAssumption
  <2> QED
    BY <1>1, <2>3, <2>4, BeatsIrreflexive
<1>3. CASE ~Admits(n, i.record, now)
  <2>1. Held(n, d) /\ ~Beats(i.record, entries[n][d].record)
    BY <1>3 DEF Admits
  <2> QED
    BY <1>1, <2>1, MergedImproves
<1> QED
  BY <1>2, <1>3

\* What one ingress does to all the nodes' entries.
LEMMA IngressEffect ==
  ASSUME TypeOK, NEW n \in Nodes, NEW items, PageItems(items), NEW now \in Clocks,
         Ingress(n, items, now)
  PROVE  /\ entries' \in [Nodes -> [Dids -> Entry \cup {None}]]
         /\ updateCounter' \in [Nodes -> Nat]
         /\ seen' \in [Nodes -> SUBSET Records]
         /\ entries'[n] = Merged(n, items, now)
         /\ updateCounter'[n] = updateCounter[n] + Cardinality(Admitted(n, items, now))
         /\ \A m \in Nodes \ {n} :
              entries'[m] = entries[m] /\ updateCounter'[m] = updateCounter[m]
<1>1. Merged(n, items, now) \in [Dids -> Entry \cup {None}]
  BY MergedType
<1>2. entries' \in [Nodes -> [Dids -> Entry \cup {None}]]
  BY <1>1 DEF TypeOK, Ingress
<1>3. updateCounter' \in [Nodes -> Nat]
  BY MergedType DEF TypeOK, Ingress
<1>4. {i.record : i \in {j \in items : Admissible(j.record, now)}} \in SUBSET Records
  BY DEF PageItems, Item
<1>5. seen' \in [Nodes -> SUBSET Records]
  BY <1>4 DEF TypeOK, Ingress
<1>6. /\ entries'[n] = Merged(n, items, now)
      /\ updateCounter'[n] = updateCounter[n] + Cardinality(Admitted(n, items, now))
      /\ \A m \in Nodes \ {n} :
           entries'[m] = entries[m] /\ updateCounter'[m] = updateCounter[m]
  BY DEF TypeOK, Ingress
<1> QED
  BY <1>2, <1>3, <1>5, <1>6

\* An ingress gives new entries numbers after the counter, and leaves the others.
LEMMA IngressNumbers ==
  ASSUME TypeOK, NEW n \in Nodes, NEW items, PageItems(items), NEW now \in Clocks,
         Ingress(n, items, now), NEW m \in Nodes, NEW d \in Dids
  PROVE  /\ updateCounter[m] <= updateCounter'[m]
         /\ \/ entries'[m][d] = entries[m][d]
            \/ entries'[m][d].lastUpdated > updateCounter[m]
<1>1. updateCounter[m] \in Nat /\ Cardinality(Admitted(n, items, now)) \in Nat
  BY MergedType DEF TypeOK
<1>2. CASE m # n
  BY <1>1, <1>2, IngressEffect
<1>3. CASE m = n
  <2>1. entries'[m] = Merged(n, items, now)
    BY <1>3, IngressEffect
  <2>2. updateCounter[m] <= updateCounter'[m]
    BY <1>1, <1>3, IngressEffect
  <2>3. ASSUME NEW i \in Admitted(n, items, now)
        PROVE  UpdateNumber(n, i, Admitted(n, items, now)) > updateCounter[n]
    BY <1>1, <1>3, UpdateNumberFacts
  <2>4. \/ Merged(n, items, now)[d] = entries[n][d]
        \/ \E i \in Admitted(n, items, now) :
             Merged(n, items, now)[d] =
               [record |-> i.record,
                lastUpdated |-> UpdateNumber(n, i, Admitted(n, items, now))]
    BY MergedEntry
  <2>5. CASE Merged(n, items, now)[d] = entries[n][d]
    BY <1>3, <2>1, <2>2, <2>5
  <2>6. CASE Merged(n, items, now)[d] # entries[n][d]
    <3>1. PICK i \in Admitted(n, items, now) :
            Merged(n, items, now)[d] =
               [record |-> i.record,
                lastUpdated |-> UpdateNumber(n, i, Admitted(n, items, now))]
      BY <2>4, <2>6
    <3>2. entries'[m][d].lastUpdated = UpdateNumber(n, i, Admitted(n, items, now))
      BY <2>1, <3>1
    <3> QED
      BY <1>3, <2>2, <2>3, <3>2
  <2> QED
    BY <2>5, <2>6
<1> QED
  BY <1>2, <1>3

\* What was covered stays covered.
LEMMA CoversStays ==
  ASSUME TypeOK, NEW n \in Nodes, NEW items, PageItems(items), NEW now \in Clocks,
         Ingress(n, items, now), NEW m \in Nodes, deferred[m] \subseteq deferred'[m],
         NEW r \in Records, Covers(m, r)
  PROVE  Covers(m, r)'
<1>1. r.did \in Dids
  BY SyncAssumption
<1>2. CASE r \in deferred[m]
  BY <1>2 DEF Covers
<1>3. CASE Held(m, r.did) /\ ~Beats(r, entries[m][r.did].record)
  <2>1. CASE m = n
    BY <1>1, <1>3, <2>1, MergedImproves, IngressEffect DEF Covers, Held
  <2>2. CASE m # n
    BY <1>1, <1>3, <2>2, IngressEffect DEF Covers, Held
  <2> QED
    BY <2>1, <2>2
<1> QED
  BY <1>2, <1>3 DEF Covers

\* An ingress keeps records under their own identity, and numbers distinct.
LEMMA IngressKeeps ==
  ASSUME TypeOK, HeldIsBound, UpdateNumbers,
         NEW n \in Nodes, NEW items, PageItems(items), NEW now \in Clocks,
         Ingress(n, items, now)
  PROVE  HeldIsBound' /\ UpdateNumbers'
<1> DEFINE new == Admitted(n, items, now)
           Number(i) == UpdateNumber(n, i, new)
<1>1. /\ updateCounter[n] \in Nat /\ Cardinality(new) \in Nat
      /\ updateCounter'[n] = updateCounter[n] + Cardinality(new)
  BY MergedType, IngressEffect DEF TypeOK
<1>2. \A i \in new : /\ Number(i) \in updateCounter[n] + 1 .. updateCounter[n] + Cardinality(new)
                     /\ \A j \in new : Number(j) = Number(i) => i = j
  BY UpdateNumberFacts
<1>3. \A d \in Dids :
        \/ entries'[n][d] = entries[n][d]
        \/ \E i \in new : /\ i.record.did = d
                          /\ entries'[n][d] = [record |-> i.record, lastUpdated |-> Number(i)]
  <2>1. entries'[n] = Merged(n, items, now)
    BY IngressEffect
  <2>2. ASSUME NEW d \in Dids
        PROVE  \/ entries'[n][d] = entries[n][d]
               \/ \E i \in new : /\ i.record.did = d
                                 /\ entries'[n][d] =
                                      [record |-> i.record, lastUpdated |-> Number(i)]
    BY <2>1, MergedEntry
  <2> QED
    BY <2>2
<1>4. \A i \in new : i.record.bound
  BY DEF Admitted, Admits, Admissible
<1>5. \A m \in Nodes \ {n} : entries'[m] = entries[m] /\ updateCounter'[m] = updateCounter[m]
  BY IngressEffect
<1>6. \A d \in Dids : Held(n, d) =>
        /\ entries[n][d].record.bound /\ entries[n][d].record.did = d
        /\ entries[n][d].lastUpdated \in 1 .. updateCounter[n]
        /\ \A e \in Dids : Held(n, e) /\ entries[n][e].lastUpdated = entries[n][d].lastUpdated => d = e
  BY DEF HeldIsBound, UpdateNumbers
<1> HIDE DEF new, Number
<1>7. HeldIsBound'
  <2> SUFFICES ASSUME NEW m \in Nodes, NEW d \in Dids, Held(m, d)'
               PROVE  entries'[m][d].record.bound /\ entries'[m][d].record.did = d
    BY DEF HeldIsBound
  <2>1. CASE m # n
    BY <1>5, <2>1 DEF HeldIsBound, Held
  <2>2. CASE m = n
    <3>1. CASE entries'[n][d] = entries[n][d]
      BY <1>6, <2>2, <3>1 DEF Held
    <3>2. CASE entries'[n][d] # entries[n][d]
      <4>1. PICK i \in new : /\ i.record.did = d
                            /\ entries'[n][d] = [record |-> i.record, lastUpdated |-> Number(i)]
        BY <1>3, <3>2
      <4>2. entries'[n][d].record = i.record
        BY <4>1
      <4> QED
        BY <1>4, <2>2, <4>1, <4>2
    <3> QED
      BY <3>1, <3>2
  <2> QED
    BY <2>1, <2>2
<1>8. UpdateNumbers'
  <2> SUFFICES ASSUME NEW m \in Nodes, NEW d \in Dids, Held(m, d)'
               PROVE  /\ entries'[m][d].lastUpdated \in 1 .. updateCounter'[m]
                      /\ \A e \in Dids :
                           Held(m, e)' /\ entries'[m][e].lastUpdated = entries'[m][d].lastUpdated
                             => d = e
    BY DEF UpdateNumbers
  <2>1. CASE m # n
    BY <1>5, <2>1 DEF UpdateNumbers, Held
  <2>2. CASE m = n
    <3>1. ASSUME NEW c \in Dids, Held(n, c)'
          PROVE  \/ /\ entries'[n][c] = entries[n][c] /\ Held(n, c)
                    /\ entries'[n][c].lastUpdated \in 1 .. updateCounter[n]
                 \/ \E i \in new : /\ i.record.did = c
                                   /\ entries'[n][c].lastUpdated = Number(i)
      <4>1. CASE entries'[n][c] = entries[n][c]
        BY <1>6, <3>1, <4>1 DEF Held
      <4>2. CASE entries'[n][c] # entries[n][c]
        <5>1. PICK i \in new : /\ i.record.did = c
                              /\ entries'[n][c] = [record |-> i.record, lastUpdated |-> Number(i)]
          BY <1>3, <4>2
        <5>2. entries'[n][c].lastUpdated = Number(i)
          BY <5>1
        <5> QED
          BY <5>1, <5>2
      <4> QED
        BY <4>1, <4>2
    <3>2. entries'[n][d].lastUpdated \in 1 .. updateCounter'[n]
      BY <1>1, <1>2, <2>2, <3>1
    <3>3. ASSUME NEW e \in Dids, Held(n, e)',
                 entries'[n][e].lastUpdated = entries'[n][d].lastUpdated
          PROVE  d = e
      <4>1. CASE entries'[n][d].lastUpdated <= updateCounter[n]
        BY <1>1, <1>2, <1>6, <2>2, <3>1, <3>3, <4>1
      <4>2. CASE ~(entries'[n][d].lastUpdated <= updateCounter[n])
        <5>1. PICK i \in new : i.record.did = d /\ entries'[n][d].lastUpdated = Number(i)
          BY <1>1, <2>2, <3>1, <4>2
        <5>2. PICK j \in new : j.record.did = e /\ entries'[n][e].lastUpdated = Number(j)
          BY <1>1, <3>1, <3>3, <4>2
        <5>3. i = j
          BY <1>2, <3>3, <5>1, <5>2
        <5> QED
          BY <5>1, <5>2, <5>3
      <4> QED
        BY <4>1, <4>2
    <3> QED
      BY <2>2, <3>2, <3>3
  <2> QED
    BY <2>1, <2>2
<1> QED
  BY <1>7, <1>8

\* A part of a feed is a set of items for a page.
LEMMA FeedItems ==
  ASSUME TypeOK, HeldIsBound, UpdateNumbers, NEW p \in Nodes, NEW after \in Nat, NEW upTo \in Nat
  PROVE  PageItems(Feed(p, after, upTo))
<1> DEFINE S == {d \in Dids : Listed(p, d, after, upTo)}
           ItemOf(d) == [record |-> entries[p][d].record, position |-> entries[p][d].lastUpdated]
           f == [d \in S |-> ItemOf(d)]
<1>1. Feed(p, after, upTo) = {ItemOf(d) : d \in S}
  BY DEF Feed
<1>2. \A d \in S : entries[p][d] \in Entry /\ Held(p, d)
  BY DEF Listed, Held, TypeOK
<1>3. \A d \in S : ItemOf(d) \in Item
  BY <1>2 DEF Entry, Item
<1>4. IsFiniteSet(S)
  BY SyncAssumption, FS_Subset
<1>5. f \in Surjection(S, Feed(p, after, upTo))
  BY <1>1 DEF Surjection
<1>6. IsFiniteSet(Feed(p, after, upTo))
  BY <1>4, <1>5, FS_Surjection
<1>7. \A d, e \in S : \/ ItemOf(d).record.did = ItemOf(e).record.did
                      \/ ItemOf(d).position = ItemOf(e).position
                      => d = e
  BY <1>2 DEF HeldIsBound, UpdateNumbers
<1>8. \A i, j \in Feed(p, after, upTo) :
        i.record.did = j.record.did \/ i.position = j.position => i = j
  BY <1>1, <1>7
<1> QED
  BY <1>1, <1>3, <1>6, <1>8 DEF PageItems

\* An answer to n's pull is a reply, and a page of it is sound.
LEMMA AnswerSound ==
  ASSUME Inv, NEW n \in Nodes, Peer[n] # None, NEW limit \in Limits,
         NEW answer \in Answers(Peer[n], peerCursor[n], limit)
  PROVE  /\ answer \in Reply
         /\ answer.kind = "page" =>
              /\ PageItems(answer.items)
              /\ answer.cursor.generation = generation[Peer[n]]
              /\ answer.cursor.position \in 0 .. updateCounter[Peer[n]]
              /\ \A d \in Dids :
                   /\ Held(Peer[n], d)
                   /\ entries[Peer[n]][d].lastUpdated <= answer.cursor.position
                   => \/ Covers(n, entries[Peer[n]][d].record)
                      \/ \E i \in answer.items : i.record = entries[Peer[n]][d].record
<1> DEFINE p == Peer[n]
           after == IF peerCursor[n] = None THEN 0 ELSE peerCursor[n].position
<1>1. p \in Nodes
  BY SyncAssumption
<1>2. /\ TypeOK /\ HeldIsBound /\ UpdateNumbers
      /\ peerCursor[n] \in Cursor \cup {None}
      /\ updateCounter[p] \in Nat /\ generation[p] \in Nat
  BY <1>1 DEF Inv, TypeOK
<1>3. after \in Nat
  BY <1>2 DEF Cursor
<1>4. CASE peerCursor[n] # None /\ peerCursor[n].generation # generation[p]
  <2>1. answer = [kind |-> "resetRequired"]
    BY <1>4 DEF Answers
  <2> QED
    BY <2>1 DEF Reply
<1>5. CASE ~(peerCursor[n] # None /\ peerCursor[n].generation # generation[p])
  <2>1. PICK end \in Ends(p, after, limit) : answer = PageOf(p, after, end)
    BY <1>5 DEF Answers
  <2>2. /\ end \in after .. updateCounter[p] /\ end \in Nat
        /\ answer.kind = "page"
        /\ answer.items = Feed(p, after, end)
        /\ answer.cursor = [generation |-> generation[p], position |-> end]
    BY <1>2, <1>3, <2>1 DEF Ends, PageOf
  <2>3. PageItems(answer.items)
    BY <1>1, <1>2, <1>3, <2>2, FeedItems
  <2>4. answer \in Reply
    <3>1. answer.cursor \in Cursor /\ answer.items \in SUBSET Item
      BY <1>2, <2>2, <2>3 DEF Cursor, PageItems
    <3> QED
      BY <2>1, <2>2, <3>1 DEF Reply, PageOf
  <2>5. ASSUME NEW d \in Dids, Held(p, d), entries[p][d].lastUpdated <= end
        PROVE  \/ Covers(n, entries[p][d].record)
               \/ \E i \in answer.items : i.record = entries[p][d].record
    <3>1. entries[p][d].lastUpdated \in 1 .. updateCounter[p]
      BY <1>1, <1>2, <2>5 DEF UpdateNumbers
    <3>2. CASE entries[p][d].lastUpdated > after
      <4>1. Listed(p, d, after, end)
        BY <2>5, <3>2 DEF Listed
      <4>2. [record |-> entries[p][d].record, position |-> entries[p][d].lastUpdated] \in answer.items
        BY <2>2, <4>1 DEF Feed
      <4> QED
        BY <4>2
    <3>3. CASE ~(entries[p][d].lastUpdated > after)
      <4>1. /\ entries[p][d].lastUpdated <= after /\ peerCursor[n] # None
            /\ after = peerCursor[n].position
        BY <1>3, <3>1, <3>3
      <4> QED
        BY <1>1, <1>5, <2>5, <4>1 DEF Inv, CursorSound
    <3> QED
      BY <3>2, <3>3
  <2> QED
    BY <1>2, <1>3, <2>2, <2>3, <2>4, <2>5
<1> QED
  BY <1>4, <1>5

----------------------------------------------------------------------------
\* The invariant holds at the start.
LEMMA InitInv ==
  Init => Inv
<1> SUFFICES ASSUME Init PROVE Inv
  OBVIOUS
<1>1. IsFiniteSet(Nodes) /\ Cardinality(Nodes) \in Nat
  BY SyncAssumption, FS_CardinalityType
<1>2. \A n \in Nodes : generation[n] \in 1 .. Cardinality(Nodes)
  BY DEF Init
<1>3. \A n \in Nodes, d \in Dids : ~Held(n, d)
  BY DEF Init, EmptyEntries, Held
<1>4. \A n \in Nodes : peerCursor[n] = None /\ reply[n] = None
  BY DEF Init
<1>5. TypeOK
  BY <1>1, <1>2 DEF Init, TypeOK, EmptyEntries, FixtureGeneration
<1>6. HeldIsBound /\ UpdateNumbers
  BY <1>3 DEF HeldIsBound, UpdateNumbers
<1>7. Generations
  BY <1>1, <1>2, <1>4 DEF Generations, Init
<1>8. CursorReached /\ ReplySound /\ CursorSound
  BY <1>4 DEF CursorReached, ReplySound, CursorSound
<1> QED
  BY <1>5, <1>6, <1>7, <1>8 DEF Inv

\* A step that puts or takes away one reply, and at most discards a cursor,
\* keeps the invariant if a page it puts is sound.
LEMMA ReplyKeepsInv ==
  ASSUME Inv, NEW n \in Nodes, NEW x \in Reply \cup {None},
         x # None /\ x.kind = "page" => SoundPage(n, x),
         reply' = [reply EXCEPT ![n] = x],
         peerCursor' = peerCursor \/ peerCursor' = [peerCursor EXCEPT ![n] = None],
         UNCHANGED <<generation, entries, updateCounter, created, seen, deferred>>
  PROVE  Inv'
<1>1. /\ generation' = generation /\ entries' = entries /\ updateCounter' = updateCounter
      /\ created' = created /\ seen' = seen /\ deferred' = deferred
      /\ reply'[n] = x
      /\ \A m \in Nodes \ {n} : reply'[m] = reply[m]
      /\ \A m \in Nodes : peerCursor'[m] = peerCursor[m] \/ peerCursor'[m] = None
  BY DEF Inv, TypeOK
<1>2. /\ TypeOK /\ HeldIsBound /\ UpdateNumbers
      /\ Generations /\ CursorReached /\ ReplySound /\ CursorSound
  BY DEF Inv
<1>3. TypeOK'
  BY <1>1, <1>2 DEF TypeOK
<1>4. HeldIsBound' /\ UpdateNumbers'
  BY <1>1, <1>2 DEF HeldIsBound, UpdateNumbers, Held
<1>5. Generations'
  BY <1>1, <1>2 DEF Generations, SoundPage
<1>6. CursorReached'
  BY <1>1, <1>2 DEF CursorReached
<1>7. CursorSound'
  BY <1>1, <1>2 DEF CursorSound, Covers, Held
<1>8. ReplySound'
  <2> SUFFICES ASSUME NEW m \in Nodes, reply'[m] # None, reply'[m].kind = "page"
               PROVE  SoundPage(m, reply[m])'
    BY DEF ReplySound
  <2>1. SoundPage(m, reply'[m])
    BY <1>1, <1>2 DEF ReplySound
  <2> DEFINE page == reply'[m]
  <2>2. /\ PageItems(page.items) /\ Peer[m] # None /\ page.cursor.generation <= created
        /\ page.cursor.generation = generation[Peer[m]] =>
             /\ page.cursor.position <= updateCounter[Peer[m]]
             /\ \A d \in Dids :
                  entries[Peer[m]][d] # None
                  /\ entries[Peer[m]][d].lastUpdated <= page.cursor.position
                    => \/ Covers(m, entries[Peer[m]][d].record)
                       \/ \E i \in page.items : i.record = entries[Peer[m]][d].record
    BY <2>1 DEF SoundPage, Held
  <2>3. \A d \in Dids : Covers(m, entries[Peer[m]][d].record)
                       => Covers(m, entries[Peer[m]][d].record)'
    BY <1>1 DEF Covers, Held
  <2> QED
    BY <1>1, <2>2, <2>3 DEF SoundPage, PageItems, Held
<1> QED
  BY <1>3, <1>4, <1>5, <1>6, <1>7, <1>8 DEF Inv

\* The answer of the peer, and that of the fixture server, are on their way.
LEMMA AskKeepsInv ==
  ASSUME Inv, NEW n \in Nodes, AskFixture(n) \/ \E limit \in Limits : Ask(n, limit)
  PROVE  Inv'
<1>1. Peer[n] # None /\ Peer[n] \in Nodes
  BY SyncAssumption DEF AskFixture, Ask
<1>2. /\ TypeOK /\ generation[Peer[n]] \in Nat \ {0} /\ updateCounter[Peer[n]] \in Nat
      /\ created \in Nat /\ generation[Peer[n]] <= created
  BY <1>1 DEF Inv, TypeOK, Generations, FixtureGeneration
<1>3. CASE \E limit \in Limits : Ask(n, limit)
  <2>0. PICK limit \in Limits : Ask(n, limit)
    BY <1>3
  <2>1. PICK answer \in Answers(Peer[n], peerCursor[n], limit) :
          /\ reply' = [reply EXCEPT ![n] = answer]
          /\ UNCHANGED <<generation, entries, updateCounter, peerCursor, created, seen, deferred>>
    BY <2>0 DEF Ask
  <2>2. answer \in Reply /\ (answer.kind = "page" => SoundPage(n, answer))
    BY <1>1, <1>2, AnswerSound DEF SoundPage
  <2> QED
    BY <2>1, <2>2, ReplyKeepsInv
<1>4. CASE AskFixture(n)
  <2>1. PICK kind \in {"invalid", "page"} :
          /\ reply' = [reply EXCEPT ![n] =
                         [kind |-> kind, items |-> FixtureItems,
                          cursor |-> [generation |-> FixtureGeneration, position |-> 2]]]
          /\ UNCHANGED <<generation, entries, updateCounter, peerCursor, created, seen, deferred>>
    BY <1>4 DEF AskFixture
  <2> DEFINE x == [kind |-> kind, items |-> FixtureItems,
                   cursor |-> [generation |-> FixtureGeneration, position |-> 2]]
  <2>2. PageItems(x.items)
    BY SyncAssumption DEF PageItems
  <2>3. x.cursor.generation = 0
    BY DEF FixtureGeneration
  <2>4. SoundPage(n, x)
    BY <1>1, <1>2, <2>2, <2>3 DEF SoundPage
  <2>5. x \in Reply
    <3>1. [generation |-> FixtureGeneration, position |-> 2] \in Cursor
      BY DEF Cursor, FixtureGeneration
    <3> QED
      BY <3>1, SyncAssumption DEF Reply
  <2> QED
    BY <2>1, <2>4, <2>5, ReplyKeepsInv
<1> QED
  BY <1>3, <1>4

\* An answer that is lost, invalid, or resets the cursor.
LEMMA NoPageKeepsInv ==
  ASSUME Inv, NEW n \in Nodes, TakeReset(n) \/ TakeInvalid(n) \/ Lose(n)
  PROVE  Inv'
<1>1. /\ reply' = [reply EXCEPT ![n] = None]
      /\ peerCursor' = peerCursor \/ peerCursor' = [peerCursor EXCEPT ![n] = None]
      /\ UNCHANGED <<generation, entries, updateCounter, created, seen, deferred>>
  BY DEF TakeReset, TakeInvalid, Lose
<1> QED
  BY <1>1, ReplyKeepsInv

\* Entries at a position the counter had reached are those from before.
LEMMA OldEntry ==
  ASSUME TypeOK, NEW n \in Nodes, NEW items, PageItems(items), NEW now \in Clocks,
         Ingress(n, items, now), NEW p \in Nodes, NEW d \in Dids,
         NEW position \in Nat, position <= updateCounter[p],
         Held(p, d)', entries'[p][d].lastUpdated <= position
  PROVE  entries'[p][d] = entries[p][d] /\ Held(p, d)
<1>1. updateCounter[p] \in Nat /\ entries'[p][d] \in Entry
  BY IngressEffect DEF TypeOK, Held
<1>2. \/ entries'[p][d] = entries[p][d]
      \/ entries'[p][d].lastUpdated > updateCounter[p]
  BY IngressNumbers
<1>3. entries'[p][d].lastUpdated \in Nat
  BY <1>1 DEF Entry
<1>4. entries'[p][d] = entries[p][d]
  BY <1>1, <1>2, <1>3
<1> QED
  BY <1>4 DEF Held

\* A cursor that n may store once the ingress has run.
SoundCursor(n, cursor) ==
  /\ cursor \in Cursor
  /\ cursor.generation <= created
  /\ Peer[n] # None /\ cursor.generation = generation[Peer[n]] =>
       /\ cursor.position <= updateCounter[Peer[n]]
       /\ \A d \in Dids :
            Held(Peer[n], d) /\ entries[Peer[n]][d].lastUpdated <= cursor.position
              => Covers(n, entries[Peer[n]][d].record)'

\* A step that runs the ingress of a node, forgets replies and stores sound
\* cursors keeps the invariant.
LEMMA IngressKeepsInv ==
  ASSUME Inv, NEW n \in Nodes, NEW items, PageItems(items), NEW now \in Clocks,
         Ingress(n, items, now), UNCHANGED <<generation, created>>,
         deferred' \in [Nodes -> SUBSET Records],
         \A m \in Nodes : deferred[m] \subseteq deferred'[m],
         reply' \in [Nodes -> Reply \cup {None}],
         \A m \in Nodes : reply'[m] = reply[m] \/ reply'[m] = None,
         peerCursor' \in [Nodes -> Cursor \cup {None}],
         \A m \in Nodes : peerCursor'[m] = peerCursor[m] \/ SoundCursor(m, peerCursor'[m])
  PROVE  Inv'
<1>1. /\ TypeOK /\ HeldIsBound /\ UpdateNumbers
      /\ Generations /\ CursorReached /\ ReplySound /\ CursorSound
  BY DEF Inv
<1>2. TypeOK'
  BY <1>1, IngressEffect DEF TypeOK
<1>3. HeldIsBound' /\ UpdateNumbers'
  BY <1>1, IngressKeeps
<1>4. Generations'
  BY <1>1 DEF Generations, SoundCursor
<1>5. \A m \in Nodes : /\ updateCounter[m] \in Nat /\ updateCounter'[m] \in Nat
                       /\ updateCounter[m] <= updateCounter'[m]
  <2>1. ASSUME NEW m \in Nodes
        PROVE  /\ updateCounter[m] \in Nat /\ updateCounter'[m] \in Nat
               /\ updateCounter[m] <= updateCounter'[m]
    <3>1. updateCounter[m] \in Nat /\ updateCounter'[m] \in Nat
      BY <1>1, <1>2 DEF TypeOK
    <3>2. CASE m = n
      <4>1. /\ Cardinality(Admitted(n, items, now)) \in Nat
            /\ updateCounter'[n] = updateCounter[n] + Cardinality(Admitted(n, items, now))
        BY <1>1, IngressEffect, MergedType
      <4> QED
        BY <3>1, <3>2, <4>1
    <3>3. CASE m # n
      BY <1>1, <3>1, <3>3, IngressEffect
    <3> QED
      BY <3>2, <3>3
  <2> QED
    BY <2>1
<1>6. ASSUME NEW m \in Nodes, Peer[m] # None, NEW cursor \in Cursor,
             cursor.generation = generation[Peer[m]],
             cursor.position <= updateCounter[Peer[m]],
             NEW d \in Dids, Held(Peer[m], d)',
             entries'[Peer[m]][d].lastUpdated <= cursor.position
      PROVE  /\ Held(Peer[m], d)
             /\ entries'[Peer[m]][d] = entries[Peer[m]][d]
             /\ entries[Peer[m]][d].record \in Records
             /\ entries[Peer[m]][d].lastUpdated <= cursor.position
  <2>1. Peer[m] \in Nodes /\ cursor.position \in Nat
    BY <1>6, SyncAssumption DEF Cursor
  <2>2. Held(Peer[m], d) /\ entries'[Peer[m]][d] = entries[Peer[m]][d]
    BY <1>1, <1>6, <2>1, OldEntry
  <2>3. entries[Peer[m]][d] \in Entry
    BY <1>1, <2>1, <2>2 DEF TypeOK, Held
  <2> QED
    BY <1>6, <2>2, <2>3 DEF Entry
<1>7. CursorReached'
  <2> SUFFICES ASSUME NEW m \in Nodes, Peer[m] # None, peerCursor'[m] # None,
                      peerCursor'[m].generation = generation[Peer[m]]
               PROVE  peerCursor'[m].position <= updateCounter'[Peer[m]]
    BY DEF CursorReached
  <2>1. peerCursor'[m].position <= updateCounter[Peer[m]]
    BY <1>1 DEF CursorReached, SoundCursor
  <2>2. Peer[m] \in Nodes /\ peerCursor'[m].position \in Nat
    BY SyncAssumption DEF Cursor
  <2> QED
    BY <1>5, <2>1, <2>2
<1>8. ReplySound'
  <2> SUFFICES ASSUME NEW m \in Nodes, reply'[m] # None, reply'[m].kind = "page"
               PROVE  SoundPage(m, reply[m])'
    BY DEF ReplySound
  <2>1. reply'[m] = reply[m] /\ SoundPage(m, reply[m])
    BY <1>1 DEF ReplySound
  <2>2. reply[m].cursor \in Cursor /\ Peer[m] \in Nodes
    BY <2>1, SyncAssumption DEF Inv, TypeOK, Reply, SoundPage
  <2>3. PageItems(reply[m].items)' /\ Peer[m] # None /\ reply[m].cursor.generation <= created'
    BY <2>1 DEF SoundPage, PageItems
  <2>4. ASSUME reply[m].cursor.generation = generation[Peer[m]]
        PROVE  reply[m].cursor.position <= updateCounter'[Peer[m]]
    BY <1>5, <2>1, <2>2, <2>4 DEF SoundPage, Cursor
  <2>5. ASSUME reply[m].cursor.generation = generation[Peer[m]], NEW d \in Dids,
               Held(Peer[m], d)', entries'[Peer[m]][d].lastUpdated <= reply[m].cursor.position
        PROVE  \/ Covers(m, entries[Peer[m]][d].record)'
               \/ \E i \in reply[m].items : i.record = entries'[Peer[m]][d].record
    <3>1. /\ Held(Peer[m], d)
          /\ entries'[Peer[m]][d] = entries[Peer[m]][d]
          /\ entries[Peer[m]][d].record \in Records
          /\ entries[Peer[m]][d].lastUpdated <= reply[m].cursor.position
      BY <1>6, <2>1, <2>2, <2>5 DEF SoundPage
    <3>2. CASE Covers(m, entries[Peer[m]][d].record)
      <4>1. Covers(m, entries[Peer[m]][d].record)'
        BY <1>1, <3>1, <3>2, CoversStays
      <4> QED
        BY <3>1, <4>1
    <3>3. CASE \E i \in reply[m].items : i.record = entries[Peer[m]][d].record
      BY <3>1, <3>3
    <3> QED
      BY <2>1, <2>5, <3>1, <3>2, <3>3 DEF SoundPage
  <2> QED
    BY <2>1, <2>3, <2>4, <2>5 DEF SoundPage
<1>9. CursorSound'
  <2> SUFFICES ASSUME NEW m \in Nodes, Peer[m] # None, peerCursor'[m] # None,
                      peerCursor'[m].generation = generation[Peer[m]],
                      NEW d \in Dids, Held(Peer[m], d)',
                      entries'[Peer[m]][d].lastUpdated <= peerCursor'[m].position
               PROVE  Covers(m, entries[Peer[m]][d].record)'
    BY DEF CursorSound
  <2>1. peerCursor'[m] \in Cursor
    OBVIOUS
  <2>2. peerCursor'[m].position <= updateCounter[Peer[m]]
    BY <1>1 DEF CursorReached, SoundCursor
  <2>3. /\ Held(Peer[m], d)
        /\ entries'[Peer[m]][d] = entries[Peer[m]][d]
        /\ entries[Peer[m]][d].record \in Records
        /\ entries[Peer[m]][d].lastUpdated <= peerCursor'[m].position
    BY <1>6, <2>1, <2>2
  <2>4. CASE peerCursor'[m] = peerCursor[m]
    <3>1. Covers(m, entries[Peer[m]][d].record)
      BY <1>1, <2>3, <2>4 DEF CursorSound
    <3>2. Covers(m, entries[Peer[m]][d].record)'
      BY <1>1, <2>3, <3>1, CoversStays
    <3> QED
      BY <2>3, <3>2
  <2>5. CASE SoundCursor(m, peerCursor'[m])
    <3>1. Covers(m, entries[Peer[m]][d].record)'
      BY <2>3, <2>5 DEF SoundCursor
    <3> QED
      BY <2>3, <3>1
  <2> QED
    BY <2>4, <2>5
<1> QED
  BY <1>2, <1>3, <1>4, <1>7, <1>8, <1>9 DEF Inv

\* One record is a page of its own.
LEMMA OneItem ==
  ASSUME NEW r \in Records
  PROVE  PageItems({[record |-> r, position |-> 0]})
<1> DEFINE x == [record |-> r, position |-> 0]
<1>1. IsFiniteSet({x})
  BY FS_Singleton, Zenon
<1>2. x \in Item
  BY DEF Item
<1>3. PageItems({x})
  <2> HIDE DEF x
  <2> QED
    BY <1>1, <1>2 DEF PageItems
<1> QED
  BY <1>3

\* A publication leaves replies and cursors alone.
LEMMA PublishKeepsInv ==
  ASSUME Inv, NEW n \in Nodes, NEW r \in Records, NEW now \in Clocks, Publish(n, r, now)
  PROVE  Inv'
<1> DEFINE items == {[record |-> r, position |-> 0]}
<1>1. PageItems(items)
  BY OneItem
<1>2. Ingress(n, items, now) /\ UNCHANGED <<generation, peerCursor, reply, created, deferred>>
  BY DEF Publish
<1> HIDE DEF items
<1>3. /\ deferred' \in [Nodes -> SUBSET Records] /\ reply' \in [Nodes -> Reply \cup {None}]
      /\ peerCursor' \in [Nodes -> Cursor \cup {None}]
      /\ \A m \in Nodes : /\ deferred[m] \subseteq deferred'[m]
                          /\ reply'[m] = reply[m] /\ peerCursor'[m] = peerCursor[m]
  BY <1>2 DEF Inv, TypeOK
<1> QED
  BY <1>1, <1>2, <1>3, IngressKeepsInv

\* A taken page is judged candidate by candidate, so its cursor is sound after.
LEMMA TakePageKeepsInv ==
  ASSUME Inv, NEW n \in Nodes, NEW now \in Clocks, TakePage(n, now)
  PROVE  Inv'
<1> DEFINE items == reply[n].items
           cursor == reply[n].cursor
           premature == {i.record : i \in {j \in items :
                                           j.record.bound /\ j.record.timestamp > now}}
<1>1. /\ reply[n] # None /\ reply[n].kind = "page"
      /\ Ingress(n, items, now)
      /\ deferred' = [deferred EXCEPT ![n] = @ \cup premature]
      /\ peerCursor' = [peerCursor EXCEPT ![n] = cursor]
      /\ reply' = [reply EXCEPT ![n] = None]
      /\ UNCHANGED <<generation, created>>
  BY DEF TakePage
<1>2. TypeOK /\ HeldIsBound /\ SoundPage(n, reply[n])
  BY <1>1 DEF Inv, ReplySound
<1>3. PageItems(items) /\ Peer[n] # None /\ Peer[n] \in Nodes /\ Peer[n] # n
  BY <1>2, SyncAssumption DEF SoundPage
<1>4. cursor \in Cursor
  BY <1>1, <1>2 DEF TypeOK, Reply
<1>5. premature \in SUBSET Records
  BY <1>3 DEF PageItems, Item
<1>6. /\ deferred'[n] = deferred[n] \cup premature
      /\ deferred' \in [Nodes -> SUBSET Records]
      /\ \A m \in Nodes : deferred[m] \subseteq deferred'[m]
  <2> HIDE DEF premature
  <2> QED
    BY <1>1, <1>2, <1>5 DEF TypeOK
<1>7. SoundCursor(n, cursor)
  <2>1. ASSUME cursor.generation = generation[Peer[n]], NEW d \in Dids, Held(Peer[n], d),
               entries[Peer[n]][d].lastUpdated <= cursor.position
        PROVE  Covers(n, entries[Peer[n]][d].record)'
    <3> DEFINE r == entries[Peer[n]][d].record
    <3>1. /\ r \in Records /\ r.bound
          /\ entries'[Peer[n]] = entries[Peer[n]]
      <4>1. entries[Peer[n]][d] \in Entry
        BY <1>2, <1>3, <2>1 DEF TypeOK, Held
      <4> QED
        BY <1>1, <1>2, <1>3, <2>1, <4>1, IngressEffect DEF HeldIsBound, Entry
    <3>2. CASE Covers(n, r)
      <4>1. Covers(n, r) => \/ Held(n, r.did)' /\ ~Beats(r, entries'[n][r.did].record)
                            \/ r \in deferred'[n]
        <5>1. r.did \in Dids
          BY <3>1, SyncAssumption
        <5>2. entries'[n] = Merged(n, items, now)
          BY <1>1, <1>2, <1>3, IngressEffect
        <5>3. CASE Held(n, r.did) /\ ~Beats(r, entries[n][r.did].record)
          BY <1>2, <1>3, <3>1, <5>1, <5>2, <5>3, MergedImproves DEF Held
        <5> QED
          BY <1>6, <5>3 DEF Covers
      <4> QED
        BY <3>1, <3>2, <4>1 DEF Covers
    <3>3. CASE \E i \in items : i.record = r
      <4>1. PICK i \in items : i.record = r
        BY <3>3
      <4>2. r.timestamp \in Nat /\ now \in Nat
        BY <3>1, SyncAssumption
      <4>3. CASE r.timestamp <= now
        <5>1. Admissible(i.record, now)
          BY <3>1, <4>1, <4>3 DEF Admissible
        <5>2. /\ Merged(n, items, now)[r.did] # None
              /\ ~Beats(r, Merged(n, items, now)[r.did].record)
          BY <1>2, <1>3, <4>1, <5>1, MergedCovers
        <5>3. entries'[n] = Merged(n, items, now)
          BY <1>1, <1>2, <1>3, IngressEffect
        <5> QED
          BY <3>1, <5>2, <5>3 DEF Covers, Held
      <4>4. CASE ~(r.timestamp <= now)
        <5>1. r \in premature
          BY <3>1, <4>1, <4>2, <4>4
        <5> QED
          BY <1>6, <3>1, <5>1 DEF Covers
      <4> QED
        BY <4>3, <4>4
    <3> QED
      BY <1>2, <2>1, <3>2, <3>3 DEF SoundPage
  <2> QED
    BY <1>2, <1>4, <2>1 DEF SoundPage, SoundCursor
<1>8. /\ reply' \in [Nodes -> Reply \cup {None}]
      /\ peerCursor' \in [Nodes -> Cursor \cup {None}]
      /\ \A m \in Nodes : reply'[m] = reply[m] \/ reply'[m] = None
  <2> HIDE DEF cursor
  <2> QED
    BY <1>1, <1>2, <1>4 DEF TypeOK
<1>9. \A m \in Nodes : peerCursor'[m] = peerCursor[m] \/ SoundCursor(m, peerCursor'[m])
  BY <1>1, <1>2, <1>7 DEF TypeOK
<1> QED
  BY <1>1, <1>3, <1>6, <1>8, <1>9, IngressKeepsInv

\* No cursor and no page on its way is of the generation of a fresh database.
LEMMA FreshKeepsInv ==
  ASSUME Inv, NEW n \in Nodes, Fresh(n)
  PROVE  Inv'
<1>1. /\ TypeOK /\ HeldIsBound /\ UpdateNumbers
      /\ Generations /\ CursorReached /\ ReplySound /\ CursorSound
  BY DEF Inv
<1>2. TypeOK'
  BY <1>1 DEF TypeOK, Fresh, EmptyEntries, FixtureGeneration
<1>3. /\ created \in Nat /\ created' = created + 1
      /\ generation'[n] = created + 1
      /\ entries'[n] = EmptyEntries
      /\ peerCursor'[n] = None /\ reply'[n] = None
      /\ \A m \in Nodes \ {n} :
           /\ generation'[m] = generation[m] /\ entries'[m] = entries[m]
           /\ updateCounter'[m] = updateCounter[m] /\ peerCursor'[m] = peerCursor[m]
           /\ reply'[m] = reply[m] /\ deferred'[m] = deferred[m]
  BY <1>1 DEF TypeOK, Fresh
<1>4. \A d \in Dids : ~Held(n, d)'
  BY <1>3 DEF Held, EmptyEntries
<1>5. HeldIsBound' /\ UpdateNumbers'
  BY <1>1, <1>3, <1>4 DEF HeldIsBound, UpdateNumbers, Held
<1>6. Generations'
  <2>1. \A m \in Nodes : /\ generation[m] \in Nat
                         /\ peerCursor[m] # None => peerCursor[m].generation \in Nat
    BY <1>1 DEF TypeOK, Cursor
  <2> QED
    BY <1>1, <1>3, <2>1 DEF Generations
<1>7. ASSUME NEW m \in Nodes \ {n}, Peer[m] = n, NEW cursor \in Cursor,
             cursor.generation <= created
      PROVE  cursor.generation # generation'[Peer[m]]
  BY <1>3, <1>7 DEF Cursor
<1>8. \A m \in Nodes \ {n}, r \in Records : Covers(m, r) => Covers(m, r)'
  BY <1>3 DEF Covers, Held
<1>9. CursorReached'
  <2> SUFFICES ASSUME NEW m \in Nodes \ {n}, Peer[m] # None, peerCursor[m] # None,
                      peerCursor[m].generation = generation'[Peer[m]]
               PROVE  peerCursor[m].position <= updateCounter'[Peer[m]]
    BY <1>3 DEF CursorReached
  <2>1. Peer[m] \in Nodes \ {n}
    BY <1>1, <1>7, SyncAssumption DEF TypeOK, Generations
  <2> QED
    BY <1>1, <1>3, <2>1 DEF CursorReached
<1>10. CursorSound'
  <2> SUFFICES ASSUME NEW m \in Nodes \ {n}, Peer[m] # None, peerCursor[m] # None,
                      peerCursor[m].generation = generation'[Peer[m]],
                      NEW d \in Dids, Held(Peer[m], d)',
                      entries'[Peer[m]][d].lastUpdated <= peerCursor[m].position
               PROVE  Covers(m, entries[Peer[m]][d].record)'
    BY <1>3 DEF CursorSound
  <2>1. Peer[m] \in Nodes \ {n}
    BY <1>1, <1>7, SyncAssumption DEF TypeOK, Generations
  <2>2. entries'[Peer[m]] = entries[Peer[m]] /\ Held(Peer[m], d)
    BY <1>3, <2>1 DEF Held
  <2>3. entries[Peer[m]][d].record \in Records
    BY <1>1, <2>1, <2>2 DEF TypeOK, Held, Entry
  <2>4. Covers(m, entries[Peer[m]][d].record)
    BY <1>1, <1>3, <2>1, <2>2 DEF CursorSound
  <2> QED
    BY <1>3, <2>2, <2>4 DEF Covers, Held
<1>11. ReplySound'
  <2> SUFFICES ASSUME NEW m \in Nodes \ {n}, reply[m] # None, reply[m].kind = "page",
                      reply'[m] = reply[m]
               PROVE  SoundPage(m, reply[m])'
    BY <1>3 DEF ReplySound
  <2> DEFINE page == reply[m]
  <2>1. SoundPage(m, page) /\ page.cursor \in Cursor /\ Peer[m] \in Nodes
    BY <1>1, SyncAssumption DEF ReplySound, TypeOK, Reply, SoundPage
  <2>2. PageItems(page.items) /\ Peer[m] # None /\ page.cursor.generation <= created'
    BY <1>3, <2>1 DEF SoundPage, Cursor
  <2>3. ASSUME page.cursor.generation = generation'[Peer[m]]
        PROVE  /\ page.cursor.position <= updateCounter'[Peer[m]]
               /\ \A d \in Dids :
                    Held(Peer[m], d)' /\ entries'[Peer[m]][d].lastUpdated <= page.cursor.position
                      => \/ Covers(m, entries[Peer[m]][d].record)'
                         \/ \E i \in page.items : i.record = entries'[Peer[m]][d].record
    <3>1. Peer[m] # n
      BY <1>7, <2>1, <2>3 DEF SoundPage
    <3>2. /\ entries'[Peer[m]] = entries[Peer[m]] /\ generation'[Peer[m]] = generation[Peer[m]]
          /\ updateCounter'[Peer[m]] = updateCounter[Peer[m]]
      BY <1>3, <2>1, <3>1
    <3>3. \A d \in Dids : Covers(m, entries[Peer[m]][d].record)
                            => Covers(m, entries[Peer[m]][d].record)'
      BY <1>3, <3>2 DEF Covers, Held
    <3> QED
      BY <2>1, <2>3, <3>2, <3>3 DEF SoundPage, Held
  <2> QED
    BY <2>2, <2>3 DEF SoundPage, PageItems
<1> QED
  BY <1>2, <1>5, <1>6, <1>9, <1>10, <1>11 DEF Inv

\* Every step keeps the invariant.
LEMMA NextInv ==
  Inv /\ [Next]_vars => Inv'
<1> SUFFICES ASSUME Inv, [Next]_vars PROVE Inv'
  OBVIOUS
<1>1. CASE Next
  <2> PICK n \in Nodes :
        \/ \E r \in Records, now \in Clocks : Publish(n, r, now)
        \/ \E limit \in Limits : Ask(n, limit)
        \/ AskFixture(n)
        \/ \E now \in Clocks : TakePage(n, now)
        \/ TakeReset(n) \/ TakeInvalid(n) \/ Lose(n)
        \/ Fresh(n)
    BY <1>1 DEF Next
  <2>1. CASE \E r \in Records, now \in Clocks : Publish(n, r, now)
    BY <2>1, PublishKeepsInv
  <2>2. CASE AskFixture(n) \/ \E limit \in Limits : Ask(n, limit)
    BY <2>2, AskKeepsInv
  <2>3. CASE \E now \in Clocks : TakePage(n, now)
    BY <2>3, TakePageKeepsInv
  <2>4. CASE TakeReset(n) \/ TakeInvalid(n) \/ Lose(n)
    BY <2>4, NoPageKeepsInv
  <2>5. CASE Fresh(n)
    BY <2>5, FreshKeepsInv
  <2> QED
    BY <2>1, <2>2, <2>3, <2>4, <2>5
<1>2. CASE UNCHANGED vars
  <2>1. /\ generation' = generation /\ entries' = entries /\ updateCounter' = updateCounter
        /\ peerCursor' = peerCursor /\ reply' = reply /\ created' = created
        /\ seen' = seen /\ deferred' = deferred
    BY <1>2 DEF vars
  <2> QED
    <3>1. TypeOK' /\ HeldIsBound' /\ UpdateNumbers'
      BY <2>1 DEF Inv, TypeOK, HeldIsBound, UpdateNumbers, Held
    <3>2. Generations' /\ CursorReached'
      BY <2>1 DEF Inv, Generations, CursorReached
    <3>3. CursorSound'
      BY <2>1 DEF Inv, CursorSound, Covers, Held
    <3>4. ReplySound'
      <4>1. /\ \A m, r : Covers(m, r)' <=> Covers(m, r)
            /\ \A m, d : Held(m, d)' <=> Held(m, d)
        BY <2>1 DEF Covers, Held
      <4>2. ASSUME NEW m \in Nodes, reply[m] # None, reply[m].kind = "page"
            PROVE  SoundPage(m, reply[m])'
        <5>1. SoundPage(m, reply[m])
          BY <4>2 DEF Inv, ReplySound
        <5> QED
          BY <2>1, <4>1, <5>1 DEF SoundPage
      <4> QED
        BY <2>1, <4>2 DEF Inv, ReplySound
    <3> QED
      BY <3>1, <3>2, <3>3, <3>4 DEF Inv
<1> QED
  BY <1>1, <1>2

\* The inductive invariant of the relays.
THEOREM SyncInvariant == Spec => []Inv
<1>1. Inv /\ [Next]_vars => Inv'
  BY NextInv
<1> QED
  BY InitInv, <1>1, PTL DEF Spec

\* The relays' state keeps its type.
THEOREM TypeCorrect == Spec => []TypeOK
<1>1. Inv => TypeOK
  BY DEF Inv
<1> QED
  BY SyncInvariant, <1>1, PTL

\* For any number of relays, records and clocks: a cursor is never ahead of
\* what its owner was given, so a puller that goes on from it misses nothing.
THEOREM CursorNeverAhead == Spec => []CursorSound
<1>1. Inv => CursorSound
  BY DEF Inv
<1> QED
  BY SyncInvariant, <1>1, PTL

\* For any relay: entries have numbers of their own, none above the counter.
THEOREM NumbersDistinct == Spec => []UpdateNumbers
<1>1. Inv => UpdateNumbers
  BY DEF Inv
<1> QED
  BY SyncInvariant, <1>1, PTL

\* For any relay: a revocation, once learned, is the record until the database
\* is replaced.
THEOREM RevocationIsFinal == Spec => RevocationSticks
<1> DEFINE Stays == \A n \in Nodes, d \in Dids :
                      Held(n, d) /\ entries[n][d].record.authority = "rootRevoked"
                        => \/ generation'[n] # generation[n]
                           \/ Held(n, d)' /\ entries'[n][d].record.authority = "rootRevoked"
<1>1. ASSUME Inv, NEW n \in Nodes, NEW items, PageItems(items), NEW now \in Clocks,
             Ingress(n, items, now), NEW m \in Nodes, NEW d \in Dids,
             Held(m, d), entries[m][d].record.authority = "rootRevoked"
      PROVE  Held(m, d)' /\ entries'[m][d].record.authority = "rootRevoked"
  <2>1. TypeOK
    BY <1>1 DEF Inv
  <2>2. CASE m # n
    BY <1>1, <2>1, <2>2, IngressEffect DEF Held
  <2>3. CASE m = n
    <3>1. entries'[m] = Merged(n, items, now)
      BY <1>1, <2>1, <2>3, IngressEffect
    <3>2. CASE Merged(n, items, now)[d] = entries[n][d]
      BY <1>1, <2>3, <3>1, <3>2 DEF Held
    <3>3. CASE Merged(n, items, now)[d] # entries[n][d]
      <4>1. PICK i \in Admitted(n, items, now) :
              /\ i.record.did = d
              /\ Merged(n, items, now)[d] =
                   [record |-> i.record,
                    lastUpdated |-> UpdateNumber(n, i, Admitted(n, items, now))]
        BY <1>1, <2>1, <3>3, MergedEntry
      <4>2. Beats(i.record, entries[n][d].record)
        BY <1>1, <2>3, <4>1 DEF Admitted, Admits
      <4>3. entries'[m][d].record.authority = "rootRevoked"
        BY <1>1, <2>3, <3>1, <4>1, <4>2 DEF Beats
      <4>4. entries[n][d].record \in Records
        BY <1>1, <2>1, <2>3 DEF TypeOK, Held, Entry
      <4>5. ~Beats(entries[n][d].record, entries[n][d].record)
        BY <4>4, BeatsIrreflexive
      <4>6. Merged(n, items, now)[d] # None
        BY <1>1, <2>1, <2>3, <4>4, <4>5, MergedImproves
      <4> QED
        BY <3>1, <4>3, <4>6 DEF Held
    <3> QED
      BY <3>2, <3>3
  <2> QED
    BY <2>2, <2>3
<1>2. Inv /\ [Next]_vars => Stays
  <2> SUFFICES ASSUME Inv, [Next]_vars, NEW m \in Nodes, NEW d \in Dids,
                      Held(m, d), entries[m][d].record.authority = "rootRevoked"
               PROVE  \/ generation'[m] # generation[m]
                      \/ Held(m, d)' /\ entries'[m][d].record.authority = "rootRevoked"
    OBVIOUS
  <2>1. CASE UNCHANGED entries
    BY <2>1 DEF Held
  <2>2. ASSUME NEW n \in Nodes, NEW r \in Records, NEW now \in Clocks, Publish(n, r, now)
        PROVE  Held(m, d)' /\ entries'[m][d].record.authority = "rootRevoked"
    <3>1. PageItems({[record |-> r, position |-> 0]})
      BY OneItem
    <3> QED
      BY <1>1, <2>2, <3>1 DEF Publish
  <2>3. ASSUME NEW n \in Nodes, NEW now \in Clocks, TakePage(n, now)
        PROVE  Held(m, d)' /\ entries'[m][d].record.authority = "rootRevoked"
    <3>1. PageItems(reply[n].items) /\ Ingress(n, reply[n].items, now)
      BY <2>3 DEF TakePage, Inv, ReplySound, SoundPage
    <3> QED
      BY <1>1, <3>1
  <2>4. ASSUME NEW n \in Nodes, Fresh(n)
        PROVE  \/ generation'[m] # generation[m]
               \/ Held(m, d)' /\ entries'[m][d].record.authority = "rootRevoked"
    <3>1. CASE m = n
      <4>1. generation[n] \in Nat /\ created \in Nat /\ generation[n] <= created
        BY DEF Inv, TypeOK, Generations
      <4>2. generation'[n] = created + 1
        BY <2>4 DEF Fresh, Inv, TypeOK
      <4> QED
        BY <3>1, <4>1, <4>2
    <3>2. CASE m # n
      <4>1. entries'[m] = entries[m]
        BY <2>4, <3>2 DEF Fresh, Inv, TypeOK
      <4> QED
        BY <4>1 DEF Held
    <3> QED
      BY <3>1, <3>2
  <2> QED
    BY <2>1, <2>2, <2>3, <2>4
       DEF Next, Ask, AskFixture, TakeReset, TakeInvalid, Lose, vars
<1> QED
  BY SyncInvariant, <1>2, PTL DEF Spec, RevocationSticks

----------------------------------------------------------------------------
\* An ingress keeps the best of what it was given.
LEMMA IngressKeepsBest ==
  ASSUME Inv, HoldsTheBest, NEW n \in Nodes, NEW items, PageItems(items), NEW now \in Clocks,
         Ingress(n, items, now)
  PROVE  HoldsTheBest'
<1> DEFINE judged == {i.record : i \in {j \in items : Admissible(j.record, now)}}
<1>1. TypeOK
  BY DEF Inv
<1>2. /\ entries'[n] = Merged(n, items, now)
      /\ seen'[n] = seen[n] \cup judged
      /\ \A m \in Nodes \ {n} : entries'[m] = entries[m] /\ seen'[m] = seen[m]
  BY <1>1, IngressEffect DEF Ingress, TypeOK
<1>3. seen[n] \in SUBSET Records
  BY <1>1 DEF TypeOK
<1>4. \A r \in judged : \E i \in items : r = i.record /\ Admissible(i.record, now)
  OBVIOUS
<1>5. \A i \in Admitted(n, items, now) : i \in items /\ i.record \in judged
  BY DEF Admitted, Admits
<1> HIDE DEF judged
<1> SUFFICES ASSUME NEW m \in Nodes, NEW d \in Dids
             PROVE  LET given == {r \in seen'[m] : r.did = d} IN
                      /\ Held(m, d)' <=> given # {}
                      /\ Held(m, d)' => /\ entries'[m][d].record \in given
                                        /\ \A r \in given : ~Beats(r, entries'[m][d].record)
  BY DEF HoldsTheBest
<1>6. CASE m # n
  BY <1>2, <1>6 DEF HoldsTheBest, Held
<1>7. CASE m = n
  <2>1. ASSUME NEW r \in seen'[n], r.did = d
        PROVE  /\ Merged(n, items, now)[d] # None
               /\ ~Beats(r, Merged(n, items, now)[d].record)
    <3>1. CASE r \in seen[n]
      <4>1. Held(n, d) /\ ~Beats(r, entries[n][d].record) /\ r \in Records
        BY <1>3, <2>1, <3>1 DEF HoldsTheBest
      <4> QED
        BY <1>1, <4>1, MergedImproves
    <3>2. CASE r \in judged
      <4>1. PICK i \in items : r = i.record /\ Admissible(i.record, now)
        BY <1>4, <3>2
      <4> QED
        BY <1>1, <2>1, <4>1, MergedCovers
    <3> QED
      BY <1>2, <2>1, <3>1, <3>2
  <2>2. ASSUME Merged(n, items, now)[d] # None
        PROVE  /\ Merged(n, items, now)[d].record \in seen'[n]
               /\ Merged(n, items, now)[d].record.did = d
    <3>1. CASE Merged(n, items, now)[d] = entries[n][d]
      <4>1. Held(n, d)
        BY <2>2, <3>1 DEF Held
      <4>2. entries[n][d].record \in seen[n] /\ entries[n][d].record.did = d
        BY <4>1 DEF HoldsTheBest
      <4> QED
        BY <1>2, <3>1, <4>2
    <3>2. CASE Merged(n, items, now)[d] # entries[n][d]
      <4>1. PICK i \in Admitted(n, items, now) :
              /\ i.record.did = d
              /\ Merged(n, items, now)[d] =
                   [record |-> i.record,
                    lastUpdated |-> UpdateNumber(n, i, Admitted(n, items, now))]
        BY <1>1, <3>2, MergedEntry
      <4>2. Merged(n, items, now)[d].record = i.record
        BY <4>1
      <4> QED
        BY <1>2, <1>5, <4>1, <4>2
    <3> QED
      BY <3>1, <3>2
  <2>3. Held(n, d)' <=> Merged(n, items, now)[d] # None
    BY <1>2 DEF Held
  <2> QED
    BY <1>2, <1>7, <2>1, <2>2, <2>3
<1> QED
  BY <1>6, <1>7

\* For any relay and any order and way in which records reach it: it holds the
\* best of the admissible records it was given, and nothing else.
THEOREM BestIsHeld == Spec => []HoldsTheBest
<1>1. Init => HoldsTheBest
  BY DEF Init, EmptyEntries, HoldsTheBest, Held
<1>2. Inv /\ HoldsTheBest /\ [Next]_vars => HoldsTheBest'
  <2> SUFFICES ASSUME Inv, HoldsTheBest, [Next]_vars
               PROVE  HoldsTheBest'
    OBVIOUS
  <2>1. CASE UNCHANGED <<entries, seen>>
    <3>1. entries' = entries /\ seen' = seen
      BY <2>1
    <3> QED
      BY <3>1 DEF HoldsTheBest, Held
  <2>2. ASSUME NEW n \in Nodes, NEW r \in Records, NEW now \in Clocks, Publish(n, r, now)
        PROVE  HoldsTheBest'
    BY <2>2, OneItem, IngressKeepsBest DEF Publish
  <2>3. ASSUME NEW n \in Nodes, NEW now \in Clocks, TakePage(n, now)
        PROVE  HoldsTheBest'
    <3>1. PageItems(reply[n].items) /\ Ingress(n, reply[n].items, now)
      BY <2>3 DEF TakePage, Inv, ReplySound, SoundPage
    <3> QED
      BY <3>1, IngressKeepsBest
  <2>4. ASSUME NEW n \in Nodes, Fresh(n)
        PROVE  HoldsTheBest'
    <3>1. /\ entries'[n] = EmptyEntries /\ seen'[n] = {}
          /\ \A m \in Nodes \ {n} : entries'[m] = entries[m] /\ seen'[m] = seen[m]
      BY <2>4 DEF Fresh, Inv, TypeOK
    <3> QED
      BY <3>1 DEF HoldsTheBest, Held, EmptyEntries
  <2> QED
    BY <2>1, <2>2, <2>3, <2>4
       DEF Next, Ask, AskFixture, TakeReset, TakeInvalid, Lose, vars
<1> QED
  BY SyncInvariant, <1>1, <1>2, PTL DEF Spec

----------------------------------------------------------------------------
\* Of two different records held for one identity, one beats the other.
LEMMA BeatsTotal ==
  ASSUME NEW r \in Records, NEW s \in Records, r.did = s.did, r.bound, s.bound,
         ~Beats(r, s), ~Beats(s, r)
  PROVE  r = s
<1>1. r.timestamp = s.timestamp /\ r.authority = s.authority /\ r.digest = s.digest
  BY SyncAssumption DEF Beats
<1>2. r.bound = s.bound
  BY SyncAssumption
<1>3. /\ r = [did |-> r.did, authority |-> r.authority, timestamp |-> r.timestamp,
              digest |-> r.digest, bound |-> r.bound]
      /\ s = [did |-> s.did, authority |-> s.authority, timestamp |-> s.timestamp,
              digest |-> s.digest, bound |-> s.bound]
  BY SyncAssumption
<1> QED
  BY <1>1, <1>2, <1>3

\* A node at the end of its peer's feed, which refused nothing, holds as good a
\* record for every identity the peer has one for.
LEMMA CaughtUpHolds ==
  ASSUME Inv, NEW m \in Nodes, Peer[m] # None, CaughtUp(m),
         NEW d \in Dids, Held(Peer[m], d)
  PROVE  Held(m, d) /\ ~Beats(entries[Peer[m]][d].record, entries[m][d].record)
<1> DEFINE p == Peer[m]
<1>1. p \in Nodes
  BY SyncAssumption
<1>2. /\ peerCursor[m] # None /\ peerCursor[m].generation = generation[p]
      /\ peerCursor[m].position \in Nat
  BY DEF CaughtUp, Inv, TypeOK, Cursor
<1>3. entries[p][d].lastUpdated \in 1 .. updateCounter[p] /\ updateCounter[p] \in Nat
  BY <1>1 DEF Inv, TypeOK, UpdateNumbers
<1>4. ~Listed(p, d, peerCursor[m].position, updateCounter[p])
  BY DEF CaughtUp, Feed
<1>5. entries[p][d].lastUpdated <= peerCursor[m].position
  BY <1>2, <1>3, <1>4 DEF Listed
<1>6. Covers(m, entries[p][d].record)
  BY <1>2, <1>5 DEF Inv, CursorSound
<1>7. entries[p][d].record.did = d
  BY <1>1 DEF Inv, HeldIsBound
<1> QED
  BY <1>6, <1>7 DEF Covers, CaughtUp

\* For any receiver and its peer: at the end of the peer's feed, with nothing
\* refused and nothing admissible from elsewhere, both hold the same records.
\* The cursor's soundness gives one half, that the receiver's record is not
\* beaten; that each holds the best of what it was given gives the other.
THEOREM Agreement == Spec => []PullAgreement
<1>1. Inv /\ HoldsTheBest => PullAgreement
  <2> SUFFICES ASSUME Inv, HoldsTheBest, NEW n \in Nodes, NEW p \in Nodes, Peer[n] = p,
                      CaughtUp(n), seen[n] \subseteq seen[p], NEW d \in Dids
               PROVE  /\ Held(n, d) <=> Held(p, d)
                      /\ Held(n, d) => entries[n][d].record = entries[p][d].record
    BY SyncAssumption DEF PullAgreement
  <2>1. Peer[n] # None
    BY SyncAssumption
  <2>2. Held(p, d) => Held(n, d) /\ ~Beats(entries[p][d].record, entries[n][d].record)
    BY <2>1, CaughtUpHolds
  <2>3. ASSUME Held(n, d)
        PROVE  Held(p, d) /\ ~Beats(entries[n][d].record, entries[p][d].record)
    <3>1. entries[n][d].record \in {r \in seen[n] : r.did = d}
      BY <2>3 DEF HoldsTheBest
    <3>2. entries[n][d].record \in {r \in seen[p] : r.did = d}
      BY <3>1
    <3> QED
      BY <3>2 DEF HoldsTheBest
  <2>4. ASSUME Held(n, d)
        PROVE  entries[n][d].record = entries[p][d].record
    <3>1. /\ entries[n][d].record \in Records /\ entries[p][d].record \in Records
      BY <2>3, <2>4 DEF Inv, TypeOK, Held, Entry
    <3>2. /\ entries[n][d].record.did = d /\ entries[p][d].record.did = d
          /\ entries[n][d].record.bound /\ entries[p][d].record.bound
      BY <2>3, <2>4 DEF Inv, HeldIsBound
    <3> QED
      BY <2>2, <2>3, <2>4, <3>1, <3>2, BeatsTotal
  <2> QED
    BY <2>2, <2>3, <2>4
<1> QED
  BY SyncInvariant, BestIsHeld, <1>1, PTL

----------------------------------------------------------------------------
\* The cursor of the fixture's page, the only one of its generation.
FixtureCursor == [generation |-> FixtureGeneration, position |-> 2]

\* A page of the feed that the stored cursor is of starts after that cursor and
\* ends before its own: the cursor it was asked with is still the stored one.
Follows(cursor, page) ==
  page.cursor.generation = cursor.generation =>
    \/ page.cursor = cursor
    \/ \A i \in page.items : i.position \in cursor.position + 1 .. page.cursor.position

IsFixture(cursor) == cursor.generation = FixtureGeneration => cursor = FixtureCursor

PagesFollow ==
  \A n \in Nodes :
    /\ peerCursor[n] # None => IsFixture(peerCursor[n])
    /\ reply[n] # None /\ reply[n].kind = "page" =>
         /\ IsFixture(reply[n].cursor)
         /\ peerCursor[n] # None => Follows(peerCursor[n], reply[n])

\* A page that a relay answers follows the cursor it was asked with.
LEMMA AnswerFollows ==
  ASSUME TypeOK, NEW p \in Nodes, NEW cursor \in Cursor \cup {None}, NEW limit,
         NEW answer \in Answers(p, cursor, limit), answer.kind = "page"
  PROVE  /\ IsFixture(answer.cursor)
         /\ cursor # None => Follows(cursor, answer)
<1> DEFINE after == IF cursor = None THEN 0 ELSE cursor.position
<1>1. PICK e \in Ends(p, after, limit) : answer = PageOf(p, after, e)
  BY DEF Answers
<1>2. answer.items = Feed(p, after, e) /\ answer.cursor = [generation |-> generation[p], position |-> e]
  BY <1>1 DEF PageOf
<1>3. answer.cursor.generation # FixtureGeneration
  BY <1>2 DEF TypeOK
<1>4. ASSUME cursor # None PROVE Follows(cursor, answer)
  <2>1. after = cursor.position /\ after \in Nat
    BY <1>4 DEF Cursor
  <2>2. updateCounter[p] \in Nat
    BY DEF TypeOK
  <2>3. e \in Nat
    BY <2>1, <2>2 DEF Ends
  <2>4. ASSUME NEW i \in answer.items PROVE i.position \in after + 1 .. e
    <3>1. PICK d \in Dids : Listed(p, d, after, e) /\ i.position = entries[p][d].lastUpdated
      BY <1>2, <2>4 DEF Feed
    <3>2. entries[p][d].lastUpdated \in Nat
      BY <3>1 DEF TypeOK, Listed, Held, Entry
    <3>3. QED
      BY <2>1, <2>3, <3>1, <3>2 DEF Listed
  <2>5. answer.cursor.position = e
    BY <1>2
  <2>6. QED
    BY <2>1, <2>4, <2>5 DEF Follows
<1>5. QED
  BY <1>3, <1>4 DEF IsFixture

LEMMA InitPagesFollow == Init => PagesFollow
BY DEF Init, PagesFollow

\* Every step but that of a puller leaves its cursor and its reply.
LEMMA PullerOnly ==
  ASSUME TypeOK, PagesFollow, NEW n \in Nodes,
         \A m \in Nodes \ {n} : peerCursor'[m] = peerCursor[m] /\ reply'[m] = reply[m],
         peerCursor'[n] # None => IsFixture(peerCursor'[n]),
         reply'[n] # None /\ reply'[n].kind = "page" =>
           /\ IsFixture(reply'[n].cursor)
           /\ peerCursor'[n] # None => Follows(peerCursor'[n], reply'[n])
  PROVE  PagesFollow'
BY DEF PagesFollow

LEMMA NextPagesFollow == Inv /\ PagesFollow /\ [Next]_vars => PagesFollow'
<1> SUFFICES ASSUME Inv, PagesFollow, [Next]_vars PROVE PagesFollow'
  OBVIOUS
<1>1. TypeOK
  BY DEF Inv
<1>2. CASE UNCHANGED <<peerCursor, reply>>
  BY <1>2 DEF PagesFollow
<1>3. ASSUME NEW n \in Nodes, NEW limit \in Limits, Ask(n, limit) PROVE PagesFollow'
  <2>1. PICK answer \in Answers(Peer[n], peerCursor[n], limit) :
          reply' = [reply EXCEPT ![n] = answer]
    BY <1>3 DEF Ask
  <2>2. /\ peerCursor' = peerCursor /\ Peer[n] \in Nodes
        /\ peerCursor[n] \in Cursor \cup {None}
    <3>1. peerCursor' = peerCursor /\ Peer[n] # None
      BY <1>3 DEF Ask
    <3>2. Peer[n] \in Nodes
      BY <3>1, SyncAssumption
    <3>3. peerCursor[n] \in Cursor \cup {None}
      BY <1>1 DEF TypeOK
    <3> QED
      BY <3>1, <3>2, <3>3
  <2>3. reply'[n] = answer /\ \A m \in Nodes \ {n} : reply'[m] = reply[m]
    BY <1>1, <2>1 DEF TypeOK
  <2>4. answer.kind = "page" =>
          /\ IsFixture(answer.cursor)
          /\ peerCursor[n] # None => Follows(peerCursor[n], answer)
    BY <1>1, <2>2, AnswerFollows
  <2>5. peerCursor[n] # None => IsFixture(peerCursor[n])
    BY DEF PagesFollow
  <2>6. QED
    BY <1>1, <2>2, <2>3, <2>4, <2>5, PullerOnly
<1>4. ASSUME NEW n \in Nodes, AskFixture(n) PROVE PagesFollow'
  <2>1. /\ peerCursor' = peerCursor
        /\ reply'[n].cursor = FixtureCursor
        /\ \A m \in Nodes \ {n} : reply'[m] = reply[m]
    BY <1>1, <1>4 DEF AskFixture, TypeOK, FixtureCursor
  <2>2. peerCursor[n] # None => IsFixture(peerCursor[n])
    BY DEF PagesFollow
  <2>3. IsFixture(reply'[n].cursor)
    BY <2>1 DEF IsFixture
  <2>4. peerCursor[n] # None => Follows(peerCursor[n], reply'[n])
    BY <2>1, <2>2 DEF Follows, IsFixture, FixtureCursor
  <2>5. QED
    BY <1>1, <2>1, <2>2, <2>3, <2>4, PullerOnly
<1>5. ASSUME NEW n \in Nodes, NEW now \in Clocks, TakePage(n, now) PROVE PagesFollow'
  <2>1. /\ reply[n] # None /\ reply[n].kind = "page"
        /\ peerCursor'[n] = reply[n].cursor /\ reply'[n] = None
        /\ \A m \in Nodes \ {n} : peerCursor'[m] = peerCursor[m] /\ reply'[m] = reply[m]
    BY <1>1, <1>5 DEF TakePage, TypeOK
  <2>2. IsFixture(reply[n].cursor)
    BY <2>1 DEF PagesFollow
  <2>3. QED
    BY <1>1, <2>1, <2>2, PullerOnly
<1>6. ASSUME NEW n \in Nodes, TakeReset(n) \/ Fresh(n) PROVE PagesFollow'
  <2>1. /\ peerCursor'[n] = None /\ reply'[n] = None
        /\ \A m \in Nodes \ {n} : peerCursor'[m] = peerCursor[m] /\ reply'[m] = reply[m]
    BY <1>1, <1>6 DEF TakeReset, Fresh, TypeOK
  <2>2. QED
    BY <1>1, <2>1, PullerOnly
<1>7. ASSUME NEW n \in Nodes, TakeInvalid(n) \/ Lose(n) PROVE PagesFollow'
  <2>1. /\ peerCursor' = peerCursor /\ reply'[n] = None
        /\ \A m \in Nodes \ {n} : reply'[m] = reply[m]
    BY <1>1, <1>7 DEF TakeInvalid, Lose, TypeOK
  <2>2. peerCursor[n] # None => IsFixture(peerCursor[n])
    BY DEF PagesFollow
  <2>3. QED
    BY <1>1, <2>1, <2>2, PullerOnly
<1>8. ASSUME NEW n \in Nodes, NEW r \in Records, NEW now \in Clocks, Publish(n, r, now)
      PROVE  PagesFollow'
  BY <1>2, <1>8 DEF Publish
<1>9. QED
  BY <1>2, <1>3, <1>4, <1>5, <1>6, <1>7, <1>8 DEF Next, vars

\* A cursor is followed by another of its generation when a page is taken.
LEMMA OnlyPagesMove ==
  ASSUME TypeOK, [Next]_vars, NEW n \in Nodes, SameFeed(n)
  PROVE  \E now \in Clocks : TakePage(n, now)
<1>1. peerCursor'[n] # None /\ peerCursor'[n] # peerCursor[n]
  BY DEF SameFeed
<1>2. ~ UNCHANGED vars
  BY <1>1 DEF vars
<1>3. PICK m \in Nodes :
        \/ \E r \in Records, now \in Clocks : Publish(m, r, now)
        \/ \E limit \in Limits : Ask(m, limit)
        \/ AskFixture(m)
        \/ \E now \in Clocks : TakePage(m, now)
        \/ TakeReset(m)
        \/ TakeInvalid(m)
        \/ Lose(m)
        \/ Fresh(m)
  BY <1>2 DEF Next
<1>4. CASE \/ \E r \in Records, now \in Clocks : Publish(m, r, now)
           \/ \E limit \in Limits : Ask(m, limit)
           \/ AskFixture(m)
           \/ TakeInvalid(m)
           \/ Lose(m)
  <2>1. peerCursor' = peerCursor
    BY <1>4 DEF Publish, Ask, AskFixture, TakeInvalid, Lose
  <2>2. QED
    BY <1>1, <2>1
<1>5. CASE TakeReset(m) \/ Fresh(m)
  <2>1. peerCursor' = [peerCursor EXCEPT ![m] = None]
    BY <1>5 DEF TakeReset, Fresh
  <2>2. QED
    BY <1>1, <2>1 DEF TypeOK
<1>6. CASE \E now \in Clocks : TakePage(m, now)
  <2>1. peerCursor' = [peerCursor EXCEPT ![m] = reply[m].cursor]
    BY <1>6 DEF TakePage
  <2>2. m = n
    BY <1>1, <2>1 DEF TypeOK
  <2>3. QED
    BY <1>6, <2>2
<1>7. QED
  BY <1>3, <1>4, <1>5, <1>6

\* For any limits, publications and losses: a page taken under the generation of
\* the stored cursor holds only entries after that cursor, and the new cursor is
\* past them all, so no entry is received twice (receiveChanges #processed).
THEOREM EntriesComeOnce == Spec => ExactlyOnce
<1>1. Inv /\ PagesFollow /\ [Next]_vars =>
        [\A n \in Nodes : SameFeed(n) =>
           \A i \in reply[n].items :
             i.position \in (peerCursor[n].position + 1) .. peerCursor'[n].position]_vars
  <2> SUFFICES ASSUME Inv, PagesFollow, [Next]_vars, NEW n \in Nodes, SameFeed(n),
                      NEW i \in reply[n].items
               PROVE  i.position \in (peerCursor[n].position + 1) .. peerCursor'[n].position
    OBVIOUS
  <2>1. TypeOK
    BY DEF Inv
  <2>2. PICK now \in Clocks : TakePage(n, now)
    BY <2>1, OnlyPagesMove
  <2>3. reply[n] # None /\ reply[n].kind = "page" /\ peerCursor'[n] = reply[n].cursor
    BY <2>1, <2>2 DEF TakePage, TypeOK
  <2>4. Follows(peerCursor[n], reply[n])
    BY <2>3 DEF PagesFollow, SameFeed
  <2>5. QED
    BY <2>3, <2>4 DEF Follows, SameFeed
<1>2. QED
  BY SyncInvariant, InitPagesFollow, NextPagesFollow, <1>1, PTL DEF Spec, ExactlyOnce
=============================================================================
