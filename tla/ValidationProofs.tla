-------------------------- MODULE ValidationProofs --------------------------
(***************************************************************************)
(* Theorems about one validation of a registry and the harvest in it, for  *)
(* every number of records, pages, probes and every cap.                   *)
(***************************************************************************)
EXTENDS Validation, FiniteSetTheorems, WellFoundedInduction, TLAPS

----------------------------------------------------------------------------
(* Induction, and what the recursive function in Gather computes.          *)

LEMMA Induction ==
  ASSUME NEW S, 0 \in S, \A n \in Nat : n \in S => n + 1 \in S
  PROVE  \A n \in Nat : n \in S
<1> SUFFICES ASSUME Nat \ S # {} PROVE FALSE
  OBVIOUS
<1> DEFINE R == OpToRel(<, Nat)
<1>1. IsWellFoundedOn(R, Nat) /\ R = {ss \in Nat \X Nat : ss[1] < ss[2]}
  BY NatLessThanWellFounded DEF OpToRel
<1> HIDE DEF R
<1>2. PICK x \in Nat \ S : \A y \in Nat \ S : ~(<<y, x>> \in R)
  BY <1>1, WFMin
<1>3. x # 0 /\ x - 1 \in Nat
  OBVIOUS
<1>4. <<x - 1, x>> \in R
  BY <1>1, <1>3
<1>5. x - 1 \in S
  BY <1>2, <1>3, <1>4
<1>6. QED
  BY <1>3, <1>5

Computes(f, g, from, n) ==
  f = [k \in 0..n |-> IF k = 0 THEN g ELSE Take(f[k - 1], from + k)]

LEMMA ComputesAgain ==
  ASSUME NEW g, NEW from, NEW m \in Nat, NEW n \in Nat, n <= m,
         NEW e, Computes(e, g, from, m), NEW f, Computes(f, g, from, n)
  PROVE  \A k \in 0..n : e[k] = f[k]
<1> DEFINE S == {k \in Nat : k <= n => e[k] = f[k]}
<1>1. 0 \in S
  BY DEF Computes
<1>2. ASSUME NEW k \in Nat, k \in S PROVE k + 1 \in S
  <2>1. CASE k + 1 <= n
    <3>1. e[k] = f[k] /\ k + 1 \in 0..n /\ k + 1 \in 0..m /\ k + 1 # 0 /\ (k + 1) - 1 = k
      BY <1>2, <2>1
    <3>2. e[k + 1] = Take(e[k], from + (k + 1)) /\ f[k + 1] = Take(f[k], from + (k + 1))
      BY <3>1 DEF Computes
    <3>3. QED
      BY <3>1, <3>2
  <2>2. CASE ~(k + 1 <= n)
    BY <2>2
  <2>3. QED
    BY <2>1, <2>2
<1> HIDE DEF S
<1>3. \A k \in Nat : k \in S
  BY <1>1, <1>2, Induction
<1>4. QED
  BY <1>3 DEF S

LEMMA Computed ==
  ASSUME NEW g, NEW from, NEW n \in Nat
  PROVE  \E f : Computes(f, g, from, n)
<1> DEFINE S == {m \in Nat : \E f : Computes(f, g, from, m)}
<1>1. 0 \in S
  <2> DEFINE f == [k \in 0..0 |-> g]
  <2>1. Computes(f, g, from, 0)
    BY DEF Computes
  <2>2. QED
    BY <2>1
<1>2. ASSUME NEW m \in Nat, m \in S PROVE m + 1 \in S
  <2>1. PICK e : Computes(e, g, from, m)
    BY <1>2
  <2> DEFINE f == [k \in 0..(m + 1) |->
                     IF k = m + 1 THEN Take(e[m], from + (m + 1)) ELSE e[k]]
  <2>2. ASSUME NEW k \in 0..(m + 1)
        PROVE  f[k] = IF k = 0 THEN g ELSE Take(f[k - 1], from + k)
    <3>1. CASE k = m + 1
      BY <3>1
    <3>2. CASE k # m + 1
      <4>1. k \in 0..m /\ f[k] = e[k] /\ (k # 0 => f[k - 1] = e[k - 1])
        BY <3>2
      <4>2. QED
        BY <2>1, <4>1 DEF Computes
    <3>3. QED
      BY <3>1, <3>2
  <2>3. f = [k \in 0..(m + 1) |-> f[k]]
    OBVIOUS
  <2> HIDE DEF f
  <2>4. Computes(f, g, from, m + 1)
    BY <2>2, <2>3 DEF Computes
  <2>5. QED
    BY <2>4
<1> HIDE DEF S
<1>3. \A m \in Nat : m \in S
  BY <1>1, <1>2, Induction
<1>4. QED
  BY <1>3 DEF S

LEMMA GatherComputes ==
  ASSUME NEW g, NEW from, NEW n \in Nat
  PROVE  \E f : Computes(f, g, from, n) /\ Gather(g, from, n) = f[n]
<1> DEFINE f == CHOOSE f : Computes(f, g, from, n)
<1>1. Gather(g, from, n) = f[n]
  BY DEF Gather, Computes
<1>2. Computes(f, g, from, n)
  BY Computed
<1>3. QED
  BY <1>1, <1>2

\* Gather takes one record after the other.
Gathers ==
  \A g, from : \A n \in Nat :
    /\ Gather(g, from, 0) = g
    /\ Gather(g, from, n + 1) = Take(Gather(g, from, n), from + (n + 1))

LEMMA GatherSteps == Gathers
<1> SUFFICES ASSUME NEW g, NEW from, NEW n \in Nat
             PROVE  /\ Gather(g, from, 0) = g
                    /\ Gather(g, from, n + 1) = Take(Gather(g, from, n), from + (n + 1))
  BY DEF Gathers
<1>1. PICK z : Computes(z, g, from, 0) /\ Gather(g, from, 0) = z[0]
  BY GatherComputes
<1>2. PICK e : Computes(e, g, from, n) /\ Gather(g, from, n) = e[n]
  BY GatherComputes
<1>3. PICK f : Computes(f, g, from, n + 1) /\ Gather(g, from, n + 1) = f[n + 1]
  BY GatherComputes
<1>4. f[n] = e[n]
  BY <1>2, <1>3, ComputesAgain
<1>5. n + 1 \in 0..(n + 1) /\ n + 1 # 0 /\ (n + 1) - 1 = n
  OBVIOUS
<1>6. f[n + 1] = Take(f[n], from + (n + 1))
  BY <1>3, <1>5 DEF Computes
<1>7. z[0] = g
  BY <1>1 DEF Computes
<1>8. QED
  BY <1>1, <1>2, <1>3, <1>4, <1>6, <1>7

----------------------------------------------------------------------------
(* What one record changes.                                                *)

Keys == Ids \cup ({"_anon_"} \X Nat)
Texts == Keys \cup {Query}
Docs == UNION {[K -> Nat] : K \in {S \in SUBSET Keys : IsFiniteSet(S)}}
Gatherings == [docs : Docs, failures : Seq(Texts)]

LEMMA DocsType ==
  ASSUME NEW docs \in Docs
  PROVE  /\ IsFiniteSet(DOMAIN docs) /\ DOMAIN docs \subseteq Keys
         /\ docs \in [DOMAIN docs -> Nat] /\ Size(docs) \in Nat
<1>1. PICK K \in {S \in SUBSET Keys : IsFiniteSet(S)} : docs \in [K -> Nat]
  BY DEF Docs
<1>2. DOMAIN docs = K
  BY <1>1
<1>3. IsFiniteSet(DOMAIN docs) /\ DOMAIN docs \subseteq Keys /\ docs \in [DOMAIN docs -> Nat]
  BY <1>1, <1>2
<1>4. QED
  BY <1>3, FS_CardinalityType DEF Size

LEMMA Kept ==
  ASSUME NEW docs, NEW key, NEW i
  PROVE  /\ DOMAIN Keep(docs, key, i) = DOMAIN docs \cup {key}
         /\ Keep(docs, key, i)[key] = i
         /\ \A k \in DOMAIN docs : k # key => Keep(docs, key, i)[k] = docs[k]
BY DEF Keep

LEMMA KeepType ==
  ASSUME NEW docs \in Docs, NEW key \in Keys, NEW i \in Nat
  PROVE  /\ Keep(docs, key, i) \in Docs
         /\ Size(Keep(docs, key, i)) = IF key \in DOMAIN docs THEN Size(docs) ELSE Size(docs) + 1
<1> DEFINE kept == Keep(docs, key, i)
           K == DOMAIN docs \cup {key}
<1>1. IsFiniteSet(DOMAIN docs) /\ DOMAIN docs \subseteq Keys /\ docs \in [DOMAIN docs -> Nat]
  BY DocsType
<1>2. DOMAIN kept = K
  BY DEF Keep
<1>3. kept \in [K -> Nat]
  BY <1>1 DEF Keep
<1>4. /\ IsFiniteSet(K) /\ K \in SUBSET Keys
      /\ Cardinality(K) = IF key \in DOMAIN docs THEN Cardinality(DOMAIN docs)
                          ELSE Cardinality(DOMAIN docs) + 1
  BY <1>1, FS_AddElement
<1> HIDE DEF kept, K
<1>5. kept \in Docs
  BY <1>3, <1>4 DEF Docs
<1>6. QED
  BY <1>2, <1>4, <1>5 DEF kept, K, Size

LEMMA Update ==
  ASSUME NEW D, NEW F, NEW g \in [docs : D, failures : F], NEW d, NEW f
  PROVE  /\ g = [docs |-> g.docs, failures |-> g.failures] /\ g.docs \in D /\ g.failures \in F
         /\ [g EXCEPT !.docs = d] = [docs |-> d, failures |-> g.failures]
         /\ [g EXCEPT !.failures = f] = [docs |-> g.docs, failures |-> f]
OBVIOUS

\* A record adds nothing, one failure or one document.
LEMMA TakeCases ==
  ASSUME NEW g \in Gatherings, NEW i \in Nat
  PROVE  \/ (Full(g.docs) \/ list[i].kind = "deleted") /\ Take(g, i) = g
         \/ /\ ~Full(g.docs) /\ list[i].kind = "no metadata"
            /\ Take(g, i) = [docs |-> g.docs, failures |-> Append(g.failures, Key(g, i))]
         \/ /\ ~Full(g.docs) /\ list[i].kind \notin {"deleted", "no metadata"}
            /\ Take(g, i) = [docs |-> Keep(g.docs, Key(g, i), i), failures |-> g.failures]
<1> DEFINE d == Keep(g.docs, Key(g, i), i)
           f == Append(g.failures, Key(g, i))
<1>1. /\ [g EXCEPT !.docs = d] = [docs |-> d, failures |-> g.failures]
      /\ [g EXCEPT !.failures = f] = [docs |-> g.docs, failures |-> f]
  BY Update DEF Gatherings
<1>2. Take(g, i) = IF Full(g.docs) \/ list[i].kind = "deleted" THEN g
                   ELSE IF list[i].kind = "no metadata" THEN [g EXCEPT !.failures = f]
                   ELSE [g EXCEPT !.docs = d]
  BY DEF Take
<1> HIDE DEF d, f
<1>3. \/ (Full(g.docs) \/ list[i].kind = "deleted") /\ Take(g, i) = g
      \/ /\ ~Full(g.docs) /\ list[i].kind = "no metadata"
         /\ Take(g, i) = [docs |-> g.docs, failures |-> f]
      \/ /\ ~Full(g.docs) /\ list[i].kind \notin {"deleted", "no metadata"}
         /\ Take(g, i) = [docs |-> d, failures |-> g.failures]
  BY <1>1, <1>2
<1>4. QED
  BY <1>3 DEF d, f

LEMMA KeyType ==
  ASSUME NEW g \in Gatherings, NEW i, list[i].id \in Ids \cup {None}
  PROVE  /\ Key(g, i) \in Keys
         /\ list[i].id # None => Key(g, i) = list[i].id
         /\ list[i].id = None => Key(g, i) = <<"_anon_", Size(g.docs)>>
<1>1. g.docs \in Docs
  BY DEF Gatherings
<1>2. Size(g.docs) \in Nat
  BY <1>1, DocsType
<1>3. <<"_anon_", Size(g.docs)>> \in {"_anon_"} \X Nat
  BY <1>2
<1>4. QED
  BY <1>3 DEF Key, Keys

----------------------------------------------------------------------------
(* What has been gathered from the first records of a list.                *)

\* Document k stands for record j: it is j itself, or a later record with the
\* same identifier.
StandsFor(docs, k, j) ==
  docs[k] = j \/ (list[j].id # None /\ k = list[j].id /\ docs[k] > j)

\* The keys of records without an identifier are numbered below the documents.
Numbered(docs) == \A m \in Nat : <<"_anon_", m>> \in DOMAIN docs => m < Size(docs)

\* The key of a record with an identifier is the identifier.
Labelled(docs) == \A k \in DOMAIN docs : k \in Ids => list[docs[k]].id = k

Gathered(g, i) ==
  /\ g \in Gatherings
  /\ Size(g.docs) <= cap
  /\ \A k \in DOMAIN g.docs : g.docs[k] \in 1..i
  /\ Numbered(g.docs) /\ Labelled(g.docs)
  /\ ~Full(g.docs) =>
       \A j \in 1..i : list[j].kind = "live" => \E k \in DOMAIN g.docs : StandsFor(g.docs, k, j)

LEMMA ListType ==
  ASSUME list \in Lists
  PROVE  /\ Len(list) \in Nat /\ Len(list) <= MaxList
         /\ \A i \in 1..Len(list) : list[i] \in Record
<1>1. PICK n \in 0..MaxList : list \in [1..n -> Record]
  BY DEF Lists
<1>2. Len(list) = n
  BY <1>1, HarvestAssumption
<1>3. QED
  BY <1>1, <1>2, HarvestAssumption

LEMMA GatheredNothing == cap \in Nat => Gathered(Nothing, 0)
<1> SUFFICES ASSUME cap \in Nat PROVE Gathered(Nothing, 0)
  OBVIOUS
<1>1. DOMAIN Nothing.docs = {} /\ Nothing.docs \in [{} -> Nat] /\ Nothing.failures = <<>>
  BY DEF Nothing
<1>2. IsFiniteSet({}) /\ Cardinality({}) = 0
  BY FS_EmptySet
<1>3. Nothing.docs \in Docs /\ Size(Nothing.docs) = 0
  BY <1>1, <1>2 DEF Docs, Size
<1>4. <<>> \in Seq(Texts)
  OBVIOUS
<1>5. Nothing \in Gatherings
  BY <1>1, <1>3, <1>4 DEF Nothing, Gatherings
<1>6. QED
  BY <1>1, <1>3, <1>5 DEF Gathered, Numbered, Labelled

LEMMA KeepsNumbers ==
  ASSUME NEW docs \in Docs, Numbered(docs), NEW key \in Keys, NEW i \in Nat,
         key \in Ids \/ key = <<"_anon_", Size(docs)>>
  PROVE  Numbered(Keep(docs, key, i))
<1>1. /\ DOMAIN Keep(docs, key, i) = DOMAIN docs \cup {key} /\ Size(docs) \in Nat
      /\ Size(Keep(docs, key, i)) = IF key \in DOMAIN docs THEN Size(docs) ELSE Size(docs) + 1
  BY KeepType, Kept, DocsType
<1>2. ASSUME NEW m \in Nat, <<"_anon_", m>> \in DOMAIN Keep(docs, key, i)
      PROVE  m < Size(Keep(docs, key, i))
  <2>1. CASE <<"_anon_", m>> \in DOMAIN docs
    <3>1. m < Size(docs)
      BY <2>1 DEF Numbered
    <3>2. QED
      BY <1>1, <3>1
  <2>2. CASE <<"_anon_", m>> \notin DOMAIN docs
    <3>1. key = <<"_anon_", m>>
      BY <1>1, <1>2, <2>2
    <3>2. key \notin Ids
      BY <3>1, HarvestAssumption
    <3>3. m = Size(docs)
      BY <3>1, <3>2
    <3>4. QED
      BY <1>1, <2>2, <3>1, <3>3
  <2>3. QED
    BY <2>1, <2>2
<1>3. QED
  BY <1>2 DEF Numbered

\* The key of a new document takes the place of an earlier record only if that has
\* the same identifier.
LEMMA KeepStands ==
  ASSUME NEW docs \in Docs, Numbered(docs), Labelled(docs),
         NEW n \in Nat, NEW j \in 1..(n - 1), NEW k \in DOMAIN docs, StandsFor(docs, k, j),
         NEW key \in Keys, list[n].id # None => key = list[n].id /\ key \in Ids,
         list[n].id = None => key = <<"_anon_", Size(docs)>>
  PROVE  \E l \in DOMAIN Keep(docs, key, n) : StandsFor(Keep(docs, key, n), l, j)
<1> DEFINE kept == Keep(docs, key, n)
<1>1. /\ DOMAIN kept = DOMAIN docs \cup {key} /\ kept[key] = n
      /\ \A l \in DOMAIN docs : l # key => kept[l] = docs[l]
  BY DEF Keep
<1> HIDE DEF kept
<1>2. SUFFICES StandsFor(kept, k, j)
  BY <1>1 DEF kept
<1>3. CASE k # key
  BY <1>1, <1>3 DEF StandsFor
<1>4. CASE k = key
  <2>1. key # <<"_anon_", Size(docs)>>
    <3>1. Size(docs) \in Nat
      BY DocsType
    <3>2. <<"_anon_", Size(docs)>> \notin DOMAIN docs
      BY <3>1 DEF Numbered
    <3>3. QED
      BY <1>4, <3>2
  <2>2. key = list[n].id /\ key # None
    BY <2>1
  <2>3. key \in Ids
    BY <2>2
  <2>4. list[j].id = key
    BY <1>4, <2>3 DEF StandsFor, Labelled
  <2>5. QED
    BY <1>1, <1>4, <2>2, <2>4 DEF StandsFor
<1>5. QED
  BY <1>3, <1>4

\* One more record: of everything that Gathered says.
LEMMA TakeGathers ==
  ASSUME cap \in Nat, NEW i \in Nat, NEW n \in Nat, n = i + 1, list[n] \in Record,
         NEW g, Gathered(g, i)
  PROVE  Gathered(Take(g, n), n)
<1> DEFINE docs == g.docs
           key == Key(g, n)
           kept == Keep(docs, key, n)
<1>1. g \in Gatherings /\ docs \in Docs /\ g.failures \in Seq(Texts)
  BY DEF Gathered, Gatherings
<1>2. n \in Nat /\ list[n].id \in Ids \cup {None} /\ list[n].kind \in {"live", "deleted", "no metadata"}
  BY DEF Record
<1>3. /\ key \in Keys
      /\ list[n].id # None => key = list[n].id
      /\ list[n].id = None => key = <<"_anon_", Size(docs)>>
  BY <1>1, <1>2, KeyType
<1>4. /\ \A k \in DOMAIN docs : docs[k] \in 1..i
      /\ Numbered(docs) /\ Labelled(docs) /\ Size(docs) <= cap /\ Size(docs) \in Nat
  BY <1>1, DocsType DEF Gathered
<1>5. n \in 1..n /\ 1..i \subseteq 1..n /\ i = n - 1 /\ \A j \in 1..n : j \in 1..i \/ j = n
  OBVIOUS
<1>6. CASE (Full(docs) \/ list[n].kind = "deleted") /\ Take(g, n) = g
  <2>1. \A k \in DOMAIN docs : docs[k] \in 1..n
    BY <1>4, <1>5
  <2>2. ~Full(docs) => list[n].kind # "live"
    BY <1>6
  <2>3. QED
    BY <1>1, <1>4, <1>5, <1>6, <2>1, <2>2 DEF Gathered
<1>7. CASE /\ ~Full(docs) /\ list[n].kind = "no metadata"
           /\ Take(g, n) = [docs |-> docs, failures |-> Append(g.failures, key)]
  <2> DEFINE h == [docs |-> docs, failures |-> Append(g.failures, key)]
  <2>1. \A k \in DOMAIN docs : docs[k] \in 1..n
    BY <1>4, <1>5
  <2>2. Append(g.failures, key) \in Seq(Texts)
    BY <1>1, <1>3 DEF Texts
  <2>3. h \in Gatherings /\ h.docs = docs
    BY <1>1, <2>2 DEF Gatherings
  <2> HIDE DEF h
  <2>4. Gathered(h, n)
    BY <1>4, <1>5, <1>7, <2>1, <2>3 DEF Gathered
  <2>5. QED
    BY <1>7, <2>4 DEF h
<1>8. CASE /\ ~Full(docs) /\ list[n].kind \notin {"deleted", "no metadata"}
           /\ Take(g, n) = [docs |-> kept, failures |-> g.failures]
  <2> DEFINE h == [docs |-> kept, failures |-> g.failures]
  <2>1. /\ DOMAIN kept = DOMAIN docs \cup {key} /\ kept[key] = n
        /\ \A k \in DOMAIN docs : k # key => kept[k] = docs[k]
    BY DEF Keep
  <2>2. /\ kept \in Docs
        /\ Size(kept) = IF key \in DOMAIN docs THEN Size(docs) ELSE Size(docs) + 1
    BY <1>1, <1>2, <1>3, KeepType
  <2>3. Size(docs) + 1 <= cap
    <3>1. ~Full(docs)
      BY <1>8
    <3>2. Size(docs) \in Nat /\ Size(docs) <= cap
      BY <1>4
    <3> HIDE DEF docs
    <3>3. QED
      BY <3>1, <3>2 DEF Full
  <2>4. key \in Ids \/ key = <<"_anon_", Size(docs)>>
    BY <1>2, <1>3
  <2>5. Numbered(kept)
    BY <1>1, <1>2, <1>3, <1>4, <2>4, KeepsNumbers
  <2>6. ASSUME NEW j \in 1..i, list[j].kind = "live"
        PROVE  \E k \in DOMAIN kept : StandsFor(kept, k, j)
    <3>1. PICK k \in DOMAIN docs : StandsFor(docs, k, j)
      BY <1>8, <2>6 DEF Gathered
    <3>2. j \in 1..(n - 1) /\ (list[n].id # None => key = list[n].id /\ key \in Ids)
      BY <1>2, <1>3, <1>5
    <3> HIDE DEF docs, key
    <3>3. QED
      BY <1>1, <1>2, <1>3, <1>4, <3>1, <3>2, KeepStands
  <2>7. ASSUME NEW k \in DOMAIN kept, k \in Ids PROVE list[kept[k]].id = k
    <3>1. CASE k = key
      <4>1. list[n].id # None
        BY <1>3, <1>4, <2>7, <3>1, HarvestAssumption
      <4>2. QED
        BY <1>3, <2>1, <3>1, <4>1
    <3>2. CASE k # key
      BY <1>4, <2>1, <2>7, <3>2 DEF Labelled
    <3>3. QED
      BY <3>1, <3>2
  <2>8. \A k \in DOMAIN kept : kept[k] \in 1..n
    BY <1>4, <1>5, <2>1
  <2>9. \A j \in 1..n : list[j].kind = "live" => \E k \in DOMAIN kept : StandsFor(kept, k, j)
    <3>1. StandsFor(kept, key, n) /\ key \in DOMAIN kept
      BY <2>1 DEF StandsFor
    <3>2. QED
      BY <1>5, <2>6, <3>1
  <2> HIDE DEF kept, key, docs
  <2>10. h \in Gatherings /\ h.docs = kept
    BY <1>1, <2>2 DEF Gatherings
  <2>11. Size(kept) <= cap
    BY <1>4, <2>2, <2>3
  <2> HIDE DEF h
  <2>12. Gathered(h, n)
    BY <2>5, <2>7, <2>8, <2>9, <2>10, <2>11 DEF Gathered, Labelled
  <2>13. QED
    BY <1>8, <2>12 DEF h
<1>9. QED
  BY <1>1, <1>2, <1>6, <1>7, <1>8, TakeCases

LEMMA GatherGathers ==
  ASSUME cap \in Nat, list \in Lists, NEW from \in Nat, NEW g, Gathered(g, from),
         NEW n \in Nat, from + n <= Len(list)
  PROVE  Gathered(Gather(g, from, n), from + n)
<1> DEFINE S == {k \in Nat : from + k <= Len(list) => Gathered(Gather(g, from, k), from + k)}
<1>1. 0 \in S
  BY GatherSteps DEF Gathers
<1>2. ASSUME NEW k \in Nat, k \in S PROVE k + 1 \in S
  <2>1. CASE from + (k + 1) <= Len(list)
    <3>1. Len(list) \in Nat /\ from + (k + 1) \in 1..Len(list)
          /\ from + k \in Nat /\ from + (k + 1) = (from + k) + 1
      BY <2>1, ListType
    <3>2. Gathered(Gather(g, from, k), from + k)
      BY <1>2, <2>1, <3>1
    <3>3. Gather(g, from, k + 1) = Take(Gather(g, from, k), from + (k + 1))
      BY GatherSteps DEF Gathers
    <3>4. list[from + (k + 1)] \in Record
      BY <3>1, ListType
    <3>5. Gathered(Take(Gather(g, from, k), from + (k + 1)), from + (k + 1))
      BY <3>1, <3>2, <3>4, TakeGathers
    <3>6. QED
      BY <3>3, <3>5
  <2>2. CASE ~(from + (k + 1) <= Len(list))
    BY <2>2
  <2>3. QED
    BY <2>1, <2>2
<1> HIDE DEF S
<1>3. \A k \in Nat : k \in S
  BY <1>1, <1>2, Induction
<1>4. QED
  BY <1>3 DEF S

\* Two pages in turn are one page.
LEMMA GatherOn ==
  ASSUME NEW m \in Nat, NEW n \in Nat
  PROVE  Gather(Gather(Nothing, 0, m), m, n) = Gather(Nothing, 0, m + n)
<1> DEFINE g == Gather(Nothing, 0, m)
           S == {k \in Nat : Gather(g, m, k) = Gather(Nothing, 0, m + k)}
<1>1. 0 \in S
  BY GatherSteps DEF Gathers
<1>2. ASSUME NEW k \in Nat, k \in S PROVE k + 1 \in S
  <2>1. Gather(g, m, k + 1) = Take(Gather(g, m, k), m + (k + 1))
    BY GatherSteps DEF Gathers
  <2>2. m + k \in Nat /\ (m + k) + 1 = m + (k + 1) /\ 0 + ((m + k) + 1) = m + (k + 1)
    OBVIOUS
  <2>3. Gather(Nothing, 0, (m + k) + 1) = Take(Gather(Nothing, 0, m + k), 0 + ((m + k) + 1))
    BY <2>2, GatherSteps DEF Gathers
  <2>4. QED
    BY <1>2, <2>1, <2>2, <2>3
<1> HIDE DEF S, g
<1>3. \A k \in Nat : k \in S
  BY <1>1, <1>2, Induction
<1>4. QED
  BY <1>3 DEF S, g

----------------------------------------------------------------------------
(* The harvest.                                                            *)

Now == [docs |-> collected, failures |-> failures]

\* As long as the harvest goes on, it has gathered what it has read, without a
\* failure of its own, and it asks for what it has not read.
HarvestInv ==
  /\ harvesting \in {"no", "yes", "over"}
  /\ harvesting # "no" =>
       /\ list \in Lists /\ cap \in Caps /\ strayed \in BOOLEAN
       /\ read \in 0..Len(list) /\ token \in 0..MaxList \cup {None, Blank}
       /\ Gathered(Now, read)
  /\ harvesting = "yes" =>
       /\ Now = Gather(Nothing, 0, read)
       /\ ~strayed /\ token \in {read, Blank}
  /\ PagingTransparent
  /\ CleanMeansWhole

LEMMA SameRegistry ==
  ASSUME UNCHANGED registry
  PROVE  /\ Gather(Nothing, 0, read)' = Gather(Nothing, 0, read')
         /\ Gathered(Now, read)' <=> Gathered(Now', read')
<1>1. list' = list /\ cap' = cap
  BY DEF registry
<1>2. Gather(Nothing, 0, read)' = Gather(Nothing, 0, read')
  BY <1>1 DEF Gather, Take, Full, Key, Keep
<1>3. Gathered(Now, read)' <=> Gathered(Now', read')
  BY <1>1 DEF Gathered, Now, Numbered, Labelled, StandsFor, Full
<1>4. QED
  BY <1>2, <1>3

LEMMA HarvestStays == HarvestInv /\ UNCHANGED harvest => HarvestInv'
<1> SUFFICES ASSUME HarvestInv, UNCHANGED harvest PROVE HarvestInv'
  OBVIOUS
<1>1. /\ list' = list /\ cap' = cap /\ token' = token /\ read' = read /\ strayed' = strayed
      /\ collected' = collected /\ failures' = failures /\ harvesting' = harvesting
      /\ UNCHANGED registry
  BY DEF harvest, registry, gathered
<1>2. Now' = Now
  BY <1>1 DEF Now
<1>3. /\ Gather(Nothing, 0, read)' = Gather(Nothing, 0, read)
      /\ Gathered(Now, read)' <=> Gathered(Now, read)
  BY <1>1, <1>2, SameRegistry
<1>4. QED
  BY <1>1, <1>2, <1>3 DEF HarvestInv, PagingTransparent, CleanMeansWhole, Full

LEMMA HarvestBegins == BeginHarvest => HarvestInv'
<1> SUFFICES ASSUME BeginHarvest PROVE HarvestInv'
  OBVIOUS
<1>1. /\ list' \in Lists /\ cap' \in Caps /\ token' = 0 /\ read' = 0 /\ strayed' = FALSE
      /\ collected' = <<>> /\ failures' = <<>>
      /\ harvesting' = IF cap' = 0 THEN "over" ELSE "yes"
  BY DEF BeginHarvest
<1>2. Now' = Nothing
  BY <1>1 DEF Now, Nothing
<1>3. Gathers' /\ (cap \in Nat => Gathered(Nothing, 0))'
  BY GatherSteps, GatheredNothing, PTL
<1>4. Gather(Nothing, 0, read)' = Nothing
  BY <1>1, <1>3 DEF Gathers
<1>5. Gathered(Now, read)'
  BY <1>1, <1>2, <1>3, HarvestAssumption
<1>6. (list \in Lists => Len(list) \in Nat)'
  BY ListType, PTL
<1>7. cap' = 0 => Full(collected)'
  BY <1>1, FS_EmptySet DEF Full, Size
<1>8. /\ strayed' \in BOOLEAN /\ ~strayed' /\ token' = read'
      /\ read' \in 0..Len(list') /\ token' \in 0..MaxList
  <2>1. Len(list') \in Nat
    BY <1>1, <1>6
  <2>2. strayed' \in BOOLEAN /\ ~strayed'
    BY <1>1
  <2>3. token' = read' /\ read' \in 0..Len(list') /\ token' \in 0..MaxList
    BY <1>1, <2>1, HarvestAssumption
  <2>4. QED
    BY <2>2, <2>3
<1>9. PagingTransparent'
  BY <1>2, <1>4 DEF PagingTransparent, Now
<1>10. QED
  BY <1>1, <1>2, <1>4, <1>5, <1>7, <1>8, <1>9 DEF HarvestInv, CleanMeansWhole

LEMMA HarvestReads ==
  ASSUME HarvestInv, NEW n \in 0..MaxList, NEW ending \in {None, Blank}, AnswerPage(n, ending)
  PROVE  HarvestInv'
<1> DEFINE g == Gather(Now, read, n)
           next == IF token + n < Len(list) THEN token + n ELSE ending
<1>1. /\ harvesting = "yes" /\ token \notin {None, Blank} /\ PageFits(n) /\ token = read
      /\ UNCHANGED registry /\ strayed' = strayed
  BY DEF AnswerPage, HarvestInv
<1>2. /\ list \in Lists /\ Len(list) \in Nat /\ Len(list) <= MaxList /\ cap \in Nat
      /\ read \in Nat /\ n \in Nat /\ read + n \in Nat /\ read + n <= Len(list)
  <2>1. list \in Lists /\ Len(list) \in Nat /\ Len(list) <= MaxList /\ MaxList \in Nat
    BY <1>1, ListType, HarvestAssumption DEF HarvestInv
  <2>2. cap \in Nat /\ read \in Nat
    <3>1. cap \in Caps /\ read \in 0..Len(list)
      BY <1>1 DEF HarvestInv
    <3>2. QED
      BY <2>1, <3>1, HarvestAssumption
  <2>3. n \in Nat /\ n <= Len(list) - read
    BY <1>1, <2>1 DEF PageFits
  <2>4. QED
    BY <2>1, <2>2, <2>3
<1>3. /\ Now = Gather(Nothing, 0, read) /\ Gathered(Now, read) /\ ~strayed
      /\ list \in Lists /\ cap \in Caps
  BY <1>1 DEF HarvestInv
<1>4. g = Gather(Nothing, 0, read + n) /\ Gathered(g, read + n)
  BY <1>2, <1>3, GatherOn, GatherGathers
<1>5. /\ collected' = g.docs /\ failures' = g.failures
      /\ token' = next /\ read' = read + n
      /\ harvesting' = GoesOn(g.docs, next)
  BY <1>1 DEF AnswerPage, Now
<1> HIDE DEF g
<1>6. Now' = g
  <2>1. g \in [docs : Docs, failures : Seq(Texts)]
    BY <1>4 DEF Gathered, Gatherings
  <2>2. QED
    BY <1>5, <2>1, Update DEF Now
<1>7. /\ Gather(Nothing, 0, read)' = Now'
      /\ Gathered(Now, read)'
  BY <1>1, <1>4, <1>5, <1>6, SameRegistry
<1>8. list' = list /\ cap' = cap
  BY <1>1 DEF registry
<1>9. /\ token' \in {read', None, Blank}
      /\ token' \in 0..MaxList \cup {None, Blank}
      /\ token' = None => read' = Len(list)
  BY <1>1, <1>2, <1>5, HarvestAssumption
<1> HIDE DEF next
<1>10. harvesting' = IF token' = None \/ Full(collected)' THEN "over" ELSE "yes"
  BY <1>5, <1>8 DEF GoesOn, Full
<1>11. PagingTransparent'
  BY <1>7 DEF PagingTransparent, Now
<1>12. CleanMeansWhole'
  BY <1>8, <1>9, <1>10 DEF CleanMeansWhole
<1>13. read' \in 0..Len(list) /\ strayed' = FALSE
  BY <1>1, <1>2, <1>3, <1>5 DEF HarvestInv
<1>14. QED
  BY <1>3, <1>7, <1>8, <1>9, <1>10, <1>11, <1>12, <1>13 DEF HarvestInv

LEMMA HarvestFails == HarvestInv /\ (AnswerFault \/ AnswerStrays) => HarvestInv'
<1> SUFFICES ASSUME HarvestInv, AnswerFault \/ AnswerStrays PROVE HarvestInv'
  OBVIOUS
<1>1. /\ harvesting = "yes" /\ harvesting' = "over" /\ UNCHANGED registry
      /\ list' = list /\ cap' = cap /\ collected' = collected /\ read' = read
  BY DEF AnswerFault, AnswerStrays, registry, gathered
<1>2. /\ Now = Gather(Nothing, 0, read) /\ Gathered(Now, read)
      /\ list \in Lists /\ cap \in Caps /\ read \in 0..Len(list)
      /\ token \in 0..MaxList \cup {None, Blank} /\ strayed \in BOOLEAN
  BY <1>1 DEF HarvestInv
<1>3. /\ Gather(Nothing, 0, read)' = Now
      /\ Gathered(Now, read)' <=> Gathered(Now', read)
  BY <1>1, <1>2, SameRegistry
<1>4. Now \in [docs : Docs, failures : Seq(Texts)] /\ Now.docs = collected /\ Now.failures = failures
  BY <1>2 DEF Gathered, Gatherings, Now
<1>5. CASE AnswerStrays
  <2>1. Now' = Now /\ strayed' = TRUE /\ token' = None
    BY <1>1, <1>5 DEF AnswerStrays, gathered, Now
  <2>2. PagingTransparent'
    BY <1>3, <2>1 DEF PagingTransparent, Now
  <2>3. CleanMeansWhole'
    BY <2>1 DEF CleanMeansWhole
  <2>4. QED
    BY <1>1, <1>2, <1>3, <2>1, <2>2, <2>3 DEF HarvestInv
<1>6. CASE AnswerFault
  <2>1. failures' = Append(failures, Query) /\ token' = token /\ strayed' = strayed
    BY <1>6 DEF AnswerFault
  <2>2. failures \in Seq(Texts) /\ Query \in Texts
    BY <1>4 DEF Texts
  <2>3. /\ failures' \in Seq(Texts) /\ Len(failures') = Len(failures) + 1 /\ Len(failures) \in Nat
        /\ failures'[Len(failures) + 1] = Query
    BY <2>1, <2>2
  <2>4. Query \in Range(failures')
    BY <2>3 DEF Range
  <2>5. Now' = [Now EXCEPT !.failures = Append(@, Query)]
    BY <1>1, <1>4, <2>1, Update DEF Now
  <2>6. Gathered(Now', read)
    <3>1. Now'.docs = collected /\ Now' \in Gatherings
      BY <1>1, <1>4, <2>3 DEF Now, Gatherings
    <3>2. QED
      BY <1>2, <1>4, <3>1 DEF Gathered
  <2>7. PagingTransparent'
    BY <1>3, <2>5 DEF PagingTransparent, Now
  <2>8. CleanMeansWhole'
    BY <2>4 DEF CleanMeansWhole
  <2>9. QED
    BY <1>1, <1>2, <1>3, <2>1, <2>6, <2>7, <2>8 DEF HarvestInv
<1>7. QED
  BY <1>5, <1>6

LEMMA HarvestStarts == Init => HarvestInv
<1> SUFFICES ASSUME Init PROVE HarvestInv
  OBVIOUS
<1>1. harvesting = "no"
  BY DEF Init
<1>2. QED
  BY <1>1 DEF HarvestInv, PagingTransparent, CleanMeansWhole

LEMMA HarvestStep == HarvestInv /\ [Next]_vars => HarvestInv'
<1> SUFFICES ASSUME HarvestInv, [Next]_vars PROVE HarvestInv'
  OBVIOUS
<1>1. UNCHANGED harvest => HarvestInv'
  BY HarvestStays
<1>2. CASE StartHarvest
  BY <1>2, HarvestBegins DEF StartHarvest
<1>3. CASE ReadPage
  BY <1>3, HarvestReads, HarvestFails DEF ReadPage, Answer
<1>4. CASE \/ \E answer \in {"http error", "no xml", "fails", "right"} : Probe(answer)
           \/ \E reported \in [Statuses -> 0..MaxReported] : ComplyReports(reported)
           \/ \E answer \in {"http error", "no xml", "invalid", "fails", "warns", "right"} :
                Check(answer)
           \/ \E bad \in 0..Size(collected) : CheckRecords(bad)
           \/ Raises
  BY <1>1, <1>4 DEF Probe, ComplyReports, Check, CheckRecords, Raises
<1>5. CASE UNCHANGED vars
  BY <1>1, <1>5 DEF vars
<1>6. QED
  BY <1>2, <1>3, <1>4, <1>5 DEF Next, Step, Ended

\* What the harvest has collected and counted is, at every moment, what the places of
\* the list before its token come to (the loop of harvest_voresource_documents).
THEOREM HarvestInvariant == Spec => []HarvestInv
BY HarvestStarts, HarvestStep, PTL DEF Spec

\* However the registry cuts its list, the harvest of phase 3 gathers the same
\* (harvest_voresource_documents).
THEOREM ValidationPagingTransparent == Spec => []PagingTransparent
<1>1. HarvestInv => PagingTransparent
  BY DEF HarvestInv
<1>2. QED
  BY <1>1, HarvestInvariant, PTL

\* Below the cap, no live record is lost to another one.
THEOREM ValidationNothingLost == Spec => []NothingLost
<1>1. HarvestInv => NothingLost
  BY DEF HarvestInv, NothingLost, Gathered, StandsFor, Now
<1>2. QED
  BY <1>1, HarvestInvariant, PTL

\* A harvest that ends without a failure of its own has read what it should.
THEOREM ValidationCleanMeansWhole == Spec => []CleanMeansWhole
<1>1. HarvestInv => CleanMeansWhole
  BY DEF HarvestInv
<1>2. QED
  BY <1>1, HarvestInvariant, PTL

----------------------------------------------------------------------------
(* The report.                                                             *)

\* In an execution of all phases each query so far is counted, and what is not as it
\* has to be is counted as failed if failures are shown and schemas are used.
Counts ==
  /\ phase = "oai" => Total = asked /\ due = Probes
  /\ phase = "ivoa" => Total = due + asked
  /\ phase = "vor" => Total = due + 4
  /\ phase = "over" =>
       /\ Total = due + 4 + Size(collected) + Len(failures)
       /\ counts["fail"] >= Len(failures)
       /\ harvesting = "over" /\ (failures # <<>> => flawed)
  /\ ~Comply => due = Probes
  /\ builtin /\ "fail" \in show /\ flawed => counts["fail"] > 0

ReportInv == HarvestInv /\ TypeOK /\ (kind = "whole" => Counts)

LEMMA CountedOnce ==
  ASSUME NEW c \in [Statuses -> Nat], NEW tests
  PROVE  /\ Counted(c, tests) \in [Statuses -> Nat]
         /\ Counted(c, tests)["fail"] + Counted(c, tests)["warn"] + Counted(c, tests)["pass"]
              = c["fail"] + c["warn"] + c["pass"] + 1
         /\ Counted(c, tests)["fail"] >= c["fail"]
         /\ "fail" \in tests => Counted(c, tests)["fail"] > 0
<1>1. QueryStatus(tests) \in Statuses /\ ("fail" \in tests => QueryStatus(tests) = "fail")
  BY DEF QueryStatus, Statuses
<1> DEFINE s == QueryStatus(tests)
           d == [c EXCEPT ![s] = @ + 1]
<1>2. s = "fail" \/ s = "warn" \/ s = "pass"
  BY <1>1 DEF Statuses
<1> HIDE DEF s
<1>3. c["fail"] \in Nat /\ c["warn"] \in Nat /\ c["pass"] \in Nat
  BY DEF Statuses
<1>4. d \in [Statuses -> Nat]
  BY <1>2 DEF Statuses
<1>5. CASE s = "fail"
  <2>1. d["fail"] = c["fail"] + 1 /\ d["warn"] = c["warn"] /\ d["pass"] = c["pass"]
    BY <1>5 DEF Statuses
  <2> HIDE DEF d
  <2>2. QED
    BY <1>3, <1>4, <2>1 DEF d, s, Counted
<1>6. CASE s = "warn"
  <2>1. d["fail"] = c["fail"] /\ d["warn"] = c["warn"] + 1 /\ d["pass"] = c["pass"]
    BY <1>6 DEF Statuses
  <2>2. "fail" \notin tests
    BY <1>1, <1>6 DEF s
  <2> HIDE DEF d
  <2>3. QED
    BY <1>3, <1>4, <2>1, <2>2 DEF d, s, Counted
<1>7. CASE s = "pass"
  <2>1. d["fail"] = c["fail"] /\ d["warn"] = c["warn"] /\ d["pass"] = c["pass"] + 1
    BY <1>7 DEF Statuses
  <2>2. "fail" \notin tests
    BY <1>1, <1>7 DEF s
  <2> HIDE DEF d
  <2>3. QED
    BY <1>3, <1>4, <2>1, <2>2 DEF d, s, Counted
<1>8. QED
  BY <1>2, <1>5, <1>6, <1>7

\* Failed and passed queries at once.
LEMMA SumOfCounts ==
  ASSUME NEW f \in Nat, NEW w \in Nat, NEW p \in Nat, NEW a \in Nat, NEW b \in Nat
  PROVE  (f + a) + w + (p + b) = f + w + p + a + b
OBVIOUS

LEMMA CountedMany ==
  ASSUME NEW c \in [Statuses -> Nat], NEW a \in Nat, NEW b \in Nat
  PROVE  LET d == [c EXCEPT !["fail"] = @ + a, !["pass"] = @ + b] IN
         /\ d \in [Statuses -> Nat]
         /\ d["fail"] + d["warn"] + d["pass"] = c["fail"] + c["warn"] + c["pass"] + a + b
         /\ d["fail"] = c["fail"] + a /\ c["fail"] \in Nat
<1> DEFINE d == [c EXCEPT !["fail"] = @ + a, !["pass"] = @ + b]
<1>1. c["fail"] \in Nat /\ c["warn"] \in Nat /\ c["pass"] \in Nat
  BY DEF Statuses
<1>2. d["fail"] = c["fail"] + a /\ d["warn"] = c["warn"] /\ d["pass"] = c["pass"] + b
  BY DEF Statuses
<1>3. d \in [Statuses -> Nat]
  BY <1>1 DEF Statuses
<1> HIDE DEF d
<1>4. /\ d \in [Statuses -> Nat]
      /\ d["fail"] + d["warn"] + d["pass"] = c["fail"] + c["warn"] + c["pass"] + a + b
      /\ d["fail"] = c["fail"] + a /\ c["fail"] \in Nat
  <2>1. (c["fail"] + a) + c["warn"] + (c["pass"] + b) = c["fail"] + c["warn"] + c["pass"] + a + b
    BY <1>1, SumOfCounts
  <2>2. QED
    BY <1>1, <1>2, <1>3, <2>1
<1>5. QED
  BY <1>4 DEF d

LEMMA ReportStarts == Init => ReportInv
<1> SUFFICES ASSUME Init PROVE ReportInv
  OBVIOUS
<1>1. /\ harvesting = "no" /\ due = Probes /\ asked = 0 /\ counts = [t \in Statuses |-> 0] /\ flawed = FALSE
      /\ kind \in Kinds /\ builtin \in BOOLEAN /\ show \in Shows
      /\ phase = IF kind = "whole" THEN "oai" ELSE kind
  BY DEF Init
<1>2. phase \in {"oai", "ivoa", "vor"} /\ (kind = "whole" => phase = "oai")
  BY <1>1 DEF Kinds
<1>3. counts \in [Statuses -> Nat] /\ Total = 0
  BY <1>1 DEF Total, Queries, Statuses
<1>4. Len(Checks) = 4 /\ Probes \in Nat \ {0}
  BY ValidationAssumption DEF Checks
<1>5. asked \in Nat /\ asked < Probes /\ asked < Len(Checks)
  BY <1>1, <1>4
<1>6. TypeOK
  BY <1>1, <1>2, <1>3, <1>4, <1>5 DEF TypeOK, HarvestTypeOK
<1>7. kind = "whole" => Counts
  BY <1>1, <1>2, <1>3 DEF Counts
<1>8. QED
  BY <1>6, <1>7, HarvestStarts DEF ReportInv

LEMMA CollectedType ==
  ASSUME HarvestInv, harvesting # "no"
  PROVE  /\ Size(collected) \in Nat /\ failures \in Seq(Texts) /\ Len(failures) \in Nat
         /\ failures # <<>> => Len(failures) > 0
<1>1. Gathered(Now, read)
  BY DEF HarvestInv
<1>2. collected \in Docs /\ failures \in Seq(Texts)
  BY <1>1 DEF Gathered, Gatherings, Now
<1>3. QED
  BY <1>2, DocsType

LEMMA TypeOfHarvest == HarvestInv => HarvestTypeOK
BY DEF HarvestInv, HarvestTypeOK, Gathered, Now

\* One query with some tests, after which the phase goes on or the next one begins.
LEMMA ReportQuery ==
  ASSUME ReportInv, HarvestInv', NEW tests, NEW last \in Nat, NEW next,
         UNCHANGED <<kind, builtin, show, due, collected, failures, harvesting>>,
         counts' = Counted(counts, tests), flawed' \in BOOLEAN,
         \/ phase = "oai" /\ next = "ivoa" /\ last = Probes
         \/ phase = "ivoa" /\ next = "vor" /\ last = Len(Checks),
         IF asked + 1 < last THEN asked' = asked + 1 /\ UNCHANGED phase ELSE PhaseAfter(next),
         flawed' => flawed \/ ("fail" \in show /\ builtin => "fail" \in tests)
  PROVE  ReportInv'
<1>1. /\ Len(Checks) = 4 /\ Probes \in Nat \ {0} /\ asked \in Nat /\ asked < last
      /\ kind \in Kinds /\ builtin \in BOOLEAN /\ show \in Shows /\ due \in Nat
      /\ counts \in [Statuses -> Nat] /\ flawed \in BOOLEAN
  BY ValidationAssumption DEF Checks, ReportInv, TypeOK
<1>2. /\ counts' \in [Statuses -> Nat] /\ Total' = Total + 1
      /\ counts'["fail"] >= counts["fail"] /\ ("fail" \in tests => counts'["fail"] > 0)
  BY <1>1, CountedOnce DEF Total, Queries
<1>3. counts["fail"] \in Nat /\ counts'["fail"] \in Nat
  BY <1>1, <1>2 DEF Statuses
<1>4. HarvestTypeOK'
  BY TypeOfHarvest, PTL
<1>5. /\ asked' \in Nat /\ phase' \in {"oai", "ivoa", "vor", "over"}
      /\ phase' = "oai" => asked' < Probes
      /\ phase' \in {"ivoa", "vor", "over"} => asked' < Len(Checks)
  BY <1>1 DEF PhaseAfter
<1>6. TypeOK'
  BY <1>1, <1>2, <1>4, <1>5 DEF TypeOK
<1>7. kind = "whole" => Counts'
  <2> SUFFICES ASSUME kind = "whole" PROVE Counts'
    OBVIOUS
  <2>1. Counts
    BY DEF ReportInv
  <2>2. builtin' /\ "fail" \in show' /\ flawed' => counts'["fail"] > 0
    BY <1>2, <1>3, <2>1 DEF Counts
  <2>3. \/ phase' = phase /\ asked' = asked + 1
        \/ phase' = next /\ asked' = 0 /\ asked + 1 = last
    BY <1>1 DEF PhaseAfter
  <2>4. /\ phase' = "oai" => Total' = asked' /\ due' = Probes
        /\ phase' = "ivoa" => Total' = due' + asked'
        /\ phase' = "vor" => Total' = due' + 4
        /\ phase' # "over"
        /\ ~Comply => due' = Probes
    BY <1>1, <1>2, <2>1, <2>3 DEF Counts
  <2>5. QED
    BY <2>2, <2>4 DEF Counts
<1>8. QED
  BY <1>6, <1>7 DEF ReportInv

LEMMA ReportProbe ==
  ASSUME ReportInv, HarvestInv', NEW answer \in {"http error", "no xml", "fails", "right"},
         Probe(answer)
  PROVE  ReportInv'
<1>1. /\ phase = "oai" /\ counts' = Counted(counts, ProbeTests(answer))
      /\ flawed' = (flawed \/ answer # "right")
      /\ IF asked + 1 < Probes THEN asked' = asked + 1 /\ UNCHANGED phase ELSE PhaseAfter("ivoa")
      /\ UNCHANGED <<kind, builtin, show, due, collected, failures, harvesting>>
  BY DEF Probe, setting, harvest, gathered
<1>2. /\ flawed' \in BOOLEAN /\ Probes \in Nat
      /\ flawed' => flawed \/ "fail" \in ProbeTests(answer)
  BY <1>1, ValidationAssumption DEF ReportInv, TypeOK, ProbeTests
<1>3. QED
  BY <1>1, <1>2, ReportQuery

LEMMA ReportCheck ==
  ASSUME ReportInv, HarvestInv',
         NEW answer \in {"http error", "no xml", "invalid", "fails", "warns", "right"},
         Check(answer)
  PROVE  ReportInv'
<1> DEFINE tests == CheckTests(answer)
<1>1. /\ phase = "ivoa" /\ counts' = Counted(counts, tests)
      /\ flawed' = (flawed \/ answer \notin {"right", "warns"})
      /\ IF asked + 1 < Len(Checks) THEN asked' = asked + 1 /\ UNCHANGED phase
         ELSE PhaseAfter("vor")
      /\ UNCHANGED <<kind, builtin, show, due, collected, failures, harvesting>>
  BY DEF Check, setting, harvest, gathered
<1>2. answer \notin {"right", "warns"} => ("fail" \in show /\ builtin => "fail" \in tests)
  BY DEF CheckTests, Truth
<1> HIDE DEF tests
<1>3. /\ flawed' \in BOOLEAN /\ Len(Checks) \in Nat
      /\ flawed' => flawed \/ ("fail" \in show /\ builtin => "fail" \in tests)
  <2>1. flawed \in BOOLEAN
    BY DEF ReportInv, TypeOK
  <2>2. flawed' \in BOOLEAN /\ (flawed' => flawed \/ answer \notin {"right", "warns"})
    BY <1>1, <2>1
  <2>3. Len(Checks) \in Nat
    BY DEF Checks
  <2>4. QED
    BY <1>2, <2>2, <2>3
<1>4. QED
  BY <1>1, <1>3, ReportQuery

\* A report of queries with any statuses is added to the counts.
LEMMA CountedAll ==
  ASSUME NEW c \in [Statuses -> Nat], NEW r \in [Statuses -> Nat]
  PROVE  LET d == [s \in Statuses |-> c[s] + r[s]] IN
         /\ d \in [Statuses -> Nat] /\ Queries(r) \in Nat
         /\ Queries(d) = Queries(c) + Queries(r)
         /\ d["fail"] = c["fail"] + r["fail"]
<1> DEFINE d == [s \in Statuses |-> c[s] + r[s]]
<1>1. /\ c["fail"] \in Nat /\ c["warn"] \in Nat /\ c["pass"] \in Nat
      /\ r["fail"] \in Nat /\ r["warn"] \in Nat /\ r["pass"] \in Nat
  BY DEF Statuses
<1>2. /\ d["fail"] = c["fail"] + r["fail"]
      /\ d["warn"] = c["warn"] + r["warn"]
      /\ d["pass"] = c["pass"] + r["pass"]
  BY DEF Statuses
<1>3. d \in [Statuses -> Nat]
  BY <1>1
<1> HIDE DEF d
<1>4. Queries(r) \in Nat /\ Queries(d) = Queries(c) + Queries(r)
  BY <1>1, <1>2 DEF Queries
<1>5. /\ d \in [Statuses -> Nat] /\ Queries(r) \in Nat
      /\ Queries(d) = Queries(c) + Queries(r)
      /\ d["fail"] = c["fail"] + r["fail"]
  BY <1>2, <1>3, <1>4
<1>6. QED
  BY <1>5 DEF d

LEMMA ReportComply ==
  ASSUME ReportInv, HarvestInv', NEW reported \in [Statuses -> 0..MaxReported],
         ComplyReports(reported)
  PROVE  ReportInv'
<1>1. /\ Comply /\ phase = "oai" /\ asked = 0 /\ PhaseAfter("ivoa")
      /\ due' = Queries(reported)
      /\ counts' = [s \in Statuses |-> counts[s] + reported[s]]
      /\ flawed' = (flawed \/ reported["fail"] > 0)
      /\ UNCHANGED <<kind, builtin, show, collected, failures, harvesting>>
  BY DEF ComplyReports, setting, harvest, gathered
<1>2. Probes \in Nat /\ Len(Checks) = 4 /\ reported \in [Statuses -> Nat]
  BY ValidationAssumption DEF Checks
<1>3. /\ kind \in Kinds /\ builtin \in BOOLEAN /\ show \in Shows
      /\ counts \in [Statuses -> Nat] /\ flawed \in BOOLEAN
      /\ kind = "whole" => Counts
  BY DEF ReportInv, TypeOK
<1>4. /\ counts' \in [Statuses -> Nat] /\ due' \in Nat /\ Total' = Total + due'
      /\ counts'["fail"] = counts["fail"] + reported["fail"]
      /\ counts["fail"] \in Nat /\ reported["fail"] \in Nat
  <2> DEFINE d == [s \in Statuses |-> counts[s] + reported[s]]
  <2>1. counts' = d
    BY <1>1
  <2>2. /\ d \in [Statuses -> Nat] /\ Queries(reported) \in Nat
        /\ Queries(d) = Queries(counts) + Queries(reported)
        /\ d["fail"] = counts["fail"] + reported["fail"]
    BY <1>2, <1>3, CountedAll
  <2>3. counts["fail"] \in Nat /\ reported["fail"] \in Nat
    BY <1>2, <1>3 DEF Statuses
  <2> HIDE DEF d
  <2>4. Total' = Queries(d) /\ Total = Queries(counts)
    BY <2>1 DEF Total, Queries
  <2>5. QED
    BY <1>1, <2>1, <2>2, <2>3, <2>4
<1>5. HarvestTypeOK'
  BY TypeOfHarvest, PTL
<1>6. flawed' \in BOOLEAN /\ (flawed' => flawed \/ reported["fail"] > 0)
  BY <1>1, <1>3
<1>7. phase' \in {"ivoa", "over"} /\ asked' = 0 /\ (kind = "whole" => phase' = "ivoa")
  BY <1>1 DEF PhaseAfter
<1>8. TypeOK'
  BY <1>1, <1>2, <1>3, <1>4, <1>5, <1>6, <1>7 DEF TypeOK
<1>9. kind = "whole" => Counts'
  <2> SUFFICES ASSUME kind = "whole" PROVE Counts'
    OBVIOUS
  <2>1. phase' = "ivoa" /\ Total = 0
    BY <1>1, <1>3, <1>7 DEF Counts
  <2>2. Total' = due' + asked'
    BY <1>4, <1>7, <2>1
  <2>3. builtin' /\ "fail" \in show' /\ flawed' => counts'["fail"] > 0
    <3>1. builtin /\ "fail" \in show /\ flawed => counts["fail"] > 0
      BY <1>3 DEF Counts
    <3>2. QED
      BY <1>1, <1>4, <1>6, <3>1
  <2>4. QED
    BY <1>1, <2>1, <2>2, <2>3 DEF Counts
<1>10. QED
  BY <1>1, <1>8, <1>9 DEF ReportInv

LEMMA ReportRecords ==
  ASSUME ReportInv, HarvestInv', NEW bad \in 0..Size(collected), CheckRecords(bad)
  PROVE  ReportInv'
<1> DEFINE a == bad + HarvestFailures
           b == Size(collected) - bad
<1>1. /\ phase = "vor" /\ harvesting = "over" /\ phase' = "over" /\ asked' = 0
      /\ counts' = [counts EXCEPT !["fail"] = @ + bad + HarvestFailures,
                                  !["pass"] = @ + (Size(collected) - bad)]
      /\ flawed' = (flawed \/ bad > 0 \/ failures # <<>>)
      /\ UNCHANGED <<kind, builtin, show, due, collected, failures, harvesting>>
  BY DEF CheckRecords, setting, harvest, gathered
<1>2. /\ Size(collected) \in Nat /\ Len(failures) \in Nat
      /\ failures # <<>> => Len(failures) > 0
  BY <1>1, CollectedType DEF ReportInv
<1>3. a \in Nat /\ b \in Nat /\ bad \in Nat /\ HarvestFailures \in Nat
      /\ (kind = "whole" => a + b = Size(collected) + Len(failures) /\ a = bad + Len(failures))
  BY <1>2 DEF HarvestFailures
<1>4. /\ kind \in Kinds /\ builtin \in BOOLEAN /\ show \in Shows /\ due \in Nat
      /\ counts \in [Statuses -> Nat] /\ flawed \in BOOLEAN
      /\ kind = "whole" => Counts
  BY DEF ReportInv, TypeOK
<1>5. counts' = [counts EXCEPT !["fail"] = @ + a, !["pass"] = @ + b]
  <2>1. counts["fail"] \in Nat
    BY <1>4 DEF Statuses
  <2>2. counts["fail"] + bad + HarvestFailures = counts["fail"] + a
    BY <1>3, <2>1
  <2>3. QED
    BY <1>1, <2>2
<1> HIDE DEF a, b
<1>6. /\ counts' \in [Statuses -> Nat] /\ Total' = Total + a + b
      /\ counts'["fail"] = counts["fail"] + a /\ counts["fail"] \in Nat
  <2> DEFINE d == [counts EXCEPT !["fail"] = @ + a, !["pass"] = @ + b]
  <2>1. counts' = d
    BY <1>5
  <2>2. /\ d \in [Statuses -> Nat]
        /\ d["fail"] + d["warn"] + d["pass"]
             = counts["fail"] + counts["warn"] + counts["pass"] + a + b
        /\ d["fail"] = counts["fail"] + a /\ counts["fail"] \in Nat
    BY <1>3, <1>4, CountedMany
  <2> HIDE DEF d
  <2>3. QED
    BY <2>1, <2>2 DEF Total, Queries
<1>7. HarvestTypeOK'
  BY TypeOfHarvest, PTL
<1>8. flawed' \in BOOLEAN /\ (flawed' => flawed \/ bad > 0 \/ failures # <<>>)
      /\ (failures # <<>> => flawed')
  BY <1>1, <1>4
<1>9. TypeOK'
  BY <1>1, <1>4, <1>6, <1>7, <1>8 DEF TypeOK, Checks
<1>10. kind = "whole" => Counts'
  <2> SUFFICES ASSUME kind = "whole" PROVE Counts'
    OBVIOUS
  <2>1. Total = due + 4 /\ due \in Nat /\ (~Comply => due' = Probes)
    BY <1>1, <1>4 DEF Counts
  <2>2. Total' = due' + 4 + Size(collected)' + Len(failures)'
    <3>1. Size(collected)' = Size(collected) /\ Len(failures)' = Len(failures)
      BY <1>1 DEF Size
    <3>2. Total' = Total + (a + b) /\ a + b = Size(collected) + Len(failures)
      BY <1>3, <1>6, <2>1
    <3>3. QED
      BY <1>1, <1>2, <2>1, <3>1, <3>2
  <2>3. builtin' /\ "fail" \in show' /\ flawed' => counts'["fail"] > 0
    <3>1. builtin /\ "fail" \in show /\ flawed => counts["fail"] > 0
      BY <1>4 DEF Counts
    <3>2. bad > 0 \/ failures # <<>> => a > 0
      BY <1>2, <1>3
    <3>3. QED
      BY <1>1, <1>3, <1>6, <1>8, <3>1, <3>2
  <2>4. counts'["fail"] >= Len(failures)'
    BY <1>1, <1>2, <1>3, <1>6
  <2>5. QED
    BY <1>1, <1>8, <2>1, <2>2, <2>3, <2>4 DEF Counts
<1>11. QED
  BY <1>1, <1>9, <1>10 DEF ReportInv

\* Steps of the harvest, steps that raise and steps that change nothing.
LEMMA ReportSame ==
  ASSUME ReportInv, HarvestInv', UNCHANGED <<setting, asked, verdict>>,
         \/ phase' = phase /\ phase # "over"
         \/ phase' = "raised"
         \/ phase' = phase /\ UNCHANGED harvest
  PROVE  ReportInv'
<1>1. /\ UNCHANGED <<kind, builtin, show, due, asked, counts, flawed>>
      /\ UNCHANGED Total
      /\ phase' = "over" => UNCHANGED <<phase, collected, failures, harvesting>>
  BY DEF setting, verdict, harvest, gathered, Total, Queries
<1>2. HarvestTypeOK'
  BY TypeOfHarvest, PTL
<1>3. TypeOK'
  BY <1>1, <1>2 DEF ReportInv, TypeOK
<1>4. kind = "whole" => Counts'
  <2> SUFFICES ASSUME kind = "whole", Counts PROVE Counts'
    BY DEF ReportInv
  <2>1. phase' = "over" => Size(collected)' = Size(collected) /\ Len(failures)' = Len(failures)
    BY <1>1 DEF Size
  <2>2. QED
    BY <1>1, <2>1 DEF Counts
<1>5. QED
  BY <1>1, <1>3, <1>4 DEF ReportInv

LEMMA ReportStep == ReportInv /\ [Next]_vars => ReportInv'
<1> SUFFICES ASSUME ReportInv, [Next]_vars PROVE ReportInv'
  OBVIOUS
<1>1. HarvestInv'
  BY HarvestStep DEF ReportInv
<1>2. ASSUME NEW answer \in {"http error", "no xml", "fails", "right"}, Probe(answer)
      PROVE  ReportInv'
  BY <1>1, <1>2, ReportProbe
<1>3. ASSUME NEW reported \in [Statuses -> 0..MaxReported], ComplyReports(reported)
      PROVE  ReportInv'
  BY <1>1, <1>3, ReportComply
<1>4. ASSUME NEW answer \in {"http error", "no xml", "invalid", "fails", "warns", "right"},
             Check(answer)
      PROVE  ReportInv'
  BY <1>1, <1>4, ReportCheck
<1>5. ASSUME NEW bad \in 0..Size(collected), CheckRecords(bad) PROVE ReportInv'
  BY <1>1, <1>5, ReportRecords
<1>6. CASE StartHarvest \/ ReadPage
  BY <1>1, <1>6, ReportSame DEF StartHarvest, ReadPage
<1>7. CASE Raises
  BY <1>1, <1>7, ReportSame DEF Raises
<1>8. CASE UNCHANGED vars
  BY <1>1, <1>8, ReportSame DEF vars
<1>9. QED
  BY <1>2, <1>3, <1>4, <1>5, <1>6, <1>7, <1>8 DEF Next, Step, Ended

\* The counts of the report are at every moment those of the queries that have been
\* reported (validation_result_counts).
THEOREM ReportInvariant == Spec => []ReportInv
BY ReportStarts, ReportStep, PTL DEF Spec

\* The variables of a validation and of its harvest keep their types.
THEOREM ValidationTypeOK == Spec => []TypeOK
<1>1. ReportInv => TypeOK
  BY DEF ReportInv
<1>2. QED
  BY <1>1, ReportInvariant, PTL

\* A merged report counts each query of phase 1, probed or reported by a comply binary
\* that may report any, each query of phase 2, each record that was kept and each
\* failure of the harvest once (validate_vor and the merging of the reports).
THEOREM ValidationEveryQueryCounted == Spec => []EveryQueryCounted
<1>1. ReportInv => EveryQueryCounted
  <2>1. Len(Checks) = 4
    BY DEF Checks
  <2>2. QED
    BY <2>1 DEF ReportInv, Counts, EveryQueryCounted, Merged
<1>2. QED
  BY <1>1, ReportInvariant, PTL

\* With the default settings for registration, a registry that may be registered was
\* flawless in everything it was asked, and its list was read to the end or the cap.
THEOREM ValidationEligibleMeansConforming ==
  ASSUME MaxFailures = 0, RequireSchemas
  PROVE  Spec => []EligibleMeansConforming
<1>1. ReportInv => EligibleMeansConforming
  <2> SUFFICES ASSUME ReportInv, Eligible, "fail" \in show
               PROVE  ~flawed /\ (strayed \/ read = Len(list) \/ Full(collected))
    BY DEF EligibleMeansConforming
  <2>1. Merged /\ builtin /\ counts["fail"] <= 0
    BY DEF Eligible
  <2>2. /\ Counts /\ CleanMeansWhole /\ flawed \in BOOLEAN
        /\ harvesting = "over" /\ (failures # <<>> => flawed)
    BY <2>1 DEF ReportInv, HarvestInv, Counts, TypeOK, Merged
  <2>3. counts["fail"] \in Nat
    BY DEF ReportInv, TypeOK, Statuses
  <2>4. ~flawed
    BY <2>1, <2>2, <2>3 DEF Counts
  <2>5. Query \notin Range(failures)
    BY <2>2, <2>4 DEF Range
  <2>6. QED
    BY <2>2, <2>4, <2>5 DEF CleanMeansWhole
<1>2. QED
  BY <1>1, ReportInvariant, PTL

=============================================================================
