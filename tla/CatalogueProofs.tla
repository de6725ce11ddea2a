-------------------------- MODULE CatalogueProofs --------------------------
(***************************************************************************)
(* What every behaviour of Catalogue keeps, for any set of identifiers and *)
(* any way of comparing endpoints.                                         *)
(***************************************************************************)
EXTENDS Catalogue, TLAPS

IInv == TypeOK /\ UniqueEndpoint

\* One entry put into the table leaves it a table of entries.
LEMMA PutType ==
  ASSUME TypeOK, NEW o \in Ids, NEW e \in Entry, Put(o, e)
  PROVE  /\ TypeOK'
         /\ DOMAIN catalogue' = DOMAIN catalogue \cup {o}
         /\ catalogue'[o] = e
         /\ \A i \in DOMAIN catalogue \ {o} : catalogue'[i] = catalogue[i]
BY DEF TypeOK, Tables, Put

\* An entry put at an endpoint that nobody else holds gives no endpoint a
\* second owner.
LEMMA PutOwner ==
  ASSUME TypeOK, UniqueEndpoint, NEW o \in Ids, NEW e \in Entry, Put(o, e),
         ListedAt(catalogue, e.url) \subseteq {o}
  PROVE  UniqueEndpoint'
<1>1. /\ DOMAIN catalogue' = DOMAIN catalogue \cup {o}
      /\ catalogue'[o] = e
      /\ \A i \in DOMAIN catalogue \ {o} : catalogue'[i] = catalogue[i]
  BY PutType
<1>2. \A i \in DOMAIN catalogue : Norm[catalogue[i].url] = Norm[e.url] => i = o
  BY DEF ListedAt
<1> SUFFICES ASSUME NEW i \in DOMAIN catalogue', NEW j \in DOMAIN catalogue',
                    Norm[catalogue'[i].url] = Norm[catalogue'[j].url]
             PROVE  i = j
  BY DEF UniqueEndpoint, OneOwner
<1>3. CASE i = o
  BY <1>1, <1>2, <1>3
<1>4. CASE j = o
  BY <1>1, <1>2, <1>4
<1>5. CASE i # o /\ j # o
  BY <1>1, <1>5 DEF UniqueEndpoint, OneOwner
<1>6. QED
  BY <1>3, <1>4, <1>5

LEMMA StepKeepsIInv == IInv /\ [Next]_catalogue => IInv'
<1> SUFFICES ASSUME IInv, [Next]_catalogue PROVE IInv'
  OBVIOUS
<1>1. ASSUME NEW o \in Ids, NEW u \in Urls, Update(o, u) PROVE IInv'
  <2> DEFINE e == [url |-> u, since |-> catalogue[o].since]
  <2>1. e \in Entry
    BY <1>1 DEF IInv, TypeOK, Tables, Entry, Update
  <2>2. Put(o, e) /\ ListedAt(catalogue, e.url) \subseteq {o}
    BY <1>1 DEF Update
  <2> HIDE DEF e
  <2>3. QED
    BY <2>1, <2>2, PutType, PutOwner DEF IInv
<1>2. ASSUME NEW o \in Ids, NEW u \in Urls, NEW now \in Stamps, Register(o, u, now)
      PROVE  IInv'
  <2> DEFINE e == [url |-> u, since |-> now]
  <2>1. e \in Entry
    BY DEF Entry
  <2>2. Put(o, e) /\ ListedAt(catalogue, e.url) \subseteq {o}
    BY <1>2 DEF Register
  <2> HIDE DEF e
  <2>3. QED
    BY <2>1, <2>2, PutType, PutOwner DEF IInv
<1>3. CASE UNCHANGED catalogue
  BY <1>3 DEF IInv, TypeOK, UniqueEndpoint, OneOwner
<1>4. QED
  BY <1>1, <1>2, <1>3 DEF Next

\* The catalogue is always a table of entries.
THEOREM CatalogueTyped == Spec => []TypeOK
<1>1. Init => IInv
  BY DEF Init, IInv, UniqueEndpoint
<1>2. IInv => TypeOK
  BY DEF IInv
<1>3. QED
  BY <1>1, <1>2, StepKeepsIInv, PTL DEF Spec

\* No endpoint ever has two owners.
THEOREM EndpointsUnique == Spec => []UniqueEndpoint
<1>1. Init => IInv
  BY DEF Init, IInv, UniqueEndpoint
<1>2. IInv => UniqueEndpoint
  BY DEF IInv
<1>3. QED
  BY <1>1, <1>2, StepKeepsIInv, PTL DEF Spec

\* A listing stays listed and keeps the time it was registered.
THEOREM ListingsKept == Spec => ListingKept
<1> DEFINE Keeps == \A i \in DOMAIN catalogue :
                      i \in DOMAIN catalogue' /\ catalogue'[i].since = catalogue[i].since
<1>1. IInv /\ [Next]_catalogue => [Keeps]_catalogue
  <2> SUFFICES ASSUME IInv, Next PROVE Keeps
    OBVIOUS
  <2>1. ASSUME NEW o \in Ids, NEW u \in Urls, Update(o, u) PROVE Keeps
    BY <2>1 DEF Update, Put
  <2>2. ASSUME NEW o \in Ids, NEW u \in Urls, NEW now \in Stamps, Register(o, u, now)
        PROVE  Keeps
    BY <2>2 DEF Register, Put
  <2>3. QED
    BY <2>1, <2>2 DEF Next
<1>2. Init => IInv
  BY DEF Init, IInv, UniqueEndpoint
<1>3. QED
  BY <1>1, <1>2, StepKeepsIInv, PTL DEF Spec, ListingKept
=============================================================================
