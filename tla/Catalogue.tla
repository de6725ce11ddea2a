----------------------------- MODULE Catalogue -----------------------------
(***************************************************************************)
(* The catalogue of publishing registries as registration promises it,     *)
(* whatever files, processes and locks hold it: a table of listings keyed  *)
(* by IVOA identifier that only an accepted registration changes.          *)
(* PublisherFile is the detailed module and is shown to implement it.      *)
(***************************************************************************)
CONSTANTS
  Ids,       \* IVOA identifiers of registries
  Urls,      \* spellings of OAI endpoints
  Norm,      \* Norm[u]: u as endpoints are compared (normalize_endpoint)
  Stamps     \* values of registered_at

VARIABLE catalogue   \* one entry for each listed identifier

Entry == [url : Urls, since : Stamps]

ListedAt(cat, u) == {i \in DOMAIN cat : Norm[cat[i].url] = Norm[u]}

Tables == UNION {[S -> Entry] : S \in SUBSET Ids}

TypeOK == catalogue \in Tables

OneOwner(cat) ==
  \A i, j \in DOMAIN cat : Norm[cat[i].url] = Norm[cat[j].url] => i = j

\* The file outlives the service: any table with one owner per endpoint.
Init == TypeOK /\ OneOwner(catalogue)

----------------------------------------------------------------------------

Put(o, e) ==
  catalogue' =
    [i \in DOMAIN catalogue \cup {o} |-> IF i = o THEN e ELSE catalogue[i]]

\* Mutant: registered_at is forgotten.
RegisterUndated(o, u, now) ==
  /\ o \notin DOMAIN catalogue
  /\ ListedAt(catalogue, u) = {}
  /\ Put(o, [url |-> u])

\* A new registry is listed unless its endpoint already has an owner.
Register(o, u, now) ==
  /\ o \notin DOMAIN catalogue
  /\ ListedAt(catalogue, u) = {}
  /\ Put(o, [url |-> u, since |-> now])

\* A listed registry moves to a new endpoint and keeps its registered_at.
Update(o, u) ==
  /\ o \in DOMAIN catalogue
  /\ ListedAt(catalogue, u) \subseteq {o}
  /\ Put(o, [url |-> u, since |-> catalogue[o].since])

Next ==
  \E o \in Ids, u \in Urls :
    Update(o, u) \/ \E now \in Stamps : Register(o, u, now)

Spec == Init /\ [][Next]_catalogue

----------------------------------------------------------------------------

\* No endpoint, in any spelling, is listed under two identifiers
\* (registration.py _register_new and _update_existing look for an owner
\* first; README "must not already belong to a different registered identifier").
UniqueEndpoint == OneOwner(catalogue)

\* A listing is never dropped and keeps its registered_at (README "The
\* original registered_at timestamp is preserved").
ListingKept ==
  [][\A i \in DOMAIN catalogue :
       i \in DOMAIN catalogue' /\ catalogue'[i].since = catalogue[i].since]_catalogue
=============================================================================
