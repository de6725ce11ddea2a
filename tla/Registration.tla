---------------------------- MODULE Registration ----------------------------
(***************************************************************************)
(* What registration reads of a run, what the validator is told about it   *)
(* beforehand, and what becomes of it when it is submitted                 *)
(* (registry/registration.py).  The two decide separately: the offer is    *)
(* made by eligibility_payload, the listing by register_publisher.         *)
(***************************************************************************)
EXTENDS Catalogue

CONSTANT None   \* no identifier

\* The endpoint of a run, the identifier that Identify gave, and whether its
\* report passes the policy.
Run == [url : Urls, live : Ids \cup {None}, passes : BOOLEAN]

\* find_by_endpoint, exclude_identifier
Owners(run, except) == ListedAt(catalogue, run.url) \ {except}

----------------------------------------------------------------------------
(* The offer. *)

Updates(run) == run.live # None /\ run.live \in DOMAIN catalogue

\* update_blocked_reason
UpdateBlocked(run, existing) ==
  run.live = None \/ run.live # existing \/ Owners(run, existing) # {}

\* eligibility_payload: in create mode nobody asks who owns the endpoint.
Offer(run) ==
  [eligible |-> run.passes /\ ~(Updates(run) /\ UpdateBlocked(run, run.live)),
   mode |-> IF Updates(run) THEN "update" ELSE "create",
   id |-> run.live]

----------------------------------------------------------------------------
(* The submission. *)

\* Mutant: an update does not look for another owner of the endpoint.
RefusedByIdentity(run, o) ==
  \/ ~run.passes
  \/ o \notin DOMAIN catalogue /\ ListedAt(catalogue, run.url) # {}
  \/ o \in DOMAIN catalogue /\ run.live # o

\* What makes register_publisher raise when run is submitted as o.
Refused(run, o) ==
  \/ ~run.passes
  \/ o \notin DOMAIN catalogue /\ ListedAt(catalogue, run.url) # {}
  \/ o \in DOMAIN catalogue /\ (Owners(run, o) # {} \/ run.live # o)

\* register_publisher: what is not refused is listed, an update with the
\* registered_at of the listing that it replaces.
RegisterRun(run, o, now) ==
  /\ ~Refused(run, o)
  /\ Put(o, [url |-> run.url,
             since |-> IF o \in DOMAIN catalogue THEN catalogue[o].since ELSE now])
=============================================================================
