--------------------------- MODULE PublisherFile ---------------------------
(***************************************************************************)
(* publishers.json as the service and `benson check-publishers` use it:    *)
(* two programs on one volume, each reading the whole document and writing *)
(* it back through the same temporary file (registry/publishers_store.py,  *)
(* registry/registration.py, registry/publishers_check.py, main.py).       *)
(*                                                                         *)
(* The asyncio lock of a path is process-local and no critical section     *)
(* suspends, so requests of the service never interleave with each other:  *)
(* Web is one process.  What interleaves are the system calls of different *)
(* processes, and a process may be killed between any two of them.         *)
(***************************************************************************)
EXTENDS Naturals, FiniteSets

CONSTANTS
  Ids, Urls,
  Norm,        \* Norm[u]: u as normalize_endpoint compares it
  Stored,      \* Stored[u]: u as _harvest_url writes it into a row
  Web,         \* the service process
  Checkers,    \* runs of check-publishers
  Overlap,     \* where the programs overlap: "sections", anywhere but in each
               \* other's read-modify-write; "any", there too
  Inodes,      \* files that main and temporary names can refer to
  NoFile, NoId, NoDetail, Mismatch, Unlisted,
  MaxClock     \* bound of the clock that stamps rows

\* Trimming an endpoint for storage does not change what it compares equal to.
ASSUME StoredAssumption ==
  /\ Norm \in [Urls -> Urls] /\ Stored \in [Urls -> Urls]
  /\ \A u \in Urls : Norm[Stored[u]] = Norm[u]
ASSUME ProcessAssumption ==
  Web \notin Checkers /\ Overlap \in {"sections", "any"}
ASSUME FileAssumption ==
  NoFile \notin Inodes /\ MaxClock \in Nat /\ IsFiniteSet(Inodes)
\* That there is no row is told from every time stamp.
ASSUME UnlistedAssumption == Unlisted \notin 0..MaxClock

VARIABLES
  main, tmp,   \* what publishers.json and publishers.json.tmp refer to
  content,     \* the text of every file
  clock,       \* datetime.now(UTC)
  pc,          \* where each process is
  local,       \* what it remembers of its operation
  out          \* its pending write: the rows, the open file, where to go next

vars == <<main, tmp, content, clock, pc, local, out>>

Procs == {Web} \cup Checkers
Detail == {NoDetail, Mismatch} \cup Urls
Time == 0..MaxClock

\* A row: the endpoint, registered_at, last_checked_at and check_detail; a
\* Urls value of check_detail reads "live harvest URL is ...".
Row == [url : Urls, since : Time, checked : Time, detail : Detail]

Documents == UNION {[S -> Row] : S \in SUBSET Ids}
NoRows == [i \in {} |-> i]

Empty == [kind |-> "empty", rows |-> NoRows]
Garbled == [kind |-> "garbled", rows |-> NoRows]
Text(rows) == [kind |-> "doc", rows |-> rows]

\* Nothing to remember between operations, and nothing to write.
Nothing == [done |-> TRUE]
NoWrite == [rows |-> NoRows, fd |-> NoFile, then |-> "idle"]

Goto(p, l) == pc' = [pc EXCEPT ![p] = l]

Remember(p, r) == local' = [local EXCEPT ![p] = r]

\* The operation of p is over: it returned, answered an error or raised.
Finish(p) ==
  /\ Goto(p, "idle")
  /\ Remember(p, Nothing)
  /\ out' = [out EXCEPT ![p] = NoWrite]

\* p has a document to write back before it goes on at label l.
WriteBack(p, rows, l) ==
  /\ Goto(p, "open")
  /\ out' = [out EXCEPT ![p].rows = rows, ![p].then = l]

----------------------------------------------------------------------------
(* The file. *)

\* _read_document_unlocked: a missing or empty file is an empty document, and
\* text that is not JSON raises.
ReadText == IF main = NoFile THEN Empty ELSE content[main]
Readable == ReadText.kind # "garbled"
Rows == ReadText.rows

\* Files that other processes than p have open; one that is open nowhere and has
\* no name is gone.
HeldOpen(p) == {out[q].fd : q \in {r \in Procs \ {p} : pc[r] = "write"}}
Named == {main, tmp} \ {NoFile}

\* Mutant: the document is opened for writing in place.
OpenInPlace(p) ==
  /\ pc[p] = "open"
  /\ \E n \in IF main # NoFile THEN {main} ELSE Inodes :
       /\ tmp' = n
       /\ content' = [content EXCEPT ![n] = Empty]
       /\ out' = [out EXCEPT ![p].fd = n]
  /\ Goto(p, "write")
  /\ UNCHANGED <<main, clock, local>>

\* open(tmp, "w") of write_text: the old temporary file is truncated, and kept
\* by whoever has it open too; a missing one is created.
OpenTemporary(p) ==
  /\ pc[p] = "open"
  /\ \E n \in IF tmp # NoFile
              THEN {tmp}
              ELSE Inodes \ ({main} \cup HeldOpen(p)) :
       /\ tmp' = n
       /\ content' = [content EXCEPT ![n] = Empty]
       /\ out' = [out EXCEPT ![p].fd = n]
  /\ Goto(p, "write")
  /\ UNCHANGED <<main, clock, local>>

\* The write and close of write_text, from offset 0 of the open file.  Over
\* another writer's longer text it leaves the tail of that text.
WriteTemporary(p) ==
  LET n == out[p].fd
      new == Text(out[p].rows)
  IN
  /\ pc[p] = "write"
  /\ \E text \in IF content[n] \in {Empty, new} THEN {new} ELSE {new, Garbled} :
       content' = [content EXCEPT ![n] = IF n \in Named THEN text ELSE Empty]
  /\ out' = [out EXCEPT ![p].fd = NoFile]
  /\ Goto(p, "replace")
  /\ UNCHANGED <<main, tmp, clock, local>>

\* os.replace(tmp, path); FileNotFoundError when another process has moved the
\* temporary file away.  The file that main leaves is unlinked and forgotten.
ReplaceMain(p) ==
  /\ pc[p] = "replace"
  /\ IF tmp = NoFile
     THEN Finish(p) /\ UNCHANGED <<main, tmp, content>>
     ELSE /\ main' = tmp
          /\ tmp' = NoFile
          /\ content' = IF main = NoFile \/ main \in HeldOpen(p)
                        THEN content
                        ELSE [content EXCEPT ![main] = Empty]
          /\ Goto(p, out[p].then)
          /\ out' = [out EXCEPT ![p] = NoWrite]
          /\ UNCHANGED local
  /\ UNCHANGED clock

\* The lock of a read-modify-write holds nothing off in another process; only
\* the deployment's schedule does.
Section == {"open", "write", "replace"}
MayEnterSection ==
  Overlap = "sections" => \A q \in Procs : pc[q] \notin Section

----------------------------------------------------------------------------
(* register_publisher, called by the service for a run whose validation is *)
(* eligible: the run's endpoint, its live identifier and the form's one.   *)

BeginRegister(o, u, live) ==
  /\ pc[Web] = "idle"
  /\ Goto(Web, "seed")
  /\ Remember(Web, [id |-> o, url |-> u, live |-> live])
  /\ UNCHANGED <<main, tmp, content, clock, out>>

\* ensure_seed creates the file if there is none.
EnsureSeed ==
  /\ pc[Web] = "seed" /\ MayEnterSection
  /\ IF main = NoFile
     THEN WriteBack(Web, NoRows, "find_id")
     ELSE Goto(Web, "find_id") /\ UNCHANGED out
  /\ UNCHANGED <<main, tmp, content, clock, local>>

\* find_by_identifier: is this a new listing or an update?
FindIdentifier ==
  LET r == local[Web] IN
  /\ pc[Web] = "find_id"
  /\ IF Readable
     THEN /\ Goto(Web, "find_endpoint")
          /\ Remember(Web, [id |-> r.id, url |-> r.url, live |-> r.live,
               since |-> IF r.id \in DOMAIN Rows THEN Rows[r.id].since ELSE Unlisted])
          /\ UNCHANGED out
     ELSE Finish(Web)
  /\ UNCHANGED <<main, tmp, content, clock>>

EndpointOwners(rows, u) == {i \in DOMAIN rows : Norm[rows[i].url] = Norm[u]}

\* Mutant: only a new listing looks for the owner of its endpoint.
ConflictOfNewOnly(r) == r.since = Unlisted /\ EndpointOwners(Rows, r.url) # {}

\* find_by_endpoint leaves out the identifier being updated.
Conflict(r) ==
  EndpointOwners(Rows, r.url) \ (IF r.since # Unlisted THEN {r.id} ELSE {}) # {}

\* _live_check_fields: an update needs the live identifier; a new listing notes
\* that it differs.
IdentityRefused(r) == r.since # Unlisted /\ r.live # r.id
\* Mutant: the live identifier itself is stored as the detail.
LiveIdentifierAsDetail(r) == IF r.live \in {r.id, NoId} THEN NoDetail ELSE r.live

LiveDetail(r) == IF r.live \in {r.id, NoId} THEN NoDetail ELSE Mismatch

\* _register_new and _update_existing up to the upsert.
FindEndpoint ==
  LET r == local[Web] IN
  /\ pc[Web] = "find_endpoint"
  /\ IF ~Readable \/ Conflict(r) \/ IdentityRefused(r)
     THEN Finish(Web)
     ELSE /\ Goto(Web, "upsert")
          /\ Remember(Web, [id |-> r.id, row |->
               [url |-> Stored[r.url],
                since |-> IF r.since # Unlisted THEN r.since ELSE clock,
                checked |-> clock, detail |-> LiveDetail(r)]])
          /\ UNCHANGED out
  /\ UNCHANGED <<main, tmp, content, clock>>

\* upsert replaces the row, but a check field that the new row leaves unset
\* keeps the old row's value.
Upserted(rows, o, row) ==
  LET kept == IF o \in DOMAIN rows /\ row.detail = NoDetail
              THEN [row EXCEPT !.detail = rows[o].detail]
              ELSE row
  IN [i \in DOMAIN rows \cup {o} |-> IF i = o THEN kept ELSE rows[i]]

Upsert ==
  LET r == local[Web] IN
  /\ pc[Web] = "upsert" /\ MayEnterSection
  /\ IF Readable
     THEN WriteBack(Web, Upserted(Rows, r.id, r.row), "idle") /\ Remember(Web, Nothing)
     ELSE Finish(Web)
  /\ UNCHANGED <<main, tmp, content, clock>>

----------------------------------------------------------------------------
(* benson check-publishers *)

\* check_publishers loads the listings and takes its time stamp.
LoadListings(c) ==
  /\ pc[c] = "idle"
  /\ Readable
  /\ Goto(c, "probe")
  /\ Remember(c, [url |-> [i \in DOMAIN Rows |-> Rows[i].url], checked |-> clock])
  /\ UNCHANGED <<main, tmp, content, clock, out>>

\* What a probe can report of a listing at u: nothing, another identity or no
\* answer (Mismatch), or a live harvest URL that compares different.
ProbeDetails(u) == {NoDetail, Mismatch} \cup {v \in Urls : Norm[v] # Norm[u]}

\* --dry-run stops here, and so does an exception that is no httpx.HTTPError:
\* it leaves gather, and nothing is written.
CheckEnds(c) ==
  /\ pc[c] = "probe"
  /\ Finish(c)
  /\ UNCHANGED <<main, tmp, content, clock>>

\* Mutant: a drifted listing is moved to its live URL.
AnnotatedAndMoved(rows, detail, now) ==
  [i \in DOMAIN rows |->
     IF i \in DOMAIN detail
     THEN [rows[i] EXCEPT !.checked = now, !.detail = detail[i],
                          !.url = IF detail[i] \in Urls THEN detail[i] ELSE @]
     ELSE rows[i]]

\* annotate_checks: the rows as they are now get the results by identifier.
Annotated(rows, detail, now) ==
  [i \in DOMAIN rows |->
     IF i \in DOMAIN detail
     THEN [rows[i] EXCEPT !.checked = now, !.detail = detail[i]]
     ELSE rows[i]]

\* All probes have answered; each listing that was loaded has a result.
AnnotateChecks(c) ==
  LET r == local[c] IN
  /\ pc[c] = "probe" /\ MayEnterSection
  /\ IF Readable
     THEN /\ \E d \in [DOMAIN r.url -> Detail] :
               /\ \A i \in DOMAIN d : d[i] \in ProbeDetails(r.url[i])
               /\ WriteBack(c, Annotated(Rows, d, r.checked), "idle")
          /\ Remember(c, Nothing)
     ELSE Finish(c)
  /\ UNCHANGED <<main, tmp, content, clock>>

----------------------------------------------------------------------------
(* The environment. *)

\* The process is killed; a write it was in the middle of may be cut short.
Crash(p) ==
  /\ pc[p] # "idle"
  /\ Finish(p)
  /\ \/ UNCHANGED content
     \/ /\ pc[p] = "write" /\ out[p].fd \in Named
        /\ content' = [content EXCEPT ![out[p].fd] = Garbled]
  /\ UNCHANGED <<main, tmp, clock>>

Tick ==
  /\ clock < MaxClock
  /\ clock' = clock + 1
  /\ UNCHANGED <<main, tmp, content, pc, local, out>>

Register ==
  \/ \E o \in Ids, u \in Urls, live \in Ids \cup {NoId} : BeginRegister(o, u, live)
  \/ EnsureSeed \/ FindIdentifier \/ FindEndpoint \/ Upsert

Check(c) == LoadListings(c) \/ CheckEnds(c) \/ AnnotateChecks(c)

WriteFile(p) == OpenTemporary(p) \/ WriteTemporary(p) \/ ReplaceMain(p)

\* The deployment starts without a file, or with one that lists every endpoint
\* once.
OneOwner(rows) ==
  \A i, j \in DOMAIN rows : Norm[rows[i].url] = Norm[rows[j].url] => i = j

FirstRow == [url : {Stored[u] : u \in Urls}, since : {0}, checked : {0},
             detail : {NoDetail}]

Init ==
  /\ \/ main = NoFile /\ content = [n \in Inodes |-> Empty]
     \/ /\ main \in Inodes
        /\ \E rows \in UNION {[S -> FirstRow] : S \in SUBSET Ids} :
             /\ OneOwner(rows)
             /\ content = [n \in Inodes |-> IF n = main THEN Text(rows) ELSE Empty]
  /\ tmp = NoFile
  /\ clock = 0
  /\ pc = [p \in Procs |-> "idle"]
  /\ local = [p \in Procs |-> Nothing]
  /\ out = [p \in Procs |-> NoWrite]

Next ==
  \/ Register
  \/ \E c \in Checkers : Check(c)
  \/ \E p \in Procs : WriteFile(p) \/ Crash(p)
  \/ Tick

Spec == Init /\ [][Next]_vars

----------------------------------------------------------------------------

Labels ==
  {"idle", "seed", "find_id", "find_endpoint", "upsert", "probe"} \cup Section

\* What a process remembers where: the request, the request and the listing it
\* found, the row to store; the loaded listings.
Request == [id : Ids, url : Urls, live : Ids \cup {NoId}]
Lookup == [id : Ids, url : Urls, live : Ids \cup {NoId}, since : Time \cup {Unlisted}]
Upsertion == [id : Ids, row : Row]
Loaded == [url : UNION {[S -> Urls] : S \in SUBSET Ids}, checked : Time]

LocalOK(p) ==
  /\ pc[p] \in {"seed", "find_id"} => local[p] \in Request
  /\ out[p].then = "find_id" => pc[p] \in Section /\ local[p] \in Request
  /\ pc[p] = "find_endpoint" => local[p] \in Lookup
  /\ pc[p] = "upsert" => local[p] \in Upsertion
  /\ pc[p] = "probe" => local[p] \in Loaded

\* Names, files, labels and what processes remember are of their kinds.
TypeOK ==
  /\ main \in {NoFile} \cup Inodes
  /\ tmp \in {NoFile} \cup Inodes
  /\ content \in [Inodes -> [kind : {"empty", "garbled", "doc"}, rows : Documents]]
  /\ clock \in Time
  /\ pc \in [Procs -> Labels]
  /\ out \in [Procs -> [rows : Documents, fd : {NoFile} \cup Inodes,
                       then : {"idle", "find_id"}]]
  /\ local = [p \in Procs |-> local[p]]
  /\ \A p \in Procs : LocalOK(p)

\* Whatever process is killed wherever it is, publishers.json holds a whole
\* document: a reader sees no half-written or empty file.  This is what
\* _write_document_unlocked has a temporary file for.
IntactFile == main # NoFile => ReadText.kind = "doc"

\* Why the file stays intact while no two read-modify-writes overlap: the only
\* process in one of them writes a temporary file that publishers.json does not
\* refer to, and moves it only when it is whole.
OneWriter ==
  \A p, q \in Procs : pc[p] \in Section /\ pc[q] \in Section => p = q

WriteSafe(p) ==
  /\ pc[p] = "write" => tmp # NoFile /\ out[p].fd = tmp /\ content[tmp] = Empty
  /\ pc[p] = "replace" => tmp # NoFile /\ content[tmp].kind = "doc"

SafeWrites ==
  /\ IntactFile
  /\ tmp # NoFile => tmp # main
  /\ OneWriter
  /\ \A p \in Procs : WriteSafe(p)

Listing == [i \in DOMAIN Rows |-> [url |-> Rows[i].url, since |-> Rows[i].since]]

\* The file implements the catalogue: a reader sees listings change only by
\* whole registrations that the catalogue allows, none lost or undone.
Cat == INSTANCE Catalogue WITH catalogue <- Listing, Stamps <- Time
ImplementsCatalogue == Cat!Spec

\* From one whole document to the next, a step of check-publishers leaves the
\* listings as they were (README "It does not update the catalogue
\* automatically").
CheckKeepsListing ==
  [][(\E c \in Checkers : pc'[c] # pc[c]) /\ IntactFile /\ IntactFile'
       => Listing' = Listing]_vars

\* The last check shown for a listing is the last one (README "The main page
\* displays the last check status and timestamp"): check-publishers never puts
\* an older result over a newer one.
CheckNeverOlder ==
  [][(\E c \in Checkers : pc'[c] # pc[c])
       => \A i \in DOMAIN Rows \cap DOMAIN Rows' :
            Rows[i].checked <= Rows'[i].checked]_vars

\* URL drift is reported "when a live harvest URL differs from the stored value"
\* (README), and so no longer once the listing has moved to that URL.
DriftReportedTruly ==
  \A i \in DOMAIN Rows :
    Rows[i].detail \in Urls => Norm[Rows[i].detail] # Norm[Rows[i].url]
=============================================================================
