------------------------ MODULE PublisherFileProofs ------------------------
(***************************************************************************)
(* What the file protocol of PublisherFile guarantees for any number of    *)
(* check-publishers runs, any identifiers and endpoints and any number of  *)
(* crashes, provided two read-modify-writes never overlap.                 *)
(***************************************************************************)
EXTENDS PublisherFile, TLAPS

----------------------------------------------------------------------------
(* Documents and the operators that make them. *)

LEMMA NoRowsIsDocument == NoRows \in Documents
<1>1. NoRows \in [{} -> Row]
  BY DEF NoRows
<1>2. QED
  BY <1>1 DEF Documents

\* A document is a table of rows and nothing else is one.
LEMMA DocumentTable ==
  ASSUME NEW d
  PROVE  d \in Documents <=> DOMAIN d \subseteq Ids /\ d \in [DOMAIN d -> Row]
BY DEF Documents

\* What a process reads is a document, whatever state the file is in.
LEMMA RowsIsDocument == TypeOK => Rows \in Documents
BY NoRowsIsDocument DEF TypeOK, Rows, ReadText, Empty

LEMMA UpsertedIsDocument ==
  ASSUME NEW rows \in Documents, NEW o \in Ids, NEW row \in Row
  PROVE  Upserted(rows, o, row) \in Documents
<1> DEFINE kept == IF o \in DOMAIN rows /\ row.detail = NoDetail
                   THEN [row EXCEPT !.detail = rows[o].detail]
                   ELSE row
<1>1. DOMAIN rows \subseteq Ids /\ rows \in [DOMAIN rows -> Row]
  BY DocumentTable
<1>2. kept \in Row
  BY <1>1 DEF Row
<1>3. Upserted(rows, o, row)
        = [i \in DOMAIN rows \cup {o} |-> IF i = o THEN kept ELSE rows[i]]
  BY DEF Upserted
<1> HIDE DEF kept
<1>4. QED
  BY <1>1, <1>2, <1>3, DocumentTable

LEMMA AnnotatedIsDocument ==
  ASSUME NEW rows \in Documents, NEW detail, NEW now \in Time,
         \A i \in DOMAIN detail : detail[i] \in Detail
  PROVE  Annotated(rows, detail, now) \in Documents
<1>1. DOMAIN rows \subseteq Ids /\ rows \in [DOMAIN rows -> Row]
  BY DocumentTable
<1>2. \A i \in DOMAIN rows : i \in DOMAIN detail =>
        [rows[i] EXCEPT !.checked = now, !.detail = detail[i]] \in Row
  BY <1>1 DEF Row
<1>3. QED
  BY <1>1, <1>2, DocumentTable DEF Annotated

----------------------------------------------------------------------------
(* Type correctness.  Each action is a lemma's case; what it does to the   *)
(* process that takes it is the only thing to look at, since the other     *)
(* processes keep their label, their locals and their pending write.       *)

\* The part of TypeOK about the files, and the part about one process.
FilesOK ==
  /\ main \in {NoFile} \cup Inodes
  /\ tmp \in {NoFile} \cup Inodes
  /\ content \in [Inodes -> [kind : {"empty", "garbled", "doc"}, rows : Documents]]
  /\ clock \in Time

Write == [rows : Documents, fd : {NoFile} \cup Inodes, then : {"idle", "find_id"}]

LEMMA TypeParts ==
  TypeOK <=> /\ FilesOK
             /\ pc \in [Procs -> Labels] /\ out \in [Procs -> Write]
             /\ local = [p \in Procs |-> local[p]]
             /\ \A p \in Procs : LocalOK(p)
BY DEF TypeOK, FilesOK, Write

\* A step that sets label, locals and pending write of one process to values
\* that fit together keeps every process well typed.
LEMMA OneProcessMoves ==
  ASSUME TypeOK, FilesOK', NEW p \in Procs,
         NEW l \in Labels, NEW r, NEW w \in Write,
         pc' = [pc EXCEPT ![p] = l],
         local' = [local EXCEPT ![p] = r],
         out' = [out EXCEPT ![p] = w],
         /\ l \in {"seed", "find_id"} => r \in Request
         /\ w.then = "find_id" => l \in Section /\ r \in Request
         /\ l = "find_endpoint" => r \in Lookup
         /\ l = "upsert" => r \in Upsertion
         /\ l = "probe" => r \in Loaded
  PROVE  TypeOK'
<1>1. pc' \in [Procs -> Labels] /\ out' \in [Procs -> Write] /\ local' = [q \in Procs |-> local'[q]]
  BY DEF TypeOK, Write
<1>2. ASSUME NEW q \in Procs PROVE LocalOK(q)'
  <2>1. CASE q = p
    BY <2>1 DEF TypeOK, LocalOK
  <2>2. CASE q # p
    BY <2>2 DEF TypeOK, LocalOK
  <2>3. QED
    BY <2>1, <2>2
<1>3. QED
  BY <1>1, <1>2 DEF TypeOK, FilesOK, Write

LEMMA NoWriteType == NoWrite \in Write
BY NoRowsIsDocument DEF NoWrite, Write

LEMMA FinishType ==
  ASSUME TypeOK, FilesOK', NEW p \in Procs, Finish(p)
  PROVE  TypeOK'
BY OneProcessMoves, NoWriteType
   DEF Finish, Goto, Remember, Labels, Section, NoWrite

LEMMA FilesKept ==
  ASSUME TypeOK, UNCHANGED <<main, tmp, content, clock>>
  PROVE  FilesOK'
BY DEF TypeOK, FilesOK

\* The registration requests of the service.
LEMMA RegisterType ==
  ASSUME TypeOK, Register
  PROVE  TypeOK'
<1> USE DEF Labels, Section, Goto, Remember
<1>0. Web \in Procs
  BY DEF Procs
<1>1. ASSUME NEW o \in Ids, NEW u \in Urls, NEW live \in Ids \cup {NoId},
             BeginRegister(o, u, live)
      PROVE  TypeOK'
  <2>1. [id |-> o, url |-> u, live |-> live] \in Request
    BY DEF Request
  <2> DEFINE r == [id |-> o, url |-> u, live |-> live]
  <2>2. out' = [out EXCEPT ![Web] = out[Web]] /\ out[Web] \in Write
    BY <1>0, <1>1, TypeParts DEF BeginRegister
  <2>3. out[Web].then # "find_id"
    BY <1>0, <1>1 DEF BeginRegister, TypeOK, LocalOK
  <2>4. pc' = [pc EXCEPT ![Web] = "seed"] /\ local' = [local EXCEPT ![Web] = r]
    BY <1>1 DEF BeginRegister
  <2>5. FilesOK'
    BY <1>1, FilesKept DEF BeginRegister
  <2> HIDE DEF r
  <2>6. QED
    BY <1>0, <2>1, <2>2, <2>3, <2>4, <2>5, OneProcessMoves DEF r
<1>2. CASE EnsureSeed
  <2>1. /\ local' = [local EXCEPT ![Web] = local[Web]] /\ local[Web] \in Request
        /\ out[Web].then # "find_id"
    BY <1>0, <1>2 DEF EnsureSeed, TypeOK, LocalOK
  <2>2. CASE main = NoFile
    <3> DEFINE w == [out[Web] EXCEPT !.rows = NoRows, !.then = "find_id"]
    <3>1. pc' = [pc EXCEPT ![Web] = "open"] /\ out' = [out EXCEPT ![Web] = w]
      BY <1>2, <2>2 DEF EnsureSeed, WriteBack
    <3>2. w \in Write /\ w.then = "find_id"
      BY <1>0, TypeParts, NoRowsIsDocument DEF Write
    <3>3. FilesOK'
      BY <1>2, FilesKept DEF EnsureSeed
    <3> HIDE DEF w
    <3>4. QED
      BY <1>0, <2>1, <3>1, <3>2, <3>3, OneProcessMoves
  <2>3. CASE main # NoFile
    <3>1. out' = [out EXCEPT ![Web] = out[Web]] /\ out[Web] \in Write
      BY <1>0, <1>2, <2>3, TypeParts DEF EnsureSeed
    <3>2. pc' = [pc EXCEPT ![Web] = "find_id"] /\ FilesOK'
      BY <1>2, <2>3, FilesKept DEF EnsureSeed
    <3>3. QED
      BY <1>0, <2>1, <3>1, <3>2, OneProcessMoves
  <2>4. QED
    BY <2>2, <2>3
<1>3. CASE FindIdentifier
  <2>1. CASE ~Readable
    BY <1>0, <1>3, <2>1, FilesKept, FinishType DEF FindIdentifier
  <2>2. CASE Readable
    <3> DEFINE r == local[Web]
               found == [id |-> r.id, url |-> r.url, live |-> r.live,
                         since |-> IF r.id \in DOMAIN Rows THEN Rows[r.id].since
                                                           ELSE Unlisted]
    <3>1. r \in Request /\ out[Web].then # "find_id"
      BY <1>0, <1>3 DEF FindIdentifier, TypeOK, LocalOK
    <3>2. \A i \in DOMAIN Rows : Rows[i].since \in Time
      BY RowsIsDocument, DocumentTable DEF Row
    <3>3. found \in Lookup
      BY <3>1, <3>2 DEF Request, Lookup
    <3>4. out' = [out EXCEPT ![Web] = out[Web]] /\ out[Web] \in Write
      BY <1>0, <1>3, <2>2, TypeParts DEF FindIdentifier
    <3>5. /\ pc' = [pc EXCEPT ![Web] = "find_endpoint"]
          /\ local' = [local EXCEPT ![Web] = found]
      BY <1>3, <2>2 DEF FindIdentifier
    <3> HIDE DEF found
    <3>6. QED
      BY <1>0, <1>3, <3>1, <3>3, <3>4, <3>5, FilesKept, OneProcessMoves
         DEF FindIdentifier
  <2>3. QED
    BY <2>1, <2>2
<1>4. CASE FindEndpoint
  <2> DEFINE r == local[Web]
             stops == ~Readable \/ Conflict(r) \/ IdentityRefused(r)
             row == [url |-> Stored[r.url],
                     since |-> IF r.since # Unlisted THEN r.since ELSE clock,
                     checked |-> clock, detail |-> LiveDetail(r)]
             w == [id |-> r.id, row |-> row]
  <2>1. CASE stops
    BY <1>0, <1>4, <2>1, FilesKept, FinishType DEF FindEndpoint
  <2>2. CASE ~stops
    <3>1. r \in Lookup /\ out[Web].then # "find_id"
      BY <1>0, <1>4 DEF FindEndpoint, TypeOK, LocalOK
    <3>2. row \in Row
      BY <3>1, StoredAssumption DEF Lookup, Row, LiveDetail, Detail, TypeOK
    <3>3. w \in Upsertion
      BY <3>1, <3>2 DEF Lookup, Upsertion
    <3>4. out' = [out EXCEPT ![Web] = out[Web]] /\ out[Web] \in Write
      BY <1>0, <1>4, <2>2, TypeParts DEF FindEndpoint
    <3>5. /\ pc' = [pc EXCEPT ![Web] = "upsert"]
          /\ local' = [local EXCEPT ![Web] = w]
      BY <1>4, <2>2 DEF FindEndpoint
    <3> HIDE DEF w
    <3>6. QED
      BY <1>0, <1>4, <3>1, <3>3, <3>4, <3>5, FilesKept, OneProcessMoves
         DEF FindEndpoint
  <2>3. QED
    BY <2>1, <2>2
<1>5. CASE Upsert
  <2> DEFINE r == local[Web]
             rows == Upserted(Rows, r.id, r.row)
             w == [out[Web] EXCEPT !.rows = rows, !.then = "idle"]
  <2>1. CASE ~Readable
    BY <1>0, <1>5, <2>1, FilesKept, FinishType DEF Upsert
  <2>2. CASE Readable
    <3>1. r \in Upsertion
      BY <1>0, <1>5 DEF Upsert, TypeOK, LocalOK
    <3>2. rows \in Documents
      BY <3>1, RowsIsDocument, UpsertedIsDocument DEF Upsertion
    <3>3. /\ pc' = [pc EXCEPT ![Web] = "open"]
          /\ local' = [local EXCEPT ![Web] = Nothing]
          /\ out' = [out EXCEPT ![Web] = w]
      BY <1>5, <2>2 DEF Upsert, WriteBack
    <3> HIDE DEF rows
    <3>4. w \in Write /\ w.then = "idle"
      BY <1>0, <3>2, TypeParts DEF Write
    <3> HIDE DEF w
    <3>5. QED
      BY <1>0, <1>5, <3>3, <3>4, FilesKept, OneProcessMoves DEF Upsert
  <2>3. QED
    BY <2>1, <2>2
<1>6. QED
  BY <1>1, <1>2, <1>3, <1>4, <1>5 DEF Register

\* A run of check-publishers.
LEMMA CheckType ==
  ASSUME TypeOK, NEW c \in Checkers, Check(c)
  PROVE  TypeOK'
<1> USE DEF Labels, Section, Goto, Remember
<1>0. c \in Procs
  BY DEF Procs
<1>1. CASE LoadListings(c)
  <2> DEFINE r == [url |-> [i \in DOMAIN Rows |-> Rows[i].url], checked |-> clock]
  <2>1. r \in Loaded
    <3>1. DOMAIN Rows \subseteq Ids /\ \A i \in DOMAIN Rows : Rows[i].url \in Urls
      BY RowsIsDocument, DocumentTable DEF Row
    <3>2. QED
      BY <3>1 DEF Loaded, TypeOK
  <2>2. out' = [out EXCEPT ![c] = out[c]] /\ out[c] \in Write
    BY <1>0, <1>1, TypeParts DEF LoadListings
  <2>3. out[c].then # "find_id"
    BY <1>0, <1>1 DEF LoadListings, TypeOK, LocalOK
  <2>4. pc' = [pc EXCEPT ![c] = "probe"] /\ local' = [local EXCEPT ![c] = r]
    BY <1>1 DEF LoadListings
  <2>5. FilesOK'
    BY <1>1, FilesKept DEF LoadListings
  <2> HIDE DEF r
  <2>6. QED
    BY <1>0, <2>1, <2>2, <2>3, <2>4, <2>5, OneProcessMoves
<1>2. CASE CheckEnds(c)
  BY <1>0, <1>2, FilesKept, FinishType DEF CheckEnds
<1>3. CASE AnnotateChecks(c)
  <2> DEFINE r == local[c]
  <2>1. CASE ~Readable
    BY <1>0, <1>3, <2>1, FilesKept, FinishType DEF AnnotateChecks
  <2>2. CASE Readable
    <3>1. r \in Loaded
      BY <1>0, <1>3 DEF AnnotateChecks, TypeOK, LocalOK
    <3>2. PICK d \in [DOMAIN r.url -> Detail] :
            WriteBack(c, Annotated(Rows, d, r.checked), "idle")
      BY <1>3, <2>2 DEF AnnotateChecks
    <3> DEFINE rows == Annotated(Rows, d, r.checked)
               w == [out[c] EXCEPT !.rows = rows, !.then = "idle"]
    <3>3. rows \in Documents
      BY <3>1, RowsIsDocument, AnnotatedIsDocument DEF Loaded
    <3>4. /\ pc' = [pc EXCEPT ![c] = "open"]
          /\ local' = [local EXCEPT ![c] = Nothing]
          /\ out' = [out EXCEPT ![c] = w]
      BY <1>3, <2>2, <3>2 DEF AnnotateChecks, WriteBack
    <3> HIDE DEF rows
    <3>5. w \in Write /\ w.then = "idle"
      BY <1>0, <3>3, TypeParts DEF Write
    <3> HIDE DEF w
    <3>6. QED
      BY <1>0, <1>3, <3>4, <3>5, FilesKept, OneProcessMoves DEF AnnotateChecks
  <2>3. QED
    BY <2>1, <2>2
<1>4. QED
  BY <1>1, <1>2, <1>3 DEF Check

\* The writing of the file, and a process killed anywhere.
LEMMA FileStepType ==
  ASSUME TypeOK, NEW p \in Procs, WriteFile(p) \/ Crash(p)
  PROVE  TypeOK'
<1> USE DEF Labels, Section, Goto, Remember
<1>0. out[p] \in Write /\ Empty \in [kind : {"empty"}, rows : Documents]
      /\ Garbled \in [kind : {"garbled"}, rows : Documents]
  BY TypeParts, NoRowsIsDocument DEF Empty, Garbled
<1>1. CASE OpenTemporary(p)
  <2>1. PICK n \in {tmp, main} \cup Inodes :
          /\ n \in Inodes
          /\ tmp' = n
          /\ content' = [content EXCEPT ![n] = Empty]
          /\ out' = [out EXCEPT ![p] = [out[p] EXCEPT !.fd = n]]
    BY <1>1 DEF OpenTemporary, TypeOK
  <2>2. FilesOK'
    BY <1>0, <1>1, <2>1 DEF OpenTemporary, FilesOK, TypeOK
  <2> DEFINE w == [out[p] EXCEPT !.fd = n]
  <2>3. w \in Write /\ w.then = out[p].then
    BY <1>0, <2>1 DEF Write
  <2>4. /\ pc' = [pc EXCEPT ![p] = "write"]
        /\ local' = [local EXCEPT ![p] = local[p]]
        /\ out[p].then = "find_id" => local[p] \in Request
    BY <1>1 DEF OpenTemporary, TypeOK, LocalOK
  <2>5. out' = [out EXCEPT ![p] = w]
    BY <2>1
  <2> HIDE DEF w
  <2>6. QED
    BY <2>2, <2>3, <2>4, <2>5, OneProcessMoves
<1>2. CASE WriteTemporary(p)
  <2> DEFINE w == [out[p] EXCEPT !.fd = NoFile]
  <2>1. Text(out[p].rows) \in [kind : {"doc"}, rows : Documents]
    BY <1>0 DEF Write, Text
  <2>2. FilesOK'
    <3>1. PICK text \in {Text(out[p].rows), Garbled} :
            content' = [content EXCEPT ![out[p].fd] =
                          IF out[p].fd \in Named THEN text ELSE Empty]
      BY <1>2 DEF WriteTemporary
    <3>2. QED
      BY <1>0, <1>2, <2>1, <3>1 DEF WriteTemporary, FilesOK, TypeOK
  <2>3. w \in Write /\ w.then = out[p].then
    BY <1>0 DEF Write
  <2>4. /\ pc' = [pc EXCEPT ![p] = "replace"]
        /\ local' = [local EXCEPT ![p] = local[p]]
        /\ out[p].then = "find_id" => local[p] \in Request
        /\ out' = [out EXCEPT ![p] = w]
    BY <1>2 DEF WriteTemporary, TypeOK, LocalOK
  <2> HIDE DEF w
  <2>5. QED
    BY <2>2, <2>3, <2>4, OneProcessMoves
<1>3. CASE ReplaceMain(p)
  <2>1. CASE tmp = NoFile
    BY <1>3, <2>1, FilesKept, FinishType DEF ReplaceMain
  <2>2. CASE tmp # NoFile
    <3>1. FilesOK'
      BY <1>0, <1>3, <2>2 DEF ReplaceMain, FilesOK, TypeOK
    <3>2. /\ pc' = [pc EXCEPT ![p] = out[p].then]
          /\ local' = [local EXCEPT ![p] = local[p]]
          /\ out' = [out EXCEPT ![p] = NoWrite]
      BY <1>3, <2>2 DEF ReplaceMain, TypeOK
    <3>3. out[p].then \in {"idle", "find_id"} /\ NoWrite.then = "idle"
      BY <1>0 DEF Write, NoWrite
    <3>4. out[p].then = "find_id" => local[p] \in Request
      BY DEF TypeOK, LocalOK
    <3>5. QED
      BY <3>1, <3>2, <3>3, <3>4, NoWriteType, OneProcessMoves
  <2>3. QED
    BY <2>1, <2>2
<1>4. CASE Crash(p)
  <2>1. FilesOK'
    BY <1>0, <1>4 DEF Crash, FilesOK, TypeOK
  <2>2. QED
    BY <1>4, <2>1, FinishType DEF Crash
<1>5. QED
  BY <1>1, <1>2, <1>3, <1>4 DEF WriteFile

LEMMA TypeStep == TypeOK /\ [Next]_vars => TypeOK'
<1> SUFFICES ASSUME TypeOK, [Next]_vars PROVE TypeOK'
  OBVIOUS
<1>1. CASE Register
  BY <1>1, RegisterType
<1>2. ASSUME NEW c \in Checkers, Check(c) PROVE TypeOK'
  BY <1>2, CheckType
<1>3. ASSUME NEW p \in Procs, WriteFile(p) \/ Crash(p) PROVE TypeOK'
  BY <1>3, FileStepType
<1>4. CASE Tick
  BY <1>4, FileAssumption DEF Tick, TypeOK, LocalOK, Time
<1>5. CASE UNCHANGED vars
  BY <1>5 DEF vars, TypeOK, LocalOK
<1>6. QED
  BY <1>1, <1>2, <1>3, <1>4, <1>5 DEF Next

LEMMA TypeInit == Init => TypeOK
<1> SUFFICES ASSUME Init PROVE TypeOK
  OBVIOUS
<1>1. main \in {NoFile} \cup Inodes /\ tmp = NoFile /\ clock \in Time
  BY FileAssumption DEF Init, Time
<1>2. content \in [Inodes -> [kind : {"empty", "garbled", "doc"}, rows : Documents]]
  <2>1. \A S \in SUBSET Ids : [S -> FirstRow] \subseteq Documents
    <3>1. FirstRow \subseteq Row
      BY FileAssumption, StoredAssumption DEF FirstRow, Row, Time, Detail
    <3>2. QED
      BY <3>1, DocumentTable
  <2>2. QED
    BY <2>1, NoRowsIsDocument DEF Init, Empty, Text
<1>3. /\ pc \in [Procs -> Labels] /\ out \in [Procs -> Write] /\ local = [p \in Procs |-> local[p]]
      /\ \A p \in Procs : pc[p] = "idle" /\ out[p].then = "idle"
  BY NoWriteType DEF Init, Labels, NoWrite
<1>4. QED
  BY <1>1, <1>2, <1>3 DEF TypeOK, LocalOK, Write

\* Names, files, labels and locals are always of their kinds.
THEOREM PublisherFileTyped == Spec => []TypeOK
BY TypeInit, TypeStep, PTL DEF Spec

----------------------------------------------------------------------------
(* The file is never seen half-written, unless read-modify-writes of two   *)
(* processes overlap.  The invariant is SafeWrites: what makes it inductive *)
(* is that at most one process is in its section.                          *)

\* A move of one process keeps the others out of its section if it enters a
\* section only when no other process is in one.
LEMMA MoveKeepsOneWriter ==
  ASSUME TypeOK, OneWriter, NEW p \in Procs, NEW l, pc' = [pc EXCEPT ![p] = l],
         l \in Section => \/ pc[p] \in Section
                          \/ \A q \in Procs : pc[q] \notin Section
  PROVE  OneWriter'
<1>1. \A q \in Procs : pc'[q] = IF q = p THEN l ELSE pc[q]
  BY DEF TypeOK
<1>2. QED
  BY <1>1 DEF OneWriter

\* A step that does not touch the files, nor leaves its process writing them.
LEMMA StepOutsideFiles ==
  ASSUME TypeOK, SafeWrites, OneWriter', UNCHANGED <<main, tmp, content>>,
         NEW p \in Procs, NEW l, l \notin {"write", "replace"},
         pc' = [pc EXCEPT ![p] = l],
         \A q \in Procs \ {p} : out'[q] = out[q]
  PROVE  SafeWrites'
<1>1. ASSUME NEW q \in Procs PROVE WriteSafe(q)'
  BY DEF SafeWrites, WriteSafe, TypeOK
<1>2. QED
  BY <1>1 DEF SafeWrites, IntactFile, ReadText

LEMMA FinishSafe ==
  ASSUME TypeOK, SafeWrites, UNCHANGED <<main, tmp, content>>, NEW p \in Procs, Finish(p)
  PROVE  SafeWrites'
<1>1. pc' = [pc EXCEPT ![p] = "idle"] /\ \A q \in Procs \ {p} : out'[q] = out[q]
  BY DEF Finish, Goto, TypeOK
<1>2. OneWriter'
  BY <1>1, MoveKeepsOneWriter DEF SafeWrites, Section
<1>3. QED
  BY <1>1, <1>2, StepOutsideFiles

\* A process enters its section.
LEMMA EnterSafe ==
  ASSUME Overlap # "any", TypeOK, SafeWrites, UNCHANGED <<main, tmp, content>>,
         NEW p \in Procs, NEW rows, NEW t, MayEnterSection,
         WriteBack(p, rows, t)
  PROVE  SafeWrites'
<1>1. pc' = [pc EXCEPT ![p] = "open"] /\ \A q \in Procs \ {p} : out'[q] = out[q]
  BY DEF WriteBack, Goto, TypeOK
<1>2. OneWriter'
  BY <1>1, MoveKeepsOneWriter, ProcessAssumption DEF SafeWrites, MayEnterSection
<1>3. QED
  BY <1>1, <1>2, StepOutsideFiles

\* A process goes on from one of its labels to another, outside any section.
LEMMA GoOnSafe ==
  ASSUME TypeOK, SafeWrites, UNCHANGED <<main, tmp, content, out>>,
         NEW p \in Procs, NEW l, l \notin Section, Goto(p, l)
  PROVE  SafeWrites'
<1>1. OneWriter'
  BY MoveKeepsOneWriter DEF SafeWrites, Goto
<1>2. QED
  BY <1>1, StepOutsideFiles DEF Section, Goto

LEMMA RegisterSafe ==
  ASSUME Overlap # "any", TypeOK, SafeWrites, Register
  PROVE  SafeWrites'
<1>0. Web \in Procs
  BY DEF Procs
<1>1. ASSUME NEW o \in Ids, NEW u \in Urls, NEW live \in Ids \cup {NoId},
             BeginRegister(o, u, live)
      PROVE  SafeWrites'
  BY <1>0, <1>1, GoOnSafe DEF BeginRegister, Section
<1>2. CASE EnsureSeed
  <2>1. CASE main = NoFile
    BY <1>0, <1>2, <2>1, EnterSafe DEF EnsureSeed
  <2>2. CASE main # NoFile
    BY <1>0, <1>2, <2>2, GoOnSafe DEF EnsureSeed, Section
  <2>3. QED
    BY <2>1, <2>2
<1>3. CASE FindIdentifier
  <2>1. CASE Readable
    BY <1>0, <1>3, <2>1, GoOnSafe DEF FindIdentifier, Section
  <2>2. CASE ~Readable
    BY <1>0, <1>3, <2>2, FinishSafe DEF FindIdentifier
  <2>3. QED
    BY <2>1, <2>2
<1>4. CASE FindEndpoint
  <2> DEFINE stops == ~Readable \/ Conflict(local[Web]) \/ IdentityRefused(local[Web])
  <2>1. CASE ~stops
    BY <1>0, <1>4, <2>1, GoOnSafe DEF FindEndpoint, Section
  <2>2. CASE stops
    BY <1>0, <1>4, <2>2, FinishSafe DEF FindEndpoint
  <2>3. QED
    BY <2>1, <2>2
<1>5. CASE Upsert
  <2>1. CASE Readable
    BY <1>0, <1>5, <2>1, EnterSafe DEF Upsert
  <2>2. CASE ~Readable
    BY <1>0, <1>5, <2>2, FinishSafe DEF Upsert
  <2>3. QED
    BY <2>1, <2>2
<1>6. QED
  BY <1>1, <1>2, <1>3, <1>4, <1>5 DEF Register

LEMMA CheckSafe ==
  ASSUME Overlap # "any", TypeOK, SafeWrites, NEW c \in Checkers, Check(c)
  PROVE  SafeWrites'
<1>0. c \in Procs
  BY DEF Procs
<1>1. CASE LoadListings(c)
  BY <1>0, <1>1, GoOnSafe DEF LoadListings, Section
<1>2. CASE CheckEnds(c)
  BY <1>0, <1>2, FinishSafe DEF CheckEnds
<1>3. CASE AnnotateChecks(c)
  <2>1. CASE Readable
    BY <1>0, <1>3, <2>1, EnterSafe DEF AnnotateChecks
  <2>2. CASE ~Readable
    BY <1>0, <1>3, <2>2, FinishSafe DEF AnnotateChecks
  <2>3. QED
    BY <2>1, <2>2
<1>4. QED
  BY <1>1, <1>2, <1>3 DEF Check

\* The section itself: the process in it is alone, so the temporary file is its.
LEMMA FileStepSafe ==
  ASSUME TypeOK, SafeWrites, NEW p \in Procs, WriteFile(p) \/ Crash(p)
  PROVE  SafeWrites'
<1>0. \A q \in Procs : pc[p] \in Section /\ pc[q] \in Section => q = p
  BY DEF SafeWrites, OneWriter
<1>1. CASE OpenTemporary(p)
  <2>1. PICK n \in Inodes :
          n # main /\ tmp' = n /\ content' = [content EXCEPT ![n] = Empty]
            /\ out' = [out EXCEPT ![p].fd = n]
    BY <1>1 DEF OpenTemporary, SafeWrites, TypeOK
  <2>2. main' = main /\ pc[p] = "open" /\ pc' = [pc EXCEPT ![p] = "write"]
    BY <1>1 DEF OpenTemporary, Goto
  <2>3. OneWriter'
    BY <2>2, MoveKeepsOneWriter DEF SafeWrites, Section
  <2>4. IntactFile'
    BY <2>1, <2>2 DEF SafeWrites, IntactFile, ReadText, TypeOK
  <2>5. tmp' # NoFile /\ out'[p].fd = tmp' /\ content'[tmp'] = Empty
    BY <2>1, FileAssumption DEF TypeOK
  <2>6. \A q \in Procs \ {p} : pc'[q] \notin {"write", "replace"}
    BY <1>0, <2>2 DEF TypeOK, Section
  <2>7. \A q \in Procs : WriteSafe(q)'
    BY <2>2, <2>5, <2>6 DEF WriteSafe, TypeOK
  <2>8. QED
    BY <2>1, <2>2, <2>3, <2>4, <2>7 DEF SafeWrites
<1>2. CASE WriteTemporary(p)
  <2>1. /\ pc[p] = "write" /\ pc' = [pc EXCEPT ![p] = "replace"]
        /\ main' = main /\ tmp' = tmp
    BY <1>2 DEF WriteTemporary, Goto
  <2>2. tmp # NoFile /\ out[p].fd = tmp /\ content[tmp] = Empty /\ tmp # main
    BY <2>1 DEF SafeWrites, WriteSafe
  <2>3. content' = [content EXCEPT ![tmp] = Text(out[p].rows)]
    BY <1>2, <2>2 DEF WriteTemporary, Named
  <2>4. OneWriter'
    BY <2>1, MoveKeepsOneWriter DEF SafeWrites, Section
  <2>5. IntactFile'
    BY <2>1, <2>2, <2>3 DEF SafeWrites, IntactFile, ReadText, TypeOK
  <2>6. content'[tmp'].kind = "doc"
    BY <2>1, <2>2, <2>3 DEF TypeOK, Text
  <2>7. \A q \in Procs \ {p} : pc'[q] \notin {"write", "replace"}
    BY <1>0, <2>1 DEF TypeOK, Section
  <2>8. \A q \in Procs : WriteSafe(q)'
    BY <2>1, <2>2, <2>6, <2>7 DEF WriteSafe, TypeOK
  <2>9. QED
    BY <2>1, <2>2, <2>4, <2>5, <2>8 DEF SafeWrites
<1>3. CASE ReplaceMain(p)
  <2>1. pc[p] = "replace" /\ tmp # NoFile /\ content[tmp].kind = "doc" /\ tmp # main
    BY <1>3 DEF ReplaceMain, SafeWrites, WriteSafe
  <2>2. /\ main' = tmp /\ tmp' = NoFile /\ content'[tmp] = content[tmp]
        /\ pc' = [pc EXCEPT ![p] = out[p].then]
    BY <1>3, <2>1 DEF ReplaceMain, Goto, TypeOK
  <2>3. OneWriter'
    BY <2>1, <2>2, MoveKeepsOneWriter DEF SafeWrites, Section
  <2>4. IntactFile'
    BY <2>1, <2>2 DEF IntactFile, ReadText
  <2>5. \A q \in Procs : pc'[q] \notin {"write", "replace"}
    BY <1>0, <2>1, <2>2 DEF TypeOK, Section
  <2>6. QED
    BY <2>2, <2>3, <2>4, <2>5 DEF SafeWrites, WriteSafe
<1>4. CASE Crash(p)
  <2>1. CASE UNCHANGED content
    BY <1>4, <2>1, FinishSafe DEF Crash
  <2>2. CASE content' # content
    <3>1. /\ pc[p] = "write" /\ content' = [content EXCEPT ![tmp] = Garbled]
          /\ tmp # NoFile /\ tmp # main
      BY <1>4, <2>2 DEF Crash, SafeWrites, WriteSafe
    <3>2. main' = main /\ tmp' = tmp /\ pc' = [pc EXCEPT ![p] = "idle"]
      BY <1>4 DEF Crash, Finish, Goto
    <3>3. OneWriter'
      BY <3>2, MoveKeepsOneWriter DEF SafeWrites, Section
    <3>4. IntactFile'
      BY <3>1, <3>2 DEF SafeWrites, IntactFile, ReadText, TypeOK
    <3>5. \A q \in Procs : pc'[q] \notin {"write", "replace"}
      BY <1>0, <3>1, <3>2 DEF TypeOK, Section
    <3>6. QED
      BY <3>1, <3>2, <3>3, <3>4, <3>5 DEF SafeWrites, WriteSafe
  <2>3. QED
    BY <2>1, <2>2
<1>5. QED
  BY <1>1, <1>2, <1>3, <1>4 DEF WriteFile

LEMMA SafeStep ==
  ASSUME Overlap # "any"
  PROVE  TypeOK /\ SafeWrites /\ [Next]_vars => SafeWrites'
<1> SUFFICES ASSUME TypeOK, SafeWrites, [Next]_vars PROVE SafeWrites'
  OBVIOUS
<1>1. CASE Register
  BY <1>1, RegisterSafe
<1>2. ASSUME NEW c \in Checkers, Check(c) PROVE SafeWrites'
  BY <1>2, CheckSafe
<1>3. ASSUME NEW p \in Procs, WriteFile(p) \/ Crash(p) PROVE SafeWrites'
  BY <1>3, FileStepSafe
<1>4. CASE UNCHANGED <<main, tmp, content, pc, out>>
  BY <1>4 DEF SafeWrites, IntactFile, ReadText, OneWriter, WriteSafe
<1>5. QED
  BY <1>1, <1>2, <1>3, <1>4 DEF Next, Tick, vars

LEMMA SafeInit == Init => SafeWrites
<1> SUFFICES ASSUME Init PROVE SafeWrites
  OBVIOUS
<1>1. IntactFile
  BY FileAssumption DEF Init, IntactFile, ReadText, Text
<1>2. \A p \in Procs : pc[p] = "idle"
  BY DEF Init
<1>3. QED
  BY <1>1, <1>2 DEF Init, SafeWrites, OneWriter, WriteSafe, Section

LEMMA SafeInvariant ==
  ASSUME Overlap # "any"
  PROVE  Spec => [](TypeOK /\ SafeWrites)
<1>1. Init => TypeOK /\ SafeWrites
  BY TypeInit, SafeInit
<1>2. TypeOK /\ SafeWrites /\ [Next]_vars => (TypeOK /\ SafeWrites)'
  BY TypeStep, SafeStep
<1>3. QED
  BY <1>1, <1>2, PTL DEF Spec

\* While read-modify-writes do not overlap, the one process in its section has
\* the temporary file for itself and moves it only when it is whole.
THEOREM PublisherFileSafeWrites ==
  ASSUME Overlap # "any"
  PROVE  Spec => []SafeWrites
BY SafeInvariant, PTL

\* Unless read-modify-writes overlap, the reader of publishers.json always
\* finds a whole document, wherever processes are killed.
THEOREM PublisherFileIntact ==
  ASSUME Overlap # "any"
  PROVE  Spec => []IntactFile
<1>1. SafeWrites => IntactFile
  BY DEF SafeWrites
<1>2. QED
  BY <1>1, SafeInvariant, PTL

----------------------------------------------------------------------------
(* The file implements the catalogue.  What a process is about to write    *)
(* fits the listings as they are when it has written it, because no other  *)
(* process can change them in between: FileInv says so for a process in    *)
(* its section (PendingFits) and for a registration that has looked up     *)
(* identifier and endpoint and is not in its section yet (DecisionHolds),  *)
(* where only checks can come in between, which change no listing.         *)

ListingOf(rows) == [i \in DOMAIN rows |-> [url |-> rows[i].url, since |-> rows[i].since]]

\* A table of listings with one more, or one replaced, and when the catalogue
\* accepts that.
With(cat, o, e) == [i \in DOMAIN cat \cup {o} |-> IF i = o THEN e ELSE cat[i]]

Accepts(cat, o, e) ==
  /\ Cat!ListedAt(cat, e.url) \subseteq {o}
  /\ o \in DOMAIN cat => e.since = cat[o].since

\* rows is what a registration makes of the listings.
Registers(rows) ==
  \E o \in Ids, e \in Cat!Entry :
    Accepts(Listing, o, e) /\ ListingOf(rows) = With(Listing, o, e)

Fits(p, rows) == ListingOf(rows) = Listing \/ (p = Web /\ Registers(rows))

PendingFits ==
  \A p \in Procs :
    /\ pc[p] \in Section => Fits(p, out[p].rows)
    /\ pc[p] = "replace" => content[tmp].rows = out[p].rows

DecisionHolds ==
  LET r == local[Web] IN
  /\ pc[Web] = "find_endpoint" =>
       r.since = IF r.id \in DOMAIN Listing THEN Listing[r.id].since ELSE Unlisted
  /\ pc[Web] = "upsert" =>
       Accepts(Listing, r.id, [url |-> r.row.url, since |-> r.row.since])

FileInv == TypeOK /\ SafeWrites /\ PendingFits /\ DecisionHolds

\* What the operators that make documents do to the listings.
LEMMA AnnotatedListing ==
  ASSUME NEW rows \in Documents, NEW detail, NEW now
  PROVE  ListingOf(Annotated(rows, detail, now)) = ListingOf(rows)
<1>1. rows \in [DOMAIN rows -> Row]
  BY DocumentTable
<1>2. \A i \in DOMAIN rows :
        /\ Annotated(rows, detail, now)[i].url = rows[i].url
        /\ Annotated(rows, detail, now)[i].since = rows[i].since
  BY <1>1 DEF Annotated, Row
<1>3. DOMAIN Annotated(rows, detail, now) = DOMAIN rows
  BY DEF Annotated
<1>4. QED
  BY <1>2, <1>3 DEF ListingOf

LEMMA UpsertedListing ==
  ASSUME NEW rows \in Documents, NEW o \in Ids, NEW row \in Row
  PROVE  ListingOf(Upserted(rows, o, row))
           = With(ListingOf(rows), o, [url |-> row.url, since |-> row.since])
<1> DEFINE kept == IF o \in DOMAIN rows /\ row.detail = NoDetail
                   THEN [row EXCEPT !.detail = rows[o].detail]
                   ELSE row
           new == Upserted(rows, o, row)
<1>1. kept.url = row.url /\ kept.since = row.since
  BY DEF Row
<1>2. new = [i \in DOMAIN rows \cup {o} |-> IF i = o THEN kept ELSE rows[i]]
  BY DEF Upserted
<1> HIDE DEF kept, new
<1>3. DOMAIN new = DOMAIN rows \cup {o} /\ DOMAIN ListingOf(rows) = DOMAIN rows
  BY <1>2 DEF ListingOf
<1>4. \A i \in DOMAIN new :
        [url |-> new[i].url, since |-> new[i].since]
          = IF i = o THEN [url |-> row.url, since |-> row.since] ELSE ListingOf(rows)[i]
  BY <1>1, <1>2 DEF ListingOf
<1>5. ListingOf(new) = With(ListingOf(rows), o, [url |-> row.url, since |-> row.since])
  BY <1>3, <1>4 DEF ListingOf, With
<1>6. QED
  BY <1>5 DEF new

LEMMA ListingIsOfRows == Listing = ListingOf(Rows)
BY DEF Listing, ListingOf

\* A listing is an entry of the catalogue.
LEMMA ListingType == TypeOK => Listing \in Cat!Tables
<1> SUFFICES ASSUME TypeOK PROVE Listing \in Cat!Tables
  OBVIOUS
<1>1. DOMAIN Rows \subseteq Ids /\ \A i \in DOMAIN Rows : Rows[i] \in Row
  BY RowsIsDocument, DocumentTable
<1>2. \A i \in DOMAIN Rows : [url |-> Rows[i].url, since |-> Rows[i].since] \in Cat!Entry
  BY <1>1 DEF Row, Cat!Entry
<1>3. QED
  BY <1>1, <1>2 DEF Listing, Cat!Tables

\* Nothing but the move of a whole temporary file changes what a reader sees.
LEMMA RowsOfFiles == UNCHANGED <<main, content>> => Rows' = Rows /\ Listing' = Listing
BY DEF Rows, ReadText, Listing

LEMMA RowsKept ==
  ASSUME TypeOK, SafeWrites, NEW p \in Procs,
         OpenTemporary(p) \/ WriteTemporary(p) \/ Crash(p)
  PROVE  Rows' = Rows /\ Listing' = Listing
<1>1. CASE OpenTemporary(p)
  <2>1. PICK n \in Inodes : n # main /\ content' = [content EXCEPT ![n] = Empty]
    BY <1>1 DEF OpenTemporary, SafeWrites, TypeOK
  <2>2. main' = main
    BY <1>1 DEF OpenTemporary
  <2>3. QED
    BY <2>1, <2>2 DEF Rows, ReadText, Listing, TypeOK
<1>2. CASE WriteTemporary(p)
  <2>1. out[p].fd = tmp /\ tmp # main /\ main' = main
    BY <1>2 DEF WriteTemporary, SafeWrites, WriteSafe
  <2>2. PICK text : content' = [content EXCEPT ![tmp] = text]
    BY <1>2, <2>1 DEF WriteTemporary
  <2>3. QED
    BY <2>1, <2>2 DEF Rows, ReadText, Listing, TypeOK
<1>3. CASE Crash(p)
  <2>1. CASE UNCHANGED content
    BY <1>3, <2>1, RowsOfFiles DEF Crash
  <2>2. CASE content' # content
    <3>1. main' = main /\ tmp # main /\ content' = [content EXCEPT ![tmp] = Garbled]
      BY <1>3, <2>2 DEF Crash, SafeWrites, WriteSafe
    <3>2. QED
      BY <3>1 DEF Rows, ReadText, Listing, TypeOK
  <2>3. QED
    BY <2>1, <2>2
<1>4. QED
  BY <1>1, <1>2, <1>3

\* Opening and writing the temporary file, a process keeps what it has to write.
LEMMA WriteKept ==
  ASSUME TypeOK, NEW p \in Procs, OpenTemporary(p) \/ WriteTemporary(p)
  PROVE  out'[p].rows = out[p].rows
<1>1. out[p] \in Write /\ out \in [Procs -> Write]
  BY TypeParts
<1>2. PICK n : out' = [out EXCEPT ![p] = [out[p] EXCEPT !.fd = n]]
  BY DEF OpenTemporary, WriteTemporary
<1>3. QED
  BY <1>1, <1>2 DEF Write

LEMMA RowsReplaced ==
  ASSUME TypeOK, SafeWrites, NEW p \in Procs, ReplaceMain(p)
  PROVE  \/ tmp = NoFile /\ Finish(p) /\ UNCHANGED <<main, tmp, content>> /\ Rows' = Rows
         \/ tmp # NoFile /\ Rows' = content[tmp].rows
<1>1. CASE tmp = NoFile
  BY <1>1, RowsOfFiles DEF ReplaceMain
<1>2. CASE tmp # NoFile
  <2>1. main' = tmp /\ content'[tmp] = content[tmp]
    BY <1>2 DEF ReplaceMain, SafeWrites, TypeOK
  <2>2. QED
    BY <1>2, <2>1 DEF Rows, ReadText
<1>3. QED
  BY <1>1, <1>2

LEMMA RowsMove ==
  ASSUME TypeOK, SafeWrites, [Next]_vars
  PROVE  \/ Rows' = Rows
         \/ \E p \in Procs : ReplaceMain(p) /\ tmp # NoFile /\ Rows' = content[tmp].rows
<1>1. CASE Register
  BY <1>1, RowsOfFiles
     DEF Register, BeginRegister, EnsureSeed, FindIdentifier, FindEndpoint, Upsert
<1>2. ASSUME NEW c \in Checkers, Check(c) PROVE Rows' = Rows
  BY <1>2, RowsOfFiles
     DEF Check, LoadListings, CheckEnds, AnnotateChecks
<1>3. CASE Tick \/ UNCHANGED vars
  BY <1>3, RowsOfFiles DEF Tick, vars
<1>4. QED
  BY <1>1, <1>2, <1>3, RowsKept, RowsReplaced DEF Next, WriteFile

\* So listings change only when the service moves a file into place, and then
\* as the catalogue accepts it.
LEMMA ListingReplaced ==
  ASSUME FileInv, NEW p \in Procs, ReplaceMain(p)
  PROVE  \/ Listing' = Listing
         \/ p = Web /\ \E o \in Ids, e \in Cat!Entry :
                         Accepts(Listing, o, e) /\ Listing' = With(Listing, o, e)
<1>1. CASE Rows' = Rows
  BY <1>1 DEF Listing
<1>2. CASE tmp # NoFile /\ Rows' = content[tmp].rows
  <2>1. Fits(p, out[p].rows) /\ content[tmp].rows = out[p].rows
    BY DEF FileInv, PendingFits, ReplaceMain, Section
  <2>2. Listing' = ListingOf(out[p].rows)
    BY <1>2, <2>1 DEF Listing, ListingOf
  <2>3. QED
    BY <2>1, <2>2 DEF Fits, Registers
<1>3. QED
  BY <1>1, <1>2, RowsReplaced DEF FileInv

LEMMA ListingMoves ==
  ASSUME FileInv, [Next]_vars
  PROVE  \/ Listing' = Listing
         \/ /\ ReplaceMain(Web)
            /\ \E o \in Ids, e \in Cat!Entry :
                 Accepts(Listing, o, e) /\ Listing' = With(Listing, o, e)
<1>1. CASE Rows' = Rows
  BY <1>1 DEF Listing
<1>2. QED
  BY <1>1, RowsMove, ListingReplaced DEF FileInv

\* A step of process p that leaves the listings alone: only what p is about to
\* write is to be looked at, and that nobody else's file is touched.
LEMMA PendingStays ==
  ASSUME TypeOK, PendingFits, Listing' = Listing,
         NEW p \in Procs, NEW l,
         pc' = [pc EXCEPT ![p] = l],
         \A q \in Procs \ {p} : out'[q] = out[q],
         \A q \in Procs \ {p} : pc[q] = "replace" => content'[tmp'].rows = content[tmp].rows,
         l \in Section => Fits(p, out'[p].rows),
         l = "replace" => content'[tmp'].rows = out'[p].rows
  PROVE  PendingFits'
<1>1. ASSUME NEW q \in Procs, pc'[q] \in Section PROVE Fits(q, out[q].rows)'
  <2>1. CASE q = p
    <3>1. Fits(p, out'[p].rows)
      BY <1>1, <2>1 DEF TypeOK
    <3>2. QED
      BY <2>1, <3>1 DEF Fits, Registers
  <2>2. CASE q # p
    <3>1. Fits(q, out[q].rows) /\ out'[q] = out[q]
      BY <1>1, <2>2 DEF TypeOK, PendingFits
    <3>2. QED
      BY <3>1 DEF Fits, Registers
  <2>3. QED
    BY <2>1, <2>2
<1>2. ASSUME NEW q \in Procs, pc'[q] = "replace" PROVE content'[tmp'].rows = out'[q].rows
  BY <1>2 DEF TypeOK, PendingFits
<1>3. QED
  BY <1>1, <1>2 DEF PendingFits

\* What the service has looked up stays true while it does something else, or
\* others do.
LEMMA DecisionStays ==
  ASSUME DecisionHolds, Listing' = Listing,
         \/ pc'[Web] \notin {"find_endpoint", "upsert"}
         \/ pc'[Web] = pc[Web] /\ local'[Web] = local[Web]
  PROVE  DecisionHolds'
BY DEF DecisionHolds, Accepts

\* A step outside the files.
LEMMA PendingOutside ==
  ASSUME FileInv, UNCHANGED <<main, tmp, content>>,
         NEW p \in Procs, NEW l, l # "replace",
         pc' = [pc EXCEPT ![p] = l],
         \A q \in Procs \ {p} : out'[q] = out[q],
         l \in Section => Fits(p, out'[p].rows)
  PROVE  PendingFits'
BY RowsOfFiles, PendingStays DEF FileInv

LEMMA FinishFits ==
  ASSUME FileInv, UNCHANGED <<main, tmp, content>>, NEW p \in Procs, Finish(p)
  PROVE  PendingFits' /\ DecisionHolds'
<1>1. /\ pc' = [pc EXCEPT ![p] = "idle"] /\ local' = [local EXCEPT ![p] = Nothing]
      /\ \A q \in Procs \ {p} : out'[q] = out[q]
  BY DEF Finish, Goto, Remember, FileInv, TypeOK
<1>2. PendingFits'
  BY <1>1, PendingOutside DEF Section
<1>3. DecisionHolds'
  <2>1. \/ pc'[Web] \notin {"find_endpoint", "upsert"}
        \/ pc'[Web] = pc[Web] /\ local'[Web] = local[Web]
    BY <1>1 DEF FileInv, TypeOK, Procs
  <2>2. QED
    BY <2>1, RowsOfFiles, DecisionStays DEF FileInv
<1>4. QED
  BY <1>2, <1>3

\* A process enters its section with a document that fits.
LEMMA EnterFits ==
  ASSUME FileInv, UNCHANGED <<main, tmp, content>>,
         NEW p \in Procs, NEW rows, NEW l, WriteBack(p, rows, l), Fits(p, rows),
         local'[Web] = local[Web] \/ p = Web
  PROVE  PendingFits' /\ DecisionHolds'
<1>1. /\ pc' = [pc EXCEPT ![p] = "open"] /\ out'[p].rows = rows
      /\ \A q \in Procs \ {p} : out'[q] = out[q]
  BY TypeParts DEF WriteBack, Goto, FileInv, Write
<1>2. PendingFits'
  BY <1>1, PendingOutside
<1>3. DecisionHolds'
  <2>1. \/ pc'[Web] \notin {"find_endpoint", "upsert"}
        \/ pc'[Web] = pc[Web] /\ local'[Web] = local[Web]
    BY <1>1 DEF FileInv, TypeOK, Procs
  <2>2. QED
    BY <2>1, RowsOfFiles, DecisionStays DEF FileInv
<1>4. QED
  BY <1>2, <1>3

\* A process goes on outside its section; if it is the service, what it has
\* looked up has to hold.
LEMMA GoOnFits ==
  ASSUME FileInv, UNCHANGED <<main, tmp, content, out>>,
         NEW p \in Procs, NEW l, l \notin Section, Goto(p, l),
         \/ p = Web /\ DecisionHolds'
         \/ p = Web /\ l \notin {"find_endpoint", "upsert"}
         \/ p # Web /\ local'[Web] = local[Web]
  PROVE  PendingFits' /\ DecisionHolds'
<1>1. PendingFits'
  BY PendingOutside DEF Goto, Section
<1>2. \/ DecisionHolds'
      \/ pc'[Web] \notin {"find_endpoint", "upsert"}
      \/ pc'[Web] = pc[Web] /\ local'[Web] = local[Web]
  BY DEF FileInv, TypeOK, Procs, Goto
<1>3. QED
  BY <1>1, <1>2, RowsOfFiles, DecisionStays DEF FileInv

\* The decision of register_publisher: what is found of the identifier, and that
\* no other identifier has the endpoint.
LEMMA IdentifierFound ==
  ASSUME FileInv, FindIdentifier, Readable
  PROVE  DecisionHolds'
<1> DEFINE r == local[Web]
           found == [id |-> r.id, url |-> r.url, live |-> r.live,
                     since |-> IF r.id \in DOMAIN Rows THEN Rows[r.id].since
                                                       ELSE Unlisted]
<1>1. pc'[Web] = "find_endpoint" /\ local'[Web] = found
  BY DEF FindIdentifier, Goto, Remember, FileInv, TypeOK, Procs
<1>2. Listing' = Listing
  BY RowsOfFiles DEF FindIdentifier
<1>3. DOMAIN Listing = DOMAIN Rows /\ \A i \in DOMAIN Rows : Listing[i].since = Rows[i].since
  BY DEF Listing
<1>4. found.id = r.id
      /\ found.since = IF r.id \in DOMAIN Listing THEN Listing[r.id].since ELSE Unlisted
  BY <1>3
<1> HIDE DEF found
<1>5. QED
  BY <1>1, <1>2, <1>4 DEF DecisionHolds

LEMMA EndpointFound ==
  ASSUME FileInv, FindEndpoint, ~(~Readable \/ Conflict(local[Web]) \/ IdentityRefused(local[Web]))
  PROVE  DecisionHolds'
<1> DEFINE r == local[Web]
           row == [url |-> Stored[r.url],
                   since |-> IF r.since # Unlisted THEN r.since ELSE clock,
                   checked |-> clock, detail |-> LiveDetail(r)]
           e == [url |-> row.url, since |-> row.since]
<1>1. pc'[Web] = "upsert" /\ local'[Web] = [id |-> r.id, row |-> row]
  BY DEF FindEndpoint, Goto, Remember, FileInv, TypeOK, Procs
<1>2. Listing' = Listing
  BY RowsOfFiles DEF FindEndpoint
<1>3. r.since = IF r.id \in DOMAIN Listing THEN Listing[r.id].since ELSE Unlisted
  BY DEF FileInv, DecisionHolds, FindEndpoint
<1>4. r.url \in Urls
  BY DEF FileInv, TypeOK, LocalOK, FindEndpoint, Lookup, Procs
<1>5. DOMAIN Listing = DOMAIN Rows /\ \A i \in DOMAIN Rows : Listing[i].url = Rows[i].url
  BY DEF Listing
<1>6. Cat!ListedAt(Listing, e.url) \subseteq {r.id}
  <2>1. Norm[e.url] = Norm[r.url]
    BY <1>4, StoredAssumption
  <2>2. EndpointOwners(Rows, r.url) \subseteq {r.id}
    BY DEF Conflict
  <2> HIDE DEF e, r
  <2>3. QED
    BY <1>5, <2>1, <2>2 DEF Cat!ListedAt, EndpointOwners
<1>7. r.id \in DOMAIN Listing => e.since = Listing[r.id].since
  <2>1. \A i \in DOMAIN Listing : Listing[i].since \in Time
    BY ListingType DEF FileInv, Cat!Tables, Cat!Entry
  <2>2. QED
    BY <1>3, <2>1, UnlistedAssumption DEF Time
<1>8. Accepts(Listing, r.id, e)
  BY <1>6, <1>7 DEF Accepts
<1> HIDE DEF row
<1>9. QED
  BY <1>1, <1>2, <1>8 DEF DecisionHolds

LEMMA RegisterFits ==
  ASSUME FileInv, Register
  PROVE  PendingFits' /\ DecisionHolds'
<1>0. Web \in Procs
  BY DEF Procs
<1>1. ASSUME NEW o \in Ids, NEW u \in Urls, NEW live \in Ids \cup {NoId},
             BeginRegister(o, u, live)
      PROVE  PendingFits' /\ DecisionHolds'
  BY <1>0, <1>1, GoOnFits DEF BeginRegister, Section
<1>2. CASE EnsureSeed
  <2>1. CASE main = NoFile
    <3>1. ListingOf(NoRows) = Listing
      BY <2>1, ListingIsOfRows DEF Rows, ReadText, Empty
    <3>2. QED
      BY <1>0, <1>2, <2>1, <3>1, EnterFits DEF EnsureSeed, Fits
  <2>2. CASE main # NoFile
    BY <1>0, <1>2, <2>2, GoOnFits DEF EnsureSeed, Section
  <2>3. QED
    BY <2>1, <2>2
<1>3. CASE FindIdentifier
  <2>1. CASE Readable
    BY <1>0, <1>3, <2>1, IdentifierFound, GoOnFits DEF FindIdentifier, Section
  <2>2. CASE ~Readable
    BY <1>0, <1>3, <2>2, FinishFits DEF FindIdentifier
  <2>3. QED
    BY <2>1, <2>2
<1>4. CASE FindEndpoint
  <2> DEFINE stops == ~Readable \/ Conflict(local[Web]) \/ IdentityRefused(local[Web])
  <2>1. CASE ~stops
    BY <1>0, <1>4, <2>1, EndpointFound, GoOnFits DEF FindEndpoint, Section
  <2>2. CASE stops
    BY <1>0, <1>4, <2>2, FinishFits DEF FindEndpoint
  <2>3. QED
    BY <2>1, <2>2
<1>5. CASE Upsert
  <2>1. CASE Readable
    <3> DEFINE r == local[Web]
               e == [url |-> r.row.url, since |-> r.row.since]
    <3>1. r \in Upsertion /\ Accepts(Listing, r.id, e)
      BY <1>0, <1>5 DEF Upsert, FileInv, TypeOK, LocalOK, DecisionHolds
    <3>2. r.id \in Ids /\ r.row \in Row /\ e \in Cat!Entry
      BY <3>1 DEF Upsertion, Row, Cat!Entry
    <3>3. ListingOf(Upserted(Rows, r.id, r.row)) = With(Listing, r.id, e)
      BY <3>2, RowsIsDocument, UpsertedListing, ListingIsOfRows DEF FileInv
    <3>4. Fits(Web, Upserted(Rows, r.id, r.row))
      BY <3>1, <3>2, <3>3 DEF Fits, Registers
    <3>5. QED
      BY <1>0, <1>5, <2>1, <3>4, EnterFits DEF Upsert
  <2>2. CASE ~Readable
    BY <1>0, <1>5, <2>2, FinishFits DEF Upsert
  <2>3. QED
    BY <2>1, <2>2
<1>6. QED
  BY <1>1, <1>2, <1>3, <1>4, <1>5 DEF Register

LEMMA CheckFits ==
  ASSUME FileInv, NEW c \in Checkers, Check(c)
  PROVE  PendingFits' /\ DecisionHolds'
<1>0. c \in Procs /\ c # Web
  BY ProcessAssumption DEF Procs
<1>1. \A r : Remember(c, r) => local'[Web] = local[Web]
  BY <1>0 DEF Remember, FileInv, TypeOK, Procs
<1>2. CASE LoadListings(c)
  BY <1>0, <1>1, <1>2, GoOnFits DEF LoadListings, Section
<1>3. CASE CheckEnds(c)
  BY <1>0, <1>3, FinishFits DEF CheckEnds
<1>4. CASE AnnotateChecks(c)
  <2>1. CASE Readable
    <3>1. PICK d : WriteBack(c, Annotated(Rows, d, local[c].checked), "idle")
      BY <1>4, <2>1 DEF AnnotateChecks
    <3> DEFINE rows == Annotated(Rows, d, local[c].checked)
    <3>2. ListingOf(rows) = Listing
      BY RowsIsDocument, AnnotatedListing, ListingIsOfRows DEF FileInv
    <3>3. Fits(c, rows)
      BY <3>2 DEF Fits
    <3>4. WriteBack(c, rows, "idle") /\ Remember(c, Nothing)
          /\ UNCHANGED <<main, tmp, content>>
      BY <1>4, <2>1, <3>1 DEF AnnotateChecks
    <3> HIDE DEF rows
    <3>5. QED
      BY <1>0, <1>1, <3>3, <3>4, EnterFits
  <2>2. CASE ~Readable
    BY <1>0, <1>4, <2>2, FinishFits DEF AnnotateChecks
  <2>3. QED
    BY <2>1, <2>2
<1>5. QED
  BY <1>2, <1>3, <1>4 DEF Check

LEMMA FileStepFits ==
  ASSUME FileInv, NEW p \in Procs, WriteFile(p) \/ Crash(p)
  PROVE  PendingFits' /\ DecisionHolds'
<1> USE DEF FileInv
<1>0. /\ \A q \in Procs : pc[p] \in Section /\ pc[q] \in Section => q = p
      /\ out[p] \in Write /\ Web \in Procs
  BY TypeParts DEF SafeWrites, OneWriter, Procs
<1>1. CASE OpenTemporary(p)
  <2>1. /\ pc[p] \in Section /\ pc' = [pc EXCEPT ![p] = "write"] /\ local' = local
        /\ \A q \in Procs \ {p} : out'[q] = out[q]
        /\ out'[p].rows = out[p].rows
    BY <1>0, <1>1 DEF OpenTemporary, Goto, Section, TypeOK, Write
  <2>2. Listing' = Listing
    BY <1>1, RowsKept
  <2>3. PendingFits'
    BY <1>0, <2>1, <2>2, PendingStays DEF PendingFits, Section
  <2>4. DecisionHolds'
    BY <1>0, <2>1, <2>2, DecisionStays DEF TypeOK
  <2>5. QED
    BY <2>3, <2>4
<1>2. CASE WriteTemporary(p)
  <2>1. /\ pc[p] \in Section /\ pc' = [pc EXCEPT ![p] = "replace"] /\ local' = local
        /\ \A q \in Procs \ {p} : out'[q] = out[q]
        /\ out'[p].rows = out[p].rows /\ tmp' = tmp
    BY <1>0, <1>2 DEF WriteTemporary, Goto, Section, TypeOK, Write
  <2>2. Listing' = Listing
    BY <1>2, RowsKept
  <2>3. content'[tmp'].rows = out[p].rows
    <3>1. tmp # NoFile /\ out[p].fd = tmp /\ content[tmp] = Empty
      BY <1>2 DEF WriteTemporary, SafeWrites, WriteSafe
    <3>2. content' = [content EXCEPT ![tmp] = Text(out[p].rows)]
      BY <1>2, <3>1 DEF WriteTemporary, Named
    <3>3. QED
      BY <2>1, <3>1, <3>2 DEF TypeOK, Text
  <2>4. PendingFits'
    BY <1>0, <2>1, <2>2, <2>3, PendingStays DEF PendingFits, Section
  <2>5. DecisionHolds'
    BY <1>0, <2>1, <2>2, DecisionStays DEF TypeOK
  <2>6. QED
    BY <2>4, <2>5
<1>3. CASE ReplaceMain(p)
  <2>1. CASE tmp = NoFile
    BY <1>3, <2>1, FinishFits DEF ReplaceMain
  <2>2. CASE tmp # NoFile
    <3>1. pc' = [pc EXCEPT ![p] = out[p].then] /\ local' = local /\ pc[p] \in Section
      BY <1>3, <2>2 DEF ReplaceMain, Goto, Section
    <3>2. out[p].then \in {"idle", "find_id"}
      BY <1>0 DEF Write
    <3>3. \A q \in Procs : pc'[q] \notin Section
      BY <1>0, <3>1, <3>2 DEF TypeOK, Section
    <3>4. PendingFits'
      BY <3>3 DEF PendingFits, Section
    <3>5. DecisionHolds'
      <4>1. CASE p = Web
        BY <3>1, <3>2, <4>1 DEF DecisionHolds, TypeOK
      <4>2. CASE p # Web
        BY <1>0, <1>3, <3>1, <4>2, ListingReplaced, DecisionStays DEF TypeOK
      <4>3. QED
        BY <4>1, <4>2
    <3>6. QED
      BY <3>4, <3>5
  <2>3. QED
    BY <2>1, <2>2
<1>4. CASE Crash(p)
  <2>1. CASE UNCHANGED content
    BY <1>4, <2>1, FinishFits DEF Crash
  <2>2. CASE content' # content
    <3>1. /\ pc[p] \in Section /\ pc' = [pc EXCEPT ![p] = "idle"]
          /\ local' = [local EXCEPT ![p] = Nothing]
      BY <1>4, <2>2 DEF Crash, Finish, Goto, Remember, Section
    <3>2. Listing' = Listing
      BY <1>4, RowsKept
    <3>3. PendingFits'
      BY <1>0, <3>1 DEF PendingFits, TypeOK, Section
    <3>4. DecisionHolds'
      BY <1>0, <3>1, <3>2, DecisionStays DEF TypeOK, Procs
    <3>5. QED
      BY <3>3, <3>4
  <2>3. QED
    BY <2>1, <2>2
<1>5. QED
  BY <1>1, <1>2, <1>3, <1>4 DEF WriteFile

LEMMA FileInit == Init => FileInv
<1> SUFFICES ASSUME Init PROVE FileInv
  OBVIOUS
<1>1. \A p \in Procs : pc[p] = "idle"
  BY DEF Init
<1>2. PendingFits /\ DecisionHolds
  BY <1>1 DEF PendingFits, DecisionHolds, Section, Procs
<1>3. QED
  BY <1>2, TypeInit, SafeInit DEF FileInv

LEMMA FileStep ==
  ASSUME Overlap # "any"
  PROVE  FileInv /\ [Next]_vars => FileInv'
<1> SUFFICES ASSUME FileInv, [Next]_vars PROVE FileInv'
  OBVIOUS
<1>1. TypeOK' /\ SafeWrites'
  BY TypeStep, SafeStep DEF FileInv
<1>2. PendingFits' /\ DecisionHolds'
  <2>1. CASE Register
    BY <2>1, RegisterFits
  <2>2. ASSUME NEW c \in Checkers, Check(c) PROVE PendingFits' /\ DecisionHolds'
    BY <2>2, CheckFits
  <2>3. ASSUME NEW p \in Procs, WriteFile(p) \/ Crash(p)
        PROVE  PendingFits' /\ DecisionHolds'
    BY <2>3, FileStepFits
  <2>4. CASE UNCHANGED <<main, tmp, content, pc, local, out>>
    <3>1. Listing' = Listing
      BY <2>4, RowsOfFiles
    <3>2. PendingFits'
      BY <2>4, <3>1 DEF FileInv, PendingFits, Fits, Registers
    <3>3. DecisionHolds'
      BY <2>4, <3>1, DecisionStays DEF FileInv
    <3>4. QED
      BY <3>2, <3>3
  <2>5. QED
    BY <2>1, <2>2, <2>3, <2>4 DEF Next, Tick, vars
<1>3. QED
  BY <1>1, <1>2 DEF FileInv

\* The first document lists every endpoint once.
LEMMA ListingInit == Init => Cat!Init
<1> SUFFICES ASSUME Init PROVE Cat!Init
  OBVIOUS
<1>1. Cat!TypeOK
  BY TypeInit, ListingType DEF Cat!TypeOK
<1>2. OneOwner(Rows)
  BY FileAssumption DEF Init, Rows, ReadText, Text, Empty, NoRows, OneOwner
<1>3. Cat!OneOwner(Listing)
  BY <1>2 DEF Cat!OneOwner, OneOwner, Listing
<1>4. QED
  BY <1>1, <1>3 DEF Cat!Init

\* A table with what is accepted is a step of the catalogue.
LEMMA AcceptedStep ==
  ASSUME NEW o \in Ids, NEW e \in Cat!Entry, Accepts(Listing, o, e),
         Listing' = With(Listing, o, e)
  PROVE  Cat!Next
<1>1. e = [url |-> e.url, since |-> e.since] /\ e.url \in Urls /\ e.since \in Time
  BY DEF Cat!Entry
<1>2. Cat!Put(o, [url |-> e.url, since |-> e.since])
  BY <1>1 DEF Cat!Put, With
<1>3. CASE o \in DOMAIN Listing
  <2>1. Cat!Update(o, e.url)
    BY <1>2, <1>3 DEF Accepts, Cat!Update
  <2>2. QED
    BY <1>1, <2>1 DEF Cat!Next
<1>4. CASE o \notin DOMAIN Listing
  <2>1. Cat!ListedAt(Listing, e.url) = {}
    BY <1>4 DEF Accepts, Cat!ListedAt
  <2>2. Cat!Register(o, e.url, e.since)
    BY <1>2, <1>4, <2>1 DEF Cat!Register
  <2>3. QED
    BY <1>1, <2>2 DEF Cat!Next
<1>5. QED
  BY <1>3, <1>4

\* Unless read-modify-writes overlap, publishers.json implements the catalogue:
\* wherever processes are killed and however checks and registrations follow each
\* other, a reader sees listings change only by whole registrations that the
\* catalogue allows, none lost or undone.
THEOREM PublisherFileImplementsCatalogue ==
  ASSUME Overlap # "any"
  PROVE  Spec => ImplementsCatalogue
<1>1. FileInv /\ [Next]_vars => [Cat!Next]_Listing
  BY ListingMoves, AcceptedStep
<1>2. QED
  BY <1>1, FileInit, FileStep, ListingInit, PTL DEF Spec, ImplementsCatalogue, Cat!Spec

\* Nor does a step of check-publishers change any listing.
THEOREM PublisherFileCheckKeepsListing ==
  ASSUME Overlap # "any"
  PROVE  Spec => CheckKeepsListing
<1> DEFINE Keeps == (\E c \in Checkers : pc'[c] # pc[c]) /\ IntactFile /\ IntactFile'
                      => Listing' = Listing
<1>1. FileInv /\ [Next]_vars => [Keeps]_vars
  <2> SUFFICES ASSUME FileInv, [Next]_vars, NEW c \in Checkers, pc'[c] # pc[c]
               PROVE  Listing' = Listing
    OBVIOUS
  <2>1. c # Web /\ Web \in Procs /\ c \in Procs
    BY ProcessAssumption DEF Procs
  <2>2. ReplaceMain(Web) => \E l : pc' = [pc EXCEPT ![Web] = l]
    BY DEF ReplaceMain, Finish, Goto
  <2>3. ~ReplaceMain(Web)
    BY <2>1, <2>2 DEF FileInv, TypeOK
  <2>4. QED
    BY <2>3, ListingMoves
<1>2. QED
  BY <1>1, FileInit, FileStep, PTL DEF Spec, CheckKeepsListing

\* What every behaviour of the catalogue keeps, the file therefore keeps.
CatFacts == INSTANCE CatalogueProofs WITH catalogue <- Listing, Stamps <- Time

LEMMA SameCatalogue ==
  /\ Cat!Init <=> CatFacts!Init
  /\ Cat!Next <=> CatFacts!Next
BY DEF Cat!Init, CatFacts!Init, Cat!TypeOK, CatFacts!TypeOK, Cat!Tables, CatFacts!Tables,
       Cat!Entry, CatFacts!Entry, Cat!OneOwner, CatFacts!OneOwner,
       Cat!Next, CatFacts!Next, Cat!Update, CatFacts!Update, Cat!Register,
       CatFacts!Register, Cat!ListedAt, CatFacts!ListedAt, Cat!Put, CatFacts!Put

LEMMA CatalogueBehaviour ==
  ASSUME Overlap # "any"
  PROVE  Spec => CatFacts!Spec
BY PublisherFileImplementsCatalogue, SameCatalogue, PTL
   DEF ImplementsCatalogue, Cat!Spec, CatFacts!Spec

\* publishers.json never lists an endpoint, in any spelling, under two
\* identifiers, unless read-modify-writes overlap.
THEOREM PublisherFileUniqueEndpoint ==
  ASSUME Overlap # "any"
  PROVE  Spec => []OneOwner(Rows)
<1>1. CatFacts!UniqueEndpoint => OneOwner(Rows)
  BY DEF CatFacts!UniqueEndpoint, CatFacts!OneOwner, OneOwner, Listing
<1>2. QED
  BY <1>1, CatalogueBehaviour, CatFacts!EndpointsUnique, PTL

\* Nor does it ever lose a listing or the listing's registered_at.
THEOREM PublisherFileListingKept ==
  ASSUME Overlap # "any"
  PROVE  Spec => [][\A i \in DOMAIN Rows :
                      i \in DOMAIN Rows' /\ Rows'[i].since = Rows[i].since]_Listing
<1> DEFINE Kept == \A i \in DOMAIN Listing :
                     i \in DOMAIN Listing' /\ Listing'[i].since = Listing[i].since
           KeptRows == \A i \in DOMAIN Rows :
                         i \in DOMAIN Rows' /\ Rows'[i].since = Rows[i].since
<1>1. [Kept]_Listing => [KeptRows]_Listing
  BY DEF Listing
<1>2. CatFacts!ListingKept => [][Kept]_Listing
  BY PTL DEF CatFacts!ListingKept
<1>3. QED
  BY <1>1, <1>2, CatalogueBehaviour, CatFacts!ListingsKept, PTL

=============================================================================
