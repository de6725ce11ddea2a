------------------------- MODULE SearchablesProofs -------------------------
(***************************************************************************)
(* Theorems about the cache of the searchable registries, for any number   *)
(* of home pages and runs of the command, any maximal age and any time an  *)
(* answer takes.                                                           *)
(***************************************************************************)
EXTENDS Searchables, TLAPS

Names == {"cache", "tmp"}

\* Past its open a process writes a file, whatever name it has.
Busy == {"first", "rest", "replace"}

\* What is left of an answer in a part of a file.
Text(a) == IF a = Empty THEN None ELSE a

Typed ==
  /\ list \in Lists /\ gone \in [Lists -> Nat]
  /\ pc \in [Procs -> {"idle", "fetch"} \cup Writing]
  /\ answer \in [Procs -> Lists \cup {Empty, None}] /\ waited \in [Procs -> 0 .. Flight]
  /\ file \in [Names -> File \cup {None}] /\ writes \in [Procs -> Names \cup {None}]
  /\ stored \in [list : Lists \cup {Empty, None}, age : Nat]

\* The ages of the lists are those of the change.
Gone == \A l \in Lists : gone[l] <= Far /\ (l >= list => gone[l] = 0)

\* A process has an answer while it writes it and none when it is idle, and an answer
\* was the list when it was computed.
Answers ==
  \A p \in Procs :
    /\ pc[p] = "idle" => answer[p] = None
    /\ pc[p] \in Writing => answer[p] # None
    /\ answer[p] \in Lists => gone[answer[p]] <= waited[p]

\* So was every part of a file, when the file was opened at the latest.
Young ==
  \A n \in Names : file[n] # None =>
    /\ file[n].first # None => gone[file[n].first] <= file[n].age + Flight
    /\ file[n].rest # None => gone[file[n].rest] <= file[n].age + Flight

\* Time stands still while a file is written.
Held ==
  \A p \in Procs : writes[p] # None =>
    /\ pc[p] \in Busy
    /\ file[writes[p]] # None /\ file[writes[p]].age = 0
    /\ writes[p] = "cache" => file["cache"].shared

\* Who opened the temporary file alone has written as much of it as it has come to,
\* and nobody has come after it.
Alone ==
  file["tmp"] # None /\ ~file["tmp"].shared =>
    \A p \in Procs : pc[p] \in Busy =>
      /\ \A q \in Procs : pc[q] \in Busy => q = p
      /\ writes[p] = "tmp"
      /\ file["tmp"].first = IF pc[p] = "first" THEN None ELSE Text(answer[p])
      /\ file["tmp"].rest = IF pc[p] = "replace" THEN Text(answer[p]) ELSE None

\* A cache that was written alone holds a whole answer, that of the last who stored one.
Whole ==
  file["cache"] # None /\ ~file["cache"].shared => file["cache"].first = file["cache"].rest

Kept ==
  stored.list # None =>
    /\ file["cache"] # None
    /\ ~file["cache"].shared =>
         file["cache"].first = Text(stored.list) /\ file["cache"].age = stored.age

IInv == Typed /\ Gone /\ Answers /\ Young /\ Held /\ Alone /\ Whole /\ Kept

----------------------------------------------------------------------------
(* Constants and records. *)

LEMMA Numbers ==
  /\ Flight \in Nat /\ Old \in Nat /\ Far \in Nat /\ Far = Old + Flight
  /\ Lists \subseteq Nat \ {Empty, None} /\ Empty # None
  /\ "cache" # None /\ "tmp" # None /\ "cache" # "tmp" /\ None \notin File
  /\ MaxAge # None => Old = MaxAge + 1 /\ MaxAge \in Nat
<1>1. /\ Flight \in Nat /\ MaxAge \in Nat \cup {None} /\ None \notin Nat
      /\ None # "cache" /\ None # "tmp" /\ None \notin File
  BY SearchablesAssumption
<1>2. Old \in Nat /\ (MaxAge # None => Old = MaxAge + 1 /\ MaxAge \in Nat)
  BY <1>1 DEF Old
<1>3. Far \in Nat /\ Far = Old + Flight
  BY <1>1, <1>2 DEF Far
<1>4. Lists \subseteq Nat \ {Empty, None} /\ Empty # None
  <2>1. MaxLists \in Nat
    BY SearchablesAssumption
  <2>2. QED
    BY <1>1, <2>1 DEF Lists, Empty
<1>5. QED
  BY <1>1, <1>2, <1>3, <1>4

LEMMA OpenedParts ==
  ASSUME NEW b \in BOOLEAN
  PROVE  /\ Opened(b) \in File /\ Opened(b).first = None /\ Opened(b).rest = None
         /\ Opened(b).age = 0 /\ (Opened(b).shared <=> b)
BY DEF File, Opened

LEMMA WrittenParts ==
  ASSUME NEW f \in File, NEW part \in {"first", "rest"}, NEW l \in Lists
  PROVE  LET g == [f EXCEPT ![part] = l, !.age = 0] IN
           /\ g \in File /\ g.age = 0 /\ (g.shared <=> f.shared)
           /\ g.first = IF part = "first" THEN l ELSE f.first
           /\ g.rest = IF part = "rest" THEN l ELSE f.rest
BY DEF File

LEMMA AgedParts ==
  ASSUME NEW f \in File
  PROVE  LET g == [f EXCEPT !.age = Later(@, Old)] IN
           /\ g \in File /\ g.age = Later(f.age, Old) /\ (g.shared <=> f.shared)
           /\ g.first = f.first /\ g.rest = f.rest
<1>1. f.age \in Nat /\ Old \in Nat
  BY Numbers DEF File
<1>2. Later(f.age, Old) \in Nat
  BY <1>1 DEF Later
<1>3. QED
  BY <1>2 DEF File

LEMMA FileParts ==
  ASSUME NEW f \in File
  PROVE  /\ f.first \in Lists \cup {None} /\ f.rest \in Lists \cup {None}
         /\ f.age \in Nat /\ f.shared \in BOOLEAN
BY DEF File

----------------------------------------------------------------------------
(* The steps of a load before it writes. *)

\* A step that leaves the files and the lists alone, and of what a process has to do
\* with files only lets go of something.
LEMMA FilesUnchanged ==
  ASSUME IInv, UNCHANGED <<list, gone, file, stored>>,
         \A p \in Procs : writes'[p] \in {writes[p], None},
         \A p \in Procs : pc'[p] \in Busy =>
           pc'[p] = pc[p] /\ writes'[p] = writes[p] /\ answer'[p] = answer[p],
         \A p \in Procs : writes'[p] # None => pc'[p] = pc[p]
  PROVE  Gone' /\ Young' /\ Held' /\ Alone' /\ Whole' /\ Kept'
<1>1. Gone' /\ Young' /\ Whole' /\ Kept'
  BY DEF IInv, Gone, Young, Whole, Kept
<1>2. Held'
  BY DEF IInv, Held
<1>3. Alone'
  BY DEF IInv, Alone
<1>4. QED
  BY <1>1, <1>2, <1>3

LEMMA AskKeeps ==
  ASSUME IInv, NEW p \in Procs, Ask(p) PROVE IInv'
<1>1. Typed'
  BY DEF IInv, Typed, Ask, fetching, files
<1>2. Answers'
  BY DEF IInv, Typed, Answers, Ask, fetching, files, Writing
<1>3. QED
  BY <1>1, <1>2, FilesUnchanged DEF IInv, Typed, Held, Ask, fetching, files, Busy

LEMMA ComputeKeeps ==
  ASSUME IInv, NEW p \in Procs, Compute(p) PROVE IInv'
<1>1. PICK text \in {list, Empty} : answer' = [answer EXCEPT ![p] = text]
  BY DEF Compute
<1>2. Typed'
  BY <1>1 DEF IInv, Typed, Compute, files
<1>3. Answers'
  <2>1. gone[list] = 0 /\ waited[p] \in Nat /\ list \in Lists /\ list >= list
    BY Numbers DEF IInv, Typed, Gone
  <2>2. QED
    BY <1>1, <2>1, Numbers DEF IInv, Typed, Answers, Compute, files, Writing
<1>4. QED
  BY <1>1, <1>2, <1>3, FilesUnchanged DEF IInv, Typed, Compute, files, Busy

LEMMA ArriveKeeps ==
  ASSUME IInv, NEW p \in Procs, Arrive(p) PROVE IInv'
<1>1. Typed'
  BY DEF IInv, Typed, Arrive, fetching, files, Writing
<1>2. Answers'
  BY DEF IInv, Typed, Answers, Arrive, fetching, files, Writing
<1>3. QED
  BY <1>1, <1>2, FilesUnchanged DEF IInv, Typed, Held, Arrive, fetching, files, Busy

\* Failures and crashes.
LEMMA EndKeeps ==
  ASSUME IInv, NEW P \in SUBSET Procs, End(P), UNCHANGED <<list, gone, file, stored>>
  PROVE  IInv'
<1>1. Typed'
  BY Numbers DEF IInv, Typed, End
<1>2. Answers'
  BY Numbers DEF IInv, Typed, Answers, End, Writing
<1>3. QED
  BY <1>1, <1>2, FilesUnchanged DEF IInv, Typed, End, Busy

----------------------------------------------------------------------------
(* The steps of a load that writes. *)

LEMMA OpenKeeps ==
  ASSUME IInv, NEW p \in Procs, Open(p) PROVE IInv'
<1> DEFINE b == Disturbed(p)
           f == Opened(b)
<1>1. b \in BOOLEAN
  BY DEF Disturbed
<1>2. /\ f \in File /\ f.first = None /\ f.rest = None
      /\ f.age = 0 /\ (f.shared <=> b)
  BY <1>1, OpenedParts
<1>3. b <=> \E q \in Procs \ {p} : pc[q] \in Busy
  BY DEF Disturbed, Writing, Busy
<1>4. /\ pc[p] = "open" /\ file' = [file EXCEPT !["tmp"] = f]
      /\ writes' = [writes EXCEPT ![p] = "tmp"] /\ pc' = [pc EXCEPT ![p] = "first"]
      /\ UNCHANGED <<list, gone, answer, waited, stored>>
  BY DEF Open, OpenAs, fetching
<1> HIDE DEF f, b
<1>5. /\ file \in [Names -> File \cup {None}] /\ writes \in [Procs -> Names \cup {None}]
      /\ pc \in [Procs -> {"idle", "fetch"} \cup Writing]
  BY DEF IInv, Typed
<1>6. /\ file'["tmp"] = f /\ file'["cache"] = file["cache"]
      /\ pc'[p] = "first" /\ writes'[p] = "tmp"
      /\ \A q \in Procs \ {p} : pc'[q] = pc[q] /\ writes'[q] = writes[q]
  BY <1>4, <1>5, Numbers DEF Names
<1>7. Typed'
  BY <1>2, <1>4 DEF IInv, Typed, Names, Writing
<1>8. Gone'
  BY <1>4 DEF IInv, Gone
<1>9. Answers'
  BY <1>4, <1>5, <1>6 DEF IInv, Answers, Writing
<1>10. Young'
  BY <1>2, <1>4, <1>6 DEF IInv, Young, Names
<1>11. Held'
  <2>1. f # None
    BY <1>2, Numbers
  <2>2. ASSUME NEW q \in Procs, writes'[q] # None
        PROVE  /\ pc'[q] \in Busy
               /\ file'[writes'[q]] # None /\ file'[writes'[q]].age = 0
               /\ writes'[q] = "cache" => file'["cache"].shared
    <3>1. CASE q = p
      BY <1>2, <1>6, <2>1, <3>1, Numbers DEF Busy
    <3>2. CASE q # p
      <4>1. writes'[q] = writes[q] /\ pc'[q] = pc[q] /\ writes[q] \in Names
        BY <1>5, <1>6, <2>2, <3>2
      <4>2. CASE writes[q] = "tmp"
        BY <1>2, <1>6, <2>1, <2>2, <4>1, <4>2, Numbers DEF IInv, Held
      <4>3. CASE writes[q] = "cache"
        BY <1>6, <2>2, <4>1, <4>3 DEF IInv, Held
      <4>4. QED
        BY <4>1, <4>2, <4>3 DEF Names
    <3>3. QED
      BY <3>1, <3>2
  <2>3. QED
    BY <2>2 DEF Held
<1>12. Alone'
  BY <1>2, <1>3, <1>6 DEF Alone, Busy
<1>13. Whole' /\ Kept'
  BY <1>4, <1>6 DEF IInv, Whole, Kept
<1>14. QED
  BY <1>7, <1>8, <1>9, <1>10, <1>11, <1>12, <1>13 DEF IInv

LEMMA WriteKeeps ==
  ASSUME IInv, NEW p \in Procs, NEW part \in {"first", "rest"},
         WritePart(p, part, IF part = "first" THEN "rest" ELSE "replace")
  PROVE  IInv'
<1> DEFINE then == IF part = "first" THEN "rest" ELSE "replace"
           n == writes[p]
           l == answer[p]
           g == [file[n] EXCEPT ![part] = l, !.age = 0]
<1>1. /\ pc[p] = part /\ pc' = [pc EXCEPT ![p] = then]
      /\ UNCHANGED <<list, gone, answer, waited, writes, stored>>
  BY DEF WritePart, fetching
<1>2. /\ file \in [Names -> File \cup {None}] /\ writes \in [Procs -> Names \cup {None}]
      /\ pc \in [Procs -> {"idle", "fetch"} \cup Writing]
      /\ answer \in [Procs -> Lists \cup {Empty, None}] /\ waited \in [Procs -> 0 .. Flight]
      /\ gone \in [Lists -> Nat]
  BY DEF IInv, Typed
<1>3. /\ pc'[p] = then /\ then \in Busy /\ pc[p] \in Busy /\ l \in Lists \cup {Empty}
      /\ \A q \in Procs : q # p => pc'[q] = pc[q]
      /\ \A q \in Procs : pc'[q] \in Busy <=> pc[q] \in Busy
  BY <1>1, <1>2 DEF IInv, Answers, Busy, Writing
<1>4. Gone'
  BY <1>1 DEF IInv, Gone
<1>5. Answers'
  BY <1>1, <1>2, <1>3 DEF IInv, Answers, Writing, Busy
<1>6. CASE l = Empty \/ n = None
  <2>1. file' = file
    BY <1>6 DEF WritePart
  <2>2. Typed'
    BY <1>1, <2>1 DEF IInv, Typed, Writing
  <2>3. Young' /\ Whole' /\ Kept'
    BY <1>1, <2>1 DEF IInv, Young, Whole, Kept
  <2>4. Held'
    BY <1>1, <1>3, <2>1 DEF IInv, Held
  <2>5. Alone'
    BY <1>1, <1>3, <1>6, <2>1, Numbers DEF IInv, Alone, Text, Busy
  <2>6. QED
    BY <1>4, <1>5, <2>2, <2>3, <2>4, <2>5 DEF IInv
<1>7. CASE ~(l = Empty \/ n = None)
  <2>1. l \in Lists /\ n \in Names /\ file[n] \in File /\ file[n].age = 0
    BY <1>2, <1>3, <1>7 DEF IInv, Held
  <2>2. /\ g \in File /\ g.age = 0 /\ (g.shared <=> file[n].shared)
        /\ g.first = IF part = "first" THEN l ELSE file[n].first
        /\ g.rest = IF part = "rest" THEN l ELSE file[n].rest
    <3> DEFINE f == file[n]
    <3>1. l \in Lists /\ f \in File
      BY <2>1
    <3> HIDE DEF l, n, f
    <3>2. [f EXCEPT ![part] = l, !.age = 0] = g
      BY DEF f
    <3>3. QED
      BY <3>1, <3>2, WrittenParts DEF f
  <2>3. file' = [file EXCEPT ![n] = g]
    BY <1>7 DEF WritePart
  <2> HIDE DEF g
  <2>4. file'[n] = g /\ g # None /\ \A m \in Names : m # n => file'[m] = file[m]
    BY <1>2, <2>1, <2>2, <2>3, Numbers
  <2>5. Typed'
    BY <1>1, <2>1, <2>2, <2>3 DEF IInv, Typed, Writing
  <2>6. Young'
    <3>1. gone[l] <= Flight
      <4>1. gone[l] <= waited[p]
        BY <2>1 DEF IInv, Answers
      <4>2. waited[p] \in 0 .. Flight /\ gone[l] \in Nat
        BY <1>2, <2>1
      <4>3. QED
        BY <4>1, <4>2, Numbers
    <3>2. /\ g.first # None => gone[g.first] <= g.age + Flight
          /\ g.rest # None => gone[g.rest] <= g.age + Flight
      BY <2>1, <2>2, <3>1, Numbers DEF IInv, Young
    <3>3. QED
      BY <1>1, <2>4, <3>2 DEF IInv, Young
  <2>7. Held'
    BY <1>1, <1>2, <1>3, <2>1, <2>2, <2>4 DEF IInv, Held, Names
  <2>8. Alone'
    <3> SUFFICES ASSUME file'["tmp"] # None, ~file'["tmp"].shared
                 PROVE  \A q \in Procs : pc'[q] \in Busy =>
                          /\ \A r \in Procs : pc'[r] \in Busy => r = q
                          /\ writes'[q] = "tmp"
                          /\ file'["tmp"].first = IF pc'[q] = "first" THEN None ELSE Text(answer'[q])
                          /\ file'["tmp"].rest = IF pc'[q] = "replace" THEN Text(answer'[q]) ELSE None
      BY DEF Alone
    <3>1. file["tmp"] # None /\ ~file["tmp"].shared
      <4>1. CASE n = "tmp"
        BY <2>1, <2>2, <2>4, <4>1, Numbers
      <4>2. CASE n # "tmp"
        BY <2>4, <4>2 DEF Names
      <4>3. QED
        BY <4>1, <4>2
    <3>2. /\ \A r \in Procs : pc[r] \in Busy => r = p
          /\ n = "tmp"
          /\ file["tmp"].first = IF pc[p] = "first" THEN None ELSE Text(l)
          /\ file["tmp"].rest = IF pc[p] = "replace" THEN Text(l) ELSE None
      BY <1>3, <3>1 DEF IInv, Alone
    <3>3. Text(l) = l
      BY <1>7 DEF Text
    <3>4. /\ file'["tmp"].first = IF then = "first" THEN None ELSE Text(l)
          /\ file'["tmp"].rest = IF then = "replace" THEN Text(l) ELSE None
      BY <1>1, <2>2, <2>4, <3>2, <3>3
    <3>5. QED
      BY <1>1, <1>3, <3>2, <3>4
  <2>9. Whole' /\ Kept'
    <3>1. CASE n = "cache"
      <4>1. file'["cache"] # None /\ file'["cache"].shared
        BY <1>7, <2>2, <2>4, <3>1 DEF IInv, Held
      <4>2. QED
        BY <1>1, <4>1 DEF Whole, Kept
    <3>2. CASE n # "cache"
      <4>1. file'["cache"] = file["cache"]
        BY <2>4, <3>2 DEF Names
      <4>2. QED
        BY <1>1, <4>1 DEF IInv, Whole, Kept
    <3>3. QED
      BY <3>1, <3>2
  <2>10. QED
    BY <1>4, <1>5, <2>5, <2>6, <2>7, <2>8, <2>9 DEF IInv
<1>8. QED
  BY <1>6, <1>7

LEMMA ReplaceKeeps ==
  ASSUME IInv, NEW p \in Procs, Replace(p) PROVE IInv'
<1>1. /\ pc[p] = "replace" /\ pc' = [pc EXCEPT ![p] = "idle"]
      /\ answer' = [answer EXCEPT ![p] = None] /\ waited' = [waited EXCEPT ![p] = 0]
      /\ UNCHANGED <<list, gone>>
  BY DEF Replace
<1>2. /\ file \in [Names -> File \cup {None}] /\ writes \in [Procs -> Names \cup {None}]
      /\ pc \in [Procs -> {"idle", "fetch"} \cup Writing]
      /\ answer \in [Procs -> Lists \cup {Empty, None}] /\ waited \in [Procs -> 0 .. Flight]
      /\ stored \in [list : Lists \cup {Empty, None}, age : Nat]
  BY DEF IInv, Typed
<1>3. /\ pc'[p] = "idle" /\ answer'[p] = None
      /\ \A q \in Procs : q # p => pc'[q] = pc[q] /\ answer'[q] = answer[q]
      /\ answer[p] \in Lists \cup {Empty}
  BY <1>1, <1>2 DEF IInv, Answers, Writing
<1>4. Gone' /\ Answers'
  BY <1>1, <1>2, <1>3, Numbers DEF IInv, Gone, Answers, Writing
<1>5. CASE file["tmp"] = None
  <2>1. UNCHANGED <<file, stored>> /\ writes' = [writes EXCEPT ![p] = None]
    BY <1>5 DEF Replace
  <2>2. Typed'
    BY <1>1, <2>1, Numbers DEF IInv, Typed, Writing
  <2>3. QED
    BY <1>1, <1>2, <1>3, <1>4, <2>1, <2>2, FilesUnchanged DEF IInv, Busy
<1>6. CASE file["tmp"] # None
  <2> DEFINE f == file["tmp"]
  <2>1. /\ file' = [cache |-> f, tmp |-> None]
        /\ writes' = [q \in Procs |-> IF q # p /\ writes[q] = "tmp" THEN "cache" ELSE None]
        /\ stored' = [list |-> answer[p], age |-> 0]
    BY <1>6 DEF Replace
  <2>2. f \in File /\ f # None
    BY <1>2, <1>6 DEF Names
  <2> HIDE DEF f
  <2>3. file'["cache"] = f /\ file'["tmp"] = None
    BY <2>1
  <2>4. file' \in [Names -> File \cup {None}]
    BY <2>1, <2>2 DEF Names
  <2>5. /\ writes' \in [Procs -> Names \cup {None}]
        /\ \A q \in Procs : writes'[q] # None =>
             q # p /\ writes[q] = "tmp" /\ writes'[q] = "cache"
    BY <2>1, Numbers DEF Names
  <2>6. stored'.list = answer[p] /\ stored'.age = 0
    BY <2>1
  <2>7. stored' \in [list : Lists \cup {Empty, None}, age : Nat]
    BY <1>3, <2>1
  <2>8. Typed'
    BY <1>1, <1>2, <2>4, <2>5, <2>7, Numbers DEF IInv, Typed, Writing
  <2>9. Young'
    BY <1>1, <2>2, <2>3 DEF IInv, Young, Names, f
  <2>10. Alone'
    BY <2>3 DEF Alone
  <2>11. ~f.shared => /\ \A q \in Procs : pc[q] \in Busy => q = p
                      /\ writes[p] = "tmp"
                      /\ f.first = Text(answer[p]) /\ f.rest = Text(answer[p])
    BY <1>1, <2>2 DEF IInv, Alone, Busy, f
  <2>12. Held'
    <3> SUFFICES ASSUME NEW q \in Procs, writes'[q] # None
                 PROVE  /\ pc'[q] \in Busy
                        /\ file'[writes'[q]] # None /\ file'[writes'[q]].age = 0
                        /\ writes'[q] = "cache" => file'["cache"].shared
      BY DEF Held
    <3>1. q # p /\ writes[q] = "tmp" /\ writes'[q] = "cache"
      BY <2>5
    <3>2. pc[q] \in Busy /\ f.age = 0
      BY <3>1, Numbers DEF IInv, Held, f
    <3>3. f.shared
      BY <2>11, <3>1, <3>2
    <3>4. QED
      BY <1>3, <2>2, <2>3, <3>1, <3>2, <3>3
  <2>13. Whole'
    BY <2>3, <2>11 DEF Whole
  <2>14. Kept'
    <3>1. ~f.shared => f.age = 0
      BY <2>11, Numbers DEF IInv, Held, f
    <3>2. QED
      BY <2>2, <2>3, <2>6, <2>11, <3>1 DEF Kept
  <2>15. QED
    BY <1>4, <2>8, <2>9, <2>10, <2>12, <2>13, <2>14 DEF IInv
<1>7. QED
  BY <1>5, <1>6

----------------------------------------------------------------------------
(* The lists and the time. *)

LEMMA ChangeKeeps ==
  ASSUME IInv, Change PROVE IInv'
<1>1. /\ list' = list + 1 /\ list < MaxLists
      /\ UNCHANGED <<gone, pc, answer, waited, file, writes, stored>>
  BY DEF Change, fetching, files
<1>2. Typed'
  <2>1. list' \in Lists
    BY <1>1, SearchablesAssumption DEF IInv, Typed, Lists
  <2>2. QED
    BY <1>1, <2>1 DEF IInv, Typed
<1>3. Gone'
  BY <1>1, Numbers DEF IInv, Typed, Gone
<1>4. Answers' /\ Young' /\ Held' /\ Alone' /\ Whole' /\ Kept'
  BY <1>1 DEF IInv, Answers, Young, Held, Alone, Whole, Kept
<1>5. QED
  BY <1>2, <1>3, <1>4 DEF IInv

LEMMA TickKeeps ==
  ASSUME IInv, Tick PROVE IInv'
<1> DEFINE Waits(p) == pc[p] = "fetch" /\ answer[p] # None
           aged(f) == [f EXCEPT !.age = Later(@, Old)]
<1>1. /\ \A p \in Procs : pc[p] \notin Writing /\ (Waits(p) => waited[p] < Flight)
      /\ gone' = [l \in Lists |-> IF l < list THEN Later(gone[l], Far) ELSE 0]
      /\ waited' = [p \in Procs |-> IF Waits(p) THEN waited[p] + 1 ELSE 0]
      /\ UNCHANGED <<list, pc, answer, writes>>
  BY DEF Tick
<1>2. file' = [n \in DOMAIN file |-> IF file[n] = None THEN None ELSE aged(file[n])]
  BY DEF Tick
<1>3. stored' = [stored EXCEPT !.age = Later(@, Old)]
  BY DEF Tick
<1>4. /\ file \in [Names -> File \cup {None}] /\ waited \in [Procs -> 0 .. Flight]
      /\ gone \in [Lists -> Nat] /\ list \in Lists
      /\ pc \in [Procs -> {"idle", "fetch"} \cup Writing]
      /\ answer \in [Procs -> Lists \cup {Empty, None}]
      /\ stored \in [list : Lists \cup {Empty, None}, age : Nat]
  BY DEF IInv, Typed
<1>5. \A f \in File : /\ aged(f) \in File /\ aged(f).age = Later(f.age, Old)
                      /\ aged(f).shared <=> f.shared
                      /\ aged(f).first = f.first /\ aged(f).rest = f.rest
  BY AgedParts
<1> HIDE DEF aged
<1>6. \A n \in Names :
        /\ file'[n] \in File \cup {None}
        /\ file'[n] = None <=> file[n] = None
        /\ file[n] # None => /\ file'[n].age = Later(file[n].age, Old)
                             /\ file'[n].shared <=> file[n].shared
                             /\ file'[n].first = file[n].first /\ file'[n].rest = file[n].rest
  <2> SUFFICES ASSUME NEW n \in Names
               PROVE  /\ file'[n] \in File \cup {None}
                      /\ file'[n] = None <=> file[n] = None
                      /\ file[n] # None =>
                           /\ file'[n].age = Later(file[n].age, Old)
                           /\ file'[n].shared <=> file[n].shared
                           /\ file'[n].first = file[n].first /\ file'[n].rest = file[n].rest
    OBVIOUS
  <2>1. CASE file[n] = None
    BY <1>2, <1>4, <2>1
  <2>2. CASE file[n] # None
    <3>1. file[n] \in File /\ file'[n] = aged(file[n])
      BY <1>2, <1>4, <2>2
    <3>2. QED
      BY <1>5, <2>2, <3>1, Numbers
  <2>3. QED
    BY <2>1, <2>2
<1>7. file' \in [Names -> File \cup {None}]
  BY <1>2, <1>4, <1>6
<1>8. stored'.list = stored.list /\ stored'.age = Later(stored.age, Old)
  BY <1>3, <1>4
<1>9. stored' \in [list : Lists \cup {Empty, None}, age : Nat]
  BY <1>3, <1>4, Numbers DEF Later
<1>10. \A l \in Lists : /\ gone'[l] \in Nat /\ gone'[l] <= Far /\ gone'[l] <= gone[l] + 1
                        /\ l >= list => gone'[l] = 0
  BY <1>1, <1>4, Numbers DEF IInv, Gone, Later
<1>11. Typed'
  <2>1. waited' \in [Procs -> 0 .. Flight]
    BY <1>1, <1>4, Numbers
  <2>2. gone' \in [Lists -> Nat]
    BY <1>1, <1>10
  <2>3. QED
    BY <1>1, <1>7, <1>9, <2>1, <2>2 DEF IInv, Typed
<1>12. Gone'
  BY <1>1, <1>10 DEF Gone
<1>13. Answers'
  <2> SUFFICES ASSUME NEW p \in Procs
               PROVE  /\ pc[p] = "idle" => answer[p] = None
                      /\ pc[p] \in Writing => answer[p] # None
                      /\ answer[p] \in Lists => gone'[answer[p]] <= waited'[p]
    BY <1>1 DEF Answers
  <2>1. ASSUME answer[p] \in Lists PROVE gone'[answer[p]] <= waited'[p]
    <3>1. Waits(p)
      BY <1>1, <1>4, <2>1, Numbers DEF IInv, Answers
    <3>2. gone[answer[p]] <= waited[p] /\ waited'[p] = waited[p] + 1
      BY <1>1, <2>1, <3>1 DEF IInv, Answers
    <3>3. waited[p] \in 0 .. Flight /\ gone[answer[p]] \in Nat
      BY <1>4, <2>1
    <3>4. gone'[answer[p]] \in Nat /\ gone'[answer[p]] <= gone[answer[p]] + 1
      BY <1>10, <2>1
    <3>5. QED
      BY <3>2, <3>3, <3>4, Numbers
  <2>2. QED
    BY <2>1 DEF IInv, Answers
<1>14. Young'
  <2>1. ASSUME NEW n \in Names, file[n] # None, NEW l \in Lists,
               gone[l] <= file[n].age + Flight
        PROVE  gone'[l] <= file'[n].age + Flight
    <3>1. file[n].age \in Nat /\ file'[n].age = Later(file[n].age, Old)
      BY <1>4, <1>6, <2>1, FileParts
    <3>2. QED
      BY <1>4, <1>10, <2>1, <3>1, Numbers DEF Later
  <2>2. ASSUME NEW n \in Names, file'[n] # None
        PROVE  /\ file'[n].first # None => gone'[file'[n].first] <= file'[n].age + Flight
               /\ file'[n].rest # None => gone'[file'[n].rest] <= file'[n].age + Flight
    <3>1. /\ file[n] # None /\ file[n] \in File
          /\ file'[n].first = file[n].first /\ file'[n].rest = file[n].rest
      BY <1>4, <1>6, <2>2
    <3>2. file[n].first \in Lists \cup {None} /\ file[n].rest \in Lists \cup {None}
      BY <3>1, FileParts
    <3>3. QED
      BY <2>1, <3>1, <3>2 DEF IInv, Young
  <2>3. QED
    BY <2>2 DEF Young
<1>15. Held' /\ Alone'
  <2>1. \A p \in Procs : pc[p] \notin Busy
    BY <1>1 DEF Busy, Writing
  <2>2. QED
    BY <1>1, <2>1 DEF IInv, Held, Alone
<1>16. Whole' /\ Kept'
  BY <1>6, <1>8 DEF IInv, Whole, Kept, Names
<1>17. QED
  BY <1>11, <1>12, <1>13, <1>14, <1>15, <1>16 DEF IInv

----------------------------------------------------------------------------
(* The invariant. *)

LEMMA InitIInv == Init => IInv
<1> SUFFICES ASSUME Init PROVE IInv
  OBVIOUS
<1>1. /\ list = 1 /\ gone = [l \in Lists |-> 0]
      /\ pc = [p \in Procs |-> "idle"]
      /\ answer = [p \in Procs |-> None] /\ waited = [p \in Procs |-> 0]
      /\ writes = [p \in Procs |-> None]
  BY DEF Init
<1>2. file["cache"] = None /\ file["tmp"] = None /\ file \in [Names -> File \cup {None}]
  BY DEF Init, Names
<1>3. stored.list = None /\ stored \in [list : Lists \cup {Empty, None}, age : Nat]
  BY DEF Init
<1>4. 1 \in Lists
  BY SearchablesAssumption DEF Lists
<1>5. Typed
  BY <1>1, <1>2, <1>3, <1>4, Numbers DEF Typed
<1>6. Gone /\ Answers
  BY <1>1, Numbers DEF Gone, Answers, Writing
<1>7. Young /\ Held /\ Alone /\ Whole /\ Kept
  BY <1>1, <1>2, <1>3 DEF Young, Held, Alone, Whole, Kept, Names
<1>8. QED
  BY <1>5, <1>6, <1>7 DEF IInv

LEMMA StepKeepsIInv == IInv /\ [Next]_vars => IInv'
<1> SUFFICES ASSUME IInv, [Next]_vars PROVE IInv'
  OBVIOUS
<1>1. ASSUME NEW p \in Procs, Step(p) PROVE IInv'
  <2>1. CASE FetchFails(p)
    <3>1. End({p}) /\ UNCHANGED <<list, gone, file, stored>>
      BY <2>1 DEF FetchFails
    <3>2. {p} \in SUBSET Procs
      OBVIOUS
    <3>3. QED
      BY <3>1, <3>2, EndKeeps
  <2>2. CASE WriteFails(p)
    <3>1. End({p}) /\ UNCHANGED <<list, gone, file, stored>>
      BY <2>2 DEF WriteFails
    <3>2. {p} \in SUBSET Procs
      OBVIOUS
    <3>3. QED
      BY <3>1, <3>2, EndKeeps
  <2>3. CASE WritePart(p, "first", "rest") \/ WritePart(p, "rest", "replace")
    BY <2>3, WriteKeeps
  <2>4. QED
    BY <1>1, <2>1, <2>2, <2>3, AskKeeps, ComputeKeeps, ArriveKeeps, OpenKeeps, ReplaceKeeps
       DEF Step
<1>2. ASSUME NEW P \in SUBSET Procs, Crash(P) PROVE IInv'
  BY <1>2, EndKeeps DEF Crash
<1>3. Homes \in SUBSET Procs /\ \A p \in Syncs : {p} \in SUBSET Procs
  BY DEF Procs
<1>4. CASE UNCHANGED vars
  BY <1>4 DEF vars, fetching, files, IInv, Typed, Gone, Answers, Young, Held, Alone, Whole, Kept
<1>5. QED
  BY <1>1, <1>2, <1>3, <1>4, ChangeKeeps, TickKeeps DEF Next

----------------------------------------------------------------------------
(* Theorems. *)

THEOREM CacheInvariant == Spec => []IInv
<1>1. QED
  BY InitIInv, StepKeepsIInv, PTL DEF Spec

\* What the cache gives is a whole answer unless two processes wrote at once.
THEOREM CacheIsWhole == Spec => []CacheWhole
<1>1. IInv => CacheWhole
  BY DEF IInv, Whole, CacheWhole, Usable, Torn
<1>2. QED
  BY <1>1, CacheInvariant, PTL

\* No list is given from the cache for longer than the maximal age and the time an
\* answer takes.
THEOREM CacheIsNeverTooOld == Spec => []NeverTooOld
<1>1. IInv => NeverTooOld
  <2> SUFFICES ASSUME IInv, MaxAge # None, Usable,
                      NEW l \in {file["cache"].first, file["cache"].rest} \ {None}
               PROVE  gone[l] <= MaxAge + Flight
    BY DEF NeverTooOld
  <2>1. file["cache"] \in File /\ file["cache"] # None /\ gone \in [Lists -> Nat]
    BY DEF IInv, Typed, Names, Usable
  <2>2. l \in Lists /\ file["cache"].age \in Nat
    BY <2>1, FileParts
  <2>3. gone[l] <= file["cache"].age + Flight
    BY <2>1 DEF IInv, Young, Names
  <2>4. file["cache"].age <= MaxAge
    BY DEF Usable, Fresh
  <2>5. gone[l] \in Nat
    BY <2>1, <2>2
  <2>6. QED
    BY <2>2, <2>3, <2>4, <2>5, Numbers
<1>2. QED
  BY <1>1, CacheInvariant, PTL

\* Once a list has been stored, home pages do without RegTAP until it is too old.
THEOREM CacheDoesServe == Spec => CacheServes
<1> DEFINE Serves(p) == pc[p] = "idle" /\ pc'[p] = "fetch" =>
                          \/ stored.list \in {None, Empty}
                          \/ MaxAge # None /\ stored.age > MaxAge
                          \/ file["cache"].shared
<1>1. IInv /\ [Next]_vars => [\A p \in Homes : Serves(p)]_vars
  <2> SUFFICES ASSUME IInv, Next, NEW p \in Homes, pc[p] = "idle", pc'[p] = "fetch"
               PROVE  \/ stored.list \in {None, Empty}
                      \/ MaxAge # None /\ stored.age > MaxAge
                      \/ file["cache"].shared
    OBVIOUS
  <2>1. pc \in [Procs -> {"idle", "fetch"} \cup Writing] /\ p \in Procs
    BY DEF IInv, Typed, Procs
  <2>2. ASSUME NEW P \in SUBSET Procs, End(P) PROVE FALSE
    BY <2>1, <2>2 DEF End
  <2>3. ASSUME NEW q \in Procs, Step(q), ~(q = p /\ Ask(q)) PROVE FALSE
    <3>1. CASE FetchFails(q) \/ WriteFails(q)
      <4>1. End({q}) /\ {q} \in SUBSET Procs
        BY <3>1 DEF FetchFails, WriteFails
      <4>2. QED
        BY <2>2, <4>1
    <3>2. CASE Ask(q) /\ q # p
      BY <2>1, <3>2 DEF Ask
    <3>3. CASE Compute(q)
      BY <3>3 DEF Compute
    <3>4. CASE Arrive(q)
      BY <2>1, <3>4 DEF Arrive
    <3>5. CASE Open(q)
      BY <2>1, <3>5 DEF Open, OpenAs
    <3>6. CASE WritePart(q, "first", "rest") \/ WritePart(q, "rest", "replace")
      BY <2>1, <3>6 DEF WritePart
    <3>7. CASE Replace(q)
      BY <2>1, <3>7 DEF Replace
    <3>8. QED
      BY <2>3, <3>1, <3>2, <3>3, <3>4, <3>5, <3>6, <3>7 DEF Step
  <2>4. ~(Change \/ Tick)
    BY DEF Change, Tick
  <2>5. ~Crash(Homes) /\ \A q \in Syncs : ~Crash({q})
    <3>1. Homes \in SUBSET Procs /\ \A q \in Syncs : {q} \in SUBSET Procs
      BY DEF Procs
    <3>2. QED
      BY <2>2, <3>1 DEF Crash
  <2>6. Ask(p)
    BY <2>3, <2>4, <2>5 DEF Next
  <2>7. ~Usable
    BY <2>6 DEF Ask
  <2>8. SUFFICES ASSUME stored.list \notin {None, Empty}, ~file["cache"].shared
                 PROVE  MaxAge # None /\ stored.age > MaxAge
    OBVIOUS
  <2>9. /\ file["cache"] # None /\ file["cache"].first = stored.list
        /\ file["cache"].age = stored.age
    BY <2>8 DEF IInv, Kept, Text
  <2>10. ~Fresh
    BY <2>7, <2>8, <2>9 DEF Usable
  <2>11. MaxAge # None /\ ~(stored.age <= MaxAge)
    BY <2>9, <2>10 DEF Fresh
  <2>12. stored.age \in Nat /\ MaxAge \in Nat
    BY <2>11, Numbers DEF IInv, Typed
  <2>13. QED
    BY <2>11, <2>12
<1>2. CacheServes <=> [][\A p \in Homes : Serves(p)]_vars
  BY DEF CacheServes
<1>3. QED
  BY <1>1, <1>2, CacheInvariant, PTL DEF Spec
=============================================================================
