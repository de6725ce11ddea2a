----------------------------- MODULE Searchables -----------------------------
(***************************************************************************)
(* The cache of the full searchable registries (searchables_regtap.py): one *)
(* CSV file with the answer of RegTAP, which the home page reads while it   *)
(* is young enough and renews when it is not, and which the command         *)
(* `benson sync-searchables` renews from a process of its own.              *)
(*                                                                         *)
(* The home pages are coroutines of one process: they give way to each     *)
(* other only while they wait for RegTAP.  The command is another process, *)
(* and every step of its writing may come between any two of theirs.  A    *)
(* text is written in two parts, the header with the first rows and the    *)
(* rest, to a temporary file that both processes know by the same name.    *)
(* Ages are counted in ticks and no further than the properties look;      *)
(* writing a file takes less than a tick.                                   *)
(***************************************************************************)
EXTENDS Integers

CONSTANTS
  Homes,      \* requests of the home page, coroutines of the server
  Syncs,      \* runs of benson sync-searchables, a process each
  MaxAge,     \* SEARCHABLES_CACHE_MAX_AGE_SEC in ticks, None when unset
  Flight,     \* how long an answer of RegTAP takes to arrive at most
  MaxLists,   \* bound: the list in the registries changes MaxLists - 1 times
  None

Procs == Homes \cup Syncs
Lists == 1 .. MaxLists
Empty == 0                         \* an answer without a single byte
Old == IF MaxAge = None THEN 0 ELSE MaxAge + 1     \* ages told apart
Far == Old + Flight

(* A file: the lists that its two parts are of, its age, whether another     *)
(* process wrote at the time it was opened.                                  *)
File == [first : Lists \cup {None}, rest : Lists \cup {None}, age : Nat, shared : BOOLEAN]

ASSUME SearchablesAssumption ==
  /\ Homes \cap Syncs = {} /\ Flight \in Nat /\ MaxLists \in Nat \ {0}
  /\ MaxAge \in Nat \cup {None}
  /\ None \notin Nat /\ None \notin {"cache", "tmp"} /\ None \notin File

VARIABLES
  list,     \* the list the registries hold now
  gone,     \* list |-> ticks since it was replaced by the next one
  pc,       \* process |-> where it stands
  answer,   \* process |-> what RegTAP computed for it, None before
  waited,   \* process |-> ticks since that was computed
  file,     \* "cache", "tmp" |-> the file of that name, None when there is none
  writes,   \* process |-> the name its open file has now, None when it has lost it
  stored    \* the last text a process stored: its list and ticks since then

vars == <<list, gone, pc, answer, waited, file, writes, stored>>
fetching == <<answer, waited>>
files == <<file, writes, stored>>

Writing == {"open", "first", "rest", "replace"}

Opened(together) == [first |-> None, rest |-> None, age |-> 0, shared |-> together]
Later(n, most) == IF n < most THEN n + 1 ELSE n

-----------------------------------------------------------------------------
(* The event loop runs one home page until it waits for RegTAP. *)
Runs(p) == p \in Homes => \A q \in Homes \ {p} : pc[q] \notin Writing

FreshBelow == MaxAge = None \/ file["cache"].age < MaxAge
FreshAlways == TRUE
Fresh == MaxAge = None \/ file["cache"].age <= MaxAge

(* What _read_cache_if_usable takes for the list: an empty file is none. *)
Usable ==
  /\ file["cache"] # None
  /\ file["cache"].first # None \/ file["cache"].rest # None
  /\ Fresh

(* A home page loads the list and finds it in the cache, or asks RegTAP.    *)
(* The command asks without a look at the cache.                            *)
Ask(p) ==
  /\ pc[p] = "idle" /\ Runs(p)
  /\ p \in Homes => ~Usable
  /\ pc' = [pc EXCEPT ![p] = "fetch"]
  /\ UNCHANGED <<list, gone, fetching, files>>

(* RegTAP computes an answer: the list, or nothing at all. *)
Compute(p) ==
  /\ pc[p] = "fetch" /\ answer[p] = None
  /\ \E text \in {list, Empty} : answer' = [answer EXCEPT ![p] = text]
  /\ UNCHANGED <<list, gone, pc, waited, files>>

Arrive(p) ==
  /\ pc[p] = "fetch" /\ answer[p] # None /\ Runs(p)
  /\ pc' = [pc EXCEPT ![p] = "open"]
  /\ UNCHANGED <<list, gone, fetching, files>>

(* The processes of P end their load: what they held is gone. *)
End(P) ==
  /\ pc' = [p \in Procs |-> IF p \in P THEN "idle" ELSE pc[p]]
  /\ answer' = [p \in Procs |-> IF p \in P THEN None ELSE answer[p]]
  /\ waited' = [p \in Procs |-> IF p \in P THEN 0 ELSE waited[p]]
  /\ writes' = [p \in Procs |-> IF p \in P THEN None ELSE writes[p]]

(* A timeout, a failing connection or an answer that is an error: nothing   *)
(* is written, the page tells of the failure, the command ends with it.     *)
FetchFails(p) ==
  /\ pc[p] = "fetch" /\ Runs(p)
  /\ End({p})
  /\ UNCHANGED <<list, gone, file, stored>>

-----------------------------------------------------------------------------
(* write_searchables_cache, one call of the operating system at a time.    *)
Disturbed(p) == \E q \in Procs \ {p} : pc[q] \in Writing \ {"open"}

OpenAs(p, name) ==
  /\ pc[p] = "open"
  /\ file' = [file EXCEPT ![name] = Opened(Disturbed(p))]
  /\ writes' = [writes EXCEPT ![p] = name]
  /\ pc' = [pc EXCEPT ![p] = "first"]
  /\ UNCHANGED <<list, gone, fetching, stored>>

OpenCache(p) == OpenAs(p, "cache")

(* The temporary file is opened for writing: one that is there is emptied, *)
(* and who writes it goes on writing it.                                    *)
Open(p) == OpenAs(p, "tmp")

(* An empty answer writes nothing; a file without a name is nobody's.      *)
WritePart(p, part, then) ==
  /\ pc[p] = part
  /\ file' = IF answer[p] = Empty \/ writes[p] = None THEN file
             ELSE [file EXCEPT ![writes[p]] =
                     [@ EXCEPT ![part] = answer[p], !.age = 0]]
  /\ pc' = [pc EXCEPT ![p] = then]
  /\ UNCHANGED <<list, gone, fetching, writes, stored>>

(* os.replace: whatever bears the name of the temporary file gets that of   *)
(* the cache, its writers with it; without such a file it fails.            *)
Replace(p) ==
  /\ pc[p] = "replace"
  /\ pc' = [pc EXCEPT ![p] = "idle"]
  /\ answer' = [answer EXCEPT ![p] = None] /\ waited' = [waited EXCEPT ![p] = 0]
  /\ IF file["tmp"] # None
     THEN /\ file' = [cache |-> file["tmp"], tmp |-> None]
          /\ writes' = [q \in Procs |-> IF q # p /\ writes[q] = "tmp"
                                        THEN "cache" ELSE None]
          /\ stored' = [list |-> answer[p], age |-> 0]
     ELSE /\ writes' = [writes EXCEPT ![p] = None]
          /\ UNCHANGED <<file, stored>>
  /\ UNCHANGED <<list, gone>>

(* An OSError of any call is logged: the answer is shown all the same.     *)
WriteFails(p) ==
  /\ pc[p] \in Writing
  /\ End({p})
  /\ UNCHANGED <<list, gone, file, stored>>

(* The server or a run of the command ends wherever it stands. *)
Crash(P) ==
  /\ \E p \in P : pc[p] # "idle"
  /\ End(P)
  /\ UNCHANGED <<list, gone, file, stored>>

-----------------------------------------------------------------------------
Change ==
  /\ list < MaxLists
  /\ list' = list + 1
  /\ UNCHANGED <<gone, pc, fetching, files>>

Tick ==
  /\ \A p \in Procs : /\ pc[p] \notin Writing
                      /\ pc[p] = "fetch" /\ answer[p] # None => waited[p] < Flight
  /\ gone' = [l \in Lists |-> IF l < list THEN Later(gone[l], Far) ELSE 0]
  /\ waited' = [p \in Procs |-> IF pc[p] = "fetch" /\ answer[p] # None
                                THEN waited[p] + 1 ELSE 0]
  /\ file' = [n \in DOMAIN file |-> IF file[n] = None THEN None
                                   ELSE [file[n] EXCEPT !.age = Later(@, Old)]]
  /\ stored' = [stored EXCEPT !.age = Later(@, Old)]
  /\ UNCHANGED <<list, pc, answer, writes>>

Init ==
  /\ list = 1 /\ gone = [l \in Lists |-> 0]
  /\ pc = [p \in Procs |-> "idle"]
  /\ answer = [p \in Procs |-> None] /\ waited = [p \in Procs |-> 0]
  /\ file = [cache |-> None, tmp |-> None]
  /\ writes = [p \in Procs |-> None]
  /\ stored = [list |-> None, age |-> 0]

Step(p) ==
  \/ Ask(p) \/ Compute(p) \/ Arrive(p) \/ FetchFails(p)
  \/ Open(p) \/ WritePart(p, "first", "rest") \/ WritePart(p, "rest", "replace")
  \/ Replace(p) \/ WriteFails(p)

Next ==
  \/ \E p \in Procs : Step(p)
  \/ Crash(Homes) \/ \E p \in Syncs : Crash({p})
  \/ Change \/ Tick

Spec == Init /\ [][Next]_vars

-----------------------------------------------------------------------------
(* The answer the cache gives mixes or cuts what RegTAP answered. *)
Torn(f) == f.first # f.rest

(* What the cache gives for the list is a whole answer of RegTAP, whatever *)
(* crashes or fails while it is written, unless two processes wrote at the *)
(* same time (write_searchables_cache).                                     *)
CacheWhole == Usable /\ Torn(file["cache"]) => file["cache"].shared

(* With a maximal age, a list is given from the cache for no longer than   *)
(* that age and the time an answer may take after the registries replaced *)
(* it by another: a late answer that overwrites a newer one, and a failing *)
(* RegTAP, do not prolong it (_cache_is_fresh, load_searchables).          *)
NeverTooOld ==
  MaxAge # None /\ Usable =>
    \A l \in {file["cache"].first, file["cache"].rest} \ {None} :
      gone[l] <= MaxAge + Flight

(* Once a list has been stored, home pages do without RegTAP until it is   *)
(* too old (README.md:195): failing and dying writers leave it usable,      *)
(* unless two processes wrote at the same time: one may then move a file    *)
(* into place that the other has just emptied.                              *)
CacheServes ==
  [][\A p \in Homes :
       pc[p] = "idle" /\ pc'[p] = "fetch" =>
         \/ stored.list \in {None, Empty}
         \/ MaxAge # None /\ stored.age > MaxAge
         \/ file["cache"].shared]_vars
=============================================================================
