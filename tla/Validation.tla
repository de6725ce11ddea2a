----------------------------- MODULE Validation -----------------------------
(***************************************************************************)
(* One validation of a registry, from the first probe to the verdict: the  *)
(* probes of phase 1, the four queries of phase 2, the harvest and check   *)
(* of the records, the merging and counting of the results, and the rules  *)
(* for registration (oai/phase1.py, oai/phase2.py, oai/phase3.py,          *)
(* service/harvest_runner.py, http/validation_report.py,                   *)
(* registry/registration_policy.py).                                       *)
(*                                                                         *)
(* The registry is the environment.  Of its answers only their worth is    *)
(* kept; what the style sheets and schemas find is in it.                  *)
(***************************************************************************)
EXTENDS RecordHarvest

CONSTANTS
  Probes,      \* how many cases phase 1 has
  Shows,       \* values of show_status, each a set of statuses
  Comply,      \* a comply binary is configured
  MaxReported, \* bound on the queries of each status in its report
  RequireSchemas, MaxFailures, MaxWarnings   \* settings for registration

ASSUME ValidationAssumption ==
  /\ Probes \in Nat \ {0} /\ Shows \subseteq SUBSET {"fail", "warn", "rec", "pass"}
  /\ MaxReported \in Nat
  /\ {Comply, RequireSchemas} \subseteq BOOLEAN /\ {MaxFailures, MaxWarnings} \subseteq Nat

VARIABLES
  kind,        \* "whole", or the single phase that was asked for
  builtin,     \* the bundled schemas are used
  show,        \* the statuses of tests that phase 2 reports
  phase,       \* "oai", "ivoa", "vor", "over" or "raised"
  due,         \* how many queries the report of phase 1 has in the end
  asked,       \* the queries of the phase so far
  counts,      \* the queries of the report by their status
  flawed       \* an answer or a record was not as it has to be

verdict == <<due, counts, flawed>>
setting == <<kind, builtin, show>>
vars == <<harvest, setting, phase, asked, verdict>>

Kinds == {"whole", "oai", "ivoa", "vor"}
Statuses == {"fail", "warn", "pass"}

\* IVOA_CHECKS
Checks == <<"Identify", "ListMetadataFormats", "ListSets", "ListRecords">>

----------------------------------------------------------------------------
(* The report. *)

\* The status of a query with tests of these statuses.
QueryStatus(tests) ==
  IF "fail" \in tests THEN "fail" ELSE IF "warn" \in tests THEN "warn" ELSE "pass"

\* A report with one more query.
Counted(c, tests) == [c EXCEPT ![QueryStatus(tests)] = @ + 1]

Queries(c) == c["fail"] + c["warn"] + c["pass"]

Total == Queries(counts)

\* Only an execution of all phases goes on.
PhaseAfter(p) ==
  /\ phase' = IF kind # "whole" THEN "over" ELSE p
  /\ asked' = 0

----------------------------------------------------------------------------
(* Phase 1. *)

\* What an answer can be: an HTTP error, not XML, not as the schemas say, with
\* a test that fails or warns, or right.
ProbeTests(answer) == IF answer = "right" THEN {"pass"} ELSE {"fail"}

\* Every case gets its query, whatever became of those before.
Probe(answer) ==
  /\ phase = "oai"
  /\ counts' = Counted(counts, ProbeTests(answer))
  /\ flawed' = (flawed \/ answer # "right")
  /\ IF asked + 1 < Probes THEN asked' = asked + 1 /\ UNCHANGED phase ELSE PhaseAfter("ivoa")
  /\ UNCHANGED <<harvest, setting, due>>

\* The report of a comply binary is taken as it is, whatever queries it has, none
\* perhaps; without one that can be used, the cases are probed.
ComplyReports(reported) ==
  /\ Comply /\ phase = "oai" /\ asked = 0
  /\ due' = Queries(reported)
  /\ counts' = [s \in Statuses |-> counts[s] + reported[s]]
  /\ flawed' = (flawed \/ reported["fail"] > 0)
  /\ PhaseAfter("ivoa")
  /\ UNCHANGED <<harvest, setting>>

----------------------------------------------------------------------------
(* Phase 2. *)

\* The tests that the style sheet finds for an answer; it writes those whose status
\* is shown.
Truth(answer) ==
  CASE answer = "fails" -> {"fail", "warn", "pass"}
    [] answer = "warns" -> {"warn", "pass"}
    [] OTHER -> {"pass"}

\* Mutant: an answer that violates the schema goes on to the style sheet.
CheckTestsLax(answer) ==
  IF answer \in {"http error", "no xml"} THEN {"fail"} ELSE Truth(answer) \cap show

CheckTests(answer) ==
  IF answer \in {"http error", "no xml"} \/ (answer = "invalid" /\ builtin)
  THEN {"fail"}
  ELSE Truth(answer) \cap show

\* A query of phase 2.  Whom an answer to Identify names as the registry counts
\* for nothing here; HarvestJob has it.
Check(answer) ==
  /\ phase = "ivoa"
  /\ counts' = Counted(counts, CheckTests(answer))
  /\ flawed' = (flawed \/ answer \notin {"right", "warns"})
  /\ IF asked + 1 < Len(Checks)
     THEN asked' = asked + 1 /\ UNCHANGED phase
     ELSE PhaseAfter("vor")
  /\ UNCHANGED <<harvest, setting, due>>

----------------------------------------------------------------------------
(* Phase 3. *)

StartHarvest ==
  phase = "vor" /\ BeginHarvest /\ UNCHANGED <<setting, phase, asked, verdict>>

ReadPage ==
  phase = "vor" /\ Answer /\ UNCHANGED <<setting, phase, asked, verdict>>

\* Mutant: failures of the harvest are not appended.
HarvestFailuresNever == 0

\* validate_vor_only drops the failures.
HarvestFailures == IF kind = "whole" THEN Len(failures) ELSE 0

\* Every record is checked, and the failures are appended; the reports of the
\* phases are merged.
CheckRecords(bad) ==
  /\ phase = "vor" /\ harvesting = "over"
  /\ counts' = [counts EXCEPT !["fail"] = @ + bad + HarvestFailures,
                              !["pass"] = @ + (Size(collected) - bad)]
  /\ flawed' = (flawed \/ bad > 0 \/ failures # <<>>)
  /\ phase' = "over" /\ asked' = 0
  /\ UNCHANGED <<harvest, setting, due>>

\* A request fails or times out, the comply binary times out, or a style sheet is
\* missing.
Raises ==
  /\ phase \in {"oai", "ivoa"} \/ (phase = "vor" /\ harvesting # "no")
  /\ phase' = "raised"
  /\ UNCHANGED <<harvest, setting, asked, verdict>>

----------------------------------------------------------------------------

Init ==
  /\ kind \in Kinds /\ builtin \in BOOLEAN /\ show \in Shows
  /\ phase = IF kind = "whole" THEN "oai" ELSE kind
  /\ due = Probes /\ asked = 0
  /\ counts = [s \in Statuses |-> 0] /\ flawed = FALSE
  /\ list = <<>> /\ cap = 0 /\ token = 0 /\ read = 0
  /\ collected = <<>> /\ failures = <<>> /\ strayed = FALSE /\ harvesting = "no"

Step ==
  \/ \E answer \in {"http error", "no xml", "fails", "right"} : Probe(answer)
  \/ \E reported \in [Statuses -> 0..MaxReported] : ComplyReports(reported)
  \/ \E answer \in {"http error", "no xml", "invalid", "fails", "warns", "right"} :
       Check(answer)
  \/ StartHarvest \/ ReadPage
  \/ \E bad \in 0..Size(collected) : CheckRecords(bad)
  \/ Raises

Ended == phase \in {"over", "raised"} /\ UNCHANGED vars

Next == Step \/ Ended

Spec == Init /\ [][Next]_vars

\* Every request is answered or times out.
FairSpec == Spec /\ WF_vars(Step)

----------------------------------------------------------------------------
(* The verdict. *)

\* Only a whole validation leaves a merged report.
Merged == kind = "whole" /\ phase = "over"

\* eligible_for_registration
Eligible ==
  /\ Merged
  /\ RequireSchemas => builtin
  /\ counts["fail"] <= MaxFailures /\ counts["warn"] <= MaxWarnings

----------------------------------------------------------------------------
(* Properties. *)

TypeOK ==
  /\ HarvestTypeOK
  /\ kind \in Kinds /\ builtin \in BOOLEAN /\ show \in Shows
  /\ phase \in {"oai", "ivoa", "vor", "over", "raised"}
  /\ due \in Nat /\ asked \in Nat
  /\ phase = "oai" => asked < Probes
  /\ phase \in {"ivoa", "vor", "over"} => asked < Len(Checks)
  /\ counts \in [Statuses -> Nat] /\ flawed \in BOOLEAN

\* A registry may be registered only if every probe, every query and every record
\* was as it has to be and its list was read to the end or to the cap ("zero
\* failures, built-in XSD schemas enabled", README).  Runs that do not show
\* failed tests and answers that are no OAI-PMH are the exceptions the code makes.
EligibleMeansConforming ==
  Eligible /\ "fail" \in show =>
    ~flawed /\ (strayed \/ read = Len(list) \/ Full(collected))

\* A merged report counts every query of phase 1, probed or reported by a comply
\* binary, every query of phase 2, every record that was kept and every failure of
\* the harvest just once, whatever failed on the way and however the binary counts;
\* no failure of the harvest hides behind the others.
EveryQueryCounted ==
  Merged =>
    /\ Total = due + Len(Checks) + Size(collected) + Len(failures)
    /\ ~Comply => due = Probes
    /\ counts["fail"] >= Len(failures)

\* A validation of a registry whose pages all get on with its list comes to an end.
ValidationEnds == <>(phase \in {"over", "raised"})
=============================================================================
