# Formal model of benson, the service behind the Registry of Registries (RofR)

benson lists the publishing registries of the Virtual Observatory, validates a
registry that asks to be listed, and serves its own registry of standards over
OAI-PMH.  This directory holds TLA+ modules of the parts whose behaviour depends
on the order of events, TLC configurations that check them on small instances,
and theorems that TLAPS proves for every instance.  Paths below are relative to
the repository; Python paths are relative to `src/benson/`.

## 1. The system

### 1.1 Components, their state and operations

| Component | Code | State | Operations |
|---|---|---|---|
| Publisher store | `registry/publishers_store.py` | `publishers.json` and its temporary file; an asyncio lock per path, in one process | `load`, `find_by_identifier`, `find_by_endpoint`, `ensure_seed`, `upsert`, `annotate_checks` |
| Registration | `registry/registration.py`, `registration_policy.py` | none of its own: reads a run, writes the store | `register_publisher` (new listing or update), `eligibility_payload`, `eligible_for_registration` |
| check-publishers | `registry/publishers_check.py`, `main.py` | none; a program of its own, run by cron | load the listings, probe each one, annotate the rows |
| Harvest run | `session/store.py` | results of the phases, identity, report, status rows, `background_task`, `canceled`, `validation_error`, `cache` | created by the first request, never dropped |
| Validation job | `service/validation_job.py`, `service/harvest_runner.py` | the task of a run | spawn, three phases, error, cancellation; `job_state` |
| Harvest API | `http/harvest.py` | none | `op=` StartSession, Validate, ValidateOAI / IVOA / VOR, GetStatus, GetResource, Register, Cancel |
| Validator pages and job API | `http/validator.py` | none | create a job, its status, result, eligibility and registration |
| Page that watches a job | `assets/static/js/validator-watch.js` | timer, run id, panel | poll, render, offer registration |
| OAI-PMH server | `oai/server.py`, `oai/resumption.py`, `oai/dates.py`, `registry/standards_store.py` | index of the standards' files, reloaded when they change; the tokens hold the state of a list | the six verbs, paging, date filters |
| Harvester of phase 3 | `oai/phase3.py`, `oai/client.py`, `oai/xmlutil.py` | collected records, failures, token | list request, next page, end |
| Checks of phases 1, 2 and 3 | `oai/phase1.py`, `oai/phase1_tests_data.py`, `oai/phase2.py`, `oai/phase3.py` | reports of the phases, counts | fixed queries, accepted error codes, style sheets and schemas, identity of the registry, merging |
| Searchables cache | `service/searchables_regtap.py` | a CSV file with its age | read if fresh, else query RegTAP and write |
| Lists and home page | `service/rofr_lists.py`, `http/home.py`, `http/publishers.py` | none | merge and render |
| Reports, XML tools, own record, configuration | `http/validation_report.py`, `xml/`, `registry/registry_self.py`, `config.py`, `app.py` | none | pure transformations, wiring |

### 1.2 How they interact

* A registry's administrator starts a **validation job**: a request creates a
  **harvest run** and an asyncio task (the *worker*).  The worker runs phase 1,
  phase 2 and phase 3 against the registry, awaiting only its HTTP answers, and
  stores results in the run as it goes.  Requests for the same run (status, another
  validation, a single phase, cancel) come in between.
* The page polls the job's status until `job_state` says that it is done, fetches
  the result, and asks whether the run is **eligible** for registration.
* **Registration** reads the run's report and identity and writes the
  **publisher store**.
* **check-publishers** is another process on the same volume.  It reads the same
  file, probes every listing for seconds to minutes, and writes the file back.
* The home page and the lists read the store; other registries harvest the
  **OAI-PMH server**, and benson validates it like any other registry.
* Home pages, and the command `benson sync-searchables` in a process of its own,
  read and renew the **searchables cache**.

### 1.3 What is hard here

* *Several processes, one file.*  The lock that makes a read-modify-write of
  `publishers.json` atomic lives in one process.  Two programs also share one name
  for the temporary file, and either may be killed between two system calls.
* *Results that are old when they are stored*: the results of a check are written
  minutes after its listings were read.
* *One run, several executions*: background workers, validations within a request
  and single phases write the same fields of a run, each at its own awaits.
* *Cancellation*: a task may be cancelled before its first step, in a phase, or
  after its end, and its handlers run in the first case not at all.
* *Flags that are never reset*: `validation_error`, `canceled`, `cache`.
* *Paging over a list that changes*, and a client that follows any registry's tokens.
* *Answers that come late*: the page polls on a timer without waiting, and each poll
  is a chain of requests whose answers meet those of other chains; RegTAP may take a
  minute, in which another process has asked and stored a newer answer.
* *Two programs for one protocol*: phase 1 and the OAI-PMH server were written
  independently, and the one must accept the other.
* *Failures that must not be lost* on their way from a probe, a page of the harvest or
  a record through reports and counts to the decision on registration.

Within the service there is no preemption: between two awaits a coroutine runs
undisturbed, and no critical section of the store contains an await that can
suspend.  This is why the service is one process in `PublisherFile` and why a step
of `HarvestJob` goes from one answer of the registry to the next.

### 1.4 What makes each component correct

* Store: every reader finds a whole document; no accepted registration is lost;
  an endpoint has one owner, however it is spelled; a listing keeps `registered_at`;
  a check changes nothing but the fields of the check and replaces no newer result
  (beside check-publishers much of this fails, 3.4).
* Run and job: one worker at a time; each worker ends and is reported once; the
  report and the identity that registration uses come from the same validation;
  `complete` means there is a report; a job that is done stays done.  Its state, steps and
  percentage fit what happened and do not go back.
* Validation: what is harvested depends on the registry's list and not on its pages;
  no record and no failure gets lost; only a registry that conforms may be registered.
* Registration: only a run with a clean report becomes a listing; what is offered is
  listed when it is submitted (which fails for a new identifier, 3.4).
* Page: the form that is shown is about the run that will be registered, and the page
  does not stay busy with a job that is over.
* Server: a list is delivered completely and once, to its end, and phase 1 accepts
  every answer.
* Cache: the list it gives is whole and not too old, and RegTAP is asked no more often
  than that needs.  (An older answer may overwrite a newer one until the file has its
  maximal age, and two processes that write at once may store a cut file, 3.4.)

## 2. Modules

| Module | Models | Kind |
|---|---|---|
| `Catalogue` | what registration promises about listings | abstract specification |
| `PublisherFile` | store, registration and check-publishers, down to open, write and rename | detailed; implements `Catalogue` |
| `Job` | what a job promises to those who watch it | abstract specification |
| `HarvestJob` | one run with its executions and requests | detailed; implements `Job` |
| `JobProgress` | the steps and the percentage that the status shows; extends `HarvestJob` | operators and properties |
| `OaiList` | the lists of the OAI-PMH server and a client that follows their tokens | detailed |
| `Phase1` | the probes of phase 1 and the judgement of error codes | operators |
| `OaiVerbs` | the server's error codes for those probes; extends `OaiList` and `Phase1` | operators and a property |
| `RecordHarvest` | the harvest of phase 3 | detailed |
| `Validation` | a validation from the first probe to the verdict; extends `RecordHarvest` | composition |
| `Registration` | the offer and the submission as decisions; extends `Catalogue` | operators |
| `WatchPage` | the page that watches jobs, with the job API; extends `Registration` | composition |
| `Searchables` | the cache of searchable registries | detailed |
| `CatalogueProofs`, `PublisherFileProofs`, `HarvestJobProofs`, `WatchPageProofs`, `SearchablesProofs` | theorems about the module they are named for | proofs |
| `JobProgressProofs` | theorems about `JobProgress`; extends `HarvestJobProofs` | proofs |
| `OaiListProofs` | theorems about `OaiList` and `OaiVerbs` | proofs |
| `ValidationProofs` | theorems about `RecordHarvest` and `Validation` | proofs |
| `MC...` | values for TLC | instances |

### 2.1 Catalogue

`catalogue` maps an identifier to `[url, since]`.  `Register` and `Update` are
`_register_new` and `_update_existing` as the caller of an atomic store would see
them.  Endpoints are compared by `Norm` (`normalize_endpoint`).

### 2.2 PublisherFile

| Code | Model |
|---|---|
| `publishers.json`, `publishers.json.tmp` | `main`, `tmp`: what the names refer to, an element of `Inodes` or `NoFile`; `content` of each file |
| the service's request | `BeginRegister`, `EnsureSeed`, `FindIdentifier`, `FindEndpoint`, `Upsert`: the store's four critical sections, each of which reads the file anew |
| `check_publishers`, `--dry-run` | `LoadListings`; `CheckEnds` when a probe raises or nothing is to be written, else `AnnotateChecks`, which chooses what the probes have found |
| `_write_document_unlocked` | `OpenTemporary` (truncates or creates), `WriteTemporary`, `ReplaceMain` |
| kill | `Crash`, at any label; a write may be cut short |
| `datetime.now` | `clock`, `Tick` |

A row holds the endpoint, `registered_at`, `last_checked_at` and `check_detail`.
A detail that reports drift holds the live URL it names.  Rows are a function from
identifiers, so a hand-made file with two rows of one identifier is outside the
model; so are rows whose `oai_harvest_url` is null.  Titles, `check_status` (a
function of the detail and the probe) and `updated_at` are left out.  The
identifiers of a model are those that compare equal, as `_normalize_identifier` has
it.  A file that is renamed away keeps its content as long as a process has it
open, which is how a late write reaches `publishers.json`.

`Overlap` is an assumption on the deployment, not on the code:

* `"sections"`: programs overlap, but no read-modify-write starts within another's;
* `"any"`: nothing is assumed.  This is what `README.md` describes (check-publishers from
  cron, beside the running service).

### 2.3 HarvestJob

| Code | Model |
|---|---|
| `HarvestRun` fields | variables of the same meaning; a result is the number of the execution it comes from |
| `worker()` | executions of kind `worker`: `WorkerStart`, `OaiDone`, `IvoaDone`, `VorDone`, `Raise`, `CancelDelivered` |
| `execute_harvest_validation` within a request | kind `whole`, the same phases |
| `op=ValidateOAI` and so on | kinds `oai`, `ivoa`, `vor`: one phase |
| `spawn_harvest_validation` | `Spawn`, with its guard on a task that is not done |
| `op=Cancel` | `Cancel`; the task ends at its next step (`GoesOn`) |
| `job_state`, `status_payload` | `JobState`, `Done` |
| `eligible_for_registration` | `Eligible`; the counts of the report and the use of built-in schemas are `merged.ok` |

An HTTP answer is an input: a phase ends with a result or with an exception, whose
text is a member of `Messages`.  `Blank` is the empty text, which `str(exc)` yields
for the timeouts of httpx.  A phase is one step, which in phase 3 stands for a loop that
may never end (3.3); `RecordHarvest` has its pages.  `op=StartSession`, `GetStatus`, `GetResource` and
`ValidateResource` change nothing in the run.

`Job` is the contract: a state and whether there is a report, with the moves between
them.  `HarvestJob` implements it with `JobState` for the state.  A job that failed or
was cancelled may still get a report (`ReportsLate`): an execution within a request
does not look at `canceled` or `validation_error`.

`JobProgress` computes `phase_step_states` and `progress_percent` from `rows`.  The
code rounds `100 * units / 3` with `int`; `Percent` does so in integers, an active
phase counting 45 hundredths of a third.

### 2.4 OaiList

| Code | Model |
|---|---|
| standards' files, `all_records` | `files`; records are numbered in the order of the list, the first `Synthetic` of them are benson's own and never change |
| `_filter_records`, `record_in_range` | `Matching`, `InRange`: a deleted record matches whatever the dates |
| `validate_from_until` and the other arguments | `BadDates`, `Faults`: error codes are folded into "refused" |
| `_paginate` | `Page`, `NextCursor`; the place of a record is `Rank`, the number of matching records before it |
| `ResumptionState` in a token | `request` and `token`: the server itself keeps nothing |
| a list request, one with a token | `Ask`, `Resume` |
| deployment of standards | `AddStandard`, `ReviseStandard` (also marks as deleted), `RemoveStandard`, at any time |

`steady`, `entered` and `left` record what happened to the list since the client
asked; the code has no counterpart of them.  `StandardsStore` caches its index, but
`http/oai.py` makes a new store for each request, so the cache never matters.  Every
set and format gives the same records, so neither is kept.  A clock time is a number;
`DayLength` of them make a day.

### 2.5 Phase1 and OaiVerbs

| Code | Model |
|---|---|
| `OAI_PHASE1_CASES` | `Cases`: each query as a record of its arguments, with its expected, ignored and optional codes |
| `_error_codes_acceptable` | `Acceptable` |
| `dispatch_oai_verb` and its handlers | `Codes`, one operator for each verb |
| `_validate_list_args` | `ListFault`, in the order of the code's returns; `BeforeEpoch` is the check of `until` against 1970 |
| `parse_oai_date` | `ParsedDate` on the dates that the probes send, all older than any record |
| `get_by_identifier` | `Known`; `Identifier` names the records, none as a probe does (`Texts`) |

The answer's XML is left out: a probe that is answered as it should be may still fail
phase 1 by a schema.

### 2.6 RecordHarvest and Validation

| Code | Model |
|---|---|
| the registry under test | `list`, cut into pages of any size from `MinPage` on; `AnswerFault` (OAI-PMH error, empty body, no XML), `AnswerStrays` (XML that is not OAI-PMH) |
| `harvest_voresource_documents` | `BeginHarvest`, `AnswerPage`, with `GoesOn` for the condition of its loop |
| its loop over records | `Take`, folded over the places of a page by `Gather` |
| `collected`, `HarvestStats.failures` | `collected` (key to the place in the list), `failures` |
| `_anon_<n>` | `Key` |
| `build_oai_validation`, the comply binary | `Probe` for each probe, with `ProbeTests`; `ComplyReports` for the tree of a binary, which may hold any queries with any statuses |
| `build_ivoa_harvest_validation` | `Check`, `CheckTests`; `show_status` is `show` |
| `validate_voresource_documents`, `append_harvest_failures` | `CheckRecords`, `HarvestFailures` |
| `validation_result_counts` | `counts`, kept as the queries come; `due` remembers how many phase 1 reported |
| an exception of any phase | `Raises` |
| `eligible_for_registration` | `Eligible` |

A token stands for the place where it continues, a blank one for the text of white
space that `extract_records` strips to an empty text and then follows.  What a style
sheet or a schema would find is in the answer; `Truth` is what checkIVOAOAI.xsl finds
of an answer, `show` what of it is written.

### 2.7 Registration and WatchPage

| Code | Model |
|---|---|
| `eligibility_payload`, `update_blocked_reason` | `Offer`, `UpdateBlocked` |
| `register_publisher` | `Refused`, what makes it raise; `RegisterRun` puts the listing if it does not |
| `currentRunId`, `pollTimer`, `setBusy` | `current`, `timer`, `busy` |
| the chain of `pollJob`: status, result, offer | an element of `calls`, which waits for one of the three; `told` is the answer on its way |
| who waits for the chain | `for`: `watchJob` goes on when its first poll has ended (`TimerAfter`), nobody waits for those of the timer |
| `setInterval` | `Tick` |
| `showRegistrationPanel`, `hideRegistrationPanel` | `GetResult`, `GetOffer`, `Hidden`, `NoForm` |
| `showError` | `CallFails`, `StartFails` |
| the form of a validation | `PressValidate` |
| the form of the panel | `SubmitRegistration`, then `GetListing` or `SubmitFails`; `sent` is the registration that waits for its answer |
| the service | `Serve`, `ServeListing`, `JobStarts`, `JobEnds`, `JobRevoked`, `Elsewhere` (registrations from other pages) |

The page takes an error and a cancellation for the same (`"over"`).  A page may be opened
for a run that was created and not started: its job is pending until somebody has it
validated, perhaps for ever.  `RegisterRun` has the refusals of the code for its guard and
not those of `Catalogue`; that they come to the same is what the run and
`PageImplementsCatalogue` show.  `Found` is what
registration finds in a run, which may have been validated again since the offer.
What is drawn is left out, except which parts of the panel are visible and which run
filled in the form.

### 2.8 Searchables

| Code | Model |
|---|---|
| the CSV file and its temporary file | `file`: two parts, the header with the first rows and the rest, and an age |
| `_read_cache_if_usable`, `_cache_is_fresh` | `Usable`, `Fresh` |
| `load_searchables` of a home page | `Ask` when the cache is not usable |
| `_run_sync_searchables` | a process of `Syncs`, whose steps come between any others |
| the request to RegTAP | `Compute` (RegTAP sees the list), `Arrive`, at most `Flight` ticks later, or `FetchFails` |
| `write_searchables_cache` | `Open`, `WritePart` twice, `Replace`, `WriteFails` |
| kill | `Crash`: the server with all its home pages, or the command |

`writes` follows an open file through renames, as in `PublisherFile`.  `shared` remembers
of a file that another process was writing when it was opened; `gone` and `stored` remember
when a list was replaced in the registries and what was stored last.  None of these is
in the code.  The command reads the answer's rows after it is stored, which changes
nothing.  Writing takes less than a tick.

## 3. What is checked

### 3.1 Runs that pass

| Run | Instance | Shows |
|---|---|---|
| `file` | `Overlap = "sections"`, 2 identifiers, 3 spellings of 2 endpoints, the service and a check, clock 0..1 | `IntactFile`, `SafeWrites`, `ImplementsCatalogue`, `CheckKeepsListing`, with a kill possible at every label |
| `job` | 3 executions of any kind, exceptions with a text, fairness | `OneWorker`, `EndsOnce`, `IdentityFits`, `CompleteHasReport`, `DoneIsFinal`, `WorkerEnds`, `FailedStepShown`, `ProgressNeverBack`, `ImplementsJob` |
| `oai_list` | up to 4 records, one of them benson's own, pages of 2, days of 2 instants, clock 0..2, fairness | `Complete`, `Once`, `TokenAccepted`, `ListEnds`, and `OwnServerPasses` in every state of the files |
| `registration` | 2 runs at different endpoints, 2 identifiers, 3 spellings of 2 endpoints, 2 polls waiting at a time, fairness | `FormFitsRun`, `PageSettles`, and `UniqueEndpoint` of the catalogue |
| `validation` | up to 3 records of any kind, pages of any size, caps 0 and 2, 2 probes or a comply binary that reports up to one query of each status, 2 values of `show_status`, fairness | `PagingTransparent`, `NothingLost`, `CleanMeansWhole`, `EligibleMeansConforming`, `EveryQueryCounted`, `ValidationEnds` |
| `searchables` | 2 home pages, the command, 2 lists, maximal age 1, flight 1 | `CacheWhole`, `NeverTooOld`, `CacheServes` |

`ImplementsCatalogue` is the refinement: with `Listing` (identifier, endpoint and
`registered_at` of the rows a reader finds) for `catalogue`, every step of the file
protocol is a registration that `Catalogue` allows, or none.  It covers lost and
undone registrations, endpoints with two owners, empty documents after a crash and
checks that touch a listing.

`ImplementsJob` is the other one: what a page sees of a run is a behaviour of `Job`.

Some properties name an exception that the code makes.

* `FormFitsRun`: two offers that are under way at once may fill in each other's form
  (`crossed`); the page then shows one registry and would register another run, and what
  is registered is still decided by the run itself.
* `CleanMeansWhole` and `EligibleMeansConforming`: an answer that is XML and not OAI-PMH
  ends the harvest without a failure (`strayed`).
* `IdentityFits` lets a run show the identity of a second validation beside the report of
  the first while the second one goes on.
* `CacheWhole` and `CacheServes`: two processes that write the cache at once may move an
  empty or cut file into place (`shared`).

No text of the repository says what should happen in the first three cases.  The last one
is the disagreement that `file_corrupt` shows for `publishers.json` (3.4), and it has no run
of its own.

### 3.2 Bounds, and why they are enough

* Two identifiers and two endpoints are the least for a conflict; the third
  spelling makes comparison and storage differ (`Norm`, `Stored`).
* The service handles one registration at a time, but any number in sequence, and a check
  follows another.  Two checks at once would only meet as the service and a check do,
  since with `"sections"` each read-modify-write is atomic, and a check changes no listing.
* `Inodes` must exceed the files that can exist: the two names and one file held
  open for each process.  The models have enough that `OpenTemporary` is never
  without a free one.
* `MaxClock = 1` in `file` and `file_stale_check` lets a check begin before and end after a
  change of the clock.  No property of the other runs of `PublisherFile` compares times, so
  their clock stands still.  Identifiers and files are only compared, which is the symmetry
  of `file`; it has no liveness property.
* `MaxExecs = 3` is a validation, a second one, and a third that comes while the
  second runs or is cancelled; every property relates at most two executions and
  the last one.
* Four records and pages of two give lists that end in the middle and at the end of a
  page, a second page that changes before it is asked for, and one that is gone by
  then.  Days of two instants tell the two granularities apart.
* Two runs are the least for an answer to be about another run than the one that is
  watched; two waiting polls the least for answers to overtake each other.  `MaxCalls`
  only delays a poll, and so does the bound of one registration that waits for its answer
  (the form stays visible meanwhile).  The endpoint of one run is spelled in another way
  than it may be listed.  Stamps of listings matter to no property of this run, so one does.
* Three records with a cap of two give records behind the cap, lists that end on it and
  below it, two anonymous records with a third, and repeated identifiers; the other cap
  is the validation that harvests nothing.  Two probes are the least for one to follow
  another, since all are treated alike.  `MaxReported = 1` lets a binary report
  no queries or up to one of each status beside each other: none, fewer and more than
  there are probes.
* `searchables`: a page, a second one whose request overlaps it, and the command give an
  older answer over a newer one and two writers of one temporary file.  With two lists
  and maximal age and flight of one tick each, a list can be replaced before, while and
  after an answer that holds it is on its way.  Ages are counted no further than
  one tick beyond what is compared (`Old`, `Far`).  The home pages are alike, which is the
  symmetry of that run; it has no liveness property.

### 3.3 Fairness

`WorkerEnds` assumes weak fairness of what an execution does next, *except in phase 3*, and
of the delivery of a cancellation.  The code justifies it: asyncio runs every ready task,
phases 1 and 2 send a fixed number of requests, each with a timeout (`HARVEST_TIMEOUT_SEC`),
a timeout is an exception, and cancellation is delivered at the next step.  (The timeouts of
httpx are for each read: a registry that sends a byte now and then is taken not to.)  The loop
of phase 3 follows tokens without a bound of its own, so a worker may stay in it for ever,
and `WorkerEnds` says that this is the only place where one can, and only until it is
cancelled.  `ValidationEnds` is about that loop: it assumes weak fairness of the next step of
a validation, and of the registry that every page holds at least one record until its list
ends (`MinPage`).  For other registries it may not end.

`PageSettles` assumes that the browser starts what it has been asked for, that the timer
runs, and that requests are answered or fail, in any order (of those under way, the oldest
is).  It assumes nothing of jobs: one that was never started stays pending and one that runs
need not end, and the page may then poll it for ever, which the property says.  Nobody has to
press a button for it.

`ListEnds` assumes weak fairness of `Resume`: a client that has a token uses it.  A
client that stops asking leaves nothing behind on the server.  No other property
needs fairness.

### 3.4 Runs that show a disagreement

Each of these checks one property, taken from a text or a test of the repository,
that the code does not have.

| Run | Property | What happens |
|---|---|---|
| `file_lost_update` | `CheckKeepsListing` | Check and service overlap.  The check writes back the document it read before a registration: the registration is gone. |
| `file_corrupt` | `IntactFile` | Both use `publishers.json.tmp`: one renames the file that the other has just truncated. |
| `file_drift` | `DriftReportedTruly` | A listing reported as drifted is updated to its live URL; `upsert` keeps the old `check_detail`, because the new one is `None`. |
| `file_stale_check` | `CheckNeverOlder` | A listing is registered between the loading of the listings and their annotation, no two sections overlapping: the check puts a result and a time stamp from before its probes over newer ones. |
| `job_blank_error` | `CompleteHasReport` | An exception without text ends the worker; `job_state` says `complete`, and there is no report. |
| `job_sticky_error` | `SuccessOffersRegistration` | An earlier error keeps a run ineligible after a later success. |

`CompleteHasReport` and `DoneIsFinal` also hold in `job` and as theorems, but
only if no exception has an empty text; the configuration and the theorem say so.

Three further disagreements are in the models and have no run:

* `README.md` has the validator offer registration after a successful validation, and the
  entry stored when it is submitted.  For an identifier that is not listed
  `eligibility_payload` does not ask who owns the endpoint (`Offer`, mode "create"), and
  `_register_new` refuses the submission with 409 when somebody does (`Refused`).
* Home pages and `sync-searchables` write the cache through the one temporary file
  `registries.csv.tmp`: the command opens, and so empties, the file that a home page is
  about to move into place, or the other way round, and home pages show a cut list until
  it expires.
* `docs/regvalidate-functional-contract.md` (2.3) has an asynchronous validation answer
  with a `resultURL`, and for a run with `cache=true` the request at that address starts
  another validation instead of giving the result (`Validate` in `HarvestJob`).

## 4. What is proved

Every invariant and every action property of the runs in 3.1 is a theorem, and so are
the refinements.  The theorems hold for every value of
the constants under the named assumptions of the modules, which TLC evaluates in each
run:

* `StoredAssumption`: trimming an endpoint for storage does not change what it compares
  equal to;
* `ProcessAssumption`, `FileAssumption`, `UnlistedAssumption`, `ExecAssumption`,
  `MessageAssumption`, `NullAssumption`, `AbsentAssumption`: null values differ from the
  values they stand beside, and bounds are numbers;
* `ListAssumption`, `PageAssumption`, `SearchablesAssumption`: sizes and bounds are
  numbers, a page of a list holds at least one record, home pages are not commands;
* `HarvestAssumption`: an identifier, which is a URI, is none of the keys that `_anon_<n>`
  makes;
* `TextsAssumption`, `ServerAssumption`: an absent argument is no text; there is a record
  of benson's own, no record has an identifier that phase 1 makes up, and 1969 lies
  before `Epoch`.

A theorem that needs more has it as a hypothesis of its own, named below.

### 4.1 The publisher file

* `CatalogueTyped`, `EndpointsUnique`, `ListingsKept`: `Catalogue` has its
  properties.  `UniqueEndpoint` is inductive together with the type invariant.
* `PublisherFileTyped`: `TypeOK` ties what a process remembers to its label; each
  action disturbs one process, which is the shape of the proof.
* `PublisherFileSafeWrites`, `PublisherFileIntact`, if `Overlap # "any"`.  The file stays
  whole because of what is true while it is *not* being replaced, so `IntactFile` alone is
  not inductive.  `SafeWrites` adds that at most one process is in a read-modify-write,
  that it writes the file that `tmp` names, that this is not the one `main`
  names, and that it is whole before it is moved.  A crash may leave a broken
  temporary file, which the next writer truncates.
* `PublisherFileImplementsCatalogue`, `PublisherFileCheckKeepsListing`, under the same
  hypothesis, from `FileInv`.  A listing changes at one step, `ReplaceMain`, but was
  decided on and computed in steps before it.  `PendingFits` says of a document that is
  being written that its listings are those of the file, or, if the service writes it,
  those plus one registration that `Catalogue` allows *now*; `DecisionHolds` says of the
  service between its critical sections that what it looked up still holds.  Both survive
  other processes' steps because those leave the listings alone (`AnnotatedListing`).
* `PublisherFileUniqueEndpoint` and `PublisherFileListingKept` are the theorems about
  `Catalogue`, carried to the rows of the file by that refinement.

### 4.2 Runs and jobs

* `HarvestJobTyped`, `HarvestJobOneWorker`, `HarvestJobIdentityFits`,
  `HarvestJobCompleteHasReport`, `HarvestJobDoneIsFinal`: from `JobInv`, whose parts say
  that executions start in order, that the only active worker is the one
  `background_task` names and the last one started (`LastWorker`), how a worker that
  is over can have ended (`EndExplained`: with its report, with an error or cancelled),
  and, in a run of workers, how far the identity may be ahead of the report (`CachedRun`).
  The last two theorems have the hypothesis `Blank \notin Messages`; `job_blank_error`
  shows that they need it.
* `HarvestJobImplementsJob`: with the same hypothesis every step of a run is a move of
  `Job` or none, so a run implements that contract.
* `HarvestJobEndsOnce`, from `EndsInv`: a row is by an execution that has begun, and
  after its row "done" an execution is over.  What a step adds, at most two rows, is all by
  one execution (`EndsKept`).
* `JobProgressFailedStepShown`, `JobProgressNeverBack`, from `WatchedInv`.  What a page
  shows is computed from `rows` alone; `ProgressInv` ties the rows to the place of the
  worker (`Stage`): the phases before the one it is in are completed and have results,
  and its own is the last that was started.  That holds for a run's only worker, so
  `OnlyOrCaused` is needed: a second one starts only when the run shows a cause for the end of the
  first.  In a job that is not done the percentage is therefore 15, 48 or 81
  (`PercentOfStage`), by a stage that only goes on (`StageGoesOn`).  The second theorem
  has the hypothesis `Blank \notin Messages`: after an exception without text a second
  worker starts in a job that shows no cause, and its first row takes the percentage
  back.

### 4.3 Validation

* `ValidationPagingTransparent`, `ValidationNothingLost`, `ValidationCleanMeansWhole`, from
  `HarvestInv`: while a harvest goes on it holds exactly what `Gather` makes of the places
  before its token, and the token is the place where it stopped reading, or blank.
  `Gather` is a function defined by recursion on the number of places.  What it comes
  to is proved by induction (`Induction`, from `WFMin` of the library on the *set* of
  counterexamples): that the places of one page after those of another are those of both
  (`PagingTransparent`), and that the documents stand for every live record
  (`Gathered`).  The latter needs that the key of a record without an identifier is new
  (`Numbered`: the numbers in use are below the number of documents) and that a key that
  is an identifier keeps a record of that identifier (`Labelled`).
* `ValidationTypeOK`, `ValidationEveryQueryCounted`, `ValidationEligibleMeansConforming`,
  from `ReportInv`: in each phase the counts add up to the queries so far (`Counts`), of
  which phase 1 has reported `due`, the number of its probes or whatever a comply binary
  has put into its tree, and a flaw has been counted as failed.  The last theorem has the hypotheses
  `MaxFailures = 0` and `RequireSchemas`, the defaults of the settings; with other
  settings flawed registries may register.

### 4.4 Lists, page and cache

* `OaiListTyped`, `OaiListComplete`, `OaiListOnce`, `OaiListTokenAccepted`: from `ListInv`.
  `Complete` speaks of the end of a list; its reason is about every moment before: the
  records a client lacks are at or behind its token (unless one has left), and those it
  has are before it (unless one has joined).  That this survives a change of the files
  is `RankGrows`: records that join a list push the others back.  `RankInside` (a record's
  place is less than the length of its list) is what makes the last page the last one.
* `OaiVerbsOwnServerPasses`: one lemma for each group of cases.  The two cases that must
  not be answered with an error need a record that matches; benson's own records are
  such ones, and stay (`OwnKept`).  The range that ends before 1970 must be refused before
  records are looked at, since a deleted one matches any range (`EpochCasePasses`).
* `PageImplementsCatalogue`: every step of the page is a registration that `Catalogue`
  allows, or leaves the catalogue alone.  The reason is `RegisterRunRegisters`: what
  `register_publisher` does not refuse fulfils the conditions of a new listing or of an
  update.  `PageKeepsEndpointsUnique` and `PageKeepsListings` follow from the theorems about
  `Catalogue`.  `FormsFit` follows from `Fits`, which adds to `FormFitsRun` that the offers
  still under way are about the current run; without that, the next answer could break
  it.  Like the property it is about pages in which no offers of two runs have been under
  way together.  `PageTypeOK` says that the page never watches a run that was not created.
* `CacheIsWhole`, `CacheIsNeverTooOld`, `CacheDoesServe`: from `IInv`, for any number of
  home pages and commands, any maximal age and flight.  `Young` bounds when the lists
  in both files were replaced; writing resets a file's age, so it needs `Held`: time
  stands still while a file is written, and its age is 0.  `Alone` says that a temporary
  file which was opened with nobody else writing has one writer, who has written as much
  as it has come to; this is what makes the file whole that is moved into place.  `Kept`
  ties the cache to the last text that was stored.

The invariants were checked by TLC on the instances of 3.1 before they were proved,
except `HarvestInv` and `ReportInv`, which quantify over all numbers and sequences.

### 4.5 Only model-checked

`WorkerEnds`, `ListEnds`, `PageSettles` and `ValidationEnds`: liveness under fairness is out
of the prover's reach.

## 5. Plan

Order of work; all but the last are done.

1. `Catalogue`, `PublisherFile` with proofs: what the service exists to keep.
2. `HarvestJob` with proofs: the component with the most interleavings.
3. The disagreements both turned up.
4. `OaiList` with proofs: list requests, date filters, tokens and pages over a list that
   changes.
5. `RecordHarvest` and `Validation`: phase 3 following the tokens of any registry, and all
   phases up to the verdict.
6. `Registration` and `WatchPage`: the offer, the submission and the page between them,
   composed with `Catalogue`, with proofs.
7. `Searchables` with proofs: age of the file, concurrent refreshes, failures of RegTAP.
8. `Job` and the refinement; `JobProgress`: what a page is shown of a run.
9. `Phase1` and `OaiVerbs`: the server and the validator against each other.
10. Proofs of what runs checked and no theorem stated: the refinement of the file and
   what follows from it, `EndsOnce`, `JobProgress`, `Validation`, `OwnServerPasses`.
11. Left: what `PublisherFile` keeps under `Overlap = "any"` beyond its types.  Listings
   may be lost and come back then, but each one that a document holds was registered at
   some time; to say so takes a history of the registrations.

## 6. Not modelled

* The content of XML: schemas, style sheets, reports and how they are rendered.
  A report enters as the verdict that registration reads, and the style sheets' and
  schemas' findings as inputs.
* Several service processes on one volume: the deployment runs one worker.  The
  runs with `Overlap = "any"` already show what a second writer does.
* `refresh_schemas`, a maintenance command; the own registry record beyond its place in
  lists; the rendering of lists, home page and job page; HTTP plumbing, wording of
  messages, logging, configuration.
* Other CSV files in the directory of the searchables cache, which the home page takes
  when the configured path is a directory.
* The page of a validation that is watched in two browser windows at once: they
  share nothing but the service, as `Elsewhere` and `JobRevoked` have it.
* Memory: runs are never dropped from the session store.
