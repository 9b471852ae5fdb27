# Formal models of parsedmarc

parsedmarc reads DMARC aggregate reports, DMARC failure reports and SMTP TLS
reports from files, mbox files and mailboxes, parses and enriches them, and
writes them to search engines, databases, queues and files.  It moves or
deletes the mail it took the reports from, so a mistake in its control flow
loses reports for good.  This directory holds TLA+ models of the program, TLC
configurations that check them, and TLAPS proofs of most of the safety
properties.  Paths and line numbers are relative to the repository's root
(`__init__.py` and `cli.py` are those in `parsedmarc/`); `PROJECT.json` maps
every definition to its lines.

To parse, check and prove (from this directory):

    tlasany MailboxIngest.tla
    tlc -config MailboxIngest_safety.cfg MCMailboxIngest.tla
    tlapm MailboxIngestProofs.tla

Contents: 1 the system, 2 the modules, 3 the runs, 4 the proofs, 5 where the
code and its documentation differ, 6 abstractions, 7 not modelled, 8 what
could come next.

## 1. The system

| Component | State it keeps | Operations | Hard behaviour | What makes it correct |
|---|---|---|---|---|
| Mailbox ingestion (`__init__.py` 2415-2529, 2714-3431) | the folders of the mailbox; per call: fetched messages, batch, pending dedup keys; per process: `seen_aggregate_report_ids` (an expiring cache), `_FAILED_SAVE_ATTEMPTS` | list, fetch, parse, file unparseable mail, `save_callback`, count failures, shelve, archive or delete, list again | mail arrives during a call; any mailbox operation fails; save refused or raised; cache expiry; crash and restart between steps; sequential and parallel parsing | no report leaves the mailbox unsaved; retries end, and not early; duplicates are saved once; test mode touches nothing; every message leaves eventually |
| Parallel parsing (`parallel.py`) | window of futures, the caller's id queue, the pool | submit, wait, yield, refill, stop, drain | jobs end in any order; workers die; stop request; the iterator, a job or the heartbeat raises | order, pairing of result and message, bounded window, nothing finished is dropped, termination |
| Report parsing (`__init__.py` 302-1330, 1624-1842, 2027-2412) | none of its own | read and decompress, Outlook conversion, MIME walk, three parsers, normalisation to days, enrichment of each record | malformed input of every kind; a lookup that raises inside a record; the size limit; rounding | the right type or a refusal; every record once with its whole count |
| Source enrichment (`utils.py`) | IP address cache, reverse DNS map, base domain overrides, IP database and API token | DNS with retries, API with fallback to the database, loading of maps, attribution | transient failures and what is cached after them; expiry; reload | a fallback answer does not outlive its cause |
| Output delivery (`cli.py` 2402-2771 and the client modules) | `output_errors`; what each destination holds; the report objects the destinations share; PostgreSQL's connection | one save per destination and report, error collection, redelivery of an unsaved batch | a call fails, also after taking effect; dropped connections; kills between calls; clients that swallow or do not catch errors; a client that changes the report | saved means delivered; a failure of one destination stays its own; deduplicating destinations hold nothing twice |
| Elasticsearch, OpenSearch (`elastic.py`, `opensearch.py`) | process-wide alias, the indexes | search for the report, create the index, save document by document | what the query compares and where it looks; refresh; changed index settings | a stored report is recognised, another one is not taken for it |
| Index migration (`elastic.py` 642-915, `opensearch.py` 573-846) | the indexes, background tasks of the cluster | create `-v2`, map, reindex, delete the original, backfill | crash between two steps; lost updates; leftovers | no document is lost; every index is migrated in the end |
| Start-up, watch loop, reload (`cli.py` 1726-2307, 3121-3208, 3615-4030) | options and what is derived from them; the client dict; process-wide search aliases, `elastic._SERVERLESS`, loader globals of `utils.py`; signal flags | build clients with retries, watch, SIGHUP reload in three phases, rollback, shutdown, close | any staged step fails; signals and edits of the file at any moment | one whole configuration is active; no connection leaks; no SIGHUP is lost; shutdown ends the process |
| Configuration (`cli.py` 600-1900, `config.py`) and logging | options in force, log handlers | read the file, the environment and secret files; parse section by section; open the log | sources change at any moment; a reload fails half way; former names; sections that set each other's options | options are those of the sources last loaded; the log goes where they say |
| Command-line run (`cli.py` 3186-3284, 3496-3567) | reports collected so far, the shared dedup cache | parse files, read mbox, connect, run the mailbox, final save | shutdown at any moment; unreadable and corrupt input; failing saves and connections; a second run | copies are saved once per run; nothing leaves the mailbox unread |
| Archive, output files, summary (`cli.py` 321-505, `__init__.py` 3434-3773) | files on disk | claim a free name, move, read-merge-write JSON, append CSV, samples, mail | runs at once over the same directories; death inside a move or a write | no file is lost or overwritten; saved reports stay in the output |

How they interact.  `_main` (cli.py) runs everything in one thread.  It hands
`process_reports` to mailbox ingestion as `save_callback`, and its answer
decides whether messages are archived: output delivery's promise ("saved") is
what mailbox ingestion's safety rests on.  Files, mbox and mailbox share one
deduplication cache.  Parsing in parallel runs in worker processes; only results
come back.  Parsing looks up the sources of a report in the process's caches.
Signal handlers set flags that the watch loop (through `config_reloading`) and
`parallel_map` (through `should_stop`) poll.  A reload replaces options and
clients between two checks of the mailbox, and each building of the search
clients runs the index migration.

## 2. Modules

| Module | Models | Checked or proved by |
|---|---|---|
| `MailboxIngest` | `get_dmarc_reports_from_mailbox` and the checks of `watch_inbox` | `mailbox_safety`, `mailbox_live`, proofs |
| `ReportCustody` | abstract: what mailbox processing promises | refined by `MailboxIngest` (`ImplementsCustody`) |
| `ParallelMap` | `parallel_map` and its mailbox caller | `parallel_map`, proofs |
| `ReportParsing`, which extends `SourceLookup` and `DayBuckets` | from bytes to reports, with the lookup of sources and the distribution over days | `report_parsing`, proofs |
| `OutputDelivery` | `process_reports`, the destinations, redelivery | `output_delivery`, `output_partial`, proofs |
| `SearchIndex` | the save functions of both search backends | `search_index`, proofs |
| `IndexMigration`, `IndexNames` | `migrate_indexes` and the names it is called with | `index_migration`, proofs |
| `ConfigReload` | clients, signals, watch loop, reload | `config_reload`, proofs |
| `ConfigLoading`, which extends `ConfigOptions` | what the sources make of the options, and the log | `config_loading`, proofs |
| `CliRun` | a run over files, mbox and mailbox | `cli_runs`, proofs |
| `ReportFiles` | archive, output files and summary | `report_files`, proofs |
| `MC...` | instances of the module of that name for TLC | |
| `...Proofs` | theorems about the module of that name; `SearchBackendProofs` about `IndexMigration` and `SearchIndex`, `CommandLineProofs` about `CliRun` and `ReportFiles` | TLAPS |

Operators named `Mutant_...` stand before the definition they distort the way a
plausible bug would; no specification uses them.  They document, property by
property, a change of the code that the property detects.

### MailboxIngest, ReportCustody

A message stands for its report; `kind` is what is in it and `key` the
deduplication key `org_name_report_id`, so two messages with one key are copies.
What the parser makes of a message is up to `Parse`, anew at each fetch: the
report is read and classified; it is refused with a `ParserError`, always if
there is none, and for an aggregate or failure report when a call the parser
makes fails this time; or the parse raises something else (`kind` "raising"),
which leaves the call.  The program's variables are those of the call (`todo`, `invalid`,
`uids`, `batch`, `pending`, `callback`, `moving`), of the process (`seen`,
`attempts`, `watching`) and of the mailbox (`place`).  History variables
(`stored`, `copies`, `failed`) record what was handed to the outputs, and
`misread` the messages whose report the last parse refused.

| Action | Code (`__init__.py`) |
|---|---|
| `Check`, `Enter` | a check of the watch loop 3404-3422; entry of the call: folder creation, listing and limit 2890-2985 |
| `Parse`, `Classify`, `Refuse` | one message parsed, `_classify_parsed_email` 2415-2473, or refused 3031-3033, 3076-3082; the refusals for a passing reason come from 1127-1163 |
| `DisposeInvalid` | `_dispose_invalid_message` 2504-2529; at once when sequential, after the loop when parallel |
| `SaveAccepted`, `SaveRefused` | the callback's answer and the bookkeeping 3084-3147 |
| `Shelve`, `Shelved` | messages past the cap go to `Unsaved` 3156-3173 |
| `Dispose`, `Disposed` | delete or archive, per type and in the order of the types 3179-3229 |
| `Recheck` | the second listing and the recursive call, which has the default batch size 3236-3268 |
| `MailboxError`, `MoveError` | an operation that raises out of the call, and one that is only logged |
| `Arrive`, `Expire`, `Restart` | mail delivery, the expiring cache, crash and restart |

What an exception does depends on the backend: the watch loops of IMAP and
Maildir log it and go on, the others end (docstring of `watch_inbox`).  That is
`opts.swallows`.

`ReportCustody` has no batch, cache, counter or process.  A message waits until
its report is saved, and only then may be removed, or it may be set aside after
enough failed saves.  It has the hole of the code: while the last reading stands
refused, a message with a report may be misfiled (filed in Invalid, or deleted
under `delete_invalid`).  The mapping: `custody` from the folder and `misread`,
`saved` from the stored reports, `failures` from `failed`, `refused` from
`misread`.

### ParallelMap

The generator's steps (`Prime`, `Harvest`, `Refill`, `Shutdown`, `Drain`), the
pool's (`Start`, `Finish`, `WorkerDies`) and the caller's (`Handle`, which takes
the oldest id from its queue).  Job *n* is the *n*-th job of the iterator, so
"in submission order" is `results[i] = i`.  `Prefetch` is the number of jobs the
pool of the standard library hands out beyond the number of workers; those
cannot be cancelled any more.

### ReportParsing, SourceLookup, DayBuckets

An item is a file or a message.  Its content is a record of what the code's
decisions depend on: for a file, how it is packed, whether the archive is sound,
its size against the limit, and the form of what is inside; for a message, its
envelope and its parts, each with its type and encoding.  `holds` says which
types of report the sender put in and is used by the properties only: the
instance states it for each item by hand, and `HoldsAssumption` compares that
with `Contents`, which defines it for any item without regard to the order in
which the parser tries things.

`stage` is the place in the code: `ReadFile`, `TryAggregate`, `TryTls` and
`OpenMail` are `parse_report_file` (2354-2412), which tries one parser after the other;
`FeedbackPart`, `SamplePart`, `TlsJsonPart`, `TlsGzipPart`, `ClaimPart`,
`OtherPart` and `SkipPart` are the branches of the MIME walk in `parse_report_email` (2110-2240), which
take the parts in the order of the message and stop at the first aggregate or
TLS report;
`StartFailure`, `EndFailure` the failure parser; `StartRecord`, `AppendRecord`,
`LoseRecord`, `Drop`, `EndRecords` the loop over the records of an aggregate
report, in which a record that raises is logged and lost.  `Finish` gives the
outcome: one of the three types, or the exception the caller sees, with the
hierarchy of the exceptions as sets.

`SourceLookup` is `get_ip_address_info`: `Begin` looks into the cache, `Resolve`
and `QueryFails` are `query_dns` with its retries, `ApiAnswers`, `ApiUnusable`
(falls back to the database) and `ApiRejects` (raises, by intent out of the
program) the IPinfo API, `ReadMmdb` and `MmdbMissing` the database, `LoadMap` and
`LoadFails` the reverse DNS map, loaded lazily and possibly in part, and
`Attribute` the answer and whether it is cached.  Every lookup of a record runs
through these steps; `Expire` and `ReloadMap` happen between items.

`DayBuckets` is `_bucket_interval_by_day` as a pure definition: cut at
midnights, largest remainders.  The days of an interval are numbered; `Floor`
and `Fraction` are the parts of a day's quota, `Place` is where the stable sort
by fractions puts it, and `Share` what it is given.  `Buckets` leaves out the
days that are given nothing.

### OutputDelivery

A call is a record of destination, kind and position in the batch.  `todo` is
the set of calls an attempt has still to make, and `Before` the code's order:
files first; then kind after kind, report after report, destination after
destination, with Splunk at the end of each kind; Log Analytics last.
`Deliver(c)` is the call whose turn it is, with the actions of its client.
Files, Splunk and Log Analytics take all reports of a kind at once.  A report is
a set of documents (the records of an aggregate report).  Every call may fail,
also after taking effect.  `intact` says whether the shared report object still
has the metadata that Kafka's `strip_metadata` takes out; `link` is the
connection to PostgreSQL, which the server may drop between any two statements
of a transaction.  `Redeliver` is the retry by mailbox ingestion, with
everything fetched and parsed again; it is enabled during an attempt too, which
models a kill.

### SearchIndex

`Save` enters a save function with a report; `AlreadySaved`, `NotFound` and
`SearchFails` are the outcomes of the query, whose clauses (`match_phrase`,
`match`, ranges) are evaluated on the documents of the indexes its pattern names;
`CreateIndex`, `SaveDocument` and `SaveFails` follow, and the process can be
`Killed` at any of these steps, before or after the call took effect.  Texts are sequences of
words as the analyzer makes them, so that a phrase can be found inside a longer
one.  `Reconfigure` puts another deployment in force: prefix, suffix, monthly
or daily names, serverless, and the authentication that each `set_hosts` refuses.  `LookAlike` says which reports
a query cannot tell apart.  `broken` is a history variable: the reports of which
a save broke off after its search, by an error or a kill.

### IndexMigration, IndexNames

A step is one call on the cluster.  For each legacy name: `CheckExists`,
`CheckType`, `CheckLeftover`, `Discard`, `Create`, `PutMapping`, `Scan` and `Copy`
(`reindex()`, document by document), `DeleteOriginal` (`elastic.py` 779-823);
then for each name the backfill: `Connect`, `Count`, `Submit` (834-869), whose
update runs as a task of the cluster (`TaskStep`, `TaskDrop`).  Searches see
what the last `Refresh` made visible; reading by scroll does, too, hence
`fresh`.  Every call may fail before or after its effect, and `Crash` may come
anywhere.  `IndexNames` computes the names `cli.py` passes, from suffix, prefix
and tenants.

### ConfigReload

A configuration is a model value and each setting is represented by the
configuration it came from, so that a half-applied reload shows as a mixture.
A client is an output with the number of the attempt that built it; `alias` says
which generation elasticsearch-dsl's process-wide `default` names.  `todo` is
the set of outputs still to be built, in `BuildOrder`.  `SetHosts` and
`Migrate` are separate because the alias is taken over before the handle is in
the client dict.  `Teardown` and `Restore` are `_close_output_clients` and
`_restore_search_aliases` with the loader globals.  A rejected IPinfo token
leaves phase 1 by `sys.exit` and is the step from `"token"` to `"exit"`.
`abandoned` records the attempts whose PostgreSQL client was connected and then
dropped because `create_tables()` raised.  `Close` is the closing at the end of
`_main`; `AtExit`, the hook, follows it and is all there is after a `sys.exit` or
an exception.

### ConfigLoading, ConfigOptions

`ConfigOptions` is `_parse_config` with `_load_config` beneath it: a table, per
section, of the keys it takes, former names, fallbacks, what is required and
what is converted, with the few rules that do not fit a table (keys of `[imap]`
that set options of `[mailbox]`, authentication methods of Graph, the resolvers
that are tried at once).  A value is a token, `Malformed` stands for a text the
key's conversion rejects.

`ConfigLoading` is the process around it: `Start` and `StartFails`;
`ReadSources`, `RefuseSources`, `OpenLog`, `Rollback`, `TokenRejected`, `Commit`
for a reload; the environment edits the file (`EditFile`), the files that
`PARSEDMARC_..._FILE` variables name (`EditSecrets`) and who may write the log
files (`ChangePermissions`).  Commit copies the options attribute by attribute
onto the namespace in force, as `cli.py` 3720 does.

### CliRun, ReportFiles

`CliRun` has one step per file, per mbox file, per mailbox pass, and the final
save.  A mailbox pass is one step with the outcomes that `MailboxIngest` allows:
it reads a part of the inbox, refuses some of it (`Refusals`), and what it saved
is archived, stays (a failed move, test mode) or is passed over again
(`"recheck"`, without a batch size); what it did not save stays, or goes to
Unsaved if `max_unsaved_retries` is 0 (`shelving`).  A save is one step with
success or failure.  `NextRun` starts over with the files that are still in the
input directory and the messages that are still in the inbox.

`ReportFiles` is the same run seen from the disk, several at once.  `ClaimName`
creates the placeholder under the first free number (`NameTaken` counts on);
`Rename`, or across file systems `StartCopy`, `FinishCopy`, `Unlink`, moves the
file onto it.  `ReadJson`, `OpenJson` (which truncates), `DumpJson` are
`append_json`; `FindCsv` and `AppendCsv` find out whether the header is needed,
and append; `WriteSamples` and `Mail` end the run.  `Die` may come anywhere.
`parsed` keeps a run's reports by kind, as `results` of `cli.py` does, and
`AddResult` leaves out an aggregate report the run has read before, unless the
cache has forgotten it.  `savedBy` and `filed` are histories of what a run has
completed, and `torn` names the kinds whose JSON file a write cut short or two
runs wrote at once: of those the code promises nothing.

## 3. Runs

| Run | Instance and bounds | What it shows |
|---|---|---|
| `mailbox_safety` | two copies of an aggregate report, a failure report, a message without a report; any parse of a report refused; five option records; one retry, default batch size 2, one mailbox fault, one restart or expiry; 2.4 million states | no report lost but one whose last reading was refused, none double-saved, given up early or retried beyond the cap; test mode; the refinement of `ReportCustody` |
| `mailbox_live` | an aggregate report, a failure report and a message whose parse raises; batch size 0 and 1; one fault, one restart; 250,000 states | every message leaves the folder unless it is blocked by one whose parse raises |
| `parallel_map` | six jobs, two workers, window 4, one prefetched job | order, pairing, window, nothing dropped, termination |
| `report_parsing` | two of 33 items, one after the other; up to three faults; three addresses, two configurations; one DNS retry; 390,000 states | the right report, whole, and no fallback attribution that outlives its failure |
| `output_delivery` | an aggregate report with two records, a failure report, and two SMTP TLS reports, one of them for no tenant; six sets of destinations that cover all eleven; three attempts; 605,000 states | delivery, isolation, no duplicates, atomicity |
| `output_partial` | an aggregate report, each search backend, two attempts | counterexample: `SavedMeansIndexed` |
| `search_index` | eight reports, seven deployments, both backends, two saves, one failing call, kills; a million states | a stored report is found, and what is passed over is stored |
| `index_migration` | four documents under four names, one process, two faults | no document lost, mapping first, migration ends |
| `config_reload` | four configurations (one that does not watch, one that `watch_inbox` refuses), one retry at start-up, two SIGHUPs; 77,000 states | one configuration but for `n_procs`, no leak but `create_tables()`'s, all closed on the way out, no lost signal, shutdown |
| `config_loading` | ten files with every section, two log files, two secrets | options and log follow the sources |
| `cli_runs` | three files, four mbox files, three messages, two runs; 1.2 million states | saved once, nothing unread |
| `report_files` | two runs over the same two files of one name, one fault, runs symmetric | nothing lost in the archive; output stays |

### Why the bounds are enough

*Mailbox*: two copies are the least that can meet in one batch, in two batches,
or across a restart; one message of another type shows the per-type flags and
the order of disposal; one without a report the separate path, which the others
take too when they are refused.  SMTP TLS messages take the path of failure
reports, but are never refused for a passing reason.  The message whose parse
raises is in the liveness run, where it matters: it removes nothing.  The bounds on faults and restarts
are counts in the guards (`MaxFaults`, `MaxForgets`) and also appear in the
claims (`RetriesCapped`, `AggregateSavedOnce`); the proofs remove them.

*ParallelMap*: six jobs exceed the window of four, so the loop primes, refills
and drains; two workers end out of order.

*Parsing*: between them the items take every branch of the walk in good and bad
order, an archive of exactly the limit and of one more, and a failure report
whose sample carries an aggregate report.  Two items suffice
for what one leaves to the next (cache, maps); three faults give a failing
lookup, its retry, and one more after a reload.  A day has four units, so that an
interval covers parts of up to three days with remainders that differ.

*OutputDelivery*: two records are the least that can be split; two redeliveries
show a retry after a retry.  The sets of destinations put each destination
behind another that fails, and Kafka before those it deprives.

*SearchIndex*: the reports are chosen for what a query could confuse: one report
ID for two tenants, an organization whose name begins with another's, three
failure reports of one moment with more, fewer and blank headers, one saved by
an earlier version, and one left without records.  Two saves show the second
recognising the first, also when that was killed between two documents.

*IndexMigration*: a deployment with a suffix and a tenant on a cluster with an
index from before either has names that cover each other; two faults give a
failing call and a crash, or a lost update after a leftover.

*ConfigReload*: two SIGHUPs give a reload after a failed or a committed one, and
one during another; the configurations let a new file differ from both the
running and the replaced one.  *ConfigLoading*: two reloads in a row meet any two
of the ten files, and two log files are what a switch needs.  Its state space is
finite without a bound on the number of reloads.

*CliRun*: two runs are needed for what was left over.  *ReportFiles*: two runs
and two files of one name are the least that race for a file, for a name and for
the output.

Three runs do not check for deadlock, `report_parsing`, `search_index` and
`report_files`: they end when the bounded work is done.

### What the properties are for

`RemovedImpliesSaved` and `SeenImpliesSaved` are the two halves of issue #242:
a message may only go when its report was accepted, and the deduplication cache
may only know accepted reports, for a cached key makes the retry drop the
report as a duplicate and archive the message.  `RemovedImpliesSaved` also says
where the code falls short of that: only a report refused at its last reading
can be in Invalid, and only with `delete_invalid` can it be gone.  `AggregateSavedOnce`,
`RetriesCapped` and `ShelvedAfterRetries` bound deliveries from above and below.
`RowsComplete` and `RightReport` say of parsing that nothing is lost or invented
on the way, with the exceptions the code makes spelled out in the formula (a
lost lookup, a shadowing part, an unreadable date).  `Recovers` is the rule
behind `weak_fallback`.  `OneConfiguration` is stated where the watcher runs,
since a reload is a mixture on the way.  `OptionsFollowSources` compares a
process with one that is started afresh on the same sources.
`RecognizesItself` and `SkippedIsStored` are the two ways a search before the
save can be wrong: saving twice, and taking something else, or a piece of it, for
the report.
`RemovedWasRead` is what the code guarantees for a run with files and a mailbox.

### Fairness

`mailbox_live` assumes weak fairness of the process's own steps only.  The
program is sequential and has no waiting in these steps, so it is enough that
the process is scheduled.  Nothing is assumed of the answers of the save
callback: it may refuse forever.  Mailbox operations fail a bounded number of
times, and the process is restarted a bounded number of times; without the
bound on restarts a report could be retried forever, as the counters live in
memory.  `parallel_map` assumes that the caller goes on iterating (its loop
body has no wait) and that the pool runs and ends its jobs.  `config_reload`
assumes fairness of the process's steps: mailsuite's watch loops poll
`config_reloading` between checks.  `index_migration` assumes that a process is
started again and goes on: the service unit has `Restart=always`, and every
reload calls the function again; that the cluster works on its tasks and
refreshes its indexes.  Nothing is assumed of a call that fails, but that
failures are finite in number.

## 4. Proofs

Of the 40 properties the passing runs check 35 are proved for every value of the
constants, which removes all bounds above; the refinement is one of them.  The
assumptions are those on the constants in the modules (their types, evaluated
by TLC in each run) and, for `IndexMigration`, `OneProcess`.

| Module | Theorems |
|---|---|
| `MailboxIngestProofs` | `TypeCorrect`, `NeverRemovedUnsaved`, `CacheHoldsSavedOnly`, `DeliveredOncePerMemory`, `NeverGivenUpEarly`, `RetriesBounded`, `TestKeepsMailbox`, `Refinement` |
| `ParallelMapProofs` | `PoolTypes`, `OrderKept`, `PairsMatch`, `WindowKept`, `WorkKept` |
| `OutputDeliveryProofs` | `SavedIsDelivered`, `FailuresIsolated`, `RetriesDeduplicated`, `ReportsAtomic` |
| `SearchBackendProofs` | of `IndexMigration` `Types`, `DocumentsKept`, `MappingFirst`, `QuietStart`; of `SearchIndex` `SearchInvariant`, `SavedAreRecognized`, `SkippedReportsAreStored` |
| `ConfigReloadProofs` | `WholeConfiguration`, `NothingLeaks`, `InUseStaysOpen`, `ExitCloses` |
| `ConfigLoadingProofs` | `LogFollowsConfiguration`, `OptionsAreTheSources` |
| `CommandLineProofs` | of `CliRun` `SavedOnce`, `NothingUnread`; of `ReportFiles` `FilesInvariant`, `ArchiveLosesNothing`, `OutputOnDisk` |
| `ReportParsingProofs` | `BucketsRight`, `ParsingInvariant`, `NoRecordLost`, `FallbackIsTemporary`, `AcceptedIsRight` |

### MailboxIngest

*Types.*  `TypeCorrect` needs that fetched messages are in `Messages`
(`FetchableInbox`), nothing else.

*Safety.*  `RemovedImpliesSaved` is not inductive: `Dispose` removes any message
of `moving`.  `DisposeInv` says that while messages are disposed of, each of
them has a saved report; that holds when the callback accepts, because of
`BatchInv`: a message parsed as a report is in the batch, or its key is in
`pending` (then a copy is in the batch) or in `seen` (then a copy was saved,
by `SeenImpliesSaved`).  `BatchInv` also has what is said
of Invalid: what waits in `invalid` is `Unreadable`, and no message of `uids` is
in `misread`.  That a parse leaves the two lists apart, and that what it parses is
in the reports folder, is `FolderInv`, proved first.  `SafeInv` is the conjunction
of the types, the two claims, `BatchInv` and `DisposeInv`; `SafeStep` shows for
each action that it keeps the conjuncts the action can disturb, for `Parse` by its
three outcomes (`ParseOutcomes`).

*Deliveries.*  `DeliveredOncePerMemory`: `CopiesInv` ties `copies[k]` to whether
`k` is in the cache, and to the number of times the cache forgot.

*Retries.*  `RetriesBounded` needs a budget argument.  A counter is dropped when
the message leaves (nothing left to bound), when its move to `Unsaved` fails
after being counted (a fault), when a save is accepted but the archive move
fails (a fault), or by a restart (a forget).  `Paid(m)` says that the failed
saves of a message, less those its counter still shows, are covered by
`MaxUnsavedRetries + 1` for each fault and forget so far; `FolderInv` that the
messages in work are in the folders the steps expect.  `NeverGivenUpEarly` is
the opposite bound and is part of the same invariant, `CounterInv`.

*Test mode.*  `TestKeepsMailbox`: in test mode nothing is ever queued for
disposal (`TestInv`).

*Refinement.*  `Refinement` maps each step to `Deliver`, `Save`, `Fail`,
`Remove`, `SetAside`, `Reread`, `Misfile` or a stutter of `ReportCustody`.  The
guards of `Remove` and `SetAside` follow from `DisposeInv` and `CounterInv`, that
of `Misfile` from what is said of `invalid`.

### ParallelMap

*Order, pairing, window.*  `OrderInv` is proved in one piece: `window`, `ids` and
`pairs` have their types only because `Head` and `Tail` are never applied to an
empty queue.  `QueuesInv` says that the window holds consecutive jobs up to the
last one fetched and the id queue the jobs not handled yet; `LengthInv` relates
the lengths of the queues at every place of the generator, with a job less in
front of the harvesting point after each yield, which is the room the refill
takes.  Then the head of the window is the job after the last result, and the
head of the id queue the job whose result was just yielded (`HandledInv`).

*Nothing dropped.*  `WorkKept` needs more of the jobs' states (`FutureInv`): jobs
are started in order, so what a shutdown cancels is a final piece of those
submitted, and the drained results have no gap.  `StopInv` says that what was
taken off the window without a result was cancelled.

### OutputDelivery

The claims are about whole attempts, the invariant follows the list of calls.
Of a call under way `SentInv` says what its destination holds so far: the search
backends the documents up to `sent`, PostgreSQL nothing before the commit.  Of a
call that is over `SettledInv` says that the report is at its destination, or
`Excused`: there was an error, and the destination failed or could not take the
report.  `EachHasACall` connects the two ends: every document is in a call to
every destination.  When the last call is over, no error means that nothing is
excused (`SavedIsDelivered`), and a healthy destination has all it can take
(`FailuresIsolated`).  `RetriesDeduplicated` needs of `SentInv` that what is
deposited next is not there yet, however the last attempt ended.

### IndexMigration

`NoDocumentLost` is false for two processes that start at once (section 5), so
the theorems have the form `ASSUME OneProcess PROVE Spec => []P`.  `Kept(n)`: the
original of a name is as it was, or it is gone and the rebuild holds all its
documents.  That deleting it is safe depends on how far the process has come
(`Underway(p)`): while it copies, each document is in the rebuild or still in
what `Scan` read, and at the deletion all are in the rebuild.  With one process
nobody discards that rebuild in between.  `Passed(p)`: unless a call failed, the
names the loop has passed are migrated, from which `QuietStart`.

### SearchIndex

The two backends, each from its own code, search and save in the same way
(`SameSaving`), so one argument serves both.  `DocumentsInv`: every document is what
the save function makes of a record of its report, under a base name that a
search for the report looks under, whichever deployment saved it.  The query of a
report is satisfied by each of these documents (`OwnMatch`), from which
`SavedAreRecognized`; and by documents of look-alikes only (`MatchIsLookAlike`).
`WholeInv`: a report with a document is stored as a whole under that document's
prefix, or it is the one at work, or a save of it broke off, by an error or a kill.
Nothing is at work during a search, from which `SkippedReportsAreStored`.

The assumption on the reports (`ReportsAssumption`) gives the types of the fields
and that the interval of each record lies within that of its report: both are
read from the same two texts (`__init__.py` 1028-1039), and the days into which an
interval is cut lie within it (`BucketsRight`).

The proof corrected the property.  It used to promise whole storage unless a call
failed, which held for two saves and is false for three: after a change to a
configuration whose index settings the cluster rejects, a save stores the
records whose index exists and ends in an error at the first that needs another.
The next save takes the report for saved.  Hence `broken`.  It also showed that
any report can be mistaken for a look-alike, not only a failure report, and that a
report that lost all its records was not covered; the model now has both.

### ConfigReload

What makes the claims inductive is the origin of each open connection and each
alias at every place of an attempt.  Clients in use are older than the attempt
and those of the attempt carry its number (`AgesInv`), so closing the ones never
closes the others.  `AttemptInv`: open are the clients in use, the staged ones
and at most one backend registered without a handle.  `SnapshotInv`: the
snapshots are what is in force until the commit, so a rollback at any step gives
back the one configuration (`RestInv`).  `LoadedInv` says what of the new
configuration has been built and loaded so far; at the commit that is all of it.
`EndingInv` covers the places between closing and handing back, `LeavingInv` the
way out.  `AbandonedInv` keeps the abandoned connections apart from every dict,
so that no closing takes one away and none is counted as a leaked client.

### ConfigLoading

`LogFollowsConfiguration`: `StagedInv` says which handler a reload has opened at
each of its places; two lemmas say that neither the Gmail restriction nor an
option left over from before changes what the options say of the log.

`OptionsAreTheSources` compares the options in force with those of a process
that is started afresh on the sources last loaded.  Two things have to be shown.
Of the steps (`OInv`): what a reload has read, kept in `staged` until it is
committed, is what the sources said when it read them; a commit copies it over
the old options attribute by attribute, and what only the old ones had is
outside the comparison or is overwritten (`CopiedInForce`); start-up alone may
restrict them (`RestrictedInForce`).  Of the parser (`GivenIsFresh`), for any
sources: whatever is given under an option's own name is what the option
becomes, a secret file before the environment before the file, unless a rule
that moves keys between sections takes the option over.

### CliRun

The cache holds the two properties together.  It names every aggregate report
the run has in hand, saved or not (`CachedInv`), so that nothing is taken in hand
twice (`OnceInv`); and it names only what was read (`ReadInv`), so that what is
dismissed as a duplicate is not lost unseen.  What the batch of a pass leaves out
is a copy of something in it, or was cached; `Leaving` says of the messages that
a pass takes out of the inbox which of them carry a report it has parsed.

### ReportFiles

`ArchiveLosesNothing` rests on who owns a name.  A name in the archive belongs to
the run that created its placeholder from then until the file is moved or the
run gives up (`ClaimInv`), two runs never own one name, and what has been filed
under a name is not touched again; a copy across file systems is whole before
the original goes (`CopyInv`).  So the content of each file given is under its
own path, or under one that some run owns or has filed.

`OutputOnDisk`: between reading the JSON file of a kind and having rewritten it,
a run is alone with that kind, or the kind counts as torn; what it will write
then holds all that the file held.  The CSV file only grows, and by whole blocks:
`Within` says that the rows of a report stand together, and `WithinConcat` and
`JoinedWhole` that they go on doing so when rows are written around them.  That
a run's own samples do not overwrite one another (`NamesDiffer`) is shown of the
numbering of file names.  An earlier invariant, that what a run has read is part
of what was saved, held for two runs and failed for three: the third may write
between the other two.  The invariant of the theorem counts such a kind as torn.

### ReportParsing

*Days.*  `BucketsRight` is about `DayBuckets` alone, for any interval and count.
`DaysFollow`: the days follow one another, each has a part of the interval and
lies between two midnights.  The overlaps sum to the interval, so the quotas sum
to the count, and what the floors leave over is at most one for each day
(`RemainderFits`).  The places of the days are the numbers from zero on, each
once (`FirstPlaces`, by counting the days in front), so just as many days are
given one more as there is left over (`SharesSum`).  A day left out was given
nothing, so the counts of the buckets have the sum of the shares.

*Records.*  `NoRecordLost`: while the records are gone through, the rows made so
far are those of the records before `i` (`RowsSoFar`): each such record that
should be there is, with its whole count, the others count nothing, and the rows
are in order.  A record left out adds nothing (`Skipped`); one that is appended
adds rows of its own, whose counts are those of the buckets (`NewRowsRight`,
`Appended`).  A record is only appended after its lookup, hence only with an
address, which `AtRecords` carries through the lookup.  The assumption on the
contents (`ContentAssumption`) gives the types of what a document holds.

*Lookups.*  `FallbackIsTemporary`: `CacheInv` says that no fallback is in the
cache, that an address whose last answer was one has nothing there, and that the
address whose lookup is under way has nothing there either; then the answer to
such an address is never taken from the cache.  `AskedInv`: past DNS, unless DNS
was not asked or gave up, the host name is the address's own.  A reload would
break it in the middle of a lookup, and comes only between two items, when
`PlaceOfParsing` has no lookup under way.

*Outcome.*  `AcceptedIsRight` is `RightReport` for any items.  The parser goes
through the parts once, keeps the last feedback report and sample, and stops at
the first part that looks like a report; `Contents` speaks of all parts at once.
The invariant (`AcceptInv`) ties the two together at each part: none before it
ended the walk (`Quietly`), and what the walk has kept is the last of its kind
among those before (`KeptSoFar`, kept over a part by `FlagNext`, `ReportNext`
and `SampleNext`).  A file that comes to its parts is no report itself, unless a
call failed (`FileSoFar`), and the records gone through are those of the file or
the part at hand, of which a single one is not left out (`RecordsSoFar`).  So a
walk that is cut short by a part that is no report has met the part that
`Shadowed` speaks of, and one that came to its end has met no report but what it
kept (`OnlyFailure`, `FailureHeld`).  That reading one byte more than the limit
tells an archive above it from one at it is `ReadingDecides`.
`HoldsAssumption` only says that `holds` is `Contents` and that a sample is not
the absent value; it limits no item.

### Sums and sequences

The prover cannot use the library's induction theorems, which take an operator
as a parameter, but it can use induction over a set: a set of natural numbers
that has zero and with each number the next one is `Nat` (`SetInduction`, from
the well-foundedness of the order).  What is computed step by step is therefore a
recursive function on numbers (`SumTo`, `Buckets`, `Joined`).  That
such a function satisfies its equation is proved of each (`SumSteps`,
`KeptExists`, `JoinExists`).  Folds, `SelectSeq` and CASE with overlapping
guards, which the prover cannot open, were replaced in these modules by
functions and conditionals that compute the same.

### Only model-checked

- Liveness (`EveryMessageLeaves`, `Terminates`, `SighupServed`, `ShutdownEnds`,
  `EventuallyMigrated`): the prover does not handle fairness and `ENABLED`.
- `SavedMeansIndexed` is false (section 5).

## 5. Where the code and its documentation differ

One run is a counterexample.  `SavedMeansIndexed` in `output_partial`: of an
aggregate report that was indexed in part before a failure, the next attempt
finds the first record, takes the report for saved, and the batch counts as
saved without the other records.  A kill between two records has the same effect,
without any error before it (`Killed` and `broken` in `SearchIndex`).  `output_delivery` therefore states its claims
without the two search backends where that would break them, and names in
`Deprived` the reports a destination cannot take.

Other claims were tried and are not true of the code.  They have no run; where a
property comes near one of them, it states the weaker truth that holds.

Mailbox and command line:

- A good report that is refused for a passing reason is treated like a message
  without one: filed in Invalid, or deleted under `delete_invalid`, and then the
  report exists nowhere else (`__init__.py` 3077-3082; usage.md 985-995).  Such
  refusals are a failing `keep_alive` between two records (1131), and a lookup that
  raises in a failure report or in an aggregate report with a single record
  (`utils.py` 748).
- A message whose parse raises something other than `ParserError`
  (`__init__.py` 2150, 2174) ends every call that fetches it, before anything of
  its batch is saved, and is fetched again by the next: it and its batch stay in
  the folder for good.
- The retry cap counts attempts per message, not per report: copies of one
  report are delivered more often (usage.md 1026-1028; `__init__.py` 3137).
- A one-shot run without batch size delivers a failure report a second time in
  the same call when its archive move fails (`__init__.py` 3240).
- A failing connection after a shutdown request skips the final save
  (`cli.py` 3341; the comment at 3267-3270 says the work is kept); so does a corrupt
  report in the mbox file (`cli.py` 3277).
- A report read from a file is in the dedup cache before it is saved; its copy in
  the mailbox is archived even if the final save then fails (`cli.py` 3248), and
  the file itself is archived before the save (`cli.py` 3259).

Configuration:

- A negative `max_unsaved_retries` passes the reload and is refused only by
  `watch_inbox`, which ends the process (`cli.py` 3745; usage.md 1401-1412).
- A rejected IPinfo token during a reload ends the process with the new clients
  open (`cli.py` 3833).
- `n_procs` is computed once (`cli.py` 3229) and passed to `watch_inbox` after
  every reload (3660), so a watcher that reloaded runs with the worker count of
  its start.  usage.md 1379-1398 exempts only the connection to the mailbox.
- When `create_tables()` raises, the PostgreSQL connection opened just before is
  in no dict and nothing in the code closes it, at start-up and in a reload
  (`cli.py` 1933-1942; `postgres.py` 164).  The garbage collector may.
- After a reload the delete options that start-up had cleared for lack of Gmail
  scope are in force again (`cli.py` 3428), and `graph_token_file` is left over
  from the configuration before (comment at 3061).

Outputs:

- The search for a failure report is outside every `try`, so an outage of the
  backend leaves `process_reports` as an exception (`elastic.py` 1194;
  usage.md 983-986).
- Kafka's `strip_metadata` takes the metadata out of the report the later
  destinations are given (`kafkaclient.py` 90; usage.md 981-982).  S3 cannot take
  failure reports.  Webhook, syslog and GELF swallow delivery errors, by intent.
- With an empty `index_suffix` given, the search pattern misses the index without
  suffix; a failure report with a blank From, To or Subject is never found again;
  one that looks like another of the same moment is taken for it
  (usage.md 1018-1020).
- Two processes that start at once: one deletes as debris the rebuild the other
  has just filled (`elastic.py` 819; the comment at 809 says that the original
  still holds the data), while the other deletes the original.  The service unit
  starts one.
- An SMTP TLS report about a domain that `index_prefix_domain_map` leaves out is
  dropped before any destination sees it, the files included, and counts as saved
  (`cli.py` 2376-2400, 2418).  usage.md 1278-1286 says that reports for domains the
  map does not list go to the unprefixed indexes; the other kinds do.
- While an original and its rebuild both exist, dashboards count its documents
  twice.

Parsing and enrichment:

- `IndexError` and `binascii.Error` leave the parser as themselves
  (`__init__.py` 2174, 2150; `cli.py` 463-465 says every failure is a
  `ParserError`).
- An unreadable Date header refuses the whole mail (2102-2109).  A part that
  looks like a report and is none, such as a document in a zip archive inside a
  failure report's sample, refuses the mail it comes with (`Shadowed`).  An
  aggregate report there is taken for the mail's own, and the failure report is
  dropped (the item with two reports in `MCReportParsing`).
- `keep_alive()` is outside the `try` around a record (1129-1132).  A rejected
  IPinfo token is swallowed with the record (1146; `utils.py` 675-676 says it
  surfaces).
- Of a gzip file with several members only the first is read.
- `get_reverse_dns` catches DNS exceptions only; a result found through the AS
  domain during a passing PTR failure is cached; a malformed row leaves the map
  loaded in part; the IP cache outlives a reload (`cli.py` 2339); a base domain
  may be computed before the overrides are loaded.

Files:

- A JSON file cut short by a failing write or a death is taken for corrupt by the
  next run and replaced, which loses all earlier reports (`__init__.py` 3471).
  Two runs at once lose each other's additions, and both may write a CSV header.
- The CSV row of an SMTP TLS policy without strings repeats those of the policy
  before it, since the rows share one `record` (`__init__.py` 808-814).  `MCReportFiles`
  has this as the assumption `CarriedStrings`, which TLC evaluates.
- Samples of an earlier run are overwritten by those with the same subject.

## 6. Abstractions

- Report contents are model values.  In `MailboxIngest` a parsed message is its
  kind and key; `ReportParsing` has how it came by them.  The descriptive fields
  that are copied from a report are left out.
- Mailbox backends are an atomic folder: an operation takes effect, or raises
  without effect.  They belong to another package, mailsuite.  The initial
  listing and the reading of a batch are one step (`Check`); mail that arrives in
  between is mail that arrives after.
- Quotas of days are exact in `DayBuckets`, floats in the code.  Times are UTC.
  Counts are natural numbers, as in the schema of the reports.
- DNS, API, maps and databases answer truthfully or fail; a PTR record is
  represented by its base domain.
- `save_output` also writes the kinds whose saving is switched off; files are
  modelled for the enabled kinds.  A configured destination is configured for
  every kind.
- Destinations other than the search backends share one client model in
  `ConfigReload`, that of PostgreSQL.
- A run is shorter than the hour the dedup cache remembers (`CliRun`);
  `MailboxIngest` has expiry at any moment.
- Fields of search documents that no query compares are left out; `opensearch.py`
  is modelled from its own code where it differs, and by the same actions where
  it has the same control flow (`migrate_indexes`).
- In `ReportFiles`, `fail_on_output_error` is off.

## 7. Not modelled

- `resources/maps/*.py`: offline tools that maintain the data files; parsedmarc
  never runs them.  They are nearly half of the package's lines of Python.
- Layout of messages, events, table columns and mail bodies; what is printed;
  types and constants.
- Choice of nameservers, the format of the database files, schema versions of the
  XML, and the numerous descriptive fields.
- Credentials and chunking by vendors' SDKs, and the mailbox backends of mailsuite
  beyond their use.
- The setup of logging in worker processes, which shares no state.

Hazards without a property are listed in `PROJECT.json` with the reason: they
are those of section 5 where the code does not do what one would claim.

## 8. What could come next

- The composition of `CliRun` and `OutputDelivery`, so that "saved" in the one is
  the other's promise, and a run's second delivery meets the first's documents.
- `SearchIndex` with two processes: two searches that both find nothing.
