--------------------------- MODULE OutputDelivery ---------------------------
(***************************************************************************)
(* One batch of reports on its way to the output destinations:             *)
(* process_reports() of parsedmarc/cli.py, the save functions of the       *)
(* destinations it calls, and the attempts the mailbox loop makes until    *)
(* the batch counts as saved.                                              *)
(*                                                                         *)
(* A report is a set of documents <<report, i>>: the records of an         *)
(* aggregate report, a single document for the others.  Each destination   *)
(* holds a number of copies of each document.  A destination can fail at   *)
(* any call, and a call that fails may have taken effect.  The process can *)
(* be killed between any two steps, and delivers the batch again.          *)
(***************************************************************************)
EXTENDS Integers, Sequences

CONSTANTS
    Kinds,          \* report kinds whose saving is enabled
    Batch(_),       \* the reports of a kind, as a sequence
    Size(_),        \* number of documents of a report
    Covered(_),     \* index_prefix_domain_map, if any, has the report's domain
    ConfiguredSets, \* the sets of destinations to be tried
    FailOnError,    \* fail_on_output_error
    MaxAttempts     \* bound on the deliveries of the batch

(***************************************************************************)
(* Most destinations are sent one report after the other; the --output     *)
(* files, Splunk and Log Analytics get all reports of a kind at once.      *)
(***************************************************************************)
Search == {"elasticsearch", "opensearch"}

Logging == {"syslog", "gelf"}

OneByOne == Search \cup Logging \cup {"kafka", "s3", "postgresql", "webhook"}

AtOnce == {"file", "splunk", "loganalytics"}

Destinations == OneByOne \cup AtOnce

(***************************************************************************)
(* SMTP TLS reports about a domain that index_prefix_domain_map leaves out *)
(* are dropped from the batch before anything is delivered, and that is no *)
(* error.  What follows is about the reports that are left.                *)
(***************************************************************************)
Positions(k) == {i \in 1 .. Len(Batch(k)) : k = "smtp_tls" => Covered(Batch(k)[i])}

Reports == UNION {{Batch(k)[i] : i \in Positions(k)} : k \in Kinds}

Docs == UNION {{<<r, i>> : i \in 1 .. Size(r)} : r \in Reports}

ASSUME DeliveryAssumption ==
    /\ Kinds \subseteq {"aggregate", "failure", "smtp_tls"}
    /\ \A k \in Kinds : Len(Batch(k)) \in Nat
    /\ \A r \in Reports : Size(r) \in Nat \ {0}
    /\ \A c \in ConfiguredSets : c \subseteq Destinations
    /\ FailOnError \in BOOLEAN
    /\ MaxAttempts \in Nat \ {0}

VARIABLES
    configured, \* the destinations configured
    todo,       \* the calls still to be made in this attempt
    sent,       \* documents of the current report already sent
    intact,     \* report -> it still has its report_metadata
    errors,     \* output_errors is not empty
    outcome,    \* of process_reports: "running", "saved", "unsaved", "raised"
    link,       \* PostgreSQL connection: "open", "dropped" by the server, "closed"
    attempts,   \* deliveries begun
    stored,     \* destination -> document -> number of copies
    failed      \* history: destinations that failed in this attempt

held == <<intact, configured, link>>
vars == <<configured, todo, sent, intact, errors, outcome, link, attempts, stored, failed>>

(***************************************************************************)
(* The calls of one attempt.  A call for all reports of a kind has the     *)
(* position after the last.                                                *)
(***************************************************************************)
Last(k) == Len(Batch(k)) + 1

CallsFor(k) ==
    IF Positions(k) = {} THEN {}
    ELSE [dest : OneByOne, kind : {k}, at : Positions(k)]
           \cup [dest : AtOnce, kind : {k}, at : {Last(k)}]

AllCalls == UNION {CallsFor(k) : k \in Kinds}

Calls(c) == {call \in AllCalls : call.dest \in c}

(***************************************************************************)
(* Their order: the files first and Log Analytics last; in between kind    *)
(* after kind, report after report, destination after destination, and at  *)
(* the end of a kind Splunk.                                               *)
(***************************************************************************)
Stage(c) ==
    CASE c.dest = "file" -> 1
      [] c.dest = "loganalytics" -> 3
      [] OTHER -> 2

KindTurn == [aggregate |-> 1, failure |-> 2, smtp_tls |-> 3]

DestTurn ==
    [file |-> 0, elasticsearch |-> 1, opensearch |-> 2, kafka |-> 3, s3 |-> 4,
     postgresql |-> 5, syslog |-> 6, gelf |-> 7, webhook |-> 8, splunk |-> 9,
     loganalytics |-> 10]

SameKind(c, d) == Stage(c) = Stage(d) /\ c.kind = d.kind

Before(c, d) ==
    \/ Stage(c) < Stage(d)
    \/ Stage(c) = Stage(d) /\ KindTurn[c.kind] < KindTurn[d.kind]
    \/ SameKind(c, d) /\ c.at < d.at
    \/ SameKind(c, d) /\ c.at = d.at /\ DestTurn[c.dest] < DestTurn[d.dest]

First(c) == c \in todo /\ \A d \in todo \ {c} : Before(c, d)

Init ==
    /\ configured \in ConfiguredSets
    /\ todo = Calls(configured)
    /\ sent = 0
    /\ intact = [r \in Reports |-> TRUE]
    /\ errors = FALSE
    /\ outcome = "running"
    /\ link = "open"
    /\ attempts = 1
    /\ stored = [d \in Destinations |-> [x \in Docs |-> 0]]
    /\ failed = {}

-----------------------------------------------------------------------------
TheReport(c) == Batch(c.kind)[c.at]

ReportsOf(c) ==
    IF c.dest \in OneByOne THEN {TheReport(c)}
                           ELSE {Batch(c.kind)[i] : i \in Positions(c.kind)}

DocsOf(c) == {x \in Docs : x[1] \in ReportsOf(c)}

Stripped(c) == c.kind = "aggregate" /\ \E r \in ReportsOf(c) : ~intact[r]

Deposit(c, docs) ==
    stored' = [stored EXCEPT ![c.dest] =
                 [x \in Docs |-> IF x \in docs THEN @[x] + 1 ELSE @[x]]]

DepositAll(c) == Deposit(c, DocsOf(c))

DepositNext(c) == Deposit(c, {<<TheReport(c), sent + 1>>})

Held(c) == \E x \in DocsOf(c) : stored[c.dest][x] > 0

(***************************************************************************)
(* How a call ends: it is done; its error is logged and remembered; or it  *)
(* raises something process_reports does not catch.                        *)
(***************************************************************************)
Advance(c) ==
    /\ todo' = todo \ {c}
    /\ sent' = 0
    /\ UNCHANGED <<errors, outcome>>

Mutant_AbortBatch(c) ==
    /\ todo' = {}
    /\ sent' = 0
    /\ errors' = TRUE
    /\ UNCHANGED outcome

LogError(c) ==
    /\ todo' = todo \ {c}
    /\ sent' = 0
    /\ errors' = TRUE
    /\ UNCHANGED outcome

Escape ==
    /\ outcome' = "raised"
    /\ UNCHANGED <<todo, sent, errors>>

Fault(c) == failed' = failed \cup {c.dest}

(***************************************************************************)
(* One document of the report has been taken; the last ends the call.      *)
(***************************************************************************)
Step(c) ==
    IF sent + 1 = Size(TheReport(c))
      THEN Advance(c)
      ELSE sent' = sent + 1 /\ UNCHANGED <<todo, errors, outcome>>

(***************************************************************************)
(* save_output() and publish_results() write kind after kind and give up   *)
(* at the first error.                                                     *)
(***************************************************************************)
GivesUp(c) ==
    /\ todo' = {d \in todo : d.dest # c.dest}
    /\ sent' = 0
    /\ errors' = TRUE
    /\ UNCHANGED outcome

SaveAll(c) ==
    \/ DepositAll(c) /\ Advance(c) /\ UNCHANGED failed
    \/ /\ DepositAll(c) \/ UNCHANGED stored
       /\ GivesUp(c)
       /\ Fault(c)

SaveFiles(c) == c.dest = "file" /\ SaveAll(c) /\ UNCHANGED <<held, attempts>>

PublishJson(c) == c.dest = "loganalytics" /\ SaveAll(c) /\ UNCHANGED <<held, attempts>>

(***************************************************************************)
(* Elasticsearch and OpenSearch: search for the report first, then save    *)
(* one document after the other.  For a failure report the search is       *)
(* outside every try.                                                      *)
(***************************************************************************)
AlreadyIndexed(c) ==
    /\ c.dest \in Search
    /\ sent = 0
    /\ Held(c)
    /\ Advance(c)
    /\ UNCHANGED <<held, attempts, stored, failed>>

SearchFails(c) ==
    /\ c.dest \in Search
    /\ sent = 0
    /\ IF c.kind = "failure" THEN Escape ELSE LogError(c)
    /\ Fault(c)
    /\ UNCHANGED <<held, attempts, stored>>

Mutant_NoSearch(c) ==
    /\ c.dest \in Search
    /\ DepositNext(c)
    /\ Step(c)
    /\ UNCHANGED <<held, attempts, failed>>

IndexDoc(c) ==
    /\ c.dest \in Search
    /\ sent = 0 => ~Held(c)
    /\ DepositNext(c)
    /\ Step(c)
    /\ UNCHANGED <<held, attempts, failed>>

IndexFails(c) ==
    /\ c.dest \in Search
    /\ sent = 0 => ~Held(c)
    /\ DepositNext(c) \/ UNCHANGED stored
    /\ LogError(c)
    /\ Fault(c)
    /\ UNCHANGED <<held, attempts>>

(***************************************************************************)
(* Kafka: strip_metadata() takes report_metadata out of an aggregate       *)
(* report itself, the object the later destinations are given, and then    *)
(* sends a message for each record; the other kinds are one message.       *)
(***************************************************************************)
Strip(c) ==
    intact' = IF c.kind = "aggregate" THEN [intact EXCEPT ![TheReport(c)] = FALSE]
                                       ELSE intact

Send(c, k) ==
    /\ c.dest = "kafka"
    /\ c.kind = k
    /\ Strip(c)
    /\ DepositNext(c)
    /\ Step(c)
    /\ UNCHANGED <<configured, link, attempts, failed>>

SendSlice(c) == Send(c, "aggregate")

SendFailure(c) == Send(c, "failure")

SendSmtpTls(c) == Send(c, "smtp_tls")

SendFails(c) ==
    /\ c.dest = "kafka"
    /\ Strip(c)
    /\ DepositNext(c) \/ UNCHANGED stored
    /\ LogError(c)
    /\ Fault(c)
    /\ UNCHANGED <<configured, link, attempts>>

(***************************************************************************)
(* S3: the key is built from the report, so that another attempt           *)
(* overwrites the object.  Only SMTP TLS reports are read as flat; a       *)
(* failure report never has the report_metadata the others are read from.  *)
(***************************************************************************)
Unkeyed(c) == Stripped(c) \/ c.kind = "failure"

Put(c) == stored' = [stored EXCEPT !["s3"] =
                       [x \in Docs |-> IF x[1] \in ReportsOf(c) THEN 1 ELSE @[x]]]

PutObject(c) ==
    /\ c.dest = "s3"
    /\ \/ Unkeyed(c) /\ LogError(c) /\ UNCHANGED <<stored, failed>>
       \/ ~Unkeyed(c) /\ Put(c) /\ Advance(c) /\ UNCHANGED failed
       \/ ~Unkeyed(c) /\ (Put(c) \/ UNCHANGED stored) /\ LogError(c) /\ Fault(c)
    /\ UNCHANGED <<held, attempts>>

(***************************************************************************)
(* PostgreSQL: _ensure_connected() opens a connection anew only if it is   *)
(* known to be closed; a connection that the server has dropped is found   *)
(* out by the statement that fails on it.                                  *)
(***************************************************************************)
Connected == link # "closed"

Reconnect(c) ==
    /\ c.dest = "postgresql"
    /\ ~Connected
    /\ \/ link' = "open" /\ UNCHANGED <<todo, sent, errors, outcome, failed>>
       \/ UNCHANGED link /\ LogError(c) /\ Fault(c)
    /\ UNCHANGED <<configured, intact, attempts, stored>>

ConnectionDrops(c) ==
    /\ c.dest = "postgresql"
    /\ link = "open"
    /\ link' = "dropped"
    /\ UNCHANGED <<configured, todo, sent, intact, errors, outcome, attempts, stored, failed>>

(***************************************************************************)
(* A report is saved in one transaction.  The first statement is refused   *)
(* for NOT NULL columns if the metadata is gone, and finds the report if   *)
(* it is there: by the table's UNIQUE key, or by a query for a failure     *)
(* report.  Otherwise the rows are inserted and committed.                 *)
(***************************************************************************)
NotNullViolated(c) == sent = 0 /\ Stripped(c)

Conflict(c) == sent = 0 /\ ~Stripped(c) /\ Held(c)

InsertRow(c) ==
    /\ sent < Size(TheReport(c))
    /\ ~NotNullViolated(c) /\ ~Conflict(c)
    /\ sent' = sent + 1
    /\ UNCHANGED <<todo, errors, outcome>>

Save(c, k) ==
    /\ c.dest = "postgresql"
    /\ c.kind = k
    /\ link = "open"
    /\ \/ NotNullViolated(c) /\ LogError(c)
       \/ Conflict(c) /\ Advance(c)
       \/ InsertRow(c)
    /\ UNCHANGED <<held, attempts, stored, failed>>

Mutant_AutoCommit(c) ==
    /\ c.dest = "postgresql"
    /\ c.kind = "aggregate"
    /\ link = "open"
    /\ InsertRow(c)
    /\ DepositNext(c)
    /\ UNCHANGED <<held, attempts, failed>>

SaveAggregate(c) == Save(c, "aggregate")

SaveFailure(c) == Save(c, "failure")

SaveSmtpTls(c) == Save(c, "smtp_tls")

Commit(c) ==
    /\ c.dest = "postgresql"
    /\ link = "open"
    /\ sent = Size(TheReport(c))
    /\ DepositAll(c)
    /\ Advance(c)
    /\ UNCHANGED <<held, attempts, failed>>

(***************************************************************************)
(* A statement or the commit fails, which rolls the transaction back       *)
(* unless only the answer to the commit was lost.                          *)
(***************************************************************************)
StatementFails(c) ==
    /\ c.dest = "postgresql"
    /\ Connected
    /\ link' = IF link = "dropped" THEN "closed" ELSE link
    /\ \/ UNCHANGED stored
       \/ /\ link = "dropped"
          /\ sent = Size(TheReport(c))
          /\ DepositAll(c)
    /\ LogError(c)
    /\ Fault(c)
    /\ UNCHANGED <<configured, intact, attempts>>

(***************************************************************************)
(* Syslog and GELF flatten the report into rows, which needs its metadata, *)
(* and hand them to logging handlers that swallow delivery errors; the     *)
(* webhook client swallows its own.                                        *)
(***************************************************************************)
Emit(c, d) ==
    /\ c.dest = d
    /\ \/ Stripped(c) /\ LogError(c) /\ UNCHANGED stored
       \/ /\ ~Stripped(c)
          /\ DepositAll(c) \/ UNCHANGED stored
          /\ Advance(c)
    /\ UNCHANGED <<held, attempts, failed>>

EmitSyslog(c) == Emit(c, "syslog")

EmitGelf(c) == Emit(c, "gelf")

SendToWebhook(c) ==
    /\ c.dest = "webhook"
    /\ DepositAll(c) \/ UNCHANGED stored
    /\ Advance(c)
    /\ UNCHANGED <<held, attempts, failed>>

(***************************************************************************)
(* Splunk: one request for the reports of a kind.  An aggregate report     *)
(* without metadata is a KeyError, and only SplunkError is caught around   *)
(* the call.                                                               *)
(***************************************************************************)
Post(c, k) ==
    /\ c.dest = "splunk"
    /\ c.kind = k
    /\ ~Stripped(c)
    /\ \/ DepositAll(c) /\ Advance(c) /\ UNCHANGED failed
       \/ /\ DepositAll(c) \/ UNCHANGED stored
          /\ LogError(c)
          /\ Fault(c)
    /\ UNCHANGED <<held, attempts>>

PostAggregate(c) ==
    \/ Post(c, "aggregate")
    \/ c.dest = "splunk" /\ Stripped(c) /\ Escape /\ UNCHANGED <<held, attempts, stored, failed>>

PostFailure(c) == Post(c, "failure")

PostSmtpTls(c) == Post(c, "smtp_tls")

-----------------------------------------------------------------------------
(***************************************************************************)
(* process_reports returns output_errors, or raises ParserError.           *)
(***************************************************************************)
Mutant_ErrorsForgiven ==
    /\ outcome = "running"
    /\ todo = {}
    /\ outcome' = IF errors /\ FailOnError THEN "raised" ELSE "saved"
    /\ UNCHANGED <<held, todo, sent, errors, attempts, stored, failed>>

Finish ==
    /\ outcome = "running"
    /\ todo = {}
    /\ outcome' = IF ~errors THEN "saved" ELSE IF FailOnError THEN "raised" ELSE "unsaved"
    /\ UNCHANGED <<held, todo, sent, errors, attempts, stored, failed>>

(***************************************************************************)
(* An unsaved batch, or one whose delivery was cut short by a kill, is     *)
(* fetched, parsed and delivered again.                                    *)
(***************************************************************************)
Redeliver ==
    /\ outcome # "saved"
    /\ attempts < MaxAttempts
    /\ attempts' = attempts + 1
    /\ todo' = Calls(configured)
    /\ sent' = 0
    /\ intact' = [r \in Reports |-> TRUE]
    /\ errors' = FALSE
    /\ failed' = {}
    /\ link' = IF outcome = "running" THEN "open" ELSE link
    /\ outcome' = "running"
    /\ UNCHANGED <<configured, stored>>

Over ==
    /\ outcome # "running"
    /\ outcome = "saved" \/ attempts = MaxAttempts
    /\ UNCHANGED vars

(***************************************************************************)
(* The call whose turn it is.                                              *)
(***************************************************************************)
Deliver(c) ==
    /\ outcome = "running"
    /\ First(c)
    /\ \/ SaveFiles(c) \/ PublishJson(c)
       \/ AlreadyIndexed(c) \/ SearchFails(c) \/ IndexDoc(c) \/ IndexFails(c)
       \/ SendSlice(c) \/ SendFailure(c) \/ SendSmtpTls(c) \/ SendFails(c)
       \/ PutObject(c)
       \/ Reconnect(c) \/ ConnectionDrops(c)
       \/ SaveAggregate(c) \/ SaveFailure(c) \/ SaveSmtpTls(c)
       \/ Commit(c) \/ StatementFails(c)
       \/ EmitSyslog(c) \/ EmitGelf(c) \/ SendToWebhook(c)
       \/ PostAggregate(c) \/ PostFailure(c) \/ PostSmtpTls(c)

Next ==
    \/ \E c \in todo : Deliver(c)
    \/ Finish \/ Redeliver \/ Over

Spec == Init /\ [][Next]_vars

-----------------------------------------------------------------------------
Confirming == Destinations \ (Logging \cup {"webhook"})

(***************************************************************************)
(* usage.md: a report is never removed from the mailbox while it exists    *)
(* nowhere else.  When process_reports reports success, every document is  *)
(* at every configured destination that saves a report as a whole.         *)
(***************************************************************************)
SavedMeansDelivered ==
    outcome = "saved" =>
        \A d \in (configured \cap Confirming) \ Search : \A x \in Docs : stored[d][x] > 0

(***************************************************************************)
(* usage.md: retries leave Elasticsearch, OpenSearch, PostgreSQL and S3    *)
(* unaffected, also when a failed call had taken effect.                   *)
(***************************************************************************)
DedupedOnce ==
    \A d \in Search \cup {"postgresql", "s3"} : \A x \in Docs : stored[d][x] <= 1

(***************************************************************************)
(* A destination that is up and still cannot take a report: it needs the   *)
(* metadata Kafka took out, or is S3 and the report a failure report.      *)
(***************************************************************************)
Deprived(d, r) ==
    \/ d \in Logging \cup {"s3", "postgresql", "splunk"} /\ ~intact[r]
    \/ /\ d = "s3" /\ "failure" \in Kinds
       /\ \E i \in Positions("failure") : Batch("failure")[i] = r

(***************************************************************************)
(* One destination that fails keeps no report from another: when           *)
(* process_reports returns, every healthy destination has every report it  *)
(* can take.                                                               *)
(***************************************************************************)
FailureIsolated ==
    outcome \in {"saved", "unsaved"} =>
        \A d \in ((configured \cap Confirming) \ Search) \ failed :
            \A x \in Docs : stored[d][x] > 0 \/ Deprived(d, x[1])

(***************************************************************************)
(* A PostgreSQL report is there as a whole or not at all.                  *)
(***************************************************************************)
PostgresAtomic ==
    \A x, y \in Docs : x[1] = y[1] => stored["postgresql"][x] = stored["postgresql"][y]

-----------------------------------------------------------------------------
(***************************************************************************)
(* usage.md: "Each batch is written to every configured output             *)
(* destination", so a batch that counts as saved is in the search index.   *)
(***************************************************************************)
SavedMeansIndexed ==
    outcome = "saved" =>
        \A d \in configured \cap Search : \A x \in Docs : stored[d][x] > 0

=============================================================================
