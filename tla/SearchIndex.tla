---------------------------- MODULE SearchIndex ----------------------------
(***************************************************************************)
(* How reports get into the search backend: the save functions of          *)
(* elastic.py and opensearch.py, which look for the report first, with the *)
(* indexes they create and the names they search and save under.           *)
(*                                                                         *)
(* A text is the sequence of words the backend's analyzer makes of it; a   *)
(* time is a number, and a document is a record with the fields that a     *)
(* query compares.  A saved document can be searched for only after the    *)
(* next refresh.  A call on the backend may fail before or after it took   *)
(* effect (at most MaxOutages times), the process can be killed at any     *)
(* point of a save, and a report may be saved again.                       *)
(***************************************************************************)
EXTENDS Integers, Sequences, FiniteSets

CONSTANTS
    Reports,     \* the reports that are to be saved
    Deployments, \* the configurations that may be in force
    Tenants,     \* index_prefix_domain_map: from domains to prefixes
    Older,       \* failure reports an earlier version saved as dmarc_forensic
    MaxSaves,    \* bound on the calls of a save function
    MaxOutages   \* bound on failing calls

Backends == {"elasticsearch", "opensearch"}

None == "none"

(***************************************************************************)
(* What parsing returns.  The interval of a record lies within that of its *)
(* report; a record that could not be read is left out, and a report that  *)
(* is left with none is saved like any other.                              *)
(***************************************************************************)
Text == Seq(STRING)

AggregateReport(r) ==
    /\ r.kind = "aggregate"
    /\ r.org_name \in Text /\ r.report_id \in Text /\ r.domain \in Text
    /\ r.begin \in Int /\ r.end \in Int
    /\ r.rows \in Seq([begin : Int, end : Int])
    /\ \A i \in DOMAIN r.rows : r.begin <= r.rows[i].begin /\ r.rows[i].end <= r.end

FailureReport(r) ==
    /\ r.kind = "failure"
    /\ r.arrival_date \in Int
    /\ DOMAIN r.headers \subseteq {"from", "to", "reply_to", "subject"}
    /\ \A h \in DOMAIN r.headers :
          IF h = "subject" THEN r.headers[h] \in Text
                           ELSE r.headers[h] \in [display : Text, address : Text]

SmtpTlsReport(r) ==
    /\ r.kind = "smtp_tls"
    /\ r.org_name \in Text /\ r.report_id \in Text
    /\ r.begin \in Int /\ r.end \in Int

ASSUME ReportsAssumption ==
    /\ \A r \in Reports : AggregateReport(r) \/ FailureReport(r) \/ SmtpTlsReport(r)
    /\ \A r \in Older : FailureReport(r)

ASSUME BoundsAssumption == MaxSaves \in Nat /\ MaxOutages \in Nat

(***************************************************************************)
(* What is configured: auth, region and credentials are OpenSearch's;      *)
(* serverless is Elasticsearch's, and hosted says what the cluster is.     *)
(***************************************************************************)
ASSUME DeploymentsAssumption ==
    \A d \in Deployments :
        /\ DOMAIN d = {"prefix", "suffix", "monthly", "auth", "region",
                       "credentials", "serverless", "hosted"}
        /\ d.monthly \in BOOLEAN /\ d.region \in BOOLEAN /\ d.credentials \in BOOLEAN
        /\ d.serverless \in BOOLEAN /\ d.hosted \in BOOLEAN
        /\ d.suffix \in Seq(Text) /\ Len(d.suffix) <= 1

VARIABLES
    backend,   \* the search backend
    now,       \* the deployment in force
    indexes,   \* names of the indexes that exist
    documents, \* documents in them
    job,       \* the save function at work, or Idle
    outcome,   \* how the last save of a report ended
    broken,    \* history: reports a save of which broke off after its search
    saves,
    outages

searchVars == <<backend, now, indexes, documents, job, outcome, broken, saves, outages>>

Idle == [step |-> "idle"]

----------------------------------------------------------------------------
(***************************************************************************)
(* The query language: match_phrase, match on a date, and range.  A phrase *)
(* without words matches nothing, and a clause on a field that a document  *)
(* lacks does not match it.                                                *)
(***************************************************************************)
Occurs(phrase, text) ==
    /\ phrase # <<>>
    /\ \E i \in 0 .. Len(text) - Len(phrase) :
          \A j \in DOMAIN phrase : text[i + j] = phrase[j]

Satisfies(doc, clause) ==
    /\ clause.field \in DOMAIN doc
    /\ \/ clause.op = "match_phrase" /\ Occurs(clause.value, doc[clause.field])
       \/ clause.op = "match" /\ doc[clause.field] = clause.value
       \/ clause.op = "gte" /\ doc[clause.field] >= clause.value
       \/ clause.op = "lte" /\ doc[clause.field] <= clause.value

Clause(field, op, value) == [field |-> field, op |-> op, value |-> value]

(***************************************************************************)
(* From, To and Reply-To are a display name and an address, flattened to   *)
(* "name <address>", or to the address when there is no name.              *)
(***************************************************************************)
Flattened(header) == header.display \o header.address

Headers(r) ==
    [h \in DOMAIN r.headers |->
        IF h \in {"from", "to", "reply_to"} THEN Flattened(r.headers[h])
                                            ELSE r.headers[h]]

(***************************************************************************)
(* The documents of a report: one for each record of an aggregate report,  *)
(* dated by the interval of the record, and one for any other report.      *)
(***************************************************************************)
AggregateDocs(r) ==
    [i \in DOMAIN r.rows |->
        [org_name |-> r.org_name, report_id |-> r.report_id, domain |-> r.domain,
         date_begin |-> r.rows[i].begin, date_end |-> r.rows[i].end]]

FailureDocs(r) ==
    LET headers == Headers(r)
        plain == [arrival_date |-> r.arrival_date]
    IN  <<[f \in {"arrival_date"} \cup DOMAIN headers |->
              IF f = "arrival_date" THEN plain[f] ELSE headers[f]]>>

SmtpTlsDocs(r) ==
    <<[org_name |-> r.org_name, report_id |-> r.report_id,
       date_begin |-> r.begin, date_end |-> r.end]>>

(***************************************************************************)
(* What a save function does with its report r: the base names it searches *)
(* under, the clauses of its query, its documents with the base name and   *)
(* the time that name their index, and whether an error of the search is   *)
(* turned into an ElasticsearchError or OpenSearchError.                   *)
(***************************************************************************)
Mutant_NoInterval(r) ==
    [searched |-> {"dmarc_aggregate"},
     query |-> {Clause("org_name", "match_phrase", r.org_name),
                Clause("report_id", "match_phrase", r.report_id),
                Clause("domain", "match_phrase", r.domain),
                Clause("date_begin", "match", r.begin),
                Clause("date_end", "match", r.end)},
     base |-> "dmarc_aggregate",
     docs |-> AggregateDocs(r),
     dated |-> [i \in DOMAIN r.rows |-> r.rows[i].begin],
     guarded |-> TRUE]

ElasticAggregate(r) ==
    [searched |-> {"dmarc_aggregate"},
     query |-> {Clause("org_name", "match_phrase", r.org_name),
                Clause("report_id", "match_phrase", r.report_id),
                Clause("domain", "match_phrase", r.domain),
                Clause("date_begin", "gte", r.begin),
                Clause("date_end", "lte", r.end)},
     base |-> "dmarc_aggregate",
     docs |-> AggregateDocs(r),
     dated |-> [i \in DOMAIN r.rows |-> r.rows[i].begin],
     guarded |-> TRUE]

SampleClauses(r) ==
    {Clause(h, "match_phrase", Headers(r)[h]) :
        h \in DOMAIN r.headers \cap {"from", "to", "subject"}}

ElasticFailure(r) ==
    [searched |-> {"dmarc_failure", "dmarc_forensic"},
     query |-> {Clause("arrival_date", "match", r.arrival_date)} \cup SampleClauses(r),
     base |-> "dmarc_failure",
     docs |-> FailureDocs(r),
     dated |-> <<r.arrival_date>>,
     guarded |-> FALSE]

ElasticSmtpTls(r) ==
    [searched |-> {"smtp_tls"},
     query |-> {Clause("org_name", "match_phrase", r.org_name),
                Clause("report_id", "match_phrase", r.report_id),
                Clause("date_begin", "match", r.begin),
                Clause("date_end", "match", r.end)},
     base |-> "smtp_tls",
     docs |-> SmtpTlsDocs(r),
     dated |-> <<r.begin>>,
     guarded |-> TRUE]

(***************************************************************************)
(* opensearch.py compares and saves the same fields, with its own code.    *)
(***************************************************************************)
OpenSearchAggregate(r) ==
    LET text == [org_name |-> r.org_name, report_id |-> r.report_id, domain |-> r.domain]
    IN  [searched |-> {"dmarc_aggregate"},
         query |-> {Clause(f, "match_phrase", text[f]) : f \in DOMAIN text}
                     \cup {Clause("date_begin", "gte", r.begin),
                           Clause("date_end", "lte", r.end)},
         base |-> "dmarc_aggregate",
         docs |-> AggregateDocs(r),
         dated |-> [i \in DOMAIN r.rows |-> r.rows[i].begin],
         guarded |-> TRUE]

OpenSearchFailure(r) ==
    [searched |-> {"dmarc_failure", "dmarc_forensic"},
     query |-> {Clause("arrival_date", "match", r.arrival_date)} \cup SampleClauses(r),
     base |-> "dmarc_failure",
     docs |-> FailureDocs(r),
     dated |-> <<r.arrival_date>>,
     guarded |-> FALSE]

OpenSearchSmtpTls(r) ==
    LET text == [org_name |-> r.org_name, report_id |-> r.report_id]
        time == [date_begin |-> r.begin, date_end |-> r.end]
    IN  [searched |-> {"smtp_tls"},
         query |-> {Clause(f, "match_phrase", text[f]) : f \in DOMAIN text}
                     \cup {Clause(f, "match", time[f]) : f \in DOMAIN time},
         base |-> "smtp_tls",
         docs |-> SmtpTlsDocs(r),
         dated |-> <<r.begin>>,
         guarded |-> TRUE]

SavingElastic(r) ==
    IF r.kind = "aggregate" THEN ElasticAggregate(r)
    ELSE IF r.kind = "failure" THEN ElasticFailure(r)
    ELSE ElasticSmtpTls(r)

SavingOpenSearch(r) ==
    IF r.kind = "aggregate" THEN OpenSearchAggregate(r)
    ELSE IF r.kind = "failure" THEN OpenSearchFailure(r)
    ELSE OpenSearchSmtpTls(r)

Saving(r) ==
    IF backend = "elasticsearch" THEN SavingElastic(r) ELSE SavingOpenSearch(r)

----------------------------------------------------------------------------
(***************************************************************************)
(* Names: the index a document of the report goes to, and the pattern that *)
(* the search is made under.  A prefix is the configured one or else that  *)
(* of the tenant.  now.suffix is empty or holds the configured suffix, a   *)
(* sequence of letters, which the pattern leaves open at its end.  A blank *)
(* suffix counts as one for the pattern and as none for the index.         *)
(***************************************************************************)
DaysPerMonth == 30

Prefix(r) ==
    IF now.prefix # None THEN now.prefix
    ELSE IF r.about \in DOMAIN Tenants THEN Tenants[r.about]
    ELSE None

IndexOf(r, time) ==
    [prefix |-> Prefix(r),
     base |-> Saving(r).base,
     suffix |-> IF now.suffix = <<>> THEN <<>> ELSE now.suffix[1],
     date |-> IF now.monthly THEN <<"month", time \div DaysPerMonth>> ELSE <<"day", time>>]

Begins(text, letters) ==
    Len(letters) <= Len(text) /\ SubSeq(text, 1, Len(letters)) = letters

Mutant_AnyPrefix(r, index) ==
    /\ index.base \in Saving(r).searched
    /\ now.suffix # <<>> =>
          index.suffix # <<>> /\ Begins(index.suffix, now.suffix[1])

Searched(r, index) ==
    /\ index.prefix = Prefix(r)
    /\ index.base \in Saving(r).searched
    /\ now.suffix # <<>> =>
          index.suffix # <<>> /\ Begins(index.suffix, now.suffix[1])

Existing(r) ==
    {d \in documents : /\ d.seen
                       /\ Searched(r, d.at)
                       /\ \A c \in Saving(r).query : Satisfies(d.fields, c)}

----------------------------------------------------------------------------
(***************************************************************************)
(* set_hosts: Elasticsearch takes what it is given; OpenSearch refuses an  *)
(* unknown auth_type, and SigV4 without a region or credentials.           *)
(***************************************************************************)
OpenSearchAccepts(d) ==
    \/ d.auth = "basic"
    \/ d.auth = "awssigv4" /\ d.region /\ d.credentials

Accepts(b, d) == b = "elasticsearch" \/ OpenSearchAccepts(d)

(***************************************************************************)
(* create_indexes gives shard settings with an index, which a serverless   *)
(* cluster rejects; the serverless option takes them out.                  *)
(***************************************************************************)
ShardsRejected == backend = "elasticsearch" /\ now.hosted /\ ~now.serverless

Found(r) == [at |-> [prefix |-> None, base |-> "dmarc_forensic", suffix |-> <<>>,
                     date |-> <<"day", r.arrival_date>>],
             of |-> r, row |-> 1, save |-> 0, seen |-> TRUE,
             fields |-> FailureDocs(r)[1]]

SearchInit ==
    /\ backend \in Backends
    /\ now \in {d \in Deployments : Accepts(backend, d)}
    /\ documents = {Found(r) : r \in Older}
    /\ indexes = {d.at : d \in documents}
    /\ job = Idle
    /\ outcome = [r \in Reports |-> "none"]
    /\ broken = {}
    /\ saves = 0
    /\ outages = 0

(***************************************************************************)
(* A reload or a restart with another configuration, between two saves.    *)
(***************************************************************************)
Reconfigure(d) ==
    /\ job = Idle
    /\ d # now
    /\ Accepts(backend, d)
    /\ now' = d
    /\ UNCHANGED <<backend, indexes, documents, job, outcome, broken, saves, outages>>

RefreshIndexes ==
    /\ \E d \in documents : ~d.seen
    /\ documents' = {[d EXCEPT !.seen = TRUE] : d \in documents}
    /\ UNCHANGED <<backend, now, indexes, job, outcome, broken, saves, outages>>

(***************************************************************************)
(* process_reports calls the save function of the report's kind, but drops *)
(* an SMTP TLS report that the tenants' map has no prefix for.             *)
(***************************************************************************)
Save(r) ==
    /\ job = Idle
    /\ saves < MaxSaves
    /\ r.kind = "smtp_tls" => DOMAIN Tenants = {} \/ r.about \in DOMAIN Tenants
    /\ saves' = saves + 1
    /\ job' = [step |-> "search", report |-> r, row |-> 1]
    /\ UNCHANGED <<backend, now, indexes, documents, outcome, broken, outages>>

At(step) == job.step = step

Ends(how) ==
    /\ job' = Idle
    /\ outcome' = [outcome EXCEPT ![job.report] = how]
    /\ broken' = IF how \in {"error", "killed"} /\ ~At("search")
                    THEN broken \cup {job.report} ELSE broken

Goes(step) == job' = [job EXCEPT !.step = step] /\ UNCHANGED <<outcome, broken>>

Fault == outages < MaxOutages /\ outages' = outages + 1

AlreadySaved ==
    /\ At("search")
    /\ Existing(job.report) # {}
    /\ Ends("skipped")
    /\ UNCHANGED <<backend, now, indexes, documents, saves, outages>>

NotFound ==
    /\ At("search")
    /\ Existing(job.report) = {}
    /\ IF Saving(job.report).docs = <<>> THEN Ends("saved") ELSE Goes("create")
    /\ UNCHANGED <<backend, now, indexes, documents, saves, outages>>

(***************************************************************************)
(* The search of a failure report is outside every try: its error leaves   *)
(* process_reports as well.                                                *)
(***************************************************************************)
SearchFails ==
    /\ At("search")
    /\ Fault
    /\ Ends(IF Saving(job.report).guarded THEN "error" ELSE "raised")
    /\ UNCHANGED <<backend, now, indexes, documents, saves>>

Index == IndexOf(job.report, Saving(job.report).dated[job.row])

CreateIndex ==
    /\ At("create")
    /\ \/ /\ Index \notin indexes /\ ShardsRejected
          /\ Ends("error")
          /\ UNCHANGED <<indexes, outages>>
       \/ /\ Index \in indexes \/ ~ShardsRejected
          /\ indexes' = indexes \cup {Index}
          /\ Goes("save")
          /\ UNCHANGED outages
       \/ Fault /\ Ends("error") /\ UNCHANGED indexes
    /\ UNCHANGED <<backend, now, documents, saves>>

Document ==
    [at |-> Index, of |-> job.report, row |-> job.row, save |-> saves, seen |-> FALSE,
     fields |-> Saving(job.report).docs[job.row]]

SaveDocument ==
    /\ At("save")
    /\ documents' = documents \cup {Document}
    /\ IF job.row < Len(Saving(job.report).docs)
         THEN job' = [job EXCEPT !.step = "create", !.row = @ + 1]
              /\ UNCHANGED <<outcome, broken>>
         ELSE Ends("saved")
    /\ UNCHANGED <<backend, now, indexes, saves, outages>>

SaveFails ==
    /\ At("save")
    /\ Fault
    /\ documents' \in {documents, documents \cup {Document}}
    /\ Ends("error")
    /\ UNCHANGED <<backend, now, indexes, saves>>

(***************************************************************************)
(* The process dies in a save, which stores one document after the other:  *)
(* what it stored stays, and the call it was in may still take effect.     *)
(***************************************************************************)
Killed ==
    /\ job # Idle
    /\ Ends("killed")
    /\ \/ UNCHANGED <<indexes, documents>>
       \/ /\ At("create") /\ ~ShardsRejected
          /\ indexes' = indexes \cup {Index}
          /\ UNCHANGED documents
       \/ /\ At("save")
          /\ documents' = documents \cup {Document}
          /\ UNCHANGED indexes
    /\ UNCHANGED <<backend, now, saves, outages>>

SearchNext ==
    \/ \E d \in Deployments : Reconfigure(d)
    \/ RefreshIndexes
    \/ \E r \in Reports : Save(r)
    \/ AlreadySaved \/ NotFound \/ SearchFails
    \/ CreateIndex
    \/ SaveDocument \/ SaveFails
    \/ Killed

SearchSpec == SearchInit /\ [][SearchNext]_searchVars

----------------------------------------------------------------------------
(***************************************************************************)
(* What the search can tell apart.  A phrase without words matches no      *)
(* document, so that a report with such a name, or such a header, is never *)
(* found again.  A report is mistaken for another one whose texts hold the *)
(* words of its own and, for an aggregate report, which has a record in    *)
(* the interval of its own.                                                *)
(***************************************************************************)
Searchable(r) ==
    \A c \in Saving(r).query : c.op = "match_phrase" => c.value # <<>>

LookAlike(r, q) ==
    /\ r.kind = q.kind
    /\ r.kind # "failure" =>
          Occurs(r.org_name, q.org_name) /\ Occurs(r.report_id, q.report_id)
    /\ r.kind = "smtp_tls" => r.begin = q.begin /\ r.end = q.end
    /\ r.kind = "aggregate" =>
          /\ Occurs(r.domain, q.domain)
          /\ \E i \in DOMAIN q.rows :
                q.rows[i].begin >= r.begin /\ q.rows[i].end <= r.end
    /\ r.kind = "failure" =>
          /\ r.arrival_date = q.arrival_date
          /\ \A h \in DOMAIN r.headers \cap {"from", "to", "subject"} :
                h \in DOMAIN q.headers /\ Occurs(Headers(r)[h], Headers(q)[h])

StoredWhole(r, prefix) ==
    \A i \in DOMAIN Saving(r).docs :
        \E d \in documents : d.of = r /\ d.row = i /\ d.at.prefix = prefix

SavesAnew == At("search") /\ job'.step = "create"

(***************************************************************************)
(* usage.md: Elasticsearch and OpenSearch "recognize an already-saved      *)
(* report".  A report with a document that can be searched for, in an      *)
(* index of the same prefix and suffix, is not saved a second time: not    *)
(* after a save that failed half way, not after a change between daily and *)
(* monthly indexes, not after an upgrade from the dmarc_forensic names.    *)
(***************************************************************************)
RecognizesItself ==
    [][SavesAnew /\ Searchable(job.report) /\ now.suffix # <<<<>>>>
       => \A d \in documents :
             d.seen /\ d.of = job.report /\ d.at.prefix = Prefix(job.report)
             => d.at.suffix # Index.suffix]_searchVars

(***************************************************************************)
(* usage.md: no report is taken out of the mailbox that "exists nowhere    *)
(* else".  A report is passed over as already saved only when it, or a     *)
(* look-alike, is stored as a whole where its own tenant can see it; or    *)
(* else an earlier save of that report broke off between its search and    *)
(* its last document, by an error or by the death of the process.          *)
(***************************************************************************)
SkippedIsStored ==
    [][At("search") /\ job' = Idle /\ outcome'[job.report] = "skipped"
       => \E q \in {job.report} \cup {p \in Reports \cup Older : LookAlike(job.report, p)} :
             q \in broken \/ StoredWhole(q, Prefix(job.report))]_searchVars

=============================================================================
