--------------------------- MODULE ReportParsing ---------------------------
(***************************************************************************)
(* parse_report_file(), parse_report_email() and the parsers they choose   *)
(* from, of parsedmarc/__init__.py, one file or message after the other in *)
(* one process, with the lookups of SourceLookup for every source address. *)
(*                                                                         *)
(* Contents are records:                                                   *)
(*  - a blob: pack ("none", "gzip", "zip"), sound (the archive can be      *)
(*    read to its end), size (unpacked), form ("xml", "json", "mail",      *)
(*    "text") and body, what the parser of that form is given;             *)
(*  - the body of an XML document: markup ("good", "repairable",           *)
(*    "hopeless"), complete (the sections and fields that are required     *)
(*    are there), begin, end and records; a record has a shape ("good",    *)
(*    "noip", "bad"), an addr and a count;                                 *)
(*  - the body of a JSON document: valid, as an SMTP TLS report;           *)
(*  - the body of a mail: its MIME parts in the order of msg.walk(), by    *)
(*    type, those of the message that a failure report encloses included.  *)
(* A file is a blob, a message in a mailbox the body of a mail; either     *)
(* says with holds which reports its sender put into it.                   *)
(***************************************************************************)
EXTENDS SourceLookup, DayBuckets

CONSTANTS
    Items,          \* the files and messages
    Limit,          \* MAX_DECOMPRESSED_REPORT_SIZE
    Threshold,      \* normalize_timespan_threshold_hours, in units of time
    KeepAliveEvery, \* records between two calls of keep_alive
    MaxItems        \* bound on the items parsed

ASSUME ParsingAssumption ==
    /\ Limit \in Nat
    /\ Threshold \in Nat
    /\ KeepAliveEvery \in Nat \ {0}
    /\ MaxItems \in Nat
    /\ \A x \in Items : x.via \in {"file", "mail"}

(***************************************************************************)
(* The mail in an item, and its MIME parts.  Content that is no mail is a  *)
(* mail of one text part.                                                  *)
(***************************************************************************)
IsMail(x) == x.via = "file" => x.blob.form = "mail"

Mail(x) == IF x.via = "mail" THEN x ELSE x.blob.body

Parts(x) == IF IsMail(x) THEN Mail(x).parts ELSE <<[type |-> "plain"]>>

(***************************************************************************)
(* The numbers of a document: dates in units of time, and counts that are  *)
(* natural numbers, as the schema of the reports has them.                 *)
(***************************************************************************)
Records == [shape : {"good", "noip", "bad"}, addr : Addresses \cup {None}, count : Nat]

TypedDocument(blob) ==
    blob.form = "xml" =>
        /\ blob.body.begin \in Int /\ blob.body.end \in Int
        /\ blob.body.records \in Seq(Records)
        /\ \A k \in DOMAIN blob.body.records :
              blob.body.records[k].shape # "noip" => blob.body.records[k].addr \in Addresses

ASSUME ContentAssumption ==
    \A x \in Items :
        /\ x.via = "file" => TypedDocument(x.blob) /\ x.blob.size \in Nat
        /\ Len(Parts(x)) \in Nat /\ DOMAIN Parts(x) = 1 .. Len(Parts(x))
        /\ \A j \in DOMAIN Parts(x) :
              LET p == Parts(x)[j]
              IN  /\ p.type = "other" /\ p.base64 => TypedDocument(p.blob)
                  /\ p.type \in {"other", "tls_gzip"} /\ p.base64 => p.blob.size \in Nat
                  /\ p.type \in {"feedback", "claim"} /\ p.report # None =>
                       p.report.addr \in Addresses

VARIABLES
    item,     \* what is being parsed, or None
    stage,    \* where its parsing is
    part,     \* the MIME part at hand; 0 before a mail is walked through
    walk,     \* is_feedback_report, feedback_report and sample of the walk
    body,     \* the aggregate report being parsed, or None
    i,        \* the record of it at hand
    rows,     \* the records made so far
    outcome,  \* the type of the report, or the class of the exception
    parsed,   \* items taken so far
    lost,     \* history: records dropped because their lookup raised
    hurt      \* history: a call outside the content failed

parseVars == <<item, stage, part, walk, body, i, rows, outcome, parsed, lost, hurt>>

vars == <<lookupVars, parseVars>>

(***************************************************************************)
(* ParserError and its subclasses.                                         *)
(***************************************************************************)
InvalidDMARCReport == {"InvalidDMARCReport", "InvalidAggregateReport", "InvalidFailureReport"}

ParserError == {"ParserError", "InvalidSMTPTLSReport"} \cup InvalidDMARCReport

ReportTypes == {"aggregate", "failure", "smtp_tls"}

NewWalk == [flag |-> FALSE, feedback |-> None, sample |-> None]

Init ==
    /\ LookupInit
    /\ item = None /\ stage = "idle" /\ part = 0 /\ walk = NewWalk
    /\ body = None /\ i = 0 /\ rows = <<>> /\ outcome = None /\ parsed = 0
    /\ lost = {} /\ hurt = FALSE

-----------------------------------------------------------------------------
(***************************************************************************)
(* extract_report(): at most Limit + 1 bytes are unpacked, and more than   *)
(* Limit are refused; a gzip stream has to reach its end marker.           *)
(***************************************************************************)
Read(blob) == IF blob.size <= Limit + 1 THEN blob.size ELSE Limit + 1

Mutant_ReadLimit(blob) ==
    IF blob.pack = "none" THEN blob.form \in {"xml", "json"}
                          ELSE blob.sound /\ Read(blob) <= Limit + 1

Extractable(blob) ==
    IF blob.pack = "none" THEN blob.form \in {"xml", "json"}
                          ELSE blob.sound /\ Read(blob) <= Limit

(***************************************************************************)
(* parse_aggregate_report_xml() up to the records: XML that does not parse *)
(* is repaired, or replaced by an empty element; then the metadata, the    *)
(* policy and at least one record have to be there.                        *)
(***************************************************************************)
Repaired(xml) == xml.markup \in {"good", "repairable"}

Heading(xml) == xml.complete /\ xml.records # <<>>

IsAggregate(blob) == blob.form = "xml" /\ Repaired(blob.body) /\ Heading(blob.body)

(***************************************************************************)
(* parse_smtp_tls_report_json().                                           *)
(***************************************************************************)
IsSmtpTls(blob) == blob.form = "json" /\ blob.body.valid

(***************************************************************************)
(* xmltodict gives a list only for more than one record.                   *)
(***************************************************************************)
Listed == Len(body.records) > 1

-----------------------------------------------------------------------------
Finish(result) ==
    /\ stage' = "over"
    /\ outcome' = result
    /\ UNCHANGED <<item, part, walk, body, i, rows, parsed>>

Goto(s) ==
    /\ stage' = s
    /\ UNCHANGED <<item, part, walk, body, i, rows, outcome, parsed>>

Unhurt == UNCHANGED <<lost, hurt>>

(***************************************************************************)
(* A file that the e-mail parser refuses with InvalidDMARCReport is        *)
(* refused with a ParserError that describes why.                          *)
(***************************************************************************)
Described(class) ==
    IF item.via = "file" /\ class \in InvalidDMARCReport THEN "ParserError" ELSE class

(***************************************************************************)
(* An exception of the aggregate parser: for the file itself the next      *)
(* parser is tried; for a part of a mail it becomes a ParserError.         *)
(***************************************************************************)
RefuseAggregate == IF part = 0 THEN Goto("tls") ELSE Finish("ParserError")

StartRecords(xml) ==
    /\ stage' = "records"
    /\ body' = xml
    /\ i' = 1
    /\ rows' = <<>>
    /\ lost' = {}
    /\ UNCHANGED <<item, part, walk, outcome, parsed, hurt>>

Take(x) ==
    /\ stage \in {"idle", "over"}
    /\ parsed < MaxItems
    /\ item' = x
    /\ stage' = IF x.via = "file" THEN "read" ELSE "open"
    /\ part' = IF x.via = "file" THEN 0 ELSE 1
    /\ walk' = NewWalk
    /\ body' = None /\ i' = 0 /\ rows' = <<>> /\ outcome' = None
    /\ parsed' = parsed + 1
    /\ lost' = {} /\ hurt' = FALSE
    /\ UNCHANGED lookupVars

-----------------------------------------------------------------------------
(***************************************************************************)
(* parse_report_file(): read and unpack, then the three parsers in turn.   *)
(***************************************************************************)
ReadFile ==
    /\ stage = "read"
    /\ IF item.blob.pack # "none" /\ ~Extractable(item.blob)
         THEN Finish("ParserError")
         ELSE Goto("aggregate")
    /\ Unhurt
    /\ UNCHANGED lookupVars

ReadFails ==
    /\ stage = "read"
    /\ Fault
    /\ Finish("OSError")
    /\ hurt' = TRUE
    /\ UNCHANGED <<conf, cache, map, overrides, look, last, lost>>

TryAggregate ==
    /\ stage = "aggregate"
    /\ \/ IsAggregate(item.blob) /\ StartRecords(item.blob.body)
       \/ ~IsAggregate(item.blob) /\ RefuseAggregate /\ Unhurt
    /\ UNCHANGED lookupVars

TryTls ==
    /\ stage = "tls"
    /\ IF IsSmtpTls(item.blob)
         THEN Finish("smtp_tls")
         ELSE /\ stage' = "open"
              /\ part' = 1
              /\ UNCHANGED <<item, walk, body, i, rows, outcome, parsed>>
    /\ Unhurt
    /\ UNCHANGED lookupVars

-----------------------------------------------------------------------------
(***************************************************************************)
(* parse_report_email() opens the mail: an Outlook message is converted,   *)
(* for which msgconvert has to be there and succeed, and a Date header has *)
(* to be readable.                                                         *)
(***************************************************************************)
Outlook == IsMail(item) /\ Mail(item).envelope = "outlook"

Undated == IsMail(item) /\ Mail(item).envelope = "undated"

OpenMail ==
    /\ stage = "open"
    /\ IF Undated THEN Finish("ParserError") ELSE Goto("walk")
    /\ Unhurt
    /\ UNCHANGED lookupVars

ConversionFails ==
    /\ stage = "open"
    /\ Outlook
    /\ Fault
    /\ Finish("ParserError")
    /\ hurt' = TRUE
    /\ UNCHANGED <<conf, cache, map, overrides, look, last, lost>>

(***************************************************************************)
(* Its MIME parts are walked through.                                      *)
(***************************************************************************)
Part == Parts(item)[part]

AtPart(types) == stage = "walk" /\ part <= Len(Parts(item)) /\ Part.type \in types

NextPart(w) ==
    /\ part' = part + 1
    /\ walk' = w
    /\ UNCHANGED <<item, stage, body, i, rows, outcome, parsed>>

Quiet == Unhurt /\ UNCHANGED lookupVars

SkipPart ==
    /\ \/ AtPart({"html", "plain"})
       \/ AtPart({"sample"}) /\ ~walk.flag
       \/ AtPart({"other"}) /\ ~Part.base64
    /\ NextPart(walk)
    /\ Quiet

(***************************************************************************)
(* message/feedback-report, whose text is decoded by hand when neither it  *)
(* nor its transfer encoding shows the fields.                             *)
(***************************************************************************)
FeedbackPart ==
    /\ AtPart({"feedback"})
    /\ NextPart([walk EXCEPT !.flag = TRUE, !.feedback = Part.report])
    /\ Quiet

(***************************************************************************)
(* _decode_mime_payload(): a declared transfer encoding is undone; without *)
(* one the text stays as it is.                                            *)
(***************************************************************************)
Decoded(p) == ~p.coded \/ p.declared

Enclosed(p) == [decoded |-> Decoded(p), from |-> p.from]

SamplePart ==
    /\ AtPart({"sample"})
    /\ walk.flag
    /\ NextPart([walk EXCEPT !.sample = Enclosed(Part)])
    /\ Quiet

(***************************************************************************)
(* application/tlsrpt+json and +gzip: outside any try of this function.    *)
(***************************************************************************)
TlsJsonPart ==
    /\ AtPart({"tls_json"})
    /\ Finish(IF ~Part.braced /\ ~Part.base64 THEN "binascii.Error"
              ELSE IF IsSmtpTls(Part.blob) THEN "smtp_tls"
              ELSE "InvalidSMTPTLSReport")
    /\ Quiet

TlsGzipPart ==
    /\ AtPart({"tls_gzip"})
    /\ Finish(IF Part.base64 /\ ~Extractable(Part.blob) THEN "ParserError"
              ELSE IF IsSmtpTls(Part.blob) THEN "smtp_tls"
              ELSE "InvalidSMTPTLSReport")
    /\ Quiet

(***************************************************************************)
(* The plain-text failure reports of one provider: the fields have to be   *)
(* there, and the sample is what follows the word that ends them.          *)
(***************************************************************************)
ClaimPart ==
    /\ AtPart({"claim"})
    /\ \/ ~Part.sound /\ Finish(Described("InvalidDMARCReport"))
       \/ Part.sound /\ ~Part.ended /\ Finish("IndexError")
       \/ /\ Part.sound /\ Part.ended
          /\ NextPart([walk EXCEPT !.feedback = Part.report, !.sample = Part.sample])
    /\ Quiet

(***************************************************************************)
(* Any other part: an archive is unpacked, and what looks like JSON or XML *)
(* is taken for the report.                                                *)
(***************************************************************************)
OtherPart ==
    LET blob == Part.blob
    IN  /\ AtPart({"other"})
        /\ Part.base64
        /\ \/ /\ blob.pack # "none" /\ ~Extractable(blob)
              /\ Finish("ParserError")
              /\ Unhurt
           \/ /\ blob.pack # "none" => Extractable(blob)
              /\ \/ /\ blob.form = "json"
                    /\ Finish(IF IsSmtpTls(blob) THEN "smtp_tls" ELSE "ParserError")
                    /\ Unhurt
                 \/ IsAggregate(blob) /\ StartRecords(blob.body)
                 \/ blob.form = "xml" /\ ~IsAggregate(blob) /\ RefuseAggregate /\ Unhurt
                 \/ blob.form \notin {"xml", "json"} /\ NextPart(walk) /\ Unhurt
        /\ UNCHANGED lookupVars

(***************************************************************************)
(* After the walk a feedback report and a sample make a failure report,    *)
(* if neither is empty.                                                    *)
(***************************************************************************)
NoReport ==
    /\ stage = "walk"
    /\ part > Len(Parts(item))
    /\ walk.feedback = None \/ walk.sample = None
    /\ Finish(Described("InvalidDMARCReport"))
    /\ Quiet

-----------------------------------------------------------------------------
(***************************************************************************)
(* parse_email() finds the domain of the sample's From header, if the text *)
(* is readable and the header is there.                                    *)
(***************************************************************************)
FromDomain(sample) == sample.decoded /\ sample.from

(***************************************************************************)
(* parse_failure_report(): some fields are needed before the lookup; a     *)
(* reported domain, of the report or of the sample, after it.              *)
(***************************************************************************)
StartFailure ==
    /\ stage = "walk"
    /\ part > Len(Parts(item))
    /\ walk.feedback # None /\ walk.sample # None
    /\ \/ /\ ~walk.feedback.complete
          /\ Finish(Described("InvalidFailureReport"))
          /\ UNCHANGED lookupVars
       \/ /\ walk.feedback.complete
          /\ Begin(walk.feedback.addr)
          /\ Goto("failure")
    /\ Unhurt

EndFailure ==
    /\ stage = "failure"
    /\ \/ At("done")
          /\ Finish(IF walk.feedback.domain \/ FromDomain(walk.sample)
                      THEN "failure" ELSE Described("InvalidFailureReport"))
          /\ Unhurt
       \/ /\ At("raised")
          /\ Finish(Described("InvalidFailureReport"))
          /\ hurt' = TRUE
          /\ UNCHANGED lost
    /\ Rest
    /\ UNCHANGED <<conf, cache, map, overrides, faults, last>>

-----------------------------------------------------------------------------
(***************************************************************************)
(* The records of an aggregate report.  Whatever goes wrong with one of    *)
(* several records drops that record; with the only one, the report.       *)
(***************************************************************************)
AtRecord == stage = "records" /\ At("idle") /\ i <= Len(body.records)

Record == body.records[i]

Drop ==
    IF Listed
      THEN i' = i + 1 /\ UNCHANGED <<item, stage, part, walk, body, rows, outcome, parsed>>
      ELSE RefuseAggregate

(***************************************************************************)
(* keep_alive() of the mailbox, between records and outside their try.     *)
(***************************************************************************)
KeepAliveFails ==
    /\ AtRecord
    /\ item.via = "mail" /\ Listed
    /\ i > 1 /\ (i - 1) % KeepAliveEvery = 0
    /\ Fault
    /\ RefuseAggregate
    /\ hurt' = TRUE
    /\ UNCHANGED <<conf, cache, map, overrides, look, last, lost>>

StartRecord ==
    /\ AtRecord
    /\ \/ Record.shape = "noip" /\ Drop /\ UNCHANGED lookupVars
       \/ Record.shape # "noip" /\ Begin(Record.addr) /\ Goto("records")
    /\ Unhurt

(***************************************************************************)
(* _append_parsed_record(): as it is, or a row for each day.               *)
(***************************************************************************)
Normalized == body.end - body.begin > Threshold

Row(bucket) == [rec |-> i, begin |-> bucket.begin, end |-> bucket.end, count |-> bucket.count]

NewRows ==
    IF Normalized
      THEN LET bs == Buckets(body.begin, body.end, Record.count)
           IN  [j \in DOMAIN bs |-> Row(bs[j])]
      ELSE <<Row([begin |-> body.begin, end |-> body.end, count |-> Record.count])>>

AppendRecord ==
    /\ stage = "records"
    /\ At("done")
    /\ IF Record.shape = "bad"
         THEN Drop
         ELSE /\ rows' = rows \o NewRows
              /\ i' = i + 1
              /\ UNCHANGED <<item, stage, part, walk, body, outcome, parsed>>
    /\ Rest
    /\ Unhurt
    /\ UNCHANGED <<conf, cache, map, overrides, faults, last>>

(***************************************************************************)
(* The lookup raised: OSError, FileNotFoundError, or InvalidIPinfoAPIKey.  *)
(***************************************************************************)
LoseRecord ==
    /\ stage = "records"
    /\ At("raised")
    /\ Drop
    /\ lost' = lost \cup {i}
    /\ hurt' = TRUE
    /\ Rest
    /\ UNCHANGED <<conf, cache, map, overrides, faults, last>>

EndRecords ==
    /\ stage = "records"
    /\ At("idle")
    /\ i > Len(body.records)
    /\ Finish("aggregate")
    /\ Quiet

-----------------------------------------------------------------------------
Lookup == LookupStep /\ UNCHANGED parseVars

(***************************************************************************)
(* Between two items: hours may pass, and a reload may be committed.       *)
(***************************************************************************)
Between ==
    /\ stage \in {"idle", "over"}
    /\ ReloadMap \/ \E a \in Addresses : Expire(a)
    /\ UNCHANGED parseVars

ParseStep ==
    \/ ReadFile \/ ReadFails \/ TryAggregate \/ TryTls
    \/ OpenMail \/ ConversionFails
    \/ SkipPart \/ FeedbackPart \/ SamplePart \/ TlsJsonPart \/ TlsGzipPart
    \/ ClaimPart \/ OtherPart \/ NoReport
    \/ StartFailure \/ EndFailure
    \/ KeepAliveFails \/ StartRecord \/ AppendRecord \/ LoseRecord \/ EndRecords

Next == (\E x \in Items : Take(x)) \/ ParseStep \/ Lookup \/ Between

Spec == Init /\ [][Next]_vars

-----------------------------------------------------------------------------
Over == stage = "over"

\* What the rows of a record count together.
Counted(k) ==
    SumTo([j \in DOMAIN rows |-> IF rows[j].rec = k THEN rows[j].count ELSE 0], Len(rows))

(***************************************************************************)
(* Every record of an aggregate report that is well formed and whose       *)
(* lookup did not raise is in the result with its whole count, spread over *)
(* the days in their order; nothing else is, and no row of a normalized    *)
(* report crosses midnight.                                                *)
(***************************************************************************)
RowsComplete ==
    Over /\ outcome = "aggregate" =>
        /\ \A k \in DOMAIN body.records :
             Counted(k) = IF body.records[k].shape = "good" /\ k \notin lost
                            THEN body.records[k].count ELSE 0
        /\ \A j \in DOMAIN rows : rows[j].rec \in DOMAIN body.records
        /\ \A j, k \in DOMAIN rows : j < k =>
             \/ rows[j].rec < rows[k].rec
             \/ rows[j].rec = rows[k].rec /\ rows[j].end <= rows[k].begin
        /\ Normalized => \A j \in DOMAIN rows :
             (rows[j].end - 1) \div Day = rows[j].begin \div Day

(***************************************************************************)
(* What a sender can have put into a file or a message.  An archive counts *)
(* if it is whole and within the limit, an aggregate report if its records *)
(* can be read, where one of several may be bad.                           *)
(***************************************************************************)
Opens(blob) == blob.pack # "none" => blob.sound /\ blob.size <= Limit

HoldsAggregate(blob) ==
    /\ IsAggregate(blob)
    /\ Len(blob.body.records) = 1 => blob.body.records[1].shape = "good"

AggregatePart(p) ==
    p.type = "other" /\ p.base64 /\ Opens(p.blob) /\ HoldsAggregate(p.blob)

TlsPart(p) ==
    \/ p.type = "other" /\ p.base64 /\ Opens(p.blob) /\ IsSmtpTls(p.blob)
    \/ p.type = "tls_json" /\ (p.braced \/ p.base64) /\ IsSmtpTls(p.blob)
    \/ p.type = "tls_gzip" /\ (p.base64 => Opens(p.blob)) /\ IsSmtpTls(p.blob)

(***************************************************************************)
(* A failure report is the last feedback report and the last sample after  *)
(* one, where a claim is both, and names the domain that was reported.     *)
(***************************************************************************)
IsClaim(p) == p.type = "claim" /\ p.sound /\ p.ended

Reporting(x) ==
    {j \in DOMAIN Parts(x) : Parts(x)[j].type = "feedback" \/ IsClaim(Parts(x)[j])}

Sampling(x) ==
    {j \in DOMAIN Parts(x) :
       \/ IsClaim(Parts(x)[j])
       \/ /\ Parts(x)[j].type = "sample"
          /\ \E k \in 1 .. j - 1 : Parts(x)[k].type = "feedback"}

SampleOf(p) == IF p.type = "claim" THEN p.sample ELSE Enclosed(p)

IsFailure(report, sample) ==
    /\ report # None /\ sample # None
    /\ report.complete
    /\ report.domain \/ FromDomain(sample)

HoldsFailure(x) ==
    \E r \in Reporting(x), s \in Sampling(x) :
       /\ \A j \in Reporting(x) : j <= r
       /\ \A j \in Sampling(x) : j <= s
       /\ IsFailure(Parts(x)[r].report, SampleOf(Parts(x)[s]))

Contents(x) ==
    {t \in ReportTypes :
       /\ x.via = "file" => Opens(x.blob)
       /\ \/ /\ t = "aggregate"
             /\ \/ x.via = "file" /\ HoldsAggregate(x.blob)
                \/ \E j \in DOMAIN Parts(x) : AggregatePart(Parts(x)[j])
          \/ /\ t = "smtp_tls"
             /\ \/ x.via = "file" /\ IsSmtpTls(x.blob)
                \/ \E j \in DOMAIN Parts(x) : TlsPart(Parts(x)[j])
          \/ t = "failure" /\ HoldsFailure(x)}

ASSUME HoldsAssumption ==
    \A x \in Items :
        /\ x.holds = Contents(x)
        /\ \A j \in Sampling(x) : Parts(x)[j].type = "sample" => Enclosed(Parts(x)[j]) # None

(***************************************************************************)
(* The first MIME part that ends the walk is no report: a part, also one   *)
(* of the message that a failure report encloses, that unpacks to          *)
(* something beginning like XML or JSON, is a damaged archive, or is       *)
(* marked as a TLS report or worded as a claim.  The code takes it for the *)
(* report and refuses the mail.                                            *)
(***************************************************************************)
EndsWalk(p) ==
    \/ p.type \in {"tls_json", "tls_gzip"}
    \/ p.type = "claim" /\ ~IsClaim(p)
    \/ /\ p.type = "other"
       /\ p.base64
       /\ Opens(p.blob) => p.blob.form \in {"xml", "json"}

Misleading(p) == EndsWalk(p) /\ ~AggregatePart(p) /\ ~TlsPart(p)

Shadowed ==
    \E j \in DOMAIN Parts(item) :
       /\ Misleading(Parts(item)[j])
       /\ \A k \in 1 .. j - 1 : ~EndsWalk(Parts(item)[k])

(***************************************************************************)
(* What is accepted is a report of a type that was sent, and was read to   *)
(* its end; and where there is a report one is accepted, unless a lookup,  *)
(* a file or the mailbox failed while it was parsed, another part shadows  *)
(* it, or the mail has a Date header that cannot be read.                  *)
(***************************************************************************)
RightReport ==
    Over =>
        /\ outcome \in ReportTypes => outcome \in item.holds
        /\ (item.holds # {} /\ ~hurt /\ ~Shadowed /\ ~Undated) => outcome \in item.holds

=============================================================================
