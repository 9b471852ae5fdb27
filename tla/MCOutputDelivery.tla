-------------------------- MODULE MCOutputDelivery --------------------------
(***************************************************************************)
(* OutputDelivery for TLC: an aggregate report with two records, a failure *)
(* report and two SMTP TLS reports, one of which is about a domain that    *)
(* no tenant has, against several sets of destinations.                    *)
(***************************************************************************)
EXTENDS OutputDelivery

CONSTANTS aggregate, failure, smtptls, foreign

AllReports(k) ==
    CASE k = "aggregate" -> <<aggregate>>
      [] k = "failure" -> <<failure>>
      [] k = "smtp_tls" -> <<foreign, smtptls>>

Records(r) == IF r = aggregate THEN 2 ELSE 1

OfTenants(r) == r # foreign

(***************************************************************************)
(* Every destination is in one of the sets; two of them also deliver       *)
(* reports their destinations cannot take.                                 *)
(***************************************************************************)
Mixed ==
    {{"elasticsearch", "postgresql", "splunk"},
     {"opensearch", "syslog", "loganalytics"},
     {"file", "kafka"},
     {"opensearch", "webhook"},
     {"elasticsearch", "s3", "postgresql"},
     {"kafka", "s3", "postgresql", "gelf", "splunk"}}

Indexes == {{"elasticsearch"}, {"opensearch"}}

=============================================================================
