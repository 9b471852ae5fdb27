-------------------------- MODULE MCReportParsing --------------------------
(***************************************************************************)
(* ReportParsing for TLC.  Of the three addresses, alpha has a PTR record  *)
(* that only the current overrides fold, beta one that is in the map, and  *)
(* gamma none.                                                             *)
(***************************************************************************)
EXTENDS ReportParsing

CONSTANTS alpha, beta, gamma

MCPtr(a) ==
    CASE a = alpha -> "mail.host.example" [] a = beta -> "mx.sender.example"
      [] a = gamma -> None

MCBase(a, list) ==
    CASE a = alpha -> (IF list = "current" THEN "host.example" ELSE "mail.host.example")
      [] a = beta -> "sender.example"

MCAsDomain(a) ==
    CASE a = alpha -> "as1.example" [] a = beta -> "as2.example" [] a = gamma -> "as3.example"

MCRemoteMap == {"host.example", "sender.example", "as3.example"}

MCTornMap == {"host.example"}

MCLocalMap == {"sender.example", "as3.example"}

-----------------------------------------------------------------------------
Blob(pack, form, content) ==
    [pack |-> pack, sound |-> TRUE, size |-> 1, form |-> form, body |-> content]

Sized(blob, size) == [blob EXCEPT !.size = size]

Damaged(blob) == [blob EXCEPT !.sound = FALSE]

Rec(shape, a, n) == [shape |-> shape, addr |-> a, count |-> n]

Xml(markup, complete, from, to, records) ==
    [markup |-> markup, complete |-> complete, begin |-> from, end |-> to, records |-> records]

Long == Xml("good", TRUE, 3, 12, <<Rec("good", alpha, 5), Rec("good", gamma, 2)>>)

Mixed == Xml("repairable", TRUE, 4, 8,
             <<Rec("noip", None, 1), Rec("good", beta, 3), Rec("bad", gamma, 1)>>)

Single == Xml("good", TRUE, 2, 9, <<Rec("good", beta, 1)>>)

BadSingle == Xml("good", TRUE, 0, 4, <<Rec("bad", beta, 1)>>)

Lacking == Xml("good", FALSE, 0, 4, <<>>)

Tls(valid) == Blob("none", "json", [valid |-> valid])

Other(blob) == [type |-> "other", base64 |-> TRUE, blob |-> blob]

Text == [type |-> "plain"]

NotBase64 == [type |-> "other", base64 |-> FALSE]

Feedback(complete, domain) ==
    [type |-> "feedback", report |-> [complete |-> complete, domain |-> domain, addr |-> alpha]]

Sample(coded, declared) ==
    [type |-> "sample", coded |-> coded, declared |-> declared, from |-> TRUE]

Anonymous(sample) == [sample EXCEPT !.from = FALSE]

Claim(sound, ended) ==
    [type |-> "claim", sound |-> sound, ended |-> ended,
     sample |-> [decoded |-> TRUE, from |-> TRUE],
     report |-> [complete |-> TRUE, domain |-> FALSE, addr |-> gamma]]

Blank(claim) == [claim EXCEPT !.sample = None]

File(blob, holds) == [via |-> "file", blob |-> blob, holds |-> holds]

Message(parts, holds) ==
    [via |-> "mail", envelope |-> "dated", parts |-> parts, holds |-> holds]

In(envelope, message) == [message EXCEPT !.envelope = envelope]

-----------------------------------------------------------------------------
Archived(envelope) ==
    [envelope |-> envelope, parts |-> <<Text, Other(Blob("gzip", "xml", Mixed))>>]

(***************************************************************************)
(* Files: an archive of exactly the limit and one above it, a cut one,     *)
(* each form of report in good and bad order, a mail, and no report.       *)
(***************************************************************************)
Files ==
    {File(Blob("none", "xml", Long), {"aggregate"}),
     File(Sized(Blob("gzip", "xml", Single), Limit), {"aggregate"}),
     File(Sized(Blob("zip", "xml", Single), Limit + 1), {}),
     File(Damaged(Blob("gzip", "xml", Single)), {}),
     File(Blob("zip", "xml", Lacking), {}),
     File(Blob("none", "xml", BadSingle), {}),
     File(Tls(TRUE), {"smtp_tls"}),
     File(Tls(FALSE), {}),
     File(Blob("none", "text", None), {}),
     File(Blob("none", "mail", Archived("dated")), {"aggregate"}),
     File(Blob("none", "mail", Archived("outlook")), {"aggregate"})}

(***************************************************************************)
(* Messages: each kind of part, in good and bad order; the message in the  *)
(* seventh has a document in a zip archive attached, and the one that      *)
(* cannot be dated is refused with its report.                             *)
(***************************************************************************)
Messages ==
    {Message(<<Text, NotBase64, Other(Blob("zip", "xml", Mixed))>>, {"aggregate"}),
     Message(<<Other(Blob("gzip", "xml", Long))>>, {"aggregate"}),
     Message(<<Other(Blob("none", "xml", Lacking))>>, {}),
     Message(<<Other(Blob("none", "json", [valid |-> TRUE]))>>, {"smtp_tls"}),
     Message(<<Text, Feedback(TRUE, TRUE), Sample(FALSE, FALSE)>>, {"failure"}),
     Message(<<Text, Feedback(TRUE, FALSE), Sample(TRUE, FALSE)>>, {}),
     Message(<<Feedback(TRUE, TRUE), Sample(TRUE, TRUE), Other(Blob("zip", "xml", Lacking))>>,
          {"failure"}),
     Message(<<Feedback(TRUE, TRUE), Sample(TRUE, TRUE), Other(Blob("zip", "xml", Single))>>,
          {"failure", "aggregate"}),
     Message(<<Other(Blob("zip", "xml", Single)), Other(Tls(FALSE))>>, {"aggregate"}),
     Message(<<Feedback(FALSE, TRUE), Sample(FALSE, FALSE)>>, {}),
     Message(<<Sample(FALSE, FALSE), Text>>, {}),
     Message(<<Feedback(TRUE, FALSE), Anonymous(Sample(FALSE, FALSE))>>, {}),
     In("outlook", Message(<<Feedback(TRUE, FALSE), Sample(TRUE, TRUE)>>, {"failure"})),
     In("undated", Message(<<Other(Blob("zip", "xml", Single))>>, {"aggregate"})),
     Message(<<Claim(TRUE, TRUE)>>, {"failure"}),
     Message(<<Blank(Claim(TRUE, TRUE))>>, {}),
     Message(<<Claim(FALSE, TRUE)>>, {}),
     Message(<<Claim(TRUE, FALSE)>>, {}),
     Message(<<[type |-> "tls_json", braced |-> TRUE, base64 |-> FALSE, blob |-> Tls(TRUE)]>>,
          {"smtp_tls"}),
     Message(<<[type |-> "tls_json", braced |-> FALSE, base64 |-> FALSE, blob |-> Tls(FALSE)]>>,
          {}),
     Message(<<[type |-> "tls_gzip", base64 |-> TRUE, blob |-> Blob("gzip", "json", [valid |-> TRUE])]>>,
          {"smtp_tls"}),
     Message(<<[type |-> "tls_gzip", base64 |-> TRUE, blob |-> Damaged(Blob("gzip", "json", [valid |-> TRUE]))]>>,
          {})}

MCConfigs ==
    {[offline |-> FALSE, token |-> TRUE, asn |-> TRUE],
     [offline |-> TRUE, token |-> FALSE, asn |-> FALSE]}

AllItems == Files \cup Messages

=============================================================================
