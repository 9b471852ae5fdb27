--------------------------- MODULE MCSearchIndex ---------------------------
(***************************************************************************)
(* An instance of SearchIndex: two aggregate reports of one organization   *)
(* under the same ID about domains of two tenants, one from an             *)
(* organization whose name begins with the words of the other's, one that  *)
(* is left without records, three failure reports of one moment, and a TLS *)
(* report.                                                                 *)
(***************************************************************************)
EXTENDS SearchIndex

Aggregate(org, id, domain, rows) ==
    [kind |-> "aggregate", org_name |-> org, report_id |-> id, domain |-> <<domain>>,
     about |-> domain, begin |-> 28, end |-> 32, rows |-> rows]

Row(b, e) == [begin |-> b, end |-> e]

Failure(headers) ==
    [kind |-> "failure", arrival_date |-> 29, about |-> "example.com",
     headers |-> headers]

Sender == [display |-> <<"a">>, address |-> <<"a", "example.com">>]

McReports ==
    {Aggregate(<<"google">>, <<"1">>, "example.com", <<Row(28, 30), Row(30, 32)>>),
     Aggregate(<<"google">>, <<"1">>, "tenant.com", <<Row(28, 32)>>),
     Aggregate(<<"google", "inc">>, <<"1">>, "example.com", <<Row(28, 32)>>),
     Aggregate(<<"example">>, <<"2">>, "example.com", <<>>),
     Failure([from |-> Sender, subject |-> <<"hi">>]),
     Failure([from |-> Sender]),
     Failure([from |-> Sender, subject |-> <<>>]),
     [kind |-> "smtp_tls", org_name |-> <<"google">>, report_id |-> <<"1">>,
      about |-> "tenant.com", begin |-> 28, end |-> 30]}

McOlder == {Failure([from |-> Sender, subject |-> <<"hi">>])}

McTenants == [d \in {"tenant.com"} |-> "tenant_"]

Deployment(prefix, suffix, monthly) ==
    [prefix |-> prefix, suffix |-> suffix, monthly |-> monthly, auth |-> "basic",
     region |-> FALSE, credentials |-> FALSE, serverless |-> FALSE, hosted |-> FALSE]

McDeployments ==
    {Deployment(None, <<>>, FALSE),
     Deployment(None, <<<<"a">>>>, FALSE),
     [Deployment("own_", <<<<"a">>>>, FALSE) EXCEPT !.auth = "awssigv4", !.region = TRUE],
     Deployment(None, <<<<"a", "b">>>>, TRUE),
     Deployment(None, <<<<>>>>, FALSE),
     [Deployment(None, <<>>, FALSE) EXCEPT !.hosted = TRUE],
     [Deployment(None, <<>>, TRUE) EXCEPT !.hosted = TRUE, !.serverless = TRUE]}

=============================================================================
