--------------------------- MODULE MCReportFiles ---------------------------
(***************************************************************************)
(* ReportFiles with two runs that find the same files: two failure reports *)
(* of one name and subject in different directories.                       *)
(***************************************************************************)
EXTENDS ReportFiles, TLC

First == [kind |-> "failure", id |-> 1, subject |-> "hello"]
Second == [kind |-> "failure", id |-> 2, subject |-> "hello"]
MCInputs ==
    (<<"in", "report", 0>> :> First) @@ (<<"more", "report", 0>> :> Second)

MCSubdir(x) == "2024/01/Failure"

RunSymmetry == Permutations(Runs)

(***************************************************************************)
(* The CSV rows of an SMTP TLS report whose second policy has no strings:  *)
(* its row carries those of the first.                                     *)
(***************************************************************************)
Tls == [kind |-> "smtp_tls", id |-> 3,
        policies |-> <<[domain |-> "a", strings |-> "sts", details |-> <<"expired">>],
                       [domain |-> "b", strings |-> None, details |-> <<>>]>>]

ASSUME CarriedStrings ==
    TlsRows(Tls) = <<[id |-> 3, strings |-> "sts", policy |-> "a"],
                     [id |-> 3, strings |-> "sts", detail |-> "expired"],
                     [id |-> 3, strings |-> "sts", policy |-> "b"]>>
=============================================================================
