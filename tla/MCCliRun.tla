------------------------------ MODULE MCCliRun ------------------------------
(***************************************************************************)
(* CliRun for TLC: the same aggregate report in two files, the mbox file   *)
(* and the mailbox, a failure report, and a file and a message that do not *)
(* parse.                                                                  *)
(***************************************************************************)
EXTENDS CliRun

CONSTANTS fileA, fileB, fileBad, mboxA, mboxB, mboxF, mboxBad, mailA, mailF, mailBad

MboxFiles == {<<>>, <<mboxA, mboxF>>, <<mboxA, mboxB>>, <<mboxF, mboxBad>>}

ReportIn(s) ==
    CASE s \in {fileA, fileB, mboxA, mboxB, mailA} -> "aggregate"
      [] s \in {mboxF, mailF} -> "failure"
      [] s \in {fileBad, mboxBad, mailBad} -> "none"

=============================================================================
