--------------------------- MODULE MCMailboxIngest ---------------------------
(***************************************************************************)
(* Instances of MailboxIngest for TLC: two copies of one aggregate report, *)
(* a failure report, a message without a report and one whose parse        *)
(* raises.                                                                 *)
(***************************************************************************)
EXTENDS MailboxIngest, FiniteSetsExt, TLC

CONSTANTS a1, a2, f1, i1, x1, k1

MCKind == [m \in Messages |->
              CASE m \in {a1, a2} -> "aggregate"
                [] m = f1 -> "failure"
                [] m = i1 -> "invalid"
                [] m = x1 -> "raising"]

MCKey == [m \in Messages |-> k1]

Keep == [k \in Kinds |-> FALSE]

DeleteAll == [k \in Kinds |-> TRUE]

(***************************************************************************)
(* Deleting failure reports only, as delete_failure does.                  *)
(***************************************************************************)
DeleteFailure == [Keep EXCEPT !["failure"] = TRUE]

Option(size, since, test, delete, parallel, watch, swallows) ==
    [batchSize |-> size, since |-> since, test |-> test, delete |-> delete,
     parallel |-> parallel, watch |-> watch, swallows |-> swallows]

(***************************************************************************)
(* A watcher of an IMAP folder without a batch size that deletes failure   *)
(* reports, a one-shot run over a Gmail label with parallel parsing that   *)
(* deletes, one with since, test mode, and the rejected combination of     *)
(* test and delete.                                                        *)
(***************************************************************************)
SafetyOptions ==
    { Option(0, FALSE, FALSE, DeleteFailure, FALSE, TRUE, TRUE),
      Option(2, FALSE, FALSE, DeleteAll, TRUE, FALSE, FALSE),
      Option(0, TRUE, FALSE, DeleteFailure, TRUE, FALSE, FALSE),
      Option(0, FALSE, TRUE, Keep, FALSE, TRUE, FALSE),
      Option(1, FALSE, TRUE, DeleteFailure, TRUE, TRUE, TRUE) }

(***************************************************************************)
(* Watchers whose loop survives a failing check, with and without a batch  *)
(* size.                                                                   *)
(***************************************************************************)
LiveOptions ==
    { Option(n, FALSE, FALSE, Keep, FALSE, TRUE, TRUE) : n \in {0, 1} }

Copies == Permutations({a1, a2})

=============================================================================
