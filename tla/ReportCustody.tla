---------------------------- MODULE ReportCustody ----------------------------
(***************************************************************************)
(* What mailbox processing promises to the owner of the mailbox, with no   *)
(* batches, caches, counters or process in it: a report has a custodian at *)
(* every moment.  Its message waits in the reports folder until the report *)
(* is saved; only then may the message be removed.  A message whose save   *)
(* failed often enough may be set aside instead, and is then never removed *)
(* by the program.  The promise has one hole: a report that the last       *)
(* reading refused may be taken for a message without a report, and        *)
(* misfiled.                                                               *)
(***************************************************************************)
EXTENDS Integers

CONSTANTS
    Messages,
    NoReport,       \* the messages that carry no report
    Report(_),      \* the report a message carries; copies carry the same
    Patience        \* failed saves before a message may be set aside

VARIABLES
    custody,        \* "unsent", "waiting", "removed", "aside" or "misfiled"
    saved,          \* reports accepted by the outputs
    failures,       \* failed saves of each message's batch
    refused         \* messages whose report the last reading refused

custodyVars == <<custody, saved, failures, refused>>

Waiting == {m \in Messages : custody[m] = "waiting"}

CustodyInit ==
    /\ custody = [m \in Messages |-> "unsent"]
    /\ saved = {}
    /\ failures = [m \in Messages |-> 0]
    /\ refused = {}

Deliver(m) ==
    /\ custody[m] = "unsent"
    /\ custody' = [custody EXCEPT ![m] = "waiting"]
    /\ UNCHANGED <<saved, failures, refused>>

Save(S) ==
    /\ saved' = saved \cup {Report(m) : m \in S}
    /\ UNCHANGED <<custody, failures, refused>>

Fail(S) ==
    /\ failures' = [m \in Messages |-> IF m \in S THEN failures[m] + 1
                                                  ELSE failures[m]]
    /\ UNCHANGED <<custody, saved, refused>>

Remove(m) ==
    /\ custody[m] = "waiting"
    /\ m \in NoReport \/ Report(m) \in saved
    /\ custody' = [custody EXCEPT ![m] = "removed"]
    /\ UNCHANGED <<saved, failures, refused>>

SetAside(m) ==
    /\ custody[m] = "waiting"
    /\ failures[m] >= Patience
    /\ custody' = [custody EXCEPT ![m] = "aside"]
    /\ UNCHANGED <<saved, failures, refused>>

Reread(m) ==
    /\ custody[m] = "waiting"
    /\ m \notin NoReport
    /\ refused' \in {refused \cup {m}, refused \ {m}}
    /\ UNCHANGED <<custody, saved, failures>>

Misfile(m) ==
    /\ custody[m] = "waiting"
    /\ m \in refused
    /\ custody' = [custody EXCEPT ![m] = "misfiled"]
    /\ UNCHANGED <<saved, failures, refused>>

CustodyNext ==
    \/ \E m \in Messages :
          Deliver(m) \/ Remove(m) \/ SetAside(m) \/ Reread(m) \/ Misfile(m)
    \/ \E S \in SUBSET Waiting : Save(S) \/ Fail(S)

CustodySpec == CustodyInit /\ [][CustodyNext]_custodyVars

=============================================================================
