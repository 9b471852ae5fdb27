---------------------------- MODULE MailboxIngest ----------------------------
(***************************************************************************)
(* get_dmarc_reports_from_mailbox() of parsedmarc/__init__.py, called once *)
(* at start-up and then again by every check of watch_inbox().             *)
(*                                                                         *)
(* One call fetches a batch from the reports folder, parses every message, *)
(* files the unparseable ones, hands the batch's reports to save_callback  *)
(* and only then archives or deletes the messages (saved), or counts a     *)
(* failed attempt and shelves the messages that used up their retries (not *)
(* saved).  New mail arrives at any moment, every mailbox operation can    *)
(* fail, the deduplication cache forgets, and the process can die and be   *)
(* restarted between any two steps.                                        *)
(*                                                                         *)
(* A message stands for its own report.  kind is what is in it and key the *)
(* "{org_name}_{report_id}" of an aggregate report; two messages with one  *)
(* key are two copies of one report.  What the parser makes of a message   *)
(* is up to Parse: a report can be refused for a passing reason, and some  *)
(* messages make it raise an exception that nothing in the call expects.   *)
(***************************************************************************)
EXTENDS Integers, FiniteSets

CONSTANTS
    Messages,           \* message UIDs of the reports folder
    Keys,               \* aggregate report keys
    kind,               \* [Messages -> MessageKinds]
    key,                \* [Messages -> Keys]
    Options,            \* the configurations a process may be started with
    MaxUnsavedRetries,  \* max_unsaved_retries
    DefaultBatchSize,   \* the default of the batch_size parameter (10)
    MaxFaults,          \* bound on failing mailbox operations
    MaxForgets          \* bound on restarts and cache expiries

ReportTypes == {"aggregate", "failure", "smtp_tls"}

Kinds == ReportTypes \cup {"invalid"}

(***************************************************************************)
(* What a message carries: a report; nothing that is one ("invalid"); or   *)
(* parts that make parse_report_email raise something other than a         *)
(* ParserError, whenever it is parsed ("raising"): a TLS report part that  *)
(* is not base64, or a plain-text failure notice without "detected.".      *)
(***************************************************************************)
MessageKinds == Kinds \cup {"raising"}

(***************************************************************************)
(* The folders a message can be in, relative to archive_folder.  "unsent"  *)
(* is a message that has not arrived, "deleted" one that is gone.          *)
(***************************************************************************)
Archive == [aggregate |-> "Aggregate", failure |-> "Failure",
            smtp_tls |-> "SMTP-TLS", invalid |-> "Invalid"]

Places == {"unsent", "reports", "deleted", "Unsaved"}
              \cup {Archive[k] : k \in Kinds}

(***************************************************************************)
(* An option record: batch_size (0 = no limit), since given or not, test,  *)
(* the effective delete flag of each type (delete_aggregate, ...), more    *)
(* than one worker, watch mode, and whether the backend's watch loop       *)
(* swallows an exception of a check (IMAP and Maildir do).                 *)
(***************************************************************************)
OptionRecords ==
    [batchSize : Nat, since : BOOLEAN, test : BOOLEAN,
     delete : [Kinds -> BOOLEAN], parallel : BOOLEAN,
     watch : BOOLEAN, swallows : BOOLEAN]

ASSUME MessagesAssumption == kind \in [Messages -> MessageKinds]
                             /\ key \in [Messages -> Keys]
ASSUME OptionsAssumption == Options \subseteq OptionRecords
ASSUME BoundsAssumption == /\ MaxUnsavedRetries \in Nat
                           /\ DefaultBatchSize \in Nat \ {0}
                           /\ MaxFaults \in Nat
                           /\ MaxForgets \in Nat

VARIABLES
    opts,       \* the process's options
    place,      \* where each message is
    pc,         \* the step of the current call
    watching,   \* the start-up call is over and watch_inbox() runs
    batchSize,  \* batch_size of the current call
    todo,       \* fetched messages not parsed yet
    invalid,    \* unparseable messages not filed yet
    uids,       \* the messages parsed as reports (the three *_msg_uids)
    batch,      \* the messages whose report is in batch_results
    pending,    \* pending_aggregate_keys
    seen,       \* seen_aggregate_report_ids
    attempts,   \* _FAILED_SAVE_ATTEMPTS
    callback,   \* what save_callback did: "none", "saved", "unsaved", "raised"
    moving,     \* messages the call still has to shelve or dispose of
    stored,     \* history: messages whose report save_callback accepted
    copies,     \* history: accepted deliveries of each aggregate key
    failed,     \* history: failed saves of each message's batch
    misread,    \* history: messages whose report the last parse refused
    faults,     \* history: mailbox operations that failed
    forgets     \* history: restarts and cache expiries

local == <<todo, invalid, uids, batch, pending, callback, moving>>
memory == <<seen, attempts>>
history == <<stored, copies, failed, misread>>
vars == <<opts, place, pc, watching, batchSize, local, memory, history,
          faults, forgets>>

Inbox == {m \in Messages : place[m] = "reports"}

Reports == {m \in Messages : kind[m] \in ReportTypes}

(***************************************************************************)
(* The error raised for contradictory options.                             *)
(***************************************************************************)
ValidOptions == ~(opts.test /\ \E k \in Kinds : opts.delete[k])

(***************************************************************************)
(* The message lists a call with batch size n may work on.  The backends   *)
(* return the folder in an order of their own, and with since only the     *)
(* messages that are young enough.                                         *)
(***************************************************************************)
Mutant_ShortBatch(n) ==
    IF opts.since THEN SUBSET Inbox
    ELSE IF n = 0 \/ Cardinality(Inbox) <= n THEN {Inbox}
    ELSE {S \in SUBSET Inbox : Cardinality(S) = n - 1}

Fetchable(n) ==
    IF opts.since THEN SUBSET Inbox
    ELSE IF n = 0 \/ Cardinality(Inbox) <= n THEN {Inbox}
    ELSE {S \in SUBSET Inbox : Cardinality(S) = n}

Init ==
    /\ opts \in Options
    /\ place = [m \in Messages |-> "unsent"]
    /\ pc = "idle"
    /\ watching = FALSE
    /\ batchSize = 0
    /\ todo = {} /\ invalid = {} /\ uids = {} /\ batch = {} /\ pending = {}
    /\ callback = "none" /\ moving = {}
    /\ seen = {}
    /\ attempts = [m \in Messages |-> 0]
    /\ stored = {}
    /\ copies = [k \in Keys |-> 0]
    /\ failed = [m \in Messages |-> 0]
    /\ misread = {}
    /\ faults = 0
    /\ forgets = 0

(***************************************************************************)
(* Leaving the call: its locals are gone.  A call that returns leads to    *)
(* the next check in watch mode and to the end of a one-shot run.  One     *)
(* that raises ends the process, unless it is a check of a watch loop that *)
(* swallows exceptions.                                                    *)
(***************************************************************************)
ClearLocals ==
    /\ todo' = {} /\ invalid' = {} /\ uids' = {} /\ batch' = {}
    /\ pending' = {} /\ callback' = "none" /\ moving' = {}

Return ==
    /\ ClearLocals
    /\ pc' = IF opts.watch THEN "idle" ELSE "exited"
    /\ watching' = opts.watch

Raise ==
    /\ ClearLocals
    /\ pc' = IF watching /\ opts.swallows THEN "idle" ELSE "exited"
    /\ UNCHANGED watching

(***************************************************************************)
(* Entering the call, from the CLI, a check, or the recursive call.        *)
(***************************************************************************)
Enter(n) ==
    /\ batchSize' = n
    /\ todo' \in Fetchable(n)
    /\ invalid' = {} /\ uids' = {} /\ batch' = {} /\ pending' = {}
    /\ callback' = "none" /\ moving' = {}
    /\ pc' = "parse"
    /\ UNCHANGED watching

Check ==
    /\ pc = "idle"
    /\ IF ValidOptions THEN Enter(opts.batchSize)
                       ELSE Raise /\ UNCHANGED batchSize
    /\ UNCHANGED <<opts, place, memory, history, faults, forgets>>

(***************************************************************************)
(* Parse one message.  A report is classified (_classify_parsed_email); a  *)
(* copy of a known aggregate report is dropped, yet its message is handled *)
(* like the others.  A ParserError makes the message an unparseable one:   *)
(* always when it carries no report, and for an aggregate or failure       *)
(* report when a call its parser makes fails this time, as keep_alive and  *)
(* the IP lookups can (SMTP TLS parsing makes none).  Any other exception  *)
(* leaves the call.  The sequential branch files an unparseable message    *)
(* before it parses the next one.                                          *)
(***************************************************************************)
Classify(m) ==
    LET known == kind[m] = "aggregate" /\ key[m] \in seen \cup pending
    IN  /\ uids' = uids \cup {m}
        /\ batch' = IF known THEN batch ELSE batch \cup {m}
        /\ pending' = IF kind[m] = "aggregate" /\ ~known
                        THEN pending \cup {key[m]} ELSE pending
        /\ misread' = misread \ {m}

Refusable(m) == kind[m] \in {"invalid", "aggregate", "failure"}

Refuse(m) ==
    /\ Refusable(m)
    /\ misread' = IF kind[m] = "invalid" THEN misread ELSE misread \cup {m}
    /\ UNCHANGED <<uids, batch, pending>>

Mutant_InvalidInTest(m) ==
    /\ pc = "parse"
    /\ m \in todo
    /\ opts.parallel \/ invalid = {}
    /\ \/ /\ todo' = todo \ {m}
          /\ \/ kind[m] \in ReportTypes /\ Classify(m) /\ UNCHANGED invalid
             \/ Refuse(m) /\ invalid' = invalid \cup {m}
          /\ UNCHANGED <<pc, watching, callback, moving>>
       \/ /\ kind[m] = "raising"
          /\ Raise
          /\ UNCHANGED misread
    /\ UNCHANGED <<opts, place, batchSize, memory, stored, copies, failed,
                   faults, forgets>>

Parse(m) ==
    /\ pc = "parse"
    /\ m \in todo
    /\ opts.parallel \/ invalid = {}
    /\ \/ /\ todo' = todo \ {m}
          /\ \/ kind[m] \in ReportTypes /\ Classify(m) /\ UNCHANGED invalid
             \/ Refuse(m) /\ invalid' = IF opts.test THEN invalid ELSE invalid \cup {m}
          /\ UNCHANGED <<pc, watching, callback, moving>>
       \/ /\ kind[m] = "raising"
          /\ Raise
          /\ UNCHANGED misread
    /\ UNCHANGED <<opts, place, batchSize, memory, stored, copies, failed,
                   faults, forgets>>

(***************************************************************************)
(* _dispose_invalid_message: at once in the sequential branch, after the   *)
(* last message in the parallel one.                                       *)
(***************************************************************************)
DisposeInvalid(m) ==
    /\ pc = "parse"
    /\ m \in invalid
    /\ opts.parallel => todo = {}
    /\ invalid' = invalid \ {m}
    /\ place' = [place EXCEPT ![m] = IF opts.delete["invalid"]
                                       THEN "deleted" ELSE Archive["invalid"]]
    /\ UNCHANGED <<opts, pc, watching, batchSize, todo, uids, batch, pending,
                   callback, moving, memory, history, faults, forgets>>

(***************************************************************************)
(* Creating folders, listing, fetching or disposing of an unparseable      *)
(* message fails, the keepalive of parallel parsing does, or one of its    *)
(* workers dies: the exception leaves the call before anything is saved.   *)
(***************************************************************************)
MailboxError ==
    /\ pc \in {"idle", "parse", "recheck"}
    /\ faults < MaxFaults
    /\ faults' = faults + 1
    /\ Raise
    /\ UNCHANGED <<opts, place, batchSize, memory, history, forgets>>

(***************************************************************************)
(* save_callback.  Accepted: the staged keys enter the cache and the       *)
(* failure counters of the batch are dropped.                              *)
(***************************************************************************)
Parsed == pc = "parse" /\ todo = {} /\ invalid = {}

Tally(f, S) == [m \in Messages |-> IF m \in S /\ ~opts.test
                                     THEN f[m] + 1 ELSE f[m]]

Mutant_KeysNotCached ==
    /\ Parsed
    /\ ~opts.test
    /\ stored' = stored \cup batch
    /\ copies' = [k \in Keys |-> IF k \in pending THEN copies[k] + 1
                                                  ELSE copies[k]]
    /\ pc' = "dispose"
    /\ callback' = "saved"
    /\ moving' = uids
    /\ UNCHANGED <<opts, place, watching, batchSize, todo, invalid, uids, batch,
                   pending, memory, failed, misread, faults, forgets>>

SaveAccepted ==
    /\ Parsed
    /\ seen' = seen \cup pending
    /\ attempts' = [m \in Messages |-> IF m \in uids /\ ~opts.test
                                         THEN 0 ELSE attempts[m]]
    /\ stored' = stored \cup batch
    /\ copies' = [k \in Keys |->
                    IF ~opts.test /\ k \in pending THEN copies[k] + 1
                                                   ELSE copies[k]]
    /\ \/ opts.test /\ Return
       \/ /\ ~opts.test
          /\ pc' = "dispose"
          /\ callback' = "saved"
          /\ moving' = uids
          /\ UNCHANGED <<watching, todo, invalid, uids, batch, pending>>
    /\ UNCHANGED <<opts, place, batchSize, failed, misread, faults, forgets>>

(***************************************************************************)
(* Refused, by a result of False or by an exception that is raised again   *)
(* after the bookkeeping.  The messages with no retry left are to be       *)
(* moved to Unsaved.                                                       *)
(***************************************************************************)
Mutant_CapTooHigh(S) == {m \in S : attempts[m] > MaxUnsavedRetries}

Mutant_CapTooLow(S) == {m \in S : attempts[m] + 1 >= MaxUnsavedRetries}

OverCap(S) == {m \in S : attempts[m] + 1 > MaxUnsavedRetries}

Mutant_ArchiveUnsaved(how) ==
    /\ Parsed
    /\ ~opts.test
    /\ pc' = "dispose"
    /\ callback' = how
    /\ moving' = uids
    /\ UNCHANGED <<opts, place, watching, batchSize, todo, invalid, uids, batch,
                   pending, memory, history, faults, forgets>>

Mutant_CacheUnsaved(how) ==
    /\ Parsed
    /\ seen' = seen \cup pending
    /\ IF how = "raised" THEN Raise ELSE Return
    /\ UNCHANGED <<opts, place, batchSize, attempts, history, faults, forgets>>

SaveRefused(how) ==
    /\ Parsed
    /\ failed' = Tally(failed, uids)
    /\ attempts' = Tally(attempts, uids)
    /\ \/ /\ opts.test
          /\ IF how = "raised" THEN Raise ELSE Return
       \/ /\ ~opts.test
          /\ pc' = "shelve"
          /\ callback' = how
          /\ moving' = OverCap(uids)
          /\ UNCHANGED <<watching, todo, invalid, uids, batch, pending>>
    /\ UNCHANGED <<opts, place, batchSize, seen, stored, copies, misread,
                   faults, forgets>>

Mutant_ShelveDeletes(m) ==
    /\ pc = "shelve"
    /\ m \in moving
    /\ moving' = moving \ {m}
    /\ place' = [place EXCEPT ![m] = IF opts.delete[kind[m]]
                                       THEN "deleted" ELSE "Unsaved"]
    /\ attempts' = [attempts EXCEPT ![m] = 0]
    /\ UNCHANGED <<opts, pc, watching, batchSize, todo, invalid, uids, batch,
                   pending, callback, seen, history, faults, forgets>>

Mutant_CounterBelowZero(m) ==
    /\ pc = "shelve"
    /\ m \in moving
    /\ moving' = moving \ {m}
    /\ place' = [place EXCEPT ![m] = "Unsaved"]
    /\ attempts' = [attempts EXCEPT ![m] = @ - MaxUnsavedRetries - 2]
    /\ UNCHANGED <<opts, pc, watching, batchSize, todo, invalid, uids, batch,
                   pending, callback, seen, history, faults, forgets>>

Shelve(m) ==
    /\ pc = "shelve"
    /\ m \in moving
    /\ moving' = moving \ {m}
    /\ place' = [place EXCEPT ![m] = "Unsaved"]
    /\ attempts' = [attempts EXCEPT ![m] = 0]
    /\ UNCHANGED <<opts, pc, watching, batchSize, todo, invalid, uids, batch,
                   pending, callback, seen, history, faults, forgets>>

Shelved ==
    /\ pc = "shelve"
    /\ moving = {}
    /\ IF callback = "raised" THEN Raise ELSE Return
    /\ UNCHANGED <<opts, place, batchSize, memory, history, faults, forgets>>

(***************************************************************************)
(* The saved messages are deleted or archived, aggregate reports first,    *)
(* then failure, then SMTP TLS reports.                                    *)
(***************************************************************************)
Rank == [aggregate |-> 1, failure |-> 2, smtp_tls |-> 3, invalid |-> 4]

Dispose(m) ==
    /\ pc = "dispose"
    /\ m \in moving
    /\ \A n \in moving : Rank[kind[m]] <= Rank[kind[n]]
    /\ moving' = moving \ {m}
    /\ place' = [place EXCEPT ![m] = IF opts.delete[kind[m]]
                                       THEN "deleted" ELSE Archive[kind[m]]]
    /\ UNCHANGED <<opts, pc, watching, batchSize, todo, invalid, uids, batch,
                   pending, callback, memory, history, faults, forgets>>

(***************************************************************************)
(* Moving or deleting one message of the batch fails: logged, and the loop *)
(* goes on with the next message.                                          *)
(***************************************************************************)
MoveError(m) ==
    /\ pc \in {"shelve", "dispose"}
    /\ m \in moving
    /\ faults < MaxFaults
    /\ faults' = faults + 1
    /\ moving' = moving \ {m}
    /\ UNCHANGED <<opts, place, pc, watching, batchSize, todo, invalid, uids,
                   batch, pending, callback, memory, history, forgets>>

Disposed ==
    /\ pc = "dispose"
    /\ moving = {}
    /\ \/ /\ batchSize = 0
          /\ pc' = "recheck"
          /\ UNCHANGED <<watching, local>>
       \/ /\ batchSize # 0
          /\ Return
    /\ UNCHANGED <<opts, place, batchSize, memory, history, faults, forgets>>

(***************************************************************************)
(* Without a batch size the folder is listed again, and mail that came in  *)
(* meanwhile is handled by a recursive call, which has the default batch   *)
(* size and so never recurses itself.                                      *)
(***************************************************************************)
Recheck ==
    /\ pc = "recheck"
    /\ \/ /\ Inbox = {} \/ opts.since
          /\ Return
          /\ UNCHANGED batchSize
       \/ /\ Inbox # {}
          /\ Enter(DefaultBatchSize)
    /\ UNCHANGED <<opts, place, memory, history, faults, forgets>>

(***************************************************************************)
(* The environment: mail arrives, a cache entry expires, the process dies  *)
(* (or ended) and is started again.                                        *)
(***************************************************************************)
Arrive(m) ==
    /\ place[m] = "unsent"
    /\ place' = [place EXCEPT ![m] = "reports"]
    /\ UNCHANGED <<opts, pc, watching, batchSize, local, memory, history,
                   faults, forgets>>

Expire(k) ==
    /\ k \in seen
    /\ forgets < MaxForgets
    /\ forgets' = forgets + 1
    /\ seen' = seen \ {k}
    /\ UNCHANGED <<opts, place, pc, watching, batchSize, local, attempts,
                   history, faults>>

Restart ==
    /\ forgets < MaxForgets
    /\ forgets' = forgets + 1
    /\ pc' = "idle"
    /\ watching' = FALSE
    /\ ClearLocals
    /\ seen' = {}
    /\ attempts' = [m \in Messages |-> 0]
    /\ UNCHANGED <<opts, place, batchSize, history, faults>>

(***************************************************************************)
(* A one-shot run is over for good when nothing restarts it.               *)
(***************************************************************************)
Ended ==
    /\ pc = "exited"
    /\ UNCHANGED vars

Step ==
    \/ Check
    \/ \E m \in Messages : Parse(m) \/ DisposeInvalid(m)
    \/ SaveAccepted
    \/ \E how \in {"unsaved", "raised"} : SaveRefused(how)
    \/ \E m \in Messages : Shelve(m) \/ Dispose(m)
    \/ Shelved \/ Disposed \/ Recheck

Faulty == MailboxError \/ \E m \in Messages : MoveError(m)

Environment ==
    \/ \E m \in Messages : Arrive(m)
    \/ \E k \in Keys : Expire(k)
    \/ Restart

Next == Step \/ Faulty \/ Environment \/ Ended

Spec == Init /\ [][Next]_vars

(***************************************************************************)
(* The process keeps running: it is never stopped for good between two     *)
(* steps.  Nothing is assumed of the environment or of save_callback's     *)
(* answers, and the bound on faults says that mailbox operations fail      *)
(* finitely often.                                                         *)
(***************************************************************************)
FairSpec == Spec /\ WF_vars(Step)

-----------------------------------------------------------------------------
TypeOK ==
    /\ opts \in Options
    /\ place \in [Messages -> Places]
    /\ pc \in {"idle", "parse", "shelve", "dispose", "recheck", "exited"}
    /\ watching \in BOOLEAN
    /\ batchSize \in Nat
    /\ todo \subseteq Messages /\ invalid \subseteq Messages
    /\ uids \subseteq Reports /\ batch \subseteq uids /\ moving \subseteq uids
    /\ pending \subseteq Keys /\ seen \subseteq Keys
    /\ attempts \in [Messages -> Nat]
    /\ callback \in {"none", "saved", "unsaved", "raised"}
    /\ stored \subseteq Messages
    /\ copies \in [Keys -> Nat]
    /\ failed \in [Messages -> Nat]
    /\ misread \subseteq Reports
    /\ faults \in 0 .. MaxFaults
    /\ forgets \in 0 .. MaxForgets

(***************************************************************************)
(* The report of message m is saved: save_callback accepted it, or, for an *)
(* aggregate report, a copy of it.                                         *)
(***************************************************************************)
Saved(m) ==
    \E n \in stored : \/ n = m
                      \/ /\ kind[n] = "aggregate" /\ kind[m] = "aggregate"
                         /\ key[n] = key[m]

(***************************************************************************)
(* usage.md: "a report is never removed from the mailbox while it exists   *)
(* nowhere else".  What the code keeps of it, whatever failed, expired or  *)
(* was restarted on the way: a message in the archive folder of a report   *)
(* type had its report, or a copy of it, accepted by save_callback; one in *)
(* Invalid carries no report, or its last parse refused the report; and    *)
(* one that was deleted without being saved is one of these, deleted under *)
(* delete_invalid.                                                         *)
(***************************************************************************)
Unreadable(m) == kind[m] = "invalid" \/ m \in misread

RemovedImpliesSaved ==
    \A m \in Messages :
        /\ place[m] \in {"Aggregate", "Failure", "SMTP-TLS"} => Saved(m)
        /\ place[m] = "Invalid" => Unreadable(m)
        /\ place[m] = "deleted" => \/ Saved(m)
                                   \/ Unreadable(m) /\ opts.delete["invalid"]

(***************************************************************************)
(* The deduplication cache holds keys of accepted reports only: "an        *)
(* unsaved batch (or a mid-batch crash) leaves the cache clean".           *)
(***************************************************************************)
SeenImpliesSaved ==
    \A k \in seen : \E n \in stored : kind[n] = "aggregate" /\ key[n] = k

(***************************************************************************)
(* An aggregate report is delivered to the outputs once more only after    *)
(* the cache forgot it: neither copies of the message nor failing archive  *)
(* moves deliver it twice.                                                 *)
(***************************************************************************)
AggregateSavedOnce == \A k \in Keys : copies[k] <= 1 + forgets

(***************************************************************************)
(* The retry cap.  Every failed mailbox operation and every restart can    *)
(* cost another round of attempts; without them a message takes part in    *)
(* max_unsaved_retries + 1 failed saves at most.                           *)
(***************************************************************************)
RetriesCapped ==
    \A m \in Messages :
        failed[m] <= (MaxUnsavedRetries + 1) * (1 + faults + forgets)

(***************************************************************************)
(* No message is given up early: one in Unsaved took part in               *)
(* max_unsaved_retries + 1 failed saves.                                   *)
(***************************************************************************)
ShelvedAfterRetries ==
    \A m \in Messages :
        place[m] = "Unsaved" => failed[m] >= MaxUnsavedRetries + 1

(***************************************************************************)
(* In test mode no message leaves the reports folder.                      *)
(***************************************************************************)
TestLeavesMailbox ==
    [][opts.test => \A m \in Messages :
                        place[m] = "reports" => place'[m] = "reports"]_vars

(***************************************************************************)
(* While the process runs, every message eventually leaves the reports     *)
(* folder: saved ones to the archive, unsavable ones to Unsaved,           *)
(* unparseable ones to Invalid.  Neither a batch size nor a broken output  *)
(* blocks the folder forever; a message whose parse raises does, and it    *)
(* is the only thing that can.                                             *)
(***************************************************************************)
Blocked == \E m \in Inbox : kind[m] = "raising"

EveryMessageLeaves ==
    \A m \in Messages :
        place[m] = "reports"
            ~> (place[m] # "reports" \/ Blocked \/ pc = "exited")

-----------------------------------------------------------------------------
(***************************************************************************)
(* The abstract specification of mailbox processing, and how this one maps *)
(* to it.                                                                  *)
(***************************************************************************)
Report(m) == IF kind[m] = "aggregate" THEN <<"aggregate", key[m]>>
                                      ELSE <<"message", m>>

Custody ==
    [m \in Messages |->
        CASE place[m] = "unsent" -> "unsent"
          [] place[m] = "reports" -> "waiting"
          [] place[m] = "Unsaved" -> "aside"
          [] place[m] \in {"Invalid", "deleted"} /\ m \in misread -> "misfiled"
          [] OTHER -> "removed"]

Abstract == INSTANCE ReportCustody WITH
    NoReport <- {m \in Messages : kind[m] = "invalid"},
    Patience <- MaxUnsavedRetries + 1,
    custody <- Custody,
    saved <- {Report(m) : m \in stored},
    failures <- failed,
    refused <- misread

(***************************************************************************)
(* Mailbox processing implements ReportCustody: a message that carries a   *)
(* report is removed only once the report is saved, set aside only once    *)
(* its retries are used up, and filed or deleted as unparseable only when  *)
(* its last reading failed, in every interleaving of the call's steps with *)
(* arriving mail, failing operations, cache expiry and restarts.           *)
(***************************************************************************)
ImplementsCustody == Abstract!CustodySpec

=============================================================================
