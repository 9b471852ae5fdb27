------------------------------- MODULE CliRun -------------------------------
(***************************************************************************)
(* Runs of the parsedmarc command: report files, an mbox file and a        *)
(* mailbox are read one after the other, deduplicated against one cache,   *)
(* and saved; processed files move into an archive directory.              *)
(*                                                                         *)
(* What happens inside a mailbox batch is the subject of MailboxIngest,    *)
(* and inside a save that of OutputDelivery: here each is one step with    *)
(* its possible outcomes.  A run is shorter than the hour the cache        *)
(* remembers a report.                                                     *)
(***************************************************************************)
EXTENDS Integers, Sequences, FiniteSets

CONSTANTS
    Files,          \* report files in the input directory
    Mboxes,         \* possible mbox files, each the sequence of its messages
    Messages,       \* messages in the mailbox
    Report(_),      \* the report in a file or message
    Aggregate,      \* the reports that are aggregate reports
    Corrupt,        \* files and messages with a report that does not parse
    Refusable,      \* those whose parsing makes a call that may fail: such a
                    \* failure can refuse a good report
    HasMailbox,     \* a mailbox is configured
    MaxRuns         \* bound on runs of the command

In(box) == {box[i] : i \in 1 .. Len(box)}

InMbox == UNION {In(box) : box \in Mboxes}

Sources == Files \cup InMbox \cup Messages

ASSUME CliAssumption ==
    /\ Files \cap InMbox = {} /\ Files \cap Messages = {} /\ InMbox \cap Messages = {}
    /\ Corrupt \subseteq Sources /\ Refusable \subseteq Sources
    /\ \A box \in Mboxes : Len(box) \in Nat
    /\ HasMailbox \in BOOLEAN
    /\ MaxRuns \in Nat \ {0}

VARIABLES
    pc,
    run,        \* number of this run
    archiving,  \* archive_directory is set
    shelving,   \* max_unsaved_retries is 0
    mbox,       \* the mbox file
    place,      \* file -> where it is
    todo,       \* files still to be processed in this run
    mail,       \* message -> "inbox", "archive" (or deleted), "invalid" (or
                \* deleted as such), "unsaved"
    seen,       \* SEEN_AGGREGATE_REPORT_IDS
    results,    \* file_parsing_results, as the sources they came from
    shutdown,   \* _shutdown_requested
    saved,      \* history: <<run, source>> whose report was saved
    taken       \* history: reports collected in some run

options == <<archiving, shelving>>

vars == <<pc, run, options, mbox, place, todo, mail, seen, results, shutdown,
          saved, taken>>

Init ==
    /\ pc = "files"
    /\ run = 1
    /\ archiving \in BOOLEAN /\ shelving \in BOOLEAN
    /\ mbox \in Mboxes
    /\ place = [f \in Files |-> "input"]
    /\ todo = Files
    /\ mail = [m \in Messages |-> "inbox"]
    /\ seen = {}
    /\ results = {}
    /\ shutdown = FALSE
    /\ saved = {}
    /\ taken = {}

(***************************************************************************)
(* A report is new unless it is an aggregate report seen before.           *)
(***************************************************************************)
New(s) == Report(s) \notin Aggregate \/ Report(s) \notin seen

Remember(ss) == seen' = seen \cup ({Report(s) : s \in ss} \cap Aggregate)

Collect(ss) ==
    /\ results' = results \cup ss
    /\ taken' = taken \cup {Report(s) : s \in ss}
    /\ Remember(ss)

MoveTo(f, dir) ==
    \/ archiving /\ place' = [place EXCEPT ![f] = dir]
    \/ UNCHANGED place

(***************************************************************************)
(* A file gives a report, is no report or refused, or cannot be read now.  *)
(* A move into the archive can fail, which is only logged.                 *)
(***************************************************************************)
FileParsed(f) ==
    /\ f \notin Corrupt
    /\ Collect({s \in {f} : New(s)})
    /\ MoveTo(f, "archive")

FileInvalid(f) ==
    /\ f \in Corrupt \cup Refusable
    /\ MoveTo(f, "invalid")
    /\ UNCHANGED <<results, taken, seen>>

FileUnreadable(f) == UNCHANGED <<place, results, taken, seen>>

ProcessFile(f) ==
    /\ pc = "files"
    /\ f \in todo
    /\ todo' = todo \ {f}
    /\ FileParsed(f) \/ FileInvalid(f) \/ FileUnreadable(f)
    /\ UNCHANGED <<pc, run, options, mbox, mail, shutdown, saved>>

EndFiles ==
    /\ pc = "files"
    /\ todo = {} \/ shutdown
    /\ pc' = "mbox"
    /\ UNCHANGED <<run, options, mbox, place, todo, mail, seen, results, shutdown,
                   saved, taken>>

(***************************************************************************)
(* The mbox file is read as a whole.  A message whose report is corrupt    *)
(* or refused raises a ParserError that nobody catches; one without a      *)
(* report is skipped with a warning.                                       *)
(***************************************************************************)
FirstInMbox(j) == \A h \in 1 .. j - 1 : Report(mbox[h]) # Report(mbox[j])

Mutant_MboxCacheApart ==
    {mbox[j] : j \in {i \in 1 .. Len(mbox) :
        Report(mbox[i]) \in Aggregate => FirstInMbox(i)}}

NewInMbox ==
    {mbox[j] : j \in {i \in 1 .. Len(mbox) :
        New(mbox[i]) /\ (Report(mbox[i]) \in Aggregate => FirstInMbox(i))}}

ReadMbox ==
    /\ pc = "mbox"
    /\ \/ /\ shutdown
          /\ pc' = "connect"
          /\ UNCHANGED <<seen, results, taken>>
       \/ /\ ~shutdown
          /\ In(mbox) \cap (Corrupt \cup Refusable) # {}
          /\ pc' = "exited"
          /\ UNCHANGED <<seen, results, taken>>
       \/ /\ ~shutdown
          /\ In(mbox) \cap Corrupt = {}
          /\ Collect(NewInMbox)
          /\ pc' = "connect"
    /\ UNCHANGED <<run, options, mbox, place, todo, mail, shutdown, saved>>

(***************************************************************************)
(* Connecting to the mailbox, whether or not a shutdown was requested: a   *)
(* failure ends the process.                                               *)
(***************************************************************************)
Connect ==
    /\ pc = "connect"
    /\ pc' \in IF HasMailbox THEN {"mailbox", "exited"} ELSE {"save"}
    /\ UNCHANGED <<run, options, mbox, place, todo, mail, seen, results, shutdown,
                   saved, taken>>

(***************************************************************************)
(* A one-shot pass over the mailbox reads a batch of the inbox.  A batch   *)
(* that saves is archived or deleted, the messages whose report is a       *)
(* duplicate included, except where a move fails, which is only logged, or *)
(* in test mode.  One that fails stays, or with no retries goes to         *)
(* Unsaved.  A message whose report is refused leaves before, as invalid,  *)
(* whatever comes of the batch.                                            *)
(*                                                                         *)
(* Without a batch size a saved pass is followed by another if the inbox   *)
(* is not empty; an exception ends the process.                            *)
(***************************************************************************)
Inbox == {m \in Messages : mail[m] = "inbox"}

Refusals(read) == {x \in SUBSET (read \cap (Corrupt \cup Refusable)) : read \cap Corrupt \subseteq x}

Copies(s, t) == Report(s) = Report(t) /\ Report(s) \in Aggregate

Fresh(parsed) == {s \in parsed : New(s)}

Batches(parsed) ==
    {b \in SUBSET Fresh(parsed) :
        /\ \A s, t \in b : Copies(s, t) => s = t
        /\ \A s \in Fresh(parsed) \ b : \E t \in b : Copies(s, t)}

Leave(gone, refused, folder) ==
    mail' = [m \in Messages |->
                IF m \notin gone THEN mail[m] ELSE IF m \in refused THEN "invalid" ELSE folder]

SkipMailbox ==
    /\ pc = "mailbox"
    /\ shutdown
    /\ pc' = "save"
    /\ UNCHANGED <<run, options, mbox, place, todo, mail, seen, results, shutdown,
                   saved, taken>>

Reading == pc = "recheck" \/ (pc = "mailbox" /\ ~shutdown)

MailboxSaved ==
    /\ Reading
    /\ \E read \in SUBSET Inbox : \E refused \in Refusals(read) :
          /\ \E b \in Batches(read \ refused) :
                /\ saved' = saved \cup {<<run, s>> : s \in b}
                /\ Remember(b)
          /\ \E gone \in SUBSET read :
                /\ refused \subseteq gone \/ gone = {}
                /\ Leave(gone, refused, "archive")
    /\ pc' \in {"save", "recheck", "exited"}
    /\ UNCHANGED <<run, options, mbox, place, todo, results, shutdown, taken>>

Mutant_ArchiveUnsaved ==
    /\ Reading
    /\ \E read \in SUBSET Inbox : \E refused \in Refusals(read) :
          \E gone \in SUBSET read : Leave(gone, refused, "archive")
    /\ pc' \in {"save", "exited"}
    /\ UNCHANGED <<run, options, mbox, place, todo, seen, results, shutdown,
                   saved, taken>>

MailboxUnsaved ==
    /\ Reading
    /\ \E read \in SUBSET Inbox : \E refused \in Refusals(read) :
          \E gone \in SUBSET (IF shelving THEN read ELSE refused) :
             Leave(gone, refused, "unsaved")
    /\ pc' \in {"save", "exited"}
    /\ UNCHANGED <<run, options, mbox, place, todo, seen, results, shutdown,
                   saved, taken>>

(***************************************************************************)
(* The last call of process_reports, for what the files and the mbox gave. *)
(***************************************************************************)
SaveResults ==
    /\ pc = "save"
    /\ \/ saved' = saved \cup {<<run, s>> : s \in results}
       \/ UNCHANGED saved
    /\ pc' = "exited"
    /\ UNCHANGED <<run, options, mbox, place, todo, mail, seen, results, shutdown, taken>>

-----------------------------------------------------------------------------
Shutdown ==
    /\ pc # "exited"
    /\ shutdown' = TRUE
    /\ UNCHANGED <<pc, run, options, mbox, place, todo, mail, seen, results,
                   saved, taken>>

NextRun ==
    /\ pc = "exited"
    /\ run < MaxRuns
    /\ run' = run + 1
    /\ pc' = "files"
    /\ todo' = {f \in Files : place[f] = "input"}
    /\ seen' = {}
    /\ results' = {}
    /\ shutdown' = FALSE
    /\ UNCHANGED <<options, mbox, place, mail, saved, taken>>

Over == pc = "exited" /\ run = MaxRuns /\ UNCHANGED vars

Next ==
    \/ \E f \in Files : ProcessFile(f)
    \/ EndFiles \/ ReadMbox \/ Connect
    \/ SkipMailbox \/ MailboxSaved \/ MailboxUnsaved
    \/ SaveResults
    \/ Shutdown \/ NextRun \/ Over

Spec == Init /\ [][Next]_vars

-----------------------------------------------------------------------------
(***************************************************************************)
(* An aggregate report that is in several files, in the mbox file and in   *)
(* the mailbox is saved at most once in a run.                             *)
(***************************************************************************)
SavedOncePerRun ==
    \A r \in 1 .. run : \A s, t \in {x \in Sources : <<r, x>> \in saved} :
        s # t /\ Report(s) = Report(t) => Report(s) \notin Aggregate

(***************************************************************************)
(* No report vanishes from the mailbox unseen.  A message that left the    *)
(* inbox has a report that some run saved, or one that some run had read   *)
(* from a file or the mbox before, of which the message was a duplicate;   *)
(* or it is kept in Unsaved.  But a good report that a failing call        *)
(* refused is gone as invalid, though nobody has read it.                  *)
(***************************************************************************)
RemovedWasRead ==
    \A s \in (Messages \ Corrupt) \ Inbox :
        \/ \E x \in saved : Report(x[2]) = Report(s)
        \/ Report(s) \in taken \cap Aggregate
        \/ mail[s] = "unsaved" /\ shelving
        \/ mail[s] = "invalid" /\ s \in Refusable

=============================================================================
