------------------------- MODULE CommandLineProofs --------------------------
(***************************************************************************)
(* A run of the parsedmarc command: what it saves and takes out of the     *)
(* mailbox (CliRun), and what becomes of the files it archives and writes, *)
(* while others of its kind run (ReportFiles).                             *)
(*                                                                         *)
(* Of CliRun, for any files, mbox files, messages and number of runs: the  *)
(* cache of aggregate reports is what holds its two properties together.   *)
(* It names every report the run holds, saved or not yet, so nothing is    *)
(* held twice; and it names no other report, so that whatever is dismissed *)
(* as a duplicate has been read.                                           *)
(*                                                                         *)
(* Of ReportFiles, for any files, any number of runs, any dated            *)
(* directories and any number of failing writes and deaths.  The archive:  *)
(* a name belongs to the one run that created its placeholder until that   *)
(* run has moved the file or given up, and what was filed under a name is  *)
(* never touched again.  The output: of one kind only one run at a time is *)
(* between reading the JSON file and having written it, or the kind counts *)
(* as torn, so what such a run will write holds all that the file held;    *)
(* the CSV file only grows, by blocks that hold whole reports; and the     *)
(* names one run gives its samples differ.                                 *)
(***************************************************************************)
EXTENDS CliRun, ReportFiles, SequenceTheorems, FiniteSetTheorems, WellFoundedInduction, TLAPS

-----------------------------------------------------------------------------
(***************************************************************************)
(* CliRun.                                                                 *)
(***************************************************************************)
\* What this run has read: collected to be saved at its end, or saved.
InHand == results \cup {s \in Sources : <<run, s>> \in saved}

TypeInv ==
    /\ run \in Nat \ {0}
    /\ mbox \in Mboxes
    /\ mail \in [Messages -> {"inbox", "archive", "invalid", "unsaved"}]
    /\ results \subseteq Sources
    /\ saved \subseteq (1 .. run) \X Sources

CachedInv == \A s \in InHand : Report(s) \in Aggregate => Report(s) \in seen

NoCopies(ss) ==
    \A s, t \in ss : s # t /\ Report(s) = Report(t) => Report(s) \notin Aggregate

OnceInv == NoCopies(InHand)

ReadInv ==
    \A r \in seen :
        /\ r \in Aggregate
        /\ r \in taken \/ \E x \in saved : Report(x[2]) = r

IInv ==
    /\ TypeInv /\ CachedInv /\ OnceInv /\ ReadInv
    /\ SavedOncePerRun /\ RemovedWasRead

-----------------------------------------------------------------------------
LEMMA SavedEarlier ==
    ASSUME TypeInv, NEW r \in 1 .. run, NEW s, <<r, s>> \in saved
    PROVE  s \in Sources
BY DEF TypeInv

(***************************************************************************)
(* Reports that are new and differ from one another can be taken in hand.  *)
(***************************************************************************)
LEMMA NewInHand ==
    ASSUME CachedInv, OnceInv, NEW b, \A s \in b : New(s), NoCopies(b),
           InHand' = InHand \cup b, Remember(b)
    PROVE  CachedInv' /\ OnceInv'
<1>1. CachedInv'
  BY DEF CachedInv, Remember
<1>2. ASSUME NEW s \in InHand, NEW t \in b, Report(s) = Report(t), Report(s) \in Aggregate
      PROVE  FALSE
  BY <1>2 DEF CachedInv, New
<1>3. OnceInv'
  BY <1>2 DEF OnceInv, NoCopies
<1> QED
  BY <1>1, <1>3

(***************************************************************************)
(* What the run saves of what it holds leaves every run without copies.    *)
(***************************************************************************)
LEMMA SavedFromHand ==
    ASSUME TypeInv, SavedOncePerRun, OnceInv', run' = run, NEW b,
           saved' = saved \cup {<<run, s>> : s \in b}, b \subseteq InHand'
    PROVE  SavedOncePerRun'
<1> SUFFICES ASSUME NEW r \in 1 .. run, NEW s \in Sources, NEW t \in Sources,
                    <<r, s>> \in saved', <<r, t>> \in saved',
                    s # t, Report(s) = Report(t)
             PROVE  Report(s) \notin Aggregate
  BY DEF SavedOncePerRun
<1>1. CASE r = run
  <2>1. s \in InHand' /\ t \in InHand'
    BY <1>1 DEF InHand
  <2> QED
    BY <2>1 DEF OnceInv, NoCopies
<1>2. CASE r # run
  <2>1. <<r, s>> \in saved /\ <<r, t>> \in saved
    BY <1>2
  <2> QED
    BY <2>1 DEF SavedOncePerRun
<1> QED
  BY <1>1, <1>2

(***************************************************************************)
(* A step that takes reports in hand without saving any.                   *)
(***************************************************************************)
LEMMA CollectKeeps ==
    ASSUME IInv, NEW b \in SUBSET Sources, \A s \in b : New(s), NoCopies(b), Collect(b),
           UNCHANGED <<run, options, mbox, mail, saved>>
    PROVE  IInv'
<1>1. TypeInv'
  BY DEF IInv, TypeInv, Collect
<1>2. CachedInv' /\ OnceInv'
  <2>1. InHand' = InHand \cup b
    BY DEF InHand, Collect
  <2> QED
    BY <2>1, NewInHand DEF IInv, Collect
<1>3. ReadInv'
  BY DEF IInv, ReadInv, Collect, Remember
<1>4. SavedOncePerRun'
  BY DEF IInv, SavedOncePerRun
<1>5. RemovedWasRead'
  BY DEF IInv, RemovedWasRead, Inbox, Collect, options
<1> QED
  BY <1>1, <1>2, <1>3, <1>4, <1>5 DEF IInv

(***************************************************************************)
(* A step that reads and saves nothing, and leaves the mail alone.         *)
(***************************************************************************)
LEMMA IdleKeeps ==
    ASSUME IInv, UNCHANGED <<run, options, mbox, mail, results, seen, saved, taken>>
    PROVE  IInv'
<1>1. TypeInv' /\ CachedInv' /\ OnceInv' /\ ReadInv' /\ SavedOncePerRun'
  BY DEF IInv, TypeInv, CachedInv, OnceInv, NoCopies, ReadInv, SavedOncePerRun, InHand
<1>2. RemovedWasRead'
  BY DEF IInv, RemovedWasRead, Inbox, options
<1> QED
  BY <1>1, <1>2 DEF IInv

(***************************************************************************)
(* Mail leaves the inbox for two places, and only what is refused, which   *)
(* a good report is by a failing call, leaves as invalid.                  *)
(***************************************************************************)
LEMMA Leaving ==
    ASSUME TypeInv, NEW read \in SUBSET Inbox, NEW refused \in Refusals(read),
           NEW gone \in SUBSET read, NEW folder \in {"archive", "unsaved"},
           Leave(gone, refused, folder)
    PROVE  /\ mail' \in [Messages -> {"inbox", "archive", "invalid", "unsaved"}]
           /\ \A s \in Messages \ gone : mail'[s] = mail[s]
           /\ \A s \in gone \ refused : mail'[s] = folder
           /\ \A s \in gone \cap refused : mail'[s] = "invalid" /\ s \in Corrupt \cup Refusable
BY DEF TypeInv, Inbox, Refusals, Leave

LEMMA ProcessFileKeeps ==
    ASSUME IInv, NEW f \in Files, ProcessFile(f)
    PROVE  IInv'
<1>1. CASE FileParsed(f)
  <2> DEFINE b == {s \in {f} : New(s)}
  <2>1. b \in SUBSET Sources /\ NoCopies(b) /\ \A s \in b : New(s)
    BY DEF Sources, NoCopies
  <2>2. Collect(b) /\ UNCHANGED <<run, options, mbox, mail, saved>>
    BY <1>1 DEF FileParsed, ProcessFile
  <2> QED
    BY <2>1, <2>2, CollectKeeps
<1>2. CASE FileInvalid(f) \/ FileUnreadable(f)
  BY <1>2, IdleKeeps DEF FileInvalid, FileUnreadable, ProcessFile
<1> QED
  BY <1>1, <1>2 DEF ProcessFile

LEMMA MboxNoCopies ==
    ASSUME TypeInv
    PROVE  /\ NewInMbox \in SUBSET Sources
           /\ NoCopies(NewInMbox)
           /\ \A s \in NewInMbox : New(s)
<1>1. Len(mbox) \in Nat
  BY CliAssumption DEF TypeInv
<1>2. NewInMbox \in SUBSET Sources
  BY DEF NewInMbox, Sources, InMbox, In, TypeInv
<1>3. ASSUME NEW s \in NewInMbox, NEW t \in NewInMbox, s # t, Report(s) = Report(t),
             Report(s) \in Aggregate
      PROVE  FALSE
  <2>1. PICK i \in 1 .. Len(mbox) :
           s = mbox[i] /\ (Report(mbox[i]) \in Aggregate => FirstInMbox(i))
    BY DEF NewInMbox
  <2>2. PICK j \in 1 .. Len(mbox) :
           t = mbox[j] /\ (Report(mbox[j]) \in Aggregate => FirstInMbox(j))
    BY DEF NewInMbox
  <2>3. i < j \/ j < i
    BY <1>1, <1>3, <2>1, <2>2
  <2> QED
    BY <1>1, <1>3, <2>1, <2>2, <2>3 DEF FirstInMbox
<1> QED
  BY <1>2, <1>3 DEF NoCopies, NewInMbox

LEMMA ReadMboxKeeps == IInv /\ ReadMbox => IInv'
<1> SUFFICES ASSUME IInv, ReadMbox PROVE IInv'
  OBVIOUS
<1>1. CASE Collect(NewInMbox)
  BY <1>1, MboxNoCopies, CollectKeeps DEF ReadMbox, IInv
<1>2. CASE UNCHANGED <<seen, results, taken>>
  BY <1>2, IdleKeeps DEF ReadMbox
<1> QED
  BY <1>1, <1>2 DEF ReadMbox

(***************************************************************************)
(* A batch of the mailbox is saved: whatever was read and not refused has  *)
(* a report that is in the batch, or that the cache had.                   *)
(***************************************************************************)
LEMMA MailboxSavedKeeps == IInv /\ MailboxSaved => IInv'
<1> SUFFICES ASSUME IInv, MailboxSaved PROVE IInv'
  OBVIOUS
<1>r. PICK read \in SUBSET Inbox : \E refused \in Refusals(read) :
         /\ \E b \in Batches(read \ refused) :
               saved' = saved \cup {<<run, s>> : s \in b} /\ Remember(b)
         /\ \E gone \in SUBSET read : Leave(gone, refused, "archive")
  BY DEF MailboxSaved
<1>0. PICK refused \in Refusals(read) :
         /\ \E b \in Batches(read \ refused) :
               saved' = saved \cup {<<run, s>> : s \in b} /\ Remember(b)
         /\ \E gone \in SUBSET read : Leave(gone, refused, "archive")
  BY <1>r
<1>1. PICK b \in Batches(read \ refused) :
         saved' = saved \cup {<<run, s>> : s \in b} /\ Remember(b)
  BY <1>0
<1>2. b \subseteq Fresh(read \ refused) /\ b \subseteq Sources
  BY <1>1 DEF Batches, Fresh, Inbox, IInv, TypeInv, Sources
<1>3. NoCopies(b) /\ \A s \in b : New(s)
  BY <1>1, <1>2 DEF Batches, NoCopies, Fresh, Copies
<1>4. InHand' = InHand \cup b
  BY <1>1, <1>2 DEF InHand, MailboxSaved, IInv, TypeInv
<1>5. PICK gone \in SUBSET read : Leave(gone, refused, "archive")
  BY <1>0
<1>6. /\ mail' \in [Messages -> {"inbox", "archive", "invalid", "unsaved"}]
      /\ \A s \in Messages \ gone : mail'[s] = mail[s]
      /\ \A s \in gone \cap refused : mail'[s] = "invalid" /\ s \in Corrupt \cup Refusable
  BY <1>5, Leaving DEF IInv
<1>7. TypeInv'
  BY <1>1, <1>2, <1>6 DEF MailboxSaved, IInv, TypeInv
<1>8. CachedInv' /\ OnceInv'
  BY <1>1, <1>3, <1>4, NewInHand DEF IInv
<1>9. SavedOncePerRun'
  <2>1. b \subseteq InHand' /\ run' = run
    BY <1>4 DEF MailboxSaved
  <2> QED
    BY <1>1, <1>8, <2>1, SavedFromHand DEF IInv
<1>10. \A s \in b : \E x \in saved' : Report(x[2]) = Report(s)
  <2> TAKE s \in b
  <2>1. <<run, s>> \in saved' /\ <<run, s>>[2] = s
    BY <1>1
  <2> QED
    BY <2>1
<1>11. ReadInv'
  <2> SUFFICES ASSUME NEW r \in seen'
               PROVE  /\ r \in Aggregate
                      /\ r \in taken' \/ \E x \in saved' : Report(x[2]) = r
    BY DEF ReadInv
  <2>1. CASE r \in seen
    BY <1>1, <2>1 DEF IInv, ReadInv, MailboxSaved
  <2>2. CASE r \in {Report(s) : s \in b} \cap Aggregate
    BY <1>10, <2>2
  <2> QED
    BY <1>1, <2>1, <2>2 DEF Remember
<1>12. RemovedWasRead'
  <2> SUFFICES ASSUME NEW s \in (Messages \ Corrupt) \ Inbox'
               PROVE  \/ \E x \in saved' : Report(x[2]) = Report(s)
                      \/ Report(s) \in taken' \cap Aggregate
                      \/ mail'[s] = "unsaved" /\ shelving'
                      \/ mail'[s] = "invalid" /\ s \in Refusable
    BY DEF RemovedWasRead
  <2>1. CASE s \notin gone
    <3>1. mail'[s] = mail[s] /\ s \notin Inbox
      BY <1>6, <2>1 DEF Inbox
    <3> QED
      BY <1>1, <3>1 DEF IInv, RemovedWasRead, MailboxSaved, options
  <2>2. CASE s \in gone \cap refused
    BY <1>6, <2>2
  <2>3. CASE s \in gone \ refused /\ ~New(s)
    BY <1>1, <2>3 DEF IInv, New, ReadInv, MailboxSaved
  <2>4. CASE s \in gone \ refused /\ New(s)
    <3>1. s \in Fresh(read \ refused)
      BY <1>5, <2>4 DEF Fresh
    <3>2. s \in b \/ \E t \in b : Report(s) = Report(t)
      BY <1>1, <3>1 DEF Batches, Copies
    <3> QED
      BY <1>10, <3>2
  <2> QED
    BY <2>1, <2>2, <2>3, <2>4
<1> QED
  BY <1>7, <1>8, <1>9, <1>11, <1>12 DEF IInv

(***************************************************************************)
(* A batch that is not saved: only what is refused leaves, and with no     *)
(* retries the rest for Unsaved.                                           *)
(***************************************************************************)
LEMMA MailboxUnsavedKeeps == IInv /\ MailboxUnsaved => IInv'
<1> SUFFICES ASSUME IInv, MailboxUnsaved PROVE IInv'
  OBVIOUS
<1>r. PICK read \in SUBSET Inbox : \E refused \in Refusals(read) :
         \E gone \in SUBSET (IF shelving THEN read ELSE refused) : Leave(gone, refused, "unsaved")
  BY DEF MailboxUnsaved
<1>0. PICK refused \in Refusals(read) :
         \E gone \in SUBSET (IF shelving THEN read ELSE refused) : Leave(gone, refused, "unsaved")
  BY <1>r
<1>1. PICK gone \in SUBSET (IF shelving THEN read ELSE refused) : Leave(gone, refused, "unsaved")
  BY <1>0
<1>2. gone \in SUBSET read /\ (~shelving => gone \subseteq refused)
  BY <1>1 DEF Refusals
<1>3. /\ mail' \in [Messages -> {"inbox", "archive", "invalid", "unsaved"}]
      /\ \A s \in Messages \ gone : mail'[s] = mail[s]
      /\ \A s \in gone \ refused : mail'[s] = "unsaved"
      /\ \A s \in gone \cap refused : mail'[s] = "invalid" /\ s \in Corrupt \cup Refusable
  BY <1>1, <1>2, Leaving DEF IInv
<1>4. /\ UNCHANGED <<run, mbox, results, seen, saved, taken>>
      /\ shelving' = shelving
  BY DEF MailboxUnsaved, options
<1>5. TypeInv' /\ CachedInv' /\ OnceInv' /\ ReadInv' /\ SavedOncePerRun'
  BY <1>3, <1>4
     DEF IInv, TypeInv, CachedInv, OnceInv, NoCopies, ReadInv, SavedOncePerRun, InHand
<1>6. RemovedWasRead'
  <2> SUFFICES ASSUME NEW s \in (Messages \ Corrupt) \ Inbox'
               PROVE  \/ \E x \in saved' : Report(x[2]) = Report(s)
                      \/ Report(s) \in taken' \cap Aggregate
                      \/ mail'[s] = "unsaved" /\ shelving'
                      \/ mail'[s] = "invalid" /\ s \in Refusable
    BY DEF RemovedWasRead
  <2>1. CASE s \notin gone
    <3>1. mail'[s] = mail[s] /\ s \notin Inbox
      BY <1>3, <2>1 DEF Inbox
    <3> QED
      BY <1>4, <3>1 DEF IInv, RemovedWasRead
  <2>2. CASE s \in gone
    BY <1>2, <1>3, <1>4, <2>2
  <2> QED
    BY <2>1, <2>2
<1> QED
  BY <1>5, <1>6 DEF IInv

LEMMA SaveResultsKeeps == IInv /\ SaveResults => IInv'
<1> SUFFICES ASSUME IInv, SaveResults PROVE IInv'
  OBVIOUS
<1>1. CASE UNCHANGED saved
  BY <1>1, IdleKeeps DEF SaveResults
<1>2. CASE saved' = saved \cup {<<run, s>> : s \in results}
  <2>1. InHand' = InHand /\ run' = run /\ results \subseteq InHand'
    BY <1>2 DEF InHand, SaveResults, IInv, TypeInv
  <2>2. TypeInv'
    BY <1>2 DEF SaveResults, IInv, TypeInv
  <2>3. CachedInv' /\ OnceInv'
    BY <2>1 DEF SaveResults, IInv, CachedInv, OnceInv, NoCopies
  <2>4. SavedOncePerRun'
    BY <1>2, <2>1, <2>3, SavedFromHand DEF IInv
  <2>5. ReadInv' /\ RemovedWasRead'
    BY <1>2 DEF SaveResults, IInv, ReadInv, RemovedWasRead, Inbox, options
  <2> QED
    BY <2>2, <2>3, <2>4, <2>5 DEF IInv
<1> QED
  BY <1>1, <1>2 DEF SaveResults

(***************************************************************************)
(* The next run starts with nothing in hand and an empty cache.            *)
(***************************************************************************)
LEMMA NextRunKeeps == IInv /\ NextRun => IInv'
<1> SUFFICES ASSUME IInv, NextRun PROVE IInv'
  OBVIOUS
<1>1. TypeInv'
  BY DEF NextRun, IInv, TypeInv
<1>2. InHand' = {}
  BY DEF NextRun, InHand, IInv, TypeInv
<1>3. CachedInv' /\ OnceInv' /\ ReadInv'
  BY <1>2 DEF NextRun, CachedInv, OnceInv, NoCopies, ReadInv
<1>4. SavedOncePerRun'
  <2> SUFFICES ASSUME NEW r \in 1 .. run', NEW s \in Sources, NEW t \in Sources,
                      <<r, s>> \in saved, <<r, t>> \in saved,
                      s # t, Report(s) = Report(t)
               PROVE  Report(s) \notin Aggregate
    BY DEF SavedOncePerRun, NextRun
  <2>1. r \in 1 .. run
    BY DEF IInv, TypeInv
  <2> QED
    BY <2>1 DEF IInv, SavedOncePerRun
<1>5. RemovedWasRead'
  BY DEF NextRun, IInv, RemovedWasRead, Inbox, options
<1> QED
  BY <1>1, <1>3, <1>4, <1>5 DEF IInv

LEMMA InitInv == Init => IInv
<1> SUFFICES ASSUME Init PROVE IInv
  OBVIOUS
<1>1. TypeInv /\ InHand = {}
  BY DEF Init, TypeInv, InHand
<1>2. CachedInv /\ OnceInv /\ ReadInv
  BY <1>1 DEF Init, CachedInv, OnceInv, NoCopies, ReadInv
<1>3. SavedOncePerRun /\ RemovedWasRead
  BY DEF Init, SavedOncePerRun, RemovedWasRead, Inbox
<1> QED
  BY <1>1, <1>2, <1>3 DEF IInv

LEMMA NextKeeps == IInv /\ [Next]_vars => IInv'
<1> SUFFICES ASSUME IInv, [Next]_vars PROVE IInv'
  OBVIOUS
<1>1. CASE \E f \in Files : ProcessFile(f)
  BY <1>1, ProcessFileKeeps
<1>2. CASE ReadMbox \/ MailboxSaved \/ SaveResults \/ NextRun
  BY <1>2, ReadMboxKeeps, MailboxSavedKeeps, SaveResultsKeeps, NextRunKeeps
<1>3. CASE EndFiles \/ Connect \/ SkipMailbox \/ Shutdown \/ Over \/ UNCHANGED vars
  BY <1>3, IdleKeeps DEF EndFiles, Connect, SkipMailbox, Shutdown, Over, vars
<1>4. CASE MailboxUnsaved
  BY <1>4, MailboxUnsavedKeeps
<1> QED
  BY <1>1, <1>2, <1>3, <1>4 DEF Next

THEOREM RunsInductive == Spec => []IInv
<1>1. Init => IInv
  BY InitInv
<1>2. IInv /\ [Next]_vars => IInv'
  BY NextKeeps
<1> QED
  BY <1>1, <1>2, PTL DEF Spec

(***************************************************************************)
(* However many files, messages of the mbox file and of the mailbox hold   *)
(* an aggregate report, and whichever steps fail, one run saves it once.   *)
(***************************************************************************)
THEOREM SavedOnce == Spec => []SavedOncePerRun
<1>1. IInv => SavedOncePerRun
  BY DEF IInv
<1> QED
  BY <1>1, RunsInductive, PTL

(***************************************************************************)
(* A message leaves the inbox only if its report was saved, was read       *)
(* before, is kept in Unsaved, or was refused because a call failed.       *)
(***************************************************************************)
THEOREM NothingUnread == Spec => []RemovedWasRead
<1>1. IInv => RemovedWasRead
  BY DEF IInv
<1> QED
  BY <1>1, RunsInductive, PTL

-----------------------------------------------------------------------------
(***************************************************************************)
(* ReportFiles.                                                            *)
(***************************************************************************)
-----------------------------------------------------------------------------
(***************************************************************************)
(* Induction over the natural numbers, as a statement about sets.          *)
(***************************************************************************)
LEMMA LeastElement ==
    ASSUME NEW T, T \subseteq Nat, T # {}
    PROVE  \E x \in T : \A y \in T : x <= y
<1>1. PICK x \in T : \A y \in T : <<y, x>> \notin OpToRel(<, Nat)
  BY WFMin, NatLessThanWellFounded
<1>2. \A y \in T : ~(y < x)
  BY <1>1 DEF OpToRel
<1> QED BY <1>2

\* A set of natural numbers with zero and the successor of each element has
\* them all.
LEMMA SetInduction ==
    ASSUME NEW T, T \subseteq Nat, 0 \in T, \A n \in T : n + 1 \in T
    PROVE  T = Nat
<1>1. SUFFICES ASSUME Nat \ T # {} PROVE FALSE
  OBVIOUS
<1>2. PICK x \in Nat \ T : \A y \in Nat \ T : x <= y
  BY <1>1, LeastElement
<1>3. x # 0 /\ x - 1 \in T
  BY <1>2
<1> QED BY <1>2, <1>3

(***************************************************************************)
(* The recursive function in Joined is defined: it satisfies its equation. *)
(***************************************************************************)
IsJoin(f, blocks, n) == f = [m \in 0 .. n |-> IF m = 0 THEN <<>> ELSE f[m - 1] \o blocks[m]]

\* The recursive function in Joined exists for any number of blocks.
LEMMA JoinExists ==
    ASSUME NEW blocks
    PROVE  \A n \in Nat : \E f : IsJoin(f, blocks, n)
<1> DEFINE T == {n \in Nat : \E f : IsJoin(f, blocks, n)}
<1>1. 0 \in T
  <2> DEFINE f == [m \in 0 .. 0 |-> <<>>]
  <2>1. f = [m \in 0 .. 0 |-> IF m = 0 THEN <<>> ELSE f[m - 1] \o blocks[m]]
    OBVIOUS
  <2> QED BY <2>1 DEF IsJoin
<1>2. ASSUME NEW n \in T PROVE n + 1 \in T
  <2>1. PICK f : IsJoin(f, blocks, n)
    OBVIOUS
  <2>2. n \in Nat /\ n + 1 \in Nat
    OBVIOUS
  <2> DEFINE g == [m \in 0 .. n + 1 |-> IF m = n + 1 THEN f[n] \o blocks[n + 1] ELSE f[m]]
  <2>3. ASSUME NEW m \in 0 .. n + 1
        PROVE  g[m] = IF m = 0 THEN <<>> ELSE g[m - 1] \o blocks[m]
    <3>1. CASE m = n + 1
      <4>1. m # 0 /\ m - 1 = n /\ n \in 0 .. n + 1 /\ n # n + 1
        BY <3>1, <2>2
      <4>2. g[m] = f[n] \o blocks[n + 1] /\ g[n] = f[n]
        BY <3>1, <4>1
      <4> QED BY <4>1, <4>2, <3>1
    <3>2. CASE m # n + 1
      <4>1. m \in 0 .. n
        BY <3>2, <2>2
      <4>2. f[m] = IF m = 0 THEN <<>> ELSE f[m - 1] \o blocks[m]
        BY <2>1, <4>1 DEF IsJoin
      <4>3. m # 0 => g[m - 1] = f[m - 1]
        BY <2>2, <4>1
      <4> QED BY <4>1, <4>2, <4>3, <3>2
    <3> QED BY <3>1, <3>2
  <2>4. g = [m \in 0 .. n + 1 |-> IF m = 0 THEN <<>> ELSE g[m - 1] \o blocks[m]]
    BY <2>3
  <2>5. IsJoin(g, blocks, n + 1)
    BY <2>4 DEF IsJoin
  <2> QED BY <2>5, <2>2
<1>3. T \subseteq Nat
  OBVIOUS
<1> HIDE DEF T
<1>4. T = Nat
  BY <1>1, <1>2, <1>3, SetInduction
<1> QED BY <1>4 DEF T

(***************************************************************************)
(* Rows that stand together still do when lines are written around them.   *)
(***************************************************************************)
LEMMA WithinConcat ==
    ASSUME NEW S, NEW a \in Seq(S), NEW s \in Seq(S), NEW t \in Seq(S),
           Within(a, s) \/ Within(a, t)
    PROVE  Within(a, s \o t)
<1>0. /\ s \o t \in Seq(S) /\ Len(s \o t) = Len(s) + Len(t)
      /\ Len(a) \in Nat /\ Len(s) \in Nat /\ Len(t) \in Nat
  BY ConcatProperties, LenProperties
<1>1. CASE Len(a) = 0
  <2>1. SubSeq(s \o t, 0 + 1, 0 + Len(a)) = <<>> /\ a = <<>>
    BY <1>1, SubSeqEmpty, EmptySeq
  <2> QED BY <2>1, <1>0, <1>1 DEF Within
<1>2. CASE Len(a) # 0 /\ Within(a, s)
  <2>1. PICK i \in 0 .. Len(s) - Len(a) : SubSeq(s, i + 1, i + Len(a)) = a
    BY <1>2 DEF Within
  <2>2. i + 1 \in 1 .. Len(s) /\ i + Len(a) \in 1 .. Len(s)
        /\ i \in 0 .. Len(s \o t) - Len(a)
    BY <1>0, <1>2
  <2>3. SubSeq(s \o t, i + 1, i + Len(a)) = a
    BY <2>1, <2>2, SubSeqOfConcat1
  <2> QED BY <2>2, <2>3 DEF Within
<1>3. CASE Len(a) # 0 /\ Within(a, t)
  <2>1. PICK i \in 0 .. Len(t) - Len(a) : SubSeq(t, i + 1, i + Len(a)) = a
    BY <1>3 DEF Within
  <2> DEFINE j == Len(s) + i
  <2>2. /\ j + 1 \in Len(s) + 1 .. Len(s) + Len(t)
        /\ j + Len(a) \in Len(s) + 1 .. Len(s) + Len(t)
        /\ j \in 0 .. Len(s \o t) - Len(a)
        /\ (j + 1) - Len(s) = i + 1 /\ (j + Len(a)) - Len(s) = i + Len(a)
    BY <1>0, <1>3
  <2> HIDE DEF j
  <2>3. SubSeq(s \o t, j + 1, j + Len(a)) = SubSeq(t, (j + 1) - Len(s), (j + Len(a)) - Len(s))
    BY <2>2, SubSeqOfConcat2
  <2>4. SubSeq(s \o t, j + 1, j + Len(a)) = a
    BY <2>1, <2>2, <2>3
  <2> QED BY <2>2, <2>4 DEF Within
<1> QED BY <1>1, <1>2, <1>3

LEMMA WithinItself ==
    ASSUME NEW S, NEW a \in Seq(S)
    PROVE  Within(a, a)
<1>1. SubSeq(a, 1, Len(a)) = a
  BY SubSeqFull
<1>2. Len(a) \in Nat
  BY LenProperties
<1> QED BY <1>1, <1>2 DEF Within

(***************************************************************************)
(* What Joined gives: a sequence in which every block stands together.     *)
(***************************************************************************)
LEMMA JoinedWhole ==
    ASSUME NEW S, NEW blocks \in Seq(Seq(S))
    PROVE  /\ Joined(blocks) \in Seq(S)
           /\ \A i \in 1 .. Len(blocks) : Within(blocks[i], Joined(blocks))
<1> DEFINE N == Len(blocks)
           u == CHOOSE f : f = [m \in 0 .. N |-> IF m = 0 THEN <<>> ELSE f[m - 1] \o blocks[m]]
<1>1. N \in Nat
  BY LenProperties
<1>2. u = [m \in 0 .. N |-> IF m = 0 THEN <<>> ELSE u[m - 1] \o blocks[m]]
  BY <1>1, JoinExists, Zenon DEF IsJoin
<1>3. Joined(blocks) = u[N]
  BY Zenon DEF Joined
<1> DEFINE Good(n) == u[n] \in Seq(S) /\ \A i \in 1 .. n : Within(blocks[i], u[n])
           T == {n \in Nat : n <= N => Good(n)}
<1> HIDE DEF N, u
<1>4. 0 \in T
  <2>1. u[0] = <<>>
    BY <1>1, <1>2
  <2>2. u[0] \in Seq(S) /\ 1 .. 0 = {}
    BY <2>1, EmptySeq
  <2>3. Good(0)
    BY <2>2
  <2> QED BY <2>3
<1>5. ASSUME NEW n \in T PROVE n + 1 \in T
  <2>1. SUFFICES ASSUME n + 1 <= N PROVE Good(n + 1)
    OBVIOUS
  <2>2. n \in Nat /\ n <= N /\ n + 1 \in 0 .. N /\ n + 1 # 0 /\ (n + 1) - 1 = n
    BY <2>1, <1>1
  <2>3. Good(n)
    BY <2>2
  <2>4. u[n + 1] = u[n] \o blocks[n + 1]
    BY <1>2, <2>2
  <2>5. blocks[n + 1] \in Seq(S)
    BY <2>2, ElementOfSeq DEF N
  <2>6. u[n + 1] \in Seq(S)
    BY <2>3, <2>4, <2>5, ConcatProperties
  <2>7. ASSUME NEW i \in 1 .. n + 1 PROVE Within(blocks[i], u[n + 1])
    <3>1. CASE i = n + 1
      BY <3>1, <2>3, <2>4, <2>5, WithinItself, WithinConcat
    <3>2. CASE i # n + 1
      <4>1. i \in 1 .. n /\ i \in 1 .. N
        BY <3>2, <2>2, <1>1
      <4>2. blocks[i] \in Seq(S)
        BY <4>1, ElementOfSeq DEF N
      <4> QED BY <4>1, <4>2, <2>3, <2>4, <2>5, WithinConcat
    <3> QED BY <3>1, <3>2
  <2> QED BY <2>6, <2>7
<1>6. T \subseteq Nat
  OBVIOUS
<1> HIDE DEF T
<1>7. T = Nat
  BY <1>4, <1>5, <1>6, SetInduction
<1>8. Good(N)
  BY <1>1, <1>7 DEF T
<1> QED BY <1>3, <1>8 DEF N

-----------------------------------------------------------------------------
(***************************************************************************)
(* What is read, filed and written: the contents of the files given, the   *)
(* CSV rows of their reports, and the paths under which a file can be      *)
(* archived.                                                               *)
(***************************************************************************)
Given == {Inputs[p] : p \in DOMAIN Inputs}
KindNames == {"aggregate", "failure", "smtp_tls"}
\* The rows of all reports among them, and the header.
Rows == {Header} \cup UNION {Range(RowsOf(x)) : x \in {y \in Given : IsReport(y)}}
\* The paths below the archive.
Targets == {ArchiveDir(x) : x \in Given} \X {p[2] : p \in DOMAIN Inputs} \X Nat

\* The three kinds, in the order in which save_output treats them.
LEMMA KindList ==
    /\ Range(Kinds) = KindNames
    /\ Kinds[1] = "aggregate" /\ Kinds[2] = "failure" /\ Kinds[3] = "smtp_tls"
    /\ \A k \in KindNames : \E i \in 1 .. 3 : Kinds[i] = k
    /\ \A i \in 1 .. 3 : Kinds[i] \in KindNames
<1>1. DOMAIN Kinds = 1 .. 3
  BY DEF Kinds
<1>2. Kinds[1] = "aggregate" /\ Kinds[2] = "failure" /\ Kinds[3] = "smtp_tls"
  BY DEF Kinds
<1>3. \A i \in 1 .. 3 : i = 1 \/ i = 2 \/ i = 3
  OBVIOUS
<1>4. Range(Kinds) = KindNames
  <2>1. Range(Kinds) \subseteq KindNames
    BY <1>1, <1>2, <1>3 DEF Range, KindNames
  <2>2. 1 \in DOMAIN Kinds /\ 2 \in DOMAIN Kinds /\ 3 \in DOMAIN Kinds
    BY <1>1
  <2>3. KindNames \subseteq Range(Kinds)
    BY <1>2, <2>2 DEF Range, KindNames
  <2> QED BY <2>1, <2>3
<1> QED BY <1>2, <1>3, <1>4 DEF KindNames

\* No path in the archive is one of the files given.
LEMMA TargetsApart ==
    ASSUME NEW t \in Targets
    PROVE  t \notin DOMAIN Inputs /\ InArchive(t)
<1>1. PICK x \in Given : t[1] = ArchiveDir(x)
  BY DEF Targets
<1>2. PICK p \in DOMAIN Inputs : x = Inputs[p]
  BY DEF Given
<1>3. \A q \in DOMAIN Inputs : q[1] # t[1]
  BY <1>1, <1>2, FilesAssumption
<1> QED BY <1>3 DEF InArchive

\* A sequence has a length.
LEMMA SeqIs == ASSUME NEW s, IsSequence(s) PROVE Len(s) \in Nat /\ DOMAIN s = 1 .. Len(s)
BY LenProperties DEF IsSequence

\* The CSV rows of a report are a sequence.
LEMMA RowsType ==
    ASSUME NEW x \in Given, IsReport(x)
    PROVE  RowsOf(x) \in Seq(Rows) /\ \E S : RowsOf(x) \in Seq(S)
<1>1. PICK p \in DOMAIN Inputs : x = Inputs[p]
  BY DEF Given
<1>2. x.kind \in KindNames
  BY KindList DEF IsReport
<1>3. \E S : RowsOf(x) \in Seq(S)
  <2>1. CASE x.kind = "aggregate"
    <3>1. Len(x.records) \in Nat
      BY <1>1, <2>1, SeqIs, FilesAssumption
    <3>2. RowsOf(x) = [i \in 1 .. Len(x.records) |-> [id |-> x.id, record |-> x.records[i]]]
      BY <2>1 DEF RowsOf, AggregateRows
    <3>3. RowsOf(x) \in Seq({[id |-> x.id, record |-> x.records[i]] : i \in 1 .. Len(x.records)})
      BY <3>1, <3>2, IsASeq
    <3> QED BY <3>3
  <2>2. CASE x.kind = "failure"
    <3>1. RowsOf(x) = <<[id |-> x.id]>>
      BY <2>2 DEF RowsOf, FailureRows
    <3>2. RowsOf(x) \in Seq({[id |-> x.id]})
      BY <3>1
    <3> QED BY <3>2
  <2>3. CASE x.kind = "smtp_tls"
    <3>1. Len(x.policies) \in Nat /\ \A j \in 1 .. Len(x.policies) : Len(x.policies[j].details) \in Nat
      BY <1>1, <2>3, SeqIs, FilesAssumption
    <3> DEFINE First(j) == [id |-> x.id, strings |-> StringsAt(x.policies, j),
                            policy |-> x.policies[j].domain]
               Row(j, i) == [id |-> x.id, strings |-> StringsAt(x.policies, j),
                             detail |-> x.policies[j].details[i]]
               Later(j) == [i \in 1 .. Len(x.policies[j].details) |-> Row(j, i)]
               N == 1 .. Len(x.policies)
               S == {First(j) : j \in N} \cup
                    UNION {{Row(j, i) : i \in 1 .. Len(x.policies[j].details)} : j \in N}
    <3>2. ASSUME NEW j \in N PROVE PolicyRows(x, j) \in Seq(S)
      <4>1. PolicyRows(x, j) = <<First(j)>> \o Later(j)
        BY DEF PolicyRows
      <4>2. First(j) \in S /\ \A i \in 1 .. Len(x.policies[j].details) : Row(j, i) \in S
        OBVIOUS
      <4> HIDE DEF First, Row, S
      <4>3. <<First(j)>> \in Seq(S)
        BY <4>2
      <4>4. Later(j) \in Seq(S)
        BY <4>2, <3>1, IsASeq
      <4> QED BY <4>1, <4>3, <4>4, ConcatProperties
    <3> HIDE DEF S
    <3>3. [j \in 1 .. Len(x.policies) |-> PolicyRows(x, j)] \in Seq(Seq(S))
      BY <3>1, <3>2, IsASeq
    <3>4. RowsOf(x) = Joined([j \in 1 .. Len(x.policies) |-> PolicyRows(x, j)])
      BY <2>3 DEF RowsOf, TlsRows
    <3> QED BY <3>3, <3>4, JoinedWhole
  <2> QED BY <1>2, <2>1, <2>2, <2>3 DEF KindNames
<1>4. RowsOf(x) \in Seq(Range(RowsOf(x)))
  BY <1>3, SeqOfRange
<1>5. Range(RowsOf(x)) \subseteq Rows
  BY DEF Rows
<1> QED BY <1>3, <1>4, <1>5, SeqMonotonic

\* Among the rows of several reports those of each stand together.
LEMMA CsvRowsWhole ==
    ASSUME NEW s \in Seq(Given), \A x \in Range(s) : IsReport(x)
    PROVE  /\ CsvRows(s) \in Seq(Rows)
           /\ \A x \in Range(s) : Within(RowsOf(x), CsvRows(s))
<1> DEFINE blocks == [i \in 1 .. Len(s) |-> RowsOf(s[i])]
<1>1. Len(s) \in Nat /\ \A i \in 1 .. Len(s) : s[i] \in Given /\ s[i] \in Range(s)
  BY LenProperties, ElementOfSeq, RangeEquality
<1>2. \A i \in 1 .. Len(s) : RowsOf(s[i]) \in Seq(Rows)
  BY <1>1, RowsType
<1>3. blocks \in Seq(Seq(Rows)) /\ Len(blocks) = Len(s)
  <2>1. blocks \in [1 .. Len(s) -> Seq(Rows)]
    BY <1>2
  <2> QED BY <2>1, <1>1, LenProperties, IsASeq
<1>4. CsvRows(s) = Joined(blocks)
  BY DEF CsvRows
<1>5. ASSUME NEW x \in Range(s) PROVE Within(RowsOf(x), CsvRows(s))
  <2>1. PICK i \in 1 .. Len(s) : x = s[i]
    BY RangeEquality
  <2>2. blocks[i] = RowsOf(x)
    BY <2>1
  <2> HIDE DEF blocks
  <2> QED BY <2>2, <1>3, <1>4, JoinedWhole
<1> HIDE DEF blocks
<1> QED BY <1>3, <1>4, <1>5, JoinedWhole

\* The samples of one run have names that differ.
LEMMA NamesDiffer ==
    ASSUME NEW S, NEW s \in Seq(S), NEW i \in 1 .. Len(s), NEW j \in 1 .. Len(s), i # j
    PROVE  SampleName(s, i) # SampleName(s, j)
<1> DEFINE Before(n) == {h \in 1 .. n - 1 : s[h].subject = s[n].subject}
<1>0. Len(s) \in Nat
  BY LenProperties
<1>1. ASSUME NEW m \in 1 .. Len(s), NEW n \in 1 .. Len(s), m < n,
             SampleName(s, m) = SampleName(s, n)
      PROVE  FALSE
  <2>1. s[m].subject = s[n].subject /\ Cardinality(Before(m)) = Cardinality(Before(n))
    BY <1>1 DEF SampleName
  <2>2. m \in Nat /\ n \in Nat /\ m \in 1 .. n - 1 /\ m \notin 1 .. m - 1 /\ 1 .. m - 1 \subseteq 1 .. n - 1
    BY <1>0, <1>1
  <2>3. Before(m) \subseteq Before(n) /\ m \in Before(n) /\ m \notin Before(m)
    BY <2>1, <2>2
  <2>4. Before(n) \subseteq 1 .. n - 1
    OBVIOUS
  <2>4a. 1 \in Int /\ n - 1 \in Int
    BY <2>2
  <2>4b. IsFiniteSet(1 .. n - 1)
    BY <2>4a, FS_Interval
  <2>5. IsFiniteSet(Before(n))
    BY <2>4, <2>4b, FS_Subset
  <2> HIDE DEF Before
  <2>6. Cardinality(Before(m)) < Cardinality(Before(n))
    <3>1. Before(m) # Before(n)
      BY <2>3
    <3>2. /\ IsFiniteSet(Before(m)) /\ Cardinality(Before(m)) \in Nat /\ Cardinality(Before(n)) \in Nat
          /\ Cardinality(Before(m)) <= Cardinality(Before(n))
          /\ Cardinality(Before(m)) = Cardinality(Before(n)) => Before(m) = Before(n)
      BY <2>3, <2>5, FS_Subset, FS_CardinalityType
    <3> QED BY <3>1, <3>2
  <2> QED BY <2>1, <2>6, <2>5, FS_CardinalityType
<1> QED BY <1>0, <1>1

-----------------------------------------------------------------------------
(***************************************************************************)
(* The inductive invariant.  A run is first parsing and filing, then       *)
(* saving, then done; what has been done of its output follows from where  *)
(* it is.                                                                  *)
(***************************************************************************)
Parsing == {"new", "parse", "claim", "move", "copy", "unlink"}
Filing == {"claim", "move", "copy", "unlink"}
Holding == {"move", "copy", "unlink"}
Saving == {"json", "open", "dump", "csv", "rows"}
After == {"failed", "dead", "saved", "mailed", "unmailed"}

RunType ==
    /\ step \in [Runs -> Parsing \cup Saving \cup {"samples"} \cup After]
    /\ unread \in [Runs -> SUBSET DOMAIN Inputs]
    /\ parsed \in [Runs -> [KindNames -> Seq(Given)]]
    /\ from \in [Runs -> DOMAIN Inputs \cup {<<>>}]
    /\ to \in [Runs -> Targets \cup {<<>>}]
    /\ content \in [Runs -> Given \cup {Empty}]
    /\ kindNo \in [Runs -> 1 .. Sample]
    /\ merged \in [Runs -> Seq(Given \cup Rows)]

DiskType ==
    /\ DOMAIN disk \subseteq DOMAIN Inputs \cup Targets
    /\ \A p \in DOMAIN Inputs : p \in DOMAIN disk => disk[p] = Inputs[p]
    /\ filed \subseteq Targets \X Given

OutputType ==
    /\ json \in [KindNames -> [whole : BOOLEAN, reports : Seq(Given)]]
    /\ csv \in [KindNames -> Seq(Rows)]
    /\ savedBy \subseteq Runs

ByKind == \A r \in Runs, k \in KindNames : \A x \in Range(parsed[r][k]) : x.kind = k

ProgressType ==
    /\ RunType
    /\ ByKind
    /\ \A r \in Runs :
          /\ step[r] \in Filing =>
                from[r] \in DOMAIN Inputs /\ to[r] \in Targets
          /\ step[r] \in Parsing => kindNo[r] = 1
          /\ step[r] \in Saving => kindNo[r] \in 1 .. 3
          /\ At(r, "samples") => kindNo[r] = Sample
          /\ r \in savedBy => step[r] \in {"saved", "mailed", "unmailed"}

\* A claimed name: something is there, nothing was filed there, nobody else
\* has claimed it.
ClaimInv ==
    \A r \in Runs : step[r] \in Holding =>
        /\ to[r] \in DOMAIN disk
        /\ \A f \in filed : f[1] # to[r]
        /\ \A q \in Runs \ {r} :
              step[q] \in Holding => to[q] # to[r]

\* A copy is of the file given, and in place before that is removed.
CopyInv ==
    \A r \in Runs :
        /\ step[r] \in {"copy", "unlink"} => content[r] = Inputs[from[r]]
        /\ At(r, "unlink") => disk[to[r]] = content[r]

\* Every file given is still there or was filed; what was filed is there.
KeptInv ==
    /\ \A p \in DOMAIN Inputs : p \in DOMAIN disk \/ \E f \in filed : f[2] = Inputs[p]
    /\ \A f \in filed : f[1] \in DOMAIN disk /\ disk[f[1]] = f[2]

\* Run r has report y, or another with its id.
Has(r, y) == \E x \in Range(parsed[r][y.kind]) : SameReport(x, y)

\* A report that is being filed is among those of its run, one that was filed
\* among some run's.
CollectedInv ==
    /\ \A r \in Runs : step[r] \in Filing =>
          LET y == Inputs[from[r]] IN IsReport(y) => Has(r, y)
    /\ \A f \in filed : IsReport(f[2]) => \E r \in Runs : Has(r, f[2])

MailedInv == \A r \in Runs : At(r, "mailed") => <<r, parsed[r]>> \in mailed

\* Run r is done with the JSON file, or the CSV file, of the i-th kind.
JsonDone(r, i) ==
    \/ step[r] \in Saving \cup {"samples"} /\ i < kindNo[r]
    \/ step[r] \in {"csv", "rows"} /\ i = kindNo[r]
    \/ r \in savedBy

CsvDone(r, i) ==
    \/ step[r] \in Saving \cup {"samples"} /\ i < kindNo[r]
    \/ r \in savedBy

\* A report is in the JSON file of a kind, or its writer will write it, or the
\* kind is torn.
Kept(x, k) ==
    \/ k \in torn
    \/ x \in Range(json[k].reports)
    \/ \E q \in Runs : Writing(q, k) /\ At(q, "dump") /\ x \in Range(merged[q])

\* Only one run at a time has read the JSON file to write it again; the file
\* is cut short only while it dumps; it will write all that the file holds.
WriterOk(k) ==
    /\ \A q, p \in Runs : Writing(q, k) /\ Writing(p, k) => q = p
    /\ ~json[k].whole => \E q \in Runs : Writing(q, k) /\ At(q, "dump")
    /\ \A q \in Runs : Writing(q, k) => Range(json[k].reports) \subseteq Range(merged[q])

WriterInv == \A k \in KindNames : k \notin torn => WriterOk(k)

\* What a run is about to write.
MergedOk(r) ==
    /\ step[r] \in {"open", "dump"} =>
          merged[r] \in Seq(Given) /\ Range(Mine(r)) \subseteq Range(merged[r])
    /\ At(r, "rows") =>
          /\ merged[r] \in Seq(Rows)
          /\ \A x \in Range(Mine(r)) : Within(RowsOf(x), merged[r])

MergedInv == \A r \in Runs : MergedOk(r)

JsonInv ==
    \A r \in Runs, i \in 1 .. 3 : JsonDone(r, i) =>
        \A x \in Range(parsed[r][Kinds[i]]) : Kept(x, Kinds[i])

CsvInv ==
    \A r \in Runs, i \in 1 .. 3 : CsvDone(r, i) =>
        \A x \in Range(parsed[r][Kinds[i]]) : Within(RowsOf(x), csv[Kinds[i]])

\* Each failure report of a run has its name, and is there unless another run
\* used that.
SampleOk(r) ==
    \A i \in 1 .. Len(Failures(r)) :
        LET s == SampleName(Failures(r), i)
        IN  /\ s \in DOMAIN samples
            /\ samples[s].report = Failures(r)[i] \/ samples[s].by # r

SampleInv == \A r \in savedBy : SampleOk(r)

FIInv == /\ DiskType /\ OutputType /\ ProgressType /\ ClaimInv /\ CopyInv /\ KeptInv
  /\ CollectedInv /\ MailedInv /\ WriterInv /\ MergedInv /\ JsonInv /\ CsvInv /\ SampleInv

-----------------------------------------------------------------------------
(***************************************************************************)
(* Types.                                                                  *)
(***************************************************************************)
LEMMA TargetsHold ==
    /\ \A p \in DOMAIN Inputs : <<ArchiveDir(Inputs[p]), p[2], 0>> \in Targets
    /\ \A t \in Targets : <<t[1], t[2], t[3] + 1>> \in Targets
BY DEF Targets, Given

\* A file that a run has yet to read and that is there is as it was given.
LEMMA ReadFromDisk ==
    ASSUME DiskType, ProgressType, NEW r \in Runs, NEW p \in unread[r], p \in DOMAIN disk
    PROVE  p \in DOMAIN Inputs /\ disk[p] = Inputs[p] /\ disk[p] \in Given
BY DEF DiskType, ProgressType, RunType, Given

\* Sequences over a set are sequences over a larger one.
LEMMA SeqWider ==
    ASSUME NEW S, NEW T, S \subseteq T, NEW s \in Seq(S), NEW t \in Seq(S)
    PROVE  s \in Seq(T) /\ s \o t \in Seq(S) /\ s \o t \in Seq(T) /\ <<>> \in Seq(S) /\ <<>> \in Seq(T)
BY SeqMonotonic, ConcatProperties, EmptySeq

\* The files given stay as they are while they are there; the rest is in the
\* archive.
LEMMA DiskTypeStep ==
    ASSUME FIInv, [FilesNext]_filesVars
    PROVE  DiskType'
<1>1. ASSUME NEW r \in Runs, Begin(r) PROVE DiskType'
  BY <1>1, TargetsApart DEF Begin, Go, ExcludeArchived, ExpandArguments, At, archive, FIInv,
      DiskType, ProgressType, RunType, Filing, ClaimInv, CopyInv, Holding
<1>2. ASSUME NEW r \in Runs, NameTaken(r) PROVE DiskType'
  BY <1>2, TargetsApart DEF NameTaken, At, archive, FIInv, DiskType, ProgressType, RunType,
      Filing, ClaimInv, CopyInv, Holding
<1>3. ASSUME NEW r \in Runs, ClaimName(r) PROVE DiskType'
  BY <1>3, TargetsApart DEF ClaimName, Go, Put, At, FIInv, DiskType, ProgressType, RunType,
      Filing, ClaimInv, CopyInv, Holding
<1>4. ASSUME NEW r \in Runs, Rename(r) PROVE DiskType'
  <2>1. from[r] \in DOMAIN Inputs /\ to[r] \in Targets /\ disk[from[r]] = Inputs[from[r]]
        /\ to[r] \notin DOMAIN Inputs
    BY <1>4, TargetsApart DEF Rename, At, FIInv, DiskType, ProgressType, Filing
  <2>2. DiskType /\ Inputs[from[r]] \in Given
    BY <2>1 DEF FIInv, Given
  <2> QED BY <1>4, <2>1, <2>2 DEF Rename, Archived, DiskType
<1>5. ASSUME NEW r \in Runs, NEW p, ParseFile(r, p) PROVE DiskType'
  BY <1>5, TargetsApart DEF ParseFile, Go, At, archive, FIInv, DiskType, ProgressType, RunType,
      Filing, ClaimInv, CopyInv, Holding
<1>6. ASSUME NEW r \in Runs, NEW p, LeaveFile(r, p) PROVE DiskType'
  BY <1>6, TargetsApart DEF LeaveFile, At, archive, FIInv, DiskType, ProgressType, RunType,
      Filing, ClaimInv, CopyInv, Holding
<1>7. ASSUME NEW r \in Runs, StartCopy(r) PROVE DiskType'
  BY <1>7, TargetsApart DEF StartCopy, Go, At, archive, FIInv, DiskType, ProgressType, RunType,
      Filing, ClaimInv, CopyInv, Holding
<1>8. ASSUME NEW r \in Runs, FinishCopy(r) PROVE DiskType'
  BY <1>8, TargetsApart DEF FinishCopy, Go, Put, At, FIInv, DiskType, ProgressType, RunType,
      Filing, ClaimInv, CopyInv, Holding
<1>9. ASSUME NEW r \in Runs, Unlink(r) PROVE DiskType'
  <2>1. from[r] \in DOMAIN Inputs /\ to[r] \in Targets /\ content[r] = Inputs[from[r]]
    BY <1>9 DEF Unlink, At, FIInv, ProgressType, CopyInv, Filing
  <2>2. DiskType /\ content[r] \in Given
    BY <2>1 DEF FIInv, Given
  <2> QED BY <1>9, <2>1, <2>2 DEF Unlink, Archived, DiskType
<1>10. ASSUME NEW r \in Runs, MoveFails(r) PROVE DiskType'
  BY <1>10, TargetsApart DEF MoveFails, Go, FIInv, DiskType, ProgressType, RunType, Filing,
      ClaimInv, CopyInv, Holding
<1>11. ASSUME NEW r \in Runs, ParsedAll(r) PROVE DiskType'
  BY <1>11, TargetsApart DEF ParsedAll, Go, At, archive, FIInv, DiskType, ProgressType,
      RunType, Filing, ClaimInv, CopyInv, Holding
<1>12. ASSUME NEW r \in Runs, SkipKind(r) PROVE DiskType'
  BY <1>12, TargetsApart DEF SkipKind, NextKind, Go, At, archive, FIInv, DiskType,
      ProgressType, RunType, Filing, ClaimInv, CopyInv, Holding
<1>13. ASSUME NEW r \in Runs, ReadJson(r) PROVE DiskType'
  BY <1>13, TargetsApart DEF ReadJson, Merge, Go, At, archive, FIInv, DiskType, ProgressType,
      RunType, Filing, ClaimInv, CopyInv, Holding
<1>14. ASSUME NEW r \in Runs, OpenJson(r) PROVE DiskType'
  BY <1>14, TargetsApart DEF OpenJson, Go, Replace, At, archive, FIInv, DiskType, ProgressType,
      RunType, Filing, ClaimInv, CopyInv, Holding
<1>15. ASSUME NEW r \in Runs, DumpJson(r) PROVE DiskType'
  BY <1>15, TargetsApart DEF DumpJson, Go, Replace, At, archive, FIInv, DiskType, ProgressType,
      RunType, Filing, ClaimInv, CopyInv, Holding
<1>16. ASSUME NEW r \in Runs, FindCsv(r) PROVE DiskType'
  BY <1>16, TargetsApart DEF FindCsv, Go, At, archive, FIInv, DiskType, ProgressType, RunType,
      Filing, ClaimInv, CopyInv, Holding
<1>17. ASSUME NEW r \in Runs, AppendCsv(r) PROVE DiskType'
  BY <1>17, TargetsApart DEF AppendCsv, NextKind, Go, At, archive, FIInv, DiskType,
      ProgressType, RunType, Filing, ClaimInv, CopyInv, Holding
<1>18. ASSUME NEW r \in Runs, WriteSamples(r) PROVE DiskType'
  BY <1>18, TargetsApart DEF WriteSamples, Go, At, archive, FIInv, DiskType, ProgressType,
      RunType, Filing, ClaimInv, CopyInv, Holding
<1>19. ASSUME NEW r \in Runs, WriteFails(r) PROVE DiskType'
  BY <1>19, TargetsApart DEF WriteFails, Go, At, archive, FIInv, DiskType, ProgressType,
      RunType, Filing, ClaimInv, CopyInv, Holding
<1>20. ASSUME NEW r \in Runs, Mail(r) PROVE DiskType'
  BY <1>20, TargetsApart DEF Mail, Go, archive, FIInv, DiskType, ProgressType, RunType, Filing,
      ClaimInv, CopyInv, Holding
<1>21. ASSUME NEW r \in Runs, Die(r) PROVE DiskType'
  BY <1>21, TargetsApart DEF Die, Go, At, archive, FIInv, DiskType, ProgressType, RunType,
      Filing, ClaimInv, CopyInv, Holding
<1>22. ASSUME UNCHANGED filesVars PROVE DiskType'
  BY <1>22 DEF filesVars, archive, FIInv, DiskType, ProgressType, RunType, Filing, ClaimInv,
      CopyInv, Holding
<1> QED BY <1>1, <1>2, <1>3, <1>4, <1>5, <1>6, <1>7, <1>8, <1>9, <1>10, <1>11, <1>12, <1>13,
    <1>14, <1>15, <1>16, <1>17, <1>18, <1>19, <1>20, <1>21, <1>22 DEF FilesNext

\* What a run that saves holds of the kind it is at.
LEMMA MineType ==
    ASSUME OutputType, ProgressType, NEW r \in Runs, step[r] \in Saving
    PROVE  /\ KindOf(r) \in KindNames
           /\ Mine(r) \in Seq(Given)
           /\ \A x \in Range(Mine(r)) : x \in Given /\ IsReport(x) /\ x.kind = KindOf(r)
           /\ CsvRows(Mine(r)) \in Seq(Rows)
           /\ \A x \in Range(Mine(r)) : Within(RowsOf(x), CsvRows(Mine(r)))
<1>1. KindOf(r) \in KindNames
  BY KindList DEF ProgressType, KindOf
<1>2. Mine(r) \in Seq(Given)
  BY <1>1 DEF ProgressType, RunType, Mine
<1>3. \A x \in Range(Mine(r)) : x \in Given /\ x.kind = KindOf(r)
  BY <1>1, <1>2, RangeEquality, ElementOfSeq DEF ProgressType, ByKind, Mine
<1>4. \A x \in Range(Mine(r)) : IsReport(x)
  BY <1>1, <1>3, KindList DEF IsReport
<1> QED BY <1>1, <1>2, <1>3, <1>4, CsvRowsWhole

\* The variables of a run keep their types.
LEMMA RunTypeStep ==
    ASSUME DiskType, OutputType, ProgressType, [FilesNext]_filesVars
    PROVE  RunType'
<1>1. ASSUME NEW r \in Runs, Begin(r) PROVE RunType'
  <2>1. \A p \in DOMAIN disk : ~InArchive(p) => p \in DOMAIN Inputs
    BY TargetsApart DEF DiskType
  <2> QED BY <1>1, <2>1 DEF Begin, Go, ExcludeArchived, ExpandArguments, ProgressType, RunType,
      Parsing, moving, writing
<1>2. ASSUME NEW r \in Runs, NameTaken(r) PROVE RunType'
  <2>1. to[r] \in Targets
    BY <1>2 DEF NameTaken, At, ProgressType, Filing
  <2>2. <<to[r][1], to[r][2], to[r][3] + 1>> \in Targets
    BY <2>1, TargetsHold
  <2> QED BY <1>2, <2>2 DEF NameTaken, ProgressType, RunType, reading, writing
<1>3. ASSUME NEW r \in Runs, ClaimName(r) PROVE RunType'
  BY <1>3 DEF ClaimName, Go, Put, At, reading, moving, writing, ProgressType, RunType, Parsing,
      Saving, After
<1>4. ASSUME NEW r \in Runs, Rename(r) PROVE RunType'
  BY <1>4 DEF Rename, Go, Archived, At, reading, moving, writing, ProgressType, RunType,
      Parsing, Saving, After
<1>5. ASSUME NEW r \in Runs, NEW p, ParseFile(r, p) PROVE RunType'
  <2>1. p \in DOMAIN Inputs /\ disk[p] = Inputs[p] /\ disk[p] \in Given
    BY <1>5, ReadFromDisk DEF ParseFile
  <2>2. parsed' \in [Runs -> [KindNames -> Seq(Given)]]
    <3>1. CASE parsed' = parsed
      BY <3>1 DEF ProgressType, RunType
    <3>2. CASE IsReport(disk[p]) /\ parsed' = [parsed EXCEPT ![r][disk[p].kind] = Append(@, disk[p])]
      <4>1. disk[p].kind \in KindNames
        BY <3>2, KindList DEF IsReport
      <4>2. Append(parsed[r][disk[p].kind], disk[p]) \in Seq(Given)
        BY <4>1, <2>1, AppendProperties DEF ProgressType, RunType
      <4> QED BY <3>2, <4>1, <4>2 DEF ProgressType, RunType
    <3> QED BY <1>5, <3>1, <3>2 DEF ParseFile, AddResult
  <2>3. <<ArchiveDir(disk[p]), p[2], 0>> \in Targets
    BY <2>1, TargetsHold
  <2>4. from' \in [Runs -> DOMAIN Inputs \cup {<<>>}] /\ unread' \in [Runs -> SUBSET DOMAIN Inputs]
    BY <1>5, <2>1 DEF ParseFile, ProgressType, RunType
  <2>5. to' \in [Runs -> Targets \cup {<<>>}]
    BY <1>5, <2>3 DEF ParseFile, ProgressType, RunType
  <2>6. step' \in [Runs -> Parsing \cup Saving \cup {"samples"} \cup After]
    BY <1>5 DEF ParseFile, Go, ProgressType, RunType, Parsing
  <2> QED BY <1>5, <2>2, <2>4, <2>5, <2>6 DEF ParseFile, ProgressType, RunType, writing
<1>6. ASSUME NEW r \in Runs, NEW p, LeaveFile(r, p) PROVE RunType'
  BY <1>6 DEF LeaveFile, At, moving, writing, ProgressType, RunType, Parsing, Saving, After
<1>7. ASSUME NEW r \in Runs, StartCopy(r) PROVE RunType'
  <2>1. disk[from[r]] \in Given
    BY <1>7 DEF StartCopy, At, DiskType, ProgressType, Filing, Given
  <2> QED BY <1>7, <2>1 DEF StartCopy, Go, ProgressType, RunType, Parsing, reading, writing
<1>8. ASSUME NEW r \in Runs, FinishCopy(r) PROVE RunType'
  BY <1>8 DEF FinishCopy, Go, Put, At, reading, moving, writing, ProgressType, RunType,
      Parsing, Saving, After
<1>9. ASSUME NEW r \in Runs, Unlink(r) PROVE RunType'
  BY <1>9 DEF Unlink, Go, Archived, At, reading, moving, writing, ProgressType, RunType,
      Parsing, Saving, After
<1>10. ASSUME NEW r \in Runs, MoveFails(r) PROVE RunType'
  <2>1. Go(r, "parse") /\ UNCHANGED <<reading, moving, writing>>
    BY <1>10 DEF MoveFails
  <2> QED BY <2>1 DEF Go, ProgressType, RunType, Parsing, reading, moving, writing
<1>11. ASSUME NEW r \in Runs, ParsedAll(r) PROVE RunType'
  BY <1>11 DEF ParsedAll, Go, At, reading, moving, writing, ProgressType, RunType, Parsing,
      Saving, After
<1>12. ASSUME NEW r \in Runs, SkipKind(r) PROVE RunType'
  <2>1. kindNo[r] \in 1 .. 3 /\ kindNo[r] + 1 \in 1 .. Sample
    BY <1>12 DEF SkipKind, At, ProgressType, Saving, Sample
  <2> QED BY <1>12, <2>1 DEF SkipKind, NextKind, Go, ProgressType, RunType, Saving, reading,
      moving
<1>13. ASSUME NEW r \in Runs, ReadJson(r) PROVE RunType'
  <2>1. KindOf(r) \in KindNames /\ Mine(r) \in Seq(Given)
    BY <1>13, MineType DEF ReadJson, At, Saving
  <2>2. json[KindOf(r)].reports \in Seq(Given)
    BY <2>1 DEF OutputType
  <2>3. PICK found \in Seq(Given) : merged' = [merged EXCEPT ![r] = found \o Mine(r)]
    BY <1>13, <2>2, EmptySeq DEF ReadJson, Merge
  <2>4. found \o Mine(r) \in Seq(Given \cup Rows)
    BY <2>1, SeqWider
  <2>5. merged' \in [Runs -> Seq(Given \cup Rows)]
    BY <2>3, <2>4 DEF ProgressType, RunType
  <2> QED BY <1>13, <2>5 DEF ReadJson, Merge, Go, ProgressType, RunType, Saving, reading, moving
<1>14. ASSUME NEW r \in Runs, OpenJson(r) PROVE RunType'
  BY <1>14 DEF OpenJson, Go, Replace, At, reading, moving, writing, ProgressType, RunType,
      Parsing, Saving, After
<1>15. ASSUME NEW r \in Runs, DumpJson(r) PROVE RunType'
  BY <1>15 DEF DumpJson, Go, Replace, At, reading, moving, writing, ProgressType, RunType,
      Parsing, Saving, After
<1>16. ASSUME NEW r \in Runs, FindCsv(r) PROVE RunType'
  <2>1. CsvRows(Mine(r)) \in Seq(Rows)
    BY <1>16, MineType DEF FindCsv, At, Saving
  <2>2. <<Header>> \in Seq(Rows) /\ <<>> \in Seq(Rows)
    BY EmptySeq DEF Rows
  <2>3. PICK header \in Seq(Rows) : merged' = [merged EXCEPT ![r] = header \o CsvRows(Mine(r))]
    BY <1>16, <2>2 DEF FindCsv
  <2>4. header \o CsvRows(Mine(r)) \in Seq(Given \cup Rows)
    BY <2>1, SeqWider
  <2>5. merged' \in [Runs -> Seq(Given \cup Rows)]
    BY <2>3, <2>4 DEF ProgressType, RunType
  <2> QED BY <1>16, <2>5 DEF FindCsv, Go, ProgressType, RunType, Saving, reading, moving,
      output, archive
<1>17. ASSUME NEW r \in Runs, AppendCsv(r) PROVE RunType'
  <2>1. kindNo[r] \in 1 .. 3 /\ kindNo[r] + 1 \in 1 .. Sample
    BY <1>17 DEF AppendCsv, At, ProgressType, Saving, Sample
  <2> QED BY <1>17, <2>1 DEF AppendCsv, NextKind, Go, ProgressType, RunType, Saving, reading,
      moving
<1>18. ASSUME NEW r \in Runs, WriteSamples(r) PROVE RunType'
  BY <1>18 DEF WriteSamples, Go, At, reading, moving, writing, ProgressType, RunType, Parsing,
      Saving, After
<1>19. ASSUME NEW r \in Runs, WriteFails(r) PROVE RunType'
  BY <1>19 DEF WriteFails, Go, At, reading, moving, writing, ProgressType, RunType, Parsing,
      Saving, After
<1>20. ASSUME NEW r \in Runs, Mail(r) PROVE RunType'
  <2>1. Go(r, "mailed") \/ Go(r, "unmailed")
    BY <1>20 DEF Mail
  <2>2. UNCHANGED <<reading, moving, writing>>
    BY <1>20 DEF Mail
  <2> QED BY <2>1, <2>2 DEF Go, ProgressType, RunType, After, reading, moving, writing
<1>21. ASSUME NEW r \in Runs, Die(r) PROVE RunType'
  BY <1>21 DEF Die, Go, At, reading, moving, writing, ProgressType, RunType, Parsing, Saving,
      After
<1>22. ASSUME UNCHANGED filesVars PROVE RunType'
  BY <1>22 DEF filesVars, reading, moving, writing, ProgressType, RunType, Parsing, Saving,
      After
<1> QED BY <1>1, <1>2, <1>3, <1>4, <1>5, <1>6, <1>7, <1>8, <1>9, <1>10, <1>11, <1>12, <1>13,
    <1>14, <1>15, <1>16, <1>17, <1>18, <1>19, <1>20, <1>21, <1>22 DEF FilesNext

\* A report is collected under its own kind.
LEMMA ByKindStep ==
    ASSUME DiskType, ProgressType, [FilesNext]_filesVars
    PROVE  ByKind'
<1>1. ASSUME NEW r \in Runs, Begin(r) PROVE ByKind'
  BY <1>1 DEF Begin, ExcludeArchived, ExpandArguments, At, ProgressType, ByKind
<1>2. ASSUME NEW r \in Runs, NameTaken(r) PROVE ByKind'
  BY <1>2 DEF NameTaken, At, reading, ProgressType, ByKind
<1>3. ASSUME NEW r \in Runs, ClaimName(r) PROVE ByKind'
  BY <1>3 DEF ClaimName, Put, At, reading, ProgressType, ByKind
<1>4. ASSUME NEW r \in Runs, Rename(r) PROVE ByKind'
  BY <1>4 DEF Rename, Archived, At, reading, ProgressType, ByKind
<1>5. ASSUME NEW r \in Runs, NEW p, ParseFile(r, p) PROVE ByKind'
  <2>1. p \in DOMAIN Inputs /\ disk[p] = Inputs[p] /\ disk[p] \in Given
    BY <1>5, ReadFromDisk DEF ParseFile
  <2>2. SUFFICES ASSUME NEW q \in Runs, NEW k \in KindNames, NEW x \in Range(parsed'[q][k])
                 PROVE x.kind = k
    BY DEF ByKind
  <2>3. CASE x \in Range(parsed[q][k])
    BY <2>3 DEF ProgressType, ByKind
  <2>4. CASE x \notin Range(parsed[q][k])
    <3>1. IsReport(disk[p]) /\ parsed' = [parsed EXCEPT ![r][disk[p].kind] = Append(@, disk[p])]
      BY <1>5, <2>4 DEF ParseFile, AddResult
    <3>2. q = r /\ k = disk[p].kind /\ parsed'[q][k] = Append(parsed[r][k], disk[p])
      BY <2>4, <3>1 DEF ProgressType, RunType
    <3>3. x = disk[p]
      BY <2>4, <3>2, <2>1, AppendProperties DEF ProgressType, RunType, Range
    <3> QED BY <3>2, <3>3
  <2> QED BY <2>3, <2>4
<1>6. ASSUME NEW r \in Runs, NEW p, LeaveFile(r, p) PROVE ByKind'
  BY <1>6 DEF LeaveFile, At, ProgressType, ByKind
<1>7. ASSUME NEW r \in Runs, StartCopy(r) PROVE ByKind'
  BY <1>7 DEF StartCopy, At, reading, ProgressType, ByKind
<1>8. ASSUME NEW r \in Runs, FinishCopy(r) PROVE ByKind'
  BY <1>8 DEF FinishCopy, Put, At, reading, ProgressType, ByKind
<1>9. ASSUME NEW r \in Runs, Unlink(r) PROVE ByKind'
  BY <1>9 DEF Unlink, Archived, At, reading, ProgressType, ByKind
<1>10. ASSUME NEW r \in Runs, MoveFails(r) PROVE ByKind'
  BY <1>10 DEF MoveFails, reading, ProgressType, ByKind
<1>11. ASSUME NEW r \in Runs, ParsedAll(r) PROVE ByKind'
  BY <1>11 DEF ParsedAll, At, reading, ProgressType, ByKind
<1>12. ASSUME NEW r \in Runs, SkipKind(r) PROVE ByKind'
  BY <1>12 DEF SkipKind, NextKind, At, reading, ProgressType, ByKind
<1>13. ASSUME NEW r \in Runs, ReadJson(r) PROVE ByKind'
  BY <1>13 DEF ReadJson, Merge, At, reading, ProgressType, ByKind
<1>14. ASSUME NEW r \in Runs, OpenJson(r) PROVE ByKind'
  BY <1>14 DEF OpenJson, Replace, At, reading, ProgressType, ByKind
<1>15. ASSUME NEW r \in Runs, DumpJson(r) PROVE ByKind'
  BY <1>15 DEF DumpJson, Replace, At, reading, ProgressType, ByKind
<1>16. ASSUME NEW r \in Runs, FindCsv(r) PROVE ByKind'
  BY <1>16 DEF FindCsv, At, reading, ProgressType, ByKind
<1>17. ASSUME NEW r \in Runs, AppendCsv(r) PROVE ByKind'
  BY <1>17 DEF AppendCsv, NextKind, At, reading, ProgressType, ByKind
<1>18. ASSUME NEW r \in Runs, WriteSamples(r) PROVE ByKind'
  BY <1>18 DEF WriteSamples, At, reading, ProgressType, ByKind
<1>19. ASSUME NEW r \in Runs, WriteFails(r) PROVE ByKind'
  BY <1>19 DEF WriteFails, At, reading, ProgressType, ByKind
<1>20. ASSUME NEW r \in Runs, Mail(r) PROVE ByKind'
  BY <1>20 DEF Mail, reading, ProgressType, ByKind
<1>21. ASSUME NEW r \in Runs, Die(r) PROVE ByKind'
  BY <1>21 DEF Die, At, reading, ProgressType, ByKind
<1>22. ASSUME UNCHANGED filesVars PROVE ByKind'
  BY <1>22 DEF filesVars, reading, ProgressType, ByKind
<1> QED BY <1>1, <1>2, <1>3, <1>4, <1>5, <1>6, <1>7, <1>8, <1>9, <1>10, <1>11, <1>12, <1>13,
    <1>14, <1>15, <1>16, <1>17, <1>18, <1>19, <1>20, <1>21, <1>22 DEF FilesNext

\* A run saves kind after kind, once it has parsed and filed everything.
LEMMA ProgressStep ==
    ASSUME DiskType, OutputType, ProgressType, RunType', ByKind', [FilesNext]_filesVars
    PROVE  ProgressType'
<1>1. ASSUME NEW r \in Runs, Begin(r) PROVE ProgressType'
  BY <1>1 DEF Begin, Go, ExcludeArchived, ExpandArguments, At, output, moving, writing,
      ProgressType, RunType, Parsing, Saving, Filing
<1>2. ASSUME NEW r \in Runs, NameTaken(r) PROVE ProgressType'
  <2>1. <<to[r][1], to[r][2], to[r][3] + 1>> \in Targets
    BY <1>2, TargetsHold DEF NameTaken, At, ProgressType, Filing
  <2> QED BY <1>2, <2>1 DEF NameTaken, At, output, reading, writing, ProgressType, RunType,
      Parsing, Filing, Saving
<1>3. ASSUME NEW r \in Runs, ClaimName(r) PROVE ProgressType'
  BY <1>3 DEF ClaimName, Go, Put, At, output, reading, moving, writing, ProgressType, RunType,
      Parsing, Saving, Filing
<1>4. ASSUME NEW r \in Runs, Rename(r) PROVE ProgressType'
  BY <1>4 DEF Rename, Go, Archived, At, output, reading, moving, writing, ProgressType,
      RunType, Parsing, Saving, Filing
<1>5. ASSUME NEW r \in Runs, NEW p, ParseFile(r, p) PROVE ProgressType'
  <2>1. p \in DOMAIN Inputs /\ disk[p] = Inputs[p] /\ disk[p] \in Given
    BY <1>5, ReadFromDisk DEF ParseFile
  <2>2. <<ArchiveDir(disk[p]), p[2], 0>> \in Targets
    BY <2>1, TargetsHold
  <2> QED BY <1>5, <2>1, <2>2 DEF ParseFile, Go, At, output, writing, ProgressType, RunType,
      Parsing, Filing, Saving
<1>6. ASSUME NEW r \in Runs, NEW p, LeaveFile(r, p) PROVE ProgressType'
  BY <1>6 DEF LeaveFile, At, output, moving, writing, ProgressType, RunType, Parsing, Saving,
      Filing
<1>7. ASSUME NEW r \in Runs, StartCopy(r) PROVE ProgressType'
  BY <1>7 DEF StartCopy, Go, At, output, reading, writing, ProgressType, RunType, Parsing,
      Saving, Filing
<1>8. ASSUME NEW r \in Runs, FinishCopy(r) PROVE ProgressType'
  BY <1>8 DEF FinishCopy, Go, Put, At, output, reading, moving, writing, ProgressType, RunType,
      Parsing, Saving, Filing
<1>9. ASSUME NEW r \in Runs, Unlink(r) PROVE ProgressType'
  BY <1>9 DEF Unlink, Go, Archived, At, output, reading, moving, writing, ProgressType,
      RunType, Parsing, Saving, Filing
<1>10. ASSUME NEW r \in Runs, MoveFails(r) PROVE ProgressType'
  BY <1>10 DEF MoveFails, Go, output, reading, moving, writing, At, ProgressType, RunType,
      Parsing, Saving, Filing
<1>11. ASSUME NEW r \in Runs, ParsedAll(r) PROVE ProgressType'
  <2>1. r \notin savedBy
    BY <1>11 DEF ParsedAll, At, ProgressType
  <2> QED BY <1>11, <2>1 DEF ParsedAll, At, Go, ProgressType, RunType, Parsing, Filing, Saving,
      output, moving, writing
<1>12. ASSUME NEW r \in Runs, SkipKind(r) PROVE ProgressType'
  <2>1. kindNo[r] \in 1 .. 3 /\ (kindNo[r] + 1 # Sample => kindNo[r] + 1 \in 1 .. 3)
    BY <1>12 DEF SkipKind, At, ProgressType, Saving, Sample
  <2>2. r \notin savedBy
    BY <1>12 DEF SkipKind, At, ProgressType
  <2>3. /\ step'[r] \in {"json", "samples"} /\ (step'[r] = "json" => kindNo'[r] \in 1 .. 3)
        /\ (step'[r] = "samples" => kindNo'[r] = Sample)
    BY <1>12, <2>1 DEF SkipKind, NextKind, Go, ProgressType, RunType
  <2>4. \A q \in Runs \ {r} : step'[q] = step[q] /\ kindNo'[q] = kindNo[q]
    BY <1>12 DEF SkipKind, NextKind, Go, ProgressType, RunType
  <2>5. savedBy' = savedBy /\ from' = from /\ to' = to
    BY <1>12 DEF SkipKind, NextKind, moving
  <2> QED BY <2>2, <2>3, <2>4, <2>5 DEF ProgressType, RunType, Parsing, Filing, Saving, At
<1>13. ASSUME NEW r \in Runs, ReadJson(r) PROVE ProgressType'
  BY <1>13 DEF ReadJson, Merge, Go, At, reading, moving, ProgressType, RunType, Parsing,
      Saving, Filing
<1>14. ASSUME NEW r \in Runs, OpenJson(r) PROVE ProgressType'
  BY <1>14 DEF OpenJson, Go, Replace, At, reading, moving, writing, ProgressType, RunType,
      Parsing, Saving, Filing
<1>15. ASSUME NEW r \in Runs, DumpJson(r) PROVE ProgressType'
  BY <1>15 DEF DumpJson, Go, Replace, At, reading, moving, writing, ProgressType, RunType,
      Parsing, Saving, Filing
<1>16. ASSUME NEW r \in Runs, FindCsv(r) PROVE ProgressType'
  BY <1>16 DEF FindCsv, Go, At, output, reading, moving, ProgressType, RunType, Parsing,
      Saving, Filing
<1>17. ASSUME NEW r \in Runs, AppendCsv(r) PROVE ProgressType'
  <2>1. kindNo[r] \in 1 .. 3 /\ (kindNo[r] + 1 # Sample => kindNo[r] + 1 \in 1 .. 3)
    BY <1>17 DEF AppendCsv, At, ProgressType, Saving, Sample
  <2>2. r \notin savedBy
    BY <1>17 DEF AppendCsv, At, ProgressType
  <2>3. /\ step'[r] \in {"json", "samples"} /\ (step'[r] = "json" => kindNo'[r] \in 1 .. 3)
        /\ (step'[r] = "samples" => kindNo'[r] = Sample)
    BY <1>17, <2>1 DEF AppendCsv, NextKind, Go, ProgressType, RunType
  <2>4. \A q \in Runs \ {r} : step'[q] = step[q] /\ kindNo'[q] = kindNo[q]
    BY <1>17 DEF AppendCsv, NextKind, Go, ProgressType, RunType
  <2>5. savedBy' = savedBy /\ from' = from /\ to' = to
    BY <1>17 DEF AppendCsv, NextKind, moving
  <2> QED BY <2>2, <2>3, <2>4, <2>5 DEF ProgressType, RunType, Parsing, Filing, Saving, At
<1>18. ASSUME NEW r \in Runs, WriteSamples(r) PROVE ProgressType'
  BY <1>18 DEF WriteSamples, Go, At, reading, moving, writing, ProgressType, RunType, Parsing,
      Saving, Filing
<1>19. ASSUME NEW r \in Runs, WriteFails(r) PROVE ProgressType'
  BY <1>19 DEF WriteFails, Go, At, reading, moving, writing, ProgressType, RunType, Parsing,
      Saving, Filing
<1>20. ASSUME NEW r \in Runs, Mail(r) PROVE ProgressType'
  BY <1>20 DEF Mail, Go, reading, moving, writing, At, ProgressType, RunType, Parsing, Saving,
      Filing
<1>21. ASSUME NEW r \in Runs, Die(r) PROVE ProgressType'
  BY <1>21 DEF Die, Go, At, reading, moving, writing, ProgressType, RunType, Parsing, Saving,
      Filing
<1>22. ASSUME UNCHANGED filesVars PROVE ProgressType'
  BY <1>22 DEF filesVars, output, reading, moving, writing, At, ProgressType, RunType, Parsing,
      Saving, Filing
<1> QED BY <1>1, <1>2, <1>3, <1>4, <1>5, <1>6, <1>7, <1>8, <1>9, <1>10, <1>11, <1>12, <1>13,
    <1>14, <1>15, <1>16, <1>17, <1>18, <1>19, <1>20, <1>21, <1>22 DEF FilesNext

\* The JSON files hold reports, the CSV files rows.
LEMMA OutputStep ==
    ASSUME DiskType, OutputType, ProgressType, MergedInv, [FilesNext]_filesVars
    PROVE  OutputType'
<1>1. ASSUME NEW r \in Runs, Begin(r) PROVE OutputType'
  BY <1>1, MineType DEF Begin, ExcludeArchived, ExpandArguments, At, output, DiskType,
      OutputType, ProgressType, RunType, Parsing, Saving, After, Filing
<1>2. ASSUME NEW r \in Runs, NameTaken(r) PROVE OutputType'
  BY <1>2, MineType DEF NameTaken, At, output, DiskType, OutputType, ProgressType, RunType,
      Parsing, Saving, After, Filing
<1>3. ASSUME NEW r \in Runs, ClaimName(r) PROVE OutputType'
  BY <1>3, MineType DEF ClaimName, Put, At, output, DiskType, OutputType, ProgressType,
      RunType, Parsing, Saving, After, Filing
<1>4. ASSUME NEW r \in Runs, Rename(r) PROVE OutputType'
  BY <1>4, MineType DEF Rename, Archived, At, output, DiskType, OutputType, ProgressType,
      RunType, Parsing, Saving, After, Filing
<1>5. ASSUME NEW r \in Runs, NEW p, ParseFile(r, p) PROVE OutputType'
  BY <1>5, MineType DEF ParseFile, At, output, DiskType, OutputType, ProgressType, RunType,
      Parsing, Saving, After, Filing
<1>6. ASSUME NEW r \in Runs, NEW p, LeaveFile(r, p) PROVE OutputType'
  BY <1>6, MineType DEF LeaveFile, At, output, DiskType, OutputType, ProgressType, RunType,
      Parsing, Saving, After, Filing
<1>7. ASSUME NEW r \in Runs, StartCopy(r) PROVE OutputType'
  BY <1>7, MineType DEF StartCopy, At, output, DiskType, OutputType, ProgressType, RunType,
      Parsing, Saving, After, Filing
<1>8. ASSUME NEW r \in Runs, FinishCopy(r) PROVE OutputType'
  BY <1>8, MineType DEF FinishCopy, Put, At, output, DiskType, OutputType, ProgressType,
      RunType, Parsing, Saving, After, Filing
<1>9. ASSUME NEW r \in Runs, Unlink(r) PROVE OutputType'
  BY <1>9, MineType DEF Unlink, Archived, At, output, DiskType, OutputType, ProgressType,
      RunType, Parsing, Saving, After, Filing
<1>10. ASSUME NEW r \in Runs, MoveFails(r) PROVE OutputType'
  BY <1>10, MineType DEF MoveFails, output, DiskType, OutputType, ProgressType, RunType,
      Parsing, Saving, After, Filing
<1>11. ASSUME NEW r \in Runs, ParsedAll(r) PROVE OutputType'
  BY <1>11, MineType DEF ParsedAll, At, output, DiskType, OutputType, ProgressType, RunType,
      Parsing, Saving, After, Filing
<1>12. ASSUME NEW r \in Runs, SkipKind(r) PROVE OutputType'
  <2>1. KindOf(r) \in KindNames /\ <<Header>> \in Seq(Rows)
    <3>1. Header \in Rows
      BY DEF Rows
    <3> QED BY <1>12, <3>1, MineType DEF SkipKind, At, Saving
  <2> QED BY <1>12, <2>1 DEF SkipKind, NextKind, OutputType
<1>13. ASSUME NEW r \in Runs, ReadJson(r) PROVE OutputType'
  BY <1>13, MineType DEF ReadJson, Merge, At, DiskType, OutputType, ProgressType, RunType,
      Parsing, Saving, After, Filing
<1>14. ASSUME NEW r \in Runs, OpenJson(r) PROVE OutputType'
  BY <1>14, MineType DEF OpenJson, Replace, At, DiskType, OutputType, ProgressType, RunType,
      Parsing, Saving, After, Filing
<1>15. ASSUME NEW r \in Runs, DumpJson(r) PROVE OutputType'
  <2>1. KindOf(r) \in KindNames /\ merged[r] \in Seq(Given)
    BY <1>15, MineType DEF DumpJson, At, Saving, MergedInv, MergedOk
  <2> QED BY <1>15, <2>1 DEF DumpJson, Replace, OutputType
<1>16. ASSUME NEW r \in Runs, FindCsv(r) PROVE OutputType'
  BY <1>16, MineType DEF FindCsv, At, output, DiskType, OutputType, ProgressType, RunType,
      Parsing, Saving, After, Filing
<1>17. ASSUME NEW r \in Runs, AppendCsv(r) PROVE OutputType'
  <2>1. KindOf(r) \in KindNames /\ csv[KindOf(r)] \in Seq(Rows)
    BY <1>17, MineType DEF AppendCsv, At, Saving, OutputType
  <2>2. csv[KindOf(r)] \o merged[r] \in Seq(Rows)
    BY <1>17, <2>1, ConcatProperties DEF AppendCsv, At, MergedInv, MergedOk
  <2> QED BY <1>17, <2>1, <2>2 DEF AppendCsv, NextKind, OutputType
<1>18. ASSUME NEW r \in Runs, WriteSamples(r) PROVE OutputType'
  BY <1>18, MineType DEF WriteSamples, At, DiskType, OutputType, ProgressType, RunType,
      Parsing, Saving, After, Filing
<1>19. ASSUME NEW r \in Runs, WriteFails(r) PROVE OutputType'
  BY <1>19, MineType DEF WriteFails, At, DiskType, OutputType, ProgressType, RunType, Parsing,
      Saving, After, Filing
<1>20. ASSUME NEW r \in Runs, Mail(r) PROVE OutputType'
  BY <1>20, MineType DEF Mail, DiskType, OutputType, ProgressType, RunType, Parsing, Saving,
      After, Filing
<1>21. ASSUME NEW r \in Runs, Die(r) PROVE OutputType'
  BY <1>21, MineType DEF Die, At, DiskType, OutputType, ProgressType, RunType, Parsing, Saving,
      After, Filing
<1>22. ASSUME UNCHANGED filesVars PROVE OutputType'
  BY <1>22 DEF filesVars, output, DiskType, OutputType, ProgressType, RunType, Parsing, Saving,
      After, Filing
<1> QED BY <1>1, <1>2, <1>3, <1>4, <1>5, <1>6, <1>7, <1>8, <1>9, <1>10, <1>11, <1>12, <1>13,
    <1>14, <1>15, <1>16, <1>17, <1>18, <1>19, <1>20, <1>21, <1>22 DEF FilesNext

-----------------------------------------------------------------------------
(***************************************************************************)
(* The archive.                                                            *)
(***************************************************************************)
LEMMA FilingAt ==
    ASSUME DiskType, ProgressType, NEW r \in Runs, step[r] \in Filing
    PROVE  /\ from[r] \in DOMAIN Inputs /\ to[r] \in Targets /\ to[r] \notin DOMAIN Inputs
           /\ Inputs[from[r]] \in Given
           /\ from[r] \in DOMAIN disk => disk[from[r]] = Inputs[from[r]]
BY TargetsApart DEF DiskType, ProgressType, Given

\* A claimed name is nobody else's and holds nothing filed.
LEMMA ClaimStep ==
    ASSUME DiskType, ProgressType, ClaimInv, KeptInv, [FilesNext]_filesVars
    PROVE  ClaimInv'
<1>1. ASSUME NEW r \in Runs, Begin(r) PROVE ClaimInv'
  BY <1>1, FilingAt DEF Begin, Go, ExcludeArchived, ExpandArguments, At, archive, moving,
      ClaimInv, KeptInv, Holding, Filing, ProgressType, RunType
<1>2. ASSUME NEW r \in Runs, NameTaken(r) PROVE ClaimInv'
  BY <1>2, FilingAt DEF NameTaken, At, archive, ClaimInv, KeptInv, Holding, Filing,
      ProgressType, RunType
<1>3. ASSUME NEW r \in Runs, ClaimName(r) PROVE ClaimInv'
  BY <1>3, FilingAt DEF ClaimName, Go, Put, At, moving, ClaimInv, KeptInv, Holding, Filing,
      ProgressType, RunType
<1>4. ASSUME NEW r \in Runs, Rename(r) PROVE ClaimInv'
  BY <1>4, FilingAt DEF Rename, Go, Archived, At, moving, ClaimInv, KeptInv, Holding, Filing,
      ProgressType, RunType
<1>5. ASSUME NEW r \in Runs, NEW p, ParseFile(r, p) PROVE ClaimInv'
  BY <1>5, FilingAt DEF ParseFile, Go, At, archive, ClaimInv, KeptInv, Holding, Filing,
      ProgressType, RunType
<1>6. ASSUME NEW r \in Runs, NEW p, LeaveFile(r, p) PROVE ClaimInv'
  BY <1>6, FilingAt DEF LeaveFile, At, archive, moving, ClaimInv, KeptInv, Holding, Filing,
      ProgressType, RunType
<1>7. ASSUME NEW r \in Runs, StartCopy(r) PROVE ClaimInv'
  BY <1>7, FilingAt DEF StartCopy, Go, At, archive, ClaimInv, KeptInv, Holding, Filing,
      ProgressType, RunType
<1>8. ASSUME NEW r \in Runs, FinishCopy(r) PROVE ClaimInv'
  BY <1>8, FilingAt DEF FinishCopy, Go, Put, At, moving, ClaimInv, KeptInv, Holding, Filing,
      ProgressType, RunType
<1>9. ASSUME NEW r \in Runs, Unlink(r) PROVE ClaimInv'
  BY <1>9, FilingAt DEF Unlink, Go, Archived, At, moving, ClaimInv, KeptInv, Holding, Filing,
      ProgressType, RunType
<1>10. ASSUME NEW r \in Runs, MoveFails(r) PROVE ClaimInv'
  BY <1>10, FilingAt DEF MoveFails, Go, moving, ClaimInv, KeptInv, Holding, Filing,
      ProgressType, RunType
<1>11. ASSUME NEW r \in Runs, ParsedAll(r) PROVE ClaimInv'
  BY <1>11, FilingAt DEF ParsedAll, Go, At, archive, moving, ClaimInv, KeptInv, Holding,
      Filing, ProgressType, RunType
<1>12. ASSUME NEW r \in Runs, SkipKind(r) PROVE ClaimInv'
  BY <1>12, FilingAt DEF SkipKind, NextKind, Go, At, archive, moving, ClaimInv, KeptInv,
      Holding, Filing, ProgressType, RunType
<1>13. ASSUME NEW r \in Runs, ReadJson(r) PROVE ClaimInv'
  BY <1>13, FilingAt DEF ReadJson, Merge, Go, At, archive, moving, ClaimInv, KeptInv, Holding,
      Filing, ProgressType, RunType
<1>14. ASSUME NEW r \in Runs, OpenJson(r) PROVE ClaimInv'
  BY <1>14, FilingAt DEF OpenJson, Go, Replace, At, archive, moving, ClaimInv, KeptInv,
      Holding, Filing, ProgressType, RunType
<1>15. ASSUME NEW r \in Runs, DumpJson(r) PROVE ClaimInv'
  BY <1>15, FilingAt DEF DumpJson, Go, Replace, At, archive, moving, ClaimInv, KeptInv,
      Holding, Filing, ProgressType, RunType
<1>16. ASSUME NEW r \in Runs, FindCsv(r) PROVE ClaimInv'
  BY <1>16, FilingAt DEF FindCsv, Go, At, archive, moving, ClaimInv, KeptInv, Holding, Filing,
      ProgressType, RunType
<1>17. ASSUME NEW r \in Runs, AppendCsv(r) PROVE ClaimInv'
  BY <1>17, FilingAt DEF AppendCsv, NextKind, Go, At, archive, moving, ClaimInv, KeptInv,
      Holding, Filing, ProgressType, RunType
<1>18. ASSUME NEW r \in Runs, WriteSamples(r) PROVE ClaimInv'
  BY <1>18, FilingAt DEF WriteSamples, Go, At, archive, moving, ClaimInv, KeptInv, Holding,
      Filing, ProgressType, RunType
<1>19. ASSUME NEW r \in Runs, WriteFails(r) PROVE ClaimInv'
  BY <1>19, FilingAt DEF WriteFails, Go, At, archive, moving, ClaimInv, KeptInv, Holding,
      Filing, ProgressType, RunType
<1>20. ASSUME NEW r \in Runs, Mail(r) PROVE ClaimInv'
  <2>1. UNCHANGED <<disk, filed, to>>
    BY <1>20 DEF Mail, archive, moving
  <2>2. \A q \in Runs : step'[q] \in Holding => step[q] \in Holding
    BY <1>20 DEF Mail, Go, ProgressType, RunType, Holding
  <2> QED BY <2>1, <2>2 DEF ClaimInv
<1>21. ASSUME NEW r \in Runs, Die(r) PROVE ClaimInv'
  BY <1>21, FilingAt DEF Die, Go, At, archive, moving, ClaimInv, KeptInv, Holding, Filing,
      ProgressType, RunType
<1>22. ASSUME UNCHANGED filesVars PROVE ClaimInv'
  BY <1>22 DEF filesVars, archive, moving, ClaimInv, KeptInv, Holding, Filing, ProgressType,
      RunType
<1> QED BY <1>1, <1>2, <1>3, <1>4, <1>5, <1>6, <1>7, <1>8, <1>9, <1>10, <1>11, <1>12, <1>13,
    <1>14, <1>15, <1>16, <1>17, <1>18, <1>19, <1>20, <1>21, <1>22 DEF FilesNext

\* What is copied is what was given, and what is under the claimed name before
\* the original is removed is the copy.
LEMMA CopyStep ==
    ASSUME DiskType, ProgressType, ClaimInv, CopyInv, [FilesNext]_filesVars
    PROVE  CopyInv'
<1>1. ASSUME NEW r \in Runs, Begin(r) PROVE CopyInv'
  BY <1>1, FilingAt DEF Begin, Go, ExcludeArchived, ExpandArguments, At, archive, moving,
      ClaimInv, CopyInv, Holding, Filing, ProgressType, RunType
<1>2. ASSUME NEW r \in Runs, NameTaken(r) PROVE CopyInv'
  BY <1>2, FilingAt DEF NameTaken, At, archive, ClaimInv, CopyInv, Holding, Filing,
      ProgressType, RunType
<1>3. ASSUME NEW r \in Runs, ClaimName(r) PROVE CopyInv'
  BY <1>3, FilingAt DEF ClaimName, Go, Put, At, moving, ClaimInv, CopyInv, Holding, Filing,
      ProgressType, RunType
<1>4. ASSUME NEW r \in Runs, Rename(r) PROVE CopyInv'
  BY <1>4, FilingAt DEF Rename, Go, Archived, At, moving, ClaimInv, CopyInv, Holding, Filing,
      ProgressType, RunType
<1>5. ASSUME NEW r \in Runs, NEW p, ParseFile(r, p) PROVE CopyInv'
  BY <1>5, FilingAt DEF ParseFile, Go, At, archive, ClaimInv, CopyInv, Holding, Filing,
      ProgressType, RunType
<1>6. ASSUME NEW r \in Runs, NEW p, LeaveFile(r, p) PROVE CopyInv'
  BY <1>6, FilingAt DEF LeaveFile, At, archive, moving, ClaimInv, CopyInv, Holding, Filing,
      ProgressType, RunType
<1>7. ASSUME NEW r \in Runs, StartCopy(r) PROVE CopyInv'
  BY <1>7, FilingAt DEF StartCopy, Go, At, archive, ClaimInv, CopyInv, Holding, Filing,
      ProgressType, RunType
<1>8. ASSUME NEW r \in Runs, FinishCopy(r) PROVE CopyInv'
  BY <1>8, FilingAt DEF FinishCopy, Go, Put, At, moving, ClaimInv, CopyInv, Holding, Filing,
      ProgressType, RunType
<1>9. ASSUME NEW r \in Runs, Unlink(r) PROVE CopyInv'
  BY <1>9, FilingAt DEF Unlink, Go, Archived, At, moving, ClaimInv, CopyInv, Holding, Filing,
      ProgressType, RunType
<1>10. ASSUME NEW r \in Runs, MoveFails(r) PROVE CopyInv'
  BY <1>10, FilingAt DEF MoveFails, Go, moving, At, ClaimInv, CopyInv, Holding, Filing,
      ProgressType, RunType
<1>11. ASSUME NEW r \in Runs, ParsedAll(r) PROVE CopyInv'
  BY <1>11, FilingAt DEF ParsedAll, Go, At, archive, moving, ClaimInv, CopyInv, Holding,
      Filing, ProgressType, RunType
<1>12. ASSUME NEW r \in Runs, SkipKind(r) PROVE CopyInv'
  BY <1>12, FilingAt DEF SkipKind, NextKind, Go, At, archive, moving, ClaimInv, CopyInv,
      Holding, Filing, ProgressType, RunType
<1>13. ASSUME NEW r \in Runs, ReadJson(r) PROVE CopyInv'
  BY <1>13, FilingAt DEF ReadJson, Merge, Go, At, archive, moving, ClaimInv, CopyInv, Holding,
      Filing, ProgressType, RunType
<1>14. ASSUME NEW r \in Runs, OpenJson(r) PROVE CopyInv'
  BY <1>14, FilingAt DEF OpenJson, Go, Replace, At, archive, moving, ClaimInv, CopyInv,
      Holding, Filing, ProgressType, RunType
<1>15. ASSUME NEW r \in Runs, DumpJson(r) PROVE CopyInv'
  BY <1>15, FilingAt DEF DumpJson, Go, Replace, At, archive, moving, ClaimInv, CopyInv,
      Holding, Filing, ProgressType, RunType
<1>16. ASSUME NEW r \in Runs, FindCsv(r) PROVE CopyInv'
  BY <1>16, FilingAt DEF FindCsv, Go, At, archive, moving, ClaimInv, CopyInv, Holding, Filing,
      ProgressType, RunType
<1>17. ASSUME NEW r \in Runs, AppendCsv(r) PROVE CopyInv'
  BY <1>17, FilingAt DEF AppendCsv, NextKind, Go, At, archive, moving, ClaimInv, CopyInv,
      Holding, Filing, ProgressType, RunType
<1>18. ASSUME NEW r \in Runs, WriteSamples(r) PROVE CopyInv'
  BY <1>18, FilingAt DEF WriteSamples, Go, At, archive, moving, ClaimInv, CopyInv, Holding,
      Filing, ProgressType, RunType
<1>19. ASSUME NEW r \in Runs, WriteFails(r) PROVE CopyInv'
  BY <1>19, FilingAt DEF WriteFails, Go, At, archive, moving, ClaimInv, CopyInv, Holding,
      Filing, ProgressType, RunType
<1>20. ASSUME NEW r \in Runs, Mail(r) PROVE CopyInv'
  BY <1>20, FilingAt DEF Mail, Go, archive, moving, At, ClaimInv, CopyInv, Holding, Filing,
      ProgressType, RunType
<1>21. ASSUME NEW r \in Runs, Die(r) PROVE CopyInv'
  BY <1>21, FilingAt DEF Die, Go, At, archive, moving, ClaimInv, CopyInv, Holding, Filing,
      ProgressType, RunType
<1>22. ASSUME UNCHANGED filesVars PROVE CopyInv'
  BY <1>22 DEF filesVars, archive, moving, At, ClaimInv, CopyInv, Holding, Filing,
      ProgressType, RunType
<1> QED BY <1>1, <1>2, <1>3, <1>4, <1>5, <1>6, <1>7, <1>8, <1>9, <1>10, <1>11, <1>12, <1>13,
    <1>14, <1>15, <1>16, <1>17, <1>18, <1>19, <1>20, <1>21, <1>22 DEF FilesNext

\* A file given stays until it is filed, and what is filed stays.
LEMMA KeptStep ==
    ASSUME DiskType, ProgressType, ClaimInv, CopyInv, KeptInv, [FilesNext]_filesVars
    PROVE  KeptInv'
<1>1. ASSUME NEW r \in Runs, Begin(r) PROVE KeptInv'
  BY <1>1, FilingAt DEF Begin, ExcludeArchived, ExpandArguments, At, archive, ClaimInv,
      CopyInv, KeptInv, Holding, Filing, ProgressType, RunType
<1>2. ASSUME NEW r \in Runs, NameTaken(r) PROVE KeptInv'
  BY <1>2, FilingAt DEF NameTaken, At, archive, ClaimInv, CopyInv, KeptInv, Holding, Filing,
      ProgressType, RunType
<1>3. ASSUME NEW r \in Runs, ClaimName(r) PROVE KeptInv'
  BY <1>3, FilingAt DEF ClaimName, Put, At, ClaimInv, CopyInv, KeptInv, Holding, Filing,
      ProgressType, RunType
<1>4. ASSUME NEW r \in Runs, Rename(r) PROVE KeptInv'
  <2>1. from[r] \in DOMAIN Inputs /\ to[r] \notin DOMAIN Inputs /\ to[r] \in DOMAIN disk
        /\ disk[from[r]] = Inputs[from[r]]
    BY <1>4, FilingAt DEF Rename, At, Filing, Holding, ClaimInv
  <2>2. filed' = filed \cup {<<to[r], disk[from[r]]>>}
    BY <1>4 DEF Rename, Archived
  <2>3. DOMAIN disk' = DOMAIN disk \ {from[r]} /\ disk'[to[r]] = disk[from[r]]
    BY <1>4, <2>1 DEF Rename
  <2>4. \A q \in DOMAIN disk \ {from[r], to[r]} : disk'[q] = disk[q]
    BY <1>4 DEF Rename
  <2>5. \A f \in filed : f[1] # to[r] /\ f[1] \notin DOMAIN Inputs
    BY <1>4, TargetsApart DEF Rename, At, Holding, ClaimInv, DiskType
  <2>6. ASSUME NEW q \in DOMAIN Inputs
        PROVE  q \in DOMAIN disk' \/ \E f \in filed' : f[2] = Inputs[q]
    <3>1. CASE q = from[r]
      <4> DEFINE f == <<to[r], disk[from[r]]>>
      <4>1. f \in filed' /\ f[2] = Inputs[q]
        BY <3>1, <2>1, <2>2
      <4> QED BY <4>1
    <3>2. CASE q # from[r]
      BY <3>2, <2>2, <2>3 DEF KeptInv
    <3> QED BY <3>1, <3>2
  <2>7. ASSUME NEW f \in filed' PROVE f[1] \in DOMAIN disk' /\ disk'[f[1]] = f[2]
    <3>1. CASE f \in filed
      BY <3>1, <2>1, <2>3, <2>4, <2>5 DEF KeptInv
    <3>2. CASE f = <<to[r], disk[from[r]]>>
      BY <3>2, <2>1, <2>3
    <3> QED BY <2>2, <3>1, <3>2
  <2> QED BY <2>6, <2>7 DEF KeptInv
<1>5. ASSUME NEW r \in Runs, NEW p, ParseFile(r, p) PROVE KeptInv'
  BY <1>5, FilingAt DEF ParseFile, At, archive, ClaimInv, CopyInv, KeptInv, Holding, Filing,
      ProgressType, RunType
<1>6. ASSUME NEW r \in Runs, NEW p, LeaveFile(r, p) PROVE KeptInv'
  BY <1>6, FilingAt DEF LeaveFile, At, archive, ClaimInv, CopyInv, KeptInv, Holding, Filing,
      ProgressType, RunType
<1>7. ASSUME NEW r \in Runs, StartCopy(r) PROVE KeptInv'
  BY <1>7, FilingAt DEF StartCopy, At, archive, ClaimInv, CopyInv, KeptInv, Holding, Filing,
      ProgressType, RunType
<1>8. ASSUME NEW r \in Runs, FinishCopy(r) PROVE KeptInv'
  BY <1>8, FilingAt DEF FinishCopy, Put, At, ClaimInv, CopyInv, KeptInv, Holding, Filing,
      ProgressType, RunType
<1>9. ASSUME NEW r \in Runs, Unlink(r) PROVE KeptInv'
  <2>1. from[r] \in DOMAIN Inputs /\ to[r] \notin DOMAIN Inputs /\ to[r] \in DOMAIN disk
        /\ content[r] = Inputs[from[r]] /\ disk[to[r]] = content[r]
    BY <1>9, FilingAt DEF Unlink, At, Filing, Holding, ClaimInv, CopyInv
  <2>2. filed' = filed \cup {<<to[r], content[r]>>}
    BY <1>9 DEF Unlink, Archived
  <2>3. DOMAIN disk' = DOMAIN disk \ {from[r]} /\ disk'[to[r]] = content[r]
    BY <1>9, <2>1 DEF Unlink
  <2>4. \A q \in DOMAIN disk \ {from[r], to[r]} : disk'[q] = disk[q]
    BY <1>9 DEF Unlink
  <2>5. \A f \in filed : f[1] # to[r] /\ f[1] \notin DOMAIN Inputs
    BY <1>9, TargetsApart DEF Unlink, At, Holding, ClaimInv, DiskType
  <2>6. ASSUME NEW q \in DOMAIN Inputs
        PROVE  q \in DOMAIN disk' \/ \E f \in filed' : f[2] = Inputs[q]
    <3>1. CASE q = from[r]
      <4> DEFINE f == <<to[r], content[r]>>
      <4>1. f \in filed' /\ f[2] = Inputs[q]
        BY <3>1, <2>1, <2>2
      <4> QED BY <4>1
    <3>2. CASE q # from[r]
      BY <3>2, <2>2, <2>3 DEF KeptInv
    <3> QED BY <3>1, <3>2
  <2>7. ASSUME NEW f \in filed' PROVE f[1] \in DOMAIN disk' /\ disk'[f[1]] = f[2]
    <3>1. CASE f \in filed
      BY <3>1, <2>1, <2>3, <2>4, <2>5 DEF KeptInv
    <3>2. CASE f = <<to[r], content[r]>>
      BY <3>2, <2>1, <2>3
    <3> QED BY <2>2, <3>1, <3>2
  <2> QED BY <2>6, <2>7 DEF KeptInv
<1>10. ASSUME NEW r \in Runs, MoveFails(r) PROVE KeptInv'
  BY <1>10, FilingAt DEF MoveFails, ClaimInv, CopyInv, KeptInv, Holding, Filing, ProgressType,
      RunType
<1>11. ASSUME NEW r \in Runs, ParsedAll(r) PROVE KeptInv'
  BY <1>11, FilingAt DEF ParsedAll, At, archive, ClaimInv, CopyInv, KeptInv, Holding, Filing,
      ProgressType, RunType
<1>12. ASSUME NEW r \in Runs, SkipKind(r) PROVE KeptInv'
  BY <1>12, FilingAt DEF SkipKind, NextKind, At, archive, ClaimInv, CopyInv, KeptInv, Holding,
      Filing, ProgressType, RunType
<1>13. ASSUME NEW r \in Runs, ReadJson(r) PROVE KeptInv'
  BY <1>13, FilingAt DEF ReadJson, Merge, At, archive, ClaimInv, CopyInv, KeptInv, Holding,
      Filing, ProgressType, RunType
<1>14. ASSUME NEW r \in Runs, OpenJson(r) PROVE KeptInv'
  BY <1>14, FilingAt DEF OpenJson, Replace, At, archive, ClaimInv, CopyInv, KeptInv, Holding,
      Filing, ProgressType, RunType
<1>15. ASSUME NEW r \in Runs, DumpJson(r) PROVE KeptInv'
  BY <1>15, FilingAt DEF DumpJson, Replace, At, archive, ClaimInv, CopyInv, KeptInv, Holding,
      Filing, ProgressType, RunType
<1>16. ASSUME NEW r \in Runs, FindCsv(r) PROVE KeptInv'
  BY <1>16, FilingAt DEF FindCsv, At, archive, ClaimInv, CopyInv, KeptInv, Holding, Filing,
      ProgressType, RunType
<1>17. ASSUME NEW r \in Runs, AppendCsv(r) PROVE KeptInv'
  BY <1>17, FilingAt DEF AppendCsv, NextKind, At, archive, ClaimInv, CopyInv, KeptInv, Holding,
      Filing, ProgressType, RunType
<1>18. ASSUME NEW r \in Runs, WriteSamples(r) PROVE KeptInv'
  BY <1>18, FilingAt DEF WriteSamples, At, archive, ClaimInv, CopyInv, KeptInv, Holding,
      Filing, ProgressType, RunType
<1>19. ASSUME NEW r \in Runs, WriteFails(r) PROVE KeptInv'
  BY <1>19, FilingAt DEF WriteFails, At, archive, ClaimInv, CopyInv, KeptInv, Holding, Filing,
      ProgressType, RunType
<1>20. ASSUME NEW r \in Runs, Mail(r) PROVE KeptInv'
  BY <1>20, FilingAt DEF Mail, archive, ClaimInv, CopyInv, KeptInv, Holding, Filing,
      ProgressType, RunType
<1>21. ASSUME NEW r \in Runs, Die(r) PROVE KeptInv'
  BY <1>21, FilingAt DEF Die, At, archive, ClaimInv, CopyInv, KeptInv, Holding, Filing,
      ProgressType, RunType
<1>22. ASSUME UNCHANGED filesVars PROVE KeptInv'
  BY <1>22 DEF filesVars, archive, ClaimInv, CopyInv, KeptInv, Holding, Filing, ProgressType,
      RunType
<1> QED BY <1>1, <1>2, <1>3, <1>4, <1>5, <1>6, <1>7, <1>8, <1>9, <1>10, <1>11, <1>12, <1>13,
    <1>14, <1>15, <1>16, <1>17, <1>18, <1>19, <1>20, <1>21, <1>22 DEF FilesNext

\* A run that has mailed has mailed what it has parsed.
LEMMA MailedStep ==
    ASSUME ProgressType, MailedInv, [FilesNext]_filesVars
    PROVE  MailedInv'
<1>1. ASSUME NEW r \in Runs, Begin(r) PROVE MailedInv'
  BY <1>1 DEF Begin, Go, ExcludeArchived, ExpandArguments, At, output, MailedInv, ProgressType,
      RunType, After
<1>2. ASSUME NEW r \in Runs, NameTaken(r) PROVE MailedInv'
  BY <1>2 DEF NameTaken, At, output, reading, MailedInv, ProgressType, RunType, After
<1>3. ASSUME NEW r \in Runs, ClaimName(r) PROVE MailedInv'
  BY <1>3 DEF ClaimName, Go, Put, At, output, reading, MailedInv, ProgressType, RunType, After
<1>4. ASSUME NEW r \in Runs, Rename(r) PROVE MailedInv'
  BY <1>4 DEF Rename, Go, Archived, At, output, reading, MailedInv, ProgressType, RunType, After
<1>5. ASSUME NEW r \in Runs, NEW p, ParseFile(r, p) PROVE MailedInv'
  BY <1>5 DEF ParseFile, AddResult, Go, At, output, MailedInv, ProgressType, RunType, After
<1>6. ASSUME NEW r \in Runs, NEW p, LeaveFile(r, p) PROVE MailedInv'
  BY <1>6 DEF LeaveFile, At, output, MailedInv, ProgressType, RunType, After
<1>7. ASSUME NEW r \in Runs, StartCopy(r) PROVE MailedInv'
  BY <1>7 DEF StartCopy, Go, At, output, reading, MailedInv, ProgressType, RunType, After
<1>8. ASSUME NEW r \in Runs, FinishCopy(r) PROVE MailedInv'
  BY <1>8 DEF FinishCopy, Go, Put, At, output, reading, MailedInv, ProgressType, RunType, After
<1>9. ASSUME NEW r \in Runs, Unlink(r) PROVE MailedInv'
  BY <1>9 DEF Unlink, Go, Archived, At, output, reading, MailedInv, ProgressType, RunType, After
<1>10. ASSUME NEW r \in Runs, MoveFails(r) PROVE MailedInv'
  BY <1>10 DEF MoveFails, Go, output, reading, At, MailedInv, ProgressType, RunType, After
<1>11. ASSUME NEW r \in Runs, ParsedAll(r) PROVE MailedInv'
  BY <1>11 DEF ParsedAll, Go, At, output, reading, MailedInv, ProgressType, RunType, After
<1>12. ASSUME NEW r \in Runs, SkipKind(r) PROVE MailedInv'
  BY <1>12 DEF SkipKind, NextKind, Go, At, reading, MailedInv, ProgressType, RunType, After
<1>13. ASSUME NEW r \in Runs, ReadJson(r) PROVE MailedInv'
  BY <1>13 DEF ReadJson, Merge, Go, At, reading, MailedInv, ProgressType, RunType, After
<1>14. ASSUME NEW r \in Runs, OpenJson(r) PROVE MailedInv'
  BY <1>14 DEF OpenJson, Go, Replace, At, reading, MailedInv, ProgressType, RunType, After
<1>15. ASSUME NEW r \in Runs, DumpJson(r) PROVE MailedInv'
  BY <1>15 DEF DumpJson, Go, Replace, At, reading, MailedInv, ProgressType, RunType, After
<1>16. ASSUME NEW r \in Runs, FindCsv(r) PROVE MailedInv'
  BY <1>16 DEF FindCsv, Go, At, output, reading, MailedInv, ProgressType, RunType, After
<1>17. ASSUME NEW r \in Runs, AppendCsv(r) PROVE MailedInv'
  BY <1>17 DEF AppendCsv, NextKind, Go, At, reading, MailedInv, ProgressType, RunType, After
<1>18. ASSUME NEW r \in Runs, WriteSamples(r) PROVE MailedInv'
  BY <1>18 DEF WriteSamples, Go, At, reading, MailedInv, ProgressType, RunType, After
<1>19. ASSUME NEW r \in Runs, WriteFails(r) PROVE MailedInv'
  BY <1>19 DEF WriteFails, Go, At, reading, MailedInv, ProgressType, RunType, After
<1>20. ASSUME NEW r \in Runs, Mail(r) PROVE MailedInv'
  BY <1>20 DEF Mail, Go, Send, reading, At, MailedInv, ProgressType, RunType, After
<1>21. ASSUME NEW r \in Runs, Die(r) PROVE MailedInv'
  BY <1>21 DEF Die, Go, At, reading, MailedInv, ProgressType, RunType, After
<1>22. ASSUME UNCHANGED filesVars PROVE MailedInv'
  BY <1>22 DEF filesVars, output, reading, At, MailedInv, ProgressType, RunType, After
<1> QED BY <1>1, <1>2, <1>3, <1>4, <1>5, <1>6, <1>7, <1>8, <1>9, <1>10, <1>11, <1>12, <1>13,
    <1>14, <1>15, <1>16, <1>17, <1>18, <1>19, <1>20, <1>21, <1>22 DEF FilesNext

\* Parsing a file only adds to the reports of its run, and leaves this report
\* or its like among them.
LEMMA ResultsGrow ==
    ASSUME DiskType, ProgressType, NEW r \in Runs, NEW p, ParseFile(r, p)
    PROVE  /\ \A q \in Runs, k \in KindNames : Range(parsed[q][k]) \subseteq Range(parsed'[q][k])
           /\ \A q \in Runs \ {r} : parsed'[q] = parsed[q]
           /\ IsReport(disk[p]) =>
                 \E x \in Range(parsed'[r][disk[p].kind]) : SameReport(x, disk[p])
<1>1. p \in DOMAIN Inputs /\ disk[p] = Inputs[p] /\ disk[p] \in Given
  BY ReadFromDisk DEF ParseFile
<1>2. CASE IsReport(disk[p]) /\ parsed' = [parsed EXCEPT ![r][disk[p].kind] = Append(@, disk[p])]
  <2>1. disk[p].kind \in KindNames
    BY <1>2, KindList DEF IsReport
  <2> DEFINE s == parsed[r][disk[p].kind]
             t == Append(s, disk[p])
  <2>2. s \in Seq(Given) /\ parsed'[r][disk[p].kind] = t
    BY <1>2, <2>1 DEF ProgressType, RunType
  <2>3. Range(s) \subseteq Range(t) /\ disk[p] \in Range(t)
    <3>1. /\ Len(s) \in Nat /\ DOMAIN s = 1 .. Len(s) /\ DOMAIN t = 1 .. Len(s) + 1
          /\ t[Len(s) + 1] = disk[p] /\ \A i \in 1 .. Len(s) : t[i] = s[i]
      BY <2>2, <1>1, AppendProperties, LenProperties
    <3> HIDE DEF s, t
    <3> QED BY <3>1 DEF Range
  <2>4. \A q \in Runs, k \in KindNames :
           (q # r \/ k # disk[p].kind) => parsed'[q][k] = parsed[q][k]
    BY <1>2, <2>1 DEF ProgressType, RunType
  <2>5. \A q \in Runs \ {r} : parsed'[q] = parsed[q]
    BY <1>2 DEF ProgressType, RunType
  <2> HIDE DEF t
  <2> QED BY <2>1, <2>2, <2>3, <2>4, <2>5 DEF SameReport
<1>3. CASE parsed' = parsed /\ (IsReport(disk[p]) => Known(r, disk[p]))
  <2>1. SUFFICES ASSUME IsReport(disk[p])
                 PROVE  \E x \in Range(parsed[r][disk[p].kind]) : SameReport(x, disk[p])
    BY <1>3
  <2>2. disk[p].kind = "aggregate" /\ disk[p].kind \in KindNames
    BY <2>1, <1>3 DEF Known, KindNames
  <2>3. PICK x \in Range(parsed[r][disk[p].kind]) : x.id = disk[p].id
    BY <2>1, <1>3 DEF Known
  <2>4. x.kind = "aggregate"
    BY <2>2, <2>3 DEF ProgressType, ByKind
  <2> QED BY <2>2, <2>3, <2>4 DEF SameReport
<1> QED BY <1>2, <1>3 DEF ParseFile, AddResult

\* No run loses a report it has parsed.
Grown == \A q \in Runs, k \in KindNames : Range(parsed[q][k]) \subseteq Range(parsed'[q][k])

\* No step takes a report from those a run has parsed.
LEMMA ParsedGrows ==
    ASSUME DiskType, ProgressType, [FilesNext]_filesVars
    PROVE  Grown
<1>1. parsed' = parsed \/ \E r \in Runs, p \in DOMAIN Inputs \cup DOMAIN disk : ParseFile(r, p)
  BY DEF FilesNext, filesVars, reading, Begin, NameTaken, ClaimName, Rename, LeaveFile,
      StartCopy,
         FinishCopy, Unlink, MoveFails, ParsedAll, SkipKind, NextKind, ReadJson, Merge, OpenJson,
         DumpJson, Replace, FindCsv, AppendCsv, WriteSamples, WriteFails, Mail, Die, Archived
<1> QED BY <1>1, ResultsGrow DEF Grown

\* A run that has a report, or its like, keeps it.
LEMMA HasStays ==
    ASSUME Grown, NEW q \in Runs, NEW y \in Given, IsReport(y)
    PROVE  (\E x \in Range(parsed[q][y.kind]) : SameReport(x, y))
              => \E x \in Range(parsed'[q][y.kind]) : SameReport(x, y)
<1>1. y.kind \in KindNames
  BY KindList DEF IsReport
<1> QED BY <1>1 DEF Grown

\* How a run can be filing after a step.
FilingAfter(r) ==
    \/ step[r] \in Filing /\ from'[r] = from[r]
    \/ \E p : ParseFile(r, p)

\* A run that files is filing the file it has just parsed.
LEMMA FilingFrom ==
    ASSUME ProgressType, [FilesNext]_filesVars
    PROVE  \A q \in Runs : step'[q] \in Filing => FilingAfter(q)
<1>1. ASSUME NEW r \in Runs, Begin(r)
      PROVE  \A q \in Runs : step'[q] \in Filing => FilingAfter(q)
  BY <1>1 DEF Begin, Go, ExcludeArchived, ExpandArguments, At, archive, output, moving,
      writing, reading, Filing, FilingAfter, ProgressType, RunType, Parsing
<1>2. ASSUME NEW r \in Runs, NameTaken(r)
      PROVE  \A q \in Runs : step'[q] \in Filing => FilingAfter(q)
  BY <1>2 DEF NameTaken, At, archive, output, moving, writing, reading, Filing, FilingAfter,
      ProgressType, RunType, Parsing
<1>3. ASSUME NEW r \in Runs, ClaimName(r)
      PROVE  \A q \in Runs : step'[q] \in Filing => FilingAfter(q)
  BY <1>3 DEF ClaimName, Go, Put, At, archive, output, moving, writing, reading, Filing,
      FilingAfter, ProgressType, RunType, Parsing
<1>4. ASSUME NEW r \in Runs, Rename(r)
      PROVE  \A q \in Runs : step'[q] \in Filing => FilingAfter(q)
  BY <1>4 DEF Rename, Go, Archived, At, archive, output, moving, writing, reading, Filing,
      FilingAfter, ProgressType, RunType, Parsing
<1>5. ASSUME NEW r \in Runs, NEW p, ParseFile(r, p)
      PROVE  \A q \in Runs : step'[q] \in Filing => FilingAfter(q)
  <2>1. FilingAfter(r)
    BY <1>5 DEF FilingAfter
  <2>2. \A q \in Runs \ {r} : step'[q] = step[q] /\ from'[q] = from[q]
    BY <1>5 DEF ParseFile, Go, ProgressType, RunType
  <2> QED BY <2>1, <2>2 DEF FilingAfter
<1>6. ASSUME NEW r \in Runs, NEW p, LeaveFile(r, p)
      PROVE  \A q \in Runs : step'[q] \in Filing => FilingAfter(q)
  BY <1>6 DEF LeaveFile, At, archive, output, moving, writing, reading, Filing, FilingAfter,
      ProgressType, RunType, Parsing
<1>7. ASSUME NEW r \in Runs, StartCopy(r)
      PROVE  \A q \in Runs : step'[q] \in Filing => FilingAfter(q)
  BY <1>7 DEF StartCopy, Go, At, archive, output, moving, writing, reading, Filing,
      FilingAfter, ProgressType, RunType, Parsing
<1>8. ASSUME NEW r \in Runs, FinishCopy(r)
      PROVE  \A q \in Runs : step'[q] \in Filing => FilingAfter(q)
  BY <1>8 DEF FinishCopy, Go, Put, At, archive, output, moving, writing, reading, Filing,
      FilingAfter, ProgressType, RunType, Parsing
<1>9. ASSUME NEW r \in Runs, Unlink(r)
      PROVE  \A q \in Runs : step'[q] \in Filing => FilingAfter(q)
  BY <1>9 DEF Unlink, Go, Archived, At, archive, output, moving, writing, reading, Filing,
      FilingAfter, ProgressType, RunType, Parsing
<1>10. ASSUME NEW r \in Runs, MoveFails(r)
      PROVE  \A q \in Runs : step'[q] \in Filing => FilingAfter(q)
  BY <1>10 DEF MoveFails, Go, At, archive, output, moving, writing, reading, Filing,
      FilingAfter, ProgressType, RunType, Parsing
<1>11. ASSUME NEW r \in Runs, ParsedAll(r)
      PROVE  \A q \in Runs : step'[q] \in Filing => FilingAfter(q)
  BY <1>11 DEF ParsedAll, Go, At, archive, output, moving, writing, reading, Filing,
      FilingAfter, ProgressType, RunType, Parsing
<1>12. ASSUME NEW r \in Runs, SkipKind(r)
      PROVE  \A q \in Runs : step'[q] \in Filing => FilingAfter(q)
  BY <1>12 DEF SkipKind, NextKind, Mine, Go, At, archive, output, moving, writing, reading,
      Filing, FilingAfter, ProgressType, RunType, Parsing
<1>13. ASSUME NEW r \in Runs, ReadJson(r)
      PROVE  \A q \in Runs : step'[q] \in Filing => FilingAfter(q)
  BY <1>13 DEF ReadJson, Merge, Mine, Go, At, archive, output, moving, writing, reading,
      Filing, FilingAfter, ProgressType, RunType, Parsing
<1>14. ASSUME NEW r \in Runs, OpenJson(r)
      PROVE  \A q \in Runs : step'[q] \in Filing => FilingAfter(q)
  BY <1>14 DEF OpenJson, Go, Replace, At, archive, output, moving, writing, reading, Filing,
      FilingAfter, ProgressType, RunType, Parsing
<1>15. ASSUME NEW r \in Runs, DumpJson(r)
      PROVE  \A q \in Runs : step'[q] \in Filing => FilingAfter(q)
  BY <1>15 DEF DumpJson, Go, Replace, At, archive, output, moving, writing, reading, Filing,
      FilingAfter, ProgressType, RunType, Parsing
<1>16. ASSUME NEW r \in Runs, FindCsv(r)
      PROVE  \A q \in Runs : step'[q] \in Filing => FilingAfter(q)
  BY <1>16 DEF FindCsv, Go, Mine, At, archive, output, moving, writing, reading, Filing,
      FilingAfter, ProgressType, RunType, Parsing
<1>17. ASSUME NEW r \in Runs, AppendCsv(r)
      PROVE  \A q \in Runs : step'[q] \in Filing => FilingAfter(q)
  BY <1>17 DEF AppendCsv, NextKind, Go, At, archive, output, moving, writing, reading, Filing,
      FilingAfter, ProgressType, RunType, Parsing
<1>18. ASSUME NEW r \in Runs, WriteSamples(r)
      PROVE  \A q \in Runs : step'[q] \in Filing => FilingAfter(q)
  BY <1>18 DEF WriteSamples, Go, At, archive, output, moving, writing, reading, Filing,
      FilingAfter, ProgressType, RunType, Parsing
<1>19. ASSUME NEW r \in Runs, WriteFails(r)
      PROVE  \A q \in Runs : step'[q] \in Filing => FilingAfter(q)
  BY <1>19 DEF WriteFails, Go, At, archive, output, moving, writing, reading, Filing,
      FilingAfter, ProgressType, RunType, Parsing
<1>20. ASSUME NEW r \in Runs, Mail(r)
      PROVE  \A q \in Runs : step'[q] \in Filing => FilingAfter(q)
  BY <1>20 DEF Mail, Go, Send, At, archive, output, moving, writing, reading, Filing,
      FilingAfter, ProgressType, RunType, Parsing
<1>21. ASSUME NEW r \in Runs, Die(r) PROVE \A q \in Runs : step'[q] \in Filing => FilingAfter(q)
  BY <1>21 DEF Die, Go, At, archive, output, moving, writing, reading, Filing, FilingAfter,
      ProgressType, RunType, Parsing
<1>22. ASSUME UNCHANGED filesVars PROVE \A q \in Runs : step'[q] \in Filing => FilingAfter(q)
  BY <1>22 DEF filesVars, archive, output, moving, writing, reading, At, Filing, FilingAfter,
      ProgressType, RunType, Parsing
<1> QED BY <1>1, <1>2, <1>3, <1>4, <1>5, <1>6, <1>7, <1>8, <1>9, <1>10, <1>11, <1>12, <1>13,
    <1>14, <1>15, <1>16, <1>17, <1>18, <1>19, <1>20, <1>21, <1>22 DEF FilesNext

\* What is filed as a report has been collected by some run.
LEMMA CollectedStep ==
    ASSUME DiskType, ProgressType, CopyInv, CollectedInv, [FilesNext]_filesVars
    PROVE  CollectedInv'
<1>0. Grown
  BY ParsedGrows
<1>1. ASSUME NEW r \in Runs, step'[r] \in Filing, IsReport(Inputs[from'[r]])
      PROVE  \E x \in Range(parsed'[r][Inputs[from'[r]].kind]) : SameReport(x, Inputs[from'[r]])
  <2>1. CASE step[r] \in Filing /\ from'[r] = from[r]
    <3> DEFINE y == Inputs[from[r]]
    <3>1. y \in Given /\ IsReport(y) /\ from'[r] = from[r]
      BY <1>1, <2>1, FilingAt
    <3>2. \E x \in Range(parsed[r][y.kind]) : SameReport(x, y)
      BY <3>1, <2>1 DEF CollectedInv, Has
    <3> QED BY <3>1, <3>2, <1>0, HasStays
  <2>2. CASE \E p : ParseFile(r, p)
    <3>1. PICK p : ParseFile(r, p)
      BY <2>2
    <3>2. from'[r] = p /\ disk[p] = Inputs[p]
      BY <3>1, ReadFromDisk DEF ParseFile, ProgressType, RunType
    <3> QED BY <1>1, <3>1, <3>2, ResultsGrow
  <2> QED BY <1>1, <2>1, <2>2, FilingFrom DEF FilingAfter
<1>2. ASSUME NEW f \in filed', IsReport(f[2])
      PROVE  \E r \in Runs : \E x \in Range(parsed'[r][f[2].kind]) : SameReport(x, f[2])
  <2>1. CASE f \in filed
    <3>1. f[2] \in Given
      BY <2>1 DEF DiskType
    <3>2. PICK r \in Runs : \E x \in Range(parsed[r][f[2].kind]) : SameReport(x, f[2])
      BY <1>2, <2>1 DEF CollectedInv, Has
    <3> QED BY <1>2, <3>1, <3>2, <1>0, HasStays
  <2>2. CASE f \notin filed
    <3>1. PICK r \in Runs : Rename(r) \/ Unlink(r)
      BY <1>2, <2>2 DEF FilesNext, filesVars, archive,
         ParseFile, Begin, NameTaken, ClaimName, LeaveFile, StartCopy,
         FinishCopy, MoveFails, ParsedAll, SkipKind, NextKind, ReadJson, Merge, OpenJson,
         DumpJson, Replace, FindCsv, AppendCsv, WriteSamples, WriteFails, Mail, Die
    <3>2. f[2] = Inputs[from[r]] /\ step[r] \in Filing
      BY <1>2, <2>2, <3>1, FilingAt DEF Rename, Unlink, Archived, At, Filing, CopyInv
    <3>3. f[2] \in Given
      BY <3>2, FilingAt
    <3>4. \E x \in Range(parsed[r][f[2].kind]) : SameReport(x, f[2])
      BY <1>2, <3>2 DEF CollectedInv, Has
    <3> QED BY <1>2, <3>3, <3>4, <1>0, HasStays
  <2> QED BY <2>1, <2>2
<1>3. \A r \in Runs : step'[r] \in Filing =>
          LET y == Inputs[from'[r]] IN IsReport(y) =>
             \E x \in Range(parsed'[r][y.kind]) : SameReport(x, y)
  BY <1>1
<1> QED BY <1>2, <1>3 DEF CollectedInv, Has

-----------------------------------------------------------------------------
(***************************************************************************)
(* The output.  A step either leaves what is being saved alone (Still) or  *)
(* is a step of one run that saves (Saves), and then touches nothing that  *)
(* another run knows of itself (Alone).                                    *)
(***************************************************************************)
LEMMA KindsApart ==
    \A i, j \in 1 .. 3 : Kinds[i] \in KindNames /\ (Kinds[i] = Kinds[j] => i = j)
<1>1. \A i \in 1 .. 3 : i = 1 \/ i = 2 \/ i = 3
  OBVIOUS
<1> QED BY <1>1, KindList

\* The steps of save_output.
Saved == Saving \cup {"samples"}

\* Nothing that is saved changes, nor any run that saves or has saved.
Still ==
    /\ UNCHANGED <<json, csv, samples, savedBy, torn, kindNo, merged>>
    /\ \A q \in Runs :
          \/ step'[q] = step[q] /\ parsed'[q] = parsed[q]
          \/ /\ step[q] \notin Saved /\ step'[q] \notin Saved \ {"json"}
             /\ step'[q] = "json" => kindNo[q] = 1
             /\ parsed'[q] = parsed[q] \/ q \notin savedBy

\* A step of save_output.
Saves(r) ==
    \/ SkipKind(r) \/ ReadJson(r) \/ OpenJson(r) \/ DumpJson(r) \/ FindCsv(r)
    \/ AppendCsv(r) \/ WriteSamples(r) \/ WriteFails(r) \/ Die(r)

\* It is that of one run only.
Alone(r) ==
    /\ parsed' = parsed
    /\ \A q \in Runs \ {r} : step'[q] = step[q] /\ kindNo'[q] = kindNo[q] /\ merged'[q] = merged[q]
    /\ torn \subseteq torn'
    /\ r \notin savedBy

\* Every step is Still, or one of a saving run that is Alone.
LEMMA StillOrSaves ==
    ASSUME DiskType, ProgressType, [FilesNext]_filesVars
    PROVE  Still \/ \E q \in Runs : Saves(q) /\ Alone(q)
<1>1. ASSUME NEW r \in Runs, Begin(r) PROVE Still \/ \E q \in Runs : Saves(q) /\ Alone(q)
  BY <1>1 DEF Begin, Go, ExcludeArchived, ExpandArguments, At, output, writing, Still, Saved,
      Saving, Parsing, ProgressType, RunType
<1>2. ASSUME NEW r \in Runs, NameTaken(r) PROVE Still \/ \E q \in Runs : Saves(q) /\ Alone(q)
  BY <1>2 DEF NameTaken, At, output, reading, writing, Still, Saved, Saving, Parsing,
      ProgressType, RunType
<1>3. ASSUME NEW r \in Runs, ClaimName(r) PROVE Still \/ \E q \in Runs : Saves(q) /\ Alone(q)
  BY <1>3 DEF ClaimName, Go, Put, At, output, reading, writing, Still, Saved, Saving, Parsing,
      ProgressType, RunType
<1>4. ASSUME NEW r \in Runs, Rename(r) PROVE Still \/ \E q \in Runs : Saves(q) /\ Alone(q)
  BY <1>4 DEF Rename, Go, Archived, At, output, reading, writing, Still, Saved, Saving,
      Parsing, ProgressType, RunType
<1>5. ASSUME NEW r \in Runs, NEW p, ParseFile(r, p)
      PROVE  Still \/ \E q \in Runs : Saves(q) /\ Alone(q)
  <2>1. \A q \in Runs \ {r} : step'[q] = step[q] /\ parsed'[q] = parsed[q]
    BY <1>5, ResultsGrow DEF ParseFile, Go, ProgressType, RunType
  <2>2. r \notin savedBy /\ step[r] \notin Saved /\ step'[r] \notin Saved /\ step'[r] # "json"
    BY <1>5 DEF ParseFile, At, Go, ProgressType, RunType, Saved, Saving
  <2> QED BY <1>5, <2>1, <2>2 DEF ParseFile, Still, output, writing
<1>6. ASSUME NEW r \in Runs, NEW p, LeaveFile(r, p)
      PROVE  Still \/ \E q \in Runs : Saves(q) /\ Alone(q)
  BY <1>6 DEF LeaveFile, At, output, writing, Still, Saved, Saving, Parsing, ProgressType,
      RunType
<1>7. ASSUME NEW r \in Runs, StartCopy(r) PROVE Still \/ \E q \in Runs : Saves(q) /\ Alone(q)
  BY <1>7 DEF StartCopy, Go, At, output, reading, writing, Still, Saved, Saving, Parsing,
      ProgressType, RunType
<1>8. ASSUME NEW r \in Runs, FinishCopy(r) PROVE Still \/ \E q \in Runs : Saves(q) /\ Alone(q)
  BY <1>8 DEF FinishCopy, Go, Put, At, output, reading, writing, Still, Saved, Saving, Parsing,
      ProgressType, RunType
<1>9. ASSUME NEW r \in Runs, Unlink(r) PROVE Still \/ \E q \in Runs : Saves(q) /\ Alone(q)
  BY <1>9 DEF Unlink, Go, Archived, At, output, reading, writing, Still, Saved, Saving,
      Parsing, ProgressType, RunType
<1>10. ASSUME NEW r \in Runs, MoveFails(r) PROVE Still \/ \E q \in Runs : Saves(q) /\ Alone(q)
  BY <1>10 DEF MoveFails, Go, output, reading, writing, Still, Saved, Saving, Parsing,
      ProgressType, RunType
<1>11. ASSUME NEW r \in Runs, ParsedAll(r) PROVE Still \/ \E q \in Runs : Saves(q) /\ Alone(q)
  BY <1>11 DEF ParsedAll, Go, At, output, reading, writing, Still, Saved, Saving, Parsing,
      ProgressType, RunType
<1>12. ASSUME NEW r \in Runs, SkipKind(r) PROVE Still \/ \E q \in Runs : Saves(q) /\ Alone(q)
  <2>1. Saves(r)
    BY <1>12 DEF Saves
  <2>2. r \notin savedBy
    BY <1>12 DEF SkipKind, At, ProgressType
  <2>3. Alone(r)
    BY <1>12, <2>2 DEF SkipKind, NextKind, Mine, Go, reading, moving, writing, output, archive,
        Alone, ProgressType, RunType
  <2> QED BY <2>1, <2>3
<1>13. ASSUME NEW r \in Runs, ReadJson(r) PROVE Still \/ \E q \in Runs : Saves(q) /\ Alone(q)
  <2>1. Saves(r)
    BY <1>13 DEF Saves
  <2>2. r \notin savedBy
    BY <1>13 DEF ReadJson, At, ProgressType
  <2>3. Alone(r)
    BY <1>13, <2>2 DEF ReadJson, Merge, Mine, Go, NextKind, reading, moving, writing, output,
        archive, Alone, ProgressType, RunType
  <2> QED BY <2>1, <2>3
<1>14. ASSUME NEW r \in Runs, OpenJson(r) PROVE Still \/ \E q \in Runs : Saves(q) /\ Alone(q)
  <2>1. Saves(r)
    BY <1>14 DEF Saves
  <2>2. r \notin savedBy
    BY <1>14 DEF OpenJson, At, ProgressType
  <2>3. Alone(r)
    BY <1>14, <2>2 DEF OpenJson, Go, Replace, NextKind, reading, moving, writing, output,
        archive, Alone, ProgressType, RunType
  <2> QED BY <2>1, <2>3
<1>15. ASSUME NEW r \in Runs, DumpJson(r) PROVE Still \/ \E q \in Runs : Saves(q) /\ Alone(q)
  <2>1. Saves(r)
    BY <1>15 DEF Saves
  <2>2. r \notin savedBy
    BY <1>15 DEF DumpJson, At, ProgressType
  <2>3. Alone(r)
    BY <1>15, <2>2 DEF DumpJson, Go, Replace, NextKind, reading, moving, writing, output,
        archive, Alone, ProgressType, RunType
  <2> QED BY <2>1, <2>3
<1>16. ASSUME NEW r \in Runs, FindCsv(r) PROVE Still \/ \E q \in Runs : Saves(q) /\ Alone(q)
  <2>1. Saves(r)
    BY <1>16 DEF Saves
  <2>2. r \notin savedBy
    BY <1>16 DEF FindCsv, At, ProgressType
  <2>3. Alone(r)
    BY <1>16, <2>2 DEF FindCsv, Go, Mine, NextKind, reading, moving, writing, output, archive,
        Alone, ProgressType, RunType
  <2> QED BY <2>1, <2>3
<1>17. ASSUME NEW r \in Runs, AppendCsv(r) PROVE Still \/ \E q \in Runs : Saves(q) /\ Alone(q)
  <2>1. Saves(r)
    BY <1>17 DEF Saves
  <2>2. r \notin savedBy
    BY <1>17 DEF AppendCsv, At, ProgressType
  <2>3. Alone(r)
    BY <1>17, <2>2 DEF AppendCsv, NextKind, Go, reading, moving, writing, output, archive,
        Alone, ProgressType, RunType
  <2> QED BY <2>1, <2>3
<1>18. ASSUME NEW r \in Runs, WriteSamples(r)
      PROVE  Still \/ \E q \in Runs : Saves(q) /\ Alone(q)
  <2>1. Saves(r)
    BY <1>18 DEF Saves
  <2>2. r \notin savedBy
    BY <1>18 DEF WriteSamples, At, ProgressType
  <2>3. Alone(r)
    BY <1>18, <2>2 DEF WriteSamples, Go, NextKind, reading, moving, writing, output, archive,
        Alone, ProgressType, RunType
  <2> QED BY <2>1, <2>3
<1>19. ASSUME NEW r \in Runs, WriteFails(r) PROVE Still \/ \E q \in Runs : Saves(q) /\ Alone(q)
  <2>1. Saves(r)
    BY <1>19 DEF Saves
  <2>2. r \notin savedBy
    BY <1>19 DEF WriteFails, At, ProgressType
  <2>3. Alone(r)
    BY <1>19, <2>2 DEF WriteFails, Go, NextKind, reading, moving, writing, output, archive,
        Alone, ProgressType, RunType
  <2> QED BY <2>1, <2>3
<1>20. ASSUME NEW r \in Runs, Mail(r) PROVE Still \/ \E q \in Runs : Saves(q) /\ Alone(q)
  BY <1>20 DEF Mail, Go, reading, writing, Still, Saved, Saving, Parsing, ProgressType, RunType
<1>21. ASSUME NEW r \in Runs, Die(r) PROVE Still \/ \E q \in Runs : Saves(q) /\ Alone(q)
  <2>1. Saves(r)
    BY <1>21 DEF Saves
  <2>2. r \notin savedBy
    BY <1>21 DEF Die, At, ProgressType
  <2>3. Alone(r)
    BY <1>21, <2>2 DEF Die, Go, NextKind, reading, moving, writing, output, archive, Alone,
        ProgressType, RunType
  <2> QED BY <2>1, <2>3
<1>22. ASSUME UNCHANGED filesVars PROVE Still \/ \E q \in Runs : Saves(q) /\ Alone(q)
  BY <1>22 DEF filesVars, output, reading, writing, Still, Saved, Saving, Parsing,
      ProgressType, RunType
<1> QED BY <1>1, <1>2, <1>3, <1>4, <1>5, <1>6, <1>7, <1>8, <1>9, <1>10, <1>11, <1>12, <1>13,
    <1>14, <1>15, <1>16, <1>17, <1>18, <1>19, <1>20, <1>21, <1>22 DEF FilesNext

\* What stays the same for the other runs when one saves.
LEMMA Frame ==
    ASSUME ProgressType, NEW r \in Runs, Alone(r), NEW q \in Runs, q # r
    PROVE  /\ step'[q] = step[q] /\ kindNo'[q] = kindNo[q] /\ merged'[q] = merged[q]
           /\ KindOf(q)' = KindOf(q) /\ Mine(q)' = Mine(q)
           /\ \A k \in KindNames : Writing(q, k)' <=> Writing(q, k)
           /\ At(q, "dump")' <=> At(q, "dump")
BY DEF Alone, KindOf, Mine, Writing, At

\* What stays the same for all runs when none saves.
LEMMA FrameStill ==
    ASSUME ProgressType, Still, NEW q \in Runs
    PROVE  /\ kindNo'[q] = kindNo[q] /\ merged'[q] = merged[q] /\ KindOf(q)' = KindOf(q)
           /\ \A k \in KindNames : Writing(q, k)' = Writing(q, k)
           /\ At(q, "dump")' = At(q, "dump")
BY DEF Still, KindOf, Writing, Saved, Saving, At

\* A run that does not write a kind disturbs no writer of it.
LEMMA OtherKind ==
    ASSUME ProgressType, NEW r \in Runs, Alone(r), NEW k \in KindNames, json'[k] = json[k],
           ~Writing(r, k), ~Writing(r, k)', WriterOk(k)
    PROVE  WriterOk(k)'
BY Frame DEF WriterOk

\* Of a kind that is not torn there is one writer, who will write all the file
\* holds.
LEMMA WriterStep ==
    ASSUME DiskType, OutputType, ProgressType, WriterInv, [FilesNext]_filesVars
    PROVE  WriterInv'
<1>1. CASE Still
  <2>1. json' = json /\ torn' = torn
    BY <1>1 DEF Still
  <2> QED BY <1>1, <2>1, FrameStill DEF WriterInv, WriterOk
<1>2. ASSUME NEW r \in Runs, SkipKind(r), Alone(r) PROVE WriterInv'
  <2>1. json' = json /\ torn' = torn /\ \A k \in KindNames : ~Writing(r, k) /\ ~Writing(r, k)'
    BY <1>2 DEF SkipKind, NextKind, Go, At, Writing, output, ProgressType, RunType
  <2> QED BY <1>2, <2>1, OtherKind DEF WriterInv
<1>3. ASSUME NEW r \in Runs, ReadJson(r), Alone(r) PROVE WriterInv'
  <2>0. PICK k \in KindNames : k = KindOf(r)
    BY <1>3, MineType DEF ReadJson, At, Saving
  <2> DEFINE found == IF json[k].whole THEN json[k].reports ELSE <<>>
  <2>1. Mine(r) \in Seq(Given) /\ json[k].reports \in Seq(Given)
    BY <1>3, MineType DEF ReadJson, At, Saving, OutputType
  <2>2. /\ json' = json /\ KindOf(r)' = k /\ merged'[r] = found \o Mine(r)
        /\ torn' = IF \E q \in Runs \ {r} : Writing(q, k) THEN torn \cup {k} ELSE torn
    BY <1>3, <2>0 DEF ReadJson, Merge, KindOf, ProgressType, RunType
  <2>3. ~At(r, "dump") /\ ~At(r, "dump")' /\ step'[r] = "open"
        /\ \A h \in KindNames : ~Writing(r, h) /\ (Writing(r, h)' <=> h = k)
    BY <1>3, <2>2 DEF ReadJson, Merge, Go, At, Writing, ProgressType, RunType
  <2>4. ASSUME NEW h \in KindNames, h # k, h \notin torn' PROVE WriterOk(h)'
    <3>1. h \notin torn
      BY <2>2, <2>4
    <3> QED BY <1>3, <2>2, <2>3, <2>4, <3>1, OtherKind DEF WriterInv
  <2>5. ASSUME k \notin torn' PROVE WriterOk(k)'
    <3>1. k \notin torn /\ \A q \in Runs \ {r} : ~Writing(q, k)
      BY <2>2, <2>5
    <3>2. json[k].whole
      BY <2>1, <2>3, <3>1 DEF WriterInv, WriterOk
    <3>3. Range(json[k].reports) \subseteq Range(merged'[r])
      BY <2>1, <2>2, <3>2, RangeConcatenation
    <3>4. \A q \in Runs : Writing(q, k)' => q = r
      BY <1>3, <2>1, <3>1, Frame
    <3> QED BY <2>2, <3>2, <3>3, <3>4 DEF WriterOk
  <2> QED BY <2>4, <2>5 DEF WriterInv
<1>4. ASSUME NEW r \in Runs, OpenJson(r), Alone(r) PROVE WriterInv'
  <2>1. PICK k \in KindNames : k = KindOf(r)
    BY <1>4, MineType DEF OpenJson, At, Saving
  <2>2. /\ torn' = torn /\ KindOf(r)' = k /\ merged'[r] = merged[r] /\ Writing(r, k)
        /\ \A h \in KindNames \ {k} : json'[h] = json[h] /\ ~Writing(r, h) /\ ~Writing(r, h)'
    BY <1>4, <2>1 DEF OpenJson, Replace, KindOf, At, Go, Writing, writing, OutputType,
        ProgressType, RunType
  <2>3. json'[k].reports = <<>> /\ At(r, "dump")' /\ Writing(r, k)'
    BY <1>4, <2>1, <2>2 DEF OpenJson, Replace, Go, At, Writing, OutputType, ProgressType,
        RunType
  <2>4. ASSUME NEW h \in KindNames, h # k, h \notin torn' PROVE WriterOk(h)'
    BY <1>4, <2>2, <2>4, OtherKind DEF WriterInv
  <2>5. ASSUME k \notin torn' PROVE WriterOk(k)'
    <3>1. \A q \in Runs \ {r} : ~Writing(q, k)'
      BY <1>4, <2>1, <2>2, <2>5, Frame DEF WriterInv, WriterOk
    <3>2. Range(json'[k].reports) = {}
      BY <2>3 DEF Range
    <3> QED BY <2>3, <3>1, <3>2 DEF WriterOk
  <2> QED BY <2>4, <2>5 DEF WriterInv
<1>5. ASSUME NEW r \in Runs, DumpJson(r), Alone(r) PROVE WriterInv'
  <2>1. PICK k \in KindNames : k = KindOf(r)
    BY <1>5, MineType DEF DumpJson, At, Saving
  <2>2. /\ torn' = torn /\ KindOf(r)' = k /\ merged'[r] = merged[r] /\ Writing(r, k)
        /\ \A h \in KindNames \ {k} : json'[h] = json[h] /\ ~Writing(r, h) /\ ~Writing(r, h)'
    BY <1>5, <2>1 DEF DumpJson, Replace, KindOf, At, Go, Writing, writing, OutputType,
        ProgressType, RunType
  <2>3. json'[k].whole /\ ~Writing(r, k)'
    BY <1>5, <2>1, <2>2 DEF DumpJson, Replace, Go, At, Writing, OutputType, ProgressType,
        RunType
  <2>4. ASSUME NEW h \in KindNames, h # k, h \notin torn' PROVE WriterOk(h)'
    BY <1>5, <2>2, <2>4, OtherKind DEF WriterInv
  <2>5. ASSUME k \notin torn' PROVE WriterOk(k)'
    <3>1. \A q \in Runs \ {r} : ~Writing(q, k)'
      BY <1>5, <2>1, <2>2, <2>5, Frame DEF WriterInv, WriterOk
    <3> QED BY <2>3, <3>1 DEF WriterOk
  <2> QED BY <2>4, <2>5 DEF WriterInv
<1>6. ASSUME NEW r \in Runs, FindCsv(r), Alone(r) PROVE WriterInv'
  <2>1. json' = json /\ torn' = torn /\ \A k \in KindNames : ~Writing(r, k) /\ ~Writing(r, k)'
    BY <1>6 DEF FindCsv, Go, At, Writing, output, ProgressType, RunType
  <2> QED BY <1>6, <2>1, OtherKind DEF WriterInv
<1>7. ASSUME NEW r \in Runs, AppendCsv(r), Alone(r) PROVE WriterInv'
  <2>1. json' = json /\ torn' = torn /\ \A k \in KindNames : ~Writing(r, k) /\ ~Writing(r, k)'
    BY <1>7 DEF AppendCsv, NextKind, Go, At, Writing, output, ProgressType, RunType
  <2> QED BY <1>7, <2>1, OtherKind DEF WriterInv
<1>8. ASSUME NEW r \in Runs, WriteSamples(r), Alone(r) PROVE WriterInv'
  <2>1. json' = json /\ torn' = torn /\ \A k \in KindNames : ~Writing(r, k) /\ ~Writing(r, k)'
    BY <1>8 DEF WriteSamples, Go, At, Writing, output, ProgressType, RunType
  <2> QED BY <1>8, <2>1, OtherKind DEF WriterInv
<1>9. ASSUME NEW r \in Runs, WriteFails(r), Alone(r) PROVE WriterInv'
  <2>1. json' = json /\ torn \subseteq torn' /\ (At(r, "dump") => KindOf(r) \in torn') /\ ~At(r, "dump")'
        /\ \A k \in KindNames : ~Writing(r, k)'
    BY <1>9 DEF WriteFails, Go, At, Writing, ProgressType, RunType
  <2>2. ASSUME NEW k \in KindNames, k \notin torn' PROVE WriterOk(k)'
    <3>1. WriterOk(k) /\ ~(Writing(r, k) /\ At(r, "dump"))
      BY <2>1, <2>2 DEF WriterInv, Writing
    <3> QED BY <1>9, <2>1, <3>1, Frame DEF WriterOk
  <2> QED BY <2>2 DEF WriterInv
<1>10. ASSUME NEW r \in Runs, Die(r), Alone(r) PROVE WriterInv'
  <2>1. json' = json /\ torn \subseteq torn' /\ (At(r, "dump") => KindOf(r) \in torn') /\ ~At(r, "dump")'
        /\ \A k \in KindNames : ~Writing(r, k)'
    BY <1>10 DEF Die, Go, At, Writing, ProgressType, RunType
  <2>2. ASSUME NEW k \in KindNames, k \notin torn' PROVE WriterOk(k)'
    <3>1. WriterOk(k) /\ ~(Writing(r, k) /\ At(r, "dump"))
      BY <2>1, <2>2 DEF WriterInv, Writing
    <3> QED BY <1>10, <2>1, <3>1, Frame DEF WriterOk
  <2> QED BY <2>2 DEF WriterInv
<1> QED BY <1>1, <1>2, <1>3, <1>4, <1>5, <1>6, <1>7, <1>8, <1>9, <1>10, StillOrSaves DEF Saves

\* What a step that saves nothing means for a run that saves or has saved.
LEMMA StillSaved ==
    ASSUME ProgressType, Still, NEW q \in Runs
    PROVE  /\ step'[q] \in Saved \ {"json"} =>
                 step'[q] = step[q] /\ parsed'[q] = parsed[q] /\ Mine(q)' = Mine(q)
           /\ q \in savedBy => parsed'[q] = parsed[q]
           /\ kindNo'[q] = kindNo[q] /\ (q \in savedBy' <=> q \in savedBy)
           /\ step'[q] = "json" => kindNo[q] = 1 \/ (step[q] = "json" /\ parsed'[q] = parsed[q])
<1> USE DEF Still, ProgressType, RunType
<1>1. step'[q] \in Saved \ {"json"} => step'[q] = step[q] /\ parsed'[q] = parsed[q]
  BY DEF Saved, Saving
<1>2. step'[q] \in Saved \ {"json"} => Mine(q)' = Mine(q)
  BY <1>1 DEF Mine, KindOf
<1> QED BY <1>1, <1>2 DEF Saved, Saving

\* What a run is about to write holds its reports, or their rows.
LEMMA MergedStep ==
    ASSUME DiskType, OutputType, ProgressType, MergedInv, [FilesNext]_filesVars
    PROVE  MergedInv'
<1>1. CASE Still
  <2> QED BY <1>1, FrameStill, StillSaved DEF MergedInv, MergedOk, Saved, Saving, At
<1>2. ASSUME NEW r \in Runs, SkipKind(r), Alone(r) PROVE MergedInv'
  <2>1. step'[r] \notin {"open", "dump", "rows"}
    BY <1>2 DEF SkipKind, NextKind, Mine, Go, ProgressType, RunType
  <2> QED BY <1>2, <2>1, Frame DEF MergedInv, MergedOk, At
<1>3. ASSUME NEW r \in Runs, ReadJson(r), Alone(r) PROVE MergedInv'
  <2>0. PICK k \in KindNames : k = KindOf(r)
    BY <1>3, MineType DEF ReadJson, At, Saving
  <2>1. PICK found \in Seq(Given) : merged'[r] = found \o Mine(r)
    BY <1>3, <2>0, EmptySeq DEF ReadJson, Merge, OutputType, ProgressType, RunType
  <2>2. Mine(r) \in Seq(Given) /\ Mine(r)' = Mine(r) /\ step'[r] = "open"
    BY <1>3, MineType DEF ReadJson, Merge, Go, At, Saving, Mine, KindOf, Alone, ProgressType,
        RunType
  <2>3. MergedOk(r)'
    BY <2>1, <2>2, ConcatProperties, RangeConcatenation DEF MergedOk, At
  <2> QED BY <1>3, <2>3, Frame DEF MergedInv, MergedOk, At
<1>4. ASSUME NEW r \in Runs, OpenJson(r), Alone(r) PROVE MergedInv'
  <2>1. step[r] = "open" /\ step'[r] = "dump" /\ merged'[r] = merged[r] /\ Mine(r)' = Mine(r)
    BY <1>4 DEF OpenJson, Replace, writing, Go, At, Mine, KindOf, Alone, ProgressType, RunType
  <2> QED BY <1>4, <2>1, Frame DEF MergedInv, MergedOk, At
<1>5. ASSUME NEW r \in Runs, DumpJson(r), Alone(r) PROVE MergedInv'
  <2>1. step'[r] \notin {"open", "dump", "rows"}
    BY <1>5 DEF DumpJson, Go, Replace, ProgressType, RunType
  <2> QED BY <1>5, <2>1, Frame DEF MergedInv, MergedOk, At
<1>6. ASSUME NEW r \in Runs, FindCsv(r), Alone(r) PROVE MergedInv'
  <2>1. PICK header \in Seq(Rows) : merged'[r] = header \o CsvRows(Mine(r))
    <3>1. <<Header>> \in Seq(Rows) /\ <<>> \in Seq(Rows)
      BY EmptySeq DEF Rows
    <3> QED BY <1>6, <3>1 DEF FindCsv, ProgressType, RunType
  <2>2. Mine(r)' = Mine(r) /\ step'[r] = "rows"
    BY <1>6 DEF FindCsv, Go, Mine, KindOf, Alone, ProgressType, RunType
  <2>3. /\ CsvRows(Mine(r)) \in Seq(Rows)
        /\ \A x \in Range(Mine(r)) : RowsOf(x) \in Seq(Rows) /\ Within(RowsOf(x), CsvRows(Mine(r)))
    BY <1>6, MineType, RowsType DEF FindCsv, At, Saving
  <2>4. MergedOk(r)'
    BY <2>1, <2>2, <2>3, WithinConcat, ConcatProperties DEF MergedOk, At
  <2> QED BY <1>6, <2>4, Frame DEF MergedInv, MergedOk, At
<1>7. ASSUME NEW r \in Runs, AppendCsv(r), Alone(r) PROVE MergedInv'
  <2>1. step'[r] \notin {"open", "dump", "rows"}
    BY <1>7 DEF AppendCsv, NextKind, Go, ProgressType, RunType
  <2> QED BY <1>7, <2>1, Frame DEF MergedInv, MergedOk, At
<1>8. ASSUME NEW r \in Runs, WriteSamples(r), Alone(r) PROVE MergedInv'
  <2>1. step'[r] \notin {"open", "dump", "rows"}
    BY <1>8 DEF WriteSamples, Go, ProgressType, RunType
  <2> QED BY <1>8, <2>1, Frame DEF MergedInv, MergedOk, At
<1>9. ASSUME NEW r \in Runs, WriteFails(r), Alone(r) PROVE MergedInv'
  <2>1. step'[r] \notin {"open", "dump", "rows"}
    BY <1>9 DEF WriteFails, Go, ProgressType, RunType
  <2> QED BY <1>9, <2>1, Frame DEF MergedInv, MergedOk, At
<1>10. ASSUME NEW r \in Runs, Die(r), Alone(r) PROVE MergedInv'
  <2>1. step'[r] \notin {"open", "dump", "rows"}
    BY <1>10 DEF Die, Go, ProgressType, RunType
  <2> QED BY <1>10, <2>1, Frame DEF MergedInv, MergedOk, At
<1> QED BY <1>1, <1>2, <1>3, <1>4, <1>5, <1>6, <1>7, <1>8, <1>9, <1>10, StillOrSaves DEF Saves

\* A report that is in a JSON file, or about to be, stays so.
LEMMA KeptStays ==
    ASSUME DiskType, OutputType, ProgressType, WriterInv, [FilesNext]_filesVars
    PROVE  \A k \in KindNames, x \in Given : Kept(x, k) => Kept(x, k)'
<1>1. CASE Still
  <2>1. json' = json /\ torn' = torn
    BY <1>1 DEF Still
  <2> QED BY <1>1, <2>1, FrameStill DEF Kept
<1>2. ASSUME NEW r \in Runs, SkipKind(r), Alone(r)
      PROVE  \A k \in KindNames, x \in Given : Kept(x, k) => Kept(x, k)'
  <2>1. json' = json /\ torn \subseteq torn' /\ ~At(r, "dump")
    BY <1>2 DEF SkipKind, NextKind, At, output
  <2> QED BY <1>2, <2>1, Frame DEF Kept
<1>3. ASSUME NEW r \in Runs, ReadJson(r), Alone(r)
      PROVE  \A k \in KindNames, x \in Given : Kept(x, k) => Kept(x, k)'
  <2>1. json' = json /\ torn \subseteq torn' /\ ~At(r, "dump")
    BY <1>3 DEF ReadJson, Merge, Mine, Go, At, output
  <2> QED BY <1>3, <2>1, Frame DEF Kept
<1>4. ASSUME NEW r \in Runs, OpenJson(r), Alone(r)
      PROVE  \A k \in KindNames, x \in Given : Kept(x, k) => Kept(x, k)'
  <2>1. PICK h \in KindNames : h = KindOf(r)
    BY <1>4, MineType DEF OpenJson, At, Saving
  <2>2. /\ torn' = torn /\ merged'[r] = merged[r] /\ Writing(r, h) /\ Writing(r, h)' /\ At(r, "dump")'
        /\ \A k \in KindNames \ {h} : json'[k] = json[k]
        /\ ~At(r, "dump")
    BY <1>4, <2>1 DEF OpenJson, Replace, KindOf, At, Go, Writing, writing, OutputType,
        ProgressType, RunType
  <2>3. h \notin torn => Range(json[h].reports) \subseteq Range(merged[r])
    BY <2>2 DEF WriterInv, WriterOk
  <2> QED BY <1>4, <2>2, <2>3, Frame DEF Kept
<1>5. ASSUME NEW r \in Runs, DumpJson(r), Alone(r)
      PROVE  \A k \in KindNames, x \in Given : Kept(x, k) => Kept(x, k)'
  <2>1. PICK h \in KindNames : h = KindOf(r)
    BY <1>5, MineType DEF DumpJson, At, Saving
  <2>2. /\ torn' = torn /\ merged'[r] = merged[r] /\ Writing(r, h) /\ json'[h].reports = merged[r]
        /\ \A k \in KindNames \ {h} : json'[k] = json[k] /\ ~Writing(r, k)
    BY <1>5, <2>1 DEF DumpJson, Replace, KindOf, At, Go, Writing, writing, OutputType,
        ProgressType, RunType
  <2>3. h \notin torn => /\ Range(json[h].reports) \subseteq Range(merged[r])
                       /\ \A q \in Runs : Writing(q, h) => q = r
    BY <2>2 DEF WriterInv, WriterOk
  <2> QED BY <1>5, <2>2, <2>3, Frame DEF Kept
<1>6. ASSUME NEW r \in Runs, FindCsv(r), Alone(r)
      PROVE  \A k \in KindNames, x \in Given : Kept(x, k) => Kept(x, k)'
  <2>1. json' = json /\ torn \subseteq torn' /\ ~At(r, "dump")
    BY <1>6 DEF FindCsv, Go, Mine, At, output
  <2> QED BY <1>6, <2>1, Frame DEF Kept
<1>7. ASSUME NEW r \in Runs, AppendCsv(r), Alone(r)
      PROVE  \A k \in KindNames, x \in Given : Kept(x, k) => Kept(x, k)'
  <2>1. json' = json /\ torn \subseteq torn' /\ ~At(r, "dump")
    BY <1>7 DEF AppendCsv, NextKind, Go, At, output
  <2> QED BY <1>7, <2>1, Frame DEF Kept
<1>8. ASSUME NEW r \in Runs, WriteSamples(r), Alone(r)
      PROVE  \A k \in KindNames, x \in Given : Kept(x, k) => Kept(x, k)'
  <2>1. json' = json /\ torn \subseteq torn' /\ ~At(r, "dump")
    BY <1>8 DEF WriteSamples, Go, At, output
  <2> QED BY <1>8, <2>1, Frame DEF Kept
<1>9. ASSUME NEW r \in Runs, WriteFails(r), Alone(r)
      PROVE  \A k \in KindNames, x \in Given : Kept(x, k) => Kept(x, k)'
  <2>1. json' = json /\ torn \subseteq torn' /\ (At(r, "dump") => KindOf(r) \in torn')
    BY <1>9 DEF WriteFails
  <2> QED BY <1>9, <2>1, Frame DEF Kept, Writing
<1>10. ASSUME NEW r \in Runs, Die(r), Alone(r)
      PROVE  \A k \in KindNames, x \in Given : Kept(x, k) => Kept(x, k)'
  <2>1. json' = json /\ torn \subseteq torn' /\ (At(r, "dump") => KindOf(r) \in torn')
    BY <1>10 DEF Die
  <2> QED BY <1>10, <2>1, Frame DEF Kept, Writing
<1> QED BY <1>1, <1>2, <1>3, <1>4, <1>5, <1>6, <1>7, <1>8, <1>9, <1>10, StillOrSaves DEF Saves

\* Rows that stand together in a CSV file stay so.
LEMMA CsvGrows ==
    ASSUME DiskType, OutputType, ProgressType, MergedInv, [FilesNext]_filesVars
    PROVE  \A k \in KindNames, x \in Given :
              IsReport(x) /\ Within(RowsOf(x), csv[k]) => Within(RowsOf(x), csv'[k])
<1>1. CASE csv' = csv
  BY <1>1
<1>2. ASSUME NEW r \in Runs, SkipKind(r) \/ AppendCsv(r)
      PROVE  \A k \in KindNames, x \in Given :
                IsReport(x) /\ Within(RowsOf(x), csv[k]) => Within(RowsOf(x), csv'[k])
  <2>1. PICK h \in KindNames : h = KindOf(r)
    BY <1>2, MineType DEF SkipKind, AppendCsv, At, Saving
  <2>2. PICK lines \in Seq(Rows) : csv' = [csv EXCEPT ![h] = @ \o lines]
    <3>1. CASE AppendCsv(r)
      BY <2>1, <3>1 DEF AppendCsv, MergedInv, MergedOk
    <3>2. CASE SkipKind(r)
      <4>1. Header \in Rows /\ csv[h] \in Seq(Rows)
        BY DEF Rows, OutputType
      <4>2. <<Header>> \in Seq(Rows) /\ <<>> \in Seq(Rows)
        BY <4>1, EmptySeq
      <4>3. csv[h] \o <<>> = csv[h] /\ <<>> \o <<Header>> = <<Header>>
        BY <4>1, <4>2, ConcatEmptySeq
      <4>4. csv' = [csv EXCEPT ![h] = IF @ = <<>> THEN <<Header>> ELSE @]
        BY <2>1, <3>2 DEF SkipKind
      <4>5. csv' = [csv EXCEPT ![h] = @ \o <<Header>>] \/ csv' = [csv EXCEPT ![h] = @ \o <<>>]
        BY <4>3, <4>4
      <4> QED BY <4>2, <4>5
    <3> QED BY <1>2, <3>1, <3>2
  <2> QED BY <2>2, RowsType, WithinConcat DEF OutputType
<1>3. csv' = csv \/ \E r \in Runs : SkipKind(r) \/ AppendCsv(r)
  BY StillOrSaves DEF Still, Saves, ReadJson, Merge, OpenJson, DumpJson, Replace, FindCsv,
                      WriteSamples, WriteFails, Die, output
<1> QED BY <1>1, <1>2, <1>3

\* What a run is done with after a step it was done with before, or has just
\* written, or had nothing to write for.
DoneFrom(r, i) ==
    /\ JsonDone(r, i)' =>
          /\ parsed'[r] = parsed[r]
          /\ JsonDone(r, i) \/ (DumpJson(r) /\ i = kindNo[r]) \/ parsed[r][Kinds[i]] = <<>>
    /\ CsvDone(r, i)' =>
          /\ parsed'[r] = parsed[r]
          /\ CsvDone(r, i) \/ (AppendCsv(r) /\ i = kindNo[r]) \/ parsed[r][Kinds[i]] = <<>>

\* A kind is done for a run when the run has written it, or had nothing of it.
LEMMA DoneStep ==
    ASSUME DiskType, OutputType, ProgressType, [FilesNext]_filesVars
    PROVE  \A q \in Runs, i \in 1 .. 3 : DoneFrom(q, i)
<1>1. CASE Still
  <2> QED BY <1>1, StillSaved DEF DoneFrom, JsonDone, CsvDone, Saved, Saving
<1>2. ASSUME NEW r \in Runs, SkipKind(r), Alone(r)
      PROVE  \A q \in Runs, i \in 1 .. 3 : DoneFrom(q, i)
  <2>1. /\ kindNo[r] \in 1 .. 3 /\ kindNo'[r] = kindNo[r] + 1 /\ parsed' = parsed
        /\ savedBy' = savedBy /\ step[r] \in Saved
    BY <1>2 DEF SkipKind, NextKind, At, Saved, Saving, Alone, ProgressType, RunType
  <2>2. parsed[r][Kinds[kindNo[r]]] = <<>>
    BY <1>2 DEF SkipKind, At, Mine, KindOf
  <2>3. ASSUME NEW i \in 1 .. 3 PROVE DoneFrom(r, i)
    <3>1. i < kindNo'[r] => i < kindNo[r] \/ i = kindNo[r]
      BY <2>1
    <3>2. step'[r] \in {"json", "samples"} /\ r \notin savedBy'
      BY <1>2, <2>1 DEF SkipKind, NextKind, Go, Alone, ProgressType, RunType
    <3> QED BY <1>2, <2>1, <2>2, <3>1, <3>2 DEF DoneFrom, JsonDone, CsvDone, Saved
  <2>4. ASSUME NEW q \in Runs, q # r, NEW i \in 1 .. 3 PROVE DoneFrom(q, i)
    BY <1>2, <2>1, <2>4, Frame DEF DoneFrom, JsonDone, CsvDone
  <2> QED BY <2>3, <2>4
<1>3. ASSUME NEW r \in Runs, ReadJson(r), Alone(r)
      PROVE  \A q \in Runs, i \in 1 .. 3 : DoneFrom(q, i)
  <2>1. /\ kindNo'[r] = kindNo[r] /\ savedBy' = savedBy /\ parsed' = parsed /\ step[r] \in Saved
        /\ step'[r] \in {"open", "dump"} /\ step[r] = "json"
    BY <1>3 DEF ReadJson, Merge, Mine, Go, At, Saved, Saving, Alone, output, writing,
        ProgressType, RunType
  <2> QED BY <1>3, <2>1, Frame DEF DoneFrom, JsonDone, CsvDone, Saved, Saving
<1>4. ASSUME NEW r \in Runs, OpenJson(r), Alone(r)
      PROVE  \A q \in Runs, i \in 1 .. 3 : DoneFrom(q, i)
  <2>1. /\ kindNo'[r] = kindNo[r] /\ savedBy' = savedBy /\ parsed' = parsed /\ step[r] \in Saved
        /\ step'[r] \in {"open", "dump"} /\ step[r] = "open"
    BY <1>4 DEF OpenJson, Go, Replace, At, Saved, Saving, Alone, output, writing, ProgressType,
        RunType
  <2> QED BY <1>4, <2>1, Frame DEF DoneFrom, JsonDone, CsvDone, Saved, Saving
<1>5. ASSUME NEW r \in Runs, DumpJson(r), Alone(r)
      PROVE  \A q \in Runs, i \in 1 .. 3 : DoneFrom(q, i)
  <2>1. /\ kindNo'[r] = kindNo[r] /\ savedBy' = savedBy /\ parsed' = parsed /\ step[r] \in Saved
        /\ step'[r] \in {"csv", "rows"} /\ DumpJson(r)
    BY <1>5 DEF DumpJson, Go, Replace, At, Saved, Saving, Alone, output, writing, ProgressType,
        RunType
  <2> QED BY <1>5, <2>1, Frame DEF DoneFrom, JsonDone, CsvDone, Saved, Saving
<1>6. ASSUME NEW r \in Runs, FindCsv(r), Alone(r)
      PROVE  \A q \in Runs, i \in 1 .. 3 : DoneFrom(q, i)
  <2>1. /\ kindNo'[r] = kindNo[r] /\ savedBy' = savedBy /\ parsed' = parsed /\ step[r] \in Saved
        /\ step'[r] \in {"csv", "rows"} /\ step[r] = "csv"
    BY <1>6 DEF FindCsv, Go, Mine, At, Saved, Saving, Alone, output, writing, ProgressType,
        RunType
  <2> QED BY <1>6, <2>1, Frame DEF DoneFrom, JsonDone, CsvDone, Saved, Saving
<1>7. ASSUME NEW r \in Runs, AppendCsv(r), Alone(r)
      PROVE  \A q \in Runs, i \in 1 .. 3 : DoneFrom(q, i)
  <2>1. /\ kindNo[r] \in 1 .. 3 /\ kindNo'[r] = kindNo[r] + 1 /\ parsed' = parsed
        /\ savedBy' = savedBy /\ step[r] \in Saved
    BY <1>7 DEF AppendCsv, NextKind, At, Saved, Saving, Alone, ProgressType, RunType
  <2>2. step[r] = "rows"
    BY <1>7 DEF AppendCsv, At, Mine, KindOf
  <2>3. ASSUME NEW i \in 1 .. 3 PROVE DoneFrom(r, i)
    <3>1. i < kindNo'[r] => i < kindNo[r] \/ i = kindNo[r]
      BY <2>1
    <3>2. step'[r] \in {"json", "samples"} /\ r \notin savedBy'
      BY <1>7, <2>1 DEF AppendCsv, NextKind, Go, Alone, ProgressType, RunType
    <3> QED BY <1>7, <2>1, <2>2, <3>1, <3>2 DEF DoneFrom, JsonDone, CsvDone, Saved
  <2>4. ASSUME NEW q \in Runs, q # r, NEW i \in 1 .. 3 PROVE DoneFrom(q, i)
    BY <1>7, <2>1, <2>4, Frame DEF DoneFrom, JsonDone, CsvDone
  <2> QED BY <2>3, <2>4
<1>8. ASSUME NEW r \in Runs, WriteSamples(r), Alone(r)
      PROVE  \A q \in Runs, i \in 1 .. 3 : DoneFrom(q, i)
  <2>1. kindNo[r] = 4 /\ step[r] \in Saved /\ savedBy' = savedBy \cup {r} /\ parsed' = parsed
    BY <1>8 DEF WriteSamples, At, Saved, Sample, Alone, ProgressType
  <2> QED BY <1>8, <2>1, Frame DEF DoneFrom, JsonDone, CsvDone, Saved, Saving
<1>9. ASSUME NEW r \in Runs, WriteFails(r), Alone(r)
      PROVE  \A q \in Runs, i \in 1 .. 3 : DoneFrom(q, i)
  <2>1. step'[r] \notin Saved /\ savedBy' = savedBy /\ parsed' = parsed /\ r \notin savedBy
    BY <1>9 DEF WriteFails, Go, Saved, Saving, Alone, ProgressType, RunType
  <2> QED BY <1>9, <2>1, Frame DEF DoneFrom, JsonDone, CsvDone, Saved, Saving
<1>10. ASSUME NEW r \in Runs, Die(r), Alone(r)
      PROVE  \A q \in Runs, i \in 1 .. 3 : DoneFrom(q, i)
  <2>1. step'[r] \notin Saved /\ savedBy' = savedBy /\ parsed' = parsed /\ r \notin savedBy
    BY <1>10 DEF Die, Go, Saved, Saving, Alone, ProgressType, RunType
  <2> QED BY <1>10, <2>1, Frame DEF DoneFrom, JsonDone, CsvDone, Saved, Saving
<1> QED BY <1>1, <1>2, <1>3, <1>4, <1>5, <1>6, <1>7, <1>8, <1>9, <1>10, StillOrSaves DEF Saves

\* Reports of the kinds a run is done with are kept.
LEMMA JsonStep ==
    ASSUME DiskType, OutputType, ProgressType, WriterInv, MergedInv, JsonInv, [FilesNext]_filesVars
    PROVE  JsonInv'
<1>1. SUFFICES ASSUME NEW r \in Runs, NEW i \in 1 .. 3, JsonDone(r, i)',
                      NEW x \in Range(parsed'[r][Kinds[i]])
               PROVE  Kept(x, Kinds[i])'
  BY DEF JsonInv
<1>2. PICK k \in KindNames : k = Kinds[i]
  BY KindsApart
<1>3. parsed'[r] = parsed[r] /\ x \in Given
  <2>1. parsed'[r] = parsed[r] /\ parsed[r][k] \in Seq(Given)
    BY <1>1, DoneStep DEF DoneFrom, ProgressType, RunType
  <2> QED BY <1>1, <1>2, <2>1, RangeOfSeq
<1>4. CASE JsonDone(r, i)
  BY <1>1, <1>2, <1>3, <1>4, KeptStays DEF JsonInv
<1>5. CASE DumpJson(r) /\ i = kindNo[r]
  <2>1. x \in Range(merged[r])
    BY <1>1, <1>3, <1>5 DEF MergedInv, MergedOk, Mine, KindOf, DumpJson, At
  <2>2. json'[k].reports = merged[r]
    BY <1>2, <1>5 DEF DumpJson, Replace, KindOf, OutputType
  <2> QED BY <1>2, <2>1, <2>2 DEF Kept
<1>6. CASE parsed[r][Kinds[i]] = <<>>
  BY <1>1, <1>3, <1>6 DEF Range
<1> QED BY <1>1, <1>4, <1>5, <1>6, DoneStep DEF DoneFrom

\* Rows of the kinds a run is done with are in the CSV file.
LEMMA CsvStep ==
    ASSUME DiskType, OutputType, ProgressType, MergedInv, CsvInv, [FilesNext]_filesVars
    PROVE  CsvInv'
<1>1. SUFFICES ASSUME NEW r \in Runs, NEW i \in 1 .. 3, CsvDone(r, i)',
                      NEW x \in Range(parsed'[r][Kinds[i]])
               PROVE  Within(RowsOf(x), csv'[Kinds[i]])
  BY DEF CsvInv
<1>2. Kinds[i] \in KindNames
  BY KindsApart
<1>3. parsed'[r] = parsed[r] /\ x \in Given /\ x.kind = Kinds[i]
  <2>1. parsed'[r] = parsed[r] /\ parsed[r][Kinds[i]] \in Seq(Given)
    BY <1>1, <1>2, DoneStep DEF DoneFrom, ProgressType, RunType
  <2> QED BY <1>1, <1>2, <2>1, RangeOfSeq DEF ProgressType, ByKind
<1>4. IsReport(x)
  BY <1>2, <1>3, KindList DEF IsReport
<1>5. CASE CsvDone(r, i)
  BY <1>1, <1>2, <1>3, <1>4, <1>5, CsvGrows DEF CsvInv
<1>6. CASE AppendCsv(r) /\ i = kindNo[r]
  <2>1. merged[r] \in Seq(Rows) /\ Within(RowsOf(x), merged[r])
    BY <1>1, <1>3, <1>6 DEF MergedInv, MergedOk, Mine, KindOf, AppendCsv
  <2>2. csv'[Kinds[i]] = csv[Kinds[i]] \o merged[r] /\ csv[Kinds[i]] \in Seq(Rows)
    BY <1>2, <1>6 DEF AppendCsv, KindOf, OutputType
  <2> QED BY <1>3, <1>4, <2>1, <2>2, RowsType, WithinConcat
<1>7. CASE parsed[r][Kinds[i]] = <<>>
  BY <1>1, <1>3, <1>7 DEF Range
<1> QED BY <1>1, <1>5, <1>6, <1>7, DoneStep DEF DoneFrom

\* The samples written are those of the run's reports; other names keep what
\* they have.
LEMMA SamplesWritten ==
    ASSUME NEW r, Failures(r) \in Seq(Given), NEW n \in 0 .. Len(Failures(r)), samples' = WithSamples(r, n)
    PROVE  /\ \A s \in DOMAIN samples : s \in DOMAIN samples' /\ (samples'[s] = samples[s] \/ samples'[s].by = r)
           /\ \A i \in 1 .. n : /\ SampleName(Failures(r), i) \in DOMAIN samples'
                                /\ samples'[SampleName(Failures(r), i)].report = Failures(r)[i]
<1> DEFINE names == {SampleName(Failures(r), i) : i \in 1 .. n}
           index(s) == CHOOSE i \in 1 .. n : SampleName(Failures(r), i) = s
<1>1. samples' = [s \in DOMAIN samples \cup names |->
                    IF s \in names THEN [report |-> Failures(r)[index(s)], by |-> r] ELSE samples[s]]
  BY DEF WithSamples
<1>2. \A i, j \in 1 .. n : SampleName(Failures(r), i) = SampleName(Failures(r), j) => i = j
  <2>1. Len(Failures(r)) \in Nat
    BY LenProperties
  <2> QED BY <2>1, NamesDiffer
<1>3. ASSUME NEW i \in 1 .. n PROVE index(SampleName(Failures(r), i)) = i
  BY <1>2
<1>4. ASSUME NEW i \in 1 .. n
      PROVE  /\ SampleName(Failures(r), i) \in DOMAIN samples'
             /\ samples'[SampleName(Failures(r), i)].report = Failures(r)[i]
  <2>1. SampleName(Failures(r), i) \in names
    OBVIOUS
  <2> HIDE DEF names, index
  <2> QED BY <1>1, <1>3, <2>1
<1>5. \A s \in DOMAIN samples : s \in DOMAIN samples' /\ (samples'[s] = samples[s] \/ samples'[s].by = r)
  <2> HIDE DEF names, index
  <2> QED BY <1>1
<1> QED BY <1>4, <1>5

\* A saved failure report keeps its sample unless another run takes the name.
LEMMA SampleStep ==
    ASSUME DiskType, OutputType, ProgressType, SampleInv, [FilesNext]_filesVars
    PROVE  SampleInv'
<1>1. CASE samples' = samples /\ savedBy' = savedBy
  <2>1. \A q \in savedBy : Failures(q)' = Failures(q)
    <3>1. CASE Still
      BY <3>1, StillSaved DEF Failures, OutputType
    <3>2. CASE \E r \in Runs : Alone(r)
      BY <3>2 DEF Alone, Failures
    <3> QED BY <3>1, <3>2, StillOrSaves
  <2> QED BY <1>1, <2>1 DEF SampleInv, SampleOk
<1>2. ASSUME NEW r \in Runs, Alone(r), NEW n \in 0 .. Len(Failures(r)), samples' = WithSamples(r, n),
             savedBy' = savedBy \/ (savedBy' = savedBy \cup {r} /\ n = Len(Failures(r)))
      PROVE  SampleInv'
  <2>0. Failures(r) \in Seq(Given) /\ \A q \in Runs : Failures(q)' = Failures(q)
    BY <1>2 DEF Alone, Failures, ProgressType, RunType, KindNames
  <2>1. /\ \A s \in DOMAIN samples : s \in DOMAIN samples' /\ (samples'[s] = samples[s] \/ samples'[s].by = r)
        /\ \A i \in 1 .. n : /\ SampleName(Failures(r), i) \in DOMAIN samples'
                             /\ samples'[SampleName(Failures(r), i)].report = Failures(r)[i]
    BY <1>2, <2>0, SamplesWritten
  <2>2. ASSUME NEW q \in savedBy PROVE SampleOk(q)'
    BY <1>2, <2>0, <2>1 DEF SampleInv, SampleOk, Alone, OutputType
  <2>3. ASSUME r \in savedBy' PROVE SampleOk(r)'
    BY <1>2, <2>0, <2>1, <2>3 DEF SampleOk, Alone
  <2> QED BY <1>2, <2>2, <2>3 DEF SampleInv
<1>3. ASSUME NEW r \in Runs, Alone(r), WriteSamples(r) PROVE SampleInv'
  <2>1. Len(Failures(r)) \in Nat
    BY LenProperties DEF Failures, ProgressType, RunType, KindNames
  <2> QED BY <1>2, <1>3, <2>1 DEF WriteSamples
<1>4. ASSUME NEW r \in Runs, Alone(r), WriteFails(r) PROVE SampleInv'
  <2>1. Len(Failures(r)) \in Nat
    BY LenProperties DEF Failures, ProgressType, RunType, KindNames
  <2>2. savedBy' = savedBy /\ (samples' = samples \/ \E n \in 1 .. Len(Failures(r)) - 1 : samples' = WithSamples(r, n))
    BY <1>4 DEF WriteFails
  <2> QED BY <1>1, <1>2, <1>4, <2>1, <2>2
<1>5. ASSUME NEW r \in Runs, Saves(r), ~WriteSamples(r), ~WriteFails(r) PROVE SampleInv'
  BY <1>1, <1>5 DEF Saves, SkipKind, NextKind, ReadJson, Merge, OpenJson, DumpJson, Replace,
      FindCsv,
                    AppendCsv, Die, output
<1>6. CASE Still
  BY <1>1, <1>6 DEF Still
<1> QED BY <1>3, <1>4, <1>5, <1>6, StillOrSaves

-----------------------------------------------------------------------------
\* The invariant holds at the start.
LEMMA FilesInitInv == FilesInit => FIInv
<1> SUFFICES ASSUME FilesInit PROVE FIInv
  OBVIOUS
<1>1. <<>> \in Seq(Given) /\ <<>> \in Seq(Rows) /\ <<>> \in Seq(Given \cup Rows) /\ Range(<<>>) = {}
  BY EmptySeq DEF Range
<1>2. DiskType
  BY DEF FilesInit, DiskType
<1>3. OutputType
  BY <1>1, KindList DEF FilesInit, OutputType
<1>4. RunType
  <2>1. parsed \in [Runs -> [KindNames -> Seq(Given)]]
    BY <1>1, KindList DEF FilesInit
  <2>2. step \in [Runs -> Parsing] /\ kindNo \in [Runs -> 1 .. Sample] /\ merged \in [Runs -> Seq(Given \cup Rows)]
    BY <1>1 DEF FilesInit, Parsing, Sample
  <2> QED BY <2>1, <2>2 DEF FilesInit, RunType
<1>5. \A r \in Runs : step[r] = "new" /\ kindNo[r] = 1 /\ \A k \in KindNames : parsed[r][k] = <<>>
  BY KindList DEF FilesInit
<1>6. ProgressType
  BY <1>1, <1>4, <1>5 DEF FilesInit, ProgressType, ByKind, Filing, Parsing, Saving, At
<1>7. ClaimInv /\ CopyInv /\ MailedInv
  BY <1>5 DEF ClaimInv, CopyInv, MailedInv, Holding, At
<1>8. KeptInv /\ CollectedInv
  BY <1>5 DEF FilesInit, KeptInv, CollectedInv, Filing
<1>9. WriterInv /\ MergedInv
  BY <1>5, KindList DEF FilesInit, WriterInv, WriterOk, Writing, MergedInv, MergedOk, At
<1>10. JsonInv /\ CsvInv /\ SampleInv
  BY <1>5 DEF FilesInit, JsonInv, CsvInv, SampleInv, JsonDone, CsvDone, Saving
<1> QED BY <1>2, <1>3, <1>6, <1>7, <1>8, <1>9, <1>10 DEF FIInv

\* Every step keeps the invariant.
LEMMA FilesNextInv == FIInv /\ [FilesNext]_filesVars => FIInv'
<1> SUFFICES ASSUME FIInv, [FilesNext]_filesVars PROVE FIInv'
  OBVIOUS
<1> USE DEF FIInv
<1>1. DiskType'
  BY DiskTypeStep
<1>2. OutputType'
  BY OutputStep
<1>3. ProgressType'
  BY RunTypeStep, ByKindStep, ProgressStep
<1>4. ClaimInv' /\ CopyInv'
  BY ClaimStep, CopyStep
<1>5. KeptInv' /\ CollectedInv' /\ MailedInv'
  BY KeptStep, CollectedStep, MailedStep
<1>6. WriterInv' /\ MergedInv'
  BY WriterStep, MergedStep
<1>7. JsonInv' /\ CsvInv' /\ SampleInv'
  BY JsonStep, CsvStep, SampleStep
<1> QED BY <1>1, <1>2, <1>3, <1>4, <1>5, <1>6, <1>7

(***************************************************************************)
(* The inductive invariant of the files of a run (_archive_processed_file  *)
(* and _move_file_to_archive of cli.py, save_output and append_json of     *)
(* __init__.py) holds in every reachable state.                            *)
(***************************************************************************)
THEOREM FilesInvariant == FilesSpec => []FIInv
BY FilesInitInv, FilesNextInv, PTL DEF FilesSpec

\* The invariant implies that the archive loses nothing.
LEMMA KeepsAll == FIInv => ArchiveKeepsAll
<1> SUFFICES ASSUME FIInv PROVE ArchiveKeepsAll
  OBVIOUS
<1>1. ASSUME NEW p \in DOMAIN Inputs PROVE \E q \in DOMAIN disk : disk[q] = Inputs[p]
  <2>1. CASE p \in DOMAIN disk
    BY <2>1 DEF FIInv, DiskType
  <2>2. CASE p \notin DOMAIN disk
    BY <2>2 DEF FIInv, KeptInv
  <2> QED BY <2>1, <2>2
<1>2. \A f \in filed : f[1] \in DOMAIN disk /\ disk[f[1]] = f[2]
  BY DEF FIInv, KeptInv
<1>3. ASSUME NEW f \in filed, IsReport(f[2])
      PROVE  \E r \in Runs : \E x \in Range(parsed[r][f[2].kind]) :
                /\ SameReport(x, f[2])
                /\ At(r, "mailed") => \E m \in mailed : m[1] = r /\ x \in Range(m[2][f[2].kind])
  <2>1. PICK r \in Runs : \E x \in Range(parsed[r][f[2].kind]) : SameReport(x, f[2])
    BY <1>3 DEF FIInv, CollectedInv, Has
  <2>2. At(r, "mailed") => <<r, parsed[r]>> \in mailed
    BY DEF FIInv, MailedInv
  <2> QED BY <2>1, <2>2
<1> QED BY <1>1, <1>2, <1>3 DEF ArchiveKeepsAll

(***************************************************************************)
(* However runs that share the archive race for files and names, and       *)
(* wherever one of them dies, every file given is whole somewhere, what    *)
(* was archived stays, and its report was mailed by the run that has it    *)
(* when that run mails at all (_move_file_to_archive, _main).              *)
(***************************************************************************)
THEOREM ArchiveLosesNothing == FilesSpec => []ArchiveKeepsAll
BY FilesInvariant, KeepsAll, PTL

\* The invariant implies that what is saved is on disk.
LEMMA SavedOnDisk == FIInv => SavedIsOnDisk
<1> SUFFICES ASSUME FIInv, NEW r \in savedBy
             PROVE  /\ \A k \in Range(Kinds) : \A x \in Range(parsed[r][k]) :
                          InJson(x) /\ Within(RowsOf(x), csv[k])
                    /\ \A x \in Range(Failures(r)) : HasSample(r, x)
  BY DEF SavedIsOnDisk
<1>0. r \in Runs
  BY DEF FIInv, OutputType
<1>1. ASSUME NEW k \in Range(Kinds), NEW x \in Range(parsed[r][k])
      PROVE  InJson(x) /\ Within(RowsOf(x), csv[k])
  <2>1. PICK i \in 1 .. 3 : Kinds[i] = k
    BY KindList
  <2>2. JsonDone(r, i) /\ CsvDone(r, i)
    BY DEF JsonDone, CsvDone
  <2>3. x.kind = k
    BY <1>0, KindList DEF FIInv, ProgressType, ByKind
  <2>4. Kept(x, k)
    BY <1>0, <2>1, <2>2 DEF FIInv, JsonInv
  <2>5. InJson(x)
    BY <2>3, <2>4 DEF InJson, Kept, Writing
  <2>6. Within(RowsOf(x), csv[k])
    BY <1>0, <2>1, <2>2 DEF FIInv, CsvInv
  <2> QED BY <2>5, <2>6
<1>2. ASSUME NEW x \in Range(Failures(r)) PROVE HasSample(r, x)
  <2>1. Failures(r) \in Seq(Given)
    BY <1>0 DEF Failures, FIInv, ProgressType, RunType, KindNames
  <2>2. PICK i \in 1 .. Len(Failures(r)) : x = Failures(r)[i]
    BY <2>1, RangeEquality
  <2> DEFINE s == SampleName(Failures(r), i)
  <2>3. s \in DOMAIN samples /\ (samples[s].report = x \/ samples[s].by # r)
    BY <2>2 DEF FIInv, SampleInv, SampleOk
  <2>4. s[1] = x.subject
    BY <2>2 DEF SampleName
  <2> QED BY <2>3, <2>4 DEF HasSample
<1> QED BY <1>1, <1>2

(***************************************************************************)
(* What a run has saved is in the JSON file unless that file was cut short *)
(* or written by two runs at once, its rows are whole in the CSV file, and *)
(* its samples are there unless another run took their names (save_output, *)
(* append_json, append_csv).                                               *)
(***************************************************************************)
THEOREM OutputOnDisk == FilesSpec => []SavedIsOnDisk
BY FilesInvariant, SavedOnDisk, PTL

=============================================================================
