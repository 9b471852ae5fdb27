------------------------- MODULE MailboxIngestProofs -------------------------
(***************************************************************************)
(* Proofs about MailboxIngest for every set of messages, every set of      *)
(* options, every retry cap and every bound on faults and restarts.        *)
(***************************************************************************)
EXTENDS MailboxIngest, TLAPS

(***************************************************************************)
(* What a batch carries while a call runs: only reports that were read are *)
(* kept for disposal, only what was not is filed as invalid, every staged  *)
(* key belongs to a report of the batch, and a message that was parsed is  *)
(* in the batch or is a copy of a report that is staged or saved.          *)
(***************************************************************************)
BatchInv ==
    /\ uids \cap misread = {}
    /\ \A m \in invalid : Unreadable(m)
    /\ \A k \in pending : \E n \in batch : kind[n] = "aggregate" /\ key[n] = k
    /\ \A m \in uids : \/ m \in batch
                       \/ kind[m] = "aggregate" /\ key[m] \in pending
                       \/ Saved(m)

(***************************************************************************)
(* Messages still to be disposed of belong to a saved batch.               *)
(***************************************************************************)
DisposeInv ==
    pc = "dispose" => \A m \in moving : Saved(m)

SafeInv == TypeOK /\ RemovedImpliesSaved /\ SeenImpliesSaved
           /\ BatchInv /\ DisposeInv

-----------------------------------------------------------------------------
(***************************************************************************)
(* Type correctness: every step of the call, of the environment and of the *)
(* faults keeps the variables in their sets.                               *)
(***************************************************************************)
LEMMA TypeInit == Init => TypeOK
<1> SUFFICES ASSUME Init PROVE TypeOK
    OBVIOUS
<1>1. "unsent" \in Places
    BY DEF Places
<1>2. faults \in 0 .. MaxFaults /\ forgets \in 0 .. MaxForgets
    BY BoundsAssumption DEF Init
<1> QED BY <1>1, <1>2 DEF Init, TypeOK

LEMMA OptionTypes == TypeOK => opts.watch \in BOOLEAN /\ opts.batchSize \in Nat
BY OptionsAssumption DEF TypeOK, OptionRecords

(***************************************************************************)
(* What parsing a message can do: keep its report, refuse it, or leave.    *)
(***************************************************************************)
Kept(m) ==
    /\ kind[m] \in ReportTypes
    /\ Classify(m)
    /\ todo' = todo \ {m}
    /\ UNCHANGED <<pc, watching, invalid, callback, moving>>

TurnedDown(m) ==
    /\ Refuse(m)
    /\ todo' = todo \ {m}
    /\ invalid' = IF opts.test THEN invalid ELSE invalid \cup {m}
    /\ UNCHANGED <<pc, watching, callback, moving>>

LEMMA ParseOutcomes ==
    ASSUME NEW m \in Messages, Parse(m)
    PROVE  /\ m \in todo /\ pc = "parse"
           /\ UNCHANGED <<opts, place, batchSize, seen, attempts, stored, copies, failed,
                          faults, forgets>>
           /\ Kept(m) \/ TurnedDown(m) \/ (Raise /\ UNCHANGED misread)
BY DEF Parse, Kept, TurnedDown, memory

LEMMA FetchableInbox == \A n : \A S \in Fetchable(n) : S \subseteq Inbox
BY DEF Fetchable

LEMMA TypeStep == TypeOK /\ [Next]_vars => TypeOK'
<1> SUFFICES ASSUME TypeOK, [Next]_vars PROVE TypeOK'
    OBVIOUS
<1> USE BoundsAssumption, MessagesAssumption
<1>a. opts.watch \in BOOLEAN /\ opts.batchSize \in Nat
    BY OptionTypes
<1>0. Inbox \subseteq Messages
    BY DEF Inbox
<1>1. CASE Check
    <2>1. CASE ValidOptions
        <3>2. todo' \subseteq Messages
            BY <1>0, <1>1, <2>1, FetchableInbox DEF Check, Enter
        <3> QED BY <1>1, <2>1, <1>a, <3>2
                DEF Check, Enter, TypeOK, memory, history
    <2>2. CASE ~ValidOptions
        BY <1>1, <2>2 DEF Check, Raise, ClearLocals, TypeOK, memory, history
    <2> QED BY <2>1, <2>2
<1>2. ASSUME NEW m \in Messages, Parse(m) PROVE TypeOK'
    <2>1. key[m] \in Keys
        OBVIOUS
    <2>2. CASE Kept(m)
        BY <1>2, <2>1, <2>2, ParseOutcomes DEF Kept, Classify, TypeOK, Reports
    <2>3. CASE TurnedDown(m)
        BY <1>2, <2>3, ParseOutcomes
           DEF TurnedDown, Refuse, Refusable, TypeOK, Reports, ReportTypes
    <2>4. CASE Raise /\ UNCHANGED misread
        BY <1>2, <2>4, ParseOutcomes DEF Raise, ClearLocals, TypeOK
    <2> QED BY <1>2, <2>2, <2>3, <2>4, ParseOutcomes
<1>3. ASSUME NEW m \in Messages, DisposeInvalid(m) PROVE TypeOK'
    BY <1>3 DEF DisposeInvalid, TypeOK, Places, Archive, Kinds, ReportTypes,
               memory, history
<1>4. CASE SaveAccepted
    <2>1. attempts' \in [Messages -> Nat] /\ copies' \in [Keys -> Nat]
          /\ seen' \subseteq Keys /\ stored' \subseteq Messages
        <3>1. seen' \subseteq Keys /\ stored' \subseteq Messages
            BY <1>4 DEF SaveAccepted, TypeOK, Reports
        <3>2. attempts' \in [Messages -> Nat] /\ copies' \in [Keys -> Nat]
            BY <1>4 DEF SaveAccepted, TypeOK
        <3> QED BY <3>1, <3>2
    <2>2. CASE opts.test
        BY <1>a, <1>4, <2>1, <2>2 DEF SaveAccepted, Return, ClearLocals, TypeOK
    <2>3. CASE ~opts.test
        BY <1>4, <2>1, <2>3 DEF SaveAccepted, TypeOK
    <2> QED BY <2>2, <2>3
<1>5. ASSUME NEW how \in {"unsaved", "raised"}, SaveRefused(how) PROVE TypeOK'
    BY <1>a, <1>5 DEF SaveRefused, Parsed, Tally, OverCap, Return, Raise,
               ClearLocals, TypeOK
<1>6. ASSUME NEW m \in Messages, Shelve(m) PROVE TypeOK'
    BY <1>6 DEF Shelve, TypeOK, Places, history
<1>7. ASSUME NEW m \in Messages, Dispose(m) PROVE TypeOK'
    <2>1. kind[m] \in ReportTypes
        BY <1>7 DEF Dispose, TypeOK, Reports
    <2>2. Archive[kind[m]] \in Places
        BY <2>1 DEF Places, Archive, Kinds, ReportTypes
    <2>3. "deleted" \in Places
        BY DEF Places
    <2> QED BY <1>7, <2>2, <2>3 DEF Dispose, TypeOK, memory, history
<1>8. CASE Shelved
    BY <1>a, <1>8 DEF Shelved, Return, Raise, ClearLocals, TypeOK, memory, history
<1>9. CASE Disposed
    BY <1>a, <1>9 DEF Disposed, Return, ClearLocals, TypeOK, local, memory, history
<1>10. CASE Recheck
    <2>1. CASE Enter(DefaultBatchSize)
        <3>1. todo' \subseteq Messages
            BY <1>0, <2>1, FetchableInbox DEF Enter
        <3> QED BY <1>10, <2>1, <3>1
                DEF Recheck, Enter, TypeOK, memory, history
    <2>2. CASE Return /\ UNCHANGED batchSize
        BY <1>a, <1>10, <2>2 DEF Recheck, Return, ClearLocals, TypeOK, memory, history
    <2> QED BY <1>10, <2>1, <2>2 DEF Recheck
<1>11. CASE MailboxError
    BY <1>11 DEF MailboxError, Raise, ClearLocals, TypeOK, memory, history
<1>12. ASSUME NEW m \in Messages, MoveError(m) PROVE TypeOK'
    BY <1>12 DEF MoveError, TypeOK, memory, history
<1>13. ASSUME NEW m \in Messages, Arrive(m) PROVE TypeOK'
    BY <1>13 DEF Arrive, TypeOK, Places, local, memory, history
<1>14. ASSUME NEW k \in Keys, Expire(k) PROVE TypeOK'
    BY <1>14 DEF Expire, TypeOK, local, history
<1>15. CASE Restart
    <2>1. forgets' \in 0 .. MaxForgets /\ attempts' \in [Messages -> Nat]
        BY <1>15 DEF Restart, TypeOK
    <2>2. watching' \in BOOLEAN
        BY <1>15 DEF Restart
    <2> QED BY <1>15, <2>1, <2>2 DEF Restart, ClearLocals, TypeOK, history
<1>16. CASE UNCHANGED vars
    BY <1>16 DEF TypeOK, vars, local, memory, history
<1> QED
    BY <1>1, <1>2, <1>3, <1>4, <1>5, <1>6, <1>7, <1>8, <1>9, <1>10, <1>11,
       <1>12, <1>13, <1>14, <1>15, <1>16
       DEF Next, Step, Faulty, Environment, Ended

(***************************************************************************)
(* In every behaviour of mailbox processing the variables keep their types.*)
(***************************************************************************)
THEOREM TypeCorrect == Spec => []TypeOK
BY TypeInit, TypeStep, PTL DEF Spec

-----------------------------------------------------------------------------
(***************************************************************************)
(* The messages a call is working on are in the reports folder, each in    *)
(* one of its lists, and which of the lists are in use at which step.      *)
(***************************************************************************)
FolderInv ==
    /\ todo \cup invalid \cup moving \subseteq Inbox
    /\ todo \cap invalid = {} /\ (todo \cup invalid) \cap uids = {}
    /\ pc = "parse" => uids \subseteq Inbox
    /\ pc # "parse" => todo = {} /\ invalid = {}
    /\ pc \notin {"shelve", "dispose"} => moving = {}

LEMMA FolderInit == Init => FolderInv
BY DEF Init, FolderInv

(***************************************************************************)
(* A call that is left has no message lists; one that is entered has those *)
(* of the folder it lists.                                                 *)
(***************************************************************************)
LEMMA FolderCleared ==
    ASSUME ClearLocals, pc' \in {"idle", "exited"}
    PROVE  FolderInv'
BY DEF ClearLocals, FolderInv

LEMMA FolderEntered ==
    ASSUME NEW n, Enter(n), place' = place
    PROVE  FolderInv'
<1>1. Inbox' = Inbox
    BY DEF Inbox
<1> QED BY <1>1, FetchableInbox DEF Enter, FolderInv

LEMMA FolderStep == TypeOK /\ FolderInv /\ [Next]_vars => FolderInv'
<1> SUFFICES ASSUME TypeOK, FolderInv, [Next]_vars PROVE FolderInv'
    OBVIOUS
<1>b. Return \/ Raise => ClearLocals /\ pc' \in {"idle", "exited"}
    BY DEF Return, Raise
<1>1. CASE Check
    <2>1. place' = place /\ ((\E n : Enter(n)) \/ Raise)
        BY <1>1 DEF Check
    <2> QED BY <1>b, <2>1, FolderCleared, FolderEntered
<1>2. ASSUME NEW m \in Messages, Parse(m) PROVE FolderInv'
    <2>1. Inbox' = Inbox
        BY <1>2, ParseOutcomes DEF Inbox
    <2>2. CASE Raise
        BY <1>b, <2>2, FolderCleared
    <2>3. CASE Kept(m)
        BY <1>2, <2>1, <2>3, ParseOutcomes DEF Kept, Classify, FolderInv
    <2>4. CASE TurnedDown(m)
        BY <1>2, <2>1, <2>4, ParseOutcomes DEF TurnedDown, Refuse, FolderInv
    <2> QED BY <1>2, <2>2, <2>3, <2>4, ParseOutcomes
<1>3. ASSUME NEW m \in Messages, DisposeInvalid(m) PROVE FolderInv'
    <2>1. m \notin uids /\ m \notin todo /\ moving = {}
        BY <1>3 DEF DisposeInvalid, FolderInv
    <2>2. Inbox \ {m} \subseteq Inbox'
        BY <1>3 DEF DisposeInvalid, Inbox, TypeOK
    <2> QED BY <1>3, <2>1, <2>2 DEF DisposeInvalid, FolderInv
<1>4. CASE SaveAccepted
    <2>1. Inbox' = Inbox
        BY <1>4 DEF SaveAccepted, Inbox
    <2>2. CASE opts.test
        BY <1>b, <1>4, <2>2, FolderCleared DEF SaveAccepted
    <2>3. CASE ~opts.test
        BY <1>4, <2>1, <2>3 DEF SaveAccepted, Parsed, FolderInv
    <2> QED BY <2>2, <2>3
<1>5. ASSUME NEW how \in {"unsaved", "raised"}, SaveRefused(how) PROVE FolderInv'
    <2>1. Inbox' = Inbox
        BY <1>5 DEF SaveRefused, Inbox
    <2>2. CASE opts.test
        BY <1>b, <1>5, <2>2, FolderCleared DEF SaveRefused
    <2>3. CASE ~opts.test
        BY <1>5, <2>1, <2>3 DEF SaveRefused, Parsed, OverCap, FolderInv
    <2> QED BY <2>2, <2>3
<1>6. ASSUME NEW m \in Messages, Shelve(m) PROVE FolderInv'
    <2>1. Inbox \ {m} \subseteq Inbox'
        BY <1>6 DEF Shelve, Inbox, TypeOK
    <2> QED BY <1>6, <2>1 DEF Shelve, FolderInv
<1>7. ASSUME NEW m \in Messages, Dispose(m) PROVE FolderInv'
    <2>1. Inbox \ {m} \subseteq Inbox'
        BY <1>7 DEF Dispose, Inbox, TypeOK
    <2> QED BY <1>7, <2>1 DEF Dispose, FolderInv
<1>8. CASE Shelved
    BY <1>b, <1>8, FolderCleared DEF Shelved
<1>9. CASE Disposed
    <2>1. CASE Return
        BY <1>b, <2>1, FolderCleared
    <2>2. CASE pc' = "recheck" /\ UNCHANGED local
        <3>1. Inbox' = Inbox /\ moving = {} /\ pc = "dispose"
            BY <1>9 DEF Disposed, Inbox
        <3> QED BY <2>2, <3>1 DEF FolderInv, local
    <2> QED BY <1>9, <2>1, <2>2 DEF Disposed
<1>10. CASE Recheck
    BY <1>b, <1>10, FolderCleared, FolderEntered DEF Recheck
<1>11. CASE MailboxError
    BY <1>b, <1>11, FolderCleared DEF MailboxError
<1>12. ASSUME NEW m \in Messages, MoveError(m) PROVE FolderInv'
    <2>1. Inbox' = Inbox
        BY <1>12 DEF MoveError, Inbox
    <2> QED BY <1>12, <2>1 DEF MoveError, FolderInv
<1>13. ASSUME NEW m \in Messages, Arrive(m) PROVE FolderInv'
    <2>1. Inbox \subseteq Inbox'
        BY <1>13 DEF Arrive, Inbox, TypeOK
    <2> QED BY <1>13, <2>1 DEF Arrive, local, FolderInv
<1>14. ASSUME NEW k \in Keys, Expire(k) PROVE FolderInv'
    BY <1>14 DEF Expire, local, Inbox, FolderInv
<1>15. CASE Restart
    BY <1>15, FolderCleared DEF Restart
<1>16. CASE UNCHANGED vars
    BY <1>16 DEF vars, local, Inbox, FolderInv
<1> QED
    BY <1>1, <1>2, <1>3, <1>4, <1>5, <1>6, <1>7, <1>8, <1>9, <1>10, <1>11,
       <1>12, <1>13, <1>14, <1>15, <1>16
       DEF Next, Step, Faulty, Environment, Ended

-----------------------------------------------------------------------------
(***************************************************************************)
(* What a step leaves alone stays true as long as saved reports stay saved.*)
(***************************************************************************)
LEMMA SavedStays ==
    ASSUME NEW m, stored \subseteq stored'
    PROVE  Saved(m) => Saved(m)'
BY DEF Saved

LEMMA RemovedStays ==
    ASSUME RemovedImpliesSaved, stored \subseteq stored', UNCHANGED <<place, opts>>,
           \A m \in Messages : place[m] # "reports" => (m \in misread <=> m \in misread')
    PROVE  RemovedImpliesSaved'
BY SavedStays DEF RemovedImpliesSaved, Unreadable

(***************************************************************************)
(* One message moves; the others stay as legally removed as they were.     *)
(***************************************************************************)
LEMMA RemovedMoves ==
    ASSUME RemovedImpliesSaved, stored \subseteq stored', UNCHANGED <<opts, misread>>,
           NEW m \in Messages,
           \A n \in Messages : n # m => place'[n] = place[n],
           place'[m] \in {"Aggregate", "Failure", "SMTP-TLS"} => Saved(m),
           place'[m] = "Invalid" => Unreadable(m),
           place'[m] = "deleted" => Saved(m) \/ (Unreadable(m) /\ opts.delete["invalid"])
    PROVE  RemovedImpliesSaved'
BY SavedStays DEF RemovedImpliesSaved, Unreadable

LEMMA SeenStays ==
    ASSUME SeenImpliesSaved, stored \subseteq stored', seen' \subseteq seen
    PROVE  SeenImpliesSaved'
BY DEF SeenImpliesSaved

LEMMA BatchStays ==
    ASSUME BatchInv, stored \subseteq stored', UNCHANGED <<uids, batch, pending, misread>>,
           invalid' \subseteq invalid
    PROVE  BatchInv'
BY SavedStays DEF BatchInv, Unreadable

LEMMA BatchEmpty == ClearLocals => BatchInv' /\ DisposeInv'
BY DEF ClearLocals, BatchInv, DisposeInv

LEMMA EnterSafe ==
    ASSUME NEW n, Enter(n)
    PROVE  BatchInv' /\ DisposeInv'
BY DEF Enter, BatchInv, DisposeInv

(***************************************************************************)
(* Leaving the call, by returning or by raising, drops its locals.         *)
(***************************************************************************)
LEMMA LeaveSafe == Return \/ Raise => BatchInv' /\ DisposeInv'
BY BatchEmpty DEF Return, Raise

-----------------------------------------------------------------------------
(***************************************************************************)
(* The inductive invariant behind "never removed while it exists nowhere   *)
(* else": RemovedImpliesSaved and SeenImpliesSaved with what the running   *)
(* call knows about its batch.                                             *)
(***************************************************************************)
LEMMA SafeInit == Init => SafeInv
BY TypeInit DEF Init, SafeInv, RemovedImpliesSaved, SeenImpliesSaved, BatchInv,
                DisposeInv

LEMMA SafeStep == SafeInv /\ FolderInv /\ [Next]_vars => SafeInv'
<1> SUFFICES ASSUME SafeInv, FolderInv, [Next]_vars
             PROVE  RemovedImpliesSaved' /\ SeenImpliesSaved'
                    /\ BatchInv' /\ DisposeInv'
    BY TypeStep DEF SafeInv
<1> USE DEF SafeInv
<1>1. CASE Check
    <2>1. UNCHANGED <<opts, place, misread>> /\ seen' = seen /\ stored' = stored
        BY <1>1 DEF Check, memory, history
    <2>2. (\E n : Enter(n)) \/ Raise
        BY <1>1 DEF Check
    <2> QED BY <2>1, <2>2, EnterSafe, LeaveSafe, RemovedStays, SeenStays
<1>2. ASSUME NEW m \in Messages, Parse(m) PROVE SafeInv'
    <2>1. UNCHANGED <<opts, place, seen, stored>> /\ pc = "parse" /\ m \in todo
        BY <1>2, ParseOutcomes
    <2>2. place[m] = "reports" /\ m \notin uids /\ m \notin invalid
        BY <2>1 DEF FolderInv, Inbox
    <2>3. \A n : n # m => (n \in misread <=> n \in misread')
        BY <1>2, ParseOutcomes DEF Kept, TurnedDown, Classify, Refuse
    <2>4. RemovedImpliesSaved'
        BY <2>1, <2>2, <2>3, RemovedStays
    <2>5. CASE Raise
        BY <2>1, <2>4, <2>5, LeaveSafe, SeenStays, TypeStep
    <2>6. CASE TurnedDown(m)
        <3>1. UNCHANGED <<pc, uids, batch, pending>> /\ Unreadable(m)'
              /\ invalid' \subseteq invalid \cup {m}
            BY <2>6 DEF TurnedDown, Refuse, Refusable, Unreadable
        <3>2. uids' \cap misread' = {} /\ \A n \in invalid' : Unreadable(n)'
            BY <2>2, <2>3, <3>1 DEF BatchInv, Unreadable
        <3>3. BatchInv'
            BY <2>1, <3>1, <3>2, SavedStays DEF BatchInv
        <3> QED BY <2>1, <2>4, <3>1, <3>3, SeenStays, TypeStep DEF DisposeInv
    <2>7. CASE Kept(m)
        <3>1. Classify(m) /\ invalid' = invalid /\ pc' = "parse"
              /\ misread' = misread \ {m} /\ uids' = uids \cup {m}
            BY <2>1, <2>7 DEF Kept, Classify
        <3>2. uids' \cap misread' = {} /\ \A n \in invalid' : Unreadable(n)'
            BY <2>2, <2>3, <3>1 DEF BatchInv, Unreadable
        <3>3. Saved(m) \/ ~(kind[m] = "aggregate" /\ key[m] \in seen)
            BY DEF SeenImpliesSaved, Saved
        <3>4. BatchInv'
            BY <2>1, <3>1, <3>2, <3>3, SavedStays DEF Classify, BatchInv
        <3> QED BY <2>1, <2>4, <3>1, <3>4, SeenStays, TypeStep DEF DisposeInv
    <2> QED BY <1>2, <2>5, <2>6, <2>7, ParseOutcomes
<1>3. ASSUME NEW m \in Messages, DisposeInvalid(m) PROVE SafeInv'
    <2>1. UNCHANGED <<opts, stored, seen, misread>> /\ pc' = "parse" /\ m \in invalid
        BY <1>3 DEF DisposeInvalid, memory, history
    <2>2. Unreadable(m)
        BY <2>1 DEF BatchInv
    <2>3. \A n \in Messages : n # m => place'[n] = place[n]
        BY <1>3 DEF DisposeInvalid, TypeOK
    <2>4. place'[m] = IF opts.delete["invalid"] THEN "deleted" ELSE "Invalid"
        BY <1>3 DEF DisposeInvalid, TypeOK, Archive
    <2>5. RemovedImpliesSaved'
        BY <2>1, <2>2, <2>3, <2>4, RemovedMoves
    <2>6. BatchInv'
        BY <1>3, <2>1, BatchStays DEF DisposeInvalid
    <2> QED BY <2>1, <2>5, <2>6, SeenStays, TypeStep DEF DisposeInv
<1>4. CASE SaveAccepted
    <2>1. stored \subseteq stored' /\ UNCHANGED <<opts, place, misread>>
        BY <1>4 DEF SaveAccepted
    <2>2. SeenImpliesSaved'
        <3>1. \A k \in pending : \E n \in stored' : kind[n] = "aggregate" /\ key[n] = k
            BY <1>4 DEF SaveAccepted, BatchInv
        <3> QED BY <1>4, <2>1, <3>1 DEF SaveAccepted, SeenImpliesSaved
    <2>3. CASE opts.test
        BY <1>4, <2>1, <2>2, <2>3, LeaveSafe, RemovedStays DEF SaveAccepted
    <2>4. CASE ~opts.test
        <3>1. UNCHANGED <<uids, batch, pending, invalid>> /\ moving' = uids
            BY <1>4, <2>4 DEF SaveAccepted
        <3>2. BatchInv'
            BY <2>1, <3>1, BatchStays
        <3>3. \A m \in uids : Saved(m)'
            <4> SUFFICES ASSUME NEW m \in uids PROVE Saved(m)'
                OBVIOUS
            <4>1. CASE m \in batch
                BY <1>4, <4>1 DEF SaveAccepted, Saved
            <4>2. CASE kind[m] = "aggregate" /\ key[m] \in pending
                BY <1>4, <4>2 DEF SaveAccepted, Saved, BatchInv
            <4>3. CASE Saved(m)
                BY <2>1, <4>3, SavedStays
            <4> QED BY <4>1, <4>2, <4>3 DEF BatchInv
        <3>4. DisposeInv'
            BY <3>1, <3>3 DEF DisposeInv, BatchInv
        <3> QED BY <2>1, <2>2, <3>2, <3>4, RemovedStays
    <2> QED BY <2>3, <2>4
<1>5. ASSUME NEW how \in {"unsaved", "raised"}, SaveRefused(how) PROVE SafeInv'
    <2>1. UNCHANGED <<opts, place, misread>> /\ seen' = seen /\ stored' = stored
        BY <1>5 DEF SaveRefused
    <2>2. BatchInv' /\ DisposeInv'
        <3>1. CASE opts.test
            BY <1>5, <3>1, LeaveSafe DEF SaveRefused
        <3>2. CASE ~opts.test
            <4>1. UNCHANGED <<uids, batch, pending, invalid>> /\ pc' = "shelve"
                BY <1>5, <3>2 DEF SaveRefused
            <4> QED BY <2>1, <4>1, BatchStays DEF DisposeInv
        <3> QED BY <3>1, <3>2
    <2> QED BY <2>1, <2>2, RemovedStays, SeenStays, TypeStep
<1>6. ASSUME NEW m \in Messages, Shelve(m) PROVE SafeInv'
    <2>1. stored' = stored /\ seen' = seen /\ pc' = "shelve"
          /\ UNCHANGED <<opts, misread, uids, batch, pending, invalid>>
        BY <1>6 DEF Shelve, history
    <2>2. place'[m] = "Unsaved" /\ \A n \in Messages : n # m => place'[n] = place[n]
        BY <1>6 DEF Shelve, TypeOK
    <2>3. RemovedImpliesSaved'
        BY <2>1, <2>2, RemovedMoves
    <2> QED BY <2>1, <2>3, BatchStays, SeenStays, TypeStep DEF DisposeInv
<1>7. ASSUME NEW m \in Messages, Dispose(m) PROVE SafeInv'
    <2>1. stored' = stored /\ seen' = seen /\ pc = "dispose"
          /\ UNCHANGED <<opts, misread, uids, batch, pending, invalid>>
          /\ m \in moving /\ moving' \subseteq moving
        BY <1>7 DEF Dispose, memory, history
    <2>2. \A n \in Messages : n # m => place'[n] = place[n]
        BY <1>7 DEF Dispose, TypeOK
    <2>3. Saved(m) /\ kind[m] \in ReportTypes
        BY <2>1 DEF DisposeInv, TypeOK, Reports
    <2>4. RemovedImpliesSaved'
        <3>1. Archive[kind[m]] \in {"Aggregate", "Failure", "SMTP-TLS"}
            BY <2>3 DEF Archive, Kinds, ReportTypes
        <3>2. place'[m] \in {"deleted", Archive[kind[m]]}
            BY <1>7 DEF Dispose, TypeOK
        <3> QED BY <2>1, <2>2, <2>3, <3>1, <3>2, RemovedMoves
    <2>5. DisposeInv'
        BY <2>1, SavedStays DEF DisposeInv
    <2> QED BY <2>1, <2>4, <2>5, BatchStays, SeenStays, TypeStep
<1>8. CASE Shelved
    <2>1. UNCHANGED <<opts, place, misread>> /\ seen' = seen /\ stored' = stored /\ (Return \/ Raise)
        BY <1>8 DEF Shelved, memory, history
    <2> QED BY <2>1, LeaveSafe, RemovedStays, SeenStays
<1>9. CASE Disposed
    <2>1. UNCHANGED <<opts, place, misread>> /\ seen' = seen /\ stored' = stored
        BY <1>9 DEF Disposed, memory, history
    <2>2. CASE Return
        BY <2>1, <2>2, LeaveSafe, RemovedStays, SeenStays
    <2>3. CASE pc' = "recheck" /\ UNCHANGED local
        BY <2>1, <2>3, BatchStays, RemovedStays, SeenStays DEF local, DisposeInv
    <2> QED BY <1>9, <2>2, <2>3 DEF Disposed
<1>10. CASE Recheck
    <2>1. UNCHANGED <<opts, place, misread>> /\ seen' = seen /\ stored' = stored
        BY <1>10 DEF Recheck, memory, history
    <2>2. Return \/ Enter(DefaultBatchSize)
        BY <1>10 DEF Recheck
    <2> QED BY <2>1, <2>2, EnterSafe, LeaveSafe, RemovedStays, SeenStays
<1>11. CASE MailboxError
    <2>1. UNCHANGED <<opts, place, misread>> /\ seen' = seen /\ stored' = stored /\ Raise
        BY <1>11 DEF MailboxError, memory, history
    <2> QED BY <2>1, LeaveSafe, RemovedStays, SeenStays
<1>12. ASSUME NEW m \in Messages, MoveError(m) PROVE SafeInv'
    <2>1. UNCHANGED <<opts, place, misread>> /\ seen' = seen /\ stored' = stored /\ pc' = pc
          /\ UNCHANGED <<uids, batch, pending, invalid>> /\ moving' \subseteq moving
        BY <1>12 DEF MoveError, memory, history
    <2>2. DisposeInv'
        BY <2>1, SavedStays DEF DisposeInv
    <2> QED BY <2>1, <2>2, BatchStays, RemovedStays, SeenStays, TypeStep
<1>13. ASSUME NEW m \in Messages, Arrive(m) PROVE SafeInv'
    <2>1. seen' = seen /\ stored' = stored /\ pc' = pc /\ moving' = moving
          /\ UNCHANGED <<opts, misread, uids, batch, pending, invalid>>
        BY <1>13 DEF Arrive, local, memory, history
    <2>2. place'[m] = "reports" /\ \A n \in Messages : n # m => place'[n] = place[n]
        BY <1>13 DEF Arrive, TypeOK
    <2>3. RemovedImpliesSaved'
        BY <2>1, <2>2, RemovedMoves
    <2>4. DisposeInv'
        BY <2>1, SavedStays DEF DisposeInv
    <2> QED BY <2>1, <2>3, <2>4, BatchStays, SeenStays, TypeStep
<1>14. ASSUME NEW k \in Keys, Expire(k) PROVE SafeInv'
    <2>1. seen' \subseteq seen /\ stored' = stored /\ pc' = pc /\ moving' = moving
          /\ UNCHANGED <<uids, batch, pending, invalid, opts, place, misread>>
        BY <1>14 DEF Expire, local, history
    <2>2. DisposeInv'
        BY <2>1, SavedStays DEF DisposeInv
    <2> QED BY <2>1, <2>2, BatchStays, RemovedStays, SeenStays, TypeStep
<1>15. CASE Restart
    <2>1. UNCHANGED <<opts, place, misread>> /\ seen' \subseteq seen /\ stored' = stored /\ ClearLocals
        BY <1>15 DEF Restart, history
    <2> QED BY <2>1, BatchEmpty, RemovedStays, SeenStays
<1>16. CASE UNCHANGED vars
    <2>1. UNCHANGED <<opts, place, misread>> /\ seen' = seen /\ stored' = stored /\ pc' = pc
          /\ UNCHANGED <<uids, batch, pending, invalid, moving>>
        BY <1>16 DEF vars, local, memory, history
    <2>2. DisposeInv'
        BY <2>1, SavedStays DEF DisposeInv
    <2> QED BY <2>1, <2>2, BatchStays, RemovedStays, SeenStays
<1> QED
    BY <1>1, <1>2, <1>3, <1>4, <1>5, <1>6, <1>7, <1>8, <1>9, <1>10, <1>11,
       <1>12, <1>13, <1>14, <1>15, <1>16
       DEF Next, Step, Faulty, Environment, Ended

LEMMA SafeInductive ==
    /\ Init => SafeInv /\ FolderInv
    /\ SafeInv /\ FolderInv /\ [Next]_vars => SafeInv' /\ FolderInv'
BY SafeInit, SafeStep, FolderInit, FolderStep DEF SafeInv

(***************************************************************************)
(* "A report is never removed from the mailbox while it exists nowhere     *)
(* else": in every behaviour, for any mailbox, options, retry cap and      *)
(* number of faults and restarts, an archived or deleted report message    *)
(* had its report accepted by save_callback.                               *)
(***************************************************************************)
THEOREM NeverRemovedUnsaved == Spec => []RemovedImpliesSaved
<1>1. SafeInv => RemovedImpliesSaved
    BY DEF SafeInv
<1> QED BY <1>1, SafeInductive, PTL DEF Spec

(***************************************************************************)
(* The deduplication cache never holds the key of a report that no batch   *)
(* saved, so a retry is never dropped as a duplicate.                      *)
(***************************************************************************)
THEOREM CacheHoldsSavedOnly == Spec => []SeenImpliesSaved
<1>1. SafeInv => SeenImpliesSaved
    BY DEF SafeInv
<1> QED BY <1>1, SafeInductive, PTL DEF Spec

-----------------------------------------------------------------------------
(***************************************************************************)
(* The failure counters and the deduplication cache: no message is given   *)
(* up early or retried beyond its cap, no aggregate report is saved twice  *)
(* while the cache remembers it, and mailbox processing implements         *)
(* ReportCustody.                                                          *)
(***************************************************************************)
(***************************************************************************)
(* A key that is not cached has been saved no more often than the cache    *)
(* forgot, and a key that is staged is not cached.                         *)
(***************************************************************************)
CopiesInv ==
    /\ pc = "parse" => pending \cap seen = {}
    /\ \A k \in Keys : copies[k] <= (IF k \in seen THEN 1 ELSE 0) + forgets

(***************************************************************************)
(* Failure counters against the history.  A counter never exceeds the      *)
(* failed saves; what the failed saves exceed it by was paid for by faults *)
(* and restarts, which cost a round of attempts each; and a message that   *)
(* is being shelved has used up its retries.                               *)
(***************************************************************************)
Budget == (MaxUnsavedRetries + 1) * (faults + forgets)

Spent(m) == m \in moving \/ place[m] # "reports"

Paid(m) ==
    /\ attempts[m] <= failed[m]
    /\ failed[m] <= Budget + MaxUnsavedRetries + 1
    /\ place[m] = "unsent" => failed[m] = 0
    /\ pc = "shelve" /\ m \in moving => failed[m] >= MaxUnsavedRetries + 1
    /\ ~Spent(m) => \/ failed[m] <= Budget
                    \/ /\ attempts[m] <= MaxUnsavedRetries
                       /\ failed[m] <= Budget + attempts[m]

CounterInv == ShelvedAfterRetries /\ \A m \in Messages : Paid(m)

-----------------------------------------------------------------------------
LEMMA CopiesInit == Init => CopiesInv
BY BoundsAssumption DEF Init, CopiesInv

(***************************************************************************)
(* Leaving or entering the call stages no key.                             *)
(***************************************************************************)
LEMMA CopiesStay ==
    ASSUME CopiesInv, UNCHANGED <<seen, copies, forgets>>,
           pc' = "parse" => (pending' = {} \/ (pc = "parse" /\ pending' = pending))
    PROVE  CopiesInv'
BY DEF CopiesInv

LEMMA CopiesStep == TypeOK /\ CopiesInv /\ [Next]_vars => CopiesInv'
<1> SUFFICES ASSUME TypeOK, CopiesInv, [Next]_vars PROVE CopiesInv'
    OBVIOUS
<1>a. Return \/ Raise => pc' # "parse"
    BY DEF Return, Raise
<1>b. ASSUME NEW n, Enter(n), UNCHANGED <<seen, copies, forgets>> PROVE CopiesInv'
    <2>1. pending' = {}
        BY <1>b DEF Enter
    <2> QED BY <1>b, <2>1 DEF CopiesInv
<1>c. copies \in [Keys -> Nat] /\ forgets \in Nat /\ seen \subseteq Keys
    BY BoundsAssumption DEF TypeOK
<1>1. CASE Check
    <2>1. UNCHANGED <<seen, copies, forgets>>
        BY <1>1 DEF Check, memory, history
    <2>2. CASE Enter(opts.batchSize)
        BY <1>b, <2>1, <2>2
    <2>3. CASE Raise
        BY <1>a, <2>1, <2>3, CopiesStay
    <2> QED BY <1>1, <2>2, <2>3 DEF Check
<1>2. ASSUME NEW m \in Messages, Parse(m) PROVE CopiesInv'
    <2>1. UNCHANGED <<seen, copies, forgets>> /\ pc = "parse"
        BY <1>2, ParseOutcomes
    <2>2. CASE Raise
        BY <1>a, <2>1, <2>2, CopiesStay
    <2>3. CASE Kept(m)
        BY <2>1, <2>3 DEF Kept, Classify, CopiesInv
    <2>4. CASE TurnedDown(m)
        BY <2>1, <2>4, CopiesStay DEF TurnedDown, Refuse
    <2> QED BY <1>2, <2>2, <2>3, <2>4, ParseOutcomes
<1>3. ASSUME NEW m \in Messages, DisposeInvalid(m) PROVE CopiesInv'
    BY <1>3, CopiesStay DEF DisposeInvalid, memory, history
<1>4. CASE SaveAccepted
    <2>1. pc' # "parse" /\ forgets' = forgets /\ seen' = seen \cup pending
          /\ copies' = [k \in Keys |-> IF ~opts.test /\ k \in pending
                                          THEN copies[k] + 1 ELSE copies[k]]
        BY <1>a, <1>4 DEF SaveAccepted
    <2>2. pending \cap seen = {}
        BY <1>4 DEF SaveAccepted, Parsed, CopiesInv
    <2>3. ASSUME NEW k \in Keys
          PROVE  copies'[k] <= (IF k \in seen' THEN 1 ELSE 0) + forgets'
        <3>1. copies[k] \in Nat /\ copies[k] <= (IF k \in seen THEN 1 ELSE 0) + forgets
            BY <1>c DEF CopiesInv
        <3>2. copies'[k] = IF ~opts.test /\ k \in pending THEN copies[k] + 1 ELSE copies[k]
            BY <2>1
        <3>3. CASE k \in pending
            BY <1>c, <2>1, <2>2, <3>1, <3>2, <3>3
        <3>4. CASE k \notin pending
            BY <1>c, <2>1, <3>1, <3>2, <3>4
        <3> QED BY <3>3, <3>4
    <2> QED BY <2>1, <2>3 DEF CopiesInv
<1>5. ASSUME NEW how \in {"unsaved", "raised"}, SaveRefused(how) PROVE CopiesInv'
    <2>1. pc' # "parse"
        BY <1>a, <1>5 DEF SaveRefused
    <2> QED BY <1>5, <2>1, CopiesStay DEF SaveRefused
<1>6. ASSUME NEW m \in Messages, Shelve(m) PROVE CopiesInv'
    BY <1>6, CopiesStay DEF Shelve, history
<1>7. ASSUME NEW m \in Messages, Dispose(m) PROVE CopiesInv'
    BY <1>7, CopiesStay DEF Dispose, memory, history
<1>8. CASE Shelved
    BY <1>a, <1>8, CopiesStay DEF Shelved, memory, history
<1>9. CASE Disposed
    BY <1>a, <1>9, CopiesStay DEF Disposed, memory, history
<1>10. CASE Recheck
    <2>1. UNCHANGED <<seen, copies, forgets>>
        BY <1>10 DEF Recheck, memory, history
    <2>2. CASE Enter(DefaultBatchSize)
        BY <1>b, <2>1, <2>2
    <2>3. CASE Return
        BY <1>a, <2>1, <2>3, CopiesStay
    <2> QED BY <1>10, <2>2, <2>3 DEF Recheck
<1>11. CASE MailboxError
    BY <1>a, <1>11, CopiesStay DEF MailboxError, memory, history
<1>12. ASSUME NEW m \in Messages, MoveError(m) PROVE CopiesInv'
    BY <1>12, CopiesStay DEF MoveError, memory, history
<1>13. ASSUME NEW m \in Messages, Arrive(m) PROVE CopiesInv'
    BY <1>13, CopiesStay DEF Arrive, local, memory, history
<1>14. ASSUME NEW j \in Keys, Expire(j) PROVE CopiesInv'
    <2>1. pc' = pc /\ pending' = pending /\ copies' = copies
          /\ seen' = seen \ {j} /\ forgets' = forgets + 1
        BY <1>14 DEF Expire, local, history
    <2>2. \A k \in Keys : copies[k] \in Nat /\ copies[k] <= 1 + forgets
        BY <1>c DEF CopiesInv
    <2> QED BY <1>c, <2>1, <2>2 DEF CopiesInv
<1>15. CASE Restart
    <2>1. pc' = "idle" /\ copies' = copies /\ seen' = {} /\ forgets' = forgets + 1
        BY <1>15 DEF Restart, history
    <2>2. \A k \in Keys : copies[k] \in Nat /\ copies[k] <= 1 + forgets
        BY <1>c DEF CopiesInv
    <2> QED BY <1>c, <2>1, <2>2 DEF CopiesInv
<1>16. CASE UNCHANGED vars
    BY <1>16, CopiesStay DEF vars, local, memory, history
<1> QED
    BY <1>1, <1>2, <1>3, <1>4, <1>5, <1>6, <1>7, <1>8, <1>9, <1>10, <1>11,
       <1>12, <1>13, <1>14, <1>15, <1>16
       DEF Next, Step, Faulty, Environment, Ended

(***************************************************************************)
(* However often mail is copied, archiving fails or a batch is retried, an *)
(* aggregate report is delivered to the outputs at most once more than the *)
(* cache forgot it.                                                        *)
(***************************************************************************)
THEOREM DeliveredOncePerMemory == Spec => []AggregateSavedOnce
<1>1. TypeOK /\ CopiesInv => AggregateSavedOnce
    BY BoundsAssumption DEF TypeOK, CopiesInv, AggregateSavedOnce
<1>2. Init => TypeOK /\ CopiesInv
    BY TypeInit, CopiesInit
<1>3. TypeOK /\ CopiesInv /\ [Next]_vars => TypeOK' /\ CopiesInv'
    BY TypeStep, CopiesStep
<1> QED BY <1>1, <1>2, <1>3, PTL DEF Spec

-----------------------------------------------------------------------------
(***************************************************************************)
(* One more fault or restart pays for one more round of attempts.          *)
(***************************************************************************)
LEMMA BudgetGrows ==
    ASSUME faults \in Nat, forgets \in Nat, faults' \in Nat, forgets' \in Nat,
           faults' + forgets' = faults + forgets + 1
    PROVE  Budget' = Budget + MaxUnsavedRetries + 1
<1> DEFINE n == faults + forgets
<1>1. (MaxUnsavedRetries + 1) * (n + 1) = (MaxUnsavedRetries + 1) * n + MaxUnsavedRetries + 1
    BY BoundsAssumption
<1> QED BY <1>1 DEF Budget

LEMMA BudgetNat == TypeOK => Budget \in Nat
BY BoundsAssumption DEF TypeOK, Budget

(***************************************************************************)
(* What keeps a message paid for: nothing about it changes; or a fault or  *)
(* restart does not make it lose more than its counter.                    *)
(***************************************************************************)
LEMMA PaidStays ==
    ASSUME NEW m \in Messages, TypeOK, Paid(m),
           UNCHANGED <<faults, forgets>>,
           attempts'[m] = attempts[m], failed'[m] = failed[m],
           Spent(m) => Spent(m)',
           place'[m] = "unsent" => place[m] = "unsent",
           pc' = "shelve" => pc = "shelve",
           pc' = "shelve" => (m \in moving' => m \in moving)
    PROVE  Paid(m)'
<1>1. Budget' = Budget
    BY DEF Budget
<1> QED BY <1>1 DEF Paid

LEMMA PaidAgain ==
    ASSUME NEW m \in Messages, TypeOK, TypeOK', Paid(m),
           faults' + forgets' = faults + forgets + 1,
           attempts'[m] \in {0, attempts[m]}, failed'[m] = failed[m],
           place'[m] = place[m],
           pc' = "shelve" => pc = "shelve" /\ (m \in moving' => m \in moving)
    PROVE  Paid(m)'
<1>1. Budget' = Budget + MaxUnsavedRetries + 1
    BY BudgetGrows, BoundsAssumption DEF TypeOK
<1>2. attempts[m] \in Nat /\ failed[m] \in Nat /\ Budget \in Nat /\ MaxUnsavedRetries \in Nat
    BY BudgetNat, BoundsAssumption DEF TypeOK
<1>3. failed'[m] <= Budget' /\ failed'[m] <= Budget' + MaxUnsavedRetries + 1
    BY <1>1, <1>2 DEF Paid
<1>4. attempts'[m] <= failed'[m]
    BY <1>2 DEF Paid
<1> QED BY <1>3, <1>4 DEF Paid

LEMMA CounterInit == Init => CounterInv
<1> SUFFICES ASSUME Init PROVE CounterInv
    OBVIOUS
<1>1. Budget = 0
    BY BoundsAssumption DEF Init, Budget
<1> QED BY <1>1, BoundsAssumption DEF Init, CounterInv, ShelvedAfterRetries, Paid, Spent

(***************************************************************************)
(* Nothing is shelved by a step that moves no message to Unsaved.          *)
(***************************************************************************)
LEMMA ShelvedStays ==
    ASSUME TypeOK, ShelvedAfterRetries, MaxUnsavedRetries \in Nat,
           \A m \in Messages : failed'[m] \in Nat /\ failed'[m] >= failed[m],
           \A m \in Messages : place'[m] = "Unsaved" => place[m] = "Unsaved"
    PROVE  ShelvedAfterRetries'
BY DEF ShelvedAfterRetries, TypeOK

LEMMA CounterStep ==
    TypeOK /\ FolderInv /\ CounterInv /\ [Next]_vars => CounterInv'
<1> SUFFICES ASSUME TypeOK, FolderInv, CounterInv, [Next]_vars PROVE CounterInv'
    OBVIOUS
<1>t. TypeOK'
    BY TypeStep
<1>n. MaxUnsavedRetries \in Nat
    BY BoundsAssumption
<1>f. failed \in [Messages -> Nat] /\ attempts \in [Messages -> Nat]
    BY DEF TypeOK
<1>p. \A m \in Messages : Paid(m)
    BY DEF CounterInv
<1>r. (\E n : Enter(n)) \/ Return \/ Raise => pc' # "shelve"
    BY DEF Enter, Return, Raise
<1>s. ASSUME pc \notin {"shelve", "dispose"}, pc' # "shelve",
             UNCHANGED <<place, attempts, failed, faults, forgets>>
      PROVE  CounterInv'
    <2>1. moving = {}
        BY <1>s DEF FolderInv
    <2>2. \A m \in Messages : Paid(m)'
        BY <1>p, <1>s, <2>1, PaidStays DEF Spent
    <2>3. ShelvedAfterRetries'
        BY <1>s DEF CounterInv, ShelvedAfterRetries
    <2> QED BY <2>2, <2>3 DEF CounterInv
<1>1. CASE Check
    BY <1>1, <1>r, <1>s DEF Check, memory, history
<1>2. ASSUME NEW m \in Messages, Parse(m) PROVE CounterInv'
    <2>1. UNCHANGED <<place, attempts, failed, faults, forgets>> /\ pc = "parse"
          /\ pc' # "shelve"
        BY <1>2, <1>r, ParseOutcomes DEF Kept, TurnedDown
    <2> QED BY <1>s, <2>1
<1>3. ASSUME NEW m \in Messages, DisposeInvalid(m) PROVE CounterInv'
    <2>1. UNCHANGED <<attempts, failed, faults, forgets, moving>> /\ pc = "parse" /\ pc' = "parse"
        BY <1>3 DEF DisposeInvalid, memory, history
    <2>2. place' = [place EXCEPT ![m] = place'[m]] /\ place'[m] \in {"deleted", "Invalid"}
          /\ place[m] = "reports"
        BY <1>3 DEF DisposeInvalid, TypeOK, Archive, FolderInv, Inbox
    <2>3. \A n \in Messages : n # m => place'[n] = place[n]
        BY <2>2 DEF TypeOK
    <2>4. \A n \in Messages : Paid(n)'
        BY <1>p, <2>1, <2>2, <2>3, PaidStays DEF Spent
    <2>5. ShelvedAfterRetries'
        BY <1>f, <1>n, <2>1, <2>2, <2>3, ShelvedStays DEF CounterInv
    <2> QED BY <2>4, <2>5 DEF CounterInv
<1>4. CASE SaveAccepted
    <2>1. UNCHANGED <<place, failed, faults, forgets>> /\ moving = {} /\ pc' # "shelve"
        BY <1>4, <1>r DEF SaveAccepted, Parsed, FolderInv
    <2>2. ShelvedAfterRetries'
        BY <2>1 DEF CounterInv, ShelvedAfterRetries
    <2>3. ASSUME NEW m \in Messages PROVE Paid(m)'
        <3>1. CASE m \in uids /\ ~opts.test
            <4>1. Spent(m)'
                BY <1>4, <3>1 DEF SaveAccepted, Spent
            <4>2. attempts'[m] = 0
                BY <1>4, <3>1 DEF SaveAccepted
            <4>3. Budget' = Budget
                BY <2>1 DEF Budget
            <4> QED BY <1>f, <1>p, <2>1, <4>1, <4>2, <4>3 DEF Paid
        <3>2. CASE ~(m \in uids /\ ~opts.test)
            <4>1. attempts'[m] = attempts[m]
                BY <1>4, <3>2 DEF SaveAccepted
            <4>2. Spent(m) => Spent(m)'
                BY <2>1 DEF Spent
            <4> QED BY <1>p, <2>1, <4>1, <4>2, PaidStays
        <3> QED BY <3>1, <3>2
    <2> QED BY <2>2, <2>3 DEF CounterInv
<1>5. ASSUME NEW how \in {"unsaved", "raised"}, SaveRefused(how) PROVE CounterInv'
    <2>1. UNCHANGED <<place, faults, forgets>> /\ moving = {} /\ uids \subseteq Inbox
          /\ failed' = Tally(failed, uids) /\ attempts' = Tally(attempts, uids)
        BY <1>5 DEF SaveRefused, Parsed, FolderInv
    <2>2. Budget' = Budget /\ Budget \in Nat
        BY <2>1, BudgetNat DEF Budget
    <2>3. ShelvedAfterRetries'
        <3>1. \A m \in Messages : failed'[m] \in Nat /\ failed'[m] >= failed[m]
            BY <1>f, <2>1 DEF Tally
        <3> QED BY <1>n, <2>1, <3>1, ShelvedStays DEF CounterInv
    <2>4. ASSUME NEW m \in Messages PROVE Paid(m)'
        <3>1. CASE m \in uids /\ ~opts.test
            <4>1. failed'[m] = failed[m] + 1 /\ attempts'[m] = attempts[m] + 1
                BY <2>1, <3>1 DEF Tally
            <4>2. pc' = "shelve" /\ moving' = OverCap(uids)
                BY <1>5, <3>1 DEF SaveRefused
            <4>3. place[m] = "reports" /\ ~Spent(m)
                BY <2>1, <3>1 DEF Inbox, Spent
            <4>4. attempts[m] \in Nat /\ failed[m] \in Nat
                BY <1>f
            <4>5. CASE attempts[m] + 1 > MaxUnsavedRetries
                <5>1. Spent(m)'
                    BY <3>1, <4>2, <4>5 DEF Spent, OverCap
                <5>2. failed'[m] >= MaxUnsavedRetries + 1
                    BY <1>n, <1>p, <4>1, <4>4, <4>5 DEF Paid
                <5>3. failed'[m] <= Budget' + MaxUnsavedRetries + 1
                    BY <1>n, <1>p, <2>2, <4>1, <4>3, <4>4 DEF Paid
                <5> QED BY <1>p, <2>1, <4>1, <4>3, <4>4, <5>1, <5>2, <5>3 DEF Paid
            <4>6. CASE ~(attempts[m] + 1 > MaxUnsavedRetries)
                <5>1. m \notin moving'
                    BY <4>2, <4>6 DEF OverCap
                <5>2. attempts'[m] <= MaxUnsavedRetries /\ failed'[m] <= Budget' + attempts'[m]
                    BY <1>n, <1>p, <2>2, <4>1, <4>3, <4>4, <4>6 DEF Paid
                <5>3. failed'[m] <= Budget' + MaxUnsavedRetries + 1
                    BY <1>n, <2>2, <4>1, <4>4, <5>2
                <5> QED BY <1>p, <2>1, <4>1, <4>3, <4>4, <5>1, <5>2, <5>3 DEF Paid
            <4> QED BY <4>5, <4>6
        <3>2. CASE ~(m \in uids /\ ~opts.test)
            <4>1. failed'[m] = failed[m] /\ attempts'[m] = attempts[m]
                BY <2>1, <3>2 DEF Tally
            <4>2. m \notin moving'
                <5>1. CASE opts.test
                    BY <1>5, <5>1 DEF SaveRefused, Return, Raise, ClearLocals
                <5>2. CASE ~opts.test
                    BY <1>5, <3>2, <5>2 DEF SaveRefused, OverCap
                <5> QED BY <5>1, <5>2
            <4>3. Spent(m) => Spent(m)'
                BY <2>1 DEF Spent
            <4> QED BY <1>p, <2>1, <2>2, <4>1, <4>2, <4>3 DEF Paid
        <3> QED BY <3>1, <3>2
    <2> QED BY <2>3, <2>4 DEF CounterInv
<1>6. ASSUME NEW m \in Messages, Shelve(m) PROVE CounterInv'
    <2>1. UNCHANGED <<failed, faults, forgets, pc>> /\ pc = "shelve" /\ m \in moving
          /\ moving' = moving \ {m}
        BY <1>6 DEF Shelve, history
    <2>2. place'[m] = "Unsaved" /\ \A n \in Messages : n # m => place'[n] = place[n]
        BY <1>6 DEF Shelve, TypeOK
    <2>3. attempts'[m] = 0 /\ \A n \in Messages : n # m => attempts'[n] = attempts[n]
        BY <1>6 DEF Shelve, TypeOK
    <2>4. ShelvedAfterRetries'
        BY <1>p, <2>1, <2>2 DEF Paid, CounterInv, ShelvedAfterRetries
    <2>5. Budget' = Budget
        BY <2>1 DEF Budget
    <2>6. Paid(m)'
        BY <1>f, <1>p, <2>1, <2>2, <2>3, <2>5 DEF Paid, Spent
    <2>7. ASSUME NEW n \in Messages, n # m PROVE Paid(n)'
        <3>1. Spent(n) => Spent(n)'
            BY <2>1, <2>2, <2>7 DEF Spent
        <3> QED BY <1>p, <2>1, <2>2, <2>3, <2>7, <3>1, PaidStays
    <2> QED BY <2>4, <2>6, <2>7 DEF CounterInv
<1>7. ASSUME NEW m \in Messages, Dispose(m) PROVE CounterInv'
    <2>1. UNCHANGED <<attempts, failed, faults, forgets>> /\ pc' = "dispose"
          /\ moving' = moving \ {m}
        BY <1>7 DEF Dispose, memory, history
    <2>2. place'[m] \in {"deleted", "Aggregate", "Failure", "SMTP-TLS", "Invalid"}
        <3>1. Archive[kind[m]] \in {"Aggregate", "Failure", "SMTP-TLS", "Invalid"}
            BY <1>7 DEF Dispose, TypeOK, Reports, Archive, Kinds, ReportTypes
        <3>2. place'[m] = "deleted" \/ place'[m] = Archive[kind[m]]
            BY <1>7 DEF Dispose, TypeOK
        <3> QED BY <3>1, <3>2
    <2>3. \A n \in Messages : n # m => place'[n] = place[n]
        BY <1>7 DEF Dispose, TypeOK
    <2>4. ASSUME NEW n \in Messages PROVE Paid(n)'
        <3>1. Spent(n) => Spent(n)'
            BY <2>1, <2>2, <2>3 DEF Spent
        <3> QED BY <1>p, <2>1, <2>2, <2>3, <3>1, PaidStays
    <2>5. ShelvedAfterRetries'
        BY <1>f, <1>n, <2>1, <2>2, <2>3, ShelvedStays DEF CounterInv
    <2> QED BY <2>4, <2>5 DEF CounterInv
<1>8. CASE Shelved
    <2>1. UNCHANGED <<place, attempts, failed, faults, forgets>> /\ moving = {} /\ pc' # "shelve"
        BY <1>8, <1>r DEF Shelved, memory, history
    <2>2. \A n \in Messages : Paid(n)'
        BY <1>p, <2>1, PaidStays DEF Spent
    <2> QED BY <2>1, <2>2 DEF CounterInv, ShelvedAfterRetries
<1>9. CASE Disposed
    <2>1. UNCHANGED <<place, attempts, failed, faults, forgets>> /\ moving = {} /\ pc' # "shelve"
        BY <1>9, <1>r DEF Disposed, memory, history
    <2>2. \A n \in Messages : Paid(n)'
        BY <1>p, <2>1, PaidStays DEF Spent
    <2> QED BY <2>1, <2>2 DEF CounterInv, ShelvedAfterRetries
<1>10. CASE Recheck
    BY <1>10, <1>r, <1>s DEF Recheck, memory, history
<1>g. ASSUME UNCHANGED <<place, failed>>, faults' + forgets' = faults + forgets + 1,
             \A m \in Messages : attempts'[m] \in {0, attempts[m]},
             pc' = "shelve" => pc = "shelve" /\ moving' \subseteq moving
      PROVE  CounterInv'
    <2>1. \A m \in Messages : Paid(m)'
        BY <1>g, <1>p, <1>t, PaidAgain
    <2> QED BY <1>g, <2>1 DEF CounterInv, ShelvedAfterRetries
<1>11. CASE MailboxError
    <2>1. UNCHANGED <<place, attempts, failed, forgets>> /\ faults' = faults + 1
          /\ pc' # "shelve"
        BY <1>11, <1>r DEF MailboxError, memory, history
    <2> QED BY <1>g, <2>1, BoundsAssumption DEF TypeOK
<1>12. ASSUME NEW m \in Messages, MoveError(m) PROVE CounterInv'
    <2>1. UNCHANGED <<place, attempts, failed, forgets, pc>> /\ faults' = faults + 1
          /\ moving' \subseteq moving
        BY <1>12 DEF MoveError, memory, history
    <2> QED BY <1>g, <2>1, BoundsAssumption DEF TypeOK
<1>13. ASSUME NEW m \in Messages, Arrive(m) PROVE CounterInv'
    <2>1. UNCHANGED <<attempts, failed, faults, forgets, pc, moving>>
        BY <1>13 DEF Arrive, local, memory, history
    <2>2. place[m] = "unsent" /\ place'[m] = "reports"
          /\ \A n \in Messages : n # m => place'[n] = place[n]
        BY <1>13 DEF Arrive, TypeOK
    <2>3. Budget' = Budget /\ Budget \in Nat
        BY <2>1, BudgetNat DEF Budget
    <2>4. Paid(m)'
        BY <1>f, <1>n, <1>p, <2>1, <2>2, <2>3 DEF Paid
    <2>5. ASSUME NEW n \in Messages, n # m PROVE Paid(n)'
        BY <1>p, <2>1, <2>2, <2>5, PaidStays DEF Spent
    <2>6. ShelvedAfterRetries'
        BY <1>f, <1>n, <2>1, <2>2, ShelvedStays DEF CounterInv
    <2> QED BY <2>4, <2>5, <2>6 DEF CounterInv
<1>14. ASSUME NEW k \in Keys, Expire(k) PROVE CounterInv'
    <2>1. UNCHANGED <<place, attempts, failed, faults, pc, moving>> /\ forgets' = forgets + 1
        BY <1>14 DEF Expire, local, history
    <2> QED BY <1>g, <2>1, BoundsAssumption DEF TypeOK
<1>15. CASE Restart
    <2>1. UNCHANGED <<place, failed, faults>> /\ forgets' = forgets + 1 /\ pc' = "idle"
          /\ attempts' = [m \in Messages |-> 0]
        BY <1>15 DEF Restart, history
    <2> QED BY <1>g, <2>1, BoundsAssumption DEF TypeOK
<1>16. CASE UNCHANGED vars
    <2>1. UNCHANGED <<place, attempts, failed, faults, forgets, pc, moving>>
        BY <1>16 DEF vars, local, memory, history
    <2>2. \A n \in Messages : Paid(n)'
        BY <1>p, <2>1, PaidStays DEF Spent
    <2> QED BY <2>1, <2>2 DEF CounterInv, ShelvedAfterRetries
<1> QED
    BY <1>1, <1>2, <1>3, <1>4, <1>5, <1>6, <1>7, <1>8, <1>9, <1>10, <1>11,
       <1>12, <1>13, <1>14, <1>15, <1>16
       DEF Next, Step, Faulty, Environment, Ended

-----------------------------------------------------------------------------
(***************************************************************************)
(* The inductive invariant of mailbox processing.                          *)
(***************************************************************************)
IInv == SafeInv /\ FolderInv /\ CounterInv

LEMMA Inductive ==
    /\ Init => IInv
    /\ IInv /\ [Next]_vars => IInv'
<1>1. Init => IInv
    BY SafeInductive, CounterInit DEF IInv
<1>2. IInv /\ [Next]_vars => IInv'
    BY SafeInductive, CounterStep DEF IInv, SafeInv
<1> QED BY <1>1, <1>2

(***************************************************************************)
(* No message is given up early: one set aside in Unsaved took part in     *)
(* max_unsaved_retries + 1 failed saves, for every cap.                    *)
(***************************************************************************)
THEOREM NeverGivenUpEarly == Spec => []ShelvedAfterRetries
<1>1. IInv => ShelvedAfterRetries
    BY DEF IInv, CounterInv
<1> QED BY <1>1, Inductive, PTL DEF Spec

(***************************************************************************)
(* The retry cap holds for every cap and every number of messages: only a  *)
(* failing mailbox operation or a restart buys another round of attempts.  *)
(***************************************************************************)
THEOREM RetriesBounded == Spec => []RetriesCapped
<1>1. IInv => RetriesCapped
    <2> SUFFICES ASSUME IInv, NEW m \in Messages
                 PROVE  failed[m] <= (MaxUnsavedRetries + 1) * (1 + faults + forgets)
        BY DEF RetriesCapped
    <2>1. faults \in Nat /\ forgets \in Nat /\ MaxUnsavedRetries \in Nat
        BY BoundsAssumption DEF IInv, SafeInv, TypeOK
    <2>2. (MaxUnsavedRetries + 1) * (1 + faults + forgets) = Budget + MaxUnsavedRetries + 1
        BY <2>1 DEF Budget
    <2> QED BY <2>2 DEF IInv, CounterInv, Paid
<1> QED BY <1>1, Inductive, PTL DEF Spec

-----------------------------------------------------------------------------
(***************************************************************************)
(* In test mode nothing is filed or disposed of.                           *)
(***************************************************************************)
TestInv == opts.test => invalid = {} /\ moving = {}

LEMMA TestStep == TestInv /\ [Next]_vars => TestInv'
<1> SUFFICES ASSUME TestInv, [Next]_vars, opts'.test PROVE invalid' = {} /\ moving' = {}
    BY DEF TestInv
<1>1. opts' = opts
    BY DEF Next, Step, Faulty, Environment, Ended, vars, Check, Parse, DisposeInvalid,
           SaveAccepted, SaveRefused, Shelve, Dispose, Shelved, Disposed, Recheck,
           MailboxError, MoveError, Arrive, Expire, Restart
<1>2. invalid = {} /\ moving = {} /\ opts.test
    BY <1>1 DEF TestInv
<1>3. ClearLocals \/ (\E n : Enter(n)) => invalid' = {} /\ moving' = {}
    BY DEF ClearLocals, Enter
<1>4. Return \/ Raise => ClearLocals
    BY DEF Return, Raise
<1>5. CASE Check \/ Recheck \/ MailboxError \/ Restart \/ Shelved
    BY <1>3, <1>4, <1>5 DEF Check, Recheck, MailboxError, Restart, Shelved
<1>6. CASE Disposed
    BY <1>2, <1>3, <1>4, <1>6 DEF Disposed, local
<1>7. CASE SaveAccepted \/ \E how \in {"unsaved", "raised"} : SaveRefused(how)
    BY <1>2, <1>3, <1>4, <1>7 DEF SaveAccepted, SaveRefused
<1>8. ASSUME NEW m \in Messages,
             DisposeInvalid(m) \/ Shelve(m) \/ Dispose(m) \/ MoveError(m) \/ Arrive(m)
      PROVE  invalid' = {} /\ moving' = {}
    BY <1>2, <1>8 DEF DisposeInvalid, Shelve, Dispose, MoveError, Arrive, local
<1>11. ASSUME NEW m \in Messages, Parse(m) PROVE invalid' = {} /\ moving' = {}
    BY <1>2, <1>3, <1>4, <1>11, ParseOutcomes DEF Kept, TurnedDown
<1>9. ASSUME NEW k \in Keys, Expire(k) PROVE invalid' = {} /\ moving' = {}
    BY <1>2, <1>9 DEF Expire, local
<1>10. CASE UNCHANGED vars
    BY <1>2, <1>10 DEF vars, local
<1> QED BY <1>5, <1>6, <1>7, <1>8, <1>9, <1>10, <1>11 DEF Next, Step, Faulty, Environment, Ended

(***************************************************************************)
(* In test mode no message leaves the reports folder, whatever the order   *)
(* of the steps and whatever fails.                                        *)
(***************************************************************************)
THEOREM TestKeepsMailbox == Spec => TestLeavesMailbox
<1>1. Init => TypeOK /\ TestInv
    BY TypeInit DEF Init, TestInv
<1>2. TypeOK /\ TestInv /\ [Next]_vars => TypeOK' /\ TestInv'
    BY TypeStep, TestStep
<1>3. TypeOK /\ TestInv /\ [Next]_vars =>
        [opts.test => \A m \in Messages :
                         place[m] = "reports" => place'[m] = "reports"]_vars
    <2> SUFFICES ASSUME TypeOK, TestInv, [Next]_vars, opts.test, NEW m \in Messages,
                        place[m] = "reports"
                 PROVE  place'[m] = "reports"
        OBVIOUS
    <2>1. invalid = {} /\ moving = {}
        BY DEF TestInv
    <2>2. \A n \in Messages : ~DisposeInvalid(n) /\ ~Shelve(n) /\ ~Dispose(n)
        BY <2>1 DEF DisposeInvalid, Shelve, Dispose
    <2>3. ASSUME NEW n \in Messages, Arrive(n) PROVE place'[m] = "reports"
        BY <2>3 DEF Arrive, TypeOK
    <2>4. (\E n \in Messages : Arrive(n)) \/ place' = place
        BY <2>2 DEF Next, Step, Faulty, Environment, Ended, vars, Check, Parse, SaveAccepted,
                    SaveRefused, Shelved, Disposed, Recheck, MailboxError, MoveError,
                    Expire, Restart
    <2> QED BY <2>3, <2>4
<1> QED BY <1>1, <1>2, <1>3, PTL DEF Spec, TestLeavesMailbox

-----------------------------------------------------------------------------
(***************************************************************************)
(* The custodian of the messages, and what a step does to them.            *)
(***************************************************************************)
LEMMA CustodyCases ==
    ASSUME NEW m \in Messages
    PROVE  /\ Custody[m] = "waiting" <=> place[m] = "reports"
           /\ place[m] = "unsent" => Custody[m] = "unsent"
           /\ place[m] = "Unsaved" => Custody[m] = "aside"
BY DEF Custody

(***************************************************************************)
(* A step that moves one message moves its custody only.                   *)
(***************************************************************************)
LEMMA CustodyMoves ==
    ASSUME NEW m \in Messages, NEW c, misread' = misread,
           \A n \in Messages : n # m => place'[n] = place[n],
           Custody'[m] = c
    PROVE  Custody' = [Custody EXCEPT ![m] = c]
BY DEF Custody

LEMMA CustodyStill ==
    ASSUME place' = place,
           \A m \in Messages : place[m] # "reports" => (m \in misread <=> m \in misread')
    PROVE  Custody' = Custody
BY DEF Custody

(***************************************************************************)
(* A saved report is among the reports the outputs hold.                   *)
(***************************************************************************)
LEMMA SavedReport ==
    ASSUME NEW m \in Messages, Saved(m)
    PROVE  Report(m) \in {Report(n) : n \in stored}
BY DEF Saved, Report

LEMMA RefinementInit == Init => Abstract!CustodyInit
BY DEF Init, Abstract!CustodyInit, Custody

LEMMA RefinementStep ==
    IInv /\ [Next]_vars => [Abstract!CustodyNext]_<<Custody, {Report(m) : m \in stored}, failed, misread>>
<1> DEFINE reported == {Report(m) : m \in stored}
           Goal == [Abstract!CustodyNext]_<<Custody, reported, failed, misread>>
<1> SUFFICES ASSUME IInv, [Next]_vars PROVE Goal
    OBVIOUS
<1>i. TypeOK /\ BatchInv /\ DisposeInv /\ FolderInv /\ \A m \in Messages : Paid(m)
    BY DEF IInv, SafeInv, CounterInv
<1>s. ASSUME UNCHANGED <<place, stored, failed, misread>> PROVE Goal
    <2>1. Custody' = Custody /\ reported' = reported /\ UNCHANGED <<failed, misread>>
        BY <1>s, CustodyStill
    <2> QED BY <2>1
<1>w. Abstract!Waiting = Inbox
    BY CustodyCases DEF Abstract!Waiting, Inbox
<1>1. CASE SaveAccepted
    <2>1. Custody' = Custody /\ UNCHANGED <<failed, misread>> /\ stored' = stored \cup batch
        BY <1>1, CustodyStill DEF SaveAccepted
    <2>2. reported' = reported \cup {Report(m) : m \in batch}
        BY <2>1 DEF Report
    <2>3. batch \in SUBSET Abstract!Waiting
        BY <1>1, <1>i, <1>w DEF SaveAccepted, Parsed, FolderInv, TypeOK
    <2>4. Abstract!Save(batch)
        BY <2>1, <2>2 DEF Abstract!Save
    <2> QED BY <2>3, <2>4 DEF Abstract!CustodyNext
<1>2. ASSUME NEW how \in {"unsaved", "raised"}, SaveRefused(how) PROVE Goal
    <2> DEFINE S == IF opts.test THEN {} ELSE uids
    <2>1. Custody' = Custody /\ reported' = reported /\ misread' = misread
          /\ failed' = Tally(failed, uids)
        BY <1>2, CustodyStill DEF SaveRefused
    <2>2. failed' = [m \in Messages |-> IF m \in S THEN failed[m] + 1 ELSE failed[m]]
        BY <2>1 DEF Tally
    <2>3. S \in SUBSET Abstract!Waiting
        BY <1>2, <1>i, <1>w DEF SaveRefused, Parsed, FolderInv
    <2>4. Abstract!Fail(S)
        BY <2>1, <2>2 DEF Abstract!Fail
    <2> QED BY <2>3, <2>4 DEF Abstract!CustodyNext
<1>3. ASSUME NEW m \in Messages, Shelve(m) PROVE Goal
    <2>1. place[m] = "reports" /\ failed[m] >= MaxUnsavedRetries + 1
        BY <1>3, <1>i DEF Shelve, FolderInv, Inbox, Paid
    <2>2. place'[m] = "Unsaved" /\ UNCHANGED <<stored, failed, misread>>
          /\ \A n \in Messages : n # m => place'[n] = place[n]
        BY <1>3, <1>i DEF Shelve, TypeOK, history
    <2>3. Custody'[m] = "aside"
        BY <2>2 DEF Custody
    <2>4. Abstract!SetAside(m)
        BY <2>1, <2>2, <2>3, CustodyCases, CustodyMoves DEF Abstract!SetAside
    <2> QED BY <2>4 DEF Abstract!CustodyNext
<1>r. ASSUME NEW m \in Messages, place[m] = "reports", Custody'[m] = "removed",
             \A n \in Messages : n # m => place'[n] = place[n],
             UNCHANGED <<stored, failed, misread>>,
             kind[m] = "invalid" \/ Saved(m)
      PROVE  Goal
    <2>1. Custody' = [Custody EXCEPT ![m] = "removed"] /\ Custody[m] = "waiting"
        BY <1>r, CustodyCases, CustodyMoves
    <2>2. m \in {n \in Messages : kind[n] = "invalid"} \/ Report(m) \in reported
        BY <1>r, SavedReport
    <2>3. Abstract!Remove(m)
        BY <1>r, <2>1, <2>2 DEF Abstract!Remove
    <2> QED BY <2>3 DEF Abstract!CustodyNext
<1>4. ASSUME NEW m \in Messages, DisposeInvalid(m) PROVE Goal
    <2>1. place[m] = "reports" /\ Unreadable(m) /\ UNCHANGED <<stored, failed, misread>>
        BY <1>4, <1>i DEF DisposeInvalid, FolderInv, Inbox, BatchInv, history
    <2>2. place'[m] \in {"deleted", "Invalid"}
          /\ \A n \in Messages : n # m => place'[n] = place[n]
        BY <1>4, <1>i DEF DisposeInvalid, TypeOK, Archive
    <2>3. CASE m \in misread
        <3>1. Custody'[m] = "misfiled"
            BY <2>1, <2>2, <2>3 DEF Custody
        <3>2. Abstract!Misfile(m)
            BY <2>1, <2>2, <2>3, <3>1, CustodyCases, CustodyMoves DEF Abstract!Misfile
        <3> QED BY <3>2 DEF Abstract!CustodyNext
    <2>4. CASE m \notin misread
        <3>1. Custody'[m] = "removed"
            BY <2>1, <2>2, <2>4 DEF Custody
        <3> QED BY <1>r, <2>1, <2>2, <2>4, <3>1 DEF Unreadable
    <2> QED BY <2>3, <2>4
<1>5. ASSUME NEW m \in Messages, Dispose(m) PROVE Goal
    <2>1. place[m] = "reports" /\ Saved(m) /\ UNCHANGED <<stored, failed, misread>>
        BY <1>5, <1>i DEF Dispose, FolderInv, Inbox, DisposeInv, memory, history
    <2>2. place'[m] \in {"deleted", Archive[kind[m]]}
          /\ \A n \in Messages : n # m => place'[n] = place[n]
        BY <1>5, <1>i DEF Dispose, TypeOK
    <2>3. m \notin misread /\ kind[m] \in ReportTypes
        BY <1>5, <1>i DEF Dispose, BatchInv, TypeOK, Reports
    <2>4. place'[m] \in {"deleted", "Aggregate", "Failure", "SMTP-TLS"}
        BY <2>2, <2>3 DEF Archive, Kinds, ReportTypes
    <2>5. Custody'[m] = "removed"
        BY <2>1, <2>3, <2>4 DEF Custody
    <2> QED BY <1>r, <2>1, <2>2, <2>5
<1>6. ASSUME NEW m \in Messages, Arrive(m) PROVE Goal
    <2>1. place[m] = "unsent" /\ place'[m] = "reports" /\ UNCHANGED <<stored, failed, misread>>
          /\ \A n \in Messages : n # m => place'[n] = place[n]
        BY <1>6, <1>i DEF Arrive, TypeOK, history
    <2>2. Custody'[m] = "waiting"
        BY <2>1 DEF Custody
    <2>3. Abstract!Deliver(m)
        BY <2>1, <2>2, CustodyCases, CustodyMoves DEF Abstract!Deliver
    <2> QED BY <2>3 DEF Abstract!CustodyNext
<1>7. CASE Check \/ Shelved \/ Disposed \/ Recheck \/ MailboxError \/ Restart
    BY <1>7, <1>s DEF Check, Shelved, Disposed, Recheck, MailboxError, Restart, history
<1>8. ASSUME NEW m \in Messages, Parse(m) PROVE Goal
    <2>1. UNCHANGED <<place, stored, failed>> /\ place[m] = "reports"
        BY <1>8, <1>i, ParseOutcomes DEF FolderInv, Inbox
    <2>2. CASE misread' = misread
        BY <1>s, <2>1, <2>2
    <2>3. CASE kind[m] # "invalid" /\ misread' \in {misread \cup {m}, misread \ {m}}
        <3>1. Custody' = Custody /\ reported' = reported
            BY <2>1, <2>3, CustodyStill
        <3>2. Abstract!Reread(m)
            BY <2>1, <2>3, <3>1, CustodyCases DEF Abstract!Reread
        <3> QED BY <3>2 DEF Abstract!CustodyNext
    <2>4. misread' = misread
          \/ (kind[m] # "invalid" /\ misread' \in {misread \cup {m}, misread \ {m}})
        BY <1>8, ParseOutcomes DEF Kept, Classify, TurnedDown, Refuse, ReportTypes
    <2> QED BY <2>2, <2>3, <2>4
<1>11. ASSUME NEW m \in Messages, MoveError(m) PROVE Goal
    BY <1>11, <1>s DEF MoveError, history
<1>9. ASSUME NEW k \in Keys, Expire(k) PROVE Goal
    BY <1>9, <1>s DEF Expire, history
<1>10. CASE UNCHANGED vars
    BY <1>10, <1>s DEF vars, history
<1> QED
    BY <1>1, <1>2, <1>3, <1>4, <1>5, <1>6, <1>7, <1>8, <1>9, <1>10, <1>11
       DEF Next, Step, Faulty, Environment, Ended

(***************************************************************************)
(* Mailbox processing implements ReportCustody, for every mailbox, every   *)
(* set of options, every cap and every number of faults and restarts.      *)
(***************************************************************************)
THEOREM Refinement == Spec => ImplementsCustody
<1>1. Init => IInv /\ Abstract!CustodyInit
    BY Inductive, RefinementInit
<1>2. IInv /\ [Next]_vars => IInv' /\ [Abstract!CustodyNext]_Abstract!custodyVars
    BY Inductive, RefinementStep DEF Abstract!custodyVars
<1> QED BY <1>1, <1>2, PTL DEF Spec, ImplementsCustody, Abstract!CustodySpec

=============================================================================
