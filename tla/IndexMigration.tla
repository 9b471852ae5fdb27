--------------------------- MODULE IndexMigration ---------------------------
(***************************************************************************)
(* migrate_indexes() of elastic.py, and the function of the same shape in  *)
(* opensearch.py: the start-up rebuild of indexes that map                 *)
(* published_policy.fo as long, and the backfill of the *_combined fields  *)
(* by update_by_query tasks that the cluster runs on its own.              *)
(*                                                                         *)
(* A step is one call on the cluster.  A call may fail before or after it  *)
(* took effect, and a process may die between any two calls; the number of *)
(* such faults is bounded by MaxFaults.  The loop runs again at every      *)
(* start and at every reload of the configuration.                         *)
(***************************************************************************)
EXTENDS Integers, Sequences

CONSTANTS
    Processes,   \* parsedmarc processes that share the cluster
    Names,       \* index names without a date: dmarc_aggregate, ...
    LegacyNames, \* legacy_fo_indexes, a sequence of names
    BackfillNames, \* aggregate_indexes followed by smtp_tls_indexes
    Covers,      \* Covers[n]: the names m with n a prefix of m, by f"{n}*"
    Docs,        \* documents
    Held,        \* Held[n]: the documents in n when the first process starts
    Dated,       \* Dated[n]: the documents in the dated indexes of n
    FirstKind,   \* FirstKind[n]: how n maps published_policy.fo at first
    Done,        \* documents saved with the combined fields
    MaxFaults    \* bound on failing calls, lost updates and crashes

(***************************************************************************)
(* What an index is: not there, created and without a mapping for fo,      *)
(* with fo as long, or with fo as text.                                    *)
(***************************************************************************)
IndexKinds == {"absent", "bare", "long", "text"}

(***************************************************************************)
(* The index n, its -v2 rebuild, and all of its date-suffixed indexes.     *)
(***************************************************************************)
Original(n) == <<n, "original">>

NewIndex(n) == <<n, "v2">>

DatedIndex(n) == <<n, "dated">>

Indexes == Names \X {"original", "v2", "dated"}

(***************************************************************************)
(* f"{name}*", the indexes a backfill works on.                            *)
(***************************************************************************)
Pattern(n) == {i \in Indexes : i[1] \in Covers[n]}

ASSUME NamesAssumption ==
    /\ LegacyNames \in Seq(Names)
    /\ BackfillNames \in Seq(Names)
    /\ Covers \in [Names -> SUBSET Names]

ASSUME DocsAssumption ==
    /\ Held \in [Names -> SUBSET Docs]
    /\ Dated \in [Names -> SUBSET Docs]
    /\ FirstKind \in [Names -> IndexKinds]
    /\ \A n \in Names : FirstKind[n] = "absent" => Held[n] = {}

ASSUME FaultsAssumption == MaxFaults \in Nat

VARIABLES
    kind,      \* kind[i]: what index i is
    docs,      \* docs[i]: the documents in index i
    combined,  \* combined[i]: those of them that have the combined fields
    fresh,     \* <<index, document>> written since the last refresh
    tasks,     \* <<index, document>> that a background task has still to update
    pc,        \* pc[p]: the next call of process p
    at,        \* at[p]: its place in LegacyNames or BackfillNames
    scanned,   \* scanned[p]: documents reindex() has still to write
    warned,    \* warned[p]: a call failed since p started the function
    faults

vars == <<kind, docs, combined, fresh, tasks, pc, at, scanned, warned, faults>>

cluster == <<kind, docs, combined, fresh, tasks>>

LegacyCalls ==
    {"exists", "type", "leftover", "discard", "create", "mapping", "scan",
     "copy", "delete"}

BackfillCalls == {"connect", "count", "submit"}

Calls == LegacyCalls \cup BackfillCalls

TypeOK ==
    /\ kind \in [Indexes -> IndexKinds]
    /\ docs \in [Indexes -> SUBSET Docs]
    /\ combined \in [Indexes -> SUBSET Docs]
    /\ fresh \subseteq Indexes \X Docs
    /\ tasks \subseteq Indexes \X Docs
    /\ pc \in [Processes -> Calls \cup {"down", "up"}]
    /\ at \in [Processes -> Nat \ {0}]
    /\ scanned \in [Processes -> SUBSET (Docs \X BOOLEAN)]
    /\ warned \in [Processes -> BOOLEAN]
    /\ faults \in 0..MaxFaults

Init ==
    /\ kind = [i \in Indexes |->
                  CASE i[2] = "original" -> FirstKind[i[1]]
                    [] i[2] = "v2" -> "absent"
                    [] i[2] = "dated" -> "text"]
    /\ docs = [i \in Indexes |->
                  CASE i[2] = "original" -> Held[i[1]]
                    [] i[2] = "v2" -> {}
                    [] i[2] = "dated" -> Dated[i[1]]]
    /\ combined = [i \in Indexes |-> docs[i] \cap Done]
    /\ fresh = {}
    /\ tasks = {}
    /\ pc = [p \in Processes |-> "down"]
    /\ at = [p \in Processes |-> 1]
    /\ scanned = [p \in Processes |-> {}]
    /\ warned = [p \in Processes |-> FALSE]
    /\ faults = 0

----------------------------------------------------------------------------
(***************************************************************************)
(* Moving through the function.                                            *)
(***************************************************************************)
Legacy(p) == LegacyNames[at[p]]

Backfill(p) == BackfillNames[at[p]]

Goto(p, call) ==
    /\ pc' = [pc EXCEPT ![p] = call]
    /\ UNCHANGED <<at, warned>>

(***************************************************************************)
(* continue: on to the next name of the loop that p is in.                 *)
(***************************************************************************)
NextName(p) ==
    /\ at' = [at EXCEPT ![p] = @ + 1]
    /\ pc' = [pc EXCEPT ![p] = IF pc[p] \in LegacyCalls THEN "exists" ELSE "count"]

(***************************************************************************)
(* The except branch: a warning, and the next name; without a connection   *)
(* the backfill as a whole is skipped.                                     *)
(***************************************************************************)
Warn(p) ==
    /\ warned' = [warned EXCEPT ![p] = TRUE]
    /\ IF pc[p] = "connect"
         THEN pc' = [pc EXCEPT ![p] = "up"] /\ UNCHANGED at
         ELSE NextName(p)

(***************************************************************************)
(* A call that changes the cluster: its caller goes on, or is told of a    *)
(* failure although the change took place.                                 *)
(***************************************************************************)
AnsweredOrNot(p, call) ==
    \/ Goto(p, call) /\ UNCHANGED faults
    \/ faults < MaxFaults /\ faults' = faults + 1 /\ Warn(p)

(***************************************************************************)
(* A call on something that is not, or already, there is refused.          *)
(***************************************************************************)
Refused(p) == Warn(p) /\ UNCHANGED <<cluster, scanned, faults>>

(***************************************************************************)
(* Deleting an index takes its documents along, and the work of background *)
(* tasks on them.                                                          *)
(***************************************************************************)
DeleteIndex(i) ==
    /\ kind' = [kind EXCEPT ![i] = "absent"]
    /\ docs' = [docs EXCEPT ![i] = {}]
    /\ combined' = [combined EXCEPT ![i] = {}]
    /\ fresh' = {w \in fresh : w[1] # i}
    /\ tasks' = {t \in tasks : t[1] # i}

----------------------------------------------------------------------------
(***************************************************************************)
(* A process starts, or reloads its configuration, and calls the function. *)
(***************************************************************************)
Start(p) ==
    /\ pc[p] \in {"down", "up"}
    /\ pc' = [pc EXCEPT ![p] = "exists"]
    /\ at' = [at EXCEPT ![p] = 1]
    /\ warned' = [warned EXCEPT ![p] = FALSE]
    /\ UNCHANGED <<cluster, scanned, faults>>

LegacyDone(p) ==
    /\ pc[p] = "exists"
    /\ at[p] > Len(LegacyNames)
    /\ pc' = [pc EXCEPT ![p] = IF BackfillNames = <<>> THEN "up" ELSE "connect"]
    /\ UNCHANGED <<cluster, at, scanned, warned, faults>>

CheckExists(p) ==
    /\ pc[p] = "exists"
    /\ at[p] <= Len(LegacyNames)
    /\ IF kind[Original(Legacy(p))] = "absent"
         THEN NextName(p) /\ UNCHANGED warned
         ELSE Goto(p, "type")
    /\ UNCHANGED <<cluster, scanned, faults>>

Mutant_StopAtOther(p) ==
    /\ pc[p] = "type"
    /\ Goto(p, IF kind[Original(Legacy(p))] = "long" THEN "leftover" ELSE "connect")
    /\ UNCHANGED <<cluster, scanned, faults>>

(***************************************************************************)
(* _legacy_fo_field_type(): only long is migrated.                         *)
(***************************************************************************)
CheckType(p) ==
    /\ pc[p] = "type"
    /\ LET k == kind[Original(Legacy(p))]
       IN CASE k = "absent" -> Warn(p)
            [] k = "long" -> Goto(p, "leftover")
            [] OTHER -> NextName(p) /\ UNCHANGED warned
    /\ UNCHANGED <<cluster, scanned, faults>>

Mutant_KeepLeftover(p) ==
    /\ pc[p] = "leftover"
    /\ Goto(p, "create")
    /\ UNCHANGED <<cluster, scanned, faults>>

CheckLeftover(p) ==
    /\ pc[p] = "leftover"
    /\ Goto(p, IF kind[NewIndex(Legacy(p))] = "absent" THEN "create" ELSE "discard")
    /\ UNCHANGED <<cluster, scanned, faults>>

Discard(p) ==
    /\ pc[p] = "discard"
    /\ LET i == NewIndex(Legacy(p))
       IN IF kind[i] = "absent"
            THEN Refused(p)
            ELSE /\ DeleteIndex(i)
                 /\ AnsweredOrNot(p, "create")
                 /\ UNCHANGED scanned

Mutant_MapLater(p) ==
    /\ pc[p] = "create"
    /\ kind[NewIndex(Legacy(p))] = "absent"
    /\ kind' = [kind EXCEPT ![NewIndex(Legacy(p))] = "bare"]
    /\ AnsweredOrNot(p, "scan")
    /\ UNCHANGED <<docs, combined, fresh, tasks, scanned>>

Create(p) ==
    /\ pc[p] = "create"
    /\ LET i == NewIndex(Legacy(p))
       IN IF kind[i] # "absent"
            THEN Refused(p)
            ELSE /\ kind' = [kind EXCEPT ![i] = "bare"]
                 /\ AnsweredOrNot(p, "mapping")
                 /\ UNCHANGED <<docs, combined, fresh, tasks, scanned>>

PutMapping(p) ==
    /\ pc[p] = "mapping"
    /\ LET i == NewIndex(Legacy(p))
       IN IF kind[i] = "absent"
            THEN Refused(p)
            ELSE /\ kind' = [kind EXCEPT ![i] = "text"]
                 /\ AnsweredOrNot(p, "scan")
                 /\ UNCHANGED <<docs, combined, fresh, tasks, scanned>>

(***************************************************************************)
(* reindex() reads the original once, as of its last refresh, and writes   *)
(* what it read; each document keeps its id.                               *)
(***************************************************************************)
Scan(p) ==
    /\ pc[p] = "scan"
    /\ LET i == Original(Legacy(p))
       IN IF kind[i] = "absent"
            THEN Refused(p)
            ELSE /\ scanned' = [scanned EXCEPT ![p] =
                        {<<d, d \in combined[i] /\ <<i, d>> \notin fresh>> : d \in docs[i]}]
                 /\ Goto(p, "copy")
                 /\ UNCHANGED <<cluster, faults>>

(***************************************************************************)
(* Writing to an index that is not there creates it, without the mapping.  *)
(***************************************************************************)
Copy(p) ==
    /\ pc[p] = "copy"
    /\ \E s \in scanned[p] :
          LET i == NewIndex(Legacy(p))
          IN /\ scanned' = [scanned EXCEPT ![p] = @ \ {s}]
             /\ kind' = [kind EXCEPT ![i] = IF @ = "absent" THEN "bare" ELSE @]
             /\ docs' = [docs EXCEPT ![i] = @ \cup {s[1]}]
             /\ combined' = [combined EXCEPT ![i] =
                                IF s[2] THEN @ \cup {s[1]} ELSE @ \ {s[1]}]
             /\ fresh' = fresh \cup {<<i, s[1]>>}
    /\ UNCHANGED <<tasks, pc, at, warned, faults>>

Mutant_FirstChunkOnly(p) ==
    /\ pc[p] = "copy"
    /\ Goto(p, "delete")
    /\ UNCHANGED <<cluster, scanned, faults>>

CopyDone(p) ==
    /\ pc[p] = "copy"
    /\ scanned[p] = {}
    /\ Goto(p, "delete")
    /\ UNCHANGED <<cluster, scanned, faults>>

DeleteOriginal(p) ==
    /\ pc[p] = "delete"
    /\ LET i == Original(Legacy(p))
       IN IF kind[i] = "absent"
            THEN Refused(p)
            ELSE /\ DeleteIndex(i)
                 /\ \/ NextName(p) /\ UNCHANGED <<warned, faults>>
                    \/ faults < MaxFaults /\ faults' = faults + 1 /\ Warn(p)
                 /\ UNCHANGED scanned

----------------------------------------------------------------------------
(***************************************************************************)
(* The backfill.  A search sees what the last refresh made visible.        *)
(***************************************************************************)
Lacking(n) ==
    {w \in Indexes \X Docs :
        /\ w[1] \in Pattern(n)
        /\ w[2] \in docs[w[1]] \ combined[w[1]]
        /\ w \notin fresh}

Connect(p) ==
    /\ pc[p] = "connect"
    /\ pc' = [pc EXCEPT ![p] = "count"]
    /\ at' = [at EXCEPT ![p] = 1]
    /\ UNCHANGED <<cluster, scanned, warned, faults>>

BackfillDone(p) ==
    /\ pc[p] = "count"
    /\ at[p] > Len(BackfillNames)
    /\ Goto(p, "up")
    /\ UNCHANGED <<cluster, scanned, faults>>

Count(p) ==
    /\ pc[p] = "count"
    /\ at[p] <= Len(BackfillNames)
    /\ IF Lacking(Backfill(p)) = {}
         THEN NextName(p) /\ UNCHANGED warned
         ELSE Goto(p, "submit")
    /\ UNCHANGED <<cluster, scanned, faults>>

Submit(p) ==
    /\ pc[p] = "submit"
    /\ tasks' = tasks \cup Lacking(Backfill(p))
    /\ \/ NextName(p) /\ UNCHANGED <<warned, faults>>
       \/ faults < MaxFaults /\ faults' = faults + 1 /\ Warn(p)
    /\ UNCHANGED <<kind, docs, combined, fresh, scanned>>

----------------------------------------------------------------------------
(***************************************************************************)
(* The cluster: a background task sets the fields a document lacks, or     *)
(* drops it (conflicts="proceed", a failing shard, a cancelled task); a    *)
(* refresh makes writes visible.                                           *)
(***************************************************************************)
TaskStep ==
    \E t \in tasks :
        /\ tasks' = tasks \ {t}
        /\ combined' = [combined EXCEPT ![t[1]] = @ \cup ({t[2]} \cap docs[t[1]])]
        /\ fresh' = fresh \cup {t}
        /\ UNCHANGED <<kind, docs, pc, at, scanned, warned, faults>>

TaskDrop ==
    /\ faults < MaxFaults
    /\ faults' = faults + 1
    /\ \E t \in tasks : tasks' = tasks \ {t}
    /\ UNCHANGED <<kind, docs, combined, fresh, pc, at, scanned, warned>>

Refresh ==
    /\ fresh # {}
    /\ fresh' = {}
    /\ UNCHANGED <<kind, docs, combined, tasks, pc, at, scanned, warned, faults>>

(***************************************************************************)
(* A call fails without an effect; a process dies.                         *)
(***************************************************************************)
CallFails(p) ==
    /\ pc[p] \in Calls
    /\ pc[p] = "exists" => at[p] <= Len(LegacyNames)
    /\ pc[p] = "count" => at[p] <= Len(BackfillNames)
    /\ faults < MaxFaults
    /\ faults' = faults + 1
    /\ Warn(p)
    /\ scanned' = [scanned EXCEPT ![p] = {}]
    /\ UNCHANGED cluster

Crash(p) ==
    /\ pc[p] # "down"
    /\ faults < MaxFaults
    /\ faults' = faults + 1
    /\ pc' = [pc EXCEPT ![p] = "down"]
    /\ scanned' = [scanned EXCEPT ![p] = {}]
    /\ UNCHANGED <<cluster, at, warned>>

LegacyStep(p) ==
    \/ CheckExists(p)
    \/ CheckType(p)
    \/ CheckLeftover(p)
    \/ Discard(p)
    \/ Create(p)
    \/ PutMapping(p)
    \/ Scan(p)
    \/ Copy(p)
    \/ CopyDone(p)
    \/ DeleteOriginal(p)

BackfillStep(p) ==
    \/ LegacyDone(p)
    \/ Connect(p)
    \/ Count(p)
    \/ Submit(p)
    \/ BackfillDone(p)

Next ==
    \/ \E p \in Processes :
          \/ Start(p)
          \/ LegacyStep(p)
          \/ BackfillStep(p)
          \/ CallFails(p)
          \/ Crash(p)
    \/ TaskStep
    \/ TaskDrop
    \/ Refresh

Spec == Init /\ [][Next]_vars

(***************************************************************************)
(* systemd restarts the service, and every reload runs the function again; *)
(* the function and the cluster's own work go on.                          *)
(***************************************************************************)
Fairness ==
    /\ \A p \in Processes :
          WF_vars(Start(p) \/ LegacyStep(p) \/ BackfillStep(p))
    /\ WF_vars(TaskStep)
    /\ WF_vars(Refresh)

FairSpec == Spec /\ Fairness

----------------------------------------------------------------------------
(***************************************************************************)
(* Every document that was in an index to be migrated is in that index or  *)
(* in its rebuild, whatever fails and whenever the process dies: the       *)
(* comment before the leftover is discarded says that "the original index  *)
(* still holds the data: it is deleted only after the reindex below        *)
(* succeeds".                                                              *)
(***************************************************************************)
NoDocumentLost ==
    \A n \in Names : Held[n] \subseteq docs[Original(n)] \cup docs[NewIndex(n)]

(***************************************************************************)
(* A rebuild never holds a document before it has the text mapping, since  *)
(* the cluster would then map fo from the first document it is given,      *)
(* which is what the migration is there to undo.                           *)
(***************************************************************************)
MappedBeforeFilled ==
    \A n \in Names : docs[NewIndex(n)] # {} => kind[NewIndex(n)] = "text"

(***************************************************************************)
(* A start-up during which no call failed leaves no index with a long fo,  *)
(* and a rebuild that is complete.                                         *)
(***************************************************************************)
QuietStartMigrates ==
    \A p \in Processes :
        pc[p] = "up" /\ ~warned[p] =>
            \A j \in DOMAIN LegacyNames :
                LET n == LegacyNames[j]
                IN /\ kind[Original(n)] # "long"
                   /\ FirstKind[n] = "long" => Held[n] \subseteq docs[NewIndex(n)]

(***************************************************************************)
(* What a failed migration or backfill did not do, a later start does      *)
(* ("This will be retried at the next startup"), for every index that the  *)
(* deployment writes to or has written to.                                 *)
(***************************************************************************)
Migrated ==
    /\ \A n \in Names : kind[Original(n)] # "long"
    /\ \A i \in Indexes : docs[i] = combined[i]

EventuallyMigrated == <>[]Migrated

=============================================================================
