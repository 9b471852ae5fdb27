------------------------ MODULE SearchBackendProofs -------------------------
(***************************************************************************)
(* The search backends at start-up (IndexMigration) and while reports are  *)
(* saved (SearchIndex).                                                    *)
(*                                                                         *)
(* With one process at a time, no migration loses a document, for every    *)
(* set of indexes and documents and every pattern of failing calls.        *)
(*                                                                         *)
(* For every set of reports, deployments and tenants and any number of     *)
(* saves and failing calls: every document is what the save function makes *)
(* of a record of its report, so that the query of that report finds it,   *)
(* whichever deployment saved it, and another query only if the reports    *)
(* look alike; and a report with a document is whole, unless it is the one *)
(* at work or a save of it broke off.                                      *)
(***************************************************************************)
EXTENDS IndexMigration, SearchIndex, SequenceTheorems, TLAPS

-----------------------------------------------------------------------------
(***************************************************************************)
(* The assumption without which NoDocumentLost is false.                   *)
(***************************************************************************)
OneProcess == \A p, q \in Processes : p = q

(***************************************************************************)
(* Calls that are reached for an index with a long fo only.                *)
(***************************************************************************)
RebuildCalls ==
    {"leftover", "discard", "create", "mapping", "scan", "copy", "delete"}

(***************************************************************************)
(* The original is as it was or gone, and gone only with a full rebuild.   *)
(***************************************************************************)
Kept(n) ==
    /\ kind[Original(n)] \in {FirstKind[n], "absent"}
    /\ docs[Original(n)] = IF kind[Original(n)] = "absent" THEN {} ELSE Held[n]
    /\ kind[Original(n)] = "absent" => Held[n] \subseteq docs[NewIndex(n)]
    /\ docs[NewIndex(n)] # {} => kind[NewIndex(n)] = "text"

(***************************************************************************)
(* How far the rebuild of the name that p works on has come.               *)
(***************************************************************************)
Underway(p) ==
    /\ pc[p] \in RebuildCalls \cup {"type"} => at[p] <= Len(LegacyNames)
    /\ pc[p] \in RebuildCalls => kind[Original(Legacy(p))] = "long"
    /\ pc[p] \in {"scan", "copy"} => kind[NewIndex(Legacy(p))] = "text"
    /\ pc[p] = "copy" =>
          \A d \in Held[Legacy(p)] :
             d \in docs[NewIndex(Legacy(p))] \/ \E s \in scanned[p] : s[1] = d
    /\ pc[p] = "delete" => Held[Legacy(p)] \subseteq docs[NewIndex(Legacy(p))]

(***************************************************************************)
(* Without a warning, the names that the loop has passed are not long.     *)
(***************************************************************************)
Passed(p) ==
    ~warned[p] =>
        \A j \in 1..Len(LegacyNames) :
            \/ pc[p] \in BackfillCalls \cup {"up"}
            \/ pc[p] \in LegacyCalls /\ j < at[p]
            => kind[Original(LegacyNames[j])] # "long"

IInv ==
    /\ TypeOK
    /\ \A n \in Names : Kept(n)
    /\ \A p \in Processes : Underway(p) /\ Passed(p)

----------------------------------------------------------------------------
(***************************************************************************)
(* The indexes of different names and roles are different.                 *)
(***************************************************************************)
LEMMA IndexNames ==
    ASSUME NEW n \in Names, NEW m \in Names
    PROVE  /\ Original(n) \in Indexes
           /\ NewIndex(n) \in Indexes
           /\ Original(n) # NewIndex(m)
           /\ Original(n) = Original(m) => n = m
           /\ NewIndex(n) = NewIndex(m) => n = m
BY DEF Original, NewIndex, Indexes

LEMMA InitIInv == Init => IInv
<1> SUFFICES ASSUME Init PROVE IInv
  OBVIOUS
<1> USE DEF Init
<1>1. TypeOK
  <2>1. kind \in [Indexes -> IndexKinds]
    BY DocsAssumption DEF Indexes, IndexKinds
  <2>2. docs \in [Indexes -> SUBSET Docs]
    BY DocsAssumption DEF Indexes
  <2>3. combined \in [Indexes -> SUBSET Docs]
    BY <2>2
  <2>4. fresh = {} /\ tasks = {} /\ faults \in 0..MaxFaults
    BY FaultsAssumption
  <2>5. at \in [Processes -> Nat \ {0}]
    OBVIOUS
  <2>6. pc \in [Processes -> Calls \cup {"down", "up"}]
    BY DEF Calls
  <2>7. warned \in [Processes -> BOOLEAN]
    OBVIOUS
  <2>8. scanned \in [Processes -> SUBSET (Docs \X BOOLEAN)]
    OBVIOUS
  <2>9. QED
    BY <2>1, <2>2, <2>3, <2>4, <2>5, <2>6, <2>7, <2>8 DEF TypeOK
<1>2. ASSUME NEW n \in Names PROVE Kept(n)
  <2>1. kind[Original(n)] = FirstKind[n] /\ docs[Original(n)] = Held[n]
    BY IndexNames DEF Original
  <2>2. docs[NewIndex(n)] = {}
    BY IndexNames DEF NewIndex
  <2>3. QED
    BY <2>1, <2>2, DocsAssumption DEF Kept
<1>3. ASSUME NEW p \in Processes PROVE Underway(p) /\ Passed(p)
  BY DEF Underway, Passed, RebuildCalls, BackfillCalls, LegacyCalls
<1>4. QED
  BY <1>1, <1>2, <1>3 DEF IInv

----------------------------------------------------------------------------
(***************************************************************************)
(* Types.  The place of a process in the loops, and the cluster.           *)
(***************************************************************************)
LoopType ==
    /\ pc \in [Processes -> Calls \cup {"down", "up"}]
    /\ at \in [Processes -> Nat \ {0}]
    /\ warned \in [Processes -> BOOLEAN]

ClusterType ==
    /\ kind \in [Indexes -> IndexKinds]
    /\ docs \in [Indexes -> SUBSET Docs]
    /\ combined \in [Indexes -> SUBSET Docs]
    /\ fresh \subseteq Indexes \X Docs
    /\ tasks \subseteq Indexes \X Docs

LEMMA TypeParts ==
    TypeOK <=> /\ LoopType /\ ClusterType
               /\ scanned \in [Processes -> SUBSET (Docs \X BOOLEAN)]
               /\ faults \in 0..MaxFaults
BY DEF TypeOK, LoopType, ClusterType

LEMMA GotoType ==
    ASSUME LoopType, NEW p \in Processes, NEW call \in Calls \cup {"up"}, Goto(p, call)
    PROVE  LoopType'
BY DEF LoopType, Goto

LEMMA NextNameType ==
    ASSUME LoopType, NEW p \in Processes, NextName(p), warned' \in [Processes -> BOOLEAN]
    PROVE  LoopType'
<1>1. at[p] + 1 \in Nat \ {0}
  BY DEF LoopType
<1>2. at' \in [Processes -> Nat \ {0}]
  BY <1>1 DEF NextName, LoopType
<1>3. pc' \in [Processes -> Calls \cup {"down", "up"}]
  BY DEF NextName, LoopType, Calls, LegacyCalls, BackfillCalls
<1>4. QED
  BY <1>2, <1>3 DEF LoopType

LEMMA WarnType ==
    ASSUME LoopType, NEW p \in Processes, Warn(p)
    PROVE  LoopType'
<1>1. warned' \in [Processes -> BOOLEAN]
  BY DEF Warn, LoopType
<1>2. CASE pc[p] = "connect"
  BY <1>1, <1>2 DEF Warn, LoopType
<1>3. CASE pc[p] # "connect"
  BY <1>1, <1>3, NextNameType DEF Warn
<1>4. QED
  BY <1>2, <1>3

LEMMA AnswerType ==
    ASSUME LoopType, faults \in 0..MaxFaults,
           NEW p \in Processes, NEW call \in Calls, AnsweredOrNot(p, call)
    PROVE  LoopType' /\ faults' \in 0..MaxFaults
BY GotoType, WarnType, FaultsAssumption DEF AnsweredOrNot

LEMMA DeleteType ==
    ASSUME ClusterType, NEW i \in Indexes, DeleteIndex(i)
    PROVE  ClusterType'
BY DEF ClusterType, DeleteIndex, IndexKinds

(***************************************************************************)
(* A process that rebuilds an index works on one of the legacy names.      *)
(***************************************************************************)
LEMMA LegacyIsName ==
    ASSUME IInv, NEW p \in Processes,
           \/ pc[p] \in RebuildCalls \cup {"type"}
           \/ at[p] <= Len(LegacyNames)
    PROVE  /\ Legacy(p) \in Names
           /\ Original(Legacy(p)) \in Indexes
           /\ NewIndex(Legacy(p)) \in Indexes
<1>1. at[p] \in Nat \ {0} /\ at[p] <= Len(LegacyNames)
  BY DEF IInv, TypeOK, Underway
<1>2. Legacy(p) \in Names
  BY <1>1, NamesAssumption DEF Legacy
<1>3. QED
  BY <1>2, IndexNames

LEMMA StepType == IInv /\ [Next]_vars => TypeOK'
<1> SUFFICES ASSUME IInv, [Next]_vars PROVE TypeOK'
  OBVIOUS
<1> TypeOK
  BY DEF IInv
<1> DEFINE Rest == /\ scanned \in [Processes -> SUBSET (Docs \X BOOLEAN)]
                   /\ faults \in 0..MaxFaults
<1>0. LoopType /\ ClusterType /\ Rest
  BY TypeParts
<1>p. LoopType' /\ ClusterType' /\ Rest' => TypeOK'
  BY DEF TypeOK, LoopType, ClusterType
<1>a. UNCHANGED cluster => ClusterType'
  BY <1>0 DEF cluster, ClusterType
<1>b. UNCHANGED <<scanned, faults>> => Rest'
  BY <1>0
<1>c. UNCHANGED <<pc, at, warned>> => LoopType'
  BY <1>0 DEF LoopType
<1> HIDE DEF Rest
<1>d. ASSUME NEW p \in Processes, Refused(p) PROVE TypeOK'
  BY <1>0, <1>a, <1>b, <1>d, <1>p, WarnType DEF Refused
<1>1. CASE UNCHANGED vars
  BY <1>1, <1>a, <1>b, <1>c, <1>p DEF vars, cluster
<1>2. ASSUME NEW p \in Processes, Start(p) PROVE TypeOK'
  <2>1. LoopType'
    BY <1>0, <1>2 DEF Start, LoopType, Calls, LegacyCalls
  <2>2. QED
    BY <1>2, <2>1, <1>a, <1>b, <1>p DEF Start
<1>3. ASSUME NEW p \in Processes, LegacyDone(p) PROVE TypeOK'
  <2>1. LoopType'
    BY <1>0, <1>3 DEF LegacyDone, LoopType, Calls, BackfillCalls
  <2>2. QED
    BY <1>3, <2>1, <1>a, <1>b, <1>p DEF LegacyDone
<1>n. ASSUME NEW p \in Processes, NextName(p), UNCHANGED warned PROVE LoopType'
  BY <1>0, <1>n, NextNameType DEF LoopType
<1>4. ASSUME NEW p \in Processes, CheckExists(p) PROVE TypeOK'
  <2>1. LoopType'
    BY <1>0, <1>4, <1>n, GotoType DEF CheckExists, Calls, LegacyCalls
  <2>2. QED
    BY <1>4, <2>1, <1>a, <1>b, <1>p DEF CheckExists
<1>5. ASSUME NEW p \in Processes, CheckType(p) PROVE TypeOK'
  <2>1. Warn(p) => LoopType'
    BY <1>0, WarnType
  <2>2. Goto(p, "leftover") => LoopType'
    BY <1>0, GotoType DEF Calls, LegacyCalls
  <2>3. NextName(p) /\ UNCHANGED warned => LoopType'
    BY <1>n
  <2>4. LoopType'
    BY <1>5, <2>1, <2>2, <2>3 DEF CheckType
  <2>5. QED
    BY <1>5, <2>4, <1>a, <1>b, <1>p DEF CheckType
<1>6. ASSUME NEW p \in Processes, CheckLeftover(p) PROVE TypeOK'
  <2>1. LoopType'
    BY <1>0, <1>6, GotoType DEF CheckLeftover, Calls, LegacyCalls
  <2>2. QED
    BY <1>6, <2>1, <1>a, <1>b, <1>p DEF CheckLeftover
<1>7. ASSUME NEW p \in Processes, Discard(p) PROVE TypeOK'
  <2> DEFINE i == NewIndex(Legacy(p))
  <2>1. i \in Indexes
    BY <1>7, LegacyIsName DEF Discard, RebuildCalls
  <2>2. CASE DeleteIndex(i) /\ AnsweredOrNot(p, "create") /\ UNCHANGED scanned
    <3>1. ClusterType'
      BY <1>0, <2>1, <2>2, DeleteType
    <3>2. LoopType' /\ faults' \in 0..MaxFaults
      BY <1>0, <2>2, AnswerType DEF Rest, Calls, LegacyCalls
    <3>3. QED
      BY <1>0, <2>2, <3>1, <3>2, <1>p DEF Rest
  <2>3. QED
    BY <1>7, <2>2, <1>d DEF Discard
<1>8. ASSUME NEW p \in Processes, NEW k \in IndexKinds, NEW i, NEW call \in Calls,
             kind' = [kind EXCEPT ![i] = k], AnsweredOrNot(p, call),
             UNCHANGED <<docs, combined, fresh, tasks, scanned>>
      PROVE  TypeOK'
  <2>1. ClusterType'
    BY <1>0, <1>8 DEF ClusterType
  <2>2. LoopType' /\ faults' \in 0..MaxFaults
    BY <1>0, <1>8, AnswerType DEF Rest
  <2>3. QED
    BY <1>0, <1>8, <2>1, <2>2, <1>p DEF Rest
<1>9. ASSUME NEW p \in Processes, Create(p) PROVE TypeOK'
  BY <1>9, <1>8, <1>d DEF Create, IndexKinds, Calls, LegacyCalls
<1>10. ASSUME NEW p \in Processes, PutMapping(p) PROVE TypeOK'
  BY <1>10, <1>8, <1>d DEF PutMapping, IndexKinds, Calls, LegacyCalls
<1>11. ASSUME NEW p \in Processes, Scan(p) PROVE TypeOK'
  <2> DEFINE i == Original(Legacy(p))
             found == {<<d, d \in combined[i] /\ <<i, d>> \notin fresh>> : d \in docs[i]}
  <2>1. i \in Indexes
    BY <1>11, LegacyIsName DEF Scan, RebuildCalls
  <2>2. docs[i] \subseteq Docs
    BY <1>0, <2>1 DEF ClusterType
  <2>3. ASSUME NEW d \in docs[i]
        PROVE  <<d, d \in combined[i] /\ <<i, d>> \notin fresh>> \in Docs \X BOOLEAN
    <3>1. (d \in combined[i] /\ <<i, d>> \notin fresh) \in BOOLEAN
      BY Zenon
    <3>2. d \in Docs
      BY <2>2
    <3>3. QED
      BY <3>1, <3>2, Zenon
  <2>4. found \subseteq Docs \X BOOLEAN
    BY <2>3, Zenon
  <2>5. CASE kind[i] # "absent"
    <3>1. LoopType'
      BY <1>0, <1>11, <2>5, GotoType DEF Scan, Calls, LegacyCalls
    <3>2. scanned' = [scanned EXCEPT ![p] = found] /\ UNCHANGED <<cluster, faults>>
      BY <1>11, <2>5 DEF Scan
    <3>3. Rest'
      BY <1>0, <2>4, <3>2 DEF Rest
    <3>4. QED
      BY <3>1, <3>2, <3>3, <1>a, <1>p
  <2>6. QED
    BY <1>11, <2>5, <1>d DEF Scan
<1>12. ASSUME NEW p \in Processes, Copy(p) PROVE TypeOK'
  <2> DEFINE i == NewIndex(Legacy(p))
  <2>1. i \in Indexes
    BY <1>12, LegacyIsName DEF Copy, RebuildCalls
  <2>2. PICK s \in scanned[p] :
          /\ scanned' = [scanned EXCEPT ![p] = @ \ {s}]
          /\ kind' = [kind EXCEPT ![i] = IF @ = "absent" THEN "bare" ELSE @]
          /\ docs' = [docs EXCEPT ![i] = @ \cup {s[1]}]
          /\ combined' = [combined EXCEPT ![i] =
                             IF s[2] THEN @ \cup {s[1]} ELSE @ \ {s[1]}]
          /\ fresh' = fresh \cup {<<i, s[1]>>}
    BY <1>12 DEF Copy
  <2>3. s[1] \in Docs
    BY <1>0 DEF Rest
  <2>4. kind' \in [Indexes -> IndexKinds]
    BY <1>0, <2>1, <2>2 DEF ClusterType, IndexKinds
  <2>5. docs' \in [Indexes -> SUBSET Docs]
    BY <1>0, <2>1, <2>2, <2>3 DEF ClusterType
  <2>6. combined' \in [Indexes -> SUBSET Docs]
    BY <1>0, <2>1, <2>2, <2>3 DEF ClusterType
  <2>7. fresh' \subseteq Indexes \X Docs /\ tasks' \subseteq Indexes \X Docs
    BY <1>0, <1>12, <2>1, <2>2, <2>3 DEF ClusterType, Copy
  <2>8. Rest'
    BY <1>0, <1>12, <2>2 DEF Rest, Copy
  <2>9. LoopType'
    BY <1>12, <1>c DEF Copy
  <2>10. QED
    BY <2>4, <2>5, <2>6, <2>7, <2>8, <2>9, <1>p DEF ClusterType
<1>13. ASSUME NEW p \in Processes, CopyDone(p) PROVE TypeOK'
  <2>1. LoopType'
    BY <1>0, <1>13, GotoType DEF CopyDone, Calls, LegacyCalls
  <2>2. QED
    BY <1>13, <2>1, <1>a, <1>b, <1>p DEF CopyDone
<1>14. ASSUME NEW p \in Processes, DeleteOriginal(p) PROVE TypeOK'
  <2> DEFINE i == Original(Legacy(p))
  <2>1. i \in Indexes
    BY <1>14, LegacyIsName DEF DeleteOriginal, RebuildCalls
  <2>2. CASE kind[i] # "absent"
    <3>1. ClusterType'
      BY <1>0, <1>14, <2>1, <2>2, DeleteType DEF DeleteOriginal
    <3>2. Warn(p) => LoopType'
      BY <1>0, WarnType
    <3>3. LoopType'
      BY <1>14, <2>2, <3>2, <1>n DEF DeleteOriginal
    <3>4. Rest'
      BY <1>0, <1>14, <2>2, FaultsAssumption DEF Rest, DeleteOriginal
    <3>5. QED
      BY <3>1, <3>3, <3>4, <1>p
  <2>3. QED
    BY <1>14, <2>2, <1>d DEF DeleteOriginal
<1>15. ASSUME NEW p \in Processes, Connect(p) PROVE TypeOK'
  <2>1. LoopType'
    BY <1>0, <1>15 DEF Connect, LoopType, Calls, BackfillCalls
  <2>2. QED
    BY <1>15, <2>1, <1>a, <1>b, <1>p DEF Connect
<1>16. ASSUME NEW p \in Processes, BackfillDone(p) PROVE TypeOK'
  <2>1. LoopType'
    BY <1>0, <1>16, GotoType DEF BackfillDone
  <2>2. QED
    BY <1>16, <2>1, <1>a, <1>b, <1>p DEF BackfillDone
<1>17. ASSUME NEW p \in Processes, Count(p) PROVE TypeOK'
  <2>1. LoopType'
    BY <1>0, <1>17, <1>n, GotoType DEF Count, Calls, BackfillCalls
  <2>2. QED
    BY <1>17, <2>1, <1>a, <1>b, <1>p DEF Count
<1>18. ASSUME NEW p \in Processes, Submit(p) PROVE TypeOK'
  <2>1. Lacking(Backfill(p)) \subseteq Indexes \X Docs
    BY DEF Lacking
  <2>2. ClusterType'
    BY <1>0, <1>18, <2>1 DEF Submit, ClusterType
  <2>3. Warn(p) => LoopType'
    BY <1>0, WarnType
  <2>4. LoopType'
    BY <1>18, <2>3, <1>n DEF Submit
  <2>5. Rest'
    BY <1>0, <1>18, FaultsAssumption DEF Submit, Rest
  <2>6. QED
    BY <2>2, <2>4, <2>5, <1>p
<1>19. CASE TaskStep
  <2>1. PICK t \in tasks :
          /\ tasks' = tasks \ {t}
          /\ combined' = [combined EXCEPT ![t[1]] = @ \cup ({t[2]} \cap docs[t[1]])]
          /\ fresh' = fresh \cup {t}
          /\ UNCHANGED <<kind, docs, pc, at, scanned, warned, faults>>
    BY <1>19 DEF TaskStep
  <2>2. t \in Indexes \X Docs
    BY <1>0 DEF ClusterType
  <2>3. t[1] \in Indexes /\ t[2] \in Docs
    BY <2>2
  <2>4. combined' \in [Indexes -> SUBSET Docs]
    BY <1>0, <2>1, <2>3 DEF ClusterType
  <2>5. ClusterType'
    BY <1>0, <2>1, <2>2, <2>4 DEF ClusterType
  <2>6. QED
    BY <2>1, <2>5, <1>b, <1>c, <1>p
<1>20. CASE TaskDrop
  <2>1. ClusterType'
    BY <1>0, <1>20 DEF TaskDrop, ClusterType
  <2>2. Rest'
    BY <1>0, <1>20, FaultsAssumption DEF TaskDrop, Rest
  <2>3. QED
    BY <1>20, <2>1, <2>2, <1>c, <1>p DEF TaskDrop
<1>21. CASE Refresh
  <2>1. ClusterType'
    BY <1>0, <1>21 DEF Refresh, ClusterType
  <2>2. QED
    BY <1>21, <2>1, <1>b, <1>c, <1>p DEF Refresh
<1>22. ASSUME NEW p \in Processes, CallFails(p) PROVE TypeOK'
  <2>1. LoopType'
    BY <1>0, <1>22, WarnType DEF CallFails
  <2>2. Rest'
    BY <1>0, <1>22, FaultsAssumption DEF CallFails, Rest
  <2>3. QED
    BY <1>22, <2>1, <2>2, <1>a, <1>p DEF CallFails
<1>23. ASSUME NEW p \in Processes, Crash(p) PROVE TypeOK'
  <2>1. LoopType'
    BY <1>0, <1>23 DEF Crash, LoopType
  <2>2. Rest'
    BY <1>0, <1>23, FaultsAssumption DEF Crash, Rest
  <2>3. QED
    BY <1>23, <2>1, <2>2, <1>a, <1>p DEF Crash
<1>24. QED
  BY <1>1, <1>2, <1>3, <1>4, <1>5, <1>6, <1>7, <1>9, <1>10, <1>11, <1>12, <1>13,
     <1>14, <1>15, <1>16, <1>17, <1>18, <1>19, <1>20, <1>21, <1>22, <1>23
  DEF Next, LegacyStep, BackfillStep

----------------------------------------------------------------------------
(***************************************************************************)
(* Moving through the loops.  Here and below, p is the one process.        *)
(***************************************************************************)
OnlyFewerLong ==
    \A n \in Names : kind'[Original(n)] = "long" => kind[Original(n)] = "long"

LEMMA WarnSafe ==
    ASSUME TypeOK, NEW p \in Processes, Warn(p)
    PROVE  Underway(p)' /\ Passed(p)'
<1>1. warned'[p] = TRUE
  BY DEF Warn, TypeOK
<1>2. pc'[p] \in {"exists", "count", "up"}
  BY DEF Warn, NextName, TypeOK
<1>3. QED
  BY <1>1, <1>2 DEF Underway, Passed, RebuildCalls

LEMMA NextNameSafe ==
    ASSUME TypeOK, NEW p \in Processes, Passed(p), pc[p] \in Calls, OnlyFewerLong,
           NextName(p), UNCHANGED warned,
           pc[p] \in LegacyCalls =>
              at[p] <= Len(LegacyNames) /\ kind'[Original(Legacy(p))] # "long"
    PROVE  Underway(p)' /\ Passed(p)'
<1>1. /\ at[p] \in Nat \ {0} /\ at'[p] = at[p] + 1
      /\ pc'[p] = IF pc[p] \in LegacyCalls THEN "exists" ELSE "count"
  BY DEF NextName, TypeOK
<1>2. Underway(p)'
  BY <1>1 DEF Underway, RebuildCalls
<1>3. ASSUME NEW j \in 1..Len(LegacyNames), ~warned[p],
             \/ pc'[p] \in BackfillCalls \cup {"up"}
             \/ pc'[p] \in LegacyCalls /\ j < at'[p]
      PROVE  kind'[Original(LegacyNames[j])] # "long"
  <2>1. LegacyNames[j] \in Names
    BY NamesAssumption
  <2>2. CASE pc[p] \in LegacyCalls
    <3>1. j < at[p] \/ j = at[p]
      BY <1>1, <1>3, <2>2 DEF BackfillCalls
    <3>2. QED
      BY <1>3, <2>1, <2>2, <3>1 DEF Passed, OnlyFewerLong, Legacy
  <2>3. CASE pc[p] \notin LegacyCalls
    BY <1>3, <2>1, <2>3 DEF Passed, OnlyFewerLong, Calls
  <2>4. QED
    BY <2>2, <2>3
<1>4. QED
  BY <1>2, <1>3 DEF Passed

LEMMA GotoSafe ==
    ASSUME TypeOK, NEW p \in Processes, Passed(p), OnlyFewerLong,
           NEW call \in Calls \cup {"up"}, Goto(p, call),
           \/ pc[p] \in LegacyCalls /\ call \in LegacyCalls
           \/ pc[p] \in BackfillCalls
    PROVE  /\ pc'[p] = call /\ at'[p] = at[p] /\ Legacy(p)' = Legacy(p)
           /\ Passed(p)'
<1>1. pc'[p] = call /\ at' = at /\ warned' = warned
  BY DEF Goto, TypeOK
<1>2. Legacy(p)' = Legacy(p)
  BY <1>1 DEF Legacy
<1>3. ASSUME NEW j \in 1..Len(LegacyNames), ~warned[p],
             \/ pc'[p] \in BackfillCalls \cup {"up"}
             \/ pc'[p] \in LegacyCalls /\ j < at'[p]
      PROVE  kind'[Original(LegacyNames[j])] # "long"
  <2>1. LegacyNames[j] \in Names
    BY NamesAssumption
  <2>2. \/ pc[p] \in BackfillCalls \cup {"up"}
        \/ pc[p] \in LegacyCalls /\ j < at[p]
    BY <1>1, <1>3 DEF LegacyCalls, BackfillCalls
  <2>3. QED
    BY <1>3, <2>1, <2>2 DEF Passed, OnlyFewerLong
<1>4. QED
  BY <1>1, <1>2, <1>3 DEF Passed

(***************************************************************************)
(* A name is kept by a step that touches neither of its indexes, and by    *)
(* one that discards, creates or fills the rebuild of an original that is  *)
(* there.                                                                  *)
(***************************************************************************)
LEMMA KeptFrame ==
    ASSUME NEW n \in Names, Kept(n),
           kind'[Original(n)] = kind[Original(n)],
           docs'[Original(n)] = docs[Original(n)],
           \/ /\ kind'[NewIndex(n)] = kind[NewIndex(n)]
              /\ docs'[NewIndex(n)] = docs[NewIndex(n)]
           \/ /\ kind[Original(n)] # "absent"
              /\ docs'[NewIndex(n)] # {} => kind'[NewIndex(n)] = "text"
    PROVE  Kept(n)'
BY DEF Kept

LEMMA StepKept ==
    ASSUME OneProcess, IInv, [Next]_vars
    PROVE  /\ \A n \in Names : Kept(n)'
           /\ \A p \in Processes : Underway(p)' /\ Passed(p)'
<1> DEFINE Goal == /\ \A n \in Names : Kept(n)'
                   /\ \A p \in Processes : Underway(p)' /\ Passed(p)'
<1> SUFFICES Goal
  OBVIOUS
<1> TypeOK /\ \A n \in Names : Kept(n)
  BY DEF IInv
<1>a. ASSUME UNCHANGED <<kind, docs>>
      PROVE  OnlyFewerLong /\ \A n \in Names : Kept(n)'
  BY <1>a DEF Kept, OnlyFewerLong
<1>b. ASSUME NEW p \in Processes, \A n \in Names : Kept(n)', Underway(p)' /\ Passed(p)'
      PROVE  Goal
  BY <1>b DEF OneProcess
<1> HIDE DEF Goal
<1>c. ASSUME NEW p \in Processes PROVE Underway(p) /\ Passed(p)
  BY DEF IInv
<1>d. ASSUME NEW p \in Processes, Refused(p) PROVE Goal
  BY <1>a, <1>b, <1>d, WarnSafe DEF Refused, cluster
<1>1. CASE UNCHANGED vars
  BY <1>1, <1>a, <1>c DEF vars, Goal, Underway, Passed, Legacy
<1>2. ASSUME NEW p \in Processes, Start(p) PROVE Goal
  <2>1. pc'[p] = "exists" /\ at'[p] = 1
    BY <1>2 DEF Start, TypeOK
  <2>2. Underway(p)' /\ Passed(p)'
    BY <2>1 DEF Underway, Passed, RebuildCalls, BackfillCalls
  <2>3. QED
    BY <1>2, <2>2, <1>a, <1>b DEF Start, cluster
<1>3. ASSUME NEW p \in Processes, LegacyDone(p) PROVE Goal
  <2>1. /\ pc'[p] \in {"up", "connect"} /\ pc[p] = "exists"
        /\ at[p] > Len(LegacyNames) /\ at[p] \in Nat /\ Len(LegacyNames) \in Nat
    BY <1>3, NamesAssumption DEF LegacyDone, TypeOK
  <2>2. Underway(p)'
    BY <2>1 DEF Underway, RebuildCalls
  <2>3. Passed(p)'
    BY <1>3, <1>c, <2>1 DEF Passed, LegacyDone, LegacyCalls, cluster
  <2>4. QED
    BY <1>3, <2>2, <2>3, <1>a, <1>b DEF LegacyDone, cluster
<1>4. ASSUME NEW p \in Processes, CheckExists(p) PROVE Goal
  <2>0. UNCHANGED <<kind, docs>> /\ pc[p] = "exists" /\ at[p] <= Len(LegacyNames)
    BY <1>4 DEF CheckExists, cluster
  <2>1. OnlyFewerLong /\ \A n \in Names : Kept(n)'
    BY <2>0, <1>a
  <2>2. CASE kind[Original(Legacy(p))] = "absent"
    <3>1. Underway(p)' /\ Passed(p)'
      BY <1>4, <1>c, <2>0, <2>1, <2>2, NextNameSafe DEF CheckExists, Calls, LegacyCalls
    <3>2. QED
      BY <2>1, <3>1, <1>b
  <2>3. CASE kind[Original(Legacy(p))] # "absent"
    <3>1. Goto(p, "type")
      BY <1>4, <2>3 DEF CheckExists
    <3>2. pc'[p] = "type" /\ at'[p] = at[p] /\ Passed(p)'
      BY <3>1, <1>c, <2>0, <2>1, GotoSafe DEF Calls, LegacyCalls
    <3>3. Underway(p)'
      BY <2>0, <3>2 DEF Underway, RebuildCalls
    <3>4. QED
      BY <2>1, <3>2, <3>3, <1>b
  <2>4. QED
    BY <2>2, <2>3
<1>5. ASSUME NEW p \in Processes, CheckType(p) PROVE Goal
  <2> DEFINE k == kind[Original(Legacy(p))]
  <2>0. UNCHANGED <<kind, docs>> /\ pc[p] = "type" /\ at[p] <= Len(LegacyNames)
    BY <1>5, <1>c DEF CheckType, cluster, Underway
  <2>1. OnlyFewerLong /\ \A n \in Names : Kept(n)'
    BY <2>0, <1>a
  <2>2. CASE k = "absent"
    BY <1>5, <2>1, <2>2, <1>b, WarnSafe DEF CheckType
  <2>3. CASE k = "long"
    <3>1. Goto(p, "leftover")
      BY <1>5, <2>3 DEF CheckType
    <3>2. pc'[p] = "leftover" /\ at'[p] = at[p] /\ Legacy(p)' = Legacy(p) /\ Passed(p)'
      BY <3>1, <1>c, <2>0, <2>1, GotoSafe DEF Calls, LegacyCalls
    <3>3. Underway(p)'
      BY <2>0, <2>3, <3>2 DEF Underway
    <3>4. QED
      BY <2>1, <3>2, <3>3, <1>b
  <2>4. CASE k \notin {"absent", "long"}
    <3>1. NextName(p) /\ UNCHANGED warned
      BY <1>5, <2>4 DEF CheckType
    <3>2. Underway(p)' /\ Passed(p)'
      BY <1>c, <2>0, <2>1, <2>4, <3>1, NextNameSafe DEF Calls, LegacyCalls
    <3>3. QED
      BY <2>1, <3>2, <1>b
  <2>5. QED
    BY <2>2, <2>3, <2>4
<1>6. ASSUME NEW p \in Processes, CheckLeftover(p) PROVE Goal
  <2>0. /\ UNCHANGED <<kind, docs>> /\ pc[p] = "leftover" /\ at[p] <= Len(LegacyNames)
        /\ kind[Original(Legacy(p))] = "long"
    BY <1>6, <1>c DEF CheckLeftover, cluster, Underway, RebuildCalls
  <2>1. OnlyFewerLong /\ \A n \in Names : Kept(n)'
    BY <2>0, <1>a
  <2>2. PICK call \in {"create", "discard"} : Goto(p, call)
    BY <1>6 DEF CheckLeftover
  <2>3. pc'[p] = call /\ at'[p] = at[p] /\ Legacy(p)' = Legacy(p) /\ Passed(p)'
    BY <2>2, <1>c, <2>0, <2>1, GotoSafe DEF Calls, LegacyCalls
  <2>4. Underway(p)'
    BY <2>0, <2>3 DEF Underway
  <2>5. QED
    BY <2>1, <2>3, <2>4, <1>b
(***************************************************************************)
(* The calls that change the rebuild of the name n that p works on.        *)
(***************************************************************************)
<1>r. ASSUME NEW p \in Processes, NEW n, n = Legacy(p), pc[p] \in RebuildCalls
      PROVE  /\ at[p] <= Len(LegacyNames) /\ n \in Names
             /\ Original(n) \in Indexes /\ NewIndex(n) \in Indexes
             /\ kind[Original(n)] = "long"
  BY <1>r, <1>c, LegacyIsName DEF Underway
<1>s. ASSUME NEW p \in Processes, pc[p] \in RebuildCalls,
             \A m \in Names : kind'[Original(m)] = kind[Original(m)],
             \A m \in Names : docs'[Original(m)] = docs[Original(m)],
             \A m \in Names \ {Legacy(p)} : kind'[NewIndex(m)] = kind[NewIndex(m)],
             \A m \in Names \ {Legacy(p)} : docs'[NewIndex(m)] = docs[NewIndex(m)],
             docs'[NewIndex(Legacy(p))] # {} => kind'[NewIndex(Legacy(p))] = "text"
      PROVE  OnlyFewerLong /\ \A m \in Names : Kept(m)'
  <2>1. OnlyFewerLong
    BY <1>s DEF OnlyFewerLong
  <2>2. ASSUME NEW m \in Names PROVE Kept(m)'
    <3>1. CASE m = Legacy(p)
      BY <1>s, <1>r, <3>1, KeptFrame
    <3>2. CASE m # Legacy(p)
      BY <1>s, <3>2, KeptFrame
    <3>3. QED
      BY <3>1, <3>2
  <2>3. QED
    BY <2>1, <2>2
<1>t. ASSUME NEW p \in Processes, NEW call \in {"create", "mapping"},
             pc[p] \in RebuildCalls, AnsweredOrNot(p, call),
             OnlyFewerLong, \A m \in Names : Kept(m)',
             kind'[Original(Legacy(p))] = kind[Original(Legacy(p))]
      PROVE  Goal
  <2>1. CASE Warn(p)
    BY <1>t, <2>1, <1>b, WarnSafe
  <2>2. CASE Goto(p, call)
    <3>1. pc'[p] = call /\ at'[p] = at[p] /\ Legacy(p)' = Legacy(p) /\ Passed(p)'
      BY <1>t, <1>c, <2>2, GotoSafe DEF Calls, LegacyCalls, RebuildCalls
    <3>2. at[p] <= Len(LegacyNames) /\ kind[Original(Legacy(p))] = "long"
      BY <1>t, <1>r
    <3>3. Underway(p)'
      BY <1>t, <3>1, <3>2 DEF Underway
    <3>4. QED
      BY <1>t, <3>1, <3>3, <1>b
  <2>3. QED
    BY <1>t, <2>1, <2>2 DEF AnsweredOrNot
<1>7. ASSUME NEW p \in Processes, Discard(p) PROVE Goal
  <2> DEFINE n == Legacy(p)
             i == NewIndex(n)
  <2>0. pc[p] \in RebuildCalls
    BY <1>7 DEF Discard, RebuildCalls
  <2>1. n \in Names /\ i \in Indexes
    BY <2>0, <1>r
  <2>2. CASE DeleteIndex(i) /\ AnsweredOrNot(p, "create")
    <3>1. kind' = [kind EXCEPT ![i] = "absent"] /\ docs' = [docs EXCEPT ![i] = {}]
      BY <2>2 DEF DeleteIndex
    <3>2. /\ docs'[i] = {}
          /\ \A j \in Indexes \ {i} : kind'[j] = kind[j] /\ docs'[j] = docs[j]
      BY <2>1, <3>1 DEF TypeOK
    <3>3. /\ \A m \in Names : Original(m) \in Indexes \ {i}
          /\ \A m \in Names \ {n} : NewIndex(m) \in Indexes \ {i}
      BY <2>1, IndexNames
    <3>4. OnlyFewerLong /\ \A m \in Names : Kept(m)'
      BY <2>0, <3>2, <3>3, <1>s
    <3>5. QED
      BY <2>0, <2>1, <2>2, <3>2, <3>3, <3>4, <1>t
  <2>3. QED
    BY <1>7, <2>2, <1>d DEF Discard
<1>8. ASSUME NEW p \in Processes, Create(p) PROVE Goal
  <2> DEFINE n == Legacy(p)
             i == NewIndex(n)
  <2>0. pc[p] \in RebuildCalls
    BY <1>8 DEF Create, RebuildCalls
  <2>1. n \in Names /\ i \in Indexes
    BY <2>0, <1>r
  <2>2. CASE kind[i] = "absent"
    <3>1. kind' = [kind EXCEPT ![i] = "bare"] /\ docs' = docs /\ AnsweredOrNot(p, "mapping")
      BY <1>8, <2>2 DEF Create
    <3>2. docs'[i] = {}
      BY <2>1, <2>2, <3>1 DEF Kept
    <3>3. /\ \A m \in Names : Original(m) \in Indexes \ {i}
          /\ \A m \in Names \ {n} : NewIndex(m) \in Indexes \ {i}
      BY <2>1, IndexNames
    <3>4. \A j \in Indexes \ {i} : kind'[j] = kind[j]
      BY <2>1, <3>1 DEF TypeOK
    <3>5. OnlyFewerLong /\ \A m \in Names : Kept(m)'
      BY <2>0, <3>1, <3>2, <3>3, <3>4, <1>s
    <3>6. QED
      BY <2>0, <2>1, <3>1, <3>3, <3>4, <3>5, <1>t
  <2>3. QED
    BY <1>8, <2>2, <1>d DEF Create
<1>9. ASSUME NEW p \in Processes, PutMapping(p) PROVE Goal
  <2> DEFINE n == Legacy(p)
             i == NewIndex(n)
  <2>0. pc[p] = "mapping" /\ pc[p] \in RebuildCalls
    BY <1>9 DEF PutMapping, RebuildCalls
  <2>1. /\ n \in Names /\ i \in Indexes /\ at[p] <= Len(LegacyNames)
        /\ kind[Original(n)] = "long"
    BY <2>0, <1>r
  <2>2. CASE kind[i] # "absent"
    <3>1. kind' = [kind EXCEPT ![i] = "text"] /\ docs' = docs /\ AnsweredOrNot(p, "scan")
      BY <1>9, <2>2 DEF PutMapping
    <3>2. kind'[i] = "text" /\ \A j \in Indexes \ {i} : kind'[j] = kind[j]
      BY <2>1, <3>1 DEF TypeOK
    <3>3. /\ \A m \in Names : Original(m) \in Indexes \ {i}
          /\ \A m \in Names \ {n} : NewIndex(m) \in Indexes \ {i}
      BY <2>1, IndexNames
    <3>4. OnlyFewerLong /\ \A m \in Names : Kept(m)'
      BY <2>0, <3>1, <3>2, <3>3, <1>s
    <3>5. CASE Warn(p)
      BY <3>4, <3>5, <1>b, WarnSafe
    <3>6. CASE Goto(p, "scan")
      <4>1. pc'[p] = "scan" /\ at'[p] = at[p] /\ Legacy(p)' = n /\ Passed(p)'
        BY <1>c, <2>0, <3>4, <3>6, GotoSafe DEF Calls, LegacyCalls
      <4>2. Underway(p)'
        BY <2>1, <3>2, <3>3, <4>1 DEF Underway
      <4>3. QED
        BY <3>4, <4>1, <4>2, <1>b
    <3>7. QED
      BY <3>1, <3>5, <3>6 DEF AnsweredOrNot
  <2>3. QED
    BY <1>9, <2>2, <1>d DEF PutMapping
<1>10. ASSUME NEW p \in Processes, Scan(p) PROVE Goal
  <2> DEFINE n == Legacy(p)
             i == Original(n)
             found == {<<d, d \in combined[i] /\ <<i, d>> \notin fresh>> : d \in docs[i]}
  <2>0. pc[p] = "scan" /\ pc[p] \in RebuildCalls
    BY <1>10 DEF Scan, RebuildCalls
  <2>1. /\ n \in Names /\ at[p] <= Len(LegacyNames) /\ kind[i] = "long"
        /\ kind[NewIndex(n)] = "text"
    BY <2>0, <1>r, <1>c DEF Underway
  <2>2. scanned' = [scanned EXCEPT ![p] = found] /\ Goto(p, "copy") /\ UNCHANGED cluster
    BY <1>10, <2>1 DEF Scan
  <2>3. UNCHANGED <<kind, docs>> /\ OnlyFewerLong /\ \A m \in Names : Kept(m)'
    BY <2>2, <1>a DEF cluster
  <2>4. pc'[p] = "copy" /\ at'[p] = at[p] /\ Legacy(p)' = n /\ Passed(p)'
    BY <1>c, <2>0, <2>2, <2>3, GotoSafe DEF Calls, LegacyCalls
  <2>5. scanned'[p] = found
    BY <2>2 DEF TypeOK
  <2>6. ASSUME NEW d \in Held[n] PROVE \E s \in scanned'[p] : s[1] = d
    <3>1. d \in docs[i]
      BY <2>1 DEF Kept
    <3>2. <<d, d \in combined[i] /\ <<i, d>> \notin fresh>> \in found
      BY <3>1, Zenon
    <3>3. <<d, d \in combined[i] /\ <<i, d>> \notin fresh>>[1] = d
      OBVIOUS
    <3>4. QED
      BY <2>5, <3>2, <3>3, Zenon
  <2>7. Underway(p)'
    BY <2>1, <2>3, <2>4, <2>6 DEF Underway
  <2>8. QED
    BY <2>3, <2>4, <2>7, <1>b
<1>11. ASSUME NEW p \in Processes, Copy(p) PROVE Goal
  <2> DEFINE n == Legacy(p)
             i == NewIndex(n)
  <2>0. pc[p] = "copy" /\ pc[p] \in RebuildCalls
    BY <1>11 DEF Copy, RebuildCalls
  <2>1. /\ n \in Names /\ i \in Indexes /\ at[p] <= Len(LegacyNames)
        /\ kind[Original(n)] = "long" /\ kind[i] = "text"
        /\ \A d \in Held[n] : d \in docs[i] \/ \E s \in scanned[p] : s[1] = d
    BY <2>0, <1>r, <1>c DEF Underway
  <2>2. PICK s \in scanned[p] :
          /\ scanned' = [scanned EXCEPT ![p] = @ \ {s}]
          /\ kind' = [kind EXCEPT ![i] = IF @ = "absent" THEN "bare" ELSE @]
          /\ docs' = [docs EXCEPT ![i] = @ \cup {s[1]}]
    BY <1>11 DEF Copy
  <2>3. UNCHANGED <<pc, at, warned>>
    BY <1>11 DEF Copy
  <2>4. /\ docs'[i] = docs[i] \cup {s[1]} /\ scanned'[p] = scanned[p] \ {s}
        /\ \A j \in Indexes \ {i} : docs'[j] = docs[j]
        /\ \A j \in Indexes : kind'[j] = kind[j]
    BY <2>1, <2>2 DEF TypeOK
  <2>5. /\ \A m \in Names : Original(m) \in Indexes \ {i}
        /\ \A m \in Names \ {n} : NewIndex(m) \in Indexes \ {i}
    BY <2>1, IndexNames
  <2>6. OnlyFewerLong /\ \A m \in Names : Kept(m)'
    BY <2>0, <2>1, <2>4, <2>5, <1>s
  <2>7. Legacy(p)' = n /\ pc'[p] = "copy" /\ at'[p] = at[p]
    BY <2>0, <2>3 DEF Legacy
  <2>8. Underway(p)'
    BY <2>1, <2>4, <2>5, <2>7 DEF Underway
  <2>9. Passed(p)'
    BY <1>c, <2>3, <2>6, NamesAssumption DEF Passed, OnlyFewerLong
  <2>10. QED
    BY <2>6, <2>8, <2>9, <1>b
<1>12. ASSUME NEW p \in Processes, CopyDone(p) PROVE Goal
  <2> DEFINE n == Legacy(p)
  <2>0. pc[p] = "copy" /\ pc[p] \in RebuildCalls
    BY <1>12 DEF CopyDone, RebuildCalls
  <2>1. /\ n \in Names /\ at[p] <= Len(LegacyNames) /\ kind[Original(n)] = "long"
        /\ Held[n] \subseteq docs[NewIndex(n)]
    BY <1>12, <2>0, <1>r, <1>c DEF Underway, CopyDone
  <2>2. UNCHANGED <<kind, docs>> /\ OnlyFewerLong /\ \A m \in Names : Kept(m)'
    BY <1>12, <1>a DEF CopyDone, cluster
  <2>3. pc'[p] = "delete" /\ at'[p] = at[p] /\ Legacy(p)' = n /\ Passed(p)'
    BY <1>12, <1>c, <2>0, <2>2, GotoSafe DEF CopyDone, Calls, LegacyCalls
  <2>4. Underway(p)'
    BY <2>1, <2>2, <2>3 DEF Underway
  <2>5. QED
    BY <2>2, <2>3, <2>4, <1>b
<1>13. ASSUME NEW p \in Processes, DeleteOriginal(p) PROVE Goal
  <2> DEFINE n == Legacy(p)
             i == Original(n)
  <2>0. pc[p] = "delete" /\ pc[p] \in RebuildCalls
    BY <1>13 DEF DeleteOriginal, RebuildCalls
  <2>1. /\ n \in Names /\ i \in Indexes /\ at[p] <= Len(LegacyNames) /\ kind[i] = "long"
        /\ Held[n] \subseteq docs[NewIndex(n)]
    BY <2>0, <1>r, <1>c DEF Underway
  <2>2. kind' = [kind EXCEPT ![i] = "absent"] /\ docs' = [docs EXCEPT ![i] = {}]
    BY <1>13, <2>1 DEF DeleteOriginal, DeleteIndex
  <2>3. /\ kind'[i] = "absent" /\ docs'[i] = {}
        /\ \A j \in Indexes \ {i} : kind'[j] = kind[j] /\ docs'[j] = docs[j]
    BY <2>1, <2>2 DEF TypeOK
  <2>4. /\ \A m \in Names : NewIndex(m) \in Indexes \ {i}
        /\ \A m \in Names \ {n} : Original(m) \in Indexes \ {i}
    BY <2>1, IndexNames
  <2>5. ASSUME NEW m \in Names, m = n PROVE Kept(m)'
    BY <2>1, <2>3, <2>4, <2>5 DEF Kept
  <2>6. ASSUME NEW m \in Names \ {n} PROVE Kept(m)'
    <3>1. /\ kind'[Original(m)] = kind[Original(m)] /\ docs'[Original(m)] = docs[Original(m)]
          /\ kind'[NewIndex(m)] = kind[NewIndex(m)] /\ docs'[NewIndex(m)] = docs[NewIndex(m)]
      BY <2>3, <2>4
    <3>2. QED
      BY <3>1, KeptFrame
  <2>7. OnlyFewerLong
    BY <2>3, <2>4 DEF OnlyFewerLong
  <2>8. Underway(p)' /\ Passed(p)'
    <3>1. CASE Warn(p)
      BY <3>1, WarnSafe
    <3>2. CASE NextName(p) /\ UNCHANGED warned
      BY <1>c, <2>0, <2>1, <2>3, <2>7, <3>2, NextNameSafe DEF Calls, LegacyCalls
    <3>3. QED
      BY <1>13, <2>1, <3>1, <3>2 DEF DeleteOriginal
  <2>9. ASSUME NEW m \in Names PROVE Kept(m)'
    <3>1. CASE m = n
      BY <2>5, <3>1
    <3>2. CASE m # n
      BY <2>6, <3>2
    <3>3. QED
      BY <3>1, <3>2
  <2>10. QED
    BY <2>8, <2>9, <1>b
(***************************************************************************)
(* The backfill and the cluster delete nothing.                            *)
(***************************************************************************)
<1>14. ASSUME NEW p \in Processes, Connect(p) PROVE Goal
  <2>1. pc[p] = "connect" /\ pc'[p] = "count" /\ warned' = warned /\ UNCHANGED <<kind, docs>>
    BY <1>14 DEF Connect, TypeOK, cluster
  <2>2. Underway(p)' /\ Passed(p)'
    BY <2>1, <1>c DEF Underway, Passed, RebuildCalls, BackfillCalls
  <2>3. QED
    BY <2>1, <2>2, <1>a, <1>b
<1>15. ASSUME NEW p \in Processes, BackfillDone(p) PROVE Goal
  <2>1. pc[p] = "count" /\ Goto(p, "up") /\ UNCHANGED <<kind, docs>>
    BY <1>15 DEF BackfillDone, cluster
  <2>2. pc'[p] = "up" /\ Passed(p)'
    BY <2>1, <1>a, <1>c, GotoSafe DEF BackfillCalls
  <2>3. Underway(p)'
    BY <2>2 DEF Underway, RebuildCalls
  <2>4. QED
    BY <2>1, <2>2, <2>3, <1>a, <1>b
<1>16. ASSUME NEW p \in Processes, Count(p) PROVE Goal
  <2>1. pc[p] = "count" /\ UNCHANGED <<kind, docs>>
    BY <1>16 DEF Count, cluster
  <2>2. CASE Goto(p, "submit")
    <3>1. pc'[p] = "submit" /\ Passed(p)'
      BY <2>1, <2>2, <1>a, <1>c, GotoSafe DEF BackfillCalls, Calls
    <3>2. Underway(p)'
      BY <3>1 DEF Underway, RebuildCalls
    <3>3. QED
      BY <2>1, <3>1, <3>2, <1>a, <1>b
  <2>3. CASE NextName(p) /\ UNCHANGED warned
    <3>1. Underway(p)' /\ Passed(p)'
      BY <2>1, <2>3, <1>a, <1>c, NextNameSafe DEF Calls, BackfillCalls, LegacyCalls
    <3>2. QED
      BY <2>1, <3>1, <1>a, <1>b
  <2>4. QED
    BY <1>16, <2>2, <2>3 DEF Count
<1>17. ASSUME NEW p \in Processes, Submit(p) PROVE Goal
  <2>1. pc[p] = "submit" /\ UNCHANGED <<kind, docs>>
    BY <1>17 DEF Submit
  <2>0. OnlyFewerLong /\ \A n \in Names : Kept(n)'
    BY <2>1, <1>a
  <2>2. CASE Warn(p)
    BY <2>0, <2>2, <1>b, WarnSafe
  <2>3. CASE NextName(p) /\ UNCHANGED warned
    <3>1. Underway(p)' /\ Passed(p)'
      BY <2>1, <2>3, <1>a, <1>c, NextNameSafe DEF Calls, BackfillCalls, LegacyCalls
    <3>2. QED
      BY <2>1, <3>1, <1>a, <1>b
  <2>4. QED
    BY <1>17, <2>2, <2>3 DEF Submit
<1>18. CASE TaskStep \/ TaskDrop \/ Refresh
  <2>1. UNCHANGED <<kind, docs, pc, at, scanned, warned>>
    BY <1>18 DEF TaskStep, TaskDrop, Refresh
  <2>2. ASSUME NEW p \in Processes PROVE Underway(p)' /\ Passed(p)'
    BY <2>1, <1>c DEF Underway, Passed, Legacy
  <2>3. QED
    BY <2>1, <2>2, <1>a DEF Goal
<1>19. ASSUME NEW p \in Processes, CallFails(p) PROVE Goal
  <2>1. Warn(p) /\ UNCHANGED <<kind, docs>>
    BY <1>19 DEF CallFails, cluster
  <2>2. QED
    BY <2>1, <1>a, <1>b, WarnSafe
<1>20. ASSUME NEW p \in Processes, Crash(p) PROVE Goal
  <2>1. pc'[p] = "down" /\ UNCHANGED <<kind, docs>>
    BY <1>20 DEF Crash, cluster, TypeOK
  <2>2. Underway(p)' /\ Passed(p)'
    BY <2>1 DEF Underway, Passed, RebuildCalls, BackfillCalls, LegacyCalls
  <2>3. QED
    BY <2>1, <2>2, <1>a, <1>b
<1>21. QED
  BY <1>1, <1>2, <1>3, <1>4, <1>5, <1>6, <1>7, <1>8, <1>9, <1>10, <1>11, <1>12,
     <1>13, <1>14, <1>15, <1>16, <1>17, <1>18, <1>19, <1>20
  DEF Next, LegacyStep, BackfillStep

----------------------------------------------------------------------------
(***************************************************************************)
(* The state of a single process and of the cluster is always typed.       *)
(***************************************************************************)
THEOREM Inductive == ASSUME OneProcess PROVE Spec => []IInv
<1>1. IInv /\ [Next]_vars => IInv'
  BY StepType, StepKept DEF IInv
<1>2. QED
  BY <1>1, InitIInv, PTL DEF Spec

THEOREM Types == ASSUME OneProcess PROVE Spec => []TypeOK
<1>1. IInv => TypeOK
  BY DEF IInv
<1>2. QED
  BY <1>1, Inductive, PTL

(***************************************************************************)
(* No document that was in an index before the migration is ever without   *)
(* a copy, whatever calls of migrate_indexes() fail and whenever it dies.  *)
(***************************************************************************)
THEOREM DocumentsKept == ASSUME OneProcess PROVE Spec => []NoDocumentLost
<1>1. IInv => NoDocumentLost
  BY DEF IInv, Kept, NoDocumentLost
<1>2. QED
  BY <1>1, Inductive, PTL

(***************************************************************************)
(* The rebuild never gets a document before it has the text mapping.       *)
(***************************************************************************)
THEOREM MappingFirst == ASSUME OneProcess PROVE Spec => []MappedBeforeFilled
<1>1. IInv => MappedBeforeFilled
  BY DEF IInv, Kept, MappedBeforeFilled
<1>2. QED
  BY <1>1, Inductive, PTL

(***************************************************************************)
(* A start without a failing call migrates every index that needs it.      *)
(***************************************************************************)
THEOREM QuietStart == ASSUME OneProcess PROVE Spec => []QuietStartMigrates
<1>1. IInv => QuietStartMigrates
  <2> SUFFICES ASSUME IInv, NEW p \in Processes, pc[p] = "up", ~warned[p],
                      NEW j \in DOMAIN LegacyNames
               PROVE  LET n == LegacyNames[j]
                      IN /\ kind[Original(n)] # "long"
                         /\ FirstKind[n] = "long" => Held[n] \subseteq docs[NewIndex(n)]
    BY DEF QuietStartMigrates
  <2>1. j \in 1..Len(LegacyNames) /\ LegacyNames[j] \in Names
    BY NamesAssumption
  <2>2. kind[Original(LegacyNames[j])] # "long"
    BY <2>1 DEF IInv, Passed
  <2>3. QED
    BY <2>1, <2>2 DEF IInv, Kept
<1>2. QED
  BY <1>1, Inductive, PTL

-----------------------------------------------------------------------------
(***************************************************************************)
(* SearchIndex: documents and queries.                                     *)
(***************************************************************************)
(***************************************************************************)
(* The two backends search and save in the same way.                       *)
(***************************************************************************)
LEMMA SameSaving == \A r : Saving(r) = SavingElastic(r)
<1> SUFFICES ASSUME NEW r PROVE SavingOpenSearch(r) = SavingElastic(r)
  BY DEF Saving
<1>1. OpenSearchAggregate(r) = ElasticAggregate(r)
  <2> DEFINE text == [org_name |-> r.org_name, report_id |-> r.report_id,
                      domain |-> r.domain]
  <2>1. {Clause(f, "match_phrase", text[f]) : f \in DOMAIN text} =
           {Clause("org_name", "match_phrase", r.org_name),
            Clause("report_id", "match_phrase", r.report_id),
            Clause("domain", "match_phrase", r.domain)}
    OBVIOUS
  <2> QED
    BY <2>1 DEF OpenSearchAggregate, ElasticAggregate
<1>2. OpenSearchFailure(r) = ElasticFailure(r)
  BY DEF OpenSearchFailure, ElasticFailure
<1>3. OpenSearchSmtpTls(r) = ElasticSmtpTls(r)
  <2> DEFINE text == [org_name |-> r.org_name, report_id |-> r.report_id]
             time == [date_begin |-> r.begin, date_end |-> r.end]
  <2>1. {Clause(f, "match_phrase", text[f]) : f \in DOMAIN text} =
           {Clause("org_name", "match_phrase", r.org_name),
            Clause("report_id", "match_phrase", r.report_id)}
    OBVIOUS
  <2>2. {Clause(f, "match", time[f]) : f \in DOMAIN time} =
           {Clause("date_begin", "match", r.begin), Clause("date_end", "match", r.end)}
    OBVIOUS
  <2> QED
    BY <2>1, <2>2 DEF OpenSearchSmtpTls, ElasticSmtpTls
<1> QED
  BY <1>1, <1>2, <1>3 DEF SavingOpenSearch, SavingElastic

LEMMA KindsOfReport ==
    ASSUME NEW r \in Reports \cup Older
    PROVE  AggregateReport(r) \/ FailureReport(r) \/ SmtpTlsReport(r)
BY ReportsAssumption

LEMMA AggregateSaving ==
    ASSUME NEW r, r.kind = "aggregate"
    PROVE  Saving(r) = ElasticAggregate(r)
BY SameSaving DEF SavingElastic

LEMMA FailureSaving ==
    ASSUME NEW r, r.kind = "failure"
    PROVE  Saving(r) = ElasticFailure(r)
BY SameSaving DEF SavingElastic

LEMMA SmtpTlsSaving ==
    ASSUME NEW r, r.kind = "smtp_tls"
    PROVE  Saving(r) = ElasticSmtpTls(r)
BY SameSaving DEF SavingElastic

(***************************************************************************)
(* The documents of a report are a sequence.                               *)
(***************************************************************************)
LEMMA DocumentsOf ==
    ASSUME NEW r \in Reports \cup Older
    PROVE  /\ Len(Saving(r).docs) \in Nat
           /\ DOMAIN Saving(r).docs = 1 .. Len(Saving(r).docs)
           /\ Saving(r).docs # <<>> => Len(Saving(r).docs) >= 1
<1>1. CASE AggregateReport(r)
  <2> DEFINE S == {AggregateDocs(r)[i] : i \in DOMAIN r.rows}
  <2>1. r.rows \in Seq([begin : Int, end : Int])
    BY <1>1 DEF AggregateReport
  <2>2. DOMAIN AggregateDocs(r) = 1 .. Len(r.rows) /\ Len(r.rows) \in Nat
    BY <2>1 DEF AggregateDocs
  <2>3. AggregateDocs(r) \in [1 .. Len(r.rows) -> S]
    BY <2>2 DEF AggregateDocs
  <2> HIDE DEF S
  <2>4. AggregateDocs(r) \in Seq(S)
    BY <2>2, <2>3
  <2>5. Saving(r).docs = AggregateDocs(r)
    BY <1>1, AggregateSaving DEF AggregateReport, ElasticAggregate
  <2> QED
    BY <2>4, <2>5, EmptySeq
<1>2. CASE FailureReport(r)
  <2>1. Saving(r).docs = FailureDocs(r)
    BY <1>2, FailureSaving DEF FailureReport, ElasticFailure
  <2> QED
    BY <2>1 DEF FailureDocs
<1>3. CASE SmtpTlsReport(r)
  <2>1. Saving(r).docs = SmtpTlsDocs(r)
    BY <1>3, SmtpTlsSaving DEF SmtpTlsReport, ElasticSmtpTls
  <2> QED
    BY <2>1 DEF SmtpTlsDocs
<1> QED
  BY <1>1, <1>2, <1>3, KindsOfReport

(***************************************************************************)
(* A text with words occurs in itself.                                     *)
(***************************************************************************)
LEMMA OccursInItself ==
    ASSUME NEW text \in Text, text # <<>>
    PROVE  Occurs(text, text)
<1>1. Len(text) \in Nat /\ DOMAIN text = 1 .. Len(text)
  BY DEF Text
<1>2. 0 \in 0 .. Len(text) - Len(text)
  BY <1>1
<1>3. \A j \in DOMAIN text : text[0 + j] = text[j]
  BY <1>1
<1> QED
  BY <1>2, <1>3 DEF Occurs

(***************************************************************************)
(* The headers of a failure report are texts, and so are those of its      *)
(* document.                                                               *)
(***************************************************************************)
LEMMA HeadersOf ==
    ASSUME NEW r, FailureReport(r)
    PROVE  /\ DOMAIN Headers(r) = DOMAIN r.headers
           /\ \A h \in DOMAIN r.headers :
                 /\ Headers(r)[h] \in Text
                 /\ h \in DOMAIN FailureDocs(r)[1]
                 /\ FailureDocs(r)[1][h] = Headers(r)[h]
           /\ DOMAIN FailureDocs(r)[1] = {"arrival_date"} \cup DOMAIN r.headers
           /\ FailureDocs(r)[1].arrival_date = r.arrival_date
<1>1. DOMAIN Headers(r) = DOMAIN r.headers
  BY DEF Headers
<1>2. DOMAIN r.headers \subseteq {"from", "to", "reply_to", "subject"}
  BY DEF FailureReport
<1>3. DOMAIN FailureDocs(r)[1] = {"arrival_date"} \cup DOMAIN r.headers
  BY <1>1 DEF FailureDocs
<1>4. FailureDocs(r)[1].arrival_date = r.arrival_date
  BY DEF FailureDocs
<1>5. ASSUME NEW h \in DOMAIN r.headers
      PROVE  FailureDocs(r)[1][h] = Headers(r)[h]
  BY <1>1, <1>2, <1>5 DEF FailureDocs
<1>6. ASSUME NEW h \in DOMAIN r.headers
      PROVE  Headers(r)[h] \in Text
  <2>1. CASE h = "subject"
    BY <2>1 DEF FailureReport, Headers
  <2>2. CASE h # "subject"
    <3>1. r.headers[h] \in [display : Text, address : Text]
      BY <2>2 DEF FailureReport
    <3>2. Flattened(r.headers[h]) \in Text
      BY <3>1 DEF Flattened, Text
    <3>3. h \in {"from", "to", "reply_to"}
      BY <1>2, <2>2
    <3> QED
      BY <3>2, <3>3 DEF Headers
  <2> QED
    BY <2>1, <2>2
<1> QED
  BY <1>1, <1>3, <1>4, <1>5, <1>6

(***************************************************************************)
(* The query of a report finds every document of the report.               *)
(***************************************************************************)
LEMMA OwnMatch ==
    ASSUME NEW r \in Reports, Searchable(r),
           NEW i \in DOMAIN Saving(r).docs, NEW c \in Saving(r).query
    PROVE  Satisfies(Saving(r).docs[i], c)
<1>1. CASE AggregateReport(r)
  <2>1. Saving(r) = ElasticAggregate(r)
    BY <1>1, AggregateSaving DEF AggregateReport
  <2>2. i \in DOMAIN r.rows /\ Saving(r).docs[i] =
           [org_name |-> r.org_name, report_id |-> r.report_id, domain |-> r.domain,
            date_begin |-> r.rows[i].begin, date_end |-> r.rows[i].end]
    BY <2>1 DEF ElasticAggregate, AggregateDocs
  <2>3. CASE c = Clause("org_name", "match_phrase", r.org_name)
    <3>1. r.org_name # <<>>
      BY <2>3 DEF Searchable, Clause
    <3> QED
      BY <1>1, <2>2, <2>3, <3>1, OccursInItself DEF Satisfies, Clause, AggregateReport
  <2>4. CASE c = Clause("report_id", "match_phrase", r.report_id)
    <3>1. r.report_id # <<>>
      BY <2>4 DEF Searchable, Clause
    <3> QED
      BY <1>1, <2>2, <2>4, <3>1, OccursInItself DEF Satisfies, Clause, AggregateReport
  <2>5. CASE c = Clause("domain", "match_phrase", r.domain)
    <3>1. r.domain # <<>>
      BY <2>5 DEF Searchable, Clause
    <3> QED
      BY <1>1, <2>2, <2>5, <3>1, OccursInItself DEF Satisfies, Clause, AggregateReport
  <2>6. CASE c = Clause("date_begin", "gte", r.begin)
    <3>1. r.begin <= r.rows[i].begin /\ r.rows[i].begin \in Int /\ r.begin \in Int
      <4>1. r.rows[i] \in [begin : Int, end : Int]
        <5>1. r.rows \in Seq([begin : Int, end : Int])
          BY <1>1 DEF AggregateReport
        <5>2. i \in 1 .. Len(r.rows)
          BY <2>2, <5>1
        <5> QED
          BY <5>1, <5>2, ElementOfSeq
      <4> QED
        BY <1>1, <2>2, <4>1 DEF AggregateReport
    <3>2. r.rows[i].begin >= r.begin
      BY <3>1
    <3> QED
      BY <2>2, <2>6, <3>2 DEF Satisfies, Clause
  <2>7. CASE c = Clause("date_end", "lte", r.end)
    BY <1>1, <2>2, <2>7 DEF Satisfies, Clause, AggregateReport
  <2> QED
    BY <2>1, <2>3, <2>4, <2>5, <2>6, <2>7 DEF ElasticAggregate
<1>2. CASE FailureReport(r)
  <2>1. Saving(r) = ElasticFailure(r)
    BY <1>2, FailureSaving DEF FailureReport
  <2>2. i = 1 /\ Saving(r).docs[i] = FailureDocs(r)[1]
    <3>1. \E doc : FailureDocs(r) = <<doc>>
      BY DEF FailureDocs
    <3>2. Saving(r).docs = FailureDocs(r)
      BY <2>1 DEF ElasticFailure
    <3> QED
      BY <3>1, <3>2
  <2>3. CASE c = Clause("arrival_date", "match", r.arrival_date)
    BY <1>2, <2>2, <2>3, HeadersOf DEF Satisfies, Clause
  <2>4. CASE c \in SampleClauses(r)
    <3>1. PICK h \in DOMAIN r.headers : c = Clause(h, "match_phrase", Headers(r)[h])
      BY <2>4 DEF SampleClauses
    <3>2. Headers(r)[h] # <<>>
      BY <3>1 DEF Searchable, Clause
    <3>3. /\ h \in DOMAIN FailureDocs(r)[1]
          /\ FailureDocs(r)[1][h] = Headers(r)[h]
          /\ Headers(r)[h] \in Text
      BY <1>2, HeadersOf
    <3>4. Occurs(Headers(r)[h], FailureDocs(r)[1][h])
      BY <3>2, <3>3, OccursInItself
    <3> QED
      BY <2>2, <3>1, <3>3, <3>4 DEF Satisfies, Clause
  <2> QED
    BY <2>1, <2>3, <2>4 DEF ElasticFailure
<1>3. CASE SmtpTlsReport(r)
  <2>1. Saving(r) = ElasticSmtpTls(r)
    BY <1>3, SmtpTlsSaving DEF SmtpTlsReport
  <2>2. Saving(r).docs[i] =
           [org_name |-> r.org_name, report_id |-> r.report_id,
            date_begin |-> r.begin, date_end |-> r.end]
    BY <2>1 DEF ElasticSmtpTls, SmtpTlsDocs
  <2>3. CASE c = Clause("org_name", "match_phrase", r.org_name)
    <3>1. r.org_name # <<>>
      BY <2>3 DEF Searchable, Clause
    <3> QED
      BY <1>3, <2>2, <2>3, <3>1, OccursInItself DEF Satisfies, Clause, SmtpTlsReport
  <2>4. CASE c = Clause("report_id", "match_phrase", r.report_id)
    <3>1. r.report_id # <<>>
      BY <2>4 DEF Searchable, Clause
    <3> QED
      BY <1>3, <2>2, <2>4, <3>1, OccursInItself DEF Satisfies, Clause, SmtpTlsReport
  <2>5. CASE c = Clause("date_begin", "match", r.begin)
    BY <2>2, <2>5 DEF Satisfies, Clause
  <2>6. CASE c = Clause("date_end", "match", r.end)
    BY <2>2, <2>6 DEF Satisfies, Clause
  <2> QED
    BY <2>1, <2>3, <2>4, <2>5, <2>6 DEF ElasticSmtpTls
<1> QED
  BY <1>1, <1>2, <1>3, KindsOfReport

(***************************************************************************)
(* A document that the query of a report finds is that of a look-alike.    *)
(***************************************************************************)
LEMMA MatchIsLookAlike ==
    ASSUME NEW r \in Reports \cup Older, NEW q \in Reports \cup Older,
           NEW base \in Saving(r).searched \cap Saving(q).searched,
           NEW i \in DOMAIN Saving(q).docs,
           \A c \in Saving(r).query : Satisfies(Saving(q).docs[i], c)
    PROVE  LookAlike(r, q)
<1>1. r.kind = q.kind
  <2>1. /\ r.kind = "aggregate" => Saving(r).searched = {"dmarc_aggregate"}
        /\ r.kind = "failure" => Saving(r).searched = {"dmarc_failure", "dmarc_forensic"}
        /\ r.kind = "smtp_tls" => Saving(r).searched = {"smtp_tls"}
    BY AggregateSaving, FailureSaving, SmtpTlsSaving
    DEF ElasticAggregate, ElasticFailure, ElasticSmtpTls
  <2>2. /\ q.kind = "aggregate" => Saving(q).searched = {"dmarc_aggregate"}
        /\ q.kind = "failure" => Saving(q).searched = {"dmarc_failure", "dmarc_forensic"}
        /\ q.kind = "smtp_tls" => Saving(q).searched = {"smtp_tls"}
    BY AggregateSaving, FailureSaving, SmtpTlsSaving
    DEF ElasticAggregate, ElasticFailure, ElasticSmtpTls
  <2>3. r.kind \in {"aggregate", "failure", "smtp_tls"}
    BY KindsOfReport DEF AggregateReport, FailureReport, SmtpTlsReport
  <2>4. q.kind \in {"aggregate", "failure", "smtp_tls"}
    BY KindsOfReport DEF AggregateReport, FailureReport, SmtpTlsReport
  <2> QED
    BY <2>1, <2>2, <2>3, <2>4
<1>2. CASE AggregateReport(r)
  <2>1. r.kind = "aggregate" /\ q.kind = "aggregate"
    BY <1>1, <1>2 DEF AggregateReport
  <2>2. /\ Saving(r).query = ElasticAggregate(r).query
        /\ Saving(q).docs = AggregateDocs(q)
    BY <2>1, AggregateSaving DEF ElasticAggregate
  <2>3. i \in DOMAIN q.rows /\ Saving(q).docs[i] =
           [org_name |-> q.org_name, report_id |-> q.report_id, domain |-> q.domain,
            date_begin |-> q.rows[i].begin, date_end |-> q.rows[i].end]
    BY <2>2 DEF AggregateDocs
  <2> DEFINE Finds(c) == c \in Saving(r).query /\ Satisfies(Saving(q).docs[i], c)
  <2>4. /\ Finds(Clause("org_name", "match_phrase", r.org_name))
        /\ Finds(Clause("report_id", "match_phrase", r.report_id))
        /\ Finds(Clause("domain", "match_phrase", r.domain))
        /\ Finds(Clause("date_begin", "gte", r.begin))
        /\ Finds(Clause("date_end", "lte", r.end))
    BY <2>2 DEF ElasticAggregate
  <2>5. /\ Occurs(r.org_name, q.org_name)
        /\ Occurs(r.report_id, q.report_id)
        /\ Occurs(r.domain, q.domain)
    BY <2>3, <2>4 DEF Satisfies, Clause
  <2>6. q.rows[i].begin >= r.begin /\ q.rows[i].end <= r.end
    BY <2>3, <2>4 DEF Satisfies, Clause
  <2> QED
    BY <2>1, <2>3, <2>5, <2>6 DEF LookAlike
<1>3. CASE FailureReport(r)
  <2>1. r.kind = "failure" /\ q.kind = "failure"
    BY <1>1, <1>3 DEF FailureReport
  <2>2. FailureReport(q)
    BY <2>1, KindsOfReport DEF AggregateReport, SmtpTlsReport
  <2>3. /\ Saving(r).query = ElasticFailure(r).query
        /\ Saving(q).docs = FailureDocs(q)
    BY <2>1, FailureSaving DEF ElasticFailure
  <2>4. Saving(q).docs[i] = FailureDocs(q)[1]
    <3>1. \E doc : FailureDocs(q) = <<doc>>
      BY DEF FailureDocs
    <3> QED
      BY <2>3, <3>1
  <2>5. r.arrival_date = q.arrival_date
    <3>1. Clause("arrival_date", "match", r.arrival_date) \in Saving(r).query
      BY <2>3 DEF ElasticFailure
    <3>2. Satisfies(FailureDocs(q)[1], Clause("arrival_date", "match", r.arrival_date))
      BY <2>4, <3>1
    <3> QED
      BY <2>2, <3>2, HeadersOf DEF Satisfies, Clause
  <2>6. ASSUME NEW h \in DOMAIN r.headers \cap {"from", "to", "subject"}
        PROVE  h \in DOMAIN q.headers /\ Occurs(Headers(r)[h], Headers(q)[h])
    <3>1. Clause(h, "match_phrase", Headers(r)[h]) \in Saving(r).query
      BY <2>3 DEF ElasticFailure, SampleClauses
    <3>2. Satisfies(FailureDocs(q)[1], Clause(h, "match_phrase", Headers(r)[h]))
      BY <2>4, <3>1
    <3>3. h \in DOMAIN FailureDocs(q)[1] /\ Occurs(Headers(r)[h], FailureDocs(q)[1][h])
      BY <3>2 DEF Satisfies, Clause
    <3>4. h \in DOMAIN q.headers
      BY <2>2, <3>3, HeadersOf
    <3> QED
      BY <2>2, <3>3, <3>4, HeadersOf
  <2> QED
    BY <2>1, <2>5, <2>6 DEF LookAlike
<1>4. CASE SmtpTlsReport(r)
  <2>1. r.kind = "smtp_tls" /\ q.kind = "smtp_tls"
    BY <1>1, <1>4 DEF SmtpTlsReport
  <2>2. /\ Saving(r).query = ElasticSmtpTls(r).query
        /\ Saving(q).docs[i] =
              [org_name |-> q.org_name, report_id |-> q.report_id,
               date_begin |-> q.begin, date_end |-> q.end]
    BY <2>1, SmtpTlsSaving DEF ElasticSmtpTls, SmtpTlsDocs
  <2> DEFINE Finds(c) == c \in Saving(r).query /\ Satisfies(Saving(q).docs[i], c)
  <2>3. /\ Finds(Clause("org_name", "match_phrase", r.org_name))
        /\ Finds(Clause("report_id", "match_phrase", r.report_id))
        /\ Finds(Clause("date_begin", "match", r.begin))
        /\ Finds(Clause("date_end", "match", r.end))
    BY <2>2 DEF ElasticSmtpTls
  <2>4. /\ Occurs(r.org_name, q.org_name)
        /\ Occurs(r.report_id, q.report_id)
        /\ r.begin = q.begin /\ r.end = q.end
    BY <2>2, <2>3 DEF Satisfies, Clause
  <2> QED
    BY <2>1, <2>4 DEF LookAlike
<1> QED
  BY <1>2, <1>3, <1>4, KindsOfReport

-----------------------------------------------------------------------------
(***************************************************************************)
(* Every document is what the save function makes of a record of its       *)
(* report, under a name that a search for the report looks under.          *)
(***************************************************************************)
DocumentsInv ==
    \A d \in documents :
        /\ DOMAIN d = {"at", "of", "row", "save", "seen", "fields"}
        /\ d.of \in Reports \cup Older
        /\ d.row \in DOMAIN Saving(d.of).docs
        /\ d.fields = Saving(d.of).docs[d.row]
        /\ d.at.base \in Saving(d.of).searched

JobRecord == [step : {"search", "create", "save"}, report : Reports, row : Nat]

Storing == job.step \in {"create", "save"}

JobInv ==
    /\ job = Idle \/ job \in JobRecord
    /\ Storing => job.row \in DOMAIN Saving(job.report).docs
    /\ job.step = "search" => job.row = 1

Stored(r, i, prefix) ==
    \E d \in documents : d.of = r /\ d.row = i /\ d.at.prefix = prefix

(***************************************************************************)
(* What the save at work has stored so far; and a report with a document   *)
(* is stored as a whole, or is the one at work, or a save of it broke off. *)
(***************************************************************************)
ProgressInv ==
    Storing => \A i \in 1 .. job.row - 1 : Stored(job.report, i, Prefix(job.report))

WholeInv ==
    \A d \in documents :
        \/ d.of \in broken
        \/ StoredWhole(d.of, d.at.prefix)
        \/ Storing /\ d.of = job.report /\ d.at.prefix = Prefix(job.report)

SearchInv ==
    /\ backend \in Backends
    /\ now \in Deployments
    /\ DocumentsInv
    /\ JobInv
    /\ ProgressInv
    /\ WholeInv

OutcomeInv == DOMAIN outcome = Reports

----------------------------------------------------------------------------
LEMMA SearchInitInv == SearchInit => SearchInv
<1> SUFFICES ASSUME SearchInit PROVE SearchInv
  OBVIOUS
<1> USE DEF SearchInit
<1>1. ASSUME NEW q \in Older
      PROVE  /\ Saving(q).docs = FailureDocs(q)
             /\ DOMAIN Saving(q).docs = {1}
             /\ "dmarc_forensic" \in Saving(q).searched
  <2>1. Saving(q) = ElasticFailure(q)
    BY ReportsAssumption, FailureSaving DEF FailureReport
  <2>2. \E doc : FailureDocs(q) = <<doc>>
    BY DEF FailureDocs
  <2> QED
    BY <2>1, <2>2 DEF ElasticFailure
<1>2. DocumentsInv
  BY <1>1 DEF DocumentsInv, Found
<1>3. JobInv /\ ProgressInv
  BY DEF JobInv, ProgressInv, Storing, Idle
<1>4. WholeInv
  <2> SUFFICES ASSUME NEW q \in Older, NEW i \in DOMAIN Saving(q).docs
               PROVE  \E d \in documents :
                         d.of = q /\ d.row = i /\ d.at.prefix = Found(q).at.prefix
    BY DEF WholeInv, StoredWhole, Found
  <2> QED
    BY <1>1 DEF Found
<1> QED
  BY <1>2, <1>3, <1>4 DEF SearchInv

(***************************************************************************)
(* What is stored stays stored, and names stay what they are, while the    *)
(* deployment does; a step that ends the save at work leaves a report that *)
(* is whole or broken.                                                     *)
(***************************************************************************)
LEMMA SavingStays ==
    ASSUME UNCHANGED <<backend, now>>
    PROVE  \A r : Saving(r)' = Saving(r) /\ Prefix(r)' = Prefix(r)
BY DEF Saving, Prefix

LEMMA StoredStays ==
    ASSUME UNCHANGED backend, documents \subseteq documents'
    PROVE  /\ \A r, i, p : Stored(r, i, p) => Stored(r, i, p)'
           /\ \A r, p : StoredWhole(r, p) => StoredWhole(r, p)'
<1>1. \A r : Saving(r)' = Saving(r)
  BY DEF Saving
<1> QED
  BY <1>1 DEF Stored, StoredWhole

LEMMA DocumentIs ==
    ASSUME SearchInv, Storing
    PROVE  /\ DOMAIN Document = {"at", "of", "row", "save", "seen", "fields"}
           /\ Document.of = job.report /\ job.report \in Reports
           /\ Document.row = job.row
           /\ Document.at.prefix = Prefix(job.report)
           /\ job.row \in DOMAIN Saving(job.report).docs
           /\ Document.fields = Saving(job.report).docs[job.row]
           /\ Document.at.base \in Saving(job.report).searched
<1>1. job \in JobRecord
  BY DEF SearchInv, JobInv, Storing, Idle
<1>2. job.report \in Reports
  BY <1>1 DEF JobRecord
<1>3. Saving(job.report).base \in Saving(job.report).searched
  BY SameSaving DEF SavingElastic, ElasticAggregate, ElasticFailure, ElasticSmtpTls
<1> QED
  BY <1>2, <1>3 DEF Document, Index, IndexOf, SearchInv, JobInv

LEMMA DocumentsStay ==
    ASSUME SearchInv, UNCHANGED <<backend, now>>,
           \/ UNCHANGED documents
           \/ Storing /\ documents' = documents \cup {Document},
           broken \subseteq broken',
           Storing =>
              \/ job.report \in broken'
              \/ \A r, p : r = job.report /\ p = Prefix(r) => StoredWhole(r, p)'
              \/ Storing' /\ job'.report = job.report
    PROVE  DocumentsInv' /\ WholeInv'
<1> USE DEF SearchInv
<1>1. \A r : Saving(r)' = Saving(r) /\ Prefix(r)' = Prefix(r)
  BY SavingStays
<1>2. \A r, p : StoredWhole(r, p) => StoredWhole(r, p)'
  BY StoredStays
<1>3. DocumentsInv'
  <2> SUFFICES ASSUME NEW d \in documents'
               PROVE  /\ DOMAIN d = {"at", "of", "row", "save", "seen", "fields"}
                      /\ d.of \in Reports \cup Older
                      /\ d.row \in DOMAIN Saving(d.of).docs
                      /\ d.fields = Saving(d.of).docs[d.row]
                      /\ d.at.base \in Saving(d.of).searched
    BY <1>1 DEF DocumentsInv
  <2>1. CASE d \in documents
    BY <2>1 DEF DocumentsInv
  <2>2. CASE Storing /\ d = Document
    BY <2>2, DocumentIs
  <2> QED
    BY <2>1, <2>2
<1>4. ASSUME NEW d \in documents'
      PROVE  \/ d.of \in broken'
             \/ \A r, p : r = d.of /\ p = d.at.prefix => StoredWhole(r, p)'
             \/ Storing' /\ d.of = job'.report /\ d.at.prefix = Prefix(job'.report)
  <2>1. CASE d \in documents /\ (d.of \in broken \/ StoredWhole(d.of, d.at.prefix))
    BY <2>1, <1>2
  <2>2. CASE Storing /\ d.of = job.report /\ d.at.prefix = Prefix(job.report)
    BY <2>2
  <2>3. CASE Storing /\ d = Document
    BY <2>2, <2>3, DocumentIs
  <2>4. d \in documents \/ (Storing /\ d = Document)
    OBVIOUS
  <2> QED
    BY <2>1, <2>2, <2>3, <2>4 DEF WholeInv
<1>5. WholeInv'
  BY <1>1, <1>4 DEF WholeInv
<1> QED
  BY <1>3, <1>5

(***************************************************************************)
(* A save that ends: what it had begun to store is whole, or broken.       *)
(***************************************************************************)
LEMMA EndsKeeps ==
    ASSUME SearchInv, UNCHANGED <<backend, now>>,
           \/ UNCHANGED documents
           \/ Storing /\ documents' = documents \cup {Document},
           job' = Idle, broken \subseteq broken',
           Storing =>
              \/ job.report \in broken'
              \/ \A r, p : r = job.report /\ p = Prefix(r) => StoredWhole(r, p)'
    PROVE  SearchInv'
<1>1. DocumentsInv' /\ WholeInv'
  BY DocumentsStay
<1>2. ~Storing'
  BY DEF Storing, Idle
<1>3. JobInv' /\ ProgressInv'
  BY <1>2 DEF JobInv, ProgressInv, Idle
<1> QED
  BY <1>1, <1>3 DEF SearchInv

LEMMA RefreshKeeps == SearchInv /\ RefreshIndexes => SearchInv'
<1> SUFFICES ASSUME SearchInv, RefreshIndexes PROVE SearchInv'
  OBVIOUS
<1> USE DEF RefreshIndexes, SearchInv
<1> DEFINE Seen(d) == [d EXCEPT !.seen = TRUE]
<1>1. \A r : Saving(r)' = Saving(r) /\ Prefix(r)' = Prefix(r)
  BY SavingStays
<1>2. documents' = {Seen(d) : d \in documents}
  OBVIOUS
<1>3. \A d \in documents : /\ DOMAIN Seen(d) = DOMAIN d
                           /\ Seen(d).of = d.of /\ Seen(d).row = d.row
                           /\ Seen(d).fields = d.fields /\ Seen(d).at = d.at
  BY DEF DocumentsInv
<1> HIDE DEF Seen
<1>4. DocumentsInv'
  BY <1>1, <1>2, <1>3 DEF DocumentsInv
<1>5. \A r, i, p : Stored(r, i, p) => Stored(r, i, p)'
  BY <1>2, <1>3 DEF Stored
<1>6. \A r, p : StoredWhole(r, p) => StoredWhole(r, p)'
  BY <1>1, <1>2, <1>3 DEF StoredWhole
<1>7. JobInv' /\ Storing' = Storing
  BY <1>1 DEF JobInv, Storing
<1>8. ProgressInv'
  BY <1>1, <1>5, <1>7 DEF ProgressInv
<1>9. WholeInv'
  <2> SUFFICES ASSUME NEW e \in documents'
               PROVE  \/ e.of \in broken
                      \/ \A r, p : r = e.of /\ p = e.at.prefix => StoredWhole(r, p)'
                      \/ /\ Storing
                         /\ e.of = job.report /\ e.at.prefix = Prefix(job.report)
    BY <1>1, <1>7 DEF WholeInv
  <2>1. PICK d \in documents : e = Seen(d)
    BY <1>2
  <2> QED
    BY <2>1, <1>3, <1>6 DEF WholeInv
<1> QED
  BY <1>4, <1>7, <1>8, <1>9

LEMMA SaveKeeps ==
    ASSUME NEW r \in Reports, SearchInv, Save(r)
    PROVE  SearchInv'
<1> USE DEF Save, SearchInv
<1>1. ~Storing /\ ~Storing'
  BY DEF Storing, Idle
<1>2. job' \in JobRecord
  BY DEF JobRecord
<1>3. JobInv' /\ ProgressInv'
  BY <1>1, <1>2 DEF JobInv, ProgressInv
<1>4. DocumentsInv' /\ WholeInv'
  BY <1>1, DocumentsStay
<1> QED
  BY <1>3, <1>4

LEMMA NotFoundKeeps == SearchInv /\ NotFound => SearchInv'
<1> SUFFICES ASSUME SearchInv, NotFound PROVE SearchInv'
  OBVIOUS
<1> USE DEF NotFound, SearchInv
<1>1. ~Storing
  BY DEF At, Storing
<1>2. CASE Ends("saved")
  BY <1>1, <1>2, EndsKeeps DEF Ends
<1>3. CASE Saving(job.report).docs # <<>> /\ Goes("create")
  <2>1. job \in JobRecord
    BY DEF JobInv, At, Idle
  <2>2. /\ job' \in JobRecord
        /\ job'.step = "create" /\ job'.report = job.report /\ job'.row = 1
    BY <1>3, <2>1 DEF Goes, JobRecord, JobInv, At
  <2>3. \A r : Saving(r)' = Saving(r)
    BY SavingStays
  <2>4. 1 \in DOMAIN Saving(job.report).docs
    BY <1>3, <2>1, DocumentsOf DEF JobRecord
  <2>5. JobInv' /\ ProgressInv'
    BY <2>2, <2>3, <2>4 DEF JobInv, ProgressInv, Storing
  <2>6. DocumentsInv' /\ WholeInv'
    BY <1>1, <1>3, DocumentsStay DEF Goes
  <2> QED
    BY <2>5, <2>6
<1> QED
  BY <1>2, <1>3

LEMMA SearchEnds == SearchInv /\ (AlreadySaved \/ SearchFails) => SearchInv'
<1> SUFFICES ASSUME SearchInv, AlreadySaved \/ SearchFails PROVE SearchInv'
  OBVIOUS
<1>1. ~Storing
  BY DEF AlreadySaved, SearchFails, At, Storing
<1>2. /\ UNCHANGED <<backend, now, documents>> /\ job' = Idle
      /\ broken \subseteq broken'
  BY DEF AlreadySaved, SearchFails, Ends
<1> QED
  BY <1>1, <1>2, EndsKeeps

(***************************************************************************)
(* A step of the save that goes on with the same row.                      *)
(***************************************************************************)
LEMMA CreateKeeps == SearchInv /\ CreateIndex => SearchInv'
<1> SUFFICES ASSUME SearchInv, CreateIndex PROVE SearchInv'
  OBVIOUS
<1>1. Storing /\ UNCHANGED <<backend, now, documents>>
  BY DEF CreateIndex, At, Storing
<1>2. CASE Ends("error")
  <2>1. job.report \in broken' /\ broken \subseteq broken' /\ job' = Idle
    BY <1>2 DEF CreateIndex, At, Ends
  <2> QED
    BY <1>1, <2>1, EndsKeeps
<1>3. CASE Goes("save")
  <2>1. job \in JobRecord
    BY <1>1 DEF SearchInv, JobInv, Storing, Idle
  <2>2. /\ job' \in JobRecord
        /\ job'.step = "save" /\ job'.report = job.report /\ job'.row = job.row
    BY <1>3, <2>1 DEF Goes, JobRecord
  <2>3. \A r : Saving(r)' = Saving(r) /\ Prefix(r)' = Prefix(r)
    BY <1>1, SavingStays
  <2>4. Storing'
    BY <2>2 DEF Storing
  <2>5. JobInv'
    BY <1>1, <2>2, <2>3 DEF SearchInv, JobInv
  <2>6. ProgressInv'
    <3>1. \A r, i, p : Stored(r, i, p) => Stored(r, i, p)'
      BY <1>1, StoredStays
    <3> QED
      BY <1>1, <2>2, <2>3, <3>1 DEF SearchInv, ProgressInv
  <2>7. DocumentsInv' /\ WholeInv'
    BY <1>1, <1>3, <2>2, <2>4, DocumentsStay DEF Goes
  <2> QED
    BY <1>1, <2>5, <2>6, <2>7 DEF SearchInv
<1> QED
  BY <1>2, <1>3 DEF CreateIndex

LEMMA SaveFailsKeeps == SearchInv /\ SaveFails => SearchInv'
<1> SUFFICES ASSUME SearchInv, SaveFails PROVE SearchInv'
  OBVIOUS
<1>1. /\ Storing /\ UNCHANGED <<backend, now>>
      /\ documents' = documents \/ documents' = documents \cup {Document}
  BY DEF SaveFails, At, Storing
<1>2. job.report \in broken' /\ broken \subseteq broken' /\ job' = Idle
  BY DEF SaveFails, At, Ends
<1> QED
  BY <1>1, <1>2, EndsKeeps

LEMMA KilledKeeps == SearchInv /\ Killed => SearchInv'
<1> SUFFICES ASSUME SearchInv, Killed PROVE SearchInv'
  OBVIOUS
<1>1. UNCHANGED <<backend, now>> /\ job' = Idle
  BY DEF Killed, Ends
<1>2. \/ UNCHANGED documents
      \/ Storing /\ documents' = documents \cup {Document}
  BY DEF Killed, At, Storing
<1>3. broken \subseteq broken' /\ (Storing => job.report \in broken')
  BY DEF Killed, Ends, At, Storing
<1> QED
  BY <1>1, <1>2, <1>3, EndsKeeps

(***************************************************************************)
(* The document of this row joins those of the rows before: after the last *)
(* row the report is stored as a whole.                                    *)
(***************************************************************************)
LEMMA SaveDocumentKeeps == SearchInv /\ SaveDocument => SearchInv'
<1> SUFFICES ASSUME SearchInv, SaveDocument PROVE SearchInv'
  OBVIOUS
<1> DEFINE n == Len(Saving(job.report).docs)
<1>1. /\ Storing /\ UNCHANGED <<backend, now>>
      /\ documents' = documents \cup {Document}
  BY DEF SaveDocument, At, Storing
<1>2. job \in JobRecord
  BY <1>1 DEF SearchInv, JobInv, Storing, Idle
<1>3. n \in Nat /\ DOMAIN Saving(job.report).docs = 1 .. n
  BY <1>2, DocumentsOf DEF JobRecord
<1>4. job.row \in 1 .. n
  BY <1>1, <1>3 DEF SearchInv, JobInv
<1> HIDE DEF n
<1>5. \A r : Saving(r)' = Saving(r) /\ Prefix(r)' = Prefix(r)
  BY <1>1, SavingStays
<1>6. \A i \in 1 .. job.row :
         \A r, p : r = job.report /\ p = Prefix(r) => Stored(r, i, p)'
  <2>1. \A r, i, p : Stored(r, i, p) => Stored(r, i, p)'
    BY <1>1, StoredStays
  <2>2. \A r, i, p : r = job.report /\ i = job.row /\ p = Prefix(r) => Stored(r, i, p)'
    BY <1>1, DocumentIs DEF Stored
  <2> QED
    BY <1>1, <1>4, <2>1, <2>2 DEF SearchInv, ProgressInv
<1>7. CASE job.row < n
  <2>1. job' = [job EXCEPT !.step = "create", !.row = job.row + 1] /\ UNCHANGED broken
    BY <1>7 DEF SaveDocument, n
  <2>2. /\ job.row \in Nat /\ job.row + 1 \in Nat
        /\ job.row + 1 \in 1 .. n /\ job.row + 1 - 1 = job.row
    BY <1>3, <1>4, <1>7
  <2>3. /\ job' \in JobRecord
        /\ job'.step = "create" /\ job'.report = job.report /\ job'.row = job.row + 1
    BY <1>2, <2>1, <2>2 DEF JobRecord
  <2>4. Storing'
    BY <2>3 DEF Storing
  <2>5. JobInv'
    BY <1>3, <1>5, <2>2, <2>3 DEF JobInv
  <2>6. ProgressInv'
    <3>1. 1 .. job'.row - 1 = 1 .. job.row
      BY <2>2, <2>3
    <3> QED
      BY <1>5, <1>6, <2>3, <3>1 DEF ProgressInv
  <2>7. DocumentsInv' /\ WholeInv'
    BY <1>1, <2>1, <2>3, <2>4, DocumentsStay
  <2> QED
    BY <1>1, <2>5, <2>6, <2>7 DEF SearchInv
<1>8. CASE ~(job.row < n)
  <2>1. Ends("saved")
    BY <1>8 DEF SaveDocument, n
  <2>2. job.row = n
    BY <1>3, <1>4, <1>8
  <2>3. \A r, p : r = job.report /\ p = Prefix(r) => StoredWhole(r, p)'
    BY <1>3, <1>5, <1>6, <2>2 DEF StoredWhole, Stored
  <2> QED
    BY <1>1, <2>1, <2>3, EndsKeeps DEF Ends
<1> QED
  BY <1>7, <1>8

LEMMA SearchStepKeeps == SearchInv /\ [SearchNext]_searchVars => SearchInv'
<1> SUFFICES ASSUME SearchInv, [SearchNext]_searchVars PROVE SearchInv'
  OBVIOUS
<1>1. CASE UNCHANGED searchVars
  <2> USE <1>1 DEF searchVars
  <2>1. \A r : Saving(r)' = Saving(r) /\ Prefix(r)' = Prefix(r)
    BY SavingStays
  <2>2. JobInv' /\ Storing' = Storing
    BY <2>1 DEF SearchInv, JobInv, Storing
  <2>3. ProgressInv'
    BY <2>1, <2>2 DEF SearchInv, ProgressInv, Stored
  <2>4. DocumentsInv' /\ WholeInv'
    BY <2>1, <2>2 DEF SearchInv, DocumentsInv, WholeInv, StoredWhole
  <2> QED
    BY <2>2, <2>3, <2>4 DEF SearchInv
<1>2. ASSUME NEW d \in Deployments, Reconfigure(d) PROVE SearchInv'
  <2> USE <1>2 DEF Reconfigure
  <2>1. \A r : Saving(r)' = Saving(r)
    BY DEF Saving
  <2>2. ~Storing /\ ~Storing'
    BY DEF Storing, Idle
  <2>3. JobInv' /\ ProgressInv'
    BY <2>2 DEF SearchInv, JobInv, ProgressInv
  <2>4. DocumentsInv' /\ WholeInv'
    BY <2>1, <2>2 DEF SearchInv, DocumentsInv, WholeInv, StoredWhole
  <2> QED
    BY <2>3, <2>4 DEF SearchInv
<1>3. CASE RefreshIndexes
  BY <1>3, RefreshKeeps
<1>4. ASSUME NEW r \in Reports, Save(r) PROVE SearchInv'
  BY <1>4, SaveKeeps
<1>5. CASE AlreadySaved \/ SearchFails
  BY <1>5, SearchEnds
<1>6. CASE NotFound
  BY <1>6, NotFoundKeeps
<1>7. CASE CreateIndex
  BY <1>7, CreateKeeps
<1>8. CASE SaveDocument
  BY <1>8, SaveDocumentKeeps
<1>9. CASE SaveFails
  BY <1>9, SaveFailsKeeps
<1>10. CASE Killed
  BY <1>10, KilledKeeps
<1> QED
  BY <1>1, <1>2, <1>3, <1>4, <1>5, <1>6, <1>7, <1>8, <1>9, <1>10 DEF SearchNext

LEMMA OutcomesKept == OutcomeInv /\ [SearchNext]_searchVars => OutcomeInv'
BY DEF OutcomeInv, searchVars, SearchNext, Reconfigure, RefreshIndexes, Save,
       AlreadySaved, NotFound, SearchFails, CreateIndex, SaveDocument, SaveFails,
       Killed, Ends, Goes

(***************************************************************************)
(* The inductive invariant of SearchIndex, for every set of reports,       *)
(* deployments and tenants and any number of saves and failing calls.      *)
(***************************************************************************)
THEOREM SearchInvariant == SearchSpec => [](SearchInv /\ OutcomeInv)
<1>1. SearchInit => OutcomeInv
  BY DEF SearchInit, OutcomeInv
<1> QED
  BY <1>1, SearchInitInv, SearchStepKeeps, OutcomesKept, PTL DEF SearchSpec

(***************************************************************************)
(* A report of which a document can be searched for, under its prefix and  *)
(* suffix, is not saved again: the query of its own kind finds each of its *)
(* documents, whichever deployment saved it.                               *)
(***************************************************************************)
THEOREM SavedAreRecognized == SearchSpec => RecognizesItself
<1>1. SearchInv /\ [SearchNext]_searchVars =>
        [SavesAnew /\ Searchable(job.report) /\ now.suffix # <<<<>>>>
         => \A d \in documents :
               d.seen /\ d.of = job.report /\ d.at.prefix = Prefix(job.report)
               => d.at.suffix # Index.suffix]_searchVars
  <2> SUFFICES ASSUME SearchInv, SearchNext, SavesAnew,
                      Searchable(job.report), now.suffix # <<<<>>>>,
                      NEW d \in documents, d.seen, d.of = job.report,
                      d.at.prefix = Prefix(job.report),
                      d.at.suffix = Index.suffix
               PROVE  FALSE
    BY DEF searchVars, SavesAnew
  <2>1. job \in JobRecord /\ job.report \in Reports
    BY DEF SearchInv, JobInv, SavesAnew, At, Idle, JobRecord
  <2>2. Existing(job.report) = {}
    BY <2>1 DEF SavesAnew, SearchNext, Reconfigure, RefreshIndexes, Save, AlreadySaved, NotFound,
                SearchFails, CreateIndex, SaveDocument, SaveFails, Killed, At, Ends, Idle, JobRecord
  <2>3. \A c \in Saving(job.report).query : Satisfies(d.fields, c)
    BY <2>1, OwnMatch DEF SearchInv, DocumentsInv
  <2>4. now.suffix # <<>> =>
           d.at.suffix # <<>> /\ Begins(d.at.suffix, now.suffix[1])
    <3> SUFFICES ASSUME now.suffix # <<>>
                 PROVE  d.at.suffix # <<>> /\ Begins(d.at.suffix, now.suffix[1])
      OBVIOUS
    <3>1. now.suffix \in Seq(Text) /\ Len(now.suffix) <= 1
      BY DeploymentsAssumption DEF SearchInv
    <3>2. PICK letters \in Text : now.suffix = <<letters>>
      BY <3>1
    <3>3. d.at.suffix = letters /\ letters # <<>>
      BY <3>2 DEF Index, IndexOf
    <3>4. Len(letters) \in Nat /\ SubSeq(letters, 1, Len(letters)) = letters
      BY <3>2 DEF Text
    <3> QED
      BY <3>2, <3>3, <3>4 DEF Begins
  <2>5. d \in Existing(job.report)
    BY <2>3, <2>4 DEF Existing, Searched, SearchInv, DocumentsInv
  <2> QED
    BY <2>2, <2>5
<1> QED
  BY <1>1, SearchInvariant, PTL DEF SearchSpec, RecognizesItself

(***************************************************************************)
(* A report that is passed over is stored as a whole under the prefix it   *)
(* belongs to, or a look-alike is, unless a save of it broke off, by an    *)
(* error or by the death of the process.                                   *)
(***************************************************************************)
THEOREM SkippedReportsAreStored == SearchSpec => SkippedIsStored
<1>1. SearchInv /\ OutcomeInv /\ [SearchNext]_searchVars =>
        [At("search") /\ job' = Idle /\ outcome'[job.report] = "skipped"
         => \E q \in {job.report} \cup {p \in Reports \cup Older : LookAlike(job.report, p)} :
               q \in broken \/ StoredWhole(q, Prefix(job.report))]_searchVars
  <2> SUFFICES ASSUME SearchInv, OutcomeInv, SearchNext, At("search"), job' = Idle,
                      outcome'[job.report] = "skipped"
               PROVE  \E q \in {p \in Reports \cup Older : LookAlike(job.report, p)} :
                         q \in broken \/ StoredWhole(q, Prefix(job.report))
    BY DEF searchVars
  <2>1. job \in JobRecord /\ job.report \in Reports
    BY DEF SearchInv, JobInv, At, Idle, JobRecord
  <2>2. Existing(job.report) # {}
    <3>1. DOMAIN outcome = Reports
      BY DEF OutcomeInv
    <3>2. ASSUME NEW how, how # "skipped", Ends(how) PROVE FALSE
      BY <2>1, <3>1, <3>2 DEF Ends
    <3>3. ~NotFound
      <4> SUFFICES ASSUME NotFound, ~Ends("saved") PROVE FALSE
        BY <3>2
      <4> QED
        BY DEF NotFound, Goes, Idle, JobRecord
    <3>4. ~SearchFails /\ ~Killed
      BY <3>2 DEF SearchFails, Killed
    <3>5. job # Idle
      BY DEF At, Idle
    <3>6. ~CreateIndex /\ ~SaveDocument /\ ~SaveFails
      BY DEF CreateIndex, SaveDocument, SaveFails, At
    <3>7. ~RefreshIndexes /\ \A d : ~Reconfigure(d)
      BY <3>5 DEF RefreshIndexes, Reconfigure
    <3>8. \A r : ~Save(r)
      BY <3>5 DEF Save
    <3>9. AlreadySaved
      BY <3>3, <3>4, <3>6, <3>7, <3>8 DEF SearchNext
    <3> QED
      BY <3>9 DEF AlreadySaved
  <2>3. PICK d \in documents : d \in Existing(job.report)
    BY <2>2 DEF Existing
  <2>4. /\ d.at.prefix = Prefix(job.report)
        /\ d.at.base \in Saving(job.report).searched
        /\ \A c \in Saving(job.report).query : Satisfies(d.fields, c)
    BY <2>3 DEF Existing, Searched
  <2>5. LookAlike(job.report, d.of) /\ d.of \in Reports \cup Older
    BY <2>1, <2>4, MatchIsLookAlike DEF SearchInv, DocumentsInv
  <2>6. d.of \in broken \/ StoredWhole(d.of, d.at.prefix)
    BY DEF SearchInv, WholeInv, Storing, At
  <2> QED
    BY <2>4, <2>5, <2>6
<1> QED
  BY <1>1, SearchInvariant, PTL DEF SearchSpec, SkippedIsStored

=============================================================================
