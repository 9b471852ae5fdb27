-------------------------- MODULE ParallelMapProofs --------------------------
(***************************************************************************)
(* Theorems about ParallelMap, for every number of jobs and workers, every *)
(* window and every prefetch: results keep the order of the jobs and stay  *)
(* paired with their messages, the window is never exceeded, and a stop    *)
(* request drops no finished work.                                         *)
(***************************************************************************)
EXTENDS ParallelMap, SequenceTheorems, TLAPS

(***************************************************************************)
(* What a step may rely on: the window holds consecutive jobs up to the    *)
(* last one fetched, the caller's id queue the jobs that it has not        *)
(* handled, and the jobs that were fetched are yielded or in the window.   *)
(***************************************************************************)
Underway == {"prime", "wait", "yield", "refill"}

QueuesInv ==
    /\ pc # "raised" =>
          \A i \in 1 .. Len(window) : window[i] = fetched - Len(window) + i
    /\ \A i \in 1 .. Len(ids) : ids[i] = Len(pairs) + i
    /\ Len(ids) = fetched - Len(pairs)

LengthInv ==
    /\ Len(pairs) = IF pc = "yield" THEN Len(results) - 1 ELSE Len(results)
    /\ pc \in Underway => Len(results) + Len(window) = fetched
    /\ pc = "drain" => Len(results) + Len(window) <= fetched
    /\ pc = "wait" => window # <<>>
    /\ pc = "yield" => results # <<>>
    /\ fetched - Len(results) <= WindowSize
    /\ pc \in {"yield", "refill", "drain"} => fetched - Len(results) < WindowSize

HandledInv == \A i \in 1 .. Len(pairs) : pairs[i] = <<i, i>>

OrderInv == TypeOK /\ InSubmissionOrder /\ QueuesInv /\ LengthInv /\ HandledInv

(***************************************************************************)
(* The states of the jobs: yielded ones are done, the ones not fetched are *)
(* new, jobs are started and cancelled in their order, and what a stop     *)
(* request left behind was cancelled.                                      *)
(***************************************************************************)
FutureInv ==
    /\ \A j \in Jobs : j <= Len(results) => future[j] = "done"
    /\ \A j \in Jobs : j > fetched => future[j] = "new"
    /\ \A i, j \in Jobs : future[i] = "queued" /\ i < j => future[j] \in {"queued", "new"}
    /\ \A i, j \in Jobs : future[i] = "cancelled" /\ i < j => future[j] \in {"cancelled", "new"}
    /\ \A j \in Jobs : future[j] = "cancelled" => pc \in {"drain", "done", "raised"}
    /\ pc \in {"drain", "done"} => \A j \in Jobs : future[j] # "queued"

StopInv ==
    /\ pc = "drain" =>
          /\ stop
          /\ \A j \in Jobs : Len(results) < j /\ j <= fetched - Len(window)
                                => future[j] = "cancelled"
    /\ pc = "done" =>
          /\ \A j \in Jobs : Len(results) < j => future[j] \in {"cancelled", "new"}
          /\ ~stop => Len(results) = N

PoolInv == OrderInv /\ FutureInv /\ StopInv

-----------------------------------------------------------------------------
LEMMA WindowPositive == WindowSize \in Nat \ {0}
<1>1. WindowFactor * NProcs \in Int
    BY PoolAssumption
<1> QED BY <1>1 DEF WindowSize

States == {"new", "queued", "running", "done", "failed", "cancelled"}

LEMMA Lengths ==
    ASSUME TypeOK
    PROVE  /\ Len(window) \in Nat /\ Len(results) \in Nat
           /\ Len(ids) \in Nat /\ Len(pairs) \in Nat /\ fetched \in Nat
           /\ window # <<>> => Len(window) > 0
           /\ results # <<>> => Len(results) > 0
BY PoolAssumption, LenProperties, EmptySeq DEF TypeOK

LEMMA OrderInit == Init => OrderInv
<1> SUFFICES ASSUME Init PROVE OrderInv
    OBVIOUS
<1>1. fetched \in 0 .. N /\ future \in [Jobs -> States]
    BY PoolAssumption DEF Init, States
<1>2. /\ <<>> \in Seq(Jobs) /\ <<>> \in Seq(Jobs \X Jobs)
      /\ Len(<<>>) = 0
    BY EmptySeq
<1>3. TypeOK
    BY <1>1, <1>2 DEF Init, TypeOK, States
<1>4. /\ Len(pairs) = 0 /\ Len(results) = 0 /\ Len(window) = 0 /\ Len(ids) = 0
      /\ fetched = 0 /\ pc = "prime"
    BY <1>2 DEF Init
<1>5. QueuesInv
    BY <1>4 DEF QueuesInv
<1>6. HandledInv /\ InSubmissionOrder
    BY <1>4 DEF HandledInv, InSubmissionOrder
<1>7. LengthInv
    <2>1. pc = "prime"
        BY DEF Init
    <2> QED BY <1>4, <2>1, WindowPositive DEF LengthInv, Underway
<1> QED BY <1>3, <1>5, <1>6, <1>7 DEF OrderInv

(***************************************************************************)
(* Taking a job from the iterator appends it to the window and to the id   *)
(* queue.                                                                  *)
(***************************************************************************)
LEMMA SubmitOrder ==
    ASSUME OrderInv, fetched < N, Submit, pc \in {"prime", "refill"},
           pc = "prime" => Len(window) < WindowSize,
           pc' = IF pc = "prime" THEN "prime" ELSE "wait",
           UNCHANGED <<results, pairs, stop, broken>>
    PROVE  OrderInv'
<1> USE Lengths, WindowPositive DEF OrderInv
<1>1. fetched + 1 \in Jobs /\ fetched' = fetched + 1 /\ fetched' \in 0 .. N
    BY PoolAssumption DEF TypeOK, Jobs, Submit
<1>2. /\ window' \in Seq(Jobs) /\ window' # <<>>
      /\ Len(window') = Len(window) + 1
      /\ \A i \in 1 .. Len(window) : window'[i] = window[i]
      /\ window'[Len(window) + 1] = fetched + 1
    BY <1>1, AppendProperties DEF TypeOK, Submit
<1>3. /\ ids' \in Seq(Jobs)
      /\ Len(ids') = Len(ids) + 1
      /\ \A i \in 1 .. Len(ids) : ids'[i] = ids[i]
      /\ ids'[Len(ids) + 1] = fetched + 1
    BY <1>1, AppendProperties DEF TypeOK, Submit
<1>4. TypeOK'
    BY <1>1, <1>2, <1>3 DEF TypeOK, Submit
<1>5. QueuesInv'
    <2>1. \A i \in 1 .. Len(window') : window'[i] = fetched' - Len(window') + i
        <3> TAKE i \in 1 .. Len(window')
        <3>1. CASE i = Len(window) + 1
            BY <3>1, <1>1, <1>2
        <3>2. CASE i \in 1 .. Len(window)
            BY <3>2, <1>1, <1>2 DEF QueuesInv
        <3> QED BY <3>1, <3>2, <1>2
    <2>2. \A i \in 1 .. Len(ids') : ids'[i] = Len(pairs') + i
        <3> TAKE i \in 1 .. Len(ids')
        <3>1. CASE i = Len(ids) + 1
            BY <3>1, <1>1, <1>3 DEF QueuesInv
        <3>2. CASE i \in 1 .. Len(ids)
            BY <3>2, <1>3 DEF QueuesInv
        <3> QED BY <3>1, <3>2, <1>3
    <2>3. Len(ids') = fetched' - Len(pairs')
        BY <1>1, <1>3 DEF QueuesInv
    <2> QED BY <2>1, <2>2, <2>3 DEF QueuesInv
<1>6. LengthInv'
    BY <1>1, <1>2 DEF LengthInv, Underway
<1>7. InSubmissionOrder' /\ HandledInv'
    BY DEF InSubmissionOrder, HandledInv
<1> QED BY <1>4, <1>5, <1>6, <1>7

LEMMA SubmitRaisesOrder ==
    ASSUME OrderInv, fetched < N, SubmitRaises, pc \in {"prime", "refill"},
           pc = "prime" => Len(window) < WindowSize,
           UNCHANGED <<results, pairs, stop, broken>>
    PROVE  OrderInv'
<1> USE Lengths, WindowPositive DEF OrderInv
<1>1. fetched + 1 \in Jobs /\ fetched' = fetched + 1 /\ fetched' \in 0 .. N
    BY PoolAssumption DEF TypeOK, Jobs, SubmitRaises
<1>2. /\ ids' \in Seq(Jobs)
      /\ Len(ids') = Len(ids) + 1
      /\ \A i \in 1 .. Len(ids) : ids'[i] = ids[i]
      /\ ids'[Len(ids) + 1] = fetched + 1
    BY <1>1, AppendProperties DEF TypeOK, SubmitRaises
<1>3. TypeOK'
    BY <1>1, <1>2 DEF TypeOK, SubmitRaises
<1>4. QueuesInv'
    <2>1. \A i \in 1 .. Len(ids') : ids'[i] = Len(pairs') + i
        <3> TAKE i \in 1 .. Len(ids')
        <3>1. CASE i = Len(ids) + 1
            BY <3>1, <1>1, <1>2 DEF QueuesInv
        <3>2. CASE i \in 1 .. Len(ids)
            BY <3>2, <1>2 DEF QueuesInv
        <3> QED BY <3>1, <3>2, <1>2
    <2>2. Len(ids') = fetched' - Len(pairs')
        BY <1>1, <1>2 DEF QueuesInv
    <2> QED BY <2>1, <2>2 DEF QueuesInv, SubmitRaises
<1>5. LengthInv'
    BY <1>1 DEF LengthInv, Underway, SubmitRaises
<1>6. InSubmissionOrder' /\ HandledInv'
    BY DEF InSubmissionOrder, HandledInv
<1> QED BY <1>3, <1>4, <1>5, <1>6

(***************************************************************************)
(* The oldest job leaves the window, with or without a result.             *)
(***************************************************************************)
LEMMA WindowTail ==
    ASSUME OrderInv, window # <<>>, pc # "raised", window' = Tail(window)
    PROVE  /\ window' \in Seq(Jobs)
           /\ Len(window') = Len(window) - 1
           /\ Head(window) \in Jobs
           /\ Head(window) = fetched - Len(window) + 1
           /\ \A i \in 1 .. Len(window') : window'[i] = fetched - Len(window') + i
<1> USE Lengths DEF OrderInv
<1>1. /\ window' \in Seq(Jobs)
      /\ Len(window') = Len(window) - 1
      /\ Head(window) \in Jobs
      /\ \A i \in 1 .. Len(window') : window'[i] = window[i + 1]
    BY HeadTailProperties DEF TypeOK
<1>2. Head(window) = window[1]
    BY DEF TypeOK
<1> QED BY <1>1, <1>2 DEF QueuesInv

LEMMA ResultsAppend ==
    ASSUME OrderInv, NEW j \in Jobs, j = Len(results) + 1,
           results' = Append(results, j)
    PROVE  /\ results' \in Seq(Jobs) /\ results' # <<>>
           /\ Len(results') = Len(results) + 1
           /\ results'[Len(results')] = j
           /\ InSubmissionOrder'
<1> USE Lengths DEF OrderInv
<1>1. /\ results' \in Seq(Jobs) /\ results' # <<>>
      /\ Len(results') = Len(results) + 1
      /\ \A i \in 1 .. Len(results) : results'[i] = results[i]
      /\ results'[Len(results) + 1] = j
    BY AppendProperties DEF TypeOK
<1> QED BY <1>1 DEF InSubmissionOrder

(***************************************************************************)
(* The caller takes the oldest id from its queue for the newest result.    *)
(***************************************************************************)
LEMMA PairAppend ==
    ASSUME OrderInv, NEW j \in Jobs, j = Len(pairs) + 1, ids # <<>>,
           pairs' = Append(pairs, <<Head(ids), j>>), ids' = Tail(ids)
    PROVE  /\ pairs' \in Seq(Jobs \X Jobs) /\ ids' \in Seq(Jobs)
           /\ Len(pairs') = Len(pairs) + 1
           /\ Len(ids') = Len(ids) - 1
           /\ HandledInv'
           /\ \A i \in 1 .. Len(ids') : ids'[i] = Len(pairs') + i
<1> USE Lengths DEF OrderInv
<1>1. /\ ids' \in Seq(Jobs)
      /\ Len(ids') = Len(ids) - 1
      /\ Head(ids) \in Jobs
      /\ \A i \in 1 .. Len(ids') : ids'[i] = ids[i + 1]
    BY HeadTailProperties DEF TypeOK
<1>2. Head(ids) = j
    <2>1. Head(ids) = ids[1] /\ Len(ids) > 0
        BY EmptySeq DEF TypeOK
    <2> QED BY <2>1 DEF QueuesInv
<1>3. /\ pairs' \in Seq(Jobs \X Jobs)
      /\ Len(pairs') = Len(pairs) + 1
      /\ \A i \in 1 .. Len(pairs) : pairs'[i] = pairs[i]
      /\ pairs'[Len(pairs) + 1] = <<Head(ids), j>>
    <2>1. <<Head(ids), j>> \in Jobs \X Jobs
        BY <1>1
    <2> QED BY <2>1, AppendProperties DEF TypeOK
<1>4. HandledInv'
    BY <1>2, <1>3 DEF HandledInv
<1>5. \A i \in 1 .. Len(ids') : ids'[i] = Len(pairs') + i
    BY <1>1, <1>3 DEF QueuesInv
<1> QED BY <1>1, <1>3, <1>4, <1>5

(***************************************************************************)
(* The generator and its caller keep the queues in step.                   *)
(***************************************************************************)
LEMMA PrimeOrder == OrderInv /\ Prime => OrderInv'
<1> SUFFICES ASSUME OrderInv, Prime PROVE OrderInv'
    OBVIOUS
<1>1. CASE fetched < N /\ Len(window) < WindowSize /\ Submit /\ UNCHANGED pc
    BY <1>1, SubmitOrder DEF Prime
<1>2. CASE fetched < N /\ Len(window) < WindowSize /\ SubmitRaises
    BY <1>2, SubmitRaisesOrder DEF Prime
<1>3. CASE /\ pc' = IF window = <<>> THEN "done" ELSE "wait"
           /\ UNCHANGED <<fetched, ids, window, future>>
    BY <1>3, Lengths DEF Prime, OrderInv, TypeOK, QueuesInv, LengthInv, HandledInv,
                         InSubmissionOrder, Underway
<1> QED BY <1>1, <1>2, <1>3 DEF Prime

LEMMA HarvestOrder == OrderInv /\ Harvest => OrderInv'
<1> SUFFICES ASSUME OrderInv, Harvest PROVE OrderInv'
    OBVIOUS
<1> USE Lengths DEF OrderInv
<1>1. window # <<>> /\ pc = "wait" /\ window' = Tail(window)
    BY DEF Harvest, LengthInv
<1>2. /\ window' \in Seq(Jobs) /\ Len(window') = Len(window) - 1
      /\ Head(window) \in Jobs /\ Head(window) = Len(results) + 1
      /\ \A i \in 1 .. Len(window') : window'[i] = fetched - Len(window') + i
    <2>1. Len(results) + Len(window) = fetched
        BY <1>1 DEF LengthInv, Underway
    <2>2. pc # "raised"
        BY <1>1
    <2> HIDE DEF OrderInv
    <2>3. /\ window' \in Seq(Jobs) /\ Len(window') = Len(window) - 1
          /\ Head(window) \in Jobs /\ Head(window) = fetched - Len(window) + 1
          /\ \A i \in 1 .. Len(window') : window'[i] = fetched - Len(window') + i
        BY <1>1, <2>2, WindowTail
    <2> QED BY <2>1, <2>3 DEF OrderInv
<1>3. CASE pc' = "yield" /\ results' = Append(results, Head(window))
    <2>1. /\ results' \in Seq(Jobs) /\ results' # <<>>
          /\ Len(results') = Len(results) + 1
          /\ InSubmissionOrder'
        BY <1>2, <1>3, ResultsAppend
    <2>2. TypeOK'
        BY <1>2, <1>3, <2>1 DEF Harvest, TypeOK
    <2>3. QueuesInv' /\ HandledInv'
        BY <1>2 DEF Harvest, QueuesInv, HandledInv
    <2>4. LengthInv'
        <3>1. UNCHANGED <<pairs, fetched>>
            BY DEF Harvest
        <3> QED BY <1>1, <1>2, <1>3, <2>1, <3>1, WindowPositive DEF LengthInv, Underway
    <2> QED BY <2>1, <2>2, <2>3, <2>4
<1>4. CASE pc' = "raised" /\ UNCHANGED results
    <2>1. TypeOK'
        BY <1>2, <1>4 DEF Harvest, TypeOK
    <2>2. QueuesInv' /\ HandledInv' /\ InSubmissionOrder'
        BY <1>2, <1>4 DEF Harvest, QueuesInv, HandledInv, InSubmissionOrder
    <2>3. LengthInv'
        BY <1>1, <1>4 DEF Harvest, LengthInv, Underway
    <2> QED BY <2>1, <2>2, <2>3
<1> QED BY <1>3, <1>4 DEF Harvest

LEMMA HandleOrder == OrderInv /\ Handle => OrderInv'
<1> SUFFICES ASSUME OrderInv, Handle PROVE OrderInv'
    OBVIOUS
<1> USE Lengths DEF OrderInv
<1>1. /\ pc = "yield" /\ pc' = "refill" /\ results # <<>>
      /\ Len(pairs) + 1 = Len(results)
    BY DEF Handle, LengthInv
<1>2. results[Len(results)] = Len(results) /\ Len(results) \in Jobs
    <2>1. results[Len(results)] \in Jobs
        BY <1>1 DEF TypeOK
    <2>2. results[Len(results)] = Len(results)
        BY <1>1 DEF InSubmissionOrder
    <2> QED BY <2>1, <2>2
<1>3. ids # <<>>
    <2>1. Len(ids) > 0
        BY <1>1 DEF QueuesInv, LengthInv, Underway
    <2> QED BY <2>1, EmptySeq
<1>4. /\ pairs' = Append(pairs, <<Head(ids), Len(results)>>)
      /\ ids' = Tail(ids)
    BY <1>2 DEF Handle
<1>5. /\ pairs' \in Seq(Jobs \X Jobs) /\ ids' \in Seq(Jobs)
      /\ Len(pairs') = Len(pairs) + 1
      /\ Len(ids') = Len(ids) - 1
      /\ HandledInv'
      /\ \A i \in 1 .. Len(ids') : ids'[i] = Len(pairs') + i
    BY <1>1, <1>2, <1>3, <1>4, PairAppend
<1>6. TypeOK'
    BY <1>1, <1>5 DEF Handle, TypeOK
<1>7. QueuesInv'
    BY <1>1, <1>5 DEF Handle, QueuesInv
<1>8. InSubmissionOrder'
    BY DEF Handle, InSubmissionOrder
<1>9. LengthInv'
    <2>1. UNCHANGED <<results, window, fetched>>
        BY DEF Handle
    <2> QED BY <1>1, <1>5, <2>1 DEF LengthInv, Underway
<1> QED BY <1>5, <1>6, <1>7, <1>8, <1>9

LEMMA RefillOrder == OrderInv /\ Refill => OrderInv'
<1> SUFFICES ASSUME OrderInv, Refill PROVE OrderInv'
    OBVIOUS
<1>1. CASE fetched < N /\ Submit /\ pc' = "wait"
    <2>1. pc = "refill" /\ UNCHANGED <<results, pairs, stop, broken>>
        BY DEF Refill
    <2> QED BY <1>1, <2>1, SubmitOrder
<1>2. CASE fetched < N /\ SubmitRaises
    BY <1>2, SubmitRaisesOrder DEF Refill
<1>3. CASE /\ pc' = IF window = <<>> THEN "done" ELSE "wait"
           /\ UNCHANGED <<fetched, ids, window, future>>
    BY <1>3, Lengths DEF Refill, OrderInv, TypeOK, QueuesInv, LengthInv, HandledInv,
                         InSubmissionOrder, Underway
<1> QED BY <1>1, <1>2, <1>3 DEF Refill

(***************************************************************************)
(* Jobs are cancelled from the first that was not started on, so that no   *)
(* finished job of the window follows a gap.                               *)
(***************************************************************************)
LEMMA DrainHead ==
    ASSUME OrderInv, FutureInv, StopInv, pc = "drain", window # <<>>,
           future[Head(window)] = "done"
    PROVE  Head(window) = Len(results) + 1
<1> USE Lengths
<1>1. Head(window) \in Jobs
    BY HeadTailProperties DEF OrderInv, TypeOK
<1>2. Head(window) = fetched - Len(window) + 1
    <2>1. Head(window) = window[1] /\ Len(window) > 0
        BY DEF OrderInv, TypeOK
    <2> QED BY <2>1 DEF OrderInv, QueuesInv
<1>3. SUFFICES ASSUME Len(results) + Len(window) < fetched PROVE FALSE
    BY <1>2 DEF OrderInv, LengthInv
<1>4. Len(results) + 1 \in Jobs /\ Len(results) + 1 < Head(window)
    BY <1>1, <1>2, <1>3, PoolAssumption DEF OrderInv, TypeOK, Jobs
<1>5. future[Len(results) + 1] = "cancelled"
    BY <1>2, <1>3, <1>4 DEF OrderInv, StopInv
<1>6. future[Head(window)] \in {"cancelled", "new"}
    BY <1>1, <1>4, <1>5 DEF FutureInv
<1> QED BY <1>6

(***************************************************************************)
(* After a stop request what is left of the window is yielded in order.    *)
(***************************************************************************)
LEMMA DrainOrder == OrderInv /\ FutureInv /\ StopInv /\ Drain => OrderInv'
<1> SUFFICES ASSUME OrderInv, FutureInv, StopInv, Drain PROVE OrderInv'
    OBVIOUS
<1> USE Lengths DEF OrderInv
<1>1. pc = "drain" /\ Len(pairs) = Len(results) /\ Len(results) + Len(window) <= fetched
    BY DEF Drain, LengthInv
<1>2. CASE window = <<>> /\ pc' = "done" /\ UNCHANGED <<window, results, ids, pairs>>
    <2>1. TypeOK'
        BY <1>2 DEF Drain, TypeOK
    <2>2. QueuesInv' /\ HandledInv' /\ InSubmissionOrder'
        BY <1>1, <1>2 DEF Drain, QueuesInv, HandledInv, InSubmissionOrder
    <2>3. LengthInv'
        BY <1>1, <1>2 DEF Drain, LengthInv, Underway
    <2> QED BY <2>1, <2>2, <2>3
<1>3. CASE window # <<>> /\ window' = Tail(window)
    <2>1. /\ window' \in Seq(Jobs) /\ Len(window') = Len(window) - 1
          /\ Head(window) \in Jobs /\ Head(window) = fetched - Len(window) + 1
          /\ \A i \in 1 .. Len(window') : window'[i] = fetched - Len(window') + i
        BY <1>1, <1>3, WindowTail
    <2>2. UNCHANGED <<fetched, future, stop, broken>>
        BY DEF Drain
    <2>3. CASE pc' \in {pc, "raised"} /\ UNCHANGED <<results, ids, pairs>>
        <3>1. TypeOK'
            BY <2>1, <2>2, <2>3 DEF TypeOK
        <3>2. QueuesInv' /\ HandledInv' /\ InSubmissionOrder'
            BY <2>1, <2>2, <2>3 DEF QueuesInv, HandledInv, InSubmissionOrder
        <3>3. LengthInv'
            BY <1>1, <2>1, <2>2, <2>3 DEF LengthInv, Underway
        <3> QED BY <3>1, <3>2, <3>3
    <2>4. CASE /\ future[Head(window)] = "done" /\ pc' = pc
               /\ results' = Append(results, Head(window))
               /\ pairs' = Append(pairs, <<Head(ids), Head(window)>>)
               /\ ids' = Tail(ids)
        <3>1. Head(window) = Len(results) + 1
            BY <1>1, <1>3, <2>4, DrainHead
        <3>2. /\ results' \in Seq(Jobs) /\ results' # <<>>
              /\ Len(results') = Len(results) + 1
              /\ InSubmissionOrder'
            BY <2>1, <2>4, <3>1, ResultsAppend
        <3>3. ids # <<>>
            <4>1. Len(ids) > 0
                BY <1>1, <2>1, <3>1, <1>3 DEF QueuesInv
            <4> QED BY <4>1, EmptySeq
        <3>4. /\ pairs' \in Seq(Jobs \X Jobs) /\ ids' \in Seq(Jobs)
              /\ Len(pairs') = Len(pairs) + 1
              /\ Len(ids') = Len(ids) - 1
              /\ HandledInv'
              /\ \A i \in 1 .. Len(ids') : ids'[i] = Len(pairs') + i
            BY <1>1, <2>1, <2>4, <3>1, <3>3, PairAppend
        <3>5. TypeOK'
            BY <2>1, <2>2, <2>4, <3>2, <3>4 DEF TypeOK
        <3>6. QueuesInv'
            BY <2>1, <2>2, <3>4 DEF QueuesInv
        <3>7. LengthInv'
            BY <1>1, <2>1, <2>2, <2>4, <3>2, <3>4, WindowPositive DEF LengthInv, Underway
        <3> QED BY <3>2, <3>4, <3>5, <3>6, <3>7
    <2> QED BY <1>3, <2>3, <2>4 DEF Drain
<1> QED BY <1>2, <1>3 DEF Drain

(***************************************************************************)
(* The other steps leave the queues alone.                                 *)
(***************************************************************************)
LEMMA QueuesUntouched ==
    ASSUME OrderInv, TypeOK', UNCHANGED <<fetched, window, results, ids, pairs>>,
           \/ pc' \in {pc, "raised"} /\ pc # "yield"
           \/ pc' = pc
           \/ pc = "refill" /\ pc' = "drain"
    PROVE  OrderInv'
<1>1. QueuesInv' /\ HandledInv' /\ InSubmissionOrder'
    BY DEF OrderInv, QueuesInv, HandledInv, InSubmissionOrder
<1>2. LengthInv'
    BY Lengths DEF OrderInv, LengthInv, Underway
<1> QED BY <1>1, <1>2 DEF OrderInv

LEMMA OrderStep == PoolInv /\ [Next]_vars => OrderInv'
<1> SUFFICES ASSUME PoolInv, [Next]_vars PROVE OrderInv'
    OBVIOUS
<1> USE DEF PoolInv
<1>1. CASE Prime \/ Harvest \/ Handle \/ Refill \/ Drain
    BY <1>1, PrimeOrder, HarvestOrder, HandleOrder, RefillOrder, DrainOrder
<1>2. CASE Shutdown
    <2>1. TypeOK'
        BY <1>2 DEF OrderInv, TypeOK, Shutdown
    <2> QED BY <1>2, <2>1, QueuesUntouched DEF Shutdown
<1>3. CASE HeartbeatError \/ IteratorError
    <2>1. TypeOK'
        BY <1>3 DEF OrderInv, TypeOK, HeartbeatError, IteratorError
    <2> QED BY <1>3, <2>1, QueuesUntouched DEF HeartbeatError, IteratorError
<1>4. CASE Pool
    <2>1. TypeOK'
        BY <1>4 DEF OrderInv, TypeOK, Pool, Start, Finish
    <2> QED BY <1>4, <2>1, QueuesUntouched DEF Pool, Start, Finish
<1>5. CASE WorkerDies \/ RequestStop
    <2>1. TypeOK'
        BY <1>5 DEF OrderInv, TypeOK, WorkerDies, RequestStop
    <2> QED BY <1>5, <2>1, QueuesUntouched DEF WorkerDies, RequestStop
<1>6. CASE Ended \/ UNCHANGED vars
    <2>1. TypeOK'
        BY <1>6 DEF OrderInv, TypeOK, Ended, vars
    <2> QED BY <1>6, <2>1, QueuesUntouched DEF Ended, vars
<1> QED BY <1>1, <1>2, <1>3, <1>4, <1>5, <1>6 DEF Next, Generator

-----------------------------------------------------------------------------
LEMMA FutureInit == Init => FutureInv /\ StopInv
<1> SUFFICES ASSUME Init PROVE FutureInv /\ StopInv
    OBVIOUS
<1>1. Len(results) = 0 /\ fetched = 0 /\ pc = "prime"
    BY EmptySeq DEF Init
<1>2. \A j \in Jobs : future[j] = "new" /\ j > 0
    BY DEF Init, Jobs
<1> QED BY <1>1, <1>2 DEF FutureInv, StopInv, Jobs

(***************************************************************************)
(* A job that is fetched is behind all that were queued before it.         *)
(***************************************************************************)
LEMMA SubmitFuture ==
    ASSUME TypeOK, FutureInv, fetched < N, Submit,
           pc \in {"prime", "refill"}, pc' \in {"prime", "wait"}, UNCHANGED results
    PROVE  FutureInv'
<1>1. fetched + 1 \in Jobs /\ fetched \in Nat /\ fetched' = fetched + 1
    BY PoolAssumption DEF TypeOK, Jobs, Submit
<1>2. \A j \in Jobs : /\ j = fetched + 1 => future'[j] = "queued"
                      /\ j # fetched + 1 => future'[j] = future[j]
    BY <1>1 DEF TypeOK, Submit
<1>3. \A j \in Jobs : j >= fetched + 1 => future[j] = "new"
    BY <1>1 DEF FutureInv, Jobs
<1>4. \A j \in Jobs : future[j] # "cancelled"
    BY DEF FutureInv
<1>5. ASSUME NEW j \in Jobs
      PROVE  /\ j <= Len(results') => future'[j] = "done"
             /\ j > fetched' => future'[j] = "new"
             /\ future'[j] # "cancelled"
    <2>1. j \in Int /\ Len(results) \in Nat
        BY Lengths, PoolAssumption DEF Jobs
    <2>2. CASE j = fetched + 1
        BY <1>1, <1>2, <1>3, <2>1, <2>2 DEF FutureInv
    <2>3. CASE j # fetched + 1
        BY <1>1, <1>2, <1>3, <1>4, <2>1, <2>3 DEF FutureInv
    <2> QED BY <2>2, <2>3
<1>6. ASSUME NEW i \in Jobs, NEW j \in Jobs, future'[i] = "queued", i < j
      PROVE  future'[j] \in {"queued", "new"}
    <2>1. i \in Int /\ j \in Int
        BY PoolAssumption DEF Jobs
    <2>2. CASE j = fetched + 1
        BY <1>2, <2>2
    <2>3. CASE j # fetched + 1 /\ i = fetched + 1
        BY <1>1, <1>2, <1>3, <1>6, <2>1, <2>3
    <2>4. CASE j # fetched + 1 /\ i # fetched + 1
        BY <1>2, <1>6, <2>4 DEF FutureInv
    <2> QED BY <2>2, <2>3, <2>4
<1> QED BY <1>5, <1>6 DEF FutureInv

(***************************************************************************)
(* Steps that leave the futures and the yielded results alone.             *)
(***************************************************************************)
LEMMA FutureUntouched ==
    ASSUME FutureInv, UNCHANGED <<future, results>>,
           fetched' = fetched \/ fetched' = fetched + 1, TypeOK,
           pc' \in {"drain", "done"} => pc \in {"drain", "done"} \/ \A j \in Jobs : future[j] # "queued",
           pc \in {"drain", "done", "raised"} => pc' \in {"drain", "done", "raised"}
    PROVE  FutureInv'
<1>1. \A j \in Jobs : j > fetched' => future'[j] = "new"
    BY PoolAssumption DEF FutureInv, TypeOK, Jobs
<1> QED BY <1>1 DEF FutureInv

(***************************************************************************)
(* When nothing is left to fetch and the window is empty, every job was    *)
(* yielded.                                                                *)
(***************************************************************************)
LEMMA AllYielded ==
    ASSUME OrderInv, FutureInv, pc \in Underway, window = <<>>, fetched = N
    PROVE  Len(results) = N /\ \A j \in Jobs : future[j] = "done"
<1>1. Len(results) = N
    BY EmptySeq, Lengths DEF OrderInv, LengthInv
<1>2. \A j \in Jobs : j <= Len(results)
    BY <1>1, PoolAssumption DEF Jobs
<1> QED BY <1>1, <1>2 DEF FutureInv

LEMMA FetchFuture ==
    ASSUME OrderInv, FutureInv, Prime \/ Refill
    PROVE  FutureInv' /\ StopInv'
<1> USE DEF OrderInv
<1>1. CASE fetched < N /\ Submit /\ pc' \in {"prime", "wait"}
    <2>1. FutureInv'
        BY <1>1, SubmitFuture DEF Prime, Refill
    <2> QED BY <1>1, <2>1 DEF StopInv
<1>2. CASE SubmitRaises
    <2>1. FutureInv'
        BY <1>2, FutureUntouched DEF SubmitRaises, Prime, Refill
    <2> QED BY <1>2, <2>1 DEF StopInv, SubmitRaises
<1>3. CASE /\ pc' = IF window = <<>> THEN "done" ELSE "wait"
           /\ window = <<>> => fetched = N
           /\ UNCHANGED <<fetched, ids, window, future>>
    <2>1. UNCHANGED results /\ pc \in Underway
        BY DEF Prime, Refill, Underway
    <2>2. window = <<>> => Len(results) = N /\ \A j \in Jobs : future[j] = "done"
        BY <1>3, <2>1, AllYielded
    <2>3. FutureInv'
        BY <1>3, <2>1, <2>2, FutureUntouched DEF Underway
    <2>4. StopInv'
        BY <1>3, <2>1, <2>2, PoolAssumption DEF StopInv, Jobs
    <2> QED BY <2>3, <2>4
<1>4. window = <<>> => Len(window) # WindowSize
    BY EmptySeq, WindowPositive
<1> QED BY <1>1, <1>2, <1>3, <1>4 DEF Prime, Refill

LEMMA HarvestFuture ==
    ASSUME OrderInv, FutureInv, Harvest
    PROVE  FutureInv' /\ StopInv'
<1> USE DEF OrderInv
<1>1. StopInv'
    BY DEF Harvest, StopInv
<1>2. CASE UNCHANGED results
    BY <1>1, <1>2, FutureUntouched DEF Harvest
<1>3. CASE results' = Append(results, Head(window)) /\ future[Head(window)] = "done"
    <2>1. window # <<>> /\ pc = "wait" /\ window' = Tail(window)
        BY DEF Harvest, LengthInv
    <2>2. Head(window) \in Jobs /\ Head(window) = fetched - Len(window) + 1
        BY <2>1, WindowTail
    <2>3. Head(window) = Len(results) + 1
        <3>1. /\ Len(window) \in Nat /\ Len(results) \in Nat /\ fetched \in Nat
              /\ Len(results) + Len(window) = fetched
            BY <2>1, Lengths DEF LengthInv, Underway
        <3> QED BY <2>2, <3>1
    <2>4. Len(results') = Len(results) + 1
        BY <1>3, <2>2, <2>3, ResultsAppend
    <2>5. \A j \in Jobs : j <= Len(results') => future[j] = "done"
        BY <1>3, <2>3, <2>4, Lengths, PoolAssumption DEF FutureInv, Jobs
    <2> QED BY <1>1, <2>1, <2>5 DEF Harvest, FutureInv
<1> QED BY <1>2, <1>3 DEF Harvest

LEMMA ShutdownFuture ==
    ASSUME OrderInv, FutureInv, Shutdown
    PROVE  FutureInv' /\ StopInv'
<1> USE DEF OrderInv
<1>1. \A j \in Jobs : future'[j] = IF future[j] = "queued" THEN "cancelled" ELSE future[j]
    BY DEF Shutdown
<1>2. \A j \in Jobs : future[j] # "cancelled"
    BY DEF FutureInv, Shutdown
<1>3. FutureInv'
    BY <1>1, <1>2 DEF FutureInv, Shutdown
<1>4. StopInv'
    <2>1. Len(results) + Len(window) = fetched
        BY DEF LengthInv, Underway, Shutdown
    <2>2. \A j \in Jobs : ~(Len(results) < j /\ j <= fetched - Len(window))
        BY <2>1, Lengths, PoolAssumption DEF Jobs
    <2> QED BY <2>2 DEF StopInv, Shutdown
<1> QED BY <1>3, <1>4

LEMMA DrainFuture ==
    ASSUME OrderInv, FutureInv, StopInv, Drain
    PROVE  FutureInv' /\ StopInv'
<1> USE DEF OrderInv
<1>1. pc = "drain" /\ stop /\ UNCHANGED <<fetched, future, stop>>
    BY DEF Drain, StopInv
<1>2. CASE window = <<>> /\ pc' = "done" /\ UNCHANGED <<window, results>>
    <2>1. FutureInv'
        BY <1>1, <1>2, FutureUntouched
    <2>2. Len(window) = 0
        BY <1>2, EmptySeq
    <2>3. \A j \in Jobs : Len(results) < j => future[j] \in {"cancelled", "new"}
        BY <1>1, <2>2, Lengths, PoolAssumption DEF StopInv, FutureInv, Jobs
    <2> QED BY <1>1, <1>2, <2>1, <2>3 DEF StopInv
<1>3. CASE window # <<>> /\ pc' = "raised" /\ UNCHANGED results
    <2>1. FutureInv'
        BY <1>1, <1>3, FutureUntouched
    <2> QED BY <1>3, <2>1 DEF StopInv
<1>4. CASE /\ window # <<>> /\ window' = Tail(window) /\ pc' = pc
           /\ future[Head(window)] = "cancelled" /\ UNCHANGED results
    <2>1. FutureInv'
        BY <1>1, <1>4, FutureUntouched
    <2>2. /\ Len(window') = Len(window) - 1
          /\ Head(window) = fetched - Len(window) + 1
        BY <1>1, <1>4, WindowTail
    <2>3. \A j \in Jobs : j <= fetched - Len(window') =>
                              j <= fetched - Len(window) \/ j = Head(window)
        BY <2>2, Lengths, PoolAssumption DEF Jobs
    <2> QED BY <1>1, <1>4, <2>1, <2>3 DEF StopInv
<1>5. CASE /\ window # <<>> /\ window' = Tail(window) /\ pc' = pc
           /\ future[Head(window)] = "done" /\ results' = Append(results, Head(window))
    <2>1. Head(window) = Len(results) + 1
        BY <1>1, <1>5, DrainHead
    <2>2. /\ Head(window) \in Jobs /\ Len(window') = Len(window) - 1
          /\ Head(window) = fetched - Len(window) + 1
        BY <1>1, <1>5, WindowTail
    <2>3. Len(results') = Len(results) + 1
        BY <1>5, <2>1, <2>2, ResultsAppend
    <2>4. \A j \in Jobs : j <= Len(results') => future[j] = "done"
        BY <1>5, <2>1, <2>3, Lengths, PoolAssumption DEF FutureInv, Jobs
    <2>5. FutureInv'
        BY <1>1, <1>5, <2>4 DEF FutureInv
    <2>6. \A j \in Jobs : ~(Len(results') < j /\ j <= fetched - Len(window'))
        BY <2>1, <2>2, <2>3, Lengths, PoolAssumption DEF Jobs
    <2> QED BY <1>1, <1>5, <2>5, <2>6 DEF StopInv
<1> QED BY <1>2, <1>3, <1>4, <1>5 DEF Drain

(***************************************************************************)
(* The pool starts the oldest job that waits, and a job that runs ends.    *)
(***************************************************************************)
LEMMA PoolFuture ==
    ASSUME OrderInv, FutureInv, StopInv, Pool
    PROVE  FutureInv' /\ StopInv'
<1> USE DEF OrderInv
<1>1. PICK k \in Jobs : Start(k) \/ Finish(k)
    BY DEF Pool
<1>2. UNCHANGED <<pc, fetched, window, results, ids, pairs, stop, broken>>
    BY <1>1 DEF Start, Finish
<1>3. /\ future[k] \in {"queued", "running"}
      /\ future'[k] \in {"running", "done", "failed"}
      /\ \A j \in Jobs : j # k => future'[j] = future[j]
    BY <1>1 DEF TypeOK, Start, Finish
<1>4. \A i \in Jobs : i < k => future[i] # "queued"
    BY <1>1 DEF Start, Finish, FutureInv
<1>5. FutureInv'
    <2>1. \A j \in Jobs : future'[j] \in {"queued", "cancelled"} => j # k /\ future'[j] = future[j]
        BY <1>3
    <2>2. \A i \in Jobs : i < k => future[i] # "cancelled"
        BY <1>3 DEF FutureInv
    <2>3. ~(k > fetched) /\ ~(k <= Len(results))
        BY <1>3 DEF FutureInv
    <2>4. \A j \in Jobs : j <= Len(results') => future'[j] = "done"
        BY <1>2, <1>3, <2>3 DEF FutureInv
    <2>5. \A j \in Jobs : j > fetched' => future'[j] = "new"
        BY <1>2, <1>3, <2>3 DEF FutureInv
    <2>6. \A i, j \in Jobs : future'[i] = "queued" /\ i < j => future'[j] \in {"queued", "new"}
        BY <1>3, <1>4, <2>1 DEF FutureInv
    <2>7. \A i, j \in Jobs : future'[i] = "cancelled" /\ i < j => future'[j] \in {"cancelled", "new"}
        BY <1>3, <2>1, <2>2 DEF FutureInv
    <2> QED BY <1>2, <2>1, <2>4, <2>5, <2>6, <2>7 DEF FutureInv
<1>6. StopInv'
    BY <1>2, <1>3 DEF StopInv
<1> QED BY <1>5, <1>6

LEMMA FutureStep == PoolInv /\ [Next]_vars => FutureInv' /\ StopInv'
<1> SUFFICES ASSUME PoolInv, [Next]_vars PROVE FutureInv' /\ StopInv'
    OBVIOUS
<1> USE DEF PoolInv
<1>1. CASE Prime \/ Refill \/ Harvest \/ Shutdown \/ Drain \/ Pool
    BY <1>1, FetchFuture, HarvestFuture, ShutdownFuture, DrainFuture, PoolFuture
<1>2. CASE Handle \/ HeartbeatError \/ IteratorError
    <2>1. UNCHANGED <<future, results, fetched>> /\ pc \in Underway /\ pc' \in {"refill", "raised"}
        BY <1>2 DEF Handle, HeartbeatError, IteratorError, Underway
    <2>2. FutureInv'
        BY <2>1, FutureUntouched DEF OrderInv, Underway
    <2> QED BY <2>1, <2>2 DEF StopInv
<1>3. CASE WorkerDies
    <2>1. \A j \in Jobs : future'[j] = IF future[j] \in {"queued", "running"}
                                          THEN "failed" ELSE future[j]
        BY <1>3 DEF WorkerDies
    <2>2. UNCHANGED <<pc, fetched, window, results, stop>>
        BY <1>3 DEF WorkerDies
    <2> QED BY <2>1, <2>2 DEF FutureInv, StopInv
<1>4. CASE RequestStop
    BY <1>4 DEF RequestStop, FutureInv, StopInv
<1>5. CASE Ended \/ UNCHANGED vars
    BY <1>5 DEF Ended, vars, FutureInv, StopInv
<1> QED BY <1>1, <1>2, <1>3, <1>4, <1>5 DEF Next, Generator

LEMMA PoolInvariant == Spec => []PoolInv
<1>1. Init => PoolInv
    BY OrderInit, FutureInit DEF PoolInv
<1>2. PoolInv /\ [Next]_vars => PoolInv'
    BY OrderStep, FutureStep DEF PoolInv
<1> QED BY <1>1, <1>2, PTL DEF Spec

-----------------------------------------------------------------------------
(***************************************************************************)
(* Type correctness of the window and the queues of parallel_map().  It    *)
(* needs the whole invariant, since Head and Tail are applied to them.     *)
(***************************************************************************)
THEOREM PoolTypes == Spec => []TypeOK
BY PoolInvariant, PTL DEF PoolInv, OrderInv

(***************************************************************************)
(* Results are yielded in the order in which the jobs were submitted, for  *)
(* any number of jobs and workers and whatever ends first, dies or raises. *)
(***************************************************************************)
THEOREM OrderKept == Spec => []InSubmissionOrder
BY PoolInvariant, PTL DEF PoolInv, OrderInv

(***************************************************************************)
(* Every result is handled with the id of its own message.                 *)
(***************************************************************************)
THEOREM PairsMatch == Spec => []ResultsPaired
<1>1. HandledInv => ResultsPaired
    BY DEF HandledInv, ResultsPaired
<1> QED BY <1>1, PoolInvariant, PTL DEF PoolInv, OrderInv

(***************************************************************************)
(* Never are more jobs submitted ahead of the harvesting point, or ids     *)
(* queued, than the window has room for.                                   *)
(***************************************************************************)
THEOREM WindowKept == Spec => []WindowBounded
<1>1. OrderInv => WindowBounded
    <2> SUFFICES ASSUME OrderInv PROVE WindowBounded
        OBVIOUS
    <2>1. Len(ids) <= WindowSize
        BY Lengths, WindowPositive DEF OrderInv, QueuesInv, LengthInv
    <2> QED BY <2>1 DEF OrderInv, LengthInv, WindowBounded
<1> QED BY <1>1, PoolInvariant, PTL DEF PoolInv

(***************************************************************************)
(* When the generator is exhausted every finished job was yielded; without *)
(* a stop request every job was.                                           *)
(***************************************************************************)
THEOREM WorkKept == Spec => []NothingDropped
<1>1. PoolInv => NothingDropped
    <2> SUFFICES ASSUME PoolInv, pc = "done"
                 PROVE  /\ \A j \in Jobs : future[j] = "done" =>
                              \E i \in 1 .. Len(results) : results[i] = j
                        /\ ~stop => Len(results) = N
        BY DEF NothingDropped
    <2>1. ~stop => Len(results) = N
        BY DEF PoolInv, StopInv
    <2>2. ASSUME NEW j \in Jobs, future[j] = "done"
          PROVE  \E i \in 1 .. Len(results) : results[i] = j
        <3>1. ~(Len(results) < j)
            BY <2>2 DEF PoolInv, StopInv
        <3>2. j \in 1 .. Len(results)
            BY <3>1, Lengths, PoolAssumption DEF PoolInv, OrderInv, Jobs
        <3> QED BY <3>2 DEF PoolInv, OrderInv, InSubmissionOrder
    <2> QED BY <2>1, <2>2
<1> QED BY <1>1, PoolInvariant, PTL

=============================================================================
