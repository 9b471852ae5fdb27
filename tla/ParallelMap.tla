----------------------------- MODULE ParallelMap -----------------------------
(***************************************************************************)
(* parallel_map() of parsedmarc/parallel.py with its caller.               *)
(*                                                                         *)
(* The generator keeps a window of submitted futures, waits for the oldest *)
(* one, yields its result and refills the window by one job.  The caller   *)
(* (the parallel branch of get_dmarc_reports_from_mailbox) queues the id   *)
(* of every message the job iterator hands out and takes the oldest id for *)
(* every result, so results and ids must stay in step.  The pool runs jobs *)
(* concurrently and finishes them in any order; a worker can die, a job,   *)
(* the job iterator or the heartbeat can raise, and a shutdown request can *)
(* arrive at any moment.  The mailbox passes a heartbeat and the caller of *)
(* report files should_stop; here one caller may pass both.                *)
(*                                                                         *)
(* Jobs are numbered in the order in which the iterator hands them out.    *)
(***************************************************************************)
EXTENDS Integers, Sequences, FiniteSets

CONSTANTS
    N,              \* number of jobs
    NProcs,         \* n_procs
    WindowFactor,   \* window_factor
    Prefetch        \* jobs the pool hands to workers ahead of time

ASSUME PoolAssumption ==
    /\ N \in Nat
    /\ NProcs \in Nat \ {0}
    /\ WindowFactor \in Nat
    /\ Prefetch \in Nat

Jobs == 1 .. N

WindowSize == IF WindowFactor * NProcs > 1 THEN WindowFactor * NProcs ELSE 1

VARIABLES
    pc,         \* the generator: "prime", "wait", "yield", "refill", "drain",
                \* "done" or "raised"
    fetched,    \* jobs taken from the iterator
    window,     \* the deque of futures
    future,     \* state of each job's future
    results,    \* jobs whose results were yielded, in order
    ids,        \* the caller's queue of message ids (fetched_ids)
    pairs,      \* history: <<id, job>> for every result the caller handled
    stop,       \* should_stop() is true
    broken      \* the pool lost a worker and takes no more jobs

vars == <<pc, fetched, window, future, results, ids, pairs, stop, broken>>

Init ==
    /\ pc = "prime"
    /\ fetched = 0
    /\ window = <<>>
    /\ future = [j \in Jobs |-> "new"]
    /\ results = <<>>
    /\ ids = <<>>
    /\ pairs = <<>>
    /\ stop = FALSE
    /\ broken = FALSE

(***************************************************************************)
(* Take the next job, queue its id, submit it.                             *)
(***************************************************************************)
Submit ==
    LET j == fetched + 1
    IN  /\ fetched' = j
        /\ ids' = Append(ids, j)
        /\ window' = Append(window, j)
        /\ future' = [future EXCEPT ![j] = "queued"]

(***************************************************************************)
(* A broken pool raises instead of taking the job.                         *)
(***************************************************************************)
SubmitRaises ==
    /\ fetched' = fetched + 1
    /\ ids' = Append(ids, fetched + 1)
    /\ pc' = "raised"
    /\ UNCHANGED <<window, future>>

(***************************************************************************)
(* Fill the window before harvesting.                                      *)
(***************************************************************************)
Prime ==
    /\ pc = "prime"
    /\ \/ /\ fetched < N /\ Len(window) < WindowSize
          /\ \/ ~broken /\ Submit /\ UNCHANGED pc
             \/ broken /\ SubmitRaises
       \/ /\ fetched = N \/ Len(window) = WindowSize
          /\ pc' = IF window = <<>> THEN "done" ELSE "wait"
          /\ UNCHANGED <<fetched, ids, window, future>>
    /\ UNCHANGED <<results, pairs, stop, broken>>

Mutant_HarvestNewest ==
    /\ pc = "wait"
    /\ future[window[Len(window)]] = "done"
    /\ results' = Append(results, window[Len(window)])
    /\ window' = SubSeq(window, 1, Len(window) - 1)
    /\ pc' = "yield"
    /\ UNCHANGED <<fetched, future, ids, pairs, stop, broken>>

(***************************************************************************)
(* The oldest future is done: its result is yielded, or its exception (of  *)
(* the job, or of the pool that lost a worker) leaves the generator.       *)
(***************************************************************************)
Mutant_RetryFailed ==
    /\ pc = "wait"
    /\ \/ /\ future[Head(window)] = "done"
          /\ window' = Tail(window)
          /\ results' = Append(results, Head(window))
          /\ pc' = "yield"
          /\ UNCHANGED future
       \/ /\ future[Head(window)] = "failed"
          /\ future' = [future EXCEPT ![Head(window)] = "queued"]
          /\ UNCHANGED <<pc, window, results>>
    /\ UNCHANGED <<fetched, ids, pairs, stop, broken>>

Harvest ==
    /\ pc = "wait"
    /\ future[Head(window)] \in {"done", "failed"}
    /\ window' = Tail(window)
    /\ \/ /\ future[Head(window)] = "done"
          /\ results' = Append(results, Head(window))
          /\ pc' = "yield"
       \/ /\ future[Head(window)] = "failed"
          /\ pc' = "raised"
          /\ UNCHANGED results
    /\ UNCHANGED <<fetched, future, ids, pairs, stop, broken>>

(***************************************************************************)
(* The heartbeat raises while the oldest future is awaited.                *)
(***************************************************************************)
HeartbeatError ==
    /\ pc = "wait"
    /\ future[Head(window)] \in {"queued", "running"}
    /\ pc' = "raised"
    /\ UNCHANGED <<fetched, window, future, results, ids, pairs, stop, broken>>

(***************************************************************************)
(* The caller handles the yielded result and asks for the next one.        *)
(***************************************************************************)
Mutant_NewestId ==
    /\ pc = "yield"
    /\ pairs' = Append(pairs, <<ids[Len(ids)], results[Len(results)]>>)
    /\ ids' = SubSeq(ids, 1, Len(ids) - 1)
    /\ pc' = "refill"
    /\ UNCHANGED <<fetched, window, future, results, stop, broken>>

Handle ==
    /\ pc = "yield"
    /\ pairs' = Append(pairs, <<Head(ids), results[Len(results)]>>)
    /\ ids' = Tail(ids)
    /\ pc' = "refill"
    /\ UNCHANGED <<fetched, window, future, results, stop, broken>>

(***************************************************************************)
(* Without a stop request one job is added for the one harvested.          *)
(***************************************************************************)
Mutant_RefillAll ==
    /\ pc = "refill"
    /\ ~stop
    /\ \/ /\ fetched < N
          /\ Submit
          /\ pc' \in {"wait", "refill"}
       \/ /\ fetched = N
          /\ pc' = IF window = <<>> THEN "done" ELSE "wait"
          /\ UNCHANGED <<fetched, ids, window, future>>
    /\ UNCHANGED <<results, pairs, stop, broken>>

Mutant_PastTheEnd ==
    /\ pc = "refill"
    /\ ~stop
    /\ \/ /\ fetched <= N
          /\ Submit
          /\ pc' = "wait"
       \/ /\ fetched > N
          /\ pc' = IF window = <<>> THEN "done" ELSE "wait"
          /\ UNCHANGED <<fetched, ids, window, future>>
    /\ UNCHANGED <<results, pairs, stop, broken>>

Refill ==
    /\ pc = "refill"
    /\ ~stop
    /\ \/ /\ fetched < N
          /\ \/ ~broken /\ Submit /\ pc' = "wait"
             \/ broken /\ SubmitRaises
       \/ /\ fetched = N
          /\ pc' = IF window = <<>> THEN "done" ELSE "wait"
          /\ UNCHANGED <<fetched, ids, window, future>>
    /\ UNCHANGED <<results, pairs, stop, broken>>

(***************************************************************************)
(* The job iterator itself raises: a mailbox message cannot be fetched.    *)
(***************************************************************************)
IteratorError ==
    /\ pc = "prime" \/ (pc = "refill" /\ ~stop)
    /\ fetched < N
    /\ pc = "prime" => Len(window) < WindowSize
    /\ pc' = "raised"
    /\ UNCHANGED <<fetched, window, future, results, ids, pairs, stop, broken>>

(***************************************************************************)
(* executor.shutdown(cancel_futures=True): what no worker was given yet is *)
(* cancelled.                                                              *)
(***************************************************************************)
Mutant_ReturnAtOnce ==
    /\ pc = "refill"
    /\ stop
    /\ future' = [j \in Jobs |-> IF future[j] = "queued" THEN "cancelled"
                                                         ELSE future[j]]
    /\ pc' = "done"
    /\ UNCHANGED <<fetched, window, results, ids, pairs, stop, broken>>

Shutdown ==
    /\ pc = "refill"
    /\ stop
    /\ future' = [j \in Jobs |-> IF future[j] = "queued" THEN "cancelled"
                                                         ELSE future[j]]
    /\ pc' = "drain"
    /\ UNCHANGED <<fetched, window, results, ids, pairs, stop, broken>>

(***************************************************************************)
(* Shutdown waited for the running jobs; what was not cancelled is yielded *)
(* in order.                                                               *)
(***************************************************************************)
Drain ==
    /\ pc = "drain"
    /\ \A j \in Jobs : future[j] # "running"
    /\ \/ /\ window = <<>>
          /\ pc' = "done"
          /\ UNCHANGED <<window, results, ids, pairs>>
       \/ /\ window # <<>>
          /\ window' = Tail(window)
          /\ \/ /\ future[Head(window)] = "cancelled"
                /\ UNCHANGED <<pc, results, ids, pairs>>
             \/ /\ future[Head(window)] = "done"
                /\ results' = Append(results, Head(window))
                /\ pairs' = Append(pairs, <<Head(ids), Head(window)>>)
                /\ ids' = Tail(ids)
                /\ UNCHANGED pc
             \/ /\ future[Head(window)] = "failed"
                /\ pc' = "raised"
                /\ UNCHANGED <<results, ids, pairs>>
    /\ UNCHANGED <<fetched, future, stop, broken>>

(***************************************************************************)
(* The process pool.  Submitted jobs reach the workers in submission       *)
(* order, a few ahead of a free worker; from then on they cannot be        *)
(* cancelled.  They end in any order, with a result or an exception.       *)
(***************************************************************************)
Running == {j \in Jobs : future[j] = "running"}

Start(j) ==
    /\ future[j] = "queued"
    /\ \A i \in Jobs : i < j => future[i] # "queued"
    /\ Cardinality(Running) < NProcs + Prefetch
    /\ future' = [future EXCEPT ![j] = "running"]
    /\ UNCHANGED <<pc, fetched, window, results, ids, pairs, stop, broken>>

Finish(j) ==
    /\ future[j] = "running"
    /\ \E end \in {"done", "failed"} : future' = [future EXCEPT ![j] = end]
    /\ UNCHANGED <<pc, fetched, window, results, ids, pairs, stop, broken>>

(***************************************************************************)
(* A worker process dies: the pool is broken, and every future that has no *)
(* result gets the exception.                                              *)
(***************************************************************************)
WorkerDies ==
    /\ Running # {}
    /\ broken' = TRUE
    /\ future' = [j \in Jobs |-> IF future[j] \in {"queued", "running"}
                                   THEN "failed" ELSE future[j]]
    /\ UNCHANGED <<pc, fetched, window, results, ids, pairs, stop>>

(***************************************************************************)
(* SIGTERM or SIGINT sets the flag should_stop() reads.                    *)
(***************************************************************************)
RequestStop ==
    /\ ~stop
    /\ stop' = TRUE
    /\ UNCHANGED <<pc, fetched, window, future, results, ids, pairs, broken>>

Ended == pc \in {"done", "raised"} /\ UNCHANGED vars

Generator == Prime \/ Harvest \/ Handle \/ Refill \/ Shutdown \/ Drain

Pool == \E j \in Jobs : Start(j) \/ Finish(j)

Next ==
    \/ Generator
    \/ Pool
    \/ HeartbeatError \/ IteratorError \/ WorkerDies \/ RequestStop
    \/ Ended

Spec == Init /\ [][Next]_vars

(***************************************************************************)
(* The caller keeps iterating and the pool keeps running its jobs.         *)
(***************************************************************************)
FairSpec == Spec /\ WF_vars(Generator) /\ WF_vars(Pool)

-----------------------------------------------------------------------------
TypeOK ==
    /\ pc \in {"prime", "wait", "yield", "refill", "drain", "done", "raised"}
    /\ fetched \in 0 .. N
    /\ window \in Seq(Jobs)
    /\ future \in [Jobs -> {"new", "queued", "running", "done", "failed",
                            "cancelled"}]
    /\ results \in Seq(Jobs)
    /\ ids \in Seq(Jobs)
    /\ pairs \in Seq(Jobs \X Jobs)
    /\ stop \in BOOLEAN /\ broken \in BOOLEAN

(***************************************************************************)
(* "Results are yielded in submission order": always a prefix of the jobs, *)
(* without a gap, after a stop request as well.                            *)
(***************************************************************************)
InSubmissionOrder == \A i \in 1 .. Len(results) : results[i] = i

(***************************************************************************)
(* "The oldest queued id always belongs to the next yielded result": no    *)
(* result is ever attributed to another message, which would archive or    *)
(* delete the wrong one.                                                   *)
(***************************************************************************)
ResultsPaired == \A i \in 1 .. Len(pairs) : pairs[i][1] = pairs[i][2]

(***************************************************************************)
(* "At most window_factor * n_procs jobs are submitted ahead of the        *)
(* harvesting point", and the id queue is no larger than the window.       *)
(***************************************************************************)
WindowBounded ==
    /\ fetched - Len(results) <= WindowSize
    /\ Len(ids) <= WindowSize

(***************************************************************************)
(* "No completed work is discarded": when the generator is exhausted every *)
(* finished job was yielded, and every job if nobody asked it to stop.     *)
(***************************************************************************)
NothingDropped ==
    pc = "done" =>
        /\ \A j \in Jobs : future[j] = "done" => \E i \in 1 .. Len(results) : results[i] = j
        /\ ~stop => Len(results) = N

(***************************************************************************)
(* The loop over the results ends, whatever dies or raises.                *)
(***************************************************************************)
Terminates == <>(pc \in {"done", "raised"})

=============================================================================
