------------------------- MODULE PasswordHasherGate -------------------------
(***************************************************************************)
(* BcryptPasswordHasher.hash / verify guarded by _permit()                 *)
(* (infrastructure/adapters/password_hasher_bcrypt.py), the process-wide   *)
(* asyncio.Semaphore and ThreadPoolExecutor of MainAdaptersProvider        *)
(* (setup/ioc/infrastructure.py), and the CPython 3.12 asyncio.Semaphore   *)
(* they run on.                                                            *)
(*                                                                         *)
(* Each call is one hash() or verify() of some request.  It runs on the    *)
(* event loop and suspends at two awaits: the semaphore future inside      *)
(* wait_for(acquire(), timeout) and the executor future of                 *)
(* run_in_executor.  The worker threads run concurrently with the loop.    *)
(* A timeout of wait_for, or a cancellation of the request task while it   *)
(* waits, cancels the task at the semaphore future; a cancellation of the  *)
(* request task (OuterCancel) may also hit it at the executor future.      *)
(***************************************************************************)
EXTENDS Naturals, Sequences, FiniteSets, SequencesExt

CONSTANTS Calls,        \* the concurrent hash/verify calls
          MaxThreads,   \* security.password.hasher_max_threads
          OuterCancel   \* whether a request task may be cancelled while its job runs

\* PasswordSettings (setup/config/security.py): HASHER_MAX_THREADS >= 1,
\* and a semaphore wait timeout > 0, so a waiting call can be timed out.
ValidPasswordSettings(threads) == threads \in Nat \ {0}

ASSUME ValidPasswordSettings(MaxThreads) /\ OuterCancel \in BOOLEAN

VARIABLES
  value,    \* Semaphore._value
  waiters,  \* Semaphore._waiters: the waiting calls' futures, in FIFO order
  fut,      \* state of each call's semaphore future
  pc,       \* where each call is
  queue,    \* the executor's work queue (submitted, not yet started jobs)
  busy,     \* calls whose bcrypt job a worker thread is running
  finished  \* calls whose job has completed

vars == <<value, waiters, fut, pc, queue, busy, finished>>

FutState == {"none", "pending", "granted", "cancelled"}
Returned == {"hashed", "busy", "cancelled"}
Pc == {"idle", "waiting", "cancelling", "awaitJob"} \cup Returned

Init ==
  /\ value = MaxThreads
  /\ waiters = <<>>
  /\ fut = [c \in Calls |-> "none"]
  /\ pc = [c \in Calls |-> "idle"]
  /\ queue = <<>>
  /\ busy = {}
  /\ finished = {}

-----------------------------------------------------------------------------
(* Semaphore internals.                                                    *)

\* locked(): no permit, or a waiter whose future is not cancelled
Locked == value = 0 \/ \E i \in 1 .. Len(waiters) : fut[waiters[i]] # "cancelled"

\* _wake_up_next() run at most n times while _value > 0, after value has
\* become v and the futures f: it grants the first pending futures, each
\* taking one permit.  Returns <<new value, new futures>>.
WakeUpTo(n, v, f) ==
  LET p == SelectSeq(waiters, LAMBDA c : f[c] = "pending")
      k == Min({n, v, Len(p)})
      g == {p[i] : i \in 1 .. k}
  IN  <<v - k, [c \in Calls |-> IF c \in g THEN "granted" ELSE f[c]]>>

\* acquire()'s finally: `while self._value > 0: if not self._wake_up_next(): break`
WakeLoop(v, f) == WakeUpTo(v, v, f)

\* release(): `self._value += 1; self._wake_up_next()`
Release(f) == WakeUpTo(1, value + 1, f)

\* run_in_executor: the job is put on the executor's work queue
Submit(c) == queue' = Append(queue, c)

-----------------------------------------------------------------------------
(* The calls, on the event loop.                                           *)

\* hash()/verify() enter _permit(): acquire() takes the fast path when the
\* semaphore is not locked and the job is submitted without suspending;
\* otherwise the call appends its future and awaits it.
Call(c) ==
  /\ pc[c] = "idle"
  /\ IF ~Locked
       THEN /\ value' = value - 1
            /\ pc' = [pc EXCEPT ![c] = "awaitJob"]
            /\ Submit(c)
            /\ UNCHANGED <<waiters, fut>>
       ELSE /\ waiters' = Append(waiters, c)
            /\ fut' = [fut EXCEPT ![c] = "pending"]
            /\ pc' = [pc EXCEPT ![c] = "waiting"]
            /\ UNCHANGED <<value, queue>>
  /\ UNCHANGED <<busy, finished>>

\* The granted waiter resumes: it leaves _waiters, runs acquire()'s finally
\* (waking further waiters while _value > 0), returns from wait_for and
\* submits its job.
WaiterResume(c) ==
  /\ pc[c] = "waiting"
  /\ fut[c] = "granted"
  /\ waiters' = RemoveFirst(waiters, c)
  /\ LET w == WakeLoop(value, fut) IN value' = w[1] /\ fut' = w[2]
  /\ pc' = [pc EXCEPT ![c] = "awaitJob"]
  /\ Submit(c)
  /\ UNCHANGED <<busy, finished>>

\* The wait_for timeout (or a cancellation of the request task) fires while
\* the call waits: task.cancel() cancels a still-pending future; a future
\* granted already stays done, and the task is resumed with CancelledError.
TimeoutFires(c) ==
  /\ pc[c] = "waiting"
  /\ fut' = [fut EXCEPT ![c] = IF @ = "pending" THEN "cancelled" ELSE @]
  /\ pc' = [pc EXCEPT ![c] = "cancelling"]
  /\ UNCHANGED <<value, waiters, queue, busy, finished>>

\* Mutant: the cancelled waiter keeps a permit it had been granted.
CancelResumeLosesPermit(c) ==
  /\ pc[c] = "cancelling"
  /\ waiters' = RemoveFirst(waiters, c)
  /\ LET w == WakeLoop(value, fut) IN value' = w[1] /\ fut' = w[2]
  /\ pc' = [pc EXCEPT ![c] = "busy"]
  /\ UNCHANGED <<queue, busy, finished>>

\* Mutant: the cancelled waiter gives a permit back even if never granted.
CancelResumeAlwaysReturnsPermit(c) ==
  /\ pc[c] = "cancelling"
  /\ waiters' = RemoveFirst(waiters, c)
  /\ LET w == WakeLoop(value + 1, fut) IN value' = w[1] /\ fut' = w[2]
  /\ pc' = [pc EXCEPT ![c] = "busy"]
  /\ UNCHANGED <<queue, busy, finished>>

\* The cancelled acquire() resumes: it leaves _waiters, gives back a permit
\* it had been granted (`if fut.done() and not fut.cancelled(): _value += 1`),
\* runs its finally wake loop, and wait_for raises TimeoutError, which
\* _permit() turns into PasswordHasherBusyError.
CancelResume(c) ==
  /\ pc[c] = "cancelling"
  /\ waiters' = RemoveFirst(waiters, c)
  /\ LET v == IF fut[c] = "granted" THEN value + 1 ELSE value
         w == WakeLoop(v, fut)
     IN  value' = w[1] /\ fut' = w[2]
  /\ pc' = [pc EXCEPT ![c] = "busy"]
  /\ UNCHANGED <<queue, busy, finished>>

\* The executor future is done: run_in_executor returns, and _permit()'s
\* finally releases the permit.
JobResume(c) ==
  /\ pc[c] = "awaitJob"
  /\ c \in finished
  /\ LET w == Release(fut) IN value' = w[1] /\ fut' = w[2]
  /\ pc' = [pc EXCEPT ![c] = "hashed"]
  /\ UNCHANGED <<waiters, queue, busy, finished>>

\* Mutant: the release is not in a finally, so a cancelled call keeps it.
CancelAwaitingJobNoRelease(c) ==
  /\ OuterCancel
  /\ pc[c] = "awaitJob"
  /\ c \notin finished
  /\ queue' = RemoveFirst(queue, c)
  /\ pc' = [pc EXCEPT ![c] = "cancelled"]
  /\ UNCHANGED <<value, fut, waiters, busy, finished>>

\* The request task is cancelled at the executor future.  The wrapped
\* concurrent future is cancelled too, which drops a job not yet started
\* but cannot stop a running one; _permit()'s finally releases the permit.
CancelAwaitingJob(c) ==
  /\ OuterCancel
  /\ pc[c] = "awaitJob"
  /\ c \notin finished
  /\ queue' = RemoveFirst(queue, c)
  /\ LET w == Release(fut) IN value' = w[1] /\ fut' = w[2]
  /\ pc' = [pc EXCEPT ![c] = "cancelled"]
  /\ UNCHANGED <<waiters, busy, finished>>

-----------------------------------------------------------------------------
(* The worker threads of the ThreadPoolExecutor (max_workers=MaxThreads).  *)

\* An idle worker takes the next work item and runs hash_sync/verify_sync.
JobStart ==
  /\ queue # <<>>
  /\ Cardinality(busy) < MaxThreads
  /\ busy' = busy \cup {Head(queue)}
  /\ queue' = Tail(queue)
  /\ UNCHANGED <<value, waiters, fut, pc, finished>>

\* bcrypt returns; the result is set on the call's future.
JobDone(c) ==
  /\ c \in busy
  /\ busy' = busy \ {c}
  /\ finished' = finished \cup {c}
  /\ UNCHANGED <<value, waiters, fut, pc, queue>>

-----------------------------------------------------------------------------
LoopStep(c) ==
  \/ WaiterResume(c)
  \/ TimeoutFires(c)
  \/ CancelResume(c)
  \/ JobResume(c)
  \/ CancelAwaitingJob(c)

Done == /\ \A c \in Calls : pc[c] \in Returned
        /\ busy = {}
        /\ UNCHANGED vars

Next ==
  \/ \E c \in Calls : Call(c) \/ LoopStep(c) \/ JobDone(c)
  \/ JobStart
  \/ Done

\* The loop runs every ready callback and every worker runs its job; the
\* wait_for timer fires once its delay has elapsed.  Nothing forces a
\* request to call the hasher, so Call is not fair.
Fairness ==
  /\ \A c \in Calls : WF_vars(LoopStep(c)) /\ WF_vars(JobDone(c))
  /\ WF_vars(JobStart)

Spec == Init /\ [][Next]_vars /\ Fairness

-----------------------------------------------------------------------------
TypeOK ==
  /\ value \in 0 .. MaxThreads
  /\ waiters \in Seq(Calls)
  /\ fut \in [Calls -> FutState]
  /\ pc \in [Calls -> Pc]
  /\ queue \in Seq(Calls)
  /\ busy \subseteq Calls /\ finished \subseteq Calls

\* Holders of a permit: calls past acquire() whose _permit() has not yet
\* released, and waiters granted a permit they have not yet taken up.
Holders == {c \in Calls : pc[c] = "awaitJob"}
GrantedUntaken == {c \in Calls : fut[c] = "granted" /\ pc[c] \in {"waiting", "cancelling"}}

\* Every permit of the semaphore is either free or held by exactly one call:
\* no path through acquire(), its cancellation and the finally of _permit()
\* loses or mints a permit (the cancellation of a granted waiter gives its
\* permit back).
PermitsConserved ==
  value + Cardinality(Holders) + Cardinality(GrantedUntaken) = MaxThreads

\* The semaphore is sized to the worker pool, so a call holding a permit
\* never waits in the executor's queue: the jobs running or queued never
\* outnumber the worker threads.
AdmittedWorkFitsPool ==
  Cardinality(busy) + Len(queue) <= MaxThreads

\* Once the calls are over, every permit is back: the semaphore eventually
\* returns to MaxThreads for good.
PermitsEventuallyReturned ==
  <>[](value = MaxThreads)
=============================================================================
