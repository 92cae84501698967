-------------------------------- MODULE Tsfn --------------------------------
(***************************************************************************)
(* Thread-safe functions of N-API (src/src/napi/node_api_tsfn.c).          *)
(*                                                                         *)
(* Threads queue invocations of a JavaScript function; the main thread     *)
(* drains the queue from the callback of a uv_async_t.  Every critical     *)
(* section of op_mutex is one action; the callback of the main thread,     *)
(* which leaves and re-enters the critical section, is cut where it does.  *)
(***************************************************************************)
EXTENDS Naturals, Sequences, FiniteSets

CONSTANTS
    Threads,          \* every thread of the addon, the main thread included
    Main,             \* the thread that runs the event loop
    InitialThreads,   \* initial_thread_count, as the threads it stands for
    MaxQueueSize,     \* max_queue_size, 0 for no limit
    Aborters,         \* threads that may release with napi_tsfn_abort
    JoinInFinalizer,  \* does thread_finalize_cb join the other threads?
    MaxCalls          \* bound: calls of napi_call_threadsafe_function of each thread

ASSUME ConstantsAssumption ==
    /\ IsFiniteSet(Threads)
    /\ Main \in InitialThreads
    /\ InitialThreads \subseteq Threads
    /\ Aborters \subseteq Threads
    /\ MaxQueueSize \in Nat
    /\ MaxCalls \in [Threads -> Nat]
    /\ JoinInFinalizer \in BOOLEAN

VARIABLES
    invocations,   \* invocation_head .. invocation_tail
    queue_size,
    thread_count,
    aborted,
    asyncPending,  \* uv_async_send was called since the last dispatch
    handle,        \* the uv_async_t, and with it the memory of the tsfn
    mainPC,        \* where the main thread is
    taken,         \* the list tsfn_async_callback has taken and not yet run
    status,        \* what each thread is doing with the tsfn
    calls,         \* number of calls each thread has made
    accepted,      \* history: invocations queued, in order
    delivered      \* history: invocations run, in order

vars == <<invocations, queue_size, thread_count, aborted, asyncPending, handle,
          mainPC, taken, status, calls, accepted, delivered>>

tsfn == <<invocations, queue_size, thread_count, aborted, asyncPending>>

Item == Threads \X Nat

\* "closed": napi_closing was returned to the thread; it counts in
\* thread_count but does not touch the tsfn again.
Statuses == {"unborn", "idle", "waiting", "woken", "closed", "released"}
Users    == {"idle", "waiting", "woken"}
Holding  == Users \cup {"closed"}

Holders == {t \in Threads : status[t] \in Holding}

TypeOK ==
    /\ invocations \in Seq(Item)
    /\ queue_size \in Nat
    /\ thread_count \in Nat
    /\ aborted \in BOOLEAN
    /\ asyncPending \in BOOLEAN
    /\ handle \in {"open", "closing", "freed"}
    /\ mainPC \in {"loop", "drain", "signal", "invoke", "finalize", "fatal"}
    /\ taken \in Seq(Item)
    /\ status \in [Threads -> Statuses]
    /\ calls \in [Threads -> Nat]
    /\ accepted \in Seq(Item)
    /\ delivered \in Seq(Item)

\* napi_create_threadsafe_function
Init ==
    /\ invocations = << >>
    /\ queue_size = 0
    /\ thread_count = Cardinality(InitialThreads)
    /\ aborted = FALSE
    /\ asyncPending = FALSE
    /\ handle = "open"
    /\ mainPC = "loop"
    /\ taken = << >>
    /\ status = [t \in Threads |->
                    IF t \in InitialThreads THEN "idle" ELSE "unborn"]
    /\ calls = [t \in Threads |-> 0]
    /\ accepted = << >>
    /\ delivered = << >>

-----------------------------------------------------------------------------
(* The calls a thread makes *)

\* The main thread is free to call while it runs JavaScript: between two
\* callbacks, or inside the invocation at the head of taken.
CanRun(t) ==
    /\ handle # "freed"
    /\ mainPC # "fatal"
    /\ t = Main => \/ mainPC = "loop"
                   \/ mainPC = "invoke" /\ taken # << >>

Full == MaxQueueSize # 0 /\ queue_size = MaxQueueSize

\* The end of napi_call_threadsafe_function, after the check of a full queue.
\* n numbers the call among those of the thread.
AppendOrClosing(t, n) ==
    IF aborted
    THEN /\ status' = [status EXCEPT ![t] = "closed"]
         /\ UNCHANGED <<invocations, queue_size, asyncPending, accepted>>
    ELSE /\ status' = [status EXCEPT ![t] = "idle"]
         /\ invocations' = Append(invocations, <<t, n>>)
         /\ queue_size' = queue_size + 1
         /\ asyncPending' = TRUE
         /\ accepted' = Append(accepted, <<t, n>>)

\* napi_call_threadsafe_function up to its return or its uv_cond_wait
Call(t, blocking) ==
    /\ CanRun(t)
    /\ status[t] = "idle"
    /\ calls[t] < MaxCalls[t]
    /\ calls' = [calls EXCEPT ![t] = @ + 1]
    /\ \/ /\ Full
          /\ ~blocking                        \* napi_queue_full
          /\ UNCHANGED <<status, tsfn, accepted>>
       \/ /\ Full
          /\ blocking                         \* uv_cond_wait
          /\ status' = [status EXCEPT ![t] = "waiting"]
          /\ UNCHANGED <<tsfn, accepted>>
       \/ /\ ~Full
          /\ AppendOrClosing(t, calls[t] + 1)
          /\ UNCHANGED <<thread_count, aborted>>
    /\ UNCHANGED <<handle, mainPC, taken, delivered>>

\* The rest of napi_call_threadsafe_function once uv_cond_wait has returned:
\* the queue is not looked at again.
Resume(t) ==
    /\ CanRun(t)
    /\ status[t] = "woken"
    /\ AppendOrClosing(t, calls[t])
    /\ UNCHANGED <<thread_count, aborted, handle, mainPC, taken, calls, delivered>>

\* uv_cond_wait may return without a signal
SpuriousWake(t) ==
    /\ handle # "freed"
    /\ mainPC # "fatal"
    /\ status[t] = "waiting"
    /\ status' = [status EXCEPT ![t] = "woken"]
    /\ UNCHANGED <<tsfn, handle, mainPC, taken, calls, accepted, delivered>>

\* napi_acquire_threadsafe_function, on behalf of a thread that then starts
Acquire(t, u) ==
    /\ CanRun(t)
    /\ status[t] = "idle"
    /\ status[u] = "unborn"
    /\ thread_count' = thread_count + 1
    /\ status' = [status EXCEPT ![u] = "idle"]
    /\ UNCHANGED <<invocations, queue_size, aborted, asyncPending, handle, mainPC,
                   taken, calls, accepted, delivered>>

\* Mutant: the last release does not notify the main thread
Release_NotNotified(t, abort) ==
    /\ CanRun(t)
    /\ status[t] = "idle"
    /\ abort => t \in Aborters
    /\ thread_count' = IF thread_count > 0 THEN thread_count - 1 ELSE thread_count
    /\ aborted' = (aborted \/ abort)
    /\ asyncPending' = (asyncPending \/ aborted')
    /\ status' = [status EXCEPT ![t] = "released"]
    /\ UNCHANGED <<invocations, queue_size, handle, mainPC, taken, calls,
                   accepted, delivered>>

\* napi_release_threadsafe_function
Release(t, abort) ==
    /\ CanRun(t)
    /\ status[t] = "idle"
    /\ abort => t \in Aborters
    /\ thread_count' = IF thread_count > 0 THEN thread_count - 1 ELSE thread_count
    /\ aborted' = (aborted \/ abort)
    /\ asyncPending' = (\/ asyncPending
                        \/ thread_count' = 0 /\ queue_size = 0
                        \/ aborted')
    /\ status' = [status EXCEPT ![t] = "released"]
    /\ UNCHANGED <<invocations, queue_size, handle, mainPC, taken, calls,
                   accepted, delivered>>

-----------------------------------------------------------------------------
(* The main thread *)

\* libuv clears the pending flag, then calls tsfn_async_callback
Dispatch ==
    /\ mainPC = "loop"
    /\ handle = "open"
    /\ asyncPending
    /\ asyncPending' = FALSE
    /\ mainPC' = "drain"
    /\ UNCHANGED <<invocations, queue_size, thread_count, aborted, handle, taken,
                   status, calls, accepted, delivered>>

\* Mutant: the list is taken but stays queued
Drain_KeepsList ==
    /\ mainPC = "drain"
    /\ taken' = invocations
    /\ queue_size' = 0
    /\ mainPC' = "signal"
    /\ UNCHANGED <<invocations, thread_count, aborted, asyncPending, handle, status,
                   calls, accepted, delivered>>

\* First critical section of tsfn_async_callback
Drain ==
    /\ mainPC = "drain"
    /\ taken' = invocations
    /\ invocations' = << >>
    /\ queue_size' = 0
    /\ mainPC' = "signal"
    /\ UNCHANGED <<thread_count, aborted, asyncPending, handle, status, calls,
                   accepted, delivered>>

\* Mutant: the condition variable is not signalled
Signal_Missing ==
    /\ mainPC = "signal"
    /\ mainPC' = "invoke"
    /\ UNCHANGED <<tsfn, handle, taken, status, calls, accepted, delivered>>

\* uv_cond_signal, after the unlock: wakes one of the waiters, if any
Signal ==
    /\ mainPC = "signal"
    /\ mainPC' = "invoke"
    /\ \/ \E t \in Threads :
             /\ status[t] = "waiting"
             /\ status' = [status EXCEPT ![t] = "woken"]
       \/ /\ \A t \in Threads : status[t] # "waiting"
          /\ UNCHANGED status
    /\ UNCHANGED <<tsfn, handle, taken, calls, accepted, delivered>>

\* One iteration of the loop over the invocations taken
Invoke ==
    /\ mainPC = "invoke"
    /\ taken # << >>
    /\ taken' = Tail(taken)
    /\ delivered' = Append(delivered, Head(taken))
    /\ UNCHANGED <<tsfn, handle, mainPC, status, calls, accepted>>

\* Mutant: an empty queue is enough to close
CloseIfUnused_NoCount ==
    /\ mainPC = "invoke"
    /\ taken = << >>
    /\ handle' = IF queue_size = 0 \/ aborted THEN "closing" ELSE handle
    /\ mainPC' = "loop"
    /\ UNCHANGED <<tsfn, taken, status, calls, accepted, delivered>>

\* Mutant: no reference is enough to close
CloseIfUnused_NoQueue ==
    /\ mainPC = "invoke"
    /\ taken = << >>
    /\ handle' = IF thread_count = 0 \/ aborted THEN "closing" ELSE handle
    /\ mainPC' = "loop"
    /\ UNCHANGED <<tsfn, taken, status, calls, accepted, delivered>>

\* Second critical section of tsfn_async_callback
CloseIfUnused ==
    /\ mainPC = "invoke"
    /\ taken = << >>
    /\ handle' = IF (thread_count = 0 /\ queue_size = 0) \/ aborted
                 THEN "closing" ELSE handle
    /\ mainPC' = "loop"
    /\ UNCHANGED <<tsfn, taken, status, calls, accepted, delivered>>

\* libuv runs tsfn_async_close_cb, which calls thread_finalize_cb
BeginFinalize ==
    /\ mainPC = "loop"
    /\ handle = "closing"
    /\ mainPC' = "finalize"
    /\ UNCHANGED <<tsfn, handle, taken, status, calls, accepted, delivered>>

\* thread_finalize_cb returns; the assertion; the release of the tsfn.  The
\* main thread knows from the finalizer that the tsfn is gone.
EndFinalize ==
    /\ mainPC = "finalize"
    /\ JoinInFinalizer => \A t \in Threads \ {Main} : status[t] \notin Users
    /\ IF invocations # << >>
       THEN /\ mainPC' = "fatal"              \* napi_fatal_error
            /\ UNCHANGED <<handle, status>>
       ELSE /\ mainPC' = "loop"
            /\ handle' = "freed"
            /\ status' = [status EXCEPT ![Main] = IF @ \in Users THEN "closed" ELSE @]
    /\ UNCHANGED <<tsfn, taken, calls, accepted, delivered>>

-----------------------------------------------------------------------------
ThreadStep(t) ==
    \/ \E blocking \in (IF t = Main THEN {FALSE} ELSE BOOLEAN) : Call(t, blocking)
    \/ Resume(t)
    \/ SpuriousWake(t)
    \/ \E u \in Threads : Acquire(t, u)
    \/ \E abort \in BOOLEAN : Release(t, abort)

MainStep ==
    \/ Dispatch
    \/ Drain
    \/ Signal
    \/ Invoke
    \/ CloseIfUnused
    \/ BeginFinalize
    \/ EndFinalize

Next == MainStep \/ \E t \in Threads : ThreadStep(t)

\* The loop keeps running while the handle is active, and a thread whose wait
\* has returned goes on.  Threads need not call, acquire or release.
Fairness ==
    /\ WF_vars(MainStep)
    /\ \A t \in Threads : WF_vars(Resume(t))

Spec == Init /\ [][Next]_vars /\ Fairness

-----------------------------------------------------------------------------
(* Properties *)

\* Every accepted invocation is, in the order of acceptance, run, being run or
\* queued, and queue_size counts the queued ones: the unlocked loop of
\* tsfn_async_callback neither loses, repeats nor reorders an invocation that
\* another thread queues meanwhile.
ExactlyOnceInOrder ==
    /\ accepted = delivered \o taken \o invocations
    /\ queue_size = Len(invocations)

\* thread_count is the number of threads that hold a reference
CountsHolders == thread_count = Cardinality(Holders)

\* tsfn_async_close_cb frees the tsfn only when no thread can still use it,
\* unless the tsfn was aborted and the finalizer does not wait for the threads.
NoUseAfterFree ==
    handle = "freed" /\ (~aborted \/ JoinInFinalizer)
        => \A t \in Threads : status[t] \notin Users

\* Without an abort, what napi_call_threadsafe_function accepted was run
\* before the handle is closed.
NothingLostWithoutAbort ==
    handle # "open" /\ ~aborted => delivered = accepted

\* A blocked caller is never forgotten: while one waits, the main thread has
\* been or will be notified, is about to signal, or a woken caller is about to
\* queue an invocation and so to notify it again.  An abort breaks this:
\* the woken caller returns napi_closing and does not signal the next.
NoLostWakeup ==
    (\E t \in Threads : status[t] = "waiting") /\ ~aborted
        => \/ asyncPending
           \/ mainPC \in {"drain", "signal"}
           \/ \E t \in Threads : status[t] = "woken"

\* Every blocked call returns, or the tsfn is aborted
BlockedCallReturns ==
    \A t \in Threads :
        status[t] = "waiting" ~> (status[t] # "waiting" \/ aborted)

\* Once no thread holds the tsfn any more, or it was aborted, it is closed and
\* released, or tsfn_async_close_cb fails its assertion.
EventuallyReleased ==
    (Holders = {} \/ aborted) ~> (handle = "freed" \/ mainPC = "fatal")

\* tsfn_async_close_cb asserts "TSFN invocation shall be cleared before closing
\* async handle."
ClosedOnlyWhenCleared == mainPC # "fatal"

-----------------------------------------------------------------------------
(* The inductive invariant *)

\* A queued invocation has been notified, or the callback is about to drain it
QueuedIsNotified ==
    invocations # << >> => asyncPending \/ mainPC = "drain"

\* Only the callback has taken invocations, and a closed handle has no callback
MainWhere ==
    /\ mainPC \notin {"signal", "invoke"} => taken = << >>
    /\ handle # "open" => mainPC \in {"loop", "finalize", "fatal"}
    /\ mainPC \in {"finalize", "fatal"} => handle = "closing"

\* A handle closed without an abort has no user and no invocation left
ClosedIsUnused ==
    handle # "open" /\ ~aborted => Holders = {} /\ invocations = << >>

IInv ==
    /\ TypeOK
    /\ ExactlyOnceInOrder
    /\ CountsHolders
    /\ QueuedIsNotified
    /\ MainWhere
    /\ ClosedIsUnused
    /\ NoUseAfterFree
    /\ NoLostWakeup
=============================================================================
