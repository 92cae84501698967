------------------------------ MODULE TsfnProofs ------------------------------
(***************************************************************************)
(* Proofs about Tsfn for any finite set of threads, any max_queue_size and *)
(* any number of calls.  IInv is inductive; the properties of the passing  *)
(* run follow from it.                                                     *)
(***************************************************************************)
EXTENDS Tsfn, FiniteSetTheorems, SequenceTheorems, TLAPS

\* The set of holders is finite, whatever the threads do
LEMMA HoldersFinite ==
    ASSUME TypeOK PROVE IsFiniteSet(Holders) /\ Cardinality(Holders) \in Nat
  <1>1. Holders \subseteq Threads BY DEF Holders
  <1>2. IsFiniteSet(Holders) BY <1>1, FS_Subset, ConstantsAssumption
  <1> QED BY <1>2, FS_CardinalityType

\* A thread that changes from one holding status to another, or keeps its
\* status, leaves the holders what they are: napi_call_threadsafe_function and
\* uv_cond_signal do not touch thread_count.
LEMMA HoldersKept ==
    ASSUME TypeOK, NEW t \in Threads, NEW s \in Holding,
           status[t] \in Holding, status' = [status EXCEPT ![t] = s]
    PROVE  Holders' = Holders
  BY DEF Holders, TypeOK

\* The initial states satisfy the invariant: napi_create_threadsafe_function
\* counts the initial threads.
LEMMA InitIInv == Init => IInv
  <1> SUFFICES ASSUME Init PROVE IInv OBVIOUS
  <1> USE ConstantsAssumption DEF Init
  <1>0. IsFiniteSet(InitialThreads) BY FS_Subset
  <1>1. Cardinality(InitialThreads) \in Nat BY <1>0, FS_CardinalityType
  <1>a. << >> \in Seq(Item) OBVIOUS
  <1>2. TypeOK BY <1>1, <1>a DEF TypeOK, Statuses
  <1>3. Holders = InitialThreads BY DEF Holders, Holding, Users
  <1>4. ExactlyOnceInOrder BY DEF ExactlyOnceInOrder
  <1>5. CountsHolders BY <1>3 DEF CountsHolders
  <1>6. QueuedIsNotified /\ MainWhere /\ ClosedIsUnused /\ NoUseAfterFree
    BY DEF QueuedIsNotified, MainWhere, ClosedIsUnused, NoUseAfterFree
  <1>7. NoLostWakeup BY DEF NoLostWakeup
  <1> QED BY <1>2, <1>4, <1>5, <1>6, <1>7 DEF IInv

\* An invocation appended to the queue is the last of all those accepted
LEMMA AcceptedGrows ==
    ASSUME TypeOK, ExactlyOnceInOrder, NEW i \in Item
    PROVE  Append(accepted, i) = delivered \o taken \o Append(invocations, i)
  <1> DEFINE z == <<i>>
             w == delivered \o taken
  <1>1. /\ accepted \in Seq(Item) /\ delivered \in Seq(Item)
        /\ taken \in Seq(Item) /\ invocations \in Seq(Item)
    BY DEF TypeOK
  <1>2. z \in Seq(Item) /\ w \in Seq(Item) BY <1>1
  <1>3. Append(invocations, i) = invocations \o z BY <1>1, AppendIsConcat
  <1>4. Append(accepted, i) = accepted \o z BY <1>1, AppendIsConcat
  <1>5. accepted = w \o invocations BY DEF ExactlyOnceInOrder
  <1> HIDE DEF z, w
  <1>6. (w \o invocations) \o z = w \o (invocations \o z)
    BY <1>1, <1>2, ConcatAssociative
  <1>7. Append(accepted, i) = w \o Append(invocations, i)
    BY <1>3, <1>4, <1>5, <1>6
  <1> QED BY <1>7 DEF w

\* The end of napi_call_threadsafe_function, shared by a call that did not wait
\* and one that did, preserves the parts of the invariant.
LEMMA AppendPreserves ==
    ASSUME IInv, NEW t \in Threads, NEW n \in Nat,
           CanRun(t), status[t] \in {"idle", "woken"},
           AppendOrClosing(t, n), calls' \in [Threads -> Nat],
           UNCHANGED <<thread_count, aborted, handle, mainPC, taken, delivered>>
    PROVE  IInv'
  <1>1. TypeOK /\ ExactlyOnceInOrder /\ CountsHolders BY DEF IInv
  <1>a. status[t] \in Users BY DEF Users
  <1>2. handle # "open" => aborted
    BY <1>a DEF IInv, ClosedIsUnused, Holders, Holding
  <1>3. CASE aborted
    <2>1. /\ status' = [status EXCEPT ![t] = "closed"]
          /\ UNCHANGED <<invocations, queue_size, asyncPending, accepted>>
      BY <1>3 DEF AppendOrClosing
    <2>2. TypeOK' BY <1>1, <2>1 DEF TypeOK, Statuses
    <2>3. Holders' = Holders
      BY <1>1, <1>a, <2>1, HoldersKept DEF Holding, Users
    <2>4. ExactlyOnceInOrder' BY <1>1, <2>1 DEF ExactlyOnceInOrder
    <2>5. CountsHolders' BY <1>1, <2>3 DEF CountsHolders
    <2>6. QueuedIsNotified' /\ MainWhere' /\ ClosedIsUnused'
      BY <2>1, <1>3 DEF IInv, QueuedIsNotified, MainWhere, ClosedIsUnused
    <2>7. NoUseAfterFree' /\ NoLostWakeup'
      BY <2>1, <1>3 DEF NoUseAfterFree, NoLostWakeup, CanRun
    <2> QED BY <2>2, <2>4, <2>5, <2>6, <2>7 DEF IInv
  <1>4. CASE ~aborted
    <2> DEFINE i == <<t, n>>
    <2>0. i \in Item BY DEF Item
    <2>1. /\ status' = [status EXCEPT ![t] = "idle"]
          /\ invocations' = Append(invocations, i)
          /\ queue_size' = queue_size + 1
          /\ asyncPending' = TRUE
          /\ accepted' = Append(accepted, i)
      BY <1>4 DEF AppendOrClosing
    <2> HIDE DEF i
    <2>2. TypeOK' BY <1>1, <2>0, <2>1 DEF TypeOK, Statuses
    <2>3. Holders' = Holders
      BY <1>1, <1>a, <2>1, HoldersKept DEF Holding, Users
    <2>4. ExactlyOnceInOrder'
      <3>1. /\ accepted \in Seq(Item) /\ delivered \in Seq(Item)
            /\ taken \in Seq(Item) /\ invocations \in Seq(Item)
        BY <1>1 DEF TypeOK
      <3>2. Len(invocations') = Len(invocations) + 1 BY <2>0, <2>1, <3>1
      <3>3. Append(accepted, i) = delivered \o taken \o Append(invocations, i)
        BY <1>1, <2>0, AcceptedGrows
      <3> QED BY <1>1, <2>1, <3>2, <3>3 DEF ExactlyOnceInOrder
    <2>5. CountsHolders' BY <1>1, <2>3 DEF CountsHolders
    <2>6. QueuedIsNotified' /\ MainWhere' /\ ClosedIsUnused'
      BY <2>1, <1>2, <1>4 DEF IInv, QueuedIsNotified, MainWhere, ClosedIsUnused
    <2>7. NoUseAfterFree' /\ NoLostWakeup'
      BY <2>1, <1>4 DEF NoUseAfterFree, NoLostWakeup, CanRun
    <2> QED BY <2>2, <2>4, <2>5, <2>6, <2>7 DEF IInv
  <1> QED BY <1>1, <1>3, <1>4 DEF TypeOK

-----------------------------------------------------------------------------
(* One lemma per step of a thread *)

\* napi_call_threadsafe_function, in each of its outcomes, preserves the
\* invariant; a call that waits does so with the main thread notified.
LEMMA CallPreserves ==
    ASSUME IInv, NEW t \in Threads, NEW blocking \in BOOLEAN, Call(t, blocking)
    PROVE  IInv'
  <1> USE ConstantsAssumption
  <1>1. TypeOK /\ CountsHolders BY DEF IInv
  <1>2. calls' \in [Threads -> Nat] /\ calls[t] + 1 \in Nat
    BY <1>1 DEF Call, TypeOK
  <1>3. UNCHANGED <<handle, mainPC, taken, delivered>> BY DEF Call
  <1>4. CASE /\ Full
             /\ ~blocking
             /\ UNCHANGED <<status, tsfn, accepted>>
    BY <1>2, <1>3, <1>4
    DEF IInv, TypeOK, ExactlyOnceInOrder, CountsHolders, Holders, QueuedIsNotified,
        MainWhere, ClosedIsUnused, NoUseAfterFree, NoLostWakeup, tsfn
  <1>5. CASE /\ Full
             /\ blocking
             /\ status' = [status EXCEPT ![t] = "waiting"]
             /\ UNCHANGED <<tsfn, accepted>>
    <2>1. TypeOK' BY <1>1, <1>2, <1>3, <1>5 DEF TypeOK, Statuses, tsfn
    <2>2. Holders' = Holders
      BY <1>1, <1>5, HoldersKept DEF Call, Holding, Users
    <2>3. CountsHolders' BY <1>1, <1>5, <2>2 DEF CountsHolders, tsfn
    <2>4. /\ ExactlyOnceInOrder' /\ QueuedIsNotified' /\ MainWhere'
          /\ ClosedIsUnused'
      BY <1>3, <1>5, <2>2
      DEF IInv, ExactlyOnceInOrder, QueuedIsNotified, MainWhere, ClosedIsUnused, tsfn
    <2>5. NoUseAfterFree' BY <1>3 DEF NoUseAfterFree, Call, CanRun
    <2>6. invocations # << >>
      BY <1>1, <1>5 DEF IInv, ExactlyOnceInOrder, TypeOK, Full
    <2>7. NoLostWakeup'
      BY <1>3, <1>5, <2>6 DEF IInv, QueuedIsNotified, NoLostWakeup, tsfn
    <2> QED BY <2>1, <2>3, <2>4, <2>5, <2>7 DEF IInv
  <1>6. CASE /\ ~Full
             /\ AppendOrClosing(t, calls[t] + 1)
             /\ UNCHANGED <<thread_count, aborted>>
    BY <1>2, <1>3, <1>6, AppendPreserves DEF Call
  <1> QED BY <1>4, <1>5, <1>6 DEF Call

\* The return from uv_cond_wait and what follows it preserve the invariant
LEMMA ResumePreserves ==
    ASSUME IInv, NEW t \in Threads, Resume(t) PROVE IInv'
  BY AppendPreserves DEF Resume, IInv, TypeOK

\* A wakeup without a signal preserves the invariant
LEMMA SpuriousWakePreserves ==
    ASSUME IInv, NEW t \in Threads, SpuriousWake(t) PROVE IInv'
  <1>1. TypeOK /\ CountsHolders BY DEF IInv
  <1>2. TypeOK' BY <1>1 DEF TypeOK, Statuses, SpuriousWake, tsfn
  <1>3. Holders' = Holders
    BY <1>1, HoldersKept DEF SpuriousWake, Holding, Users
  <1>4. CountsHolders' BY <1>1, <1>3 DEF CountsHolders, SpuriousWake, tsfn
  <1>5. ExactlyOnceInOrder' /\ QueuedIsNotified' /\ MainWhere' /\ ClosedIsUnused'
    BY <1>3 DEF IInv, ExactlyOnceInOrder, QueuedIsNotified, MainWhere,
                ClosedIsUnused, SpuriousWake, tsfn
  <1>6. NoUseAfterFree' BY DEF NoUseAfterFree, SpuriousWake
  <1>7. NoLostWakeup'
    <2>1. status'[t] = "woken" BY <1>1 DEF SpuriousWake, TypeOK
    <2> QED BY <2>1 DEF NoLostWakeup
  <1> QED BY <1>2, <1>4, <1>5, <1>6, <1>7 DEF IInv

\* napi_acquire_threadsafe_function adds one holder and one to thread_count
LEMMA AcquirePreserves ==
    ASSUME IInv, NEW t \in Threads, NEW u \in Threads, Acquire(t, u) PROVE IInv'
  <1>1. TypeOK /\ CountsHolders BY DEF IInv
  <1>2. TypeOK' BY <1>1 DEF TypeOK, Statuses, Acquire
  <1>3. Holders' = Holders \cup {u} /\ u \notin Holders
    BY <1>1 DEF TypeOK, Acquire, Holders, Holding, Users
  <1>4. CountsHolders'
    BY <1>1, <1>3, HoldersFinite, FS_AddElement DEF CountsHolders, Acquire
  <1>5. handle # "open" => aborted
    BY <1>1 DEF IInv, ClosedIsUnused, Holders, Holding, Users, Acquire
  <1>6. ExactlyOnceInOrder' /\ QueuedIsNotified' /\ MainWhere' /\ ClosedIsUnused'
    BY <1>5 DEF IInv, ExactlyOnceInOrder, QueuedIsNotified, MainWhere,
                ClosedIsUnused, Acquire
  <1>7. NoUseAfterFree' BY DEF NoUseAfterFree, Acquire, CanRun
  <1>8. NoLostWakeup'
    <2>1. \A w \in Threads : status'[w] = "waiting" <=> status[w] = "waiting"
      BY <1>1 DEF Acquire, TypeOK
    <2>2. \A w \in Threads : status'[w] = "woken" <=> status[w] = "woken"
      BY <1>1 DEF Acquire, TypeOK
    <2> QED BY <2>1, <2>2 DEF IInv, NoLostWakeup, Acquire
  <1> QED BY <1>2, <1>4, <1>6, <1>7, <1>8 DEF IInv

\* napi_release_threadsafe_function removes one holder and one from
\* thread_count, which is positive because the thread holds a reference
LEMMA ReleasePreserves ==
    ASSUME IInv, NEW t \in Threads, NEW abort \in BOOLEAN, Release(t, abort)
    PROVE  IInv'
  <1>1. TypeOK /\ CountsHolders BY DEF IInv
  <1>2. t \in Holders BY DEF Release, Holders, Holding, Users
  <1>3. Holders' = Holders \ {t}
    BY <1>1 DEF TypeOK, Release, Holders, Holding, Users
  <1>4. IsFiniteSet(Holders) /\ Cardinality(Holders) \in Nat BY <1>1, HoldersFinite
  <1>5. Cardinality(Holders) > 0 BY <1>2, <1>4, FS_EmptySet
  <1>6. CountsHolders'
    BY <1>1, <1>2, <1>3, <1>4, <1>5, FS_RemoveElement DEF CountsHolders, Release
  <1>7. TypeOK'
    <2>1. thread_count' \in Nat BY <1>1 DEF TypeOK, Release
    <2>2. aborted' \in BOOLEAN /\ asyncPending' \in BOOLEAN
      BY Zenon DEF Release
    <2>3. status' \in [Threads -> Statuses] BY <1>1 DEF TypeOK, Statuses, Release
    <2> QED BY <1>1, <2>1, <2>2, <2>3 DEF TypeOK, Release
  <1>8. handle # "open" => aborted
    BY <1>2 DEF IInv, ClosedIsUnused
  <1>9. ExactlyOnceInOrder' /\ QueuedIsNotified' /\ MainWhere' /\ ClosedIsUnused'
    BY <1>8 DEF IInv, ExactlyOnceInOrder, QueuedIsNotified, MainWhere,
                ClosedIsUnused, Release
  <1>10. NoUseAfterFree' BY DEF NoUseAfterFree, Release, CanRun
  <1>11. NoLostWakeup'
    <2>1. \A w \in Threads : status'[w] = "waiting" <=> status[w] = "waiting"
      BY <1>1 DEF Release, TypeOK
    <2>2. \A w \in Threads : status'[w] = "woken" <=> status[w] = "woken"
      BY <1>1 DEF Release, TypeOK
    <2> QED BY <2>1, <2>2 DEF IInv, NoLostWakeup, Release
  <1> QED BY <1>6, <1>7, <1>9, <1>10, <1>11 DEF IInv

-----------------------------------------------------------------------------
(* One lemma per step of the main thread *)

\* The dispatch of the pending notification preserves the invariant
LEMMA DispatchPreserves == ASSUME IInv, Dispatch PROVE IInv'
  <1>1. TypeOK' BY DEF IInv, TypeOK, Dispatch
  <1>2. CountsHolders' /\ ExactlyOnceInOrder'
    BY DEF IInv, CountsHolders, Holders, ExactlyOnceInOrder, Dispatch
  <1>3. QueuedIsNotified' /\ MainWhere' /\ ClosedIsUnused' /\ NoUseAfterFree'
    BY DEF IInv, QueuedIsNotified, MainWhere, ClosedIsUnused, NoUseAfterFree, Dispatch
  <1>4. NoLostWakeup' BY DEF NoLostWakeup, Dispatch
  <1> QED BY <1>1, <1>2, <1>3, <1>4 DEF IInv

\* Taking the whole list under the mutex preserves the invariant
LEMMA DrainPreserves == ASSUME IInv, Drain PROVE IInv'
  <1>1. TypeOK /\ ExactlyOnceInOrder /\ MainWhere BY DEF IInv
  <1>2. TypeOK' BY <1>1 DEF TypeOK, Drain
  <1>3. taken = << >> /\ handle = "open" BY <1>1 DEF MainWhere, Drain, TypeOK
  <1>4. ExactlyOnceInOrder'
    <2>1. /\ delivered \in Seq(Item) /\ invocations \in Seq(Item)
          /\ taken \in Seq(Item)
      BY <1>1 DEF TypeOK
    <2>2. delivered \o taken = delivered BY <1>3, <2>1, ConcatEmptySeq, Zenon
    <2>3. delivered \o invocations \in Seq(Item) BY <2>1
    <2>4. (delivered \o invocations) \o << >> = delivered \o invocations
      BY <2>3, ConcatEmptySeq, Zenon
    <2> QED BY <1>1, <2>2, <2>4 DEF ExactlyOnceInOrder, Drain
  <1>5. CountsHolders' BY DEF IInv, CountsHolders, Holders, Drain
  <1>6. QueuedIsNotified' /\ MainWhere' /\ ClosedIsUnused' /\ NoUseAfterFree'
    BY <1>3 DEF QueuedIsNotified, MainWhere, ClosedIsUnused, NoUseAfterFree, Drain
  <1>7. NoLostWakeup' BY DEF NoLostWakeup, Drain
  <1> QED BY <1>2, <1>4, <1>5, <1>6, <1>7 DEF IInv

\* uv_cond_signal wakes one waiter when there is one, so that no other waiter
\* is forgotten: the one woken will notify the main thread
LEMMA SignalPreserves == ASSUME IInv, Signal PROVE IInv'
  <1>1. TypeOK /\ CountsHolders /\ MainWhere BY DEF IInv
  <1>2. handle = "open" BY <1>1 DEF MainWhere, Signal, TypeOK
  <1>3. CASE \E t \in Threads : /\ status[t] = "waiting"
                                /\ status' = [status EXCEPT ![t] = "woken"]
    <2>1. PICK t \in Threads : /\ status[t] = "waiting"
                               /\ status' = [status EXCEPT ![t] = "woken"]
      BY <1>3
    <2>2. TypeOK' BY <1>1, <2>1 DEF TypeOK, Statuses, Signal, tsfn
    <2>3. Holders' = Holders BY <1>1, <2>1, HoldersKept DEF Holding, Users
    <2>4. CountsHolders' BY <1>1, <2>3 DEF CountsHolders, Signal, tsfn
    <2>5. /\ ExactlyOnceInOrder' /\ QueuedIsNotified' /\ MainWhere'
          /\ ClosedIsUnused' /\ NoUseAfterFree'
      BY <1>2 DEF IInv, ExactlyOnceInOrder, QueuedIsNotified, MainWhere,
                  ClosedIsUnused, NoUseAfterFree, Signal, tsfn
    <2>6. status'[t] = "woken" BY <1>1, <2>1 DEF TypeOK
    <2>7. NoLostWakeup' BY <2>6 DEF NoLostWakeup
    <2> QED BY <2>2, <2>4, <2>5, <2>7 DEF IInv
  <1>4. CASE (\A t \in Threads : status[t] # "waiting") /\ UNCHANGED status
    <2>1. TypeOK' BY <1>1, <1>4 DEF TypeOK, Signal, tsfn
    <2>2. CountsHolders' BY <1>1, <1>4 DEF CountsHolders, Holders, Signal, tsfn
    <2>3. /\ ExactlyOnceInOrder' /\ QueuedIsNotified' /\ MainWhere'
          /\ ClosedIsUnused' /\ NoUseAfterFree'
      BY <1>2, <1>4 DEF IInv, ExactlyOnceInOrder, QueuedIsNotified, MainWhere,
                        ClosedIsUnused, NoUseAfterFree, Signal, tsfn
    <2>4. NoLostWakeup' BY <1>4 DEF NoLostWakeup
    <2> QED BY <2>1, <2>2, <2>3, <2>4 DEF IInv
  <1> QED BY <1>3, <1>4 DEF Signal

\* Running the invocation at the head of the list taken preserves the invariant
LEMMA InvokePreserves == ASSUME IInv, Invoke PROVE IInv'
  <1>1. TypeOK /\ ExactlyOnceInOrder BY DEF IInv
  <1>2. /\ delivered \in Seq(Item) /\ invocations \in Seq(Item)
        /\ taken \in Seq(Item) /\ taken # << >>
    BY <1>1 DEF TypeOK, Invoke
  <1>3. Head(taken) \in Item /\ Tail(taken) \in Seq(Item) BY <1>2
  <1>4. TypeOK' BY <1>1, <1>2, <1>3 DEF TypeOK, Invoke, tsfn
  <1>5. Append(delivered, Head(taken)) \o Tail(taken) = delivered \o taken
    BY <1>2, <1>3
  <1>6. ExactlyOnceInOrder' BY <1>1, <1>5 DEF ExactlyOnceInOrder, Invoke, tsfn
  <1>7. CountsHolders' BY DEF IInv, CountsHolders, Holders, Invoke, tsfn
  <1>8. QueuedIsNotified' /\ MainWhere' /\ ClosedIsUnused' /\ NoUseAfterFree'
    BY DEF IInv, QueuedIsNotified, MainWhere, ClosedIsUnused, Holders,
           NoUseAfterFree, Invoke, tsfn
  <1>9. NoLostWakeup' BY DEF IInv, NoLostWakeup, Invoke, tsfn
  <1> QED BY <1>4, <1>6, <1>7, <1>8, <1>9 DEF IInv

\* The handle is closed without an abort only when the count and the queue are
\* both zero, that is, when no thread can use it and nothing is queued
LEMMA CloseIfUnusedPreserves == ASSUME IInv, CloseIfUnused PROVE IInv'
  <1>1. TypeOK /\ ExactlyOnceInOrder /\ CountsHolders /\ MainWhere BY DEF IInv
  <1>2. handle = "open" BY <1>1 DEF MainWhere, CloseIfUnused, TypeOK
  <1>3. TypeOK' BY <1>1 DEF TypeOK, CloseIfUnused, tsfn
  <1>4. ExactlyOnceInOrder' /\ CountsHolders'
    BY <1>1 DEF ExactlyOnceInOrder, CountsHolders, Holders, CloseIfUnused, tsfn
  <1>5. QueuedIsNotified' /\ MainWhere' /\ NoUseAfterFree'
    BY <1>2 DEF IInv, QueuedIsNotified, MainWhere, NoUseAfterFree, CloseIfUnused, tsfn
  <1>6. thread_count = 0 => Holders = {}
    BY <1>1, HoldersFinite, FS_EmptySet DEF CountsHolders
  <1>7. queue_size = 0 => invocations = << >>
    BY <1>1, EmptySeq DEF ExactlyOnceInOrder, TypeOK
  <1>8. ClosedIsUnused'
    BY <1>2, <1>6, <1>7 DEF ClosedIsUnused, Holders, CloseIfUnused, tsfn
  <1>9. NoLostWakeup' BY DEF IInv, NoLostWakeup, CloseIfUnused, tsfn
  <1> QED BY <1>3, <1>4, <1>5, <1>8, <1>9 DEF IInv

\* The call of the finalizer preserves the invariant
LEMMA BeginFinalizePreserves == ASSUME IInv, BeginFinalize PROVE IInv'
  <1>1. TypeOK' BY DEF IInv, TypeOK, BeginFinalize, tsfn
  <1>2. CountsHolders' /\ ExactlyOnceInOrder'
    BY DEF IInv, CountsHolders, Holders, ExactlyOnceInOrder, BeginFinalize, tsfn
  <1>3. QueuedIsNotified' /\ MainWhere' /\ ClosedIsUnused' /\ NoUseAfterFree'
    BY DEF IInv, QueuedIsNotified, MainWhere, ClosedIsUnused, Holders,
           NoUseAfterFree, BeginFinalize, tsfn
  <1>4. NoLostWakeup' BY DEF IInv, NoLostWakeup, BeginFinalize, tsfn
  <1> QED BY <1>1, <1>2, <1>3, <1>4 DEF IInv

\* tsfn_async_close_cb frees the tsfn when no thread can use it: without an
\* abort there is no holder left, with a joining finalizer the others are over
LEMMA EndFinalizePreserves == ASSUME IInv, EndFinalize PROVE IInv'
  <1> USE ConstantsAssumption
  <1>1. TypeOK /\ CountsHolders /\ MainWhere /\ ClosedIsUnused BY DEF IInv
  <1>2. handle = "closing" BY <1>1 DEF MainWhere, EndFinalize
  <1>3. CASE invocations # << >>
    <2>1. mainPC' = "fatal" /\ UNCHANGED <<handle, status>>
      BY <1>3 DEF EndFinalize
    <2>2. TypeOK' BY <1>1, <2>1 DEF TypeOK, EndFinalize, tsfn
    <2>3. /\ CountsHolders' /\ ExactlyOnceInOrder' /\ QueuedIsNotified'
          /\ MainWhere' /\ ClosedIsUnused' /\ NoUseAfterFree' /\ NoLostWakeup'
      BY <1>2, <2>1
      DEF IInv, CountsHolders, Holders, ExactlyOnceInOrder, QueuedIsNotified,
          MainWhere, ClosedIsUnused, NoUseAfterFree, NoLostWakeup, EndFinalize, tsfn
    <2> QED BY <2>2, <2>3 DEF IInv
  <1>4. CASE invocations = << >>
    <2>1. /\ mainPC' = "loop"
          /\ handle' = "freed"
          /\ status' = [status EXCEPT ![Main] = IF @ \in Users THEN "closed" ELSE @]
      BY <1>4 DEF EndFinalize
    <2>2. TypeOK' BY <1>1, <2>1 DEF TypeOK, Statuses, EndFinalize, tsfn
    <2>3. Holders' = Holders BY <1>1, <2>1 DEF Holders, Holding, TypeOK
    <2>4. CountsHolders' BY <1>1, <2>3 DEF CountsHolders, EndFinalize, tsfn
    <2>5. ExactlyOnceInOrder' /\ QueuedIsNotified' /\ MainWhere'
      BY <1>4, <2>1 DEF IInv, ExactlyOnceInOrder, QueuedIsNotified, MainWhere,
                        EndFinalize, tsfn
    <2>6. ClosedIsUnused'
      BY <1>1, <1>2, <1>4, <2>3 DEF ClosedIsUnused, EndFinalize, tsfn
    <2>7. NoUseAfterFree'
      <3>1. CASE ~aborted'
        <4>1. Holders' = {} BY <1>1, <1>2, <2>3, <3>1 DEF ClosedIsUnused, EndFinalize, tsfn
        <4> QED BY <4>1 DEF NoUseAfterFree, Holders, Holding
      <3>2. CASE JoinInFinalizer
        <4>1. \A t \in Threads \ {Main} : status[t] \notin Users
          BY <3>2 DEF EndFinalize
        <4>2. \A t \in Threads : status'[t] \notin Users
          BY <1>1, <2>1, <4>1 DEF TypeOK, Users
        <4> QED BY <4>2 DEF NoUseAfterFree
      <3> QED BY <3>1, <3>2 DEF NoUseAfterFree
    <2>8. NoLostWakeup'
      <3>1. CASE ~aborted'
        <4>1. Holders' = {} BY <1>1, <1>2, <2>3, <3>1 DEF ClosedIsUnused, EndFinalize, tsfn
        <4> QED BY <4>1 DEF NoLostWakeup, Holders, Holding, Users
      <3> QED BY <3>1 DEF NoLostWakeup
    <2> QED BY <2>2, <2>4, <2>5, <2>6, <2>7, <2>8 DEF IInv
  <1> QED BY <1>3, <1>4

-----------------------------------------------------------------------------
\* Every step of the threads and of the main thread preserves the invariant
LEMMA NextIInv == IInv /\ [Next]_vars => IInv'
  <1> SUFFICES ASSUME IInv, [Next]_vars PROVE IInv' OBVIOUS
  <1>1. CASE MainStep
    BY <1>1, DispatchPreserves, DrainPreserves, SignalPreserves, InvokePreserves,
       CloseIfUnusedPreserves, BeginFinalizePreserves, EndFinalizePreserves
    DEF MainStep
  <1>2. CASE \E t \in Threads : ThreadStep(t)
    <2>1. PICK t \in Threads : ThreadStep(t) BY <1>2
    <2>2. CASE \E b \in (IF t = Main THEN {FALSE} ELSE BOOLEAN) : Call(t, b)
      <3>1. PICK b \in BOOLEAN : Call(t, b) BY <2>2
      <3> QED BY <3>1, CallPreserves
    <2>3. CASE Resume(t) BY <2>3, ResumePreserves
    <2>4. CASE SpuriousWake(t) BY <2>4, SpuriousWakePreserves
    <2>5. CASE \E u \in Threads : Acquire(t, u) BY <2>5, AcquirePreserves
    <2>6. CASE \E abort \in BOOLEAN : Release(t, abort) BY <2>6, ReleasePreserves
    <2> QED BY <2>1, <2>2, <2>3, <2>4, <2>5, <2>6 DEF ThreadStep
  <1>3. CASE UNCHANGED vars
    BY <1>3 DEF vars, IInv, TypeOK, ExactlyOnceInOrder, CountsHolders, Holders,
                QueuedIsNotified, MainWhere, ClosedIsUnused, NoUseAfterFree,
                NoLostWakeup
  <1> QED BY <1>1, <1>2, <1>3 DEF Next

\* IInv holds in every reachable state of a thread-safe function
THEOREM Invariance == Spec => []IInv
  BY InitIInv, NextIInv, PTL DEF Spec

\* The type invariant of a thread-safe function, whatever the threads do
THEOREM TypeCorrect == Spec => []TypeOK
  <1>1. IInv => TypeOK BY DEF IInv
  <1> QED BY <1>1, Invariance, PTL

\* Invocations are delivered exactly once and in the order of acceptance
THEOREM DeliveryCorrect == Spec => []ExactlyOnceInOrder
  <1>1. IInv => ExactlyOnceInOrder BY DEF IInv
  <1> QED BY <1>1, Invariance, PTL

\* thread_count is the number of holders, so napi_release_threadsafe_function
\* never meets a zero count
THEOREM CountCorrect == Spec => []CountsHolders
  <1>1. IInv => CountsHolders BY DEF IInv
  <1> QED BY <1>1, Invariance, PTL

\* The tsfn is not freed under a thread that may still use it
THEOREM FreeSafe == Spec => []NoUseAfterFree
  <1>1. IInv => NoUseAfterFree BY DEF IInv
  <1> QED BY <1>1, Invariance, PTL

\* No accepted invocation is lost by a close that is not an abort
THEOREM CloseLosesNothing == Spec => []NothingLostWithoutAbort
  <1>1. IInv => NothingLostWithoutAbort
    <2> SUFFICES ASSUME IInv, handle # "open", ~aborted PROVE delivered = accepted
      BY DEF NothingLostWithoutAbort
    <2>1. invocations = << >> BY DEF IInv, ClosedIsUnused
    <2>2. taken = << >> BY DEF IInv, MainWhere, TypeOK
    <2>3. delivered \in Seq(Item) /\ accepted = delivered \o taken \o invocations
      BY DEF IInv, TypeOK, ExactlyOnceInOrder
    <2>4. delivered \o << >> = delivered BY <2>3, ConcatEmptySeq, Zenon
    <2> QED BY <2>1, <2>2, <2>3, <2>4
  <1> QED BY <1>1, Invariance, PTL

\* Absent an abort, a waiting caller always has a wakeup on its way
THEOREM WakeupSafe == Spec => []NoLostWakeup
  <1>1. IInv => NoLostWakeup BY DEF IInv
  <1> QED BY <1>1, Invariance, PTL
=============================================================================
