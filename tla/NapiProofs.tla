------------------------------ MODULE NapiProofs ------------------------------
(***************************************************************************)
(* Proofs about Napi for any number of objects, references, scopes, calls, *)
(* work items and hooks.  The invariant has four parts: the work items,    *)
(* the cleanup hooks, the stack of native frames with its handle scopes    *)
(* and the pending exception, and the heap with the counts of the objects  *)
(* and their lists of references.  The first two share only the history of *)
(* misuse with the others; the heap needs the stack, since a frame that is *)
(* left gives back what it owned.                                          *)
(***************************************************************************)
EXTENDS Napi, FiniteSetTheorems, SequenceTheorems, TLAPS

-----------------------------------------------------------------------------
(* Work items.                                                             *)

WorkItem == [mem : {"none", "live", "freed"}, at : {"idle", "queued", "running", "done"},
             executed : Nat, completed : Nat, status : {"none", "ok", "cancelled"},
             completing : BOOLEAN]

\* A work item that uv still has and whose memory is released was deleted under uv
DeletedUnderUv ==
    \A w \in Works :
        work[w].mem = "freed" /\ work[w].at # "idle" => "work deleted under uv" \in misuse

WorkInv == work \in [Works -> WorkItem] /\ DeletedUnderUv /\ WorkSafe

-----------------------------------------------------------------------------
(* Cleanup hooks.                                                          *)

HookTypes ==
    /\ hooks \in Seq(Hooks)
    /\ ran \in Seq(Hooks)
    /\ hookAt \in {"none", "next", "running"}
    /\ ~leaving => hookAt = "none"

\* The list holds no hook twice: napi_add_env_cleanup_hook refuses it
HooksDistinct == \A i, j \in 1 .. Len(hooks) : hooks[i] = hooks[j] => i = j

\* How many of the hooks that were called have returned
Returned == IF hookAt = "running" THEN Len(ran) - 1 ELSE Len(ran)

\* Until the list is misused, the hooks called are its first ones, and those that
\* have returned are the ones that are freed
HooksCalled ==
    misuse = {} =>
        /\ hookAt = "none" => ran = <<>>
        /\ hookAt = "running" => ran # <<>>
        /\ Len(ran) <= Len(hooks)
        /\ \A i \in 1 .. Len(ran) : ran[i] = hooks[i]
        /\ freed = {ran[i] : i \in 1 .. Returned}
        /\ IsFiniteSet(freed)
        /\ Cardinality(freed) = Returned

HookInv == HookTypes /\ HooksDistinct /\ HooksCalled

-----------------------------------------------------------------------------
(* The stack.                                                              *)

FrameType == [kind : {"js", "function", "init", "complete"}, by : {"call", "get", "set"},
              base : Nat, args : SUBSET Objects, loose : SUBSET Objects]
ScopeType == [handles : [Objects -> Nat], escaped : BOOLEAN]

\* A reference is of an object, or of none
RefsOfObjects ==
    \A r \in Refs : "jval" \in DOMAIN refs[r] /\ refs[r].jval \in Objects \cup {None}

StackTypes ==
    /\ frames \in Seq(FrameType)
    /\ scopes \in Seq(ScopeType)
    /\ script \subseteq Objects
    /\ pending \in [kind : {"none", "throw", "fatal"}, of : 0 .. MaxObjects, at : Nat]
    /\ pending.kind # "none" => pending.of \in Objects
    /\ refs = [r \in Refs |-> refs[r]]
    /\ RefsOfObjects

\* The scopes that were open when a frame was entered are open while it is on the
\* stack, a native frame has a scope of its own, and the script is called by an addon
\* or has no frame
FramesNest ==
    /\ \A i \in 1 .. Len(frames) :
         /\ frames[i].base <= Len(scopes)
         /\ frames[i].kind # "js" => frames[i].base < Len(scopes)
         /\ frames[i].kind = "js" => i > 1 /\ frames[i - 1].kind # "js"
    /\ \A i, j \in 1 .. Len(frames) :
         i < j => /\ frames[i].base <= frames[j].base
                  /\ frames[i].kind # "js" => frames[i].base < frames[j].base

StackInv == StackTypes /\ FramesNest /\ ExceptionStaysInFrame

-----------------------------------------------------------------------------
(* The heap.                                                               *)

ObjType == [st : {"unborn", "live", "gone"}, rc : Int, prop : Objects \cup {None},
            wrap : {"none", "wrap", "data"}, final : Nat,
            refStart : Refs \cup {None}, refEnd : Refs \cup {None}]
RefType == [st : {"none", "live", "deleted"}, jval : Objects \cup {None}, count : Nat,
            prev : Refs \cup {None}, next : Refs \cup {None}]

HeapTypes ==
    /\ obj \in [Objects -> ObjType]
    /\ refs \in [Refs -> RefType]

\* Objects are numbered as they are created, and nothing knows of one that is not
Born == {o \in Objects : obj[o].st # "unborn"}

BornInv ==
    /\ \A o, p \in Objects : o < p /\ p \in Born => o \in Born
    /\ \A o \in Objects \ Born :
         obj[o].rc = 0 /\ obj[o].refStart = None /\ obj[o].refEnd = None
    /\ \A o \in Objects : obj[o].prop \in Born \cup {None}
    /\ lost \subseteq Born
    /\ script \subseteq Born
    /\ pending.of \in Born \cup {None}
    /\ \A i \in 1 .. Len(frames) : frames[i].args \subseteq Born

\* What the frames on the stack are of: exports is the only argument of an Init, and a
\* complete callback is called by the event loop
CallInv ==
    /\ pending.kind = "none" => pending.of = None
    /\ \A i \in 1 .. Len(frames) :
         /\ frames[i].kind = "init" => \E e \in Objects : frames[i].args = {e}
         /\ frames[i].kind = "complete" => i = 1

\* A reference of an object is linked to its neighbours in the list of that object, the
\* older one before it and the younger one behind it, or to the object
LinkedBack(r) ==
    LET o == refs[r].jval
        p == refs[r].prev
    IN  IF p = None THEN obj[o].refStart = r
        ELSE p < r /\ refs[p].jval = o /\ refs[p].next = r
LinkedOn(r) ==
    LET o == refs[r].jval
        n == refs[r].next
    IN  IF n = None THEN obj[o].refEnd = r
        ELSE refs[n].jval = o /\ refs[n].prev = r

RefInv ==
    /\ \A q, r \in Refs : q < r /\ refs[q].st = "none" => refs[r].st = "none"
    /\ \A r \in Refs : refs[r].jval # None =>
         refs[r].st = "live" /\ refs[r].jval \in Live /\ LinkedBack(r) /\ LinkedOn(r)
    /\ \A o \in Live :
         /\ obj[o].refStart # None =>
              refs[obj[o].refStart].jval = o /\ refs[obj[o].refStart].prev = None
         /\ obj[o].refEnd # None =>
              refs[obj[o].refEnd].jval = o /\ refs[obj[o].refEnd].next = None
         /\ obj[o].refStart = None <=> obj[o].refEnd = None

\* The count of every object but the lost ones, whatever has become of it, is the number
\* of its owners
CountInv == \A o \in Objects \ lost : obj[o].rc = Owners(o)

HeapInv == HeapTypes /\ BornInv /\ CallInv /\ RefInv /\ CountInv

IInv == WorkInv /\ HookInv /\ StackInv /\ HeapInv

-----------------------------------------------------------------------------
\* The calls that make values, use references or call functions touch neither the
\* work items nor the hooks.
LEMMA ValuesLeaveWork ==
    NapiValuesCall \/ NapiLifetimeCall \/ NapiFunctionsCall \/ Collect
    => UNCHANGED workVars
  <1>1. NapiValuesCall => UNCHANGED workVars
    BY DEF NapiValuesCall, CreateArray, CreateExternalArraybuffer, CreateExternal,
           CreateTypedarray, CreateError, GetPropertyNames, SetProperty, SetNamedProperty,
           SetElement, GetProperty, GetNamedProperty, GetElement, DeleteProperty,
           DefineProperties, DefineClass, SetData, GetData, CallSetter, CallGetter,
           SetterReturns, GetterReturns
  <1>2. NapiLifetimeCall => UNCHANGED workVars
    BY DEF NapiLifetimeCall, OpenHandleScope, CloseHandleScope, EscapeHandle, CreateReference,
           DeleteReference, ReferenceRef, ReferenceUnref, GetReferenceValue, Wrap, RemoveWrap
  <1>3. NapiFunctionsCall => UNCHANGED workVars
    BY DEF NapiFunctionsCall, ScriptDrops, FunctionHandler, FunctionReturns, CreateFunction,
           CallFunction, FunctionCalled, Throw, ThrowError, FatalException,
           GetAndClearLastException, InitPending, InitReturns
  <1>4. Collect => UNCHANGED workVars BY DEF Collect
  <1> QED BY <1>1, <1>2, <1>3, <1>4

\* No step breaks what is known of the work items: uv has an item only while it is
\* queued, and only napi_delete_async_work releases one.
LEMMA WorkStepInv == WorkInv /\ [Next]_vars => WorkInv'
  <1> SUFFICES ASSUME WorkInv, [Next]_vars PROVE WorkInv' OBVIOUS
  <1> USE DEF WorkInv, WorkItem, DeletedUnderUv, WorkSafe
  <1>1. CASE UNCHANGED <<work, misuse>> BY <1>1
  <1>2. CASE CreateAsyncWork
    <2> PICK w \in Works : work[w].mem = "none" /\ work' = [work EXCEPT ![w].mem = "live"]
      BY <1>2 DEF CreateAsyncWork
    <2>1. work' \in [Works -> WorkItem] OBVIOUS
    <2>2. misuse' = misuse BY <1>2 DEF CreateAsyncWork
    <2>3. \A v \in Works : work'[v].mem = "freed" => work'[v].at = work[v].at /\ work[v].mem = "freed"
      OBVIOUS
    <2> QED BY <2>1, <2>2, <2>3
  <1>3. CASE QueueAsyncWork
    <2> PICK w \in Works : work[w].mem = "live" /\ work' = [work EXCEPT ![w].at = "queued"]
      BY <1>3 DEF QueueAsyncWork
    <2>1. work' \in [Works -> WorkItem] OBVIOUS
    <2>2. misuse' = misuse BY <1>3 DEF QueueAsyncWork
    <2>3. \A v \in Works : work'[v].mem = "freed" => work'[v].at = work[v].at /\ work[v].mem = "freed"
      OBVIOUS
    <2> QED BY <2>1, <2>2, <2>3
  <1>4. CASE CancelAsyncWork
    <2> PICK w \in Works : /\ work[w].mem = "live"
                           /\ work' = [work EXCEPT ![w].at = "done", ![w].status = "cancelled"]
      BY <1>4 DEF CancelAsyncWork
    <2>1. work' \in [Works -> WorkItem] OBVIOUS
    <2>2. misuse' = misuse BY <1>4 DEF CancelAsyncWork
    <2>3. \A v \in Works : work'[v].mem = "freed" => work'[v].at = work[v].at /\ work[v].mem = "freed"
      OBVIOUS
    <2> QED BY <2>1, <2>2, <2>3
  <1>5. CASE DeleteAsyncWork
    <2> PICK w \in Works :
          /\ work' = [work EXCEPT ![w].mem = "freed"]
          /\ misuse' = IF work[w].at \in {"queued", "running", "done"}
                       THEN misuse \cup {"work deleted under uv"} ELSE misuse
      BY <1>5 DEF DeleteAsyncWork
    <2>1. work' \in [Works -> WorkItem] OBVIOUS
    <2>2. \A v \in Works : /\ work'[v].at = work[v].at
                           /\ v # w => work'[v].mem = work[v].mem
      OBVIOUS
    <2>3. WorkSafe' OBVIOUS
    <2>4. DeletedUnderUv' BY <2>2
    <2> QED BY <2>1, <2>3, <2>4
  <1>6. ASSUME NEW w \in Works, WorkStarts(w) PROVE WorkInv'
    <2>0. work' = [work EXCEPT ![w].at = "running", ![w].executed = @ + 1]
      BY <1>6 DEF WorkStarts
    <2>1. work' \in [Works -> WorkItem]
      <3> HIDE DEF WorkItem
      <3>1. work[w] \in WorkItem OBVIOUS
      <3>2. work[w].executed \in Nat BY ONLY <3>1 DEF WorkItem
      <3>3. work[w].executed + 1 \in Nat BY ONLY <3>2
      <3> DEFINE v == [work[w] EXCEPT !.at = "running", !.executed = @ + 1]
      <3>4. v \in WorkItem BY ONLY <3>1, <3>3 DEF WorkItem
      <3>5. work' = [work EXCEPT ![w] = v] BY ONLY <2>0, work \in [Works -> WorkItem]
      <3> QED BY <3>4, <3>5
    <2> USE <1>6 DEF WorkStarts, WorkTouched
    <2>2. \A v \in Works : /\ work'[v].mem = work[v].mem
                           /\ v # w => work'[v].at = work[v].at
      OBVIOUS
    <2>3. work[w].at # "idle" OBVIOUS
    <2>4. misuse \subseteq misuse' OBVIOUS
    <2>5. WorkSafe' BY <2>3
    <2>6. DeletedUnderUv' BY <2>2, <2>3, <2>4
    <2> QED BY <2>1, <2>5, <2>6
  <1>7. ASSUME NEW w \in Works, WorkEnds(w) PROVE WorkInv'
    BY <1>7 DEF WorkEnds
  <1>8. ASSUME NEW w \in Works, AfterWork(w) PROVE WorkInv'
    <2>0. work' = [work EXCEPT ![w].at = "idle", ![w].completed = @ + 1, ![w].completing = TRUE]
      BY <1>8 DEF AfterWork
    <2>1. work' \in [Works -> WorkItem]
      <3> HIDE DEF WorkItem
      <3>1. work[w] \in WorkItem OBVIOUS
      <3>2. work[w].completed \in Nat BY ONLY <3>1 DEF WorkItem
      <3>3. work[w].completed + 1 \in Nat BY ONLY <3>2
      <3> DEFINE v == [work[w] EXCEPT !.at = "idle", !.completed = @ + 1, !.completing = TRUE]
      <3>4. v \in WorkItem BY ONLY <3>1, <3>3 DEF WorkItem
      <3>5. work' = [work EXCEPT ![w] = v] BY ONLY <2>0, work \in [Works -> WorkItem]
      <3> QED BY <3>4, <3>5
    <2> USE <1>8 DEF AfterWork, WorkTouched
    <2>2. \A v \in Works : /\ work'[v].mem = work[v].mem
                           /\ v # w => work'[v].at = work[v].at
      OBVIOUS
    <2>3. work[w].at # "idle" OBVIOUS
    <2>4. misuse \subseteq misuse' OBVIOUS
    <2>5. WorkSafe' BY <2>3
    <2>6. DeletedUnderUv' BY <2>2, <2>3, <2>4
    <2> QED BY <2>1, <2>5, <2>6
  <1>9. ASSUME NEW w \in Works, CompleteReturns(w) PROVE WorkInv'
    BY <1>9 DEF CompleteReturns
  <1>10. CASE AddEnvCleanupHook BY <1>10 DEF AddEnvCleanupHook, Walked
  <1>11. CASE RemoveEnvCleanupHook BY <1>11 DEF RemoveEnvCleanupHook, Walked
  <1>12. CASE Leave \/ CallHook \/ HookReturns BY <1>1, <1>12 DEF Leave, CallHook, HookReturns
  <1> QED
    BY <1>1, <1>2, <1>3, <1>4, <1>5, <1>6, <1>7, <1>8, <1>9, <1>10, <1>11, <1>12,
       ValuesLeaveWork DEF Next, vars, workVars, NapiWorkCall, WorkStep

\* Removing one hook leaves the list a list of distinct hooks, with the hooks before
\* it where they were.
LEMMA RemoveHook ==
    ASSUME HookTypes, HooksDistinct, NEW i \in 1 .. Len(hooks), hooks' = RemoveAt(hooks, i)
    PROVE  /\ hooks' \in Seq(Hooks)
           /\ HooksDistinct'
           /\ Len(hooks') = Len(hooks) - 1
           /\ \A j \in 1 .. i - 1 : hooks'[j] = hooks[j]
  <1> USE DEF HookTypes
  <1>1. /\ SubSeq(hooks, 1, i - 1) \in Seq(Hooks)
        /\ Len(SubSeq(hooks, 1, i - 1)) = i - 1
        /\ \A j \in 1 .. i - 1 : SubSeq(hooks, 1, i - 1)[j] = hooks[j]
    OBVIOUS
  <1>2. /\ SubSeq(hooks, i + 1, Len(hooks)) \in Seq(Hooks)
        /\ Len(SubSeq(hooks, i + 1, Len(hooks))) = Len(hooks) - i
        /\ \A j \in 1 .. Len(hooks) - i : SubSeq(hooks, i + 1, Len(hooks))[j] = hooks[i + j]
    OBVIOUS
  <1>3. /\ hooks' \in Seq(Hooks)
        /\ Len(hooks') = Len(hooks) - 1
        /\ \A j \in 1 .. Len(hooks) - 1 : hooks'[j] = IF j < i THEN hooks[j] ELSE hooks[j + 1]
    <2> DEFINE a == SubSeq(hooks, 1, i - 1)
               b == SubSeq(hooks, i + 1, Len(hooks))
    <2>0. hooks' = a \o b BY DEF RemoveAt
    <2> HIDE DEF a, b
    <2>1. /\ a \in Seq(Hooks) /\ b \in Seq(Hooks) /\ Len(a) = i - 1 /\ Len(b) = Len(hooks) - i
          /\ \A j \in 1 .. i - 1 : a[j] = hooks[j]
          /\ \A j \in 1 .. Len(hooks) - i : b[j] = hooks[i + j]
      BY <1>1, <1>2 DEF a, b
    <2>2. /\ a \o b \in Seq(Hooks) /\ Len(a \o b) = Len(a) + Len(b)
          /\ \A j \in 1 .. Len(a) + Len(b) : (a \o b)[j] = IF j <= Len(a) THEN a[j] ELSE b[j - Len(a)]
      BY ONLY <2>1, ConcatProperties
    <2>3. /\ hooks' \in Seq(Hooks) /\ Len(hooks') = Len(hooks) - 1 BY <2>0, <2>1, <2>2
    <2>4. ASSUME NEW j \in 1 .. Len(hooks) - 1
          PROVE  hooks'[j] = IF j < i THEN hooks[j] ELSE hooks[j + 1]
      <3>1. CASE j < i BY <2>0, <2>1, <2>2, <3>1
      <3>2. CASE ~(j < i)
        <4>1. j - (i - 1) \in 1 .. Len(hooks) - i /\ i + (j - (i - 1)) = j + 1 BY <3>2
        <4>2. b[j - (i - 1)] = hooks[j + 1] BY <2>1, <4>1
        <4>3. j \in 1 .. Len(a) + Len(b) /\ ~(j <= Len(a)) BY <2>1, <3>2
        <4>4. hooks'[j] = b[j - Len(a)] BY <2>0, <2>2, <4>3
        <4> QED BY <2>1, <3>2, <4>2, <4>4
      <3> QED BY <3>1, <3>2
    <2> QED BY <2>3, <2>4
  <1>4. HooksDistinct'
    <2> SUFFICES ASSUME NEW j \in 1 .. Len(hooks) - 1, NEW k \in 1 .. Len(hooks) - 1,
                        hooks'[j] = hooks'[k]
                 PROVE  j = k
      BY <1>3 DEF HooksDistinct
    <2> DEFINE at(n) == IF n < i THEN n ELSE n + 1
    <2>1. at(j) \in 1 .. Len(hooks) /\ at(k) \in 1 .. Len(hooks) OBVIOUS
    <2>2. hooks[at(j)] = hooks[at(k)] BY <1>3
    <2>3. at(j) = at(k) BY <2>1, <2>2 DEF HooksDistinct
    <2> QED BY <2>3
  <1> QED BY <1>3, <1>4

\* A hook that is removed without touching freed memory comes after every hook that
\* was called.
LEMMA RemovedWasNotCalled ==
    ASSUME HookInv, misuse = {}, NEW i \in 1 .. Len(hooks), Walked(i) = {},
           ~(hookAt = "running" /\ i = Len(ran))
    PROVE  Len(ran) < i
  <1> USE DEF HookInv, HookTypes
  <1>1. \A j \in 1 .. i : hooks[j] \notin freed BY DEF Walked
  <1>2. Returned \in Nat /\ Returned <= Len(ran) BY DEF HooksCalled, Returned
  <1>3. Returned = 0
    <2> SUFFICES ASSUME 1 \in 1 .. Returned PROVE FALSE BY <1>2
    <2>1. ran[1] \in freed BY DEF HooksCalled
    <2>2. ran[1] = hooks[1] BY <1>2 DEF HooksCalled
    <2> QED BY <1>1, <2>1, <2>2
  <1>4. Len(ran) \in Nat /\ i >= 1 OBVIOUS
  <1>5. Len(ran) = 0 \/ (hookAt = "running" /\ Len(ran) = 1)
    BY ONLY <1>3, <1>4 DEF Returned
  <1> QED BY ONLY <1>4, <1>5, i \in 1 .. Len(hooks), ~(hookAt = "running" /\ i = Len(ran))

\* No step breaks what is known of the hooks: they are called from the first on, each
\* one is freed after it has returned, and removing one that was called is a misuse.
LEMMA HookStepInv == HookInv /\ [Next]_vars => HookInv'
  <1> SUFFICES ASSUME HookInv, [Next]_vars PROVE HookInv' OBVIOUS
  <1> USE DEF HookInv
  <1>1. CASE UNCHANGED <<hooks, freed, ran, hookAt, leaving, misuse>>
    BY <1>1 DEF HookTypes, HooksDistinct, HooksCalled, Returned
  <1>2. CASE UNCHANGED <<hooks, freed, ran, hookAt, leaving>> /\ misuse \subseteq misuse'
    BY <1>2 DEF HookTypes, HooksDistinct, HooksCalled, Returned
  <1>3. CASE AddEnvCleanupHook
    <2> PICK h \in Hooks : h \notin ToSet(hooks) /\ hooks' = Append(hooks, h)
      BY <1>3 DEF AddEnvCleanupHook
    <2>1. UNCHANGED <<freed, ran, hookAt, leaving>> /\ misuse \subseteq misuse'
      BY <1>3 DEF AddEnvCleanupHook
    <2>2. HookTypes' BY <2>1 DEF HookTypes
    <2>3. /\ Len(hooks') = Len(hooks) + 1
          /\ \A i \in 1 .. Len(hooks) : hooks'[i] = hooks[i] /\ hooks[i] # h
          /\ hooks'[Len(hooks) + 1] = h
      BY DEF HookTypes, ToSet
    <2>4. HooksDistinct' BY <2>3 DEF HooksDistinct, HookTypes
    <2>5. HooksCalled'
      <3> SUFFICES ASSUME misuse' = {} PROVE HooksCalled' BY DEF HooksCalled
      <3>1. misuse = {} BY <2>1
      <3>2. /\ Len(ran) \in Nat /\ Len(hooks) \in Nat /\ Len(ran) <= Len(hooks)
            /\ \A i \in 1 .. Len(ran) : ran[i] = hooks[i]
        BY <3>1 DEF HooksCalled, HookTypes
      <3>3. Len(ran) <= Len(hooks') /\ \A i \in 1 .. Len(ran) : ran[i] = hooks'[i]
        BY <2>3, <3>2
      <3>4. Returned' = Returned BY <2>1 DEF Returned
      <3> QED BY <2>1, <3>1, <3>3, <3>4 DEF HooksCalled
    <2> QED BY <2>2, <2>4, <2>5
  <1>4. CASE RemoveEnvCleanupHook
    <2> PICK i \in 1 .. Len(hooks) :
          /\ misuse' = misuse \cup Walked(i)
               \cup (IF hookAt = "running" /\ i = Len(ran) THEN {"running hook freed"} ELSE {})
          /\ hooks' = RemoveAt(hooks, i)
      <3>1. DOMAIN hooks = 1 .. Len(hooks) BY DEF HookTypes
      <3> QED BY <1>4, <3>1 DEF RemoveEnvCleanupHook
    <2>1. UNCHANGED <<freed, ran, hookAt, leaving>> BY <1>4 DEF RemoveEnvCleanupHook
    <2>2. HookTypes' /\ HooksDistinct' BY <2>1, RemoveHook DEF HookTypes
    <2>3. HooksCalled'
      <3> SUFFICES ASSUME misuse' = {} PROVE HooksCalled' BY DEF HooksCalled
      <3>1. misuse = {} /\ Walked(i) = {} /\ ~(hookAt = "running" /\ i = Len(ran)) OBVIOUS
      <3>2. Len(ran) < i BY <3>1, RemovedWasNotCalled
      <3>3. Len(hooks') = Len(hooks) - 1 /\ \A j \in 1 .. i - 1 : hooks'[j] = hooks[j]
        BY RemoveHook
      <3>4. Len(ran) <= Len(hooks') /\ \A j \in 1 .. Len(ran) : ran[j] = hooks'[j]
        <4>1. /\ Len(ran) \in Nat /\ Len(hooks) \in Nat
              /\ \A j \in 1 .. Len(ran) : ran[j] = hooks[j]
          BY ONLY HookInv, <3>1 DEF HookInv, HooksCalled, HookTypes
        <4> QED BY ONLY <4>1, <3>2, <3>3, i \in 1 .. Len(hooks)
      <3>5. Returned' = Returned BY <2>1 DEF Returned
      <3> QED BY ONLY HooksCalled, <2>1, <3>1, <3>4, <3>5 DEF HooksCalled
    <2> QED BY <2>2, <2>3
  <1>5. CASE Leave
    <2>1. HookTypes' /\ HooksDistinct' BY <1>5 DEF Leave, HookTypes, HooksDistinct
    <2>2. HooksCalled' BY <1>5 DEF Leave, HookTypes, HooksCalled, Returned
    <2> QED BY <2>1, <2>2
  <1>6. CASE CallHook
    <2> PICK i \in 1 .. Len(hooks) :
          i = Cardinality(freed) + 1 /\ ran' = Append(ran, hooks[i]) /\ hookAt' = "running"
      BY <1>6 DEF CallHook, HookTypes
    <2>1. UNCHANGED <<hooks, freed, leaving, misuse>> /\ hookAt = "next" BY <1>6 DEF CallHook
    <2>2. HookTypes' /\ HooksDistinct' BY <2>1 DEF HookTypes, HooksDistinct
    <2>3. HooksCalled'
      <3> SUFFICES ASSUME misuse = {} PROVE HooksCalled' BY <2>1 DEF HooksCalled
      <3>1. Returned = Len(ran) /\ i = Len(ran) + 1 BY <2>1 DEF HooksCalled, Returned
      <3>2. /\ Len(ran') = Len(ran) + 1
            /\ \A j \in 1 .. Len(ran) : ran'[j] = ran[j]
            /\ ran'[Len(ran) + 1] = hooks[Len(ran) + 1]
        BY <3>1 DEF HookTypes
      <3>3. Returned' = Len(ran) BY <3>2 DEF Returned, HookTypes
      <3>4. freed' = {ran'[j] : j \in 1 .. Returned'}
        BY <2>1, <3>1, <3>2, <3>3 DEF HooksCalled
      <3>5. Len(ran') <= Len(hooks') /\ \A j \in 1 .. Len(ran') : ran'[j] = hooks'[j]
        BY <2>1, <3>1, <3>2 DEF HooksCalled, HookTypes
      <3>6. IsFiniteSet(freed') /\ Cardinality(freed') = Returned'
        BY <2>1, <3>1, <3>3 DEF HooksCalled
      <3>7. ran' # <<>> BY <3>2 DEF HookTypes
      <3> QED BY <3>4, <3>5, <3>6, <3>7 DEF HooksCalled
    <2> QED BY <2>2, <2>3
  <1>7. CASE HookReturns
    <2>1. /\ UNCHANGED <<hooks, ran, leaving, misuse>> /\ hookAt = "running" /\ misuse = {}
          /\ hookAt' = "next" /\ freed' = freed \cup {ran[Len(ran)]}
      BY <1>7 DEF HookReturns
    <2>2. HookTypes' /\ HooksDistinct' BY <2>1 DEF HookTypes, HooksDistinct
    <2>3. Returned = Len(ran) - 1 /\ Returned' = Len(ran) /\ Len(ran) \in Nat \ {0}
      BY <2>1 DEF HooksCalled, HookTypes, Returned
    <2>4. ran[Len(ran)] \notin freed
      BY <2>1, <2>3 DEF HooksCalled, HooksDistinct, HookTypes
    <2>5. freed' = {ran'[j] : j \in 1 .. Returned'}
      BY <2>1, <2>3 DEF HooksCalled
    <2>6. IsFiniteSet(freed') /\ Cardinality(freed') = Returned'
      <3>1. IsFiniteSet(freed) /\ Cardinality(freed) = Returned BY <2>1 DEF HooksCalled
      <3>2. /\ IsFiniteSet(freed \cup {ran[Len(ran)]})
            /\ Cardinality(freed \cup {ran[Len(ran)]}) = Cardinality(freed) + 1
        BY <3>1, <2>4, FS_AddElement
      <3> QED BY <2>1, <2>3, <3>1, <3>2
    <2> QED BY <2>1, <2>2, <2>5, <2>6 DEF HooksCalled
  <1>8. NapiWorkCall \/ (\E w \in Works : WorkStep(w)) =>
           \/ UNCHANGED <<hooks, freed, ran, hookAt, leaving>> /\ misuse \subseteq misuse'
           \/ AddEnvCleanupHook \/ RemoveEnvCleanupHook \/ Leave \/ CallHook \/ HookReturns
    BY DEF NapiWorkCall, WorkStep, CreateAsyncWork, QueueAsyncWork, CancelAsyncWork,
           DeleteAsyncWork, WorkStarts, WorkEnds, AfterWork, CompleteReturns
  <1> QED
    BY <1>1, <1>2, <1>3, <1>4, <1>5, <1>6, <1>7, <1>8, ValuesLeaveWork DEF Next, vars, workVars

-----------------------------------------------------------------------------
(* What the helpers of the heap do to the stack.                           *)

\* The current scope takes over a value (jerryx_create_handle) and stays the current one
LEMMA HandleKept ==
    ASSUME NEW sc \in Seq(ScopeType), Len(sc) > 0, NEW o
    PROVE  HandleIn(sc, o) \in Seq(ScopeType) /\ Len(HandleIn(sc, o)) = Len(sc)
  <1> DEFINE d == Len(sc)
             top == [sc[d] EXCEPT !.handles[o] = @ + 1]
  <1>1. d \in 1 .. Len(sc) /\ sc[d] \in ScopeType OBVIOUS
  <1>2. top \in ScopeType
    <2>1. sc[d].handles \in [Objects -> Nat] BY ONLY <1>1 DEF ScopeType
    <2>2. [sc[d].handles EXCEPT ![o] = @ + 1] \in [Objects -> Nat]
      <3>1. CASE o \in Objects BY ONLY <2>1, <3>1
      <3>2. CASE o \notin Objects BY ONLY <2>1, <3>2
      <3> QED BY ONLY <3>1, <3>2
    <2> QED BY ONLY <1>1, <2>2 DEF ScopeType
  <1>3. HandleIn(sc, o) = [sc EXCEPT ![d] = top] BY DEF HandleIn
  <1> HIDE DEF top
  <1> QED BY <1>1, <1>2, <1>3

\* jerryx_escape_handle moves a value to the parent of the current scope
LEMMA EscapeKept ==
    ASSUME NEW sc \in Seq(ScopeType), NEW o \in Objects, CanEscape(sc, o)
    PROVE  Escaped(sc, o) \in Seq(ScopeType) /\ Len(Escaped(sc, o)) = Len(sc)
  <1> DEFINE d == Len(sc)
             top == [sc[d] EXCEPT !.handles[o] = @ - 1, !.escaped = TRUE]
             parent == [sc[d - 1] EXCEPT !.handles[o] = @ + 1]
  <1>1. /\ d \in 1 .. Len(sc) /\ d - 1 \in 1 .. Len(sc)
        /\ sc[d] \in ScopeType /\ sc[d - 1] \in ScopeType /\ sc[d].handles[o] > 0
    BY DEF CanEscape
  <1>2. top \in ScopeType
    <2>1. sc[d].handles \in [Objects -> Nat] BY ONLY <1>1 DEF ScopeType
    <2>2. [sc[d].handles EXCEPT ![o] = @ - 1] \in [Objects -> Nat] BY ONLY <1>1, <2>1
    <2> QED BY ONLY <1>1, <2>2 DEF ScopeType
  <1>3. parent \in ScopeType
    <2>1. sc[d - 1].handles \in [Objects -> Nat] BY ONLY <1>1 DEF ScopeType
    <2>2. [sc[d - 1].handles EXCEPT ![o] = @ + 1] \in [Objects -> Nat] BY ONLY <2>1
    <2> QED BY ONLY <1>1, <2>2 DEF ScopeType
  <1>4. Escaped(sc, o) = [sc EXCEPT ![d] = top, ![d - 1] = parent]
    <2>1. d # d - 1 BY <1>1
    <2> QED BY <1>1, <2>1 DEF Escaped
  <1> HIDE DEF top, parent
  <1> QED BY <1>1, <1>2, <1>3, <1>4

\* jerryx_open_handle_scope
LEMMA OpenKept ==
    ASSUME NEW sc \in Seq(ScopeType)
    PROVE  OpenScope(sc) \in Seq(ScopeType) /\ Len(OpenScope(sc)) = Len(sc) + 1
  <1>1. NewScope \in ScopeType BY DEF NewScope, ScopeType
  <1> QED BY <1>1 DEF OpenScope

\* jerryx_close_handle_scope
LEMMA CloseKept ==
    ASSUME NEW sc \in Seq(ScopeType), NEW i \in 1 .. Len(sc) + 1
    PROVE  CloseScope(sc, i) \in Seq(ScopeType) /\ Len(CloseScope(sc, i)) = i - 1
  BY DEF CloseScope

\* All but the last of a sequence
LEMMA FrontKept ==
    ASSUME NEW S, NEW s \in Seq(S), Len(s) \in Nat \ {0}
    PROVE  /\ Front(s) \in Seq(S)
           /\ Len(Front(s)) = Len(s) - 1
           /\ \A i \in 1 .. Len(s) - 1 : Front(s)[i] = s[i]
  <1>1. \A i \in 1 .. Len(s) - 1 : s[i] \in S OBVIOUS
  <1>2. 1 \in Int /\ Len(s) - 1 \in Int OBVIOUS
  <1>3. /\ SubSeq(s, 1, Len(s) - 1) \in Seq(S)
        /\ Len(SubSeq(s, 1, Len(s) - 1)) = IF 1 <= Len(s) - 1 THEN (Len(s) - 1) - 1 + 1 ELSE 0
        /\ \A i \in 1 .. (Len(s) - 1) - 1 + 1 : SubSeq(s, 1, Len(s) - 1)[i] = s[1 + i - 1]
    BY ONLY <1>1, <1>2, SubSeqProperties
  <1>4. Len(SubSeq(s, 1, Len(s) - 1)) = Len(s) - 1
    <2> DEFINE n == Len(s)
               m == Len(SubSeq(s, 1, Len(s) - 1))
    <2>1. n \in Nat \ {0} /\ m = IF 1 <= n - 1 THEN (n - 1) - 1 + 1 ELSE 0 BY ONLY <1>3, Len(s) \in Nat \ {0}
    <2> HIDE DEF n, m
    <2>2. m = n - 1 BY ONLY <2>1
    <2> QED BY ONLY <2>2 DEF n, m
  <1>5. ASSUME NEW i \in 1 .. Len(s) - 1 PROVE SubSeq(s, 1, Len(s) - 1)[i] = s[i]
    <2>1. i \in 1 .. (Len(s) - 1) - 1 + 1 /\ 1 + i - 1 = i BY ONLY <1>5, Len(s) \in Nat \ {0}
    <2>2. SubSeq(s, 1, Len(s) - 1)[i] = s[1 + i - 1] BY ONLY <1>3, <2>1
    <2> QED BY ONLY <2>1, <2>2
  <1> QED BY ONLY <1>3, <1>4, <1>5 DEF Front

\* The numbers of the stack
LEMMA StackNumbers ==
    ASSUME StackInv
    PROVE  /\ Len(frames) \in Nat /\ Len(scopes) \in Nat
           /\ \A i \in 1 .. Len(frames) : frames[i].base \in Nat
  <1>1. frames \in Seq(FrameType) /\ scopes \in Seq(ScopeType) BY DEF StackInv, StackTypes
  <1>2. ASSUME NEW i \in 1 .. Len(frames) PROVE frames[i].base \in Nat
    <2>1. frames[i] \in FrameType BY ONLY <1>1, <1>2
    <2> QED BY ONLY <2>1 DEF FrameType
  <1> QED BY ONLY <1>1, <1>2

\* The addon uses the values of its frame, which are objects
LEMMA UsableObjects == ASSUME StackInv, InAddon PROVE Usable \subseteq Objects
  <1>1. Top \in FrameType BY DEF StackInv, StackTypes, InAddon, Top
  <1> QED BY <1>1 DEF Usable, CbInfo, Handled, Live, FrameType

\* While an addon runs its frame has a scope of its own
LEMMA TopHasScope ==
    ASSUME StackInv, InAddon
    PROVE  /\ Len(frames) \in Nat \ {0} /\ Top \in FrameType
           /\ Len(scopes) \in Nat /\ Top.base \in Nat /\ Top.base < Len(scopes)
  <1>1. Len(frames) \in Nat \ {0} /\ Len(scopes) \in Nat BY DEF StackInv, StackTypes, InAddon
  <1>2. Top \in FrameType BY <1>1 DEF StackInv, StackTypes, Top
  <1>3. Top.base < Len(scopes) BY <1>1 DEF StackInv, FramesNest, Top, InAddon
  <1> QED BY <1>1, <1>2, <1>3 DEF FrameType

\* The frames stay nested when none is entered or left and no scope is closed that
\* the frame on top did not open.
LEMMA FramesKept ==
    ASSUME StackInv,
           frames' \in Seq(FrameType), Len(frames') = Len(frames),
           \A i \in 1 .. Len(frames) :
               frames'[i].kind = frames[i].kind /\ frames'[i].base = frames[i].base,
           Len(scopes') \in Nat,
           Len(scopes') >= Len(scopes) \/ (InAddon /\ Len(scopes') > Top.base)
    PROVE  FramesNest' /\ InAddon' = InAddon
  <1>0. /\ Len(frames) \in Nat /\ Len(scopes) \in Nat
        /\ \A i \in 1 .. Len(frames) : frames[i].base \in Nat
    BY StackNumbers
  <1>1. InAddon' = InAddon
    <2>1. frames = <<>> <=> frames' = <<>> BY <1>0 DEF StackInv, StackTypes
    <2>2. CASE frames = <<>> BY <2>1, <2>2 DEF InAddon
    <2>3. CASE frames # <<>>
      <3>1. Len(frames) \in 1 .. Len(frames) BY <1>0, <2>3 DEF StackInv, StackTypes
      <3>2. frames'[Len(frames')].kind = frames[Len(frames)].kind BY <3>1
      <3> QED BY <2>1, <3>2 DEF InAddon, Top
    <2> QED BY <2>2, <2>3
  <1>2. \A i \in 1 .. Len(frames) :
           /\ frames[i].base <= Len(scopes')
           /\ frames[i].kind # "js" => frames[i].base < Len(scopes')
    <2> SUFFICES ASSUME NEW i \in 1 .. Len(frames)
                 PROVE  /\ frames[i].base <= Len(scopes')
                        /\ frames[i].kind # "js" => frames[i].base < Len(scopes')
      OBVIOUS
    <2>1. CASE Len(scopes') >= Len(scopes) BY <1>0, <2>1 DEF StackInv, FramesNest
    <2>2. CASE InAddon /\ Len(scopes') > Top.base
      <3>1. frames[i].base <= Top.base
        BY <1>0 DEF StackInv, FramesNest, Top
      <3> QED BY <1>0, <2>2, <3>1 DEF Top
    <2> QED BY <2>1, <2>2
  <1>3. ASSUME NEW i \in 1 .. Len(frames')
        PROVE  /\ frames'[i].base <= Len(scopes')
               /\ frames'[i].kind # "js" => frames'[i].base < Len(scopes')
               /\ frames'[i].kind = "js" => i > 1 /\ frames'[i - 1].kind # "js"
    <2>1. frames[i].kind = "js" => i > 1 /\ frames[i - 1].kind # "js"
      BY DEF StackInv, FramesNest
    <2> QED BY <1>0, <1>2, <2>1
  <1>4. ASSUME NEW i \in 1 .. Len(frames'), NEW j \in 1 .. Len(frames'), i < j
        PROVE  /\ frames'[i].base <= frames'[j].base
               /\ frames'[i].kind # "js" => frames'[i].base < frames'[j].base
    BY <1>4 DEF StackInv, FramesNest
  <1>5. FramesNest' BY ONLY <1>3, <1>4 DEF FramesNest
  <1> QED BY <1>1, <1>5

\* The frames are nested after one more is entered, with its own scope when it is
\* native, and from an addon when it is the script's.
LEMMA FramePushed ==
    ASSUME StackInv, NEW f \in FrameType, f.base = Len(scopes),
           frames' = Append(frames, f), Len(scopes') \in Nat,
           IF f.kind = "js" THEN InAddon /\ Len(scopes') = Len(scopes)
                            ELSE Len(scopes') > Len(scopes)
    PROVE  FramesNest'
  <1>0. /\ Len(frames) \in Nat /\ Len(scopes) \in Nat
        /\ \A i \in 1 .. Len(frames) : frames[i].base \in Nat
    BY StackNumbers
  <1>1. /\ Len(frames') = Len(frames) + 1
        /\ \A i \in 1 .. Len(frames) : frames'[i] = frames[i]
        /\ frames'[Len(frames) + 1] = f
    BY DEF StackInv, StackTypes
  <1>2. Len(scopes') >= Len(scopes) BY <1>0
  <1>3. \A i \in 1 .. Len(frames) :
           /\ frames[i].base <= Len(scopes)
           /\ frames[i].kind # "js" => frames[i].base < Len(scopes)
           /\ frames[i].kind = "js" => i > 1 /\ frames[i - 1].kind # "js"
    BY DEF StackInv, FramesNest
  <1>4. f.kind = "js" => Len(frames) > 0 /\ frames[Len(frames)].kind # "js"
    BY <1>0 DEF InAddon, Top, StackInv, StackTypes
  <1>5. ASSUME NEW i \in 1 .. Len(frames) + 1
        PROVE  /\ frames'[i].base <= Len(scopes')
               /\ frames'[i].kind # "js" => frames'[i].base < Len(scopes')
               /\ frames'[i].kind = "js" => i > 1 /\ frames'[i - 1].kind # "js"
    <2>1. CASE i = Len(frames) + 1 BY <1>0, <1>1, <1>2, <1>4, <2>1
    <2>2. CASE i \in 1 .. Len(frames) BY <1>0, <1>1, <1>2, <1>3, <2>2
    <2> QED BY <1>0, <2>1, <2>2
  <1>6. ASSUME NEW i \in 1 .. Len(frames) + 1, NEW j \in 1 .. Len(frames) + 1, i < j
        PROVE  /\ frames'[i].base <= frames'[j].base
               /\ frames'[i].kind # "js" => frames'[i].base < frames'[j].base
    <2>0. i \in 1 .. Len(frames) BY <1>0, <1>6
    <2>1. CASE j = Len(frames) + 1 BY <1>1, <1>3, <2>0, <2>1
    <2>2. CASE j \in 1 .. Len(frames) BY <1>1, <1>6, <2>0, <2>2 DEF StackInv, FramesNest
    <2> QED BY <1>0, <2>1, <2>2
  <1> QED BY ONLY <1>1, <1>5, <1>6 DEF FramesNest

\* The frames are nested after the one on top is left, and with it the scopes that
\* were opened in it; the script returns to an addon.
LEMMA FramePopped ==
    ASSUME StackInv, frames # <<>>, frames' = Front(frames), Len(scopes') \in Nat,
           IF Top.kind = "js" THEN Len(scopes') = Len(scopes) ELSE Len(scopes') = Top.base
    PROVE  /\ FramesNest'
           /\ frames' \in Seq(FrameType) /\ Len(frames') = Len(frames) - 1
           /\ Top.kind = "js" => InAddon'
  <1>0. /\ Len(frames) \in Nat \ {0} /\ Len(scopes) \in Nat
        /\ \A i \in 1 .. Len(frames) : frames[i].base \in Nat
    BY StackNumbers DEF StackInv, StackTypes
  <1>1. /\ frames' \in Seq(FrameType)
        /\ Len(frames') = Len(frames) - 1
        /\ \A i \in 1 .. Len(frames) - 1 : frames'[i] = frames[i]
    <2>1. frames \in Seq(FrameType) BY DEF StackInv, StackTypes
    <2> QED BY ONLY <1>0, <2>1, frames' = Front(frames), FrontKept
  <1>2. \A i \in 1 .. Len(frames) - 1 :
           /\ frames[i].base <= Len(scopes')
           /\ frames[i].kind # "js" => frames[i].base < Len(scopes')
    BY <1>0 DEF StackInv, FramesNest, Top
  <1>3. ASSUME NEW i \in 1 .. Len(frames) - 1
        PROVE  /\ frames'[i].base <= Len(scopes')
               /\ frames'[i].kind # "js" => frames'[i].base < Len(scopes')
               /\ frames'[i].kind = "js" => i > 1 /\ frames'[i - 1].kind # "js"
    <2>1. frames[i].kind = "js" => i > 1 /\ frames[i - 1].kind # "js"
      BY <1>0 DEF StackInv, FramesNest
    <2> QED BY <1>0, <1>1, <1>2, <2>1
  <1>4. ASSUME NEW i \in 1 .. Len(frames) - 1, NEW j \in 1 .. Len(frames) - 1, i < j
        PROVE  /\ frames'[i].base <= frames'[j].base
               /\ frames'[i].kind # "js" => frames'[i].base < frames'[j].base
    BY <1>0, <1>1, <1>4 DEF StackInv, FramesNest
  <1>5. FramesNest' BY ONLY <1>1, <1>3, <1>4 DEF FramesNest
  <1>6. ASSUME Top.kind = "js" PROVE InAddon'
    <2>1. Len(frames) > 1 /\ frames[Len(frames) - 1].kind # "js"
      BY <1>0, <1>6 DEF StackInv, FramesNest, Top
    <2>2. Len(frames') > 0 /\ frames'[Len(frames')].kind # "js" BY <1>0, <1>1, <2>1
    <2> QED BY <1>1, <2>2 DEF InAddon, Top
  <1> QED BY <1>1, <1>5, <1>6

\* What is known of the stack survives a step that leaves the frames and the pending
\* exception alone and closes no scope that the frame on top did not open.
LEMMA StackKept ==
    ASSUME StackInv, UNCHANGED <<frames, pending>>, script' \subseteq Objects,
           scopes' \in Seq(ScopeType),
           Len(scopes') >= Len(scopes) \/ (InAddon /\ Len(scopes') > Top.base),
           refs' = [r \in Refs |-> refs'[r]], RefsOfObjects'
    PROVE  StackInv'
  <1>1. frames' \in Seq(FrameType) /\ Len(scopes') \in Nat BY DEF StackInv, StackTypes
  <1>2. FramesNest' /\ InAddon' = InAddon BY <1>1, FramesKept
  <1>3. StackTypes' BY <1>1 DEF StackInv, StackTypes
  <1>4. ExceptionStaysInFrame'
    BY DEF StackInv, ExceptionStaysInFrame, IsExceptionPending, InJsBy, Top
  <1> QED BY <1>2, <1>3, <1>4 DEF StackInv

\* An exception that is pending stays below a native frame that the script enters, and
\* below a getter or a setter that the addon runs.
LEMMA ExceptionBelow ==
    ASSUME StackInv, NEW f \in FrameType, frames' = Append(frames, f), UNCHANGED pending,
           pending.kind # "none" =>
               IF InAddon THEN f.kind = "js" /\ f.by # "call" ELSE f.kind # "js"
    PROVE  ExceptionStaysInFrame'
  <1> SUFFICES ASSUME pending.kind # "none"
               PROVE  /\ pending.at \in 1 .. Len(frames')
                      /\ frames'[pending.at].kind # "js"
                      /\ pending.at < Len(frames') => frames'[pending.at + 1].by # "call"
                      /\ ~InJsBy("call")'
    BY DEF ExceptionStaysInFrame, IsExceptionPending
  <1>1. /\ Len(frames) \in Nat /\ Len(frames') = Len(frames) + 1
        /\ \A i \in 1 .. Len(frames) : frames'[i] = frames[i]
        /\ frames'[Len(frames) + 1] = f
    BY DEF StackInv, StackTypes
  <1>2. /\ pending.at \in 1 .. Len(frames) /\ frames[pending.at].kind # "js"
        /\ pending.at < Len(frames) => frames[pending.at + 1].by # "call"
    BY DEF StackInv, ExceptionStaysInFrame, IsExceptionPending
  <1>3. pending.at = Len(frames) => InAddon BY <1>1, <1>2 DEF InAddon, Top
  <1>4. pending.at \in 1 .. Len(frames') /\ frames'[pending.at].kind # "js" BY <1>1, <1>2
  <1>5. pending.at < Len(frames') => frames'[pending.at + 1].by # "call"
    <2>1. CASE pending.at = Len(frames) BY <1>1, <1>3, <2>1
    <2>2. CASE pending.at < Len(frames)
      <3>1. pending.at + 1 \in 1 .. Len(frames) BY <1>1, <1>2, <2>2
      <3> QED BY <1>1, <1>2, <2>2, <3>1
    <2> QED BY <1>1, <1>2, <2>1, <2>2
  <1>6. ~InJsBy("call")'
    <2>1. Top' = f BY <1>1 DEF Top
    <2> QED BY <2>1 DEF InJsBy
  <1> QED BY <1>4, <1>5, <1>6

\* An exception stays where it is when the script returns to the addon.
LEMMA ExceptionAfterScript ==
    ASSUME StackInv, frames # <<>>, Top.kind = "js", frames' = Front(frames), InAddon',
           UNCHANGED pending
    PROVE  ExceptionStaysInFrame'
  <1> SUFFICES ASSUME pending.kind # "none"
               PROVE  /\ pending.at \in 1 .. Len(frames')
                      /\ frames'[pending.at].kind # "js"
                      /\ pending.at < Len(frames') => frames'[pending.at + 1].by # "call"
                      /\ ~InJsBy("call")'
    BY DEF ExceptionStaysInFrame, IsExceptionPending
  <1>1. /\ Len(frames) \in Nat \ {0} /\ Len(frames') = Len(frames) - 1
        /\ \A i \in 1 .. Len(frames) - 1 : frames'[i] = frames[i]
    <2>1. frames \in Seq(FrameType) /\ Len(frames) \in Nat \ {0} BY DEF StackInv, StackTypes
    <2> QED BY <2>1, FrontKept
  <1>2. /\ pending.at \in 1 .. Len(frames) /\ frames[pending.at].kind # "js"
        /\ pending.at < Len(frames) => frames[pending.at + 1].by # "call"
    BY DEF StackInv, ExceptionStaysInFrame, IsExceptionPending
  <1>3. pending.at # Len(frames) BY <1>2 DEF Top
  <1>4. pending.at \in 1 .. Len(frames) - 1 BY <1>1, <1>2, <1>3
  <1>5. frames'[pending.at].kind # "js" BY <1>1, <1>2, <1>4
  <1>6. pending.at < Len(frames') => frames'[pending.at + 1].by # "call"
    BY <1>1, <1>2, <1>4
  <1>7. ~InJsBy("call")' BY DEF InAddon, InJsBy, Top
  <1> QED BY <1>1, <1>4, <1>5, <1>6, <1>7

\* References that are made, linked, unlinked and counted stay references of objects.
LEMMA RefsKept ==
    ASSUME StackInv
    PROVE  /\ UNCHANGED refs => refs' = [r \in Refs |-> refs'[r]] /\ RefsOfObjects'
           /\ \A o \in Objects : \A r, n : refs' = Linked(o, r, n) =>
                refs' = [q \in Refs |-> refs'[q]] /\ RefsOfObjects'
           /\ \A r \in Refs : Unlinked(r) => refs' = [q \in Refs |-> refs'[q]] /\ RefsOfObjects'
  <1> USE DEF StackInv, StackTypes
  <1>1. UNCHANGED refs => refs' = [r \in Refs |-> refs'[r]] /\ RefsOfObjects'
    BY DEF RefsOfObjects
  <1>2. ASSUME NEW o \in Objects, NEW r, NEW n, refs' = Linked(o, r, n)
        PROVE  refs' = [q \in Refs |-> refs'[q]] /\ RefsOfObjects'
    BY <1>2 DEF RefsOfObjects, Linked
  <1>3. ASSUME NEW r \in Refs, Unlinked(r)
        PROVE  refs' = [q \in Refs |-> refs'[q]] /\ RefsOfObjects'
    <2> DEFINE p == refs[r].prev
               n == refs[r].next
               skipped == [q \in Refs |-> [refs[q] EXCEPT !.next = IF q = p THEN n ELSE @,
                                                         !.prev = IF q = n THEN p ELSE @]]
    <2>1. refs' = [skipped EXCEPT ![r] = [NoRef EXCEPT !.st = "deleted"]] BY <1>3 DEF Unlinked
    <2>2. \A q \in Refs : "jval" \in DOMAIN skipped[q] /\ skipped[q].jval = refs[q].jval
      BY DEF RefsOfObjects
    <2> HIDE DEF skipped
    <2>3. DOMAIN skipped = Refs BY DEF skipped
    <2>4. refs' = [q \in Refs |-> IF q = r THEN [NoRef EXCEPT !.st = "deleted"] ELSE skipped[q]]
      BY <2>1, <2>3 DEF skipped
    <2> QED BY <2>2, <2>4 DEF RefsOfObjects, NoRef
  <1> QED BY <1>1, <1>2, <1>3

\* The frame of a getter or a setter
LEMMA AccessorIs ==
    ASSUME Len(scopes) \in Nat, NEW by \in {"get", "set"}
    PROVE  /\ Accessor(by) \in FrameType /\ Accessor(by).base = Len(scopes)
           /\ Accessor(by).kind = "js" /\ Accessor(by).by = by /\ Accessor(by).args = {}
  BY DEF Accessor, Frame, FrameType

\* A getter or a setter is run, or returns: the frame of its script is entered or left.
LEMMA AccessorsStack ==
    ASSUME StackInv, CallSetter \/ CallGetter \/ SetterReturns \/ GetterReturns PROVE StackInv'
  <1>0. /\ scopes \in Seq(ScopeType) /\ script \subseteq Objects /\ Len(scopes) \in Nat
        /\ frames \in Seq(FrameType) /\ Len(frames) \in Nat
    BY StackNumbers DEF StackInv, StackTypes
  <1>1. ASSUME NEW by \in {"get", "set"}, InAddon, frames' = Append(frames, Accessor(by)),
               script' \subseteq Objects, UNCHANGED <<refs, scopes, pending>>
        PROVE  StackInv'
    <2> DEFINE f == Accessor(by)
    <2>1. f \in FrameType /\ f.base = Len(scopes) /\ f.kind = "js" /\ f.by # "call"
      BY <1>0, AccessorIs
    <2>2. frames' = Append(frames, f) BY <1>1
    <2> HIDE DEF f
    <2>3. FramesNest' BY <1>0, <1>1, <2>1, <2>2, FramePushed
    <2>4. frames' \in Seq(FrameType) BY ONLY <1>0, <2>1, <2>2
    <2>5. StackTypes' BY <1>1, <2>4, RefsKept DEF StackInv, StackTypes
    <2>6. ExceptionStaysInFrame' BY <1>1, <2>1, <2>2, ExceptionBelow
    <2> QED BY <2>3, <2>5, <2>6 DEF StackInv
  <1>2. CASE CallSetter
    <2>1. InAddon BY <1>2 DEF CallSetter, Api
    <2>2. script' \subseteq Objects BY <1>0, <1>2, <2>1, UsableObjects DEF CallSetter
    <2> QED BY <1>1, <1>2, <2>1, <2>2 DEF CallSetter
  <1>3. CASE CallGetter
    <2>1. InAddon BY <1>3 DEF CallGetter, Api
    <2>2. script' \subseteq Objects BY <1>0, <1>3, <2>1, UsableObjects DEF CallGetter
    <2> QED BY <1>1, <1>3, <2>1, <2>2 DEF CallGetter
  <1>4. CASE SetterReturns \/ GetterReturns
    <2>1. /\ frames # <<>> /\ Top.kind = "js" /\ frames' = Front(frames)
          /\ UNCHANGED <<refs, script, pending>>
      BY <1>4 DEF SetterReturns, GetterReturns, InJsBy
    <2>2. Len(scopes) > 0
      <3>1. Len(frames) \in 1 .. Len(frames) BY <1>0, <2>1
      <3>2. Len(frames) > 1 /\ frames[Len(frames) - 1].kind # "js"
        BY <2>1, <3>1 DEF StackInv, FramesNest, Top
      <3>3. Len(frames) - 1 \in 1 .. Len(frames) BY <1>0, <3>2
      <3>4. frames[Len(frames) - 1].base < Len(scopes) BY <3>2, <3>3 DEF StackInv, FramesNest
      <3> QED BY <1>0, <3>3, <3>4, StackNumbers
    <2>3. scopes' = scopes \/ \E o : scopes' = HandleIn(scopes, o)
      BY <1>4 DEF SetterReturns, GetterReturns
    <2>4. scopes' \in Seq(ScopeType) /\ Len(scopes') = Len(scopes)
      BY <1>0, <2>2, <2>3, HandleKept
    <2>5. FramesNest' /\ frames' \in Seq(FrameType) /\ InAddon'
      BY <1>0, <2>1, <2>4, FramePopped
    <2>6. StackTypes' BY <2>1, <2>4, <2>5, RefsKept DEF StackInv, StackTypes
    <2>7. ExceptionStaysInFrame' BY <2>1, <2>5, ExceptionAfterScript
    <2> QED BY <2>5, <2>6, <2>7 DEF StackInv
  <1> QED BY <1>2, <1>3, <1>4

\* The functions that make or read values put handles in the current scope, or run the
\* script of an accessor.
LEMMA ValuesStack == StackInv /\ NapiValuesCall => StackInv'
  <1> SUFFICES ASSUME StackInv, NapiValuesCall,
                      ~(CallSetter \/ CallGetter \/ SetterReturns \/ GetterReturns)
               PROVE  StackInv'
    BY AccessorsStack
  <1>1. InAddon /\ UNCHANGED <<refs, frames, pending, script>>
    BY DEF NapiValuesCall, CreateArray, CreateExternalArraybuffer, CreateExternal,
           CreateTypedarray, CreateError, GetPropertyNames, SetProperty, SetNamedProperty,
           SetElement, GetProperty, GetNamedProperty, GetElement, DeleteProperty,
           DefineProperties, DefineClass, SetData, GetData, Api
  <1>2. \/ scopes' = scopes
        \/ \E o : scopes' = HandleIn(scopes, o)
        \/ \E f, g, h : scopes' = HandleIn(HandleIn(HandleIn(scopes, f), g), h)
    BY DEF NapiValuesCall, CreateArray, CreateExternalArraybuffer, CreateExternal,
           CreateTypedarray, CreateError, GetPropertyNames, SetProperty, SetNamedProperty,
           SetElement, GetProperty, GetNamedProperty, GetElement, DeleteProperty,
           DefineProperties, DefineClass, SetData, GetData, CreateHandle, PropDescToJdesc
  <1>3. scopes \in Seq(ScopeType) /\ Len(scopes) > 0 /\ Len(scopes) \in Nat
    BY <1>1, TopHasScope DEF StackInv, StackTypes
  <1>4. scopes' \in Seq(ScopeType) /\ Len(scopes') = Len(scopes)
    <2>1. CASE scopes' = scopes BY <1>3, <2>1
    <2>2. ASSUME NEW o, scopes' = HandleIn(scopes, o)
          PROVE  scopes' \in Seq(ScopeType) /\ Len(scopes') = Len(scopes)
      BY <1>3, <2>2, HandleKept
    <2>3. ASSUME NEW f, NEW g, NEW h, scopes' = HandleIn(HandleIn(HandleIn(scopes, f), g), h)
          PROVE  scopes' \in Seq(ScopeType) /\ Len(scopes') = Len(scopes)
      <3>1. HandleIn(scopes, f) \in Seq(ScopeType) /\ Len(HandleIn(scopes, f)) = Len(scopes)
        BY <1>3, HandleKept
      <3>2. /\ HandleIn(HandleIn(scopes, f), g) \in Seq(ScopeType)
            /\ Len(HandleIn(HandleIn(scopes, f), g)) = Len(scopes)
        BY <1>3, <3>1, HandleKept
      <3> QED BY <1>3, <2>3, <3>2, HandleKept
    <2> QED BY <1>2, <2>1, <2>2, <2>3
  <1>5. script' \subseteq Objects BY <1>1 DEF StackInv, StackTypes
  <1> QED BY <1>1, <1>3, <1>4, <1>5, StackKept, RefsKept

\* A value that the addon is given without a handle changes nothing else of its frame.
LEMMA LooseKept ==
    ASSUME StackInv, InAddon, NEW o \in Objects,
           frames' = [frames EXCEPT ![Len(frames)].loose = @ \cup {o}], UNCHANGED scopes
    PROVE  /\ frames' \in Seq(FrameType) /\ Len(frames') = Len(frames) /\ FramesNest' /\ InAddon'
           /\ pending' = pending => ExceptionStaysInFrame'
  <1> DEFINE n == Len(frames)
             top == [frames[n] EXCEPT !.loose = @ \cup {o}]
  <1>1. n \in Nat \ {0} /\ frames[n] \in FrameType /\ n \in 1 .. Len(frames)
    BY TopHasScope DEF Top
  <1>2. frames[n].loose \cup {o} \in SUBSET Objects BY <1>1 DEF FrameType
  <1>3. /\ top \in FrameType /\ top.kind = frames[n].kind /\ top.base = frames[n].base
        /\ top.by = frames[n].by
    BY ONLY <1>1, <1>2 DEF FrameType
  <1>4. frames' = [frames EXCEPT ![n] = top] OBVIOUS
  <1> HIDE DEF top
  <1>5. frames \in Seq(FrameType) BY DEF StackInv, StackTypes
  <1>6. /\ frames' \in Seq(FrameType) /\ Len(frames') = Len(frames)
        /\ \A i \in 1 .. Len(frames) :
             /\ frames'[i].kind = frames[i].kind /\ frames'[i].base = frames[i].base
             /\ frames'[i].by = frames[i].by
    BY ONLY <1>1, <1>3, <1>4, <1>5
  <1>7. Len(scopes') \in Nat /\ Len(scopes') >= Len(scopes) BY StackNumbers
  <1>8. FramesNest' /\ InAddon' BY <1>6, <1>7, FramesKept
  <1>9. ASSUME pending' = pending, pending.kind # "none"
        PROVE  /\ pending'.at \in 1 .. Len(frames')
               /\ frames'[pending'.at].kind # "js"
               /\ pending'.at < Len(frames') => frames'[pending'.at + 1].by # "call"
    <2>1. /\ pending.at \in 1 .. Len(frames) /\ frames[pending.at].kind # "js"
          /\ pending.at < Len(frames) => frames[pending.at + 1].by # "call"
      BY <1>9 DEF StackInv, ExceptionStaysInFrame, IsExceptionPending
    <2>2. pending.at < Len(frames) => pending.at + 1 \in 1 .. Len(frames) BY <1>1, <2>1
    <2> QED BY <1>6, <1>9, <2>1, <2>2
  <1>10. ~InJsBy("call")' BY <1>8 DEF InAddon, InJsBy
  <1> QED BY <1>6, <1>8, <1>9, <1>10 DEF ExceptionStaysInFrame, IsExceptionPending

\* Scopes are opened, closed and escaped from within the frame on top, references keep
\* naming objects, and a collected object is forgotten by its references.
LEMMA LifetimeStack ==
    StackInv /\ (NapiLifetimeCall \/ Collect) => StackInv'
  <1> SUFFICES ASSUME StackInv, NapiLifetimeCall \/ Collect
               PROVE  StackInv'
    OBVIOUS
  <1>0. /\ scopes \in Seq(ScopeType) /\ script \subseteq Objects /\ Len(scopes) \in Nat
    BY DEF StackInv, StackTypes
  <1>1. CASE OpenHandleScope
    <2>1. scopes' \in Seq(ScopeType) /\ Len(scopes') >= Len(scopes)
      BY <1>0, <1>1, OpenKept DEF OpenHandleScope
    <2> QED BY <1>0, <1>1, <2>1, StackKept, RefsKept DEF OpenHandleScope
  <1>2. CASE CloseHandleScope
    <2>1. InAddon BY <1>2 DEF CloseHandleScope, Api
    <2>2. Top.base \in Nat BY <2>1, TopHasScope
    <2>3. PICK i \in Top.base + 2 .. Len(scopes) : scopes' = CloseScope(scopes, i)
      BY <1>2 DEF CloseHandleScope
    <2>4. i \in 1 .. Len(scopes) + 1 /\ i - 1 > Top.base BY <1>0, <2>2, <2>3
    <2>5. scopes' \in Seq(ScopeType) /\ Len(scopes') > Top.base
      BY <1>0, <2>3, <2>4, CloseKept
    <2> QED BY <1>0, <1>2, <2>1, <2>5, StackKept, RefsKept DEF CloseHandleScope
  <1>3. CASE EscapeHandle
    <2>1. PICK o \in Objects : CanEscape(scopes, o) /\ scopes' = Escaped(scopes, o)
      BY <1>3 DEF EscapeHandle, Handled
    <2>2. scopes' \in Seq(ScopeType) /\ Len(scopes') >= Len(scopes)
      BY <1>0, <2>1, EscapeKept
    <2> QED BY <1>0, <1>3, <2>2, StackKept, RefsKept DEF EscapeHandle
  <1>4. CASE CreateReference
    <2>1. InAddon BY <1>4 DEF CreateReference, Api
    <2>2. \E o \in Objects : \E r, n : refs' = Linked(o, r, n)
      BY <1>4, <2>1, UsableObjects DEF CreateReference
    <2>3. refs' = [r \in Refs |-> refs'[r]] /\ RefsOfObjects' BY <2>2, RefsKept
    <2> QED BY <1>0, <1>4, <2>3, StackKept DEF CreateReference
  <1>5. CASE DeleteReference
    <2>1. refs' = [r \in Refs |-> refs'[r]] /\ RefsOfObjects'
      <3> PICK r \in Refs : IF refs[r].jval = None
            THEN refs' = [refs EXCEPT ![r] = [NoRef EXCEPT !.st = "deleted"]] ELSE Unlinked(r)
        BY <1>5 DEF DeleteReference
      <3>1. CASE refs[r].jval = None
        <4>1. refs = [q \in Refs |-> refs[q]] /\ RefsOfObjects BY DEF StackInv, StackTypes
        <4>2. refs' = [q \in Refs |-> IF q = r THEN [NoRef EXCEPT !.st = "deleted"] ELSE refs[q]]
          BY <3>1, <4>1
        <4> QED BY <4>1, <4>2 DEF RefsOfObjects, NoRef
      <3>2. CASE refs[r].jval # None BY <3>2, RefsKept
      <3> QED BY <3>1, <3>2
    <2> QED BY <1>0, <1>5, <2>1, StackKept DEF DeleteReference
  <1>6. CASE ReferenceRef
    <2>1. refs' = [r \in Refs |-> refs'[r]] /\ RefsOfObjects'
      BY <1>6 DEF ReferenceRef, StackInv, StackTypes, RefsOfObjects
    <2> QED BY <1>0, <1>6, <2>1, StackKept DEF ReferenceRef
  <1>7. CASE ReferenceUnref
    <2>1. refs' = [r \in Refs |-> refs'[r]] /\ RefsOfObjects'
      BY <1>7 DEF ReferenceUnref, StackInv, StackTypes, RefsOfObjects
    <2> QED BY <1>0, <1>7, <2>1, StackKept DEF ReferenceUnref
  <1>8. CASE GetReferenceValue
    <2>1. InAddon BY <1>8 DEF GetReferenceValue, Api
    <2>2. PICK o \in Objects : frames' = [frames EXCEPT ![Len(frames)].loose = @ \cup {o}]
      BY <1>8 DEF GetReferenceValue, StackInv, StackTypes, RefsOfObjects
    <2>3. UNCHANGED <<refs, scopes, pending, script>> BY <1>8 DEF GetReferenceValue
    <2>4. frames' \in Seq(FrameType) /\ Len(frames') = Len(frames) /\ FramesNest' /\ InAddon'
      BY <2>1, <2>2, <2>3, LooseKept
    <2>5. StackTypes' BY <2>3, <2>4, RefsKept DEF StackInv, StackTypes
    <2>6. ExceptionStaysInFrame' BY <2>1, <2>2, <2>3, LooseKept
    <2> QED BY <2>4, <2>5, <2>6 DEF StackInv
  <1>9. CASE Wrap
    <2>1. InAddon BY <1>9 DEF Wrap, Api
    <2>2. UNCHANGED refs \/ \E o \in Objects : \E r, n : refs' = Linked(o, r, n)
      BY <1>9, <2>1, UsableObjects DEF Wrap
    <2>3. refs' = [r \in Refs |-> refs'[r]] /\ RefsOfObjects' BY <2>2, RefsKept
    <2> QED BY <1>0, <1>9, <2>3, StackKept DEF Wrap
  <1>10. CASE RemoveWrap BY <1>0, <1>10, StackKept, RefsKept DEF RemoveWrap
  <1>11. CASE Collect
    <2>1. refs' = [r \in Refs |-> refs'[r]] /\ RefsOfObjects'
      BY <1>11 DEF Collect, StackInv, StackTypes, RefsOfObjects
    <2>2. UNCHANGED <<scopes, frames, pending, script>> BY <1>11 DEF Collect
    <2>3. Len(scopes') >= Len(scopes) BY <1>0, <2>2
    <2> QED BY <1>0, <2>1, <2>2, <2>3, StackKept
  <1> QED
    BY <1>1, <1>2, <1>3, <1>4, <1>5, <1>6, <1>7, <1>8, <1>9, <1>10, <1>11
       DEF NapiLifetimeCall

\* Nothing is pending while script runs that the addon has called
LEMMA ScriptHasNoException ==
    ASSUME StackInv, InJsBy("call") PROVE pending.kind = "none"
  BY DEF StackInv, ExceptionStaysInFrame, IsExceptionPending

\* A native frame is entered from the script.
LEMMA NativeEntered ==
    ASSUME StackInv, InScript, NEW k \in {"function", "init", "complete"},
           NEW as \in SUBSET Objects, frames' = Append(frames, Frame(k, as)),
           scopes' = OpenScope(scopes), UNCHANGED <<refs, pending>>, script' \subseteq Objects
    PROVE  StackInv'
  <1>1. scopes \in Seq(ScopeType) /\ Len(scopes) \in Nat /\ frames \in Seq(FrameType)
    BY StackNumbers DEF StackInv, StackTypes
  <1>2. scopes' \in Seq(ScopeType) /\ Len(scopes') = Len(scopes) + 1 BY <1>1, OpenKept
  <1> DEFINE f == Frame(k, as)
  <1>3. f \in FrameType /\ f.base = Len(scopes) /\ f.kind # "js" /\ frames' = Append(frames, f)
    BY <1>1 DEF Frame, FrameType
  <1> HIDE DEF f
  <1>4. FramesNest' BY <1>1, <1>2, <1>3, FramePushed
  <1>5. frames' \in Seq(FrameType) BY ONLY <1>1, <1>3
  <1>6. StackTypes' BY <1>2, <1>5, RefsKept DEF StackInv, StackTypes
  <1>7. ~InAddon BY DEF InScript, InAddon
  <1>8. ExceptionStaysInFrame' BY <1>3, <1>7, ExceptionBelow
  <1> QED BY <1>4, <1>6, <1>8 DEF StackInv

\* The frame on top is left with everything that it opened, and its exception with it.
LEMMA NativeLeft ==
    ASSUME StackInv, InAddon, frames' = Front(frames),
           scopes' = CloseScope(scopes, Top.base + 1), pending' = NoException,
           UNCHANGED refs, script' \subseteq Objects
    PROVE  StackInv'
  <1>1. scopes \in Seq(ScopeType) BY DEF StackInv, StackTypes
  <1>2. Top.base \in Nat /\ Len(scopes) \in Nat /\ Top.base < Len(scopes) BY TopHasScope
  <1>3. Top.base + 1 \in 1 .. Len(scopes) + 1 /\ (Top.base + 1) - 1 = Top.base BY <1>2
  <1>4. scopes' \in Seq(ScopeType) /\ Len(scopes') = Top.base BY <1>1, <1>3, CloseKept
  <1>5. frames # <<>> /\ Top.kind # "js" BY DEF InAddon
  <1>6. FramesNest' /\ frames' \in Seq(FrameType) BY <1>2, <1>4, <1>5, FramePopped
  <1>7. /\ NoException \in [kind : {"none", "throw", "fatal"}, of : 0 .. MaxObjects, at : Nat]
        /\ NoException.kind = "none"
    BY NapiAssumption DEF NoException, None
  <1>8. StackTypes' BY <1>4, <1>6, <1>7, RefsKept DEF StackInv, StackTypes
  <1>9. ExceptionStaysInFrame' BY <1>7 DEF ExceptionStaysInFrame, IsExceptionPending
  <1> QED BY <1>6, <1>8, <1>9 DEF StackInv

\* The addon throws, or reports a fatal exception: it is pending in its own frame.
LEMMA Thrown ==
    ASSUME StackInv, InAddon, NEW e \in Objects, NEW k \in {"throw", "fatal"},
           pending' = [kind |-> k, of |-> e, at |-> Len(frames)],
           UNCHANGED <<refs, frames, script>>,
           scopes' \in Seq(ScopeType), Len(scopes') = Len(scopes)
    PROVE  StackInv'
  <1>1. frames' \in Seq(FrameType) /\ Len(frames) \in Nat /\ Len(scopes') \in Nat
    BY StackNumbers DEF StackInv, StackTypes
  <1>2. FramesNest' /\ InAddon' = InAddon BY <1>1, StackNumbers, FramesKept
  <1>3. pending' \in [kind : {"none", "throw", "fatal"}, of : 0 .. MaxObjects, at : Nat]
    BY <1>1 DEF Objects
  <1>4. pending'.of \in Objects OBVIOUS
  <1>5. StackTypes' BY <1>1, <1>3, <1>4, RefsKept DEF StackInv, StackTypes
  <1>6. ExceptionStaysInFrame'
    <2>1. /\ Len(frames') \in Nat \ {0} /\ frames'[Len(frames')].kind # "js"
          /\ pending'.at = Len(frames')
      BY TopHasScope DEF InAddon, Top
    <2>2. ~InJsBy("call")' BY <1>2 DEF InAddon, InJsBy
    <2> QED BY <2>1, <2>2 DEF ExceptionStaysInFrame, IsExceptionPending
  <1> QED BY <1>2, <1>5, <1>6 DEF StackInv

\* The script and the addon call each other, throw, catch and return without leaving
\* an exception behind or closing a scope of a frame below.
LEMMA FunctionsStack == StackInv /\ NapiFunctionsCall => StackInv'
  <1> SUFFICES ASSUME StackInv, NapiFunctionsCall PROVE StackInv' OBVIOUS
  <1>0. /\ scopes \in Seq(ScopeType) /\ script \subseteq Objects /\ Len(scopes) \in Nat
        /\ frames \in Seq(FrameType) /\ Len(frames) \in Nat
        /\ pending \in [kind : {"none", "throw", "fatal"}, of : 0 .. MaxObjects, at : Nat]
        /\ pending.kind # "none" => pending.of \in Objects
        /\ Fresh \subseteq Objects
    BY StackNumbers DEF StackInv, StackTypes, Fresh
  <1>1. CASE ScriptDrops BY <1>0, <1>1, StackKept, RefsKept DEF ScriptDrops
  <1>2. CASE FunctionHandler
    <2>1. PICK as \in SUBSET Objects :
            frames' = Append(frames, Frame("function", as)) /\ script' = script \cup as
      <3>1. \A as \in {{}} \cup {{o} : o \in script \cup Fresh} : as \in SUBSET Objects BY <1>0
      <3> QED BY <1>2, <3>1 DEF FunctionHandler
    <2> QED BY <1>0, <1>2, <2>1, NativeEntered DEF FunctionHandler
  <1>3. CASE FunctionReturns
    <2>1. InAddon BY <1>3 DEF FunctionReturns
    <2>2. PICK v \in IF IsExceptionPending THEN {pending.of} ELSE Usable \cup {None} :
            script' \in {script, script \cup ({v} \ {None})}
      BY <1>3 DEF FunctionReturns, KeepOrNot
    <2>3. v \in Objects \cup {None} BY <1>0, <2>1, <2>2, UsableObjects DEF IsExceptionPending
    <2>4. script' \subseteq Objects BY <1>0, <2>2, <2>3
    <2> QED BY <1>3, <2>1, <2>4, NativeLeft DEF FunctionReturns
  <1>4. CASE CreateFunction
    <2>1. InAddon BY <1>4 DEF CreateFunction, Api
    <2>2. \E o : scopes' = HandleIn(scopes, o) BY <1>4 DEF CreateFunction, CreateHandle
    <2>3. scopes' \in Seq(ScopeType) /\ Len(scopes') >= Len(scopes)
      BY <1>0, <2>1, <2>2, TopHasScope, HandleKept
    <2> QED BY <1>0, <1>4, <2>3, StackKept, RefsKept DEF CreateFunction
  <1>5. CASE CallFunction
    <2>1. /\ InAddon /\ pending.kind = "none" /\ UNCHANGED <<refs, scopes, pending, script>>
          /\ frames' = Append(frames, Frame("js", {}))
      BY <1>5 DEF CallFunction, Api, IsExceptionPending
    <2>2. /\ Frame("js", {}) \in FrameType /\ Frame("js", {}).base = Len(scopes)
          /\ Frame("js", {}).kind = "js"
      BY <1>0 DEF Frame, FrameType
    <2>3. FramesNest' BY <1>0, <2>1, <2>2, FramePushed
    <2>4. frames' \in Seq(FrameType) BY <1>0, <2>1, <2>2
    <2>5. StackTypes' BY <2>1, <2>4, RefsKept DEF StackInv, StackTypes
    <2>6. ExceptionStaysInFrame' BY <2>1 DEF ExceptionStaysInFrame, IsExceptionPending
    <2> QED BY <2>3, <2>5, <2>6 DEF StackInv
  <1>6. CASE FunctionCalled
    <2>1. /\ frames # <<>> /\ Top.kind = "js" /\ frames' = Front(frames)
          /\ UNCHANGED <<refs, script>>
      BY <1>6 DEF FunctionCalled, InJsBy
    <2>2. Len(scopes) > 0
      <3>1. Len(frames) \in 1 .. Len(frames) BY <1>0, <2>1
      <3>2. Len(frames) > 1 /\ frames[Len(frames) - 1].kind # "js"
        BY <2>1, <3>1 DEF StackInv, FramesNest, Top
      <3>3. Len(frames) - 1 \in 1 .. Len(frames) BY <1>0, <3>2
      <3>4. frames[Len(frames) - 1].base < Len(scopes) BY <3>2, <3>3 DEF StackInv, FramesNest
      <3> QED BY <1>0, <3>3, <3>4, StackNumbers
    <2>3. scopes' = scopes \/ \E o : scopes' = HandleIn(scopes, o) BY <1>6 DEF FunctionCalled
    <2>4. scopes' \in Seq(ScopeType) /\ Len(scopes') = Len(scopes)
      BY <1>0, <2>2, <2>3, HandleKept
    <2>5. /\ FramesNest' /\ frames' \in Seq(FrameType) /\ Len(frames') = Len(frames) - 1 /\ InAddon'
      BY <1>0, <2>1, <2>4, FramePopped
    <2>6. \/ UNCHANGED pending
          \/ \E e \in Objects : pending' = [kind |-> "throw", of |-> e, at |-> Len(frames) - 1]
      BY <1>0, <1>6 DEF FunctionCalled
    <2>7. pending.kind = "none" BY <1>6, ScriptHasNoException DEF FunctionCalled
    <2>8. Len(frames) - 1 \in Nat BY <1>0, <2>1
    <2>9. /\ pending' \in [kind : {"none", "throw", "fatal"}, of : 0 .. MaxObjects, at : Nat]
          /\ pending'.kind # "none" => pending'.of \in Objects /\ pending'.at = Len(frames')
      BY <1>0, <2>5, <2>6, <2>7, <2>8 DEF Objects
    <2>10. StackTypes' BY <2>1, <2>4, <2>5, <2>9, RefsKept DEF StackInv, StackTypes
    <2>11. ExceptionStaysInFrame'
      <3>1. Len(frames') \in Nat \ {0} /\ frames'[Len(frames')].kind # "js" /\ ~InJsBy("call")'
        BY <2>5 DEF InAddon, Top, InJsBy
      <3> QED BY <2>9, <3>1 DEF ExceptionStaysInFrame, IsExceptionPending
    <2> QED BY <2>5, <2>10, <2>11 DEF StackInv
  <1>7. CASE Throw
    <2>1. InAddon BY <1>7 DEF Throw, Api
    <2>2. PICK e \in Objects : pending' = [kind |-> "throw", of |-> e, at |-> Len(frames)]
      BY <1>7, <2>1, UsableObjects DEF Throw
    <2> QED BY <1>0, <1>7, <2>1, <2>2, Thrown DEF Throw
  <1>8. CASE ThrowError
    <2>1. InAddon BY <1>8 DEF ThrowError, Api
    <2>2. PICK e \in Objects : /\ pending' = [kind |-> "throw", of |-> e, at |-> Len(frames)]
                               /\ scopes' = HandleIn(scopes, e)
      BY <1>0, <1>8 DEF ThrowError, CreateHandle
    <2>3. scopes' \in Seq(ScopeType) /\ Len(scopes') = Len(scopes)
      BY <1>0, <2>1, <2>2, TopHasScope, HandleKept
    <2> QED BY <1>8, <2>1, <2>2, <2>3, Thrown DEF ThrowError
  <1>9. CASE FatalException
    <2>1. InAddon BY <1>9 DEF FatalException, Api
    <2>2. PICK e \in Objects : pending' = [kind |-> "fatal", of |-> e, at |-> Len(frames)]
      BY <1>9, <2>1, UsableObjects DEF FatalException
    <2> QED BY <1>0, <1>9, <2>1, <2>2, Thrown DEF FatalException
  <1>10. CASE GetAndClearLastException
    <2>1. /\ InAddon /\ pending.kind # "none" /\ pending' = NoException
          /\ UNCHANGED <<refs, scopes, script>>
          /\ frames' = [frames EXCEPT ![Len(frames)].loose = @ \cup {pending.of}]
      BY <1>10 DEF GetAndClearLastException, Api, IsExceptionPending
    <2>2. frames' \in Seq(FrameType) /\ FramesNest' BY <1>0, <2>1, LooseKept
    <2>3. /\ NoException \in [kind : {"none", "throw", "fatal"}, of : 0 .. MaxObjects, at : Nat]
          /\ NoException.kind = "none"
      BY NapiAssumption DEF NoException, None
    <2>4. StackTypes' BY <2>1, <2>2, <2>3, RefsKept DEF StackInv, StackTypes
    <2>5. ExceptionStaysInFrame' BY <2>1, <2>3 DEF ExceptionStaysInFrame, IsExceptionPending
    <2> QED BY <2>2, <2>4, <2>5 DEF StackInv
  <1>11. CASE InitPending
    <2>1. PICK e \in Objects : frames' = Append(frames, Frame("init", {e}))
      BY <1>0, <1>11 DEF InitPending
    <2> QED BY <1>0, <1>11, <2>1, NativeEntered DEF InitPending
  <1>12. CASE InitReturns
    <2>1. InAddon BY <1>12 DEF InitReturns
    <2>2. \E v \in Usable \cup {None} :
             \/ script' \in {script, script \cup ({v} \ {None})}
             \/ IsExceptionPending /\ script' \in {script, script \cup ({pending.of} \ {None})}
      BY <1>12 DEF InitReturns, KeepOrNot
    <2>3. script' \subseteq Objects
      BY <1>0, <2>1, <2>2, UsableObjects DEF IsExceptionPending
    <2> QED BY <1>12, <2>1, <2>3, NativeLeft DEF InitReturns
  <1> QED
    BY <1>1, <1>2, <1>3, <1>4, <1>5, <1>6, <1>7, <1>8, <1>9, <1>10, <1>11, <1>12
       DEF NapiFunctionsCall

\* The complete callback of a work item is entered with an empty stack and leaves one.
LEMMA WorkStack ==
    StackInv /\ (NapiWorkCall \/ \E w \in Works : WorkStep(w)) => StackInv'
  <1> SUFFICES ASSUME StackInv, NapiWorkCall \/ \E w \in Works : WorkStep(w)
               PROVE  StackInv'
    OBVIOUS
  <1>0. /\ scopes \in Seq(ScopeType) /\ script \subseteq Objects /\ Len(scopes) \in Nat
    BY StackNumbers DEF StackInv, StackTypes
  <1>1. CASE UNCHANGED <<refs, scopes, frames, pending, script>>
    BY <1>0, <1>1, StackKept, RefsKept
  <1>2. ASSUME NEW w \in Works, AfterWork(w) PROVE StackInv'
    <2>1. /\ frames = <<>> /\ frames' = <<Frame("complete", {})>>
          /\ scopes' = OpenScope(scopes) /\ UNCHANGED <<refs, pending, script>>
      BY <1>2 DEF AfterWork
    <2>2. frames' = Append(frames, Frame("complete", {})) BY <2>1
    <2>3. InScript BY <2>1 DEF InScript
    <2> QED BY <1>0, <2>1, <2>2, <2>3, NativeEntered
  <1>3. ASSUME NEW w \in Works, CompleteReturns(w) PROVE StackInv'
    <2>1. frames' = <<>> /\ scopes' = <<>> /\ pending' = NoException /\ UNCHANGED <<refs, script>>
      BY <1>3 DEF CompleteReturns
    <2>2. /\ NoException \in [kind : {"none", "throw", "fatal"}, of : 0 .. MaxObjects, at : Nat]
          /\ NoException.kind = "none"
      BY NapiAssumption DEF NoException, None
    <2>3. StackTypes' BY <1>0, <2>1, <2>2, RefsKept DEF StackTypes
    <2>4. FramesNest' BY <2>1 DEF FramesNest
    <2>5. ExceptionStaysInFrame' BY <2>1, <2>2 DEF ExceptionStaysInFrame, IsExceptionPending
    <2> QED BY <2>3, <2>4, <2>5 DEF StackInv
  <1> QED
    BY <1>1, <1>2, <1>3
       DEF NapiWorkCall, WorkStep, CreateAsyncWork, QueueAsyncWork, CancelAsyncWork,
           DeleteAsyncWork, WorkStarts, WorkEnds, AddEnvCleanupHook, RemoveEnvCleanupHook,
           Leave, CallHook, HookReturns, heapVars

-----------------------------------------------------------------------------
(* What the helpers of the heap do to the counts.                          *)

One(o, x) == IF o = x THEN 1 ELSE 0

\* The handles of an object, by scope, are numbers.
LEMMA HandlesAre ==
    ASSUME NEW sc \in Seq(ScopeType), NEW o \in Objects
    PROVE  /\ Handles(sc, o) \in Seq(Nat) /\ Len(Handles(sc, o)) = Len(sc)
           /\ \A i \in 1 .. Len(sc) : Handles(sc, o)[i] = sc[i].handles[o]
           /\ \A i \in 1 .. Len(sc) : sc[i].handles[o] \in Nat
           /\ SumOf(Handles(sc, o)) \in Nat
  <1>1. \A i \in 1 .. Len(sc) : sc[i].handles[o] \in Nat
    <2> TAKE i \in 1 .. Len(sc)
    <2>1. sc[i] \in ScopeType OBVIOUS
    <2> QED BY <2>1 DEF ScopeType
  <1> DEFINE h == Handles(sc, o)
             n == Len(sc)
  <1>2. n \in Nat OBVIOUS
  <1>3. h = [i \in 1 .. n |-> sc[i].handles[o]] BY DEF Handles
  <1> HIDE DEF h, n
  <1>4. h \in Seq(Nat) /\ Len(h) = n /\ \A i \in 1 .. n : h[i] = sc[i].handles[o]
    <2>1. \A i \in 1 .. n : sc[i].handles[o] \in Nat BY <1>1 DEF n
    <2> QED BY ONLY <1>2, <1>3, <2>1
  <1>5. SumOf(h) \in Nat BY <1>4, SumIsNumber
  <1> QED BY <1>1, <1>4, <1>5 DEF h, n

\* The scopes that a change of one scope leaves: s and t differ only at d.
LEMMA HandlesChange ==
    ASSUME NEW sc \in Seq(ScopeType), NEW tc \in Seq(ScopeType), Len(tc) = Len(sc),
           NEW d \in 1 .. Len(sc), NEW o \in Objects,
           \A i \in 1 .. Len(sc) : i # d => tc[i].handles[o] = sc[i].handles[o]
    PROVE  SumOf(Handles(tc, o)) = SumOf(Handles(sc, o)) + tc[d].handles[o] - sc[d].handles[o]
  <1> DEFINE s == Handles(sc, o)
             u == Handles(tc, o)
  <1>1. /\ s \in Seq(Nat) /\ Len(s) = Len(sc)
        /\ \A i \in 1 .. Len(sc) : s[i] = sc[i].handles[o]
    BY HandlesAre
  <1>2. /\ u \in Seq(Nat) /\ Len(u) = Len(sc)
        /\ \A i \in 1 .. Len(sc) : u[i] = tc[i].handles[o]
    BY HandlesAre
  <1> HIDE DEF s, u
  <1>3. d \in 1 .. Len(s) /\ \A i \in 1 .. Len(s) : i # d => u[i] = s[i] BY <1>1, <1>2
  <1>4. SumOf(u) = SumOf(s) + u[d] - s[d] BY <1>1, <1>2, <1>3, SumChange
  <1>5. u[d] = tc[d].handles[o] /\ s[d] = sc[d].handles[o] BY <1>1, <1>2
  <1> QED BY <1>4, <1>5 DEF s, u

\* jerryx_create_handle: one more handle of x.
LEMMA HandleCounts ==
    ASSUME NEW sc \in Seq(ScopeType), Len(sc) > 0, NEW x \in Objects
    PROVE  /\ HandleIn(sc, x) \in Seq(ScopeType) /\ Len(HandleIn(sc, x)) = Len(sc)
           /\ \A o \in Objects :
                SumOf(Handles(HandleIn(sc, x), o)) = SumOf(Handles(sc, o)) + One(o, x)
  <1>1. HandleIn(sc, x) \in Seq(ScopeType) /\ Len(HandleIn(sc, x)) = Len(sc) BY HandleKept
  <1> DEFINE d == Len(sc)
  <1>2. d \in 1 .. Len(sc) OBVIOUS
  <1>3. ASSUME NEW o \in Objects
        PROVE  SumOf(Handles(HandleIn(sc, x), o)) = SumOf(Handles(sc, o)) + One(o, x)
    <2> DEFINE tc == HandleIn(sc, x)
    <2>1. sc[d].handles[o] \in Nat /\ SumOf(Handles(sc, o)) \in Nat BY <1>2, HandlesAre
    <2>2. sc[d] \in ScopeType BY <1>2
    <2>3. sc[d].handles \in [Objects -> Nat] BY <2>2 DEF ScopeType
    <2>4. /\ \A i \in 1 .. Len(sc) : i # d => tc[i] = sc[i]
          /\ tc[d].handles = [sc[d].handles EXCEPT ![x] = @ + 1]
      <3> DEFINE top == [sc[d] EXCEPT !.handles[x] = @ + 1]
      <3>1. tc = [sc EXCEPT ![d] = top] BY DEF HandleIn
      <3>2. top.handles = [sc[d].handles EXCEPT ![x] = @ + 1] BY ONLY <2>2 DEF ScopeType
      <3> HIDE DEF top, tc
      <3>3. tc[d] = top /\ \A i \in 1 .. Len(sc) : i # d => tc[i] = sc[i] BY <1>2, <3>1
      <3> QED BY <3>2, <3>3
    <2>5. tc[d].handles[o] = sc[d].handles[o] + One(o, x) BY <2>1, <2>3, <2>4 DEF One
    <2> HIDE DEF tc
    <2>6. tc \in Seq(ScopeType) /\ Len(tc) = Len(sc) BY <1>1 DEF tc
    <2>7. SumOf(Handles(tc, o)) = SumOf(Handles(sc, o)) + tc[d].handles[o] - sc[d].handles[o]
      <3>1. \A i \in 1 .. Len(sc) : i # d => tc[i].handles[o] = sc[i].handles[o] BY <2>4
      <3> HIDE DEF d
      <3> QED BY <1>2, <2>6, <3>1, HandlesChange
    <2>8. SumOf(Handles(tc, o)) = SumOf(Handles(sc, o)) + One(o, x)
      BY <2>1, <2>5, <2>7 DEF One
    <2> QED BY <2>8 DEF tc
  <1> QED BY <1>1, <1>3

\* jerryx_open_handle_scope: the new scope owns nothing.
LEMMA OpenCounts ==
    ASSUME NEW sc \in Seq(ScopeType), NEW o \in Objects
    PROVE  SumOf(Handles(OpenScope(sc), o)) = SumOf(Handles(sc, o))
  <1> DEFINE s == Handles(sc, o)
             tc == OpenScope(sc)
             u == Handles(tc, o)
             n == Len(sc)
  <1>1. /\ tc \in Seq(ScopeType) /\ Len(tc) = n + 1 /\ n \in Nat
        /\ \A i \in 1 .. n : tc[i] = sc[i]
        /\ tc[n + 1] = NewScope
    <2>1. NewScope \in ScopeType BY DEF NewScope, ScopeType
    <2>2. tc = Append(sc, NewScope) BY DEF OpenScope
    <2> HIDE DEF tc
    <2> QED BY ONLY <2>1, <2>2, sc \in Seq(ScopeType)
  <1>2. NewScope.handles[o] = 0 BY DEF NewScope
  <1> HIDE DEF tc
  <1>3. /\ s \in Seq(Nat) /\ Len(s) = n /\ SumOf(s) \in Nat
        /\ \A i \in 1 .. n : s[i] = sc[i].handles[o]
    BY HandlesAre
  <1>4. /\ u \in Seq(Nat) /\ Len(u) = n + 1
        /\ \A i \in 1 .. n + 1 : u[i] = tc[i].handles[o]
    BY <1>1, HandlesAre
  <1> HIDE DEF s, u, n
  <1>5. u = Append(s, 0)
    <2>1. n + 1 \in 1 .. n + 1 /\ \A i \in 1 .. n : i \in 1 .. n + 1 BY <1>1
    <2>2. u[n + 1] = 0 BY <1>1, <1>2, <1>4, <2>1
    <2>3. \A i \in 1 .. n : u[i] = s[i] BY <1>1, <1>3, <1>4, <2>1
    <2>4. n \in Nat BY <1>1
    <2> QED BY ONLY <1>3, <1>4, <2>2, <2>3, <2>4
  <1>6. SumOf(u) = SumOf(s) + 0 BY <1>3, <1>5, SumAppend
  <1>7. SumOf(u) = SumOf(s) BY <1>3, <1>6
  <1> QED BY <1>7 DEF u, s, tc

\* jerryx_close_handle_scope: what the scopes from i on own is what is given back.
LEMMA CloseCounts ==
    ASSUME NEW sc \in Seq(ScopeType), NEW i \in 1 .. Len(sc) + 1, NEW o \in Objects
    PROVE  /\ Owned(sc, i, o) \in Int
           /\ SumOf(Handles(CloseScope(sc, i), o)) = SumOf(Handles(sc, o)) - Owned(sc, i, o)
  <1> DEFINE s == Handles(sc, o)
             tc == CloseScope(sc, i)
             u == Handles(tc, o)
             m == i - 1
  <1>1. /\ tc \in Seq(ScopeType) /\ Len(tc) = m /\ m \in Nat /\ m <= Len(sc)
        /\ \A j \in 1 .. m : tc[j] = sc[j]
    <2>1. m \in Nat /\ m <= Len(sc) OBVIOUS
    <2>2. tc \in Seq(ScopeType) /\ Len(tc) = m BY CloseKept
    <2>3. tc = SubSeq(sc, 1, m) BY DEF CloseScope
    <2> HIDE DEF m, tc
    <2>4. \A j \in 1 .. m : tc[j] = sc[j] BY ONLY <2>1, <2>3, sc \in Seq(ScopeType)
    <2> QED BY <2>1, <2>2, <2>4
  <1> HIDE DEF tc
  <1>2. /\ s \in Seq(Nat) /\ Len(s) = Len(sc) /\ SumOf(s) \in Nat
        /\ \A j \in 1 .. Len(sc) : s[j] = sc[j].handles[o]
    BY HandlesAre
  <1>3. /\ u \in Seq(Nat) /\ Len(u) = m /\ \A j \in 1 .. m : u[j] = tc[j].handles[o]
    BY <1>1, HandlesAre
  <1>4. Owned(sc, i, o) = SumOf(s) - Totals(s)[m] BY DEF Owned
  <1> HIDE DEF s, u, m
  <1>5. \A j \in 1 .. m : s[j] = u[j] BY <1>1, <1>2, <1>3
  <1>6. Totals(s)[m] = Totals(u)[m] /\ Totals(s)[m] \in Nat
    <2>1. m \in Nat /\ m <= Len(s) /\ m <= Len(u) /\ s \in Seq(Nat) /\ u \in Seq(Nat)
      BY <1>1, <1>2, <1>3
    <2> QED BY ONLY <1>5, <2>1, TotalsPrefix
  <1>7. SumOf(u) = Totals(u)[m] BY <1>3 DEF SumOf
  <1>8. SumOf(u) = SumOf(s) - (SumOf(s) - Totals(s)[m]) /\ SumOf(s) - Totals(s)[m] \in Int
    BY <1>2, <1>6, <1>7
  <1>9. SumOf(u) = SumOf(s) - Owned(sc, i, o) /\ Owned(sc, i, o) \in Int BY <1>4, <1>8
  <1> QED BY <1>9 DEF s, u, tc

\* jerryx_remove_handle: one handle of x less in scope d.
HandleOut(sc, d, x) == [sc EXCEPT ![d].handles[x] = @ - 1]

LEMMA RemovedCounts ==
    ASSUME NEW sc \in Seq(ScopeType), NEW d \in 1 .. Len(sc), NEW x \in Objects,
           sc[d].handles[x] > 0
    PROVE  /\ HandleOut(sc, d, x) \in Seq(ScopeType) /\ Len(HandleOut(sc, d, x)) = Len(sc)
           /\ \A i \in 1 .. Len(sc) : i # d => HandleOut(sc, d, x)[i] = sc[i]
           /\ \A o \in Objects :
                /\ HandleOut(sc, d, x)[d].handles[o] = sc[d].handles[o] - One(o, x)
                /\ SumOf(Handles(HandleOut(sc, d, x), o)) = SumOf(Handles(sc, o)) - One(o, x)
  <1> DEFINE tc == HandleOut(sc, d, x)
             less == [sc[d] EXCEPT !.handles[x] = @ - 1]
  <1>1. sc[d] \in ScopeType /\ sc[d].handles \in [Objects -> Nat]
    <2>1. sc[d] \in ScopeType OBVIOUS
    <2> QED BY ONLY <2>1 DEF ScopeType
  <1>2. [sc[d].handles EXCEPT ![x] = @ - 1] \in [Objects -> Nat] BY ONLY <1>1, sc[d].handles[x] > 0, x \in Objects
  <1>3. less \in ScopeType /\ less.handles = [sc[d].handles EXCEPT ![x] = @ - 1]
    BY ONLY <1>1, <1>2 DEF ScopeType
  <1>4. tc = [sc EXCEPT ![d] = less] BY DEF HandleOut
  <1> HIDE DEF less, tc
  <1>5. /\ tc \in Seq(ScopeType) /\ Len(tc) = Len(sc) /\ tc[d] = less
        /\ \A i \in 1 .. Len(sc) : i # d => tc[i] = sc[i]
    BY ONLY <1>3, <1>4, sc \in Seq(ScopeType), d \in 1 .. Len(sc)
  <1>6. ASSUME NEW o \in Objects
        PROVE  /\ tc[d].handles[o] = sc[d].handles[o] - One(o, x)
               /\ SumOf(Handles(tc, o)) = SumOf(Handles(sc, o)) - One(o, x)
    <2>1. sc[d].handles[o] \in Nat /\ SumOf(Handles(sc, o)) \in Nat BY HandlesAre
    <2>2. tc[d].handles[o] = sc[d].handles[o] - One(o, x) BY <1>1, <1>3, <1>5, <2>1 DEF One
    <2>3. \A i \in 1 .. Len(sc) : i # d => tc[i].handles[o] = sc[i].handles[o] BY <1>5
    <2>4. SumOf(Handles(tc, o)) = SumOf(Handles(sc, o)) + tc[d].handles[o] - sc[d].handles[o]
      BY <1>5, <2>3, HandlesChange
    <2> QED BY <2>1, <2>2, <2>4 DEF One
  <1> QED BY <1>5, <1>6 DEF tc

\* jerryx_escape_handle: the parent owns what the current scope owned.
LEMMA EscapeCounts ==
    ASSUME NEW sc \in Seq(ScopeType), NEW x \in Objects, CanEscape(sc, x), NEW o \in Objects
    PROVE  SumOf(Handles(Escaped(sc, x), o)) = SumOf(Handles(sc, o))
  <1> DEFINE d == Len(sc)
             top == [sc[d] EXCEPT !.handles[x] = @ - 1, !.escaped = TRUE]
             parent == [sc[d - 1] EXCEPT !.handles[x] = @ + 1]
             mid == HandleOut(sc, d, x)
             tc == Escaped(sc, x)
  <1>1. /\ d \in 1 .. Len(sc) /\ d - 1 \in 1 .. Len(sc) /\ d # d - 1
        /\ sc[d] \in ScopeType /\ sc[d - 1] \in ScopeType /\ sc[d].handles[x] > 0
    BY DEF CanEscape
  <1>2. /\ mid \in Seq(ScopeType) /\ Len(mid) = Len(sc)
        /\ \A i \in 1 .. Len(sc) : i # d => mid[i] = sc[i]
        /\ mid[d].handles[o] = sc[d].handles[o] - One(o, x)
        /\ SumOf(Handles(mid, o)) = SumOf(Handles(sc, o)) - One(o, x)
    BY <1>1, RemovedCounts
  <1>3. sc[d].handles \in [Objects -> Nat] /\ sc[d - 1].handles \in [Objects -> Nat]
    BY <1>1 DEF ScopeType
  <1>4. top.handles[o] = sc[d].handles[o] - One(o, x)
    <2>1. top.handles = [sc[d].handles EXCEPT ![x] = @ - 1] BY ONLY <1>1 DEF ScopeType
    <2> HIDE DEF top
    <2> QED BY <1>3, <2>1 DEF One
  <1>5. parent.handles[o] = sc[d - 1].handles[o] + One(o, x)
    <2>1. parent.handles = [sc[d - 1].handles EXCEPT ![x] = @ + 1] BY ONLY <1>1 DEF ScopeType
    <2> HIDE DEF parent
    <2> QED BY <1>3, <2>1 DEF One
  <1>6. tc = [sc EXCEPT ![d] = top, ![d - 1] = parent] BY <1>1 DEF Escaped
  <1>7. tc \in Seq(ScopeType) /\ Len(tc) = Len(sc) BY EscapeKept
  <1>8. sc[d - 1].handles[o] \in Nat /\ sc[d].handles[o] \in Nat /\ SumOf(Handles(sc, o)) \in Nat
    BY <1>1, HandlesAre
  <1> HIDE DEF tc, mid, top, parent, d
  <1>9. tc[d] = top /\ tc[d - 1] = parent /\ \A i \in 1 .. Len(sc) : i \notin {d, d - 1} => tc[i] = sc[i]
    BY ONLY <1>1, <1>6, sc \in Seq(ScopeType)
  <1>10. \A i \in 1 .. Len(mid) : i # d - 1 => tc[i].handles[o] = mid[i].handles[o]
    <2> TAKE i \in 1 .. Len(mid)
    <2>1. CASE i = d BY <1>2, <1>4, <1>9, <2>1
    <2>2. CASE i # d BY <1>2, <1>9, <2>2
    <2> QED BY <2>1, <2>2
  <1>11. SumOf(Handles(tc, o)) = SumOf(Handles(mid, o)) + tc[d - 1].handles[o] - mid[d - 1].handles[o]
    <2>1. d - 1 \in 1 .. Len(mid) /\ Len(tc) = Len(mid) BY <1>1, <1>2, <1>7
    <2> QED BY <1>2, <1>7, <1>10, <2>1, HandlesChange
  <1>12. mid[d - 1].handles[o] = sc[d - 1].handles[o] BY <1>1, <1>2
  <1>13. SumOf(Handles(tc, o)) = SumOf(Handles(sc, o))
    BY <1>2, <1>5, <1>8, <1>9, <1>11, <1>12 DEF One
  <1> QED BY <1>13 DEF tc

\* The counts of o that references own, when one reference r changes.
LEMMA CountsAre ==
    ASSUME NEW rf \in [Refs -> RefType], NEW o
    PROVE  /\ Counts(rf, o) \in Seq(Nat) /\ Len(Counts(rf, o)) = MaxRefs
           /\ \A r \in Refs : Counts(rf, o)[r] = IF rf[r].jval = o THEN rf[r].count ELSE 0
           /\ SumOf(Counts(rf, o)) \in Nat
  <1> DEFINE c == Counts(rf, o)
             v(r) == IF rf[r].jval = o THEN rf[r].count ELSE 0
  <1>1. \A r \in Refs : v(r) \in Nat
    <2> TAKE r \in Refs
    <2>1. rf[r] \in RefType OBVIOUS
    <2> QED BY <2>1 DEF RefType
  <1>2. c = [r \in 1 .. MaxRefs |-> v(r)] BY DEF Counts, Refs
  <1> HIDE DEF c, v
  <1>3. MaxRefs \in Nat BY NapiAssumption
  <1>4. c \in Seq(Nat) /\ Len(c) = MaxRefs /\ \A r \in Refs : c[r] = v(r)
    BY <1>1, <1>2, <1>3 DEF Refs
  <1>5. SumOf(c) \in Nat BY <1>4, SumIsNumber
  <1> QED BY <1>4, <1>5 DEF c, v

LEMMA CountsChange ==
    ASSUME NEW rf \in [Refs -> RefType], NEW sf \in [Refs -> RefType], NEW r \in Refs, NEW o,
           \A q \in Refs : q # r => /\ (sf[q].jval = o <=> rf[q].jval = o)
                                    /\ rf[q].jval = o => sf[q].count = rf[q].count
    PROVE  SumOf(Counts(sf, o)) = SumOf(Counts(rf, o))
               + (IF sf[r].jval = o THEN sf[r].count ELSE 0)
               - (IF rf[r].jval = o THEN rf[r].count ELSE 0)
  <1> DEFINE s == Counts(rf, o)
             u == Counts(sf, o)
  <1>1. /\ s \in Seq(Nat) /\ Len(s) = MaxRefs
        /\ \A q \in Refs : s[q] = IF rf[q].jval = o THEN rf[q].count ELSE 0
    BY CountsAre
  <1>2. /\ u \in Seq(Nat) /\ Len(u) = MaxRefs
        /\ \A q \in Refs : u[q] = IF sf[q].jval = o THEN sf[q].count ELSE 0
    BY CountsAre
  <1> HIDE DEF s, u
  <1>3. 1 .. Len(s) = Refs BY <1>1 DEF Refs
  <1>4. \A q \in 1 .. Len(s) : q # r => u[q] = s[q] BY <1>1, <1>2, <1>3
  <1>5. SumOf(u) = SumOf(s) + u[r] - s[r] BY <1>1, <1>2, <1>3, <1>4, SumChange
  <1> QED BY <1>1, <1>2, <1>5 DEF s, u

LEMMA CountsSame ==
    ASSUME NEW rf \in [Refs -> RefType], NEW sf \in [Refs -> RefType], NEW o,
           \A q \in Refs : /\ sf[q].jval = o => rf[q].jval = o
                           /\ rf[q].jval = o => sf[q].jval = o \/ rf[q].count = 0
                           /\ rf[q].jval = o => sf[q].count = rf[q].count
    PROVE  SumOf(Counts(sf, o)) = SumOf(Counts(rf, o))
  <1>1. Counts(sf, o) = Counts(rf, o) BY DEF Counts
  <1> QED BY <1>1

\* The exports that a frame owns.
ExportOf(f, o) == IF f.kind = "init" /\ o \in f.args THEN 1 ELSE 0

LEMMA ExportsAre ==
    ASSUME NEW fr \in Seq(FrameType), NEW o
    PROVE  /\ Exports(fr, o) \in Seq(Nat) /\ Len(Exports(fr, o)) = Len(fr)
           /\ \A i \in 1 .. Len(fr) : Exports(fr, o)[i] = ExportOf(fr[i], o)
           /\ SumOf(Exports(fr, o)) \in Nat
  <1> DEFINE c == Exports(fr, o)
             n == Len(fr)
             v(i) == ExportOf(fr[i], o)
  <1>1. \A i \in 1 .. n : v(i) \in Nat BY DEF ExportOf
  <1>2. n \in Nat OBVIOUS
  <1>3. c = [i \in 1 .. n |-> v(i)] BY DEF Exports, ExportOf
  <1> HIDE DEF c, n, v
  <1>4. c \in Seq(Nat) /\ Len(c) = n /\ \A i \in 1 .. n : c[i] = v(i) BY <1>1, <1>2, <1>3
  <1>5. SumOf(c) \in Nat BY <1>4, SumIsNumber
  <1> QED BY <1>4, <1>5 DEF c, n, v

LEMMA ExportsPushed ==
    ASSUME NEW fr \in Seq(FrameType), NEW gr \in Seq(FrameType), NEW o,
           Len(gr) = Len(fr) + 1, \A i \in 1 .. Len(fr) : gr[i] = fr[i]
    PROVE  SumOf(Exports(gr, o)) = SumOf(Exports(fr, o)) + ExportOf(gr[Len(gr)], o)
  <1> DEFINE s == Exports(fr, o)
             u == Exports(gr, o)
             n == Len(fr)
             x == ExportOf(gr[n + 1], o)
  <1>1. /\ s \in Seq(Nat) /\ Len(s) = n /\ \A i \in 1 .. n : s[i] = ExportOf(fr[i], o)
    BY ExportsAre
  <1>2. /\ u \in Seq(Nat) /\ Len(u) = n + 1
        /\ \A i \in 1 .. n + 1 : u[i] = ExportOf(gr[i], o)
    BY ExportsAre
  <1>3. n \in Nat /\ \A i \in 1 .. n : i \in 1 .. n + 1 OBVIOUS
  <1>4. n + 1 \in 1 .. n + 1 /\ x \in Nat BY <1>3 DEF ExportOf
  <1>5. u[n + 1] = x BY <1>2, <1>4
  <1>6. \A i \in 1 .. n : u[i] = s[i] BY <1>1, <1>2, <1>3
  <1> HIDE DEF s, u, n, x
  <1>7. u = Append(s, x)
    <2>1. Len(s) = n /\ Len(u) = n + 1 /\ s \in Seq(Nat) /\ u \in Seq(Nat) BY <1>1, <1>2
    <2>2. n \in Nat /\ x \in Nat BY <1>3, <1>4
    <2> QED BY ONLY <1>5, <1>6, <2>1, <2>2
  <1>8. SumOf(u) = SumOf(s) + x BY <1>1, <1>4, <1>7, SumAppend
  <1> QED BY <1>8 DEF s, u, x, n

LEMMA ExportsSame ==
    ASSUME NEW fr \in Seq(FrameType), NEW gr \in Seq(FrameType), NEW o, Len(gr) = Len(fr),
           \A i \in 1 .. Len(fr) : gr[i].kind = fr[i].kind /\ gr[i].args = fr[i].args
    PROVE  SumOf(Exports(gr, o)) = SumOf(Exports(fr, o))
  <1>1. Exports(gr, o) = Exports(fr, o) BY DEF Exports
  <1> QED BY <1>1

-----------------------------------------------------------------------------
(* What the helpers of the heap do to the objects.                         *)

\* What of an object a change of its count leaves
Alike(a, b) == /\ a.st = b.st /\ a.prop = b.prop
               /\ a.refStart = b.refStart /\ a.refEnd = b.refEnd

LEMMA AcquiredIs ==
    ASSUME NEW ob \in [Objects -> ObjType], NEW x \in Objects
    PROVE  /\ Acquired(ob, x) \in [Objects -> ObjType]
           /\ \A o \in Objects : /\ Acquired(ob, x)[o].rc = ob[o].rc + One(o, x)
                                 /\ Alike(Acquired(ob, x)[o], ob[o])
  <1> DEFINE v == [ob[x] EXCEPT !.rc = @ + 1]
             t == Acquired(ob, x)
  <1>1. ob[x] \in ObjType /\ ob[x].rc \in Int BY DEF ObjType
  <1>2. v \in ObjType /\ v.rc = ob[x].rc + 1 /\ Alike(v, ob[x]) BY ONLY <1>1 DEF ObjType, Alike
  <1>3. t = [ob EXCEPT ![x] = v] BY DEF Acquired
  <1> HIDE DEF t, v
  <1>4. t \in [Objects -> ObjType] BY <1>2, <1>3
  <1>5. ASSUME NEW o \in Objects PROVE t[o].rc = ob[o].rc + One(o, x) /\ Alike(t[o], ob[o])
    <2>1. ob[o].rc \in Int BY DEF ObjType
    <2>2. CASE o = x BY <1>2, <1>3, <2>2 DEF One
    <2>3. CASE o # x BY <1>3, <2>1, <2>3 DEF One, Alike
    <2> QED BY <2>2, <2>3
  <1> QED BY <1>4, <1>5 DEF t

LEMMA ReleasedIs ==
    ASSUME NEW ob \in [Objects -> ObjType], NEW x \in Objects
    PROVE  /\ Released(ob, x) \in [Objects -> ObjType]
           /\ \A o \in Objects : /\ Released(ob, x)[o].rc = ob[o].rc - One(o, x)
                                 /\ Alike(Released(ob, x)[o], ob[o])
  <1> DEFINE v == [ob[x] EXCEPT !.rc = @ - 1]
             t == Released(ob, x)
  <1>1. ob[x] \in ObjType /\ ob[x].rc \in Int BY DEF ObjType
  <1>2. v \in ObjType /\ v.rc = ob[x].rc - 1 /\ Alike(v, ob[x]) BY ONLY <1>1 DEF ObjType, Alike
  <1>3. t = [ob EXCEPT ![x] = v] BY DEF Released
  <1> HIDE DEF t, v
  <1>4. t \in [Objects -> ObjType] BY <1>2, <1>3
  <1>5. ASSUME NEW o \in Objects PROVE t[o].rc = ob[o].rc - One(o, x) /\ Alike(t[o], ob[o])
    <2>1. ob[o].rc \in Int BY DEF ObjType
    <2>2. CASE o = x BY <1>2, <1>3, <2>2 DEF One
    <2>3. CASE o # x BY <1>3, <2>1, <2>3 DEF One, Alike
    <2> QED BY <2>2, <2>3
  <1> QED BY <1>4, <1>5 DEF t

LEMMA ClosedIs ==
    ASSUME NEW ob \in [Objects -> ObjType], NEW sc \in Seq(ScopeType),
           NEW i \in 1 .. Len(sc) + 1
    PROVE  /\ ScopesReleased(ob, sc, i) \in [Objects -> ObjType]
           /\ \A o \in Objects : /\ ScopesReleased(ob, sc, i)[o].rc = ob[o].rc - Owned(sc, i, o)
                                 /\ Owned(sc, i, o) \in Int
                                 /\ Alike(ScopesReleased(ob, sc, i)[o], ob[o])
  <1> DEFINE v(o) == [ob[o] EXCEPT !.rc = @ - Owned(sc, i, o)]
             t == ScopesReleased(ob, sc, i)
  <1>1. ASSUME NEW o \in Objects
        PROVE  /\ v(o) \in ObjType /\ v(o).rc = ob[o].rc - Owned(sc, i, o)
               /\ Alike(v(o), ob[o]) /\ Owned(sc, i, o) \in Int
    <2>1. ob[o] \in ObjType /\ ob[o].rc \in Int BY DEF ObjType
    <2>2. Owned(sc, i, o) \in Int BY CloseCounts
    <2> DEFINE a == ob[o]
               n == a.rc - Owned(sc, i, o)
    <2>3. a \in ObjType /\ n \in Int /\ v(o) = [a EXCEPT !.rc = n] BY <2>1, <2>2
    <2> HIDE DEF a, n, v
    <2>4. v(o) \in ObjType /\ v(o).rc = n /\ Alike(v(o), a) BY ONLY <2>3 DEF ObjType, Alike
    <2> QED BY <2>2, <2>4 DEF a, n
  <1>2. t = [o \in Objects |-> v(o)] BY DEF ScopesReleased
  <1> HIDE DEF t, v
  <1>3. \A o \in Objects : t[o] = v(o) BY <1>2
  <1>4. t \in [Objects -> ObjType] BY <1>1, <1>2
  <1> QED BY <1>1, <1>3, <1>4 DEF t

\* A new object, with whatever it is given on creation: its wrap and its property.
Newborn(ob, t, x) ==
    /\ t \in [Objects -> ObjType]
    /\ t[x].st = "live" /\ t[x].rc = 1
    /\ t[x].refStart = ob[x].refStart /\ t[x].refEnd = ob[x].refEnd
    /\ \A o \in Objects : o # x => t[o] = ob[o]

LEMMA CreatedIs ==
    ASSUME NEW ob \in [Objects -> ObjType], NEW x \in Objects
    PROVE  Newborn(ob, Created(ob, x), x) /\ Created(ob, x)[x].prop = ob[x].prop
  <1> DEFINE v == [ob[x] EXCEPT !.st = "live", !.rc = 1]
             t == Created(ob, x)
  <1>1. ob[x] \in ObjType OBVIOUS
  <1>2. /\ v \in ObjType /\ v.rc = 1 /\ v.st = "live" /\ v.prop = ob[x].prop
        /\ v.refStart = ob[x].refStart /\ v.refEnd = ob[x].refEnd
    <2> DEFINE a == ob[x]
               b == [a EXCEPT !.st = "live"]
    <2>1. a \in ObjType /\ v = [b EXCEPT !.rc = 1] BY <1>1
    <2> HIDE DEF a, v
    <2>2. /\ b \in ObjType /\ b.st = "live" /\ b.prop = a.prop
          /\ b.refStart = a.refStart /\ b.refEnd = a.refEnd
      BY ONLY <2>1 DEF ObjType
    <2> HIDE DEF b
    <2>3. /\ v \in ObjType /\ v.rc = 1 /\ v.st = b.st /\ v.prop = b.prop
          /\ v.refStart = b.refStart /\ v.refEnd = b.refEnd
      BY ONLY <2>1, <2>2 DEF ObjType
    <2> QED BY <2>2, <2>3 DEF a
  <1>3. t = [ob EXCEPT ![x] = v] BY DEF Created
  <1> HIDE DEF t, v
  <1>4. t \in [Objects -> ObjType] BY <1>2, <1>3
  <1>5. t[x] = v /\ \A o \in Objects : o # x => t[o] = ob[o] BY <1>3
  <1> QED BY <1>2, <1>4, <1>5 DEF t, Newborn

\* An object with another property, or another wrap.
PropSet(ob, x, p) == [ob EXCEPT ![x].prop = p]
WrapSet(ob, x, w) == [ob EXCEPT ![x].wrap = w]

LEMMA PropSetIs ==
    ASSUME NEW ob \in [Objects -> ObjType], NEW x \in Objects, NEW p \in Objects \cup {None}
    PROVE  /\ PropSet(ob, x, p) \in [Objects -> ObjType]
           /\ PropSet(ob, x, p)[x].prop = p
           /\ \A o \in Objects : o # x => PropSet(ob, x, p)[o] = ob[o]
           /\ \A o \in Objects :
                /\ PropSet(ob, x, p)[o].st = ob[o].st
                /\ PropSet(ob, x, p)[o].rc = ob[o].rc
                /\ PropSet(ob, x, p)[o].refStart = ob[o].refStart
                /\ PropSet(ob, x, p)[o].refEnd = ob[o].refEnd
  <1> DEFINE v == [ob[x] EXCEPT !.prop = p]
             t == PropSet(ob, x, p)
  <1>1. ob[x] \in ObjType OBVIOUS
  <1>2. /\ v \in ObjType /\ v.prop = p /\ v.st = ob[x].st /\ v.rc = ob[x].rc
        /\ v.refStart = ob[x].refStart /\ v.refEnd = ob[x].refEnd
    BY ONLY <1>1, p \in Objects \cup {None} DEF ObjType
  <1>3. t = [ob EXCEPT ![x] = v] BY DEF PropSet
  <1> HIDE DEF t, v
  <1>4. t \in [Objects -> ObjType] BY <1>2, <1>3
  <1>5. t[x] = v /\ \A o \in Objects : o # x => t[o] = ob[o] BY <1>3
  <1>6. \A o \in Objects : /\ t[o].st = ob[o].st /\ t[o].rc = ob[o].rc
                           /\ t[o].refStart = ob[o].refStart /\ t[o].refEnd = ob[o].refEnd
    BY <1>2, <1>5
  <1> QED BY <1>2, <1>4, <1>5, <1>6 DEF t

LEMMA WrapSetIs ==
    ASSUME NEW ob \in [Objects -> ObjType], NEW x \in Objects,
           NEW w \in {"none", "wrap", "data"}
    PROVE  /\ WrapSet(ob, x, w) \in [Objects -> ObjType]
           /\ \A o \in Objects : o # x => WrapSet(ob, x, w)[o] = ob[o]
           /\ \A o \in Objects : /\ WrapSet(ob, x, w)[o].rc = ob[o].rc
                                 /\ Alike(WrapSet(ob, x, w)[o], ob[o])
  <1> DEFINE v == [ob[x] EXCEPT !.wrap = w]
             t == WrapSet(ob, x, w)
  <1>1. ob[x] \in ObjType OBVIOUS
  <1>2. v \in ObjType /\ v.rc = ob[x].rc /\ Alike(v, ob[x])
    BY ONLY <1>1, w \in {"none", "wrap", "data"} DEF ObjType, Alike
  <1>3. t = [ob EXCEPT ![x] = v] BY DEF WrapSet
  <1> HIDE DEF t, v
  <1>4. t \in [Objects -> ObjType] BY <1>2, <1>3
  <1>5. t[x] = v /\ \A o \in Objects : o # x => t[o] = ob[o] BY <1>3
  <1>6. \A o \in Objects : t[o].rc = ob[o].rc /\ Alike(t[o], ob[o]) BY <1>2, <1>5 DEF Alike
  <1> QED BY <1>4, <1>5, <1>6 DEF t

-----------------------------------------------------------------------------
(* How a step may change the heap.                                         *)

\* The objects of K are born; no other is born or dies, and none gets another list
Grown(K) ==
    /\ K \subseteq Objects \ Born
    /\ obj' \in [Objects -> ObjType]
    /\ \A o \in K : obj'[o].st = "live" /\ \A p \in Objects : p < o => p \in Born \cup K
    /\ \A o \in Objects :
         /\ o \notin K => obj'[o].st = obj[o].st
         /\ obj'[o].refStart = obj[o].refStart /\ obj'[o].refEnd = obj[o].refEnd
         /\ o \notin Born \cup K => obj'[o].rc = obj[o].rc
         /\ obj'[o].prop \in Born \cup K \cup {None}

\* What the state names besides the objects is born
Known(K) ==
    /\ lost' \subseteq Born \cup K
    /\ script' \subseteq Born \cup K
    /\ pending'.of \in Born \cup K \cup {None}
    /\ \A i \in 1 .. Len(frames') : frames'[i].args \subseteq Born \cup K

\* The lists of references stay as they are
ListsStay ==
    /\ refs' \in [Refs -> RefType]
    /\ \A r \in Refs :
         /\ refs'[r].st = "none" <=> refs[r].st = "none"
         /\ refs'[r].jval = refs[r].jval
         /\ refs[r].jval # None => /\ refs'[r].st = refs[r].st
                                   /\ refs'[r].prev = refs[r].prev
                                   /\ refs'[r].next = refs[r].next

\* The count of every object moves as the number of its owners does
CountsMove ==
    /\ lost \subseteq lost'
    /\ \A o \in Objects \ lost' : Owners(o)' = Owners(o) + (obj'[o].rc - obj[o].rc)

\* The parts of the number of owners are numbers.
LEMMA OwnersAre ==
    ASSUME NEW sc \in Seq(ScopeType), NEW rf \in [Refs -> RefType], NEW fr \in Seq(FrameType),
           NEW o \in Objects, NEW p
    PROVE  /\ SumOf(Handles(sc, o)) \in Nat /\ SumOf(Counts(rf, o)) \in Nat
           /\ SumOf(Exports(fr, o)) \in Nat /\ One(o, p) \in Nat
  BY HandlesAre, CountsAre, ExportsAre DEF One

LEMMA OwnersNumber ==
    ASSUME StackInv, HeapTypes, NEW o \in Objects
    PROVE  Owners(o) \in Nat /\ obj[o].rc \in Int
  <1>1. scopes \in Seq(ScopeType) /\ frames \in Seq(FrameType) /\ refs \in [Refs -> RefType]
    BY DEF StackInv, StackTypes, HeapTypes
  <1>2. /\ SumOf(Handles(scopes, o)) \in Nat /\ SumOf(Counts(refs, o)) \in Nat
        /\ SumOf(Exports(frames, o)) \in Nat
    BY <1>1, OwnersAre
  <1>3. obj[o].rc \in Int
    <2>1. obj[o] \in ObjType BY DEF HeapTypes
    <2> QED BY <2>1 DEF ObjType
  <1> QED BY <1>2, <1>3 DEF Owners

\* Objects that are born or die elsewhere leave the lists of references in order.
LEMMA ShapeKept ==
    ASSUME HeapTypes, BornInv, RefInv, NEW K, Grown(K), Known(K), ListsStay
    PROVE  HeapTypes' /\ BornInv' /\ RefInv'
  <1>1. HeapTypes' BY DEF HeapTypes, Grown, ListsStay
  <1>2. \A o \in Objects : obj[o].st \in {"unborn", "live", "gone"}
    <2> TAKE o \in Objects
    <2>1. obj[o] \in ObjType BY DEF HeapTypes
    <2> QED BY <2>1 DEF ObjType
  <1>3. Born' = Born \cup K
    <2>1. \A o \in Objects : obj'[o].st # "unborn" <=> obj[o].st # "unborn" \/ o \in K
      BY DEF Grown
    <2>2. Born \subseteq Objects /\ K \subseteq Objects BY DEF Born, Grown
    <2> QED BY <2>1, <2>2 DEF Born
  <1>4. Live' = Live \cup K
    <2>1. \A o \in Objects : obj'[o].st = "live" <=> obj[o].st = "live" \/ o \in K
      BY DEF Grown, Born
    <2>2. Live \subseteq Objects /\ K \subseteq Objects BY DEF Live, Grown
    <2> QED BY <2>1, <2>2 DEF Live
  <1>5. BornInv'
    <2>1. \A o, p \in Objects : o < p /\ p \in Born' => o \in Born'
      BY <1>3 DEF BornInv, Grown
    <2>2. \A o \in Objects \ Born' :
             obj'[o].rc = 0 /\ obj'[o].refStart = None /\ obj'[o].refEnd = None
      BY <1>3 DEF BornInv, Grown
    <2>3. \A o \in Objects : obj'[o].prop \in Born' \cup {None} BY <1>3 DEF Grown
    <2>4. /\ lost' \subseteq Born' /\ script' \subseteq Born' /\ pending'.of \in Born' \cup {None}
          /\ \A i \in 1 .. Len(frames') : frames'[i].args \subseteq Born'
      BY <1>3 DEF Known
    <2> QED BY <2>1, <2>2, <2>3, <2>4 DEF BornInv
  <1>6. RefInv'
    <2>1. \A q, r \in Refs : q < r /\ refs'[q].st = "none" => refs'[r].st = "none"
      BY DEF RefInv, ListsStay
    <2>2. ASSUME NEW r \in Refs, refs'[r].jval # None
          PROVE  refs'[r].st = "live" /\ refs'[r].jval \in Live' /\ LinkedBack(r)' /\ LinkedOn(r)'
      <3>1. /\ refs[r].jval # None /\ refs'[r].st = refs[r].st /\ refs'[r].jval = refs[r].jval
            /\ refs'[r].prev = refs[r].prev /\ refs'[r].next = refs[r].next
        BY <2>2 DEF ListsStay
      <3>2. refs[r].st = "live" /\ refs[r].jval \in Live /\ LinkedBack(r) /\ LinkedOn(r)
        BY <3>1 DEF RefInv
      <3>3. refs[r].jval \in Objects BY <3>2 DEF Live
      <3>4. /\ obj'[refs[r].jval].refStart = obj[refs[r].jval].refStart
            /\ obj'[refs[r].jval].refEnd = obj[refs[r].jval].refEnd
        BY <3>3 DEF Grown
      <3>5. refs[r].prev \in Refs \cup {None} /\ refs[r].next \in Refs \cup {None}
        <4>1. refs[r] \in RefType BY DEF HeapTypes
        <4> QED BY <4>1 DEF RefType
      <3>6. LinkedBack(r)'
        <4>1. CASE refs[r].prev = None BY <3>1, <3>2, <3>4, <4>1 DEF LinkedBack
        <4>2. CASE refs[r].prev # None
          <5> DEFINE p == refs[r].prev
          <5>1. p \in Refs /\ p < r /\ refs[p].jval = refs[r].jval /\ refs[p].next = r
            BY <3>2, <3>5, <4>2 DEF LinkedBack
          <5>2. refs'[p].jval = refs[r].jval /\ refs'[p].next = r BY <3>1, <5>1 DEF ListsStay
          <5> QED BY <3>1, <4>2, <5>1, <5>2 DEF LinkedBack
        <4> QED BY <4>1, <4>2
      <3>7. LinkedOn(r)'
        <4>1. CASE refs[r].next = None BY <3>1, <3>2, <3>4, <4>1 DEF LinkedOn
        <4>2. CASE refs[r].next # None
          <5> DEFINE n == refs[r].next
          <5>1. n \in Refs /\ refs[n].jval = refs[r].jval /\ refs[n].prev = r
            BY <3>2, <3>5, <4>2 DEF LinkedOn
          <5>2. refs'[n].jval = refs[r].jval /\ refs'[n].prev = r BY <3>1, <5>1 DEF ListsStay
          <5> QED BY <3>1, <4>2, <5>2 DEF LinkedOn
        <4> QED BY <4>1, <4>2
      <3> QED BY <1>4, <3>1, <3>2, <3>6, <3>7
    <2>3. ASSUME NEW o \in Live'
          PROVE  /\ obj'[o].refStart # None => /\ refs'[obj'[o].refStart].jval = o
                                               /\ refs'[obj'[o].refStart].prev = None
                 /\ obj'[o].refEnd # None => /\ refs'[obj'[o].refEnd].jval = o
                                             /\ refs'[obj'[o].refEnd].next = None
                 /\ obj'[o].refStart = None <=> obj'[o].refEnd = None
      <3>1. o \in Objects /\ obj'[o].refStart = obj[o].refStart /\ obj'[o].refEnd = obj[o].refEnd
        BY DEF Live, Grown
      <3>2. CASE o \in K
        <4>1. obj[o].refStart = None /\ obj[o].refEnd = None BY <3>1, <3>2 DEF Grown, BornInv
        <4> QED BY <3>1, <4>1
      <3>3. CASE o \in Live
        <4>1. obj[o].refStart \in Refs \cup {None} /\ obj[o].refEnd \in Refs \cup {None}
          <5>1. obj[o] \in ObjType BY <3>1 DEF HeapTypes
          <5> QED BY <5>1 DEF ObjType
        <4>2. /\ obj[o].refStart # None =>
                   refs[obj[o].refStart].jval = o /\ refs[obj[o].refStart].prev = None
              /\ obj[o].refEnd # None =>
                   refs[obj[o].refEnd].jval = o /\ refs[obj[o].refEnd].next = None
              /\ obj[o].refStart = None <=> obj[o].refEnd = None
          BY <3>3 DEF RefInv
        <4>3. o # None BY <3>1, NapiAssumption DEF Objects, None
        <4> QED BY <3>1, <4>1, <4>2, <4>3 DEF ListsStay
      <3> QED BY <1>4, <3>2, <3>3
    <2> QED BY ONLY <2>1, <2>2, <2>3 DEF RefInv
  <1> QED BY <1>1, <1>5, <1>6

\* A step of this kind keeps what is known of the heap.
LEMMA HeapStep ==
    ASSUME StackInv, HeapInv, NEW K, Grown(K), Known(K), ListsStay, CallInv', CountsMove
    PROVE  HeapInv'
  <1>1. HeapTypes' /\ BornInv' /\ RefInv' BY ShapeKept DEF HeapInv
  <1>2. CountInv'
    <2> SUFFICES ASSUME NEW o \in Objects \ lost' PROVE obj'[o].rc = Owners(o)'
      BY DEF CountInv
    <2>1. o \in Objects \ lost BY DEF CountsMove
    <2>2. obj[o].rc = Owners(o) BY <2>1 DEF HeapInv, CountInv
    <2>3. Owners(o)' = Owners(o) + (obj'[o].rc - obj[o].rc) BY DEF CountsMove
    <2>4. Owners(o) \in Nat /\ obj[o].rc \in Int BY <2>1, OwnersNumber DEF HeapInv
    <2>5. obj'[o].rc \in Int
      <3>1. obj'[o] \in ObjType BY DEF Grown
      <3> QED BY <3>1 DEF ObjType
    <2> HIDE DEF Owners
    <2> QED BY <2>2, <2>3, <2>4, <2>5
  <1> QED BY <1>1, <1>2 DEF HeapInv

\* A call of the addon that leaves references, frames and the pending exception alone:
\* the counts move with the handles.
LEMMA HandleStep ==
    ASSUME StackInv, StackInv', HeapInv, UNCHANGED <<refs, frames, pending>>, NEW K, Grown(K),
           script' \subseteq Born \cup K, lost \subseteq lost', lost' \subseteq Born \cup K,
           \A o \in Objects \ lost' :
               SumOf(Handles(scopes', o)) = SumOf(Handles(scopes, o)) + (obj'[o].rc - obj[o].rc)
    PROVE  HeapInv'
  <1>1. Known(K) BY DEF Known, HeapInv, BornInv
  <1>2. ListsStay BY DEF ListsStay, HeapInv, HeapTypes
  <1>3. CallInv' BY DEF HeapInv, CallInv
  <1>4. CountsMove
    <2> SUFFICES ASSUME NEW o \in Objects \ lost'
                 PROVE  Owners(o)' = Owners(o) + (obj'[o].rc - obj[o].rc)
      BY DEF CountsMove
    <2>1. /\ scopes \in Seq(ScopeType) /\ frames \in Seq(FrameType) /\ refs \in [Refs -> RefType]
          /\ scopes' \in Seq(ScopeType)
      BY DEF StackInv, StackTypes, HeapInv, HeapTypes
    <2>2. /\ SumOf(Handles(scopes, o)) \in Nat /\ SumOf(Counts(refs, o)) \in Nat
          /\ SumOf(Exports(frames, o)) \in Nat /\ SumOf(Handles(scopes', o)) \in Nat
      BY <2>1, OwnersAre
    <2>3. obj'[o].rc \in Int /\ obj[o].rc \in Int
      <3>1. obj'[o] \in ObjType /\ obj[o] \in ObjType BY DEF Grown, HeapInv, HeapTypes
      <3> QED BY <3>1 DEF ObjType
    <2> DEFINE h == SumOf(Handles(scopes, o))
               k == SumOf(Handles(scopes', o))
               c == SumOf(Counts(refs, o))
               x == SumOf(Exports(frames, o))
               p == IF pending.of = o THEN 1 ELSE 0
               a == obj[o].rc
               b == obj'[o].rc
    <2>4. Owners(o) = h + c + p + x /\ Owners(o)' = k + c + p + x BY DEF Owners
    <2>5. h \in Nat /\ k \in Nat /\ c \in Nat /\ x \in Nat /\ p \in Nat /\ a \in Int /\ b \in Int
      BY <2>2, <2>3
    <2>6. k = h + (b - a) OBVIOUS
    <2> HIDE DEF h, k, c, x, p, a, b
    <2>7. k + c + p + x = h + c + p + x + (b - a) BY ONLY <2>5, <2>6
    <2> QED BY <2>4, <2>7 DEF a, b
  <1> QED BY <1>1, <1>2, <1>3, <1>4, HeapStep

\* A new object is the least one that is not born, and nothing owns a count of it.
LEMMA FreshIs ==
    ASSUME BornInv, NEW f \in Fresh
    PROVE  /\ f \in Objects \ Born /\ obj[f].rc = 0
           /\ \A p \in Objects : p < f => p \in Born
  <1>1. f \in Objects \ Born BY DEF Fresh, Born
  <1>2. ASSUME NEW p \in Objects, p < f PROVE p \in Born
    <2>1. p \in 1 .. f - 1 BY <1>1, <1>2, NapiAssumption DEF Objects
    <2> QED BY <2>1 DEF Fresh, Born
  <1> QED BY <1>1, <1>2 DEF BornInv

\* Nothing is born in a step that changes only counts.
LEMMA NoneBorn ==
    ASSUME HeapInv, obj' \in [Objects -> ObjType],
           \A o \in Objects : Alike(obj'[o], obj[o]) /\ (o \notin Born => obj'[o].rc = obj[o].rc)
    PROVE  Grown({})
  <1>1. \A o \in Objects : obj[o].prop \in Born \cup {None} BY DEF HeapInv, BornInv
  <1> QED BY <1>1 DEF Grown, Alike

\* The values that an addon uses are born, and so is what script, exception and
\* arguments name.
LEMMA UsableBorn == Usable \subseteq Born /\ Live \subseteq Born
  BY DEF Usable, Live, Born

\* A new object that the current scope owns.
LEMMA FreshMade ==
    ASSUME StackInv, HeapInv, Len(scopes) > 0, NEW f \in Fresh, Newborn(obj, obj', f),
           obj'[f].prop \in Born \cup {None}, scopes' = HandleIn(scopes, f)
    PROVE  Grown({f}) /\ \A o \in Objects :
             SumOf(Handles(scopes', o)) = SumOf(Handles(scopes, o)) + (obj'[o].rc - obj[o].rc)
  <1>1. /\ f \in Objects \ Born /\ obj[f].rc = 0 /\ \A p \in Objects : p < f => p \in Born
    BY FreshIs DEF HeapInv
  <1>2. Grown({f})
    <2>1. \A o \in Objects : obj[o].prop \in Born \cup {None} BY DEF HeapInv, BornInv
    <2> QED BY <1>1, <2>1 DEF Grown, Newborn
  <1>3. scopes \in Seq(ScopeType) BY DEF StackInv, StackTypes
  <1>4. ASSUME NEW o \in Objects
        PROVE  SumOf(Handles(scopes', o)) = SumOf(Handles(scopes, o)) + (obj'[o].rc - obj[o].rc)
    <2>1. SumOf(Handles(scopes', o)) = SumOf(Handles(scopes, o)) + One(o, f)
      BY <1>1, <1>3, HandleCounts
    <2>2. obj[o].rc \in Int
      <3>1. obj[o] \in ObjType BY DEF HeapInv, HeapTypes
      <3> QED BY <3>1 DEF ObjType
    <2>3. obj'[o].rc - obj[o].rc = One(o, f)
      <3>1. CASE o = f BY <1>1, <3>1 DEF Newborn, One
      <3>2. CASE o # f BY <2>2, <3>2 DEF Newborn, One
      <3> QED BY <3>1, <3>2
    <2> QED BY <2>1, <2>3
  <1> QED BY <1>2, <1>4

\* A call that makes one object, which the current scope owns.
LEMMA FreshStep ==
    ASSUME StackInv, StackInv', HeapInv, InAddon, NEW f \in Fresh, Newborn(obj, obj', f),
           obj'[f].prop \in Born \cup {None}, scopes' = HandleIn(scopes, f),
           UNCHANGED <<refs, frames, pending, script, lost>>
    PROVE  HeapInv'
  <1>1. Len(scopes) > 0 BY TopHasScope
  <1>2. Grown({f}) /\ \A o \in Objects :
          SumOf(Handles(scopes', o)) = SumOf(Handles(scopes, o)) + (obj'[o].rc - obj[o].rc)
    BY <1>1, FreshMade
  <1>3. script' \subseteq Born \cup {f} /\ lost \subseteq lost' /\ lost' \subseteq Born \cup {f}
    BY DEF HeapInv, BornInv
  <1> QED BY <1>2, <1>3, HandleStep

\* A step of the heap that leaves the counts, the scopes and the frames alone.
LEMMA AsideStep ==
    ASSUME StackInv, StackInv', HeapInv, obj' \in [Objects -> ObjType],
           \A o \in Objects :
               /\ obj'[o].st = obj[o].st /\ obj'[o].rc = obj[o].rc
               /\ obj'[o].refStart = obj[o].refStart /\ obj'[o].refEnd = obj[o].refEnd
               /\ obj'[o].prop \in Born \cup {None},
           \A o \in Objects : SumOf(Handles(scopes', o)) = SumOf(Handles(scopes, o)),
           script' \subseteq Born, UNCHANGED <<refs, frames, pending, lost>>
    PROVE  HeapInv'
  <1>1. Grown({}) BY DEF Grown
  <1>2. ASSUME NEW o \in Objects
        PROVE  SumOf(Handles(scopes', o)) = SumOf(Handles(scopes, o)) + (obj'[o].rc - obj[o].rc)
    <2>1. obj[o].rc \in Int
      <3>1. obj[o] \in ObjType BY DEF HeapInv, HeapTypes
      <3> QED BY <3>1 DEF ObjType
    <2>2. SumOf(Handles(scopes, o)) \in Nat BY HandlesAre DEF StackInv, StackTypes
    <2>3. obj'[o].rc - obj[o].rc = 0 BY <2>1
    <2> QED BY <2>2, <2>3
  <1>3. script' \subseteq Born \cup {} /\ lost \subseteq lost' /\ lost' \subseteq Born \cup {}
    BY DEF HeapInv, BornInv
  <1> QED BY <1>1, <1>2, <1>3, HandleStep

\* One more count of an object, and one more handle.
LEMMA AcquireStep ==
    ASSUME StackInv, StackInv', HeapInv, Len(scopes) > 0, NEW x \in Born,
           scopes' = HandleIn(scopes, x), obj' = Acquired(obj, x)
    PROVE  /\ Grown({})
           /\ \A o \in Objects :
                SumOf(Handles(scopes', o)) = SumOf(Handles(scopes, o)) + (obj'[o].rc - obj[o].rc)
  <1>1. x \in Objects /\ obj \in [Objects -> ObjType] /\ scopes \in Seq(ScopeType)
    BY DEF Born, HeapInv, HeapTypes, StackInv, StackTypes
  <1>2. /\ obj' \in [Objects -> ObjType]
        /\ \A o \in Objects : obj'[o].rc = obj[o].rc + One(o, x) /\ Alike(obj'[o], obj[o])
    BY <1>1, AcquiredIs
  <1>3. \A o \in Objects : obj[o].rc \in Int BY <1>1 DEF ObjType
  <1>4. Grown({})
    <2>1. \A o \in Objects : o \notin Born => obj'[o].rc = obj[o].rc BY <1>2, <1>3 DEF One
    <2> QED BY <1>2, <2>1, NoneBorn
  <1>5. ASSUME NEW o \in Objects
        PROVE  SumOf(Handles(scopes', o)) = SumOf(Handles(scopes, o)) + (obj'[o].rc - obj[o].rc)
    <2>1. SumOf(Handles(scopes', o)) = SumOf(Handles(scopes, o)) + One(o, x)
      BY <1>1, HandleCounts
    <2>2. obj'[o].rc - obj[o].rc = One(o, x) BY <1>2, <1>3 DEF One
    <2> QED BY <2>1, <2>2
  <1> QED BY <1>4, <1>5

\* napi_set_property and its kin
LEMMA SetPropertyHeap ==
    ASSUME StackInv, StackInv', HeapInv, SetData \/ DeleteProperty PROVE HeapInv'
  <1>1. PICK x \in Usable, p \in Usable \cup {None} : obj' = PropSet(obj, x, p)
    BY DEF SetData, DeleteProperty, PropSet
  <1>2. UNCHANGED <<refs, scopes, frames, pending, script, lost>> BY DEF SetData, DeleteProperty
  <1>3. x \in Objects /\ p \in Born \cup {None} /\ Born \subseteq Objects
    BY UsableBorn DEF Born
  <1>4. obj \in [Objects -> ObjType] BY DEF HeapInv, HeapTypes
  <1>5. /\ obj' \in [Objects -> ObjType] /\ obj'[x].prop = p
        /\ \A o \in Objects : o # x => obj'[o] = obj[o]
        /\ \A o \in Objects : /\ obj'[o].st = obj[o].st /\ obj'[o].rc = obj[o].rc
                              /\ obj'[o].refStart = obj[o].refStart
                              /\ obj'[o].refEnd = obj[o].refEnd
    BY <1>1, <1>3, <1>4, PropSetIs
  <1>6. \A o \in Objects : obj'[o].prop \in Born \cup {None} BY <1>3, <1>5 DEF HeapInv, BornInv
  <1>7. script' \subseteq Born BY <1>2 DEF HeapInv, BornInv
  <1> QED BY <1>2, <1>5, <1>6, <1>7, AsideStep

\* napi_get_property and its kin
LEMMA GetPropertyHeap ==
    ASSUME StackInv, StackInv', HeapInv, GetData PROVE HeapInv'
  <1>0. InAddon /\ UNCHANGED <<refs, frames, pending, script, lost>> BY DEF GetData, Api
  <1>1. Len(scopes) > 0 BY <1>0, TopHasScope
  <1>2. ASSUME NEW x \in Born, scopes' = HandleIn(scopes, x), obj' = Acquired(obj, x)
        PROVE  HeapInv'
    <2>1. Grown({}) /\ \A o \in Objects :
            SumOf(Handles(scopes', o)) = SumOf(Handles(scopes, o)) + (obj'[o].rc - obj[o].rc)
      BY <1>1, <1>2, AcquireStep
    <2>2. script' \subseteq Born \cup {} /\ lost \subseteq lost' /\ lost' \subseteq Born \cup {}
      BY <1>0 DEF HeapInv, BornInv
    <2> QED BY <1>0, <2>1, <2>2, HandleStep
  <1>4. ASSUME NEW o \in Usable, obj[o].prop # None, scopes' = HandleIn(scopes, obj[o].prop),
               obj' = Acquired(obj, obj[o].prop)
        PROVE  HeapInv'
    <2>1. o \in Objects BY UsableBorn DEF Born
    <2>2. obj[o].prop \in Born BY <1>4, <2>1 DEF HeapInv, BornInv
    <2> QED BY <1>2, <1>4, <2>2
  <1> QED BY <1>4 DEF GetData

\* The calls that make one object
LEMMA CreateHeap ==
    ASSUME StackInv, StackInv', HeapInv,
           \/ CreateArray \/ CreateExternalArraybuffer \/ CreateExternal \/ CreateTypedarray
           \/ CreateError \/ GetPropertyNames \/ CreateFunction
    PROVE  HeapInv'
  <1>0. InAddon /\ UNCHANGED <<refs, frames, pending, script, lost>>
    BY DEF CreateArray, CreateExternalArraybuffer, CreateExternal, CreateTypedarray,
           CreateError, GetPropertyNames, CreateFunction, Api
  <1>1. PICK f \in Fresh :
          /\ CreateHandle(f)
          /\ \/ obj' = Created(obj, f)
             \/ obj' = WrapSet(Created(obj, f), f, "data")
             \/ obj' = WrapSet(Created(obj, f), f, "wrap")
             \/ \E b \in Usable : obj' = PropSet(Created(obj, f), f, b)
    BY DEF CreateArray, CreateExternalArraybuffer, CreateExternal, CreateTypedarray,
           CreateError, GetPropertyNames, CreateFunction, WrapSet, PropSet
  <1>2. f \in Objects /\ obj \in [Objects -> ObjType] BY DEF Fresh, HeapInv, HeapTypes
  <1> DEFINE c == Created(obj, f)
  <1>3. Newborn(obj, c, f) /\ c[f].prop = obj[f].prop BY <1>2, CreatedIs
  <1> HIDE DEF c
  <1>4. c \in [Objects -> ObjType] /\ c[f].prop \in Born \cup {None}
    BY <1>2, <1>3 DEF Newborn, HeapInv, BornInv
  <1>5. Newborn(obj, obj', f) /\ obj'[f].prop \in Born \cup {None}
    <2>1. CASE obj' = c BY <1>3, <1>4, <2>1
    <2>2. ASSUME NEW w \in {"none", "wrap", "data"}, obj' = WrapSet(c, f, w)
          PROVE  Newborn(obj, obj', f) /\ obj'[f].prop \in Born \cup {None}
      <3>1. /\ obj' \in [Objects -> ObjType] /\ \A o \in Objects : o # f => obj'[o] = c[o]
            /\ obj'[f].rc = c[f].rc /\ Alike(obj'[f], c[f])
        BY <1>2, <1>4, <2>2, WrapSetIs
      <3> QED BY <1>3, <1>4, <3>1 DEF Newborn, Alike
    <2>3. ASSUME NEW b \in Usable, obj' = PropSet(c, f, b)
          PROVE  Newborn(obj, obj', f) /\ obj'[f].prop \in Born \cup {None}
      <3>0. b \in Born /\ b \in Objects BY UsableBorn DEF Born
      <3>1. /\ obj' \in [Objects -> ObjType] /\ \A o \in Objects : o # f => obj'[o] = c[o]
            /\ obj'[f].prop = b /\ obj'[f].rc = c[f].rc /\ obj'[f].st = c[f].st
            /\ obj'[f].refStart = c[f].refStart /\ obj'[f].refEnd = c[f].refEnd
        BY <1>2, <1>4, <2>3, <3>0, PropSetIs
      <3> QED BY <1>3, <3>0, <3>1 DEF Newborn
    <2> QED BY <1>1, <2>1, <2>2, <2>3 DEF c
  <1> QED BY <1>0, <1>1, <1>5, FreshStep DEF CreateHandle

\* The objects behind a new one are not born either.
LEMMA NextUnborn ==
    ASSUME BornInv, NEW f \in Objects \ Born, NEW g \in Objects, f < g
    PROVE  g \in Objects \ Born /\ obj[g].rc = 0
  <1>1. g \notin Born BY DEF BornInv
  <1> QED BY <1>1 DEF BornInv

\* napi_define_properties
LEMMA DefinePropertiesHeap ==
    ASSUME StackInv, StackInv', HeapInv, DefineProperties PROVE HeapInv'
  <1>0. InAddon /\ UNCHANGED <<refs, frames, pending, script>> BY DEF DefineProperties, Api
  <1>1. PICK x \in Usable, f \in Fresh :
          /\ scopes' = HandleIn(scopes, f)
          /\ \/ obj' = PropSet(Created(obj, f), x, f) /\ lost' = lost
             \/ /\ f + 1 \in Objects
                /\ obj' = Created(Created(obj, f), f + 1)
                /\ lost' = lost \cup {f + 1}
    BY DEF DefineProperties, PropDescToJdesc, CreateHandle, PropSet
  <1>2. /\ f \in Objects \ Born /\ obj[f].rc = 0 /\ \A p \in Objects : p < f => p \in Born
    BY FreshIs DEF HeapInv
  <1>3. obj \in [Objects -> ObjType] /\ x \in Objects /\ x \in Born
    BY UsableBorn DEF Born, HeapInv, HeapTypes
  <1> DEFINE c == Created(obj, f)
  <1>4. Newborn(obj, c, f) /\ c[f].prop = obj[f].prop BY <1>2, <1>3, CreatedIs
  <1>5. scopes \in Seq(ScopeType) /\ Len(scopes) > 0 BY <1>0, TopHasScope DEF StackInv, StackTypes
  <1>6. \A o \in Objects : SumOf(Handles(scopes', o)) = SumOf(Handles(scopes, o)) + One(o, f)
    BY <1>1, <1>2, <1>5, HandleCounts
  <1>7. \A o \in Objects : obj[o].rc \in Int /\ obj[o].prop \in Born \cup {None}
    BY <1>3 DEF ObjType, HeapInv, BornInv
  <1>8. script' \subseteq Born /\ lost \subseteq Born BY <1>0 DEF HeapInv, BornInv
  <1> HIDE DEF c
  <1>9. CASE obj' = PropSet(c, x, f) /\ lost' = lost
    <2>1. /\ obj' \in [Objects -> ObjType] /\ obj'[x].prop = f
          /\ \A o \in Objects : o # x => obj'[o] = c[o]
          /\ \A o \in Objects : /\ obj'[o].st = c[o].st /\ obj'[o].rc = c[o].rc
                                /\ obj'[o].refStart = c[o].refStart
                                /\ obj'[o].refEnd = c[o].refEnd
      BY <1>2, <1>3, <1>4, <1>9, PropSetIs DEF Newborn
    <2>2. \A o \in Objects : obj'[o].prop \in Born \cup {f} \cup {None}
      BY <1>2, <1>4, <1>7, <2>1 DEF Newborn
    <2>3. Grown({f}) BY <1>2, <1>4, <2>1, <2>2 DEF Grown, Newborn
    <2>4. ASSUME NEW o \in Objects
          PROVE  SumOf(Handles(scopes', o)) = SumOf(Handles(scopes, o)) + (obj'[o].rc - obj[o].rc)
      <3>1. obj'[o].rc - obj[o].rc = One(o, f)
        <4>1. CASE o = f BY <1>2, <1>4, <2>1, <4>1 DEF Newborn, One
        <4>2. CASE o # f BY <1>4, <1>7, <2>1, <4>2 DEF Newborn, One
        <4> QED BY <4>1, <4>2
      <3> QED BY <1>6, <3>1
    <2>5. script' \subseteq Born \cup {f} /\ lost \subseteq lost' /\ lost' \subseteq Born \cup {f}
      BY <1>8, <1>9
    <2> QED BY <1>0, <2>3, <2>4, <2>5, HandleStep
  <1>10. CASE f + 1 \in Objects /\ obj' = Created(c, f + 1) /\ lost' = lost \cup {f + 1}
    <2>0. f \in Nat /\ f < f + 1 /\ f + 1 \in Objects /\ \A o \in Objects : o \in Nat
      BY <1>2, <1>10, NapiAssumption DEF Objects
    <2> DEFINE g == f + 1
    <2>1. g \in Objects \ Born /\ f # g BY <1>2, <2>0, NextUnborn DEF HeapInv
    <2>2. \A p \in Objects : p < g => p \in Born \cup {f} BY <1>2, <2>0
    <2> HIDE DEF g
    <2>3. Newborn(c, obj', g) /\ obj'[g].prop = c[g].prop
      BY <1>4, <1>10, <2>1, CreatedIs DEF Newborn, g
    <2>4. \A o \in Objects : obj'[o].prop \in Born \cup {None}
      BY <1>4, <1>7, <2>1, <2>3 DEF Newborn
    <2>5. Grown({f, g}) BY <1>2, <1>4, <2>1, <2>2, <2>3, <2>4 DEF Grown, Newborn
    <2>6. lost' = lost \cup {g} BY <1>10 DEF g
    <2>7. ASSUME NEW o \in Objects \ lost'
          PROVE  SumOf(Handles(scopes', o)) = SumOf(Handles(scopes, o)) + (obj'[o].rc - obj[o].rc)
      <3>1. o # g BY <2>6
      <3>2. obj'[o].rc - obj[o].rc = One(o, f)
        <4>1. CASE o = f BY <1>2, <1>4, <2>3, <3>1, <4>1 DEF Newborn, One
        <4>2. CASE o # f BY <1>4, <1>7, <2>3, <3>1, <4>2 DEF Newborn, One
        <4> QED BY <4>1, <4>2
      <3> QED BY <1>6, <3>2
    <2>8. /\ script' \subseteq Born \cup {f, g} /\ lost \subseteq lost'
          /\ lost' \subseteq Born \cup {f, g}
      BY <1>8, <2>6
    <2> QED BY <1>0, <2>5, <2>7, <2>8, HandleStep
  <1> QED BY <1>1, <1>9, <1>10 DEF c

\* napi_define_class
LEMMA DefineClassHeap ==
    ASSUME StackInv, StackInv', HeapInv, DefineClass PROVE HeapInv'
  <1>0. InAddon /\ UNCHANGED <<refs, frames, pending, script, lost>> BY DEF DefineClass, Api
  <1>1. PICK f \in Fresh :
          /\ f + 2 \in Objects
          /\ scopes' = HandleIn(HandleIn(HandleIn(scopes, f), f + 1), f + 2)
          /\ obj' = [Created(Created(Created(obj, f), f + 1), f + 2)
                          EXCEPT ![f].prop = f + 1, ![f + 1].prop = f + 2]
    BY DEF DefineClass
  <1>2. /\ f \in Objects \ Born /\ obj[f].rc = 0 /\ \A p \in Objects : p < f => p \in Born
    BY FreshIs DEF HeapInv
  <1>3. obj \in [Objects -> ObjType] BY DEF HeapInv, HeapTypes
  <1> DEFINE g == f + 1
             h == f + 2
  <1>4. /\ g \in Objects /\ h \in Objects /\ f < g /\ g < h /\ f < h
        /\ f # g /\ g # h /\ f # h
        /\ \A p \in Objects : (p < g => p < f \/ p = f) /\ (p < h => p < f \/ p = f \/ p = g)
    BY <1>1, <1>2, NapiAssumption DEF Objects
  <1>5. /\ scopes' = HandleIn(HandleIn(HandleIn(scopes, f), g), h)
        /\ obj' = [Created(Created(Created(obj, f), g), h) EXCEPT ![f].prop = g, ![g].prop = h]
    BY <1>1
  <1> HIDE DEF g, h
  <1>6. /\ g \in Objects \ Born /\ obj[g].rc = 0 /\ h \in Objects \ Born /\ obj[h].rc = 0
    BY <1>2, <1>4, NextUnborn DEF HeapInv
  <1> DEFINE b == Created(obj, f)
             c == Created(b, g)
             d == Created(c, h)
             e == PropSet(d, f, g)
  <1>7. Newborn(obj, b, f) /\ b[f].prop = obj[f].prop BY <1>2, <1>3, CreatedIs
  <1>8. Newborn(b, c, g) /\ c[g].prop = b[g].prop BY <1>4, <1>7, CreatedIs DEF Newborn
  <1>9. Newborn(c, d, h) /\ d[h].prop = c[h].prop BY <1>4, <1>8, CreatedIs DEF Newborn
  <1>10. obj' = PropSet(e, g, h) BY <1>5 DEF PropSet
  <1> HIDE DEF b, c, d
  <1>11. /\ e \in [Objects -> ObjType] /\ e[f].prop = g
         /\ \A o \in Objects : o # f => e[o] = d[o]
         /\ \A o \in Objects : /\ e[o].st = d[o].st /\ e[o].rc = d[o].rc
                               /\ e[o].refStart = d[o].refStart /\ e[o].refEnd = d[o].refEnd
    BY <1>2, <1>4, <1>9, PropSetIs DEF Newborn
  <1> HIDE DEF e
  <1>12. /\ obj' \in [Objects -> ObjType] /\ obj'[g].prop = h
         /\ \A o \in Objects : o # g => obj'[o] = e[o]
         /\ \A o \in Objects : /\ obj'[o].st = e[o].st /\ obj'[o].rc = e[o].rc
                               /\ obj'[o].refStart = e[o].refStart
                               /\ obj'[o].refEnd = e[o].refEnd
    BY <1>4, <1>10, <1>11, PropSetIs
  <1>13. \A o \in Objects : obj[o].rc \in Int /\ obj[o].prop \in Born \cup {None}
    BY <1>3 DEF ObjType, HeapInv, BornInv
  <1>14. ASSUME NEW o \in Objects
         PROVE  /\ obj'[o].refStart = obj[o].refStart /\ obj'[o].refEnd = obj[o].refEnd
                /\ o \in {f, g, h} => obj'[o].st = "live" /\ obj'[o].rc = 1
                /\ o \notin {f, g, h} => obj'[o].st = obj[o].st /\ obj'[o].rc = obj[o].rc
                /\ obj'[o].prop \in Born \cup {f, g, h} \cup {None}
    <2>1. /\ obj'[o].st = d[o].st /\ obj'[o].rc = d[o].rc
          /\ obj'[o].refStart = d[o].refStart /\ obj'[o].refEnd = d[o].refEnd
      BY <1>11, <1>12
    <2>2. /\ d[o].refStart = obj[o].refStart /\ d[o].refEnd = obj[o].refEnd
      BY <1>7, <1>8, <1>9 DEF Newborn
    <2>3. o \in {f, g, h} => d[o].st = "live" /\ d[o].rc = 1
      BY <1>4, <1>7, <1>8, <1>9 DEF Newborn
    <2>4. o \notin {f, g, h} => d[o] = obj[o] BY <1>7, <1>8, <1>9 DEF Newborn
    <2>5. d[o].prop = obj[o].prop BY <1>4, <1>7, <1>8, <1>9 DEF Newborn
    <2>6. obj'[o].prop \in Born \cup {f, g, h} \cup {None}
      BY <1>11, <1>12, <1>13, <2>5
    <2> QED BY <2>1, <2>2, <2>3, <2>4, <2>6
  <1>15. Grown({f, g, h}) BY <1>2, <1>4, <1>6, <1>12, <1>14 DEF Grown
  <1>16. scopes \in Seq(ScopeType) /\ Len(scopes) > 0 BY <1>0, TopHasScope DEF StackInv, StackTypes
  <1>17. ASSUME NEW o \in Objects
         PROVE  SumOf(Handles(scopes', o)) = SumOf(Handles(scopes, o)) + (obj'[o].rc - obj[o].rc)
    <2> DEFINE s == HandleIn(scopes, f)
               t == HandleIn(s, g)
    <2>1. /\ s \in Seq(ScopeType) /\ Len(s) = Len(scopes)
          /\ SumOf(Handles(s, o)) = SumOf(Handles(scopes, o)) + One(o, f)
      BY <1>2, <1>16, HandleCounts
    <2> HIDE DEF s
    <2>2. /\ t \in Seq(ScopeType) /\ Len(t) = Len(scopes)
          /\ SumOf(Handles(t, o)) = SumOf(Handles(s, o)) + One(o, g)
      BY <1>4, <1>16, <2>1, HandleCounts
    <2> HIDE DEF t
    <2>3. SumOf(Handles(HandleIn(t, h), o)) = SumOf(Handles(t, o)) + One(o, h)
      BY <1>4, <1>16, <2>2, HandleCounts
    <2>4. scopes' = HandleIn(t, h) BY <1>5 DEF s, t
    <2>5. SumOf(Handles(scopes, o)) \in Nat BY <1>16, HandlesAre
    <2>6. SumOf(Handles(scopes', o))
            = SumOf(Handles(scopes, o)) + (One(o, f) + One(o, g) + One(o, h))
      BY <2>1, <2>2, <2>3, <2>4, <2>5 DEF One
    <2>7. obj'[o].rc - obj[o].rc = One(o, f) + One(o, g) + One(o, h)
      <3>1. CASE o \in {f, g, h} BY <1>2, <1>4, <1>6, <1>14, <3>1 DEF One
      <3>2. CASE o \notin {f, g, h} BY <1>13, <1>14, <3>2 DEF One
      <3> QED BY <3>1, <3>2
    <2> QED BY <2>6, <2>7
  <1>18. /\ script' \subseteq Born \cup {f, g, h} /\ lost \subseteq lost'
         /\ lost' \subseteq Born \cup {f, g, h}
    BY <1>0 DEF HeapInv, BornInv
  <1> QED BY <1>0, <1>15, <1>17, <1>18, HandleStep

-----------------------------------------------------------------------------
(* References.                                                             *)

\* The list of an object holds its references: a walk along next meets no other one, and
\* it meets each, the oldest that it would miss being linked from the one before it.
LEMMA ListedExact ==
    ASSUME HeapTypes, RefInv, NEW o \in Live
    PROVE  Listed(o) = {r \in Refs : refs[r].jval = o}
  <1> DEFINE own == {r \in Refs : refs[r].jval = o}
             Closed(S) == /\ obj[o].refStart # None => obj[o].refStart \in S
                          /\ \A q \in S : refs[q].next # None => refs[q].next \in S
  <1>0. /\ o \in Objects /\ o # None
    BY NapiAssumption DEF Live, Objects, None
  <1>1. \A r \in Refs : refs[r].prev \in Refs \cup {None} /\ refs[r].next \in Refs \cup {None}
    <2> TAKE r \in Refs
    <2>1. refs[r] \in RefType BY DEF HeapTypes
    <2> QED BY <2>1 DEF RefType
  <1>2. obj[o].refStart \in Refs \cup {None}
    <2>1. obj[o] \in ObjType BY <1>0 DEF HeapTypes
    <2> QED BY <2>1 DEF ObjType
  <1>3. own \in SUBSET Refs /\ Closed(own)
    <2>1. obj[o].refStart # None => obj[o].refStart \in own BY <1>2 DEF RefInv
    <2>2. ASSUME NEW q \in own, refs[q].next # None PROVE refs[q].next \in own
      <3>1. LinkedOn(q) BY <1>0 DEF RefInv
      <3> QED BY <1>1, <2>2, <3>1 DEF LinkedOn
    <2> QED BY <2>1, <2>2
  <1>4. Listed(o) = {r \in Refs : \A S \in SUBSET Refs : Closed(S) => r \in S} BY DEF Listed
  <1>5. Listed(o) \subseteq own
    <2> HIDE DEF own, Closed
    <2> QED BY <1>3, <1>4
  <1>6. ASSUME NEW r \in own PROVE r \in Listed(o)
    <2> SUFFICES ASSUME NEW S \in SUBSET Refs, Closed(S) PROVE r \in S
      <3> HIDE DEF Closed
      <3> QED BY <1>4
    <2> DEFINE T == own \ S
    <2> SUFFICES ASSUME T # {} PROVE FALSE OBVIOUS
    <2>1. T \subseteq Nat BY NapiAssumption DEF Refs
    <2>2. PICK x \in T : \A y \in T : x <= y
      <3> HIDE DEF T
      <3> QED BY <2>1, LeastNat
    <2>3. x \in own /\ x \in Refs /\ x \notin S OBVIOUS
    <2>4. LinkedBack(x) BY <1>0, <2>3 DEF RefInv
    <2>5. CASE refs[x].prev = None BY <2>3, <2>4, <2>5, NapiAssumption DEF LinkedBack, Refs, None
    <2>6. CASE refs[x].prev # None
      <3> DEFINE p == refs[x].prev
      <3>1. p \in Refs BY <1>1, <2>3, <2>6
      <3>2. p < x /\ refs[p].jval = o /\ refs[p].next = x BY <2>3, <2>4, <2>6 DEF LinkedBack
      <3> HIDE DEF p
      <3>3. p \in own BY <3>1, <3>2
      <3>4. p \in S
        <4>1. ~(x <= p) BY <2>1, <2>3, <3>1, <3>2, NapiAssumption DEF Refs
        <4> QED BY <2>2, <3>3, <4>1
      <3>5. x # None BY <2>3, NapiAssumption DEF Refs, None
      <3> QED BY <2>3, <3>2, <3>4, <3>5
    <2> QED BY <2>5, <2>6
  <1> QED BY <1>5, <1>6

\* What is born stays as it is when only counts, lists, and what is live or gone change.
LEMMA BornSame ==
    ASSUME BornInv,
           \A o \in Objects : /\ obj'[o].st = "unborn" <=> obj[o].st = "unborn"
                              /\ obj'[o].prop = obj[o].prop
                              /\ o \notin Born => obj'[o] = obj[o],
           UNCHANGED <<frames, pending, script, lost>>
    PROVE  BornInv'
  <1>1. Born' = Born BY DEF Born
  <1> QED BY <1>1 DEF BornInv

\* The counts are right when they move with the references.
LEMMA RefCountStep ==
    ASSUME StackInv, HeapInv, HeapTypes', UNCHANGED <<scopes, frames, pending, lost>>,
           \A o \in Objects \ lost :
               SumOf(Counts(refs', o)) = SumOf(Counts(refs, o)) + (obj'[o].rc - obj[o].rc)
    PROVE  CountInv'
  <1> SUFFICES ASSUME NEW o \in Objects \ lost PROVE obj'[o].rc = Owners(o)'
    BY DEF CountInv
  <1>1. /\ scopes \in Seq(ScopeType) /\ frames \in Seq(FrameType)
        /\ refs \in [Refs -> RefType] /\ refs' \in [Refs -> RefType]
    BY DEF StackInv, StackTypes, HeapInv, HeapTypes
  <1>2. /\ SumOf(Handles(scopes, o)) \in Nat /\ SumOf(Counts(refs, o)) \in Nat
        /\ SumOf(Exports(frames, o)) \in Nat /\ SumOf(Counts(refs', o)) \in Nat
    BY <1>1, OwnersAre
  <1>3. obj'[o].rc \in Int /\ obj[o].rc \in Int
    <2>1. obj'[o] \in ObjType /\ obj[o] \in ObjType BY DEF HeapInv, HeapTypes
    <2> QED BY <2>1 DEF ObjType
  <1>4. obj[o].rc = Owners(o) BY DEF HeapInv, CountInv
  <1> DEFINE h == SumOf(Handles(scopes, o))
             k == SumOf(Counts(refs', o))
             c == SumOf(Counts(refs, o))
             x == SumOf(Exports(frames, o))
             p == IF pending.of = o THEN 1 ELSE 0
             a == obj[o].rc
             b == obj'[o].rc
  <1>5. a = h + c + p + x /\ Owners(o)' = h + k + p + x BY <1>4 DEF Owners
  <1>6. h \in Nat /\ k \in Nat /\ c \in Nat /\ x \in Nat /\ p \in Nat /\ a \in Int /\ b \in Int
    BY <1>2, <1>3
  <1>7. k = c + (b - a) OBVIOUS
  <1> HIDE DEF h, k, c, x, p, a, b
  <1>8. b = h + k + p + x BY ONLY <1>5, <1>6, <1>7
  <1> QED BY <1>5, <1>8 DEF b

\* What napi_create_reference does to the object.
LEMMA WithRefIs ==
    ASSUME NEW ob \in [Objects -> ObjType], NEW x \in Objects, NEW r \in Refs, NEW n \in Nat
    PROVE  /\ WithRef(ob, x, r, n) \in [Objects -> ObjType]
           /\ WithRef(ob, x, r, n)[x].rc = ob[x].rc + n
           /\ WithRef(ob, x, r, n)[x].st = ob[x].st /\ WithRef(ob, x, r, n)[x].prop = ob[x].prop
           /\ WithRef(ob, x, r, n)[x].refEnd = r
           /\ WithRef(ob, x, r, n)[x].refStart = IF ob[x].refStart = None THEN r ELSE ob[x].refStart
           /\ \A o \in Objects : o # x => WithRef(ob, x, r, n)[o] = ob[o]
  <1> DEFINE a == ob[x]
             m == a.rc + n
             s == IF a.refStart = None THEN r ELSE a.refStart
             v == [a EXCEPT !.rc = m, !.refEnd = r, !.refStart = s]
             t == WithRef(ob, x, r, n)
  <1>1. a \in ObjType OBVIOUS
  <1>2. a.rc \in Int /\ a.refStart \in Refs \cup {None} BY <1>1 DEF ObjType
  <1>3. m \in Int /\ s \in Refs \cup {None} BY <1>2
  <1>4. t = [ob EXCEPT ![x] = v] BY DEF WithRef
  <1> HIDE DEF a, m, s, t
  <1>5. /\ v \in ObjType /\ v.rc = m /\ v.refEnd = r /\ v.refStart = s /\ v.st = a.st
        /\ v.prop = a.prop
    <2> DEFINE u == [a EXCEPT !.rc = m]
               w == [u EXCEPT !.refEnd = r]
    <2>1. /\ u \in ObjType /\ u.rc = m /\ u.st = a.st /\ u.prop = a.prop
      BY ONLY <1>1, <1>3 DEF ObjType
    <2>2. v = [w EXCEPT !.refStart = s] OBVIOUS
    <2> HIDE DEF u, v
    <2>3. /\ w \in ObjType /\ w.rc = u.rc /\ w.st = u.st /\ w.prop = u.prop /\ w.refEnd = r
      BY ONLY <2>1, r \in Refs DEF ObjType
    <2> HIDE DEF w
    <2>4. /\ v \in ObjType /\ v.rc = w.rc /\ v.st = w.st /\ v.prop = w.prop
          /\ v.refEnd = w.refEnd /\ v.refStart = s
      BY ONLY <1>3, <2>2, <2>3 DEF ObjType
    <2> QED BY <2>1, <2>3, <2>4
  <1> HIDE DEF v
  <1>6. t \in [Objects -> ObjType] /\ t[x] = v /\ \A o \in Objects : o # x => t[o] = ob[o]
    BY <1>4, <1>5
  <1> QED BY <1>5, <1>6 DEF a, m, s, t

\* The fields of a reference and of the list of an object.
LEMMA RefFields ==
    ASSUME HeapTypes
    PROVE  /\ \A r \in Refs : /\ refs[r].prev \in Refs \cup {None}
                              /\ refs[r].next \in Refs \cup {None}
                              /\ refs[r].jval \in Objects \cup {None} /\ refs[r].count \in Nat
           /\ \A o \in Objects : /\ obj[o].refStart \in Refs \cup {None}
                                 /\ obj[o].refEnd \in Refs \cup {None} /\ obj[o].rc \in Int
           /\ \A r \in Refs : r \in Nat /\ r # None
           /\ \A o \in Objects : o # None
  <1>1. \A r \in Refs : /\ refs[r].prev \in Refs \cup {None} /\ refs[r].next \in Refs \cup {None}
                        /\ refs[r].jval \in Objects \cup {None} /\ refs[r].count \in Nat
    <2> TAKE r \in Refs
    <2>1. refs[r] \in RefType BY DEF HeapTypes
    <2> QED BY <2>1 DEF RefType
  <1>2. \A o \in Objects : /\ obj[o].refStart \in Refs \cup {None}
                           /\ obj[o].refEnd \in Refs \cup {None} /\ obj[o].rc \in Int
    <2> TAKE o \in Objects
    <2>1. obj[o] \in ObjType BY DEF HeapTypes
    <2> QED BY <2>1 DEF ObjType
  <1>3. \A r \in Refs : r \in Nat /\ r # None BY NapiAssumption DEF Refs, None
  <1>4. \A o \in Objects : o # None BY NapiAssumption DEF Objects, None
  <1> QED BY <1>1, <1>2, <1>3, <1>4

\* A new reference r with n counts is linked behind the last one of object x.
LEMMA LinkStep ==
    ASSUME StackInv, HeapInv, NEW x \in Live, NEW r \in NewRef, NEW n \in Nat,
           NEW ob \in [Objects -> ObjType],
           \A o \in Objects : ob[o].rc = obj[o].rc /\ Alike(ob[o], obj[o]),
           \A o \in Objects : o # x => ob[o] = obj[o],
           refs' = Linked(x, r, n), obj' = WithRef(ob, x, r, n),
           UNCHANGED <<scopes, frames, pending, script, lost>>
    PROVE  HeapInv'
  <1> USE DEF HeapInv
  <1>0. x \in Objects /\ r \in Refs /\ refs[r].st = "none" BY DEF Live, NewRef
  <1>1. /\ \A q \in Refs : /\ refs[q].prev \in Refs \cup {None}
                           /\ refs[q].next \in Refs \cup {None}
                           /\ refs[q].jval \in Objects \cup {None} /\ refs[q].count \in Nat
        /\ \A o \in Objects : /\ obj[o].refStart \in Refs \cup {None}
                              /\ obj[o].refEnd \in Refs \cup {None} /\ obj[o].rc \in Int
        /\ \A q \in Refs : q \in Nat /\ q # None
        /\ \A o \in Objects : o # None
    BY RefFields
  <1>2. /\ obj' \in [Objects -> ObjType]
        /\ obj'[x].rc = obj[x].rc + n /\ obj'[x].st = obj[x].st /\ obj'[x].prop = obj[x].prop
        /\ obj'[x].refEnd = r
        /\ obj'[x].refStart = IF obj[x].refStart = None THEN r ELSE obj[x].refStart
        /\ \A o \in Objects : o # x => obj'[o] = obj[o]
    BY <1>0, WithRefIs DEF Alike
  <1> DEFINE last == obj[x].refEnd
  <1>3. /\ refs'[r].st = "live" /\ refs'[r].jval = x /\ refs'[r].count = n
        /\ refs'[r].prev = last /\ refs'[r].next = None
    BY <1>0 DEF Linked
  <1>4. \A q \in Refs \ {r} :
          /\ refs'[q].st = refs[q].st /\ refs'[q].jval = refs[q].jval
          /\ refs'[q].count = refs[q].count /\ refs'[q].prev = refs[q].prev
          /\ refs'[q].next = IF q = last THEN r ELSE refs[q].next
    <2> TAKE q \in Refs \ {r}
    <2>1. refs[q] \in RefType BY DEF HeapTypes
    <2>2. refs'[q] = IF q = last THEN [refs[q] EXCEPT !.next = r] ELSE refs[q] BY DEF Linked
    <2> HIDE DEF last
    <2> QED BY <2>1, <2>2 DEF RefType
  <1>5. refs' \in [Refs -> RefType]
    <2> DEFINE v(q) == IF q = r THEN [st |-> "live", jval |-> x, count |-> n, prev |-> last, next |-> None]
                       ELSE IF q = last THEN [refs[q] EXCEPT !.next = r]
                       ELSE refs[q]
    <2>1. refs' = [q \in Refs |-> v(q)] BY DEF Linked
    <2>2. last \in Refs \cup {None} BY <1>0, <1>1
    <2> HIDE DEF last
    <2>3. ASSUME NEW q \in Refs PROVE v(q) \in RefType
      <3>1. refs[q] \in RefType BY DEF HeapTypes
      <3>2. CASE q = r BY ONLY <1>0, <2>2, <3>2, n \in Nat DEF RefType
      <3>3. CASE q # r BY ONLY <1>0, <3>1, <3>3 DEF RefType
      <3> QED BY <3>2, <3>3
    <2> HIDE DEF v
    <2> QED BY <2>1, <2>3
  <1>6. HeapTypes' BY <1>2, <1>5 DEF HeapTypes
  <1>7. x \in Born BY UsableBorn
  <1>8. BornInv' BY <1>2, <1>7, BornSame
  <1>9. CallInv' BY DEF CallInv
  <1>10. Live' = Live BY <1>0, <1>2 DEF Live
  <1>11. /\ refs[r].jval = None
         /\ \A q \in Refs : refs[q].jval # None => q # r /\ q < r
    <2>1. refs[r].jval = None BY <1>0 DEF RefInv
    <2>2. ASSUME NEW q \in Refs, refs[q].jval # None PROVE q # r /\ q < r
      <3>1. refs[q].st = "live" BY <2>2 DEF RefInv
      <3>2. q # r BY <1>0, <3>1
      <3>3. ~(r < q) BY <1>0, <3>1 DEF RefInv
      <3> QED BY <1>0, <1>1, <3>2, <3>3
    <2> QED BY <2>1, <2>2
  <1>12. /\ last \in Refs \cup {None}
         /\ last # None => refs[last].jval = x /\ refs[last].next = None
         /\ obj[x].refStart = None <=> last = None
         /\ obj[x].refStart # None => /\ refs[obj[x].refStart].jval = x
                                      /\ refs[obj[x].refStart].prev = None
    BY <1>0, <1>1 DEF RefInv
  <1>13. RefInv'
    <2> HIDE DEF last
    <2>1. \A p, q \in Refs : p < q /\ refs'[p].st = "none" => refs'[q].st = "none"
      <3> SUFFICES ASSUME NEW p \in Refs, NEW q \in Refs, p < q, refs'[p].st = "none"
                   PROVE  refs'[q].st = "none"
        OBVIOUS
      <3>1. p # r /\ refs[p].st = "none" BY <1>3, <1>4
      <3>2. q # r
        <4>1. \A y \in 1 .. r - 1 : refs[y].st # "none" BY DEF NewRef
        <4>2. p < r => p \in 1 .. r - 1 BY <1>0, NapiAssumption DEF Refs
        <4> QED BY <3>1, <4>1, <4>2
      <3> QED BY <1>4, <3>1, <3>2 DEF RefInv
    <2>2. ASSUME NEW q \in Refs, refs'[q].jval # None
          PROVE  refs'[q].st = "live" /\ refs'[q].jval \in Live' /\ LinkedBack(q)' /\ LinkedOn(q)'
      <3>1. CASE q = r
        <4>1. LinkedBack(r)'
          <5>1. CASE last = None BY <1>2, <1>3, <1>12, <5>1 DEF LinkedBack
          <5>2. CASE last # None
            <6>1. last \in Refs \ {r} /\ last < r BY <1>11, <1>12, <5>2, <1>0, <1>1
            <6>2. refs'[last].jval = x /\ refs'[last].next = r BY <1>4, <1>12, <5>2, <6>1
            <6> QED BY <1>3, <5>2, <6>1, <6>2 DEF LinkedBack
          <5> QED BY <5>1, <5>2
        <4>2. LinkedOn(r)' BY <1>2, <1>3 DEF LinkedOn
        <4> QED BY <1>3, <1>10, <3>1, <4>1, <4>2
      <3>2. CASE q # r
        <4>1. /\ refs'[q].st = refs[q].st /\ refs'[q].jval = refs[q].jval
              /\ refs'[q].prev = refs[q].prev
              /\ refs'[q].next = IF q = last THEN r ELSE refs[q].next
          BY <1>4, <3>2
        <4>2. refs[q].jval # None BY <2>2, <4>1
        <4>3. refs[q].st = "live" /\ refs[q].jval \in Live /\ LinkedBack(q) /\ LinkedOn(q)
          BY <4>2 DEF RefInv
        <4> DEFINE y == refs[q].jval
                   p == refs[q].prev
                   m == refs[q].next
        <4>4. y \in Objects /\ y # None /\ p \in Refs \cup {None} /\ m \in Refs \cup {None}
              /\ q # None
          BY <1>1, <4>2
        <4>5. LinkedBack(q)'
          <5>1. CASE p = None
            <6>1. obj[y].refStart = q BY <4>3, <5>1 DEF LinkedBack
            <6>2. obj'[y].refStart = q BY <1>2, <4>4, <6>1
            <6> QED BY <4>1, <5>1, <6>2 DEF LinkedBack
          <5>2. CASE p # None
            <6>1. p < q /\ refs[p].jval = y /\ refs[p].next = q BY <4>3, <5>2 DEF LinkedBack
            <6>2. p \in Refs \ {r} BY <1>11, <4>4, <5>2, <6>1
            <6>3. p # last BY <1>12, <4>4, <5>2, <6>1
            <6>4. refs'[p].jval = y /\ refs'[p].next = q BY <1>4, <6>1, <6>2, <6>3
            <6> QED BY <4>1, <5>2, <6>1, <6>4 DEF LinkedBack
          <5> QED BY <5>1, <5>2
        <4>6. LinkedOn(q)'
          <5>1. CASE q = last
            <6>1. y = x BY <1>12, <4>4, <5>1
            <6>2. refs'[q].next = r /\ r # None BY <4>1, <5>1, <1>0, <1>1
            <6> QED BY <1>3, <4>1, <5>1, <6>1, <6>2 DEF LinkedOn
          <5>2. CASE q # last /\ m = None
            <6>1. obj[y].refEnd = q BY <4>3, <5>2 DEF LinkedOn
            <6>2. y # x BY <5>2, <6>1 DEF last
            <6>3. obj'[y].refEnd = q BY <1>2, <4>4, <6>1, <6>2
            <6> QED BY <4>1, <5>2, <6>3 DEF LinkedOn
          <5>3. CASE q # last /\ m # None
            <6>1. refs[m].jval = y /\ refs[m].prev = q BY <4>3, <5>3 DEF LinkedOn
            <6>2. m \in Refs \ {r} BY <1>11, <4>4, <5>3, <6>1
            <6>3. refs'[m].jval = y /\ refs'[m].prev = q BY <1>4, <6>1, <6>2
            <6> QED BY <4>1, <5>3, <6>3 DEF LinkedOn
          <5> QED BY <5>1, <5>2, <5>3
        <4> QED BY <1>10, <4>1, <4>3, <4>5, <4>6
      <3> QED BY <3>1, <3>2
    <2>3. ASSUME NEW o \in Live'
          PROVE  /\ obj'[o].refStart # None => /\ refs'[obj'[o].refStart].jval = o
                                               /\ refs'[obj'[o].refStart].prev = None
                 /\ obj'[o].refEnd # None => /\ refs'[obj'[o].refEnd].jval = o
                                             /\ refs'[obj'[o].refEnd].next = None
                 /\ obj'[o].refStart = None <=> obj'[o].refEnd = None
      <3>0. o \in Live /\ o \in Objects BY <1>10 DEF Live
      <3>1. CASE o = x
        <4>1. CASE obj[x].refStart = None
          <5>1. obj'[x].refStart = r /\ last = None BY <1>2, <1>12, <4>1
          <5> QED BY <1>0, <1>1, <1>2, <1>3, <3>1, <5>1
        <4>2. CASE obj[x].refStart # None
          <5> DEFINE s == obj[x].refStart
          <5>1. s \in Refs \ {r} /\ obj'[x].refStart = s
            BY <1>0, <1>1, <1>2, <1>11, <1>12, <4>2
          <5>2. refs'[s].jval = x /\ refs'[s].prev = None BY <1>4, <1>12, <4>2, <5>1
          <5> QED BY <1>0, <1>1, <1>2, <1>3, <3>1, <4>2, <5>1, <5>2
        <4> QED BY <4>1, <4>2
      <3>2. CASE o # x
        <4> DEFINE s == obj[o].refStart
                   e == obj[o].refEnd
        <4>1. obj'[o].refStart = s /\ obj'[o].refEnd = e BY <1>2, <3>0, <3>2
        <4>2. /\ s # None => refs[s].jval = o /\ refs[s].prev = None
              /\ e # None => refs[e].jval = o /\ refs[e].next = None
              /\ s = None <=> e = None
          BY <3>0 DEF RefInv
        <4>3. s \in Refs \cup {None} /\ e \in Refs \cup {None} /\ o # None BY <1>1, <3>0
        <4> HIDE DEF s, e
        <4>4. s # None => refs'[s].jval = o /\ refs'[s].prev = None
          <5> HAVE s # None
          <5>1. s \in Refs \ {r} BY <1>11, <4>2, <4>3
          <5> QED BY <1>4, <4>2, <5>1
        <4>5. e # None => refs'[e].jval = o /\ refs'[e].next = None
          <5> HAVE e # None
          <5>1. e \in Refs \ {r} BY <1>11, <4>2, <4>3
          <5>2. e # last BY <1>12, <3>2, <4>2, <5>1, <1>1
          <5> QED BY <1>4, <4>2, <5>1, <5>2
        <4> QED BY <4>1, <4>2, <4>4, <4>5
      <3> QED BY <3>1, <3>2
    <2> QED BY ONLY <2>1, <2>2, <2>3 DEF RefInv
  <1>14. CountInv'
    <2>1. ASSUME NEW o \in Objects \ lost
          PROVE  SumOf(Counts(refs', o)) = SumOf(Counts(refs, o)) + (obj'[o].rc - obj[o].rc)
      <3>1. SumOf(Counts(refs', o)) = SumOf(Counts(refs, o))
               + (IF refs'[r].jval = o THEN refs'[r].count ELSE 0)
               - (IF refs[r].jval = o THEN refs[r].count ELSE 0)
        <4>1. refs \in [Refs -> RefType] BY DEF HeapTypes
        <4>2. \A q \in Refs : q # r => /\ (refs'[q].jval = o <=> refs[q].jval = o)
                                       /\ refs[q].jval = o => refs'[q].count = refs[q].count
          BY <1>4
        <4> QED BY <1>0, <1>5, <4>1, <4>2, CountsChange
      <3>2. SumOf(Counts(refs, o)) \in Nat BY CountsAre DEF HeapTypes
      <3>3. refs[r].jval # o BY <1>1, <1>11
      <3>4. CASE o = x BY <1>1, <1>2, <1>3, <3>1, <3>2, <3>3, <3>4
      <3>5. CASE o # x
        <4>1. obj'[o].rc - obj[o].rc = 0 BY <1>1, <1>2, <3>5
        <4> QED BY <1>3, <3>1, <3>2, <3>3, <3>5, <4>1
      <3> QED BY <3>4, <3>5
    <2> QED BY <1>6, <2>1, RefCountStep
  <1> QED BY <1>6, <1>8, <1>9, <1>13, <1>14

\* napi_create_reference
LEMMA CreateReferenceHeap ==
    ASSUME StackInv, HeapInv, CreateReference PROVE HeapInv'
  <1>1. PICK x \in Usable, r \in NewRef, n \in {0, 1} :
          refs' = Linked(x, r, n) /\ obj' = WithRef(obj, x, r, n)
    BY DEF CreateReference
  <1>2. x \in Live /\ n \in Nat BY DEF Usable
  <1>3. obj \in [Objects -> ObjType] BY DEF HeapInv, HeapTypes
  <1>4. \A o \in Objects : obj[o].rc = obj[o].rc /\ Alike(obj[o], obj[o]) BY DEF Alike
  <1>5. UNCHANGED <<scopes, frames, pending, script, lost>> BY DEF CreateReference
  <1> QED BY <1>1, <1>2, <1>3, <1>4, <1>5, LinkStep

\* napi_wrap
LEMMA WrapHeap ==
    ASSUME StackInv, StackInv', HeapInv, Wrap \/ RemoveWrap PROVE HeapInv'
  <1>0. UNCHANGED <<scopes, frames, pending, script, lost>> BY DEF Wrap, RemoveWrap
  <1>1. PICK x \in Usable, w \in {"none", "wrap", "data"} :
          \/ \E r \in NewRef : /\ refs' = Linked(x, r, 0)
                               /\ obj' = WithRef(WrapSet(obj, x, w), x, r, 0)
          \/ obj' = WrapSet(obj, x, w) /\ UNCHANGED refs
    BY DEF Wrap, RemoveWrap, WrapSet
  <1>2. x \in Live /\ x \in Objects BY DEF Usable, Live
  <1> DEFINE ob == WrapSet(obj, x, w)
  <1>3. /\ ob \in [Objects -> ObjType]
        /\ \A o \in Objects : o # x => ob[o] = obj[o]
        /\ \A o \in Objects : ob[o].rc = obj[o].rc /\ Alike(ob[o], obj[o])
    BY <1>2, WrapSetIs DEF HeapInv, HeapTypes
  <1> HIDE DEF ob
  <1>4. ASSUME NEW r \in NewRef, refs' = Linked(x, r, 0), obj' = WithRef(ob, x, r, 0)
        PROVE  HeapInv'
    <2>1. 0 \in Nat OBVIOUS
    <2> QED BY <1>0, <1>2, <1>3, <1>4, <2>1, LinkStep
  <1>5. CASE obj' = ob /\ UNCHANGED refs
    <2>1. \A o \in Objects : /\ obj'[o].st = obj[o].st /\ obj'[o].rc = obj[o].rc
                             /\ obj'[o].refStart = obj[o].refStart /\ obj'[o].refEnd = obj[o].refEnd
                             /\ obj'[o].prop \in Born \cup {None}
      BY <1>3, <1>5 DEF Alike, HeapInv, BornInv
    <2>2. script' \subseteq Born BY <1>0 DEF HeapInv, BornInv
    <2> QED BY <1>0, <1>3, <1>5, <2>1, <2>2, AsideStep
  <1> QED BY <1>1, <1>4, <1>5 DEF ob

\* What napi_delete_reference leaves: reference r is out of the list of object x.
LEMMA UnlinkStep ==
    ASSUME StackInv, HeapInv, NEW r \in Refs, refs[r].jval # None, Unlinked(r),
           UNCHANGED <<scopes, frames, pending, script, lost>>
    PROVE  HeapInv'
  <1> USE DEF HeapInv
  <1> DEFINE x == refs[r].jval
             p == refs[r].prev
             n == refs[r].next
  <1>1. /\ \A q \in Refs : /\ refs[q].prev \in Refs \cup {None}
                           /\ refs[q].next \in Refs \cup {None}
                           /\ refs[q].jval \in Objects \cup {None} /\ refs[q].count \in Nat
        /\ \A o \in Objects : /\ obj[o].refStart \in Refs \cup {None}
                              /\ obj[o].refEnd \in Refs \cup {None} /\ obj[o].rc \in Int
        /\ \A q \in Refs : q \in Nat /\ q # None
        /\ \A o \in Objects : o # None
    BY RefFields
  <1>2. x \in Live /\ x \in Objects /\ p \in Refs \cup {None} /\ n \in Refs \cup {None}
    BY <1>1 DEF RefInv, Live
  <1>3. /\ p = None => obj[x].refStart = r
        /\ p # None => p < r /\ refs[p].jval = x /\ refs[p].next = r
    BY DEF RefInv, LinkedBack
  <1>4. /\ n = None => obj[x].refEnd = r
        /\ n # None => refs[n].jval = x /\ refs[n].prev = r /\ r < n
    <2>1. /\ n = None => obj[x].refEnd = r
          /\ n # None => refs[n].jval = x /\ refs[n].prev = r
      BY DEF RefInv, LinkedOn
    <2>2. n # None => LinkedBack(n) BY <1>1, <1>2, <2>1 DEF RefInv
    <2> QED BY <1>1, <2>1, <2>2 DEF LinkedBack
  <1>5. p # r /\ n # r /\ (p # None => p # n)
    BY <1>1, <1>2, <1>3, <1>4
  <1> DEFINE skipped == [q \in Refs |->
                [refs[q] EXCEPT !.next = IF q = p THEN n ELSE @, !.prev = IF q = n THEN p ELSE @]]
             dead == [NoRef EXCEPT !.st = "deleted"]
             a == obj[x]
             v == [a EXCEPT !.rc = @ - refs[r].count, !.refStart = IF @ = r THEN n ELSE @,
                            !.refEnd = IF @ = r THEN p ELSE @]
  <1>6. refs' = [skipped EXCEPT ![r] = dead] BY DEF Unlinked
  <1>7. obj' = [obj EXCEPT ![x] = v] BY DEF Unlinked
  <1>8. /\ dead \in RefType /\ dead.st = "deleted" /\ dead.jval = None /\ dead.count = 0
        /\ dead.prev = None /\ dead.next = None
    BY DEF NoRef, RefType, None
  <1>9. ASSUME NEW q \in Refs
        PROVE  /\ skipped[q] \in RefType /\ skipped[q].st = refs[q].st
               /\ skipped[q].jval = refs[q].jval /\ skipped[q].count = refs[q].count
               /\ skipped[q].next = (IF q = p THEN n ELSE refs[q].next)
               /\ skipped[q].prev = (IF q = n THEN p ELSE refs[q].prev)
    <2> DEFINE b == refs[q]
               y == IF q = p THEN n ELSE b.next
               z == IF q = n THEN p ELSE b.prev
               s == skipped[q]
    <2>1. b \in RefType BY DEF HeapTypes
    <2>2. y \in Refs \cup {None} /\ z \in Refs \cup {None} BY <1>1, <1>2
    <2>3. s = [b EXCEPT !.next = y, !.prev = z] OBVIOUS
    <2> HIDE DEF b, y, z, s
    <2>4. /\ s \in RefType /\ s.st = b.st /\ s.jval = b.jval /\ s.count = b.count
          /\ s.next = y /\ s.prev = z
      BY ONLY <2>1, <2>2, <2>3 DEF RefType
    <2> QED BY <2>4 DEF b, y, z, s
  <1>10. DOMAIN skipped = Refs OBVIOUS
  <1>11. /\ a \in ObjType /\ a.rc \in Int /\ refs[r].count \in Nat
         /\ a.refStart \in Refs \cup {None} /\ a.refEnd \in Refs \cup {None}
    BY <1>1, <1>2 DEF HeapTypes
  <1>12. /\ v \in ObjType /\ v.rc = a.rc - refs[r].count /\ v.st = a.st /\ v.prop = a.prop
         /\ v.refStart = (IF a.refStart = r THEN n ELSE a.refStart)
         /\ v.refEnd = (IF a.refEnd = r THEN p ELSE a.refEnd)
    <2> DEFINE m == a.rc - refs[r].count
               s == IF a.refStart = r THEN n ELSE a.refStart
               e == IF a.refEnd = r THEN p ELSE a.refEnd
               u == [a EXCEPT !.rc = m]
               w == [u EXCEPT !.refStart = s]
    <2>1. m \in Int /\ s \in Refs \cup {None} /\ e \in Refs \cup {None} BY <1>2, <1>11
    <2>2. v = [w EXCEPT !.refEnd = e] OBVIOUS
    <2> HIDE DEF a, m, s, e, v
    <2>3. u \in ObjType /\ u.rc = m /\ u.st = a.st /\ u.prop = a.prop
      BY ONLY <1>11, <2>1 DEF ObjType
    <2> HIDE DEF u
    <2>4. w \in ObjType /\ w.rc = u.rc /\ w.st = u.st /\ w.prop = u.prop /\ w.refStart = s
      BY ONLY <2>1, <2>3 DEF ObjType
    <2> HIDE DEF w
    <2>5. /\ v \in ObjType /\ v.rc = w.rc /\ v.st = w.st /\ v.prop = w.prop
          /\ v.refStart = w.refStart /\ v.refEnd = e
      BY ONLY <2>1, <2>2, <2>4 DEF ObjType
    <2> QED BY <2>3, <2>4, <2>5 DEF m, s, e
  <1> HIDE DEF skipped, dead, v
  <1>13. /\ refs' \in [Refs -> RefType] /\ refs'[r] = dead
         /\ \A q \in Refs \ {r} : refs'[q] = skipped[q]
    <2>1. refs' = [q \in Refs |-> IF q = r THEN dead ELSE skipped[q]]
      BY <1>6, <1>10 DEF skipped
    <2> QED BY <1>8, <1>9, <2>1
  <1>14. /\ obj' \in [Objects -> ObjType] /\ obj'[x] = v
         /\ \A o \in Objects : o # x => obj'[o] = obj[o]
    BY <1>2, <1>7, <1>12 DEF HeapTypes
  <1>15. /\ refs'[r].st = "deleted" /\ refs'[r].jval = None
         /\ \A q \in Refs \ {r} :
              /\ refs'[q].st = refs[q].st /\ refs'[q].jval = refs[q].jval
              /\ refs'[q].count = refs[q].count
              /\ refs'[q].next = (IF q = p THEN n ELSE refs[q].next)
              /\ refs'[q].prev = (IF q = n THEN p ELSE refs[q].prev)
    BY <1>8, <1>9, <1>13
  <1>16. /\ obj'[x].rc = obj[x].rc - refs[r].count /\ obj'[x].st = obj[x].st
         /\ obj'[x].prop = obj[x].prop
         /\ obj'[x].refStart = (IF obj[x].refStart = r THEN n ELSE obj[x].refStart)
         /\ obj'[x].refEnd = (IF obj[x].refEnd = r THEN p ELSE obj[x].refEnd)
    BY <1>12, <1>14
  <1>17. HeapTypes' BY <1>13, <1>14 DEF HeapTypes
  <1>18. BornInv'
    <2>1. x \in Born BY <1>2, UsableBorn
    <2> QED BY <1>14, <1>16, <2>1, BornSame
  <1>19. CallInv' BY DEF CallInv
  <1>20. Live' = Live BY <1>2, <1>14, <1>16 DEF Live
  <1>21. CountInv'
    <2>1. ASSUME NEW o \in Objects \ lost
          PROVE  SumOf(Counts(refs', o)) = SumOf(Counts(refs, o)) + (obj'[o].rc - obj[o].rc)
      <3>1. SumOf(Counts(refs', o)) = SumOf(Counts(refs, o))
               + (IF refs'[r].jval = o THEN refs'[r].count ELSE 0)
               - (IF refs[r].jval = o THEN refs[r].count ELSE 0)
        <4>1. refs \in [Refs -> RefType] BY DEF HeapTypes
        <4>2. \A q \in Refs : q # r => /\ (refs'[q].jval = o <=> refs[q].jval = o)
                                       /\ refs[q].jval = o => refs'[q].count = refs[q].count
          BY <1>15
        <4> QED BY <1>13, <4>1, <4>2, CountsChange
      <3>2. SumOf(Counts(refs, o)) \in Nat BY CountsAre DEF HeapTypes
      <3>3. refs'[r].jval # o BY <1>1, <1>15
      <3>4. refs[r].count \in Nat /\ obj[o].rc \in Int BY <1>1
      <3>5. CASE o = x BY <1>16, <3>1, <3>2, <3>3, <3>4, <3>5
      <3>6. CASE o # x
        <4>1. obj'[o].rc - obj[o].rc = 0 BY <1>14, <3>4, <3>6
        <4> QED BY <3>1, <3>2, <3>3, <3>6, <4>1
      <3> QED BY <3>5, <3>6
    <2> QED BY <1>17, <2>1, RefCountStep
  <1>22. RefInv'
    <2> HIDE DEF x, p, n
    <2>0. refs[r].jval = x /\ refs[r].prev = p /\ refs[r].next = n /\ refs[r].st = "live" /\ x # None
      BY <1>1, <1>2 DEF x, p, n, RefInv
    <2>1. \A q, s \in Refs : q < s /\ refs'[q].st = "none" => refs'[s].st = "none"
      <3> SUFFICES ASSUME NEW q \in Refs, NEW s \in Refs, q < s, refs'[q].st = "none"
                   PROVE  refs'[s].st = "none"
        OBVIOUS
      <3>1. q # r /\ refs[q].st = "none" BY <1>15
      <3>2. refs[s].st = "none" BY <3>1 DEF RefInv
      <3> QED BY <1>15, <2>0, <3>2
    <2>2. ASSUME NEW q \in Refs, refs'[q].jval # None
          PROVE  refs'[q].st = "live" /\ refs'[q].jval \in Live' /\ LinkedBack(q)' /\ LinkedOn(q)'
      <3>1. /\ q # r /\ refs'[q].st = refs[q].st /\ refs'[q].jval = refs[q].jval
            /\ refs'[q].next = (IF q = p THEN n ELSE refs[q].next)
            /\ refs'[q].prev = (IF q = n THEN p ELSE refs[q].prev)
        BY <1>15, <2>2
      <3>2. refs[q].st = "live" /\ refs[q].jval \in Live /\ LinkedBack(q) /\ LinkedOn(q)
        BY <2>2, <3>1 DEF RefInv
      <3> DEFINE y == refs[q].jval
                 b == refs[q].prev
                 m == refs[q].next
      <3>3. y \in Objects /\ y # None /\ b \in Refs \cup {None} /\ m \in Refs \cup {None} /\ q # None
        BY <1>1, <2>2, <3>1
      <3>4. /\ b = None => obj[y].refStart = q
            /\ b # None => b < q /\ refs[b].jval = y /\ refs[b].next = q
        BY <3>2 DEF LinkedBack
      <3>5. /\ m = None => obj[y].refEnd = q
            /\ m # None => refs[m].jval = y /\ refs[m].prev = q
        BY <3>2 DEF LinkedOn
      <3>6. /\ obj[y].refStart = q => obj'[y].refStart = q
            /\ obj[y].refEnd = q => obj'[y].refEnd = q
        BY <1>14, <1>16, <3>1, <3>3
      <3> HIDE DEF y, b, m
      <3>7. LinkedBack(q)'
        <4>1. CASE q = n
          <5>1. y = x /\ b = r BY <1>4, <3>3, <4>1 DEF y, b
          <5>2. CASE p = None
            <6>1. obj'[x].refStart = n BY <1>3, <1>16, <5>2
            <6> QED BY <3>1, <4>1, <5>1, <5>2, <6>1 DEF LinkedBack, y
          <5>3. CASE p # None
            <6>1. p \in Refs \ {r} /\ p < q BY <1>1, <1>2, <1>3, <1>4, <1>5, <3>3, <4>1, <5>3
            <6>2. refs'[p].jval = x /\ refs'[p].next = n BY <1>3, <1>15, <5>3, <6>1
            <6> QED BY <3>1, <4>1, <5>1, <5>3, <6>1, <6>2 DEF LinkedBack, y
          <5> QED BY <5>2, <5>3
        <4>2. CASE q # n
          <5>1. refs'[q].prev = b BY <3>1, <4>2 DEF b
          <5>2. CASE b = None BY <3>1, <3>4, <3>6, <5>1, <5>2 DEF LinkedBack, y
          <5>3. CASE b # None
            <6>1. b \in Refs /\ b < q /\ refs[b].jval = y /\ refs[b].next = q BY <3>3, <3>4, <5>3
            <6>2. b # r BY <2>0, <4>2, <6>1
            <6>3. b # p BY <1>3, <3>1, <5>3, <6>1
            <6>4. refs'[b].jval = y /\ refs'[b].next = q BY <1>15, <6>1, <6>2, <6>3
            <6> QED BY <3>1, <5>1, <5>3, <6>1, <6>4 DEF LinkedBack, y
          <5> QED BY <5>2, <5>3
        <4> QED BY <4>1, <4>2
      <3>8. LinkedOn(q)'
        <4>1. CASE q = p
          <5>1. y = x BY <1>3, <3>3, <4>1 DEF y
          <5>2. CASE n = None
            <6>1. obj'[x].refEnd = p BY <1>4, <1>16, <5>2
            <6> QED BY <3>1, <4>1, <5>1, <5>2, <6>1 DEF LinkedOn, y
          <5>3. CASE n # None
            <6>1. n \in Refs \ {r} BY <1>2, <1>5, <5>3
            <6>2. refs'[n].jval = x /\ refs'[n].prev = p BY <1>4, <1>15, <5>3, <6>1
            <6> QED BY <3>1, <4>1, <5>1, <5>3, <6>2 DEF LinkedOn, y
          <5> QED BY <5>2, <5>3
        <4>2. CASE q # p
          <5>1. refs'[q].next = m BY <3>1, <4>2 DEF m
          <5>2. CASE m = None BY <3>1, <3>5, <3>6, <5>1, <5>2 DEF LinkedOn, y
          <5>3. CASE m # None
            <6>1. m \in Refs /\ refs[m].jval = y /\ refs[m].prev = q BY <3>3, <3>5, <5>3
            <6>2. m # r BY <2>0, <4>2, <6>1
            <6>3. m # n BY <1>4, <3>1, <5>3, <6>1
            <6>4. refs'[m].jval = y /\ refs'[m].prev = q BY <1>15, <6>1, <6>2, <6>3
            <6> QED BY <3>1, <5>1, <5>3, <6>4 DEF LinkedOn, y
          <5> QED BY <5>2, <5>3
        <4> QED BY <4>1, <4>2
      <3> QED BY <1>20, <3>1, <3>2, <3>7, <3>8
    <2>3. ASSUME NEW o \in Live'
          PROVE  /\ obj'[o].refStart # None => /\ refs'[obj'[o].refStart].jval = o
                                               /\ refs'[obj'[o].refStart].prev = None
                 /\ obj'[o].refEnd # None => /\ refs'[obj'[o].refEnd].jval = o
                                             /\ refs'[obj'[o].refEnd].next = None
                 /\ obj'[o].refStart = None <=> obj'[o].refEnd = None
      <3>0. o \in Live /\ o \in Objects BY <1>20 DEF Live
      <3> DEFINE s == obj[o].refStart
                 e == obj[o].refEnd
      <3>1. /\ s # None => refs[s].jval = o /\ refs[s].prev = None
            /\ e # None => refs[e].jval = o /\ refs[e].next = None
            /\ s = None <=> e = None
        BY <3>0 DEF RefInv
      <3>2. s \in Refs \cup {None} /\ e \in Refs \cup {None} BY <1>1, <3>0
      <3>3. s # None /\ s # r => refs'[s].jval = o /\ refs'[s].prev = None
        <4> HAVE s # None /\ s # r
        <4>1. s # n BY <1>4, <1>1, <3>1, <3>2
        <4> QED BY <1>15, <3>1, <3>2, <4>1
      <3>4. e # None /\ e # r => refs'[e].jval = o /\ refs'[e].next = None
        <4> HAVE e # None /\ e # r
        <4>1. e # p BY <1>3, <1>1, <3>1, <3>2
        <4> QED BY <1>15, <3>1, <3>2, <4>1
      <3>5. CASE o # x
        <4>1. obj'[o].refStart = s /\ obj'[o].refEnd = e BY <1>14, <3>0, <3>5
        <4>2. (s # None => s # r) /\ (e # None => e # r) BY <2>0, <3>1, <3>5
        <4> QED BY <3>1, <3>3, <3>4, <4>1, <4>2
      <3>6. CASE o = x
        <4>1. obj'[o].refStart = (IF s = r THEN n ELSE s) /\ obj'[o].refEnd = (IF e = r THEN p ELSE e)
          BY <1>16, <3>6
        <4>2. r # None BY <1>1
        <4>3. s = r <=> p = None BY <1>3, <2>0, <3>1, <3>6, <4>2
        <4>4. e = r <=> n = None BY <1>4, <2>0, <3>1, <3>6, <4>2
        <4>5. n # None => n \in Refs \ {r} /\ refs'[n].jval = x /\ refs'[n].prev = p
          BY <1>2, <1>4, <1>5, <1>15
        <4>6. p # None => p \in Refs \ {r} /\ refs'[p].jval = x /\ refs'[p].next = n
          BY <1>2, <1>3, <1>5, <1>15
        <4>7. s # None /\ e # None
          <5>1. r \in Listed(x) BY <1>2, <2>0, ListedExact
          <5>2. {} \in SUBSET Refs OBVIOUS
          <5>3. obj[x].refStart # None BY <5>1, <5>2 DEF Listed
          <5> QED BY <3>1, <3>6, <5>3
        <4> HIDE DEF s, e
        <4>8. CASE p = None /\ n = None BY <3>6, <4>1, <4>3, <4>4, <4>8
        <4>9. CASE p = None /\ n # None BY <3>4, <3>6, <4>1, <4>3, <4>4, <4>5, <4>7, <4>9
        <4>10. CASE p # None /\ n = None BY <3>3, <3>6, <4>1, <4>3, <4>4, <4>6, <4>7, <4>10
        <4>11. CASE p # None /\ n # None BY <3>3, <3>4, <4>1, <4>3, <4>4, <4>7, <4>11
        <4> QED BY <4>8, <4>9, <4>10, <4>11
      <3> QED BY <3>5, <3>6
    <2> QED BY ONLY <2>1, <2>2, <2>3 DEF RefInv
  <1> QED BY <1>17, <1>18, <1>19, <1>21, <1>22

\* A step that changes counts of references, or references that no list holds.
LEMMA RefChangeStep ==
    ASSUME StackInv, HeapInv, Grown({}), ListsStay,
           UNCHANGED <<scopes, frames, pending, script, lost>>,
           \A o \in Objects \ lost :
               SumOf(Counts(refs', o)) = SumOf(Counts(refs, o)) + (obj'[o].rc - obj[o].rc)
    PROVE  HeapInv'
  <1>1. Known({}) BY DEF Known, HeapInv, BornInv
  <1>2. HeapTypes' /\ BornInv' /\ RefInv' BY <1>1, ShapeKept DEF HeapInv
  <1>3. CallInv' BY DEF HeapInv, CallInv
  <1>4. CountInv' BY <1>2, RefCountStep
  <1> QED BY <1>2, <1>3, <1>4 DEF HeapInv

\* napi_delete_reference
LEMMA DeleteReferenceHeap ==
    ASSUME StackInv, HeapInv, DeleteReference PROVE HeapInv'
  <1>0. UNCHANGED <<scopes, frames, pending, script, lost>> BY DEF DeleteReference
  <1>1. PICK r \in Refs :
          /\ refs[r].st = "live"
          /\ IF refs[r].jval = None
             THEN refs' = [refs EXCEPT ![r] = [NoRef EXCEPT !.st = "deleted"]] /\ UNCHANGED obj
             ELSE Unlinked(r)
    BY DEF DeleteReference
  <1>2. CASE refs[r].jval # None BY <1>0, <1>1, <1>2, UnlinkStep
  <1>3. CASE refs[r].jval = None
    <2> DEFINE dead == [NoRef EXCEPT !.st = "deleted"]
    <2>1. dead \in RefType /\ dead.st = "deleted" /\ dead.jval = None
      BY DEF NoRef, RefType, None
    <2>2. refs' = [refs EXCEPT ![r] = dead] /\ UNCHANGED obj BY <1>1, <1>3
    <2> HIDE DEF dead
    <2>3. refs \in [Refs -> RefType] /\ obj \in [Objects -> ObjType] BY DEF HeapInv, HeapTypes
    <2>4. /\ refs' \in [Refs -> RefType] /\ refs'[r] = dead
          /\ \A q \in Refs : q # r => refs'[q] = refs[q]
      BY <2>1, <2>2, <2>3
    <2>5. ListsStay BY <1>1, <1>3, <2>1, <2>4 DEF ListsStay
    <2>6. Grown({})
      <3>1. \A o \in Objects : Alike(obj'[o], obj[o]) BY <2>2 DEF Alike
      <3> QED BY <2>2, <2>3, <3>1, NoneBorn
    <2>7. ASSUME NEW o \in Objects \ lost
          PROVE  SumOf(Counts(refs', o)) = SumOf(Counts(refs, o)) + (obj'[o].rc - obj[o].rc)
      <3>1. o # None BY NapiAssumption DEF Objects, None
      <3>2. SumOf(Counts(refs', o)) = SumOf(Counts(refs, o))
        BY <1>3, <2>1, <2>3, <2>4, <3>1, CountsSame
      <3>3. SumOf(Counts(refs, o)) \in Nat BY <2>3, CountsAre
      <3>4. obj[o].rc \in Int BY <2>3 DEF ObjType
      <3>5. obj'[o].rc - obj[o].rc = 0 BY <2>2, <3>4
      <3> QED BY <3>2, <3>3, <3>5
    <2> QED BY <1>0, <2>5, <2>6, <2>7, RefChangeStep
  <1> QED BY <1>2, <1>3

\* A reference with another count.
CountSet(rf, r, n) == [rf EXCEPT ![r].count = n]

LEMMA CountSetIs ==
    ASSUME NEW rf \in [Refs -> RefType], NEW r \in Refs, NEW n \in Nat
    PROVE  /\ CountSet(rf, r, n) \in [Refs -> RefType]
           /\ CountSet(rf, r, n)[r].count = n
           /\ \A q \in Refs : q # r => CountSet(rf, r, n)[q] = rf[q]
           /\ \A q \in Refs : /\ CountSet(rf, r, n)[q].st = rf[q].st
                              /\ CountSet(rf, r, n)[q].jval = rf[q].jval
                              /\ CountSet(rf, r, n)[q].prev = rf[q].prev
                              /\ CountSet(rf, r, n)[q].next = rf[q].next
  <1> DEFINE v == [rf[r] EXCEPT !.count = n]
             t == CountSet(rf, r, n)
  <1>1. rf[r] \in RefType OBVIOUS
  <1>2. /\ v \in RefType /\ v.count = n /\ v.st = rf[r].st /\ v.jval = rf[r].jval
        /\ v.prev = rf[r].prev /\ v.next = rf[r].next
    BY ONLY <1>1, n \in Nat DEF RefType
  <1>3. t = [rf EXCEPT ![r] = v] BY DEF CountSet
  <1> HIDE DEF t, v
  <1>4. t \in [Refs -> RefType] /\ t[r] = v /\ \A q \in Refs : q # r => t[q] = rf[q]
    BY <1>2, <1>3
  <1>5. \A q \in Refs : /\ t[q].st = rf[q].st /\ t[q].jval = rf[q].jval
                        /\ t[q].prev = rf[q].prev /\ t[q].next = rf[q].next
    BY <1>2, <1>4
  <1> QED BY <1>2, <1>4, <1>5 DEF t

\* napi_reference_ref and napi_reference_unref
LEMMA ReferenceRefHeap ==
    ASSUME StackInv, HeapInv, ReferenceRef \/ ReferenceUnref PROVE HeapInv'
  <1>0. UNCHANGED <<scopes, frames, pending, script, lost>> BY DEF ReferenceRef, ReferenceUnref
  <1>1. refs \in [Refs -> RefType] /\ obj \in [Objects -> ObjType] BY DEF HeapInv, HeapTypes
  <1>2. \A o \in Objects : obj[o].rc \in Int /\ o # None
    BY <1>1, NapiAssumption DEF ObjType, Objects, None
  <1>3. ASSUME NEW r \in Refs, NEW n \in Nat, refs' = CountSet(refs, r, n),
               \A o \in Objects :
                   /\ Alike(obj'[o], obj[o])
                   /\ obj'[o].rc = obj[o].rc + (IF refs[r].jval = o THEN n - refs[r].count ELSE 0),
               obj' \in [Objects -> ObjType]
        PROVE  HeapInv'
    <2>1. /\ refs' \in [Refs -> RefType] /\ refs'[r].count = n
          /\ \A q \in Refs : q # r => refs'[q] = refs[q]
          /\ \A q \in Refs : /\ refs'[q].st = refs[q].st /\ refs'[q].jval = refs[q].jval
                             /\ refs'[q].prev = refs[q].prev /\ refs'[q].next = refs[q].next
      BY <1>1, <1>3, CountSetIs
    <2>2. ListsStay BY <2>1 DEF ListsStay
    <2>3. refs[r].count \in Nat BY <1>1 DEF RefType
    <2>4. Grown({})
      <3>1. ASSUME NEW o \in Objects, o \notin Born PROVE obj'[o].rc = obj[o].rc
        <4>1. refs[r].jval # o
          <5>1. refs[r].jval # None => refs[r].jval \in Live BY DEF HeapInv, RefInv
          <5> QED BY <1>2, <3>1, <5>1, UsableBorn
        <4> QED BY <1>2, <1>3, <4>1
      <3> QED BY <1>3, <3>1, NoneBorn
    <2>5. ASSUME NEW o \in Objects \ lost
          PROVE  SumOf(Counts(refs', o)) = SumOf(Counts(refs, o)) + (obj'[o].rc - obj[o].rc)
      <3>1. SumOf(Counts(refs', o)) = SumOf(Counts(refs, o))
               + (IF refs'[r].jval = o THEN refs'[r].count ELSE 0)
               - (IF refs[r].jval = o THEN refs[r].count ELSE 0)
        <4>1. \A q \in Refs : q # r => /\ (refs'[q].jval = o <=> refs[q].jval = o)
                                       /\ refs[q].jval = o => refs'[q].count = refs[q].count
          BY <2>1
        <4> QED BY <1>1, <2>1, <4>1, CountsChange
      <3>2. SumOf(Counts(refs, o)) \in Nat BY <1>1, CountsAre
      <3>3. refs'[r].jval = refs[r].jval /\ refs'[r].count = n BY <2>1
      <3>4. obj[o].rc \in Int /\ obj'[o].rc = obj[o].rc + (IF refs[r].jval = o THEN n - refs[r].count ELSE 0)
        BY <1>2, <1>3
      <3>5. CASE refs[r].jval = o BY <2>3, <3>1, <3>2, <3>3, <3>4, <3>5
      <3>6. CASE refs[r].jval # o BY <3>1, <3>2, <3>3, <3>4, <3>6
      <3> QED BY <3>5, <3>6
    <2> QED BY <1>0, <2>2, <2>4, <2>5, RefChangeStep
  <1>4. CASE ReferenceRef
    <2>1. PICK r \in Refs : /\ refs[r].jval # None
                            /\ refs' = [refs EXCEPT ![r].count = @ + 1]
                            /\ obj' = Acquired(obj, refs[r].jval)
      BY <1>4 DEF ReferenceRef
    <2>2. refs[r].jval \in Objects /\ refs[r].count \in Nat BY <1>1, <2>1 DEF RefType
    <2> DEFINE n == refs[r].count + 1
    <2>3. n \in Nat /\ n - refs[r].count = 1 BY <2>2
    <2>4. refs' = CountSet(refs, r, n) BY <2>1 DEF CountSet
    <2> HIDE DEF n
    <2>5. /\ obj' \in [Objects -> ObjType]
          /\ \A o \in Objects : obj'[o].rc = obj[o].rc + One(o, refs[r].jval) /\ Alike(obj'[o], obj[o])
      BY <1>1, <2>1, <2>2, AcquiredIs
    <2>6. \A o \in Objects : /\ Alike(obj'[o], obj[o])
            /\ obj'[o].rc = obj[o].rc + (IF refs[r].jval = o THEN n - refs[r].count ELSE 0)
      BY <2>3, <2>5 DEF One
    <2> QED BY <1>3, <2>3, <2>4, <2>5, <2>6
  <1>5. CASE ReferenceUnref
    <2>1. PICK r \in Refs : /\ refs[r].count > 0
                            /\ refs' = [refs EXCEPT ![r].count = @ - 1]
                            /\ obj' = Released(obj, refs[r].jval)
      BY <1>5 DEF ReferenceUnref
    <2>2. refs[r].jval \in Objects \cup {None} /\ refs[r].count \in Nat BY <1>1 DEF RefType
    <2> DEFINE n == refs[r].count - 1
    <2>3. n \in Nat /\ n - refs[r].count = -1 BY <2>1, <2>2
    <2>4. refs' = CountSet(refs, r, n) BY <2>1 DEF CountSet
    <2> HIDE DEF n
    <2>5. CASE refs[r].jval = None
      <3>1. refs[r].jval \notin Objects BY <1>2, <2>5
      <3>2. obj' = obj BY <1>1, <2>1, <3>1 DEF Released
      <3>3. \A o \in Objects : /\ Alike(obj'[o], obj[o])
              /\ obj'[o].rc = obj[o].rc + (IF refs[r].jval = o THEN n - refs[r].count ELSE 0)
        BY <1>2, <2>5, <3>2 DEF Alike
      <3> QED BY <1>1, <1>3, <2>3, <2>4, <3>2, <3>3
    <2>6. CASE refs[r].jval # None
      <3>1. /\ obj' \in [Objects -> ObjType]
            /\ \A o \in Objects : obj'[o].rc = obj[o].rc - One(o, refs[r].jval) /\ Alike(obj'[o], obj[o])
        BY <1>1, <2>1, <2>2, <2>6, ReleasedIs
      <3>2. \A o \in Objects : /\ Alike(obj'[o], obj[o])
              /\ obj'[o].rc = obj[o].rc + (IF refs[r].jval = o THEN n - refs[r].count ELSE 0)
        BY <1>2, <2>3, <3>1 DEF One
      <3> QED BY <1>3, <2>3, <2>4, <3>1, <3>2
    <2> QED BY <2>5, <2>6
  <1> QED BY <1>4, <1>5

\* What the scopes from i on own of an object is a part of its handles.
LEMMA OwnedBound ==
    ASSUME NEW sc \in Seq(ScopeType), NEW i \in 1 .. Len(sc) + 1, NEW o \in Objects
    PROVE  Owned(sc, i, o) \in Nat /\ Owned(sc, i, o) <= SumOf(Handles(sc, o))
  <1> DEFINE s == Handles(sc, o)
             m == i - 1
  <1>1. s \in Seq(Nat) /\ Len(s) = Len(sc) BY HandlesAre
  <1>2. m \in 0 .. Len(sc) OBVIOUS
  <1>3. Owned(sc, i, o) = SumOf(s) - Totals(s)[m] BY DEF Owned
  <1> HIDE DEF s, m
  <1>4. Totals(s)[m] \in Nat /\ SumOf(s) \in Nat /\ Totals(s)[m] <= SumOf(s)
    BY <1>1, <1>2, TotalsGrow
  <1> QED BY <1>3, <1>4 DEF s

\* Nothing owns a count of an object that is not born.
LEMMA UnbornHandles ==
    ASSUME StackInv, HeapInv, NEW o \in Objects \ Born
    PROVE  SumOf(Handles(scopes, o)) = 0
  <1>1. obj[o].rc = Owners(o) /\ obj[o].rc = 0 BY DEF HeapInv, CountInv, BornInv
  <1>2. /\ SumOf(Handles(scopes, o)) \in Nat /\ SumOf(Counts(refs, o)) \in Nat
        /\ SumOf(Exports(frames, o)) \in Nat
    BY OwnersAre DEF StackInv, StackTypes, HeapInv, HeapTypes
  <1> QED BY <1>1, <1>2 DEF Owners

\* Scopes are opened, closed and escaped from.
LEMMA ScopesHeap ==
    ASSUME StackInv, StackInv', HeapInv, OpenHandleScope \/ CloseHandleScope \/ EscapeHandle
    PROVE  HeapInv'
  <1>0. InAddon /\ UNCHANGED <<refs, frames, pending, script, lost>>
    BY DEF OpenHandleScope, CloseHandleScope, EscapeHandle, Api
  <1>1. scopes \in Seq(ScopeType) /\ obj \in [Objects -> ObjType] /\ Len(scopes) \in Nat
    BY DEF StackInv, StackTypes, HeapInv, HeapTypes
  <1>2. script' \subseteq Born /\ lost \subseteq lost' /\ lost' \subseteq Born
    BY <1>0 DEF HeapInv, BornInv
  <1>3. CASE OpenHandleScope \/ EscapeHandle
    <2>1. UNCHANGED obj BY <1>3 DEF OpenHandleScope, EscapeHandle
    <2>2. \A o \in Objects : SumOf(Handles(scopes', o)) = SumOf(Handles(scopes, o))
      <3> TAKE o \in Objects
      <3>1. CASE OpenHandleScope BY <1>1, <3>1, OpenCounts DEF OpenHandleScope
      <3>2. CASE EscapeHandle
        <4>1. PICK x \in Objects : CanEscape(scopes, x) /\ scopes' = Escaped(scopes, x)
          BY <3>2 DEF EscapeHandle, Handled
        <4> QED BY <1>1, <4>1, EscapeCounts
      <3> QED BY <1>3, <3>1, <3>2
    <2>3. \A o \in Objects :
             /\ obj'[o].st = obj[o].st /\ obj'[o].rc = obj[o].rc
             /\ obj'[o].refStart = obj[o].refStart /\ obj'[o].refEnd = obj[o].refEnd
             /\ obj'[o].prop \in Born \cup {None}
      BY <2>1 DEF HeapInv, BornInv
    <2> QED BY <1>0, <1>1, <1>2, <2>1, <2>2, <2>3, AsideStep
  <1>4. CASE CloseHandleScope
    <2>1. PICK i \in Top.base + 2 .. Len(scopes) :
            obj' = ScopesReleased(obj, scopes, i) /\ scopes' = CloseScope(scopes, i)
      BY <1>4 DEF CloseHandleScope
    <2>2. i \in 1 .. Len(scopes) + 1 BY <1>0, <1>1, <2>1, TopHasScope
    <2>3. /\ obj' \in [Objects -> ObjType]
          /\ \A o \in Objects : /\ obj'[o].rc = obj[o].rc - Owned(scopes, i, o)
                                /\ Owned(scopes, i, o) \in Int /\ Alike(obj'[o], obj[o])
      BY <1>1, <2>1, <2>2, ClosedIs
    <2>4. \A o \in Objects : obj[o].rc \in Int BY <1>1 DEF ObjType
    <2>5. ASSUME NEW o \in Objects, o \notin Born PROVE obj'[o].rc = obj[o].rc
      <3>1. SumOf(Handles(scopes, o)) = 0 BY <2>5, UnbornHandles
      <3>2. Owned(scopes, i, o) \in Nat /\ Owned(scopes, i, o) <= SumOf(Handles(scopes, o))
        BY <1>1, <2>2, OwnedBound
      <3>3. Owned(scopes, i, o) = 0 BY <3>1, <3>2
      <3> QED BY <2>3, <2>4, <3>3
    <2>6. Grown({}) BY <2>3, <2>5, NoneBorn
    <2>7. ASSUME NEW o \in Objects
          PROVE  SumOf(Handles(scopes', o)) = SumOf(Handles(scopes, o)) + (obj'[o].rc - obj[o].rc)
      <3>1. SumOf(Handles(scopes', o)) = SumOf(Handles(scopes, o)) - Owned(scopes, i, o)
        BY <1>1, <2>1, <2>2, CloseCounts
      <3>2. SumOf(Handles(scopes, o)) \in Nat BY <1>1, HandlesAre
      <3>3. obj'[o].rc - obj[o].rc = - Owned(scopes, i, o) BY <2>3, <2>4
      <3> QED BY <2>3, <3>1, <3>2, <3>3
    <2> QED BY <1>0, <1>2, <2>6, <2>7, HandleStep
  <1> QED BY <1>3, <1>4

\* A value without a handle leaves the frames what they are.
LEMMA LooseIs ==
    ASSUME NEW fr \in Seq(FrameType), NEW gr \in Seq(FrameType), Len(fr) > 0, NEW o,
           gr = [fr EXCEPT ![Len(fr)].loose = @ \cup {o}]
    PROVE  /\ Len(gr) = Len(fr)
           /\ \A i \in 1 .. Len(fr) : gr[i].kind = fr[i].kind /\ gr[i].args = fr[i].args
  <1> DEFINE n == Len(fr)
             top == [fr[n] EXCEPT !.loose = @ \cup {o}]
  <1>1. n \in 1 .. n /\ fr[n] \in FrameType OBVIOUS
  <1>2. top.kind = fr[n].kind /\ top.args = fr[n].args BY ONLY <1>1 DEF FrameType
  <1>3. gr = [fr EXCEPT ![n] = top] OBVIOUS
  <1> HIDE DEF top
  <1>4. Len(gr) = n /\ gr[n] = top /\ \A i \in 1 .. n : i # n => gr[i] = fr[i]
    BY ONLY <1>1, <1>3, fr \in Seq(FrameType)
  <1> QED BY <1>2, <1>4

\* napi_get_reference_value
LEMMA GetReferenceValueHeap ==
    ASSUME StackInv, StackInv', HeapInv, GetReferenceValue PROVE HeapInv'
  <1>0. InAddon /\ UNCHANGED <<obj, refs, scopes, pending, script, lost>>
    BY DEF GetReferenceValue, Api
  <1>1. PICK x : frames' = [frames EXCEPT ![Len(frames)].loose = @ \cup {x}]
    BY DEF GetReferenceValue
  <1>2. frames \in Seq(FrameType) /\ frames' \in Seq(FrameType) /\ Len(frames) > 0
    BY <1>0, TopHasScope DEF StackInv, StackTypes
  <1>3. /\ Len(frames') = Len(frames)
        /\ \A i \in 1 .. Len(frames) :
             frames'[i].kind = frames[i].kind /\ frames'[i].args = frames[i].args
    BY <1>1, <1>2, LooseIs
  <1>4. \A o \in Objects : obj[o].rc \in Int /\ obj \in [Objects -> ObjType]
    BY DEF ObjType, HeapInv, HeapTypes
  <1>5. Grown({})
    <2>1. \A o \in Objects : Alike(obj'[o], obj[o]) BY <1>0 DEF Alike
    <2>2. obj' \in [Objects -> ObjType] BY <1>0 DEF HeapInv, HeapTypes
    <2> QED BY <1>0, <2>1, <2>2, NoneBorn
  <1>6. Known({}) BY <1>0, <1>3 DEF Known, HeapInv, BornInv
  <1>7. ListsStay BY <1>0 DEF ListsStay, HeapInv, HeapTypes
  <1>8. CallInv' BY <1>0, <1>3 DEF HeapInv, CallInv
  <1>9. CountsMove
    <2> SUFFICES ASSUME NEW o \in Objects \ lost'
                 PROVE  Owners(o)' = Owners(o) + (obj'[o].rc - obj[o].rc)
      BY <1>0 DEF CountsMove
    <2>1. SumOf(Exports(frames', o)) = SumOf(Exports(frames, o)) BY <1>2, <1>3, ExportsSame
    <2>2. Owners(o)' = Owners(o) BY <1>0, <2>1 DEF Owners
    <2>3. Owners(o) \in Nat BY OwnersNumber DEF HeapInv
    <2>4. obj'[o].rc - obj[o].rc = 0 BY <1>0, <1>4
    <2> HIDE DEF Owners
    <2> QED BY <2>2, <2>3, <2>4
  <1> QED BY <1>5, <1>6, <1>7, <1>8, <1>9, HeapStep

\* The garbage collector: an object that it frees has a count of zero, or is lost, and
\* so are the counts of the references that forget it.
LEMMA CollectHeap ==
    ASSUME StackInv, HeapInv, Collect PROVE HeapInv'
  <1> USE DEF HeapInv
  <1> DEFINE dead == Live \ Kept
  <1>0. UNCHANGED <<scopes, frames, pending, script, steps, lost>> BY DEF Collect
  <1>1. /\ \A q \in Refs : /\ refs[q].prev \in Refs \cup {None}
                           /\ refs[q].next \in Refs \cup {None}
                           /\ refs[q].jval \in Objects \cup {None} /\ refs[q].count \in Nat
        /\ \A o \in Objects : /\ obj[o].refStart \in Refs \cup {None}
                              /\ obj[o].refEnd \in Refs \cup {None} /\ obj[o].rc \in Int
        /\ \A q \in Refs : q \in Nat /\ q # None
        /\ \A o \in Objects : o # None
    BY RefFields
  <1>2. dead \subseteq Live /\ Live \subseteq Objects BY DEF Live
  <1>3. ASSUME NEW o \in dead, o \notin lost
        PROVE  \A q \in Refs : refs[q].jval = o => refs[q].count = 0
    <2>1. o \in Live /\ o \in Objects /\ o \notin Kept BY <1>2
    <2>2. ~(obj[o].rc > 0)
      <3>1. obj[o].rc > 0 => o \in Roots BY <2>1 DEF Roots
      <3>2. o \in Roots => o \in Kept BY <2>1 DEF Kept
      <3> QED BY <2>1, <3>1, <3>2
    <2>3. obj[o].rc = Owners(o) BY <1>3, <2>1 DEF CountInv
    <2>4. /\ SumOf(Handles(scopes, o)) \in Nat /\ SumOf(Counts(refs, o)) \in Nat
          /\ SumOf(Exports(frames, o)) \in Nat
      BY <2>1, OwnersAre DEF StackInv, StackTypes, HeapTypes
    <2>5. SumOf(Counts(refs, o)) = 0 BY <2>2, <2>3, <2>4 DEF Owners
    <2>6. ASSUME NEW q \in Refs, refs[q].jval = o PROVE refs[q].count = 0
      <3> DEFINE c == Counts(refs, o)
      <3>1. /\ c \in Seq(Nat) /\ Len(c) = MaxRefs /\ c[q] = refs[q].count
        BY <2>6, CountsAre DEF HeapTypes
      <3> HIDE DEF c
      <3>2. q \in 1 .. Len(c) BY <3>1 DEF Refs
      <3>3. c[q] <= SumOf(c) BY <3>1, <3>2, SumAtLeast
      <3>4. SumOf(c) = 0 BY <2>5 DEF c
      <3> QED BY <1>1, <3>1, <3>3, <3>4
    <2> QED BY <2>6
  <1>4. \A r \in Refs : (\E o \in dead : r \in Listed(o)) <=> refs[r].jval \in dead
    <2>1. \A o \in dead : Listed(o) = {r \in Refs : refs[r].jval = o} BY <1>2, ListedExact
    <2> QED BY <2>1
  <1>5. obj' = [o \in Objects |->
                     IF o \in dead
                     THEN [obj[o] EXCEPT !.st = "gone",
                                         !.final = @ + (IF obj[o].wrap = "none" THEN 0 ELSE 1)]
                     ELSE obj[o]]
    BY DEF Collect
  <1>6. refs' = [r \in Refs |-> IF refs[r].jval \in dead THEN [refs[r] EXCEPT !.jval = None]
                                ELSE refs[r]]
    <2>1. refs' = [r \in Refs |-> IF \E o \in dead : r \in Listed(o)
                                   THEN [refs[r] EXCEPT !.jval = None] ELSE refs[r]]
      BY DEF Collect
    <2> HIDE DEF dead
    <2> QED BY <1>4, <2>1
  <1> HIDE DEF dead
  <1>7. ASSUME NEW r \in Refs
        PROVE  /\ refs'[r] \in RefType /\ refs'[r].st = refs[r].st
               /\ refs'[r].count = refs[r].count /\ refs'[r].prev = refs[r].prev
               /\ refs'[r].next = refs[r].next
               /\ refs'[r].jval = IF refs[r].jval \in dead THEN None ELSE refs[r].jval
    <2>1. refs[r] \in RefType BY DEF HeapTypes
    <2>2. refs'[r] = IF refs[r].jval \in dead THEN [refs[r] EXCEPT !.jval = None] ELSE refs[r]
      BY <1>6
    <2>3. CASE refs[r].jval \in dead
      <3> DEFINE b == refs[r]
                 v == [b EXCEPT !.jval = None]
      <3>1. b \in RefType /\ refs'[r] = v BY <2>1, <2>2, <2>3
      <3> HIDE DEF b
      <3>2. /\ v \in RefType /\ v.st = b.st /\ v.count = b.count /\ v.prev = b.prev
            /\ v.next = b.next /\ v.jval = None
        BY ONLY <3>1 DEF RefType
      <3> QED BY <2>3, <3>1, <3>2 DEF b
    <2>4. CASE refs[r].jval \notin dead BY <2>1, <2>2, <2>4
    <2> QED BY <2>3, <2>4
  <1>8. refs' \in [Refs -> RefType]
    <2>1. DOMAIN refs' = Refs /\ refs' = [r \in Refs |-> refs'[r]] BY <1>6
    <2> QED BY <1>7, <2>1
  <1>9. ASSUME NEW o \in Objects
        PROVE  /\ obj'[o] \in ObjType
               /\ obj'[o].rc = obj[o].rc /\ obj'[o].refStart = obj[o].refStart
               /\ obj'[o].refEnd = obj[o].refEnd /\ obj'[o].prop = obj[o].prop
               /\ obj'[o].st = (IF o \in dead THEN "gone" ELSE obj[o].st)
               /\ o \notin dead => obj'[o] = obj[o]
    <2>1. obj[o] \in ObjType BY DEF HeapTypes
    <2> DEFINE b == obj[o]
               f == b.final + (IF b.wrap = "none" THEN 0 ELSE 1)
               u == [b EXCEPT !.final = f]
               v == [u EXCEPT !.st = "gone"]
    <2>2. b \in ObjType /\ f \in Nat
      <3>1. b \in ObjType BY <2>1
      <3>2. b.final \in Nat BY <3>1 DEF ObjType
      <3> QED BY <3>1, <3>2
    <2>3. o \in dead => obj'[o] = v BY <1>5
    <2>4. o \notin dead => obj'[o] = b BY <1>5
    <2> HIDE DEF b, f
    <2>5. /\ u \in ObjType /\ u.rc = b.rc /\ u.refStart = b.refStart /\ u.refEnd = b.refEnd
          /\ u.prop = b.prop
      BY ONLY <2>2 DEF ObjType
    <2> HIDE DEF u
    <2>6. /\ v \in ObjType /\ v.rc = u.rc /\ v.refStart = u.refStart /\ v.refEnd = u.refEnd
          /\ v.prop = u.prop /\ v.st = "gone"
      BY ONLY <2>5 DEF ObjType
    <2> HIDE DEF v
    <2>7. CASE o \in dead BY <2>3, <2>5, <2>6, <2>7 DEF b
    <2>8. CASE o \notin dead BY <2>2, <2>4, <2>8 DEF b
    <2> QED BY <2>7, <2>8
  <1>10. obj' \in [Objects -> ObjType]
    <2>1. obj' = [o \in Objects |-> obj'[o]] BY <1>5
    <2> QED BY <1>9, <2>1
  <1>11. HeapTypes' BY <1>8, <1>10 DEF HeapTypes
  <1>12. BornInv'
    <2>1. \A o \in Objects : /\ obj'[o].st = "unborn" <=> obj[o].st = "unborn"
                             /\ obj'[o].prop = obj[o].prop
                             /\ o \notin Born => obj'[o] = obj[o]
      <3> TAKE o \in Objects
      <3>1. o \in dead => obj[o].st = "live" /\ o \in Born BY <1>2, UsableBorn DEF Live
      <3> QED BY <1>9, <3>1
    <2> QED BY <1>0, <2>1, BornSame
  <1>13. CallInv' BY <1>0 DEF CallInv
  <1>14. Live' = Live \ dead BY <1>2, <1>9 DEF Live
  <1>15. RefInv'
    <2>1. \A q, r \in Refs : q < r /\ refs'[q].st = "none" => refs'[r].st = "none"
      BY <1>7 DEF RefInv
    <2>2. ASSUME NEW r \in Refs, refs'[r].jval # None
          PROVE  refs'[r].st = "live" /\ refs'[r].jval \in Live' /\ LinkedBack(r)' /\ LinkedOn(r)'
      <3>1. /\ refs[r].jval # None /\ refs[r].jval \notin dead /\ refs'[r].jval = refs[r].jval
            /\ refs'[r].st = refs[r].st /\ refs'[r].prev = refs[r].prev
            /\ refs'[r].next = refs[r].next
        BY <1>7, <2>2
      <3>2. refs[r].st = "live" /\ refs[r].jval \in Live /\ LinkedBack(r) /\ LinkedOn(r)
        BY <3>1 DEF RefInv
      <3> DEFINE y == refs[r].jval
                 p == refs[r].prev
                 n == refs[r].next
      <3>3. y \in Objects /\ p \in Refs \cup {None} /\ n \in Refs \cup {None} BY <1>1, <3>1
      <3>4. obj'[y].refStart = obj[y].refStart /\ obj'[y].refEnd = obj[y].refEnd BY <1>9, <3>3
      <3>5. LinkedBack(r)'
        <4>1. CASE p = None BY <3>1, <3>2, <3>4, <4>1 DEF LinkedBack
        <4>2. CASE p # None
          <5>1. p \in Refs /\ p < r /\ refs[p].jval = y /\ refs[p].next = r
            BY <3>2, <3>3, <4>2 DEF LinkedBack
          <5>2. refs'[p].jval = y /\ refs'[p].next = r BY <1>7, <3>1, <5>1
          <5> QED BY <3>1, <4>2, <5>1, <5>2 DEF LinkedBack
        <4> QED BY <4>1, <4>2
      <3>6. LinkedOn(r)'
        <4>1. CASE n = None BY <3>1, <3>2, <3>4, <4>1 DEF LinkedOn
        <4>2. CASE n # None
          <5>1. n \in Refs /\ refs[n].jval = y /\ refs[n].prev = r
            BY <3>2, <3>3, <4>2 DEF LinkedOn
          <5>2. refs'[n].jval = y /\ refs'[n].prev = r BY <1>7, <3>1, <5>1
          <5> QED BY <3>1, <4>2, <5>2 DEF LinkedOn
        <4> QED BY <4>1, <4>2
      <3> QED BY <1>14, <3>1, <3>2, <3>5, <3>6
    <2>3. ASSUME NEW o \in Live'
          PROVE  /\ obj'[o].refStart # None => /\ refs'[obj'[o].refStart].jval = o
                                               /\ refs'[obj'[o].refStart].prev = None
                 /\ obj'[o].refEnd # None => /\ refs'[obj'[o].refEnd].jval = o
                                             /\ refs'[obj'[o].refEnd].next = None
                 /\ obj'[o].refStart = None <=> obj'[o].refEnd = None
      <3>1. o \in Live /\ o \notin dead /\ o \in Objects BY <1>2, <1>14
      <3>2. obj'[o] = obj[o] BY <1>9, <3>1
      <3>3. /\ obj[o].refStart # None =>
                 refs[obj[o].refStart].jval = o /\ refs[obj[o].refStart].prev = None
            /\ obj[o].refEnd # None =>
                 refs[obj[o].refEnd].jval = o /\ refs[obj[o].refEnd].next = None
            /\ obj[o].refStart = None <=> obj[o].refEnd = None
        BY <3>1 DEF RefInv
      <3>4. obj[o].refStart \in Refs \cup {None} /\ obj[o].refEnd \in Refs \cup {None}
        BY <1>1, <3>1
      <3> QED BY <1>7, <3>1, <3>2, <3>3, <3>4
    <2> QED BY ONLY <2>1, <2>2, <2>3 DEF RefInv
  <1>16. CountInv'
    <2>1. ASSUME NEW o \in Objects \ lost
          PROVE  SumOf(Counts(refs', o)) = SumOf(Counts(refs, o)) + (obj'[o].rc - obj[o].rc)
      <3>1. refs \in [Refs -> RefType] /\ o # None BY <1>1 DEF HeapTypes
      <3>2. \A q \in Refs : /\ refs'[q].jval = o => refs[q].jval = o
                            /\ refs[q].jval = o => refs'[q].jval = o \/ refs[q].count = 0
                            /\ refs[q].jval = o => refs'[q].count = refs[q].count
        BY <1>3, <1>7, <3>1
      <3>3. SumOf(Counts(refs', o)) = SumOf(Counts(refs, o)) BY <1>8, <3>1, <3>2, CountsSame
      <3>4. SumOf(Counts(refs, o)) \in Nat BY <3>1, CountsAre
      <3>5. obj'[o].rc - obj[o].rc = 0 BY <1>1, <1>9
      <3> QED BY <3>3, <3>4, <3>5
    <2> QED BY <1>0, <1>11, <2>1, RefCountStep
  <1> QED BY <1>11, <1>12, <1>13, <1>15, <1>16

\* Scopes, references, wraps and the garbage collector keep the counts and the lists.
LEMMA LifetimeHeap ==
    ASSUME StackInv, StackInv', HeapInv, NapiLifetimeCall \/ Collect PROVE HeapInv'
  BY ScopesHeap, CreateReferenceHeap, DeleteReferenceHeap, ReferenceRefHeap,
     GetReferenceValueHeap, WrapHeap, CollectHeap DEF NapiLifetimeCall

-----------------------------------------------------------------------------
(* Calls between script and addon.                                         *)

\* What the invariants say of the heap, in the form that the steps below need.
LEMMA HeapFacts ==
    ASSUME StackInv, HeapInv
    PROVE  /\ scopes \in Seq(ScopeType) /\ frames \in Seq(FrameType)
           /\ obj \in [Objects -> ObjType] /\ refs \in [Refs -> RefType]
           /\ Born \subseteq Objects /\ lost \subseteq Born /\ script \subseteq Born
           /\ pending.of \in Born \cup {None}
           /\ pending.kind = "none" => pending.of = None
           /\ \A i \in 1 .. Len(frames) : frames[i].args \subseteq Born
           /\ \A o \in Objects : /\ o # None /\ obj[o].rc \in Int
                                 /\ SumOf(Handles(scopes, o)) \in Nat
                                 /\ SumOf(Exports(frames, o)) \in Nat
  <1>1. /\ scopes \in Seq(ScopeType) /\ frames \in Seq(FrameType)
        /\ obj \in [Objects -> ObjType] /\ refs \in [Refs -> RefType]
    BY DEF StackInv, StackTypes, HeapInv, HeapTypes
  <1>2. /\ lost \subseteq Born /\ script \subseteq Born /\ pending.of \in Born \cup {None}
        /\ \A i \in 1 .. Len(frames) : frames[i].args \subseteq Born
        /\ pending.kind = "none" => pending.of = None
    BY DEF HeapInv, BornInv, CallInv
  <1>3. Born \subseteq Objects BY DEF Born
  <1>4. \A o \in Objects : o # None /\ obj[o].rc \in Int
    BY <1>1, NapiAssumption DEF ObjType, Objects, None
  <1>5. \A o \in Objects : SumOf(Handles(scopes, o)) \in Nat /\ SumOf(Exports(frames, o)) \in Nat
    BY <1>1, HandlesAre, ExportsAre
  <1> QED BY <1>1, <1>2, <1>3, <1>4, <1>5

\* A step that leaves the references alone: the counts move with the handles, the
\* pending exception and the exports.
LEMMA CallStep ==
    ASSUME StackInv, StackInv', HeapInv, UNCHANGED refs, NEW K, Grown(K), Known(K), CallInv',
           lost \subseteq lost',
           \A o \in Objects \ lost' :
               SumOf(Handles(scopes', o)) + One(o, pending'.of) + SumOf(Exports(frames', o))
               = SumOf(Handles(scopes, o)) + One(o, pending.of) + SumOf(Exports(frames, o))
                 + (obj'[o].rc - obj[o].rc)
    PROVE  HeapInv'
  <1>1. ListsStay BY DEF ListsStay, HeapInv, HeapTypes
  <1>2. CountsMove
    <2> SUFFICES ASSUME NEW o \in Objects \ lost'
                 PROVE  Owners(o)' = Owners(o) + (obj'[o].rc - obj[o].rc)
      BY DEF CountsMove
    <2> DEFINE h == SumOf(Handles(scopes, o))
               k == SumOf(Handles(scopes', o))
               c == SumOf(Counts(refs, o))
               x == SumOf(Exports(frames, o))
               y == SumOf(Exports(frames', o))
               p == One(o, pending.of)
               q == One(o, pending'.of)
               d == obj'[o].rc - obj[o].rc
    <2>1. /\ scopes \in Seq(ScopeType) /\ frames \in Seq(FrameType) /\ refs \in [Refs -> RefType]
          /\ scopes' \in Seq(ScopeType) /\ frames' \in Seq(FrameType)
      BY DEF StackInv, StackTypes, HeapInv, HeapTypes
    <2>2. h \in Nat /\ k \in Nat /\ c \in Nat /\ x \in Nat /\ y \in Nat
      BY <2>1, OwnersAre
    <2>3. p \in Nat /\ q \in Nat BY DEF One
    <2>4. d \in Int
      <3>1. obj'[o] \in ObjType /\ obj[o] \in ObjType BY DEF Grown, HeapInv, HeapTypes
      <3> QED BY <3>1 DEF ObjType
    <2>5. Owners(o) = h + c + p + x /\ Owners(o)' = k + c + q + y BY DEF Owners, One
    <2>6. k + q + y = h + p + x + d OBVIOUS
    <2> HIDE DEF h, k, c, x, y, p, q, d
    <2>7. k + c + q + y = h + c + p + x + d BY ONLY <2>2, <2>3, <2>4, <2>6
    <2> QED BY <2>5, <2>7 DEF d
  <1> QED BY <1>1, <1>2, HeapStep

\* A frame is entered: a native function, an Init, a complete callback, or the script.
LEMMA FrameIn ==
    ASSUME StackInv, HeapInv, NEW f \in FrameType, frames' = Append(frames, f),
           f.kind = "init" => \E e \in Objects : f.args = {e},
           f.kind = "complete" => frames = <<>>
    PROVE  /\ \A o : SumOf(Exports(frames', o)) = SumOf(Exports(frames, o)) + ExportOf(f, o)
           /\ \A i \in 1 .. Len(frames') : frames'[i].args \subseteq Born \cup f.args
           /\ \A i \in 1 .. Len(frames') :
                /\ frames'[i].kind = "init" => \E e \in Objects : frames'[i].args = {e}
                /\ frames'[i].kind = "complete" => i = 1
  <1> DEFINE n == Len(frames)
  <1>1. /\ frames \in Seq(FrameType) /\ frames' \in Seq(FrameType) /\ n \in Nat
        /\ Len(frames') = n + 1 /\ frames'[n + 1] = f
        /\ \A i \in 1 .. n : frames'[i] = frames[i]
    BY DEF StackInv, StackTypes
  <1> HIDE DEF n
  <1>2. \A o : SumOf(Exports(frames', o)) = SumOf(Exports(frames, o)) + ExportOf(f, o)
    <2> TAKE o
    <2>1. Len(frames') = Len(frames) + 1 /\ \A i \in 1 .. Len(frames) : frames'[i] = frames[i]
      BY <1>1 DEF n
    <2>2. SumOf(Exports(frames', o)) = SumOf(Exports(frames, o)) + ExportOf(frames'[Len(frames')], o)
      BY <1>1, <2>1, ExportsPushed
    <2> QED BY <1>1, <2>2
  <1>3. ASSUME NEW i \in 1 .. Len(frames')
        PROVE  /\ frames'[i].args \subseteq Born \cup f.args
               /\ frames'[i].kind = "init" => \E e \in Objects : frames'[i].args = {e}
               /\ frames'[i].kind = "complete" => i = 1
    <2>1. i \in 1 .. n \/ i = n + 1 BY <1>1
    <2>2. CASE i \in 1 .. n
      <3>1. frames'[i] = frames[i] BY <1>1, <2>2
      <3> QED BY <2>2, <3>1 DEF n, HeapInv, BornInv, CallInv
    <2>3. CASE i = n + 1
      <3>1. frames'[i] = f BY <1>1, <2>3
      <3>2. f.kind = "complete" => i = 1 BY <2>3 DEF n
      <3> QED BY <3>1, <3>2
    <2> QED BY <2>1, <2>2, <2>3
  <1> QED BY <1>2, <1>3

LEMMA EnterHeap ==
    ASSUME StackInv, StackInv', HeapInv, UNCHANGED <<refs, pending, lost>>, NEW f \in FrameType,
           frames' = Append(frames, f), scopes' = scopes \/ scopes' = OpenScope(scopes),
           f.kind = "init" => \E e \in Objects : f.args = {e},
           f.kind = "complete" => frames = <<>>,
           NEW K, Grown(K), script' \subseteq Born \cup K, f.args \subseteq Born \cup K,
           \A o \in Objects : obj'[o].rc - obj[o].rc = ExportOf(f, o)
    PROVE  HeapInv'
  <1>0. /\ scopes \in Seq(ScopeType) /\ lost \subseteq Born /\ pending.of \in Born \cup {None}
        /\ \A o \in Objects : /\ SumOf(Handles(scopes, o)) \in Nat
                              /\ SumOf(Exports(frames, o)) \in Nat
    BY HeapFacts
  <1>1. /\ \A o : SumOf(Exports(frames', o)) = SumOf(Exports(frames, o)) + ExportOf(f, o)
        /\ \A i \in 1 .. Len(frames') : frames'[i].args \subseteq Born \cup f.args
        /\ \A i \in 1 .. Len(frames') :
             /\ frames'[i].kind = "init" => \E e \in Objects : frames'[i].args = {e}
             /\ frames'[i].kind = "complete" => i = 1
    BY FrameIn
  <1>2. Known(K) BY <1>0, <1>1 DEF Known
  <1>3. CallInv' BY <1>1 DEF CallInv, HeapInv
  <1>4. ASSUME NEW o \in Objects \ lost'
        PROVE  SumOf(Handles(scopes', o)) + One(o, pending'.of) + SumOf(Exports(frames', o))
               = SumOf(Handles(scopes, o)) + One(o, pending.of) + SumOf(Exports(frames, o))
                 + (obj'[o].rc - obj[o].rc)
    <2>1. SumOf(Handles(scopes', o)) = SumOf(Handles(scopes, o)) BY <1>0, OpenCounts
    <2>2. SumOf(Exports(frames', o)) = SumOf(Exports(frames, o)) + (obj'[o].rc - obj[o].rc)
      BY <1>1
    <2>3. obj'[o].rc - obj[o].rc \in Int BY DEF ExportOf
    <2>4. One(o, pending'.of) = One(o, pending.of) /\ One(o, pending.of) \in Nat BY DEF One
    <2>5. SumOf(Handles(scopes, o)) \in Nat /\ SumOf(Exports(frames, o)) \in Nat BY <1>0
    <2> QED BY ONLY <2>1, <2>2, <2>3, <2>4, <2>5
  <1> QED BY <1>2, <1>3, <1>4, CallStep

\* The frame on top is left.
LEMMA FrameOut ==
    ASSUME StackInv, HeapInv, frames # <<>>, frames' = Front(frames)
    PROVE  /\ \A o : /\ SumOf(Exports(frames, o)) = SumOf(Exports(frames', o)) + ExportOf(Top, o)
                     /\ SumOf(Exports(frames', o)) \in Nat
           /\ \A i \in 1 .. Len(frames') : frames'[i].args \subseteq Born
           /\ \A i \in 1 .. Len(frames') :
                /\ frames'[i].kind = "init" => \E e \in Objects : frames'[i].args = {e}
                /\ frames'[i].kind = "complete" => i = 1
           /\ Top.args \subseteq Born
           /\ Top.kind = "init" => \E e \in Objects : Top.args = {e}
           /\ Top.kind = "complete" => Len(frames) = 1
  <1> DEFINE n == Len(frames)
  <1>1. frames \in Seq(FrameType) /\ n \in Nat \ {0} BY DEF StackInv, StackTypes
  <1>2. /\ frames' \in Seq(FrameType) /\ Len(frames') = n - 1
        /\ \A i \in 1 .. n - 1 : frames'[i] = frames[i]
    BY <1>1, FrontKept
  <1>3. Len(frames) = Len(frames') + 1 /\ \A i \in 1 .. Len(frames') : frames[i] = frames'[i]
    BY <1>1, <1>2
  <1>4. \A o : /\ SumOf(Exports(frames, o)) = SumOf(Exports(frames', o)) + ExportOf(Top, o)
               /\ SumOf(Exports(frames', o)) \in Nat
    BY <1>1, <1>2, <1>3, ExportsPushed, ExportsAre DEF Top
  <1>5. \A i \in 1 .. Len(frames') : i \in 1 .. Len(frames) /\ frames'[i] = frames[i]
    BY <1>1, <1>2
  <1>6. n \in 1 .. Len(frames) /\ Top = frames[n] BY <1>1 DEF Top
  <1>7. \A i \in 1 .. Len(frames) :
           /\ frames[i].args \subseteq Born
           /\ frames[i].kind = "init" => \E e \in Objects : frames[i].args = {e}
           /\ frames[i].kind = "complete" => i = 1
    BY DEF HeapInv, BornInv, CallInv
  <1> QED BY <1>4, <1>5, <1>6, <1>7

LEMMA LeaveHeap ==
    ASSUME StackInv, StackInv', HeapInv, frames # <<>>, frames' = Front(frames),
           UNCHANGED refs, pending' = NoException,
           NEW i \in 1 .. Len(scopes) + 1, scopes' = CloseScope(scopes, i),
           lost \subseteq lost', lost' \subseteq Born, script' \subseteq Born,
           obj' \in [Objects -> ObjType],
           \A o \in Objects :
               /\ Alike(obj'[o], obj[o])
               /\ o \notin lost' =>
                    obj'[o].rc = obj[o].rc - Owned(scopes, i, o) - One(o, pending.of)
                                 - ExportOf(Top, o)
    PROVE  HeapInv'
  <1>0. /\ scopes \in Seq(ScopeType) /\ lost \subseteq Born /\ pending.of \in Born \cup {None}
        /\ \A o \in Objects : /\ SumOf(Handles(scopes, o)) \in Nat /\ o # None
                              /\ SumOf(Exports(frames, o)) \in Nat /\ obj[o].rc \in Int
    BY HeapFacts
  <1>1. /\ \A o : /\ SumOf(Exports(frames, o)) = SumOf(Exports(frames', o)) + ExportOf(Top, o)
                  /\ SumOf(Exports(frames', o)) \in Nat
        /\ \A k \in 1 .. Len(frames') : frames'[k].args \subseteq Born
        /\ \A k \in 1 .. Len(frames') :
             /\ frames'[k].kind = "init" => \E e \in Objects : frames'[k].args = {e}
             /\ frames'[k].kind = "complete" => k = 1
        /\ Top.args \subseteq Born
    BY FrameOut
  <1>2. pending'.of = None BY DEF NoException
  <1>3. Known({}) BY <1>1, <1>2 DEF Known
  <1>4. CallInv' BY <1>1, <1>2 DEF CallInv
  <1>5. \A o \in Objects : Owned(scopes, i, o) \in Nat /\ Owned(scopes, i, o) <= SumOf(Handles(scopes, o))
    BY <1>0, OwnedBound
  <1>6. ASSUME NEW o \in Objects, o \notin Born PROVE obj'[o].rc = obj[o].rc
    <2>1. SumOf(Handles(scopes, o)) = 0 BY <1>6, UnbornHandles
    <2>2. Owned(scopes, i, o) = 0 BY <1>5, <2>1
    <2>3. One(o, pending.of) = 0 /\ ExportOf(Top, o) = 0 /\ o \notin lost'
      BY <1>0, <1>1, <1>6 DEF One, ExportOf
    <2> QED BY <1>0, <2>2, <2>3
  <1>7. Grown({}) BY <1>6, NoneBorn
  <1>8. ASSUME NEW o \in Objects \ lost'
        PROVE  SumOf(Handles(scopes', o)) + One(o, pending'.of) + SumOf(Exports(frames', o))
               = SumOf(Handles(scopes, o)) + One(o, pending.of) + SumOf(Exports(frames, o))
                 + (obj'[o].rc - obj[o].rc)
    <2> DEFINE h == SumOf(Handles(scopes, o))
               y == SumOf(Exports(frames', o))
               e == ExportOf(Top, o)
               p == One(o, pending.of)
               w == Owned(scopes, i, o)
               a == obj[o].rc
               b == obj'[o].rc
    <2>1. SumOf(Handles(scopes', o)) = h - w BY <1>0, CloseCounts
    <2>2. One(o, pending'.of) = 0 BY <1>0, <1>2 DEF One
    <2>3. SumOf(Exports(frames, o)) = y + e BY <1>1
    <2>4. b = a - w - p - e OBVIOUS
    <2>5. h \in Nat /\ y \in Nat /\ w \in Nat /\ a \in Int BY <1>0, <1>1, <1>5
    <2>6. e \in Nat /\ p \in Nat BY DEF ExportOf, One
    <2> HIDE DEF h, y, e, p, w, a, b
    <2>7. (h - w) + 0 + y = h + p + (y + e) + (b - a) BY ONLY <2>4, <2>5, <2>6
    <2> QED BY <2>1, <2>2, <2>3, <2>7 DEF h, y, p, a, b
  <1> QED BY <1>3, <1>4, <1>7, <1>8, CallStep

\* The script calls a native function, the addon calls the script, an addon is
\* initialised.
LEMMA CallsHeap ==
    ASSUME StackInv, StackInv', HeapInv, CallFunction \/ FunctionHandler \/ InitPending
    PROVE  HeapInv'
  <1>0. /\ obj \in [Objects -> ObjType] /\ script \subseteq Born /\ Born \subseteq Objects
        /\ \A o \in Objects : obj[o].rc \in Int /\ o # None
    BY HeapFacts
  <1>1. Len(scopes) \in Nat BY StackNumbers
  <1>2. \A k \in {"js", "function", "init", "complete"} : \A as \in SUBSET Objects :
           /\ Frame(k, as) \in FrameType
           /\ Frame(k, as).kind = k /\ Frame(k, as).args = as
    BY <1>1 DEF Frame, FrameType
  <1>3. CASE CallFunction
    <2>1. /\ frames' = Append(frames, Frame("js", {}))
          /\ UNCHANGED <<obj, refs, scopes, pending, script, lost>>
      BY <1>3 DEF CallFunction
    <2>2. Grown({})
      <3>1. \A o \in Objects : Alike(obj'[o], obj[o]) BY <2>1 DEF Alike
      <3> QED BY <1>0, <2>1, <3>1, NoneBorn
    <2> DEFINE f == Frame("js", {})
    <2>3. f \in FrameType /\ f.kind = "js" /\ f.args = {} BY <1>2
    <2>4. frames' = Append(frames, f) BY <2>1
    <2> HIDE DEF f
    <2>5. \A o \in Objects : obj'[o].rc - obj[o].rc = ExportOf(f, o)
      BY <1>0, <2>1, <2>3 DEF ExportOf
    <2>6. script' \subseteq Born \cup {} /\ f.args \subseteq Born \cup {} BY <1>0, <2>1, <2>3
    <2> QED BY <2>1, <2>2, <2>3, <2>4, <2>5, <2>6, EnterHeap
  <1>4. CASE FunctionHandler
    <2>1. PICK as \in {{}} \cup {{o} : o \in script \cup Fresh} :
            /\ frames' = Append(frames, Frame("function", as))
            /\ obj' = [o \in Objects |-> IF o \in as \cap Fresh THEN [obj[o] EXCEPT !.st = "live"]
                                         ELSE obj[o]]
            /\ script' = script \cup as
      BY <1>4 DEF FunctionHandler
    <2>2. scopes' = OpenScope(scopes) /\ UNCHANGED <<refs, pending, lost>>
      BY <1>4 DEF FunctionHandler
    <2> DEFINE K == as \cap Fresh
               f == Frame("function", as)
    <2>3. as \subseteq script \cup Fresh /\ Fresh \subseteq Objects BY <2>1 DEF Fresh
    <2>4. as \in SUBSET Objects BY <1>0, <2>3
    <2>5. f \in FrameType /\ f.kind = "function" /\ f.args = as BY <1>2, <2>4
    <2>6. script' \subseteq Born \cup K /\ as \subseteq Born \cup K BY <1>0, <2>1, <2>3
    <2>7. \A o \in K : o \in Objects \ Born /\ \A p \in Objects : p < o => p \in Born
      BY FreshIs DEF HeapInv
    <2>8. ASSUME NEW o \in Objects
          PROVE  /\ obj'[o] \in ObjType
                 /\ o \in K => obj'[o].st = "live"
                 /\ o \notin K => obj'[o].st = obj[o].st
                 /\ obj'[o].refStart = obj[o].refStart /\ obj'[o].refEnd = obj[o].refEnd
                 /\ obj'[o].rc = obj[o].rc /\ obj'[o].prop = obj[o].prop
      <3>1. obj[o] \in ObjType BY <1>0
      <3>2. CASE o \in K
        <4> DEFINE v == [obj[o] EXCEPT !.st = "live"]
        <4>1. obj'[o] = v BY <2>1, <3>2
        <4>2. /\ v \in ObjType /\ v.st = "live" /\ v.refStart = obj[o].refStart
              /\ v.refEnd = obj[o].refEnd /\ v.rc = obj[o].rc /\ v.prop = obj[o].prop
          BY ONLY <3>1 DEF ObjType
        <4> HIDE DEF v
        <4> QED BY <3>2, <4>1, <4>2
      <3>3. CASE o \notin K
        <4>1. obj'[o] = obj[o] BY <2>1, <3>3
        <4> QED BY <3>1, <3>3, <4>1
      <3> QED BY <3>2, <3>3
    <2>9. obj' \in [Objects -> ObjType]
      <3>1. obj' = [o \in Objects |-> obj'[o]] BY <2>1
      <3> QED BY <2>8, <3>1
    <2>10. \A o \in Objects : obj[o].prop \in Born \cup {None} BY DEF HeapInv, BornInv
    <2>11. frames' = Append(frames, f) BY <2>1
    <2> HIDE DEF K, f
    <2>12. Grown(K)
      <3>1. K \subseteq Objects \ Born BY <2>7
      <3>2. \A o \in K : obj'[o].st = "live" /\ \A p \in Objects : p < o => p \in Born \cup K
        BY <2>7, <2>8
      <3>3. \A o \in Objects :
               /\ o \notin K => obj'[o].st = obj[o].st
               /\ obj'[o].refStart = obj[o].refStart /\ obj'[o].refEnd = obj[o].refEnd
               /\ o \notin Born \cup K => obj'[o].rc = obj[o].rc
               /\ obj'[o].prop \in Born \cup K \cup {None}
        BY <2>8, <2>10
      <3> QED BY ONLY <2>9, <3>1, <3>2, <3>3 DEF Grown
    <2>13. \A o \in Objects : obj'[o].rc - obj[o].rc = ExportOf(f, o)
      BY <1>0, <2>5, <2>8 DEF ExportOf
    <2>14. f.args \subseteq Born \cup K BY <2>5, <2>6
    <2> QED BY <2>2, <2>5, <2>6, <2>11, <2>12, <2>13, <2>14, EnterHeap
  <1>5. CASE InitPending
    <2>1. PICK e \in Fresh : frames' = Append(frames, Frame("init", {e})) /\ obj' = Created(obj, e)
      BY <1>5 DEF InitPending
    <2>2. scopes' = OpenScope(scopes) /\ UNCHANGED <<refs, pending, lost, script>>
      BY <1>5 DEF InitPending
    <2>3. /\ e \in Objects \ Born /\ obj[e].rc = 0 /\ \A p \in Objects : p < e => p \in Born
      BY FreshIs DEF HeapInv
    <2> DEFINE f == Frame("init", {e})
    <2>4. f \in FrameType /\ f.kind = "init" /\ f.args = {e} BY <1>2, <2>3
    <2>5. Newborn(obj, obj', e) /\ obj'[e].prop = obj[e].prop BY <1>0, <2>1, <2>3, CreatedIs
    <2>6. frames' = Append(frames, f) BY <2>1
    <2> HIDE DEF f
    <2>7. Grown({e})
      <3>1. \A o \in Objects : obj[o].prop \in Born \cup {None} BY DEF HeapInv, BornInv
      <3> QED BY <2>3, <2>5, <3>1 DEF Grown, Newborn
    <2>8. ASSUME NEW o \in Objects PROVE obj'[o].rc - obj[o].rc = ExportOf(f, o)
      <3>1. CASE o = e BY <2>3, <2>4, <2>5, <3>1 DEF Newborn, ExportOf
      <3>2. CASE o # e BY <1>0, <2>4, <2>5, <3>2 DEF Newborn, ExportOf
      <3> QED BY <3>1, <3>2
    <2>9. script' \subseteq Born \cup {e} /\ f.args \subseteq Born \cup {e} BY <1>0, <2>2, <2>4
    <2>10. f.kind = "init" => \E x \in Objects : f.args = {x} BY <2>3, <2>4
    <2> QED BY <2>2, <2>4, <2>6, <2>7, <2>8, <2>9, <2>10, EnterHeap
  <1> QED BY <1>3, <1>4, <1>5

\* An error is made that the current scope owns, and the env as well.
LEMMA ErrorMade ==
    ASSUME StackInv, HeapInv, Len(scopes) > 0, NEW e \in Fresh,
           obj' = Acquired(Created(obj, e), e), scopes' = HandleIn(scopes, e)
    PROVE  /\ Grown({e}) /\ e \in Objects
           /\ \A o \in Objects :
                /\ SumOf(Handles(scopes', o)) = SumOf(Handles(scopes, o)) + One(o, e)
                /\ obj'[o].rc - obj[o].rc = One(o, e) + One(o, e)
  <1>0. /\ obj \in [Objects -> ObjType] /\ scopes \in Seq(ScopeType)
        /\ \A o \in Objects : obj[o].rc \in Int /\ obj[o].prop \in Born \cup {None}
    BY HeapFacts DEF HeapInv, BornInv
  <1>1. /\ e \in Objects \ Born /\ obj[e].rc = 0 /\ \A p \in Objects : p < e => p \in Born
    BY FreshIs DEF HeapInv
  <1> DEFINE c == Created(obj, e)
  <1>2. Newborn(obj, c, e) /\ c[e].prop = obj[e].prop BY <1>0, <1>1, CreatedIs
  <1> HIDE DEF c
  <1>3. c \in [Objects -> ObjType] BY <1>2 DEF Newborn
  <1>4. /\ obj' \in [Objects -> ObjType]
        /\ \A o \in Objects : obj'[o].rc = c[o].rc + One(o, e) /\ Alike(obj'[o], c[o])
    BY <1>1, <1>3, AcquiredIs DEF c
  <1>5. ASSUME NEW o \in Objects PROVE obj'[o].rc - obj[o].rc = One(o, e) + One(o, e)
    <2>1. CASE o = e BY <1>1, <1>2, <1>4, <2>1 DEF Newborn, One
    <2>2. CASE o # e BY <1>0, <1>2, <1>4, <2>2 DEF Newborn, One
    <2> QED BY <2>1, <2>2
  <1>6. Grown({e})
    <2>1. \A o \in Objects : /\ o # e => c[o] = obj[o]
                             /\ c[o].refStart = obj[o].refStart /\ c[o].refEnd = obj[o].refEnd
                             /\ c[o].prop = obj[o].prop
      BY <1>2 DEF Newborn
    <2>2. obj'[e].st = "live" BY <1>1, <1>2, <1>4 DEF Newborn, Alike
    <2>3. \A o \in Objects : o # e => obj'[o].rc = obj[o].rc
      BY <1>0, <1>4, <2>1 DEF One
    <2>4. \A o \in Objects : /\ o # e => obj'[o].st = obj[o].st
                             /\ obj'[o].refStart = obj[o].refStart
                             /\ obj'[o].refEnd = obj[o].refEnd /\ obj'[o].prop = obj[o].prop
      BY <1>4, <2>1 DEF Alike
    <2> QED BY <1>0, <1>1, <1>4, <2>2, <2>3, <2>4 DEF Grown
  <1>7. \A o \in Objects : SumOf(Handles(scopes', o)) = SumOf(Handles(scopes, o)) + One(o, e)
    BY <1>0, <1>1, HandleCounts
  <1> QED BY <1>1, <1>5, <1>6, <1>7

\* napi_throw, napi_throw_error and its kin, napi_fatal_exception: nothing was pending.
LEMMA ThrowsHeap ==
    ASSUME StackInv, StackInv', HeapInv, Throw \/ ThrowError \/ FatalException
    PROVE  HeapInv'
  <1>0. /\ InAddon /\ pending.kind = "none" /\ UNCHANGED <<refs, frames, script, lost>>
    BY DEF Throw, ThrowError, FatalException, Api, IsExceptionPending
  <1>1. /\ obj \in [Objects -> ObjType] /\ script \subseteq Born /\ Born \subseteq Objects
        /\ lost \subseteq Born /\ pending.of = None
        /\ \A i \in 1 .. Len(frames) : frames[i].args \subseteq Born
        /\ \A o \in Objects : /\ obj[o].rc \in Int /\ o # None
                              /\ SumOf(Handles(scopes, o)) \in Nat
                              /\ SumOf(Exports(frames, o)) \in Nat
    BY <1>0, HeapFacts
  <1>2. ASSUME NEW e \in Objects, NEW K, Grown(K), e \in Born \cup K, pending'.of = e,
               pending'.kind # "none", NEW s \in {0, 1},
               \A o \in Objects :
                   /\ SumOf(Handles(scopes', o)) = SumOf(Handles(scopes, o)) + s * One(o, e)
                   /\ obj'[o].rc - obj[o].rc = One(o, e) + s * One(o, e)
        PROVE  HeapInv'
    <2>1. Known(K) BY <1>0, <1>1, <1>2 DEF Known
    <2>2. CallInv' BY <1>0, <1>2 DEF CallInv, HeapInv
    <2>3. ASSUME NEW o \in Objects \ lost'
          PROVE  SumOf(Handles(scopes', o)) + One(o, pending'.of) + SumOf(Exports(frames', o))
                 = SumOf(Handles(scopes, o)) + One(o, pending.of) + SumOf(Exports(frames, o))
                   + (obj'[o].rc - obj[o].rc)
      <3> DEFINE h == SumOf(Handles(scopes, o))
                 x == SumOf(Exports(frames, o))
      <3>1. h \in Nat /\ x \in Nat BY <1>1
      <3>2. One(o, pending.of) = 0 BY <1>1 DEF One
      <3>3. SumOf(Exports(frames', o)) = x BY <1>0
      <3>4. CASE o = e
        <4>1. One(o, e) = 1 /\ s * 1 = s BY <3>4 DEF One
        <4>2. SumOf(Handles(scopes', o)) = h + s /\ obj'[o].rc - obj[o].rc = 1 + s
          BY <1>2, <4>1
        <4>3. One(o, pending'.of) = 1 BY <1>2, <4>1
        <4> HIDE DEF h, x
        <4>4. (h + s) + 1 + x = h + 0 + x + (1 + s) BY <3>1
        <4> QED BY <3>2, <3>3, <4>2, <4>3, <4>4 DEF h, x
      <3>5. CASE o # e
        <4>1. One(o, e) = 0 /\ s * 0 = 0 BY <3>5 DEF One
        <4>2. SumOf(Handles(scopes', o)) = h /\ obj'[o].rc - obj[o].rc = 0
          BY <1>2, <3>1, <4>1
        <4>3. One(o, pending'.of) = 0 BY <1>2, <4>1
        <4> HIDE DEF h, x
        <4> QED BY <3>1, <3>2, <3>3, <4>2, <4>3 DEF h, x
      <3> QED BY <3>4, <3>5
    <2> QED BY <1>0, <1>2, <2>1, <2>2, <2>3, CallStep
  <1>3. CASE Throw \/ FatalException
    <2>1. PICK e \in Usable : /\ pending'.of = e /\ pending'.kind # "none"
                              /\ obj' = Acquired(obj, e) /\ UNCHANGED scopes
      <3>1. PICK e \in Usable, k \in {"throw", "fatal"} :
              /\ pending' = [kind |-> k, of |-> e, at |-> Len(frames)]
              /\ obj' = Acquired(obj, e) /\ UNCHANGED scopes
        BY <1>3 DEF Throw, FatalException
      <3>2. pending'.of = e /\ pending'.kind # "none" BY <3>1
      <3> QED BY <3>1, <3>2
    <2>2. e \in Born /\ e \in Objects BY <1>1, UsableBorn
    <2>3. /\ obj' \in [Objects -> ObjType]
          /\ \A o \in Objects : obj'[o].rc = obj[o].rc + One(o, e) /\ Alike(obj'[o], obj[o])
      BY <1>1, <2>1, <2>2, AcquiredIs
    <2>4. Grown({})
      <3>1. \A o \in Objects : o \notin Born => obj'[o].rc = obj[o].rc BY <1>1, <2>2, <2>3 DEF One
      <3> QED BY <2>3, <3>1, NoneBorn
    <2>5. ASSUME NEW o \in Objects
          PROVE  /\ SumOf(Handles(scopes', o)) = SumOf(Handles(scopes, o)) + 0 * One(o, e)
                 /\ obj'[o].rc - obj[o].rc = One(o, e) + 0 * One(o, e)
      <3>1. 0 * One(o, e) = 0 /\ One(o, e) \in Nat BY DEF One
      <3>2. SumOf(Handles(scopes', o)) = SumOf(Handles(scopes, o)) + 0 BY <1>1, <2>1
      <3>3. obj'[o].rc - obj[o].rc = One(o, e) + 0 BY <1>1, <2>3, <3>1
      <3> QED BY <3>1, <3>2, <3>3
    <2> QED BY <1>2, <2>1, <2>2, <2>4, <2>5
  <1>4. CASE ThrowError
    <2>1. PICK e \in Fresh : /\ scopes' = HandleIn(scopes, e)
                             /\ obj' = Acquired(Created(obj, e), e)
                             /\ pending' = [kind |-> "throw", of |-> e, at |-> Len(frames)]
      BY <1>4 DEF ThrowError, CreateHandle
    <2>2. pending'.of = e /\ pending'.kind # "none" BY <2>1
    <2>3. Len(scopes) > 0 BY <1>0, TopHasScope
    <2>4. /\ Grown({e}) /\ e \in Objects
          /\ \A o \in Objects :
               /\ SumOf(Handles(scopes', o)) = SumOf(Handles(scopes, o)) + One(o, e)
               /\ obj'[o].rc - obj[o].rc = One(o, e) + One(o, e)
      BY <2>1, <2>3, ErrorMade
    <2>5. \A o : 1 * One(o, e) = One(o, e) BY DEF One
    <2> QED BY <1>2, <2>2, <2>4, <2>5
  <1> QED BY <1>3, <1>4

\* napi_get_and_clear_last_exception
LEMMA ClearHeap ==
    ASSUME StackInv, StackInv', HeapInv, GetAndClearLastException PROVE HeapInv'
  <1>0. /\ InAddon /\ pending.kind # "none" /\ pending' = NoException
        /\ obj' = Released(obj, pending.of) /\ UNCHANGED <<refs, scopes, script, lost>>
        /\ frames' = [frames EXCEPT ![Len(frames)].loose = @ \cup {pending.of}]
    BY DEF GetAndClearLastException, Api, IsExceptionPending
  <1>1. /\ obj \in [Objects -> ObjType] /\ script \subseteq Born /\ lost \subseteq Born
        /\ frames \in Seq(FrameType) /\ pending.of \in Born \cup {None}
        /\ \A i \in 1 .. Len(frames) : frames[i].args \subseteq Born
        /\ \A o \in Objects : /\ obj[o].rc \in Int /\ o # None
                              /\ SumOf(Handles(scopes, o)) \in Nat
                              /\ SumOf(Exports(frames, o)) \in Nat
    BY HeapFacts
  <1>2. pending.of \in Objects BY <1>0 DEF StackInv, StackTypes
  <1> DEFINE e == pending.of
  <1>3. e \in Objects /\ e \in Born BY <1>1, <1>2
  <1>4. /\ obj' \in [Objects -> ObjType]
        /\ \A o \in Objects : obj'[o].rc = obj[o].rc - One(o, e) /\ Alike(obj'[o], obj[o])
    BY <1>0, <1>1, <1>3, ReleasedIs
  <1>5. Grown({})
    <2>1. \A o \in Objects : o \notin Born => obj'[o].rc = obj[o].rc BY <1>1, <1>3, <1>4 DEF One
    <2> QED BY <1>4, <2>1, NoneBorn
  <1>6. frames' \in Seq(FrameType) /\ Len(frames) > 0
    BY <1>0, TopHasScope DEF StackInv, StackTypes
  <1>7. /\ Len(frames') = Len(frames)
        /\ \A i \in 1 .. Len(frames) :
             frames'[i].kind = frames[i].kind /\ frames'[i].args = frames[i].args
    BY <1>0, <1>1, <1>6, LooseIs
  <1>8. pending'.of = None BY <1>0 DEF NoException
  <1>9. Known({}) BY <1>0, <1>1, <1>7, <1>8 DEF Known
  <1>10. CallInv' BY <1>7, <1>8 DEF HeapInv, CallInv
  <1>11. ASSUME NEW o \in Objects \ lost'
         PROVE  SumOf(Handles(scopes', o)) + One(o, pending'.of) + SumOf(Exports(frames', o))
                = SumOf(Handles(scopes, o)) + One(o, pending.of) + SumOf(Exports(frames, o))
                  + (obj'[o].rc - obj[o].rc)
    <2>1. SumOf(Exports(frames', o)) = SumOf(Exports(frames, o)) BY <1>1, <1>6, <1>7, ExportsSame
    <2>2. One(o, pending'.of) = 0 BY <1>1, <1>8 DEF One
    <2>3. obj'[o].rc - obj[o].rc = - One(o, e) /\ One(o, e) \in Nat BY <1>1, <1>4 DEF One
    <2>4. /\ SumOf(Handles(scopes', o)) = SumOf(Handles(scopes, o))
          /\ SumOf(Handles(scopes, o)) \in Nat /\ SumOf(Exports(frames, o)) \in Nat
      BY <1>0, <1>1
    <2> QED BY <2>1, <2>2, <2>3, <2>4
  <1> QED BY <1>0, <1>5, <1>9, <1>10, <1>11, CallStep

\* The frame of the script is left, and the counts move with the handles.
LEMMA ScriptLeft ==
    ASSUME StackInv, StackInv', HeapInv, frames # <<>>, Top.kind = "js", frames' = Front(frames),
           UNCHANGED <<refs, script, lost, pending>>, NEW K, Grown(K),
           \A o \in Objects :
               SumOf(Handles(scopes', o)) = SumOf(Handles(scopes, o)) + (obj'[o].rc - obj[o].rc)
    PROVE  HeapInv'
  <1>1. /\ obj \in [Objects -> ObjType] /\ script \subseteq Born /\ lost \subseteq Born
        /\ \A o \in Objects : /\ obj[o].rc \in Int /\ o # None
                              /\ SumOf(Handles(scopes, o)) \in Nat
                              /\ SumOf(Exports(frames, o)) \in Nat
        /\ pending.of \in Born \cup {None}
        /\ pending.kind = "none" => pending.of = None
    BY HeapFacts
  <1>2. /\ \A o : /\ SumOf(Exports(frames, o)) = SumOf(Exports(frames', o)) + ExportOf(Top, o)
                  /\ SumOf(Exports(frames', o)) \in Nat
        /\ \A k \in 1 .. Len(frames') : frames'[k].args \subseteq Born
        /\ \A k \in 1 .. Len(frames') :
             /\ frames'[k].kind = "init" => \E e \in Objects : frames'[k].args = {e}
             /\ frames'[k].kind = "complete" => k = 1
    BY FrameOut
  <1>3. \A o : SumOf(Exports(frames', o)) = SumOf(Exports(frames, o)) BY <1>2 DEF ExportOf
  <1>4. Known(K) BY <1>1, <1>2 DEF Known
  <1>5. CallInv' BY <1>1, <1>2 DEF CallInv
  <1>6. ASSUME NEW o \in Objects \ lost'
        PROVE  SumOf(Handles(scopes', o)) + One(o, pending'.of) + SumOf(Exports(frames', o))
               = SumOf(Handles(scopes, o)) + One(o, pending.of) + SumOf(Exports(frames, o))
                 + (obj'[o].rc - obj[o].rc)
    <2> DEFINE d == obj'[o].rc - obj[o].rc
    <2>1. d \in Int
      <3>1. obj'[o] \in ObjType BY DEF Grown
      <3> QED BY <1>1, <3>1 DEF ObjType
    <2>2. SumOf(Handles(scopes', o)) = SumOf(Handles(scopes, o)) + d OBVIOUS
    <2>3. One(o, pending'.of) = One(o, pending.of) /\ One(o, pending.of) \in Nat BY DEF One
    <2>4. SumOf(Handles(scopes, o)) \in Nat /\ SumOf(Exports(frames, o)) \in Nat BY <1>1
    <2> HIDE DEF d
    <2>5. SumOf(Handles(scopes', o)) + One(o, pending'.of) + SumOf(Exports(frames', o))
          = SumOf(Handles(scopes, o)) + One(o, pending.of) + SumOf(Exports(frames, o)) + d
      BY <1>3, <2>1, <2>2, <2>3, <2>4
    <2> QED BY <2>5 DEF d
  <1> QED BY <1>4, <1>5, <1>6, CallStep

\* The rest of napi_call_function: the frame of the script is left.
LEMMA CalledHeap ==
    ASSUME StackInv, StackInv', HeapInv, FunctionCalled PROVE HeapInv'
  <1>0. /\ frames # <<>> /\ Top.kind = "js" /\ frames' = Front(frames)
        /\ UNCHANGED <<refs, script, lost>>
    BY DEF FunctionCalled, InJsBy
  <1>1. /\ obj \in [Objects -> ObjType] /\ script \subseteq Born /\ lost \subseteq Born
        /\ \A o \in Objects : /\ obj[o].rc \in Int /\ o # None
                              /\ SumOf(Handles(scopes, o)) \in Nat
                              /\ SumOf(Exports(frames, o)) \in Nat
        /\ pending.kind = "none" => pending.of = None
    BY HeapFacts
  <1>2. /\ \A o : /\ SumOf(Exports(frames, o)) = SumOf(Exports(frames', o)) + ExportOf(Top, o)
                  /\ SumOf(Exports(frames', o)) \in Nat
        /\ \A k \in 1 .. Len(frames') : frames'[k].args \subseteq Born
        /\ \A k \in 1 .. Len(frames') :
             /\ frames'[k].kind = "init" => \E e \in Objects : frames'[k].args = {e}
             /\ frames'[k].kind = "complete" => k = 1
    BY <1>0, FrameOut
  <1>3. \A o : SumOf(Exports(frames', o)) = SumOf(Exports(frames, o))
    BY <1>0, <1>2 DEF ExportOf
  <1>4. pending.kind = "none" /\ pending.of = None
    BY <1>1, ScriptHasNoException DEF FunctionCalled
  <1>5. Len(scopes) > 0
    <2>1. Len(frames) \in 1 .. Len(frames) /\ Len(scopes) \in Nat
      BY <1>0, StackNumbers DEF StackInv, StackTypes
    <2>2. Len(frames) > 1 /\ frames[Len(frames) - 1].kind # "js"
      BY <1>0, <2>1 DEF StackInv, FramesNest, Top
    <2>3. Len(frames) - 1 \in 1 .. Len(frames) BY <2>1, <2>2
    <2>4. frames[Len(frames) - 1].base < Len(scopes) BY <2>2, <2>3 DEF StackInv, FramesNest
    <2> QED BY <2>1, <2>3, <2>4, StackNumbers
  <1>6. ASSUME UNCHANGED pending, Grown({}),
               \A o \in Objects :
                   SumOf(Handles(scopes', o)) = SumOf(Handles(scopes, o)) + (obj'[o].rc - obj[o].rc)
        PROVE  HeapInv'
    BY <1>0, <1>6, ScriptLeft
  <1>7. CASE UNCHANGED <<obj, scopes, pending>>
    <2>1. Grown({})
      <3>1. \A o \in Objects : Alike(obj'[o], obj[o]) BY <1>7 DEF Alike
      <3> QED BY <1>1, <1>7, <3>1, NoneBorn
    <2>2. \A o \in Objects :
            SumOf(Handles(scopes', o)) = SumOf(Handles(scopes, o)) + (obj'[o].rc - obj[o].rc)
      <3> TAKE o \in Objects
      <3>1. obj'[o].rc - obj[o].rc = 0 BY <1>1, <1>7
      <3>2. SumOf(Handles(scopes, o)) \in Nat BY <1>1
      <3> QED BY <1>7, <3>1, <3>2
    <2> QED BY <1>6, <1>7, <2>1, <2>2
  <1>8. ASSUME NEW x \in script, obj' = Acquired(obj, x), scopes' = HandleIn(scopes, x),
               UNCHANGED pending
        PROVE  HeapInv'
    <2>1. x \in Born BY <1>1
    <2>2. /\ Grown({})
          /\ \A o \in Objects :
               SumOf(Handles(scopes', o)) = SumOf(Handles(scopes, o)) + (obj'[o].rc - obj[o].rc)
      BY <1>5, <1>8, <2>1, AcquireStep
    <2> QED BY <1>6, <1>8, <2>2
  <1>9. ASSUME NEW e \in Fresh, obj' = Acquired(Created(obj, e), e),
               scopes' = HandleIn(scopes, e),
               pending' = [kind |-> "throw", of |-> e, at |-> Len(frames) - 1]
        PROVE  HeapInv'
    <2>1. /\ Grown({e}) /\ e \in Objects
          /\ \A o \in Objects :
               /\ SumOf(Handles(scopes', o)) = SumOf(Handles(scopes, o)) + One(o, e)
               /\ obj'[o].rc - obj[o].rc = One(o, e) + One(o, e)
      BY <1>5, <1>9, ErrorMade
    <2>2. pending'.of = e /\ pending'.kind # "none" BY <1>9
    <2>3. Known({e}) BY <1>0, <1>1, <1>2, <2>2 DEF Known
    <2>4. CallInv' BY <1>2, <2>2 DEF CallInv
    <2>5. ASSUME NEW o \in Objects \ lost'
          PROVE  SumOf(Handles(scopes', o)) + One(o, pending'.of) + SumOf(Exports(frames', o))
                 = SumOf(Handles(scopes, o)) + One(o, pending.of) + SumOf(Exports(frames, o))
                   + (obj'[o].rc - obj[o].rc)
      <3>1. One(o, pending'.of) = One(o, e) /\ One(o, pending.of) = 0 /\ One(o, e) \in Nat
        BY <1>1, <1>4, <2>2 DEF One
      <3>2. SumOf(Handles(scopes, o)) \in Nat /\ SumOf(Exports(frames, o)) \in Nat BY <1>1
      <3>3. /\ SumOf(Handles(scopes', o)) = SumOf(Handles(scopes, o)) + One(o, e)
            /\ obj'[o].rc - obj[o].rc = One(o, e) + One(o, e)
            /\ SumOf(Exports(frames', o)) = SumOf(Exports(frames, o))
        BY <1>3, <2>1
      <3> QED BY ONLY <3>1, <3>2, <3>3
    <2> QED BY <1>0, <2>1, <2>3, <2>4, <2>5, CallStep
  <1> QED BY <1>7, <1>8, <1>9 DEF FunctionCalled

\* A getter or a setter is run, or returns.
LEMMA AccessorsHeap ==
    ASSUME StackInv, StackInv', HeapInv,
           CallSetter \/ CallGetter \/ SetterReturns \/ GetterReturns
    PROVE  HeapInv'
  <1>0. /\ obj \in [Objects -> ObjType] /\ script \subseteq Born /\ Born \subseteq Objects
        /\ \A o \in Objects : /\ obj[o].rc \in Int /\ o # None
                              /\ SumOf(Handles(scopes, o)) \in Nat
    BY HeapFacts
  <1>1. ASSUME NEW by \in {"get", "set"}, frames' = Append(frames, Accessor(by)),
               script' \subseteq Born, UNCHANGED <<obj, refs, scopes, pending, lost>>
        PROVE  HeapInv'
    <2>1. Grown({})
      <3>1. \A o \in Objects : Alike(obj'[o], obj[o]) BY <1>1 DEF Alike
      <3> QED BY <1>0, <1>1, <3>1, NoneBorn
    <2> DEFINE f == Accessor(by)
    <2>2. f \in FrameType /\ f.kind = "js" /\ f.args = {} BY StackNumbers, AccessorIs
    <2>3. frames' = Append(frames, f) BY <1>1
    <2> HIDE DEF f
    <2>4. \A o \in Objects : obj'[o].rc - obj[o].rc = ExportOf(f, o)
      BY <1>0, <1>1, <2>2 DEF ExportOf
    <2>5. script' \subseteq Born \cup {} /\ f.args \subseteq Born \cup {} BY <1>1, <2>2
    <2> QED BY <1>1, <2>1, <2>2, <2>3, <2>4, <2>5, EnterHeap
  <1>2. CASE CallSetter
    <2>1. script' \subseteq Born BY <1>0, <1>2, UsableBorn DEF CallSetter
    <2> QED BY <1>1, <1>2, <2>1 DEF CallSetter
  <1>3. CASE CallGetter
    <2>1. script' \subseteq Born BY <1>0, <1>3, UsableBorn DEF CallGetter
    <2> QED BY <1>1, <1>3, <2>1 DEF CallGetter
  <1>4. CASE SetterReturns \/ GetterReturns
    <2>0. /\ frames # <<>> /\ Top.kind = "js" /\ frames' = Front(frames)
          /\ UNCHANGED <<refs, script, lost, pending>>
      BY <1>4 DEF SetterReturns, GetterReturns, InJsBy
    <2>1. Len(scopes) > 0
      <3>1. Len(frames) \in 1 .. Len(frames) /\ Len(scopes) \in Nat
        BY <2>0, StackNumbers DEF StackInv, StackTypes
      <3>2. Len(frames) > 1 /\ frames[Len(frames) - 1].kind # "js"
        BY <2>0, <3>1 DEF StackInv, FramesNest, Top
      <3>3. Len(frames) - 1 \in 1 .. Len(frames) BY <3>1, <3>2
      <3>4. frames[Len(frames) - 1].base < Len(scopes) BY <3>2, <3>3 DEF StackInv, FramesNest
      <3> QED BY <3>1, <3>3, <3>4, StackNumbers
    <2>2. CASE UNCHANGED <<obj, scopes>>
      <3>1. Grown({})
        <4>1. \A o \in Objects : Alike(obj'[o], obj[o]) BY <2>2 DEF Alike
        <4> QED BY <1>0, <2>2, <4>1, NoneBorn
      <3>2. \A o \in Objects :
              SumOf(Handles(scopes', o)) = SumOf(Handles(scopes, o)) + (obj'[o].rc - obj[o].rc)
        <4> TAKE o \in Objects
        <4>1. obj'[o].rc - obj[o].rc = 0 BY <1>0, <2>2
        <4>2. SumOf(Handles(scopes, o)) \in Nat BY <1>0
        <4> QED BY <2>2, <4>1, <4>2
      <3> QED BY <2>0, <3>1, <3>2, ScriptLeft
    <2>3. ASSUME NEW x \in script, obj' = Acquired(obj, x), scopes' = HandleIn(scopes, x)
          PROVE  HeapInv'
      <3>1. x \in Born BY <1>0
      <3>2. /\ Grown({})
            /\ \A o \in Objects :
                 SumOf(Handles(scopes', o)) = SumOf(Handles(scopes, o)) + (obj'[o].rc - obj[o].rc)
        BY <2>1, <2>3, <3>1, AcquireStep
      <3> QED BY <2>0, <3>2, ScriptLeft
    <2>4. ASSUME NEW e \in Fresh, obj' = Created(obj, e), scopes' = HandleIn(scopes, e)
          PROVE  HeapInv'
      <3>1. e \in Objects BY DEF Fresh
      <3>2. Newborn(obj, obj', e) /\ obj'[e].prop = obj[e].prop BY <1>0, <2>4, <3>1, CreatedIs
      <3>3. obj'[e].prop \in Born \cup {None} BY <3>1, <3>2 DEF HeapInv, BornInv
      <3>4. Grown({e}) /\ \A o \in Objects :
              SumOf(Handles(scopes', o)) = SumOf(Handles(scopes, o)) + (obj'[o].rc - obj[o].rc)
        BY <2>1, <2>4, <3>2, <3>3, FreshMade
      <3> QED BY <2>0, <3>4, ScriptLeft
    <2> QED BY <1>4, <2>2, <2>3, <2>4 DEF SetterReturns, GetterReturns
  <1> QED BY <1>2, <1>3, <1>4

\* The functions that make and read values keep the counts.
LEMMA ValuesHeap ==
    ASSUME StackInv, StackInv', HeapInv, NapiValuesCall PROVE HeapInv'
  BY CreateHeap, SetPropertyHeap, GetPropertyHeap, DefinePropertiesHeap, DefineClassHeap,
     AccessorsHeap
     DEF NapiValuesCall, SetProperty, SetNamedProperty, SetElement, GetProperty,
         GetNamedProperty, GetElement

\* The value that a native function returned is taken by the engine.
LEMMA TakenIs ==
    ASSUME NEW ob \in [Objects -> ObjType], NEW v \in Objects \cup {None}
    PROVE  /\ Taken(ob, v) \in [Objects -> ObjType]
           /\ \A o \in Objects : /\ Taken(ob, v)[o].rc = ob[o].rc - One(o, v)
                                 /\ Alike(Taken(ob, v)[o], ob[o])
  <1>1. CASE v = None
    <2>1. Taken(ob, v) = ob BY <1>1 DEF Taken
    <2>2. \A o \in Objects : One(o, v) = 0 /\ ob[o].rc \in Int
      BY <1>1, NapiAssumption DEF One, Objects, None, ObjType
    <2> QED BY <2>1, <2>2 DEF Alike
  <1>2. CASE v # None BY <1>2, ReleasedIs DEF Taken
  <1> QED BY <1>1, <1>2

\* The rest of iotjs_napi_function_handler
LEMMA ReturnsHeap ==
    ASSUME StackInv, StackInv', HeapInv, FunctionReturns PROVE HeapInv'
  <1>0. /\ InAddon /\ Top.kind = "function" /\ frames' = Front(frames)
        /\ scopes' = CloseScope(scopes, Top.base + 1) /\ pending' = NoException
        /\ UNCHANGED <<refs, lost>>
    BY DEF FunctionReturns
  <1>1. /\ obj \in [Objects -> ObjType] /\ script \subseteq Born /\ lost \subseteq Born
        /\ scopes \in Seq(ScopeType) /\ Born \subseteq Objects
        /\ \A o \in Objects : obj[o].rc \in Int /\ o # None
        /\ pending.kind = "none" => pending.of = None
        /\ pending.of \in Born \cup {None}
    BY HeapFacts
  <1> DEFINE i == Top.base + 1
  <1>2. i \in 1 .. Len(scopes) + 1 /\ frames # <<>> BY <1>0, TopHasScope DEF InAddon
  <1>3. PICK v \in IF IsExceptionPending THEN {pending.of} ELSE Usable \cup {None} :
          /\ obj' = Taken(ScopesReleased(IF IsExceptionPending \/ v = None THEN obj
                                         ELSE Acquired(obj, v), scopes, Top.base + 1), v)
          /\ script' \in {script, script \cup ({v} \ {None})}
    BY DEF FunctionReturns, KeepOrNot
  <1> DEFINE acquired == IF IsExceptionPending \/ v = None THEN obj ELSE Acquired(obj, v)
             closed == ScopesReleased(acquired, scopes, i)
             more(o) == IF IsExceptionPending THEN 0 ELSE One(o, v)
  <1>4. v \in Born \cup {None} /\ v \in Objects \cup {None} BY <1>1, <1>3, UsableBorn
  <1>5. /\ acquired \in [Objects -> ObjType]
        /\ \A o \in Objects : acquired[o].rc = obj[o].rc + more(o) /\ Alike(acquired[o], obj[o])
    <2>1. CASE IsExceptionPending
      <3>1. acquired = obj /\ \A o \in Objects : more(o) = 0 BY <2>1
      <3> QED BY <1>1, <3>1 DEF Alike
    <2>2. CASE ~IsExceptionPending /\ v = None
      <3>1. acquired = obj BY <2>2
      <3>2. \A o \in Objects : more(o) = 0 BY <1>1, <2>2 DEF One
      <3> QED BY <1>1, <3>1, <3>2 DEF Alike
    <2>3. CASE ~IsExceptionPending /\ v # None
      <3>1. acquired = Acquired(obj, v) /\ v \in Objects BY <1>4, <2>3
      <3>2. \A o \in Objects : more(o) = One(o, v) BY <2>3
      <3> HIDE DEF acquired, more
      <3> QED BY <1>1, <3>1, <3>2, AcquiredIs
    <2> QED BY <2>1, <2>2, <2>3
  <1>6. obj' = Taken(closed, v) BY <1>3
  <1> HIDE DEF acquired, more, i
  <1>7. /\ closed \in [Objects -> ObjType]
        /\ \A o \in Objects : /\ closed[o].rc = acquired[o].rc - Owned(scopes, i, o)
                              /\ Owned(scopes, i, o) \in Int /\ Alike(closed[o], acquired[o])
    BY <1>1, <1>2, <1>5, ClosedIs
  <1> HIDE DEF closed
  <1>8. /\ obj' \in [Objects -> ObjType]
        /\ \A o \in Objects : obj'[o].rc = closed[o].rc - One(o, v) /\ Alike(obj'[o], closed[o])
    BY <1>4, <1>6, <1>7, TakenIs
  <1>9. ASSUME NEW o \in Objects
        PROVE  /\ Alike(obj'[o], obj[o])
               /\ obj'[o].rc = obj[o].rc - Owned(scopes, i, o) - One(o, pending.of)
                               - ExportOf(Top, o)
    <2>1. Alike(obj'[o], obj[o]) BY <1>5, <1>7, <1>8 DEF Alike
    <2>2. obj'[o].rc = (obj[o].rc + more(o)) - Owned(scopes, i, o) - One(o, v)
      BY <1>5, <1>7, <1>8
    <2>3. ExportOf(Top, o) = 0 BY <1>0 DEF ExportOf
    <2>4. One(o, v) \in Nat /\ obj[o].rc \in Int /\ Owned(scopes, i, o) \in Int
      BY <1>1, <1>7 DEF One
    <2>5. CASE IsExceptionPending
      <3>1. more(o) = 0 /\ One(o, v) = One(o, pending.of) BY <1>3, <2>5 DEF more
      <3> QED BY <2>1, <2>2, <2>3, <2>4, <3>1
    <2>6. CASE ~IsExceptionPending
      <3>1. more(o) = One(o, v) BY <2>6 DEF more
      <3>2. One(o, pending.of) = 0 BY <1>1, <2>6 DEF One, IsExceptionPending
      <3> QED BY <2>1, <2>2, <2>3, <2>4, <3>1, <3>2
    <2> QED BY <2>5, <2>6
  <1>10. script' \subseteq Born /\ lost \subseteq lost' /\ lost' \subseteq Born
    BY <1>0, <1>1, <1>3, <1>4
  <1>11. scopes' = CloseScope(scopes, i) BY <1>0 DEF i
  <1> QED BY <1>0, <1>2, <1>8, <1>9, <1>10, <1>11, LeaveHeap

\* jerryx_remove_handle: what the scope d and those in it own of x is one less.
LEMMA RemovedOwned ==
    ASSUME NEW sc \in Seq(ScopeType), NEW d \in 1 .. Len(sc), NEW x \in Objects,
           sc[d].handles[x] > 0, NEW o \in Objects
    PROVE  Owned(HandleOut(sc, d, x), d, o) = Owned(sc, d, o) - One(o, x)
  <1> DEFINE tc == HandleOut(sc, d, x)
             s == Handles(sc, o)
             u == Handles(tc, o)
             m == d - 1
  <1>1. /\ tc \in Seq(ScopeType) /\ Len(tc) = Len(sc)
        /\ \A i \in 1 .. Len(sc) : i # d => tc[i] = sc[i]
        /\ SumOf(u) = SumOf(s) - One(o, x)
    BY RemovedCounts
  <1> HIDE DEF tc
  <1>2. /\ s \in Seq(Nat) /\ Len(s) = Len(sc) /\ SumOf(s) \in Nat
        /\ \A i \in 1 .. Len(sc) : s[i] = sc[i].handles[o]
    BY HandlesAre
  <1>3. /\ u \in Seq(Nat) /\ Len(u) = Len(sc)
        /\ \A i \in 1 .. Len(sc) : u[i] = tc[i].handles[o]
    BY <1>1, HandlesAre
  <1>4. m \in Nat /\ m <= Len(sc) /\ \A i \in 1 .. m : i \in 1 .. Len(sc) /\ i # d OBVIOUS
  <1>5. Owned(sc, d, o) = SumOf(s) - Totals(s)[m] /\ Owned(tc, d, o) = SumOf(u) - Totals(u)[m]
    BY DEF Owned
  <1> HIDE DEF s, u, m
  <1>6. \A i \in 1 .. m : s[i] = u[i] BY <1>1, <1>2, <1>3, <1>4
  <1>7. Totals(s)[m] = Totals(u)[m] /\ Totals(s)[m] \in Nat
    <2>1. m <= Len(s) /\ m <= Len(u) BY <1>2, <1>3, <1>4
    <2> QED BY <1>2, <1>3, <1>4, <1>6, <2>1, TotalsPrefix
  <1>8. One(o, x) \in Nat BY DEF One
  <1>9. Owned(tc, d, o) = Owned(sc, d, o) - One(o, x) BY <1>1, <1>2, <1>5, <1>7, <1>8
  <1> QED BY <1>9 DEF tc

\* The rest of napi_module_init_pending
LEMMA InitHeap ==
    ASSUME StackInv, StackInv', HeapInv, InitReturns PROVE HeapInv'
  <1>0. /\ InAddon /\ Top.kind = "init" /\ frames' = Front(frames)
        /\ scopes' = CloseScope(scopes, Top.base + 1) /\ pending' = NoException
        /\ UNCHANGED refs
    BY DEF InitReturns
  <1>1. /\ obj \in [Objects -> ObjType] /\ script \subseteq Born /\ lost \subseteq Born
        /\ scopes \in Seq(ScopeType) /\ Born \subseteq Objects
        /\ \A o \in Objects : obj[o].rc \in Int /\ o # None
        /\ pending.kind = "none" => pending.of = None
        /\ pending.of \in Born \cup {None}
    BY HeapFacts
  <1> DEFINE first == Top.base + 1
  <1>2. first \in 1 .. Len(scopes) + 1 /\ first \in 1 .. Len(scopes) /\ frames # <<>>
    BY <1>0, TopHasScope DEF InAddon
  <1>3. Top.args \subseteq Born /\ \E e \in Objects : Top.args = {e} BY <1>0, <1>2, FrameOut
  <1>4. PICK exports \in Top.args, v \in Usable \cup {None} :
          LET other == v \notin {None, exports}
              inScope == other /\ scopes[first].handles[v] > 0
              removed == IF inScope THEN HandleOut(scopes, first, v) ELSE scopes
              once == IF v = exports THEN obj ELSE Released(obj, exports)
              closed == ScopesReleased(once, removed, first)
          IN  IF IsExceptionPending
              THEN /\ obj' = Taken(Released(closed, exports), pending.of)
                   /\ lost' = lost \cup (IF v = exports THEN {} ELSE {exports, v} \ {None})
                   /\ script' \in {script, script \cup ({pending.of} \ {None})}
              ELSE /\ obj' = Taken(closed, v)
                   /\ lost' = IF other /\ ~inScope THEN lost \cup {v} ELSE lost
                   /\ script' \in {script, script \cup ({v} \ {None})}
    BY DEF InitReturns, KeepOrNot, HandleOut
  <1> DEFINE other == v \notin {None, exports}
             inScope == other /\ scopes[first].handles[v] > 0
             removed == IF inScope THEN HandleOut(scopes, first, v) ELSE scopes
             once == IF v = exports THEN obj ELSE Released(obj, exports)
             closed == ScopesReleased(once, removed, first)
             out(o) == IF inScope THEN One(o, v) ELSE 0
             rel(o) == IF v = exports THEN 0 ELSE One(o, exports)
  <1>5. IF IsExceptionPending
        THEN /\ obj' = Taken(Released(closed, exports), pending.of)
             /\ lost' = lost \cup (IF v = exports THEN {} ELSE {exports, v} \ {None})
             /\ script' \in {script, script \cup ({pending.of} \ {None})}
        ELSE /\ obj' = Taken(closed, v)
             /\ lost' = IF other /\ ~inScope THEN lost \cup {v} ELSE lost
             /\ script' \in {script, script \cup ({v} \ {None})}
    BY <1>4
  <1>6. /\ v \in Born \cup {None} /\ v \in Objects \cup {None}
        /\ exports \in Born /\ exports \in Objects /\ Top.args = {exports}
    BY <1>1, <1>3, UsableBorn
  <1>7. inScope => v \in Objects /\ scopes[first].handles[v] > 0 BY <1>6
  <1> HIDE DEF first
  <1>8. /\ once \in [Objects -> ObjType]
        /\ \A o \in Objects : once[o].rc = obj[o].rc - rel(o) /\ Alike(once[o], obj[o])
    <2>1. CASE v = exports
      <3>1. once = obj /\ \A o \in Objects : rel(o) = 0 BY <2>1
      <3> QED BY <1>1, <3>1 DEF Alike
    <2>2. CASE v # exports
      <3>1. once = Released(obj, exports) /\ \A o \in Objects : rel(o) = One(o, exports)
        BY <2>2
      <3> HIDE DEF once, rel
      <3> QED BY <1>1, <1>6, <3>1, ReleasedIs
    <2> QED BY <2>1, <2>2
  <1>9. /\ removed \in Seq(ScopeType) /\ Len(removed) = Len(scopes)
        /\ \A o \in Objects : Owned(removed, first, o) = Owned(scopes, first, o) - out(o)
    <2>1. CASE inScope
      <3>1. removed = HandleOut(scopes, first, v) /\ \A o : out(o) = One(o, v) BY <2>1
      <3> HIDE DEF removed, out, inScope
      <3>2. v \in Objects /\ scopes[first].handles[v] > 0 BY <1>7, <2>1
      <3> QED BY <1>1, <1>2, <3>1, <3>2, RemovedCounts, RemovedOwned
    <2>2. CASE ~inScope
      <3>1. removed = scopes /\ \A o : out(o) = 0 BY <2>2
      <3>2. \A o \in Objects : Owned(scopes, first, o) \in Int BY <1>1, <1>2, CloseCounts
      <3> HIDE DEF removed, out, inScope
      <3> QED BY <1>1, <3>1, <3>2
    <2> QED BY <2>1, <2>2
  <1> HIDE DEF once, removed
  <1>10. /\ closed \in [Objects -> ObjType]
         /\ \A o \in Objects : /\ closed[o].rc = once[o].rc - Owned(removed, first, o)
                               /\ Alike(closed[o], once[o])
    BY <1>2, <1>8, <1>9, ClosedIs
  <1> HIDE DEF closed
  <1>11. \A o \in Objects : /\ Owned(scopes, first, o) \in Int /\ One(o, v) \in Nat
                            /\ One(o, exports) \in Nat /\ One(o, pending.of) \in Nat
    BY <1>1, <1>2, CloseCounts DEF One
  <1>12. \A o \in Objects : ExportOf(Top, o) = One(o, exports)
    BY <1>0, <1>6 DEF ExportOf, One
  <1>13. ASSUME NEW o \in Objects
         PROVE  /\ closed[o].rc = obj[o].rc - rel(o) - (Owned(scopes, first, o) - out(o))
                /\ Alike(closed[o], obj[o])
                /\ rel(o) \in Nat /\ out(o) \in Nat
    <2>1. rel(o) \in Nat /\ out(o) \in Nat BY <1>11
    <2>2. Alike(closed[o], obj[o]) BY <1>8, <1>10 DEF Alike
    <2> HIDE DEF rel, out
    <2>3. closed[o].rc = obj[o].rc - rel(o) - (Owned(scopes, first, o) - out(o))
      BY <1>8, <1>9, <1>10
    <2> QED BY <2>1, <2>2, <2>3
  <1>14. script' \subseteq Born /\ lost \subseteq lost' /\ lost' \subseteq Born
    BY <1>1, <1>5, <1>6
  <1>15. scopes' = CloseScope(scopes, first) BY <1>0 DEF first
  <1>16. /\ obj' \in [Objects -> ObjType]
         /\ \A o \in Objects :
              /\ Alike(obj'[o], obj[o])
              /\ o \notin lost' =>
                   obj'[o].rc = obj[o].rc - Owned(scopes, first, o) - One(o, pending.of)
                                - ExportOf(Top, o)
    <2>1. CASE IsExceptionPending
      <3> DEFINE again == Released(closed, exports)
      <3>1. /\ obj' = Taken(again, pending.of)
            /\ lost' = lost \cup (IF v = exports THEN {} ELSE {exports, v} \ {None})
        BY <1>5, <2>1
      <3>2. /\ again \in [Objects -> ObjType]
            /\ \A o \in Objects : /\ again[o].rc = closed[o].rc - One(o, exports)
                                  /\ Alike(again[o], closed[o])
        BY <1>6, <1>10, ReleasedIs
      <3> HIDE DEF again
      <3>3. /\ obj' \in [Objects -> ObjType]
            /\ \A o \in Objects : /\ obj'[o].rc = again[o].rc - One(o, pending.of)
                                  /\ Alike(obj'[o], again[o])
        BY <1>1, <3>1, <3>2, TakenIs
      <3>4. ASSUME NEW o \in Objects, o \notin lost'
            PROVE  obj'[o].rc = obj[o].rc - Owned(scopes, first, o) - One(o, pending.of)
                                - ExportOf(Top, o)
        <4>1. obj'[o].rc = obj[o].rc - rel(o) - (Owned(scopes, first, o) - out(o))
                           - One(o, exports) - One(o, pending.of)
          BY <1>13, <3>2, <3>3
        <4>2. rel(o) = 0 /\ out(o) = 0
          <5>1. CASE v = exports BY <5>1
          <5>2. CASE v # exports
            <6>1. o # exports /\ o # v BY <1>1, <1>6, <3>1, <3>4, <5>2
            <6> QED BY <6>1 DEF One
          <5> QED BY <5>1, <5>2
        <4> HIDE DEF rel, out
        <4>3. obj[o].rc \in Int BY <1>1
        <4> QED BY <1>11, <1>12, <4>1, <4>2, <4>3
      <3>5. \A o \in Objects : Alike(obj'[o], obj[o]) BY <1>13, <3>2, <3>3 DEF Alike
      <3> QED BY <3>3, <3>4, <3>5
    <2>2. CASE ~IsExceptionPending
      <3>1. /\ obj' = Taken(closed, v)
            /\ lost' = IF other /\ ~inScope THEN lost \cup {v} ELSE lost
        BY <1>5, <2>2
      <3>2. /\ obj' \in [Objects -> ObjType]
            /\ \A o \in Objects : /\ obj'[o].rc = closed[o].rc - One(o, v)
                                  /\ Alike(obj'[o], closed[o])
        BY <1>6, <1>10, <3>1, TakenIs
      <3>3. ASSUME NEW o \in Objects, o \notin lost'
            PROVE  obj'[o].rc = obj[o].rc - Owned(scopes, first, o) - One(o, pending.of)
                                - ExportOf(Top, o)
        <4>1. obj'[o].rc = obj[o].rc - rel(o) - (Owned(scopes, first, o) - out(o)) - One(o, v)
          BY <1>13, <3>2
        <4>2. One(o, pending.of) = 0 BY <1>1, <2>2 DEF One, IsExceptionPending
        <4>3. rel(o) + One(o, v) - out(o) = One(o, exports)
          <5>1. CASE v = exports
            <6>1. rel(o) = 0 /\ out(o) = 0 /\ One(o, v) = One(o, exports) BY <5>1
            <6> HIDE DEF rel, out
            <6> QED BY <1>11, <6>1
          <5>2. CASE v = None /\ v # exports
            <6>1. rel(o) = One(o, exports) /\ out(o) = 0 /\ One(o, v) = 0 BY <1>1, <5>2 DEF One
            <6> HIDE DEF rel, out
            <6> QED BY <1>11, <6>1
          <5>3. CASE inScope
            <6>1. rel(o) = One(o, exports) /\ out(o) = One(o, v) BY <5>3
            <6> HIDE DEF rel, out
            <6> QED BY <1>11, <6>1
          <5>4. CASE other /\ ~inScope
            <6>1. o # v BY <3>1, <3>3, <5>4
            <6>2. rel(o) = One(o, exports) /\ out(o) = 0 /\ One(o, v) = 0 BY <5>4, <6>1 DEF One
            <6> HIDE DEF rel, out
            <6> QED BY <1>11, <6>2
          <5> QED BY <5>1, <5>2, <5>3, <5>4
        <4>4. rel(o) \in Nat /\ out(o) \in Nat BY <1>13
        <4> HIDE DEF rel, out
        <4>5. obj[o].rc \in Int BY <1>1
        <4> QED BY <1>11, <1>12, <4>1, <4>2, <4>3, <4>4, <4>5
      <3>4. \A o \in Objects : Alike(obj'[o], obj[o]) BY <1>13, <3>2 DEF Alike
      <3> QED BY <3>2, <3>3, <3>4
    <2> QED BY <2>1, <2>2
  <1> QED BY <1>0, <1>2, <1>14, <1>15, <1>16, LeaveHeap

\* Calls between script and addon, exceptions and the initialisation of addons keep the
\* counts and the lists.
LEMMA FunctionsHeap ==
    ASSUME StackInv, StackInv', HeapInv, NapiFunctionsCall PROVE HeapInv'
  <1>1. CASE ScriptDrops
    <2>1. UNCHANGED <<obj, refs, scopes, frames, pending, lost>> /\ script' \subseteq script
      BY <1>1 DEF ScriptDrops
    <2>2. /\ obj \in [Objects -> ObjType] /\ script \subseteq Born
          /\ \A o \in Objects : obj[o].prop \in Born \cup {None}
      BY HeapFacts DEF HeapInv, BornInv
    <2> QED BY <2>1, <2>2, AsideStep
  <1> QED BY <1>1, CallsHeap, ReturnsHeap, CreateHeap, CalledHeap, ThrowsHeap, ClearHeap, InitHeap
          DEF NapiFunctionsCall

\* The complete callback of a work item is entered with an empty stack, and its scope
\* and its exception are released when it returns.
LEMMA WorkHeap ==
    ASSUME StackInv, StackInv', HeapInv, NapiWorkCall \/ \E w \in Works : WorkStep(w)
    PROVE  HeapInv'
  <1>0. /\ obj \in [Objects -> ObjType] /\ script \subseteq Born /\ lost \subseteq Born
        /\ scopes \in Seq(ScopeType) /\ frames \in Seq(FrameType)
        /\ \A o \in Objects : obj[o].rc \in Int /\ o # None
        /\ pending.kind = "none" => pending.of = None
        /\ \A o \in Objects : obj[o].prop \in Born \cup {None}
    BY HeapFacts DEF HeapInv, BornInv
  <1>1. CASE UNCHANGED <<obj, refs, scopes, frames, pending, script, lost>>
    BY <1>0, <1>1, AsideStep
  <1>2. ASSUME NEW w \in Works, AfterWork(w) PROVE HeapInv'
    <2>1. /\ frames = <<>> /\ frames' = <<Frame("complete", {})>>
          /\ scopes' = OpenScope(scopes) /\ UNCHANGED <<obj, refs, pending, script, lost>>
      BY <1>2 DEF AfterWork
    <2> DEFINE f == Frame("complete", {})
    <2>2. f \in FrameType /\ f.kind = "complete" /\ f.args = {}
      BY StackNumbers DEF Frame, FrameType
    <2>3. frames' = Append(frames, f) BY <2>1
    <2> HIDE DEF f
    <2>4. Grown({})
      <3>1. \A o \in Objects : Alike(obj'[o], obj[o]) BY <2>1 DEF Alike
      <3> QED BY <1>0, <2>1, <3>1, NoneBorn
    <2>5. \A o \in Objects : obj'[o].rc - obj[o].rc = ExportOf(f, o)
      BY <1>0, <2>1, <2>2 DEF ExportOf
    <2>6. script' \subseteq Born \cup {} /\ f.args \subseteq Born \cup {} BY <1>0, <2>1, <2>2
    <2> QED BY <2>1, <2>2, <2>3, <2>4, <2>5, <2>6, EnterHeap
  <1>3. ASSUME NEW w \in Works, CompleteReturns(w) PROVE HeapInv'
    <2>1. /\ InAddon /\ Top.kind = "complete"
          /\ obj' = LET closed == ScopesReleased(obj, scopes, 1)
                    IN  IF pending.kind = "none" THEN closed ELSE Released(closed, pending.of)
          /\ scopes' = <<>> /\ frames' = <<>> /\ pending' = NoException
          /\ UNCHANGED <<refs, script, lost>>
      BY <1>3 DEF CompleteReturns
    <2>2. frames # <<>> /\ Len(frames) \in Nat \ {0} BY <2>1, TopHasScope DEF InAddon
    <2>3. Len(frames) = 1
      <3>1. Len(frames) \in 1 .. Len(frames) BY <2>2
      <3> QED BY <2>1, <3>1 DEF HeapInv, CallInv, Top
    <2>4. frames' = Front(frames)
      <3>1. Front(frames) \in Seq(FrameType) /\ Len(Front(frames)) = 0
        BY <1>0, <2>2, <2>3, FrontKept
      <3>2. Front(frames) = <<>> BY <3>1
      <3> QED BY <2>1, <3>2
    <2>5. 1 \in 1 .. Len(scopes) + 1 BY StackNumbers
    <2>6. scopes' = CloseScope(scopes, 1)
      <3>1. CloseScope(scopes, 1) \in Seq(ScopeType) /\ Len(CloseScope(scopes, 1)) = 1 - 1
        BY <1>0, <2>5, CloseKept
      <3>2. CloseScope(scopes, 1) = <<>> BY <3>1
      <3> QED BY <2>1, <3>2
    <2> DEFINE closed == ScopesReleased(obj, scopes, 1)
    <2>7. /\ closed \in [Objects -> ObjType]
          /\ \A o \in Objects : /\ closed[o].rc = obj[o].rc - Owned(scopes, 1, o)
                                /\ Owned(scopes, 1, o) \in Int /\ Alike(closed[o], obj[o])
      BY <1>0, <2>5, ClosedIs
    <2>8. obj' = Taken(closed, pending.of)
      <3>1. pending.kind # "none" => pending.of \in Objects BY DEF StackInv, StackTypes
      <3>2. pending.kind = "none" <=> pending.of = None BY <1>0, <3>1
      <3> QED BY <2>1, <3>2 DEF Taken
    <2> HIDE DEF closed
    <2>9. pending.of \in Objects \cup {None}
      BY <1>0 DEF StackInv, StackTypes
    <2>10. /\ obj' \in [Objects -> ObjType]
           /\ \A o \in Objects : /\ obj'[o].rc = closed[o].rc - One(o, pending.of)
                                 /\ Alike(obj'[o], closed[o])
      BY <2>7, <2>8, <2>9, TakenIs
    <2>11. ASSUME NEW o \in Objects
           PROVE  /\ Alike(obj'[o], obj[o])
                  /\ obj'[o].rc = obj[o].rc - Owned(scopes, 1, o) - One(o, pending.of)
                                  - ExportOf(Top, o)
      <3>1. Alike(obj'[o], obj[o]) BY <2>7, <2>10 DEF Alike
      <3>2. ExportOf(Top, o) = 0 /\ One(o, pending.of) \in Nat BY <2>1 DEF ExportOf, One
      <3>3. obj[o].rc \in Int BY <1>0
      <3> QED BY <2>7, <2>10, <3>1, <3>2, <3>3
    <2>12. script' \subseteq Born /\ lost \subseteq lost' /\ lost' \subseteq Born BY <1>0, <2>1
    <2> QED BY <2>1, <2>2, <2>4, <2>5, <2>6, <2>10, <2>11, <2>12, LeaveHeap
  <1> QED
    BY <1>1, <1>2, <1>3
       DEF NapiWorkCall, WorkStep, CreateAsyncWork, QueueAsyncWork, CancelAsyncWork,
           DeleteAsyncWork, WorkStarts, WorkEnds, AddEnvCleanupHook, RemoveEnvCleanupHook,
           Leave, CallHook, HookReturns, heapVars

-----------------------------------------------------------------------------
\* The process starts with no work, no hook, an empty stack and an empty heap.
LEMMA InitIInv == Init => IInv
  <1> SUFFICES ASSUME Init PROVE IInv OBVIOUS
  <1> USE DEF Init, HeapInit, WorkInit
  <1>1. WorkInv
    <2>1. NoWork \in WorkItem BY DEF NoWork, WorkItem
    <2>2. \A w \in Works : work[w].mem = "none" BY DEF NoWork
    <2> QED BY <2>1, <2>2 DEF WorkInv, DeletedUnderUv, WorkSafe
  <1>2. HookInv
    <2>1. HookTypes /\ HooksDistinct BY DEF HookTypes, HooksDistinct
    <2>2. Returned = 0 BY DEF Returned
    <2>3. freed = {ran[i] : i \in 1 .. Returned} BY <2>2
    <2>4. IsFiniteSet(freed) /\ Cardinality(freed) = Returned BY <2>2, FS_EmptySet
    <2> QED BY <2>1, <2>3, <2>4 DEF HookInv, HooksCalled
  <1>3. StackInv
    <2>1. /\ NoException \in [kind : {"none", "throw", "fatal"}, of : 0 .. MaxObjects, at : Nat]
          /\ NoException.kind = "none"
      BY NapiAssumption DEF NoException, None
    <2>2. RefsOfObjects /\ refs = [r \in Refs |-> refs[r]] BY DEF RefsOfObjects, NoRef
    <2>3. StackTypes BY <2>1, <2>2 DEF StackTypes
    <2> QED BY <2>1, <2>3 DEF StackInv, FramesNest, ExceptionStaysInFrame, IsExceptionPending
  <1>4. HeapInv
    <2>1. /\ Unborn \in ObjType /\ Unborn.st = "unborn" /\ Unborn.rc = 0 /\ Unborn.prop = None
          /\ Unborn.refStart = None /\ Unborn.refEnd = None
      BY DEF Unborn, ObjType, None
    <2>2. NoRef \in RefType /\ NoRef.st = "none" /\ NoRef.jval = None BY DEF NoRef, RefType, None
    <2>3. NoException.of = None BY DEF NoException
    <2>4. HeapTypes BY <2>1, <2>2 DEF HeapTypes
    <2>5. Born = {} /\ Live = {} BY <2>1 DEF Born, Live
    <2>6. BornInv BY <2>1, <2>3, <2>5 DEF BornInv
    <2>7. CallInv BY <2>3 DEF CallInv
    <2>8. RefInv BY <2>2, <2>5 DEF RefInv
    <2>9. ASSUME NEW o \in Objects PROVE obj[o].rc = Owners(o)
      <3>1. o # None BY NapiAssumption DEF Objects, None
      <3>2. SumOf(Handles(scopes, o)) = 0
        <4>1. Handles(scopes, o) = << >> BY DEF Handles
        <4> QED BY <4>1, SumOfNothing
      <3>3. SumOf(Exports(frames, o)) = 0
        <4>1. Exports(frames, o) = << >> BY DEF Exports
        <4> QED BY <4>1, SumOfNothing
      <3>4. SumOf(Counts(refs, o)) = 0
        <4> DEFINE c == Counts(refs, o)
        <4>1. /\ c \in Seq(Nat) /\ Len(c) = MaxRefs
              /\ \A r \in Refs : c[r] = IF refs[r].jval = o THEN refs[r].count ELSE 0
          BY <2>4, CountsAre DEF HeapTypes
        <4>2. \A r \in Refs : refs[r].jval # o BY <2>2, <3>1
        <4> HIDE DEF c
        <4>3. \A k \in 1 .. Len(c) : c[k] = 0 BY <4>1, <4>2 DEF Refs
        <4>4. SumOf(c) = 0 BY <4>1, <4>3, SumOfZeros
        <4> QED BY <4>4 DEF c
      <3>5. Owners(o) = 0 BY <2>3, <3>1, <3>2, <3>3, <3>4 DEF Owners
      <3> QED BY <2>1, <3>5
    <2> QED BY <2>4, <2>6, <2>7, <2>8, <2>9 DEF HeapInv, CountInv
  <1> QED BY <1>1, <1>2, <1>3, <1>4 DEF IInv

\* The four parts hold in every reachable state, for any number of objects,
\* references, scopes, calls, work items and hooks.
THEOREM Invariant == Spec => []IInv
  <1>1. IInv /\ [Next]_vars => IInv'
    <2> SUFFICES ASSUME IInv, [Next]_vars PROVE IInv' OBVIOUS
    <2>1. WorkInv' BY WorkStepInv DEF IInv
    <2>2. HookInv' BY HookStepInv DEF IInv
    <2>3. StackInv'
      <3> USE DEF IInv
      <3>1. CASE UNCHANGED vars
        <4>1. UNCHANGED <<refs, scopes, frames, pending, script>> BY <3>1 DEF vars, heapVars
        <4>2. scopes' \in Seq(ScopeType) /\ script' \subseteq Objects /\ Len(scopes') >= Len(scopes)
          BY <4>1, StackNumbers DEF StackInv, StackTypes
        <4> QED BY <4>1, <4>2, StackKept, RefsKept
      <3> QED
        BY <3>1, ValuesStack, LifetimeStack, FunctionsStack, WorkStack DEF Next
    <2>4. HeapInv'
      <3>1. StackInv /\ HeapInv BY DEF IInv
      <3>2. CASE UNCHANGED vars
        <4>1. UNCHANGED <<obj, refs, scopes, frames, pending, script, lost>>
          BY <3>2 DEF vars, heapVars
        <4>2. /\ obj \in [Objects -> ObjType] /\ script \subseteq Born
              /\ \A o \in Objects : obj[o].prop \in Born \cup {None}
          BY <3>1, HeapFacts DEF HeapInv, BornInv
        <4> QED BY <2>3, <3>1, <4>1, <4>2, AsideStep
      <3> QED
        BY <2>3, <3>1, <3>2, ValuesHeap, LifetimeHeap, FunctionsHeap, WorkHeap DEF Next
    <2> QED BY <2>1, <2>2, <2>3, <2>4 DEF IInv
  <1> QED BY InitIInv, <1>1, PTL DEF Spec

\* uv and the after-work callback touch a work item whose memory is released only when
\* the addon deleted it between queueing it and its completion: WorkSafe.
THEOREM WorkIsSafe == Spec => []WorkSafe
  <1>1. IInv => WorkSafe BY DEF IInv, WorkInv
  <1> QED BY Invariant, <1>1, PTL

\* At the end of the process the hooks are called once each, in the order of their
\* addition, and a hook is freed when it has returned: HooksInOrder.
THEOREM HooksAreCalledInOrder == Spec => []HooksInOrder
  <1>1. IInv => HooksInOrder
    <2> SUFFICES ASSUME IInv, misuse = {}
                 PROVE  IsPrefix(ran, hooks) /\ (hookAt = "next" => freed = ToSet(ran))
      BY DEF HooksInOrder
    <2>0. /\ hooks \in Seq(Hooks) /\ ran \in Seq(Hooks) /\ Len(ran) <= Len(hooks)
          /\ \A i \in 1 .. Len(ran) : ran[i] = hooks[i]
          /\ freed = {ran[i] : i \in 1 .. Returned}
      BY DEF IInv, HookInv, HookTypes, HooksCalled
    <2>1. SubSeq(ran, 1, Len(ran)) = SubSeq(hooks, 1, Len(ran))
      <3> DEFINE a == SubSeq(ran, 1, Len(ran))
                 b == SubSeq(hooks, 1, Len(ran))
      <3>1. /\ a \in Seq(Hooks) /\ Len(a) = Len(ran)
            /\ \A i \in 1 .. Len(ran) : a[i] = ran[i]
        BY <2>0
      <3>2. /\ b \in Seq(Hooks) /\ Len(b) = Len(ran)
            /\ \A i \in 1 .. Len(ran) : b[i] = hooks[i]
        BY <2>0
      <3> HIDE DEF a, b
      <3>3. a = b BY <2>0, <3>1, <3>2
      <3> QED BY <3>3 DEF a, b
    <2>2. hookAt = "next" => freed = ToSet(ran) BY <2>0 DEF Returned, ToSet
    <2> QED BY <2>0, <2>1, <2>2 DEF IsPrefix
  <1> QED BY Invariant, <1>1, PTL

\* An exception is pending only while the native frame that threw it is on the stack, and
\* other native frames are above it only if that frame ran a getter or a setter meanwhile,
\* however addons and scripts call each other: ExceptionStaysInFrame.
THEOREM ExceptionsStayInFrame == Spec => []ExceptionStaysInFrame
  <1>1. IInv => ExceptionStaysInFrame BY DEF IInv, StackInv
  <1> QED BY Invariant, <1>1, PTL

\* The count of every object that the addon can meet is the number of its owners, so that
\* nothing leaks and nothing is freed too early, for any number of objects, references,
\* scopes and calls: CountsOwners.
THEOREM CountsAreOwners == Spec => []CountsOwners
  <1>1. IInv => CountsOwners BY DEF IInv, HeapInv, CountInv, CountsOwners, Live
  <1> QED BY Invariant, <1>1, PTL

\* The list of an object that native_info_free walks is exactly the list of its
\* references, linked both ways, whatever references were made and deleted, and no
\* reference names an object that is gone: ReferencesExact.
THEOREM ReferencesAreExact == Spec => []ReferencesExact
  <1>1. IInv => ReferencesExact
    <2> SUFFICES ASSUME IInv PROVE ReferencesExact OBVIOUS
    <2>1. HeapTypes /\ RefInv BY DEF IInv, HeapInv
    <2>2. ASSUME NEW o \in Live
          PROVE  /\ Listed(o) = {r \in Refs : refs[r].jval = o}
                 /\ \A r \in Listed(o) :
                      /\ IF refs[r].prev = None THEN obj[o].refStart = r
                         ELSE refs[refs[r].prev].next = r
                      /\ IF refs[r].next = None THEN obj[o].refEnd = r
                         ELSE refs[refs[r].next].prev = r
                 /\ Listed(o) = {} => obj[o].refEnd = None
      <3>1. Listed(o) = {r \in Refs : refs[r].jval = o} BY <2>1, ListedExact
      <3>2. o \in Objects /\ o # None BY NapiAssumption DEF Live, Objects, None
      <3>3. ASSUME NEW r \in Listed(o)
            PROVE  /\ IF refs[r].prev = None THEN obj[o].refStart = r
                      ELSE refs[refs[r].prev].next = r
                   /\ IF refs[r].next = None THEN obj[o].refEnd = r
                      ELSE refs[refs[r].next].prev = r
        <4>1. r \in Refs /\ refs[r].jval = o BY <3>1
        <4>2. LinkedBack(r) /\ LinkedOn(r) BY <2>1, <3>2, <4>1 DEF RefInv
        <4> QED BY <4>1, <4>2 DEF LinkedBack, LinkedOn
      <3>4. ASSUME Listed(o) = {} PROVE obj[o].refEnd = None
        <4>1. obj[o].refEnd \in Refs \cup {None}
          <5>1. obj[o] \in ObjType BY <2>1, <3>2 DEF HeapTypes
          <5> QED BY <5>1 DEF ObjType
        <4>2. obj[o].refEnd # None => refs[obj[o].refEnd].jval = o BY <2>1 DEF RefInv
        <4> QED BY <3>1, <3>4, <4>1, <4>2
      <3> QED BY <3>1, <3>3, <3>4
    <2>3. \A r \in Refs : refs[r].jval # None => refs[r].jval \in Live BY <2>1 DEF RefInv
    <2> QED BY <2>2, <2>3 DEF ReferencesExact
  <1> QED BY Invariant, <1>1, PTL
=============================================================================
