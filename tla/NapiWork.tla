------------------------------- MODULE NapiWork -------------------------------
(***************************************************************************)
(* src/src/napi/node_api_async.c against the thread pool of uv, and the    *)
(* cleanup hooks of src/src/napi/node_api_lifetime.c at the end of the     *)
(* process.                                                                *)
(***************************************************************************)
EXTENDS NapiHeap

NoWork == [mem |-> "none", at |-> "idle", executed |-> 0, completed |-> 0, status |-> "none",
           completing |-> FALSE]

WorkInit ==
    /\ uses \in {"values", "work"}
    /\ work = [w \in Works |-> NoWork]
    /\ hooks = <<>>
    /\ freed = {}
    /\ ran = <<>>
    /\ hookAt = "none"
    /\ leaving = FALSE
    /\ misuse = {}

WorkTouched(w) == IF work[w].mem = "freed" THEN {"work used after it was deleted"} ELSE {}

-----------------------------------------------------------------------------
\* napi_create_async_work
CreateAsyncWork ==
    /\ Api({"work"})
    /\ \E w \in Works : work[w].mem = "none" /\ work' = [work EXCEPT ![w].mem = "live"]
    /\ UNCHANGED <<obj, refs, scopes, frames, pending, script, lost>>
    /\ UNCHANGED <<uses, hooks, freed, ran, hookAt, leaving, misuse>>

\* napi_queue_async_work: an addon queues a work item that it has and that is idle
QueueAsyncWork ==
    /\ Api({"work"})
    /\ \E w \in Works :
         work[w].mem = "live" /\ work[w].at = "idle" /\ work' = [work EXCEPT ![w].at = "queued"]
    /\ UNCHANGED <<obj, refs, scopes, frames, pending, script, lost>>
    /\ UNCHANGED <<uses, hooks, freed, ran, hookAt, leaving, misuse>>

\* napi_cancel_async_work: uv refuses when a thread has taken the request
CancelAsyncWork ==
    /\ Api({"work"})
    /\ \E w \in Works :
         /\ work[w].mem = "live"
         /\ work[w].at = "queued"
         /\ work' = [work EXCEPT ![w].at = "done", ![w].status = "cancelled"]
    /\ UNCHANGED <<obj, refs, scopes, frames, pending, script, lost>>
    /\ UNCHANGED <<uses, hooks, freed, ran, hookAt, leaving, misuse>>

\* napi_delete_async_work: the memory is released wherever the request is
DeleteAsyncWork ==
    /\ Api({"work"})
    /\ \E w \in Works :
         /\ work[w].mem = "live"
         /\ work' = [work EXCEPT ![w].mem = "freed"]
         /\ misuse' = IF work[w].at \in {"queued", "running", "done"}
                      THEN misuse \cup {"work deleted under uv"} ELSE misuse
    /\ UNCHANGED <<obj, refs, scopes, frames, pending, script, lost>>
    /\ UNCHANGED <<uses, hooks, freed, ran, hookAt, leaving>>

\* A thread of the pool takes the request
WorkStarts(w) ==
    /\ work[w].at = "queued"
    /\ work' = [work EXCEPT ![w].at = "running", ![w].executed = @ + 1]
    /\ misuse' = misuse \cup WorkTouched(w)
    /\ UNCHANGED <<uses, hooks, freed, ran, hookAt, leaving>>
    /\ UNCHANGED heapVars

\* iotjs_uv_work_cb returns
WorkEnds(w) ==
    /\ work[w].at = "running"
    /\ work' = [work EXCEPT ![w].at = "done", ![w].status = "ok"]
    /\ UNCHANGED <<uses, hooks, freed, ran, hookAt, leaving, misuse>>
    /\ UNCHANGED heapVars

\* iotjs_uv_work_after_cb up to the call of complete: what it needs of the work is
\* copied first, and the request is idle
AfterWork(w) ==
    /\ work[w].at = "done"
    /\ frames = <<>>
    /\ work' = [work EXCEPT ![w].at = "idle", ![w].completed = @ + 1,
                              ![w].completing = TRUE]
    /\ misuse' = misuse \cup WorkTouched(w)
    /\ frames' = <<Frame("complete", {})>>
    /\ scopes' = OpenScope(scopes)
    /\ UNCHANGED <<obj, refs, pending, script, steps, lost>>
    /\ UNCHANGED <<uses, hooks, freed, ran, hookAt, leaving>>

\* Mutant: the exception is left pending
CompleteReturns_Pending(w) ==
    /\ InAddon
    /\ Top.kind = "complete"
    /\ work[w].completing
    /\ obj' = ScopesReleased(obj, scopes, 1)
    /\ scopes' = <<>>
    /\ frames' = <<>>
    /\ work' = [work EXCEPT ![w].completing = FALSE]
    /\ UNCHANGED <<refs, pending, script, steps, lost>>
    /\ UNCHANGED <<uses, hooks, freed, ran, hookAt, leaving, misuse>>

\* Mutant: the work is read again after complete
CompleteReturns_Reads(w) ==
    /\ InAddon
    /\ Top.kind = "complete"
    /\ work[w].completing
    /\ obj' = ScopesReleased(obj, scopes, 1)
    /\ scopes' = <<>>
    /\ frames' = <<>>
    /\ pending' = NoException
    /\ work' = [work EXCEPT ![w].completing = FALSE]
    /\ misuse' = misuse \cup WorkTouched(w)
    /\ UNCHANGED <<refs, script, steps, lost>>
    /\ UNCHANGED <<uses, hooks, freed, ran, hookAt, leaving>>

\* The rest of iotjs_uv_work_after_cb: the scope is closed, and a pending exception
\* goes to 'uncaughtException' and is released; the work is not touched
CompleteReturns(w) ==
    /\ InAddon
    /\ Top.kind = "complete"
    /\ work[w].completing
    /\ obj' = LET closed == ScopesReleased(obj, scopes, 1)
              IN  IF pending.kind = "none" THEN closed ELSE Released(closed, pending.of)
    /\ scopes' = <<>>
    /\ frames' = <<>>
    /\ pending' = NoException
    /\ work' = [work EXCEPT ![w].completing = FALSE]
    /\ UNCHANGED <<refs, script, steps, lost>>
    /\ UNCHANGED <<uses, hooks, freed, ran, hookAt, leaving, misuse>>

-----------------------------------------------------------------------------
\* Walking the list touches every hook up to number n
Walked(n) == IF \E i \in 1 .. n : hooks[i] \in freed THEN {"hook used after it was freed"} ELSE {}

\* Where addon code runs that may call the hook functions
InHookOrAddon == (InAddon \/ hookAt = "running") /\ steps < MaxSteps

\* napi_add_env_cleanup_hook: at the end of the list, refused when it is there
AddEnvCleanupHook ==
    /\ InHookOrAddon
    /\ steps' = steps + 1
    /\ misuse' = misuse \cup Walked(Len(hooks))
    /\ \E h \in Hooks : h \notin ToSet(hooks) /\ hooks' = Append(hooks, h)
    /\ UNCHANGED <<obj, refs, scopes, frames, pending, script, lost>>
    /\ UNCHANGED <<uses, work, freed, ran, hookAt, leaving>>

\* napi_remove_env_cleanup_hook: taken out of the list and freed
RemoveEnvCleanupHook ==
    /\ InHookOrAddon
    /\ steps' = steps + 1
    /\ \E i \in DOMAIN hooks :
         /\ misuse' = misuse \cup Walked(i)
                      \cup (IF hookAt = "running" /\ i = Len(ran) THEN {"running hook freed"} ELSE {})
         /\ hooks' = RemoveAt(hooks, i)
    /\ UNCHANGED <<obj, refs, scopes, frames, pending, script, lost>>
    /\ UNCHANGED <<uses, work, freed, ran, hookAt, leaving>>

\* iotjs_start comes to iotjs_cleanup_napi: the event loop is over
Leave ==
    /\ uses = "work"
    /\ ~leaving
    /\ frames = <<>>
    /\ \A w \in Works : work[w].at = "idle"
    /\ leaving' = TRUE
    /\ hookAt' = "next"
    /\ UNCHANGED <<uses, work, hooks, freed, ran, misuse>>
    /\ UNCHANGED heapVars

\* Mutant: the last hook is called first
CallHook_LastFirst ==
    /\ hookAt = "next"
    /\ \E i \in DOMAIN hooks :
         /\ i = Len(hooks) - Cardinality(freed)
         /\ ran' = Append(ran, hooks[i])
         /\ hookAt' = "running"
    /\ UNCHANGED <<uses, work, hooks, freed, leaving, misuse>>
    /\ UNCHANGED heapVars

\* iotjs_cleanup_napi calls the next hook
CallHook ==
    /\ hookAt = "next"
    /\ \E i \in DOMAIN hooks :
         /\ i = Cardinality(freed) + 1
         /\ ran' = Append(ran, hooks[i])
         /\ hookAt' = "running"
    /\ UNCHANGED <<uses, work, hooks, freed, leaving, misuse>>
    /\ UNCHANGED heapVars

\* The hook has returned: next is read from it and it is freed, and
\* env->cleanup_hook still points to the first one
HookReturns ==
    /\ hookAt = "running"
    /\ misuse = {}
    /\ freed' = freed \cup {ran[Len(ran)]}
    /\ hookAt' = "next"
    /\ UNCHANGED <<uses, work, hooks, ran, leaving, misuse>>
    /\ UNCHANGED heapVars

NapiWorkCall ==
    \/ CreateAsyncWork \/ QueueAsyncWork \/ CancelAsyncWork \/ DeleteAsyncWork
    \/ AddEnvCleanupHook \/ RemoveEnvCleanupHook \/ Leave \/ CallHook \/ HookReturns

WorkStep(w) == WorkStarts(w) \/ WorkEnds(w) \/ AfterWork(w) \/ CompleteReturns(w)
=============================================================================
