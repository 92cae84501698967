--------------------------------- MODULE Napi ---------------------------------
(***************************************************************************)
(* An addon: its native functions, the script that calls them, the thread  *)
(* pool, the garbage collector and the end of the process.                 *)
(***************************************************************************)
EXTENDS NapiValues, NapiLifetime, NapiWork

vars == <<heapVars, workVars>>

Init == HeapInit /\ WorkInit

Next ==
    \/ NapiValuesCall \/ NapiLifetimeCall \/ NapiFunctionsCall \/ NapiWorkCall
    \/ \E w \in Works : WorkStep(w)
    \/ Collect

Spec == Init /\ [][Next]_vars

-----------------------------------------------------------------------------
\* The counts of o that the references own, and the exports of addons that are being
\* initialised
Counts(rf, o) == [r \in Refs |-> IF rf[r].jval = o THEN rf[r].count ELSE 0]
Exports(fr, o) ==
    [i \in 1 .. Len(fr) |-> IF fr[i].kind = "init" /\ o \in fr[i].args THEN 1 ELSE 0]

\* What owns a count of object o: the handles of the open scopes, the references,
\* the pending exception and the exports
Owners(o) ==
    SumOf(Handles(scopes, o)) + SumOf(Counts(refs, o))
    + (IF pending.of = o THEN 1 ELSE 0) + SumOf(Exports(frames, o))

\* The reference count of an object that the addon can meet is the number of its
\* owners, whatever the order in which scopes are opened, closed and escaped from,
\* references made and deleted, exceptions thrown, caught and passed on: nothing
\* leaks and nothing is freed too early.  Left out are the error of a refused
\* definition (napi_define_properties) and the exports and result of an Init that
\* throws or returns what its scope does not own (napi_module_init_pending).
CountsOwners == \A o \in Live \ lost : obj[o].rc = Owners(o)

\* The list of references of an object holds exactly its references, linked both ways
\* from ref_start to ref_end, so that native_info_free makes every one of them forget
\* the object and no reference names an object that is gone.
ReferencesExact ==
    /\ \A o \in Live :
         /\ Listed(o) = {r \in Refs : refs[r].jval = o}
         /\ \A r \in Listed(o) :
              /\ IF refs[r].prev = None THEN obj[o].refStart = r ELSE refs[refs[r].prev].next = r
              /\ IF refs[r].next = None THEN obj[o].refEnd = r ELSE refs[refs[r].next].prev = r
         /\ Listed(o) = {} => obj[o].refEnd = None
    /\ \A r \in Refs : refs[r].jval # None => refs[r].jval \in Live

\* An exception is pending only while the native function that threw it is on the
\* stack, and never while script runs that napi_call_function or napi_new_instance has
\* called: it is not left for the next function, and napi_throw on behalf of a script
\* that threw never finds another one in its place.  Other native functions run with it
\* pending, and their handler takes it, only inside a getter or setter that its own
\* function ran: napi_get_property and napi_set_property do not test for it.
ExceptionStaysInFrame ==
    IsExceptionPending =>
        /\ pending.at \in 1 .. Len(frames)
        /\ frames[pending.at].kind # "js"
        /\ pending.at < Len(frames) => frames[pending.at + 1].by # "call"
        /\ ~InJsBy("call")

\* A work item may be deleted in its own complete callback, or while it is idle: uv
\* and the after-work callback touch a freed item only when it was deleted between
\* being queued and completed.
WorkSafe ==
    "work used after it was deleted" \in misuse => "work deleted under uv" \in misuse

\* At the end of the process the hooks that were added and not removed are called
\* once each, in the order of their addition, hooks added by hooks included.
HooksInOrder ==
    misuse = {} =>
        /\ IsPrefix(ran, hooks)
        /\ hookAt = "next" => freed = ToSet(ran)
=============================================================================
