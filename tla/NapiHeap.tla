------------------------------- MODULE NapiHeap -------------------------------
(***************************************************************************)
(* The heap as N-API sees it: objects of the engine with their reference   *)
(* counts, the handle scopes that own values on behalf of an addon (the    *)
(* handle-scope extension of JerryScript), the references an addon makes,  *)
(* and the native frames on the stack.  NapiValues, NapiLifetime and       *)
(* NapiWork add the calls of src/src/napi.                                 *)
(*                                                                         *)
(* An object is kept by a reference count that is not zero, by the script, *)
(* and by an object that is kept and has it as its property.               *)
(***************************************************************************)
EXTENDS Integers, Sequences, FiniteSets, SequencesExt, Sums

CONSTANTS
    MaxObjects,   \* objects created in a behaviour
    MaxRefs,      \* references created in a behaviour
    MaxDepth,     \* handle scopes open at once
    MaxSteps,     \* calls of the addon and the script
    Works,        \* the work items
    Hooks         \* the cleanup hooks (a function and its argument)

ASSUME NapiAssumption ==
    /\ MaxObjects \in Nat \ {0} /\ MaxRefs \in Nat \ {0}
    /\ MaxDepth \in Nat \ {0} /\ MaxSteps \in Nat

VARIABLES
    obj,       \* the objects: their state, count, property and object info
    refs,      \* iotjs_reference_t: a list for each object, doubly linked
    scopes,    \* the open handle scopes, the current one last
    frames,    \* the native functions and the script calls on the stack
    pending,   \* pending_exception and pending_fatal_exception of the env
    script,    \* the objects that the script can reach
    steps,     \* number of calls so far
    lost,      \* history: objects whose count is wrong because of a known path
    uses,      \* what the addon of this behaviour uses: values, or work and hooks
    work,      \* iotjs_async_work_t and where uv has its request
    hooks,     \* the hooks linked from env->cleanup_hook, with those already freed
    freed,     \* the hooks of the list whose memory is free
    ran,       \* the hooks called, in order
    hookAt,    \* whether a hook is being called at the end of the process
    leaving,   \* the process is past its event loop
    misuse     \* history: what the addon or the loop did with freed memory

workVars == <<uses, work, hooks, freed, ran, hookAt, leaving, misuse>>
heapVars == <<obj, refs, scopes, frames, pending, script, steps, lost>>

Objects == 1 .. MaxObjects
Refs == 1 .. MaxRefs
None == 0

\* wrap is native_object, finalize_cb and finalize_hint of the object info; final
\* counts the calls of finalizers, by wrap
Unborn == [st |-> "unborn", rc |-> 0, prop |-> None, wrap |-> "none", final |-> 0,
           refStart |-> None, refEnd |-> None]
NoRef == [st |-> "none", jval |-> None, count |-> 0, prev |-> None, next |-> None]
NoException == [kind |-> "none", of |-> None, at |-> 0]

HeapInit ==
    /\ obj = [o \in Objects |-> Unborn]
    /\ refs = [r \in Refs |-> NoRef]
    /\ scopes = <<>>
    /\ frames = <<>>
    /\ pending = NoException
    /\ script = {}
    /\ steps = 0
    /\ lost = {}

-----------------------------------------------------------------------------
(* The engine.                                                             *)

Live == {o \in Objects : obj[o].st = "live"}

\* jerry_acquire_value, jerry_release_value
Acquired(ob, o) == [ob EXCEPT ![o].rc = @ + 1]
Released(ob, o) == [ob EXCEPT ![o].rc = @ - 1]

\* A new object: objects are numbered as they are created
Fresh == {o \in Objects : obj[o].st = "unborn" /\ \A p \in 1 .. o - 1 : obj[p].st # "unborn"}
Created(ob, o) == [ob EXCEPT ![o].st = "live", ![o].rc = 1]

\* The values that the engine holds for a call: the arguments, and exports
HeldByCalls == UNION {frames[i].args : i \in DOMAIN frames}

\* What the garbage collector marks: the least set that has the roots and what its
\* members have as their property
Roots == {o \in Live : obj[o].rc > 0} \cup script \cup HeldByCalls
Kept == {o \in Objects : \A S \in SUBSET Objects :
             /\ Roots \subseteq S
             /\ \A p \in S : obj[p].prop # None => obj[p].prop \in S
             => o \in S}

-----------------------------------------------------------------------------
(* Handle scopes.                                                          *)

NewScope == [handles |-> [o \in Objects |-> 0], escaped |-> FALSE]

\* jerryx_open_handle_scope
OpenScope(sc) == Append(sc, NewScope)

\* jerryx_create_handle: the current scope takes over one count of o
HandleIn(sc, o) == [sc EXCEPT ![Len(sc)].handles[o] = @ + 1]

\* jerryx_close_handle_scope: scope i and the scopes opened in it give back what
\* they own
Handles(sc, o) == [i \in 1 .. Len(sc) |-> sc[i].handles[o]]
Owned(sc, i, o) == SumOf(Handles(sc, o)) - Totals(Handles(sc, o))[i - 1]
ScopesReleased(ob, sc, i) == [o \in Objects |-> [ob[o] EXCEPT !.rc = @ - Owned(sc, i, o)]]
CloseScope(sc, i) == SubSeq(sc, 1, i - 1)

\* jerryx_escape_handle: allowed once, for a value that the scope owns
CanEscape(sc, o) == Len(sc) > 1 /\ ~sc[Len(sc)].escaped /\ sc[Len(sc)].handles[o] > 0
Escaped(sc, o) ==
    LET d == Len(sc)
    IN  [sc EXCEPT ![d].handles[o] = @ - 1, ![d].escaped = TRUE, ![d - 1].handles[o] = @ + 1]

-----------------------------------------------------------------------------
(* The addon runs in the frame on top of the stack, with the values it was *)
(* given there: its arguments, the handles of its scopes, and those that   *)
(* it was given without a handle.  It uses those that still exist.         *)

Top == frames[Len(frames)]
InAddon == frames # <<>> /\ Top.kind # "js"
Frame(k, as) == [kind |-> k, by |-> "call", base |-> Len(scopes), args |-> as, loose |-> {}]
Handled == {o \in Objects : \E i \in Top.base + 1 .. Len(scopes) : scopes[i].handles[o] > 0}

\* napi_get_cb_info and napi_get_new_target: values of the call, without a handle
CbInfo == Top.args
Usable == (CbInfo \cup Handled \cup Top.loose) \cap Live

\* A call of an addon that uses values, or work and hooks; NAPI_TRY_ENV holds on the
\* main thread
Api(us) ==
    /\ uses \in us
    /\ InAddon
    /\ steps < MaxSteps
    /\ steps' = steps + 1

\* The object is created and the current scope owns it: JERRYX_CREATE
CreateHandle(o) ==
    /\ o \in Fresh
    /\ scopes' = HandleIn(scopes, o)
=============================================================================
