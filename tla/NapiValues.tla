------------------------------ MODULE NapiValues ------------------------------
(***************************************************************************)
(* The functions of src/src/napi/node_api_value.c that make objects and    *)
(* those of src/src/napi/node_api_property.c.  Primitive values have no    *)
(* count and are left out; a call that a type check refuses (napi_object_  *)
(* expected) changes nothing.                                              *)
(***************************************************************************)
EXTENDS NapiHeap

\* napi_create_array, napi_create_array_with_length, napi_create_arraybuffer
CreateArray ==
    /\ Api({"values"})
    /\ \E o \in Fresh : CreateHandle(o) /\ obj' = Created(obj, o)
    /\ UNCHANGED <<refs, frames, pending, script, lost, workVars>>

\* napi_create_external_arraybuffer: the finalizer is kept with the data
CreateExternalArraybuffer ==
    /\ Api({"values"})
    /\ \E o \in Fresh : CreateHandle(o) /\ obj' = [Created(obj, o) EXCEPT ![o].wrap = "data"]
    /\ UNCHANGED <<refs, frames, pending, script, lost, workVars>>

\* napi_create_external: napi_create_object, then the object info is filled
CreateExternal ==
    /\ Api({"values"})
    /\ \E o \in Fresh : CreateHandle(o) /\ obj' = [Created(obj, o) EXCEPT ![o].wrap = "wrap"]
    /\ UNCHANGED <<refs, frames, pending, script, lost, workVars>>

\* napi_create_typedarray: the array keeps its buffer
CreateTypedarray ==
    /\ Api({"values"})
    /\ \E o \in Fresh, b \in Usable :
         CreateHandle(o) /\ obj' = [Created(obj, o) EXCEPT ![o].prop = b]
    /\ UNCHANGED <<refs, frames, pending, script, lost, workVars>>

\* napi_create_error and its kin: the handle is made after the error flag is cleared
CreateError ==
    /\ Api({"values"})
    /\ \E o \in Fresh : CreateHandle(o) /\ obj' = Created(obj, o)
    /\ UNCHANGED <<refs, frames, pending, script, lost, workVars>>

-----------------------------------------------------------------------------
\* napi_get_property_names: the scope owns the array of the names
GetPropertyNames ==
    /\ Api({"values"})
    /\ Usable # {}
    /\ \E o \in Fresh : CreateHandle(o) /\ obj' = Created(obj, o)
    /\ UNCHANGED <<refs, frames, pending, script, lost, workVars>>

\* The script of a getter or a setter (by), run by the engine for napi_get_property or
\* napi_set_property.  Neither looks whether an exception is pending.
Accessor(by) == [Frame("js", {}) EXCEPT !.by = by]
InJsBy(by) == frames # <<>> /\ Top.kind = "js" /\ Top.by = by

\* napi_set_property of a property without a setter
SetData ==
    /\ Api({"values"})
    /\ \E o, p \in Usable : obj' = [obj EXCEPT ![o].prop = p]
    /\ UNCHANGED <<refs, scopes, frames, pending, script, lost, workVars>>

\* napi_set_property up to the call of a setter, which is given the object and the value
CallSetter ==
    /\ Api({"values"})
    /\ \E o, p \in Usable : script' = script \cup {o, p}
    /\ frames' = Append(frames, Accessor("set"))
    /\ UNCHANGED <<obj, refs, scopes, pending, lost, workVars>>

\* The rest of napi_set_property: the result or the error of the setter is released
SetterReturns ==
    /\ InJsBy("set")
    /\ frames' = Front(frames)
    /\ UNCHANGED <<obj, refs, scopes, pending, script, steps, lost, workVars>>

\* napi_set_property, napi_set_named_property, whose key is made and released around
\* napi_set_property, and napi_set_element
SetProperty == SetData \/ CallSetter
SetNamedProperty == SetProperty
SetElement == SetProperty

\* Mutant: the value of the property is put in the scope as if it had been acquired
GetData_NotAcquired ==
    /\ Api({"values"})
    /\ \E o \in Usable : /\ obj[o].prop # None
                         /\ scopes' = HandleIn(scopes, obj[o].prop)
                         /\ UNCHANGED obj
    /\ UNCHANGED <<refs, frames, pending, script, lost, workVars>>

\* napi_get_property of a property without a getter: the scope owns the value
GetData ==
    /\ Api({"values"})
    /\ \E o \in Usable : /\ obj[o].prop # None
                         /\ scopes' = HandleIn(scopes, obj[o].prop)
                         /\ obj' = Acquired(obj, obj[o].prop)
    /\ UNCHANGED <<refs, frames, pending, script, lost, workVars>>

\* napi_get_property up to the call of a getter
CallGetter ==
    /\ Api({"values"})
    /\ \E o \in Usable : script' = script \cup {o}
    /\ frames' = Append(frames, Accessor("get"))
    /\ UNCHANGED <<obj, refs, scopes, pending, lost, workVars>>

\* The rest of napi_get_property: the scope owns what the getter returned or threw.
\* An error is not thrown on.
GetterReturns ==
    /\ InJsBy("get")
    /\ frames' = Front(frames)
    /\ \/ UNCHANGED <<obj, scopes>>
       \/ \E o \in script : obj' = Acquired(obj, o) /\ scopes' = HandleIn(scopes, o)
       \/ \E e \in Fresh : obj' = Created(obj, e) /\ scopes' = HandleIn(scopes, e)
    /\ UNCHANGED <<refs, pending, script, steps, lost, workVars>>

\* napi_get_property, napi_get_named_property, whose key is made and released around
\* napi_get_property, and napi_get_element
GetProperty == GetData \/ CallGetter
GetNamedProperty == GetProperty
GetElement == GetProperty

\* napi_delete_property, napi_delete_element
DeleteProperty ==
    /\ Api({"values"})
    /\ \E o \in Usable : obj' = [obj EXCEPT ![o].prop = None]
    /\ UNCHANGED <<refs, scopes, frames, pending, script, lost, workVars>>

\* iotjs_napi_prop_desc_to_jdesc: a method becomes a function that the scope owns
PropDescToJdesc(f) == CreateHandle(f)

\* napi_define_properties: the error of a definition that the engine refuses is
\* not released
DefineProperties ==
    /\ Api({"values"})
    /\ \E o \in Usable, f \in Fresh :
         /\ PropDescToJdesc(f)
         /\ \/ obj' = [Created(obj, f) EXCEPT ![o].prop = f] /\ UNCHANGED lost
            \/ /\ f + 1 \in Objects
               /\ obj' = Created(Created(obj, f), f + 1)
               /\ lost' = lost \cup {f + 1}
    /\ UNCHANGED <<refs, frames, pending, script, workVars>>

\* napi_define_class with one method that is not static: the scope owns the
\* constructor, its prototype and the method
DefineClass ==
    /\ Api({"values"})
    /\ \E f \in Fresh :
         LET proto == f + 1
             method == f + 2
         IN  /\ method \in Objects
             /\ scopes' = HandleIn(HandleIn(HandleIn(scopes, f), proto), method)
             /\ obj' = [Created(Created(Created(obj, f), proto), method)
                          EXCEPT ![f].prop = proto, ![proto].prop = method]
    /\ UNCHANGED <<refs, frames, pending, script, lost, workVars>>

NapiValuesCall ==
    \/ CreateArray \/ CreateExternalArraybuffer \/ CreateExternal \/ CreateTypedarray
    \/ CreateError \/ GetPropertyNames
    \/ SetProperty \/ SetNamedProperty \/ SetElement
    \/ GetProperty \/ GetNamedProperty \/ GetElement
    \/ SetterReturns \/ GetterReturns
    \/ DeleteProperty \/ DefineProperties \/ DefineClass

-----------------------------------------------------------------------------
(* src/src/napi/node_api_env.c, node_api_function.c and node_api_module.c: *)
(* exceptions, native functions called by the script, script functions     *)
(* called by the addon, and the initialisation of an addon.                *)

\* Where the script runs: on its own, or called by an addon, or in an accessor
InScript == frames # <<>> => Top.kind = "js"

\* What the engine does with the value that a native function returned: the count
\* is given back, and the script may keep the value
Taken(ob, v) == IF v = None THEN ob ELSE Released(ob, v)
KeepOrNot(v) == script' \in {script, script \cup ({v} \ {None})}

\* iotjs_napi_is_exception_pending
IsExceptionPending == pending.kind # "none"

-----------------------------------------------------------------------------
\* The script forgets an object
ScriptDrops ==
    /\ uses = "values"
    /\ InScript
    /\ ~leaving
    /\ steps < MaxSteps
    /\ steps' = steps + 1
    /\ \E o \in script : script' = script \ {o}
    /\ UNCHANGED <<obj, refs, scopes, frames, pending, lost, workVars>>

\* The script calls a native function: iotjs_napi_function_handler up to the call of
\* the callback.  The argument is an object of the script, or a new one.
FunctionHandler ==
    /\ InScript
    /\ ~leaving
    /\ steps < MaxSteps
    /\ Len(scopes) < MaxDepth
    /\ steps' = steps + 1
    /\ \E as \in {{}} \cup {{o} : o \in script \cup Fresh} :
         /\ frames' = Append(frames, Frame("function", as))
         /\ obj' = [o \in Objects |-> IF o \in as \cap Fresh THEN [obj[o] EXCEPT !.st = "live"]
                                      ELSE obj[o]]
         /\ script' = script \cup as
    /\ scopes' = OpenScope(scopes)
    /\ UNCHANGED <<refs, pending, lost, workVars>>

\* The rest of iotjs_napi_function_handler: a pending exception is what the function
\* throws, a fatal one goes to 'uncaughtException' and is returned, and a value is
\* acquired before the scope is closed
FunctionReturns ==
    /\ InAddon
    /\ Top.kind = "function"
    /\ \E v \in IF IsExceptionPending THEN {pending.of} ELSE Usable \cup {None} :
         LET acquired == IF IsExceptionPending \/ v = None THEN obj ELSE Acquired(obj, v)
         IN  /\ obj' = Taken(ScopesReleased(acquired, scopes, Top.base + 1), v)
             /\ KeepOrNot(v)
    /\ scopes' = CloseScope(scopes, Top.base + 1)
    /\ frames' = Front(frames)
    /\ pending' = NoException
    /\ UNCHANGED <<refs, steps, lost, workVars>>

\* napi_create_function
CreateFunction ==
    /\ Api({"values"})
    /\ \E o \in Fresh : CreateHandle(o) /\ obj' = Created(obj, o)
    /\ UNCHANGED <<refs, frames, pending, script, lost, workVars>>

\* napi_call_function and napi_new_instance, up to the call of the script: refused
\* while an exception is pending
CallFunction ==
    /\ Api({"values"})
    /\ ~IsExceptionPending
    /\ frames' = Append(frames, Frame("js", {}))
    /\ UNCHANGED <<obj, refs, scopes, pending, script, lost, workVars>>

\* The rest of napi_call_function and napi_new_instance: the scope owns what the
\* script returned; an error is thrown on as well
FunctionCalled ==
    /\ InJsBy("call")
    /\ frames' = Front(frames)
    /\ \/ UNCHANGED <<obj, scopes, pending>>
       \/ \E o \in script : /\ obj' = Acquired(obj, o)
                            /\ scopes' = HandleIn(scopes, o)
                            /\ UNCHANGED pending
       \/ \E e \in Fresh : /\ obj' = Acquired(Created(obj, e), e)
                           /\ scopes' = HandleIn(scopes, e)
                           /\ pending' = [kind |-> "throw", of |-> e, at |-> Len(frames) - 1]
    /\ UNCHANGED <<refs, script, steps, lost, workVars>>

-----------------------------------------------------------------------------
\* napi_throw
Throw ==
    /\ Api({"values"})
    /\ ~IsExceptionPending
    /\ \E e \in Usable : /\ pending' = [kind |-> "throw", of |-> e, at |-> Len(frames)]
                         /\ obj' = Acquired(obj, e)
    /\ UNCHANGED <<refs, scopes, frames, script, lost, workVars>>

\* napi_throw_error and its kin: the scope owns the new error, and so does the env
ThrowError ==
    /\ Api({"values", "work"})
    /\ ~IsExceptionPending
    /\ \E e \in Fresh : /\ CreateHandle(e)
                        /\ obj' = Acquired(Created(obj, e), e)
                        /\ pending' = [kind |-> "throw", of |-> e, at |-> Len(frames)]
    /\ UNCHANGED <<refs, frames, script, lost, workVars>>

\* napi_fatal_exception
FatalException ==
    /\ Api({"values"})
    /\ ~IsExceptionPending
    /\ \E e \in Usable : /\ pending' = [kind |-> "fatal", of |-> e, at |-> Len(frames)]
                         /\ obj' = Acquired(obj, e)
    /\ UNCHANGED <<refs, scopes, frames, script, lost, workVars>>

\* napi_get_and_clear_last_exception: the count is released, and no handle is made
GetAndClearLastException ==
    /\ Api({"values"})
    /\ IsExceptionPending
    /\ obj' = Released(obj, pending.of)
    /\ frames' = [frames EXCEPT ![Len(frames)].loose = @ \cup {pending.of}]
    /\ pending' = NoException
    /\ UNCHANGED <<refs, scopes, script, lost, workVars>>

-----------------------------------------------------------------------------
\* process.openNativeModule with a pending module: napi_module_init_pending up to
\* the call of Init, which is given the new exports
InitPending ==
    /\ uses = "values"
    /\ InScript
    /\ ~leaving
    /\ steps < MaxSteps
    /\ Len(scopes) < MaxDepth
    /\ steps' = steps + 1
    /\ \E e \in Fresh : /\ frames' = Append(frames, Frame("init", {e}))
                        /\ obj' = Created(obj, e)
    /\ scopes' = OpenScope(scopes)
    /\ UNCHANGED <<refs, pending, script, lost, workVars>>

\* The rest of napi_module_init_pending, for the value v that Init returned: exports
\* is released unless it is v, and v is taken from the scope, if the scope owns it.
\* With an exception pending exports is released again, and v is forgotten.
InitReturns ==
    /\ InAddon
    /\ Top.kind = "init"
    /\ \E exports \in Top.args, v \in Usable \cup {None} :
         LET first == Top.base + 1
             other == v \notin {None, exports}
             inScope == other /\ scopes[first].handles[v] > 0
             removed == IF inScope THEN [scopes EXCEPT ![first].handles[v] = @ - 1] ELSE scopes
             once == IF v = exports THEN obj ELSE Released(obj, exports)
             closed == ScopesReleased(once, removed, first)
         IN  IF IsExceptionPending
             THEN /\ obj' = Taken(Released(closed, exports), pending.of)
                  /\ lost' = lost \cup (IF v = exports THEN {} ELSE {exports, v} \ {None})
                  /\ KeepOrNot(pending.of)
             ELSE /\ obj' = Taken(closed, v)
                  /\ lost' = IF other /\ ~inScope THEN lost \cup {v} ELSE lost
                  /\ KeepOrNot(v)
    /\ scopes' = CloseScope(scopes, Top.base + 1)
    /\ frames' = Front(frames)
    /\ pending' = NoException
    /\ UNCHANGED <<refs, steps, workVars>>

NapiFunctionsCall ==
    \/ ScriptDrops \/ FunctionHandler \/ FunctionReturns \/ CreateFunction \/ CallFunction
    \/ FunctionCalled \/ Throw \/ ThrowError \/ FatalException \/ GetAndClearLastException
    \/ InitPending \/ InitReturns
==============================================================================
