------------------------------ MODULE HandleWrap ------------------------------
(***************************************************************************)
(* iotjs_handlewrap_t (src/src/iotjs_handlewrap.c) and the list of handle  *)
(* wraps of the environment (src/src/iotjs_env.c).  The component has no   *)
(* behaviour of its own: the modules of the native objects (Timers) use    *)
(* its operators as parts of their actions.                                *)
(***************************************************************************)
CONSTANT Handles

VARIABLES
    handle,    \* the field handle of the wrap, with the state of what it points to
    onCloseCb, \* on_close_cb
    jref,      \* the wrap holds a reference to its JavaScript object
    wrap,      \* the memory of the wrap
    uvMem,     \* the memory of the uv_handle_t
    queue      \* handlewrap_queue of the environment

wrapVars == <<handle, onCloseCb, jref, wrap, uvMem, queue>>

WrapInit ==
    /\ handle = [h \in Handles |-> "unset"]
    /\ onCloseCb = [h \in Handles |-> "null"]
    /\ jref = [h \in Handles |-> FALSE]
    /\ wrap = [h \in Handles |-> "none"]
    /\ uvMem = [h \in Handles |-> "none"]
    /\ queue = {}

\* A wrap that has not been used yet
Fresh(h) == wrap[h] = "none"

\* iotjs_handlewrap_initialize
Initialize(h) ==
    /\ Fresh(h)
    /\ handle' = [handle EXCEPT ![h] = "open"]
    /\ onCloseCb' = [onCloseCb EXCEPT ![h] = "null"]
    /\ jref' = [jref EXCEPT ![h] = TRUE]
    /\ wrap' = [wrap EXCEPT ![h] = "live"]
    /\ uvMem' = [uvMem EXCEPT ![h] = "allocated"]
    /\ queue' = queue \cup {h}

\* iotjs_handlewrap_close
Close(h, cb) ==
    /\ IF handle[h] = "open"
       THEN /\ handle' = [handle EXCEPT ![h] = "closing"]
            /\ onCloseCb' = [onCloseCb EXCEPT ![h] = cb]
       ELSE UNCHANGED <<handle, onCloseCb>>
    /\ UNCHANGED <<jref, wrap, uvMem, queue>>

\* iotjs_environment_cleanup_handlewrap: iotjs_handlewrap_close(h, NULL) for all
CloseQueue ==
    /\ handle' = [h \in Handles |->
                     IF h \in queue /\ handle[h] = "open" THEN "closing" ELSE handle[h]]
    /\ onCloseCb' = [h \in Handles |->
                     IF h \in queue /\ handle[h] = "open" THEN "null" ELSE onCloseCb[h]]
    /\ UNCHANGED <<jref, wrap, uvMem, queue>>

\* iotjs_handlewrap_on_close, from uv after uv_close
OnClose(h) ==
    /\ handle[h] = "closing"
    /\ handle' = [handle EXCEPT ![h] = "null"]
    /\ jref' = [jref EXCEPT ![h] = FALSE]
    /\ uvMem' = [uvMem EXCEPT ![h] = IF onCloseCb[h] = "release" THEN "released" ELSE @]
    /\ UNCHANGED <<onCloseCb, wrap, queue>>

\* Mutant: iotjs_environment_remove_handlewrap is not called
Destroy_StaysQueued(h) ==
    /\ wrap[h] = "live"
    /\ ~jref[h]
    /\ wrap' = [wrap EXCEPT ![h] = "destroyed"]
    /\ UNCHANGED <<handle, onCloseCb, jref, uvMem, queue>>

\* iotjs_handlewrap_destroy, by the garbage collector
Destroy(h) ==
    /\ wrap[h] = "live"
    /\ ~jref[h]
    /\ wrap' = [wrap EXCEPT ![h] = "destroyed"]
    /\ queue' = queue \ {h}
    /\ UNCHANGED <<handle, onCloseCb, jref, uvMem>>

\* iotjs_handlewrap_destroy of every wrap left, by jerry_cleanup
DestroyLeft ==
    /\ wrap' = [h \in Handles |-> IF wrap[h] = "live" THEN "destroyed" ELSE wrap[h]]
    /\ queue' = {}
    /\ UNCHANGED <<handle, onCloseCb, jref, uvMem>>

-----------------------------------------------------------------------------
(* The refinement mapping to HandleLife *)

lifeBar ==
    [h \in Handles |->
        IF wrap[h] # "live" THEN wrap[h]
        ELSE IF handle[h] = "null" THEN "closed" ELSE handle[h]]

Abstract == INSTANCE HandleLife WITH life <- lifeBar

\* The wraps follow the life of HandleLife: no wrap is destroyed before its
\* handle is closed (the assertion of iotjs_handlewrap_destroy), none is
\* closed twice, reopened, or forgotten at exit.
FollowsHandleLife == Abstract!Spec

\* The JavaScript object is referenced as long as uv may call back, a wrap whose
\* memory is gone is not in the queue that the exit walks, and the memory of the
\* handle is not released before its wrap has let go of it.
WrapSafe ==
    \A h \in Handles :
        /\ handle[h] \in {"open", "closing"} => jref[h] /\ wrap[h] = "live" /\ h \in queue
        /\ wrap[h] # "live" => h \notin queue
        /\ uvMem[h] = "released" => handle[h] = "null"
=============================================================================
