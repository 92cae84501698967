----------------------------- MODULE NapiLifetime -----------------------------
(***************************************************************************)
(* src/src/napi/node_api_lifetime.c and node_api_object_wrap.c: handle     *)
(* scopes, references and wraps, and what the garbage collector does with  *)
(* the object info.                                                        *)
(***************************************************************************)
EXTENDS NapiHeap

\* The list of references of object o: those that following next from ref_start meets
Listed(o) ==
    {r \in Refs : \A S \in SUBSET Refs :
        /\ obj[o].refStart # None => obj[o].refStart \in S
        /\ \A q \in S : refs[q].next # None => refs[q].next \in S
        => r \in S}

\* The garbage collector frees the objects that it has not marked, and calls
\* native_info_free or iotjs_napi_arraybuffer_external_free_cb for each: the
\* references of the object forget it, and the finalizer of a wrap that is left is
\* called
Collect ==
    LET dead == Live \ Kept
    IN  /\ dead # {}
        /\ obj' = [o \in Objects |->
                     IF o \in dead
                     THEN [obj[o] EXCEPT !.st = "gone",
                                         !.final = @ + (IF obj[o].wrap = "none" THEN 0 ELSE 1)]
                     ELSE obj[o]]
        /\ refs' = [r \in Refs |-> IF \E o \in dead : r \in Listed(o)
                                   THEN [refs[r] EXCEPT !.jval = None] ELSE refs[r]]
        /\ UNCHANGED <<scopes, frames, pending, script, steps, lost, workVars>>

-----------------------------------------------------------------------------
\* napi_open_handle_scope, napi_open_escapable_handle_scope, napi_open_callback_scope
OpenHandleScope ==
    /\ Api({"values"})
    /\ Len(scopes) < MaxDepth
    /\ scopes' = OpenScope(scopes)
    /\ UNCHANGED <<obj, refs, frames, pending, script, lost, workVars>>

\* napi_close_handle_scope, napi_close_escapable_handle_scope,
\* napi_close_callback_scope: a scope that the addon opened in this frame
CloseHandleScope ==
    /\ Api({"values"})
    /\ \E i \in Top.base + 2 .. Len(scopes) :
         /\ obj' = ScopesReleased(obj, scopes, i)
         /\ scopes' = CloseScope(scopes, i)
    /\ UNCHANGED <<refs, frames, pending, script, lost, workVars>>

\* napi_escape_handle, of the current scope
EscapeHandle ==
    /\ Api({"values"})
    /\ Len(scopes) > Top.base + 1
    /\ \E o \in Handled : CanEscape(scopes, o) /\ scopes' = Escaped(scopes, o)
    /\ UNCHANGED <<obj, refs, frames, pending, script, lost, workVars>>

-----------------------------------------------------------------------------
NewRef == {r \in Refs : refs[r].st = "none" /\ \A q \in 1 .. r - 1 : refs[q].st # "none"}

\* napi_create_reference: reference r is appended to the list of the object, with n
\* counts of it
Linked(o, r, n) ==
    LET last == obj[o].refEnd IN
    [q \in Refs |->
        IF q = r THEN [st |-> "live", jval |-> o, count |-> n, prev |-> last, next |-> None]
        ELSE IF q = last THEN [refs[q] EXCEPT !.next = r]
        ELSE refs[q]]
WithRef(ob, o, r, n) ==
    [ob EXCEPT ![o].rc = @ + n, ![o].refEnd = r, ![o].refStart = IF @ = None THEN r ELSE @]

CreateReference ==
    /\ Api({"values"})
    /\ \E o \in Usable, r \in NewRef, n \in {0, 1} :
         refs' = Linked(o, r, n) /\ obj' = WithRef(obj, o, r, n)
    /\ UNCHANGED <<scopes, frames, pending, script, lost, workVars>>

\* The list of the object without r: ref_start, ref_end, and the neighbours of r
Unlinked(r) ==
    LET o == refs[r].jval
        p == refs[r].prev
        n == refs[r].next
        skipped == [q \in Refs |->
            [refs[q] EXCEPT !.next = IF q = p THEN n ELSE @, !.prev = IF q = n THEN p ELSE @]]
    IN  /\ refs' = [skipped EXCEPT ![r] = [NoRef EXCEPT !.st = "deleted"]]
        /\ obj' = [obj EXCEPT ![o].rc = @ - refs[r].count,
                              ![o].refStart = IF @ = r THEN n ELSE @,
                              ![o].refEnd = IF @ = r THEN p ELSE @]

\* Mutant: the list is left as it is
DeleteReference_Linked ==
    /\ Api({"values"})
    /\ \E r \in Refs :
         /\ refs[r].st = "live"
         /\ refs' = [refs EXCEPT ![r] = [NoRef EXCEPT !.st = "deleted"]]
         /\ obj' = IF refs[r].jval = None THEN obj
                   ELSE [obj EXCEPT ![refs[r].jval].rc = @ - refs[r].count]
    /\ UNCHANGED <<scopes, frames, pending, script, lost, workVars>>

\* napi_delete_reference: a reference of an object that is gone is in no list; one that
\* is not found in the list of its object would be refused
DeleteReference ==
    /\ Api({"values"})
    /\ \E r \in Refs :
         /\ refs[r].st = "live"
         /\ IF refs[r].jval = None
            THEN refs' = [refs EXCEPT ![r] = [NoRef EXCEPT !.st = "deleted"]] /\ UNCHANGED obj
            ELSE r \in Listed(refs[r].jval) /\ Unlinked(r)
    /\ UNCHANGED <<scopes, frames, pending, script, lost, workVars>>

\* napi_reference_ref: refused when the object is gone
ReferenceRef ==
    /\ Api({"values"})
    /\ \E r \in Refs :
         /\ refs[r].jval # None
         /\ refs' = [refs EXCEPT ![r].count = @ + 1]
         /\ obj' = Acquired(obj, refs[r].jval)
    /\ UNCHANGED <<scopes, frames, pending, script, lost, workVars>>

\* napi_reference_unref: refused when the count is zero
ReferenceUnref ==
    /\ Api({"values"})
    /\ \E r \in Refs :
         /\ refs[r].count > 0
         /\ refs' = [refs EXCEPT ![r].count = @ - 1]
         /\ obj' = Released(obj, refs[r].jval)
    /\ UNCHANGED <<scopes, frames, pending, script, lost, workVars>>

\* napi_get_reference_value: no handle is made for the value
GetReferenceValue ==
    /\ Api({"values"})
    /\ \E r \in Refs :
         /\ refs[r].jval # None
         /\ frames' = [frames EXCEPT ![Len(frames)].loose = @ \cup {refs[r].jval}]
    /\ UNCHANGED <<obj, refs, scopes, pending, script, lost, workVars>>

-----------------------------------------------------------------------------
\* napi_wrap: refused when the object has a wrap; the wrap is made before the
\* reference, and stays when there is no place for the reference (napi_invalid_arg)
Wrap ==
    /\ Api({"values"})
    /\ \E o \in Usable :
         /\ obj[o].wrap = "none"
         /\ \/ \E r \in NewRef :
                 /\ refs' = Linked(o, r, 0)
                 /\ obj' = WithRef([obj EXCEPT ![o].wrap = "wrap"], o, r, 0)
            \/ obj' = [obj EXCEPT ![o].wrap = "wrap"] /\ UNCHANGED refs
    /\ UNCHANGED <<scopes, frames, pending, script, lost, workVars>>

\* napi_remove_wrap: the reference is left
RemoveWrap ==
    /\ Api({"values"})
    /\ \E o \in Usable : obj[o].wrap = "wrap" /\ obj' = [obj EXCEPT ![o].wrap = "none"]
    /\ UNCHANGED <<refs, scopes, frames, pending, script, lost, workVars>>

NapiLifetimeCall ==
    \/ OpenHandleScope \/ CloseHandleScope \/ EscapeHandle
    \/ CreateReference \/ DeleteReference \/ ReferenceRef \/ ReferenceUnref \/ GetReferenceValue
    \/ Wrap \/ RemoveWrap
=============================================================================
