---------------------------------- MODULE Adc ----------------------------------
(***************************************************************************)
(* ADC pins: src/src/modules/iotjs_module_adc.c with its Linux part        *)
(* (linux/iotjs_module_adc-linux.c) under src/src/js/adc.js, which hands   *)
(* the native object to the application.  The instance is destroyed when   *)
(* a close has been answered.                                              *)
(***************************************************************************)
EXTENDS Device

\* iotjs_adc_reqwrap_create and its companions: the value read is in the request
AdcReqwrap(op) == ReqwrapInitialize(op)

\* ADC_ASYNC
AdcAsync(op) == QueueWork(AdcReqwrap(op))

\* iotjs_adc_open_worker
AdcOpenWorker(n) ==
    \E exists \in CheckPath :
        /\ WorkerEnds("adc", n, {"open"}, exists)
        /\ UNCHANGED <<kind, native, binding, fd, slot, heap, poll, edge, calls, client, orderly>>

\* iotjs_adc_read (Linux): the value is the content of a file of the device
AdcPlatformRead == OpenReadClose

\* iotjs_adc_read_worker
AdcReadWorker(n) ==
    \E ok \in AdcPlatformRead :
        /\ WorkerEnds("adc", n, {"read"}, ok)
        /\ UNCHANGED <<kind, native, binding, fd, slot, heap, poll, edge, calls, client, orderly>>

\* iotjs_adc_close_worker, with iotjs_adc_close
AdcCloseWorker(n) ==
    /\ WorkerEnds("adc", n, {"close"}, TRUE)
    /\ UNCHANGED <<kind, native, binding, fd, slot, heap, poll, edge, calls, client, orderly>>

\* Mutant: every answer destroys the instance
AdcAfterWork_Always(n) ==
    /\ Answer("adc", n, n, TRUE)
    /\ native' = "freed"
    /\ faults' = faults \cup Used
    /\ UNCHANGED <<binding, slot, heap>>

\* iotjs_adc_after_work, with iotjs_adc_destroy
AdcAfterWork(n) ==
    /\ Answer("adc", n, n, TRUE)
    /\ IF req[n].op = "close"
       THEN native' = "freed" /\ faults' = faults \cup Used
       ELSE UNCHANGED <<native, faults>>
    /\ UNCHANGED <<binding, slot, heap>>

\* AdcConstructor, with iotjs_adc_create
AdcConstructor ==
    /\ Wrap("adc", "none")
    /\ AdcAsync("open")

\* Read
AdcRead ==
    /\ Enter("adc")
    /\ AdcAsync("read")
    /\ faults' = faults \cup Used
    /\ UNCHANGED <<native, binding, fd, slot, heap, poll, edge, client>>

\* ReadSync
AdcReadSync ==
    /\ Enter("adc")
    /\ faults' = faults \cup Used
    /\ UNCHANGED <<native, binding, fd, slot, heap, poll, edge, req, client>>

\* Close
AdcClose ==
    /\ Enter("adc")
    /\ AdcAsync("close")
    /\ faults' = faults \cup Used
    /\ client' = "closed"
    /\ UNCHANGED <<native, binding, fd, slot, heap, poll, edge>>

\* CloseSync
AdcCloseSync ==
    /\ Enter("adc")
    /\ native' = "freed"
    /\ faults' = faults \cup Used
    /\ client' = "closed"
    /\ UNCHANGED <<binding, fd, slot, heap, poll, edge, req>>

AdcStep(n) == AdcOpenWorker(n) \/ AdcReadWorker(n) \/ AdcCloseWorker(n) \/ AdcAfterWork(n)
AdcCall == AdcConstructor \/ AdcRead \/ AdcReadSync \/ AdcClose \/ AdcCloseSync
=============================================================================
