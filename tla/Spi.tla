---------------------------------- MODULE Spi ----------------------------------
(***************************************************************************)
(* SPI buses: src/src/modules/iotjs_module_spi.c with its Linux part       *)
(* (linux/iotjs_module_spi-linux.c) under src/src/js/spi.js.  The buffers  *)
(* of a transfer are fields of the instance.                               *)
(***************************************************************************)
EXTENDS Device

\* iotjs_spi_reqwrap_create and its companions
SpiReqwrap(op) == ReqwrapInitialize(op)

\* SPI_ASYNC
SpiAsync(op) == QueueWork(SpiReqwrap(op))

\* iotjs_spi_set_configuration (Linux): refused without a descriptor, and when one
\* of the ioctls fails
SpiSetConfiguration(opened) == IF opened THEN BOOLEAN ELSE {FALSE}

\* iotjs_spi_open_worker: device_fd is set even when the open failed
SpiOpenWorker(n) ==
    \E exists \in CheckPath, opened \in BOOLEAN : \E configured \in SpiSetConfiguration(opened) :
        /\ WorkerEnds("spi", n, {"open"}, exists /\ configured)
        /\ fd' = IF ~exists THEN fd ELSE IF opened THEN "open" ELSE "none"
        /\ UNCHANGED <<kind, native, binding, slot, heap, poll, edge, calls, client, orderly>>

\* iotjs_spi_transfer (Linux): one ioctl, which may fail
SpiTransfer == BOOLEAN

\* iotjs_spi_transfer_worker
SpiTransferWorker(n) ==
    \E ok \in SpiTransfer :
        /\ WorkerEnds("spi", n, {"transferArray", "transferBuffer"}, ok)
        /\ UNCHANGED <<kind, native, binding, fd, slot, heap, poll, edge, calls, client, orderly>>

\* iotjs_spi_close (Linux): device_fd is closed when it is not negative, and the
\* constructor has left 0 in it
SpiPlatformClose(ok) ==
    fd' = IF fd = "none" \/ ~ok THEN fd ELSE "none"

SpiCloseFaults == IF fd = "zero" THEN {"foreign descriptor closed"} ELSE {}

\* iotjs_spi_close_worker
SpiCloseWorker(n) ==
    \E ok \in BOOLEAN :
        /\ kind = "spi" /\ req[n].st = "running" /\ req[n].op = "close"
        /\ req' = [req EXCEPT ![n].st = "done", ![n].ok = ok \/ fd = "none"]
        /\ faults' = faults \cup Used \cup SpiCloseFaults
        /\ SpiPlatformClose(ok)
        /\ UNCHANGED <<kind, native, binding, slot, heap, poll, edge, calls, client, orderly>>

\* afterCallback of spi.js copies the received data before it calls the callback of
\* the application: without data, after an error, it throws
SpiReaches(n) == req[n].ok \/ req[n].op \in {"open", "close"}

\* iotjs_spi_after_work: the answer is what the instance points to now, and the
\* arrays that it points to are released
SpiAfterWork(n) ==
    /\ Answer("spi", n, slot["buf"], SpiReaches(n))
    /\ Forget(n)
    /\ IF req[n].op = "transferArray"
       THEN /\ heap' = heap \ {slot["buf"]}
            /\ faults' = faults \cup Used \cup Freed(slot["buf"])
       ELSE /\ faults' = faults \cup (IF req[n].op = "transferBuffer" THEN Used ELSE {})
            /\ UNCHANGED heap
    /\ UNCHANGED <<native, slot>>

\* SpiConstructor, with iotjs_spi_create, which leaves device_fd zero
SpiConstructor ==
    /\ Wrap("spi", "zero")
    /\ SpiAsync("open")

\* iotjs_spi_set_array_buffer, with iotjs_spi_get_array_data, and
\* iotjs_spi_set_buffer: the instance points to the buffers of this call
SpiSetBuffer == slot' = [slot EXCEPT !["buf"] = calls + 1]

\* TransferArray: the arrays are copied to new buffers, which the synchronous call
\* releases
SpiTransferArray ==
    /\ Enter("spi")
    /\ SpiSetBuffer
    /\ \/ SpiAsync("transferArray") /\ heap' = heap \cup {calls + 1}
       \/ UNCHANGED <<req, heap>>
    /\ faults' = faults \cup Used
    /\ UNCHANGED <<native, binding, fd, poll, edge, client>>

\* TransferBuffer: the instance points into the Buffers of the script
SpiTransferBuffer ==
    /\ Enter("spi")
    /\ SpiSetBuffer
    /\ SpiAsync("transferBuffer") \/ UNCHANGED req
    /\ faults' = faults \cup Used
    /\ UNCHANGED <<native, binding, fd, heap, poll, edge, client>>

\* Close without a callback, from closeSync() of spi.js: an error is thrown before
\* _binding is set to null
SpiCloseSync ==
    \E ok \in BOOLEAN :
        /\ SpiPlatformClose(ok)
        /\ binding' = ~(ok \/ fd = "none")
        /\ faults' = faults \cup Used \cup SpiCloseFaults
        /\ UNCHANGED req

\* Close, from close() and closeSync() of spi.js
SpiClose ==
    /\ Enter("spi")
    /\ \/ /\ SpiAsync("close")
          /\ faults' = faults \cup Used
          /\ UNCHANGED <<binding, fd>>
       \/ SpiCloseSync
    /\ client' = Closed
    /\ UNCHANGED <<native, slot, heap, poll, edge>>

\* The 'exit' listener of spi.js
SpiOnExit == ExitListener("spi") /\ SpiCloseSync /\ UNCHANGED <<native, slot, heap, poll, edge>>

SpiStep(n) == SpiOpenWorker(n) \/ SpiTransferWorker(n) \/ SpiCloseWorker(n) \/ SpiAfterWork(n)
SpiCall == SpiConstructor \/ SpiTransferArray \/ SpiTransferBuffer \/ SpiClose
=============================================================================
