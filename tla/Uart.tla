--------------------------------- MODULE Uart ---------------------------------
(***************************************************************************)
(* UART ports: src/src/modules/iotjs_module_uart.c with its Linux part     *)
(* (linux/iotjs_module_uart-linux.c) under src/src/js/uart.js.  The        *)
(* instance is a handle wrap (HandleWrap) of a uv_poll_t, which the open   *)
(* worker initialises; the string of a write is a field of the instance.   *)
(***************************************************************************)
EXTENDS Device

\* iotjs_uart_reqwrap_create and its companions
UartReqwrap(op) == ReqwrapInitialize(op)

\* UART_ASYNC
UartAsync(op) == QueueWork(UartReqwrap(op))

\* iotjs_uart_open_worker, with the conversions of the baud rate and data bits
UartOpenWorker(n) ==
    \E opened \in BOOLEAN :
        /\ WorkerEnds("uart", n, {"open"}, opened)
        /\ IF opened THEN fd' = "open" /\ poll' = "active" ELSE UNCHANGED <<fd, poll>>
        /\ UNCHANGED <<kind, native, binding, slot, heap, edge, calls, client, orderly>>

\* iotjs_uart_write (Linux): the bytes left are written until none is, or an error
UartWriteWorker(n) ==
    \E ok \in BOOLEAN :
        /\ WorkerEnds("uart", n, {"write"}, ok)
        /\ UNCHANGED <<kind, native, binding, fd, slot, heap, poll, edge, calls, client, orderly>>

\* iotjs_uart_close: iotjs_handlewrap_close, which leaves a handle alone that is
\* closing or closed; uv_close aborts on one that was never initialised
UartHandleClose == poll' = IF poll = "active" THEN "closing" ELSE poll
UartCloseFaults == IF poll = "raw" THEN {"uninitialised handle closed"} ELSE {}

\* iotjs_uart_close_worker
UartCloseWorker(n) ==
    /\ kind = "uart" /\ req[n].st = "running" /\ req[n].op = "close"
    /\ req' = [req EXCEPT ![n].st = "done", ![n].ok = TRUE]
    /\ faults' = faults \cup Used \cup UartCloseFaults
    /\ UartHandleClose
    /\ UNCHANGED <<kind, native, binding, fd, slot, heap, edge, calls, client, orderly>>

\* handlewrap_close_callback, from iotjs_handlewrap_on_close
UartOnClose ==
    /\ poll = "closing"
    /\ poll' = "closed"
    /\ fd' = "closed"
    /\ faults' = faults \cup Used
    /\ UNCHANGED <<kind, native, binding, slot, heap, edge, req, calls, client, orderly>>

\* iotjs_uart_read_cb: 'data' is emitted with what the descriptor holds
UartReadCb ==
    /\ poll = "active"
    /\ faults' = faults \cup Used \cup (IF fd = "open" THEN {} ELSE {"closed descriptor read"})
    /\ UNCHANGED <<kind, native, binding, fd, slot, heap, poll, edge, req, calls, client, orderly>>

\* iotjs_uart_after_worker: the string that the instance has now is destroyed
UartAfterWorker(n) ==
    /\ Answer("uart", n, req[n].seen, TRUE)
    /\ Forget(n)
    /\ IF req[n].op = "write"
       THEN /\ heap' = heap \ {slot["buf"]}
            /\ faults' = faults \cup Used \cup Freed(slot["buf"])
       ELSE UNCHANGED <<heap, faults>>
    /\ UNCHANGED <<native, slot>>

\* UartConstructor, with iotjs_uart_create
UartConstructor ==
    /\ Wrap("uart", "none")
    /\ UartAsync("open")

\* Write: the synchronous call destroys its string
UartWrite ==
    /\ Enter("uart")
    /\ slot' = [slot EXCEPT !["buf"] = calls + 1]
    /\ \/ UartAsync("write") /\ heap' = heap \cup {calls + 1}
       \/ UNCHANGED <<req, heap>>
    /\ faults' = faults \cup Used
    /\ UNCHANGED <<native, binding, fd, poll, edge, client>>

\* Close without a callback, from closeSync() of uart.js
UartCloseSync ==
    /\ UartHandleClose
    /\ binding' = FALSE
    /\ faults' = faults \cup Used \cup UartCloseFaults
    /\ UNCHANGED req

\* Close, from close() and closeSync() of uart.js
UartClose ==
    /\ Enter("uart")
    /\ \/ /\ UartAsync("close")
          /\ faults' = faults \cup Used
          /\ UNCHANGED <<binding, poll>>
       \/ UartCloseSync
    /\ client' = Closed
    /\ UNCHANGED <<native, fd, slot, heap, edge>>

\* The 'exit' listener of uart.js
UartOnExit == ExitListener("uart") /\ UartCloseSync /\ UNCHANGED <<native, fd, slot, heap, edge>>

UartStep(n) == UartOpenWorker(n) \/ UartWriteWorker(n) \/ UartCloseWorker(n) \/ UartAfterWorker(n)
UartCall == UartConstructor \/ UartWrite \/ UartClose
=============================================================================
