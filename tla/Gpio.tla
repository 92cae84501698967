--------------------------------- MODULE Gpio ---------------------------------
(***************************************************************************)
(* GPIO pins: src/src/modules/iotjs_module_gpio.c with its Linux part      *)
(* (linux/iotjs_module_gpio-linux.c) under src/src/js/gpio.js.             *)
(***************************************************************************)
EXTENDS Device

\* iotjs_gpio_reqwrap_create and its companions: the value of a write and the
\* result of a read are kept in the request
GpioReqwrap(op) == ReqwrapInitialize(op)

\* GPIO_ASYNC, GPIO_ASYNC_WITH_VALUE
GpioAsync(op) ==
    /\ QueueWork(GpioReqwrap(op))
    /\ faults' = faults \cup Used
    /\ UNCHANGED <<native, binding, fd, slot, heap, poll, edge>>

\* gpio_set_edge: only an input with an edge opens the value file and starts the
\* thread, and then false is returned whether or not that went well
GpioSetEdge(wanted, opened) ==
    IF wanted
    THEN /\ fd' = IF opened THEN "open" ELSE "none"
         /\ edge' \in IF opened THEN {"start", "none"} ELSE {"none"}
    ELSE UNCHANGED <<fd, edge>>

\* gpio_set_direction, gpio_set_mode
GpioSetDirection == OpenWriteClose

\* gpio_set_configurable: what the properties tell apart is whether the pin is an
\* input with an edge
GpioConfigurations == BOOLEAN

\* iotjs_gpio_open_worker
GpioOpenWorker(n) ==
    \E exported \in DeviceOpen, direction \in GpioSetDirection,
       wanted \in GpioConfigurations, opened \in BOOLEAN :
        /\ WorkerEnds("gpio", n, {"open"}, exported /\ direction /\ ~wanted)
        /\ IF exported /\ direction THEN GpioSetEdge(wanted, opened) ELSE UNCHANGED <<fd, edge>>
        /\ UNCHANGED <<kind, native, binding, slot, heap, poll, calls, client, orderly>>

\* iotjs_gpio_close (Linux): value_fd is -1 before close() is given it, so that the
\* descriptor stays open; the thread sees -1 when its poll returns
GpioPlatformClose == fd' = IF fd = "open" THEN "leaked" ELSE fd

\* iotjs_gpio_write, iotjs_gpio_read (Linux)
GpioPlatformWrite == OpenWriteClose
GpioPlatformRead == OpenReadClose

\* iotjs_gpio_write_worker
GpioWriteWorker(n) ==
    \E ok \in GpioPlatformWrite :
        /\ WorkerEnds("gpio", n, {"write"}, ok)
        /\ UNCHANGED <<kind, native, binding, fd, slot, heap, poll, edge, calls, client, orderly>>

\* iotjs_gpio_read_worker
GpioReadWorker(n) ==
    \E ok \in GpioPlatformRead :
        /\ WorkerEnds("gpio", n, {"read"}, ok)
        /\ UNCHANGED <<kind, native, binding, fd, slot, heap, poll, edge, calls, client, orderly>>

\* iotjs_gpio_close_worker
GpioCloseWorker(n) ==
    \E ok \in OpenWriteClose :
        /\ WorkerEnds("gpio", n, {"close"}, ok)
        /\ GpioPlatformClose
        /\ UNCHANGED <<kind, native, binding, slot, heap, poll, edge, calls, client, orderly>>

\* iotjs_gpio_after_worker
GpioAfterWorker(n) ==
    /\ Answer("gpio", n, n, TRUE)
    /\ Forget(n)
    /\ UNCHANGED <<native, slot, heap, faults>>

\* GpioConstructor, with iotjs_gpio_create and gpio_set_configurable
GpioConstructor ==
    /\ Wrap("gpio", "none")
    /\ QueueWork(GpioReqwrap("open"))

\* Write
GpioWrite ==
    /\ Enter("gpio")
    /\ \/ GpioAsync("write")
       \/ /\ faults' = faults \cup Used
          /\ UNCHANGED <<native, binding, fd, slot, heap, poll, edge, req>>
    /\ UNCHANGED client

\* Read
GpioRead ==
    /\ Enter("gpio")
    /\ \/ GpioAsync("read")
       \/ /\ faults' = faults \cup Used
          /\ UNCHANGED <<native, binding, fd, slot, heap, poll, edge, req>>
    /\ UNCHANGED client

\* Close without a callback, from closeSync() of gpio.js: an error is thrown before
\* _binding is set to null
GpioCloseSync ==
    \E ok \in OpenWriteClose :
        /\ faults' = faults \cup Used
        /\ GpioPlatformClose
        /\ binding' = ~ok
        /\ UNCHANGED <<native, slot, heap, poll, edge, req>>

\* Close, from close() and closeSync() of gpio.js
GpioClose ==
    /\ Enter("gpio")
    /\ GpioAsync("close") \/ GpioCloseSync
    /\ client' = Closed

\* The 'exit' listener of gpio.js
GpioOnExit == ExitListener("gpio") /\ GpioCloseSync

\* gpio_edge_poll: an edge of the signal, seen in the descriptor of the thread, or
\* an error, after which the thread looks at value_fd
EdgePoll ==
    /\ edge = "poll"
    /\ edge' \in {"edge", IF fd = "open" THEN "poll" ELSE "ended"}
    /\ UNCHANGED <<kind, native, binding, fd, slot, heap, poll, req, calls, faults, client, orderly>>

\* gpio_edge_detection_cb: the first look at value_fd and at the file
EdgeStart ==
    /\ edge = "start"
    /\ edge' \in {"ended"} \cup (IF fd = "open" THEN {"poll"} ELSE {})
    /\ faults' = faults \cup Used
    /\ UNCHANGED <<kind, native, binding, fd, slot, heap, poll, req, calls, client, orderly>>

\* gpio_emit_change_event, then the next look at value_fd
EdgeEmit ==
    /\ edge = "edge"
    /\ edge' = IF fd = "open" THEN "poll" ELSE "ended"
    /\ faults' = faults \cup Used
    /\ UNCHANGED <<kind, native, binding, fd, slot, heap, poll, req, calls, client, orderly>>

GpioStep(n) ==
    \/ GpioOpenWorker(n) \/ GpioWriteWorker(n) \/ GpioReadWorker(n) \/ GpioCloseWorker(n)
    \/ GpioAfterWorker(n)
EdgeThread == EdgeStart \/ EdgePoll \/ EdgeEmit
GpioCall == GpioConstructor \/ GpioWrite \/ GpioRead \/ GpioClose

=============================================================================
