-------------------------------- MODULE Device --------------------------------
(***************************************************************************)
(* What the bindings of the peripherals have in common: a native instance  *)
(* wrapped by a JavaScript object (src/src/iotjs_objectwrap.c), requests   *)
(* that hold a callback (src/src/iotjs_reqwrap.c) and that uv runs on a    *)
(* thread of its pool, and the sysfs helpers of                            *)
(* src/src/platform/linux/iotjs_systemio-linux.c.  The modules Gpio, Pwm,  *)
(* Spi, Uart, I2c and Adc add the operations of one device each.           *)
(*                                                                         *)
(* Every call of the application takes the next number of 1..MaxCalls; the *)
(* number stands for the value or the buffer that the call passes.         *)
(***************************************************************************)
EXTENDS Naturals

CONSTANT MaxCalls   \* bound on the calls of the application

ASSUME MaxCallsAssumption == MaxCalls \in Nat \ {0}

VARIABLES
    kind,     \* which device this behaviour is about
    native,   \* the memory of the native instance
    binding,  \* _binding of the JavaScript module is not null
    fd,       \* the descriptor kept in the instance
    slot,     \* the fields of the instance that a call writes and a worker reads
    heap,     \* the transfer buffers allocated and not released
    poll,     \* the uv_poll_t of a UART
    edge,     \* the edge detection thread of a GPIO pin
    req,      \* the requests
    calls,    \* number of calls so far
    faults,   \* history: what went wrong in memory, descriptors and handles
    client,   \* what the application has been told about the device
    orderly   \* history: the application has waited for each answer

devVars == <<kind, native, binding, fd, slot, heap, poll, edge, req, calls,
             faults, client, orderly>>

Kinds == {"gpio", "pwm", "spi", "uart", "i2c", "adc"}
Calls == 1 .. MaxCalls
Fields == {"period", "duty", "enable", "buf"}
NoRequest == [st |-> "none", op |-> "none", seen |-> 0, ok |-> FALSE, told |-> 0]

InFlight == {n \in Calls : req[n].st \in {"queued", "running", "done"}}

\* A history entry when the instance, or buffer n, is used after it was released
Used == IF native = "live" THEN {} ELSE {"instance used after release"}
Freed(n) == IF n \in heap THEN {} ELSE {"buffer released twice"}

DeviceInit ==
    /\ kind \in Kinds
    /\ native = "none"
    /\ binding = FALSE
    /\ fd = "none"
    /\ slot = [f \in Fields |-> 0]
    /\ heap = {}
    /\ poll = "raw"
    /\ edge = "none"
    /\ req = [n \in Calls |-> NoRequest]
    /\ calls = 0
    /\ faults = {}
    /\ client = "new"
    /\ orderly = TRUE

-----------------------------------------------------------------------------
(* iotjs_jobjectwrap_initialize: the object points to the instance, the    *)
(* instance does not keep the object alive.  firstFd is what the           *)
(* constructor leaves in the descriptor field.                             *)
Wrap(k, firstFd) ==
    /\ kind = k
    /\ native = "none"
    /\ native' = "live"
    /\ binding' = TRUE
    /\ fd' = firstFd
    /\ calls' = calls + 1
    /\ client' = "opening"
    /\ UNCHANGED <<kind, slot, heap, poll, edge, faults, orderly>>

\* iotjs_jobjectwrap_from_jobject and the test of _binding: a call of the
\* application after the constructor.  The call is orderly when the open request
\* has been answered well and nothing else is under way.
Enter(k) ==
    /\ kind = k
    /\ binding
    /\ calls < MaxCalls
    /\ calls' = calls + 1
    /\ orderly' = (orderly /\ client = "open" /\ InFlight = {})
    /\ UNCHANGED kind

\* What the application has been told once it has called close
Closed == IF client \in {"exited", "lost"} THEN client ELSE "closed"

\* The listener of the process' 'exit' that the constructors of gpio.js, pwm.js, spi.js
\* and uart.js register: it calls closeSync() unless _binding is null, whatever the
\* application has been told of the device ("lost": not that open went well).  A process
\* that ends by itself has no request under way; one that calls process.exit() with a
\* request under way has not waited for the answer.
ExitListener(k) ==
    /\ kind = k
    /\ binding
    /\ client \notin {"exited", "lost"}
    /\ client' = IF client \in {"open", "closed"} THEN "exited" ELSE "lost"
    /\ orderly' = (orderly /\ InFlight = {})
    /\ UNCHANGED <<kind, calls>>

\* iotjs_reqwrap_initialize: the request keeps the callback alive
ReqwrapInitialize(op) == [NoRequest EXCEPT !.st = "queued", !.op = op]

\* uv_queue_work
QueueWork(r) == req' = [req EXCEPT ![calls + 1] = r]

\* A thread of the pool takes request n; the worker finds the instance, and in
\* it the field that the call has left for it
FieldOf(op) ==
    IF op = "setPeriod" THEN "period"
    ELSE IF op = "setDutyCycle" THEN "duty"
    ELSE IF op = "setEnable" THEN "enable" ELSE "buf"

WorkerStarts(n) ==
    /\ req[n].st = "queued"
    /\ req' = [req EXCEPT ![n].st = "running", ![n].seen = slot[FieldOf(req[n].op)]]
    /\ faults' = faults \cup Used
    /\ UNCHANGED <<kind, native, binding, fd, slot, heap, poll, edge, calls, client, orderly>>

\* The worker of request n ends with this result, using the instance again
WorkerEnds(k, n, ops, ok) ==
    /\ kind = k
    /\ req[n].st = "running"
    /\ req[n].op \in ops
    /\ req' = [req EXCEPT ![n].st = "done", ![n].ok = ok]
    /\ faults' = faults \cup Used

\* The after-work callback of request n, on the main thread: the callback of the
\* request is called, which is how the application learns of the result and how
\* the JavaScript module forgets a closed binding, and the request is destroyed.
\* The callback of the JavaScript module may throw before it calls the one of the
\* application (reaches).
Answer(k, n, told, reaches) ==
    /\ kind = k
    /\ req[n].st = "done"
    /\ req' = [req EXCEPT ![n].st = IF reaches THEN "answered" ELSE "thrown", ![n].told = told]
    /\ client' = IF req[n].op = "open" /\ client = "opening"
                 THEN IF req[n].ok THEN "open" ELSE "failed"
                 ELSE client
    /\ UNCHANGED <<kind, fd, poll, edge, calls, orderly>>

\* The callback that the JavaScript module passes to close: _binding = null
Forget(n) == binding' = (binding /\ req[n].op # "close")

\* iotjs_jobjectwrap_destroy, by the garbage collector: the free callback of the
\* object, once nothing reaches it.  The 'exit' listener and the callbacks of the
\* requests reach it through _binding alone.
Collect ==
    /\ kind \in {"gpio", "pwm", "spi", "uart"}
    /\ native = "live"
    /\ ~binding
    /\ kind = "uart" => poll = "closed"
    /\ native' = "freed"
    /\ UNCHANGED <<kind, binding, fd, slot, heap, poll, edge, req, calls, faults, client, orderly>>

-----------------------------------------------------------------------------
(* The files of sysfs answer as they like.                                 *)

\* iotjs_systemio_check_path
CheckPath == BOOLEAN

\* iotjs_systemio_open_write_close
OpenWriteClose == BOOLEAN

\* iotjs_systemio_open_read_close
OpenReadClose == BOOLEAN

\* iotjs_systemio_device_open: already exported, or exported by a write after which
\* the files appear before the attempts are used up
DeviceOpen == {exported \/ (written /\ appeared) :
                   exported \in CheckPath, written \in OpenWriteClose, appeared \in OpenReadClose}
=============================================================================
