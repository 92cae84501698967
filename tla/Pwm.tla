---------------------------------- MODULE Pwm ----------------------------------
(***************************************************************************)
(* PWM pins: src/src/modules/iotjs_module_pwm.c with its Linux part        *)
(* (linux/iotjs_module_pwm-linux.c) under src/src/js/pwm.js.  The period,  *)
(* the duty cycle and the enable flag of a call are stored in the instance *)
(* and read there by the worker.                                           *)
(***************************************************************************)
EXTENDS Device

\* iotjs_pwm_reqwrap_create and its companions
PwmReqwrap(op) == ReqwrapInitialize(op)

\* PWM_ASYNC, PWM_ASYNC_COMMON_WORKER
PwmAsync(op) == QueueWork(PwmReqwrap(op))

\* iotjs_pwm_set_period (Linux): the value must be finite and not negative and the
\* write of the file must work
PwmWritePeriod == {inRange /\ written : inRange \in BOOLEAN, written \in OpenWriteClose}

\* iotjs_pwm_set_dutycycle (Linux): so must the period, and the duty cycle be a share
PwmWriteDutyCycle == {inRange /\ written : inRange \in BOOLEAN, written \in OpenWriteClose}

\* iotjs_pwm_set_enable (Linux)
PwmWriteEnable == OpenWriteClose

PwmWriteValue(op) ==
    CASE op = "setPeriod"    -> PwmWritePeriod
      [] op = "setDutyCycle" -> PwmWriteDutyCycle
      [] OTHER               -> PwmWriteEnable

\* iotjs_pwm_open_worker: the pin is exported unless it is, then the period and the
\* duty cycle of the configuration are written
PwmOpenWorker(n) ==
    \E exported \in DeviceOpen, period \in PwmWritePeriod, duty \in PwmWriteDutyCycle :
        /\ WorkerEnds("pwm", n, {"open"}, exported /\ period /\ duty)
        /\ UNCHANGED <<kind, native, binding, fd, slot, heap, poll, edge, calls, client, orderly>>

\* iotjs_pwm_common_worker with one of the setters
PwmCommonWorker(n) ==
    \E ok \in PwmWriteValue(req[n].op) :
        /\ WorkerEnds("pwm", n, {"setPeriod", "setDutyCycle", "setEnable"}, ok)
        /\ UNCHANGED <<kind, native, binding, fd, slot, heap, poll, edge, calls, client, orderly>>

\* iotjs_pwm_close (Linux): the result of the unexport is not looked at
PwmPlatformClose == {TRUE}

\* iotjs_pwm_common_worker with iotjs_pwm_close
PwmCloseWorker(n) ==
    /\ \E ok \in PwmPlatformClose : WorkerEnds("pwm", n, {"close"}, ok)
    /\ UNCHANGED <<kind, native, binding, fd, slot, heap, poll, edge, calls, client, orderly>>

\* iotjs_pwm_after_worker
PwmAfterWorker(n) ==
    /\ Answer("pwm", n, req[n].seen, TRUE)
    /\ Forget(n)
    /\ UNCHANGED <<native, slot, heap, faults>>

\* PWMConstructor, with iotjs_pwm_create and iotjs_pwm_set_configuration
PwmConstructor ==
    /\ Wrap("pwm", "none")
    /\ PwmAsync("open")

\* The three setters: the value goes to the instance, then a request is queued or
\* the file is written at once
PwmSet(op) ==
    /\ Enter("pwm")
    /\ slot' = [slot EXCEPT ![FieldOf(op)] = calls + 1]
    /\ PwmAsync(op) \/ UNCHANGED req
    /\ faults' = faults \cup Used
    /\ UNCHANGED <<native, binding, fd, heap, poll, edge, client>>

\* SetPeriod
PwmSetPeriod == PwmSet("setPeriod")

\* SetDutyCycle
PwmSetDutyCycle == PwmSet("setDutyCycle")

\* SetEnable
PwmSetEnable == PwmSet("setEnable")

\* Close without a callback, from closeSync() of pwm.js
PwmCloseSync == UNCHANGED req /\ binding' = FALSE

\* Close, from close() and closeSync() of pwm.js
PwmClose ==
    /\ Enter("pwm")
    /\ (PwmAsync("close") /\ UNCHANGED binding) \/ PwmCloseSync
    /\ faults' = faults \cup Used
    /\ client' = Closed
    /\ UNCHANGED <<native, fd, slot, heap, poll, edge>>

\* The 'exit' listener of pwm.js
PwmOnExit ==
    /\ ExitListener("pwm")
    /\ PwmCloseSync
    /\ faults' = faults \cup Used
    /\ UNCHANGED <<native, fd, slot, heap, poll, edge>>

PwmStep(n) == PwmOpenWorker(n) \/ PwmCommonWorker(n) \/ PwmCloseWorker(n) \/ PwmAfterWorker(n)
PwmCall == PwmConstructor \/ PwmSetPeriod \/ PwmSetDutyCycle \/ PwmSetEnable \/ PwmClose
=============================================================================
