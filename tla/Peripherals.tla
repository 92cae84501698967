----------------------------- MODULE Peripherals -----------------------------
(***************************************************************************)
(* One device of any kind, the application that calls it, the pool that    *)
(* runs its requests, the event loop that answers them and the garbage     *)
(* collector.  The devices share no state: a behaviour is about one.       *)
(***************************************************************************)
EXTENDS Gpio, Pwm, Spi, Uart, I2c, Adc

DeviceCall == GpioCall \/ PwmCall \/ SpiCall \/ UartCall \/ I2cCall \/ AdcCall

DeviceStep(n) ==
    \/ WorkerStarts(n)
    \/ GpioStep(n) \/ PwmStep(n) \/ SpiStep(n) \/ UartStep(n) \/ I2cStep(n) \/ AdcStep(n)

DeviceOnExit == GpioOnExit \/ PwmOnExit \/ SpiOnExit \/ UartOnExit

DeviceNext ==
    \/ DeviceCall
    \/ DeviceOnExit
    \/ \E n \in Calls : DeviceStep(n)
    \/ UartOnClose
    \/ UartReadCb
    \/ EdgeThread
    \/ Collect

DeviceSpec == DeviceInit /\ [][DeviceNext]_devVars

-----------------------------------------------------------------------------
\* The 'exit' listener closes a device that could not be opened as well.  SPI then
\* closes descriptor 0, which SpiConstructor has left in device_fd, and UART hands
\* uv_close a handle that was never initialised; with GPIO the edge detection thread,
\* which only a failed open leaves running, goes on with an instance that the garbage
\* collector may release.
LostFaults ==
    (IF kind = "spi" THEN {"foreign descriptor closed"} ELSE {})
    \cup (IF kind = "uart" THEN {"uninitialised handle closed"} ELSE {})
    \cup (IF edge # "none" THEN {"instance used after release"} ELSE {})

\* An application that waits for each answer, and calls nothing before a successful
\* open or after close, never makes a worker, a callback, the 'exit' listener or the
\* garbage collector use released memory, release a buffer twice, close a descriptor
\* that is not the device's or close a handle that uv does not know, unless the open
\* failed and the process ends: then what happens is one of LostFaults and nothing
\* else, until the process has ended.  Nothing leaks for it either: when no request is
\* under way, the only transfer buffers left are those of I2C reads that failed
\* (AfterI2CWork).
SafeWhenOrderly ==
    orderly =>
        /\ faults \subseteq IF client = "lost" THEN LostFaults ELSE {}
        /\ InFlight = {} => \A n \in heap : kind = "i2c" /\ req[n].op = "read" /\ ~req[n].ok

DataOps == {"write", "read", "setPeriod", "setDutyCycle", "setEnable", "transferArray",
            "transferBuffer"}

\* PWM, SPI and UART keep the data of a request in the instance, where the next call
\* overwrites it; an application that waits for each answer is answered with the data
\* of its own request.  (GPIO, I2C and ADC keep it in the request.)
OwnAnswer ==
    \A n \in Calls :
        req[n].st = "answered" /\ req[n].op \in DataOps
        /\ kind \in {"pwm", "spi", "uart"} /\ orderly
        => req[n].told = n

\* The devices are safe (SafeWhenOrderly) and answer what they were asked (OwnAnswer).
DevicesSafe == SafeWhenOrderly /\ OwnAnswer
=============================================================================
