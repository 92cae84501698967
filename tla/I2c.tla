---------------------------------- MODULE I2c ----------------------------------
(***************************************************************************)
(* I2C buses: src/src/modules/iotjs_module_i2c.c with its Linux part       *)
(* (linux/iotjs_module_i2c-linux.c) under src/src/js/i2c.js.  The instance *)
(* is not freed by the garbage collector but by close(), and i2c.js keeps  *)
(* its _binding.                                                           *)
(***************************************************************************)
EXTENDS Device

\* iotjs_i2c_reqwrap_create and its companions: the buffer is in the request
I2cReqwrap(op) == ReqwrapInitialize(op)

\* I2C_ASYNC
I2cAsync(op) == QueueWork(I2cReqwrap(op))

\* OpenWorker
I2cOpenWorker(n) ==
    \E opened \in BOOLEAN :
        /\ WorkerEnds("i2c", n, {"open"}, opened)
        /\ fd' = IF opened THEN "open" ELSE "none"
        /\ UNCHANGED <<kind, native, binding, slot, heap, poll, edge, calls, client, orderly>>

\* WriteWorker: the buffer is released by the worker
I2cWriteWorker(n) ==
    \E ok \in BOOLEAN :
        /\ WorkerEnds("i2c", n, {"write"}, ok)
        /\ heap' = heap \ {n}
        /\ UNCHANGED <<kind, native, binding, fd, slot, poll, edge, calls, client, orderly>>

\* ReadWorker: the buffer is allocated by the worker
I2cReadWorker(n) ==
    \E ok \in BOOLEAN :
        /\ WorkerEnds("i2c", n, {"read"}, ok)
        /\ heap' = heap \cup {n}
        /\ UNCHANGED <<kind, native, binding, fd, slot, poll, edge, calls, client, orderly>>

\* AfterI2CWork: the buffer of a read is released when the read went well
I2cAfterWork(n) ==
    /\ Answer("i2c", n, n, TRUE)
    /\ heap' = IF req[n].op = "read" /\ req[n].ok THEN heap \ {n} ELSE heap
    /\ UNCHANGED <<native, binding, slot, faults>>

\* I2cCons, with iotjs_i2c_create and i2c_create_platform_data
I2cCons ==
    /\ Wrap("i2c", "none")
    /\ I2cAsync("open")

\* SetAddress, with I2cSetAddress
I2cSetAddress ==
    /\ Enter("i2c")
    /\ faults' = faults \cup Used
    /\ UNCHANGED <<native, binding, fd, slot, heap, poll, edge, req, client>>

\* Write, with GetI2cArray; i2c.js sets the address first
I2cWrite ==
    /\ Enter("i2c")
    /\ I2cAsync("write")
    /\ heap' = heap \cup {calls + 1}
    /\ faults' = faults \cup Used
    /\ UNCHANGED <<native, binding, fd, slot, poll, edge, client>>

\* Read; i2c.js sets the address first
I2cRead ==
    /\ Enter("i2c")
    /\ I2cAsync("read")
    /\ faults' = faults \cup Used
    /\ UNCHANGED <<native, binding, fd, slot, heap, poll, edge, client>>

\* I2cClose (Linux)
I2cPlatformClose == fd' = "none"

\* Close: the descriptor is closed and the instance destroyed
I2cClose ==
    /\ Enter("i2c")
    /\ I2cPlatformClose
    /\ native' = "freed"
    /\ faults' = faults \cup Used
    /\ client' = "closed"
    /\ UNCHANGED <<binding, slot, heap, poll, edge, req>>

I2cStep(n) == I2cOpenWorker(n) \/ I2cWriteWorker(n) \/ I2cReadWorker(n) \/ I2cAfterWork(n)
I2cCall == I2cCons \/ I2cSetAddress \/ I2cWrite \/ I2cRead \/ I2cClose
=============================================================================
