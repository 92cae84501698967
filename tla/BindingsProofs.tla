----------------------------- MODULE BindingsProofs -----------------------------
(***************************************************************************)
(* Proofs about four of the bindings that Bindings composes:               *)
(*                                                                         *)
(*  - Peripherals: a device of any kind, for any number of calls, is safe  *)
(*    as long as the application is orderly, and answers a request with    *)
(*    its own data.  DeviceInv is inductive; what it says of an orderly    *)
(*    application is that the last call is the only one that may be under  *)
(*    way, that the instance is alive under it, and what the open request  *)
(*    has left in the instance.                                            *)
(*                                                                         *)
(*  - Dgram: every send of a UDP socket is answered once, and a close      *)
(*    closes it, for any number of sends.                                  *)
(*                                                                         *)
(*  - Tls: the ring buffer of a session is a queue, for any size.          *)
(*                                                                         *)
(*  - Fs: readFile and writeFile carry whole files, for any number of      *)
(*    operations that share the thread pool and the descriptors.  FsInv    *)
(*    says how far each operation has got: it has not begun, it waits for  *)
(*    the one request that it has, or it was answered.                     *)
(***************************************************************************)
EXTENDS Peripherals, Dgram, Tls, Fs, Sums, TLAPS

DeviceRequest ==
    [st : {"none", "queued", "running", "done", "answered", "thrown"},
     op : {"none", "open", "close"} \cup DataOps, seen : Nat, ok : BOOLEAN, told : Nat]

DeviceTypes ==
    /\ kind \in Kinds
    /\ native \in {"none", "live", "freed"}
    /\ binding \in BOOLEAN
    /\ slot \in [Fields -> Nat]
    /\ heap \subseteq Calls
    /\ req \in [Calls -> DeviceRequest]
    /\ calls \in 0 .. MaxCalls
    /\ client \in {"new", "opening", "open", "failed", "closed", "exited", "lost"}
    /\ orderly \in BOOLEAN

\* Before the constructor nothing has happened, and a call that has not been made
\* has no request
Unused ==
    /\ native = "none" => /\ calls = 0 /\ ~binding /\ client = "new" /\ faults = {}
                          /\ poll = "raw" /\ edge = "none"
    /\ \A n \in Calls : n > calls => req[n] = NoRequest

\* The last call is the only one under way, on a live instance that its object reaches
OneRequest == \A n \in InFlight : n = calls /\ native = "live" /\ binding

\* The application waits for the answer of open while that is under way, and the
\* instance lives until it calls close; with a device that has an 'exit' listener, as
\* long as _binding is not null
Opening ==
    /\ client # "lost"
    /\ client \in {"opening", "open", "failed"} => native = "live" /\ binding
    /\ binding /\ kind \in {"gpio", "pwm", "spi", "uart"} => native = "live"
    /\ \A n \in InFlight : /\ req[n].op = "open" <=> client = "opening"
                           /\ req[n].op = "close" => client = "closed"

\* What a successful open leaves in the instance
Ready ==
    /\ edge = "none"
    /\ kind = "spi" => fd # "zero"
    /\ kind = "uart" => poll # "raw"

OpenedWell ==
    /\ \A n \in InFlight : req[n].op = "open" /\ req[n].st = "done" /\ req[n].ok => Ready
    /\ client \in {"open", "closed", "exited"} => Ready

\* The edge detection thread runs only when open has failed, or is about to
EdgeState ==
    /\ edge # "none" => client \in {"opening", "failed"}
    /\ \A n \in InFlight : req[n].op = "open" /\ req[n].st # "done" => edge = "none"

\* The handle of a UART lives as long as the instance and owns the descriptor
PollState ==
    /\ poll \in {"raw", "active", "closing", "closed"}
    /\ kind # "uart" => poll = "raw"
    /\ kind = "uart" /\ native = "freed" => poll = "closed"
    /\ poll = "active" => fd = "open"

\* The fields of the instance are those of the request under way
Slots ==
    \A n \in InFlight :
        /\ kind \in {"pwm", "spi", "uart"} /\ req[n].op \in DataOps =>
             /\ slot[FieldOf(req[n].op)] = n
             /\ req[n].st # "queued" => req[n].seen = n
        /\ kind = "spi" => req[n].op \in {"open", "close", "transferArray", "transferBuffer"}

\* The requests whose buffer is a field of the instance
Buffered(op) == (kind = "spi" /\ op = "transferArray") \/ (kind = "uart" /\ op = "write")

\* A transfer buffer belongs to the request under way, or to a failed I2C read
HeapOwned ==
    /\ \A n \in heap :
         \/ n \in InFlight /\ Buffered(req[n].op)
         \/ kind = "i2c" /\ req[n].op = "write" /\ req[n].st \in {"queued", "running"}
         \/ kind = "i2c" /\ req[n].op = "read" /\ (req[n].st = "done" \/ ~req[n].ok)
    /\ \A n \in InFlight : Buffered(req[n].op) => n \in heap

OrderlyInv ==
    /\ faults = {}
    /\ OneRequest
    /\ Opening
    /\ OpenedWell
    /\ EdgeState
    /\ PollState
    /\ Slots
    /\ HeapOwned

\* The 'exit' listener has closed a device that could not be opened
LostInv ==
    /\ client = "lost"
    /\ faults \subseteq LostFaults
    /\ InFlight = {}
    /\ heap = {}
    /\ PollState

DeviceInv == DeviceTypes /\ Unused /\ OwnAnswer /\ (orderly => OrderlyInv \/ LostInv)

-----------------------------------------------------------------------------
\* What holds of the requests, for any application
Requests == req \in [Calls -> DeviceRequest] /\ calls \in 0 .. MaxCalls
            /\ \A n \in Calls : n > calls => req[n] = NoRequest

\* uv_queue_work of the next call puts one more request under way.
LEMMA Queued ==
    ASSUME Requests, calls < MaxCalls, NEW op \in {"none", "open", "close"} \cup DataOps,
           QueueWork(ReqwrapInitialize(op)), calls' = calls + 1
    PROVE  /\ Requests'
           /\ InFlight' = InFlight \cup {calls'} /\ calls' \in Calls
           /\ req'[calls'].op = op /\ req'[calls'].st = "queued"
           /\ \A n \in Calls : n # calls' => req'[n] = req[n]
  <1> DEFINE r == ReqwrapInitialize(op)
  <1>1. r \in DeviceRequest /\ r.op = op /\ r.st = "queued"
    BY DEF ReqwrapInitialize, NoRequest, DeviceRequest
  <1>2. calls' \in Calls /\ req' = [req EXCEPT ![calls'] = r]
    <2>1. calls' \in Calls BY MaxCallsAssumption DEF Requests, Calls
    <2> QED BY <2>1 DEF QueueWork
  <1> HIDE DEF r
  <1>3. /\ req'[calls'] = r /\ req' \in [Calls -> DeviceRequest]
        /\ \A n \in Calls : n # calls' => req'[n] = req[n]
    BY <1>1, <1>2 DEF Requests
  <1>4. Requests' BY <1>2, <1>3 DEF Requests, Calls
  <1>5. InFlight' = InFlight \cup {calls'} BY <1>1, <1>2, <1>3 DEF InFlight
  <1> QED BY <1>1, <1>2, <1>3, <1>4, <1>5

\* A request that changes and has been made leaves the others alone.
LEMMA Changed ==
    ASSUME Requests, NEW n \in Calls, req[n] # NoRequest, NEW r \in DeviceRequest,
           req' = [req EXCEPT ![n] = r], UNCHANGED calls
    PROVE  /\ Requests' /\ req'[n] = r
           /\ \A m \in Calls : m # n => req'[m] = req[m]
  BY DEF Requests

-----------------------------------------------------------------------------
(* Calls of the application.                                               *)

\* A call that finds the application orderly comes after a successful open, with
\* nothing under way.
LEMMA OrderlyCall ==
    ASSUME DeviceInv, NEW k, Enter(k), orderly'
    PROVE  /\ orderly /\ OrderlyInv /\ client = "open" /\ InFlight = {}
           /\ native = "live" /\ binding /\ Ready /\ Used = {} /\ faults = {}
  <1>1. orderly /\ client = "open" /\ InFlight = {} BY DEF Enter
  <1>2. OrderlyInv BY <1>1 DEF DeviceInv, LostInv
  <1> QED BY <1>1, <1>2 DEF OrderlyInv, Opening, OpenedWell, Used

\* What every call keeps, with or without a new request
LEMMA CallKept ==
    ASSUME DeviceInv, NEW k, Enter(k), native' \in {native, "freed"},
           \/ UNCHANGED req
           \/ \E op \in {"close"} \cup DataOps : QueueWork(ReqwrapInitialize(op))
    PROVE  Requests' /\ Unused' /\ OwnAnswer' /\ kind' = kind /\ orderly' \in BOOLEAN
  <1>1. Requests /\ calls < MaxCalls /\ calls' = calls + 1 /\ kind' = kind /\ native' # "none"
    BY DEF DeviceInv, DeviceTypes, Unused, Enter, Requests
  <1>2. Requests' /\ \A n \in Calls : req'[n] = req[n] \/ req'[n].st = "queued"
    <2>1. CASE UNCHANGED req BY <1>1, <2>1, MaxCallsAssumption DEF Requests, Calls
    <2>2. ASSUME NEW op \in {"close"} \cup DataOps, QueueWork(ReqwrapInitialize(op))
          PROVE  Requests' /\ \A n \in Calls : req'[n] = req[n] \/ req'[n].st = "queued"
      BY <1>1, <2>2, Queued
    <2> QED BY <2>1, <2>2
  <1>3. orderly' \in BOOLEAN /\ (orderly' => orderly) BY DEF Enter, DeviceInv, DeviceTypes
  <1>4. OwnAnswer'
    BY <1>1, <1>2, <1>3 DEF DeviceInv, OwnAnswer
  <1>5. Unused' BY <1>1, <1>2 DEF Unused, Requests
  <1> QED BY <1>1, <1>2, <1>3, <1>4, <1>5

\* What a call may change of the instance, whether or not it leaves a request
CallTypes ==
    /\ native' = native \/ (native' = "freed" /\ kind \in {"i2c", "adc"})
    /\ binding' \in BOOLEAN /\ slot' \in [Fields -> Nat]
    /\ heap' \subseteq Calls /\ client' \in {client, "closed"}

\* A synchronous call keeps the invariant when it uses a live instance well.
LEMMA SyncCall ==
    ASSUME DeviceInv, NEW k, Enter(k), CallTypes, UNCHANGED req,
           orderly' =>
               /\ faults' = {} /\ Ready' /\ PollState' /\ UNCHANGED heap
               /\ client' # "closed" => UNCHANGED <<native, binding>>
    PROVE  DeviceInv'
  <1>1. Requests' /\ Unused' /\ OwnAnswer' /\ kind' = kind /\ orderly' \in BOOLEAN
    BY CallKept DEF CallTypes
  <1>2. DeviceTypes' BY <1>1 DEF DeviceInv, DeviceTypes, CallTypes, Requests
  <1>3. ASSUME orderly' PROVE OrderlyInv'
    <2>1. /\ OrderlyInv /\ client = "open" /\ InFlight = {} /\ native = "live" /\ binding
      BY <1>3, OrderlyCall
    <2>2. InFlight' = {} BY <2>1 DEF InFlight
    <2>3. OneRequest' /\ Slots' BY <2>2 DEF OneRequest, Slots
    <2>4. Opening' BY <1>1, <1>3, <2>1, <2>2 DEF Opening, CallTypes
    <2>5. OpenedWell' /\ EdgeState' BY <1>3, <2>2 DEF OpenedWell, EdgeState, Ready
    <2>6. HeapOwned' BY <1>1, <1>3, <2>1, <2>2 DEF OrderlyInv, HeapOwned, Buffered
    <2> QED BY <1>3, <2>3, <2>4, <2>5, <2>6 DEF OrderlyInv
  <1> QED BY <1>1, <1>2, <1>3 DEF DeviceInv

\* So does an asynchronous one, when the worker will find its data in the instance.
LEMMA AsyncCall ==
    ASSUME DeviceInv, NEW k, Enter(k), CallTypes,
           NEW op \in {"close"} \cup DataOps, QueueWork(ReqwrapInitialize(op)),
           faults' = faults \cup Used, UNCHANGED <<native, binding, fd, poll, edge>>,
           kind \in {"pwm", "spi", "uart"} /\ op \in DataOps => slot'[FieldOf(op)] = calls + 1,
           kind = "spi" => op \in {"close", "transferArray", "transferBuffer"},
           op = "close" /\ orderly' => client' = "closed",
           heap' = IF Buffered(op) \/ (kind = "i2c" /\ op = "write")
                   THEN heap \cup {calls + 1} ELSE heap
    PROVE  DeviceInv'
  <1>1. Requests' /\ Unused' /\ OwnAnswer' /\ kind' = kind /\ orderly' \in BOOLEAN
    BY CallKept DEF CallTypes
  <1>2. DeviceTypes' BY <1>1 DEF DeviceInv, DeviceTypes, CallTypes, Requests
  <1>3. ASSUME orderly' PROVE OrderlyInv'
    <2>1. /\ OrderlyInv /\ client = "open" /\ InFlight = {} /\ native = "live" /\ binding
          /\ Used = {} /\ faults = {} /\ Ready
      BY <1>3, OrderlyCall
    <2>2. Requests /\ calls < MaxCalls /\ calls' = calls + 1 BY DEF DeviceInv, DeviceTypes, Unused, Enter, Requests
    <2>3. /\ InFlight' = {calls'} /\ calls' \in Calls
          /\ req'[calls'].op = op /\ req'[calls'].st = "queued"
          /\ \A n \in Calls : n # calls' => req'[n] = req[n]
      BY <2>1, <2>2, Queued
    <2>4. op # "open" BY DEF DataOps
    <2>5. faults' = {} /\ Ready' BY <1>1, <2>1 DEF Ready
    <2>6. OneRequest' BY <2>1, <2>3 DEF OneRequest
    <2>7. Slots' BY <1>1, <2>2, <2>3 DEF Slots
    <2>8. Opening' BY <1>3, <2>1, <2>3, <2>4 DEF Opening, CallTypes
    <2>9. OpenedWell' /\ EdgeState' BY <2>3, <2>4, <2>5 DEF OpenedWell, EdgeState, Ready
    <2>10. PollState' BY <1>1, <2>1 DEF OrderlyInv, PollState
    <2>11. HeapOwned'
      <3>1. HeapOwned BY <2>1 DEF OrderlyInv
      <3>2. calls' \notin heap
        <4>1. req[calls'] = NoRequest BY <2>2, <2>3 DEF Requests
        <4> QED BY <2>1, <3>1, <4>1 DEF HeapOwned, Buffered, NoRequest
      <3>3. \A n \in heap : n \in Calls /\ kind = "i2c" /\ req'[n] = req[n]
        BY <2>1, <2>3, <3>1, <3>2 DEF HeapOwned, Buffered, DeviceInv, DeviceTypes, InFlight
      <3> QED BY <1>1, <2>1, <2>2, <2>3, <3>1, <3>3 DEF HeapOwned, Buffered
    <2> QED BY <2>5, <2>6, <2>7, <2>8, <2>9, <2>10, <2>11 DEF OrderlyInv
  <1> QED BY <1>1, <1>2, <1>3 DEF DeviceInv

\* The constructor makes the instance and queues the open request.
LEMMA Constructed ==
    ASSUME DeviceInv, NEW k, NEW f, Wrap(k, f), QueueWork(ReqwrapInitialize("open"))
    PROVE  DeviceInv'
  <1>1. /\ native = "none" /\ native' = "live" /\ binding' = TRUE /\ calls' = calls + 1
        /\ client' = "opening" /\ UNCHANGED <<kind, slot, heap, poll, edge, faults, orderly>>
    BY DEF Wrap
  <1>2. /\ calls = 0 /\ faults = {} /\ poll = "raw" /\ edge = "none" /\ Requests
    BY <1>1 DEF DeviceInv, DeviceTypes, Unused, Requests
  <1>3. /\ \A n \in Calls : req[n] = NoRequest
        /\ InFlight = {}
    <2>1. \A n \in Calls : n > calls BY <1>2 DEF Calls
    <2>2. \A n \in Calls : req[n] = NoRequest BY <1>2, <2>1 DEF Requests
    <2> QED BY <2>2 DEF InFlight, NoRequest
  <1>4. calls < MaxCalls BY <1>2, MaxCallsAssumption
  <1>5. /\ Requests' /\ InFlight' = {calls'} /\ calls' \in Calls
        /\ req'[calls'].op = "open" /\ req'[calls'].st = "queued"
        /\ \A n \in Calls : n # calls' => req'[n] = req[n]
    BY <1>1, <1>2, <1>3, <1>4, Queued
  <1>6. DeviceTypes' BY <1>1, <1>5 DEF DeviceInv, DeviceTypes, Requests
  <1>7. Unused' BY <1>1, <1>5 DEF Unused, Requests
  <1>8. OwnAnswer' BY <1>3, <1>5 DEF OwnAnswer, NoRequest
  <1>9. ASSUME orderly' PROVE OrderlyInv'
    <2>1. OrderlyInv BY <1>1, <1>9 DEF DeviceInv, LostInv, Unused
    <2>2. heap = {}
      BY <1>3, <2>1 DEF OrderlyInv, HeapOwned, Buffered, NoRequest, DeviceInv, DeviceTypes
    <2>3. OneRequest' BY <1>1, <1>5 DEF OneRequest
    <2>4. Opening' BY <1>1, <1>5 DEF Opening
    <2>5. OpenedWell' /\ EdgeState' BY <1>1, <1>2, <1>5 DEF OpenedWell, EdgeState
    <2>6. PollState' BY <1>1, <1>2 DEF PollState
    <2>7. "open" \notin DataOps BY DEF DataOps
    <2>8. Slots' /\ HeapOwned' BY <1>1, <1>5, <2>2, <2>7 DEF Slots, HeapOwned, Buffered
    <2> QED BY <1>1, <1>2, <2>3, <2>4, <2>5, <2>6, <2>8 DEF OrderlyInv
  <1> QED BY <1>6, <1>7, <1>8, <1>9 DEF DeviceInv

-----------------------------------------------------------------------------
(* Threads of the pool and answers.                                        *)

\* A request that is under way has been made, and is the only one of an orderly
\* application.
LEMMA UnderWay ==
    ASSUME DeviceInv, NEW n \in Calls, req[n].st \in {"queued", "running", "done"}
    PROVE  /\ Requests /\ req[n] # NoRequest /\ req[n] \in DeviceRequest /\ n \in InFlight
           /\ native # "none"
           /\ orderly => /\ OrderlyInv /\ InFlight = {n} /\ n = calls /\ native = "live"
                         /\ binding /\ Used = {} /\ faults = {}
  <1>1. Requests /\ req[n] \in DeviceRequest BY DEF DeviceInv, DeviceTypes, Unused, Requests
  <1>2. req[n] # NoRequest BY DEF NoRequest
  <1>3. n \in InFlight BY DEF InFlight
  <1>4. native # "none"
    <2> SUFFICES ASSUME native = "none" PROVE FALSE OBVIOUS
    <2>1. calls = 0 BY DEF DeviceInv, Unused
    <2>2. n > calls BY <2>1 DEF Calls
    <2> QED BY <1>1, <1>2, <2>2 DEF Requests
  <1>5. ASSUME orderly
        PROVE  /\ OrderlyInv /\ InFlight = {n} /\ n = calls /\ native = "live"
               /\ binding /\ Used = {} /\ faults = {}
    <2>1. OrderlyInv BY <1>3, <1>5 DEF DeviceInv, LostInv
    <2>2. \A m \in InFlight : m = calls /\ native = "live" /\ binding
      BY <2>1 DEF OrderlyInv, OneRequest
    <2> QED BY <1>3, <2>1, <2>2 DEF OrderlyInv, Used
  <1> QED BY <1>1, <1>2, <1>3, <1>4, <1>5

\* A thread takes a request and finds its field in the instance.
LEMMA Started == ASSUME DeviceInv, NEW n \in Calls, WorkerStarts(n) PROVE DeviceInv'
  <1> DEFINE r == [req[n] EXCEPT !.st = "running", !.seen = slot[FieldOf(req[n].op)]]
  <1>1. /\ req[n].st = "queued" /\ req' = [req EXCEPT ![n] = r] /\ faults' = faults \cup Used
        /\ UNCHANGED <<kind, native, binding, fd, slot, heap, poll, edge, calls, client, orderly>>
    BY DEF WorkerStarts, DeviceInv, DeviceTypes
  <1>2. /\ Requests /\ req[n] # NoRequest /\ req[n] \in DeviceRequest /\ n \in InFlight
        /\ native # "none"
        /\ orderly => /\ OrderlyInv /\ InFlight = {n} /\ n = calls /\ native = "live"
                      /\ binding /\ Used = {} /\ faults = {}
    BY <1>1, UnderWay
  <1>3. slot[FieldOf(req[n].op)] \in Nat BY DEF DeviceInv, DeviceTypes, FieldOf, Fields
  <1>4. /\ r \in DeviceRequest /\ r.st = "running" /\ r.op = req[n].op /\ r.ok = req[n].ok
        /\ r.seen = slot[FieldOf(req[n].op)]
    BY ONLY <1>2, <1>3 DEF DeviceRequest
  <1> HIDE DEF r
  <1>5. Requests' /\ req'[n] = r /\ \A m \in Calls : m # n => req'[m] = req[m]
    BY <1>1, <1>2, <1>4, Changed
  <1>6. InFlight' = InFlight BY <1>1, <1>2, <1>4, <1>5 DEF InFlight
  <1>7. DeviceTypes' /\ Unused' BY <1>1, <1>2, <1>5 DEF DeviceInv, DeviceTypes, Unused, Requests
  <1>8. OwnAnswer' BY <1>1, <1>4, <1>5 DEF DeviceInv, OwnAnswer
  <1>9. ASSUME orderly' PROVE OrderlyInv'
    <2>1. /\ OrderlyInv /\ InFlight = {n} /\ n = calls /\ native = "live"
          /\ binding /\ Used = {} /\ faults = {}
      BY <1>1, <1>2, <1>9
    <2>2. OneRequest' BY <1>1, <1>6, <2>1 DEF OneRequest
    <2>3. Opening' BY <1>1, <1>4, <1>5, <1>6, <2>1 DEF OrderlyInv, Opening
    <2>4. OpenedWell' BY <1>1, <1>4, <1>5, <1>6, <2>1 DEF OrderlyInv, OpenedWell, Ready
    <2>5. EdgeState' BY <1>1, <1>4, <1>5, <1>6, <2>1 DEF OrderlyInv, EdgeState
    <2>6. PollState' BY <1>1, <2>1 DEF OrderlyInv, PollState
    <2>7. Slots' BY <1>1, <1>4, <1>5, <1>6, <2>1 DEF OrderlyInv, Slots
    <2>8. HeapOwned'
      BY <1>1, <1>4, <1>5, <1>6, <2>1 DEF OrderlyInv, HeapOwned, Buffered, DeviceInv, DeviceTypes
    <2> QED BY <1>1, <2>1, <2>2, <2>3, <2>4, <2>5, <2>6, <2>7, <2>8 DEF OrderlyInv
  <1> QED BY <1>7, <1>8, <1>9 DEF DeviceInv

\* A worker ends: what it may do to the instance depends on what it was asked.
LEMMA Ended ==
    ASSUME DeviceInv, NEW n \in Calls, req[n].st = "running", NEW b \in BOOLEAN,
           req' = [req EXCEPT ![n].st = "done", ![n].ok = b],
           UNCHANGED <<kind, native, binding, slot, calls, client, orderly>>,
           heap' = IF kind = "i2c" /\ req[n].op = "write" THEN heap \ {n}
                   ELSE IF kind = "i2c" /\ req[n].op = "read" THEN heap \cup {n} ELSE heap,
           orderly =>
               /\ faults' = {} /\ PollState'
               /\ req[n].op = "open" /\ b => Ready'
               /\ req[n].op # "open" => edge' = edge /\ (Ready => Ready')
    PROVE  DeviceInv'
  <1> DEFINE r == [req[n] EXCEPT !.st = "done", !.ok = b]
  <1>1. req' = [req EXCEPT ![n] = r] BY DEF DeviceInv, DeviceTypes
  <1>2. /\ Requests /\ req[n] # NoRequest /\ req[n] \in DeviceRequest /\ n \in InFlight
        /\ native # "none"
        /\ orderly => /\ OrderlyInv /\ InFlight = {n} /\ n = calls /\ native = "live"
                      /\ binding /\ Used = {} /\ faults = {}
    BY UnderWay
  <1>3. r \in DeviceRequest /\ r.st = "done" /\ r.op = req[n].op /\ r.ok = b /\ r.seen = req[n].seen
    BY ONLY <1>2, b \in BOOLEAN DEF DeviceRequest
  <1> HIDE DEF r
  <1>4. Requests' /\ req'[n] = r /\ \A m \in Calls : m # n => req'[m] = req[m]
    BY <1>1, <1>2, <1>3, Changed
  <1>5. InFlight' = InFlight BY <1>2, <1>3, <1>4 DEF InFlight
  <1>6. DeviceTypes' /\ Unused' BY <1>2, <1>4 DEF DeviceInv, DeviceTypes, Unused, Requests
  <1>7. OwnAnswer' BY <1>3, <1>4 DEF DeviceInv, OwnAnswer
  <1>8. ASSUME orderly' PROVE OrderlyInv'
    <2>1. /\ OrderlyInv /\ InFlight = {n} /\ n = calls /\ native = "live" /\ binding
      BY <1>2, <1>8
    <2>2. OneRequest' BY <1>5, <2>1 DEF OneRequest
    <2>3. Opening' BY <1>3, <1>4, <1>5, <2>1 DEF OrderlyInv, Opening
    <2>4. OpenedWell'
      <3>1. req[n].op = "open" /\ b => Ready' BY <1>8
      <3>2. client \in {"open", "closed", "exited"} => req[n].op # "open" /\ Ready
        BY <2>1 DEF OrderlyInv, Opening, OpenedWell
      <3>3. req[n].op # "open" /\ Ready => Ready' BY <1>8
      <3> QED BY ONLY <1>3, <1>4, <1>5, <2>1, <3>1, <3>2, <3>3, UNCHANGED client DEF OpenedWell
    <2>5. EdgeState'
      <3>1. req[n].op # "open" => edge' = edge BY <1>8
      <3>2. req[n].op = "open" => client = "opening" BY <2>1 DEF OrderlyInv, Opening
      <3>3. edge # "none" => client \in {"opening", "failed"} BY <2>1 DEF OrderlyInv, EdgeState
      <3> QED BY ONLY <1>3, <1>4, <1>5, <2>1, <3>1, <3>2, <3>3, UNCHANGED client DEF EdgeState
    <2>6. Slots' BY <1>3, <1>4, <1>5, <2>1 DEF OrderlyInv, Slots
    <2>7. HeapOwned'
      BY <1>3, <1>4, <1>5, <2>1 DEF OrderlyInv, HeapOwned, Buffered, DeviceInv, DeviceTypes
    <2> QED BY <1>8, <2>2, <2>3, <2>4, <2>5, <2>6, <2>7 DEF OrderlyInv
  <1> QED BY <1>6, <1>7, <1>8 DEF DeviceInv

\* The application is told: nothing is under way then, and after a close the instance
\* may be released.
LEMMA Answered ==
    ASSUME DeviceInv, NEW k, NEW n \in Calls, NEW told \in Nat, NEW reaches \in BOOLEAN,
           Answer(k, n, told, reaches), UNCHANGED slot,
           k \in {"gpio", "i2c", "adc"} => told = n,
           orderly /\ req[n].op \in DataOps => told = n,
           binding' \in BOOLEAN, req[n].op # "close" => binding' = binding,
           \/ native' = native
           \/ native' = "freed" /\ kind \in {"i2c", "adc"} /\ req[n].op = "close",
           heap' \subseteq heap,
           orderly =>
               /\ faults' = {}
               /\ heap' = IF Buffered(req[n].op) \/ (kind = "i2c" /\ req[n].op = "read" /\ req[n].ok)
                          THEN heap \ {n} ELSE heap
    PROVE  DeviceInv'
  <1> DEFINE r == [req[n] EXCEPT !.st = IF reaches THEN "answered" ELSE "thrown", !.told = told]
  <1>1. /\ kind = k /\ req[n].st = "done" /\ req' = [req EXCEPT ![n] = r]
        /\ client' = IF req[n].op = "open" /\ client = "opening"
                     THEN IF req[n].ok THEN "open" ELSE "failed" ELSE client
        /\ UNCHANGED <<kind, fd, poll, edge, calls, orderly>>
    BY DEF Answer, DeviceInv, DeviceTypes
  <1>2. /\ Requests /\ req[n] # NoRequest /\ req[n] \in DeviceRequest /\ n \in InFlight
        /\ native # "none"
        /\ orderly => /\ OrderlyInv /\ InFlight = {n} /\ n = calls /\ native = "live"
                      /\ binding /\ Used = {} /\ faults = {}
    BY <1>1, UnderWay
  <1>3. /\ r \in DeviceRequest /\ r.st \in {"answered", "thrown"} /\ r.op = req[n].op
        /\ r.ok = req[n].ok /\ r.told = told
    BY ONLY <1>2, told \in Nat DEF DeviceRequest
  <1> HIDE DEF r
  <1>4. Requests' /\ req'[n] = r /\ \A m \in Calls : m # n => req'[m] = req[m]
    BY <1>1, <1>2, <1>3, Changed
  <1>5. InFlight' = InFlight \ {n} BY <1>3, <1>4 DEF InFlight
  <1>6. DeviceTypes' /\ Unused'
    BY <1>1, <1>2, <1>4 DEF DeviceInv, DeviceTypes, Unused, Requests
  <1>7. OwnAnswer' BY <1>1, <1>3, <1>4 DEF DeviceInv, OwnAnswer, DeviceTypes, Kinds
  <1>8. ASSUME orderly' PROVE OrderlyInv'
    <2>1. /\ OrderlyInv /\ InFlight = {n} /\ native = "live" /\ binding
      BY <1>1, <1>2, <1>8
    <2>2. InFlight' = {} BY <1>5, <2>1
    <2>3. OneRequest' /\ Slots' BY <2>2 DEF OneRequest, Slots
    <2>4. /\ req[n].op = "open" <=> client = "opening"
          /\ req[n].op = "close" => client = "closed"
          /\ client # "lost"
      BY <2>1 DEF OrderlyInv, Opening
    <2>5. Opening' BY <1>1, <2>1, <2>2, <2>4 DEF Opening
    <2>6. OpenedWell'
      <3>1. req[n].op = "open" /\ req[n].ok => Ready BY <1>1, <2>1 DEF OrderlyInv, OpenedWell
      <3>2. client \in {"open", "closed", "exited"} => Ready BY <2>1 DEF OrderlyInv, OpenedWell
      <3>3. Ready' = Ready BY <1>1 DEF Ready
      <3> QED BY <1>1, <2>2, <3>1, <3>2, <3>3 DEF OpenedWell
    <2>7. EdgeState'
      <3>1. req[n].op = "open" /\ req[n].ok => edge = "none"
        BY <1>1, <2>1 DEF OrderlyInv, OpenedWell, Ready
      <3>2. edge # "none" => client \in {"opening", "failed"} BY <2>1 DEF OrderlyInv, EdgeState
      <3> QED BY <1>1, <2>2, <2>4, <3>1, <3>2 DEF EdgeState
    <2>8. PollState' BY <1>1, <2>1 DEF OrderlyInv, PollState
    <2>9. HeapOwned'
      <3>1. /\ HeapOwned
            /\ heap' = IF Buffered(req[n].op) \/ (kind = "i2c" /\ req[n].op = "read" /\ req[n].ok)
                       THEN heap \ {n} ELSE heap
        BY <1>1, <1>8, <2>1 DEF OrderlyInv
      <3>2. ASSUME NEW m \in heap'
            PROVE  kind = "i2c" /\ req'[m].op = "read" /\ ~req'[m].ok
        <4>1. m \in heap /\ m \in Calls BY <3>1 DEF DeviceInv, DeviceTypes
        <4>2. CASE m = n BY <1>1, <1>3, <1>4, <2>1, <3>1, <4>1, <4>2 DEF HeapOwned
        <4>3. CASE m # n
          <5>1. m \notin InFlight /\ req'[m] = req[m] BY <1>4, <2>1, <4>1, <4>3
          <5> QED BY <3>1, <4>1, <5>1 DEF HeapOwned, InFlight
        <4> QED BY <4>2, <4>3
      <3> QED BY <1>1, <2>2, <3>2 DEF HeapOwned
    <2> QED BY <1>8, <1>1, <2>3, <2>5, <2>6, <2>7, <2>8, <2>9 DEF OrderlyInv
  <1> QED BY <1>6, <1>7, <1>8 DEF DeviceInv

-----------------------------------------------------------------------------
(* The six devices.                                                        *)

\* A synchronous call that leaves the descriptor, the handle and the thread alone
LEMMA PlainCall ==
    ASSUME DeviceInv, NEW k, Enter(k), UNCHANGED <<req, heap, fd, poll, edge>>,
           slot' \in [Fields -> Nat], binding' \in BOOLEAN, client' \in {client, "closed"},
           native' = native \/ (native' = "freed" /\ kind \in {"i2c", "adc"}),
           orderly' /\ client' # "closed" => UNCHANGED <<native, binding>>,
           faults' = faults \cup Used
    PROVE  DeviceInv'
  <1>1. CallTypes BY DEF CallTypes, DeviceInv, DeviceTypes
  <1>2. ASSUME orderly' PROVE faults' = {} /\ Ready' /\ PollState'
    <2>1. OrderlyInv /\ Used = {} /\ faults = {} /\ Ready BY <1>2, OrderlyCall
    <2>2. kind' = kind /\ kind = k BY DEF Enter
    <2> QED BY <2>1, <2>2 DEF OrderlyInv, PollState, Ready
  <1> QED BY <1>1, <1>2, SyncCall

\* A worker that uses the instance, and leaves alone what the application owns
LEMMA WorkerKept ==
    ASSUME DeviceInv, NEW k, NEW n \in Calls, NEW ops, NEW ok \in BOOLEAN,
           WorkerEnds(k, n, ops, ok),
           UNCHANGED <<kind, native, binding, slot, calls, client, orderly>>,
           heap' = IF kind = "i2c" /\ req[n].op = "write" THEN heap \ {n}
                   ELSE IF kind = "i2c" /\ req[n].op = "read" THEN heap \cup {n} ELSE heap,
           orderly /\ OrderlyInv =>
               /\ PollState'
               /\ req[n].op = "open" /\ ok => Ready'
               /\ req[n].op # "open" => edge' = edge /\ (Ready => Ready')
    PROVE  DeviceInv'
  <1>1. /\ req[n].st = "running" /\ req' = [req EXCEPT ![n].st = "done", ![n].ok = ok]
        /\ faults' = faults \cup Used
    BY DEF WorkerEnds
  <1>2. orderly => OrderlyInv /\ faults' = {} BY <1>1, UnderWay
  <1> QED BY <1>1, <1>2, Ended

\* A worker that only reads or writes files
LEMMA PlainWorker ==
    ASSUME DeviceInv, NEW k, NEW n \in Calls, NEW ops, NEW ok \in BOOLEAN,
           WorkerEnds(k, n, ops, ok),
           UNCHANGED <<kind, native, binding, slot, heap, poll, edge, calls, client, orderly>>,
           fd' = fd \/ k = "gpio", k # "i2c", k \in {"spi", "uart"} => "open" \notin ops
    PROVE  DeviceInv'
  <1>1. kind = k /\ req[n].op \in ops /\ req[n].st = "running" BY DEF WorkerEnds
  <1>2. ASSUME orderly, OrderlyInv
        PROVE  /\ PollState'
               /\ req[n].op = "open" /\ ok => Ready'
               /\ req[n].op # "open" => edge' = edge /\ (Ready => Ready')
    <2>1. n \in InFlight BY <1>1 DEF InFlight
    <2>2. req[n].op = "open" => edge = "none" BY <1>1, <1>2, <2>1 DEF OrderlyInv, EdgeState
    <2> QED BY <1>1, <1>2, <2>2 DEF OrderlyInv, PollState, Ready
  <1> QED BY <1>1, <1>2, WorkerKept

\* GPIO: a failed open may leave the edge detection thread running on the instance,
\* which then stays alive; after a successful one there is no thread.
LEMMA GpioKept ==
    DeviceInv /\ (GpioCall \/ \E n \in Calls : GpioStep(n)) => DeviceInv'
  <1> SUFFICES ASSUME DeviceInv, GpioCall \/ \E n \in Calls : GpioStep(n)
               PROVE  DeviceInv'
    OBVIOUS
  <1>0. /\ slot \in [Fields -> Nat] /\ heap \subseteq Calls /\ binding \in BOOLEAN
    BY DEF DeviceInv, DeviceTypes
  <1>1. CASE GpioConstructor
    BY <1>1, Constructed DEF GpioConstructor, GpioReqwrap
  <1>2. ASSUME NEW op \in {"write", "read", "close"}, Enter("gpio"), GpioAsync(op),
               client' = IF op = "close" THEN Closed ELSE client
        PROVE  DeviceInv'
    <2>0. Closed \in {client, "closed"} /\ (orderly' => Closed = "closed")
      BY <1>2 DEF Closed, Enter
    <2>1. kind = "gpio" /\ op \in {"close"} \cup DataOps BY <1>2 DEF Enter, DataOps
    <2>2. CallTypes BY <1>0, <1>2, <2>0 DEF CallTypes, GpioAsync
    <2>3. heap' = IF Buffered(op) \/ (kind = "i2c" /\ op = "write")
                  THEN heap \cup {calls + 1} ELSE heap
      BY <1>2, <2>1 DEF GpioAsync, Buffered
    <2> QED BY <1>2, <2>0, <2>1, <2>2, <2>3, AsyncCall DEF GpioAsync, GpioReqwrap
  <1>3. CASE GpioWrite BY <1>0, <1>2, <1>3, PlainCall DEF GpioWrite
  <1>4. CASE GpioRead BY <1>0, <1>2, <1>4, PlainCall DEF GpioRead
  <1>5. CASE GpioClose
    <2>1. /\ Enter("gpio") /\ client' = Closed /\ Closed \in {client, "closed"}
          /\ orderly' => Closed = "closed"
      BY <1>5 DEF GpioClose, Closed, Enter
    <2>2. CASE GpioAsync("close") BY <1>2, <2>1, <2>2
    <2>3. ASSUME NEW ok \in OpenWriteClose, faults' = faults \cup Used, GpioPlatformClose,
                 binding' = ~ok, UNCHANGED <<native, slot, heap, poll, edge, req>>
          PROVE  DeviceInv'
      <3>1. CallTypes BY <1>0, <2>1, <2>3 DEF CallTypes
      <3>2. ASSUME orderly' PROVE faults' = {} /\ Ready' /\ PollState'
        <4>1. OrderlyInv /\ Used = {} /\ faults = {} /\ Ready BY <2>1, <3>2, OrderlyCall
        <4>2. kind' = "gpio" /\ kind = "gpio" BY <2>1 DEF Enter
        <4> QED BY <2>3, <4>1, <4>2 DEF OrderlyInv, PollState, Ready
      <3> QED BY <2>1, <2>3, <3>1, <3>2, SyncCall
    <2> QED BY <1>5, <2>2, <2>3 DEF GpioClose, GpioCloseSync
  <1>6. ASSUME NEW n \in Calls, GpioOpenWorker(n) PROVE DeviceInv'
    <2> PICK exported \in DeviceOpen, direction \in GpioSetDirection,
             wanted \in GpioConfigurations, opened \in BOOLEAN :
          /\ WorkerEnds("gpio", n, {"open"}, exported /\ direction /\ ~wanted)
          /\ IF exported /\ direction THEN GpioSetEdge(wanted, opened) ELSE UNCHANGED <<fd, edge>>
          /\ UNCHANGED <<kind, native, binding, slot, heap, poll, calls, client, orderly>>
      BY <1>6 DEF GpioOpenWorker
    <2> DEFINE ok == exported /\ direction /\ ~wanted
    <2>1. kind = "gpio" /\ req[n].op = "open" /\ req[n].st = "running" BY DEF WorkerEnds
    <2>2. ok \in BOOLEAN /\ (ok => edge' = edge) BY DEF GpioSetEdge
    <2>3. ASSUME orderly, OrderlyInv PROVE PollState' /\ (ok => Ready')
      <3>1. n \in InFlight BY <2>1 DEF InFlight
      <3>2. edge = "none" BY <2>1, <2>3, <3>1 DEF OrderlyInv, EdgeState
      <3>3. poll = "raw" BY <2>1, <2>3 DEF OrderlyInv, PollState
      <3> QED BY <2>1, <2>2, <3>2, <3>3 DEF PollState, Ready
    <2>4. heap' = IF kind = "i2c" /\ req[n].op = "write" THEN heap \ {n}
                  ELSE IF kind = "i2c" /\ req[n].op = "read" THEN heap \cup {n} ELSE heap
      BY <2>1
    <2> HIDE DEF ok
    <2>5. WorkerEnds("gpio", n, {"open"}, ok) BY DEF ok
    <2> QED BY <2>1, <2>2, <2>3, <2>4, <2>5, WorkerKept
  <1>7. ASSUME NEW n \in Calls, NEW op \in {"write", "read", "close"}, NEW ok \in BOOLEAN,
               WorkerEnds("gpio", n, {op}, ok),
               UNCHANGED <<kind, native, binding, slot, heap, poll, edge, calls, client, orderly>>
        PROVE  DeviceInv'
    BY <1>7, PlainWorker
  <1>8. ASSUME NEW n \in Calls, GpioAfterWorker(n) PROVE DeviceInv'
    <2>1. /\ Answer("gpio", n, n, TRUE) /\ binding' = (binding /\ req[n].op # "close")
          /\ UNCHANGED <<native, slot, heap, faults>>
      BY <1>8 DEF GpioAfterWorker, Forget
    <2>2. kind = "gpio" /\ req[n].st = "done" BY <2>1 DEF Answer
    <2>3. n \in Nat BY DEF Calls
    <2>4. orderly => faults' = {} BY <2>1, <2>2, UnderWay
    <2>5. heap' = IF Buffered(req[n].op) \/ (kind = "i2c" /\ req[n].op = "read" /\ req[n].ok)
                  THEN heap \ {n} ELSE heap
      BY <2>1, <2>2 DEF Buffered
    <2> QED BY <1>0, <2>1, <2>2, <2>3, <2>4, <2>5, Answered
  <1> QED
    BY <1>1, <1>3, <1>4, <1>5, <1>6, <1>7, <1>8
       DEF GpioCall, GpioStep, GpioWriteWorker, GpioReadWorker, GpioCloseWorker,
           GpioPlatformWrite, GpioPlatformRead, OpenWriteClose, OpenReadClose

\* PWM: the worker of the only request finds the value of its own call.
LEMMA PwmKept ==
    DeviceInv /\ (PwmCall \/ \E n \in Calls : PwmStep(n)) => DeviceInv'
  <1> SUFFICES ASSUME DeviceInv, PwmCall \/ \E n \in Calls : PwmStep(n)
               PROVE  DeviceInv'
    OBVIOUS
  <1>0. /\ slot \in [Fields -> Nat] /\ heap \subseteq Calls /\ binding \in BOOLEAN
        /\ calls \in Nat
    BY DEF DeviceInv, DeviceTypes
  <1>1. CASE PwmConstructor BY <1>1, Constructed DEF PwmConstructor, PwmAsync, PwmReqwrap
  <1>2. ASSUME NEW op \in {"setPeriod", "setDutyCycle", "setEnable"}, PwmSet(op)
        PROVE  DeviceInv'
    <2>1. /\ Enter("pwm") /\ slot' = [slot EXCEPT ![FieldOf(op)] = calls + 1]
          /\ PwmAsync(op) \/ UNCHANGED req
          /\ faults' = faults \cup Used
          /\ UNCHANGED <<native, binding, fd, heap, poll, edge, client>>
      BY <1>2 DEF PwmSet
    <2>2. FieldOf(op) \in Fields BY DEF FieldOf, Fields
    <2>3. slot' \in [Fields -> Nat] /\ slot'[FieldOf(op)] = calls + 1 BY <1>0, <2>1, <2>2
    <2>4. kind = "pwm" /\ op \in {"close"} \cup DataOps /\ op # "close" BY <2>1 DEF Enter, DataOps
    <2>5. heap' = IF Buffered(op) \/ (kind = "i2c" /\ op = "write")
                  THEN heap \cup {calls + 1} ELSE heap
      BY <2>1, <2>4 DEF Buffered
    <2>6. CallTypes BY <1>0, <2>1, <2>3 DEF CallTypes
    <2>7. CASE PwmAsync(op)
      BY <2>1, <2>3, <2>4, <2>5, <2>6, <2>7, AsyncCall DEF PwmAsync, PwmReqwrap
    <2>8. CASE UNCHANGED req BY <1>0, <2>1, <2>3, <2>8, PlainCall
    <2> QED BY <2>1, <2>7, <2>8
  <1>3. CASE PwmClose
    <2>1. /\ Enter("pwm") /\ faults' = faults \cup Used /\ client' = Closed
          /\ Closed \in {client, "closed"} /\ (orderly' => Closed = "closed")
          /\ UNCHANGED <<native, fd, slot, heap, poll, edge>>
      BY <1>3 DEF PwmClose, Closed, Enter
    <2>2. CASE PwmAsync("close") /\ UNCHANGED binding
      <3>1. kind = "pwm" BY <2>1 DEF Enter
      <3>2. heap' = IF Buffered("close") \/ (kind = "i2c" /\ "close" = "write")
                    THEN heap \cup {calls + 1} ELSE heap
        BY <2>1, <3>1 DEF Buffered
      <3>3. CallTypes BY <1>0, <2>1, <2>2 DEF CallTypes
      <3>4. "close" \notin DataOps BY DEF DataOps
      <3> QED BY <2>1, <2>2, <3>1, <3>2, <3>3, <3>4, AsyncCall DEF PwmAsync, PwmReqwrap
    <2>3. CASE UNCHANGED req /\ binding' = FALSE BY <1>0, <2>1, <2>3, PlainCall
    <2> QED BY <1>3, <2>2, <2>3 DEF PwmClose, PwmCloseSync
  <1>4. ASSUME NEW n \in Calls, PwmOpenWorker(n) PROVE DeviceInv'
    <2> PICK exported \in DeviceOpen, period \in PwmWritePeriod, duty \in PwmWriteDutyCycle :
          /\ WorkerEnds("pwm", n, {"open"}, exported /\ period /\ duty)
          /\ UNCHANGED <<kind, native, binding, fd, slot, heap, poll, edge, calls, client, orderly>>
      BY <1>4 DEF PwmOpenWorker
    <2> QED BY PlainWorker
  <1>5. ASSUME NEW n \in Calls, PwmCommonWorker(n) PROVE DeviceInv'
    <2>1. PICK ok : /\ WorkerEnds("pwm", n, {"setPeriod", "setDutyCycle", "setEnable"}, ok)
                    /\ ok \in PwmWriteValue(req[n].op)
                    /\ UNCHANGED <<kind, native, binding, fd, slot, heap, poll, edge, calls, client,
                                   orderly>>
      BY <1>5 DEF PwmCommonWorker
    <2>2. ok \in BOOLEAN
      BY <2>1 DEF PwmWriteValue, PwmWritePeriod, PwmWriteDutyCycle, PwmWriteEnable, OpenWriteClose
    <2> QED BY <2>1, <2>2, PlainWorker
  <1>6. ASSUME NEW n \in Calls, PwmCloseWorker(n) PROVE DeviceInv'
    BY <1>6, PlainWorker DEF PwmCloseWorker, PwmPlatformClose
  <1>7. ASSUME NEW n \in Calls, PwmAfterWorker(n) PROVE DeviceInv'
    <2>1. /\ Answer("pwm", n, req[n].seen, TRUE) /\ binding' = (binding /\ req[n].op # "close")
          /\ UNCHANGED <<native, slot, heap, faults>>
      BY <1>7 DEF PwmAfterWorker, Forget
    <2>2. kind = "pwm" /\ req[n].st = "done" BY <2>1 DEF Answer
    <2>3. /\ req[n] \in DeviceRequest /\ n \in InFlight
          /\ orderly => faults' = {} /\ OrderlyInv
      BY <2>1, <2>2, UnderWay
    <2>4. req[n].seen \in Nat BY ONLY <2>3 DEF DeviceRequest
    <2>5. orderly /\ req[n].op \in DataOps => req[n].seen = n
      BY <2>2, <2>3 DEF OrderlyInv, Slots
    <2>6. heap' = IF Buffered(req[n].op) \/ (kind = "i2c" /\ req[n].op = "read" /\ req[n].ok)
                  THEN heap \ {n} ELSE heap
      BY <2>1, <2>2 DEF Buffered
    <2> QED BY <1>0, <2>1, <2>2, <2>3, <2>4, <2>5, <2>6, Answered
  <1> QED
    BY <1>1, <1>2, <1>3, <1>4, <1>5, <1>6, <1>7
       DEF PwmCall, PwmStep, PwmSetPeriod, PwmSetDutyCycle, PwmSetEnable

\* SPI: the buffers that the instance points to are those of the only transfer, and
\* after a successful open the descriptor is not the zero of the constructor.
LEMMA SpiKept ==
    DeviceInv /\ (SpiCall \/ \E n \in Calls : SpiStep(n)) => DeviceInv'
  <1> SUFFICES ASSUME DeviceInv, SpiCall \/ \E n \in Calls : SpiStep(n)
               PROVE  DeviceInv'
    OBVIOUS
  <1>0. /\ slot \in [Fields -> Nat] /\ heap \subseteq Calls /\ binding \in BOOLEAN
        /\ calls \in Nat /\ "buf" \in Fields
    BY DEF DeviceInv, DeviceTypes, Fields
  <1>1. CASE SpiConstructor BY <1>1, Constructed DEF SpiConstructor, SpiAsync, SpiReqwrap
  <1>2. ASSUME NEW op \in {"transferArray", "transferBuffer"}, Enter("spi"), SpiSetBuffer,
               SpiAsync(op), faults' = faults \cup Used,
               heap' = IF op = "transferArray" THEN heap \cup {calls + 1} ELSE heap,
               UNCHANGED <<native, binding, fd, poll, edge, client>>
        PROVE  DeviceInv'
    <2>1. /\ kind = "spi" /\ op \in {"close"} \cup DataOps /\ op # "close" /\ FieldOf(op) = "buf"
          /\ calls + 1 \in Calls
      BY <1>2, <1>0, MaxCallsAssumption DEF Enter, DataOps, FieldOf, Calls
    <2>2. slot' \in [Fields -> Nat] /\ slot'[FieldOf(op)] = calls + 1
      BY <1>0, <1>2, <2>1 DEF SpiSetBuffer
    <2>3. CallTypes BY <1>0, <1>2, <2>1, <2>2 DEF CallTypes
    <2>4. heap' = IF Buffered(op) \/ (kind = "i2c" /\ op = "write")
                  THEN heap \cup {calls + 1} ELSE heap
      BY <1>2, <2>1 DEF Buffered
    <2> QED BY <1>2, <2>1, <2>2, <2>3, <2>4, AsyncCall DEF SpiAsync, SpiReqwrap
  <1>3. ASSUME Enter("spi"), SpiSetBuffer, faults' = faults \cup Used,
               UNCHANGED <<native, binding, fd, heap, poll, edge, client, req>>
        PROVE  DeviceInv'
    <2>1. slot' \in [Fields -> Nat] BY <1>0, <1>3 DEF SpiSetBuffer
    <2> QED BY <1>0, <1>3, <2>1, PlainCall
  <1>4. CASE SpiTransferArray BY <1>2, <1>3, <1>4 DEF SpiTransferArray
  <1>5. CASE SpiTransferBuffer BY <1>2, <1>3, <1>5 DEF SpiTransferBuffer
  <1>6. CASE SpiClose
    <2>1. /\ Enter("spi") /\ client' = Closed /\ UNCHANGED <<native, slot, heap, poll, edge>>
          /\ Closed \in {client, "closed"} /\ (orderly' => Closed = "closed")
      BY <1>6 DEF SpiClose, Closed, Enter
    <2>2. kind = "spi" /\ kind' = "spi" BY <2>1 DEF Enter
    <2>3. CASE SpiAsync("close") /\ faults' = faults \cup Used /\ UNCHANGED <<binding, fd>>
      <3>1. heap' = IF Buffered("close") \/ (kind = "i2c" /\ "close" = "write")
                    THEN heap \cup {calls + 1} ELSE heap
        BY <2>1, <2>2 DEF Buffered
      <3>2. CallTypes BY <1>0, <2>1, <2>3 DEF CallTypes
      <3>3. "close" \notin DataOps BY DEF DataOps
      <3> QED BY <2>1, <2>2, <2>3, <3>1, <3>2, <3>3, AsyncCall DEF SpiAsync, SpiReqwrap
    <2>4. ASSUME NEW ok \in BOOLEAN, SpiPlatformClose(ok), binding' = ~(ok \/ fd = "none"),
                 faults' = faults \cup Used \cup SpiCloseFaults, UNCHANGED req
          PROVE  DeviceInv'
      <3>1. CallTypes BY <1>0, <2>1, <2>4 DEF CallTypes
      <3>2. ASSUME orderly' PROVE faults' = {} /\ Ready' /\ PollState'
        <4>1. OrderlyInv /\ Used = {} /\ faults = {} /\ Ready BY <2>1, <3>2, OrderlyCall
        <4>2. fd # "zero" /\ fd' # "zero" BY <2>2, <2>4, <4>1 DEF Ready, SpiPlatformClose
        <4> QED BY <2>1, <2>2, <2>4, <4>1, <4>2 DEF OrderlyInv, PollState, Ready, SpiCloseFaults
      <3> QED BY <2>1, <2>4, <3>1, <3>2, SyncCall
    <2> QED BY <1>6, <2>3, <2>4 DEF SpiClose, SpiCloseSync
  <1>7. ASSUME NEW n \in Calls, SpiOpenWorker(n) PROVE DeviceInv'
    <2> PICK exists \in CheckPath, opened \in BOOLEAN : \E configured \in SpiSetConfiguration(opened) :
          /\ WorkerEnds("spi", n, {"open"}, exists /\ configured)
          /\ fd' = IF ~exists THEN fd ELSE IF opened THEN "open" ELSE "none"
          /\ UNCHANGED <<kind, native, binding, slot, heap, poll, edge, calls, client, orderly>>
      BY <1>7 DEF SpiOpenWorker
    <2> PICK configured \in SpiSetConfiguration(opened) :
          WorkerEnds("spi", n, {"open"}, exists /\ configured)
      OBVIOUS
    <2> DEFINE ok == exists /\ configured
    <2>1. kind = "spi" /\ req[n].op = "open" /\ req[n].st = "running" BY DEF WorkerEnds
    <2>2. ok \in BOOLEAN /\ (ok => fd' = "open" \/ fd' = "none") OBVIOUS
    <2>3. ASSUME orderly, OrderlyInv PROVE PollState' /\ (ok => Ready')
      <3>1. n \in InFlight BY <2>1 DEF InFlight
      <3>2. edge = "none" BY <2>1, <2>3, <3>1 DEF OrderlyInv, EdgeState
      <3>3. poll = "raw" BY <2>1, <2>3 DEF OrderlyInv, PollState
      <3> QED BY <2>1, <2>2, <3>2, <3>3 DEF PollState, Ready
    <2>4. heap' = IF kind = "i2c" /\ req[n].op = "write" THEN heap \ {n}
                  ELSE IF kind = "i2c" /\ req[n].op = "read" THEN heap \cup {n} ELSE heap
      BY <2>1
    <2>5. WorkerEnds("spi", n, {"open"}, ok) OBVIOUS
    <2> HIDE DEF ok
    <2> QED BY <2>1, <2>2, <2>3, <2>4, <2>5, WorkerKept
  <1>8. ASSUME NEW n \in Calls, SpiTransferWorker(n) PROVE DeviceInv'
    BY <1>8, PlainWorker DEF SpiTransferWorker, SpiTransfer
  <1>9. ASSUME NEW n \in Calls, SpiCloseWorker(n) PROVE DeviceInv'
    <2> PICK ok \in BOOLEAN :
          /\ kind = "spi" /\ req[n].st = "running" /\ req[n].op = "close"
          /\ req' = [req EXCEPT ![n].st = "done", ![n].ok = ok \/ fd = "none"]
          /\ faults' = faults \cup Used \cup SpiCloseFaults
          /\ SpiPlatformClose(ok)
          /\ UNCHANGED <<kind, native, binding, slot, heap, poll, edge, calls, client, orderly>>
      BY <1>9 DEF SpiCloseWorker
    <2>1. orderly => OrderlyInv /\ Used = {} /\ faults = {} /\ n \in InFlight BY UnderWay
    <2>2. orderly => fd # "zero"
      <3>1. orderly => client = "closed" BY <2>1 DEF OrderlyInv, Opening
      <3> QED BY <2>1, <3>1 DEF OrderlyInv, OpenedWell, Ready
    <2>3. orderly => faults' = {} BY <2>1, <2>2 DEF SpiCloseFaults
    <2>4. orderly => PollState' BY <2>1 DEF OrderlyInv, PollState
    <2>5. orderly => (Ready => Ready') BY <2>2 DEF Ready, SpiPlatformClose
    <2>6. (ok \/ fd = "none") \in BOOLEAN OBVIOUS
    <2>7. heap' = IF kind = "i2c" /\ req[n].op = "write" THEN heap \ {n}
                  ELSE IF kind = "i2c" /\ req[n].op = "read" THEN heap \cup {n} ELSE heap
      OBVIOUS
    <2> QED BY <2>3, <2>4, <2>5, <2>6, <2>7, Ended
  <1>10. ASSUME NEW n \in Calls, SpiAfterWork(n) PROVE DeviceInv'
    <2>1. /\ Answer("spi", n, slot["buf"], SpiReaches(n)) /\ UNCHANGED <<native, slot>>
          /\ binding' = (binding /\ req[n].op # "close")
          /\ IF req[n].op = "transferArray"
             THEN /\ heap' = heap \ {slot["buf"]}
                  /\ faults' = faults \cup Used \cup Freed(slot["buf"])
             ELSE /\ faults' = faults \cup (IF req[n].op = "transferBuffer" THEN Used ELSE {})
                  /\ UNCHANGED heap
      BY <1>10 DEF SpiAfterWork, Forget
    <2>2. kind = "spi" /\ req[n].st = "done" BY <2>1 DEF Answer
    <2>3. /\ req[n] \in DeviceRequest /\ n \in InFlight
          /\ orderly => OrderlyInv /\ Used = {} /\ faults = {}
      BY <2>2, UnderWay
    <2>4. slot["buf"] \in Nat BY <1>0
    <2>5. orderly /\ req[n].op \in DataOps => slot["buf"] = n
      BY <2>2, <2>3 DEF OrderlyInv, Slots, FieldOf
    <2>6. orderly /\ req[n].op = "transferArray" => slot["buf"] = n /\ n \in heap
      BY <2>2, <2>3, <2>5 DEF OrderlyInv, HeapOwned, Buffered, DataOps
    <2>7. orderly => faults' = {} BY <2>1, <2>3, <2>6 DEF Freed
    <2>8. orderly => heap' = IF Buffered(req[n].op) \/ (kind = "i2c" /\ req[n].op = "read" /\ req[n].ok)
                             THEN heap \ {n} ELSE heap
      BY <2>1, <2>2, <2>6 DEF Buffered
    <2>9. heap' \subseteq heap BY <2>1
    <2>10. SpiReaches(n) \in BOOLEAN
      <3>1. req[n].ok \in BOOLEAN BY ONLY <2>3 DEF DeviceRequest
      <3> QED BY <3>1 DEF SpiReaches
    <2> QED BY <1>0, <2>1, <2>2, <2>4, <2>5, <2>7, <2>8, <2>9, <2>10, Answered
  <1> QED
    BY <1>1, <1>4, <1>5, <1>6, <1>7, <1>8, <1>9, <1>10 DEF SpiCall, SpiStep

\* UART: after a successful open the handle is initialised, and it is closed before
\* the instance is released.
LEMMA UartKept ==
    DeviceInv /\ (UartCall \/ \E n \in Calls : UartStep(n)) => DeviceInv'
  <1> SUFFICES ASSUME DeviceInv, UartCall \/ \E n \in Calls : UartStep(n)
               PROVE  DeviceInv'
    OBVIOUS
  <1>0. /\ slot \in [Fields -> Nat] /\ heap \subseteq Calls /\ binding \in BOOLEAN
        /\ calls \in Nat /\ "buf" \in Fields
    BY DEF DeviceInv, DeviceTypes, Fields
  <1>1. CASE UartConstructor BY <1>1, Constructed DEF UartConstructor, UartAsync, UartReqwrap
  <1>2. CASE UartWrite
    <2>1. /\ Enter("uart") /\ slot' = [slot EXCEPT !["buf"] = calls + 1]
          /\ \/ UartAsync("write") /\ heap' = heap \cup {calls + 1}
             \/ UNCHANGED <<req, heap>>
          /\ faults' = faults \cup Used
          /\ UNCHANGED <<native, binding, fd, poll, edge, client>>
      BY <1>2 DEF UartWrite
    <2>2. /\ kind = "uart" /\ "write" \in DataOps /\ FieldOf("write") = "buf" /\ calls + 1 \in Calls
      BY <1>0, <2>1, MaxCallsAssumption DEF Enter, DataOps, FieldOf, Calls
    <2>3. slot' \in [Fields -> Nat] /\ slot'[FieldOf("write")] = calls + 1 BY <1>0, <2>1, <2>2
    <2>4. CASE UartAsync("write") /\ heap' = heap \cup {calls + 1}
      <3>1. CallTypes BY <1>0, <2>1, <2>2, <2>3, <2>4 DEF CallTypes
      <3>2. heap' = IF Buffered("write") \/ (kind = "i2c" /\ "write" = "write")
                    THEN heap \cup {calls + 1} ELSE heap
        BY <2>2, <2>4 DEF Buffered
      <3> QED BY <2>1, <2>2, <2>3, <2>4, <3>1, <3>2, AsyncCall DEF UartAsync, UartReqwrap
    <2>5. CASE UNCHANGED <<req, heap>> BY <1>0, <2>1, <2>3, <2>5, PlainCall
    <2> QED BY <2>1, <2>4, <2>5
  <1>3. CASE UartClose
    <2>1. /\ Enter("uart") /\ client' = Closed /\ UNCHANGED <<native, fd, slot, heap, edge>>
          /\ Closed \in {client, "closed"} /\ (orderly' => Closed = "closed")
      BY <1>3 DEF UartClose, Closed, Enter
    <2>2. kind = "uart" /\ kind' = "uart" BY <2>1 DEF Enter
    <2>3. CASE UartAsync("close") /\ faults' = faults \cup Used /\ UNCHANGED <<binding, poll>>
      <3>1. heap' = IF Buffered("close") \/ (kind = "i2c" /\ "close" = "write")
                    THEN heap \cup {calls + 1} ELSE heap
        BY <2>1, <2>2 DEF Buffered
      <3>2. CallTypes BY <1>0, <2>1, <2>3 DEF CallTypes
      <3>3. "close" \notin DataOps BY DEF DataOps
      <3> QED BY <2>1, <2>2, <2>3, <3>1, <3>2, <3>3, AsyncCall DEF UartAsync, UartReqwrap
    <2>4. CASE /\ UartHandleClose /\ binding' = FALSE
               /\ faults' = faults \cup Used \cup UartCloseFaults /\ UNCHANGED req
      <3>1. CallTypes BY <1>0, <2>1, <2>4 DEF CallTypes
      <3>2. ASSUME orderly' PROVE faults' = {} /\ Ready' /\ PollState'
        <4>1. /\ OrderlyInv /\ Used = {} /\ faults = {} /\ Ready /\ native = "live"
          BY <2>1, <3>2, OrderlyCall
        <4>2. poll # "raw" BY <2>2, <4>1 DEF Ready
        <4>3. Ready' BY <2>1, <2>2, <2>4, <4>1, <4>2 DEF Ready, UartHandleClose
        <4>4. PollState' BY <2>1, <2>2, <2>4, <4>1 DEF OrderlyInv, PollState, UartHandleClose
        <4> QED BY <2>4, <4>1, <4>2, <4>3, <4>4 DEF UartCloseFaults
      <3> QED BY <2>1, <2>4, <3>1, <3>2, SyncCall
    <2> QED BY <1>3, <2>3, <2>4 DEF UartClose, UartCloseSync
  <1>4. ASSUME NEW n \in Calls, UartOpenWorker(n) PROVE DeviceInv'
    <2> PICK opened \in BOOLEAN :
          /\ WorkerEnds("uart", n, {"open"}, opened)
          /\ IF opened THEN fd' = "open" /\ poll' = "active" ELSE UNCHANGED <<fd, poll>>
          /\ UNCHANGED <<kind, native, binding, slot, heap, edge, calls, client, orderly>>
      BY <1>4 DEF UartOpenWorker
    <2>1. kind = "uart" /\ req[n].op = "open" /\ req[n].st = "running" BY DEF WorkerEnds
    <2>2. orderly => n \in InFlight /\ native = "live" BY <2>1, UnderWay
    <2>3. ASSUME orderly, OrderlyInv PROVE PollState' /\ (opened => Ready')
      <3>1. edge = "none" BY <2>1, <2>2, <2>3 DEF OrderlyInv, EdgeState
      <3>2. PollState BY <2>3 DEF OrderlyInv
      <3>3. PollState' BY <2>1, <2>2, <2>3, <3>2 DEF PollState
      <3> QED BY <2>1, <3>1, <3>3 DEF Ready
    <2>4. heap' = IF kind = "i2c" /\ req[n].op = "write" THEN heap \ {n}
                  ELSE IF kind = "i2c" /\ req[n].op = "read" THEN heap \cup {n} ELSE heap
      BY <2>1
    <2> QED BY <2>1, <2>3, <2>4, WorkerKept
  <1>5. ASSUME NEW n \in Calls, UartWriteWorker(n) PROVE DeviceInv'
    BY <1>5, PlainWorker DEF UartWriteWorker
  <1>6. ASSUME NEW n \in Calls, UartCloseWorker(n) PROVE DeviceInv'
    <2>1. /\ kind = "uart" /\ req[n].st = "running" /\ req[n].op = "close"
          /\ req' = [req EXCEPT ![n].st = "done", ![n].ok = TRUE]
          /\ faults' = faults \cup Used \cup UartCloseFaults
          /\ UartHandleClose
          /\ UNCHANGED <<kind, native, binding, fd, slot, heap, edge, calls, client, orderly>>
      BY <1>6 DEF UartCloseWorker
    <2>2. orderly => /\ OrderlyInv /\ Used = {} /\ faults = {} /\ n \in InFlight /\ native = "live"
      BY <2>1, UnderWay
    <2>3. orderly => poll # "raw"
      <3>1. orderly => client = "closed" BY <2>1, <2>2 DEF OrderlyInv, Opening
      <3> QED BY <2>1, <2>2, <3>1 DEF OrderlyInv, OpenedWell, Ready
    <2>4. orderly => faults' = {} BY <2>1, <2>2, <2>3 DEF UartCloseFaults
    <2>5. orderly => PollState' BY <2>1, <2>2 DEF OrderlyInv, PollState, UartHandleClose
    <2>6. orderly => (Ready => Ready') BY <2>1, <2>3 DEF Ready, UartHandleClose
    <2>7. heap' = IF kind = "i2c" /\ req[n].op = "write" THEN heap \ {n}
                  ELSE IF kind = "i2c" /\ req[n].op = "read" THEN heap \cup {n} ELSE heap
      BY <2>1
    <2> QED BY <2>1, <2>4, <2>5, <2>6, <2>7, Ended
  <1>7. ASSUME NEW n \in Calls, UartAfterWorker(n) PROVE DeviceInv'
    <2>1. /\ Answer("uart", n, req[n].seen, TRUE) /\ UNCHANGED <<native, slot>>
          /\ binding' = (binding /\ req[n].op # "close")
          /\ IF req[n].op = "write"
             THEN /\ heap' = heap \ {slot["buf"]}
                  /\ faults' = faults \cup Used \cup Freed(slot["buf"])
             ELSE UNCHANGED <<heap, faults>>
      BY <1>7 DEF UartAfterWorker, Forget
    <2>2. kind = "uart" /\ req[n].st = "done" BY <2>1 DEF Answer
    <2>3. /\ req[n] \in DeviceRequest /\ n \in InFlight
          /\ orderly => OrderlyInv /\ Used = {} /\ faults = {}
      BY <2>2, UnderWay
    <2>4. req[n].seen \in Nat BY ONLY <2>3 DEF DeviceRequest
    <2>5. orderly /\ req[n].op \in DataOps => req[n].seen = n
      BY <2>2, <2>3 DEF OrderlyInv, Slots
    <2>6. orderly /\ req[n].op = "write" => slot["buf"] = n /\ n \in heap
      BY <2>2, <2>3 DEF OrderlyInv, HeapOwned, Buffered, DataOps, Slots, FieldOf
    <2>7. orderly => faults' = {} BY <2>1, <2>3, <2>6 DEF Freed
    <2>8. orderly => heap' = IF Buffered(req[n].op) \/ (kind = "i2c" /\ req[n].op = "read" /\ req[n].ok)
                             THEN heap \ {n} ELSE heap
      BY <2>1, <2>2, <2>6 DEF Buffered
    <2>9. heap' \subseteq heap BY <2>1
    <2> QED BY <1>0, <2>1, <2>2, <2>4, <2>5, <2>7, <2>8, <2>9, Answered
  <1> QED BY <1>1, <1>2, <1>3, <1>4, <1>5, <1>6, <1>7 DEF UartCall, UartStep

\* I2C: every request has its own buffer, and close releases the instance at once.
LEMMA I2cKept ==
    DeviceInv /\ (I2cCall \/ \E n \in Calls : I2cStep(n)) => DeviceInv'
  <1> SUFFICES ASSUME DeviceInv, I2cCall \/ \E n \in Calls : I2cStep(n)
               PROVE  DeviceInv'
    OBVIOUS
  <1>0. /\ slot \in [Fields -> Nat] /\ heap \subseteq Calls /\ binding \in BOOLEAN
        /\ calls \in Nat
    BY DEF DeviceInv, DeviceTypes
  <1>1. CASE I2cCons BY <1>1, Constructed DEF I2cCons, I2cAsync, I2cReqwrap
  <1>2. CASE I2cSetAddress BY <1>0, <1>2, PlainCall DEF I2cSetAddress
  <1>3. ASSUME NEW op \in {"write", "read"}, Enter("i2c"), I2cAsync(op),
               heap' = IF op = "write" THEN heap \cup {calls + 1} ELSE heap,
               faults' = faults \cup Used,
               UNCHANGED <<native, binding, fd, slot, poll, edge, client>>
        PROVE  DeviceInv'
    <2>1. kind = "i2c" /\ op \in {"close"} \cup DataOps /\ op # "close" /\ calls + 1 \in Calls
      BY <1>0, <1>3, MaxCallsAssumption DEF Enter, DataOps, Calls
    <2>2. CallTypes BY <1>0, <1>3, <2>1 DEF CallTypes
    <2>3. heap' = IF Buffered(op) \/ (kind = "i2c" /\ op = "write")
                  THEN heap \cup {calls + 1} ELSE heap
      BY <1>3, <2>1 DEF Buffered
    <2> QED BY <1>3, <2>1, <2>2, <2>3, AsyncCall DEF I2cAsync, I2cReqwrap
  <1>4. CASE I2cWrite BY <1>3, <1>4 DEF I2cWrite
  <1>5. CASE I2cRead BY <1>3, <1>5 DEF I2cRead
  <1>6. CASE I2cClose
    <2>1. /\ Enter("i2c") /\ native' = "freed" /\ faults' = faults \cup Used /\ client' = "closed"
          /\ UNCHANGED <<binding, slot, heap, poll, edge, req>>
      BY <1>6 DEF I2cClose
    <2>2. CallTypes BY <1>0, <2>1 DEF CallTypes, Enter
    <2>3. ASSUME orderly' PROVE faults' = {} /\ Ready' /\ PollState'
      <3>1. OrderlyInv /\ Used = {} /\ faults = {} /\ Ready BY <2>1, <2>3, OrderlyCall
      <3>2. kind' = "i2c" /\ kind = "i2c" BY <2>1 DEF Enter
      <3> QED BY <2>1, <3>1, <3>2 DEF OrderlyInv, PollState, Ready
    <2> QED BY <2>1, <2>2, <2>3, SyncCall
  <1>7. ASSUME NEW n \in Calls, NEW op \in {"open", "write", "read"}, NEW ok \in BOOLEAN,
               WorkerEnds("i2c", n, {op}, ok),
               heap' = IF op = "write" THEN heap \ {n} ELSE IF op = "read" THEN heap \cup {n} ELSE heap,
               UNCHANGED <<kind, native, binding, slot, poll, edge, calls, client, orderly>>
        PROVE  DeviceInv'
    <2>1. kind = "i2c" /\ req[n].op = op /\ req[n].st = "running" BY <1>7 DEF WorkerEnds
    <2>2. ASSUME orderly, OrderlyInv
          PROVE  /\ PollState'
                 /\ req[n].op = "open" /\ ok => Ready'
                 /\ req[n].op # "open" => edge' = edge /\ (Ready => Ready')
      <3>1. n \in InFlight BY <2>1 DEF InFlight
      <3>2. req[n].op = "open" => edge = "none" BY <2>1, <2>2, <3>1 DEF OrderlyInv, EdgeState
      <3> QED BY <1>7, <2>1, <2>2, <3>2 DEF OrderlyInv, PollState, Ready
    <2> QED BY <1>7, <2>1, <2>2, WorkerKept
  <1>8. ASSUME NEW n \in Calls, I2cAfterWork(n) PROVE DeviceInv'
    <2>1. /\ Answer("i2c", n, n, TRUE) /\ UNCHANGED <<native, binding, slot, faults>>
          /\ heap' = IF req[n].op = "read" /\ req[n].ok THEN heap \ {n} ELSE heap
      BY <1>8 DEF I2cAfterWork
    <2>2. kind = "i2c" /\ req[n].st = "done" BY <2>1 DEF Answer
    <2>3. n \in Nat BY DEF Calls
    <2>4. orderly => faults' = {} BY <2>1, <2>2, UnderWay
    <2>5. heap' = IF Buffered(req[n].op) \/ (kind = "i2c" /\ req[n].op = "read" /\ req[n].ok)
                  THEN heap \ {n} ELSE heap
      BY <2>1, <2>2 DEF Buffered
    <2> QED BY <1>0, <2>1, <2>2, <2>3, <2>4, <2>5, Answered
  <1> QED
    BY <1>1, <1>2, <1>4, <1>5, <1>6, <1>7, <1>8
       DEF I2cCall, I2cStep, I2cOpenWorker, I2cWriteWorker, I2cReadWorker

\* ADC: the instance is released when a close has been answered, or by closeSync.
LEMMA AdcKept ==
    DeviceInv /\ (AdcCall \/ \E n \in Calls : AdcStep(n)) => DeviceInv'
  <1> SUFFICES ASSUME DeviceInv, AdcCall \/ \E n \in Calls : AdcStep(n)
               PROVE  DeviceInv'
    OBVIOUS
  <1>0. /\ slot \in [Fields -> Nat] /\ heap \subseteq Calls /\ binding \in BOOLEAN
    BY DEF DeviceInv, DeviceTypes
  <1>1. CASE AdcConstructor BY <1>1, Constructed DEF AdcConstructor, AdcAsync, AdcReqwrap
  <1>2. ASSUME NEW op \in {"read", "close"}, Enter("adc"), AdcAsync(op),
               client' = IF op = "close" THEN "closed" ELSE client, faults' = faults \cup Used,
               UNCHANGED <<native, binding, fd, slot, heap, poll, edge>>
        PROVE  DeviceInv'
    <2>1. kind = "adc" /\ op \in {"close"} \cup DataOps BY <1>2 DEF Enter, DataOps
    <2>2. CallTypes BY <1>0, <1>2 DEF CallTypes
    <2>3. heap' = IF Buffered(op) \/ (kind = "i2c" /\ op = "write")
                  THEN heap \cup {calls + 1} ELSE heap
      BY <1>2, <2>1 DEF Buffered
    <2> QED BY <1>2, <2>1, <2>2, <2>3, AsyncCall DEF AdcAsync, AdcReqwrap
  <1>3. CASE AdcRead BY <1>2, <1>3 DEF AdcRead
  <1>4. CASE AdcReadSync BY <1>0, <1>4, PlainCall DEF AdcReadSync
  <1>5. CASE AdcClose BY <1>2, <1>5 DEF AdcClose
  <1>6. CASE AdcCloseSync
    <2>1. /\ Enter("adc") /\ kind = "adc" /\ native' = "freed" /\ faults' = faults \cup Used
          /\ client' = "closed" /\ UNCHANGED <<binding, fd, slot, heap, poll, edge, req>>
      BY <1>6 DEF AdcCloseSync, Enter
    <2> QED BY <1>0, <2>1, PlainCall
  <1>7. ASSUME NEW n \in Calls, AdcOpenWorker(n) \/ AdcReadWorker(n) \/ AdcCloseWorker(n)
        PROVE  DeviceInv'
    BY <1>7, PlainWorker
       DEF AdcOpenWorker, AdcReadWorker, AdcCloseWorker, CheckPath, AdcPlatformRead, OpenReadClose
  <1>8. ASSUME NEW n \in Calls, AdcAfterWork(n) PROVE DeviceInv'
    <2>1. /\ Answer("adc", n, n, TRUE) /\ UNCHANGED <<binding, slot, heap>>
          /\ IF req[n].op = "close"
             THEN native' = "freed" /\ faults' = faults \cup Used
             ELSE UNCHANGED <<native, faults>>
      BY <1>8 DEF AdcAfterWork
    <2>2. kind = "adc" /\ req[n].st = "done" BY <2>1 DEF Answer
    <2>3. n \in Nat BY DEF Calls
    <2>4. orderly => faults' = {} BY <2>1, <2>2, UnderWay
    <2>5. heap' = IF Buffered(req[n].op) \/ (kind = "i2c" /\ req[n].op = "read" /\ req[n].ok)
                  THEN heap \ {n} ELSE heap
      BY <2>1, <2>2 DEF Buffered
    <2> QED BY <1>0, <2>1, <2>2, <2>3, <2>4, <2>5, Answered
  <1> QED
    BY <1>1, <1>3, <1>4, <1>5, <1>6, <1>7, <1>8 DEF AdcCall, AdcStep

-----------------------------------------------------------------------------
(* What no call and no request asks for.                                   *)

\* A step of uv or of the edge detection thread, which leaves the requests alone
LEMMA Background ==
    ASSUME DeviceInv, native # "none", native' \in {native, "freed"},
           UNCHANGED <<kind, binding, slot, heap, req, calls, client, orderly>>,
           orderly /\ OrderlyInv =>
               /\ faults' = {} /\ PollState' /\ OpenedWell' /\ EdgeState'
               /\ native' # native =>
                    ~binding /\ InFlight = {} /\ client \in {"new", "closed", "exited"},
           orderly /\ LostInv => faults' \subseteq LostFaults' /\ PollState'
    PROVE  DeviceInv'
  <1>1. DeviceTypes' BY DEF DeviceInv, DeviceTypes
  <1>2. native' # "none" OBVIOUS
  <1>3. Unused' BY <1>2 DEF DeviceInv, Unused
  <1>4. OwnAnswer' BY DEF DeviceInv, OwnAnswer
  <1>5. ASSUME orderly', OrderlyInv PROVE OrderlyInv'
    <2>1. orderly /\ OrderlyInv BY <1>5
    <2>2. InFlight' = InFlight BY DEF InFlight
    <2>3. OneRequest' BY <2>1, <2>2 DEF OrderlyInv, OneRequest
    <2>4. Opening' BY <2>1, <2>2 DEF OrderlyInv, Opening
    <2>5. Slots' BY <2>1, <2>2 DEF OrderlyInv, Slots
    <2>6. HeapOwned' BY <2>1, <2>2 DEF OrderlyInv, HeapOwned, Buffered
    <2> QED BY <2>1, <2>3, <2>4, <2>5, <2>6 DEF OrderlyInv
  <1>6. ASSUME orderly', LostInv PROVE LostInv'
    <2>1. InFlight' = InFlight BY DEF InFlight
    <2> QED BY <1>6, <2>1 DEF LostInv
  <1> QED BY <1>1, <1>3, <1>4, <1>5, <1>6 DEF DeviceInv

\* uv closes the handle of a UART, or reads from it, while the instance lives.
LEMMA UartHandleKept == DeviceInv /\ (UartOnClose \/ UartReadCb) => DeviceInv'
  <1> SUFFICES ASSUME DeviceInv, UartOnClose \/ UartReadCb PROVE DeviceInv'
    OBVIOUS
  <1>1. /\ poll \in {"active", "closing"} /\ UNCHANGED edge
        /\ UNCHANGED <<kind, native, binding, slot, heap, req, calls, client, orderly>>
    BY DEF UartOnClose, UartReadCb
  <1>2. native \in {"live", "freed"} BY <1>1 DEF DeviceInv, DeviceTypes, Unused
  <1>3. ASSUME orderly, OrderlyInv
        PROVE  faults' = {} /\ PollState' /\ OpenedWell' /\ EdgeState'
    <2>1. PollState /\ faults = {} /\ OpenedWell /\ EdgeState BY <1>3 DEF OrderlyInv
    <2>2. kind = "uart" /\ native = "live" /\ Used = {}
      BY <1>1, <1>2, <2>1 DEF PollState, Used
    <2>3. InFlight' = InFlight BY <1>1 DEF InFlight
    <2>4. EdgeState' BY <1>1, <2>1, <2>3 DEF EdgeState
    <2>5. CASE UartOnClose
      <3>1. Ready => Ready' BY <1>1, <2>2, <2>5 DEF Ready, UartOnClose
      <3>2. OpenedWell' BY <1>1, <2>1, <2>3, <3>1 DEF OpenedWell
      <3>3. PollState' BY <1>1, <2>2, <2>5 DEF PollState, UartOnClose
      <3> QED BY <2>1, <2>2, <2>4, <2>5, <3>2, <3>3 DEF UartOnClose
    <2>6. CASE UartReadCb
      <3>1. UNCHANGED <<poll, fd>> /\ poll = "active" BY <2>6 DEF UartReadCb
      <3>2. OpenedWell' BY <1>1, <2>1, <2>3, <3>1 DEF OpenedWell, Ready
      <3>3. PollState' BY <1>1, <2>1, <3>1 DEF PollState
      <3>4. fd = "open" BY <2>1, <3>1 DEF PollState
      <3> QED BY <2>1, <2>2, <2>4, <2>6, <3>2, <3>3, <3>4 DEF UartReadCb
    <2> QED BY <2>5, <2>6
  <1>4. ASSUME orderly, LostInv PROVE faults' \subseteq LostFaults' /\ PollState'
    <2>1. PollState /\ faults \subseteq LostFaults BY <1>4 DEF LostInv
    <2>2. kind = "uart" /\ native = "live" /\ Used = {}
      BY <1>1, <1>2, <2>1 DEF PollState, Used
    <2>3. LostFaults' = LostFaults BY <1>1 DEF LostFaults
    <2>4. CASE UartOnClose BY <1>1, <2>1, <2>2, <2>3, <2>4 DEF PollState, UartOnClose
    <2>5. CASE UartReadCb BY <1>1, <2>1, <2>2, <2>3, <2>5 DEF PollState, UartReadCb
    <2> QED BY <2>4, <2>5
  <1> QED BY <1>1, <1>2, <1>3, <1>4, Background

\* The edge detection thread outlives only an open that has failed, and then the
\* instance is not released.
LEMMA EdgeKept == DeviceInv /\ EdgeThread => DeviceInv'
  <1> SUFFICES ASSUME DeviceInv, EdgeThread PROVE DeviceInv'
    OBVIOUS
  <1>1. /\ edge # "none" /\ edge' # "none" /\ UNCHANGED <<poll, fd>>
        /\ faults' \in {faults, faults \cup Used}
        /\ UNCHANGED <<kind, native, binding, slot, heap, req, calls, client, orderly>>
    BY DEF EdgeThread, EdgeStart, EdgePoll, EdgeEmit
  <1>2. native # "none" BY <1>1 DEF DeviceInv, Unused
  <1>3. ASSUME orderly, OrderlyInv
        PROVE  faults' = {} /\ PollState' /\ OpenedWell' /\ EdgeState'
    <2>1. PollState /\ faults = {} /\ OpenedWell /\ EdgeState BY <1>3 DEF OrderlyInv
    <2>2. client \in {"opening", "failed"} BY <1>1, <2>1 DEF EdgeState
    <2>3. native = "live" BY <1>3, <2>2 DEF OrderlyInv, Opening
    <2>4. faults' = {} BY <1>1, <2>1, <2>3 DEF Used
    <2>5. InFlight' = InFlight BY <1>1 DEF InFlight
    <2>6. PollState' BY <1>1, <2>1 DEF PollState
    <2>7. OpenedWell' BY <1>1, <2>1, <2>2, <2>5 DEF OpenedWell, Ready
    <2>8. EdgeState' BY <1>1, <2>1, <2>2, <2>5 DEF EdgeState
    <2> QED BY <2>4, <2>6, <2>7, <2>8
  <1>4. ASSUME orderly, LostInv PROVE faults' \subseteq LostFaults' /\ PollState'
    <2>1. PollState /\ faults \subseteq LostFaults BY <1>4 DEF LostInv
    <2>2. LostFaults' = LostFaults /\ Used \subseteq LostFaults BY <1>1 DEF LostFaults, Used
    <2>3. PollState' BY <1>1, <2>1 DEF PollState
    <2> QED BY <1>1, <2>1, <2>2, <2>3
  <1> QED BY <1>1, <1>2, <1>3, <1>4, Background

\* The garbage collector releases an instance that no request and no thread uses.
LEMMA CollectKept == DeviceInv /\ Collect => DeviceInv'
  <1> SUFFICES ASSUME DeviceInv, Collect PROVE DeviceInv'
    OBVIOUS
  <1>1. /\ native = "live" /\ ~binding /\ native' = "freed" /\ (kind = "uart" => poll = "closed")
        /\ UNCHANGED <<kind, binding, fd, slot, heap, poll, edge, req, calls, faults, client, orderly>>
    BY DEF Collect
  <1>2. ASSUME orderly, OrderlyInv
        PROVE  /\ faults' = {} /\ PollState' /\ OpenedWell' /\ EdgeState'
               /\ InFlight = {} /\ client \in {"new", "closed", "exited"}
    <2>1. InFlight = {} BY <1>1, <1>2 DEF OrderlyInv, OneRequest
    <2>2. client \in {"new", "closed", "exited"}
      BY <1>1, <1>2 DEF OrderlyInv, Opening, DeviceInv, DeviceTypes
    <2>3. InFlight' = InFlight BY <1>1 DEF InFlight
    <2>4. PollState' BY <1>1, <1>2 DEF OrderlyInv, PollState
    <2>5. OpenedWell' /\ EdgeState'
      BY <1>1, <1>2, <2>3 DEF OrderlyInv, OpenedWell, EdgeState, Ready
    <2> QED BY <1>1, <1>2, <2>1, <2>2, <2>4, <2>5 DEF OrderlyInv
  <1>3. ASSUME orderly, LostInv PROVE faults' \subseteq LostFaults' /\ PollState'
    BY <1>1, <1>3 DEF LostInv, LostFaults, PollState
  <1> QED BY <1>1, <1>2, <1>3, Background

\* The 'exit' listener closes an open device well, and one that could not be opened as
\* LostFaults says.
LEMMA ExitKept ==
    ASSUME DeviceInv, NEW k \in {"gpio", "pwm", "spi", "uart"}, ExitListener(k),
           binding' \in BOOLEAN, UNCHANGED <<native, slot, heap, edge, req>>,
           Used = {} => faults' \subseteq faults \cup LostFaults,
           Used = {} /\ Ready => faults' = faults /\ Ready',
           PollState /\ native = "live" => PollState'
    PROVE  DeviceInv'
  <1>1. /\ kind = k /\ binding /\ client \notin {"exited", "lost"}
        /\ client' = IF client \in {"open", "closed"} THEN "exited" ELSE "lost"
        /\ orderly' = (orderly /\ InFlight = {}) /\ UNCHANGED <<kind, calls>>
    BY DEF ExitListener
  <1>2. DeviceTypes' BY <1>1 DEF DeviceInv, DeviceTypes
  <1>3. native # "none" BY <1>1 DEF DeviceInv, Unused
  <1>4. Unused' BY <1>1, <1>3 DEF DeviceInv, Unused
  <1>5. OwnAnswer' BY <1>1 DEF DeviceInv, OwnAnswer, DeviceTypes
  <1>6. ASSUME orderly' PROVE OrderlyInv' \/ LostInv'
    <2>1. orderly /\ InFlight = {} /\ OrderlyInv BY <1>1, <1>6 DEF DeviceInv, LostInv, DeviceTypes
    <2>2. native = "live" /\ Used = {} /\ faults = {} BY <1>1, <2>1 DEF OrderlyInv, Opening, Used
    <2>3. InFlight' = {} BY <2>1 DEF InFlight
    <2>4. PollState' BY <2>1, <2>2 DEF OrderlyInv
    <2>5. heap = {} BY <1>1, <2>1 DEF OrderlyInv, HeapOwned
    <2>6. CASE client \notin {"open", "closed"}
      <3>1. LostFaults' = LostFaults BY <1>1 DEF LostFaults
      <3> QED BY <1>1, <2>2, <2>3, <2>4, <2>5, <2>6, <3>1 DEF LostInv
    <2>7. CASE client \in {"open", "closed"}
      <3>2. Ready BY <2>1, <2>7 DEF OrderlyInv, OpenedWell
      <3>3. faults' = {} /\ Ready' /\ edge = "none" BY <2>2, <3>2 DEF Ready
      <3>4. client' = "exited" BY <1>1, <2>7
      <3>5. OneRequest' /\ Slots' /\ HeapOwned'
        BY <2>3, <2>5 DEF OneRequest, Slots, HeapOwned
      <3>6. Opening' BY <2>2, <2>3, <3>4 DEF Opening
      <3>7. OpenedWell' /\ EdgeState' BY <2>3, <3>3, <3>4 DEF OpenedWell, EdgeState
      <3> QED BY <2>4, <3>3, <3>5, <3>6, <3>7 DEF OrderlyInv
    <2> QED BY <2>6, <2>7
  <1> QED BY <1>2, <1>4, <1>5, <1>6 DEF DeviceInv

\* So do the listeners of the four devices that have one.
LEMMA OnExitKept == DeviceInv /\ DeviceOnExit => DeviceInv'
  <1> SUFFICES ASSUME DeviceInv, DeviceOnExit PROVE DeviceInv'
    OBVIOUS
  <1>1. CASE GpioOnExit
    <2> PICK ok \in OpenWriteClose :
          /\ faults' = faults \cup Used /\ GpioPlatformClose /\ binding' = ~ok
          /\ UNCHANGED <<native, slot, heap, poll, edge, req>>
      BY <1>1 DEF GpioOnExit, GpioCloseSync
    <2>1. ExitListener("gpio") /\ kind = "gpio" /\ kind' = "gpio"
      BY <1>1 DEF GpioOnExit, ExitListener
    <2>2. (Ready => Ready') /\ (PollState /\ native = "live" => PollState')
      BY <2>1 DEF Ready, PollState
    <2> QED BY <2>1, <2>2, ExitKept
  <1>2. CASE PwmOnExit
    <2>1. /\ ExitListener("pwm") /\ kind' = kind /\ faults' = faults \cup Used /\ binding' = FALSE
          /\ UNCHANGED <<native, fd, slot, heap, poll, edge, req>>
      BY <1>2 DEF PwmOnExit, PwmCloseSync, ExitListener
    <2>2. (Ready => Ready') /\ (PollState => PollState') BY <2>1 DEF Ready, PollState
    <2> QED BY <2>1, <2>2, ExitKept
  <1>3. CASE SpiOnExit
    <2> PICK ok \in BOOLEAN :
          /\ SpiPlatformClose(ok) /\ binding' = ~(ok \/ fd = "none")
          /\ faults' = faults \cup Used \cup SpiCloseFaults /\ UNCHANGED req
      BY <1>3 DEF SpiOnExit, SpiCloseSync
    <2>1. /\ ExitListener("spi") /\ kind = "spi" /\ kind' = "spi"
          /\ UNCHANGED <<native, slot, heap, poll, edge>>
      BY <1>3 DEF SpiOnExit, ExitListener
    <2>2. SpiCloseFaults \subseteq LostFaults BY <2>1 DEF SpiCloseFaults, LostFaults
    <2>3. Ready => SpiCloseFaults = {} /\ Ready'
      BY <2>1 DEF Ready, SpiCloseFaults, SpiPlatformClose
    <2>4. PollState /\ native = "live" => PollState' BY <2>1 DEF PollState
    <2> QED BY <2>1, <2>2, <2>3, <2>4, ExitKept
  <1>4. CASE UartOnExit
    <2>1. /\ ExitListener("uart") /\ kind = "uart" /\ kind' = "uart" /\ binding' = FALSE
          /\ UartHandleClose /\ faults' = faults \cup Used \cup UartCloseFaults
          /\ UNCHANGED <<native, fd, slot, heap, edge, req>>
      BY <1>4 DEF UartOnExit, UartCloseSync, ExitListener
    <2>2. UartCloseFaults \subseteq LostFaults BY <2>1 DEF UartCloseFaults, LostFaults
    <2>3. Ready => UartCloseFaults = {} /\ Ready'
      BY <2>1 DEF Ready, UartCloseFaults, UartHandleClose
    <2>4. PollState /\ native = "live" => PollState' BY <2>1 DEF PollState, UartHandleClose
    <2> QED BY <2>1, <2>2, <2>3, <2>4, ExitKept
  <1> QED BY <1>1, <1>2, <1>3, <1>4 DEF DeviceOnExit

-----------------------------------------------------------------------------
\* The device of DeviceInit satisfies the invariant.
LEMMA DeviceStarts == DeviceInit => DeviceInv
  <1> SUFFICES ASSUME DeviceInit PROVE DeviceInv
    OBVIOUS
  <1>1. NoRequest \in DeviceRequest /\ NoRequest.st = "none" BY DEF NoRequest, DeviceRequest
  <1>2. /\ req = [n \in Calls |-> NoRequest] /\ calls = 0 /\ native = "none" /\ heap = {}
        /\ kind \in Kinds /\ binding = FALSE /\ slot = [f \in Fields |-> 0]
        /\ poll = "raw" /\ edge = "none" /\ faults = {} /\ client = "new" /\ orderly = TRUE
    BY DEF DeviceInit
  <1> HIDE DEF NoRequest
  <1>3. /\ req \in [Calls -> DeviceRequest]
        /\ \A n \in Calls : req[n] = NoRequest /\ req[n].st = "none"
    BY <1>1, <1>2
  <1>4. InFlight = {} BY <1>3 DEF InFlight
  <1>5. DeviceTypes
    <2>1. calls \in 0 .. MaxCalls BY <1>2, MaxCallsAssumption
    <2>2. slot \in [Fields -> Nat] BY <1>2
    <2> QED BY <1>2, <1>3, <2>1, <2>2 DEF DeviceTypes
  <1>6. Unused BY <1>2, <1>3 DEF Unused
  <1>7. OwnAnswer BY <1>3 DEF OwnAnswer
  <1>8. OneRequest /\ Opening /\ OpenedWell /\ EdgeState /\ Slots
    BY <1>2, <1>4 DEF OneRequest, Opening, OpenedWell, EdgeState, Slots
  <1>9. PollState /\ HeapOwned BY <1>2, <1>4 DEF PollState, HeapOwned
  <1> QED BY <1>2, <1>5, <1>6, <1>7, <1>8, <1>9 DEF DeviceInv, OrderlyInv

\* DeviceInv holds in every state of every device, for any number of calls: an orderly
\* application has one request under way at most, on a live instance.
THEOREM DeviceInvariant == DeviceSpec => []DeviceInv
  <1>1. DeviceInv /\ [DeviceNext]_devVars => DeviceInv'
    <2> SUFFICES ASSUME DeviceInv, [DeviceNext]_devVars PROVE DeviceInv'
      OBVIOUS
    <2>1. CASE DeviceCall
      BY <2>1, GpioKept, PwmKept, SpiKept, UartKept, I2cKept, AdcKept DEF DeviceCall
    <2>2. ASSUME NEW n \in Calls, DeviceStep(n) PROVE DeviceInv'
      BY <2>2, Started, GpioKept, PwmKept, SpiKept, UartKept, I2cKept, AdcKept DEF DeviceStep
    <2>3. CASE UartOnClose \/ UartReadCb BY <2>3, UartHandleKept
    <2>4. CASE EdgeThread BY <2>4, EdgeKept
    <2>5. CASE Collect BY <2>5, CollectKept
    <2>7. CASE DeviceOnExit BY <2>7, OnExitKept
    <2>6. CASE UNCHANGED devVars
      <3>1. UNCHANGED <<kind, native, binding, fd, slot, heap, poll, edge, req, calls,
                        faults, client, orderly>>
        BY <2>6 DEF devVars
      <3>2. InFlight' = InFlight BY <3>1 DEF InFlight
      <3>3. DeviceTypes' /\ Unused' /\ OwnAnswer'
        BY <3>1 DEF DeviceInv, DeviceTypes, Unused, OwnAnswer
      <3>4. ASSUME orderly', OrderlyInv PROVE OrderlyInv'
        <4>1. OrderlyInv BY <3>4
        <4>2. OneRequest' /\ Opening' BY <3>1, <3>2, <4>1 DEF OrderlyInv, OneRequest, Opening
        <4>3. OpenedWell' /\ EdgeState'
          BY <3>1, <3>2, <4>1 DEF OrderlyInv, OpenedWell, EdgeState, Ready
        <4>4. PollState' BY <3>1, <4>1 DEF OrderlyInv, PollState
        <4>5. Slots' BY <3>1, <3>2, <4>1 DEF OrderlyInv, Slots
        <4>6. HeapOwned' BY <3>1, <3>2, <4>1 DEF OrderlyInv, HeapOwned, Buffered
        <4> QED BY <3>1, <4>1, <4>2, <4>3, <4>4, <4>5, <4>6 DEF OrderlyInv
      <3>5. ASSUME LostInv PROVE LostInv'
        BY <3>1, <3>2, <3>5 DEF LostInv, LostFaults, PollState
      <3> QED BY <3>1, <3>3, <3>4, <3>5 DEF DeviceInv
    <2> QED BY <2>1, <2>2, <2>3, <2>4, <2>5, <2>6, <2>7 DEF DeviceNext
  <1> QED BY <1>1, DeviceStarts, PTL DEF DeviceSpec

\* For every kind of device and any number of calls: no worker, callback, collection or
\* 'exit' listener uses released memory, a closed descriptor or an uninitialised handle
\* while the application is orderly, except as LostFaults says when the process ends
\* after a failed open; no buffer is left but those of failed I2C reads, and an answer
\* of PWM, SPI and UART carries the data of its own request (iotjs_reqwrap.c,
\* iotjs_objectwrap.c, the workers of the six bindings and the listeners of their
\* JavaScript modules).
THEOREM DevicesAreSafe == DeviceSpec => []DevicesSafe
  <1>1. DeviceInv => DevicesSafe
    <2> SUFFICES ASSUME DeviceInv PROVE SafeWhenOrderly
      BY DEF DeviceInv, DevicesSafe
    <2>1. CASE orderly /\ OrderlyInv
      <3>1. faults = {} /\ HeapOwned /\ heap \subseteq Calls
        BY <2>1 DEF DeviceInv, OrderlyInv, DeviceTypes
      <3>2. ASSUME InFlight = {}, NEW n \in heap
            PROVE  kind = "i2c" /\ req[n].op = "read" /\ ~req[n].ok
        <4>1. req[n].st \notin {"queued", "running", "done"} BY <3>1, <3>2 DEF InFlight
        <4> QED BY <3>1, <3>2, <4>1 DEF HeapOwned
      <3> QED BY <3>1, <3>2 DEF SafeWhenOrderly
    <2>2. CASE orderly /\ LostInv BY <2>2 DEF SafeWhenOrderly, LostInv
    <2> QED BY <2>1, <2>2 DEF DeviceInv, SafeWhenOrderly
  <1> QED BY <1>1, DeviceInvariant, PTL

-----------------------------------------------------------------------------
(* UDP sockets *)

\* A UDP socket alone
DgramSpec == DgramInit /\ [][DgramNext]_udp

Udp == [handle : BOOLEAN, bind : {"unbound", "binding", "bound"}, hasQueue : BOOLEAN,
        queue : Seq(0 .. MaxSends), receiving : BOOLEAN, uv : {"open", "closing", "closed"},
        recv : BOOLEAN, binding : BOOLEAN, asked : SUBSET Sends, onWire : SUBSET Sends,
        failed : SUBSET Sends, told : [Sends -> {0, 1}], sends : 0 .. MaxSends, closes : Nat,
        closed : Nat, lateSend : BOOLEAN, thrown : BOOLEAN]

\* Entry e waits in the queue q
Waits(q, e) == \E i \in 1 .. Len(q) : q[i] = e

\* There is a queue only between the bind and its answer, or after a bind that failed
BindState(d) ==
    /\ d.hasQueue => d.handle /\ d.bind # "bound"
    /\ ~d.hasQueue => d.queue = << >>
    /\ d.binding => d.bind = "binding"
    /\ d.bind = "binding" => d.binding \/ ~d.handle
    /\ d.thrown => d.bind = "bound" /\ (d.lateSend \/ d.closes > 1)

\* A close was carried out once or waits in the queue
CloseState(d) ==
    /\ d.handle <=> d.uv = "open"
    /\ d.closed = IF d.handle THEN 0 ELSE 1
    /\ d.closes > 0 <=> ~d.handle \/ Waits(d.queue, ToClose)

\* What is behind a close in the queue
BehindClose(d) ==
    \A i \in 1 .. Len(d.queue), j \in 1 .. Len(d.queue) :
        d.queue[i] = ToClose /\ i < j =>
            IF d.queue[j] = ToClose THEN d.closes > 1 ELSE d.lateSend

\* Datagram n is in one place at most, and in one unless the socket was closed
Exclusive(d, n) ==
    /\ d.told[n] = 1 => n \notin d.asked \cup d.onWire \cup d.failed /\ ~Waits(d.queue, n)
    /\ n \in d.asked => n \notin d.onWire \cup d.failed /\ ~Waits(d.queue, n)
    /\ n \in d.onWire => n \notin d.failed /\ ~Waits(d.queue, n)
    /\ n \in d.failed => ~Waits(d.queue, n)
Somewhere(d, n) ==
    d.told[n] = 1 \/ n \in d.asked \cup d.onWire \cup d.failed \/ Waits(d.queue, n)

\* Only what was sent is anywhere, and all of it is until a close
SendState(d) ==
    /\ \A n \in Sends : Exclusive(d, n) /\ (Somewhere(d, n) => n <= d.sends)
    /\ d.closes = 0 => \A n \in Sends : n <= d.sends => Somewhere(d, n)

\* No datagram is in the queue twice
Once(d) ==
    \A i \in 1 .. Len(d.queue), j \in 1 .. Len(d.queue) :
        d.queue[i] = d.queue[j] /\ d.queue[i] # ToClose => i = j

Sound(d) == d \in Udp /\ BindState(d) /\ CloseState(d) /\ BehindClose(d) /\ SendState(d) /\ Once(d)

DgramInv == Sound(udp)

-----------------------------------------------------------------------------
(* The loop of clearQueue *)

\* after is what FlushQueue computes: the socket after the first k entries of q
IsRun(after, d, q, k) ==
    after = [i \in 0 .. k |-> IF i = 0 THEN d ELSE FlushEntry(after[i - 1], q[i])]

LEMMA RunExists ==
    ASSUME NEW d, NEW q, Len(q) \in Nat, NEW n \in 0 .. Len(q)
    PROVE  \E after : IsRun(after, d, q, n)
  <1> DEFINE T == {k \in 0 .. Len(q) : ~\E after : IsRun(after, d, q, k)}
  <1> SUFFICES ASSUME T # {} PROVE FALSE OBVIOUS
  <1>1. T \subseteq Nat OBVIOUS
  <1>2. PICK k \in T : \A y \in T : k <= y
    <2> HIDE DEF T
    <2> QED BY <1>1, LeastNat
  <1>3. k \in 0 .. Len(q) /\ ~\E after : IsRun(after, d, q, k) OBVIOUS
  <1>4. CASE k = 0
    <2> DEFINE a == [i \in 0 .. 0 |-> d]
    <2>1. a = [i \in 0 .. 0 |-> IF i = 0 THEN d ELSE FlushEntry(a[i - 1], q[i])] OBVIOUS
    <2> HIDE DEF a
    <2>2. IsRun(a, d, q, 0) BY <2>1 DEF IsRun
    <2> QED BY <2>2, <1>3, <1>4
  <1>5. CASE k # 0
    <2>1. k - 1 \in 0 .. Len(q) /\ ~(k <= k - 1) /\ k \in Nat BY <1>3, <1>5
    <2>2. k - 1 \notin T
      <3> HIDE DEF T
      <3> QED BY <1>2, <2>1
    <2>3. PICK a : IsRun(a, d, q, k - 1) BY <2>1, <2>2
    <2> DEFINE u == [i \in 0 .. k |-> IF i = k THEN FlushEntry(a[k - 1], q[k]) ELSE a[i]]
    <2>4. \A i \in 0 .. k - 1 : a[i] = IF i = 0 THEN d ELSE FlushEntry(a[i - 1], q[i])
      BY <2>3 DEF IsRun
    <2>5. u[k] = FlushEntry(a[k - 1], q[k]) /\ \A i \in 0 .. k - 1 : u[i] = a[i]
      BY <2>1
    <2>6. \A i \in 0 .. k : u[i] = IF i = 0 THEN d ELSE FlushEntry(u[i - 1], q[i])
      <3> HIDE DEF u
      <3> TAKE i \in 0 .. k
      <3>1. CASE i = k
        <4>1. k - 1 \in 0 .. k - 1 /\ i # 0 BY <3>1, <2>1, <1>5
        <4> QED BY <4>1, <3>1, <2>5
      <3>2. CASE i # k
        <4>1. i \in 0 .. k - 1 /\ (i # 0 => i - 1 \in 0 .. k - 1) BY <3>2, <2>1
        <4> QED BY <4>1, <2>4, <2>5
      <3> QED BY <3>1, <3>2
    <2>7. u = [i \in 0 .. k |-> u[i]] OBVIOUS
    <2> HIDE DEF u
    <2>8. IsRun(u, d, q, k) BY <2>6, <2>7 DEF IsRun
    <2> QED BY <2>8, <1>3
  <1> QED BY <1>4, <1>5

\* There is a closing entry among the first i of q
ClosedBy(q, i) == \E j \in 1 .. i : q[j] = ToClose

\* What the first i entries of the queue of e have left of d, which is e without its queue
Flushing(e, d, q, i) ==
    /\ e \in Udp
    /\ e.bind = "bound" /\ ~e.hasQueue /\ e.queue = << >> /\ e.binding = d.binding
    /\ e.onWire = d.onWire /\ e.failed = d.failed /\ e.told = d.told
    /\ e.sends = d.sends /\ e.closes = d.closes /\ e.lateSend = d.lateSend
    /\ e.handle <=> ~ClosedBy(q, i)
    /\ e.uv = (IF e.handle THEN "open" ELSE "closing")
    /\ e.closed = (IF e.handle THEN 0 ELSE 1)
    /\ d.asked \subseteq e.asked
    /\ \A n \in e.asked : n \in d.asked \/ \E j \in 1 .. i : q[j] = n
    /\ e.handle => \A j \in 1 .. i : q[j] \in e.asked
    /\ e.thrown => \E j \in 1 .. i, l \in 1 .. i : j < l /\ q[j] = ToClose

LEMMA FlushOne ==
    ASSUME NEW q \in Seq(0 .. MaxSends), NEW d \in Udp, NEW i \in 1 .. Len(q), NEW e,
           Flushing(e, d, q, i - 1)
    PROVE  Flushing(FlushEntry(e, q[i]), d, q, i)
  <1> DEFINE f == FlushEntry(e, q[i])
  <1>1. /\ i \in Nat /\ i \in 1 .. i /\ q[i] \in 0 .. MaxSends
        /\ \A j \in 1 .. i - 1 : j \in 1 .. i /\ j < i
        /\ \A j \in 1 .. i : j = i \/ j \in 1 .. i - 1
    <2>1. Len(q) \in Nat OBVIOUS
    <2>2. i \in Nat /\ i \in 1 .. i BY <2>1
    <2>3. q[i] \in 0 .. MaxSends BY DgramAssumption
    <2> QED BY <2>2, <2>3
  <1>2. /\ e \in Udp /\ e.bind = "bound" /\ ~e.hasQueue /\ e.queue = << >>
    BY DEF Flushing
  <1>3. CASE e.thrown
    <2>1. f = e BY <1>3 DEF FlushEntry
    <2>2. PICK j \in 1 .. i - 1, l \in 1 .. i - 1 : j < l /\ q[j] = ToClose
      BY <1>3 DEF Flushing
    <2>3. ClosedBy(q, i - 1) /\ ClosedBy(q, i) BY <2>2, <1>1 DEF ClosedBy
    <2> QED BY <2>1, <2>2, <2>3, <1>1 DEF Flushing
  <1>4. CASE ~e.thrown /\ ClosedBy(q, i - 1)
    <2>1. ~e.handle BY <1>4 DEF Flushing
    <2>2. f = [e EXCEPT !.thrown = TRUE]
      BY <2>1, <1>2, <1>4 DEF FlushEntry, CloseCall, SendCall
    <2>3. PICK j \in 1 .. i - 1 : q[j] = ToClose BY <1>4 DEF ClosedBy
    <2>4. ClosedBy(q, i) BY <2>3, <1>1 DEF ClosedBy
    <2>5. \E k \in 1 .. i, l \in 1 .. i : k < l /\ q[k] = ToClose BY <2>3, <1>1
    <2> HIDE DEF f
    <2>6. /\ f \in Udp /\ f.handle = e.handle /\ f.bind = e.bind /\ f.hasQueue = e.hasQueue
          /\ f.queue = e.queue /\ f.binding = e.binding /\ f.asked = e.asked
          /\ f.onWire = e.onWire /\ f.failed = e.failed /\ f.told = e.told /\ f.sends = e.sends
          /\ f.closes = e.closes /\ f.lateSend = e.lateSend /\ f.uv = e.uv /\ f.closed = e.closed
      BY <2>2, <1>2 DEF Udp
    <2>7. Flushing(f, d, q, i) BY <2>1, <2>4, <2>5, <2>6, <1>1 DEF Flushing
    <2> QED BY <2>7 DEF f
  <1>5. CASE ~e.thrown /\ ~ClosedBy(q, i - 1) /\ q[i] = ToClose
    <2>1. e.handle BY <1>5 DEF Flushing
    <2>2. f = [e EXCEPT !.recv = FALSE, !.uv = "closing", !.handle = FALSE,
                        !.receiving = FALSE, !.closed = @ + 1]
      <3>1. f = CloseCall(e) BY <1>5 DEF FlushEntry
      <3>2. f = [UdpClose(IF e.receiving THEN RecvStop(e) ELSE e) EXCEPT
                    !.handle = FALSE, !.receiving = FALSE, !.closed = @ + 1]
        BY <3>1, <2>1, <1>2 DEF CloseCall
      <3> QED BY <3>2, <1>2 DEF UdpClose, RecvStop, Udp
    <2>3. ClosedBy(q, i) BY <1>1, <1>5 DEF ClosedBy
    <2>4. e.closed = 0 BY <2>1 DEF Flushing
    <2> HIDE DEF f
    <2>5. f \in Udp
      <3>1. f = [e EXCEPT !.recv = FALSE, !.uv = "closing", !.handle = FALSE,
                          !.receiving = FALSE, !.closed = 1]
        BY <2>2, <2>4
      <3> QED BY <3>1, <1>2 DEF Udp
    <2>6. /\ ~f.handle /\ f.bind = e.bind /\ f.hasQueue = e.hasQueue
          /\ f.queue = e.queue /\ f.binding = e.binding /\ f.asked = e.asked
          /\ f.onWire = e.onWire /\ f.failed = e.failed /\ f.told = e.told /\ f.sends = e.sends
          /\ f.closes = e.closes /\ f.lateSend = e.lateSend /\ f.uv = "closing" /\ f.closed = 1
          /\ f.thrown = e.thrown
      BY <2>2, <2>4, <1>2 DEF Udp
    <2>7. Flushing(f, d, q, i) BY <2>3, <2>5, <2>6, <1>1, <1>5 DEF Flushing
    <2> QED BY <2>7 DEF f
  <1>6. CASE ~e.thrown /\ ~ClosedBy(q, i - 1) /\ q[i] # ToClose
    <2>1. e.handle BY <1>6 DEF Flushing
    <2>2. f = [e EXCEPT !.asked = @ \cup {q[i]}]
      BY <2>1, <1>2, <1>6 DEF FlushEntry, SendCall
    <2>3. ~ClosedBy(q, i) BY <1>1, <1>6 DEF ClosedBy
    <2>4. q[i] \in Sends BY <1>1, <1>6, DgramAssumption DEF Sends, ToClose
    <2> HIDE DEF f
    <2>5. /\ f \in Udp /\ f.handle = e.handle /\ f.bind = e.bind /\ f.hasQueue = e.hasQueue
          /\ f.queue = e.queue /\ f.binding = e.binding /\ f.asked = e.asked \cup {q[i]}
          /\ f.onWire = e.onWire /\ f.failed = e.failed /\ f.told = e.told /\ f.sends = e.sends
          /\ f.closes = e.closes /\ f.lateSend = e.lateSend /\ f.uv = e.uv /\ f.closed = e.closed
          /\ f.thrown = e.thrown
      BY <2>2, <2>4, <1>2 DEF Udp
    <2>6. \A n \in f.asked : n \in d.asked \/ \E j \in 1 .. i : q[j] = n
      BY <2>5, <1>1 DEF Flushing
    <2>7. \A j \in 1 .. i : q[j] \in f.asked BY <2>1, <2>5, <1>1 DEF Flushing
    <2>8. d.asked \subseteq f.asked BY <2>5 DEF Flushing
    <2>9. Flushing(f, d, q, i) BY <2>1, <2>3, <2>5, <2>6, <2>7, <2>8, <1>6 DEF Flushing
    <2> QED BY <2>9 DEF f
  <1> QED BY <1>3, <1>4, <1>5, <1>6

\* The whole queue
LEMMA FlushAll ==
    ASSUME NEW q \in Seq(0 .. MaxSends), NEW d \in Udp, d.bind = "bound", ~d.hasQueue,
           d.queue = << >>, d.handle, d.uv = "open", d.closed = 0, ~d.thrown
    PROVE  Flushing(FlushQueue(d, q), d, q, Len(q))
  <1>1. Len(q) \in Nat /\ Len(q) \in 0 .. Len(q) OBVIOUS
  <1> DEFINE a == CHOOSE after : IsRun(after, d, q, Len(q))
  <1>2. IsRun(a, d, q, Len(q))
    <2>1. \E after : IsRun(after, d, q, Len(q)) BY <1>1, RunExists
    <2> QED BY <2>1
  <1>3. FlushQueue(d, q) = a[Len(q)] BY DEF FlushQueue, IsRun
  <1> HIDE DEF a
  <1>4. /\ a[0] = d
        /\ \A i \in 1 .. Len(q) : a[i] = FlushEntry(a[i - 1], q[i])
    <2>1. \A i \in 0 .. Len(q) : a[i] = IF i = 0 THEN d ELSE FlushEntry(a[i - 1], q[i])
      BY <1>2 DEF IsRun
    <2>2. \A i \in 1 .. Len(q) : i \in 0 .. Len(q) /\ i # 0 BY <1>1
    <2>3. 0 \in 0 .. Len(q) BY <1>1
    <2> QED BY <2>1, <2>2, <2>3
  <1> DEFINE T == {k \in 0 .. Len(q) : ~Flushing(a[k], d, q, k)}
  <1>5. ASSUME T # {} PROVE FALSE
    <2>1. T \subseteq Nat OBVIOUS
    <2>2. PICK k \in T : \A y \in T : k <= y
      <3> HIDE DEF T
      <3> QED BY <1>5, <2>1, LeastNat
    <2>3. k \in 0 .. Len(q) /\ ~Flushing(a[k], d, q, k) OBVIOUS
    <2>4. k # 0
      <3>1. ~ClosedBy(q, 0) BY DEF ClosedBy
      <3>2. Flushing(d, d, q, 0) BY <3>1 DEF Flushing
      <3> QED BY <3>2, <2>3, <1>4
    <2>5. k \in 1 .. Len(q) /\ k - 1 \in 0 .. Len(q) /\ ~(k <= k - 1) BY <2>3, <2>4, <1>1
    <2>6. k - 1 \notin T
      <3> HIDE DEF T
      <3> QED BY <2>2, <2>5
    <2>7. Flushing(a[k - 1], d, q, k - 1) BY <2>5, <2>6
    <2> HIDE DEF T
    <2>8. Flushing(FlushEntry(a[k - 1], q[k]), d, q, k) BY <2>5, <2>7, FlushOne
    <2> QED BY <2>3, <2>5, <2>8, <1>4
  <1> QED BY <1>1, <1>3, <1>5

-----------------------------------------------------------------------------
(* The steps *)

LEMMA NothingQueued == \A e : ~Waits(<< >>, e)
  <1>1. Len(<< >>) = 0 OBVIOUS
  <1> QED BY <1>1 DEF Waits

\* A bind that succeeds
LEMMA ListeningSound ==
    ASSUME NEW u, Sound(u), u.binding, u.handle
    PROVE  Sound(StartListening([u EXCEPT !.binding = FALSE]))
  <1> DEFINE l == [u EXCEPT !.binding = FALSE, !.recv = TRUE, !.receiving = TRUE, !.bind = "bound"]
             q == u.queue
             d == [l EXCEPT !.hasQueue = FALSE, !.queue = << >>]
             e == FlushQueue(d, q)
             r == StartListening([u EXCEPT !.binding = FALSE])
  <1>1. u \in Udp /\ BindState(u) /\ CloseState(u) /\ BehindClose(u) /\ SendState(u) /\ Once(u)
    BY DEF Sound
  <1>2. u.bind = "binding" /\ ~u.thrown /\ u.uv = "open" /\ u.closed = 0 /\ q \in Seq(0 .. MaxSends)
    BY <1>1 DEF BindState, CloseState, Udp
  <1>3. r = IF u.hasQueue THEN e ELSE l
    BY <1>1 DEF StartListening, RecvStart, ClearQueue, Udp
  <1>4. CASE ~u.hasQueue
    <2>1. r = l BY <1>3, <1>4
    <2>2. /\ l \in Udp /\ l.bind = "bound" /\ ~l.hasQueue /\ l.queue = u.queue /\ ~l.binding
          /\ l.handle /\ ~l.thrown /\ l.uv = u.uv /\ l.closed = u.closed /\ l.closes = u.closes
          /\ l.asked = u.asked /\ l.onWire = u.onWire /\ l.failed = u.failed /\ l.told = u.told
          /\ l.sends = u.sends /\ l.lateSend = u.lateSend
      BY <1>1, <1>2, <1>4 DEF Udp
    <2> HIDE DEF l
    <2>3. BindState(l) BY <2>2, <1>1, <1>4 DEF BindState
    <2>4. CloseState(l) BY <2>2, <1>1 DEF CloseState
    <2>5. BehindClose(l) /\ Once(l) BY <2>2, <1>1 DEF BehindClose, Once
    <2>6. SendState(l) BY <2>2, <1>1 DEF SendState, Exclusive, Somewhere
    <2> QED BY <2>1, <2>2, <2>3, <2>4, <2>5, <2>6 DEF Sound
  <1>5. CASE u.hasQueue
    <2>1. r = e BY <1>3, <1>5
    <2>2. /\ d \in Udp /\ d.bind = "bound" /\ ~d.hasQueue /\ d.queue = << >> /\ ~d.binding
          /\ d.handle /\ ~d.thrown /\ d.uv = "open" /\ d.closed = 0 /\ d.closes = u.closes
          /\ d.asked = u.asked /\ d.onWire = u.onWire /\ d.failed = u.failed /\ d.told = u.told
          /\ d.sends = u.sends /\ d.lateSend = u.lateSend
      <3>1. << >> \in Seq(0 .. MaxSends) BY DgramAssumption
      <3> QED BY <3>1, <1>1, <1>2 DEF Udp
    <2> HIDE DEF d
    <2>3. Flushing(e, d, q, Len(q)) BY <2>2, <1>2, FlushAll
    <2> HIDE DEF e, r, q
    <2>4. /\ e \in Udp /\ e.bind = "bound" /\ ~e.hasQueue /\ e.queue = << >> /\ ~e.binding
          /\ e.onWire = u.onWire /\ e.failed = u.failed /\ e.told = u.told
          /\ e.sends = u.sends /\ e.closes = u.closes /\ e.lateSend = u.lateSend
          /\ e.handle <=> ~Waits(q, ToClose)
          /\ e.uv = (IF e.handle THEN "open" ELSE "closing")
          /\ e.closed = (IF e.handle THEN 0 ELSE 1)
          /\ u.asked \subseteq e.asked
          /\ \A n \in e.asked : n \in u.asked \/ Waits(q, n)
          /\ e.handle => \A j \in 1 .. Len(q) : q[j] \in e.asked
          /\ e.thrown => \E j \in 1 .. Len(q), k \in 1 .. Len(q) : j < k /\ q[j] = ToClose
      BY <2>2, <2>3 DEF Flushing, ClosedBy, Waits
    <2>5. BindState(e)
      <3>1. e.thrown => e.lateSend \/ e.closes > 1 BY <2>4, <1>1 DEF BehindClose, q
      <3> QED BY <2>4, <3>1 DEF BindState
    <2>6. CloseState(e)
      <3>1. u.closes > 0 <=> Waits(q, ToClose) BY <1>1 DEF CloseState, q
      <3> QED BY <2>4, <3>1, NothingQueued DEF CloseState
    <2>7. BehindClose(e) /\ Once(e) BY <2>4 DEF BehindClose, Once
    <2>8. SendState(e)
      <3>1. ASSUME NEW n \in Sends
            PROVE  Exclusive(e, n) /\ (Somewhere(e, n) => n <= e.sends)
        <4>1. /\ Exclusive(u, n) /\ (Somewhere(u, n) => n <= u.sends) BY <1>1 DEF SendState
        <4> QED BY <4>1, <2>4, NothingQueued DEF Exclusive, Somewhere, q
      <3>2. ASSUME e.closes = 0, NEW n \in Sends, n <= e.sends PROVE Somewhere(e, n)
        <4>1. Somewhere(u, n) BY <3>2, <2>4, <1>1 DEF SendState
        <4>2. e.handle
          <5>1. ~Waits(q, ToClose) BY <3>2, <2>4, <1>1 DEF CloseState, q
          <5> QED BY <5>1, <2>4
        <4>3. Waits(q, n) => n \in e.asked BY <4>2, <2>4 DEF Waits
        <4> QED BY <4>1, <4>3, <2>4 DEF Somewhere, q
      <3> QED BY <3>1, <3>2 DEF SendState
    <2> QED BY <2>1, <2>4, <2>5, <2>6, <2>7, <2>8 DEF Sound, r
  <1> QED BY <1>4, <1>5

LEMMA WaitsAppend ==
    ASSUME NEW q \in Seq(0 .. MaxSends), NEW e \in 0 .. MaxSends
    PROVE  /\ Append(q, e) \in Seq(0 .. MaxSends) /\ Len(Append(q, e)) = Len(q) + 1
           /\ Len(q) \in Nat /\ Append(q, e)[Len(q) + 1] = e
           /\ \A i \in 1 .. Len(q) : Append(q, e)[i] = q[i]
           /\ \A i \in 1 .. Len(q) + 1 : i = Len(q) + 1 \/ i \in 1 .. Len(q)
           /\ \A x : Waits(Append(q, e), x) <=> Waits(q, x) \/ x = e
  <1>1. /\ Append(q, e) \in Seq(0 .. MaxSends) /\ Len(Append(q, e)) = Len(q) + 1 /\ Len(q) \in Nat
        /\ Append(q, e)[Len(q) + 1] = e /\ \A i \in 1 .. Len(q) : Append(q, e)[i] = q[i]
    BY DgramAssumption
  <1>2. \A i \in 1 .. Len(q) + 1 : i = Len(q) + 1 \/ i \in 1 .. Len(q) BY <1>1
  <1>3. \A i \in 1 .. Len(q) : i \in 1 .. Len(q) + 1 BY <1>1
  <1>4. Len(q) + 1 \in 1 .. Len(q) + 1 BY <1>1
  <1>5. ASSUME NEW x PROVE Waits(Append(q, e), x) <=> Waits(q, x) \/ x = e
    BY <1>1, <1>2, <1>3, <1>4 DEF Waits
  <1> QED BY <1>1, <1>2, <1>5

\* send() of a socket that is not bound yet
LEMMA EnqueueSound ==
    ASSUME NEW u, Sound(u), u.handle, u.bind # "bound", u.sends < MaxSends,
           NEW f, f = [u EXCEPT !.bind = "binding", !.binding = TRUE, !.hasQueue = TRUE,
                                !.queue = Append(@, u.sends + 1), !.thrown = FALSE,
                                !.sends = @ + 1, !.lateSend = @ \/ u.closes > 0]
    PROVE  Sound(f)
  <1> DEFINE n == u.sends + 1
             q == u.queue
  <1>1. u \in Udp /\ BindState(u) /\ CloseState(u) /\ BehindClose(u) /\ SendState(u) /\ Once(u)
    BY DEF Sound
  <1>2. q \in Seq(0 .. MaxSends) /\ u.sends \in 0 .. MaxSends /\ u.closes \in Nat BY <1>1 DEF Udp
  <1>3. n \in Sends /\ n \in 0 .. MaxSends /\ n # ToClose /\ ~(n <= u.sends) /\ u.sends <= n
    BY <1>2, DgramAssumption DEF Sends, ToClose
  <1> DEFINE p == Append(q, n)
  <1>4. /\ p \in Seq(0 .. MaxSends) /\ Len(p) = Len(q) + 1 /\ Len(q) \in Nat
        /\ p[Len(q) + 1] = n
        /\ \A i \in 1 .. Len(q) : p[i] = q[i]
        /\ \A i \in 1 .. Len(q) + 1 : i = Len(q) + 1 \/ i \in 1 .. Len(q)
        /\ \A x : Waits(p, x) <=> Waits(q, x) \/ x = n
    BY <1>2, <1>3, WaitsAppend
  <1> HIDE DEF p
  <1>5. /\ f.handle /\ f.bind = "binding" /\ f.hasQueue /\ f.queue = p /\ f.binding
        /\ ~f.thrown /\ f.uv = u.uv /\ f.closed = u.closed /\ f.closes = u.closes
        /\ f.asked = u.asked /\ f.onWire = u.onWire /\ f.failed = u.failed /\ f.told = u.told
        /\ f.sends = n /\ f.lateSend = (u.lateSend \/ u.closes > 0)
    BY <1>1 DEF Udp, p
  <1>6. f \in Udp
    <2> DEFINE ls == u.lateSend \/ u.closes > 0
    <2>1. f = [u EXCEPT !.bind = "binding", !.binding = TRUE, !.hasQueue = TRUE, !.queue = p,
                        !.thrown = FALSE, !.sends = n, !.lateSend = ls]
      BY DEF p
    <2>2. ls = TRUE \/ ls = FALSE OBVIOUS
    <2>3. p \in Seq(0 .. MaxSends) BY <1>4
    <2> HIDE DEF n
    <2> DEFINE With(b) == [u EXCEPT !.bind = "binding", !.binding = TRUE, !.hasQueue = TRUE,
                             !.queue = p, !.thrown = FALSE, !.sends = n, !.lateSend = b]
    <2>4. With(TRUE) \in Udp /\ With(FALSE) \in Udp BY <2>3, <1>1, <1>3 DEF Udp
    <2>5. f = With(TRUE) \/ f = With(FALSE) BY <2>1, <2>2, Zenon
    <2> QED BY <2>4, <2>5
  <1> HIDE DEF n
  <1>7. \A m \in Sends : Waits(q, m) => m <= u.sends /\ m # n
    BY <1>1, <1>3 DEF SendState, Somewhere, q
  <1>8. BindState(f) BY <1>5 DEF BindState
  <1>9. CloseState(f)
    <2>1. Waits(p, ToClose) <=> Waits(q, ToClose) BY <1>3, <1>4
    <2> QED BY <2>1, <1>1, <1>5 DEF CloseState, q
  <1>10. BehindClose(f)
    <2> SUFFICES ASSUME NEW i \in 1 .. Len(p), NEW j \in 1 .. Len(p), p[i] = ToClose, i < j
                 PROVE  IF p[j] = ToClose THEN f.closes > 1 ELSE f.lateSend
      BY <1>5 DEF BehindClose
    <2>1. i \in 1 .. Len(q) /\ q[i] = ToClose
      BY <1>3, <1>4
    <2>2. CASE j \in 1 .. Len(q)
      <3>1. p[j] = q[j] BY <2>2, <1>4
      <3>2. IF q[j] = ToClose THEN u.closes > 1 ELSE u.lateSend
        BY <2>1, <2>2, <1>1 DEF BehindClose, q
      <3> QED BY <3>1, <3>2, <1>5
    <2>3. CASE j = Len(q) + 1
      <3>1. Waits(q, ToClose) BY <2>1 DEF Waits
      <3>2. u.closes > 0 BY <3>1, <1>1 DEF CloseState, q
      <3> QED BY <3>2, <2>3, <1>3, <1>4, <1>5
    <2> QED BY <2>2, <2>3, <1>4
  <1>11. SendState(f)
    <2>1. ASSUME NEW m \in Sends PROVE Exclusive(f, m) /\ (Somewhere(f, m) => m <= f.sends)
      <3>1. Exclusive(u, m) /\ (Somewhere(u, m) => m <= u.sends) BY <1>1 DEF SendState
      <3>2. CASE m = n
        <4>1. ~Somewhere(u, n) BY <3>1, <3>2, <1>3
        <4> QED BY <4>1, <3>2, <1>3, <1>5 DEF Exclusive, Somewhere
      <3>3. CASE m # n
        <4>1. Waits(p, m) <=> Waits(q, m) BY <3>3, <1>4
        <4>2. m <= u.sends => m <= n BY <1>2 DEF n, Sends
        <4> QED BY <3>1, <4>1, <4>2, <1>5 DEF Exclusive, Somewhere, q
      <3> QED BY <3>2, <3>3
    <2>2. ASSUME f.closes = 0, NEW m \in Sends, m <= f.sends PROVE Somewhere(f, m)
      <3>1. CASE m = n BY <3>1, <1>4, <1>5 DEF Somewhere
      <3>2. CASE m # n
        <4>1. m <= u.sends BY <3>2, <2>2, <1>2, <1>5 DEF n, Sends
        <4>2. Somewhere(u, m) BY <4>1, <2>2, <1>1, <1>5 DEF SendState
        <4> QED BY <4>2, <1>4, <1>5 DEF Somewhere, q
      <3> QED BY <3>1, <3>2
    <2> QED BY <2>1, <2>2 DEF SendState
  <1>12. Once(f)
    <2> SUFFICES ASSUME NEW i \in 1 .. Len(p), NEW j \in 1 .. Len(p), p[i] = p[j], p[i] # ToClose
                 PROVE  i = j
      BY <1>5 DEF Once
    <2>1. \A l \in 1 .. Len(q) : q[l] # n BY <1>3, <1>7 DEF Waits
    <2>2. CASE i \in 1 .. Len(q) /\ j \in 1 .. Len(q) BY <2>2, <1>1, <1>4 DEF Once, q
    <2>3. CASE i = Len(q) + 1 /\ j = Len(q) + 1 BY <2>3
    <2> QED BY <2>1, <2>2, <2>3, <1>4
  <1> QED BY <1>6, <1>8, <1>9, <1>10, <1>11, <1>12 DEF Sound

\* send() of a bound socket
LEMMA AskSound ==
    ASSUME NEW u, Sound(u), u.handle, u.bind = "bound", u.sends < MaxSends,
           NEW f, f = [u EXCEPT !.asked = @ \cup {u.sends + 1}, !.thrown = FALSE,
                                !.sends = @ + 1, !.lateSend = @ \/ u.closes > 0]
    PROVE  Sound(f)
  <1> DEFINE n == u.sends + 1
             ls == u.lateSend \/ u.closes > 0
  <1>1. u \in Udp /\ BindState(u) /\ CloseState(u) /\ BehindClose(u) /\ SendState(u) /\ Once(u)
    BY DEF Sound
  <1>2. u.sends \in 0 .. MaxSends BY <1>1 DEF Udp
  <1>3. n \in Sends /\ n \in 0 .. MaxSends /\ ~(n <= u.sends)
        /\ (ls = TRUE \/ ls = FALSE)
    BY <1>2, DgramAssumption DEF Sends
  <1>4. \A m \in Sends : m <= n => m = n \/ m <= u.sends BY <1>2 DEF Sends
  <1>5. \A m \in Sends : m <= u.sends => m <= n BY <1>2 DEF Sends
  <1> HIDE DEF n, ls
  <1>6. f = [u EXCEPT !.asked = @ \cup {n}, !.thrown = FALSE, !.sends = n, !.lateSend = ls]
    BY DEF n, ls
  <1>13. f \in Udp
    <2> DEFINE With(b) == [u EXCEPT !.asked = @ \cup {n}, !.thrown = FALSE, !.sends = n,
                                    !.lateSend = b]
    <2>1. With(TRUE) \in Udp /\ With(FALSE) \in Udp BY <1>1, <1>3 DEF Udp
    <2>2. f = With(TRUE) \/ f = With(FALSE) BY <1>3, <1>6, Zenon
    <2> QED BY <2>1, <2>2
  <1>7. /\ f.handle /\ f.bind = "bound" /\ f.hasQueue = u.hasQueue /\ f.queue = u.queue
        /\ f.binding = u.binding
        /\ ~f.thrown /\ f.uv = u.uv /\ f.closed = u.closed /\ f.closes = u.closes
        /\ f.asked = u.asked \cup {n} /\ f.onWire = u.onWire /\ f.failed = u.failed
        /\ f.told = u.told /\ f.sends = n /\ f.lateSend = ls
    BY <1>1, <1>3, <1>6 DEF Udp
  <1>8. u.queue = << >> /\ ~u.hasQueue /\ ~u.binding BY <1>1 DEF BindState
  <1>9. BindState(f) BY <1>7, <1>8 DEF BindState
  <1>10. CloseState(f) BY <1>1, <1>7 DEF CloseState
  <1>11. BehindClose(f) /\ Once(f) BY <1>7, <1>8 DEF BehindClose, Once
  <1>12. SendState(f)
    <2>1. ASSUME NEW m \in Sends PROVE Exclusive(f, m) /\ (Somewhere(f, m) => m <= f.sends)
      <3>1. Exclusive(u, m) /\ (Somewhere(u, m) => m <= u.sends) BY <1>1 DEF SendState
      <3>2. CASE m = n
        <4>1. ~Somewhere(u, n) BY <3>1, <3>2, <1>3
        <4>2. n <= n BY <1>3, DgramAssumption DEF Sends
        <4> QED BY <4>1, <4>2, <3>2, <1>7 DEF Exclusive, Somewhere
      <3>3. CASE m # n BY <3>1, <3>3, <1>5, <1>7 DEF Exclusive, Somewhere
      <3> QED BY <3>2, <3>3
    <2>2. ASSUME f.closes = 0, NEW m \in Sends, m <= f.sends PROVE Somewhere(f, m)
      <3>1. m = n \/ Somewhere(u, m) BY <2>2, <1>1, <1>4, <1>7 DEF SendState
      <3> QED BY <3>1, <1>7 DEF Somewhere
    <2> QED BY <2>1, <2>2 DEF SendState
  <1> QED BY <1>9, <1>10, <1>11, <1>12, <1>13 DEF Sound

LEMMA SendSound == DgramInv /\ DgramSend => DgramInv'
  <1> SUFFICES ASSUME DgramInv, DgramSend PROVE Sound(udp') BY DEF DgramInv
  <1>1. Sound(udp) /\ udp \in Udp /\ BindState(udp) /\ CloseState(udp) /\ SendState(udp)
        /\ udp.sends < MaxSends
    BY DEF DgramInv, Sound, DgramSend
  <1> DEFINE c == SendCall(udp, udp.sends + 1)
  <1>2. udp' = [Caught(c) EXCEPT
                   !.sends = @ + 1, !.lateSend = @ \/ (udp.closes > 0 /\ udp.handle)]
    BY DEF DgramSend
  <1>3. CASE ~udp.handle
    <2>1. c = [udp EXCEPT !.thrown = TRUE] BY <1>3 DEF SendCall
    <2>2. udp' = [udp EXCEPT !.thrown = FALSE, !.sends = @ + 1]
      BY <2>1, <1>1, <1>2, <1>3 DEF Caught, Udp
    <2>3. udp.sends + 1 \in 0 .. MaxSends /\ udp.sends \in Nat
      BY <1>1, DgramAssumption DEF Udp
    <2> DEFINE f == udp'
               n == udp.sends + 1
    <2>4. \A m \in Sends : m <= udp.sends => m <= n BY <2>3 DEF Sends
    <2> HIDE DEF f, n
    <2>5. /\ f = [udp EXCEPT !.thrown = FALSE, !.sends = n] /\ n \in 0 .. MaxSends
      BY <2>2, <2>3 DEF f, n
    <2>6. /\ f \in Udp /\ ~f.handle /\ f.bind = udp.bind /\ f.hasQueue = udp.hasQueue
          /\ f.queue = udp.queue /\ f.binding = udp.binding /\ ~f.thrown /\ f.uv = udp.uv
          /\ f.closed = udp.closed /\ f.closes = udp.closes /\ f.asked = udp.asked
          /\ f.onWire = udp.onWire /\ f.failed = udp.failed
          /\ f.told = udp.told /\ f.sends = n /\ f.lateSend = udp.lateSend
      BY <2>5, <1>1, <1>3 DEF Udp
    <2>7. udp.closes # 0 BY <1>1, <1>3 DEF CloseState
    <2>8. BindState(f) BY <2>6, <1>1, <1>3 DEF BindState
    <2>9. CloseState(f) BY <2>6, <1>1, <1>3 DEF CloseState
    <2>10. BehindClose(f) /\ Once(f) BY <2>6 DEF BehindClose, Once, DgramInv, Sound
    <2>11. SendState(f) BY <2>4, <2>6, <2>7, <1>1 DEF SendState, Exclusive, Somewhere
    <2> QED BY <2>6, <2>8, <2>9, <2>10, <2>11 DEF Sound, f
  <1>4. CASE udp.handle /\ udp.bind # "bound"
    <2>1. udp.bind = "binding" => udp.binding BY <1>1, <1>4 DEF BindState
    <2>2. c = [udp EXCEPT !.bind = "binding", !.binding = TRUE, !.hasQueue = TRUE,
                          !.queue = Append(@, udp.sends + 1)]
      <3>1. CASE udp.bind = "unbound"
        BY <3>1, <1>1, <1>4 DEF SendCall, BindCall, Enqueue, Udp
      <3>2. CASE udp.bind = "binding"
        <4>1. c = Enqueue(udp, udp.sends + 1) BY <3>2, <1>4 DEF SendCall
        <4>2. udp.binding = TRUE BY <3>2, <2>1, <1>1 DEF Udp
        <4>3. udp = [udp EXCEPT !.bind = "binding", !.binding = TRUE]
          BY <4>2, <3>2, <1>1 DEF Udp
        <4> QED BY <4>1, <4>3, <1>1 DEF Enqueue, Udp
      <3> QED BY <3>1, <3>2, <1>1, <1>4 DEF Udp
    <2>3. udp' = [udp EXCEPT !.bind = "binding", !.binding = TRUE, !.hasQueue = TRUE,
                             !.queue = Append(@, udp.sends + 1), !.thrown = FALSE,
                             !.sends = @ + 1, !.lateSend = @ \/ udp.closes > 0]
      BY <2>2, <1>1, <1>2, <1>4 DEF Caught, Udp
    <2> QED BY <2>3, <1>1, <1>4, EnqueueSound
  <1>5. CASE udp.handle /\ udp.bind = "bound"
    <2>1. c = [udp EXCEPT !.asked = @ \cup {udp.sends + 1}] BY <1>5 DEF SendCall
    <2>2. udp' = [udp EXCEPT !.asked = @ \cup {udp.sends + 1}, !.thrown = FALSE,
                             !.sends = @ + 1, !.lateSend = @ \/ udp.closes > 0]
      BY <2>1, <1>1, <1>2, <1>5 DEF Caught, Udp
    <2> QED BY <2>2, <1>1, <1>5, AskSound
  <1> QED BY <1>3, <1>4, <1>5

LEMMA CloseSound == DgramInv /\ DgramClose => DgramInv'
  <1> SUFFICES ASSUME DgramInv, DgramClose PROVE Sound(udp') BY DEF DgramInv
  <1>1. /\ udp \in Udp /\ BindState(udp) /\ CloseState(udp) /\ BehindClose(udp)
        /\ SendState(udp) /\ Once(udp)
    BY DEF DgramInv, Sound
  <1> DEFINE f == udp'
             c == udp.closes + 1
  <1>2. udp.closes \in Nat /\ c \in Nat /\ c > 0 /\ c # 0 /\ (udp.closes > 0 => c > 1)
        /\ (udp.closes > 1 => c > 1)
    BY <1>1 DEF Udp
  <1>3. f = [Caught(CloseCall(udp)) EXCEPT !.closes = @ + 1] BY DEF DgramClose
  <1>4. CASE udp.hasQueue
    <2> DEFINE q == udp.queue
               p == Append(udp.queue, ToClose)
    <2>1. ToClose \in 0 .. MaxSends /\ q \in Seq(0 .. MaxSends)
      BY <1>1, DgramAssumption DEF ToClose, Udp
    <2>2. /\ p \in Seq(0 .. MaxSends) /\ Len(p) = Len(q) + 1 /\ Len(q) \in Nat
          /\ p[Len(q) + 1] = ToClose
          /\ \A i \in 1 .. Len(q) : p[i] = q[i]
          /\ \A i \in 1 .. Len(q) + 1 : i = Len(q) + 1 \/ i \in 1 .. Len(q)
          /\ \A x : Waits(p, x) <=> Waits(q, x) \/ x = ToClose
      BY <2>1, WaitsAppend
    <2> HIDE DEF p
    <2>3. f = [udp EXCEPT !.hasQueue = TRUE, !.queue = p, !.thrown = FALSE, !.closes = c]
      BY <1>1, <1>3, <1>4 DEF CloseCall, Enqueue, Caught, Udp, p
    <2> HIDE DEF f, c
    <2>4. /\ f \in Udp /\ f.handle = udp.handle /\ f.bind = udp.bind /\ f.hasQueue
          /\ f.queue = p /\ f.binding = udp.binding /\ ~f.thrown /\ f.uv = udp.uv
          /\ f.closed = udp.closed /\ f.closes = c /\ f.asked = udp.asked
          /\ f.onWire = udp.onWire /\ f.failed = udp.failed
          /\ f.told = udp.told /\ f.sends = udp.sends /\ f.lateSend = udp.lateSend
      BY <2>2, <2>3, <1>1, <1>2 DEF Udp
    <2>5. BindState(f) BY <2>4, <1>1, <1>4 DEF BindState
    <2>6. CloseState(f) BY <2>2, <2>4, <1>1, <1>2 DEF CloseState
    <2>7. BehindClose(f)
      <3> SUFFICES ASSUME NEW i \in 1 .. Len(p), NEW j \in 1 .. Len(p), p[i] = ToClose, i < j
                   PROVE  IF p[j] = ToClose THEN c > 1 ELSE f.lateSend
        BY <2>4 DEF BehindClose
      <3>1. i \in 1 .. Len(q) BY <2>2
      <3>2. q[i] = ToClose BY <3>1, <2>2
      <3>3. CASE j \in 1 .. Len(q)
        <4>1. p[j] = q[j] BY <3>3, <2>2
        <4>2. IF q[j] = ToClose THEN udp.closes > 1 ELSE udp.lateSend
          BY <3>1, <3>2, <3>3, <1>1 DEF BehindClose
        <4> QED BY <4>1, <4>2, <2>4, <1>2
      <3>4. CASE j = Len(q) + 1
        <4>1. Waits(q, ToClose) BY <3>1, <3>2 DEF Waits
        <4>2. udp.closes > 0 BY <4>1, <1>1 DEF CloseState
        <4> QED BY <4>2, <3>4, <2>2, <1>2
      <3> QED BY <3>3, <3>4, <2>2
    <2>8. SendState(f)
      <3>1. \A n \in Sends : n # ToClose BY DEF Sends, ToClose
      <3>2. \A n \in Sends : Waits(p, n) <=> Waits(q, n) BY <3>1, <2>2
      <3> QED BY <3>2, <2>4, <1>1, <1>2 DEF SendState, Exclusive, Somewhere
    <2>9. Once(f)
      <3> SUFFICES ASSUME NEW i \in 1 .. Len(p), NEW j \in 1 .. Len(p), p[i] = p[j], p[i] # ToClose
                   PROVE  i = j
        BY <2>4 DEF Once
      <3>1. i \in 1 .. Len(q) /\ j \in 1 .. Len(q) BY <2>2
      <3> QED BY <3>1, <2>2, <1>1 DEF Once
    <2> QED BY <2>4, <2>5, <2>6, <2>7, <2>8, <2>9 DEF Sound, f
  <1>5. CASE ~udp.hasQueue
    <2>1. udp.queue = << >> BY <1>1, <1>5 DEF BindState
    <2>2. /\ f \in Udp /\ ~f.handle /\ f.bind = udp.bind /\ f.hasQueue = udp.hasQueue
          /\ f.queue = udp.queue /\ f.binding = udp.binding /\ ~f.thrown /\ f.uv # "open"
          /\ f.closed = 1 /\ f.closes = c /\ f.asked = udp.asked
          /\ f.onWire = udp.onWire /\ f.failed = udp.failed
          /\ f.told = udp.told /\ f.sends = udp.sends /\ f.lateSend = udp.lateSend
      <3>1. CASE ~udp.handle
        <4>1. CloseCall(udp) = [udp EXCEPT !.thrown = TRUE] BY <3>1, <1>5 DEF CloseCall
        <4>2. f = [udp EXCEPT !.thrown = FALSE, !.closes = c]
          BY <4>1, <1>1, <1>3 DEF Caught, Udp
        <4>3. udp.uv # "open" /\ udp.closed = 1 BY <3>1, <1>1 DEF CloseState
        <4> HIDE DEF f, c
        <4> QED BY <4>2, <4>3, <3>1, <1>1, <1>2 DEF Udp
      <3>2. CASE udp.handle
        <4>1. CloseCall(udp) = [UdpClose(IF udp.receiving THEN RecvStop(udp) ELSE udp) EXCEPT
                                   !.handle = FALSE, !.receiving = FALSE, !.closed = @ + 1]
          BY <3>2, <1>5 DEF CloseCall
        <4>2. udp.closed = 0 BY <3>2, <1>1 DEF CloseState
        <4>3. f = [udp EXCEPT !.recv = FALSE, !.uv = "closing", !.handle = FALSE,
                              !.receiving = FALSE, !.closed = 1, !.thrown = FALSE, !.closes = c]
          <5>1. CloseCall(udp) = [udp EXCEPT !.recv = FALSE, !.uv = "closing", !.handle = FALSE,
                                             !.receiving = FALSE, !.closed = 1]
            <6>1. CloseCall(udp) = [udp EXCEPT !.recv = FALSE, !.uv = "closing", !.handle = FALSE,
                                               !.receiving = FALSE, !.closed = @ + 1]
              BY <4>1, <1>1 DEF UdpClose, RecvStop, Udp
            <6> QED BY <6>1, <4>2
          <5> QED BY <5>1, <1>1, <1>3 DEF Caught, Udp
        <4> HIDE DEF f, c
        <4> QED BY <4>3, <1>1, <1>2 DEF Udp
      <3> QED BY <3>1, <3>2
    <2> HIDE DEF f, c
    <2>3. BindState(f) BY <2>1, <2>2, <1>1, <1>5 DEF BindState
    <2>4. CloseState(f) BY <2>2, <1>2 DEF CloseState
    <2>5. BehindClose(f) /\ Once(f) BY <2>1, <2>2 DEF BehindClose, Once
    <2>6. SendState(f) BY <2>2, <1>1, <1>2 DEF SendState, Exclusive, Somewhere
    <2> QED BY <2>2, <2>3, <2>4, <2>5, <2>6 DEF Sound, f
  <1> QED BY <1>4, <1>5

\* The answers of a bind's lookup
LEMMA BindAnswerSound ==
    ASSUME DgramInv, NEW found \in BOOLEAN, NEW ok \in BOOLEAN, AfterBindLookup(found, ok)
    PROVE  DgramInv'
  <1> SUFFICES Sound(udp') BY DEF DgramInv
  <1>1. /\ udp \in Udp /\ BindState(udp) /\ CloseState(udp) /\ BehindClose(udp)
        /\ SendState(udp) /\ Once(udp) /\ Sound(udp) /\ udp.binding
    BY DEF DgramInv, Sound, AfterBindLookup
  <1> DEFINE f == udp'
             d == [udp EXCEPT !.binding = FALSE]
  <1>2. \/ f = [udp EXCEPT !.binding = FALSE, !.bind = "unbound"]
        \/ f = d /\ ~udp.handle
        \/ f = StartListening(d) /\ udp.handle
    BY <1>1 DEF AfterBindLookup, Udp
  <1>3. CASE f = StartListening(d) /\ udp.handle BY <1>1, <1>3, ListeningSound
  <1>4. CASE \/ f = [udp EXCEPT !.binding = FALSE, !.bind = "unbound"]
             \/ f = d /\ ~udp.handle
    <2>1. udp.bind = "binding" /\ ~udp.thrown BY <1>1 DEF BindState
    <2> HIDE DEF f
    <2>2. /\ f \in Udp /\ f.handle = udp.handle /\ f.hasQueue = udp.hasQueue
          /\ f.queue = udp.queue /\ ~f.binding /\ ~f.thrown /\ f.uv = udp.uv
          /\ f.closed = udp.closed /\ f.closes = udp.closes /\ f.asked = udp.asked
          /\ f.onWire = udp.onWire /\ f.failed = udp.failed
          /\ f.told = udp.told /\ f.sends = udp.sends /\ f.lateSend = udp.lateSend
          /\ f.bind = "unbound" \/ (f.bind = "binding" /\ ~udp.handle)
      <3>1. CASE f = [udp EXCEPT !.binding = FALSE, !.bind = "unbound"]
        BY <3>1, <2>1, <1>1 DEF Udp
      <3>2. CASE f = d /\ ~udp.handle
        BY <3>2, <2>1, <1>1 DEF Udp
      <3> QED BY <3>1, <3>2, <1>4
    <2>3. BindState(f) BY <2>2, <1>1 DEF BindState
    <2>4. CloseState(f) BY <2>2, <1>1 DEF CloseState
    <2>5. BehindClose(f) /\ Once(f) BY <2>2, <1>1 DEF BehindClose, Once
    <2>6. SendState(f) BY <2>2, <1>1 DEF SendState, Exclusive, Somewhere
    <2> QED BY <2>2, <2>3, <2>4, <2>5, <2>6 DEF Sound, f
  <1> QED BY <1>2, <1>3, <1>4
\* What a step that leaves the bind, the queue and the calls of close() alone has to show
LEMMA QuietSound ==
    ASSUME NEW u, Sound(u), NEW f \in Udp, f.handle = u.handle, f.bind = u.bind,
           f.hasQueue = u.hasQueue, f.queue = u.queue, f.binding = u.binding,
           f.thrown = u.thrown, f.uv = "open" <=> u.uv = "open", f.closed = u.closed,
           f.closes = u.closes, f.lateSend = u.lateSend, SendState(f)
    PROVE  Sound(f)
  <1>1. BindState(u) /\ CloseState(u) /\ BehindClose(u) /\ Once(u) BY DEF Sound
  <1>2. BindState(f) BY <1>1 DEF BindState
  <1>3. CloseState(f) BY <1>1 DEF CloseState
  <1>4. BehindClose(f) /\ Once(f) BY <1>1 DEF BehindClose, Once
  <1> QED BY <1>2, <1>3, <1>4 DEF Sound

LEMMA BindSound == DgramInv /\ DgramBind => DgramInv'
  <1> SUFFICES ASSUME DgramInv, DgramBind PROVE Sound(udp') BY DEF DgramInv
  <1>1. /\ udp \in Udp /\ BindState(udp) /\ CloseState(udp) /\ BehindClose(udp)
        /\ SendState(udp) /\ Once(udp) /\ udp.handle /\ udp.bind = "unbound"
    BY DEF DgramInv, Sound, DgramBind
  <1> DEFINE f == udp'
  <1>2. f = [udp EXCEPT !.bind = "binding", !.binding = TRUE] BY DEF DgramBind, BindCall
  <1> HIDE DEF f
  <1>3. /\ f \in Udp /\ f.handle = udp.handle /\ f.hasQueue = udp.hasQueue
        /\ f.queue = udp.queue /\ f.binding /\ f.thrown = udp.thrown /\ f.uv = udp.uv
        /\ f.closed = udp.closed /\ f.closes = udp.closes /\ f.asked = udp.asked
        /\ f.onWire = udp.onWire /\ f.failed = udp.failed
        /\ f.told = udp.told /\ f.sends = udp.sends /\ f.lateSend = udp.lateSend
        /\ f.bind = "binding"
    BY <1>1, <1>2 DEF Udp
  <1>4. BindState(f) BY <1>1, <1>3 DEF BindState
  <1>5. CloseState(f) BY <1>1, <1>3 DEF CloseState
  <1>6. BehindClose(f) /\ Once(f) BY <1>1, <1>3 DEF BehindClose, Once
  <1>7. SendState(f) BY <1>1, <1>3 DEF SendState, Exclusive, Somewhere
  <1> QED BY <1>3, <1>4, <1>5, <1>6, <1>7 DEF Sound, f

\* Datagram n, at one place, moves on to another or its callback is called
LEMMA MoveSound ==
    ASSUME NEW u, Sound(u), NEW n \in Sends, n \in u.asked \cup u.onWire \cup u.failed,
           NEW f \in Udp, f.handle = u.handle, f.bind = u.bind,
           f.hasQueue = u.hasQueue, f.queue = u.queue, f.binding = u.binding,
           f.thrown = u.thrown, f.uv = u.uv, f.closed = u.closed,
           f.closes = u.closes, f.lateSend = u.lateSend, f.sends = u.sends,
           \A m \in Sends \ {n} : /\ f.told[m] = u.told[m] /\ (m \in f.asked <=> m \in u.asked)
                                  /\ (m \in f.onWire <=> m \in u.onWire)
                                  /\ (m \in f.failed <=> m \in u.failed),
           f.told[n] = 1 => n \notin f.asked \cup f.onWire \cup f.failed,
           n \in f.asked => n \notin f.onWire \cup f.failed,
           n \in f.onWire => n \notin f.failed,
           f.told[n] = 1 \/ n \in f.asked \cup f.onWire \cup f.failed \/ ~u.handle
    PROVE  Sound(f)
  <1>1. SendState(u) /\ CloseState(u) BY DEF Sound
  <1>2. ~Waits(u.queue, n) /\ n <= u.sends BY <1>1 DEF SendState, Exclusive, Somewhere
  <1>3. ASSUME NEW m \in Sends PROVE Exclusive(f, m) /\ (Somewhere(f, m) => m <= f.sends)
    <2>1. Exclusive(u, m) /\ (Somewhere(u, m) => m <= u.sends) BY <1>1 DEF SendState
    <2>2. CASE m = n BY <2>2, <1>2 DEF Exclusive
    <2>3. CASE m # n BY <2>1, <2>3 DEF Exclusive, Somewhere
    <2> QED BY <2>2, <2>3
  <1>4. ASSUME f.closes = 0, NEW m \in Sends, m <= f.sends PROVE Somewhere(f, m)
    <2>1. u.handle /\ Somewhere(u, m) BY <1>1, <1>4 DEF SendState, CloseState
    <2>2. CASE m = n BY <2>1, <2>2 DEF Somewhere
    <2>3. CASE m # n BY <2>1, <2>3 DEF Somewhere
    <2> QED BY <2>2, <2>3
  <1>5. SendState(f) BY <1>3, <1>4 DEF SendState
  <1> QED BY <1>5, QuietSound

\* Where datagram n is, its callback was not called and it is nowhere else
LEMMA OnePlace ==
    ASSUME NEW u, Sound(u), NEW n \in Sends
    PROVE  /\ u \in Udp /\ u.told \in [Sends -> {0, 1}]
           /\ n \in u.asked \cup u.onWire \cup u.failed => u.told[n] = 0 /\ u.told[n] + 1 = 1
           /\ n \in u.asked => n \notin u.onWire \cup u.failed
           /\ n \in u.onWire => n \notin u.failed
  <1>1. u \in Udp /\ Exclusive(u, n) BY DEF Sound, SendState
  <1>2. u.told \in [Sends -> {0, 1}] BY <1>1 DEF Udp
  <1> QED BY <1>1, <1>2 DEF Exclusive

LEMMA DoSendSound ==
    ASSUME DgramInv, NEW n \in Sends, NEW found \in BOOLEAN, NEW ok \in BOOLEAN,
           DoSend(n, found, ok)
    PROVE  DgramInv'
  <1> SUFFICES Sound(udp') BY DEF DgramInv
  <1>1. Sound(udp) /\ n \in udp.asked BY DEF DgramInv, DoSend
  <1>2. /\ udp \in Udp /\ udp.told \in [Sends -> {0, 1}] /\ udp.told[n] = 0
        /\ udp.told[n] + 1 = 1 /\ n \notin udp.onWire \cup udp.failed
    BY <1>1, OnePlace
  <1> DEFINE f == udp'
  <1>3. CASE ~found
    <2> DEFINE t == [udp.told EXCEPT ![n] = 1]
    <2>1. f = [udp EXCEPT !.asked = @ \ {n}, !.told = t]
      BY <1>2, <1>3 DEF DoSend, Udp
    <2>2. t \in [Sends -> {0, 1}] /\ t[n] = 1 /\ \A m \in Sends \ {n} : t[m] = udp.told[m]
      BY <1>2
    <2> HIDE DEF f, t
    <2>3. /\ f \in Udp /\ f.handle = udp.handle /\ f.bind = udp.bind /\ f.hasQueue = udp.hasQueue
          /\ f.queue = udp.queue /\ f.binding = udp.binding /\ f.thrown = udp.thrown
          /\ f.uv = udp.uv /\ f.closed = udp.closed /\ f.closes = udp.closes
          /\ f.asked = udp.asked \ {n} /\ f.onWire = udp.onWire /\ f.failed = udp.failed
          /\ f.told = t /\ f.sends = udp.sends /\ f.lateSend = udp.lateSend
      BY <2>1, <2>2, <1>2 DEF Udp
    <2>4. Sound(f) BY <2>2, <2>3, <1>1, <1>2, MoveSound
    <2> QED BY <2>4 DEF f
  <1>4. CASE found /\ ~udp.handle
    <2>1. f = [udp EXCEPT !.asked = @ \ {n}] BY <1>2, <1>4 DEF DoSend, Udp
    <2> HIDE DEF f
    <2>3. /\ f \in Udp /\ f.handle = udp.handle /\ f.bind = udp.bind /\ f.hasQueue = udp.hasQueue
          /\ f.queue = udp.queue /\ f.binding = udp.binding /\ f.thrown = udp.thrown
          /\ f.uv = udp.uv /\ f.closed = udp.closed /\ f.closes = udp.closes
          /\ f.asked = udp.asked \ {n} /\ f.onWire = udp.onWire /\ f.failed = udp.failed
          /\ f.told = udp.told /\ f.sends = udp.sends /\ f.lateSend = udp.lateSend
      BY <2>1, <1>2 DEF Udp
    <2>4. Sound(f) BY <2>3, <1>1, <1>2, <1>4, MoveSound
    <2> QED BY <2>4 DEF f
  <1>5. CASE found /\ udp.handle /\ ok
    <2>1. f = [udp EXCEPT !.asked = @ \ {n}, !.onWire = @ \cup {n}]
      BY <1>2, <1>5 DEF DoSend, Udp, UdpSend, SendReq
    <2> HIDE DEF f
    <2>3. /\ f \in Udp /\ f.handle = udp.handle /\ f.bind = udp.bind /\ f.hasQueue = udp.hasQueue
          /\ f.queue = udp.queue /\ f.binding = udp.binding /\ f.thrown = udp.thrown
          /\ f.uv = udp.uv /\ f.closed = udp.closed /\ f.closes = udp.closes
          /\ f.asked = udp.asked \ {n} /\ f.onWire = udp.onWire \cup {n} /\ f.failed = udp.failed
          /\ f.told = udp.told /\ f.sends = udp.sends /\ f.lateSend = udp.lateSend
      BY <2>1, <1>2 DEF Udp
    <2>4. Sound(f) BY <2>3, <1>1, <1>2, MoveSound
    <2> QED BY <2>4 DEF f
  <1>6. CASE found /\ udp.handle /\ ~ok
    <2>1. f = [udp EXCEPT !.asked = @ \ {n}, !.onWire = (@ \cup {n}) \ {n},
                          !.failed = @ \cup {n}]
      BY <1>2, <1>6 DEF DoSend, Udp, UdpSend, SendReq, SendReqDispatched
    <2> HIDE DEF f
    <2>3. /\ f \in Udp /\ f.handle = udp.handle /\ f.bind = udp.bind /\ f.hasQueue = udp.hasQueue
          /\ f.queue = udp.queue /\ f.binding = udp.binding /\ f.thrown = udp.thrown
          /\ f.uv = udp.uv /\ f.closed = udp.closed /\ f.closes = udp.closes
          /\ f.asked = udp.asked \ {n} /\ f.onWire = (udp.onWire \cup {n}) \ {n}
          /\ f.failed = udp.failed \cup {n}
          /\ f.told = udp.told /\ f.sends = udp.sends /\ f.lateSend = udp.lateSend
      BY <2>1, <1>2 DEF Udp
    <2>4. Sound(f) BY <2>3, <1>1, <1>2, MoveSound
    <2> QED BY <2>4 DEF f
  <1> QED BY <1>3, <1>4, <1>5, <1>6

\* The callback is called: by the tick of an error or by OnSend
LEMMA ToldSound ==
    ASSUME DgramInv, NEW n \in Sends, SendFailedTick(n) \/ OnSend(n)
    PROVE  DgramInv'
  <1> SUFFICES Sound(udp') BY DEF DgramInv
  <1>1. Sound(udp) /\ n \in udp.asked \cup udp.onWire \cup udp.failed
    BY DEF DgramInv, SendFailedTick, OnSend
  <1>2. /\ udp \in Udp /\ udp.told \in [Sends -> {0, 1}] /\ udp.told[n] = 0
        /\ udp.told[n] + 1 = 1
        /\ n \in udp.asked => n \notin udp.onWire \cup udp.failed
        /\ n \in udp.onWire => n \notin udp.failed
    BY <1>1, OnePlace
  <1> DEFINE f == udp'
             t == [udp.told EXCEPT ![n] = 1]
  <1>3. t \in [Sends -> {0, 1}] /\ t[n] = 1 /\ \A m \in Sends \ {n} : t[m] = udp.told[m]
    BY <1>2
  <1>4. CASE SendFailedTick(n)
    <2>1. n \in udp.failed /\ f = [udp EXCEPT !.failed = @ \ {n}, !.told = t]
      BY <1>2, <1>4 DEF SendFailedTick, Udp
    <2> HIDE DEF f, t
    <2>3. /\ f \in Udp /\ f.handle = udp.handle /\ f.bind = udp.bind /\ f.hasQueue = udp.hasQueue
          /\ f.queue = udp.queue /\ f.binding = udp.binding /\ f.thrown = udp.thrown
          /\ f.uv = udp.uv /\ f.closed = udp.closed /\ f.closes = udp.closes
          /\ f.asked = udp.asked /\ f.onWire = udp.onWire /\ f.failed = udp.failed \ {n}
          /\ f.told = t /\ f.sends = udp.sends /\ f.lateSend = udp.lateSend
      BY <2>1, <1>2, <1>3 DEF Udp
    <2>4. /\ n \notin f.asked \cup f.onWire \cup f.failed /\ f.told[n] = 1
          /\ \A m \in Sends \ {n} : /\ f.told[m] = udp.told[m] /\ (m \in f.asked <=> m \in udp.asked)
                                    /\ (m \in f.onWire <=> m \in udp.onWire)
                                    /\ (m \in f.failed <=> m \in udp.failed)
      BY <2>1, <2>3, <1>2, <1>3
    <2>5. Sound(f) BY <2>3, <2>4, <1>1, MoveSound
    <2> QED BY <2>5 DEF f
  <1>5. CASE OnSend(n)
    <2>1. n \in udp.onWire /\ f = [udp EXCEPT !.onWire = @ \ {n}, !.told = t]
      BY <1>2, <1>5 DEF OnSend, SendReqDispatched, Udp
    <2> HIDE DEF f, t
    <2>3. /\ f \in Udp /\ f.handle = udp.handle /\ f.bind = udp.bind /\ f.hasQueue = udp.hasQueue
          /\ f.queue = udp.queue /\ f.binding = udp.binding /\ f.thrown = udp.thrown
          /\ f.uv = udp.uv /\ f.closed = udp.closed /\ f.closes = udp.closes
          /\ f.asked = udp.asked /\ f.onWire = udp.onWire \ {n} /\ f.failed = udp.failed
          /\ f.told = t /\ f.sends = udp.sends /\ f.lateSend = udp.lateSend
      BY <2>1, <1>2, <1>3 DEF Udp
    <2>4. /\ n \notin f.asked \cup f.onWire \cup f.failed /\ f.told[n] = 1
          /\ \A m \in Sends \ {n} : /\ f.told[m] = udp.told[m] /\ (m \in f.asked <=> m \in udp.asked)
                                    /\ (m \in f.onWire <=> m \in udp.onWire)
                                    /\ (m \in f.failed <=> m \in udp.failed)
      BY <2>1, <2>3, <1>2, <1>3
    <2>5. Sound(f) BY <2>3, <2>4, <1>1, MoveSound
    <2> QED BY <2>5 DEF f
  <1> QED BY <1>4, <1>5

LEMMA OnCloseSound == DgramInv /\ DgramOnClose => DgramInv'
  <1> SUFFICES ASSUME DgramInv, DgramOnClose PROVE Sound(udp') BY DEF DgramInv
  <1>1. Sound(udp) /\ udp \in Udp /\ SendState(udp) /\ udp.uv = "closing"
    BY DEF DgramInv, DgramOnClose, Sound
  <1> DEFINE f == udp'
  <1>2. f = [udp EXCEPT !.uv = "closed"] BY DEF DgramOnClose
  <1> HIDE DEF f
  <1>3. /\ f \in Udp /\ f.handle = udp.handle /\ f.bind = udp.bind /\ f.hasQueue = udp.hasQueue
        /\ f.queue = udp.queue /\ f.binding = udp.binding /\ f.thrown = udp.thrown
        /\ f.uv = "closed" /\ f.closed = udp.closed /\ f.closes = udp.closes
        /\ f.asked = udp.asked /\ f.onWire = udp.onWire /\ f.failed = udp.failed
        /\ f.told = udp.told /\ f.sends = udp.sends /\ f.lateSend = udp.lateSend
    BY <1>1, <1>2 DEF Udp
  <1>4. SendState(f) BY <1>1, <1>3 DEF SendState, Exclusive, Somewhere
  <1>5. Sound(f) BY <1>1, <1>3, <1>4, QuietSound
  <1> QED BY <1>5 DEF f

LEMMA DgramStarts == DgramInit => DgramInv
  <1> SUFFICES ASSUME DgramInit PROVE Sound(udp) BY DEF DgramInv
  <1> DEFINE t == [n \in Sends |-> 0]
  <1>1. t \in [Sends -> {0, 1}] /\ \A n \in Sends : t[n] = 0 OBVIOUS
  <1>2. << >> \in Seq(0 .. MaxSends) /\ 0 \in 0 .. MaxSends BY DgramAssumption
  <1> HIDE DEF t
  <1>3. /\ udp \in Udp /\ udp.handle /\ udp.bind = "unbound" /\ ~udp.hasQueue
        /\ udp.queue = << >> /\ ~udp.binding /\ ~udp.thrown /\ udp.uv = "open"
        /\ udp.closed = 0 /\ udp.closes = 0 /\ udp.asked = {} /\ udp.onWire = {}
        /\ udp.failed = {} /\ udp.told = t /\ udp.sends = 0 /\ ~udp.lateSend
    <2>1. udp = [handle |-> TRUE, bind |-> "unbound", hasQueue |-> FALSE, queue |-> << >>,
                 receiving |-> FALSE, uv |-> "open", recv |-> FALSE, binding |-> FALSE,
                 asked |-> {}, onWire |-> {}, failed |-> {}, told |-> t, sends |-> 0,
                 closes |-> 0, closed |-> 0, lateSend |-> FALSE, thrown |-> FALSE]
      BY DEF DgramInit, t
    <2> QED BY <2>1, <1>1, <1>2 DEF Udp
  <1>4. BindState(udp) BY <1>3 DEF BindState
  <1>5. CloseState(udp) BY <1>3, NothingQueued DEF CloseState
  <1>6. BehindClose(udp) /\ Once(udp) BY <1>3 DEF BehindClose, Once
  <1>7. SendState(udp)
    <2>1. \A n \in Sends : ~Somewhere(udp, n) BY <1>1, <1>3, NothingQueued DEF Somewhere
    <2>2. \A n \in Sends : ~(n <= 0) BY DEF Sends
    <2> QED BY <2>1, <2>2, <1>3 DEF SendState, Somewhere, Exclusive
  <1> QED BY <1>3, <1>4, <1>5, <1>6, <1>7 DEF Sound

LEMMA DgramKeeps == DgramInv /\ [DgramNext]_udp => DgramInv'
  <1> SUFFICES ASSUME DgramInv, [DgramNext]_udp PROVE DgramInv' OBVIOUS
  <1>1. CASE DgramBind BY <1>1, BindSound
  <1>2. CASE DgramSend BY <1>2, SendSound
  <1>3. CASE DgramClose BY <1>3, CloseSound
  <1>4. ASSUME NEW found \in BOOLEAN, NEW ok \in BOOLEAN, AfterBindLookup(found, ok)
        PROVE  DgramInv'
    BY <1>4, BindAnswerSound
  <1>5. ASSUME NEW n \in Sends, NEW found \in BOOLEAN, NEW ok \in BOOLEAN, DoSend(n, found, ok)
        PROVE  DgramInv'
    BY <1>5, DoSendSound
  <1>6. ASSUME NEW n \in Sends, SendFailedTick(n) \/ OnSend(n) PROVE DgramInv'
    BY <1>6, ToldSound
  <1>7. CASE OnRecv \/ UNCHANGED udp BY <1>7 DEF OnRecv, DgramInv
  <1>8. CASE DgramOnClose BY <1>8, OnCloseSound
  <1> QED BY <1>1, <1>2, <1>3, <1>4, <1>5, <1>6, <1>7, <1>8 DEF DgramNext

\* Each state that the invariant allows settles as DgramSettles says
LEMMA SoundSettles == DgramInv => DgramSettles
  <1> SUFFICES ASSUME DgramInv PROVE DgramSettles OBVIOUS
  <1>1. udp \in Udp /\ BindState(udp) /\ CloseState(udp) /\ SendState(udp)
    BY DEF DgramInv, Sound
  <1>2. /\ udp.told \in [Sends -> {0, 1}] /\ udp.sends \in 0 .. MaxSends
        /\ udp.uv \in {"open", "closing", "closed"} /\ udp.handle \in BOOLEAN
        /\ udp.bind \in {"unbound", "binding", "bound"} /\ udp.closes \in Nat
    BY <1>1 DEF Udp
  <1>3. \A n \in Sends : udp.told[n] <= 1 BY <1>2
  <1>4. udp.thrown => udp.lateSend \/ udp.closes > 1 BY <1>1 DEF BindState
  <1>5. ASSUME DgramSettled, NEW e, Waits(udp.queue, e)
        PROVE  udp.bind = "unbound" /\ Contains(udp.queue, e)
    <2>1. udp.hasQueue BY <1>1, <1>5, NothingQueued DEF BindState
    <2>2. udp.bind = "unbound" BY <2>1, <1>1, <1>2, <1>5 DEF BindState, DgramSettled
    <2> QED BY <2>2, <1>5 DEF Waits, Contains
  <1>6. ASSUME DgramSettled, udp.closes = 0, NEW n \in 1 .. udp.sends
        PROVE  udp.told[n] = 1 \/ (udp.bind = "unbound" /\ Contains(udp.queue, n))
    <2>1. n \in Sends /\ n <= udp.sends BY <1>2, DgramAssumption DEF Sends
    <2>2. Somewhere(udp, n) BY <2>1, <1>1, <1>6 DEF SendState
    <2> QED BY <2>2, <1>5, <1>6 DEF Somewhere, DgramSettled
  <1>7. ASSUME DgramSettled, udp.closes > 0
        PROVE  \/ udp.uv = "closed" /\ udp.closed = 1
               \/ udp.bind = "unbound" /\ Contains(udp.queue, ToClose)
    BY <1>1, <1>2, <1>5, <1>7 DEF CloseState, DgramSettled
  <1> QED BY <1>3, <1>4, <1>6, <1>7 DEF DgramSettles

\* The inductive invariant holds of every UDP socket: a datagram is in one place
\* only, a queue exists only while no bind has succeeded, and a close was carried out
\* once or waits in the queue (dgram.js), for any number of sends.
THEOREM DgramInvariance == DgramSpec => []DgramInv
  BY DgramStarts, DgramKeeps, PTL DEF DgramSpec

\* The callback of send() is called at most once and is called unless the socket was
\* closed under the datagram or its bind failed; close() closes the native handle unless
\* it waits for a bind that failed (dgram.js, send, doSend, close and clearQueue).
THEOREM DgramsSettle == DgramSpec => []DgramSettles
  BY DgramInvariance, SoundSettles, PTL

-----------------------------------------------------------------------------
(* The ring buffer of TLS *)

\* The ring buffer alone
BioSpec == BioInit /\ [][BioNext]_bio

Ring == [wrSz : {RingSize}, wrIdx : 0 .. RingSize, rdIdx : 0 .. RingSize - 1,
         mem : [0 .. RingSize - 1 -> Nat]]

BioTypes ==
    bio \in [ring : Ring, paired : BOOLEAN, written : Nat, read : Seq(Nat), strayed : BOOLEAN]

\* How much is pending, and whether slot j of the ring holds a byte of it
Pending(w, r) ==
    IF w > r THEN w - r ELSE IF r = 0 THEN 0 ELSE RingSize - r + w
Holds(w, r, j) ==
    IF w > r THEN r <= j /\ j < w ELSE r > 0 /\ (r <= j \/ j < w)

\* The number of the byte in slot j when the first k bytes have been read
Place(r, k, j) == IF r <= j THEN k + j - r + 1 ELSE k + RingSize - r + j + 1

\* The indices w and r enclose the bytes that follow the first k, up to the last n
Encloses(mem, w, r, k, n) ==
    /\ n = k + Pending(w, r)
    /\ \A j \in 0 .. RingSize - 1 : Holds(w, r, j) => mem[j] = Place(r, k, j)

\* What was read is the first bytes written, and the ring holds the others
BioInv ==
    /\ BioTypes
    /\ bio.strayed \/
         /\ \A i \in 1 .. Len(bio.read) : bio.read[i] = i
         /\ Encloses(bio.ring.mem, bio.ring.wrIdx, bio.ring.rdIdx, Len(bio.read), bio.written)

\* Where a write starts and how much room it has, given the two indices
Start(w, r) == IF w >= RingSize /\ r > 0 THEN 0 ELSE w
Room(w, r) ==
    IF w < r THEN r - w
    ELSE IF r > 0 /\ w = r THEN 0
    ELSE IF w < RingSize THEN RingSize - w
    ELSE r
Wrapped(w, r) == IF w = RingSize /\ r > 0 THEN 0 ELSE w

\* What a write of sz bytes from `start' does to the indices w and r: it fills slots that
\* held nothing, in order behind what was pending
Fills(w, r, start, sz) ==
    LET wx == Wrapped(start + sz, r)
    IN  /\ start \in 0 .. RingSize - 1 /\ start + sz \in 1 .. RingSize
        /\ wx \in 0 .. RingSize
        /\ Pending(wx, r) = Pending(w, r) + sz
        /\ \A j \in 0 .. RingSize - 1 :
              Holds(wx, r, j) /\ ~Holds(w, r, j) => j \in start .. start + sz - 1
        /\ \A j \in start .. start + sz - 1, k \in Int :
              /\ ~Holds(w, r, j)
              /\ k + Pending(w, r) + (j - start + 1) = Place(r, k, j)

\* A write of sz bytes that fits in the room
LEMMA WriteIndices ==
    ASSUME NEW w \in 0 .. RingSize, NEW r \in 0 .. RingSize - 1, NEW sz \in Nat \ {0},
           sz <= Room(w, r)
    PROVE  Fills(w, r, Start(w, r), sz)
  <1> USE BioAssumption
  <1>1. Start(w, r) \in 0 .. RingSize - 1 /\ Start(w, r) + sz \in 1 .. RingSize
        /\ Wrapped(Start(w, r) + sz, r) \in 0 .. RingSize
    BY DEF Start, Room, Wrapped
  <1>2. Pending(Wrapped(Start(w, r) + sz, r), r) = Pending(w, r) + sz
    BY DEF Start, Room, Pending, Wrapped
  <1>3. ASSUME NEW j \in 0 .. RingSize - 1,
               Holds(Wrapped(Start(w, r) + sz, r), r, j), ~Holds(w, r, j)
        PROVE  j \in Start(w, r) .. Start(w, r) + sz - 1
    BY <1>3 DEF Start, Room, Holds, Wrapped
  <1>4. ASSUME NEW j \in Start(w, r) .. Start(w, r) + sz - 1, NEW k \in Int
        PROVE  ~Holds(w, r, j) /\ k + Pending(w, r) + (j - Start(w, r) + 1) = Place(r, k, j)
    BY <1>1 DEF Start, Room, Holds, Pending, Place
  <1> QED BY <1>1, <1>2, <1>3, <1>4 DEF Fills

\* How much a read gets, and the two indices after it took sz bytes
Avail(w, r) == IF w > 0 /\ r >= w THEN RingSize - r ELSE w - r
Turned(r, sz) == IF r + sz = RingSize THEN 0 ELSE r + sz
Follows(w, r, sz) == IF r + sz = RingSize /\ w = RingSize THEN 0 ELSE w
ReadTo(w, r, sz) == IF Turned(r, sz) = Follows(w, r, sz) THEN 0 ELSE Turned(r, sz)
WrittenTo(w, r, sz) == IF Turned(r, sz) = Follows(w, r, sz) THEN 0 ELSE Follows(w, r, sz)

\* What a read of sz bytes does to the indices: it takes the first of what is pending
\* and leaves the rest
Takes(w, r, sz) ==
    LET rx == ReadTo(w, r, sz)
        wx == WrittenTo(w, r, sz)
    IN  /\ rx \in 0 .. RingSize - 1 /\ wx \in 0 .. RingSize
        /\ Pending(w, r) = Pending(wx, rx) + sz
        /\ \A j \in 0 .. RingSize - 1, k \in Int :
              Holds(wx, rx, j) => Holds(w, r, j) /\ Place(rx, k + sz, j) = Place(r, k, j)
        /\ \A i \in 1 .. sz, k \in Int :
              /\ r + i - 1 \in 0 .. RingSize - 1 /\ Holds(w, r, r + i - 1)
              /\ Place(r, k, r + i - 1) = k + i

\* A read of sz bytes that are there
LEMMA ReadIndices ==
    ASSUME NEW w \in 0 .. RingSize, NEW r \in 0 .. RingSize - 1, NEW sz \in Nat \ {0},
           sz <= Avail(w, r)
    PROVE  Takes(w, r, sz)
  <1> USE BioAssumption
  <1>1. ReadTo(w, r, sz) \in 0 .. RingSize - 1 /\ WrittenTo(w, r, sz) \in 0 .. RingSize
    BY DEF Avail, ReadTo, WrittenTo, Turned, Follows
  <1>2. Pending(w, r) = Pending(WrittenTo(w, r, sz), ReadTo(w, r, sz)) + sz
    BY DEF Avail, ReadTo, WrittenTo, Turned, Follows, Pending
  <1>3. ASSUME NEW j \in 0 .. RingSize - 1, NEW k \in Int,
               Holds(WrittenTo(w, r, sz), ReadTo(w, r, sz), j)
        PROVE  Holds(w, r, j) /\ Place(ReadTo(w, r, sz), k + sz, j) = Place(r, k, j)
    BY <1>3 DEF Avail, ReadTo, WrittenTo, Turned, Follows, Holds, Place
  <1>4. ASSUME NEW i \in 1 .. sz, NEW k \in Int
        PROVE  /\ r + i - 1 \in 0 .. RingSize - 1 /\ Holds(w, r, r + i - 1)
               /\ Place(r, k, r + i - 1) = k + i
    BY DEF Avail, Holds, Place
  <1> QED BY <1>1, <1>2, <1>3, <1>4 DEF Takes

\* A read when the write index has wrapped to 0 brings the read index there
LEMMA StrayIndices ==
    ASSUME NEW w \in 0 .. RingSize, NEW r \in 0 .. RingSize - 1, Avail(w, r) < 0
    PROVE  /\ ReadTo(w, r, Avail(w, r)) = 0 /\ WrittenTo(w, r, Avail(w, r)) = 0
  BY BioAssumption DEF Avail, ReadTo, WrittenTo, Turned, Follows

-----------------------------------------------------------------------------

LEMMA RingFields ==
    ASSUME NEW b \in Ring
    PROVE  /\ b.wrSz = RingSize /\ b.wrIdx \in 0 .. RingSize /\ b.rdIdx \in 0 .. RingSize - 1
           /\ b.mem \in [0 .. RingSize - 1 -> Nat]
           /\ WrStart(b) = Start(b.wrIdx, b.rdIdx) /\ WrRoom(b) = Room(b.wrIdx, b.rdIdx)
           /\ BioNread0(b) = Avail(b.wrIdx, b.rdIdx)
           /\ Room(b.wrIdx, b.rdIdx) \in Nat /\ Avail(b.wrIdx, b.rdIdx) \in Int
  <1>1. /\ b.wrSz = RingSize /\ b.wrIdx \in 0 .. RingSize /\ b.rdIdx \in 0 .. RingSize - 1
        /\ b.mem \in [0 .. RingSize - 1 -> Nat]
    BY DEF Ring
  <1>2. WrStart(b) = Start(b.wrIdx, b.rdIdx) /\ WrRoom(b) = Room(b.wrIdx, b.rdIdx)
        /\ BioNread0(b) = Avail(b.wrIdx, b.rdIdx)
    BY <1>1 DEF WrStart, Start, WrRoom, Room, BioNread0, Avail
  <1>3. \A w \in 0 .. RingSize, r \in 0 .. RingSize - 1 : Room(w, r) \in Nat /\ Avail(w, r) \in Int
    BY BioAssumption DEF Room, Avail
  <1> QED BY <1>1, <1>2, <1>3

\* iotjs_bio_write takes the next bytes of the writer and leaves those that are pending
LEMMA WriteEncloses ==
    ASSUME NEW b \in Ring, NEW n \in Nat, NEW m \in Nat \ {0}
    PROVE  /\ BioWrite(b, Numbers(n, m)).bio \in Ring
           /\ BioWrite(b, Numbers(n, m)).taken \in Nat
           /\ \A k \in Nat :
                 Encloses(b.mem, b.wrIdx, b.rdIdx, k, n) =>
                    Encloses(BioWrite(b, Numbers(n, m)).bio.mem,
                             BioWrite(b, Numbers(n, m)).bio.wrIdx,
                             BioWrite(b, Numbers(n, m)).bio.rdIdx, k,
                             n + BioWrite(b, Numbers(n, m)).taken)
  <1> DEFINE w == b.wrIdx
             r == b.rdIdx
             start == Start(w, r)
             sz == IntMin(m, Room(w, r))
             wr == start + sz
             mem == [i \in 0 .. RingSize - 1 |->
                       IF i \in start .. wr - 1 THEN Numbers(n, m)[i - start + 1] ELSE b.mem[i]]
             wx == Wrapped(wr, r)
             v == BioWrite(b, Numbers(n, m))
  <1>1. CASE Room(w, r) = 0
    <2>1. v = [bio |-> b, taken |-> 0] BY <1>1, RingFields DEF BioWrite
    <2> QED BY <2>1
  <1>2. CASE Room(w, r) # 0
    <2>1. /\ b.wrSz = RingSize /\ w \in 0 .. RingSize /\ r \in 0 .. RingSize - 1
          /\ b.mem \in [0 .. RingSize - 1 -> Nat]
          /\ WrStart(b) = start /\ WrRoom(b) = Room(w, r) /\ Room(w, r) \in Nat
      BY RingFields
    <2>2. /\ Len(Numbers(n, m)) = m /\ \A i \in 1 .. m : Numbers(n, m)[i] = n + i
      BY DEF Numbers
    <2>3. sz \in Nat \ {0} /\ sz <= Room(w, r) /\ sz <= m
      BY <1>2, <2>1 DEF IntMin
    <2> HIDE DEF sz, w, r
    <2> HIDE DEF start
    <2>4. /\ start \in 0 .. RingSize - 1 /\ wr \in 1 .. RingSize /\ wx \in 0 .. RingSize
          /\ Pending(wx, r) = Pending(w, r) + sz
          /\ \A j \in 0 .. RingSize - 1 :
                Holds(wx, r, j) /\ ~Holds(w, r, j) => j \in start .. wr - 1
          /\ \A j \in start .. wr - 1, k \in Int :
                ~Holds(w, r, j) /\ k + Pending(w, r) + (j - start + 1) = Place(r, k, j)
      <3>1. Fills(w, r, start, sz) BY <2>1, <2>3, WriteIndices DEF start
      <3>2. start \in 0 .. RingSize - 1 /\ wr \in 1 .. RingSize /\ wx \in 0 .. RingSize
        BY <3>1 DEF Fills
      <3>3. Pending(wx, r) = Pending(w, r) + sz BY <3>1 DEF Fills
      <3>4. \A j \in 0 .. RingSize - 1 :
                Holds(wx, r, j) /\ ~Holds(w, r, j) => j \in start .. wr - 1
        BY <2>3, <3>1, <3>2 DEF Fills
      <3>5. \A j \in start .. wr - 1, k \in Int :
                ~Holds(w, r, j) /\ k + Pending(w, r) + (j - start + 1) = Place(r, k, j)
        BY <2>3, <3>1, <3>2 DEF Fills
      <3> QED BY <3>2, <3>3, <3>4, <3>5
    <2>5. \A i \in start .. wr - 1 : Numbers(n, m)[i - start + 1] = n + (i - start + 1)
      BY <2>2, <2>3, <2>4
    <2>6. v = [bio |-> [b EXCEPT !.mem = mem, !.wrIdx = wx], taken |-> sz]
      <3>1. DOMAIN b.mem = 0 .. RingSize - 1 BY <2>1
      <3>2. wx = IF wr = b.wrSz /\ b.rdIdx > 0 THEN 0 ELSE wr BY <2>1 DEF Wrapped, r
      <3> QED BY <1>2, <2>1, <2>2, <3>1, <3>2 DEF BioWrite, sz, start, w, r
    <2>7. mem \in [0 .. RingSize - 1 -> Nat]
      <3>1. \A i \in 0 .. RingSize - 1 : b.mem[i] \in Nat BY <2>1
      <3>2. \A i \in start .. wr - 1 : Numbers(n, m)[i - start + 1] \in Nat
        BY <2>3, <2>4, <2>5
      <3> QED BY <3>1, <3>2
    <2> HIDE DEF wx
    <2>8. ASSUME NEW k \in Nat, Encloses(b.mem, w, r, k, n)
          PROVE  Encloses(mem, wx, r, k, n + sz)
      <3>1. n = k + Pending(w, r) BY <2>8 DEF Encloses
      <3>2. Pending(w, r) \in Int BY <2>1, BioAssumption DEF Pending
      <3>3. ASSUME NEW j \in 0 .. RingSize - 1, Holds(wx, r, j) PROVE mem[j] = Place(r, k, j)
        <4>1. CASE j \in start .. wr - 1
          <5>1. mem[j] = n + (j - start + 1) BY <4>1, <2>5
          <5>2. k + Pending(w, r) + (j - start + 1) = Place(r, k, j) BY <4>1, <2>4
          <5> QED BY <5>1, <5>2, <3>1
        <4>2. CASE j \notin start .. wr - 1
          <5>1. mem[j] = b.mem[j] BY <4>2
          <5>2. Holds(w, r, j) BY <4>2, <3>3, <2>4
          <5> QED BY <5>1, <5>2, <2>8 DEF Encloses
        <4> QED BY <4>1, <4>2
      <3>4. n + sz = k + Pending(wx, r) BY <3>1, <3>2, <2>3, <2>4
      <3> QED BY <3>3, <3>4 DEF Encloses
    <2> HIDE DEF mem
    <2>9. v.bio = [b EXCEPT !.mem = mem, !.wrIdx = wx] /\ v.taken = sz BY <2>6
    <2>10. v.bio \in Ring /\ v.bio.mem = mem /\ v.bio.wrIdx = wx /\ v.bio.rdIdx = r
      BY <2>4, <2>7, <2>9 DEF Ring, r
    <2> QED BY <2>3, <2>8, <2>9, <2>10 DEF w, r
  <1> QED BY <1>1, <1>2

\* RdAdvance in terms of the indices
LEMMA Advance ==
    ASSUME NEW b \in Ring, NEW sz \in Int
    PROVE  RdAdvance(b, sz) = [b EXCEPT !.rdIdx = ReadTo(b.wrIdx, b.rdIdx, sz),
                                        !.wrIdx = WrittenTo(b.wrIdx, b.rdIdx, sz)]
  BY RingFields DEF RdAdvance, ReadTo, WrittenTo, Turned, Follows

\* iotjs_bio_read gives the next bytes to the reader, unless the write index has wrapped
LEMMA ReadEncloses ==
    ASSUME NEW b \in Ring, NEW m \in Nat \ {0}
    PROVE  /\ BioRead(b, m).bio \in Ring
           /\ BioRead(b, m).bytes \in Seq(Nat)
           /\ BioNread0(b) >= 0 =>
                \A k \in Nat, n \in Nat :
                   Encloses(b.mem, b.wrIdx, b.rdIdx, k, n) =>
                      /\ \A i \in 1 .. Len(BioRead(b, m).bytes) : BioRead(b, m).bytes[i] = k + i
                      /\ Encloses(BioRead(b, m).bio.mem, BioRead(b, m).bio.wrIdx,
                                  BioRead(b, m).bio.rdIdx, k + Len(BioRead(b, m).bytes), n)
  <1> DEFINE w == b.wrIdx
             r == b.rdIdx
             sz == IntMin(m, Avail(w, r))
             rx == ReadTo(w, r, sz)
             wx == WrittenTo(w, r, sz)
             v == BioRead(b, m)
  <1>1. /\ b.wrSz = RingSize /\ w \in 0 .. RingSize /\ r \in 0 .. RingSize - 1
        /\ b.mem \in [0 .. RingSize - 1 -> Nat]
        /\ BioNread0(b) = Avail(w, r) /\ Avail(w, r) \in Int
    BY RingFields
  <1>2. CASE Avail(w, r) = 0
    <2>1. v = [bio |-> b, bytes |-> << >>] BY <1>1, <1>2 DEF BioRead
    <2>2. v.bytes = << >> /\ v.bio = b /\ Len(<< >>) = 0 BY <2>1
    <2> QED BY <2>2
  <1>3. sz \in Int BY <1>1 DEF IntMin
  <1>4. Avail(w, r) # 0 =>
           /\ v.bio = [b EXCEPT !.rdIdx = rx, !.wrIdx = wx]
           /\ v.bytes = [i \in 1 .. (IF sz > 0 THEN sz ELSE 0) |-> b.mem[r + i - 1]]
    <2>1. RdAdvance(b, sz) = [b EXCEPT !.rdIdx = rx, !.wrIdx = wx] BY <1>3, Advance
    <2> QED BY <2>1, <1>1 DEF BioRead
  <1>5. CASE Avail(w, r) < 0
    <2>1. sz = Avail(w, r) BY <1>1, <1>5 DEF IntMin
    <2>2. rx = 0 /\ wx = 0 BY <2>1, <1>1, <1>5, StrayIndices
    <2>3. v.bytes = << >>
      <3>1. ~(sz > 0) BY <2>1, <1>1, <1>5
      <3>2. v.bytes = [i \in 1 .. 0 |-> b.mem[r + i - 1]] BY <3>1, <1>1, <1>4, <1>5
      <3> QED BY <3>2
    <2>4. v.bio = [b EXCEPT !.rdIdx = 0, !.wrIdx = 0] BY <2>2, <1>1, <1>4, <1>5
    <2>5. v.bio \in Ring
      <3>1. 0 \in 0 .. RingSize - 1 /\ 0 \in 0 .. RingSize BY BioAssumption
      <3> QED BY <3>1, <2>4 DEF Ring
    <2> QED BY <2>3, <2>5, <1>1, <1>5
  <1>6. CASE Avail(w, r) > 0
    <2>1. sz \in Nat \ {0} /\ sz <= Avail(w, r) BY <1>1, <1>6 DEF IntMin
    <2> HIDE DEF sz
    <2>2. Takes(w, r, sz) BY <2>1, <1>1, ReadIndices
    <2>3. rx \in 0 .. RingSize - 1 /\ wx \in 0 .. RingSize BY <2>2 DEF Takes
    <2>4. v.bytes = [i \in 1 .. sz |-> b.mem[r + i - 1]]
      <3>1. sz > 0 /\ Avail(w, r) # 0 BY <2>1, <1>1, <1>6
      <3> HIDE DEF w, r, v, rx, wx
      <3> QED BY <3>1, <1>4
    <2>5. \A i \in 1 .. sz : r + i - 1 \in 0 .. RingSize - 1
      BY <2>1, <2>2, <1>1 DEF Takes
    <2>6. v.bytes \in Seq(Nat) /\ Len(v.bytes) = sz
      <3>1. \A i \in 1 .. sz : b.mem[r + i - 1] \in Nat BY <2>5, <1>1
      <3> HIDE DEF w, r, v
      <3> QED BY <2>1, <2>4, <3>1
    <2>7. v.bio \in Ring /\ v.bio.mem = b.mem /\ v.bio.wrIdx = wx /\ v.bio.rdIdx = rx
      <3>1. v.bio = [b EXCEPT !.rdIdx = rx, !.wrIdx = wx] BY <1>1, <1>4, <1>6
      <3> HIDE DEF rx, wx
      <3> QED BY <3>1, <2>3 DEF Ring
    <2> HIDE DEF w, r, rx, wx, v
    <2>8. ASSUME NEW k \in Nat, NEW n \in Nat, Encloses(b.mem, w, r, k, n)
          PROVE  /\ \A i \in 1 .. sz : v.bytes[i] = k + i
                 /\ Encloses(b.mem, wx, rx, k + sz, n)
      <3>1. ASSUME NEW i \in 1 .. sz PROVE v.bytes[i] = k + i
        <4>1. /\ r + i - 1 \in 0 .. RingSize - 1 /\ Holds(w, r, r + i - 1)
              /\ Place(r, k, r + i - 1) = k + i
          BY <2>1, <2>2 DEF Takes
        <4>2. b.mem[r + i - 1] = Place(r, k, r + i - 1) BY <4>1, <2>8 DEF Encloses
        <4> QED BY <4>1, <4>2, <2>4
      <3>2. n = k + sz + Pending(wx, rx)
        <4>1. Pending(w, r) = Pending(wx, rx) + sz BY <2>2 DEF Takes, rx, wx
        <4>2. n = k + Pending(w, r) BY <2>8 DEF Encloses
        <4>3. Pending(wx, rx) \in Int BY <2>3, BioAssumption DEF Pending
        <4> QED BY <4>1, <4>2, <4>3, <2>1
      <3>3. ASSUME NEW j \in 0 .. RingSize - 1, Holds(wx, rx, j)
            PROVE  b.mem[j] = Place(rx, k + sz, j)
        <4>1. Holds(w, r, j) /\ Place(rx, k + sz, j) = Place(r, k, j)
          BY <3>3, <2>2, <2>1 DEF Takes, rx, wx
        <4> QED BY <4>1, <2>8 DEF Encloses
      <3> QED BY <3>1, <3>2, <3>3 DEF Encloses
    <2> QED BY <2>6, <2>7, <2>8 DEF v, w, r
  <1> QED BY <1>1, <1>2, <1>5, <1>6

\* What the bytes taken and given do to what is known of the reader
CountsFrom(s, k) == \A i \in 1 .. Len(s) : s[i] = k + i

LEMMA CountsOn ==
    ASSUME NEW s \in Seq(Nat), NEW t \in Seq(Nat), NEW k \in Nat,
           CountsFrom(s, k), CountsFrom(t, k + Len(s))
    PROVE  /\ s \o t \in Seq(Nat) /\ Len(s \o t) = Len(s) + Len(t)
           /\ CountsFrom(s \o t, k)
  <1>1. s \o t \in Seq(Nat) /\ Len(s \o t) = Len(s) + Len(t) OBVIOUS
  <1>2. ASSUME NEW i \in 1 .. Len(s \o t) PROVE (s \o t)[i] = k + i
    <2>1. CASE i <= Len(s) BY <2>1, <1>1 DEF CountsFrom
    <2>2. CASE i > Len(s)
      <3>1. i - Len(s) \in 1 .. Len(t) BY <2>2, <1>1
      <3>2. (s \o t)[i] = t[i - Len(s)] BY <2>2, <1>1
      <3>3. t[i - Len(s)] = k + Len(s) + (i - Len(s)) BY <3>1 DEF CountsFrom
      <3>4. k + Len(s) + (i - Len(s)) = k + i BY <1>1
      <3> QED BY <3>2, <3>3, <3>4
    <2> QED BY <2>1, <2>2, <1>1
  <1> QED BY <1>1, <1>2 DEF CountsFrom

LEMMA ReadsOn ==
    ASSUME NEW s \in Seq(Nat), NEW t \in Seq(Nat),
           \A i \in 1 .. Len(s) : s[i] = i, \A i \in 1 .. Len(t) : t[i] = Len(s) + i
    PROVE  /\ s \o t \in Seq(Nat) /\ Len(s \o t) = Len(s) + Len(t)
           /\ \A i \in 1 .. Len(s \o t) : (s \o t)[i] = i
  <1>1. CountsFrom(s, 0) BY DEF CountsFrom
  <1>2. 0 + Len(s) = Len(s) OBVIOUS
  <1>3. CountsFrom(t, 0 + Len(s)) BY <1>2 DEF CountsFrom
  <1>4. /\ s \o t \in Seq(Nat) /\ Len(s \o t) = Len(s) + Len(t) /\ CountsFrom(s \o t, 0)
    BY <1>1, <1>3, CountsOn
  <1> QED BY <1>4 DEF CountsFrom

LEMMA BioStarts == BioInit => BioInv
  <1> SUFFICES ASSUME BioInit PROVE BioInv OBVIOUS
  <1>1. bio = [ring |-> BioNew(RingSize), paired |-> TRUE, written |-> 0, read |-> << >>,
               strayed |-> FALSE]
    BY DEF BioInit
  <1>2. BioNew(RingSize) \in Ring /\ BioNew(RingSize).wrIdx = 0 /\ BioNew(RingSize).rdIdx = 0
    <2>1. 0 \in 0 .. RingSize - 1 /\ 0 \in 0 .. RingSize BY BioAssumption
    <2>2. [i \in 0 .. RingSize - 1 |-> 0] \in [0 .. RingSize - 1 -> Nat] OBVIOUS
    <2> QED BY <2>1, <2>2 DEF BioNew, Ring
  <1>3. BioTypes BY <1>1, <1>2 DEF BioTypes
  <1>4. Len(bio.read) = 0 /\ bio.written = 0 BY <1>1
  <1>5. Encloses(bio.ring.mem, 0, 0, 0, 0) BY DEF Encloses, Pending, Holds
  <1> QED BY <1>1, <1>2, <1>3, <1>4, <1>5 DEF BioInv

LEMMA BioFields ==
    ASSUME BioInv
    PROVE  /\ bio.ring \in Ring /\ bio.paired \in BOOLEAN /\ bio.written \in Nat
           /\ bio.read \in Seq(Nat) /\ bio.strayed \in BOOLEAN
  BY DEF BioInv, BioTypes

LEMMA BioWriteKeeps ==
    ASSUME BioInv, NEW n \in 1 .. RingSize, BioWriteSome(n)
    PROVE  BioInv'
  <1> DEFINE v == BioWrite(bio.ring, Numbers(bio.written, n))
  <1>1. n \in Nat \ {0} BY BioAssumption
  <1>2. bio' = [bio EXCEPT !.ring = v.bio, !.written = @ + v.taken] BY DEF BioWriteSome
  <1>3. v.bio \in Ring /\ v.taken \in Nat BY <1>1, BioFields, WriteEncloses
  <1>4. \A k \in Nat :
           Encloses(bio.ring.mem, bio.ring.wrIdx, bio.ring.rdIdx, k, bio.written) =>
              Encloses(v.bio.mem, v.bio.wrIdx, v.bio.rdIdx, k, bio.written + v.taken)
    BY <1>1, BioFields, WriteEncloses
  <1> HIDE DEF v
  <1>5. /\ bio'.ring = v.bio /\ bio'.written = bio.written + v.taken /\ bio'.read = bio.read
        /\ bio'.strayed = bio.strayed /\ BioTypes'
    <2>1. bio.written + v.taken \in Nat BY <1>3, BioFields
    <2> QED BY <1>2, <1>3, <2>1 DEF BioInv, BioTypes
  <1>6. Len(bio.read) \in Nat BY BioFields
  <1> QED BY <1>4, <1>5, <1>6 DEF BioInv

LEMMA BioReadKeeps ==
    ASSUME BioInv, NEW n \in 1 .. RingSize, BioReadSome(n)
    PROVE  BioInv'
  <1> DEFINE v == BioRead(bio.ring, n)
  <1>1. n \in Nat \ {0} BY BioAssumption
  <1>2. bio' = [bio EXCEPT !.ring = v.bio, !.read = @ \o v.bytes,
                           !.strayed = @ \/ BioNread0(bio.ring) < 0]
    BY DEF BioReadSome
  <1>3. v.bio \in Ring /\ v.bytes \in Seq(Nat) BY <1>1, BioFields, ReadEncloses
  <1>4. BioNread0(bio.ring) >= 0 =>
           \A k \in Nat :
              Encloses(bio.ring.mem, bio.ring.wrIdx, bio.ring.rdIdx, k, bio.written) =>
                 /\ \A i \in 1 .. Len(v.bytes) : v.bytes[i] = k + i
                 /\ Encloses(v.bio.mem, v.bio.wrIdx, v.bio.rdIdx, k + Len(v.bytes), bio.written)
    BY <1>1, BioFields, ReadEncloses
  <1>5. BioNread0(bio.ring) \in Int BY BioFields, RingFields
  <1> HIDE DEF v
  <1>6. bio.read \o v.bytes \in Seq(Nat) BY <1>3, BioFields
  <1>7. /\ bio'.ring = v.bio /\ bio'.written = bio.written /\ bio'.read = bio.read \o v.bytes
        /\ bio'.strayed = (bio.strayed \/ BioNread0(bio.ring) < 0)
    BY <1>2 DEF BioInv, BioTypes
  <1>8. BioTypes'
    BY <1>2, <1>3, <1>6 DEF BioInv, BioTypes
  <1>9. ASSUME ~bio'.strayed
        PROVE  /\ \A i \in 1 .. Len(bio'.read) : bio'.read[i] = i
               /\ Encloses(bio'.ring.mem, bio'.ring.wrIdx, bio'.ring.rdIdx, Len(bio'.read),
                           bio'.written)
    <2>1. ~bio.strayed /\ BioNread0(bio.ring) >= 0
      <3>1. ~(bio.strayed \/ BioNread0(bio.ring) < 0) BY ONLY <1>7, <1>9, Zenon
      <3> QED BY <1>5, <3>1
    <2>2. /\ \A i \in 1 .. Len(bio.read) : bio.read[i] = i
          /\ Encloses(bio.ring.mem, bio.ring.wrIdx, bio.ring.rdIdx, Len(bio.read), bio.written)
          /\ Len(bio.read) \in Nat
      BY <2>1, BioFields DEF BioInv
    <2>3. /\ \A i \in 1 .. Len(v.bytes) : v.bytes[i] = Len(bio.read) + i
          /\ Encloses(v.bio.mem, v.bio.wrIdx, v.bio.rdIdx, Len(bio.read) + Len(v.bytes), bio.written)
      BY <2>1, <2>2, <1>4
    <2>4. /\ Len(bio.read \o v.bytes) = Len(bio.read) + Len(v.bytes)
          /\ \A i \in 1 .. Len(bio.read \o v.bytes) : (bio.read \o v.bytes)[i] = i
      BY <2>2, <2>3, <1>3, BioFields, ReadsOn
    <2> QED BY <2>3, <2>4, <1>7
  <1> QED BY <1>8, <1>9 DEF BioInv

LEMMA BioResetKeeps ==
    ASSUME BioInv, BioDoReset
    PROVE  BioInv'
  <1>1. bio' = [bio EXCEPT !.ring = BioReset(@), !.written = 0, !.read = << >>,
                           !.strayed = FALSE]
    BY DEF BioDoReset
  <1>2. /\ BioReset(bio.ring) \in Ring /\ BioReset(bio.ring).wrIdx = 0
        /\ BioReset(bio.ring).rdIdx = 0
    <2>1. 0 \in 0 .. RingSize - 1 /\ 0 \in 0 .. RingSize BY BioAssumption
    <2> QED BY <2>1, BioFields DEF BioReset, Ring
  <1> DEFINE ring == BioReset(bio.ring)
  <1>3. /\ bio'.ring = ring /\ bio'.written = 0 /\ bio'.read = << >> /\ bio'.strayed = FALSE
        /\ BioTypes'
    <2>1. << >> \in Seq(Nat) /\ 0 \in Nat /\ FALSE \in BOOLEAN OBVIOUS
    <2>2. ring \in Ring /\ bio' = [bio EXCEPT !.ring = ring, !.written = 0, !.read = << >>,
                                              !.strayed = FALSE]
      BY <1>1, <1>2
    <2> HIDE DEF ring
    <2> QED BY <2>1, <2>2 DEF BioInv, BioTypes
  <1> HIDE DEF ring
  <1>4. Encloses(ring.mem, 0, 0, 0, 0) BY DEF Encloses, Pending, Holds
  <1>5. Len(<< >>) = 0 OBVIOUS
  <1> QED BY <1>2, <1>3, <1>4, <1>5 DEF BioInv, ring

LEMMA BioKeeps == BioInv /\ [BioNext]_bio => BioInv'
  <1> SUFFICES ASSUME BioInv, [BioNext]_bio PROVE BioInv' OBVIOUS
  <1>1. ASSUME NEW n \in 1 .. RingSize, BioWriteSome(n) \/ BioReadSome(n) PROVE BioInv'
    BY <1>1, BioWriteKeeps, BioReadKeeps
  <1>2. CASE BioDoReset BY <1>2, BioResetKeeps
  <1>3. CASE BioFree
    <2>1. bio' = [bio EXCEPT !.paired = FALSE] BY <1>3 DEF BioFree
    <2> QED BY <2>1 DEF BioInv, BioTypes
  <1>4. CASE UNCHANGED bio BY <1>4 DEF BioInv, BioTypes
  <1> QED BY <1>1, <1>2, <1>3, <1>4 DEF BioNext

\* The inductive invariant of the ring buffer (iotjs_module_tls_bio.c), for any size:
\* unless a read met the wrapped write index, what the indices enclose are the bytes that
\* follow those read, up to the last one written.
THEOREM BioInvariance == BioSpec => []BioInv
  BY BioStarts, BioKeeps, PTL DEF BioSpec

\* A sequence of the numbers from k + 1 is what is in a part of the ring
LEMMA Stretch ==
    ASSUME NEW mem \in [0 .. RingSize - 1 -> Nat], NEW from \in 0 .. RingSize - 1,
           NEW n \in 0 .. RingSize - from
    PROVE  LET s == [i \in 1 .. n |-> mem[from + i - 1]]
           IN  /\ s \in Seq(Nat) /\ Len(s) = n
               /\ \A i \in 1 .. n : s[i] = mem[from + i - 1] /\ from + i - 1 \in 0 .. RingSize - 1
  <1> DEFINE s == [i \in 1 .. n |-> mem[from + i - 1]]
  <1>1. RingSize \in Nat /\ n \in Nat BY BioAssumption
  <1>2. \A i \in 1 .. n : from + i - 1 \in 0 .. RingSize - 1 BY <1>1
  <1>3. \A i \in 1 .. n : mem[from + i - 1] \in Nat BY <1>2
  <1>4. s \in Seq(Nat) /\ Len(s) = n BY <1>1, <1>3
  <1> QED BY <1>2, <1>4

\* The bytes that the indices enclose are the pending ones
LEMMA ContentsPending ==
    ASSUME NEW b \in Ring, NEW k \in Nat, NEW n \in Nat,
           Encloses(b.mem, b.wrIdx, b.rdIdx, k, n)
    PROVE  /\ Contents(b) \in Seq(Nat) /\ Len(Contents(b)) = Pending(b.wrIdx, b.rdIdx)
           /\ \A i \in 1 .. Len(Contents(b)) : Contents(b)[i] = k + i
  <1> SUFFICES ASSUME NEW w, NEW r, NEW mem, w = b.wrIdx, r = b.rdIdx, mem = b.mem
               PROVE  /\ Contents(b) \in Seq(Nat) /\ Len(Contents(b)) = Pending(w, r)
                      /\ \A i \in 1 .. Len(Contents(b)) : Contents(b)[i] = k + i
    OBVIOUS
  <1>1. /\ b.wrSz = RingSize /\ w \in 0 .. RingSize /\ r \in 0 .. RingSize - 1
        /\ mem \in [0 .. RingSize - 1 -> Nat]
    BY RingFields
  <1>2. RingSize \in Nat /\ RingSize > 0 BY BioAssumption
  <1>3. \A j \in 0 .. RingSize - 1 : Holds(w, r, j) => mem[j] = Place(r, k, j)
    BY DEF Encloses
  <1>4. CASE w > r
    <2> DEFINE s == [i \in 1 .. w - r |-> mem[r + i - 1]]
    <2>1. w - r \in 0 .. RingSize - r BY <1>1, <1>2, <1>4
    <2>2. /\ s \in Seq(Nat) /\ Len(s) = w - r
          /\ \A i \in 1 .. w - r : s[i] = mem[r + i - 1] /\ r + i - 1 \in 0 .. RingSize - 1
      BY <2>1, <1>1, Stretch
    <2>3. Contents(b) = s BY <1>4 DEF Contents
    <2> HIDE DEF s
    <2>4. ASSUME NEW i \in 1 .. w - r PROVE s[i] = k + i
      <3>1. Holds(w, r, r + i - 1) /\ Place(r, k, r + i - 1) = k + i
        BY <1>1, <1>2, <1>4 DEF Holds, Place
      <3> QED BY <3>1, <2>2, <1>3
    <2> QED BY <2>2, <2>3, <2>4, <1>4 DEF Pending
  <1>5. CASE ~(w > r) /\ r = 0
    <2>1. Contents(b) = << >> /\ Pending(w, r) = 0 BY <1>5 DEF Contents, Pending
    <2>2. << >> \in Seq(Nat) /\ Len(<< >>) = 0 OBVIOUS
    <2> QED BY <2>1, <2>2
  <1>6. CASE ~(w > r) /\ r # 0
    <2> DEFINE s == [i \in 1 .. RingSize - r |-> mem[r + i - 1]]
               t == [i \in 1 .. w |-> mem[0 + i - 1]]
    <2>1. RingSize - r \in 0 .. RingSize - r /\ w \in 0 .. RingSize - 0 /\ 0 \in 0 .. RingSize - 1
          /\ RingSize - r \in Nat /\ w \in Nat /\ r \in Nat /\ r > 0 /\ w <= r /\ r < RingSize
      BY <1>1, <1>2, <1>6
    <2>2. /\ s \in Seq(Nat) /\ Len(s) = RingSize - r
          /\ \A i \in 1 .. RingSize - r : s[i] = mem[r + i - 1] /\ r + i - 1 \in 0 .. RingSize - 1
      BY <2>1, <1>1, Stretch
    <2>3. /\ t \in Seq(Nat) /\ Len(t) = w
          /\ \A i \in 1 .. w : t[i] = mem[0 + i - 1] /\ 0 + i - 1 \in 0 .. RingSize - 1
      <3> HIDE DEF s
      <3> QED BY ONLY <2>1, <1>1, Stretch, Zenon
    <2>4. Contents(b) = s \o t
      <3>1. \A i \in 1 .. w : 0 + i - 1 = i - 1 BY <2>1
      <3>2. t = [i \in 1 .. w |-> mem[i - 1]] BY <3>1
      <3> HIDE DEF t
      <3>3. ~(b.wrIdx > b.rdIdx) /\ b.rdIdx # 0 BY <1>6
      <3> QED BY <3>2, <3>3, <1>1 DEF Contents
    <2> HIDE DEF s, t
    <2>5. Pending(w, r) = RingSize - r + w BY <1>6 DEF Pending
    <2>6. ASSUME NEW i \in 1 .. RingSize - r PROVE s[i] = k + i
      <3>1. Holds(w, r, r + i - 1) /\ Place(r, k, r + i - 1) = k + i
        BY <2>1, <1>2 DEF Holds, Place
      <3> QED BY <3>1, <2>2, <1>3
    <2>7. ASSUME NEW i \in 1 .. w PROVE t[i] = k + (RingSize - r) + i
      <3>1. Holds(w, r, 0 + i - 1) /\ Place(r, k, 0 + i - 1) = k + (RingSize - r) + i
        BY <2>1, <1>2 DEF Holds, Place
      <3> QED BY <3>1, <2>3, <1>3
    <2>8. /\ s \in Seq(Nat) /\ Len(s) = RingSize - r /\ t \in Seq(Nat) /\ Len(t) = w
      BY <2>2, <2>3
    <2>9. /\ s \o t \in Seq(Nat) /\ Len(s \o t) = RingSize - r + w
          /\ \A i \in 1 .. Len(s \o t) : (s \o t)[i] = k + i
      <3>1. CountsFrom(s, k) /\ CountsFrom(t, k + Len(s)) BY <2>6, <2>7, <2>8 DEF CountsFrom
      <3>2. s \o t \in Seq(Nat) /\ Len(s \o t) = Len(s) + Len(t) /\ CountsFrom(s \o t, k)
        BY <2>8, <3>1, CountsOn
      <3> QED BY <2>8, <3>2 DEF CountsFrom
    <2> QED BY <2>4, <2>5, <2>9
  <1> QED BY <1>4, <1>5, <1>6

\* A ring of any size gives its bytes back in order, without loss or repetition, and
\* refuses a write exactly when it is full (iotjs_bio_write and iotjs_bio_read), except
\* after a read that met the wrapped write index.
THEOREM BioIsAQueue == BioSpec => []BioIsQueue
  <1>1. BioInv => BioIsQueue
    <2> SUFFICES ASSUME BioInv PROVE BioIsQueue OBVIOUS
    <2> DEFINE b == bio.ring
               c == Contents(b)
               w == b.wrIdx
               r == b.rdIdx
    <2>1. /\ b \in Ring /\ bio.written \in Nat /\ bio.read \in Seq(Nat)
          /\ w \in 0 .. RingSize /\ r \in 0 .. RingSize - 1 /\ WrRoom(b) = Room(w, r)
      BY BioFields, RingFields
    <2>2. ASSUME ~bio.strayed
          PROVE  /\ bio.read \o c = Numbers(0, bio.written)
                 /\ WrRoom(b) = 0 <=> Len(c) = RingSize
      <3>1. /\ \A i \in 1 .. Len(bio.read) : bio.read[i] = i
            /\ Encloses(b.mem, w, r, Len(bio.read), bio.written)
            /\ Len(bio.read) \in Nat
        BY <2>1, <2>2 DEF BioInv
      <3>2. /\ c \in Seq(Nat) /\ Len(c) = Pending(w, r)
            /\ \A i \in 1 .. Len(c) : c[i] = Len(bio.read) + i
        BY <2>1, <3>1, ContentsPending
      <3> HIDE DEF c
      <3>3. /\ bio.read \o c \in Seq(Nat) /\ Len(bio.read \o c) = Len(bio.read) + Len(c)
            /\ \A i \in 1 .. Len(bio.read \o c) : (bio.read \o c)[i] = i
        BY <2>1, <3>1, <3>2, ReadsOn
      <3>4. bio.written = Len(bio.read) + Pending(w, r) BY <3>1 DEF Encloses
      <3>5. bio.read \o c = Numbers(0, bio.written)
        <4>1. Len(bio.read \o c) = bio.written BY <3>2, <3>3, <3>4
        <4>2. Numbers(0, bio.written) \in Seq(Int) /\ Len(Numbers(0, bio.written)) = bio.written
              /\ \A i \in 1 .. bio.written : Numbers(0, bio.written)[i] = i
          BY <2>1 DEF Numbers
        <4>3. bio.read \o c = [i \in 1 .. bio.written |-> (bio.read \o c)[i]]
          BY <4>1, <3>3, <2>1
        <4>4. \A i \in 1 .. bio.written : (bio.read \o c)[i] = 0 + i BY <4>1, <3>3, <2>1
        <4> QED BY <4>3, <4>4 DEF Numbers
      <3>6. Room(w, r) = 0 <=> Pending(w, r) = RingSize
        BY <2>1, BioAssumption DEF Room, Pending
      <3> QED BY <3>2, <3>5, <3>6, <2>1
    <2> QED BY <2>1, <2>2 DEF BioIsQueue
  <1> QED BY <1>1, BioInvariance, PTL

-----------------------------------------------------------------------------
(* The file system: what every operation is doing, how far it has got *)

\* The file system alone
FsSpec == FsInit /\ [][FsNext]_fs

Files == {"a", "b"}
PathNames == {"stat", "lstat", "fstat", "mkdir", "rmdir", "unlink", "rename", "readdir"}
Units == {"a1", "a2"} \cup (Jobs \X Nat)
Text == Seq(Units)
FileOps == {"readFile", "writeFile"}
FsOps == {"none"} \cup FileOps \cup PathNames
FsNames == {"none", "a", "b", "d", "u"}

\* The fields of the state and of the requests, whatever has happened
FsShape(f) ==
    /\ f = [content |-> f.content, names |-> f.names, fds |-> f.fds, jobs |-> f.jobs,
            reqs |-> f.reqs, thrown |-> f.thrown, fault |-> f.fault, stray |-> f.stray]
    /\ \A r \in f.reqs :
          /\ r = [job |-> r.job, call |-> r.call, then |-> r.then, fd |-> r.fd, name |-> r.name,
                  pos |-> r.pos, unit |-> r.unit, state |-> r.state, result |-> r.result]
          /\ r.then \in {"open", "read", "write", "close", "failed", "answer"}
          /\ r.call \in {"openR", "openW", "read", "write", "close"} \cup PathNames

FsFile == [name : FsNames, pos : Nat, owner : 0 .. MaxJobs]
FsJob == [op : FsOps, name : FsNames, len : Nat, fd : 0 .. MaxFds, data : Text,
          written : Nat, answers : Seq([ok : BOOLEAN, data : Text])]

FsTypes(f) ==
    /\ f.content \in [Files -> Text]
    /\ f.fds \in [Fds -> FsFile]
    /\ f.jobs \in [Jobs -> FsJob]
    /\ \A r \in f.reqs : /\ r.job \in Jobs /\ r.state \in {"queued", "done"}
                         /\ r.result.ok \in BOOLEAN
    /\ \A j \in Jobs : f.jobs[j].op \in FileOps => f.jobs[j].name \in Files

Owns(f, j, desc) ==
    /\ desc \in Fds /\ f.fds[desc].owner = j /\ f.fds[desc].name = f.jobs[j].name
    /\ \A e \in Fds : f.fds[e].owner = j => e = desc
NoFd(f, j) == \A e \in Fds : f.fds[e].owner # j

\* Nobody writes the file
Unwritten(f, name) == \A k \in Jobs : ~(f.jobs[k].op = "writeFile" /\ f.jobs[k].name = name)

\* s is the first n units of c
IsFirst(s, c, n) == Len(s) = n /\ n <= Len(c) /\ \A i \in 1 .. n : s[i] = c[i]

\* What a readFile has got so far and in the end, and what a writeFile has written
HasRead(f, j, data, n) ==
    f.jobs[j].op = "readFile" /\ Unwritten(f, f.jobs[j].name) =>
        IsFirst(data, f.content[f.jobs[j].name], n)
HasAll(f, j, data) ==
    f.jobs[j].op = "readFile" /\ Unwritten(f, f.jobs[j].name) =>
        data = f.content[f.jobs[j].name]
HasWritten(f, j, n) ==
    f.jobs[j].op = "writeFile" => f.content[f.jobs[j].name] = [i \in 1 .. n |-> <<j, i>>]

\* How far operation j has got when r is its request
Opens(f, j, r) ==
    /\ r.then = "open" /\ f.jobs[j].op \in FileOps /\ r.name = f.jobs[j].name
    /\ r.call = IF f.jobs[j].op = "readFile" THEN "openR" ELSE "openW"
    /\ f.jobs[j].data = << >> /\ f.jobs[j].written = 0
    /\ IF r.state = "done" /\ r.result.ok
       THEN Owns(f, j, r.result.value) /\ f.fds[r.result.value].pos = 0 /\ HasWritten(f, j, 0)
       ELSE NoFd(f, j)
Reads(f, j, r) ==
    /\ r.then = "read" /\ r.call = "read" /\ f.jobs[j].op = "readFile"
    /\ r.fd = f.jobs[j].fd /\ Owns(f, j, r.fd)
    /\ r.state = "queued" => HasRead(f, j, f.jobs[j].data, f.fds[r.fd].pos)
    /\ r.state = "done" =>
          /\ r.result.ok /\ r.result.value \in Text
          /\ IF r.result.value = << >> THEN HasAll(f, j, f.jobs[j].data)
             ELSE HasRead(f, j, f.jobs[j].data \o r.result.value, f.fds[r.fd].pos)
Writes(f, j, r) ==
    /\ r.then = "write" /\ r.call = "write" /\ f.jobs[j].op = "writeFile"
    /\ r.fd = f.jobs[j].fd /\ Owns(f, j, r.fd)
    /\ r.pos = f.jobs[j].written /\ r.unit = <<j, f.jobs[j].written + 1>>
    /\ f.jobs[j].written < f.jobs[j].len
    /\ r.state = "queued" => HasWritten(f, j, f.jobs[j].written)
    /\ r.state = "done" => /\ r.result.ok /\ r.result.value = 1
                           /\ HasWritten(f, j, f.jobs[j].written + 1)
Closes(f, j, r) ==
    /\ r.then = "close" /\ r.call = "close" /\ f.jobs[j].op \in FileOps
    /\ IF r.state = "queued" THEN Owns(f, j, r.fd) ELSE NoFd(f, j)
    /\ HasAll(f, j, f.jobs[j].data) /\ HasWritten(f, j, f.jobs[j].len)
AsksPath(f, j, r) ==
    /\ r.then = "answer" /\ r.call \in PathNames
    /\ f.jobs[j].op \notin FileOps /\ NoFd(f, j)

AtStage(f, j, r) ==
    \/ Opens(f, j, r) \/ Reads(f, j, r) \/ Writes(f, j, r) \/ Closes(f, j, r)
    \/ AsksPath(f, j, r)

\* Operation j has not begun, waits for its one request, or was answered
Unborn(f, j) == f.jobs[j] = Idle /\ (\A r \in f.reqs : r.job # j) /\ NoFd(f, j)
Waiting(f, j) ==
    /\ f.jobs[j].op # "none" /\ f.jobs[j].answers = << >>
    /\ \E r \in f.reqs :
          /\ \A q \in f.reqs : q.job = j <=> q = r
          /\ AtStage(f, j, r)
Replied(f, j) ==
    /\ f.jobs[j].op # "none" /\ (\A r \in f.reqs : r.job # j) /\ NoFd(f, j)
    /\ Len(f.jobs[j].answers) = 1
    /\ f.jobs[j].answers[1].ok =>
          HasAll(f, j, f.jobs[j].answers[1].data) /\ HasWritten(f, j, f.jobs[j].len)

JobState(f, j) == Unborn(f, j) \/ Waiting(f, j) \/ Replied(f, j)

OneWriter(f) ==
    \A j \in Jobs, k \in Jobs :
        /\ f.jobs[j].op = "writeFile" /\ f.jobs[k].op = "writeFile"
        /\ f.jobs[j].name = f.jobs[k].name
        => j = k

\* As long as no read or write has failed
FsGood(f) == FsTypes(f) /\ ~f.stray /\ OneWriter(f) /\ \A j \in Jobs : JobState(f, j)

FsSound(f) == FsShape(f) /\ (f.fault \/ f.thrown \/ FsGood(f))

FsInv == FsSound(fs)

-----------------------------------------------------------------------------
(* Whatever happens, the state keeps its fields, and trouble stays *)

FsFields(f) ==
    f = [content |-> f.content, names |-> f.names, fds |-> f.fds, jobs |-> f.jobs,
         reqs |-> f.reqs, thrown |-> f.thrown, fault |-> f.fault, stray |-> f.stray]

\* A request as Request makes it
NewReq(f, j, call, then) ==
    [job |-> j, call |-> call, then |-> then, fd |-> f.jobs[j].fd, name |-> f.jobs[j].name,
     pos |-> f.jobs[j].written, unit |-> <<j, f.jobs[j].written + 1>>,
     state |-> "queued", result |-> Failed]

LEMMA ShapeFields == ASSUME NEW f, FsShape(f) PROVE FsFields(f)
  BY DEF FsShape, FsFields

LEMMA Requested ==
    ASSUME NEW f, FsShape(f), NEW j,
           NEW call \in {"openR", "openW", "read", "write", "close"} \cup PathNames,
           NEW then \in {"open", "read", "write", "close", "failed", "answer"}
    PROVE  /\ FsShape(Request(f, j, call, then))
           /\ Request(f, j, call, then) = [f EXCEPT !.reqs = @ \cup {NewReq(f, j, call, then)}]
           /\ Request(f, j, call, then).reqs = f.reqs \cup {NewReq(f, j, call, then)}
           /\ Request(f, j, call, then).content = f.content
           /\ Request(f, j, call, then).fds = f.fds
           /\ Request(f, j, call, then).jobs = f.jobs
           /\ Request(f, j, call, then).stray = f.stray
           /\ Request(f, j, call, then).fault = f.fault
           /\ Request(f, j, call, then).thrown = f.thrown
  <1> DEFINE q == NewReq(f, j, call, then)
             g == Request(f, j, call, then)
  <1>1. g = [f EXCEPT !.reqs = @ \cup {q}] BY DEF Request, NewReq
  <1>2. FsFields(f) BY ShapeFields
  <1>3. /\ q = [job |-> q.job, call |-> q.call, then |-> q.then, fd |-> q.fd, name |-> q.name,
                pos |-> q.pos, unit |-> q.unit, state |-> q.state, result |-> q.result]
        /\ q.call = call /\ q.then = then
    BY DEF NewReq
  <1> HIDE DEF q, g
  <1>4. /\ FsFields(g) /\ g.reqs = f.reqs \cup {q} /\ g.content = f.content /\ g.fds = f.fds
        /\ g.jobs = f.jobs /\ g.stray = f.stray /\ g.fault = f.fault /\ g.thrown = f.thrown
    BY <1>1, <1>2 DEF FsFields
  <1>5. FsShape(g) BY <1>3, <1>4 DEF FsShape, FsFields
  <1> QED BY <1>1, <1>4, <1>5 DEF g, q

LEMMA AnswerKeeps ==
    ASSUME NEW f, FsShape(f), NEW j, NEW ok, NEW data
    PROVE  /\ FsShape(Answer_fs(f, j, ok, data))
           /\ Answer_fs(f, j, ok, data).reqs = f.reqs
           /\ Answer_fs(f, j, ok, data).content = f.content
           /\ Answer_fs(f, j, ok, data).fds = f.fds
           /\ Answer_fs(f, j, ok, data).jobs =
                 [f.jobs EXCEPT ![j].answers = Append(@, [ok |-> ok, data |-> data])]
           /\ Answer_fs(f, j, ok, data).stray = f.stray
           /\ Answer_fs(f, j, ok, data).fault = f.fault
           /\ Answer_fs(f, j, ok, data).thrown = f.thrown
  <1> DEFINE g == Answer_fs(f, j, ok, data)
             jobs == [f.jobs EXCEPT ![j].answers = Append(@, [ok |-> ok, data |-> data])]
  <1>1. g = [f EXCEPT !.jobs = jobs] BY DEF Answer_fs
  <1>2. FsFields(f) BY ShapeFields
  <1> HIDE DEF g, jobs
  <1>3. /\ FsFields(g) /\ g.reqs = f.reqs /\ g.content = f.content /\ g.fds = f.fds
        /\ g.jobs = jobs /\ g.stray = f.stray /\ g.fault = f.fault /\ g.thrown = f.thrown
    BY <1>1, <1>2 DEF FsFields
  <1>4. FsShape(g) BY <1>3 DEF FsShape, FsFields
  <1> QED BY <1>3, <1>4 DEF g, jobs

\* g comes after f
Later(f, g) == FsShape(g) /\ (f.fault => g.fault) /\ (f.thrown => g.thrown)

\* A change of one field that is not reqs
LEMMA FieldChanged ==
    ASSUME NEW f, FsShape(f), NEW v
    PROVE  /\ Later(f, [f EXCEPT !.jobs = v])
           /\ Later(f, [f EXCEPT !.fds = v])
           /\ Later(f, [f EXCEPT !.names = v])
           /\ v = TRUE => Later(f, [f EXCEPT !.thrown = v])
           /\ v = TRUE => Later(f, [f EXCEPT !.fault = v])
           /\ Later(f, [f EXCEPT !.content = v])
           /\ Later(f, [f EXCEPT !.stray = v])
           /\ v \subseteq f.reqs => Later(f, [f EXCEPT !.reqs = v])
  <1>1. FsFields(f) BY ShapeFields
  <1>2. Later(f, [f EXCEPT !.jobs = v]) BY <1>1 DEF FsFields, FsShape, Later
  <1>3. Later(f, [f EXCEPT !.fds = v]) BY <1>1 DEF FsFields, FsShape, Later
  <1>4. Later(f, [f EXCEPT !.names = v]) BY <1>1 DEF FsFields, FsShape, Later
  <1>5. v = TRUE => Later(f, [f EXCEPT !.thrown = v])
    <2> DEFINE g == [f EXCEPT !.thrown = v]
    <2>1. g = [content |-> f.content, names |-> f.names, fds |-> f.fds, jobs |-> f.jobs,
             reqs |-> f.reqs, thrown |-> v, fault |-> f.fault, stray |-> f.stray]
      BY <1>1 DEF FsFields
    <2> HIDE DEF g
    <2>2. FsShape(g) /\ g.thrown = v /\ g.fault = f.fault BY <2>1 DEF FsShape
    <2>3. v = TRUE => Later(f, g) BY <2>2 DEF Later
    <2> QED BY <2>3 DEF g
  <1>6. v = TRUE => Later(f, [f EXCEPT !.fault = v])
    <2> DEFINE g == [f EXCEPT !.fault = v]
    <2>1. g = [content |-> f.content, names |-> f.names, fds |-> f.fds, jobs |-> f.jobs,
             reqs |-> f.reqs, thrown |-> f.thrown, fault |-> v, stray |-> f.stray]
      BY <1>1 DEF FsFields
    <2> HIDE DEF g
    <2>2. FsShape(g) /\ g.fault = v /\ g.thrown = f.thrown BY <2>1 DEF FsShape
    <2>3. v = TRUE => Later(f, g) BY <2>2 DEF Later
    <2> QED BY <2>3 DEF g
  <1>7. Later(f, [f EXCEPT !.content = v]) BY <1>1 DEF FsFields, FsShape, Later
  <1>8. Later(f, [f EXCEPT !.stray = v]) BY <1>1 DEF FsFields, FsShape, Later
  <1>9. v \subseteq f.reqs => Later(f, [f EXCEPT !.reqs = v])
    BY <1>1 DEF FsFields, FsShape, Later
  <1> QED BY <1>2, <1>3, <1>4, <1>5, <1>6, <1>7, <1>8, <1>9

LEMMA Troubles ==
    ASSUME NEW f, FsShape(f)
    PROVE  Later(f, [f EXCEPT !.thrown = TRUE]) /\ Later(f, [f EXCEPT !.fault = TRUE])
  <1>1. \E v : v = TRUE OBVIOUS
  <1>2. PICK v : v = TRUE BY <1>1
  <1>3. Later(f, [f EXCEPT !.thrown = v]) /\ Later(f, [f EXCEPT !.fault = v])
    BY <1>2, FieldChanged
  <1> QED BY <1>2, <1>3, Zenon

LEMMA LaterTrans ==
    ASSUME NEW f, NEW g, NEW h, Later(f, g), Later(g, h)
    PROVE  Later(f, h)
  BY DEF Later

LEMMA RequestLater ==
    ASSUME NEW f, NEW h, Later(f, h), NEW j,
           NEW call \in {"openR", "openW", "read", "write", "close"} \cup PathNames,
           NEW then \in {"open", "read", "write", "close", "failed", "answer"}
    PROVE  Later(f, Request(h, j, call, then))
  BY Requested DEF Later

\* The callbacks
LEMMA CallbackLater ==
    ASSUME NEW f, FsShape(f), NEW r \in f.reqs
    PROVE  Later(f, AfterAsync(f, r))
  <1> DEFINE g == [f EXCEPT !.reqs = @ \ {r}]
  <1>1. Later(f, g)
    <2>1. f.reqs \ {r} \subseteq f.reqs OBVIOUS
    <2> QED BY <2>1, FieldChanged
  <1>2. r.then \in {"open", "read", "write", "close", "failed", "answer"} BY DEF FsShape
  <1> HIDE DEF g
  <1>3. FsShape(g) BY <1>1 DEF Later
  <1>4. ASSUME NEW v, NEW j
        PROVE  /\ Later(f, [g EXCEPT !.jobs[j].fd = v]) /\ Later(f, [g EXCEPT !.jobs[j].data = v])
               /\ Later(f, [g EXCEPT !.jobs[j].written = v])
    BY <1>1, <1>3, FieldChanged, LaterTrans
  <1>5. ASSUME NEW h, Later(f, h), NEW j PROVE Later(f, WriteUnit(h, j))
    <2>1. FsShape(h) BY <1>5 DEF Later
    <2>2. Later(f, [h EXCEPT !.thrown = TRUE]) BY <1>5, <2>1, Troubles, LaterTrans
    <2>3. Later(f, Request(h, j, "write", "write")) BY <1>5, RequestLater
    <2> QED BY <2>2, <2>3 DEF WriteUnit
  <1>6. ASSUME NEW h, Later(f, h), NEW j, NEW ok, NEW data PROVE Later(f, Answer_fs(h, j, ok, data))
    BY <1>6, AnswerKeeps DEF Later
  <1>7. Later(f, AfterOpen(g, r))
    <2> DEFINE h == [g EXCEPT !.jobs[r.job].fd = r.result.value]
    <2>1. Later(f, h) BY <1>4
    <2> HIDE DEF h
    <2>2. /\ Later(f, Answer_fs(g, r.job, FALSE, << >>))
          /\ Later(f, Request(h, r.job, "read", "read")) /\ Later(f, WriteUnit(h, r.job))
      BY <2>1, <1>1, <1>5, <1>6, RequestLater
    <2> QED BY <2>2 DEF AfterOpen, h
  <1>8. Later(f, AfterRead(g, r))
    <2> DEFINE h == [g EXCEPT !.jobs[r.job].data = @ \o r.result.value]
               c == Request(g, r.job, "close", "failed")
    <2>1. Later(f, h) BY <1>4
    <2>2. Later(f, c) BY <1>1, RequestLater
    <2> HIDE DEF h, c
    <2>3. /\ Later(f, Request(c, r.job, "close", "close"))
          /\ Later(f, Request(h, r.job, "close", "close"))
          /\ Later(f, Request(h, r.job, "read", "read"))
      BY <2>1, <2>2, RequestLater
    <2> QED BY <2>3 DEF AfterRead, AtEnd, h, c
  <1>9. Later(f, AfterWrite_fs(g, r))
    <2> DEFINE h == [g EXCEPT !.jobs[r.job].written = @ + r.result.value]
               c == Request(g, r.job, "close", "failed")
    <2>1. Later(f, h) BY <1>4
    <2>2. Later(f, c) /\ Later(f, Request(g, r.job, "close", "close")) BY <1>1, RequestLater
    <2> HIDE DEF h, c
    <2>3. Later(f, [c EXCEPT !.thrown = TRUE])
      <3>1. FsShape(c) BY <2>2 DEF Later
      <3> QED BY <3>1, <2>2, Troubles, LaterTrans
    <2>4. Later(f, WriteUnit(h, r.job)) BY <2>1, <1>5
    <2> QED BY <2>2, <2>3, <2>4 DEF AfterWrite_fs, h, c
  <1>10. Later(f, AfterClose_fs(g, r)) BY <1>1, <1>6 DEF AfterClose_fs
  <1>11. Later(f, Answer_fs(g, r.job, r.result.ok, << >>)) BY <1>1, <1>6
  <1> QED BY <1>2, <1>7, <1>8, <1>9, <1>10, <1>11 DEF AfterAsync, g

\* The system calls
LEMMA KernelLater ==
    ASSUME NEW f, FsShape(f), NEW r, NEW faulty, NEW n,
           r.call \in {"openR", "openW", "read", "write", "close"} \cup PathNames
    PROVE  Later(f, Kernel(f, r, faulty, n)[2]) /\ Kernel(f, r, faulty, n)[2].reqs = f.reqs
           /\ Kernel(f, r, faulty, n)[2].jobs = f.jobs
  <1>1. FsFields(f) BY ShapeFields
  <1> DEFINE Keeps(g) == Later(f, g) /\ g.reqs = f.reqs /\ g.jobs = f.jobs
  <1>2. Keeps(f) BY DEF Later
  <1>3. ASSUME NEW c, NEW m, NEW d, NEW b, NEW s, f.fault => b
        PROVE  Keeps([content |-> c, names |-> m, fds |-> d, jobs |-> f.jobs, reqs |-> f.reqs,
                      thrown |-> f.thrown, fault |-> b, stray |-> s])
    BY <1>3 DEF Later, FsShape
  <1>4. ASSUME NEW c, NEW m, NEW d, NEW s
        PROVE  /\ Keeps([f EXCEPT !.content = c]) /\ Keeps([f EXCEPT !.names = m])
               /\ Keeps([f EXCEPT !.fds = d]) /\ Keeps([f EXCEPT !.fds = d, !.stray = s])
               /\ Keeps([[f EXCEPT !.fds = d] EXCEPT !.content = c, !.names = m])
    <2>1. [f EXCEPT !.content = c] =
            [content |-> c, names |-> f.names, fds |-> f.fds, jobs |-> f.jobs, reqs |-> f.reqs,
             thrown |-> f.thrown, fault |-> f.fault, stray |-> f.stray]
      BY <1>1 DEF FsFields
    <2>2. [f EXCEPT !.names = m] =
            [content |-> f.content, names |-> m, fds |-> f.fds, jobs |-> f.jobs, reqs |-> f.reqs,
             thrown |-> f.thrown, fault |-> f.fault, stray |-> f.stray]
      BY <1>1 DEF FsFields
    <2>3. [f EXCEPT !.fds = d] =
            [content |-> f.content, names |-> f.names, fds |-> d, jobs |-> f.jobs, reqs |-> f.reqs,
             thrown |-> f.thrown, fault |-> f.fault, stray |-> f.stray]
      BY <1>1 DEF FsFields
    <2>4. [f EXCEPT !.fds = d, !.stray = s] =
            [content |-> f.content, names |-> f.names, fds |-> d, jobs |-> f.jobs, reqs |-> f.reqs,
             thrown |-> f.thrown, fault |-> f.fault, stray |-> s]
      <3> DEFINE h == [f EXCEPT !.fds = d]
      <3>1. FsFields(h) /\ h.fds = d /\ h.content = f.content /\ h.names = f.names /\ h.jobs = f.jobs
            /\ h.reqs = f.reqs /\ h.thrown = f.thrown /\ h.fault = f.fault /\ h.stray = f.stray
        BY <1>1 DEF FsFields
      <3>2. [f EXCEPT !.fds = d, !.stray = s] = [h EXCEPT !.stray = s] BY <1>1 DEF FsFields
      <3> HIDE DEF h
      <3> QED BY <3>1, <3>2 DEF FsFields
    <2>5. [[f EXCEPT !.fds = d] EXCEPT !.content = c, !.names = m] =
            [content |-> c, names |-> m, fds |-> d, jobs |-> f.jobs, reqs |-> f.reqs,
             thrown |-> f.thrown, fault |-> f.fault, stray |-> f.stray]
      <3> DEFINE h == [f EXCEPT !.fds = d]
      <3>1. FsFields(h) /\ h.fds = d /\ h.content = f.content /\ h.names = f.names /\ h.jobs = f.jobs
            /\ h.reqs = f.reqs /\ h.thrown = f.thrown /\ h.fault = f.fault /\ h.stray = f.stray
        BY <1>1 DEF FsFields
      <3>2. [[f EXCEPT !.fds = d] EXCEPT !.content = c, !.names = m] =
                     [h EXCEPT !.content = c, !.names = m] BY <1>1 DEF FsFields
      <3> DEFINE e == [h EXCEPT !.content = c]
      <3> HIDE DEF h
      <3>3. FsFields(e) /\ e.fds = d /\ e.content = c /\ e.names = f.names /\ e.jobs = f.jobs
            /\ e.reqs = f.reqs /\ e.thrown = f.thrown /\ e.fault = f.fault /\ e.stray = f.stray
        BY <3>1 DEF FsFields
      <3>4. [h EXCEPT !.content = c, !.names = m] = [e EXCEPT !.names = m] OBVIOUS
      <3> HIDE DEF e
      <3>5. [e EXCEPT !.names = m] =
              [content |-> c, names |-> m, fds |-> d, jobs |-> f.jobs, reqs |-> f.reqs,
               thrown |-> f.thrown, fault |-> f.fault, stray |-> f.stray]
        BY <3>3 DEF FsFields
      <3> QED BY <3>2, <3>4, <3>5
    <2> HIDE DEF Keeps
    <2> QED BY <2>1, <2>2, <2>3, <2>4, <2>5, <1>3
  <1>5. Keeps([f EXCEPT !.fault = TRUE])
    <2>1. Later(f, [f EXCEPT !.fault = TRUE]) BY Troubles
    <2> QED BY <2>1, <1>1 DEF FsFields
  <1> HIDE DEF Keeps
  <1>6. r.call \in {"openR", "openW"} => Keeps(KernelOpen(f, r)[2])
    BY <1>2, <1>4 DEF KernelOpen
  <1>7. Keeps(KernelRead(f, r, faulty)[2]) BY <1>2, <1>4, <1>5 DEF KernelRead
  <1>8. Keeps(KernelWrite(f, r, faulty, n)[2]) BY <1>2, <1>4, <1>5 DEF KernelWrite
  <1>9. Keeps(KernelClose(f, r)[2]) BY <1>2, <1>4 DEF KernelClose
  <1>10. r.call \in PathNames => Keeps(KernelPath(f, r)[2])
    BY <1>2, <1>4 DEF KernelPath, PathNames
  <1>11. Keeps(Kernel(f, r, faulty, n)[2])
    BY <1>6, <1>7, <1>8, <1>9, <1>10 DEF Kernel, PathNames
  <1> QED BY <1>11 DEF Keeps

LEMMA PathDomain == DOMAIN PathCalls = PathNames
  BY DEF PathCalls, PathNames

LEMMA SubmitLater ==
    ASSUME NEW f, FsShape(f), NEW j, NEW job, NEW fails \in BOOLEAN,
           NEW call \in {"openR", "openW", "read", "write", "close"} \cup PathNames,
           NEW then \in {"open", "read", "write", "close", "failed", "answer"}
    PROVE  Later(f, Submit([f EXCEPT !.jobs[j] = job], j, call, then, fails))
  <1> DEFINE h == [f EXCEPT !.jobs[j] = job]
             g == Request(h, j, call, then)
             r == CHOOSE q \in g.reqs : q.job = j
  <1>1. Later(f, h) BY FieldChanged
  <1> HIDE DEF h
  <1>2. FsShape(h) BY <1>1 DEF Later
  <1>3. Later(f, g) BY <1>1, RequestLater
  <1>4. r \in g.reqs
    <2>1. NewReq(h, j, call, then) \in g.reqs BY <1>2, Requested
    <2>2. NewReq(h, j, call, then).job = j BY DEF NewReq
    <2> QED BY <2>1, <2>2
  <1> HIDE DEF g, r
  <1>5. FsShape(g) BY <1>3 DEF Later
  <1>6. Later(f, AfterAsync(g, r)) BY <1>3, <1>4, <1>5, CallbackLater, LaterTrans
  <1> QED BY <1>3, <1>6 DEF Submit, g, r, h

LEMMA StepLater == FsShape(fs) /\ FsNext => Later(fs, fs')
  <1> SUFFICES ASSUME FsShape(fs), FsNext PROVE Later(fs, fs') OBVIOUS
  <1>1. ASSUME NEW j \in Jobs, NEW name \in {"a", "b"}, NEW fails \in BOOLEAN,
               ReadFile(j, name, fails)
        PROVE  Later(fs, fs')
    BY <1>1, SubmitLater DEF ReadFile
  <1>2. ASSUME NEW j \in Jobs, NEW len \in {0, 2}, NEW fails \in BOOLEAN,
               WriteFile(j, "b", len, fails)
        PROVE  Later(fs, fs')
    BY <1>2, SubmitLater DEF WriteFile
  <1>3. ASSUME NEW j \in Jobs, NEW call \in DOMAIN PathCalls, NEW fails \in BOOLEAN,
               PathCall(j, call, fails)
        PROVE  Later(fs, fs')
    BY <1>3, SubmitLater, PathDomain DEF PathCall
  <1>4. ASSUME NEW j \in Jobs, NEW call \in DOMAIN PathCalls, PathCallSync(j, call)
        PROVE  Later(fs, fs')
    <2> DEFINE job == [Idle EXCEPT !.op = call, !.name = PathCalls[call]]
               k == Kernel(fs, [call |-> call, name |-> job.name], FALSE, 1)
               h == [k[2] EXCEPT !.jobs[j] = job]
    <2>1. Later(fs, k[2])
      <3>1. [call |-> call, name |-> job.name].call = call OBVIOUS
      <3> HIDE DEF job
      <3> QED BY <3>1, PathDomain, KernelLater
    <2>2. fs' = Answer_fs(h, j, k[1].ok, << >>) BY <1>4 DEF PathCallSync
    <2> HIDE DEF k, job
    <2>3. FsShape(k[2]) BY <2>1 DEF Later
    <2>4. Later(fs, h) BY <2>1, <2>3, FieldChanged, LaterTrans
    <2> HIDE DEF h
    <2>5. FsShape(h) BY <2>4 DEF Later
    <2> QED BY <2>2, <2>4, <2>5, AnswerKeeps DEF Later
  <1>5. ASSUME NEW r \in fs.reqs, NEW faulty \in BOOLEAN, NEW n \in {0, 1}, Works(r, faulty, n)
        PROVE  Later(fs, fs')
    <2> DEFINE k == Kernel(fs, r, faulty, n)
               q == [r EXCEPT !.state = "done", !.result = k[1]]
    <2>1. fs' = [k[2] EXCEPT !.reqs = (@ \ {r}) \cup {q}] BY <1>5 DEF Works
    <2>2. r.call \in {"openR", "openW", "read", "write", "close"} \cup PathNames
          /\ r.then \in {"open", "read", "write", "close", "failed", "answer"}
          /\ r = [job |-> r.job, call |-> r.call, then |-> r.then, fd |-> r.fd, name |-> r.name,
                  pos |-> r.pos, unit |-> r.unit, state |-> r.state, result |-> r.result]
      BY DEF FsShape
    <2>3. Later(fs, k[2]) /\ k[2].reqs = fs.reqs BY <2>2, KernelLater
    <2> HIDE DEF k
    <2>4. /\ q = [job |-> q.job, call |-> q.call, then |-> q.then, fd |-> q.fd, name |-> q.name,
                  pos |-> q.pos, unit |-> q.unit, state |-> q.state, result |-> q.result]
          /\ q.call = r.call /\ q.then = r.then
      <3> DEFINE e == [r EXCEPT !.state = "done"]
      <3>1. /\ e = [job |-> e.job, call |-> e.call, then |-> e.then, fd |-> e.fd, name |-> e.name,
                    pos |-> e.pos, unit |-> e.unit, state |-> e.state, result |-> e.result]
            /\ e.call = r.call /\ e.then = r.then
        BY <2>2
      <3>2. q = [e EXCEPT !.result = k[1]] BY <2>2
      <3> HIDE DEF e, q
      <3> QED BY <3>1, <3>2
    <2> DEFINE h == k[2]
    <2> HIDE DEF q, h
    <2>5. FsFields(h) /\ FsShape(h) /\ Later(fs, h) /\ h.reqs = fs.reqs
      BY <2>3, ShapeFields DEF Later, h
    <2>6. fs' = [h EXCEPT !.reqs = (fs.reqs \ {r}) \cup {q}] BY <2>1, <2>5 DEF h
    <2>7. FsFields(fs') /\ fs'.reqs = (fs.reqs \ {r}) \cup {q} /\ fs'.fault = h.fault
          /\ fs'.thrown = h.thrown
      BY <2>5, <2>6 DEF FsFields
    <2>8. FsShape(fs') BY <2>2, <2>4, <2>5, <2>7 DEF FsShape, FsFields
    <2> QED BY <2>5, <2>7, <2>8 DEF Later
  <1>6. ASSUME NEW r \in fs.reqs, Completes(r) PROVE Later(fs, fs')
    BY <1>6, CallbackLater DEF Completes
  <1> QED BY <1>1, <1>2, <1>3, <1>4, <1>5, <1>6 DEF FsNext

-----------------------------------------------------------------------------
(* A step of one operation leaves the others alone *)

\* The request of an operation is its only one, and tells how far it has got
LEMMA MyRequest ==
    ASSUME NEW f, FsGood(f), NEW r \in f.reqs
    PROVE  /\ r.job \in Jobs /\ r.state \in {"queued", "done"}
           /\ f.jobs[r.job].op # "none" /\ f.jobs[r.job].answers = << >>
           /\ \A q \in f.reqs : q.job = r.job => q = r
           /\ AtStage(f, r.job, r)
  <1>1. r.job \in Jobs /\ r.state \in {"queued", "done"} /\ JobState(f, r.job)
    BY DEF FsGood, FsTypes
  <1>2. Waiting(f, r.job) BY <1>1 DEF JobState, Unborn, Replied
  <1> QED BY <1>1, <1>2 DEF Waiting

\* From f to g only operation j has moved
Aside(f, g, j) ==
    /\ \A k \in Jobs \ {j} : g.jobs[k] = f.jobs[k]
    /\ \A r : r.job # j => (r \in g.reqs <=> r \in f.reqs)
    /\ \A e \in Fds : \/ g.fds[e] = f.fds[e]
                      \/ f.fds[e].owner \in {0, j} /\ g.fds[e].owner \in {0, j}
    /\ \A n \in Files : \/ g.content[n] = f.content[n]
                        \/ g.jobs[j].op = "writeFile" /\ g.jobs[j].name = n
    /\ f.jobs[j].op = "writeFile" =>
          g.jobs[j].op = "writeFile" /\ g.jobs[j].name = f.jobs[j].name

LEMMA OthersKeep ==
    ASSUME NEW f, FsGood(f), NEW g, FsTypes(g), NEW j \in Jobs, NEW k \in Jobs, k # j,
           Aside(f, g, j), OneWriter(g)
    PROVE  JobState(g, k)
  <1>1. JobState(f, k) /\ FsTypes(f) BY DEF FsGood
  <1>2. g.jobs[k] = f.jobs[k] BY DEF Aside
  <1>3. \A r : r.job = k => (r \in g.reqs <=> r \in f.reqs) BY DEF Aside
  <1>4. k \in 1 .. MaxJobs /\ k # 0 BY DEF Jobs
  <1>5. \A e \in Fds : g.fds[e].owner = k \/ f.fds[e].owner = k => g.fds[e] = f.fds[e]
    BY <1>4 DEF Aside
  <1>6. NoFd(f, k) => NoFd(g, k) BY <1>5 DEF NoFd
  <1>7. ASSUME NEW desc, Owns(f, k, desc) PROVE Owns(g, k, desc) /\ g.fds[desc] = f.fds[desc]
    BY <1>2, <1>5, <1>7 DEF Owns
  <1>8. \A name : Unwritten(g, name) => Unwritten(f, name) BY DEF Unwritten, Aside
  <1>9. f.jobs[k].op \in FileOps => f.jobs[k].name \in Files BY <1>1 DEF FsTypes
  <1>10. ASSUME f.jobs[k].op = "readFile", Unwritten(g, f.jobs[k].name)
         PROVE  g.content[f.jobs[k].name] = f.content[f.jobs[k].name]
    BY <1>9, <1>10 DEF Aside, Unwritten, FileOps
  <1>11. f.jobs[k].op = "writeFile" => g.content[f.jobs[k].name] = f.content[f.jobs[k].name]
    BY <1>2, <1>9 DEF Aside, OneWriter, FileOps
  <1>12. ASSUME NEW data, NEW n
         PROVE  /\ HasRead(f, k, data, n) => HasRead(g, k, data, n)
                /\ HasAll(f, k, data) => HasAll(g, k, data)
                /\ HasWritten(f, k, n) => HasWritten(g, k, n)
    BY <1>2, <1>8, <1>10, <1>11 DEF HasRead, HasAll, HasWritten
  <1>13. CASE Unborn(f, k) BY <1>2, <1>3, <1>6, <1>13 DEF Unborn, JobState
  <1>14. CASE Replied(f, k) BY <1>2, <1>3, <1>6, <1>12, <1>14 DEF Replied, JobState
  <1>15. CASE Waiting(f, k)
    <2>1. PICK r \in f.reqs : (\A q \in f.reqs : q.job = k <=> q = r) /\ AtStage(f, k, r)
      BY <1>15 DEF Waiting
    <2>2. r \in g.reqs /\ \A q \in g.reqs : q.job = k <=> q = r BY <2>1, <1>3
    <2>3. Opens(f, k, r) => Opens(g, k, r) BY <1>2, <1>6, <1>7, <1>12 DEF Opens
    <2>4. Reads(f, k, r) => Reads(g, k, r) BY <1>2, <1>7, <1>12 DEF Reads
    <2>5. Writes(f, k, r) => Writes(g, k, r) BY <1>2, <1>7, <1>12 DEF Writes
    <2>6. Closes(f, k, r) => Closes(g, k, r) BY <1>2, <1>6, <1>7, <1>12 DEF Closes
    <2>7. AsksPath(f, k, r) => AsksPath(g, k, r) BY <1>2, <1>6 DEF AsksPath
    <2>8. AtStage(g, k, r) BY <2>1, <2>3, <2>4, <2>5, <2>6, <2>7 DEF AtStage
    <2>9. Waiting(g, k) BY <2>2, <2>8, <1>2, <1>15 DEF Waiting
    <2> QED BY <2>9 DEF JobState
  <1> QED BY <1>1, <1>13, <1>14, <1>15 DEF JobState

\* What a step of operation j has to show
LEMMA GoodStep ==
    ASSUME NEW f, FsGood(f), NEW g, FsTypes(g), ~g.stray, NEW j \in Jobs, Aside(f, g, j),
           OneWriter(g), JobState(g, j)
    PROVE  FsGood(g)
  <1>1. \A k \in Jobs : JobState(g, k) BY OthersKeep
  <1> QED BY <1>1 DEF FsGood

\* Operation j, whose request was r, goes on from f to g: Q are its requests now
MovesOn(f, g, r, j, Q) ==
    /\ FsGood(f) /\ FsTypes(g) /\ ~g.stray /\ JobState(g, j)
    /\ r \in f.reqs /\ j \in Jobs /\ j = r.job
    /\ \A q \in Q : q.job = j /\ q.state \in {"queued", "done"}
    /\ g.reqs = (f.reqs \ {r}) \cup Q
    /\ \A k \in Jobs \ {j} : g.jobs[k] = f.jobs[k]
    /\ g.jobs[j].op = f.jobs[j].op /\ g.jobs[j].name = f.jobs[j].name
    /\ \A e \in Fds : \/ g.fds[e] = f.fds[e]
                      \/ f.fds[e].owner \in {0, j} /\ g.fds[e].owner \in {0, j}
    /\ \A n \in Files : \/ g.content[n] = f.content[n]
                        \/ f.jobs[j].op = "writeFile" /\ f.jobs[j].name = n

LEMMA Moves ==
    ASSUME NEW f, NEW g, NEW r, NEW j, NEW Q, MovesOn(f, g, r, j, Q)
    PROVE  FsGood(g)
  <1>1. Aside(f, g, j) BY DEF Aside, MovesOn
  <1>2. OneWriter(g)
    <2>1. OneWriter(f) BY DEF FsGood, MovesOn
    <2>2. \A k \in Jobs : g.jobs[k].op = f.jobs[k].op /\ g.jobs[k].name = f.jobs[k].name
      BY DEF MovesOn
    <2> QED BY <2>1, <2>2 DEF OneWriter
  <1> QED BY <1>1, <1>2, GoodStep DEF MovesOn


-----------------------------------------------------------------------------
(* The callbacks *)

\* f without request r, and with another record of its operation
Without(f, r) == [f EXCEPT !.reqs = @ \ {r}]

LEMMA WithoutFields ==
    ASSUME NEW f, FsShape(f), NEW r
    PROVE  /\ FsShape(Without(f, r)) /\ Without(f, r).reqs = f.reqs \ {r}
           /\ Without(f, r).content = f.content /\ Without(f, r).fds = f.fds
           /\ Without(f, r).jobs = f.jobs /\ Without(f, r).stray = f.stray
  <1>1. FsFields(f) BY ShapeFields
  <1>2. f.reqs \ {r} \subseteq f.reqs OBVIOUS
  <1>3. FsShape(Without(f, r)) BY <1>2, FieldChanged DEF Without, Later
  <1> QED BY <1>1, <1>3 DEF Without, FsFields

Put(jobs, j, job) == [jobs EXCEPT ![j] = job]

\* h is f after the callback of r has given operation j the record job
Recorded(f, h, r, j, job) ==
    /\ FsShape(h) /\ h.reqs = f.reqs \ {r} /\ h.content = f.content /\ h.fds = f.fds
    /\ h.stray = f.stray /\ h.jobs = Put(f.jobs, j, job)

\* The callback of r may go on with the record job
MayAsk(f, r, j, job) ==
    /\ FsShape(f) /\ FsGood(f) /\ r \in f.reqs /\ j = r.job /\ job \in FsJob
    /\ job.op = f.jobs[j].op /\ job.name = f.jobs[j].name /\ job.answers = << >>

\* The callback makes the next request
LEMMA AsksNext ==
    ASSUME NEW f, NEW r, NEW j, NEW job, MayAsk(f, r, j, job),
           NEW h, Recorded(f, h, r, j, job),
           NEW call \in {"openR", "openW", "read", "write", "close"} \cup PathNames,
           NEW then \in {"open", "read", "write", "close", "failed", "answer"},
           NEW g, g = Request(h, j, call, then), NEW q, q = NewReq(h, j, call, then)
    PROVE  /\ j \in Jobs /\ g.jobs[j] = job /\ g.content = f.content /\ g.fds = f.fds
           /\ q.job = j /\ q.call = call /\ q.then = then /\ q.fd = job.fd /\ q.name = job.name
           /\ q.pos = job.written /\ q.unit = <<j, job.written + 1>> /\ q.state = "queued"
           /\ \A name : Unwritten(g, name) <=> Unwritten(f, name)
           /\ AtStage(g, j, q) => FsGood(g)
  <1>1. /\ j \in Jobs /\ f.jobs[j].op # "none" /\ FsTypes(f) /\ ~f.stray
        /\ \A p \in f.reqs : p.job = j => p = r
    BY MyRequest DEF FsGood, MayAsk
  <1>2. f.jobs \in [Jobs -> FsJob] BY <1>1 DEF FsTypes
  <1>3. h.jobs[j] = job BY <1>1, <1>2 DEF Recorded, Put
  <1>4. /\ q.job = j /\ q.call = call /\ q.then = then /\ q.fd = job.fd /\ q.name = job.name
        /\ q.pos = job.written /\ q.unit = <<j, job.written + 1>> /\ q.state = "queued"
        /\ q.result.ok = FALSE
    BY <1>3 DEF NewReq, Failed
  <1>5. /\ g.reqs = (f.reqs \ {r}) \cup {q} /\ g.content = f.content /\ g.fds = f.fds
        /\ g.jobs = Put(f.jobs, j, job) /\ g.stray = f.stray
    BY Requested DEF Recorded
  <1>6. /\ g.jobs[j] = job /\ g.jobs \in [Jobs -> FsJob]
        /\ \A k \in Jobs \ {j} : g.jobs[k] = f.jobs[k]
    BY <1>1, <1>2, <1>5 DEF Put, MayAsk
  <1>7. \A k \in Jobs : g.jobs[k].op = f.jobs[k].op /\ g.jobs[k].name = f.jobs[k].name
    BY <1>6 DEF MayAsk
  <1>8. \A name : Unwritten(g, name) <=> Unwritten(f, name) BY <1>7 DEF Unwritten
  <1>9. FsTypes(g)
    <2>1. g.content \in [Files -> Text] /\ g.fds \in [Fds -> FsFile] BY <1>1, <1>5 DEF FsTypes
    <2>2. \A p \in g.reqs : p.job \in Jobs /\ p.state \in {"queued", "done"} /\ p.result.ok \in BOOLEAN
      BY <1>1, <1>4, <1>5 DEF FsTypes
    <2>3. \A k \in Jobs : g.jobs[k].op \in FileOps => g.jobs[k].name \in Files
      BY <1>1, <1>7 DEF FsTypes
    <2> QED BY <2>1, <2>2, <2>3, <1>6 DEF FsTypes
  <1>10. ASSUME AtStage(g, j, q) PROVE FsGood(g)
    <2>1. q \in g.reqs /\ \A p \in g.reqs : p.job = j <=> p = q BY <1>1, <1>4, <1>5
    <2>2. Waiting(g, j) BY <2>1, <1>1, <1>6, <1>7, <1>10 DEF Waiting, MayAsk
    <2>3. JobState(g, j) BY <2>2 DEF JobState
    <2>4. \A p \in {q} : p.job = j /\ p.state \in {"queued", "done"} BY <1>4
    <2>5. MovesOn(f, g, r, j, {q}) BY <2>3, <2>4, <1>1, <1>5, <1>6, <1>7, <1>9 DEF MovesOn, MayAsk
    <2> QED BY <2>5, Moves
  <1> QED BY <1>1, <1>4, <1>5, <1>6, <1>8, <1>10

\* The callback answers
LEMMA AnswersNow ==
    ASSUME NEW f, FsShape(f), FsGood(f), NEW r \in f.reqs, NEW j, j = r.job, NEW ok \in BOOLEAN,
           NEW data \in Text, NoFd(f, j),
           ok => HasAll(f, j, data) /\ HasWritten(f, j, f.jobs[j].len)
    PROVE  FsGood(Answer_fs(Without(f, r), j, ok, data))
  <1> DEFINE g == Answer_fs(Without(f, r), j, ok, data)
             a == [ok |-> ok, data |-> data]
             job == [f.jobs[j] EXCEPT !.answers = Append(@, a)]
  <1>1. /\ j \in Jobs /\ f.jobs[j].op # "none" /\ FsTypes(f) /\ ~f.stray
        /\ f.jobs[j].answers = << >> /\ \A p \in f.reqs : p.job = j => p = r
    BY MyRequest DEF FsGood
  <1>2. f.jobs \in [Jobs -> FsJob] /\ f.jobs[j] \in FsJob BY <1>1 DEF FsTypes
  <1>3. /\ g.reqs = f.reqs \ {r} /\ g.content = f.content /\ g.fds = f.fds /\ g.stray = f.stray
        /\ g.jobs = [f.jobs EXCEPT ![j] = job]
    <2> DEFINE w == Without(f, r)
    <2>1. /\ FsShape(w) /\ w.reqs = f.reqs \ {r} /\ w.content = f.content /\ w.fds = f.fds
          /\ w.stray = f.stray /\ w.jobs = f.jobs
      BY WithoutFields
    <2> HIDE DEF w
    <2>2. /\ g.reqs = w.reqs /\ g.content = w.content /\ g.fds = w.fds /\ g.stray = w.stray
          /\ g.jobs = [w.jobs EXCEPT ![j].answers = Append(@, a)]
      <3>1. g = Answer_fs(w, j, ok, data) BY DEF w
      <3> HIDE DEF g
      <3> QED BY <3>1, <2>1, AnswerKeeps
    <2> HIDE DEF g, a
    <2>3. g.jobs = [f.jobs EXCEPT ![j] = job] BY <2>1, <2>2
    <2> HIDE DEF job
    <2> QED BY <2>1, <2>2, <2>3
  <1>4. Append(<< >>, a) \in Seq([ok : BOOLEAN, data : Text]) /\ Len(Append(<< >>, a)) = 1
        /\ Append(<< >>, a)[1] = a
    <2>1. a \in [ok : BOOLEAN, data : Text] OBVIOUS
    <2> HIDE DEF a
    <2> QED BY <2>1
  <1>5. /\ job \in FsJob /\ job.op = f.jobs[j].op /\ job.name = f.jobs[j].name
        /\ job.len = f.jobs[j].len /\ job.answers = Append(<< >>, a)
    <2> HIDE DEF a
    <2> QED BY <1>1, <1>2, <1>4 DEF FsJob
  <1>6. a.ok = ok /\ a.data = data OBVIOUS
  <1> HIDE DEF g, a, job
  <1>7. /\ g.jobs[j] = job /\ g.jobs \in [Jobs -> FsJob]
        /\ \A k \in Jobs \ {j} : g.jobs[k] = f.jobs[k]
    BY <1>1, <1>2, <1>3, <1>5
  <1>8. \A k \in Jobs : g.jobs[k].op = f.jobs[k].op /\ g.jobs[k].name = f.jobs[k].name
    BY <1>5, <1>7
  <1>9. \A name : Unwritten(g, name) <=> Unwritten(f, name) BY <1>8 DEF Unwritten
  <1>10. FsTypes(g)
    <2>1. g.content \in [Files -> Text] /\ g.fds \in [Fds -> FsFile] BY <1>1, <1>3 DEF FsTypes
    <2>2. \A p \in g.reqs : p.job \in Jobs /\ p.state \in {"queued", "done"} /\ p.result.ok \in BOOLEAN
      BY <1>1, <1>3 DEF FsTypes
    <2>3. \A k \in Jobs : g.jobs[k].op \in FileOps => g.jobs[k].name \in Files
      BY <1>1, <1>8 DEF FsTypes
    <2> QED BY <2>1, <2>2, <2>3, <1>7 DEF FsTypes
  <1>11. Replied(g, j)
    <2>1. \A p \in g.reqs : p.job # j BY <1>1, <1>3
    <2>2. NoFd(g, j) BY <1>3 DEF NoFd
    <2>3. Len(g.jobs[j].answers) = 1 /\ g.jobs[j].answers[1].ok = ok
          /\ g.jobs[j].answers[1].data = data
      BY <1>4, <1>5, <1>6, <1>7
    <2>4. HasAll(f, j, data) => HasAll(g, j, data) BY <1>3, <1>5, <1>7, <1>9 DEF HasAll
    <2>5. HasWritten(f, j, f.jobs[j].len) => HasWritten(g, j, g.jobs[j].len)
      BY <1>3, <1>5, <1>7 DEF HasWritten
    <2> QED BY <2>1, <2>2, <2>3, <2>4, <2>5, <1>1, <1>5, <1>7 DEF Replied
  <1>12. JobState(g, j) BY <1>11 DEF JobState
  <1>13. FsGood(g)
    <2>1. g.reqs = (f.reqs \ {r}) \cup {} BY <1>3
    <2>2. \A q \in {} : q.job = j /\ q.state \in {"queued", "done"} OBVIOUS
    <2>3. MovesOn(f, g, r, j, {}) BY <2>1, <2>2, <1>1, <1>3, <1>7, <1>8, <1>10, <1>12 DEF MovesOn
    <2> QED BY <2>3, Moves
  <1> QED BY <1>13 DEF g

\* f after the callback of r has given operation j the record job
SetJob(f, r, j, job) == [Without(f, r) EXCEPT !.jobs = Put(f.jobs, j, job)]

LEMMA SetJobFields ==
    ASSUME NEW f, FsShape(f), NEW r, NEW j, NEW job
    PROVE  Recorded(f, SetJob(f, r, j, job), r, j, job)
  <1> DEFINE w == Without(f, r)
             jobs == Put(f.jobs, j, job)
             h == [w EXCEPT !.jobs = jobs]
  <1>1. /\ FsShape(w) /\ w.reqs = f.reqs \ {r} /\ w.content = f.content /\ w.fds = f.fds
        /\ w.stray = f.stray
    BY WithoutFields
  <1> HIDE DEF w, jobs
  <1>2. FsFields(w) BY <1>1, ShapeFields
  <1>3. FsShape(h) BY <1>1, FieldChanged DEF Later
  <1>4. /\ h.reqs = w.reqs /\ h.content = w.content /\ h.fds = w.fds /\ h.jobs = jobs
        /\ h.stray = w.stray
    BY <1>2 DEF FsFields
  <1>5. h = SetJob(f, r, j, job) BY DEF SetJob, w, jobs
  <1> QED BY <1>1, <1>3, <1>4, <1>5 DEF Recorded, jobs

\* The next request, in terms of f: the operation's record is job from now on
Asks(f, r, j, job, call, then) == Request(SetJob(f, r, j, job), j, call, then)
NextReq(f, r, j, job, call, then) == NewReq(SetJob(f, r, j, job), j, call, then)

\* What the callback finds after it
AskedOn(f, g, j, job, q, call, then) ==
    /\ j \in Jobs /\ g.jobs[j] = job /\ g.content = f.content /\ g.fds = f.fds
    /\ q.job = j /\ q.call = call /\ q.then = then /\ q.fd = job.fd /\ q.name = job.name
    /\ q.pos = job.written /\ q.unit = <<j, job.written + 1>> /\ q.state = "queued"
    /\ \A desc : Owns(f, j, desc) => Owns(g, j, desc)
    /\ \A data, n : HasRead(f, j, data, n) => HasRead(g, j, data, n)
    /\ \A data : HasAll(f, j, data) => HasAll(g, j, data)
    /\ \A n : HasWritten(f, j, n) => HasWritten(g, j, n)
    /\ AtStage(g, j, q) => FsGood(g)

LEMMA AsksOn ==
    ASSUME NEW f, NEW r, NEW j, NEW job, MayAsk(f, r, j, job),
           NEW call \in {"openR", "openW", "read", "write", "close"} \cup PathNames,
           NEW then \in {"open", "read", "write", "close", "failed", "answer"}
    PROVE  AskedOn(f, Asks(f, r, j, job, call, then), j, job,
                   NextReq(f, r, j, job, call, then), call, then)
  <1> DEFINE h == SetJob(f, r, j, job)
             g == Asks(f, r, j, job, call, then)
             q == NextReq(f, r, j, job, call, then)
  <1>1. Recorded(f, h, r, j, job) BY SetJobFields DEF MayAsk
  <1>2. g = Request(h, j, call, then) /\ q = NewReq(h, j, call, then) BY DEF Asks, NextReq
  <1> HIDE DEF h, g, q
  <1>3. /\ j \in Jobs /\ g.jobs[j] = job /\ g.content = f.content /\ g.fds = f.fds
        /\ q.job = j /\ q.call = call /\ q.then = then /\ q.fd = job.fd /\ q.name = job.name
        /\ q.pos = job.written /\ q.unit = <<j, job.written + 1>> /\ q.state = "queued"
        /\ \A name : Unwritten(g, name) <=> Unwritten(f, name)
        /\ AtStage(g, j, q) => FsGood(g)
    BY <1>1, <1>2, AsksNext
  <1>4. \A desc : Owns(f, j, desc) => Owns(g, j, desc) BY <1>3 DEF Owns, MayAsk
  <1>5. \A data, n : HasRead(f, j, data, n) => HasRead(g, j, data, n) BY <1>3 DEF HasRead, MayAsk
  <1>6. \A data : HasAll(f, j, data) => HasAll(g, j, data) BY <1>3 DEF HasAll, MayAsk
  <1>7. \A n : HasWritten(f, j, n) => HasWritten(g, j, n) BY <1>3 DEF HasWritten, MayAsk
  <1> QED BY <1>3, <1>4, <1>5, <1>6, <1>7 DEF AskedOn, g, q

LEMMA NoneRead == ASSUME NEW c \in Text PROVE IsFirst(<< >>, c, 0)
  BY DEF IsFirst, Text

LEMMA OpenedGood ==
    ASSUME NEW f, FsShape(f), FsGood(f), NEW r \in f.reqs, Opens(f, r.job, r),
           r.state = "done" \/ ~r.result.ok
    PROVE  AfterOpen(Without(f, r), r).thrown \/ FsGood(AfterOpen(Without(f, r), r))
  <1> DEFINE j == r.job
             v == r.result.value
             job == [f.jobs[j] EXCEPT !.fd = v]
             w == Without(f, r)
  <1>1. /\ j \in Jobs /\ f.jobs[j].answers = << >> /\ FsTypes(f) /\ f.jobs[j] \in FsJob
        /\ r.result.ok \in BOOLEAN
    BY MyRequest DEF FsGood, FsTypes
  <1>2. w.jobs = f.jobs /\ FsShape(w) BY WithoutFields
  <1>3. CASE ~r.result.ok
    <2>1. NoFd(f, j) BY <1>3 DEF Opens
    <2>2. << >> \in Text BY DEF Text
    <2>3. FALSE \in BOOLEAN OBVIOUS
    <2>4. FsGood(Answer_fs(w, j, FALSE, << >>)) BY <2>1, <2>2, <2>3, AnswersNow
    <2> QED BY <2>4, <1>3 DEF AfterOpen
  <1>4. CASE r.result.ok
    <2>1. /\ Owns(f, j, v) /\ f.fds[v].pos = 0 /\ HasWritten(f, j, 0) /\ v \in Fds
          /\ f.jobs[j].data = << >> /\ f.jobs[j].written = 0 /\ f.jobs[j].op \in FileOps
      BY <1>4 DEF Opens, Owns
    <2>2. /\ job \in FsJob /\ job.op = f.jobs[j].op /\ job.name = f.jobs[j].name
          /\ job.answers = << >> /\ job.fd = v /\ job.data = << >> /\ job.written = 0
          /\ job.len = f.jobs[j].len /\ job.len \in Nat
      <3>1. v \in 0 .. MaxFds BY <2>1, FsAssumption DEF Fds
      <3> QED BY <1>1, <2>1, <3>1 DEF FsJob
    <2>7. MayAsk(f, r, j, job) BY <2>2 DEF MayAsk
    <2>3. [w EXCEPT !.jobs[j].fd = v] = SetJob(f, r, j, job) BY <1>2 DEF SetJob, Put
    <2> DEFINE h == SetJob(f, r, j, job)
    <2>4. h.jobs[j] = job
      <3>1. h.jobs = Put(f.jobs, j, job) BY SetJobFields DEF Recorded
      <3>2. f.jobs \in [Jobs -> FsJob] BY <1>1 DEF FsTypes
      <3> HIDE DEF job
      <3> QED BY <3>1, <3>2, <1>1 DEF Put
    <2> HIDE DEF h
    <2>5. CASE f.jobs[j].op = "readFile"
      <3> DEFINE g == Asks(f, r, j, job, "read", "read")
                 q == NextReq(f, r, j, job, "read", "read")
      <3>1. AfterOpen(w, r) = g BY <2>3, <2>5, <1>2, <1>4 DEF AfterOpen, Asks
      <3> HIDE DEF job, g, q
      <3>2. HasRead(f, j, << >>, 0)
        <4>1. f.jobs[j].name \in Files BY <1>1, <2>1 DEF FsTypes
        <4>2. f.content[f.jobs[j].name] \in Text BY <4>1, <1>1 DEF FsTypes
        <4>3. IsFirst(<< >>, f.content[f.jobs[j].name], 0) BY <4>2, NoneRead
        <4> QED BY <4>3 DEF HasRead
      <3>3. /\ g.jobs[j] = job /\ q.call = "read" /\ q.then = "read" /\ q.fd = job.fd
            /\ q.state = "queued" /\ g.fds = f.fds /\ Owns(g, j, v) /\ HasRead(g, j, << >>, 0)
            /\ AtStage(g, j, q) => FsGood(g)
        <4>1. AskedOn(f, g, j, job, q, "read", "read") BY <2>7, AsksOn DEF g, q
        <4> QED BY <4>1, <2>1, <3>2 DEF AskedOn
      <3>4. Reads(g, j, q) BY <3>3, <2>1, <2>2, <2>5 DEF Reads
      <3> QED BY <3>1, <3>3, <3>4 DEF AtStage
    <2>6. CASE f.jobs[j].op = "writeFile"
      <3> DEFINE g == Asks(f, r, j, job, "write", "write")
                 q == NextReq(f, r, j, job, "write", "write")
      <3>1. AfterOpen(w, r) = WriteUnit(h, j) BY <2>3, <2>6, <1>2, <1>4 DEF AfterOpen, h
      <3>2. CASE job.len = 0
        <4>1. AfterOpen(w, r) = [h EXCEPT !.thrown = TRUE] BY <3>1, <3>2, <2>4 DEF WriteUnit
        <4>2. FsFields(h) BY SetJobFields, ShapeFields DEF h, Recorded
        <4> QED BY <4>1, <4>2 DEF FsFields
      <3>3. CASE job.len # 0
        <4>1. AfterOpen(w, r) = g BY <3>1, <3>3, <2>4 DEF WriteUnit, Asks, h
        <4> HIDE DEF job, g, q
        <4>2. /\ g.jobs[j] = job /\ q.call = "write" /\ q.then = "write" /\ q.fd = job.fd
              /\ q.pos = job.written /\ q.unit = <<j, job.written + 1>>
              /\ q.state = "queued" /\ Owns(g, j, v) /\ HasWritten(g, j, 0)
              /\ AtStage(g, j, q) => FsGood(g)
          <5>1. AskedOn(f, g, j, job, q, "write", "write") BY <2>7, AsksOn DEF g, q
          <5> QED BY <5>1, <2>1 DEF AskedOn
        <4>3. Writes(g, j, q) BY <4>2, <2>1, <2>2, <2>6, <3>3 DEF Writes
        <4> QED BY <4>1, <4>2, <4>3 DEF AtStage
      <3> QED BY <3>2, <3>3
    <2> QED BY <2>1, <2>5, <2>6 DEF FileOps
  <1> QED BY <1>1, <1>3, <1>4

LEMMA ReadGood ==
    ASSUME NEW f, FsShape(f), FsGood(f), NEW r \in f.reqs, Reads(f, r.job, r), r.state = "done"
    PROVE  FsGood(AfterRead(Without(f, r), r))
  <1> DEFINE j == r.job
             v == r.result.value
             data == f.jobs[j].data \o v
             job == [f.jobs[j] EXCEPT !.data = data]
             w == Without(f, r)
  <1>1. /\ j \in Jobs /\ f.jobs[j].answers = << >> /\ FsTypes(f) /\ f.jobs[j] \in FsJob
    BY MyRequest DEF FsGood, FsTypes
  <1>2. /\ r.result.ok /\ v \in Text /\ Owns(f, j, r.fd) /\ r.fd = f.jobs[j].fd
        /\ f.jobs[j].op = "readFile" /\ f.jobs[j].data \in Text
    BY <1>1 DEF Reads, FsJob
  <1>3. data \in Text BY <1>2 DEF Text
  <1>4. /\ job \in FsJob /\ job.op = f.jobs[j].op /\ job.name = f.jobs[j].name
        /\ job.answers = << >> /\ job.fd = f.jobs[j].fd /\ job.data = data
    <2> HIDE DEF data
    <2> QED BY <1>1, <1>3 DEF FsJob
  <1>5. MayAsk(f, r, j, job) BY <1>4 DEF MayAsk
  <1>6. [w EXCEPT !.jobs[j].data = @ \o v] = SetJob(f, r, j, job)
    BY WithoutFields DEF SetJob, Put
  <1>7. CASE v = << >>
    <2> DEFINE g == Asks(f, r, j, job, "close", "close")
               q == NextReq(f, r, j, job, "close", "close")
    <2>1. AfterRead(w, r) = g BY <1>2, <1>6, <1>7 DEF AfterRead, AtEnd, Asks
    <2>2. data = f.jobs[j].data BY <1>2, <1>7 DEF Text
    <2>3. HasAll(f, j, data) BY <2>2, <1>7 DEF Reads
    <2>4. AskedOn(f, g, j, job, q, "close", "close")
      <3> HIDE DEF job
      <3> QED BY <1>5, AsksOn
    <2> HIDE DEF g, q, job, data
    <2>5. HasWritten(g, j, g.jobs[j].len) BY <2>4, <1>2, <1>4 DEF HasWritten, AskedOn
    <2>6. Closes(g, j, q) BY <2>3, <2>4, <2>5, <1>2, <1>4 DEF Closes, AskedOn, FileOps
    <2> QED BY <2>1, <2>4, <2>6 DEF AskedOn, AtStage
  <1>8. CASE v # << >>
    <2> DEFINE g == Asks(f, r, j, job, "read", "read")
               q == NextReq(f, r, j, job, "read", "read")
    <2>1. AfterRead(w, r) = g BY <1>2, <1>6, <1>8 DEF AfterRead, Asks
    <2>3. HasRead(f, j, data, f.fds[r.fd].pos) BY <1>8 DEF Reads
    <2>4. AskedOn(f, g, j, job, q, "read", "read")
      <3> HIDE DEF job
      <3> QED BY <1>5, AsksOn
    <2> HIDE DEF g, q, job, data
    <2>5. Reads(g, j, q) BY <2>3, <2>4, <1>2, <1>4 DEF Reads, AskedOn
    <2> QED BY <2>1, <2>4, <2>5 DEF AskedOn, AtStage
  <1> QED BY <1>7, <1>8

LEMMA WroteGood ==
    ASSUME NEW f, FsShape(f), FsGood(f), NEW r \in f.reqs, Writes(f, r.job, r), r.state = "done"
    PROVE  FsGood(AfterWrite_fs(Without(f, r), r))
  <1> DEFINE j == r.job
             n == f.jobs[j].written + 1
             job == [f.jobs[j] EXCEPT !.written = n]
             w == Without(f, r)
             h == SetJob(f, r, j, job)
  <1>1. /\ j \in Jobs /\ f.jobs[j].answers = << >> /\ FsTypes(f) /\ f.jobs[j] \in FsJob
    BY MyRequest DEF FsGood, FsTypes
  <1>2. /\ r.result.ok /\ r.result.value = 1 /\ Owns(f, j, r.fd) /\ r.fd = f.jobs[j].fd
        /\ f.jobs[j].op = "writeFile" /\ HasWritten(f, j, n)
        /\ f.jobs[j].written < f.jobs[j].len /\ f.jobs[j].written \in Nat /\ f.jobs[j].len \in Nat
    BY <1>1 DEF Writes, FsJob
  <1>3. n \in Nat /\ n <= f.jobs[j].len /\ f.jobs[j].len # 0 BY <1>2
  <1>4. /\ job \in FsJob /\ job.op = f.jobs[j].op /\ job.name = f.jobs[j].name
        /\ job.answers = << >> /\ job.fd = f.jobs[j].fd /\ job.len = f.jobs[j].len
        /\ job.written = n
    <2> HIDE DEF n
    <2> QED BY <1>1, <1>3 DEF FsJob
  <1>5. MayAsk(f, r, j, job) BY <1>4 DEF MayAsk
  <1>6. [w EXCEPT !.jobs[j].written = @ + r.result.value] = h
    BY <1>2, WithoutFields DEF SetJob, Put
  <1>7. h.jobs[j] = job
    <2>1. h.jobs = Put(f.jobs, j, job) BY SetJobFields DEF Recorded
    <2>2. f.jobs \in [Jobs -> FsJob] BY <1>1 DEF FsTypes
    <2> HIDE DEF job, h
    <2> QED BY <2>1, <2>2, <1>1 DEF Put
  <1>8. CASE n = f.jobs[j].len
    <2> DEFINE g == Request(w, j, "close", "close")
               q == NewReq(w, j, "close", "close")
               old == f.jobs[j]
    <2>1. AfterWrite_fs(w, r) = g
      <3> HIDE DEF h, job, w
      <3> QED BY <1>2, <1>4, <1>6, <1>7, <1>8 DEF AfterWrite_fs
    <2>2. MayAsk(f, r, j, old) BY <1>1 DEF MayAsk
    <2>3. w.jobs = Put(f.jobs, j, old)
      <3>1. w.jobs = f.jobs /\ f.jobs \in [Jobs -> FsJob] BY <1>1, WithoutFields DEF FsTypes
      <3> QED BY <3>1, <1>1 DEF Put
    <2>4. Recorded(f, w, r, j, old)
      <3> HIDE DEF old
      <3> QED BY <2>3, WithoutFields DEF Recorded
    <2> HIDE DEF old, w
    <2>5. /\ g.jobs[j] = old /\ g.content = f.content /\ g.fds = f.fds
          /\ q.call = "close" /\ q.then = "close" /\ q.fd = old.fd /\ q.state = "queued"
          /\ AtStage(g, j, q) => FsGood(g)
      BY <2>2, <2>4, AsksNext
    <2> HIDE DEF g, q
    <2>6. Owns(g, j, q.fd) BY <2>5, <1>2 DEF Owns, old
    <2>7. HasWritten(g, j, g.jobs[j].len) BY <2>5, <1>2, <1>8 DEF HasWritten, old
    <2>8. HasAll(g, j, g.jobs[j].data) BY <2>5, <1>2 DEF HasAll, old
    <2>9. Closes(g, j, q) BY <2>5, <2>6, <2>7, <2>8, <1>2 DEF Closes, FileOps, old
    <2> QED BY <2>1, <2>5, <2>9 DEF AtStage, w
  <1>9. CASE n # f.jobs[j].len
    <2> DEFINE g == Asks(f, r, j, job, "write", "write")
               q == NextReq(f, r, j, job, "write", "write")
    <2>1. AfterWrite_fs(w, r) = g
      <3>1. AfterWrite_fs(w, r) = WriteUnit(h, j)
        <4> HIDE DEF h, job, w, g
        <4>1. r.result.value # 0 /\ h.jobs[j].written # h.jobs[j].len /\ r.result.ok
          BY <1>2, <1>4, <1>7, <1>9
        <4> QED BY <4>1, <1>6, Zenon DEF AfterWrite_fs
      <3>2. WriteUnit(h, j) = Request(h, j, "write", "write")
        <4> HIDE DEF h, job
        <4> QED BY <1>3, <1>4, <1>7 DEF WriteUnit
      <3> QED BY <3>1, <3>2 DEF Asks
    <2>4. AskedOn(f, g, j, job, q, "write", "write")
      <3> HIDE DEF job
      <3> QED BY <1>5, AsksOn
    <2>2. n < f.jobs[j].len BY <1>2, <1>9
    <2> HIDE DEF g, q, job, n
    <2>3. Writes(g, j, q) BY <2>2, <2>4, <1>2, <1>4 DEF Writes, AskedOn
    <2> QED BY <2>1, <2>3, <2>4 DEF AskedOn, AtStage
  <1> QED BY <1>8, <1>9

\* The callback of a request that is done, or that the loop did not take
LEMMA CallbackGood ==
    ASSUME NEW f, FsShape(f), FsGood(f), NEW r \in f.reqs,
           r.state = "done" \/ (r.then \in {"open", "answer"} /\ ~r.result.ok)
    PROVE  AfterAsync(f, r).thrown \/ FsGood(AfterAsync(f, r))
  <1> DEFINE j == r.job
             w == Without(f, r)
  <1>1. AtStage(f, j, r) /\ r.result.ok \in BOOLEAN /\ f.jobs[j] \in FsJob
    BY MyRequest DEF FsGood, FsTypes
  <1>2. CASE Opens(f, j, r)
    <2>1. AfterAsync(f, r) = AfterOpen(w, r) BY <1>2 DEF AfterAsync, Without, Opens
    <2> QED BY <1>2, <2>1, OpenedGood
  <1>3. CASE Reads(f, j, r)
    <2>1. AfterAsync(f, r) = AfterRead(w, r) BY <1>3 DEF AfterAsync, Without, Reads
    <2>2. r.state = "done" BY <1>3 DEF Reads
    <2> QED BY <1>3, <2>1, <2>2, ReadGood
  <1>4. CASE Writes(f, j, r)
    <2>1. AfterAsync(f, r) = AfterWrite_fs(w, r) BY <1>4 DEF AfterAsync, Without, Writes
    <2>2. r.state = "done" BY <1>4 DEF Writes
    <2> QED BY <1>4, <2>1, <2>2, WroteGood
  <1>5. CASE Closes(f, j, r)
    <2> DEFINE data == f.jobs[j].data
    <2>1. AfterAsync(f, r) = AfterClose_fs(w, r) BY <1>5 DEF AfterAsync, Without, Closes
    <2>2. AfterClose_fs(w, r) = Answer_fs(w, j, r.result.ok, data)
      BY <1>5, WithoutFields DEF AfterClose_fs, Closes
    <2>3. /\ r.state = "done" /\ NoFd(f, j) /\ HasAll(f, j, data) /\ HasWritten(f, j, f.jobs[j].len)
      BY <1>5 DEF Closes
    <2>4. data \in Text BY <1>1 DEF FsJob
    <2> HIDE DEF data
    <2>5. FsGood(Answer_fs(w, j, r.result.ok, data)) BY <2>3, <2>4, <1>1, AnswersNow
    <2> QED BY <2>1, <2>2, <2>5
  <1>6. CASE AsksPath(f, j, r)
    <2>1. AfterAsync(f, r) = Answer_fs(w, j, r.result.ok, << >>)
      BY <1>6 DEF AfterAsync, Without, AsksPath
    <2>2. NoFd(f, j) /\ HasAll(f, j, << >>) /\ HasWritten(f, j, f.jobs[j].len)
      BY <1>6 DEF AsksPath, HasAll, HasWritten, FileOps
    <2>3. << >> \in Text BY DEF Text
    <2>4. FsGood(Answer_fs(w, j, r.result.ok, << >>)) BY <2>2, <2>3, <1>1, AnswersNow
    <2> QED BY <2>1, <2>4
  <1> QED BY <1>1, <1>2, <1>3, <1>4, <1>5, <1>6 DEF AtStage

-----------------------------------------------------------------------------
(* The thread pool *)

\* r carried out with the result res, and the state after it
DoneReq(r, res) == [r EXCEPT !.state = "done", !.result = res]
Carried(h, r, res) == [h EXCEPT !.reqs = (@ \ {r}) \cup {DoneReq(r, res)}]

\* The system call of r has led from f to h, with the result res
MayCarry(f, h, r, res) ==
    /\ FsShape(f) /\ FsGood(f) /\ r \in f.reqs /\ FsShape(h) /\ h.reqs = f.reqs
    /\ h.jobs = f.jobs /\ res.ok \in BOOLEAN
    /\ h.content \in [Files -> Text] /\ h.fds \in [Fds -> FsFile] /\ ~h.stray
    /\ \A e \in Fds : \/ h.fds[e] = f.fds[e]
                      \/ f.fds[e].owner \in {0, r.job} /\ h.fds[e].owner \in {0, r.job}
    /\ \A n \in Files : \/ h.content[n] = f.content[n]
                        \/ f.jobs[r.job].op = "writeFile" /\ f.jobs[r.job].name = n

\* What the thread leaves
CarriedOn(f, h, g, r, q, res) ==
    /\ q.job = r.job /\ q.call = r.call /\ q.then = r.then /\ q.fd = r.fd /\ q.name = r.name
    /\ q.pos = r.pos /\ q.unit = r.unit /\ q.state = "done" /\ q.result = res
    /\ g.jobs = f.jobs /\ g.fds = h.fds /\ g.content = h.content
    /\ AtStage(g, r.job, q) => FsGood(g)

LEMMA CarriesOn ==
    ASSUME NEW f, NEW h, NEW r, NEW res, MayCarry(f, h, r, res)
    PROVE  CarriedOn(f, h, Carried(h, r, res), r, DoneReq(r, res), res)
  <1> DEFINE j == r.job
             q == DoneReq(r, res)
             g == Carried(h, r, res)
  <1>1. /\ j \in Jobs /\ f.jobs[j].op # "none" /\ FsTypes(f) /\ f.jobs[j].answers = << >>
        /\ \A p \in f.reqs : p.job = j => p = r
    BY MyRequest DEF FsGood, MayCarry
  <1>2. r = [job |-> r.job, call |-> r.call, then |-> r.then, fd |-> r.fd, name |-> r.name,
             pos |-> r.pos, unit |-> r.unit, state |-> r.state, result |-> r.result]
    BY DEF MayCarry, FsShape
  <1>3. /\ q.job = r.job /\ q.call = r.call /\ q.then = r.then /\ q.fd = r.fd /\ q.name = r.name
        /\ q.pos = r.pos /\ q.unit = r.unit /\ q.state = "done" /\ q.result = res
    <2> DEFINE e == [r EXCEPT !.state = "done"]
    <2>1. /\ e = [job |-> e.job, call |-> e.call, then |-> e.then, fd |-> e.fd, name |-> e.name,
                  pos |-> e.pos, unit |-> e.unit, state |-> e.state, result |-> e.result]
          /\ e.job = r.job /\ e.call = r.call /\ e.then = r.then /\ e.fd = r.fd /\ e.name = r.name
          /\ e.pos = r.pos /\ e.unit = r.unit /\ e.state = "done"
      BY <1>2
    <2>2. q = [e EXCEPT !.result = res] BY <1>2 DEF DoneReq
    <2> HIDE DEF e, q
    <2> QED BY <2>1, <2>2
  <1> HIDE DEF q
  <1>4. /\ g.jobs = f.jobs /\ g.fds = h.fds /\ g.content = h.content /\ g.stray = h.stray
        /\ g.reqs = (f.reqs \ {r}) \cup {q}
    <2>1. FsFields(h) /\ h.reqs = f.reqs /\ h.jobs = f.jobs BY ShapeFields DEF MayCarry
    <2>2. g = [h EXCEPT !.reqs = (f.reqs \ {r}) \cup {q}] BY <2>1 DEF Carried, q
    <2> HIDE DEF g
    <2> QED BY <2>1, <2>2 DEF FsFields
  <1> HIDE DEF g
  <1>5. FsTypes(g)
    <2>1. \A p \in g.reqs : p.job \in Jobs /\ p.state \in {"queued", "done"} /\ p.result.ok \in BOOLEAN
      BY <1>1, <1>3, <1>4 DEF FsTypes, MayCarry
    <2> QED BY <2>1, <1>1, <1>4 DEF FsTypes, MayCarry
  <1>6. ASSUME AtStage(g, j, q) PROVE FsGood(g)
    <2>1. q \in g.reqs /\ \A p \in g.reqs : p.job = j <=> p = q BY <1>1, <1>3, <1>4
    <2>2. Waiting(g, j) BY <2>1, <1>1, <1>4, <1>6 DEF Waiting
    <2>3. JobState(g, j) BY <2>2 DEF JobState
    <2>4. \A p \in {q} : p.job = j /\ p.state \in {"queued", "done"} BY <1>3
    <2>5. MovesOn(f, g, r, j, {q}) BY <2>3, <2>4, <1>1, <1>4, <1>5 DEF MovesOn, MayCarry
    <2> QED BY <2>5, Moves
  <1> QED BY <1>3, <1>4, <1>6 DEF CarriedOn, q, g

\* f with descriptor d's record file
Refiled(f, d, file) == [f EXCEPT !.fds[d] = file]

LEMMA RefiledFields ==
    ASSUME NEW f, FsShape(f), FsTypes(f), NEW d \in Fds, NEW file \in FsFile
    PROVE  /\ FsShape(Refiled(f, d, file)) /\ Refiled(f, d, file).reqs = f.reqs
           /\ Refiled(f, d, file).content = f.content /\ Refiled(f, d, file).jobs = f.jobs
           /\ Refiled(f, d, file).stray = f.stray /\ Refiled(f, d, file).names = f.names
           /\ Refiled(f, d, file).fds \in [Fds -> FsFile] /\ Refiled(f, d, file).fds[d] = file
           /\ \A e \in Fds \ {d} : Refiled(f, d, file).fds[e] = f.fds[e]
  <1> DEFINE fds == [f.fds EXCEPT ![d] = file]
             h == [f EXCEPT !.fds = fds]
  <1>1. Refiled(f, d, file) = h BY DEF Refiled
  <1>2. f.fds \in [Fds -> FsFile] BY DEF FsTypes
  <1>3. fds \in [Fds -> FsFile] /\ fds[d] = file /\ \A e \in Fds \ {d} : fds[e] = f.fds[e]
    BY <1>2
  <1> HIDE DEF fds
  <1>4. FsShape(h) BY FieldChanged DEF Later
  <1>5. FsFields(f) BY ShapeFields
  <1>6. /\ h.reqs = f.reqs /\ h.content = f.content /\ h.jobs = f.jobs /\ h.stray = f.stray
        /\ h.names = f.names /\ h.fds = fds
    BY <1>5 DEF FsFields
  <1> QED BY <1>1, <1>3, <1>4, <1>6

\* f with the file name's content
Rewritten(f, name, units) == [f EXCEPT !.content[name] = units]

LEMMA RewrittenFields ==
    ASSUME NEW f, FsShape(f), f.content \in [Files -> Text], NEW name \in Files, NEW units \in Text
    PROVE  /\ FsShape(Rewritten(f, name, units)) /\ Rewritten(f, name, units).reqs = f.reqs
           /\ Rewritten(f, name, units).fds = f.fds /\ Rewritten(f, name, units).jobs = f.jobs
           /\ Rewritten(f, name, units).stray = f.stray
           /\ Rewritten(f, name, units).content \in [Files -> Text]
           /\ Rewritten(f, name, units).content[name] = units
           /\ \A n \in Files \ {name} : Rewritten(f, name, units).content[n] = f.content[n]
  <1> DEFINE content == [f.content EXCEPT ![name] = units]
             h == [f EXCEPT !.content = content]
  <1>1. Rewritten(f, name, units) = h BY DEF Rewritten
  <1>3. /\ content \in [Files -> Text] /\ content[name] = units
        /\ \A n \in Files \ {name} : content[n] = f.content[n]
    OBVIOUS
  <1> HIDE DEF content
  <1>4. FsShape(h) BY FieldChanged DEF Later
  <1>5. FsFields(f) BY ShapeFields
  <1>6. /\ h.reqs = f.reqs /\ h.content = content /\ h.jobs = f.jobs /\ h.stray = f.stray
        /\ h.fds = f.fds
    BY <1>5 DEF FsFields
  <1> QED BY <1>1, <1>3, <1>4, <1>6

\* A change of the names that exist
LEMMA Renamed ==
    ASSUME NEW f, FsShape(f), NEW m
    PROVE  /\ FsShape([f EXCEPT !.names = m]) /\ [f EXCEPT !.names = m].reqs = f.reqs
           /\ [f EXCEPT !.names = m].fds = f.fds /\ [f EXCEPT !.names = m].jobs = f.jobs
           /\ [f EXCEPT !.names = m].stray = f.stray /\ [f EXCEPT !.names = m].content = f.content
  <1>1. FsShape([f EXCEPT !.names = m]) BY FieldChanged DEF Later
  <1>2. FsFields(f) BY ShapeFields
  <1> QED BY <1>1, <1>2 DEF FsFields

\* What the units read and written add up to
LEMMA ReadOneMore ==
    ASSUME NEW s \in Text, NEW c \in Text, NEW n \in Nat, IsFirst(s, c, n), n < Len(c)
    PROVE  <<c[n + 1]>> \in Text /\ <<c[n + 1]>> # << >> /\ IsFirst(s \o <<c[n + 1]>>, c, n + 1)
  <1>1. n + 1 \in 1 .. Len(c) /\ c[n + 1] \in Units BY DEF Text
  <1>2. Len(s) = n BY DEF IsFirst
  <1> DEFINE u == c[n + 1]
             t == s \o <<u>>
  <1>3. <<u>> \in Text /\ Len(<<u>>) = 1 /\ <<u>>[1] = u BY <1>1 DEF Text
  <1>4. Len(t) = n + 1 /\ t[n + 1] = u /\ \A i \in 1 .. n : t[i] = s[i]
    BY <1>2, <1>1 DEF Text
  <1>5. \A i \in 1 .. n + 1 : t[i] = c[i]
    <2> TAKE i \in 1 .. n + 1
    <2>1. CASE i = n + 1 BY <2>1, <1>4
    <2>2. CASE i # n + 1 BY <2>2, <1>4 DEF IsFirst
    <2> QED BY <2>1, <2>2
  <1>6. Len(c) \in Nat BY DEF Text
  <1> QED BY <1>3, <1>4, <1>5, <1>6 DEF IsFirst

LEMMA ReadAll ==
    ASSUME NEW s \in Text, NEW c \in Text, NEW n \in Nat, IsFirst(s, c, n), ~(n < Len(c))
    PROVE  s = c
  <1>1. Len(s) = n /\ Len(c) = n /\ \A i \in 1 .. n : s[i] = c[i] BY DEF IsFirst, Text
  <1> QED BY <1>1 DEF Text

LEMMA WroteOneMore ==
    ASSUME NEW j \in Jobs, NEW n \in Nat, NEW old, old = [i \in 1 .. n |-> <<j, i>>]
    PROVE  LET new == SubSeq(old, 1, n) \o <<<<j, n + 1>>>> \o SubSeq(old, n + 2, Len(old))
           IN  new \in Text /\ new = [i \in 1 .. n + 1 |-> <<j, i>>]
  <1> DEFINE u == <<j, n + 1>>
             new == SubSeq(old, 1, n) \o <<u>> \o SubSeq(old, n + 2, Len(old))
             all == [i \in 1 .. n + 1 |-> <<j, i>>]
  <1>1. \A i \in Nat : <<j, i>> \in Units BY DEF Units
  <1>2. old \in Text /\ Len(old) = n /\ \A i \in 1 .. n : old[i] = <<j, i>>
    BY <1>1 DEF Text
  <1>3. all \in Text /\ Len(all) = n + 1 /\ \A i \in 1 .. n + 1 : all[i] = <<j, i>>
    BY <1>1 DEF Text
  <1>4. u \in Units BY <1>1
  <1>5. all[n + 1] = u /\ \A i \in 1 .. n : all[i] = old[i] BY <1>2, <1>3
  <1> HIDE DEF u, all
  <1>6. SubSeq(old, 1, n) = old BY <1>2 DEF Text
  <1>7. SubSeq(old, n + 2, Len(old)) = << >> BY <1>2 DEF Text
  <1>8. /\ old \o <<u>> \in Text /\ Len(old \o <<u>>) = n + 1 /\ (old \o <<u>>)[n + 1] = u
        /\ \A i \in 1 .. n : (old \o <<u>>)[i] = old[i]
    BY <1>2, <1>4 DEF Text
  <1> DEFINE t == old \o <<u>>
  <1>9. new = t \o << >> BY <1>6, <1>7
  <1> HIDE DEF t, new
  <1>10. \A x \in Text : x \o << >> = x BY DEF Text
  <1>11. /\ t \in Text /\ Len(t) = n + 1 /\ t[n + 1] = u /\ \A i \in 1 .. n : t[i] = old[i]
    BY <1>8 DEF t
  <1>12. \A i \in 1 .. n + 1 : t[i] = all[i]
    <2> TAKE i \in 1 .. n + 1
    <2>1. CASE i = n + 1 BY <2>1, <1>5, <1>11
    <2>2. CASE i # n + 1
      <3>1. i \in 1 .. n BY <2>2
      <3> QED BY <3>1, <1>5, <1>11
    <2> QED BY <2>1, <2>2
  <1>13. t = all BY <1>3, <1>11, <1>12 DEF Text
  <1>14. new = t BY <1>9, <1>10, <1>11
  <1> QED BY <1>3, <1>13, <1>14 DEF new, u, all

\* The operation of a request, its record and its file
LEMMA MyJob ==
    ASSUME NEW f, FsGood(f), NEW r \in f.reqs
    PROVE  /\ r.job \in Jobs /\ r.job # 0 /\ r.job \in 0 .. MaxJobs /\ FsTypes(f) /\ ~f.stray
           /\ f.jobs[r.job] \in FsJob /\ f.jobs[r.job].name \in FsNames
           /\ f.jobs[r.job].op \in FileOps =>
                 f.jobs[r.job].name \in Files /\ f.content[f.jobs[r.job].name] \in Text
           /\ AtStage(f, r.job, r)
  <1>1. r.job \in Jobs /\ FsTypes(f) /\ ~f.stray /\ AtStage(f, r.job, r) BY MyRequest DEF FsGood
  <1>2. r.job # 0 /\ r.job \in 0 .. MaxJobs BY <1>1, FsAssumption DEF Jobs
  <1>3. f.jobs[r.job] \in FsJob BY <1>1 DEF FsTypes
  <1>4. f.jobs[r.job].op \in FileOps =>
             f.jobs[r.job].name \in Files /\ f.content[f.jobs[r.job].name] \in Text
    BY <1>1 DEF FsTypes
  <1>5. f.jobs[r.job].name \in FsNames BY <1>3 DEF FsJob
  <1> QED BY <1>1, <1>2, <1>3, <1>4, <1>5

LEMMA LowestFd ==
    ASSUME NEW f, FreeFds(f) # {}
    PROVE  Min(FreeFds(f)) \in Fds /\ f.fds[Min(FreeFds(f))] = NoFile
  <1>1. FreeFds(f) \subseteq Nat BY FsAssumption DEF FreeFds, Fds
  <1>2. \E x \in FreeFds(f) : \A y \in FreeFds(f) : x <= y BY <1>1, LeastNat
  <1>3. Min(FreeFds(f)) \in FreeFds(f) BY <1>2 DEF Min
  <1> QED BY <1>3 DEF FreeFds

\* A call that leaves descriptors and files alone
LEMMA CarriesSame ==
    ASSUME NEW f, FsShape(f), FsGood(f), NEW r \in f.reqs, NEW h, FsShape(h), h.reqs = f.reqs,
           h.jobs = f.jobs, h.content = f.content, h.fds = f.fds, h.stray = f.stray,
           NEW res, res.ok \in BOOLEAN
    PROVE  MayCarry(f, h, r, res)
  <1>1. FsTypes(f) /\ ~f.stray BY DEF FsGood
  <1> QED BY <1>1 DEF MayCarry, FsTypes

LEMMA OpenWorks ==
    ASSUME NEW f, FsShape(f), FsGood(f), NEW r \in f.reqs, r.state = "queued", Opens(f, r.job, r)
    PROVE  FsGood(Carried(KernelOpen(f, r)[2], r, KernelOpen(f, r)[1]))
  <1> DEFINE j == r.job
             desc == Min(FreeFds(f))
             file == [name |-> r.name, pos |-> 0, owner |-> j]
             h == Refiled(f, desc, file)
             wide == [h EXCEPT !.content[r.name] = << >>, !.names = @ \cup {r.name}]
  <1>1. /\ j \in Jobs /\ j # 0 /\ j \in 0 .. MaxJobs /\ FsTypes(f) /\ ~f.stray
        /\ r.name \in FsNames /\ r.name \in Files /\ r.name = f.jobs[j].name
        /\ NoFd(f, j) /\ f.jobs[j].op \in FileOps
        /\ f.content \in [Files -> Text] /\ f.fds \in [Fds -> FsFile]
    BY MyJob DEF Opens, FsTypes
  <1>2. ASSUME NEW k, k = <<Failed, f>> PROVE FsGood(Carried(k[2], r, k[1]))
    <2>1. MayCarry(f, f, r, Failed)
      <3>1. Failed.ok \in BOOLEAN BY DEF Failed
      <3> QED BY <3>1, CarriesSame
    <2> DEFINE g == Carried(f, r, Failed)
               q == DoneReq(r, Failed)
    <2>2. CarriedOn(f, f, g, r, q, Failed) BY <2>1, CarriesOn
    <2> HIDE DEF g, q
    <2>3. ~Failed.ok BY DEF Failed
    <2>4. NoFd(g, j) BY <1>1, <2>2 DEF NoFd, CarriedOn
    <2>5. Opens(g, j, q) BY <2>2, <2>3, <2>4 DEF Opens, CarriedOn
    <2>6. FsGood(g) BY <2>2, <2>5 DEF CarriedOn, AtStage
    <2> QED BY <2>6, <1>2 DEF g
  <1>3. ASSUME FreeFds(f) # {}, NEW m, FsShape(m), m.reqs = f.reqs, m.jobs = f.jobs,
               m.stray = f.stray, m.fds = h.fds, m.content \in [Files -> Text],
               \A n \in Files : \/ m.content[n] = f.content[n]
                                \/ f.jobs[j].op = "writeFile" /\ f.jobs[j].name = n,
               f.jobs[j].op = "writeFile" => m.content[r.name] = << >>
        PROVE  FsGood(Carried(m, r, Ok(desc)))
    <2>1. desc \in Fds /\ f.fds[desc] = NoFile BY <1>3, LowestFd
    <2>2. file \in FsFile BY <1>1 DEF FsFile
    <2>3. /\ file.owner = j /\ file.name = r.name /\ file.pos = 0 OBVIOUS
    <2>4. NoFile.owner = 0 BY DEF NoFile
    <2> HIDE DEF desc, file
    <2>5. /\ h.fds \in [Fds -> FsFile] /\ h.fds[desc] = file
          /\ \A e \in Fds \ {desc} : h.fds[e] = f.fds[e]
      BY <2>1, <2>2, <1>1, RefiledFields
    <2> HIDE DEF h
    <2>6. Ok(desc).ok = TRUE /\ Ok(desc).value = desc BY DEF Ok
    <2>7. MayCarry(f, m, r, Ok(desc))
      <3>1. \A e \in Fds : \/ m.fds[e] = f.fds[e]
                           \/ f.fds[e].owner \in {0, j} /\ m.fds[e].owner \in {0, j}
        BY <1>3, <2>1, <2>3, <2>4, <2>5
      <3>2. Ok(desc).ok \in BOOLEAN BY <2>6
      <3> QED BY <3>1, <3>2, <1>1, <1>3, <2>5 DEF MayCarry
    <2> DEFINE g == Carried(m, r, Ok(desc))
               q == DoneReq(r, Ok(desc))
    <2>8. CarriedOn(f, m, g, r, q, Ok(desc)) BY <2>7, CarriesOn
    <2> HIDE DEF g, q
    <2>9. Owns(g, j, desc) BY <1>1, <1>3, <2>1, <2>3, <2>5, <2>8 DEF Owns, NoFd, CarriedOn
    <2>10. HasWritten(g, j, 0)
      <3>1. << >> = [i \in 1 .. 0 |-> <<j, i>>] OBVIOUS
      <3> QED BY <3>1, <1>1, <1>3, <2>8 DEF HasWritten, CarriedOn
    <2>11. Opens(g, j, q)
      BY <2>3, <2>5, <2>6, <2>8, <2>9, <2>10, <1>3 DEF Opens, CarriedOn
    <2>12. FsGood(g) BY <2>8, <2>11 DEF CarriedOn, AtStage
    <2> QED BY <2>12 DEF g
  <1>4. FreeFds(f) # {} => /\ FsShape(h) /\ h.reqs = f.reqs /\ h.content = f.content
                           /\ h.jobs = f.jobs /\ h.stray = f.stray /\ h.names = f.names
    <2>1. FreeFds(f) # {} => desc \in Fds BY LowestFd
    <2>2. file \in FsFile BY <1>1 DEF FsFile
    <2> HIDE DEF desc, file
    <2> QED BY <2>1, <2>2, <1>1, RefiledFields
  <1>5. CASE FreeFds(f) = {} \/ (r.call = "openR" /\ r.name \notin f.names)
    <2>1. KernelOpen(f, r) = <<Failed, f>> BY <1>5 DEF KernelOpen
    <2> QED BY <2>1, <1>2
  <1>6. CASE ~(FreeFds(f) = {} \/ (r.call = "openR" /\ r.name \notin f.names)) /\ r.call = "openR"
    <2>1. KernelOpen(f, r) = <<Ok(desc), h>> BY <1>6 DEF KernelOpen, Refiled
    <2>2. f.jobs[j].op # "writeFile" BY <1>6 DEF Opens
    <2> HIDE DEF h, desc
    <2>3. FsGood(Carried(h, r, Ok(desc))) BY <1>1, <1>3, <1>4, <1>6, <2>2
    <2> QED BY <2>1, <2>3
  <1>7. CASE ~(FreeFds(f) = {} \/ (r.call = "openR" /\ r.name \notin f.names)) /\ r.call # "openR"
    <2>1. KernelOpen(f, r) = <<Ok(desc), wide>> BY <1>7 DEF KernelOpen, Refiled
    <2>2. f.jobs[j].op = "writeFile" BY <1>7 DEF Opens, FileOps
    <2> DEFINE e == Rewritten(h, r.name, << >>)
    <2> HIDE DEF h
    <2>3. << >> \in Text BY DEF Text
    <2>4. /\ FsShape(e) /\ e.reqs = f.reqs /\ e.fds = h.fds /\ e.jobs = f.jobs /\ e.stray = f.stray
          /\ e.content \in [Files -> Text] /\ e.content[r.name] = << >>
          /\ \A n \in Files \ {r.name} : e.content[n] = f.content[n]
      BY <1>1, <1>4, <1>7, <2>3, RewrittenFields
    <2>5. PICK m : m = h.names \cup {r.name} OBVIOUS
    <2>6. wide = [e EXCEPT !.names = m] BY <2>5, <1>4, <1>7 DEF Rewritten
    <2> HIDE DEF e, wide
    <2>7. /\ FsShape(wide) /\ wide.reqs = f.reqs /\ wide.fds = h.fds /\ wide.jobs = f.jobs
          /\ wide.stray = f.stray /\ wide.content = e.content
      BY <2>4, <2>6, Renamed
    <2> HIDE DEF desc
    <2>8. FsGood(Carried(wide, r, Ok(desc))) BY <1>1, <1>3, <1>7, <2>2, <2>4, <2>7
    <2> QED BY <2>1, <2>8
  <1> QED BY <1>5, <1>6, <1>7

LEMMA NoFileFacts == NoFile \in FsFile /\ NoFile.owner = 0
  <1>1. 0 \in 0 .. MaxJobs BY FsAssumption
  <1>2. "none" \in FsNames /\ 0 \in Nat BY DEF FsNames
  <1>3. NoFile.owner = 0 BY DEF NoFile
  <1>4. NoFile \in FsFile BY <1>1, <1>2, Zenon DEF NoFile, FsFile
  <1> QED BY <1>3, <1>4

LEMMA PairParts == ASSUME NEW k, NEW a, NEW b, k = <<a, b>> PROVE k[1] = a /\ k[2] = b
  OBVIOUS

LEMMA ReadWorks ==
    ASSUME NEW f, FsShape(f), FsGood(f), NEW r \in f.reqs, r.state = "queued", Reads(f, r.job, r),
           NEW faulty, ~faulty
    PROVE  FsGood(Carried(KernelRead(f, r, faulty)[2], r, KernelRead(f, r, faulty)[1]))
  <1> DEFINE j == r.job
             file == f.fds[r.fd]
             c == f.content[file.name]
             s == f.jobs[j].data
             n == file.pos
             next == [file EXCEPT !.pos = @ + 1]
             h == Refiled(f, r.fd, next)
             one == <<c[n + 1]>>
  <1>1. /\ j \in Jobs /\ j # 0 /\ j \in 0 .. MaxJobs /\ FsTypes(f) /\ ~f.stray
        /\ f.jobs[j] \in FsJob /\ f.jobs[j].op = "readFile" /\ f.jobs[j].name \in Files
        /\ f.content[f.jobs[j].name] \in Text
        /\ r.fd = f.jobs[j].fd /\ Owns(f, j, r.fd) /\ HasRead(f, j, s, n)
    BY MyJob DEF Reads, FileOps
  <1>2. /\ r.fd \in Fds /\ file \in FsFile /\ file.owner = j /\ file.name = f.jobs[j].name
        /\ c \in Text /\ s \in Text /\ n \in Nat
    BY <1>1 DEF Owns, FsTypes, FsFile, FsJob
  <1>3. file # NoFile BY <1>1, <1>2, NoFileFacts
  <1>4. Unwritten(f, f.jobs[j].name) => IsFirst(s, c, n) BY <1>1, <1>2 DEF HasRead
  <1>7. n < Len(c) => KernelRead(f, r, faulty) = <<Ok(one), h>>
    BY <1>3, Zenon DEF KernelRead, Refiled
  <1>8. ~(n < Len(c)) => KernelRead(f, r, faulty) = <<Ok(<< >>), f>>
    BY <1>3, Zenon DEF KernelRead
  <1>9. file = f.fds[r.fd] /\ c = f.content[file.name] /\ s = f.jobs[j].data /\ n = file.pos
    OBVIOUS
  <1> HIDE DEF file, c, s, n
  <1>5. CASE n < Len(c)
    <2>1. KernelRead(f, r, faulty) = <<Ok(one), h>> BY <1>5, <1>7
    <2>2. next \in FsFile /\ next.pos = n + 1 /\ next.owner = j /\ next.name = file.name
      BY <1>2, <1>9 DEF FsFile
    <2>3. one \in Text /\ one # << >>
      <3>1. c[n + 1] \in Units BY <1>2, <1>5 DEF Text
      <3> QED BY <3>1 DEF Text
    <2>4. Unwritten(f, f.jobs[j].name) => IsFirst(s \o one, c, n + 1)
      BY <1>2, <1>4, <1>5, ReadOneMore
    <2>5. Ok(one).ok = TRUE /\ Ok(one).value = one BY DEF Ok
    <2> HIDE DEF next, one
    <2>6. /\ FsShape(h) /\ h.reqs = f.reqs /\ h.content = f.content /\ h.jobs = f.jobs
          /\ h.stray = f.stray /\ h.fds \in [Fds -> FsFile] /\ h.fds[r.fd] = next
          /\ \A e \in Fds \ {r.fd} : h.fds[e] = f.fds[e]
      BY <1>1, <1>2, <2>2, RefiledFields
    <2> HIDE DEF h
    <2>7. MayCarry(f, h, r, Ok(one))
      <3>1. \A e \in Fds : \/ h.fds[e] = f.fds[e]
                           \/ f.fds[e].owner \in {0, j} /\ h.fds[e].owner \in {0, j}
        BY <1>2, <1>9, <2>2, <2>6
      <3>2. Ok(one).ok \in BOOLEAN BY <2>5
      <3> QED BY <3>1, <3>2, <1>1, <2>6 DEF MayCarry, FsTypes
    <2> DEFINE g == Carried(h, r, Ok(one))
               q == DoneReq(r, Ok(one))
    <2>8. CarriedOn(f, h, g, r, q, Ok(one)) BY <2>7, CarriesOn
    <2> HIDE DEF g, q
    <2>9. Owns(g, j, r.fd)
      <3>1. g.fds = h.fds /\ g.jobs = f.jobs BY <2>8 DEF CarriedOn
      <3>2. \A e \in Fds : f.fds[e].owner = j => e = r.fd BY <1>1 DEF Owns
      <3>3. \A e \in Fds : g.fds[e].owner = j => e = r.fd BY <3>1, <3>2, <2>6
      <3>4. g.fds[r.fd].owner = j /\ g.fds[r.fd].name = g.jobs[j].name
        BY <3>1, <1>2, <2>2, <2>6
      <3> QED BY <3>3, <3>4, <1>2 DEF Owns
    <2>10. HasRead(g, j, g.jobs[j].data \o one, g.fds[r.fd].pos)
      <3>1. g.jobs[j].data = s /\ g.fds[r.fd].pos = n + 1 /\ g.content[g.jobs[j].name] = c
        BY <1>2, <1>9, <2>2, <2>6, <2>8 DEF CarriedOn
      <3>2. Unwritten(g, g.jobs[j].name) => Unwritten(f, f.jobs[j].name)
        BY <2>8 DEF Unwritten, CarriedOn
      <3> QED BY <3>1, <3>2, <2>4 DEF HasRead
    <2>11. Reads(g, j, q) BY <1>1, <2>3, <2>5, <2>8, <2>9, <2>10 DEF Reads, CarriedOn
    <2>12. FsGood(g) BY <2>8, <2>11 DEF CarriedOn, AtStage
    <2> QED BY <2>1, <2>12, PairParts DEF g
  <1>6. CASE ~(n < Len(c))
    <2>1. KernelRead(f, r, faulty) = <<Ok(<< >>), f>> BY <1>6, <1>8
    <2>2. Ok(<< >>).ok = TRUE /\ Ok(<< >>).value = << >> BY DEF Ok
    <2>3. MayCarry(f, f, r, Ok(<< >>))
      <3>1. Ok(<< >>).ok \in BOOLEAN BY <2>2
      <3> QED BY <3>1, CarriesSame
    <2>4. Unwritten(f, f.jobs[j].name) => s = c BY <1>2, <1>4, <1>6, ReadAll
    <2> DEFINE g == Carried(f, r, Ok(<< >>))
               q == DoneReq(r, Ok(<< >>))
    <2>8. CarriedOn(f, f, g, r, q, Ok(<< >>)) BY <2>3, CarriesOn
    <2> HIDE DEF g, q
    <2>9. Owns(g, j, r.fd) BY <1>1, <2>8 DEF Owns, CarriedOn
    <2>10. HasAll(g, j, g.jobs[j].data)
      <3>1. g.jobs[j].data = s /\ g.content[g.jobs[j].name] = c
        BY <1>2, <1>9, <2>8 DEF CarriedOn
      <3>2. Unwritten(g, g.jobs[j].name) => Unwritten(f, f.jobs[j].name)
        BY <2>8 DEF Unwritten, CarriedOn
      <3> QED BY <3>1, <3>2, <2>4 DEF HasAll
    <2>13. << >> \in Text BY DEF Text
    <2>11. Reads(g, j, q) BY <1>1, <2>2, <2>8, <2>9, <2>10, <2>13 DEF Reads, CarriedOn
    <2>12. FsGood(g) BY <2>8, <2>11 DEF CarriedOn, AtStage
    <2> QED BY <2>1, <2>12, PairParts DEF g
  <1> QED BY <1>5, <1>6

LEMMA WriteWorks ==
    ASSUME NEW f, FsShape(f), FsGood(f), NEW r \in f.reqs, r.state = "queued", Writes(f, r.job, r),
           NEW faulty, ~faulty
    PROVE  FsGood(Carried(KernelWrite(f, r, faulty, 1)[2], r, KernelWrite(f, r, faulty, 1)[1]))
  <1> DEFINE j == r.job
             file == f.fds[r.fd]
             old == f.content[file.name]
             n == r.pos
             new == SubSeq(old, 1, n) \o <<r.unit>> \o SubSeq(old, n + 2, Len(old))
             h == Rewritten(f, file.name, new)
             all == [i \in 1 .. n + 1 |-> <<j, i>>]
  <1>1. /\ j \in Jobs /\ j # 0 /\ FsTypes(f) /\ ~f.stray
        /\ f.jobs[j] \in FsJob /\ f.jobs[j].op = "writeFile" /\ f.jobs[j].name \in Files
        /\ r.fd = f.jobs[j].fd /\ Owns(f, j, r.fd)
        /\ n = f.jobs[j].written /\ r.unit = <<j, n + 1>> /\ HasWritten(f, j, n)
    BY MyJob DEF Writes, FileOps
  <1>2. /\ r.fd \in Fds /\ file \in FsFile /\ file.owner = j /\ file.name = f.jobs[j].name
        /\ n \in Nat /\ old = [i \in 1 .. n |-> <<j, i>>]
        /\ f.content \in [Files -> Text] /\ f.fds \in [Fds -> FsFile]
    BY <1>1 DEF Owns, FsTypes, FsFile, FsJob, HasWritten
  <1>3. file # NoFile BY <1>1, <1>2, NoFileFacts
  <1>4. new \in Text /\ new = all
    <2>1. new = SubSeq(old, 1, n) \o <<<<j, n + 1>>>> \o SubSeq(old, n + 2, Len(old)) BY <1>1
    <2> HIDE DEF new, old, n
    <2> QED BY <1>1, <1>2, <2>1, WroteOneMore
  <1>5. KernelWrite(f, r, faulty, 1) = <<Ok(1), h>>
    <2>1. 1 # 0 OBVIOUS
    <2> QED BY <1>3, <2>1, Zenon DEF KernelWrite, Rewritten
  <1>14. file = f.fds[r.fd] /\ old = f.content[file.name] OBVIOUS
  <1> HIDE DEF new, all, file, old
  <1>6. /\ FsShape(h) /\ h.reqs = f.reqs /\ h.fds = f.fds /\ h.jobs = f.jobs /\ h.stray = f.stray
        /\ h.content \in [Files -> Text] /\ h.content[file.name] = new
        /\ \A m \in Files \ {file.name} : h.content[m] = f.content[m]
    BY <1>1, <1>2, <1>4, RewrittenFields
  <1> HIDE DEF h
  <1>7. Ok(1).ok = TRUE /\ Ok(1).value = 1 BY DEF Ok
  <1>8. MayCarry(f, h, r, Ok(1))
    <2>1. Ok(1).ok \in BOOLEAN BY <1>7
    <2> QED BY <2>1, <1>1, <1>2, <1>6 DEF MayCarry
  <1> DEFINE g == Carried(h, r, Ok(1))
             q == DoneReq(r, Ok(1))
  <1>9. CarriedOn(f, h, g, r, q, Ok(1)) BY <1>8, CarriesOn
  <1> HIDE DEF g, q
  <1>10. Owns(g, j, r.fd) BY <1>1, <1>6, <1>9 DEF Owns, CarriedOn
  <1>11. HasWritten(g, j, g.jobs[j].written + 1)
    <2>1. g.content[g.jobs[j].name] = all /\ g.jobs[j].written = n
      BY <1>1, <1>2, <1>4, <1>6, <1>9 DEF CarriedOn
    <2> QED BY <2>1 DEF HasWritten, all
  <1>12. Writes(g, j, q) BY <1>1, <1>7, <1>9, <1>10, <1>11 DEF Writes, CarriedOn
  <1>13. FsGood(g) BY <1>9, <1>12 DEF CarriedOn, AtStage
  <1> QED BY <1>5, <1>13, PairParts DEF g

LEMMA CloseWorks ==
    ASSUME NEW f, FsShape(f), FsGood(f), NEW r \in f.reqs, r.state = "queued", Closes(f, r.job, r)
    PROVE  FsGood(Carried(KernelClose(f, r)[2], r, KernelClose(f, r)[1]))
  <1> DEFINE j == r.job
             file == f.fds[r.fd]
             e == Refiled(f, r.fd, NoFile)
             s == f.stray \/ file.owner # j
             h == [f EXCEPT !.fds[r.fd] = NoFile, !.stray = s]
  <1>1. /\ j \in Jobs /\ j # 0 /\ FsTypes(f) /\ ~f.stray /\ Owns(f, j, r.fd)
        /\ f.jobs[j].op \in FileOps
        /\ HasAll(f, j, f.jobs[j].data) /\ HasWritten(f, j, f.jobs[j].len)
    BY MyJob DEF Closes
  <1>2. r.fd \in Fds /\ file.owner = j /\ \A d \in Fds : f.fds[d].owner = j => d = r.fd
    BY <1>1 DEF Owns
  <1>3. file # NoFile /\ NoFile.owner = 0 /\ ~s BY <1>1, <1>2, NoFileFacts
  <1>4. KernelClose(f, r) = <<Ok(0), h>> BY <1>3 DEF KernelClose
  <1>5. NoFile \in FsFile BY NoFileFacts
  <1>6. /\ FsShape(e) /\ e.reqs = f.reqs /\ e.content = f.content /\ e.jobs = f.jobs
        /\ e.fds \in [Fds -> FsFile] /\ e.fds[r.fd] = NoFile
        /\ \A d \in Fds \ {r.fd} : e.fds[d] = f.fds[d]
    BY <1>1, <1>2, <1>5, RefiledFields
  <1>7. h = [e EXCEPT !.stray = s] BY DEF Refiled
  <1> HIDE DEF e, s, h
  <1>8. FsShape(h) BY <1>6, <1>7, FieldChanged DEF Later
  <1>9. FsFields(e) BY <1>6, ShapeFields
  <1>10. /\ h.reqs = e.reqs /\ h.content = e.content /\ h.jobs = e.jobs /\ h.fds = e.fds /\ h.stray = s
    BY <1>7, <1>9 DEF FsFields
  <1>11. Ok(0).ok = TRUE BY DEF Ok
  <1>12. MayCarry(f, h, r, Ok(0))
    <2>1. Ok(0).ok \in BOOLEAN BY <1>11
    <2>2. \A d \in Fds : \/ h.fds[d] = f.fds[d]
                         \/ f.fds[d].owner \in {0, j} /\ h.fds[d].owner \in {0, j}
      BY <1>2, <1>3, <1>6, <1>10
    <2> QED BY <2>1, <2>2, <1>1, <1>3, <1>6, <1>8, <1>10 DEF MayCarry, FsTypes
  <1> DEFINE g == Carried(h, r, Ok(0))
             q == DoneReq(r, Ok(0))
  <1>13. CarriedOn(f, h, g, r, q, Ok(0)) BY <1>12, CarriesOn
  <1> HIDE DEF g, q
  <1>14. NoFd(g, j) BY <1>1, <1>2, <1>3, <1>6, <1>10, <1>13 DEF NoFd, CarriedOn
  <1>15. g.content = f.content /\ g.jobs = f.jobs BY <1>6, <1>10, <1>13 DEF CarriedOn
  <1>16. HasAll(g, j, g.jobs[j].data) BY <1>1, <1>15 DEF HasAll, Unwritten
  <1>17. HasWritten(g, j, g.jobs[j].len) BY <1>1, <1>15 DEF HasWritten
  <1>18. Closes(g, j, q) BY <1>1, <1>13, <1>14, <1>16, <1>17 DEF Closes, CarriedOn
  <1>19. FsGood(g) BY <1>13, <1>18 DEF CarriedOn, AtStage
  <1> QED BY <1>4, <1>19 DEF g

\* The calls on a path change nothing but the names that exist
PathKeeps(f, k) ==
    /\ k[1].ok \in BOOLEAN /\ FsShape(k[2]) /\ k[2].reqs = f.reqs /\ k[2].jobs = f.jobs
    /\ k[2].content = f.content /\ k[2].fds = f.fds /\ k[2].stray = f.stray

Named(f, m) == [f EXCEPT !.names = m]

LEMMA PathKernel ==
    ASSUME NEW f, FsShape(f), NEW r, r.call \in PathNames
    PROVE  PathKeeps(f, KernelPath(f, r))
  <1>1. Ok(0).ok \in BOOLEAN /\ Failed.ok \in BOOLEAN
    <2>1. Ok(0).ok = TRUE /\ Failed.ok = FALSE BY DEF Ok, Failed
    <2> QED BY <2>1
  <1>2. ASSUME NEW res \in {Ok(0), Failed}, NEW m
        PROVE  PathKeeps(f, <<res, f>>) /\ PathKeeps(f, <<res, Named(f, m)>>)
    <2> DEFINE h == [f EXCEPT !.names = m]
    <2>1. /\ FsShape(h) /\ h.reqs = f.reqs /\ h.fds = f.fds /\ h.jobs = f.jobs
          /\ h.stray = f.stray /\ h.content = f.content
      BY Renamed
    <2> HIDE DEF h
    <2>4. res.ok \in BOOLEAN BY <1>1, <1>2
    <2>2. PathKeeps(f, <<res, h>>) BY <2>4, <2>1 DEF PathKeeps
    <2>3. PathKeeps(f, <<res, f>>) BY <2>4 DEF PathKeeps
    <2> QED BY <2>2, <2>3 DEF h, Named
  <1> DEFINE here == r.name \in f.names
             some == IF here THEN Ok(0) ELSE Failed
             none == IF here THEN Failed ELSE Ok(0)
  <1>3. some \in {Ok(0), Failed} /\ none \in {Ok(0), Failed} OBVIOUS
  <1>8. \A m : /\ PathKeeps(f, <<some, f>>) /\ PathKeeps(f, <<some, Named(f, m)>>)
               /\ PathKeeps(f, <<none, Named(f, m)>>)
    <2> HIDE DEF some, none
    <2> QED BY <1>2, <1>3
  <1>4. CASE r.call \in {"stat", "lstat", "fstat", "readdir"}
    <2>1. KernelPath(f, r) = <<some, f>> BY <1>4 DEF KernelPath
    <2> QED BY <2>1, <1>8, Zenon
  <1>5. CASE r.call = "mkdir"
    <2>1. KernelPath(f, r) = <<none, [f EXCEPT !.names = @ \cup {r.name}]>>
      BY <1>5 DEF KernelPath
    <2>2. PICK m : m = f.names \cup {r.name} OBVIOUS
    <2>3. KernelPath(f, r) = <<none, Named(f, m)>> BY <2>1, <2>2 DEF Named
    <2> QED BY <2>3, <1>8, Zenon
  <1>6. CASE r.call \in {"rmdir", "unlink"}
    <2>1. KernelPath(f, r) = <<some, [f EXCEPT !.names = @ \ {r.name}]>>
      BY <1>6 DEF KernelPath
    <2>2. PICK m : m = f.names \ {r.name} OBVIOUS
    <2>3. KernelPath(f, r) = <<some, Named(f, m)>> BY <2>1, <2>2 DEF Named
    <2> QED BY <2>3, <1>8, Zenon
  <1>7. CASE r.call = "rename"
    <2>1. KernelPath(f, r) = <<some, IF here THEN [f EXCEPT !.names = (@ \ {r.name}) \cup {"v"}] ELSE f>>
      BY <1>7 DEF KernelPath
    <2>2. PICK m : m = (f.names \ {r.name}) \cup {"v"} OBVIOUS
    <2>3. \/ KernelPath(f, r) = <<some, Named(f, m)>>
          \/ KernelPath(f, r) = <<some, f>>
      BY <2>1, <2>2 DEF Named
    <2> QED BY <2>3, <1>8, Zenon
  <1> QED BY <1>4, <1>5, <1>6, <1>7 DEF PathNames

LEMMA PathWorks ==
    ASSUME NEW f, FsShape(f), FsGood(f), NEW r \in f.reqs, AsksPath(f, r.job, r)
    PROVE  FsGood(Carried(KernelPath(f, r)[2], r, KernelPath(f, r)[1]))
  <1> DEFINE h == KernelPath(f, r)[2]
             res == KernelPath(f, r)[1]
             g == Carried(h, r, res)
             q == DoneReq(r, res)
  <1>1. /\ res.ok \in BOOLEAN /\ FsShape(h) /\ h.reqs = f.reqs /\ h.jobs = f.jobs
        /\ h.content = f.content /\ h.fds = f.fds /\ h.stray = f.stray
    BY PathKernel DEF AsksPath, PathKeeps
  <1> HIDE DEF h, res
  <1>2. MayCarry(f, h, r, res) BY <1>1, CarriesSame
  <1>3. CarriedOn(f, h, g, r, q, res) BY <1>2, CarriesOn
  <1> HIDE DEF g, q
  <1>4. NoFd(g, r.job) BY <1>1, <1>3 DEF AsksPath, NoFd, CarriedOn
  <1>5. AsksPath(g, r.job, q) BY <1>3, <1>4 DEF AsksPath, CarriedOn
  <1>6. FsGood(g) BY <1>3, <1>5 DEF CarriedOn, AtStage
  <1> QED BY <1>6 DEF g, h, res

LEMMA WorksGood ==
    ASSUME FsShape(fs), FsGood(fs), NEW r \in fs.reqs, NEW faulty \in BOOLEAN, NEW n \in {0, 1},
           Works(r, faulty, n)
    PROVE  fs'.fault \/ FsGood(fs')
  <1> DEFINE k == Kernel(fs, r, faulty, n)
  <1>1. r.state = "queued" /\ fs' = Carried(k[2], r, k[1])
    BY DEF Works, Carried, DoneReq
  <1>2. r.call \in {"openR", "openW", "read", "write", "close"} \cup PathNames BY DEF FsShape
  <1>3. FsShape(k[2]) BY <1>2, KernelLater DEF Later
  <1>4. k[2].fault => fs'.fault
    <2>1. FsFields(k[2]) BY <1>3, ShapeFields
    <2> DEFINE h == k[2]
    <2>2. PICK Q : Q = (h.reqs \ {r}) \cup {DoneReq(r, k[1])} OBVIOUS
    <2>3. fs' = [h EXCEPT !.reqs = Q] BY <1>1, <2>2 DEF Carried
    <2> HIDE DEF h
    <2>4. FsFields(h) BY <2>1 DEF h
    <2>5. fs'.fault = h.fault BY <2>3, <2>4 DEF FsFields
    <2> QED BY <2>5 DEF h
  <1>5. AtStage(fs, r.job, r) BY MyRequest
  <1>6. CASE Opens(fs, r.job, r)
    <2>1. k = KernelOpen(fs, r)
      <3>1. r.call \in {"openR", "openW"} BY <1>6 DEF Opens
      <3> QED BY <3>1 DEF Kernel
    <2> HIDE DEF k
    <2> QED BY <1>1, <1>6, <2>1, OpenWorks
  <1>7. CASE Reads(fs, r.job, r)
    <2>1. k = KernelRead(fs, r, faulty) BY <1>7 DEF Kernel, Reads
    <2>2. CASE faulty
      <3>1. k = <<Failed, [fs EXCEPT !.fault = TRUE]>> BY <2>1, <2>2 DEF KernelRead
      <3>2. k[2] = [fs EXCEPT !.fault = TRUE] BY <3>1, PairParts
      <3>3. FsFields(fs) BY ShapeFields
      <3> HIDE DEF k
      <3>4. k[2].fault BY <3>2, <3>3 DEF FsFields
      <3> QED BY <3>4, <1>4
    <2>3. CASE ~faulty
      <3> HIDE DEF k
      <3> QED BY <1>1, <1>7, <2>1, <2>3, ReadWorks
    <2> QED BY <2>2, <2>3
  <1>8. CASE Writes(fs, r.job, r)
    <2>1. k = KernelWrite(fs, r, faulty, n) BY <1>8 DEF Kernel, Writes
    <2>2. CASE faulty \/ n = 0
      <3>1. k = <<Failed, [fs EXCEPT !.fault = TRUE]>> \/ k = <<Ok(0), [fs EXCEPT !.fault = TRUE]>>
        BY <2>1, <2>2 DEF KernelWrite
      <3>2. k[2] = [fs EXCEPT !.fault = TRUE] BY <3>1, PairParts
      <3>3. FsFields(fs) BY ShapeFields
      <3> HIDE DEF k
      <3>4. k[2].fault BY <3>2, <3>3 DEF FsFields
      <3> QED BY <3>4, <1>4
    <2>3. CASE ~faulty /\ n = 1
      <3> HIDE DEF k
      <3> QED BY <1>1, <1>8, <2>1, <2>3, WriteWorks
    <2> QED BY <2>2, <2>3
  <1>9. CASE Closes(fs, r.job, r)
    <2>1. k = KernelClose(fs, r) BY <1>9 DEF Kernel, Closes
    <2> HIDE DEF k
    <2> QED BY <1>1, <1>9, <2>1, CloseWorks
  <1>10. CASE AsksPath(fs, r.job, r)
    <2>1. k = KernelPath(fs, r) BY <1>10 DEF Kernel, AsksPath, PathNames
    <2> HIDE DEF k
    <2> QED BY <1>1, <1>10, <2>1, PathWorks
  <1> QED BY <1>5, <1>6, <1>7, <1>8, <1>9, <1>10 DEF AtStage

-----------------------------------------------------------------------------
(* The operations begin *)

\* Operation j, not begun in f, may begin with the record job
MayBegin(f, j, job) ==
    /\ FsShape(f) /\ FsGood(f) /\ j \in Jobs /\ f.jobs[j] = Idle
    /\ job \in FsJob /\ job.op # "none" /\ (job.op \in FileOps => job.name \in Files)
    /\ job.op = "writeFile" => \A k \in Jobs : f.jobs[k].name # job.name

\* g is f after it has: its requests are Q
Begun(f, g, j, job, Q) ==
    /\ g.jobs \in [Jobs -> FsJob] /\ g.jobs[j].op = job.op /\ g.jobs[j].name = job.name
    /\ \A k \in Jobs \ {j} : g.jobs[k] = f.jobs[k]
    /\ g.content = f.content /\ g.fds = f.fds /\ g.stray = f.stray
    /\ g.reqs = f.reqs \cup Q
    /\ \A q \in Q : q.job = j /\ q.state = "queued" /\ q.result.ok = FALSE

LEMMA BeginsGood ==
    ASSUME NEW f, NEW g, NEW j, NEW job, NEW Q, MayBegin(f, j, job), Begun(f, g, j, job, Q),
           JobState(g, j)
    PROVE  FsGood(g)
  <1>1. FsTypes(f) /\ ~f.stray /\ OneWriter(f) /\ j \in Jobs /\ FsGood(f)
    BY DEF MayBegin, FsGood
  <1>2. f.jobs[j].op = "none" BY DEF MayBegin, Idle
  <1>3. FsTypes(g)
    <2>1. \A r \in g.reqs : r.job \in Jobs /\ r.state \in {"queued", "done"} /\ r.result.ok \in BOOLEAN
      BY <1>1 DEF Begun, FsTypes
    <2>2. \A k \in Jobs : g.jobs[k].op \in FileOps => g.jobs[k].name \in Files
      BY <1>1 DEF Begun, MayBegin, FsTypes
    <2> QED BY <2>1, <2>2, <1>1 DEF Begun, FsTypes
  <1>4. OneWriter(g)
    <2> SUFFICES ASSUME NEW i \in Jobs, NEW k \in Jobs, g.jobs[i].op = "writeFile",
                        g.jobs[k].op = "writeFile", g.jobs[i].name = g.jobs[k].name
                 PROVE  i = k
      BY DEF OneWriter
    <2>1. CASE i # j /\ k # j BY <2>1, <1>1 DEF OneWriter, Begun
    <2>2. CASE i = j /\ k # j BY <2>2 DEF Begun, MayBegin
    <2>3. CASE i # j /\ k = j BY <2>3 DEF Begun, MayBegin
    <2> QED BY <2>1, <2>2, <2>3
  <1>5. Aside(f, g, j) BY <1>2 DEF Aside, Begun
  <1> QED BY <1>1, <1>3, <1>4, <1>5, GoodStep DEF Begun

\* FS_ASYNC: the request is made, or refused by the loop
LEMMA SubmitGood ==
    ASSUME NEW f, NEW j, NEW job, MayBegin(f, j, job), job.answers = << >>, job.data = << >>,
           job.written = 0, NEW fails \in BOOLEAN,
           NEW call \in {"openR", "openW", "read", "write", "close"} \cup PathNames,
           NEW then \in {"open", "answer"},
           \/ /\ then = "open" /\ job.op \in FileOps
              /\ call = IF job.op = "readFile" THEN "openR" ELSE "openW"
           \/ then = "answer" /\ job.op \notin FileOps /\ call \in PathNames,
           NEW g, g = Submit([f EXCEPT !.jobs[j] = job], j, call, then, fails)
    PROVE  g.thrown \/ FsGood(g)
  <1> DEFINE jobs == [f.jobs EXCEPT ![j] = job]
             h == [f EXCEPT !.jobs[j] = job]
             e == Request(h, j, call, then)
             q == NewReq(h, j, call, then)
  <1>1. /\ FsShape(f) /\ FsGood(f) /\ FsTypes(f) /\ j \in Jobs /\ f.jobs[j] = Idle /\ job \in FsJob
        /\ f.jobs \in [Jobs -> FsJob]
    BY DEF MayBegin, FsGood, FsTypes
  <1>2. h = [f EXCEPT !.jobs = jobs] OBVIOUS
  <1>3. jobs \in [Jobs -> FsJob] /\ jobs[j] = job /\ \A k \in Jobs \ {j} : jobs[k] = f.jobs[k]
    BY <1>1
  <1> HIDE DEF jobs, h
  <1>4. FsShape(h) BY <1>1, <1>2, FieldChanged DEF Later
  <1>5. FsFields(f) BY <1>1, ShapeFields
  <1>6. /\ h.reqs = f.reqs /\ h.content = f.content /\ h.jobs = jobs /\ h.stray = f.stray
        /\ h.fds = f.fds
    BY <1>2, <1>5 DEF FsFields
  <1>7. /\ FsShape(e) /\ e.reqs = f.reqs \cup {q} /\ e.content = f.content /\ e.fds = f.fds
        /\ e.jobs = jobs /\ e.stray = f.stray
    BY <1>4, <1>6, Requested
  <1>8. /\ q.job = j /\ q.call = call /\ q.then = then /\ q.name = job.name
        /\ q.state = "queued" /\ q.result = Failed
    BY <1>3, <1>6 DEF NewReq
  <1>9. Failed.ok = FALSE BY DEF Failed
  <1>10. Unborn(f, j)
    <2>1. JobState(f, j) BY <1>1 DEF FsGood
    <2>2. f.jobs[j].op = "none" BY <1>1 DEF Idle
    <2> QED BY <2>1, <2>2 DEF JobState, Waiting, Replied
  <1>11. g = IF fails THEN AfterAsync(e, CHOOSE p \in e.reqs : p.job = j) ELSE e
    BY DEF Submit, h
  <1> HIDE DEF e, q
  <1>12. Begun(f, e, j, job, {q})
    BY <1>3, <1>7, <1>8, <1>9 DEF Begun
  <1>13. NoFd(e, j) BY <1>7, <1>10 DEF Unborn, NoFd
  <1>14. AtStage(e, j, q)
    <2>1. CASE then = "open"
      <3>1. Opens(e, j, q) BY <2>1, <1>3, <1>7, <1>8, <1>13 DEF Opens
      <3> QED BY <3>1 DEF AtStage
    <2>2. CASE then = "answer"
      <3>1. AsksPath(e, j, q) BY <2>2, <1>3, <1>7, <1>8, <1>13 DEF AsksPath
      <3> QED BY <3>1 DEF AtStage
    <2> QED BY <2>1, <2>2
  <1>15. q \in e.reqs /\ \A p \in e.reqs : p.job = j <=> p = q
    BY <1>7, <1>8, <1>10 DEF Unborn
  <1>16. JobState(e, j)
    <2>1. Waiting(e, j) BY <1>3, <1>7, <1>14, <1>15 DEF Waiting, MayBegin
    <2> QED BY <2>1 DEF JobState
  <1>17. FsGood(e) BY <1>12, <1>16, BeginsGood
  <1>18. (CHOOSE p \in e.reqs : p.job = j) = q BY <1>15
  <1>19. AfterAsync(e, q).thrown \/ FsGood(AfterAsync(e, q))
    <2>1. q.then \in {"open", "answer"} /\ ~q.result.ok BY <1>8, <1>9
    <2> QED BY <2>1, <1>7, <1>15, <1>17, CallbackGood
  <1> QED BY <1>11, <1>17, <1>18, <1>19

\* The record of an operation that begins
Fresh(op, name, len) ==
    [op |-> op, name |-> name, len |-> len, fd |-> 0, data |-> << >>, written |-> 0,
     answers |-> << >>]

LEMMA NewRecord ==
    ASSUME NEW op \in FsOps, NEW name \in FsNames, NEW len \in Nat
    PROVE  /\ Fresh(op, name, len) \in FsJob /\ Fresh(op, name, len).op = op
           /\ Fresh(op, name, len).name = name /\ Fresh(op, name, len).len = len
           /\ Fresh(op, name, len).answers = << >> /\ Fresh(op, name, len).data = << >>
           /\ Fresh(op, name, len).written = 0
  <1>1. /\ Fresh(op, name, len).op = op
        /\ Fresh(op, name, len).name = name /\ Fresh(op, name, len).len = len
        /\ Fresh(op, name, len).answers = << >> /\ Fresh(op, name, len).data = << >>
        /\ Fresh(op, name, len).written = 0
    BY DEF Fresh
  <1>2. 0 \in 0 .. MaxFds BY FsAssumption
  <1>3. << >> \in Text /\ << >> \in Seq([ok : BOOLEAN, data : Text]) BY DEF Text
  <1>4. 0 \in Nat OBVIOUS
  <1>5. Fresh(op, name, len) \in FsJob
    BY <1>2, <1>3, <1>4 DEF FsJob, Fresh
  <1> QED BY <1>1, <1>5

LEMMA IdleFresh ==
    ASSUME NEW op, NEW name, NEW len
    PROVE  /\ [Idle EXCEPT !.op = op, !.name = name, !.len = len] = Fresh(op, name, len)
           /\ [Idle EXCEPT !.op = op, !.name = name] = Fresh(op, name, 0)
  <1>1. PICK x : x = [Idle EXCEPT !.op = op, !.name = name, !.len = len] OBVIOUS
  <1>2. x = Fresh(op, name, len) BY <1>1 DEF Idle, Fresh
  <1>3. PICK y : y = [Idle EXCEPT !.op = op, !.name = name] OBVIOUS
  <1>4. y = Fresh(op, name, 0) BY <1>3 DEF Idle, Fresh
  <1> QED BY <1>1, <1>2, <1>3, <1>4

LEMMA IdleFields == Idle \in FsJob /\ Idle.op = "none" /\ Idle.answers = << >>
  <1>1. Idle = Fresh("none", "none", 0) BY DEF Idle, Fresh
  <1>2. "none" \in FsOps /\ "none" \in FsNames /\ 0 \in Nat BY DEF FsOps, FsNames
  <1> QED BY <1>1, <1>2, NewRecord

LEMMA ReadFileGood ==
    ASSUME FsShape(fs), FsGood(fs), NEW j \in Jobs, NEW name \in {"a", "b"}, NEW fails \in BOOLEAN,
           ReadFile(j, name, fails)
    PROVE  fs'.thrown \/ FsGood(fs')
  <1> DEFINE job == [Idle EXCEPT !.op = "readFile", !.name = name]
  <1>1. /\ job \in FsJob /\ job.op = "readFile" /\ job.name = name
        /\ job.answers = << >> /\ job.data = << >> /\ job.written = 0
    <2>1. job = Fresh("readFile", name, 0) BY IdleFresh
    <2>2. "readFile" \in FsOps /\ name \in FsNames /\ 0 \in Nat BY DEF FsOps, FileOps, FsNames
    <2> HIDE DEF job
    <2> QED BY <2>1, <2>2, NewRecord
  <1>2. fs.jobs[j] = Idle /\ fs' = Submit([fs EXCEPT !.jobs[j] = job], j, "openR", "open", fails)
    BY DEF ReadFile, NewJob
  <1> HIDE DEF job
  <1>3. MayBegin(fs, j, job) BY <1>1, <1>2 DEF MayBegin, Files
  <1>4. job.op \in FileOps /\ "openR" = IF job.op = "readFile" THEN "openR" ELSE "openW"
    BY <1>1 DEF FileOps
  <1> QED BY <1>1, <1>2, <1>3, <1>4, SubmitGood

LEMMA WriteFileGood ==
    ASSUME FsShape(fs), FsGood(fs), NEW j \in Jobs, NEW len \in {0, 2}, NEW fails \in BOOLEAN,
           WriteFile(j, "b", len, fails)
    PROVE  fs'.thrown \/ FsGood(fs')
  <1> DEFINE job == [Idle EXCEPT !.op = "writeFile", !.name = "b", !.len = len]
  <1>1. /\ job \in FsJob /\ job.op = "writeFile" /\ job.name = "b"
        /\ job.answers = << >> /\ job.data = << >> /\ job.written = 0
    <2>1. job = Fresh("writeFile", "b", len)
      <3>1. PICK x : x = job OBVIOUS
      <3>2. x = Fresh("writeFile", "b", len) BY <3>1 DEF Idle, Fresh
      <3> QED BY <3>1, <3>2
    <2>2. "writeFile" \in FsOps /\ "b" \in FsNames /\ len \in Nat BY DEF FsOps, FileOps, FsNames
    <2> HIDE DEF job
    <2> QED BY <2>1, <2>2, NewRecord
  <1>2. /\ fs.jobs[j] = Idle /\ \A k \in Jobs : fs.jobs[k].name # "b"
        /\ fs' = Submit([fs EXCEPT !.jobs[j] = job], j, "openW", "open", fails)
    BY DEF WriteFile, NewJob
  <1> HIDE DEF job
  <1>3. MayBegin(fs, j, job) BY <1>1, <1>2 DEF MayBegin, Files
  <1>4. job.op \in FileOps /\ "openW" = IF job.op = "readFile" THEN "openR" ELSE "openW"
    BY <1>1 DEF FileOps
  <1> QED BY <1>1, <1>2, <1>3, <1>4, SubmitGood

\* The record of a call on a path
LEMMA PathRecord ==
    ASSUME NEW call \in DOMAIN PathCalls, NEW job, job = Fresh(call, PathCalls[call], 0)
    PROVE  /\ job \in FsJob /\ job.op = call /\ job.op # "none" /\ job.op \notin FileOps
           /\ call \in PathNames /\ job.name = PathCalls[call]
           /\ job.answers = << >> /\ job.data = << >> /\ job.written = 0
  <1>1. call \in PathNames BY PathDomain
  <1>2. call \in FsOps /\ call # "none" /\ call \notin FileOps BY <1>1 DEF FsOps, PathNames, FileOps
  <1>3. PathCalls[call] \in FsNames BY <1>1 DEF PathCalls, PathNames, FsNames
  <1>4. 0 \in Nat OBVIOUS
  <1> QED BY <1>1, <1>2, <1>3, <1>4, NewRecord

LEMMA PathCallGood ==
    ASSUME FsShape(fs), FsGood(fs), NEW j \in Jobs, NEW call \in DOMAIN PathCalls,
           NEW fails \in BOOLEAN, PathCall(j, call, fails)
    PROVE  fs'.thrown \/ FsGood(fs')
  <1> DEFINE job == [Idle EXCEPT !.op = call, !.name = PathCalls[call]]
  <1>1. /\ job \in FsJob /\ job.op = call /\ job.op # "none" /\ job.op \notin FileOps
        /\ call \in PathNames /\ job.answers = << >> /\ job.data = << >> /\ job.written = 0
    <2>1. job = Fresh(call, PathCalls[call], 0) BY IdleFresh
    <2> HIDE DEF job
    <2> QED BY <2>1, PathRecord
  <1>2. /\ fs.jobs[j] = Idle
        /\ fs' = Submit([fs EXCEPT !.jobs[j] = job], j, call, "answer", fails)
    BY DEF PathCall, NewJob
  <1> HIDE DEF job
  <1>3. MayBegin(fs, j, job) BY <1>1, <1>2 DEF MayBegin, FileOps
  <1> QED BY <1>1, <1>2, <1>3, SubmitGood

LEMMA PathCallSyncGood ==
    ASSUME FsShape(fs), FsGood(fs), NEW j \in Jobs, NEW call \in DOMAIN PathCalls,
           PathCallSync(j, call)
    PROVE  FsGood(fs')
  <1> DEFINE job == [Idle EXCEPT !.op = call, !.name = PathCalls[call]]
             r == [call |-> call, name |-> job.name]
             k == Kernel(fs, r, FALSE, 1)
             h == [k[2] EXCEPT !.jobs[j] = job]
             a == [ok |-> k[1].ok, data |-> << >>]
             done == [job EXCEPT !.answers = Append(@, a)]
  <1>1. /\ job \in FsJob /\ job.op = call /\ job.op # "none" /\ job.op \notin FileOps
        /\ call \in PathNames /\ job.answers = << >> /\ job.data = << >> /\ job.written = 0
    <2>1. job = Fresh(call, PathCalls[call], 0) BY IdleFresh
    <2> HIDE DEF job
    <2> QED BY <2>1, PathRecord
  <1>2. fs.jobs[j] = Idle /\ fs' = Answer_fs(h, j, k[1].ok, << >>) BY DEF PathCallSync, NewJob
  <1> HIDE DEF job
  <1>3. PathKeeps(fs, k)
    <2>1. r.call = call OBVIOUS
    <2> HIDE DEF r
    <2>2. k = KernelPath(fs, r) BY <1>1, <2>1 DEF Kernel, PathNames
    <2> QED BY <1>1, <2>1, <2>2, PathKernel
  <1> DEFINE f == k[2]
             ok == k[1].ok
             jobs == [fs.jobs EXCEPT ![j] = job]
  <1> HIDE DEF k
  <1>4. /\ ok \in BOOLEAN /\ FsShape(f) /\ f.reqs = fs.reqs /\ f.jobs = fs.jobs
        /\ f.content = fs.content /\ f.fds = fs.fds /\ f.stray = fs.stray
    BY <1>3 DEF PathKeeps
  <1>5. FsTypes(fs) /\ fs.jobs \in [Jobs -> FsJob] BY DEF FsGood, FsTypes
  <1>6. jobs \in [Jobs -> FsJob] /\ jobs[j] = job /\ \A i \in Jobs \ {j} : jobs[i] = fs.jobs[i]
    BY <1>1, <1>5
  <1>7. h = [f EXCEPT !.jobs = jobs] BY <1>4
  <1>8. Answer_fs(h, j, ok, << >>) = fs' BY <1>2
  <1> HIDE DEF f, ok, jobs, h
  <1>9. FsShape(h) BY <1>4, <1>7, FieldChanged DEF Later
  <1>10. FsFields(f) BY <1>4, ShapeFields
  <1>11. /\ h.reqs = fs.reqs /\ h.content = fs.content /\ h.jobs = jobs /\ h.stray = fs.stray
         /\ h.fds = fs.fds
    BY <1>4, <1>7, <1>10 DEF FsFields
  <1>12. /\ fs'.reqs = fs.reqs /\ fs'.content = fs.content /\ fs'.fds = fs.fds
         /\ fs'.stray = fs.stray
         /\ fs'.jobs = [jobs EXCEPT ![j].answers = Append(@, [ok |-> ok, data |-> << >>])]
    BY <1>8, <1>9, <1>11, AnswerKeeps
  <1>13. a = [ok |-> ok, data |-> << >>] BY DEF ok
  <1>14. a \in [ok : BOOLEAN, data : Text]
    <2>1. << >> \in Text BY DEF Text
    <2> QED BY <2>1, <1>4, <1>13
  <1> HIDE DEF a
  <1>15. Append(<< >>, a) \in Seq([ok : BOOLEAN, data : Text]) /\ Len(Append(<< >>, a)) = 1
    BY <1>14
  <1>16. /\ done \in FsJob /\ done.op = job.op /\ done.name = job.name
         /\ done.answers = Append(<< >>, a)
    BY <1>1, <1>15 DEF FsJob
  <1>17. fs'.jobs = [jobs EXCEPT ![j] = done] BY <1>6, <1>12, <1>13
  <1> HIDE DEF done
  <1>18. /\ fs'.jobs \in [Jobs -> FsJob] /\ fs'.jobs[j] = done
         /\ \A i \in Jobs \ {j} : fs'.jobs[i] = fs.jobs[i]
    BY <1>6, <1>16, <1>17
  <1>19. Begun(fs, fs', j, job, {}) BY <1>12, <1>16, <1>18 DEF Begun
  <1>20. Unborn(fs, j)
    <2>1. JobState(fs, j) BY DEF FsGood
    <2>2. fs.jobs[j].op = "none" BY <1>2, IdleFields
    <2> QED BY <2>1, <2>2 DEF JobState, Waiting, Replied
  <1>21. Replied(fs', j)
    <2>1. NoFd(fs', j) /\ \A q \in fs'.reqs : q.job # j BY <1>12, <1>20 DEF Unborn, NoFd
    <2>2. HasAll(fs', j, fs'.jobs[j].answers[1].data) /\ HasWritten(fs', j, fs'.jobs[j].len)
      BY <1>1, <1>16, <1>18 DEF HasAll, HasWritten, FileOps
    <2> QED BY <2>1, <2>2, <1>1, <1>15, <1>16, <1>18 DEF Replied
  <1>22. MayBegin(fs, j, job) BY <1>1, <1>2 DEF MayBegin, FileOps
  <1>23. JobState(fs', j) BY <1>21 DEF JobState
  <1> QED BY <1>19, <1>22, <1>23, BeginsGood

-----------------------------------------------------------------------------
(* The invariant *)

LEMMA FsStarts == FsInit => FsInv
  <1> SUFFICES ASSUME FsInit PROVE FsInv OBVIOUS
  <1> DEFINE content == [n \in {"a", "b"} |-> IF n = "a" THEN <<"a1", "a2">> ELSE << >>]
             fds == [desc \in Fds |-> NoFile]
             jobs == [j \in Jobs |-> Idle]
  <1>1. fs = [content |-> content, names |-> {"a", "u"}, fds |-> fds, jobs |-> jobs, reqs |-> {},
              thrown |-> FALSE, fault |-> FALSE, stray |-> FALSE]
    BY DEF FsInit
  <1>2. content \in [Files -> Text]
    <2>1. "a1" \in Units /\ "a2" \in Units BY DEF Units
    <2>2. <<"a1", "a2">> \in Text /\ << >> \in Text BY <2>1 DEF Text
    <2> QED BY <2>2 DEF Files
  <1>3. fds \in [Fds -> FsFile] /\ \A e \in Fds : fds[e].owner = 0 BY NoFileFacts
  <1>4. jobs \in [Jobs -> FsJob] /\ \A j \in Jobs : jobs[j] = Idle /\ jobs[j].op = "none"
    BY IdleFields
  <1> HIDE DEF content, fds, jobs
  <1>5. /\ fs.content = content /\ fs.fds = fds /\ fs.jobs = jobs /\ fs.reqs = {} /\ ~fs.stray
    BY <1>1
  <1>6. FsShape(fs) BY <1>1 DEF FsShape
  <1>7. FsTypes(fs) BY <1>2, <1>3, <1>4, <1>5 DEF FsTypes, FileOps
  <1>8. OneWriter(fs) BY <1>4, <1>5 DEF OneWriter
  <1>9. \A j \in Jobs : JobState(fs, j)
    <2> TAKE j \in Jobs
    <2>1. j # 0 BY DEF Jobs
    <2>2. Unborn(fs, j) BY <2>1, <1>3, <1>4, <1>5 DEF Unborn, NoFd
    <2> QED BY <2>2 DEF JobState
  <1> QED BY <1>5, <1>6, <1>7, <1>8, <1>9 DEF FsInv, FsSound, FsGood

LEMMA FsKeeps == FsInv /\ [FsNext]_fs => FsInv'
  <1> SUFFICES ASSUME FsInv, [FsNext]_fs PROVE FsSound(fs') BY DEF FsInv
  <1>1. CASE UNCHANGED fs BY <1>1 DEF FsInv
  <1>2. CASE FsNext
    <2>1. FsShape(fs) /\ (fs.fault \/ fs.thrown \/ FsGood(fs)) BY DEF FsInv, FsSound
    <2>2. Later(fs, fs') BY <2>1, <1>2, StepLater
    <2>3. FsShape(fs') BY <2>2 DEF Later
    <2>4. CASE fs.fault \/ fs.thrown BY <2>2, <2>3, <2>4 DEF Later, FsSound
    <2>5. CASE FsGood(fs)
      <3>1. ASSUME NEW j \in Jobs, NEW name \in {"a", "b"}, NEW fails \in BOOLEAN,
                   ReadFile(j, name, fails)
            PROVE  fs'.thrown \/ FsGood(fs')
        BY <2>1, <2>5, <3>1, ReadFileGood
      <3>2. ASSUME NEW j \in Jobs, NEW len \in {0, 2}, NEW fails \in BOOLEAN,
                   WriteFile(j, "b", len, fails)
            PROVE  fs'.thrown \/ FsGood(fs')
        BY <2>1, <2>5, <3>2, WriteFileGood
      <3>3. ASSUME NEW j \in Jobs, NEW call \in DOMAIN PathCalls, NEW fails \in BOOLEAN,
                   PathCall(j, call, fails)
            PROVE  fs'.thrown \/ FsGood(fs')
        BY <2>1, <2>5, <3>3, PathCallGood
      <3>4. ASSUME NEW j \in Jobs, NEW call \in DOMAIN PathCalls, PathCallSync(j, call)
            PROVE  FsGood(fs')
        BY <2>1, <2>5, <3>4, PathCallSyncGood
      <3>5. ASSUME NEW r \in fs.reqs, NEW faulty \in BOOLEAN, NEW n \in {0, 1}, Works(r, faulty, n)
            PROVE  fs'.fault \/ FsGood(fs')
        BY <2>1, <2>5, <3>5, WorksGood
      <3>6. ASSUME NEW r \in fs.reqs, Completes(r) PROVE fs'.thrown \/ FsGood(fs')
        <4>1. r.state = "done" /\ fs' = AfterAsync(fs, r) BY <3>6 DEF Completes
        <4> QED BY <4>1, <2>1, <2>5, CallbackGood
      <3>7. fs'.fault \/ fs'.thrown \/ FsGood(fs')
        BY <1>2, <3>1, <3>2, <3>3, <3>4, <3>5, <3>6 DEF FsNext
      <3> QED BY <2>3, <3>7 DEF FsSound
    <2> QED BY <2>1, <2>4, <2>5
  <1> QED BY <1>1, <1>2

\* The invariant says what readers and writers rely on
LEMMA FsIsWhole == FsInv => FilesWhole
  <1> SUFFICES ASSUME FsInv, ~fs.fault, ~fs.thrown PROVE FilesWhole BY DEF FilesWhole
  <1>1. FsGood(fs) BY DEF FsInv, FsSound
  <1>2. ~fs.stray /\ FsTypes(fs) BY <1>1 DEF FsGood
  <1>3. ASSUME NEW j \in Jobs PROVE Len(fs.jobs[j].answers) <= 1
    <2>1. JobState(fs, j) BY <1>1 DEF FsGood
    <2>2. Len(<< >>) = 0 OBVIOUS
    <2>3. fs.jobs[j].answers = << >> \/ Len(fs.jobs[j].answers) = 1
      BY <2>1, IdleFields DEF JobState, Unborn, Waiting, Replied
    <2>4. Len(fs.jobs[j].answers) = 0 \/ Len(fs.jobs[j].answers) = 1 BY <2>2, <2>3, Zenon
    <2>5. \A n : n = 0 \/ n = 1 => n <= 1 OBVIOUS
    <2> QED BY <2>4, <2>5, Zenon
  <1>4. ASSUME NEW j \in Jobs, Served(j)
        PROVE  LET job == fs.jobs[j]
                   a == job.answers[1]
               IN  /\ Len(job.answers) = 1
                   /\ \A desc \in Fds : fs.fds[desc].owner # j
                   /\ a.ok /\ job.op = "readFile" /\ Writers(job.name) = {} =>
                          a.data = fs.content[job.name]
                   /\ a.ok /\ job.op = "writeFile" =>
                          fs.content[job.name] = [i \in 1 .. job.len |-> <<j, i>>]
    <2>1. Replied(fs, j)
      <3>1. JobState(fs, j) BY <1>1 DEF FsGood
      <3>2. fs.jobs[j] # Idle /\ \A r \in fs.reqs : r.job # j BY <1>4 DEF Served
      <3>3. ~Waiting(fs, j) BY <3>2 DEF Waiting
      <3> QED BY <3>1, <3>2, <3>3 DEF JobState, Unborn
    <2>2. Len(fs.jobs[j].answers) = 1 /\ \A desc \in Fds : fs.fds[desc].owner # j
      BY <2>1 DEF Replied, NoFd
    <2>3. Writers(fs.jobs[j].name) = {} => Unwritten(fs, fs.jobs[j].name)
      BY DEF Writers, Unwritten
    <2>4. fs.jobs[j].answers[1].ok =>
              HasAll(fs, j, fs.jobs[j].answers[1].data) /\ HasWritten(fs, j, fs.jobs[j].len)
      BY <2>1 DEF Replied
    <2> QED BY <2>2, <2>3, <2>4 DEF HasAll, HasWritten
  <1> QED BY <1>2, <1>3, <1>4 DEF FilesWhole

\* FsInv always holds: whatever order the thread pool takes the requests in, every
\* operation has at most one request, one descriptor and as much of its file as the
\* callbacks have seen.
THEOREM FsInvariance == FsSpec => []FsInv
  BY FsStarts, FsKeeps, PTL DEF FsSpec

\* FilesWhole always holds, for any number of operations and descriptors.
THEOREM FilesAreWhole == FsSpec => []FilesWhole
  BY FsInvariance, FsIsWhole, PTL

=============================================================================
