------------------------------ MODULE NetProofs ------------------------------
(***************************************************************************)
(* Proofs about Net, for any finite set of sockets and any number of calls *)
(* and chunks.  The functions of net.js are operators from state to state; *)
(* each has a lemma about what it does to its own socket (Local says that  *)
(* it leaves the others alone), and each action a lemma over those.        *)
(***************************************************************************)
EXTENDS Net, FiniteSetTheorems, SequenceTheorems, TLAPS

-----------------------------------------------------------------------------
(* Types *)

SocketType ==
    [kind : {"none", "client", "accepted", "pipe", "lost"}, half : BOOLEAN,
     lookup : BOOLEAN, connecting : BOOLEAN, connected : BOOLEAN, writable : BOOLEAN,
     readable : BOOLEAN, destroyed : BOOLEAN, errored : BOOLEAN, handle : BOOLEAN,
     server : BOOLEAN, ready : BOOLEAN, chunks : Nat, writing : BOOLEAN,
     ending : BOOLEAN, ended : BOOLEAN, destroyOnFinish : BOOLEAN, eof : BOOLEAN]

TickType == [name : TickNames, s : Sockets \cup {Server}]

State == [sock : [Sockets -> SocketType], tcp : [Sockets -> Handle],
          server : [handle : BOOLEAN, count : Int, t : Handle],
          ticks : Seq(TickType), crashed : BOOLEAN]

\* The tick `name' of s is queued in q
Queued(q, name, s) == \E i \in DOMAIN q : q[i].name = name /\ q[i].s = s

Used(k) == k.kind \in {"client", "accepted", "pipe"}

-----------------------------------------------------------------------------
(* What is true of a socket k, its handle t and the ticks q *)

\* The handle of a socket is open until the socket is destroyed, which comes after
\* 'finish'
HandleInv(k, t) ==
    /\ k.kind = "none" => k = NewSocket /\ t = NoHandle
    /\ k.kind = "lost" => k = [NewSocket EXCEPT !.kind = "lost"] /\ t = TcpCreate
    /\ Used(k) => /\ k.handle <=> t.uv = "open"
                  /\ t.uv # "none"
                  /\ k.destroyed <=> ~k.handle
                  /\ ~k.handle => k.ended
    /\ k.server <=> k.kind = "accepted" /\ k.handle
    /\ t.uv = "closed" => t.reqs = {}
    /\ t.reading => k.handle

\* How far the stream has got
StreamInv(k, t) ==
    /\ k.ended => k.ending
    /\ k.destroyOnFinish => k.ending
    /\ ~k.writable => k.ending
    /\ k.ending => ~k.writable \/ k.errored
    /\ k.errored => k.ready /\ ~t.reading /\ ~k.eof
    /\ ~k.readable => k.eof
    /\ k.connecting => k.kind = "client" /\ k.readable /\ ~k.eof /\ (k.ready => k.errored)
    /\ k.connecting => ~t.reading
    /\ "connect" \in t.reqs \/ k.lookup => k.connecting /\ ~k.ready
    /\ ~("connect" \in t.reqs /\ k.lookup)
    /\ "write" \in t.reqs => k.ready
    /\ k.ready => k.errored \/ t.conn \in {"up", "shut"}

\* The chunks that wait: somebody is about to write them or to emit 'finish'
FlowInv(k, t, q, s, l, c) ==
    /\ k.ended \/ Queued(q, "finish", s) => k.errored \/ l \/ k.chunks = 0
    /\ Queued(q, "finish", s) => k.ending
    /\ Queued(q, "afterWrite", s) => k.errored
    /\ k.ready /\ ~k.writing => k.chunks = 0
    /\ k.writing => c \/ "write" \in t.reqs \/ Queued(q, "afterWrite", s)
    /\ k.ending /\ ~k.ended /\ ~k.writing /\ k.chunks = 0 => Queued(q, "finish", s)

SocketInv(k, t, q, s, l, c) == HandleInv(k, t) /\ StreamInv(k, t) /\ FlowInv(k, t, q, s, l, c)

-----------------------------------------------------------------------------
(* What is true between the sockets and the rest *)

After(then, s) == ctl = <<[then |-> then, s |-> s]>>

\* The answer of the lookup is being handled
Answered(s) == After("lookup", s) \/ After("lookupFailed", s)

CtlType ==
    \/ ctl = << >>
    \/ After("none", Server)
    \/ \E then \in Continuations, s \in Sockets : After(then, s)

\* A socket is connected once: by a lookup, its answer, a tick, a request
ConnectInv(s) ==
    /\ Answered(s) \/ Queued(ticks, "connect", s) =>
          /\ sock[s].connecting /\ ~sock[s].ready
          /\ ~sock[s].lookup /\ "connect" \notin tcp[s].reqs
    /\ ~(Answered(s) /\ Queued(ticks, "connect", s))
    /\ \A i, j \in DOMAIN ticks :
          ticks[i] = ticks[j] /\ ticks[i] = [name |-> "connect", s |-> s] => i = j
    /\ ~hasty /\ (After("lookup", s) \/ Queued(ticks, "connect", s)) =>
          /\ sock[s].handle
          /\ ~(sock[s].destroyOnFinish /\ Queued(ticks, "finish", s))

\* The tick of onSocketConnect is the first after its callback
ReadStartInv(s) ==
    /\ \A i \in DOMAIN ticks : ticks[i] = [name |-> "readStart", s |-> s] => i = 1
    /\ Queued(ticks, "readStart", s) =>
          /\ ctl = << >> \/ After("none", Server)
          /\ ~sock[s].eof /\ ~sock[s].connecting /\ ~sock[s].errored /\ Used(sock[s])
          /\ ~hasty => sock[s].handle

\* A destroy() waits for 'finish' or has been done
DestroyInv(s) ==
    /\ sock[s].destroyOnFinish /\ sock[s].ended /\ sock[s].handle => After("eof", s)
    /\ s \in doomed => sock[s].destroyed \/ sock[s].destroyOnFinish
    /\ After("eof", s) \/ After("readError", s) =>
          Used(sock[s]) /\ ~sock[s].connecting /\ ~sock[s].errored
    /\ After("eof", s) => sock[s].eof

ServerInv ==
    /\ server.count = Cardinality({s \in Sockets : sock[s].server})
    /\ ~reused /\ Queued(ticks, "serverClose", Server) => ~server.handle /\ server.count = 0

HistoryInv ==
    /\ calls \in Nat /\ input \in Nat /\ serverClosed \in Nat
    /\ late \in BOOLEAN /\ reused \in BOOLEAN /\ hasty \in BOOLEAN
    /\ doomed \subseteq Sockets
    /\ closeEvents = [s \in Sockets |-> IF tcp[s].uv = "closed" THEN 1 ELSE 0]
    /\ crashed => ~Orderly

NetInv ==
    /\ Now \in State
    /\ CtlType
    /\ HistoryInv
    /\ \A s \in Sockets : SocketInv(sock[s], tcp[s], ticks, s, late, crashed)
    /\ ServerInv
    /\ ~crashed => \A s \in Sockets : ConnectInv(s) /\ ReadStartInv(s) /\ DestroyInv(s)

-----------------------------------------------------------------------------
(* A function of net.js that works on socket s *)

Number(b) == IF b THEN 1 ELSE 0

\* From st to u only s has changed; the ticks of u are those of st, then ticks of s
\* and 'close' of a server without connections
Local(st, u, s) ==
    /\ u \in State
    /\ \A r \in Sockets \ {s} : u.sock[r] = st.sock[r] /\ u.tcp[r] = st.tcp[r]
    /\ u.server.handle = st.server.handle /\ u.server.t = st.server.t
    /\ u.server.count = st.server.count + Number(u.sock[s].server) - Number(st.sock[s].server)
    /\ u.sock[s].server => st.sock[s].server
    /\ Len(st.ticks) <= Len(u.ticks)
    /\ \A i \in 1 .. Len(st.ticks) : u.ticks[i] = st.ticks[i]
    /\ \A i \in Len(st.ticks) + 1 .. Len(u.ticks) :
          \/ u.ticks[i].name \in {"finish", "afterWrite"} /\ u.ticks[i].s = s
          \/ /\ u.ticks[i].name = "serverClose"
             /\ ~u.server.handle /\ u.server.count <= 0
    /\ st.crashed => u.crashed

LEMMA LocalSelf == ASSUME NEW st \in State, NEW s \in Sockets PROVE Local(st, st, s)
  BY DEF Local, State, SocketType, Number

LEMMA LocalTrans ==
    ASSUME NEW st \in State, NEW u \in State, NEW v \in State, NEW s \in Sockets,
           Local(st, u, s), Local(u, v, s)
    PROVE  Local(st, v, s)
  <1>1. /\ Len(st.ticks) \in Nat /\ Len(u.ticks) \in Nat /\ Len(v.ticks) \in Nat
        /\ st.server.count \in Int /\ u.server.count \in Int /\ v.server.count \in Int
    BY DEF State
  <1>2. /\ Len(st.ticks) <= Len(v.ticks)
        /\ \A i \in 1 .. Len(st.ticks) : v.ticks[i] = st.ticks[i]
    BY <1>1 DEF Local
  <1>3. v.server.count <= u.server.count /\ v.server.handle = u.server.handle
    BY <1>1 DEF Local, Number
  <1>4. ASSUME NEW i \in Len(st.ticks) + 1 .. Len(v.ticks)
        PROVE  \/ v.ticks[i].name \in {"finish", "afterWrite"} /\ v.ticks[i].s = s
               \/ /\ v.ticks[i].name = "serverClose"
                  /\ ~v.server.handle /\ v.server.count <= 0
    <2>1. CASE i \in Len(u.ticks) + 1 .. Len(v.ticks) BY <2>1 DEF Local
    <2>2. CASE i \in 1 .. Len(u.ticks)
      <3>1. v.ticks[i] = u.ticks[i] /\ i \in Len(st.ticks) + 1 .. Len(u.ticks)
        BY <2>2, <1>1 DEF Local
      <3> QED BY <3>1, <1>1, <1>3 DEF Local
    <2> QED BY <1>1, <2>1, <2>2
  <1>5. v.server.count = st.server.count + Number(v.sock[s].server) - Number(st.sock[s].server)
    BY <1>1 DEF Local, Number
  <1> QED BY <1>2, <1>4, <1>5 DEF Local

\* An assignment to a field of a socket
LEMMA SetSocket ==
    ASSUME NEW st \in State, NEW s \in Sockets, NEW k \in SocketType,
           k.server = st.sock[s].server
    PROVE  LET u == [st EXCEPT !.sock[s] = k]
           IN  /\ Local(st, u, s) /\ u \in State
               /\ u.sock[s] = k /\ u.tcp = st.tcp /\ u.ticks = st.ticks
               /\ u.crashed = st.crashed /\ u.server = st.server
  <1> DEFINE u == [st EXCEPT !.sock[s] = k]
  <1>1. u \in State BY DEF State
  <1>2. /\ u.sock = [st.sock EXCEPT ![s] = k] /\ u.tcp = st.tcp /\ u.ticks = st.ticks
        /\ u.crashed = st.crashed /\ u.server = st.server
    BY DEF State
  <1>3. u.sock[s] = k /\ \A r \in Sockets \ {s} : u.sock[r] = st.sock[r]
    BY <1>2 DEF State
  <1>4. st.server.count \in Int /\ Len(st.ticks) \in Nat BY DEF State
  <1> HIDE DEF u
  <1>5. Local(st, u, s) BY <1>1, <1>2, <1>3, <1>4 DEF Local, Number
  <1> QED BY <1>1, <1>2, <1>3, <1>5 DEF u

\* A call on its handle
LEMMA SetHandle ==
    ASSUME NEW st \in State, NEW s \in Sockets, NEW t \in Handle
    PROVE  LET u == [st EXCEPT !.tcp[s] = t]
           IN  /\ Local(st, u, s) /\ u \in State
               /\ u.tcp[s] = t /\ u.sock = st.sock /\ u.ticks = st.ticks
               /\ u.crashed = st.crashed /\ u.server = st.server
  <1> DEFINE u == [st EXCEPT !.tcp[s] = t]
  <1>1. u \in State BY DEF State
  <1>2. /\ u.tcp = [st.tcp EXCEPT ![s] = t] /\ u.sock = st.sock /\ u.ticks = st.ticks
        /\ u.crashed = st.crashed /\ u.server = st.server
    BY DEF State
  <1>3. u.tcp[s] = t /\ \A r \in Sockets \ {s} : u.tcp[r] = st.tcp[r]
    BY <1>2 DEF State
  <1>4. st.server.count \in Int /\ Len(st.ticks) \in Nat BY DEF State
  <1> HIDE DEF u
  <1>5. Local(st, u, s) BY <1>1, <1>2, <1>3, <1>4 DEF Local, Number
  <1> QED BY <1>1, <1>2, <1>3, <1>5 DEF u

LEMMA AddTick ==
    ASSUME NEW st \in State, NEW s \in Sockets \cup {Server}, NEW name \in TickNames
    PROVE  LET u == NextTick(st, name, s)
           IN  /\ u \in State /\ u.ticks = Append(st.ticks, [name |-> name, s |-> s])
               /\ u.sock = st.sock /\ u.tcp = st.tcp
               /\ u.crashed = st.crashed /\ u.server = st.server
  <1>1. [name |-> name, s |-> s] \in TickType BY DEF TickType
  <1>2. Append(st.ticks, [name |-> name, s |-> s]) \in Seq(TickType)
    BY <1>1 DEF State
  <1> QED BY <1>2 DEF State, NextTick

\* What is queued after a tick was
LEMMA QueuedAfter ==
    ASSUME NEW q \in Seq(TickType), NEW tick \in TickType, NEW n, NEW r
    PROVE  Queued(Append(q, tick), n, r) <=> Queued(q, n, r) \/ (tick.name = n /\ tick.s = r)
  <1> DEFINE a == Append(q, tick)
  <1>1. /\ DOMAIN a = 1 .. Len(q) + 1 /\ DOMAIN q = 1 .. Len(q) /\ Len(q) \in Nat
        /\ a[Len(q) + 1] = tick /\ \A i \in 1 .. Len(q) : a[i] = q[i]
    BY AppendProperties
  <1> HIDE DEF a
  <1>2. Len(q) + 1 \in DOMAIN a /\ \A i \in DOMAIN a : i \in DOMAIN q \/ i = Len(q) + 1
    BY <1>1
  <1>3. DOMAIN q \subseteq DOMAIN a BY <1>1
  <1>4. Queued(a, n, r) <=> Queued(q, n, r) \/ (tick.name = n /\ tick.s = r)
    BY <1>1, <1>2, <1>3 DEF Queued
  <1> QED BY <1>4 DEF a

LEMMA LocalTick ==
    ASSUME NEW st \in State, NEW s \in Sockets, NEW name \in {"finish", "afterWrite"}
    PROVE  LET u == NextTick(st, name, s)
           IN  /\ Local(st, u, s) /\ u \in State
               /\ u.sock = st.sock /\ u.tcp = st.tcp
               /\ u.crashed = st.crashed /\ u.server = st.server
               /\ \A n : Queued(u.ticks, n, s) <=> Queued(st.ticks, n, s) \/ n = name
  <1> DEFINE tick == [name |-> name, s |-> s]
             u == NextTick(st, name, s)
  <1>1. name \in TickNames BY DEF TickNames
  <1>2. /\ u \in State /\ u.ticks = Append(st.ticks, tick)
        /\ u.sock = st.sock /\ u.tcp = st.tcp
        /\ u.crashed = st.crashed /\ u.server = st.server
    BY <1>1, AddTick
  <1>3. tick \in TickType /\ tick.name = name /\ tick.s = s BY <1>1 DEF TickType
  <1>4. st.ticks \in Seq(TickType) /\ st.server.count \in Int BY DEF State
  <1> HIDE DEF u, tick
  <1>5. /\ Len(st.ticks) \in Nat /\ Len(u.ticks) = Len(st.ticks) + 1
        /\ u.ticks[Len(st.ticks) + 1] = tick
        /\ \A i \in 1 .. Len(st.ticks) : u.ticks[i] = st.ticks[i]
    BY <1>2, <1>3, <1>4, AppendProperties
  <1>6. Local(st, u, s) BY <1>2, <1>3, <1>4, <1>5 DEF Local, Number
  <1>7. \A n : Queued(u.ticks, n, s) <=> Queued(st.ticks, n, s) \/ n = name
    BY <1>2, <1>3, <1>4, QueuedAfter
  <1> QED BY <1>2, <1>6, <1>7 DEF u

\* What is queued when the first tick runs
LEMMA QueuedWithout ==
    ASSUME NEW q \in Seq(TickType), q # << >>, NEW n, NEW r
    PROVE  /\ Tail(q) \in Seq(TickType)
           /\ Queued(Tail(q), n, r) => Queued(q, n, r)
           /\ Queued(q, n, r) =>
                 Queued(Tail(q), n, r) \/ (Head(q).name = n /\ Head(q).s = r)
  <1>1. /\ Tail(q) \in Seq(TickType) /\ Len(q) \in Nat \ {0} /\ Len(Tail(q)) = Len(q) - 1
        /\ \A i \in 1 .. Len(q) - 1 : Tail(q)[i] = q[i + 1]
        /\ Head(q) = q[1]
    BY HeadTailProperties
  <1>2. DOMAIN Tail(q) = 1 .. Len(q) - 1 /\ DOMAIN q = 1 .. Len(q) BY <1>1
  <1>3. Queued(Tail(q), n, r) => Queued(q, n, r)
    <2> SUFFICES ASSUME NEW i \in 1 .. Len(q) - 1, Tail(q)[i].name = n, Tail(q)[i].s = r
                 PROVE  Queued(q, n, r)
      BY <1>2 DEF Queued
    <2>1. q[i + 1].name = n /\ q[i + 1].s = r /\ i + 1 \in 1 .. Len(q) BY <1>1
    <2> QED BY <2>1, <1>2 DEF Queued
  <1>4. ASSUME NEW i \in 1 .. Len(q), q[i].name = n, q[i].s = r, i # 1
        PROVE  Queued(Tail(q), n, r)
    <2>1. i - 1 \in 1 .. Len(q) - 1 /\ (i - 1) + 1 = i BY <1>1, <1>4
    <2>2. Tail(q)[i - 1] = q[i] BY <2>1, <1>1
    <2> QED BY <2>1, <2>2, <1>2, <1>4 DEF Queued
  <1>5. Queued(q, n, r) => Queued(Tail(q), n, r) \/ (Head(q).name = n /\ Head(q).s = r)
    BY <1>1, <1>2, <1>4 DEF Queued
  <1> QED BY <1>1, <1>3, <1>5

LEMMA LocalQueued ==
    ASSUME NEW st \in State, NEW u \in State, NEW s \in Sockets, Local(st, u, s), NEW n, NEW r
    PROVE  /\ Queued(st.ticks, n, r) => Queued(u.ticks, n, r)
           /\ n # "serverClose" /\ (n \notin {"finish", "afterWrite"} \/ r # s) =>
                 (Queued(u.ticks, n, r) => Queued(st.ticks, n, r))
           /\ n = "serverClose" /\ Queued(u.ticks, n, r) =>
                 Queued(st.ticks, n, r) \/ (~u.server.handle /\ u.server.count <= 0)
  <1>1. /\ DOMAIN u.ticks = 1 .. Len(u.ticks) /\ DOMAIN st.ticks = 1 .. Len(st.ticks)
        /\ Len(u.ticks) \in Nat /\ Len(st.ticks) \in Nat
    BY DEF State
  <1>2. \A i \in DOMAIN st.ticks : i \in DOMAIN u.ticks /\ u.ticks[i] = st.ticks[i]
    BY <1>1 DEF Local
  <1>3. \A i \in DOMAIN u.ticks : i \notin DOMAIN st.ticks =>
             \/ u.ticks[i].name \in {"finish", "afterWrite"} /\ u.ticks[i].s = s
             \/ /\ u.ticks[i].name = "serverClose"
                /\ ~u.server.handle /\ u.server.count <= 0
    BY <1>1 DEF Local
  <1> QED BY <1>2, <1>3 DEF Queued

-----------------------------------------------------------------------------
(* end and destroy *)

LEMMA CloseSocketEffect ==
    ASSUME NEW st \in State, NEW s \in Sockets
    PROVE  LET u == CloseSocket(st, s)
           IN  /\ Local(st, u, s) /\ u \in State /\ u.crashed = st.crashed
               /\ u.sock[s] = [st.sock[s] EXCEPT !.handle = FALSE, !.server = FALSE]
               /\ u.tcp[s] = TcpClose([st.tcp[s] EXCEPT !.onclose = TRUE])
               /\ \A n : n # "serverClose" =>
                     (Queued(u.ticks, n, s) <=> Queued(st.ticks, n, s))
  <1> DEFINE k == [st.sock[s] EXCEPT !.handle = FALSE, !.server = FALSE]
             t == TcpClose([st.tcp[s] EXCEPT !.onclose = TRUE])
             shut == [st EXCEPT !.tcp[s] = TcpClose([@ EXCEPT !.onclose = TRUE]),
                                !.sock[s].handle = FALSE, !.sock[s].server = FALSE]
             low == [shut EXCEPT !.server.count = @ - 1]
             u == CloseSocket(st, s)
  <1>1. st.sock[s] \in SocketType /\ st.tcp[s] \in Handle BY DEF State
  <1>2. k \in SocketType /\ k.server = FALSE BY <1>1 DEF SocketType
  <1>3. t \in Handle BY <1>1 DEF Handle, TcpClose
  <1>4. shut = [st EXCEPT !.sock = [st.sock EXCEPT ![s] = k], !.tcp = [st.tcp EXCEPT ![s] = t]]
    BY <1>1 DEF State, SocketType
  <1> HIDE DEF k, t, shut
  <1>5. /\ shut \in State /\ shut.server = st.server /\ shut.ticks = st.ticks
        /\ shut.crashed = st.crashed
        /\ shut.sock = [st.sock EXCEPT ![s] = k] /\ shut.tcp = [st.tcp EXCEPT ![s] = t]
    BY <1>2, <1>3, <1>4 DEF State
  <1>6. /\ low \in State /\ low.ticks = st.ticks /\ low.crashed = st.crashed
        /\ low.sock = shut.sock /\ low.tcp = shut.tcp
        /\ low.server.count = st.server.count - 1
        /\ low.server.handle = st.server.handle /\ low.server.t = st.server.t
    BY <1>5 DEF State
  <1> HIDE DEF low
  <1>7. u = IF st.sock[s].server THEN EmitCloseIfDrained(low) ELSE shut
    BY DEF CloseSocket, shut, low
  <1> HIDE DEF u
  <1>8. /\ \A r \in Sockets \ {s} : shut.sock[r] = st.sock[r] /\ shut.tcp[r] = st.tcp[r]
        /\ shut.sock[s] = k /\ shut.tcp[s] = t
    BY <1>5 DEF State
  <1>9. Len(st.ticks) \in Nat /\ st.server.count \in Int /\ st.sock[s].server \in BOOLEAN
        /\ st.ticks \in Seq(TickType) /\ Server \in Sockets \cup {Server}
        /\ "serverClose" \in TickNames
    BY <1>1 DEF State, SocketType, TickNames
  <1>10. CASE ~st.sock[s].server
    <2>1. u = shut BY <1>7, <1>10
    <2>2. Local(st, u, s) BY <2>1, <1>2, <1>5, <1>8, <1>9, <1>10 DEF Local, Number
    <2> QED BY <2>1, <2>2, <1>5, <1>8 DEF k, t, u
  <1>11. CASE st.sock[s].server /\ (low.server.handle \/ low.server.count > 0)
    <2>1. u = low BY <1>7, <1>11 DEF EmitCloseIfDrained
    <2>2. Local(st, u, s) BY <2>1, <1>2, <1>6, <1>8, <1>9, <1>11 DEF Local, Number
    <2> QED BY <2>1, <2>2, <1>6, <1>8 DEF k, t, u
  <1>12. CASE st.sock[s].server /\ ~(low.server.handle \/ low.server.count > 0)
    <2> DEFINE tick == [name |-> "serverClose", s |-> Server]
    <2>1. u = NextTick(low, "serverClose", Server) BY <1>7, <1>12 DEF EmitCloseIfDrained
    <2>2. /\ u \in State /\ u.ticks = Append(st.ticks, tick)
          /\ u.sock = low.sock /\ u.tcp = low.tcp
          /\ u.crashed = st.crashed /\ u.server = low.server
      <3>1. low \in State BY <1>6
      <3>2. /\ u \in State /\ u.ticks = Append(low.ticks, tick)
            /\ u.sock = low.sock /\ u.tcp = low.tcp
            /\ u.crashed = low.crashed /\ u.server = low.server
        BY ONLY <2>1, <3>1, <1>9, AddTick
      <3> QED BY <3>2, <1>6
    <2>3. tick \in TickType /\ tick.name = "serverClose" BY <1>9 DEF TickType
    <2> HIDE DEF tick
    <2>4. /\ Len(u.ticks) = Len(st.ticks) + 1 /\ u.ticks[Len(st.ticks) + 1] = tick
          /\ \A i \in 1 .. Len(st.ticks) : u.ticks[i] = st.ticks[i]
      BY <2>2, <2>3, <1>9, AppendProperties
    <2>5. u.server.count <= 0 /\ ~u.server.handle BY <1>12, <2>2, <1>6, <1>9
    <2>6. Local(st, u, s)
      BY <2>2, <2>3, <2>4, <2>5, <1>2, <1>6, <1>8, <1>9, <1>12 DEF Local, Number
    <2>7. \A n : n # "serverClose" => (Queued(u.ticks, n, s) <=> Queued(st.ticks, n, s))
      BY <2>2, <2>3, <1>9, QueuedAfter
    <2> QED BY <2>2, <2>6, <2>7, <1>6, <1>8 DEF k, t, u
  <1> QED BY <1>10, <1>11, <1>12

LEMMA DestroyNowEffect ==
    ASSUME NEW st \in State, NEW s \in Sockets
    PROVE  LET u == DestroyNow(st, s)
               k == st.sock[s]
               t == st.tcp[s]
           IN  /\ Local(st, u, s) /\ u \in State /\ u.crashed = st.crashed
               /\ k.ended /\ k.handle =>
                     /\ u.sock[s] = [k EXCEPT !.handle = FALSE, !.server = FALSE,
                                              !.destroyed = TRUE]
                     /\ u.tcp[s] = TcpClose([t EXCEPT !.onclose = TRUE])
               /\ ~(k.ended /\ k.handle) =>
                     /\ u.sock[s] = [k EXCEPT !.destroyOnFinish = TRUE]
                     /\ u.tcp[s] = t
               /\ \A n : n # "serverClose" =>
                     (Queued(u.ticks, n, s) <=> Queued(st.ticks, n, s))
  <1> DEFINE k == st.sock[s]
             v == CloseSocket(st, s)
             u == DestroyNow(st, s)
  <1>1. k \in SocketType BY DEF State
  <1>2. CASE k.ended /\ k.handle
    <2> DEFINE kv == [k EXCEPT !.handle = FALSE, !.server = FALSE]
               ku == [k EXCEPT !.handle = FALSE, !.server = FALSE, !.destroyed = TRUE]
    <2>1. /\ Local(st, v, s) /\ v \in State /\ v.crashed = st.crashed
          /\ v.sock[s] = kv
          /\ v.tcp[s] = TcpClose([st.tcp[s] EXCEPT !.onclose = TRUE])
          /\ \A n : n # "serverClose" => (Queued(v.ticks, n, s) <=> Queued(st.ticks, n, s))
      BY CloseSocketEffect
    <2>2. u = [v EXCEPT !.sock[s].destroyed = TRUE] BY <1>2 DEF DestroyNow
    <2> HIDE DEF v
    <2>3. ku \in SocketType /\ ku.server = v.sock[s].server BY <1>1, <2>1 DEF SocketType
    <2>4. [v.sock[s] EXCEPT !.destroyed = TRUE] = ku BY <2>1, <1>1 DEF SocketType
    <2>5. u = [v EXCEPT !.sock[s] = ku] BY <2>2, <2>4
    <2> HIDE DEF u, ku
    <2>6. /\ Local(v, u, s) /\ u \in State /\ u.sock[s] = ku
          /\ u.tcp = v.tcp /\ u.ticks = v.ticks /\ u.crashed = v.crashed
      <3>1. v \in State BY <2>1
      <3> QED BY ONLY <3>1, <2>3, <2>5, SetSocket, s \in Sockets
    <2>7. Local(st, u, s) BY <2>1, <2>6, LocalTrans
    <2> QED BY <1>2, <2>1, <2>6, <2>7 DEF u, ku
  <1>3. CASE ~(k.ended /\ k.handle)
    <2> DEFINE ku == [k EXCEPT !.destroyOnFinish = TRUE]
    <2>1. u = [st EXCEPT !.sock[s] = ku] BY <1>3 DEF DestroyNow
    <2>2. ku \in SocketType /\ ku.server = st.sock[s].server BY <1>1 DEF SocketType
    <2> HIDE DEF u, ku
    <2>3. /\ Local(st, u, s) /\ u \in State /\ u.sock[s] = ku
          /\ u.tcp = st.tcp /\ u.ticks = st.ticks /\ u.crashed = st.crashed
      BY <2>1, <2>2, SetSocket
    <2> QED BY <1>3, <2>3 DEF u, ku
  <1> QED BY <1>2, <1>3

\* The invariant of s in a state st; l: the script has written after end()
Sound(st, s, l) == SocketInv(st.sock[s], st.tcp[s], st.ticks, s, l, st.crashed)

\* What the functions of net.js that end, write and destroy never do to a socket: go
\* back, open a handle, touch the connect request, the lookup and the input
Forward(st, u, s) ==
    LET k == st.sock[s]
        j == u.sock[s]
    IN  /\ Local(st, u, s)
        /\ j.kind = k.kind /\ j.lookup = k.lookup /\ j.connecting = k.connecting
        /\ j.eof = k.eof /\ j.errored = k.errored
        /\ k.destroyed => j.destroyed
        /\ k.destroyOnFinish => j.destroyOnFinish
        /\ j.handle => k.handle
        /\ "connect" \in u.tcp[s].reqs <=> "connect" \in st.tcp[s].reqs
        /\ u.tcp[s].uv = "closed" <=> st.tcp[s].uv = "closed"
        /\ j.destroyOnFinish /\ j.ended /\ j.handle => k.destroyOnFinish /\ k.ended

LEMMA ForwardSelf == ASSUME NEW st \in State, NEW s \in Sockets PROVE Forward(st, st, s)
  BY LocalSelf DEF Forward

LEMMA ForwardTrans ==
    ASSUME NEW st \in State, NEW u \in State, NEW v \in State, NEW s \in Sockets,
           Forward(st, u, s), Forward(u, v, s)
    PROVE  Forward(st, v, s)
  <1>1. Local(st, v, s) BY LocalTrans DEF Forward
  <1> QED BY <1>1 DEF Forward

\* The destroy of a socket that was told to end
LEMMA DestroyNowKeeps ==
    ASSUME NEW st \in State, NEW s \in Sockets, NEW l \in BOOLEAN, Sound(st, s, l),
           Used(st.sock[s]), st.sock[s].ending, ~st.sock[s].writable \/ st.sock[s].errored
    PROVE  LET u == DestroyNow(st, s)
               k == st.sock[s]
               j == u.sock[s]
           IN  /\ u \in State /\ Sound(u, s, l) /\ Forward(st, u, s) /\ u.crashed = st.crashed
               /\ j.handle <=> k.handle /\ ~k.ended
               /\ j.ending = k.ending /\ j.writable = k.writable
               /\ j.ended = k.ended /\ (j.destroyed \/ j.destroyOnFinish)
               /\ j.ready = k.ready /\ (u.tcp[s].reading => st.tcp[s].reading)
               /\ \A n : n # "serverClose" =>
                     (Queued(u.ticks, n, s) <=> Queued(st.ticks, n, s))
  <1> DEFINE u == DestroyNow(st, s)
             k == st.sock[s]
             t == st.tcp[s]
             j == u.sock[s]
             v == u.tcp[s]
  <1>1. k \in SocketType /\ t \in Handle BY DEF State
  <1>2. /\ Local(st, u, s) /\ u \in State /\ u.crashed = st.crashed
        /\ k.ended /\ k.handle =>
              /\ j = [k EXCEPT !.handle = FALSE, !.server = FALSE, !.destroyed = TRUE]
              /\ v = TcpClose([t EXCEPT !.onclose = TRUE])
        /\ ~(k.ended /\ k.handle) => j = [k EXCEPT !.destroyOnFinish = TRUE] /\ v = t
        /\ \A n : n # "serverClose" => (Queued(u.ticks, n, s) <=> Queued(st.ticks, n, s))
    BY DestroyNowEffect
  <1>3. /\ HandleInv(k, t) /\ StreamInv(k, t) /\ Used(k) /\ k.ending
        /\ FlowInv(k, t, st.ticks, s, l, st.crashed)
    BY DEF Sound, SocketInv
  <1> HIDE DEF u, k, t, j, v
  <1>4. CASE k.ended /\ k.handle
    <2>1. j = [k EXCEPT !.handle = FALSE, !.server = FALSE, !.destroyed = TRUE] BY <1>2, <1>4
    <2>2. t.uv = "open" BY <1>3, <1>4 DEF HandleInv
    <2>3. v = [t EXCEPT !.onclose = TRUE, !.uv = "closing", !.reading = FALSE,
                        !.listening = FALSE]
      BY <1>1, <1>2, <1>4, <2>2 DEF Handle, TcpClose
    <2>4. HandleInv(j, v) BY <1>1, <1>3, <2>1, <2>3, <1>4 DEF HandleInv, SocketType, Handle, Used
    <2>5. StreamInv(j, v) BY <1>1, <1>3, <2>1, <2>3, <1>4 DEF StreamInv, SocketType, Handle
    <2>6. FlowInv(j, v, u.ticks, s, l, u.crashed)
      BY <1>1, <1>2, <1>3, <2>1, <2>3, <1>4 DEF FlowInv, SocketType, Handle
    <2>7. Forward(st, u, s)
      BY <1>1, <1>2, <2>1, <2>2, <2>3, <1>4 DEF Forward, SocketType, Handle, k, j, t, v
    <2>8. /\ j.handle <=> k.handle /\ ~k.ended
          /\ j.ending = k.ending /\ j.writable = k.writable
          /\ j.ended = k.ended /\ (j.destroyed \/ j.destroyOnFinish)
          /\ j.ready = k.ready /\ (v.reading => t.reading)
      BY <1>1, <2>1, <2>3, <1>4 DEF SocketType, Handle
    <2> QED BY <1>2, <2>4, <2>5, <2>6, <2>7, <2>8 DEF Sound, SocketInv, u, k, j, v, t
  <1>5. CASE ~(k.ended /\ k.handle)
    <2>1. j = [k EXCEPT !.destroyOnFinish = TRUE] /\ v = t BY <1>2, <1>5
    <2>4. HandleInv(j, v) BY <1>1, <1>3, <2>1, <1>5 DEF HandleInv, SocketType, Used
    <2>5. StreamInv(j, v) BY <1>1, <1>3, <2>1, <1>5 DEF StreamInv, SocketType
    <2>6. FlowInv(j, v, u.ticks, s, l, u.crashed)
      BY <1>1, <1>2, <1>3, <2>1, <1>5 DEF FlowInv, SocketType
    <2>7. Forward(st, u, s)
      BY <1>1, <1>2, <2>1, <1>5 DEF Forward, SocketType, k, j, t, v
    <2>8. /\ j.handle <=> k.handle /\ ~k.ended
          /\ j.ending = k.ending /\ j.writable = k.writable
          /\ j.ended = k.ended /\ (j.destroyed \/ j.destroyOnFinish)
          /\ j.ready = k.ready /\ (v.reading => t.reading)
      BY <1>1, <2>1, <1>5 DEF SocketType
    <2> QED BY <1>2, <2>4, <2>5, <2>6, <2>7, <2>8 DEF Sound, SocketInv, u, k, j, v, t
  <1> QED BY <1>4, <1>5

LEMMA WritableEndEffect ==
    ASSUME NEW st \in State, NEW s \in Sockets
    PROVE  LET u == WritableEnd(st, s)
               k == st.sock[s]
           IN  /\ Local(st, u, s) /\ u \in State /\ u.crashed = st.crashed
               /\ u.sock[s] = [k EXCEPT !.ending = TRUE] /\ u.tcp = st.tcp
               /\ \A n : Queued(u.ticks, n, s) <=>
                     \/ Queued(st.ticks, n, s)
                     \/ n = "finish" /\ ~k.ending /\ ~k.writing /\ k.chunks = 0
  <1> DEFINE k == st.sock[s]
             j == [k EXCEPT !.ending = TRUE]
             v == [st EXCEPT !.sock[s].ending = TRUE]
             u == WritableEnd(st, s)
  <1>1. k \in SocketType BY DEF State
  <1>2. j \in SocketType /\ j.server = k.server BY <1>1 DEF SocketType
  <1>3. v = [st EXCEPT !.sock[s] = j] OBVIOUS
  <1>4. k.ending => j = k BY <1>1 DEF SocketType
  <1> HIDE DEF j, v
  <1>5. /\ Local(st, v, s) /\ v \in State /\ v.sock[s] = j
        /\ v.tcp = st.tcp /\ v.ticks = st.ticks /\ v.crashed = st.crashed
    BY <1>2, <1>3, SetSocket
  <1>6. CASE k.ending
    <2>1. u = st BY <1>6 DEF WritableEnd
    <2> QED BY <2>1, <1>4, <1>6, LocalSelf DEF j
  <1>7. CASE ~k.ending /\ ~(~k.writing /\ k.chunks = 0)
    <2>1. u = v BY <1>7 DEF WritableEnd, v
    <2> QED BY <2>1, <1>5, <1>7 DEF j
  <1>8. CASE ~k.ending /\ ~k.writing /\ k.chunks = 0
    <2>1. u = NextTick(v, "finish", s) BY <1>8 DEF WritableEnd, v
    <2> HIDE DEF u
    <2>2. /\ Local(v, u, s) /\ u \in State /\ u.sock = v.sock /\ u.tcp = v.tcp
          /\ u.crashed = v.crashed
          /\ \A n : Queued(u.ticks, n, s) <=> Queued(v.ticks, n, s) \/ n = "finish"
      <3>1. v \in State BY <1>5
      <3> QED BY ONLY <3>1, <2>1, LocalTick, s \in Sockets
    <2>3. Local(st, u, s) BY <2>2, <1>5, LocalTrans
    <2> QED BY <2>2, <2>3, <1>5, <1>8 DEF j, u
  <1> QED BY <1>6, <1>7, <1>8

\* A socket that is still to be read, or is connecting, is not destroyed by its end
LEMMA SocketEndKeeps ==
    ASSUME NEW st \in State, NEW s \in Sockets, NEW l \in BOOLEAN, Sound(st, s, l),
           Used(st.sock[s])
    PROVE  LET u == SocketEnd(st, s)
               k == st.sock[s]
               j == u.sock[s]
           IN  /\ u \in State /\ Sound(u, s, l) /\ Forward(st, u, s) /\ u.crashed = st.crashed
               /\ j.ending /\ ~j.writable /\ j.ended = k.ended
               /\ j.ready = k.ready /\ (u.tcp[s].reading => st.tcp[s].reading)
               /\ ~k.eof \/ k.readable =>
                     /\ j.handle = k.handle /\ j.destroyOnFinish = k.destroyOnFinish
                     /\ j.destroyOnFinish /\ Queued(u.ticks, "finish", s) =>
                           Queued(st.ticks, "finish", s)
               /\ k.ended => (j.handle => k.handle)
  <1> DEFINE k == st.sock[s]
             t == st.tcp[s]
             w == WritableEnd(st, s)
             e == [w EXCEPT !.sock[s].writable = FALSE]
             h == [k EXCEPT !.ending = TRUE, !.writable = FALSE]
             u == SocketEnd(st, s)
  <1>1. k \in SocketType /\ t \in Handle BY DEF State
  <1>2. /\ Local(st, w, s) /\ w \in State /\ w.crashed = st.crashed
        /\ w.sock[s] = [k EXCEPT !.ending = TRUE] /\ w.tcp = st.tcp
        /\ \A n : Queued(w.ticks, n, s) <=>
              \/ Queued(st.ticks, n, s)
              \/ n = "finish" /\ ~k.ending /\ ~k.writing /\ k.chunks = 0
    BY WritableEndEffect
  <1>3. u = IF k.eof THEN MaybeDestroy(e, s) ELSE e BY DEF SocketEnd
  <1> HIDE DEF w, u
  <1>4. [w.sock[s] EXCEPT !.writable = FALSE] = h BY <1>1, <1>2 DEF SocketType
  <1>5. e = [w EXCEPT !.sock[s] = h] BY <1>4
  <1>6. h \in SocketType /\ h.server = w.sock[s].server BY <1>1, <1>2 DEF SocketType
  <1> HIDE DEF e, h
  <1>7. /\ Local(w, e, s) /\ e \in State /\ e.sock[s] = h
        /\ e.tcp = w.tcp /\ e.ticks = w.ticks /\ e.crashed = w.crashed
    <2>1. w \in State BY <1>2
    <2> QED BY ONLY <2>1, <1>5, <1>6, SetSocket, s \in Sockets
  <1>8. Local(st, e, s) BY <1>2, <1>7, LocalTrans
  <1>9. /\ HandleInv(k, t) /\ StreamInv(k, t) /\ Used(k)
        /\ FlowInv(k, t, st.ticks, s, l, st.crashed)
    BY DEF Sound, SocketInv
  <1>10. Sound(e, s, l) /\ Forward(st, e, s) /\ e.crashed = st.crashed
    <2>1. HandleInv(h, t) BY <1>1, <1>9 DEF HandleInv, SocketType, Used, h
    <2>2. StreamInv(h, t) BY <1>1, <1>9 DEF StreamInv, SocketType, h
    <2>3. FlowInv(h, t, e.ticks, s, l, e.crashed)
      BY <1>1, <1>2, <1>7, <1>9 DEF FlowInv, SocketType, h
    <2>4. Forward(st, e, s)
      BY <1>1, <1>2, <1>7, <1>8 DEF Forward, SocketType, h, k
    <2> QED BY <1>2, <1>7, <2>1, <2>2, <2>3, <2>4 DEF Sound, SocketInv
  <1>11. /\ h.ending /\ ~h.writable /\ h.ended = k.ended /\ h.handle = k.handle
         /\ h.destroyOnFinish = k.destroyOnFinish /\ h.eof = k.eof /\ h.readable = k.readable
         /\ Used(h) /\ (k.destroyOnFinish => k.ending) /\ h.ready = k.ready
    BY <1>1, <1>9 DEF SocketType, Used, h, StreamInv
  <1>12. h.destroyOnFinish /\ Queued(e.ticks, "finish", s) => Queued(st.ticks, "finish", s)
    BY <1>2, <1>7, <1>9, <1>11 DEF StreamInv
  <1>13. CASE u = e
    BY <1>13, <1>2, <1>7, <1>10, <1>11, <1>12 DEF u, k
  <1>14. CASE k.eof /\ ~k.readable /\ u = DestroyNow(e, s)
    <2>1. /\ e \in State /\ Sound(e, s, l) /\ Used(e.sock[s]) /\ e.sock[s].ending
          /\ ~e.sock[s].writable
      BY <1>7, <1>10, <1>11
    <2>2. /\ u \in State /\ Sound(u, s, l) /\ Forward(e, u, s) /\ u.crashed = e.crashed
          /\ u.sock[s].ending = h.ending /\ u.sock[s].writable = h.writable
          /\ u.sock[s].ended = h.ended
          /\ u.sock[s].ready = h.ready /\ (u.tcp[s].reading => e.tcp[s].reading)
      BY <2>1, <1>7, <1>14, DestroyNowKeeps
    <2>3. Forward(st, u, s) BY <2>2, <2>1, <1>10, ForwardTrans
    <2>4. u.sock[s].handle => k.handle BY <2>3 DEF Forward
    <2> QED BY <2>2, <2>3, <2>4, <1>2, <1>7, <1>10, <1>11, <1>14 DEF u, k
  <1>15. u = e \/ (k.eof /\ ~k.readable /\ u = DestroyNow(e, s))
    BY <1>3, <1>7, <1>11 DEF MaybeDestroy
  <1> QED BY <1>13, <1>14, <1>15

LEMMA SocketDestroyKeeps ==
    ASSUME NEW st \in State, NEW s \in Sockets, NEW l \in BOOLEAN, Sound(st, s, l),
           Used(st.sock[s])
    PROVE  LET u == SocketDestroy(st, s)
               k == st.sock[s]
               j == u.sock[s]
           IN  /\ u \in State /\ Sound(u, s, l) /\ Forward(st, u, s) /\ u.crashed = st.crashed
               /\ j.handle => ~k.ended
               /\ j.ended = k.ended /\ (j.destroyed \/ j.destroyOnFinish)
               /\ j.ready = k.ready /\ (u.tcp[s].reading => st.tcp[s].reading)
  <1> DEFINE k == st.sock[s]
             u == SocketDestroy(st, s)
             e == IF k.writable THEN SocketEnd(st, s) ELSE st
  <1>1. HandleInv(k, st.tcp[s]) /\ StreamInv(k, st.tcp[s]) BY DEF Sound, SocketInv
  <1>2. CASE k.destroyed
    <2>1. u = st BY <1>2 DEF SocketDestroy
    <2>2. ~k.handle BY <1>1, <1>2 DEF HandleInv
    <2> QED BY <2>1, <2>2, <1>2, ForwardSelf
  <1>3. CASE ~k.destroyed
    <2>1. u = DestroyNow(e, s) BY <1>3 DEF SocketDestroy
    <2> HIDE DEF u
    <2>2. /\ e \in State /\ Sound(e, s, l) /\ Forward(st, e, s) /\ e.crashed = st.crashed
          /\ e.sock[s].ending /\ ~e.sock[s].writable /\ e.sock[s].ended = k.ended
          /\ e.sock[s].ready = k.ready /\ (e.tcp[s].reading => st.tcp[s].reading)
      BY SocketEndKeeps, ForwardSelf, <1>1 DEF StreamInv
    <2>3. Used(e.sock[s]) BY <2>2 DEF Forward, Used
    <2> HIDE DEF e
    <2>4. /\ u \in State /\ Sound(u, s, l) /\ Forward(e, u, s) /\ u.crashed = e.crashed
          /\ u.sock[s].handle <=> e.sock[s].handle /\ ~e.sock[s].ended
          /\ u.sock[s].ended = e.sock[s].ended
          /\ (u.sock[s].destroyed \/ u.sock[s].destroyOnFinish)
          /\ u.sock[s].ready = e.sock[s].ready /\ (u.tcp[s].reading => e.tcp[s].reading)
      BY <2>1, <2>2, <2>3, DestroyNowKeeps
    <2>5. Forward(st, u, s) BY <2>2, <2>4, ForwardTrans
    <2> QED BY <2>2, <2>4, <2>5 DEF u
  <1> QED BY <1>2, <1>3

-----------------------------------------------------------------------------
(* 'finish' and the chunks *)

\* onSocketFinish after the stream has ended
LEMMA OnSocketFinishKeeps ==
    ASSUME NEW st \in State, NEW s \in Sockets, NEW l \in BOOLEAN, Sound(st, s, l),
           Used(st.sock[s]), st.sock[s].ended
    PROVE  LET u == OnSocketFinish(st, s)
               k == st.sock[s]
               j == u.sock[s]
           IN  /\ u \in State /\ Sound(u, s, l) /\ Forward(st, u, s) /\ u.crashed = st.crashed
               /\ j.ended
               /\ k.kind = "client" /\ k.readable /\ ~k.eof /\ k.handle => j = k
  <1> DEFINE k == st.sock[s]
             t == st.tcp[s]
             v == TcpShutdown(t)
             u == OnSocketFinish(st, s)
  <1>1. k \in SocketType /\ t \in Handle BY DEF State
  <1>2. CASE ~k.readable \/ k.eof \/ ~k.handle \/ k.kind = "pipe"
    <2>1. u = SocketDestroy(st, s) BY <1>2 DEF OnSocketFinish
    <2> HIDE DEF u
    <2>2. /\ u \in State /\ Sound(u, s, l) /\ Forward(st, u, s) /\ u.crashed = st.crashed
          /\ u.sock[s].ended = k.ended
      <3>1. /\ st \in State /\ s \in Sockets /\ l \in BOOLEAN /\ Sound(st, s, l)
            /\ Used(st.sock[s])
        OBVIOUS
      <3> QED BY ONLY <2>1, <3>1, SocketDestroyKeeps DEF k
    <2> QED BY <2>2, <1>2 DEF u
  <1>3. CASE ~(~k.readable \/ k.eof \/ ~k.handle \/ k.kind = "pipe")
    <2>1. u = [st EXCEPT !.tcp[s] = v] BY <1>3 DEF OnSocketFinish
    <2>2. v \in Handle BY <1>1 DEF Handle, TcpShutdown, ShutdownReq, ShutdownReqDispatched, Requests
    <2>3. /\ v.uv = t.uv /\ v.reading = t.reading
          /\ "connect" \in v.reqs <=> "connect" \in t.reqs
          /\ "write" \in v.reqs <=> "write" \in t.reqs
          /\ t.conn \in {"up", "shut"} => v.conn \in {"up", "shut"}
      BY <1>1 DEF Handle, TcpShutdown, ShutdownReq, ShutdownReqDispatched
    <2> HIDE DEF u, v
    <2>4. /\ Local(st, u, s) /\ u \in State /\ u.tcp[s] = v /\ u.sock = st.sock
          /\ u.ticks = st.ticks /\ u.crashed = st.crashed
      BY <2>1, <2>2, SetHandle
    <2>5. Sound(u, s, l)
      <3>1. /\ HandleInv(k, t) /\ StreamInv(k, t) /\ Used(k)
            /\ FlowInv(k, t, st.ticks, s, l, st.crashed)
        BY DEF Sound, SocketInv
      <3>2. HandleInv(k, v) BY <3>1, <2>3, <1>3 DEF HandleInv, Used
      <3>3. StreamInv(k, v) BY <3>1, <2>3 DEF StreamInv
      <3>4. FlowInv(k, v, u.ticks, s, l, u.crashed) BY <3>1, <2>3, <2>4 DEF FlowInv
      <3> QED BY <3>2, <3>3, <3>4, <2>4 DEF Sound, SocketInv
    <2>6. Forward(st, u, s) BY <2>3, <2>4 DEF Forward
    <2> QED BY <2>4, <2>5, <2>6 DEF u
  <1> QED BY <1>2, <1>3

Ended(st, s) == [st EXCEPT !.sock[s].ended = TRUE]

\* emitFinish of a stream that has been written, or that the script wrote to after end()
LEMMA EmitFinishKeeps ==
    ASSUME NEW st \in State, NEW s \in Sockets, NEW l \in BOOLEAN,
           Used(st.sock[s]), Sound(Ended(st, s), s, l)
    PROVE  LET u == EmitFinish(st, s)
               k == st.sock[s]
               j == u.sock[s]
           IN  /\ u \in State /\ Sound(u, s, l) /\ Forward(st, u, s) /\ u.crashed = st.crashed
               /\ ~k.ended /\ ~k.destroyOnFinish /\ k.kind = "client"
                     /\ k.readable /\ ~k.eof /\ k.handle => j.handle /\ ~j.destroyOnFinish
               /\ k.ended => u = st
               /\ j.ended
  <1> DEFINE k == st.sock[s]
             h == [k EXCEPT !.ended = TRUE]
             e == Ended(st, s)
             f == OnSocketFinish(e, s)
             u == EmitFinish(st, s)
  <1>1. k \in SocketType BY DEF State
  <1>2. e = [st EXCEPT !.sock[s] = h] BY DEF Ended
  <1>3. h \in SocketType /\ h.server = k.server BY <1>1 DEF SocketType
  <1>4. /\ h.ended /\ (k.ended => h = k) /\ h.kind = k.kind /\ h.readable = k.readable
        /\ h.eof = k.eof /\ h.handle = k.handle /\ h.destroyOnFinish = k.destroyOnFinish
        /\ h.lookup = k.lookup /\ h.connecting = k.connecting /\ h.errored = k.errored
        /\ h.destroyed = k.destroyed
    BY <1>1 DEF SocketType
  <1>5. Sound(e, s, l) OBVIOUS
  <1> HIDE DEF e, h
  <1>6. /\ Local(st, e, s) /\ e \in State /\ e.sock[s] = h
        /\ e.tcp = st.tcp /\ e.ticks = st.ticks /\ e.crashed = st.crashed
    BY <1>2, <1>3, SetSocket
  <1>7. CASE k.ended
    <2>1. u = st BY <1>7 DEF EmitFinish
    <2>2. h = k BY <1>4, <1>7
    <2>3. Sound(st, s, l) BY <1>5, <1>6, <2>2 DEF Sound
    <2> QED BY <2>1, <2>3, <1>7, ForwardSelf
  <1>8. CASE ~k.ended
    <2>1. u = IF k.destroyOnFinish THEN SocketDestroy(f, s) ELSE f
      BY <1>8 DEF EmitFinish, e, Ended
    <2>2. Used(e.sock[s]) /\ e.sock[s].ended BY <1>4, <1>6 DEF Used
    <2>3. /\ f \in State /\ Sound(f, s, l) /\ Forward(e, f, s) /\ f.crashed = e.crashed
          /\ f.sock[s].ended
          /\ k.kind = "client" /\ k.readable /\ ~k.eof /\ k.handle => f.sock[s] = h
      BY <2>2, <1>4, <1>5, <1>6, OnSocketFinishKeeps
    <2> HIDE DEF f, u
    <2>4. CASE ~k.destroyOnFinish
      <3>1. u = f BY <2>1, <2>4
      <3>2. Local(st, f, s) BY <1>6, <2>3, LocalTrans DEF Forward
      <3>3. Forward(st, f, s)
        BY <3>2, <2>3, <2>4, <1>4, <1>6 DEF Forward
      <3> QED BY <3>1, <3>3, <2>3, <1>4, <1>6, <1>8, <2>4 DEF u
    <2>5. CASE k.destroyOnFinish
      <3>1. u = SocketDestroy(f, s) BY <2>1, <2>5
      <3>2. Used(f.sock[s]) BY <2>2, <2>3 DEF Forward, Used
      <3>3. /\ u \in State /\ Sound(u, s, l) /\ Forward(f, u, s) /\ u.crashed = f.crashed
            /\ u.sock[s].handle => ~f.sock[s].ended
            /\ u.sock[s].ended = f.sock[s].ended
        <4>1. /\ f \in State /\ s \in Sockets /\ l \in BOOLEAN /\ Sound(f, s, l)
              /\ Used(f.sock[s])
          BY <2>3, <3>2
        <4> QED BY ONLY <3>1, <4>1, SocketDestroyKeeps
      <3>4. Local(st, u, s) BY <1>6, <2>3, <3>3, LocalTrans DEF Forward
      <3>5. Forward(st, u, s) BY <3>3, <3>4, <2>3, <1>4, <1>6 DEF Forward
      <3> QED BY <3>3, <3>5, <2>3, <2>5, <1>6, <1>8 DEF u
    <2> QED BY <2>4, <2>5
  <1> QED BY <1>7, <1>8

\* The invariant but for the chunks that wait, about which somebody is about to act
WaitInv(k, t, q, s, l, c) ==
    /\ k.ended \/ Queued(q, "finish", s) => k.errored \/ l \/ k.chunks = 0
    /\ Queued(q, "finish", s) => k.ending
    /\ Queued(q, "afterWrite", s) => k.errored
    /\ k.writing => c \/ "write" \in t.reqs \/ Queued(q, "afterWrite", s)

Loose(st, s, l) ==
    /\ HandleInv(st.sock[s], st.tcp[s]) /\ StreamInv(st.sock[s], st.tcp[s])
    /\ WaitInv(st.sock[s], st.tcp[s], st.ticks, s, l, st.crashed)

LEMMA DoWriteKeeps ==
    ASSUME NEW st \in State, NEW s \in Sockets, NEW l \in BOOLEAN, Loose(st, s, l),
           Used(st.sock[s]), st.sock[s].ready
    PROVE  LET u == DoWrite(st, s)
               k == st.sock[s]
           IN  /\ u \in State /\ Sound(u, s, l) /\ Forward(st, u, s)
               /\ u.crashed => st.crashed \/ (~k.errored /\ ~k.handle)
               /\ u.sock[s] = [k EXCEPT !.writing = TRUE]
               /\ ~k.errored => u.ticks = st.ticks
  <1> DEFINE k == st.sock[s]
             t == st.tcp[s]
             h == [k EXCEPT !.writing = TRUE]
             e == [st EXCEPT !.sock[s].writing = TRUE]
             u == DoWrite(st, s)
  <1>1. k \in SocketType /\ t \in Handle BY DEF State
  <1>2. e = [st EXCEPT !.sock[s] = h] OBVIOUS
  <1>3. h \in SocketType /\ h.server = k.server /\ h.writing BY <1>1 DEF SocketType
  <1>4. u = SocketWrite(e, s) BY DEF DoWrite
  <1> HIDE DEF u, e
  <1>5. /\ Local(st, e, s) /\ e \in State /\ e.sock[s] = h
        /\ e.tcp = st.tcp /\ e.ticks = st.ticks /\ e.crashed = st.crashed
    <2> HIDE DEF h
    <2> QED BY <1>2, <1>3, SetSocket
  <1>6. /\ HandleInv(k, t) /\ StreamInv(k, t) /\ Used(k) /\ k.ready
        /\ WaitInv(k, t, st.ticks, s, l, st.crashed)
    BY DEF Loose
  <1>7. h.errored = k.errored /\ h.handle = k.handle /\ h.kind = k.kind
    BY <1>1 DEF SocketType
  <1>8. HandleInv(h, t) /\ StreamInv(h, t)
    <2>1. HandleInv(h, t) BY <1>1, <1>6 DEF HandleInv, SocketType, Used
    <2>2. StreamInv(h, t) BY <1>1, <1>6 DEF StreamInv, SocketType
    <2> QED BY <2>1, <2>2
  <1>9. CASE k.errored
    <2>1. u = NextTick(e, "afterWrite", s) BY <1>4, <1>5, <1>7, <1>9 DEF SocketWrite
    <2>2. /\ Local(e, u, s) /\ u \in State /\ u.sock = e.sock /\ u.tcp = e.tcp
          /\ u.crashed = e.crashed
          /\ \A n : Queued(u.ticks, n, s) <=> Queued(e.ticks, n, s) \/ n = "afterWrite"
      <3>1. e \in State BY <1>5
      <3> QED BY ONLY <3>1, <2>1, LocalTick, s \in Sockets
    <2>3. Local(st, u, s) BY <2>2, <1>5, LocalTrans
    <2>4. FlowInv(h, t, u.ticks, s, l, u.crashed)
      BY <1>1, <1>5, <1>6, <1>9, <2>2 DEF FlowInv, WaitInv, SocketType
    <2>5. Sound(u, s, l) BY <2>2, <2>4, <1>5, <1>8 DEF Sound, SocketInv
    <2>6. Forward(st, u, s) BY <2>2, <2>3, <1>1, <1>5 DEF Forward, SocketType
    <2> QED BY <2>2, <2>5, <2>6, <1>5, <1>9 DEF u
  <1>10. CASE ~k.errored /\ ~k.handle
    <2>1. u = [e EXCEPT !.crashed = TRUE] BY <1>4, <1>5, <1>7, <1>10 DEF SocketWrite
    <2>2. /\ u \in State /\ u.sock = e.sock /\ u.tcp = e.tcp /\ u.ticks = e.ticks
          /\ u.server = e.server /\ u.crashed = TRUE
      BY <2>1, <1>5 DEF State
    <2>3. Local(st, u, s) BY <2>2, <1>5 DEF Local
    <2>4. FlowInv(h, t, u.ticks, s, l, u.crashed)
      BY <1>1, <1>5, <1>6, <2>2 DEF FlowInv, WaitInv, SocketType
    <2>5. Sound(u, s, l) BY <2>2, <2>4, <1>5, <1>8 DEF Sound, SocketInv
    <2>6. Forward(st, u, s) BY <2>2, <2>3, <1>1, <1>5 DEF Forward, SocketType
    <2> QED BY <2>2, <2>5, <2>6, <1>5, <1>10 DEF u
  <1>11. CASE ~k.errored /\ k.handle
    <2> DEFINE v == [t EXCEPT !.reqs = @ \cup {"write"}]
    <2>1. t.conn \in {"up", "shut"} BY <1>6, <1>11 DEF StreamInv
    <2>2. (IF h.kind = "pipe" THEN PipeWrite(t) ELSE TcpWrite(t)) = v
      BY <2>1 DEF PipeWrite, TcpWrite, WriteReq
    <2>3. u = [e EXCEPT !.tcp[s] = v]
      BY <2>2, <1>4, <1>5, <1>7, <1>11 DEF SocketWrite
    <2>4. v \in Handle BY <1>1 DEF Handle, Requests
    <2>5. /\ v.uv = t.uv /\ v.reading = t.reading /\ v.conn = t.conn /\ "write" \in v.reqs
          /\ "connect" \in v.reqs <=> "connect" \in t.reqs
      BY <1>1 DEF Handle
    <2> HIDE DEF v
    <2>6. /\ Local(e, u, s) /\ u \in State /\ u.tcp[s] = v /\ u.sock = e.sock
          /\ u.ticks = e.ticks /\ u.crashed = e.crashed
      <3>1. e \in State BY <1>5
      <3> QED BY ONLY <3>1, <2>3, <2>4, SetHandle, s \in Sockets
    <2>7. Local(st, u, s) BY <2>6, <1>5, LocalTrans
    <2>8. t.uv = "open" BY <1>6, <1>11 DEF HandleInv
    <2>9. HandleInv(h, v) BY <1>8, <2>5, <2>8 DEF HandleInv, TcpCreate, NoHandle, Used
    <2>10. StreamInv(h, v) BY <1>1, <1>6, <1>8, <2>5 DEF StreamInv, SocketType
    <2>11. FlowInv(h, v, u.ticks, s, l, u.crashed)
      BY <1>1, <1>5, <1>6, <2>5, <2>6 DEF FlowInv, WaitInv, SocketType
    <2>12. Sound(u, s, l) BY <2>6, <2>9, <2>10, <2>11, <1>5 DEF Sound, SocketInv
    <2>13. Forward(st, u, s) BY <2>5, <2>6, <2>7, <1>1, <1>5 DEF Forward, SocketType
    <2> QED BY <2>6, <2>12, <2>13, <1>5, <1>11 DEF u
  <1> QED BY <1>9, <1>10, <1>11

\* writeBuffered of a stream that is ready: only a socket that the script wrote to after
\* end() can be written to without a handle
LEMMA WriteBufferedKeeps ==
    ASSUME NEW st \in State, NEW s \in Sockets, NEW l \in BOOLEAN, Loose(st, s, l),
           Used(st.sock[s]), st.sock[s].ready
    PROVE  LET u == WriteBuffered(st, s)
               k == st.sock[s]
               j == u.sock[s]
           IN  /\ u \in State /\ Sound(u, s, l) /\ Forward(st, u, s)
               /\ u.crashed => st.crashed \/ l
               /\ ~k.errored /\ ~(k.ending /\ ~k.ended /\ k.chunks = 0) =>
                     u.ticks = st.ticks /\ j.handle = k.handle /\ u.server = st.server
  <1> DEFINE k == st.sock[s]
             t == st.tcp[s]
             u == WriteBuffered(st, s)
  <1>1. k \in SocketType /\ t \in Handle BY DEF State
  <1>2. /\ HandleInv(k, t) /\ StreamInv(k, t) /\ Used(k) /\ k.ready
        /\ WaitInv(k, t, st.ticks, s, l, st.crashed)
    BY DEF Loose
  <1>3. CASE k.writing \/ (k.chunks = 0 /\ ~k.ending)
    <2>1. u = st BY <1>1, <1>3 DEF WriteBuffered
    <2>2. FlowInv(k, t, st.ticks, s, l, st.crashed)
      BY <1>1, <1>2, <1>3 DEF FlowInv, WaitInv, StreamInv, SocketType
    <2>3. Sound(st, s, l) BY <2>2, <1>2 DEF Sound, SocketInv
    <2> QED BY <2>1, <2>3, ForwardSelf
  <1>4. CASE ~k.writing /\ k.chunks > 0
    <2> DEFINE h == [k EXCEPT !.chunks = @ - 1]
               e == [st EXCEPT !.sock[s].chunks = @ - 1]
    <2>1. u = DoWrite(e, s) BY <1>4 DEF WriteBuffered
    <2>2. e = [st EXCEPT !.sock[s] = h] BY <1>1 DEF SocketType
    <2>3. h \in SocketType /\ h.server = k.server BY <1>1, <1>4 DEF SocketType
    <2> HIDE DEF u, e, h
    <2>4. /\ Local(st, e, s) /\ e \in State /\ e.sock[s] = h
          /\ e.tcp = st.tcp /\ e.ticks = st.ticks /\ e.crashed = st.crashed
          /\ e.server = st.server
      BY <2>2, <2>3, SetSocket
    <2>5. HandleInv(h, t) BY <1>1, <1>2 DEF HandleInv, SocketType, Used, h
    <2>6. StreamInv(h, t) BY <1>1, <1>2 DEF StreamInv, SocketType, h
    <2>7. WaitInv(h, t, e.ticks, s, l, e.crashed)
      BY <1>1, <1>2, <1>4, <2>4 DEF WaitInv, SocketType, h
    <2>8. Loose(e, s, l) BY <2>4, <2>5, <2>6, <2>7 DEF Loose
    <2>9. /\ Used(h) /\ h.ready /\ h.errored = k.errored /\ h.handle = k.handle
          /\ h.ended = k.ended
      BY <1>1, <1>2 DEF SocketType, h, Used
    <2>10. /\ u \in State /\ Sound(u, s, l) /\ Forward(e, u, s)
           /\ u.crashed => e.crashed \/ (~h.errored /\ ~h.handle)
           /\ u.sock[s] = [h EXCEPT !.writing = TRUE]
           /\ ~h.errored => u.ticks = e.ticks
      <3>1. /\ e \in State /\ s \in Sockets /\ l \in BOOLEAN /\ Loose(e, s, l)
            /\ Used(e.sock[s]) /\ e.sock[s].ready
        BY <2>4, <2>8, <2>9
      <3> QED BY <3>1, <2>1, <2>4, DoWriteKeeps
    <2>11. Forward(st, e, s) BY <2>4, <1>1, <1>4 DEF Forward, SocketType, h
    <2>12. Forward(st, u, s) BY <2>10, <2>11, <2>4, ForwardTrans
    <2>13. u.crashed => st.crashed \/ l
      BY <2>4, <2>9, <2>10, <1>1, <1>2, <1>4 DEF HandleInv, WaitInv, SocketType
    <2>14. u.sock[s].handle = k.handle BY <2>9, <2>10, <2>3 DEF SocketType
    <2>15. u.server = st.server
      <3>1. e.server.count \in Int /\ u.server.count \in Int /\ e.server = st.server
            /\ e.server \in [handle : BOOLEAN, count : Int, t : Handle]
            /\ u.server \in [handle : BOOLEAN, count : Int, t : Handle]
        BY <2>4, <2>10 DEF State
      <3>2. u.sock[s].server = e.sock[s].server BY <2>4, <2>10, <2>3 DEF SocketType
      <3>3. u.server.count = e.server.count
        BY <3>1, <3>2, <2>10 DEF Forward, Local, Number
      <3>4. u.server.handle = e.server.handle /\ u.server.t = e.server.t
        BY <2>10 DEF Forward, Local
      <3> QED BY <3>1, <3>3, <3>4
    <2> QED BY <2>4, <2>9, <2>10, <2>12, <2>13, <2>14, <2>15 DEF u
  <1>5. CASE ~k.writing /\ k.chunks = 0 /\ k.ending
    <2> DEFINE h == [k EXCEPT !.ended = TRUE]
               e == [st EXCEPT !.sock[s].ended = TRUE]
    <2>1. u = EmitFinish(st, s) BY <1>1, <1>5 DEF WriteBuffered
    <2>2. e = [st EXCEPT !.sock[s] = h] OBVIOUS
    <2>3. h \in SocketType /\ h.server = k.server BY <1>1, <1>4 DEF SocketType
    <2> HIDE DEF e, h
    <2>4. /\ Local(st, e, s) /\ e \in State /\ e.sock[s] = h
          /\ e.tcp = st.tcp /\ e.ticks = st.ticks /\ e.crashed = st.crashed
      BY <2>2, <2>3, SetSocket
    <2>5. HandleInv(h, t) BY <1>1, <1>2 DEF HandleInv, SocketType, Used, h
    <2>6. StreamInv(h, t) BY <1>1, <1>2, <1>5 DEF StreamInv, SocketType, h
    <2>7. FlowInv(h, t, e.ticks, s, l, e.crashed)
      BY <1>1, <1>2, <1>5, <2>4 DEF FlowInv, WaitInv, SocketType, h
    <2>8. Sound(e, s, l) BY <2>4, <2>5, <2>6, <2>7 DEF Sound, SocketInv
    <2>9. /\ u \in State /\ Sound(u, s, l) /\ Forward(st, u, s) /\ u.crashed = st.crashed
          /\ k.ended => u = st
      <3>1. /\ st \in State /\ s \in Sockets /\ l \in BOOLEAN
            /\ Used(st.sock[s]) /\ Sound(Ended(st, s), s, l)
        BY <1>5, <2>8 DEF e, Ended
      <3> HIDE DEF u
      <3> QED BY ONLY <3>1, <2>1, EmitFinishKeeps DEF k
    <2> QED BY <2>9, <1>5
  <1> QED BY <1>1, <1>3, <1>4, <1>5 DEF SocketType

\* The same, when the write that was pending is done
Written(st, s, l) ==
    /\ HandleInv(st.sock[s], st.tcp[s]) /\ StreamInv(st.sock[s], st.tcp[s])
    /\ WaitInv(st.sock[s], st.tcp[s], st.ticks, s, l, TRUE)

\* _onwrite
LEMMA OnWriteKeeps ==
    ASSUME NEW st \in State, NEW s \in Sockets, NEW l \in BOOLEAN,
           Written(st, s, l), Used(st.sock[s]), st.sock[s].ready
    PROVE  LET u == OnWrite(st, s)
           IN  /\ u \in State /\ Sound(u, s, l) /\ Forward(st, u, s)
               /\ u.crashed => st.crashed \/ l
  <1> DEFINE k == st.sock[s]
             t == st.tcp[s]
             h == [k EXCEPT !.writing = FALSE]
             e == [st EXCEPT !.sock[s].writing = FALSE]
             u == OnWrite(st, s)
  <1>1. k \in SocketType /\ t \in Handle BY DEF State
  <1>2. u = WriteBuffered(e, s) /\ e = [st EXCEPT !.sock[s] = h] BY DEF OnWrite
  <1>3. h \in SocketType /\ h.server = k.server BY <1>1 DEF SocketType
  <1> HIDE DEF e, h, u
  <1>4. /\ Local(st, e, s) /\ e \in State /\ e.sock[s] = h
        /\ e.tcp = st.tcp /\ e.ticks = st.ticks /\ e.crashed = st.crashed
    BY <1>2, <1>3, SetSocket
  <1>5. HandleInv(h, t) BY <1>1 DEF Written, HandleInv, SocketType, Used, h
  <1>6. StreamInv(h, t) BY <1>1 DEF Written, StreamInv, SocketType, h
  <1>7. WaitInv(h, t, e.ticks, s, l, e.crashed) BY <1>1, <1>4 DEF Written, WaitInv, SocketType, h
  <1>8. Loose(e, s, l) BY <1>4, <1>5, <1>6, <1>7 DEF Loose
  <1>9. Used(h) /\ h.ready BY <1>1 DEF SocketType, h, Used
  <1>10. /\ u \in State /\ Sound(u, s, l) /\ Forward(e, u, s)
         /\ u.crashed => e.crashed \/ l
    <2>1. /\ e \in State /\ s \in Sockets /\ l \in BOOLEAN /\ Loose(e, s, l)
          /\ Used(e.sock[s]) /\ e.sock[s].ready
      BY <1>4, <1>8, <1>9
    <2>2. u = WriteBuffered(e, s) BY <1>2
    <2> QED BY ONLY <2>1, <2>2, WriteBufferedKeeps
  <1>11. Forward(st, e, s) BY <1>4, <1>1 DEF Forward, SocketType, h
  <1>12. Forward(st, u, s) BY <1>4, <1>10, <1>11, ForwardTrans
  <1> QED BY <1>4, <1>10, <1>12 DEF u

Ready(st, s) == [st EXCEPT !.sock[s].ready = TRUE]

LEMMA ReadyToWriteKeeps ==
    ASSUME NEW st \in State, NEW s \in Sockets, NEW l \in BOOLEAN,
           Loose(Ready(st, s), s, l), Used(st.sock[s])
    PROVE  LET u == ReadyToWrite(st, s)
               k == st.sock[s]
               j == u.sock[s]
           IN  /\ u \in State /\ Sound(u, s, l) /\ Forward(st, u, s)
               /\ u.crashed => st.crashed \/ l
               /\ ~k.errored /\ ~(k.ending /\ ~k.ended /\ k.chunks = 0) =>
                     u.ticks = st.ticks /\ j.handle = k.handle /\ u.server = st.server
  <1> DEFINE k == st.sock[s]
             h == [k EXCEPT !.ready = TRUE]
             e == Ready(st, s)
             u == ReadyToWrite(st, s)
  <1>1. k \in SocketType BY DEF State
  <1>2. u = WriteBuffered(e, s) /\ e = [st EXCEPT !.sock[s] = h] BY DEF ReadyToWrite, Ready
  <1>3. h \in SocketType /\ h.server = k.server BY <1>1 DEF SocketType
  <1> HIDE DEF e, h, u
  <1>4. /\ Local(st, e, s) /\ e \in State /\ e.sock[s] = h /\ e.server = st.server
        /\ e.tcp = st.tcp /\ e.ticks = st.ticks /\ e.crashed = st.crashed
    BY <1>2, <1>3, SetSocket
  <1>5. /\ Used(h) /\ h.ready /\ h.errored = k.errored /\ h.handle = k.handle
        /\ h.ended = k.ended /\ h.ending = k.ending /\ h.chunks = k.chunks
    BY <1>1 DEF SocketType, h, Used
  <1>6. /\ u \in State /\ Sound(u, s, l) /\ Forward(e, u, s)
        /\ u.crashed => e.crashed \/ l
        /\ ~h.errored /\ ~(h.ending /\ ~h.ended /\ h.chunks = 0) =>
              u.ticks = e.ticks /\ u.sock[s].handle = h.handle /\ u.server = e.server
    <2>1. /\ e \in State /\ s \in Sockets /\ l \in BOOLEAN /\ Loose(e, s, l)
          /\ Used(e.sock[s]) /\ e.sock[s].ready
      BY <1>4, <1>5 DEF e
    <2>2. u = WriteBuffered(e, s) /\ e.sock[s] = h BY <1>2, <1>4
    <2> QED BY ONLY <2>1, <2>2, WriteBufferedKeeps
  <1>7. Forward(st, e, s) BY <1>4, <1>1 DEF Forward, SocketType, h
  <1>8. Forward(st, u, s) BY <1>4, <1>6, <1>7, ForwardTrans
  <1> QED BY <1>4, <1>5, <1>6, <1>8 DEF u

\* write() of a stream that has not ended; l2: it may be after end()
LEMMA WriteChunkKeeps ==
    ASSUME NEW st \in State, NEW s \in Sockets, NEW l \in BOOLEAN, NEW l2 \in BOOLEAN,
           Sound(st, s, l), Used(st.sock[s]), ~st.sock[s].ended,
           l => l2, st.sock[s].ending => l2
    PROVE  LET u == WriteChunk(st, s)
               k == st.sock[s]
               j == u.sock[s]
           IN  /\ u \in State /\ Sound(u, s, l2) /\ Forward(st, u, s) /\ u.crashed = st.crashed
               /\ j.handle = k.handle
               /\ ~k.ready => u.ticks = st.ticks /\ j.destroyOnFinish = k.destroyOnFinish
  <1> DEFINE k == st.sock[s]
             t == st.tcp[s]
             u == WriteChunk(st, s)
  <1>1. k \in SocketType /\ t \in Handle BY DEF State
  <1>2. /\ HandleInv(k, t) /\ StreamInv(k, t) /\ Used(k)
        /\ FlowInv(k, t, st.ticks, s, l, st.crashed)
    BY DEF Sound, SocketInv
  <1>3. CASE ~k.ready \/ k.writing \/ k.chunks > 0
    <2> DEFINE h == [k EXCEPT !.chunks = @ + 1]
    <2>1. u = [st EXCEPT !.sock[s] = h] BY <1>1, <1>3 DEF WriteChunk, SocketType
    <2>2. h \in SocketType /\ h.server = k.server BY <1>1 DEF SocketType
    <2> HIDE DEF u, h
    <2>3. /\ Local(st, u, s) /\ u \in State /\ u.sock[s] = h
          /\ u.tcp = st.tcp /\ u.ticks = st.ticks /\ u.crashed = st.crashed
      BY <2>1, <2>2, SetSocket
    <2>4. HandleInv(h, t) BY <1>1, <1>2 DEF HandleInv, SocketType, Used, h
    <2>5. StreamInv(h, t) BY <1>1, <1>2 DEF StreamInv, SocketType, h
    <2>6. FlowInv(h, t, u.ticks, s, l2, u.crashed)
      BY <1>1, <1>2, <1>3, <2>3 DEF FlowInv, SocketType, h
    <2>7. Sound(u, s, l2) BY <2>3, <2>4, <2>5, <2>6 DEF Sound, SocketInv
    <2>8. Forward(st, u, s) BY <2>3, <1>1 DEF Forward, SocketType, h
    <2>9. h.handle = k.handle /\ h.destroyOnFinish = k.destroyOnFinish
      BY <1>1 DEF SocketType, h
    <2> QED BY <2>3, <2>7, <2>8, <2>9 DEF u
  <1>4. CASE k.ready /\ ~k.writing /\ k.chunks = 0
    <2>1. u = DoWrite(st, s) BY <1>1, <1>4 DEF WriteChunk, SocketType
    <2> HIDE DEF u
    <2>2. WaitInv(k, t, st.ticks, s, l2, st.crashed) BY <1>2, <1>4 DEF WaitInv, FlowInv
    <2>3. Loose(st, s, l2) BY <1>2, <2>2 DEF Loose
    <2>4. /\ u \in State /\ Sound(u, s, l2) /\ Forward(st, u, s)
          /\ u.crashed => st.crashed \/ (~k.errored /\ ~k.handle)
          /\ u.sock[s] = [k EXCEPT !.writing = TRUE]
      BY <2>1, <2>3, <1>4, DoWriteKeeps
    <2>5. k.handle BY <1>2 DEF HandleInv
    <2>6. u.sock[s].handle = k.handle BY <2>4, <1>1 DEF SocketType
    <2>7. u.crashed = st.crashed
      <3>1. u.crashed \in BOOLEAN /\ st.crashed \in BOOLEAN BY <2>4 DEF State
      <3>2. u.crashed <=> st.crashed BY <2>4, <2>5 DEF Forward, Local
      <3> QED BY <3>1, <3>2
    <2> QED BY <2>4, <2>6, <2>7, <1>4 DEF u
  <1> QED BY <1>1, <1>3, <1>4 DEF SocketType

-----------------------------------------------------------------------------
(* What a step does not touch *)

\* The ticks about socket r are the same in q and q2; none is added to start reading
TicksFor(q, q2, r) ==
    /\ \A n \in {"finish", "afterWrite", "connect"} : Queued(q2, n, r) <=> Queued(q, n, r)
    /\ Queued(q2, "readStart", r) => Queued(q, "readStart", r)

\* A socket is connected once and reads at once
IndexInv(q, r) ==
    /\ \A i, j \in DOMAIN q :
          q[i] = q[j] /\ q[i] = [name |-> "connect", s |-> r] => i = j
    /\ \A i \in DOMAIN q : q[i] = [name |-> "readStart", s |-> r] => i = 1

Untouched(r) ==
    /\ sock'[r] = sock[r] /\ tcp'[r] = tcp[r]
    /\ TicksFor(ticks, ticks', r) /\ IndexInv(ticks', r)
    /\ \A then \in Continuations \ {"none"} : After(then, r)' <=> After(then, r)
    /\ ctl' = ctl \/ ctl' = << >> \/ After("none", Server)' \/ ticks = << >>
    /\ (late => late') /\ (hasty => hasty') /\ (r \in doomed' => r \in doomed)

LEMMA UntouchedKeeps ==
    ASSUME NetInv, ~crashed, NEW r \in Sockets, Untouched(r)
    PROVE  /\ SocketInv(sock[r], tcp[r], ticks, r, late, crashed)'
           /\ ConnectInv(r)' /\ ReadStartInv(r)' /\ DestroyInv(r)'
  <1>1. /\ SocketInv(sock[r], tcp[r], ticks, r, late, crashed)
        /\ ConnectInv(r) /\ ReadStartInv(r) /\ DestroyInv(r)
    BY DEF NetInv
  <1>2. /\ "lookup" \in Continuations \ {"none"} /\ "lookupFailed" \in Continuations \ {"none"}
        /\ "eof" \in Continuations \ {"none"} /\ "readError" \in Continuations \ {"none"}
    BY DEF Continuations
  <1>3. /\ After("lookup", r)' <=> After("lookup", r)
        /\ After("lookupFailed", r)' <=> After("lookupFailed", r)
        /\ After("eof", r)' <=> After("eof", r)
        /\ After("readError", r)' <=> After("readError", r)
        /\ Answered(r)' <=> Answered(r)
    BY <1>2 DEF Untouched, Answered
  <1>4. /\ \A n \in {"finish", "afterWrite", "connect"} :
              Queued(ticks', n, r) <=> Queued(ticks, n, r)
        /\ Queued(ticks', "readStart", r) => Queued(ticks, "readStart", r)
        /\ sock'[r] = sock[r] /\ tcp'[r] = tcp[r]
        /\ (late => late') /\ (hasty => hasty') /\ (r \in doomed' => r \in doomed)
    BY DEF Untouched, TicksFor
  <1>5. SocketInv(sock[r], tcp[r], ticks, r, late, crashed)'
    BY <1>1, <1>4 DEF SocketInv, FlowInv
  <1>6. ConnectInv(r)'
    BY <1>1, <1>3, <1>4 DEF ConnectInv, Untouched, IndexInv
  <1>7. ReadStartInv(r)'
    <2>1. ticks = << >> => ~Queued(ticks, "readStart", r) BY DEF Queued
    <2> QED BY <1>1, <1>4, <2>1 DEF ReadStartInv, Untouched, IndexInv, After
  <1>8. DestroyInv(r)' BY <1>1, <1>3, <1>4 DEF DestroyInv
  <1> QED BY <1>5, <1>6, <1>7, <1>8

LEMMA TicksTrans ==
    ASSUME NEW p, NEW q, NEW q2, NEW r, TicksFor(p, q, r), TicksFor(q, q2, r)
    PROVE  TicksFor(p, q2, r)
  BY DEF TicksFor

LEMMA LocalTicks ==
    ASSUME NEW st \in State, NEW u \in State, NEW s \in Sockets, Local(st, u, s), NEW r
    PROVE  /\ r # s => TicksFor(st.ticks, u.ticks, r)
           /\ Queued(u.ticks, "connect", r) <=> Queued(st.ticks, "connect", r)
           /\ Queued(u.ticks, "readStart", r) <=> Queued(st.ticks, "readStart", r)
           /\ IndexInv(st.ticks, r) => IndexInv(u.ticks, r)
  <1>1. \A n : /\ Queued(st.ticks, n, r) => Queued(u.ticks, n, r)
               /\ n # "serverClose" /\ (n \notin {"finish", "afterWrite"} \/ r # s) =>
                     (Queued(u.ticks, n, r) => Queued(st.ticks, n, r))
    BY LocalQueued
  <1>2. /\ DOMAIN u.ticks = 1 .. Len(u.ticks) /\ DOMAIN st.ticks = 1 .. Len(st.ticks)
        /\ Len(u.ticks) \in Nat /\ Len(st.ticks) \in Nat
    BY DEF State
  <1>3. ASSUME NEW i \in DOMAIN u.ticks, u.ticks[i].name \in {"connect", "readStart"}
        PROVE  i \in DOMAIN st.ticks /\ u.ticks[i] = st.ticks[i]
    BY <1>2, <1>3 DEF Local
  <1>4. IndexInv(st.ticks, r) => IndexInv(u.ticks, r) BY <1>3 DEF IndexInv
  <1>5. r # s => TicksFor(st.ticks, u.ticks, r) BY <1>1 DEF TicksFor
  <1> QED BY <1>1, <1>4, <1>5

\* The first tick runs, which is not about r
LEMMA TailTicks ==
    ASSUME NEW q \in Seq(TickType), q # << >>, NEW r, IndexInv(q, r)
    PROVE  /\ IndexInv(Tail(q), r)
           /\ ~Queued(Tail(q), "readStart", r)
           /\ Head(q) = [name |-> "connect", s |-> r] => ~Queued(Tail(q), "connect", r)
           /\ Head(q).s # r \/ Head(q).name \notin {"finish", "afterWrite", "connect"} =>
                 TicksFor(q, Tail(q), r)
  <1>1. /\ Tail(q) \in Seq(TickType) /\ Len(q) \in Nat \ {0} /\ Len(Tail(q)) = Len(q) - 1
        /\ \A i \in 1 .. Len(q) - 1 : Tail(q)[i] = q[i + 1]
        /\ Head(q) = q[1]
    BY HeadTailProperties
  <1>2. DOMAIN Tail(q) = 1 .. Len(q) - 1 /\ DOMAIN q = 1 .. Len(q) BY <1>1
  <1>3. \A i \in DOMAIN Tail(q) : i \in Int /\ i + 1 \in DOMAIN q /\ i + 1 # 1
                                  /\ Tail(q)[i] = q[i + 1]
    BY <1>1, <1>2
  <1>4. \A i \in DOMAIN Tail(q) : Tail(q)[i] \in TickType BY <1>1
  <1>5. \A i \in DOMAIN Tail(q) : Tail(q)[i] # [name |-> "readStart", s |-> r]
    BY <1>3 DEF IndexInv
  <1>6. ASSUME NEW i \in DOMAIN Tail(q), NEW j \in DOMAIN Tail(q), Tail(q)[i] = Tail(q)[j],
               Tail(q)[i] = [name |-> "connect", s |-> r]
        PROVE  i = j
    <2>1. i + 1 = j + 1 BY <1>3, <1>6 DEF IndexInv
    <2> QED BY <2>1, <1>3
  <1>7. IndexInv(Tail(q), r) BY <1>5, <1>6 DEF IndexInv
  <1>8. ASSUME NEW n, NEW x \in TickType, x.name = n, x.s = r PROVE x = [name |-> n, s |-> r]
    BY <1>8 DEF TickType
  <1>9. ~Queued(Tail(q), "readStart", r) BY <1>4, <1>5, <1>8 DEF Queued
  <1>10. Head(q) = [name |-> "connect", s |-> r] => ~Queued(Tail(q), "connect", r)
    <2> SUFFICES ASSUME q[1] = [name |-> "connect", s |-> r], NEW i \in DOMAIN Tail(q),
                        Tail(q)[i].name = "connect", Tail(q)[i].s = r
                 PROVE  FALSE
      BY <1>1 DEF Queued
    <2>1. q[i + 1] = [name |-> "connect", s |-> r] BY <1>3, <1>4, <1>8
    <2>2. 1 \in DOMAIN q BY <1>1, <1>2
    <2>3. 1 = i + 1 BY <2>1, <2>2, <1>3 DEF IndexInv
    <2> QED BY <2>3, <1>3
  <1>11. Head(q).s # r \/ Head(q).name \notin {"finish", "afterWrite", "connect"} =>
                 TicksFor(q, Tail(q), r)
    BY <1>9, QueuedWithout DEF TicksFor
  <1> QED BY <1>7, <1>9, <1>10, <1>11

\* A tick that does not connect and does not start to read
LEMMA AppendTicks ==
    ASSUME NEW q \in Seq(TickType), NEW tick \in TickType, NEW r, IndexInv(q, r)
    PROVE  /\ tick.name \notin {"connect", "readStart"} \/ tick.s # r =>
                 IndexInv(Append(q, tick), r)
           /\ tick.name = "connect" /\ ~Queued(q, "connect", r) => IndexInv(Append(q, tick), r)
           /\ tick.name = "readStart" /\ q = << >> => IndexInv(Append(q, tick), r)
           /\ tick.s # r \/ tick.name \notin {"finish", "afterWrite", "connect", "readStart"} =>
                 TicksFor(q, Append(q, tick), r)
  <1> DEFINE a == Append(q, tick)
  <1>1. /\ DOMAIN a = 1 .. Len(q) + 1 /\ DOMAIN q = 1 .. Len(q) /\ Len(q) \in Nat
        /\ a[Len(q) + 1] = tick /\ \A i \in 1 .. Len(q) : a[i] = q[i]
        /\ q = << >> => Len(q) = 0
    BY AppendProperties
  <1>2. \A n : Queued(a, n, r) <=> Queued(q, n, r) \/ (tick.name = n /\ tick.s = r)
    BY QueuedAfter
  <1> HIDE DEF a
  <1>3. \A i \in DOMAIN a : (i \in DOMAIN q /\ a[i] = q[i]) \/ (i = Len(q) + 1 /\ a[i] = tick)
    BY <1>1
  <1>4. ~Queued(q, "connect", r) => \A i \in DOMAIN q : q[i] # [name |-> "connect", s |-> r]
    BY DEF Queued
  <1>5. tick.name \notin {"connect", "readStart"} \/ tick.s # r => IndexInv(a, r)
    BY <1>3 DEF IndexInv
  <1>6. tick.name = "connect" /\ ~Queued(q, "connect", r) => IndexInv(a, r)
    BY <1>3, <1>4 DEF IndexInv
  <1>7. tick.name = "readStart" /\ q = << >> => IndexInv(a, r)
    BY <1>1, <1>3 DEF IndexInv
  <1>8. tick.s # r \/ tick.name \notin {"finish", "afterWrite", "connect", "readStart"} =>
                 TicksFor(q, a, r)
    BY <1>2 DEF TicksFor
  <1> QED BY <1>5, <1>6, <1>7, <1>8 DEF a

\* A step that runs functions of net.js on socket s starts from the current state or,
\* when it is a tick of s, without that tick
Base(st, s) == st = Now \/ (st = Later /\ ticks # << >> /\ Head(ticks).s = s)

LEMMA BaseState ==
    ASSUME NetInv, ~crashed, NEW s \in Sockets, NEW st, Base(st, s)
    PROVE  /\ st \in State /\ st.sock = sock /\ st.tcp = tcp /\ st.server = server
           /\ st.crashed = crashed
           /\ \A r \in Sockets : /\ IndexInv(st.ticks, r)
                                 /\ r # s => TicksFor(ticks, st.ticks, r)
           /\ \A n, r : Queued(st.ticks, n, r) => Queued(ticks, n, r)
           /\ st # Now => \A r \in Sockets : ~Queued(st.ticks, "readStart", r)
  <1>1. /\ Now \in State /\ Now.sock = sock /\ Now.tcp = tcp /\ Now.server = server
        /\ Now.ticks = ticks /\ Now.crashed = crashed /\ ticks \in Seq(TickType)
    BY DEF NetInv, Now, State
  <1>2. \A r \in Sockets : IndexInv(ticks, r)
    BY DEF NetInv, ConnectInv, ReadStartInv, IndexInv
  <1>3. CASE st = Now BY <1>1, <1>2, <1>3 DEF TicksFor
  <1>4. CASE st = Later /\ ticks # << >> /\ Head(ticks).s = s
    <2>1. Tail(ticks) \in Seq(TickType) BY <1>1, <1>4, HeadTailProperties
    <2>2. /\ st \in State /\ st.sock = sock /\ st.tcp = tcp /\ st.server = server
          /\ st.crashed = crashed /\ st.ticks = Tail(ticks)
      <3>1. Later = [Now EXCEPT !.ticks = Tail(ticks)] BY <1>1 DEF Later
      <3> HIDE DEF Now
      <3> QED BY <3>1, <1>1, <1>4, <2>1 DEF State
    <2>3. \A r \in Sockets : /\ IndexInv(Tail(ticks), r)
                             /\ r # s => TicksFor(ticks, Tail(ticks), r)
                             /\ ~Queued(Tail(ticks), "readStart", r)
      BY <1>1, <1>2, <1>4, TailTicks
    <2>4. \A n, r : Queued(Tail(ticks), n, r) => Queued(ticks, n, r)
      BY <1>1, <1>4, QueuedWithout
    <2> QED BY <2>2, <2>3, <2>4
  <1> QED BY <1>3, <1>4 DEF Base

\* connect and onSocketConnect queue a tick that uses the handle
Plus(v, w, s) ==
    \/ w = v
    \/ w = NextTick(v, "connect", s) /\ ~Queued(v.ticks, "connect", s)
    \/ w = NextTick(v, "readStart", s) /\ v.ticks = << >>

LEMMA PlusTicks ==
    ASSUME NEW v \in State, NEW w, NEW s \in Sockets, Plus(v, w, s)
    PROVE  /\ w \in State /\ w.sock = v.sock /\ w.tcp = v.tcp /\ w.server = v.server
           /\ w.crashed = v.crashed
           /\ \A r \in Sockets : /\ IndexInv(v.ticks, r) => IndexInv(w.ticks, r)
                                 /\ IndexInv(v.ticks, r) /\ r # s => TicksFor(v.ticks, w.ticks, r)
           /\ \A n, r : n \notin {"connect", "readStart"} =>
                 (Queued(w.ticks, n, r) <=> Queued(v.ticks, n, r))
  <1>1. v.ticks \in Seq(TickType) BY DEF State
  <1>2. CASE w = v BY <1>2 DEF TicksFor
  <1>3. ASSUME NEW name \in {"connect", "readStart"}, w = NextTick(v, name, s),
               name = "connect" => ~Queued(v.ticks, "connect", s),
               name = "readStart" => v.ticks = << >>
        PROVE  /\ w \in State /\ w.sock = v.sock /\ w.tcp = v.tcp /\ w.server = v.server
               /\ w.crashed = v.crashed
               /\ \A r \in Sockets : /\ IndexInv(v.ticks, r) => IndexInv(w.ticks, r)
                                     /\ IndexInv(v.ticks, r) /\ r # s => TicksFor(v.ticks, w.ticks, r)
               /\ \A n, r : n \notin {"connect", "readStart"} =>
                     (Queued(w.ticks, n, r) <=> Queued(v.ticks, n, r))
    <2> DEFINE tick == [name |-> name, s |-> s]
    <2>1. name \in TickNames BY DEF TickNames
    <2>2. /\ w \in State /\ w.ticks = Append(v.ticks, tick)
          /\ w.sock = v.sock /\ w.tcp = v.tcp /\ w.crashed = v.crashed /\ w.server = v.server
      BY <1>3, <2>1, AddTick
    <2>3. tick \in TickType /\ tick.name = name /\ tick.s = s BY <2>1 DEF TickType
    <2> HIDE DEF tick
    <2>4. ASSUME NEW r \in Sockets, IndexInv(v.ticks, r)
          PROVE  IndexInv(w.ticks, r) /\ (r # s => TicksFor(v.ticks, w.ticks, r))
      <3>1. CASE r # s BY <3>1, <2>2, <2>3, <2>4, <1>1, AppendTicks
      <3>2. CASE r = s BY <3>2, <2>2, <2>3, <2>4, <1>1, <1>3, AppendTicks
      <3> QED BY <3>1, <3>2
    <2>5. \A n, r : n \notin {"connect", "readStart"} =>
             (Queued(w.ticks, n, r) <=> Queued(v.ticks, n, r))
      BY <2>2, <2>3, <1>1, QueuedAfter
    <2> QED BY <2>2, <2>4, <2>5
  <1> QED BY <1>2, <1>3 DEF Plus

LEMMA ServerCount ==
    ASSUME NEW st \in State, NEW u \in State, NEW s \in Sockets, Local(st, u, s),
           st.server.count = Cardinality({r \in Sockets : st.sock[r].server})
    PROVE  /\ u.server.count = Cardinality({r \in Sockets : u.sock[r].server})
           /\ u.server.count \in Nat /\ u.server.count <= st.server.count
  <1> DEFINE A == {r \in Sockets : st.sock[r].server}
             B == {r \in Sockets : u.sock[r].server}
  <1>1. IsFiniteSet(A) /\ IsFiniteSet(B) BY NetAssumption, FS_Subset
  <1>2. Cardinality(A) \in Nat /\ Cardinality(B) \in Nat BY <1>1, FS_CardinalityType
  <1>3. \A r \in Sockets \ {s} : u.sock[r] = st.sock[r] BY DEF Local
  <1>4. u.server.count = st.server.count + Number(u.sock[s].server) - Number(st.sock[s].server)
    BY DEF Local
  <1>5. u.sock[s].server => st.sock[s].server BY DEF Local
  <1>6. CASE u.sock[s].server <=> st.sock[s].server
    <2>1. A = B BY <1>3, <1>6
    <2>2. Number(u.sock[s].server) = Number(st.sock[s].server)
          /\ Number(u.sock[s].server) \in Int
      BY <1>6 DEF Number
    <2> HIDE DEF A, B
    <2>3. st.server.count = Cardinality(A) BY DEF A
    <2>4. u.server.count = st.server.count BY <2>2, <2>3, <1>2, <1>4
    <2>5. u.server.count = Cardinality(B) /\ u.server.count \in Nat BY <2>1, <2>3, <2>4, <1>2
    <2> QED BY <2>4, <2>5 DEF B
  <1>7. CASE ~u.sock[s].server /\ st.sock[s].server
    <2>1. B = A \ {s} /\ s \in A BY <1>3, <1>7
    <2>2. Number(u.sock[s].server) = 0 /\ Number(st.sock[s].server) = 1 BY <1>7 DEF Number
    <2> HIDE DEF A, B
    <2>3. Cardinality(B) = Cardinality(A) - 1 BY <1>1, <2>1, FS_RemoveElement
    <2>4. u.server.count = Cardinality(A) - 1 BY <1>2, <1>4, <2>2 DEF A
    <2> QED BY <1>2, <2>3, <2>4 DEF A, B
  <1> QED BY <1>5, <1>6, <1>7

\* What a step that is about s leaves alone
Calm(s) ==
    /\ closeEvents' = closeEvents /\ serverClosed' = serverClosed /\ reused' = reused
    /\ calls' \in Nat /\ input' \in Nat /\ late' \in BOOLEAN /\ hasty' \in BOOLEAN
    /\ (late => late') /\ (hasty => hasty') /\ doomed \subseteq doomed'
    /\ doomed' \subseteq doomed \cup {s}
    /\ CtlType'
    /\ \A r \in Sockets \ {s} :
          \A then \in Continuations \ {"none"} : After(then, r)' <=> After(then, r)
    /\ ctl' = ctl \/ ctl' = << >> \/ After("none", Server)' \/ ticks = << >>

\* A step about s keeps the invariant when it keeps the parts of it that are about s
LEMMA StepKeeps ==
    ASSUME NetInv, ~crashed, NEW s \in Sockets, NEW st, NEW v \in State, NEW w,
           Base(st, s), Local(st, v, s), Plus(v, w, s), Becomes(w), Calm(s),
           Sound(w, s, late'), w.tcp[s].uv = "closed" <=> tcp[s].uv = "closed",
           w.crashed => ~Orderly',
           ~w.crashed => ConnectInv(s)' /\ ReadStartInv(s)' /\ DestroyInv(s)'
    PROVE  NetInv'
  <1>1. /\ st \in State /\ st.sock = sock /\ st.tcp = tcp /\ st.server = server
        /\ st.crashed = crashed
        /\ \A r \in Sockets : /\ IndexInv(st.ticks, r)
                              /\ r # s => TicksFor(ticks, st.ticks, r)
        /\ \A n, r : Queued(st.ticks, n, r) => Queued(ticks, n, r)
    BY BaseState
  <1>2. /\ w \in State /\ w.sock = v.sock /\ w.tcp = v.tcp /\ w.server = v.server
        /\ w.crashed = v.crashed
        /\ \A r \in Sockets : /\ IndexInv(v.ticks, r) => IndexInv(w.ticks, r)
                              /\ IndexInv(v.ticks, r) /\ r # s => TicksFor(v.ticks, w.ticks, r)
        /\ \A n, r : n \notin {"connect", "readStart"} =>
              (Queued(w.ticks, n, r) <=> Queued(v.ticks, n, r))
    BY PlusTicks
  <1>3. /\ sock' = w.sock /\ tcp' = w.tcp /\ server' = w.server /\ ticks' = w.ticks
        /\ crashed' = w.crashed
    BY DEF Becomes
  <1>4. Now' \in State /\ Now' = w
    <2>1. w = [sock |-> w.sock, tcp |-> w.tcp, server |-> w.server, ticks |-> w.ticks,
               crashed |-> w.crashed]
      BY <1>2 DEF State
    <2>2. Now' = w BY <2>1, <1>3 DEF Now
    <2> QED BY <2>2, <1>2
  <1>5. ASSUME NEW r \in Sockets \ {s} PROVE Untouched(r)
    <2>1. v.sock[r] = sock[r] /\ v.tcp[r] = tcp[r] BY <1>1 DEF Local
    <2>2. /\ TicksFor(st.ticks, v.ticks, r)
          /\ IndexInv(st.ticks, r) => IndexInv(v.ticks, r)
      BY <1>1, LocalTicks
    <2>3. IndexInv(v.ticks, r) BY <1>1, <2>2
    <2>4. TicksFor(v.ticks, w.ticks, r) /\ IndexInv(w.ticks, r) BY <1>2, <2>3
    <2>5. TicksFor(ticks, st.ticks, r) BY <1>1
    <2>6. TicksFor(ticks, v.ticks, r) BY <2>2, <2>5, TicksTrans
    <2>7. TicksFor(ticks, w.ticks, r) BY <2>4, <2>6, TicksTrans
    <2> QED BY <2>1, <2>4, <2>7, <1>2, <1>3 DEF Untouched, Calm
  <1>6. ASSUME NEW r \in Sockets
        PROVE  /\ SocketInv(sock[r], tcp[r], ticks, r, late, crashed)'
               /\ ~crashed' => ConnectInv(r)' /\ ReadStartInv(r)' /\ DestroyInv(r)'
    <2>1. CASE r # s BY <2>1, <1>5, UntouchedKeeps
    <2>2. CASE r = s BY <2>2, <1>3 DEF Sound
    <2> QED BY <2>1, <2>2
  <1>7. ServerInv'
    <2>1. st.server.count = Cardinality({r \in Sockets : st.sock[r].server})
      BY <1>1 DEF NetInv, ServerInv
    <2>2. /\ v.server.count = Cardinality({r \in Sockets : v.sock[r].server})
          /\ v.server.count \in Nat /\ v.server.count <= st.server.count
      BY <2>1, <1>1, ServerCount
    <2>3. Queued(v.ticks, "serverClose", Server) =>
             Queued(st.ticks, "serverClose", Server) \/ (~v.server.handle /\ v.server.count <= 0)
      BY <1>1, LocalQueued
    <2>4. v.server.handle = server.handle BY <1>1 DEF Local
    <2>5. ~reused /\ Queued(v.ticks, "serverClose", Server) =>
             ~v.server.handle /\ v.server.count = 0
      BY <2>2, <2>3, <2>4, <1>1 DEF NetInv, ServerInv
    <2>6. Queued(ticks', "serverClose", Server) => Queued(v.ticks, "serverClose", Server)
      BY <1>2, <1>3
    <2>7. reused' = reused BY DEF Calm
    <2> QED BY <2>2, <2>5, <2>6, <2>7, <1>2, <1>3 DEF ServerInv
  <1>8. HistoryInv'
    <2>1. \A r \in Sockets : tcp'[r].uv = "closed" <=> tcp[r].uv = "closed"
      <3>1. ASSUME NEW r \in Sockets \ {s} PROVE tcp'[r] = tcp[r] BY <1>5 DEF Untouched
      <3> QED BY <3>1, <1>3
    <2>2. closeEvents' = [r \in Sockets |-> IF tcp'[r].uv = "closed" THEN 1 ELSE 0]
      BY <2>1 DEF NetInv, HistoryInv, Calm
    <2>3. doomed' \subseteq Sockets BY DEF NetInv, HistoryInv, Calm
    <2> QED BY <2>2, <2>3, <1>3 DEF HistoryInv, NetInv, Calm
  <1> QED BY <1>4, <1>6, <1>7, <1>8 DEF NetInv, Calm

\* A step that only moves the stream of s forward
LEMMA ForwardStep ==
    ASSUME NetInv, ~crashed, NEW s \in Sockets, NEW st, NEW u \in State,
           Base(st, s), Forward(st, u, s), Becomes(u), Calm(s), Sound(u, s, late'),
           u.crashed => ~Orderly',
           \A then \in Continuations \ {"none"} : After(then, s)' => After(then, s),
           ~hasty' /\ (After("lookup", s) \/ Queued(st.ticks, "connect", s)) =>
              /\ u.sock[s].handle
              /\ ~(u.sock[s].destroyOnFinish /\ Queued(u.ticks, "finish", s)),
           ~hasty' /\ Queued(st.ticks, "readStart", s) => u.sock[s].handle,
           s \in doomed' => s \in doomed \/ u.sock[s].destroyed \/ u.sock[s].destroyOnFinish,
           \/ After("eof", s) => After("eof", s)'
           \/ ~(u.sock[s].destroyOnFinish /\ u.sock[s].ended /\ u.sock[s].handle)
    PROVE  NetInv'
  <1> DEFINE k == sock[s]
             j == u.sock[s]
  <1>1. /\ st \in State /\ st.sock = sock /\ st.tcp = tcp /\ st.server = server
        /\ st.crashed = crashed /\ IndexInv(st.ticks, s)
        /\ \A n, r : Queued(st.ticks, n, r) => Queued(ticks, n, r)
    BY BaseState
  <1>2. /\ sock' = u.sock /\ tcp' = u.tcp /\ ticks' = u.ticks /\ crashed' = u.crashed
    BY DEF Becomes
  <1>3. Local(st, u, s) BY DEF Forward
  <1>4. /\ Queued(u.ticks, "connect", s) <=> Queued(st.ticks, "connect", s)
        /\ Queued(u.ticks, "readStart", s) <=> Queued(st.ticks, "readStart", s)
        /\ IndexInv(u.ticks, s)
    BY <1>1, <1>3, LocalTicks
  <1>5. /\ j.kind = k.kind /\ j.lookup = k.lookup /\ j.connecting = k.connecting
        /\ j.eof = k.eof /\ j.errored = k.errored
        /\ (k.destroyed => j.destroyed) /\ (k.destroyOnFinish => j.destroyOnFinish)
        /\ (j.handle => k.handle)
        /\ "connect" \in u.tcp[s].reqs <=> "connect" \in tcp[s].reqs
        /\ u.tcp[s].uv = "closed" <=> tcp[s].uv = "closed"
        /\ j.destroyOnFinish /\ j.ended /\ j.handle => k.destroyOnFinish /\ k.ended
    BY <1>1 DEF Forward
  <1>6. ConnectInv(s) /\ ReadStartInv(s) /\ DestroyInv(s) /\ StreamInv(k, tcp[s])
    BY DEF NetInv, SocketInv
  <1>7. StreamInv(j, u.tcp[s]) BY DEF Sound, SocketInv
  <1>8. /\ After("lookup", s)' => After("lookup", s)
        /\ After("lookupFailed", s)' => After("lookupFailed", s)
        /\ After("eof", s)' => After("eof", s)
        /\ After("readError", s)' => After("readError", s)
        /\ Answered(s)' => Answered(s)
    <2>1. /\ "lookup" \in Continuations \ {"none"} /\ "lookupFailed" \in Continuations \ {"none"}
          /\ "eof" \in Continuations \ {"none"} /\ "readError" \in Continuations \ {"none"}
      BY DEF Continuations
    <2> QED BY <2>1 DEF Answered
  <1>9. k.connecting /\ ~k.ready => j.connecting /\ ~j.ready
    BY <1>5, <1>6, <1>7 DEF StreamInv
  <1>10. (hasty => hasty') /\ (doomed \subseteq doomed')
         /\ (ctl' = ctl \/ ctl' = << >> \/ After("none", Server)' \/ ticks = << >>)
    BY DEF Calm
  <1> HIDE DEF k, j
  <1>11. ConnectInv(s)'
    <2>1. /\ Queued(ticks', "connect", s) <=> Queued(st.ticks, "connect", s)
          /\ Queued(st.ticks, "connect", s) => Queued(ticks, "connect", s)
          /\ ticks' = u.ticks /\ sock'[s] = j /\ tcp'[s] = u.tcp[s]
      BY <1>1, <1>2, <1>4 DEF j
    <2>2. Answered(s)' \/ Queued(ticks', "connect", s) =>
             /\ j.connecting /\ ~j.ready
             /\ ~j.lookup /\ "connect" \notin u.tcp[s].reqs
      BY <2>1, <1>5, <1>6, <1>8, <1>9 DEF ConnectInv, k
    <2>3. ~(Answered(s)' /\ Queued(ticks', "connect", s)) BY <2>1, <1>6, <1>8 DEF ConnectInv
    <2>4. \A i, m \in DOMAIN ticks' :
             ticks'[i] = ticks'[m] /\ ticks'[i] = [name |-> "connect", s |-> s] => i = m
      BY <1>2, <1>4 DEF IndexInv
    <2>5. ~hasty' /\ (After("lookup", s)' \/ Queued(ticks', "connect", s)) =>
             j.handle /\ ~(j.destroyOnFinish /\ Queued(ticks', "finish", s))
      BY <2>1, <1>8 DEF j
    <2> QED BY <2>1, <2>2, <2>3, <2>4, <2>5 DEF ConnectInv
  <1>12. ReadStartInv(s)'
    <2>1. \A i \in DOMAIN ticks' : ticks'[i] = [name |-> "readStart", s |-> s] => i = 1
      BY <1>2, <1>4 DEF IndexInv
    <2>2. Queued(ticks', "readStart", s) => Queued(st.ticks, "readStart", s)
                                            /\ Queued(ticks, "readStart", s)
      BY <1>1, <1>2, <1>4
    <2>3. ticks = << >> => ~Queued(ticks, "readStart", s) BY DEF Queued
    <2>4. Queued(ticks', "readStart", s) => ctl' = << >> \/ After("none", Server)'
      BY <2>2, <2>3, <1>6, <1>10 DEF ReadStartInv, After
    <2>5. sock'[s] = j BY <1>2 DEF j
    <2>6. Used(k) => Used(j) BY <1>5 DEF Used
    <2> QED BY <2>1, <2>2, <2>4, <2>5, <2>6, <1>5, <1>6 DEF ReadStartInv, k, j
  <1>13. DestroyInv(s)'
    <2>1. sock'[s] = j BY <1>2 DEF j
    <2>2. Used(k) => Used(j) BY <1>5 DEF Used
    <2>3. j.destroyOnFinish /\ j.ended /\ j.handle => After("eof", s)'
      BY <1>5, <1>6 DEF DestroyInv, k, j
    <2>4. s \in doomed' => j.destroyed \/ j.destroyOnFinish
      BY <1>5, <1>6 DEF DestroyInv, k, j
    <2>5. /\ After("eof", s)' \/ After("readError", s)' =>
                Used(j) /\ ~j.connecting /\ ~j.errored
          /\ After("eof", s)' => j.eof
      BY <2>2, <1>5, <1>6, <1>8 DEF DestroyInv, k
    <2> QED BY <2>1, <2>3, <2>4, <2>5 DEF DestroyInv
  <1>14. Plus(u, u, s) BY DEF Plus
  <1> QED BY <1>3, <1>5, <1>11, <1>12, <1>13, <1>14, StepKeeps

-----------------------------------------------------------------------------
(* The steps that only move a stream forward *)

LEMMA AfterUnique ==
    ASSUME NEW a, NEW r, After(a, r)
    PROVE  /\ ctl # << >> /\ Head(ctl) = [then |-> a, s |-> r]
           /\ \A b, x : After(b, x) => a = b /\ r = x
  <1>1. ctl # << >> /\ Head(ctl) = [then |-> a, s |-> r] BY DEF After
  <1>2. \A b, x : After(b, x) => ctl[1].then = b /\ ctl[1].s = x BY DEF After
  <1> QED BY <1>1, <1>2

\* A callback or a tick about s, or what follows an event about s
LEMMA CalmCallback ==
    ASSUME NetInv, NEW s \in Sockets, UNCHANGED Rest, ctl' = << >> \/ EmitLast,
           ctl = << >> \/ \E then : After(then, s)
    PROVE  /\ Calm(s)
           /\ \A then \in Continuations \ {"none"} : ~After(then, s)'
  <1>1. \A r : \A then \in Continuations \ {"none"} : ~After(then, r)'
    <2>1. CASE ctl' = << >> BY <2>1 DEF After
    <2>2. CASE EmitLast
      <3>1. After("none", Server)' BY <2>2 DEF EmitLast, After
      <3>2. \A r, then : After(then, r)' => ctl'[1].then = then BY DEF After
      <3> QED BY <3>1, <3>2
    <2> QED BY <2>1, <2>2
  <1>2. \A r \in Sockets \ {s} : \A then \in Continuations \ {"none"} : ~After(then, r)
    BY AfterUnique DEF After
  <1>3. CtlType' BY DEF CtlType, EmitLast, After, Continuations
  <1>4. ctl' = << >> \/ After("none", Server)' BY DEF EmitLast, After
  <1> QED BY <1>1, <1>2, <1>3, <1>4 DEF Calm, Rest, NetInv, HistoryInv

LEMMA CalmCall ==
    ASSUME NetInv, NEW s \in Sockets, Call, UNCHANGED reused,
           late' \in BOOLEAN, hasty' \in BOOLEAN, late => late', hasty => hasty',
           doomed \subseteq doomed', doomed' \subseteq doomed \cup {s}
    PROVE  /\ Calm(s) /\ ~crashed
           /\ \A then, r : After(then, r)' <=> After(then, r)
  <1>1. ctl' = ctl /\ calls' \in Nat /\ ~crashed
    BY DEF Call, AtScript, NetInv, HistoryInv
  <1>2. CtlType' BY <1>1 DEF NetInv, CtlType, After
  <1>3. \A then, r : After(then, r)' <=> After(then, r) BY <1>1 DEF After
  <1> QED BY <1>1, <1>2, <1>3 DEF Calm, Call, NetInv, HistoryInv

\* The state that a function of net.js starts from
LEMMA NowState ==
    ASSUME NetInv, NEW s \in Sockets
    PROVE  /\ Now \in State /\ Base(Now, s) /\ Sound(Now, s, late) /\ late \in BOOLEAN
           /\ Now.sock = sock /\ Now.tcp = tcp /\ Now.server = server /\ Now.ticks = ticks
           /\ Now.crashed = crashed
           /\ sock[s] \in SocketType /\ tcp[s] \in Handle /\ ticks \in Seq(TickType)
           /\ HandleInv(sock[s], tcp[s]) /\ StreamInv(sock[s], tcp[s])
           /\ FlowInv(sock[s], tcp[s], ticks, s, late, crashed)
           /\ ~crashed => ConnectInv(s) /\ ReadStartInv(s) /\ DestroyInv(s)
  <1>1. /\ Now.sock = sock /\ Now.tcp = tcp /\ Now.server = server /\ Now.ticks = ticks
        /\ Now.crashed = crashed
    BY DEF Now
  <1>2. /\ Now \in State /\ SocketInv(sock[s], tcp[s], ticks, s, late, crashed)
        /\ late \in BOOLEAN
        /\ ~crashed => ConnectInv(s) /\ ReadStartInv(s) /\ DestroyInv(s)
    BY DEF NetInv, HistoryInv
  <1>3. sock[s] \in SocketType /\ tcp[s] \in Handle /\ ticks \in Seq(TickType)
    BY <1>1, <1>2 DEF State
  <1> QED BY <1>1, <1>2, <1>3 DEF Sound, SocketInv, Base

LEMMA WriteKeeps ==
    ASSUME NetInv, NEW s \in Sockets, Write(s)
    PROVE  NetInv'
  <1> DEFINE k == sock[s]
             u == IF k.ended THEN Now ELSE WriteChunk(Now, s)
  <1>1. /\ Call /\ Used(k) /\ Becomes(u) /\ late' = (late \/ (k.ending /\ ~k.ended))
        /\ UNCHANGED <<doomed, reused, hasty>>
    BY DEF Write, Used
  <1>2. /\ Now \in State /\ Base(Now, s) /\ Sound(Now, s, late) /\ late \in BOOLEAN
        /\ Now.sock = sock /\ Now.ticks = ticks /\ Now.crashed = crashed
        /\ k \in SocketType
        /\ StreamInv(k, tcp[s])
        /\ ~crashed => ConnectInv(s) /\ ReadStartInv(s) /\ DestroyInv(s)
    BY NowState
  <1>3. late' \in BOOLEAN /\ (late => late') /\ (k.ending /\ ~k.ended => late') BY <1>1, <1>2
  <1>4. Calm(s) /\ ~crashed /\ \A then, r : After(then, r)' <=> After(then, r)
    <2>1. hasty \in BOOLEAN BY DEF NetInv, HistoryInv
    <2> QED BY <1>1, <1>3, <2>1, CalmCall
  <1>5. /\ u \in State /\ Sound(u, s, late') /\ Forward(Now, u, s) /\ u.crashed = crashed
        /\ u.sock[s].handle = k.handle
        /\ ~k.ready => u.ticks = ticks /\ u.sock[s].destroyOnFinish = k.destroyOnFinish
    <2>1. CASE k.ended
      <3>1. u = Now BY <2>1
      <3>2. Sound(Now, s, late') BY <1>2, <1>3 DEF Sound, SocketInv, FlowInv
      <3> QED BY <3>1, <3>2, <1>2, ForwardSelf
    <2>2. CASE ~k.ended
      <3>1. u = WriteChunk(Now, s) BY <2>2
      <3> HIDE DEF u
      <3>2. /\ Now \in State /\ Sound(Now, s, late) /\ late \in BOOLEAN /\ late' \in BOOLEAN
            /\ Used(Now.sock[s]) /\ ~Now.sock[s].ended
            /\ (late => late') /\ (Now.sock[s].ending => late')
        BY <1>1, <1>2, <1>3, <2>2
      <3>3. /\ u \in State /\ Sound(u, s, late') /\ Forward(Now, u, s)
            /\ u.crashed = Now.crashed
            /\ u.sock[s].handle = Now.sock[s].handle
            /\ ~Now.sock[s].ready =>
                  /\ u.ticks = Now.ticks
                  /\ u.sock[s].destroyOnFinish = Now.sock[s].destroyOnFinish
        BY ONLY <3>1, <3>2, WriteChunkKeeps, s \in Sockets
      <3> QED BY <3>3, <1>2
    <2> QED BY <2>1, <2>2
  <1> HIDE DEF u
  <1>6. ~hasty' /\ (After("lookup", s) \/ Queued(ticks, "connect", s)) =>
              /\ u.sock[s].handle
              /\ ~(u.sock[s].destroyOnFinish /\ Queued(u.ticks, "finish", s))
    BY <1>1, <1>2, <1>4, <1>5 DEF ConnectInv, Answered
  <1>7. ~hasty' /\ Queued(ticks, "readStart", s) => u.sock[s].handle
    BY <1>1, <1>2, <1>4, <1>5 DEF ReadStartInv
  <1> QED BY <1>1, <1>2, <1>4, <1>5, <1>6, <1>7, ForwardStep

LEMMA EndKeeps ==
    ASSUME NetInv, NEW s \in Sockets, End(s)
    PROVE  NetInv'
  <1> DEFINE k == sock[s]
             u == SocketEnd(Now, s)
  <1>1. Call /\ Used(k) /\ Becomes(u) /\ UNCHANGED <<doomed, late, reused, hasty>>
    BY DEF End, Used
  <1>2. /\ Now \in State /\ Base(Now, s) /\ Sound(Now, s, late) /\ late \in BOOLEAN
        /\ Now.sock = sock /\ Now.ticks = ticks /\ Now.crashed = crashed
        /\ StreamInv(k, tcp[s])
        /\ ~crashed => ConnectInv(s) /\ ReadStartInv(s) /\ DestroyInv(s)
    BY NowState
  <1>3. Calm(s) /\ ~crashed /\ \A then, r : After(then, r)' <=> After(then, r)
    <2>1. hasty \in BOOLEAN BY DEF NetInv, HistoryInv
    <2> QED BY <1>1, <1>2, <2>1, CalmCall
  <1> HIDE DEF u
  <1>4. /\ u \in State /\ Sound(u, s, late) /\ Forward(Now, u, s) /\ u.crashed = Now.crashed
        /\ ~Now.sock[s].eof \/ Now.sock[s].readable =>
              /\ u.sock[s].handle = Now.sock[s].handle
              /\ u.sock[s].destroyOnFinish = Now.sock[s].destroyOnFinish
              /\ u.sock[s].destroyOnFinish /\ Queued(u.ticks, "finish", s) =>
                    Queued(Now.ticks, "finish", s)
    <2>1. /\ Now \in State /\ Sound(Now, s, late) /\ late \in BOOLEAN /\ Used(Now.sock[s])
          /\ u = SocketEnd(Now, s)
      BY <1>1, <1>2 DEF u
    <2> QED BY ONLY <2>1, SocketEndKeeps, s \in Sockets
  <1>5. ~hasty' /\ (After("lookup", s) \/ Queued(ticks, "connect", s)) =>
              /\ u.sock[s].handle
              /\ ~(u.sock[s].destroyOnFinish /\ Queued(u.ticks, "finish", s))
    BY <1>1, <1>2, <1>3, <1>4 DEF ConnectInv, Answered, StreamInv
  <1>6. ~hasty' /\ Queued(ticks, "readStart", s) => u.sock[s].handle
    BY <1>1, <1>2, <1>3, <1>4 DEF ReadStartInv
  <1>7. late' = late /\ doomed' = doomed BY <1>1
  <1> QED BY <1>1, <1>2, <1>3, <1>4, <1>5, <1>6, <1>7, ForwardStep

LEMMA DestroyKeeps ==
    ASSUME NetInv, NEW s \in Sockets, Destroy(s)
    PROVE  NetInv'
  <1> DEFINE k == sock[s]
             u == SocketDestroy(Now, s)
  <1>1. /\ Call /\ Used(k) /\ Becomes(u) /\ UNCHANGED <<late, reused>>
        /\ hasty' = (hasty \/ AboutToStart(s)) /\ doomed' = doomed \cup {s}
    BY DEF Destroy, Used
  <1>2. /\ Now \in State /\ Base(Now, s) /\ Sound(Now, s, late) /\ late \in BOOLEAN
        /\ Now.sock = sock /\ Now.ticks = ticks /\ Now.crashed = crashed
    BY NowState
  <1>3. Calm(s) /\ ~crashed /\ \A then, r : After(then, r)' <=> After(then, r)
    <2>1. hasty \in BOOLEAN /\ hasty' \in BOOLEAN
      BY <1>1 DEF NetInv, HistoryInv, AboutToStart
    <2> QED BY <1>1, <1>2, <2>1, CalmCall
  <1> HIDE DEF u
  <1>4. /\ u \in State /\ Sound(u, s, late) /\ Forward(Now, u, s) /\ u.crashed = Now.crashed
        /\ (u.sock[s].destroyed \/ u.sock[s].destroyOnFinish)
    <2>1. /\ Now \in State /\ Sound(Now, s, late) /\ late \in BOOLEAN /\ Used(Now.sock[s])
          /\ u = SocketDestroy(Now, s)
      BY <1>1, <1>2 DEF u
    <2> QED BY ONLY <2>1, SocketDestroyKeeps, s \in Sockets
  <1>5. After("lookup", s) \/ Queued(ticks, "connect", s) \/ Queued(ticks, "readStart", s) =>
             AboutToStart(s)
    BY AfterUnique DEF AboutToStart, Queued
  <1>6. ~hasty' => ~AboutToStart(s) BY <1>1
  <1>7. late' = late BY <1>1
  <1> QED BY <1>1, <1>2, <1>3, <1>4, <1>5, <1>6, <1>7, ForwardStep

\* The state that a tick starts from
LEMMA LaterState ==
    ASSUME NetInv, NEW s \in Sockets, NEW name, Tick(name, s)
    PROVE  /\ Later \in State /\ Base(Later, s) /\ ~crashed /\ ctl = << >>
           /\ Later.sock = sock /\ Later.tcp = tcp /\ Later.server = server
           /\ Later.crashed = crashed
           /\ Queued(ticks, name, s)
           /\ \A n : Queued(Later.ticks, n, s) => Queued(ticks, n, s)
           /\ \A n : n # name /\ Queued(ticks, n, s) => Queued(Later.ticks, n, s)
           /\ ~Queued(Later.ticks, "readStart", s)
           /\ name = "connect" => ~Queued(Later.ticks, "connect", s)
  <1>1. /\ ctl = << >> /\ ~crashed /\ ticks # << >> /\ Head(ticks) = [name |-> name, s |-> s]
    BY DEF Tick
  <1>2. Base(Later, s) BY <1>1 DEF Base
  <1>3. /\ Later \in State /\ Later.sock = sock /\ Later.tcp = tcp /\ Later.server = server
        /\ Later.crashed = crashed
        /\ \A n, r : Queued(Later.ticks, n, r) => Queued(ticks, n, r)
    BY <1>1, <1>2, BaseState
  <1>4. ticks \in Seq(TickType) BY NowState
  <1>5. Later.ticks = Tail(ticks) BY DEF Later, Now
  <1>6. IndexInv(ticks, s) BY <1>1 DEF NetInv, ConnectInv, ReadStartInv, IndexInv
  <1>7. /\ ~Queued(Tail(ticks), "readStart", s)
        /\ name = "connect" => ~Queued(Tail(ticks), "connect", s)
    BY <1>1, <1>4, <1>6, TailTicks
  <1>8. \A n : n # name /\ Queued(ticks, n, s) => Queued(Tail(ticks), n, s)
    BY <1>1, <1>4, QueuedWithout
  <1>9. Queued(ticks, name, s)
    <2>1. 1 \in DOMAIN ticks /\ ticks[1] = [name |-> name, s |-> s]
      BY <1>1, <1>4, HeadTailProperties
    <2> QED BY <2>1 DEF Queued
  <1> QED BY <1>1, <1>2, <1>3, <1>5, <1>7, <1>8, <1>9

LEMMA FinishTickKeeps ==
    ASSUME NetInv, NEW s \in Sockets, FinishTick(s)
    PROVE  NetInv'
  <1> DEFINE k == sock[s]
             t == tcp[s]
             h == [k EXCEPT !.ended = TRUE]
             e == Ended(Later, s)
             u == EmitFinish(Later, s)
  <1>1. Tick("finish", s) /\ Becomes(u) /\ EmitLast /\ UNCHANGED Rest BY DEF FinishTick
  <1>2. /\ Later \in State /\ Base(Later, s) /\ ~crashed /\ ctl = << >>
        /\ Later.sock = sock /\ Later.tcp = tcp /\ Later.crashed = crashed
        /\ Queued(ticks, "finish", s)
        /\ \A n : Queued(Later.ticks, n, s) => Queued(ticks, n, s)
        /\ \A n : n # "finish" /\ Queued(ticks, n, s) => Queued(Later.ticks, n, s)
        /\ ~Queued(Later.ticks, "readStart", s)
    BY <1>1, LaterState
  <1>3. /\ late \in BOOLEAN /\ k \in SocketType /\ t \in Handle
        /\ HandleInv(k, t) /\ StreamInv(k, t) /\ FlowInv(k, t, ticks, s, late, crashed)
        /\ ConnectInv(s)
    BY <1>2, NowState
  <1>4. k.ending /\ (k.errored \/ late \/ k.chunks = 0) BY <1>2, <1>3 DEF FlowInv
  <1>5. Used(k)
    BY <1>3, <1>4 DEF HandleInv, Used, NewSocket, SocketType
  <1>6. Calm(s) /\ \A then \in Continuations \ {"none"} : ~After(then, s)'
    BY <1>1, <1>2, CalmCallback
  <1>7. Sound(e, s, late)
    <2>1. e = [Later EXCEPT !.sock[s] = h] BY <1>2 DEF Ended
    <2>2. h \in SocketType /\ h.server = k.server BY <1>3 DEF SocketType
    <2> HIDE DEF e, h
    <2>3. e.sock[s] = h /\ e.tcp = tcp /\ e.ticks = Later.ticks /\ e.crashed = crashed
      BY <2>1, <2>2, <1>2, SetSocket
    <2>4. HandleInv(h, t) BY <1>3, <1>5 DEF HandleInv, SocketType, Used, h
    <2>5. StreamInv(h, t) BY <1>3, <1>4 DEF StreamInv, SocketType, h
    <2>6. FlowInv(h, t, e.ticks, s, late, e.crashed)
      BY <1>2, <1>3, <1>4, <2>3 DEF FlowInv, SocketType, h
    <2> QED BY <2>3, <2>4, <2>5, <2>6 DEF Sound, SocketInv
  <1> HIDE DEF u, e
  <1>8. /\ u \in State /\ Sound(u, s, late) /\ Forward(Later, u, s) /\ u.crashed = Later.crashed
        /\ ~Later.sock[s].ended /\ ~Later.sock[s].destroyOnFinish
              /\ Later.sock[s].kind = "client" /\ Later.sock[s].readable
              /\ ~Later.sock[s].eof /\ Later.sock[s].handle =>
                 u.sock[s].handle /\ ~u.sock[s].destroyOnFinish
        /\ Later.sock[s].ended => u = Later
    <2>1. /\ Later \in State /\ late \in BOOLEAN /\ Used(Later.sock[s])
          /\ Sound(Ended(Later, s), s, late) /\ u = EmitFinish(Later, s)
      BY <1>2, <1>3, <1>5, <1>7 DEF u, e
    <2> QED BY ONLY <2>1, EmitFinishKeeps, s \in Sockets
  <1>9. ~hasty' /\ Queued(Later.ticks, "connect", s) =>
              /\ u.sock[s].handle
              /\ ~(u.sock[s].destroyOnFinish /\ Queued(u.ticks, "finish", s))
    <2> SUFFICES ASSUME ~hasty', Queued(Later.ticks, "connect", s)
                 PROVE  u.sock[s].handle /\ ~u.sock[s].destroyOnFinish
      OBVIOUS
    <2>1. ~hasty /\ Queued(ticks, "connect", s) BY <1>1, <1>2 DEF Rest
    <2>2. k.connecting /\ k.handle /\ ~k.destroyOnFinish BY <2>1, <1>2, <1>3 DEF ConnectInv
    <2>3. k.kind = "client" /\ k.readable /\ ~k.eof BY <2>2, <1>3 DEF StreamInv
    <2> QED BY <2>2, <2>3, <1>2, <1>8
  <1>10. late' = late /\ doomed' = doomed BY <1>1 DEF Rest
  <1>11. ~After("lookup", s) /\ ~After("eof", s) BY <1>2 DEF After
  <1> QED BY <1>1, <1>2, <1>6, <1>8, <1>9, <1>10, <1>11, ForwardStep

LEMMA AfterWriteTickKeeps ==
    ASSUME NetInv, NEW s \in Sockets, AfterWriteTick(s)
    PROVE  NetInv'
  <1> DEFINE k == sock[s]
             t == tcp[s]
             u == OnWrite(Later, s)
  <1>1. Tick("afterWrite", s) /\ Becomes(u) /\ EmitLast /\ UNCHANGED Rest
    BY DEF AfterWriteTick
  <1>2. /\ Later \in State /\ Base(Later, s) /\ ~crashed /\ ctl = << >>
        /\ Later.sock = sock /\ Later.tcp = tcp /\ Later.crashed = crashed
        /\ Queued(ticks, "afterWrite", s)
        /\ \A n : Queued(Later.ticks, n, s) => Queued(ticks, n, s)
        /\ ~Queued(Later.ticks, "readStart", s)
    BY <1>1, LaterState
  <1>3. /\ late \in BOOLEAN /\ k \in SocketType /\ t \in Handle
        /\ HandleInv(k, t) /\ StreamInv(k, t) /\ FlowInv(k, t, ticks, s, late, crashed)
        /\ ConnectInv(s)
    BY <1>2, NowState
  <1>4. k.errored /\ k.ready BY <1>2, <1>3 DEF FlowInv, StreamInv
  <1>5. Used(k) BY <1>3, <1>4 DEF HandleInv, Used, NewSocket, SocketType
  <1>6. Calm(s) /\ \A then \in Continuations \ {"none"} : ~After(then, s)'
    BY <1>1, <1>2, CalmCallback
  <1>7. WaitInv(k, t, Later.ticks, s, late, TRUE)
    BY <1>2, <1>3 DEF WaitInv, FlowInv
  <1> HIDE DEF u
  <1>8. /\ u \in State /\ Sound(u, s, late) /\ Forward(Later, u, s)
        /\ u.crashed => Later.crashed \/ late
    <2>1. /\ Later \in State /\ late \in BOOLEAN /\ u = OnWrite(Later, s)
          /\ Written(Later, s, late) /\ Used(Later.sock[s]) /\ Later.sock[s].ready
      BY <1>2, <1>3, <1>4, <1>5, <1>7 DEF u, Written
    <2> QED BY ONLY <2>1, OnWriteKeeps, s \in Sockets
  <1>9. ~Queued(Later.ticks, "connect", s) BY <1>2, <1>3, <1>4 DEF ConnectInv
  <1>10. late' = late /\ doomed' = doomed BY <1>1 DEF Rest
  <1>11. ~After("lookup", s) /\ ~After("eof", s) BY <1>2 DEF After
  <1>12. u.crashed => ~Orderly' BY <1>2, <1>8, <1>10 DEF Orderly
  <1> QED BY <1>1, <1>2, <1>6, <1>8, <1>9, <1>10, <1>11, <1>12, ForwardStep

LEMMA ReadStartTickKeeps ==
    ASSUME NetInv, NEW s \in Sockets, ReadStartTick(s)
    PROVE  NetInv'
  <1> DEFINE k == sock[s]
             t == tcp[s]
             u == IF k.handle THEN [Later EXCEPT !.tcp[s] = ReadStart(@)]
                              ELSE [Later EXCEPT !.crashed = TRUE]
  <1>1. Tick("readStart", s) /\ Becomes(u) /\ UNCHANGED ctl /\ UNCHANGED Rest
    BY DEF ReadStartTick
  <1>2. /\ Later \in State /\ Base(Later, s) /\ ~crashed /\ ctl = << >>
        /\ Later.sock = sock /\ Later.tcp = tcp /\ Later.crashed = crashed
        /\ Queued(ticks, "readStart", s)
        /\ \A n : Queued(Later.ticks, n, s) => Queued(ticks, n, s)
        /\ \A n : n # "readStart" /\ Queued(ticks, n, s) => Queued(Later.ticks, n, s)
        /\ ~Queued(Later.ticks, "readStart", s)
    BY <1>1, LaterState
  <1>3. /\ late \in BOOLEAN /\ k \in SocketType /\ t \in Handle
        /\ HandleInv(k, t) /\ StreamInv(k, t) /\ FlowInv(k, t, ticks, s, late, crashed)
        /\ ConnectInv(s) /\ ReadStartInv(s)
    BY <1>2, NowState
  <1>4. /\ ~k.eof /\ ~k.connecting /\ ~k.errored /\ Used(k)
        /\ ~hasty => k.handle
    BY <1>2, <1>3 DEF ReadStartInv
  <1>5. Calm(s) /\ \A then \in Continuations \ {"none"} : ~After(then, s)'
    BY <1>1, <1>2, CalmCallback
  <1>6. FlowInv(k, t, Later.ticks, s, late, crashed) BY <1>2, <1>3 DEF FlowInv
  <1>7. /\ u \in State /\ Sound(u, s, late) /\ Forward(Later, u, s)
        /\ u.crashed => hasty
    <2>1. CASE k.handle
      <3> DEFINE v == ReadStart(t)
      <3>1. u = [Later EXCEPT !.tcp[s] = v] BY <2>1, <1>2
      <3>2. v \in Handle BY <1>3 DEF Handle, ReadStart
      <3>3. /\ v.uv = t.uv /\ v.conn = t.conn /\ v.reqs = t.reqs
        BY <1>3 DEF Handle, ReadStart
      <3> HIDE DEF u, v
      <3>4. /\ Local(Later, u, s) /\ u \in State /\ u.tcp[s] = v /\ u.sock = sock
            /\ u.ticks = Later.ticks /\ u.crashed = crashed
        <4>1. /\ Local(Later, u, s) /\ u \in State /\ u.tcp[s] = v /\ u.sock = Later.sock
              /\ u.ticks = Later.ticks /\ u.crashed = Later.crashed
          BY <3>1, <3>2, <1>2, SetHandle
        <4> QED BY <4>1, <1>2
      <3>5. HandleInv(k, v) BY <1>3, <1>4, <2>1, <3>3 DEF HandleInv, Used
      <3>6. StreamInv(k, v) BY <1>3, <1>4, <3>3 DEF StreamInv
      <3>7. FlowInv(k, v, u.ticks, s, late, u.crashed) BY <1>6, <3>3, <3>4 DEF FlowInv
      <3>8. Sound(u, s, late) BY <3>4, <3>5, <3>6, <3>7 DEF Sound, SocketInv
      <3>9. Forward(Later, u, s) BY <3>3, <3>4, <1>2 DEF Forward
      <3> QED BY <3>4, <3>8, <3>9, <1>2
    <2>2. CASE ~k.handle
      <3>1. u = [Later EXCEPT !.crashed = TRUE] BY <2>2
      <3> HIDE DEF u
      <3>2. /\ u \in State /\ u.sock = sock /\ u.tcp = tcp /\ u.ticks = Later.ticks
            /\ u.server = Later.server /\ u.crashed = TRUE
        BY <3>1, <1>2 DEF State
      <3>3. Local(Later, Later, s) BY <1>2, LocalSelf
      <3>4. Local(Later, u, s) BY <3>2, <3>3, <1>2 DEF Local
      <3>5. FlowInv(k, t, u.ticks, s, late, u.crashed) BY <1>6, <3>2 DEF FlowInv
      <3>6. Sound(u, s, late) BY <3>2, <3>5, <1>3 DEF Sound, SocketInv
      <3>7. Forward(Later, u, s) BY <3>2, <3>4, <1>2 DEF Forward
      <3> QED BY <3>2, <3>6, <3>7, <1>4, <2>2
    <2> QED BY <2>1, <2>2
  <1> HIDE DEF u
  <1>8. ~Queued(Later.ticks, "connect", s) BY <1>2, <1>3, <1>4 DEF ConnectInv
  <1>9. late' = late /\ doomed' = doomed /\ hasty' = hasty BY <1>1 DEF Rest
  <1>10. ~After("lookup", s) /\ ~After("eof", s) BY <1>2 DEF After
  <1>11. u.crashed => ~Orderly' BY <1>7, <1>9 DEF Orderly
  <1> QED BY <1>1, <1>2, <1>5, <1>7, <1>8, <1>9, <1>10, <1>11, ForwardStep

LEMMA IdleState ==
    ASSUME Idle
    PROVE  /\ ctl = << >> /\ ticks = << >> /\ ~crashed
           /\ \A n, r : ~Queued(ticks, n, r)
           /\ \A then, r : ~After(then, r)
  BY DEF Idle, Queued, After

LEMMA AfterWriteKeeps ==
    ASSUME NetInv, NEW s \in Sockets, AfterWrite(s)
    PROVE  NetInv'
  <1> DEFINE k == sock[s]
             t == tcp[s]
             v == WriteReqDispatched(t)
             e == [Now EXCEPT !.tcp[s] = WriteReqDispatched(@)]
             u == OnWrite(e, s)
  <1>1. /\ Idle /\ "write" \in t.reqs /\ Becomes(u) /\ EmitLast /\ UNCHANGED Rest
    BY DEF AfterWrite
  <1>2. /\ ctl = << >> /\ ticks = << >> /\ ~crashed /\ (\A n, r : ~Queued(ticks, n, r))
        /\ \A then, r : ~After(then, r)
    BY <1>1, IdleState
  <1>3. /\ Now \in State /\ Base(Now, s) /\ late \in BOOLEAN
        /\ Now.sock = sock /\ Now.tcp = tcp /\ Now.ticks = ticks /\ Now.crashed = crashed
        /\ k \in SocketType /\ t \in Handle
        /\ HandleInv(k, t) /\ StreamInv(k, t) /\ FlowInv(k, t, ticks, s, late, crashed)
    BY NowState
  <1>4. e = [Now EXCEPT !.tcp[s] = v] BY <1>3
  <1>5. v \in Handle BY <1>3 DEF Handle, WriteReqDispatched, Requests
  <1>6. /\ v.uv = t.uv /\ v.conn = t.conn /\ v.reading = t.reading
        /\ "connect" \in v.reqs <=> "connect" \in t.reqs
        /\ "write" \notin v.reqs /\ (t.reqs = {} => v.reqs = {})
    BY <1>3 DEF Handle, WriteReqDispatched
  <1> HIDE DEF e, u, v
  <1>7. /\ Local(Now, e, s) /\ e \in State /\ e.tcp[s] = v /\ e.sock = sock
        /\ e.ticks = ticks /\ e.crashed = crashed
    <2>1. /\ Local(Now, e, s) /\ e \in State /\ e.tcp[s] = v /\ e.sock = Now.sock
          /\ e.ticks = Now.ticks /\ e.crashed = Now.crashed
      BY <1>3, <1>4, <1>5, SetHandle
    <2> QED BY <2>1, <1>3
  <1>8. k.ready BY <1>1, <1>3 DEF StreamInv
  <1>9. Used(k) BY <1>3, <1>8 DEF HandleInv, Used, NewSocket, SocketType
  <1>10. Written(e, s, late)
    <2>1. HandleInv(k, v) BY <1>3, <1>6, <1>9 DEF HandleInv, Used
    <2>2. StreamInv(k, v) BY <1>3, <1>6 DEF StreamInv
    <2>3. WaitInv(k, v, ticks, s, late, TRUE) BY <1>3 DEF WaitInv, FlowInv
    <2> QED BY <2>1, <2>2, <2>3, <1>7 DEF Written
  <1>11. /\ u \in State /\ Sound(u, s, late) /\ Forward(e, u, s)
         /\ u.crashed => e.crashed \/ late
    <2>1. /\ e \in State /\ late \in BOOLEAN /\ u = OnWrite(e, s)
          /\ Written(e, s, late) /\ Used(e.sock[s]) /\ e.sock[s].ready
      BY <1>3, <1>7, <1>8, <1>9, <1>10 DEF u
    <2> QED BY ONLY <2>1, OnWriteKeeps, s \in Sockets
  <1>12. Forward(Now, e, s) BY <1>3, <1>6, <1>7 DEF Forward
  <1>13. Forward(Now, u, s) BY <1>3, <1>7, <1>11, <1>12, ForwardTrans
  <1>14. Calm(s) /\ \A then \in Continuations \ {"none"} : ~After(then, s)'
    BY <1>1, <1>2, CalmCallback
  <1>15. late' = late /\ doomed' = doomed BY <1>1 DEF Rest
  <1>16. u.crashed => ~Orderly' BY <1>2, <1>7, <1>11, <1>15 DEF Orderly
  <1> QED BY <1>1, <1>2, <1>3, <1>11, <1>13, <1>14, <1>15, <1>16, ForwardStep

LEMMA AfterShutdownKeeps ==
    ASSUME NetInv, NEW s \in Sockets, AfterShutdown(s)
    PROVE  NetInv'
  <1> DEFINE k == sock[s]
             t == tcp[s]
             v == ShutdownReqDispatched(t)
             e == [Now EXCEPT !.tcp[s] = ShutdownReqDispatched(@)]
             u == IF k.eof THEN SocketDestroy(e, s) ELSE e
  <1>1. /\ Idle /\ "shutdown" \in t.reqs /\ Becomes(u) /\ UNCHANGED ctl /\ UNCHANGED Rest
    BY DEF AfterShutdown
  <1>2. /\ ctl = << >> /\ ticks = << >> /\ ~crashed /\ (\A n, r : ~Queued(ticks, n, r))
        /\ \A then, r : ~After(then, r)
    BY <1>1, IdleState
  <1>3. /\ Now \in State /\ Base(Now, s) /\ late \in BOOLEAN
        /\ Now.sock = sock /\ Now.tcp = tcp /\ Now.ticks = ticks /\ Now.crashed = crashed
        /\ k \in SocketType /\ t \in Handle
        /\ HandleInv(k, t) /\ StreamInv(k, t) /\ FlowInv(k, t, ticks, s, late, crashed)
    BY NowState
  <1>4. e = [Now EXCEPT !.tcp[s] = v] BY <1>3
  <1>5. v \in Handle BY <1>3 DEF Handle, ShutdownReqDispatched, Requests
  <1>6. /\ v.uv = t.uv /\ v.conn = t.conn /\ v.reading = t.reading
        /\ "connect" \in v.reqs <=> "connect" \in t.reqs
        /\ "write" \in v.reqs <=> "write" \in t.reqs
        /\ (t.reqs = {} => v.reqs = {})
    BY <1>3 DEF Handle, ShutdownReqDispatched
  <1> HIDE DEF e, u, v
  <1>7. /\ Local(Now, e, s) /\ e \in State /\ e.tcp[s] = v /\ e.sock = sock
        /\ e.ticks = ticks /\ e.crashed = crashed
    <2>1. /\ Local(Now, e, s) /\ e \in State /\ e.tcp[s] = v /\ e.sock = Now.sock
          /\ e.ticks = Now.ticks /\ e.crashed = Now.crashed
      BY <1>3, <1>4, <1>5, SetHandle
    <2> QED BY <2>1, <1>3
  <1>8. Used(k) BY <1>1, <1>3 DEF HandleInv, Used, NoHandle, TcpCreate, SocketType
  <1>9. Sound(e, s, late)
    <2>1. HandleInv(k, v) BY <1>3, <1>6, <1>8 DEF HandleInv, Used
    <2>2. StreamInv(k, v) BY <1>3, <1>6 DEF StreamInv
    <2>3. FlowInv(k, v, ticks, s, late, crashed) BY <1>3, <1>6 DEF FlowInv
    <2> QED BY <2>1, <2>2, <2>3, <1>7 DEF Sound, SocketInv
  <1>10. Forward(Now, e, s) BY <1>3, <1>6, <1>7 DEF Forward
  <1>11. /\ u \in State /\ Sound(u, s, late) /\ Forward(Now, u, s) /\ u.crashed = crashed
    <2>1. CASE ~k.eof
      <3>1. u = e BY <2>1 DEF u
      <3> QED BY <3>1, <1>7, <1>9, <1>10
    <2>2. CASE k.eof
      <3>1. /\ u = SocketDestroy(e, s) /\ e \in State /\ late \in BOOLEAN
            /\ Sound(e, s, late) /\ Used(e.sock[s])
        BY <2>2, <1>3, <1>7, <1>8, <1>9 DEF u
      <3>2. u \in State /\ Sound(u, s, late) /\ Forward(e, u, s) /\ u.crashed = e.crashed
        BY ONLY <3>1, SocketDestroyKeeps, s \in Sockets
      <3>3. Forward(Now, u, s) BY <3>2, <1>3, <1>7, <1>10, ForwardTrans
      <3> QED BY <3>2, <3>3, <1>7
    <2> QED BY <2>1, <2>2
  <1>12. Calm(s) /\ \A then \in Continuations \ {"none"} : ~After(then, s)'
    BY <1>1, <1>2, CalmCallback
  <1>13. late' = late /\ doomed' = doomed BY <1>1 DEF Rest
  <1> QED BY <1>1, <1>2, <1>3, <1>11, <1>12, <1>13, ForwardStep

LEMMA AfterReadErrorKeeps ==
    ASSUME NetInv, ~crashed, NEW s \in Sockets, After("readError", s), AfterReadError(s),
           UNCHANGED Rest
    PROVE  NetInv'
  <1> DEFINE k == sock[s]
             u == SocketDestroy(Now, s)
  <1>1. Becomes(u) /\ ctl' = << >> BY DEF AfterReadError
  <1>2. /\ Now \in State /\ Base(Now, s) /\ Sound(Now, s, late) /\ late \in BOOLEAN
        /\ Now.sock = sock /\ Now.ticks = ticks /\ Now.crashed = crashed
        /\ ConnectInv(s) /\ ReadStartInv(s) /\ DestroyInv(s)
    BY NowState
  <1>3. /\ ~After("lookup", s) /\ ~After("eof", s) /\ ~After("none", Server) /\ ctl # << >>
    BY AfterUnique
  <1>4. Used(k) /\ ~k.connecting BY <1>2 DEF DestroyInv
  <1>5. ~Queued(ticks, "connect", s) /\ ~Queued(ticks, "readStart", s)
    BY <1>2, <1>3, <1>4 DEF ConnectInv, ReadStartInv
  <1> HIDE DEF u
  <1>6. /\ u \in State /\ Sound(u, s, late) /\ Forward(Now, u, s) /\ u.crashed = Now.crashed
    <2>1. /\ Now \in State /\ Sound(Now, s, late) /\ late \in BOOLEAN /\ Used(Now.sock[s])
          /\ u = SocketDestroy(Now, s)
      BY <1>2, <1>4 DEF u
    <2> QED BY ONLY <2>1, SocketDestroyKeeps, s \in Sockets
  <1>7. Calm(s) /\ \A then \in Continuations \ {"none"} : ~After(then, s)'
    BY <1>1, CalmCallback
  <1>8. late' = late /\ doomed' = doomed BY DEF Rest
  <1> QED BY <1>1, <1>2, <1>3, <1>5, <1>6, <1>7, <1>8, ForwardStep

LEMMA AfterEofKeeps ==
    ASSUME NetInv, ~crashed, NEW s \in Sockets, After("eof", s), AfterEof(s), UNCHANGED Rest
    PROVE  NetInv'
  <1> DEFINE k == sock[s]
             t == tcp[s]
             h == [k EXCEPT !.readable = FALSE]
             e == [Now EXCEPT !.sock[s].readable = FALSE]
             u == MaybeDestroy(e, s)
  <1>1. Becomes(u) /\ ctl' = << >> BY DEF AfterEof
  <1>2. /\ Now \in State /\ Base(Now, s) /\ late \in BOOLEAN
        /\ Now.sock = sock /\ Now.tcp = tcp /\ Now.ticks = ticks /\ Now.crashed = crashed
        /\ k \in SocketType /\ t \in Handle
        /\ HandleInv(k, t) /\ StreamInv(k, t) /\ FlowInv(k, t, ticks, s, late, crashed)
        /\ ConnectInv(s) /\ ReadStartInv(s) /\ DestroyInv(s)
    BY NowState
  <1>3. ~After("lookup", s) /\ ~After("none", Server) /\ ctl # << >> BY AfterUnique
  <1>4. Used(k) /\ ~k.connecting /\ ~k.errored /\ k.eof BY <1>2 DEF DestroyInv
  <1>5. ~Queued(ticks, "connect", s) /\ ~Queued(ticks, "readStart", s)
    BY <1>2, <1>3, <1>4 DEF ConnectInv, ReadStartInv
  <1>6. e = [Now EXCEPT !.sock[s] = h] BY <1>2
  <1>7. h \in SocketType /\ h.server = k.server BY <1>2 DEF SocketType
  <1> HIDE DEF e, h, u
  <1>8. /\ Local(Now, e, s) /\ e \in State /\ e.sock[s] = h /\ e.tcp = tcp /\ e.ticks = ticks
        /\ e.crashed = crashed
    <2>1. /\ Local(Now, e, s) /\ e \in State /\ e.sock[s] = h /\ e.tcp = Now.tcp
          /\ e.ticks = Now.ticks /\ e.crashed = Now.crashed
      BY <1>2, <1>6, <1>7, SetSocket
    <2> QED BY <2>1, <1>2
  <1>9. Sound(e, s, late)
    <2>1. HandleInv(h, t) BY <1>2, <1>4 DEF HandleInv, SocketType, Used, h
    <2>2. StreamInv(h, t) BY <1>2, <1>4 DEF StreamInv, SocketType, h
    <2>3. FlowInv(h, t, ticks, s, late, crashed) BY <1>2 DEF FlowInv, SocketType, h
    <2> QED BY <2>1, <2>2, <2>3, <1>8 DEF Sound, SocketInv
  <1>10. Forward(Now, e, s) BY <1>2, <1>8 DEF Forward, SocketType, h
  <1>11. /\ h.ended = k.ended /\ h.ending = k.ending /\ h.writable = k.writable
         /\ h.handle = k.handle /\ h.destroyed = k.destroyed /\ ~h.readable
         /\ h.connecting = k.connecting /\ Used(h)
    BY <1>2, <1>4 DEF SocketType, h, Used
  <1>12. /\ u \in State /\ Sound(u, s, late) /\ Forward(Now, u, s) /\ u.crashed = crashed
         /\ ~(u.sock[s].ended /\ u.sock[s].handle)
    <2>1. CASE k.writable \/ k.destroyed
      <3>1. u = e BY <2>1, <1>8, <1>11 DEF u, MaybeDestroy
      <3>2. ~(k.ended /\ k.handle) BY <2>1, <1>2, <1>4 DEF HandleInv, StreamInv
      <3> QED BY <3>1, <3>2, <1>8, <1>9, <1>10, <1>11
    <2>2. CASE ~k.writable /\ ~k.destroyed
      <3>1. u = DestroyNow(e, s) BY <2>2, <1>4, <1>8, <1>11 DEF u, MaybeDestroy
      <3>2. /\ e \in State /\ late \in BOOLEAN /\ Sound(e, s, late)
            /\ Used(e.sock[s]) /\ e.sock[s].ending /\ ~e.sock[s].writable
        BY <2>2, <1>2, <1>8, <1>9, <1>11 DEF StreamInv
      <3>3. /\ u \in State /\ Sound(u, s, late) /\ Forward(e, u, s) /\ u.crashed = e.crashed
            /\ u.sock[s].handle <=> e.sock[s].handle /\ ~e.sock[s].ended
            /\ u.sock[s].ended = e.sock[s].ended
        BY ONLY <3>1, <3>2, DestroyNowKeeps, s \in Sockets
      <3>4. Forward(Now, u, s) BY <3>3, <1>2, <1>8, <1>10, ForwardTrans
      <3> QED BY <3>3, <3>4, <1>8
    <2> QED BY <2>1, <2>2
  <1>13. Calm(s) /\ \A then \in Continuations \ {"none"} : ~After(then, s)'
    BY <1>1, CalmCallback
  <1>14. late' = late /\ doomed' = doomed BY DEF Rest
  <1> QED BY <1>1, <1>2, <1>3, <1>5, <1>12, <1>13, <1>14, ForwardStep

-----------------------------------------------------------------------------
(* The steps that connect and accept *)

\* A step after which no tick and no event will use the handle
LEMMA QuietStep ==
    ASSUME NetInv, ~crashed, NEW s \in Sockets, NEW st, NEW v \in State,
           Base(st, s), Local(st, v, s), Becomes(v), Calm(s), Sound(v, s, late'),
           v.tcp[s].uv = "closed" <=> tcp[s].uv = "closed",
           v.crashed => ~Orderly',
           \A then \in Continuations \ {"none"} : ~After(then, s)',
           ~Queued(st.ticks, "connect", s), ~Queued(st.ticks, "readStart", s),
           ~(v.sock[s].destroyOnFinish /\ v.sock[s].ended /\ v.sock[s].handle),
           s \in doomed' => v.sock[s].destroyed \/ v.sock[s].destroyOnFinish
    PROVE  NetInv'
  <1>1. st \in State /\ IndexInv(st.ticks, s) BY BaseState
  <1>2. /\ ~Queued(v.ticks, "connect", s) /\ ~Queued(v.ticks, "readStart", s)
        /\ IndexInv(v.ticks, s)
    BY <1>1, LocalTicks
  <1>3. sock' = v.sock /\ ticks' = v.ticks BY DEF Becomes
  <1>4. ~After("lookup", s)' /\ ~After("lookupFailed", s)' /\ ~After("eof", s)'
        /\ ~After("readError", s)' /\ ~Answered(s)'
    <2>1. /\ "lookup" \in Continuations \ {"none"} /\ "lookupFailed" \in Continuations \ {"none"}
          /\ "eof" \in Continuations \ {"none"} /\ "readError" \in Continuations \ {"none"}
      BY DEF Continuations
    <2> QED BY <2>1 DEF Answered
  <1>5. ConnectInv(s)' BY <1>2, <1>3, <1>4 DEF ConnectInv, IndexInv
  <1>6. ReadStartInv(s)' BY <1>2, <1>3 DEF ReadStartInv, IndexInv
  <1>7. DestroyInv(s)' BY <1>3, <1>4 DEF DestroyInv
  <1>8. Plus(v, v, s) BY DEF Plus
  <1> QED BY <1>5, <1>6, <1>7, <1>8, StepKeeps

\* emitError before 'error', on a socket that never became ready
Failing(st, s) ==
    /\ Used(st.sock[s]) /\ ~st.sock[s].ready /\ ~st.sock[s].eof /\ ~st.sock[s].lookup
    /\ ~st.tcp[s].reading /\ "connect" \notin st.tcp[s].reqs /\ ~st.crashed

LEMMA EmitErrorKeeps ==
    ASSUME NEW st \in State, NEW s \in Sockets, NEW l \in BOOLEAN, Sound(st, s, l),
           Failing(st, s)
    PROVE  LET u == EmitError(st, s)
               k == st.sock[s]
               j == u.sock[s]
           IN  /\ u \in State /\ Sound(u, s, l) /\ Local(st, u, s)
               /\ u.crashed => l
               /\ k.destroyed => j.destroyed
               /\ k.destroyOnFinish => j.destroyOnFinish
               /\ j.handle => k.handle
               /\ u.tcp[s].uv = "closed" <=> st.tcp[s].uv = "closed"
               /\ j.destroyOnFinish /\ j.ended /\ j.handle => k.destroyOnFinish /\ k.ended
  <1> DEFINE k == st.sock[s]
             t == st.tcp[s]
             h1 == [k EXCEPT !.errored = TRUE]
             h2 == [h1 EXCEPT !.chunks = IF k.ended THEN @ ELSE @ + 1]
             h3 == [h2 EXCEPT !.ending = TRUE]
             h4 == [h3 EXCEPT !.destroyOnFinish = k.ending => @]
             e == [st EXCEPT !.sock[s].errored = TRUE]
             w == IF k.ended THEN e ELSE WriteChunk(e, s)
             m == WritableEnd(w, s)
             n == IF k.ending THEN w ELSE [m EXCEPT !.sock[s].destroyOnFinish = TRUE]
             f == Ready(n, s)
             h == [h4 EXCEPT !.ready = TRUE]
             u == EmitError(st, s)
  <1>1. k \in SocketType /\ t \in Handle BY DEF State
  <1>2. /\ HandleInv(k, t) /\ StreamInv(k, t) /\ FlowInv(k, t, st.ticks, s, l, st.crashed)
        /\ Used(k) /\ ~k.ready /\ ~k.eof /\ ~k.lookup
        /\ ~t.reading /\ "connect" \notin t.reqs /\ ~st.crashed
    BY DEF Sound, SocketInv, Failing
  <1>3. ~k.errored /\ ~k.writing BY <1>2 DEF StreamInv, FlowInv
  <1>4. /\ h1 \in SocketType /\ h2 \in SocketType /\ h3 \in SocketType /\ h4 \in SocketType
        /\ h \in SocketType
        /\ h1.server = k.server /\ h2.server = k.server /\ h3.server = k.server
        /\ h4.server = k.server /\ h.server = k.server
    <2>1. h1 \in SocketType /\ h1.server = k.server BY <1>1 DEF SocketType
    <2> HIDE DEF h1
    <2>2. h2 \in SocketType /\ h2.server = k.server
      <3>1. (IF k.ended THEN h1.chunks ELSE h1.chunks + 1) \in Nat BY <2>1 DEF SocketType
      <3> QED BY <2>1, <3>1 DEF SocketType
    <2> HIDE DEF h2
    <2>3. h3 \in SocketType /\ h3.server = k.server BY <2>2 DEF SocketType
    <2> HIDE DEF h3
    <2>4. h4 \in SocketType /\ h4.server = k.server BY <2>3, <1>1 DEF SocketType
    <2> HIDE DEF h4
    <2>5. h \in SocketType /\ h.server = k.server BY <2>4 DEF SocketType
    <2> QED BY <2>1, <2>2, <2>3, <2>4, <2>5
  <1>5. u = ReadyToWrite(n, s) BY DEF EmitError
  <1>6. e = [st EXCEPT !.sock[s] = h1] OBVIOUS
  <1>7. h2.ending = k.ending /\ h2.chunks = (IF k.ended THEN k.chunks ELSE k.chunks + 1)
        /\ h1.chunks = k.chunks /\ h1.ready = k.ready /\ h2.writing = k.writing
        /\ (k.ended => h2 = h1) /\ (k.ending => h3 = h2) /\ (k.ending => h4 = h3)
        /\ (k.ended => k.ending)
    BY <1>1, <1>2 DEF SocketType, StreamInv
  <1>8. /\ h.kind = k.kind /\ h.errored /\ h.ready /\ h.ending /\ h.ended = k.ended
        /\ h.handle = k.handle /\ h.destroyed = k.destroyed /\ h.connecting = k.connecting
        /\ h.writing = k.writing /\ h.lookup = k.lookup /\ h.eof = k.eof
        /\ h.readable = k.readable /\ h.writable = k.writable
        /\ (h.destroyOnFinish <=> (k.ending => k.destroyOnFinish))
    BY <1>1 DEF SocketType
  <1> DEFINE Is(x, g) == /\ Local(st, x, s) /\ x \in State /\ x.sock[s] = g
                         /\ x.tcp = st.tcp /\ x.ticks = st.ticks /\ x.crashed = st.crashed
  <1> HIDE DEF h1, e
  <1>9. Is(e, h1) BY <1>4, <1>6, SetSocket
  <1>10. Is(w, h2)
    <2>1. CASE k.ended BY <2>1, <1>7, <1>9
    <2>2. CASE ~k.ended
      <3>1. w = [e EXCEPT !.sock[s].chunks = @ + 1]
        BY <2>2, <1>2, <1>7, <1>9 DEF WriteChunk
      <3>2. h2 = [h1 EXCEPT !.chunks = @ + 1] BY <2>2
      <3>3. w = [e EXCEPT !.sock[s] = h2] BY <3>1, <3>2, <1>9
      <3> HIDE DEF w, h2
      <3>4. h2.server = e.sock[s].server /\ e \in State /\ h2 \in SocketType BY <1>4, <1>9
      <3>5. /\ Local(e, w, s) /\ w \in State /\ w.sock[s] = h2 /\ w.tcp = e.tcp
            /\ w.ticks = e.ticks /\ w.crashed = e.crashed
        BY ONLY <3>3, <3>4, SetSocket, s \in Sockets
      <3>6. Local(st, w, s) BY <3>5, <1>9, LocalTrans
      <3> QED BY <3>5, <3>6, <1>9
    <2> QED BY <2>1, <2>2
  <1> HIDE DEF w, h2
  <1>11. ~k.ending => Is(m, h3)
    <2> SUFFICES ASSUME ~k.ending PROVE Is(m, h3) OBVIOUS
    <2>1. m = [w EXCEPT !.sock[s].ending = TRUE]
      BY <1>1, <1>7, <1>10 DEF WritableEnd, SocketType
    <2>2. m = [w EXCEPT !.sock[s] = h3] BY <2>1, <1>10
    <2> HIDE DEF m, h3
    <2>3. h3.server = w.sock[s].server /\ w \in State /\ h3 \in SocketType BY <1>4, <1>10
    <2>4. /\ Local(w, m, s) /\ m \in State /\ m.sock[s] = h3 /\ m.tcp = w.tcp
          /\ m.ticks = w.ticks /\ m.crashed = w.crashed
      BY ONLY <2>2, <2>3, SetSocket, s \in Sockets
    <2>5. Local(st, m, s) BY <2>4, <1>10, LocalTrans
    <2> QED BY <2>4, <2>5, <1>10
  <1> HIDE DEF m
  <1>12. Is(n, h4)
    <2>1. CASE k.ending BY <2>1, <1>7, <1>10
    <2>2. CASE ~k.ending
      <3>1. n = [m EXCEPT !.sock[s] = [h3 EXCEPT !.destroyOnFinish = TRUE]]
        BY <2>2, <1>11
      <3>2. h4 = [h3 EXCEPT !.destroyOnFinish = TRUE] BY <2>2
      <3> HIDE DEF n, h4, h3
      <3>3. /\ h4.server = m.sock[s].server /\ m \in State /\ h4 \in SocketType
            /\ n = [m EXCEPT !.sock[s] = h4]
        BY <3>1, <3>2, <2>2, <1>4, <1>11
      <3>4. /\ Local(m, n, s) /\ n \in State /\ n.sock[s] = h4 /\ n.tcp = m.tcp
            /\ n.ticks = m.ticks /\ n.crashed = m.crashed
        BY ONLY <3>3, SetSocket, s \in Sockets
      <3>5. Local(st, n, s) BY <3>4, <2>2, <1>11, LocalTrans
      <3> QED BY <3>4, <3>5, <2>2, <1>11
    <2> QED BY <2>1, <2>2
  <1> HIDE DEF n, h4, h3
  <1>13. Is(f, h)
    <2>1. f = [n EXCEPT !.sock[s] = h] BY <1>12 DEF Ready
    <2> HIDE DEF f, h
    <2>2. h.server = n.sock[s].server /\ n \in State /\ h \in SocketType BY <1>4, <1>12
    <2>3. /\ Local(n, f, s) /\ f \in State /\ f.sock[s] = h /\ f.tcp = n.tcp
          /\ f.ticks = n.ticks /\ f.crashed = n.crashed
      BY ONLY <2>1, <2>2, SetSocket, s \in Sockets
    <2>4. Local(st, f, s) BY <2>3, <1>12, LocalTrans
    <2> QED BY <2>3, <2>4, <1>12
  <1> HIDE DEF h
  <1>14. Loose(f, s, l)
    <2>1. HandleInv(h, t) BY <1>2, <1>4, <1>8 DEF HandleInv, Used
    <2>2. StreamInv(h, t) BY <1>2, <1>7, <1>8 DEF StreamInv
    <2>3. WaitInv(h, t, st.ticks, s, l, st.crashed) BY <1>2, <1>3, <1>8 DEF WaitInv, FlowInv
    <2> QED BY <2>1, <2>2, <2>3, <1>13 DEF Loose
  <1>15. h4.handle = k.handle /\ h4.kind = k.kind /\ h4.destroyed = k.destroyed
         /\ h4.ended = k.ended
         /\ (h4.destroyOnFinish <=> (k.ending => k.destroyOnFinish))
    BY <1>1 DEF SocketType, h4, h3, h2, h1
  <1>16. u \in State /\ Sound(u, s, l) /\ Forward(n, u, s) /\ (u.crashed => n.crashed \/ l)
    <2>1. n \in State /\ l \in BOOLEAN /\ Loose(Ready(n, s), s, l) /\ Used(n.sock[s])
      BY <1>2, <1>12, <1>14, <1>15 DEF Used
    <2>2. u = ReadyToWrite(n, s) BY <1>5
    <2> HIDE DEF u
    <2> QED BY ONLY <2>1, <2>2, ReadyToWriteKeeps, s \in Sockets
  <1> HIDE DEF u
  <1>17. Local(st, u, s) BY <1>12, <1>16, LocalTrans DEF Forward
  <1>18. /\ u.crashed => l
         /\ k.destroyed => u.sock[s].destroyed
         /\ k.destroyOnFinish => u.sock[s].destroyOnFinish
         /\ u.sock[s].handle => k.handle
         /\ u.tcp[s].uv = "closed" <=> st.tcp[s].uv = "closed"
         /\ u.sock[s].destroyOnFinish /\ u.sock[s].ended /\ u.sock[s].handle =>
               k.destroyOnFinish /\ k.ended
    BY <1>2, <1>7, <1>12, <1>15, <1>16 DEF Forward
  <1> QED BY <1>16, <1>17, <1>18 DEF u

LEMMA AfterLookupFailedKeeps ==
    ASSUME NetInv, ~crashed, NEW s \in Sockets, After("lookupFailed", s), AfterLookupFailed(s),
           UNCHANGED Rest
    PROVE  NetInv'
  <1> DEFINE k == sock[s]
             t == tcp[s]
             u == EmitError(Now, s)
  <1>1. Becomes(u) /\ EmitLast BY DEF AfterLookupFailed
  <1>2. /\ Now \in State /\ Base(Now, s) /\ Sound(Now, s, late) /\ late \in BOOLEAN
        /\ Now.sock = sock /\ Now.tcp = tcp /\ Now.ticks = ticks /\ Now.crashed = crashed
        /\ HandleInv(k, t) /\ StreamInv(k, t)
        /\ ConnectInv(s) /\ ReadStartInv(s) /\ DestroyInv(s)
    BY NowState
  <1>3. ~After("none", Server) /\ ~After("eof", s) /\ ctl # << >> BY AfterUnique
  <1>4. /\ k.connecting /\ ~k.ready /\ ~k.lookup /\ "connect" \notin t.reqs
        /\ ~Queued(ticks, "connect", s) /\ ~Queued(ticks, "readStart", s)
    BY <1>2, <1>3 DEF ConnectInv, ReadStartInv, Answered
  <1>5. Failing(Now, s) BY <1>2, <1>4 DEF Failing, StreamInv, Used
  <1> HIDE DEF u
  <1>6. /\ u \in State /\ Sound(u, s, late) /\ Local(Now, u, s) /\ (u.crashed => late)
        /\ Now.sock[s].destroyed => u.sock[s].destroyed
        /\ Now.sock[s].destroyOnFinish => u.sock[s].destroyOnFinish
        /\ u.sock[s].handle => Now.sock[s].handle
        /\ u.tcp[s].uv = "closed" <=> Now.tcp[s].uv = "closed"
        /\ u.sock[s].destroyOnFinish /\ u.sock[s].ended /\ u.sock[s].handle =>
              Now.sock[s].destroyOnFinish /\ Now.sock[s].ended
    <2>1. /\ Now \in State /\ Sound(Now, s, late) /\ late \in BOOLEAN /\ Failing(Now, s)
          /\ u = EmitError(Now, s)
      BY <1>2, <1>5 DEF u
    <2> QED BY ONLY <2>1, EmitErrorKeeps, s \in Sockets
  <1>7. Calm(s) /\ \A then \in Continuations \ {"none"} : ~After(then, s)'
    BY <1>1, CalmCallback
  <1>8. late' = late /\ doomed' = doomed BY DEF Rest
  <1>9. ~(u.sock[s].destroyOnFinish /\ u.sock[s].ended /\ u.sock[s].handle)
    BY <1>2, <1>3, <1>6 DEF DestroyInv
  <1>10. s \in doomed' => u.sock[s].destroyed \/ u.sock[s].destroyOnFinish
    BY <1>2, <1>6, <1>8 DEF DestroyInv
  <1>11. u.crashed => ~Orderly' BY <1>6, <1>8 DEF Orderly
  <1>12. u.tcp[s].uv = "closed" <=> tcp[s].uv = "closed" BY <1>2, <1>6
  <1> QED BY <1>1, <1>2, <1>4, <1>6, <1>7, <1>8, <1>9, <1>10, <1>11, <1>12, QuietStep

LEMMA ConnectTickKeeps ==
    ASSUME NetInv, NEW s \in Sockets, NEW ok \in BOOLEAN, ConnectTick(s, ok)
    PROVE  NetInv'
  <1> DEFINE k == sock[s]
             t == tcp[s]
             e == [Later EXCEPT !.tcp[s] = TcpConnect(@, ok)]
             v == TcpConnect(t, ok)
  <1>1. Tick("connect", s) /\ UNCHANGED Rest BY DEF ConnectTick
  <1>2. /\ Later \in State /\ Base(Later, s) /\ ~crashed /\ ctl = << >>
        /\ Later.sock = sock /\ Later.tcp = tcp /\ Later.crashed = crashed
        /\ Queued(ticks, "connect", s)
        /\ \A n : Queued(Later.ticks, n, s) => Queued(ticks, n, s)
        /\ \A n : n # "connect" /\ Queued(ticks, n, s) => Queued(Later.ticks, n, s)
        /\ ~Queued(Later.ticks, "readStart", s) /\ ~Queued(Later.ticks, "connect", s)
    BY <1>1, LaterState
  <1>3. /\ late \in BOOLEAN /\ k \in SocketType /\ t \in Handle
        /\ HandleInv(k, t) /\ StreamInv(k, t) /\ FlowInv(k, t, ticks, s, late, crashed)
        /\ ConnectInv(s) /\ DestroyInv(s)
    BY <1>2, NowState
  <1>4. /\ k.connecting /\ ~k.ready /\ ~k.lookup /\ "connect" \notin t.reqs
        /\ ~hasty => k.handle
    BY <1>2, <1>3 DEF ConnectInv
  <1>5. ~k.eof /\ ~t.reading /\ Used(k) BY <1>3, <1>4 DEF StreamInv, Used
  <1>6. FlowInv(k, t, Later.ticks, s, late, crashed) BY <1>2, <1>3 DEF FlowInv
  <1>7. ~(k.destroyOnFinish /\ k.ended /\ k.handle)
        /\ (s \in doomed => k.destroyed \/ k.destroyOnFinish)
    BY <1>2, <1>3 DEF DestroyInv, After
  <1>8. late' = late /\ doomed' = doomed /\ hasty' = hasty BY <1>1 DEF Rest
  <1>9. CASE ~k.handle
    <2> DEFINE u == [Later EXCEPT !.crashed = TRUE]
    <2>1. Becomes(u) /\ ctl' = << >> BY <1>2, <1>9 DEF ConnectTick
    <2> HIDE DEF u
    <2>2. /\ u \in State /\ u.sock = sock /\ u.tcp = tcp /\ u.ticks = Later.ticks
          /\ u.server = Later.server /\ u.crashed = TRUE
      BY <1>2 DEF State, u
    <2>3. Local(Later, Later, s) BY <1>2, LocalSelf
    <2>4. Local(Later, u, s) BY <2>2, <2>3, <1>2 DEF Local
    <2>5. FlowInv(k, t, u.ticks, s, late, u.crashed) BY <1>6, <2>2 DEF FlowInv
    <2>6. Sound(u, s, late) BY <2>2, <2>5, <1>3 DEF Sound, SocketInv
    <2>7. ~Orderly' BY <1>4, <1>8, <1>9 DEF Orderly
    <2>8. Calm(s) /\ \A then \in Continuations \ {"none"} : ~After(then, s)'
      BY <1>1, <1>2, <2>1, CalmCallback
    <2> QED BY <1>2, <1>7, <1>8, <1>9, <2>1, <2>2, <2>4, <2>6, <2>7, <2>8, QuietStep
  <1>10. CASE k.handle
    <2>1. e = [Later EXCEPT !.tcp[s] = v] BY <1>2
    <2>2. v \in Handle
      BY <1>3 DEF Handle, TcpConnect, ConnectReq, ConnectReqDispatched, Requests
    <2>3. /\ v.uv = t.uv /\ v.reading = t.reading
          /\ "write" \in v.reqs <=> "write" \in t.reqs
          /\ "connect" \in v.reqs => ok
      BY <1>3, <1>4 DEF Handle, TcpConnect, ConnectReq, ConnectReqDispatched
    <2> HIDE DEF e, v
    <2>4. /\ Local(Later, e, s) /\ e \in State /\ e.tcp[s] = v /\ e.sock = sock
          /\ e.ticks = Later.ticks /\ e.crashed = crashed
      <3>1. /\ Local(Later, e, s) /\ e \in State /\ e.tcp[s] = v /\ e.sock = Later.sock
            /\ e.ticks = Later.ticks /\ e.crashed = Later.crashed
        BY <2>1, <2>2, <1>2, SetHandle
      <3> QED BY <3>1, <1>2
    <2>5. Sound(e, s, late)
      <3>1. HandleInv(k, v) BY <1>3, <1>5, <1>10, <2>3 DEF HandleInv, Used
      <3>2. StreamInv(k, v) BY <1>3, <1>4, <2>3 DEF StreamInv
      <3>3. FlowInv(k, v, e.ticks, s, late, e.crashed) BY <1>6, <2>3, <2>4 DEF FlowInv
      <3> QED BY <3>1, <3>2, <3>3, <2>4 DEF Sound, SocketInv
    <2>6. CASE ok
      <3>1. Becomes(e) /\ ctl' = << >> BY <2>6, <1>2, <1>10 DEF ConnectTick, e
      <3>2. Calm(s) /\ \A then \in Continuations \ {"none"} : ~After(then, s)'
        BY <1>1, <1>2, <3>1, CalmCallback
      <3>3. e.tcp[s].uv = "closed" <=> tcp[s].uv = "closed" BY <2>3, <2>4
      <3> QED BY <1>2, <1>7, <1>8, <2>4, <2>5, <3>1, <3>2, <3>3, QuietStep
    <2>7. CASE ~ok
      <3> DEFINE u == EmitError(e, s)
      <3>1. Becomes(u) /\ EmitLast BY <2>7, <1>10 DEF ConnectTick, e
      <3>2. Calm(s) /\ \A then \in Continuations \ {"none"} : ~After(then, s)'
        BY <1>1, <1>2, <3>1, CalmCallback
      <3>3. Failing(e, s) BY <1>2, <1>4, <1>5, <2>3, <2>4, <2>7 DEF Failing
      <3> HIDE DEF u
      <3>4. /\ u \in State /\ Sound(u, s, late) /\ Local(e, u, s) /\ (u.crashed => late)
            /\ e.sock[s].destroyed => u.sock[s].destroyed
            /\ e.sock[s].destroyOnFinish => u.sock[s].destroyOnFinish
            /\ u.sock[s].handle => e.sock[s].handle
            /\ u.tcp[s].uv = "closed" <=> e.tcp[s].uv = "closed"
            /\ u.sock[s].destroyOnFinish /\ u.sock[s].ended /\ u.sock[s].handle =>
                  e.sock[s].destroyOnFinish /\ e.sock[s].ended
        <4>1. /\ e \in State /\ Sound(e, s, late) /\ late \in BOOLEAN /\ Failing(e, s)
              /\ u = EmitError(e, s)
          BY <1>3, <2>4, <2>5, <3>3 DEF u
        <4> QED BY ONLY <4>1, EmitErrorKeeps, s \in Sockets
      <3>5. Local(Later, u, s) BY <3>4, <2>4, <1>2, LocalTrans
      <3>6. u.tcp[s].uv = "closed" <=> tcp[s].uv = "closed" BY <2>3, <2>4, <3>4
      <3>7. ~(u.sock[s].destroyOnFinish /\ u.sock[s].ended /\ u.sock[s].handle)
        BY <1>7, <1>10, <2>4, <3>4
      <3>8. s \in doomed' => u.sock[s].destroyed \/ u.sock[s].destroyOnFinish
        BY <1>7, <1>8, <2>4, <3>4
      <3>9. u.crashed => ~Orderly' BY <3>4, <1>8 DEF Orderly
      <3> QED BY <1>2, <1>8, <3>1, <3>2, <3>4, <3>5, <3>6, <3>7, <3>8, <3>9, QuietStep
    <2> QED BY <2>6, <2>7
  <1> QED BY <1>9, <1>10

LEMMA AfterLookupKeeps ==
    ASSUME NetInv, ~crashed, NEW s \in Sockets, After("lookup", s), AfterLookup(s),
           UNCHANGED Rest
    PROVE  NetInv'
  <1> DEFINE k == sock[s]
             t == tcp[s]
             w == NextTick(Now, "connect", s)
  <1>1. Becomes(w) /\ ctl' = << >> BY DEF AfterLookup
  <1>2. /\ Now \in State /\ Base(Now, s) /\ late \in BOOLEAN
        /\ Now.sock = sock /\ Now.tcp = tcp /\ Now.ticks = ticks /\ Now.crashed = crashed
        /\ HandleInv(k, t) /\ StreamInv(k, t) /\ FlowInv(k, t, ticks, s, late, crashed)
        /\ ConnectInv(s) /\ ReadStartInv(s) /\ DestroyInv(s)
    BY NowState
  <1>3. ~After("none", Server) /\ ~After("eof", s) /\ ctl # << >> BY AfterUnique
  <1>4. /\ k.connecting /\ ~k.ready /\ ~k.lookup /\ "connect" \notin t.reqs
        /\ ~Queued(ticks, "connect", s) /\ ~Queued(ticks, "readStart", s)
        /\ ~hasty => k.handle /\ ~(k.destroyOnFinish /\ Queued(ticks, "finish", s))
    BY <1>2, <1>3 DEF ConnectInv, ReadStartInv, Answered
  <1>5. Plus(Now, w, s) BY <1>2, <1>4 DEF Plus
  <1>6. IndexInv(ticks, s) BY <1>2 DEF ConnectInv, ReadStartInv, IndexInv
  <1> HIDE DEF w
  <1>7. /\ w \in State /\ w.sock = sock /\ w.tcp = tcp /\ w.crashed = crashed
        /\ IndexInv(w.ticks, s)
        /\ \A n : n \notin {"connect", "readStart"} =>
              (Queued(w.ticks, n, s) <=> Queued(ticks, n, s))
    BY <1>2, <1>5, <1>6, PlusTicks
  <1>8. ~Queued(w.ticks, "readStart", s)
    <2> DEFINE tick == [name |-> "connect", s |-> s]
    <2>1. tick \in TickType /\ tick.name = "connect" BY DEF TickType, TickNames
    <2>2. w.ticks = Append(ticks, tick) /\ ticks \in Seq(TickType)
      BY <1>2 DEF w, NextTick, State
    <2> HIDE DEF tick
    <2> QED BY <2>1, <2>2, <1>4, QueuedAfter
  <1>9. Sound(w, s, late)
    <2>1. FlowInv(k, t, w.ticks, s, late, w.crashed) BY <1>2, <1>7 DEF FlowInv
    <2> QED BY <2>1, <1>2, <1>7 DEF Sound, SocketInv
  <1>10. Calm(s) /\ \A then \in Continuations \ {"none"} : ~After(then, s)'
    BY <1>1, CalmCallback
  <1>11. /\ late' = late /\ doomed' = doomed /\ hasty' = hasty
         /\ sock' = sock /\ tcp' = tcp /\ ticks' = w.ticks
    BY <1>1, <1>7 DEF Rest, Becomes
  <1>12. \A then : ~After(then, s)' BY <1>1 DEF After
  <1>13. ConnectInv(s)'
    BY <1>4, <1>7, <1>11, <1>12 DEF ConnectInv, Answered, IndexInv
  <1>14. ReadStartInv(s)' BY <1>7, <1>8, <1>11 DEF ReadStartInv, IndexInv
  <1>15. DestroyInv(s)' BY <1>2, <1>3, <1>11, <1>12 DEF DestroyInv
  <1>16. Local(Now, Now, s) BY <1>2, LocalSelf
  <1>17. (w.crashed => ~Orderly') /\ (w.tcp[s].uv = "closed" <=> tcp[s].uv = "closed")
    BY <1>7
  <1>18. Sound(w, s, late') BY <1>9, <1>11
  <1> QED
    BY <1>1, <1>2, <1>5, <1>10, <1>13, <1>14, <1>15, <1>16, <1>17, <1>18, StepKeeps

\* An event about s, from a callback
LEMMA CalmEmit ==
    ASSUME NetInv, NEW s \in Sockets, NEW then \in Continuations, Idle, Emit(then, s),
           input' \in Nat,
           UNCHANGED <<calls, closeEvents, serverClosed, doomed, late, reused, hasty>>
    PROVE  /\ Calm(s) /\ After(then, s)'
           /\ \A other : other # then => ~After(other, s)'
  <1>1. ctl = << >> /\ ticks = << >> /\ \A x, r : ~After(x, r) BY IdleState
  <1>2. After(then, s)' /\ ctl' = << [then |-> then, s |-> s] >> BY DEF Emit, After
  <1>3. \A x, r : After(x, r)' => ctl'[1].then = x /\ ctl'[1].s = r BY DEF After
  <1>4. \A x, r : After(x, r)' => x = then /\ r = s BY <1>2, <1>3
  <1>5. CtlType' BY <1>2 DEF CtlType
  <1> QED BY <1>1, <1>2, <1>4, <1>5 DEF Calm, NetInv, HistoryInv

LEMMA AfterGetAddrInfoKeeps ==
    ASSUME NetInv, NEW s \in Sockets, NEW ok \in BOOLEAN, AfterGetAddrInfo(s, ok)
    PROVE  NetInv'
  <1> DEFINE k == sock[s]
             t == tcp[s]
             h == [k EXCEPT !.lookup = FALSE]
             e == [Now EXCEPT !.sock[s].lookup = FALSE]
             then == IF ok THEN "lookup" ELSE "lookupFailed"
  <1>1. Idle /\ k.lookup /\ Becomes(e) /\ UNCHANGED Rest BY DEF AfterGetAddrInfo
  <1>2. /\ ctl = << >> /\ ticks = << >> /\ ~crashed /\ (\A n, r : ~Queued(ticks, n, r))
        /\ \A x, r : ~After(x, r)
    BY <1>1, IdleState
  <1>3. /\ Now \in State /\ Base(Now, s) /\ late \in BOOLEAN
        /\ Now.sock = sock /\ Now.tcp = tcp /\ Now.ticks = ticks /\ Now.crashed = crashed
        /\ k \in SocketType /\ t \in Handle
        /\ HandleInv(k, t) /\ StreamInv(k, t) /\ FlowInv(k, t, ticks, s, late, crashed)
        /\ ConnectInv(s) /\ ReadStartInv(s) /\ DestroyInv(s)
    BY <1>2, NowState
  <1>4. e = [Now EXCEPT !.sock[s] = h] BY <1>3
  <1>5. h \in SocketType /\ h.server = k.server BY <1>3 DEF SocketType
  <1>6. k.connecting /\ ~k.ready /\ "connect" \notin t.reqs /\ Used(k)
    BY <1>1, <1>3 DEF StreamInv, Used
  <1>7. /\ ~h.lookup /\ h.connecting = k.connecting /\ h.ready = k.ready
        /\ h.handle = k.handle /\ h.destroyed = k.destroyed /\ h.ended = k.ended
        /\ h.destroyOnFinish = k.destroyOnFinish
    BY <1>3 DEF SocketType
  <1> HIDE DEF e, h, then
  <1>8. /\ Local(Now, e, s) /\ e \in State /\ e.sock[s] = h /\ e.tcp = tcp /\ e.ticks = ticks
        /\ e.crashed = crashed
    <2>1. /\ Local(Now, e, s) /\ e \in State /\ e.sock[s] = h /\ e.tcp = Now.tcp
          /\ e.ticks = Now.ticks /\ e.crashed = Now.crashed
      BY <1>3, <1>4, <1>5, SetSocket
    <2> QED BY <2>1, <1>3
  <1>9. Sound(e, s, late)
    <2>1. HandleInv(h, t) BY <1>3, <1>6 DEF HandleInv, SocketType, Used, h
    <2>2. StreamInv(h, t) BY <1>3, <1>6 DEF StreamInv, SocketType, h
    <2>3. FlowInv(h, t, ticks, s, late, crashed) BY <1>3 DEF FlowInv, SocketType, h
    <2> QED BY <2>1, <2>2, <2>3, <1>8 DEF Sound, SocketInv
  <1>10. /\ late' = late /\ doomed' = doomed /\ hasty' = hasty
         /\ sock'[s] = h /\ tcp' = tcp /\ ticks' = ticks
    BY <1>1, <1>8 DEF Rest, Becomes
  <1>11. /\ ~(h.destroyOnFinish /\ h.ended /\ h.handle)
         /\ (s \in doomed => h.destroyed \/ h.destroyOnFinish)
    BY <1>2, <1>3, <1>7 DEF DestroyInv
  <1>12. CASE k.destroyed
    <2>1. ctl' = << >> BY <1>2, <1>12 DEF AfterGetAddrInfo
    <2>2. Calm(s) /\ \A x \in Continuations \ {"none"} : ~After(x, s)'
      BY <1>1, <1>2, <2>1, CalmCallback
    <2> QED BY <1>1, <1>2, <1>3, <1>8, <1>9, <1>10, <1>11, <2>2, QuietStep
  <1>13. CASE ~k.destroyed
    <2>1. Emit(then, s) BY <1>13 DEF AfterGetAddrInfo, then
    <2>2. then \in {"lookup", "lookupFailed"} /\ then \in Continuations
      BY DEF then, Continuations
    <2>3. input' \in Nat /\ UNCHANGED <<calls, closeEvents, serverClosed, doomed, late,
                                        reused, hasty>>
      BY <1>1 DEF Rest, NetInv, HistoryInv
    <2>4. /\ Calm(s) /\ After(then, s)'
          /\ \A other : other # then => ~After(other, s)'
      BY <1>1, <2>1, <2>2, <2>3, CalmEmit
    <2>5. k.handle BY <1>3, <1>6, <1>13 DEF HandleInv
    <2>6. ConnectInv(s)'
      <3>1. \A i \in DOMAIN ticks' : FALSE BY <1>2, <1>10
      <3>2. \A n : ~Queued(ticks', n, s) BY <1>2, <1>10
      <3> QED BY <1>6, <1>7, <1>10, <2>5, <3>1, <3>2 DEF ConnectInv
    <2>7. ReadStartInv(s)'
      <3>1. \A i \in DOMAIN ticks' : FALSE BY <1>2, <1>10
      <3>2. \A n : ~Queued(ticks', n, s) BY <1>2, <1>10
      <3> QED BY <3>1, <3>2 DEF ReadStartInv
    <2>8. ~After("eof", s)' /\ ~After("readError", s)' BY <2>2, <2>4
    <2>9. DestroyInv(s)' BY <1>10, <1>11, <2>8 DEF DestroyInv
    <2>10. Plus(e, e, s) BY DEF Plus
    <2> QED BY <1>1, <1>2, <1>3, <1>8, <1>9, <1>10, <2>4, <2>6, <2>7, <2>9, <2>10, StepKeeps
  <1> QED BY <1>12, <1>13

\* A socket and its handle together
Both(st, s, k, t) == [st EXCEPT !.sock[s] = k, !.tcp[s] = t]

LEMMA SetBoth ==
    ASSUME NEW st \in State, NEW s \in Sockets, NEW k \in SocketType, NEW t \in Handle,
           k.server = st.sock[s].server
    PROVE  LET u == Both(st, s, k, t)
           IN  /\ Local(st, u, s) /\ u \in State
               /\ u.sock[s] = k /\ u.tcp[s] = t /\ u.ticks = st.ticks
               /\ u.crashed = st.crashed /\ u.server = st.server
  <1> DEFINE e == [st EXCEPT !.sock[s] = k]
             u == Both(st, s, k, t)
  <1>1. /\ Local(st, e, s) /\ e \in State
        /\ e.sock[s] = k /\ e.tcp = st.tcp /\ e.ticks = st.ticks
        /\ e.crashed = st.crashed /\ e.server = st.server
    BY SetSocket
  <1>2. u = [e EXCEPT !.tcp[s] = t] BY DEF State, Both
  <1> HIDE DEF e, u
  <1>3. /\ Local(e, u, s) /\ u \in State
        /\ u.tcp[s] = t /\ u.sock = e.sock /\ u.ticks = e.ticks
        /\ u.crashed = e.crashed /\ u.server = e.server
    <2>1. e \in State BY <1>1
    <2> QED BY ONLY <1>2, <2>1, SetHandle, s \in Sockets, t \in Handle
  <1>4. Local(st, u, s) BY <1>1, <1>3, LocalTrans
  <1> QED BY <1>1, <1>3, <1>4 DEF u

\* Nothing is queued for a Socket object that does not exist yet
LEMMA UnusedState ==
    ASSUME NetInv, ~crashed, NEW s \in Sockets, sock[s].kind = "none"
    PROVE  /\ sock[s] = NewSocket /\ tcp[s] = NoHandle /\ s \notin doomed
           /\ \A n \in {"finish", "afterWrite", "connect", "readStart"} : ~Queued(ticks, n, s)
           /\ \A then \in Continuations \ {"none"} : ~After(then, s)
  <1>1. /\ HandleInv(sock[s], tcp[s]) /\ FlowInv(sock[s], tcp[s], ticks, s, late, crashed)
        /\ ConnectInv(s) /\ ReadStartInv(s) /\ DestroyInv(s)
    BY NowState
  <1>2. sock[s] = NewSocket /\ tcp[s] = NoHandle BY <1>1 DEF HandleInv
  <1>3. /\ ~sock[s].ending /\ ~sock[s].errored /\ ~sock[s].connecting /\ ~Used(sock[s])
        /\ ~sock[s].destroyed /\ ~sock[s].destroyOnFinish
    BY <1>2 DEF NewSocket, Used
  <1>4. s \notin doomed BY <1>1, <1>3 DEF DestroyInv
  <1>5. \A n \in {"finish", "afterWrite", "connect", "readStart"} : ~Queued(ticks, n, s)
    BY <1>1, <1>3 DEF FlowInv, ConnectInv, ReadStartInv
  <1>6. \A then \in Continuations \ {"none"} : ~After(then, s)
    BY <1>1, <1>3 DEF ConnectInv, DestroyInv, Answered, Continuations
  <1> QED BY <1>2, <1>4, <1>5, <1>6

LEMMA NewKeeps ==
    ASSUME NetInv, NEW s \in Sockets, sock[s].kind = "none", Call,
           UNCHANGED <<doomed, late, reused, hasty>>,
           NEW h \in SocketType, NEW v \in Handle,
           Becomes(Both(Now, s, h, v)),
           h.server = FALSE, v.uv # "closed", ~h.ended,
           HandleInv(h, v), StreamInv(h, v), FlowInv(h, v, ticks, s, late, crashed)
    PROVE  NetInv'
  <1> DEFINE e == Both(Now, s, h, v)
  <1>1. hasty \in BOOLEAN /\ late \in BOOLEAN BY DEF NetInv, HistoryInv
  <1>2. Calm(s) /\ ~crashed /\ \A then, r : After(then, r)' <=> After(then, r)
    BY <1>1, CalmCall
  <1>3. /\ sock[s] = NewSocket /\ tcp[s] = NoHandle /\ s \notin doomed
        /\ \A n \in {"finish", "afterWrite", "connect", "readStart"} : ~Queued(ticks, n, s)
        /\ \A then \in Continuations \ {"none"} : ~After(then, s)
    BY <1>2, UnusedState
  <1>4. /\ Now \in State /\ Base(Now, s)
        /\ Now.sock = sock /\ Now.tcp = tcp /\ Now.ticks = ticks /\ Now.crashed = crashed
    BY NowState
  <1>5. h.server = Now.sock[s].server
    <2>1. sock[s].server = FALSE BY <1>3 DEF NewSocket
    <2> QED BY <2>1, <1>4
  <1>6. Becomes(e) OBVIOUS
  <1> HIDE DEF e
  <1>7. /\ Local(Now, e, s) /\ e \in State
        /\ e.sock[s] = h /\ e.tcp[s] = v /\ e.ticks = ticks /\ e.crashed = crashed
    <2>1. /\ Local(Now, e, s) /\ e \in State
          /\ e.sock[s] = h /\ e.tcp[s] = v /\ e.ticks = Now.ticks /\ e.crashed = Now.crashed
      BY <1>4, <1>5, SetBoth DEF e
    <2> QED BY <2>1, <1>4
  <1>8. Sound(e, s, late) BY <1>7 DEF Sound, SocketInv
  <1>9. late' = late /\ doomed' = doomed OBVIOUS
  <1>10. e.tcp[s].uv = "closed" <=> tcp[s].uv = "closed" BY <1>3, <1>7 DEF NoHandle
  <1>11. \A then \in Continuations \ {"none"} : ~After(then, s)' BY <1>2, <1>3
  <1>12. ~(e.sock[s].destroyOnFinish /\ e.sock[s].ended /\ e.sock[s].handle) BY <1>7
  <1> QED
    BY <1>2, <1>3, <1>4, <1>6, <1>7, <1>8, <1>9, <1>10, <1>11, <1>12, QuietStep

LEMMA NewSocketType ==
    /\ NewSocket \in SocketType /\ NoHandle \in Handle /\ TcpCreate \in Handle
    /\ PipeOpen \in Handle
  BY DEF NewSocket, SocketType, NoHandle, Handle, TcpCreate, PipeOpen, Requests

LEMMA ConnectKeeps ==
    ASSUME NetInv, NEW s \in Sockets, NEW half \in BOOLEAN, NEW asked \in BOOLEAN,
           Connect(s, half, asked)
    PROVE  NetInv'
  <1> DEFINE h == [NewSocket EXCEPT !.kind = "client", !.half = half, !.handle = TRUE,
                                    !.connecting = TRUE, !.lookup = asked]
  <1>1. Call /\ sock[s].kind = "none" /\ UNCHANGED <<doomed, late, reused, hasty>>
    BY DEF Connect
  <1>2. ~crashed BY <1>1 DEF Call, AtScript
  <1>3. /\ sock[s] = NewSocket /\ tcp[s] = NoHandle
        /\ \A n \in {"finish", "afterWrite", "connect", "readStart"} : ~Queued(ticks, n, s)
    BY <1>1, <1>2, UnusedState
  <1>4. Now \in State /\ Now.sock = sock /\ Now.tcp = tcp BY NowState
  <1>5. h \in SocketType BY NewSocketType DEF SocketType
  <1>6. Becomes(Both(Now, s, h, TcpCreate))
    <2> DEFINE c == [Now EXCEPT !.sock[s].kind = "client", !.sock[s].half = half,
                        !.sock[s].handle = TRUE, !.sock[s].connecting = TRUE,
                        !.tcp[s] = TcpCreate]
               u == [c EXCEPT !.sock[s].lookup = asked]
               b == Both(Now, s, h, TcpCreate)
    <2>1. Becomes(u) BY DEF Connect, GetAddrInfo
    <2>2. u.ticks = b.ticks /\ u.crashed = b.crashed /\ u.server = b.server
      BY <1>4 DEF Both, State
    <2>3. u.tcp = b.tcp BY <1>4 DEF Both, State
    <2>4. u.sock = b.sock
      <3>1. sock \in [Sockets -> SocketType] BY <1>4 DEF State
      <3>2. b.sock = [sock EXCEPT ![s] = h] BY <1>4 DEF Both, State
      <3>3. u.sock = [sock EXCEPT ![s].kind = "client", ![s].half = half, ![s].handle = TRUE,
                                  ![s].connecting = TRUE, ![s].lookup = asked]
        BY <1>4 DEF State
      <3>4. [sock[s] EXCEPT !.kind = "client", !.half = half, !.handle = TRUE,
                            !.connecting = TRUE, !.lookup = asked] = h
        BY <1>3
      <3> HIDE DEF h
      <3> QED BY <3>1, <3>2, <3>3, <3>4
    <2> HIDE DEF u, b
    <2> QED BY <2>1, <2>2, <2>3, <2>4 DEF Becomes, b
  <1>7. h.server = FALSE /\ TcpCreate.uv # "closed" /\ ~h.ended
    BY DEF NewSocket, TcpCreate, NoHandle
  <1>8. HandleInv(h, TcpCreate) BY DEF HandleInv, NewSocket, TcpCreate, NoHandle, Used
  <1>9. StreamInv(h, TcpCreate) BY DEF StreamInv, NewSocket, TcpCreate, NoHandle
  <1>10. FlowInv(h, TcpCreate, ticks, s, late, crashed) BY <1>3 DEF FlowInv, NewSocket
  <1> HIDE DEF h
  <1> QED BY <1>1, <1>5, <1>6, <1>7, <1>8, <1>9, <1>10, NewKeeps, NewSocketType

LEMMA OpenPipeKeeps ==
    ASSUME NetInv, NEW s \in Sockets, OpenPipe(s)
    PROVE  NetInv'
  <1> DEFINE h == [NewSocket EXCEPT !.kind = "pipe", !.handle = TRUE]
             v == ReadStart(PipeOpen)
  <1>1. Call /\ sock[s].kind = "none" /\ UNCHANGED <<doomed, late, reused, hasty>>
    BY DEF OpenPipe
  <1>2. ~crashed BY <1>1 DEF Call, AtScript
  <1>3. /\ sock[s] = NewSocket /\ tcp[s] = NoHandle
        /\ \A n \in {"finish", "afterWrite", "connect", "readStart"} : ~Queued(ticks, n, s)
    BY <1>1, <1>2, UnusedState
  <1>4. Now \in State /\ Now.sock = sock /\ Now.tcp = tcp BY NowState
  <1>5. h \in SocketType BY NewSocketType DEF SocketType
  <1>6. v \in Handle /\ v.uv = "open" /\ v.conn = "up" /\ v.reqs = {}
    BY NewSocketType DEF Handle, ReadStart, PipeOpen, NoHandle
  <1>7. Becomes(Both(Now, s, h, v))
    <2>1. [Now EXCEPT !.sock[s].kind = "pipe", !.sock[s].handle = TRUE, !.tcp[s] = v] =
          Both(Now, s, h, v)
      BY <1>3, <1>4 DEF State, Both
    <2> QED BY <2>1 DEF OpenPipe
  <1>8. h.server = FALSE /\ v.uv # "closed" /\ ~h.ended BY <1>6 DEF NewSocket
  <1>9. HandleInv(h, v) BY <1>6 DEF HandleInv, NewSocket, Used
  <1>10. StreamInv(h, v) BY <1>6 DEF StreamInv, NewSocket
  <1>11. FlowInv(h, v, ticks, s, late, crashed) BY <1>3 DEF FlowInv, NewSocket
  <1> HIDE DEF h, v
  <1> QED BY <1>1, <1>5, <1>6, <1>7, <1>8, <1>9, <1>10, <1>11, NewKeeps

Connected(e, s) == [e EXCEPT !.sock[s].connecting = FALSE, !.sock[s].connected = TRUE]

\* The socket e of a connection that is up: _readyToWrite writes what waited, and the
\* tick that starts to read comes first
LEMMA ConnectedKeeps ==
    ASSUME NEW e \in State, NEW s \in Sockets, NEW l \in BOOLEAN, Sound(e, s, l),
           Used(e.sock[s]), ~e.sock[s].ready, ~e.sock[s].lookup,
           "connect" \notin e.tcp[s].reqs, e.tcp[s].conn \in {"up", "shut"},
           ~e.crashed, e.ticks = << >>
    PROVE  LET v == ReadyToWrite(Connected(e, s), s)
               k == e.sock[s]
               j == v.sock[s]
           IN  /\ v \in State /\ Sound(v, s, l) /\ Local(e, v, s) /\ (v.crashed => l)
               /\ v.ticks = << >> /\ v.server = e.server
               /\ j.handle = k.handle /\ ~j.connecting /\ j.eof = k.eof /\ ~j.errored /\ Used(j)
               /\ j.server = k.server
               /\ k.destroyed => j.destroyed
               /\ k.destroyOnFinish => j.destroyOnFinish
               /\ v.tcp[s].uv = "closed" <=> e.tcp[s].uv = "closed"
               /\ j.destroyOnFinish /\ j.ended /\ j.handle => k.destroyOnFinish /\ k.ended
  <1> DEFINE k == e.sock[s]
             t == e.tcp[s]
             h == [k EXCEPT !.connecting = FALSE, !.connected = TRUE]
             g == [h EXCEPT !.ready = TRUE]
             c == Connected(e, s)
             f == Ready(c, s)
             v == ReadyToWrite(c, s)
  <1>1. k \in SocketType /\ t \in Handle BY DEF State
  <1>2. /\ HandleInv(k, t) /\ StreamInv(k, t) /\ FlowInv(k, t, << >>, s, l, FALSE)
    <2>1. e.crashed \in BOOLEAN BY DEF State
    <2> QED BY <2>1 DEF Sound, SocketInv
  <1>3. \A n : ~Queued(<< >>, n, s) BY DEF Queued
  <1>4. ~k.errored /\ ~k.writing /\ ~(k.ending /\ ~k.ended /\ k.chunks = 0)
    BY <1>2, <1>3 DEF StreamInv, FlowInv
  <1>5. c = [e EXCEPT !.sock[s] = h] BY <1>1 DEF State, SocketType, Connected
  <1>6. h \in SocketType /\ h.server = k.server BY <1>1 DEF SocketType
  <1>7. /\ h.kind = k.kind /\ h.ended = k.ended /\ h.ending = k.ending /\ h.chunks = k.chunks
        /\ h.errored = k.errored /\ h.handle = k.handle /\ h.eof = k.eof /\ ~h.connecting
        /\ h.destroyed = k.destroyed /\ h.destroyOnFinish = k.destroyOnFinish
    BY <1>1 DEF SocketType
  <1> HIDE DEF c, h
  <1>8. /\ Local(e, c, s) /\ c \in State /\ c.sock[s] = h /\ c.tcp = e.tcp
        /\ c.ticks = e.ticks /\ c.crashed = e.crashed /\ c.server = e.server
    BY <1>5, <1>6, SetSocket
  <1>9. f = [c EXCEPT !.sock[s] = g] BY <1>8 DEF Ready
  <1>10. g \in SocketType /\ g.server = h.server BY <1>6 DEF SocketType
  <1>11. HandleInv(g, t) BY <1>1, <1>2 DEF HandleInv, SocketType, Used, h
  <1>12. StreamInv(g, t) BY <1>1, <1>2, <1>4 DEF StreamInv, SocketType, h
  <1>13. WaitInv(g, t, << >>, s, l, FALSE)
    BY <1>1, <1>2, <1>3, <1>4 DEF WaitInv, FlowInv, SocketType, h
  <1> HIDE DEF f, g
  <1>14. /\ f.sock[s] = g /\ f.tcp = c.tcp /\ f.ticks = c.ticks /\ f.crashed = c.crashed
    <2>1. c \in State /\ g \in SocketType /\ g.server = c.sock[s].server BY <1>8, <1>10
    <2> QED BY ONLY <2>1, <1>9, SetSocket, s \in Sockets
  <1>15. Loose(f, s, l)
    <2>1. f.crashed = FALSE
      <3>1. e.crashed \in BOOLEAN BY DEF State
      <3> QED BY <3>1, <1>8, <1>14
    <2> QED BY <2>1, <1>8, <1>11, <1>12, <1>13, <1>14 DEF Loose
  <1> HIDE DEF v
  <1>16. /\ v \in State /\ Sound(v, s, l) /\ Forward(c, v, s)
         /\ v.crashed => c.crashed \/ l
         /\ ~c.sock[s].errored
               /\ ~(c.sock[s].ending /\ ~c.sock[s].ended /\ c.sock[s].chunks = 0) =>
               v.ticks = c.ticks /\ v.sock[s].handle = c.sock[s].handle /\ v.server = c.server
    <2>1. c \in State /\ l \in BOOLEAN /\ Loose(Ready(c, s), s, l) /\ Used(c.sock[s])
      BY <1>7, <1>8, <1>15 DEF Used, f
    <2>2. v = ReadyToWrite(c, s) BY DEF v
    <2> QED BY ONLY <2>1, <2>2, ReadyToWriteKeeps, s \in Sockets
  <1>17. v.ticks = << >> /\ v.sock[s].handle = k.handle /\ v.server = e.server
    BY <1>4, <1>7, <1>8, <1>16
  <1>18. Local(e, v, s) BY <1>8, <1>16, LocalTrans DEF Forward
  <1>19. v.sock[s].server = k.server
    <2>1. v.sock[s].server \in BOOLEAN /\ k.server \in BOOLEAN
          /\ v.sock[s].kind = k.kind
      BY <1>1, <1>7, <1>8, <1>16 DEF State, SocketType, Forward
    <2>2. HandleInv(v.sock[s], v.tcp[s]) BY <1>16 DEF Sound, SocketInv
    <2> QED BY <2>1, <2>2, <1>2, <1>17 DEF HandleInv
  <1>20. /\ ~v.sock[s].connecting /\ v.sock[s].eof = k.eof /\ ~v.sock[s].errored
         /\ Used(v.sock[s])
         /\ k.destroyed => v.sock[s].destroyed
         /\ k.destroyOnFinish => v.sock[s].destroyOnFinish
         /\ v.tcp[s].uv = "closed" <=> e.tcp[s].uv = "closed"
         /\ v.sock[s].destroyOnFinish /\ v.sock[s].ended /\ v.sock[s].handle =>
               k.destroyOnFinish /\ k.ended
    BY <1>4, <1>7, <1>8, <1>16 DEF Forward, Used
  <1> QED BY <1>8, <1>16, <1>17, <1>18, <1>19, <1>20 DEF v, c

LEMMA AfterConnectKeeps ==
    ASSUME NetInv, NEW s \in Sockets, NEW ok \in BOOLEAN, AfterConnect(s, ok)
    PROVE  NetInv'
  <1> DEFINE k == sock[s]
             t == tcp[s]
             h == [k EXCEPT !.connecting = FALSE]
             y == [ConnectReqDispatched(t) EXCEPT !.conn = IF ok THEN "up" ELSE "no"]
             e == [Now EXCEPT !.tcp[s] = [ConnectReqDispatched(@) EXCEPT
                                              !.conn = IF ok THEN "up" ELSE "no"],
                              !.sock[s].connecting = FALSE]
             d == SocketDestroy(e, s)
             v == ReadyToWrite(Connected(e, s), s)
             w == OnSocketConnect(e, s)
  <1>1. Idle /\ "connect" \in t.reqs /\ UNCHANGED Rest
    BY DEF AfterConnect
  <1>2. /\ ctl = << >> /\ ticks = << >> /\ ~crashed /\ (\A n, r : ~Queued(ticks, n, r))
        /\ \A x, r : ~After(x, r)
    BY <1>1, IdleState
  <1>3. /\ Now \in State /\ Base(Now, s) /\ late \in BOOLEAN
        /\ Now.sock = sock /\ Now.tcp = tcp /\ Now.ticks = ticks /\ Now.crashed = crashed
        /\ k \in SocketType /\ t \in Handle
        /\ HandleInv(k, t) /\ StreamInv(k, t) /\ FlowInv(k, t, ticks, s, late, crashed)
        /\ DestroyInv(s)
    BY <1>2, NowState
  <1>4. /\ k.connecting /\ ~k.ready /\ ~k.lookup /\ ~k.eof /\ ~t.reading /\ Used(k)
        /\ ~k.errored
    BY <1>1, <1>3 DEF StreamInv, Used
  <1>5. /\ ~(k.destroyOnFinish /\ k.ended /\ k.handle)
        /\ (s \in doomed => k.destroyed \/ k.destroyOnFinish)
    BY <1>2, <1>3 DEF DestroyInv
  <1>6. y \in Handle /\ y.uv = t.uv /\ y.reading = t.reading /\ "connect" \notin y.reqs
        /\ ("write" \in y.reqs <=> "write" \in t.reqs) /\ (t.reqs = {} => y.reqs = {})
        /\ y.conn = (IF ok THEN "up" ELSE "no")
    BY <1>3 DEF Handle, ConnectReqDispatched, Requests
  <1>7. h \in SocketType /\ h.server = k.server BY <1>3 DEF SocketType
  <1>8. /\ ~h.connecting /\ h.ready = k.ready /\ h.lookup = k.lookup /\ h.eof = k.eof
        /\ h.kind = k.kind /\ h.destroyed = k.destroyed /\ h.ended = k.ended
        /\ h.destroyOnFinish = k.destroyOnFinish /\ h.handle = k.handle
    BY <1>3 DEF SocketType
  <1>9. e = Both(Now, s, h, y) BY <1>3 DEF Both, State
  <1>10. HandleInv(h, y) BY <1>3, <1>4, <1>6 DEF HandleInv, SocketType, Used
  <1>11. StreamInv(h, y) BY <1>3, <1>4, <1>6 DEF StreamInv, SocketType
  <1>12. FlowInv(h, y, ticks, s, late, crashed) BY <1>3, <1>6 DEF FlowInv, SocketType
  <1> HIDE DEF h, y, e, d, v, w
  <1>13. /\ Local(Now, e, s) /\ e \in State /\ e.sock[s] = h /\ e.tcp[s] = y
         /\ e.ticks = ticks /\ e.crashed = crashed
    <2>1. Now \in State /\ h \in SocketType /\ y \in Handle /\ h.server = Now.sock[s].server
      BY <1>3, <1>6, <1>7
    <2>2. /\ Local(Now, e, s) /\ e \in State /\ e.sock[s] = h /\ e.tcp[s] = y
          /\ e.ticks = Now.ticks /\ e.crashed = Now.crashed
      BY ONLY <1>9, <2>1, SetBoth, s \in Sockets
    <2> QED BY <2>2, <1>3
  <1>14. Sound(e, s, late) BY <1>10, <1>11, <1>12, <1>13 DEF Sound, SocketInv
  <1>15. late' = late /\ doomed' = doomed /\ hasty' = hasty BY <1>1 DEF Rest
  <1>16. Used(e.sock[s]) BY <1>4, <1>8, <1>13 DEF Used
  <1>17. CASE k.destroyed
    <2>1. Becomes(e) /\ ctl' = << >> BY <1>2, <1>17 DEF AfterConnect, e
    <2>2. Calm(s) /\ \A x \in Continuations \ {"none"} : ~After(x, s)'
      BY <1>1, <1>2, <2>1, CalmCallback
    <2>3. e.tcp[s].uv = "closed" <=> tcp[s].uv = "closed" BY <1>6, <1>13
    <2> QED
      BY <1>2, <1>3, <1>5, <1>8, <1>13, <1>14, <1>15, <2>1, <2>2, <2>3, QuietStep
  <1>18. CASE ~k.destroyed /\ ~ok
    <2> DEFINE u == EmitError(d, s)
    <2>1. Becomes(u) /\ EmitLast BY <1>18 DEF AfterConnect, e, d
    <2>2. Calm(s) /\ \A x \in Continuations \ {"none"} : ~After(x, s)'
      BY <1>1, <1>2, <2>1, CalmCallback
    <2>3. /\ d \in State /\ Sound(d, s, late) /\ Forward(e, d, s) /\ d.crashed = e.crashed
          /\ d.sock[s].handle => ~e.sock[s].ended
          /\ d.sock[s].ended = e.sock[s].ended
          /\ (d.sock[s].destroyed \/ d.sock[s].destroyOnFinish)
          /\ d.sock[s].ready = e.sock[s].ready /\ (d.tcp[s].reading => e.tcp[s].reading)
      <3>1. /\ e \in State /\ late \in BOOLEAN /\ Sound(e, s, late) /\ Used(e.sock[s])
            /\ d = SocketDestroy(e, s)
        BY <1>3, <1>13, <1>14, <1>16 DEF d
      <3> QED BY ONLY <3>1, SocketDestroyKeeps, s \in Sockets
    <2>4. Failing(d, s)
      BY <2>3, <1>2, <1>4, <1>6, <1>8, <1>13, <1>16 DEF Failing, Forward, Used
    <2> HIDE DEF u
    <2>5. /\ u \in State /\ Sound(u, s, late) /\ Local(d, u, s) /\ (u.crashed => late)
          /\ d.sock[s].destroyed => u.sock[s].destroyed
          /\ d.sock[s].destroyOnFinish => u.sock[s].destroyOnFinish
          /\ u.sock[s].handle => d.sock[s].handle
          /\ u.tcp[s].uv = "closed" <=> d.tcp[s].uv = "closed"
          /\ u.sock[s].destroyOnFinish /\ u.sock[s].ended /\ u.sock[s].handle =>
                d.sock[s].destroyOnFinish /\ d.sock[s].ended
      <3>1. /\ d \in State /\ Sound(d, s, late) /\ late \in BOOLEAN /\ Failing(d, s)
            /\ u = EmitError(d, s)
        BY <1>3, <2>3, <2>4 DEF u
      <3> QED BY ONLY <3>1, EmitErrorKeeps, s \in Sockets
    <2>6. Local(e, u, s) BY <2>3, <2>5, <1>13, LocalTrans DEF Forward
    <2>7. Local(Now, u, s) BY <2>5, <2>6, <1>3, <1>13, LocalTrans
    <2>8. u.tcp[s].uv = "closed" <=> tcp[s].uv = "closed"
      BY <2>3, <2>5, <1>6, <1>13 DEF Forward
    <2>9. ~(u.sock[s].destroyOnFinish /\ u.sock[s].ended /\ u.sock[s].handle)
      BY <2>3, <2>5
    <2>10. u.sock[s].destroyed \/ u.sock[s].destroyOnFinish BY <2>3, <2>5
    <2>11. u.crashed => ~Orderly' BY <2>5, <1>15 DEF Orderly
    <2> QED
      BY <1>2, <1>3, <1>15, <2>1, <2>2, <2>5, <2>7, <2>8, <2>9, <2>10, <2>11, QuietStep
  <1>19. CASE ~k.destroyed /\ ok
    <2>1. Becomes(w) /\ EmitLast BY <1>19 DEF AfterConnect, e, w
    <2>2. Calm(s) /\ \A x \in Continuations \ {"none"} : ~After(x, s)'
      BY <1>1, <1>2, <2>1, CalmCallback
    <2>3. /\ v \in State /\ Sound(v, s, late) /\ Local(e, v, s) /\ (v.crashed => late)
          /\ v.ticks = << >>
          /\ v.sock[s].handle = e.sock[s].handle /\ ~v.sock[s].connecting
          /\ v.sock[s].eof = e.sock[s].eof /\ ~v.sock[s].errored /\ Used(v.sock[s])
          /\ e.sock[s].destroyed => v.sock[s].destroyed
          /\ e.sock[s].destroyOnFinish => v.sock[s].destroyOnFinish
          /\ v.tcp[s].uv = "closed" <=> e.tcp[s].uv = "closed"
          /\ v.sock[s].destroyOnFinish /\ v.sock[s].ended /\ v.sock[s].handle =>
                e.sock[s].destroyOnFinish /\ e.sock[s].ended
      <3>1. /\ e \in State /\ late \in BOOLEAN /\ Sound(e, s, late) /\ Used(e.sock[s])
            /\ ~e.sock[s].ready /\ ~e.sock[s].lookup
            /\ "connect" \notin e.tcp[s].reqs /\ e.tcp[s].conn \in {"up", "shut"}
            /\ ~e.crashed /\ e.ticks = << >> /\ v = ReadyToWrite(Connected(e, s), s)
        BY <1>2, <1>3, <1>4, <1>6, <1>8, <1>13, <1>14, <1>16, <1>19 DEF v
      <3> QED BY ONLY <3>1, ConnectedKeeps, s \in Sockets
    <2>4. w = NextTick(v, "readStart", s) BY DEF w, v, OnSocketConnect, Connected
    <2>5. Plus(v, w, s) BY <2>3, <2>4 DEF Plus
    <2>6. IndexInv(v.ticks, s) /\ \A n : ~Queued(v.ticks, n, s)
      BY <2>3 DEF IndexInv, Queued
    <2>7. /\ w \in State /\ w.sock = v.sock /\ w.tcp = v.tcp /\ w.crashed = v.crashed
          /\ IndexInv(w.ticks, s)
          /\ \A n : n \notin {"connect", "readStart"} =>
                (Queued(w.ticks, n, s) <=> Queued(v.ticks, n, s))
      BY <2>3, <2>5, <2>6, PlusTicks
    <2>8. ~Queued(w.ticks, "connect", s)
      <3> DEFINE tick == [name |-> "readStart", s |-> s]
      <3>1. tick \in TickType /\ tick.name = "readStart" BY DEF TickType, TickNames
      <3>2. w.ticks = Append(v.ticks, tick) /\ v.ticks \in Seq(TickType)
        BY <2>3, <2>4 DEF NextTick, State
      <3> HIDE DEF tick
      <3> QED BY <3>1, <3>2, <2>6, QueuedAfter
    <2>9. Sound(w, s, late)
      <3>1. FlowInv(v.sock[s], v.tcp[s], w.ticks, s, late, v.crashed)
        BY <2>3, <2>7 DEF Sound, SocketInv, FlowInv
      <3> QED BY <3>1, <2>3, <2>7 DEF Sound, SocketInv
    <2>10. Local(Now, v, s) BY <2>3, <1>3, <1>13, LocalTrans
    <2>11. k.handle BY <1>3, <1>4, <1>19 DEF HandleInv
    <2>12. sock'[s] = v.sock[s] /\ ticks' = w.ticks BY <2>1, <2>7 DEF Becomes
    <2>13. ~After("lookup", s)' /\ ~Answered(s)' /\ ~After("eof", s)' /\ ~After("readError", s)'
      BY <2>2 DEF Answered, Continuations
    <2>14. ConnectInv(s)' BY <2>7, <2>8, <2>12, <2>13 DEF ConnectInv, IndexInv
    <2>15. After("none", Server)' BY <2>1 DEF EmitLast, After
    <2>16. ReadStartInv(s)'
      BY <2>3, <2>7, <2>11, <2>12, <2>15, <1>4, <1>8, <1>13 DEF ReadStartInv, IndexInv
    <2>17. DestroyInv(s)'
      BY <2>3, <2>12, <2>13, <1>5, <1>8, <1>13, <1>15 DEF DestroyInv
    <2>18. w.crashed => ~Orderly' BY <2>3, <2>7, <1>15 DEF Orderly
    <2>19. w.tcp[s].uv = "closed" <=> tcp[s].uv = "closed" BY <2>3, <2>7, <1>6, <1>13
    <2>20. Sound(w, s, late') BY <2>9, <1>15
    <2> QED
      BY <1>2, <1>3, <2>1, <2>2, <2>3, <2>5, <2>10, <2>14, <2>16, <2>17, <2>18, <2>19, <2>20,
         StepKeeps
  <1> QED BY <1>17, <1>18, <1>19

-----------------------------------------------------------------------------
(* What is read *)

\* A handle that reads is that of a socket that is connected
LEMMA ReadingState ==
    ASSUME NetInv, NEW s \in Sockets, tcp[s].reading
    PROVE  /\ sock[s].handle /\ Used(sock[s]) /\ ~sock[s].connecting /\ ~sock[s].errored
  <1>1. /\ sock[s] \in SocketType /\ HandleInv(sock[s], tcp[s]) /\ StreamInv(sock[s], tcp[s])
    BY NowState
  <1>2. sock[s].handle BY <1>1 DEF HandleInv
  <1>3. ~NewSocket.handle /\ ~[NewSocket EXCEPT !.kind = "lost"].handle BY DEF NewSocket
  <1>4. Used(sock[s]) BY <1>1, <1>2, <1>3 DEF HandleInv, Used, SocketType
  <1> QED BY <1>1, <1>2, <1>4 DEF StreamInv

\* onSocketEnd with a half-open socket, and without
Eof(st, s) == [st EXCEPT !.sock[s].eof = TRUE]

Soon(st, s) == [st EXCEPT !.sock[s].destroyOnFinish = TRUE]

\* destroySoon of a socket that is still read
LEMMA DestroySoonKeeps ==
    ASSUME NEW st \in State, NEW s \in Sockets, NEW l \in BOOLEAN, Sound(st, s, l),
           Used(st.sock[s]), st.sock[s].readable
    PROVE  LET u == DestroySoon(st, s)
               k == st.sock[s]
               j == u.sock[s]
           IN  /\ u \in State /\ Sound(u, s, l) /\ Local(st, u, s) /\ u.crashed = st.crashed
               /\ j.destroyOnFinish /\ j.kind = k.kind /\ j.connecting = k.connecting
               /\ j.errored = k.errored /\ j.eof = k.eof
               /\ u.tcp[s].uv = "closed" <=> st.tcp[s].uv = "closed"
  <1> DEFINE k == st.sock[s]
             x == IF k.writable THEN SocketEnd(st, s) ELSE st
             h == x.sock[s]
             j == [h EXCEPT !.destroyOnFinish = TRUE]
             u == DestroySoon(st, s)
  <1>1. StreamInv(k, st.tcp[s]) BY DEF Sound, SocketInv
  <1>2. /\ x \in State /\ Sound(x, s, l) /\ Forward(st, x, s) /\ x.crashed = st.crashed
        /\ h.ending
    <2>1. CASE k.writable
      <3>1. x = SocketEnd(st, s) BY <2>1
      <3> HIDE DEF x
      <3> QED BY <3>1, SocketEndKeeps
    <2>2. CASE ~k.writable BY <2>2, <1>1, ForwardSelf DEF StreamInv
    <2> QED BY <2>1, <2>2
  <1>3. u = Soon(x, s) BY DEF DestroySoon, Soon
  <1> HIDE DEF x, u
  <1>4. h \in SocketType /\ x.tcp[s] \in Handle BY <1>2 DEF State
  <1>5. j \in SocketType /\ j.server = h.server BY <1>4 DEF SocketType
  <1>6. u = [x EXCEPT !.sock[s] = j] BY <1>2, <1>3 DEF Soon
  <1>7. /\ j.destroyOnFinish /\ j.kind = h.kind /\ j.connecting = h.connecting
        /\ j.errored = h.errored /\ j.eof = h.eof
    BY <1>4 DEF SocketType
  <1>8. /\ HandleInv(h, x.tcp[s]) /\ StreamInv(h, x.tcp[s]) /\ Used(h)
        /\ FlowInv(h, x.tcp[s], x.ticks, s, l, x.crashed)
    BY <1>2 DEF Sound, SocketInv, Forward, Used
  <1>9. HandleInv(j, x.tcp[s]) BY <1>4, <1>8 DEF HandleInv, SocketType, Used
  <1>10. StreamInv(j, x.tcp[s]) BY <1>2, <1>4, <1>8 DEF StreamInv, SocketType
  <1>11. FlowInv(j, x.tcp[s], x.ticks, s, l, x.crashed) BY <1>4, <1>8 DEF FlowInv, SocketType
  <1> HIDE DEF j
  <1>12. /\ Local(x, u, s) /\ u \in State /\ u.sock[s] = j /\ u.tcp = x.tcp
         /\ u.ticks = x.ticks /\ u.crashed = x.crashed
    <2>1. x \in State /\ j \in SocketType /\ j.server = x.sock[s].server BY <1>2, <1>5
    <2> QED BY ONLY <1>6, <2>1, SetSocket, s \in Sockets
  <1>13. Local(st, u, s) BY <1>2, <1>12, LocalTrans DEF Forward
  <1>14. Sound(u, s, l) BY <1>9, <1>10, <1>11, <1>12 DEF Sound, SocketInv
  <1> QED BY <1>2, <1>7, <1>12, <1>13, <1>14 DEF Forward, u

LEMMA OnReadEofKeeps ==
    ASSUME NetInv, NEW s \in Sockets, OnReadEof(s)
    PROVE  NetInv'
  <1> DEFINE k == sock[s]
             t == tcp[s]
             h == [k EXCEPT !.eof = TRUE]
             e == Eof(Now, s)
             u == IF k.half THEN e ELSE DestroySoon(e, s)
  <1>1. Idle /\ t.reading /\ ~k.eof /\ Emit("eof", s) /\ UNCHANGED Rest BY DEF OnReadEof
  <1>2. /\ ctl = << >> /\ ticks = << >> /\ ~crashed /\ (\A n, r : ~Queued(ticks, n, r))
        /\ \A x, r : ~After(x, r)
    BY <1>1, IdleState
  <1>3. /\ Now \in State /\ Base(Now, s) /\ late \in BOOLEAN
        /\ Now.sock = sock /\ Now.tcp = tcp /\ Now.ticks = ticks /\ Now.crashed = crashed
        /\ k \in SocketType /\ t \in Handle
        /\ HandleInv(k, t) /\ StreamInv(k, t) /\ FlowInv(k, t, ticks, s, late, crashed)
        /\ DestroyInv(s)
    BY <1>2, NowState
  <1>4. k.handle /\ Used(k) /\ ~k.connecting /\ ~k.errored /\ k.readable
    BY <1>1, <1>3, ReadingState DEF StreamInv
  <1>5. e = [Now EXCEPT !.sock[s] = h] BY <1>3 DEF Eof
  <1>6. h \in SocketType /\ h.server = k.server BY <1>3 DEF SocketType
  <1>7. /\ h.eof /\ h.readable /\ ~h.connecting /\ ~h.errored /\ h.kind = k.kind
        /\ h.destroyed = k.destroyed /\ h.destroyOnFinish = k.destroyOnFinish
    BY <1>3, <1>4 DEF SocketType
  <1>8. HandleInv(h, t) BY <1>3, <1>4 DEF HandleInv, SocketType, Used
  <1>9. StreamInv(h, t) BY <1>3, <1>4 DEF StreamInv, SocketType
  <1>10. FlowInv(h, t, ticks, s, late, crashed) BY <1>3 DEF FlowInv, SocketType
  <1> HIDE DEF h, e
  <1>11. /\ Local(Now, e, s) /\ e \in State /\ e.sock[s] = h /\ e.tcp = tcp /\ e.ticks = ticks
         /\ e.crashed = crashed
    <2>1. Now \in State /\ h.server = Now.sock[s].server BY <1>3, <1>6
    <2>2. /\ Local(Now, e, s) /\ e \in State /\ e.sock[s] = h /\ e.tcp = Now.tcp
          /\ e.ticks = Now.ticks /\ e.crashed = Now.crashed
      BY ONLY <1>5, <1>6, <2>1, SetSocket, s \in Sockets
    <2> QED BY <2>2, <1>3
  <1>12. Sound(e, s, late) BY <1>8, <1>9, <1>10, <1>11 DEF Sound, SocketInv
  <1>13. MaybeDestroy(e, s) = e BY <1>7, <1>11 DEF MaybeDestroy
  <1>14. Becomes(u) BY <1>13 DEF OnReadEof, e, Eof
  <1> HIDE DEF u
  <1>15. /\ u \in State /\ Sound(u, s, late) /\ Local(e, u, s) /\ u.crashed = e.crashed
         /\ u.sock[s].destroyOnFinish \/ u.sock[s].destroyed = h.destroyed
         /\ h.destroyOnFinish => u.sock[s].destroyOnFinish
         /\ u.sock[s].kind = h.kind /\ u.sock[s].connecting = h.connecting
         /\ u.sock[s].errored = h.errored /\ u.sock[s].eof = h.eof
         /\ u.tcp[s].uv = "closed" <=> e.tcp[s].uv = "closed"
    <2>1. CASE k.half
      <3>1. u = e BY <2>1 DEF u
      <3> QED BY <3>1, <1>11, <1>12, LocalSelf
    <2>2. CASE ~k.half
      <3>1. /\ e \in State /\ late \in BOOLEAN /\ Sound(e, s, late) /\ Used(e.sock[s])
            /\ e.sock[s].readable /\ u = DestroySoon(e, s)
        BY <2>2, <1>3, <1>4, <1>7, <1>11, <1>12 DEF u, Used
      <3>2. /\ u \in State /\ Sound(u, s, late) /\ Local(e, u, s) /\ u.crashed = e.crashed
            /\ u.sock[s].destroyOnFinish /\ u.sock[s].kind = e.sock[s].kind
            /\ u.sock[s].connecting = e.sock[s].connecting
            /\ u.sock[s].errored = e.sock[s].errored /\ u.sock[s].eof = e.sock[s].eof
            /\ u.tcp[s].uv = "closed" <=> e.tcp[s].uv = "closed"
        BY ONLY <3>1, DestroySoonKeeps, s \in Sockets
      <3> QED BY <3>2, <1>11
    <2> QED BY <2>1, <2>2
  <1>16. Local(Now, u, s) BY <1>3, <1>11, <1>15, LocalTrans
  <1>17. /\ ~Queued(u.ticks, "connect", s) /\ ~Queued(u.ticks, "readStart", s)
         /\ IndexInv(u.ticks, s)
    <2>1. IndexInv(Now.ticks, s) BY <1>2, <1>3, BaseState
    <2> QED BY <1>2, <1>3, <1>15, <1>16, <2>1, LocalTicks
  <1>18. /\ late' = late /\ doomed' = doomed /\ input' \in Nat
         /\ UNCHANGED <<calls, closeEvents, serverClosed, doomed, late, reused, hasty>>
    BY <1>1 DEF Rest, NetInv, HistoryInv
  <1>19. sock' = u.sock /\ tcp' = u.tcp /\ ticks' = u.ticks BY <1>14 DEF Becomes
  <1>20. Calm(s) /\ After("eof", s)' /\ \A other : other # "eof" => ~After(other, s)'
    <2>1. "eof" \in Continuations BY DEF Continuations
    <2> QED BY <1>1, <1>18, <2>1, CalmEmit
  <1>21. ConnectInv(s)' BY <1>17, <1>19, <1>20 DEF ConnectInv, IndexInv, Answered
  <1>22. ReadStartInv(s)' BY <1>17, <1>19 DEF ReadStartInv, IndexInv
  <1>23. DestroyInv(s)'
    BY <1>3, <1>4, <1>7, <1>15, <1>18, <1>19, <1>20 DEF DestroyInv, Used
  <1>24. Plus(u, u, s) /\ Sound(u, s, late') BY <1>15, <1>18 DEF Plus
  <1>25. u.tcp[s].uv = "closed" <=> tcp[s].uv = "closed" BY <1>11, <1>15
  <1>26. ~u.crashed BY <1>2, <1>11, <1>15
  <1> QED
    BY <1>2, <1>3, <1>14, <1>15, <1>16, <1>20, <1>21, <1>22, <1>23, <1>24, <1>25, <1>26,
       StepKeeps

LEMMA OnReadErrorKeeps ==
    ASSUME NetInv, NEW s \in Sockets, OnReadError(s)
    PROVE  NetInv'
  <1>1. /\ Idle /\ tcp[s].reading /\ Emit("readError", s) /\ Becomes(Now)
        /\ input' = input + 1
        /\ UNCHANGED <<calls, closeEvents, serverClosed, doomed, late, reused, hasty>>
    BY DEF OnReadError
  <1>2. /\ ctl = << >> /\ ticks = << >> /\ ~crashed /\ \A n, r : ~Queued(ticks, n, r)
    BY <1>1, IdleState
  <1>3. /\ Now \in State /\ Base(Now, s) /\ Sound(Now, s, late)
        /\ Now.sock = sock /\ Now.tcp = tcp /\ Now.ticks = ticks /\ Now.crashed = crashed
        /\ ConnectInv(s) /\ ReadStartInv(s) /\ DestroyInv(s)
    BY <1>2, NowState
  <1>4. Used(sock[s]) /\ ~sock[s].connecting /\ ~sock[s].errored BY <1>1, ReadingState
  <1>5. Calm(s) /\ After("readError", s)' /\ \A other : other # "readError" => ~After(other, s)'
    <2>1. "readError" \in Continuations BY DEF Continuations
    <2>2. input' \in Nat BY <1>1 DEF NetInv, HistoryInv
    <2> QED BY <1>1, <2>1, <2>2, CalmEmit
  <1>6. sock' = sock /\ tcp' = tcp /\ ticks' = ticks BY <1>1, <1>3 DEF Becomes
  <1>7. ~After("eof", s) BY <1>1, IdleState
  <1>8. \A n : ~Queued(ticks', n, s) BY <1>2, <1>6
  <1>9. ConnectInv(s)' BY <1>2, <1>5, <1>6, <1>8 DEF ConnectInv, Answered
  <1>10. ReadStartInv(s)' BY <1>2, <1>6, <1>8 DEF ReadStartInv
  <1>11. DestroyInv(s)' BY <1>1, <1>3, <1>4, <1>5, <1>6, <1>7 DEF DestroyInv
  <1>12. Plus(Now, Now, s) /\ Local(Now, Now, s) /\ Sound(Now, s, late')
    BY <1>1, <1>3, LocalSelf DEF Plus
  <1> QED BY <1>1, <1>2, <1>3, <1>5, <1>9, <1>10, <1>11, <1>12, StepKeeps

-----------------------------------------------------------------------------
(* The steps that are not about a socket *)

ServerType == [handle : BOOLEAN, count : Int, t : Handle]

\* What such a step leaves alone
Aside ==
    /\ sock' = sock /\ tcp' = tcp
    /\ server' \in ServerType /\ ticks' \in Seq(TickType) /\ crashed' \in BOOLEAN
    /\ \A r \in Sockets : TicksFor(ticks, ticks', r) /\ IndexInv(ticks', r)
    /\ ctl' = ctl \/ ctl' = << >> \/ EmitLast
    /\ ctl' = ctl \/ \A then \in Continuations \ {"none"}, r \in Sockets : ~After(then, r)
    /\ closeEvents' = closeEvents /\ doomed' = doomed /\ late' = late /\ hasty' = hasty
    /\ calls' \in Nat /\ input' \in Nat /\ serverClosed' \in Nat /\ reused' \in BOOLEAN
    /\ crashed' => ~Orderly'

LEMMA AsideStep ==
    ASSUME NetInv, ~crashed, Aside, ServerInv'
    PROVE  NetInv'
  <1>1. Now' \in State
    BY DEF NetInv, Now, State, Aside, ServerType
  <1>2. CtlType' BY DEF NetInv, CtlType, Aside, EmitLast, After
  <1>3. EmitLast => \A r : \A then \in Continuations \ {"none"} : ~After(then, r)'
    <2> SUFFICES ASSUME EmitLast, NEW then \in Continuations \ {"none"}, NEW r, After(then, r)'
                 PROVE  FALSE
      OBVIOUS
    <2>1. ctl'[1].then = "none" /\ ctl'[1].then = then BY DEF EmitLast, After
    <2> QED BY <2>1
  <1>4. ASSUME NEW r \in Sockets PROVE Untouched(r)
    <2>1. \A then \in Continuations \ {"none"} : After(then, r)' <=> After(then, r)
      <3>1. CASE ctl' = ctl BY <3>1 DEF After
      <3>2. CASE ctl' # ctl
        <4>1. \A then \in Continuations \ {"none"} : ~After(then, r) BY <3>2 DEF Aside
        <4>2. ctl' = << >> => \A then : ~After(then, r)' BY DEF After
        <4> QED BY <3>2, <4>1, <4>2, <1>3 DEF Aside
      <3> QED BY <3>1, <3>2
    <2>2. ctl' = ctl \/ ctl' = << >> \/ After("none", Server)' BY DEF Aside, EmitLast, After
    <2> QED BY <2>1, <2>2 DEF Untouched, Aside
  <1>5. ASSUME NEW r \in Sockets
        PROVE  /\ SocketInv(sock[r], tcp[r], ticks, r, late, crashed)'
               /\ ConnectInv(r)' /\ ReadStartInv(r)' /\ DestroyInv(r)'
    BY <1>4, UntouchedKeeps
  <1>6. HistoryInv' BY DEF NetInv, HistoryInv, Aside
  <1> QED BY <1>1, <1>2, <1>5, <1>6 DEF NetInv

\* The queue with which such a step begins
LEMMA AsideState ==
    ASSUME NetInv, ~crashed
    PROVE  /\ server \in ServerType /\ ticks \in Seq(TickType)
           /\ sock \in [Sockets -> SocketType] /\ crashed \in BOOLEAN
           /\ calls \in Nat /\ input \in Nat /\ serverClosed \in Nat
           /\ reused \in BOOLEAN /\ HistoryInv /\ ServerInv
           /\ \A r \in Sockets : IndexInv(ticks, r) /\ TicksFor(ticks, ticks, r)
           /\ server.count = Cardinality({r \in Sockets : sock[r].server})
           /\ server.count \in Nat
  <1>1. /\ server \in ServerType /\ ticks \in Seq(TickType) /\ HistoryInv
        /\ sock \in [Sockets -> SocketType] /\ crashed \in BOOLEAN
    BY DEF NetInv, Now, State, ServerType
  <1>2. \A r \in Sockets : IndexInv(ticks, r)
    BY DEF NetInv, ConnectInv, ReadStartInv, IndexInv
  <1>3. \A r \in Sockets : TicksFor(ticks, ticks, r) BY DEF TicksFor
  <1>4. server.count = Cardinality({r \in Sockets : sock[r].server}) /\ ServerInv
    BY DEF NetInv, ServerInv
  <1>5. server.count \in Nat
    <2> DEFINE A == {r \in Sockets : sock[r].server}
    <2>1. IsFiniteSet(A) BY NetAssumption, FS_Subset
    <2> HIDE DEF A
    <2>2. Cardinality(A) \in Nat BY <2>1, FS_CardinalityType
    <2> QED BY <2>2, <1>4 DEF A
  <1> QED BY <1>1, <1>2, <1>3, <1>4, <1>5 DEF HistoryInv

\* Nothing changes but who runs
LEMMA ListenerKeeps ==
    ASSUME NetInv, ~crashed, UNCHANGED <<sock, tcp, server, ticks, crashed>>,
           UNCHANGED <<calls, closeEvents, serverClosed, doomed, late, reused, hasty>>,
           input' \in Nat, ctl' = << >> \/ EmitLast,
           ctl = << >> \/ \E r : After("none", r)
    PROVE  NetInv'
  <1>1. \A then \in Continuations \ {"none"}, r \in Sockets : ~After(then, r)
    <2> SUFFICES ASSUME NEW then \in Continuations \ {"none"}, NEW r, After(then, r)
                 PROVE  FALSE
      OBVIOUS
    <2>1. ctl # << >> BY DEF After
    <2>2. PICK x : After("none", x) BY <2>1
    <2> QED BY <2>2, AfterUnique
  <1>2. Aside
    <2>1. Orderly' = Orderly BY DEF Orderly
    <2> QED BY <1>1, <2>1, AsideState DEF Aside, HistoryInv
  <1>3. ServerInv' BY AsideState DEF ServerInv
  <1> QED BY <1>2, <1>3, AsideStep

LEMMA ScriptRunsKeeps == ASSUME NetInv, ScriptRuns PROVE NetInv'
  <1>1. /\ ctl = << >> /\ ~crashed /\ EmitLast /\ UNCHANGED <<sock, tcp, server, ticks, crashed>>
        /\ UNCHANGED <<calls, closeEvents, serverClosed, doomed, late, reused, hasty>>
        /\ input' = input
    BY DEF ScriptRuns, Idle, Rest
  <1>2. input' \in Nat BY <1>1 DEF NetInv, HistoryInv
  <1> QED BY <1>1, <1>2, ListenerKeeps

LEMMA OnConnectionErrorKeeps == ASSUME NetInv, OnConnectionError PROVE NetInv'
  <1>1. /\ ctl = << >> /\ ~crashed /\ EmitLast /\ UNCHANGED <<sock, tcp, server, ticks, crashed>>
        /\ UNCHANGED <<calls, closeEvents, serverClosed, doomed, late, reused, hasty>>
        /\ input' = input + 1
    BY DEF OnConnectionError, Idle
  <1>2. input' \in Nat BY <1>1 DEF NetInv, HistoryInv
  <1> QED BY <1>1, <1>2, ListenerKeeps

LEMMA OnReadDataKeeps == ASSUME NetInv, NEW s \in Sockets, OnReadData(s) PROVE NetInv'
  <1>1. /\ ctl = << >> /\ ~crashed /\ EmitLast /\ UNCHANGED <<sock, tcp, server, ticks, crashed>>
        /\ UNCHANGED <<calls, closeEvents, serverClosed, doomed, late, reused, hasty>>
        /\ input' = input + 1
    BY DEF OnReadData, Idle, Becomes, Now
  <1>2. input' \in Nat BY <1>1 DEF NetInv, HistoryInv
  <1> QED BY <1>1, <1>2, ListenerKeeps

\* A tick that is not about a socket
LEMMA AsideTick ==
    ASSUME NetInv, NEW name \in {"script", "listening", "serverClose"}, Tick(name, Server),
           Becomes(Later), ctl' = << >> \/ EmitLast,
           UNCHANGED <<calls, input, closeEvents, doomed, late, reused, hasty>>,
           serverClosed' \in Nat
    PROVE  NetInv'
  <1>1. ctl = << >> /\ ~crashed /\ ticks # << >> /\ Head(ticks) = [name |-> name, s |-> Server]
    BY DEF Tick
  <1>2. /\ sock' = sock /\ tcp' = tcp /\ server' = server /\ ticks' = Tail(ticks)
        /\ crashed' = crashed
    BY DEF Becomes, Later, Now
  <1>3. Head(ticks).name \notin {"finish", "afterWrite", "connect"} BY <1>1
  <1>4. ticks' \in Seq(TickType)
        /\ \A n, r : Queued(ticks', n, r) => Queued(ticks, n, r)
    BY <1>1, <1>2, AsideState, QueuedWithout
  <1>5. \A r \in Sockets : TicksFor(ticks, ticks', r) /\ IndexInv(ticks', r)
    <2> TAKE r \in Sockets
    <2>1. ticks \in Seq(TickType) /\ ticks # << >> /\ IndexInv(ticks, r)
          /\ Head(ticks).name \notin {"finish", "afterWrite", "connect"} /\ ticks' = Tail(ticks)
      BY <1>1, <1>2, <1>3, AsideState
    <2> QED BY ONLY <2>1, TailTicks
  <1>6. Aside
    <2>1. Orderly' = Orderly BY DEF Orderly
    <2>2. \A then, r : ~After(then, r) BY <1>1 DEF After
    <2> QED BY <1>1, <1>2, <1>4, <1>5, <2>1, <2>2, AsideState DEF Aside, HistoryInv
  <1>7. ServerInv' BY <1>1, <1>2, <1>4, AsideState DEF ServerInv
  <1> QED BY <1>1, <1>6, <1>7, AsideStep

LEMMA ScriptTickKeeps == ASSUME NetInv, ScriptTick PROVE NetInv'
  <1>1. /\ Tick("script", Server) \/ Tick("listening", Server)
        /\ Becomes(Later) /\ EmitLast
        /\ UNCHANGED <<calls, input, closeEvents, doomed, late, reused, hasty>>
        /\ serverClosed' = serverClosed
    BY DEF ScriptTick, Rest
  <1>2. serverClosed' \in Nat BY <1>1 DEF NetInv, HistoryInv
  <1> QED BY <1>1, <1>2, AsideTick

LEMMA NotListeningTickKeeps == ASSUME NetInv, NotListeningTick PROVE NetInv'
  <1>1. /\ Tick("listening", Server) /\ ctl = << >> /\ ctl' = ctl
        /\ Becomes(Later)
        /\ UNCHANGED <<calls, input, closeEvents, doomed, late, reused, hasty>>
        /\ serverClosed' = serverClosed
    BY DEF NotListeningTick, Rest, Tick
  <1>2. serverClosed' \in Nat /\ ctl' = << >> BY <1>1 DEF NetInv, HistoryInv
  <1> QED BY <1>1, <1>2, AsideTick

LEMMA ServerCloseTickKeeps == ASSUME NetInv, ServerCloseTick PROVE NetInv'
  <1>1. /\ Tick("serverClose", Server) /\ Becomes(Later) /\ EmitLast
        /\ UNCHANGED <<calls, input, closeEvents, doomed, late, reused, hasty>>
        /\ serverClosed' = serverClosed + 1
    BY DEF ServerCloseTick
  <1>2. serverClosed' \in Nat BY <1>1 DEF NetInv, HistoryInv
  <1> QED BY <1>1, <1>2, AsideTick

\* A tick that is not about a socket is queued
LEMMA AsideAppend ==
    ASSUME NetInv, ~crashed, NEW name \in {"script", "listening", "serverClose"}
    PROVE  LET q == Append(ticks, [name |-> name, s |-> Server])
           IN  /\ q \in Seq(TickType)
               /\ \A r \in Sockets : TicksFor(ticks, q, r) /\ IndexInv(q, r)
               /\ name # "serverClose" =>
                     (Queued(q, "serverClose", Server) <=> Queued(ticks, "serverClose", Server))
  <1> DEFINE tick == [name |-> name, s |-> Server]
             q == Append(ticks, tick)
  <1>1. tick \in TickType /\ tick.name = name BY DEF TickType, TickNames
  <1> HIDE DEF tick
  <1>2. q \in Seq(TickType) BY <1>1, AsideState
  <1>3. \A r \in Sockets : TicksFor(ticks, q, r) /\ IndexInv(q, r)
    <2> TAKE r \in Sockets
    <2>1. /\ ticks \in Seq(TickType) /\ IndexInv(ticks, r) /\ tick \in TickType
          /\ tick.name \notin {"finish", "afterWrite", "connect", "readStart"}
      BY <1>1, AsideState
    <2> QED BY ONLY <2>1, AppendTicks
  <1>4. name # "serverClose" =>
           (Queued(q, "serverClose", Server) <=> Queued(ticks, "serverClose", Server))
    BY <1>1, AsideState, QueuedAfter
  <1> QED BY <1>2, <1>3, <1>4 DEF tick

\* A call of the script that is not about a socket
LEMMA AsideCall ==
    ASSUME NetInv, Call, sock' = sock, tcp' = tcp, server' \in ServerType,
           ticks' \in Seq(TickType), crashed' \in BOOLEAN,
           \A r \in Sockets : TicksFor(ticks, ticks', r) /\ IndexInv(ticks', r),
           doomed' = doomed, late' = late, hasty' = hasty, reused' \in BOOLEAN,
           crashed' => ~Orderly', ServerInv'
    PROVE  NetInv'
  <1>1. /\ ctl' = ctl /\ ~crashed /\ calls' = calls + 1 /\ input' = input
        /\ closeEvents' = closeEvents /\ serverClosed' = serverClosed
    BY DEF Call, AtScript
  <1>2. calls' \in Nat /\ input' \in Nat /\ serverClosed' \in Nat
    BY <1>1, AsideState
  <1>3. Aside BY <1>1, <1>2 DEF Aside
  <1> QED BY <1>1, <1>3, AsideStep

LEMMA DeferKeeps == ASSUME NetInv, Defer PROVE NetInv'
  <1> DEFINE q == Append(ticks, [name |-> "script", s |-> Server])
  <1>1. /\ Call /\ ~crashed /\ Becomes(NextTick(Now, "script", Server))
        /\ doomed' = doomed /\ late' = late /\ reused' = reused /\ hasty' = hasty
    BY DEF Defer, Call, AtScript
  <1>2. /\ sock' = sock /\ tcp' = tcp /\ server' = server /\ ticks' = q /\ crashed' = crashed
    BY <1>1 DEF Becomes, NextTick, Now
  <1>3. /\ q \in Seq(TickType)
        /\ \A r \in Sockets : TicksFor(ticks, q, r) /\ IndexInv(q, r)
        /\ Queued(q, "serverClose", Server) <=> Queued(ticks, "serverClose", Server)
    BY <1>1, AsideAppend
  <1> HIDE DEF q
  <1>4. ServerInv' BY <1>1, <1>2, <1>3, AsideState DEF ServerInv
  <1>5. /\ server' \in ServerType /\ crashed' \in BOOLEAN /\ reused' \in BOOLEAN
        /\ crashed' => ~Orderly'
    BY <1>1, <1>2, AsideState
  <1> QED BY <1>1, <1>2, <1>3, <1>4, <1>5, AsideCall

LEMMA TcpCloseType ==
    ASSUME NEW t \in Handle
    PROVE  TcpClose(t) \in Handle /\ TcpListen(t) \in Handle
  BY DEF Handle, TcpClose, TcpListen

LEMMA ListenKeeps == ASSUME NetInv, NEW ok \in BOOLEAN, Listen(ok) PROVE NetInv'
  <1> DEFINE t == IF server.handle THEN server.t ELSE TcpCreate
             q == Append(ticks, [name |-> "listening", s |-> Server])
             closed == [Now EXCEPT !.server.handle = TRUE, !.server.t = TcpClose(t)]
             open == [Now EXCEPT !.server.handle = TRUE, !.server.t = TcpListen(t)]
  <1>1. /\ Call /\ ~crashed
        /\ reused' = (reused \/ server.t.uv # "none" \/ "serverClose" \in QueuedTicks)
        /\ doomed' = doomed /\ late' = late /\ hasty' = hasty
    BY DEF Listen, Call, AtScript
  <1>2. server \in ServerType /\ server.t \in Handle /\ crashed \in BOOLEAN
    BY <1>1, AsideState DEF ServerType
  <1>3. t \in Handle BY <1>2, NewSocketType
  <1>4. ~reused' => ~reused /\ ~Queued(ticks, "serverClose", Server)
    BY <1>1 DEF QueuedTicks, Queued
  <1>5. reused' \in BOOLEAN BY <1>1, AsideState
  <1>6. /\ q \in Seq(TickType)
        /\ \A r \in Sockets : TicksFor(ticks, q, r) /\ IndexInv(q, r)
        /\ Queued(q, "serverClose", Server) <=> Queued(ticks, "serverClose", Server)
    BY <1>1, AsideAppend
  <1>7. /\ sock' = sock /\ tcp' = tcp
        /\ ticks' = ticks \/ ticks' = q
        /\ server' \in ServerType /\ server'.count = server.count
        /\ crashed' \in BOOLEAN /\ (crashed' => server.handle /\ server.t.uv = "closed")
    <2>1. CASE t.uv = "closed"
      <3>1. Becomes([Now EXCEPT !.crashed = TRUE]) BY <2>1 DEF Listen
      <3>2. server.handle /\ server.t.uv = "closed" BY <2>1 DEF TcpCreate, NoHandle
      <3> QED BY <3>1, <3>2, <1>2 DEF Becomes, Now
    <2>2. CASE t.uv # "closed" /\ (t.uv = "closing" \/ t.listening \/ ~ok)
      <3>1. Becomes(closed) BY <2>2 DEF Listen
      <3>2. /\ closed.sock = sock /\ closed.tcp = tcp /\ closed.ticks = ticks
            /\ closed.crashed = crashed
            /\ closed.server = [server EXCEPT !.handle = TRUE, !.t = TcpClose(t)]
        BY <1>2 DEF Now, ServerType
      <3>3. TcpClose(t) \in Handle BY <1>3, TcpCloseType
      <3> HIDE DEF closed, t
      <3> QED BY <3>1, <3>2, <3>3, <1>1, <1>2 DEF Becomes, ServerType
    <2>3. CASE t.uv # "closed" /\ ~(t.uv = "closing" \/ t.listening \/ ~ok)
      <3>1. Becomes(NextTick(open, "listening", Server)) BY <2>3 DEF Listen
      <3>2. /\ open.sock = sock /\ open.tcp = tcp /\ open.ticks = ticks
            /\ open.crashed = crashed
            /\ open.server = [server EXCEPT !.handle = TRUE, !.t = TcpListen(t)]
        BY <1>2 DEF Now, ServerType
      <3>3. TcpListen(t) \in Handle BY <1>3, TcpCloseType
      <3>4. /\ sock' = open.sock /\ tcp' = open.tcp /\ server' = open.server
            /\ crashed' = open.crashed /\ ticks' = q
        BY <3>1 DEF Becomes, NextTick, Now
      <3> HIDE DEF open, t, q
      <3> QED BY <3>2, <3>3, <3>4, <1>1, <1>2 DEF ServerType
    <2> QED BY <2>1, <2>2, <2>3
  <1>8. crashed' => ~Orderly' BY <1>1, <1>7 DEF Orderly
  <1> HIDE DEF q, t
  <1>9. ticks' \in Seq(TickType) /\ \A r \in Sockets : TicksFor(ticks, ticks', r) /\ IndexInv(ticks', r)
    BY <1>1, <1>6, <1>7, AsideState
  <1>10. ServerInv' BY <1>1, <1>4, <1>6, <1>7, AsideState DEF ServerInv
  <1> QED BY <1>1, <1>5, <1>7, <1>8, <1>9, <1>10, AsideCall

LEMMA ServerCloseKeeps == ASSUME NetInv, ServerClose PROVE NetInv'
  <1> DEFINE q == Append(ticks, [name |-> "serverClose", s |-> Server])
             e == [Now EXCEPT !.server.handle = FALSE, !.server.t = TcpClose(@)]
  <1>1. /\ Call /\ ~crashed /\ Becomes(EmitCloseIfDrained(e))
        /\ doomed' = doomed /\ late' = late /\ reused' = reused /\ hasty' = hasty
    BY DEF ServerClose, Call, AtScript
  <1>2. server \in ServerType /\ server.t \in Handle /\ crashed \in BOOLEAN
    BY <1>1, AsideState DEF ServerType
  <1>3. /\ q \in Seq(TickType)
        /\ \A r \in Sockets : TicksFor(ticks, q, r) /\ IndexInv(q, r)
    BY <1>1, AsideAppend
  <1>4. /\ e.sock = sock /\ e.tcp = tcp /\ e.ticks = ticks /\ e.crashed = crashed
        /\ e.server = [server EXCEPT !.handle = FALSE, !.t = TcpClose(@)]
    BY <1>2 DEF Now, ServerType
  <1>5. e.server \in ServerType /\ e.server.count = server.count /\ ~e.server.handle
    BY <1>2, <1>4, TcpCloseType DEF ServerType
  <1>6. /\ sock' = sock /\ tcp' = tcp /\ server' = e.server /\ crashed' = crashed
        /\ IF server.count > 0 THEN ticks' = ticks ELSE ticks' = q
    <2>1. CASE server.count > 0
      <3>1. EmitCloseIfDrained(e) = e BY <2>1, <1>5 DEF EmitCloseIfDrained
      <3> QED BY <3>1, <2>1, <1>1, <1>4 DEF Becomes
    <2>2. CASE ~(server.count > 0)
      <3>1. EmitCloseIfDrained(e) = NextTick(e, "serverClose", Server)
        BY <2>2, <1>5 DEF EmitCloseIfDrained
      <3> QED BY <3>1, <2>2, <1>1, <1>4 DEF Becomes, NextTick, Now
    <2> QED BY <2>1, <2>2
  <1> HIDE DEF e, q
  <1>7. ServerInv' BY <1>1, <1>5, <1>6, AsideState DEF ServerInv
  <1>8. /\ server' \in ServerType /\ crashed' \in BOOLEAN /\ reused' \in BOOLEAN
        /\ crashed' => ~Orderly'
    BY <1>1, <1>5, <1>6, AsideState
  <1>9. ticks' \in Seq(TickType) /\ \A r \in Sockets : TicksFor(ticks, ticks', r) /\ IndexInv(ticks', r)
    BY <1>1, <1>3, <1>6, AsideState
  <1> QED BY <1>1, <1>6, <1>7, <1>8, <1>9, AsideCall

LEMMA AfterServerCloseKeeps == ASSUME NetInv, AfterServerClose PROVE NetInv'
  <1> DEFINE e == [Now EXCEPT !.server.t.uv = "closed"]
  <1>1. /\ ctl = << >> /\ ~crashed /\ Becomes(e) /\ ctl' = ctl /\ UNCHANGED Rest
    BY DEF AfterServerClose, Idle
  <1>2. server \in ServerType /\ server.t \in Handle BY <1>1, AsideState DEF ServerType
  <1>3. /\ e.sock = sock /\ e.tcp = tcp /\ e.ticks = ticks /\ e.crashed = crashed
        /\ e.server = [server EXCEPT !.t.uv = "closed"]
    BY <1>2 DEF Now, ServerType
  <1>4. /\ e.server \in ServerType /\ e.server.count = server.count
        /\ e.server.handle = server.handle
    BY <1>2, <1>3 DEF ServerType, Handle
  <1> HIDE DEF e
  <1>5. sock' = sock /\ tcp' = tcp /\ ticks' = ticks /\ crashed' = crashed /\ server' = e.server
    BY <1>1, <1>3 DEF Becomes
  <1>6. Aside
    <2>1. Orderly' = Orderly BY <1>1 DEF Orderly, Rest
    <2> QED BY <1>1, <1>4, <1>5, <2>1, AsideState DEF Aside, Rest
  <1>7. ServerInv'
    <2>1. reused' = reused BY <1>1 DEF Rest
    <2> QED BY <1>1, <1>4, <1>5, <2>1, AsideState DEF ServerInv
  <1> QED BY <1>1, <1>6, <1>7, AsideStep

-----------------------------------------------------------------------------
(* 'close' of a socket, and a connection of the server *)

\* The ticks and the events are not about s
LEMMA IdleKeeps ==
    ASSUME NetInv, ~crashed, NEW s \in Sockets, ticks' = << >>, ctl = << >>, EmitLast,
           sock'[s] = sock[s], doomed' = doomed
    PROVE  ConnectInv(s)' /\ ReadStartInv(s)' /\ DestroyInv(s)'
  <1>1. DestroyInv(s) BY DEF NetInv
  <1>2. \A then : ~After(then, s) BY DEF After
  <1>3. \A n : ~Queued(ticks', n, s) BY DEF Queued
  <1>4. \A then : then # "none" => ~After(then, s)'
    <2>1. \A then : After(then, s)' => ctl'[1].then = "none" /\ ctl'[1].then = then
      BY DEF EmitLast, After
    <2> QED BY <2>1
  <1>5. ~After("lookup", s)' /\ ~After("eof", s)' /\ ~After("readError", s)' /\ ~Answered(s)'
    BY <1>4 DEF Answered
  <1>6. ConnectInv(s)' BY <1>3, <1>5 DEF ConnectInv
  <1>7. ReadStartInv(s)' BY <1>3 DEF ReadStartInv
  <1>8. DestroyInv(s)' BY <1>1, <1>2, <1>5 DEF DestroyInv
  <1> QED BY <1>6, <1>7, <1>8

LEMMA AfterCloseKeeps == ASSUME NetInv, NEW s \in Sockets, AfterClose(s) PROVE NetInv'
  <1> DEFINE k == sock[s]
             t == tcp[s]
             y == [t EXCEPT !.uv = "closed"]
             e == [Now EXCEPT !.tcp[s].uv = "closed"]
  <1>1. /\ Idle /\ t.uv = "closing" /\ t.reqs = {} /\ Becomes(e) /\ EmitLast
        /\ closeEvents' = [closeEvents EXCEPT ![s] = @ + 1]
        /\ UNCHANGED <<calls, input, serverClosed, doomed, late, reused, hasty>>
    BY DEF AfterClose
  <1>2. /\ ctl = << >> /\ ticks = << >> /\ ~crashed /\ (\A n, r : ~Queued(ticks, n, r))
        /\ \A x, r : ~After(x, r)
    BY <1>1, IdleState
  <1>3. /\ Now \in State
        /\ Now.sock = sock /\ Now.tcp = tcp /\ Now.ticks = ticks /\ Now.crashed = crashed
        /\ Now.server = server /\ k \in SocketType /\ t \in Handle
        /\ HandleInv(k, t) /\ StreamInv(k, t) /\ FlowInv(k, t, ticks, s, late, crashed)
    BY <1>2, NowState
  <1>4. e = [Now EXCEPT !.tcp[s] = y] BY <1>3
  <1>5. y \in Handle /\ y.uv = "closed" /\ y.reading = t.reading /\ y.reqs = t.reqs
        /\ y.conn = t.conn
    BY <1>3 DEF Handle
  <1> HIDE DEF e, y
  <1>6. /\ Local(Now, e, s) /\ e \in State /\ e.tcp[s] = y /\ e.sock = sock /\ e.ticks = ticks
        /\ e.crashed = crashed /\ e.server = server
    <2>1. /\ Local(Now, e, s) /\ e \in State /\ e.tcp[s] = y /\ e.sock = Now.sock
          /\ e.ticks = Now.ticks /\ e.crashed = Now.crashed /\ e.server = Now.server
      BY <1>3, <1>4, <1>5, SetHandle
    <2> QED BY <2>1, <1>3
  <1>7. /\ sock' = sock /\ ticks' = ticks /\ crashed' = crashed /\ server' = server
        /\ tcp'[s] = y /\ \A r \in Sockets \ {s} : tcp'[r] = tcp[r]
    BY <1>1, <1>3, <1>6 DEF Becomes, Local
  <1>8. Now' \in State
    <2>1. e = [sock |-> e.sock, tcp |-> e.tcp, server |-> e.server, ticks |-> e.ticks,
               crashed |-> e.crashed]
      BY <1>6 DEF State
    <2>2. Now' = e BY <2>1, <1>1 DEF Now, Becomes
    <2> QED BY <2>2, <1>6
  <1>9. SocketInv(k, y, ticks, s, late, crashed)
    <2>1. k.kind \notin {"none", "lost"}
      <3>1. NoHandle.uv = "none" /\ TcpCreate.uv = "open" BY DEF NoHandle, TcpCreate
      <3> QED BY <3>1, <1>1, <1>3 DEF HandleInv
    <2>2. HandleInv(k, y) BY <2>1, <1>1, <1>3, <1>5 DEF HandleInv
    <2>3. StreamInv(k, y) BY <1>3, <1>5 DEF StreamInv
    <2>4. FlowInv(k, y, ticks, s, late, crashed) BY <1>3, <1>5 DEF FlowInv
    <2> QED BY <2>2, <2>3, <2>4 DEF SocketInv
  <1>10. ASSUME NEW r \in Sockets \ {s} PROVE Untouched(r)
    <2>1. TicksFor(ticks, ticks', r) /\ IndexInv(ticks', r) BY <1>2, <1>7, AsideState
    <2>2. \A then \in Continuations \ {"none"} : ~After(then, r)'
      <3>1. \A then : After(then, r)' => ctl'[1].then = "none" /\ ctl'[1].then = then
        BY <1>1 DEF EmitLast, After
      <3> QED BY <3>1
    <2> QED BY <1>1, <1>2, <1>7, <2>1, <2>2 DEF Untouched
  <1>11. ASSUME NEW r \in Sockets
         PROVE  /\ SocketInv(sock[r], tcp[r], ticks, r, late, crashed)'
                /\ ConnectInv(r)' /\ ReadStartInv(r)' /\ DestroyInv(r)'
    <2>1. CASE r # s BY <2>1, <1>2, <1>10, UntouchedKeeps
    <2>2. CASE r = s
      <3>1. ConnectInv(s)' /\ ReadStartInv(s)' /\ DestroyInv(s)'
        BY <1>1, <1>2, <1>7, IdleKeeps
      <3>2. late' = late BY <1>1
      <3> QED BY <2>2, <3>1, <3>2, <1>7, <1>9
    <2> QED BY <2>1, <2>2
  <1>12. CtlType' BY <1>1 DEF CtlType, EmitLast, After
  <1>13. ServerInv' BY <1>1, <1>7 DEF NetInv, ServerInv
  <1>14. HistoryInv'
    <2>1. /\ closeEvents = [r \in Sockets |-> IF tcp[r].uv = "closed" THEN 1 ELSE 0]
          /\ HistoryInv
      BY DEF NetInv, HistoryInv
    <2>2. closeEvents' = [r \in Sockets |-> IF tcp'[r].uv = "closed" THEN 1 ELSE 0]
      <3>1. closeEvents[s] = 0 BY <2>1, <1>1
      <3>2. closeEvents' = [r \in Sockets |-> IF r = s THEN 1 ELSE closeEvents[r]]
        BY <3>1, <2>1, <1>1
      <3> QED BY <3>2, <2>1, <1>5, <1>7
    <2> QED BY <1>1, <1>2, <1>7, <2>1, <2>2 DEF HistoryInv
  <1> QED BY <1>8, <1>11, <1>12, <1>13, <1>14 DEF NetInv

\* uv_accept failed
LEMMA LostKeeps ==
    ASSUME NetInv, NEW s \in Sockets, NEW half, OnConnection(s, FALSE, half)
    PROVE  NetInv'
  <1> DEFINE h == [NewSocket EXCEPT !.kind = "lost"]
             e == [Now EXCEPT !.sock[s].kind = "lost", !.tcp[s] = TcpCreate]
  <1>1. Idle /\ sock[s].kind = "none" /\ Becomes(e) /\ ctl' = ctl /\ UNCHANGED Rest
    BY DEF OnConnection
  <1>2. /\ ctl = << >> /\ ticks = << >> /\ ~crashed /\ (\A n, r : ~Queued(ticks, n, r))
    BY <1>1, IdleState
  <1>3. /\ Now \in State /\ Base(Now, s)
        /\ Now.sock = sock /\ Now.tcp = tcp /\ Now.ticks = ticks /\ Now.crashed = crashed
    BY NowState
  <1>4. sock[s] = NewSocket /\ tcp[s] = NoHandle /\ s \notin doomed BY <1>1, <1>2, UnusedState
  <1>5. e = Both(Now, s, h, TcpCreate) BY <1>3, <1>4 DEF Both, State
  <1>6. /\ h \in SocketType /\ TcpCreate \in Handle /\ h.server = NewSocket.server
        /\ h.kind = "lost" /\ ~h.server /\ ~h.handle /\ ~h.ended
    BY NewSocketType DEF SocketType, NewSocket
  <1>7. HandleInv(h, TcpCreate)
    BY DEF HandleInv, NewSocket, NoHandle, TcpCreate, Used
  <1>8. StreamInv(h, TcpCreate) BY DEF StreamInv, NewSocket, NoHandle, TcpCreate
  <1>9. FlowInv(h, TcpCreate, ticks, s, late, crashed)
    BY <1>2 DEF FlowInv, NewSocket
  <1>10. TcpCreate.uv = "open" /\ NoHandle.uv = "none" BY DEF TcpCreate, NoHandle
  <1> HIDE DEF h, e
  <1>11. /\ Local(Now, e, s) /\ e \in State /\ e.sock[s] = h /\ e.tcp[s] = TcpCreate
         /\ e.ticks = Now.ticks /\ e.crashed = Now.crashed
    <2>1. Now \in State /\ h.server = Now.sock[s].server BY <1>3, <1>4, <1>6
    <2> QED BY ONLY <1>5, <1>6, <2>1, SetBoth, s \in Sockets
  <1>12. Sound(e, s, late) BY <1>3, <1>7, <1>8, <1>9, <1>11 DEF Sound, SocketInv
  <1>13. Calm(s) /\ \A x \in Continuations \ {"none"} : ~After(x, s)'
    BY <1>1, <1>2, CalmCallback
  <1>14. late' = late /\ doomed' = doomed BY <1>1 DEF Rest
  <1> QED
    BY <1>1, <1>2, <1>3, <1>4, <1>6, <1>10, <1>11, <1>12, <1>13, <1>14, QuietStep

LEMMA SocketState ==
    ASSUME NEW x \in State, NEW s \in Sockets, NEW k \in SocketType
    PROVE  [x EXCEPT !.sock[s] = k] \in State
  BY DEF State
\* onconnection, before onSocketConnect
LEMMA AcceptedState ==
    ASSUME NEW x \in State, NEW s \in Sockets, NEW half \in BOOLEAN, NEW y \in Handle
    PROVE  [x EXCEPT !.sock[s].kind = "accepted", !.sock[s].half = half,
                     !.sock[s].handle = TRUE, !.sock[s].server = TRUE,
                     !.tcp[s] = y] \in State
  <1> DEFINE a == [x EXCEPT !.sock[s].kind = "accepted"]
             b == [a EXCEPT !.sock[s].half = half]
             c == [b EXCEPT !.sock[s].handle = TRUE]
             d == [c EXCEPT !.sock[s].server = TRUE]
             e == [d EXCEPT !.tcp[s] = y]
  <1>1. [x EXCEPT !.sock[s].kind = "accepted", !.sock[s].half = half,
                              !.sock[s].handle = TRUE, !.sock[s].server = TRUE,
                              !.tcp[s] = y] = e
    OBVIOUS
  <1>2. a \in State
    <2> DEFINE k == [x.sock[s] EXCEPT !.kind = "accepted"]
    <2>1. x.sock[s] \in SocketType BY DEF State
    <2>2. k \in SocketType BY <2>1 DEF SocketType
    <2>3. a = [x EXCEPT !.sock[s] = k] OBVIOUS
    <2> HIDE DEF k, a
    <2> QED BY <2>2, <2>3, SocketState
  <1> HIDE DEF a
  <1>3. b \in State
    <2> DEFINE k == [a.sock[s] EXCEPT !.half = half]
    <2>1. a.sock[s] \in SocketType BY <1>2 DEF State
    <2>2. k \in SocketType BY <2>1 DEF SocketType
    <2>3. b = [a EXCEPT !.sock[s] = k] OBVIOUS
    <2> HIDE DEF k, b
    <2> QED BY <1>2, <2>2, <2>3, SocketState
  <1> HIDE DEF b
  <1>4. c \in State
    <2> DEFINE k == [b.sock[s] EXCEPT !.handle = TRUE]
    <2>1. b.sock[s] \in SocketType BY <1>3 DEF State
    <2>2. k \in SocketType BY <2>1 DEF SocketType
    <2>3. c = [b EXCEPT !.sock[s] = k] OBVIOUS
    <2> HIDE DEF k, c
    <2> QED BY <1>3, <2>2, <2>3, SocketState
  <1> HIDE DEF c
  <1>5. d \in State
    <2> DEFINE k == [c.sock[s] EXCEPT !.server = TRUE]
    <2>1. c.sock[s] \in SocketType BY <1>4 DEF State
    <2>2. k \in SocketType BY <2>1 DEF SocketType
    <2>3. d = [c EXCEPT !.sock[s] = k] OBVIOUS
    <2> HIDE DEF k, d
    <2> QED BY <1>4, <2>2, <2>3, SocketState
  <1> HIDE DEF d
  <1>6. e \in State BY <1>5 DEF State
  <1> HIDE DEF e
  <1> QED BY <1>1, <1>6

Counted(st) == [st EXCEPT !.server.count = @ + 1]

LEMMA AcceptedKeeps ==
    ASSUME NetInv, NEW s \in Sockets, NEW half \in BOOLEAN, OnConnection(s, TRUE, half)
    PROVE  NetInv'
  <1> DEFINE h == [NewSocket EXCEPT !.kind = "accepted", !.half = half, !.handle = TRUE,
                                    !.server = TRUE]
             y == ReadStart([TcpCreate EXCEPT !.conn = "up"])
             e == [Now EXCEPT !.sock[s].kind = "accepted", !.sock[s].half = half,
                              !.sock[s].handle = TRUE, !.sock[s].server = TRUE,
                              !.tcp[s] = ReadStart([TcpCreate EXCEPT !.conn = "up"])]
             v == ReadyToWrite(Connected(e, s), s)
             w == OnSocketConnect(e, s)
             u == Counted(w)
             tick == [name |-> "readStart", s |-> s]
  <1>1. /\ Idle /\ sock[s].kind = "none" /\ Becomes(u) /\ EmitLast /\ UNCHANGED Rest
    BY DEF OnConnection, Counted
  <1>2. /\ ctl = << >> /\ ticks = << >> /\ ~crashed /\ (\A n, r : ~Queued(ticks, n, r))
        /\ \A x, r : ~After(x, r)
    BY <1>1, IdleState
  <1>3. /\ Now \in State /\ late \in BOOLEAN
        /\ Now.sock = sock /\ Now.tcp = tcp /\ Now.ticks = ticks /\ Now.crashed = crashed
        /\ Now.server = server
    BY NowState
  <1>4. sock[s] = NewSocket /\ tcp[s] = NoHandle /\ s \notin doomed BY <1>1, <1>2, UnusedState
  <1>5. /\ e.sock = [sock EXCEPT ![s] = h] /\ e.tcp = [tcp EXCEPT ![s] = y]
        /\ e.ticks = ticks /\ e.crashed = crashed /\ e.server = server
    <2>1. e.ticks = ticks /\ e.crashed = crashed /\ e.server = server BY <1>3 DEF State
    <2>2. e.tcp = [tcp EXCEPT ![s] = y] BY <1>3 DEF State
    <2>3. e.sock = [sock EXCEPT ![s] = h]
      <3>1. sock \in [Sockets -> SocketType] BY <1>3 DEF State
      <3>2. e.sock = [sock EXCEPT ![s].kind = "accepted", ![s].half = half,
                                  ![s].handle = TRUE, ![s].server = TRUE]
        BY <1>3 DEF State
      <3>3. [sock[s] EXCEPT !.kind = "accepted", !.half = half, !.handle = TRUE,
                            !.server = TRUE] = h
        BY <1>4
      <3> HIDE DEF h, e
      <3> QED BY <3>1, <3>2, <3>3
    <2> QED BY <2>1, <2>2, <2>3
  <1>6. /\ h \in SocketType /\ h.server /\ h.handle /\ h.kind = "accepted" /\ ~h.ready
        /\ ~h.lookup /\ ~h.eof /\ ~h.destroyOnFinish /\ ~h.ended
    BY NewSocketType DEF SocketType, NewSocket
  <1>7. y \in Handle /\ y.uv = "open" /\ y.conn = "up" /\ y.reqs = {}
    BY DEF Handle, TcpCreate, NoHandle, ReadStart, Requests
  <1>8. HandleInv(h, y) BY <1>6, <1>7 DEF HandleInv, NewSocket, Used
  <1>9. StreamInv(h, y) BY <1>7 DEF StreamInv, NewSocket
  <1>10. FlowInv(h, y, ticks, s, late, crashed) BY <1>2 DEF FlowInv, NewSocket
  <1>11. w = NextTick(v, "readStart", s) BY DEF OnSocketConnect, Connected
  <1>12. tick \in TickType /\ tick.name = "readStart" /\ tick.s = s BY DEF TickType, TickNames
  <1> HIDE DEF h, y, e, v, w, u, tick
  <1>13. /\ e \in State /\ e.sock = [sock EXCEPT ![s] = h] /\ e.tcp = [tcp EXCEPT ![s] = y]
         /\ e.ticks = ticks /\ e.crashed = crashed /\ e.server = server
    <2>1. e \in State BY <1>3, <1>7, AcceptedState DEF e, y
    <2> QED BY <1>5, <2>1
  <1>14. /\ e.sock[s] = h /\ e.tcp[s] = y
         /\ \A r \in Sockets \ {s} : e.sock[r] = sock[r] /\ e.tcp[r] = tcp[r]
    BY <1>3, <1>13 DEF State
  <1>15. Sound(e, s, late) BY <1>8, <1>9, <1>10, <1>13, <1>14 DEF Sound, SocketInv
  <1>16. /\ v \in State /\ Sound(v, s, late) /\ Local(e, v, s) /\ (v.crashed => late)
         /\ v.ticks = << >> /\ v.server = e.server
         /\ v.sock[s].handle = e.sock[s].handle /\ ~v.sock[s].connecting
         /\ v.sock[s].eof = e.sock[s].eof /\ ~v.sock[s].errored /\ Used(v.sock[s])
         /\ v.sock[s].server = e.sock[s].server
         /\ v.tcp[s].uv = "closed" <=> e.tcp[s].uv = "closed"
         /\ v.sock[s].destroyOnFinish /\ v.sock[s].ended /\ v.sock[s].handle =>
               e.sock[s].destroyOnFinish /\ e.sock[s].ended
    <2>1. /\ e \in State /\ late \in BOOLEAN /\ Sound(e, s, late) /\ Used(e.sock[s])
          /\ ~e.sock[s].ready /\ ~e.sock[s].lookup
          /\ "connect" \notin e.tcp[s].reqs /\ e.tcp[s].conn \in {"up", "shut"}
          /\ ~e.crashed /\ e.ticks = << >> /\ v = ReadyToWrite(Connected(e, s), s)
      BY <1>2, <1>3, <1>6, <1>7, <1>13, <1>14, <1>15 DEF v, Used
    <2> QED BY ONLY <2>1, ConnectedKeeps, s \in Sockets
  <1>17. /\ w \in State /\ w.ticks = Append(v.ticks, tick)
         /\ w.sock = v.sock /\ w.tcp = v.tcp /\ w.crashed = v.crashed /\ w.server = v.server
    <2>1. "readStart" \in TickNames /\ s \in Sockets \cup {Server} BY DEF TickNames
    <2>2. v \in State BY <1>16
    <2> QED BY <1>11, <2>1, <2>2, AddTick DEF tick
  <1>18. /\ u \in State /\ u.sock = w.sock /\ u.tcp = w.tcp /\ u.ticks = w.ticks
         /\ u.crashed = w.crashed /\ u.server = [w.server EXCEPT !.count = @ + 1]
    BY <1>17 DEF State, Counted, u
  <1>19. /\ sock' = v.sock /\ tcp' = v.tcp /\ ticks' = Append(<< >>, tick)
         /\ crashed' = v.crashed /\ server' = [server EXCEPT !.count = @ + 1]
    BY <1>1, <1>13, <1>16, <1>17, <1>18 DEF Becomes
  <1>20. Now' \in State
    <2>1. u = [sock |-> u.sock, tcp |-> u.tcp, server |-> u.server, ticks |-> u.ticks,
               crashed |-> u.crashed]
      BY <1>18 DEF State
    <2>2. Now' = u BY <2>1, <1>1 DEF Now, Becomes
    <2> QED BY <2>2, <1>18
  <1>21. /\ \A n, r : Queued(ticks', n, r) <=> n = "readStart" /\ r = s
         /\ \A r \in Sockets : IndexInv(ticks', r)
    <2>1. \A n, r : ~Queued(<< >>, n, r) BY DEF Queued
    <2>2. << >> \in Seq(TickType) /\ \A r : IndexInv(<< >>, r) BY DEF IndexInv
    <2>3. \A n, r : Queued(ticks', n, r) <=> n = "readStart" /\ r = s
      BY <1>12, <1>19, <2>1, <2>2, QueuedAfter
    <2>4. \A r \in Sockets : IndexInv(ticks', r) BY <1>12, <1>19, <2>2, AppendTicks
    <2> QED BY <2>3, <2>4
  <1>22. late' = late /\ doomed' = doomed /\ hasty' = hasty /\ reused' = reused
         /\ closeEvents' = closeEvents /\ calls' = calls /\ input' = input
         /\ serverClosed' = serverClosed
    BY <1>1 DEF Rest
  <1>23. \A then, r : then # "none" => ~After(then, r)'
    <2>1. \A then, r : After(then, r)' => ctl'[1].then = "none" /\ ctl'[1].then = then
      BY <1>1 DEF EmitLast, After
    <2> QED BY <2>1
  <1>24. After("none", Server)' BY <1>1 DEF EmitLast, After
  <1>25. ASSUME NEW r \in Sockets \ {s}
         PROVE  sock'[r] = sock[r] /\ tcp'[r] = tcp[r] /\ Untouched(r)
    <2>1. sock'[r] = sock[r] /\ tcp'[r] = tcp[r] BY <1>14, <1>16, <1>19 DEF Local
    <2>2. TicksFor(ticks, ticks', r) BY <1>2, <1>21 DEF TicksFor
    <2> QED BY <1>2, <1>21, <1>22, <1>23, <2>1, <2>2 DEF Untouched
  <1>26. sock'[s] = v.sock[s] /\ tcp'[s] = v.tcp[s] BY <1>19
  <1>27. SocketInv(sock[s], tcp[s], ticks, s, late, crashed)'
    <2>1. \A n : n \notin {"connect", "readStart"} =>
             (Queued(ticks', n, s) <=> Queued(v.ticks, n, s))
      <3>1. \A n : ~Queued(<< >>, n, s) BY DEF Queued
      <3> QED BY <3>1, <1>16, <1>21
    <2>2. FlowInv(v.sock[s], v.tcp[s], ticks', s, late, v.crashed)
      BY <1>16, <2>1 DEF Sound, SocketInv, FlowInv
    <2> QED BY <1>16, <1>19, <1>22, <2>2 DEF Sound, SocketInv
  <1>28. ConnectInv(s)' BY <1>21, <1>23 DEF ConnectInv, IndexInv, Answered
  <1>29. ReadStartInv(s)'
    BY <1>6, <1>14, <1>16, <1>21, <1>24, <1>26 DEF ReadStartInv, IndexInv
  <1>30. DestroyInv(s)'
    BY <1>4, <1>6, <1>14, <1>16, <1>22, <1>23, <1>26 DEF DestroyInv
  <1>31. ASSUME NEW r \in Sockets
         PROVE  /\ SocketInv(sock[r], tcp[r], ticks, r, late, crashed)'
                /\ ConnectInv(r)' /\ ReadStartInv(r)' /\ DestroyInv(r)'
    <2>1. CASE r # s BY <2>1, <1>2, <1>25, UntouchedKeeps
    <2>2. CASE r = s BY <2>2, <1>27, <1>28, <1>29, <1>30
    <2> QED BY <2>1, <2>2
  <1>32. CtlType' BY <1>24 DEF CtlType
  <1>33. ServerInv'
    <2> DEFINE A == {r \in Sockets : sock[r].server}
               B == {r \in Sockets : sock'[r].server}
    <2>1. IsFiniteSet(A) BY NetAssumption, FS_Subset
    <2>2. ~NewSocket.server BY DEF NewSocket
    <2>3. s \notin A /\ B = A \cup {s} BY <1>4, <1>6, <1>14, <1>16, <1>25, <1>26, <2>2
    <2>4. server.count = Cardinality(A) /\ server \in ServerType
      BY <1>2, AsideState
    <2> HIDE DEF A, B
    <2>5. Cardinality(B) = Cardinality(A) + 1 BY <2>1, <2>3, FS_AddElement
    <2>6. server'.count = server.count + 1 BY <1>19, <2>4 DEF ServerType
    <2>7. server'.count = Cardinality(B) BY <2>4, <2>5, <2>6
    <2> QED BY <2>7, <1>21 DEF ServerInv, B
  <1>34. HistoryInv'
    <2>1. HistoryInv BY DEF NetInv
    <2>2. \A r \in Sockets : tcp'[r].uv = "closed" <=> tcp[r].uv = "closed"
      <3>1. tcp'[s].uv # "closed" /\ tcp[s].uv # "closed"
        BY <1>4, <1>7, <1>14, <1>16, <1>26 DEF NoHandle
      <3> QED BY <3>1, <1>25
    <2>3. closeEvents' = [r \in Sockets |-> IF tcp'[r].uv = "closed" THEN 1 ELSE 0]
      BY <1>22, <2>1, <2>2 DEF HistoryInv
    <2>4. crashed' => ~Orderly' BY <1>16, <1>19, <1>22 DEF Orderly
    <2> QED BY <1>22, <2>1, <2>3, <2>4 DEF HistoryInv
  <1> QED BY <1>20, <1>31, <1>32, <1>33, <1>34 DEF NetInv

-----------------------------------------------------------------------------
(* The specification *)

LEMMA ReturnKeeps == ASSUME NetInv, Return PROVE NetInv'
  <1>1. ctl # << >> /\ ~crashed /\ UNCHANGED Rest BY DEF Return, AtScript
  <1>2. After("none", Server) \/ \E then \in Continuations, s \in Sockets : After(then, s)
    BY <1>1 DEF NetInv, CtlType
  <1>3. CASE Head(ctl).then = "none"
    <2>1. \E r : After("none", r)
      <3>1. CASE After("none", Server) BY <3>1
      <3>2. CASE \E then \in Continuations, s \in Sockets : After(then, s)
        <4>1. PICK then \in Continuations, s \in Sockets : After(then, s) BY <3>2
        <4>2. Head(ctl) = [then |-> then, s |-> s] BY <4>1, AfterUnique
        <4>3. then = "none" BY <4>2, <1>3
        <4> QED BY <4>1, <4>3
      <3> QED BY <1>2, <3>1, <3>2
    <2>2. ctl' = << >> /\ UNCHANGED <<sock, tcp, server, ticks, crashed>>
      BY <1>3 DEF Return, AfterLookup, AfterLookupFailed, AfterEof, AfterReadError
    <2>3. input' \in Nat BY <1>1 DEF Rest, NetInv, HistoryInv
    <2> QED BY <1>1, <2>1, <2>2, <2>3, ListenerKeeps DEF Rest
  <1>4. CASE Head(ctl).then # "none"
    <2>1. ~After("none", Server)
      <3>1. After("none", Server) => Head(ctl) = [then |-> "none", s |-> Server] BY AfterUnique
      <3> QED BY <3>1, <1>4
    <2>2. PICK then \in Continuations, s \in Sockets : After(then, s) BY <1>2, <2>1
    <2>3. Head(ctl) = [then |-> then, s |-> s] BY <2>2, AfterUnique
    <2>4. Head(ctl).then = then /\ Head(ctl).s = s BY <2>3
    <2>5. \/ AfterLookup(s) \/ AfterLookupFailed(s) \/ AfterEof(s) \/ AfterReadError(s)
      BY <1>4, <2>4 DEF Return
    <2>6. CASE AfterLookup(s)
      <3>1. After("lookup", s) BY <2>2, <2>4, <2>6 DEF AfterLookup
      <3> QED BY <3>1, <2>6, <1>1, AfterLookupKeeps
    <2>7. CASE AfterLookupFailed(s)
      <3>1. After("lookupFailed", s) BY <2>2, <2>4, <2>7 DEF AfterLookupFailed
      <3> QED BY <3>1, <2>7, <1>1, AfterLookupFailedKeeps
    <2>8. CASE AfterEof(s)
      <3>1. After("eof", s) BY <2>2, <2>4, <2>8 DEF AfterEof
      <3> QED BY <3>1, <2>8, <1>1, AfterEofKeeps
    <2>9. CASE AfterReadError(s)
      <3>1. After("readError", s) BY <2>2, <2>4, <2>9 DEF AfterReadError
      <3> QED BY <3>1, <2>9, <1>1, AfterReadErrorKeeps
    <2> QED BY <2>5, <2>6, <2>7, <2>8, <2>9
  <1> QED BY <1>3, <1>4

LEMMA OnConnectionKeeps ==
    ASSUME NetInv, NEW s \in Sockets, NEW accepted \in BOOLEAN, NEW half \in BOOLEAN,
           OnConnection(s, accepted, half)
    PROVE  NetInv'
  <1>1. CASE accepted = TRUE BY <1>1, AcceptedKeeps
  <1>2. CASE accepted = FALSE BY <1>2, LostKeeps
  <1> QED BY <1>1, <1>2

LEMMA NetInvInit == NetInit => NetInv
  <1> SUFFICES ASSUME NetInit PROVE NetInv OBVIOUS
  <1>1. /\ sock = [s \in Sockets |-> NewSocket] /\ tcp = [s \in Sockets |-> NoHandle]
        /\ server = [handle |-> FALSE, count |-> 0, t |-> NoHandle]
        /\ ticks = << >> /\ ctl = << >> /\ crashed = FALSE
    BY DEF NetInit
  <1>2. Now \in State
    <2>1. sock \in [Sockets -> SocketType] /\ tcp \in [Sockets -> Handle]
      BY <1>1, NewSocketType
    <2>2. server \in [handle : BOOLEAN, count : Int, t : Handle] BY <1>1, NewSocketType
    <2>3. << >> \in Seq(TickType) OBVIOUS
    <2>4. ticks \in Seq(TickType) BY <1>1, <2>3
    <2>5. crashed \in BOOLEAN BY <1>1
    <2> QED BY <2>1, <2>2, <2>4, <2>5 DEF Now, State
  <1>3. CtlType BY <1>1 DEF CtlType
  <1>4. HistoryInv
    <2>1. \A s \in Sockets : tcp[s].uv # "closed" BY <1>1 DEF NoHandle
    <2> QED BY <2>1, <1>1 DEF NetInit, HistoryInv, Orderly
  <1>5. \A n, s : ~Queued(ticks, n, s) BY <1>1 DEF Queued
  <1>6. \A then, s : ~After(then, s) BY <1>1 DEF After
  <1>7. ASSUME NEW s \in Sockets
        PROVE  /\ SocketInv(sock[s], tcp[s], ticks, s, late, crashed)
               /\ ConnectInv(s) /\ ReadStartInv(s) /\ DestroyInv(s)
    <2>1. sock[s] = NewSocket /\ tcp[s] = NoHandle BY <1>1
    <2>2. HandleInv(NewSocket, NoHandle) BY DEF HandleInv, NewSocket, NoHandle, Used
    <2>3. StreamInv(NewSocket, NoHandle) BY DEF StreamInv, NewSocket, NoHandle
    <2>4. FlowInv(NewSocket, NoHandle, ticks, s, late, crashed)
      BY <1>5 DEF FlowInv, NewSocket
    <2>5. ConnectInv(s) BY <1>1, <1>5, <1>6 DEF ConnectInv, Answered
    <2>6. ReadStartInv(s) BY <1>1, <1>5 DEF ReadStartInv
    <2>7. DestroyInv(s) BY <1>6, <2>1 DEF DestroyInv, NetInit, NewSocket
    <2> QED BY <2>1, <2>2, <2>3, <2>4, <2>5, <2>6, <2>7 DEF SocketInv
  <1>8. ServerInv
    <2>1. {s \in Sockets : sock[s].server} = {} BY <1>1 DEF NewSocket
    <2>2. Cardinality({}) = 0 BY FS_EmptySet
    <2> QED BY <1>1, <1>5, <2>1, <2>2 DEF ServerInv
  <1> QED BY <1>2, <1>3, <1>4, <1>7, <1>8 DEF NetInv

LEMMA NetInvNext == NetInv /\ [NetNext]_netVars => NetInv'
  <1> SUFFICES ASSUME NetInv, [NetNext]_netVars PROVE NetInv' OBVIOUS
  <1>1. CASE ScriptCall
    <2>1. ASSUME NEW s \in Sockets, NEW half \in BOOLEAN, NEW asked \in BOOLEAN,
                 Connect(s, half, asked)
          PROVE  NetInv'
      BY <2>1, ConnectKeeps
    <2>2. ASSUME NEW s \in Sockets, OpenPipe(s) PROVE NetInv' BY <2>2, OpenPipeKeeps
    <2>3. ASSUME NEW s \in Sockets, Write(s) PROVE NetInv' BY <2>3, WriteKeeps
    <2>4. ASSUME NEW s \in Sockets, End(s) PROVE NetInv' BY <2>4, EndKeeps
    <2>5. ASSUME NEW s \in Sockets, Destroy(s) PROVE NetInv' BY <2>5, DestroyKeeps
    <2>6. ASSUME NEW ok \in BOOLEAN, Listen(ok) PROVE NetInv' BY <2>6, ListenKeeps
    <2>7. CASE ServerClose BY <2>7, ServerCloseKeeps
    <2>8. CASE Defer BY <2>8, DeferKeeps
    <2> QED BY <1>1, <2>1, <2>2, <2>3, <2>4, <2>5, <2>6, <2>7, <2>8 DEF ScriptCall
  <1>2. CASE Return BY <1>2, ReturnKeeps
  <1>3. CASE TickRuns
    <2>1. ASSUME NEW s \in Sockets, FinishTick(s) PROVE NetInv' BY <2>1, FinishTickKeeps
    <2>2. ASSUME NEW s \in Sockets, NEW ok \in BOOLEAN, ConnectTick(s, ok) PROVE NetInv'
      BY <2>2, ConnectTickKeeps
    <2>3. ASSUME NEW s \in Sockets, ReadStartTick(s) PROVE NetInv' BY <2>3, ReadStartTickKeeps
    <2>4. ASSUME NEW s \in Sockets, AfterWriteTick(s) PROVE NetInv' BY <2>4, AfterWriteTickKeeps
    <2>5. CASE ScriptTick BY <2>5, ScriptTickKeeps
    <2>6. CASE NotListeningTick BY <2>6, NotListeningTickKeeps
    <2>7. CASE ServerCloseTick BY <2>7, ServerCloseTickKeeps
    <2> QED BY <1>3, <2>1, <2>2, <2>3, <2>4, <2>5, <2>6, <2>7 DEF TickRuns
  <1>4. CASE ScriptRuns BY <1>4, ScriptRunsKeeps
  <1>5. ASSUME NEW s \in Sockets, Completion(s) PROVE NetInv'
    <2>1. ASSUME NEW ok \in BOOLEAN, AfterGetAddrInfo(s, ok) PROVE NetInv'
      BY <2>1, AfterGetAddrInfoKeeps
    <2>2. ASSUME NEW ok \in BOOLEAN, AfterConnect(s, ok) PROVE NetInv'
      BY <2>2, AfterConnectKeeps
    <2>3. CASE AfterWrite(s) BY <2>3, AfterWriteKeeps
    <2>4. CASE AfterShutdown(s) BY <2>4, AfterShutdownKeeps
    <2>5. CASE AfterClose(s) BY <2>5, AfterCloseKeeps
    <2> QED BY <1>5, <2>1, <2>2, <2>3, <2>4, <2>5 DEF Completion
  <1>6. ASSUME NEW s \in Sockets, OnReadData(s) PROVE NetInv' BY <1>6, OnReadDataKeeps
  <1>7. ASSUME NEW s \in Sockets, OnReadEof(s) PROVE NetInv' BY <1>7, OnReadEofKeeps
  <1>8. ASSUME NEW s \in Sockets, OnReadError(s) PROVE NetInv' BY <1>8, OnReadErrorKeeps
  <1>9. ASSUME NEW s \in Sockets, NEW accepted \in BOOLEAN, NEW half \in BOOLEAN,
               OnConnection(s, accepted, half)
        PROVE  NetInv'
    BY <1>9, OnConnectionKeeps
  <1>10. CASE OnConnectionError BY <1>10, OnConnectionErrorKeeps
  <1>11. CASE AfterServerClose BY <1>11, AfterServerCloseKeeps
  <1>12. CASE UNCHANGED netVars
    <2>1. /\ sock' = sock /\ tcp' = tcp /\ server' = server /\ ticks' = ticks /\ ctl' = ctl
          /\ crashed' = crashed /\ calls' = calls /\ input' = input
          /\ closeEvents' = closeEvents /\ serverClosed' = serverClosed /\ doomed' = doomed
          /\ late' = late /\ reused' = reused /\ hasty' = hasty
      BY <1>12 DEF netVars
    <2>2. CtlType' <=> CtlType BY <2>1 DEF CtlType, After
    <2>3. HistoryInv' <=> HistoryInv BY <2>1 DEF HistoryInv, Orderly
    <2>4. ServerInv' <=> ServerInv BY <2>1 DEF ServerInv
    <2>5. \A s \in Sockets : /\ ConnectInv(s)' <=> ConnectInv(s)
                             /\ ReadStartInv(s)' <=> ReadStartInv(s)
                             /\ DestroyInv(s)' <=> DestroyInv(s)
      BY <2>1 DEF ConnectInv, ReadStartInv, DestroyInv, Answered, After
    <2>6. Now' = Now BY <2>1 DEF Now
    <2> QED BY <2>1, <2>2, <2>3, <2>4, <2>5, <2>6 DEF NetInv
  <1> QED
    BY <1>1, <1>2, <1>3, <1>4, <1>5, <1>6, <1>7, <1>8, <1>9, <1>10, <1>11, <1>12 DEF NetNext

\* NetInv is an invariant of the sockets and the server.
THEOREM NetInvariance == NetSpec => []NetInv
  BY NetInvInit, NetInvNext, PTL DEF NetSpec

\* Of net.js and its handles (HandlesAccountedFor): unless the script itself writes
\* after end(), listens twice or destroys a socket that is about to start, no function
\* uses a handle that was closed; a socket has its handle exactly while uv has it open;
\* no request outlives its handle, and 'close' comes once; _socketCount is right.
THEOREM HandlesAreAccountedFor == NetSpec => []HandlesAccountedFor
  <1>1. NetInv => HandlesAccountedFor
    <2> SUFFICES ASSUME NetInv PROVE HandlesAccountedFor OBVIOUS
    <2>1. Orderly => ~crashed BY DEF NetInv, HistoryInv
    <2>2. \A s \in Sockets : HandleInv(sock[s], tcp[s]) BY DEF NetInv, SocketInv
    <2>3. \A s \in Sockets : tcp[s].uv = "closed" => closeEvents[s] = 1
      BY DEF NetInv, HistoryInv
    <2>4. \A s \in Sockets : IsSocket(s) => (sock[s].handle <=> tcp[s].uv = "open")
      BY <2>2 DEF HandleInv, IsSocket, Used
    <2>5. \A s \in Sockets : tcp[s].uv = "closed" => tcp[s].reqs = {}
      BY <2>2 DEF HandleInv
    <2>6. {s \in Sockets : sock[s].kind = "accepted" /\ sock[s].handle}
             = {s \in Sockets : sock[s].server}
      BY <2>2 DEF HandleInv
    <2>7. server.count = Cardinality({s \in Sockets : sock[s].server})
      BY DEF NetInv, ServerInv
    <2> QED BY <2>1, <2>3, <2>4, <2>5, <2>6, <2>7 DEF HandlesAccountedFor
  <1> QED BY NetInvariance, <1>1, PTL

\* A destroy() that waits for 'finish' is not forgotten (DestroyIsDone): once uv has
\* answered everything, a socket that was to be destroyed is closed, or chunks wait for
\* a stream that nobody makes ready.
THEOREM DestroyIsNotForgotten == NetSpec => []DestroyIsDone
  <1>1. NetInv => DestroyIsDone
    <2> SUFFICES ASSUME NetInv, NEW s \in Sockets, IsSocket(s), Settled(s),
                        s \in doomed \/ sock[s].destroyOnFinish, tcp[s].uv # "closed"
                 PROVE  NeverReady(s)
      BY DEF DestroyIsDone
    <2>1. /\ Idle /\ ~crashed /\ (\A n, r : ~Queued(ticks, n, r)) /\ \A then, r : ~After(then, r)
      BY IdleState DEF Settled
    <2>2. /\ sock[s] \in SocketType /\ tcp[s] \in Handle
          /\ HandleInv(sock[s], tcp[s]) /\ StreamInv(sock[s], tcp[s])
          /\ FlowInv(sock[s], tcp[s], ticks, s, late, crashed) /\ DestroyInv(s)
      BY <2>1, NowState
    <2>3. sock[s].handle /\ ~sock[s].destroyed
      BY <2>2 DEF HandleInv, IsSocket, Used, Settled, Handle
    <2>4. sock[s].destroyOnFinish /\ ~sock[s].ended BY <2>1, <2>2, <2>3 DEF DestroyInv
    <2>5. sock[s].ending BY <2>2, <2>4 DEF StreamInv
    <2>6. ~sock[s].writing BY <2>1, <2>2 DEF FlowInv, Settled
    <2>7. sock[s].chunks # 0 BY <2>1, <2>2, <2>4, <2>5, <2>6 DEF FlowInv
    <2>8. ~sock[s].ready BY <2>2, <2>6, <2>7 DEF FlowInv
    <2>9. sock[s].chunks > 0
      <3>1. sock[s].chunks \in Nat BY <2>2 DEF SocketType
      <3> QED BY <3>1, <2>7
    <2> QED BY <2>8, <2>9 DEF NeverReady
  <1> QED BY NetInvariance, <1>1, PTL

\* The server's 'close' is its last event (ServerCloseIsLast): when it comes, the
\* server has no handle and every connection is closed, unless it listened again.
THEOREM ServerClosesLast == NetSpec => ServerCloseIsLast
  <1>1. NetInv /\ [NetNext]_netVars =>
           [serverClosed' > serverClosed /\ ~reused
               => ~server.handle
                  /\ \A s \in Sockets : sock[s].kind = "accepted" => ~sock[s].handle]_netVars
    <2> SUFFICES ASSUME NetInv, [NetNext]_netVars, serverClosed' > serverClosed, ~reused
                 PROVE  /\ ~server.handle
                        /\ \A s \in Sockets : sock[s].kind = "accepted" => ~sock[s].handle
      OBVIOUS
    <2>1. serverClosed \in Nat BY DEF NetInv, HistoryInv
    <2>2. serverClosed' # serverClosed BY <2>1
    <2>3. ServerCloseTick
      <3>1. ~ScriptCall
        <4>1. ~Call BY <2>2 DEF Call
        <4>2. \A s \in Sockets, half \in BOOLEAN, asked \in BOOLEAN : ~Connect(s, half, asked)
          BY <4>1 DEF Connect
        <4>3. \A s \in Sockets : ~OpenPipe(s) /\ ~Write(s) BY <4>1 DEF OpenPipe, Write
        <4>4. \A s \in Sockets : ~End(s) /\ ~Destroy(s) BY <4>1 DEF End, Destroy
        <4>5. \A ok \in BOOLEAN : ~Listen(ok) BY <4>1 DEF Listen
        <4>6. ~ServerClose /\ ~Defer BY <4>1 DEF ServerClose, Defer
        <4> QED BY <4>2, <4>3, <4>4, <4>5, <4>6 DEF ScriptCall
      <3>2. ~Return BY <2>2 DEF Return, Rest
      <3>3. /\ \A s \in Sockets : ~FinishTick(s) /\ ~ReadStartTick(s) /\ ~AfterWriteTick(s)
            /\ \A s \in Sockets, ok \in BOOLEAN : ~ConnectTick(s, ok)
            /\ ~ScriptTick /\ ~NotListeningTick
        BY <2>2 DEF FinishTick, ReadStartTick, AfterWriteTick, ConnectTick, ScriptTick,
                    NotListeningTick, Rest
      <3>4. ~ScriptRuns /\ ~OnConnectionError /\ ~AfterServerClose
        BY <2>2 DEF ScriptRuns, OnConnectionError, AfterServerClose, Rest
      <3>5. \A s \in Sockets : ~Completion(s)
        <4> TAKE s \in Sockets
        <4>1. \A ok \in BOOLEAN : ~AfterGetAddrInfo(s, ok) /\ ~AfterConnect(s, ok)
          BY <2>2 DEF AfterGetAddrInfo, AfterConnect, Rest
        <4>2. ~AfterWrite(s) /\ ~AfterShutdown(s) /\ ~AfterClose(s)
          BY <2>2 DEF AfterWrite, AfterShutdown, AfterClose, Rest
        <4> QED BY <4>1, <4>2 DEF Completion
      <3>6. \A s \in Sockets : ~OnReadData(s) /\ ~OnReadEof(s) /\ ~OnReadError(s)
        BY <2>2 DEF OnReadData, OnReadEof, OnReadError, Rest
      <3>7. \A s \in Sockets, a \in BOOLEAN, half \in BOOLEAN : ~OnConnection(s, a, half)
        BY <2>2 DEF OnConnection, Rest
      <3>8. ~UNCHANGED netVars BY <2>2 DEF netVars
      <3> QED BY <3>1, <3>2, <3>3, <3>4, <3>5, <3>6, <3>7, <3>8 DEF NetNext, TickRuns
    <2>4. /\ ~crashed /\ ticks # << >> /\ Head(ticks) = [name |-> "serverClose", s |-> Server]
      BY <2>3 DEF ServerCloseTick, Tick
    <2>5. Queued(ticks, "serverClose", Server)
      <3>1. ticks \in Seq(TickType) BY <2>4, AsideState
      <3>2. Head(ticks) = ticks[1] /\ 1 \in DOMAIN ticks BY <3>1, <2>4
      <3> QED BY <3>2, <2>4 DEF Queued
    <2>6. ~server.handle /\ server.count = 0 BY <2>5 DEF NetInv, ServerInv
    <2>7. {s \in Sockets : sock[s].server} = {}
      <3> DEFINE A == {s \in Sockets : sock[s].server}
      <3>1. IsFiniteSet(A) BY NetAssumption, FS_Subset
      <3>2. Cardinality(A) = 0 BY <2>6 DEF NetInv, ServerInv
      <3> HIDE DEF A
      <3>3. A = {} BY <3>1, <3>2, FS_EmptySet
      <3> QED BY <3>3 DEF A
    <2>8. \A s \in Sockets : HandleInv(sock[s], tcp[s]) BY DEF NetInv, SocketInv
    <2> QED BY <2>6, <2>7, <2>8 DEF HandleInv
  <1> QED BY NetInvariance, <1>1, PTL DEF NetSpec, ServerCloseIsLast
=============================================================================
