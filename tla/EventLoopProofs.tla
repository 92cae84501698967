--------------------------- MODULE EventLoopProofs ---------------------------
(***************************************************************************)
(* The order of ticks and immediates, the one 'exit' event, and that       *)
(* nothing queued waits while the loop blocks or ends, for any number of   *)
(* handles, ticks, immediates and nested callbacks.                        *)
(***************************************************************************)
EXTENDS EventLoop, SequenceTheorems, TLAPS

Frames == JSFrames \cup NativeFrames
Phases == {"main", "poll", "check", "endTurn", "decide", "exit", "dead"}

\* The ticks that were not run are the last ones queued, in order
TickInv ==
    /\ nextTickQueue \in Seq(Nat) /\ ranTicks \in Seq(Nat)
    /\ tickPos \in Nat /\ ticks \in Nat
    /\ tickPos <= Len(nextTickQueue)
    /\ Len(ranTicks) + Len(nextTickQueue) = ticks + tickPos
    /\ \A i \in 1..Len(ranTicks) : ranTicks[i] = i
    /\ \A i \in 1..Len(nextTickQueue) :
          nextTickQueue[i] = Len(ranTicks) - tickPos + i

\* What _onUVCheck has left comes before what was queued since
ImmediateOrder ==
    /\ callbacks \in Seq(Nat) /\ immediateQueue \in Seq(Nat) /\ ranImmediates \in Seq(Nat)
    /\ immediates \in Nat
    /\ Len(ranImmediates) + Len(callbacks) + Len(immediateQueue) = immediates
    /\ \A i \in 1..Len(ranImmediates) : ranImmediates[i] = i
    /\ \A i \in 1..Len(callbacks) : callbacks[i] = Len(ranImmediates) + i
    /\ \A i \in 1..Len(immediateQueue) :
          immediateQueue[i] = Len(ranImmediates) + Len(callbacks) + i

\* The list of _onUVCheck lives as long as its frame, and the check handle is
\* started as long as there is something to run
CheckState ==
    phase # "dead" =>
        IF Contains(stack, "check")
        THEN checkActive
        ELSE callbacks = << >> /\ (checkActive <=> immediateQueue # << >>)

StackTypes ==
    /\ stack \in Seq(Frames)
    /\ phase \in Phases
    /\ \A i \in 1..Len(stack) : stack[i] = "check" => i = 1

\* The listeners of 'exit' are never left: emitExit is on the stack once it was
\* called, until the process is dead
ExitState ==
    /\ exitEvents = IF exiting THEN 1 ELSE 0
    /\ IF phase = "dead"
       THEN exiting /\ stack = << >>
       ELSE exiting <=> Contains(stack, "exit") \/ Contains(stack, "exitCall")

\* Before the loop blocks or ends the last frame to return is that of _onNextTick
TurnState ==
    /\ phase = "decide" =>
          IF stack = << >> THEN nextTickQueue = << >> ELSE stack[1] = "drain"
    /\ "main" \notin Throwers /\ phase = "main" =>
          IF stack = << >> THEN nextTickQueue = << >> ELSE stack[1] \in {"main", "drain"}
    /\ "main" \notin Throwers /\ phase = "poll" /\ ~polled =>
          stack = << >> /\ nextTickQueue = << >>

\* The inductive invariant
IInv == TickInv /\ ImmediateOrder /\ CheckState /\ StackTypes /\ ExitState /\ TurnState

-----------------------------------------------------------------------------
(* Sequences *)

\* What is left of a stack when its last frame is gone
LEMMA PopFacts ==
    ASSUME NEW S, NEW s \in Seq(S), s # << >>
    PROVE  /\ Front(s) \in Seq(S)
           /\ Len(s) \in Nat \ {0} /\ Len(Front(s)) = Len(s) - 1
           /\ \A i \in 1..(Len(s) - 1) : Front(s)[i] = s[i]
           /\ Len(s) = 1 => Front(s) = << >>
           /\ Last(s) = s[Len(s)] /\ Last(s) \in S
  <1> DEFINE n == Len(s)
  <1>1. n \in Nat \ {0} OBVIOUS
  <1>2. 1 \in Int /\ n - 1 \in Int /\ \A i \in 1..(n - 1) : s[i] \in S BY <1>1
  <1>3. /\ SubSeq(s, 1, n - 1) \in Seq(S)
        /\ Len(SubSeq(s, 1, n - 1)) = n - 1
        /\ \A i \in 1..(n - 1) : SubSeq(s, 1, n - 1)[i] = s[i]
    <2>1. /\ SubSeq(s, 1, n - 1) \in Seq(S)
          /\ Len(SubSeq(s, 1, n - 1)) = IF 1 <= n - 1 THEN (n - 1) - 1 + 1 ELSE 0
          /\ \A i \in 1..((n - 1) - 1 + 1) : SubSeq(s, 1, n - 1)[i] = s[1 + i - 1]
      BY ONLY <1>2, SubSeqProperties
    <2>2. (n - 1) - 1 + 1 = n - 1 /\ \A i \in 1..(n - 1) : 1 + i - 1 = i BY <1>1
    <2> QED BY <1>1, <2>1, <2>2
  <1>4. /\ Front(s) \in Seq(S) /\ Len(Front(s)) = n - 1
        /\ \A i \in 1..(n - 1) : Front(s)[i] = s[i]
    BY <1>3 DEF Front
  <1>5. n = 1 => Front(s) = << >> BY <1>4
  <1>6. Last(s) = s[n] /\ Last(s) \in S BY <1>1 DEF Last
  <1> QED BY <1>1, <1>4, <1>5, <1>6

\* A frame that is called
LEMMA PushFacts ==
    ASSUME NEW S, NEW s \in Seq(S), NEW f \in S
    PROVE  /\ Append(s, f) \in Seq(S)
           /\ Append(s, f) # << >>
           /\ Len(s) \in Nat /\ Len(Append(s, f)) = Len(s) + 1
           /\ \A i \in 1..Len(s) : Append(s, f)[i] = s[i]
           /\ Append(s, f)[Len(s) + 1] = f
  OBVIOUS

\* The first of a queue is taken
LEMMA TailFacts ==
    ASSUME NEW S, NEW s \in Seq(S), s # << >>
    PROVE  /\ Tail(s) \in Seq(S) /\ Head(s) \in S /\ Head(s) = s[1]
           /\ Len(s) \in Nat \ {0} /\ Len(Tail(s)) = Len(s) - 1
           /\ \A i \in 1..(Len(s) - 1) : Tail(s)[i] = s[i + 1]
  OBVIOUS

-----------------------------------------------------------------------------
(* Ticks *)

\* process.nextTick queues the next number
LEMMA NextTickTicks ==
    ASSUME TickInv, NextTick PROVE TickInv'
  <1> USE DEF TickInv
  <1>1. /\ nextTickQueue' = Append(nextTickQueue, ticks + 1) /\ ticks' = ticks + 1
        /\ UNCHANGED <<tickPos, ranTicks>>
    BY DEF NextTick
  <1>2. ticks + 1 \in Nat /\ ticks' \in Nat BY <1>1
  <1>3. /\ nextTickQueue' \in Seq(Nat) /\ Len(nextTickQueue) \in Nat
        /\ Len(nextTickQueue') = Len(nextTickQueue) + 1
        /\ \A i \in 1..Len(nextTickQueue) : nextTickQueue'[i] = nextTickQueue[i]
        /\ nextTickQueue'[Len(nextTickQueue) + 1] = ticks + 1
    BY <1>1, <1>2, PushFacts
  <1>4. Len(ranTicks) \in Nat OBVIOUS
  <1> QED BY <1>1, <1>2, <1>3, <1>4

\* _onNextTick runs the next number, and empties the queue when all were run
LEMMA DrainTicksTicks ==
    ASSUME TickInv, DrainTicks PROVE TickInv'
  <1> USE DEF TickInv
  <1>0. Len(ranTicks) \in Nat /\ Len(nextTickQueue) \in Nat /\ ticks' = ticks
    BY DEF DrainTicks
  <1>1. CASE tickPos < Len(nextTickQueue)
    <2>1. /\ tickPos' = tickPos + 1
          /\ ranTicks' = Append(ranTicks, nextTickQueue[tickPos + 1])
          /\ nextTickQueue' = nextTickQueue
      BY <1>1 DEF DrainTicks
    <2>2. nextTickQueue[tickPos + 1] = Len(ranTicks) + 1 BY <1>0, <1>1
    <2>3. /\ ranTicks' \in Seq(Nat) /\ Len(ranTicks') = Len(ranTicks) + 1
          /\ \A i \in 1..Len(ranTicks) : ranTicks'[i] = ranTicks[i]
          /\ ranTicks'[Len(ranTicks) + 1] = Len(ranTicks) + 1
      BY <1>0, <2>1, <2>2, PushFacts
    <2>4. tickPos' \in Nat /\ tickPos' <= Len(nextTickQueue) BY <1>0, <1>1, <2>1
    <2> QED BY <1>0, <2>1, <2>3, <2>4
  <1>2. CASE ~(tickPos < Len(nextTickQueue))
    <2>1. tickPos' = 0 /\ nextTickQueue' = << >> /\ ranTicks' = ranTicks
      BY <1>2 DEF DrainTicks
    <2>2. Len(nextTickQueue') = 0 /\ nextTickQueue' \in Seq(Nat) BY <2>1
    <2>3. Len(ranTicks) = ticks BY <1>0, <1>2
    <2> QED BY <1>0, <2>1, <2>2, <2>3
  <1> QED BY <1>1, <1>2

\* Nothing else touches the ticks
LEMMA TickStep == TickInv /\ [Next]_vars => TickInv'
  <1> SUFFICES ASSUME TickInv, [Next]_vars PROVE TickInv' OBVIOUS
  <1>1. CASE NextTick BY <1>1, NextTickTicks
  <1>2. CASE DrainTicks BY <1>2, DrainTicksTicks
  <1>3. CASE UNCHANGED tickVars BY <1>3 DEF tickVars, TickInv
  <1>4. NextTick \/ DrainTicks \/ UNCHANGED tickVars
    BY DEF Next, Script, Runtime, SetImmediate, StartHandle, StopHandle, SetExitCode, Exit,
           CallSync, Throw, Return, RunImmediates, BeginTurn, EndPoll, Check, EndTurn,
           EmitExit, Dispatch, Done, vars, tickVars
  <1> QED BY <1>1, <1>2, <1>3, <1>4

-----------------------------------------------------------------------------
(* The stack *)

\* _onNextTick follows the frame that returned, unless one is in progress
LEMMA ThenNextTickFacts ==
    ASSUME NEW r \in Seq(Frames)
    PROVE  /\ ThenNextTick(r) \in Seq(Frames)
           /\ Len(ThenNextTick(r)) \in Len(r)..(Len(r) + 1)
           /\ \A i \in 1..Len(r) : ThenNextTick(r)[i] = r[i]
           /\ \A i \in 1..Len(ThenNextTick(r)) :
                 ThenNextTick(r)[i] = "drain" \/ (i \in 1..Len(r) /\ ThenNextTick(r)[i] = r[i])
           /\ r = << >> => ThenNextTick(r) = <<"drain">>
           /\ ThenNextTick(r) # << >>
  <1>1. "drain" \in Frames BY DEF Frames, NativeFrames
  <1>2. CASE Contains(r, "drain")
    <2>1. r # << >> BY <1>2 DEF Contains
    <2> QED BY <1>2, <2>1 DEF ThenNextTick
  <1>3. CASE ~Contains(r, "drain")
    <2>1. ThenNextTick(r) = Append(r, "drain") BY <1>3 DEF ThenNextTick
    <2>2. r = << >> => Append(r, "drain") = <<"drain">> OBVIOUS
    <2> QED BY <1>1, <2>1, <2>2, PushFacts
  <1> QED BY <1>2, <1>3

\* The frames whose place on the stack matters
Marks == {"check", "exit", "exitCall"}

\* A stack that differs from another in other frames only
SameMarks(s, r) ==
    /\ r \in Seq(Frames)
    /\ \A f \in Marks : \A i \in Nat :
          (i \in 1..Len(r) /\ r[i] = f) <=> (i \in 1..Len(s) /\ s[i] = f)

StackInv == StackTypes /\ ExitState

\* Calling or leaving an unmarked frame keeps the marks
LEMMA PushSame ==
    ASSUME NEW s \in Seq(Frames), NEW f \in Frames \ Marks PROVE SameMarks(s, Append(s, f))
  BY PushFacts DEF SameMarks

LEMMA PopSame ==
    ASSUME NEW s \in Seq(Frames), s # << >>, Last(s) \notin Marks
    PROVE  SameMarks(s, Front(s)) /\ SameMarks(s, ThenNextTick(Front(s)))
  <1>1. /\ Front(s) \in Seq(Frames)
        /\ Len(s) \in Nat \ {0} /\ Len(Front(s)) = Len(s) - 1
        /\ \A i \in 1..(Len(s) - 1) : Front(s)[i] = s[i]
        /\ s[Len(s)] \notin Marks
    BY PopFacts
  <1>2. SameMarks(s, Front(s)) BY <1>1 DEF SameMarks
  <1> DEFINE r == ThenNextTick(Front(s))
  <1>3. /\ r \in Seq(Frames) /\ Len(r) \in (Len(s) - 1)..Len(s)
        /\ \A i \in 1..(Len(s) - 1) : r[i] = s[i]
        /\ \A i \in 1..Len(r) : r[i] = "drain" \/ (i \in 1..(Len(s) - 1) /\ r[i] = s[i])
    BY <1>1, ThenNextTickFacts
  <1>4. "drain" \notin Marks BY DEF Marks
  <1> HIDE DEF r
  <1>5. SameMarks(s, r) BY <1>1, <1>3, <1>4 DEF SameMarks
  <1> QED BY <1>2, <1>5 DEF r

\* The marks decide the invariants of the stack
LEMMA SameMarksKeep ==
    ASSUME StackInv, SameMarks(stack, stack'), phase # "dead", phase' \in Phases \ {"dead"},
           UNCHANGED <<exiting, exitEvents>>
    PROVE  StackInv' /\ (Contains(stack', "check") <=> Contains(stack, "check"))
  <1>1. /\ Contains(stack', "check") <=> Contains(stack, "check")
        /\ Contains(stack', "exit") <=> Contains(stack, "exit")
        /\ Contains(stack', "exitCall") <=> Contains(stack, "exitCall")
    BY DEF SameMarks, Marks, Contains
  <1>2. StackTypes' BY DEF StackInv, StackTypes, SameMarks, Marks
  <1>3. ExitState' BY <1>1 DEF StackInv, ExitState
  <1> QED BY <1>1, <1>2, <1>3 DEF StackInv

-----------------------------------------------------------------------------
(* What a step of JavaScript does to the stack *)

\* The process dies, or the check frame and the first frame stay, unless the only
\* frame returns or throws
JSEffect ==
    /\ StackInv'
    /\ \/ phase' = "dead"
       \/ /\ phase' = phase /\ phase # "dead"
          /\ Contains(stack', "check") <=> Contains(stack, "check")
          /\ \/ stack' # << >> /\ stack'[1] = stack[1]
             \/ stack' = <<"drain">> /\ stack[1] \in JSFrames
             \/ stack' = << >> /\ stack[1] \in JSFrames /\ (stack[1] = "main" => "main" \in Throwers)

\* The frame that runs JavaScript
LEMMA InJSFacts ==
    ASSUME StackInv, InJS
    PROVE  /\ stack \in Seq(Frames) /\ stack # << >> /\ phase # "dead" /\ phase \in Phases
           /\ Running = Last(stack) /\ Last(stack) \in JSFrames
  <1>1. "none" \notin JSFrames BY DEF JSFrames
  <1>2. stack # << >> BY <1>1 DEF InJS, Running
  <1> QED BY <1>2 DEF InJS, Running, StackInv, StackTypes, ExitState

\* A step that leaves the stack alone
LEMMA SameStackEffect ==
    ASSUME StackInv, InJS, UNCHANGED <<stack, phase, exiting, exitEvents>> PROVE JSEffect
  <1>1. stack # << >> /\ phase # "dead" BY InJSFacts
  <1>2. StackInv' BY DEF StackInv, StackTypes, ExitState
  <1> QED BY <1>1, <1>2 DEF JSEffect

\* A synchronous callback
LEMMA CallEffect ==
    ASSUME StackInv, InJS, NEW f \in Frames \ Marks, stack' = Append(stack, f),
           UNCHANGED <<phase, exiting, exitEvents>>
    PROVE  JSEffect
  <1>1. stack \in Seq(Frames) /\ stack # << >> /\ phase # "dead" /\ phase \in Phases
    BY InJSFacts
  <1>2. SameMarks(stack, stack') BY <1>1, PushSame
  <1>3. StackInv' /\ (Contains(stack', "check") <=> Contains(stack, "check"))
    BY <1>1, <1>2, SameMarksKeep
  <1>4. stack' # << >> /\ stack'[1] = stack[1] BY <1>1, PushFacts
  <1> QED BY <1>1, <1>3, <1>4 DEF JSEffect

\* A frame that returns to its caller, or to _onNextTick
LEMMA LeaveEffect ==
    ASSUME StackInv, InJS, Running \notin Marks,
           stack' = Pop \/ stack' = ThenNextTick(Pop),
           stack' = << >> /\ Running = "main" => "main" \in Throwers,
           UNCHANGED <<phase, exiting, exitEvents>>
    PROVE  JSEffect
  <1>1. /\ stack \in Seq(Frames) /\ stack # << >> /\ phase # "dead" /\ phase \in Phases
        /\ Running = Last(stack) /\ Last(stack) \in JSFrames
    BY InJSFacts
  <1>2. SameMarks(stack, stack') BY <1>1, PopSame DEF Pop
  <1>3. StackInv' /\ (Contains(stack', "check") <=> Contains(stack, "check"))
    BY <1>1, <1>2, SameMarksKeep
  <1>4. /\ Pop \in Seq(Frames) /\ Len(stack) \in Nat \ {0} /\ Len(Pop) = Len(stack) - 1
        /\ \A i \in 1..(Len(stack) - 1) : Pop[i] = stack[i]
        /\ Len(stack) = 1 => Pop = << >>
        /\ Last(stack) = stack[Len(stack)]
    BY <1>1, PopFacts DEF Pop
  <1>5. CASE Len(stack) = 1
    <2>1. Pop = << >> /\ Running = stack[1] BY <1>1, <1>4, <1>5
    <2>2. ThenNextTick(Pop) = <<"drain">> BY <1>4, <2>1, ThenNextTickFacts
    <2>3. CASE stack' = Pop BY <1>1, <1>3, <2>1, <2>3 DEF JSEffect
    <2>4. CASE stack' = ThenNextTick(Pop) BY <1>1, <1>3, <2>1, <2>2, <2>4 DEF JSEffect
    <2> QED BY <2>3, <2>4
  <1>6. CASE Len(stack) # 1
    <2>1. 1 \in 1..Len(Pop) /\ Pop[1] = stack[1] BY <1>4, <1>6
    <2>2. ThenNextTick(Pop)[1] = stack[1] /\ Len(ThenNextTick(Pop)) >= 1
      BY <1>4, <2>1, ThenNextTickFacts
    <2>3. stack' # << >> /\ stack'[1] = stack[1] BY <2>1, <2>2
    <2> QED BY <1>1, <1>3, <2>3 DEF JSEffect
  <1> QED BY <1>5, <1>6

\* The process ends
LEMMA DoExitEffect ==
    ASSUME StackInv, DoExit, exiting, UNCHANGED <<exiting, exitEvents>> PROVE JSEffect
  <1>1. phase' = "dead" /\ stack' = << >> BY DEF DoExit
  <1>2. StackTypes' BY <1>1 DEF StackTypes, Phases
  <1>3. ExitState' BY <1>1 DEF StackInv, ExitState
  <1> QED BY <1>1, <1>2, <1>3 DEF JSEffect, StackInv

\* process.exit calls the listeners of 'exit' the first time
LEMMA ExitWithEffect ==
    ASSUME StackInv, InJS, NEW code, ExitWith(code) PROVE JSEffect
  <1>1. CASE exiting BY <1>1, DoExitEffect DEF ExitWith, exitVars
  <1>2. CASE ~exiting
    <2>1. /\ exiting' = TRUE /\ exitEvents' = exitEvents + 1 /\ phase' = phase
          /\ stack' = Append(stack, "exitCall")
      BY <1>2 DEF ExitWith
    <2>2. stack \in Seq(Frames) /\ stack # << >> /\ phase # "dead" /\ phase \in Phases
      BY InJSFacts
    <2>3. "exitCall" \in Frames BY DEF Frames, JSFrames
    <2>4. /\ stack' \in Seq(Frames) /\ stack' # << >>
          /\ Len(stack) \in Nat \ {0} /\ Len(stack') = Len(stack) + 1
          /\ \A i \in 1..Len(stack) : stack'[i] = stack[i]
          /\ stack'[Len(stack) + 1] = "exitCall"
      BY <2>1, <2>2, <2>3, PushFacts
    <2>5. stack'[1] = stack[1] BY <2>4
    <2>6. Contains(stack', "check") <=> Contains(stack, "check") BY <2>4 DEF Contains
    <2>7. Contains(stack', "exitCall") BY <2>4 DEF Contains
    <2>8. StackTypes' BY <2>1, <2>2, <2>4 DEF StackInv, StackTypes
    <2>9. ExitState' BY <1>2, <2>1, <2>2, <2>7 DEF StackInv, ExitState
    <2> QED BY <2>1, <2>2, <2>4, <2>5, <2>6, <2>8, <2>9 DEF JSEffect, StackInv
  <1> QED BY <1>1, <1>2

\* What JavaScript does without leaving its frame
LEMMA ScriptEffect ==
    ASSUME StackInv,
           \/ NextTick \/ SetImmediate \/ CallSync
           \/ \E h \in Handles : StartHandle(h) \/ StopHandle(h)
           \/ \E c \in Codes : SetExitCode(c)
           \/ \E c \in Codes \cup {exitCode} : Exit(c)
    PROVE  JSEffect
  <1>1. CASE NextTick \/ SetImmediate
    BY <1>1, SameStackEffect DEF NextTick, SetImmediate, exitVars
  <1>2. CASE CallSync
    <2>1. "sync" \in Frames \ Marks BY DEF Frames, JSFrames, Marks
    <2> QED BY <1>2, <2>1, CallEffect DEF CallSync, exitVars
  <1>3. ASSUME NEW h \in Handles, StartHandle(h) \/ StopHandle(h) PROVE JSEffect
    BY <1>3, SameStackEffect DEF StartHandle, StopHandle, exitVars
  <1>4. ASSUME NEW c \in Codes, SetExitCode(c) PROVE JSEffect
    BY <1>4, SameStackEffect DEF SetExitCode
  <1>5. ASSUME NEW c \in Codes \cup {exitCode}, Exit(c) PROVE JSEffect
    BY <1>5, ExitWithEffect DEF Exit
  <1> QED BY <1>1, <1>2, <1>3, <1>4, <1>5

\* A frame of the listeners of 'exit' means that the process is exiting
LEMMA ExitFrame ==
    ASSUME StackInv, InJS, Running \in {"exit", "exitCall"} PROVE exiting
  <1>1. /\ stack \in Seq(Frames) /\ stack # << >> /\ phase # "dead"
        /\ Running = Last(stack)
    BY InJSFacts
  <1>2. Len(stack) \in Nat \ {0} /\ Last(stack) = stack[Len(stack)] BY <1>1, PopFacts
  <1>3. Contains(stack, "exit") \/ Contains(stack, "exitCall")
    BY <1>1, <1>2 DEF Contains
  <1> QED BY <1>1, <1>3 DEF StackInv, ExitState

\* A callback returns
LEMMA ReturnEffect ==
    ASSUME StackInv, Return PROVE JSEffect
  <1>0. InJS /\ UNCHANGED <<exiting, exitEvents>> BY DEF Return, exitVars
  <1>1. CASE Running \in {"main", "io", "sync"}
    <2>1. stack' = ThenNextTick(Pop) /\ phase' = phase BY <1>1 DEF Return
    <2>2. Running \notin Marks BY <1>1 DEF Marks
    <2>3. Pop \in Seq(Frames) BY <1>0, InJSFacts, PopFacts DEF Pop
    <2>4. stack' # << >> BY <2>1, <2>3, ThenNextTickFacts
    <2> QED BY <1>0, <2>1, <2>2, <2>4, LeaveEffect
  <1>2. CASE Running \in {"tick", "immediate", "raw"}
    <2>1. stack' = Pop /\ phase' = phase BY <1>2 DEF Return
    <2>2. Running \notin Marks BY <1>2 DEF Marks
    <2> QED BY <1>0, <1>2, <2>1, <2>2, LeaveEffect
  <1>3. CASE Running \in {"exit", "exitCall"}
    BY <1>0, <1>3, ExitFrame, DoExitEffect DEF Return
  <1> QED BY <1>1, <1>2, <1>3 DEF Return

\* A callback throws
LEMMA ThrowEffect ==
    ASSUME StackInv, Throw PROVE JSEffect
  <1>0. InJS /\ Running \in Throwers BY DEF Throw
  <1>1. CASE Running \in {"main", "tick", "immediate", "raw"} /\ Uncaught(Pop)
    <2>1. Running \notin Marks BY <1>1 DEF Marks
    <2>2. CASE handler = "returns"
      <3>1. stack' = Pop /\ UNCHANGED <<phase, exiting, exitEvents>>
        BY <1>1, <2>2 DEF Uncaught, exitVars
      <3> QED BY <1>0, <2>1, <3>1, LeaveEffect
    <2>3. CASE handler # "returns" BY <1>0, <1>1, <2>3, ExitWithEffect DEF Uncaught
    <2> QED BY <2>2, <2>3
  <1>2. CASE Running \in {"io", "sync"} /\ Uncaught(ThenNextTick(Pop))
    <2>1. Running \notin Marks /\ Running # "main" BY <1>2 DEF Marks
    <2>2. CASE handler = "returns"
      <3>1. stack' = ThenNextTick(Pop) /\ UNCHANGED <<phase, exiting, exitEvents>>
        BY <1>2, <2>2 DEF Uncaught, exitVars
      <3> QED BY <1>0, <2>1, <3>1, LeaveEffect
    <2>3. CASE handler # "returns" BY <1>0, <1>2, <2>3, ExitWithEffect DEF Uncaught
    <2> QED BY <2>2, <2>3
  <1>3. CASE Running = "sync" /\ stack' = Pop /\ UNCHANGED <<phase, exitVars>>
    <2>1. Running \notin Marks /\ Running # "main" BY <1>3 DEF Marks
    <2> QED BY <1>0, <1>3, <2>1, LeaveEffect DEF exitVars
  <1>4. CASE Running \in {"exit", "exitCall"} /\ DoExit /\ UNCHANGED <<exiting, exitEvents>>
    BY <1>0, <1>4, ExitFrame, DoExitEffect
  <1> QED BY <1>1, <1>2, <1>3, <1>4 DEF Throw

\* A step of JavaScript keeps what is known of the turn, for it ends neither a turn
\* nor an _onNextTick
LEMMA JSTurn ==
    ASSUME StackInv, TurnState, InJS, JSEffect, polled' = polled PROVE TurnState'
  <1>1. stack # << >> BY InJSFacts
  <1>2. "drain" \notin JSFrames BY DEF JSFrames
  <1>3. CASE phase' = "dead" BY <1>3 DEF TurnState
  <1>4. CASE phase' = phase /\ stack' # << >> /\ stack'[1] = stack[1]
    BY <1>1, <1>4 DEF TurnState
  <1>5. CASE phase' = phase /\ stack' = <<"drain">>
    <2>1. stack' # << >> /\ stack'[1] = "drain" BY <1>5
    <2> QED BY <1>1, <1>5, <2>1 DEF TurnState
  <1>6. CASE /\ phase' = phase /\ stack' = << >> /\ stack[1] \in JSFrames
             /\ stack[1] = "main" => "main" \in Throwers
    BY <1>1, <1>2, <1>6 DEF TurnState
  <1> QED BY <1>3, <1>4, <1>5, <1>6 DEF JSEffect

\* ... and the state of the check handle, unless it queues an immediate
LEMMA JSCheck ==
    ASSUME CheckState, JSEffect, UNCHANGED <<callbacks, checkActive, immediateQueue>>
    PROVE  CheckState'
  BY DEF CheckState, JSEffect

-----------------------------------------------------------------------------
(* Immediates *)

\* setImmediate queues the next number and starts the check handle
LEMMA SetImmediateKeeps ==
    ASSUME ImmediateOrder, CheckState, JSEffect, SetImmediate
    PROVE  ImmediateOrder' /\ CheckState'
  <1>1. /\ immediates' = immediates + 1
        /\ immediateQueue' = Append(immediateQueue, immediates + 1)
        /\ checkActive' = IF immediateQueue = << >> THEN TRUE ELSE checkActive
        /\ UNCHANGED <<callbacks, ranImmediates>>
    BY DEF SetImmediate, StartUVCheck
  <1>2. /\ immediateQueue \in Seq(Nat) /\ immediates + 1 \in Nat
        /\ Len(ranImmediates) \in Nat /\ Len(callbacks) \in Nat
    BY DEF ImmediateOrder
  <1>3. /\ immediateQueue' \in Seq(Nat) /\ Len(immediateQueue) \in Nat
        /\ Len(immediateQueue') = Len(immediateQueue) + 1
        /\ \A i \in 1..Len(immediateQueue) : immediateQueue'[i] = immediateQueue[i]
        /\ immediateQueue'[Len(immediateQueue) + 1] = immediates + 1
        /\ immediateQueue' # << >>
    BY <1>1, <1>2, PushFacts
  <1>4. ImmediateOrder'
    <2>1. \A i \in 1..Len(immediateQueue') :
             immediateQueue'[i] = Len(ranImmediates) + Len(callbacks) + i
      <3> SUFFICES ASSUME NEW i \in 1..(Len(immediateQueue) + 1)
                   PROVE  immediateQueue'[i] = Len(ranImmediates) + Len(callbacks) + i
        BY <1>3
      <3>1. CASE i = Len(immediateQueue) + 1 BY <1>2, <1>3, <3>1 DEF ImmediateOrder
      <3>2. CASE i # Len(immediateQueue) + 1
        <4>1. i \in 1..Len(immediateQueue) BY <1>3, <3>2
        <4> QED BY <1>3, <4>1 DEF ImmediateOrder
      <3> QED BY <3>1, <3>2
    <2>2. Len(ranImmediates) + Len(callbacks) + Len(immediateQueue') = immediates'
      <3>1. Len(ranImmediates) + Len(callbacks) + Len(immediateQueue) = immediates
        BY DEF ImmediateOrder
      <3> QED BY <1>1, <1>2, <1>3, <3>1
    <2> QED BY <1>1, <1>2, <1>3, <2>1, <2>2 DEF ImmediateOrder
  <1>5. CheckState' BY <1>1, <1>3 DEF CheckState, JSEffect
  <1> QED BY <1>4, <1>5

\* _onUVCheck runs the next number; at its end the handle is stopped when nothing was
\* queued meanwhile
LEMMA RunImmediatesKeeps ==
    ASSUME StackInv, ImmediateOrder, CheckState, TurnState, RunImmediates
    PROVE  StackInv' /\ ImmediateOrder' /\ CheckState' /\ TurnState'
  <1>0. /\ phase' = phase
        /\ UNCHANGED <<nextTickQueue, immediateQueue, immediates, polled, exiting, exitEvents>>
    BY DEF RunImmediates, tickVars, handleVars, exitVars
  <1>1. Running = "check" /\ stack # << >> /\ Last(stack) = "check"
    BY DEF RunImmediates, Running
  <1>2. stack \in Seq(Frames) /\ phase \in Phases /\ phase # "dead"
    BY <1>1 DEF StackInv, StackTypes, ExitState
  <1>3. Len(stack) = 1 /\ stack[1] = "check"
    <2>1. Len(stack) \in Nat \ {0} /\ Last(stack) = stack[Len(stack)] BY <1>1, <1>2, PopFacts
    <2>2. \A i \in 1..Len(stack) : stack[i] = "check" => i = 1 BY DEF StackInv, StackTypes
    <2>3. Len(stack) = 1 BY <1>1, <2>1, <2>2
    <2> QED BY <1>1, <2>1, <2>3
  <1>4. Contains(stack, "check") /\ checkActive BY <1>2, <1>3 DEF Contains, CheckState
  <1>5. phase \notin {"decide"} /\ ("main" \notin Throwers => phase # "main" /\ ~(phase = "poll" /\ ~polled))
    BY <1>1, <1>3 DEF TurnState
  <1>6. TurnState' BY <1>0, <1>5 DEF TurnState
  <1>7. CASE callbacks # << >>
    <2>1. /\ callbacks' = Tail(callbacks)
          /\ ranImmediates' = Append(ranImmediates, Head(callbacks))
          /\ stack' = Append(stack, "immediate") /\ checkActive' = checkActive
      BY <1>7 DEF RunImmediates
    <2>2. /\ callbacks \in Seq(Nat) /\ ranImmediates \in Seq(Nat)
          /\ Len(ranImmediates) \in Nat /\ Len(immediateQueue) \in Nat
      BY DEF ImmediateOrder
    <2>3. /\ callbacks' \in Seq(Nat) /\ Len(callbacks) \in Nat \ {0}
          /\ Head(callbacks) \in Nat
          /\ Head(callbacks) = callbacks[1] /\ Len(callbacks') = Len(callbacks) - 1
          /\ \A i \in 1..(Len(callbacks) - 1) : callbacks'[i] = callbacks[i + 1]
      BY <1>7, <2>1, <2>2, TailFacts
    <2>4. Head(callbacks) = Len(ranImmediates) + 1 BY <2>2, <2>3 DEF ImmediateOrder
    <2>5. /\ ranImmediates' \in Seq(Nat) /\ Len(ranImmediates') = Len(ranImmediates) + 1
          /\ \A i \in 1..Len(ranImmediates) : ranImmediates'[i] = ranImmediates[i]
          /\ ranImmediates'[Len(ranImmediates) + 1] = Len(ranImmediates) + 1
      BY <2>1, <2>2, <2>3, <2>4, PushFacts
    <2>6. ImmediateOrder'
      <3>1. \A i \in 1..Len(ranImmediates') : ranImmediates'[i] = i
        <4>1. \A i \in 1..Len(ranImmediates) : ranImmediates[i] = i BY DEF ImmediateOrder
        <4>2. SUFFICES ASSUME NEW i \in 1..(Len(ranImmediates) + 1)
                       PROVE  ranImmediates'[i] = i
          BY <2>5
        <4>3. i = Len(ranImmediates) + 1 \/ i \in 1..Len(ranImmediates) BY <2>2
        <4> QED BY <2>5, <4>1, <4>3
      <3>2. \A i \in 1..Len(callbacks') : callbacks'[i] = Len(ranImmediates') + i
        <4> SUFFICES ASSUME NEW i \in 1..(Len(callbacks) - 1)
                     PROVE  callbacks'[i] = Len(ranImmediates') + i
          BY <2>3
        <4>1. i + 1 \in 1..Len(callbacks) BY <2>3
        <4>2. callbacks[i + 1] = Len(ranImmediates) + (i + 1) BY <4>1 DEF ImmediateOrder
        <4> QED BY <2>2, <2>3, <2>5, <4>2
      <3>3. /\ Len(ranImmediates') + Len(callbacks') = Len(ranImmediates) + Len(callbacks)
            /\ Len(ranImmediates) + Len(callbacks) + Len(immediateQueue) = immediates
        BY <2>2, <2>3, <2>5 DEF ImmediateOrder
      <3> QED BY <1>0, <2>3, <2>5, <3>1, <3>2, <3>3 DEF ImmediateOrder
    <2>7. "immediate" \in Frames \ Marks BY DEF Frames, JSFrames, Marks
    <2>8. SameMarks(stack, stack') BY <1>2, <2>1, <2>7, PushSame
    <2>9. StackInv' /\ Contains(stack', "check") BY <1>0, <1>2, <1>4, <2>8, SameMarksKeep
    <2>10. CheckState' BY <1>4, <2>1, <2>9 DEF CheckState
    <2> QED BY <1>6, <2>6, <2>9, <2>10
  <1>8. CASE callbacks = << >>
    <2>1. /\ checkActive' = IF immediateQueue = << >> THEN FALSE ELSE checkActive
          /\ stack' = ThenNextTick(Pop) /\ UNCHANGED <<callbacks, ranImmediates>>
      BY <1>8 DEF RunImmediates, StopUVCheck
    <2>2. Pop = << >> /\ Pop \in Seq(Frames) BY <1>1, <1>2, <1>3, PopFacts DEF Pop
    <2>3. stack' = <<"drain">> BY <2>1, <2>2, ThenNextTickFacts
    <2>4. stack' \in Seq(Frames) /\ Len(stack') = 1 /\ stack'[1] = "drain"
      BY <2>3 DEF Frames, NativeFrames
    <2>5. \A f \in Marks : ~Contains(stack', f) BY <2>4 DEF Contains, Marks
    <2>6. StackTypes' BY <1>0, <1>2, <2>4 DEF StackTypes
    <2>7. ~Contains(stack, "exit") /\ ~Contains(stack, "exitCall")
      BY <1>3 DEF Contains
    <2>8. ExitState' BY <1>0, <1>2, <2>5, <2>7 DEF StackInv, ExitState, Marks
    <2>9. ImmediateOrder' BY <1>0, <2>1 DEF ImmediateOrder
    <2>10. CheckState' BY <1>0, <1>4, <1>8, <2>1, <2>5 DEF CheckState, Marks
    <2> QED BY <1>6, <2>6, <2>8, <2>9, <2>10 DEF StackInv
  <1> QED BY <1>7, <1>8

\* One iteration of _onNextTick, or its end
LEMMA DrainTicksKeeps ==
    ASSUME StackInv, ImmediateOrder, CheckState, TurnState, DrainTicks
    PROVE  StackInv' /\ ImmediateOrder' /\ CheckState' /\ TurnState'
  <1>0. /\ phase' = phase /\ UNCHANGED <<polled, exiting, exitEvents>>
        /\ UNCHANGED immediateVars
    BY DEF DrainTicks, handleVars, exitVars
  <1>1. Running = "drain" /\ stack # << >> /\ Last(stack) = "drain"
    BY DEF DrainTicks, Running
  <1>2. stack \in Seq(Frames) /\ phase \in Phases /\ phase # "dead"
    BY <1>1 DEF StackInv, StackTypes, ExitState
  <1>3. ImmediateOrder' BY <1>0 DEF ImmediateOrder, immediateVars
  <1>4. CASE tickPos < Len(nextTickQueue)
    <2>1. stack' = Append(stack, "tick") BY <1>4 DEF DrainTicks
    <2>2. "tick" \in Frames \ Marks BY DEF Frames, JSFrames, Marks
    <2>3. SameMarks(stack, stack') BY <1>2, <2>1, <2>2, PushSame
    <2>4. StackInv' /\ (Contains(stack', "check") <=> Contains(stack, "check"))
      BY <1>0, <1>2, <2>3, SameMarksKeep
    <2>5. stack' # << >> /\ stack'[1] = stack[1] BY <1>1, <1>2, <2>1, <2>2, PushFacts
    <2>6. CheckState' BY <1>0, <2>4 DEF CheckState, immediateVars
    <2>7. TurnState' BY <1>0, <1>1, <2>5 DEF TurnState
    <2> QED BY <1>3, <2>4, <2>6, <2>7
  <1>5. CASE ~(tickPos < Len(nextTickQueue))
    <2>1. stack' = Pop /\ nextTickQueue' = << >> BY <1>5 DEF DrainTicks
    <2>2. "drain" \notin Marks BY DEF Marks
    <2>3. SameMarks(stack, stack') BY <1>1, <1>2, <2>1, <2>2, PopSame DEF Pop
    <2>4. StackInv' /\ (Contains(stack', "check") <=> Contains(stack, "check"))
      BY <1>0, <1>2, <2>3, SameMarksKeep
    <2>5. stack' # << >> => stack'[1] = stack[1]
      <3>1. /\ Pop \in Seq(Frames) /\ Len(stack) \in Nat \ {0} /\ Len(Pop) = Len(stack) - 1
            /\ \A i \in 1..(Len(stack) - 1) : Pop[i] = stack[i]
            /\ Len(stack) = 1 => Pop = << >>
        BY <1>1, <1>2, PopFacts DEF Pop
      <3> QED BY <2>1, <3>1
    <2>6. CheckState' BY <1>0, <2>4 DEF CheckState, immediateVars
    <2>7. TurnState' BY <1>0, <1>1, <2>1, <2>5 DEF TurnState
    <2> QED BY <1>3, <2>4, <2>6, <2>7
  <1> QED BY <1>4, <1>5

-----------------------------------------------------------------------------
(* The loop of iotjs_start *)

\* A stack of one frame
LEMMA OneFrame ==
    ASSUME NEW f \in Frames
    PROVE  /\ <<f>> \in Seq(Frames) /\ <<f>> # << >> /\ <<f>>[1] = f /\ Len(<<f>>) = 1
           /\ \A g \in Frames : Contains(<<f>>, g) <=> g = f
  <1>1. <<f>> \in Seq(Frames) /\ <<f>> # << >> /\ <<f>>[1] = f /\ Len(<<f>>) = 1 OBVIOUS
  <1> QED BY <1>1 DEF Contains

\* With no frame, no frame is on the stack and the process is not exiting
LEMMA NoFrame ==
    ASSUME StackInv, stack = << >>, phase # "dead"
    PROVE  /\ ~Contains(stack, "check") /\ ~exiting /\ exitEvents = 0
           /\ phase \in Phases
  <1>1. \A f : ~Contains(stack, f) BY DEF Contains
  <1> QED BY <1>1 DEF StackInv, StackTypes, ExitState

\* The loop goes on with an empty stack
LEMMA LoopStack ==
    ASSUME StackInv, stack = << >>, phase # "dead", phase' \in Phases \ {"dead"},
           UNCHANGED <<stack, exiting, exitEvents>>
    PROVE  StackInv'
  BY DEF StackInv, StackTypes, ExitState

\* ... or calls into JavaScript
LEMMA LoopCalls ==
    ASSUME StackInv, stack = << >>, phase # "dead", phase' \in Phases \ {"dead"},
           NEW f \in Frames \ {"exit", "exitCall"}, stack' = <<f>>,
           UNCHANGED <<exiting, exitEvents>>
    PROVE  StackInv'
  <1>1. ~exiting /\ exitEvents = 0 BY NoFrame
  <1>2. /\ stack' \in Seq(Frames) /\ stack' # << >> /\ Len(stack') = 1
        /\ \A g \in Frames : Contains(stack', g) <=> g = f
    BY OneFrame
  <1>3. "exit" \in Frames /\ "exitCall" \in Frames BY DEF Frames, JSFrames
  <1>4. StackTypes' BY <1>2 DEF StackTypes
  <1>5. ExitState' BY <1>1, <1>2, <1>3 DEF ExitState
  <1> QED BY <1>4, <1>5 DEF StackInv

\* iotjs_run has returned, or the loop goes round: nothing is left in the queue of ticks
LEMMA BeginTurnKeeps ==
    ASSUME StackInv, ImmediateOrder, CheckState, TurnState, BeginTurn
    PROVE  StackInv' /\ ImmediateOrder' /\ CheckState' /\ TurnState'
  <1>0. /\ stack = << >> /\ phase \in {"main", "decide"} /\ phase' = "poll" /\ polled' = FALSE
        /\ UNCHANGED <<stack, nextTickQueue, exiting, exitEvents>> /\ UNCHANGED immediateVars
    BY DEF BeginTurn, tickVars, exitVars
  <1>1. StackInv' BY <1>0, LoopStack DEF Phases
  <1>2. ImmediateOrder' BY <1>0 DEF ImmediateOrder, immediateVars
  <1>3. CheckState' BY <1>0 DEF CheckState, immediateVars
  <1>4. TurnState' BY <1>0 DEF TurnState
  <1> QED BY <1>1, <1>2, <1>3, <1>4

\* uv_run calls a callback
LEMMA DispatchKeeps ==
    ASSUME StackInv, ImmediateOrder, CheckState, TurnState,
           NEW h \in Handles, NEW frame \in {"io", "raw"}, Dispatch(h, frame)
    PROVE  StackInv' /\ ImmediateOrder' /\ CheckState' /\ TurnState'
  <1>0. /\ stack = << >> /\ phase = "poll" /\ phase' = phase /\ polled' = TRUE
        /\ stack' = <<frame>>
        /\ UNCHANGED <<exiting, exitEvents>> /\ UNCHANGED immediateVars
    BY DEF Dispatch, exitVars
  <1>1. frame \in Frames \ Marks BY DEF Frames, JSFrames, Marks
  <1>2. StackInv' BY <1>0, <1>1, LoopCalls DEF Phases, Marks
  <1>3. ImmediateOrder' BY <1>0 DEF ImmediateOrder, immediateVars
  <1>4. ~Contains(stack, "check") /\ ~Contains(stack', "check")
    <2>1. "check" \in Frames /\ frame # "check" BY DEF Frames, NativeFrames
    <2> QED BY <1>0, <1>1, <2>1, OneFrame, NoFrame
  <1>5. CheckState' BY <1>0, <1>4 DEF CheckState, immediateVars
  <1>6. TurnState' BY <1>0 DEF TurnState
  <1> QED BY <1>2, <1>3, <1>5, <1>6

\* The end of the poll
LEMMA EndPollKeeps ==
    ASSUME StackInv, ImmediateOrder, CheckState, TurnState, EndPoll
    PROVE  StackInv' /\ ImmediateOrder' /\ CheckState' /\ TurnState'
  <1>0. /\ stack = << >> /\ phase = "poll" /\ phase' = "check"
        /\ UNCHANGED <<stack, exiting, exitEvents>> /\ UNCHANGED immediateVars
    BY DEF EndPoll, exitVars
  <1>1. StackInv' BY <1>0, LoopStack DEF Phases
  <1>2. ImmediateOrder' BY <1>0 DEF ImmediateOrder, immediateVars
  <1>3. CheckState' BY <1>0 DEF CheckState, immediateVars
  <1>4. TurnState' BY <1>0 DEF TurnState
  <1> QED BY <1>1, <1>2, <1>3, <1>4

\* ImmediateCheckCallback: the list that _onUVCheck left is empty, so none is lost
LEMMA CheckKeeps ==
    ASSUME StackInv, ImmediateOrder, CheckState, TurnState, Check
    PROVE  StackInv' /\ ImmediateOrder' /\ CheckState' /\ TurnState'
  <1>0. /\ stack = << >> /\ phase = "check" /\ phase' = "endTurn"
        /\ UNCHANGED <<checkActive, immediates, ranImmediates, exiting, exitEvents>>
    BY DEF Check, exitVars
  <1>1. callbacks = << >> BY <1>0, NoFrame DEF CheckState
  <1>2. TurnState' BY <1>0 DEF TurnState
  <1>3. CASE checkActive
    <2>1. callbacks' = immediateQueue /\ immediateQueue' = << >> /\ stack' = <<"check">>
      BY <1>3 DEF Check
    <2>2. "check" \in Frames BY DEF Frames, NativeFrames
    <2>3. StackInv' BY <1>0, <2>1, <2>2, LoopCalls DEF Phases
    <2>4. Contains(stack', "check") BY <2>1, <2>2, OneFrame
    <2>5. CheckState' BY <1>0, <1>3, <2>4 DEF CheckState
    <2>6. /\ Len(callbacks) = 0 /\ Len(immediateQueue') = 0 /\ immediateQueue' \in Seq(Nat)
          /\ Len(immediateQueue) \in Nat /\ Len(ranImmediates) \in Nat
      BY <1>1, <2>1 DEF ImmediateOrder
    <2>7. ImmediateOrder' BY <1>0, <2>1, <2>6 DEF ImmediateOrder
    <2> QED BY <1>2, <2>3, <2>5, <2>7
  <1>4. CASE ~checkActive
    <2>1. UNCHANGED <<callbacks, immediateQueue, stack>> BY <1>4 DEF Check
    <2>2. StackInv' BY <1>0, <2>1, LoopStack DEF Phases
    <2>3. ImmediateOrder' BY <1>0, <2>1 DEF ImmediateOrder
    <2>4. CheckState' BY <1>0, <2>1 DEF CheckState
    <2> QED BY <1>2, <2>2, <2>3, <2>4
  <1> QED BY <1>3, <1>4

\* iotjs_process_next_tick after uv_run
LEMMA EndTurnKeeps ==
    ASSUME StackInv, ImmediateOrder, CheckState, TurnState, EndTurn
    PROVE  StackInv' /\ ImmediateOrder' /\ CheckState' /\ TurnState'
  <1>0. /\ stack = << >> /\ phase = "endTurn" /\ phase' = "decide" /\ stack' = <<"drain">>
        /\ UNCHANGED <<exiting, exitEvents>> /\ UNCHANGED immediateVars
    BY DEF EndTurn, exitVars
  <1>1. "drain" \in Frames \ Marks /\ "check" \in Frames BY DEF Frames, NativeFrames, Marks
  <1>2. StackInv' BY <1>0, <1>1, LoopCalls DEF Phases, Marks
  <1>3. ImmediateOrder' BY <1>0 DEF ImmediateOrder, immediateVars
  <1>4. ~Contains(stack, "check") /\ ~Contains(stack', "check")
    BY <1>0, <1>1, OneFrame, NoFrame
  <1>5. CheckState' BY <1>0, <1>4 DEF CheckState, immediateVars
  <1>6. stack' # << >> /\ stack'[1] = "drain" BY <1>0
  <1>7. TurnState' BY <1>0, <1>6 DEF TurnState
  <1> QED BY <1>2, <1>3, <1>5, <1>7

\* iotjs_process_emit_exit
LEMMA EmitExitKeeps ==
    ASSUME StackInv, ImmediateOrder, CheckState, TurnState, EmitExit
    PROVE  StackInv' /\ ImmediateOrder' /\ CheckState' /\ TurnState'
  <1>0. /\ stack = << >> /\ phase = "decide" /\ phase' = "exit" /\ stack' = <<"exit">>
        /\ exiting' = TRUE /\ exitEvents' = exitEvents + 1 /\ UNCHANGED immediateVars
    BY DEF EmitExit
  <1>1. "exit" \in Frames /\ "check" \in Frames BY DEF Frames, JSFrames, NativeFrames
  <1>2. ~Contains(stack, "check") /\ ~exiting /\ exitEvents = 0 BY <1>0, NoFrame
  <1>3. /\ stack' \in Seq(Frames) /\ Len(stack') = 1 /\ stack'[1] = "exit"
        /\ Contains(stack', "exit") /\ ~Contains(stack', "check")
    BY <1>0, <1>1, OneFrame
  <1>4. StackTypes' BY <1>0, <1>3 DEF StackTypes, Phases
  <1>5. ExitState' BY <1>0, <1>2, <1>3 DEF ExitState
  <1>6. ImmediateOrder' BY <1>0 DEF ImmediateOrder, immediateVars
  <1>7. CheckState' BY <1>0, <1>2, <1>3 DEF CheckState, immediateVars
  <1>8. TurnState' BY <1>0 DEF TurnState
  <1> QED BY <1>4, <1>5, <1>6, <1>7, <1>8 DEF StackInv

-----------------------------------------------------------------------------
(* The invariant *)

\* A process that starts satisfies the invariant
LEMMA InitIInv == Init => IInv
  <1> SUFFICES ASSUME Init PROVE IInv OBVIOUS
  <1> USE DEF Init
  <1>1. << >> \in Seq(Nat) /\ Len(<< >>) = 0 OBVIOUS
  <1>2. TickInv BY <1>1 DEF TickInv
  <1>3. ImmediateOrder BY <1>1 DEF ImmediateOrder
  <1>4. "main" \in Frames /\ "exit" \in Frames /\ "exitCall" \in Frames /\ "check" \in Frames
    BY DEF Frames, JSFrames, NativeFrames
  <1>5. /\ stack \in Seq(Frames) /\ stack # << >> /\ stack[1] = "main" /\ Len(stack) = 1
        /\ \A g \in Frames : Contains(stack, g) <=> g = "main"
    BY <1>4, OneFrame
  <1>6. CheckState BY <1>4, <1>5 DEF CheckState
  <1>7. StackTypes BY <1>5 DEF StackTypes, Phases
  <1>8. ExitState BY <1>4, <1>5 DEF ExitState
  <1>9. TurnState BY <1>5 DEF TurnState
  <1> QED BY <1>2, <1>3, <1>6, <1>7, <1>8, <1>9 DEF IInv

\* A step of JavaScript keeps the invariant
LEMMA JSKeeps ==
    ASSUME StackInv, ImmediateOrder, CheckState, TurnState, Script \/ Return
    PROVE  StackInv' /\ ImmediateOrder' /\ CheckState' /\ TurnState'
  <1>1. JSEffect BY ScriptEffect, ThrowEffect, ReturnEffect DEF Script
  <1>2. InJS /\ polled' = polled
    BY DEF Script, NextTick, SetImmediate, StartHandle, StopHandle, SetExitCode, Exit,
           CallSync, Throw, Return, handleVars
  <1>3. StackInv' /\ TurnState' BY <1>1, <1>2, JSTurn DEF JSEffect
  <1>4. CASE SetImmediate BY <1>1, <1>3, <1>4, SetImmediateKeeps
  <1>5. CASE UNCHANGED immediateVars
    <2>1. ImmediateOrder' BY <1>5 DEF ImmediateOrder, immediateVars
    <2>2. CheckState' BY <1>1, <1>5, JSCheck DEF immediateVars
    <2> QED BY <1>3, <2>1, <2>2
  <1>6. SetImmediate \/ UNCHANGED immediateVars
    BY DEF Script, NextTick, StartHandle, StopHandle, SetExitCode, Exit, CallSync, Throw,
           Return
  <1> QED BY <1>4, <1>5, <1>6

\* A step that changes nothing
LEMMA StutterKeeps ==
    ASSUME StackInv, ImmediateOrder, CheckState, TurnState, UNCHANGED vars
    PROVE  StackInv' /\ ImmediateOrder' /\ CheckState' /\ TurnState'
  BY DEF StackInv, StackTypes, ExitState, ImmediateOrder, CheckState, TurnState, vars

\* Every step keeps the invariant
LEMMA NextIInv == IInv /\ [Next]_vars => IInv'
  <1> SUFFICES ASSUME IInv, [Next]_vars PROVE IInv' OBVIOUS
  <1>1. TickInv' BY TickStep DEF IInv
  <1>2. StackInv /\ ImmediateOrder /\ CheckState /\ TurnState BY DEF IInv, StackInv
  <1> SUFFICES StackInv' /\ ImmediateOrder' /\ CheckState' /\ TurnState'
    BY <1>1 DEF IInv, StackInv
  <1>3. CASE Script \/ Return BY <1>2, <1>3, JSKeeps
  <1>4. CASE DrainTicks BY <1>2, <1>4, DrainTicksKeeps
  <1>5. CASE RunImmediates BY <1>2, <1>5, RunImmediatesKeeps
  <1>6. CASE BeginTurn \/ EndPoll \/ EndTurn
    BY <1>2, <1>6, BeginTurnKeeps, EndPollKeeps, EndTurnKeeps
  <1>7. CASE Check \/ EmitExit BY <1>2, <1>7, CheckKeeps, EmitExitKeeps
  <1>8. CASE \E h \in Handles, frame \in {"io", "raw"} : Dispatch(h, frame)
    BY <1>2, <1>8, DispatchKeeps
  <1>9. CASE Done \/ UNCHANGED vars BY <1>2, <1>9, StutterKeeps DEF Done
  <1> QED BY <1>3, <1>4, <1>5, <1>6, <1>7, <1>8, <1>9 DEF Next, Runtime

\* The invariant holds in every state of every run of the loop
THEOREM Invariant == Spec => []IInv
  BY InitIInv, NextIInv, PTL DEF Spec

-----------------------------------------------------------------------------
(* What follows *)

\* Ticks and immediates run once each and in the order they were queued, however
\* callbacks nest and whatever they queue (CallbacksInOrder)
THEOREM InOrder == Spec => []CallbacksInOrder
  <1>1. ASSUME IInv PROVE CallbacksInOrder
    <2>1. ranTicks = Upto(Len(ranTicks)) BY <1>1 DEF IInv, TickInv, Upto
    <2>2. ranImmediates = Upto(Len(ranImmediates)) BY <1>1 DEF IInv, ImmediateOrder, Upto
    <2> DEFINE q == nextTickQueue
               p == tickPos + 1
               n == Len(nextTickQueue)
               d == ticks - Len(ranTicks)
    <2>3. /\ q \in Seq(Nat) /\ n \in Nat /\ p \in Int /\ p >= 1 /\ d = n - p + 1 /\ d \in Nat
          /\ \A i \in 1..n : q[i] = Len(ranTicks) - tickPos + i
          /\ tickPos \in Nat /\ Len(ranTicks) \in Nat
      BY <1>1 DEF IInv, TickInv
    <2>4. \A i \in p..n : q[i] \in Nat BY <2>3
    <2>5. /\ SubSeq(q, p, n) \in Seq(Nat)
          /\ Len(SubSeq(q, p, n)) = IF p <= n THEN n - p + 1 ELSE 0
          /\ \A i \in 1..(n - p + 1) : SubSeq(q, p, n)[i] = q[p + i - 1]
      BY ONLY <2>3, <2>4, SubSeqProperties
    <2>6. Len(SubSeq(q, p, n)) = d BY <2>3, <2>5
    <2>7. \A i \in 1..d : SubSeq(q, p, n)[i] = Len(ranTicks) + i BY <2>3, <2>5
    <2>8. SubSeq(q, p, n) = [i \in 1..d |-> Len(ranTicks) + i] BY <2>5, <2>6, <2>7
    <2> QED BY <2>1, <2>2, <2>8 DEF CallbacksInOrder
  <1> QED BY <1>1, Invariant, PTL

\* The process ends with exactly one 'exit' event (OneExitEvent)
THEOREM OneExit == Spec => []OneExitEvent
  <1>1. IInv => OneExitEvent BY DEF IInv, ExitState, OneExitEvent
  <1> QED BY <1>1, Invariant, PTL

\* No tick waits while the loop blocks, and the check handle is started exactly while
\* immediates are queued, if the main script does not throw (NothingWaits).  When it
\* does, its ticks wait: the run that TicksBeforeIO fails on.
THEOREM Waits == Spec => []("main" \notin Throwers => NothingWaits)
  <1>1. IInv => ("main" \notin Throwers => NothingWaits)
    BY DEF IInv, TurnState, CheckState, NothingWaits
  <1> QED BY <1>1, Invariant, PTL

\* The loop ends by itself only when no handle is active and nothing is queued,
\* whatever throws (ExitsOnlyWhenIdle)
THEOREM ExitsIdle == Spec => ExitsOnlyWhenIdle
  <1> DEFINE Idle ==
        phase' = "exit" /\ phase # "exit"
          => active = {} /\ immediateQueue = << >> /\ nextTickQueue = << >>
  <1>1. IInv /\ [Next]_vars => [Idle]_vars
    <2> SUFFICES ASSUME IInv, [Next]_vars, phase' = "exit", phase # "exit"
                 PROVE  active = {} /\ immediateQueue = << >> /\ nextTickQueue = << >>
      OBVIOUS
    <2>1. EmitExit
      <3>1. StackInv BY DEF IInv, StackInv
      <3>2. CASE Script \/ Return
        <4>1. JSEffect BY <3>1, <3>2, ScriptEffect, ThrowEffect, ReturnEffect DEF Script
        <4> QED BY <4>1 DEF JSEffect
      <3>3. CASE ~(Script \/ Return)
        BY <3>3 DEF Next, Runtime, DrainTicks, RunImmediates, BeginTurn, EndPoll, Check,
                    EndTurn, Dispatch, Done, vars
      <3> QED BY <3>2, <3>3
    <2>2. stack = << >> /\ phase = "decide" /\ active = {} /\ ~checkActive
      BY <2>1 DEF EmitExit, Alive
    <2>3. ~Contains(stack, "check") BY <2>2 DEF Contains
    <2> QED BY <2>2, <2>3 DEF IInv, TurnState, CheckState
  <1> QED BY <1>1, Invariant, PTL DEF Spec, ExitsOnlyWhenIdle
=============================================================================
