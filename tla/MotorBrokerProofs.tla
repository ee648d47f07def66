-------------------------- MODULE MotorBrokerProofs --------------------------
(***************************************************************************)
(* Theorems of MotorBroker for any number of connection threads and of     *)
(* sessions, any range of the motor and any budget for its travel.         *)
(***************************************************************************)
EXTENDS MotorBroker, TLAPS

-----------------------------------------------------------------------------
(* The inductive invariant *)

AtWork(c) == pc[c] \notin {"idle", "lock", "clear"}

\* A thread has its session's mutex from Lock to Unlock, and an open handle
\* when it waits for the I/O mutex.
SessionIsHeld ==
  \A c \in Clients : /\ AtWork(c) => mutex[call[c].s] = c
                     /\ pc[c] = "io" => Mine(c).open

\* Where a thread is says what it does, and what the motor was told last.
WorksOnItsCommand ==
  \A c \in Clients :
    /\ pc[c] = "io" \/ AtDevice(c) => call[c].cmd # "Ping"
    /\ pc[c] = "read" => call[c].cmd = "Status"
    /\ pc[c] \in {"issue", "quiet", "wait"} => call[c].cmd = "Tilt"
    /\ pc[c] = "quiet" => kind = "1473"
    /\ pc[c] = "wait" => kind = "1414"
    /\ pc[c] \in {"quiet", "wait"} => motor.target = call[c].goal

IInv == BrokerInv /\ SessionIsHeld /\ WorksOnItsCommand

-----------------------------------------------------------------------------
(* Types *)

Labels == {"idle", "lock", "open", "io", "prime", "read", "issue", "quiet", "wait", "unlock",
           "clear"}
Answers == {"none", "ok", "busy", "error"}
SessionState == [open : BOOLEAN, primed : BOOLEAN, known : BOOLEAN, last : Angles]
Calls == [cmd : {"Ping", "Status", "Tilt", "Led", "PrepareCamera"}, s : Sessions, goal : Angles,
          attempt : 0..2, quiet : 0..(MinQuiet + Margin + MaxTilt)]

\* The call of a client that has none is a call, of no command of its own.
LEMMA NoCallType ==
  NoCall \in Calls /\ NoCall.cmd = "Ping"
<1>1. (CHOOSE s \in Sessions : TRUE) \in Sessions
  BY BrokerAssumption
<1> QED
  BY <1>1, BrokerAssumption DEF NoCall, Calls, Angles

\* A session that was closed is shut and knows no reading.
LEMMA ShutType ==
  Shut \in SessionState /\ ~Shut.open /\ ~Shut.known
  BY BrokerAssumption DEF Shut, SessionState, Angles

\* The distance of two angles is their difference, and within the range.
LEMMA DistanceType ==
  ASSUME NEW a \in Angles, NEW b \in Angles
  PROVE  /\ Distance(a, b) \in 0..MaxTilt
         /\ a >= b => Distance(a, b) = a - b
         /\ a <= b => Distance(a, b) = b - a
  BY BrokerAssumption DEF Distance, Larger, Angles

\* A Tilt waits at least for the way it expects the motor to go.
LEMMA BudgetType ==
  ASSUME TypeOK, NEW c \in Clients
  PROVE  /\ QuietBudget(c) \in 0..(MinQuiet + Margin + MaxTilt)
         /\ QuietBudget(c) >= IF Mine(c).known THEN Distance(call[c].goal, Mine(c).last)
                                               ELSE MaxTilt
<1> DEFINE d == IF Mine(c).known THEN Distance(call[c].goal, Mine(c).last) ELSE MaxTilt
<1>1. d \in 0..MaxTilt
  <2>1. call[c].goal \in Angles /\ Mine(c).last \in Angles
    BY DEF TypeOK, Mine
  <2> QED
    BY <2>1, DistanceType, BrokerAssumption
<1>2. QuietBudget(c) = Larger(MinQuiet, Margin + d)
  BY DEF QuietBudget
<1> HIDE DEF d
<1> QED
  BY <1>1, <1>2, BrokerAssumption DEF Larger, d

\* What the end of an operation changes: the thread's place, its answer, and the
\* I/O mutex if it is the thread's.
LEMMA ReturnTyped ==
  ASSUME TypeOK, NEW c \in Clients, NEW result \in {"ok", "error"}, Return(c, result)
  PROVE  /\ ioMutex' \in Clients \cup {Nobody} /\ pc' \in [Clients -> Labels]
         /\ answer' \in [Clients -> Answers]
  BY DEF TypeOK, Return, Goto, Labels, Answers

\* A command that fails leaves every variable in its type.
LEMMA FailTyped ==
  ASSUME TypeOK, NEW c \in Clients, Fail(c)
  PROVE  /\ ioMutex' \in Clients \cup {Nobody} /\ pc' \in [Clients -> Labels]
         /\ answer' \in [Clients -> Answers]
         /\ session' \in [Sessions -> SessionState] /\ call' \in [Clients -> Calls]
<1>0. /\ session \in [Sessions -> SessionState] /\ call \in [Clients -> Calls]
      /\ pc \in [Clients -> Labels] /\ answer \in [Clients -> Answers]
      /\ ioMutex \in Clients \cup {Nobody}
  BY DEF TypeOK, SessionState, Calls, Labels, Answers
<1>1. [session EXCEPT ![call[c].s] = Shut] \in [Sessions -> SessionState]
  BY <1>0, ShutType
<1>2. [call EXCEPT ![c].attempt = 2] \in [Clients -> Calls]
  BY <1>0 DEF Calls
<1>3. CASE Return(c, "error")
  <2>1. pc'[c] = "unlock"
    BY <1>0, <1>3 DEF Return, Goto
  <2>2. (session' = session \/ session' = [session EXCEPT ![call[c].s] = Shut]) /\ call' = call
    BY <1>0, <1>3, <2>1 DEF Fail, Goto
  <2> QED
    BY <1>0, <1>1, <1>3, <2>2, ReturnTyped
<1>4. CASE ~Return(c, "error")
  BY <1>0, <1>1, <1>2, <1>4 DEF Fail, Goto, Labels
<1> QED
  BY <1>3, <1>4

\* The types hold at first.
LEMMA TypeInit == Init => TypeOK
<1> SUFFICES ASSUME Init PROVE TypeOK
  OBVIOUS
<1>1. call \in [Clients -> Calls] /\ session \in [Sessions -> SessionState]
  BY NoCallType, ShutType DEF Init
<1> QED
  BY <1>1 DEF Init, TypeOK, Calls, SessionState

\* Every step keeps the types.
LEMMA TypeStep == TypeOK /\ [Next]_vars => TypeOK'
<1> SUFFICES ASSUME TypeOK, [Next]_vars PROVE TypeOK'
  OBVIOUS
<1> DEFINE Typed == /\ kind \in Kinds /\ session \in [Sessions -> SessionState]
                    /\ inFlight \in [Sessions -> BOOLEAN]
                    /\ mutex \in [Sessions -> Clients \cup {Nobody}]
                    /\ ioMutex \in Clients \cup {Nobody}
                    /\ motor \in [pos : Angles, target : Angles]
                    /\ pc \in [Clients -> Labels] /\ call \in [Clients -> Calls]
                    /\ answer \in [Clients -> Answers]
<1>0. TypeOK <=> Typed
  BY DEF TypeOK, Labels, Calls, Answers, SessionState
<1>1. ASSUME NEW c \in Clients, Request(c) PROVE Typed'
  <2>0. PICK s \in Sessions, goal \in Angles : \E cmd \in Commands[s] :
          \/ answer' = [answer EXCEPT ![c] = "busy"] /\ UNCHANGED <<pc, call, inFlight>>
          \/ /\ answer' = [answer EXCEPT ![c] = "none"]
             /\ call' = [call EXCEPT ![c] =
                            [cmd |-> cmd, s |-> s, goal |-> goal, quiet |-> 0,
                             attempt |-> IF cmd \in {"Tilt", "Ping"} THEN 0 ELSE 1]]
             /\ pc' = [pc EXCEPT ![c] = "lock"]
             /\ inFlight' = [inFlight EXCEPT ![s] = @ \/ cmd = "Tilt"]
    BY <1>1 DEF Request, Goto
  <2>1. PICK cmd \in Commands[s] :
          \/ answer' = [answer EXCEPT ![c] = "busy"] /\ UNCHANGED <<pc, call, inFlight>>
          \/ /\ answer' = [answer EXCEPT ![c] = "none"]
             /\ call' = [call EXCEPT ![c] =
                            [cmd |-> cmd, s |-> s, goal |-> goal, quiet |-> 0,
                             attempt |-> IF cmd \in {"Tilt", "Ping"} THEN 0 ELSE 1]]
             /\ pc' = [pc EXCEPT ![c] = "lock"]
             /\ inFlight' = [inFlight EXCEPT ![s] = @ \/ cmd = "Tilt"]
    BY <2>0
  <2>2. cmd \in {"Ping", "Status", "Tilt", "Led", "PrepareCamera"}
    BY BrokerAssumption
  <2>3. [cmd |-> cmd, s |-> s, goal |-> goal, quiet |-> 0,
         attempt |-> IF cmd \in {"Tilt", "Ping"} THEN 0 ELSE 1] \in Calls
    BY <2>2, BrokerAssumption DEF Calls
  <2>4. UNCHANGED <<kind, session, mutex, ioMutex, motor>>
    BY <1>1 DEF Request
  <2>5. call' \in [Clients -> Calls] /\ pc' \in [Clients -> Labels]
    BY <1>0, <2>1, <2>3 DEF Labels
  <2>6. answer' \in [Clients -> Answers] /\ inFlight' \in [Sessions -> BOOLEAN]
    BY <1>0, <2>1 DEF Answers
  <2> QED
    BY <1>0, <2>4, <2>5, <2>6
<1>2. ASSUME NEW c \in Clients, Lock(c) \/ TakeIo(c) PROVE Typed'
  BY <1>0, <1>2 DEF Lock, TakeIo, Goto, Labels, Calls
<1>3. ASSUME NEW c \in Clients, Open(c) PROVE Typed'
  <2>1. [session EXCEPT ![call[c].s] = IF @.open THEN @ ELSE [Shut EXCEPT !.open = TRUE]]
          \in [Sessions -> SessionState]
    BY <1>0, ShutType DEF SessionState
  <2>2. \A a \in 0..2 : [call EXCEPT ![c].attempt = a] \in [Clients -> Calls]
    BY <1>0 DEF Calls
  <2>3. CASE Fail(c)
    BY <1>0, <1>3, <2>3, FailTyped DEF Open
  <2>4. ASSUME ~Fail(c) PROVE Typed'
    <3>1. session' \in [Sessions -> SessionState]
      BY <1>3, <2>1, <2>4 DEF Open
    <3>2. call' \in [Clients -> Calls]
      <4>1. 1 \in 0..2 /\ call[c].attempt \in 0..2
        BY <1>0 DEF Calls
      <4>2. \/ call' = call \/ call' = [call EXCEPT ![c].attempt = 1]
            \/ call' = [call EXCEPT ![c].attempt = call[c].attempt]
        BY <1>3, <2>4 DEF Open
      <4> QED
        BY <1>0, <2>2, <4>1, <4>2
    <3>3. /\ pc' \in [Clients -> Labels] /\ answer' \in [Clients -> Answers]
          /\ ioMutex' \in Clients \cup {Nobody}
      <4>1. CASE Return(c, "ok")
        BY <1>0, <4>1, ReturnTyped
      <4>2. CASE Goto(c, "io") /\ UNCHANGED <<answer, ioMutex>>
        BY <1>0, <4>2 DEF Goto, Labels
      <4> QED
        BY <1>3, <2>4, <4>1, <4>2 DEF Open
    <3>4. UNCHANGED <<kind, inFlight, mutex, motor>>
      BY <1>3 DEF Open
    <3> QED
      BY <1>0, <3>1, <3>2, <3>3, <3>4
  <2> QED
    BY <2>3, <2>4
<1>4. ASSUME NEW c \in Clients, Prime(c) PROVE Typed'
  <2>1. [session EXCEPT ![call[c].s].primed = TRUE] \in [Sessions -> SessionState]
    BY <1>0 DEF SessionState
  <2>2. CASE Fail(c)
    BY <1>0, <1>4, <2>2, FailTyped DEF Prime
  <2>3. ASSUME ~Fail(c) PROVE Typed'
    <3>1. session' \in [Sessions -> SessionState] /\ UNCHANGED <<kind, inFlight, mutex, motor, call>>
      BY <1>4, <2>1, <2>3 DEF Prime
    <3>2. CASE Return(c, "ok")
      BY <1>0, <3>1, <3>2, ReturnTyped
    <3>3. CASE ~Return(c, "ok")
      <4>1. /\ pc' = [pc EXCEPT ![c] = IF call[c].cmd = "Status" THEN "read" ELSE "issue"]
            /\ UNCHANGED <<answer, ioMutex>>
        BY <1>4, <2>3, <3>3 DEF Prime, Goto
      <4> QED
        BY <1>0, <3>1, <4>1 DEF Labels
    <3> QED
      BY <3>2, <3>3
  <2> QED
    BY <2>2, <2>3
<1>5. ASSUME NEW c \in Clients, ReadStatus(c) \/ FinalRead(c) \/ PollTravel(c) PROVE Typed'
  <2>1. Learn(c) => session' \in [Sessions -> SessionState]
    <3>1. motor.pos \in Angles /\ call[c].s \in Sessions
      BY <1>0 DEF Calls
    <3>2. \A a \in Angles :
            [session[call[c].s] EXCEPT !.known = TRUE, !.last = a] \in SessionState
      BY ZenonT(60), <1>0, <3>1 DEF SessionState
    <3> QED
      BY <1>0, <3>1, <3>2 DEF Learn
  <2>2. CASE Fail(c)
    BY <1>0, <1>5, <2>2, FailTyped DEF ReadStatus, FinalRead, PollTravel
  <2>3. ASSUME ~Fail(c) PROVE Typed'
    <3>1. /\ session' \in [Sessions -> SessionState]
          /\ UNCHANGED <<kind, inFlight, mutex, motor, call>>
          /\ Return(c, "ok") \/ UNCHANGED <<pc, answer, ioMutex>>
      BY <1>0, <1>5, <2>1, <2>3 DEF ReadStatus, FinalRead, PollTravel
    <3> QED
      BY <1>0, <3>1, ReturnTyped
  <2> QED
    BY <2>2, <2>3
<1>6. ASSUME NEW c \in Clients, IssueTilt(c) PROVE Typed'
  <2>1. motor' \in [pos : Angles, target : Angles] /\ UNCHANGED <<kind, inFlight, mutex>>
    <3>1. call[c].goal \in Angles
      BY <1>0 DEF Calls
    <3> QED
      BY <1>0, <1>6, <3>1 DEF IssueTilt
  <2>2. CASE Fail(c)
    BY <1>0, <2>1, <2>2, FailTyped
  <2>3. ASSUME ~Fail(c) PROVE Typed'
    <3>1. /\ pc' = [pc EXCEPT ![c] = IF kind = "1473" THEN "quiet" ELSE "wait"]
          /\ call' = [call EXCEPT ![c].quiet = IF kind = "1473" THEN QuietBudget(c) ELSE 0]
          /\ UNCHANGED <<session, answer, ioMutex>>
      BY <1>6, <2>3 DEF IssueTilt, Goto
    <3>2. (IF kind = "1473" THEN QuietBudget(c) ELSE 0) \in 0..(MinQuiet + Margin + MaxTilt)
      BY BudgetType, BrokerAssumption
    <3>3. call' \in [Clients -> Calls]
      BY <1>0, <3>1, <3>2 DEF Calls
    <3> QED
      BY <1>0, <2>1, <3>1, <3>3 DEF Labels
  <2> QED
    BY <2>2, <2>3
<1>7. ASSUME NEW c \in Clients, Unlock(c) \/ ClearFlag(c) PROVE Typed'
  <2>1. UNCHANGED <<kind, session, ioMutex, motor>>
    BY <1>7 DEF Unlock, ClearFlag
  <2>2. mutex' \in [Sessions -> Clients \cup {Nobody}] /\ inFlight' \in [Sessions -> BOOLEAN]
    BY <1>0, <1>7 DEF Unlock, ClearFlag
  <2>3. PICK flagged \in BOOLEAN : Leave(c, flagged)
    BY <1>7 DEF Unlock, ClearFlag
  <2>4. pc' \in [Clients -> Labels] /\ answer' \in [Clients -> Answers]
    BY <1>0, <2>3 DEF Leave, Goto, Labels, Answers
  <2>5. call' \in [Clients -> Calls]
    BY <1>0, <2>3, NoCallType DEF Leave
  <2> QED
    BY <1>0, <2>1, <2>2, <2>4, <2>5
<1>8. ASSUME Tick PROVE Typed'
  <2>1. UNCHANGED <<kind, session, inFlight, mutex, ioMutex, pc, answer>>
    BY <1>8 DEF Tick
  <2>2. motor' \in [pos : Angles, target : Angles]
    BY <1>0, <1>8, BrokerAssumption DEF Tick, Angles
  <2>3. \A c \in Clients : [call[c] EXCEPT !.quiet = Larger(@ - 1, 0)] \in Calls
    BY <1>0, BrokerAssumption DEF Calls, Larger
  <2>4. call' \in [Clients -> Calls]
    BY <1>8, <2>3 DEF Tick
  <2> QED
    BY <1>0, <2>1, <2>2, <2>4
<1>9. ASSUME UNCHANGED vars PROVE Typed'
  <2>1. /\ kind' = kind /\ session' = session /\ inFlight' = inFlight /\ mutex' = mutex
        /\ ioMutex' = ioMutex /\ motor' = motor /\ pc' = pc /\ call' = call /\ answer' = answer
    BY <1>9 DEF vars
  <2> QED
    BY <1>0, <2>1
<1>10. TypeOK' <=> Typed'
  BY DEF TypeOK, Labels, Calls, Answers, SessionState
<1> HIDE DEF Typed
<1> QED
  BY <1>1, <1>2, <1>3, <1>4, <1>5, <1>6, <1>7, <1>8, <1>9, <1>10
     DEF Next, ThreadStep, Transaction
-----------------------------------------------------------------------------
(* Threads at work *)

\* What a step of a thread between Lock and Unlock leaves alone.
Works(c, l) ==
  /\ AtWork(c)
  /\ pc' = [pc EXCEPT ![c] = l]
  /\ \A d \in Clients : /\ call'[d].s = call[d].s /\ call'[d].cmd = call[d].cmd
                        /\ call'[d].goal = call[d].goal
  /\ \A s \in Sessions \ {call[c].s} : session'[s] = session[s]
  /\ UNCHANGED <<kind, inFlight, mutex>>
  /\ AtDevice(c) \/ motor'.target = motor.target

\* How such a step goes on: the operation ends or is tried again, its handle is
\* open, or it has the device.
Ends(c, l) ==
  l \in {"open", "unlock"} /\ ioMutex' = IF ioMutex = c THEN Nobody ELSE ioMutex

WaitsForIo(c, l) ==
  /\ l = "io" /\ ~AtDevice(c) /\ ioMutex' = ioMutex
  /\ session'[call[c].s].open /\ call[c].cmd # "Ping"

UsesDevice(c, l) ==
  /\ l \in {"prime", "read", "issue", "quiet", "wait"}
  /\ ioMutex \in {c, Nobody} /\ ioMutex' = c
  /\ session'[call[c].s].open /\ call[c].cmd # "Ping"
  /\ l = "read" => call[c].cmd = "Status"
  /\ l \in {"issue", "quiet", "wait"} => call[c].cmd = "Tilt"
  /\ l = "quiet" => kind = "1473"
  /\ l = "wait" => kind = "1414"
  /\ l \in {"quiet", "wait"} => motor'.target = call[c].goal

GoesOn(c, l) == Works(c, l) /\ (Ends(c, l) \/ WaitsForIo(c, l) \/ UsesDevice(c, l))

\* A command that returns ends the work of its thread.
LEMMA EndGoesOn ==
  ASSUME TypeOK, NEW c \in Clients, NEW result \in {"ok", "error"},
         Return(c, result), call' = call, UNCHANGED <<kind, inFlight, mutex>>, AtWork(c),
         AtDevice(c) \/ motor'.target = motor.target,
         \A s \in Sessions \ {call[c].s} : session'[s] = session[s]
  PROVE  GoesOn(c, "unlock")
  BY DEF Return, Goto, GoesOn, Works, Ends

\* A command that fails opens the session again or returns.
LEMMA FailGoesOn ==
  ASSUME TypeOK, NEW c \in Clients, Fail(c), AtWork(c), UNCHANGED <<kind, inFlight, mutex>>,
         AtDevice(c) \/ motor'.target = motor.target
  PROVE  GoesOn(c, "open") \/ GoesOn(c, "unlock")
<1>1. /\ session \in [Sessions -> SessionState] /\ call \in [Clients -> Calls]
      /\ pc \in [Clients -> Labels]
  BY DEF TypeOK, SessionState, Calls, Labels
<1>2. \A s \in Sessions \ {call[c].s} : session'[s] = session[s]
  BY <1>1 DEF Fail
<1>3. CASE Return(c, "error")
  <2>1. pc'[c] = "unlock"
    BY <1>1, <1>3 DEF Return, Goto
  <2>2. call' = call
    BY <1>1, <1>3, <2>1 DEF Fail, Goto
  <2> QED
    BY <1>2, <1>3, <2>2, EndGoesOn
<1>4. CASE ~Return(c, "error")
  <2>1. /\ pc' = [pc EXCEPT ![c] = "open"]
        /\ call' = [call EXCEPT ![c].attempt = 2]
        /\ ioMutex' = IF ioMutex = c THEN Nobody ELSE ioMutex
    BY <1>4 DEF Fail, Goto
  <2>2. \A d \in Clients : /\ call'[d].s = call[d].s /\ call'[d].cmd = call[d].cmd
                           /\ call'[d].goal = call[d].goal
    BY <1>1, <2>1 DEF Calls
  <2> QED
    BY <1>2, <2>1, <2>2 DEF GoesOn, Works, Ends
<1> QED
  BY <1>3, <1>4

\* Each step of a command leaves its thread at work, or ends the work.
LEMMA WorkGoesOn ==
  ASSUME IInv, NEW c \in Clients, Open(c) \/ TakeIo(c) \/ Transaction(c)
  PROVE  \E l \in Labels : GoesOn(c, l)
<1>1. /\ session \in [Sessions -> SessionState] /\ call \in [Clients -> Calls]
      /\ pc \in [Clients -> Labels] /\ TypeOK
  BY DEF IInv, BrokerInv, TypeOK, SessionState, Calls, Labels
<1>2. /\ AtWork(c) => mutex[call[c].s] = c
      /\ pc[c] = "io" => Mine(c).open
      /\ pc[c] = "io" \/ AtDevice(c) => call[c].cmd # "Ping"
      /\ pc[c] = "issue" => call[c].cmd = "Tilt"
      /\ AtDevice(c) => ioMutex = c /\ Mine(c).open
  BY DEF IInv, BrokerInv, DeviceIsOwned, SessionIsHeld, WorksOnItsCommand
<1>3. UNCHANGED <<kind, inFlight>> /\ AtWork(c) /\ mutex' = mutex
  BY DEF Open, TakeIo, Transaction, Prime, ReadStatus, IssueTilt, FinalRead, PollTravel, AtWork
<1>4. AtDevice(c) \/ motor' = motor
  BY DEF Open, TakeIo, Transaction, Prime, ReadStatus, IssueTilt, FinalRead, PollTravel, AtDevice
<1>5. CASE Fail(c)
  BY <1>1, <1>3, <1>4, <1>5, FailGoesOn DEF Labels
<1>6. CASE Open(c) /\ ~Fail(c)
  <2>1. /\ session' = [session EXCEPT ![call[c].s] = IF @.open THEN @ ELSE [Shut EXCEPT !.open = TRUE]]
        /\ motor' = motor /\ pc[c] = "open"
    BY <1>6 DEF Open
  <2>2. /\ session'[call[c].s].open
        /\ \A s \in Sessions \ {call[c].s} : session'[s] = session[s]
    <3>1. call[c].s \in Sessions
      BY <1>1 DEF Calls
    <3>2. [Shut EXCEPT !.open = TRUE].open
      BY DEF Shut
    <3> QED
      BY <1>1, <2>1, <3>1, <3>2
  <2>3. CASE call[c].cmd = "Ping"
    <3>1. Return(c, "ok") /\ call' = call
      BY <1>6, <2>3 DEF Open
    <3> QED
      BY <1>1, <1>3, <2>1, <2>2, <3>1, EndGoesOn DEF Labels
  <2>4. CASE call[c].cmd # "Ping"
    <3>1. pc' = [pc EXCEPT ![c] = "io"] /\ ioMutex' = ioMutex
      BY <1>6, <2>4 DEF Open, Goto
    <3>2. \/ call' = [call EXCEPT ![c].attempt = 1]
          \/ call' = [call EXCEPT ![c].attempt = call[c].attempt]
      BY <1>6, <2>4 DEF Open
    <3>3. \A d \in Clients :
            /\ call'[d].s = call[d].s /\ call'[d].cmd = call[d].cmd
            /\ call'[d].goal = call[d].goal
      BY <1>1, <3>2 DEF Calls
    <3> QED
      BY <1>3, <2>1, <2>2, <2>4, <3>1, <3>3 DEF GoesOn, Works, WaitsForIo, AtDevice, Labels
  <2> QED
    BY <2>3, <2>4
<1>7. CASE TakeIo(c)
  BY <1>1, <1>2, <1>3, <1>4, <1>7
     DEF TakeIo, Goto, GoesOn, Works, UsesDevice, Labels, Mine
<1>8. CASE Prime(c) /\ ~Fail(c)
  <2>1. /\ session' = [session EXCEPT ![call[c].s].primed = TRUE]
        /\ motor' = motor /\ call' = call /\ pc[c] = "prime"
    BY <1>8 DEF Prime
  <2>2. /\ session'[call[c].s].open /\ ioMutex = c
        /\ \A s \in Sessions \ {call[c].s} : session'[s] = session[s]
    <3>1. call[c].s \in Sessions /\ session[call[c].s].open /\ ioMutex = c
      BY <1>1, <1>2, <2>1 DEF Calls, AtDevice, Mine
    <3> QED
      BY <1>1, <2>1, <3>1 DEF SessionState
  <2>3. CASE Return(c, "ok")
    BY <1>1, <1>3, <2>1, <2>2, <2>3, EndGoesOn DEF Labels
  <2>4. CASE ~Return(c, "ok")
    <3>1. /\ pc' = [pc EXCEPT ![c] = IF call[c].cmd = "Status" THEN "read" ELSE "issue"]
          /\ ioMutex' = ioMutex /\ call[c].cmd \notin {"Led", "PrepareCamera"}
      BY <1>8, <2>4 DEF Prime, Goto
    <3>2. call[c].cmd \in {"Status", "Tilt"}
      BY <1>1, <1>2, <2>1, <3>1 DEF Calls, AtDevice
    <3> DEFINE l == IF call[c].cmd = "Status" THEN "read" ELSE "issue"
    <3>3. Works(c, l)
      BY <1>3, <2>1, <2>2, <3>1 DEF Works
    <3>4. UsesDevice(c, l)
      BY <2>2, <3>1, <3>2 DEF UsesDevice
    <3> QED
      BY <3>3, <3>4 DEF GoesOn, Labels
  <2> QED
    BY <2>3, <2>4
<1>9. CASE (ReadStatus(c) \/ FinalRead(c) \/ PollTravel(c)) /\ ~Fail(c)
  <2>1. /\ Learn(c) \/ UNCHANGED session
        /\ motor' = motor /\ call' = call /\ AtDevice(c)
    BY <1>9 DEF ReadStatus, FinalRead, PollTravel, AtDevice
  <2>2. /\ session'[call[c].s].open /\ ioMutex = c
        /\ \A s \in Sessions \ {call[c].s} : session'[s] = session[s]
    <3>1. call[c].s \in Sessions /\ session[call[c].s].open /\ ioMutex = c
      BY <1>1, <1>2, <2>1 DEF Calls, Mine
    <3> QED
      BY <1>1, <2>1, <3>1 DEF SessionState, Learn
  <2>3. CASE Return(c, "ok")
    BY <1>1, <1>3, <2>1, <2>2, <2>3, EndGoesOn DEF Labels
  <2>4. CASE ~Return(c, "ok")
    <3>1. pc[c] = "wait" /\ pc' = pc /\ ioMutex' = ioMutex
      BY <1>9, <2>4 DEF ReadStatus, FinalRead, PollTravel
    <3>2. pc' = [pc EXCEPT ![c] = "wait"]
      BY <1>1, <3>1
    <3>3. kind = "1414" /\ motor.target = call[c].goal /\ call[c].cmd = "Tilt"
      BY <3>1 DEF IInv, WorksOnItsCommand
    <3> QED
      BY <1>3, <2>1, <2>2, <3>1, <3>2, <3>3 DEF GoesOn, Works, UsesDevice, Labels
  <2> QED
    BY <2>3, <2>4
<1>10. CASE IssueTilt(c) /\ ~Fail(c)
  <2>1. /\ motor' = [motor EXCEPT !.target = call[c].goal]
        /\ pc' = [pc EXCEPT ![c] = IF kind = "1473" THEN "quiet" ELSE "wait"]
        /\ call' = [call EXCEPT ![c].quiet = IF kind = "1473" THEN QuietBudget(c) ELSE 0]
        /\ session' = session /\ ioMutex' = ioMutex /\ pc[c] = "issue"
    BY <1>10 DEF IssueTilt, Goto
  <2>2. motor'.target = call[c].goal /\ kind \in {"1414", "1473"}
    BY <2>1, BrokerAssumption DEF IInv, BrokerInv, TypeOK
  <2>3. \A d \in Clients :
          /\ call'[d].s = call[d].s /\ call'[d].cmd = call[d].cmd
          /\ call'[d].goal = call[d].goal
    BY <1>1, <2>1 DEF Calls
  <2>4. ioMutex = c /\ session'[call[c].s].open /\ call[c].cmd = "Tilt" /\ AtDevice(c)
    BY <1>2, <2>1 DEF AtDevice, Mine
  <2> DEFINE l == IF kind = "1473" THEN "quiet" ELSE "wait"
  <2>5. Works(c, l)
    BY <1>3, <2>1, <2>3, <2>4 DEF Works
  <2>6. UsesDevice(c, l)
    BY <2>1, <2>2, <2>4 DEF UsesDevice
  <2> QED
    BY <2>5, <2>6 DEF GoesOn, Labels
<1> QED
  BY <1>5, <1>6, <1>7, <1>8, <1>9, <1>10 DEF Transaction

\* Such a step keeps what the threads own in order.
LEMMA GoingOnKeeps ==
  ASSUME IInv, NEW c \in Clients, NEW l \in Labels, GoesOn(c, l)
  PROVE  /\ DeviceIsOwned' /\ NoMutexIsLeaked' /\ BusyOnlyDuringTilt'
         /\ SessionIsHeld' /\ WorksOnItsCommand'
<1> USE DEF AtWork, AtDevice, Tilting
<1>1. /\ call \in [Clients -> Calls] /\ pc \in [Clients -> Labels]
      /\ mutex \in [Sessions -> Clients \cup {Nobody}] /\ ioMutex \in Clients \cup {Nobody}
  BY DEF IInv, BrokerInv, TypeOK, Calls, Labels
<1>2. \A d \in Clients : /\ AtWork(d) => mutex[call[d].s] = d
                         /\ pc[d] = "io" => Mine(d).open
                         /\ AtDevice(d) => ioMutex = d /\ Mine(d).open
  BY DEF IInv, BrokerInv, DeviceIsOwned, SessionIsHeld
<1>3. \A d \in Clients : call[d].s \in Sessions
  BY <1>1 DEF Calls
<1>4. /\ AtWork(c) /\ pc' = [pc EXCEPT ![c] = l] /\ pc'[c] = l
      /\ \A d \in Clients \ {c} : pc'[d] = pc[d]
      /\ \A d \in Clients : call'[d].s = call[d].s /\ call'[d].cmd = call[d].cmd
      /\ mutex' = mutex /\ inFlight' = inFlight
  BY <1>1 DEF GoesOn, Works
<1>5. ASSUME NEW d \in Clients \ {c}, AtWork(d)
      PROVE  call[d].s # call[c].s /\ Mine(d)' = Mine(d)
  <2>1. call[d].s # call[c].s
    BY <1>2, <1>4, <1>5
  <2>2. session'[call[d].s] = session[call[d].s]
    BY <1>3, <2>1 DEF GoesOn, Works
  <2> QED
    BY <1>4, <2>1, <2>2 DEF Mine
<1>6. \A d \in Clients \ {c} : /\ AtWork(d)' <=> AtWork(d)
                               /\ AtDevice(d)' <=> AtDevice(d)
                               /\ Tilting(d)' <=> Tilting(d)
                               /\ AtDevice(d) => AtWork(d)
  BY <1>4 DEF AtWork, AtDevice, Tilting
<1>7. /\ AtWork(c)' <=> l \notin {"idle", "lock", "clear"}
      /\ AtDevice(c)' <=> l \in {"prime", "read", "issue", "quiet", "wait"}
      /\ Mine(c)' = session'[call[c].s] /\ (AtDevice(c) => AtWork(c))
  BY <1>4 DEF AtWork, AtDevice, Mine
<1>8. \A d \in Clients : mutex'[call'[d].s] = mutex[call[d].s]
  BY <1>4
<1>9. /\ l = "io" \/ AtDevice(c)' => Mine(c)'.open
      /\ l \notin {"idle", "lock", "clear"}
  BY <1>7 DEF GoesOn, Ends, WaitsForIo, UsesDevice
<1>10. SessionIsHeld'
  <2> SUFFICES ASSUME NEW d \in Clients
               PROVE  /\ AtWork(d)' => mutex'[call'[d].s] = d
                      /\ pc'[d] = "io" => Mine(d)'.open
    BY DEF SessionIsHeld
  <2>1. CASE d = c
    BY <1>2, <1>4, <1>8, <1>9, <2>1
  <2>2. CASE d # c
    BY <1>2, <1>4, <1>5, <1>6, <1>8, <2>2 DEF AtWork
  <2> QED
    BY <2>1, <2>2
<1>11. ASSUME NEW d \in Clients, AtDevice(d)' PROVE ioMutex' = d
  <2>1. CASE d = c
    BY <1>7, <1>11, <2>1 DEF GoesOn, Ends, WaitsForIo, UsesDevice
  <2>2. CASE d # c
    BY <1>2, <1>6, <1>11, <2>2, BrokerAssumption DEF GoesOn, Ends, WaitsForIo, UsesDevice
  <2> QED
    BY <2>1, <2>2
<1>12. DeviceIsOwned'
  <2> SUFFICES ASSUME NEW d \in Clients, AtDevice(d)'
               PROVE  mutex'[call'[d].s] = d /\ Mine(d)'.open
    BY <1>11 DEF DeviceIsOwned
  <2>1. CASE d = c
    BY <1>2, <1>4, <1>8, <1>9, <2>1
  <2>2. CASE d # c
    BY <1>2, <1>5, <1>6, <1>8, <2>2
  <2> QED
    BY <2>1, <2>2
<1>13. NoMutexIsLeaked'
  <2>1. ASSUME NEW s \in Sessions, mutex'[s] # Nobody
        PROVE  call'[mutex'[s]].s = s /\ pc'[mutex'[s]] \notin {"idle", "lock", "clear"}
    <3>1. /\ mutex[s] \in Clients /\ call[mutex[s]].s = s
          /\ pc[mutex[s]] \notin {"idle", "lock", "clear"}
      BY <1>1, <1>4, <2>1 DEF IInv, BrokerInv, NoMutexIsLeaked
    <3> QED
      BY <1>4, <1>9, <3>1
  <2>2. ASSUME ioMutex' # Nobody PROVE AtDevice(ioMutex)'
    <3>1. CASE ioMutex' = c /\ AtDevice(c)'
      BY <3>1 DEF AtDevice
    <3>2. CASE ~(ioMutex' = c /\ AtDevice(c)')
      <4>1. ioMutex' = ioMutex /\ ioMutex # c
        BY <1>2, <1>4, <1>7, <2>2, <3>2, BrokerAssumption
           DEF GoesOn, Ends, WaitsForIo, UsesDevice, IInv, BrokerInv, NoMutexIsLeaked
      <4>2. ioMutex \in Clients \ {c} /\ AtDevice(ioMutex)
        BY <1>1, <2>2, <4>1 DEF IInv, BrokerInv, NoMutexIsLeaked
      <4> QED
        BY <1>4, <4>1, <4>2 DEF AtDevice
    <3> QED
      BY <3>1, <3>2
  <2> QED
    BY <2>1, <2>2 DEF NoMutexIsLeaked
<1>14. BusyOnlyDuringTilt'
  <2> SUFFICES ASSUME NEW s \in Sessions, inFlight'[s]
               PROVE  \E d \in Clients : Tilting(d)' /\ call'[d].s = s
    BY DEF BusyOnlyDuringTilt
  <2>1. PICK d \in Clients : Tilting(d) /\ call[d].s = s
    BY <1>4 DEF IInv, BrokerInv, BusyOnlyDuringTilt
  <2>2. Tilting(d)'
    BY <1>4, <1>6, <1>9, <2>1 DEF Tilting
  <2> QED
    BY <1>4, <2>1, <2>2
<1>15. WorksOnItsCommand'
  <2> SUFFICES ASSUME NEW d \in Clients
               PROVE  /\ pc'[d] = "io" \/ AtDevice(d)' => call'[d].cmd # "Ping"
                      /\ pc'[d] = "read" => call'[d].cmd = "Status"
                      /\ pc'[d] \in {"issue", "quiet", "wait"} => call'[d].cmd = "Tilt"
                      /\ pc'[d] = "quiet" => kind' = "1473"
                      /\ pc'[d] = "wait" => kind' = "1414"
                      /\ pc'[d] \in {"quiet", "wait"} => motor'.target = call'[d].goal
    BY DEF WorksOnItsCommand
  <2>0. kind' = kind /\ call'[d].goal = call[d].goal
    BY DEF GoesOn, Works
  <2>1. CASE d = c
    BY <1>4, <1>7, <2>0, <2>1 DEF GoesOn, Ends, WaitsForIo, UsesDevice
  <2>2. CASE d # c
    <3>1. pc'[d] \in {"quiet", "wait"} => motor'.target = motor.target
      BY <1>2, <1>4, <2>2 DEF GoesOn, Works, AtDevice
    <3> QED
      BY <1>4, <1>6, <2>0, <2>2, <3>1 DEF IInv, WorksOnItsCommand
  <2> QED
    BY <2>1, <2>2
<1> QED
  BY <1>10, <1>12, <1>13, <1>14, <1>15

-----------------------------------------------------------------------------
(* The other steps *)

\* A request that begins holds nothing yet.
LEMMA RequestKeeps ==
  ASSUME IInv, NEW c \in Clients, Request(c)
  PROVE  /\ DeviceIsOwned' /\ NoMutexIsLeaked' /\ BusyOnlyDuringTilt'
         /\ SessionIsHeld' /\ WorksOnItsCommand'
<1>1. /\ call \in [Clients -> Calls] /\ pc \in [Clients -> Labels]
      /\ inFlight \in [Sessions -> BOOLEAN]
      /\ mutex \in [Sessions -> Clients \cup {Nobody}] /\ ioMutex \in Clients \cup {Nobody}
  BY DEF IInv, BrokerInv, TypeOK, Calls, Labels
<1>2. pc[c] = "idle" /\ UNCHANGED <<kind, session, mutex, ioMutex, motor>>
  BY DEF Request
<1>3. CASE UNCHANGED <<pc, call, inFlight>>
  BY <1>2, <1>3 DEF IInv, BrokerInv, DeviceIsOwned, NoMutexIsLeaked, BusyOnlyDuringTilt,
     SessionIsHeld, WorksOnItsCommand, AtDevice, AtWork, Tilting, Mine
<1>4. CASE ~UNCHANGED <<pc, call, inFlight>>
  <2>1. PICK s \in Sessions : \E cmd \in Commands[s] : \E r \in Calls :
          /\ r.s = s /\ r.cmd = cmd
          /\ call' = [call EXCEPT ![c] = r] /\ pc' = [pc EXCEPT ![c] = "lock"]
          /\ inFlight' = [inFlight EXCEPT ![s] = @ \/ cmd = "Tilt"]
    <3>1. PICK s \in Sessions, goal \in Angles : \E cmd \in Commands[s] :
            /\ call' = [call EXCEPT ![c] =
                          [cmd |-> cmd, s |-> s, goal |-> goal, quiet |-> 0,
                           attempt |-> IF cmd \in {"Tilt", "Ping"} THEN 0 ELSE 1]]
            /\ pc' = [pc EXCEPT ![c] = "lock"]
            /\ inFlight' = [inFlight EXCEPT ![s] = @ \/ cmd = "Tilt"]
      BY <1>4 DEF Request, Goto
    <3>2. PICK cmd \in Commands[s] :
            /\ call' = [call EXCEPT ![c] =
                          [cmd |-> cmd, s |-> s, goal |-> goal, quiet |-> 0,
                           attempt |-> IF cmd \in {"Tilt", "Ping"} THEN 0 ELSE 1]]
            /\ pc' = [pc EXCEPT ![c] = "lock"]
            /\ inFlight' = [inFlight EXCEPT ![s] = @ \/ cmd = "Tilt"]
      BY <3>1
    <3>3. cmd \in {"Ping", "Status", "Tilt", "Led", "PrepareCamera"}
      BY BrokerAssumption
    <3>4. [cmd |-> cmd, s |-> s, goal |-> goal, quiet |-> 0,
           attempt |-> IF cmd \in {"Tilt", "Ping"} THEN 0 ELSE 1] \in Calls
      BY <3>3, BrokerAssumption DEF Calls
    <3> QED
      BY <3>2, <3>4
  <2>2. PICK cmd \in Commands[s], r \in Calls :
          /\ r.s = s /\ r.cmd = cmd
          /\ call' = [call EXCEPT ![c] = r] /\ pc' = [pc EXCEPT ![c] = "lock"]
          /\ inFlight' = [inFlight EXCEPT ![s] = @ \/ cmd = "Tilt"]
    BY <2>1
  <2>3. /\ pc'[c] = "lock" /\ call'[c] = r
        /\ \A d \in Clients \ {c} : pc'[d] = pc[d] /\ call'[d] = call[d]
        /\ \A t \in Sessions \ {s} : inFlight'[t] = inFlight[t]
        /\ inFlight'[s] => inFlight[s] \/ cmd = "Tilt"
    BY <1>1, <2>2
  <2>4. DeviceIsOwned' /\ SessionIsHeld' /\ WorksOnItsCommand'
    BY <1>2, <2>3 DEF IInv, BrokerInv, DeviceIsOwned, SessionIsHeld, WorksOnItsCommand,
                      AtDevice, AtWork, Mine
  <2>5. NoMutexIsLeaked'
    BY <1>1, <1>2, <2>3 DEF IInv, BrokerInv, NoMutexIsLeaked, AtDevice
  <2>6. BusyOnlyDuringTilt'
    <3> SUFFICES ASSUME NEW t \in Sessions, inFlight'[t]
                 PROVE  \E d \in Clients : Tilting(d)' /\ call'[d].s = t
      BY DEF BusyOnlyDuringTilt
    <3>1. CASE t = s /\ cmd = "Tilt"
      BY <2>2, <2>3, <3>1 DEF Tilting
    <3>2. CASE ~(t = s /\ cmd = "Tilt")
      <4>1. PICK d \in Clients : Tilting(d) /\ call[d].s = t
        BY <2>3, <3>2 DEF IInv, BrokerInv, BusyOnlyDuringTilt
      <4> QED
        BY <1>2, <2>3, <4>1 DEF Tilting
    <3> QED
      BY <3>1, <3>2
  <2> QED
    BY <2>4, <2>5, <2>6
<1> QED
  BY <1>3, <1>4

\* A thread that gets a mutex was not at work, and nobody else with its session was.
LEMMA LockKeeps ==
  ASSUME IInv, NEW c \in Clients, Lock(c)
  PROVE  /\ DeviceIsOwned' /\ NoMutexIsLeaked' /\ BusyOnlyDuringTilt'
         /\ SessionIsHeld' /\ WorksOnItsCommand'
<1>1. /\ call \in [Clients -> Calls] /\ pc \in [Clients -> Labels]
      /\ mutex \in [Sessions -> Clients \cup {Nobody}] /\ ioMutex \in Clients \cup {Nobody}
  BY DEF IInv, BrokerInv, TypeOK, Calls, Labels
<1>2. /\ pc[c] = "lock" /\ mutex[call[c].s] = Nobody /\ call[c].s \in Sessions
      /\ pc'[c] = "open" /\ \A d \in Clients \ {c} : pc'[d] = pc[d]
      /\ mutex'[call[c].s] = c /\ \A s \in Sessions \ {call[c].s} : mutex'[s] = mutex[s]
      /\ UNCHANGED <<kind, session, inFlight, ioMutex, motor, call>>
  BY <1>1 DEF Lock, Goto, Calls
<1>3. \A d \in Clients : call[d].s \in Sessions
  BY <1>1 DEF Calls
<1>4. DeviceIsOwned' /\ SessionIsHeld' /\ WorksOnItsCommand'
  BY <1>2, <1>3, BrokerAssumption DEF IInv, BrokerInv, DeviceIsOwned, SessionIsHeld,
     WorksOnItsCommand, AtDevice, AtWork, Mine
<1>5. NoMutexIsLeaked'
  BY <1>1, <1>2 DEF IInv, BrokerInv, NoMutexIsLeaked, AtDevice
<1>6. BusyOnlyDuringTilt'
  BY <1>2 DEF IInv, BrokerInv, BusyOnlyDuringTilt, Tilting
<1> QED
  BY <1>4, <1>5, <1>6

\* A thread that leaves has given back the I/O mutex before.
LEMMA LeaveKeeps ==
  ASSUME IInv, NEW c \in Clients, Unlock(c) \/ ClearFlag(c)
  PROVE  /\ DeviceIsOwned' /\ NoMutexIsLeaked' /\ BusyOnlyDuringTilt'
         /\ SessionIsHeld' /\ WorksOnItsCommand'
<1>1. /\ call \in [Clients -> Calls] /\ pc \in [Clients -> Labels]
      /\ mutex \in [Sessions -> Clients \cup {Nobody}] /\ ioMutex \in Clients \cup {Nobody}
      /\ inFlight \in [Sessions -> BOOLEAN]
  BY DEF IInv, BrokerInv, TypeOK, Calls, Labels
<1>2. \A d \in Clients : call[d].s \in Sessions
  BY <1>1 DEF Calls
<1>3. PICK flagged \in BOOLEAN :
        /\ pc' = [pc EXCEPT ![c] = IF flagged THEN "clear" ELSE "idle"]
        /\ call' = [call EXCEPT ![c] = IF flagged THEN @ ELSE NoCall]
        /\ Unlock(c) => flagged = (call[c].cmd = "Tilt")
        /\ ClearFlag(c) => ~flagged
  BY DEF Unlock, ClearFlag, Leave, Goto
<1>4. /\ pc'[c] \in {"clear", "idle"} /\ (flagged => pc'[c] = "clear" /\ call'[c] = call[c])
      /\ \A d \in Clients \ {c} : pc'[d] = pc[d] /\ call'[d] = call[d]
      /\ pc[c] \in {"unlock", "clear"} /\ UNCHANGED <<kind, session, ioMutex, motor>>
  BY <1>1, <1>3 DEF Unlock, ClearFlag
<1>5. /\ \A s \in Sessions \ {call[c].s} : mutex'[s] = mutex[s] /\ inFlight'[s] = inFlight[s]
      /\ Unlock(c) => mutex'[call[c].s] = Nobody /\ inFlight' = inFlight
      /\ ClearFlag(c) => mutex' = mutex /\ ~inFlight'[call[c].s]
      /\ Unlock(c) => pc[c] = "unlock"
      /\ ClearFlag(c) => pc[c] = "clear"
  BY <1>1, <1>2 DEF Unlock, ClearFlag
<1>6. Unlock(c) => mutex[call[c].s] = c
  BY <1>5 DEF IInv, SessionIsHeld, AtWork
<1>7. \A d \in Clients \ {c} : AtWork(d) => mutex'[call[d].s] = d
  <2> SUFFICES ASSUME NEW d \in Clients \ {c}, AtWork(d) PROVE mutex'[call[d].s] = d
    OBVIOUS
  <2>1. mutex[call[d].s] = d
    BY DEF IInv, SessionIsHeld
  <2> QED
    BY <1>2, <1>5, <1>6, <2>1
<1>8. DeviceIsOwned' /\ SessionIsHeld' /\ WorksOnItsCommand'
  BY <1>4, <1>7 DEF IInv, BrokerInv, DeviceIsOwned, SessionIsHeld,
     WorksOnItsCommand, AtDevice, AtWork, Mine
<1>9. NoMutexIsLeaked'
  <2>1. ASSUME NEW s \in Sessions, mutex'[s] # Nobody
        PROVE  call'[mutex'[s]].s = s /\ pc'[mutex'[s]] \notin {"idle", "lock", "clear"}
    <3>1. mutex'[s] = mutex[s] /\ mutex[s] \in Clients
      BY <1>1, <1>2, <1>5, <2>1
    <3>2. call[mutex[s]].s = s /\ pc[mutex[s]] \notin {"idle", "lock", "clear"}
      BY <2>1, <3>1 DEF IInv, BrokerInv, NoMutexIsLeaked
    <3>3. mutex[s] # c
      BY <1>5, <2>1, <3>1, <3>2
    <3> QED
      BY <1>4, <3>1, <3>2, <3>3
  <2>2. ioMutex' # Nobody => AtDevice(ioMutex)'
    BY <1>1, <1>4 DEF IInv, BrokerInv, NoMutexIsLeaked, AtDevice
  <2> QED
    BY <2>1, <2>2 DEF NoMutexIsLeaked
<1>10. BusyOnlyDuringTilt'
  <2> SUFFICES ASSUME NEW s \in Sessions, inFlight'[s]
               PROVE  \E d \in Clients : Tilting(d)' /\ call'[d].s = s
    BY DEF BusyOnlyDuringTilt
  <2>1. inFlight[s] /\ (ClearFlag(c) => s # call[c].s)
    BY <1>5
  <2>2. PICK d \in Clients : Tilting(d) /\ call[d].s = s
    BY <2>1 DEF IInv, BrokerInv, BusyOnlyDuringTilt
  <2>3. CASE d # c
    BY <1>4, <2>2, <2>3 DEF Tilting
  <2>4. CASE d = c
    BY <1>3, <1>4, <2>1, <2>2, <2>4 DEF Tilting
  <2> QED
    BY <2>3, <2>4
<1> QED
  BY <1>8, <1>9, <1>10

\* Time keeps who has the device, the mutexes and the flag.
LEMMA TickKeeps ==
  ASSUME IInv, Tick
  PROVE  /\ DeviceIsOwned' /\ NoMutexIsLeaked' /\ BusyOnlyDuringTilt'
         /\ SessionIsHeld' /\ WorksOnItsCommand'
<1>1. call \in [Clients -> Calls] /\ motor \in [pos : Angles, target : Angles]
      /\ mutex \in [Sessions -> Clients \cup {Nobody}]
  BY DEF IInv, BrokerInv, TypeOK, Calls
<1>2. UNCHANGED <<kind, session, inFlight, mutex, ioMutex, pc>> /\ motor'.target = motor.target
  BY <1>1 DEF Tick
<1>3. \A d \in Clients : /\ call'[d].s = call[d].s /\ call'[d].cmd = call[d].cmd
                         /\ call'[d].goal = call[d].goal
  BY <1>1 DEF Tick, Calls
<1> QED
  BY <1>1, <1>2, <1>3 DEF IInv, BrokerInv, DeviceIsOwned, NoMutexIsLeaked, BusyOnlyDuringTilt,
     SessionIsHeld, WorksOnItsCommand, AtDevice, AtWork, Tilting, Mine

-----------------------------------------------------------------------------
(* The theorems *)

\* The inductive invariant holds at first.
LEMMA IInvInit == Init => IInv
<1> SUFFICES ASSUME Init PROVE IInv
  OBVIOUS
<1>1. TypeOK
  BY TypeInit
<1> QED
  BY <1>1 DEF Init, IInv, BrokerInv, DeviceIsOwned, NoMutexIsLeaked, BusyOnlyDuringTilt,
     SessionIsHeld, WorksOnItsCommand, AtDevice, AtWork

\* Every step keeps it.
LEMMA IInvStep == IInv /\ [Next]_vars => IInv'
<1> SUFFICES ASSUME IInv, [Next]_vars PROVE IInv'
  OBVIOUS
<1>1. TypeOK'
  BY TypeStep DEF IInv, BrokerInv
<1> DEFINE Owned == /\ DeviceIsOwned /\ NoMutexIsLeaked /\ BusyOnlyDuringTilt
                    /\ SessionIsHeld /\ WorksOnItsCommand
<1>2. ASSUME NEW c \in Clients, Open(c) \/ TakeIo(c) \/ Transaction(c) PROVE Owned'
  BY <1>2, WorkGoesOn, GoingOnKeeps
<1>3. ASSUME NEW c \in Clients, Request(c) PROVE Owned'
  BY <1>3, RequestKeeps
<1>4. ASSUME NEW c \in Clients, Lock(c) PROVE Owned'
  BY <1>4, LockKeeps
<1>5. ASSUME NEW c \in Clients, Unlock(c) \/ ClearFlag(c) PROVE Owned'
  BY <1>5, LeaveKeeps
<1>6. ASSUME Tick PROVE Owned'
  BY <1>6, TickKeeps
<1>7. ASSUME UNCHANGED vars PROVE Owned'
  BY <1>7 DEF IInv, BrokerInv, DeviceIsOwned, NoMutexIsLeaked, BusyOnlyDuringTilt,
     SessionIsHeld, WorksOnItsCommand, AtDevice, AtWork, Tilting, Mine, vars
<1>8. Owned'
  BY <1>2, <1>3, <1>4, <1>5, <1>6, <1>7 DEF Next, ThreadStep
<1> QED
  BY <1>1, <1>8 DEF IInv, BrokerInv

\* The broker's own invariant: whoever talks to the motor owns the session, the
\* Kinect and an open handle, no mutex is left locked by any error path, and a
\* Status is refused as busy only during a Tilt.
THEOREM BrokerInvariant == Spec => []BrokerInv
  BY IInvInit, IInvStep, PTL DEF Spec, IInv

-----------------------------------------------------------------------------
(* Two promises about a step *)

\* A command that fails is tried again or answered with an error.
LEMMA FailIsNoSuccess ==
  ASSUME TypeOK, NEW c \in Clients, Fail(c)
  PROVE  pc'[c] = "open" \/ (pc'[c] = "unlock" /\ answer'[c] = "error")
  BY DEF TypeOK, Fail, Return, Goto

\* Only its own transactions move a thread that has the device.
LEMMA OwnTransaction ==
  ASSUME IInv, [Next]_vars, NEW c \in Clients, AtDevice(c), pc'[c] # pc[c]
  PROVE  Transaction(c)
<1>1. pc \in [Clients -> Labels]
  BY DEF IInv, BrokerInv, TypeOK, Labels
<1>2. ASSUME NEW d \in Clients, d # c, Request(d) \/ ThreadStep(d) PROVE FALSE
  <2>1. pc' = pc \/ \E l : pc' = [pc EXCEPT ![d] = l]
    <3>1. CASE Fail(d)
      BY <3>1 DEF Fail, Return, Goto
    <3>2. CASE ~Fail(d)
      BY <1>2, <3>2 DEF Request, ThreadStep, Transaction, Lock, Open, TakeIo, Prime, ReadStatus,
         IssueTilt, FinalRead, PollTravel, Unlock, ClearFlag, Leave, Return, Goto
    <3> QED
      BY <3>1, <3>2
  <2> QED
    BY <1>1, <1>2, <2>1
<1>3. Request(c) \/ ThreadStep(c)
  BY <1>2 DEF Next, Tick, vars
<1> QED
  BY <1>3 DEF ThreadStep, Request, Lock, Open, TakeIo, Unlock, ClearFlag, AtDevice

\* A Tilt that reports success is the last command the motor was given, however
\* many sessions and threads command it; a 1414 has then reached the angle.
THEOREM TiltSuccessIsMineHolds == Spec => TiltSuccessIsMine
<1> DEFINE Step == \A c \in Clients :
                     Tilting(c) /\ AtDevice(c) /\ pc'[c] = "unlock" /\ answer'[c] = "ok" =>
                       /\ motor.target = call[c].goal
                       /\ kind = "1414" => motor.pos = call[c].goal
<1>1. IInv /\ [Next]_vars => Step
  <2> SUFFICES ASSUME IInv, [Next]_vars, NEW c \in Clients,
                      Tilting(c), AtDevice(c), pc'[c] = "unlock", answer'[c] = "ok"
               PROVE  /\ motor.target = call[c].goal
                      /\ kind = "1414" => motor.pos = call[c].goal
    OBVIOUS
  <2>1. Transaction(c)
    BY OwnTransaction DEF AtDevice
  <2>2. ~Fail(c)
    BY FailIsNoSuccess DEF IInv, BrokerInv
  <2>3. /\ pc[c] = "read" => call[c].cmd = "Status"
        /\ pc[c] = "quiet" => kind = "1473"
        /\ pc[c] \in {"quiet", "wait"} => motor.target = call[c].goal
        /\ call[c].cmd = "Tilt" /\ pc \in [Clients -> Labels]
    BY DEF IInv, WorksOnItsCommand, Tilting, BrokerInv, TypeOK, Labels
  <2>4. ~Prime(c) /\ ~ReadStatus(c) /\ ~IssueTilt(c)
    BY <2>2, <2>3 DEF Prime, ReadStatus, IssueTilt, Goto
  <2>5. CASE FinalRead(c)
    BY <2>3, <2>5 DEF FinalRead
  <2>6. CASE PollTravel(c)
    BY <2>2, <2>3, <2>6 DEF PollTravel
  <2> QED
    BY <2>1, <2>4, <2>5, <2>6 DEF Transaction
<1>2. Spec => []IInv
  BY IInvInit, IInvStep, PTL DEF Spec
<1>3. Spec => [][Step]_vars
  BY <1>1, <1>2, PTL DEF Spec
<1> QED
  BY <1>3 DEF TiltSuccessIsMine

-----------------------------------------------------------------------------
(* A 1473 travels in silence *)

\* MI_00 is claimed exclusively, an angle is known only through an open handle,
\* and while no thread waits silently the motor rests where it was last read;
\* a silent wait lasts at least as long as the way that is left.
OneHandle ==
  \A s, t \in Sessions : session[s].open /\ session[t].open => s = t

KnownIsOpen == \A s \in Sessions : session[s].known => session[s].open

Silent == \E c \in Clients : pc[c] = "quiet"

AtRest ==
  motor.pos = motor.target /\ \A s \in Sessions : session[s].known => session[s].last = motor.pos

WaitsLongEnough ==
  \A c \in Clients : pc[c] = "quiet" => call[c].quiet >= Distance(motor.target, motor.pos)

Quiet1473 ==
  kind = "1473" => OneHandle /\ KnownIsOpen /\ (Silent \/ AtRest) /\ WaitsLongEnough

\* What the silent wait relies on: acknowledgements and readings arrive.
RepliesArrive == "1473" \in Kinds => "ack" \notin Faults["1473"] /\ "read" \notin Faults["1473"]

\* What a step does to the handles: it leaves them, or it works on its own, which it
\* opens only if the other session has none.
LEMMA HandlesStep ==
  ASSUME IInv, [Next]_vars, OneHandle, KnownIsOpen, kind = "1473"
  PROVE  OneHandle' /\ KnownIsOpen'
<1>1. /\ session \in [Sessions -> SessionState] /\ call \in [Clients -> Calls] /\ TypeOK
  BY DEF IInv, BrokerInv, TypeOK, SessionState, Calls
<1>2. CASE session' = session
  BY <1>2 DEF OneHandle, KnownIsOpen
<1>3. ASSUME NEW s \in Sessions, NEW r \in SessionState, session' = [session EXCEPT ![s] = r],
             r.known => r.open,
             r.open => session[s].open \/ \A t \in Sessions \ {s} : ~session[t].open
      PROVE  OneHandle' /\ KnownIsOpen'
  <2>1. session'[s] = r /\ \A t \in Sessions \ {s} : session'[t] = session[t]
    BY <1>1, <1>3
  <2> QED
    BY <1>3, <2>1 DEF OneHandle, KnownIsOpen
<1>4. ASSUME NEW c \in Clients, Fail(c) PROVE OneHandle' /\ KnownIsOpen'
  <2>1. session' = session \/ session' = [session EXCEPT ![call[c].s] = Shut]
    BY <1>4 DEF Fail
  <2> QED
    BY <1>1, <1>2, <1>3, <2>1, ShutType DEF Calls
<1>5. ASSUME NEW c \in Clients, Open(c), ~Fail(c) PROVE OneHandle' /\ KnownIsOpen'
  <2> DEFINE s == call[c].s
  <2>1. /\ s \in Sessions /\ ~ClaimedElsewhere(s)
        /\ session' = [session EXCEPT ![s] = IF session[s].open THEN session[s]
                                             ELSE [Shut EXCEPT !.open = TRUE]]
    BY <1>1, <1>5 DEF Open, Calls
  <2>2. CASE session[s].open
    BY <1>1, <1>3, <2>1, <2>2 DEF KnownIsOpen
  <2>3. CASE ~session[s].open
    <3>1. [Shut EXCEPT !.open = TRUE] \in SessionState /\ ~[Shut EXCEPT !.open = TRUE].known
      BY ShutType DEF SessionState, Shut
    <3>2. \A t \in Sessions \ {s} : ~session[t].open
      BY <2>1, <2>3 DEF ClaimedElsewhere
    <3> QED
      BY <1>3, <2>1, <2>3, <3>1, <3>2
  <2> QED
    BY <2>2, <2>3
<1>6. ASSUME NEW c \in Clients, AtDevice(c), NEW r \in SessionState, r.open,
             session' = [session EXCEPT ![call[c].s] = r]
      PROVE  OneHandle' /\ KnownIsOpen'
  <2>1. call[c].s \in Sessions /\ session[call[c].s].open
    BY <1>1, <1>6 DEF IInv, BrokerInv, DeviceIsOwned, Mine, Calls
  <2> QED
    BY <1>3, <1>6, <2>1
<1>7. ASSUME NEW c \in Clients, Prime(c), ~Fail(c) PROVE OneHandle' /\ KnownIsOpen'
  <2> DEFINE r == [session[call[c].s] EXCEPT !.primed = TRUE]
  <2>1. AtDevice(c) /\ session' = [session EXCEPT ![call[c].s] = r]
    BY <1>7 DEF Prime, AtDevice
  <2>2. r \in SessionState /\ r.open
    <3>1. session[call[c].s] \in SessionState /\ session[call[c].s].open
      BY <1>1, <2>1 DEF IInv, BrokerInv, DeviceIsOwned, Mine, Calls
    <3> QED
      BY <3>1 DEF SessionState
  <2> QED
    BY <1>6, <2>1, <2>2
<1>8. ASSUME NEW c \in Clients, Learn(c), AtDevice(c) PROVE OneHandle' /\ KnownIsOpen'
  <2> DEFINE r == [session[call[c].s] EXCEPT !.known = TRUE, !.last = motor.pos]
  <2>0. session[call[c].s] \in SessionState /\ session[call[c].s].open /\ motor.pos \in Angles
    BY <1>1, <1>8 DEF IInv, BrokerInv, TypeOK, DeviceIsOwned, Mine, Calls
  <2>1. session' = [session EXCEPT ![call[c].s] = r]
    BY <1>1, <1>8, <2>0 DEF Learn
  <2>2. r \in SessionState /\ r.open
    BY <2>0 DEF SessionState
  <2> QED
    BY <1>6, <1>8, <2>1, <2>2
<1>9. ASSUME NEW c \in Clients, Request(c) \/ ThreadStep(c), ~Fail(c), ~Open(c), ~Prime(c)
      PROVE  session' = session \/ (Learn(c) /\ AtDevice(c))
  BY <1>9 DEF Request, ThreadStep, Lock, TakeIo, Transaction, ReadStatus, IssueTilt, FinalRead,
     PollTravel, Unlock, ClearFlag, AtDevice
<1>10. CASE Tick \/ UNCHANGED vars
  BY <1>2, <1>10 DEF Tick, vars
<1> QED
  BY <1>2, <1>4, <1>5, <1>7, <1>8, <1>9, <1>10 DEF Next, ThreadStep, Transaction

\* One unit of time: the motor and the clock of a silent wait go on together.
LEMMA TickTravels ==
  ASSUME IInv, Quiet1473, Tick, kind = "1473"
  PROVE  (Silent \/ AtRest)' /\ WaitsLongEnough'
<1>1. /\ motor \in [pos : Angles, target : Angles] /\ call \in [Clients -> Calls]
  BY DEF IInv, BrokerInv, TypeOK, Calls
<1> DEFINE p == motor.pos
           t == motor.target
           q == IF p < t THEN p + 1 ELSE IF p > t THEN p - 1 ELSE p
<1>2. motor'.pos = q /\ motor'.target = t /\ session' = session /\ pc' = pc
  BY <1>1 DEF Tick
<1>3. p \in Angles /\ t \in Angles
  BY <1>1
<1>4. q \in Angles
  BY <1>3, BrokerAssumption DEF Angles
<1>5. \A d \in Clients : call[d].quiet \in Nat /\ call'[d].quiet = Larger(call[d].quiet - 1, 0)
  <2>1. \A d \in Clients : call[d].quiet \in 0..(MinQuiet + Margin + MaxTilt)
    BY <1>1 DEF Calls
  <2>2. \A d \in Clients : call'[d].quiet = Larger(call[d].quiet - 1, 0)
    BY <1>1 DEF Tick, Calls
  <2> QED
    BY <2>1, <2>2, BrokerAssumption
<1>6. (Silent \/ AtRest)'
  <2>1. p = t => q = p
    BY <1>3, BrokerAssumption DEF Angles
  <2> QED
    BY <1>2, <2>1 DEF Quiet1473, Silent, AtRest
<1>7. ASSUME NEW d \in Clients, pc'[d] = "quiet"
      PROVE  call'[d].quiet >= Distance(motor'.target, motor'.pos)
  <2>1. call[d].quiet >= Distance(t, p)
    BY <1>2, <1>7 DEF Quiet1473, WaitsLongEnough
  <2>2. /\ Distance(t, p) \in Nat /\ Distance(t, q) \in Nat
        /\ Distance(t, q) = IF Distance(t, p) = 0 THEN 0 ELSE Distance(t, p) - 1
    BY <1>3, <1>4, BrokerAssumption DEF Distance, Larger, Angles
  <2> HIDE DEF q, p, t
  <2>3. call'[d].quiet >= Distance(t, q)
    BY <1>5, <2>1, <2>2 DEF Larger
  <2> QED
    BY <1>2, <2>3
<1> QED
  BY <1>6, <1>7 DEF WaitsLongEnough

\* At most one thread has the device, so no other waits.
LEMMA AloneAtDevice ==
  ASSUME IInv, NEW c \in Clients, AtDevice(c), NEW d \in Clients \ {c}
  PROVE  ~AtDevice(d)
  BY DEF IInv, BrokerInv, DeviceIsOwned

\* A step of another thread, or of this one outside the silent wait.
LEMMA OtherStepsKeepQuiet ==
  ASSUME IInv, Quiet1473, kind = "1473", NEW c \in Clients,
         pc[c] # "quiet", pc'[c] # "quiet", motor' = motor,
         \A d \in Clients \ {c} : pc'[d] = pc[d] /\ call'[d] = call[d],
         \A s \in Sessions : session'[s].known =>
            session'[s].last = motor.pos \/ (session[s].known /\ session'[s].last = session[s].last)
  PROVE  (Silent \/ AtRest)' /\ WaitsLongEnough'
<1>1. Silent => Silent'
  BY DEF Silent
<1>2. AtRest => AtRest'
  BY DEF AtRest
<1>3. WaitsLongEnough'
  BY DEF Quiet1473, WaitsLongEnough
<1> QED
  BY <1>1, <1>2, <1>3 DEF Quiet1473

\* The command is on its way: the budget covers it, from where the motor rests.
LEMMA TiltBegins ==
  ASSUME IInv, Quiet1473, NEW c \in Clients, pc[c] = "issue", kind = "1473",
         motor' = [motor EXCEPT !.target = call[c].goal], session' = session,
         pc' = [pc EXCEPT ![c] = "quiet"],
         call' = [call EXCEPT ![c].quiet = QuietBudget(c)]
  PROVE  (Silent \/ AtRest)' /\ WaitsLongEnough'
<1>0. TypeOK /\ call \in [Clients -> Calls] /\ pc \in [Clients -> Labels]
  BY DEF IInv, BrokerInv, TypeOK, Calls, Labels
<1>1. AtDevice(c) /\ \A d \in Clients \ {c} : ~AtDevice(d)
  BY AloneAtDevice DEF AtDevice
<1>2. AtRest
  BY <1>1 DEF Quiet1473, Silent, AtDevice
<1>3. pc'[c] = "quiet" /\ \A d \in Clients \ {c} : pc'[d] # "quiet"
  BY <1>0, <1>1 DEF AtDevice
<1>4. call'[c].quiet = QuietBudget(c)
  BY <1>0 DEF Calls
<1>5. motor'.target = call[c].goal /\ motor'.pos = motor.pos
  BY <1>0 DEF TypeOK
<1>6. call[c].goal \in Angles /\ motor.pos \in Angles /\ call[c].s \in Sessions
  BY <1>0 DEF TypeOK, Calls
<1>7. Mine(c).known => Mine(c).last = motor.pos
  BY <1>2, <1>6 DEF AtRest, Mine
<1>8. QuietBudget(c) >= Distance(call[c].goal, motor.pos)
  <2>1. Distance(call[c].goal, motor.pos) \in 0..MaxTilt
    BY <1>6, DistanceType
  <2>2. /\ QuietBudget(c) \in 0..(MinQuiet + Margin + MaxTilt)
        /\ QuietBudget(c) >= IF Mine(c).known THEN Distance(call[c].goal, Mine(c).last)
                                              ELSE MaxTilt
    BY <1>0, BudgetType
  <2> QED
    BY <1>7, <2>1, <2>2, BrokerAssumption
<1>9. WaitsLongEnough'
  BY <1>3, <1>4, <1>5, <1>8 DEF WaitsLongEnough
<1> QED
  BY <1>3, <1>9 DEF Silent

\* The silent wait is over when the motor has arrived, and the reading says where.
LEMMA TiltEnds ==
  ASSUME IInv, Quiet1473, NEW c \in Clients, FinalRead(c), Learn(c), kind = "1473"
  PROVE  (Silent \/ AtRest)' /\ WaitsLongEnough'
<1>0. /\ session \in [Sessions -> SessionState] /\ call \in [Clients -> Calls]
      /\ pc \in [Clients -> Labels] /\ motor \in [pos : Angles, target : Angles]
  BY DEF IInv, BrokerInv, TypeOK, Calls, Labels, SessionState
<1>1. /\ pc[c] = "quiet" /\ call[c].quiet = 0 /\ motor' = motor
      /\ pc' = [pc EXCEPT ![c] = "unlock"] /\ call[c].s \in Sessions
  BY <1>0 DEF FinalRead, Return, Goto, Calls
<1>2. AtDevice(c) /\ \A d \in Clients \ {c} : ~AtDevice(d)
  BY <1>1, AloneAtDevice DEF AtDevice
<1>3. \A d \in Clients : pc'[d] # "quiet"
  BY <1>0, <1>1, <1>2 DEF AtDevice
<1>4. motor.pos = motor.target
  <2>1. Distance(motor.target, motor.pos) <= 0
    <3>1. Distance(motor.target, motor.pos) \in 0..MaxTilt
      BY <1>0, DistanceType
    <3> QED
      BY <1>1, <3>1, BrokerAssumption DEF Quiet1473, WaitsLongEnough
  <2> QED
    BY <1>0, <2>1, BrokerAssumption DEF Distance, Larger, Angles
<1>5. session'[call[c].s].last = motor.pos
  BY <1>0, <1>1 DEF Learn, SessionState
<1>6. \A s \in Sessions \ {call[c].s} : session'[s] = session[s] /\ ~session[s].known
  <2>1. session[call[c].s].open
    BY <1>2 DEF IInv, BrokerInv, DeviceIsOwned, Mine
  <2>2. \A s \in Sessions \ {call[c].s} : ~session[s].open
    BY <1>1, <2>1 DEF Quiet1473, OneHandle
  <2> QED
    BY <1>0, <2>2 DEF Learn, Quiet1473, KnownIsOpen
<1>7. AtRest'
  BY <1>1, <1>4, <1>5, <1>6 DEF AtRest
<1> QED
  BY <1>3, <1>7 DEF WaitsLongEnough

\* Every step of a 1473 whose replies arrive keeps it quiet.
LEMMA QuietStep ==
  ASSUME RepliesArrive, IInv, Quiet1473, [Next]_vars
  PROVE  Quiet1473'
<1> SUFFICES ASSUME kind = "1473"
             PROVE  OneHandle' /\ KnownIsOpen' /\ (Silent \/ AtRest)' /\ WaitsLongEnough'
  BY DEF Quiet1473, Next, Request, ThreadStep, Lock, Open, TakeIo, Transaction, Prime, ReadStatus,
     IssueTilt, FinalRead, PollTravel, Unlock, ClearFlag, Tick, vars
<1>0. /\ session \in [Sessions -> SessionState] /\ call \in [Clients -> Calls]
      /\ pc \in [Clients -> Labels] /\ "ack" \notin Faults[kind] /\ "read" \notin Faults[kind]
  BY DEF RepliesArrive, IInv, BrokerInv, TypeOK, Calls, Labels, SessionState
<1>1. OneHandle' /\ KnownIsOpen'
  BY HandlesStep DEF Quiet1473
<1> DEFINE Rests == (Silent \/ AtRest)' /\ WaitsLongEnough'
<1>2. ASSUME NEW c \in Clients, Fail(c), pc[c] # "quiet", motor' = motor PROVE Rests
  <2>1. /\ pc'[c] # "quiet"
        /\ \A d \in Clients \ {c} : pc'[d] = pc[d] /\ call'[d] = call[d]
    BY <1>0, <1>2 DEF Fail, Return, Goto
  <2>2. session' = session \/ session' = [session EXCEPT ![call[c].s] = Shut]
    BY <1>2 DEF Fail
  <2>3. \A s \in Sessions : session'[s].known => session'[s] = session[s]
    BY <1>0, <2>2, ShutType
  <2> QED
    BY <1>2, <2>1, <2>3, OtherStepsKeepQuiet
<1>3. ASSUME NEW c \in Clients, Request(c) \/ Lock(c) \/ TakeIo(c) \/ Unlock(c) \/ ClearFlag(c)
      PROVE  Rests
  <2>1. /\ session' = session /\ motor' = motor /\ pc[c] # "quiet" /\ pc'[c] # "quiet"
        /\ \A d \in Clients \ {c} : pc'[d] = pc[d] /\ call'[d] = call[d]
    BY <1>0, <1>3 DEF Request, Lock, TakeIo, Unlock, ClearFlag, Leave, Goto
  <2> QED
    BY <2>1, OtherStepsKeepQuiet
<1>4. ASSUME NEW c \in Clients, Open(c) \/ Prime(c), ~Fail(c) PROVE Rests
  <2>1. /\ motor' = motor /\ pc[c] # "quiet" /\ pc'[c] # "quiet"
        /\ \A d \in Clients \ {c} : pc'[d] = pc[d] /\ call'[d] = call[d]
    BY <1>0, <1>4 DEF Open, Prime, Return, Goto
  <2>2. \A s \in Sessions : session'[s].known =>
          session[s].known /\ session'[s].last = session[s].last
    <3>1. CASE Open(c)
      BY <1>0, <1>4, <3>1 DEF Open, Shut
    <3>2. CASE Prime(c)
      BY <1>0, <1>4, <3>2 DEF Prime, SessionState
    <3> QED
      BY <1>4, <3>1, <3>2
  <2> QED
    BY <2>1, <2>2, OtherStepsKeepQuiet
<1>5. ASSUME NEW c \in Clients, ReadStatus(c) PROVE Rests
  <2>1. /\ motor' = motor /\ pc[c] # "quiet" /\ pc'[c] # "quiet"
        /\ \A d \in Clients \ {c} : pc'[d] = pc[d] /\ call'[d] = call[d]
        /\ Learn(c)
    BY <1>0, <1>5 DEF ReadStatus, Return, Goto
  <2>2. \A s \in Sessions : session'[s].known =>
          session'[s].last = motor.pos \/ (session[s].known /\ session'[s].last = session[s].last)
    BY <1>0, <2>1 DEF Learn, SessionState
  <2> QED
    BY <2>1, <2>2, OtherStepsKeepQuiet
<1>6. ASSUME NEW c \in Clients, IssueTilt(c) PROVE Rests
  <2>1. CASE Fail(c) /\ motor' = motor
    BY <1>2, <1>6, <2>1 DEF IssueTilt
  <2>2. CASE ~(Fail(c) /\ motor' = motor)
    BY <1>0, <1>6, <2>2, TiltBegins DEF IssueTilt, Goto
  <2> QED
    BY <2>1, <2>2
<1>7. ASSUME NEW c \in Clients, FinalRead(c) PROVE Rests
  BY <1>0, <1>7, TiltEnds DEF FinalRead
<1>8. ASSUME NEW c \in Clients, PollTravel(c) PROVE FALSE
  BY <1>8 DEF PollTravel, IInv, WorksOnItsCommand
<1>9. ASSUME Tick PROVE Rests
  BY <1>9, TickTravels
<1>10. ASSUME UNCHANGED vars PROVE Rests
  BY <1>10 DEF vars, Quiet1473, Silent, AtRest, WaitsLongEnough
<1>11. ASSUME NEW c \in Clients, Open(c) \/ Prime(c), Fail(c) PROVE Rests
  <2>1. motor' = motor /\ pc[c] # "quiet"
    BY <1>11 DEF Open, Prime
  <2> QED
    BY <1>2, <1>11, <2>1
<1>12. Rests
  BY <1>3, <1>4, <1>5, <1>6, <1>7, <1>8, <1>9, <1>10, <1>11 DEF Next, ThreadStep, Transaction
<1> QED
  BY <1>1, <1>12

\* A 1473 is quiet at first.
LEMMA QuietInit == Init => Quiet1473
  BY ShutType DEF Init, Quiet1473, OneHandle, KnownIsOpen, Silent, AtRest, WaitsLongEnough, Shut

\* No transaction reaches MI_00 of a 1473 while its motor travels, whatever the
\* distance, the range and the budget, as long as replies arrive: a Tilt that is
\* told of the last reading waits long enough, and the others wait for the mutex.
THEOREM SilentTravelHolds ==
  ASSUME RepliesArrive
  PROVE  Spec => SilentTravel
<1> DEFINE Step == kind = "1473" /\ (\E c \in Clients : AtDevice(c) /\ pc'[c] # pc[c]) =>
                     motor.pos = motor.target
<1>1. IInv /\ Quiet1473 /\ [Next]_vars => Step
  <2> SUFFICES ASSUME IInv, Quiet1473, [Next]_vars, kind = "1473",
                      NEW c \in Clients, AtDevice(c), pc'[c] # pc[c]
               PROVE  motor.pos = motor.target
    OBVIOUS
  <2>1. CASE pc[c] = "quiet"
    <3>1. FinalRead(c)
      BY <2>1, OwnTransaction DEF Transaction, Prime, ReadStatus, IssueTilt, PollTravel
    <3>2. /\ call[c].quiet = 0 /\ motor \in [pos : Angles, target : Angles]
          /\ call[c].quiet >= Distance(motor.target, motor.pos)
      BY <2>1, <3>1 DEF FinalRead, Quiet1473, WaitsLongEnough, IInv, BrokerInv, TypeOK
    <3>3. Distance(motor.target, motor.pos) <= 0
      BY <3>2, DistanceType, BrokerAssumption
    <3> QED
      BY <3>2, <3>3, BrokerAssumption DEF Distance, Larger, Angles
  <2>2. CASE pc[c] # "quiet"
    <3>1. ~Silent
      BY <2>2, AloneAtDevice DEF Silent, AtDevice
    <3> QED
      BY <3>1 DEF Quiet1473, AtRest
  <2> QED
    BY <2>1, <2>2
<1>2. Spec => []IInv
  BY IInvInit, IInvStep, PTL DEF Spec
<1>3. IInv /\ Quiet1473 /\ [Next]_vars => Quiet1473'
  BY QuietStep
<1>4. Spec => []Quiet1473
  BY <1>2, <1>3, QuietInit, PTL DEF Spec
<1>5. Spec => [][Step]_vars
  BY <1>1, <1>2, <1>4, PTL DEF Spec
<1> QED
  BY <1>5 DEF SilentTravel

=============================================================================
