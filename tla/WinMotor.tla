------------------------------- MODULE WinMotor -------------------------------
(***************************************************************************)
(* Motor commands in the Windows broker (Kinect360RemoldBroker.cpp): one   *)
(* thread per control connection, one PhysicalNuiContext per device id in  *)
(* a request, one physical Kinect.                                         *)
(*                                                                         *)
(* The differences from the Linux MotorBroker are what the model is about. *)
(* Every command is tried a second time on a new handle, a Tilt of a 1473  *)
(* included; the I/O mutex of the Kinect is held by one attempt, and the   *)
(* recovery between the two, which aborts and resets the pipes of MI_00,   *)
(* runs without it; both contexts may have a handle at a time              *)
(* (FILE_SHARE_READ | FILE_SHARE_WRITE).                                   *)
(*                                                                         *)
(* Abstracted: an angle is a step of the motor, a unit of time what the    *)
(* motor needs for a step; a transaction succeeds or fails as Faults says. *)
(***************************************************************************)
EXTENDS Integers

CONSTANTS
  Threads,     \* of ControlServerLoop's clients
  Nobody,      \* owner of a free mutex
  Contexts,    \* the contexts that resolve to this Kinect
  Kinds,       \* "1414", "1473": the transports to consider
  MaxTilt,     \* the range of the motor in steps
  Commands,    \* the commands that are used on each context
  Faults       \* what may fail on each kind: "open", "prime", "out", "ack", "read"

VARIABLES
  kind,        \* the transport of the Kinect that is plugged in
  session,     \* PhysicalNuiSession of each context
  inFlight,    \* tiltInFlight
  mutex,       \* who holds the mutex of each context
  ioMutex,     \* who holds the I/O mutex of the Kinect
  motor,       \* where it is and where it was told to go
  pc, call,    \* of each thread
  cut          \* threads whose transfers were aborted by another's recovery

vars == <<kind, session, inFlight, mutex, ioMutex, motor, pc, call, cut>>

Angles == 0..MaxTilt
Distance(a, b) == IF a > b THEN a - b ELSE b - a
Shut == [open |-> FALSE, prepared |-> FALSE, known |-> FALSE, last |-> 0]
NoCall == [cmd |-> "Ping", ctx |-> CHOOSE s \in Contexts : TRUE, goal |-> 0,
           attempt |-> 1, quiet |-> 0, sent |-> 0, result |-> "none"]
Mine(c) == session[call[c].ctx]

\* Tilt1473QuietMs, without its minimum and its margin: a lower bound
QuietBudget(c) == IF Mine(c).known THEN Distance(call[c].goal, Mine(c).last) ELSE MaxTilt

Goto(c, label) == pc' = [pc EXCEPT ![c] = label]
ReleaseIo(c)   == ioMutex' = IF ioMutex = c THEN Nobody ELSE ioMutex

\* The attempt succeeds: both mutexes go, and for a Tilt the flag.
Succeed(c) ==
  /\ Goto(c, "leave") /\ ReleaseIo(c)
  /\ call' = [call EXCEPT ![c].result = "ok"]
  /\ cut' = cut \ {c}

\* Mutant: the second failure is tried again as well.
FailAgain(c) == Goto(c, "recover") /\ ReleaseIo(c) /\ cut' = cut \ {c} /\ UNCHANGED <<call, session>>

\* The attempt fails: the I/O mutex goes; after the second attempt the handle too.
Fail(c) ==
  /\ ReleaseIo(c)
  /\ cut' = cut \ {c}
  /\ IF call[c].attempt = 1
     THEN Goto(c, "recover") /\ UNCHANGED <<call, session>>
     ELSE /\ Goto(c, "leave")
          /\ call' = [call EXCEPT ![c].result = "error"]
          /\ session' = [session EXCEPT ![call[c].ctx] = Shut]

MayFail(c, fault) == fault \in Faults[kind] \/ c \in cut

-----------------------------------------------------------------------------
(* TryPhysicalNuiCommand *)

\* A request: Status looks at the flag without the mutex, Tilt sets it first.
Request(c) ==
  /\ pc[c] = "idle"
  /\ \E s \in Contexts, goal \in Angles : \E cmd \in Commands[s] :
       /\ cmd # "Tilt" => goal = 0
       /\ ~(cmd = "Status" /\ inFlight[s])          \* else ERROR_BUSY at once
       /\ call' = [call EXCEPT ![c] = [NoCall EXCEPT !.cmd = cmd, !.ctx = s, !.goal = goal]]
       /\ inFlight' = [inFlight EXCEPT ![s] = @ \/ cmd = "Tilt"]
  /\ Goto(c, "lock")
  /\ UNCHANGED <<kind, session, mutex, ioMutex, motor, cut>>

Lock(c) ==
  /\ pc[c] = "lock" /\ mutex[call[c].ctx] = Nobody
  /\ mutex' = [mutex EXCEPT ![call[c].ctx] = c]
  /\ Goto(c, "open")
  /\ UNCHANGED <<kind, session, inFlight, ioMutex, motor, call, cut>>

\* EnsurePhysicalNui
Open(c) ==
  /\ pc[c] = "open"
  /\ \/ /\ session' = [session EXCEPT ![call[c].ctx] = IF @.open THEN @ ELSE [Shut EXCEPT !.open = TRUE]]
        /\ Goto(c, "io")
        /\ UNCHANGED <<call, ioMutex, cut>>
     \/ ~Mine(c).open /\ "open" \in Faults[kind] /\ Fail(c)
  /\ UNCHANGED <<kind, inFlight, mutex, motor>>

\* Mutant: the I/O mutex is of the context.
TakeIoAnyway(c) ==
  /\ pc[c] = "io"
  /\ ioMutex' = c
  /\ IF call[c].cmd = "Ping" THEN Goto(c, "leave") ELSE Goto(c, "prepare")
  /\ UNCHANGED <<kind, session, inFlight, mutex, motor, cut, call>>

\* The I/O mutex of the resolved device; a Ping is answered under it.
TakeIo(c) ==
  /\ pc[c] = "io" /\ ioMutex = Nobody
  /\ IF call[c].cmd = "Ping" THEN Succeed(c)
     ELSE ioMutex' = c /\ Goto(c, "prepare") /\ UNCHANGED <<call, cut>>
  /\ UNCHANGED <<kind, session, inFlight, mutex, motor>>

\* Prepare1414Control and Prepare1473Control: the first transaction of a handle
\* turns the LED green; SetPhysicalLed and PrepareCamera are done with it.
Prepare(c) ==
  /\ pc[c] = "prepare"
  /\ \/ /\ c \in cut => Mine(c).prepared
        /\ session' = [session EXCEPT ![call[c].ctx].prepared = TRUE]
        /\ IF call[c].cmd \in {"Led", "PrepareCamera"} THEN Succeed(c)
           ELSE Goto(c, IF call[c].cmd = "Status" THEN "read" ELSE "issue")
                /\ UNCHANGED <<call, ioMutex, cut>>
     \/ /\ MayFail(c, "prime")
        /\ ~Mine(c).prepared \/ call[c].cmd = "Led"
        /\ Fail(c)
  /\ UNCHANGED <<kind, inFlight, mutex, motor>>

Learn(c) == session' = [session EXCEPT ![call[c].ctx].known = TRUE, ![call[c].ctx].last = motor.pos]

\* ReadStatus1414, ReadStatus1473
ReadStatus(c) ==
  /\ pc[c] = "read"
  /\ \/ c \notin cut /\ Learn(c) /\ Succeed(c)
     \/ MayFail(c, "read") /\ Fail(c)
  /\ UNCHANGED <<kind, inFlight, mutex, motor>>

\* IssueTilt1414 and the OUT transfer of IssueTilt1473: from here on the motor
\* has its command.
IssueTilt(c) ==
  /\ pc[c] = "issue"
  /\ \/ /\ motor' = [motor EXCEPT !.target = call[c].goal]
        /\ call' = [call EXCEPT ![c].sent = @ + 1, ![c].quiet = IF kind = "1473" THEN QuietBudget(c) ELSE 0]
        /\ Goto(c, IF kind = "1473" THEN "ack" ELSE "wait")
        /\ UNCHANGED <<session, ioMutex, cut>>
     \/ MayFail(c, "out") /\ Fail(c) /\ UNCHANGED motor
  /\ UNCHANGED <<kind, inFlight, mutex>>

\* The acknowledgement of a 1473: a timeout is no error, anything else is.
AckTilt(c) ==
  /\ pc[c] = "ack"
  /\ \/ c \notin cut /\ Goto(c, "quiet") /\ UNCHANGED <<session, ioMutex, call, cut>>
     \/ MayFail(c, "ack") /\ Fail(c)
  /\ UNCHANGED <<kind, inFlight, mutex, motor>>

\* VerifyTiltTarget1473: one reading after the travel, which may be missing
FinalRead(c) ==
  /\ pc[c] = "quiet" /\ call[c].quiet = 0
  /\ \/ c \notin cut /\ Learn(c)
     \/ MayFail(c, "read") /\ UNCHANGED session
  /\ Succeed(c)
  /\ UNCHANGED <<kind, inFlight, mutex, motor>>

\* WaitForTiltTarget1414: up to 40 readings
PollTravel(c) ==
  /\ pc[c] = "wait"
  /\ \/ Learn(c) /\ motor.pos = call[c].goal /\ Succeed(c)
     \/ Learn(c) /\ motor.pos # call[c].goal /\ UNCHANGED <<pc, call, ioMutex, cut>>
     \/ "read" \in Faults[kind] /\ Fail(c)          \* an error, or the last reading
  /\ UNCHANGED <<kind, inFlight, mutex, motor>>

\* Threads that wait for a transfer on MI_00.
InTransfer == {d \in Threads : pc[d] \in {"prepare", "read", "issue", "ack"}
                                 \/ (pc[d] = "quiet" /\ call[d].quiet = 0)}

\* Recover1473ControlAfterFailure, without the I/O mutex: the pipes are aborted
\* for whoever uses them.  Then Close, 50 ms, and the second attempt.
Recover(c) ==
  /\ pc[c] = "recover"
  /\ \E hit \in {{}, IF kind = "1473" /\ Mine(c).open THEN InTransfer ELSE {}} : cut' = cut \cup hit
  /\ session' = [session EXCEPT ![call[c].ctx] = Shut]
  /\ call' = [call EXCEPT ![c].attempt = 2]
  /\ Goto(c, "open")
  /\ UNCHANGED <<kind, inFlight, mutex, ioMutex, motor>>

\* The mutex is released, then ~TiltInFlight clears the flag, also when another
\* Tilt of the context has begun to wait meanwhile; the answer is sent.
Leave(c) ==
  /\ pc[c] = "leave"
  /\ mutex' = [mutex EXCEPT ![call[c].ctx] = Nobody]
  /\ inFlight' = [inFlight EXCEPT ![call[c].ctx] = @ /\ call[c].cmd # "Tilt"]
  /\ Goto(c, "idle")
  /\ call' = [call EXCEPT ![c] = NoCall]
  /\ UNCHANGED <<kind, session, ioMutex, motor, cut>>

\* Environment: time passes for the motor and for the threads that sleep.
Tick ==
  /\ motor.pos # motor.target \/ \E c \in Threads : call[c].quiet > 0
  /\ motor' = [motor EXCEPT !.pos = IF @ < motor.target THEN @ + 1
                                    ELSE IF @ > motor.target THEN @ - 1 ELSE @]
  /\ call' = [c \in Threads |-> [call[c] EXCEPT !.quiet = IF @ > 0 THEN @ - 1 ELSE 0]]
  /\ UNCHANGED <<kind, session, inFlight, mutex, ioMutex, pc, cut>>

-----------------------------------------------------------------------------

Init ==
  /\ kind \in Kinds
  /\ session = [s \in Contexts |-> Shut]
  /\ inFlight = [s \in Contexts |-> FALSE]
  /\ mutex = [s \in Contexts |-> Nobody] /\ ioMutex = Nobody
  /\ \E a \in Angles : motor = [pos |-> a, target |-> a]
  /\ pc = [c \in Threads |-> "idle"]
  /\ call = [c \in Threads |-> NoCall]
  /\ cut = {}

Transaction(c) ==
  Prepare(c) \/ ReadStatus(c) \/ IssueTilt(c) \/ AckTilt(c) \/ FinalRead(c) \/ PollTravel(c)

Next == \/ \E c \in Threads : \/ Request(c) \/ Lock(c) \/ Open(c) \/ TakeIo(c)
                              \/ Transaction(c) \/ Recover(c) \/ Leave(c)
        \/ Tick

\* Threads do not stop between two statements, a mutex that is released again
\* and again is obtained in the end, time passes, a 1414 is read 40 times at most.
Fairness ==
  /\ \A c \in Threads :
       /\ WF_vars(Open(c) \/ Transaction(c) \/ Recover(c) \/ Leave(c))
       /\ SF_vars(Lock(c)) /\ SF_vars(TakeIo(c))
       /\ WF_vars(PollTravel(c) /\ pc'[c] # "wait")
  /\ WF_vars(Tick)

-----------------------------------------------------------------------------

TypeOK ==
  /\ session \in [Contexts -> [open : BOOLEAN, prepared : BOOLEAN, known : BOOLEAN, last : Angles]]
  /\ inFlight \in [Contexts -> BOOLEAN]
  /\ mutex \in [Contexts -> Threads \cup {Nobody}] /\ ioMutex \in Threads \cup {Nobody}
  /\ motor \in [pos : Angles, target : Angles]
  /\ pc \in [Threads -> {"idle", "lock", "open", "io", "prepare", "read", "issue", "ack",
                         "quiet", "wait", "recover", "leave"}]
  /\ \A c \in Threads : call[c].attempt \in 1..2 /\ call[c].sent \in 0..2 /\ call[c].ctx \in Contexts
  /\ cut \subseteq Threads

\* A Tilt that reports success is the last command the motor was given, however
\* many contexts, threads and second attempts there are; a 1414 is then there.
TiltSuccessIsMine ==
  [][\A c \in Threads :
       call[c].cmd = "Tilt" /\ call[c].result # "ok" /\ call'[c].result = "ok" =>
         motor.target = call[c].goal /\ (kind = "1414" => motor.pos = call[c].goal)]_vars

\* Every request is answered, whatever fails and whoever aborts whom.
EveryRequestAnswered == \A c \in Threads : (pc[c] # "idle") ~> (pc[c] = "idle")

\* Comment of IssueTilt1473: "A late/missing ACK must never cause 0x803B to be
\* resent: the successful 20-byte OUT transfer is the motor command commit point."
CommandedOnce == \A c \in Threads : kind = "1473" => call[c].sent <= 1

=============================================================================
