----------------------------- MODULE MotorBroker -----------------------------
(***************************************************************************)
(* The Linux Broker (broker.cpp): one thread per control connection, one   *)
(* MotorSession per requested device id, one physical Kinect.              *)
(*                                                                         *)
(* A request without a device id and a request that names the Kinect reach *)
(* the same hardware through two sessions; the mutex of a session orders   *)
(* its own requests, the I/O mutex of the physical device orders the two   *)
(* sessions.  A thread takes them one after the other, and between any two *)
(* USB transactions the other threads and the motor go on.                 *)
(*                                                                         *)
(* Abstracted: an angle is a step of the motor's range; one unit of time   *)
(* is the time the motor needs for a step (the code budgets 85 ms for a    *)
(* degree); a transaction succeeds, or fails in one of the ways of Faults. *)
(* The bulk endpoint of a 1473 is in Mi00Channel.                          *)
(***************************************************************************)
EXTENDS Integers

CONSTANTS
  Clients,     \* connection threads
  Nobody,      \* owner of a free mutex
  Sessions,    \* the sessions that resolve to this Kinect
  Kinds,       \* the motor transports to consider, of "1414" and "1473"
  MaxTilt,     \* the range of the motor in steps: hardware.hpp's -31..31
  MinQuiet,    \* kMinimumQuietMs in steps
  Margin,      \* kSettleMarginMs in steps
  Commands,    \* the commands the clients use on each session
  Faults       \* what may fail on each: "open", "prime", "out", "ack", "read"

ASSUME BrokerAssumption ==
  /\ Nobody \notin Clients /\ Sessions # {}
  /\ Kinds \subseteq {"1414", "1473"}
  /\ MaxTilt \in Nat /\ MinQuiet \in Nat /\ Margin \in Nat
  /\ Commands \in [Sessions -> SUBSET {"Ping", "Status", "Tilt", "Led", "PrepareCamera"}]
  /\ Faults \in [Kinds -> SUBSET {"open", "prime", "out", "ack", "read"}]

VARIABLES
  kind,        \* the motor transport of the Kinect that is plugged in
  session,     \* the handle of each session and what it knows of the motor
  inFlight,    \* tilt_in_flight_ of each session
  mutex,       \* who holds mutex_ of each session
  ioMutex,     \* who holds the I/O mutex of the Kinect
  motor,       \* the mechanics: where it is and where it was told to go
  pc, call,    \* of each thread: where it is, and the request it serves
  answer       \* the result each thread is about to send, "none" before

vars == <<kind, session, inFlight, mutex, ioMutex, motor, pc, call, answer>>

Angles == 0..MaxTilt
Larger(a, b) == IF a > b THEN a ELSE b
Distance(a, b) == Larger(a - b, b - a)

\* close_locked: the handle is gone, and with it the priming and the angle.
Shut == [open |-> FALSE, primed |-> FALSE, known |-> FALSE, last |-> 0]

\* A thread without a request.
NoCall == [cmd |-> "Ping", s |-> CHOOSE s \in Sessions : TRUE, goal |-> 0,
           attempt |-> 0, quiet |-> 0]

Mine(c) == session[call[c].s]

\* Mutant: the budget does not grow with the distance.
QuietAlwaysMinimal(c) == MinQuiet

\* tilt_1473_quiet_ms: the budget for the travel, from the last angle read.
QuietBudget(c) ==
  Larger(MinQuiet, Margin + IF Mine(c).known THEN Distance(call[c].goal, Mine(c).last)
                                             ELSE MaxTilt)

-----------------------------------------------------------------------------
(* Building blocks of the thread *)

Goto(c, label) == pc' = [pc EXCEPT ![c] = label]

\* The operation returns: the I/O mutex is released, then the session's.
Return(c, result) ==
  /\ Goto(c, "unlock")
  /\ answer' = [answer EXCEPT ![c] = result]
  /\ ioMutex' = IF ioMutex = c THEN Nobody ELSE ioMutex

\* A 1473 Tilt is never retried, Ping only opens.
Retried(c) == ~(call[c].cmd = "Tilt" /\ kind = "1473") /\ call[c].attempt > 0

\* Mutant: the second attempt starts with the I/O mutex still held.
FailHoldingIo(c) ==
  IF ~Retried(c) THEN Return(c, "error") /\ UNCHANGED <<session, call>>
  ELSE /\ session' = [session EXCEPT ![call[c].s] = Shut]
       /\ IF call[c].attempt = 1
          THEN /\ call' = [call EXCEPT ![c].attempt = 2]
               /\ Goto(c, "open")
               /\ UNCHANGED <<answer, ioMutex>>
          ELSE Return(c, "error") /\ UNCHANGED call

\* Mutant: the attempts are not counted.
FailRetriesForever(c) ==
  IF ~Retried(c) THEN Return(c, "error") /\ UNCHANGED <<session, call>>
  ELSE /\ session' = [session EXCEPT ![call[c].s] = Shut]
       /\ Goto(c, "open")
       /\ ioMutex' = IF ioMutex = c THEN Nobody ELSE ioMutex
       /\ UNCHANGED <<answer, call>>

\* with_fresh_handle_retry_locked after a failed attempt: close the handle and
\* try the whole operation once more.
Fail(c) ==
  IF ~Retried(c) THEN Return(c, "error") /\ UNCHANGED <<session, call>>
  ELSE /\ session' = [session EXCEPT ![call[c].s] = Shut]
       /\ IF call[c].attempt = 1
          THEN /\ call' = [call EXCEPT ![c].attempt = 2]
               /\ Goto(c, "open")
               /\ ioMutex' = IF ioMutex = c THEN Nobody ELSE ioMutex
               /\ UNCHANGED answer
          ELSE Return(c, "error") /\ UNCHANGED call

-----------------------------------------------------------------------------
(* The connection thread *)

\* client: a request arrives; status() looks at the flag without the mutex,
\* tilt() sets it before it asks for the mutex.
Request(c) ==
  /\ pc[c] = "idle"
  /\ \E s \in Sessions, goal \in Angles : \E cmd \in Commands[s] :
       /\ cmd # "Tilt" => goal = 0
       /\ IF cmd = "Status" /\ inFlight[s]
          THEN answer' = [answer EXCEPT ![c] = "busy"] /\ UNCHANGED <<pc, call, inFlight>>
          ELSE /\ answer' = [answer EXCEPT ![c] = "none"]
               /\ call' = [call EXCEPT ![c] =
                             [cmd |-> cmd, s |-> s, goal |-> goal, quiet |-> 0,
                              attempt |-> IF cmd \in {"Tilt", "Ping"} THEN 0 ELSE 1]]
               /\ Goto(c, "lock")
               /\ inFlight' = [inFlight EXCEPT ![s] = @ \/ cmd = "Tilt"]
  /\ UNCHANGED <<kind, session, mutex, ioMutex, motor>>

Lock(c) ==
  /\ pc[c] = "lock"
  /\ mutex[call[c].s] = Nobody
  /\ mutex' = [mutex EXCEPT ![call[c].s] = c]
  /\ Goto(c, "open")
  /\ UNCHANGED <<kind, session, inFlight, ioMutex, motor, call, answer>>

\* MI_00 of a 1473 is claimed exclusively, also against the other session.
ClaimedElsewhere(s) ==
  kind = "1473" /\ ~session[s].open /\ \E t \in Sessions \ {s} : session[t].open

\* ensure_open_locked.  A Ping is answered here; a Tilt of a 1414 enters the
\* retry loop only when its first open succeeded.
Open(c) ==
  LET s == call[c].s
      first == call[c].cmd = "Tilt" /\ kind = "1414" /\ call[c].attempt = 0
  IN
  /\ pc[c] = "open"
  /\ \/ /\ ~ClaimedElsewhere(s)
        /\ session' = [session EXCEPT ![s] = IF @.open THEN @ ELSE [Shut EXCEPT !.open = TRUE]]
        /\ IF call[c].cmd = "Ping"
           THEN Return(c, "ok") /\ UNCHANGED call
           ELSE /\ Goto(c, "io")
                /\ call' = [call EXCEPT ![c].attempt = IF first THEN 1 ELSE @]
                /\ UNCHANGED <<answer, ioMutex>>
     \/ /\ ClaimedElsewhere(s) \/ (~session[s].open /\ "open" \in Faults[kind])
        /\ Fail(c)
  /\ UNCHANGED <<kind, inFlight, mutex, motor>>

\* Mutant: the sessions of one Kinect do not share the I/O mutex.
TakeIoOfSession(c) ==
  /\ pc[c] = "io"
  /\ ioMutex' = c
  /\ Goto(c, "prime")
  /\ UNCHANGED <<kind, session, inFlight, mutex, motor, call, answer>>

TakeIo(c) ==
  /\ pc[c] = "io"
  /\ ioMutex = Nobody
  /\ ioMutex' = c
  /\ Goto(c, "prime")
  /\ UNCHANGED <<kind, session, inFlight, mutex, motor, call, answer>>

\* prepare_control_locked, and the whole of led() and prepare_camera(): the
\* first transaction of a handle turns the LED green.
Prime(c) ==
  LET done == call[c].cmd \in {"Led", "PrepareCamera"} IN
  /\ pc[c] = "prime"
  /\ \/ /\ session' = [session EXCEPT ![call[c].s].primed = TRUE]
        /\ IF done THEN Return(c, "ok")
           ELSE /\ Goto(c, IF call[c].cmd = "Status" THEN "read" ELSE "issue")
                /\ UNCHANGED <<answer, ioMutex>>
        /\ UNCHANGED call
     \/ /\ "prime" \in Faults[kind]
        /\ ~Mine(c).primed \/ call[c].cmd = "Led"
        /\ Fail(c)
  /\ UNCHANGED <<kind, inFlight, mutex, motor>>

Learn(c) == session' = [session EXCEPT ![call[c].s].known = TRUE, ![call[c].s].last = motor.pos]

\* status(): read_status_locked
ReadStatus(c) ==
  /\ pc[c] = "read"
  /\ \/ Learn(c) /\ Return(c, "ok") /\ UNCHANGED call
     \/ "read" \in Faults[kind] /\ Fail(c)
  /\ UNCHANGED <<kind, inFlight, mutex, motor>>

\* issue_tilt_1414_locked, issue_tilt_1473_locked: the command is on its way
\* once the OUT transfer is complete; an acknowledgement that is an error
\* comes after that point.
IssueTilt(c) ==
  /\ pc[c] = "issue"
  /\ \/ /\ motor' = [motor EXCEPT !.target = call[c].goal]
        /\ Goto(c, IF kind = "1473" THEN "quiet" ELSE "wait")
        /\ call' = [call EXCEPT ![c].quiet = IF kind = "1473" THEN QuietBudget(c) ELSE 0]
        /\ UNCHANGED <<session, answer, ioMutex>>
     \/ "out" \in Faults[kind] /\ Fail(c) /\ UNCHANGED motor
     \/ /\ "ack" \in Faults[kind]
        /\ motor' = [motor EXCEPT !.target = call[c].goal]
        /\ Fail(c)
  /\ UNCHANGED <<kind, inFlight, mutex>>

\* tilt_1473_locked: the silent wait is over and the angle is read once; the
\* result is a success with or without the reading.
FinalRead(c) ==
  /\ pc[c] = "quiet" /\ call[c].quiet = 0
  /\ \/ Learn(c)
     \/ "read" \in Faults[kind] /\ UNCHANGED session
  /\ Return(c, "ok")
  /\ UNCHANGED <<kind, inFlight, mutex, motor, call>>

\* wait_tilt_1414_locked: up to 40 readings, 100 ms apart
PollTravel(c) ==
  /\ pc[c] = "wait"
  /\ \/ Learn(c) /\ motor.pos = call[c].goal /\ Return(c, "ok") /\ UNCHANGED call
     \/ Learn(c) /\ motor.pos # call[c].goal /\ UNCHANGED <<pc, call, answer, ioMutex>>
     \/ "read" \in Faults[kind] /\ Fail(c)      \* an error, or the last reading
  /\ UNCHANGED <<kind, inFlight, mutex, motor>>

\* The request is over, but for the destructor of TiltInFlight.
Leave(c, flagged) ==
  /\ Goto(c, IF flagged THEN "clear" ELSE "idle")
  /\ call' = [call EXCEPT ![c] = IF flagged THEN @ ELSE NoCall]
  /\ answer' = [answer EXCEPT ![c] = IF flagged THEN @ ELSE "none"]

Unlock(c) ==
  /\ pc[c] = "unlock"
  /\ mutex' = [mutex EXCEPT ![call[c].s] = Nobody]
  /\ Leave(c, call[c].cmd = "Tilt")
  /\ UNCHANGED <<kind, session, inFlight, ioMutex, motor>>

\* ~TiltInFlight: whether or not another Tilt has begun meanwhile
ClearFlag(c) ==
  /\ pc[c] = "clear"
  /\ inFlight' = [inFlight EXCEPT ![call[c].s] = FALSE]
  /\ Leave(c, FALSE)
  /\ UNCHANGED <<kind, session, mutex, ioMutex, motor>>

\* Environment: time passes, for the motor and for every sleeping thread.
Tick ==
  /\ motor.pos # motor.target \/ \E c \in Clients : call[c].quiet > 0
  /\ motor' = [motor EXCEPT !.pos = IF @ < motor.target THEN @ + 1
                                    ELSE IF @ > motor.target THEN @ - 1 ELSE @]
  /\ call' = [c \in Clients |-> [call[c] EXCEPT !.quiet = Larger(@ - 1, 0)]]
  /\ UNCHANGED <<kind, session, inFlight, mutex, ioMutex, pc, answer>>

-----------------------------------------------------------------------------

Init ==
  /\ kind \in Kinds
  /\ session = [s \in Sessions |-> Shut]
  /\ inFlight = [s \in Sessions |-> FALSE]
  /\ mutex = [s \in Sessions |-> Nobody]
  /\ ioMutex = Nobody
  /\ \E a \in Angles : motor = [pos |-> a, target |-> a]
  /\ pc = [c \in Clients |-> "idle"]
  /\ call = [c \in Clients |-> NoCall]
  /\ answer = [c \in Clients |-> "none"]

Transaction(c) ==
  Prime(c) \/ ReadStatus(c) \/ IssueTilt(c) \/ FinalRead(c) \/ PollTravel(c)

ThreadStep(c) ==
  Lock(c) \/ Open(c) \/ TakeIo(c) \/ Transaction(c) \/ Unlock(c) \/ ClearFlag(c)

Next == \/ \E c \in Clients : Request(c) \/ ThreadStep(c)
        \/ Tick

Spec == Init /\ [][Next]_vars

\* Threads do not stop between two statements, time passes, and a thread that
\* waits for a mutex which is released again and again gets it eventually.
Fairness ==
  /\ \A c \in Clients :
       /\ WF_vars(Open(c) \/ Transaction(c) \/ Unlock(c) \/ ClearFlag(c))
       /\ SF_vars(Lock(c)) /\ SF_vars(TakeIo(c))
       /\ WF_vars(PollTravel(c) /\ pc'[c] # "wait")   \* at most 40 readings
  /\ WF_vars(Tick)

FairSpec == Spec /\ Fairness

-----------------------------------------------------------------------------
(* Properties *)

TypeOK ==
  /\ kind \in Kinds
  /\ session \in [Sessions -> [open : BOOLEAN, primed : BOOLEAN, known : BOOLEAN, last : Angles]]
  /\ inFlight \in [Sessions -> BOOLEAN]
  /\ mutex \in [Sessions -> Clients \cup {Nobody}]
  /\ ioMutex \in Clients \cup {Nobody}
  /\ motor \in [pos : Angles, target : Angles]
  /\ pc \in [Clients -> {"idle", "lock", "open", "io", "prime", "read", "issue",
                          "quiet", "wait", "unlock", "clear"}]
  /\ call \in [Clients -> [cmd : {"Ping", "Status", "Tilt", "Led", "PrepareCamera"},
                           s : Sessions, goal : Angles, attempt : 0..2,
                           quiet : 0..(MinQuiet + Margin + MaxTilt)]]
  /\ answer \in [Clients -> {"none", "ok", "busy", "error"}]

AtDevice(c) == pc[c] \in {"prime", "read", "issue", "quiet", "wait"}
Tilting(c)  == pc[c] # "idle" /\ call[c].cmd = "Tilt"

\* Whoever talks to the motor holds its session, the I/O mutex of the Kinect
\* and an open handle, also in the second attempt after a failure.
DeviceIsOwned ==
  \A c \in Clients :
    AtDevice(c) => mutex[call[c].s] = c /\ ioMutex = c /\ Mine(c).open

\* A mutex is held only by a thread that is going to release it: no error
\* path, however nested, returns with one locked.
NoMutexIsLeaked ==
  /\ \A s \in Sessions : mutex[s] # Nobody =>
       call[mutex[s]].s = s /\ pc[mutex[s]] \notin {"idle", "lock", "clear"}
  /\ ioMutex # Nobody => AtDevice(ioMutex)

\* Status is refused as busy only while a Tilt of that session is served or
\* waits: the flag never outlives the last Tilt.
BusyOnlyDuringTilt ==
  \A s \in Sessions : inFlight[s] => \E c \in Clients : Tilting(c) /\ call[c].s = s

\* The invariant of the sessions: who talks to the motor owns all it takes, and
\* nothing that was taken stays behind when the request is answered.
BrokerInv == TypeOK /\ DeviceIsOwned /\ NoMutexIsLeaked /\ BusyOnlyDuringTilt

\* A Tilt that reports success is the last command the motor was given, on
\* whatever session others work; a 1414 has then reached the angle.
TiltSuccessIsMine ==
  [][\A c \in Clients :
       Tilting(c) /\ AtDevice(c) /\ pc'[c] = "unlock" /\ answer'[c] = "ok" =>
         /\ motor.target = call[c].goal
         /\ kind = "1414" => motor.pos = call[c].goal]_vars

\* No transaction reaches MI_00 of a 1473 while its motor travels, as long as
\* acknowledgements and readings do not fail.
SilentTravel ==
  [][kind = "1473" /\ (\E c \in Clients : AtDevice(c) /\ pc'[c] # pc[c]) =>
       motor.pos = motor.target]_vars

\* Every request is answered.
EveryRequestAnswered ==
  \A c \in Clients : (pc[c] # "idle") ~> (pc[c] = "idle")

=============================================================================
