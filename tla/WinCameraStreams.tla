--------------------------- MODULE WinCameraStreams ---------------------------
(***************************************************************************)
(* CameraUsbTransport and CameraNode::Loop of the Windows camera service   *)
(* (Kinect360RemoldCameraBridge.cpp): a video thread that owns the engine  *)
(* of endpoint 0x81, a depth thread that owns endpoint 0x82, and register  *)
(* 0x06, projector and depth engine in one, that both of them write.  Each *)
(* thread reads what clients want without a lock and acts on it later.     *)
(*                                                                         *)
(* A register write is one step: m_controlLock is held.  It may fail, with *)
(* or without its effect.  Transfers are in WinIsoReads, frames in         *)
(* SharedFrames.                                                           *)
(***************************************************************************)
EXTENDS Integers

CONSTANTS
  Demands,       \* sets of {"RGB", "IR", "DEPTH", "LEASE"} that clients may want at a time
  MaxChanges,    \* bound: times that they change their minds
  MaxFaults,     \* bound: writes that fail and streams that stall
  CanStop        \* bound: whether the node is stopped

VARIABLES
  wants,         \* m_streamMask, and the consumer lease of the publisher
  run,           \* m_run of the node
  sessionRun,    \* m_sessionRun
  video,         \* what the video thread does next
  activeMode,    \* activeMode
  videoRunning,  \* videoRunning
  depth,         \* what the depth thread does next
  level,         \* what it has read: the projector is to be on
  depthIso,      \* the buffer of endpoint 0x82 is registered and has reads queued
  projectorOn,   \* m_projectorOn
  projector,     \* the device: register 0x06
  engine,        \* the device: "off", "RGB" or "IR"
  changes, faults

videoVars  == <<video, activeMode, videoRunning, sessionRun>>
depthVars  == <<depth, level, depthIso>>
deviceVars == <<projectorOn, projector, engine, faults>>
vars == <<wants, run, changes, videoVars, depthVars, deviceVars>>

SessionRunning == run /\ sessionRun
NeedsProjector == wants \cap {"IR", "DEPTH"} # {}
videoDemand    == wants \cap {"RGB", "IR", "LEASE"} # {}
demandedMode   == IF "IR" \in wants THEN "IR" ELSE "RGB"

Fault == faults < MaxFaults /\ faults' = faults + 1

\* Register 0x06, unless it is believed to have the value already.
SetProjector(on, ok) ==
  /\ UNCHANGED engine
  /\ \/ projectorOn = on /\ ok /\ UNCHANGED <<projectorOn, projector, faults>>
     \/ projectorOn # on /\ ok /\ projectorOn' = on /\ projector' = on /\ UNCHANGED faults
     \/ projectorOn # on /\ ~ok /\ Fault /\ projector' \in {projector, on} /\ UNCHANGED projectorOn

\* Register 0x05.
WriteEngine(mode, ok) ==
  /\ UNCHANGED <<projectorOn, projector>>
  /\ \/ ok /\ engine' = mode /\ UNCHANGED faults
     \/ ~ok /\ Fault /\ engine' \in {engine, mode}
StopVideoCapture(ok) == WriteEngine("off", ok)

-----------------------------------------------------------------------------
(* The video thread: CameraNode::Loop, Run and StreamVideo *)

VideoGoes(from, to) ==
  /\ video = from /\ video' = to
  /\ UNCHANGED <<wants, run, changes, level, depthIso>>

\* An open that fails is tried again.
OpenCamera ==
  /\ VideoGoes("closed", "top") /\ run
  /\ sessionRun' = TRUE /\ videoRunning' = FALSE /\ depth' = "top"
  /\ activeMode' = demandedMode
  /\ UNCHANGED deviceVars

LeaveLoop ==
  /\ VideoGoes("top", "teardown") /\ ~SessionRunning
  /\ UNCHANGED <<sessionRun, videoRunning, activeMode, depth, deviceVars>>

\* No complete frame in time: the session is over.
VideoStalls ==
  /\ VideoGoes("top", "teardown") /\ SessionRunning /\ videoRunning /\ Fault
  /\ UNCHANGED <<sessionRun, videoRunning, activeMode, depth, projectorOn, projector, engine>>

Idle ==
  /\ SessionRunning /\ ~videoDemand /\ videoRunning
  /\ \E ok \in BOOLEAN :
       /\ VideoGoes("top", IF ok THEN "top" ELSE "teardown") /\ StopVideoCapture(ok)
       /\ videoRunning' = ~ok
  /\ UNCHANGED <<sessionRun, activeMode, depth>>

BeginVideo ==
  /\ SessionRunning /\ videoDemand /\ ~videoRunning
  /\ VideoGoes("top", IF demandedMode = "IR" THEN "light" ELSE "start")
  /\ activeMode' = demandedMode
  /\ UNCHANGED <<sessionRun, videoRunning, depth, deviceVars>>

SwitchMode ==
  /\ SessionRunning /\ videoDemand /\ videoRunning /\ demandedMode # activeMode
  /\ \E ok \in BOOLEAN :
       /\ VideoGoes("top", IF ~ok THEN "teardown" ELSE IF demandedMode = "IR" THEN "light" ELSE "check")
       /\ StopVideoCapture(ok)
  /\ activeMode' = demandedMode
  /\ UNCHANGED <<sessionRun, videoRunning, depth>>

CheckProjector ==
  /\ VideoGoes("check", IF NeedsProjector THEN "start" ELSE "dark")
  /\ UNCHANGED <<sessionRun, videoRunning, activeMode, depth, deviceVars>>

VideoProjector ==
  \E on, ok \in BOOLEAN :
    /\ VideoGoes(IF on THEN "light" ELSE "dark", IF ok THEN "start" ELSE "teardown")
    /\ SetProjector(on, ok)
    /\ UNCHANGED <<sessionRun, videoRunning, activeMode, depth>>

\* The mode registers, the reads, and then the engine.
StartVideo ==
  /\ \E ok \in BOOLEAN :
       /\ VideoGoes("start", IF ok THEN "top" ELSE "teardown") /\ WriteEngine(activeMode, ok)
       /\ videoRunning' = (videoRunning \/ ok)
  /\ UNCHANGED <<sessionRun, activeMode, depth>>

Teardown ==
  /\ VideoGoes("teardown", "join") /\ \E ok \in BOOLEAN : StopVideoCapture(ok)
  /\ sessionRun' = FALSE
  /\ UNCHANGED <<videoRunning, activeMode, depth>>

\* Mutant: the depth thread is left running.
JoinNobody ==
  /\ VideoGoes("join", "quiet")
  /\ UNCHANGED <<sessionRun, videoRunning, activeMode, depth, deviceVars>>

JoinDepth ==
  /\ VideoGoes("join", "quiet") /\ depth = "done"
  /\ UNCHANGED <<sessionRun, videoRunning, activeMode, depth, deviceVars>>

\* The end of Run: both registers once more.
Quiet ==
  /\ VideoGoes("quiet", "stop") /\ \E ok \in BOOLEAN : SetProjector(FALSE, ok)
  /\ UNCHANGED <<sessionRun, videoRunning, activeMode, depth>>

StopAgain ==
  /\ VideoGoes("stop", "close") /\ \E ok \in BOOLEAN : StopVideoCapture(ok)
  /\ UNCHANGED <<sessionRun, videoRunning, activeMode, depth>>

\* Close: a last try, then nothing is known of the device.
CloseCamera ==
  /\ VideoGoes("close", "closed")
  /\ \/ projectorOn /\ projector' = FALSE /\ UNCHANGED faults
     \/ projectorOn /\ Fault /\ projector' \in BOOLEAN /\ (projector' => projector)
     \/ ~projectorOn /\ UNCHANGED <<projector, faults>>
  /\ projectorOn' = FALSE
  /\ UNCHANGED <<sessionRun, videoRunning, activeMode, depth, engine>>

Video ==
  \/ OpenCamera \/ LeaveLoop \/ Idle \/ BeginVideo \/ SwitchMode \/ CheckProjector
  \/ VideoProjector \/ StartVideo \/ Teardown \/ JoinDepth \/ Quiet \/ StopAgain \/ CloseCamera

-----------------------------------------------------------------------------
(* The depth thread: DepthLoop and StreamDepthSession *)

DepthGoes(from, to) ==
  /\ depth = from /\ depth' = to
  /\ UNCHANGED <<wants, run, changes, videoVars>>

\* Mutant: the projector is left alone unless depth is wanted.
TopForgetsIr ==
  /\ DepthGoes("top", IF ~SessionRunning THEN "last" ELSE
                      IF "DEPTH" \in wants THEN "session" ELSE "project")
  /\ level' = ("DEPTH" \in wants)
  /\ UNCHANGED <<depthIso, deviceVars>>

DepthTop ==
  /\ DepthGoes("top", IF ~SessionRunning THEN "last" ELSE
                      IF "DEPTH" \in wants THEN "session" ELSE "project")
  /\ level' = NeedsProjector
  /\ UNCHANGED <<depthIso, deviceVars>>

\* The projector without endpoint 0x82; a failure is tried again.
DepthProjector ==
  /\ DepthGoes("project", "top") /\ \E ok \in BOOLEAN : SetProjector(level, ok)
  /\ UNCHANGED <<level, depthIso>>

\* ConfigureDepthPath, from a known OFF state, and the reads
OpenDepth ==
  /\ \/ /\ DepthGoes("session", "arm")
        /\ projector' = FALSE /\ projectorOn' = FALSE /\ depthIso' = TRUE /\ UNCHANGED faults
     \/ /\ DepthGoes("session", "top") /\ Fault /\ UNCHANGED depthIso
        /\ \/ UNCHANGED <<projector, projectorOn>>
           \/ projector' = FALSE /\ projectorOn' \in {projectorOn, FALSE}
  /\ UNCHANGED <<level, engine>>

ArmDepth ==
  /\ DepthGoes("arm", "set") /\ level' = NeedsProjector
  /\ UNCHANGED <<depthIso, deviceVars>>

PollDepth ==
  /\ DepthGoes("poll", IF SessionRunning THEN "set" ELSE "down") /\ level' = NeedsProjector
  /\ UNCHANGED <<depthIso, deviceVars>>

SetDepth ==
  /\ \E ok \in BOOLEAN : DepthGoes("set", IF ok THEN "poll" ELSE "down") /\ SetProjector(level, ok)
  /\ UNCHANGED <<level, depthIso>>

DepthStalls ==
  /\ DepthGoes("poll", "down") /\ SessionRunning /\ "DEPTH" \in wants /\ Fault
  /\ UNCHANGED <<level, depthIso, projectorOn, projector, engine>>

\* restoreIrIllumination
ReadRestore ==
  /\ DepthGoes("down", "off") /\ level' = (SessionRunning /\ "IR" \in wants)
  /\ UNCHANGED <<depthIso, deviceVars>>

StopDepth ==
  /\ DepthGoes("off", "unregister") /\ \E ok \in BOOLEAN : SetProjector(FALSE, ok)
  /\ UNCHANGED <<level, depthIso>>

CloseDepth ==
  /\ DepthGoes("unregister", IF level THEN "relight" ELSE "top")
  /\ depthIso' = FALSE
  /\ UNCHANGED <<level, deviceVars>>

Relight ==
  /\ DepthGoes("relight", "top") /\ \E ok \in BOOLEAN : SetProjector(TRUE, ok)
  /\ UNCHANGED <<level, depthIso>>

DepthEnds ==
  /\ DepthGoes("last", "done") /\ \E ok \in BOOLEAN : SetProjector(FALSE, ok)
  /\ UNCHANGED <<level, depthIso>>

Depth ==
  \/ DepthTop \/ DepthProjector \/ OpenDepth \/ ArmDepth \/ PollDepth \/ SetDepth
  \/ ReadRestore \/ StopDepth \/ CloseDepth \/ Relight \/ DepthEnds

-----------------------------------------------------------------------------
(* Environment: clients, and CameraNode::Stop *)

ClientsChange ==
  /\ changes < MaxChanges /\ changes' = changes + 1
  /\ wants' \in Demands \ {wants}
  /\ UNCHANGED <<run, videoVars, depthVars, deviceVars>>

StopNode ==
  /\ CanStop /\ run /\ run' = FALSE
  /\ UNCHANGED <<wants, changes, videoVars, depthVars, deviceVars>>

Init ==
  /\ wants = {} /\ run = TRUE /\ changes = 0 /\ faults = 0
  /\ video = "closed" /\ activeMode = "RGB" /\ videoRunning = FALSE /\ sessionRun = FALSE
  /\ depth = "done" /\ level = FALSE /\ depthIso = FALSE
  /\ projectorOn = FALSE /\ projector = FALSE /\ engine = "off"

Next == Video \/ VideoStalls \/ Depth \/ DepthStalls \/ ClientsChange \/ StopNode

\* Each thread goes on: waits have timeouts, transfers too.
Fairness == WF_vars(Video) /\ WF_vars(Depth)

Spec == Init /\ [][Next]_vars /\ Fairness

-----------------------------------------------------------------------------
(* Properties *)

TypeOK ==
  /\ wants \in {{}} \cup Demands /\ changes \in 0..MaxChanges /\ faults \in 0..MaxFaults
  /\ {run, sessionRun, videoRunning, level, depthIso, projectorOn, projector} \subseteq BOOLEAN
  /\ video \in {"closed", "top", "light", "dark", "check", "start", "teardown", "join",
                "quiet", "stop", "close"}
  /\ depth \in {"done", "top", "project", "session", "arm", "poll", "set", "down", "off",
                "unregister", "relight", "last"}
  /\ activeMode \in {"RGB", "IR"} /\ engine \in {"off", "RGB", "IR"}

\* A camera that is closed, or about to be, has engine and projector off and no
\* reads queued, unless a write failed: no thread comes late with a register it
\* had decided to write before (lines 1376-1399, 2021, 2180-2196).
ClosedIsQuiet ==
  video \in {"close", "closed"} /\ faults = 0 =>
    depth = "done" /\ ~depthIso /\ engine = "off" /\ ~projector

\* However the two threads come across each other with what they read of the
\* clients, once clients stay as they are the device comes to do what they want
\* and nothing else.  The engine does so also after two writes that failed,
\* since a session ends with two more tries to stop it (lines 1826-1856,
\* 1987-1991, 1391); the projector if none did, since m_projectorOn may be wrong.
DeviceFollowsClients ==
  <>[](run => /\ engine = IF videoDemand THEN demandedMode ELSE "off"
              /\ "DEPTH" \in wants => depthIso
              /\ faults = 0 => projector = NeedsProjector)

\* Stopping the node closes the camera, whatever its threads are at.
NodeEnds == ~run ~> [](video = "closed" /\ depth = "done")

=============================================================================
