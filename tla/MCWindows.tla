------------------------------ MODULE MCWindows ------------------------------
(***************************************************************************)
(* The parts of the Windows camera and device components, checked side by  *)
(* side as in MCParts: a behaviour belongs to one part and leaves the      *)
(* others alone.  Fairness is a premise of the liveness properties and not *)
(* a part of Spec: a behaviour has to be fair to its own part only, and a  *)
(* Spec that is a disjunction of fair ones costs TLC far more.             *)
(***************************************************************************)
EXTENDS Integers, FiniteSets, TLC

CONSTANTS
  Parts,                                        \* the parts to check
  Handlers, h1, h2, h3, PidOf, NoPid, Requests, Settings, MaxTokens,  \* WinScannerPort
  CanStop,                                      \* WinScannerPort, WinCameraStreams
  Demands, MaxChanges, MaxFaults,               \* WinCameraStreams
  MaxFrames, MaxSwitches,                       \* SharedFrames
  Slots,                                        \* WinIsoReads
  P, SeqMod, MaxLoss, MaxGap,                   \* WinFrameAssembler
  Kinects, Grace, MaxMoves,                     \* WinRegistry
  Viewers, MaxClients, AuthFailureLimit, Sources, IpMoves,        \* WinCameraIp
  Threads, Nobody, Contexts, Kinds, MaxTilt, Commands, Faults,    \* WinMotor
  ControlClients, SdkClients, Silent, Host, Free,                 \* WinBrokerHost
  Clients, AudioFrames,                         \* WinAudioNode
  Opaque, Nothing,                              \* WinMicrophones
  Ports, Pages, DisconnectPasses, BootFaults    \* WinBootLoader

ASSUME RegistryAssumption ==
  Kinects \subseteq Nat \ {0} /\ Sources \subseteq Nat \ {0} /\ Opaque \subseteq Kinects
ASSUME PortAssumption ==
  Handlers \cap {"listen", "done"} = {} /\ Requests \subseteq SUBSET {"RGB", "HQ", "IR", "DEPTH"}
ASSUME SlotsAssumption == \E n \in Slots : n \in Nat /\ Slots = 1..n
ASSUME ClientsAssumption == IsFiniteSet(Clients) /\ IsFiniteSet(Viewers)
ASSUME MotorAssumption == Nobody \notin Threads /\ Contexts # {} /\ MaxTilt \in Nat
ASSUME BoundsAssumption ==
  /\ {Grace, MaxClients, AuthFailureLimit, Pages, DisconnectPasses} \subseteq Nat \ {0}
  /\ {MaxTokens, MaxChanges, MaxFaults, MaxFrames, MaxSwitches, MaxMoves, IpMoves, AudioFrames,
      BootFaults} \subseteq Nat

VARIABLES
  part,
  \* WinScannerPort
  clients, streamMask, rgbHqUnavailable, issued, stopped, pc, want, session, todo, acceptor,
  stopper, video, hqWorks, released, registry, settings,
  \* WinCameraStreams
  wants, run, sessionRun, stream_video, activeMode, videoRunning, depth, level, depthIso,
  projectorOn, projector, engine, changes, faults,
  \* SharedFrames
  sequence, header, slot, frames, sizes, mode, switches, pending, work, writer_pc, next, reader,
  accepted, met, late,
  \* WinIsoReads
  buffer, kernel, iso_pending, iso_pc, iso_slot, needAbort, final,
  \* WinFrameAssembler
  dev, gap, intact, asm, raw, out,
  \* WinRegistry
  plugged, seen, nodes, unseen, missing, virtual, system, remembered, installs, removals,
  manifest, bridge_pc, moves, bridge_faults,
  \* WinCameraIp
  gRunning, stopEvent, listener, runtime, server, encoder, device, lease, ready, online, fresh,
  sourceOnline, viewer, active, auth, ip_unseen, failures, blocked, ip_moves,
  \* WinMotor
  kind, nui, inFlight, mutex, ioMutex, motor, motor_pc, call, cut,
  \* WinBrokerHost
  gRun, host_active, host_server, peer, serving, visit, host, missed,
  \* WinAudioNode
  audio_gRun, nodeRun, stopEvents, capture, generation, port_acceptor, client, audio_seen, heard,
  activeClients, threads, control, talker, stop,
  \* WinMicrophones
  bus, uac, node, node_unseen, mic_pc, physical, source, mic_serving, bus_changes,
  \* WinBootLoader
  usb, image, owed, partial, launchedKeys, absentPasses, boot_pc, port, sent, alive, boot_gRun,
  boot_faults

Scanner   == INSTANCE WinScannerPort
Streams   == INSTANCE WinCameraStreams WITH video <- stream_video
Frames    == INSTANCE SharedFrames WITH pc <- writer_pc
Iso       == INSTANCE WinIsoReads WITH pending <- iso_pending, pc <- iso_pc, i <- iso_slot
Assembler == INSTANCE WinFrameAssembler
Registry  == INSTANCE WinRegistry WITH pc <- bridge_pc, faults <- bridge_faults
Ip        == INSTANCE WinCameraIp
               WITH unseen <- ip_unseen, moves <- ip_moves, Kinects <- Sources, MaxMoves <- IpMoves
Motor     == INSTANCE WinMotor WITH session <- nui, pc <- motor_pc
Broker    == INSTANCE WinBrokerHost WITH active <- host_active, server <- host_server
Audio     == INSTANCE WinAudioNode
               WITH gRun <- audio_gRun, acceptor <- port_acceptor, seen <- audio_seen,
                    MaxFrames <- AudioFrames
Mics      == INSTANCE WinMicrophones
               WITH unseen <- node_unseen, pc <- mic_pc, serving <- mic_serving,
                    changes <- bus_changes
Boot      == INSTANCE WinBootLoader
               WITH pc <- boot_pc, gRun <- boot_gRun, faults <- boot_faults,
                    MaxFaults <- BootFaults

ASSUME AssemblerAssumption == Assembler!AssemblerConstants

scannerVars   == <<clients, streamMask, rgbHqUnavailable, issued, stopped, pc, want, session, todo,
                   acceptor, stopper, video, hqWorks, released, registry, settings>>
streamsVars   == <<wants, run, sessionRun, stream_video, activeMode, videoRunning, depth, level,
                   depthIso, projectorOn, projector, engine, changes, faults>>
sharedVars    == <<sequence, header, slot, frames, sizes, mode, switches, pending, work,
                   writer_pc, next, reader, accepted, met, late>>
isoVars       == <<buffer, kernel, iso_pending, iso_pc, iso_slot, needAbort, final>>
assemblerVars == <<dev, gap, intact, asm, raw, out>>
registryVars  == <<plugged, seen, nodes, unseen, missing, virtual, system, remembered, installs,
                   removals, manifest, bridge_pc, moves, bridge_faults>>
ipVars        == <<gRunning, stopEvent, listener, runtime, server, encoder, device, lease, ready,
                   online, fresh, sourceOnline, viewer, active, auth, ip_unseen, failures,
                   blocked, ip_moves>>
motorVars     == <<kind, nui, inFlight, mutex, ioMutex, motor, motor_pc, call, cut>>
hostVars      == <<gRun, host_active, host_server, peer, serving, visit, host, missed>>
portVars      == <<audio_gRun, nodeRun, stopEvents, capture, generation, port_acceptor, client,
                   audio_seen, heard, activeClients, threads, control, talker, stop>>
micVars       == <<bus, uac, node, node_unseen, mic_pc, physical, source, mic_serving,
                   bus_changes>>
bootVars      == <<usb, image, owed, partial, launchedKeys, absentPasses, boot_pc, port, sent,
                   alive, boot_gRun, boot_faults>>

frameVars  == <<sharedVars, isoVars, assemblerVars>>
cameraVars == <<scannerVars, streamsVars, frameVars, registryVars, ipVars>>
brokerVars == <<motorVars, hostVars>>
audioVars  == <<portVars, micVars, bootVars>>

vars == <<part, cameraVars, brokerVars, audioVars>>

\* The parts that start in one of several states start in one of them when they
\* are not the part that is checked.
Init ==
  /\ part \in Parts
  /\ Scanner!Init  /\ (part = "scanner" \/ (hqWorks /\ registry = {}))
  /\ Streams!Init /\ Frames!Init /\ Iso!Init /\ Assembler!Init
  /\ Registry!Init /\ (part = "registry" \/ (system = {} /\ \A k \in Kinects : plugged[k] = 0))
  /\ Ip!Init       /\ (part = "ip" \/ ready = {})
  /\ Motor!Init    /\ (part = "motor" \/ (kind = "1473" /\ motor.pos = 0))
  /\ Broker!Init /\ Audio!Init
  /\ Mics!Init     /\ (part = "mics" \/ bus = {})
  /\ Boot!Init     /\ (part = "boot" \/ \A p \in Ports : usb[p] = "nothing")

ScannerNext ==
  part = "scanner" /\ Scanner!Next
    /\ UNCHANGED <<part, streamsVars, frameVars, registryVars, ipVars, brokerVars, audioVars>>
StreamsNext ==
  part = "streams" /\ Streams!Next
    /\ UNCHANGED <<part, scannerVars, frameVars, registryVars, ipVars, brokerVars, audioVars>>
FramesNext ==
  /\ \/ part = "frames" /\ Frames!Next /\ UNCHANGED <<isoVars, assemblerVars>>
     \/ part = "iso" /\ Iso!Next /\ UNCHANGED <<sharedVars, assemblerVars>>
     \/ part = "assembler" /\ Assembler!Next /\ UNCHANGED <<sharedVars, isoVars>>
  /\ UNCHANGED <<part, scannerVars, streamsVars, registryVars, ipVars, brokerVars, audioVars>>
RegistryNext ==
  part = "registry" /\ Registry!Next
    /\ UNCHANGED <<part, scannerVars, streamsVars, frameVars, ipVars, brokerVars, audioVars>>
IpNext ==
  part = "ip" /\ Ip!Next
    /\ UNCHANGED <<part, scannerVars, streamsVars, frameVars, registryVars, brokerVars,
                   audioVars>>
MotorNext ==
  part = "motor" /\ Motor!Next
    /\ UNCHANGED <<part, cameraVars, hostVars, audioVars>>
BrokerNext ==
  part = "broker" /\ Broker!Next
    /\ UNCHANGED <<part, cameraVars, motorVars, audioVars>>
AudioNext ==
  part = "audio" /\ Audio!Next
    /\ UNCHANGED <<part, cameraVars, brokerVars, micVars, bootVars>>
MicsNext ==
  part = "mics" /\ Mics!Next
    /\ UNCHANGED <<part, cameraVars, brokerVars, portVars, bootVars>>
BootNext ==
  part = "boot" /\ Boot!Next
    /\ UNCHANGED <<part, cameraVars, brokerVars, portVars, micVars>>

Next ==
  \/ ScannerNext \/ StreamsNext \/ FramesNext \/ RegistryNext \/ IpNext
  \/ MotorNext \/ BrokerNext \/ AudioNext \/ MicsNext \/ BootNext

Spec == Init /\ [][Next]_vars

\* The processes of the handlers, two of them in the same one.
MCPidOf == [h \in Handlers |-> IF h \in {h1, h2} THEN 1 ELSE 2]

\* What is asked of each context, and what may fail on each kind of Kinect: a Ping
\* that names no Kinect is answered without a context.
MCCommands ==
  [s \in Contexts |-> IF s = "scoped" THEN {"Ping", "Tilt"} ELSE {"Led", "Tilt"}]
MCFewCommands == [s \in Contexts |-> IF s = "scoped" THEN {"Status"} ELSE {"Tilt"}]
MCFaults ==
  [k \in Kinds |-> {"open", "prime"} \cup IF k = "1414" THEN {"out", "read"} ELSE {}]

\* Every variable of every part has its type.
TypeOK ==
  /\ Scanner!TypeOK /\ Streams!TypeOK /\ Frames!TypeOK /\ Iso!TypeOK /\ Assembler!TypeOK
  /\ Registry!TypeOK /\ Ip!TypeOK /\ Motor!TypeOK /\ Broker!TypeOK /\ Audio!TypeOK
  /\ Mics!TypeOK /\ Boot!TypeOK

\* What is counted is what there is: the streams that keep an engine running are
\* those of sessions that will take themselves off the list again, the two
\* counters of the IP camera are its connections and its authorized viewers, and
\* that of the audio port is its subscribers. One lost or doubled step keeps a
\* camera on for good, or refuses everybody.
BooksAreRight ==
  TypeOK /\ Scanner!DemandIsOwned /\ Ip!CountsAreRight /\ Audio!CountIsRight

\* The scanner port grants, supersedes and revokes as the abstract arbiter does.
ImplementsArbiter == Scanner!ImplementsArbiter

\* A camera that Run closes is quiet: neither of its two threads reads from it
\* any more, and no engine or projector is left on.
ClosedIsQuiet == Streams!ClosedIsQuiet

\* A frame is whole wherever it is handed on: what the assembler returns, with
\* packets lost or damaged on the way, is of one frame, and so is what a reader
\* takes out of the shared memory while another process writes, unless two
\* workers were in PublishFrame with it.
WholeFrames == Frames!WholeFrames /\ Assembler!PublishedIsOneFrame

\* What is used is still there: no read of the camera outlives its buffer, no
\* thread of a client the broker's contexts or the audio port it serves.
NothingOutlivesItsOwner ==
  Iso!NoReadOutlivesItsBuffer /\ Broker!NoThreadAfterClose /\ Audio!NoClientOutlivesPort

\* What is reported is what has happened: a Tilt that reports success moved the
\* motor to its own angle, not to that of a Tilt of the other context, and a frame
\* of which every packet arrived is returned, whatever went wrong before it.
OutcomesAreTrue == Motor!TiltSuccessIsMine /\ Assembler!FullFrameIsPublished

\* The firmware is only launched on a Kinect that holds all of it.
LaunchedWhole == Boot!LaunchedWhole

\* A session that was superseded or lost RGB HQ leaves the list, and with it goes
\* its demand.
LosersLeave ==
  (part = "scanner" /\ Scanner!Fairness) => Scanner!LosersLeave /\ Scanner!HqIsGivenUp

\* When clients stay what they are, engine, depth pipe and projector come to what
\* they ask for, and stay there; and when the node is stopped the camera is
\* closed.
DeviceFollowsClients ==
  (part = "streams" /\ Streams!Fairness) => Streams!DeviceFollowsClients /\ Streams!NodeEnds

\* When Kinects stay what they are, the manifest has their rows, each one has its
\* virtual camera and no other virtual camera is left.
EverythingSettles == (part = "registry" /\ Registry!Fairness) => Registry!EverythingSettles

\* Who keeps reading gets the newest: a reader of the shared frames, unless the
\* worker of the mode before was not done; a client of the raw audio port and a
\* viewer of the IP camera.
NewestArrives ==
  /\ (part = "frames" /\ Frames!Fairness) => Frames!NewestIsRead
  /\ (part = "audio" /\ Audio!Fairness) => Audio!NewestIsHeard
  /\ (part = "ip" /\ Ip!Fairness) => Ip!StreamsAreFed

\* Stopping comes to its end: the scanner port, the broker, the node of a
\* microphone and the IP camera.
StopsEnd ==
  /\ (part = "scanner" /\ Scanner!Fairness) => Scanner!StopDrains
  /\ (part = "broker" /\ Broker!Fairness) => Broker!BrokerStops
  /\ (part = "audio" /\ Audio!Fairness) => Audio!NodeStops
  /\ (part = "ip" /\ Ip!Fairness) => Ip!ServiceEnds

\* A Kinect that is left alone gets its firmware, and then its microphone is
\* captured.
AudioComesUp ==
  /\ (part = "boot" /\ Boot!Fairness) => Boot!BootGetsFirmware
  /\ (part = "mics" /\ Mics!Fairness) => Mics!MicrophoneIsCaptured

\* Every request to the motor is answered, whatever fails.
EveryRequestAnswered == (part = "motor" /\ Motor!Fairness) => Motor!EveryRequestAnswered

\* What comments of the code say, and the code does not do: see the runs.
CommandedOnce == Motor!CommandedOnce
OwnMicrophone == Mics!OwnMicrophone
EvenWhenStable == Frames!EvenWhenStable

=============================================================================
