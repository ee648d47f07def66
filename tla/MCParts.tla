------------------------------- MODULE MCParts -------------------------------
(***************************************************************************)
(* The parts that work on their own, checked side by side: a behaviour     *)
(* belongs to one part, chosen at the start, and leaves the others alone,  *)
(* so their state spaces add up instead of multiplying.                    *)
(***************************************************************************)
EXTENDS Integers, FiniteSets

CONSTANTS
  Parts,                                        \* the parts to check
  Late, MaxOwed,                                \* Mi00Channel
  P, SeqMod, MaxLoss, MaxGap,                   \* FrameAssembler
  Streams, N,                                   \* IsoStream, FrameQueues
  Consumers, Depth, MaxFrames, MaxTick,         \* FrameQueues
  Viewers, MaxClients,                          \* IpCamera
  Kinects, Deep, Cards, NoKinect, NoCard,       \* AudioNodes
  Pages, DisconnectPasses, MaxFaults, Nobody,   \* AudioFirmware
  Ids, VideoSlots,                              \* DeviceRegistry
  Grace, MaxChanges,                            \* AudioNodes, DeviceRegistry
  MaxEvents                                     \* VirtualCamera

VARIABLES
  part,
  working, fifo, primed, pc, op, attempt, tries, result,
  dev, gap, intact, asm, frame, out,
  kernel, active, count, started, stopping, dead, plugged, job,
  online, clock, queue, counter, lease, reading, seen, last, lost,
  run, main, feeder, viewer, open, auth, unseen,
  present, camera, card, changes, pass, node, capture,
  usb, broken, misbooked, handles, launched, absent_passes, loader, serving, faults,
  attached, ready, nodes, manifest, bridge, slots, workers, file, virtual, service, moves,
  reader, event, format, setting, answers, turns, worker, sensor_hq, output_hq, consumed,
  scanner, consumer_active_

Channel   == INSTANCE Mi00Channel
Assembler == INSTANCE FrameAssembler
Iso       == INSTANCE IsoStream
Queues    == INSTANCE FrameQueues
Ip        == INSTANCE IpCamera
Audio     == INSTANCE AudioNodes
Firmware  == INSTANCE AudioFirmware
Registry  == INSTANCE DeviceRegistry
               WITH online <- ready, pc <- bridge, serving <- service, changes <- moves
Webcam    == INSTANCE VirtualCamera
               WITH online <- answers, changes <- turns, pc <- worker, active <- consumed

\* The sizes and bounds of the parts.
ASSUME ChannelAssumption   == Channel!ChannelConstants
ASSUME AssemblerAssumption == Assembler!AssemblerConstants
ASSUME IsoAssumption       == Iso!IsoConstants
ASSUME QueuesAssumption    == {Depth, MaxTick} \subseteq Nat \ {0} /\ MaxFrames \in Nat
ASSUME IpAssumption        == IsFiniteSet(Viewers) /\ MaxClients \in Nat
ASSUME AudioAssumption     == Deep \subseteq Kinects /\ NoKinect \notin Kinects /\ NoCard \notin Cards
ASSUME FirmwareAssumption  == {Pages, DisconnectPasses} \subseteq Nat \ {0} /\ Nobody \notin Kinects
ASSUME RegistryAssumption  == Registry!RegistryConstants
ASSUME BoundsAssumption    == {MaxFaults, MaxEvents} \subseteq Nat

channelVars   == <<working, fifo, primed, pc, op, attempt, tries, result>>
assemblerVars == <<dev, gap, intact, asm, frame, out>>
isoVars       == <<kernel, active, count, started, stopping, dead, plugged, job>>
queuesVars    == <<online, clock, queue, counter, lease, reading, seen, last, lost>>
ipVars        == <<run, main, feeder, viewer, open, auth, unseen>>
audioVars     == <<present, camera, card, changes, pass, node, capture>>
firmwareVars  == <<usb, broken, misbooked, handles, launched, absent_passes, loader, serving, faults>>
registryVars  == <<attached, ready, nodes, manifest, bridge, slots, workers, file, virtual,
                   service, moves>>
webcamVars    == <<reader, event, format, setting, answers, turns, worker, sensor_hq, output_hq,
                   consumed, scanner, consumer_active_>>

usbVars      == <<channelVars, assemblerVars, isoVars>>
cameraVars   == <<queuesVars, ipVars>>
audioBridge  == <<audioVars, firmwareVars>>
videoBridge  == <<registryVars, webcamVars>>

vars == <<part, usbVars, cameraVars, audioBridge, videoBridge>>

\* The parts that start in one of several states start in one of them when they
\* are not the part that is checked.
Init ==
  /\ part \in Parts
  /\ Channel!Init /\ Assembler!Init /\ Iso!Init /\ Queues!Init /\ Ip!Init
  /\ Audio!Init    /\ (part = "audio" \/ present = {})
  /\ Firmware!Init /\ (part = "firmware" \/ Firmware!physical = {})
  /\ Registry!Init /\ (part = "registry" \/ attached = {})
  /\ Webcam!Init   /\ (part = "webcam" \/ (setting = "RGB" /\ ~answers))

ChannelNext ==
  part = "channel" /\ Channel!Next
    /\ UNCHANGED <<part, assemblerVars, isoVars, cameraVars, audioBridge, videoBridge>>
AssemblerNext ==
  part = "assembler" /\ Assembler!Next
    /\ UNCHANGED <<part, channelVars, isoVars, cameraVars, audioBridge, videoBridge>>
IsoNext ==
  part = "iso" /\ Iso!Next
    /\ UNCHANGED <<part, channelVars, assemblerVars, cameraVars, audioBridge, videoBridge>>
QueuesNext ==
  part = "queues" /\ Queues!Next
    /\ UNCHANGED <<part, usbVars, ipVars, audioBridge, videoBridge>>
IpNext ==
  part = "ip" /\ Ip!Next
    /\ UNCHANGED <<part, usbVars, queuesVars, audioBridge, videoBridge>>
AudioNext ==
  part = "audio" /\ Audio!Next
    /\ UNCHANGED <<part, usbVars, cameraVars, firmwareVars, videoBridge>>
FirmwareNext ==
  part = "firmware" /\ Firmware!Next
    /\ UNCHANGED <<part, usbVars, cameraVars, audioVars, videoBridge>>
RegistryNext ==
  part = "registry" /\ Registry!Next
    /\ UNCHANGED <<part, usbVars, cameraVars, audioBridge, webcamVars>>
WebcamNext ==
  part = "webcam" /\ Webcam!Next
    /\ UNCHANGED <<part, usbVars, cameraVars, audioBridge, registryVars>>

Next ==
  \/ ChannelNext \/ AssemblerNext \/ IsoNext \/ QueuesNext \/ IpNext
  \/ AudioNext \/ FirmwareNext \/ RegistryNext \/ WebcamNext

Spec == Init /\ [][Next]_vars

\* Every variable of every part has its type.
TypeOK ==
  /\ Channel!TypeOK /\ Assembler!TypeOK /\ Iso!TypeOK /\ Queues!TypeOK /\ Ip!TypeOK
  /\ Audio!TypeOK /\ Firmware!TypeOK /\ Registry!TypeOK /\ Webcam!TypeOK

\* What is counted is what there is: the transfers of a stream that the kernel
\* has, and the connections and viewers of the IP camera. One too many and a stop
\* never ends or a camera stays on, one too few and a buffer is freed under the
\* kernel or main returns under a handler.
BooksAreRight ==
  TypeOK /\ Iso!CountIsPending /\ Iso!NoSlotLostSilently /\ Ip!CountsAreRight

\* A reading that is reported is the answer to its own request, although answers
\* of transfers that timed out come in front of it, and those stay few.
FreshReading == Channel!FreshReading /\ Channel!BacklogIsBounded

\* A frame that is handed on has nothing of another one, whatever packets are
\* lost, damaged or counted round.
WholeFrames == Assembler!PublishedIsOneFrame

\* A frame of which every packet arrives is handed on, whatever was lost before
\* it; and a subscriber gets frames in order, and misses one only when it is behind.
MergedInOrder ==
  Assembler!FullFrameIsPublished /\ Queues!MergedInOrder /\ Queues!MissedOnlyWhenBehind

\* While the service runs, every Kinect it launched holds the whole image.
LaunchedWhole == Firmware!LaunchedWhole

\* Two Kinects never share a virtual camera.
SlotsAreDistinct == Registry!SlotsAreDistinct

\* Stopping a stream and the connections of the IP camera comes to an end.
StopEnds ==
  /\ (part = "iso" /\ Iso!Fairness) => Iso!StopEnds
  /\ (part = "ip" /\ Ip!Fairness) => Ip!HandlersEnd

\* A camera that nobody watches any more is given back.
CameraIsGivenBack == (part = "ip" /\ Ip!Fairness) => Ip!CameraIsGivenBack

\* When nothing changes any more, each Kinect publishes its own microphone.
SettlesOnOwnMicrophone == (part = "audio" /\ Audio!Fairness) => Audio!SettlesOnOwnMicrophone

\* A Kinect that is left alone gets its firmware, but for a launch it ignored and
\* a bus error booked.
BootGetsFirmware == (part = "firmware" /\ Firmware!Fairness) => Firmware!BootGetsFirmware

\* When Kinects stay what they are, the files of the two services agree on them.
RegistrySettles == (part = "registry" /\ Registry!Fairness) => Registry!RegistrySettles

\* The virtual camera is fed, in its setting, exactly when somebody watches it.
FollowsItsClients == (part = "webcam" /\ Webcam!Fairness) => Webcam!FollowsItsClients

=============================================================================
