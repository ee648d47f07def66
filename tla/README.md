# A TLA+ model of Kinect Xbox 360 Remold

This directory models the services that stand between a Kinect for Xbox 360 and its
applications. It holds TLA+ modules translated from the source, configurations that TLC
checks, and theorems that TLAPS checks. `PROJECT.json` maps each definition to the lines
it stands for and lists the runs, mutants, hazards, findings and theorems.

To repeat a result: `tlc -config X.cfg M.tla` for a run (the pairs are in the table of
runs) and `tlapm M.tla` for each module of proofs: those of section 2 whose names end in
`Proofs`.

## 1. Inventory

The repository has two sets of drivers with the same architecture (Linux in C++ with
libusb, ALSA and v4l2loopback; Windows in C++ with WinUSB, Media Foundation and named
pipes), an application (Synkinect Studio, Processing) and scripts. The Linux paths below
are relative to `src/drivers/linux/source/`; the Windows files are in
`src/drivers/windows/source/components/`, each the only one of its name.

| part | state it keeps | operations | talks to |
|---|---|---|---|
| camera service, `src/camera_bridge.cpp` | per Kinect a `CameraHub`: leases, four user counters, the engines it believes to run, four frame queues, the RGB HQ flag | acquire, release, apply, open and close of the device, frame callbacks, wait_next | one detached thread per client of a Unix socket, one hub thread, the USB layer |
| USB layer, `src/kinect_usb_camera.cpp` | two pools of isochronous transfers, four frame assemblers, the running flags of the device | start and stop of video and depth, projector, completion callbacks, close | libusb; callbacks into the hub |
| motor broker, `src/broker.cpp` | per requested device id a `MotorSession`: handle, priming, last angle, a Tilt-in-flight flag; one I/O mutex per Kinect | Ping, Status, Tilt, LED, PrepareCamera, with one retry on a fresh handle | control socket and SDK socket, one thread per connection; control transfers (1414) or the bulk pair MI_00 (1473) |
| IP camera, `src/camera_ip.cpp` | two client counters, the newest JPEG, a table of failed logins | accept, serve (stream, snapshot, status), feed, drain | HTTP viewers; a client of the camera service |
| audio bridge, `src/audio_bridge.cpp` | per Kinect a node with the name of its sound card, the Kinects launched, subscribers | list and bind, capture and fan out, upload of the firmware | ALSA, libusb, a socket per device |
| V4L2 bridge, `src/v4l2_bridge.cpp` | eight loopback slots, per Kinect a worker: format, client state, subscription | feed while somebody reads, follow the RGB setting, SmartTilt | clients of the camera service and the broker |
| registry, main of `camera_bridge.cpp` and of `v4l2_bridge.cpp` | three files: devices.tsv, the saved slots, virtual-cameras.tsv | one pass of either loop per second, start, stop | each service reads what the other writes |
| SmartTilt, `include/remold/smart_tilt.hpp` | framing, cooldowns, learnt bias | Update, CommandAccepted | called by the V4L2 bridge |
| camera nodes, `camera_bridge.cpp:45-110, 804-918` | sockets and threads of a node, the settings file, the motion sampler | start, stop, set | creates and destroys hubs |
| Windows camera bridge, `Kinect360RemoldCameraBridge.cpp` | per Kinect a node: sessions of its scanner port, the merged stream mask, two threads with the engines and the projector, overlapped reads, frames in shared memory; the manifest and the list of virtual cameras | subscribe, supersede, withdraw RGB HQ, stream, publish, install and remove webcams, stop | named pipes, WinUSB, shared memory, the webcam tool |
| Windows broker, `Kinect360RemoldBroker.cpp` | per device id a context with its session; a mutex for each and one I/O mutex per Kinect; two pipe servers | Ping, Status, Tilt, LED, each on a second handle if the first fails; recovery; stop | pipes; WinUSB, MI_00 |
| Windows audio bridge, `Kinect360RemoldAudioBridge.cpp` | per Kinect a node with its endpoint and two ports; the places of launched Kinects | bind, capture, serve, set the volume, upload, stop | WASAPI, pipes, WinUSB |
| Windows IP camera, `Kinect360RemoldCameraIp.cpp` | two counters, the failed logins of each address, its source and the lease on it | accept, authorize, stream, renew the lease, stop | HTTP viewers, shared memory |
| Windows webcam, NUI shim, set-up | what COM, the registry and the driver store keep | sequences of calls that run once | Media Foundation, SetupAPI |
| Studio, SDK, scripts | sessions with the services, images, models | drawing, processing, set-up | clients |

**How they interact.** A client connects to the camera service and asks for a mask of
streams; the hub grants a lease or refuses, which starts or stops the one video engine,
the depth engine and the projector, under `dev_mu_`. USB completion callbacks assemble
packets to frames and push them to queues, from which each client's thread reads. When
nothing can be delivered any more the hub closes the session and its thread opens it
again. The IP camera and the V4L2 bridge are such clients. The motor broker works on
another interface of the same device; the audio bridge on a third, which only exists
after the bridge has uploaded its firmware. Which Kinect has which loopback device is
agreed through files: the camera service lists its Kinects, the V4L2 bridge gives them
slots and saves the slots for its next start, and the camera service publishes them.

On Windows a node of the camera bridge is one process's object: threads of the scanner
port change the stream mask that its video thread and its depth thread read without a
lock, and completed frames go to the virtual camera and the IP camera through shared
memory, under a sequence number. Those two say that they are there by renewing a lease in
the same memory. One loop enumerates Kinects, creates and destroys nodes, writes the
manifest and has the webcam tool called. Each service is stopped by flags and events that
threads blocked in a pipe must be got to see.

**What is hard here.** Leases are superseded by the same process, rolled back after
failures, revoked with RGB HQ, and released by threads that may have lost them; these
four happen in any order, around a mutex that is released in between. A handle, a flag or
a descriptor is read before a lock and used after it. Engines fail in the middle of a
change. Late packets of a channel without tags answer the wrong request. A motor travels
for seconds while several threads, two sessions and a retry want the bus. Transfers must
not be freed while the kernel owns them and must not be lost. Packets are lost, possibly
as many as a sequence number counts. Handlers are counted without the lock of the
condition variable that waits for the count. Names of sound cards and loopback slots are
reused while threads and files still hold old ones. A launched Kinect leaves the bus in
the middle of the transfer that launches it. Two services, each of which may crash between
two writes, agree on files. On Windows, threads act on a demand that they read before, two of
them write one register, reads that were cancelled still belong to the kernel, a recovery
works on pipes without the mutex of those who use them, a microphone is found by
elimination from two lists of different moments, and every stop has to wake threads that
block.

**What makes each part correct.**

* Hub: the counters are the leases; colour and IR never coexist; one lease per process;
  a lease is alive as long as it is owned and not longer; no engine runs unknown to the
  hub; a failed request leaves others alone; a lost engine is noticed; clients that are
  gone are released; stopping ends.
* USB layer: a published frame is one frame; after any loss the stream is back in step;
  the count is the number of pending transfers; none is lost in silence; a stop ends.
* Queues: frames of several streams arrive in the order of time; one is missed only by a
  reader that is behind.
* Broker: the hardware has one user at a time; a mutex is never leaked; a Tilt that
  reports success is the last command; the bus is silent during travel; every request is
  answered; a reading belongs to the request it answers.
* IP camera: the counters count; the Kinect is given back; handlers end; none is left
  behind when main returns.
* Audio bridge: a node ends up reading its own Kinect's microphone and no other's; a
  Kinect that boots gets its firmware, whole.
* Registry: no two Kinects share a loopback device, in memory or in a file; the files
  agree with the hardware in the end.
* V4L2 worker: whoever stays gets frames; when nobody is left, the Kinect is given back
  and the device takes the mode of the setting.
* Windows camera bridge: the scanner port arbitrates as the hub does and every stream in
  the mask has an owner; the device comes to what clients want; a closed camera is quiet;
  no read outlives its buffer; who reads the shared memory gets whole frames and in the
  end the newest; every Kinect has its virtual camera and no other is left.
* Windows broker: success of a Tilt is true; every request is answered; stops end, and no
  thread of a client is left when the contexts are closed.
* Windows audio bridge: a Kinect that is left alone gets its firmware, whole, and its
  microphone is captured; no client outlives the port.
* Windows IP camera: the counters count; a viewer gets frames; the service ends.

## 2. The modules

| module | models | notes |
|---|---|---|
| `ScannerArbiter` | nothing in the code: what the camera service promises about leases | three actions: grant, give back, give up RGB HQ |
| `CameraHub` | `CameraHub`, its clients' threads, its own thread and the engines | refines `ScannerArbiter` |
| `CameraHubClaims` | two sentences of comments, as properties | each refuted |
| `CameraHubProofs` | theorems about `CameraHub` | section 6, as for every `...Proofs` |
| `MotorBroker` | threads, sessions, mutexes, motor | control level; both motor types |
| `Mi00Channel` | the bulk pair of a 1473 | packet level of one operation at a time |
| `FrameAssembler` | `FrameAssembler` | packets to frames |
| `IsoStream` | `start_iso`, `stop_iso`, `handle_iso_callback` | two streams, unplugging |
| `FrameQueues` | the queues and `wait_next` | readers, sessions closed and opened |
| `IpCamera` | main, feeder and viewers of the IP camera | counters and lost wakeups |
| `AudioNodes` | coordinator, bindings and capture threads | names of cards are reused |
| `AudioFirmware` | `firmware_loop`, `upload_firmware` | failing transfers, replugging, stop |
| `DeviceRegistry` | main of the camera service and of the V4L2 bridge | three files, crashes, failed writes |
| `VirtualCamera` | `VirtualCameraWorker::loop` | one worker and its clients |
| `MotorBrokerProofs`, `FrameAssemblerProofs`, `IsoStreamProofs`, `DeviceRegistryProofs` | theorems about the module of that name | |
| `MCCameraHub`, `MCMotorBroker` | | instances for TLC |
| `MCParts` | | the nine modules from `Mi00Channel` to `VirtualCamera`, side by side |
| `MCPartsProofs` | theorems about these nine parts | takes over those of three of them |
| `WinScannerPort` | `ScannerPortServer`: acceptor, sessions, Stop, the stored setting | refines `ScannerArbiter` |
| `WinCameraStreams` | `CameraUsbTransport::Run`, `StreamVideo`, `DepthLoop`, the end of a node | two threads, one register |
| `WinIsoReads` | the overlapped reads of `StreamVideo` and `CancelPendingIsoReads` | kernel and thread |
| `WinFrameAssembler` | `FrameAssembler` of the Windows service | the buffer keeps old lines |
| `SharedFrames` | two conversion workers, the video thread with `SetOnline`, a reader | single stores to shared memory |
| `WinRegistry` | `RunBridgeLoop` with its registrar | restarts, failures of the tool |
| `WinMotor` | contexts, retries and recovery of the broker | both motor types |
| `WinBrokerHost` | `ControlServerLoop`, `SdkServerLoop`, the stop | clients that say nothing |
| `WinAudioNode` | `AudioPortServer`, `AudioControlServer` | clients that fall behind |
| `WinMicrophones` | coordinator, endpoints, capture threads | endpoints that do not name their device |
| `WinBootLoader` | `FirmwareLoop`, `UploadUacFirmware` | launches remembered by place |
| `WinCameraIp` | `RunRuntime`, `ServerLoop`, `ClientThread`, `EncoderLoop` | lease and throttle |
| `MCWindows` | | these twelve modules, side by side |
| `MCWindowsCameraProofs`, `MCWindowsProofs` | theorems about these twelve parts | the parts of the camera service, of the shared frames and of the IP camera in the first |

**CameraHub.** Everything between a lock and an unlock of `dev_mu_` is one action: a
`release` takes the lease away, applies the new demand with all failures of the engines
and, if RGB HQ is revoked on the way, does that as well. What the code does outside the
lock is a step of its own. `pc` gives the place of a handler: it reads its request
(`request`), has passed the check of `rgb_hq_unavailable_` before the lock (`acquire`),
has been granted its lease and must still shut down superseded connections (`notify`),
answers, streams, releases, and closes. `fd` is the number of its descriptor, chosen as
the lowest free one as the kernel does: reuse of a number is part of the model. `cam` has
what the hub believes and what the device does as separate fields. Every register write
is folded into the engine operation it belongs to. Time is two facts: that the watchdog
interval for video, or for depth, has passed without a frame.

**MotorBroker.** A thread takes the session's mutex, opens the handle if need be, takes
the I/O mutex, primes, works and returns; between two transactions the others and the
motor go on. `kind` is the motor path of the Kinect. Failures are those of `Faults`.

**AudioNodes.** The hardware is what `card` says: whose microphone a name is at present.
The coordinator reads the USB devices, then the sound cards, then updates the nodes; these
are three actions, so that both lists may be old when they are used. A capture thread
remembers the name it took and whose card it really opened; a card that goes away leaves
a dead handle. A Kinect in `Deep` has an audio function whose identity differs from its
camera's, which is when the fallback of `bind_pcms_to_sensors` is needed. The sort order
of candidates is a free choice.

**AudioFirmware.** `loader` is the place of the firmware thread in its loops. Each transfer
of the upload may fail; the launch command moves the device to its runtime state, with
the pages it got, or is ignored, and the answer to it is a status, a timeout, no device or
an error of the bus. Such an error also meets a Kinect that stays in its boot state;
`misbooked` (a history variable) are those that were booked as launched for it.

**DeviceRegistry.** A pass of the camera service is one action that reads the map of the
bridge and writes the manifest by rename. A pass of the bridge is three: the update of
workers and slots, the save of the slots, and the map. A crash may come between any two
of them, a clean stop removes the file it owns, and each write may fail and leave the old
file. The workers' own threads are in `VirtualCamera`.

**VirtualCamera.** One action per part of the worker's two loops. `event` is the client
event that the loopback driver queues, `active` what the worker has last heard of it,
`reader` the truth.

**MCParts** lets TLC check nine modules that do not interact in one run: the variable
`part` chooses one at the start and the others stand still, so the state spaces add up.
Every property is stated in its part's module and only named again in `MCParts`. The
parts are kept apart because their interfaces are small and stated: the pool hands
packets to the assembler one after the other, the assembler hands whole frames to the
queues, both on one thread under `dev_mu_`; the IP camera and the V4L2 worker see the
service as a connection that yields frames or fails; the registry sees of a hub whether
its device is open. The assumptions on the parts' constants stand in `MCParts`, where TLC
evaluates them.

**The Windows modules** are translated from the Windows sources on their own: where the
two sets of drivers do the same job, the modules differ as the code does. `WinMotor` tries
every command twice and recovers a pipe without the I/O mutex, where `MotorBroker` retries
inside one hold; `WinBootLoader` remembers a launch by the port of the Kinect, where
`AudioFirmware` remembers the device; `WinFrameAssembler` starts a frame with every first
packet and does not clear its buffer. `WinScannerPort` and `CameraHub` share the abstract
specification `ScannerArbiter`, so both ports promise their clients the same. One action
is what the code does under one lock, or between two calls that block.

In `WinCameraStreams` `wants` is what sessions and the lease ask for; each thread copies
it (`activeMode`, `level`) and acts later; `engine` and `projector` are the device's own
state, which a write may change or not when it fails. In `WinIsoReads` `kernel` says who
has a read, `pending` what the thread believes. In `SharedFrames` every store of the
header and each half of a slot is a step, and so is every load of the reader; the video
thread changes its mode without waiting for the worker of the mode it leaves, so that both
workers may be inside `PublishFrame`. Its history variables `met` and `late`, which no
action reads, say which frames that happened to. In `WinBootLoader` a launch whose status
ends in an error of `IsUsbDeviceGone` is a success, whether the device has taken it or not. In
`WinMotor` `cut` marks a read that the other context's recovery has aborted. In
`WinBrokerHost` `missed` says that the connection that should wake a server found no
instance.

**MCWindows** joins them as `MCParts` does. Its liveness properties have the fairness of
their part as a premise, which keeps TLC's formula small: the behaviours that count are
the same. The parts are kept apart where their interface is one value: the scanner port
hands a mask to the streams (`wants` changes at any time), the streams hand frames to the
workers (`Submit` at any time), the node's port hands out what the capture thread
publishes, and the IP camera sees the bridge as a Kinect that publishes while it has a
lease.

## 3. The runs

| run | module | shows | bounds |
|---|---|---|---|
| `hub_two` | MCCameraHub | all safety of the hub and the refinement, with a stop of the service | two processes, two leases, RGB, HQ, IR with depth, and an invalid mask |
| `hub_live` | MCCameraHub | an engine lost in a failed stop is noticed, gone clients are released, a stop drains | two handlers of one process, two leases, HQ with depth |
| `broker` | MCMotorBroker | mutexes, success of a Tilt, silence, progress | two threads, two sessions, both kinds, two angles |
| `parts` | MCParts | the safety of the nine parts | below |
| `parts_live` | MCParts | stops end, the Kinect is given back, microphones and files settle, firmware arrives, clients get frames | below |
| `windows` | MCWindows | the safety of the twelve Windows parts, and the refinement of the arbiter | below |
| `windows_live` | MCWindows | sessions that lost leave, the device follows its clients, cameras settle, the newest frame and sound arrive, stops and requests end | below |
| `claim_polling`, `claim_superseded` | CameraHubClaims | two disagreements of `camera_bridge.cpp` with its comments | two or three handlers |
| `claim_torn` | MCWindows | a reader that accepts a frame of two halves | the part `frames`: three frames, two changes of mode |
| `claim_resent` | MCWindows | a Tilt that is sent to the motor twice | the part `motor` with a 1473 |
| `claim_microphone` | MCWindows | a node that captures its neighbour's microphone | the part `mics` with two Kinects |

A property of `MCParts` or `MCWindows` is often the conjunction of what several parts state
(`BooksAreRight`, `StopsEnd`): each conjunct stands with its comment in the part's module.

**Why the bounds are enough.** Two processes are what it takes for a conflict, and two
handlers of one process for a supersession; the third lease is needed for a lease that
was superseded, restored and superseded again, and for a descriptor that is reused. The
theorems of section 6 hold for any number of handlers and processes, and of leases. In
`broker` two threads reach every pair of places, in one session or in two; two angles
distinguish "there" from "not there". `MinQuiet` and `Margin` are 0 so that the budget is
exact and a window shorter by one step is found. `parts` uses: in the assembler four
packets per frame, a sequence number modulo 7 (coprime to 4, so that every phase of
number and place occurs), gaps of up to 8, hence more than a whole turn of the number,
and a recoverable loss of 2; two transfers per stream, of which the first can succeed and
the second fail; a queue of two, three frames per stream and two clock ticks, so that a
queue overflows and frames of the two streams share a tick; two admitted of three
viewers; and a bulk channel that may owe three packets.

For the other four Linux parts: two Kinects and two names of cards, the least for a name that
moves from one Kinect to the other, with one Kinect in `Deep`, so that matching and
fallback both occur; two pages, so that an upload can end between them; a grace of two
passes, so that there is a pass in which something is missing and not yet expired. Two
Kinects share two loopback devices in `parts`, where slots are given, freed and given
again, and one in `parts_live`, where a Kinect finds none free and one of an earlier time
is in its way. Changes of the outside world are counted: up to three in `parts` and two
in `parts_live` (`MaxChanges`: plugging, cards, crashes and failed writes), four
(`MaxFaults`) in the firmware, six (`MaxEvents`) around a V4L2 worker. Two changes make a
name or slot move; a third lets another change fall into the reaction. A liveness property
of these parts speaks of what follows when the changes are over. All bounds are CONSTANTS.

`windows` uses: two sessions of different processes that ask for RGB HQ and for IR, one
of which may ask for a setting, and in `windows_live` two of one process, so that one
supersedes the other; four demands on the streams, changed three times, with two failures
of a register write (one in `windows_live`): a change and a failure can fall into the
reaction to another change; three frames and a change of mode in the shared memory, so
that both slots are reused under a reader and both workers publish (two frames and two
changes in `windows_live`); three reads; five packets per frame, numbered
modulo 8, with gaps of up to 9 (more than a turn); two Kinects and a grace of two passes;
four faults around firmware; three viewers of one address, of whom two are admitted at a
time, one move of a Kinect, and two failed logins to be blocked; two threads that use both contexts of one
motor of either kind, with two angles; two control clients and one SDK client, of which one
each says nothing. In `windows_live` the motor is a 1473, where the retries are, there is
one viewer, two moves of a Kinect, and two frames of sound, so that the newest is not the
first.

`CHECK_DEADLOCK FALSE` appears where the system may stop: in `hub_two` and `hub_live` the
service stops; in `parts` and `parts_live` main of the IP camera returns, the firmware
thread ends and the frames of the queues are used up; in `windows` and `windows_live` the
services stop and the bounds of the environment are used up. `broker` is checked for
deadlock.

**Mutants.** For every property of a passing run `PROJECT.json` names a plausible error
of the code, defined next to the operator it replaces, under which the property fails.

## 4. Fairness

* Hub: weak fairness for each statement of a handler and for the hub thread's pass,
  because no thread stops for ever between two statements. Strong fairness for the end of
  a stream and for the failing write: a waiting handler is woken by each close of the
  session, which `clear_all_queues_locked` announces, and the next open is 500 ms away.
  Nothing is assumed about a device opening or failing; a watchdog interval passes only
  when no frame can come.
* Broker: strong fairness for the two mutexes (a blocked thread eventually gets a mutex
  that is released again and again), weak fairness for the rest, time passes. That
  polling a travelling 1414 ends is the limit of 40 readings in the code.
* Transfer pool: the thread in `stop_iso` goes on and handles events; the kernel retires
  a transfer, when its interval is over or because the device is gone.
* IP camera: the threads of main, feeder and viewers go on; the sockets of viewers have
  timeouts of 3 s (`camera_ip.cpp:471-474`). The feeder's socket has none: that a read
  ends rests on the camera service, whose watchdogs make it deliver or close
  (`LostEngineIsNoticed`). Nothing makes main leave its accept loop.
* Audio: the coordinator and each capture thread go on. A read ends, with samples or with
  the error that ALSA gives for a card that is gone. The firmware thread goes on, since
  every transfer has a timeout (`audio_bridge.cpp:812-851`).
* Registry: each loop goes on while its service runs. Nothing starts a service again;
  `RegistrySettles` speaks of behaviours in which both run in the end.
* V4L2 worker: its thread goes on. It polls with a timeout, and a read of a frame ends for
  the same reason as the feeder's above.
* Windows parts: every thread of the code goes on between two calls that block. Nothing is
  assumed of clients, of failures, or of a Stop being called. Two things are strongly fair:
  the two mutexes of a motor context, as on Linux, and what a poll hits upon: a pipe that
  can be created again (`Create`), a frame that is fresh when the encoder or a viewer looks
  (`Encode`, `Send`). A Kinect that has a lease publishes, and goes offline when it has none
  (`Publish`, `Lapse`, `GoIdle`): that is the camera bridge as the IP camera sees it. A
  motor that travels arrives (`Tick`), and so does the end of `PollTravel`, after 40
  readings.

## 5. What the checks found

Five places where the code differs from what its comments say, each with a run that
shows it (details in `findings`):

1. `camera_bridge.cpp:781`: if the reply of a granted request cannot be written, the
   lease is never released; the engines run on for nobody (`claim_polling`).
2. `camera_bridge.cpp:342`: superseded connections are shut down by number after the
   lock; a new connection that reuses the number is cut off (`claim_superseded`).
3. `Kinect360RemoldBroker.cpp:583`: a Tilt whose acknowledgement fails in any way but a
   timeout is sent again, where the comment at 576 says it must never be
   (`claim_resent`).
4. `Kinect360RemoldAudioBridge.cpp:1157`: the assignment by elimination is not
   "provably unambiguous" (1148) when a Kinect has no endpoint yet (`claim_microphone`).
5. `Kinect360RemoldCameraBridge.cpp:333`: `PublishFrame` increments the sequence number
   without a lock, and `StreamVideo` changes its mode (1883-1914) without waiting for the
   conversion worker of the mode it leaves. With the RGB and the RGB HQ worker inside, the
   number is even while both write one slot, and a reader takes a frame of two halves;
   `Kinect360RemoldFrameTransport.h:55` says that it is odd while a writer mutates
   (`claim_torn`).

Observations made while translating, in the models where the state is there, without a
run of their own. Linux:

* `LIBUSB_ERROR_IO` and `LIBUSB_ERROR_INTERRUPTED` count as the departure of the device
  (`audio_bridge.cpp:866`), which the comment at 863-864 says they indicate. A Kinect that
  ignored the launch and met one is still in boot, is booked as launched, and is not tried
  again until it is unplugged: `misbooked`, the exception of `BootGetsFirmware`.
* RGB HQ is checked before the lock (`camera_bridge.cpp:293`); a request that waits while
  it is disabled is granted it afterwards, against the comment at 554-555.
* A Tilt whose final reading fails keeps the old angle (`broker.cpp:471`), and the next
  silent window is computed from it (docs/MOTION.md:73-76).
* main of the IP camera may return between a handler's decrement and its notification
  (`camera_ip.cpp:323`, comment at 663-664).
* RGB HQ is disabled until the service restarts (`camera_bridge.cpp:558` sets the flag,
  nothing clears it), while the comment at 554-555 speaks of the current connection.
* `active_clients_` is not stored on the rollback path (324), although revocation inside
  `apply_locked` may have lowered it.
* `acquire` never clears the queues of streams it takes away, `release` of a superseded
  token neither: the next subscriber of such a stream is first given old frames. In
  `FrameQueues` they are there; `MergedInOrder` holds with them.
* Overlapping Tilts of one session share one flag: the first that ends clears it
  (`broker.cpp:618`, see docs/MOTION.md:79-80).
* A Ping that names a device takes the session's mutex (`broker.cpp:124`) and waits for a
  travelling motor (docs/MOTION.md:82-84).
* A bad acknowledgement after the Tilt command went out ends the Tilt and lets others on
  the bus while the motor travels (501). `SilentTravel` is therefore stated for runs
  without such failures on a 1473, and `MCFaults` says so.
* A session keeps its claim of MI_00 (256): a request through the other session may get
  ENODEV as long as it does.
* A late status payload may be taken by the next Status, each answer then one behind, for
  ever (354, 414-416). `FreshReading` is checked with late acknowledgements only
  (`Late = {"ack"}`), which is what the code handles.
* The counters of the IP camera are changed without a lock: a wakeup may fall between a
  waiter's look and its sleep. The feeder then sleeps although a viewer waits, until
  another one comes or goes; main may wait for ever for handlers that have ended.
  `CameraIsGivenBack` and `HandlersEnd` hold in spite of it; "a viewer is fed" and "main
  returns" do not, and no comment promises them.
* A client of the IP camera that asks for snapshots only is answered 503 again and again:
  it stops counting as a viewer before the feeder could read a frame for it.
* `CameraNode::server_loop` clears `running_` if it cannot bind (827); `stop` then does
  not join the thread, and the destructor of the node terminates the process.
* In `process` of the assembler, `last` is computed before a first packet in a wrong
  place restarts the frame (165, 170-171), so the new frame's first packet is measured
  against the length of a last one. It only matters when the place was the last one and
  the numbers agree by chance, after a multiple of 256 packets too many were lost; it costs
  one more frame. `Process` has it.
* A second card of a Kinect that has one is counted as unresolved; if exactly one other
  Kinect has none, the fallback gives it its neighbour's card (`audio_bridge.cpp:283`).
  Likewise a Kinect that shows no camera function leaves its card to the fallback:
  `SettlesOnOwnMicrophone` is stated for hardware that rests with all cameras in place.
* A stop ends the page loop and the launch command follows all the same: the Kinect runs
  a part of the image until it is unplugged (894-912). `LaunchedWhole` says that this
  happens in no other case.
* A launched Kinect that is connected again within three seconds is taken for launched and
  stays in its boot state (1030); docs/windows/PROTOCOL.md:19 describes this as intended.
* Slots that were loaded from the file are given back only when their Kinect appears and
  expires again. Eight Kinects of the past leave none for a new one
  (`v4l2_bridge.cpp:694`), where README.md:41-45 promises a virtual camera for each.
* A Kinect that is Booting for 30 s loses its worker and slot and gets them back a second
  later, over and over (692).
* A change of the setting may make the worker decide to change the format while a client
  opens the device, or a write may fail while a client streams: that client is left
  without frames until it closes (467). `FollowsItsClients` exempts exactly this.
* SmartTilt: a frame that is captured within the 250 ms in which the motion sampler keeps
  its last sample, after the motor has left, carries the angle of before; a worker that was
  waiting for the broker reads it after the travel (`v4l2_bridge.cpp:390`) and may command
  the motor back from it. docs/MOTION.md:80-82 excludes this. Further: a Tilt that fails is
  asked for again with every frame; a motor that another client moves to where the last
  command equals the next is not commanded again; a travel of more than 28 degrees outlasts
  the 3 s after which the camera service drops the virtual camera's connection.

Windows:

* The setting of RGB HQ is written to the registry before it is stored in the node, by
  threads of several clients (`Kinect360RemoldCameraBridge.cpp:460-466`): two that
  overtake each other leave one in memory and the other for the next start.
* With two workers inside `PublishFrame` (5. above) a reader may take a torn frame, and a
  worker of the mode that was left may publish its older frame after the newest one.
  `WholeFrames` says that nothing else tears a frame: one that is torn, or of the wrong
  size, has a half of a frame whose worker met another. `NewestIsRead` exempts a newest
  frame that was submitted while the other worker was still busy. That `SetOnline`, on the
  video thread, changes the same number while a worker publishes is harmless: it writes
  nothing that a reader takes for the frame, and a single worker keeps off the slot that is
  read. A worker that is late turns the camera online again.
* After a write to the projector whose reply was lost `m_projectorOn` is wrong, and
  `SetProjector` skips the write that would correct it. `DeviceFollowsClients` and
  `ClosedIsQuiet` exempt the projector then.
* A stop of the broker opens each pipe for a moment. A server that has no instance just
  then, or that reads from a client which says nothing, is not woken
  (`Kinect360RemoldBroker.cpp:1006`); nor is the volume pipe of a microphone whose client
  says nothing (`Kinect360RemoldAudioBridge.cpp:573`). `BrokerStops` and `NodeStops` exempt
  these.
* The encoder of the IP camera takes the first Kinect of the manifest that is Ready, and
  waits for it although another would come online.
* `PruneAuthStatesLocked` forgets addresses that are still blocked when it knows too many. Threads of
  viewers may outlive the 5 s that the end waits for them. A client that asks for
  snapshots alone never keeps the lease, as on Linux.
* A Kinect that is connected again between two passes is taken for launched and stays in
  its boot state, as on Linux; and so does one whose launch ended in an error that
  `IsUsbDeviceGone` (`Kinect360RemoldAudioBridge.cpp:878`) takes for a departure, as on
  Linux.

## 6. What is proved

Every safety invariant and every action property that a passing run checks is also a
theorem, for all values of the constants that the assumptions and hypotheses below admit.
What stays with TLC is at the end of this section. `theorems` in `PROJECT.json` lists the
results, the modules hold the lemmas.

| module | theorems | say, beyond the bounds of the runs |
|---|---|---|
| `CameraHubProofs` | `TypeCorrect`, `HubInvariant` and its parts `UsersMatchLeasesHolds`, `ColorExcludesIrHolds`, `OneLeasePerProcessHolds`, `AliveIsOwnedHolds`, `NoOrphanEngineHolds` | counters are leases, colour excludes IR, one lease per process, no token dies while it is owned, no engine runs unknown: for any handlers, processes and requests |
| | `LoopPassSettlesHolds`, `FailedAcquireRestoresHolds` | a pass of the hub thread closes or meets the demand; a failed request leaves others what they had |
| | `ImplementsArbiterHolds` | the hub implements `ScannerArbiter` |
| `MotorBrokerProofs` | `BrokerInvariant`, `TiltSuccessIsMineHolds`, `SilentTravelHolds` | mutexes, success and silence for any threads, sessions, range and budget |
| `FrameAssemblerProofs` | `InStepHolds`, `PublishedIsOneFrameHolds`, `FullFrameIsPublishedHolds` | for any frame length, width of the number and losses |
| `IsoStreamProofs` | `IsoInvariant`, `CountIsPendingHolds`, `NoSlotLostSilentlyHolds` | for any streams and transfers |
| `DeviceRegistryProofs` | `RegistryInvariant`, `SlotsAreDistinctHolds` | for any Kinects and loopback devices, crashes and failed writes |
| `MCPartsProofs` | `PartsInvariant`, `BooksAreRightHolds`, `FreshReadingHolds`, `WholeFramesHolds`, `SlotsAreDistinctHolds`, `LaunchedWholeHolds`, `MergedInOrderHolds`, `QueuesMergeInOrder` | the properties of run `parts` |
| `MCWindowsProofs` | `WindowsInvariant`, `BooksAreRightHolds`, `ClosedIsQuietHolds`, `NothingOutlivesItsOwnerHolds`, `LaunchedWholeHolds`, `WholeFramesHolds`, `OutcomesAreTrueHolds`, `ImplementsArbiterHolds` | the properties of run `windows` |

### Assumptions

Each is named where the constant is declared, and TLC evaluates it in the runs.

* `HubAssumption`: finitely many handlers, requests are sets of streams.
* `BrokerAssumption`: what the constants are; "nobody" is no thread.
* `ChannelConstants`: only acknowledgements come late, and at most three are owed (the code
  skips that many). `AssemblerConstants`: no number of rounds of the sequence number that
  the packets of one frame can miss amounts to whole frames. With fewer than 256 packets
  lost in a row there are no rounds and it says nothing; the frames of the Kinect have 162
  (RGB), 687 (RGB HQ), 205 (IR) and 242 (depth) packets. `IsoConstants`,
  `RegistryConstants`, `QueuesAssumption`, `IpAssumption`, `AudioAssumption`,
  `FirmwareAssumption` and their Windows counterparts: limits are natural numbers, positive
  where the code's are, sets that are counted are finite, placeholders are no members.
  `RegistryAssumption` of `MCWindows` numbers the Kinects, `SlotsAssumption` the reads.

Three theorems have a hypothesis of their own:

* `SilentTravelHolds`: replies arrive on a 1473 (`RepliesArrive`). A Tilt whose
  acknowledgement fails lets others on the bus (section 5), so without it the statement is
  false; `MCFaults` has the same limit.
* `FullFrameIsPublishedHolds` and, through it, `MergedInOrderHolds` on Linux:
  `MaxGap < SeqMod`, fewer packets are lost in a row than the number can count. After a
  loss of whole rounds the number agrees while the place may be wrong, and a first packet
  that comes in the last place is measured against the length of a last one
  (`Process`, section 5): the complete frame that it begins is lost. With four packets per
  frame and a number modulo 7 that takes a gap of 14. Run `parts` checks the property with
  gaps of 8, which the theorem does not cover.

### The arguments

**CameraHub.** None of the properties is inductive alone. The clamp at zero in
`adjust_users_locked` makes counting wrong unless the counters were right before; the
check for a conflict reads counters, not leases, so that colour and IR exclude each other
only if the counters are right; a rollback keeps one lease per process only if what it
restores had been disjoint from the rest; and a token may be declared dead only if no
other lease has the same one. `HubInv` is the conjunction of all, plus `LeasesAreNamed`:
tokens are unique, not above the counter, and gone from `clients` when they are in some
handler's `old`; masks are valid. TLC checks `HubInv` itself in `hub_two` and `hub_live`.
The proof has one step per action of `Next` and below it one per conjunct that the action
touches. Two groups of lemmas carry it: `DropCounts`, `AddCounts`, `UnionCounts` and
`DropLastCounts` say what `DropUsers` and `AddUsers` do to counters that equal
cardinalities; and a lemma for each stage of `apply_locked` (`StopVideoStage` to
`SetProjectorStage`, joined in `ApplyResult`) says that whatever stage fails, the result is
typed and has no unknown engine, and that without a failure it is what was wanted.
For the refinement, the leases without their descriptors are what the arbiter has granted,
and the token counter is its own. A grant supersedes in the same step; a release, or a
drained connection, gives back; either may give up RGB HQ on the way. A request that fails
restores what it superseded, and is a stutter or gives up RGB HQ. `FailedAcquireRestores`
had to be corrected in the attempt to prove it: as first written it demanded something of
anonymous processes, which share no lease, and which the bounds of the runs did not tell
apart.

**MotorBroker.** `BrokerInv` (who talks to the motor owns both mutexes, none is leaked, the
busy flag is set only in a Tilt) is inductive with two facts: a thread holds its session's
mutex from `Lock` to `Unlock` (`SessionIsHeld`), and its label says what it does and what
the motor was told (`WorksOnItsCommand`). Success of a Tilt follows, since between the
command and the answer the I/O mutex is never released. Silence of a 1473 needs more
(`Quiet1473`): only one of the two sessions has a handle, a session that knows the angle is
open, hence it knows the true one, so that the window computed from it is long enough.

**FrameAssembler.** `InStep` counts the rounds `w` of the number that went unnoticed since
the frame began: the device is `w * SeqMod` packets ahead of what the assembler believes,
and each packet accepted can add at most `Rounds`. A last packet in its place then means
that `w * SeqMod` is a multiple of the frame's length, which by `AssemblerConstants` is
so for `w = 0` only: the packets are of one frame. The proof is arithmetic of `\div` and
`%`, stated in lemmas at the start. The Windows assembler has the same state: its proof
maps it to the Linux one (`Linux!IInv`), proves that only `Push` differs, and reuses the
invariant. `OutcomesAreTrueHolds` needs no hypothesis on losses there, because a first packet
always starts a frame: from then on everything is in place (`Complete`).

**IsoStream.** A slot is active exactly while its transfer is with the kernel or a callback
(`ActiveIsPending`), which makes the count a cardinality; `JobOnStream` says how far the
thread that starts or stops a stream has come, and that no callback runs while it submits.

**DeviceRegistry.** Slots are injective maps; a pass of the bridge that expires, keeps and
gives slots, a restart that loads a file, and either write keep them so.

**The other parts of `MCParts`.** `ChannelInv` places the payload of the pending request
in the queue of the endpoint: one acknowledgement behind it, acknowledgements before it,
and enough reads left to reach it. `QueuesInv` says that a queue has the last frames of
its stream, by number and by time, and that what a subscriber has not seen is not older
than what it got last, across the streams it reads. `IpInv` says what the two counters
count. `FirmwareInv` ties the offset to the Kinect the loader works on. A step of
`MCParts` is a step of one part and leaves the others alone (`PartSteps`), so that
invariants of the parts are invariants of the whole. Theorems of `FrameAssemblerProofs`,
`IsoStreamProofs` and `DeviceRegistryProofs` are taken over by instantiating these
modules; small lemmas say that the two instances of the same module have the same
operators.

**The parts of `MCWindows`.**

* Scanner port: `ScannerInv` is needed to show that a step is one of the arbiter. Tokens
  are unique, the stream mask is the union of the sessions, every session has a thread
  that is going to remove it, and Stop has joined acceptor and handlers before it clears the
  list. Then `ArbiterStep` maps the actions: a subscription grants and supersedes at once,
  each way for a session to end gives back, the withdrawal of RGB HQ revokes.
* Camera threads: what is off when the camera is closed was switched off by whoever comes
  last, so `StreamsInv` follows the end of `Run` place by place: first the depth thread is
  over, then the projector, then the engine; as far as no write failed.
* Reads: a wait that has passed a slot has collected it (`IsoInv`), or the abort will.
* Shared frames: `SharedBooks` bounds the sequence number by what frames and workers still
  owe, however many writers there are. `SharedInv` adds: frames are numbered up to the
  last one, and a worker has frames of its mode (`Numbers`); two workers that are both inside have both met (`Meets`); the
  slot in use is good, which is to say whole or of a frame that met another, and a worker
  that has met nobody writes the other slot (`Written`); a reader whose number has not
  changed since looks at a good slot, which a worker that is still to write either keeps
  off or has met another for (`Read`). That the number is odd in between is not needed: two
  slots and one writer suffice.
* IP camera: as on Linux, and an encoder that reads has a Kinect. The first
  Kinect that is Ready exists because the numbers of Kinects are well-founded.
* Motor: from the command of a Tilt to its answer its thread owns the I/O mutex, and the
  motor's target is its goal (`CallOK`), on the second attempt as on the first.
* Pipe servers and ports: whoever ends last waits for the others (`HostInv`, `PortInv`).
* Firmware: the loader has at least as much of the image as was sent in this session, as
  long as the device is the one that was opened (`BootInv`).
* Registry and microphones: their types are inductive.

### Only model-checked

* Liveness under fairness, and anything with ENABLED, is out of the prover's reach:
  `LostEngineIsNoticed`, `GoneClientIsReleased` and `StopDrains` of the hub,
  `EveryRequestAnswered` of both brokers, and the properties of `parts_live` and
  `windows_live`.
* The five claims are refuted by their runs; there is nothing to prove.
* `FullFrameIsPublished` of Linux beyond its hypothesis.
* Induction over data, hence what a recursive operator computes for every input, cannot be
  proved either. No module uses RECURSIVE; functions that a fold computes are used for what
  their steps do.

## 7. What is not modelled, and the plan

Not modelled: pixels, JPEG, HTTP parsing, and on Linux the throttle of failed logins; the
register protocol of the camera (it succeeds or fails); calibration; the conversion of
samples, the fan-out to subscribers of a microphone on Linux, and volumes; wording and
logs; scripts, installers, interfaces without behaviour; the Windows webcam, NUI shim and
set-up, which are sequences of calls to the system. `components` gives the reason row by
row.

SmartTilt is a filter over real numbers: in tenths of a pixel, the coarsest grain that
keeps its dead zone reachable, one face and one visit already give more states than a run
can hold. What its translation showed is in section 5.

The plan, in this order:

1. Proofs: what the liveness properties rest on and an action property can say, such as
   that each pass of a loop comes nearer to where it settles (`RegistrySettles`,
   `EverythingSettles`); the proofs of the two IP cameras and of the two firmware loaders
   say the same in many steps and may share lemmas.
2. `CameraNode`: start, stop, the settings file that two handlers write at once
   (`camera_bridge.cpp:66`), the motion sampler; the audio fan-out with its volume.
3. Framing of SmartTilt (`UpdateFraming`) without the motor.

New parts join `MCParts` rather than add runs, and a new property that says more than an
old one takes its place.
