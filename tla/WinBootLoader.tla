------------------------------ MODULE WinBootLoader ------------------------------
(***************************************************************************)
(* FirmwareLoop of the Windows audio bridge                                *)
(* (Kinect360RemoldAudioBridge.cpp): it uploads the UAC firmware to a      *)
(* Kinect that shows its boot loader, one Kinect in each pass.  Unlike on  *)
(* Linux, what is remembered of a launch is where the Kinect is plugged    *)
(* in, and only the first device that can be opened is looked at.          *)
(***************************************************************************)
EXTENDS Integers

CONSTANTS
  Ports,             \* places where a Kinect is plugged in, in the order of enumeration
  Pages,             \* pages of the image
  DisconnectPasses,  \* kDisconnectPasses
  MaxFaults          \* bound: events on the bus, and transfers that fail

VARIABLES
  usb,               \* what each port has: "nothing", "boot" or "uac"
  image,             \* pages, from the first on, that its boot loader has
  owed,              \* replies of the boot loader that nobody has read
  partial,           \* ports where an incomplete image was launched
  launchedKeys, absentPasses,
  pc, port, sent,    \* the loop: where it is, the port of the device it has open, pages sent
  alive,             \* whether that device is still the one that was opened
  gRun, faults

bus    == <<usb, image, owed, partial>>
memory == <<launchedKeys, absentPasses>>
session == <<pc, port, sent>>
vars   == <<bus, memory, session, alive, gRun, faults>>

Fault == faults < MaxFaults /\ faults' = faults + 1
Goes(from, to) == pc = from /\ pc' = to

-----------------------------------------------------------------------------
(* The bus *)

Plug(p) ==
  /\ usb[p] = "nothing" /\ Fault
  /\ usb' = [usb EXCEPT ![p] = "boot"]
  /\ UNCHANGED <<image, owed, partial, memory, session, alive, gRun>>

\* A handle on the device is dead, also when the next one is at the same port.
Unplug(p) ==
  /\ usb[p] # "nothing" /\ Fault
  /\ usb' = [usb EXCEPT ![p] = "nothing"]
  /\ image' = [image EXCEPT ![p] = 0] /\ owed' = [owed EXCEPT ![p] = 0]
  /\ partial' = partial \ {p}
  /\ alive' = (alive /\ port # p)
  /\ UNCHANGED <<memory, session, gRun>>

StopService ==
  /\ gRun /\ gRun' = FALSE
  /\ UNCHANGED <<bus, memory, session, alive, faults>>

-----------------------------------------------------------------------------
(* FirmwareLoop *)

Present == {p \in Ports : usb[p] # "nothing"}

\* A port that has been empty for DisconnectPasses passes is forgotten.
Scan ==
  LET passes    == [p \in Ports |-> IF p \in Present \/ p \notin launchedKeys THEN 0
                                    ELSE absentPasses[p] + 1]
      forgotten == {p \in launchedKeys : passes[p] >= DisconnectPasses}
  IN /\ IF gRun
        THEN /\ Goes("scan", "open")
             /\ launchedKeys' = launchedKeys \ forgotten
             /\ absentPasses' = [p \in Ports |-> IF p \in forgotten THEN 0 ELSE passes[p]]
        ELSE Goes("scan", "ended") /\ UNCHANGED memory
     /\ UNCHANGED <<bus, port, sent, alive, gRun, faults>>

Candidates == {p \in Ports : usb[p] = "boot"} \ launchedKeys

\* Mutant: only the first boot loader is looked at, remembered or not.
OpenFirstOnly ==
  /\ pc = "open"
  /\ \E p \in Ports :
       /\ usb[p] = "boot" /\ \A q \in Ports : usb[q] = "boot" => p <= q
       /\ IF p \in launchedKeys THEN pc' = "scan" /\ UNCHANGED <<port, alive>>
          ELSE pc' = "probe" /\ port' = p /\ alive' = TRUE
  /\ sent' = 0
  /\ UNCHANGED <<bus, memory, gRun, faults>>

\* OpenBootAudioUsb: the first device that is not suppressed and can be opened.
Open ==
  /\ pc = "open"
  /\ \/ /\ Candidates = {} /\ pc' = "scan" /\ UNCHANGED <<port, alive, faults>>
     \/ \E p \in Candidates :
          /\ pc' = "probe" /\ port' = p /\ alive' = TRUE
          /\ IF \A q \in Candidates : p <= q THEN UNCHANGED faults ELSE Fault
     \/ Candidates # {} /\ Fault /\ pc' = "scan" /\ UNCHANGED <<port, alive>>
  /\ sent' = 0
  /\ UNCHANGED <<bus, memory, gRun>>

\* UploadUacFirmware returns an error: the port stays eligible, the session ends.
Close == port' = 0 /\ alive' = FALSE
Fail == pc' = "scan" /\ Close /\ UNCHANGED <<image, owed, sent>>

\* Every transfer may fail, and fails when the device is gone.
Broken == IF alive THEN Fault ELSE UNCHANGED faults

\* The reply that is read belongs to the last command: its tag is compared.
InStep == alive /\ owed[port] = 0

\* The probe: a command, a version reply and a status.  A status left by an
\* earlier session is found instead, once.
Probe ==
  /\ pc = "probe"
  /\ \/ InStep /\ pc' = "page" /\ UNCHANGED <<image, owed, port, alive, sent, faults>>
     \/ /\ alive /\ owed[port] > 0 /\ UNCHANGED faults
        /\ owed' = [owed EXCEPT ![port] = @ - 1]
        /\ pc' = "scan" /\ Close /\ UNCHANGED <<image, sent>>
     \/ Broken /\ Fail
  /\ UNCHANGED <<usb, partial, memory, gRun>>

\* Mutant: the status of a page is not looked at.
PageUnread ==
  /\ pc = "page" /\ sent < Pages /\ gRun
  /\ \/ /\ InStep
        /\ image' = [image EXCEPT ![port] = IF @ = sent THEN sent + 1 ELSE @]
        /\ sent' = sent + 1 /\ UNCHANGED <<pc, owed, port, alive, faults>>
     \/ Broken /\ sent' = sent + 1 /\ UNCHANGED <<pc, image, owed, port, alive>>
  /\ UNCHANGED <<usb, partial, memory, gRun>>

\* One page: the command, its chunks, and the status, which may come too late
\* for this session.
Page ==
  /\ pc = "page" /\ sent < Pages /\ gRun
  /\ \/ /\ InStep
        /\ image' = [image EXCEPT ![port] = IF @ = sent THEN sent + 1 ELSE @]
        /\ sent' = sent + 1 /\ UNCHANGED <<pc, owed, port, alive, faults>>
     \/ /\ InStep /\ Fault
        /\ owed' = [owed EXCEPT ![port] = 1]
        /\ pc' = "scan" /\ Close /\ UNCHANGED <<image, sent>>
     \/ Broken /\ Fail
  /\ UNCHANGED <<usb, partial, memory, gRun>>

\* The service stops: the rest of the image is not sent.
Cancelled ==
  /\ pc = "page" /\ ~gRun
  /\ Fail
  /\ UNCHANGED <<usb, partial, memory, gRun, faults>>

\* What the boot loader launches is the image it was given.
Taken ==
  /\ usb' = [usb EXCEPT ![port] = "uac"]
  /\ partial' = IF image[port] = Pages THEN partial ELSE partial \cup {port}
  /\ image' = [image EXCEPT ![port] = 0]
Ignored == UNCHANGED <<usb, partial, image>>

\* The launch: its status is a success, and so is an error that the code takes for
\* a device that goes away, also of a Kinect that stays in its boot loader.  A
\* launch whose status comes too late is none, whether it was taken or not.
Launch ==
  /\ pc = "page" /\ sent = Pages /\ gRun
  /\ \/ /\ InStep /\ pc' = "remember" /\ UNCHANGED <<owed, port, alive, sent>>
        /\ (Taken /\ UNCHANGED faults) \/ (Ignored /\ Fault)
     \/ /\ InStep /\ Fault /\ pc' = "scan" /\ Close /\ UNCHANGED sent
        /\ (Taken /\ UNCHANGED owed) \/ (Ignored /\ owed' = [owed EXCEPT ![port] = 1])
     \/ Broken /\ Fail /\ Ignored
  /\ UNCHANGED <<memory, gRun>>

\* launchedKeys, and the delay that follows; the Kinect may be gone again.
Remember ==
  /\ Goes("remember", "scan")
  /\ launchedKeys' = launchedKeys \cup {port}
  /\ absentPasses' = [absentPasses EXCEPT ![port] = 0]
  /\ Close
  /\ UNCHANGED <<bus, sent, gRun, faults>>

-----------------------------------------------------------------------------

Init ==
  /\ usb \in [Ports -> {"nothing", "boot"}]
  /\ image = [p \in Ports |-> 0] /\ owed = [p \in Ports |-> 0] /\ partial = {}
  /\ launchedKeys = {} /\ absentPasses = [p \in Ports |-> 0]
  /\ pc = "scan" /\ port = 0 /\ sent = 0 /\ alive = FALSE
  /\ gRun = TRUE /\ faults = 0

Loop == Scan \/ Open \/ Probe \/ Page \/ Cancelled \/ Launch \/ Remember

Next ==
  \/ \E p \in Ports : Plug(p) \/ Unplug(p)
  \/ StopService \/ Loop

\* The loop goes on; faults are bounded, so a transfer succeeds in the end.
Fairness == WF_vars(Loop)

-----------------------------------------------------------------------------

TypeOK ==
  /\ usb \in [Ports -> {"nothing", "boot", "uac"}]
  /\ image \in [Ports -> 0..Pages] /\ owed \in [Ports -> 0..1] /\ partial \subseteq Ports
  /\ launchedKeys \subseteq Ports /\ absentPasses \in [Ports -> 0..DisconnectPasses]
  /\ pc \in {"scan", "open", "probe", "page", "remember", "ended"}
  /\ port \in Ports \cup {0} /\ sent \in 0..Pages
  /\ {gRun, alive} \subseteq BOOLEAN /\ faults \in 0..MaxFaults

\* No Kinect runs a part of the image, whatever failed, was unplugged or
\* stopped, and whatever an earlier session left in the boot loader.
LaunchedWhole == partial = {}

\* A Kinect in its boot loader gets the firmware, unless its port is remembered:
\* for the Kinect that was there less than three seconds before, or for itself,
\* when its launch ended in an error that IsUsbDeviceGone takes for a departure.
\* And a port that stays empty is forgotten.
BootGetsFirmware ==
  \A p \in Ports :
    /\ (usb[p] = "boot") ~> (usb[p] # "boot" \/ ~gRun \/ p \in launchedKeys)
    /\ (usb[p] = "nothing") ~> (usb[p] # "nothing" \/ ~gRun \/ p \notin launchedKeys)

=============================================================================
