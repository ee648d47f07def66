---------------------------- MODULE AudioFirmware ----------------------------
(***************************************************************************)
(* The firmware thread of the audio bridge (audio_bridge.cpp): it uploads  *)
(* the UAC firmware to every Kinect whose audio function is in its boot    *)
(* state, once per connection, while Kinects come and go and the service   *)
(* is told to stop.                                                        *)
(***************************************************************************)
EXTENDS Integers

CONSTANTS
  Kinects,
  Pages,             \* pages of the image
  DisconnectPasses,  \* passes without a Kinect that count as a disconnect
  MaxFaults,         \* bound on hardware events and failing transfers
  Nobody

VARIABLES
  usb,       \* [Kinects -> {"absent", "boot", "runtime"}]
  broken,    \* Kinects that were launched with a part of the image
  misbooked, \* Kinects still in boot whose launch a bus error booked (history)
  handles,   \* open boot sessions whose device is still the one opened
  launched, absent_passes,  \* of firmware_loop
  loader,    \* [pc, todo, cur, offset]: where firmware_loop is
  serving,   \* the flag run
  faults     \* events and failures so far

hardware == <<usb, broken, misbooked, handles>>
vars == <<hardware, launched, absent_passes, loader, serving, faults>>

TypeOK ==
  /\ usb \in [Kinects -> {"absent", "boot", "runtime"}]
  /\ broken \subseteq Kinects /\ misbooked \subseteq Kinects
  /\ handles \subseteq Kinects /\ launched \subseteq Kinects
  /\ absent_passes \in [Kinects -> 0..DisconnectPasses]
  /\ loader \in [pc : {"scan", "open", "next", "probe", "page", "launch", "reply",
                       "rest", "done"},
                 todo : SUBSET Kinects, cur : Kinects \cup {Nobody}, offset : 0..Pages]
  /\ serving \in BOOLEAN /\ faults \in 0..MaxFaults

Idle == [pc |-> "scan", todo |-> {}, cur |-> Nobody, offset |-> 0]

Init ==
  /\ usb \in [Kinects -> {"absent", "boot", "runtime"}]
  /\ broken = {} /\ misbooked = {} /\ handles = {}
  /\ launched = {} /\ absent_passes = [k \in Kinects |-> 0]
  /\ loader = Idle /\ serving = TRUE /\ faults = 0

Fault == faults < MaxFaults /\ faults' = faults + 1

-----------------------------------------------------------------------------
\* The hardware and the signal.  A Kinect that is plugged in starts in its
\* boot state; its camera is there as long as it is.

Plug(k) ==
  /\ usb[k] = "absent" /\ Fault
  /\ usb' = [usb EXCEPT ![k] = "boot"]
  /\ UNCHANGED <<broken, misbooked, handles, launched, absent_passes, loader, serving>>

Unplug(k) ==
  /\ usb[k] # "absent" /\ Fault
  /\ usb' = [usb EXCEPT ![k] = "absent"]
  /\ handles' = handles \ {k} /\ broken' = broken \ {k} /\ misbooked' = misbooked \ {k}
  /\ UNCHANGED <<launched, absent_passes, loader, serving>>

Stop ==
  /\ serving /\ serving' = FALSE
  /\ UNCHANGED <<hardware, launched, absent_passes, loader, faults>>

-----------------------------------------------------------------------------
\* firmware_loop.  One pass is scan, open, the uploads, rest.

physical == {k \in Kinects : usb[k] # "absent"}

\* A launched Kinect is forgotten after DisconnectPasses passes in a row
\* without any of its functions.
Scan ==
  LET passes == [k \in Kinects |->
        IF k \in physical \/ k \notin launched THEN 0 ELSE absent_passes[k] + 1]
      forgotten == {k \in launched : passes[k] >= DisconnectPasses}
  IN  /\ loader.pc = "scan"
      /\ IF serving
         THEN /\ launched' = launched \ forgotten
              /\ absent_passes' = [k \in Kinects |-> IF k \in forgotten THEN 0 ELSE passes[k]]
              /\ loader' = [loader EXCEPT !.pc = "open"]
         ELSE loader' = [Idle EXCEPT !.pc = "done"] /\ UNCHANGED <<launched, absent_passes>>
      /\ UNCHANGED <<hardware, serving, faults>>

\* open_boot_devices opens every device it can.
OpenBoot ==
  /\ loader.pc = "open"
  /\ LET boot == {k \in Kinects : usb[k] = "boot"}
     IN \E opened \in SUBSET boot :
          /\ IF opened = boot THEN UNCHANGED faults ELSE Fault
          /\ handles' = opened
          /\ loader' = [loader EXCEPT !.pc = "next", !.todo = opened]
  /\ UNCHANGED <<usb, broken, misbooked, launched, absent_passes, serving>>

\* The loop over the opened devices; its sessions are closed at the end.
NextBoot ==
  /\ loader.pc = "next" /\ serving
  /\ \E k \in loader.todo :
       loader' = [pc |-> IF k \in launched THEN "next" ELSE "probe",
                  todo |-> loader.todo \ {k}, cur |-> k, offset |-> 0]
  /\ UNCHANGED <<hardware, launched, absent_passes, serving, faults>>

EndPass ==
  /\ loader.pc = "next" /\ (loader.todo = {} \/ ~serving)
  /\ loader' = [Idle EXCEPT !.pc = "rest"] /\ handles' = {}
  /\ UNCHANGED <<usb, broken, misbooked, launched, absent_passes, serving, faults>>

\* The delay at the end of a pass.
Rest ==
  /\ loader.pc = "rest" /\ loader' = Idle
  /\ UNCHANGED <<hardware, launched, absent_passes, serving, faults>>

-----------------------------------------------------------------------------
\* upload_firmware for loader.cur.  Every transfer may fail, and fails when the
\* device is gone; the upload returns false at once and the device stays
\* eligible.

cur == loader.cur
To(pc) == loader' = [loader EXCEPT !.pc = pc]

\* Mutant: a failed page ends the page loop but not the upload.
TransferFailsOn ==
  /\ loader.pc \in {"probe", "page", "launch"}
  /\ IF cur \in handles THEN Fault ELSE UNCHANGED faults
  /\ IF loader.pc = "page" THEN To("launch") ELSE To("next")
  /\ UNCHANGED <<hardware, launched, absent_passes, serving>>

TransferFails ==
  /\ loader.pc \in {"probe", "page", "launch"}
  /\ IF cur \in handles THEN Fault ELSE UNCHANGED faults
  /\ To("next")
  /\ UNCHANGED <<hardware, launched, absent_passes, serving>>

Probe ==
  /\ loader.pc = "probe" /\ cur \in handles /\ To("page")
  /\ UNCHANGED <<hardware, launched, absent_passes, serving, faults>>

MorePages == loader.offset < Pages /\ serving

\* A page, its chunks and its status.
Page ==
  /\ loader.pc = "page" /\ MorePages /\ cur \in handles
  /\ loader' = [loader EXCEPT !.offset = loader.offset + 1]
  /\ UNCHANGED <<hardware, launched, absent_passes, serving, faults>>

PagesEnd ==
  /\ loader.pc = "page" /\ ~MorePages /\ To("launch")
  /\ UNCHANGED <<hardware, launched, absent_passes, serving, faults>>

\* The launch command: the device leaves its boot state for the runtime.
Launch ==
  /\ loader.pc = "launch" /\ cur \in handles /\ To("reply")
  /\ usb' = [usb EXCEPT ![cur] = "runtime"]
  /\ broken' = IF loader.offset < Pages THEN broken \cup {cur} ELSE broken
  /\ UNCHANGED <<misbooked, handles, launched, absent_passes, serving, faults>>

\* The device ignores it.
LaunchIgnored ==
  /\ loader.pc = "launch" /\ cur \in handles /\ Fault /\ To("reply")
  /\ UNCHANGED <<hardware, launched, absent_passes, serving>>

\* What ends the read of the final status: its answer, a timeout, no device, or
\* an error of the bus, which may also meet a device that is still in boot.
Replies ==
  IF cur \notin handles THEN {"no device", "bus error"}
  ELSE IF usb[cur] = "runtime" THEN {"no device", "bus error", "status", "timeout"}
  ELSE {"timeout", "bus error"}

\* Mutant: a timeout counts as a disconnect.
is_launch_disconnect_or_timeout(reply) == reply \in {"no device", "bus error", "timeout"}
is_launch_disconnect(reply) == reply \in {"no device", "bus error"}

InBoot(k) == k \in handles /\ usb[k] = "boot"

\* One success or failure of the upload, as firmware_loop books it.
Reply ==
  /\ loader.pc = "reply"
  /\ \E r \in Replies :
       /\ IF r = "bus error" /\ InBoot(cur) THEN Fault ELSE UNCHANGED faults
       /\ misbooked' = IF r = "bus error" /\ InBoot(cur) THEN misbooked \cup {cur} ELSE misbooked
       /\ IF r = "status" \/ is_launch_disconnect(r)
          THEN /\ launched' = launched \cup {cur}
               /\ absent_passes' = [absent_passes EXCEPT ![cur] = 0]
          ELSE UNCHANGED <<launched, absent_passes>>
  /\ To("next")
  /\ UNCHANGED <<usb, broken, handles, serving>>

-----------------------------------------------------------------------------
Upload == TransferFails \/ Probe \/ Page \/ PagesEnd \/ Launch \/ LaunchIgnored \/ Reply
Loop == Scan \/ OpenBoot \/ NextBoot \/ EndPass \/ Rest

Next == Stop \/ Upload \/ Loop \/ \E k \in Kinects : Plug(k) \/ Unplug(k)

\* The thread goes on; every transfer has a timeout.
Fairness == WF_vars(Upload \/ Loop)

Spec == Init /\ [][Next]_vars /\ Fairness

-----------------------------------------------------------------------------
\* A Kinect is launched with a part of the image only by a service that is
\* stopping: then the page loop ends early and the launch command is sent all
\* the same.  A failed page never leads to a launch (audio_bridge.cpp:894-912).
LaunchedWhole == serving => broken = {}

\* A Kinect in its boot state that was not launched since it was connected
\* gets its firmware in the end, unless it is unplugged or the service stops:
\* a launch that was ignored and not answered is tried again.  The exceptions
\* are a Kinect that is connected again before its launch is booked, and one
\* that ignored the launch and met a bus error in the read of the final status:
\* both count as launched (audio_bridge.cpp:853-868, 912-927, 997-1052).
BootGetsFirmware ==
  \A k \in Kinects :
    usb[k] = "boot" /\ k \notin launched /\ ~(loader.pc = "reply" /\ cur = k)
      ~> usb[k] # "boot" \/ k \in misbooked \/ ~serving
=============================================================================
