------------------------------ MODULE IsoStream ------------------------------
(***************************************************************************)
(* The isochronous transfers of the Linux USB layer (kinect_usb_camera.cpp *)
(* start_iso, stop_iso, handle_iso_callback): every stream keeps a fixed   *)
(* number of transfers with the kernel, each of which is submitted again   *)
(* by its completion callback.                                             *)
(*                                                                         *)
(* One thread at a time works on the camera (CameraHub's dev_mu_), and     *)
(* callbacks run only while it handles USB events: between two calls, or   *)
(* in the loop of stop_iso.  The kernel retires transfers at any time.     *)
(***************************************************************************)
EXTENDS Integers, FiniteSets

CONSTANTS
  Streams,     \* video_stream_ and depth_stream_
  N            \* kTransfers

VARIABLES
  kernel,      \* of each transfer: with the kernel, or retired with a status
  active,      \* IsoSlot::active
  count,       \* active_count of each stream
  started,     \* started: the slots exist
  stopping,    \* stopping
  dead,        \* device_dead_
  plugged,     \* the sensor is there
  job          \* what the thread is in, with which stream and slot

IsoConstants == N \in Nat \ {0} /\ Streams # {}

vars == <<kernel, active, count, started, stopping, dead, plugged, job>>

Slots == 1..N
Retired == {"completed", "cancelled", "gone"}
Idle == [op |-> "none", s |-> CHOOSE s \in Streams : TRUE, i |-> 1]
With(f, s, i, v) == [f EXCEPT ![s][i] = v]

\* start_iso: the slots are allocated.
Start(s) ==
  /\ job = Idle /\ ~started[s]
  /\ started' = [started EXCEPT ![s] = TRUE]
  /\ stopping' = [stopping EXCEPT ![s] = FALSE]
  /\ count' = [count EXCEPT ![s] = 0]
  /\ job' = [op |-> "submit", s |-> s, i |-> 1]
  /\ UNCHANGED <<kernel, active, dead, plugged>>

\* stop_iso begins.
BeginStop(s) ==
  /\ stopping' = [stopping EXCEPT ![s] = TRUE]
  /\ job' = [op |-> "cancel", s |-> s, i |-> 1]

\* start_iso: the next slot is submitted; an error stops the stream again.
Submit ==
  /\ job.op = "submit"
  /\ \/ /\ plugged
        /\ kernel' = With(kernel, job.s, job.i, "submitted")
        /\ active' = With(active, job.s, job.i, TRUE)
        /\ count' = [count EXCEPT ![job.s] = @ + 1]
        /\ job' = IF job.i = N THEN Idle ELSE [job EXCEPT !.i = @ + 1]
        /\ UNCHANGED stopping
     \/ BeginStop(job.s) /\ UNCHANGED <<kernel, active, count>>
  /\ UNCHANGED <<started, dead, plugged>>

\* stop_video, stop_depth, close
Stop(s) ==
  /\ job = Idle /\ started[s]
  /\ BeginStop(s)
  /\ UNCHANGED <<kernel, active, count, started, dead, plugged>>

\* stop_iso: the next active slot is cancelled.  A transfer that has retired
\* is not found, a device that is gone says so, any other error is fatal.
Cancel ==
  /\ job.op = "cancel"
  /\ job' = IF job.i = N THEN [job EXCEPT !.op = "pump"] ELSE [job EXCEPT !.i = @ + 1]
  /\ \/ /\ active[job.s][job.i] /\ kernel[job.s][job.i] = "submitted"
        /\ \/ kernel' = With(kernel, job.s, job.i, "cancelling") /\ UNCHANGED dead
           \/ ~plugged /\ UNCHANGED <<kernel, dead>>
           \/ dead' = TRUE /\ UNCHANGED kernel
     \/ /\ ~active[job.s][job.i] \/ kernel[job.s][job.i] # "submitted"
        /\ UNCHANGED <<kernel, dead>>
  /\ UNCHANGED <<active, count, started, stopping, plugged>>

\* stop_iso: no transfer is active any more, the slots are freed.
Free ==
  /\ job.op = "pump" /\ count[job.s] = 0
  /\ started' = [started EXCEPT ![job.s] = FALSE]
  /\ stopping' = [stopping EXCEPT ![job.s] = FALSE]
  /\ job' = Idle
  /\ UNCHANGED <<kernel, active, count, dead, plugged>>

Deactivate(s, i) ==
  IF active[s][i]
  THEN active' = With(active, s, i, FALSE) /\ count' = [count EXCEPT ![s] = @ - 1]
  ELSE UNCHANGED <<active, count>>

Fatal(s, i) ==
  kernel[s][i] = "gone" \/ (kernel[s][i] = "cancelled" /\ ~stopping[s])

\* Mutant: a transfer is submitted again although its stream is being stopped.
HandleResubmits(s, i) ==
  /\ job = Idle \/ job.op = "pump"
  /\ kernel[s][i] \in Retired
  /\ \/ /\ ~dead /\ ~Fatal(s, i) /\ plugged
        /\ kernel' = With(kernel, s, i, "submitted")
        /\ UNCHANGED <<active, count, dead>>
     \/ /\ kernel' = With(kernel, s, i, "no")
        /\ dead' = TRUE
        /\ Deactivate(s, i)
  /\ UNCHANGED <<started, stopping, plugged, job>>

\* handle_iso_callback: the transfer is submitted again, unless its stream is
\* being stopped or the device is lost; a failure to do so loses the device.
Handle(s, i) ==
  /\ job = Idle \/ job.op = "pump"
  /\ kernel[s][i] \in Retired
  /\ \/ /\ ~stopping[s] /\ ~dead /\ ~Fatal(s, i) /\ plugged
        /\ kernel' = With(kernel, s, i, "submitted")
        /\ UNCHANGED <<active, count, dead>>
     \/ /\ kernel' = With(kernel, s, i, "no")
        /\ dead' = (dead \/ Fatal(s, i) \/ ~stopping[s])
        /\ Deactivate(s, i)
  /\ UNCHANGED <<started, stopping, plugged, job>>

\* close and open: a lost device is opened again when all streams are stopped.
Reopen ==
  /\ job = Idle /\ dead
  /\ \A s \in Streams : ~started[s]
  /\ dead' = FALSE /\ plugged' = TRUE
  /\ UNCHANGED <<kernel, active, count, started, stopping, job>>

\* Environment: the kernel retires a transfer.
Retire(s, i) ==
  /\ kernel[s][i] \in {"submitted", "cancelling"}
  /\ \E status \in (IF plugged THEN {"completed", "cancelled"} ELSE {"cancelled", "gone"}) :
       kernel' = With(kernel, s, i, status)
  /\ UNCHANGED <<active, count, started, stopping, dead, plugged, job>>

\* Environment: the sensor is unplugged.
Unplug ==
  /\ plugged /\ plugged' = FALSE
  /\ UNCHANGED <<kernel, active, count, started, stopping, dead, job>>

-----------------------------------------------------------------------------

Init ==
  /\ kernel = [s \in Streams |-> [i \in Slots |-> "no"]]
  /\ active = [s \in Streams |-> [i \in Slots |-> FALSE]]
  /\ count = [s \in Streams |-> 0]
  /\ started = [s \in Streams |-> FALSE]
  /\ stopping = [s \in Streams |-> FALSE]
  /\ dead = FALSE /\ plugged = TRUE
  /\ job = Idle

Thread == Submit \/ Cancel \/ Free

Next ==
  \/ Thread \/ Reopen \/ Unplug
  \/ \E s \in Streams : Start(s) \/ Stop(s) \/ \E i \in Slots : Handle(s, i) \/ Retire(s, i)

Spec == Init /\ [][Next]_vars

\* The thread goes on, and stop_iso handles events until it is done; a
\* transfer retires, when its interval is over or the device is gone.
Fairness ==
  /\ WF_vars(Thread)
  /\ \A s \in Streams, i \in Slots : WF_vars(Handle(s, i)) /\ WF_vars(Retire(s, i))

-----------------------------------------------------------------------------
(* Properties *)

Pending(s) == {i \in Slots : kernel[s][i] # "no"}

TypeOK ==
  /\ kernel \in [Streams -> [Slots -> {"no", "submitted", "cancelling"} \cup Retired]]
  /\ active \in [Streams -> [Slots -> BOOLEAN]]
  /\ count \in [Streams -> 0..N]
  /\ started \in [Streams -> BOOLEAN] /\ stopping \in [Streams -> BOOLEAN]
  /\ dead \in BOOLEAN /\ plugged \in BOOLEAN
  /\ job \in [op : {"none", "submit", "cancel", "pump"}, s : Streams, i : Slots]

\* kinect_usb_camera.cpp:624-635: no transfer the kernel or a callback still
\* needs is freed, and active_count is the number of those, so that the loop of
\* stop_iso neither ends early nor waits for nothing.
CountIsPending ==
  \A s \in Streams :
    /\ count[s] = Cardinality(Pending(s))
    /\ ~started[s] => Pending(s) = {}

\* kinect_usb_camera.cpp:563-566: slots are never lost silently; a stream that
\* runs with fewer transfers runs on a device that is going to be reopened.
NoSlotLostSilently ==
  \A s \in Streams :
    started[s] /\ ~stopping[s] /\ ~(job.op = "submit" /\ job.s = s) =>
      dead \/ Pending(s) = Slots

\* stop_iso returns, whatever happens to the device meanwhile.
StopEnds == job.op \in {"cancel", "pump"} ~> job.op = "none"

=============================================================================
