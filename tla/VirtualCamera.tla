---------------------------- MODULE VirtualCamera ----------------------------
(***************************************************************************)
(* One worker of the V4L2 bridge (VirtualCameraWorker::loop): it writes    *)
(* the RGB stream of a Kinect to a loopback device while somebody reads    *)
(* that device, in the mode the driver setting selects.                    *)
(***************************************************************************)
EXTENDS Integers

CONSTANT MaxEvents  \* bound on events around the worker and on refusals and errors

VARIABLES
  reader,   \* a V4L2 client has the loopback device open
  event,    \* a client-usage event is waiting in the worker's queue
  format,   \* of the loopback device
  setting,  \* the RGB mode of the driver setting
  online,   \* the camera service answers for this Kinect
  changes,
  pc,             \* of the worker
  sensor_hq,      \* the mode it believes to be set; it subscribes in this mode
  output_hq,      \* the mode it opened the device in
  active,         \* the last client state it has dequeued
  scanner,        \* its subscription: "none", "live" or "dead"
  consumer_active_  \* whether tilt and framing run

world == <<reader, event, format, setting, online, changes>>
vars == <<world, pc, sensor_hq, output_hq, active, scanner, consumer_active_>>

Modes == {"RGB", "HQ"}

TypeOK ==
  /\ reader \in BOOLEAN /\ event \in BOOLEAN
  /\ format \in Modes \cup {"none"} /\ setting \in Modes
  /\ online \in BOOLEAN /\ changes \in 0..MaxEvents
  /\ pc \in {"query", "open", "top", "settings", "poll", "frame", "close"}
  /\ sensor_hq \in Modes /\ output_hq \in Modes /\ active \in BOOLEAN
  /\ scanner \in {"none", "live", "dead"} /\ consumer_active_ \in BOOLEAN

Init ==
  /\ reader = FALSE /\ event = FALSE /\ format = "none"
  /\ setting \in Modes /\ online \in BOOLEAN /\ changes = 0
  /\ pc = "query" /\ sensor_hq = "RGB" /\ output_hq = "RGB" /\ active = FALSE
  /\ scanner = "none" /\ consumer_active_ = FALSE

-----------------------------------------------------------------------------
\* Around the worker.

Changed == changes < MaxEvents /\ changes' = changes + 1

\* A client opens or closes the loopback device, which is told to a worker that
\* has it open.
ReaderChanges ==
  /\ Changed /\ format # "none" /\ reader' = ~reader /\ event' = TRUE
  /\ UNCHANGED <<format, setting, online, pc, sensor_hq, output_hq, active, scanner,
                 consumer_active_>>

SettingChanges ==
  /\ Changed /\ setting' \in Modes \ {setting}
  /\ UNCHANGED <<reader, event, format, online, pc, sensor_hq, output_hq, active, scanner,
                 consumer_active_>>

\* The Kinect or its service goes and comes back; the service also ends
\* subscriptions on its own.
ServiceChanges ==
  /\ Changed /\ online' \in BOOLEAN /\ scanner' = IF scanner = "live" THEN "dead" ELSE scanner
  /\ UNCHANGED <<reader, event, format, setting, pc, sensor_hq, output_hq, active,
                 consumer_active_>>

-----------------------------------------------------------------------------
\* The worker: one action per part of its loops.

Query ==
  /\ pc = "query"
  /\ IF online
     THEN /\ sensor_hq' = setting /\ output_hq' = setting /\ pc' = "open"
     ELSE UNCHANGED <<sensor_hq, output_hq, pc>>
  /\ UNCHANGED <<world, active, scanner, consumer_active_>>

\* open_v4l2 and subscribe_client_events, which delivers the present state as the
\* first event.  The driver refuses another format while a client has the device.
Open ==
  /\ pc = "open"
  /\ IF reader /\ format # output_hq
     THEN pc' = "query" /\ UNCHANGED <<format, event, active>>
     ELSE pc' = "top" /\ format' = output_hq /\ event' = TRUE /\ active' = FALSE
  /\ UNCHANGED <<reader, setting, online, changes, sensor_hq, output_hq, scanner,
                 consumer_active_>>

\* The head of the inner loop: leave it to change the format, or take or give
\* back the RGB stream.  A subscription may be refused.
MustReformat == ~active /\ sensor_hq # output_hq

Top ==
  /\ pc = "top" /\ consumer_active_' = active
  /\ IF MustReformat THEN pc' = "close" /\ UNCHANGED <<scanner, changes>>
     ELSE /\ pc' = "settings"
          /\ \/ active /\ scanner = "none" /\ online /\ scanner' = "live" /\ UNCHANGED changes
             \/ active /\ scanner = "none" /\ online /\ UNCHANGED scanner /\ Changed
             \/ ~(active /\ scanner = "none" /\ online) /\ UNCHANGED changes
                  /\ scanner' = IF active THEN scanner ELSE "none"
  /\ UNCHANGED <<reader, event, format, setting, online, sensor_hq, output_hq, active>>

\* The setting is read every 750 ms; a change drops the subscription.  Reading it
\* in each round stands for that: one that is noticed rounds later is one that
\* was made rounds later.
Settings ==
  /\ pc = "settings"
  /\ IF online /\ setting # sensor_hq
     THEN sensor_hq' = setting /\ scanner' = "none" /\ pc' = "top"
     ELSE pc' = "poll" /\ UNCHANGED <<sensor_hq, scanner>>
  /\ UNCHANGED <<world, output_hq, active, consumer_active_>>

\* poll, and what it reports: all waiting events first, then the end of the
\* subscription or a frame, which a live one has sooner or later.
\* Mutant: an event only ever activates.
DequeuedOnce == IF event /\ ~active THEN reader ELSE active
Dequeued == IF event THEN reader ELSE active

Poll ==
  /\ pc = "poll" /\ active' = Dequeued /\ event' = FALSE
  /\ scanner' = IF scanner = "dead" THEN "none" ELSE scanner
  /\ pc' = IF scanner = "live" THEN "frame" ELSE "top"
  /\ UNCHANGED <<reader, format, setting, online, changes, sensor_hq, output_hq,
                 consumer_active_>>

\* read_exact and publish, which converts the frame to the format of the output.
Frame ==
  /\ pc = "frame" /\ pc' = "top"
  /\ scanner' = IF scanner = "dead" THEN "none" ELSE scanner
  /\ UNCHANGED <<world, sensor_hq, output_hq, active, consumer_active_>>

\* The write to the loopback device fails.
WriteFails ==
  /\ pc = "frame" /\ Changed /\ pc' = "close"
  /\ UNCHANGED <<reader, event, format, setting, online, sensor_hq, output_hq, active, scanner,
                 consumer_active_>>

Close ==
  /\ pc = "close" /\ pc' = "query" /\ scanner' = "none" /\ consumer_active_' = FALSE
  /\ event' = FALSE
  /\ UNCHANGED <<reader, format, setting, online, changes, sensor_hq, output_hq, active>>

-----------------------------------------------------------------------------
World == ReaderChanges \/ SettingChanges \/ ServiceChanges
Worker ==
  Query \/ Open \/ Top \/ Settings \/ Poll \/ Frame \/ WriteFails \/ Close

Next == World \/ Worker

\* The worker's thread goes on.
Fairness == WF_vars(Worker)

Spec == Init /\ [][Next]_vars /\ Fairness

-----------------------------------------------------------------------------
\* While the service answers, a client that stays gets frames again and again,
\* whatever came in between; only one that holds the device in a format that is
\* not the setting's may be left without.  When no client is there, the stream
\* is given back and the device takes the format of the setting
\* (v4l2_bridge.cpp:422-551; README.md:63-65).
FollowsItsClients ==
  /\ <>[](reader /\ online) => []<>(pc = "frame" /\ scanner = "live") \/ <>[](format # setting)
  /\ <>[](~reader) => <>[](scanner = "none" /\ ~consumer_active_)
  /\ <>[](~reader /\ online) => <>[](format = setting)
=============================================================================
