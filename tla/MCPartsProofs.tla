---------------------------- MODULE MCPartsProofs ----------------------------
(***************************************************************************)
(* What the parts guarantee for every value of the constants.  A step of   *)
(* MCParts is a step of one part and leaves the variables of the others    *)
(* alone, so an invariant of a part is one of the composition.  First come *)
(* the invariants of six parts, then those of three parts that have their  *)
(* proofs in modules of their own, and at the end the parts together.      *)
(***************************************************************************)
EXTENDS MCParts, Sequences, FiniteSetTheorems, SequenceTheorems, TLAPS

-----------------------------------------------------------------------------
(* The firmware of the audio bridge *)

\* The pages are counted for the Kinect the loader works on, and a service that
\* is not stopping leaves the page loop only at its end.
FirmwareInv ==
  /\ Firmware!TypeOK /\ Firmware!LaunchedWhole
  /\ loader.pc \in {"probe", "page", "launch", "reply"} => loader.cur \in Kinects
  /\ loader.pc = "launch" /\ serving => loader.offset = Pages

\* The type of the loader, as its fields.
LEMMA LoaderFields ==
  ASSUME FirmwareInv
  PROVE  /\ loader \in [pc : {"scan", "open", "next", "probe", "page", "launch", "reply",
                              "rest", "done"},
                        todo : SUBSET Kinects, cur : Kinects \cup {Nobody}, offset : 0..Pages]
         /\ Pages \in Nat \ {0} /\ DisconnectPasses \in Nat \ {0} /\ MaxFaults \in Nat
         /\ faults \in 0..MaxFaults /\ serving \in BOOLEAN
BY FirmwareAssumption, BoundsAssumption DEF FirmwareInv, Firmware!TypeOK

\* A failure is counted within its bound.
LEMMA FaultIsCounted ==
  ASSUME FirmwareInv, Firmware!Fault \/ UNCHANGED faults
  PROVE  faults' \in 0..MaxFaults
BY LoaderFields DEF Firmware!Fault

\* What is around the thread: cables and the signal.
LEMMA FirmwareAround ==
  ASSUME FirmwareInv,
         Firmware!Stop \/ \E k \in Kinects : Firmware!Plug(k) \/ Firmware!Unplug(k)
  PROVE  FirmwareInv'
<1>1. faults' \in 0..MaxFaults
  BY FaultIsCounted DEF Firmware!Stop, Firmware!Plug, Firmware!Unplug
<1>2. UNCHANGED <<launched, absent_passes, loader>> /\ (UNCHANGED serving \/ serving' = FALSE)
  BY DEF Firmware!Stop, Firmware!Plug, Firmware!Unplug
<1>3. /\ usb' \in [Kinects -> {"absent", "boot", "runtime"}]
      /\ broken' \subseteq broken /\ misbooked' \subseteq misbooked /\ handles' \subseteq handles
  <2>1. CASE Firmware!Stop
    BY <2>1 DEF Firmware!Stop, Firmware!hardware, FirmwareInv, Firmware!TypeOK
  <2>2. ASSUME NEW k \in Kinects, Firmware!Plug(k) \/ Firmware!Unplug(k)
        PROVE  /\ usb' \in [Kinects -> {"absent", "boot", "runtime"}]
               /\ broken' \subseteq broken /\ misbooked' \subseteq misbooked
               /\ handles' \subseteq handles
    <3>1. usb \in [Kinects -> {"absent", "boot", "runtime"}]
      BY DEF FirmwareInv, Firmware!TypeOK
    <3> QED BY <2>2, <3>1 DEF Firmware!Plug, Firmware!Unplug
  <2> QED BY <2>1, <2>2
<1>4. serving' \in BOOLEAN
  BY <1>2, LoaderFields
<1>5. serving' => broken' = {}
  BY <1>2, <1>3 DEF FirmwareInv, Firmware!LaunchedWhole
<1> QED BY <1>1, <1>2, <1>3, <1>4, <1>5 DEF FirmwareInv, Firmware!TypeOK, Firmware!LaunchedWhole

\* A pass of firmware_loop, but for the uploads.
LEMMA FirmwareLoop ==
  ASSUME FirmwareInv, Firmware!Loop
  PROVE  FirmwareInv'
<1> DEFINE T == [pc : {"scan", "open", "next", "probe", "page", "launch", "reply",
                       "rest", "done"},
                 todo : SUBSET Kinects, cur : Kinects \cup {Nobody}, offset : 0..Pages]
<1>1. faults' \in 0..MaxFaults
  BY FaultIsCounted DEF Firmware!Loop, Firmware!Scan, Firmware!OpenBoot, Firmware!NextBoot,
     Firmware!EndPass, Firmware!Rest
<1>2. UNCHANGED <<usb, broken, misbooked, serving>>
  BY DEF Firmware!Loop, Firmware!Scan, Firmware!OpenBoot, Firmware!NextBoot,
     Firmware!EndPass, Firmware!Rest, Firmware!hardware
<1>3. handles' \subseteq Kinects
  BY DEF Firmware!Loop, Firmware!Scan, Firmware!OpenBoot, Firmware!NextBoot,
     Firmware!EndPass, Firmware!Rest, Firmware!hardware, FirmwareInv, Firmware!TypeOK
<1>4. launched' \subseteq Kinects /\ absent_passes' \in [Kinects -> 0..DisconnectPasses]
  <2>1. CASE Firmware!Scan
    <3>1. ASSUME NEW k \in Kinects,
                 NEW p, p = IF k \in Firmware!physical \/ k \notin launched
                            THEN 0 ELSE absent_passes[k] + 1
          PROVE  (IF k \in launched /\ p >= DisconnectPasses THEN 0 ELSE p) \in 0..DisconnectPasses
      <4>1. absent_passes[k] \in 0..DisconnectPasses /\ DisconnectPasses \in Nat \ {0}
        BY LoaderFields DEF FirmwareInv, Firmware!TypeOK
      <4> QED BY <3>1, <4>1
    <3> DEFINE passes == [k \in Kinects |->
                 IF k \in Firmware!physical \/ k \notin launched THEN 0 ELSE absent_passes[k] + 1]
               forgotten == {k \in launched : passes[k] >= DisconnectPasses}
    <3>2. \A k \in Kinects : (IF k \in forgotten THEN 0 ELSE passes[k]) \in 0..DisconnectPasses
      BY <3>1
    <3>3. [k \in Kinects |-> IF k \in forgotten THEN 0 ELSE passes[k]]
            \in [Kinects -> 0..DisconnectPasses]
      BY <3>2
    <3> HIDE DEF passes
    <3>4. \/ launched' = launched \ forgotten
             /\ absent_passes' = [k \in Kinects |-> IF k \in forgotten THEN 0 ELSE passes[k]]
          \/ UNCHANGED <<launched, absent_passes>>
      BY <2>1 DEF Firmware!Scan, passes
    <3> QED BY <3>3, <3>4 DEF FirmwareInv, Firmware!TypeOK
  <2>2. CASE Firmware!OpenBoot \/ Firmware!NextBoot \/ Firmware!EndPass \/ Firmware!Rest
    BY <2>2 DEF Firmware!OpenBoot, Firmware!NextBoot, Firmware!EndPass, Firmware!Rest,
       FirmwareInv, Firmware!TypeOK
  <2> QED BY <2>1, <2>2 DEF Firmware!Loop
<1>5. /\ loader' \in T
      /\ loader'.pc \in {"probe", "page", "launch", "reply"} => loader'.cur \in Kinects
      /\ loader'.pc # "launch"
  <2>1. CASE Firmware!Scan
    BY <2>1, LoaderFields DEF Firmware!Scan, Firmware!Idle
  <2>2. CASE Firmware!OpenBoot
    BY <2>2, LoaderFields DEF Firmware!OpenBoot
  <2>3. CASE Firmware!NextBoot
    BY <2>3, LoaderFields DEF Firmware!NextBoot
  <2>4. CASE Firmware!EndPass \/ Firmware!Rest
    BY <2>4, LoaderFields DEF Firmware!EndPass, Firmware!Rest, Firmware!Idle
  <2> QED BY <2>1, <2>2, <2>3, <2>4 DEF Firmware!Loop
<1> QED BY <1>1, <1>2, <1>3, <1>4, <1>5 DEF FirmwareInv, Firmware!TypeOK, Firmware!LaunchedWhole

\* The steps of upload_firmware.
LEMMA FirmwareUpload ==
  ASSUME FirmwareInv, Firmware!Upload
  PROVE  FirmwareInv'
<1> DEFINE T == [pc : {"scan", "open", "next", "probe", "page", "launch", "reply",
                       "rest", "done"},
                 todo : SUBSET Kinects, cur : Kinects \cup {Nobody}, offset : 0..Pages]
<1>1. faults' \in 0..MaxFaults
  BY FaultIsCounted DEF Firmware!Upload, Firmware!TransferFails, Firmware!Probe, Firmware!Page,
     Firmware!PagesEnd, Firmware!Launch, Firmware!LaunchIgnored, Firmware!Reply
<1>2. UNCHANGED <<handles, serving>> /\ loader.cur \in Kinects
  BY LoaderFields DEF Firmware!Upload, Firmware!TransferFails, Firmware!Probe, Firmware!Page,
     Firmware!PagesEnd, Firmware!Launch, Firmware!LaunchIgnored, Firmware!Reply,
     Firmware!hardware, FirmwareInv
<1>3. /\ usb' \in [Kinects -> {"absent", "boot", "runtime"}]
      /\ broken' \subseteq Kinects /\ (serving => broken' = {})
      /\ misbooked' \subseteq Kinects
  <2>1. CASE Firmware!Launch
    BY <2>1, <1>2, LoaderFields DEF Firmware!Launch, FirmwareInv, Firmware!TypeOK, Firmware!cur,
       Firmware!LaunchedWhole
  <2>2. CASE Firmware!Reply
    <3>1. /\ UNCHANGED <<usb, broken>>
          /\ misbooked' = misbooked \/ misbooked' = misbooked \cup {loader.cur}
      BY <2>2 DEF Firmware!Reply, Firmware!cur
    <3> QED BY <3>1, <1>2 DEF FirmwareInv, Firmware!TypeOK, Firmware!LaunchedWhole
  <2>3. CASE ~Firmware!Launch /\ ~Firmware!Reply
    BY <2>3 DEF Firmware!Upload, Firmware!TransferFails, Firmware!Probe, Firmware!Page,
       Firmware!PagesEnd, Firmware!LaunchIgnored, Firmware!hardware,
       FirmwareInv, Firmware!TypeOK, Firmware!LaunchedWhole
  <2> QED BY <2>1, <2>2, <2>3
<1>4. launched' \subseteq Kinects /\ absent_passes' \in [Kinects -> 0..DisconnectPasses]
  <2>1. CASE Firmware!Reply
    <3>1. \/ launched' = launched \cup {loader.cur}
             /\ absent_passes' = [absent_passes EXCEPT ![loader.cur] = 0]
          \/ UNCHANGED <<launched, absent_passes>>
      BY <2>1 DEF Firmware!Reply, Firmware!cur
    <3> QED BY <3>1, <1>2, LoaderFields DEF FirmwareInv, Firmware!TypeOK
  <2>2. CASE ~Firmware!Reply
    BY <2>2 DEF Firmware!Upload, Firmware!TransferFails, Firmware!Probe, Firmware!Page,
       Firmware!PagesEnd, Firmware!Launch, Firmware!LaunchIgnored, FirmwareInv, Firmware!TypeOK
  <2> QED BY <2>1, <2>2
<1>5. /\ loader' \in T /\ loader'.cur = loader.cur
      /\ loader'.pc = "launch" /\ serving => loader'.offset = Pages
  <2>1. CASE Firmware!TransferFails
    BY <2>1, LoaderFields DEF Firmware!TransferFails, Firmware!To
  <2>2. CASE Firmware!Probe
    BY <2>2, LoaderFields DEF Firmware!Probe, Firmware!To
  <2>3. CASE Firmware!Page
    BY <2>3, LoaderFields DEF Firmware!Page, Firmware!MorePages
  <2>4. CASE Firmware!PagesEnd
    BY <2>4, LoaderFields DEF Firmware!PagesEnd, Firmware!To, Firmware!MorePages
  <2>5. CASE Firmware!Launch \/ Firmware!LaunchIgnored \/ Firmware!Reply
    BY <2>5, LoaderFields DEF Firmware!Launch, Firmware!LaunchIgnored, Firmware!Reply, Firmware!To
  <2> QED BY <2>1, <2>2, <2>3, <2>4, <2>5 DEF Firmware!Upload
<1> QED BY <1>1, <1>2, <1>3, <1>4, <1>5 DEF FirmwareInv, Firmware!TypeOK, Firmware!LaunchedWhole

\* The firmware thread at its start.
LEMMA FirmwareInitial ==
  ASSUME Firmware!Init
  PROVE  FirmwareInv
BY FirmwareAssumption, BoundsAssumption
   DEF FirmwareInv, Firmware!Init, Firmware!TypeOK, Firmware!LaunchedWhole, Firmware!Idle

\* Nothing breaks the invariant of the firmware thread.
LEMMA FirmwareStep ==
  ASSUME FirmwareInv, Firmware!Next \/ UNCHANGED firmwareVars
  PROVE  FirmwareInv'
<1>1. CASE UNCHANGED firmwareVars
  BY <1>1 DEF firmwareVars, FirmwareInv, Firmware!TypeOK, Firmware!LaunchedWhole
<1> QED BY <1>1, FirmwareAround, FirmwareLoop, FirmwareUpload DEF Firmware!Next

-----------------------------------------------------------------------------
(* The IP camera *)

IpInv == Ip!TypeOK /\ Ip!CountsAreRight

\* The threads that open_clients and authenticated_clients stand for.
Connected == {v \in Viewers : viewer[v] \notin {"away", "leaving"}}
Watching == {v \in Viewers : viewer[v] \in {"counted", "stream", "answer", "done"}}
ViewerStates == {"away", "request", "counted", "stream", "answer", "done",
                 "uncounted", "closing", "leaving"}

\* What a part counts is what the theorems on finite sets are about.
LEMMA IpCardinality ==
  ASSUME NEW S
  PROVE  Ip!Cardinality(S) = Cardinality(S)
BY DEF Ip!Cardinality, Cardinality

\* Both are finite, and who watches is connected.
LEMMA ViewerSets ==
  ASSUME IpInv
  PROVE  /\ IsFiniteSet(Connected) /\ IsFiniteSet(Watching)
         /\ open = Cardinality(Connected) /\ auth = Cardinality(Watching)
         /\ auth <= open /\ open \in 0..MaxClients /\ auth \in 0..MaxClients
         /\ viewer \in [Viewers -> ViewerStates]
         /\ MaxClients \in Nat
<1>1. IsFiniteSet(Connected) /\ IsFiniteSet(Watching)
  BY IpAssumption, FS_Subset DEF Connected, Watching
<1>2. Watching \subseteq Connected
  BY DEF Connected, Watching
<1>3. Cardinality(Watching) <= Cardinality(Connected)
  BY <1>1, <1>2, FS_Subset
<1>4. open = Cardinality(Connected) /\ auth = Cardinality(Watching)
  BY IpCardinality DEF IpInv, Ip!CountsAreRight, Connected, Watching
<1> QED BY <1>1, <1>3, <1>4, IpAssumption DEF IpInv, Ip!TypeOK, ViewerStates

\* A thread that goes on changes the two counts as it enters or leaves the sets.
LEMMA OneViewer ==
  ASSUME IpInv, NEW v \in Viewers, NEW to \in ViewerStates,
         viewer' = [viewer EXCEPT ![v] = to],
         open' = (open + (IF to \in {"away", "leaving"} THEN 0 ELSE 1))
                       - (IF v \in Connected THEN 1 ELSE 0),
         auth' = (auth + (IF to \in {"counted", "stream", "answer", "done"} THEN 1 ELSE 0))
                       - (IF v \in Watching THEN 1 ELSE 0)
  PROVE  /\ viewer' \in [Viewers -> ViewerStates]
         /\ open' = Cardinality(Connected') /\ auth' = Cardinality(Watching')
         /\ auth' \in Nat /\ auth' <= open'
<1>1. viewer' \in [Viewers -> ViewerStates] /\ viewer'[v] = to
      /\ \A w \in Viewers : w # v => viewer'[w] = viewer[w]
  BY ViewerSets
<1>2. /\ IsFiniteSet(Connected) /\ IsFiniteSet(Watching)
      /\ open = Cardinality(Connected) /\ auth = Cardinality(Watching)
      /\ open \in Nat /\ auth \in Nat
  BY ViewerSets, FS_CardinalityType
<1>3. open' = Cardinality(Connected')
  <2>1. CASE to \in {"away", "leaving"}
    <3>1. Connected' = Connected \ {v}
      BY <1>1, <2>1 DEF Connected
    <3>2. Cardinality(Connected \ {v}) = IF v \in Connected THEN open - 1 ELSE open
      BY <1>2, FS_RemoveElement
    <3> QED BY <3>1, <3>2, <1>2, <2>1
  <2>2. CASE to \notin {"away", "leaving"}
    <3>1. Connected' = Connected \cup {v}
      BY <1>1, <2>2 DEF Connected
    <3>2. Cardinality(Connected \cup {v}) = IF v \in Connected THEN open ELSE open + 1
      BY <1>2, FS_AddElement
    <3> QED BY <3>1, <3>2, <1>2, <2>2
  <2> QED BY <2>1, <2>2
<1>4. auth' = Cardinality(Watching')
  <2>1. CASE to \in {"counted", "stream", "answer", "done"}
    <3>1. Watching' = Watching \cup {v}
      BY <1>1, <2>1 DEF Watching
    <3>2. Cardinality(Watching \cup {v}) = IF v \in Watching THEN auth ELSE auth + 1
      BY <1>2, FS_AddElement
    <3> QED BY <3>1, <3>2, <1>2, <2>1
  <2>2. CASE to \notin {"counted", "stream", "answer", "done"}
    <3>1. Watching' = Watching \ {v}
      BY <1>1, <2>2 DEF Watching
    <3>2. Cardinality(Watching \ {v}) = IF v \in Watching THEN auth - 1 ELSE auth
      BY <1>2, FS_RemoveElement
    <3> QED BY <3>1, <3>2, <1>2, <2>2
  <2> QED BY <2>1, <2>2
<1>5. IsFiniteSet(Connected') /\ Watching' \subseteq Connected'
  BY IpAssumption, FS_Subset DEF Connected, Watching
<1>6. /\ IsFiniteSet(Watching') /\ Cardinality(Watching') \in Nat
      /\ Cardinality(Watching') <= Cardinality(Connected')
  BY <1>5, FS_Subset, FS_CardinalityType
<1> QED BY <1>1, <1>3, <1>4, <1>6

\* main and the feeder
LEMMA IpServiceStep ==
  ASSUME IpInv, Ip!MainStep \/ Ip!FeederStep
  PROVE  IpInv'
<1>1. UNCHANGED <<viewer, open, auth>>
  BY DEF Ip!MainStep, Ip!FeederStep, Ip!StopServing, Ip!WakeFeeder, Ip!Join, Ip!Drain,
         Ip!Demand, Ip!Subscribe, Ip!Feed
<1>2. run' \in BOOLEAN
  BY DEF Ip!MainStep, Ip!FeederStep, Ip!StopServing, Ip!WakeFeeder, Ip!Join, Ip!Drain,
         Ip!Demand, Ip!Subscribe, Ip!Feed, IpInv, Ip!TypeOK
<1>3. main' \in {"accept", "stopped", "join", "look", "dozing", "asleep", "returned"}
  BY DEF Ip!MainStep, Ip!FeederStep, Ip!StopServing, Ip!WakeFeeder, Ip!Join, Ip!Drain,
         Ip!Demand, Ip!Subscribe, Ip!Feed, IpInv, Ip!TypeOK
<1>4. feeder' \in {"look", "dozing", "asleep", "subscribe", "read", "ended"}
  BY DEF Ip!MainStep, Ip!FeederStep, Ip!StopServing, Ip!WakeFeeder, Ip!Join, Ip!Drain,
         Ip!Demand, Ip!Subscribe, Ip!Feed, Ip!Woken, IpInv, Ip!TypeOK
<1>5. unseen' \subseteq Viewers
  BY DEF Ip!MainStep, Ip!FeederStep, Ip!StopServing, Ip!WakeFeeder, Ip!Join, Ip!Drain,
         Ip!Demand, Ip!Subscribe, Ip!Feed, IpInv, Ip!TypeOK
<1> QED BY <1>1, <1>2, <1>3, <1>4, <1>5 DEF IpInv, Ip!TypeOK, Ip!CountsAreRight

\* The handler thread of one viewer
LEMMA IpViewerStep ==
  ASSUME IpInv, NEW v \in Viewers, Ip!Accept(v) \/ Ip!ViewerStep(v)
  PROVE  IpInv'
<1>1. /\ run' = run
      /\ main' \in {"accept", "stopped", "join", "look", "dozing", "asleep", "returned"}
      /\ feeder' \in {"look", "dozing", "asleep", "subscribe", "read", "ended"}
      /\ unseen' \subseteq Viewers
  BY DEF Ip!Accept, Ip!ViewerStep, Ip!Authorize, Ip!Serve, Ip!Stream, Ip!Finish, Ip!Uncount,
         Ip!WakeOnLeave, Ip!CloseClient, Ip!WakeMain, Ip!Woken, IpInv, Ip!TypeOK
<1>2. CASE Ip!Stream(v)
  BY <1>1, <1>2 DEF Ip!Stream, IpInv, Ip!TypeOK, Ip!CountsAreRight
<1>3. CASE ~Ip!Stream(v)
  <2>1. PICK to \in ViewerStates :
          /\ viewer' = [viewer EXCEPT ![v] = to]
          /\ open' \in 0..MaxClients
          /\ open' = (open + (IF to \in {"away", "leaving"} THEN 0 ELSE 1))
                           - (IF v \in Connected THEN 1 ELSE 0)
          /\ auth' = (auth + (IF to \in {"counted", "stream", "answer", "done"} THEN 1 ELSE 0))
                           - (IF v \in Watching THEN 1 ELSE 0)
    <3>1. /\ v \in Connected <=> viewer[v] \notin {"away", "leaving"}
          /\ v \in Watching <=> viewer[v] \in {"counted", "stream", "answer", "done"}
          /\ open \in 0..MaxClients /\ auth \in 0..MaxClients /\ MaxClients \in Nat
      BY ViewerSets DEF Connected, Watching
    <3>2. CASE Ip!Accept(v)
      BY <3>1, <3>2 DEF Ip!Accept, Ip!Move, ViewerStates
    <3>3. CASE Ip!Authorize(v)
      BY <3>1, <3>3 DEF Ip!Authorize, Ip!Move, ViewerStates
    <3>4. CASE Ip!Serve(v)
      BY <3>1, <3>4 DEF Ip!Serve, Ip!Move, ViewerStates
    <3>5. CASE Ip!Finish(v)
      BY <3>1, <3>5 DEF Ip!Finish, Ip!Move, ViewerStates
    <3>6. CASE Ip!Uncount(v)
      BY <3>1, <3>6 DEF Ip!Uncount, Ip!Move, ViewerStates
    <3>7. CASE Ip!WakeOnLeave(v)
      BY <3>1, <3>7 DEF Ip!WakeOnLeave, Ip!Move, ViewerStates
    <3>8. CASE Ip!CloseClient(v)
      <4>1. v \in Connected /\ IsFiniteSet(Connected) /\ open = Cardinality(Connected)
        BY <3>1, <3>8, ViewerSets DEF Ip!CloseClient
      <4>2. open > 0
        BY <4>1, FS_EmptySet, FS_CardinalityType
      <4> QED BY <3>1, <3>8, <4>2 DEF Ip!CloseClient, Ip!Move, ViewerStates
    <3>9. CASE Ip!WakeMain(v)
      BY <3>1, <3>9 DEF Ip!WakeMain, Ip!Move, ViewerStates
    <3> QED BY <1>3, <3>2, <3>3, <3>4, <3>5, <3>6, <3>7, <3>8, <3>9 DEF Ip!ViewerStep
  <2>2. /\ viewer' \in [Viewers -> ViewerStates]
        /\ open' = Cardinality(Connected') /\ auth' = Cardinality(Watching')
        /\ auth' \in Nat /\ auth' <= open'
    BY <2>1, OneViewer
  <2>3. auth' \in 0..MaxClients
    BY <2>1, <2>2, ViewerSets
  <2> QED BY <1>1, <2>1, <2>2, <2>3, IpCardinality
          DEF IpInv, Ip!TypeOK, Ip!CountsAreRight, Connected, Watching, ViewerStates
<1> QED BY <1>2, <1>3

\* The IP camera at its start.
LEMMA IpInitial ==
  ASSUME Ip!Init
  PROVE  IpInv
<1>1. /\ {v \in Viewers : viewer[v] \notin {"away", "leaving"}} = {}
      /\ {v \in Viewers : viewer[v] \in {"counted", "stream", "answer", "done"}} = {}
  BY DEF Ip!Init
<1> QED BY <1>1, IpAssumption, FS_EmptySet, IpCardinality DEF Ip!Init, IpInv, Ip!TypeOK, Ip!CountsAreRight

\* Nothing breaks the invariant of the IP camera.
LEMMA IpStep ==
  ASSUME IpInv, Ip!Next \/ UNCHANGED ipVars
  PROVE  IpInv'
<1>1. CASE UNCHANGED ipVars
  BY <1>1 DEF ipVars, IpInv, Ip!TypeOK, Ip!CountsAreRight
<1> QED BY <1>1, IpServiceStep, IpViewerStep DEF Ip!Next

-----------------------------------------------------------------------------
(* The worker of the V4L2 bridge *)

\* The worker at its start.
LEMMA WebcamInitial ==
  ASSUME Webcam!Init
  PROVE  Webcam!TypeOK
<1>1. 0 \in 0..MaxEvents
  BY BoundsAssumption
<1> QED BY <1>1 DEF Webcam!Init, Webcam!TypeOK, Webcam!Modes

\* Its variables keep their types.
LEMMA WebcamStep ==
  ASSUME Webcam!TypeOK, Webcam!Next \/ UNCHANGED webcamVars
  PROVE  Webcam!TypeOK'
<1>1. turns' \in 0..MaxEvents
  <2>1. turns' = turns \/ Webcam!Changed
    BY DEF Webcam!Next, Webcam!World, Webcam!Worker, Webcam!ReaderChanges,
           Webcam!SettingChanges, Webcam!ServiceChanges, Webcam!Query, Webcam!Open,
           Webcam!Top, Webcam!Settings, Webcam!Poll, Webcam!Frame, Webcam!WriteFails,
           Webcam!Close, Webcam!world, webcamVars
  <2>2. turns \in 0..MaxEvents /\ MaxEvents \in Nat
    BY BoundsAssumption DEF Webcam!TypeOK
  <2> QED BY <2>1, <2>2 DEF Webcam!Changed
<1>2. CASE UNCHANGED webcamVars
  BY <1>1, <1>2 DEF webcamVars, Webcam!TypeOK
<1> USE DEF Webcam!TypeOK, Webcam!Modes, Webcam!world
<1>3. CASE Webcam!World
  <2>1. CASE Webcam!ReaderChanges
    <3>1. reader' = ~reader /\ event' = TRUE
      BY <2>1 DEF Webcam!ReaderChanges
    <3>2. reader' \in BOOLEAN /\ event' \in BOOLEAN
      BY <3>1
    <3> QED BY <1>1, <2>1, <3>2 DEF Webcam!ReaderChanges
  <2>2. CASE Webcam!SettingChanges
    BY <1>1, <2>2 DEF Webcam!SettingChanges
  <2>3. CASE Webcam!ServiceChanges
    BY <1>1, <2>3 DEF Webcam!ServiceChanges
  <2> QED BY <1>3, <2>1, <2>2, <2>3 DEF Webcam!World
<1>4. CASE Webcam!Query
  BY <1>1, <1>4 DEF Webcam!Query
<1>5. CASE Webcam!Open
  BY <1>1, <1>5 DEF Webcam!Open
<1>6. CASE Webcam!Top
  BY <1>1, <1>6 DEF Webcam!Top
<1>7. CASE Webcam!Settings
  BY <1>1, <1>7 DEF Webcam!Settings
<1>8. CASE Webcam!Poll
  BY <1>1, <1>8 DEF Webcam!Poll, Webcam!Dequeued
<1>9. CASE Webcam!Frame \/ Webcam!WriteFails \/ Webcam!Close
  BY <1>1, <1>9 DEF Webcam!Frame, Webcam!WriteFails, Webcam!Close
<1> QED BY <1>2, <1>3, <1>4, <1>5, <1>6, <1>7, <1>8, <1>9 DEF Webcam!Next, Webcam!Worker

-----------------------------------------------------------------------------
(* The nodes of the audio bridge *)

\* A list of sound cards gives each name a Kinect, or none.
PcmLists == UNION {[S -> Kinects \cup {NoKinect}] : S \in SUBSET Cards}
NodeStates == [started : BOOLEAN, pcm : Cards \cup {NoCard}, missed : 0..Grace]
CaptureStates == [pc : {"idle", "open", "check", "read"}, name : Cards \cup {NoCard},
                  from : Kinects \cup {NoKinect}]

\* What the coordinator has read is a list of sensors and a list of sound cards;
\* a thread opens a card that has a name.
AudioInv ==
  /\ Audio!TypeOK
  /\ pass \in [pc : {"sensors", "pcms", "apply"}, sensors : SUBSET Kinects, pcms : PcmLists]
  /\ \A k \in Kinects : capture[k].pc = "open" => capture[k].name # NoCard

\* The types that the steps below need, one by one.
LEMMA AudioFields ==
  ASSUME AudioInv
  PROVE  /\ present \subseteq Kinects /\ camera \subseteq present
         /\ card \in [Cards -> Kinects \cup {NoKinect}]
         /\ changes \in 0..MaxChanges /\ MaxChanges \in Nat /\ Grace \in Nat \ {0}
         /\ node \in [Kinects -> NodeStates] /\ capture \in [Kinects -> CaptureStates]
BY RegistryAssumption
   DEF AudioInv, Audio!TypeOK, NodeStates, CaptureStates, Registry!RegistryConstants

\* A change of the hardware, or a failure, is counted within its bound.
LEMMA ChangeIsCounted ==
  ASSUME AudioInv, Audio!Changed \/ UNCHANGED changes
  PROVE  changes' \in 0..MaxChanges
BY AudioFields DEF Audio!Changed

\* The empty list is a list.
LEMMA NoPcms == << >> \in PcmLists
<1>1. << >> \in [{} -> Kinects \cup {NoKinect}] /\ {} \in SUBSET Cards
  OBVIOUS
<1> QED BY <1>1 DEF PcmLists

\* The handles on cards that go away are dead; nothing else happens to them.
LEMMA DeadIsType ==
  ASSUME AudioInv, NEW gone
  PROVE  Audio!Dead(gone) \in [Kinects -> CaptureStates]
<1>1. ASSUME NEW k \in Kinects
      PROVE  (IF capture[k].name \in gone THEN [capture[k] EXCEPT !.from = NoKinect]
              ELSE capture[k]) \in CaptureStates
  <2>1. capture[k] \in CaptureStates
    BY AudioFields
  <2> QED BY <2>1 DEF CaptureStates
<1> QED BY <1>1 DEF Audio!Dead

\* They keep their names.
LEMMA DeadIsNamed ==
  ASSUME AudioInv, NEW gone, NEW k \in Kinects
  PROVE  /\ Audio!Dead(gone)[k].pc = capture[k].pc
         /\ Audio!Dead(gone)[k].name = capture[k].name
<1>1. capture[k] \in CaptureStates
  BY AudioFields
<1> QED BY <1>1 DEF CaptureStates, Audio!Dead

\* audio_bridge.cpp:265-302: every binding, also one that is guessed, is to a sound
\* card that is there.
LEMMA BoundToCards ==
  ASSUME NEW pcms, NEW sensors, NEW bound \in Audio!bind_pcms_to_sensors(pcms, sensors),
         NEW j \in DOMAIN bound
  PROVE  bound[j] \in DOMAIN pcms
<1> DEFINE matched == sensors \cap Audio!Range(pcms)
           topology == {f \in [matched -> DOMAIN pcms] : \A k \in matched : pcms[f[k]] = k}
           remaining == sensors \ matched
           unresolved(f) == DOMAIN pcms \ Audio!Range(f)
           told(f) ==
             \/ Audio!Cardinality(unresolved(f)) = 1 /\ Audio!Cardinality(remaining) = 1
             \/ Audio!Cardinality(sensors) = 1 /\ matched = {} /\ unresolved(f) # {}
           guessed(f) == {[k \in matched \cup {r} |-> IF k = r THEN u ELSE f[k]] :
                            r \in remaining, u \in unresolved(f)}
           bindings(f) == IF told(f) THEN guessed(f) ELSE {f}
<1>1. Audio!bind_pcms_to_sensors(pcms, sensors) = UNION {bindings(f) : f \in topology}
  BY SMT DEF Audio!bind_pcms_to_sensors
<1>2. \A f \in topology : f \in [matched -> DOMAIN pcms]
  OBVIOUS
<1>3. \A f : \A b \in guessed(f) : \E r \in remaining, u \in DOMAIN pcms :
        b = [k \in matched \cup {r} |-> IF k = r THEN u ELSE f[k]]
  OBVIOUS
<1> HIDE DEF matched, topology, remaining, unresolved, told, guessed
<1>4. PICK f \in topology : bound \in bindings(f)
  BY <1>1
<1>5. bound \in guessed(f) \/ bound = f
  BY <1>4
<1>6. CASE bound = f
  BY <1>2, <1>4, <1>6
<1>7. CASE bound \in guessed(f)
  <2>1. PICK r \in remaining, u \in DOMAIN pcms :
          bound = [k \in matched \cup {r} |-> IF k = r THEN u ELSE f[k]]
    BY <1>3, <1>7
  <2>2. f \in [matched -> DOMAIN pcms]
    BY <1>2
  <2>3. j \in matched \cup {r} /\ bound[j] = IF j = r THEN u ELSE f[j]
    BY <2>1
  <2> QED BY <2>2, <2>3
<1> QED BY <1>5, <1>6, <1>7

\* A pass leaves a node in one of its states.
LEMMA UpdatedIsType ==
  ASSUME AudioInv, NEW k \in Kinects, NEW sensors, NEW bound,
         \A j \in DOMAIN bound : bound[j] \in Cards
  PROVE  Audio!Updated(k, sensors, bound) \in NodeStates
<1>1. node[k] \in NodeStates /\ Grace \in Nat \ {0}
  BY AudioFields
<1> DEFINE age == IF node[k].missed < Grace THEN node[k].missed + 1 ELSE Grace
<1>2. age \in 0..Grace
  BY <1>1 DEF NodeStates
<1>3. ASSUME NEW pcm \in Cards \cup {NoCard}, NEW missed \in 0..Grace
      PROVE  [started |-> TRUE, pcm |-> pcm, missed |-> missed] \in NodeStates
  BY DEF NodeStates
<1>4. [started |-> TRUE, missed |-> 0,
       pcm |-> IF k \in DOMAIN bound THEN bound[k] ELSE NoCard] \in NodeStates
  BY <1>1 DEF NodeStates
<1>5. Audio!NoNode \in NodeStates
  BY <1>1 DEF NodeStates, Audio!NoNode
<1>6. [started |-> TRUE, pcm |-> NoCard, missed |-> age] \in NodeStates
  BY <1>2, <1>3
<1> HIDE DEF age
<1>7. \/ Audio!Updated(k, sensors, bound)
           = [started |-> TRUE, missed |-> 0,
              pcm |-> IF k \in DOMAIN bound THEN bound[k] ELSE NoCard]
      \/ Audio!Updated(k, sensors, bound) = [started |-> TRUE, pcm |-> NoCard, missed |-> age]
      \/ Audio!Updated(k, sensors, bound) = Audio!NoNode
  BY DEF Audio!Updated, age
<1> QED BY <1>4, <1>5, <1>6, <1>7

\* Cables and sound cards.
LEMMA AudioHardware ==
  ASSUME AudioInv, Audio!Hardware
  PROVE  AudioInv'
<1>1. changes' \in 0..MaxChanges
  BY ChangeIsCounted DEF Audio!Hardware, Audio!Plug, Audio!Unplug, Audio!CameraChanges,
     Audio!CardGoes, Audio!CardAppears
<1>2. UNCHANGED <<pass, node>>
  BY DEF Audio!Hardware, Audio!Plug, Audio!Unplug, Audio!CameraChanges,
     Audio!CardGoes, Audio!CardAppears
<1>3. present' \subseteq Kinects /\ camera' \subseteq present'
  BY AudioFields DEF Audio!Hardware, Audio!Plug, Audio!Unplug, Audio!CameraChanges,
     Audio!CardGoes, Audio!CardAppears
<1>4. card' \in [Cards -> Kinects \cup {NoKinect}]
  <2>1. ASSUME NEW k \in Kinects, Audio!Unplug(k)
        PROVE  card' \in [Cards -> Kinects \cup {NoKinect}]
    BY <2>1, AudioFields DEF Audio!Unplug
  <2>2. ASSUME NEW c \in Cards, NEW k \in Kinects, Audio!CardAppears(c, k)
        PROVE  card' \in [Cards -> Kinects \cup {NoKinect}]
    BY <2>2, AudioFields DEF Audio!CardAppears
  <2>3. ASSUME NEW c \in Cards, Audio!CardGoes(c)
        PROVE  card' \in [Cards -> Kinects \cup {NoKinect}]
    BY <2>3, AudioFields DEF Audio!CardGoes
  <2>4. ASSUME NEW k \in Kinects, Audio!Plug(k) \/ Audio!CameraChanges(k)
        PROVE  card' \in [Cards -> Kinects \cup {NoKinect}]
    BY <2>4, AudioFields DEF Audio!Plug, Audio!CameraChanges
  <2> QED BY <2>1, <2>2, <2>3, <2>4 DEF Audio!Hardware
<1>5. capture' \in [Kinects -> CaptureStates]
  <2>1. UNCHANGED capture \/ \E gone : capture' = Audio!Dead(gone)
    BY DEF Audio!Hardware, Audio!Plug, Audio!Unplug, Audio!CameraChanges,
       Audio!CardGoes, Audio!CardAppears
  <2> QED BY <2>1, AudioFields, DeadIsType
<1>6. \A k \in Kinects : capture'[k].pc = "open" => capture'[k].name # NoCard
  <2>1. UNCHANGED capture \/ \E gone : capture' = Audio!Dead(gone)
    BY DEF Audio!Hardware, Audio!Plug, Audio!Unplug, Audio!CameraChanges,
       Audio!CardGoes, Audio!CardAppears
  <2> QED BY <2>1, DeadIsNamed DEF AudioInv
<1> QED BY <1>1, <1>2, <1>3, <1>4, <1>5, <1>6 DEF AudioInv, Audio!TypeOK, CaptureStates

\* A pass of the coordinator.
LEMMA AudioCoordinator ==
  ASSUME AudioInv, Audio!Coordinator
  PROVE  AudioInv'
<1> DEFINE Passes == [pc : {"sensors", "pcms", "apply"}, sensors : SUBSET Kinects,
                      pcms : PcmLists]
<1>1. UNCHANGED <<present, camera, card, changes>>
  BY DEF Audio!Coordinator, Audio!ReadSensors, Audio!ReadPcms, Audio!Apply
<1>2. pass' \in Passes
  <2>1. CASE Audio!ReadSensors
    BY <2>1, AudioFields, NoPcms DEF Audio!ReadSensors
  <2>2. CASE Audio!ReadPcms
    <3> DEFINE named == {d \in Cards : card[d] # NoKinect}
               list == [c \in named |-> IF card[c] \in Deep THEN NoKinect ELSE card[c]]
    <3>1. list \in [named -> Kinects \cup {NoKinect}] /\ named \in SUBSET Cards
      BY AudioFields
    <3>2. list \in PcmLists
      BY <3>1 DEF PcmLists
    <3>3. pass' = [pass EXCEPT !.pc = "apply", !.pcms = list]
      BY <2>2 DEF Audio!ReadPcms
    <3> HIDE DEF list
    <3> QED BY <3>2, <3>3 DEF AudioInv
  <2>3. CASE Audio!Apply
    BY <2>3, NoPcms DEF Audio!Apply
  <2> QED BY <2>1, <2>2, <2>3 DEF Audio!Coordinator
<1>3. node' \in [Kinects -> NodeStates]
  <2>1. CASE Audio!Apply
    <3>1. PICK bound \in Audio!bind_pcms_to_sensors(pass.pcms, pass.sensors) :
            node' = [k \in Kinects |-> Audio!Updated(k, pass.sensors, bound)]
      BY <2>1 DEF Audio!Apply
    <3>2. DOMAIN pass.pcms \subseteq Cards
      BY DEF AudioInv, PcmLists
    <3>3. \A j \in DOMAIN bound : bound[j] \in Cards
      BY <3>2, BoundToCards
    <3>4. \A k \in Kinects : Audio!Updated(k, pass.sensors, bound) \in NodeStates
      BY <3>3, UpdatedIsType
    <3> QED BY <3>1, <3>4
  <2>2. CASE Audio!ReadSensors \/ Audio!ReadPcms
    BY <2>2, AudioFields DEF Audio!ReadSensors, Audio!ReadPcms
  <2> QED BY <2>1, <2>2 DEF Audio!Coordinator
<1>4. capture' \in [Kinects -> CaptureStates]
  <2>1. CASE Audio!Apply
    <3>1. capture' = [k \in Kinects |-> IF node'[k].started THEN capture[k] ELSE Audio!Closed]
      BY <2>1 DEF Audio!Apply
    <3>2. Audio!Closed \in CaptureStates
      BY DEF Audio!Closed, CaptureStates
    <3> QED BY <3>1, <3>2, AudioFields
  <2>2. CASE Audio!ReadSensors \/ Audio!ReadPcms
    BY <2>2, AudioFields DEF Audio!ReadSensors, Audio!ReadPcms
  <2> QED BY <2>1, <2>2 DEF Audio!Coordinator
<1>7. \A k \in Kinects : capture'[k].pc = "open" => capture'[k].name # NoCard
  <2>1. \A k \in Kinects : capture'[k] \in {capture[k], Audio!Closed}
    BY AudioFields DEF Audio!Coordinator, Audio!ReadSensors, Audio!ReadPcms, Audio!Apply
  <2> QED BY <2>1 DEF AudioInv, Audio!Closed
<1>5. present' \subseteq Kinects /\ camera' \subseteq present' /\ changes' \in 0..MaxChanges
      /\ card' \in [Cards -> Kinects \cup {NoKinect}]
  BY <1>1, AudioFields
<1> HIDE DEF Passes
<1>6. pass'.pc \in {"sensors", "pcms", "apply"} /\ pass'.sensors \subseteq Kinects
  BY <1>2 DEF Passes
<1> QED BY <1>2, <1>3, <1>4, <1>5, <1>6, <1>7
        DEF AudioInv, Audio!TypeOK, CaptureStates, NodeStates, Passes

\* A step of the capture thread of k.
LEMMA AudioThread ==
  ASSUME AudioInv, NEW k \in Kinects, Audio!Thread(k)
  PROVE  AudioInv'
<1>1. changes' \in 0..MaxChanges
  BY ChangeIsCounted DEF Audio!Thread, Audio!TakeName, Audio!OpenPcm, Audio!OpenFails,
     Audio!Check, Audio!Read, Audio!ReadFails
<1>2. UNCHANGED <<present, camera, card, pass, node>>
  BY DEF Audio!Thread, Audio!TakeName, Audio!OpenPcm, Audio!OpenFails,
     Audio!Check, Audio!Read, Audio!ReadFails, Audio!Goes
<1>3. PICK c \in CaptureStates :
        capture' = [capture EXCEPT ![k] = c] /\ (c.pc = "open" => c.name # NoCard)
  <2>1. capture[k] \in CaptureStates /\ Audio!Closed \in CaptureStates
        /\ node[k] \in NodeStates
    BY AudioFields DEF Audio!Closed, CaptureStates
  <2>2. CASE Audio!TakeName(k)
    <3> DEFINE named == [Audio!Closed EXCEPT !.pc = "open", !.name = node[k].pcm]
    <3>1. /\ node[k].pcm # NoCard /\ node[k].pcm \in Cards \cup {NoCard}
          /\ capture' = [capture EXCEPT ![k] = named]
      BY <2>1, <2>2 DEF Audio!TakeName, Audio!Goes, NodeStates
    <3>2. named \in CaptureStates /\ named.name # NoCard
      BY <3>1 DEF Audio!Closed, CaptureStates
    <3> HIDE DEF named
    <3> QED BY <3>1, <3>2
  <2>3. CASE Audio!OpenPcm(k)
    <3> DEFINE n == capture[k].name
               opened == [pc |-> "check", name |-> n, from |-> card[n]]
    <3>1. n \in Cards
      BY <2>1, <2>3 DEF Audio!OpenPcm, CaptureStates, AudioInv
    <3>2. opened \in CaptureStates /\ opened.pc = "check"
      BY <3>1, AudioFields DEF CaptureStates
    <3>3. Audio!Closed.pc = "idle"
      BY DEF Audio!Closed
    <3>4. capture' = [capture EXCEPT ![k] = opened] \/ capture' = [capture EXCEPT ![k] = Audio!Closed]
      BY <2>3 DEF Audio!OpenPcm, Audio!Goes
    <3> HIDE DEF opened
    <3> QED BY <2>1, <3>2, <3>3, <3>4
  <2>4. CASE Audio!OpenFails(k) \/ Audio!ReadFails(k)
    BY <2>1, <2>4 DEF Audio!OpenFails, Audio!ReadFails, Audio!Goes, Audio!Closed
  <2>5. CASE Audio!Check(k) \/ Audio!Read(k)
    BY <2>1, <2>5 DEF Audio!Check, Audio!Read, Audio!Goes, CaptureStates, Audio!Closed
  <2> QED BY <2>2, <2>3, <2>4, <2>5 DEF Audio!Thread
<1>4. /\ capture' \in [Kinects -> CaptureStates]
      /\ \A j \in Kinects : capture'[j].pc = "open" => capture'[j].name # NoCard
  BY <1>3, AudioFields DEF AudioInv
<1> QED BY <1>1, <1>2, <1>4 DEF AudioInv, Audio!TypeOK, CaptureStates

\* The audio bridge at its start.
LEMMA AudioInitial ==
  ASSUME Audio!Init
  PROVE  AudioInv
<1>1. MaxChanges \in Nat /\ Grace \in Nat \ {0}
  BY RegistryAssumption DEF Registry!RegistryConstants
<1>2. pass \in [pc : {"sensors", "pcms", "apply"}, sensors : SUBSET Kinects, pcms : PcmLists]
  BY NoPcms DEF Audio!Init
<1>3. /\ present \subseteq Kinects /\ camera = present /\ changes = 0
      /\ card \in [Cards -> present \cup {NoKinect}]
  BY DEF Audio!Init
<1>4. /\ node = [k \in Kinects |-> Audio!NoNode] /\ capture = [k \in Kinects |-> Audio!Closed]
      /\ Audio!NoNode \in NodeStates /\ Audio!Closed \in CaptureStates
  BY <1>1 DEF Audio!Init, Audio!NoNode, Audio!Closed, NodeStates, CaptureStates
<1>5. node \in [Kinects -> NodeStates] /\ capture \in [Kinects -> CaptureStates]
  BY <1>4
<1>6. \A k \in Kinects : capture[k].pc = "idle"
  BY <1>4 DEF Audio!Closed
<1>7. card \in [Cards -> Kinects \cup {NoKinect}]
  BY <1>3
<1> QED BY <1>1, <1>2, <1>3, <1>5, <1>6, <1>7
        DEF AudioInv, Audio!TypeOK, NodeStates, CaptureStates

\* Nothing breaks the invariant of the audio bridge.
LEMMA AudioStep ==
  ASSUME AudioInv, Audio!Next \/ UNCHANGED audioVars
  PROVE  AudioInv'
<1>1. CASE UNCHANGED audioVars
  BY <1>1 DEF audioVars, AudioInv, Audio!TypeOK
<1> QED BY <1>1, AudioHardware, AudioCoordinator, AudioThread DEF Audio!Next

-----------------------------------------------------------------------------
(* The control channel of a model 1473 *)

\* Everything that is still to be received, the packets on the endpoint first.
Behind == Len(fifo) + Len(working)
Packet(i) == IF i <= Len(fifo) THEN fifo[i] ELSE working[i - Len(fifo)]

\* While a payload is waited for it is the last packet but one, its
\* acknowledgement follows it, and as many reads are left as it takes to reach
\* it; otherwise there is nothing but acknowledgements, and not many.
ChannelInv ==
  /\ Channel!TypeOK /\ Channel!FreshReading
  /\ pc # "data" => \A i \in 1..Behind : Packet(i).kind = "ack"
  /\ pc = "data" =>
       /\ Behind >= 2 /\ Behind - 1 <= tries
       /\ Packet(Behind - 1) = [kind |-> "data", current |-> TRUE]
       /\ \A i \in 1..Behind : i # Behind - 1 => Packet(i).kind = "ack"
  /\ pc \in {"idle", "start"} => Behind <= MaxOwed
  /\ pc \in {"primeAck", "ack"} => Behind <= MaxOwed + 1
  /\ pc = "dataAck" => Behind <= 1

\* The two queues and what is known of the constants.
LEMMA ChannelFields ==
  ASSUME ChannelInv
  PROVE  /\ fifo \in Seq(Channel!Packets) /\ working \in Seq(Channel!Packets)
         /\ Len(fifo) \in Nat /\ Len(working) \in Nat /\ Behind \in Nat
         /\ MaxOwed \in 0..3 /\ Late \subseteq {"ack"}
BY ChannelAssumption DEF ChannelInv, Channel!TypeOK, Channel!ChannelConstants, Behind

\* The packet a read takes is the first one, and the others move up.
LEMMA TakeShifts ==
  ASSUME ChannelInv, Channel!Take, working' = working
  PROVE  /\ fifo' \in Seq(Channel!Packets) /\ Behind \in Nat \ {0} /\ Behind' = Behind - 1
         /\ Head(fifo) = Packet(1)
         /\ \A i \in 1..Behind' : Packet(i)' = Packet(i + 1)
<1>1. fifo # <<>> /\ fifo' = Tail(fifo) /\ fifo \in Seq(Channel!Packets)
      /\ working \in Seq(Channel!Packets)
  BY ChannelFields DEF Channel!Take
<1>2. /\ Len(fifo) \in Nat \ {0} /\ Len(fifo') = Len(fifo) - 1 /\ Head(fifo) = fifo[1]
      /\ Len(working) \in Nat /\ fifo' \in Seq(Channel!Packets)
      /\ \A i \in 1..Len(fifo') : fifo'[i] = fifo[i + 1]
  BY <1>1
<1>3. Behind \in Nat \ {0} /\ Behind' = Behind - 1 /\ Head(fifo) = Packet(1)
  BY <1>2 DEF Behind, Packet
<1>4. ASSUME NEW i \in 1..Behind'
      PROVE  Packet(i)' = Packet(i + 1)
  <2>1. CASE i <= Len(fifo')
    BY <1>2, <2>1 DEF Packet
  <2>2. CASE ~(i <= Len(fifo'))
    <3>1. i - Len(fifo') = (i + 1) - Len(fifo) /\ ~(i + 1 <= Len(fifo))
      BY <1>2, <2>2, <1>3
    <3> QED BY <3>1, <2>2 DEF Packet
  <2> QED BY <2>1, <2>2
<1> QED BY <1>2, <1>3, <1>4

\* Nothing changes for the reader when the device sends its next packet.
LEMMA AnswerKeeps ==
  ASSUME ChannelInv, Channel!Answer
  PROVE  /\ fifo' \in Seq(Channel!Packets) /\ working' \in Seq(Channel!Packets)
         /\ Behind' = Behind
         /\ \A i \in 1..Behind : Packet(i)' = Packet(i)
<1>1. /\ working # <<>> /\ fifo' = Append(fifo, Head(working)) /\ working' = Tail(working)
      /\ fifo \in Seq(Channel!Packets) /\ working \in Seq(Channel!Packets)
  BY ChannelFields DEF Channel!Answer
<1>2. /\ Len(fifo) \in Nat /\ Len(working) \in Nat \ {0} /\ Head(working) = working[1]
      /\ Head(working) \in Channel!Packets
      /\ Len(working') = Len(working) - 1 /\ working' \in Seq(Channel!Packets)
      /\ \A i \in 1..Len(working') : working'[i] = working[i + 1]
  BY <1>1
<1>3. /\ fifo' \in Seq(Channel!Packets) /\ Len(fifo') = Len(fifo) + 1
      /\ \A i \in 1..Len(fifo) : fifo'[i] = fifo[i]
      /\ fifo'[Len(fifo) + 1] = working[1]
  BY <1>1, <1>2
<1>4. Behind' = Behind
  BY <1>2, <1>3 DEF Behind
<1>5. ASSUME NEW i \in 1..Behind
      PROVE  Packet(i)' = Packet(i)
  <2>1. CASE i <= Len(fifo)
    BY <2>1, <1>2, <1>3 DEF Packet
  <2>2. CASE i = Len(fifo) + 1
    BY <2>2, <1>2, <1>3 DEF Packet
  <2>3. CASE i > Len(fifo) + 1
    <3>1. ~(i <= Len(fifo')) /\ i - Len(fifo') \in 1..Len(working')
          /\ (i - Len(fifo')) + 1 = i - Len(fifo) /\ ~(i <= Len(fifo))
      BY <2>3, <1>2, <1>3 DEF Behind
    <3> QED BY <3>1, <1>2 DEF Packet
  <2> QED BY <2>1, <2>2, <2>3, <1>2
<1> QED BY <1>2, <1>3, <1>4, <1>5

\* What was sent before a command is still the same but does not answer it.
LEMMA AgedIs ==
  ASSUME NEW q \in Seq(Channel!Packets)
  PROVE  /\ Channel!Aged(q) \in Seq(Channel!Packets) /\ Len(Channel!Aged(q)) = Len(q)
         /\ \A i \in 1..Len(q) : Channel!Aged(q)[i].kind = q[i].kind
<1> DEFINE a == Channel!Aged(q)
<1>1. Len(q) \in Nat /\ DOMAIN q = 1..Len(q) /\ \A i \in 1..Len(q) : q[i] \in Channel!Packets
  OBVIOUS
<1>2. a = [i \in 1..Len(q) |-> [q[i] EXCEPT !.current = FALSE]]
  BY <1>1 DEF Channel!Aged
<1>3. \A i \in 1..Len(q) : [q[i] EXCEPT !.current = FALSE] \in Channel!Packets
                           /\ [q[i] EXCEPT !.current = FALSE].kind = q[i].kind
  BY <1>1 DEF Channel!Packets
<1>4. a \in [1..Len(q) -> Channel!Packets]
  BY <1>2, <1>3
<1>5. a \in Seq(Channel!Packets) /\ Len(a) = Len(q)
  BY <1>1, <1>4
<1> QED BY <1>1, <1>2, <1>3, <1>5

\* A command is followed by its own packets, behind all others.
LEMMA SendAppends ==
  ASSUME ChannelInv, NEW kinds \in Seq({"ack", "data"}), NEW next, Channel!Send(kinds, next),
         NEW n, n = Behind
  PROVE  /\ fifo' \in Seq(Channel!Packets) /\ working' \in Seq(Channel!Packets)
         /\ Behind' = Behind + Len(kinds)
         /\ \A i \in 1..Behind : Packet(i)'.kind = Packet(i).kind
         /\ \A i \in 1..Behind' : i > n => Packet(i)' = [kind |-> kinds[i - n], current |-> TRUE]
<1> DEFINE new == [i \in DOMAIN kinds |-> [kind |-> kinds[i], current |-> TRUE]]
           f == Channel!Aged(fifo)
           w == Channel!Aged(working)
<1>1. Len(kinds) \in Nat /\ DOMAIN kinds = 1..Len(kinds)
      /\ \A i \in 1..Len(kinds) : kinds[i] \in {"ack", "data"}
  OBVIOUS
<1>2. \A i \in 1..Len(kinds) : [kind |-> kinds[i], current |-> TRUE] \in Channel!Packets
  BY <1>1 DEF Channel!Packets
<1>3. new = [i \in 1..Len(kinds) |-> [kind |-> kinds[i], current |-> TRUE]]
  BY <1>1
<1>4. new \in [1..Len(kinds) -> Channel!Packets]
  BY <1>2, <1>3
<1>5. new \in Seq(Channel!Packets) /\ Len(new) = Len(kinds)
      /\ \A i \in 1..Len(kinds) : new[i] = [kind |-> kinds[i], current |-> TRUE]
  BY <1>1, <1>3, <1>4
<1>6. fifo' = f /\ working' = w \o new
  BY DEF Channel!Send
<1>7. /\ f \in Seq(Channel!Packets) /\ Len(f) = Len(fifo)
      /\ \A i \in 1..Len(fifo) : f[i].kind = fifo[i].kind
      /\ w \in Seq(Channel!Packets) /\ Len(w) = Len(working)
      /\ \A i \in 1..Len(working) : w[i].kind = working[i].kind
      /\ Len(fifo) \in Nat /\ Len(working) \in Nat
  BY ChannelFields, AgedIs
<1> HIDE DEF new, f, w
<1>8. /\ working' \in Seq(Channel!Packets) /\ Len(working') = Len(working) + Len(kinds)
      /\ \A i \in 1..Len(working) : working'[i] = w[i]
      /\ \A i \in 1..Len(kinds) : working'[Len(working) + i] = new[i]
  <2>1. /\ w \o new \in Seq(Channel!Packets) /\ Len(w \o new) = Len(w) + Len(new)
        /\ \A i \in 1..(Len(w) + Len(new)) :
             (w \o new)[i] = IF i <= Len(w) THEN w[i] ELSE new[i - Len(w)]
    <3>1. w \in Seq(Channel!Packets) /\ new \in Seq(Channel!Packets)
      BY <1>5, <1>7
    <3> QED BY <3>1, ConcatProperties
  <2>2. \A i \in 1..Len(kinds) : /\ Len(working) + i \in 1..(Len(w) + Len(new))
                                 /\ ~(Len(working) + i <= Len(w))
                                 /\ (Len(working) + i) - Len(w) = i
    BY <1>1, <1>5, <1>7
  <2>3. \A i \in 1..Len(working) : i \in 1..(Len(w) + Len(new)) /\ i <= Len(w)
    BY <1>1, <1>5, <1>7
  <2> QED BY <1>1, <1>5, <1>6, <1>7, <2>1, <2>2, <2>3
<1>9. Behind' = Behind + Len(kinds)
  BY <1>1, <1>6, <1>7, <1>8 DEF Behind
<1>10. ASSUME NEW i \in 1..Behind
       PROVE  Packet(i)'.kind = Packet(i).kind
  <2>1. CASE i <= Len(fifo)
    BY <2>1, <1>6, <1>7 DEF Packet
  <2>2. CASE ~(i <= Len(fifo))
    <3>1. i - Len(fifo) \in 1..Len(working) /\ ~(i <= Len(fifo')) /\ Len(fifo') = Len(fifo)
      BY <2>2, <1>6, <1>7 DEF Behind
    <3> QED BY <3>1, <1>7, <1>8, <2>2 DEF Packet
  <2> QED BY <2>1, <2>2
<1>11. ASSUME NEW i \in 1..Behind', i > n
       PROVE  Packet(i)' = [kind |-> kinds[i - n], current |-> TRUE]
  <2>1. /\ Len(fifo') = Len(fifo) /\ Len(fifo) \in Nat /\ Len(working) \in Nat
        /\ Len(kinds) \in Nat /\ n = Len(fifo) + Len(working) /\ Behind' = n + Len(kinds)
    BY <1>1, <1>6, <1>7, <1>9 DEF Behind
  <2>2. /\ ~(i <= Len(fifo')) /\ i - Len(fifo') = Len(working) + (i - n)
        /\ i - n \in 1..Len(kinds)
    BY <1>11, <2>1
  <2>3. working'[Len(working) + (i - n)] = new[i - n]
    BY <1>8, <2>2
  <2> QED BY <2>2, <2>3, <1>5 DEF Packet
<1> QED BY <1>6, <1>7, <1>8, <1>9, <1>10, <1>11

\* What an acknowledgement, or an error, makes of the operation.
LEMMA ChannelOutcome ==
  ASSUME ChannelInv, Channel!Acknowledged \/ Channel!Fail
  PROVE  /\ pc' \in {"idle", "start"} /\ result' \in {result, "ok", "unread", "error"}
         /\ op' \in {"Led", "Status", "Tilt", "TiltRead"} /\ attempt' \in 1..2
         /\ primed' \in BOOLEAN
<1>1. /\ op \in {"Led", "Status", "Tilt", "TiltRead"} /\ attempt \in 1..2
      /\ primed \in BOOLEAN
  BY DEF ChannelInv, Channel!TypeOK
<1>2. CASE Channel!Fail
  <2>1. CASE op \in {"Tilt", "TiltRead"}
    <3>1. primed' = primed /\ op' = op /\ attempt' = attempt /\ pc' = "idle"
          /\ result' \in {"error", "unread"}
      BY <1>2, <2>1 DEF Channel!Fail, Channel!Done
    <3> QED BY <1>1, <3>1
  <2>2. CASE op \notin {"Tilt", "TiltRead"}
    <3>1. /\ primed' \in BOOLEAN /\ op' = op
          /\ \/ pc' = "start" /\ attempt' = 2 /\ result' = result
             \/ pc' = "idle" /\ attempt' = attempt /\ result' = "error"
      BY <1>2, <2>2 DEF Channel!Fail, Channel!Done
    <3> QED BY <1>1, <3>1
  <2> QED BY <2>1, <2>2
<1>3. CASE Channel!Acknowledged
  <2>1. CASE pc = "primeAck"
    BY <1>1, <1>3, <2>1 DEF Channel!Acknowledged
  <2>2. CASE pc = "ack" /\ op = "Tilt"
    BY <1>1, <1>3, <2>2 DEF Channel!Acknowledged
  <2>3. CASE ~(pc = "primeAck") /\ ~(pc = "ack" /\ op = "Tilt")
    <3>1. /\ Channel!Done(IF pc = "dataAck" THEN result ELSE "ok") /\ primed' = primed
      BY <1>3, <2>3 DEF Channel!Acknowledged
    <3> QED BY <1>1, <3>1 DEF Channel!Done
  <2> QED BY <2>1, <2>2, <2>3
<1> QED BY <1>2, <1>3

\* An operation begins, or the device sends.
LEMMA ChannelQuiet ==
  ASSUME ChannelInv, Channel!Begin \/ Channel!Answer
  PROVE  ChannelInv'
<1>1. CASE Channel!Begin
  <2>1. UNCHANGED <<working, fifo>>
    BY <1>1 DEF Channel!Begin
  <2>2. Behind' = Behind /\ \A i \in 1..Behind : Packet(i)' = Packet(i)
    BY <2>1 DEF Behind, Packet
  <2> QED BY <1>1, <2>1, <2>2
          DEF Channel!Begin, ChannelInv, Channel!TypeOK, Channel!FreshReading
<1>2. CASE Channel!Answer
  <2>1. /\ fifo' \in Seq(Channel!Packets) /\ working' \in Seq(Channel!Packets)
        /\ Behind' = Behind /\ Behind \in Nat
        /\ \A i \in 1..Behind : Packet(i)' = Packet(i)
    BY <1>2, AnswerKeeps, ChannelFields
  <2>2. /\ primed' = primed /\ pc' = pc /\ op' = op /\ attempt' = attempt /\ tries' = tries
        /\ result' = result
    BY <1>2 DEF Channel!Answer
  <2>4. PICK n : n = Behind
    OBVIOUS
  <2>5. pc = "data" => Packet(n - 1)' = [kind |-> "data", current |-> TRUE]
    BY <2>1, <2>4 DEF ChannelInv
  <2>6. pc = "data" => Packet(Behind - 1)' = [kind |-> "data", current |-> TRUE]
    BY <2>1, <2>4, <2>5 DEF Packet
  <2> QED BY <2>1, <2>2, <2>6 DEF ChannelInv, Channel!TypeOK, Channel!FreshReading
<1> QED BY <1>1, <1>2

\* A command goes out when nothing but acknowledgements is owed.
LEMMA ChannelCommand ==
  ASSUME ChannelInv, Channel!Command
  PROVE  ChannelInv'
<1>1. pc = "start" /\ tries' = 4 /\ UNCHANGED <<primed, op, attempt, result>>
  BY DEF Channel!Command
<1>2. Behind \in Nat /\ MaxOwed \in 0..3 /\ Behind <= MaxOwed
      /\ \A i \in 1..Behind : Packet(i).kind = "ack"
  BY <1>1, ChannelFields DEF ChannelInv
<1>3. PICK n : n = Behind
  OBVIOUS
<1>4. \/ Channel!Send(<<"ack">>, "primeAck") \/ Channel!Send(<<"ack">>, "ack")
      \/ Channel!Send(<<"data", "ack">>, "data")
  BY DEF Channel!Command
<1>5. ASSUME NEW next \in {"primeAck", "ack"}, Channel!Send(<<"ack">>, next)
      PROVE  ChannelInv'
  <2>1. <<"ack">> \in Seq({"ack", "data"}) /\ Len(<<"ack">>) = 1 /\ <<"ack">>[1] = "ack"
    OBVIOUS
  <2>2. /\ fifo' \in Seq(Channel!Packets) /\ working' \in Seq(Channel!Packets)
        /\ Behind' = Behind + 1
        /\ \A i \in 1..Behind : Packet(i)'.kind = Packet(i).kind
        /\ \A i \in 1..Behind' : i > n => Packet(i)' = [kind |-> <<"ack">>[i - n], current |-> TRUE]
    BY <1>3, <1>5, <2>1, SendAppends
  <2>3. pc' = next
    BY <1>5 DEF Channel!Send
  <2>4. \A i \in 1..Behind' : Packet(i)'.kind = "ack"
    <3>1. \A i \in 1..Behind' : i \in 1..Behind \/ (i > n /\ i - n = 1)
      BY <1>2, <1>3, <2>2
    <3> QED BY <1>2, <1>3, <2>1, <2>2, <3>1
  <2> QED BY <1>1, <1>2, <2>2, <2>3, <2>4 DEF ChannelInv, Channel!TypeOK, Channel!FreshReading
<1>6. ASSUME Channel!Send(<<"data", "ack">>, "data")
      PROVE  ChannelInv'
  <2> DEFINE kinds == <<"data", "ack">>
  <2>1. kinds \in Seq({"ack", "data"}) /\ Len(kinds) = 2 /\ kinds[1] = "data" /\ kinds[2] = "ack"
    OBVIOUS
  <2> HIDE DEF kinds
  <2>2. Channel!Send(kinds, "data")
    BY <1>6 DEF kinds
  <2>3. /\ fifo' \in Seq(Channel!Packets) /\ working' \in Seq(Channel!Packets)
        /\ Behind' = Behind + 2
        /\ \A i \in 1..Behind : Packet(i)'.kind = Packet(i).kind
        /\ \A i \in 1..Behind' : i > n => Packet(i)' = [kind |-> kinds[i - n], current |-> TRUE]
    BY <1>3, <2>1, <2>2, SendAppends
  <2>4. pc' = "data"
    BY <1>6 DEF Channel!Send
  <2>6. Behind' - 1 = n + 1 /\ Behind' >= 2 /\ Behind' - 1 <= 4
    BY <1>2, <1>3, <2>3
  <2>5. \A i \in 1..Behind' : i # n + 1 => Packet(i)'.kind = "ack"
    <3>1. \A i \in 1..Behind' : i # n + 1 => i \in 1..Behind \/ (i > n /\ i - n = 2)
      BY <1>2, <1>3, <2>3
    <3> QED BY <1>2, <2>1, <2>3, <3>1
  <2>7. Packet(n + 1)' = [kind |-> "data", current |-> TRUE]
    <3>1. n + 1 \in 1..Behind' /\ n + 1 > n /\ (n + 1) - n = 1
      BY <1>2, <1>3, <2>3
    <3> QED BY <2>1, <2>3, <3>1
  <2>8. Packet(Behind - 1)' = [kind |-> "data", current |-> TRUE]
    BY <2>6, <2>7 DEF Packet
  <2> QED BY <1>1, <2>3, <2>4, <2>5, <2>6, <2>8 DEF ChannelInv, Channel!TypeOK, Channel!FreshReading
<1> QED BY <1>4, <1>5, <1>6

\* A command that does not go out leaves everything to be received as it was.
LEMMA ChannelCommandFails ==
  ASSUME ChannelInv, Channel!CommandFails
  PROVE  ChannelInv'
<1>1. pc = "start" /\ UNCHANGED working /\ UNCHANGED fifo /\ UNCHANGED tries /\ Channel!Fail
  BY DEF Channel!CommandFails
<1>2. Behind' = Behind /\ \A i \in 1..Behind : Packet(i)' = Packet(i)
  BY <1>1 DEF Behind, Packet
<1>3. /\ pc' \in {"idle", "start"} /\ result' \in {result, "ok", "unread", "error"}
      /\ op' \in {"Led", "Status", "Tilt", "TiltRead"} /\ attempt' \in 1..2
      /\ primed' \in BOOLEAN
  BY <1>1, ChannelOutcome
<1>4. /\ result # "stale" /\ result \in {"none", "ok", "fresh", "stale", "unread", "error"}
      /\ Behind <= MaxOwed /\ \A i \in 1..Behind : Packet(i).kind = "ack"
      /\ working \in Seq(Channel!Packets) /\ fifo \in Seq(Channel!Packets) /\ tries \in 0..4
  BY <1>1 DEF ChannelInv, Channel!TypeOK, Channel!FreshReading
<1> QED BY <1>1, <1>2, <1>3, <1>4 DEF ChannelInv, Channel!TypeOK, Channel!FreshReading

\* The packet that alt_ack_locked takes is an acknowledgement, and what it leaves
\* behind is few; so is what it gives up on.
LEMMA ChannelAckRead ==
  ASSUME ChannelInv, Channel!AckRead
  PROVE  ChannelInv'
<1>1. /\ pc \in {"primeAck", "ack", "dataAck"} /\ working' = working /\ tries' = tries
      /\ Channel!Take \/ Channel!Timeout("ack")
  BY DEF Channel!AckRead
<1>2. /\ \A i \in 1..Behind : Packet(i).kind = "ack"
      /\ Behind \in Nat /\ Behind <= MaxOwed + 1 /\ MaxOwed \in 0..3
  BY <1>1, ChannelFields DEF ChannelInv
<1>3. /\ fifo' \in Seq(Channel!Packets) /\ Behind' \in Nat /\ Behind' <= MaxOwed
      /\ \A i \in 1..Behind' : Packet(i)'.kind = "ack"
  <2>1. CASE Channel!Take
    BY <1>1, <1>2, <2>1, TakeShifts
  <2>2. CASE Channel!Timeout("ack")
    <3>1. fifo = << >> /\ fifo' = fifo /\ (Len(working) <= MaxOwed \/ working = << >>)
      BY <2>2 DEF Channel!Timeout
    <3>2. Behind <= MaxOwed /\ Behind' = Behind
      BY <1>1, <1>2, <3>1 DEF Behind
    <3>3. \A i \in 1..Behind : Packet(i)' = Packet(i)
      BY <1>1, <3>1 DEF Packet
    <3> QED BY <1>2, <3>1, <3>2, <3>3, ChannelFields
  <2> QED BY <1>1, <2>1, <2>2
<1>4. Channel!Acknowledged \/ Channel!Fail
  BY DEF Channel!AckRead
<1>5. /\ pc' \in {"idle", "start"} /\ result' \in {result, "ok", "unread", "error"}
      /\ op' \in {"Led", "Status", "Tilt", "TiltRead"} /\ attempt' \in 1..2
      /\ primed' \in BOOLEAN
  BY <1>4, ChannelOutcome
<1>6. tries' \in 0..4 /\ working' \in Seq(Channel!Packets) /\ result # "stale"
      /\ result \in {"none", "ok", "fresh", "stale", "unread", "error"}
  BY <1>1, ChannelFields DEF ChannelInv, Channel!TypeOK, Channel!FreshReading
<1> QED BY <1>3, <1>5, <1>6 DEF ChannelInv, Channel!TypeOK, Channel!FreshReading

\* status_1473_locked skips acknowledgements until the payload comes, and has reads
\* enough for that; it never times out.
LEMMA ChannelDataRead ==
  ASSUME ChannelInv, Channel!DataRead
  PROVE  ChannelInv'
<1>1. pc = "data" /\ working' = working
  BY DEF Channel!DataRead
<1>2. /\ Behind \in Nat /\ Behind >= 2 /\ Behind - 1 <= tries /\ tries \in 0..4
      /\ Packet(Behind - 1) = [kind |-> "data", current |-> TRUE]
      /\ \A i \in 1..Behind : i # Behind - 1 => Packet(i).kind = "ack"
  BY <1>1, ChannelFields DEF ChannelInv, Channel!TypeOK
<1>3. Channel!Take
  <2>1. ~Channel!Timeout("data")
    <3>1. SUFFICES ASSUME Channel!Timeout("data") PROVE FALSE
      OBVIOUS
    <3>2. fifo = << >> /\ ("data" \in Late \/ working = << >>)
      BY <3>1 DEF Channel!Timeout
    <3>3. fifo = << >> /\ working = << >>
      BY <3>2, ChannelFields
    <3> QED BY <3>3, <1>2 DEF Behind
  <2> QED BY <2>1 DEF Channel!DataRead
<1>4. /\ fifo' \in Seq(Channel!Packets) /\ Behind' = Behind - 1
      /\ Head(fifo) = Packet(1)
      /\ \A i \in 1..Behind' : Packet(i)' = Packet(i + 1)
  BY <1>1, <1>3, TakeShifts
<1>5. working' \in Seq(Channel!Packets)
  BY <1>1, ChannelFields
<1>6. CASE Head(fifo).kind = "data"
  <2>1. Behind = 2
    BY <1>2, <1>4, <1>6
  <2>2. Head(fifo).current = TRUE
    BY <1>2, <1>4, <2>1
  <2>3. /\ result' = "fresh" /\ pc' = "dataAck" /\ primed' = primed /\ op' = op
        /\ attempt' = attempt /\ tries' = tries
    BY <1>2, <1>6, <2>2, <1>3 DEF Channel!DataRead, Channel!Take, Channel!Timeout
  <2>4. Behind' = 1 /\ \A i \in 1..Behind' : Packet(i)'.kind = "ack"
    BY <1>2, <1>4, <2>1
  <2> QED BY <1>4, <1>5, <2>3, <2>4 DEF ChannelInv, Channel!TypeOK, Channel!FreshReading
<1>7. CASE Head(fifo).kind # "data"
  <2>1. Behind >= 3
    BY <1>2, <1>4, <1>7
  <2>2. /\ tries' = tries - 1 /\ primed' = primed /\ pc' = pc /\ op' = op /\ attempt' = attempt
        /\ result' = result
    BY <1>2, <1>3, <1>7, <2>1 DEF Channel!DataRead, Channel!Take, Channel!Timeout
  <2>3. Behind' >= 2 /\ Behind' - 1 <= tries' /\ tries' \in 0..4
    BY <1>2, <1>4, <2>1, <2>2
  <2>4. PICK n : n = Behind
    OBVIOUS
  <2>5. Packet(n - 2)' = [kind |-> "data", current |-> TRUE]
    <3>1. n - 2 \in 1..Behind' /\ (n - 2) + 1 = Behind - 1
      BY <1>2, <1>4, <2>1, <2>4
    <3>2. Packet(n - 2)' = Packet((n - 2) + 1)
      BY <1>4, <3>1
    <3> QED BY <1>2, <3>1, <3>2
  <2>6. Packet(Behind - 1)' = [kind |-> "data", current |-> TRUE]
    <3>1. Behind' - 1 = n - 2
      BY <1>2, <1>4, <2>4
    <3> QED BY <2>5, <3>1 DEF Packet
  <2>7. \A i \in 1..Behind' : i # Behind' - 1 => Packet(i)'.kind = "ack"
    <3>1. \A i \in 1..Behind' : i # Behind' - 1 => i + 1 \in 1..Behind /\ i + 1 # Behind - 1
      BY <1>2, <1>4
    <3> QED BY <1>2, <1>4, <3>1
  <2> QED BY <1>1, <1>4, <1>5, <2>2, <2>3, <2>6, <2>7
          DEF ChannelInv, Channel!TypeOK, Channel!FreshReading
<1> QED BY <1>6, <1>7

\* The channel at its start.
LEMMA ChannelInitial ==
  ASSUME Channel!Init
  PROVE  ChannelInv
<1>1. Behind = 0 /\ 0 <= MaxOwed
  BY ChannelAssumption DEF Channel!Init, Behind, Channel!ChannelConstants
<1>2. /\ << >> \in Seq(Channel!Packets) /\ 4 \in 0..4 /\ 1 \in 1..2
      /\ \A i \in 1..Behind : FALSE
  BY <1>1
<1> HIDE DEF Behind
<1> QED BY <1>1, <1>2
        DEF Channel!Init, ChannelInv, Channel!TypeOK, Channel!FreshReading

\* Nothing breaks the invariant of the channel.
LEMMA ChannelStep ==
  ASSUME ChannelInv, Channel!Next \/ UNCHANGED channelVars
  PROVE  ChannelInv'
<1>1. CASE UNCHANGED channelVars
  BY <1>1 DEF channelVars, ChannelInv, Behind, Packet, Channel!TypeOK, Channel!FreshReading
<1> QED BY <1>1, ChannelQuiet, ChannelCommand, ChannelCommandFails, ChannelAckRead, ChannelDataRead
        DEF Channel!Next

-----------------------------------------------------------------------------
(* The frame queues *)

Frames == [seq : 1..MaxFrames, tick : 1..MaxTick]
Unseen(c, s, i) == queue[s][i].seq > seen[c][s]

\* A queue holds the last frames of its stream, in the order of their numbers,
Numbered ==
  \A s \in Streams : \A i \in 1..Len(queue[s]) :
    queue[s][i].seq = (counter[s] - Len(queue[s])) + i
\* and of their times.
Timed ==
  \A s \in Streams : \A i \in 1..Len(queue[s]) :
    /\ queue[s][i].tick <= clock
    /\ \A j \in 1..Len(queue[s]) : i <= j => queue[s][i].tick <= queue[s][j].tick

\* What a subscriber has not seen is not older than what it got last.
NothingOlder ==
  \A c \in Consumers :
    /\ last[c] <= clock
    /\ \A s \in reading[c] : \A i \in 1..Len(queue[s]) : Unseen(c, s, i) => queue[s][i].tick >= last[c]

\* What a subscriber is behind in a stream, as long as a queue can hold it, is in
\* the queue.
StillThere ==
  \A c \in Consumers : \A s \in lease[c] :
    seen[c][s] > 0 /\ s \notin lost[c] /\ counter[s] - seen[c][s] <= Depth =>
      Len(queue[s]) >= counter[s] - seen[c][s]

QueuesTypes ==
  /\ online \in BOOLEAN /\ clock \in 1..MaxTick
  /\ queue \in [Streams -> Seq(Frames)] /\ \A s \in Streams : Len(queue[s]) <= Depth
  /\ counter \in [Streams -> 0..MaxFrames]
  /\ lease \in [Consumers -> SUBSET Streams] /\ reading \in [Consumers -> SUBSET Streams]
  /\ seen \in [Consumers -> [Streams -> 0..MaxFrames]]
  /\ last \in [Consumers -> 0..MaxTick] /\ lost \in [Consumers -> SUBSET Streams]

QueuesInv ==
  /\ QueuesTypes /\ Numbered /\ Timed /\ NothingOlder /\ StillThere
  /\ \A c \in Consumers : lease[c] \in {{}, reading[c]}

\* The types, one by one.
LEMMA QueuesFields ==
  ASSUME QueuesInv
  PROVE  /\ online \in BOOLEAN /\ clock \in 1..MaxTick
         /\ queue \in [Streams -> Seq(Frames)] /\ \A s \in Streams : Len(queue[s]) <= Depth
         /\ counter \in [Streams -> 0..MaxFrames]
         /\ lease \in [Consumers -> SUBSET Streams] /\ reading \in [Consumers -> SUBSET Streams]
         /\ seen \in [Consumers -> [Streams -> 0..MaxFrames]]
         /\ last \in [Consumers -> 0..MaxTick] /\ lost \in [Consumers -> SUBSET Streams]
         /\ Depth \in Nat \ {0} /\ MaxTick \in Nat \ {0} /\ MaxFrames \in Nat
BY QueuesAssumption DEF QueuesInv, QueuesTypes

\* One queue.
LEMMA OneQueue ==
  ASSUME QueuesInv, NEW s \in Streams
  PROVE  /\ queue[s] \in Seq(Frames) /\ Len(queue[s]) \in Nat /\ Len(queue[s]) <= Depth
         /\ DOMAIN queue[s] = 1..Len(queue[s])
         /\ counter[s] \in 0..MaxFrames
         /\ \A i \in 1..Len(queue[s]) :
              /\ queue[s][i] \in Frames /\ queue[s][i].seq \in 1..MaxFrames
              /\ queue[s][i].tick \in 1..MaxTick
              /\ queue[s][i].seq = (counter[s] - Len(queue[s])) + i
              /\ queue[s][i].tick <= clock
              /\ \A j \in 1..Len(queue[s]) : i <= j => queue[s][i].tick <= queue[s][j].tick
<1>1. queue[s] \in Seq(Frames) /\ Len(queue[s]) <= Depth /\ counter[s] \in 0..MaxFrames
  BY QueuesFields
<1>2. /\ Len(queue[s]) \in Nat /\ DOMAIN queue[s] = 1..Len(queue[s])
      /\ \A i \in 1..Len(queue[s]) : queue[s][i] \in Frames
  BY <1>1
<1>3. \A f \in Frames : f.seq \in 1..MaxFrames /\ f.tick \in 1..MaxTick
  BY DEF Frames
<1> QED BY <1>1, <1>2, <1>3 DEF QueuesInv, Numbered, Timed

\* next_after finds the first frame with a number the subscriber has not seen.
LEMMA NextIsFirstUnseen ==
  ASSUME QueuesInv, NEW c \in Consumers, NEW s \in Queues!Candidates(c)
  PROVE  /\ s \in Streams /\ s \in reading[c]
         /\ \E n \in 1..Len(queue[s]) :
              /\ Queues!NextAfter(c, s) = queue[s][n]
              /\ Unseen(c, s, n)
              /\ \A i \in 1..Len(queue[s]) : Unseen(c, s, i) => n <= i
<1> DEFINE U == {i \in DOMAIN queue[s] : queue[s][i].seq > seen[c][s]}
           o == counter[s] - Len(queue[s])
           first == IF seen[c][s] >= o THEN (seen[c][s] - o) + 1 ELSE 1
<1>1. s \in Streams /\ s \in reading[c] /\ U # {}
  BY QueuesFields DEF Queues!Candidates
<1>2. /\ DOMAIN queue[s] = 1..Len(queue[s]) /\ Len(queue[s]) \in Nat
      /\ counter[s] \in Nat /\ seen[c][s] \in Nat
      /\ \A i \in 1..Len(queue[s]) : queue[s][i].seq = o + i
  BY <1>1, OneQueue, QueuesFields
<1>3. o \in Int
  BY <1>2
<1> HIDE DEF o
<1>4. \A i \in U : i \in 1..Len(queue[s]) /\ o + i > seen[c][s] /\ first <= i
  BY <1>2, <1>3
<1>5. first \in Int /\ o + first > seen[c][s] /\ first >= 1
  BY <1>2, <1>3
<1> HIDE DEF first
<1>6. PICK u \in U : TRUE
  BY <1>1
<1>7. first \in 1..Len(queue[s])
  BY <1>2, <1>4, <1>5, <1>6
<1>8. first \in U
  BY <1>2, <1>5, <1>7
<1>9. Queues!Min(U) \in U /\ \A i \in U : Queues!Min(U) <= i
  <2>1. \E x \in U : \A y \in U : x <= y
    BY <1>4, <1>8
  <2>2. Queues!Min(U) = CHOOSE x \in U : \A y \in U : x <= y
    BY DEF Queues!Min
  <2> HIDE DEF U
  <2> QED BY <2>1, <2>2
<1>10. Queues!NextAfter(c, s) = queue[s][Queues!Min(U)]
  BY DEF Queues!NextAfter
<1> QED BY <1>1, <1>2, <1>9, <1>10 DEF Unseen

\* push_frame: the frame is the last one; at most the first one is dropped, and
\* only from a full queue.
LEMMA PushedIs ==
  ASSUME NEW q \in Seq(Frames), Len(q) <= Depth, NEW newest \in Frames
  PROVE  \E d \in {0, 1} :
           /\ Queues!Pushed(q, newest) \in Seq(Frames)
           /\ Len(Queues!Pushed(q, newest)) = (Len(q) + 1) - d
           /\ Len(Queues!Pushed(q, newest)) <= Depth
           /\ Queues!Pushed(q, newest)[(Len(q) + 1) - d] = newest
           /\ \A i \in 1..(Len(q) - d) : Queues!Pushed(q, newest)[i] = q[i + d]
           /\ d = 1 => Len(q) = Depth
<1>1. Len(q) \in Nat /\ Depth \in Nat \ {0}
  BY QueuesAssumption
<1>2. CASE Len(q) < Depth
  <2>1. Queues!Pushed(q, newest) = Append(q, newest)
    BY <1>2 DEF Queues!Pushed
  <2>2. /\ Append(q, newest) \in Seq(Frames) /\ Len(Append(q, newest)) = Len(q) + 1
        /\ Append(q, newest)[Len(q) + 1] = newest
        /\ \A i \in 1..Len(q) : Append(q, newest)[i] = q[i]
    BY <1>1
  <2> WITNESS 0 \in {0, 1}
  <2> QED BY <1>1, <1>2, <2>1, <2>2
<1>3. CASE Len(q) = Depth
  <2> DEFINE t == Tail(q)
  <2>1. Queues!Pushed(q, newest) = Append(t, newest)
    BY <1>1, <1>3 DEF Queues!Pushed
  <2>2. /\ t \in Seq(Frames) /\ Len(t) = Len(q) - 1 /\ Len(t) \in Nat
        /\ \A i \in 1..Len(t) : t[i] = q[i + 1]
    BY <1>1, <1>3
  <2> HIDE DEF t
  <2>3. /\ Append(t, newest) \in Seq(Frames) /\ Len(Append(t, newest)) = Len(t) + 1
        /\ Append(t, newest)[Len(t) + 1] = newest
        /\ \A i \in 1..Len(t) : Append(t, newest)[i] = t[i]
    BY <2>2
  <2> WITNESS 1 \in {0, 1}
  <2> QED BY <1>1, <1>3, <2>1, <2>2, <2>3
<1> QED BY <1>1, <1>2, <1>3

\* Queues that stay, or are emptied, are in order.
LEMMA StillInOrder ==
  ASSUME QueuesInv, counter' = counter, clock' \in 1..MaxTick, clock <= clock',
         queue' = [s \in Streams |-> queue'[s]],
         \A s \in Streams : queue'[s] \in {queue[s], << >>}
  PROVE  /\ queue' \in [Streams -> Seq(Frames)] /\ \A s \in Streams : Len(queue'[s]) <= Depth
         /\ Numbered' /\ Timed'
<1>1. /\ Len(<< >>) = 0 /\ << >> \in Seq(Frames) /\ Depth \in Nat \ {0}
      /\ clock \in Int /\ clock' \in Int
  BY QueuesFields
<1>2. \A s \in Streams : queue'[s] \in Seq(Frames) /\ Len(queue'[s]) <= Depth
  <2>1. ASSUME NEW s \in Streams
        PROVE  queue'[s] \in Seq(Frames) /\ Len(queue'[s]) <= Depth
    <3>1. queue[s] \in Seq(Frames) /\ Len(queue[s]) <= Depth
      BY OneQueue
    <3>2. CASE queue'[s] = queue[s]
      BY <3>1, <3>2
    <3>3. CASE queue'[s] = << >>
      BY <1>1, <3>3
    <3> QED BY <3>2, <3>3
  <2> QED BY <2>1
<1>3. queue' \in [Streams -> Seq(Frames)]
  BY <1>2
<1>4. Numbered'
  BY <1>1, OneQueue DEF Numbered
<1>5. Timed'
  <2>1. ASSUME NEW s \in Streams, NEW i \in 1..Len(queue'[s])
        PROVE  /\ queue'[s] = queue[s] /\ i \in 1..Len(queue[s])
               /\ queue[s][i].tick \in Int /\ queue[s][i].tick <= clock
               /\ \A j \in 1..Len(queue[s]) : i <= j => queue[s][i].tick <= queue[s][j].tick
    BY <1>1, <2>1, OneQueue
  <2> QED BY <2>1, <1>1 DEF Timed
<1> QED BY <1>2, <1>3, <1>4, <1>5

\* Another subscriber comes, and leases of its process are superseded.
LEMMA SubscribeStep ==
  ASSUME QueuesInv, NEW c \in Consumers, Queues!Subscribe(c)
  PROVE  QueuesInv'
<1>1. /\ online' = online /\ clock' = clock /\ queue' = queue /\ counter' = counter
      /\ seen' = [seen EXCEPT ![c] = [s \in Streams |-> 0]]
      /\ last' = [last EXCEPT ![c] = 0] /\ lost' = [lost EXCEPT ![c] = {}]
  BY DEF Queues!Subscribe
<1>2. PICK m \in SUBSET Streams, superseded \in SUBSET Consumers :
        /\ lease' = [d \in Consumers |-> IF d = c THEN m
                                         ELSE IF d \in superseded THEN {} ELSE lease[d]]
        /\ reading' = [reading EXCEPT ![c] = m]
  BY DEF Queues!Subscribe
<1>3. /\ seen' \in [Consumers -> [Streams -> 0..MaxFrames]]
      /\ last' \in [Consumers -> 0..MaxTick] /\ lost' \in [Consumers -> SUBSET Streams]
      /\ seen'[c] = [s \in Streams |-> 0] /\ last'[c] = 0
      /\ \A d \in Consumers : d # c => /\ seen'[d] = seen[d] /\ last'[d] = last[d]
                                       /\ lost'[d] = lost[d]
  BY <1>1, QueuesFields
<1>4. /\ lease' \in [Consumers -> SUBSET Streams] /\ reading' \in [Consumers -> SUBSET Streams]
      /\ lease'[c] = m /\ reading'[c] = m
      /\ \A d \in Consumers : d # c => lease'[d] \in {{}, lease[d]} /\ reading'[d] = reading[d]
  BY <1>2, QueuesFields
<1>5. QueuesTypes'
  BY <1>1, <1>3, <1>4, QueuesFields DEF QueuesTypes
<1>6. Numbered' /\ Timed'
  BY <1>1 DEF Numbered, Timed, QueuesInv
<1>7. NothingOlder'
  <2>1. ASSUME NEW d \in Consumers, d # c
        PROVE  /\ last'[d] <= clock'
               /\ \A s \in reading'[d] : \A i \in 1..Len(queue'[s]) :
                    Unseen(d, s, i)' => queue'[s][i].tick >= last'[d]
    BY <2>1, <1>1, <1>3, <1>4 DEF QueuesInv, NothingOlder, Unseen
  <2>2. last'[c] <= clock'
    BY <1>1, <1>3, QueuesFields
  <2>3. ASSUME NEW s \in reading'[c], NEW i \in 1..Len(queue'[s])
        PROVE  queue'[s][i].tick >= last'[c]
    BY <1>1, <1>3, <1>4, OneQueue
  <2> QED BY <2>1, <2>2, <2>3 DEF NothingOlder
<1>8. StillThere'
  <2>1. ASSUME NEW d \in Consumers, d # c, NEW s \in lease'[d]
        PROVE  seen'[d][s] > 0 /\ s \notin lost'[d] /\ counter'[s] - seen'[d][s] <= Depth =>
                 Len(queue'[s]) >= counter'[s] - seen'[d][s]
    BY <2>1, <1>1, <1>3, <1>4 DEF QueuesInv, StillThere
  <2>2. ASSUME NEW s \in lease'[c]
        PROVE  ~(seen'[c][s] > 0)
    BY <1>3, <1>4
  <2> QED BY <2>1, <2>2 DEF StillThere
<1>9. \A d \in Consumers : lease'[d] \in {{}, reading'[d]}
  BY <1>4 DEF QueuesInv
<1> QED BY <1>5, <1>6, <1>7, <1>8, <1>9 DEF QueuesInv

\* A subscriber leaves; the queues that nobody has a lease for are emptied.
LEMMA LeaveStep ==
  ASSUME QueuesInv, NEW c \in Consumers, Queues!Leave(c)
  PROVE  QueuesInv'
<1>1. /\ online' = online /\ clock' = clock /\ counter' = counter
      /\ reading' = [reading EXCEPT ![c] = {}] /\ lease' = [lease EXCEPT ![c] = {}]
      /\ seen' = [seen EXCEPT ![c] = [s \in Streams |-> 0]]
      /\ last' = [last EXCEPT ![c] = 0] /\ lost' = [lost EXCEPT ![c] = {}]
      /\ queue' = IF lease[c] = {} THEN queue ELSE Queues!ClearInactive(lease')
  BY DEF Queues!Leave
<1>2. /\ seen' \in [Consumers -> [Streams -> 0..MaxFrames]]
      /\ last' \in [Consumers -> 0..MaxTick] /\ lost' \in [Consumers -> SUBSET Streams]
      /\ lease' \in [Consumers -> SUBSET Streams] /\ reading' \in [Consumers -> SUBSET Streams]
      /\ last'[c] = 0 /\ lease'[c] = {} /\ reading'[c] = {}
      /\ \A d \in Consumers : d # c => /\ seen'[d] = seen[d] /\ last'[d] = last[d]
                                       /\ lost'[d] = lost[d] /\ lease'[d] = lease[d]
                                       /\ reading'[d] = reading[d]
  BY <1>1, QueuesFields
<1>3. /\ queue' = [s \in Streams |-> queue'[s]]
      /\ \A s \in Streams : queue'[s] \in {queue[s], << >>}
  <2>1. CASE lease[c] = {}
    BY <1>1, <2>1, QueuesFields
  <2>2. CASE lease[c] # {}
    BY <1>1, <2>2 DEF Queues!ClearInactive
  <2> QED BY <2>1, <2>2
<1>4. \A d \in Consumers : \A s \in lease'[d] : queue'[s] = queue[s]
  <2>1. \A d \in Consumers : \A s \in lease'[d] : s \in Streams /\ Queues!Users(lease', s) # {}
    BY <1>2 DEF Queues!Users
  <2> QED BY <1>1, <2>1 DEF Queues!ClearInactive
<1>5. clock' \in 1..MaxTick /\ clock <= clock'
  BY <1>1, QueuesFields
<1>6. /\ queue' \in [Streams -> Seq(Frames)] /\ \A s \in Streams : Len(queue'[s]) <= Depth
      /\ Numbered' /\ Timed'
  BY <1>1, <1>3, <1>5, StillInOrder
<1>7. QueuesTypes'
  BY <1>1, <1>2, <1>6, QueuesFields DEF QueuesTypes
<1>8. NothingOlder'
  <2>1. ASSUME NEW d \in Consumers, d # c, NEW s \in reading'[d], NEW i \in 1..Len(queue'[s]),
               Unseen(d, s, i)'
        PROVE  queue'[s][i].tick >= last'[d]
    <3>1. s \in Streams /\ s \in reading[d]
      BY <1>2, <2>1
    <3>2. queue'[s] = queue[s]
      <4>1. Len(<< >>) = 0
        OBVIOUS
      <4> QED BY <3>1, <1>3, <4>1
    <3> QED BY <2>1, <3>1, <3>2, <1>2 DEF QueuesInv, NothingOlder, Unseen
  <2>2. \A d \in Consumers : last'[d] <= clock'
    BY <1>1, <1>2, <1>5 DEF QueuesInv, NothingOlder
  <2> QED BY <2>1, <2>2, <1>2 DEF NothingOlder
<1>9. StillThere'
  <2>1. ASSUME NEW d \in Consumers, d # c, NEW s \in lease'[d]
        PROVE  seen'[d][s] > 0 /\ s \notin lost'[d] /\ counter'[s] - seen'[d][s] <= Depth =>
                 Len(queue'[s]) >= counter'[s] - seen'[d][s]
    <3>1. /\ seen'[d] = seen[d] /\ lost'[d] = lost[d] /\ lease'[d] = lease[d]
      BY <2>1, <1>2
    <3>2. queue'[s] = queue[s]
      BY <1>4
    <3>3. counter' = counter /\ s \in lease[d]
      BY <3>1, <1>1
    <3> QED BY <3>1, <3>2, <3>3 DEF QueuesInv, StillThere
  <2> QED BY <2>1, <1>2 DEF StillThere
<1>10. \A d \in Consumers : lease'[d] \in {{}, reading'[d]}
  BY <1>2 DEF QueuesInv
<1> QED BY <1>6, <1>7, <1>8, <1>9, <1>10 DEF QueuesInv

\* The session is closed or opened, or time passes.
LEMMA QueuesAround ==
  ASSUME QueuesInv, Queues!Close \/ Queues!Open \/ Queues!Tick
  PROVE  QueuesInv'
<1>1. /\ counter' = counter /\ lease' = lease /\ reading' = reading /\ seen' = seen
      /\ last' = last /\ online' \in BOOLEAN
  BY QueuesFields DEF Queues!Close, Queues!Open, Queues!Tick
<1>2. clock' \in 1..MaxTick /\ clock <= clock'
  BY QueuesFields DEF Queues!Close, Queues!Open, Queues!Tick
<1>3. /\ queue' = [s \in Streams |-> queue'[s]]
      /\ \A s \in Streams : queue'[s] \in {queue[s], << >>}
  BY QueuesFields DEF Queues!Close, Queues!Open, Queues!Tick
<1>4. /\ queue' \in [Streams -> Seq(Frames)] /\ \A s \in Streams : Len(queue'[s]) <= Depth
      /\ Numbered' /\ Timed'
  BY <1>1, <1>2, <1>3, StillInOrder
<1>5. \/ queue' = queue /\ lost' = lost
      \/ lost' = [c \in Consumers |-> reading[c]]
  BY DEF Queues!Close, Queues!Open, Queues!Tick
<1>6. lost' \in [Consumers -> SUBSET Streams]
  BY <1>5, QueuesFields
<1>7. QueuesTypes'
  BY <1>1, <1>2, <1>4, <1>6, QueuesFields DEF QueuesTypes
<1>8. NothingOlder'
  <2>1. ASSUME NEW d \in Consumers, NEW s \in reading'[d], NEW i \in 1..Len(queue'[s]),
               Unseen(d, s, i)'
        PROVE  queue'[s][i].tick >= last'[d]
    <3>1. s \in Streams /\ s \in reading[d]
      BY <1>1, QueuesFields
    <3>2. queue'[s] = queue[s]
      <4>1. Len(<< >>) = 0
        OBVIOUS
      <4> QED BY <3>1, <1>3, <4>1
    <3> QED BY <2>1, <3>1, <3>2, <1>1 DEF QueuesInv, NothingOlder, Unseen
  <2>2. \A d \in Consumers : last'[d] <= clock'
    <3>1. \A d \in Consumers : last[d] <= clock /\ last[d] \in Int
      BY QueuesFields DEF QueuesInv, NothingOlder
    <3> QED BY <1>1, <1>2, <3>1, QueuesFields
  <2> QED BY <2>1, <2>2 DEF NothingOlder
<1>9. StillThere'
  <2>1. CASE queue' = queue /\ lost' = lost
    BY <2>1, <1>1 DEF QueuesInv, StillThere
  <2>2. CASE lost' = [c \in Consumers |-> reading[c]]
    <3>1. \A d \in Consumers : lease'[d] \subseteq lost'[d]
      BY <1>1, <2>2 DEF QueuesInv
    <3> QED BY <3>1 DEF StillThere
  <2> QED BY <1>5, <2>1, <2>2
<1> QED BY <1>1, <1>4, <1>7, <1>8, <1>9 DEF QueuesInv

\* on_rgb, on_hq_rgb, on_ir and on_depth: the new frame is the newest, and who
\* misses the one that it pushes out is behind by more than a queue.
LEMMA PublishStep ==
  ASSUME QueuesInv, NEW s \in Streams, Queues!Publish(s)
  PROVE  QueuesInv'
<1> DEFINE newest == [seq |-> counter[s] + 1, tick |-> clock]
           old == queue[s]
           new == Queues!Pushed(old, newest)
<1>1. /\ online' = online /\ clock' = clock /\ lease' = lease /\ reading' = reading
      /\ seen' = seen /\ last' = last /\ lost' = lost
      /\ counter[s] < MaxFrames /\ counter' = [counter EXCEPT ![s] = counter[s] + 1]
      /\ queue' = [queue EXCEPT ![s] = new]
  BY DEF Queues!Publish
<1>2. newest \in Frames /\ newest.seq = counter[s] + 1 /\ newest.tick = clock
  BY <1>1, QueuesFields DEF Frames
<1>3. /\ old \in Seq(Frames) /\ Len(old) \in Nat /\ Len(old) <= Depth
      /\ counter[s] \in 0..MaxFrames
  BY OneQueue
<1> HIDE DEF newest, new
<1>4. PICK d \in {0, 1} :
        /\ new \in Seq(Frames) /\ Len(new) = (Len(old) + 1) - d /\ Len(new) <= Depth
        /\ new[(Len(old) + 1) - d] = newest
        /\ \A i \in 1..(Len(old) - d) : new[i] = old[i + d]
        /\ d = 1 => Len(old) = Depth
  BY <1>2, <1>3, PushedIs DEF new
<1>5. /\ queue' \in [Streams -> Seq(Frames)] /\ queue'[s] = new
      /\ \A u \in Streams : u # s => queue'[u] = queue[u]
      /\ counter' \in [Streams -> 0..MaxFrames] /\ counter'[s] = counter[s] + 1
      /\ \A u \in Streams : u # s => counter'[u] = counter[u]
  BY <1>1, <1>3, <1>4, QueuesFields
<1>6. \A u \in Streams : Len(queue'[u]) <= Depth
  BY <1>4, <1>5, OneQueue
<1>7. QueuesTypes'
  BY <1>1, <1>5, <1>6, QueuesFields DEF QueuesTypes
<1>8. \A i \in 1..Len(new) :
        \/ i = Len(new) /\ new[i] = newest
        \/ /\ i < Len(new) /\ new[i] = old[i + d] /\ i + d \in 1..Len(old)
  <2>1. \A i \in 1..Len(new) : i = (Len(old) + 1) - d \/ (i \in 1..(Len(old) - d) /\ i + d \in 1..Len(old))
    <3>1. Len(new) = (Len(old) + 1) - d /\ Len(old) \in Nat
      BY <1>3, <1>4
    <3>2. CASE d = 0
      BY <3>1, <3>2
    <3>3. CASE d = 1
      BY <3>1, <3>3
    <3> QED BY <3>2, <3>3
  <2> QED BY <1>3, <1>4, <2>1
<1>9. Numbered'
  <2>1. ASSUME NEW i \in 1..Len(new)
        PROVE  new[i].seq = ((counter[s] + 1) - Len(new)) + i
    <3>1. CASE i = Len(new) /\ new[i] = newest
      BY <3>1, <1>2, <1>3, <1>4
    <3>2. CASE /\ i < Len(new) /\ new[i] = old[i + d] /\ i + d \in 1..Len(old)
      <4>1. old[i + d].seq = (counter[s] - Len(old)) + (i + d)
        BY <3>2, OneQueue
      <4> QED BY <3>2, <4>1, <1>3, <1>4
    <3> QED BY <1>8, <3>1, <3>2
  <2>2. ASSUME NEW u \in Streams, u # s, NEW i \in 1..Len(queue'[u])
        PROVE  queue'[u][i].seq = (counter'[u] - Len(queue'[u])) + i
    <3>1. queue'[u] = queue[u] /\ counter'[u] = counter[u]
      BY <2>2, <1>5
    <3>2. queue[u][i].seq = (counter[u] - Len(queue[u])) + i
      BY <2>2, <3>1, OneQueue
    <3> QED BY <3>1, <3>2
  <2> QED BY <2>1, <2>2, <1>5 DEF Numbered
<1>10. Timed'
  <2>1. ASSUME NEW i \in 1..Len(new)
        PROVE  new[i].tick <= clock /\ \A j \in 1..Len(new) : i <= j => new[i].tick <= new[j].tick
    <3>1. \A k \in 1..Len(old) : old[k].tick <= clock /\ old[k].tick \in Int
                                 /\ \A j \in 1..Len(old) : k <= j => old[k].tick <= old[j].tick
      BY OneQueue
    <3>2. clock \in Int
      BY QueuesFields
    <3>3. CASE i = Len(new) /\ new[i] = newest
      BY <3>2, <3>3, <1>2, <1>3, <1>4
    <3>4. CASE /\ i < Len(new) /\ new[i] = old[i + d] /\ i + d \in 1..Len(old)
      <4>1. new[i].tick <= clock
        BY <3>1, <3>4
      <4>2. ASSUME NEW j \in 1..Len(new), i <= j
            PROVE  new[i].tick <= new[j].tick
        <5>1. CASE j = Len(new) /\ new[j] = newest
          BY <4>1, <5>1, <1>2
        <5>2. CASE /\ j < Len(new) /\ new[j] = old[j + d] /\ j + d \in 1..Len(old)
          <6>1. i + d <= j + d
            BY <4>2, <1>3, <1>4
          <6> QED BY <3>1, <3>4, <5>2, <6>1
        <5> QED BY <1>8, <5>1, <5>2
      <4> QED BY <4>1, <4>2
    <3> QED BY <1>8, <3>3, <3>4
  <2>2. ASSUME NEW u \in Streams, u # s, NEW i \in 1..Len(queue'[u])
        PROVE  /\ queue'[u][i].tick <= clock'
               /\ \A j \in 1..Len(queue'[u]) : i <= j => queue'[u][i].tick <= queue'[u][j].tick
    BY <2>2, <1>1, <1>5, OneQueue
  <2> QED BY <2>1, <2>2, <1>1, <1>5 DEF Timed
<1>11. NothingOlder'
  <2>1. ASSUME NEW c \in Consumers, NEW u \in reading[c], NEW i \in 1..Len(queue'[u]),
               queue'[u][i].seq > seen[c][u]
        PROVE  queue'[u][i].tick >= last[c]
    <3>1. u \in Streams /\ last[c] <= clock
      BY QueuesFields DEF QueuesInv, NothingOlder
    <3>2. \A k \in 1..Len(queue[u]) : queue[u][k].seq > seen[c][u] => queue[u][k].tick >= last[c]
      BY DEF QueuesInv, NothingOlder, Unseen
    <3>3. CASE u # s
      BY <2>1, <3>1, <3>2, <3>3, <1>5
    <3>4. CASE u = s
      <4>1. CASE i = Len(new) /\ new[i] = newest
        <5>1. last[c] \in Int /\ clock \in Int
          BY QueuesFields
        <5> QED BY <3>1, <3>4, <4>1, <1>2, <1>5, <5>1
      <4>2. CASE /\ i < Len(new) /\ new[i] = old[i + d] /\ i + d \in 1..Len(old)
        BY <2>1, <3>2, <3>4, <4>2, <1>5
      <4> QED BY <1>5, <1>8, <3>4, <4>1, <4>2
    <3> QED BY <3>3, <3>4
  <2>2. \A c \in Consumers : last[c] <= clock
    BY DEF QueuesInv, NothingOlder
  <2> QED BY <2>1, <2>2, <1>1 DEF NothingOlder, Unseen
<1>12. StillThere'
  <2>1. ASSUME NEW c \in Consumers, NEW u \in lease[c], seen[c][u] > 0, u \notin lost[c],
               counter'[u] - seen[c][u] <= Depth
        PROVE  Len(queue'[u]) >= counter'[u] - seen[c][u]
    <3>1. /\ u \in Streams /\ seen[c][u] \in Int /\ counter[u] \in Int /\ Depth \in Int
      BY QueuesFields
    <3>2. counter[u] - seen[c][u] <= Depth => Len(queue[u]) >= counter[u] - seen[c][u]
      BY <2>1 DEF QueuesInv, StillThere
    <3>3. CASE u # s
      BY <2>1, <3>1, <3>2, <3>3, <1>5
    <3>4. CASE u = s
      <4>1. counter'[u] = counter[u] + 1 /\ queue'[u] = new /\ queue[u] = old
        BY <3>4, <1>5
      <4>2. Len(old) >= counter[u] - seen[c][u]
        BY <2>1, <3>1, <3>2, <4>1
      <4>3. CASE d = 0
        BY <3>1, <4>1, <4>2, <4>3, <1>3, <1>4
      <4>4. CASE d = 1
        BY <2>1, <3>1, <4>1, <4>4, <1>3, <1>4
      <4> QED BY <4>3, <4>4
    <3> QED BY <3>3, <3>4
  <2> QED BY <2>1, <1>1 DEF StillThere
<1>13. \A c \in Consumers : lease'[c] \in {{}, reading'[c]}
  BY <1>1 DEF QueuesInv
<1> QED BY <1>7, <1>9, <1>10, <1>11, <1>12, <1>13 DEF QueuesInv

\* wait_next: the frame that is delivered is in order, and the one after the last
\* that was seen unless that is gone.
LEMMA DeliverStep ==
  ASSUME QueuesInv, NEW c \in Consumers, NEW s \in Streams, Queues!Deliver(c, s)
  PROVE  /\ QueuesInv' /\ last'[c] >= last[c]
         /\ lease[c] # {} /\ seen[c][s] > 0 /\ seen'[c][s] > seen[c][s] + 1 =>
              counter[s] - seen[c][s] > Depth \/ s \in lost[c]
<1>1. /\ s \in Queues!Candidates(c) /\ Queues!Earliest(c, s)
      /\ seen' = [seen EXCEPT ![c][s] = Queues!NextAfter(c, s).seq]
      /\ last' = [last EXCEPT ![c] = Queues!NextAfter(c, s).tick]
      /\ lost' = [lost EXCEPT ![c] = lost[c] \ {s}]
      /\ online' = online /\ clock' = clock /\ queue' = queue /\ counter' = counter
      /\ lease' = lease /\ reading' = reading
  BY DEF Queues!Deliver
<1>2. PICK n \in 1..Len(queue[s]) :
        /\ Queues!NextAfter(c, s) = queue[s][n] /\ Unseen(c, s, n)
        /\ \A i \in 1..Len(queue[s]) : Unseen(c, s, i) => n <= i
  BY <1>1, NextIsFirstUnseen
<1>3. PICK q, t : q = queue[s][n].seq /\ t = queue[s][n].tick
  OBVIOUS
<1>4. /\ q \in 1..MaxFrames /\ t \in 1..MaxTick /\ t <= clock
      /\ q = (counter[s] - Len(queue[s])) + n /\ q > seen[c][s]
      /\ counter[s] \in Nat /\ Len(queue[s]) \in Nat /\ seen[c][s] \in Nat
      /\ last[c] \in Nat /\ clock \in Nat
  BY <1>2, <1>3, OneQueue, QueuesFields DEF Unseen
<1>5. /\ seen' \in [Consumers -> [Streams -> 0..MaxFrames]] /\ seen'[c][s] = q
      /\ \A d \in Consumers, u \in Streams : d # c \/ u # s => seen'[d][u] = seen[d][u]
  BY SMTT(30), <1>1, <1>2, <1>3, <1>4, QueuesFields
<1>6. /\ last' \in [Consumers -> 0..MaxTick] /\ last'[c] = t
      /\ \A d \in Consumers : d # c => last'[d] = last[d]
      /\ lost' \in [Consumers -> SUBSET Streams] /\ lost'[c] = lost[c] \ {s}
      /\ \A d \in Consumers : d # c => lost'[d] = lost[d]
  <2>1. last' = [last EXCEPT ![c] = t] /\ lost' = [lost EXCEPT ![c] = lost[c] \ {s}]
    BY <1>1, <1>2, <1>3
  <2>2. /\ last \in [Consumers -> 0..MaxTick] /\ lost \in [Consumers -> SUBSET Streams]
        /\ t \in 0..MaxTick
    BY <1>4, QueuesFields
  <2> QED BY <2>1, <2>2
<1>7. s \in reading[c]
  BY <1>1, NextIsFirstUnseen
<1>8. t >= last[c]
  BY <1>2, <1>3, <1>7 DEF QueuesInv, NothingOlder
<1>9. QueuesTypes'
  BY <1>1, <1>5, <1>6, QueuesFields DEF QueuesTypes
<1>10. Numbered' /\ Timed'
  BY <1>1 DEF Numbered, Timed, QueuesInv
<1>11. NothingOlder'
  <2>1. ASSUME NEW u \in reading[c], NEW i \in 1..Len(queue[u]), queue[u][i].seq > seen'[c][u]
        PROVE  queue[u][i].tick >= t
    <3>1. u \in Streams
      BY QueuesFields
    <3>2. CASE u = s
      <4>1. n <= i
        <5>1. queue[s][i].seq = (counter[s] - Len(queue[s])) + i
          BY <3>2, OneQueue
        <5> QED BY <2>1, <3>2, <5>1, <1>4, <1>5
      <4>2. queue[s][n].tick <= queue[s][i].tick /\ queue[s][i].tick \in Int
        BY <3>2, <4>1, OneQueue
      <4> QED BY <3>2, <4>2, <1>3, <1>4
    <3>3. CASE u # s
      <4>1. Unseen(c, u, i)
        BY <2>1, <3>1, <3>3, <1>5 DEF Unseen
      <4>2. u \in Queues!Candidates(c)
        <5>1. DOMAIN queue[u] = 1..Len(queue[u])
          BY <3>1, OneQueue
        <5> QED BY <4>1, <5>1 DEF Queues!Candidates, Unseen
      <4>3. PICK m \in 1..Len(queue[u]) :
              /\ Queues!NextAfter(c, u) = queue[u][m]
              /\ \A k \in 1..Len(queue[u]) : Unseen(c, u, k) => m <= k
        BY <4>2, NextIsFirstUnseen
      <4>4. t <= queue[u][m].tick
        <5>1. queue[u][m].tick \in Int
          BY <3>1, OneQueue
        <5>2. t < queue[u][m].tick \/ t = queue[u][m].tick
          BY <4>2, <4>3, <3>3, <1>1, <1>2, <1>3 DEF Queues!Earliest
        <5> QED BY <5>1, <5>2, <1>4
      <4>5. queue[u][m].tick <= queue[u][i].tick
        <5>1. m <= i
          BY <4>1, <4>3
        <5> QED BY <5>1, <3>1, OneQueue
      <4>6. queue[u][m].tick \in Int /\ queue[u][i].tick \in Int
        BY <3>1, OneQueue
      <4> QED BY SMTT(30), <4>4, <4>5, <4>6, <1>4
    <3> QED BY <3>2, <3>3
  <2>2. ASSUME NEW d \in Consumers, d # c, NEW u \in reading[d], NEW i \in 1..Len(queue[u]),
               queue[u][i].seq > seen'[d][u]
        PROVE  queue[u][i].tick >= last[d]
    <3>1. u \in Streams
      BY QueuesFields
    <3>2. seen'[d][u] = seen[d][u]
      BY <2>2, <3>1, <1>5
    <3> QED BY <2>2, <3>2 DEF QueuesInv, NothingOlder, Unseen
  <2>3. \A d \in Consumers : last'[d] <= clock
    BY <1>4, <1>6 DEF QueuesInv, NothingOlder
  <2>4. ASSUME NEW d \in Consumers
        PROVE  /\ last'[d] <= clock'
               /\ \A u \in reading'[d] : \A i \in 1..Len(queue'[u]) :
                    queue'[u][i].seq > seen'[d][u] => queue'[u][i].tick >= last'[d]
    <3>1. CASE d = c
      BY <2>1, <2>3, <3>1, <1>1, <1>6
    <3>2. CASE d # c
      BY <2>2, <2>3, <3>2, <1>1, <1>6
    <3> QED BY <3>1, <3>2
  <2> QED BY <2>4 DEF NothingOlder, Unseen
<1>12. StillThere'
  <2>1. ASSUME NEW d \in Consumers, NEW u \in lease[d], seen'[d][u] > 0, u \notin lost'[d],
               counter[u] - seen'[d][u] <= Depth
        PROVE  Len(queue[u]) >= counter[u] - seen'[d][u]
    <3>1. u \in Streams
      BY QueuesFields
    <3>2. CASE d = c /\ u = s
      BY <3>2, <1>4, <1>5
    <3>3. CASE ~(d = c /\ u = s)
      <4>1. seen'[d][u] = seen[d][u]
        BY <3>1, <3>3, <1>5
      <4>2. u \notin lost[d]
        BY <2>1, <3>3, <1>6
      <4> QED BY <2>1, <4>1, <4>2 DEF QueuesInv, StillThere
    <3> QED BY <3>2, <3>3
  <2> QED BY <2>1, <1>1 DEF StillThere
<1>13. \A d \in Consumers : lease'[d] \in {{}, reading'[d]}
  BY <1>1 DEF QueuesInv
<1>14. ASSUME lease[c] # {}, seen[c][s] > 0, seen'[c][s] > seen[c][s] + 1, s \notin lost[c],
              ~(counter[s] - seen[c][s] > Depth)
       PROVE  FALSE
  <2>1. Depth \in Nat
    BY QueuesFields
  <2>2. Len(queue[s]) >= counter[s] - seen[c][s]
    <3>1. lease[c] = reading[c]
      BY <1>14 DEF QueuesInv
    <3> QED BY <1>4, <1>7, <1>14, <2>1, <3>1 DEF QueuesInv, StillThere
  <2> DEFINE i == (seen[c][s] + 1) - (counter[s] - Len(queue[s]))
  <2>3. i \in 1..Len(queue[s]) /\ i < n
    <3>1. q > seen[c][s] + 1 /\ n \in Nat /\ n <= Len(queue[s])
      BY <1>4, <1>5, <1>14
    <3>2. PICK l, k, x : l = Len(queue[s]) /\ k = counter[s] /\ x = seen[c][s]
      OBVIOUS
    <3>3. /\ l \in Nat /\ k \in Nat /\ x \in Nat /\ q = (k - l) + n /\ q > x + 1 /\ l >= k - x
          /\ n \in Nat /\ n <= l
      BY <3>1, <3>2, <1>4, <2>2
    <3>4. (x + 1) - (k - l) \in 1..l /\ (x + 1) - (k - l) < n
      BY <3>3
    <3> QED BY <3>2, <3>4
  <2>4. queue[s][i].seq = (counter[s] - Len(queue[s])) + i
    BY <2>3, OneQueue
  <2>5. Unseen(c, s, i)
    BY SMTT(30), <1>4, <2>3, <2>4 DEF Unseen
  <2> HIDE DEF i
  <2> QED BY <1>2, <2>3, <2>5
<1>15. last'[c] >= last[c]
  BY <1>6, <1>8
<1> QED BY <1>9, <1>10, <1>11, <1>12, <1>13, <1>14, <1>15 DEF QueuesInv

\* The queues at their start.
LEMMA QueuesInitial ==
  ASSUME Queues!Init
  PROVE  QueuesInv
<1>1. /\ Depth \in Nat \ {0} /\ MaxTick \in Nat \ {0} /\ MaxFrames \in Nat
      /\ Len(<< >>) = 0 /\ << >> \in Seq(Frames)
  BY QueuesAssumption
<1>2. \A s \in Streams : queue[s] = << >> /\ Len(queue[s]) = 0
  BY <1>1 DEF Queues!Init
<1>3. QueuesTypes
  BY <1>1, <1>2 DEF QueuesTypes, Queues!Init
<1>4. Numbered /\ Timed
  BY <1>2 DEF Numbered, Timed
<1>5. \A c \in Consumers : lease[c] = {} /\ reading[c] = {} /\ last[c] = 0
  BY DEF Queues!Init
<1>6. NothingOlder /\ StillThere
  BY <1>1, <1>5 DEF NothingOlder, StillThere, Queues!Init
<1> QED BY <1>3, <1>4, <1>5, <1>6 DEF QueuesInv

\* Nothing breaks the invariant of the queues.
LEMMA QueuesStep ==
  ASSUME QueuesInv, Queues!Next \/ UNCHANGED queuesVars
  PROVE  QueuesInv'
<1>1. CASE UNCHANGED queuesVars
  BY <1>1 DEF queuesVars, QueuesInv, QueuesTypes, Numbered, Timed, NothingOlder, StillThere, Unseen
<1> QED BY <1>1, SubscribeStep, LeaveStep, DeliverStep, PublishStep, QueuesAround DEF Queues!Next

\* Its types are those of the model.
LEMMA QueuesTypeOK ==
  ASSUME QueuesInv
  PROVE  Queues!TypeOK
<1>1. ASSUME NEW s \in Streams
      PROVE  /\ Len(queue[s]) <= Depth
             /\ \A i \in DOMAIN queue[s] : queue[s][i] \in [seq : 1..MaxFrames, tick : 1..MaxTick]
  BY OneQueue DEF Frames
<1> QED BY <1>1, QueuesFields DEF Queues!TypeOK

-----------------------------------------------------------------------------
(* The three parts that have their proofs in modules of their own.  An      *)
(* instance of such a module has its own copy of the part's definitions:    *)
(* the copies say the same, so a step of the part is one of the copy.       *)

AssemblerP == INSTANCE FrameAssemblerProofs
IsoP       == INSTANCE IsoStreamProofs
RegistryP  == INSTANCE DeviceRegistryProofs
                WITH online <- ready, pc <- bridge, serving <- service, changes <- moves

\* The assembler that is checked is the assembler of the proofs.
LEMMA AssemblerNames ==
  /\ Assembler!Places = AssemblerP!Places /\ Assembler!Zeros = AssemblerP!Zeros
  /\ Assembler!Unsynced = AssemblerP!Unsynced
  /\ \A i : Assembler!FlagOf(i) = AssemblerP!FlagOf(i)
BY DEF Assembler!Unsynced, AssemblerP!Unsynced, Assembler!Zeros, AssemblerP!Zeros,
   Assembler!Places, AssemblerP!Places, Assembler!FlagOf, AssemblerP!FlagOf

\* Both make the same of a packet.
LEMMA AssemblerProcesses ==
  ASSUME NEW flag, NEW damage
  PROVE  Assembler!Process(flag, damage) = AssemblerP!Process(flag, damage)
<1>1. Assembler!Resync(flag) = AssemblerP!Resync(flag)
  BY AssemblerNames, Zenon DEF Assembler!Resync, AssemblerP!Resync, Assembler!Started,
     AssemblerP!Started
<1> QED
  BY AssemblerNames, <1>1, Zenon DEF Assembler!Process, AssemblerP!Process, Assembler!Flagged,
     AssemblerP!Flagged, Assembler!Fits, AssemblerP!Fits, Assembler!Stored, AssemblerP!Stored,
     Assembler!Started, AssemblerP!Started, Assembler!FlagOf, AssemblerP!FlagOf

\* A packet that arrives is the same step of both.
LEMMA AssemblerReceives ==
  ASSUME NEW damage, Assembler!Receive(damage)
  PROVE  AssemblerP!Receive(damage)
BY AssemblerNames, AssemblerProcesses, Zenon
   DEF Assembler!Receive, AssemblerP!Receive, Assembler!Advance, AssemblerP!Advance

\* ... and so is every other step.
LEMMA AssemblerSteps ==
  ASSUME Assembler!Next
  PROVE  AssemblerP!Next
BY AssemblerNames, AssemblerReceives, Zenon
   DEF Assembler!Next, AssemblerP!Next, Assembler!Lose, AssemblerP!Lose, Assembler!Restart,
   AssemblerP!Restart, Assembler!Advance, AssemblerP!Advance

\* The constants of the transfers.
LEMMA IsoNames ==
  Iso!Slots = IsoP!Slots /\ Iso!Idle = IsoP!Idle /\ Iso!Retired = IsoP!Retired
BY DEF Iso!Slots, Iso!Idle, Iso!Retired, IsoP!Slots, IsoP!Idle, IsoP!Retired

\* A step of the transfers that are checked is one of those of the proofs.
LEMMA IsoSteps ==
  ASSUME Iso!Next
  PROVE  IsoP!Next
<1>1. CASE Iso!Thread
  <2>1. Iso!Submit => IsoP!Submit
    BY IsoNames, Zenon DEF Iso!Submit, IsoP!Submit, Iso!BeginStop, IsoP!BeginStop,
       Iso!With, IsoP!With
  <2>2. Iso!Cancel => IsoP!Cancel
    BY IsoNames, Zenon DEF Iso!Cancel, IsoP!Cancel, Iso!With, IsoP!With
  <2>3. Iso!Free => IsoP!Free
    BY IsoNames, Zenon DEF Iso!Free, IsoP!Free
  <2> QED BY <1>1, <2>1, <2>2, <2>3 DEF Iso!Thread, IsoP!Thread, IsoP!Next
<1>2. CASE Iso!Reopen \/ Iso!Unplug
  <2>1. IsoP!Reopen \/ IsoP!Unplug
    BY <1>2, IsoNames, Zenon DEF Iso!Reopen, IsoP!Reopen, Iso!Unplug, IsoP!Unplug
  <2> QED BY <2>1 DEF IsoP!Next
<1>3. ASSUME NEW s \in Streams, Iso!Start(s) \/ Iso!Stop(s)
      PROVE  IsoP!Next
  <2>1. IsoP!Start(s) \/ IsoP!Stop(s)
    BY <1>3, IsoNames DEF Iso!Start, IsoP!Start, Iso!Stop, IsoP!Stop, Iso!BeginStop, IsoP!BeginStop
  <2> QED BY <2>1 DEF IsoP!Next
<1>4. ASSUME NEW s \in Streams, NEW i \in Iso!Slots, Iso!Handle(s, i) \/ Iso!Retire(s, i)
      PROVE  IsoP!Next
  <2>1. i \in IsoP!Slots
    BY IsoNames
  <2>2. IsoP!Handle(s, i) \/ IsoP!Retire(s, i)
    BY <1>4, IsoNames, Zenon DEF Iso!Handle, IsoP!Handle, Iso!Retire, IsoP!Retire,
       Iso!Fatal, IsoP!Fatal, Iso!Deactivate, IsoP!Deactivate, Iso!With, IsoP!With
  <2> QED BY <2>1, <2>2 DEF IsoP!Next
<1> QED BY <1>1, <1>2, <1>3, <1>4 DEF Iso!Next

\* The names the two instances of the registry give to its values.
LEMMA RegistryNames ==
  /\ Registry!None = RegistryP!None /\ Registry!Slot = RegistryP!Slot /\ Registry!NoSlots = RegistryP!NoSlots
  /\ Registry!NoNodes = RegistryP!NoNodes /\ Registry!NoRow = RegistryP!NoRow
  /\ Registry!EmptyManifest = RegistryP!EmptyManifest
  /\ Registry!AgedNodes = RegistryP!AgedNodes
  /\ \A kept : Registry!write_manifest(kept) = RegistryP!write_manifest(kept)
BY Zenon DEF Registry!None, RegistryP!None, Registry!Slot, RegistryP!Slot, Registry!NoSlots, RegistryP!NoSlots,
   Registry!NoNodes, RegistryP!NoNodes, Registry!EmptyManifest, RegistryP!EmptyManifest, Registry!NoRow,
   RegistryP!NoRow, Registry!AgedNodes, RegistryP!AgedNodes, Registry!write_manifest, RegistryP!write_manifest

\* What they take from the community modules is the same, and so is Given.
LEMMA RegistrySets ==
  /\ \A S : Registry!Cardinality(S) = RegistryP!Cardinality(S)
  /\ \A f : Registry!Range(f) = RegistryP!Range(f) /\ Registry!Given(f) = RegistryP!Given(f)
  /\ \A k, S : Registry!kSubset(k, S) = RegistryP!kSubset(k, S)
  /\ \A S, T : Registry!Bijection(S, T) = RegistryP!Bijection(S, T)
<1>1. \A S : Registry!Cardinality(S) = RegistryP!Cardinality(S)
  BY DEF Registry!Cardinality, RegistryP!Cardinality
<1>2. \A f : Registry!Range(f) = RegistryP!Range(f) /\ Registry!Given(f) = RegistryP!Given(f)
  BY DEF Registry!Range, RegistryP!Range, Registry!Given, RegistryP!Given
<1>3. \A k, S : Registry!kSubset(k, S) = RegistryP!kSubset(k, S)
  BY <1>1 DEF Registry!kSubset, RegistryP!kSubset
<1>4. \A S, T : Registry!Bijection(S, T) = RegistryP!Bijection(S, T)
  BY DEF Registry!Bijection, RegistryP!Bijection, Registry!Injection, RegistryP!Injection,
     Registry!Surjection, RegistryP!Surjection, Registry!IsInjective, RegistryP!IsInjective
<1> QED BY <1>1, <1>2, <1>3, <1>4

\* They allocate the same slots.
LEMMA RegistryAllocates ==
  ASSUME NEW newcomers
  PROVE  Registry!Allocated(newcomers) = RegistryP!Allocated(newcomers)
<1> DEFINE free1 == Registry!Slot \ Registry!Range(slots)
           n1 == IF Registry!Cardinality(newcomers) < Registry!Cardinality(free1)
                 THEN Registry!Cardinality(newcomers) ELSE Registry!Cardinality(free1)
           given1 == {s \in free1 : Registry!Cardinality({t \in free1 : t < s}) < n1}
           free == RegistryP!Slot \ RegistryP!Range(slots)
           n == IF RegistryP!Cardinality(newcomers) < RegistryP!Cardinality(free)
                THEN RegistryP!Cardinality(newcomers) ELSE RegistryP!Cardinality(free)
           given == {s \in free : RegistryP!Cardinality({t \in free : t < s}) < n}
<1>1. Registry!Allocated(newcomers) =
        {Registry!Given(f) : f \in UNION {Registry!Bijection(S, given1) :
                                            S \in Registry!kSubset(n1, newcomers)}}
  BY DEF Registry!Allocated
<1>2. RegistryP!Allocated(newcomers) =
        {RegistryP!Given(f) : f \in UNION {RegistryP!Bijection(S, given) : S \in RegistryP!kSubset(n, newcomers)}}
  BY DEF RegistryP!Allocated
<1>3. free1 = free
  BY RegistryNames, RegistrySets
<1> HIDE DEF free1, free
<1>4. n1 = n
  BY <1>3, RegistrySets
<1> HIDE DEF n1, n
<1>5. given1 = given
  BY <1>3, <1>4, RegistrySets
<1> HIDE DEF given1, given
<1>6. {Registry!Bijection(S, given1) : S \in Registry!kSubset(n1, newcomers)} =
      {RegistryP!Bijection(S, given) : S \in RegistryP!kSubset(n, newcomers)}
  BY <1>4, <1>5, RegistrySets
<1>7. \A A : {Registry!Given(f) : f \in A} = {RegistryP!Given(f) : f \in A}
  BY RegistrySets
<1> DEFINE B1 == UNION {Registry!Bijection(S, given1) : S \in Registry!kSubset(n1, newcomers)}
           B == UNION {RegistryP!Bijection(S, given) : S \in RegistryP!kSubset(n, newcomers)}
<1>8. B1 = B
  BY <1>6
<1>9. Registry!Allocated(newcomers) = {Registry!Given(f) : f \in B1}
      /\ RegistryP!Allocated(newcomers) = {RegistryP!Given(f) : f \in B}
  BY <1>1, <1>2
<1> HIDE DEF B1, B
<1> QED BY <1>7, <1>8, <1>9

\* A pass of the bridge is one in both.
LEMMA RegistryUpdates ==
  ASSUME Registry!Update
  PROVE  RegistryP!Update
<1> DEFINE new == {k \in {j \in Ids : manifest[j].state # "none"} \ DOMAIN slots :
                     workers[k] = RegistryP!None}
<1>1. {k \in {j \in Ids : manifest[j].state # "none"} \ DOMAIN slots :
         workers[k] = Registry!None} = new
  BY RegistryNames
<1>2. \A k, all : Registry!Aged(k, all) = RegistryP!Aged(k, all)
  BY RegistryNames DEF Registry!Aged, RegistryP!Aged, Registry!camera_endpoint, RegistryP!camera_endpoint
<1>3. ASSUME NEW all
      PROVE  /\ {k \in Ids : Registry!Aged(k, all) >= Grace} = {k \in Ids : RegistryP!Aged(k, all) >= Grace}
             /\ \A S : [k \in Ids |-> IF k \in S THEN Registry!None ELSE Registry!Aged(k, all)]
                       = [k \in Ids |-> IF k \in S THEN RegistryP!None ELSE RegistryP!Aged(k, all)]
  BY <1>2, RegistryNames
<1> DEFINE expired(all) == {k \in Ids : RegistryP!Aged(k, all) >= Grace}
<1>4. PICK all \in Registry!Allocated(new) :
        /\ workers' = [k \in Ids |-> IF k \in {j \in Ids : Registry!Aged(j, all) >= Grace}
                                     THEN Registry!None ELSE Registry!Aged(k, all)]
        /\ slots' = [k \in DOMAIN all \ {j \in Ids : Registry!Aged(j, all) >= Grace} |-> all[k]]
  <2> HIDE DEF new
  <2> QED BY <1>1, Zenon DEF Registry!Update
<1>5. all \in RegistryP!Allocated(new)
  BY <1>4, RegistryAllocates, Zenon
<1>6. /\ workers' = [k \in Ids |-> IF k \in expired(all) THEN RegistryP!None ELSE RegistryP!Aged(k, all)]
      /\ slots' = [k \in DOMAIN all \ expired(all) |-> all[k]]
  <2>1. workers' = [k \in Ids |-> IF k \in expired(all) THEN Registry!None ELSE Registry!Aged(k, all)]
    BY <1>3, <1>4
  <2>2. slots' = [k \in DOMAIN all \ expired(all) |-> all[k]]
    BY <1>3, <1>4
  <2> QED BY <2>1, <2>2, <1>3
<1>7. bridge = "update" /\ bridge' = "save" 
      /\ UNCHANGED <<attached, ready, nodes, manifest, file, virtual, service, moves>>
  BY DEF Registry!Update
<1> QED BY <1>5, <1>6, <1>7, Zenon DEF RegistryP!Update

\* A step of the registry that is checked is one of the registry of the proofs.
LEMMA RegistrySteps ==
  ASSUME Registry!Next
  PROVE  RegistryP!Next
<1>1. /\ \A old, contents, new : Registry!Written(old, contents, new) => RegistryP!Written(old, contents, new)
      /\ Registry!Changed => RegistryP!Changed
  BY DEF Registry!Written, RegistryP!Written, Registry!Changed, RegistryP!Changed
<1>2. CASE Registry!Outside
  <2>1. ASSUME NEW k \in Ids,
               Registry!Attach(k) \/ Registry!Detach(k) \/ Registry!Opened(k) \/ Registry!Lost(k)
        PROVE  RegistryP!Next
    <3>1. RegistryP!Attach(k) \/ RegistryP!Detach(k) \/ RegistryP!Opened(k) \/ RegistryP!Lost(k)
      BY <1>1, <2>1, RegistryNames DEF Registry!Attach, RegistryP!Attach, Registry!Detach, RegistryP!Detach,
         Registry!Opened, RegistryP!Opened, Registry!Lost, RegistryP!Lost
    <3> QED BY <3>1 DEF RegistryP!Next, RegistryP!Outside
  <2>2. CASE Registry!ServiceEnds \/ Registry!ServiceStarts
    <3>1. RegistryP!ServiceEnds \/ RegistryP!ServiceStarts
      BY <1>1, <2>2, RegistryNames DEF Registry!ServiceEnds, RegistryP!ServiceEnds,
         Registry!ServiceStarts, RegistryP!ServiceStarts
    <3> QED BY <3>1 DEF RegistryP!Next, RegistryP!Outside
  <2>3. CASE Registry!BridgeEnds \/ Registry!BridgeStarts
    <3>1. RegistryP!BridgeEnds \/ RegistryP!BridgeStarts
      BY <1>1, <2>3, RegistryNames DEF Registry!BridgeEnds, RegistryP!BridgeEnds,
         Registry!BridgeStarts, RegistryP!BridgeStarts
    <3> QED BY <3>1 DEF RegistryP!Next, RegistryP!Outside
  <2> QED BY <1>2, <2>1, <2>2, <2>3 DEF Registry!Outside
<1>3. CASE Registry!ServicePass
  <2>1. RegistryP!ServicePass
    BY <1>1, <1>3, RegistryNames, Zenon DEF Registry!ServicePass, RegistryP!ServicePass
  <2> QED BY <2>1 DEF RegistryP!Next
<1>4. CASE Registry!Save \/ Registry!WriteMap
  <2>1. RegistryP!Save \/ RegistryP!WriteMap
    BY <1>1, <1>4, RegistryNames, Zenon DEF Registry!Save, RegistryP!Save, Registry!WriteMap, RegistryP!WriteMap
  <2> QED BY <2>1 DEF RegistryP!Next, RegistryP!BridgePass
<1>5. CASE Registry!Update
  BY <1>5, RegistryUpdates DEF RegistryP!Next, RegistryP!BridgePass
<1> QED BY <1>2, <1>3, <1>4, <1>5 DEF Registry!Next, Registry!BridgePass

-----------------------------------------------------------------------------
(* The parts together *)

\* A step of MCParts is one of the channel, or leaves it alone; and so for every
\* other part.
LEMMA PartSteps ==
  ASSUME [Next]_vars
  PROVE  /\ Channel!Next \/ UNCHANGED channelVars
         /\ Assembler!Next \/ UNCHANGED assemblerVars
         /\ Iso!Next \/ UNCHANGED isoVars
         /\ Queues!Next \/ UNCHANGED queuesVars
         /\ Ip!Next \/ UNCHANGED ipVars
         /\ Audio!Next \/ UNCHANGED audioVars
         /\ Firmware!Next \/ UNCHANGED firmwareVars
         /\ Registry!Next \/ UNCHANGED registryVars
         /\ Webcam!Next \/ UNCHANGED webcamVars
BY Zenon DEF Next, vars, usbVars, cameraVars, audioBridge, videoBridge, ChannelNext, AssemblerNext, IsoNext,
   QueuesNext, IpNext, AudioNext, FirmwareNext, RegistryNext, WebcamNext

\* The invariant of the six parts whose proofs are above.
PartsInv ==
  ChannelInv /\ QueuesInv /\ IpInv /\ AudioInv /\ FirmwareInv /\ Webcam!TypeOK

\* Every one of them keeps its invariant.
THEOREM PartsInvariant == Spec => []PartsInv
<1>1. Init => PartsInv
  BY ChannelInitial, QueuesInitial, IpInitial, AudioInitial, FirmwareInitial, WebcamInitial
     DEF Init, PartsInv
<1>2. PartsInv /\ [Next]_vars => PartsInv'
  BY PartSteps, ChannelStep, QueuesStep, IpStep, AudioStep, FirmwareStep, WebcamStep DEF PartsInv
<1> QED BY <1>1, <1>2, PTL DEF Spec

\* What the three modules prove of their specifications holds of the composition:
\* each of the three starts and goes on as its own specification says.
LEMMA PartBehaviours ==
  Spec => AssemblerP!Spec /\ IsoP!Spec /\ RegistryP!Init /\ [][RegistryP!Next]_RegistryP!vars
<1>1. Init => AssemblerP!Init /\ IsoP!Init /\ RegistryP!Init
  <2>1. Assembler!Init => AssemblerP!Init
    BY AssemblerNames DEF Assembler!Init, AssemblerP!Init
  <2>2. Iso!Init => IsoP!Init
    BY IsoNames DEF Iso!Init, IsoP!Init
  <2>3. Registry!Init => RegistryP!Init
    BY RegistryNames DEF Registry!Init, RegistryP!Init
  <2> QED BY <2>1, <2>2, <2>3 DEF Init
<1>2. [Next]_vars => [AssemblerP!Next]_AssemblerP!vars
  BY PartSteps, AssemblerSteps DEF assemblerVars, AssemblerP!vars
<1>3. [Next]_vars => [IsoP!Next]_IsoP!vars
  BY PartSteps, IsoSteps DEF isoVars, IsoP!vars
<1>4. [Next]_vars => [RegistryP!Next]_RegistryP!vars
  BY PartSteps, RegistrySteps DEF registryVars, RegistryP!vars
<1> QED BY <1>1, <1>2, <1>3, <1>4, PTL DEF Spec, AssemblerP!Spec, IsoP!Spec

\* kinect_usb_camera.cpp:138-139, in the composition: what is published is of one
\* frame.
THEOREM WholeFramesHolds == Spec => []WholeFrames
<1>1. AssemblerP!AssemblerConstants
  BY AssemblerAssumption DEF Assembler!AssemblerConstants, AssemblerP!AssemblerConstants,
     Assembler!Rounds, AssemblerP!Rounds
<1>2. AssemblerP!Spec => []AssemblerP!PublishedIsOneFrame
  BY <1>1, AssemblerP!PublishedIsOneFrameHolds
<1>3. AssemblerP!PublishedIsOneFrame => WholeFrames
  BY DEF AssemblerP!PublishedIsOneFrame, Assembler!PublishedIsOneFrame, WholeFrames
<1> QED BY <1>2, <1>3, PartBehaviours, PTL

\* v4l2_bridge.cpp:574-697, in the composition: two Kinects never share a virtual
\* camera.
THEOREM SlotsAreDistinctHolds == Spec => []SlotsAreDistinct
<1>1. RegistryP!RegistryConstants
  BY RegistryAssumption DEF Registry!RegistryConstants, RegistryP!RegistryConstants
<1>2. RegistryP!Init /\ [][RegistryP!Next]_RegistryP!vars => []RegistryP!IInv
  BY <1>1, RegistryP!RegistryInvariant
<1>3. RegistryP!IInv => SlotsAreDistinct
  BY DEF RegistryP!IInv, RegistryP!SlotsAreDistinct, Registry!SlotsAreDistinct, SlotsAreDistinct,
     RegistryP!IsInjective, Registry!IsInjective
<1> QED BY <1>2, <1>3, PartBehaviours, PTL

\* firmware_loop: the firmware is launched on a Kinect that holds all of it.
THEOREM LaunchedWholeHolds == Spec => []LaunchedWhole
<1>1. PartsInv => LaunchedWhole
  BY DEF PartsInv, FirmwareInv, LaunchedWhole
<1> QED BY <1>1, PartsInvariant, PTL

\* The bulk control channel: a reading that is accepted was measured for its own
\* request, and what is left in the endpoint stays bounded.
THEOREM FreshReadingHolds == Spec => []FreshReading
<1>1. PartsInv => FreshReading
  <2>1. SUFFICES ASSUME PartsInv PROVE FreshReading
    OBVIOUS
  <2>2. Channel!FreshReading
    BY <2>1 DEF PartsInv, ChannelInv
  <2>3. Len(fifo) \in Nat /\ Len(working) \in Nat
    BY <2>1 DEF PartsInv, ChannelInv, Channel!TypeOK
  <2>4. pc = "idle" => Len(fifo) + Len(working) <= MaxOwed
    BY <2>1 DEF PartsInv, ChannelInv, Behind
  <2> QED BY <2>2, <2>3, <2>4 DEF FreshReading, Channel!BacklogIsBounded
<1> QED BY <1>1, PartsInvariant, PTL

\* Every count of the USB layer and of the IP camera is the number of what is
\* counted, and every variable has its type.
THEOREM BooksAreRightHolds == Spec => []BooksAreRight
<1>1. AssemblerP!AssemblerConstants
  BY AssemblerAssumption DEF Assembler!AssemblerConstants, AssemblerP!AssemblerConstants,
     Assembler!Rounds, AssemblerP!Rounds
<1>2. AssemblerP!Spec => []AssemblerP!IInv
  BY <1>1, AssemblerP!InStepHolds
<1>3. IsoP!IsoConstants
  BY IsoAssumption DEF Iso!IsoConstants, IsoP!IsoConstants
<1>4. IsoP!Spec => []IsoP!IInv
  BY <1>3, IsoP!IsoInvariant
<1>5. RegistryP!RegistryConstants
  BY RegistryAssumption DEF Registry!RegistryConstants, RegistryP!RegistryConstants
<1>6. RegistryP!Init /\ [][RegistryP!Next]_RegistryP!vars => []RegistryP!IInv
  BY <1>5, RegistryP!RegistryInvariant
<1>7. AssemblerP!IInv => Assembler!TypeOK
  BY AssemblerNames DEF AssemblerP!IInv, AssemblerP!TypeOK, Assembler!TypeOK
<1>8. IsoP!IInv => Iso!TypeOK /\ Iso!CountIsPending /\ Iso!NoSlotLostSilently
  <2>1. SUFFICES ASSUME IsoP!IInv
                 PROVE  Iso!TypeOK /\ Iso!CountIsPending /\ Iso!NoSlotLostSilently
    OBVIOUS
  <2>2. IsoP!TypeOK /\ IsoP!CountIsPending /\ IsoP!NoSlotLostSilently
    BY <2>1 DEF IsoP!IInv, IsoP!Books
  <2>3. \A s : Iso!Pending(s) = IsoP!Pending(s)
    BY IsoNames DEF Iso!Pending, IsoP!Pending
  <2>4. \A S : Iso!Cardinality(S) = IsoP!Cardinality(S)
    BY DEF Iso!Cardinality, IsoP!Cardinality
  <2>5. Iso!TypeOK
    BY <2>2, IsoNames DEF Iso!TypeOK, IsoP!TypeOK
  <2>6. Iso!CountIsPending
    BY <2>2, <2>3, <2>4, Zenon DEF Iso!CountIsPending, IsoP!CountIsPending
  <2>7. Iso!NoSlotLostSilently
    BY <2>2, <2>3, IsoNames, Zenon DEF Iso!NoSlotLostSilently, IsoP!NoSlotLostSilently
  <2> QED BY <2>5, <2>6, <2>7
<1>9. RegistryP!IInv => Registry!TypeOK
  BY RegistryNames DEF RegistryP!IInv, RegistryP!TypeOK, Registry!TypeOK, Registry!Slots,
     RegistryP!Slots
<1>10. PartsInv => /\ Channel!TypeOK /\ Queues!TypeOK /\ Ip!TypeOK /\ Audio!TypeOK
                   /\ Firmware!TypeOK /\ Webcam!TypeOK /\ Ip!CountsAreRight
  BY QueuesTypeOK DEF PartsInv, ChannelInv, IpInv, AudioInv, FirmwareInv
<1>11. PartsInv /\ AssemblerP!IInv /\ IsoP!IInv /\ RegistryP!IInv => BooksAreRight
  BY <1>7, <1>8, <1>9, <1>10 DEF BooksAreRight, TypeOK
<1> QED BY <1>2, <1>4, <1>6, <1>11, PartsInvariant, PartBehaviours, PTL

\* FrameReader::wait_next: a subscriber gets the frames of its streams in the order
\* of time, and misses one only when it is further behind than the queue is long.
THEOREM QueuesMergeInOrder ==
  Spec => Queues!MergedInOrder /\ Queues!MissedOnlyWhenBehind
<1>1. PartsInv /\ [Next]_vars =>
        [\A c \in Consumers, s \in Streams : Queues!Deliver(c, s) => last'[c] >= last[c]]_Queues!vars
  <2>1. SUFFICES ASSUME PartsInv, NEW c \in Consumers, NEW s \in Streams, Queues!Deliver(c, s)
                 PROVE  last'[c] >= last[c]
    OBVIOUS
  <2> QED BY <2>1, DeliverStep DEF PartsInv
<1>2. PartsInv /\ [Next]_vars =>
        [\A c \in Consumers, s \in Streams :
           Queues!Deliver(c, s) /\ lease[c] # {} /\ seen[c][s] > 0
               /\ seen'[c][s] > seen[c][s] + 1 =>
             counter[s] - seen[c][s] > Depth \/ s \in lost[c]]_Queues!vars
  <2>1. SUFFICES ASSUME PartsInv, NEW c \in Consumers, NEW s \in Streams, Queues!Deliver(c, s),
                        lease[c] # {}, seen[c][s] > 0, seen'[c][s] > seen[c][s] + 1
                 PROVE  counter[s] - seen[c][s] > Depth \/ s \in lost[c]
    OBVIOUS
  <2> QED BY <2>1, DeliverStep DEF PartsInv
<1>3. Spec => [][\A c \in Consumers, s \in Streams :
                   Queues!Deliver(c, s) => last'[c] >= last[c]]_Queues!vars
  BY <1>1, PartsInvariant, PTL DEF Spec
<1>4. Spec => [][\A c \in Consumers, s \in Streams :
           Queues!Deliver(c, s) /\ lease[c] # {} /\ seen[c][s] > 0
               /\ seen'[c][s] > seen[c][s] + 1 =>
             counter[s] - seen[c][s] > Depth \/ s \in lost[c]]_Queues!vars
  BY <1>2, PartsInvariant, PTL DEF Spec
<1> QED BY <1>3, <1>4 DEF Queues!MergedInOrder, Queues!MissedOnlyWhenBehind

\* ... and a frame of which every packet arrives is published, as long as no gap
\* makes the sequence numbers come round.
THEOREM MergedInOrderHolds ==
  ASSUME MaxGap < SeqMod
  PROVE  Spec => MergedInOrder
<1>1. AssemblerP!AssemblerConstants
  BY AssemblerAssumption DEF Assembler!AssemblerConstants, AssemblerP!AssemblerConstants,
     Assembler!Rounds, AssemblerP!Rounds
<1>2. AssemblerP!Spec => AssemblerP!FullFrameIsPublished
  BY <1>1, AssemblerP!FullFrameIsPublishedHolds
<1>3. [AssemblerP!Receive("none") /\ dev.index = P - 1 /\ intact => out' = "frame"]_AssemblerP!vars
      => [Assembler!Receive("none") /\ dev.index = P - 1 /\ intact => out' = "frame"]_Assembler!vars
  BY AssemblerReceives DEF Assembler!vars, AssemblerP!vars
<1>4. AssemblerP!Spec =>
        [][Assembler!Receive("none") /\ dev.index = P - 1 /\ intact => out' = "frame"]_Assembler!vars
  BY <1>2, <1>3, PTL DEF AssemblerP!FullFrameIsPublished
<1>5. AssemblerP!Spec => Assembler!FullFrameIsPublished
  BY <1>4 DEF Assembler!FullFrameIsPublished
<1> QED BY <1>5, PartBehaviours, QueuesMergeInOrder DEF MergedInOrder

=============================================================================
