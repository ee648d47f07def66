------------------------------ MODULE WinRegistry ------------------------------
(***************************************************************************)
(* RunBridgeLoop of the Windows camera service                             *)
(* (Kinect360RemoldCameraBridge.cpp): once a second it enumerates the      *)
(* Kinects, keeps a CameraNode for each, has the registrar                 *)
(* (Kinect360RemoldWebcam.cpp) install and remove virtual cameras, and     *)
(* writes the device manifest.  What is present is read once at the start  *)
(* of a pass; the registrar may take 20 s.                                 *)
(*                                                                         *)
(* Virtual cameras outlive the service: they are registered with the       *)
(* system, and remembered in the registry of the product, in two steps.    *)
(***************************************************************************)
EXTENDS Integers, FiniteSets

CONSTANTS
  Kinects,
  Grace,           \* passes: reconnectGrace
  MaxMoves,        \* bound: times a Kinect is plugged in or out
  MaxFaults        \* bound: failures, and deaths of the service

VARIABLES
  plugged,         \* of each Kinect: the path it is at, or 0
  seen,            \* the same, as enumerated at the start of the pass
  nodes,           \* of each Kinect: the path that its node uses, or 0
  unseen,          \* passes since lastSeen, at most Grace
  missing,         \* passes since virtualCameraMissingSince plus 1, or 0 if not listed
  virtual,         \* virtualCameras
  system,          \* cameras registered with Windows
  remembered,      \* cameras in the registry
  installs,        \* Kinects of which the pass has yet to install the virtual camera
  removals,        \* virtual cameras that the pass has yet to remove
  manifest,        \* of each Kinect: [state, camera], as published
  pc,              \* "enumerate", "virtual", "registrar" or "write"
  moves, faults

envVars  == <<plugged, moves>>
camVars  == <<system, remembered>>
nodeVars == <<seen, nodes, unseen>>
toDo     == <<installs, removals>>
vars == <<envVars, camVars, nodeVars, toDo, missing, virtual, manifest, pc, faults>>

Present == {k \in Kinects : seen[k] # 0}
Goes(from, to) == pc = from /\ pc' = to
Fault == faults < MaxFaults /\ faults' = faults + 1
Unlisted == [state |-> "none", camera |-> FALSE]

-----------------------------------------------------------------------------
\* Enumeration, and one node for each Kinect: a node is stopped when its Kinect
\* has been away for too long or has another path; the start of one may fail.
Enumerate ==
  /\ Goes("enumerate", "virtual")
  /\ seen' = plugged
  /\ unseen' = [k \in Kinects |-> IF plugged[k] # 0 THEN 0
                                  ELSE IF unseen[k] < Grace THEN unseen[k] + 1 ELSE Grace]
  /\ missing' = [k \in Kinects |-> IF plugged[k] # 0 THEN 0 ELSE missing[k]]
  /\ \E failed \in SUBSET {k \in Kinects : plugged[k] \notin {0, nodes[k]}} :
       /\ nodes' = [k \in Kinects |->
            IF k \in failed \/ (plugged[k] = 0 /\ unseen'[k] >= Grace) THEN 0
            ELSE IF plugged[k] # 0 THEN plugged[k] ELSE nodes[k]]
       /\ IF failed = {} THEN UNCHANGED faults ELSE Fault
  /\ UNCHANGED <<envVars, camVars, toDo, virtual, manifest>>

\* Mutant: only cameras that the product remembers are looked for.
VirtualOfRegistry == remembered

\* EnumerateVirtualCameraIds
VirtualIds == system \cup remembered

\* What the pass has to install, and to remove: what has been missing for long.
Overdue(k) == missing[k] > Grace
ReadVirtual ==
  /\ Goes("virtual", "registrar")
  /\ virtual' = VirtualIds
  /\ installs' = Present \ virtual'
  /\ removals' = {k \in virtual' \ Present : Overdue(k)}
  /\ missing' = [k \in Kinects |->
       IF k \notin virtual' \ Present \/ Overdue(k) THEN 0 ELSE missing[k] + 1]
  /\ UNCHANGED <<envVars, camVars, nodeVars, manifest, faults>>

\* Install: started, then remembered; it fails before, between or not at all.
\* A try that fails is made again after 10 s; here in the next pass.
InstallVirtual ==
  /\ Goes("registrar", "registrar")
  /\ \E k \in installs :
       /\ installs' = installs \ {k}
       /\ \/ system' = system \cup {k} /\ remembered' = remembered \cup {k} /\ UNCHANGED faults
          \/ Fault /\ system' \in {system, system \cup {k}} /\ UNCHANGED remembered
  /\ UNCHANGED <<envVars, nodeVars, removals, missing, virtual, manifest>>

\* RemoveOne: when the camera cannot be opened it is forgotten all the same.
RemoveVirtual ==
  /\ Goes("registrar", "registrar") /\ installs = {}
  /\ \E k \in removals :
       /\ removals' = removals \ {k}
       /\ \/ system' = system \ {k} /\ remembered' = remembered \ {k} /\ UNCHANGED faults
          \/ Fault /\ UNCHANGED system /\ remembered' \in {remembered, remembered \ {k}}
  /\ UNCHANGED <<envVars, nodeVars, installs, missing, virtual, manifest>>

RegistrarDone ==
  /\ installs = {} /\ removals = {}
  /\ Goes("registrar", "write") /\ virtual' = VirtualIds
  /\ UNCHANGED <<envVars, camVars, nodeVars, toDo, missing, manifest, faults>>

\* WriteDeviceManifest: a file beside the manifest takes its place.
Listed ==
  [k \in Kinects |->
     IF nodes[k] = 0 THEN Unlisted
     ELSE [state |-> IF k \in Present THEN "present" ELSE "reconnecting",
           camera |-> k \in virtual]]
Write ==
  /\ Goes("write", "enumerate")
  /\ \/ manifest' = Listed /\ UNCHANGED faults
     \/ Fault /\ UNCHANGED manifest
  /\ UNCHANGED <<envVars, camVars, nodeVars, toDo, missing, virtual>>

\* The service dies and starts again: it knows nothing, and says so.
Restart ==
  /\ Fault
  /\ pc' = "enumerate" /\ manifest' = [k \in Kinects |-> Unlisted]
  /\ seen' = [k \in Kinects |-> 0] /\ nodes' = seen' /\ missing' = seen'
  /\ unseen' = [k \in Kinects |-> Grace]
  /\ installs' = {} /\ removals' = {} /\ virtual' = {}
  /\ UNCHANGED <<envVars, camVars>>

\* Environment: a Kinect is plugged in, here or there, or out.
Plug ==
  /\ moves < MaxMoves /\ moves' = moves + 1
  /\ \E k \in Kinects, path \in 0..2 : path # plugged[k] /\ plugged' = [plugged EXCEPT ![k] = path]
  /\ UNCHANGED <<camVars, nodeVars, toDo, missing, virtual, manifest, pc, faults>>

Init ==
  /\ plugged \in [Kinects -> {0, 1}] /\ moves = 0 /\ faults = 0 /\ pc = "enumerate"
  /\ seen = [k \in Kinects |-> 0] /\ nodes = seen /\ missing = seen
  /\ unseen = [k \in Kinects |-> Grace]
  /\ virtual = {} /\ installs = {} /\ removals = {}
  /\ system \in {{}, {k \in Kinects : plugged[k] = 0}} /\ remembered = system
  /\ manifest = [k \in Kinects |-> Unlisted]

Loop ==
  Enumerate \/ ReadVirtual \/ InstallVirtual \/ RemoveVirtual \/ RegistrarDone \/ Write
Next == Loop \/ Restart \/ Plug
Fairness == WF_vars(Loop)
Spec == Init /\ [][Next]_vars /\ Fairness

-----------------------------------------------------------------------------
(* Properties *)

TypeOK ==
  /\ {plugged, seen, nodes} \subseteq [Kinects -> 0..2]
  /\ unseen \in [Kinects -> 0..Grace] /\ missing \in [Kinects -> 0..(Grace + 1)]
  /\ {virtual, system, remembered, installs, removals} \subseteq SUBSET Kinects
  /\ manifest \in [Kinects -> [state : {"none", "present", "reconnecting"}, camera : BOOLEAN]]
  /\ pc \in {"enumerate", "virtual", "registrar", "write"}
  /\ moves \in 0..MaxMoves /\ faults \in 0..MaxFaults

\* Whatever came and went, failed half-way or died: once Kinects stay as they
\* are, each has its node at its path, its virtual camera and its line in the
\* manifest, and no camera is left of one that is gone (lines 2526-2639).  A
\* camera that was registered and not remembered stays so: it is seen anyway.
EverythingSettles ==
  <>[](/\ nodes = plugged
       /\ system = {k \in Kinects : plugged[k] # 0} /\ remembered \subseteq system
       /\ \A k \in Kinects : manifest[k] =
            IF plugged[k] = 0 THEN Unlisted ELSE [state |-> "present", camera |-> TRUE])
=============================================================================
