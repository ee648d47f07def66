----------------------------- MODULE WinMicrophones -----------------------------
(***************************************************************************)
(* Which microphone the Windows audio bridge                               *)
(* (Kinect360RemoldAudioBridge.cpp) captures for which Kinect: the         *)
(* coordinator keeps a node for each Kinect that is on the bus, and the    *)
(* capture thread of each node looks for its endpoint, which it keeps      *)
(* until a call on it fails.                                               *)
(*                                                                         *)
(* The list of capture devices and that of WASAPI endpoints are read one   *)
(* after the other.  An endpoint of Opaque shows neither its parent nor a  *)
(* container; it is assigned by elimination.                               *)
(***************************************************************************)
EXTENDS Integers, FiniteSets

CONSTANTS
  Kinects,
  Opaque,        \* Kinects whose endpoint does not say whose it is
  Grace,         \* passes: reconnectGrace
  MaxChanges,    \* bound: events on the bus
  Nothing        \* no endpoint

VARIABLES
  bus,           \* Kinects with some function on the bus
  uac,           \* those whose USB audio function and endpoint are there
  node,          \* of each Kinect: whether it has an AudioNode
  unseen,        \* passes since lastSeen
  pc,            \* of each capture thread: "find", "endpoints" or "capture"
  physical,      \* of each: the devices that it found
  source,        \* of each: the Kinect whose endpoint it captures, or Nothing
  serving,       \* gRun
  changes

hardware == <<bus, uac, changes>>
threads  == <<pc, physical, source>>
vars == <<hardware, node, unseen, threads, serving>>

Change == changes < MaxChanges /\ changes' = changes + 1

-----------------------------------------------------------------------------
(* The bus: the audio function appears some time after the Kinect, once it  *)
(* has its firmware, and may go and come again.                             *)

Plug(k) ==
  /\ k \notin bus /\ Change
  /\ bus' = bus \cup {k}
  /\ UNCHANGED <<uac, node, unseen, threads, serving>>

UacAppears(k) ==
  /\ k \in bus \ uac
  /\ uac' = uac \cup {k}
  /\ UNCHANGED <<bus, changes, node, unseen, threads, serving>>

UacGoes(k) ==
  /\ k \in uac /\ Change
  /\ uac' = uac \ {k}
  /\ bus' \in {bus, bus \ {k}}
  /\ UNCHANGED <<node, unseen, threads, serving>>

-----------------------------------------------------------------------------
(* AudioCoordinatorLoop *)

Stopped(gone) ==
  /\ pc' = [k \in Kinects |-> IF k \in gone THEN "find" ELSE pc[k]]
  /\ source' = [k \in Kinects |-> IF k \in gone THEN Nothing ELSE source[k]]
  /\ physical' = [k \in Kinects |-> IF k \in gone THEN {} ELSE physical[k]]

\* A pass: a node for each Kinect that is present, if it can be started; an end
\* to those whose Kinect has been away for too long.
CoordinatorPass ==
  /\ serving
  /\ unseen' = [k \in Kinects |-> IF k \in bus THEN 0
                                  ELSE IF unseen[k] < Grace THEN unseen[k] + 1 ELSE Grace]
  /\ \E failed \in SUBSET {k \in bus : ~node[k] /\ changes < MaxChanges} :
       LET expired == {k \in Kinects \ bus : node[k] /\ unseen'[k] >= Grace}
       IN /\ node' = [k \in Kinects |-> (node[k] \/ k \in bus) /\ k \notin (expired \cup failed)]
          /\ Stopped(expired)
          /\ changes' = IF failed = {} THEN changes ELSE changes + 1
  /\ UNCHANGED <<bus, uac, serving>>

\* The service stops: every node is stopped.
CoordinatorEnds ==
  /\ ~serving /\ \E k \in Kinects : node[k]
  /\ node' = [k \in Kinects |-> FALSE]
  /\ Stopped(Kinects)
  /\ UNCHANGED <<hardware, unseen, serving>>

StopService ==
  /\ serving /\ serving' = FALSE
  /\ UNCHANGED <<hardware, node, unseen, threads>>

-----------------------------------------------------------------------------
(* AudioNode::Capture *)

\* EnumeratePhysicalUacCaptureDevices
FindDevices(k) ==
  /\ node[k] /\ pc[k] = "find" /\ serving
  /\ pc' = [pc EXCEPT ![k] = "endpoints"]
  /\ physical' = [physical EXCEPT ![k] = uac]
  /\ UNCHANGED <<hardware, node, unseen, source, serving>>

\* FindKinectUacCaptureEndpoints: whose the endpoint of a Kinect is taken to be,
\* given the devices that were found before.
TakenFor(j, found) ==
  LET hidden    == uac \cap Opaque
      remaining == found \ (uac \ Opaque)
  IN IF j \notin Opaque THEN {j}
     ELSE IF Cardinality(hidden) = 1 /\ Cardinality(remaining) = 1 THEN remaining
     ELSE IF Cardinality(found) = 1 THEN found ELSE {}

\* The endpoints are listed, and one of those taken for this Kinect is opened:
\* CaptureUacRuntime, which may fail.
OpenEndpoint(k) ==
  /\ node[k] /\ pc[k] = "endpoints"
  /\ \/ \E j \in uac :
          /\ k \in TakenFor(j, physical[k])
          /\ pc' = [pc EXCEPT ![k] = "capture"] /\ source' = [source EXCEPT ![k] = j]
          /\ UNCHANGED changes
     \/ /\ \A j \in uac : k \notin TakenFor(j, physical[k])
        /\ pc' = [pc EXCEPT ![k] = "find"] /\ UNCHANGED <<changes, source>>
     \/ Change /\ pc' = [pc EXCEPT ![k] = "find"] /\ UNCHANGED source
  /\ physical' = [physical EXCEPT ![k] = {}]
  /\ UNCHANGED <<bus, uac, node, unseen, serving>>

\* RunWasapiCaptureSession ends when a call fails: the endpoint is gone.
CaptureFails(k) ==
  /\ pc[k] = "capture" /\ source[k] \notin uac
  /\ pc' = [pc EXCEPT ![k] = "find"] /\ source' = [source EXCEPT ![k] = Nothing]
  /\ UNCHANGED <<hardware, node, unseen, physical, serving>>

-----------------------------------------------------------------------------

Init ==
  /\ bus \in SUBSET Kinects /\ uac \in SUBSET bus
  /\ node = [k \in Kinects |-> FALSE]
  /\ unseen = [k \in Kinects |-> 0]
  /\ pc = [k \in Kinects |-> "find"]
  /\ physical = [k \in Kinects |-> {}]
  /\ source = [k \in Kinects |-> Nothing]
  /\ serving = TRUE /\ changes = 0

Next ==
  \/ \E k \in Kinects : \/ Plug(k) \/ UacAppears(k) \/ UacGoes(k)
                        \/ FindDevices(k) \/ OpenEndpoint(k) \/ CaptureFails(k)
  \/ CoordinatorPass \/ CoordinatorEnds \/ StopService

\* The threads of the service go on.
Fairness ==
  /\ WF_vars(CoordinatorPass) /\ WF_vars(CoordinatorEnds)
  /\ \A k \in Kinects : WF_vars(FindDevices(k) \/ OpenEndpoint(k) \/ CaptureFails(k))

-----------------------------------------------------------------------------

TypeOK ==
  /\ bus \subseteq Kinects /\ uac \subseteq bus
  /\ node \in [Kinects -> BOOLEAN] /\ unseen \in [Kinects -> 0..Grace]
  /\ pc \in [Kinects -> {"find", "endpoints", "capture"}]
  /\ physical \in [Kinects -> SUBSET Kinects] /\ source \in [Kinects -> Kinects \cup {Nothing}]
  /\ serving \in BOOLEAN /\ changes \in 0..MaxChanges

\* A Kinect whose microphone Windows shows, and which says whose it is, is
\* captured, whatever came and went before.
MicrophoneIsCaptured ==
  \A k \in Kinects \ Opaque :
    (k \in uac) ~> (k \notin uac \/ ~serving \/ source[k] \in uac)

\* Comment of FindKinectUacCaptureEndpoints: "Resolve only assignments that are
\* provably unambiguous."
OwnMicrophone == \A k \in Kinects : source[k] \in {k, Nothing}

=============================================================================
