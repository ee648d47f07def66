--------------------------- MODULE DeviceRegistry ---------------------------
(***************************************************************************)
(* The registry that the Linux services keep together.  The camera service *)
(* has a node per Kinect and publishes devices.tsv (main of                *)
(* camera_bridge.cpp); the V4L2 bridge reads it, keeps a worker and a      *)
(* loopback slot per Kinect, saves its slots for the next start and        *)
(* publishes virtual-cameras.tsv (main of v4l2_bridge.cpp), which the      *)
(* camera service reads.  Kinects come and go; either service may stop or  *)
(* crash between two steps and is started again.                           *)
(***************************************************************************)
EXTENDS Integers, FiniteSets, FiniteSetsExt, Functions

CONSTANTS
  Ids,          \* physical identities
  VideoSlots,   \* kVideoSlots
  Grace,        \* passes in 30 s
  MaxChanges    \* bound on events outside the two loops

VARIABLES
  attached, online,  \* Kinects on the bus; those whose hub has the device open
  nodes,             \* of the camera service: [Ids -> passes not seen, or None]
  manifest,          \* devices.tsv: [Ids -> [state, virtual]]
  pc,                \* of the V4L2 bridge: "update", "save", "map" or "down"
  slots, workers,    \* of the V4L2 bridge: its slots; [Ids -> passes, or None]
  file,              \* v4l2-map.tsv, the slots as saved
  virtual,           \* virtual-cameras.tsv
  serving,           \* the camera service runs
  changes

vars == <<attached, online, nodes, manifest, pc, slots, workers, file, virtual,
          serving, changes>>

RegistryConstants == {Grace, VideoSlots} \subseteq Nat \ {0} /\ MaxChanges \in Nat

None == -1
Slot == 0..(VideoSlots - 1)
NoSlots == << >>
Slots == UNION {[S -> Slot] : S \in SUBSET Ids}
NoNodes == [k \in Ids |-> None]
NoRow == [state |-> "none", virtual |-> None]
EmptyManifest == [k \in Ids |-> NoRow]

TypeOK ==
  /\ online \subseteq attached /\ attached \subseteq Ids
  /\ nodes \in [Ids -> None..Grace] /\ workers \in [Ids -> None..Grace]
  /\ manifest \in [Ids -> [state : {"none", "Reconnecting", "Booting", "Ready"},
                           virtual : Slot \cup {None}]]
  /\ pc \in {"update", "save", "map", "down"}
  /\ slots \in Slots /\ file \in Slots /\ virtual \in Slots
  /\ serving \in BOOLEAN /\ changes \in 0..MaxChanges

Init ==
  /\ attached \in SUBSET Ids /\ online = {}
  /\ nodes = NoNodes /\ manifest = EmptyManifest /\ serving = TRUE
  /\ pc = "update" /\ slots = NoSlots /\ workers = NoNodes
  /\ file = NoSlots /\ virtual = NoSlots /\ changes = 0

Changed == changes < MaxChanges /\ changes' = changes + 1

\* A file is written beside the old one and renamed over it, or stays as it was.
Written(old, contents, new) ==
  \/ new = contents /\ UNCHANGED changes
  \/ new = old /\ Changed

-----------------------------------------------------------------------------
\* Around the two loops: cables, hubs that open and lose their device, and the
\* end and the start of the services.

Attach(k) ==
  /\ k \notin attached /\ Changed /\ attached' = attached \cup {k}
  /\ UNCHANGED <<online, nodes, manifest, pc, slots, workers, file, virtual, serving>>

Detach(k) ==
  /\ k \in attached /\ Changed /\ attached' = attached \ {k} /\ online' = online \ {k}
  /\ UNCHANGED <<nodes, manifest, pc, slots, workers, file, virtual, serving>>

Opened(k) ==
  /\ k \in attached \ online /\ serving /\ nodes[k] # None
  /\ online' = online \cup {k}
  /\ UNCHANGED <<attached, nodes, manifest, pc, slots, workers, file, virtual, serving, changes>>

Lost(k) ==
  /\ k \in online /\ Changed /\ online' = online \ {k}
  /\ UNCHANGED <<attached, nodes, manifest, pc, slots, workers, file, virtual, serving>>

\* A camera service that stops removes the manifest; one that crashes leaves it.
ServiceEnds ==
  /\ serving /\ Changed /\ serving' = FALSE /\ nodes' = NoNodes /\ online' = {}
  /\ manifest' \in {manifest, EmptyManifest}
  /\ UNCHANGED <<attached, pc, slots, workers, file, virtual>>

ServiceStarts ==
  /\ ~serving /\ serving' = TRUE
  /\ UNCHANGED <<attached, online, nodes, manifest, pc, slots, workers, file, virtual, changes>>

\* A V4L2 bridge that stops has ended its pass and removes its map; one that
\* crashes leaves the map, and loses what it has not saved.
BridgeEnds ==
  /\ pc # "down" /\ Changed /\ pc' = "down"
  /\ virtual' \in IF pc = "update" THEN {virtual, NoSlots} ELSE {virtual}
  /\ slots' = NoSlots /\ workers' = NoNodes
  /\ UNCHANGED <<attached, online, nodes, manifest, file, serving>>

\* load_slots
BridgeStarts ==
  /\ pc = "down" /\ pc' = "update" /\ slots' = file
  /\ UNCHANGED <<attached, online, nodes, manifest, workers, file, virtual, serving, changes>>

-----------------------------------------------------------------------------
\* One pass of main of the camera service: enumerate, start and stop nodes,
\* write_manifest.

AgedNodes ==
  [k \in Ids |->
     IF k \in attached THEN 0
     ELSE IF nodes[k] = None \/ nodes[k] + 1 >= Grace THEN None ELSE nodes[k] + 1]

write_manifest(kept) ==
  [k \in Ids |->
     IF kept[k] = None THEN NoRow
     ELSE [state   |-> IF k \notin attached THEN "Reconnecting"
                       ELSE IF k \in online THEN "Ready" ELSE "Booting",
           virtual |-> IF k \in DOMAIN virtual THEN virtual[k] ELSE None]]

ServicePass ==
  /\ serving /\ nodes' = AgedNodes /\ Written(manifest, write_manifest(nodes'), manifest')
  /\ UNCHANGED <<attached, online, pc, slots, workers, file, virtual, serving>>

-----------------------------------------------------------------------------
\* One pass of main of the V4L2 bridge, and the two files at its end.

\* The slots, with those of f for Kinects that had none.
Given(f) ==
  [k \in DOMAIN slots \cup DOMAIN f |-> IF k \in DOMAIN slots THEN slots[k] ELSE f[k]]

\* Mutant: a slot is free when nobody works on it.
AllocatedByWorkers(newcomers) ==
  LET free  == Slot \ {slots[k] : k \in {j \in DOMAIN slots : workers[j] # None}}
      n     == IF Cardinality(newcomers) < Cardinality(free)
               THEN Cardinality(newcomers) ELSE Cardinality(free)
      given == {s \in free : Cardinality({t \in free : t < s}) < n}
  IN  {Given(f) : f \in UNION {Bijection(S, given) : S \in kSubset(n, newcomers)}}

\* allocate_slot for each newcomer in turn: the lowest free slots, as long as
\* there are any.
Allocated(newcomers) ==
  LET free  == Slot \ Range(slots)
      n     == IF Cardinality(newcomers) < Cardinality(free)
               THEN Cardinality(newcomers) ELSE Cardinality(free)
      given == {s \in free : Cardinality({t \in free : t < s}) < n}
  IN  {Given(f) : f \in UNION {Bijection(S, given) : S \in kSubset(n, newcomers)}}

\* The camera column is filled in a Ready row only.
camera_endpoint(k) == manifest[k].state = "Ready"

\* What the pass makes of a worker: a new one is seen now, others when they have
\* an endpoint.
Aged(k, all) ==
  IF camera_endpoint(k) /\ k \in DOMAIN all THEN 0
  ELSE IF workers[k] # None THEN workers[k] + 1
  ELSE IF manifest[k].state # "none" /\ k \in DOMAIN all THEN 0
  ELSE None

Update ==
  LET listed == {k \in Ids : manifest[k].state # "none"}
  IN  /\ pc = "update" /\ pc' = "save"
      /\ \E all \in Allocated({k \in listed \ DOMAIN slots : workers[k] = None}) :
           LET expired == {k \in Ids : Aged(k, all) >= Grace}
           IN  /\ workers' = [k \in Ids |-> IF k \in expired THEN None ELSE Aged(k, all)]
               /\ slots' = [k \in DOMAIN all \ expired |-> all[k]]
      /\ UNCHANGED <<attached, online, nodes, manifest, file, virtual, serving, changes>>

\* save_slots
Save ==
  /\ pc = "save" /\ pc' = "map" /\ Written(file, slots, file')
  /\ UNCHANGED <<attached, online, nodes, manifest, slots, workers, virtual, serving>>

\* Mutant: every slot is published, with a worker or not.
WriteMapOfSlots ==
  /\ pc = "map" /\ pc' = "update" /\ virtual' = slots
  /\ UNCHANGED <<attached, online, nodes, manifest, slots, workers, file, serving, changes>>

\* write_virtual_map: the slots that have a worker.
WriteMap ==
  /\ pc = "map" /\ pc' = "update"
  /\ LET used == {k \in DOMAIN slots : workers[k] # None}
     IN Written(virtual, [k \in used |-> slots[k]], virtual')
  /\ UNCHANGED <<attached, online, nodes, manifest, slots, workers, file, serving>>

-----------------------------------------------------------------------------
Outside ==
  \/ \E k \in Ids : Attach(k) \/ Detach(k) \/ Opened(k) \/ Lost(k)
  \/ ServiceEnds \/ ServiceStarts \/ BridgeEnds \/ BridgeStarts
BridgePass == Update \/ Save \/ WriteMap

Next == Outside \/ ServicePass \/ BridgePass

\* The two loops go on.  Whether a service is started again is left open.
Fairness == WF_vars(ServicePass) /\ WF_vars(BridgePass)

Spec == Init /\ [][Next]_vars /\ Fairness

-----------------------------------------------------------------------------
\* A loopback device carries one Kinect: no two have the same slot, neither in
\* the bridge nor in one of the two files, through restarts, expired workers and
\* slots that are given to somebody else (v4l2_bridge.cpp:574-643, 655-697).
SlotsAreDistinct == IsInjective(slots) /\ IsInjective(file) /\ IsInjective(virtual)

\* All Kinects that want a slot, and those that have one from an earlier time,
\* fit into the loopback devices.
Fits == Cardinality(attached \cup DOMAIN slots) <= VideoSlots

\* While both services run, a Kinect that stays open ends up in the manifest as
\* Ready, with the slot that the bridge has given to it if the slots suffice;
\* one that stays away ends up in neither file (camera_bridge.cpp:920-1017,
\* v4l2_bridge.cpp:605-697).
RegistrySettles ==
  <>[](serving /\ pc # "down") =>
    \A k \in Ids :
      /\ <>[](k \in online) => <>[](manifest[k].state = "Ready")
      /\ <>[](k \in online /\ Fits) =>
           <>[](k \in DOMAIN slots /\ manifest[k].virtual = slots[k])
      /\ <>[](k \notin attached) => <>[](manifest[k] = NoRow /\ k \notin DOMAIN virtual)
=============================================================================
