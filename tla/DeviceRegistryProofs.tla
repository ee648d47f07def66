------------------------ MODULE DeviceRegistryProofs ------------------------
(***************************************************************************)
(* What DeviceRegistry guarantees for every number of Kinects and slots:   *)
(* the slots of the bridge, those it has saved and those it publishes are  *)
(* given to one Kinect each.                                               *)
(***************************************************************************)
EXTENDS DeviceRegistry, TLAPS

\* A partial map of Kinects to slots that gives no slot twice.
Distinct(f) == f \in Slots /\ IsInjective(f)

IInv == TypeOK /\ SlotsAreDistinct

\* A map of slots is a function on its domain, and the other way round.
LEMMA SlotsOf ==
  ASSUME NEW f \in Slots
  PROVE  DOMAIN f \in SUBSET Ids /\ f \in [DOMAIN f -> Slot]
  BY DEF Slots

\* A function from some identities to slots is one of Slots.
LEMMA IsSlots ==
  ASSUME NEW S \in SUBSET Ids, NEW f \in [S -> Slot]
  PROVE  f \in Slots
  BY DEF Slots

\* No slots at all are distinct.
LEMMA NoSlotsAreDistinct == Distinct(NoSlots)
<1>1. DOMAIN NoSlots = {} /\ NoSlots \in [{} -> Slot]
  BY DEF NoSlots
<1>2. NoSlots \in Slots
  BY <1>1, IsSlots
<1> QED BY <1>1, <1>2 DEF Distinct, IsInjective

\* Some of the slots are as distinct as all of them.
LEMMA SomeAreDistinct ==
  ASSUME NEW f, Distinct(f), NEW S \in SUBSET DOMAIN f
  PROVE  Distinct([k \in S |-> f[k]])
<1> DEFINE g == [k \in S |-> f[k]]
<1>1. DOMAIN f \in SUBSET Ids /\ f \in [DOMAIN f -> Slot] /\ IsInjective(f)
  BY SlotsOf DEF Distinct
<1>2. S \in SUBSET Ids /\ g \in [S -> Slot]
  BY <1>1
<1>3. g \in Slots
  BY <1>2, IsSlots
<1>4. IsInjective(g)
  BY <1>1 DEF IsInjective
<1>5. Distinct(g)
  <2> HIDE DEF g
  <2> QED BY <1>3, <1>4 DEF Distinct
<1> QED BY <1>5

\* allocate_slot gives slots that nobody has, to Kinects that have none.
LEMMA AllocatedAreDistinct ==
  ASSUME Distinct(slots), NEW newcomers \in SUBSET (Ids \ DOMAIN slots), NEW all \in Allocated(newcomers)
  PROVE  Distinct(all) /\ DOMAIN slots \subseteq DOMAIN all
<1> DEFINE free == Slot \ Range(slots)
           n == IF Cardinality(newcomers) < Cardinality(free)
                THEN Cardinality(newcomers) ELSE Cardinality(free)
           given == {s \in free : Cardinality({t \in free : t < s}) < n}
<1>9. PICK S \in SUBSET newcomers : \E f \in Bijection(S, given) : all = Given(f)
  BY DEF Allocated, kSubset
<1>1. PICK f \in Bijection(S, given) : all = Given(f)
  BY <1>9
<1>2. /\ DOMAIN slots \in SUBSET Ids /\ slots \in [DOMAIN slots -> Slot]
      /\ \A j, k \in DOMAIN slots : slots[j] = slots[k] => j = k
  BY SlotsOf DEF Distinct, IsInjective
<1>3. /\ f \in [S -> given] /\ DOMAIN f = S
      /\ \A j, k \in S : f[j] = f[k] => j = k
  BY DEF Bijection, Injection, IsInjective
<1>4. given \subseteq Slot /\ \A k \in DOMAIN slots : slots[k] \notin given
  BY DEF Range
<1> HIDE DEF given
<1>5. S \cap DOMAIN slots = {} /\ DOMAIN slots \cup S \in SUBSET Ids
  BY <1>2
<1>6. /\ DOMAIN all = DOMAIN slots \cup S
      /\ \A k \in DOMAIN slots : all[k] = slots[k]
      /\ \A k \in S : all[k] = f[k]
      /\ all \in [DOMAIN slots \cup S -> Slot]
  BY <1>1, <1>2, <1>3, <1>4, <1>5 DEF Given
<1>7. all \in Slots
  BY <1>5, <1>6, IsSlots
<1>8. ASSUME NEW j \in DOMAIN all, NEW k \in DOMAIN all, all[j] = all[k]
      PROVE  j = k
  <2>1. CASE j \in DOMAIN slots /\ k \in DOMAIN slots
    BY <1>2, <1>6, <1>8, <2>1
  <2>2. CASE j \in S /\ k \in S
    BY <1>3, <1>6, <1>8, <2>2
  <2>3. CASE (j \in DOMAIN slots /\ k \in S) \/ (j \in S /\ k \in DOMAIN slots)
    BY <1>3, <1>4, <1>6, <1>8, <2>3
  <2> QED BY <1>6, <2>1, <2>2, <2>3
<1> QED BY <1>6, <1>7, <1>8 DEF Distinct, IsInjective

\* A file is the new one or the old one.
LEMMA WrittenIs ==
  ASSUME RegistryConstants, NEW old, NEW contents, NEW new, changes \in 0..MaxChanges,
         Written(old, contents, new)
  PROVE  new \in {old, contents} /\ changes' \in 0..MaxChanges
  BY DEF Written, Changed, RegistryConstants

-----------------------------------------------------------------------------
(* The actions *)

\* The part of the invariant about slots, and the rest.
LEMMA Known ==
  ASSUME RegistryConstants, IInv
  PROVE  /\ Grace \in Nat \ {0} /\ MaxChanges \in Nat
         /\ Distinct(slots) /\ Distinct(file) /\ Distinct(virtual)
         /\ online \subseteq attached /\ attached \subseteq Ids
         /\ nodes \in [Ids -> None..Grace] /\ workers \in [Ids -> None..Grace]
         /\ changes \in 0..MaxChanges
  BY DEF RegistryConstants, IInv, TypeOK, SlotsAreDistinct, Distinct

\* What a step outside the two loops keeps.
LEMMA OutsideStep ==
  ASSUME RegistryConstants, IInv, Outside
  PROVE  IInv'
<1> DEFINE Rows == [Ids -> [state : {"none", "Reconnecting", "Booting", "Ready"},
                            virtual : Slot \cup {None}]]
<1>1. /\ Grace \in Nat \ {0} /\ MaxChanges \in Nat /\ changes \in 0..MaxChanges
      /\ Changed => changes' \in 0..MaxChanges
  BY Known DEF Changed
<1>2. NoNodes \in [Ids -> None..Grace]
  BY <1>1 DEF NoNodes, None
<1>3. EmptyManifest \in Rows
  BY DEF EmptyManifest, NoRow
<1>4. Distinct(NoSlots) /\ Distinct(slots) /\ Distinct(file) /\ Distinct(virtual)
  BY NoSlotsAreDistinct, Known
<1> DEFINE Typed == /\ online \subseteq attached /\ attached \subseteq Ids
                    /\ nodes \in [Ids -> None..Grace] /\ workers \in [Ids -> None..Grace]
                    /\ manifest \in Rows /\ pc \in {"update", "save", "map", "down"}
                    /\ serving \in BOOLEAN /\ changes \in 0..MaxChanges
                    /\ Distinct(slots) /\ Distinct(file) /\ Distinct(virtual)
<1>5. Typed /\ (Typed' => IInv')
  BY Known DEF IInv, TypeOK, SlotsAreDistinct, Distinct
<1>6. ASSUME NEW k \in Ids, Attach(k)
      PROVE  Typed'
  BY <1>5, <1>1, <1>6 DEF Attach
<1>7. ASSUME NEW k \in Ids, Detach(k)
      PROVE  Typed'
  BY <1>5, <1>1, <1>7 DEF Detach
<1>8. ASSUME NEW k \in Ids, Opened(k)
      PROVE  Typed'
  BY <1>5, <1>8 DEF Opened
<1>9. ASSUME NEW k \in Ids, Lost(k)
      PROVE  Typed'
  BY <1>5, <1>1, <1>9 DEF Lost
<1>10. ASSUME ServiceEnds
      PROVE  Typed'
  BY <1>5, <1>1, <1>2, <1>3, <1>10 DEF ServiceEnds
<1>11. ASSUME ServiceStarts
      PROVE  Typed'
  BY <1>5, <1>11 DEF ServiceStarts
<1>12. ASSUME BridgeEnds
      PROVE  Typed'
  BY <1>5, <1>1, <1>2, <1>4, <1>12 DEF BridgeEnds
<1>13. ASSUME BridgeStarts
      PROVE  Typed'
  BY <1>5, <1>13 DEF BridgeStarts
<1> HIDE DEF Typed
<1> QED BY <1>5, <1>6, <1>7, <1>8, <1>9, <1>10, <1>11, <1>12, <1>13 DEF Outside

\* A pass of the camera service leaves every slot where it is.
LEMMA ServicePassStep ==
  ASSUME RegistryConstants, IInv, ServicePass
  PROVE  IInv'
<1> DEFINE Rows == [Ids -> [state : {"none", "Reconnecting", "Booting", "Ready"},
                            virtual : Slot \cup {None}]]
<1>1. /\ nodes' = AgedNodes /\ Written(manifest, write_manifest(nodes'), manifest')
      /\ UNCHANGED <<attached, online, pc, slots, workers, file, virtual, serving>>
  BY DEF ServicePass
<1>2. Grace \in Nat \ {0} /\ nodes \in [Ids -> None..Grace] /\ changes \in 0..MaxChanges
      /\ manifest \in Rows /\ virtual \in [DOMAIN virtual -> Slot]
  BY Known, SlotsOf DEF IInv, TypeOK, Distinct
<1>3. AgedNodes \in [Ids -> None..Grace]
  <2>1. ASSUME NEW k \in Ids
        PROVE  (IF k \in attached THEN 0
                ELSE IF nodes[k] = None \/ nodes[k] + 1 >= Grace THEN None ELSE nodes[k] + 1)
                  \in None..Grace
    BY <1>2 DEF None
  <2> QED BY <2>1 DEF AgedNodes
<1>4. write_manifest(nodes') \in Rows
  <2>1. ASSUME NEW k \in Ids
        PROVE  (IF nodes'[k] = None THEN NoRow
                ELSE [state   |-> IF k \notin attached THEN "Reconnecting"
                                  ELSE IF k \in online THEN "Ready" ELSE "Booting",
                      virtual |-> IF k \in DOMAIN virtual THEN virtual[k] ELSE None])
                  \in [state : {"none", "Reconnecting", "Booting", "Ready"},
                       virtual : Slot \cup {None}]
    BY <1>2 DEF NoRow
  <2> QED BY <2>1 DEF write_manifest
<1>5. manifest' \in Rows /\ changes' \in 0..MaxChanges
  BY <1>1, <1>2, <1>4, WrittenIs
<1> QED BY <1>1, <1>3, <1>5 DEF IInv, TypeOK, SlotsAreDistinct

\* A pass of the bridge gives only free slots, and takes the expired ones back.
LEMMA UpdateStep ==
  ASSUME RegistryConstants, IInv, Update
  PROVE  IInv'
<1> DEFINE listed == {k \in Ids : manifest[k].state # "none"}
           newcomers == {k \in listed \ DOMAIN slots : workers[k] = None}
<1>1. PICK all \in Allocated(newcomers) :
        LET expired == {k \in Ids : Aged(k, all) >= Grace}
        IN  /\ workers' = [k \in Ids |-> IF k \in expired THEN None ELSE Aged(k, all)]
            /\ slots' = [k \in DOMAIN all \ expired |-> all[k]]
  BY DEF Update
<1>2. /\ pc' = "save"
      /\ UNCHANGED <<attached, online, nodes, manifest, file, virtual, serving, changes>>
  BY DEF Update
<1>3. Grace \in Nat \ {0} /\ workers \in [Ids -> None..Grace] /\ Distinct(slots)
  BY Known
<1>4. Distinct(all)
  BY <1>3, AllocatedAreDistinct
<1> DEFINE expired == {k \in Ids : Aged(k, all) >= Grace}
<1>5. ASSUME NEW k \in Ids
      PROVE  (IF k \in expired THEN None ELSE Aged(k, all)) \in None..Grace
  <2>1. Aged(k, all) \in None..(Grace + 1)
    BY <1>3 DEF Aged, None
  <2>2. k \in expired <=> Aged(k, all) >= Grace
    OBVIOUS
  <2> QED BY <1>3, <2>1, <2>2 DEF None
<1>6. workers' \in [Ids -> None..Grace]
  BY <1>1, <1>5
<1>7. Distinct(slots')
  BY <1>1, <1>4, SomeAreDistinct
<1> QED BY <1>2, <1>6, <1>7 DEF IInv, TypeOK, SlotsAreDistinct, Distinct

\* The slots that are saved are those of the bridge.
LEMMA SaveStep ==
  ASSUME RegistryConstants, IInv, Save
  PROVE  IInv'
<1>1. file' \in {file, slots} /\ changes' \in 0..MaxChanges
  BY Known, WrittenIs DEF Save
<1>2. Distinct(file')
  BY <1>1, Known
<1> QED BY <1>1, <1>2 DEF Save, IInv, TypeOK, SlotsAreDistinct, Distinct

\* The slots that are published are some of those of the bridge.
LEMMA WriteMapStep ==
  ASSUME RegistryConstants, IInv, WriteMap
  PROVE  IInv'
<1> DEFINE used == {k \in DOMAIN slots : workers[k] # None}
<1>1. virtual' \in {virtual, [k \in used |-> slots[k]]} /\ changes' \in 0..MaxChanges
  BY Known, WrittenIs DEF WriteMap
<1>2. Distinct(slots) /\ Distinct(virtual)
  BY Known
<1>3. Distinct([k \in used |-> slots[k]])
  BY <1>2, SomeAreDistinct
<1>4. Distinct(virtual')
  BY <1>1, <1>2, <1>3
<1> QED BY <1>1, <1>4 DEF WriteMap, IInv, TypeOK, SlotsAreDistinct, Distinct

\* The invariant holds at first.
LEMMA Initial ==
  ASSUME RegistryConstants, Init
  PROVE  IInv
<1>1. Grace \in Nat \ {0} /\ MaxChanges \in Nat
  BY DEF RegistryConstants
<1>2. NoNodes \in [Ids -> None..Grace]
  BY <1>1 DEF NoNodes, None
<1>3. EmptyManifest \in [Ids -> [state : {"none", "Reconnecting", "Booting", "Ready"},
                                 virtual : Slot \cup {None}]]
  BY DEF EmptyManifest, NoRow
<1> QED BY <1>1, <1>2, <1>3, NoSlotsAreDistinct DEF Init, IInv, TypeOK, SlotsAreDistinct, Distinct

\* Every variable of the registry has its type and no slot is given twice.
THEOREM RegistryInvariant ==
  ASSUME RegistryConstants
  PROVE  Init /\ [][Next]_vars => []IInv
<1>1. Init => IInv
  BY Initial
<1>2. IInv /\ [Next]_vars => IInv'
  <2>1. CASE UNCHANGED vars
    BY <2>1 DEF vars, IInv, TypeOK, SlotsAreDistinct
  <2> QED BY <2>1, OutsideStep, ServicePassStep, UpdateStep, SaveStep, WriteMapStep
          DEF Next, BridgePass
<1> QED BY <1>1, <1>2, PTL

\* v4l2_bridge.cpp:574-643, 655-697: through restarts, crashes, expired workers and
\* slots that are given to somebody else, no loopback device carries two Kinects.
THEOREM SlotsAreDistinctHolds ==
  ASSUME RegistryConstants
  PROVE  Spec => []SlotsAreDistinct
<1>1. IInv => SlotsAreDistinct
  BY DEF IInv
<1> QED BY <1>1, RegistryInvariant, PTL DEF Spec

=============================================================================
