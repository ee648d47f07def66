------------------------------ MODULE AudioNodes ------------------------------
(***************************************************************************)
(* The microphones of the audio bridge (audio_bridge.cpp): the coordinator *)
(* binds the ALSA cards it finds to Kinects and keeps one node per Kinect, *)
(* and the capture thread of each node follows the name it is given.  Card *)
(* names are reused: what hw:1 is changes when Kinects come and go.        *)
(***************************************************************************)
EXTENDS Integers, FiniteSets, Functions

CONSTANTS
  Kinects,     \* physical identities
  Deep,        \* Kinects whose audio function shows another identity
  Cards,       \* names of capture PCMs
  Grace,       \* passes until a missing node expires (30 s / 500 ms)
  MaxChanges,  \* bound on changes of the hardware and failures of a sound card
  NoKinect, NoCard

VARIABLES
  present,   \* Kinects with some function on the bus
  camera,    \* those whose camera function is there
  card,      \* [Cards -> Kinects \cup {NoKinect}]: whose PCM a name is
  changes,   \* such changes so far
  pass,      \* the coordinator's pass: how far it is and what it has read
  node,      \* [Kinects -> record]: the AudioNode
  capture    \* [Kinects -> record]: the node's capture thread

vars == <<present, camera, card, changes, pass, node, capture>>

NoNode == [started |-> FALSE, pcm |-> NoCard, missed |-> 0]
Closed == [pc |-> "idle", name |-> NoCard, from |-> NoKinect]

TypeOK ==
  /\ present \subseteq Kinects /\ camera \subseteq present
  /\ card \in [Cards -> Kinects \cup {NoKinect}]
  /\ changes \in 0..MaxChanges
  /\ pass.pc \in {"sensors", "pcms", "apply"} /\ pass.sensors \subseteq Kinects
  /\ node \in [Kinects -> [started : BOOLEAN, pcm : Cards \cup {NoCard},
                           missed : 0..Grace]]
  /\ capture \in [Kinects -> [pc : {"idle", "open", "check", "read"},
                              name : Cards \cup {NoCard},
                              from : Kinects \cup {NoKinect}]]

\* One PCM per Kinect, and only while the Kinect is there.
SoundCards(c, k) == {d \in Cards : c[d] = k}

Init ==
  /\ present \in SUBSET Kinects /\ camera = present
  /\ card \in {c \in [Cards -> present \cup {NoKinect}] :
                 \A k \in present : Cardinality(SoundCards(c, k)) <= 1}
  /\ changes = 0
  /\ pass = [pc |-> "sensors", sensors |-> {}, pcms |-> << >>]
  /\ node = [k \in Kinects |-> NoNode]
  /\ capture = [k \in Kinects |-> Closed]

-----------------------------------------------------------------------------
\* The hardware.  A handle on a card that goes away is dead for good, also
\* when another Kinect's card gets the name.

Dead(gone) ==
  [k \in Kinects |->
     IF capture[k].name \in gone THEN [capture[k] EXCEPT !.from = NoKinect]
     ELSE capture[k]]

Changed == changes < MaxChanges /\ changes' = changes + 1

Plug(k) ==
  /\ k \notin present /\ Changed
  /\ present' = present \cup {k} /\ camera' = camera \cup {k}
  /\ UNCHANGED <<card, pass, node, capture>>

Unplug(k) ==
  /\ k \in present /\ Changed
  /\ present' = present \ {k} /\ camera' = camera \ {k}
  /\ card' = [c \in Cards |-> IF card[c] = k THEN NoKinect ELSE card[c]]
  /\ capture' = Dead(SoundCards(card, k))
  /\ UNCHANGED <<pass, node>>

CameraChanges(k) ==
  /\ k \in present /\ Changed
  /\ camera' = IF k \in camera THEN camera \ {k} ELSE camera \cup {k}
  /\ UNCHANGED <<present, card, pass, node, capture>>

CardAppears(c, k) ==
  /\ k \in present /\ card[c] = NoKinect /\ SoundCards(card, k) = {} /\ Changed
  /\ card' = [card EXCEPT ![c] = k]
  /\ UNCHANGED <<present, camera, pass, node, capture>>

CardGoes(c) ==
  /\ card[c] # NoKinect /\ Changed
  /\ card' = [card EXCEPT ![c] = NoKinect]
  /\ capture' = Dead({c})
  /\ UNCHANGED <<present, camera, pass, node>>

-----------------------------------------------------------------------------
\* The coordinator.  It lists the USB devices, then the sound cards, and then
\* updates the nodes: the two lists are of different moments.

ReadSensors ==
  /\ pass.pc = "sensors"
  /\ pass' = [pc |-> "pcms", pcms |-> << >>,
              sensors |-> IF camera = {} THEN present ELSE camera]
  /\ UNCHANGED <<present, camera, card, changes, node, capture>>

\* The identity sysfs gives for each PCM: NoKinect stands for one that is no
\* sensor's.
ReadPcms ==
  /\ pass.pc = "pcms"
  /\ pass' = [pass EXCEPT
       !.pc = "apply",
       !.pcms = [c \in {d \in Cards : card[d] # NoKinect} |->
                   IF card[c] \in Deep THEN NoKinect ELSE card[c]]]
  /\ UNCHANGED <<present, camera, card, changes, node, capture>>

\* bind_pcms_to_sensors: the bindings it may return, as functions from Kinects
\* to names.  Which of several candidates it takes is a matter of sorting.
bind_pcms_to_sensors(pcms, sensors) ==
  LET matched    == sensors \cap Range(pcms)
      topology   == {f \in [matched -> DOMAIN pcms] : \A k \in matched : pcms[f[k]] = k}
      remaining  == sensors \ matched
      unresolved(f) == DOMAIN pcms \ Range(f)
      fallback(f) ==
        IF \/ Cardinality(unresolved(f)) = 1 /\ Cardinality(remaining) = 1
           \/ Cardinality(sensors) = 1 /\ matched = {} /\ unresolved(f) # {}
        THEN {[k \in matched \cup {r} |-> IF k = r THEN u ELSE f[k]] :
                r \in remaining, u \in unresolved(f)}
        ELSE {f}
  IN  UNION {fallback(f) : f \in topology}

\* What a pass makes of a node.  One that is neither listed nor bound is not
\* marked; without a PCM it expires when the grace is over.
Updated(k, sensors, bound) ==
  LET listed == k \in sensors \cup DOMAIN bound
      age    == IF node[k].missed < Grace THEN node[k].missed + 1 ELSE Grace
  IN  IF listed
      THEN [started |-> TRUE, missed |-> 0,
            pcm |-> IF k \in DOMAIN bound THEN bound[k] ELSE NoCard]
      ELSE IF node[k].started /\ age < Grace
           THEN [started |-> TRUE, pcm |-> NoCard, missed |-> age]
           ELSE NoNode

\* The rest of the pass.  stop() joins the capture thread of an expired node.
Apply ==
  /\ pass.pc = "apply"
  /\ \E bound \in bind_pcms_to_sensors(pass.pcms, pass.sensors) :
       node' = [k \in Kinects |-> Updated(k, pass.sensors, bound)]
  /\ capture' = [k \in Kinects |-> IF node'[k].started THEN capture[k] ELSE Closed]
  /\ pass' = [pc |-> "sensors", sensors |-> {}, pcms |-> << >>]
  /\ UNCHANGED <<present, camera, card, changes>>

-----------------------------------------------------------------------------
\* A capture thread.

Goes(k, c) ==
  /\ capture' = [capture EXCEPT ![k] = c]
  /\ UNCHANGED <<present, camera, card, pass, node>>

TakeName(k) ==
  /\ capture[k].pc = "idle" /\ node[k].started /\ node[k].pcm # NoCard
  /\ UNCHANGED changes
  /\ Goes(k, [Closed EXCEPT !.pc = "open", !.name = node[k].pcm])

\* A hw: device has one user.  The name is compared once more after the open.
CanOpen(c) ==
  card[c] # NoKinect /\ \A j \in Kinects : capture[j].name = c => capture[j].from = NoKinect

OpenPcm(k) ==
  LET c == capture[k].name
  IN  /\ capture[k].pc = "open" /\ CanOpen(c) /\ UNCHANGED changes
      /\ Goes(k, IF node[k].pcm = c
                 THEN [pc |-> "check", name |-> c, from |-> card[c]] ELSE Closed)

\* snd_pcm_open or configure_capture fails; the thread takes the name anew.
OpenFails(k) ==
  /\ capture[k].pc = "open" /\ Goes(k, Closed)
  /\ IF CanOpen(capture[k].name) THEN Changed ELSE UNCHANGED changes

\* Mutant: the reading loop does not look at the name.
StillCurrentUnasked(k) == node[k].started
StillCurrent(k) == node[k].pcm = capture[k].name

\* The condition of the reading loop, in front of each blocking read.
Check(k) ==
  /\ capture[k].pc = "check" /\ UNCHANGED changes
  /\ Goes(k, IF StillCurrent(k) THEN [capture[k] EXCEPT !.pc = "read"] ELSE Closed)

\* snd_pcm_readi returns samples, or an error from which ALSA recovers.
Read(k) ==
  /\ capture[k].pc = "read" /\ capture[k].from # NoKinect /\ UNCHANGED changes
  /\ Goes(k, [capture[k] EXCEPT !.pc = "check"])

ReadFails(k) ==
  /\ capture[k].pc = "read" /\ Goes(k, Closed)
  /\ IF capture[k].from = NoKinect THEN UNCHANGED changes ELSE Changed

-----------------------------------------------------------------------------
Hardware ==
  \/ \E k \in Kinects : Plug(k) \/ Unplug(k) \/ CameraChanges(k)
  \/ \E c \in Cards : CardGoes(c) \/ \E k \in Kinects : CardAppears(c, k)
Coordinator == ReadSensors \/ ReadPcms \/ Apply
Thread(k) == TakeName(k) \/ OpenPcm(k) \/ OpenFails(k) \/ Check(k) \/ Read(k) \/ ReadFails(k)

Next == Hardware \/ Coordinator \/ \E k \in Kinects : Thread(k)

\* The coordinator and the threads go on; a read ends, if only with the
\* timeout of ALSA.
Fairness == WF_vars(Coordinator) /\ \A k \in Kinects : WF_vars(Thread(k))

Spec == Init /\ [][Next]_vars /\ Fairness

-----------------------------------------------------------------------------
\* The microphone of k can be told: by its identity, or because all the
\* others have theirs.
Told(k) ==
  /\ SoundCards(card, k) # {}
  /\ k \in Deep => \A j \in present \ {k} : j \notin Deep /\ SoundCards(card, j) # {}

\* When the hardware has come to rest with every camera in place, no node
\* goes on listening to another Kinect's microphone, whatever names were
\* reused on the way, and every node whose microphone can be told reads from
\* it again and again (audio_bridge.cpp:265-302, 575-662, 1054-1103).
SettlesOnOwnMicrophone ==
  <>[](camera = present) =>
    /\ <>[](\A k \in Kinects : capture[k].from \in {k, NoKinect})
    /\ \A k \in Kinects :
         <>[]Told(k) => []<>(capture[k].pc = "read" /\ capture[k].from = k)
=============================================================================
