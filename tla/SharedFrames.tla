------------------------------ MODULE SharedFrames ------------------------------
(***************************************************************************)
(* How colour frames reach the virtual camera and the IP camera on         *)
(* Windows: the video thread submits raw frames to the conversion worker   *)
(* of its mode, workers publish into two slots of shared memory under a    *)
(* sequence number that is odd while they do, and readers, in processes of *)
(* their own, take a frame if the number was even and has not changed      *)
(* (Kinect360RemoldCameraBridge.cpp, Kinect360RemoldFrameTransport.h, and  *)
(* FrameReader of Kinect360RemoldCameraIp.cpp).                            *)
(*                                                                         *)
(* A frame is its number; copying one takes two steps, a half each.        *)
(* Nothing keeps the workers of two modes apart: the video thread changes  *)
(* its mode without waiting for the worker it leaves, and PublishFrame     *)
(* takes no lock.  Two history variables, which no action reads, say where *)
(* that mattered.                                                          *)
(***************************************************************************)
EXTENDS Integers

CONSTANTS
  MaxFrames,       \* bound: frames submitted
  MaxSwitches      \* bound: changes of mode

Modes == {"RGB", "HQ"}
Writers == Modes \cup {"video"}

VARIABLES
  sequence,        \* colorSequence
  header,          \* [size, active, online] of the mapping
  slot,            \* of each of the two slots: [size, first, second]
  frames, sizes,   \* frames submitted, and the mode of each
  mode, switches,  \* activeMode
  pending,         \* of each worker: the pending raw frame, or 0
  work,            \* of each worker: the frame it converts and publishes, or 0
  pc,              \* of each writer: "idle", "enter", "choose", "first", "second", "activate",
                   \* "leave"
  next,            \* of each worker: the slot it writes
  reader,          \* FrameReader::Read: [pc, before, at, size, first, second]
  accepted,        \* what it returned last: [size, first, second]
  met,             \* history: the frames that were in PublishFrame when another one was
  late             \* history: whether the other worker was still busy when the newest frame
                   \* was submitted

videoVars  == <<frames, sizes, mode, switches>>
workerVars == <<pending, work, next>>
sharedVars == <<sequence, header, slot>>
readerVars == <<reader, accepted>>
vars == <<videoVars, workerVars, sharedVars, readerVars, pc, met, late>>

Settled(w) == pc[w] = "idle" /\ pending[w] = 0
Publishing(w) == pc[w] \in {"choose", "first", "second", "activate", "leave"}
OthersInside(w) == {o \in Modes \ {w} : Publishing(o)}

-----------------------------------------------------------------------------
(* The video thread *)

\* Mutant: a frame that arrives while one is pending is dropped.
SubmitIfNone ==
  /\ pc["video"] = "idle" /\ frames < MaxFrames
  /\ frames' = frames + 1 /\ sizes' = [sizes EXCEPT ![frames + 1] = mode]
  /\ pending' = [pending EXCEPT ![mode] = IF @ = 0 THEN frames + 1 ELSE @]
  /\ late' = (\E w \in Modes \ {mode} : ~Settled(w))
  /\ UNCHANGED <<mode, switches, work, next, sharedVars, readerVars, pc, met>>

\* FrameConversionWorker::Submit: the newest frame replaces the pending one.
Submit ==
  /\ pc["video"] = "idle" /\ frames < MaxFrames
  /\ frames' = frames + 1 /\ sizes' = [sizes EXCEPT ![frames + 1] = mode]
  /\ pending' = [pending EXCEPT ![mode] = frames + 1]
  /\ late' = (\E w \in Modes \ {mode} : ~Settled(w))
  /\ UNCHANGED <<mode, switches, work, next, sharedVars, readerVars, pc, met>>

\* SetOnline(false), before the engine changes its mode
EnterOffline ==
  /\ pc["video"] = "idle" /\ switches < MaxSwitches
  /\ sequence' = sequence + 1 /\ pc' = [pc EXCEPT !["video"] = "leave"]
  /\ UNCHANGED <<videoVars, workerVars, header, slot, readerVars, met, late>>

LeaveOffline ==
  /\ pc["video"] = "leave" /\ pc' = [pc EXCEPT !["video"] = "idle"]
  /\ header' = [header EXCEPT !.online = FALSE] /\ sequence' = sequence + 1
  /\ mode' \in Modes \ {mode} /\ switches' = switches + 1
  /\ UNCHANGED <<frames, sizes, workerVars, slot, readerVars, met, late>>

-----------------------------------------------------------------------------
(* A conversion worker: Run, and PublishFrame *)

Step(w, from, to) ==
  /\ pc[w] = from /\ pc' = [pc EXCEPT ![w] = to]
  /\ UNCHANGED <<videoVars, readerVars, late>>

Take(w) ==
  /\ Step(w, "idle", "enter") /\ pending[w] # 0
  /\ work' = [work EXCEPT ![w] = pending[w]] /\ pending' = [pending EXCEPT ![w] = 0]
  /\ UNCHANGED <<next, sharedVars, met>>

\* The sequence number is incremented, whoever else has done so.
Enter(w) ==
  /\ Step(w, "enter", "choose") /\ sequence' = sequence + 1
  /\ met' = IF OthersInside(w) = {} THEN met
            ELSE met \cup {work[o] : o \in {w} \cup OthersInside(w)}
  /\ UNCHANGED <<workerVars, header, slot>>

\* Mutant: the slot that readers use is written.
ChooseActive(w) ==
  /\ Step(w, "choose", "first") /\ next' = [next EXCEPT ![w] = header.active]
  /\ UNCHANGED <<pending, work, sharedVars, met>>

\* The slot that is not active
Choose(w) ==
  /\ Step(w, "choose", "first") /\ next' = [next EXCEPT ![w] = 1 - header.active]
  /\ UNCHANGED <<pending, work, sharedVars, met>>

CopyFirst(w) ==
  /\ Step(w, "first", "second") /\ slot' = [slot EXCEPT ![next[w]].first = work[w]]
  /\ UNCHANGED <<workerVars, sequence, header, met>>

\* The rest, the geometry in the header and the data of the slot
CopySecond(w) ==
  /\ Step(w, "second", "activate")
  /\ slot' = [slot EXCEPT ![next[w]].second = work[w], ![next[w]].size = w]
  /\ header' = [header EXCEPT !.size = w]
  /\ UNCHANGED <<workerVars, sequence, met>>

Activate(w) ==
  /\ Step(w, "activate", "leave")
  /\ header' = [header EXCEPT !.active = next[w], !.online = TRUE]
  /\ UNCHANGED <<workerVars, sequence, slot, met>>

Leave(w) ==
  /\ Step(w, "leave", "idle") /\ sequence' = sequence + 1
  /\ work' = [work EXCEPT ![w] = 0]
  /\ UNCHANGED <<pending, next, header, slot, met>>

Worker(w) ==
  \/ Take(w) \/ Enter(w) \/ Choose(w)
  \/ CopyFirst(w) \/ CopySecond(w) \/ Activate(w) \/ Leave(w)

-----------------------------------------------------------------------------
(* FrameReader::Read; it is called again, so attempts are not counted *)

Reads(from, update) ==
  /\ reader.pc = from /\ reader' = update
  /\ UNCHANGED <<videoVars, workerVars, sharedVars, pc, met, late>>

ReadBefore ==
  /\ Reads("before", [reader EXCEPT !.before = sequence,
                        !.pc = IF sequence % 2 = 1 THEN "before" ELSE "header"])
  /\ UNCHANGED accepted

\* A slot whose size is not that of the header is refused.
ReadHeader ==
  /\ Reads("header", [reader EXCEPT !.at = header.active, !.size = header.size,
                        !.pc = IF slot[header.active].size = header.size THEN "first" ELSE "before"])
  /\ UNCHANGED accepted

ReadFirst ==
  /\ Reads("first", [reader EXCEPT !.first = slot[reader.at].first, !.pc = "second"])
  /\ UNCHANGED accepted

ReadSecond ==
  /\ Reads("second", [reader EXCEPT !.second = slot[reader.at].second, !.pc = "after"])
  /\ UNCHANGED accepted

ReadAfter ==
  /\ Reads("after", [reader EXCEPT !.pc = "before"])
  /\ accepted' = IF sequence = reader.before
                 THEN [size |-> reader.size, first |-> reader.first, second |-> reader.second]
                 ELSE accepted

Reader == ReadBefore \/ ReadHeader \/ ReadFirst \/ ReadSecond \/ ReadAfter

-----------------------------------------------------------------------------
Init ==
  /\ sequence = 2 /\ header = [size |-> "RGB", active |-> 0, online |-> FALSE]
  /\ slot = [s \in {0, 1} |-> [size |-> "RGB", first |-> 0, second |-> 0]]
  /\ frames = 0 /\ sizes = [f \in 0..MaxFrames |-> "RGB"] /\ mode = "RGB" /\ switches = 0
  /\ pending = [w \in Modes |-> 0] /\ work = [w \in Modes |-> 0]
  /\ next = [w \in Modes |-> 0] /\ pc = [w \in Writers |-> "idle"]
  /\ reader = [pc |-> "before", before |-> 0, at |-> 0, size |-> "RGB", first |-> 0, second |-> 0]
  /\ accepted = [size |-> "RGB", first |-> 0, second |-> 0]
  /\ met = {} /\ late = FALSE

Next ==
  \/ Submit \/ EnterOffline \/ LeaveOffline \/ Reader
  \/ \E w \in Modes : Worker(w)

\* The threads go on, and readers poll.
Fairness ==
  /\ WF_vars(LeaveOffline) /\ WF_vars(Reader)
  /\ \A w \in Modes : WF_vars(Worker(w))

Spec == Init /\ [][Next]_vars /\ Fairness

-----------------------------------------------------------------------------
(* Properties *)

MaxSequence == 2 + 2 * (MaxFrames + MaxSwitches)

TypeOK ==
  /\ sequence \in 2..MaxSequence /\ frames \in 0..MaxFrames /\ switches \in 0..MaxSwitches
  /\ header \in [size : Modes, active : {0, 1}, online : BOOLEAN]
  /\ slot \in [{0, 1} -> [size : Modes, first : 0..MaxFrames, second : 0..MaxFrames]]
  /\ sizes \in [0..MaxFrames -> Modes] /\ mode \in Modes
  /\ {pending, work} \subseteq [Modes -> 0..MaxFrames] /\ next \in [Modes -> {0, 1}]
  /\ pc \in [Writers -> {"idle", "enter", "choose", "first", "second", "activate", "leave"}]
  /\ accepted \in [size : Modes, first : 0..MaxFrames, second : 0..MaxFrames]

\* A frame that a reader accepts is one frame, in its own size, however the
\* writers and the reader interleave; unless one of its halves was published
\* while another worker published as well.
Whole(f) == f.first = f.second /\ (f.first = 0 \/ f.size = sizes[f.first])
WholeFrames == Whole(accepted) \/ {accepted.first, accepted.second} \cap met # {}

\* Kinect360RemoldFrameTransport.h 55, of the number: "odd while color writer
\* mutates, even when stable". What is read between two equal even numbers is
\* then one frame.
EvenWhenStable == accepted.first = accepted.second

\* The newest frame is what readers end up with: none waits in a worker, also
\* when it was submitted during a conversion (lines 1017-1027, 1110-1111). A
\* worker of the other mode that was not done when the frame was submitted may
\* publish an older one after it.
NewestIsRead == <>[](frames = 0 \/ late \/ accepted.first = frames)
=============================================================================
