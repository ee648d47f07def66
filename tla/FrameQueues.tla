----------------------------- MODULE FrameQueues -----------------------------
(***************************************************************************)
(* The frame queues of CameraHub (camera_bridge.cpp): the USB callbacks    *)
(* push frames, every subscriber reads all queues of its mask on its own,  *)
(* merged by time, with the number of the last frame it saw of each.       *)
(*                                                                         *)
(* Who may subscribe what, and when the engines run, is in CameraHub; here *)
(* any mask is granted and an engine runs while its stream is subscribed.  *)
(***************************************************************************)
EXTENDS Integers, Sequences, FiniteSetsExt

CONSTANTS
  Streams,     \* colour and depth, or any two of the four streams
  Consumers,   \* handler threads
  Depth,       \* kFrameQueueDepth
  MaxFrames,   \* bound: frames of a stream
  MaxTick      \* bound: the clock in milliseconds

VARIABLES
  online,      \* online_
  clock,
  queue,       \* of each stream: sequence of [seq, tick]
  counter,     \* rgb_seq_counter_, ..., depth_seq_counter_
  lease,       \* the mask of each consumer's lease, {} without one
  reading,     \* the mask each consumer reads in its loop, {} outside
  seen,        \* rgb_seq, ..., depth_seq of each consumer
  last,        \* the tick of the last frame each consumer got
  lost         \* the streams whose queue a closed session took since then

vars == <<online, clock, queue, counter, lease, reading, seen, last, lost>>

Users(held, s) == {c \in Consumers : s \in held[c]}

\* clear_inactive_queues_locked
ClearInactive(held) == [s \in Streams |-> IF Users(held, s) = {} THEN <<>> ELSE queue[s]]

\* acquire, granted: the leases of its process, whichever these are, are
\* superseded; no queue is cleared.
Subscribe(c) ==
  /\ online /\ reading[c] = {}
  /\ \E m \in SUBSET Streams \ {{}}, superseded \in SUBSET Consumers :
       /\ lease' = [d \in Consumers |-> IF d = c THEN m
                                        ELSE IF d \in superseded THEN {} ELSE lease[d]]
       /\ reading' = [reading EXCEPT ![c] = m]
  /\ seen' = [seen EXCEPT ![c] = [s \in Streams |-> 0]]
  /\ last' = [last EXCEPT ![c] = 0]
  /\ lost' = [lost EXCEPT ![c] = {}]
  /\ UNCHANGED <<online, clock, queue, counter>>

\* The loop of client ends: the client is gone, the lease superseded, or the
\* session closed.  release does nothing for a superseded token.
Leave(c) ==
  /\ reading[c] # {}
  /\ reading' = [reading EXCEPT ![c] = {}]
  /\ lease' = [lease EXCEPT ![c] = {}]
  /\ queue' = IF lease[c] = {} THEN queue ELSE ClearInactive(lease')
  /\ seen' = [seen EXCEPT ![c] = [s \in Streams |-> 0]]
  /\ last' = [last EXCEPT ![c] = 0]
  /\ lost' = [lost EXCEPT ![c] = {}]
  /\ UNCHANGED <<online, clock, counter>>

\* push_frame
Pushed(q, frame) == IF Len(q) < Depth THEN Append(q, frame) ELSE Append(Tail(q), frame)

\* on_rgb, on_hq_rgb, on_ir, on_depth.  A frame of the high-quality engine is
\* pushed as an RGB frame too, whether or not RGB itself has users.
Publish(s) ==
  /\ online /\ (s = "depth" => Users(lease, s) # {})
  /\ counter[s] < MaxFrames
  /\ counter' = [counter EXCEPT ![s] = @ + 1]
  /\ queue' = [queue EXCEPT ![s] = Pushed(@, [seq |-> counter[s] + 1, tick |-> clock])]
  /\ UNCHANGED <<online, clock, lease, reading, seen, last, lost>>

\* next_after: the oldest frame of each queue the consumer has not seen
Candidates(c) ==
  {s \in reading[c] : \E i \in DOMAIN queue[s] : queue[s][i].seq > seen[c][s]}

NextAfter(c, s) ==
  queue[s][Min({i \in DOMAIN queue[s] : queue[s][i].seq > seen[c][s]})]

\* Mutant: the streams are asked in a fixed order.
EarliestFirst(c, s) ==
  s = "depth" \/ "depth" \notin Candidates(c)

\* wait_next: the earlier frame first, depth when they are of one millisecond
Earliest(c, s) ==
  \A t \in Candidates(c) \ {s} :
    \/ NextAfter(c, s).tick < NextAfter(c, t).tick
    \/ NextAfter(c, s).tick = NextAfter(c, t).tick /\ s = "depth"

\* A consumer that lost its lease reads on until it sees its flag cleared.
Deliver(c, s) ==
  /\ online
  /\ s \in Candidates(c) /\ Earliest(c, s)
  /\ seen' = [seen EXCEPT ![c][s] = NextAfter(c, s).seq]
  /\ last' = [last EXCEPT ![c] = NextAfter(c, s).tick]
  /\ lost' = [lost EXCEPT ![c] = @ \ {s}]
  /\ UNCHANGED <<online, clock, queue, counter, lease, reading>>

\* close_device_locked
Close ==
  /\ online /\ online' = FALSE
  /\ queue' = [s \in Streams |-> <<>>]
  /\ lost' = [c \in Consumers |-> reading[c]]
  /\ UNCHANGED <<clock, counter, lease, reading, seen, last>>

\* open_device_locked; leases stay, and a consumer that is busy writing to its
\* client need not notice that the session was closed.
Open ==
  /\ ~online /\ online' = TRUE
  /\ UNCHANGED <<clock, queue, counter, lease, reading, seen, last, lost>>

Tick ==
  /\ clock < MaxTick /\ clock' = clock + 1
  /\ UNCHANGED <<online, queue, counter, lease, reading, seen, last, lost>>

-----------------------------------------------------------------------------

Init ==
  /\ online = TRUE /\ clock = 1
  /\ queue = [s \in Streams |-> <<>>]
  /\ counter = [s \in Streams |-> 0]
  /\ lease = [c \in Consumers |-> {}] /\ reading = [c \in Consumers |-> {}]
  /\ seen = [c \in Consumers |-> [s \in Streams |-> 0]]
  /\ last = [c \in Consumers |-> 0] /\ lost = [c \in Consumers |-> {}]

Next ==
  \/ \E c \in Consumers : Subscribe(c) \/ Leave(c) \/ \E s \in Streams : Deliver(c, s)
  \/ \E s \in Streams : Publish(s)
  \/ Close \/ Open \/ Tick

Spec == Init /\ [][Next]_vars

-----------------------------------------------------------------------------
(* Properties *)

TypeOK ==
  /\ online \in BOOLEAN /\ clock \in 1..MaxTick
  /\ \A s \in Streams :
       /\ Len(queue[s]) <= Depth
       /\ \A i \in DOMAIN queue[s] : queue[s][i] \in [seq : 1..MaxFrames, tick : 1..MaxTick]
  /\ counter \in [Streams -> 0..MaxFrames]
  /\ lease \in [Consumers -> SUBSET Streams] /\ reading \in [Consumers -> SUBSET Streams]
  /\ seen \in [Consumers -> [Streams -> 0..MaxFrames]]
  /\ last \in [Consumers -> 0..MaxTick] /\ lost \in [Consumers -> SUBSET Streams]

\* The frames of all its streams reach a subscriber in the order of time, also
\* those that were pushed while it was away.
MergedInOrder ==
  [][\A c \in Consumers, s \in Streams : Deliver(c, s) => last'[c] >= last[c]]_vars

\* A subscriber that still has its lease misses a frame only when it is further
\* behind than the queue is long, or when the session was closed under it; never
\* because others come, go or read faster.
MissedOnlyWhenBehind ==
  [][\A c \in Consumers, s \in Streams :
       Deliver(c, s) /\ lease[c] # {} /\ seen[c][s] > 0 /\ seen'[c][s] > seen[c][s] + 1 =>
         counter[s] - seen[c][s] > Depth \/ s \in lost[c]]_vars

=============================================================================
