--------------------------- MODULE IsoStreamProofs ---------------------------
(***************************************************************************)
(* What IsoStream guarantees for every number of streams and transfers:    *)
(* active_count is the number of transfers the kernel or a callback still  *)
(* needs, and a stream loses none of them without the device being lost.   *)
(***************************************************************************)
EXTENDS IsoStream, FiniteSetTheorems, TLAPS

\* A slot is active exactly as long as its transfer is not handled for the last time.
ActiveIsPending ==
  \A s \in Streams, i \in Slots : active[s][i] <=> kernel[s][i] # "no"

\* The thread works on a stream that has its slots.  While it submits them, no
\* callback runs: the slots before the next one are with the kernel, the others not.
JobOnStream ==
  /\ job.op # "none" => started[job.s]
  /\ job.op = "submit" =>
       \A i \in Slots : kernel[job.s][i] # "no" <=> i < job.i
  /\ job.op \in {"cancel", "pump"} => stopping[job.s]
  /\ \A s \in Streams : stopping[s] => job.op \in {"cancel", "pump"} /\ job.s = s

Books == TypeOK /\ CountIsPending /\ NoSlotLostSilently
IInv  == Books /\ ActiveIsPending /\ JobOnStream

\* A set of slots has at most N of them.
LEMMA SlotSets ==
  ASSUME IsoConstants, NEW S \in SUBSET Slots
  PROVE  /\ IsFiniteSet(S) /\ Cardinality(S) \in 0..N
         /\ Cardinality(S) = 0 <=> S = {}
<1>1. N \in Nat /\ IsFiniteSet(1..N) /\ Cardinality(1..N) = N
  BY FS_Interval DEF IsoConstants
<1>2. IsFiniteSet(S) /\ Cardinality(S) <= N
  BY <1>1, FS_Subset DEF Slots
<1>3. Cardinality(S) \in Nat /\ (Cardinality(S) = 0 <=> S = {})
  BY <1>2, FS_CardinalityType, FS_EmptySet
<1> QED BY <1>1, <1>2, <1>3

\* A slot that is not in the set counts one more.
LEMMA OneMore ==
  ASSUME IsoConstants, NEW S \in SUBSET Slots, NEW i \in Slots \ S
  PROVE  Cardinality(S \cup {i}) = Cardinality(S) + 1
  BY SlotSets, FS_AddElement

\* Removing a slot of the set counts one less.
LEMMA OneLess ==
  ASSUME IsoConstants, NEW S \in SUBSET Slots, NEW i \in S
  PROVE  Cardinality(S \ {i}) = Cardinality(S) - 1
  BY SlotSets, FS_RemoveElement

\* What a step changes, of the kernel's transfers and the slots: one transfer
\* that is pending stays so, becomes so, or is the last time handled.
Unhandled(s, i) ==
  /\ kernel[s][i] # "no" /\ kernel'[s][i] # "no"
  /\ UNCHANGED <<active, count>>

Submitted(s, i) ==
  /\ kernel[s][i] = "no" /\ kernel'[s][i] # "no"
  /\ active' = With(active, s, i, TRUE) /\ count' = [count EXCEPT ![s] = @ + 1]

Finished(s, i) ==
  /\ kernel[s][i] # "no" /\ kernel'[s][i] = "no"
  /\ active' = With(active, s, i, FALSE) /\ count' = [count EXCEPT ![s] = @ - 1]

OneSlot(s, i) ==
  /\ kernel' \in [Streams -> [Slots -> {"no", "submitted", "cancelling"} \cup Retired]]
  /\ \A t \in Streams, j \in Slots : kernel'[t][j] = kernel[t][j] \/ (t = s /\ j = i)
  /\ Unhandled(s, i) \/ Submitted(s, i) \/ Finished(s, i)

\* With such a step the count stays the number of pending transfers.
LEMMA OneSlotStep ==
  ASSUME IsoConstants, IInv, NEW s \in Streams, NEW i \in Slots, OneSlot(s, i)
  PROVE  /\ active' \in [Streams -> [Slots -> BOOLEAN]] /\ ActiveIsPending'
         /\ count' \in [Streams -> 0..N]
         /\ \A t \in Streams : count'[t] = Cardinality(Pending(t)')
         /\ \A t \in Streams \ {s} : Pending(t)' = Pending(t)
         /\ Pending(s)' \in {Pending(s), Pending(s) \cup {i}, Pending(s) \ {i}}
         /\ Finished(s, i) \/ Pending(s) \subseteq Pending(s)'
<1>1. /\ active \in [Streams -> [Slots -> BOOLEAN]] /\ count \in [Streams -> 0..N]
      /\ N \in Nat \ {0}
      /\ \A t \in Streams : count[t] = Cardinality(Pending(t))
      /\ \A t \in Streams, j \in Slots : active[t][j] <=> kernel[t][j] # "no"
  BY DEF IInv, Books, TypeOK, CountIsPending, ActiveIsPending, IsoConstants
<1>2. \A t \in Streams, j \in Slots : kernel'[t][j] = kernel[t][j] \/ (t = s /\ j = i)
  BY DEF OneSlot
<1>3. \A t \in Streams \ {s} : Pending(t)' = Pending(t)
  BY <1>2 DEF Pending
<1>4. \A t \in Streams : Pending(t) \in SUBSET Slots /\ Pending(t)' \in SUBSET Slots
  BY DEF Pending
<1>5. \A t \in Streams : Cardinality(Pending(t)') \in 0..N
  BY <1>4, SlotSets
<1>6. CASE Unhandled(s, i)
  <2>1. Pending(s)' = Pending(s) /\ active' = active /\ count' = count
    BY <1>2, <1>6 DEF Pending, Unhandled
  <2>2. ActiveIsPending'
    BY <1>1, <1>2, <1>6, <2>1 DEF ActiveIsPending, Unhandled
  <2> QED BY <1>1, <1>3, <2>1, <2>2
<1>7. CASE Submitted(s, i)
  <2>1. Pending(s)' = Pending(s) \cup {i} /\ i \in Slots \ Pending(s)
    BY <1>2, <1>7 DEF Pending, Submitted
  <2>2. Cardinality(Pending(s)') = Cardinality(Pending(s)) + 1
    BY <1>4, <2>1, OneMore
  <2>3. /\ active' \in [Streams -> [Slots -> BOOLEAN]]
        /\ active'[s][i] = TRUE
        /\ \A t \in Streams, j \in Slots : (t = s /\ j = i) \/ active'[t][j] = active[t][j]
    <3>1. active' = [active EXCEPT ![s][i] = TRUE]
      BY <1>7 DEF Submitted, With
    <3>2. active' \in [Streams -> [Slots -> BOOLEAN]]
      BY <1>1, <3>1
    <3>3. active'[s][i] = TRUE
      BY <1>1, <3>1
    <3>4. \A t \in Streams, j \in Slots : (t = s /\ j = i) \/ active'[t][j] = active[t][j]
      BY <1>1, <3>1
    <3> QED BY <3>2, <3>3, <3>4
  <2>4. ActiveIsPending'
    <3>1. ASSUME NEW t \in Streams, NEW j \in Slots
          PROVE  active'[t][j] <=> kernel'[t][j] # "no"
      <4>1. CASE t = s /\ j = i
        BY <1>7, <2>3, <4>1 DEF Submitted
      <4>2. CASE ~(t = s /\ j = i)
        <5>1. active'[t][j] = active[t][j] /\ kernel'[t][j] = kernel[t][j]
          BY <1>2, <2>3, <4>2
        <5>2. active[t][j] <=> kernel[t][j] # "no"
          BY <1>1
        <5> QED BY <5>1, <5>2, Zenon
      <4> QED BY <4>1, <4>2
    <3> QED BY <3>1 DEF ActiveIsPending
  <2>5. \A t \in Streams : count'[t] = IF t = s THEN count[s] + 1 ELSE count[t]
    BY <1>1, <1>7 DEF Submitted
  <2>6. \A t \in Streams : count'[t] = Cardinality(Pending(t)')
    BY <1>1, <1>3, <2>2, <2>5
  <2>7. count' \in [Streams -> 0..N]
    BY <1>1, <1>5, <1>7, <2>6 DEF Submitted
  <2> QED BY <1>3, <2>1, <2>3, <2>4, <2>6, <2>7
<1>8. CASE Finished(s, i)
  <2>1. Pending(s)' = Pending(s) \ {i} /\ i \in Pending(s)
    BY <1>2, <1>8 DEF Pending, Finished
  <2>2. Cardinality(Pending(s)') = Cardinality(Pending(s)) - 1
    BY <1>4, <2>1, OneLess
  <2>3. /\ active' \in [Streams -> [Slots -> BOOLEAN]]
        /\ active'[s][i] = FALSE
        /\ \A t \in Streams, j \in Slots : (t = s /\ j = i) \/ active'[t][j] = active[t][j]
    <3>1. active' = [active EXCEPT ![s][i] = FALSE]
      BY <1>8 DEF Finished, With
    <3>2. active' \in [Streams -> [Slots -> BOOLEAN]]
      BY <1>1, <3>1
    <3>3. active'[s][i] = FALSE
      BY <1>1, <3>1
    <3>4. \A t \in Streams, j \in Slots : (t = s /\ j = i) \/ active'[t][j] = active[t][j]
      BY <1>1, <3>1
    <3> QED BY <3>2, <3>3, <3>4
  <2>4. ActiveIsPending'
    <3>1. ASSUME NEW t \in Streams, NEW j \in Slots
          PROVE  active'[t][j] <=> kernel'[t][j] # "no"
      <4>1. CASE t = s /\ j = i
        BY <1>8, <2>3, <4>1 DEF Finished
      <4>2. CASE ~(t = s /\ j = i)
        <5>1. active'[t][j] = active[t][j] /\ kernel'[t][j] = kernel[t][j]
          BY <1>2, <2>3, <4>2
        <5>2. active[t][j] <=> kernel[t][j] # "no"
          BY <1>1
        <5> QED BY <5>1, <5>2, Zenon
      <4> QED BY <4>1, <4>2
    <3> QED BY <3>1 DEF ActiveIsPending
  <2>5. \A t \in Streams : count'[t] = IF t = s THEN count[s] - 1 ELSE count[t]
    BY <1>1, <1>8 DEF Finished
  <2>6. \A t \in Streams : count'[t] = Cardinality(Pending(t)')
    BY <1>1, <1>3, <2>2, <2>5
  <2>7. count' \in [Streams -> 0..N]
    BY <1>1, <1>5, <1>8, <2>6 DEF Finished
  <2> QED BY <1>3, <1>8, <2>1, <2>3, <2>4, <2>6, <2>7
<1> QED BY <1>6, <1>7, <1>8 DEF OneSlot

-----------------------------------------------------------------------------
(* The actions *)

Statuses == {"no", "submitted", "cancelling"} \cup Retired

\* What the invariant says, for the steps that need all of it.
LEMMA Known ==
  ASSUME IsoConstants, IInv
  PROVE  /\ N \in Nat \ {0} /\ 1 \in Slots
         /\ kernel \in [Streams -> [Slots -> Statuses]]
         /\ active \in [Streams -> [Slots -> BOOLEAN]]
         /\ count \in [Streams -> 0..N]
         /\ started \in [Streams -> BOOLEAN] /\ stopping \in [Streams -> BOOLEAN]
         /\ dead \in BOOLEAN /\ plugged \in BOOLEAN
         /\ job \in [op : {"none", "submit", "cancel", "pump"}, s : Streams, i : Slots]
         /\ \A s \in Streams, i \in Slots : active[s][i] <=> kernel[s][i] # "no"
         /\ \A s \in Streams : count[s] = Cardinality(Pending(s)) /\ Pending(s) \subseteq Slots
         /\ \A s \in Streams : ~started[s] => Pending(s) = {}
<1>1. N \in Nat \ {0} /\ 1 \in Slots
  BY DEF IsoConstants, Slots
<1>2. TypeOK
  BY DEF IInv, Books
<1>3. \A s \in Streams, i \in Slots : active[s][i] <=> kernel[s][i] # "no"
  BY DEF IInv, ActiveIsPending
<1>4. \A s \in Streams : count[s] = Cardinality(Pending(s)) /\ (~started[s] => Pending(s) = {})
  BY DEF IInv, Books, CountIsPending
<1>5. \A s \in Streams : Pending(s) \subseteq Slots
  BY DEF Pending
<1> QED BY <1>1, <1>2, <1>3, <1>4, <1>5 DEF TypeOK, Statuses

\* Changing the status of one transfer.
LEMMA OneStatus ==
  ASSUME IsoConstants, IInv, NEW s \in Streams, NEW i \in Slots, NEW v \in Statuses,
         kernel' = With(kernel, s, i, v)
  PROVE  /\ kernel' \in [Streams -> [Slots -> Statuses]] /\ kernel'[s][i] = v
         /\ \A t \in Streams, j \in Slots : kernel'[t][j] = kernel[t][j] \/ (t = s /\ j = i)
<1>1. kernel' = [kernel EXCEPT ![s][i] = v] /\ kernel \in [Streams -> [Slots -> Statuses]]
  BY Known DEF With
<1> QED BY <1>1

\* A step that leaves the transfers and their books alone.
LEMMA SameBooks ==
  ASSUME IsoConstants, IInv, UNCHANGED <<kernel, active, count>>
  PROVE  /\ kernel' \in [Streams -> [Slots -> Statuses]]
         /\ active' \in [Streams -> [Slots -> BOOLEAN]] /\ ActiveIsPending'
         /\ count' \in [Streams -> 0..N]
         /\ \A t \in Streams : count'[t] = Cardinality(Pending(t)') /\ Pending(t)' = Pending(t)
<1>1. \A t \in Streams : Pending(t)' = Pending(t)
  BY DEF Pending
<1> QED BY <1>1, Known DEF IInv, ActiveIsPending

\* start_iso begins: the stream had no pending transfer.
LEMMA StartStep ==
  ASSUME IsoConstants, IInv, NEW s \in Streams, Start(s)
  PROVE  IInv'
<1>1. /\ job.op = "none" /\ ~started[s]
      /\ started' = [started EXCEPT ![s] = TRUE] /\ stopping' = [stopping EXCEPT ![s] = FALSE]
      /\ count' = [count EXCEPT ![s] = 0] /\ job' = [op |-> "submit", s |-> s, i |-> 1]
      /\ kernel' = kernel /\ active' = active /\ dead' = dead /\ plugged' = plugged
  BY DEF Start, Idle
<1>2. Pending(s) = {} /\ Cardinality(Pending(s)) = 0
  BY <1>1, Known, FS_EmptySet
<1>3. count[s] = 0
  BY <1>2, Known
<1>4. count' = count
  BY <1>1, <1>3, Known
<1>5. UNCHANGED <<kernel, active, count>>
  BY <1>1, <1>4
<1>6. TypeOK'
  BY <1>1, <1>5, Known, SameBooks DEF TypeOK, Statuses
<1>7. CountIsPending'
  <2>1. ASSUME NEW t \in Streams
        PROVE  count'[t] = Cardinality(Pending(t)') /\ (~started'[t] => Pending(t)' = {})
    BY <1>1, <1>5, Known, SameBooks
  <2> QED BY <2>1 DEF CountIsPending
<1>8. \A t \in Streams : stopping'[t] => stopping[t]
  BY <1>1, Known
<1>9. \A t \in Streams : ~stopping[t]
  BY <1>1 DEF IInv, JobOnStream
<1>10. JobOnStream'
  <2>1. ASSUME NEW i \in Slots
        PROVE  kernel'[s][i] = "no" /\ ~(i < 1)
    <3>1. kernel[s][i] = "no"
      BY <1>2 DEF Pending
    <3> QED BY <1>1, <3>1, Known DEF Slots
  <2> QED BY <1>1, <1>8, <1>9, <2>1, Known DEF JobOnStream
<1>11. NoSlotLostSilently'
  <2>1. ASSUME NEW t \in Streams, started'[t], t # s
        PROVE  dead \/ Pending(t) = Slots
    BY <1>1, <1>9, <2>1, Known DEF IInv, Books, NoSlotLostSilently
  <2> QED BY <1>1, <1>5, <2>1, SameBooks DEF NoSlotLostSilently
<1> QED BY <1>5, <1>6, <1>7, <1>10, <1>11, SameBooks DEF IInv, Books

\* stop_iso begins, after start_iso failed or when it is asked for.
LEMMA BeginStopStep ==
  ASSUME IsoConstants, IInv, NEW s \in Streams, started[s], BeginStop(s), job.op # "none" => job.s = s,
         UNCHANGED <<kernel, active, count, started, dead, plugged>>
  PROVE  IInv'
<1>1. stopping' = [stopping EXCEPT ![s] = TRUE] /\ job' = [op |-> "cancel", s |-> s, i |-> 1]
  BY DEF BeginStop
<1>2. TypeOK'
  BY <1>1, Known, SameBooks DEF TypeOK, Statuses
<1>3. CountIsPending'
  <2>1. ASSUME NEW t \in Streams
        PROVE  count'[t] = Cardinality(Pending(t)') /\ (~started'[t] => Pending(t)' = {})
    BY Known, SameBooks
  <2> QED BY <2>1 DEF CountIsPending
<1>4. stopping'[s] /\ \A t \in Streams \ {s} : stopping'[t] = stopping[t]
  BY <1>1, Known
<1>5. \A t \in Streams \ {s} : ~stopping[t]
  BY DEF IInv, JobOnStream
<1>6. JobOnStream'
  BY <1>1, <1>4, <1>5 DEF JobOnStream
<1>7. NoSlotLostSilently'
  <2>1. ASSUME NEW t \in Streams, started[t], t # s
        PROVE  dead \/ Pending(t) = Slots
    BY <1>5, <2>1 DEF IInv, Books, NoSlotLostSilently
  <2> QED BY <1>4, <2>1, SameBooks DEF NoSlotLostSilently
<1> QED BY <1>2, <1>3, <1>6, <1>7, SameBooks DEF IInv, Books

\* start_iso submits the next slot, which had no transfer, or gives up.
LEMMA SubmitStep ==
  ASSUME IsoConstants, IInv, Submit
  PROVE  IInv'
<1>4. PICK s \in Streams, i \in Slots : job.s = s /\ job.i = i
  BY Known
<1>1. /\ job.op = "submit" /\ started' = started /\ dead' = dead /\ plugged' = plugged
      /\ s \in Streams /\ i \in Slots /\ started[s]
      /\ \A j \in Slots : kernel[s][j] # "no" <=> j < i
      /\ \A t \in Streams : ~stopping[t]
  BY <1>4 DEF Submit, IInv, JobOnStream
<1>2. CASE BeginStop(s) /\ UNCHANGED <<kernel, active, count>>
  BY <1>1, <1>2, <1>4, BeginStopStep
<1>3. CASE /\ kernel' = With(kernel, s, i, "submitted")
           /\ active' = With(active, s, i, TRUE)
           /\ count' = [count EXCEPT ![s] = @ + 1]
           /\ job' = IF i = N THEN Idle ELSE [job EXCEPT !.i = @ + 1]
           /\ stopping' = stopping
  <2>1. /\ kernel' \in [Streams -> [Slots -> Statuses]] /\ kernel'[s][i] = "submitted"
        /\ \A t \in Streams, j \in Slots : kernel'[t][j] = kernel[t][j] \/ (t = s /\ j = i)
    <3>1. "submitted" \in Statuses
      BY DEF Statuses
    <3> QED BY <1>3, <3>1, OneStatus
  <2>2. kernel[s][i] = "no"
    BY <1>1, Known DEF Slots
  <2>3. OneSlot(s, i) /\ ~Finished(s, i)
    BY <1>3, <2>1, <2>2 DEF OneSlot, Submitted, Finished, Statuses
  <2>4. /\ active' \in [Streams -> [Slots -> BOOLEAN]] /\ ActiveIsPending'
        /\ count' \in [Streams -> 0..N]
        /\ \A t \in Streams : count'[t] = Cardinality(Pending(t)')
        /\ \A t \in Streams \ {s} : Pending(t)' = Pending(t)
    BY <1>1, <2>3, OneSlotStep
  <2>5. /\ job'.s \in Streams /\ job'.i \in Slots
        /\ job' \in [op : {"none", "submit", "cancel", "pump"}, s : Streams, i : Slots]
        /\ IF i = N THEN job'.op = "none"
           ELSE job'.op = "submit" /\ job'.s = s /\ job'.i = i + 1
    <3>1. CASE i = N
      <4>1. (CHOOSE t \in Streams : TRUE) \in Streams
        BY DEF IsoConstants
      <4> QED BY <1>3, <3>1, <4>1, Known DEF Idle
    <3>2. CASE i # N
      <4>1. i + 1 \in Slots
        BY <1>1, <3>2, Known DEF Slots
      <4>2. job' = [job EXCEPT !.i = i + 1]
        BY <1>3, <1>4, <3>2
      <4> QED BY <1>1, <1>4, <3>2, <4>1, <4>2, Known
    <3> QED BY <3>1, <3>2
  <2>6. TypeOK'
    BY <1>1, <1>3, <2>1, <2>4, <2>5, Known DEF TypeOK, Statuses
  <2>7. CountIsPending'
    BY <1>1, <2>4, Known DEF CountIsPending
  <2>8. \A j \in Slots : kernel'[s][j] # "no" <=> j < i + 1
    <3>1. ASSUME NEW j \in Slots
          PROVE  kernel'[s][j] # "no" <=> j < i + 1
      <4>1. j \in Nat /\ i \in Nat
        BY <1>1 DEF Slots
      <4>2. CASE j = i
        BY <2>1, <4>1, <4>2
      <4>3. CASE j # i
        <5>1. kernel'[s][j] = kernel[s][j] /\ (kernel[s][j] # "no" <=> j < i)
          BY <1>1, <2>1, <4>3
        <5> QED BY <4>1, <4>3, <5>1
      <4> QED BY <4>2, <4>3
    <3> QED BY <3>1
  <2>9. JobOnStream'
    BY <1>1, <1>3, <2>5, <2>8 DEF JobOnStream
  <2>10. NoSlotLostSilently'
    <3>1. ASSUME NEW t \in Streams, started[t], t # s
          PROVE  dead \/ Pending(t)' = Slots
      BY <1>1, <1>4, <2>4, <3>1 DEF IInv, Books, NoSlotLostSilently
    <3>2. ASSUME i = N
          PROVE  Pending(s)' = Slots
      <4>1. ASSUME NEW j \in Slots
            PROVE  j < i + 1
        <5>1. N \in Nat /\ j \in 1..N
          BY Known DEF Slots
        <5> QED BY <3>2, <5>1
      <4>2. \A j \in Slots : kernel'[s][j] # "no"
        BY <2>8, <4>1
      <4> QED BY <4>2 DEF Pending
    <3>3. ASSUME NEW t \in Streams, started'[t], ~(job'.op = "submit" /\ job'.s = t)
          PROVE  dead' \/ Pending(t)' = Slots
      BY <1>1, <2>5, <3>1, <3>2, <3>3
    <3> QED BY <3>3 DEF NoSlotLostSilently
  <2> QED BY <2>4, <2>6, <2>7, <2>9, <2>10 DEF IInv, Books
<1> QED BY <1>2, <1>3, <1>4 DEF Submit

\* stop_video, stop_depth and close begin a stop.
LEMMA StopStep ==
  ASSUME IsoConstants, IInv, NEW s \in Streams, Stop(s)
  PROVE  IInv'
<1>1. job.op = "none" /\ started[s] /\ BeginStop(s)
      /\ UNCHANGED <<kernel, active, count, started, dead, plugged>>
  BY DEF Stop, Idle
<1> QED BY <1>1, BeginStopStep

\* A step of one transfer that only the thread or a callback may take: the
\* streams stay, a transfer that ends was to end or ends with the device.
LEMMA TransferStep ==
  ASSUME IsoConstants, IInv, NEW s \in Streams, NEW i \in Slots, OneSlot(s, i),
         started' = started, stopping' = stopping, plugged' = plugged,
         dead' \in BOOLEAN, dead => dead',
         started[s], ~Submitted(s, i), Finished(s, i) => stopping[s] \/ dead'
  PROVE  /\ CountIsPending' /\ ActiveIsPending'
         /\ job' \in [op : {"none", "submit", "cancel", "pump"}, s : Streams, i : Slots] => TypeOK'
         /\ job'.op # "submit" /\ job.op # "submit" => NoSlotLostSilently'
         /\ job' = job => NoSlotLostSilently'
<1>1. /\ kernel' \in [Streams -> [Slots -> Statuses]]
      /\ active' \in [Streams -> [Slots -> BOOLEAN]] /\ ActiveIsPending'
      /\ count' \in [Streams -> 0..N]
      /\ \A t \in Streams : count'[t] = Cardinality(Pending(t)')
      /\ \A t \in Streams \ {s} : Pending(t)' = Pending(t)
      /\ Finished(s, i) \/ Pending(s) \subseteq Pending(s)'
  BY OneSlotStep DEF OneSlot, Statuses
<1>2. CountIsPending'
  BY <1>1, Known DEF CountIsPending
<1>3. job' \in [op : {"none", "submit", "cancel", "pump"}, s : Streams, i : Slots] => TypeOK'
  BY <1>1, Known DEF TypeOK, Statuses
<1>4. ASSUME NEW t \in Streams, started[t], ~stopping[t], ~(job.op = "submit" /\ job.s = t)
      PROVE  dead' \/ Pending(t)' = Slots
  <2>1. dead \/ Pending(t) = Slots
    BY <1>4 DEF IInv, Books, NoSlotLostSilently
  <2>2. Pending(t)' \subseteq Slots
    BY DEF Pending
  <2>3. CASE t = s
    BY <1>1, <1>4, <2>1, <2>2, <2>3
  <2>4. CASE t # s
    BY <1>1, <2>1, <2>4
  <2> QED BY <2>3, <2>4
<1>5. (job'.op # "submit" /\ job.op # "submit") \/ job' = job => NoSlotLostSilently'
  <2>1. SUFFICES ASSUME (job'.op # "submit" /\ job.op # "submit") \/ job' = job,
                        NEW t \in Streams, started'[t], ~stopping'[t],
                        ~(job'.op = "submit" /\ job'.s = t)
                 PROVE  dead' \/ Pending(t)' = Slots
    BY DEF NoSlotLostSilently
  <2> QED BY <1>4, <2>1
<1> QED BY <1>1, <1>2, <1>3, <1>5

\* A step that changes neither transfers nor streams.
LEMMA NothingStep ==
  ASSUME IsoConstants, IInv, UNCHANGED <<kernel, active, count, started, stopping>>,
         plugged' \in BOOLEAN, dead' \in BOOLEAN,
         dead => dead' \/ \A s \in Streams : ~started[s],
         job' \in [op : {"none", "submit", "cancel", "pump"}, s : Streams, i : Slots],
         (job'.op # "submit" /\ job.op # "submit") \/ job' = job
  PROVE  Books' /\ ActiveIsPending'
<1>1. TypeOK' /\ ActiveIsPending'
  BY SameBooks, Known DEF TypeOK, Statuses
<1>2. CountIsPending'
  BY SameBooks, Known DEF CountIsPending
<1>3. ASSUME NEW t \in Streams, started[t], ~stopping[t], ~(job.op = "submit" /\ job.s = t)
      PROVE  dead' \/ Pending(t)' = Slots
  BY <1>3, SameBooks DEF IInv, Books, NoSlotLostSilently
<1>4. NoSlotLostSilently'
  <2>1. SUFFICES ASSUME NEW t \in Streams, started'[t], ~stopping'[t],
                        ~(job'.op = "submit" /\ job'.s = t)
                 PROVE  dead' \/ Pending(t)' = Slots
    BY DEF NoSlotLostSilently
  <2> QED BY <1>3, <2>1
<1> QED BY <1>1, <1>2, <1>4 DEF Books

\* stop_iso cancels: what it cancels stays pending until its callback.
LEMMA CancelStep ==
  ASSUME IsoConstants, IInv, Cancel
  PROVE  IInv'
<1>1. PICK s \in Streams, i \in Slots : job.s = s /\ job.i = i
  BY Known
<1>2. /\ job.op = "cancel" /\ started[s]
      /\ active' = active /\ count' = count /\ started' = started /\ stopping' = stopping
      /\ plugged' = plugged
  BY <1>1 DEF Cancel, IInv, JobOnStream
<1>3. /\ job' \in [op : {"none", "submit", "cancel", "pump"}, s : Streams, i : Slots]
      /\ job'.op \in {"cancel", "pump"} /\ job'.s = s
  <2>1. CASE i = N
    <3>1. job' = [job EXCEPT !.op = "pump"]
      BY <1>1, <2>1 DEF Cancel
    <3> QED BY <1>1, <3>1, Known
  <2>2. CASE i # N
    <3>1. job' = [job EXCEPT !.i = i + 1]
      BY <1>1, <2>2 DEF Cancel
    <3>2. i + 1 \in Slots
      <4>1. N \in Nat
        BY DEF IsoConstants
      <4> QED BY <2>2, <4>1 DEF Slots
    <3>3. job \in [op : {"none", "submit", "cancel", "pump"}, s : Streams, i : Slots]
      BY Known
    <3> QED BY <1>1, <1>2, <3>1, <3>2, <3>3
  <2> QED BY <2>1, <2>2
<1>4. JobOnStream'
  BY <1>1, <1>2, <1>3 DEF IInv, JobOnStream
<1>5. CASE kernel[s][i] = "submitted" /\ kernel' = With(kernel, s, i, "cancelling") /\ dead' = dead
  <2>1. "cancelling" \in Statuses
    BY DEF Statuses
  <2>2. OneSlot(s, i) /\ ~Submitted(s, i) /\ ~Finished(s, i)
    <3>1. /\ kernel' \in [Streams -> [Slots -> Statuses]] /\ kernel'[s][i] = "cancelling"
          /\ \A t \in Streams, j \in Slots : kernel'[t][j] = kernel[t][j] \/ (t = s /\ j = i)
      BY <1>5, <2>1, OneStatus
    <3>2. Unhandled(s, i) /\ ~Submitted(s, i) /\ ~Finished(s, i)
      BY <1>2, <1>5, <3>1 DEF Unhandled, Submitted, Finished
    <3> QED BY <3>1, <3>2 DEF OneSlot, Statuses
  <2> QED BY <1>2, <1>3, <1>4, <1>5, <2>2, TransferStep, Known DEF IInv, Books
<1>6. CASE kernel' = kernel /\ dead' \in {dead, TRUE}
  <2>1. UNCHANGED <<kernel, active, count, started, stopping>>
    BY <1>2, <1>6
  <2>2. dead' \in BOOLEAN /\ (dead => dead') /\ plugged' \in BOOLEAN
    <3>1. plugged \in BOOLEAN /\ dead \in BOOLEAN
      BY Known
    <3>2. dead' = dead \/ dead' = TRUE
      BY <1>6
    <3>3. plugged' = plugged
      BY <1>2
    <3> QED BY <3>1, <3>2, <3>3, Zenon
  <2> QED BY <1>2, <1>3, <1>4, <2>1, <2>2, NothingStep DEF IInv
<1>7. (kernel[s][i] = "submitted" /\ kernel' = With(kernel, s, i, "cancelling") /\ dead' = dead)
      \/ (kernel' = kernel /\ dead' \in {dead, TRUE})
  BY <1>1 DEF Cancel
<1> QED BY <1>5, <1>6, <1>7

\* stop_iso frees the slots: none is pending when the count is zero.
LEMMA FreeStep ==
  ASSUME IsoConstants, IInv, Free
  PROVE  IInv'
<1>1. PICK s \in Streams : job.s = s
  BY Known
<1>2. /\ job.op = "pump" /\ count[s] = 0
      /\ started' = [started EXCEPT ![s] = FALSE] /\ stopping' = [stopping EXCEPT ![s] = FALSE]
      /\ job' = Idle /\ kernel' = kernel /\ active' = active /\ count' = count
      /\ dead' = dead /\ plugged' = plugged
  BY <1>1 DEF Free
<1>3. Pending(s) = {}
  BY <1>2, Known, SlotSets
<1>4. UNCHANGED <<kernel, active, count>>
  BY <1>2
<1>5. job' \in [op : {"none", "submit", "cancel", "pump"}, s : Streams, i : Slots]
      /\ job'.op = "none"
  <2>1. (CHOOSE t \in Streams : TRUE) \in Streams
    BY DEF IsoConstants
  <2> QED BY <1>2, <2>1, Known DEF Idle
<1>6. TypeOK'
  BY <1>2, <1>4, <1>5, Known, SameBooks DEF TypeOK, Statuses
<1>7. /\ ~started'[s] /\ \A t \in Streams \ {s} : started'[t] = started[t]
      /\ ~stopping'[s] /\ \A t \in Streams \ {s} : stopping'[t] = stopping[t]
  BY <1>2, Known
<1>8. CountIsPending'
  <2>1. ASSUME NEW t \in Streams
        PROVE  count'[t] = Cardinality(Pending(t)') /\ (~started'[t] => Pending(t)' = {})
    BY <1>3, <1>4, <1>7, Known, SameBooks
  <2> QED BY <2>1 DEF CountIsPending
<1>9. JobOnStream'
  <2>1. \A t \in Streams \ {s} : ~stopping[t]
    BY <1>1, <1>2 DEF IInv, JobOnStream
  <2> QED BY <1>5, <1>7, <2>1 DEF JobOnStream
<1>10. NoSlotLostSilently'
  <2>1. ASSUME NEW t \in Streams, t # s, started[t], ~stopping[t]
        PROVE  dead \/ Pending(t) = Slots
    BY <1>2, <2>1 DEF IInv, Books, NoSlotLostSilently
  <2> QED BY <1>2, <1>4, <1>7, <2>1, SameBooks DEF NoSlotLostSilently
<1> QED BY <1>4, <1>6, <1>8, <1>9, <1>10, SameBooks DEF IInv, Books

\* handle_iso_callback: the transfer goes on, or ends and is not counted any more.
LEMMA HandleStep ==
  ASSUME IsoConstants, IInv, NEW s \in Streams, NEW i \in Slots, Handle(s, i)
  PROVE  IInv'
<1>1. /\ job.op # "submit" /\ kernel[s][i] \in Retired
      /\ started' = started /\ stopping' = stopping /\ plugged' = plugged /\ job' = job
  BY DEF Handle, Idle
<1>2. kernel[s][i] # "no" /\ active[s][i] /\ started[s]
  <2>1. kernel[s][i] # "no"
    BY <1>1 DEF Retired
  <2>2. i \in Pending(s)
    BY <2>1 DEF Pending
  <2> QED BY <2>1, <2>2, Known
<1>3. JobOnStream'
  BY <1>1 DEF IInv, JobOnStream
<1>4. CASE kernel' = With(kernel, s, i, "submitted") /\ UNCHANGED <<active, count, dead>>
  <2>1. "submitted" \in Statuses
    BY DEF Statuses
  <2>2. OneSlot(s, i) /\ ~Submitted(s, i) /\ ~Finished(s, i)
    <3>1. /\ kernel' \in [Streams -> [Slots -> Statuses]] /\ kernel'[s][i] = "submitted"
          /\ \A t \in Streams, j \in Slots : kernel'[t][j] = kernel[t][j] \/ (t = s /\ j = i)
      BY <1>4, <2>1, OneStatus
    <3>2. Unhandled(s, i) /\ ~Submitted(s, i) /\ ~Finished(s, i)
      BY <1>2, <1>4, <3>1 DEF Unhandled, Submitted, Finished
    <3> QED BY <3>1, <3>2 DEF OneSlot, Statuses
  <2> QED BY <1>1, <1>2, <1>3, <1>4, <2>2, TransferStep, Known DEF IInv, Books
<1>5. CASE /\ kernel' = With(kernel, s, i, "no")
           /\ dead' = (dead \/ Fatal(s, i) \/ ~stopping[s])
           /\ Deactivate(s, i)
  <2>1. "no" \in Statuses
    BY DEF Statuses
  <2>2. active' = With(active, s, i, FALSE) /\ count' = [count EXCEPT ![s] = @ - 1]
    BY <1>2, <1>5 DEF Deactivate
  <2>3. OneSlot(s, i) /\ ~Submitted(s, i)
    BY <1>2, <1>5, <2>1, <2>2, OneStatus DEF OneSlot, Submitted, Finished, Statuses
  <2>4. dead' \in BOOLEAN /\ (dead => dead') /\ (stopping[s] \/ dead')
    BY <1>5
  <2> QED BY <1>1, <1>2, <1>3, <2>3, <2>4, TransferStep, Known DEF IInv, Books
<1> QED BY <1>4, <1>5 DEF Handle

\* The kernel retires a transfer: it is pending until its callback is over.
LEMMA RetireStep ==
  ASSUME IsoConstants, IInv, NEW s \in Streams, NEW i \in Slots, Retire(s, i)
  PROVE  IInv'
<1>1. /\ kernel[s][i] \in {"submitted", "cancelling"} /\ job' = job
      /\ UNCHANGED <<active, count, dead>>
      /\ started' = started /\ stopping' = stopping /\ plugged' = plugged
  BY DEF Retire
<1>2. PICK v \in {"completed", "cancelled", "gone"} : kernel' = With(kernel, s, i, v)
  BY DEF Retire
<1>3. v \in Statuses /\ v # "no"
  BY DEF Statuses, Retired
<1>4. OneSlot(s, i) /\ ~Submitted(s, i) /\ ~Finished(s, i)
  BY ZenonT(60), <1>1, <1>2, <1>3, OneStatus DEF OneSlot, Unhandled, Submitted, Finished, Statuses
<1>5. \A t \in Streams, j \in Slots : kernel'[t][j] # "no" <=> kernel[t][j] # "no"
  BY <1>1, <1>2, <1>3, OneStatus
<1>6. i \in Pending(s) /\ started[s]
  <2>1. i \in Pending(s)
    BY <1>1 DEF Pending
  <2> QED BY <2>1, Known
<1>7. JobOnStream'
  BY <1>1, <1>5, Known DEF IInv, JobOnStream
<1> QED BY <1>1, <1>4, <1>6, <1>7, TransferStep, Known DEF IInv, Books

\* The device is opened again when no stream is started, or unplugged.
LEMMA OtherSteps ==
  ASSUME IsoConstants, IInv, Reopen \/ Unplug \/ UNCHANGED vars
  PROVE  IInv'
<1>1. UNCHANGED <<kernel, active, count, started, stopping>> /\ job' = job
  BY DEF Reopen, Unplug, vars
<1>2. /\ plugged' \in BOOLEAN /\ dead' \in BOOLEAN
      /\ dead => dead' \/ \A s \in Streams : ~started[s]
  <2>1. plugged \in BOOLEAN /\ dead \in BOOLEAN
    BY Known
  <2>2. CASE Reopen
    BY <2>2 DEF Reopen
  <2>3. CASE Unplug
    BY <2>1, <2>3 DEF Unplug
  <2>4. CASE UNCHANGED vars
    BY <2>1, <2>4 DEF vars
  <2> QED BY <2>2, <2>3, <2>4
<1>3. job' \in [op : {"none", "submit", "cancel", "pump"}, s : Streams, i : Slots]
  BY <1>1, Known
<1>4. JobOnStream'
  BY <1>1 DEF IInv, JobOnStream
<1> QED BY <1>1, <1>2, <1>3, <1>4, NothingStep DEF IInv

\* The invariant holds at first.
LEMMA Initial ==
  ASSUME IsoConstants, Init
  PROVE  IInv
<1>1. N \in Nat \ {0} /\ 1 \in Slots /\ (CHOOSE s \in Streams : TRUE) \in Streams
  BY DEF IsoConstants, Slots
<1>2. TypeOK
  <2>1. Idle \in [op : {"none", "submit", "cancel", "pump"}, s : Streams, i : Slots]
    BY <1>1 DEF Idle
  <2> HIDE DEF Idle
  <2>2. kernel \in [Streams -> [Slots -> {"no", "submitted", "cancelling"} \cup Retired]]
    BY DEF Init
  <2>3. active \in [Streams -> [Slots -> BOOLEAN]]
    BY DEF Init
  <2>4. count \in [Streams -> 0..N]
    BY <1>1 DEF Init
  <2>5. started \in [Streams -> BOOLEAN] /\ stopping \in [Streams -> BOOLEAN]
    BY DEF Init
  <2> QED BY <2>1, <2>2, <2>3, <2>4, <2>5 DEF Init, TypeOK
<1>3. \A s \in Streams : Pending(s) = {} /\ count[s] = 0 /\ ~started[s] /\ ~stopping[s]
  BY DEF Init, Pending
<1>4. CountIsPending /\ NoSlotLostSilently
  BY <1>3, FS_EmptySet DEF CountIsPending, NoSlotLostSilently
<1>5. ActiveIsPending
  BY DEF Init, ActiveIsPending
<1>6. JobOnStream
  BY <1>3 DEF Init, Idle, JobOnStream
<1> QED BY <1>2, <1>4, <1>5, <1>6 DEF IInv, Books

\* The count of each stream is the number of its pending transfers, and a stream
\* that runs has all of them or is on a lost device.
THEOREM IsoInvariant ==
  ASSUME IsoConstants
  PROVE  Spec => []IInv
<1>1. Init => IInv
  BY Initial
<1>2. IInv /\ [Next]_vars => IInv'
  BY StartStep, StopStep, SubmitStep, CancelStep, FreeStep, HandleStep, RetireStep, OtherSteps
     DEF Next, Thread
<1> QED BY <1>1, <1>2, PTL DEF Spec

\* kinect_usb_camera.cpp:624-635: no transfer the kernel or a callback still needs
\* is freed, and stop_iso waits for exactly those that are pending.
THEOREM CountIsPendingHolds ==
  ASSUME IsoConstants
  PROVE  Spec => []CountIsPending
<1>1. IInv => CountIsPending
  BY DEF IInv, Books
<1> QED BY <1>1, IsoInvariant, PTL

\* kinect_usb_camera.cpp:563-566: a stream never runs on with fewer transfers, but
\* on a device that is going to be opened again.
THEOREM NoSlotLostSilentlyHolds ==
  ASSUME IsoConstants
  PROVE  Spec => []NoSlotLostSilently
<1>1. IInv => NoSlotLostSilently
  BY DEF IInv, Books
<1> QED BY <1>1, IsoInvariant, PTL

=============================================================================
