------------------------------ MODULE WinIsoReads ------------------------------
(***************************************************************************)
(* The isochronous reads of one endpoint of the Windows camera service     *)
(* (Kinect360RemoldCameraBridge.cpp: StreamVideo, StreamDepthSession and   *)
(* CancelPendingIsoReads).  A registered buffer is cut into slots, each    *)
(* with a read of its own, an event and a flag that says that the kernel   *)
(* has the read.  The engine stops and starts with the buffer registered;  *)
(* at the end of the session the buffer is freed.                          *)
(***************************************************************************)
EXTENDS Integers

CONSTANTS Slots      \* 1..kIsoQueueDepth

VARIABLES
  buffer,            \* "registered", or "freed"
  kernel,            \* of each slot: "no", "reading" or "signaled"
  pending,           \* of each slot: slot.pending
  pc, i,             \* what the thread does, and with which slot
  needAbort,         \* needAbort
  final              \* the session is over

vars == <<buffer, kernel, pending, pc, i, needAbort, final>>

Set(f, s, v) == [f EXCEPT ![s] = v]
Last == \A s \in Slots : s <= i

Goes(from, to, slot) == pc = from /\ pc' = to /\ i' = slot

\* ResetEvent and WinUsb_ReadIsochPipeAsap
QueueRead(s) == kernel' = Set(kernel, s, "reading") /\ pending' = Set(pending, s, TRUE)

\* queueAllVideoReads; a read that cannot be queued ends the session.
Start ==
  /\ Goes("idle", "queue", 1)
  /\ UNCHANGED <<buffer, kernel, pending, needAbort, final>>

QueueNext ==
  /\ \/ /\ Goes("queue", IF Last THEN "run" ELSE "queue", i + 1) /\ QueueRead(i)
        /\ UNCHANGED final
     \/ /\ Goes("queue", "cancel", 1) /\ final' = TRUE /\ UNCHANGED <<kernel, pending>>
  /\ UNCHANGED <<buffer, needAbort>>

\* A completion: the slot is read again, or the session ends.
Resubmit(s) ==
  /\ kernel[s] = "signaled" /\ pending[s]
  /\ \/ Goes("run", "run", i) /\ QueueRead(s) /\ UNCHANGED final
     \/ /\ Goes("run", "cancel", 1) /\ final' = TRUE
        /\ kernel' = Set(kernel, s, "no") /\ pending' = Set(pending, s, FALSE)
  /\ UNCHANGED <<buffer, needAbort>>

\* The engine is stopped, for a while or for good.
Stop ==
  /\ Goes("run", "cancel", 1) /\ final' \in BOOLEAN
  /\ UNCHANGED <<buffer, kernel, pending, needAbort>>

StopIdle ==
  /\ Goes("idle", "cancel", 1) /\ final' = TRUE
  /\ UNCHANGED <<buffer, kernel, pending, needAbort>>

\* CancelPendingIsoReads: CancelIoEx on all of them, a wait for each with what
\* is left of the deadline, and an abort of the pipe when one does not come.
Cancel ==
  /\ Goes("cancel", "wait", 1) /\ needAbort' = FALSE
  /\ UNCHANGED <<buffer, kernel, pending, final>>

Collected(s) == kernel' = Set(kernel, s, "no") /\ pending' = Set(pending, s, FALSE)

\* Mutant: a read that does not come within the deadline is forgotten.
WaitForgets ==
  /\ Goes("wait", IF ~Last THEN "wait" ELSE "end", i + 1)
  /\ \/ kernel[i] # "reading" /\ Collected(i)
     \/ kernel[i] = "reading" /\ pending' = Set(pending, i, FALSE) /\ UNCHANGED kernel
  /\ UNCHANGED <<buffer, needAbort, final>>

WaitNext ==
  /\ pc = "wait"
  /\ \/ kernel[i] # "reading" /\ Collected(i) /\ UNCHANGED needAbort
     \/ kernel[i] = "reading" /\ needAbort' = TRUE /\ UNCHANGED <<kernel, pending>>
  /\ Goes("wait", IF ~Last THEN "wait" ELSE IF needAbort' THEN "abort" ELSE "end", i + 1)
  /\ UNCHANGED <<buffer, final>>

\* WinUsb_AbortPipe, and a wait without a deadline for what is still pending
Abort ==
  /\ \A s \in Slots : pending[s] => kernel[s] # "reading"
  /\ Goes("abort", "end", 1)
  /\ kernel' = [s \in Slots |-> IF pending[s] THEN "no" ELSE kernel[s]]
  /\ pending' = [s \in Slots |-> FALSE]
  /\ UNCHANGED <<buffer, needAbort, final>>

\* The buffer stays registered, unless the session is over: WinUsb_Unregister-
\* IsochBuffer, CloseSlots, and the vectors go out of scope.
End ==
  /\ Goes("end", IF final THEN "closed" ELSE "idle", 1)
  /\ buffer' = IF final THEN "freed" ELSE buffer
  /\ UNCHANGED <<kernel, pending, needAbort, final>>

\* The next session: StreamVideo is called again, with a buffer of its own.
Reopen ==
  /\ Goes("closed", "idle", 1) /\ buffer' = "registered" /\ final' = FALSE
  /\ UNCHANGED <<kernel, pending, needAbort>>

\* Environment: a read completes, with data, with an error or cancelled.
Complete(s) ==
  /\ kernel[s] = "reading" /\ kernel' = Set(kernel, s, "signaled")
  /\ UNCHANGED <<buffer, pending, pc, i, needAbort, final>>

Init ==
  /\ buffer = "registered" /\ kernel = [s \in Slots |-> "no"]
  /\ pending = [s \in Slots |-> FALSE]
  /\ pc = "idle" /\ i = 1 /\ needAbort = FALSE /\ final = FALSE

Next ==
  \/ Start \/ QueueNext \/ Stop \/ StopIdle \/ Cancel \/ WaitNext \/ Abort \/ End \/ Reopen
  \/ \E s \in Slots : Resubmit(s) \/ Complete(s)

-----------------------------------------------------------------------------
(* Properties *)

TypeOK ==
  /\ buffer \in {"registered", "freed"}
  /\ kernel \in [Slots -> {"no", "reading", "signaled"}]
  /\ pending \in [Slots -> BOOLEAN] /\ {needAbort, final} \subseteq BOOLEAN
  /\ pc \in {"idle", "queue", "run", "cancel", "wait", "abort", "end", "closed"}
  /\ i - 1 \in {0} \cup Slots

\* No read is in flight into a buffer that has been freed, and none is started
\* twice: while the engine is stopped the kernel has nothing, however late the
\* reads come back (lines 1473-1518, 1987-1996, 2186-2188).
NoReadOutlivesItsBuffer ==
  buffer = "freed" \/ pc = "idle" => \A s \in Slots : kernel[s] # "reading"
=============================================================================
