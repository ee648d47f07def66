------------------------------ MODULE Mi00Channel ------------------------------
(***************************************************************************)
(* The bulk pair of a model 1473 control interface, MI_00, as broker.cpp   *)
(* uses it: 20-byte commands out, 12-byte acknowledgements and 104-byte    *)
(* status payloads in, one device FIFO between them.                       *)
(*                                                                         *)
(* A read that times out takes nothing; the answer it waited for comes     *)
(* later and is what the next read finds.  The code compares no tags, so a *)
(* packet is only "ack" or "data"; whether it answers the last command is  *)
(* what the properties are about.  The caller holds the session's mutex    *)
(* (MotorBroker), so one operation runs at a time.                         *)
(***************************************************************************)
EXTENDS Integers, Sequences

CONSTANTS
  Late,        \* the packets that may miss a read's timeout: "ack", "data"
  MaxOwed      \* bound: packets the device may owe when a read gives up

VARIABLES
  working,     \* packets the device is going to send
  fifo,        \* packets waiting on the IN endpoint
  primed,      \* primed_
  pc, op,      \* the operation and the transfer it waits in
  attempt,     \* of with_fresh_handle_retry_locked
  tries,       \* reads left in status_1473_locked
  result       \* of the last operation

vars == <<working, fifo, primed, pc, op, attempt, tries, result>>

\* What is taken of the constants: a payload comes within its read's timeout,
\* and no read gives up behind more packets than the next one can skip.
ChannelConstants == Late \subseteq {"ack"} /\ MaxOwed \in 0..3

Packets == [kind : {"ack", "data"}, current : BOOLEAN]
Aged(q) == [i \in DOMAIN q |-> [q[i] EXCEPT !.current = FALSE]]

-----------------------------------------------------------------------------
(* Transfers *)

\* A command goes out; whatever was or is to be received answers older ones.
Send(kinds, next) ==
  /\ fifo' = Aged(fifo)
  /\ working' = Aged(working) \o [i \in DOMAIN kinds |-> [kind |-> kinds[i], current |-> TRUE]]
  /\ pc' = next

Take == fifo # <<>> /\ fifo' = Tail(fifo)

\* A read times out: the packet it waits for is late, or will never come.
Timeout(kind) ==
  /\ fifo = <<>>
  /\ \/ kind \in Late /\ Len(working) <= MaxOwed
     \/ working = <<>>
  /\ UNCHANGED fifo

Done(r) ==
  /\ pc' = "idle"
  /\ result' = r
  /\ UNCHANGED <<op, attempt>>

\* An error: Tilt gives up, its final reading is optional, everything else
\* closes the handle and is tried once more.
Fail ==
  IF op \in {"Tilt", "TiltRead"}
  THEN Done(IF op = "Tilt" THEN "error" ELSE "unread") /\ UNCHANGED primed
  ELSE /\ primed' = FALSE
       /\ IF attempt = 1
          THEN pc' = "start" /\ attempt' = 2 /\ UNCHANGED <<op, result>>
          ELSE Done("error")

-----------------------------------------------------------------------------
(* Operations *)

\* led, status or tilt: one of them begins
Begin ==
  /\ pc = "idle"
  /\ op' \in {"Led", "Status", "Tilt"}
  /\ pc' = "start"
  /\ attempt' = 1
  /\ result' = "none"
  /\ UNCHANGED <<working, fifo, primed, tries>>

\* prime_1473_locked: a fresh handle turns the LED green first; and the
\* command of the operation itself.
Command ==
  /\ pc = "start"
  /\ IF ~primed THEN Send(<<"ack">>, "primeAck")
     ELSE IF op \in {"Status", "TiltRead"} THEN Send(<<"data", "ack">>, "data")
     ELSE Send(<<"ack">>, "ack")
  /\ tries' = 4
  /\ UNCHANGED <<primed, op, attempt, result>>

\* The OUT transfer fails: the device gets nothing.
CommandFails ==
  /\ pc = "start" /\ Fail
  /\ UNCHANGED <<working, fifo, tries>>

\* What follows a successful acknowledgement.
Acknowledged ==
  CASE pc = "primeAck" -> primed' = TRUE /\ pc' = "start" /\ UNCHANGED <<op, attempt, result>>
    [] pc = "ack" /\ op = "Tilt" -> op' = "TiltRead" /\ pc' = "start"
                                    /\ UNCHANGED <<primed, attempt, result>>
    [] OTHER -> Done(IF pc = "dataAck" THEN result ELSE "ok") /\ UNCHANGED primed

\* alt_ack_locked: any 12-byte reply will do, a longer packet overflows the
\* read.  After a Tilt command or a status payload a timeout is no error.
AckRead ==
  /\ pc \in {"primeAck", "ack", "dataAck"}
  /\ \/ Take /\ Head(fifo).kind = "ack" /\ Acknowledged
     \/ Take /\ Head(fifo).kind = "data" /\ Fail
     \/ /\ Timeout("ack")
        /\ IF pc = "dataAck" \/ op = "Tilt" THEN Acknowledged ELSE Fail
  /\ UNCHANGED <<working, tries>>

\* Mutant: only the first short reply in front of the payload is skipped.
DataReadGivesUpEarly ==
  /\ pc = "data"
  /\ \/ /\ Take /\ Head(fifo).kind = "data"
        /\ result' = IF Head(fifo).current THEN "fresh" ELSE "stale"
        /\ pc' = "dataAck"
        /\ UNCHANGED <<primed, op, attempt, tries>>
     \/ /\ Take /\ Head(fifo).kind = "ack"
        /\ tries' = tries - 1
        /\ IF tries > 3 THEN UNCHANGED <<primed, pc, op, attempt, result>> ELSE Fail
     \/ Timeout("data") /\ Fail /\ UNCHANGED tries
  /\ UNCHANGED working

\* status_1473_locked: up to four reads, short replies are skipped
DataRead ==
  /\ pc = "data"
  /\ \/ /\ Take /\ Head(fifo).kind = "data"
        /\ result' = IF Head(fifo).current THEN "fresh" ELSE "stale"
        /\ pc' = "dataAck"
        /\ UNCHANGED <<primed, op, attempt, tries>>
     \/ /\ Take /\ Head(fifo).kind = "ack"
        /\ tries' = tries - 1
        /\ IF tries > 1 THEN UNCHANGED <<primed, pc, op, attempt, result>> ELSE Fail
     \/ Timeout("data") /\ Fail /\ UNCHANGED tries
  /\ UNCHANGED working

\* Environment: the device sends its next packet.
Answer ==
  /\ working # <<>>
  /\ fifo' = Append(fifo, Head(working))
  /\ working' = Tail(working)
  /\ UNCHANGED <<primed, pc, op, attempt, tries, result>>

-----------------------------------------------------------------------------

Init ==
  /\ working = <<>> /\ fifo = <<>>
  /\ primed = FALSE
  /\ pc = "idle" /\ op = "Status"
  /\ attempt = 1 /\ tries = 4
  /\ result = "none"

Next == Begin \/ Command \/ CommandFails \/ AckRead \/ DataRead \/ Answer
Spec == Init /\ [][Next]_vars

-----------------------------------------------------------------------------

TypeOK ==
  /\ working \in Seq(Packets) /\ fifo \in Seq(Packets)
  /\ primed \in BOOLEAN
  /\ pc \in {"idle", "start", "primeAck", "ack", "data", "dataAck"}
  /\ op \in {"Led", "Status", "Tilt", "TiltRead"}
  /\ attempt \in 1..2 /\ tries \in 0..4
  /\ result \in {"none", "ok", "fresh", "stale", "unread", "error"}

\* A reading that Status or the end of a Tilt accepts was measured for it.
FreshReading == result # "stale"

\* Late packets do not pile up: between two operations the endpoint is never
\* further behind than it was when some read gave up.
BacklogIsBounded ==
  pc = "idle" => Len(working) + Len(fifo) <= MaxOwed

=============================================================================
