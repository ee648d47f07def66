------------------------------ MODULE WinAudioNode ------------------------------
(***************************************************************************)
(* An AudioNode of the Windows audio bridge                                *)
(* (Kinect360RemoldAudioBridge.cpp): the capture thread publishes frames   *)
(* to an AudioPortServer, which has a thread for each client, and an       *)
(* AudioControlServer answers requests for the mixer one after the other.  *)
(*                                                                         *)
(* The port keeps the newest frame only; a client thread copies it under   *)
(* the lock and sends it without.  Transfers of the port have a timeout    *)
(* and end with the stop event; those of the control pipe have neither.    *)
(* What frames hold, and the volume that the mixer applies, is left out.   *)
(***************************************************************************)
EXTENDS Integers, FiniteSets

CONSTANTS
  Clients,          \* of the audio port
  MaxFrames         \* bound: frames that are captured

VARIABLES
  gRun, nodeRun,    \* the service's flag, the node's
  stopEvents,       \* stop events that are set: "port", "control"
  capture,          \* "running" or "ended"
  generation,       \* number of the newest frame, 0 before the first
  acceptor,         \* "listen", "dead" (no pipe could be created) or "ended"
  client,           \* thread of each client: "none", "request", "wait", "send" or "over"
  seen, heard,      \* of each client: seenGeneration, and the last frame it has received
  activeClients,    \* m_activeClients
  threads,          \* client threads that nobody has joined
  control,          \* "listen", "read" or "ended"
  talker,           \* what the peer of the control pipe does: "none", "writes" or "silent"
  stop              \* how far Stop is: "no", "capture", "control", "accept", "clients", "done"

portVars == <<generation, acceptor, client, seen, heard, activeClients, threads>>
ctlVars  == <<control, talker>>
vars == <<gRun, nodeRun, stopEvents, capture, portVars, ctlVars, stop>>

Stopping == ~gRun \/ "port" \in stopEvents
To(k, label) == client' = [client EXCEPT ![k] = label]

-----------------------------------------------------------------------------
(* AudioPortServer *)

\* Publish
Publish ==
  /\ capture = "running" /\ gRun /\ nodeRun /\ generation < MaxFrames
  /\ generation' = generation + 1
  /\ UNCHANGED <<gRun, nodeRun, stopEvents, capture, acceptor, client, seen, heard, activeClients,
                 threads, ctlVars, stop>>

\* AcceptLoop: a client connects; its thread waits for the request.
Accept(k) ==
  /\ acceptor = "listen" /\ client[k] = "none"
  /\ To(k, "request") /\ threads' = threads \cup {k}
  /\ acceptor' = IF Stopping THEN "ended" ELSE "listen"
  /\ UNCHANGED <<gRun, nodeRun, stopEvents, capture, generation, seen, heard, activeClients,
                 ctlVars, stop>>

\* Without a pipe or an event the loop ends for good.
AcceptDies ==
  /\ acceptor = "listen" /\ acceptor' = "dead"
  /\ UNCHANGED <<gRun, nodeRun, stopEvents, capture, generation, client, seen, heard, activeClients,
                 threads, ctlVars, stop>>

\* ServeClient: the request arrives and is answered, or is refused, or 5 s pass.
Subscribe(k) ==
  /\ client[k] = "request"
  /\ \/ /\ ~Stopping
        /\ To(k, "wait") /\ activeClients' = activeClients + 1
        /\ seen' = [seen EXCEPT ![k] = 0]
     \/ To(k, "over") /\ UNCHANGED <<activeClients, seen>>
  /\ UNCHANGED <<gRun, nodeRun, stopEvents, capture, generation, acceptor, heard, threads, ctlVars, stop>>

\* The wait ends with a frame that this client has not had: a copy of the newest.
Copy(k) ==
  /\ client[k] = "wait" /\ ~Stopping /\ generation # seen[k]
  /\ To(k, "send")
  /\ seen' = [seen EXCEPT ![k] = generation]
  /\ UNCHANGED <<gRun, nodeRun, stopEvents, capture, generation, acceptor, heard, activeClients, threads,
                 ctlVars, stop>>

\* TransferExact: header and payload of the copy are sent.
Sent(k) ==
  /\ client[k] = "send"
  /\ To(k, "wait")
  /\ heard' = [heard EXCEPT ![k] = seen[k]]
  /\ UNCHANGED <<gRun, nodeRun, stopEvents, capture, generation, acceptor, seen, activeClients, threads,
                 ctlVars, stop>>

Unsubscribe(k) ==
  /\ To(k, "over") /\ activeClients' = activeClients - 1
  /\ UNCHANGED <<gRun, nodeRun, stopEvents, capture, generation, acceptor, seen, heard, threads, ctlVars, stop>>

\* A stop ends the wait and the transfer.
EndServing(k) == client[k] \in {"wait", "send"} /\ Stopping /\ Unsubscribe(k)

\* The client is gone, or too slow: 2 s.
LoseClient(k) == client[k] \in {"wait", "send"} /\ Unsubscribe(k)

\* ConnectNamedPipe ends with the stop event.  The flag of the service alone
\* is noticed at the next client.
AcceptEnds ==
  /\ acceptor = "listen" /\ "port" \in stopEvents
  /\ acceptor' = "ended"
  /\ UNCHANGED <<gRun, nodeRun, stopEvents, capture, generation, client, seen, heard, activeClients,
                 threads, ctlVars, stop>>

-----------------------------------------------------------------------------
(* AudioControlServer, on one thread *)

ControlConnect ==
  /\ control = "listen"
  /\ control' = "read" /\ talker' \in {"writes", "silent"}
  /\ UNCHANGED <<gRun, nodeRun, stopEvents, capture, portVars, stop>>

\* Serve: a request is answered, and the loop looks at its flags again.
ControlServe ==
  /\ control = "read" /\ talker # "silent"
  /\ talker' = "none"
  /\ control' = IF ~gRun \/ "control" \in stopEvents THEN "ended" ELSE "listen"
  /\ UNCHANGED <<gRun, nodeRun, stopEvents, capture, portVars, stop>>

\* A silent peer leaves when it likes; ReadFile fails.
ControlPeerLeaves ==
  /\ talker = "silent" /\ talker' = "none"
  /\ UNCHANGED <<gRun, nodeRun, stopEvents, capture, portVars, control, stop>>

ControlEnds ==
  /\ control = "listen" /\ "control" \in stopEvents
  /\ control' = "ended"
  /\ UNCHANGED <<gRun, nodeRun, stopEvents, capture, portVars, talker, stop>>

-----------------------------------------------------------------------------
(* AudioNode *)

ServiceStops ==
  /\ gRun /\ gRun' = FALSE
  /\ UNCHANGED <<nodeRun, stopEvents, capture, portVars, ctlVars, stop>>

\* The coordinator stops the node: the service stops, or the Kinect expired.
StopNode ==
  /\ stop = "no" /\ stop' = "capture"
  /\ nodeRun' = FALSE
  /\ UNCHANGED <<gRun, stopEvents, capture, portVars, ctlVars>>

\* Capture: WASAPI waits and retries are short, and look at both flags.
CaptureEnds ==
  /\ capture = "running" /\ ~(gRun /\ nodeRun)
  /\ capture' = "ended"
  /\ UNCHANGED <<gRun, nodeRun, stopEvents, portVars, ctlVars, stop>>

\* Stop joins the capture thread, then stops the control server, ...
StopControl ==
  /\ stop = "capture" /\ capture = "ended"
  /\ stop' = "control" /\ stopEvents' = stopEvents \cup {"control"}
  /\ UNCHANGED <<gRun, nodeRun, capture, portVars, ctlVars>>

\* ... and the port: it sets the event, and joins the acceptor, ...
StopPort ==
  /\ stop = "control" /\ control = "ended"
  /\ stop' = "accept" /\ stopEvents' = stopEvents \cup {"port"}
  /\ UNCHANGED <<gRun, nodeRun, capture, portVars, ctlVars>>

JoinAcceptor ==
  /\ stop = "accept" /\ acceptor # "listen"
  /\ stop' = "clients"
  /\ UNCHANGED <<gRun, nodeRun, stopEvents, capture, portVars, ctlVars>>

\* ... and every client thread there has been.
JoinClients ==
  /\ stop = "clients" /\ \A k \in threads : client[k] = "over"
  /\ threads' = {} /\ activeClients' = 0 /\ stop' = "done"
  /\ UNCHANGED <<gRun, nodeRun, stopEvents, capture, generation, acceptor, client, seen, heard, ctlVars>>

-----------------------------------------------------------------------------

Init ==
  /\ gRun = TRUE /\ nodeRun = TRUE /\ stopEvents = {}
  /\ capture = "running" /\ generation = 0 /\ acceptor = "listen"
  /\ client = [k \in Clients |-> "none"]
  /\ seen = [k \in Clients |-> 0] /\ heard = [k \in Clients |-> 0]
  /\ activeClients = 0 /\ threads = {}
  /\ control = "listen" /\ talker = "none"
  /\ stop = "no"

PortStep(k) == Subscribe(k) \/ Copy(k) \/ Sent(k) \/ EndServing(k)
NodeStep == CaptureEnds \/ StopControl \/ StopPort \/ JoinAcceptor \/ JoinClients

Next ==
  \/ Publish \/ AcceptDies \/ AcceptEnds
  \/ \E k \in Clients : Accept(k) \/ PortStep(k) \/ LoseClient(k)
  \/ ControlConnect \/ ControlServe \/ ControlPeerLeaves \/ ControlEnds
  \/ ServiceStops \/ StopNode \/ NodeStep

\* Threads go on; a client that is slow times out, so every transfer ends.
Fairness ==
  /\ \A k \in Clients : WF_vars(PortStep(k))
  /\ WF_vars(AcceptEnds) /\ WF_vars(ControlServe \/ ControlEnds)
  /\ WF_vars(NodeStep)

-----------------------------------------------------------------------------

TypeOK ==
  /\ {gRun, nodeRun} \subseteq BOOLEAN /\ stopEvents \subseteq {"port", "control"}
  /\ capture \in {"running", "ended"} /\ acceptor \in {"listen", "dead", "ended"}
  /\ client \in [Clients -> {"none", "request", "wait", "send", "over"}]
  /\ generation \in 0..MaxFrames /\ seen \in [Clients -> 0..MaxFrames]
  /\ heard \in [Clients -> 0..MaxFrames]
  /\ activeClients \in Nat /\ threads \subseteq Clients
  /\ control \in {"listen", "read", "ended"} /\ talker \in {"none", "writes", "silent"}
  /\ stop \in {"no", "capture", "control", "accept", "clients", "done"}

\* m_activeClients, which is counted up and down on the clients' own threads, is
\* the number of clients that frames are sent to: a stop and the end of a client
\* at once count it down once.
CountIsRight ==
  activeClients = Cardinality({k \in Clients : client[k] \in {"wait", "send"}})

\* The port is destroyed after Stop: no thread of a client is left to use it.
NoClientOutlivesPort ==
  stop = "done" => \A k \in Clients : client[k] \in {"none", "over"}

\* A stop ends, unless a peer of the control pipe that does not write is served:
\* clients of the port, slow, silent or many, do not delay it.
NodeStops == (stop # "no") ~> (stop = "done" \/ talker = "silent")

\* A client that keeps up hears the newest frame: slow ones skip, but the last
\* frame of all is sent to everyone who is subscribed.
NewestIsHeard ==
  \A k \in Clients :
    (client[k] = "wait") ~> (client[k] = "over" \/ heard[k] = generation)

=============================================================================
