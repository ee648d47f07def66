------------------------------ MODULE WinCameraIp ------------------------------
(***************************************************************************)
(* The Windows IP camera (Kinect360RemoldCameraIp.cpp): RunRuntime starts  *)
(* the encoder and the server and waits for the stop event; one detached   *)
(* thread serves each viewer.  The encoder follows the first Ready Kinect  *)
(* of the device manifest: it renews that Kinect's consumer lease while    *)
(* there are authenticated viewers and encodes the frames it reads.        *)
(*                                                                         *)
(* The camera bridge is modelled by what the encoder sees of it: a Kinect  *)
(* with a lease publishes frames, one whose lease lapsed goes offline.     *)
(*                                                                         *)
(* Abstracted: HTTP and the passwords: a request is incomplete, bad, not   *)
(* authorized, for the stream, or for one answer.  The viewers share one   *)
(* address.  The encoder polls every 8 ms, so a lease of 2 s that it       *)
(* renews does not lapse.                                                  *)
(***************************************************************************)
EXTENDS Integers, FiniteSets, FiniteSetsExt

CONSTANTS
  Viewers,
  MaxClients,         \* g_config.maxClients
  AuthFailureLimit,
  Kinects,            \* natural numbers, in the order of the manifest
  MaxMoves            \* how often a Kinect comes or goes

VARIABLES
  gRunning, stopEvent, listener,
  runtime,            \* RunRuntime: waits, joins, drains, is gone
  server,             \* ServerLoop: starts, is about to accept, accepts, has ended
  encoder, device,    \* EncoderLoop, and the Kinect whose frames it reads
  lease,              \* the Kinects whose consumer lease is fresh
  ready,              \* the Kinects that are Ready in the manifest
  online, fresh,      \* by Kinect: header.online; a frame the encoder has not read
  sourceOnline,       \* g_sourceOnline
  viewer,             \* the thread of each viewer
  active, auth,       \* g_activeClients, g_authenticatedClients
  unseen,             \* the streams that have not sent the newest picture
  failures, blocked,  \* AuthState of the viewers' address
  moves

stopVars   == <<gRunning, stopEvent, listener, runtime>>
sourceVars == <<lease, ready, online, fresh, moves>>
authVars   == <<failures, blocked>>
vars == <<stopVars, server, encoder, device, sourceVars, sourceOnline, viewer, active, auth,
          unseen, authVars>>

Move(v, to) == viewer' = [viewer EXCEPT ![v] = to]
NoKinect == 0

-----------------------------------------------------------------------------
(* The Kinects, as the camera bridge shows them *)

ComeOrGo(k) ==
  /\ moves < MaxMoves /\ moves' = moves + 1
  /\ ready' = (ready \ {k}) \cup ({k} \ ready)
  /\ online' = online \ {k} /\ fresh' = fresh \ {k} /\ lease' = lease \ {k}
  /\ UNCHANGED <<stopVars, server, encoder, device, sourceOnline, viewer, active, auth, unseen,
                 authVars>>

Publish(k) ==
  /\ k \in lease \cap ready
  /\ online' = online \cup {k} /\ fresh' = fresh \cup {k}
  /\ UNCHANGED <<stopVars, server, encoder, device, lease, ready, moves, sourceOnline, viewer,
                 active, auth, unseen, authVars>>

\* kConsumerLeaseMs have passed since Renew.
Lapse(k) ==
  /\ k \in lease /\ (auth = 0 \/ device # k \/ encoder = "ended")
  /\ lease' = lease \ {k}
  /\ UNCHANGED <<stopVars, server, encoder, device, ready, online, fresh, moves, sourceOnline,
                 viewer, active, auth, unseen, authVars>>

GoIdle(k) ==
  /\ k \in online \ lease
  /\ online' = online \ {k}
  /\ UNCHANGED <<stopVars, server, encoder, device, lease, ready, fresh, moves, sourceOnline,
                 viewer, active, auth, unseen, authVars>>

-----------------------------------------------------------------------------
(* EncoderLoop *)

\* There is no imaging factory: the service stops.
NoFactory ==
  /\ encoder = "start"
  /\ encoder' = "ended" /\ stopEvent' = TRUE /\ sourceOnline' = FALSE
  /\ UNCHANGED <<gRunning, listener, runtime, server, device, sourceVars, viewer, active, auth,
                 unseen, authVars>>

\* The first Ready Kinect, whose frames can be opened
OpenReader ==
  /\ encoder \in {"start", "select"} /\ gRunning /\ ready # {}
  /\ encoder' = "read" /\ device' = Min(ready)
  /\ UNCHANGED <<stopVars, server, sourceVars, sourceOnline, viewer, active, auth, unseen, authVars>>

\* There is none, or they cannot.
NoReader ==
  /\ encoder \in {"start", "select"} /\ gRunning
  /\ encoder' = IF stopEvent THEN "ended" ELSE "select"
  /\ sourceOnline' = FALSE
  /\ UNCHANGED <<stopVars, server, device, sourceVars, viewer, active, auth, unseen, authVars>>

EncoderEnds ==
  /\ encoder \in {"start", "select"} /\ ~gRunning
  /\ encoder' = "ended"
  /\ UNCHANGED <<stopVars, server, device, sourceVars, sourceOnline, viewer, active, auth, unseen,
                 authVars>>

Select == OpenReader \/ NoReader \/ EncoderEnds

Renew == lease' = IF auth > 0 THEN lease \cup {device} ELSE lease

Read ==
  /\ sourceOnline' = (device \in online)
  /\ unseen' = IF device \in online \cap fresh
               THEN {v \in Viewers : viewer[v] = "stream"} ELSE unseen
  /\ fresh' = fresh \ {device}

\* A turn of the inner loop: FrameReader.Read finds a frame, or cannot take it.
Encode ==
  /\ encoder = "read" /\ gRunning
  /\ Renew
  /\ Read \/ UNCHANGED <<sourceOnline, unseen, fresh>>
  /\ UNCHANGED <<stopVars, server, encoder, device, ready, online, moves, viewer, active, auth,
                 authVars>>

\* The inner loop ends: the source has been offline for 3 s, or the service stops.
LeaveSource ==
  /\ encoder = "read"
  /\ device \notin online \/ stopEvent \/ ~gRunning
  /\ encoder' = "select"
  /\ UNCHANGED <<stopVars, server, device, sourceVars, sourceOnline, viewer, active, auth, unseen,
                 authVars>>

-----------------------------------------------------------------------------
(* ServerLoop *)

\* A server that is not enabled only waits; one that cannot listen stops the service.
Listen ==
  /\ server = "start"
  /\ \/ server' = "disabled" /\ UNCHANGED <<stopEvent, listener>>
     \/ server' = "ended" /\ stopEvent' = TRUE /\ UNCHANGED listener
     \/ server' = "loop" /\ listener' = TRUE /\ UNCHANGED stopEvent
  /\ UNCHANGED <<gRunning, runtime, encoder, device, sourceVars, sourceOnline, viewer, active,
                 auth, unseen, authVars>>

\* The conditions of the loop; accept fails once the listener is closed.
ServerTurn ==
  /\ \/ server = "loop" /\ gRunning /\ listener /\ server' = "accept" /\ UNCHANGED listener
     \/ server = "accept" /\ ~listener /\ server' = "loop" /\ UNCHANGED listener
     \/ server = "loop" /\ ~(gRunning /\ listener) /\ server' = "ended" /\ listener' = FALSE
     \/ server = "disabled" /\ (~gRunning \/ stopEvent) /\ server' = "ended" /\ UNCHANGED listener
  /\ UNCHANGED <<gRunning, stopEvent, runtime, encoder, device, sourceVars, sourceOnline, viewer,
                 active, auth, unseen, authVars>>

\* A viewer is counted and gets a thread; one too many is refused, and so is one
\* for whom there is no thread.
Accept(v) ==
  /\ server = "accept" /\ listener
  /\ viewer[v] = "away" /\ active < MaxClients
  /\ server' = "loop"
  /\ Move(v, "accepted") /\ active' = active + 1
  /\ UNCHANGED <<stopVars, encoder, device, sourceVars, sourceOnline, auth, unseen, authVars>>

-----------------------------------------------------------------------------
(* ClientThread *)

\* AuthAttemptAllowed
Refuse(v) ==
  /\ viewer[v] = "accepted" /\ blocked
  /\ Move(v, "away") /\ active' = active - 1
  /\ UNCHANGED <<stopVars, server, encoder, device, sourceVars, sourceOnline, auth, unseen,
                 authVars>>

Admit(v) ==
  /\ viewer[v] = "accepted" /\ ~blocked
  /\ Move(v, "request")
  /\ UNCHANGED <<stopVars, server, encoder, device, sourceVars, sourceOnline, active, auth, unseen,
                 authVars>>

\* RecordAuthFailure, where the window may have ended
RecordAuthFailure ==
  \E f \in {failures + 1, 1} :
    IF f >= AuthFailureLimit THEN failures' = 0 /\ blocked' = TRUE
                             ELSE failures' = f /\ UNCHANGED blocked

BadRequest(v) ==
  /\ viewer[v] = "request"
  /\ UNCHANGED authVars \/ RecordAuthFailure
  /\ Move(v, "closing")
  /\ UNCHANGED <<stopVars, server, encoder, device, sourceVars, sourceOnline, active, auth, unseen>>

\* ClearAuthFailures forgets the address, and it is blocked no more.
Authorize(v) ==
  /\ viewer[v] = "request"
  /\ failures' = 0 /\ blocked' = FALSE
  /\ auth' = auth + 1
  /\ \/ Move(v, "stream")
     \/ Move(v, "answer")    \* a page, a picture, the status, or a failure
  /\ UNCHANGED <<stopVars, server, encoder, device, sourceVars, sourceOnline, active, unseen>>

\* HandleStream: the newest picture is sent.
Send(v) ==
  /\ viewer[v] = "stream" /\ v \in unseen /\ gRunning /\ sourceOnline
  /\ unseen' = unseen \ {v}
  /\ UNCHANGED <<stopVars, server, encoder, device, sourceVars, sourceOnline, viewer, active, auth,
                 authVars>>

\* The answer is out; a stream ends when a picture cannot be sent, or at the stop.
Finish(v) ==
  /\ \/ viewer[v] = "answer"
     \/ viewer[v] = "stream" /\ (v \in unseen \/ stopEvent \/ ~gRunning)
  /\ Move(v, "closing") /\ auth' = auth - 1
  /\ unseen' = unseen \ {v}
  /\ UNCHANGED <<stopVars, server, encoder, device, sourceVars, sourceOnline, active, authVars>>

CloseClient(v) ==
  /\ viewer[v] = "closing"
  /\ Move(v, "away") /\ active' = active - 1
  /\ UNCHANGED <<stopVars, server, encoder, device, sourceVars, sourceOnline, auth, unseen,
                 authVars>>

\* kAuthBlockMs pass, or PruneAuthStatesLocked evicts the address.
Forget ==
  /\ blocked
  /\ blocked' = FALSE /\ failures' \in {0, failures}
  /\ UNCHANGED <<stopVars, server, encoder, device, sourceVars, sourceOnline, viewer, active, auth,
                 unseen>>

-----------------------------------------------------------------------------
(* RunRuntime, ServiceControl *)

StopRuntime ==
  /\ gRunning' = FALSE /\ stopEvent' = TRUE /\ listener' = FALSE

ServiceControl ==
  /\ gRunning /\ StopRuntime
  /\ UNCHANGED <<runtime, server, encoder, device, sourceVars, sourceOnline, viewer, active, auth,
                 unseen, authVars>>

Stopped ==
  /\ runtime = "wait" /\ stopEvent
  /\ StopRuntime /\ runtime' = "join"
  /\ UNCHANGED <<server, encoder, device, sourceVars, sourceOnline, viewer, active, auth, unseen,
                 authVars>>

\* The threads are joined; the viewers' threads get 5 s and no more.
End ==
  /\ runtime = "join" /\ server = "ended" /\ encoder = "ended"
  /\ runtime' = "gone" /\ sourceOnline' = FALSE
  /\ UNCHANGED <<gRunning, stopEvent, listener, server, encoder, device, sourceVars, viewer,
                 active, auth, unseen, authVars>>

-----------------------------------------------------------------------------

Init ==
  /\ gRunning = TRUE /\ stopEvent = FALSE /\ listener = FALSE
  /\ runtime = "wait" /\ server = "start" /\ encoder = "start" /\ device = NoKinect
  /\ ready \in SUBSET Kinects /\ lease = {} /\ online = {} /\ fresh = {} /\ moves = 0
  /\ sourceOnline = FALSE
  /\ viewer = [v \in Viewers |-> "away"] /\ active = 0 /\ auth = 0 /\ unseen = {}
  /\ failures = 0 /\ blocked = FALSE

KinectStep(k) == Publish(k) \/ Lapse(k) \/ GoIdle(k)
ViewerStep(v) ==
  \/ Refuse(v) \/ Admit(v) \/ BadRequest(v) \/ Authorize(v) \/ Send(v) \/ Finish(v)
  \/ CloseClient(v)

Next ==
  \/ \E k \in Kinects : ComeOrGo(k) \/ KinectStep(k)
  \/ NoFactory \/ Select \/ Encode \/ LeaveSource
  \/ Listen \/ ServerTurn
  \/ \E v \in Viewers : Accept(v) \/ ViewerStep(v)
  \/ Forget \/ ServiceControl \/ Stopped \/ End

\* Time passes and threads go on; a frame is readable again and again; nobody
\* has to come, to leave a stream or to stop the service.  The frames of a Kinect
\* that stays Ready can be opened in the end: the camera bridge keeps them mapped.
Fairness ==
  /\ \A k \in Kinects : WF_vars(Publish(k)) /\ WF_vars(Lapse(k)) /\ WF_vars(GoIdle(k))
  /\ WF_vars(Select) /\ WF_vars(OpenReader) /\ WF_vars(LeaveSource)
  /\ WF_vars(Encode) /\ SF_vars(Encode /\ Read)
  /\ WF_vars(Listen) /\ WF_vars(ServerTurn) /\ WF_vars(Stopped) /\ WF_vars(End)
  /\ \A v \in Viewers :
       /\ WF_vars(Refuse(v) \/ Admit(v) \/ BadRequest(v) \/ Authorize(v) \/ CloseClient(v))
       /\ SF_vars(Send(v)) /\ WF_vars((stopEvent \/ viewer[v] = "answer") /\ Finish(v))

-----------------------------------------------------------------------------
(* Properties *)

TypeOK ==
  /\ {gRunning, stopEvent, listener, sourceOnline, blocked} \subseteq BOOLEAN
  /\ runtime \in {"wait", "join", "gone"}
  /\ server \in {"start", "disabled", "loop", "accept", "ended"}
  /\ encoder \in {"start", "select", "read", "ended"} /\ device \in Kinects \cup {NoKinect}
  /\ lease \subseteq Kinects /\ ready \subseteq Kinects
  /\ online \subseteq Kinects /\ fresh \subseteq Kinects
  /\ viewer \in [Viewers -> {"away", "accepted", "request", "stream", "answer", "closing"}]
  /\ active \in 0..MaxClients /\ auth \in 0..MaxClients
  /\ unseen \subseteq Viewers
  /\ failures \in 0..AuthFailureLimit /\ moves \in 0..MaxMoves

\* g_activeClients and g_authenticatedClients count the threads they stand for
\* on every path: one too many closes the service to viewers for good, or keeps
\* the camera on with nobody watching.
CountsAreRight ==
  /\ active = Cardinality({v \in Viewers : viewer[v] # "away"})
  /\ auth = Cardinality({v \in Viewers : viewer[v] \in {"stream", "answer"}})

\* A viewer that stays keeps receiving, although the camera is off until its
\* lease is renewed and Kinects come and go, if there is one in the end.
StreamsAreFed ==
  \A v \in Viewers :
    <>[](viewer[v] = "stream" /\ ready # {} /\ ~stopEvent) => []<><<Send(v)>>_vars

\* Once the service is to stop, or cannot go on, it ends.
ServiceEnds == stopEvent ~> runtime = "gone"

=============================================================================
