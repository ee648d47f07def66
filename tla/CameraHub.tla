------------------------------ MODULE CameraHub ------------------------------
(***************************************************************************)
(* One CameraHub of the Linux camera service (camera_bridge.cpp) together  *)
(* with the threads that meet in it:                                       *)
(*                                                                         *)
(*   - one detached handler thread per accepted ScannerPort connection     *)
(*     (client, HubSubscriptionLease), which reads a request, acquires a   *)
(*     lease, answers, streams frames and finally releases the lease;      *)
(*   - the hub's own thread (loop), which opens the Kinect, pumps USB      *)
(*     events, re-applies the current demand and closes the session on an  *)
(*     error.                                                              *)
(*                                                                         *)
(* Everything between a lock and an unlock of dev_mu_ is one action.  What *)
(* the code does outside the lock is a step of its own: the check of       *)
(* rgb_hq_unavailable_ before the lock, the shutdown of superseded sockets *)
(* after it, the reply, the close of the descriptor.                       *)
(*                                                                         *)
(* Abstracted: frames are not represented (FrameQueues has them), only     *)
(* whether the running engine delivers; time is the pair of facts "the     *)
(* watchdog interval has elapsed" for video and for depth; every register  *)
(* write of the USB layer is folded into the engine operation it belongs   *)
(* to, which succeeds or fails.  The pair ir_mode_/hq_mode_ with           *)
(* video_on_ is the one engine the hub believes to be running.             *)
(***************************************************************************)
EXTENDS Integers, FiniteSets

CONSTANTS
  Handlers,      \* handler threads, one per open connection
  PidOf,         \* the peer process of a handler's connection (SO_PEERCRED)
  NoPid,         \* peer_pid() when the credentials cannot be read: 0 in the code
  Requests,      \* the stream masks clients may ask for, invalid ones included
  MaxTokens,     \* bound on the leases granted in a behaviour
  CanStop        \* does the instance explore the stop of the service?

Streams == {"RGB", "HQ", "IR", "DEPTH"}
Color   == {"RGB", "HQ"}
Engines == {"off", "RGB", "HQ", "IR"}

ASSUME HubAssumption ==
  /\ IsFiniteSet(Handlers)
  /\ Requests \subseteq SUBSET Streams
  /\ MaxTokens \in Nat /\ CanStop \in BOOLEAN
  /\ PidOf = [h \in Handlers |-> PidOf[h]]

VARIABLES
  phase,         \* running_ and run set, cleared, or the hub thread joined
  clients,       \* clients_: the leases
  users,         \* rgb_users_, hq_rgb_users_, ir_users_, depth_users_
  nextToken,     \* next_client_token_
  activeClients, \* active_clients_, read without the lock by the MotionSampler
  alive,         \* tokens of the leases whose shared alive flag is true
  hqUnavailable, \* rgb_hq_unavailable_
  cam,           \* engine state: what the hub believes and what the device does
  pc,            \* where a handler thread is
  want,          \* the stream mask the handler read
  fd,            \* its descriptor, 0 when the connection is closed
  token,         \* the token it was given, 0 when none
  old,           \* the superseded leases it still has to shut down
  broken         \* handlers whose socket no longer carries data

leaseVars == <<clients, users, nextToken, activeClients, alive, hqUnavailable>>
connVars  == <<pc, want, fd, token, old, broken>>
vars == <<phase, leaseVars, cam, connVars>>

CamState ==
  [online : BOOLEAN,            \* online_
   video : Engines,             \* video_on_, ir_mode_, hq_mode_
   seen : BOOLEAN,              \* last_video_frame_ms_ # 0, read for RGB HQ only
   late : BOOLEAN,              \* the video watchdog interval has elapsed
   depth : BOOLEAN,             \* depth_on_
   depthLate : BOOLEAN,         \* the depth watchdog interval has elapsed
   engine : Engines,            \* the device: video_running_ with video_mode_
   depthEngine : BOOLEAN,       \* the device: depth_running_
   projector : BOOLEAN,         \* the device: projector_on_
   dead : BOOLEAN]              \* the device: device_dead_

Closed ==
  [online |-> FALSE, video |-> "off", seen |-> FALSE, late |-> FALSE,
   depth |-> FALSE, depthLate |-> FALSE, engine |-> "off",
   depthEngine |-> FALSE, projector |-> FALSE, dead |-> FALSE]

-----------------------------------------------------------------------------
(* Leases and user counts *)

\* protocol.hpp: a known, non-empty mask that does not mix colour with IR.
ValidMask(m) == m # {} /\ m \subseteq Streams /\ ~("IR" \in m /\ m \cap Color # {})

Leases == [token : Nat, pid : {PidOf[h] : h \in Handlers}, fd : Nat, mask : SUBSET Streams]

Holding(S, s) == {l \in S : s \in l.mask}
Tokens(S)     == {l.token : l \in S}
Fds(S)        == {l.fd : l \in S}

\* adjust_users_locked(mask, +1)
AddUser(u, m) == [s \in Streams |-> IF s \in m THEN u[s] + 1 ELSE u[s]]

\* Mutant: the rollback puts the leases back, but not their counts.
AddUsersForgets(u, S) == u

\* adjust_users_locked(mask, +1) for every lease of S
AddUsers(u, S) == [s \in Streams |-> u[s] + Cardinality(Holding(S, s))]

\* adjust_users_locked(mask, -1) for every lease of S: clamped at zero
DropUsers(u, S) ==
  [s \in Streams |-> LET n == Cardinality(Holding(S, s))
                     IN  IF n >= u[s] THEN 0 ELSE u[s] - n]

\* adjust_users_locked(mask, -1)
DropUser(u, m) ==
  [s \in Streams |-> IF s \in m /\ u[s] > 0 THEN u[s] - 1 ELSE u[s]]

\* Mutant: the new connection of a process does not supersede the old one.
SupersedesNothing(S, p) == {}

SameProcess(S, p) == IF p = NoPid THEN {} ELSE {l \in S : l.pid = p}

\* Mutant: RGB HQ is not colour.
ConflictsButHq(u, m) ==
  \/ m \cap Color # {} /\ u["IR"] > 0
  \/ "IR" \in m /\ u["RGB"] > 0

Conflicts(u, m) ==
  \/ m \cap Color # {} /\ u["IR"] > 0
  \/ "IR" \in m /\ u["RGB"] + u["HQ"] > 0

-----------------------------------------------------------------------------
(* apply_locked: bring the engines to the demand u *)

WantVideo(u)     == u["RGB"] + u["HQ"] + u["IR"] > 0
WantDepth(u)     == u["DEPTH"] > 0
WantProjector(u) == u["IR"] > 0 \/ u["DEPTH"] > 0
WantedEngine(u)  == IF u["IR"] > 0 THEN "IR"
                    ELSE IF u["HQ"] > 0 THEN "HQ"
                    ELSE IF u["RGB"] > 0 THEN "RGB" ELSE "off"

Ok(c)  == [ok |-> TRUE, cam |-> c]
Err(c) == [ok |-> FALSE, cam |-> c]

CanApply(c) == c.online /\ ~c.dead

\* No RGB HQ frame since the engine was started and the HQ interval is over.
Starved(c) == CanApply(c) /\ c.video = "HQ" /\ ~c.seen /\ c.late

\* Mutant: no watchdog for the video engine.
StalledDepthOnly(c, u) == c.depth /\ WantDepth(u) /\ c.depthLate

Stalled(c, u) ==
  \/ /\ c.video # "off" /\ WantVideo(u) /\ c.late
     /\ (u["HQ"] > 0) = (c.video = "HQ")
  \/ c.depth /\ WantDepth(u) /\ c.depthLate

\* Mutant: a change of mode does not restart the engine.
StopVideoKeepsMode(c, u) ==
  IF c.video = "off" \/ WantVideo(u) THEN {Ok(c)}
  ELSE {Ok([c EXCEPT !.video = "off", !.seen = FALSE, !.late = FALSE, !.engine = "off"])}

\* Camera::stop_video reports a failed register write, but the device-side
\* running flag is cleared either way.
StopVideo(c, u) ==
  IF c.video = "off" \/ c.video = WantedEngine(u) THEN {Ok(c)}
  ELSE {Ok([c EXCEPT !.video = "off", !.seen = FALSE, !.late = FALSE, !.engine = "off"])}
       \cup IF c.engine = "off" THEN {} ELSE {Err([c EXCEPT !.engine = "off"])}

StartVideo(c, u) ==
  IF WantedEngine(u) = "off" \/ c.video # "off" THEN {Ok(c)}
  ELSE {Ok([c EXCEPT !.video = WantedEngine(u), !.engine = WantedEngine(u),
                     !.seen = FALSE, !.late = FALSE]),
        Err(c)}

\* Camera::stop_depth turns the projector off on the way.
StopDepth(c, u) ==
  IF ~c.depth \/ WantDepth(u) THEN {Ok(c)}
  ELSE {Ok([c EXCEPT !.depth = FALSE, !.depthLate = FALSE, !.depthEngine = FALSE,
                     !.projector = c.projector /\ ~c.depthEngine])}
       \cup IF c.depthEngine /\ c.projector THEN {Err([c EXCEPT !.depthEngine = FALSE])}
            ELSE {}

\* Camera::start_depth turns the projector off first and on at the end.
StartDepth(c, u) ==
  IF ~WantDepth(u) \/ c.depth THEN {Ok(c)}
  ELSE {Ok([c EXCEPT !.depth = TRUE, !.depthLate = FALSE, !.depthEngine = TRUE,
                     !.projector = TRUE]),
        Err(c), Err([c EXCEPT !.projector = FALSE])}

SetProjector(c, u) ==
  IF c.projector = WantProjector(u) THEN {Ok(c)}
  ELSE {Ok([c EXCEPT !.projector = WantProjector(u)]), Err(c)}

Failures(R)  == {r \in R : ~r.ok}
Successes(R) == {r \in R : r.ok}

\* The engine half of apply_locked: the stages in code order, each reached
\* only when the one before succeeded.
Apply(c, u) ==
  LET R1 == StopVideo(c, u)
      R2 == Failures(R1) \cup UNION {StartVideo(r.cam, u) : r \in Successes(R1)}
      R3 == Failures(R2) \cup UNION {StopDepth(r.cam, u) : r \in Successes(R2)}
      R4 == Failures(R3) \cup UNION {StartDepth(r.cam, u) : r \in Successes(R3)}
      R5 == Failures(R4) \cup UNION {SetProjector(r.cam, u) : r \in Successes(R4)}
  IN  IF ~CanApply(c) \/ Stalled(c, u) THEN {Err(c)} ELSE R5

\* Mutant: the starved engine costs every lease, not only the RGB HQ ones.
RevokedAll(c, S) == IF Starved(c) THEN S ELSE {}

\* The lease half of apply_locked: mark_rgb_hq_unavailable_locked revokes
\* every RGB HQ lease of S when the engine is starved.
Revoked(c, S) == IF Starved(c) THEN Holding(S, "HQ") ELSE {}

\* shutdown(fd): whichever connection has the descriptor now.  It makes no
\* difference to a handler that is leaving anyway.
Talking == {h \in Handlers : pc[h] \in {"request", "acquire", "notify", "reply", "stream"}}
ShutDown(F) == broken \cup {h \in Talking : fd[h] \in F}

\* The handler returns from client(): its locals are gone, its descriptor is
\* still open.
Leave(h) ==
  /\ pc' = [pc EXCEPT ![h] = "closing"]
  /\ want' = [want EXCEPT ![h] = {}]
  /\ token' = [token EXCEPT ![h] = 0]

-----------------------------------------------------------------------------
(* Handler threads *)

OpenFds   == {fd[h] : h \in Handlers} \ {0}
Undecided == {h \in Handlers : pc[h] \in {"request", "acquire"}}

\* server_loop: accept4 hands out the lowest free descriptor.
Accept(h) ==
  /\ phase = "running"
  /\ pc[h] = "idle"
  /\ nextToken + Cardinality(Undecided) < MaxTokens
  /\ \E d \in 1..Cardinality(Handlers) :
       /\ d \notin OpenFds /\ \A e \in 1..(d - 1) : e \in OpenFds
       /\ fd' = [fd EXCEPT ![h] = d]
  /\ pc' = [pc EXCEPT ![h] = "request"]
  /\ UNCHANGED <<phase, leaseVars, cam, want, token, old, broken>>

\* client: the request is read, and acquire() starts with the two checks it
\* makes before it takes dev_mu_.
ReadRequest(h) ==
  /\ pc[h] = "request"
  /\ \E m \in Requests :
       IF ValidMask(m) /\ ~("HQ" \in m /\ hqUnavailable)
       THEN /\ pc' = [pc EXCEPT ![h] = "acquire"]
            /\ want' = [want EXCEPT ![h] = m]
            /\ UNCHANGED <<token, broken>>
       ELSE Leave(h) /\ broken' = broken \ {h}
  /\ UNCHANGED <<phase, leaseVars, cam, fd, old>>

\* client: the request does not arrive in time, is not a scanner request, or
\* is a settings command, which DriverSettings models.
ReadFails(h) ==
  /\ pc[h] = "request"
  /\ Leave(h)
  /\ broken' = broken \ {h}
  /\ UNCHANGED <<phase, leaseVars, cam, fd, old>>

\* acquire() under dev_mu_, when the hub is offline or the demand conflicts
\* with another process: the superseded leases go back, nothing changes.
AcquireRefused(h) ==
  /\ pc[h] = "acquire"
  /\ LET mine == SameProcess(clients, PidOf[h])
     IN  ~cam.online \/ Conflicts(DropUsers(users, mine), want[h])
  /\ Leave(h)
  /\ broken' = broken \ {h}
  /\ UNCHANGED <<phase, leaseVars, cam, fd, old>>

\* acquire() under dev_mu_, when the demand can be tried.  apply_locked runs
\* while the superseded leases are out of clients_, and may revoke RGB HQ.
Acquire(h) ==
  LET mine == SameProcess(clients, PidOf[h])
      rest == clients \ mine
      gone == Revoked(cam, rest)
      kept == rest \ gone
      tried == DropUsers(AddUser(DropUsers(users, mine), want[h]), gone)
      lease == [token |-> nextToken + 1, pid |-> PidOf[h], fd |-> fd[h], mask |-> want[h]]
  IN
  /\ pc[h] = "acquire"
  /\ cam.online
  /\ ~Conflicts(DropUsers(users, mine), want[h])
  /\ hqUnavailable' = (hqUnavailable \/ Starved(cam))
  /\ \E r \in Apply(cam, tried) :
       /\ cam' = r.cam
       /\ \/ /\ r.ok
             /\ clients' = kept \cup {lease}
             /\ users' = tried
             /\ nextToken' = nextToken + 1
             /\ activeClients' = Cardinality(kept \cup {lease})
             /\ alive' = (alive \ Tokens(gone)) \cup {nextToken + 1}
             /\ token' = [token EXCEPT ![h] = nextToken + 1]
             /\ old' = [old EXCEPT ![h] = mine]
             /\ pc' = [pc EXCEPT ![h] = IF mine = {} THEN "reply" ELSE "notify"]
             /\ broken' = ShutDown(Fds(gone))
             /\ UNCHANGED want
          \/ /\ ~r.ok
             /\ clients' = kept \cup mine
             /\ users' = AddUsers(DropUser(tried, want[h]), mine)
             /\ activeClients' = IF Starved(cam) THEN Cardinality(kept) ELSE activeClients
             /\ alive' = alive \ Tokens(gone)
             /\ Leave(h)
             /\ broken' = ShutDown(Fds(gone)) \ {h}
             /\ UNCHANGED <<nextToken, old>>
  /\ UNCHANGED <<phase, fd>>

\* acquire() after the unlock: one superseded lease is declared dead and its
\* descriptor, as it was when the lease was granted, is shut down.
NotifySuperseded(h) ==
  /\ pc[h] = "notify"
  /\ \E l \in old[h] :
       /\ alive' = alive \ {l.token}
       /\ broken' = ShutDown({l.fd} \ {fd[h]})
       /\ old' = [old EXCEPT ![h] = @ \ {l}]
       /\ pc' = [pc EXCEPT ![h] = IF old[h] = {l} THEN "reply" ELSE "notify"]
  /\ UNCHANGED <<phase, clients, users, nextToken, activeClients, hqUnavailable,
                 cam, want, fd, token>>

\* client: the reply is written.  The HubSubscriptionLease that will release
\* the lease is constructed only after a successful write; the write fails when
\* the socket is broken or the peer has gone meanwhile.
Reply(h) ==
  /\ pc[h] = "reply"
  /\ \/ Leave(h) /\ broken' = broken \ {h}
     \/ /\ h \notin broken
        /\ pc' = [pc EXCEPT ![h] = "stream"]
        /\ UNCHANGED <<want, token, broken>>
  /\ UNCHANGED <<phase, leaseVars, cam, fd, old>>

\* Does the device deliver frames of a stream in m?  The HQ engine also feeds
\* the VGA colour stream.
Delivers(m) ==
  /\ CanApply(cam)
  /\ \/ cam.engine \in m
     \/ cam.engine = "HQ" /\ "RGB" \in m
     \/ cam.depthEngine /\ "DEPTH" \in m

\* client: writing a frame to a peer that is gone ends the loop.
FrameWriteFails(h) ==
  /\ pc[h] = "stream"
  /\ h \in broken
  /\ Delivers(want[h])
  /\ pc' = [pc EXCEPT ![h] = "release"]
  /\ want' = [want EXCEPT ![h] = {}]
  /\ broken' = broken \ {h}
  /\ UNCHANGED <<phase, leaseVars, cam, fd, token, old>>

\* Mutant: wait_next does not look at the alive flag.
StreamEndsUnlessRevoked(h) ==
  /\ pc[h] = "stream"
  /\ phase # "running" \/ ~cam.online
  /\ pc' = [pc EXCEPT ![h] = "release"]
  /\ want' = [want EXCEPT ![h] = {}]
  /\ broken' = broken \ {h}
  /\ UNCHANGED <<phase, leaseVars, cam, fd, token, old>>

\* wait_next returns false.
StreamEnds(h) ==
  /\ pc[h] = "stream"
  /\ phase # "running" \/ ~cam.online \/ token[h] \notin alive
  /\ pc' = [pc EXCEPT ![h] = "release"]
  /\ want' = [want EXCEPT ![h] = {}]
  /\ broken' = broken \ {h}
  /\ UNCHANGED <<phase, leaseVars, cam, fd, token, old>>

\* release() under dev_mu_; a token that is no longer in clients_ is ignored.
Release(h) ==
  LET mine == {l \in clients : l.token = token[h]}
      rest == clients \ mine
      gone == Revoked(cam, rest)
      left == DropUsers(DropUsers(users, mine), gone)
  IN
  /\ pc[h] = "release"
  /\ Leave(h)
  /\ \/ mine = {} /\ UNCHANGED <<clients, users, activeClients, alive, hqUnavailable, cam, broken>>
     \/ /\ mine # {}
        /\ clients' = rest \ gone
        /\ users' = left
        /\ activeClients' = Cardinality(rest \ gone)
        /\ alive' = alive \ Tokens(mine \cup gone)
        /\ hqUnavailable' = (hqUnavailable \/ Starved(cam))
        /\ broken' = ShutDown(Fds(gone))
        /\ \E r \in Apply(cam, left) : cam' = r.cam
  /\ UNCHANGED <<phase, nextToken, fd, old>>

\* server_loop's thread body: shutdown and close of the connection.
Close(h) ==
  /\ pc[h] = "closing"
  /\ pc' = [pc EXCEPT ![h] = "idle"]
  /\ fd' = [fd EXCEPT ![h] = 0]
  /\ UNCHANGED <<phase, leaseVars, cam, want, token, old, broken>>

\* Environment: the peer closes its end, or stops reading for longer than the
\* socket timeout.
PeerLeaves(h) ==
  /\ pc[h] = "stream"
  /\ h \notin broken
  /\ broken' = broken \cup {h}
  /\ UNCHANGED <<phase, leaseVars, cam, pc, want, fd, token, old>>

-----------------------------------------------------------------------------
(* The hub thread and its device *)

\* loop, first half: open_device_locked.  A failed open changes nothing.  The
\* thread may finish an iteration it began before the flag was cleared.
OpenDevice ==
  /\ phase # "stopped"
  /\ ~cam.online
  /\ cam' = [Closed EXCEPT !.online = TRUE]
  /\ UNCHANGED <<phase, leaseVars, connVars>>

\* loop, second half, when process_events fails: the session is closed
\* (close_device_locked).
EventsFail ==
  /\ phase # "stopped"
  /\ cam.online
  /\ cam' = Closed
  /\ UNCHANGED <<phase, leaseVars, connVars>>

\* loop, second half, when it succeeds: apply_locked; any error closes the
\* session too.
ApplyPass ==
  LET gone == Revoked(cam, clients)
      left == DropUsers(users, gone)
  IN
  /\ phase # "stopped"
  /\ CanApply(cam)
  /\ clients' = clients \ gone
  /\ users' = left
  /\ activeClients' = IF Starved(cam) THEN Cardinality(clients \ gone) ELSE activeClients
  /\ alive' = alive \ Tokens(gone)
  /\ hqUnavailable' = (hqUnavailable \/ Starved(cam))
  /\ broken' = ShutDown(Fds(gone))
  /\ \E r \in Apply(cam, left) : cam' = IF r.ok THEN r.cam ELSE Closed
  /\ UNCHANGED <<phase, nextToken, pc, want, fd, token, old>>

LoopPass == EventsFail \/ ApplyPass

\* on_rgb, on_hq_rgb, on_ir: a frame completed; last_video_frame_ms_ moves.
VideoFrame ==
  /\ CanApply(cam)
  /\ cam.engine # "off"
  /\ cam' = [cam EXCEPT !.seen = (cam.engine = "HQ"), !.late = FALSE]
  /\ UNCHANGED <<phase, leaseVars, connVars>>

\* on_depth
DepthFrame ==
  /\ CanApply(cam)
  /\ cam.depthEngine
  /\ cam' = [cam EXCEPT !.depthLate = FALSE]
  /\ UNCHANGED <<phase, leaseVars, connVars>>

\* Environment: the watchdog interval passes without a frame.
VideoTimesOut ==
  /\ cam.video # "off" /\ ~cam.late
  /\ cam' = [cam EXCEPT !.late = TRUE]
  /\ UNCHANGED <<phase, leaseVars, connVars>>

DepthTimesOut ==
  /\ cam.depth /\ ~cam.depthLate
  /\ cam' = [cam EXCEPT !.depthLate = TRUE]
  /\ UNCHANGED <<phase, leaseVars, connVars>>

\* Environment: unplugged, a transfer that cannot be resubmitted, or one whose
\* cancellation failed while an engine was being stopped.
DeviceDies ==
  /\ CanApply(cam)
  /\ cam' = [cam EXCEPT !.dead = TRUE]
  /\ UNCHANGED <<phase, leaseVars, connVars>>

\* stop_handler or CameraHub::shutdown: the flag, then close_device once the
\* hub thread has been joined.
Stop ==
  /\ CanStop
  /\ phase = "running"
  /\ phase' = "stopping"
  /\ UNCHANGED <<leaseVars, cam, connVars>>

\* Mutant: the hub thread is joined, the device stays open.
ShutdownKeepsDevice ==
  /\ phase = "stopping"
  /\ phase' = "stopped"
  /\ UNCHANGED <<cam, leaseVars, connVars>>

ShutdownDevice ==
  /\ phase = "stopping"
  /\ phase' = "stopped"
  /\ cam' = Closed
  /\ UNCHANGED <<leaseVars, connVars>>

-----------------------------------------------------------------------------

Init ==
  /\ phase = "running"
  /\ clients = {}
  /\ users = [s \in Streams |-> 0]
  /\ nextToken = 0
  /\ activeClients = 0
  /\ alive = {}
  /\ hqUnavailable = FALSE
  /\ cam = Closed
  /\ pc = [h \in Handlers |-> "idle"]
  /\ want = [h \in Handlers |-> {}]
  /\ fd = [h \in Handlers |-> 0]
  /\ token = [h \in Handlers |-> 0]
  /\ old = [h \in Handlers |-> {}]
  /\ broken = {}

HandlerStep(h) ==
  \/ ReadRequest(h) \/ ReadFails(h)
  \/ AcquireRefused(h) \/ Acquire(h) \/ NotifySuperseded(h) \/ Reply(h)
  \/ FrameWriteFails(h) \/ StreamEnds(h) \/ Release(h) \/ Close(h)

Next ==
  \/ \E h \in Handlers : Accept(h) \/ HandlerStep(h) \/ PeerLeaves(h)
  \/ OpenDevice \/ LoopPass \/ VideoFrame \/ DepthFrame
  \/ VideoTimesOut \/ DepthTimesOut \/ DeviceDies \/ Stop \/ ShutdownDevice

Spec == Init /\ [][Next]_vars

\* The scheduling the code provides: no thread stops for ever between two of
\* its statements, the hub thread keeps looping (nothing says that a device
\* ever opens, or that a live one ever fails), and an interval in which no
\* frame can arrive elapses.  A waiting handler is woken by every close
\* (clear_all_queues_locked notifies, the next open is at least 500 ms away)
\* and a delivering engine reaches every subscriber, hence SF for those two.
Fairness ==
  /\ \A h \in Handlers :
       /\ WF_vars(ReadRequest(h) \/ ReadFails(h))
       /\ WF_vars(AcquireRefused(h) \/ Acquire(h))
       /\ WF_vars(NotifySuperseded(h))
       /\ WF_vars(Reply(h))
       /\ SF_vars(FrameWriteFails(h))
       /\ SF_vars(StreamEnds(h))
       /\ WF_vars(Release(h))
       /\ WF_vars(Close(h))
  /\ WF_vars(ApplyPass)
  /\ WF_vars(cam.dead /\ EventsFail)
  /\ WF_vars(cam.engine = "off" /\ VideoTimesOut)
  /\ WF_vars(~cam.depthEngine /\ DepthTimesOut)
  /\ WF_vars(ShutdownDevice)

FairSpec == Spec /\ Fairness

-----------------------------------------------------------------------------
(* Properties *)

TypeOK ==
  /\ phase \in {"running", "stopping", "stopped"}
  /\ clients \subseteq Leases /\ IsFiniteSet(clients)
  /\ users \in [Streams -> Nat]
  /\ nextToken \in Nat /\ activeClients \in Nat
  /\ alive \subseteq Nat
  /\ hqUnavailable \in BOOLEAN
  /\ cam \in CamState
  /\ pc \in [Handlers -> {"idle", "request", "acquire", "notify", "reply",
                           "stream", "release", "closing"}]
  /\ want \in [Handlers -> SUBSET Streams]
  /\ fd \in [Handlers -> Nat]
  /\ token \in [Handlers -> Nat]
  /\ old \in [Handlers -> SUBSET Leases]
  /\ broken \subseteq Handlers

\* The four counters are the number of leases on each stream, whatever was
\* superseded, rolled back, revoked or released, and in whatever order; the
\* clamp at zero of adjust_users_locked never hides a lost decrement.
UsersMatchLeases ==
  \A s \in Streams : users[s] = Cardinality(Holding(clients, s))

\* Two leases never ask the one video engine for colour and for IR.
ColorExcludesIr ==
  \A k, l \in clients : ~(k.mask \cap Color # {} /\ "IR" \in l.mask)

\* A process whose credentials are known owns at most one lease, also after a
\* failed acquire put its superseded lease back.
OneLeasePerProcess ==
  \A k, l \in clients : k.pid = l.pid /\ k.pid # NoPid => k = l

\* A lease in clients_ is never declared dead, and a flag that is still true
\* belongs to a lease or to one whose supersession is still being announced:
\* no handler streams on after its ownership is gone for good.
AliveIsOwned ==
  /\ Tokens(clients) \subseteq alive
  /\ alive \subseteq Tokens(clients) \cup UNION {Tokens(old[h]) : h \in Handlers}

\* The device never runs an engine the hub does not know of: every failed
\* start or stop leaves the device side off.
NoOrphanEngine ==
  /\ cam.engine # "off" => cam.online /\ cam.engine = cam.video
  /\ cam.depthEngine => cam.online /\ cam.depth

\* A token names one lease for ever: it is below the counter, and what a
\* handler still has to announce as superseded is no lease any more.
LeasesAreNamed ==
  /\ \A k, l \in clients : k.token = l.token => k = l
  /\ \A l \in clients : l.token <= nextToken /\ ValidMask(l.mask)
  /\ \A h \in Handlers : \A l \in old[h] :
       l.token <= nextToken /\ l.token \notin Tokens(clients)
  /\ \A h \in Handlers : pc[h] # "notify" => old[h] = {}
  /\ \A h \in Handlers : pc[h] = "acquire" => ValidMask(want[h])

\* The inductive invariant of the lease book-keeping.
HubInv ==
  /\ TypeOK
  /\ UsersMatchLeases
  /\ ColorExcludesIr
  /\ OneLeasePerProcess
  /\ AliveIsOwned
  /\ NoOrphanEngine
  /\ LeasesAreNamed

\* After every pass of the hub thread the session is closed, or the engines
\* and the projector are exactly what the leases ask for.
LoopPassSettles ==
  [][LoopPass => \/ cam' = Closed
                 \/ /\ cam'.video = WantedEngine(users')
                    /\ cam'.depth = WantDepth(users')
                    /\ cam'.projector = WantProjector(users')]_vars

\* A failed acquire takes nothing from the leases of the other processes but
\* RGB HQ that is being disabled, and its own process has what it had.
FailedAcquireRestores ==
  [][\A h \in Handlers :
       pc[h] = "acquire" /\ pc'[h] = "closing" =>
         /\ clients' \subseteq clients
         /\ \A l \in clients \ clients' :
              "HQ" \in l.mask /\ l \notin SameProcess(clients, PidOf[h]) /\ hqUnavailable']_vars

\* An engine that was lost in a failed stop is noticed: the hub does not go
\* on for ever believing that a silent engine runs.
LostEngineIsNoticed ==
  /\ (cam.video # "off" /\ cam.engine = "off") ~> (cam.video = cam.engine)
  /\ (cam.depth /\ ~cam.depthEngine) ~> (cam.depth = cam.depthEngine)

\* A streaming client whose peer is gone gives its lease back.
GoneClientIsReleased ==
  \A h \in Handlers : (pc[h] = "stream" /\ h \in broken) ~> (pc[h] = "idle")

\* Stopping the service drains every handler and turns every engine off.
StopDrains ==
  (phase # "running") ~> (cam = Closed /\ \A h \in Handlers : pc[h] = "idle")

\* Seen from its clients the hub is an arbiter that grants, supersedes and
\* takes back whole leases, one request at a time, whatever the interleaving
\* of its threads and whatever the engines do.
Granted == {[token |-> l.token, pid |-> l.pid, mask |-> l.mask] : l \in clients}

Arbiter == INSTANCE ScannerArbiter WITH
  Processes <- {PidOf[h] : h \in Handlers}, Anonymous <- NoPid,
  Masks <- {m \in Requests : ValidMask(m)},
  granted <- Granted, issued <- nextToken, hqOff <- hqUnavailable

ImplementsArbiter == Arbiter!Spec

=============================================================================
