---------------------------- MODULE WinScannerPort ----------------------------
(***************************************************************************)
(* ScannerPortServer of the Windows camera service                         *)
(* (Kinect360RemoldCameraBridge.cpp): one pipe per Kinect, a thread per    *)
(* client.  The newest session of a process supersedes its older ones,     *)
(* colour excludes IR, RGB HQ is given up when the sensor never completes  *)
(* a frame of it, the driver setting is kept in the registry, and Stop     *)
(* joins everybody.  It has the same arbitration to do as CameraHub.       *)
(*                                                                         *)
(* Frames are in SharedFrames, the engines in WinCameraStreams; here the   *)
(* video thread only notices that RGB HQ does not work.                    *)
(***************************************************************************)
EXTENDS Integers, FiniteSets

CONSTANTS
  Handlers,      \* client threads that may run at a time
  PidOf,         \* the process behind each of them
  NoPid,         \* 0: the process is not known
  Requests,      \* stream masks that clients ask for
  Settings,      \* driver settings that clients ask for
  MaxTokens,     \* bound: sessions granted
  CanStop        \* bound: whether Stop is called

VARIABLES
  clients,       \* m_clients, a set of [token, pid, mask]
  streamMask,    \* m_streamMask
  rgbHqUnavailable,  \* m_rgbHqUnavailable
  issued,        \* sessions granted so far
  stopped,       \* tokens of the sessions whose stopping flag is set
  pc, want,      \* of each handler: where it is, and what it asked for
  session,       \* of each handler: the token of its session, or 0
  todo,          \* of each thread: the sessions it has yet to tell to stop
  acceptor,      \* ServerLoop: "listen", a handler it has yet to start, or "done"
  stopper,       \* Stop: "run", "snapshot", "tell", "join", "threads", "clear", "stopped"
  video,         \* the video thread: "other", "hq", "erase" or "tell"
  hqWorks,       \* the sensor completes RGB HQ frames
  released,      \* history: the clients of RGB HQ have been released
  registry, settings   \* VirtualRgbHq as saved, and m_driverSettings

vars == <<clients, streamMask, rgbHqUnavailable, issued, stopped, pc, want, session,
          todo, acceptor, stopper, video, hqWorks, released, registry, settings>>

Color == {"RGB", "HQ"}
ValidMask(m) == m # {} /\ ~("IR" \in m /\ m \cap Color # {})
PortThreads == Handlers \cup {"video", "stop"}
Tokens(S) == {c.token : c \in S}
m_stopping == stopper # "run"

\* RecomputeMaskLocked
Aggregate(S) == UNION {c.mask : c \in S}
SetClients(S) == clients' = S /\ streamMask' = Aggregate(S)

-----------------------------------------------------------------------------
(* ServerLoop and ServeClient *)

Connect(h) ==
  /\ acceptor = "listen" /\ ~m_stopping /\ pc[h] = "none"
  /\ acceptor' = h
  /\ UNCHANGED <<clients, streamMask, rgbHqUnavailable, issued, stopped, pc, want,
                 session, todo, stopper, video, hqWorks, released, registry, settings>>

StartHandler(h) ==
  /\ acceptor = h
  /\ acceptor' = "listen" /\ pc' = [pc EXCEPT ![h] = "read"]
  /\ UNCHANGED <<clients, streamMask, rgbHqUnavailable, issued, stopped, want, session,
                 todo, stopper, video, hqWorks, released, registry, settings>>

\* ServerLoop is left: stopping, or no pipe could be created.
AcceptorEnds ==
  /\ acceptor = "listen" /\ acceptor' = "done"
  /\ UNCHANGED <<clients, streamMask, rgbHqUnavailable, issued, stopped, pc, want,
                 session, todo, stopper, video, hqWorks, released, registry, settings>>

At(h, from, to) == pc[h] = from /\ pc' = [pc EXCEPT ![h] = to]
Unshared == UNCHANGED <<clients, streamMask, rgbHqUnavailable, issued, stopped, todo,
                        acceptor, stopper, video, hqWorks, released>>

\* A subscription that may be valid: RGB HQ is refused while it is unavailable.
ReadSubscribe(h) ==
  /\ At(h, "read", "add")
  /\ \E m \in Requests :
       /\ ValidMask(m) /\ ~("HQ" \in m /\ rgbHqUnavailable)
       /\ want' = [want EXCEPT ![h] = m]
  /\ Unshared /\ UNCHANGED <<session, registry, settings>>

\* A request that is malformed, refused, asks for the setting, or never comes.
ReadOther(h) == At(h, "read", "none") /\ Unshared /\ UNCHANGED <<want, session, registry, settings>>

\* SetDriverSettings: first saved, then effective.
SaveDriverSettings(h) ==
  /\ At(h, "read", "store")
  /\ \E s \in Settings : registry' = s /\ want' = [want EXCEPT ![h] = s]
  /\ Unshared /\ UNCHANGED <<session, settings>>

StoreDriverSettings(h) ==
  /\ At(h, "store", "none") /\ settings' = want[h] /\ want' = [want EXCEPT ![h] = {}]
  /\ Unshared /\ UNCHANGED <<session, registry>>

Superseded(h) == {c \in clients : PidOf[h] # NoPid /\ c.pid = PidOf[h]}
Conflict(h) ==
  LET others == Aggregate(clients \ Superseded(h))
  IN  \/ want[h] \cap Color # {} /\ "IR" \in others
      \/ "IR" \in want[h] /\ others \cap Color # {}

\* Mutant: the newest session takes its place without a look at other processes.
TryAddWithoutConflict(h) ==
  /\ At(h, "add", "tell") /\ ~m_stopping /\ issued < MaxTokens
  /\ issued' = issued + 1 /\ session' = [session EXCEPT ![h] = issued + 1]
  /\ SetClients((clients \ Superseded(h)) \cup
                {[token |-> issued + 1, pid |-> PidOf[h], mask |-> want[h]]})
  /\ todo' = [todo EXCEPT ![h] = Tokens(Superseded(h))]
  /\ UNCHANGED <<rgbHqUnavailable, stopped, want, acceptor, stopper, video, hqWorks, released,
                 registry, settings>>

\* TryAddClient under m_clientsLock
TryAddClient(h) ==
  /\ At(h, "add", "tell") /\ ~m_stopping /\ ~Conflict(h) /\ issued < MaxTokens
  /\ issued' = issued + 1 /\ session' = [session EXCEPT ![h] = issued + 1]
  /\ SetClients((clients \ Superseded(h)) \cup
                {[token |-> issued + 1, pid |-> PidOf[h], mask |-> want[h]]})
  /\ todo' = [todo EXCEPT ![h] = Tokens(Superseded(h))]
  /\ UNCHANGED <<rgbHqUnavailable, stopped, want, acceptor, stopper, video, hqWorks, released,
                 registry, settings>>

Refuse(h) ==
  /\ m_stopping \/ Conflict(h) \/ issued = MaxTokens
  /\ At(h, "add", "none") /\ want' = [want EXCEPT ![h] = {}]
  /\ Unshared /\ UNCHANGED <<session, registry, settings>>

\* A thread tells the sessions it has taken off the list to stop; one of them
\* may still write a frame meanwhile.
Tell(t) == stopped' = stopped \cup todo[t] /\ todo' = [todo EXCEPT ![t] = {}]

\* Mutant: superseded sessions are taken off the list and not told.
TellNobody(h) ==
  /\ At(h, "tell", "stream") /\ todo' = [todo EXCEPT ![h] = {}]
  /\ UNCHANGED <<clients, streamMask, rgbHqUnavailable, issued, stopped, want, session,
                 acceptor, stopper, video, hqWorks, released, registry, settings>>

TellSuperseded(h) ==
  /\ At(h, "tell", "stream") /\ Tell(h)
  /\ UNCHANGED <<clients, streamMask, rgbHqUnavailable, issued, want, session, acceptor,
                 stopper, video, hqWorks, released, registry, settings>>

\* The loop of ServeClient is left: told to stop, stopping, or the client is gone.
MustLeave(h) == session[h] \in stopped \/ m_stopping
Leaves(h, reason) ==
  /\ At(h, "stream", "leave") /\ reason
  /\ Unshared /\ UNCHANGED <<want, session, registry, settings>>
LoopEnds(h) == Leaves(h, MustLeave(h))
ClientGone(h) == Leaves(h, TRUE)

\* Mutant: the mask keeps what the client wanted.
RemoveKeepsMask(h) ==
  /\ At(h, "leave", "none")
  /\ stopped' = stopped \cup {session[h]}
  /\ clients' = {c \in clients : c.token # session[h]} /\ UNCHANGED streamMask
  /\ session' = [session EXCEPT ![h] = 0] /\ want' = [want EXCEPT ![h] = {}]
  /\ UNCHANGED <<rgbHqUnavailable, issued, todo, acceptor, stopper, video, hqWorks, released,
                 registry, settings>>

RemoveClient(h) ==
  /\ At(h, "leave", "none")
  /\ stopped' = stopped \cup {session[h]}
  /\ SetClients({c \in clients : c.token # session[h]})
  /\ session' = [session EXCEPT ![h] = 0] /\ want' = [want EXCEPT ![h] = {}]
  /\ UNCHANGED <<rgbHqUnavailable, issued, todo, acceptor, stopper, video, hqWorks, released,
                 registry, settings>>

-----------------------------------------------------------------------------
(* The video thread: StreamVideo, as far as RGB HQ goes *)

VideoStep(from, to) ==
  /\ video = from /\ video' = to
  /\ UNCHANGED <<issued, pc, want, session, acceptor, stopper, hqWorks, registry, settings>>

\* demandedMode
HqDemanded ==
  /\ "IR" \notin streamMask
  /\ "HQ" \in streamMask \/ (settings = {"HQ"} /\ ~rgbHqUnavailable)

SwitchToHq ==
  /\ VideoStep("other", "hq") /\ HqDemanded
  /\ UNCHANGED <<clients, streamMask, rgbHqUnavailable, stopped, todo, released>>

SwitchFromHq ==
  /\ VideoStep("hq", "other") /\ ~HqDemanded
  /\ UNCHANGED <<clients, streamMask, rgbHqUnavailable, stopped, todo, released>>

\* MarkRgbHqUnavailable
Mark ==
  /\ VideoStep("hq", "erase") /\ ~hqWorks /\ rgbHqUnavailable' = TRUE
  /\ UNCHANGED <<clients, streamMask, stopped, todo, released>>

EraseHq ==
  /\ VideoStep("erase", "tell")
  /\ todo' = [todo EXCEPT !["video"] = Tokens({c \in clients : "HQ" \in c.mask})]
  /\ SetClients({c \in clients : "HQ" \notin c.mask})
  /\ released' = TRUE
  /\ UNCHANGED <<rgbHqUnavailable, stopped>>

TellHq ==
  /\ VideoStep("tell", "hq") /\ Tell("video")
  /\ UNCHANGED <<clients, streamMask, rgbHqUnavailable, released>>

-----------------------------------------------------------------------------
(* Stop *)

StopStep(from, to) ==
  /\ stopper = from /\ stopper' = to
  /\ UNCHANGED <<rgbHqUnavailable, issued, pc, want, session, acceptor, video, hqWorks, released,
                 registry, settings>>

StopBegins ==
  /\ CanStop /\ StopStep("run", "snapshot")
  /\ UNCHANGED <<clients, streamMask, stopped, todo>>

StopSnapshot ==
  /\ StopStep("snapshot", "tell") /\ todo' = [todo EXCEPT !["stop"] = Tokens(clients)]
  /\ UNCHANGED <<clients, streamMask, stopped>>

StopTells == StopStep("tell", "join") /\ Tell("stop") /\ UNCHANGED <<clients, streamMask>>

StopJoinsAcceptor ==
  /\ StopStep("join", "threads") /\ acceptor = "done"
  /\ UNCHANGED <<clients, streamMask, stopped, todo>>

StopJoinsHandlers ==
  /\ StopStep("threads", "clear") /\ \A h \in Handlers : pc[h] = "none"
  /\ UNCHANGED <<clients, streamMask, stopped, todo>>

StopClears == StopStep("clear", "stopped") /\ SetClients({}) /\ UNCHANGED <<stopped, todo>>

-----------------------------------------------------------------------------
Init ==
  /\ clients = {} /\ streamMask = {} /\ rgbHqUnavailable = FALSE /\ issued = 0
  /\ stopped = {} /\ todo = [t \in PortThreads |-> {}]
  /\ pc = [h \in Handlers |-> "none"] /\ want = [h \in Handlers |-> {}]
  /\ session = [h \in Handlers |-> 0]
  /\ acceptor = "listen" /\ stopper = "run" /\ video = "other" /\ hqWorks \in BOOLEAN
  /\ released = FALSE
  /\ registry \in {{}} \cup Settings /\ settings = registry

Handler(h) ==
  \/ StartHandler(h) \/ ReadSubscribe(h) \/ ReadOther(h) \/ SaveDriverSettings(h)
  \/ StoreDriverSettings(h) \/ TryAddClient(h) \/ Refuse(h) \/ TellSuperseded(h)
  \/ LoopEnds(h) \/ RemoveClient(h)
Video == SwitchToHq \/ SwitchFromHq \/ Mark \/ EraseHq \/ TellHq
Stop == StopSnapshot \/ StopTells \/ StopJoinsAcceptor \/ StopJoinsHandlers \/ StopClears

Next ==
  \/ \E h \in Handlers : Connect(h) \/ Handler(h) \/ ClientGone(h)
  \/ AcceptorEnds \/ Video \/ StopBegins \/ Stop

\* Every thread that can go on does: reads and writes of the pipe end with the
\* client, the stop event or a timeout.
Fairness ==
  /\ \A h \in Handlers : WF_vars(Handler(h))
  /\ WF_vars(m_stopping /\ AcceptorEnds) /\ WF_vars(Video) /\ WF_vars(Stop)

Spec == Init /\ [][Next]_vars /\ Fairness

-----------------------------------------------------------------------------
(* Properties *)

TypeOK ==
  /\ clients \subseteq [token : 1..MaxTokens, pid : {PidOf[h] : h \in Handlers},
                        mask : {m \in Requests : ValidMask(m)}]
  /\ streamMask \subseteq {"RGB", "HQ", "IR", "DEPTH"}
  /\ {rgbHqUnavailable, released} \subseteq BOOLEAN /\ hqWorks \in BOOLEAN
  /\ issued \in 0..MaxTokens /\ stopped \subseteq 1..MaxTokens
  /\ pc \in [Handlers -> {"none", "read", "store", "add", "tell", "stream", "leave"}]
  /\ want \in [Handlers -> {{}} \cup Requests \cup Settings]
  /\ session \in [Handlers -> 0..MaxTokens]
  /\ todo \in [PortThreads -> SUBSET (1..MaxTokens)]
  /\ acceptor \in {"listen", "done"} \cup Handlers
  /\ stopper \in {"run", "snapshot", "tell", "join", "threads", "clear", "stopped"}
  /\ video \in {"other", "hq", "erase", "tell"}
  /\ registry \in {{}} \cup Settings /\ settings \in {{}} \cup Settings

\* The engines run for nobody else: every stream in the mask is wanted by a
\* session on the list, and every session on the list has its thread, which
\* will take it off again (lines 589-646, 703-769).
DemandIsOwned ==
  /\ streamMask = Aggregate(clients)
  /\ \A c \in clients : \E h \in Handlers :
       session[h] = c.token /\ pc[h] \in {"tell", "stream", "leave"}

\* The same promise to clients as the Linux service: see ScannerArbiter.
Arbiter == INSTANCE ScannerArbiter WITH
  Processes <- {PidOf[h] : h \in Handlers}, Anonymous <- NoPid,
  Masks <- {m \in Requests : ValidMask(m)},
  granted <- clients, hqOff <- released

ImplementsArbiter == Arbiter!Spec

\* A session that lost its place, superseded or because RGB HQ was given up,
\* does not stay with its client (lines 627-632, 453-458).
LosersLeave ==
  \A h \in Handlers :
    (pc[h] = "stream" /\ session[h] \notin Tokens(clients)) ~> (pc[h] = "none")

\* Once a sensor has failed at RGB HQ, nobody keeps a subscription to it: also
\* not the client that was let in just before (lines 438-459, 730-741).
HqIsGivenUp == <>rgbHqUnavailable => <>[]("HQ" \notin streamMask)

\* Stop comes to its end, whatever clients do at the time (lines 398-422).
StopDrains == (stopper # "run") ~> (stopper = "stopped")

=============================================================================
