----------------------------- MODULE WinBrokerHost -----------------------------
(***************************************************************************)
(* The two pipe servers of the Windows broker (Kinect360RemoldBroker.cpp)  *)
(* and how RunHost stops them.  ControlServerLoop serves each connection   *)
(* on a thread of its own, SdkServerLoop one connection after the other.   *)
(* Both block in ConnectNamedPipe and in ReadFile: RunHost ends them by    *)
(* clearing a flag and connecting to each once.                            *)
(*                                                                         *)
(* A pipe instance that waits for a client is one at a time: between two   *)
(* instances WaitNamedPipe gives up, at once or after 100 ms.  What a      *)
(* request does to the motor is in WinMotor.                               *)
(***************************************************************************)
EXTENDS Integers

CONSTANTS
  ControlClients, SdkClients,
  Silent,          \* clients that connect and never write
  Host,            \* RunHost as a client of both servers
  Free             \* no client

Peers == ControlClients \cup SdkClients
Servers == {"control", "sdk"}

VARIABLES
  gRun, active,    \* the flags both loops test
  server,          \* "loop", "create", "listen", "accepted", "inline", "reap" or "ended"
  peer,            \* the client that each server has accepted
  serving,         \* clients of the control server that a thread serves
  visit,           \* of each client: "away", "connected" or "answered"
  host,            \* where RunHost is
  missed           \* servers that RunHost found without an instance to connect to

flags == <<gRun, active>>
vars  == <<flags, server, peer, serving, visit, host, missed>>

Goes(s, from, to) == server[s] = from /\ server' = [server EXCEPT ![s] = to]

-----------------------------------------------------------------------------
(* The servers *)

\* Mutant: the SDK server does not test the flags.
LoopForever(s) ==
  /\ Goes(s, "loop", IF (active /\ gRun) \/ s = "sdk" THEN "create" ELSE "reap")
  /\ UNCHANGED <<flags, peer, serving, visit, host, missed>>

Loop(s) ==
  /\ Goes(s, "loop", IF active /\ gRun THEN "create" ELSE "reap")
  /\ UNCHANGED <<flags, peer, serving, visit, host, missed>>

\* CreateNamedPipe, then ConnectNamedPipe; or it fails: 250 ms, and again.
Create(s) ==
  /\ Goes(s, "create", "listen") \/ Goes(s, "create", "loop")
  /\ UNCHANGED <<flags, peer, serving, visit, host, missed>>

\* A connection is served on a thread; without one more thread, and always by
\* the SDK server, in the loop itself.  ControlServerLoop reaps first.
Accept(s) ==
  /\ \/ s = "control" /\ Goes(s, "accepted", "loop") /\ serving' = serving \cup {peer[s]}
        /\ peer' = [peer EXCEPT ![s] = Free]
     \/ Goes(s, "accepted", "inline") /\ UNCHANGED <<serving, peer>>
  /\ UNCHANGED <<flags, visit, host, missed>>

\* The request of a client has been read, or the client is gone.
Heard(k) == k \in Silent => visit[k] = "away"

\* What the client sees: an answer, unless it left.
Answered(k) == IF k = Host THEN UNCHANGED visit
               ELSE visit' = [visit EXCEPT ![k] = IF @ = "connected" THEN "answered" ELSE @]

\* The wait of RunHost for the reply to its own request is over.
HostAnswered(k, s) ==
  host' = IF k = Host /\ host = <<"reply", s>> THEN (IF s = "control" THEN <<"wake", "sdk">> ELSE <<"join">>)
          ELSE host

\* ServeControlClient on a thread
Serve(k) ==
  /\ k \in serving /\ Heard(k)
  /\ serving' = serving \ {k}
  /\ Answered(k) /\ HostAnswered(k, "control")
  /\ UNCHANGED <<flags, server, peer, missed>>

ServeInline(s) ==
  /\ Goes(s, "inline", "loop")
  /\ Heard(peer[s])
  /\ Answered(peer[s]) /\ HostAnswered(peer[s], s)
  /\ peer' = [peer EXCEPT ![s] = Free]
  /\ UNCHANGED <<flags, serving, missed>>

\* reap(true): ControlServerLoop waits for all its threads.
Reap(s) ==
  /\ Goes(s, "reap", "ended")
  /\ s = "control" => serving = {}
  /\ UNCHANGED <<flags, peer, serving, visit, host, missed>>

-----------------------------------------------------------------------------
(* Clients, and RunHost *)

Connect(s, k) ==
  /\ Goes(s, "listen", "accepted")
  /\ peer' = [peer EXCEPT ![s] = k]

ClientConnects(k) ==
  /\ visit[k] = "away"
  /\ k \notin serving /\ \A s \in Servers : peer[s] # k
  /\ Connect(IF k \in ControlClients THEN "control" ELSE "sdk", k)
  /\ visit' = [visit EXCEPT ![k] = "connected"]
  /\ UNCHANGED <<flags, serving, host, missed>>

\* A client closes its end, answered or not.
ClientLeaves(k) ==
  /\ visit[k] # "away"
  /\ visit' = [visit EXCEPT ![k] = "away"]
  /\ UNCHANGED <<flags, server, peer, serving, host, missed>>

\* ServiceControl
StopRequested ==
  /\ gRun
  /\ gRun' = FALSE
  /\ UNCHANGED <<active, server, peer, serving, visit, host, missed>>

HostStops ==
  /\ host = <<"run">> /\ ~gRun
  /\ active' = FALSE
  /\ host' = <<"wake", "control">>
  /\ UNCHANGED <<gRun, server, peer, serving, visit, missed>>

\* WakeControlServer, WakeSdkServer
Wake(s) ==
  /\ host = <<"wake", s>>
  /\ Connect(s, Host)
  /\ host' = <<"reply", s>>
  /\ UNCHANGED <<flags, serving, visit, missed>>

WakeMissed(s) ==
  /\ host = <<"wake", s>> /\ server[s] # "listen"
  /\ missed' = missed \cup {s}
  /\ host' = IF s = "control" THEN <<"wake", "sdk">> ELSE <<"join">>
  /\ UNCHANGED <<flags, server, peer, serving, visit>>

\* Both threads are joined; ClosePhysicalContexts
HostEnds ==
  /\ host = <<"join">> /\ \A s \in Servers : server[s] = "ended"
  /\ host' = <<"ended">>
  /\ UNCHANGED <<flags, server, peer, serving, visit, missed>>

-----------------------------------------------------------------------------

Init ==
  /\ gRun = TRUE /\ active = TRUE
  /\ server = [s \in Servers |-> "loop"]
  /\ peer = [s \in Servers |-> Free]
  /\ serving = {}
  /\ visit = [k \in Peers |-> "away"]
  /\ host = <<"run">>
  /\ missed = {}

ServerStep(s) == Loop(s) \/ Create(s) \/ Accept(s) \/ ServeInline(s) \/ Reap(s)
HostStep == HostStops \/ (\E s \in Servers : Wake(s) \/ WakeMissed(s)) \/ HostEnds

Next ==
  \/ \E s \in Servers : ServerStep(s)
  \/ \E k \in Peers : ClientConnects(k) \/ ClientLeaves(k)
  \/ \E k \in Peers \cup {Host} : Serve(k)
  \/ StopRequested \/ HostStep

\* Threads go on, and a pipe is created in the end; no client has to do anything.
Fairness ==
  /\ \A s \in Servers : WF_vars(Loop(s) \/ Accept(s) \/ ServeInline(s) \/ Reap(s))
                          /\ SF_vars(Create(s) /\ server'[s] = "listen")
  /\ \A k \in Peers \cup {Host} : WF_vars(Serve(k))
  /\ WF_vars(HostStep)

-----------------------------------------------------------------------------

TypeOK ==
  /\ {gRun, active} \subseteq BOOLEAN
  /\ server \in [Servers -> {"loop", "create", "listen", "accepted", "inline", "reap", "ended"}]
  /\ peer \in [Servers -> Peers \cup {Host, Free}]
  /\ serving \subseteq Peers \cup {Host}
  /\ visit \in [Peers -> {"away", "connected", "answered"}]
  /\ host \in {<<"run">>, <<"join">>, <<"ended">>} \cup ({"wake", "reply"} \X Servers)
  /\ missed \subseteq Servers

\* When RunHost ends, no thread is left that could use a context: no thread of
\* a client outlives the loop that started it.
NoThreadAfterClose == host = <<"ended">> => serving = {} /\ \A s \in Servers : peer[s] = Free

\* A stop ends, with two exceptions that the code has: a server that had no
\* instance when it was to be woken, and has one now, sleeps on; and so does
\* whoever reads from a client that says nothing.
Asleep ==
  \/ \E s \in missed : server[s] = "listen"
  \/ \E k \in Silent : visit[k] = "connected"
BrokerStops == ~gRun ~> (host = <<"ended">> \/ Asleep)

=============================================================================
