------------------------------- MODULE IpCamera -------------------------------
(***************************************************************************)
(* The Linux IP camera (camera_ip.cpp): main accepts viewers, one detached *)
(* thread serves each, and the feeder holds a subscription of the camera   *)
(* service while there are authenticated viewers.                          *)
(*                                                                         *)
(* Two counters, open_clients and authenticated_clients, are changed       *)
(* without the mutex of the condition variable that waits for them, so a   *)
(* waiter is in one of three places: about to look at its counter, about   *)
(* to fall asleep because of what it saw, or asleep.                       *)
(*                                                                         *)
(* Abstracted: HTTP and the passwords; a request is good or bad, and asks  *)
(* for a stream or for one answer.  The times are those of the sockets: a  *)
(* viewer that is gone makes its thread's transfer fail.                   *)
(***************************************************************************)
EXTENDS Integers, FiniteSets

CONSTANTS
  Viewers,
  MaxClients   \* ip.max_clients

VARIABLES
  run,
  main,        \* main: accepts, has stopped, drains, has returned
  feeder,      \* the feeder thread
  viewer,      \* the thread of each viewer
  open, auth,  \* open_clients, authenticated_clients
  unseen       \* the streams that have not sent the newest frame

vars == <<run, main, feeder, viewer, open, auth, unseen>>

Move(v, to) == viewer' = [viewer EXCEPT ![v] = to]

\* A notification wakes only who is asleep.
Woken(pc) == IF pc = "asleep" THEN "look" ELSE pc

-----------------------------------------------------------------------------
(* main *)

\* A viewer is accepted; one too many is refused.
Accept(v) ==
  /\ main = "accept"
  /\ viewer[v] = "away" /\ open < MaxClients
  /\ open' = open + 1
  /\ Move(v, "request")
  /\ UNCHANGED <<run, main, feeder, auth, unseen>>

\* The loop ends: at a signal (stop_handler), and at any error of accept4 but
\* EINTR.  A viewer accepted before the signal is still served.
StopServing ==
  /\ main = "accept"
  /\ main' = "stopped" /\ run' = FALSE
  /\ UNCHANGED <<feeder, viewer, open, auth, unseen>>

WakeFeeder ==
  /\ main = "stopped"
  /\ main' = "join" /\ feeder' = Woken(feeder)
  /\ UNCHANGED <<run, viewer, open, auth, unseen>>

Join ==
  /\ main = "join" /\ feeder = "ended"
  /\ main' = "look"
  /\ UNCHANGED <<run, feeder, viewer, open, auth, unseen>>

\* open_clients_cv.wait
Drain ==
  /\ \/ main = "look" /\ main' = IF open = 0 THEN "returned" ELSE "dozing"
     \/ main = "dozing" /\ main' = "asleep"
  /\ UNCHANGED <<run, feeder, viewer, open, auth, unseen>>

-----------------------------------------------------------------------------
(* feeder *)

\* demand_cv.wait
Demand ==
  /\ \/ feeder = "look" /\ feeder' = IF ~run THEN "ended"
                                     ELSE IF auth = 0 THEN "dozing" ELSE "subscribe"
     \/ feeder = "dozing" /\ feeder' = "asleep"
  /\ UNCHANGED <<run, main, viewer, open, auth, unseen>>

\* subscribe_rgb
Subscribe ==
  /\ feeder = "subscribe"
  /\ feeder' \in {"read", IF run THEN "look" ELSE "ended"}
  /\ UNCHANGED <<run, main, viewer, open, auth, unseen>>

\* Mutant: the subscription is kept when the last viewer has left.
FeedOnAndOn ==
  /\ feeder = "read"
  /\ \/ /\ run
        /\ unseen' = {v \in Viewers : viewer[v] = "stream"}
        /\ UNCHANGED feeder
     \/ /\ ~run
        /\ feeder' = "ended" /\ UNCHANGED unseen
  /\ UNCHANGED <<run, main, viewer, open, auth>>

\* A frame is read and published, or the connection is given up: it fails,
\* nobody watches any more, or the service stops.
Feed ==
  /\ feeder = "read"
  /\ \/ /\ run /\ auth > 0
        /\ unseen' = {v \in Viewers : viewer[v] = "stream"}
        /\ UNCHANGED feeder
     \/ feeder' = (IF run THEN "look" ELSE "ended") /\ UNCHANGED unseen
  /\ UNCHANGED <<run, main, viewer, open, auth>>

-----------------------------------------------------------------------------
(* client *)

\* A bad request is answered and forgotten; a good one is counted.
Authorize(v) ==
  /\ viewer[v] = "request"
  /\ \/ Move(v, "closing") /\ UNCHANGED auth
     \/ Move(v, "counted") /\ auth' = auth + 1
  /\ UNCHANGED <<run, main, feeder, open, unseen>>

\* ClientLease wakes the feeder, then the request is served.
Serve(v) ==
  /\ viewer[v] = "counted"
  /\ feeder' = Woken(feeder)
  /\ \/ Move(v, "stream")     \* frames from now on
     \/ Move(v, "answer")
  /\ UNCHANGED <<run, main, open, auth, unseen>>

\* handle_stream: the next frame is sent.
Stream(v) ==
  /\ viewer[v] = "stream" /\ v \in unseen /\ run
  /\ unseen' = unseen \ {v}
  /\ UNCHANGED <<run, main, feeder, viewer, open, auth>>

\* An answer is sent; a stream ends when its viewer is gone, which the next
\* frame shows, or when the service stops.
Finish(v) ==
  /\ \/ viewer[v] = "answer"
     \/ viewer[v] = "stream" /\ (v \in unseen \/ ~run)
  /\ Move(v, "done")
  /\ unseen' = unseen \ {v}
  /\ UNCHANGED <<run, main, feeder, open, auth>>

\* Mutant: a bad request gives back what it never took.
UncountTwice(v) ==
  /\ viewer[v] \in {"done", "closing"}
  /\ auth' = auth - 1
  /\ Move(v, IF viewer[v] = "done" THEN "uncounted" ELSE "leaving")
  /\ UNCHANGED <<run, main, feeder, open, unseen>>

\* ~ClientLease: the count, and then the notification
Uncount(v) ==
  /\ viewer[v] = "done" /\ auth' = auth - 1
  /\ Move(v, "uncounted")
  /\ UNCHANGED <<run, main, feeder, open, unseen>>

WakeOnLeave(v) ==
  /\ viewer[v] = "uncounted"
  /\ feeder' = Woken(feeder)
  /\ Move(v, "closing")
  /\ UNCHANGED <<run, main, open, auth, unseen>>

\* ~OpenClientLease: the count, and then the notification
CloseClient(v) ==
  /\ viewer[v] = "closing" /\ open' = open - 1
  /\ Move(v, "leaving")
  /\ UNCHANGED <<run, main, feeder, auth, unseen>>

WakeMain(v) ==
  /\ viewer[v] = "leaving"
  /\ main' = Woken(main)
  /\ Move(v, "away")
  /\ UNCHANGED <<run, feeder, open, auth, unseen>>

-----------------------------------------------------------------------------

Init ==
  /\ run = TRUE
  /\ main = "accept" /\ feeder = "look"
  /\ viewer = [v \in Viewers |-> "away"]
  /\ open = 0 /\ auth = 0 /\ unseen = {}

MainStep == StopServing \/ WakeFeeder \/ Join \/ Drain
FeederStep == Demand \/ Subscribe \/ Feed
ViewerStep(v) ==
  \/ Authorize(v) \/ Serve(v) \/ Stream(v) \/ Finish(v)
  \/ Uncount(v) \/ WakeOnLeave(v) \/ CloseClient(v) \/ WakeMain(v)

Next ==
  \/ MainStep \/ FeederStep
  \/ \E v \in Viewers : Accept(v) \/ ViewerStep(v)

Spec == Init /\ [][Next]_vars

\* Threads go on; main leaves its loop only if something makes it.
Fairness ==
  /\ WF_vars(WakeFeeder \/ Join \/ Drain)
  /\ WF_vars(FeederStep)
  /\ \A v \in Viewers :
       WF_vars(Authorize(v) \/ Serve(v) \/ Uncount(v) \/ WakeOnLeave(v)
               \/ CloseClient(v) \/ WakeMain(v)) /\ WF_vars(~run /\ Finish(v))

-----------------------------------------------------------------------------
(* Properties *)

TypeOK ==
  /\ run \in BOOLEAN
  /\ main \in {"accept", "stopped", "join", "look", "dozing", "asleep", "returned"}
  /\ feeder \in {"look", "dozing", "asleep", "subscribe", "read", "ended"}
  /\ viewer \in [Viewers -> {"away", "request", "counted", "stream", "answer", "done",
                              "uncounted", "closing", "leaving"}]
  /\ open \in 0..MaxClients /\ auth \in 0..MaxClients
  /\ unseen \subseteq Viewers

\* The counters are what they count on every path of a thread: a viewer too many
\* would keep the camera on or main from returning, one too few would stop the
\* feed under a viewer or let main return before its threads.
CountsAreRight ==
  /\ open = Cardinality({v \in Viewers : viewer[v] \notin {"away", "leaving"}})
  /\ auth = Cardinality({v \in Viewers : viewer[v] \in {"counted", "stream", "answer", "done"}})

\* The camera is given back when nobody watches any more.
CameraIsGivenBack == <>[](auth = 0) => <>[](feeder # "read")

\* When the service stops every handler thread ends.
HandlersEnd == ~run ~> \A v \in Viewers : viewer[v] = "away"

=============================================================================
