--------------------------- MODULE CameraHubClaims ---------------------------
(***************************************************************************)
(* What the comments and documents of the camera service say of CameraHub, *)
(* written as properties of the model.  TLC refutes each of them: the code *)
(* does something else.                                                    *)
(***************************************************************************)
EXTENDS MCCameraHub

\* camera_bridge.cpp:115-116 says polling runs only while a frame consumer is
\* active, and the count it goes by is that of the leases: a lease is somebody's.
\* The lease of a client whose reply could not be written is nobody's.
PollingHasConsumer ==
  activeClients > 0 => \E h \in Handlers : pc[h] # "idle"

\* camera_bridge.cpp:339 says that superseded client threads are woken after
\* the new ownership is committed: a connection that is shut down there is one
\* whose lease was superseded.
OnlySupersededAreWoken ==
  [][\A h \in Handlers : NotifySuperseded(h) =>
       \A g \in broken' \ broken : token[g] \in Tokens(old[h])]_vars

=============================================================================
