---------------------------- MODULE MCMotorBroker ----------------------------
(* Instances of MotorBroker for TLC: connection threads are interchangeable. *)
EXTENDS MotorBroker, TLC

\* Everything fails on a 1414; on a 1473 neither an acknowledgement nor a
\* reading does, which is what the silent wait relies on.
MCFaults == [k \in Kinds |-> IF k = "1414" THEN {"open", "prime", "out", "ack", "read"}
                             ELSE {"open", "prime", "out"}]

\* The SDK names the Kinect, older clients do not; every command is used.  A Ping
\* that names none is answered without a session.
MCCommands == [s \in Sessions |-> IF s = "scoped" THEN {"Ping", "Status", "Tilt"}
                                  ELSE {"Tilt", "PrepareCamera"}]

=============================================================================
