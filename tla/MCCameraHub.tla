----------------------------- MODULE MCCameraHub -----------------------------
(* Instances of CameraHub for TLC: a process that reconnects (h1, h2) and  *)
(* a second process (h3).                                                  *)
EXTENDS CameraHub, TLC

CONSTANTS h1, h2, h3, p1, p2

MCPidOf == [h \in Handlers |-> IF h = h3 THEN p2 ELSE p1]

\* One request of each kind that matters to the arbitration.
MCRequests == {{"RGB"}, {"HQ"}, {"IR", "DEPTH"}, {"RGB", "IR"}}

MCColor == {{"RGB"}, {"HQ"}}

MCBoth == {{"HQ", "DEPTH"}}

\* h1 and h2 are interchangeable.
Symmetry == Permutations({h1, h2})

=============================================================================
