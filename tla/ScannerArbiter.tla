---------------------------- MODULE ScannerArbiter ----------------------------
(***************************************************************************)
(* What the camera service promises its clients about the streams of one   *)
(* Kinect, without threads, locks, descriptors or engines: a set of grants *)
(* that changes in three ways only.  CameraHub implements it.              *)
(***************************************************************************)
EXTENDS Naturals, FiniteSets

CONSTANTS Processes,   \* who may hold grants
          Anonymous,   \* a process whose identity is not known
          Masks        \* the valid combinations of streams

VARIABLES granted,     \* a set of [token, pid, mask]
          issued,      \* the tokens given out so far
          hqOff        \* RGB HQ has been given up

vars == <<granted, issued, hqOff>>

\* The one video engine serves colour or IR, whoever asks.
Compatible(m, n) ==
  /\ ~("IR" \in m /\ n \cap {"RGB", "HQ"} # {})
  /\ ~("IR" \in n /\ m \cap {"RGB", "HQ"} # {})

\* Others than p keep what they have, but for RGB HQ when it is given up.
Survivors(S) ==
  {[kept |-> S, off |-> hqOff],
   [kept |-> {g \in S : "HQ" \notin g.mask}, off |-> TRUE]}

Init == granted = {} /\ issued = 0 /\ hqOff = FALSE

\* p gets m and loses what it had.
Grant(p, m) ==
  LET others == {g \in granted : g.pid # p \/ p = Anonymous}
  IN  /\ \A g \in others : Compatible(g.mask, m)
      /\ issued' = issued + 1
      /\ \E s \in Survivors(others) :
           /\ hqOff' = s.off
           /\ granted' = s.kept \cup {[token |-> issued + 1, pid |-> p, mask |-> m]}

\* One grant is given back.
GiveBack(g) ==
  /\ \E s \in Survivors(granted \ {g}) : granted' = s.kept /\ hqOff' = s.off
  /\ issued' = issued

\* RGB HQ is given up; a process in the middle of a request that fails keeps
\* what it had.
GiveUpHq ==
  /\ \E p \in Processes \cup {Anonymous} :
       granted' = {g \in granted : "HQ" \notin g.mask \/ (g.pid = p /\ p # Anonymous)}
  /\ hqOff' = TRUE
  /\ issued' = issued

Next ==
  \/ \E p \in Processes, m \in Masks : Grant(p, m)
  \/ \E g \in granted : GiveBack(g)
  \/ GiveUpHq

Spec == Init /\ [][Next]_vars

===============================================================================
