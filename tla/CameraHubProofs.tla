--------------------------- MODULE CameraHubProofs ---------------------------
(***************************************************************************)
(* Theorems of CameraHub for every set of handlers, every assignment of    *)
(* processes and every set of requests.                                    *)
(***************************************************************************)
EXTENDS CameraHub, FiniteSetTheorems, TLAPS

-----------------------------------------------------------------------------
(* The operators the actions are built from *)

\* The user counts that a set of leases stands for.
Counts(S) == [s \in Streams |-> Cardinality(Holding(S, s))]

\* Leases holding a stream are finitely many when the leases are.
LEMMA HoldingFinite ==
  ASSUME NEW S, IsFiniteSet(S), NEW s
  PROVE  IsFiniteSet(Holding(S, s)) /\ Cardinality(Holding(S, s)) \in Nat
  BY FS_Subset, FS_CardinalityType DEF Holding

\* Taking back the leases of a subset leaves the counts of the others: the
\* clamp at zero of adjust_users_locked is never what keeps a count right.
LEMMA DropCounts ==
  ASSUME NEW S, IsFiniteSet(S), NEW T \in SUBSET S
  PROVE  DropUsers(Counts(S), T) = Counts(S \ T)
<1> SUFFICES ASSUME NEW s \in Streams
             PROVE  DropUsers(Counts(S), T)[s] = Counts(S \ T)[s]
  BY DEF DropUsers, Counts
<1> DEFINE A == Holding(S, s)
           B == Holding(T, s)
<1>1. IsFiniteSet(T) /\ IsFiniteSet(S \ T)
  BY FS_Subset
<1>2. /\ IsFiniteSet(A) /\ Cardinality(A) \in Nat
      /\ IsFiniteSet(B) /\ Cardinality(B) \in Nat
  BY <1>1, HoldingFinite
<1>3. B \subseteq A /\ Holding(S \ T, s) = A \ B
  BY DEF Holding
<1>4. Cardinality(A \ B) = Cardinality(A) - Cardinality(A \cap B)
  BY <1>2, FS_Difference
<1>5. A \cap B = B
  BY <1>3
<1>6. Cardinality(B) <= Cardinality(A)
  BY <1>2, <1>3, FS_Subset
<1> HIDE DEF A, B
<1>7. DropUsers(Counts(S), T)[s] = Cardinality(A) - Cardinality(B)
  <2>1. Counts(S)[s] = Cardinality(A)
    BY DEF Counts, A
  <2>2. DropUsers(Counts(S), T)[s] =
          IF Cardinality(B) >= Counts(S)[s] THEN 0 ELSE Counts(S)[s] - Cardinality(B)
    BY DEF DropUsers, B
  <2> QED
    BY <2>1, <2>2, <1>2, <1>6
<1>8. Counts(S \ T)[s] = Cardinality(A \ B)
  BY <1>3 DEF Counts
<1> QED
  BY <1>4, <1>5, <1>7, <1>8

\* One more lease is one more user of each of its streams.
LEMMA AddCounts ==
  ASSUME NEW S, IsFiniteSet(S), NEW l, l \notin S
  PROVE  AddUser(Counts(S), l.mask) = Counts(S \cup {l})
<1> SUFFICES ASSUME NEW s \in Streams
             PROVE  AddUser(Counts(S), l.mask)[s] = Counts(S \cup {l})[s]
  BY DEF AddUser, Counts
<1>1. IsFiniteSet(Holding(S, s)) /\ l \notin Holding(S, s)
  BY HoldingFinite DEF Holding
<1>2. CASE s \in l.mask
  <2>1. Holding(S \cup {l}, s) = Holding(S, s) \cup {l}
    BY <1>2 DEF Holding
  <2>2. Cardinality(Holding(S, s) \cup {l}) = Cardinality(Holding(S, s)) + 1
    BY <1>1, FS_AddElement
  <2> QED
    BY <1>2, <2>1, <2>2 DEF AddUser, Counts
<1>3. CASE s \notin l.mask
  <2>1. Holding(S \cup {l}, s) = Holding(S, s)
    BY <1>3 DEF Holding
  <2> QED
    BY <1>3, <2>1 DEF AddUser, Counts
<1> QED
  BY <1>2, <1>3

\* Taking the last lease back undoes that.
LEMMA DropLastCounts ==
  ASSUME NEW S, IsFiniteSet(S), NEW l, l \notin S
  PROVE  DropUser(Counts(S \cup {l}), l.mask) = Counts(S)
<1> SUFFICES ASSUME NEW s \in Streams
             PROVE  DropUser(Counts(S \cup {l}), l.mask)[s] = Counts(S)[s]
  BY DEF DropUser, Counts
<1>1. Counts(S)[s] \in Nat
  BY HoldingFinite DEF Counts
<1>2. Counts(S \cup {l})[s] = AddUser(Counts(S), l.mask)[s]
  BY AddCounts
<1>3. Counts(S \cup {l})[s] = IF s \in l.mask THEN Counts(S)[s] + 1 ELSE Counts(S)[s]
  BY <1>2 DEF AddUser
<1>4. DropUser(Counts(S \cup {l}), l.mask)[s] =
        IF s \in l.mask /\ Counts(S \cup {l})[s] > 0
        THEN Counts(S \cup {l})[s] - 1 ELSE Counts(S \cup {l})[s]
  BY DEF DropUser
<1> QED
  BY <1>1, <1>3, <1>4

\* Putting disjoint leases back adds their counts.
LEMMA UnionCounts ==
  ASSUME NEW S, IsFiniteSet(S), NEW T, IsFiniteSet(T), S \cap T = {}
  PROVE  AddUsers(Counts(S), T) = Counts(S \cup T)
<1> SUFFICES ASSUME NEW s \in Streams
             PROVE  AddUsers(Counts(S), T)[s] = Counts(S \cup T)[s]
  BY DEF AddUsers, Counts
<1>1. IsFiniteSet(Holding(S, s)) /\ IsFiniteSet(Holding(T, s))
  BY HoldingFinite
<1>2. Holding(S, s) \cap Holding(T, s) = {}
  BY DEF Holding
<1>3. Holding(S \cup T, s) = Holding(S, s) \cup Holding(T, s)
  BY DEF Holding
<1>4. Cardinality(Holding(S, s) \cup Holding(T, s)) =
        Cardinality(Holding(S, s)) + Cardinality(Holding(T, s))
        - Cardinality(Holding(S, s) \cap Holding(T, s))
  BY <1>1, FS_Union
<1>5. Cardinality(Holding(S, s)) \in Nat /\ Cardinality(Holding(T, s)) \in Nat
  BY HoldingFinite
<1>6. Cardinality(Holding(S \cup T, s)) =
        Cardinality(Holding(S, s)) + Cardinality(Holding(T, s))
  <2>1. Cardinality(Holding(S, s) \cap Holding(T, s)) = 0
    BY <1>2, FS_EmptySet
  <2>2. Cardinality(Holding(S \cup T, s)) = Cardinality(Holding(S, s) \cup Holding(T, s))
    BY <1>3
  <2> QED
    BY <1>4, <1>5, <2>1, <2>2
<1>7. AddUsers(Counts(S), T)[s] = Cardinality(Holding(S, s)) + Cardinality(Holding(T, s))
  BY DEF AddUsers, Counts
<1>8. Counts(S \cup T)[s] = Cardinality(Holding(S \cup T, s))
  BY DEF Counts
<1> QED
  BY <1>6, <1>7, <1>8

-----------------------------------------------------------------------------
(* The stages of apply_locked *)

\* NoOrphanEngine for one engine state.
NoOrphan(c) ==
  /\ c.engine # "off" => c.online /\ c.engine = c.video
  /\ c.depthEngine => c.online /\ c.depth

\* What every stage keeps.
Keeps(c, d) ==
  /\ d \in CamState
  /\ d.online = c.online
  /\ NoOrphan(c) => NoOrphan(d)

\* A camera that is left as it is keeps what matters.
LEMMA KeepsItself ==
  ASSUME NEW c \in CamState
  PROVE  Keeps(c, c)
  BY DEF Keeps

\* The video engine is stopped unless it runs in the wanted mode.
LEMMA StopVideoStage ==
  ASSUME NEW c \in CamState, NEW u, NEW r \in StopVideo(c, u)
  PROVE  /\ Keeps(c, r.cam)
         /\ r.ok => r.cam.video \in {"off", WantedEngine(u)}
<1> DEFINE d == [c EXCEPT !.video = "off", !.seen = FALSE, !.late = FALSE, !.engine = "off"]
           e == [c EXCEPT !.engine = "off"]
<1>1. \/ r.cam = c /\ c.video \in {"off", WantedEngine(u)}
      \/ r.cam = d
      \/ r.cam = e /\ ~r.ok
  BY DEF StopVideo, Ok, Err
<1>2. d \in CamState /\ d.online = c.online /\ d.video = "off" /\ d.engine = "off"
      /\ d.depth = c.depth /\ d.depthEngine = c.depthEngine
  BY DEF CamState, Engines
<1>3. e \in CamState /\ e.online = c.online /\ e.engine = "off"
      /\ e.depth = c.depth /\ e.depthEngine = c.depthEngine
  BY DEF CamState, Engines
<1> HIDE DEF d, e
<1>4. Keeps(c, d) /\ Keeps(c, e)
  BY <1>2, <1>3 DEF Keeps, NoOrphan
<1> QED
  BY <1>1, <1>2, <1>4, KeepsItself

\* The engine that is wanted is one of the engines.
LEMMA WantedEngineType ==
  ASSUME NEW u
  PROVE  WantedEngine(u) \in Engines
  BY DEF WantedEngine, Engines

\* The video engine then runs in the wanted mode.
LEMMA StartVideoStage ==
  ASSUME NEW c \in CamState, c.online, NEW u, NEW r \in StartVideo(c, u)
  PROVE  /\ Keeps(c, r.cam)
         /\ c.video \in {"off", WantedEngine(u)} /\ r.ok => r.cam.video = WantedEngine(u)
<1> DEFINE d == [c EXCEPT !.video = WantedEngine(u), !.engine = WantedEngine(u),
                          !.seen = FALSE, !.late = FALSE]
<1>1. \/ r.cam = c /\ (WantedEngine(u) = "off" \/ c.video # "off")
      \/ r.cam = d
      \/ r.cam = c /\ ~r.ok
  BY DEF StartVideo, Ok, Err
<1>2. /\ d \in CamState /\ d.online = c.online /\ d.video = WantedEngine(u)
      /\ d.engine = d.video /\ d.depth = c.depth /\ d.depthEngine = c.depthEngine
  BY WantedEngineType DEF CamState
<1> HIDE DEF d
<1>3. Keeps(c, d)
  BY <1>2 DEF Keeps, NoOrphan
<1> QED
  BY <1>1, <1>2, <1>3, KeepsItself

\* Depth is stopped when nobody wants it.
LEMMA StopDepthStage ==
  ASSUME NEW c \in CamState, NEW u, NEW r \in StopDepth(c, u)
  PROVE  /\ Keeps(c, r.cam)
         /\ r.ok => r.cam.video = c.video /\ (r.cam.depth => WantDepth(u))
<1> DEFINE d == [c EXCEPT !.depth = FALSE, !.depthLate = FALSE, !.depthEngine = FALSE,
                          !.projector = c.projector /\ ~c.depthEngine]
           e == [c EXCEPT !.depthEngine = FALSE]
<1>1. \/ r = Ok(c) /\ (~c.depth \/ WantDepth(u))
      \/ r = Ok(d)
      \/ r = Err(e)
  BY DEF StopDepth
<1>2. /\ d \in CamState /\ d.online = c.online /\ d.video = c.video /\ d.engine = c.engine
      /\ d.depth = FALSE /\ d.depthEngine = FALSE
  BY DEF CamState
<1>3. /\ e \in CamState /\ e.online = c.online /\ e.video = c.video /\ e.engine = c.engine
      /\ e.depthEngine = FALSE
  BY DEF CamState
<1> HIDE DEF d, e
<1>4. Keeps(c, d) /\ Keeps(c, e)
  BY <1>2, <1>3 DEF Keeps, NoOrphan
<1> QED
  BY <1>1, <1>2, <1>4, KeepsItself DEF Ok, Err

\* Depth then runs exactly when somebody wants it.
LEMMA StartDepthStage ==
  ASSUME NEW c \in CamState, c.online, NEW u, NEW r \in StartDepth(c, u)
  PROVE  /\ Keeps(c, r.cam)
         /\ r.ok /\ (c.depth => WantDepth(u)) =>
              r.cam.video = c.video /\ (r.cam.depth <=> WantDepth(u))
<1> DEFINE d == [c EXCEPT !.depth = TRUE, !.depthLate = FALSE, !.depthEngine = TRUE,
                          !.projector = TRUE]
           e == [c EXCEPT !.projector = FALSE]
<1>1. \/ r = Ok(c) /\ (~WantDepth(u) \/ c.depth)
      \/ r = Ok(d) /\ WantDepth(u)
      \/ r = Err(c)
      \/ r = Err(e)
  BY DEF StartDepth
<1>2. /\ d \in CamState /\ d.online = c.online /\ d.video = c.video /\ d.engine = c.engine
      /\ d.depth = TRUE
  BY DEF CamState
<1>3. /\ e \in CamState /\ e.online = c.online /\ e.video = c.video /\ e.engine = c.engine
      /\ e.depth = c.depth /\ e.depthEngine = c.depthEngine
  BY DEF CamState
<1> HIDE DEF d, e
<1>4. Keeps(c, d) /\ Keeps(c, e)
  BY <1>2, <1>3 DEF Keeps, NoOrphan
<1> QED
  BY <1>1, <1>2, <1>4, KeepsItself DEF Ok, Err

\* The projector is brought to the demand last.
LEMMA SetProjectorStage ==
  ASSUME NEW c \in CamState, NEW u, NEW r \in SetProjector(c, u)
  PROVE  /\ Keeps(c, r.cam)
         /\ r.ok => /\ r.cam.video = c.video /\ r.cam.depth = c.depth
                    /\ r.cam.projector = WantProjector(u)
<1> DEFINE d == [c EXCEPT !.projector = WantProjector(u)]
<1>1. \/ r.cam = c /\ c.projector = WantProjector(u)
      \/ r.cam = d
      \/ r.cam = c /\ ~r.ok
  BY DEF SetProjector, Ok, Err
<1>2. WantProjector(u) \in BOOLEAN
  BY DEF WantProjector
<1>3. /\ d \in CamState /\ d.online = c.online /\ d.video = c.video /\ d.engine = c.engine
      /\ d.depth = c.depth /\ d.depthEngine = c.depthEngine
      /\ d.projector = WantProjector(u)
  BY <1>2 DEF CamState
<1> HIDE DEF d
<1>4. Keeps(c, d)
  BY <1>3 DEF Keeps, NoOrphan
<1> QED
  BY <1>1, <1>3, <1>4, KeepsItself

\* apply_locked as a whole: whatever fails, no engine runs that the hub does
\* not know of; when nothing fails, engines and projector match the demand.
LEMMA ApplyResult ==
  ASSUME NEW c \in CamState, NEW u, NEW r \in Apply(c, u)
  PROVE  /\ Keeps(c, r.cam)
         /\ r.ok => /\ r.cam.video = WantedEngine(u)
                    /\ r.cam.depth <=> WantDepth(u)
                    /\ r.cam.projector = WantProjector(u)
<1>1. CASE ~CanApply(c) \/ Stalled(c, u)
  <2>1. r = Err(c)
    BY <1>1 DEF Apply
  <2> QED
    BY <2>1, KeepsItself DEF Err
<1>2. CASE CanApply(c) /\ ~Stalled(c, u)
  <2> DEFINE R1 == StopVideo(c, u)
             R2 == Failures(R1) \cup UNION {StartVideo(q.cam, u) : q \in Successes(R1)}
             R3 == Failures(R2) \cup UNION {StopDepth(q.cam, u) : q \in Successes(R2)}
             R4 == Failures(R3) \cup UNION {StartDepth(q.cam, u) : q \in Successes(R3)}
             R5 == Failures(R4) \cup UNION {SetProjector(q.cam, u) : q \in Successes(R4)}
  <2>0. c.online /\ r \in R5
    BY <1>2 DEF Apply, CanApply
  <2>1. \A q \in R1 : Keeps(c, q.cam) /\ (q.ok => q.cam.video \in {"off", WantedEngine(u)})
    BY StopVideoStage
  <2> HIDE DEF R1
  <2>2. \A q \in R2 : Keeps(c, q.cam) /\ (q.ok => q.cam.video = WantedEngine(u))
    <3> SUFFICES ASSUME NEW q \in R2
                 PROVE  Keeps(c, q.cam) /\ (q.ok => q.cam.video = WantedEngine(u))
      OBVIOUS
    <3>1. CASE q \in Failures(R1)
      BY <2>1, <3>1 DEF Failures
    <3>2. CASE \E p \in Successes(R1) : q \in StartVideo(p.cam, u)
      <4> PICK p \in Successes(R1) : q \in StartVideo(p.cam, u)
        BY <3>2
      <4>1. Keeps(c, p.cam) /\ p.cam.video \in {"off", WantedEngine(u)}
        BY <2>1 DEF Successes
      <4>2. p.cam \in CamState /\ p.cam.online
        BY <2>0, <4>1 DEF Keeps
      <4>3. Keeps(p.cam, q.cam) /\ (q.ok => q.cam.video = WantedEngine(u))
        BY <4>1, <4>2, StartVideoStage
      <4> QED
        BY <4>1, <4>3 DEF Keeps
    <3> QED
      BY <3>1, <3>2
  <2> HIDE DEF R2
  <2>3. \A q \in R3 : Keeps(c, q.cam) /\ (q.ok => /\ q.cam.video = WantedEngine(u)
                                                  /\ q.cam.depth => WantDepth(u))
    <3> SUFFICES ASSUME NEW q \in R3
                 PROVE  Keeps(c, q.cam) /\ (q.ok => /\ q.cam.video = WantedEngine(u)
                                                    /\ q.cam.depth => WantDepth(u))
      OBVIOUS
    <3>1. CASE q \in Failures(R2)
      BY <2>2, <3>1 DEF Failures
    <3>2. CASE \E p \in Successes(R2) : q \in StopDepth(p.cam, u)
      <4> PICK p \in Successes(R2) : q \in StopDepth(p.cam, u)
        BY <3>2
      <4>1. Keeps(c, p.cam) /\ p.cam.video = WantedEngine(u)
        BY <2>2 DEF Successes
      <4>2. p.cam \in CamState
        BY <4>1 DEF Keeps
      <4>3. Keeps(p.cam, q.cam) /\ (q.ok => q.cam.video = p.cam.video /\ (q.cam.depth => WantDepth(u)))
        BY <4>2, StopDepthStage
      <4> QED
        BY <4>1, <4>3 DEF Keeps
    <3> QED
      BY <3>1, <3>2
  <2> HIDE DEF R3
  <2>4. \A q \in R4 : Keeps(c, q.cam) /\ (q.ok => /\ q.cam.video = WantedEngine(u)
                                                  /\ q.cam.depth <=> WantDepth(u))
    <3> SUFFICES ASSUME NEW q \in R4
                 PROVE  Keeps(c, q.cam) /\ (q.ok => /\ q.cam.video = WantedEngine(u)
                                                    /\ q.cam.depth <=> WantDepth(u))
      OBVIOUS
    <3>1. CASE q \in Failures(R3)
      BY <2>3, <3>1 DEF Failures
    <3>2. CASE \E p \in Successes(R3) : q \in StartDepth(p.cam, u)
      <4> PICK p \in Successes(R3) : q \in StartDepth(p.cam, u)
        BY <3>2
      <4>1. Keeps(c, p.cam) /\ p.cam.video = WantedEngine(u) /\ (p.cam.depth => WantDepth(u))
        BY <2>3 DEF Successes
      <4>2. p.cam \in CamState /\ p.cam.online
        BY <2>0, <4>1 DEF Keeps
      <4>3. Keeps(p.cam, q.cam) /\ (q.ok => q.cam.video = p.cam.video /\ (q.cam.depth <=> WantDepth(u)))
        BY <4>1, <4>2, StartDepthStage
      <4> QED
        BY <4>1, <4>3 DEF Keeps
    <3> QED
      BY <3>1, <3>2
  <2> HIDE DEF R4
  <2>5. CASE r \in Failures(R4)
    BY <2>4, <2>5 DEF Failures
  <2>6. CASE \E p \in Successes(R4) : r \in SetProjector(p.cam, u)
    <3> PICK p \in Successes(R4) : r \in SetProjector(p.cam, u)
      BY <2>6
    <3>1. Keeps(c, p.cam) /\ p.cam.video = WantedEngine(u) /\ (p.cam.depth <=> WantDepth(u))
      BY <2>4 DEF Successes
    <3>2. p.cam \in CamState
      BY <3>1 DEF Keeps
    <3>3. /\ Keeps(p.cam, r.cam)
          /\ r.ok => /\ r.cam.video = p.cam.video /\ r.cam.depth = p.cam.depth
                     /\ r.cam.projector = WantProjector(u)
      BY <3>2, SetProjectorStage
    <3> QED
      BY <3>1, <3>3 DEF Keeps
  <2> QED
    BY <2>0, <2>5, <2>6
<1> QED
  BY <1>1, <1>2

-----------------------------------------------------------------------------
(* Type correctness *)

\* The counters stay natural numbers through every adjustment.
LEMMA CountTypes ==
  ASSUME NEW u \in [Streams -> Nat], NEW S, IsFiniteSet(S), NEW m
  PROVE  /\ AddUser(u, m) \in [Streams -> Nat]
         /\ DropUser(u, m) \in [Streams -> Nat]
         /\ AddUsers(u, S) \in [Streams -> Nat]
         /\ DropUsers(u, S) \in [Streams -> Nat]
<1>1. \A s \in Streams : Cardinality(Holding(S, s)) \in Nat
  BY HoldingFinite
<1>2. AddUser(u, m) \in [Streams -> Nat] /\ DropUser(u, m) \in [Streams -> Nat]
  BY DEF AddUser, DropUser
<1>3. AddUsers(u, S) \in [Streams -> Nat]
  BY <1>1 DEF AddUsers
<1>4. DropUsers(u, S) \in [Streams -> Nat]
  <2> SUFFICES ASSUME NEW s \in Streams
               PROVE  (IF Cardinality(Holding(S, s)) >= u[s] THEN 0
                       ELSE u[s] - Cardinality(Holding(S, s))) \in Nat
    BY DEF DropUsers
  <2> QED
    BY <1>1
<1> QED
  BY <1>2, <1>3, <1>4

\* A closed camera is a camera, and has no engine that nobody uses.
LEMMA ClosedType == Closed \in CamState /\ NoOrphan(Closed)
  BY DEF Closed, CamState, Engines, NoOrphan

\* The leases on a stream, and those that are revoked, are leases.
LEMMA HoldingSubset ==
  ASSUME NEW S, NEW c, NEW s
  PROVE  Holding(S, s) \subseteq S /\ Revoked(c, S) \subseteq S
  BY DEF Holding, Revoked

\* A lease is well typed when it is built from a typed handler state.
LEMMA LeaseType ==
  ASSUME TypeOK, NEW h \in Handlers
  PROVE  [token |-> nextToken + 1, pid |-> PidOf[h], fd |-> fd[h], mask |-> want[h]] \in Leases
  BY DEF TypeOK, Leases

\* The types hold at first.
LEMMA TypeInit == Init => TypeOK
<1> SUFFICES ASSUME Init PROVE TypeOK
  OBVIOUS
<1>1. cam \in CamState
  BY ClosedType DEF Init
<1>2. clients \subseteq Leases /\ IsFiniteSet(clients)
  BY FS_EmptySet DEF Init
<1> QED
  BY <1>1, <1>2 DEF Init, TypeOK

\* Every step keeps the types.
LEMMA TypeNext == TypeOK /\ [Next]_vars => TypeOK'
<1> SUFFICES ASSUME TypeOK, [Next]_vars PROVE TypeOK'
  OBVIOUS
<1> USE HubAssumption DEF TypeOK
<1>1. ASSUME NEW h \in Handlers, Accept(h) PROVE TypeOK'
  BY <1>1 DEF Accept, leaseVars
<1>2. ASSUME NEW h \in Handlers, ReadRequest(h) PROVE TypeOK'
  BY <1>2 DEF ReadRequest, Leave, leaseVars
<1>3. ASSUME NEW h \in Handlers, ReadFails(h) PROVE TypeOK'
  BY <1>3 DEF ReadFails, Leave, leaseVars
<1>4. ASSUME NEW h \in Handlers, AcquireRefused(h) PROVE TypeOK'
  BY <1>4 DEF AcquireRefused, Leave, leaseVars
<1>5. ASSUME NEW h \in Handlers, NotifySuperseded(h) PROVE TypeOK'
  BY <1>5 DEF NotifySuperseded, ShutDown, Talking, leaseVars
<1>6. ASSUME NEW h \in Handlers, Reply(h) PROVE TypeOK'
  BY <1>6 DEF Reply, Leave, leaseVars
<1>7. ASSUME NEW h \in Handlers, FrameWriteFails(h) PROVE TypeOK'
  BY <1>7 DEF FrameWriteFails, leaseVars
<1>8. ASSUME NEW h \in Handlers, StreamEnds(h) PROVE TypeOK'
  BY <1>8 DEF StreamEnds, leaseVars
<1>9. ASSUME NEW h \in Handlers, Close(h) PROVE TypeOK'
  BY <1>9 DEF Close, leaseVars
<1>10. ASSUME NEW h \in Handlers, PeerLeaves(h) PROVE TypeOK'
  BY <1>10 DEF PeerLeaves, leaseVars
<1>11. ASSUME NEW h \in Handlers, Acquire(h) PROVE TypeOK'
  <2> DEFINE mine == SameProcess(clients, PidOf[h])
             rest == clients \ mine
             gone == Revoked(cam, rest)
             kept == rest \ gone
             tried == DropUsers(AddUser(DropUsers(users, mine), want[h]), gone)
             lease == [token |-> nextToken + 1, pid |-> PidOf[h],
                       fd |-> fd[h], mask |-> want[h]]
  <2>1. /\ mine \subseteq clients /\ gone \subseteq rest
        /\ mine \subseteq Leases /\ kept \subseteq Leases
    BY HoldingSubset DEF SameProcess
  <2>2. /\ IsFiniteSet(mine) /\ IsFiniteSet(gone) /\ IsFiniteSet(kept)
        /\ IsFiniteSet(kept \cup {lease}) /\ IsFiniteSet(kept \cup mine)
    <3>1. /\ mine \in SUBSET clients /\ gone \in SUBSET clients
          /\ kept \in SUBSET clients /\ kept \cup mine \in SUBSET clients
      BY <2>1
    <3>2. /\ IsFiniteSet(mine) /\ IsFiniteSet(gone) /\ IsFiniteSet(kept)
          /\ IsFiniteSet(kept \cup mine)
      BY ZenonT(60), <3>1, FS_Subset
    <3>3. IsFiniteSet(kept \cup {lease})
      BY <3>2, FS_AddElement
    <3> QED
      BY <3>2, <3>3
  <2>3. lease \in Leases
    BY LeaseType
  <2>4. tried \in [Streams -> Nat] /\ AddUsers(DropUser(tried, want[h]), mine) \in [Streams -> Nat]
    BY <2>2, CountTypes
  <2>5. PICK r \in Apply(cam, tried) :
          /\ cam' = r.cam
          /\ \/ /\ clients' = kept \cup {lease}
                /\ users' = tried
                /\ nextToken' = nextToken + 1
                /\ activeClients' = Cardinality(kept \cup {lease})
                /\ alive' = (alive \ Tokens(gone)) \cup {nextToken + 1}
                /\ token' = [token EXCEPT ![h] = nextToken + 1]
                /\ old' = [old EXCEPT ![h] = mine]
                /\ pc' = [pc EXCEPT ![h] = IF mine = {} THEN "reply" ELSE "notify"]
                /\ broken' = ShutDown(Fds(gone))
                /\ UNCHANGED want
             \/ /\ clients' = kept \cup mine
                /\ users' = AddUsers(DropUser(tried, want[h]), mine)
                /\ activeClients' = IF Starved(cam) THEN Cardinality(kept) ELSE activeClients
                /\ alive' = alive \ Tokens(gone)
                /\ Leave(h)
                /\ broken' = ShutDown(Fds(gone)) \ {h}
                /\ UNCHANGED <<nextToken, old>>
    BY <1>11 DEF Acquire
  <2>6. cam' \in CamState
    BY <2>5, ApplyResult DEF Keeps
  <2>7. /\ phase' = phase /\ fd' = fd
        /\ hqUnavailable' \in BOOLEAN
    BY <1>11 DEF Acquire
  <2>8. ShutDown(Fds(gone)) \subseteq Handlers
    BY DEF ShutDown, Talking
  <2>9. Cardinality(kept) \in Nat /\ Cardinality(kept \cup {lease}) \in Nat
    BY <2>2, FS_CardinalityType
  <2> HIDE DEF mine, rest, gone, kept, tried, lease
  <2>10. CASE /\ clients' = kept \cup {lease}
              /\ users' = tried
              /\ nextToken' = nextToken + 1
              /\ activeClients' = Cardinality(kept \cup {lease})
              /\ alive' = (alive \ Tokens(gone)) \cup {nextToken + 1}
              /\ token' = [token EXCEPT ![h] = nextToken + 1]
              /\ old' = [old EXCEPT ![h] = mine]
              /\ pc' = [pc EXCEPT ![h] = IF mine = {} THEN "reply" ELSE "notify"]
              /\ broken' = ShutDown(Fds(gone))
              /\ UNCHANGED want
    <3>1. clients' \subseteq Leases /\ IsFiniteSet(clients')
      BY <2>1, <2>2, <2>3, <2>10
    <3>2. /\ users' \in [Streams -> Nat] /\ nextToken' \in Nat
          /\ activeClients' \in Nat /\ alive' \subseteq Nat
      BY <2>4, <2>9, <2>10
    <3>3. old' \in [Handlers -> SUBSET Leases]
      BY <2>1, <2>10
    <3> QED
      BY <2>6, <2>7, <2>8, <2>10, <3>1, <3>2, <3>3
  <2>11. CASE /\ clients' = kept \cup mine
              /\ users' = AddUsers(DropUser(tried, want[h]), mine)
              /\ activeClients' = IF Starved(cam) THEN Cardinality(kept) ELSE activeClients
              /\ alive' = alive \ Tokens(gone)
              /\ Leave(h)
              /\ broken' = ShutDown(Fds(gone)) \ {h}
              /\ UNCHANGED <<nextToken, old>>
    BY <2>1, <2>2, <2>4, <2>6, <2>7, <2>8, <2>9, <2>11 DEF Leave
  <2> QED
    BY <2>5, <2>10, <2>11
<1>12. ASSUME NEW h \in Handlers, Release(h) PROVE TypeOK'
  <2> DEFINE mine == {l \in clients : l.token = token[h]}
             rest == clients \ mine
             gone == Revoked(cam, rest)
             left == DropUsers(DropUsers(users, mine), gone)
  <2>0. /\ mine \in SUBSET clients /\ gone \in SUBSET clients
        /\ rest \ gone \in SUBSET clients
    BY HoldingSubset
  <2>1. IsFiniteSet(mine) /\ IsFiniteSet(gone) /\ IsFiniteSet(rest \ gone)
    BY ZenonT(60), <2>0, FS_Subset
  <2>2. left \in [Streams -> Nat]
    BY <2>1, CountTypes
  <2>3. Cardinality(rest \ gone) \in Nat
    BY <2>1, FS_CardinalityType
  <2>4. (\E r \in Apply(cam, left) : cam' = r.cam) => cam' \in CamState
    BY ApplyResult DEF Keeps
  <2>5. ShutDown(Fds(gone)) \subseteq Handlers
    BY DEF ShutDown, Talking
  <2>6. \/ UNCHANGED <<clients, users, activeClients, alive, hqUnavailable, cam, broken>>
        \/ /\ clients' = rest \ gone
           /\ users' = left
           /\ activeClients' = Cardinality(rest \ gone)
           /\ alive' = alive \ Tokens(mine \cup gone)
           /\ hqUnavailable' = (hqUnavailable \/ Starved(cam))
           /\ broken' = ShutDown(Fds(gone))
           /\ \E r \in Apply(cam, left) : cam' = r.cam
    BY <1>12 DEF Release
  <2>7. Leave(h) /\ UNCHANGED <<phase, nextToken, fd, old>>
    BY <1>12 DEF Release
  <2> HIDE DEF gone, left
  <2> QED
    BY <2>1, <2>2, <2>3, <2>4, <2>5, <2>6, <2>7 DEF Leave
<1>13. CASE LoopPass
  <2> DEFINE gone == Revoked(cam, clients)
             left == DropUsers(users, gone)
  <2>0. gone \in SUBSET clients /\ clients \ gone \in SUBSET clients
    BY HoldingSubset
  <2>1. IsFiniteSet(gone) /\ IsFiniteSet(clients \ gone)
    BY <2>0, FS_Subset
  <2>2. left \in [Streams -> Nat]
    BY <2>1, CountTypes
  <2>3. Cardinality(clients \ gone) \in Nat
    BY <2>1, FS_CardinalityType
  <2>4. (\E r \in Apply(cam, left) : cam' = IF r.ok THEN r.cam ELSE Closed) => cam' \in CamState
    BY ApplyResult, ClosedType DEF Keeps
  <2>5. ShutDown(Fds(gone)) \subseteq Handlers
    BY DEF ShutDown, Talking
  <2>6. CASE cam' = Closed /\ UNCHANGED <<phase, leaseVars, connVars>>
    BY <2>6, ClosedType DEF leaseVars, connVars
  <2>7. CASE /\ clients' = clients \ gone
             /\ users' = left
             /\ activeClients' = IF Starved(cam) THEN Cardinality(clients \ gone) ELSE activeClients
             /\ alive' = alive \ Tokens(gone)
             /\ hqUnavailable' = (hqUnavailable \/ Starved(cam))
             /\ broken' = ShutDown(Fds(gone))
             /\ \E r \in Apply(cam, left) : cam' = IF r.ok THEN r.cam ELSE Closed
             /\ UNCHANGED <<phase, nextToken, pc, want, fd, token, old>>
    <3> HIDE DEF gone, left
    <3> QED
      BY <2>1, <2>2, <2>3, <2>4, <2>5, <2>7
  <2> QED
    BY <1>13, <2>6, <2>7 DEF LoopPass, EventsFail, ApplyPass
<1>14. CASE OpenDevice
  BY <1>14 DEF OpenDevice, Closed, CamState, Engines, leaseVars, connVars
<1>15. CASE VideoFrame
  BY <1>15 DEF VideoFrame, CamState, leaseVars, connVars
<1>16. CASE DepthFrame
  BY <1>16 DEF DepthFrame, CamState, leaseVars, connVars
<1>17. CASE VideoTimesOut
  BY <1>17 DEF VideoTimesOut, CamState, leaseVars, connVars
<1>18. CASE DepthTimesOut
  BY <1>18 DEF DepthTimesOut, CamState, leaseVars, connVars
<1>19. CASE DeviceDies
  BY <1>19 DEF DeviceDies, CamState, leaseVars, connVars
<1>20. CASE Stop
  BY <1>20 DEF Stop, CamState, leaseVars, connVars
<1>21. CASE ShutdownDevice
  BY <1>21, ClosedType DEF ShutdownDevice, leaseVars, connVars
<1>22. CASE UNCHANGED vars
  BY <1>22 DEF vars, leaseVars, connVars
<1> QED
  BY <1>1, <1>2, <1>3, <1>4, <1>5, <1>6, <1>7, <1>8, <1>9, <1>10, <1>11, <1>12, <1>13, <1>14, <1>15, <1>16, <1>17, <1>18, <1>19, <1>20, <1>21, <1>22 DEF Next, HandlerStep

\* Every variable keeps its type, for any handlers, processes and requests.
THEOREM TypeCorrect == Spec => []TypeOK
  BY TypeInit, TypeNext, PTL DEF Spec

-----------------------------------------------------------------------------
(* What a step does to the leases *)

NewLease(h) ==
  [token |-> nextToken + 1, pid |-> PidOf[h], fd |-> fd[h], mask |-> want[h]]

Others(h) == clients \ SameProcess(clients, PidOf[h])

\* The leases of a process make room for the one it asked for.
Grants(h) ==
  /\ pc[h] = "acquire"
  /\ ~Conflicts(Counts(Others(h)), want[h])
  /\ nextToken' = nextToken + 1
  /\ old' = [old EXCEPT ![h] = SameProcess(clients, PidOf[h])]
  /\ \E kept \in SUBSET Others(h) :
       /\ clients' = kept \cup {NewLease(h)}
       /\ alive' = (alive \ Tokens(Others(h) \ kept)) \cup {nextToken + 1}

\* A superseded handler is told.
Tells(h) ==
  /\ UNCHANGED <<clients, nextToken>>
  /\ \E l \in old[h] : /\ alive' = alive \ {l.token}
                       /\ old' = [old EXCEPT ![h] = @ \ {l}]

\* Leases are only lost, and their handlers learn it at once.
Loses ==
  /\ clients' \subseteq clients
  /\ UNCHANGED <<nextToken, old>>
  /\ alive' = alive \ Tokens(clients \ clients')

\* UsersMatchLeases as an equation of functions.
LEMMA MatchIsCounts ==
  ASSUME users \in [Streams -> Nat]
  PROVE  UsersMatchLeases <=> users = Counts(clients)
  BY DEF UsersMatchLeases, Counts

\* A step grants one lease or loses some, and the counts follow.
LEMMA LeaseStep ==
  ASSUME TypeOK, LeasesAreNamed, UsersMatchLeases, [Next]_vars
  PROVE  /\ users' = Counts(clients')
         /\ Loses \/ \E h \in Handlers : Grants(h) \/ Tells(h)
<1>0. users = Counts(clients) /\ IsFiniteSet(clients)
  BY MatchIsCounts DEF TypeOK
<1>1. ASSUME NEW h \in Handlers, Acquire(h)
      PROVE  users' = Counts(clients') /\ (Loses \/ Grants(h))
  <2> DEFINE mine == SameProcess(clients, PidOf[h])
             rest == clients \ mine
             gone == Revoked(cam, rest)
             kept == rest \ gone
             tried == DropUsers(AddUser(DropUsers(users, mine), want[h]), gone)
             lease == NewLease(h)
  <2>1. mine \in SUBSET clients /\ gone \in SUBSET rest
    BY HoldingSubset DEF SameProcess
  <2>2. lease \notin clients /\ lease.mask = want[h]
    BY DEF NewLease, LeasesAreNamed, TypeOK
  <2>3. /\ tried = Counts(kept \cup {lease})
        /\ AddUsers(DropUser(tried, want[h]), mine) = Counts(kept \cup mine)
    <3>1. /\ rest \in SUBSET clients /\ kept \in SUBSET clients
          /\ gone \in SUBSET (rest \cup {lease}) /\ kept \cap mine = {}
          /\ (rest \cup {lease}) \ gone = kept \cup {lease}
          /\ lease \notin rest /\ lease \notin kept
      BY <2>1, <2>2
    <3>2. IsFiniteSet(rest) /\ IsFiniteSet(kept) /\ IsFiniteSet(mine)
      BY <1>0, <2>1, <3>1, FS_Subset
    <3>3. IsFiniteSet(rest \cup {lease})
      BY <3>2, FS_AddElement
    <3> HIDE DEF mine, rest, gone, kept, lease
    <3>4. DropUsers(users, mine) = Counts(rest)
      BY <1>0, <2>1, DropCounts DEF rest
    <3>5. AddUser(Counts(rest), want[h]) = Counts(rest \cup {lease})
      BY <2>2, <3>1, <3>2, AddCounts
    <3>6. DropUsers(Counts(rest \cup {lease}), gone) = Counts(kept \cup {lease})
      BY <3>1, <3>3, DropCounts
    <3>7. DropUser(Counts(kept \cup {lease}), want[h]) = Counts(kept)
      BY <2>2, <3>1, <3>2, DropLastCounts
    <3>8. AddUsers(Counts(kept), mine) = Counts(kept \cup mine)
      BY <3>1, <3>2, UnionCounts
    <3> QED
      BY <3>4, <3>5, <3>6, <3>7, <3>8
  <2>4. DropUsers(users, mine) = Counts(rest)
    BY <1>0, <2>1, DropCounts
  <2>5. pc[h] = "acquire" /\ ~Conflicts(DropUsers(users, mine), want[h])
    BY <1>1 DEF Acquire
  <2>6. \/ /\ clients' = kept \cup {lease} /\ users' = tried
           /\ nextToken' = nextToken + 1 /\ old' = [old EXCEPT ![h] = mine]
           /\ alive' = (alive \ Tokens(gone)) \cup {nextToken + 1}
        \/ /\ clients' = kept \cup mine /\ UNCHANGED <<nextToken, old>>
           /\ users' = AddUsers(DropUser(tried, want[h]), mine)
           /\ alive' = alive \ Tokens(gone)
    BY <1>1 DEF Acquire, NewLease
  <2>7. /\ kept \in SUBSET rest /\ kept \cup mine \subseteq clients
        /\ rest \ kept = gone /\ clients \ (kept \cup mine) = gone
    BY <2>1
  <2>8. rest = Others(h)
    BY DEF Others
  <2> HIDE DEF rest, gone, kept, tried, lease
  <2>9. CASE /\ clients' = kept \cup {lease} /\ users' = tried
             /\ nextToken' = nextToken + 1 /\ old' = [old EXCEPT ![h] = mine]
             /\ alive' = (alive \ Tokens(gone)) \cup {nextToken + 1}
    <3>1. alive' = (alive \ Tokens(Others(h) \ kept)) \cup {nextToken + 1}
      BY <2>7, <2>8, <2>9
    <3>2. kept \in SUBSET Others(h) /\ clients' = kept \cup {NewLease(h)}
      BY <2>7, <2>8, <2>9 DEF lease
    <3>3. ~Conflicts(Counts(Others(h)), want[h])
      BY <2>4, <2>5, <2>8
    <3>4. users' = Counts(clients')
      BY <2>3, <2>9
    <3> QED
      BY <2>5, <2>9, <3>1, <3>2, <3>3, <3>4 DEF Grants
  <2>10. CASE /\ clients' = kept \cup mine /\ UNCHANGED <<nextToken, old>>
              /\ users' = AddUsers(DropUser(tried, want[h]), mine)
              /\ alive' = alive \ Tokens(gone)
    <3>1. clients \ clients' = gone
      BY <2>7, <2>10
    <3> HIDE DEF mine
    <3> QED
      BY <2>3, <2>7, <2>10, <3>1 DEF Loses
  <2> QED
    BY <2>6, <2>9, <2>10
<1>2. ASSUME NEW h \in Handlers, Release(h)
      PROVE  users' = Counts(clients') /\ Loses
  <2> DEFINE mine == {l \in clients : l.token = token[h]}
             rest == clients \ mine
             gone == Revoked(cam, rest)
             left == DropUsers(DropUsers(users, mine), gone)
  <2>1. mine \in SUBSET clients /\ gone \in SUBSET rest /\ rest \in SUBSET clients
    BY HoldingSubset
  <2>2. IsFiniteSet(rest)
    BY <1>0, <2>1, FS_Subset
  <2>3. DropUsers(users, mine) = Counts(rest)
    BY <1>0, <2>1, DropCounts
  <2>4. left = Counts(rest \ gone)
    BY <2>1, <2>2, <2>3, DropCounts
  <2>5. /\ UNCHANGED <<nextToken, old>>
        /\ \/ UNCHANGED <<clients, users, alive>>
           \/ /\ clients' = rest \ gone /\ users' = left
              /\ alive' = alive \ Tokens(mine \cup gone)
    BY <1>2 DEF Release
  <2>6. clients \ (rest \ gone) = mine \cup gone /\ rest \ gone \subseteq clients
    BY <2>1
  <2> HIDE DEF mine, rest, gone, left
  <2>7. CASE UNCHANGED <<clients, users, alive>>
    BY <1>0, <2>5, <2>7 DEF Loses, Tokens
  <2>8. CASE /\ clients' = rest \ gone /\ users' = left
             /\ alive' = alive \ Tokens(mine \cup gone)
    BY <2>4, <2>5, <2>6, <2>8 DEF Loses
  <2> QED
    BY <2>5, <2>7, <2>8
<1>3. ASSUME LoopPass
      PROVE  users' = Counts(clients') /\ Loses
  <2> DEFINE gone == Revoked(cam, clients)
             left == DropUsers(users, gone)
  <2>1. gone \in SUBSET clients
    BY HoldingSubset
  <2>2. left = Counts(clients \ gone)
    BY <1>0, <2>1, DropCounts
  <2>3. /\ UNCHANGED <<nextToken, old>>
        /\ \/ UNCHANGED <<clients, users, alive>>
           \/ /\ clients' = clients \ gone /\ users' = left
              /\ alive' = alive \ Tokens(gone)
    BY <1>3 DEF LoopPass, EventsFail, ApplyPass, leaseVars, connVars
  <2>4. clients \ (clients \ gone) = gone
    BY <2>1
  <2> HIDE DEF gone, left
  <2>5. CASE UNCHANGED <<clients, users, alive>>
    BY <1>0, <2>3, <2>5 DEF Loses, Tokens
  <2>6. CASE clients' = clients \ gone /\ users' = left /\ alive' = alive \ Tokens(gone)
    BY <2>2, <2>3, <2>4, <2>6 DEF Loses
  <2> QED
    BY <2>3, <2>5, <2>6
<1>4. ASSUME NEW h \in Handlers, NotifySuperseded(h)
      PROVE  users' = Counts(clients') /\ Tells(h)
  BY <1>0, <1>4 DEF NotifySuperseded, Tells
<1>5. ASSUME UNCHANGED <<clients, users, nextToken, alive, old>>
      PROVE  users' = Counts(clients') /\ Loses
  BY <1>0, <1>5 DEF Loses, Tokens
<1>6. ASSUME NEW h \in Handlers,
             \/ Accept(h) \/ ReadRequest(h) \/ ReadFails(h) \/ AcquireRefused(h)
             \/ Reply(h) \/ FrameWriteFails(h) \/ StreamEnds(h)
             \/ Close(h) \/ PeerLeaves(h)
      PROVE  UNCHANGED <<clients, users, nextToken, alive, old>>
  BY <1>6 DEF Accept, ReadRequest, ReadFails, AcquireRefused, Reply,
              FrameWriteFails, StreamEnds, Close, PeerLeaves, leaseVars
<1>7. ASSUME \/ OpenDevice \/ VideoFrame \/ DepthFrame \/ VideoTimesOut \/ DepthTimesOut
             \/ DeviceDies \/ Stop \/ ShutdownDevice \/ UNCHANGED vars
      PROVE  UNCHANGED <<clients, users, nextToken, alive, old>>
  BY <1>7 DEF OpenDevice, VideoFrame, DepthFrame, VideoTimesOut, DepthTimesOut,
              DeviceDies, Stop, ShutdownDevice, leaseVars, connVars, vars
<1> QED
  BY <1>1, <1>2, <1>3, <1>4, <1>5, <1>6, <1>7 DEF Next, HandlerStep

\* Where a handler is tells what it still holds.
HandlersAreReady ==
  /\ \A h \in Handlers : pc[h] # "notify" => old[h] = {}
  /\ \A h \in Handlers : pc[h] = "acquire" => ValidMask(want[h])

\* No step leaves a handler with leases to announce or a mask that is not valid.
LEMMA ReadyStep ==
  ASSUME TypeOK, HandlersAreReady, [Next]_vars
  PROVE  HandlersAreReady'
<1> USE DEF TypeOK, HandlersAreReady
<1>1. ASSUME NEW h \in Handlers, Acquire(h) PROVE HandlersAreReady'
  <2>1. \/ /\ pc' = [pc EXCEPT ![h] = IF SameProcess(clients, PidOf[h]) = {}
                                      THEN "reply" ELSE "notify"]
           /\ old' = [old EXCEPT ![h] = SameProcess(clients, PidOf[h])]
           /\ want' = want
        \/ /\ pc' = [pc EXCEPT ![h] = "closing"]
           /\ old' = old
           /\ want' = [want EXCEPT ![h] = {}]
    BY <1>1 DEF Acquire, Leave
  <2>2. pc[h] = "acquire"
    BY <1>1 DEF Acquire
  <2> QED
    BY <2>1, <2>2
<1>2. ASSUME NEW h \in Handlers, ReadRequest(h) PROVE HandlersAreReady'
  BY <1>2 DEF ReadRequest, Leave
<1>3. ASSUME NEW h \in Handlers, NotifySuperseded(h) PROVE HandlersAreReady'
  <2>1. PICK l \in old[h] :
          /\ old' = [old EXCEPT ![h] = @ \ {l}]
          /\ pc' = [pc EXCEPT ![h] = IF old[h] = {l} THEN "reply" ELSE "notify"]
    BY <1>3 DEF NotifySuperseded
  <2>2. want' = want
    BY <1>3 DEF NotifySuperseded
  <2> QED
    BY <2>1, <2>2
<1>4. ASSUME NEW h \in Handlers,
             Accept(h) \/ ReadFails(h) \/ AcquireRefused(h) \/ Reply(h)
      PROVE  HandlersAreReady'
  BY <1>4 DEF Accept, ReadFails, AcquireRefused, Reply, Leave
<1>5. ASSUME NEW h \in Handlers,
             FrameWriteFails(h) \/ StreamEnds(h) \/ Close(h) \/ PeerLeaves(h)
      PROVE  HandlersAreReady'
  BY <1>5 DEF FrameWriteFails, StreamEnds, Close, PeerLeaves
<1>6. ASSUME NEW h \in Handlers, Release(h) PROVE HandlersAreReady'
  <2>1. Leave(h) /\ old' = old /\ pc[h] = "release"
    BY <1>6 DEF Release
  <2> QED
    BY <2>1 DEF Leave
<1>7. ASSUME UNCHANGED <<pc, old, want>> PROVE HandlersAreReady'
  BY <1>7
<1>8. ASSUME \/ OpenDevice \/ LoopPass \/ VideoFrame \/ DepthFrame \/ VideoTimesOut
             \/ DepthTimesOut \/ DeviceDies \/ Stop \/ ShutdownDevice \/ UNCHANGED vars
      PROVE  UNCHANGED <<pc, old, want>>
  BY <1>8 DEF OpenDevice, LoopPass, EventsFail, ApplyPass, VideoFrame, DepthFrame, VideoTimesOut, DepthTimesOut,
              DeviceDies, Stop, ShutdownDevice, leaseVars, connVars, vars
<1> QED
  BY <1>1, <1>2, <1>3, <1>4, <1>5, <1>6, <1>7, <1>8 DEF Next, HandlerStep

\* Tokens stay unique, below the counter and apart from superseded ones.
LEMMA NamesStep ==
  ASSUME TypeOK, LeasesAreNamed, UsersMatchLeases, [Next]_vars
  PROVE  LeasesAreNamed'
<1>1. HandlersAreReady'
  BY ReadyStep DEF LeasesAreNamed, HandlersAreReady
<1>2. CASE Loses
  <2>1. \A l \in clients' : l \in clients
    BY <1>2 DEF Loses
  <2>2. nextToken' = nextToken /\ old' = old
    BY <1>2 DEF Loses
  <2> QED
    BY <1>1, <2>1, <2>2 DEF LeasesAreNamed, HandlersAreReady, Tokens
<1>3. ASSUME NEW h \in Handlers, Tells(h) PROVE LeasesAreNamed'
  <2>1. PICK l \in old[h] : old' = [old EXCEPT ![h] = @ \ {l}]
    BY <1>3 DEF Tells
  <2>2. \A g \in Handlers : old'[g] \subseteq old[g]
    BY <2>1 DEF TypeOK
  <2>3. clients' = clients /\ nextToken' = nextToken
    BY <1>3 DEF Tells
  <2> QED
    BY <1>1, <2>2, <2>3 DEF LeasesAreNamed, HandlersAreReady
<1>4. ASSUME NEW h \in Handlers, Grants(h) PROVE LeasesAreNamed'
  <2> DEFINE mine == SameProcess(clients, PidOf[h])
             lease == NewLease(h)
  <2>1. PICK kept \in SUBSET Others(h) : clients' = kept \cup {lease}
    BY <1>4 DEF Grants
  <2>2. /\ lease.token = nextToken + 1 /\ lease.mask = want[h]
        /\ nextToken' = nextToken + 1 /\ nextToken \in Nat
    BY <1>4 DEF Grants, NewLease, TypeOK
  <2>3. ValidMask(want[h])
    BY <1>4 DEF Grants, LeasesAreNamed
  <2>4. mine \subseteq clients /\ kept \subseteq clients \ mine
    BY DEF SameProcess, Others
  <2>5. \A l \in clients : l.token \in Nat /\ l.token <= nextToken
    BY DEF LeasesAreNamed, TypeOK, Leases
  <2>6. \A g \in Handlers : \A l \in old[g] :
          l.token \in Nat /\ l.token <= nextToken /\ l.token \notin Tokens(clients)
    BY DEF LeasesAreNamed, TypeOK, Leases
  <2>7. old' = [old EXCEPT ![h] = mine]
    BY <1>4 DEF Grants
  <2> HIDE DEF mine, lease
  <2>8. \A k, l \in clients' : k.token = l.token => k = l
    BY <2>1, <2>2, <2>4, <2>5 DEF LeasesAreNamed
  <2>9. \A l \in clients' : l.token <= nextToken' /\ ValidMask(l.mask)
    BY <2>1, <2>2, <2>3, <2>4, <2>5 DEF LeasesAreNamed
  <2>10. \A g \in Handlers : \A l \in old'[g] :
           l.token <= nextToken' /\ l.token \notin Tokens(clients')
    <3> SUFFICES ASSUME NEW g \in Handlers, NEW l \in old'[g], NEW k \in clients'
                 PROVE  l.token <= nextToken' /\ l.token # k.token
      BY <2>1 DEF Tokens
    <3>1. CASE k = lease
      BY <2>2, <2>4, <2>5, <2>6, <2>7, <3>1 DEF TypeOK
    <3>2. CASE k \in kept /\ l \in old[g]
      BY <2>2, <2>4, <2>6, <3>2 DEF Tokens
    <3>3. CASE k \in kept /\ l \in mine
      BY <2>2, <2>4, <2>5, <3>3 DEF LeasesAreNamed
    <3> QED
      BY <2>1, <2>7, <3>1, <3>2, <3>3 DEF TypeOK
  <2> QED
    BY <1>1, <2>8, <2>9, <2>10 DEF LeasesAreNamed, HandlersAreReady
<1> QED
  BY <1>2, <1>3, <1>4, LeaseStep

\* The counters follow the leases.
LEMMA CountsStep ==
  ASSUME TypeOK, LeasesAreNamed, UsersMatchLeases, [Next]_vars
  PROVE  UsersMatchLeases'
  BY LeaseStep DEF UsersMatchLeases, Counts

\* A count is positive when a lease holds the stream.
LEMMA HeldIsCounted ==
  ASSUME NEW S, IsFiniteSet(S), NEW l \in S, NEW s \in l.mask \cap Streams
  PROVE  Counts(S)[s] > 0
<1>1. l \in Holding(S, s) /\ IsFiniteSet(Holding(S, s)) /\ Cardinality(Holding(S, s)) \in Nat
  BY HoldingFinite DEF Holding
<1>2. Cardinality(Holding(S, s)) # 0
  BY <1>1, FS_EmptySet
<1> QED
  BY <1>1, <1>2 DEF Counts

\* When the counts of others do not conflict with a request, no lease of others does.
LEMMA NoConflict ==
  ASSUME TypeOK, NEW h \in Handlers, ~Conflicts(Counts(Others(h)), want[h]), NEW l \in Others(h)
  PROVE  /\ "IR" \in l.mask => want[h] \cap Color = {}
         /\ l.mask \cap Color # {} => "IR" \notin want[h]
<1> DEFINE S == Others(h)
<1>1. S \in SUBSET clients /\ IsFiniteSet(S)
  <2>1. S \in SUBSET clients
    BY DEF Others
  <2> QED
    BY <2>1, FS_Subset DEF TypeOK
<1>2. \A s \in Streams : Counts(S)[s] \in Nat
  BY <1>1, HoldingFinite DEF Counts
<1>3. l \in S /\ ~Conflicts(Counts(S), want[h])
  OBVIOUS
<1> HIDE DEF S
<1>4. ASSUME "IR" \in l.mask PROVE want[h] \cap Color = {}
  <2>1. Counts(S)["IR"] > 0
    BY <1>1, <1>3, <1>4, HeldIsCounted DEF Streams
  <2> QED
    BY <1>3, <2>1 DEF Conflicts
<1>5. ASSUME l.mask \cap Color # {} PROVE "IR" \notin want[h]
  <2>1. Counts(S)["RGB"] > 0 \/ Counts(S)["HQ"] > 0
    BY <1>1, <1>3, <1>5, HeldIsCounted DEF Streams, Color
  <2>2. Counts(S)["RGB"] + Counts(S)["HQ"] > 0
    BY <1>2, <2>1 DEF Streams
  <2> QED
    BY <1>3, <2>2 DEF Conflicts
<1> QED
  BY <1>4, <1>5

\* A lease is granted only when no other process holds the other engine.
LEMMA ExcludesStep ==
  ASSUME TypeOK, LeasesAreNamed, UsersMatchLeases, ColorExcludesIr, [Next]_vars
  PROVE  ColorExcludesIr'
<1>1. CASE clients' \subseteq clients
  BY <1>1 DEF ColorExcludesIr
<1>2. ASSUME NEW h \in Handlers, Grants(h) PROVE ColorExcludesIr'
  <2>1. PICK kept \in SUBSET Others(h) : clients' = kept \cup {NewLease(h)}
    BY <1>2 DEF Grants
  <2>2. NewLease(h).mask = want[h] /\ ValidMask(want[h])
    BY <1>2 DEF Grants, NewLease, LeasesAreNamed
  <2>3. \A l \in kept : /\ l \in clients
                        /\ "IR" \in l.mask => want[h] \cap Color = {}
                        /\ l.mask \cap Color # {} => "IR" \notin want[h]
    BY <1>2, NoConflict DEF Grants, Others
  <2> QED
    BY <2>1, <2>2, <2>3 DEF ColorExcludesIr, ValidMask
<1> QED
  BY <1>1, <1>2, LeaseStep DEF Loses, Tells

\* The leases of a process make room for its new one.
LEMMA OneStep ==
  ASSUME TypeOK, LeasesAreNamed, UsersMatchLeases, OneLeasePerProcess, [Next]_vars
  PROVE  OneLeasePerProcess'
<1>1. CASE clients' \subseteq clients
  BY <1>1 DEF OneLeasePerProcess
<1>2. ASSUME NEW h \in Handlers, Grants(h) PROVE OneLeasePerProcess'
  <2>1. PICK kept \in SUBSET Others(h) : clients' = kept \cup {NewLease(h)}
    BY <1>2 DEF Grants
  <2>2. kept \subseteq clients /\ (PidOf[h] # NoPid => \A l \in kept : l.pid # PidOf[h])
    BY DEF Others, SameProcess
  <2>3. NewLease(h).pid = PidOf[h]
    BY DEF NewLease
  <2> QED
    BY <2>1, <2>2, <2>3 DEF OneLeasePerProcess
<1> QED
  BY <1>1, <1>2, LeaseStep DEF Loses, Tells

\* Alive flags follow the leases, but for supersessions not yet announced.
LEMMA AliveStep ==
  ASSUME TypeOK, LeasesAreNamed, UsersMatchLeases, AliveIsOwned, [Next]_vars
  PROVE  AliveIsOwned'
<1> DEFINE Told == UNION {Tokens(old[g]) : g \in Handlers}
<1>0. /\ Tokens(clients) \subseteq alive /\ alive \subseteq Tokens(clients) \cup Told
      /\ \A k, l \in clients : k.token = l.token => k = l
  BY DEF AliveIsOwned, LeasesAreNamed
<1>1. CASE Loses
  <2>1. Tokens(clients') \subseteq alive'
    BY <1>0, <1>1 DEF Loses, Tokens
  <2>2. alive' \subseteq Tokens(clients') \cup Told
    BY <1>0, <1>1 DEF Loses, Tokens
  <2>3. Told' = Told
    BY <1>1 DEF Loses
  <2> QED
    BY <2>1, <2>2, <2>3 DEF AliveIsOwned
<1>2. ASSUME NEW h \in Handlers, Tells(h) PROVE AliveIsOwned'
  <2>1. PICK l \in old[h] : alive' = alive \ {l.token} /\ old' = [old EXCEPT ![h] = @ \ {l}]
    BY <1>2 DEF Tells
  <2>2. l.token \notin Tokens(clients)
    BY DEF LeasesAreNamed
  <2>3. clients' = clients
    BY <1>2 DEF Tells
  <2>4. ASSUME NEW t \in Told, t # l.token
        PROVE  t \in Told'
    <3>1. PICK g \in Handlers : t \in Tokens(old[g])
      BY <2>4
    <3>2. PICK k \in old[g] : t = k.token
      BY <3>1 DEF Tokens
    <3>3. k \in old'[g]
      BY <2>1, <2>4, <3>2 DEF TypeOK
    <3> QED
      BY <3>2, <3>3 DEF Tokens
  <2>5. alive' \subseteq Tokens(clients') \cup Told'
    BY <1>0, <2>1, <2>3, <2>4
  <2> QED
    BY <1>0, <2>1, <2>2, <2>3, <2>5 DEF AliveIsOwned
<1>3. ASSUME NEW h \in Handlers, Grants(h) PROVE AliveIsOwned'
  <2> DEFINE mine == SameProcess(clients, PidOf[h])
  <2>1. PICK kept \in SUBSET Others(h) :
          /\ clients' = kept \cup {NewLease(h)}
          /\ alive' = (alive \ Tokens(Others(h) \ kept)) \cup {nextToken + 1}
    BY <1>3 DEF Grants
  <2>2. old' = [old EXCEPT ![h] = mine] /\ old[h] = {}
    BY <1>3 DEF Grants, LeasesAreNamed
  <2>3. NewLease(h).token = nextToken + 1
    BY DEF NewLease
  <2>4. Others(h) = clients \ mine /\ mine \subseteq clients
    BY DEF Others, SameProcess
  <2> HIDE DEF mine
  <2>5. Tokens(clients') = Tokens(kept) \cup {nextToken + 1}
    BY <2>1, <2>3 DEF Tokens
  <2>6. Tokens(kept) \subseteq alive \ Tokens(Others(h) \ kept)
    BY <1>0, <2>1, <2>4 DEF Tokens
  <2>7. Told \cup Tokens(mine) \subseteq Told'
    <3>1. \A g \in Handlers : old[g] \subseteq old'[g]
      BY <2>2 DEF TypeOK
    <3>2. mine = old'[h]
      BY <2>2 DEF TypeOK
    <3>3. Told \subseteq Told'
      BY <3>1 DEF Tokens
    <3>4. Tokens(mine) \subseteq Told'
      BY <3>2
    <3> QED
      BY <3>3, <3>4
  <2>8. alive \ Tokens(Others(h) \ kept) \subseteq Tokens(kept) \cup Tokens(mine) \cup Told
    BY <1>0, <2>4 DEF Tokens
  <2> HIDE DEF Told
  <2>9. /\ Tokens(clients') \subseteq alive'
        /\ alive' \subseteq Tokens(clients') \cup Told'
    BY <2>1, <2>5, <2>6, <2>7, <2>8
  <2> QED
    BY <2>9 DEF AliveIsOwned, Told
<1> QED
  BY <1>1, <1>2, <1>3, LeaseStep

\* No engine runs on the device that the hub does not know of.
LEMMA OrphanStep ==
  ASSUME TypeOK, NoOrphanEngine, [Next]_vars
  PROVE  NoOrphanEngine'
<1>0. NoOrphan(cam) /\ cam \in CamState
  BY DEF NoOrphan, NoOrphanEngine, TypeOK
<1> SUFFICES NoOrphan(cam')
  BY DEF NoOrphan, NoOrphanEngine
<1>1. ASSUME NEW h \in Handlers, Acquire(h) PROVE NoOrphan(cam')
  <2>1. PICK u : \E r \in Apply(cam, u) : cam' = r.cam
    BY <1>1 DEF Acquire
  <2> QED
    BY <1>0, <2>1, ApplyResult DEF Keeps
<1>2. ASSUME NEW h \in Handlers, Release(h) PROVE NoOrphan(cam')
  <2>1. cam' = cam \/ \E u : \E r \in Apply(cam, u) : cam' = r.cam
    BY <1>2 DEF Release
  <2> QED
    BY <1>0, <2>1, ApplyResult DEF Keeps
<1>3. CASE LoopPass
  <2>1. cam' = Closed \/ \E u : \E r \in Apply(cam, u) : cam' = r.cam
    BY <1>3 DEF LoopPass, EventsFail, ApplyPass
  <2> QED
    BY <1>0, <2>1, ApplyResult, ClosedType DEF Keeps
<1>4. CASE ShutdownDevice
  BY <1>4, ClosedType DEF ShutdownDevice
<1>5. CASE \/ OpenDevice \/ VideoFrame \/ DepthFrame \/ VideoTimesOut
           \/ DepthTimesOut \/ DeviceDies
  BY <1>0, <1>5 DEF OpenDevice, VideoFrame, DepthFrame, VideoTimesOut, DepthTimesOut,
                    DeviceDies, NoOrphan, Closed, CamState
<1>6. CASE Stop \/ UNCHANGED vars
  BY <1>0, <1>6 DEF Stop, vars
<1>7. ASSUME NEW h \in Handlers,
             \/ Accept(h) \/ ReadRequest(h) \/ ReadFails(h) \/ AcquireRefused(h)
             \/ NotifySuperseded(h) \/ Reply(h) \/ FrameWriteFails(h) \/ StreamEnds(h)
             \/ Close(h) \/ PeerLeaves(h)
      PROVE  NoOrphan(cam')
  <2>1. cam' = cam
    BY <1>7 DEF Accept, ReadRequest, ReadFails, AcquireRefused, NotifySuperseded, Reply,
                FrameWriteFails, StreamEnds, Close, PeerLeaves
  <2> QED
    BY <1>0, <2>1
<1> QED
  BY <1>1, <1>2, <1>3, <1>4, <1>5, <1>6, <1>7 DEF Next, HandlerStep

-----------------------------------------------------------------------------
(* The theorems *)

\* The invariant of the hub holds at first.
LEMMA HubInvInit == Init => HubInv
<1> SUFFICES ASSUME Init PROVE HubInv
  OBVIOUS
<1>1. TypeOK
  BY TypeInit
<1>2. UsersMatchLeases
  <2> SUFFICES ASSUME NEW s \in Streams
               PROVE  users[s] = Cardinality(Holding(clients, s))
    BY DEF UsersMatchLeases
  <2>1. Holding(clients, s) = {}
    BY DEF Init, Holding
  <2> QED
    BY <2>1, FS_EmptySet DEF Init
<1>3. NoOrphanEngine
  BY ClosedType DEF Init, NoOrphan, NoOrphanEngine
<1>4. LeasesAreNamed
  BY DEF Init, LeasesAreNamed
<1>5. AliveIsOwned
  BY DEF Init, AliveIsOwned, Tokens
<1> QED
  BY <1>1, <1>2, <1>3, <1>4, <1>5
     DEF Init, HubInv, ColorExcludesIr, OneLeasePerProcess

\* Every step of the hub keeps it.
LEMMA HubInvNext == HubInv /\ [Next]_vars => HubInv'
  BY TypeNext, NamesStep, CountsStep, ExcludesStep, OneStep, AliveStep, OrphanStep
     DEF HubInv

\* The lease book-keeping is right in every reachable state: whatever is
\* superseded, revoked, rolled back and released, in whatever order, by any
\* number of handlers of any processes.
THEOREM HubInvariant == Spec => []HubInv
  BY HubInvInit, HubInvNext, PTL DEF Spec

\* The user counters are the numbers of leases.
THEOREM UsersMatchLeasesHolds == Spec => []UsersMatchLeases
  BY HubInvariant, PTL DEF HubInv

\* Colour and IR are never leased at the same time.
THEOREM ColorExcludesIrHolds == Spec => []ColorExcludesIr
  BY HubInvariant, PTL DEF HubInv

\* A process owns one lease at most.
THEOREM OneLeasePerProcessHolds == Spec => []OneLeasePerProcess
  BY HubInvariant, PTL DEF HubInv

\* Leases are alive, and nobody else for longer than its supersession takes.
THEOREM AliveIsOwnedHolds == Spec => []AliveIsOwned
  BY HubInvariant, PTL DEF HubInv

\* No failed start or stop leaves an engine running behind the hub's back.
THEOREM NoOrphanEngineHolds == Spec => []NoOrphanEngine
  BY HubInvariant, PTL DEF HubInv

\* A pass of the hub thread ends with the session closed or the demand met.
THEOREM LoopPassSettlesHolds == Spec => LoopPassSettles
<1> DEFINE Settled == \/ cam' = Closed
                      \/ /\ cam'.video = WantedEngine(users')
                         /\ cam'.depth = WantDepth(users')
                         /\ cam'.projector = WantProjector(users')
<1>1. TypeOK /\ TypeOK' /\ [Next]_vars => [LoopPass => Settled]_vars
  <2> SUFFICES ASSUME TypeOK, TypeOK', LoopPass PROVE Settled
    OBVIOUS
  <2>1. CASE cam' = Closed
    BY <2>1
  <2>2. CASE \E u : users' = u /\ \E r \in Apply(cam, u) : cam' = IF r.ok THEN r.cam ELSE Closed
    <3>1. PICK r \in Apply(cam, users') : cam' = IF r.ok THEN r.cam ELSE Closed
      BY <2>2
    <3>2. CASE ~r.ok
      BY <3>1, <3>2
    <3>3. CASE r.ok
      <4>1. cam' = r.cam
        BY <3>1, <3>3
      <4>2. /\ cam'.video = WantedEngine(users') /\ (cam'.depth <=> WantDepth(users'))
            /\ cam'.projector = WantProjector(users')
        BY <3>3, <4>1, ApplyResult DEF TypeOK
      <4>3. cam'.depth \in BOOLEAN /\ WantDepth(users') \in BOOLEAN
        BY DEF TypeOK, CamState, WantDepth
      <4> QED
        BY <4>2, <4>3
    <3> QED
      BY <3>2, <3>3
  <2> QED
    BY <2>1, <2>2 DEF LoopPass, EventsFail, ApplyPass
<1> QED
  BY <1>1, TypeCorrect, PTL DEF Spec, LoopPassSettles

-----------------------------------------------------------------------------
(* What the clients see of a step *)

\* A request that is being tried was made.
AskedFor == \A h \in Handlers : pc[h] = "acquire" => want[h] \in Requests

\* Every lease of S but RGB HQ, when it is being given up.
Kept(S) == S \ Revoked(cam, S)

Obtains(h) ==
  /\ pc[h] = "acquire"
  /\ ~Conflicts(Counts(Others(h)), want[h])
  /\ clients' = Kept(Others(h)) \cup {NewLease(h)} /\ nextToken' = nextToken + 1

\* An acquire that fails costs others RGB HQ at most.
Restores(h) ==
  clients' = Kept(Others(h)) \cup SameProcess(clients, PidOf[h]) /\ nextToken' = nextToken

Frees(l) ==
  clients' = Kept(clients \ {l}) /\ nextToken' = nextToken

GivesUpHq ==
  clients' = Kept(clients) /\ nextToken' = nextToken

HqFollows == hqUnavailable' = (hqUnavailable \/ Starved(cam))

\* What a step does to the leases is one of the five things an arbiter does.
LEMMA WhatClientsSee ==
  ASSUME TypeOK, LeasesAreNamed, UsersMatchLeases, [Next]_vars
  PROVE  \/ UNCHANGED <<clients, nextToken, hqUnavailable>>
         \/ HqFollows /\ GivesUpHq
         \/ HqFollows /\ \E h \in Handlers : Obtains(h) \/ Restores(h)
         \/ HqFollows /\ \E l \in clients : Frees(l)
<1>0. users = Counts(clients) /\ IsFiniteSet(clients)
  BY MatchIsCounts DEF TypeOK
<1>1. ASSUME NEW h \in Handlers, Acquire(h) PROVE HqFollows /\ (Obtains(h) \/ Restores(h))
  <2> DEFINE mine == SameProcess(clients, PidOf[h])
  <2>1. DropUsers(users, mine) = Counts(clients \ mine)
    <3>1. mine \in SUBSET clients
      BY DEF SameProcess
    <3> QED
      BY <1>0, <3>1, DropCounts
  <2> QED
    BY <1>1, <2>1 DEF Acquire, Obtains, Restores, HqFollows, Others, Kept, NewLease
<1>2. ASSUME NEW h \in Handlers, Release(h)
      PROVE  \/ UNCHANGED <<clients, nextToken, hqUnavailable>>
             \/ HqFollows /\ \E l \in clients : Frees(l)
  <2> DEFINE mine == {l \in clients : l.token = token[h]}
  <2>1. CASE mine = {}
    BY <1>2, <2>1 DEF Release
  <2>2. CASE mine # {}
    <3>1. PICK l \in clients : l.token = token[h]
      BY <2>2
    <3>2. mine = {l}
      BY <3>1 DEF LeasesAreNamed
    <3>3. /\ clients' = (clients \ mine) \ Revoked(cam, clients \ mine)
          /\ nextToken' = nextToken /\ HqFollows
      BY <1>2, <2>2 DEF Release, HqFollows
    <3> QED
      BY <3>2, <3>3 DEF Frees, Kept
  <2> QED
    BY <2>1, <2>2
<1>3. CASE ApplyPass
  BY <1>3 DEF ApplyPass, GivesUpHq, HqFollows, Kept
<1>4. CASE EventsFail \/ OpenDevice \/ VideoFrame \/ DepthFrame \/ VideoTimesOut \/ DepthTimesOut
           \/ DeviceDies \/ Stop \/ ShutdownDevice \/ UNCHANGED vars
  BY <1>4 DEF EventsFail, OpenDevice, VideoFrame, DepthFrame, VideoTimesOut, DepthTimesOut,
     DeviceDies, Stop, ShutdownDevice, leaseVars, vars
<1>5. ASSUME NEW h \in Handlers,
             \/ Accept(h) \/ ReadRequest(h) \/ ReadFails(h) \/ AcquireRefused(h)
             \/ NotifySuperseded(h) \/ Reply(h) \/ FrameWriteFails(h) \/ StreamEnds(h)
             \/ Close(h) \/ PeerLeaves(h)
      PROVE  UNCHANGED <<clients, nextToken, hqUnavailable>>
  BY <1>5 DEF Accept, ReadRequest, ReadFails, AcquireRefused, NotifySuperseded, Reply,
              FrameWriteFails, StreamEnds, Close, PeerLeaves, leaseVars
<1> QED
  BY <1>1, <1>2, <1>3, <1>4, <1>5 DEF Next, HandlerStep, LoopPass

\* A handler keeps asking for what its client asked for.
LEMMA AskedStep ==
  ASSUME TypeOK, AskedFor, [Next]_vars
  PROVE  AskedFor'
<1> USE DEF TypeOK, AskedFor
<1>1. ASSUME NEW h \in Handlers, Acquire(h) PROVE AskedFor'
  <2>1. \/ /\ pc' = [pc EXCEPT ![h] = IF SameProcess(clients, PidOf[h]) = {}
                                      THEN "reply" ELSE "notify"]
           /\ want' = want
        \/ /\ pc' = [pc EXCEPT ![h] = "closing"]
           /\ want' = [want EXCEPT ![h] = {}]
    BY <1>1 DEF Acquire, Leave
  <2> QED
    BY <2>1
<1>2. ASSUME NEW h \in Handlers, ReadRequest(h) PROVE AskedFor'
  BY <1>2 DEF ReadRequest, Leave
<1>3. ASSUME NEW h \in Handlers, NotifySuperseded(h) PROVE AskedFor'
  <2>1. PICK l \in old[h] : pc' = [pc EXCEPT ![h] = IF old[h] = {l} THEN "reply" ELSE "notify"]
    BY <1>3 DEF NotifySuperseded
  <2>2. want' = want
    BY <1>3 DEF NotifySuperseded
  <2> QED
    BY <2>1, <2>2
<1>4. ASSUME NEW h \in Handlers,
             Accept(h) \/ ReadFails(h) \/ AcquireRefused(h) \/ Reply(h)
      PROVE  AskedFor'
  BY <1>4 DEF Accept, ReadFails, AcquireRefused, Reply, Leave
<1>5. ASSUME NEW h \in Handlers,
             FrameWriteFails(h) \/ StreamEnds(h) \/ Close(h) \/ PeerLeaves(h)
      PROVE  AskedFor'
  BY <1>5 DEF FrameWriteFails, StreamEnds, Close, PeerLeaves
<1>6. ASSUME NEW h \in Handlers, Release(h) PROVE AskedFor'
  <2>1. Leave(h) /\ pc[h] = "release"
    BY <1>6 DEF Release
  <2> QED
    BY <2>1 DEF Leave
<1>7. ASSUME \/ OpenDevice \/ LoopPass \/ VideoFrame \/ DepthFrame \/ VideoTimesOut
             \/ DepthTimesOut \/ DeviceDies \/ Stop \/ ShutdownDevice \/ UNCHANGED vars
      PROVE  UNCHANGED <<pc, want>>
  BY <1>7 DEF OpenDevice, LoopPass, EventsFail, ApplyPass, VideoFrame, DepthFrame, VideoTimesOut,
     DepthTimesOut, DeviceDies, Stop, ShutdownDevice, leaseVars, connVars, vars
<1> QED
  BY <1>1, <1>2, <1>3, <1>4, <1>5, <1>6, <1>7 DEF Next, HandlerStep

\* What the clients see of a set of leases.
Shown(S) == {[token |-> l.token, pid |-> l.pid, mask |-> l.mask] : l \in S}

\* Choosing by process or by mask is the same before and after the showing.
LEMMA ShownParts ==
  ASSUME NEW S
  PROVE  /\ \A T : Shown(S \cup T) = Shown(S) \cup Shown(T)
         /\ {g \in Shown(S) : "HQ" \notin g.mask} = Shown(S \ Holding(S, "HQ"))
         /\ \A p : {g \in Shown(S) : g.pid # p \/ p = NoPid} = Shown(S \ SameProcess(S, p))
<1>1. \A T : Shown(S \cup T) = Shown(S) \cup Shown(T)
  BY DEF Shown
<1>2. {g \in Shown(S) : "HQ" \notin g.mask} = Shown(S \ Holding(S, "HQ"))
  <2>1. ASSUME NEW g \in Shown(S), "HQ" \notin g.mask PROVE g \in Shown(S \ Holding(S, "HQ"))
    BY <2>1 DEF Shown, Holding
  <2>2. ASSUME NEW g \in Shown(S \ Holding(S, "HQ")) PROVE g \in Shown(S) /\ "HQ" \notin g.mask
    BY <2>2 DEF Shown, Holding
  <2> QED
    BY <2>1, <2>2
<1>3. ASSUME NEW p
      PROVE  {g \in Shown(S) : g.pid # p \/ p = NoPid} = Shown(S \ SameProcess(S, p))
  <2>1. ASSUME NEW g \in Shown(S), g.pid # p \/ p = NoPid PROVE g \in Shown(S \ SameProcess(S, p))
    BY <2>1 DEF Shown, SameProcess
  <2>2. ASSUME NEW g \in Shown(S \ SameProcess(S, p))
        PROVE  g \in Shown(S) /\ (g.pid # p \/ p = NoPid)
    BY <2>2 DEF Shown, SameProcess
  <2> QED
    BY <2>1, <2>2
<1> QED
  BY <1>1, <1>2, <1>3

\* What is kept is what the arbiter lets survive.
LEMMA KeptSurvives ==
  ASSUME TypeOK, HqFollows, NEW S
  PROVE  \E s \in Arbiter!Survivors(Shown(S)) : s.kept = Shown(Kept(S)) /\ s.off = hqUnavailable'
<1>1. CASE Starved(cam)
  <2>1. hqUnavailable' = TRUE /\ Kept(S) = S \ Holding(S, "HQ")
    BY <1>1 DEF HqFollows, Kept, Revoked
  <2>2. [kept |-> Shown(Kept(S)), off |-> TRUE] \in Arbiter!Survivors(Shown(S))
    BY <2>1, ShownParts DEF Arbiter!Survivors
  <2> QED
    BY <2>1, <2>2
<1>2. CASE ~Starved(cam)
  <2>1. hqUnavailable' = hqUnavailable /\ Kept(S) = S
    BY <1>2 DEF HqFollows, Kept, Revoked, TypeOK
  <2>2. [kept |-> Shown(Kept(S)), off |-> hqUnavailable] \in Arbiter!Survivors(Shown(S))
    BY <2>1 DEF Arbiter!Survivors
  <2> QED
    BY <2>1, <2>2
<1> QED
  BY <1>1, <1>2

\* Every step is one of the arbiter's, or one it does not see.
LEMMA ArbiterStep ==
  ASSUME HubInv, AskedFor, [Next]_vars
  PROVE  Arbiter!Next \/ UNCHANGED Arbiter!vars
<1>0. /\ TypeOK /\ LeasesAreNamed /\ UsersMatchLeases
      /\ Granted = Shown(clients) /\ Granted' = Shown(clients')
  BY DEF HubInv, Granted, Shown
<1>1. CASE UNCHANGED <<clients, nextToken, hqUnavailable>>
  BY <1>0, <1>1 DEF Arbiter!vars
<1>2. CASE HqFollows /\ GivesUpHq
  <2>1. CASE Starved(cam)
    <3>1. hqUnavailable' = TRUE /\ clients' = clients \ Holding(clients, "HQ")
      BY <1>2, <2>1 DEF HqFollows, GivesUpHq, Kept, Revoked
    <3>2. Granted' = {g \in Granted : "HQ" \notin g.mask \/ (g.pid = NoPid /\ NoPid # NoPid)}
      BY <1>0, <3>1, ShownParts
    <3> QED
      BY <1>2, <3>1, <3>2 DEF GivesUpHq, Arbiter!Next, Arbiter!GiveUpHq
  <2>2. CASE ~Starved(cam)
    BY <1>0, <1>2, <2>2 DEF HqFollows, GivesUpHq, Kept, Revoked, Arbiter!vars, TypeOK
  <2> QED
    BY <2>1, <2>2
<1>3. ASSUME NEW h \in Handlers, Obtains(h), HqFollows PROVE Arbiter!Next
  <2> DEFINE p == PidOf[h]
             m == want[h]
             others == {g \in Granted : g.pid # p \/ p = NoPid}
             new == [token |-> nextToken + 1, pid |-> p, mask |-> m]
  <2>1. m \in {n \in Requests : ValidMask(n)}
    BY <1>0, <1>3 DEF AskedFor, Obtains, LeasesAreNamed
  <2>2. others = Shown(Others(h))
    BY <1>0, ShownParts DEF Others
  <2>3. ASSUME NEW g \in others PROVE Arbiter!Compatible(g.mask, m)
    <3>1. PICK l \in Others(h) : g.mask = l.mask
      BY <2>2, <2>3 DEF Shown
    <3> QED
      BY <1>0, <1>3, <3>1, NoConflict DEF Obtains, Arbiter!Compatible, Color
  <2>4. PICK s \in Arbiter!Survivors(others) :
          s.kept = Shown(Kept(Others(h))) /\ s.off = hqUnavailable'
    BY <1>0, <1>3, <2>2, KeptSurvives
  <2>5. Granted' = s.kept \cup {new}
    <3>1. Shown({NewLease(h)}) = {new}
      BY DEF Shown, NewLease
    <3>2. Shown(Kept(Others(h)) \cup {NewLease(h)}) = Shown(Kept(Others(h))) \cup Shown({NewLease(h)})
      BY ShownParts
    <3>3. clients' = Kept(Others(h)) \cup {NewLease(h)}
      BY <1>3 DEF Obtains
    <3> QED
      BY <1>0, <2>4, <3>1, <3>2, <3>3
  <2>6. Arbiter!Grant(p, m)
    BY <1>3, <2>3, <2>4, <2>5 DEF Obtains, Arbiter!Grant
  <2> QED
    BY <2>1, <2>6 DEF Arbiter!Next
<1>4. ASSUME NEW h \in Handlers, Restores(h), HqFollows
      PROVE  Arbiter!Next \/ UNCHANGED Arbiter!vars
  <2> DEFINE p == PidOf[h]
             mine == SameProcess(clients, p)
  <2>1. CASE Starved(cam)
    <3>1. /\ hqUnavailable' = TRUE /\ nextToken' = nextToken
          /\ clients' = {l \in clients : "HQ" \notin l.mask \/ (l.pid = p /\ p # NoPid)}
      BY <1>4, <2>1 DEF HqFollows, Restores, Kept, Revoked, Others, Holding, SameProcess
    <3>2. Granted' = {g \in Granted : "HQ" \notin g.mask \/ (g.pid = p /\ p # NoPid)}
      BY <1>0, <3>1 DEF Shown
    <3> QED
      BY <3>1, <3>2 DEF Arbiter!Next, Arbiter!GiveUpHq
  <2>2. CASE ~Starved(cam)
    <3>1. Kept(Others(h)) \cup mine = clients
      BY <2>2 DEF Kept, Revoked, Others, SameProcess
    <3> QED
      BY <1>0, <1>4, <2>2, <3>1 DEF HqFollows, Restores, Arbiter!vars, TypeOK
  <2> QED
    BY <2>1, <2>2
<1>5. ASSUME NEW l \in clients, Frees(l), HqFollows PROVE Arbiter!Next
  <2> DEFINE g == [token |-> l.token, pid |-> l.pid, mask |-> l.mask]
  <2>1. g \in Granted
    BY <1>0 DEF Shown
  <2>2. Granted \ {g} = Shown(clients \ {l})
    BY <1>0 DEF Shown, LeasesAreNamed
  <2>3. PICK s \in Arbiter!Survivors(Granted \ {g}) :
          s.kept = Shown(Kept(clients \ {l})) /\ s.off = hqUnavailable'
    BY <1>0, <1>5, <2>2, KeptSurvives
  <2>4. Arbiter!GiveBack(g)
    BY <1>0, <1>5, <2>3 DEF Frees, Arbiter!GiveBack
  <2> QED
    BY <2>1, <2>4 DEF Arbiter!Next
<1> QED
  BY <1>0, <1>1, <1>2, <1>3, <1>4, <1>5, WhatClientsSee

\* Seen from its clients the hub is the arbiter: whole leases are granted,
\* superseded and taken back, one request at a time, by any number of handlers
\* and whatever the engines do.
THEOREM ImplementsArbiterHolds == Spec => ImplementsArbiter
<1>1. Init => Arbiter!Init
  BY DEF Init, Arbiter!Init, Granted
<1>2. Init => AskedFor
  BY DEF Init, AskedFor
<1>3. HubInv /\ AskedFor /\ [Next]_vars => AskedFor'
  BY AskedStep DEF HubInv
<1>4. HubInv /\ AskedFor /\ [Next]_vars => [Arbiter!Next]_(Arbiter!vars)
  BY ArbiterStep
<1> QED
  BY <1>1, <1>2, <1>3, <1>4, HubInvariant, PTL DEF Spec, ImplementsArbiter, Arbiter!Spec

\* An acquire that fails, at whatever stage of apply_locked, takes nothing from
\* the other processes but RGB HQ that is being disabled, and its own process has
\* what it had.
THEOREM FailedAcquireRestoresHolds == Spec => FailedAcquireRestores
<1> DEFINE Step == \A h \in Handlers :
                     pc[h] = "acquire" /\ pc'[h] = "closing" =>
                       /\ clients' \subseteq clients
                       /\ \A l \in clients \ clients' :
                            "HQ" \in l.mask /\ l \notin SameProcess(clients, PidOf[h]) /\ hqUnavailable'
<1>1. TypeOK /\ [Next]_vars => Step
  <2> SUFFICES ASSUME TypeOK, [Next]_vars, NEW h \in Handlers,
                      pc[h] = "acquire", pc'[h] = "closing"
               PROVE  /\ clients' \subseteq clients
                      /\ \A l \in clients \ clients' :
                           "HQ" \in l.mask /\ l \notin SameProcess(clients, PidOf[h]) /\ hqUnavailable'
    OBVIOUS
  <2>1. CASE clients' = clients
    BY <2>1
  <2>2. CASE Acquire(h)
    <3>1. clients' = Kept(Others(h)) \cup SameProcess(clients, PidOf[h])
      BY <2>2 DEF Acquire, Kept, Others, Leave, TypeOK
    <3>2. clients \ clients' = Revoked(cam, Others(h)) \ SameProcess(clients, PidOf[h])
      BY <3>1 DEF Kept, Others, Revoked, Holding, SameProcess
    <3>3. Starved(cam) => hqUnavailable'
      BY <2>2 DEF Acquire
    <3> QED
      BY <3>1, <3>2, <3>3 DEF Kept, Others, Revoked, Holding, SameProcess
  <2>3. ASSUME NEW g \in Handlers, g # h, Acquire(g) \/ Release(g) PROVE FALSE
    <3>1. pc' = pc \/ \E x : pc' = [pc EXCEPT ![g] = x]
      BY <2>3 DEF Acquire, Release, Leave
    <3> QED
      BY <2>3, <3>1 DEF TypeOK
  <2>4. ~Release(h) /\ ~ApplyPass
    BY DEF Release, ApplyPass
  <2>5. CASE EventsFail \/ OpenDevice \/ VideoFrame \/ DepthFrame \/ VideoTimesOut \/ DepthTimesOut
             \/ DeviceDies \/ Stop \/ ShutdownDevice \/ UNCHANGED vars
    BY <2>1, <2>5 DEF EventsFail, OpenDevice, VideoFrame, DepthFrame, VideoTimesOut, DepthTimesOut,
       DeviceDies, Stop, ShutdownDevice, leaseVars, vars
  <2>6. ASSUME NEW g \in Handlers,
               \/ Accept(g) \/ ReadRequest(g) \/ ReadFails(g) \/ AcquireRefused(g)
               \/ NotifySuperseded(g) \/ Reply(g) \/ FrameWriteFails(g) \/ StreamEnds(g)
               \/ Close(g) \/ PeerLeaves(g)
        PROVE  clients' = clients
    BY <2>6 DEF Accept, ReadRequest, ReadFails, AcquireRefused, NotifySuperseded, Reply,
                FrameWriteFails, StreamEnds, Close, PeerLeaves, leaseVars
  <2> QED
    BY <2>1, <2>2, <2>3, <2>4, <2>5, <2>6 DEF Next, HandlerStep, LoopPass
<1>2. Spec => [][Step]_vars
  BY <1>1, TypeCorrect, PTL DEF Spec
<1> QED
  BY <1>2 DEF FailedAcquireRestores

=============================================================================
