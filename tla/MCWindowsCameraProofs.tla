------------------------ MODULE MCWindowsCameraProofs ------------------------
(***************************************************************************)
(* What the parts of the Windows camera service guarantee for every value  *)
(* of the constants: the invariant of each part, with its proof.  They are *)
(* put together in MCWindowsProofs.                                        *)
(***************************************************************************)
EXTENDS MCWindows, FiniteSetTheorems, WellFoundedInduction, TLAPS

-----------------------------------------------------------------------------
(* The threads of the camera *)

\* While the end of Run and Close are under way the depth thread is over, and what
\* it leaves behind is what was written last, if no write failed.
StreamsInv ==
  /\ Streams!TypeOK
  /\ stream_video \in {"quiet", "stop", "close", "closed"} => depth = "done"
  /\ depthIso => depth \in {"arm", "poll", "set", "down", "off", "unregister"}
  /\ faults = 0 => projectorOn = projector
  /\ faults = 0 /\ stream_video \in {"stop", "close", "closed"} => projector = FALSE
  /\ faults = 0 /\ stream_video \in {"close", "closed"} => engine = "off"

VideoPlaces == {"closed", "top", "light", "dark", "check", "start", "teardown", "join",
                "quiet", "stop", "close"}
DepthPlaces == {"done", "top", "project", "session", "arm", "poll", "set", "down", "off",
                "unregister", "relight", "last"}

\* The types, one by one.
LEMMA StreamsFields ==
  ASSUME StreamsInv
  PROVE  /\ wants \in {{}} \cup Demands /\ changes \in 0..MaxChanges /\ faults \in 0..MaxFaults
         /\ run \in BOOLEAN /\ sessionRun \in BOOLEAN /\ videoRunning \in BOOLEAN
         /\ level \in BOOLEAN /\ depthIso \in BOOLEAN
         /\ projectorOn \in BOOLEAN /\ projector \in BOOLEAN
         /\ stream_video \in VideoPlaces /\ depth \in DepthPlaces
         /\ activeMode \in {"RGB", "IR"} /\ engine \in {"off", "RGB", "IR"}
         /\ MaxChanges \in Nat /\ MaxFaults \in Nat
<1>1. MaxChanges \in Nat /\ MaxFaults \in Nat
  BY BoundsAssumption
<1>2. /\ run \in BOOLEAN /\ sessionRun \in BOOLEAN /\ videoRunning \in BOOLEAN
      /\ level \in BOOLEAN /\ depthIso \in BOOLEAN
      /\ projectorOn \in BOOLEAN /\ projector \in BOOLEAN
  BY DEF StreamsInv, Streams!TypeOK
<1> QED BY <1>1, <1>2 DEF StreamsInv, Streams!TypeOK, VideoPlaces, DepthPlaces

\* The invariant after a step, from its parts.
LEMMA StreamsInvFrom ==
  ASSUME wants' \in {{}} \cup Demands, changes' \in 0..MaxChanges, faults' \in 0..MaxFaults,
         run' \in BOOLEAN, sessionRun' \in BOOLEAN, videoRunning' \in BOOLEAN,
         level' \in BOOLEAN, depthIso' \in BOOLEAN,
         projectorOn' \in BOOLEAN, projector' \in BOOLEAN,
         stream_video' \in VideoPlaces, depth' \in DepthPlaces,
         activeMode' \in {"RGB", "IR"}, engine' \in {"off", "RGB", "IR"},
         stream_video' \in {"quiet", "stop", "close", "closed"} => depth' = "done",
         depthIso' => depth' \in {"arm", "poll", "set", "down", "off", "unregister"},
         faults' = 0 => projectorOn' = projector',
         faults' = 0 /\ stream_video' \in {"stop", "close", "closed"} => projector' = FALSE,
         faults' = 0 /\ stream_video' \in {"close", "closed"} => engine' = "off"
  PROVE  StreamsInv'
<1>1. {run', sessionRun', videoRunning', level', depthIso', projectorOn', projector'}
        \subseteq BOOLEAN
  OBVIOUS
<1> QED BY <1>1 DEF StreamsInv, Streams!TypeOK, VideoPlaces, DepthPlaces

\* Register 0x06: a write that did not fail leaves what it wrote, on the device and
\* in what is believed of it.
LEMMA ProjectorWritten ==
  ASSUME StreamsInv, NEW on \in BOOLEAN, NEW ok \in BOOLEAN, Streams!SetProjector(on, ok)
  PROVE  /\ faults' \in 0..MaxFaults /\ UNCHANGED engine
         /\ projectorOn' \in BOOLEAN /\ projector' \in BOOLEAN
         /\ faults' = 0 => faults = 0 /\ ok /\ projectorOn' = on /\ projector' = on
<1>1. /\ faults \in 0..MaxFaults /\ MaxFaults \in Nat
      /\ projectorOn \in BOOLEAN /\ projector \in BOOLEAN
  BY StreamsFields
<1>2. faults = 0 => projectorOn = projector
  BY DEF StreamsInv
<1>3. CASE projectorOn = on /\ ok /\ UNCHANGED <<projectorOn, projector, faults>>
  BY <1>1, <1>2, <1>3 DEF Streams!SetProjector
<1>4. CASE projectorOn # on /\ ok /\ projectorOn' = on /\ projector' = on /\ UNCHANGED faults
  BY <1>1, <1>4 DEF Streams!SetProjector
<1>5. CASE /\ projectorOn # on /\ ~ok /\ Streams!Fault /\ projector' \in {projector, on}
           /\ UNCHANGED projectorOn
  BY <1>1, <1>5 DEF Streams!SetProjector, Streams!Fault
<1> QED BY <1>3, <1>4, <1>5 DEF Streams!SetProjector

\* Register 0x05, the same.
LEMMA EngineWritten ==
  ASSUME StreamsInv, NEW m \in {"off", "RGB", "IR"}, NEW ok \in BOOLEAN,
         Streams!WriteEngine(m, ok)
  PROVE  /\ faults' \in 0..MaxFaults /\ UNCHANGED projectorOn /\ UNCHANGED projector
         /\ engine' \in {"off", "RGB", "IR"}
         /\ faults' = 0 => faults = 0 /\ ok /\ engine' = m
BY StreamsFields DEF Streams!WriteEngine, Streams!Fault

\* A step of the video thread that leaves the device alone: it does not come to
\* the end of Run.
LEMMA VideoElsewhere ==
  ASSUME StreamsInv,
         UNCHANGED <<wants, run, changes, level, depthIso, depth>>,
         sessionRun' \in BOOLEAN, videoRunning' \in BOOLEAN, activeMode' \in {"RGB", "IR"},
         stream_video' \in VideoPlaces \ {"quiet", "stop", "close", "closed"},
         faults' \in 0..MaxFaults, faults' = 0 => faults = 0,
         projectorOn' \in BOOLEAN, projector' \in BOOLEAN, engine' \in {"off", "RGB", "IR"},
         faults' = 0 => projectorOn' = projector'
  PROVE  StreamsInv'
<1>1. /\ UNCHANGED wants /\ UNCHANGED run /\ UNCHANGED changes /\ UNCHANGED level
      /\ UNCHANGED depthIso /\ UNCHANGED depth
  OBVIOUS
<1>2. depthIso => depth \in {"arm", "poll", "set", "down", "off", "unregister"}
  BY DEF StreamsInv
<1>3. depthIso' => depth' \in {"arm", "poll", "set", "down", "off", "unregister"}
  BY <1>1, <1>2
<1>4. /\ wants' \in {{}} \cup Demands /\ changes' \in 0..MaxChanges
      /\ run' \in BOOLEAN /\ level' \in BOOLEAN /\ depthIso' \in BOOLEAN
      /\ depth' \in DepthPlaces
  BY <1>1, StreamsFields
<1>5. /\ stream_video' \in VideoPlaces
      /\ stream_video' \notin {"quiet", "stop", "close", "closed"}
  OBVIOUS
<1>6. /\ ~(stream_video' \in {"stop", "close", "closed"})
      /\ ~(stream_video' \in {"close", "closed"})
  BY <1>5
<1> QED BY <1>3, <1>4, <1>5, <1>6, StreamsInvFrom

\* The video thread until the end of its session.
LEMMA VideoSessionKeeps ==
  ASSUME StreamsInv,
         \/ Streams!LeaveLoop \/ Streams!VideoStalls \/ Streams!Idle \/ Streams!BeginVideo
         \/ Streams!SwitchMode \/ Streams!CheckProjector \/ Streams!VideoProjector
         \/ Streams!StartVideo \/ Streams!Teardown
  PROVE  StreamsInv'
<1>1. faults = 0 => projectorOn = projector
  BY DEF StreamsInv
<1>2. Streams!demandedMode \in {"RGB", "IR"}
  BY DEF Streams!demandedMode
<1> USE DEF VideoPlaces, Streams!VideoGoes
<1>3. CASE Streams!LeaveLoop \/ Streams!CheckProjector
  BY <1>1, <1>3, StreamsFields, VideoElsewhere
     DEF Streams!LeaveLoop, Streams!CheckProjector, Streams!deviceVars
<1>4. CASE Streams!VideoStalls
  <2>1. faults' \in 0..MaxFaults /\ faults' # 0
    BY <1>4, StreamsFields DEF Streams!VideoStalls, Streams!Fault
  <2> QED BY <1>4, <2>1, StreamsFields, VideoElsewhere DEF Streams!VideoStalls
<1>5. CASE Streams!BeginVideo
  BY <1>1, <1>2, <1>5, StreamsFields, VideoElsewhere DEF Streams!BeginVideo, Streams!deviceVars
<1>6. CASE Streams!Idle \/ Streams!SwitchMode \/ Streams!Teardown
  <2>1. PICK ok \in BOOLEAN : Streams!WriteEngine("off", ok)
    BY <1>6 DEF Streams!Idle, Streams!SwitchMode, Streams!Teardown, Streams!StopVideoCapture
  <2>2. /\ faults' \in 0..MaxFaults /\ UNCHANGED projectorOn /\ UNCHANGED projector
        /\ engine' \in {"off", "RGB", "IR"} /\ (faults' = 0 => faults = 0)
    BY <2>1, EngineWritten
  <2>3. /\ UNCHANGED <<wants, run, changes, level, depthIso, depth>>
        /\ stream_video' \in VideoPlaces \ {"quiet", "stop", "close", "closed"}
    BY <1>6 DEF Streams!Idle, Streams!SwitchMode, Streams!Teardown
  <2>4. /\ sessionRun' \in BOOLEAN /\ activeMode' \in {"RGB", "IR"}
    BY <1>2, <1>6, StreamsFields DEF Streams!Idle, Streams!SwitchMode, Streams!Teardown
  <2>5. videoRunning' \in BOOLEAN
    BY <1>6, StreamsFields DEF Streams!Idle, Streams!SwitchMode, Streams!Teardown
  <2> QED BY <1>1, <2>2, <2>3, <2>4, <2>5, StreamsFields, VideoElsewhere
<1>7. CASE Streams!VideoProjector
  <2>1. PICK on \in BOOLEAN, ok \in BOOLEAN :
          /\ Streams!VideoGoes(IF on THEN "light" ELSE "dark", IF ok THEN "start" ELSE "teardown")
          /\ Streams!SetProjector(on, ok)
          /\ UNCHANGED <<sessionRun, videoRunning, activeMode, depth>>
    BY <1>7 DEF Streams!VideoProjector
  <2>2. /\ faults' \in 0..MaxFaults /\ UNCHANGED engine
        /\ projectorOn' \in BOOLEAN /\ projector' \in BOOLEAN
        /\ faults' = 0 => faults = 0 /\ projectorOn' = projector'
    BY <2>1, ProjectorWritten
  <2> QED BY <2>1, <2>2, StreamsFields, VideoElsewhere
<1>8. CASE Streams!StartVideo
  <2>1. PICK ok \in BOOLEAN :
          /\ Streams!VideoGoes("start", IF ok THEN "top" ELSE "teardown")
          /\ Streams!WriteEngine(activeMode, ok)
          /\ videoRunning' = (videoRunning \/ ok)
    BY <1>8 DEF Streams!StartVideo
  <2>2. UNCHANGED <<sessionRun, activeMode, depth>>
    BY <1>8 DEF Streams!StartVideo
  <2>3. activeMode \in {"off", "RGB", "IR"}
    BY StreamsFields
  <2>4. /\ faults' \in 0..MaxFaults /\ UNCHANGED projectorOn /\ UNCHANGED projector
        /\ engine' \in {"off", "RGB", "IR"} /\ (faults' = 0 => faults = 0)
    BY <2>1, <2>3, EngineWritten
  <2>5. videoRunning' \in BOOLEAN
    BY <2>1, StreamsFields
  <2> QED BY <1>1, <2>1, <2>2, <2>4, <2>5, StreamsFields, VideoElsewhere
<1> QED BY <1>3, <1>4, <1>5, <1>6, <1>7, <1>8

\* The video thread at the beginning and the end of Run: the depth thread is over
\* from JoinDepth until the next camera is opened.
LEMMA VideoEndKeeps ==
  ASSUME StreamsInv,
         \/ Streams!OpenCamera \/ Streams!JoinDepth \/ Streams!Quiet \/ Streams!StopAgain
         \/ Streams!CloseCamera
  PROVE  StreamsInv'
<1>1. /\ UNCHANGED wants /\ UNCHANGED run /\ UNCHANGED changes /\ UNCHANGED level
      /\ UNCHANGED depthIso
  BY DEF Streams!OpenCamera, Streams!JoinDepth, Streams!Quiet, Streams!StopAgain,
         Streams!CloseCamera, Streams!VideoGoes
<1>2. /\ stream_video \in {"quiet", "stop", "close", "closed"} => depth = "done"
      /\ depthIso => depth \in {"arm", "poll", "set", "down", "off", "unregister"}
      /\ faults = 0 => projectorOn = projector
      /\ faults = 0 /\ stream_video \in {"stop", "close", "closed"} => projector = FALSE
      /\ faults = 0 /\ stream_video \in {"close", "closed"} => engine = "off"
  BY DEF StreamsInv
<1> USE DEF VideoPlaces, DepthPlaces, Streams!VideoGoes
<1>3. CASE Streams!OpenCamera
  <2>1. /\ stream_video = "closed" /\ stream_video' = "top" /\ depth' = "top"
        /\ sessionRun' = TRUE /\ videoRunning' = FALSE
        /\ UNCHANGED projectorOn /\ UNCHANGED projector /\ UNCHANGED engine /\ UNCHANGED faults
    BY <1>3 DEF Streams!OpenCamera, Streams!deviceVars
  <2>2. activeMode' \in {"RGB", "IR"}
    BY <1>3 DEF Streams!OpenCamera, Streams!demandedMode
  <2>3. depthIso = FALSE
    BY <1>2, <2>1, StreamsFields
  <2> QED BY <1>1, <1>2, <2>1, <2>2, <2>3, StreamsFields, StreamsInvFrom
<1>4. CASE Streams!JoinDepth
  <2>1. /\ stream_video' = "quiet" /\ depth = "done" /\ UNCHANGED depth
        /\ UNCHANGED sessionRun /\ UNCHANGED videoRunning /\ UNCHANGED activeMode
        /\ UNCHANGED projectorOn /\ UNCHANGED projector /\ UNCHANGED engine /\ UNCHANGED faults
    BY <1>4 DEF Streams!JoinDepth, Streams!deviceVars
  <2> QED BY <1>1, <1>2, <2>1, StreamsFields, StreamsInvFrom
<1>5. CASE Streams!Quiet
  <2>1. PICK ok \in BOOLEAN : Streams!SetProjector(FALSE, ok)
    BY <1>5 DEF Streams!Quiet
  <2>2. /\ stream_video = "quiet" /\ stream_video' = "stop" /\ UNCHANGED depth
        /\ UNCHANGED sessionRun /\ UNCHANGED videoRunning /\ UNCHANGED activeMode
    BY <1>5 DEF Streams!Quiet
  <2>3. /\ faults' \in 0..MaxFaults /\ UNCHANGED engine
        /\ projectorOn' \in BOOLEAN /\ projector' \in BOOLEAN
        /\ faults' = 0 => projectorOn' = FALSE /\ projector' = FALSE
    BY <2>1, ProjectorWritten
  <2> QED BY <1>1, <1>2, <2>2, <2>3, StreamsFields, StreamsInvFrom
<1>6. CASE Streams!StopAgain
  <2>1. PICK ok \in BOOLEAN : Streams!WriteEngine("off", ok)
    BY <1>6 DEF Streams!StopAgain, Streams!StopVideoCapture
  <2>2. /\ stream_video = "stop" /\ stream_video' = "close" /\ UNCHANGED depth
        /\ UNCHANGED sessionRun /\ UNCHANGED videoRunning /\ UNCHANGED activeMode
    BY <1>6 DEF Streams!StopAgain
  <2>3. /\ faults' \in 0..MaxFaults /\ UNCHANGED projectorOn /\ UNCHANGED projector
        /\ engine' \in {"off", "RGB", "IR"}
        /\ faults' = 0 => faults = 0 /\ engine' = "off"
    BY <2>1, EngineWritten
  <2> QED BY <1>1, <1>2, <2>2, <2>3, StreamsFields, StreamsInvFrom
<1>7. CASE Streams!CloseCamera
  <2>1. /\ stream_video = "close" /\ stream_video' = "closed" /\ UNCHANGED depth
        /\ UNCHANGED sessionRun /\ UNCHANGED videoRunning /\ UNCHANGED activeMode
        /\ UNCHANGED engine /\ projectorOn' = FALSE
    BY <1>7 DEF Streams!CloseCamera
  <2>2. /\ faults' \in 0..MaxFaults /\ projector' \in BOOLEAN
        /\ faults' = 0 => faults = 0 /\ projector' = FALSE
    <3>1. CASE projectorOn /\ projector' = FALSE /\ UNCHANGED faults
      BY <3>1, StreamsFields
    <3>2. CASE Streams!Fault /\ projector' \in BOOLEAN
      BY <3>2, StreamsFields DEF Streams!Fault
    <3>3. CASE ~projectorOn /\ UNCHANGED projector /\ UNCHANGED faults
      <4>1. faults = 0 => projector = FALSE
        BY <1>2, <2>1
      <4> QED BY <3>3, <4>1, StreamsFields
    <3> QED BY <1>7, <3>1, <3>2, <3>3 DEF Streams!CloseCamera
  <2> QED BY <1>1, <1>2, <2>1, <2>2, StreamsFields, StreamsInvFrom
<1> QED BY <1>3, <1>4, <1>5, <1>6, <1>7

\* A step of the depth thread: while it runs, Run is not at its end.
LEMMA DepthElsewhere ==
  ASSUME StreamsInv,
         UNCHANGED <<wants, run, changes, Streams!videoVars, engine>>,
         depth # "done", depth' \in DepthPlaces, level' \in BOOLEAN, depthIso' \in BOOLEAN,
         depthIso' => depth' \in {"arm", "poll", "set", "down", "off", "unregister"},
         faults' \in 0..MaxFaults,
         projectorOn' \in BOOLEAN, projector' \in BOOLEAN,
         faults' = 0 => projectorOn' = projector'
  PROVE  StreamsInv'
<1>1. /\ UNCHANGED wants /\ UNCHANGED run /\ UNCHANGED changes /\ UNCHANGED engine
      /\ UNCHANGED stream_video /\ UNCHANGED activeMode /\ UNCHANGED videoRunning
      /\ UNCHANGED sessionRun
  BY DEF Streams!videoVars
<1>2. stream_video \notin {"quiet", "stop", "close", "closed"}
  BY DEF StreamsInv
<1>3. /\ ~(stream_video' \in {"quiet", "stop", "close", "closed"})
      /\ ~(stream_video' \in {"stop", "close", "closed"})
      /\ ~(stream_video' \in {"close", "closed"})
  BY <1>1, <1>2
<1>4. /\ wants' \in {{}} \cup Demands /\ changes' \in 0..MaxChanges
      /\ run' \in BOOLEAN /\ sessionRun' \in BOOLEAN /\ videoRunning' \in BOOLEAN
      /\ activeMode' \in {"RGB", "IR"} /\ engine' \in {"off", "RGB", "IR"}
      /\ stream_video' \in VideoPlaces
  BY <1>1, StreamsFields
<1> QED BY <1>3, <1>4, StreamsInvFrom

\* The depth thread, step by step.
LEMMA DepthKeeps ==
  ASSUME StreamsInv, Streams!Depth \/ Streams!DepthStalls
  PROVE  StreamsInv'
<1>1. /\ depthIso => depth \in {"arm", "poll", "set", "down", "off", "unregister"}
      /\ faults = 0 => projectorOn = projector
  BY DEF StreamsInv
<1>2. Streams!NeedsProjector \in BOOLEAN
  BY DEF Streams!NeedsProjector
<1> USE DEF DepthPlaces, Streams!DepthGoes
<1>3. CASE Streams!DepthTop
  <2>1. /\ UNCHANGED <<wants, run, changes, Streams!videoVars, engine>>
        /\ UNCHANGED depthIso /\ UNCHANGED faults
        /\ UNCHANGED projectorOn /\ UNCHANGED projector
        /\ depth = "top" /\ depth' \in {"last", "session", "project"}
        /\ level' \in BOOLEAN
    BY <1>2, <1>3 DEF Streams!DepthTop, Streams!deviceVars
  <2> QED BY <1>1, <2>1, StreamsFields, DepthElsewhere
<1>4. CASE Streams!ArmDepth \/ Streams!PollDepth \/ Streams!ReadRestore
  <2>1. /\ UNCHANGED <<wants, run, changes, Streams!videoVars, engine>>
        /\ UNCHANGED depthIso /\ UNCHANGED faults
        /\ UNCHANGED projectorOn /\ UNCHANGED projector
        /\ depth \in {"arm", "poll", "down"} /\ depth' \in {"set", "down", "off"}
    BY <1>4 DEF Streams!ArmDepth, Streams!PollDepth, Streams!ReadRestore, Streams!deviceVars
  <2>2. level' \in BOOLEAN
    BY <1>2, <1>4, StreamsFields
       DEF Streams!ArmDepth, Streams!PollDepth, Streams!ReadRestore, Streams!SessionRunning
  <2> QED BY <1>1, <2>1, <2>2, StreamsFields, DepthElsewhere
<1>5. CASE Streams!DepthProjector \/ Streams!SetDepth \/ Streams!StopDepth \/ Streams!Relight
             \/ Streams!DepthEnds
  <2>1. PICK on \in BOOLEAN, ok \in BOOLEAN : Streams!SetProjector(on, ok)
    BY <1>5, StreamsFields
       DEF Streams!DepthProjector, Streams!SetDepth, Streams!StopDepth, Streams!Relight,
           Streams!DepthEnds
  <2>2. /\ faults' \in 0..MaxFaults /\ UNCHANGED engine
        /\ projectorOn' \in BOOLEAN /\ projector' \in BOOLEAN
        /\ faults' = 0 => projectorOn' = projector'
    BY <2>1, ProjectorWritten
  <2>3. /\ UNCHANGED <<wants, run, changes, Streams!videoVars>>
        /\ UNCHANGED depthIso /\ UNCHANGED level
        /\ \/ depth = "project" /\ depth' = "top"
           \/ depth = "set" /\ depth' \in {"poll", "down"}
           \/ depth = "off" /\ depth' = "unregister"
           \/ depth = "relight" /\ depth' = "top"
           \/ depth = "last" /\ depth' = "done"
    BY <1>5
       DEF Streams!DepthProjector, Streams!SetDepth, Streams!StopDepth, Streams!Relight,
           Streams!DepthEnds
  <2>4. depthIso' => depth' \in {"arm", "poll", "set", "down", "off", "unregister"}
    BY <1>1, <2>3
  <2> QED BY <2>2, <2>3, <2>4, StreamsFields, DepthElsewhere
<1>6. CASE Streams!OpenDepth
  <2>1. /\ UNCHANGED <<wants, run, changes, Streams!videoVars, engine>> /\ UNCHANGED level
        /\ depth = "session"
    BY <1>6 DEF Streams!OpenDepth
  <2>2. ~depthIso
    BY <1>1, <2>1
  <2>3. CASE /\ depth' = "arm" /\ projector' = FALSE /\ projectorOn' = FALSE /\ depthIso' = TRUE
             /\ UNCHANGED faults
    BY <2>1, <2>3, StreamsFields, DepthElsewhere
  <2>4. CASE /\ depth' = "top" /\ Streams!Fault /\ UNCHANGED depthIso
             /\ \/ UNCHANGED <<projector, projectorOn>>
                \/ projector' = FALSE /\ projectorOn' \in {projectorOn, FALSE}
    <3>1. faults' \in 0..MaxFaults /\ faults' # 0
      BY <2>4, StreamsFields DEF Streams!Fault
    <3>2. projector' \in BOOLEAN /\ projectorOn' \in BOOLEAN
      BY <2>4, StreamsFields
    <3> QED BY <2>1, <2>2, <2>4, <3>1, <3>2, StreamsFields, DepthElsewhere
  <2> QED BY <1>6, <2>3, <2>4 DEF Streams!OpenDepth
<1>7. CASE Streams!CloseDepth
  <2>1. /\ UNCHANGED <<wants, run, changes, Streams!videoVars, engine>> /\ UNCHANGED level
        /\ UNCHANGED faults /\ UNCHANGED projectorOn /\ UNCHANGED projector
        /\ depth = "unregister" /\ depth' \in {"relight", "top"} /\ depthIso' = FALSE
    BY <1>7 DEF Streams!CloseDepth, Streams!deviceVars
  <2> QED BY <1>1, <2>1, StreamsFields, DepthElsewhere
<1>8. CASE Streams!DepthStalls
  <2>1. /\ UNCHANGED <<wants, run, changes, Streams!videoVars, engine>> /\ UNCHANGED level
        /\ UNCHANGED depthIso /\ UNCHANGED projectorOn /\ UNCHANGED projector
        /\ depth = "poll" /\ depth' = "down"
    BY <1>8 DEF Streams!DepthStalls
  <2>2. faults' \in 0..MaxFaults /\ faults' # 0
    BY <1>8, StreamsFields DEF Streams!DepthStalls, Streams!Fault
  <2> QED BY <2>1, <2>2, StreamsFields, DepthElsewhere
<1> QED BY <1>3, <1>4, <1>5, <1>6, <1>7, <1>8 DEF Streams!Depth

\* The clients change their minds, and the node is stopped.
LEMMA StreamsAround ==
  ASSUME StreamsInv, Streams!ClientsChange \/ Streams!StopNode
  PROVE  StreamsInv'
<1>1. /\ wants' \in {{}} \cup Demands /\ changes' \in 0..MaxChanges /\ run' \in BOOLEAN
  <2>1. CASE Streams!ClientsChange
    <3>1. changes < MaxChanges /\ changes' = changes + 1 /\ wants' \in Demands /\ UNCHANGED run
      BY <2>1 DEF Streams!ClientsChange
    <3>2. changes \in 0..MaxChanges /\ MaxChanges \in Nat /\ run \in BOOLEAN
      BY StreamsFields
    <3>3. changes' \in 0..MaxChanges
      BY <3>1, <3>2
    <3> QED BY <3>1, <3>2, <3>3
  <2>2. CASE Streams!StopNode
    <3>1. run' = FALSE /\ UNCHANGED wants /\ UNCHANGED changes
      BY <2>2 DEF Streams!StopNode
    <3> QED BY <3>1, StreamsFields
  <2> QED BY <2>1, <2>2
<1>2. /\ UNCHANGED stream_video /\ UNCHANGED activeMode /\ UNCHANGED videoRunning
      /\ UNCHANGED sessionRun /\ UNCHANGED depth /\ UNCHANGED level /\ UNCHANGED depthIso
      /\ UNCHANGED projectorOn /\ UNCHANGED projector /\ UNCHANGED engine /\ UNCHANGED faults
  BY DEF Streams!ClientsChange, Streams!StopNode, Streams!videoVars, Streams!depthVars,
         Streams!deviceVars
<1>3. /\ stream_video \in {"quiet", "stop", "close", "closed"} => depth = "done"
      /\ depthIso => depth \in {"arm", "poll", "set", "down", "off", "unregister"}
      /\ faults = 0 => projectorOn = projector
      /\ faults = 0 /\ stream_video \in {"stop", "close", "closed"} => projector = FALSE
      /\ faults = 0 /\ stream_video \in {"close", "closed"} => engine = "off"
  BY DEF StreamsInv
<1>4. /\ stream_video' \in {"quiet", "stop", "close", "closed"} => depth' = "done"
      /\ depthIso' => depth' \in {"arm", "poll", "set", "down", "off", "unregister"}
      /\ faults' = 0 => projectorOn' = projector'
      /\ faults' = 0 /\ stream_video' \in {"stop", "close", "closed"} => projector' = FALSE
      /\ faults' = 0 /\ stream_video' \in {"close", "closed"} => engine' = "off"
  BY <1>2, <1>3
<1>5. /\ faults' \in 0..MaxFaults /\ sessionRun' \in BOOLEAN /\ videoRunning' \in BOOLEAN
      /\ level' \in BOOLEAN /\ depthIso' \in BOOLEAN
      /\ projectorOn' \in BOOLEAN /\ projector' \in BOOLEAN
      /\ stream_video' \in VideoPlaces /\ depth' \in DepthPlaces
      /\ activeMode' \in {"RGB", "IR"} /\ engine' \in {"off", "RGB", "IR"}
  BY <1>2, StreamsFields
<1> QED BY <1>1, <1>4, <1>5, StreamsInvFrom

\* The invariant of the two threads, kept by each step; a camera that is closed is
\* quiet.
LEMMA StreamsInductive ==
  /\ Streams!Init => StreamsInv
  /\ StreamsInv /\ [Streams!Next]_streamsVars => StreamsInv'
  /\ StreamsInv => Streams!ClosedIsQuiet
<1>1. Streams!Init => StreamsInv
  <2> SUFFICES ASSUME Streams!Init PROVE StreamsInv
    OBVIOUS
  <2>1. MaxChanges \in Nat /\ MaxFaults \in Nat
    BY BoundsAssumption
  <2>2. {run, sessionRun, videoRunning, level, depthIso, projectorOn, projector}
          \subseteq BOOLEAN
    BY DEF Streams!Init
  <2> QED BY <2>1, <2>2 DEF Streams!Init, StreamsInv, Streams!TypeOK
<1>2. ASSUME StreamsInv, Streams!Next PROVE StreamsInv'
  BY <1>2, VideoSessionKeeps, VideoEndKeeps, DepthKeeps, StreamsAround
     DEF Streams!Next, Streams!Video
<1>3. ASSUME StreamsInv, UNCHANGED streamsVars PROVE StreamsInv'
  BY <1>3 DEF StreamsInv, Streams!TypeOK, streamsVars
<1>4. StreamsInv => Streams!ClosedIsQuiet
  BY StreamsFields DEF StreamsInv, Streams!ClosedIsQuiet
<1> QED BY <1>1, <1>2, <1>3, <1>4

-----------------------------------------------------------------------------
(* The reads of an endpoint *)

\* The thread's flags say what the kernel has, and what a wait has passed is
\* collected, or will be after the abort.
IsoInv ==
  /\ Iso!TypeOK
  /\ buffer = "freed" => iso_pc = "closed"
  /\ iso_pc \in {"queue", "wait"} => iso_slot \in Slots
  /\ \A s \in Slots : kernel[s] # "no" => iso_pending[s]
  /\ iso_pc \in {"idle", "end", "closed"} => \A s \in Slots : kernel[s] = "no"
  /\ iso_pc = "wait" /\ ~needAbort =>
       \A s \in Slots : s < iso_slot => kernel[s] = "no"

IsoPlaces == {"idle", "queue", "run", "cancel", "wait", "abort", "end", "closed"}

\* The types, one by one.
LEMMA IsoFields ==
  ASSUME IsoInv
  PROVE  /\ buffer \in {"registered", "freed"}
         /\ kernel \in [Slots -> {"no", "reading", "signaled"}]
         /\ iso_pending \in [Slots -> BOOLEAN]
         /\ needAbort \in BOOLEAN /\ final \in BOOLEAN
         /\ iso_pc \in IsoPlaces
         /\ iso_slot - 1 \in {0} \cup Slots
<1>1. needAbort \in BOOLEAN /\ final \in BOOLEAN
  BY DEF IsoInv, Iso!TypeOK
<1> QED BY <1>1 DEF IsoInv, Iso!TypeOK, IsoPlaces

\* Slots are numbered from 1: the one after a slot that is not the last is a slot.
LEMMA SlotsInARow ==
  /\ Slots \subseteq Int /\ 1 \in Slots
  /\ \A s \in Slots : s + 1 - 1 \in Slots
  /\ \A s \in Slots : ~(\A t \in Slots : t <= s) => s + 1 \in Slots
BY SlotsAssumption

\* The invariant after a step, from its parts.
LEMMA IsoInvFrom ==
  ASSUME buffer' \in {"registered", "freed"},
         kernel' \in [Slots -> {"no", "reading", "signaled"}],
         iso_pending' \in [Slots -> BOOLEAN],
         needAbort' \in BOOLEAN, final' \in BOOLEAN, iso_pc' \in IsoPlaces,
         iso_slot' - 1 \in {0} \cup Slots,
         buffer' = "freed" => iso_pc' = "closed",
         iso_pc' \in {"queue", "wait"} => iso_slot' \in Slots,
         \A s \in Slots : kernel'[s] # "no" => iso_pending'[s],
         iso_pc' \in {"idle", "end", "closed"} => \A s \in Slots : kernel'[s] = "no",
         iso_pc' = "wait" /\ ~needAbort' =>
           \A s \in Slots : s < iso_slot' => kernel'[s] = "no"
  PROVE  IsoInv'
<1>1. {needAbort', final'} \subseteq BOOLEAN
  OBVIOUS
<1> QED BY <1>1 DEF IsoInv, Iso!TypeOK, IsoPlaces

\* A step of the thread that touches no read.
LEMMA IsoThreadKeeps ==
  ASSUME IsoInv, Iso!Start \/ Iso!Stop \/ Iso!StopIdle \/ Iso!Cancel \/ Iso!End \/ Iso!Reopen
  PROVE  IsoInv'
<1> USE DEF IsoPlaces, Iso!Goes
<1>1. UNCHANGED kernel /\ UNCHANGED iso_pending /\ iso_slot' = 1
  BY DEF Iso!Start, Iso!Stop, Iso!StopIdle, Iso!Cancel, Iso!End, Iso!Reopen
<1>2. /\ buffer' \in {"registered", "freed"} /\ iso_pc' \in IsoPlaces
      /\ buffer' = "freed" => iso_pc' = "closed"
      /\ iso_pc' \in {"idle", "end", "closed"} => iso_pc \in {"idle", "end", "closed"}
      /\ iso_pc' = "wait" => iso_slot' = 1
  BY IsoFields
     DEF IsoInv, Iso!Start, Iso!Stop, Iso!StopIdle, Iso!Cancel, Iso!End, Iso!Reopen
<1>3. needAbort' \in BOOLEAN /\ final' \in BOOLEAN
  <2>1. needAbort' = needAbort \/ needAbort' = FALSE
    BY DEF Iso!Start, Iso!Stop, Iso!StopIdle, Iso!Cancel, Iso!End, Iso!Reopen
  <2>2. final' = final \/ final' \in BOOLEAN
    BY DEF Iso!Start, Iso!Stop, Iso!StopIdle, Iso!Cancel, Iso!End, Iso!Reopen
  <2> QED BY <2>1, <2>2, IsoFields
<1>4. iso_pc' = "wait" /\ ~needAbort' => \A s \in Slots : s < iso_slot' => kernel'[s] = "no"
  BY <1>1, SlotsAssumption
<1>5. /\ \A s \in Slots : kernel'[s] # "no" => iso_pending'[s]
      /\ iso_pc' \in {"idle", "end", "closed"} => \A s \in Slots : kernel'[s] = "no"
  BY <1>1, <1>2 DEF IsoInv
<1>6. iso_slot' - 1 \in {0} \cup Slots /\ iso_slot' \in Slots
  BY <1>1, SlotsInARow
<1> QED BY <1>1, <1>2, <1>3, <1>4, <1>5, <1>6, IsoFields, IsoInvFrom

\* A read is queued, or comes back.
LEMMA IsoReadKeeps ==
  ASSUME IsoInv, Iso!QueueNext \/ \E s \in Slots : Iso!Resubmit(s) \/ Iso!Complete(s)
  PROVE  IsoInv'
<1> USE DEF IsoPlaces, Iso!Goes
<1>1. UNCHANGED buffer /\ UNCHANGED needAbort
  BY DEF Iso!QueueNext, Iso!Resubmit, Iso!Complete
<1>2. \A s \in Slots : kernel[s] # "no" => iso_pending[s]
  BY DEF IsoInv
<1>3. CASE Iso!QueueNext
  <2>1. iso_pc = "queue" /\ iso_slot \in Slots /\ buffer # "freed"
    BY <1>3, IsoFields DEF IsoInv, Iso!QueueNext
  <2>2. iso_pc' \in {"queue", "run", "cancel"} /\ final' \in BOOLEAN
    BY <1>3, IsoFields DEF Iso!QueueNext
  <2>3. iso_slot' - 1 \in {0} \cup Slots /\ (iso_pc' = "queue" => iso_slot' \in Slots)
    BY <1>3, <2>1, SlotsInARow DEF Iso!QueueNext, Iso!Last
  <2>4. /\ kernel' \in [Slots -> {"no", "reading", "signaled"}]
        /\ iso_pending' \in [Slots -> BOOLEAN]
        /\ \A s \in Slots : kernel'[s] # "no" => iso_pending'[s]
    BY <1>2, <1>3, <2>1, IsoFields DEF Iso!QueueNext, Iso!QueueRead, Iso!Set
  <2> QED BY <1>1, <2>1, <2>2, <2>3, <2>4, IsoFields, IsoInvFrom
<1>4. ASSUME NEW s \in Slots, Iso!Resubmit(s)
      PROVE  IsoInv'
  <2>1. iso_pc = "run" /\ iso_pc' \in {"run", "cancel"} /\ buffer # "freed"
    BY <1>4, IsoFields DEF IsoInv, Iso!Resubmit
  <2>2. final' \in BOOLEAN /\ iso_slot' - 1 \in {0} \cup Slots
    <3>1. (iso_slot' = iso_slot \/ iso_slot' = 1) /\ (final' = final \/ final' = TRUE)
      BY <1>4 DEF Iso!Resubmit
    <3>2. final' \in BOOLEAN
      BY <3>1, IsoFields
    <3>3. iso_slot' - 1 \in {0} \cup Slots
      BY <3>1, IsoFields
    <3> QED BY <3>2, <3>3
  <2>3. /\ kernel' \in [Slots -> {"no", "reading", "signaled"}]
        /\ iso_pending' \in [Slots -> BOOLEAN]
        /\ \A t \in Slots : kernel'[t] # "no" => iso_pending'[t]
    <3>1. CASE /\ kernel' = [kernel EXCEPT ![s] = "reading"]
               /\ iso_pending' = [iso_pending EXCEPT ![s] = TRUE]
      BY <1>2, <3>1, IsoFields
    <3>2. CASE /\ kernel' = [kernel EXCEPT ![s] = "no"]
               /\ iso_pending' = [iso_pending EXCEPT ![s] = FALSE]
      BY <1>2, <3>2, IsoFields
    <3> QED BY <1>4, <3>1, <3>2 DEF Iso!Resubmit, Iso!QueueRead, Iso!Set
  <2> QED BY <1>1, <2>1, <2>2, <2>3, IsoFields, IsoInvFrom
<1>5. ASSUME NEW s \in Slots, Iso!Complete(s)
      PROVE  IsoInv'
  <2>1. /\ UNCHANGED iso_pending /\ UNCHANGED iso_pc /\ UNCHANGED iso_slot /\ UNCHANGED final
        /\ kernel[s] = "reading" /\ kernel' = [kernel EXCEPT ![s] = "signaled"]
    BY <1>5 DEF Iso!Complete, Iso!Set
  <2>2. /\ kernel' \in [Slots -> {"no", "reading", "signaled"}]
        /\ \A t \in Slots : kernel'[t] = "no" <=> kernel[t] = "no"
    BY <2>1, IsoFields
  <2>3. /\ buffer = "freed" => iso_pc = "closed"
        /\ iso_pc \in {"queue", "wait"} => iso_slot \in Slots
        /\ iso_pc \in {"idle", "end", "closed"} => \A t \in Slots : kernel[t] = "no"
        /\ iso_pc = "wait" /\ ~needAbort => \A t \in Slots : t < iso_slot => kernel[t] = "no"
    BY DEF IsoInv
  <2>4. /\ \A t \in Slots : kernel'[t] # "no" => iso_pending'[t]
        /\ iso_pc' \in {"idle", "end", "closed"} => \A t \in Slots : kernel'[t] = "no"
        /\ iso_pc' = "wait" /\ ~needAbort' =>
             \A t \in Slots : t < iso_slot' => kernel'[t] = "no"
    BY <1>1, <1>2, <2>1, <2>2, <2>3
  <2> QED BY <1>1, <2>1, <2>2, <2>3, <2>4, IsoFields, IsoInvFrom
<1> QED BY <1>3, <1>4, <1>5

\* The reads are collected: one after the other, or by the abort.
LEMMA IsoCollectKeeps ==
  ASSUME IsoInv, Iso!WaitNext \/ Iso!Abort
  PROVE  IsoInv'
<1> USE DEF IsoPlaces, Iso!Goes
<1>1. UNCHANGED buffer /\ UNCHANGED final /\ buffer # "freed"
  BY IsoFields DEF IsoInv, Iso!WaitNext, Iso!Abort
<1>2. \A s \in Slots : kernel[s] # "no" => iso_pending[s]
  BY DEF IsoInv
<1>3. CASE Iso!Abort
  <2>1. /\ iso_pc' = "end" /\ iso_slot' = 1 /\ UNCHANGED needAbort
        /\ kernel' = [s \in Slots |-> IF iso_pending[s] THEN "no" ELSE kernel[s]]
        /\ iso_pending' = [s \in Slots |-> FALSE]
    BY <1>3 DEF Iso!Abort
  <2>2. \A s \in Slots : kernel'[s] = "no"
    BY <1>2, <2>1, IsoFields
  <2>3. kernel' \in [Slots -> {"no", "reading", "signaled"}]
    BY <2>1, IsoFields
  <2> QED BY <1>1, <2>1, <2>2, <2>3, IsoFields, IsoInvFrom
<1>4. CASE Iso!WaitNext
  <2>1. iso_pc = "wait" /\ iso_slot \in Slots
    BY <1>4 DEF IsoInv, Iso!WaitNext
  <2>2. /\ ~needAbort => \A s \in Slots : s < iso_slot => kernel[s] = "no"
    BY <2>1 DEF IsoInv
  <2>3. /\ needAbort' \in BOOLEAN
        /\ kernel' \in [Slots -> {"no", "reading", "signaled"}]
        /\ iso_pending' \in [Slots -> BOOLEAN]
        /\ \A s \in Slots : kernel'[s] # "no" => iso_pending'[s]
        /\ ~needAbort' => \A s \in Slots : s <= iso_slot => kernel'[s] = "no"
    <3>1. CASE Iso!Collected(iso_slot) /\ UNCHANGED needAbort
      <4>1. /\ kernel' = [kernel EXCEPT ![iso_slot] = "no"]
            /\ iso_pending' = [iso_pending EXCEPT ![iso_slot] = FALSE]
            /\ UNCHANGED needAbort
        BY <3>1 DEF Iso!Collected, Iso!Set
      <4>2. /\ kernel' \in [Slots -> {"no", "reading", "signaled"}]
            /\ iso_pending' \in [Slots -> BOOLEAN]
            /\ \A s \in Slots : kernel'[s] # "no" => iso_pending'[s]
        BY <1>2, <2>1, <4>1, IsoFields
      <4>3. ~needAbort' => \A s \in Slots : s <= iso_slot => kernel'[s] = "no"
        BY <2>1, <2>2, <4>1, IsoFields, SlotsInARow
      <4> QED BY <4>1, <4>2, <4>3, IsoFields
    <3>2. CASE needAbort' = TRUE /\ UNCHANGED <<kernel, iso_pending>>
      BY <1>2, <3>2, IsoFields
    <3> QED BY <1>4, <3>1, <3>2 DEF Iso!WaitNext
  <2>4. /\ iso_slot' = iso_slot + 1
        /\ iso_pc' = IF ~Iso!Last THEN "wait" ELSE IF needAbort' THEN "abort" ELSE "end"
    BY <1>4 DEF Iso!WaitNext
  <2>5. iso_slot' - 1 \in {0} \cup Slots /\ (iso_pc' = "wait" => iso_slot' \in Slots)
    BY <2>1, <2>4, SlotsInARow DEF Iso!Last
  <2>6. iso_pc' = "end" => \A s \in Slots : kernel'[s] = "no"
    BY <2>3, <2>4 DEF Iso!Last
  <2>7. iso_pc' = "wait" /\ ~needAbort' => \A s \in Slots : s < iso_slot' => kernel'[s] = "no"
    BY <2>1, <2>3, <2>4, SlotsInARow
  <2> QED BY <1>1, <2>3, <2>4, <2>5, <2>6, <2>7, IsoFields, IsoInvFrom
<1> QED BY <1>3, <1>4

\* The invariant of the reads, kept by each step: a buffer that is freed, or an
\* engine that is stopped, has no read in flight.
LEMMA IsoInductive ==
  /\ Iso!Init => IsoInv
  /\ IsoInv /\ [Iso!Next]_isoVars => IsoInv'
  /\ IsoInv => Iso!NoReadOutlivesItsBuffer
<1>1. Iso!Init => IsoInv
  <2> SUFFICES ASSUME Iso!Init PROVE IsoInv
    OBVIOUS
  <2>1. {needAbort, final} \subseteq BOOLEAN
    BY DEF Iso!Init
  <2> QED BY <2>1, SlotsInARow DEF Iso!Init, IsoInv, Iso!TypeOK
<1>2. ASSUME IsoInv, Iso!Next PROVE IsoInv'
  BY <1>2, IsoThreadKeeps, IsoReadKeeps, IsoCollectKeeps DEF Iso!Next
<1>3. ASSUME IsoInv, UNCHANGED isoVars PROVE IsoInv'
  BY <1>3 DEF IsoInv, Iso!TypeOK, isoVars
<1>4. IsoInv => Iso!NoReadOutlivesItsBuffer
  BY DEF IsoInv, Iso!NoReadOutlivesItsBuffer
<1> QED BY <1>1, <1>2, <1>3, <1>4

-----------------------------------------------------------------------------
(* The shared frames *)

Modes == {"RGB", "HQ"}
WriterPlaces == {"idle", "enter", "choose", "first", "second", "activate", "leave"}
SlotStates == [size : Modes, first : 0..MaxFrames, second : 0..MaxFrames]
ReaderStates == [pc : {"before", "header", "first", "second", "after"}, before : Nat, at : {0, 1},
                 size : Modes, first : 0..MaxFrames, second : 0..MaxFrames]

SharedTypes ==
  /\ sequence \in Nat /\ frames \in 0..MaxFrames /\ switches \in 0..MaxSwitches
  /\ header \in [size : Modes, active : {0, 1}, online : BOOLEAN]
  /\ slot \in [{0, 1} -> SlotStates]
  /\ sizes \in [0..MaxFrames -> Modes] /\ mode \in Modes
  /\ pending \in [Modes -> 0..MaxFrames] /\ work \in [Modes -> 0..MaxFrames]
  /\ next \in [Modes -> {0, 1}]
  /\ writer_pc \in [Modes \cup {"video"} -> WriterPlaces]
  /\ writer_pc["video"] \in {"idle", "leave"}
  /\ reader \in ReaderStates /\ accepted \in SlotStates
  /\ met \subseteq 0..MaxFrames /\ late \in BOOLEAN

\* What a worker still adds to the sequence number.
Owed(w) == (IF pending[w] # 0 THEN 2 ELSE 0)
           + (CASE writer_pc[w] = "idle" -> 0 [] writer_pc[w] = "enter" -> 2 [] OTHER -> 1)

Counted ==
  /\ sequence >= 2
  /\ writer_pc["video"] = "leave" => switches < MaxSwitches
  /\ (sequence + Owed("RGB")) + Owed("HQ")
       <= (2 + 2 * (frames + switches)) + (IF writer_pc["video"] = "leave" THEN 1 ELSE 0)

\* The types and the count, which hold however many writers there are at a time.
SharedBooks == SharedTypes /\ Counted

\* The types, one by one.
LEMMA SharedFields ==
  ASSUME SharedBooks
  PROVE  /\ sequence \in Nat /\ frames \in 0..MaxFrames /\ switches \in 0..MaxSwitches
         /\ header \in [size : Modes, active : {0, 1}, online : BOOLEAN]
         /\ header.active \in {0, 1} /\ slot \in [{0, 1} -> SlotStates]
         /\ sizes \in [0..MaxFrames -> Modes] /\ mode \in Modes
         /\ pending \in [Modes -> 0..MaxFrames] /\ work \in [Modes -> 0..MaxFrames]
         /\ next \in [Modes -> {0, 1}]
         /\ writer_pc \in [Modes \cup {"video"} -> WriterPlaces]
         /\ writer_pc["video"] \in {"idle", "leave"}
         /\ reader \in ReaderStates /\ accepted \in SlotStates
         /\ met \subseteq 0..MaxFrames /\ late \in BOOLEAN
         /\ MaxFrames \in Nat /\ MaxSwitches \in Nat
<1>1. MaxFrames \in Nat /\ MaxSwitches \in Nat
  BY BoundsAssumption
<1> QED BY <1>1 DEF SharedBooks, SharedTypes

\* ... and the plain ones, which arithmetic needs.
SharedPlain ==
  /\ sequence \in Nat /\ frames \in Nat /\ switches \in Nat
  /\ frames <= MaxFrames /\ switches <= MaxSwitches
  /\ MaxFrames \in Nat /\ MaxSwitches \in Nat
  /\ mode \in Modes /\ header.active \in {0, 1} /\ writer_pc["video"] \in {"idle", "leave"}

LEMMA SharedNumbers ==
  ASSUME SharedBooks
  PROVE  SharedPlain
BY SharedFields DEF SharedPlain

\* A step of one worker that adds to the number no more than it owes less.
LEMMA WorkerCounted ==
  ASSUME SharedBooks, NEW w \in Modes, UNCHANGED frames, UNCHANGED switches,
         sequence' \in Nat, sequence' >= sequence,
         writer_pc'["video"] = writer_pc["video"],
         \A u \in Modes : u # w => pending'[u] = pending[u] /\ writer_pc'[u] = writer_pc[u],
         sequence' + Owed(w)' <= sequence + Owed(w)
  PROVE  Counted'
<1>0. SharedPlain
  BY SharedNumbers
<1>1. PICK v \in Modes : v # w /\ \A u \in Modes : u = v \/ u = w
  BY DEF Modes
<1>2. Owed(v)' = Owed(v)
  BY <1>1 DEF Owed
<1>3. Owed(w) \in Int /\ Owed(v) \in Int /\ Owed(w)' \in Int
  BY DEF Owed
<1>4. /\ Owed("RGB") + Owed("HQ") = Owed(w) + Owed(v)
      /\ Owed("RGB")' + Owed("HQ")' = Owed(w)' + Owed(v)
      /\ {Owed("RGB"), Owed("HQ"), Owed("RGB")', Owed("HQ")'} \subseteq Int
  BY <1>1, <1>2, <1>3 DEF Modes
<1>5. PICK b \in Int : b = (2 + 2 * (frames + switches)) +
                           (IF writer_pc["video"] = "leave" THEN 1 ELSE 0)
  BY <1>0 DEF SharedPlain
<1>6. (sequence + Owed("RGB")) + Owed("HQ") <= b
  BY <1>5 DEF SharedBooks, Counted
<1>7. (sequence' + Owed("RGB")') + Owed("HQ")' <= b
  <2>1. PICK x \in Int, y \in Int, x1 \in Int, y1 \in Int, p \in Int, p1 \in Int, q \in Int :
          /\ x = Owed("RGB") /\ y = Owed("HQ") /\ x1 = Owed("RGB")' /\ y1 = Owed("HQ")'
          /\ p = Owed(w) /\ p1 = Owed(w)' /\ q = Owed(v)
    BY <1>3, <1>4
  <2>2. x + y = p + q /\ x1 + y1 = p1 + q /\ sequence' + p1 <= sequence + p
        /\ (sequence + x) + y <= b /\ sequence \in Nat
    BY <1>4, <1>6, <2>1, SharedFields
  <2>3. (sequence' + x1) + y1 <= b
    BY <2>2
  <2> QED BY <2>1, <2>3
<1>8. sequence' >= 2 /\ (writer_pc'["video"] = "leave" => switches' < MaxSwitches)
  BY SharedFields DEF SharedBooks, Counted
<1> QED BY <1>5, <1>7, <1>8 DEF Counted

\* What a copy makes of a slot.
LEMMA SlotWritten ==
  ASSUME slot \in [{0, 1} -> SlotStates], NEW n \in {0, 1}, NEW v \in 0..MaxFrames, NEW w \in Modes,
         \/ slot' = [slot EXCEPT ![n].first = v]
         \/ slot' = [slot EXCEPT ![n].second = v, ![n].size = w]
  PROVE  slot' \in [{0, 1} -> SlotStates]
<1>1. CASE slot' = [slot EXCEPT ![n].first = v]
  BY <1>1 DEF SlotStates
<1>2. CASE slot' = [slot EXCEPT ![n].second = v, ![n].size = w]
  <2>1. \A s \in {0, 1} : slot'[s] \in SlotStates
    BY <1>2 DEF SlotStates
  <2>2. slot' = [s \in {0, 1} |-> slot'[s]]
    BY <1>2
  <2> QED BY <2>1, <2>2
<1> QED BY <1>1, <1>2

\* Every step of a worker keeps the types and the count.
LEMMA WorkerTyped ==
  ASSUME SharedBooks, NEW w \in Modes, Frames!Worker(w)
  PROVE  SharedBooks'
<1>0. SharedPlain
  BY SharedNumbers
<1>1. /\ UNCHANGED frames /\ UNCHANGED sizes /\ UNCHANGED mode /\ UNCHANGED switches
      /\ UNCHANGED reader /\ UNCHANGED accepted /\ UNCHANGED late
  BY DEF Frames!Worker, Frames!Take, Frames!Enter, Frames!Choose, Frames!CopyFirst, Frames!CopySecond,
         Frames!Activate, Frames!Leave, Frames!Step, Frames!videoVars, Frames!readerVars
<1>2. w # "video"
  BY DEF Modes
<1>3. PICK to \in WriterPlaces :
        /\ writer_pc' = [writer_pc EXCEPT ![w] = to]
        /\ pending' \in [Modes -> 0..MaxFrames] /\ work' \in [Modes -> 0..MaxFrames]
        /\ \A u \in Modes : u # w => pending'[u] = pending[u]
        /\ sequence' \in {sequence, sequence + 1}
        /\ \/ /\ writer_pc[w] = "idle" /\ to = "enter" /\ pending[w] # 0 /\ pending'[w] = 0
              /\ UNCHANGED sequence
           \/ /\ writer_pc[w] = "enter" /\ to = "choose" /\ pending'[w] = pending[w]
              /\ sequence' = sequence + 1
           \/ /\ writer_pc[w] \in {"choose", "first", "second", "activate"}
              /\ to \in {"first", "second", "activate", "leave"} /\ pending'[w] = pending[w]
              /\ UNCHANGED sequence
           \/ /\ writer_pc[w] = "leave" /\ to = "idle" /\ pending'[w] = pending[w]
              /\ sequence' = sequence + 1
  <2>1. CASE Frames!Take(w)
    <3>1. /\ writer_pc[w] = "idle" /\ writer_pc' = [writer_pc EXCEPT ![w] = "enter"]
          /\ pending[w] # 0 /\ work' = [work EXCEPT ![w] = pending[w]]
          /\ pending' = [pending EXCEPT ![w] = 0] /\ UNCHANGED sequence
      BY <2>1 DEF Frames!Take, Frames!Step, Frames!sharedVars
    <3>2. /\ pending' \in [Modes -> 0..MaxFrames] /\ work' \in [Modes -> 0..MaxFrames]
          /\ pending'[w] = 0 /\ \A u \in Modes : u # w => pending'[u] = pending[u]
      <4>1. /\ pending \in [Modes -> 0..MaxFrames] /\ work \in [Modes -> 0..MaxFrames]
        BY SharedFields
      <4>2. 0 \in 0..MaxFrames
        BY <1>0 DEF SharedPlain
      <4> QED BY <3>1, <4>1, <4>2
    <3> QED BY <3>1, <3>2 DEF WriterPlaces
  <2>2. CASE Frames!Enter(w)
    BY <2>2, SharedFields DEF Frames!Enter, Frames!Step, Frames!workerVars, WriterPlaces
  <2>7. CASE Frames!Choose(w)
    BY <2>7, SharedFields DEF Frames!Choose, Frames!Step, Frames!sharedVars, WriterPlaces
  <2>3. CASE Frames!CopyFirst(w)
    BY <2>3, SharedFields DEF Frames!CopyFirst, Frames!Step, Frames!workerVars, WriterPlaces
  <2>4. CASE Frames!CopySecond(w)
    BY <2>4, SharedFields DEF Frames!CopySecond, Frames!Step, Frames!workerVars, WriterPlaces
  <2>5. CASE Frames!Activate(w)
    BY <2>5, SharedFields DEF Frames!Activate, Frames!Step, Frames!workerVars, WriterPlaces
  <2>6. CASE Frames!Leave(w)
    <3>1. /\ writer_pc[w] = "leave" /\ writer_pc' = [writer_pc EXCEPT ![w] = "idle"]
          /\ work' = [work EXCEPT ![w] = 0] /\ UNCHANGED pending /\ sequence' = sequence + 1
      BY <2>6 DEF Frames!Leave, Frames!Step
    <3>2. pending' \in [Modes -> 0..MaxFrames] /\ work' \in [Modes -> 0..MaxFrames]
      <4>1. /\ pending \in [Modes -> 0..MaxFrames] /\ work \in [Modes -> 0..MaxFrames]
        BY SharedFields
      <4>2. 0 \in 0..MaxFrames
        BY <1>0 DEF SharedPlain
      <4> QED BY <3>1, <4>1, <4>2
    <3> QED BY <3>1, <3>2 DEF WriterPlaces
  <2> QED BY <2>1, <2>2, <2>3, <2>4, <2>5, <2>6, <2>7 DEF Frames!Worker
<1>4. /\ writer_pc' \in [Modes \cup {"video"} -> WriterPlaces] /\ writer_pc'[w] = to
      /\ writer_pc'["video"] = writer_pc["video"]
      /\ \A u \in Modes : u # w => writer_pc'[u] = writer_pc[u]
  BY <1>2, <1>3, SharedFields
<1>5. Counted'
  <2>1. sequence' \in Nat /\ sequence' >= sequence
    BY <1>3, <1>0 DEF SharedPlain
  <2>2. sequence' + Owed(w)' <= sequence + Owed(w)
    BY <1>3, <1>4, <1>0 DEF SharedPlain, Owed
  <2> QED BY <1>1, <1>3, <1>4, <2>1, <2>2, WorkerCounted
<1>6. next' \in [Modes -> {0, 1}]
  <2>1. next' = next \/ next' = [next EXCEPT ![w] = 1 - header.active]
    BY DEF Frames!Worker, Frames!Take, Frames!Enter, Frames!Choose, Frames!CopyFirst,
           Frames!CopySecond, Frames!Activate, Frames!Leave, Frames!workerVars
  <2>2. next \in [Modes -> {0, 1}]
    BY SharedFields
  <2>3. 1 - header.active \in {0, 1}
    BY <1>0 DEF SharedPlain
  <2> QED BY <2>1, <2>2, <2>3
<1>7. slot' \in [{0, 1} -> SlotStates]
  <2>1. \/ slot' = slot
        \/ slot' = [slot EXCEPT ![next[w]].first = work[w]]
        \/ slot' = [slot EXCEPT ![next[w]].second = work[w], ![next[w]].size = w]
    BY DEF Frames!Worker, Frames!Take, Frames!Enter, Frames!Choose, Frames!CopyFirst,
           Frames!CopySecond, Frames!Activate, Frames!Leave, Frames!sharedVars
  <2>2. next[w] \in {0, 1} /\ work[w] \in 0..MaxFrames /\ slot \in [{0, 1} -> SlotStates]
    BY SharedFields
  <2> QED BY <2>1, <2>2, SlotWritten
<1>8. header' \in [size : Modes, active : {0, 1}, online : BOOLEAN]
  <2>1. \/ header' = header
        \/ header' = [header EXCEPT !.size = w]
        \/ header' = [header EXCEPT !.active = next[w], !.online = TRUE]
    BY DEF Frames!Worker, Frames!Take, Frames!Enter, Frames!Choose, Frames!CopyFirst,
           Frames!CopySecond, Frames!Activate, Frames!Leave, Frames!sharedVars
  <2>2. header \in [size : Modes, active : {0, 1}, online : BOOLEAN] /\ next[w] \in {0, 1}
    BY SharedFields
  <2> QED BY <2>1, <2>2
<1>9. sequence' \in Nat /\ writer_pc'["video"] \in {"idle", "leave"}
  BY <1>3, <1>4, <1>0 DEF SharedPlain
<1>10. met' \subseteq 0..MaxFrames
  <2>1. CASE Frames!Enter(w)
    <3>1. \A u \in Modes : work[u] \in 0..MaxFrames
      BY SharedFields
    <3>2. {w} \cup Frames!OthersInside(w) \subseteq Modes
      BY DEF Frames!OthersInside, Frames!Modes, Modes
    <3>3. met' \subseteq met \cup {work[u] : u \in Modes}
      BY <2>1, <3>2 DEF Frames!Enter
    <3>4. met \subseteq 0..MaxFrames
      BY SharedFields
    <3> QED BY <3>1, <3>3, <3>4
  <2>2. CASE ~Frames!Enter(w)
    <3>1. UNCHANGED met
      BY <2>2 DEF Frames!Worker, Frames!Take, Frames!Choose, Frames!CopyFirst,
                  Frames!CopySecond, Frames!Activate, Frames!Leave
    <3> QED BY <3>1, SharedFields
  <2> QED BY <2>1, <2>2
<1> QED BY <1>1, <1>3, <1>4, <1>5, <1>6, <1>7, <1>8, <1>9, <1>10, SharedFields
        DEF SharedBooks, SharedTypes

\* The video thread submits a frame, which its worker owes two numbers for.
LEMMA SubmitTyped ==
  ASSUME SharedBooks, Frames!Submit
  PROVE  SharedBooks'
<1>0. SharedPlain
  BY SharedNumbers
<1>1. /\ UNCHANGED mode /\ UNCHANGED switches /\ UNCHANGED work /\ UNCHANGED next
      /\ UNCHANGED sequence /\ UNCHANGED header /\ UNCHANGED slot /\ UNCHANGED reader
      /\ UNCHANGED accepted /\ UNCHANGED writer_pc /\ UNCHANGED met /\ late' \in BOOLEAN
      /\ frames < MaxFrames /\ frames' = frames + 1
      /\ sizes' = [sizes EXCEPT ![frames + 1] = mode]
      /\ pending' = [pending EXCEPT ![mode] = frames + 1]
  BY DEF Frames!Submit, Frames!sharedVars, Frames!readerVars
<1>2. /\ frames + 1 \in 0..MaxFrames /\ sizes' \in [0..MaxFrames -> Modes]
      /\ pending' \in [Modes -> 0..MaxFrames]
      /\ \A w \in Modes : w # mode => pending'[w] = pending[w]
  <2>1. frames + 1 \in 0..MaxFrames
    BY <1>1, <1>0 DEF SharedPlain
  <2>2. sizes \in [0..MaxFrames -> Modes] /\ pending \in [Modes -> 0..MaxFrames]
        /\ mode \in Modes
    BY SharedFields
  <2> QED BY <1>1, <2>1, <2>2
<1>3. Counted'
  <2>1. Owed("RGB") \in Int /\ Owed("HQ") \in Int
        /\ Owed("RGB")' \in Int /\ Owed("HQ")' \in Int
    BY DEF Owed
  <2>2. \A w \in Modes : Owed(w)' <= Owed(w) + (IF w = mode THEN 2 ELSE 0)
    <3> TAKE w \in Modes
    <3>1. CASE w = mode
      BY <1>1, <1>0, <3>1 DEF SharedPlain, Owed
    <3>2. CASE w # mode
      BY <1>1, <1>2, <3>2 DEF Owed
    <3> QED BY <3>1, <3>2
  <2>3. Owed("RGB")' + Owed("HQ")' <= (Owed("RGB") + Owed("HQ")) + 2
    <3>1. mode \in {"RGB", "HQ"}
      BY <1>0 DEF SharedPlain, Modes
    <3>2. /\ Owed("RGB")' <= Owed("RGB") + (IF "RGB" = mode THEN 2 ELSE 0)
          /\ Owed("HQ")' <= Owed("HQ") + (IF "HQ" = mode THEN 2 ELSE 0)
      BY <2>2 DEF Modes
    <3> QED BY <2>1, <3>1, <3>2
  <2>4. PICK x, y, x1, y1 :
          x = Owed("RGB") /\ y = Owed("HQ") /\ x1 = Owed("RGB")' /\ y1 = Owed("HQ")'
    OBVIOUS
  <2>5. PICK z \in {0, 1} : z = IF writer_pc["video"] = "leave" THEN 1 ELSE 0
    OBVIOUS
  <2>6. (sequence + x) + y <= (2 + 2 * (frames + switches)) + z
    BY <2>4, <2>5 DEF SharedBooks, Counted
  <2>7. (sequence + x1) + y1 <= (2 + 2 * ((frames + 1) + switches)) + z
    BY <1>0, <2>1, <2>3, <2>4, <2>6 DEF SharedPlain
  <2>8. sequence >= 2 /\ (writer_pc["video"] = "leave" => switches < MaxSwitches)
    BY DEF SharedBooks, Counted
  <2> QED BY <1>1, <2>4, <2>5, <2>7, <2>8 DEF Counted
<1> QED BY <1>1, <1>2, <1>3, SharedFields DEF SharedBooks, SharedTypes

\* It takes the camera off line, for two numbers more.
LEMMA OfflineTyped ==
  ASSUME SharedBooks, Frames!EnterOffline \/ Frames!LeaveOffline
  PROVE  SharedBooks'
<1>0. SharedPlain
  BY SharedNumbers
<1>1. /\ UNCHANGED frames /\ UNCHANGED sizes /\ UNCHANGED pending /\ UNCHANGED work
      /\ UNCHANGED next /\ UNCHANGED slot /\ UNCHANGED reader /\ UNCHANGED accepted
      /\ UNCHANGED met /\ UNCHANGED late
      /\ sequence' = sequence + 1
  BY DEF Frames!EnterOffline, Frames!LeaveOffline, Frames!videoVars, Frames!workerVars,
         Frames!readerVars
<1>2. header' \in [size : Modes, active : {0, 1}, online : BOOLEAN]
  BY SharedFields DEF Frames!EnterOffline, Frames!LeaveOffline
<1>3. /\ writer_pc' \in [Modes \cup {"video"} -> WriterPlaces]
      /\ \A w \in Modes : writer_pc'[w] = writer_pc[w]
      /\ \/ /\ writer_pc["video"] = "idle" /\ writer_pc'["video"] = "leave"
            /\ switches < MaxSwitches /\ switches' = switches /\ UNCHANGED mode
         \/ /\ writer_pc["video"] = "leave" /\ writer_pc'["video"] = "idle"
            /\ switches' = switches + 1 /\ mode' \in Modes
  BY SharedFields DEF Frames!EnterOffline, Frames!LeaveOffline, Modes, WriterPlaces,
                      Frames!videoVars, Frames!Modes
<1>4. sequence' \in Nat /\ switches' \in 0..MaxSwitches /\ mode' \in Modes
      /\ writer_pc'["video"] \in {"idle", "leave"}
  <2>1. writer_pc["video"] = "leave" => switches < MaxSwitches
    BY DEF SharedBooks, Counted
  <2>2. sequence' \in Nat
    BY <1>1, <1>0 DEF SharedPlain
  <2>3. switches' \in 0..MaxSwitches
    BY <1>3, <2>1, <1>0 DEF SharedPlain
  <2>4. mode' \in Modes
    BY <1>3, SharedFields
  <2> QED BY <1>3, <2>2, <2>3, <2>4
<1>5. Counted'
  <2>1. Owed("RGB")' = Owed("RGB") /\ Owed("HQ")' = Owed("HQ")
    BY <1>1, <1>3 DEF Owed, Modes
  <2>2. PICK x \in Int, y \in Int : x = Owed("RGB") /\ y = Owed("HQ")
    BY DEF Owed
  <2>3. (sequence + x) + y <= (2 + 2 * (frames + switches)) +
                              (IF writer_pc["video"] = "leave" THEN 1 ELSE 0)
    BY <2>2 DEF SharedBooks, Counted
  <2>4. (sequence' + x) + y <= (2 + 2 * (frames + switches')) +
                               (IF writer_pc'["video"] = "leave" THEN 1 ELSE 0)
    BY <1>1, <1>3, <1>0, <2>3 DEF SharedPlain
  <2>5. sequence' >= 2 /\ (writer_pc'["video"] = "leave" => switches' < MaxSwitches)
    BY <1>1, <1>3, <1>0 DEF SharedPlain, SharedBooks, Counted
  <2> QED BY <1>1, <2>1, <2>2, <2>4, <2>5 DEF Counted
<1> QED BY <1>1, <1>2, <1>3, <1>4, <1>5, SharedFields DEF SharedBooks, SharedTypes

\* A reader changes what it has read.
LEMMA ReaderTyped ==
  ASSUME SharedBooks, Frames!Reader
  PROVE  SharedBooks'
<1>1. /\ UNCHANGED frames /\ UNCHANGED sizes /\ UNCHANGED mode /\ UNCHANGED switches
      /\ UNCHANGED pending /\ UNCHANGED work /\ UNCHANGED next /\ UNCHANGED sequence
      /\ UNCHANGED header /\ UNCHANGED slot /\ UNCHANGED writer_pc
      /\ UNCHANGED met /\ UNCHANGED late
  BY DEF Frames!Reader, Frames!ReadBefore, Frames!ReadHeader, Frames!ReadFirst,
         Frames!ReadSecond, Frames!ReadAfter, Frames!Reads, Frames!videoVars, Frames!workerVars,
         Frames!sharedVars
<1>2. /\ header.active \in {0, 1} /\ header.size \in Modes /\ sequence \in Nat
      /\ reader \in ReaderStates /\ accepted \in SlotStates
      /\ reader.at \in {0, 1} /\ reader.size \in Modes /\ reader.first \in 0..MaxFrames
      /\ reader.second \in 0..MaxFrames /\ slot[reader.at].first \in 0..MaxFrames
      /\ slot[reader.at].second \in 0..MaxFrames
  BY SharedFields DEF ReaderStates, SlotStates
<1>3. reader' \in ReaderStates
  <2> DEFINE c == IF sequence % 2 = 1 THEN "before" ELSE "header"
             d == IF slot[header.active].size = header.size THEN "first" ELSE "before"
  <2>1. c \in {"before", "header"} /\ d \in {"before", "first"}
    OBVIOUS
  <2>2. \/ reader' = [reader EXCEPT !.before = sequence, !.pc = c]
        \/ reader' = [reader EXCEPT !.at = header.active, !.size = header.size, !.pc = d]
        \/ reader' = [reader EXCEPT !.first = slot[reader.at].first, !.pc = "second"]
        \/ reader' = [reader EXCEPT !.second = slot[reader.at].second, !.pc = "after"]
        \/ reader' = [reader EXCEPT !.pc = "before"]
    BY DEF Frames!Reader, Frames!ReadBefore, Frames!ReadHeader, Frames!ReadFirst,
           Frames!ReadSecond, Frames!ReadAfter, Frames!Reads
  <2> HIDE DEF c, d
  <2> QED BY <1>2, <2>1, <2>2 DEF ReaderStates
<1>4. accepted' \in SlotStates
  <2>1. \/ accepted' = accepted
        \/ accepted' = [size |-> reader.size, first |-> reader.first, second |-> reader.second]
    BY DEF Frames!Reader, Frames!ReadBefore, Frames!ReadHeader, Frames!ReadFirst,
           Frames!ReadSecond, Frames!ReadAfter, Frames!Reads
  <2> QED BY <1>2, <2>1 DEF SlotStates
<1>5. Counted'
  BY <1>1 DEF SharedBooks, Counted, Owed
<1> QED BY <1>1, <1>3, <1>4, <1>5, SharedFields DEF SharedBooks, SharedTypes

\* Through every step the types hold and the number is within its bound.
LEMMA SharedTyped ==
  /\ Frames!Init => SharedBooks
  /\ SharedBooks /\ [Frames!Next]_sharedVars => SharedBooks'
  /\ SharedBooks => Frames!TypeOK
<1>1. ASSUME Frames!Init PROVE SharedBooks
  <2>1. MaxFrames \in Nat /\ MaxSwitches \in Nat /\ 0 \in 0..MaxFrames /\ 0 \in 0..MaxSwitches
    BY BoundsAssumption
  <2>2. /\ sequence = 2 /\ header = [size |-> "RGB", active |-> 0, online |-> FALSE]
        /\ slot = [s \in {0, 1} |-> [size |-> "RGB", first |-> 0, second |-> 0]]
        /\ frames = 0 /\ sizes = [f \in 0..MaxFrames |-> "RGB"] /\ mode = "RGB" /\ switches = 0
        /\ pending = [w \in Modes |-> 0] /\ work = [w \in Modes |-> 0]
        /\ next = [w \in Modes |-> 0] /\ writer_pc = [w \in Modes \cup {"video"} |-> "idle"]
        /\ reader = [pc |-> "before", before |-> 0, at |-> 0, size |-> "RGB", first |-> 0,
                     second |-> 0]
        /\ accepted = [size |-> "RGB", first |-> 0, second |-> 0]
        /\ met = {} /\ late = FALSE
    BY <1>1 DEF Frames!Init, Frames!Modes, Frames!Writers, Modes
  <2>3. "RGB" \in Modes
    BY DEF Modes
  <2>4. SharedTypes
    <3>1. accepted \in SlotStates /\ reader \in ReaderStates /\ slot \in [{0, 1} -> SlotStates]
      BY <2>1, <2>2, <2>3 DEF SlotStates, ReaderStates
    <3>2. "idle" \in WriterPlaces
      BY DEF WriterPlaces
    <3> QED BY <2>1, <2>2, <2>3, <3>1, <3>2 DEF SharedTypes
  <2>5. \A w \in Modes : pending[w] = 0 /\ work[w] = 0 /\ writer_pc[w] = "idle"
    BY <2>2
  <2>6. Counted
    <3>1. Owed("RGB") = 0 /\ Owed("HQ") = 0
      BY <2>5 DEF Owed, Modes
    <3>2. writer_pc["video"] = "idle"
      BY <2>2
    <3> QED BY <2>2, <3>1, <3>2 DEF Counted
  <2> QED BY <2>4, <2>6 DEF SharedBooks
<1>2. ASSUME SharedBooks, [Frames!Next]_sharedVars PROVE SharedBooks'
  <2>1. ASSUME UNCHANGED sharedVars PROVE SharedBooks'
    <3>1. /\ UNCHANGED sequence /\ UNCHANGED header /\ UNCHANGED slot /\ UNCHANGED frames
          /\ UNCHANGED sizes /\ UNCHANGED mode /\ UNCHANGED switches /\ UNCHANGED pending
          /\ UNCHANGED work /\ UNCHANGED writer_pc /\ UNCHANGED next /\ UNCHANGED reader
          /\ UNCHANGED accepted /\ UNCHANGED met /\ UNCHANGED late
      BY <2>1 DEF sharedVars
    <3>2. SharedTypes'
      BY <1>2, <3>1 DEF SharedBooks, SharedTypes
    <3>3. Counted'
      BY <1>2, <3>1 DEF SharedBooks, Counted, Owed
    <3> QED BY <3>2, <3>3 DEF SharedBooks
  <2> QED BY <1>2, <2>1, SubmitTyped, OfflineTyped, ReaderTyped, WorkerTyped
          DEF Frames!Next, Frames!Modes, Modes
<1>3. ASSUME SharedBooks PROVE Frames!TypeOK
  <2>0. SharedPlain
    BY <1>3, SharedNumbers
  <2>1. sequence \in 2..Frames!MaxSequence
    <3>1. PICK x \in Nat, y \in Nat : x = Owed("RGB") /\ y = Owed("HQ")
      BY DEF Owed
    <3>2. /\ sequence >= 2 /\ (writer_pc["video"] = "leave" => switches < MaxSwitches)
          /\ (sequence + x) + y <= (2 + 2 * (frames + switches)) +
                                   (IF writer_pc["video"] = "leave" THEN 1 ELSE 0)
      BY <1>3, <3>1 DEF SharedBooks, Counted
    <3>3. (frames + switches) + (IF writer_pc["video"] = "leave" THEN 1 ELSE 0)
             <= MaxFrames + MaxSwitches
      BY <2>0, <3>2 DEF SharedPlain
    <3>4. sequence <= 2 + 2 * (MaxFrames + MaxSwitches)
      BY <2>0, <3>1, <3>2, <3>3 DEF SharedPlain
    <3> QED BY <1>3, <3>2, <3>4, SharedFields DEF Frames!MaxSequence
  <2> QED BY <1>3, <2>1 DEF SharedBooks, Frames!TypeOK, SharedTypes, SlotStates, Frames!Modes,
                            Modes, Frames!Writers, WriterPlaces
<1> QED BY <1>1, <1>2, <1>3

\* A frame that is whole: both halves are of one frame, of its size. One that is good
\* enough is, or has a half that was published while another worker published.
Whole(f, of) == f.first = f.second /\ (f.first = 0 \/ f.size = of[f.first])
Good(f, of, m) == Whole(f, of) \/ f.first \in m \/ f.second \in m

\* Frames are numbered up to the last one, and a worker has frames of its mode.
Numbers ==
  /\ \A w \in Modes : /\ pending[w] <= frames /\ (pending[w] # 0 => sizes[pending[w]] = w)
                      /\ work[w] <= frames /\ (work[w] # 0 => sizes[work[w]] = w)
  /\ \A s \in {0, 1} : slot[s].first <= frames /\ slot[s].second <= frames
  /\ reader.first <= frames /\ reader.second <= frames
  /\ accepted.first <= frames /\ accepted.second <= frames

\* Workers that publish at the same time are known to.
Meets ==
  \A v, w \in Modes : v # w /\ Frames!Publishing(v) /\ Frames!Publishing(w) => work[w] \in met

\* A worker that meets no other writes the slot that is not active; a slot holds
\* what its writer has copied, or what one it has met has.
WrittenBy(w) ==
  /\ writer_pc[w] \in {"first", "second", "activate"} => next[w] # header.active \/ work[w] \in met
  /\ writer_pc[w] \in {"second", "activate"} =>
       slot[next[w]].first = work[w] \/ slot[next[w]].first \in met
  /\ writer_pc[w] = "activate" =>
       \/ slot[next[w]].second = work[w] /\ slot[next[w]].size = w
       \/ slot[next[w]].second \in met
Written == Good(slot[header.active], sizes, met) /\ \A w \in Modes : WrittenBy(w)

\* The frame that a reader will have: what it has read, and what it would read now.
View == [size   |-> reader.size,
         first  |-> IF reader.pc = "first" THEN slot[reader.at].first ELSE reader.first,
         second |-> IF reader.pc = "after" THEN reader.second ELSE slot[reader.at].second]

\* As long as the number is the one it has read, this frame is good, and a worker
\* that has still to write, and meets no other, keeps off the slot that is read.
Reading == reader.pc \in {"first", "second", "after"} /\ reader.before = sequence
KeepsOff(w) ==
  writer_pc[w] \in {"choose", "first", "second", "activate"} =>
    reader.at = header.active \/ work[w] \in met
Read ==
  /\ reader.before <= sequence
  /\ Reading => Good(View, sizes, met) /\ \A w \in Modes : KeepsOff(w)

SharedInv ==
  SharedBooks /\ Numbers /\ Meets /\ Written /\ Read /\ Good(accepted, sizes, met)

\* Its parts, and the plain types.
LEMMA SharedParts ==
  ASSUME SharedInv
  PROVE  /\ SharedBooks /\ Numbers /\ Meets /\ Written /\ Read /\ Good(accepted, sizes, met)
         /\ SharedPlain /\ reader.before \in Nat /\ reader.at \in {0, 1}
         /\ slot \in [{0, 1} -> SlotStates] /\ \A w \in Modes : next[w] \in {0, 1}
         /\ \A w \in Modes : work[w] \in 0..MaxFrames
         /\ writer_pc \in [Modes \cup {"video"} -> WriterPlaces]
<1>1. SharedBooks
  BY DEF SharedInv
<1>2. reader.before \in Nat /\ reader.at \in {0, 1}
  BY <1>1, SharedFields DEF ReaderStates
<1> QED BY <1>1, <1>2, SharedFields, SharedNumbers DEF SharedInv

\* Whoever counts on goes on doing so when more frames are known to have met.
LEMMA GoodGrows ==
  ASSUME NEW f, NEW of, NEW m, NEW n, m \subseteq n, Good(f, of, m)
  PROVE  Good(f, of, n)
BY DEF Good

\* The frames of the modes that are numbered already stay what they are.
LEMMA GoodStays ==
  ASSUME NEW f, NEW a \in [0..MaxFrames -> Modes], NEW b \in [0..MaxFrames -> Modes],
         NEW n \in 0..MaxFrames, f.first \in 0..MaxFrames, f.first <= n,
         \A i \in 0..MaxFrames : i <= n => b[i] = a[i], NEW m, Good(f, a, m)
  PROVE  Good(f, b, m)
BY DEF Whole, Good

\* The number changes: what a reader has read so far is worth nothing.
LEMMA NumberMoves ==
  ASSUME SharedInv, sequence' = sequence + 1, UNCHANGED reader
  PROVE  Read'
<1>1. reader.before <= sequence /\ reader.before \in Nat /\ sequence \in Nat
  BY SharedParts DEF Read, SharedPlain
<1>2. ~Reading'
  BY <1>1 DEF Reading
<1> QED BY <1>1, <1>2 DEF Read

\* The newest frame replaces the one that waits: it has a number of its own.
LEMMA SubmitKeeps ==
  ASSUME SharedInv, Frames!Submit
  PROVE  SharedInv'
<1>1. /\ UNCHANGED mode /\ UNCHANGED switches /\ UNCHANGED work /\ UNCHANGED next
      /\ UNCHANGED sequence /\ UNCHANGED header /\ UNCHANGED slot /\ UNCHANGED reader
      /\ UNCHANGED accepted /\ UNCHANGED writer_pc /\ UNCHANGED met
      /\ frames < MaxFrames /\ frames' = frames + 1
      /\ sizes' = [sizes EXCEPT ![frames + 1] = mode]
      /\ pending' = [pending EXCEPT ![mode] = frames + 1]
  BY DEF Frames!Submit, Frames!sharedVars, Frames!readerVars
<1>2. /\ SharedBooks /\ SharedTypes /\ Numbers /\ Meets /\ Written /\ Read
      /\ Good(accepted, sizes, met)
  BY DEF SharedInv, SharedBooks
<1>3. frames \in 0..MaxFrames /\ MaxFrames \in Nat /\ mode \in Modes
  BY <1>2, BoundsAssumption DEF SharedTypes
<1>4. /\ frames' \in 0..MaxFrames /\ sizes' \in [0..MaxFrames -> Modes]
      /\ pending' \in [Modes -> 0..MaxFrames]
      /\ \A i \in 0..MaxFrames : i <= frames => sizes'[i] = sizes[i]
      /\ sizes'[frames + 1] = mode
      /\ pending'[mode] = frames + 1 /\ \A w \in Modes : w # mode => pending'[w] = pending[w]
  <2>1. frames + 1 \in 0..MaxFrames
    BY <1>1, <1>3
  <2>2. sizes \in [0..MaxFrames -> Modes] /\ pending \in [Modes -> 0..MaxFrames]
    BY <1>2 DEF SharedTypes
  <2>3. /\ sizes' \in [0..MaxFrames -> Modes] /\ sizes'[frames + 1] = mode
        /\ \A i \in 0..MaxFrames : i # frames + 1 => sizes'[i] = sizes[i]
    BY <1>1, <1>3, <2>1, <2>2
  <2>4. \A i \in 0..MaxFrames : i <= frames => i # frames + 1
    BY <1>3
  <2>5. /\ pending' \in [Modes -> 0..MaxFrames] /\ pending'[mode] = frames + 1
        /\ \A w \in Modes : w # mode => pending'[w] = pending[w]
    BY <1>1, <1>3, <2>1, <2>2
  <2> QED BY <1>1, <2>1, <2>3, <2>4, <2>5
<1>5. SharedBooks'
  BY <1>2, SubmitTyped
<1>6. /\ \A s \in {0, 1} : slot[s].first \in 0..MaxFrames /\ slot[s].second \in 0..MaxFrames
      /\ reader.first \in 0..MaxFrames /\ reader.second \in 0..MaxFrames
      /\ accepted.first \in 0..MaxFrames /\ accepted.second \in 0..MaxFrames
      /\ reader.at \in {0, 1} /\ header.active \in {0, 1}
  <2>1. /\ \A s \in {0, 1} : slot[s] \in SlotStates
        /\ reader \in ReaderStates /\ accepted \in SlotStates
    BY <1>2 DEF SharedTypes
  <2> QED BY <1>2, <2>1 DEF SlotStates, ReaderStates, SharedTypes
<1>7. Numbers'
  <2>1. \A w \in Modes : pending'[w] <= frames' /\ (pending'[w] # 0 => sizes'[pending'[w]] = w)
    <3> TAKE w \in Modes
    <3>1. CASE w = mode
      BY <1>1, <1>3, <1>4, <3>1
    <3>2. CASE w # mode
      <4>1. pending[w] <= frames /\ (pending[w] # 0 => sizes[pending[w]] = w)
        BY <1>2 DEF Numbers
      <4>2. pending[w] \in 0..MaxFrames
        BY <1>2 DEF SharedTypes
      <4> QED BY <1>1, <1>3, <1>4, <3>2, <4>1, <4>2
    <3> QED BY <3>1, <3>2
  <2>2. \A w \in Modes : work'[w] <= frames' /\ (work'[w] # 0 => sizes'[work'[w]] = w)
    <3> TAKE w \in Modes
    <3>1. work[w] <= frames /\ (work[w] # 0 => sizes[work[w]] = w)
      BY <1>2 DEF Numbers
    <3>2. work[w] \in 0..MaxFrames
      BY <1>2 DEF SharedTypes
    <3> QED BY <1>1, <1>3, <1>4, <3>1, <3>2
  <2>3. /\ \A s \in {0, 1} : slot'[s].first <= frames' /\ slot'[s].second <= frames'
        /\ reader'.first <= frames' /\ reader'.second <= frames'
        /\ accepted'.first <= frames' /\ accepted'.second <= frames'
    <3>1. /\ \A s \in {0, 1} : slot[s].first <= frames /\ slot[s].second <= frames
          /\ reader.first <= frames /\ reader.second <= frames
          /\ accepted.first <= frames /\ accepted.second <= frames
      BY <1>2 DEF Numbers
    <3> QED BY <1>1, <1>3, <1>6, <3>1
  <2> QED BY <2>1, <2>2, <2>3 DEF Numbers
<1>8. ASSUME NEW f, f.first \in 0..MaxFrames, f.first <= frames, Good(f, sizes, met)
      PROVE  Good(f, sizes', met)
  <2>1. sizes \in [0..MaxFrames -> Modes]
    BY <1>2 DEF SharedTypes
  <2> QED BY <1>3, <1>4, <1>8, <2>1, GoodStays
<1>9. Meets'
  BY <1>1, <1>2 DEF Meets, Frames!Publishing
<1>10. Written'
  <2>1. slot[header.active].first \in 0..MaxFrames /\ slot[header.active].first <= frames
    BY <1>2, <1>6 DEF Numbers
  <2>2. Good(slot[header.active], sizes', met)
    BY <1>2, <1>8, <2>1 DEF Written
  <2> QED BY <1>1, <1>2, <2>2 DEF Written, WrittenBy
<1>11. Read'
  <2>1. View.first \in 0..MaxFrames /\ View.first <= frames
    BY <1>2, <1>6 DEF Numbers, View
  <2>2. View' = View /\ Reading' = Reading /\ \A w \in Modes : KeepsOff(w)' = KeepsOff(w)
    BY <1>1 DEF View, Reading, KeepsOff
  <2>3. Reading => Good(View, sizes', met)
    BY <1>2, <1>8, <2>1 DEF Read
  <2> QED BY <1>1, <1>2, <2>2, <2>3 DEF Read
<1>12. Good(accepted', sizes', met')
  BY <1>1, <1>2, <1>6, <1>8 DEF Numbers
<1> QED BY <1>5, <1>7, <1>9, <1>10, <1>11, <1>12 DEF SharedInv

\* The video thread takes the camera off line: only the number changes, and with
\* it what a reader has read is worth nothing.
LEMMA OfflineKeeps ==
  ASSUME SharedInv, Frames!EnterOffline \/ Frames!LeaveOffline
  PROVE  SharedInv'
<1>1. /\ UNCHANGED frames /\ UNCHANGED sizes /\ UNCHANGED pending /\ UNCHANGED work
      /\ UNCHANGED next /\ UNCHANGED slot /\ UNCHANGED reader /\ UNCHANGED accepted
      /\ UNCHANGED met /\ sequence' = sequence + 1
  BY DEF Frames!EnterOffline, Frames!LeaveOffline, Frames!videoVars, Frames!workerVars,
         Frames!readerVars
<1>2. /\ SharedBooks /\ Numbers /\ Meets /\ Written /\ Good(accepted, sizes, met)
  BY DEF SharedInv
<1>3. header'.active = header.active /\ \A w \in Modes : writer_pc'[w] = writer_pc[w]
  BY <1>2, SharedFields DEF Frames!EnterOffline, Frames!LeaveOffline, Modes
<1>4. SharedBooks'
  BY <1>2, OfflineTyped
<1>5. Numbers'
  BY <1>1, <1>2 DEF Numbers
<1>6. Meets'
  BY <1>1, <1>2, <1>3 DEF Meets, Frames!Publishing
<1>7. Written'
  BY <1>1, <1>2, <1>3 DEF Written, WrittenBy
<1>8. Read'
  BY <1>1, NumberMoves
<1> QED BY <1>1, <1>2, <1>4, <1>5, <1>6, <1>7, <1>8 DEF SharedInv

\* The two slots after a worker has copied the first half into one of them.
LEMMA FirstCopied ==
  ASSUME slot \in [{0, 1} -> SlotStates], NEW n \in {0, 1}, NEW v \in 0..MaxFrames,
         NEW s, s = [slot EXCEPT ![n].first = v]
  PROVE  /\ s \in [{0, 1} -> SlotStates] /\ s[1 - n] = slot[1 - n]
         /\ s[n] = [size |-> slot[n].size, first |-> v, second |-> slot[n].second]
<1>1. n \in DOMAIN slot /\ 1 - n \in {0, 1} /\ 1 - n # n
  OBVIOUS
<1>2. slot[n] \in SlotStates
  OBVIOUS
<1> DEFINE a == [size |-> slot[n].size, first |-> v, second |-> slot[n].second]
<1>3. a \in SlotStates
  BY <1>2 DEF SlotStates
<1>4. [slot[n] EXCEPT !.first = v] = a
  BY <1>2 DEF SlotStates
<1> HIDE DEF a
<1>5. [slot EXCEPT ![n].first = v] = [slot EXCEPT ![n] = [slot[n] EXCEPT !.first = v]]
  BY <1>1
<1>6. s = [slot EXCEPT ![n] = a]
  BY <1>4, <1>5
<1>7. s \in [{0, 1} -> SlotStates] /\ s[1 - n] = slot[1 - n] /\ s[n] = a
  BY <1>1, <1>3, <1>6
<1> QED BY <1>7 DEF a

\* The place of a worker changes, and no other's.
LEMMA PlaceMoves ==
  ASSUME SharedInv, NEW w \in Modes, NEW to \in WriterPlaces,
         writer_pc' = [writer_pc EXCEPT ![w] = to]
  PROVE  writer_pc'[w] = to /\ \A u \in Modes : u # w => writer_pc'[u] = writer_pc[u]
<1>1. writer_pc \in [Modes \cup {"video"} -> WriterPlaces]
  BY SharedParts
<1> QED BY <1>1

\* A worker takes the frame that waits.
LEMMA WorkerTakes ==
  ASSUME SharedInv, NEW w \in Modes, Frames!Take(w)
  PROVE  SharedInv'
<1>1. /\ UNCHANGED frames /\ UNCHANGED sizes /\ UNCHANGED slot /\ UNCHANGED header
      /\ UNCHANGED reader /\ UNCHANGED accepted /\ UNCHANGED sequence /\ UNCHANGED next
      /\ UNCHANGED met
      /\ writer_pc[w] = "idle" /\ writer_pc' = [writer_pc EXCEPT ![w] = "enter"]
      /\ work' = [work EXCEPT ![w] = pending[w]] /\ pending' = [pending EXCEPT ![w] = 0]
  BY DEF Frames!Take, Frames!Step, Frames!videoVars, Frames!readerVars, Frames!sharedVars
<1>2. /\ SharedBooks /\ Numbers /\ Meets /\ Written /\ Read /\ Good(accepted, sizes, met)
  BY DEF SharedInv
<1>3. writer_pc'[w] = "enter" /\ \A u \in Modes : u # w => writer_pc'[u] = writer_pc[u]
  BY <1>1, PlaceMoves DEF WriterPlaces
<1>4. /\ pending'[w] = 0 /\ work'[w] = pending[w]
      /\ \A u \in Modes : u # w => pending'[u] = pending[u] /\ work'[u] = work[u]
  BY <1>1, <1>2, SharedFields
<1>5. SharedBooks'
  BY <1>2, WorkerTyped DEF Frames!Worker
<1>6. Numbers'
  <2>1. ASSUME NEW u \in Modes
        PROVE  /\ pending'[u] <= frames /\ (pending'[u] # 0 => sizes[pending'[u]] = u)
               /\ work'[u] <= frames /\ (work'[u] # 0 => sizes[work'[u]] = u)
    <3>1. /\ pending[u] <= frames /\ (pending[u] # 0 => sizes[pending[u]] = u)
          /\ work[u] <= frames /\ (work[u] # 0 => sizes[work[u]] = u)
      BY <1>2 DEF Numbers
    <3>2. 0 <= frames
      BY <1>2, SharedNumbers DEF SharedPlain
    <3> QED BY <1>4, <3>1, <3>2
  <2> QED BY <1>1, <1>2, <2>1 DEF Numbers
<1>7. Meets'
  <2>1. \A u \in Modes : Frames!Publishing(u)' => u # w /\ Frames!Publishing(u)
    BY <1>3 DEF Frames!Publishing
  <2> QED BY <1>1, <1>2, <1>4, <2>1 DEF Meets
<1>8. Written'
  <2>1. \A u \in Modes : WrittenBy(u)'
    <3> TAKE u \in Modes
    <3>1. WrittenBy(u)
      BY <1>2 DEF Written
    <3>2. CASE u = w
      BY <1>3, <3>2 DEF WrittenBy
    <3>3. CASE u # w
      BY <1>1, <1>3, <1>4, <3>1, <3>3 DEF WrittenBy
    <3> QED BY <3>2, <3>3
  <2> QED BY <1>1, <1>2, <2>1 DEF Written
<1>9. Read'
  <2>1. View' = View /\ Reading' = Reading
    BY <1>1 DEF View, Reading
  <2>2. \A u \in Modes : KeepsOff(u) => KeepsOff(u)'
    BY <1>1, <1>3, <1>4 DEF KeepsOff
  <2> QED BY <1>1, <1>2, <2>1, <2>2 DEF Read
<1> QED BY <1>1, <1>2, <1>5, <1>6, <1>7, <1>8, <1>9 DEF SharedInv

\* It comes into PublishFrame, and leaves: the number changes, and who is in there
\* with it is known.
LEMMA WorkerCounts ==
  ASSUME SharedInv, NEW w \in Modes, Frames!Enter(w) \/ Frames!Leave(w)
  PROVE  SharedInv'
<1>1. /\ UNCHANGED frames /\ UNCHANGED sizes /\ UNCHANGED slot /\ UNCHANGED header
      /\ UNCHANGED reader /\ UNCHANGED accepted /\ UNCHANGED pending /\ UNCHANGED next
      /\ sequence' = sequence + 1
  BY DEF Frames!Enter, Frames!Leave, Frames!Step, Frames!videoVars, Frames!workerVars,
         Frames!readerVars
<1>2. /\ SharedBooks /\ Numbers /\ Meets /\ Written /\ Good(accepted, sizes, met)
  BY DEF SharedInv
<1>3. /\ writer_pc'[w] \in {"choose", "idle"}
      /\ \A u \in Modes : u # w => writer_pc'[u] = writer_pc[u] /\ work'[u] = work[u]
      /\ work'[w] \in {work[w], 0}
  <2>1. CASE Frames!Enter(w)
    <3>1. writer_pc' = [writer_pc EXCEPT ![w] = "choose"] /\ UNCHANGED work
      BY <2>1 DEF Frames!Enter, Frames!Step, Frames!workerVars
    <3> QED BY <3>1, PlaceMoves DEF WriterPlaces
  <2>2. CASE Frames!Leave(w)
    <3>1. writer_pc' = [writer_pc EXCEPT ![w] = "idle"] /\ work' = [work EXCEPT ![w] = 0]
      BY <2>2 DEF Frames!Leave, Frames!Step
    <3>2. work \in [Modes -> 0..MaxFrames]
      BY <1>2, SharedFields
    <3> QED BY <3>1, <3>2, PlaceMoves DEF WriterPlaces
  <2> QED BY <2>1, <2>2
<1>4. met \subseteq met'
  BY DEF Frames!Enter, Frames!Leave
<1>5. SharedBooks'
  BY <1>2, WorkerTyped DEF Frames!Worker
<1>6. Numbers'
  <2>1. ASSUME NEW u \in Modes
        PROVE  /\ pending[u] <= frames /\ (pending[u] # 0 => sizes[pending[u]] = u)
               /\ work'[u] <= frames /\ (work'[u] # 0 => sizes[work'[u]] = u)
    <3>1. /\ pending[u] <= frames /\ (pending[u] # 0 => sizes[pending[u]] = u)
          /\ work[u] <= frames /\ (work[u] # 0 => sizes[work[u]] = u)
      BY <1>2 DEF Numbers
    <3>2. 0 <= frames
      BY <1>2, SharedNumbers DEF SharedPlain
    <3> QED BY <1>3, <3>1, <3>2
  <2> QED BY <1>1, <1>2, <2>1 DEF Numbers
<1>7. Meets'
  <2>1. CASE Frames!Enter(w)
    <3>1. /\ UNCHANGED work
          /\ Frames!OthersInside(w) # {} =>
               met' = met \cup {work[o] : o \in {w} \cup Frames!OthersInside(w)}
      BY <2>1 DEF Frames!Enter, Frames!workerVars
    <3>2. ASSUME NEW u \in Modes, NEW v \in Modes, u # v, Frames!Publishing(u)',
                 Frames!Publishing(v)'
          PROVE  work[v] \in met'
      <4>1. CASE u # w /\ v # w
        <5>1. Frames!Publishing(u) /\ Frames!Publishing(v)
          BY <1>3, <3>2, <4>1 DEF Frames!Publishing
        <5> QED BY <1>2, <1>4, <3>2, <5>1 DEF Meets
      <4>2. CASE u = w
        <5>1. Frames!Publishing(v)
          BY <1>3, <3>2, <4>2 DEF Frames!Publishing
        <5>2. v \in Frames!OthersInside(w)
          BY <3>2, <4>2, <5>1 DEF Frames!OthersInside, Frames!Modes, Modes
        <5> QED BY <3>1, <5>2
      <4>3. CASE v = w
        <5>1. Frames!Publishing(u)
          BY <1>3, <3>2, <4>3 DEF Frames!Publishing
        <5>2. u \in Frames!OthersInside(w)
          BY <3>2, <4>3, <5>1 DEF Frames!OthersInside, Frames!Modes, Modes
        <5> QED BY <3>1, <4>3, <5>2
      <4> QED BY <4>1, <4>2, <4>3
    <3> QED BY <3>1, <3>2 DEF Meets
  <2>2. CASE Frames!Leave(w)
    <3>1. writer_pc'[w] = "idle"
      <4>1. writer_pc' = [writer_pc EXCEPT ![w] = "idle"]
        BY <2>2 DEF Frames!Leave, Frames!Step
      <4> QED BY <4>1, PlaceMoves DEF WriterPlaces
    <3>2. \A u \in Modes : Frames!Publishing(u)' => u # w /\ Frames!Publishing(u)
      BY <1>3, <3>1 DEF Frames!Publishing
    <3> QED BY <1>2, <1>3, <1>4, <3>2 DEF Meets
  <2> QED BY <2>1, <2>2
<1>8. Written'
  <2>1. \A u \in Modes : WrittenBy(u)'
    <3> TAKE u \in Modes
    <3>1. WrittenBy(u)
      BY <1>2 DEF Written
    <3>2. CASE u = w
      BY <1>3, <3>2 DEF WrittenBy
    <3>3. CASE u # w
      BY <1>1, <1>3, <1>4, <3>1, <3>3 DEF WrittenBy
    <3> QED BY <3>2, <3>3
  <2>2. Good(slot[header.active], sizes, met')
    BY <1>2, <1>4, GoodGrows DEF Written
  <2> QED BY <1>1, <2>1, <2>2 DEF Written
<1>9. Read'
  BY <1>1, NumberMoves
<1>10. Good(accepted, sizes, met')
  BY <1>2, <1>4, GoodGrows
<1> QED BY <1>1, <1>5, <1>6, <1>7, <1>8, <1>9, <1>10 DEF SharedInv

\* It chooses the slot that is not active now.
LEMMA WorkerChooses ==
  ASSUME SharedInv, NEW w \in Modes, Frames!Choose(w)
  PROVE  SharedInv'
<1>1. /\ UNCHANGED frames /\ UNCHANGED sizes /\ UNCHANGED slot /\ UNCHANGED header
      /\ UNCHANGED reader /\ UNCHANGED accepted /\ UNCHANGED pending /\ UNCHANGED work
      /\ UNCHANGED sequence /\ UNCHANGED met
      /\ writer_pc[w] = "choose" /\ writer_pc' = [writer_pc EXCEPT ![w] = "first"]
      /\ next' = [next EXCEPT ![w] = 1 - header.active]
  BY DEF Frames!Choose, Frames!Step, Frames!videoVars, Frames!readerVars, Frames!sharedVars
<1>2. /\ SharedBooks /\ Numbers /\ Meets /\ Written /\ Read /\ Good(accepted, sizes, met)
  BY DEF SharedInv
<1>3. writer_pc'[w] = "first" /\ \A u \in Modes : u # w => writer_pc'[u] = writer_pc[u]
  BY <1>1, PlaceMoves DEF WriterPlaces
<1>4. next'[w] # header.active /\ \A u \in Modes : u # w => next'[u] = next[u]
  <2>1. next \in [Modes -> {0, 1}] /\ header.active \in {0, 1}
    BY <1>2, SharedFields
  <2>2. 1 - header.active # header.active
    BY <2>1
  <2> QED BY <1>1, <2>1, <2>2
<1>5. SharedBooks'
  BY <1>2, WorkerTyped DEF Frames!Worker
<1>6. Numbers'
  BY <1>1, <1>2 DEF Numbers
<1>7. Meets'
  <2>1. \A u \in Modes : Frames!Publishing(u)' => Frames!Publishing(u)
    BY <1>1, <1>3 DEF Frames!Publishing
  <2> QED BY <1>1, <1>2, <2>1 DEF Meets
<1>8. Written'
  <2>1. \A u \in Modes : WrittenBy(u)'
    <3> TAKE u \in Modes
    <3>1. WrittenBy(u)
      BY <1>2 DEF Written
    <3>2. CASE u = w
      BY <1>1, <1>3, <1>4, <3>2 DEF WrittenBy
    <3>3. CASE u # w
      BY <1>1, <1>3, <1>4, <3>1, <3>3 DEF WrittenBy
    <3> QED BY <3>2, <3>3
  <2> QED BY <1>1, <1>2, <2>1 DEF Written
<1>9. Read'
  <2>1. View' = View /\ Reading' = Reading
    BY <1>1 DEF View, Reading
  <2>2. \A u \in Modes : KeepsOff(u) => KeepsOff(u)'
    BY <1>1, <1>3 DEF KeepsOff
  <2> QED BY <1>1, <1>2, <2>1, <2>2 DEF Read
<1> QED BY <1>1, <1>2, <1>5, <1>6, <1>7, <1>8, <1>9 DEF SharedInv

\* It copies a half: into the slot that is not active, unless it meets another.
LEMMA WorkerCopies ==
  ASSUME SharedInv, NEW w \in Modes, Frames!CopyFirst(w) \/ Frames!CopySecond(w)
  PROVE  SharedInv'
<1>1. /\ UNCHANGED frames /\ UNCHANGED sizes /\ UNCHANGED reader /\ UNCHANGED accepted
      /\ UNCHANGED pending /\ UNCHANGED work /\ UNCHANGED next /\ UNCHANGED sequence
      /\ UNCHANGED met /\ writer_pc[w] \in {"first", "second"}
  BY DEF Frames!CopyFirst, Frames!CopySecond, Frames!Step, Frames!videoVars, Frames!readerVars,
         Frames!workerVars
<1>2. /\ SharedBooks /\ Numbers /\ Meets /\ Written /\ Read /\ Good(accepted, sizes, met)
  BY DEF SharedInv
<1>3. PICK n \in {0, 1} : n = next[w]
  BY SharedParts
<1>4. /\ slot \in [{0, 1} -> SlotStates] /\ work[w] \in 0..MaxFrames
      /\ header \in [size : Modes, active : {0, 1}, online : BOOLEAN]
      /\ reader.at \in {0, 1} /\ header.active \in {0, 1}
  BY <1>2, SharedFields, SharedParts
<1>5. \E to \in {"second", "activate"} :
        /\ writer_pc'[w] = to /\ \A u \in Modes : u # w => writer_pc'[u] = writer_pc[u]
        /\ slot'[1 - n] = slot[1 - n] /\ header'.active = header.active
        /\ to = "second" =>
             /\ writer_pc[w] = "first"
             /\ slot'[n] = [size |-> slot[n].size, first |-> work[w], second |-> slot[n].second]
        /\ to = "activate" =>
             /\ writer_pc[w] = "second"
             /\ slot'[n] = [size |-> w, first |-> slot[n].first, second |-> work[w]]
  <2>1. CASE Frames!CopyFirst(w)
    <3>1. /\ writer_pc' = [writer_pc EXCEPT ![w] = "second"] /\ writer_pc[w] = "first"
          /\ slot' = [slot EXCEPT ![n].first = work[w]] /\ header' = header
      BY <1>3, <2>1 DEF Frames!CopyFirst, Frames!Step
    <3>2. writer_pc'[w] = "second" /\ \A u \in Modes : u # w => writer_pc'[u] = writer_pc[u]
      BY <3>1, PlaceMoves DEF WriterPlaces
    <3>3. /\ slot'[1 - n] = slot[1 - n]
          /\ slot'[n] = [size |-> slot[n].size, first |-> work[w], second |-> slot[n].second]
      BY <1>4, <3>1, FirstCopied
    <3> QED BY <3>1, <3>2, <3>3
  <2>2. CASE Frames!CopySecond(w)
    <3>1. /\ writer_pc' = [writer_pc EXCEPT ![w] = "activate"] /\ writer_pc[w] = "second"
          /\ slot' = [slot EXCEPT ![n].second = work[w], ![n].size = w]
          /\ header' = [header EXCEPT !.size = w]
      BY <1>3, <2>2 DEF Frames!CopySecond, Frames!Step
    <3>2. writer_pc'[w] = "activate" /\ \A u \in Modes : u # w => writer_pc'[u] = writer_pc[u]
      BY <3>1, PlaceMoves DEF WriterPlaces
    <3>3. /\ slot'[1 - n] = slot[1 - n]
          /\ slot'[n] = [size |-> w, first |-> slot[n].first, second |-> work[w]]
      <4> DEFINE a == [size |-> slot[n].size, first |-> slot[n].first, second |-> work[w]]
                 b == [size |-> w, first |-> slot[n].first, second |-> work[w]]
      <4>1. slot[n] \in SlotStates /\ n \in DOMAIN slot /\ 1 - n # n
        BY <1>4
      <4>2. a \in SlotStates /\ b \in SlotStates
        BY <1>4, <4>1 DEF SlotStates
      <4>3. [slot[n] EXCEPT !.second = work[w]] = a /\ [a EXCEPT !.size = w] = b
        BY <4>1 DEF SlotStates
      <4> HIDE DEF a, b
      <4> DEFINE z == [slot EXCEPT ![n] = a]
      <4>4. slot' = [z EXCEPT ![n] = [z[n] EXCEPT !.size = w]]
        BY <3>1, <4>3
      <4>5. z[n] = a /\ [z EXCEPT ![n] = b] = [slot EXCEPT ![n] = b]
        BY <4>1
      <4> HIDE DEF z
      <4>6. slot' = [slot EXCEPT ![n] = b]
        BY <4>3, <4>4, <4>5
      <4>7. slot'[1 - n] = slot[1 - n] /\ slot'[n] = b
        BY <1>4, <4>1, <4>2, <4>6
      <4> QED BY <4>7 DEF b
    <3>4. header'.active = header.active
      BY <1>4, <3>1
    <3> QED BY <3>1, <3>2, <3>3, <3>4
  <2> QED BY <2>1, <2>2
<1>6. PICK to \in {"second", "activate"} :
        /\ writer_pc'[w] = to /\ \A u \in Modes : u # w => writer_pc'[u] = writer_pc[u]
        /\ slot'[1 - n] = slot[1 - n] /\ header'.active = header.active
        /\ to = "second" =>
             /\ writer_pc[w] = "first"
             /\ slot'[n] = [size |-> slot[n].size, first |-> work[w], second |-> slot[n].second]
        /\ to = "activate" =>
             /\ writer_pc[w] = "second"
             /\ slot'[n] = [size |-> w, first |-> slot[n].first, second |-> work[w]]
  BY <1>5
<1>7. /\ \A s \in {0, 1} : s = n \/ s = 1 - n
      /\ slot'[n].first \in {slot[n].first, work[w]}
      /\ slot'[n].second \in {slot[n].second, work[w]}
      /\ to = "second" => slot'[n].first = work[w] /\ slot'[n].second = slot[n].second
      /\ to = "activate" => /\ slot'[n].first = slot[n].first
                            /\ slot'[n].second = work[w] /\ slot'[n].size = w
  <2>1. \A s \in {0, 1} : s = n \/ s = 1 - n
    BY <1>3
  <2> QED BY <1>6, <2>1
<1>8. WrittenBy(w) /\ (n # header.active \/ work[w] \in met)
  <2>1. WrittenBy(w)
    BY <1>2 DEF Written
  <2> QED BY <1>1, <1>3, <2>1 DEF WrittenBy
<1>9. SharedBooks'
  BY <1>2, WorkerTyped DEF Frames!Worker
<1>10. Numbers'
  <2>1. work[w] <= frames /\ \A s \in {0, 1} : slot[s].first <= frames /\ slot[s].second <= frames
    BY <1>2 DEF Numbers
  <2>2. \A s \in {0, 1} : slot'[s].first <= frames /\ slot'[s].second <= frames
    BY <1>6, <1>7, <2>1
  <2> QED BY <1>1, <1>2, <2>2 DEF Numbers
<1>11. Meets'
  <2>1. \A u \in Modes : Frames!Publishing(u)' => Frames!Publishing(u)
    BY <1>1, <1>6 DEF Frames!Publishing
  <2> QED BY <1>1, <1>2, <2>1 DEF Meets
<1>12. Written'
  <2>1. Good(slot'[header.active], sizes, met)
    <3>1. Good(slot[header.active], sizes, met)
      BY <1>2 DEF Written
    <3>2. CASE header.active = n
      <4>1. work[w] \in met
        BY <1>8, <3>2
      <4>2. slot'[n].first \in met \/ slot'[n].second \in met
        BY <1>7, <4>1
      <4> QED BY <3>2, <4>2 DEF Good
    <3>3. CASE header.active = 1 - n
      BY <1>6, <3>1, <3>3
    <3> QED BY <1>4, <1>7, <3>2, <3>3
  <2>2. \A u \in Modes : WrittenBy(u)'
    <3> TAKE u \in Modes
    <3>1. WrittenBy(u)
      BY <1>2 DEF Written
    <3>2. CASE u = w
      BY <1>1, <1>3, <1>6, <1>7, <1>8, <3>2 DEF WrittenBy
    <3>3. CASE u # w
      <4>1. writer_pc'[u] = writer_pc[u] /\ next[u] \in {0, 1}
        BY <1>6, <3>3, SharedParts
      <4>2. CASE writer_pc[u] \notin {"first", "second", "activate"}
        BY <4>1, <4>2 DEF WrittenBy
      <4>3. CASE writer_pc[u] \in {"first", "second", "activate"}
        <5>1. work[w] \in met
          BY <1>1, <1>2, <3>3, <4>3 DEF Meets, Frames!Publishing
        <5>2. CASE next[u] = n
          BY <1>1, <1>6, <1>7, <3>1, <4>1, <5>1, <5>2 DEF WrittenBy
        <5>3. CASE next[u] = 1 - n
          BY <1>1, <1>6, <3>1, <4>1, <5>3 DEF WrittenBy
        <5> QED BY <1>7, <4>1, <5>2, <5>3
      <4> QED BY <4>2, <4>3
    <3> QED BY <3>2, <3>3
  <2> QED BY <1>1, <1>6, <2>1, <2>2 DEF Written
<1>13. Read'
  <2>1. reader.before <= sequence /\ Reading' = Reading
    BY <1>1, <1>2 DEF Read, Reading
  <2>2. ASSUME Reading PROVE Good(View', sizes, met)
    <3>1. Good(View, sizes, met) /\ KeepsOff(w)
      BY <1>2, <2>2 DEF Read
    <3>2. CASE reader.at # n
      <4>1. slot'[reader.at] = slot[reader.at]
        BY <1>4, <1>6, <1>7, <3>2
      <4>2. View' = View
        BY <1>1, <4>1 DEF View
      <4> QED BY <3>1, <4>2
    <3>3. CASE reader.at = n
      <4>1. work[w] \in met
        BY <1>1, <1>8, <3>1, <3>3 DEF KeepsOff
      <4>2. /\ View'.size = View.size
            /\ View'.first \in {View.first, work[w]} /\ View'.second \in {View.second, work[w]}
        BY <1>1, <1>7, <3>3 DEF View
      <4> QED BY <3>1, <4>1, <4>2 DEF Good, Whole
    <3> QED BY <3>2, <3>3
  <2>3. \A u \in Modes : KeepsOff(u) => KeepsOff(u)'
    BY <1>1, <1>6 DEF KeepsOff
  <2> QED BY <1>1, <1>2, <2>1, <2>2, <2>3 DEF Read
<1> QED BY <1>1, <1>2, <1>9, <1>10, <1>11, <1>12, <1>13 DEF SharedInv

\* The slot that a worker has written is good when it becomes the active one.
LEMMA WorkerPublishes ==
  ASSUME SharedInv, NEW w \in Modes, Frames!Activate(w)
  PROVE  SharedInv'
<1>1. /\ UNCHANGED frames /\ UNCHANGED sizes /\ UNCHANGED slot /\ UNCHANGED reader
      /\ UNCHANGED accepted /\ UNCHANGED pending /\ UNCHANGED work /\ UNCHANGED next
      /\ UNCHANGED sequence /\ UNCHANGED met
      /\ writer_pc[w] = "activate" /\ writer_pc' = [writer_pc EXCEPT ![w] = "leave"]
      /\ header' = [header EXCEPT !.active = next[w], !.online = TRUE]
  BY DEF Frames!Activate, Frames!Step, Frames!videoVars, Frames!readerVars, Frames!workerVars
<1>2. /\ SharedBooks /\ Numbers /\ Meets /\ Written /\ Read /\ Good(accepted, sizes, met)
  BY DEF SharedInv
<1>3. writer_pc'[w] = "leave" /\ \A u \in Modes : u # w => writer_pc'[u] = writer_pc[u]
  BY <1>1, PlaceMoves DEF WriterPlaces
<1>4. header'.active = next[w]
  BY <1>1, <1>2, SharedFields
<1>5. SharedBooks'
  BY <1>2, WorkerTyped DEF Frames!Worker
<1>6. Numbers'
  BY <1>1, <1>2 DEF Numbers
<1>7. Meets'
  <2>1. \A u \in Modes : Frames!Publishing(u)' => Frames!Publishing(u)
    BY <1>1, <1>3 DEF Frames!Publishing
  <2> QED BY <1>1, <1>2, <2>1 DEF Meets
\* Whoever else publishes has met this worker.
<1>8. \A u \in Modes : u # w /\ Frames!Publishing(u) => work[u] \in met
  BY <1>1, <1>2 DEF Meets, Frames!Publishing
<1>9. Written'
  <2>1. Good(slot[next[w]], sizes, met)
    <3>1. WrittenBy(w)
      BY <1>2 DEF Written
    <3>2. \/ slot[next[w]].first \in met \/ slot[next[w]].second \in met
          \/ /\ slot[next[w]].first = work[w] /\ slot[next[w]].second = work[w]
             /\ slot[next[w]].size = w
      BY <1>1, <3>1 DEF WrittenBy
    <3>3. work[w] # 0 => sizes[work[w]] = w
      BY <1>2 DEF Numbers
    <3> QED BY <3>2, <3>3 DEF Good, Whole
  <2>2. \A u \in Modes : WrittenBy(u)'
    <3> TAKE u \in Modes
    <3>1. WrittenBy(u)
      BY <1>2 DEF Written
    <3>2. CASE u = w
      BY <1>3, <3>2 DEF WrittenBy
    <3>3. CASE u # w
      BY <1>1, <1>3, <1>8, <3>1, <3>3 DEF WrittenBy, Frames!Publishing
    <3> QED BY <3>2, <3>3
  <2> QED BY <1>1, <1>4, <2>1, <2>2 DEF Written
<1>10. Read'
  <2>1. View' = View /\ Reading' = Reading
    BY <1>1 DEF View, Reading
  <2>2. \A u \in Modes : KeepsOff(u)'
    BY <1>1, <1>3, <1>8 DEF KeepsOff, Frames!Publishing
  <2> QED BY <1>1, <1>2, <2>1, <2>2 DEF Read
<1> QED BY <1>1, <1>2, <1>5, <1>6, <1>7, <1>9, <1>10 DEF SharedInv

\* What a reader reads is compared with the number it read before.
LEMMA ReaderKeeps ==
  ASSUME SharedInv, Frames!Reader
  PROVE  SharedInv'
<1>1. /\ UNCHANGED frames /\ UNCHANGED sizes /\ UNCHANGED pending /\ UNCHANGED work
      /\ UNCHANGED next /\ UNCHANGED sequence /\ UNCHANGED header /\ UNCHANGED slot
      /\ UNCHANGED writer_pc /\ UNCHANGED met
  BY DEF Frames!Reader, Frames!ReadBefore, Frames!ReadHeader, Frames!ReadFirst,
         Frames!ReadSecond, Frames!ReadAfter, Frames!Reads, Frames!videoVars, Frames!workerVars,
         Frames!sharedVars
<1>2. /\ SharedBooks /\ Numbers /\ Meets /\ Written /\ Read /\ Good(accepted, sizes, met)
  BY DEF SharedInv
<1>3. /\ header.active \in {0, 1} /\ reader \in ReaderStates /\ reader.at \in {0, 1}
      /\ sequence \in Nat /\ reader.before <= sequence
  BY <1>2, SharedFields, SharedParts DEF Read
<1>4. /\ slot[reader.at].first <= frames /\ slot[reader.at].second <= frames
      /\ reader.first <= frames /\ reader.second <= frames
      /\ accepted.first <= frames /\ accepted.second <= frames
  BY <1>2, <1>3 DEF Numbers
<1>5. ASSUME reader'.first <= frames, reader'.second <= frames, accepted'.first <= frames,
             accepted'.second <= frames, Good(accepted', sizes, met), Read'
      PROVE  SharedInv'
  <2>1. SharedBooks'
    BY <1>2, ReaderTyped
  <2>2. Numbers'
    BY <1>1, <1>2, <1>5 DEF Numbers
  <2>3. Meets' /\ Written'
    BY <1>1, <1>2 DEF Meets, Frames!Publishing, Written, WrittenBy
  <2> QED BY <1>1, <1>5, <2>1, <2>2, <2>3 DEF SharedInv
<1>6. CASE Frames!ReadBefore
  <2> DEFINE c == IF sequence % 2 = 1 THEN "before" ELSE "header"
  <2>1. c \in {"before", "header"}
    OBVIOUS
  <2>2. accepted' = accepted /\ reader' = [reader EXCEPT !.before = sequence, !.pc = c]
    BY <1>6 DEF Frames!ReadBefore, Frames!Reads
  <2> HIDE DEF c
  <2>3. /\ reader'.pc \in {"before", "header"} /\ reader'.before = sequence
        /\ reader'.first = reader.first /\ reader'.second = reader.second
    BY <1>3, <2>1, <2>2 DEF ReaderStates
  <2>4. Read'
    BY <1>1, <1>3, <2>3 DEF Read, Reading
  <2> QED BY <1>2, <1>4, <1>5, <2>2, <2>3, <2>4
<1>7. CASE Frames!ReadHeader
  <2> DEFINE c == IF slot[header.active].size = header.size THEN "first" ELSE "before"
  <2>1. c \in {"before", "first"} /\ (c = "first" => slot[header.active].size = header.size)
    OBVIOUS
  <2>2. /\ accepted' = accepted
        /\ reader' = [reader EXCEPT !.at = header.active, !.size = header.size, !.pc = c]
    BY <1>7 DEF Frames!ReadHeader, Frames!Reads
  <2> HIDE DEF c
  <2>3. /\ reader'.pc \in {"before", "first"} /\ reader'.before = reader.before
        /\ reader'.pc = "first" => slot[header.active].size = header.size
        /\ reader'.at = header.active /\ reader'.size = header.size
        /\ reader'.first = reader.first /\ reader'.second = reader.second
    BY <1>3, <2>1, <2>2 DEF ReaderStates
  <2>4. Read'
    <3>1. Good(slot[header.active], sizes, met)
      BY <1>2 DEF Written
    <3>2. ASSUME reader'.pc = "first" PROVE Good(View', sizes, met)
      <4>1. View' = [size |-> slot[header.active].size, first |-> slot[header.active].first,
                     second |-> slot[header.active].second]
        BY <1>1, <2>3, <3>2 DEF View
      <4> QED BY <3>1, <4>1 DEF Good, Whole
    <3>3. \A u \in Modes : KeepsOff(u)'
      BY <1>1, <2>3 DEF KeepsOff
    <3> QED BY <1>1, <1>3, <2>3, <3>2, <3>3 DEF Read, Reading
  <2> QED BY <1>2, <1>4, <1>5, <2>2, <2>3, <2>4
<1>8. CASE Frames!ReadFirst \/ Frames!ReadSecond
  <2>1. /\ accepted' = accepted
        /\ \/ reader.pc = "first" /\ reader' = [reader EXCEPT !.first = slot[reader.at].first,
                                                              !.pc = "second"]
           \/ reader.pc = "second" /\ reader' = [reader EXCEPT !.second = slot[reader.at].second,
                                                               !.pc = "after"]
    BY <1>8 DEF Frames!ReadFirst, Frames!ReadSecond, Frames!Reads
  <2>2. /\ reader.pc \in {"first", "second"} /\ reader'.pc \in {"second", "after"}
        /\ reader'.before = reader.before /\ reader'.at = reader.at /\ reader'.size = reader.size
        /\ reader'.first \in {reader.first, slot[reader.at].first}
        /\ reader'.second \in {reader.second, slot[reader.at].second}
    BY <1>3, <2>1 DEF ReaderStates
  <2>3. View' = View
    <3>1. CASE reader.pc = "first" /\ reader' = [reader EXCEPT !.first = slot[reader.at].first,
                                                               !.pc = "second"]
      <4>1. /\ reader'.pc = "second" /\ reader'.first = slot[reader.at].first
            /\ reader'.at = reader.at /\ reader'.size = reader.size
        BY <1>3, <3>1 DEF ReaderStates
      <4> QED BY <1>1, <3>1, <4>1 DEF View
    <3>2. CASE reader.pc = "second" /\ reader' = [reader EXCEPT !.second = slot[reader.at].second,
                                                                !.pc = "after"]
      <4>1. /\ reader'.pc = "after" /\ reader'.second = slot[reader.at].second
            /\ reader'.first = reader.first /\ reader'.size = reader.size
        BY <1>3, <3>2 DEF ReaderStates
      <4> QED BY <1>1, <3>2, <4>1 DEF View
    <3> QED BY <2>1, <3>1, <3>2
  <2>4. Read'
    <3>1. Reading' => Reading
      BY <1>1, <2>2 DEF Reading
    <3>2. \A u \in Modes : KeepsOff(u) => KeepsOff(u)'
      BY <1>1, <2>2 DEF KeepsOff
    <3> QED BY <1>1, <1>2, <1>3, <2>2, <2>3, <3>1, <3>2 DEF Read
  <2>5. reader'.first <= frames /\ reader'.second <= frames
    BY <1>4, <2>2
  <2> QED BY <1>2, <1>4, <1>5, <2>1, <2>4, <2>5
<1>9. CASE Frames!ReadAfter
  <2>1. /\ reader.pc = "after" /\ reader' = [reader EXCEPT !.pc = "before"]
        /\ accepted' = IF sequence = reader.before
                       THEN [size |-> reader.size, first |-> reader.first,
                             second |-> reader.second]
                       ELSE accepted
    BY <1>9 DEF Frames!ReadAfter, Frames!Reads
  <2>2. /\ reader'.pc = "before" /\ reader'.before = reader.before
        /\ reader'.first = reader.first /\ reader'.second = reader.second
    BY <1>3, <2>1 DEF ReaderStates
  <2>3. Read'
    BY <1>1, <1>3, <2>2 DEF Read, Reading
  <2>4. /\ accepted'.first <= frames /\ accepted'.second <= frames
        /\ Good(accepted', sizes, met)
    <3>1. CASE sequence = reader.before
      <4>1. Good(View, sizes, met)
        BY <1>2, <2>1, <3>1 DEF Read, Reading
      <4>2. accepted' = View
        BY <2>1, <3>1 DEF View
      <4>3. View.first = reader.first /\ View.second = reader.second
        BY <2>1 DEF View
      <4> QED BY <1>4, <4>1, <4>2, <4>3
    <3>2. CASE sequence # reader.before
      BY <1>2, <1>4, <2>1, <3>2
    <3> QED BY <3>1, <3>2
  <2> QED BY <1>4, <1>5, <2>2, <2>3, <2>4
<1> QED BY <1>6, <1>7, <1>8, <1>9 DEF Frames!Reader

\* Through every step of the writers and the readers.
LEMMA SharedInductive ==
  /\ Frames!Init => SharedInv
  /\ SharedInv /\ [Frames!Next]_sharedVars => SharedInv'
  /\ SharedInv => Frames!WholeFrames
<1>1. ASSUME Frames!Init PROVE SharedInv
  <2>1. /\ sequence = 2 /\ header = [size |-> "RGB", active |-> 0, online |-> FALSE]
        /\ slot = [s \in {0, 1} |-> [size |-> "RGB", first |-> 0, second |-> 0]]
        /\ frames = 0 /\ pending = [w \in Modes |-> 0] /\ work = [w \in Modes |-> 0]
        /\ writer_pc = [w \in Modes \cup {"video"} |-> "idle"]
        /\ reader = [pc |-> "before", before |-> 0, at |-> 0, size |-> "RGB", first |-> 0,
                     second |-> 0]
        /\ accepted = [size |-> "RGB", first |-> 0, second |-> 0]
    BY <1>1 DEF Frames!Init, Frames!Modes, Frames!Writers, Modes
  <2>2. SharedBooks
    BY <1>1, SharedTyped
  <2>3. \A w \in Modes : pending[w] = 0 /\ work[w] = 0 /\ writer_pc[w] = "idle"
    BY <2>1
  <2>4. Numbers
    BY <2>1, <2>3 DEF Numbers
  <2>5. Meets
    BY <2>3 DEF Meets, Frames!Publishing
  <2>6. Good(slot[header.active], sizes, met) /\ Good(accepted, sizes, met)
    BY <2>1 DEF Good, Whole
  <2>7. Written
    BY <2>3, <2>6 DEF Written, WrittenBy
  <2>8. Read
    BY <2>1 DEF Read, Reading
  <2> QED BY <2>2, <2>4, <2>5, <2>6, <2>7, <2>8 DEF SharedInv
<1>2. ASSUME SharedInv, [Frames!Next]_sharedVars PROVE SharedInv'
  <2>1. ASSUME UNCHANGED sharedVars PROVE SharedInv'
    <3>1. /\ UNCHANGED sequence /\ UNCHANGED header /\ UNCHANGED slot /\ UNCHANGED frames
          /\ UNCHANGED sizes /\ UNCHANGED pending /\ UNCHANGED work /\ UNCHANGED writer_pc
          /\ UNCHANGED next /\ UNCHANGED reader /\ UNCHANGED accepted /\ UNCHANGED met
      BY <2>1 DEF sharedVars
    <3>2. SharedBooks'
      BY <1>2, <2>1, SharedTyped DEF SharedInv
    <3>3. Numbers'
      BY <1>2, <3>1 DEF SharedInv, Numbers
    <3>4. Meets' /\ Written' /\ Good(accepted, sizes, met)'
      BY <1>2, <3>1 DEF SharedInv, Meets, Frames!Publishing, Written, WrittenBy
    <3>5. Read'
      BY <1>2, <3>1 DEF SharedInv, Read, Reading, View, KeepsOff
    <3> QED BY <3>2, <3>3, <3>4, <3>5 DEF SharedInv
  <2>2. ASSUME Frames!Next PROVE SharedInv'
    <3>1. ASSUME NEW w \in Modes, Frames!Worker(w) PROVE SharedInv'
      BY <1>2, <3>1, WorkerTakes, WorkerCounts, WorkerChooses, WorkerCopies, WorkerPublishes
         DEF Frames!Worker
    <3> QED BY <1>2, <2>2, <3>1, SubmitKeeps, OfflineKeeps, ReaderKeeps
            DEF Frames!Next, Frames!Modes, Modes
  <2> QED BY <1>2, <2>1, <2>2
<1>3. SharedInv => Frames!WholeFrames
  BY DEF SharedInv, Frames!WholeFrames, Frames!Whole, Good, Whole
<1> QED BY <1>1, <1>2, <1>3

-----------------------------------------------------------------------------
(* The assembler of frames *)

\* Push and process put frames together in different ways, and a packet has the
\* same outcomes for both: the invariant of FrameAssemblerProofs, and all of its
\* proof but for Push, is that of the Windows assembler also.
Linux == INSTANCE FrameAssemblerProofs WITH frame <- raw

\* What Push returns, with the names of the other assembler.
AsProcessed(p) == [st |-> p.st, fr |-> p.raw, out |-> p.out]

\* The constants and the types of both are the same.
LEMMA LinuxNames ==
  /\ Assembler!Places = Linux!Places /\ Assembler!Unsynced = Linux!Unsynced
  /\ \A i : Assembler!FlagOf(i) = Linux!FlagOf(i)
  /\ Assembler!TypeOK <=> Linux!TypeOK
  /\ Assembler!AssemblerConstants <=> Linux!AssemblerConstants
<1>1. /\ Assembler!Places = Linux!Places /\ Assembler!Unsynced = Linux!Unsynced
      /\ \A i : Assembler!FlagOf(i) = Linux!FlagOf(i)
  BY DEF Assembler!Places, Linux!Places, Assembler!Unsynced, Linux!Unsynced,
         Assembler!FlagOf, Linux!FlagOf
<1>2. Assembler!TypeOK <=> Linux!TypeOK
  BY <1>1 DEF Assembler!TypeOK, Linux!TypeOK
<1>3. Assembler!AssemblerConstants <=> Linux!AssemblerConstants
  BY DEF Assembler!AssemblerConstants, Linux!AssemblerConstants, Assembler!Rounds, Linux!Rounds
<1> QED BY <1>1, <1>2, <1>3

\* A push ends in one of three ways: the packet is not for this frame, and nothing of
\* it is kept;
LEMMA NothingStored ==
  ASSUME NEW q, NEW flag, q.st \in [synced : BOOLEAN, index : Linux!Places, expected : 0..(SeqMod - 1)],
         q.st.synced = FALSE, q.out = "none", q.fr \in [Linux!Places -> {"zero", "own", "alien"}]
  PROVE  Linux!Outcome(q, flag)
BY Zenon DEF Linux!Outcome

\* it is the first of a frame, and the assembler starts with it;
LEMMA FirstStored ==
  ASSUME NEW fr \in [Linux!Places -> {"zero", "own", "alien"}]
  PROVE  Linux!Outcome(Linux!Stored(Linux!Started(dev.seq), fr, "sof"), "sof")
BY Zenon DEF Linux!Outcome

\* or it is the next one of the frame that is being assembled.
LEMMA NextStored ==
  ASSUME NEW flag, asm.synced, asm.index + Linux!Lost \in Linux!Places,
         flag = Linux!FlagOf(asm.index + Linux!Lost),
         asm.index + Linux!Lost = P - 1 => dev.index = P - 1,
         NEW st \in [synced : BOOLEAN, index : Linux!Places, expected : 0..(SeqMod - 1)],
         NEW fr \in [Linux!Places -> {"zero", "own", "alien"}],
         st.synced, st.index = asm.index + Linux!Lost, Linux!Filled(fr, Linux!Lost)
  PROVE  Linux!Outcome(Linux!Stored(st, fr, flag), flag)
BY Zenon DEF Linux!Outcome

\* What Push makes of a packet is one of the outcomes.
LEMMA PushOutcome ==
  ASSUME Assembler!TypeOK, NEW flag \in {"sof", "mof", "eof", "bad"}, NEW damage
  PROVE  Linux!Outcome(AsProcessed(Assembler!Push(flag, damage)), flag)
<1> DEFINE Frames0 == [Linux!Places -> {"zero", "own", "alien"}]
           States == [synced : BOOLEAN, index : Linux!Places, expected : 0..(SeqMod - 1)]
           st   == Assembler!Started(flag)
           lost == (dev.seq - st.expected) % SeqMod
           at   == st.index + lost
           short == Assembler!FilledFrom(st, lost)
           full == [short EXCEPT ![at] = IF at = dev.index THEN "own" ELSE "alien"]
           fits == damage # "long" /\ (at = P - 1 => dev.index = P - 1)
           p == Assembler!Push(flag, damage)
           q == AsProcessed(p)
<1> SUFFICES Linux!Outcome(q, flag)
  OBVIOUS
<1>1. /\ P \in Nat \ {0, 1} /\ SeqMod \in Nat \ {0}
      /\ dev.seq \in 0..(SeqMod - 1) /\ asm \in States /\ raw \in Frames0
      /\ Linux!Places = 0..(P - 1)
  BY AssemblerAssumption, LinuxNames DEF Assembler!AssemblerConstants, Assembler!TypeOK, Linux!Places
<1>2. st \in States
  <2>1. 0 \in Linux!Places
    BY <1>1
  <2> QED BY <1>1, <2>1 DEF Assembler!Started
<1>3. lost \in 0..(SeqMod - 1)
  <2>1. dev.seq - st.expected \in Int
    BY <1>1, <1>2
  <2> HIDE DEF st
  <2> QED BY <1>1, <2>1, Linux!Quotient
<1>4. flag = "sof" => st = Linux!Started(dev.seq) /\ lost = 0
  <2>1. SUFFICES ASSUME flag = "sof" PROVE st = Linux!Started(dev.seq) /\ lost = 0
    OBVIOUS
  <2>2. st = Linux!Started(dev.seq) /\ st.expected = dev.seq
    BY <2>1 DEF Assembler!Started, Linux!Started
  <2>3. dev.seq - st.expected = 0 /\ 0 \in 0..(SeqMod - 1)
    BY <1>1, <2>2
  <2>4. 0 % SeqMod = 0
    BY <1>1, <2>3, Linux!Small
  <2> HIDE DEF st
  <2> QED BY <2>2, <2>3, <2>4
<1>5. flag # "sof" => st = asm /\ lost = Linux!Lost
  BY DEF Assembler!Started, Linux!Lost
<1>6. short \in Frames0 /\ (\A i \in 0..(st.index - 1) : short[i] = raw[i])
      /\ (at \in Linux!Places => \A i \in st.index..(at - 1) : short[i] = "zero")
  <2>1. st.index \in 0..(P - 1)
    BY <1>1, <1>2
  <2>2. short = [i \in Linux!Places |-> IF i \in st.index..(st.index + lost - 1)
                                        THEN "zero" ELSE raw[i]]
    BY LinuxNames DEF Assembler!FilledFrom
  <2> HIDE DEF st, lost, short
  <2>3. short \in Frames0
    BY <1>1, <2>2
  <2>4. ASSUME NEW i \in 0..(st.index - 1) PROVE short[i] = raw[i]
    <3>1. i \in Linux!Places /\ i \notin st.index..(st.index + lost - 1)
      BY <1>1, <1>3, <2>1
    <3> QED BY <2>2, <3>1
  <2>5. ASSUME at \in Linux!Places, NEW i \in st.index..(at - 1) PROVE short[i] = "zero"
    <3>1. i \in Linux!Places /\ i \in st.index..(st.index + lost - 1)
      BY <1>1, <1>3, <2>1, <2>5
    <3> QED BY <2>2, <3>1
  <2> QED BY <2>3, <2>4, <2>5
<1>7. \/ p.st \in States /\ p.st.synced = FALSE /\ p.raw \in Frames0 /\ p.out = "none"
      \/ /\ st.synced /\ at \in Linux!Places /\ flag = Linux!FlagOf(at)
         /\ at = P - 1 => dev.index = P - 1
         /\ p = [st  |-> IF at = P - 1 THEN Linux!Unsynced
                         ELSE [synced |-> TRUE, index |-> at + 1,
                               expected |-> (dev.seq + 1) % SeqMod],
                 raw |-> full,
                 out |-> IF at < P - 1 THEN "none"
                         ELSE IF \E i \in Linux!Places : full[i] = "alien" THEN "mixed"
                         ELSE "frame"]
  <2>1. Linux!Unsynced \in States /\ Linux!Unsynced.synced = FALSE
    BY <1>1 DEF Linux!Unsynced
  <2> DEFINE drop == [st |-> Linux!Unsynced, raw |-> raw, out |-> "none"]
  <2>2. p = IF ~st.synced THEN [drop EXCEPT !.st = asm]
            ELSE IF lost > 0 /\ (lost > MaxLoss \/ at >= P) THEN drop
            ELSE IF flag # Linux!FlagOf(at) \/ ~fits THEN [drop EXCEPT !.raw = short]
            ELSE [st  |-> IF at = P - 1 THEN Linux!Unsynced
                          ELSE [synced |-> TRUE, index |-> at + 1,
                                expected |-> (dev.seq + 1) % SeqMod],
                  raw |-> full,
                  out |-> IF at < P - 1 THEN "none"
                          ELSE IF \E i \in Linux!Places : full[i] = "alien" THEN "mixed"
                          ELSE "frame"]
    BY LinuxNames DEF Assembler!Push
  <2>3. ~st.synced => asm.synced = FALSE
    <3>1. asm.synced \in BOOLEAN
      BY <1>1
    <3>2. ~st.synced => ~asm.synced
      BY DEF Assembler!Started
    <3> QED BY <3>1, <3>2
  <2>4. st.index \in 0..(P - 1)
    BY <1>1, <1>2
  <2>5. CASE ~st.synced
    <3>1. p = [st |-> asm, raw |-> raw, out |-> "none"]
      BY <2>2, <2>5
    <3> HIDE DEF p, st
    <3> QED BY <1>1, <2>3, <2>5, <3>1
  <2>6. CASE st.synced /\ lost > 0 /\ (lost > MaxLoss \/ at >= P)
    <3>1. p = drop
      BY <2>2, <2>6
    <3> HIDE DEF p, st
    <3> QED BY <1>1, <2>1, <3>1
  <2>7. CASE /\ st.synced /\ ~(lost > 0 /\ (lost > MaxLoss \/ at >= P))
             /\ flag # Linux!FlagOf(at) \/ ~fits
    <3>1. p = [st |-> Linux!Unsynced, raw |-> short, out |-> "none"]
      BY <2>2, <2>7
    <3> HIDE DEF p, st, short
    <3> QED BY <1>6, <2>1, <3>1
  <2>8. CASE /\ st.synced /\ ~(lost > 0 /\ (lost > MaxLoss \/ at >= P))
             /\ flag = Linux!FlagOf(at) /\ fits
    <3>1. at \in Linux!Places
      <4> HIDE DEF st, lost
      <4> QED BY <1>1, <1>3, <2>4, <2>8
    <3> QED BY <2>2, <2>8, <3>1
  <2> QED BY <2>5, <2>6, <2>7, <2>8
<1>8. q.st = p.st /\ q.fr = p.raw /\ q.out = p.out /\ q = [st |-> p.st, fr |-> p.raw, out |-> p.out]
  BY DEF AsProcessed
<1>9. CASE p.st \in States /\ p.st.synced = FALSE /\ p.raw \in Frames0 /\ p.out = "none"
  <2> HIDE DEF p, q
  <2>1. /\ q.st \in States /\ q.st.synced = FALSE /\ q.out = "none" /\ q.fr \in Frames0
    BY <1>8, <1>9
  <2> QED BY <2>1, NothingStored
<1>10. CASE /\ st.synced /\ at \in Linux!Places /\ flag = Linux!FlagOf(at)
            /\ at = P - 1 => dev.index = P - 1
            /\ p = [st  |-> IF at = P - 1 THEN Linux!Unsynced
                            ELSE [synced |-> TRUE, index |-> at + 1,
                                  expected |-> (dev.seq + 1) % SeqMod],
                    raw |-> full,
                    out |-> IF at < P - 1 THEN "none"
                            ELSE IF \E i \in Linux!Places : full[i] = "alien" THEN "mixed"
                            ELSE "frame"]
  <2> DEFINE s == [st EXCEPT !.index = at]
  <2>1. s \in States /\ s.synced /\ s.index = at
    <3> HIDE DEF st, at
    <3> QED BY <1>2, <1>10
  <2>2. at < P - 1 <=> at # P - 1
    <3> HIDE DEF at
    <3> QED BY <1>1, <1>10
  <2>3. at = P - 1 <=> flag = "eof"
    <3> HIDE DEF at
    <3> QED BY <1>1, <1>10 DEF Linux!FlagOf
  <2> HIDE DEF p
  <2>4. q = Linux!Stored(s, short, flag)
    <3> HIDE DEF q, s, at, short
    <3> QED BY <1>8, <1>10, <2>1, <2>2, <2>3 DEF Linux!Stored
  <2>5. CASE flag = "sof"
    <3>1. at = 0 /\ s = Linux!Started(dev.seq)
      <4>1. st = Linux!Started(dev.seq) /\ lost = 0 /\ st.index = 0
        BY <1>4, <2>5 DEF Linux!Started
      <4> HIDE DEF st, lost
      <4>2. at = 0
        BY <4>1
      <4> QED BY <4>1, <4>2 DEF Linux!Started
    <3> HIDE DEF q, s, at, short, st, lost
    <3>2. short \in Frames0 /\ q = Linux!Stored(Linux!Started(dev.seq), short, "sof")
      BY <1>6, <2>4, <2>5, <3>1
    <3>3. Linux!Outcome(Linux!Stored(Linux!Started(dev.seq), short, "sof"), "sof")
      BY <3>2, FirstStored
    <3> QED BY <2>5, <3>2, <3>3
  <2>6. CASE flag # "sof"
    <3>1. st = asm /\ lost = Linux!Lost /\ at = asm.index + Linux!Lost
      BY <1>5, <2>6
    <3> HIDE DEF q, s, at, short, st, lost
    <3>2. Linux!Filled(short, Linux!Lost)
      <4>1. short \in Frames0
        BY <1>6
      <4>2. \A i \in 0..(asm.index - 1) : short[i] = raw[i]
        BY <1>6, <3>1
      <4>3. \A i \in asm.index..(asm.index + Linux!Lost - 1) : short[i] = "zero"
        <5>1. \A i \in st.index..(at - 1) : short[i] = "zero"
          BY <1>6, <1>10, Zenon
        <5>2. st.index = asm.index
          BY <3>1
        <5>3. at - 1 = asm.index + Linux!Lost - 1
          <6>1. asm.index \in Int /\ Linux!Lost \in Int
            BY <1>1, <1>3, <3>1
          <6> QED BY <3>1, <6>1
        <5> QED BY <5>1, <5>2, <5>3, Zenon
      <4> QED BY <4>1, <4>2, <4>3, Zenon DEF Linux!Filled
    <3>3. /\ asm.synced /\ asm.index + Linux!Lost \in Linux!Places
          /\ flag = Linux!FlagOf(asm.index + Linux!Lost)
          /\ asm.index + Linux!Lost = P - 1 => dev.index = P - 1
          /\ s.index = asm.index + Linux!Lost
      BY <1>10, <2>1, <3>1
    <3>4. s \in States /\ s.synced /\ short \in Frames0
      BY <1>6, <2>1
    <3>5. Linux!Outcome(Linux!Stored(s, short, flag), flag)
      BY <3>2, <3>3, <3>4, NextStored
    <3> QED BY <2>4, <3>5
  <2> QED BY <2>5, <2>6
<1> HIDE DEF p, q
<1> QED BY <1>7, <1>9, <1>10

\* The invariant of the other assembler, through every step of this one.
LEMMA AssemblerInductive ==
  /\ Assembler!Init => Linux!IInv
  /\ Linux!IInv /\ [Assembler!Next]_assemblerVars => Linux!IInv'
  /\ Linux!IInv => Assembler!TypeOK /\ Assembler!PublishedIsOneFrame
<1>1. Linux!AssemblerConstants
  BY AssemblerAssumption, LinuxNames
<1>2. Assembler!Init => Linux!IInv
  <2>1. Assembler!Init => Linux!Init
    BY LinuxNames DEF Assembler!Init, Linux!Init, Linux!Zeros
  <2> QED BY <1>1, <2>1, Linux!Initial
<1>3. ASSUME Linux!IInv, [Assembler!Next]_assemblerVars PROVE Linux!IInv'
  <2>1. CASE UNCHANGED assemblerVars
    BY <1>3, <2>1 DEF assemblerVars, Linux!IInv, Linux!TypeOK, Linux!InStep, Linux!Shifted,
                      Linux!PublishedIsOneFrame
  <2>2. ASSUME NEW buffer0, NEW ok, Assembler!Advance(buffer0, ok)
        PROVE  Linux!Advance(buffer0, ok)
    BY <2>2, LinuxNames DEF Assembler!Advance, Linux!Advance
  <2>3. CASE Assembler!Lose
    <3>1. Linux!Lose
      BY <2>2, <2>3 DEF Assembler!Lose, Linux!Lose
    <3> QED BY <1>1, <1>3, <3>1, Linux!LoseStep
  <2>4. CASE Assembler!Reset
    <3>1. Linux!Restart
      BY <2>4, LinuxNames DEF Assembler!Reset, Linux!Restart
    <3> QED BY <1>1, <1>3, <3>1, Linux!RestartStep
  <2>5. ASSUME NEW damage \in {"none", "flag", "long"}, Assembler!Receive(damage)
        PROVE  Linux!IInv'
    <3> DEFINE flag == IF damage = "flag" THEN "bad" ELSE Assembler!FlagOf(dev.index)
               p == Assembler!Push(flag, damage)
    <3>1. flag \in {"sof", "mof", "eof", "bad"} /\ flag \in {"bad", Linux!FlagOf(dev.index)}
      BY LinuxNames DEF Assembler!FlagOf
    <3>2. asm' = p.st /\ out' = p.out /\ gap' = 0 /\ Assembler!Advance(p.raw, damage = "none")
      BY <2>5 DEF Assembler!Receive
    <3> HIDE DEF flag
    <3>3. Linux!Outcome(AsProcessed(p), flag)
      BY <1>3, <3>1, PushOutcome, LinuxNames DEF Linux!IInv
    <3> HIDE DEF p
    <3> DEFINE r == AsProcessed(p)
    <3>4. r.st = p.st /\ r.fr = p.raw /\ r.out = p.out
      BY DEF AsProcessed
    <3> HIDE DEF r
    <3>5. (damage = "none") \in BOOLEAN /\ Linux!Advance(r.fr, damage = "none")
      BY <2>2, <3>2, <3>4
    <3>6. Linux!Outcome(r, flag) /\ asm' = r.st /\ out' = r.out
      BY <3>2, <3>3, <3>4 DEF r
    <3> QED BY <1>1, <1>3, <3>1, <3>2, <3>5, <3>6, Linux!OutcomeStep
  <2> QED BY <1>3, <2>1, <2>3, <2>4, <2>5 DEF Assembler!Next
<1>4. Linux!IInv => Assembler!TypeOK /\ Assembler!PublishedIsOneFrame
  BY LinuxNames DEF Linux!IInv, Linux!PublishedIsOneFrame, Assembler!PublishedIsOneFrame
<1> QED BY <1>2, <1>3, <1>4

-----------------------------------------------------------------------------
(* The scanner port *)

PortMasks  == {m \in Requests : Scanner!ValidMask(m)}
PortPids   == {PidOf[h] : h \in Handlers}
PortPlaces == {"none", "read", "store", "add", "tell", "stream", "leave"}
StopPlaces == {"run", "snapshot", "tell", "join", "threads", "clear", "stopped"}

\* A handler is there for its session from TryAddClient to RemoveClient.
Held == {"tell", "stream", "leave"}

\* What m_clientsLock guards: the list, and what is counted or derived from it.
ListOK ==
  /\ clients \subseteq [token : 1..MaxTokens, pid : PortPids, mask : PortMasks]
  /\ streamMask = Scanner!Aggregate(clients)
  /\ issued \in 0..MaxTokens /\ released \in BOOLEAN
  /\ \A c \in clients : c.token <= issued
  /\ \A c, d \in clients : c.token = d.token => c = d

\* Every session has its thread, and every thread a session.
HandlersOK ==
  /\ pc \in [Handlers -> PortPlaces] /\ session \in [Handlers -> 0..MaxTokens]
  /\ want \in [Handlers -> {{}} \cup Requests \cup Settings]
  /\ \A h \in Handlers : /\ pc[h] = "add" => want[h] \in PortMasks
                         /\ pc[h] = "store" => want[h] \in Settings
                         /\ pc[h] \in Held => session[h] \in 1..MaxTokens
  /\ \A c \in clients : \E h \in Handlers : session[h] = c.token /\ pc[h] \in Held

\* A handler that is yet to start is not running; Stop has joined the acceptor, and
\* then every handler, before it clears the list.
StopOK ==
  /\ acceptor \in {"listen", "done"} \cup Handlers /\ stopper \in StopPlaces
  /\ \A h \in Handlers : acceptor = h => pc[h] = "none"
  /\ stopper \in {"threads", "clear", "stopped"} => acceptor = "done"
  /\ stopper \in {"clear", "stopped"} => \A h \in Handlers : pc[h] = "none"

\* The rest has its type.
PortTypes ==
  /\ rgbHqUnavailable \in BOOLEAN /\ hqWorks \in BOOLEAN
  /\ stopped \subseteq 1..MaxTokens
  /\ todo \in [Scanner!PortThreads -> SUBSET (1..MaxTokens)]
  /\ video \in {"other", "hq", "erase", "tell"}
  /\ registry \in {{}} \cup Settings /\ settings \in {{}} \cup Settings

ScannerInv == ListOK /\ HandlersOK /\ StopOK /\ PortTypes

\* The tokens of sessions on the list.
LEMMA TokensAre ==
  ASSUME ListOK, NEW S, S \subseteq clients
  PROVE  Scanner!Tokens(S) \subseteq 1..MaxTokens
BY DEF ListOK, Scanner!Tokens

\* ListOK holds on as long as nothing of the list changes ...
LEMMA ListStays ==
  ASSUME ListOK, UNCHANGED clients, UNCHANGED streamMask, UNCHANGED issued, UNCHANGED released
  PROVE  ListOK'
BY DEF ListOK, Scanner!Aggregate

\* ... and when sessions are taken off it.
LEMMA ListShrinks ==
  ASSUME ListOK, clients' \subseteq clients, streamMask' = Scanner!Aggregate(clients'),
         UNCHANGED issued, released' \in BOOLEAN
  PROVE  ListOK'
BY DEF ListOK

\* A handler that goes from one place to another keeps its session, if it has one.
LEMMA HandlerMoves ==
  ASSUME HandlersOK, NEW h \in Handlers, NEW to \in PortPlaces, UNCHANGED clients,
         UNCHANGED session, pc' = [pc EXCEPT ![h] = to],
         want' \in [Handlers -> {{}} \cup Requests \cup Settings],
         \A k \in Handlers \ {h} : want'[k] = want[k],
         to = "add" => want'[h] \in PortMasks, to = "store" => want'[h] \in Settings,
         pc[h] \in Held <=> to \in Held
  PROVE  HandlersOK'
<1>1. pc' \in [Handlers -> PortPlaces] /\ session' \in [Handlers -> 0..MaxTokens]
  BY DEF HandlersOK
<1>2. pc'[h] = to /\ \A k \in Handlers \ {h} : pc'[k] = pc[k]
  BY DEF HandlersOK
<1>3. ASSUME NEW k \in Handlers
      PROVE  /\ pc'[k] = "add" => want'[k] \in PortMasks
             /\ pc'[k] = "store" => want'[k] \in Settings
             /\ pc'[k] \in Held => session'[k] \in 1..MaxTokens
             /\ pc'[k] \in Held <=> pc[k] \in Held
  BY <1>2, <1>3 DEF HandlersOK
<1>4. \A c \in clients' : \E k \in Handlers : session'[k] = c.token /\ pc'[k] \in Held
  BY <1>3 DEF HandlersOK
<1> QED BY <1>1, <1>3, <1>4 DEF HandlersOK

\* A handler that is there has not been joined, nor the acceptor that starts it.
LEMMA StopWaits ==
  ASSUME StopOK, pc \in [Handlers -> PortPlaces], NEW h \in Handlers, NEW to \in PortPlaces,
         pc' = [pc EXCEPT ![h] = to], UNCHANGED stopper,
         \/ pc[h] # "none" /\ UNCHANGED acceptor
         \/ acceptor = h /\ acceptor' = "listen"
  PROVE  StopOK'
<1>1. \A k \in Handlers : k # "done" /\ k # "listen"
  BY PortAssumption
<1>2. stopper \notin {"clear", "stopped"}
  BY <1>1 DEF StopOK
<1>3. acceptor = h => stopper # "threads"
  BY <1>1 DEF StopOK
<1>4. \A k \in Handlers : acceptor' = k => pc'[k] = "none"
  BY <1>1 DEF StopOK
<1>5. acceptor' \in {"listen", "done"} \cup Handlers /\ stopper' \in StopPlaces
  BY DEF StopOK
<1> QED BY <1>2, <1>3, <1>4, <1>5 DEF StopOK

\* What a thread tells are tokens.
LEMMA Tells ==
  ASSUME PortTypes, NEW t \in Scanner!PortThreads, Scanner!Tell(t)
  PROVE  stopped' \subseteq 1..MaxTokens /\ todo' \in [Scanner!PortThreads -> SUBSET (1..MaxTokens)]
<1>1. todo \in [Scanner!PortThreads -> SUBSET (1..MaxTokens)] /\ stopped \subseteq 1..MaxTokens
  BY DEF PortTypes
<1>2. stopped' = stopped \cup todo[t] /\ todo' = [todo EXCEPT ![t] = {}]
  BY DEF Scanner!Tell
<1>3. todo[t] \subseteq 1..MaxTokens
  BY <1>1
<1>4. stopped' \subseteq 1..MaxTokens
  BY <1>1, <1>2, <1>3
<1> QED BY <1>1, <1>2, <1>4

\* A step of a handler that leaves the list alone.
LEMMA HandlerGoes ==
  ASSUME ScannerInv, NEW h \in Handlers, NEW to \in PortPlaces,
         UNCHANGED clients, UNCHANGED streamMask, UNCHANGED issued, UNCHANGED released,
         UNCHANGED session, UNCHANGED stopper, UNCHANGED rgbHqUnavailable, UNCHANGED hqWorks,
         UNCHANGED video,
         pc' = [pc EXCEPT ![h] = to], pc[h] \in Held <=> to \in Held,
         \/ pc[h] # "none" /\ UNCHANGED acceptor
         \/ acceptor = h /\ acceptor' = "listen",
         want' \in [Handlers -> {{}} \cup Requests \cup Settings],
         \A k \in Handlers \ {h} : want'[k] = want[k],
         to = "add" => want'[h] \in PortMasks, to = "store" => want'[h] \in Settings,
         stopped' \subseteq 1..MaxTokens,
         todo' \in [Scanner!PortThreads -> SUBSET (1..MaxTokens)],
         registry' \in {{}} \cup Settings, settings' \in {{}} \cup Settings
  PROVE  ScannerInv'
<1>1. ListOK /\ HandlersOK /\ StopOK /\ PortTypes
  BY DEF ScannerInv
<1>2. ListOK'
  BY <1>1, ListStays
<1>3. HandlersOK'
  BY <1>1, HandlerMoves
<1>4. StopOK'
  BY <1>1, StopWaits DEF HandlersOK
<1>5. PortTypes'
  BY <1>1 DEF PortTypes
<1> QED BY <1>2, <1>3, <1>4, <1>5 DEF ScannerInv

\* Steps of the handlers that leave the list alone.
LEMMA HandlerKeeps ==
  ASSUME ScannerInv, NEW h \in Handlers,
         \/ Scanner!StartHandler(h) \/ Scanner!ReadSubscribe(h) \/ Scanner!ReadOther(h)
         \/ Scanner!SaveDriverSettings(h) \/ Scanner!StoreDriverSettings(h) \/ Scanner!Refuse(h)
         \/ Scanner!TellSuperseded(h) \/ Scanner!LoopEnds(h) \/ Scanner!ClientGone(h)
  PROVE  ScannerInv' /\ UNCHANGED clients /\ UNCHANGED issued /\ UNCHANGED released
<1>1. ListOK /\ HandlersOK /\ StopOK /\ PortTypes
  BY DEF ScannerInv
<1>2. /\ pc \in [Handlers -> PortPlaces] /\ want \in [Handlers -> {{}} \cup Requests \cup Settings]
      /\ {} \in {{}} \cup Requests \cup Settings /\ h \in Scanner!PortThreads
      /\ pc[h] = "store" => want[h] \in Settings
      /\ acceptor = h => pc[h] = "none"
  BY <1>1 DEF HandlersOK, StopOK, Scanner!PortThreads
<1>3. /\ UNCHANGED clients /\ UNCHANGED streamMask /\ UNCHANGED issued /\ UNCHANGED released
      /\ UNCHANGED session /\ UNCHANGED stopper /\ UNCHANGED rgbHqUnavailable
      /\ UNCHANGED hqWorks /\ UNCHANGED video
  BY DEF Scanner!StartHandler, Scanner!ReadSubscribe, Scanner!ReadOther,
         Scanner!SaveDriverSettings, Scanner!StoreDriverSettings, Scanner!Refuse,
         Scanner!TellSuperseded, Scanner!LoopEnds, Scanner!ClientGone, Scanner!Leaves,
         Scanner!Unshared
<1>4. /\ stopped \subseteq 1..MaxTokens /\ todo \in [Scanner!PortThreads -> SUBSET (1..MaxTokens)]
      /\ registry \in {{}} \cup Settings /\ settings \in {{}} \cup Settings
  BY <1>1 DEF PortTypes
<1>5. ASSUME want' = want \/ want' = [want EXCEPT ![h] = {}]
      PROVE  /\ want' \in [Handlers -> {{}} \cup Requests \cup Settings]
             /\ \A k \in Handlers \ {h} : want'[k] = want[k]
  BY <1>2, <1>5
<1>6. CASE Scanner!StartHandler(h)
  <2>1. /\ acceptor = h /\ acceptor' = "listen" /\ pc' = [pc EXCEPT ![h] = "read"]
        /\ UNCHANGED want /\ UNCHANGED stopped /\ UNCHANGED todo /\ UNCHANGED registry
        /\ UNCHANGED settings
    BY <1>6 DEF Scanner!StartHandler
  <2>2. "read" \in PortPlaces /\ (pc[h] \in Held <=> "read" \in Held)
    BY <1>2, <2>1 DEF PortPlaces, Held
  <2> QED BY <1>2, <1>3, <1>4, <2>1, <2>2, HandlerGoes
<1>7. CASE Scanner!ReadSubscribe(h)
  <2>1. /\ pc[h] = "read" /\ pc' = [pc EXCEPT ![h] = "add"]
        /\ \E m \in PortMasks : want' = [want EXCEPT ![h] = m]
        /\ UNCHANGED acceptor /\ UNCHANGED stopped /\ UNCHANGED todo /\ UNCHANGED registry
        /\ UNCHANGED settings
    BY <1>7 DEF Scanner!ReadSubscribe, Scanner!At, Scanner!Unshared, PortMasks
  <2>2. PICK m \in PortMasks : want' = [want EXCEPT ![h] = m]
    BY <2>1
  <2>3. "add" \in PortPlaces /\ (pc[h] \in Held <=> "add" \in Held) /\ m \in Requests
    BY <2>1 DEF PortPlaces, Held, PortMasks
  <2>4. /\ want' \in [Handlers -> {{}} \cup Requests \cup Settings] /\ want'[h] \in PortMasks
        /\ \A k \in Handlers \ {h} : want'[k] = want[k]
    BY <1>2, <2>2, <2>3
  <2> QED BY <1>3, <1>4, <2>1, <2>3, <2>4, HandlerGoes
<1>8. CASE Scanner!ReadOther(h)
  <2>1. /\ pc[h] = "read" /\ pc' = [pc EXCEPT ![h] = "none"] /\ UNCHANGED want
        /\ UNCHANGED acceptor /\ UNCHANGED stopped /\ UNCHANGED todo /\ UNCHANGED registry
        /\ UNCHANGED settings
    BY <1>8 DEF Scanner!ReadOther, Scanner!At, Scanner!Unshared
  <2>2. /\ "none" \in PortPlaces /\ (pc[h] \in Held <=> "none" \in Held) /\ pc[h] # "none"
        /\ "none" # "add" /\ "none" # "store"
    BY <2>1 DEF PortPlaces, Held
  <2>3. /\ want' \in [Handlers -> {{}} \cup Requests \cup Settings]
        /\ \A k \in Handlers \ {h} : want'[k] = want[k]
    BY <1>5, <2>1
  <2> QED BY <1>3, <1>4, <2>1, <2>2, <2>3, HandlerGoes
<1>9. CASE Scanner!SaveDriverSettings(h)
  <2>1. /\ pc[h] = "read" /\ pc' = [pc EXCEPT ![h] = "store"]
        /\ \E s \in Settings : registry' = s /\ want' = [want EXCEPT ![h] = s]
        /\ UNCHANGED acceptor /\ UNCHANGED stopped /\ UNCHANGED todo /\ UNCHANGED settings
    BY <1>9 DEF Scanner!SaveDriverSettings, Scanner!At, Scanner!Unshared
  <2>2. PICK s \in Settings : registry' = s /\ want' = [want EXCEPT ![h] = s]
    BY <2>1
  <2>3. "store" \in PortPlaces /\ (pc[h] \in Held <=> "store" \in Held)
    BY <2>1 DEF PortPlaces, Held
  <2>4. /\ want' \in [Handlers -> {{}} \cup Requests \cup Settings] /\ want'[h] \in Settings
        /\ \A k \in Handlers \ {h} : want'[k] = want[k]
    BY <1>2, <2>2
  <2> QED BY <1>3, <1>4, <2>1, <2>2, <2>3, <2>4, HandlerGoes
<1>10. CASE Scanner!StoreDriverSettings(h)
  <2>1. /\ pc[h] = "store" /\ pc' = [pc EXCEPT ![h] = "none"] /\ settings' = want[h]
        /\ want' = [want EXCEPT ![h] = {}]
        /\ UNCHANGED acceptor /\ UNCHANGED stopped /\ UNCHANGED todo /\ UNCHANGED registry
    BY <1>10 DEF Scanner!StoreDriverSettings, Scanner!At, Scanner!Unshared
  <2>2. /\ "none" \in PortPlaces /\ (pc[h] \in Held <=> "none" \in Held) /\ pc[h] # "none"
        /\ "none" # "add" /\ "none" # "store"
    BY <2>1 DEF PortPlaces, Held
  <2>3. /\ want' \in [Handlers -> {{}} \cup Requests \cup Settings]
        /\ \A k \in Handlers \ {h} : want'[k] = want[k]
    BY <1>5, <2>1
  <2>4. settings' \in {{}} \cup Settings
    BY <1>2, <2>1
  <2> QED BY <1>3, <1>4, <2>1, <2>4, <2>2, <2>3, HandlerGoes
<1>11. CASE Scanner!Refuse(h)
  <2>1. /\ pc[h] = "add" /\ pc' = [pc EXCEPT ![h] = "none"]
        /\ want' = [want EXCEPT ![h] = {}]
        /\ UNCHANGED acceptor /\ UNCHANGED stopped /\ UNCHANGED todo /\ UNCHANGED registry
        /\ UNCHANGED settings
    BY <1>11 DEF Scanner!Refuse, Scanner!At, Scanner!Unshared
  <2>2. /\ "none" \in PortPlaces /\ (pc[h] \in Held <=> "none" \in Held) /\ pc[h] # "none"
        /\ "none" # "add" /\ "none" # "store"
    BY <2>1 DEF PortPlaces, Held
  <2>3. /\ want' \in [Handlers -> {{}} \cup Requests \cup Settings]
        /\ \A k \in Handlers \ {h} : want'[k] = want[k]
    BY <1>5, <2>1
  <2> QED BY <1>3, <1>4, <2>1, <2>2, <2>3, HandlerGoes
<1>12. CASE Scanner!TellSuperseded(h)
  <2>1. /\ pc[h] = "tell" /\ pc' = [pc EXCEPT ![h] = "stream"] /\ UNCHANGED want
        /\ Scanner!Tell(h) /\ UNCHANGED acceptor /\ UNCHANGED registry /\ UNCHANGED settings
    BY <1>12 DEF Scanner!TellSuperseded, Scanner!At
  <2>2. stopped' \subseteq 1..MaxTokens /\ todo' \in [Scanner!PortThreads -> SUBSET (1..MaxTokens)]
    BY <1>1, <1>2, <2>1, Tells
  <2>3. /\ "stream" \in PortPlaces /\ (pc[h] \in Held <=> "stream" \in Held) /\ pc[h] # "none"
        /\ "stream" # "add" /\ "stream" # "store"
    BY <2>1 DEF PortPlaces, Held
  <2>4. /\ want' \in [Handlers -> {{}} \cup Requests \cup Settings]
        /\ \A k \in Handlers \ {h} : want'[k] = want[k]
    BY <1>5, <2>1
  <2> QED BY <1>3, <1>4, <2>1, <2>2, <2>3, <2>4, HandlerGoes
<1>13. CASE Scanner!LoopEnds(h) \/ Scanner!ClientGone(h)
  <2>1. /\ pc[h] = "stream" /\ pc' = [pc EXCEPT ![h] = "leave"] /\ UNCHANGED want
        /\ UNCHANGED acceptor /\ UNCHANGED stopped /\ UNCHANGED todo /\ UNCHANGED registry
        /\ UNCHANGED settings
    BY <1>13 DEF Scanner!LoopEnds, Scanner!ClientGone, Scanner!Leaves, Scanner!At,
                 Scanner!Unshared
  <2>2. /\ "leave" \in PortPlaces /\ (pc[h] \in Held <=> "leave" \in Held) /\ pc[h] # "none"
        /\ "leave" # "add" /\ "leave" # "store"
    BY <2>1 DEF PortPlaces, Held
  <2>3. /\ want' \in [Handlers -> {{}} \cup Requests \cup Settings]
        /\ \A k \in Handlers \ {h} : want'[k] = want[k]
    BY <1>5, <2>1
  <2> QED BY <1>3, <1>4, <2>1, <2>2, <2>3, HandlerGoes
<1>14. ScannerInv'
  BY <1>6, <1>7, <1>8, <1>9, <1>10, <1>11, <1>12, <1>13
<1> QED BY <1>3, <1>14

\* Steps of the acceptor, the video thread and Stop that leave the list alone.
LEMMA OthersKeep ==
  ASSUME ScannerInv,
         \/ \E h \in Handlers : Scanner!Connect(h)
         \/ Scanner!AcceptorEnds
         \/ Scanner!SwitchToHq \/ Scanner!SwitchFromHq \/ Scanner!Mark \/ Scanner!TellHq
         \/ Scanner!StopBegins \/ Scanner!StopSnapshot \/ Scanner!StopTells
         \/ Scanner!StopJoinsAcceptor \/ Scanner!StopJoinsHandlers
  PROVE  ScannerInv' /\ UNCHANGED clients /\ UNCHANGED issued /\ UNCHANGED released
<1>1. ListOK /\ HandlersOK /\ StopOK /\ PortTypes
  BY DEF ScannerInv
<1>2. /\ UNCHANGED clients /\ UNCHANGED streamMask /\ UNCHANGED issued /\ UNCHANGED released
      /\ UNCHANGED pc /\ UNCHANGED want /\ UNCHANGED session
      /\ UNCHANGED hqWorks /\ UNCHANGED registry /\ UNCHANGED settings
  BY DEF Scanner!Connect, Scanner!AcceptorEnds, Scanner!SwitchToHq, Scanner!SwitchFromHq,
         Scanner!Mark, Scanner!TellHq, Scanner!VideoStep, Scanner!StopBegins,
         Scanner!StopSnapshot, Scanner!StopTells, Scanner!StopJoinsAcceptor,
         Scanner!StopJoinsHandlers, Scanner!StopStep
<1>3. ListOK'
  BY <1>1, <1>2, ListStays
<1>4. HandlersOK'
  <2>1. HandlersOK
    BY <1>1
  <2> QED BY <1>2, <2>1 DEF HandlersOK
<1>5. ASSUME PortTypes', StopOK' PROVE ScannerInv'
  BY <1>3, <1>4, <1>5 DEF ScannerInv
<1>6. "video" \in Scanner!PortThreads /\ "stop" \in Scanner!PortThreads
  BY DEF Scanner!PortThreads
<1>7. ASSUME UNCHANGED stopped, UNCHANGED todo, UNCHANGED rgbHqUnavailable, UNCHANGED video
      PROVE  PortTypes'
  BY <1>1, <1>2, <1>7 DEF PortTypes
<1>8. ASSUME NEW h \in Handlers, Scanner!Connect(h) PROVE ScannerInv'
  <2>1. /\ acceptor = "listen" /\ pc[h] = "none" /\ acceptor' = h
        /\ UNCHANGED stopper /\ UNCHANGED stopped /\ UNCHANGED todo
        /\ UNCHANGED rgbHqUnavailable /\ UNCHANGED video
    BY <1>8 DEF Scanner!Connect
  <2>2. PortTypes'
    BY <1>7, <2>1
  <2>3. StopOK'
    BY <1>1, <1>2, <2>1 DEF StopOK
  <2> QED BY <1>5, <2>2, <2>3
<1>9. CASE Scanner!AcceptorEnds
  <2>1. /\ acceptor' = "done" /\ UNCHANGED stopper /\ UNCHANGED stopped /\ UNCHANGED todo
        /\ UNCHANGED rgbHqUnavailable /\ UNCHANGED video
    BY <1>9 DEF Scanner!AcceptorEnds
  <2>2. PortTypes'
    BY <1>7, <2>1
  <2>3. \A h \in Handlers : h # "done"
    BY PortAssumption
  <2>4. StopOK'
    BY <1>1, <1>2, <2>1, <2>3 DEF StopOK
  <2> QED BY <1>2, <1>5, <2>2, <2>4
<1>10. CASE \/ Scanner!SwitchToHq \/ Scanner!SwitchFromHq \/ Scanner!Mark \/ Scanner!TellHq
  <2>1. UNCHANGED acceptor /\ UNCHANGED stopper
    BY <1>10 DEF Scanner!SwitchToHq, Scanner!SwitchFromHq, Scanner!Mark, Scanner!TellHq,
                 Scanner!VideoStep
  <2>2. StopOK'
    BY <1>1, <1>2, <2>1 DEF StopOK
  <2>3. video' \in {"other", "hq", "erase", "tell"} /\ rgbHqUnavailable' \in BOOLEAN
    BY <1>1, <1>10 DEF Scanner!SwitchToHq, Scanner!SwitchFromHq, Scanner!Mark,
                       Scanner!TellHq, Scanner!VideoStep, PortTypes
  <2>4. (UNCHANGED stopped /\ UNCHANGED todo) \/ Scanner!Tell("video")
    BY <1>10 DEF Scanner!SwitchToHq, Scanner!SwitchFromHq, Scanner!Mark, Scanner!TellHq
  <2>5. /\ stopped' \subseteq 1..MaxTokens
        /\ todo' \in [Scanner!PortThreads -> SUBSET (1..MaxTokens)]
    <3>1. CASE UNCHANGED stopped /\ UNCHANGED todo
      BY <1>1, <3>1 DEF PortTypes
    <3>2. CASE Scanner!Tell("video")
      BY <1>1, <1>6, <3>2, Tells
    <3> QED BY <2>4, <3>1, <3>2
  <2>6. PortTypes'
    BY <1>1, <1>2, <2>3, <2>5 DEF PortTypes
  <2> QED BY <1>2, <1>5, <2>2, <2>6
<1>11. CASE \/ Scanner!StopBegins \/ Scanner!StopSnapshot \/ Scanner!StopTells
            \/ Scanner!StopJoinsAcceptor \/ Scanner!StopJoinsHandlers
  <2>1. /\ UNCHANGED acceptor /\ UNCHANGED rgbHqUnavailable /\ UNCHANGED video
        /\ stopper' \in {"snapshot", "tell", "join"}
           \/ (stopper' = "threads" /\ acceptor = "done")
           \/ (stopper = "threads" /\ stopper' = "clear" /\ \A h \in Handlers : pc[h] = "none")
    BY <1>11 DEF Scanner!StopBegins, Scanner!StopSnapshot, Scanner!StopTells,
                 Scanner!StopJoinsAcceptor, Scanner!StopJoinsHandlers, Scanner!StopStep
  <2>2. StopOK'
    BY <1>1, <1>2, <2>1 DEF StopOK, StopPlaces
  <2>3. /\ stopped' \subseteq 1..MaxTokens
        /\ todo' \in [Scanner!PortThreads -> SUBSET (1..MaxTokens)]
    <3>1. CASE Scanner!StopSnapshot
      <4>1. todo' = [todo EXCEPT !["stop"] = Scanner!Tokens(clients)] /\ UNCHANGED stopped
        BY <3>1 DEF Scanner!StopSnapshot
      <4>2. Scanner!Tokens(clients) \subseteq 1..MaxTokens
        BY <1>1, TokensAre
      <4> QED BY <1>1, <1>6, <4>1, <4>2 DEF PortTypes
    <3>2. CASE Scanner!StopTells
      <4>1. Scanner!Tell("stop")
        BY <3>2 DEF Scanner!StopTells
      <4> QED BY <1>1, <1>6, <4>1, Tells
    <3>3. CASE Scanner!StopBegins \/ Scanner!StopJoinsAcceptor \/ Scanner!StopJoinsHandlers
      <4>1. UNCHANGED stopped /\ UNCHANGED todo
        BY <3>3 DEF Scanner!StopBegins, Scanner!StopJoinsAcceptor, Scanner!StopJoinsHandlers
      <4> QED BY <1>1, <4>1 DEF PortTypes
    <3> QED BY <1>11, <3>1, <3>2, <3>3
  <2>4. PortTypes'
    <3>1. PortTypes
      BY <1>1
    <3> QED BY <1>2, <2>1, <2>3, <3>1 DEF PortTypes
  <2> QED BY <1>2, <1>5, <2>2, <2>4
<1>12. ScannerInv'
  BY <1>8, <1>9, <1>10, <1>11
<1> QED BY <1>2, <1>12

\* TryAddClient: the sessions of the same process go, the new one comes, and it is
\* compatible with every other one. For the arbiter a process gets what it asks for.
LEMMA ClientAdded ==
  ASSUME ScannerInv, NEW h \in Handlers, Scanner!TryAddClient(h)
  PROVE  ScannerInv' /\ PidOf[h] \in PortPids /\ want[h] \in PortMasks
         /\ Scanner!Arbiter!Grant(PidOf[h], want[h])
<1> DEFINE n      == issued + 1
           g      == [token |-> n, pid |-> PidOf[h], mask |-> want[h]]
           others == clients \ Scanner!Superseded(h)
<1>1. ListOK /\ HandlersOK /\ StopOK /\ PortTypes
  BY DEF ScannerInv
<1>2. /\ pc[h] = "add" /\ pc' = [pc EXCEPT ![h] = "tell"] /\ ~Scanner!Conflict(h)
      /\ issued < MaxTokens /\ issued' = n /\ session' = [session EXCEPT ![h] = n]
      /\ clients' = others \cup {g} /\ streamMask' = Scanner!Aggregate(clients')
      /\ todo' = [todo EXCEPT ![h] = Scanner!Tokens(Scanner!Superseded(h))]
      /\ UNCHANGED stopped /\ UNCHANGED want /\ UNCHANGED acceptor /\ UNCHANGED stopper
      /\ UNCHANGED released /\ UNCHANGED rgbHqUnavailable /\ UNCHANGED video
      /\ UNCHANGED hqWorks /\ UNCHANGED registry /\ UNCHANGED settings
  BY DEF Scanner!TryAddClient, Scanner!At, Scanner!SetClients
<1>3. /\ PidOf[h] \in PortPids /\ want[h] \in PortMasks /\ MaxTokens \in Nat
      /\ issued \in Nat /\ n \in 1..MaxTokens
  <2>1. issued \in 0..MaxTokens /\ MaxTokens \in Nat
    BY <1>1, BoundsAssumption DEF ListOK
  <2>2. PidOf[h] \in PortPids /\ want[h] \in PortMasks
    BY <1>1, <1>2 DEF HandlersOK, PortPids
  <2> QED BY <1>2, <2>1, <2>2
<1>4. /\ g \in [token : 1..MaxTokens, pid : PortPids, mask : PortMasks] /\ g.token = n
      /\ g.mask = want[h]
  BY <1>3
<1>5. /\ others \subseteq clients
      /\ \A c \in clients : c.token \in 1..MaxTokens /\ c.token <= issued
  BY <1>1 DEF ListOK
<1>6. ListOK'
  <2>1. clients' \subseteq [token : 1..MaxTokens, pid : PortPids, mask : PortMasks]
    BY <1>1, <1>2, <1>4, <1>5 DEF ListOK
  <2>2. \A c \in clients' : c.token <= issued'
    BY <1>2, <1>3, <1>4, <1>5
  <2>3. ASSUME NEW c \in clients', NEW d \in clients', c.token = d.token PROVE c = d
    <3>1. \A e \in others : e.token # n
      BY <1>3, <1>5
    <3>2. CASE c \in others /\ d \in others
      BY <1>1, <1>5, <2>3, <3>2 DEF ListOK
    <3>3. CASE c = g \/ d = g
      BY <1>2, <1>4, <2>3, <3>1, <3>3
    <3> QED BY <1>2, <3>2, <3>3
  <2>4. issued' \in 0..MaxTokens /\ released' \in BOOLEAN
    BY <1>1, <1>2, <1>3 DEF ListOK
  <2> QED BY <1>2, <2>1, <2>2, <2>3, <2>4 DEF ListOK
<1>7. "tell" \in PortPlaces /\ "tell" \in Held /\ pc[h] \notin Held /\ pc[h] # "none"
  BY <1>2 DEF PortPlaces, Held
<1>8. pc \in [Handlers -> PortPlaces] /\ session \in [Handlers -> 0..MaxTokens]
  BY <1>1 DEF HandlersOK
<1>9. /\ pc' \in [Handlers -> PortPlaces] /\ session' \in [Handlers -> 0..MaxTokens]
      /\ pc'[h] = "tell" /\ session'[h] = n
      /\ \A k \in Handlers \ {h} : pc'[k] = pc[k] /\ session'[k] = session[k]
  BY <1>2, <1>3, <1>7, <1>8
<1>10. HandlersOK'
  <2>1. want' \in [Handlers -> {{}} \cup Requests \cup Settings]
    BY <1>1, <1>2 DEF HandlersOK
  <2>2. ASSUME NEW k \in Handlers
        PROVE  /\ pc'[k] = "add" => want'[k] \in PortMasks
               /\ pc'[k] = "store" => want'[k] \in Settings
               /\ pc'[k] \in Held => session'[k] \in 1..MaxTokens
    BY <1>1, <1>2, <1>3, <1>9 DEF HandlersOK
  <2>3. ASSUME NEW c \in clients'
        PROVE  \E k \in Handlers : session'[k] = c.token /\ pc'[k] \in Held
    <3>1. CASE c = g
      BY <1>4, <1>7, <1>9, <3>1
    <3>2. CASE c \in others
      <4>1. PICK k \in Handlers : session[k] = c.token /\ pc[k] \in Held
        BY <1>1, <1>5, <3>2 DEF HandlersOK
      <4> QED BY <1>7, <1>9, <4>1
    <3> QED BY <1>2, <3>1, <3>2
  <2> QED BY <1>9, <2>1, <2>2, <2>3 DEF HandlersOK
<1>11. StopOK'
  BY <1>1, <1>2, <1>7, <1>8, StopWaits
<1>12. PortTypes'
  <2>1. Scanner!Tokens(Scanner!Superseded(h)) \subseteq 1..MaxTokens
    BY <1>1, TokensAre DEF Scanner!Superseded
  <2>2. todo \in [Scanner!PortThreads -> SUBSET (1..MaxTokens)]
    BY <1>1 DEF PortTypes
  <2>3. todo' \in [Scanner!PortThreads -> SUBSET (1..MaxTokens)]
    BY <1>2, <2>1, <2>2
  <2> QED BY <1>1, <1>2, <2>3 DEF PortTypes
<1>13. Scanner!Arbiter!Grant(PidOf[h], want[h])
  <2>1. others = {c \in clients : c.pid # PidOf[h] \/ PidOf[h] = NoPid}
    BY DEF Scanner!Superseded
  <2>2. ASSUME NEW c \in others PROVE Scanner!Arbiter!Compatible(c.mask, want[h])
    <3>1. \A s \in c.mask : s \in Scanner!Aggregate(others)
      BY DEF Scanner!Aggregate
    <3>2. /\ ~(want[h] \cap Scanner!Color # {} /\ "IR" \in Scanner!Aggregate(others))
          /\ ~("IR" \in want[h] /\ Scanner!Aggregate(others) \cap Scanner!Color # {})
      BY <1>2 DEF Scanner!Conflict
    <3> QED BY <3>1, <3>2 DEF Scanner!Arbiter!Compatible, Scanner!Color
  <2>3. /\ [kept |-> others, off |-> released] \in Scanner!Arbiter!Survivors(others)
        /\ [kept |-> others, off |-> released].kept = others
        /\ [kept |-> others, off |-> released].off = released
    BY DEF Scanner!Arbiter!Survivors
  <2> HIDE DEF others
  <2>4. \E s \in Scanner!Arbiter!Survivors(others) :
          released' = s.off /\ clients' = s.kept \cup {g}
    BY <1>2, <2>3
  <2> QED BY <1>2, <2>1, <2>2, <2>4 DEF Scanner!Arbiter!Grant
<1> QED BY <1>3, <1>6, <1>10, <1>11, <1>12, <1>13 DEF ScannerInv

\* RemoveClient: the one session with this token goes, if it is still there.
LEMMA ClientRemoved ==
  ASSUME ScannerInv, NEW h \in Handlers, Scanner!RemoveClient(h)
  PROVE  /\ ScannerInv'
         /\ \/ \E g \in clients : Scanner!Arbiter!GiveBack(g)
            \/ UNCHANGED clients /\ UNCHANGED issued /\ UNCHANGED released
<1>1. ListOK /\ HandlersOK /\ StopOK /\ PortTypes
  BY DEF ScannerInv
<1>2. /\ pc[h] = "leave" /\ pc' = [pc EXCEPT ![h] = "none"]
      /\ stopped' = stopped \cup {session[h]}
      /\ clients' = {c \in clients : c.token # session[h]}
      /\ streamMask' = Scanner!Aggregate(clients')
      /\ session' = [session EXCEPT ![h] = 0] /\ want' = [want EXCEPT ![h] = {}]
      /\ UNCHANGED issued /\ UNCHANGED todo /\ UNCHANGED acceptor /\ UNCHANGED stopper
      /\ UNCHANGED released /\ UNCHANGED rgbHqUnavailable /\ UNCHANGED video
      /\ UNCHANGED hqWorks /\ UNCHANGED registry /\ UNCHANGED settings
  BY DEF Scanner!RemoveClient, Scanner!At, Scanner!SetClients
<1>3. ListOK'
  BY <1>1, <1>2, ListShrinks DEF ListOK
<1>4. /\ pc \in [Handlers -> PortPlaces] /\ session \in [Handlers -> 0..MaxTokens]
      /\ want \in [Handlers -> {{}} \cup Requests \cup Settings]
  BY <1>1 DEF HandlersOK
<1>5. "none" \in PortPlaces /\ "none" \notin Held /\ pc[h] \in Held /\ pc[h] # "none"
  BY <1>2 DEF PortPlaces, Held
<1>6. /\ pc' \in [Handlers -> PortPlaces] /\ session' \in [Handlers -> 0..MaxTokens]
      /\ want' \in [Handlers -> {{}} \cup Requests \cup Settings] /\ pc'[h] = "none"
      /\ \A k \in Handlers \ {h} :
           pc'[k] = pc[k] /\ session'[k] = session[k] /\ want'[k] = want[k]
  <2>1. 0 \in 0..MaxTokens
    BY BoundsAssumption
  <2> QED BY <1>2, <1>4, <1>5, <2>1
<1>7. HandlersOK'
  <2>1. ASSUME NEW k \in Handlers
        PROVE  /\ pc'[k] = "add" => want'[k] \in PortMasks
               /\ pc'[k] = "store" => want'[k] \in Settings
               /\ pc'[k] \in Held => session'[k] \in 1..MaxTokens
    <3>1. CASE k = h
      BY <1>5, <1>6, <3>1
    <3>2. CASE k # h
      BY <1>1, <1>6, <3>2 DEF HandlersOK
    <3> QED BY <3>1, <3>2
  <2>2. ASSUME NEW c \in clients'
        PROVE  \E k \in Handlers : session'[k] = c.token /\ pc'[k] \in Held
    <3>1. c \in clients /\ c.token # session[h]
      BY <1>2
    <3>2. PICK k \in Handlers : session[k] = c.token /\ pc[k] \in Held
      BY <1>1, <3>1 DEF HandlersOK
    <3> QED BY <1>6, <3>1, <3>2
  <2> QED BY <1>6, <2>1, <2>2 DEF HandlersOK
<1>8. StopOK'
  BY <1>1, <1>2, <1>4, <1>5, StopWaits
<1>9. PortTypes'
  <2>1. session[h] \in 1..MaxTokens
    BY <1>1, <1>5 DEF HandlersOK
  <2> QED BY <1>1, <1>2, <2>1 DEF PortTypes
<1>10. CASE \E c \in clients : c.token = session[h]
  <2>1. PICK g \in clients : g.token = session[h]
    BY <1>10
  <2>2. clients' = clients \ {g}
    BY <1>1, <1>2, <2>1 DEF ListOK
  <2>3. /\ [kept |-> clients \ {g}, off |-> released] \in Scanner!Arbiter!Survivors(clients \ {g})
        /\ [kept |-> clients \ {g}, off |-> released].kept = clients \ {g}
        /\ [kept |-> clients \ {g}, off |-> released].off = released
    BY DEF Scanner!Arbiter!Survivors
  <2>4. Scanner!Arbiter!GiveBack(g)
    BY <1>2, <2>2, <2>3 DEF Scanner!Arbiter!GiveBack
  <2> QED BY <1>3, <1>7, <1>8, <1>9, <2>4 DEF ScannerInv
<1>11. CASE \A c \in clients : c.token # session[h]
  <2>1. clients' = clients
    BY <1>2, <1>11
  <2> QED BY <1>2, <1>3, <1>7, <1>8, <1>9, <2>1 DEF ScannerInv
<1> QED BY <1>10, <1>11

\* The two steps that take every session, or every one for RGB HQ, off the list.
LEMMA ListCleared ==
  ASSUME ScannerInv, Scanner!EraseHq \/ Scanner!StopClears
  PROVE  /\ ScannerInv'
         /\ \/ Scanner!Arbiter!GiveUpHq
            \/ UNCHANGED clients /\ UNCHANGED issued /\ UNCHANGED released
<1>1. ListOK /\ HandlersOK /\ StopOK /\ PortTypes
  BY DEF ScannerInv
<1>2. /\ UNCHANGED issued /\ UNCHANGED pc /\ UNCHANGED want /\ UNCHANGED session
      /\ UNCHANGED acceptor /\ UNCHANGED hqWorks /\ UNCHANGED registry /\ UNCHANGED settings
      /\ UNCHANGED rgbHqUnavailable /\ UNCHANGED stopped
      /\ clients' \subseteq clients /\ streamMask' = Scanner!Aggregate(clients')
  BY DEF Scanner!EraseHq, Scanner!StopClears, Scanner!VideoStep, Scanner!StopStep,
         Scanner!SetClients
<1>3. released' \in BOOLEAN
  BY <1>1 DEF Scanner!EraseHq, Scanner!StopClears, Scanner!StopStep, ListOK
<1>4. ListOK'
  BY <1>1, <1>2, <1>3, ListShrinks
<1>5. HandlersOK'
  <2>1. HandlersOK
    BY <1>1
  <2> QED BY <1>2, <2>1 DEF HandlersOK
<1>6. CASE Scanner!EraseHq
  <2> DEFINE gone == {c \in clients : "HQ" \in c.mask}
  <2>1. /\ clients' = {c \in clients : "HQ" \notin c.mask} /\ released' = TRUE
        /\ todo' = [todo EXCEPT !["video"] = Scanner!Tokens(gone)]
        /\ video' = "tell" /\ UNCHANGED stopper
    BY <1>6 DEF Scanner!EraseHq, Scanner!VideoStep, Scanner!SetClients
  <2>2. StopOK'
    <3>1. StopOK
      BY <1>1
    <3> QED BY <1>2, <2>1, <3>1 DEF StopOK
  <2>3. Scanner!Tokens(gone) \subseteq 1..MaxTokens
    BY <1>1, TokensAre
  <2>4. PortTypes'
    <3>1. PortTypes
      BY <1>1
    <3>2. todo' \in [Scanner!PortThreads -> SUBSET (1..MaxTokens)]
      BY <2>1, <2>3, <3>1 DEF PortTypes
    <3> QED BY <1>2, <2>1, <3>1, <3>2 DEF PortTypes
  <2>5. NoPid \in PortPids \cup {NoPid}
        /\ clients' = {c \in clients : "HQ" \notin c.mask \/ (c.pid = NoPid /\ NoPid # NoPid)}
    BY <2>1
  <2>6. Scanner!Arbiter!GiveUpHq
    BY <1>2, <2>1, <2>5 DEF Scanner!Arbiter!GiveUpHq, PortPids
  <2> QED BY <1>4, <1>5, <2>2, <2>4, <2>6 DEF ScannerInv
<1>7. CASE Scanner!StopClears
  <2>1. /\ stopper = "clear" /\ stopper' = "stopped" /\ clients' = {}
        /\ UNCHANGED todo /\ UNCHANGED video /\ UNCHANGED released
    BY <1>7 DEF Scanner!StopClears, Scanner!StopStep, Scanner!SetClients
  <2>2. clients = {}
    BY <1>1, <2>1 DEF StopOK, HandlersOK, Held
  <2>3. StopOK'
    <3>1. StopOK
      BY <1>1
    <3> QED BY <1>2, <2>1, <3>1 DEF StopOK, StopPlaces
  <2>4. PortTypes'
    <3>1. PortTypes
      BY <1>1
    <3> QED BY <1>2, <2>1, <3>1 DEF PortTypes
  <2> QED BY <1>2, <1>4, <1>5, <2>1, <2>2, <2>3, <2>4 DEF ScannerInv
<1> QED BY <1>6, <1>7

\* The invariant holds, and gives what is checked of the port: streams in the mask are
\* those of the sessions on the list, which have a thread that takes them off again.
LEMMA ScannerInductive ==
  /\ Scanner!Init => ScannerInv
  /\ ScannerInv /\ [Scanner!Next]_scannerVars => ScannerInv'
  /\ ScannerInv => Scanner!TypeOK /\ Scanner!DemandIsOwned
<1>1. Scanner!Init => ScannerInv
  <2> SUFFICES ASSUME Scanner!Init PROVE ScannerInv
    OBVIOUS
  <2>1. 0 \in 0..MaxTokens
    BY BoundsAssumption
  <2>2. ListOK
    BY <2>1 DEF Scanner!Init, ListOK, Scanner!Aggregate
  <2>3. HandlersOK
    BY <2>1 DEF Scanner!Init, HandlersOK, PortPlaces, Held
  <2>4. StopOK
    BY DEF Scanner!Init, StopOK, StopPlaces
  <2>5. PortTypes
    BY DEF Scanner!Init, PortTypes
  <2> QED BY <2>2, <2>3, <2>4, <2>5 DEF ScannerInv
<1>2. ScannerInv /\ [Scanner!Next]_scannerVars => ScannerInv'
  <2> SUFFICES ASSUME ScannerInv, [Scanner!Next]_scannerVars PROVE ScannerInv'
    OBVIOUS
  <2>1. CASE UNCHANGED scannerVars
    BY <2>1 DEF scannerVars, ScannerInv, ListOK, Scanner!Aggregate, HandlersOK, StopOK, PortTypes
  <2>2. CASE Scanner!Next
    BY <2>2, HandlerKeeps, OthersKeep, ClientAdded, ClientRemoved, ListCleared
       DEF Scanner!Next, Scanner!Handler, Scanner!Video, Scanner!Stop
  <2> QED BY <2>1, <2>2
<1>3. ScannerInv => Scanner!TypeOK
  <2> SUFFICES ASSUME ScannerInv PROVE Scanner!TypeOK
    OBVIOUS
  <2>1. ListOK /\ HandlersOK /\ StopOK /\ PortTypes
    BY DEF ScannerInv
  <2>2. clients \subseteq [token : 1..MaxTokens, pid : PortPids, mask : PortMasks]
    BY <2>1 DEF ListOK
  <2>3. streamMask \subseteq {"RGB", "HQ", "IR", "DEPTH"}
    <3>1. \A c \in clients : c.mask \subseteq {"RGB", "HQ", "IR", "DEPTH"}
      BY <2>2, PortAssumption DEF PortMasks
    <3>2. streamMask = UNION {c.mask : c \in clients}
      BY <2>1 DEF ListOK, Scanner!Aggregate
    <3> QED BY <3>1, <3>2
  <2>4. /\ {rgbHqUnavailable, released} \subseteq BOOLEAN /\ hqWorks \in BOOLEAN
        /\ issued \in 0..MaxTokens /\ stopped \subseteq 1..MaxTokens
    BY <2>1 DEF ListOK, PortTypes
  <2>5. /\ pc \in [Handlers -> PortPlaces] /\ session \in [Handlers -> 0..MaxTokens]
        /\ want \in [Handlers -> {{}} \cup Requests \cup Settings]
    BY <2>1 DEF HandlersOK
  <2>6. acceptor \in {"listen", "done"} \cup Handlers /\ stopper \in StopPlaces
    BY <2>1 DEF StopOK
  <2>7. /\ todo \in [Scanner!PortThreads -> SUBSET (1..MaxTokens)]
        /\ video \in {"other", "hq", "erase", "tell"}
        /\ registry \in {{}} \cup Settings /\ settings \in {{}} \cup Settings
    BY <2>1 DEF PortTypes
  <2> QED BY <2>2, <2>3, <2>4, <2>5, <2>6, <2>7
          DEF Scanner!TypeOK, PortPids, PortMasks, PortPlaces, StopPlaces
<1>4. ScannerInv => Scanner!DemandIsOwned
  BY DEF ScannerInv, ListOK, HandlersOK, Held, Scanner!DemandIsOwned
<1> QED BY <1>1, <1>2, <1>3, <1>4

\* Every step of the port is one of the arbiter, or none.
LEMMA ArbiterStep ==
  ASSUME ScannerInv, [Scanner!Next]_scannerVars
  PROVE  [Scanner!Arbiter!Next]_(Scanner!Arbiter!vars)
<1>1. CASE UNCHANGED scannerVars
  BY <1>1 DEF scannerVars, Scanner!Arbiter!vars
<1>2. ASSUME NEW h \in Handlers, Scanner!TryAddClient(h) PROVE Scanner!Arbiter!Next
  <2>1. PidOf[h] \in PortPids /\ want[h] \in PortMasks
        /\ Scanner!Arbiter!Grant(PidOf[h], want[h])
    BY <1>2, ClientAdded
  <2> QED BY <2>1 DEF Scanner!Arbiter!Next, PortPids, PortMasks
<1>3. ASSUME (\E h \in Handlers : Scanner!RemoveClient(h))
             \/ Scanner!EraseHq \/ Scanner!StopClears
      PROVE  Scanner!Arbiter!Next \/ UNCHANGED Scanner!Arbiter!vars
  BY <1>3, ClientRemoved, ListCleared DEF Scanner!Arbiter!Next, Scanner!Arbiter!vars
<1>4. CASE Scanner!Next
  BY <1>2, <1>3, <1>4, HandlerKeeps, OthersKeep
     DEF Scanner!Next, Scanner!Handler, Scanner!Video, Scanner!Stop, Scanner!Arbiter!vars
<1> QED BY <1>1, <1>4

\* The port starts as the arbiter does.
LEMMA ArbiterStart == Scanner!Init => Scanner!Arbiter!Init
BY DEF Scanner!Init, Scanner!Arbiter!Init

-----------------------------------------------------------------------------
(* The registry of the Kinects and their virtual cameras *)

ManifestRows == [state : {"none", "present", "reconnecting"}, camera : BOOLEAN]

\* The types of the constants that bound the registry.
LEMMA RegistryBounds ==
  /\ Grace \in Nat \ {0} /\ MaxMoves \in Nat /\ MaxFaults \in Nat
  /\ 0 \in 0..Grace /\ Grace \in 0..Grace /\ 0 \in 0..(Grace + 1)
  /\ 0 \in 0..MaxMoves /\ 0 \in 0..MaxFaults
<1>1. Grace \in Nat \ {0} /\ MaxMoves \in Nat /\ MaxFaults \in Nat
  BY BoundsAssumption
<1> QED BY <1>1

\* The types, one by one.
LEMMA RegistryFields ==
  ASSUME Registry!TypeOK
  PROVE  /\ plugged \in [Kinects -> 0..2] /\ seen \in [Kinects -> 0..2]
         /\ nodes \in [Kinects -> 0..2]
         /\ unseen \in [Kinects -> 0..Grace] /\ missing \in [Kinects -> 0..(Grace + 1)]
         /\ virtual \subseteq Kinects /\ system \subseteq Kinects /\ remembered \subseteq Kinects
         /\ installs \subseteq Kinects /\ removals \subseteq Kinects
         /\ manifest \in [Kinects -> ManifestRows]
         /\ bridge_pc \in {"enumerate", "virtual", "registrar", "write"}
         /\ moves \in 0..MaxMoves /\ bridge_faults \in 0..MaxFaults
BY DEF Registry!TypeOK, ManifestRows

\* A fault is counted within its bound, and so is a move of a Kinect.
LEMMA RegistryCounts ==
  ASSUME Registry!TypeOK
  PROVE  /\ Registry!Fault \/ UNCHANGED bridge_faults => bridge_faults' \in 0..MaxFaults
         /\ moves < MaxMoves /\ moves' = moves + 1 => moves' \in 0..MaxMoves
<1>1. bridge_faults \in 0..MaxFaults /\ moves \in 0..MaxMoves
  BY RegistryFields
<1> QED BY <1>1, RegistryBounds DEF Registry!Fault

\* RunBridgeLoop: an enumeration, which counts the passes without a Kinect.
LEMMA EnumerateTyped ==
  ASSUME Registry!TypeOK, Registry!Enumerate
  PROVE  Registry!TypeOK'
<1>1. /\ seen' = plugged /\ bridge_pc' = "virtual"
      /\ UNCHANGED <<plugged, moves, system, remembered, installs, removals, virtual, manifest>>
  BY DEF Registry!Enumerate, Registry!Goes, Registry!envVars, Registry!camVars, Registry!toDo
<1>2. unseen' \in [Kinects -> 0..Grace] /\ missing' \in [Kinects -> 0..(Grace + 1)]
  <2>1. unseen' = [k \in Kinects |-> IF plugged[k] # 0 THEN 0
                                     ELSE IF unseen[k] < Grace THEN unseen[k] + 1 ELSE Grace]
        /\ missing' = [k \in Kinects |-> IF plugged[k] # 0 THEN 0 ELSE missing[k]]
    BY DEF Registry!Enumerate
  <2>2. \A k \in Kinects : (IF plugged[k] # 0 THEN 0
                            ELSE IF unseen[k] < Grace THEN unseen[k] + 1 ELSE Grace) \in 0..Grace
    BY RegistryFields, RegistryBounds
  <2>3. \A k \in Kinects : (IF plugged[k] # 0 THEN 0 ELSE missing[k]) \in 0..(Grace + 1)
    BY RegistryFields, RegistryBounds
  <2> QED BY <2>1, <2>2, <2>3
<1>3. nodes' \in [Kinects -> 0..2] /\ bridge_faults' \in 0..MaxFaults
  <2>1. PICK failed \in SUBSET Kinects :
          /\ nodes' = [k \in Kinects |->
               IF k \in failed \/ (plugged[k] = 0 /\ unseen'[k] >= Grace) THEN 0
               ELSE IF plugged[k] # 0 THEN plugged[k] ELSE nodes[k]]
          /\ Registry!Fault \/ UNCHANGED bridge_faults
    BY DEF Registry!Enumerate
  <2>2. bridge_faults' \in 0..MaxFaults
    BY <2>1, RegistryCounts
  <2>3. \A k \in Kinects :
          (IF k \in failed \/ (plugged[k] = 0 /\ unseen'[k] >= Grace) THEN 0
           ELSE IF plugged[k] # 0 THEN plugged[k] ELSE nodes[k]) \in 0..2
    BY RegistryFields
  <2> QED BY <2>1, <2>2, <2>3
<1> QED BY <1>1, <1>2, <1>3, RegistryFields DEF Registry!TypeOK, ManifestRows

\* ... and what the registrar has to install and to remove.
LEMMA ReadVirtualTyped ==
  ASSUME Registry!TypeOK, Registry!ReadVirtual
  PROVE  Registry!TypeOK'
<1>1. /\ bridge_pc' = "registrar" /\ virtual' = Registry!VirtualIds
      /\ installs' = Registry!Present \ virtual'
      /\ removals' = {k \in virtual' \ Registry!Present : Registry!Overdue(k)}
      /\ UNCHANGED <<plugged, moves, system, remembered, seen, nodes, unseen, manifest,
                     bridge_faults>>
  BY DEF Registry!ReadVirtual, Registry!Goes, Registry!envVars, Registry!camVars,
         Registry!nodeVars
<1>2. virtual' \subseteq Kinects /\ installs' \subseteq Kinects /\ removals' \subseteq Kinects
  BY <1>1, RegistryFields DEF Registry!VirtualIds, Registry!Present
<1>3. missing' \in [Kinects -> 0..(Grace + 1)]
  <2>1. missing' = [k \in Kinects |->
          IF k \notin virtual' \ Registry!Present \/ Registry!Overdue(k) THEN 0
          ELSE missing[k] + 1]
    BY DEF Registry!ReadVirtual
  <2>2. \A k \in Kinects :
          (IF k \notin virtual' \ Registry!Present \/ Registry!Overdue(k) THEN 0
           ELSE missing[k] + 1) \in 0..(Grace + 1)
    BY RegistryFields, RegistryBounds DEF Registry!Overdue
  <2> QED BY <2>1, <2>2
<1> QED BY <1>1, <1>2, <1>3, RegistryFields DEF Registry!TypeOK, ManifestRows

\* The registrar
LEMMA RegistrarTyped ==
  ASSUME Registry!TypeOK,
         Registry!InstallVirtual \/ Registry!RemoveVirtual \/ Registry!RegistrarDone
  PROVE  Registry!TypeOK'
<1>1. /\ UNCHANGED <<plugged, moves, seen, nodes, unseen, missing, manifest>>
      /\ bridge_pc' \in {"registrar", "write"}
  BY DEF Registry!InstallVirtual, Registry!RemoveVirtual, Registry!RegistrarDone,
         Registry!Goes, Registry!envVars, Registry!nodeVars
<1>2. bridge_faults' \in 0..MaxFaults
  <2>1. Registry!Fault \/ UNCHANGED bridge_faults
    BY DEF Registry!InstallVirtual, Registry!RemoveVirtual, Registry!RegistrarDone
  <2> QED BY <2>1, RegistryCounts
<1>3. /\ system' \subseteq Kinects /\ remembered' \subseteq Kinects
      /\ virtual' \subseteq Kinects /\ installs' \subseteq Kinects /\ removals' \subseteq Kinects
  <2>1. CASE Registry!InstallVirtual
    BY <2>1, RegistryFields DEF Registry!InstallVirtual
  <2>2. CASE Registry!RemoveVirtual
    BY <2>2, RegistryFields DEF Registry!RemoveVirtual
  <2>3. CASE Registry!RegistrarDone
    BY <2>3, RegistryFields
       DEF Registry!RegistrarDone, Registry!VirtualIds, Registry!camVars, Registry!toDo
  <2> QED BY <2>1, <2>2, <2>3
<1> QED BY <1>1, <1>2, <1>3, RegistryFields DEF Registry!TypeOK, ManifestRows

\* WriteDeviceManifest, a restart of the service, and a Kinect that comes or goes
LEMMA ManifestTyped ==
  ASSUME Registry!TypeOK, Registry!Write \/ Registry!Restart \/ Registry!Plug
  PROVE  Registry!TypeOK'
<1>1. CASE Registry!Write
  <2>1. /\ UNCHANGED <<plugged, moves, system, remembered, seen, nodes, unseen, installs,
                       removals, missing, virtual>>
        /\ bridge_pc' = "enumerate"
        /\ manifest' = Registry!Listed \/ UNCHANGED manifest
        /\ Registry!Fault \/ UNCHANGED bridge_faults
    BY <1>1 DEF Registry!Write, Registry!Goes, Registry!envVars, Registry!camVars,
                Registry!nodeVars, Registry!toDo
  <2>2. Registry!Listed \in [Kinects -> ManifestRows]
    <3>1. \A k \in Kinects : (k \in virtual) \in BOOLEAN
      OBVIOUS
    <3> QED BY <3>1 DEF Registry!Listed, Registry!Unlisted, ManifestRows
  <2>3. bridge_faults' \in 0..MaxFaults
    BY <2>1, RegistryCounts
  <2> QED BY <2>1, <2>2, <2>3, RegistryFields DEF Registry!TypeOK, ManifestRows
<1>2. CASE Registry!Restart
  <2>1. /\ UNCHANGED <<plugged, moves, system, remembered>>
        /\ bridge_pc' = "enumerate" /\ installs' = {} /\ removals' = {} /\ virtual' = {}
        /\ seen' = [k \in Kinects |-> 0] /\ nodes' = [k \in Kinects |-> 0]
        /\ missing' = [k \in Kinects |-> 0] /\ unseen' = [k \in Kinects |-> Grace]
        /\ manifest' = [k \in Kinects |-> Registry!Unlisted]
    BY <1>2 DEF Registry!Restart, Registry!envVars, Registry!camVars
  <2>2. bridge_faults' \in 0..MaxFaults
    BY <1>2, RegistryCounts DEF Registry!Restart
  <2>3. Registry!Unlisted \in ManifestRows
    BY DEF Registry!Unlisted, ManifestRows
  <2>4. manifest' \in [Kinects -> ManifestRows]
    BY <2>1, <2>3
  <2>5. /\ seen' \in [Kinects -> 0..2] /\ nodes' \in [Kinects -> 0..2]
        /\ missing' \in [Kinects -> 0..(Grace + 1)] /\ unseen' \in [Kinects -> 0..Grace]
    BY <2>1, RegistryBounds
  <2> QED BY <2>1, <2>2, <2>4, <2>5, RegistryFields DEF Registry!TypeOK, ManifestRows
<1>3. CASE Registry!Plug
  <2>1. UNCHANGED <<system, remembered, seen, nodes, unseen, installs, removals, missing,
                    virtual, manifest, bridge_pc, bridge_faults>>
    BY <1>3 DEF Registry!Plug, Registry!camVars, Registry!nodeVars, Registry!toDo
  <2>2. moves' \in 0..MaxMoves
    BY <1>3, RegistryCounts DEF Registry!Plug
  <2>3. plugged' \in [Kinects -> 0..2]
    BY <1>3, RegistryFields DEF Registry!Plug
  <2> QED BY <2>1, <2>2, <2>3, RegistryFields DEF Registry!TypeOK, ManifestRows
<1> QED BY <1>1, <1>2, <1>3

\* The registry keeps its types.
LEMMA RegistryInductive ==
  /\ Registry!Init => Registry!TypeOK
  /\ Registry!TypeOK /\ [Registry!Next]_registryVars => Registry!TypeOK'
<1>1. ASSUME Registry!Init PROVE Registry!TypeOK
  <2>1. /\ plugged \in [Kinects -> 0..2] /\ seen = [k \in Kinects |-> 0]
        /\ nodes = [k \in Kinects |-> 0] /\ missing = [k \in Kinects |-> 0]
        /\ unseen = [k \in Kinects |-> Grace]
        /\ virtual = {} /\ installs = {} /\ removals = {} /\ bridge_pc = "enumerate"
        /\ moves = 0 /\ bridge_faults = 0 /\ manifest = [k \in Kinects |-> Registry!Unlisted]
        /\ system \subseteq Kinects /\ remembered \subseteq Kinects
    BY <1>1 DEF Registry!Init
  <2>2. Registry!Unlisted \in ManifestRows
    BY DEF Registry!Unlisted, ManifestRows
  <2>3. manifest \in [Kinects -> ManifestRows]
    BY <2>1, <2>2
  <2>4. /\ seen \in [Kinects -> 0..2] /\ nodes \in [Kinects -> 0..2]
        /\ missing \in [Kinects -> 0..(Grace + 1)] /\ unseen \in [Kinects -> 0..Grace]
    BY <2>1, RegistryBounds
  <2> QED BY <2>1, <2>3, <2>4, RegistryBounds DEF Registry!TypeOK, ManifestRows
<1>2. ASSUME Registry!TypeOK, [Registry!Next]_registryVars PROVE Registry!TypeOK'
  <2>1. CASE UNCHANGED registryVars
    BY <1>2, <2>1 DEF registryVars, Registry!TypeOK
  <2> QED BY <1>2, <2>1, EnumerateTyped, ReadVirtualTyped, RegistrarTyped, ManifestTyped
          DEF Registry!Next, Registry!Loop
<1> QED BY <1>1, <1>2

-----------------------------------------------------------------------------
(* The IP camera *)

\* Whoever reads frames reads them of a Kinect, whose lease it renews.
IpInv ==
  /\ Ip!TypeOK /\ Ip!CountsAreRight
  /\ encoder = "read" => device \in Sources

\* The threads that g_activeClients and g_authenticatedClients stand for.
Visitors == {v \in Viewers : viewer[v] # "away"}
Watching == {v \in Viewers : viewer[v] \in {"stream", "answer"}}
ViewerStates == {"away", "accepted", "request", "stream", "answer", "closing"}

\* The types, one by one.
LEMMA IpFields ==
  ASSUME IpInv
  PROVE  /\ gRunning \in BOOLEAN /\ stopEvent \in BOOLEAN /\ listener \in BOOLEAN
         /\ sourceOnline \in BOOLEAN /\ blocked \in BOOLEAN
         /\ runtime \in {"wait", "join", "gone"}
         /\ server \in {"start", "disabled", "loop", "accept", "ended"}
         /\ encoder \in {"start", "select", "read", "ended"} /\ device \in Sources \cup {0}
         /\ lease \subseteq Sources /\ ready \subseteq Sources
         /\ online \subseteq Sources /\ fresh \subseteq Sources
         /\ viewer \in [Viewers -> ViewerStates]
         /\ active \in 0..MaxClients /\ auth \in 0..MaxClients /\ ip_unseen \subseteq Viewers
         /\ failures \in 0..AuthFailureLimit /\ ip_moves \in 0..IpMoves
         /\ MaxClients \in Nat \ {0} /\ AuthFailureLimit \in Nat \ {0} /\ IpMoves \in Nat
<1>1. MaxClients \in Nat \ {0} /\ AuthFailureLimit \in Nat \ {0} /\ IpMoves \in Nat
  BY BoundsAssumption
<1>2. {gRunning, stopEvent, listener, sourceOnline, blocked} \subseteq BOOLEAN
  BY DEF IpInv, Ip!TypeOK
<1>3. /\ gRunning \in BOOLEAN /\ stopEvent \in BOOLEAN /\ listener \in BOOLEAN
      /\ sourceOnline \in BOOLEAN /\ blocked \in BOOLEAN
  BY <1>2, Zenon
<1> QED BY <1>1, <1>3 DEF IpInv, Ip!TypeOK, Ip!NoKinect, ViewerStates

\* The types after a step, as one.
LEMMA IpTyped ==
  ASSUME IpInv,
         {gRunning', stopEvent', listener', sourceOnline', blocked'} \subseteq BOOLEAN,
         runtime' \in {"wait", "join", "gone"},
         server' \in {"start", "disabled", "loop", "accept", "ended"},
         encoder' \in {"start", "select", "read", "ended"}, device' \in Sources \cup {0},
         lease' \subseteq Sources, ready' \subseteq Sources,
         online' \subseteq Sources, fresh' \subseteq Sources,
         viewer' \in [Viewers -> ViewerStates],
         active' \in 0..MaxClients, auth' \in 0..MaxClients, ip_unseen' \subseteq Viewers,
         failures' \in 0..AuthFailureLimit, ip_moves' \in 0..IpMoves,
         active' = Cardinality(Visitors'), auth' = Cardinality(Watching'),
         encoder' = "read" => device' \in Sources
  PROVE  IpInv'
<1>1. Ip!TypeOK'
  BY DEF Ip!TypeOK, Ip!NoKinect, ViewerStates
<1>2. Ip!CountsAreRight'
  BY DEF Ip!CountsAreRight, Ip!Cardinality, Cardinality, Visitors, Watching
<1> QED BY <1>1, <1>2 DEF IpInv

\* Both sets are finite, and who watches is connected.
LEMMA ViewerSets ==
  ASSUME IpInv
  PROVE  /\ IsFiniteSet(Visitors) /\ IsFiniteSet(Watching)
         /\ active = Cardinality(Visitors) /\ auth = Cardinality(Watching)
         /\ auth <= active
<1>1. IsFiniteSet(Visitors) /\ IsFiniteSet(Watching)
  BY ClientsAssumption, FS_Subset DEF Visitors, Watching
<1>2. Watching \subseteq Visitors
  BY DEF Visitors, Watching
<1>3. Cardinality(Watching) <= Cardinality(Visitors)
  BY <1>1, <1>2, FS_Subset
<1>4. active = Cardinality(Visitors) /\ auth = Cardinality(Watching)
  BY DEF IpInv, Ip!CountsAreRight, Ip!Cardinality, Cardinality, Visitors, Watching
<1> QED BY <1>1, <1>3, <1>4

\* The counts of a step that leaves the viewers alone.
LEMMA SameViewers ==
  ASSUME IpInv, UNCHANGED <<viewer, active, auth>>
  PROVE  /\ active' = Cardinality(Visitors') /\ auth' = Cardinality(Watching')
         /\ viewer' \in [Viewers -> ViewerStates]
         /\ active' \in 0..MaxClients /\ auth' \in 0..MaxClients
<1>1. Visitors' = Visitors /\ Watching' = Watching
  BY DEF Visitors, Watching
<1> QED BY <1>1, ViewerSets, IpFields

\* A thread that goes on changes the two counts as it enters or leaves the sets.
LEMMA OneViewer ==
  ASSUME IpInv, NEW v \in Viewers, NEW to \in ViewerStates,
         viewer' = [viewer EXCEPT ![v] = to],
         active' = (active + (IF to = "away" THEN 0 ELSE 1))
                       - (IF v \in Visitors THEN 1 ELSE 0),
         auth' = (auth + (IF to \in {"stream", "answer"} THEN 1 ELSE 0))
                       - (IF v \in Watching THEN 1 ELSE 0)
  PROVE  /\ viewer' \in [Viewers -> ViewerStates]
         /\ active' = Cardinality(Visitors') /\ auth' = Cardinality(Watching')
         /\ active' \in Nat /\ auth' \in Nat /\ auth' <= active'
<1>1. viewer' \in [Viewers -> ViewerStates] /\ viewer'[v] = to
      /\ \A w \in Viewers : w # v => viewer'[w] = viewer[w]
  BY IpFields
<1>2. /\ IsFiniteSet(Visitors) /\ IsFiniteSet(Watching)
      /\ active = Cardinality(Visitors) /\ auth = Cardinality(Watching)
      /\ active \in Nat /\ auth \in Nat
  BY ViewerSets, FS_CardinalityType
<1>3. active' = Cardinality(Visitors')
  <2>1. CASE to = "away"
    <3>1. Visitors' = Visitors \ {v}
      BY <1>1, <2>1 DEF Visitors
    <3>2. Cardinality(Visitors \ {v}) = IF v \in Visitors THEN active - 1 ELSE active
      BY <1>2, FS_RemoveElement
    <3> QED BY <3>1, <3>2, <1>2, <2>1
  <2>2. CASE to # "away"
    <3>1. Visitors' = Visitors \cup {v}
      BY <1>1, <2>2 DEF Visitors
    <3>2. Cardinality(Visitors \cup {v}) = IF v \in Visitors THEN active ELSE active + 1
      BY <1>2, FS_AddElement
    <3> QED BY <3>1, <3>2, <1>2, <2>2
  <2> QED BY <2>1, <2>2
<1>4. auth' = Cardinality(Watching')
  <2>1. CASE to \in {"stream", "answer"}
    <3>1. Watching' = Watching \cup {v}
      BY <1>1, <2>1 DEF Watching
    <3>2. Cardinality(Watching \cup {v}) = IF v \in Watching THEN auth ELSE auth + 1
      BY <1>2, FS_AddElement
    <3> QED BY <3>1, <3>2, <1>2, <2>1
  <2>2. CASE to \notin {"stream", "answer"}
    <3>1. Watching' = Watching \ {v}
      BY <1>1, <2>2 DEF Watching
    <3>2. Cardinality(Watching \ {v}) = IF v \in Watching THEN auth - 1 ELSE auth
      BY <1>2, FS_RemoveElement
    <3> QED BY <3>1, <3>2, <1>2, <2>2
  <2> QED BY <2>1, <2>2
<1>5. IsFiniteSet(Visitors') /\ Watching' \subseteq Visitors'
  BY ClientsAssumption, FS_Subset DEF Visitors, Watching
<1>6. /\ IsFiniteSet(Watching') /\ Cardinality(Watching') \in Nat
      /\ Cardinality(Watching') <= Cardinality(Visitors') /\ Cardinality(Visitors') \in Nat
  BY <1>5, FS_Subset, FS_CardinalityType
<1> QED BY <1>1, <1>3, <1>4, <1>6

\* The first Ready Kinect of the manifest is one of them.
LEMMA FirstIsReady ==
  ASSUME IpInv, ready # {}
  PROVE  Ip!Min(ready) \in Sources
<1>1. ready \subseteq Nat
  BY IpFields, RegistryAssumption
<1>2. PICK x \in ready : \A y \in ready : ~(<<y, x>> \in OpToRel(<, Nat))
  BY <1>1, NatLessThanWellFounded, WFMin
<1>3. ASSUME NEW y \in ready PROVE x <= y
  <2>1. x \in Nat /\ y \in Nat
    BY <1>1
  <2>2. <<y, x>> \in Nat \X Nat /\ <<y, x>>[1] = y /\ <<y, x>>[2] = x
    BY <2>1
  <2>3. y < x => <<y, x>> \in OpToRel(<, Nat)
    BY <2>2, Zenon DEF OpToRel
  <2>4. ~(y < x)
    BY <1>2, <2>3, Zenon
  <2> QED BY <2>1, <2>4
<1>4. Ip!Min(ready) = CHOOSE n \in ready : \A y \in ready : n <= y
  BY DEF Ip!Min
<1>5. Ip!Min(ready) \in ready
  BY <1>3, <1>4
<1> QED BY <1>5, IpFields

\* The Kinects, as the camera bridge shows them.
LEMMA SourceStep ==
  ASSUME IpInv, NEW k \in Sources, Ip!ComeOrGo(k) \/ Ip!KinectStep(k)
  PROVE  IpInv'
<1>1. UNCHANGED <<gRunning, stopEvent, listener, runtime, server, encoder, device, sourceOnline,
                  viewer, active, auth, ip_unseen, failures, blocked>>
  BY DEF Ip!ComeOrGo, Ip!KinectStep, Ip!Publish, Ip!Lapse, Ip!GoIdle, Ip!stopVars, Ip!authVars
<1>2. /\ lease' \subseteq Sources /\ ready' \subseteq Sources
      /\ online' \subseteq Sources /\ fresh' \subseteq Sources /\ ip_moves' \in 0..IpMoves
  <2>1. CASE Ip!ComeOrGo(k)
    BY <2>1, IpFields DEF Ip!ComeOrGo
  <2>2. CASE Ip!KinectStep(k)
    BY <2>2, IpFields DEF Ip!KinectStep, Ip!Publish, Ip!Lapse, Ip!GoIdle
  <2> QED BY <2>1, <2>2
<1>3. encoder' = "read" => device' \in Sources
  BY <1>1 DEF IpInv
<1> QED BY <1>1, <1>2, <1>3, IpFields, SameViewers, IpTyped

\* EncoderLoop
LEMMA EncoderStep ==
  ASSUME IpInv, Ip!NoFactory \/ Ip!Select \/ Ip!Encode \/ Ip!LeaveSource
  PROVE  IpInv'
<1>1. UNCHANGED <<gRunning, listener, runtime, server, ready, online, ip_moves, viewer, active,
                  auth, failures, blocked>>
  BY DEF Ip!NoFactory, Ip!Select, Ip!OpenReader, Ip!NoReader, Ip!EncoderEnds, Ip!Encode,
         Ip!LeaveSource, Ip!stopVars, Ip!sourceVars, Ip!authVars
<1>2. stopEvent' \in BOOLEAN /\ sourceOnline' \in BOOLEAN
  <2>1. /\ stopEvent' = TRUE \/ UNCHANGED stopEvent
        /\ \/ sourceOnline' = FALSE \/ UNCHANGED sourceOnline
           \/ sourceOnline' = (device \in online)
    BY Zenon DEF Ip!NoFactory, Ip!Select, Ip!OpenReader, Ip!NoReader, Ip!EncoderEnds, Ip!Encode,
                 Ip!LeaveSource, Ip!stopVars, Ip!Read
  <2>2. (device \in online) \in BOOLEAN /\ TRUE \in BOOLEAN /\ FALSE \in BOOLEAN
    OBVIOUS
  <2>3. stopEvent \in BOOLEAN /\ sourceOnline \in BOOLEAN
    BY IpFields
  <2> QED BY <2>1, <2>2, <2>3, Zenon
<1>3. /\ encoder' \in {"start", "select", "read", "ended"} /\ device' \in Sources \cup {0}
      /\ encoder' = "read" => device' \in Sources
  <2>1. CASE Ip!Select
    BY <2>1, FirstIsReady, IpFields DEF Ip!Select, Ip!OpenReader, Ip!NoReader, Ip!EncoderEnds
  <2>2. CASE Ip!NoFactory \/ Ip!Encode \/ Ip!LeaveSource
    BY <2>2, IpFields DEF Ip!NoFactory, Ip!Encode, Ip!LeaveSource, IpInv
  <2> QED BY <2>1, <2>2
<1>4. lease' \subseteq Sources /\ fresh' \subseteq Sources /\ ip_unseen' \subseteq Viewers
  BY IpFields DEF IpInv, Ip!NoFactory, Ip!Select, Ip!OpenReader, Ip!NoReader, Ip!EncoderEnds,
                  Ip!Encode, Ip!LeaveSource, Ip!Read, Ip!Renew, Ip!sourceVars
<1>5. blocked' \in BOOLEAN /\ gRunning' \in BOOLEAN /\ listener' \in BOOLEAN
  BY <1>1, IpFields
<1> QED BY <1>1, <1>2, <1>3, <1>4, <1>5, IpFields, SameViewers, IpTyped

\* ServerLoop, RunRuntime and ServiceControl
LEMMA RuntimeStep ==
  ASSUME IpInv, Ip!Listen \/ Ip!ServerTurn \/ Ip!ServiceControl \/ Ip!Stopped \/ Ip!End
  PROVE  IpInv'
<1>1. UNCHANGED <<encoder, device, lease, ready, online, fresh, ip_moves, viewer, active, auth,
                  ip_unseen, failures, blocked>>
  BY DEF Ip!Listen, Ip!ServerTurn, Ip!ServiceControl, Ip!Stopped, Ip!End, Ip!sourceVars,
         Ip!authVars
<1>2. {gRunning', stopEvent', listener', sourceOnline', blocked'} \subseteq BOOLEAN
  BY IpFields DEF Ip!Listen, Ip!ServerTurn, Ip!ServiceControl, Ip!Stopped, Ip!End,
                  Ip!StopRuntime, Ip!authVars
<1>3. /\ runtime' \in {"wait", "join", "gone"}
      /\ server' \in {"start", "disabled", "loop", "accept", "ended"}
  BY IpFields DEF Ip!Listen, Ip!ServerTurn, Ip!ServiceControl, Ip!Stopped, Ip!End
<1>4. encoder' = "read" => device' \in Sources
  BY <1>1 DEF IpInv
<1> QED BY <1>1, <1>2, <1>3, <1>4, IpFields, SameViewers, IpTyped

\* RecordAuthFailure stays below the limit at which the address is blocked.
LEMMA FailuresBounded ==
  ASSUME IpInv, Ip!RecordAuthFailure
  PROVE  failures' \in 0..AuthFailureLimit /\ blocked' \in BOOLEAN
<1>1. /\ failures \in 0..AuthFailureLimit /\ AuthFailureLimit \in Nat \ {0}
      /\ blocked \in BOOLEAN
  BY IpFields
<1>2. PICK f \in {failures + 1, 1} :
        IF f >= AuthFailureLimit THEN failures' = 0 /\ blocked' = TRUE
                                 ELSE failures' = f /\ UNCHANGED blocked
  BY DEF Ip!RecordAuthFailure
<1>3. failures' \in 0..AuthFailureLimit
  BY <1>1, <1>2
<1>4. blocked' = TRUE \/ blocked' = blocked
  BY <1>2
<1>5. blocked' \in BOOLEAN
  BY <1>1, <1>4, Zenon
<1> QED BY <1>3, <1>5

\* The address is forgotten.
LEMMA ForgetStep ==
  ASSUME IpInv, Ip!Forget
  PROVE  IpInv'
<1>1. UNCHANGED <<gRunning, stopEvent, listener, runtime, server, encoder, device, lease, ready,
                  online, fresh, ip_moves, sourceOnline, viewer, active, auth, ip_unseen>>
  BY DEF Ip!Forget, Ip!stopVars, Ip!sourceVars
<1>2. failures' \in 0..AuthFailureLimit /\ blocked' = FALSE
  BY IpFields DEF Ip!Forget
<1>3. encoder' = "read" => device' \in Sources
  BY <1>1 DEF IpInv
<1>4. {gRunning', stopEvent', listener', sourceOnline', blocked'} \subseteq BOOLEAN
  BY <1>1, <1>2, IpFields
<1> QED BY <1>1, <1>2, <1>3, <1>4, IpFields, SameViewers, IpTyped

\* ClientThread
LEMMA ViewerThreadStep ==
  ASSUME IpInv, NEW v \in Viewers, Ip!Accept(v) \/ Ip!ViewerStep(v)
  PROVE  IpInv'
<1>1. /\ UNCHANGED <<gRunning, stopEvent, listener, runtime, encoder, device, lease, ready,
                     online, fresh, ip_moves, sourceOnline>>
      /\ server' \in {server, "loop"}
  BY DEF Ip!Accept, Ip!ViewerStep, Ip!Refuse, Ip!Admit, Ip!BadRequest, Ip!Authorize, Ip!Send,
         Ip!Finish, Ip!CloseClient, Ip!stopVars, Ip!sourceVars
<1>2. ip_unseen' \subseteq Viewers
  BY IpFields DEF Ip!Accept, Ip!ViewerStep, Ip!Refuse, Ip!Admit, Ip!BadRequest, Ip!Authorize,
                  Ip!Send, Ip!Finish, Ip!CloseClient
<1>3. failures' \in 0..AuthFailureLimit /\ blocked' \in BOOLEAN
  <2>1. CASE Ip!RecordAuthFailure
    BY <2>1, FailuresBounded
  <2>2. CASE ~Ip!RecordAuthFailure
    <3>1. UNCHANGED <<failures, blocked>> \/ (failures' = 0 /\ blocked' = FALSE)
      BY <2>2 DEF Ip!Accept, Ip!ViewerStep, Ip!Refuse, Ip!Admit, Ip!BadRequest, Ip!Authorize,
                  Ip!Send, Ip!Finish, Ip!CloseClient, Ip!authVars
    <3>2. failures' \in {failures, 0}
      BY <3>1
    <3>3. failures' \in 0..AuthFailureLimit
      BY <3>2, IpFields
    <3>4. blocked' = FALSE \/ blocked' = blocked
      BY <3>1
    <3>5. blocked' \in BOOLEAN
      BY <3>4, IpFields, Zenon
    <3> QED BY <3>3, <3>5
  <2> QED BY <2>1, <2>2
<1>4. /\ viewer' \in [Viewers -> ViewerStates]
      /\ active' = Cardinality(Visitors') /\ auth' = Cardinality(Watching')
      /\ active' \in 0..MaxClients /\ auth' \in 0..MaxClients
  <2>1. CASE Ip!Send(v)
    BY <2>1, SameViewers DEF Ip!Send
  <2>2. CASE ~Ip!Send(v)
    <3>1. /\ v \in Visitors <=> viewer[v] # "away"
          /\ v \in Watching <=> viewer[v] \in {"stream", "answer"}
          /\ active \in 0..MaxClients /\ auth \in 0..MaxClients /\ MaxClients \in Nat
      BY IpFields DEF Visitors, Watching
    <3>2. PICK to \in ViewerStates :
            /\ viewer' = [viewer EXCEPT ![v] = to]
            /\ active' = (active + (IF to = "away" THEN 0 ELSE 1))
                             - (IF v \in Visitors THEN 1 ELSE 0)
            /\ auth' = (auth + (IF to \in {"stream", "answer"} THEN 1 ELSE 0))
                             - (IF v \in Watching THEN 1 ELSE 0)
            /\ active' <= MaxClients
      <4>1. CASE Ip!Accept(v)
        BY <3>1, <4>1 DEF Ip!Accept, Ip!Move, ViewerStates
      <4>2. CASE Ip!Refuse(v)
        BY <3>1, <4>2 DEF Ip!Refuse, Ip!Move, ViewerStates
      <4>3. CASE Ip!Admit(v)
        BY <3>1, <4>3 DEF Ip!Admit, Ip!Move, ViewerStates
      <4>4. CASE Ip!BadRequest(v)
        BY <3>1, <4>4 DEF Ip!BadRequest, Ip!Move, ViewerStates
      <4>5. CASE Ip!Authorize(v)
        BY <3>1, <4>5 DEF Ip!Authorize, Ip!Move, ViewerStates
      <4>6. CASE Ip!Finish(v)
        BY <3>1, <4>6 DEF Ip!Finish, Ip!Move, ViewerStates
      <4>7. CASE Ip!CloseClient(v)
        BY <3>1, <4>7 DEF Ip!CloseClient, Ip!Move, ViewerStates
      <4> QED BY <2>2, <4>1, <4>2, <4>3, <4>4, <4>5, <4>6, <4>7 DEF Ip!ViewerStep
    <3>3. /\ viewer' \in [Viewers -> ViewerStates]
          /\ active' = Cardinality(Visitors') /\ auth' = Cardinality(Watching')
          /\ active' \in Nat /\ auth' \in Nat /\ auth' <= active'
      BY <3>2, OneViewer
    <3> QED BY <3>1, <3>2, <3>3
  <2> QED BY <2>1, <2>2
<1>5. encoder' = "read" => device' \in Sources
  BY <1>1 DEF IpInv
<1>6. /\ {gRunning', stopEvent', listener', sourceOnline', blocked'} \subseteq BOOLEAN
      /\ server' \in {"start", "disabled", "loop", "accept", "ended"}
  BY <1>1, <1>3, IpFields
<1> QED BY <1>1, <1>2, <1>3, <1>4, <1>5, <1>6, IpFields, IpTyped

\* Nothing breaks the invariant of the IP camera.
LEMMA IpInductive ==
  /\ Ip!Init => IpInv
  /\ IpInv /\ [Ip!Next]_ipVars => IpInv'
<1>1. ASSUME Ip!Init PROVE IpInv
  <2>1. Visitors = {} /\ Watching = {}
    BY <1>1 DEF Ip!Init, Visitors, Watching
  <2>2. active = Cardinality(Visitors) /\ auth = Cardinality(Watching)
    BY <1>1, <2>1, FS_EmptySet DEF Ip!Init
  <2>3. Ip!CountsAreRight
    BY <2>2 DEF Ip!CountsAreRight, Ip!Cardinality, Cardinality, Visitors, Watching
  <2>4. Ip!TypeOK
    <3>1. MaxClients \in Nat /\ AuthFailureLimit \in Nat /\ IpMoves \in Nat
      BY BoundsAssumption
    <3>2. /\ gRunning = TRUE /\ stopEvent = FALSE /\ listener = FALSE
          /\ sourceOnline = FALSE /\ blocked = FALSE
      BY <1>1, Zenon DEF Ip!Init
    <3>3. {gRunning, stopEvent, listener, sourceOnline, blocked} \subseteq BOOLEAN
      BY <3>2, Zenon
    <3>4. /\ active \in 0..MaxClients /\ auth \in 0..MaxClients
          /\ failures \in 0..AuthFailureLimit /\ ip_moves \in 0..IpMoves
      BY <1>1, <3>1 DEF Ip!Init
    <3> QED BY <1>1, <3>3, <3>4 DEF Ip!Init, Ip!TypeOK
  <2> QED BY <1>1, <2>3, <2>4 DEF Ip!Init, IpInv
<1>2. ASSUME IpInv, [Ip!Next]_ipVars PROVE IpInv'
  <2>1. CASE UNCHANGED ipVars
    BY <1>2, <2>1 DEF ipVars, IpInv, Ip!TypeOK, Ip!CountsAreRight
  <2> QED BY <1>2, <2>1, SourceStep, EncoderStep, RuntimeStep, ForgetStep, ViewerThreadStep
          DEF Ip!Next
<1> QED BY <1>1, <1>2

=============================================================================
