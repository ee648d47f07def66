--------------------------- MODULE MCWindowsProofs ---------------------------
(***************************************************************************)
(* What the parts of the Windows device components guarantee for every     *)
(* value of the constants, as in MCPartsProofs: the invariant of each      *)
(* part, with its proof, and at the end all the parts of MCWindows         *)
(* together.                                                               *)
(***************************************************************************)
EXTENDS MCWindowsCameraProofs, Sequences, SequenceTheorems

-----------------------------------------------------------------------------
(* The upload of the firmware *)

\* What the boot loader has of the image is at least what was sent in this session,
\* as long as the device is the one that was opened.
BootInv ==
  /\ Boot!TypeOK /\ Boot!LaunchedWhole
  /\ boot_pc \in {"probe", "page", "remember"} => port \in Ports
  /\ boot_pc = "page" /\ alive => image[port] >= sent
  /\ boot_pc = "probe" => sent = 0

\* The types, one by one.
LEMMA BootFields ==
  ASSUME BootInv
  PROVE  /\ usb \in [Ports -> {"nothing", "boot", "uac"}]
         /\ image \in [Ports -> 0..Pages] /\ owed \in [Ports -> 0..1] /\ partial = {}
         /\ launchedKeys \subseteq Ports /\ absentPasses \in [Ports -> 0..DisconnectPasses]
         /\ boot_pc \in {"scan", "open", "probe", "page", "remember", "ended"}
         /\ port \in Ports \cup {0} /\ sent \in 0..Pages
         /\ boot_gRun \in BOOLEAN /\ alive \in BOOLEAN
         /\ boot_faults \in 0..BootFaults
         /\ Pages \in Nat \ {0} /\ DisconnectPasses \in Nat \ {0} /\ BootFaults \in Nat
<1>1. Pages \in Nat \ {0} /\ DisconnectPasses \in Nat \ {0} /\ BootFaults \in Nat
  BY BoundsAssumption
<1>2. boot_gRun \in BOOLEAN /\ alive \in BOOLEAN
  BY DEF BootInv, Boot!TypeOK
<1> QED BY <1>1, <1>2 DEF BootInv, Boot!TypeOK, Boot!LaunchedWhole

\* A fault is counted within its bound.
LEMMA BootFaultIsCounted ==
  ASSUME BootInv, Boot!Fault \/ UNCHANGED boot_faults
  PROVE  boot_faults' \in 0..BootFaults
BY BootFields DEF Boot!Fault

\* The invariant after a step, from its parts.
LEMMA BootInvFrom ==
  ASSUME usb' \in [Ports -> {"nothing", "boot", "uac"}],
         image' \in [Ports -> 0..Pages], owed' \in [Ports -> 0..1], partial' = {},
         launchedKeys' \subseteq Ports, absentPasses' \in [Ports -> 0..DisconnectPasses],
         boot_pc' \in {"scan", "open", "probe", "page", "remember", "ended"},
         port' \in Ports \cup {0}, sent' \in 0..Pages,
         boot_gRun' \in BOOLEAN, alive' \in BOOLEAN, boot_faults' \in 0..BootFaults,
         boot_pc' \in {"probe", "page", "remember"} => port' \in Ports,
         boot_pc' = "page" /\ alive' => image'[port'] >= sent',
         boot_pc' = "probe" => sent' = 0
  PROVE  BootInv'
<1>1. {boot_gRun', alive'} \subseteq BOOLEAN
  OBVIOUS
<1> QED BY <1>1 DEF BootInv, Boot!TypeOK, Boot!LaunchedWhole

\* What happens on the bus: a device that is gone is not the one that was opened.
LEMMA BootAround ==
  ASSUME BootInv, Boot!StopService \/ \E p \in Ports : Boot!Plug(p) \/ Boot!Unplug(p)
  PROVE  BootInv'
<1>1. boot_faults' \in 0..BootFaults
  BY BootFaultIsCounted DEF Boot!StopService, Boot!Plug, Boot!Unplug
<1>2. /\ UNCHANGED launchedKeys /\ UNCHANGED absentPasses /\ UNCHANGED boot_pc
      /\ UNCHANGED port /\ UNCHANGED sent
      /\ boot_gRun' \in BOOLEAN /\ partial' = {}
  BY BootFields DEF Boot!StopService, Boot!Plug, Boot!Unplug, Boot!bus, Boot!memory, Boot!session
<1> DEFINE Bus == /\ usb' \in [Ports -> {"nothing", "boot", "uac"}]
                  /\ image' \in [Ports -> 0..Pages] /\ owed' \in [Ports -> 0..1]
                  /\ alive' \in BOOLEAN
                  /\ boot_pc = "page" /\ alive' => alive /\ image'[port] = image[port]
<1>3. Bus
  <2>1. CASE Boot!StopService
    BY <2>1, BootFields DEF Boot!StopService, Boot!bus
  <2>2. ASSUME NEW p \in Ports, Boot!Plug(p)
        PROVE  Bus
    BY <2>2, BootFields DEF Boot!Plug
  <2>3. ASSUME NEW p \in Ports, Boot!Unplug(p)
        PROVE  Bus
    <3>1. alive' \in BOOLEAN /\ (alive' => alive /\ port # p)
      BY <2>3, BootFields DEF Boot!Unplug
    <3>2. boot_pc = "page" => port \in Ports
      BY DEF BootInv
    <3>3. image' = [image EXCEPT ![p] = 0] /\ image' \in [Ports -> 0..Pages]
      BY <2>3, BootFields DEF Boot!Unplug
    <3>4. owed' \in [Ports -> 0..1] /\ usb' \in [Ports -> {"nothing", "boot", "uac"}]
      BY <2>3, BootFields DEF Boot!Unplug
    <3> QED BY <3>1, <3>2, <3>3, <3>4, BootFields
  <2> QED BY <2>1, <2>2, <2>3
<1>4. /\ boot_pc \in {"probe", "page", "remember"} => port \in Ports
      /\ boot_pc = "page" /\ alive => image[port] >= sent
      /\ boot_pc = "probe" => sent = 0
  BY DEF BootInv
<1> QED BY <1>1, <1>2, <1>3, <1>4, BootFields, BootInvFrom

\* A session that ends keeps what is known of the ports.
LEMMA BootFailKeeps ==
  ASSUME BootInv, Boot!Fail, Boot!Fault \/ UNCHANGED boot_faults,
         UNCHANGED usb, UNCHANGED partial, UNCHANGED Boot!memory, UNCHANGED boot_gRun
  PROVE  BootInv'
<1>1. boot_faults' \in 0..BootFaults
  BY BootFaultIsCounted
<1>2. /\ boot_pc' = "scan" /\ port' = 0 /\ alive' = FALSE
      /\ UNCHANGED image /\ UNCHANGED owed /\ UNCHANGED sent
      /\ UNCHANGED launchedKeys /\ UNCHANGED absentPasses
  BY DEF Boot!Fail, Boot!Close, Boot!memory
<1> QED BY <1>1, <1>2, BootFields, BootInvFrom

\* Looking for a boot loader: a port that was not seen often enough is forgotten
\* before the count passes its limit.
LEMMA BootLooks ==
  ASSUME BootInv, Boot!Scan \/ Boot!Open
  PROVE  BootInv'
<1>1. CASE Boot!Scan
  <2>1. /\ UNCHANGED usb /\ UNCHANGED image /\ UNCHANGED owed /\ UNCHANGED partial
        /\ UNCHANGED port /\ UNCHANGED sent /\ UNCHANGED alive /\ UNCHANGED boot_gRun
        /\ UNCHANGED boot_faults
        /\ boot_pc' \in {"open", "ended"}
    BY <1>1 DEF Boot!Scan, Boot!Goes, Boot!bus
  <2>2. launchedKeys' \subseteq Ports /\ absentPasses' \in [Ports -> 0..DisconnectPasses]
    <3> DEFINE passes    == [p \in Ports |-> IF p \in Boot!Present \/ p \notin launchedKeys THEN 0
                                             ELSE absentPasses[p] + 1]
               forgotten == {p \in launchedKeys : passes[p] >= DisconnectPasses}
               next_     == [p \in Ports |-> IF p \in forgotten THEN 0 ELSE passes[p]]
    <3>1. CASE UNCHANGED launchedKeys /\ UNCHANGED absentPasses
      BY <3>1, BootFields
    <3>2. CASE launchedKeys' = launchedKeys \ forgotten /\ absentPasses' = next_
      <4>1. ASSUME NEW p \in Ports PROVE next_[p] \in 0..DisconnectPasses
        <5>1. absentPasses[p] \in 0..DisconnectPasses
          BY <4>1, BootFields
        <5>2. passes[p] \in Nat /\ (p \notin launchedKeys => passes[p] = 0)
          BY <5>1
        <5>3. p \notin forgotten => passes[p] < DisconnectPasses
          BY <5>2, BootFields
        <5> HIDE DEF passes, forgotten
        <5> QED BY <5>2, <5>3, BootFields
      <4>2. next_ \in [Ports -> 0..DisconnectPasses]
        BY <4>1
      <4> HIDE DEF next_
      <4> QED BY <3>2, <4>2, BootFields
    <3> QED BY <1>1, <3>1, <3>2 DEF Boot!Scan, Boot!memory
  <2> QED BY <2>1, <2>2, BootFields, BootInvFrom
<1>2. CASE Boot!Open
  <2>1. /\ UNCHANGED usb /\ UNCHANGED image /\ UNCHANGED owed /\ UNCHANGED partial
        /\ UNCHANGED launchedKeys /\ UNCHANGED absentPasses /\ UNCHANGED boot_gRun
        /\ sent' = 0
    BY <1>2 DEF Boot!Open, Boot!bus, Boot!memory
  <2>2. boot_faults' \in 0..BootFaults
    BY <1>2, BootFaultIsCounted DEF Boot!Open
  <2>3. /\ boot_pc' \in {"scan", "probe"} /\ port' \in Ports \cup {0} /\ alive' \in BOOLEAN
        /\ boot_pc' = "probe" => port' \in Ports
    BY <1>2, BootFields DEF Boot!Open, Boot!Candidates
  <2> QED BY <2>1, <2>2, <2>3, BootFields, BootInvFrom
<1> QED BY <1>1, <1>2

\* The probe and the pages: each page that is sent and answered is the next one of
\* the image.
LEMMA BootSends ==
  ASSUME BootInv, Boot!Probe \/ Boot!Page \/ Boot!Cancelled
  PROVE  BootInv'
<1>1. UNCHANGED usb /\ UNCHANGED partial /\ UNCHANGED Boot!memory /\ UNCHANGED boot_gRun
  BY DEF Boot!Probe, Boot!Page, Boot!Cancelled
<1>2. UNCHANGED launchedKeys /\ UNCHANGED absentPasses
  BY <1>1 DEF Boot!memory
<1>3. boot_pc \in {"probe", "page"} /\ port \in Ports
  BY DEF BootInv, Boot!Probe, Boot!Page, Boot!Cancelled
<1>4. CASE Boot!Fail /\ (Boot!Fault \/ UNCHANGED boot_faults)
  BY <1>1, <1>4, BootFailKeeps
<1>5. CASE Boot!Probe /\ ~Boot!Fail
  <2>1. /\ boot_pc' \in {"page", "scan"} /\ UNCHANGED image /\ UNCHANGED sent
        /\ UNCHANGED boot_faults /\ sent = 0
    BY <1>5 DEF Boot!Probe, BootInv, Boot!Broken
  <2>2. owed' \in [Ports -> 0..1]
    BY <1>3, <1>5, BootFields DEF Boot!Probe
  <2>3. /\ port' \in Ports \cup {0} /\ alive' \in BOOLEAN
        /\ boot_pc' = "page" => port' \in Ports
    BY <1>3, <1>5, BootFields DEF Boot!Probe, Boot!Close
  <2> QED BY <1>1, <1>2, <2>1, <2>2, <2>3, BootFields, BootInvFrom
<1>6. CASE Boot!Page /\ ~Boot!Fail
  <2>1. CASE boot_pc' = "scan"
    <3>1. /\ UNCHANGED image /\ UNCHANGED sent /\ port' = 0 /\ alive' = FALSE
          /\ owed' \in [Ports -> 0..1]
      BY <1>3, <1>6, <2>1, BootFields DEF Boot!Page, Boot!Close, Boot!InStep
    <3>2. boot_faults' \in 0..BootFaults
      BY <1>6, BootFaultIsCounted DEF Boot!Page
    <3> QED BY <1>1, <1>2, <2>1, <3>1, <3>2, BootFields, BootInvFrom
  <2>2. CASE boot_pc' # "scan"
    <3>1. /\ alive /\ boot_pc = "page" /\ sent < Pages
          /\ image' = [image EXCEPT ![port] = IF @ = sent THEN sent + 1 ELSE @]
          /\ sent' = sent + 1 /\ UNCHANGED boot_pc /\ UNCHANGED owed /\ UNCHANGED port
          /\ UNCHANGED alive /\ UNCHANGED boot_faults
      BY <1>6, <2>2 DEF Boot!Page, Boot!InStep
    <3>2. image[port] >= sent
      BY <3>1 DEF BootInv
    <3>3. image' \in [Ports -> 0..Pages] /\ image'[port] >= sent' /\ sent' \in 0..Pages
      BY <1>3, <3>1, <3>2, BootFields
    <3> QED BY <1>1, <1>2, <1>3, <3>1, <3>3, BootFields, BootInvFrom
  <2> QED BY <2>1, <2>2
<1>7. Boot!Cancelled => Boot!Fail /\ UNCHANGED boot_faults
  BY DEF Boot!Cancelled
<1>8. (Boot!Probe \/ Boot!Page) /\ Boot!Fail => Boot!Fault \/ UNCHANGED boot_faults
  BY DEF Boot!Probe, Boot!Page, Boot!Broken
<1> QED BY <1>4, <1>5, <1>6, <1>7, <1>8

\* The launch: all pages were sent, so the boot loader has them all.
LEMMA BootLaunches ==
  ASSUME BootInv, Boot!Launch \/ Boot!Remember
  PROVE  BootInv'
<1>1. port \in Ports
  BY DEF BootInv, Boot!Launch, Boot!Remember, Boot!Goes
<1>2. CASE Boot!Remember
  <2>1. /\ UNCHANGED usb /\ UNCHANGED image /\ UNCHANGED owed /\ UNCHANGED partial
        /\ UNCHANGED sent /\ UNCHANGED boot_gRun /\ UNCHANGED boot_faults
        /\ boot_pc' = "scan" /\ port' = 0 /\ alive' = FALSE
    BY <1>2 DEF Boot!Remember, Boot!Goes, Boot!bus, Boot!Close
  <2>2. launchedKeys' \subseteq Ports /\ absentPasses' \in [Ports -> 0..DisconnectPasses]
    BY <1>1, <1>2, BootFields DEF Boot!Remember
  <2> QED BY <2>1, <2>2, BootFields, BootInvFrom
<1>3. ASSUME Boot!Launch
      PROVE  /\ UNCHANGED launchedKeys /\ UNCHANGED absentPasses /\ UNCHANGED boot_gRun
             /\ UNCHANGED Boot!memory
             /\ boot_pc = "page" /\ sent = Pages /\ (Boot!Taken \/ Boot!Ignored)
  BY <1>3 DEF Boot!Launch, Boot!memory
<1>4. CASE Boot!Launch /\ Boot!Fail
  <2>1. UNCHANGED usb /\ UNCHANGED partial /\ (Boot!Fault \/ UNCHANGED boot_faults)
    <3>1. Boot!Fault \/ UNCHANGED boot_faults
      BY <1>4 DEF Boot!Launch, Boot!Broken
    <3>2. ASSUME Boot!Taken, boot_pc = "page", alive, sent = Pages PROVE FALSE
      <4>1. image[port] >= Pages /\ image'[port] = 0
        BY <1>1, <3>2, BootFields DEF BootInv, Boot!Taken
      <4> QED BY <1>4, <4>1, BootFields DEF Boot!Fail
    <3>3. Boot!Ignored
      BY <1>4, <3>2 DEF Boot!Launch, Boot!InStep
    <3> QED BY <3>1, <3>3 DEF Boot!Ignored
  <2> QED BY <1>3, <1>4, <2>1, BootFailKeeps
<1>5. CASE Boot!Launch /\ ~Boot!Fail
  <2>1. /\ alive /\ UNCHANGED sent
        /\ boot_pc' \in {"remember", "scan"}
        /\ boot_pc' = "remember" => UNCHANGED port
        /\ port' \in Ports \cup {0} /\ alive' \in BOOLEAN
    BY <1>1, <1>5, BootFields DEF Boot!Launch, Boot!InStep, Boot!Close
  <2>2. boot_faults' \in 0..BootFaults
    BY <1>5, BootFaultIsCounted DEF Boot!Launch
  <2>3. owed' \in [Ports -> 0..1]
    BY <1>1, <1>5, BootFields DEF Boot!Launch
  <2>4. image[port] = Pages
    BY <1>1, <1>3, <1>5, <2>1, BootFields DEF BootInv
  <2>5. /\ usb' \in [Ports -> {"nothing", "boot", "uac"}]
        /\ image' \in [Ports -> 0..Pages] /\ partial' = {}
    <3>1. CASE Boot!Taken
      BY <1>1, <2>4, <3>1, BootFields DEF Boot!Taken
    <3>2. CASE Boot!Ignored
      BY <3>2, BootFields DEF Boot!Ignored
    <3> QED BY <1>3, <1>5, <3>1, <3>2
  <2> QED BY <1>1, <1>3, <1>5, <2>1, <2>2, <2>3, <2>5, BootFields, BootInvFrom
<1> QED BY <1>2, <1>4, <1>5

\* The invariant of the upload, kept by each step.
LEMMA BootInductive ==
  /\ Boot!Init => BootInv
  /\ BootInv /\ [Boot!Next]_bootVars => BootInv'
<1>1. Boot!Init => BootInv
  <2> SUFFICES ASSUME Boot!Init PROVE BootInv
    OBVIOUS
  <2>1. Pages \in Nat \ {0} /\ DisconnectPasses \in Nat \ {0} /\ BootFaults \in Nat
    BY BoundsAssumption
  <2>2. {boot_gRun, alive} \subseteq BOOLEAN
    BY DEF Boot!Init
  <2> QED BY <2>1, <2>2 DEF Boot!Init, BootInv, Boot!TypeOK, Boot!LaunchedWhole
<1>2. ASSUME BootInv, Boot!Next PROVE BootInv'
  BY <1>2, BootAround, BootLooks, BootSends, BootLaunches DEF Boot!Next, Boot!Loop
<1>3. ASSUME BootInv, UNCHANGED bootVars PROVE BootInv'
  BY <1>3 DEF BootInv, Boot!TypeOK, Boot!LaunchedWhole, bootVars
<1> QED BY <1>1, <1>2, <1>3

-----------------------------------------------------------------------------
(* The broker's servers *)

ServerPlaces == {"loop", "create", "listen", "accepted", "inline", "reap", "ended"}
HostPlaces == {<<"run">>, <<"join">>, <<"ended">>} \cup ({"wake", "reply"} \X Broker!Servers)

Matched(at, whom) ==
  \A s \in Broker!Servers : IF at[s] \in {"accepted", "inline"} THEN whom[s] \in Broker!Peers \cup {Host}
                             ELSE whom[s] = Free

\* A server has a client only while it serves it, the control server ends when its
\* threads have, and RunHost after both servers.
HostInv ==
  /\ Broker!TypeOK
  /\ Matched(host_server, peer)
  /\ host_server["control"] = "ended" => serving = {}
  /\ host = <<"ended">> => \A s \in Broker!Servers : host_server[s] = "ended"

\* The types, one by one.
LEMMA HostFields ==
  ASSUME HostInv
  PROVE  /\ gRun \in BOOLEAN /\ host_active \in BOOLEAN
         /\ host_server \in [Broker!Servers -> ServerPlaces]
         /\ peer \in [Broker!Servers -> Broker!Peers \cup {Host, Free}]
         /\ serving \subseteq Broker!Peers \cup {Host}
         /\ visit \in [Broker!Peers -> {"away", "connected", "answered"}]
         /\ host \in HostPlaces /\ missed \subseteq Broker!Servers
         /\ Matched(host_server, peer)
         /\ host_server["control"] = "ended" => serving = {}
         /\ host = <<"ended">> => \A s \in Broker!Servers : host_server[s] = "ended"
<1>1. gRun \in BOOLEAN /\ host_active \in BOOLEAN
  BY DEF HostInv, Broker!TypeOK
<1> QED BY <1>1 DEF HostInv, Broker!TypeOK, ServerPlaces, HostPlaces

\* The invariant after a step, from its parts.
LEMMA HostInvFrom ==
  ASSUME gRun' \in BOOLEAN, host_active' \in BOOLEAN,
         host_server' \in [Broker!Servers -> ServerPlaces],
         peer' \in [Broker!Servers -> Broker!Peers \cup {Host, Free}],
         serving' \subseteq Broker!Peers \cup {Host},
         visit' \in [Broker!Peers -> {"away", "connected", "answered"}],
         host' \in HostPlaces, missed' \subseteq Broker!Servers,
         Matched(host_server', peer'),
         host_server'["control"] = "ended" => serving' = {},
         host' = <<"ended">> => \A s \in Broker!Servers : host_server'[s] = "ended"
  PROVE  HostInv'
<1>1. {gRun', host_active'} \subseteq BOOLEAN
  OBVIOUS
<1> QED BY <1>1 DEF HostInv, Broker!TypeOK, ServerPlaces, HostPlaces

\* Where RunHost can be, apart from its end.
LEMMA HostPlacesAre ==
  /\ "control" \in Broker!Servers /\ "sdk" \in Broker!Servers
  /\ <<"join">> \in HostPlaces \ {<<"ended">>} /\ <<"ended">> \in HostPlaces
  /\ \A a \in {"wake", "reply"}, s \in Broker!Servers : <<a, s>> \in HostPlaces \ {<<"ended">>}
<1>1. \A a, s : <<a, s>> # <<"ended">>
  <2> SUFFICES ASSUME NEW a, NEW s, <<a, s>> = <<"ended">> PROVE FALSE
    OBVIOUS
  <2>1. Len(<<a, s>>) = 2 /\ Len(<<"ended">>) = 1
    OBVIOUS
  <2> QED BY <2>1
<1>2. <<"join">> # <<"ended">>
  <2>1. <<"join">>[1] = "join" /\ <<"ended">>[1] = "ended"
    OBVIOUS
  <2> QED BY <2>1
<1> QED BY <1>1, <1>2 DEF HostPlaces, Broker!Servers

\* An answer to RunHost takes it on, not to its end.
LEMMA HostGoesOn ==
  ASSUME HostInv, NEW k, NEW s \in Broker!Servers, Broker!HostAnswered(k, s)
  PROVE  host' \in HostPlaces /\ (host' = <<"ended">> => host = <<"ended">>)
BY HostFields, HostPlacesAre DEF Broker!HostAnswered

\* A client that is answered keeps to its states.
LEMMA VisitAnswered ==
  ASSUME HostInv, NEW k \in Broker!Peers \cup {Host}, Broker!Answered(k)
  PROVE  visit' \in [Broker!Peers -> {"away", "connected", "answered"}]
BY HostFields DEF Broker!Answered

\* A step of a server that is at most between two clients.
LEMMA ServerBetween ==
  ASSUME HostInv, NEW s \in Broker!Servers,
         Broker!Loop(s) \/ Broker!Create(s) \/ Broker!Reap(s)
  PROVE  HostInv'
<1>1. /\ UNCHANGED gRun /\ UNCHANGED host_active /\ UNCHANGED peer /\ UNCHANGED serving
      /\ UNCHANGED visit /\ UNCHANGED host /\ UNCHANGED missed
  BY DEF Broker!Loop, Broker!Create, Broker!Reap, Broker!flags
<1>2. PICK to \in {"create", "reap", "listen", "loop", "ended"} :
        /\ host_server' = [host_server EXCEPT ![s] = to]
        /\ host_server[s] \in {"loop", "create", "reap"}
        /\ to = "ended" /\ s = "control" => serving = {}
  BY DEF Broker!Loop, Broker!Create, Broker!Reap, Broker!Goes
<1>3. host # <<"ended">>
  BY <1>2, HostFields
<1>4. host_server' \in [Broker!Servers -> ServerPlaces]
  BY <1>2, HostFields DEF ServerPlaces
<1>5. Matched(host_server', peer)
  BY <1>2, HostFields DEF Matched
<1>6. host_server'["control"] = "ended" => serving = {}
  BY <1>2, HostFields, HostPlacesAre
<1> QED BY <1>1, <1>3, <1>4, <1>5, <1>6, HostFields, HostInvFrom

\* A client is accepted, and served on a thread or in the loop.
LEMMA ServerServes ==
  ASSUME HostInv, \/ \E s \in Broker!Servers : Broker!Accept(s) \/ Broker!ServeInline(s)
                  \/ \E k \in Broker!Peers \cup {Host} : Broker!Serve(k)
  PROVE  HostInv'
<1>1. UNCHANGED gRun /\ UNCHANGED host_active /\ UNCHANGED missed
  BY DEF Broker!Accept, Broker!ServeInline, Broker!Serve, Broker!flags
<1>2. ASSUME NEW s \in Broker!Servers, Broker!Accept(s)
      PROVE  HostInv'
  <2>1. UNCHANGED visit /\ UNCHANGED host /\ host_server[s] = "accepted"
    BY <1>2 DEF Broker!Accept, Broker!Goes
  <2>2. host # <<"ended">>
    BY <2>1, HostFields
  <2>3. CASE /\ s = "control" /\ host_server' = [host_server EXCEPT ![s] = "loop"]
             /\ serving' = serving \cup {peer[s]} /\ peer' = [peer EXCEPT ![s] = Free]
    <3>1. host_server' \in [Broker!Servers -> ServerPlaces] /\ host_server'["control"] = "loop"
      BY <2>3, HostFields, HostPlacesAre DEF ServerPlaces
    <3>2. /\ peer' \in [Broker!Servers -> Broker!Peers \cup {Host, Free}]
          /\ Matched(host_server', peer')
      BY <2>3, HostFields DEF Matched
    <3>3. serving' \subseteq Broker!Peers \cup {Host}
      BY <2>1, <2>3, HostFields DEF Matched
    <3> QED BY <1>1, <2>1, <2>2, <3>1, <3>2, <3>3, HostFields, HostInvFrom
  <2>4. CASE /\ host_server' = [host_server EXCEPT ![s] = "inline"]
             /\ UNCHANGED serving /\ UNCHANGED peer
    <3>1. host_server' \in [Broker!Servers -> ServerPlaces]
      BY <2>4, HostFields DEF ServerPlaces
    <3>2. Matched(host_server', peer)
      BY <2>1, <2>4, HostFields DEF Matched
    <3>3. host_server'["control"] = "ended" => serving = {}
      BY <2>4, HostFields, HostPlacesAre
    <3> QED BY <1>1, <2>1, <2>2, <2>4, <3>1, <3>2, <3>3, HostFields, HostInvFrom
  <2> QED BY <1>2, <2>3, <2>4 DEF Broker!Accept, Broker!Goes
<1>3. ASSUME NEW s \in Broker!Servers, Broker!ServeInline(s)
      PROVE  HostInv'
  <2>1. /\ host_server[s] = "inline" /\ host_server' = [host_server EXCEPT ![s] = "loop"]
        /\ peer' = [peer EXCEPT ![s] = Free] /\ UNCHANGED serving
        /\ Broker!Answered(peer[s]) /\ Broker!HostAnswered(peer[s], s)
    BY <1>3 DEF Broker!ServeInline, Broker!Goes
  <2>2. host' \in HostPlaces /\ host' # <<"ended">>
    BY <2>1, HostFields, HostGoesOn
  <2>3. visit' \in [Broker!Peers -> {"away", "connected", "answered"}]
    BY <2>1, HostFields DEF Broker!Answered
  <2>4. /\ host_server' \in [Broker!Servers -> ServerPlaces]
        /\ peer' \in [Broker!Servers -> Broker!Peers \cup {Host, Free}]
        /\ Matched(host_server', peer')
    BY <2>1, HostFields DEF ServerPlaces, Matched
  <2>5. host_server'["control"] = "ended" => serving = {}
    BY <2>1, HostFields, HostPlacesAre
  <2> QED BY <1>1, <2>1, <2>2, <2>3, <2>4, <2>5, HostFields, HostInvFrom
<1>4. ASSUME NEW k \in Broker!Peers \cup {Host}, Broker!Serve(k)
      PROVE  HostInv'
  <2>1. /\ serving' = serving \ {k} /\ UNCHANGED host_server /\ UNCHANGED peer
        /\ Broker!Answered(k) /\ Broker!HostAnswered(k, "control")
    BY <1>4 DEF Broker!Serve
  <2>2. host' \in HostPlaces /\ (host' = <<"ended">> => host = <<"ended">>)
    BY <2>1, HostGoesOn, HostPlacesAre
  <2>3. visit' \in [Broker!Peers -> {"away", "connected", "answered"}]
    BY <2>1, VisitAnswered
  <2> QED BY <1>1, <2>1, <2>2, <2>3, HostFields, HostInvFrom
<1> QED BY <1>2, <1>3, <1>4

\* A connection, a departure, and RunHost, which connects as a client does.
LEMMA HostClients ==
  ASSUME HostInv,
         \/ \E k \in Broker!Peers : Broker!ClientConnects(k) \/ Broker!ClientLeaves(k)
         \/ Broker!StopRequested \/ Broker!HostStep
  PROVE  HostInv'
<1>1. UNCHANGED serving /\ gRun' \in BOOLEAN /\ host_active' \in BOOLEAN
  BY HostFields
     DEF Broker!ClientConnects, Broker!ClientLeaves, Broker!StopRequested, Broker!HostStep,
         Broker!HostStops, Broker!Wake, Broker!WakeMissed, Broker!HostEnds, Broker!flags
<1> DEFINE Connected == \E s \in Broker!Servers, k \in Broker!Peers \cup {Host} : Broker!Connect(s, k)
<1>2. ASSUME Connected
      PROVE  /\ host_server' \in [Broker!Servers -> ServerPlaces]
             /\ peer' \in [Broker!Servers -> Broker!Peers \cup {Host, Free}]
             /\ Matched(host_server', peer')
             /\ host_server'["control"] = "ended" => serving = {}
             /\ host # <<"ended">>
  <2>1. PICK s \in Broker!Servers, k \in Broker!Peers \cup {Host} :
          /\ host_server[s] = "listen" /\ host_server' = [host_server EXCEPT ![s] = "accepted"]
          /\ peer' = [peer EXCEPT ![s] = k]
    BY <1>2 DEF Broker!Connect, Broker!Goes
  <2>2. host # <<"ended">>
    BY <2>1, HostFields
  <2>3. /\ host_server' \in [Broker!Servers -> ServerPlaces]
        /\ peer' \in [Broker!Servers -> Broker!Peers \cup {Host, Free}]
        /\ Matched(host_server', peer')
    BY <2>1, HostFields DEF ServerPlaces, Matched
  <2>4. host_server'["control"] = "ended" => serving = {}
    BY <2>1, HostFields, HostPlacesAre
  <2> QED BY <2>2, <2>3, <2>4
<1>3. ASSUME NEW k \in Broker!Peers, Broker!ClientConnects(k)
      PROVE  HostInv'
  <2>1. /\ UNCHANGED host /\ UNCHANGED missed
        /\ visit' = [visit EXCEPT ![k] = "connected"]
        /\ Broker!Connect(IF k \in ControlClients THEN "control" ELSE "sdk", k)
    BY <1>3 DEF Broker!ClientConnects
  <2>2. Connected
    BY <2>1, HostPlacesAre
  <2>3. visit' \in [Broker!Peers -> {"away", "connected", "answered"}]
    BY <2>1, HostFields
  <2> HIDE DEF Connected
  <2> QED BY <1>1, <1>2, <2>1, <2>2, <2>3, HostFields, HostInvFrom
<1>4. ASSUME NEW k \in Broker!Peers, Broker!ClientLeaves(k)
      PROVE  HostInv'
  <2>1. /\ UNCHANGED host /\ UNCHANGED missed /\ UNCHANGED host_server /\ UNCHANGED peer
        /\ visit' = [visit EXCEPT ![k] = "away"]
    BY <1>4 DEF Broker!ClientLeaves
  <2>2. visit' \in [Broker!Peers -> {"away", "connected", "answered"}]
    BY <2>1, HostFields
  <2> QED BY <1>1, <2>1, <2>2, HostFields, HostInvFrom
<1>5. CASE Broker!StopRequested
  <2>1. /\ UNCHANGED host /\ UNCHANGED missed /\ UNCHANGED host_server /\ UNCHANGED peer
        /\ UNCHANGED visit
    BY <1>5 DEF Broker!StopRequested
  <2> QED BY <1>1, <2>1, HostFields, HostInvFrom
<1>6. CASE Broker!HostStops
  <2>1. /\ host' = <<"wake", "control">> /\ UNCHANGED missed /\ UNCHANGED host_server
        /\ UNCHANGED peer /\ UNCHANGED visit
    BY <1>6 DEF Broker!HostStops
  <2>2. host' \in HostPlaces /\ host' # <<"ended">>
    BY <2>1, HostPlacesAre
  <2> QED BY <1>1, <2>1, <2>2, HostFields, HostInvFrom
<1>7. ASSUME NEW s \in Broker!Servers, Broker!Wake(s)
      PROVE  HostInv'
  <2>1. /\ host' = <<"reply", s>> /\ UNCHANGED missed /\ UNCHANGED visit
        /\ Broker!Connect(s, Host)
    BY <1>7 DEF Broker!Wake
  <2>2. Connected
    BY <2>1
  <2>3. host' \in HostPlaces /\ host' # <<"ended">>
    BY <2>1, HostPlacesAre
  <2> HIDE DEF Connected
  <2> QED BY <1>1, <1>2, <2>1, <2>2, <2>3, HostFields, HostInvFrom
<1>8. ASSUME NEW s \in Broker!Servers, Broker!WakeMissed(s)
      PROVE  HostInv'
  <2>1. /\ missed' = missed \cup {s} /\ UNCHANGED visit /\ UNCHANGED host_server
        /\ UNCHANGED peer
        /\ host' = <<"wake", "sdk">> \/ host' = <<"join">>
    BY <1>8 DEF Broker!WakeMissed
  <2>2. host' \in HostPlaces /\ host' # <<"ended">> /\ missed' \subseteq Broker!Servers
    BY <2>1, HostPlacesAre, HostFields
  <2> QED BY <1>1, <2>1, <2>2, HostFields, HostInvFrom
<1>9. CASE Broker!HostEnds
  <2>1. /\ host' = <<"ended">> /\ UNCHANGED missed /\ UNCHANGED visit /\ UNCHANGED host_server
        /\ UNCHANGED peer
        /\ \A s \in Broker!Servers : host_server[s] = "ended"
    BY <1>9 DEF Broker!HostEnds
  <2>2. host' \in HostPlaces
    BY <2>1, HostPlacesAre
  <2> QED BY <1>1, <2>1, <2>2, HostFields, HostInvFrom
<1> QED BY <1>3, <1>4, <1>5, <1>6, <1>7, <1>8, <1>9 DEF Broker!HostStep

\* The invariant of the servers, kept by each step: when RunHost ends there is no
\* thread of a client.
LEMMA HostInductive ==
  /\ Broker!Init => HostInv
  /\ HostInv /\ [Broker!Next]_hostVars => HostInv'
  /\ HostInv => Broker!NoThreadAfterClose
<1>1. Broker!Init => HostInv
  <2> SUFFICES ASSUME Broker!Init PROVE HostInv
    OBVIOUS
  <2>1. {gRun, host_active} \subseteq BOOLEAN
    BY DEF Broker!Init
  <2>2. <<"run">> # <<"ended">>
    <3>1. <<"run">>[1] = "run" /\ <<"ended">>[1] = "ended"
      OBVIOUS
    <3> QED BY <3>1
  <2> QED BY <2>1, <2>2, HostPlacesAre DEF Broker!Init, HostInv, Broker!TypeOK, Matched
<1>2. ASSUME HostInv, Broker!Next PROVE HostInv'
  BY <1>2, ServerBetween, ServerServes, HostClients DEF Broker!Next, Broker!ServerStep
<1>3. ASSUME HostInv, UNCHANGED hostVars PROVE HostInv'
  BY <1>3 DEF HostInv, Broker!TypeOK, hostVars
<1>4. HostInv => Broker!NoThreadAfterClose
  BY HostFields, HostPlacesAre DEF Matched, Broker!NoThreadAfterClose
<1> QED BY <1>1, <1>2, <1>3, <1>4

-----------------------------------------------------------------------------
(* The ports of an audio node *)

Subscribed == {k \in Clients : client[k] \in {"wait", "send"}}

\* A client has a thread that Stop will join, none comes after the acceptor has
\* ended, and the counter is the number of subscribers.
PortInv ==
  /\ Audio!TypeOK /\ Audio!CountIsRight
  /\ \A k \in Clients : client[k] \in {"request", "wait", "send"} => k \in threads
  /\ stop \in {"clients", "done"} => port_acceptor # "listen"
  /\ stop = "done" => \A k \in Clients : client[k] \in {"none", "over"}

ClientPlaces == {"none", "request", "wait", "send", "over"}

\* The types, one by one.
LEMMA PortFields ==
  ASSUME PortInv
  PROVE  /\ audio_gRun \in BOOLEAN /\ nodeRun \in BOOLEAN
         /\ stopEvents \subseteq {"port", "control"}
         /\ capture \in {"running", "ended"} /\ port_acceptor \in {"listen", "dead", "ended"}
         /\ client \in [Clients -> ClientPlaces]
         /\ generation \in 0..AudioFrames
         /\ audio_seen \in [Clients -> 0..AudioFrames] /\ heard \in [Clients -> 0..AudioFrames]
         /\ activeClients \in Nat /\ threads \subseteq Clients
         /\ control \in {"listen", "read", "ended"} /\ talker \in {"none", "writes", "silent"}
         /\ stop \in {"no", "capture", "control", "accept", "clients", "done"}
         /\ activeClients = Cardinality(Subscribed)
         /\ \A k \in Clients : client[k] \in {"request", "wait", "send"} => k \in threads
         /\ stop \in {"clients", "done"} => port_acceptor # "listen"
         /\ stop = "done" => \A k \in Clients : client[k] \in {"none", "over"}
         /\ AudioFrames \in Nat
<1>1. audio_gRun \in BOOLEAN /\ nodeRun \in BOOLEAN
  BY DEF PortInv, Audio!TypeOK
<1>2. activeClients = Cardinality(Subscribed)
  BY DEF PortInv, Audio!CountIsRight, Subscribed, Audio!Cardinality, Cardinality
<1>3. AudioFrames \in Nat
  BY BoundsAssumption
<1> QED BY <1>1, <1>2, <1>3 DEF PortInv, Audio!TypeOK, ClientPlaces

\* The invariant after a step, from its parts.
LEMMA PortInvFrom ==
  ASSUME audio_gRun' \in BOOLEAN, nodeRun' \in BOOLEAN,
         stopEvents' \subseteq {"port", "control"},
         capture' \in {"running", "ended"}, port_acceptor' \in {"listen", "dead", "ended"},
         client' \in [Clients -> ClientPlaces],
         generation' \in 0..AudioFrames,
         audio_seen' \in [Clients -> 0..AudioFrames], heard' \in [Clients -> 0..AudioFrames],
         activeClients' \in Nat, threads' \subseteq Clients,
         control' \in {"listen", "read", "ended"}, talker' \in {"none", "writes", "silent"},
         stop' \in {"no", "capture", "control", "accept", "clients", "done"},
         activeClients' = Cardinality(Subscribed'),
         \A k \in Clients : client'[k] \in {"request", "wait", "send"} => k \in threads',
         stop' \in {"clients", "done"} => port_acceptor' # "listen",
         stop' = "done" => \A k \in Clients : client'[k] \in {"none", "over"}
  PROVE  PortInv'
<1>1. {audio_gRun', nodeRun'} \subseteq BOOLEAN
  OBVIOUS
<1>2. Audio!CountIsRight'
  BY DEF Audio!CountIsRight, Subscribed, Audio!Cardinality, Cardinality
<1> QED BY <1>1, <1>2 DEF PortInv, Audio!TypeOK, ClientPlaces

\* A client that comes to another place, and what that does to the counter.
LEMMA SubscribersChange ==
  ASSUME PortInv, NEW k \in Clients, NEW to \in ClientPlaces,
         client' = [client EXCEPT ![k] = to]
  PROVE  /\ client' \in [Clients -> ClientPlaces]
         /\ Subscribed' = IF to \in {"wait", "send"} THEN Subscribed \cup {k} ELSE Subscribed \ {k}
         /\ Cardinality(Subscribed) \in Nat
         /\ k \in Subscribed => Cardinality(Subscribed \ {k}) = Cardinality(Subscribed) - 1
         /\ k \notin Subscribed => Cardinality(Subscribed \cup {k}) = Cardinality(Subscribed) + 1
         /\ Cardinality(Subscribed') \in Nat
<1>1. client' \in [Clients -> ClientPlaces]
  BY PortFields
<1>2. Subscribed' = IF to \in {"wait", "send"} THEN Subscribed \cup {k} ELSE Subscribed \ {k}
  BY PortFields DEF Subscribed
<1>3. IsFiniteSet(Subscribed) /\ IsFiniteSet(Subscribed')
  <2>1. Subscribed \subseteq Clients /\ Subscribed' \subseteq Clients
    BY DEF Subscribed
  <2> QED BY <2>1, ClientsAssumption, FS_Subset
<1>4. Cardinality(Subscribed) \in Nat /\ Cardinality(Subscribed') \in Nat
  BY <1>3, FS_CardinalityType
<1>5. k \in Subscribed => Cardinality(Subscribed \ {k}) = Cardinality(Subscribed) - 1
  BY <1>3, FS_RemoveElement
<1>6. k \notin Subscribed => Cardinality(Subscribed \cup {k}) = Cardinality(Subscribed) + 1
  BY <1>3, FS_AddElement
<1> QED BY <1>1, <1>2, <1>4, <1>5, <1>6

\* A client's thread, from its start to its end.
LEMMA PortClientKeeps ==
  ASSUME PortInv, NEW k \in Clients,
         Audio!Accept(k) \/ Audio!PortStep(k) \/ Audio!LoseClient(k)
  PROVE  PortInv'
<1>1. /\ UNCHANGED audio_gRun /\ UNCHANGED nodeRun /\ UNCHANGED stopEvents
      /\ UNCHANGED capture /\ UNCHANGED generation /\ UNCHANGED control
      /\ UNCHANGED talker /\ UNCHANGED stop
  BY DEF Audio!Accept, Audio!PortStep, Audio!Subscribe, Audio!Copy, Audio!Sent,
         Audio!EndServing, Audio!LoseClient, Audio!Unsubscribe, Audio!ctlVars
<1>2. CASE Audio!Accept(k)
  <2>1. /\ client' = [client EXCEPT ![k] = "request"] /\ threads' = threads \cup {k}
        /\ client[k] = "none" /\ port_acceptor = "listen"
        /\ UNCHANGED audio_seen /\ UNCHANGED heard /\ UNCHANGED activeClients
    BY <1>2 DEF Audio!Accept, Audio!To
  <2>2. port_acceptor' \in {"listen", "ended"}
    BY <1>2 DEF Audio!Accept
  <2>3. client' \in [Clients -> ClientPlaces] /\ Subscribed' = Subscribed \ {k}
    BY <2>1, SubscribersChange DEF ClientPlaces
  <2>4. Subscribed' = Subscribed
    BY <2>1, <2>3 DEF Subscribed
  <2>5. /\ stop \notin {"clients", "done"} /\ threads' \subseteq Clients
        /\ \A c \in Clients : client'[c] \in {"request", "wait", "send"} => c \in threads'
    BY <2>1, PortFields
  <2> QED BY <1>1, <2>1, <2>2, <2>3, <2>4, <2>5, PortFields, PortInvFrom
<1>3. ASSUME UNCHANGED port_acceptor, UNCHANGED threads,
             client[k] \in {"request", "wait", "send"}, NEW to \in ClientPlaces \ {"none"},
             client' = [client EXCEPT ![k] = to],
             audio_seen' \in [Clients -> 0..AudioFrames], heard' \in [Clients -> 0..AudioFrames],
             activeClients' = CASE to \in {"wait", "send"} /\ client[k] = "request" ->
                                     activeClients + 1
                                [] to \notin {"wait", "send"} /\ client[k] # "request" ->
                                     activeClients - 1
                                [] OTHER -> activeClients
      PROVE  PortInv'
  <2>1. /\ client' \in [Clients -> ClientPlaces]
        /\ Subscribed' = IF to \in {"wait", "send"} THEN Subscribed \cup {k} ELSE Subscribed \ {k}
        /\ Cardinality(Subscribed) \in Nat
        /\ k \in Subscribed => Cardinality(Subscribed \ {k}) = Cardinality(Subscribed) - 1
        /\ k \notin Subscribed => Cardinality(Subscribed \cup {k}) = Cardinality(Subscribed) + 1
        /\ Cardinality(Subscribed') \in Nat
    BY <1>3, SubscribersChange
  <2>2. k \in Subscribed <=> client[k] # "request"
    BY <1>3 DEF Subscribed
  <2>3. activeClients' = Cardinality(Subscribed')
    <3>0. activeClients = Cardinality(Subscribed)
      BY PortFields
    <3>1. CASE to \in {"wait", "send"} /\ client[k] = "request"
      BY <1>3, <2>1, <2>2, <3>0, <3>1
    <3>2. CASE to \in {"wait", "send"} /\ client[k] # "request"
      <4>1. Subscribed' = Subscribed
        BY <2>1, <2>2, <3>2
      <4> QED BY <1>3, <3>0, <3>2, <4>1
    <3>3. CASE to \notin {"wait", "send"} /\ client[k] # "request"
      BY <1>3, <2>1, <2>2, <3>0, <3>3
    <3>4. CASE to \notin {"wait", "send"} /\ client[k] = "request"
      <4>1. Subscribed' = Subscribed
        BY <2>1, <2>2, <3>4
      <4> QED BY <1>3, <3>0, <3>4, <4>1
    <3> QED BY <3>1, <3>2, <3>3, <3>4
  <2>4. k \in threads
    BY <1>3, PortFields
  <2>5. \A c \in Clients : client'[c] \in {"request", "wait", "send"} => c \in threads'
    BY <1>3, <2>4, PortFields
  <2>6. stop # "done"
    BY <1>3, PortFields
  <2> QED BY <1>1, <1>3, <2>1, <2>3, <2>5, <2>6, PortFields, PortInvFrom
<1>4. CASE Audio!Subscribe(k)
  <2>1. /\ UNCHANGED port_acceptor /\ UNCHANGED threads /\ UNCHANGED heard
        /\ client[k] = "request"
        /\ \/ /\ client' = [client EXCEPT ![k] = "wait"] /\ activeClients' = activeClients + 1
              /\ audio_seen' = [audio_seen EXCEPT ![k] = 0]
           \/ /\ client' = [client EXCEPT ![k] = "over"] /\ UNCHANGED activeClients
              /\ UNCHANGED audio_seen
    BY <1>4 DEF Audio!Subscribe, Audio!To
  <2>2. audio_seen' \in [Clients -> 0..AudioFrames]
    BY <2>1, PortFields
  <2> QED BY <1>3, <2>1, <2>2, PortFields DEF ClientPlaces
<1>5. CASE Audio!Copy(k)
  <2>1. /\ UNCHANGED port_acceptor /\ UNCHANGED threads /\ UNCHANGED heard
        /\ client[k] = "wait" /\ client' = [client EXCEPT ![k] = "send"]
        /\ UNCHANGED activeClients /\ audio_seen' = [audio_seen EXCEPT ![k] = generation]
    BY <1>5 DEF Audio!Copy, Audio!To
  <2>2. audio_seen' \in [Clients -> 0..AudioFrames]
    BY <2>1, PortFields
  <2> QED BY <1>3, <2>1, <2>2, PortFields DEF ClientPlaces
<1>6. CASE Audio!Sent(k)
  <2>1. /\ UNCHANGED port_acceptor /\ UNCHANGED threads /\ UNCHANGED audio_seen
        /\ client[k] = "send" /\ client' = [client EXCEPT ![k] = "wait"]
        /\ UNCHANGED activeClients /\ heard' = [heard EXCEPT ![k] = audio_seen[k]]
    BY <1>6 DEF Audio!Sent, Audio!To
  <2>2. heard' \in [Clients -> 0..AudioFrames]
    BY <2>1, PortFields
  <2> QED BY <1>3, <2>1, <2>2, PortFields DEF ClientPlaces
<1>7. CASE Audio!EndServing(k) \/ Audio!LoseClient(k)
  <2>1. /\ UNCHANGED port_acceptor /\ UNCHANGED threads /\ UNCHANGED audio_seen
        /\ UNCHANGED heard
        /\ client[k] \in {"wait", "send"} /\ client' = [client EXCEPT ![k] = "over"]
        /\ activeClients' = activeClients - 1
    BY <1>7 DEF Audio!EndServing, Audio!LoseClient, Audio!Unsubscribe, Audio!To
  <2> QED BY <1>3, <2>1, PortFields DEF ClientPlaces
<1> QED BY <1>2, <1>4, <1>5, <1>6, <1>7 DEF Audio!PortStep

\* Everything else leaves the clients alone; Stop is done only when the acceptor
\* and every thread that it started have ended.
LEMMA PortNodeKeeps ==
  ASSUME PortInv,
         \/ Audio!Publish \/ Audio!AcceptDies \/ Audio!AcceptEnds
         \/ Audio!ControlConnect \/ Audio!ControlServe \/ Audio!ControlPeerLeaves
         \/ Audio!ControlEnds \/ Audio!ServiceStops \/ Audio!StopNode \/ Audio!NodeStep
  PROVE  PortInv'
<1>1. /\ UNCHANGED client /\ UNCHANGED audio_seen /\ UNCHANGED heard
  BY DEF Audio!Publish, Audio!AcceptDies, Audio!AcceptEnds, Audio!ControlConnect,
         Audio!ControlServe, Audio!ControlPeerLeaves, Audio!ControlEnds, Audio!ServiceStops,
         Audio!StopNode, Audio!NodeStep, Audio!CaptureEnds, Audio!StopControl, Audio!StopPort,
         Audio!JoinAcceptor, Audio!JoinClients, Audio!portVars, Audio!ctlVars
<1>2. Subscribed' = Subscribed
  BY <1>1 DEF Subscribed
<1>3. CASE Audio!Publish
  <2>1. /\ UNCHANGED audio_gRun /\ UNCHANGED nodeRun /\ UNCHANGED stopEvents
        /\ UNCHANGED capture /\ UNCHANGED port_acceptor /\ UNCHANGED activeClients
        /\ UNCHANGED threads /\ UNCHANGED control /\ UNCHANGED talker /\ UNCHANGED stop
        /\ generation < AudioFrames /\ generation' = generation + 1
    BY <1>3 DEF Audio!Publish, Audio!ctlVars
  <2>2. generation' \in 0..AudioFrames
    BY <2>1, PortFields
  <2> QED BY <1>1, <1>2, <2>1, <2>2, PortFields, PortInvFrom
<1>4. CASE Audio!AcceptDies \/ Audio!AcceptEnds
  <2>1. /\ UNCHANGED audio_gRun /\ UNCHANGED nodeRun /\ UNCHANGED stopEvents
        /\ UNCHANGED capture /\ UNCHANGED generation /\ UNCHANGED activeClients
        /\ UNCHANGED threads /\ UNCHANGED control /\ UNCHANGED talker /\ UNCHANGED stop
        /\ port_acceptor' \in {"dead", "ended"}
    BY <1>4 DEF Audio!AcceptDies, Audio!AcceptEnds, Audio!ctlVars
  <2> QED BY <1>1, <1>2, <2>1, PortFields, PortInvFrom
<1>5. CASE Audio!ControlConnect \/ Audio!ControlServe \/ Audio!ControlPeerLeaves \/ Audio!ControlEnds
  <2>1. /\ UNCHANGED audio_gRun /\ UNCHANGED nodeRun /\ UNCHANGED stopEvents
        /\ UNCHANGED capture /\ UNCHANGED generation /\ UNCHANGED activeClients
        /\ UNCHANGED threads /\ UNCHANGED stop /\ UNCHANGED port_acceptor
    BY <1>5 DEF Audio!ControlConnect, Audio!ControlServe, Audio!ControlPeerLeaves,
                Audio!ControlEnds, Audio!portVars
  <2>2. control' \in {"listen", "read", "ended"} /\ talker' \in {"none", "writes", "silent"}
    BY <1>5, PortFields
       DEF Audio!ControlConnect, Audio!ControlServe, Audio!ControlPeerLeaves, Audio!ControlEnds
  <2> QED BY <1>1, <1>2, <2>1, <2>2, PortFields, PortInvFrom
<1>6. CASE Audio!JoinClients
  <2>1. /\ UNCHANGED audio_gRun /\ UNCHANGED nodeRun /\ UNCHANGED stopEvents
        /\ UNCHANGED capture /\ UNCHANGED generation /\ UNCHANGED control /\ UNCHANGED talker
        /\ UNCHANGED port_acceptor
        /\ threads' = {} /\ activeClients' = 0 /\ stop' = "done" /\ stop = "clients"
        /\ \A k \in threads : client[k] = "over"
    BY <1>6 DEF Audio!JoinClients, Audio!ctlVars
  <2>2. \A k \in Clients : client[k] \in {"none", "over"}
    BY <2>1, PortFields DEF ClientPlaces
  <2>3. Subscribed = {}
    BY <2>2 DEF Subscribed
  <2>4. Cardinality(Subscribed) = 0
    BY <2>3, FS_EmptySet
  <2> QED BY <1>1, <1>2, <2>1, <2>2, <2>4, PortFields, PortInvFrom
<1>7. CASE \/ Audio!ServiceStops \/ Audio!StopNode \/ Audio!CaptureEnds
           \/ Audio!StopControl \/ Audio!StopPort \/ Audio!JoinAcceptor
  <2>1. /\ UNCHANGED generation /\ UNCHANGED control /\ UNCHANGED talker
        /\ UNCHANGED port_acceptor /\ UNCHANGED threads /\ UNCHANGED activeClients
        /\ stop' = "clients" => stop = "clients" \/ port_acceptor # "listen"
        /\ stop' = "done" => stop = "done"
    BY <1>7
       DEF Audio!ServiceStops, Audio!StopNode, Audio!CaptureEnds, Audio!StopControl,
           Audio!StopPort, Audio!JoinAcceptor, Audio!portVars, Audio!ctlVars
  <2>2. /\ stopEvents' \subseteq {"port", "control"} /\ capture' \in {"running", "ended"}
        /\ stop' \in {"no", "capture", "control", "accept", "clients", "done"}
    BY <1>7, PortFields
       DEF Audio!ServiceStops, Audio!StopNode, Audio!CaptureEnds, Audio!StopControl,
           Audio!StopPort, Audio!JoinAcceptor
  <2>3. audio_gRun' \in BOOLEAN /\ nodeRun' \in BOOLEAN
    <3>1. /\ audio_gRun' = audio_gRun \/ audio_gRun' = FALSE
          /\ nodeRun' = nodeRun \/ nodeRun' = FALSE
      BY <1>7
         DEF Audio!ServiceStops, Audio!StopNode, Audio!CaptureEnds, Audio!StopControl,
             Audio!StopPort, Audio!JoinAcceptor
    <3> QED BY <3>1, PortFields
  <2> QED BY <1>1, <1>2, <2>1, <2>2, <2>3, PortFields, PortInvFrom
<1> QED BY <1>3, <1>4, <1>5, <1>6, <1>7 DEF Audio!NodeStep

\* The invariant of the node, kept by each step: when Stop is done no thread of a
\* client is left.
LEMMA PortInductive ==
  /\ Audio!Init => PortInv
  /\ PortInv /\ [Audio!Next]_portVars => PortInv'
  /\ PortInv => Audio!NoClientOutlivesPort
<1>1. Audio!Init => PortInv
  <2> SUFFICES ASSUME Audio!Init PROVE PortInv
    OBVIOUS
  <2>1. {audio_gRun, nodeRun} \subseteq BOOLEAN
    BY DEF Audio!Init
  <2>2. Subscribed = {}
    BY DEF Audio!Init, Subscribed
  <2>3. activeClients = Cardinality(Subscribed)
    BY <2>2, FS_EmptySet DEF Audio!Init
  <2>4. Audio!CountIsRight
    BY <2>3 DEF Audio!CountIsRight, Subscribed, Audio!Cardinality, Cardinality
  <2>5. AudioFrames \in Nat
    BY BoundsAssumption
  <2> QED BY <2>1, <2>4, <2>5 DEF Audio!Init, PortInv, Audio!TypeOK
<1>2. ASSUME PortInv, Audio!Next PROVE PortInv'
  BY <1>2, PortClientKeeps, PortNodeKeeps DEF Audio!Next
<1>3. ASSUME PortInv, UNCHANGED portVars PROVE PortInv'
  <2>1. Subscribed' = Subscribed /\ UNCHANGED activeClients
    BY <1>3 DEF Subscribed, portVars
  <2>2. Audio!CountIsRight'
    BY <2>1, PortFields, <1>3 DEF Audio!CountIsRight, Subscribed, Audio!Cardinality, Cardinality
  <2> QED BY <1>3, <2>2 DEF PortInv, Audio!TypeOK, portVars
<1>4. PortInv => Audio!NoClientOutlivesPort
  BY DEF PortInv, Audio!NoClientOutlivesPort
<1> QED BY <1>1, <1>2, <1>3, <1>4

-----------------------------------------------------------------------------
(* The motor *)

MotorPlaces == {"idle", "lock", "open", "io", "prepare", "read", "issue", "ack", "quiet",
                "wait", "recover", "leave"}
Calls    == [cmd : {"Ping"} \cup UNION {Commands[s] : s \in Contexts}, ctx : Contexts,
             goal : Motor!Angles, attempt : 1..2, quiet : Nat, sent : 0..2,
             result : {"none", "ok", "error"}]
Sessions == [open : BOOLEAN, prepared : BOOLEAN, known : BOOLEAN, last : Motor!Angles]

\* Where a thread has the I/O mutex, and where the motor has its command.
WithIo    == {"prepare", "read", "issue", "ack", "quiet", "wait"}
Commanded == {"ack", "quiet", "wait"}

\* A thread at label with call r: while it waits for the motor nobody has told the motor
\* anything else, and a command was sent once in every attempt at most.
CallOK(c, label, r, io, target, k) ==
  /\ label \in WithIo => io = c
  /\ label \in Commanded => target = r.goal
  /\ label = "read" => r.cmd = "Status"
  /\ k = "1414" => label \notin {"ack", "quiet"}
  /\ label = "recover" => r.attempt = 1
  /\ r.sent <= (IF label \in Commanded \cup {"recover", "leave"} THEN r.attempt
                ELSE r.attempt - 1)

MotorTypes ==
  /\ nui \in [Contexts -> Sessions] /\ inFlight \in [Contexts -> BOOLEAN]
  /\ mutex \in [Contexts -> Threads \cup {Nobody}] /\ ioMutex \in Threads \cup {Nobody}
  /\ motor \in [pos : Motor!Angles, target : Motor!Angles]
  /\ cut \subseteq Threads

CallsOK ==
  /\ motor_pc \in [Threads -> MotorPlaces] /\ call \in [Threads -> Calls]
  /\ \A c \in Threads : CallOK(c, motor_pc[c], call[c], ioMutex, motor.target, kind)

MotorInv == MotorTypes /\ CallsOK

\* The calls of the others stay right, as long as the I/O mutex and the motor's command
\* are taken from nobody else.
LEMMA CallMoves ==
  ASSUME CallsOK, NEW c \in Threads, UNCHANGED kind,
         motor_pc' \in [Threads -> MotorPlaces], call' \in [Threads -> Calls],
         \A d \in Threads \ {c} : motor_pc'[d] = motor_pc[d] /\ call'[d] = call[d],
         ioMutex' = ioMutex \/ ioMutex \in {c, Nobody},
         motor'.target = motor.target \/ ioMutex = c,
         CallOK(c, motor_pc'[c], call'[c], ioMutex', motor'.target, kind)
  PROVE  CallsOK'
<1>1. ASSUME NEW d \in Threads \ {c}
      PROVE  CallOK(d, motor_pc'[d], call'[d], ioMutex', motor'.target, kind)
  <2>1. CallOK(d, motor_pc[d], call[d], ioMutex, motor.target, kind)
    BY DEF CallsOK
  <2>2. motor_pc[d] \in Commanded => motor_pc[d] \in WithIo
    BY DEF Commanded, WithIo
  <2>3. d # c /\ d # Nobody /\ motor_pc'[d] = motor_pc[d] /\ call'[d] = call[d]
    BY MotorAssumption
  <2> QED BY <2>1, <2>2, <2>3 DEF CallOK
<1>2. \A d \in Threads : CallOK(d, motor_pc'[d], call'[d], ioMutex', motor'.target, kind)
  BY <1>1
<1> QED BY <1>2 DEF CallsOK

\* How a thread moves: its place, and its call.
LEMMA MotorMoves ==
  ASSUME CallsOK, NEW c \in Threads, NEW to \in MotorPlaces, NEW r \in Calls,
         motor_pc' = [motor_pc EXCEPT ![c] = to], call' = [call EXCEPT ![c] = r]
  PROVE  /\ motor_pc' \in [Threads -> MotorPlaces] /\ call' \in [Threads -> Calls]
         /\ motor_pc'[c] = to /\ call'[c] = r
         /\ \A d \in Threads \ {c} : motor_pc'[d] = motor_pc[d] /\ call'[d] = call[d]
BY DEF CallsOK

\* What is known of the call of a thread.
LEMMA CallIs ==
  ASSUME MotorInv, NEW c \in Threads
  PROVE  /\ call[c] \in Calls /\ motor_pc[c] \in MotorPlaces
         /\ call = [call EXCEPT ![c] = call[c]]
         /\ motor.pos \in Motor!Angles /\ motor.target \in Motor!Angles
         /\ nui[call[c].ctx] \in Sessions
         /\ CallOK(c, motor_pc[c], call[c], ioMutex, motor.target, kind)
BY DEF MotorInv, MotorTypes, CallsOK, Calls

\* A transaction that succeeds: the I/O mutex goes, and the answer is known.
LEMMA MotorSucceeds ==
  ASSUME MotorInv, NEW c \in Threads, Motor!Succeed(c), UNCHANGED kind, UNCHANGED inFlight,
         UNCHANGED mutex, UNCHANGED motor, nui' \in [Contexts -> Sessions]
  PROVE  MotorInv'
<1> DEFINE r == [call[c] EXCEPT !.result = "ok"]
<1>1. /\ motor_pc' = [motor_pc EXCEPT ![c] = "leave"] /\ call' = [call EXCEPT ![c] = r]
      /\ ioMutex' = (IF ioMutex = c THEN Nobody ELSE ioMutex) /\ cut' = cut \ {c}
  BY DEF Motor!Succeed, Motor!Goto, Motor!ReleaseIo
<1>2. r \in Calls /\ r.sent = call[c].sent /\ r.attempt = call[c].attempt
  BY CallIs DEF Calls
<1>3. "leave" \in MotorPlaces
  BY DEF MotorPlaces
<1>4. CallOK(c, "leave", r, ioMutex', motor'.target, kind)
  BY <1>2, CallIs DEF CallOK, WithIo, Commanded, Calls
<1> HIDE DEF r
<1>5. CallsOK'
  BY <1>1, <1>2, <1>3, <1>4, MotorMoves, CallMoves DEF MotorInv
<1>6. MotorTypes'
  BY <1>1 DEF MotorInv, MotorTypes
<1> QED BY <1>5, <1>6 DEF MotorInv

\* One that fails is tried again, or the handle is closed.
LEMMA MotorFails ==
  ASSUME MotorInv, NEW c \in Threads, Motor!Fail(c), UNCHANGED kind, UNCHANGED inFlight,
         UNCHANGED mutex, UNCHANGED motor
  PROVE  MotorInv' /\ (call'[c].result = "ok" => call[c].result = "ok")
         /\ \A d \in Threads \ {c} : call'[d] = call[d]
<1> DEFINE r == [call[c] EXCEPT !.result = "error"]
<1>1. ioMutex' = (IF ioMutex = c THEN Nobody ELSE ioMutex) /\ cut' = cut \ {c}
  BY DEF Motor!Fail, Motor!ReleaseIo
<1>2. \/ /\ motor_pc' = [motor_pc EXCEPT ![c] = "recover"] /\ call[c].attempt = 1
         /\ call' = [call EXCEPT ![c] = call[c]] /\ UNCHANGED nui
      \/ /\ motor_pc' = [motor_pc EXCEPT ![c] = "leave"] /\ call' = [call EXCEPT ![c] = r]
         /\ nui' = [nui EXCEPT ![call[c].ctx] = Motor!Shut]
  BY CallIs DEF Motor!Fail, Motor!Goto
<1>3. call[c] \in Calls /\ r \in Calls /\ r.sent = call[c].sent /\ r.attempt = call[c].attempt
      /\ r.result = "error"
  BY CallIs DEF Calls
<1>4. {"recover", "leave"} \subseteq MotorPlaces
  BY DEF MotorPlaces
<1>5. ASSUME NEW to \in {"recover", "leave"}, NEW s \in {call[c], r},
             to = "recover" => call[c].attempt = 1
      PROVE  CallOK(c, to, s, ioMutex', motor'.target, kind)
  <2>1. s.sent = call[c].sent /\ s.attempt = call[c].attempt
    BY <1>3
  <2> QED BY <1>5, <2>1, CallIs DEF CallOK, WithIo, Commanded, Calls
<1>6. nui' \in [Contexts -> Sessions]
  <2>1. Motor!Shut \in Sessions
    BY MotorAssumption DEF Motor!Shut, Sessions, Motor!Angles
  <2> QED BY <1>2, <2>1 DEF MotorInv, MotorTypes
<1> HIDE DEF r
<1>7. CallsOK' /\ (call'[c].result = "ok" => call[c].result = "ok")
      /\ \A d \in Threads \ {c} : call'[d] = call[d]
  <2>1. CASE /\ motor_pc' = [motor_pc EXCEPT ![c] = "recover"] /\ call[c].attempt = 1
             /\ call' = [call EXCEPT ![c] = call[c]]
    BY <1>1, <1>3, <1>4, <1>5, <2>1, MotorMoves, CallMoves DEF MotorInv
  <2>2. CASE /\ motor_pc' = [motor_pc EXCEPT ![c] = "leave"] /\ call' = [call EXCEPT ![c] = r]
    BY <1>1, <1>3, <1>4, <1>5, <2>2, MotorMoves, CallMoves DEF MotorInv
  <2> QED BY <1>2, <2>1, <2>2
<1>8. MotorTypes'
  BY <1>1, <1>6 DEF MotorInv, MotorTypes
<1> QED BY <1>7, <1>8 DEF MotorInv

\* What TiltSuccessIsMine says of a step.
TiltIsMine ==
  \A c \in Threads :
    call[c].cmd = "Tilt" /\ call[c].result # "ok" /\ call'[c].result = "ok" =>
      motor.target = call[c].goal /\ (kind = "1414" => motor.pos = call[c].goal)

\* A step in which no transaction ends.
LEMMA MotorGoes ==
  ASSUME MotorInv, NEW c \in Threads, NEW to \in MotorPlaces, NEW r \in Calls, UNCHANGED kind,
         motor_pc' = [motor_pc EXCEPT ![c] = to], call' = [call EXCEPT ![c] = r],
         r.result = "ok" => call[c].result = "ok",
         ioMutex' = ioMutex \/ ioMutex \in {c, Nobody},
         motor'.target = motor.target \/ ioMutex = c,
         CallOK(c, to, r, ioMutex', motor'.target, kind), MotorTypes'
  PROVE  MotorInv' /\ TiltIsMine
<1>1. CallsOK'
  BY MotorMoves, CallMoves DEF MotorInv
<1>2. call'[c] = r /\ \A d \in Threads \ {c} : call'[d] = call[d]
  BY MotorMoves DEF MotorInv
<1>3. TiltIsMine
  BY <1>2 DEF TiltIsMine
<1> QED BY <1>1, <1>3 DEF MotorInv

\* One that fails.
LEMMA MotorFailsMine ==
  ASSUME MotorInv, NEW c \in Threads, Motor!Fail(c), UNCHANGED kind, UNCHANGED inFlight,
         UNCHANGED mutex, UNCHANGED motor
  PROVE  MotorInv' /\ TiltIsMine
BY MotorFails DEF TiltIsMine

\* One that succeeds, for which there is something to show if it is a Tilt.
LEMMA MotorSucceedsMine ==
  ASSUME MotorInv, NEW c \in Threads, Motor!Succeed(c), UNCHANGED kind, UNCHANGED inFlight,
         UNCHANGED mutex, UNCHANGED motor, nui' \in [Contexts -> Sessions],
         call[c].cmd = "Tilt" =>
           motor.target = call[c].goal /\ (kind = "1414" => motor.pos = call[c].goal)
  PROVE  MotorInv' /\ TiltIsMine
<1>1. \A d \in Threads \ {c} : call'[d] = call[d]
  BY DEF Motor!Succeed, MotorInv, CallsOK
<1>2. TiltIsMine
  BY <1>1 DEF TiltIsMine
<1> QED BY <1>2, MotorSucceeds

\* Every step of a thread.
LEMMA MotorStep ==
  ASSUME MotorInv, NEW c \in Threads,
         \/ Motor!Request(c) \/ Motor!Lock(c) \/ Motor!Open(c) \/ Motor!TakeIo(c)
         \/ Motor!Transaction(c) \/ Motor!Recover(c) \/ Motor!Leave(c)
  PROVE  MotorInv' /\ TiltIsMine
<1>1. MotorTypes /\ CallsOK
  BY DEF MotorInv
<1>2. /\ call[c] \in Calls /\ motor_pc[c] \in MotorPlaces /\ call = [call EXCEPT ![c] = call[c]]
      /\ motor.pos \in Motor!Angles /\ motor.target \in Motor!Angles
      /\ nui[call[c].ctx] \in Sessions
      /\ CallOK(c, motor_pc[c], call[c], ioMutex, motor.target, kind)
  BY CallIs
<1>3. /\ MaxTilt \in Nat /\ 0 \in Motor!Angles /\ Motor!Shut \in Sessions
      /\ Motor!NoCall \in Calls /\ Motor!NoCall.attempt = 1 /\ Motor!NoCall.sent = 0
      /\ Motor!NoCall.result = "none"
  BY MotorAssumption DEF Motor!Angles, Motor!Shut, Sessions, Motor!NoCall, Calls
<1>4. UNCHANGED kind
  BY DEF Motor!Request, Motor!Lock, Motor!Open, Motor!TakeIo, Motor!Transaction, Motor!Prepare,
         Motor!ReadStatus, Motor!IssueTilt, Motor!AckTilt, Motor!FinalRead, Motor!PollTravel,
         Motor!Recover, Motor!Leave
<1>5. /\ \A s \in Contexts, ses \in Sessions : [nui EXCEPT ![s] = ses] \in [Contexts -> Sessions]
      /\ nui \in [Contexts -> Sessions] /\ call[c].ctx \in Contexts
  BY <1>1, <1>2 DEF MotorTypes, Calls
<1>6. CASE Motor!Request(c)
  <2>1. PICK s \in Contexts, goal \in Motor!Angles :
          \E cmd \in Commands[s] :
            /\ call' = [call EXCEPT ![c] = [Motor!NoCall EXCEPT !.cmd = cmd, !.ctx = s, !.goal = goal]]
            /\ inFlight' = [inFlight EXCEPT ![s] = @ \/ cmd = "Tilt"]
    BY <1>6 DEF Motor!Request
  <2>2. PICK cmd \in Commands[s] :
          /\ call' = [call EXCEPT ![c] = [Motor!NoCall EXCEPT !.cmd = cmd, !.ctx = s, !.goal = goal]]
          /\ inFlight' = [inFlight EXCEPT ![s] = @ \/ cmd = "Tilt"]
    BY <2>1
  <2> DEFINE r == [Motor!NoCall EXCEPT !.cmd = cmd, !.ctx = s, !.goal = goal]
  <2>3. r \in Calls /\ r.attempt = 1 /\ r.sent = 0 /\ r.result = "none"
    <3>1. PICK x \in Calls : /\ x = Motor!NoCall
                             /\ x.attempt = 1 /\ x.sent = 0 /\ x.result = "none"
      BY <1>3
    <3>2. cmd \in {"Ping"} \cup UNION {Commands[t] : t \in Contexts}
      BY ZenonT(30)
    <3>3. r = [x EXCEPT !.cmd = cmd, !.ctx = s, !.goal = goal]
      BY <3>1
    <3> HIDE DEF r
    <3> QED BY <3>1, <3>2, <3>3 DEF Calls
  <2>4. /\ motor_pc' = [motor_pc EXCEPT ![c] = "lock"]
        /\ UNCHANGED nui /\ UNCHANGED mutex /\ UNCHANGED ioMutex /\ UNCHANGED motor
        /\ UNCHANGED cut
    BY <1>6 DEF Motor!Request, Motor!Goto
  <2>5. inFlight' \in [Contexts -> BOOLEAN]
    BY <1>1, <2>2 DEF MotorTypes
  <2>6. MotorTypes'
    BY <1>1, <2>4, <2>5 DEF MotorTypes
  <2>7. "lock" \in MotorPlaces /\ CallOK(c, "lock", r, ioMutex', motor'.target, kind)
    BY <2>3 DEF MotorPlaces, CallOK, WithIo, Commanded
  <2> HIDE DEF r
  <2>8. call' = [call EXCEPT ![c] = r]
    BY <2>2 DEF r
  <2> QED BY <1>4, <2>3, <2>4, <2>6, <2>7, <2>8, MotorGoes
<1>7. CASE Motor!Lock(c)
  <2>1. /\ motor_pc[c] = "lock" /\ motor_pc' = [motor_pc EXCEPT ![c] = "open"]
        /\ mutex' = [mutex EXCEPT ![call[c].ctx] = c] /\ call' = call
        /\ UNCHANGED nui /\ UNCHANGED inFlight /\ UNCHANGED ioMutex /\ UNCHANGED motor
        /\ UNCHANGED cut
    BY <1>7 DEF Motor!Lock, Motor!Goto
  <2>2. MotorTypes'
    BY <1>1, <1>5, <2>1 DEF MotorTypes
  <2>3. "open" \in MotorPlaces /\ CallOK(c, "open", call[c], ioMutex', motor'.target, kind)
    BY <1>2, <2>1 DEF MotorPlaces, CallOK, WithIo, Commanded
  <2> QED BY <1>2, <1>4, <2>1, <2>2, <2>3, MotorGoes
<1>8. CASE Motor!Open(c)
  <2>1. UNCHANGED inFlight /\ UNCHANGED mutex /\ UNCHANGED motor /\ motor_pc[c] = "open"
    BY <1>8 DEF Motor!Open
  <2>2. CASE Motor!Fail(c)
    BY <1>4, <2>1, <2>2, MotorFailsMine
  <2>3. ASSUME nui' = [nui EXCEPT ![call[c].ctx] = IF @.open THEN @ ELSE [Motor!Shut EXCEPT !.open = TRUE]],
               motor_pc' = [motor_pc EXCEPT ![c] = "io"],
               UNCHANGED call, UNCHANGED ioMutex, UNCHANGED cut
        PROVE  MotorInv' /\ TiltIsMine
    <3>1. [Motor!Shut EXCEPT !.open = TRUE] \in Sessions
      BY <1>3 DEF Sessions, Motor!Shut
    <3>2. nui' \in [Contexts -> Sessions]
      BY <1>2, <1>5, <2>3, <3>1
    <3>3. MotorTypes'
      BY <1>1, <2>1, <2>3, <3>2 DEF MotorTypes
    <3>4. "io" \in MotorPlaces /\ CallOK(c, "io", call[c], ioMutex', motor'.target, kind)
      BY <1>2, <2>1, <2>3 DEF MotorPlaces, CallOK, WithIo, Commanded
    <3> QED BY <1>2, <1>4, <2>1, <2>3, <3>3, <3>4, MotorGoes
  <2> QED BY <1>8, <2>2, <2>3 DEF Motor!Open, Motor!Goto
<1>9. CASE Motor!TakeIo(c)
  <2>1. /\ UNCHANGED nui /\ UNCHANGED inFlight /\ UNCHANGED mutex /\ UNCHANGED motor
        /\ motor_pc[c] = "io" /\ ioMutex = Nobody
    BY <1>9 DEF Motor!TakeIo
  <2>2. CASE call[c].cmd = "Ping"
    <3>1. Motor!Succeed(c)
      BY <1>9, <2>2 DEF Motor!TakeIo
    <3> QED BY <1>4, <1>5, <2>1, <2>2, <3>1, MotorSucceedsMine
  <2>3. CASE call[c].cmd # "Ping"
    <3>1. /\ ioMutex' = c /\ motor_pc' = [motor_pc EXCEPT ![c] = "prepare"]
          /\ UNCHANGED call /\ UNCHANGED cut
      BY <1>9, <2>3 DEF Motor!TakeIo, Motor!Goto
    <3>2. MotorTypes'
      BY <1>1, <2>1, <3>1 DEF MotorTypes
    <3>3. "prepare" \in MotorPlaces /\ CallOK(c, "prepare", call[c], ioMutex', motor'.target, kind)
      BY <1>2, <2>1, <3>1 DEF MotorPlaces, CallOK, WithIo, Commanded
    <3> QED BY <1>2, <1>4, <2>1, <3>1, <3>2, <3>3, MotorGoes
  <2> QED BY <2>2, <2>3
<1>10. CASE Motor!Prepare(c)
  <2>1. UNCHANGED inFlight /\ UNCHANGED mutex /\ UNCHANGED motor /\ motor_pc[c] = "prepare"
    BY <1>10 DEF Motor!Prepare
  <2>2. CASE Motor!Fail(c)
    BY <1>4, <2>1, <2>2, MotorFailsMine
  <2>3. CASE nui' = [nui EXCEPT ![call[c].ctx].prepared = TRUE]
    <3>1. nui' \in [Contexts -> Sessions]
      <4>1. [nui[call[c].ctx] EXCEPT !.prepared = TRUE] \in Sessions
        BY <1>2 DEF Sessions
      <4>2. nui' = [nui EXCEPT ![call[c].ctx] = [nui[call[c].ctx] EXCEPT !.prepared = TRUE]]
        BY <2>3
      <4> QED BY <1>5, <4>1, <4>2
    <3>2. CASE call[c].cmd \in {"Led", "PrepareCamera"} /\ Motor!Succeed(c)
      BY <1>4, <2>1, <3>1, <3>2, MotorSucceedsMine
    <3>3. ASSUME NEW to \in {"read", "issue"}, to = "read" => call[c].cmd = "Status",
                 motor_pc' = [motor_pc EXCEPT ![c] = to],
                 UNCHANGED call, UNCHANGED ioMutex, UNCHANGED cut
          PROVE  MotorInv' /\ TiltIsMine
      <4>1. MotorTypes'
        BY <1>1, <2>1, <3>1, <3>3 DEF MotorTypes
      <4>2. to \in MotorPlaces /\ CallOK(c, to, call[c], ioMutex', motor'.target, kind)
        BY <1>2, <2>1, <3>3 DEF MotorPlaces, CallOK, WithIo, Commanded
      <4> QED BY <1>2, <1>4, <2>1, <3>3, <4>1, <4>2, MotorGoes
    <3>4. \/ call[c].cmd \in {"Led", "PrepareCamera"} /\ Motor!Succeed(c)
          \/ Motor!Fail(c)
          \/ /\ motor_pc' = [motor_pc EXCEPT ![c] = IF call[c].cmd = "Status" THEN "read" ELSE "issue"]
             /\ UNCHANGED call /\ UNCHANGED ioMutex /\ UNCHANGED cut
      BY <1>10 DEF Motor!Prepare, Motor!Goto
    <3> QED BY <2>2, <3>2, <3>3, <3>4
  <2> QED BY <1>10, <2>2, <2>3 DEF Motor!Prepare
<1>11. ASSUME Motor!Learn(c) PROVE nui' \in [Contexts -> Sessions]
  <2>1. [nui[call[c].ctx] EXCEPT !.known = TRUE, !.last = motor.pos] \in Sessions
    BY <1>2 DEF Sessions
  <2>2. nui' = [nui EXCEPT ![call[c].ctx] =
                  [nui[call[c].ctx] EXCEPT !.known = TRUE, !.last = motor.pos]]
    BY <1>5, <1>11 DEF Motor!Learn
  <2> QED BY <1>5, <2>1, <2>2
<1>12. CASE Motor!ReadStatus(c)
  <2>1. UNCHANGED inFlight /\ UNCHANGED mutex /\ UNCHANGED motor /\ motor_pc[c] = "read"
        /\ ((Motor!Learn(c) /\ Motor!Succeed(c)) \/ Motor!Fail(c))
    BY <1>12 DEF Motor!ReadStatus
  <2>2. call[c].cmd = "Status"
    BY <1>2, <2>1 DEF CallOK
  <2> QED BY <1>4, <1>11, <2>1, <2>2, MotorSucceedsMine, MotorFailsMine
<1>13. CASE Motor!IssueTilt(c)
  <2>1. UNCHANGED inFlight /\ UNCHANGED mutex /\ motor_pc[c] = "issue"
    BY <1>13 DEF Motor!IssueTilt
  <2>2. CASE Motor!Fail(c) /\ UNCHANGED motor
    BY <1>4, <2>1, <2>2, MotorFailsMine
  <2>3. ASSUME motor' = [motor EXCEPT !.target = call[c].goal],
               call' = [call EXCEPT ![c].sent = @ + 1,
                                    ![c].quiet = IF kind = "1473" THEN Motor!QuietBudget(c) ELSE 0],
               motor_pc' = [motor_pc EXCEPT ![c] = IF kind = "1473" THEN "ack" ELSE "wait"],
               UNCHANGED nui, UNCHANGED ioMutex, UNCHANGED cut
        PROVE  MotorInv' /\ TiltIsMine
    <3> DEFINE q == IF kind = "1473" THEN Motor!QuietBudget(c) ELSE 0
               n == call[c].sent + 1
               r == [call[c] EXCEPT !.sent = n, !.quiet = q]
               to == IF kind = "1473" THEN "ack" ELSE "wait"
    <3>1. Motor!QuietBudget(c) \in Nat
      <4>1. call[c].goal \in 0..MaxTilt /\ nui[call[c].ctx].last \in 0..MaxTilt
        BY <1>2 DEF Calls, Sessions, Motor!Angles
      <4> QED BY <1>3, <4>1 DEF Motor!QuietBudget, Motor!Distance, Motor!Mine
    <3>2. /\ call[c].sent \in 0..2 /\ call[c].attempt \in 1..2
          /\ call[c].sent <= call[c].attempt - 1 /\ ioMutex = c
      <4>1. call[c].sent <= (IF motor_pc[c] \in Commanded \cup {"recover", "leave"}
                             THEN call[c].attempt ELSE call[c].attempt - 1)
        BY <1>2 DEF CallOK
      <4> QED BY <1>2, <2>1, <4>1 DEF CallOK, Calls, WithIo, Commanded
    <3>3. q \in Nat
      BY <3>1
    <3> HIDE DEF q
    <3>4. n \in 0..2
      BY <3>2
    <3>5. /\ r \in Calls /\ r.sent = call[c].sent + 1 /\ r.attempt = call[c].attempt
          /\ r.goal = call[c].goal /\ r.result = call[c].result
      <4> HIDE DEF n
      <4>1. r \in Calls /\ r.sent = n /\ r.attempt = call[c].attempt
            /\ r.goal = call[c].goal /\ r.result = call[c].result
        BY <1>2, <3>3, <3>4 DEF Calls
      <4> QED BY <4>1 DEF n
    <3>6. call' = [call EXCEPT ![c] = r]
      BY <1>1, <2>3 DEF q, CallsOK
    <3>7. motor' \in [pos : Motor!Angles, target : Motor!Angles] /\ motor'.target = r.goal
      BY <1>1, <1>2, <2>3, <3>5 DEF MotorTypes, Calls
    <3> HIDE DEF r
    <3>8. MotorTypes'
      BY <1>1, <2>1, <2>3, <3>7 DEF MotorTypes
    <3>9. to \in MotorPlaces /\ to \in Commanded /\ to # "read" /\ (kind = "1414" => to # "ack")
          /\ to # "quiet" /\ to # "recover"
      BY DEF MotorPlaces, Commanded
    <3>10. motor_pc' = [motor_pc EXCEPT ![c] = to]
      BY <2>3
    <3> HIDE DEF to
    <3>11. r.sent <= r.attempt
      BY <3>2, <3>5
    <3>12. CallOK(c, to, r, ioMutex', motor'.target, kind)
      BY <2>3, <3>2, <3>7, <3>9, <3>11 DEF CallOK
    <3>13. /\ r.result = "ok" => call[c].result = "ok"
           /\ ioMutex' = ioMutex /\ ioMutex = c
      BY <2>3, <3>2, <3>5
    <3> QED BY <1>4, <3>5, <3>6, <3>8, <3>9, <3>10, <3>12, <3>13, MotorGoes
  <2> QED BY <1>13, <2>2, <2>3 DEF Motor!IssueTilt, Motor!Goto
<1>14. CASE Motor!AckTilt(c)
  <2>1. UNCHANGED inFlight /\ UNCHANGED mutex /\ UNCHANGED motor /\ motor_pc[c] = "ack"
    BY <1>14 DEF Motor!AckTilt
  <2>2. CASE Motor!Fail(c)
    BY <1>4, <2>1, <2>2, MotorFailsMine
  <2>3. ASSUME motor_pc' = [motor_pc EXCEPT ![c] = "quiet"], UNCHANGED nui, UNCHANGED ioMutex,
               UNCHANGED call, UNCHANGED cut
        PROVE  MotorInv' /\ TiltIsMine
    <3>1. MotorTypes'
      BY <1>1, <2>1, <2>3 DEF MotorTypes
    <3>2. "quiet" \in MotorPlaces /\ CallOK(c, "quiet", call[c], ioMutex', motor'.target, kind)
      BY <1>2, <2>1, <2>3 DEF MotorPlaces, CallOK, WithIo, Commanded
    <3> QED BY <1>2, <1>4, <2>1, <2>3, <3>1, <3>2, MotorGoes
  <2> QED BY <1>14, <2>2, <2>3 DEF Motor!AckTilt, Motor!Goto
<1>15. CASE Motor!FinalRead(c)
  <2>1. UNCHANGED inFlight /\ UNCHANGED mutex /\ UNCHANGED motor /\ motor_pc[c] = "quiet"
        /\ (Motor!Learn(c) \/ UNCHANGED nui) /\ Motor!Succeed(c)
    BY <1>15 DEF Motor!FinalRead
  <2>2. motor.target = call[c].goal /\ kind # "1414"
    BY <1>2, <2>1 DEF CallOK, Commanded
  <2> QED BY <1>4, <1>5, <1>11, <2>1, <2>2, MotorSucceedsMine
<1>16. CASE Motor!PollTravel(c)
  <2>1. UNCHANGED inFlight /\ UNCHANGED mutex /\ UNCHANGED motor /\ motor_pc[c] = "wait"
    BY <1>16 DEF Motor!PollTravel
  <2>2. motor.target = call[c].goal
    BY <1>2, <2>1 DEF CallOK, Commanded
  <2>3. CASE Motor!Learn(c) /\ motor.pos = call[c].goal /\ Motor!Succeed(c)
    BY <1>4, <1>11, <2>1, <2>2, <2>3, MotorSucceedsMine
  <2>4. CASE Motor!Fail(c)
    BY <1>4, <2>1, <2>4, MotorFailsMine
  <2>5. ASSUME Motor!Learn(c), UNCHANGED motor_pc, UNCHANGED call, UNCHANGED ioMutex, UNCHANGED cut
        PROVE  MotorInv' /\ TiltIsMine
    <3>1. MotorTypes'
      BY <1>1, <1>11, <2>1, <2>5 DEF MotorTypes
    <3>2. CallsOK'
      BY <1>1, <1>4, <2>1, <2>5 DEF CallsOK
    <3> QED BY <2>5, <3>1, <3>2 DEF MotorInv, TiltIsMine
  <2> QED BY <1>16, <2>3, <2>4, <2>5 DEF Motor!PollTravel
<1>17. CASE Motor!Recover(c)
  <2> DEFINE r == [call[c] EXCEPT !.attempt = 2]
  <2>1. /\ motor_pc[c] = "recover" /\ motor_pc' = [motor_pc EXCEPT ![c] = "open"]
        /\ nui' = [nui EXCEPT ![call[c].ctx] = Motor!Shut] /\ call' = [call EXCEPT ![c] = r]
        /\ UNCHANGED inFlight /\ UNCHANGED mutex /\ UNCHANGED ioMutex /\ UNCHANGED motor
    BY <1>17 DEF Motor!Recover, Motor!Goto
  <2>2. cut' \subseteq Threads
    BY <1>1, <1>17 DEF Motor!Recover, Motor!InTransfer, MotorTypes
  <2>3. nui' \in [Contexts -> Sessions]
    BY <1>3, <1>5, <2>1
  <2>4. MotorTypes'
    BY <1>1, <2>1, <2>2, <2>3 DEF MotorTypes
  <2>5. r \in Calls /\ r.result = call[c].result /\ r.attempt = 2 /\ r.sent = call[c].sent
    BY <1>2 DEF Calls
  <2>6. r.sent <= r.attempt - 1
    BY <1>2, <2>1, <2>5 DEF CallOK, Calls
  <2> HIDE DEF r
  <2>7. "open" \in MotorPlaces /\ CallOK(c, "open", r, ioMutex', motor'.target, kind)
    BY <2>6 DEF MotorPlaces, CallOK, WithIo, Commanded
  <2> QED BY <1>4, <2>1, <2>4, <2>5, <2>7, MotorGoes
<1>18. CASE Motor!Leave(c)
  <2>1. /\ motor_pc' = [motor_pc EXCEPT ![c] = "idle"] /\ call' = [call EXCEPT ![c] = Motor!NoCall]
        /\ mutex' = [mutex EXCEPT ![call[c].ctx] = Nobody]
        /\ inFlight' = [inFlight EXCEPT ![call[c].ctx] = @ /\ call[c].cmd # "Tilt"]
        /\ UNCHANGED nui /\ UNCHANGED ioMutex /\ UNCHANGED motor /\ UNCHANGED cut
    BY <1>18 DEF Motor!Leave, Motor!Goto
  <2>2. inFlight' \in [Contexts -> BOOLEAN]
    BY <1>1, <2>1 DEF MotorTypes
  <2>3. MotorTypes'
    BY <1>1, <2>1, <2>2 DEF MotorTypes
  <2>4. "idle" \in MotorPlaces /\ CallOK(c, "idle", Motor!NoCall, ioMutex', motor'.target, kind)
    BY <1>3 DEF MotorPlaces, CallOK, WithIo, Commanded
  <2> QED BY <1>3, <1>4, <2>1, <2>3, <2>4, MotorGoes
<1> QED BY <1>6, <1>7, <1>8, <1>9, <1>10, <1>12, <1>13, <1>14, <1>15, <1>16, <1>17, <1>18
        DEF Motor!Transaction

\* Time passes: the motor moves towards its target, and waits grow shorter.
LEMMA MotorTicks ==
  ASSUME MotorInv, Motor!Tick
  PROVE  MotorInv' /\ TiltIsMine
<1>1. MotorTypes /\ CallsOK
  BY DEF MotorInv
<1>2. /\ UNCHANGED kind /\ UNCHANGED nui /\ UNCHANGED inFlight /\ UNCHANGED mutex
      /\ UNCHANGED ioMutex /\ UNCHANGED motor_pc /\ UNCHANGED cut
      /\ motor' = [motor EXCEPT !.pos = IF @ < motor.target THEN @ + 1
                                        ELSE IF @ > motor.target THEN @ - 1 ELSE @]
      /\ call' = [c \in Threads |-> [call[c] EXCEPT !.quiet = IF @ > 0 THEN @ - 1 ELSE 0]]
  BY DEF Motor!Tick
<1>3. motor' \in [pos : Motor!Angles, target : Motor!Angles] /\ motor'.target = motor.target
  BY <1>1, <1>2, MotorAssumption DEF MotorTypes, Motor!Angles
<1>4. ASSUME NEW c \in Threads
      PROVE  /\ call'[c] \in Calls /\ call'[c].goal = call[c].goal /\ call'[c].cmd = call[c].cmd
             /\ call'[c].sent = call[c].sent /\ call'[c].attempt = call[c].attempt
             /\ call'[c].result = call[c].result
  <2>1. call[c] \in Calls
    BY <1>1 DEF CallsOK
  <2>2. call'[c] = [call[c] EXCEPT !.quiet = IF @ > 0 THEN @ - 1 ELSE 0]
    BY <1>2
  <2>3. (IF call[c].quiet > 0 THEN call[c].quiet - 1 ELSE 0) \in Nat
    BY <2>1 DEF Calls
  <2> QED BY <2>1, <2>2, <2>3 DEF Calls
<1>5. call' \in [Threads -> Calls]
  <2>1. call' = [c \in Threads |-> call'[c]]
    BY <1>2
  <2> QED BY <1>4, <2>1
<1>6. CallsOK'
  BY <1>1, <1>2, <1>3, <1>4, <1>5 DEF CallsOK, CallOK
<1>7. MotorTypes'
  BY <1>1, <1>2, <1>3 DEF MotorTypes
<1>8. TiltIsMine
  BY <1>4 DEF TiltIsMine
<1> QED BY <1>6, <1>7, <1>8 DEF MotorInv

\* Every attempt that succeeds was the last to tell the motor where to go.
LEMMA MotorInductive ==
  /\ Motor!Init => MotorInv
  /\ MotorInv /\ [Motor!Next]_motorVars => MotorInv'
  /\ MotorInv /\ [Motor!Next]_motorVars => (TiltIsMine \/ UNCHANGED motorVars)
  /\ MotorInv => Motor!TypeOK
<1>1. Motor!Init => MotorInv
  <2> SUFFICES ASSUME Motor!Init PROVE MotorInv
    OBVIOUS
  <2>1. /\ Motor!Shut \in Sessions /\ Motor!NoCall \in Calls
        /\ Motor!NoCall.attempt = 1 /\ Motor!NoCall.sent = 0
    BY MotorAssumption DEF Motor!Angles, Motor!Shut, Sessions, Motor!NoCall, Calls
  <2>2. MotorTypes
    BY <2>1 DEF Motor!Init, MotorTypes
  <2>3. "idle" \in MotorPlaces /\ "idle" \notin WithIo /\ "idle" \notin Commanded
    BY DEF MotorPlaces, WithIo, Commanded
  <2>4. \A c \in Threads : CallOK(c, "idle", Motor!NoCall, ioMutex, motor.target, kind)
    BY <2>1, <2>3 DEF CallOK
  <2>5. CallsOK
    BY <2>1, <2>3, <2>4 DEF Motor!Init, CallsOK
  <2> QED BY <2>2, <2>5 DEF MotorInv
<1>2. ASSUME MotorInv, [Motor!Next]_motorVars
      PROVE  MotorInv' /\ (TiltIsMine \/ UNCHANGED motorVars)
  <2>1. CASE UNCHANGED motorVars
    BY <1>2, <2>1 DEF motorVars, MotorInv, MotorTypes, CallsOK
  <2>2. CASE Motor!Next
    BY <1>2, <2>2, MotorStep, MotorTicks DEF Motor!Next
  <2> QED BY <1>2, <2>1, <2>2
<1>3. MotorInv => Motor!TypeOK
  BY DEF MotorInv, MotorTypes, CallsOK, Calls, Sessions, MotorPlaces, Motor!TypeOK
<1> QED BY <1>1, <1>2, <1>3

-----------------------------------------------------------------------------
(* Frames of which every packet arrives *)

\* The assembler has every packet of the frame so far and expects the next one.
Complete ==
  intact /\ dev.index > 0 =>
    /\ asm = [synced |-> TRUE, index |-> dev.index, expected |-> dev.seq]
    /\ \A i \in 0..(dev.index - 1) : raw[i] = "own"

\* What Push makes of the next packet of such a frame, or of the first one.
LEMMA NextPushed ==
  ASSUME Assembler!TypeOK, Complete, dev.index = 0 \/ intact,
         NEW p, p = Assembler!Push(Assembler!FlagOf(dev.index), "none")
  PROVE  /\ dev.index # P - 1 => p.st = [synced |-> TRUE, index |-> dev.index + 1,
                                         expected |-> (dev.seq + 1) % SeqMod]
         /\ dev.index = P - 1 => p.out = "frame"
         /\ \A i \in 0..dev.index : p.raw[i] = "own"
<1> DEFINE flag  == Assembler!FlagOf(dev.index)
           st    == Assembler!Started(flag)
           lost  == (dev.seq - st.expected) % SeqMod
           at    == st.index + lost
           short == Assembler!FilledFrom(st, lost)
           full  == [short EXCEPT ![at] = IF at = dev.index THEN "own" ELSE "alien"]
           last  == [st |-> IF at = P - 1 THEN Assembler!Unsynced
                            ELSE [synced |-> TRUE, index |-> at + 1,
                                  expected |-> (dev.seq + 1) % SeqMod],
                     raw |-> full,
                     out |-> IF at < P - 1 THEN "none"
                             ELSE IF \E i \in Assembler!Places : full[i] = "alien" THEN "mixed"
                             ELSE "frame"]
<1>1. /\ P \in Nat \ {0, 1} /\ SeqMod \in Nat \ {0} /\ dev.index \in 0..(P - 1)
      /\ dev.seq \in 0..(SeqMod - 1) /\ raw \in [Assembler!Places -> {"zero", "own", "alien"}]
      /\ Assembler!Places = 0..(P - 1)
  BY AssemblerAssumption DEF Assembler!AssemblerConstants, Assembler!TypeOK, Assembler!Places
<1>2. (flag = "sof" <=> dev.index = 0) /\ (dev.index > 0 <=> dev.index # 0)
  BY <1>1 DEF Assembler!FlagOf
<1>3. st.synced /\ st.index = dev.index /\ st.expected = dev.seq
  <2>1. CASE dev.index = 0
    BY <1>2, <2>1 DEF Assembler!Started
  <2>2. CASE dev.index # 0
    BY <1>2, <2>2 DEF Assembler!Started, Complete
  <2> QED BY <2>1, <2>2
<1>4. lost = 0 /\ at = dev.index
  <2>1. dev.seq - st.expected = 0
    BY <1>1, <1>3
  <2>2. 0 % SeqMod = 0
    BY <1>1, Linux!Small
  <2>3. lost = 0
    BY <2>1, <2>2
  <2> HIDE DEF st, lost
  <2> QED BY <1>1, <1>3, <2>3
<1>5. short = raw
  <2>1. \A i : i \notin st.index..(st.index + lost - 1)
    BY <1>1, <1>3, <1>4
  <2>2. short = [i \in Assembler!Places |-> raw[i]]
    BY <2>1 DEF Assembler!FilledFrom
  <2> QED BY <1>1, <2>2
<1>6. \A i \in 0..dev.index : full[i] = "own"
  <2>1. ASSUME NEW i \in 0..dev.index PROVE full[i] = "own"
    <3>1. i \in Assembler!Places /\ (i = dev.index \/ (dev.index > 0 /\ i \in 0..(dev.index - 1)))
      BY <1>1
    <3>2. i # dev.index => raw[i] = "own"
      BY <1>2, <3>1 DEF Complete
    <3> HIDE DEF short, at
    <3> QED BY <1>1, <1>4, <1>5, <3>1, <3>2
  <2> QED BY <2>1
<1>7. p = last
  <2>1. /\ ~(lost > 0 /\ (lost > MaxLoss \/ at >= P)) /\ flag = Assembler!FlagOf(at)
        /\ "none" # "long" /\ (at = P - 1 => dev.index = P - 1)
    BY <1>4
  <2> QED BY <1>3, <2>1 DEF Assembler!Push
<1> HIDE DEF st, lost, short, full, flag, at
<1>8. p.raw = full /\ (at # P - 1 => p.st = [synced |-> TRUE, index |-> at + 1,
                                             expected |-> (dev.seq + 1) % SeqMod])
  <2>1. last.raw = full
        /\ last.st = (IF at = P - 1 THEN Assembler!Unsynced
                      ELSE [synced |-> TRUE, index |-> at + 1,
                            expected |-> (dev.seq + 1) % SeqMod])
    OBVIOUS
  <2> HIDE DEF last
  <2> QED BY <1>7, <2>1
<1>9. ASSUME dev.index = P - 1 PROVE p.out = "frame"
  <2>1. ~(at < P - 1)
    BY <1>1, <1>4, <1>9
  <2>2. \A i \in Assembler!Places : full[i] # "alien"
    BY <1>1, <1>6, <1>9
  <2> QED BY <1>7, <2>1, <2>2
<1> QED BY <1>4, <1>6, <1>8, <1>9

\* Complete is kept, and with it a frame is returned with its last packet.
LEMMA CompleteInductive ==
  /\ Assembler!Init => Complete
  /\ Assembler!TypeOK /\ Complete /\ [Assembler!Next]_assemblerVars => Complete'
  /\ Assembler!TypeOK /\ Complete =>
       (Assembler!Receive("none") /\ dev.index = P - 1 /\ intact => out' = "frame")
<1>1. Assembler!Init => Complete
  BY DEF Assembler!Init, Complete
<1>2. ASSUME Assembler!TypeOK, Complete, Assembler!Receive("none")
      PROVE  Complete' /\ (dev.index = P - 1 /\ intact => out' = "frame")
  <2> DEFINE p == Assembler!Push(Assembler!FlagOf(dev.index), "none")
  <2>1. asm' = p.st /\ out' = p.out /\ Assembler!Advance(p.raw, TRUE)
    BY <1>2 DEF Assembler!Receive
  <2>2. dev.index = 0 \/ intact =>
          /\ dev.index # P - 1 => p.st = [synced |-> TRUE, index |-> dev.index + 1,
                                          expected |-> (dev.seq + 1) % SeqMod]
          /\ dev.index = P - 1 => p.out = "frame"
          /\ \A i \in 0..dev.index : p.raw[i] = "own"
    BY <1>2, NextPushed
  <2> HIDE DEF p
  <2>3. /\ P \in Nat \ {0, 1} /\ dev.index \in 0..(P - 1) /\ intact \in BOOLEAN
    BY <1>2, AssemblerAssumption
       DEF Assembler!AssemblerConstants, Assembler!TypeOK, Assembler!Places
  <2>4. dev' = [index |-> (dev.index + 1) % P, seq |-> (dev.seq + 1) % SeqMod]
    BY <2>1 DEF Assembler!Advance
  <2>5. CASE dev.index = P - 1
    <3>1. dev'.index = 0
      BY <2>3, <2>4, <2>5
    <3> QED BY <2>1, <2>2, <2>5, <3>1 DEF Complete
  <2>6. CASE dev.index # P - 1
    <3>1. dev'.index = dev.index + 1 /\ dev'.seq = (dev.seq + 1) % SeqMod
      BY <2>3, <2>4, <2>6
    <3>2. raw' = p.raw /\ (intact' => intact)
      BY <2>1, <2>3, <2>6 DEF Assembler!Advance
    <3>3. intact' => /\ asm' = [synced |-> TRUE, index |-> dev'.index, expected |-> dev'.seq]
                     /\ \A i \in 0..dev.index : raw'[i] = "own"
      BY <2>1, <2>2, <2>6, <3>1, <3>2
    <3>4. 0..(dev'.index - 1) = 0..dev.index
      BY <2>3, <3>1
    <3> QED BY <2>6, <3>3, <3>4 DEF Complete
  <2> QED BY <2>5, <2>6
<1>3. ASSUME Assembler!TypeOK, NEW fr, Assembler!Advance(fr, FALSE) PROVE Complete'
  <2>1. P \in Nat \ {0, 1} /\ dev.index \in 0..(P - 1)
    BY <1>3, AssemblerAssumption
       DEF Assembler!AssemblerConstants, Assembler!TypeOK, Assembler!Places
  <2>2. dev' = [index |-> (dev.index + 1) % P, seq |-> (dev.seq + 1) % SeqMod]
        /\ (dev.index < P - 1 => intact' = FALSE)
    BY <1>3 DEF Assembler!Advance
  <2>3. dev.index = P - 1 => dev'.index = 0
    BY <2>1, <2>2
  <2> QED BY <2>1, <2>2, <2>3 DEF Complete
<1>4. ASSUME Assembler!TypeOK, Complete, [Assembler!Next]_assemblerVars PROVE Complete'
  <2>1. CASE UNCHANGED assemblerVars
    BY <1>4, <2>1 DEF assemblerVars, Complete
  <2>2. CASE Assembler!Lose
    BY <1>3, <1>4, <2>2 DEF Assembler!Lose
  <2>3. CASE Assembler!Reset
    BY <2>3 DEF Assembler!Reset, Complete
  <2>4. CASE Assembler!Receive("none")
    BY <1>2, <1>4, <2>4
  <2>5. ASSUME NEW damage \in {"flag", "long"}, Assembler!Receive(damage) PROVE Complete'
    <3>1. \E fr : Assembler!Advance(fr, FALSE)
      BY <2>5 DEF Assembler!Receive
    <3> QED BY <1>3, <1>4, <3>1
  <2> QED BY <1>4, <2>1, <2>2, <2>3, <2>4, <2>5 DEF Assembler!Next
<1> QED BY <1>1, <1>2, <1>4


-----------------------------------------------------------------------------
(* The microphones *)

MicPlaces == {"find", "endpoints", "capture"}

\* The types, one by one.
LEMMA MicsFields ==
  ASSUME Mics!TypeOK
  PROVE  /\ bus \subseteq Kinects /\ uac \subseteq bus
         /\ node \in [Kinects -> BOOLEAN] /\ node_unseen \in [Kinects -> 0..Grace]
         /\ mic_pc \in [Kinects -> MicPlaces] /\ physical \in [Kinects -> SUBSET Kinects]
         /\ source \in [Kinects -> Kinects \cup {Nothing}]
         /\ mic_serving \in BOOLEAN /\ bus_changes \in 0..MaxChanges
         /\ Grace \in Nat \ {0} /\ MaxChanges \in Nat
<1>1. Grace \in Nat \ {0} /\ MaxChanges \in Nat
  BY BoundsAssumption
<1> QED BY <1>1 DEF Mics!TypeOK, MicPlaces

\* A change of the hardware is counted within its bound.
LEMMA MicChangeIsCounted ==
  ASSUME Mics!TypeOK, Mics!Change \/ UNCHANGED bus_changes
  PROVE  bus_changes' \in 0..MaxChanges
BY MicsFields DEF Mics!Change

\* The Kinects and their audio functions come and go, and the service stops.
LEMMA BusTyped ==
  ASSUME Mics!TypeOK,
         \/ \E k \in Kinects : Mics!Plug(k) \/ Mics!UacAppears(k) \/ Mics!UacGoes(k)
         \/ Mics!StopService
  PROVE  Mics!TypeOK'
<1>1. UNCHANGED <<node, node_unseen, mic_pc, physical, source>>
  BY DEF Mics!Plug, Mics!UacAppears, Mics!UacGoes, Mics!StopService, Mics!threads
<1>2. bus_changes' \in 0..MaxChanges
  <2>1. Mics!Change \/ UNCHANGED bus_changes
    BY DEF Mics!Plug, Mics!UacAppears, Mics!UacGoes, Mics!StopService, Mics!hardware
  <2> QED BY <2>1, MicChangeIsCounted
<1>3. bus' \subseteq Kinects /\ uac' \subseteq bus'
  <2>1. ASSUME NEW k \in Kinects, Mics!Plug(k) PROVE bus' \subseteq Kinects /\ uac' \subseteq bus'
    BY <2>1, MicsFields DEF Mics!Plug
  <2>2. ASSUME NEW k \in Kinects, Mics!UacAppears(k)
        PROVE  bus' \subseteq Kinects /\ uac' \subseteq bus'
    BY <2>2, MicsFields DEF Mics!UacAppears
  <2>3. ASSUME NEW k \in Kinects, Mics!UacGoes(k)
        PROVE  bus' \subseteq Kinects /\ uac' \subseteq bus'
    BY <2>3, MicsFields DEF Mics!UacGoes
  <2>4. CASE Mics!StopService
    BY <2>4, MicsFields DEF Mics!StopService, Mics!hardware
  <2> QED BY <2>1, <2>2, <2>3, <2>4
<1>4. mic_serving' \in BOOLEAN
  BY MicsFields DEF Mics!Plug, Mics!UacAppears, Mics!UacGoes, Mics!StopService
<1> QED BY <1>1, <1>2, <1>3, <1>4, MicsFields DEF Mics!TypeOK, MicPlaces

\* AudioCoordinatorLoop: the nodes that are stopped are those of any set of Kinects.
LEMMA StoppedTyped ==
  ASSUME Mics!TypeOK, NEW gone, Mics!Stopped(gone)
  PROVE  /\ mic_pc' \in [Kinects -> MicPlaces] /\ physical' \in [Kinects -> SUBSET Kinects]
         /\ source' \in [Kinects -> Kinects \cup {Nothing}]
BY MicsFields DEF Mics!Stopped, MicPlaces

LEMMA CoordinatorTyped ==
  ASSUME Mics!TypeOK, Mics!CoordinatorPass \/ Mics!CoordinatorEnds
  PROVE  Mics!TypeOK'
<1>1. CASE Mics!CoordinatorPass
  <2>1. PICK failed \in SUBSET {k \in bus : ~node[k] /\ bus_changes < MaxChanges},
             expired \in SUBSET Kinects :
          /\ node' = [k \in Kinects |-> (node[k] \/ k \in bus) /\ k \notin (expired \cup failed)]
          /\ Mics!Stopped(expired)
          /\ bus_changes' = IF failed = {} THEN bus_changes ELSE bus_changes + 1
    <3> DEFINE over == {k \in Kinects \ bus : node[k] /\ node_unseen'[k] >= Grace}
    <3>1. over \in SUBSET Kinects
      OBVIOUS
    <3>2. \E failed \in SUBSET {k \in bus : ~node[k] /\ bus_changes < MaxChanges} :
            /\ node' = [k \in Kinects |-> (node[k] \/ k \in bus) /\ k \notin (over \cup failed)]
            /\ Mics!Stopped(over)
            /\ bus_changes' = IF failed = {} THEN bus_changes ELSE bus_changes + 1
      BY <1>1 DEF Mics!CoordinatorPass
    <3> HIDE DEF over
    <3> QED BY <3>1, <3>2
  <2>2. /\ mic_pc' \in [Kinects -> MicPlaces] /\ physical' \in [Kinects -> SUBSET Kinects]
        /\ source' \in [Kinects -> Kinects \cup {Nothing}]
    BY <2>1, StoppedTyped
  <2>3. node' \in [Kinects -> BOOLEAN]
    BY <2>1
  <2>4. bus_changes' \in 0..MaxChanges
    <3>1. failed # {} => bus_changes < MaxChanges
      BY <2>1
    <3> QED BY <2>1, <3>1, MicsFields
  <2>5. node_unseen' \in [Kinects -> 0..Grace]
    <3>1. node_unseen' = [k \in Kinects |->
            IF k \in bus THEN 0 ELSE IF node_unseen[k] < Grace THEN node_unseen[k] + 1 ELSE Grace]
      BY <1>1 DEF Mics!CoordinatorPass
    <3>2. \A k \in Kinects :
            (IF k \in bus THEN 0
             ELSE IF node_unseen[k] < Grace THEN node_unseen[k] + 1 ELSE Grace) \in 0..Grace
      BY MicsFields
    <3> QED BY <3>1, <3>2
  <2>6. UNCHANGED <<bus, uac, mic_serving>>
    BY <1>1 DEF Mics!CoordinatorPass
  <2> QED BY <2>2, <2>3, <2>4, <2>5, <2>6, MicsFields DEF Mics!TypeOK, MicPlaces
<1>2. CASE Mics!CoordinatorEnds
  <2>1. /\ node' = [k \in Kinects |-> FALSE] /\ Mics!Stopped(Kinects)
        /\ UNCHANGED <<bus, uac, bus_changes, node_unseen, mic_serving>>
    BY <1>2 DEF Mics!CoordinatorEnds, Mics!hardware
  <2>2. /\ mic_pc' \in [Kinects -> MicPlaces] /\ physical' \in [Kinects -> SUBSET Kinects]
        /\ source' \in [Kinects -> Kinects \cup {Nothing}]
    BY <2>1, StoppedTyped
  <2>3. node' \in [Kinects -> BOOLEAN]
    BY <2>1
  <2> QED BY <2>1, <2>2, <2>3, MicsFields DEF Mics!TypeOK, MicPlaces
<1> QED BY <1>1, <1>2

\* AudioNode::Capture
LEMMA CaptureTyped ==
  ASSUME Mics!TypeOK, NEW k \in Kinects,
         Mics!FindDevices(k) \/ Mics!OpenEndpoint(k) \/ Mics!CaptureFails(k)
  PROVE  Mics!TypeOK'
<1>1. UNCHANGED <<bus, uac, node, node_unseen, mic_serving>>
  BY DEF Mics!FindDevices, Mics!OpenEndpoint, Mics!CaptureFails, Mics!hardware
<1>2. bus_changes' \in 0..MaxChanges
  <2>1. Mics!Change \/ UNCHANGED bus_changes
    BY DEF Mics!FindDevices, Mics!OpenEndpoint, Mics!CaptureFails, Mics!hardware
  <2> QED BY <2>1, MicChangeIsCounted
<1>3. mic_pc' \in [Kinects -> MicPlaces]
  <2>1. \E to \in MicPlaces : mic_pc' = [mic_pc EXCEPT ![k] = to]
    BY DEF Mics!FindDevices, Mics!OpenEndpoint, Mics!CaptureFails, MicPlaces
  <2> QED BY <2>1, MicsFields
<1>4. physical' \in [Kinects -> SUBSET Kinects]
  <2>1. \E found \in SUBSET Kinects : physical' = [physical EXCEPT ![k] = found] \/ physical' = physical
    BY MicsFields DEF Mics!FindDevices, Mics!OpenEndpoint, Mics!CaptureFails
  <2> QED BY <2>1, MicsFields
<1>5. source' \in [Kinects -> Kinects \cup {Nothing}]
  <2>1. source' = source \/ \E j \in Kinects \cup {Nothing} : source' = [source EXCEPT ![k] = j]
    BY MicsFields DEF Mics!FindDevices, Mics!OpenEndpoint, Mics!CaptureFails
  <2> QED BY <2>1, MicsFields
<1> QED BY <1>1, <1>2, <1>3, <1>4, <1>5, MicsFields DEF Mics!TypeOK, MicPlaces

\* The microphones keep their types.
LEMMA MicsInductive ==
  /\ Mics!Init => Mics!TypeOK
  /\ Mics!TypeOK /\ [Mics!Next]_micVars => Mics!TypeOK'
<1>1. ASSUME Mics!Init PROVE Mics!TypeOK
  <2>1. Grace \in Nat \ {0} /\ MaxChanges \in Nat
    BY BoundsAssumption
  <2>2. node_unseen \in [Kinects -> 0..Grace] /\ bus_changes \in 0..MaxChanges
    BY <1>1, <2>1 DEF Mics!Init
  <2> QED BY <1>1, <2>2 DEF Mics!Init, Mics!TypeOK
<1>2. ASSUME Mics!TypeOK, [Mics!Next]_micVars PROVE Mics!TypeOK'
  <2>1. CASE UNCHANGED micVars
    BY <1>2, <2>1 DEF micVars, Mics!TypeOK
  <2> QED BY <1>2, <2>1, BusTyped, CoordinatorTyped, CaptureTyped DEF Mics!Next
<1> QED BY <1>1, <1>2
-----------------------------------------------------------------------------
(* The parts together *)

\* A step of MCWindows is one of the scanner port, or leaves it alone; and so for
\* every other part.
LEMMA WindowsSteps ==
  ASSUME [Next]_vars
  PROVE  /\ [Scanner!Next]_scannerVars /\ [Streams!Next]_streamsVars
         /\ [Frames!Next]_sharedVars /\ [Iso!Next]_isoVars /\ [Assembler!Next]_assemblerVars
         /\ [Registry!Next]_registryVars /\ [Ip!Next]_ipVars
         /\ [Motor!Next]_motorVars /\ [Broker!Next]_hostVars /\ [Audio!Next]_portVars
         /\ [Mics!Next]_micVars /\ [Boot!Next]_bootVars
BY Zenon DEF Next, vars, frameVars, cameraVars, brokerVars, audioVars, ScannerNext, StreamsNext,
   FramesNext, RegistryNext, IpNext, MotorNext, BrokerNext, AudioNext, MicsNext, BootNext

\* The invariants of the parts.
WindowsInv ==
  /\ ScannerInv /\ StreamsInv /\ IsoInv /\ Linux!IInv /\ Complete /\ SharedInv
  /\ Registry!TypeOK /\ IpInv /\ MotorInv /\ HostInv /\ PortInv /\ Mics!TypeOK /\ BootInv

\* Every part keeps its own.
THEOREM WindowsInvariant == Spec => []WindowsInv
<1>1. Init => WindowsInv
  BY ScannerInductive, StreamsInductive, IsoInductive, AssemblerInductive, CompleteInductive,
     SharedInductive, RegistryInductive, IpInductive, MotorInductive, HostInductive, PortInductive,
     MicsInductive, BootInductive DEF Init, WindowsInv
<1>2. WindowsInv /\ [Next]_vars => WindowsInv'
  BY WindowsSteps, ScannerInductive, StreamsInductive, IsoInductive, AssemblerInductive,
     CompleteInductive, SharedInductive, RegistryInductive, IpInductive, MotorInductive,
     HostInductive, PortInductive, MicsInductive, BootInductive DEF WindowsInv
<1> QED BY <1>1, <1>2, PTL DEF Spec

\* Kinect360RemoldCameraBridge.cpp, ScannerPortServer: to its clients the port is the
\* arbiter. Whoever is granted a stream is compatible with every other session, loses
\* what the same process had, and loses it otherwise only when it leaves or RGB HQ goes.
THEOREM ImplementsArbiterHolds == Spec => ImplementsArbiter
<1>1. Init => Scanner!Arbiter!Init
  BY ArbiterStart DEF Init
<1>2. WindowsInv /\ [Next]_vars => [Scanner!Arbiter!Next]_(Scanner!Arbiter!vars)
  BY WindowsSteps, ArbiterStep DEF WindowsInv
<1>3. Spec => Scanner!Arbiter!Spec
  BY <1>1, <1>2, WindowsInvariant, PTL DEF Spec, Scanner!Arbiter!Spec
<1> QED BY <1>3 DEF ImplementsArbiter, Scanner!ImplementsArbiter

\* RunCamera: when it returns neither thread reads from the camera, and nothing of the
\* camera is left on.
THEOREM ClosedIsQuietHolds == Spec => []ClosedIsQuiet
<1>1. WindowsInv => ClosedIsQuiet
  BY StreamsInductive DEF WindowsInv, ClosedIsQuiet
<1> QED BY <1>1, WindowsInvariant, PTL

\* A read is cancelled and waited for before its buffer goes, a client's thread before
\* the contexts of the broker, and before the port of a node.
THEOREM NothingOutlivesItsOwnerHolds == Spec => []NothingOutlivesItsOwner
<1>1. WindowsInv => NothingOutlivesItsOwner
  BY IsoInductive, HostInductive, PortInductive DEF WindowsInv, NothingOutlivesItsOwner
<1> QED BY <1>1, WindowsInvariant, PTL

\* UploadUacFirmware: the firmware is only launched on a Kinect that holds all of it.
THEOREM LaunchedWholeHolds == Spec => []LaunchedWhole
<1>1. WindowsInv => LaunchedWhole
  BY DEF WindowsInv, BootInv, LaunchedWhole
<1> QED BY <1>1, WindowsInvariant, PTL

\* PublishFrame and FrameReader::Read: a frame is whole wherever it is handed on, what the
\* assembler returns and what a reader takes out of the shared memory, with any number of
\* workers; unless one of its halves comes from a frame that was published while another
\* worker was publishing.
THEOREM WholeFramesHolds == Spec => []WholeFrames
<1>1. WindowsInv => WholeFrames
  BY SharedInductive, AssemblerInductive DEF WindowsInv, WholeFrames
<1> QED BY <1>1, WindowsInvariant, PTL

\* WithMotorSession, IssueTilt1414 and IssueTilt1473: a Tilt that reports success is the
\* last command the motor was given, whatever other contexts and second attempts did; and
\* a frame of which every packet arrived is returned, whatever was lost before it.
THEOREM OutcomesAreTrueHolds == Spec => OutcomesAreTrue
<1>1. WindowsInv /\ [Next]_vars => (TiltIsMine \/ UNCHANGED motorVars)
  BY WindowsSteps, MotorInductive DEF WindowsInv
<1>2. WindowsInv /\ [Next]_vars =>
        [\A c \in Threads :
           call[c].cmd = "Tilt" /\ call[c].result # "ok" /\ call'[c].result = "ok" =>
             motor.target = call[c].goal /\ (kind = "1414" => motor.pos = call[c].goal)]_Motor!vars
  BY <1>1 DEF TiltIsMine, motorVars, Motor!vars
<1>3. WindowsInv /\ [Next]_vars =>
        [Assembler!Receive("none") /\ dev.index = P - 1 /\ intact => out' = "frame"]_Assembler!vars
  BY AssemblerInductive, CompleteInductive DEF WindowsInv
<1>4. Spec => [][\A c \in Threads :
           call[c].cmd = "Tilt" /\ call[c].result # "ok" /\ call'[c].result = "ok" =>
             motor.target = call[c].goal /\ (kind = "1414" => motor.pos = call[c].goal)]_Motor!vars
  BY <1>2, WindowsInvariant, PTL DEF Spec
<1>5. Spec =>
        [][Assembler!Receive("none") /\ dev.index = P - 1 /\ intact => out' = "frame"]_Assembler!vars
  BY <1>3, WindowsInvariant, PTL DEF Spec
<1> QED BY <1>4, <1>5 DEF OutcomesAreTrue, Motor!TiltSuccessIsMine,
                          Assembler!FullFrameIsPublished

\* TypeOK of every part, the sequence number of the shared frames within its bound
\* however many write; the demand of the scanner port is that of sessions that will take it
\* away, and the counters of the IP camera and of the audio port count what there is:
\* AcceptLoop, ClientThread.
THEOREM BooksAreRightHolds == Spec => []BooksAreRight
<1>1. WindowsInv => TypeOK
  <2>1. ASSUME WindowsInv
        PROVE  Scanner!TypeOK /\ Frames!TypeOK /\ Assembler!TypeOK /\ Motor!TypeOK
    BY <2>1, ScannerInductive, SharedTyped, AssemblerInductive, MotorInductive DEF WindowsInv, SharedInv
  <2>2. ASSUME WindowsInv
        PROVE  /\ Streams!TypeOK /\ Iso!TypeOK /\ Registry!TypeOK /\ Ip!TypeOK
               /\ Broker!TypeOK /\ Audio!TypeOK /\ Mics!TypeOK /\ Boot!TypeOK
    BY <2>2 DEF WindowsInv, StreamsInv, IsoInv, IpInv, HostInv, PortInv, BootInv
  <2> QED BY <2>1, <2>2 DEF TypeOK
<1>2. WindowsInv => BooksAreRight
  BY <1>1, ScannerInductive DEF WindowsInv, IpInv, PortInv, BooksAreRight
<1> QED BY <1>2, WindowsInvariant, PTL

=============================================================================
