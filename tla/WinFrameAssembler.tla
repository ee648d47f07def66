--------------------------- MODULE WinFrameAssembler ---------------------------
(***************************************************************************)
(* FrameAssembler of the Windows camera service                            *)
(* (Kinect360RemoldCameraBridge.cpp): the same job as FrameAssembler of    *)
(* the Linux one, done otherwise: a first packet always starts a frame,    *)
(* and the buffer is not cleared when it does.                             *)
(***************************************************************************)
EXTENDS Integers

CONSTANTS
  P,           \* packets per frame
  SeqMod,      \* 256: packets are numbered modulo this
  MaxLoss,     \* kMaxRecoverablePacketLoss
  MaxGap       \* bound: packets lost in a row

VARIABLES
  dev,         \* the next packet of the device: its place in the frame, its number
  gap,         \* packets lost since the last one received
  intact,      \* every packet of the device's frame arrived undamaged so far
  asm,         \* m_synced, m_packetIndex (and m_offset with it), m_expectedSequence
  raw,         \* m_raw: of each place, whose packet it holds
  out          \* what Push returned in this step

vars == <<dev, gap, intact, asm, raw, out>>

\* How often the sequence number can come round in one gap.
Rounds == MaxGap \div SeqMod

\* As in FrameAssembler: no number of rounds that the packets of one frame can
\* miss is a whole number of frames.
AssemblerConstants ==
  /\ P \in Nat \ {0, 1} /\ SeqMod \in Nat \ {0} /\ {MaxLoss, MaxGap} \subseteq Nat
  /\ \A w \in 1..((P - 1) * Rounds) : (w * SeqMod) % P # 0

Places == 0..(P - 1)
FlagOf(i) == IF i = 0 THEN "sof" ELSE IF i = P - 1 THEN "eof" ELSE "mof"

\* ResetSync; the number does not matter before the next first packet.
Unsynced == [synced |-> FALSE, index |-> 0, expected |-> 0]

\* A first packet starts a frame.
Started(flag) ==
  IF flag = "sof" THEN [synced |-> TRUE, index |-> 0, expected |-> dev.seq] ELSE asm

\* Packets lost within the frame are places filled with zeros.
FilledFrom(st, lost) ==
  [i \in Places |-> IF i \in st.index..(st.index + lost - 1) THEN "zero" ELSE raw[i]]

\* Push.  A payload that does not fit its place ends the frame; a short one is
\* filled up.
Push(flag, damage) ==
  LET st    == Started(flag)
      lost  == (dev.seq - st.expected) % SeqMod
      at    == st.index + lost
      drop  == [st |-> Unsynced, raw |-> raw, out |-> "none"]
      short == FilledFrom(st, lost)
      full  == [short EXCEPT ![at] = IF at = dev.index THEN "own" ELSE "alien"]
      fits  == damage # "long" /\ (at = P - 1 => dev.index = P - 1)
  IN  IF ~st.synced THEN [drop EXCEPT !.st = asm]
      ELSE IF lost > 0 /\ (lost > MaxLoss \/ at >= P) THEN drop
      ELSE IF flag # FlagOf(at) \/ ~fits THEN [drop EXCEPT !.raw = short]
      ELSE [st  |-> IF at = P - 1 THEN Unsynced
                    ELSE [synced |-> TRUE, index |-> at + 1, expected |-> (dev.seq + 1) % SeqMod],
            raw |-> full,
            out |-> IF at < P - 1 THEN "none"
                    ELSE IF \E i \in Places : full[i] = "alien" THEN "mixed" ELSE "frame"]

-----------------------------------------------------------------------------
\* The device goes on to its next packet; ok: this one arrived undamaged.
Advance(buffer, ok) ==
  /\ dev' = [index |-> (dev.index + 1) % P, seq |-> (dev.seq + 1) % SeqMod]
  /\ IF dev.index < P - 1
     THEN raw' = buffer /\ intact' = (intact /\ ok)
     ELSE /\ raw' = [i \in Places |-> IF buffer[i] = "own" THEN "alien" ELSE buffer[i]]
          /\ intact' = TRUE

\* A packet arrives: as it was sent, with a flag that is none, or too long.
Receive(damage) ==
  LET p == Push(IF damage = "flag" THEN "bad" ELSE FlagOf(dev.index), damage) IN
  /\ asm' = p.st /\ out' = p.out /\ gap' = 0
  /\ Advance(p.raw, damage = "none")

\* Environment: a packet is lost, or its header is damaged and it is ignored.
Lose ==
  /\ gap < MaxGap /\ gap' = gap + 1
  /\ out' = "none" /\ Advance(raw, FALSE)
  /\ UNCHANGED asm

\* Reset: the engine is stopped and started again.
Reset ==
  /\ asm' = Unsynced
  /\ \E seq \in 0..(SeqMod - 1) : dev' = [index |-> 0, seq |-> seq]
  /\ raw' = [i \in Places |-> IF raw[i] = "own" THEN "alien" ELSE raw[i]]
  /\ gap' = 0 /\ intact' = TRUE /\ out' = "none"

Init ==
  /\ dev = [index |-> 0, seq |-> 0] /\ gap = 0 /\ intact = TRUE
  /\ asm = Unsynced /\ raw = [i \in Places |-> "zero"] /\ out = "none"

Next == Lose \/ Reset \/ \E damage \in {"none", "flag", "long"} : Receive(damage)

-----------------------------------------------------------------------------
(* Properties *)

TypeOK ==
  /\ dev \in [index : Places, seq : 0..(SeqMod - 1)]
  /\ asm \in [synced : BOOLEAN, index : Places, expected : 0..(SeqMod - 1)]
  /\ raw \in [Places -> {"zero", "own", "alien"}]
  /\ gap \in 0..MaxGap /\ intact \in BOOLEAN /\ out \in {"none", "frame", "mixed"}

\* Although the buffer is not cleared, a frame that is returned has nothing of an
\* earlier one: every place was written or zeroed since its first packet (lines
\* 1168-1198, 1218-1234), also when the sequence number came round meanwhile.
PublishedIsOneFrame == out # "mixed"

\* Whatever was lost or damaged before, a frame of which every packet arrives is
\* returned (lines 1162-1171).
FullFrameIsPublished ==
  [][Receive("none") /\ dev.index = P - 1 /\ intact => out' = "frame"]_vars
=============================================================================
