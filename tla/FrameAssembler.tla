---------------------------- MODULE FrameAssembler ----------------------------
(***************************************************************************)
(* FrameAssembler of the Linux USB layer (kinect_usb_camera.cpp): frames   *)
(* are put together from isochronous packets that carry a flag (first,     *)
(* middle, last of a frame) and a sequence number of a few bits.  Packets  *)
(* are lost, also more of them than the sequence number can count.         *)
(*                                                                         *)
(* Abstracted: a place of the frame buffer holds zeros, the packet that    *)
(* belongs there of the frame the device is sending, or something else.    *)
(* The last packet of a frame is shorter than the others.                  *)
(***************************************************************************)
EXTENDS Integers

CONSTANTS
  P,           \* packets_per_frame_
  SeqMod,      \* 256: the sequence number is a uint8_t
  MaxLoss,     \* kMaxRecoverablePacketLoss
  MaxGap       \* bound: packets lost in a row

VARIABLES
  dev,         \* the next packet of the device: its place in the frame, its number
  gap,         \* packets lost since the last one received
  intact,      \* every packet of the device's frame arrived undamaged so far
  asm,         \* synced_, packet_index_, expected_seq_
  frame,       \* frame_
  out          \* what the callback was called with in this step

vars == <<dev, gap, intact, asm, frame, out>>

\* How often the sequence number can come round in one gap.
Rounds == MaxGap \div SeqMod

\* What is taken of the constants: no number of rounds that the packets of one
\* frame can miss is a whole number of frames.  It holds of every frame format
\* when fewer packets are lost in a row than the sequence number can count.
AssemblerConstants ==
  /\ P \in Nat \ {0, 1} /\ SeqMod \in Nat \ {0} /\ {MaxLoss, MaxGap} \subseteq Nat
  /\ \A w \in 1..((P - 1) * Rounds) : (w * SeqMod) % P # 0

Places == 0..(P - 1)
Zeros == [i \in Places |-> "zero"]

\* reset: the sequence number does not matter before the next first packet
Unsynced == [synced |-> FALSE, index |-> 0, expected |-> 0]

\* start_frame
Started(seq) == [synced |-> TRUE, index |-> 0, expected |-> seq]

FlagOf(i) == IF i = 0 THEN "sof" ELSE IF i = P - 1 THEN "eof" ELSE "mof"

\* A packet of a full payload does not fit the last place.
Fits(index, damage) == damage # "long" /\ (index = P - 1 => dev.index = P - 1)

\* Mutant: a gap in the numbers is taken for packets that need not be there.
GapIgnored(flag) == [st |-> asm, fr |-> frame, go |-> TRUE]

\* process, up to the check of the flag: start at a first packet; fill a short
\* gap within the frame with zeros; drop the frame at any other gap.
Resync(flag) ==
  LET lost == (dev.seq - asm.expected) % SeqMod
      again == [st |-> IF flag = "sof" THEN Started(dev.seq) ELSE Unsynced,
                fr |-> IF flag = "sof" THEN Zeros ELSE frame,
                go |-> flag = "sof"]
  IN  IF ~asm.synced THEN again
      ELSE IF lost = 0 THEN [st |-> asm, fr |-> frame, go |-> TRUE]
      ELSE IF lost > MaxLoss \/ asm.index + lost >= P THEN again
      ELSE [st |-> [asm EXCEPT !.index = @ + lost, !.expected = dev.seq],
            fr |-> [i \in Places |-> IF i \in asm.index..(asm.index + lost - 1)
                                     THEN "zero" ELSE frame[i]],
            go |-> TRUE]

\* process, the check of the flag: a first packet in the place of another one
\* starts a new frame.
Flagged(r, flag) ==
  IF flag = FlagOf(r.st.index) THEN r
  ELSE IF flag = "sof" THEN [st |-> Started(dev.seq), fr |-> Zeros, go |-> TRUE]
  ELSE [r EXCEPT !.st = Unsynced, !.go = FALSE]

\* process, the end: the packet is copied, the last one completes the frame.
Stored(st, fr, flag) ==
  LET full == [fr EXCEPT ![st.index] = IF st.index = dev.index THEN "own" ELSE "alien"]
  IN  [st |-> IF flag = "eof" THEN Unsynced
              ELSE [synced |-> TRUE, index |-> st.index + 1,
                    expected |-> (dev.seq + 1) % SeqMod],
       fr |-> full,
       out |-> IF flag # "eof" \/ st.index # P - 1 THEN "none"
               ELSE IF \E i \in Places : full[i] = "alien" THEN "mixed" ELSE "frame"]

\* process.  Whether a packet fits is decided by the place it was expected
\* in, also when its flag has just moved it to the first place.
Process(flag, damage) ==
  LET r == Resync(flag)
      f == Flagged(r, flag)
  IN  IF ~r.go THEN [st |-> r.st, fr |-> r.fr, out |-> "none"]
      ELSE IF ~f.go \/ ~Fits(r.st.index, damage)
      THEN [st |-> Unsynced, fr |-> f.fr, out |-> "none"]
      ELSE Stored(f.st, f.fr, flag)

-----------------------------------------------------------------------------
(* Actions *)

\* The device goes on to its next packet; ok: this one arrived undamaged.
Advance(fr, ok) ==
  /\ dev' = [index |-> (dev.index + 1) % P, seq |-> (dev.seq + 1) % SeqMod]
  /\ IF dev.index < P - 1
     THEN frame' = fr /\ intact' = (intact /\ ok)
     ELSE /\ frame' = [i \in Places |-> IF fr[i] = "own" THEN "alien" ELSE fr[i]]
          /\ intact' = TRUE

\* A packet arrives: as it was sent, with a flag that is none, or too long.
Receive(damage) ==
  LET p == Process(IF damage = "flag" THEN "bad" ELSE FlagOf(dev.index), damage) IN
  /\ asm' = p.st /\ out' = p.out
  /\ gap' = 0
  /\ Advance(p.fr, damage = "none")

\* Environment: a packet is lost, or its header is damaged and it is ignored.
Lose ==
  /\ gap < MaxGap
  /\ gap' = gap + 1
  /\ out' = "none"
  /\ Advance(frame, FALSE)
  /\ UNCHANGED asm

\* restart: the stream is stopped and started again; the buffer stays.
Restart ==
  /\ asm' = Unsynced
  /\ \E seq \in 0..(SeqMod - 1) : dev' = [index |-> 0, seq |-> seq]
  /\ frame' = [i \in Places |-> IF frame[i] = "own" THEN "alien" ELSE frame[i]]
  /\ gap' = 0 /\ intact' = TRUE /\ out' = "none"

Init ==
  /\ dev = [index |-> 0, seq |-> 0]
  /\ asm = Unsynced /\ frame = Zeros
  /\ gap = 0 /\ intact = TRUE /\ out = "none"

Next == Lose \/ Restart \/ \E damage \in {"none", "flag", "long"} : Receive(damage)
Spec == Init /\ [][Next]_vars

-----------------------------------------------------------------------------
(* Properties *)

TypeOK ==
  /\ dev \in [index : Places, seq : 0..(SeqMod - 1)]
  /\ asm \in [synced : BOOLEAN, index : Places, expected : 0..(SeqMod - 1)]
  /\ frame \in [Places -> {"zero", "own", "alien"}]
  /\ gap \in 0..MaxGap /\ intact \in BOOLEAN
  /\ out \in {"none", "frame", "mixed"}

\* kinect_usb_camera.cpp:138-139: a published frame consists of packets of one
\* frame, each in its place, and of zeros; also when so many packets were lost
\* that the sequence number came round.
PublishedIsOneFrame == out # "mixed"

\* Whatever was lost or damaged before, a frame of which every packet arrives is
\* published: process is in step again at the first packet of the next frame.
FullFrameIsPublished ==
  [][Receive("none") /\ dev.index = P - 1 /\ intact => out' = "frame"]_vars

=============================================================================
