------------------------ MODULE FrameAssemblerProofs ------------------------
(***************************************************************************)
(* What FrameAssembler guarantees for every size of a frame and of the     *)
(* sequence number.  The invariant counts the rounds of the sequence       *)
(* number that went unnoticed: with any, the frame that is put together    *)
(* is not in step with the device's, and its last packet does not come in  *)
(* its place (AssemblerConstants); with none, the buffer holds packets of  *)
(* the device's frame and zeros.                                           *)
(***************************************************************************)
EXTENDS FrameAssembler, TLAPS

-----------------------------------------------------------------------------
(* Arithmetic *)

\* Division by a positive number, with its remainder.
LEMMA Quotient ==
  ASSUME NEW a \in Int, NEW b \in Nat \ {0}
  PROVE  a \div b \in Int /\ a % b \in 0..(b - 1) /\ a = b * (a \div b) + (a % b)
<1>1. a \div b \in Int
  BY SMT
<1>2. a % b \in 0..(b - 1) 
  BY SMT
<1>3. a = b * (a \div b) + (a % b)
  BY SMT
<1> QED BY <1>1, <1>2, <1>3

\* The remainder is the only one in its range.
LEMMA Remainder ==
  ASSUME NEW b \in Nat \ {0}, NEW q \in Int, NEW r \in 0..(b - 1)
  PROVE  (b * q + r) % b = r
  BY SMT

\* The remainder of the next number.
LEMMA NextRemainder ==
  ASSUME NEW a \in Nat, NEW b \in Nat \ {0}
  PROVE  (a + 1) % b = IF a % b = b - 1 THEN 0 ELSE (a % b) + 1
<1> DEFINE q == a \div b
           r == a % b
<1>1. q \in Int /\ r \in 0..(b - 1) /\ a = b * q + r
  BY Quotient
<1> HIDE DEF q, r
<1>2. CASE r = b - 1
  <2>1. a + 1 = b * (q + 1) + 0
    BY <1>1, <1>2, SMT
  <2>2. (a + 1) % b = 0
    BY <2>1, <1>1, 0 \in 0..(b - 1), Remainder
  <2> QED BY <2>2, <1>2 DEF r
<1>3. CASE r # b - 1
  <2>1. a + 1 = b * q + (r + 1)
    BY <1>1, SMT
  <2>2. r + 1 \in 0..(b - 1)
    BY <1>1, <1>3, SMT
  <2>3. (a + 1) % b = r + 1
    BY <2>1, <2>2, <1>1, Remainder
  <2> QED BY <2>3, <1>3 DEF r
<1> QED BY <1>2, <1>3

-----------------------------------------------------------------------------
(* What process does with a packet *)

\* The frame when the packets that the numbers show as lost are zeros.
Filled(fr, lost) ==
  /\ fr \in [Places -> {"zero", "own", "alien"}]
  /\ \A i \in 0..(asm.index - 1) : fr[i] = frame[i]
  /\ \A i \in asm.index..(asm.index + lost - 1) : fr[i] = "zero"

Lost == (dev.seq - asm.expected) % SeqMod

\* What process can come to: nothing stored, a first packet stored, or a packet
\* stored Lost places on from where the last one was, its flag fitting the place.
\* It does not matter what a frame holds before its first packet is stored.
Outcome(p, flag) ==
  \/ /\ p.st \in [synced : BOOLEAN, index : Places, expected : 0..(SeqMod - 1)]
     /\ p.st.synced = FALSE /\ p.out = "none"
     /\ p.fr \in [Places -> {"zero", "own", "alien"}]
  \/ /\ flag = "sof"
     /\ \E fr \in [Places -> {"zero", "own", "alien"}] : p = Stored(Started(dev.seq), fr, flag)
  \/ /\ asm.synced /\ asm.index + Lost \in Places /\ flag = FlagOf(asm.index + Lost)
     /\ asm.index + Lost = P - 1 => dev.index = P - 1
     /\ \E st \in [synced : BOOLEAN, index : Places, expected : 0..(SeqMod - 1)],
           fr \in [Places -> {"zero", "own", "alien"}] :
          /\ st.synced /\ st.index = asm.index + Lost /\ Filled(fr, Lost)
          /\ p = Stored(st, fr, flag)

\* Outcome names every case of process.
LEMMA ProcessOutcome ==
  ASSUME AssemblerConstants, TypeOK, NEW flag \in {"sof", "mof", "eof", "bad"}, NEW damage
  PROVE  Outcome(Process(flag, damage), flag)
<1> DEFINE r == Resync(flag)
           f == Flagged(r, flag)
           p == Process(flag, damage)
           Frames == [Places -> {"zero", "own", "alien"}]
           States == [synced : BOOLEAN, index : Places, expected : 0..(SeqMod - 1)]
           Goes == /\ asm.synced /\ asm.index + Lost \in Places
                   /\ r.go /\ r.st \in States /\ r.st.synced
                   /\ r.st.index = asm.index + Lost /\ Filled(r.fr, Lost)
<1> SUFFICES Outcome(p, flag)
  OBVIOUS
<1>1. Lost \in 0..(SeqMod - 1) /\ dev.seq \in 0..(SeqMod - 1) /\ Unsynced \in States
      /\ Started(dev.seq) \in States /\ Zeros \in Frames /\ frame \in Frames /\ asm \in States
      /\ P \in Nat \ {0, 1} /\ SeqMod \in Nat \ {0} /\ Unsynced.synced = FALSE
  <2>1. /\ dev.seq \in 0..(SeqMod - 1) /\ frame \in Frames /\ asm \in States
        /\ asm.expected \in 0..(SeqMod - 1) /\ P \in Nat \ {0, 1} /\ SeqMod \in Nat \ {0}
    BY DEF TypeOK, AssemblerConstants
  <2>2. Lost \in 0..(SeqMod - 1)
    <3>1. dev.seq - asm.expected \in Int
      BY <2>1
    <3> QED BY <2>1, <3>1, Quotient DEF Lost
  <2>3. Unsynced \in States /\ Started(dev.seq) \in States /\ Zeros \in Frames
    BY <2>1 DEF Unsynced, Started, Zeros, Places
  <2>4. Unsynced.synced = FALSE
    BY DEF Unsynced
  <2> QED BY <2>1, <2>2, <2>3, <2>4
<1>2. \/ r.go = FALSE /\ r.st = Unsynced /\ r.fr \in Frames
      \/ r.go /\ flag = "sof" /\ r.st = Started(dev.seq) /\ r.fr = Zeros
      \/ Goes
  <2> DEFINE a == [st |-> IF flag = "sof" THEN Started(dev.seq) ELSE Unsynced,
                   fr |-> IF flag = "sof" THEN Zeros ELSE frame,
                   go |-> flag = "sof"]
  <2>1. CASE r = a
    <3> HIDE DEF r
    <3> QED BY <1>1, <2>1
  <2>2. CASE asm.synced /\ Lost = 0
    <3>1. r = [st |-> asm, fr |-> frame, go |-> TRUE]
      BY <2>2 DEF Resync, Lost
    <3>2. Filled(frame, Lost)
      BY <1>1, <2>2 DEF Filled, Places
    <3> HIDE DEF r
    <3>3. asm.index \in Places /\ asm.index + Lost = asm.index
      BY <1>1, <2>2 DEF Places
    <3> QED BY <1>1, <2>2, <3>1, <3>2, <3>3
  <2>3. CASE asm.synced /\ Lost # 0 /\ ~(Lost > MaxLoss \/ asm.index + Lost >= P)
    <3> DEFINE st == [asm EXCEPT !.index = @ + Lost, !.expected = dev.seq]
               fr == [i \in Places |-> IF i \in asm.index..(asm.index + Lost - 1)
                                       THEN "zero" ELSE frame[i]]
    <3>1. r = [st |-> st, fr |-> fr, go |-> TRUE]
      BY <2>3 DEF Resync, Lost
    <3>2. asm.index + Lost \in Places
      BY <1>1, <2>3 DEF Places
    <3>3. st \in States /\ st.synced /\ st.index = asm.index + Lost
      BY <1>1, <2>3, <3>2
    <3>4. Filled(fr, Lost)
      <4>1. asm.index \in Nat /\ Lost \in Nat /\ P \in Nat
        BY <1>1 DEF Places
      <4>2. fr \in Frames
        BY <1>1
      <4>3. ASSUME NEW i \in 0..(asm.index - 1)
            PROVE  fr[i] = frame[i]
        <5>1. i \in Places /\ i \notin asm.index..(asm.index + Lost - 1)
          BY <4>1, <4>3, <3>2 DEF Places
        <5> QED BY <5>1
      <4>4. ASSUME NEW i \in asm.index..(asm.index + Lost - 1)
            PROVE  fr[i] = "zero"
        <5>1. i \in Places
          BY <4>1, <4>4, <3>2 DEF Places
        <5> QED BY <5>1, <4>4
      <4> HIDE DEF fr
      <4> QED BY <4>2, <4>3, <4>4 DEF Filled
    <3> HIDE DEF r, st, fr
    <3> QED BY <2>3, <3>1, <3>2, <3>3, <3>4
  <2>4. QED
    BY <2>1, <2>2, <2>3 DEF Resync, Lost
<1>3. CASE r.go = FALSE /\ r.st = Unsynced /\ r.fr \in Frames
  <2>1. p = [st |-> r.st, fr |-> r.fr, out |-> "none"]
    BY <1>3 DEF Process
  <2> HIDE DEF p, r
  <2>2. p.st = Unsynced /\ p.fr = r.fr /\ p.out = "none"
    BY <1>3, <2>1
  <2> QED BY <1>1, <1>3, <2>2 DEF Outcome
<1>4. CASE r.go /\ flag = "sof" /\ r.st = Started(dev.seq) /\ r.fr = Zeros
  <2>1. f = r
    BY <1>4, <1>1 DEF Flagged, FlagOf, Started
  <2>2. \/ p = [st |-> Unsynced, fr |-> Zeros, out |-> "none"]
        \/ p = Stored(Started(dev.seq), Zeros, flag)
    BY <1>4, <2>1 DEF Process
  <2> HIDE DEF p, r
  <2>3. CASE p = Stored(Started(dev.seq), Zeros, flag)
    BY <1>1, <1>4, <2>3 DEF Outcome
  <2>4. CASE p = [st |-> Unsynced, fr |-> Zeros, out |-> "none"]
    BY <1>1, <2>4 DEF Outcome
  <2> QED BY <2>2, <2>3, <2>4
<1>5. CASE Goes
  <2>1. CASE flag = FlagOf(r.st.index)
    <3>1. f = r
      BY <2>1 DEF Flagged
    <3>2. \/ p = [st |-> Unsynced, fr |-> r.fr, out |-> "none"]
          \/ /\ r.st.index = P - 1 => dev.index = P - 1
             /\ p = Stored(r.st, r.fr, flag)
      BY <1>5, <3>1 DEF Process, Fits
    <3> HIDE DEF p, r
    <3>3. r.fr \in Frames
      BY <1>5 DEF Filled
    <3> QED BY <1>1, <1>5, <2>1, <3>2, <3>3 DEF Outcome
  <2>2. CASE flag # FlagOf(r.st.index) /\ flag = "sof"
    <3>1. f = [st |-> Started(dev.seq), fr |-> Zeros, go |-> TRUE]
      BY <2>2 DEF Flagged
    <3>2. \/ p = [st |-> Unsynced, fr |-> Zeros, out |-> "none"]
          \/ p = Stored(Started(dev.seq), Zeros, flag)
      BY <1>5, <3>1 DEF Process
    <3> HIDE DEF p, r
    <3>3. CASE p = Stored(Started(dev.seq), Zeros, flag)
      BY <1>1, <2>2, <3>3 DEF Outcome
    <3>4. CASE p = [st |-> Unsynced, fr |-> Zeros, out |-> "none"]
      BY <1>1, <3>4 DEF Outcome
    <3> QED BY <3>2, <3>3, <3>4
  <2>3. CASE flag # FlagOf(r.st.index) /\ flag # "sof"
    <3>1. f = [r EXCEPT !.st = Unsynced, !.go = FALSE]
      BY <2>3 DEF Flagged
    <3>2. r = [st |-> r.st, fr |-> r.fr, go |-> r.go]
      BY DEF Resync
    <3>3. f.go = FALSE /\ f.fr = r.fr
      <4> HIDE DEF f, r
      <4> QED BY <3>1, <3>2
    <3>4. p = [st |-> Unsynced, fr |-> r.fr, out |-> "none"]
      BY <1>5, <3>3 DEF Process
    <3> HIDE DEF p, r
    <3>5. r.fr \in Frames
      BY <1>5 DEF Filled
    <3> QED BY <1>1, <3>4, <3>5 DEF Outcome
  <2> QED BY <2>1, <2>2, <2>3
<1> HIDE DEF p, r, Goes
<1> QED BY <1>2, <1>3, <1>4, <1>5

-----------------------------------------------------------------------------
(* The inductive invariant *)

\* w rounds of the sequence number went unnoticed in this frame: the device is
\* that many numbers ahead of the place it is expected at.  Without any, what the
\* buffer holds up to here is of the device's frame.
Shifted(w) ==
  /\ (asm.index + gap + w * SeqMod) % P = dev.index
  /\ w = 0 /\ asm.index + gap < P => \A i \in 0..(asm.index - 1) : frame[i] # "alien"

InStep ==
  asm.synced =>
    /\ asm.index >= 1
    /\ (asm.expected + gap) % SeqMod = dev.seq
    /\ \E w \in 0..((asm.index - 1) * Rounds) : Shifted(w)

IInv == TypeOK /\ InStep /\ PublishedIsOneFrame

\* A number below the divisor is its own remainder.
LEMMA Small ==
  ASSUME NEW b \in Nat \ {0}, NEW r \in 0..(b - 1)
  PROVE  r % b = r
<1>1. b * 0 + r = r
  BY SMT
<1> QED BY <1>1, Remainder

\* Counting round: after the last number comes 0.
LEMMA NextInTurn ==
  ASSUME NEW n \in Nat \ {0}, NEW i \in 0..(n - 1)
  PROVE  (i + 1) % n = IF i = n - 1 THEN 0 ELSE i + 1
<1>1. i \in Nat /\ i % n = i
  BY Small
<1> QED BY <1>1, NextRemainder

\* A gap is what the numbers show of it and whole rounds.
LEMMA GapIsLostAndRounds ==
  ASSUME AssemblerConstants, TypeOK, (asm.expected + gap) % SeqMod = dev.seq
  PROVE  /\ Lost \in 0..(SeqMod - 1)
         /\ Rounds \in Nat
         /\ \E k \in 0..Rounds : gap = Lost + k * SeqMod
<1> DEFINE q1 == (asm.expected + gap) \div SeqMod
           q2 == (dev.seq - asm.expected) \div SeqMod
           k == q1 + q2
<1>1. /\ SeqMod \in Nat \ {0} /\ MaxGap \in Nat /\ gap \in 0..MaxGap
      /\ dev.seq \in 0..(SeqMod - 1) /\ asm.expected \in 0..(SeqMod - 1)
  BY DEF AssemblerConstants, TypeOK
<1>2. /\ q1 \in Int /\ asm.expected + gap = SeqMod * q1 + dev.seq
  <2>1. asm.expected + gap \in Int
    BY <1>1
  <2> QED BY <1>1, <2>1, Quotient
<1>3. /\ q2 \in Int /\ Lost \in 0..(SeqMod - 1) /\ dev.seq - asm.expected = SeqMod * q2 + Lost
  <2>1. dev.seq - asm.expected \in Int
    BY <1>1
  <2> QED BY <1>1, <2>1, Quotient DEF Lost
<1>4. /\ Rounds \in Int /\ MaxGap % SeqMod \in 0..(SeqMod - 1)
      /\ MaxGap = SeqMod * Rounds + (MaxGap % SeqMod)
  <2>1. MaxGap \in Int
    BY <1>1
  <2> QED BY <1>1, <2>1, Quotient DEF Rounds
<1> DEFINE m == MaxGap % SeqMod
<1> HIDE DEF q1, q2, m
<1>5. gap = SeqMod * (q1 + q2) + Lost
  BY <1>1, <1>2, <1>3, SMT
<1>6. q1 + q2 \in Nat
  BY <1>1, <1>2, <1>3, <1>5, SMT
<1>7. q1 + q2 <= Rounds
  <2>1. SeqMod * (q1 + q2) + Lost <= SeqMod * Rounds + m
    BY <1>1, <1>4, <1>5, SMT DEF m
  <2>2. m \in 0..(SeqMod - 1)
    BY <1>4 DEF m
  <2>3. SeqMod * (q1 + q2) < SeqMod * Rounds + SeqMod
    BY <1>1, <1>2, <1>3, <1>4, <2>1, <2>2, SMT
  <2>4. SeqMod * Rounds + SeqMod = SeqMod * (Rounds + 1)
    BY <1>1, <1>4, SMT
  <2>5. q1 + q2 \in Nat /\ Rounds + 1 \in Int /\ SeqMod * (q1 + q2) < SeqMod * (Rounds + 1)
    BY <1>1, <1>4, <1>6, <2>3, <2>4, SMT
  <2>6. ASSUME NEW x \in Int, NEW y \in Int, NEW b \in Nat \ {0}, b * x < b * y
        PROVE  x < y
    BY <2>6, SMT
  <2>7. q1 + q2 < Rounds + 1
    BY <1>1, <2>5, <2>6, SMT
  <2> QED BY <1>4, <1>6, <2>7, SMT
<1>8. gap = Lost + k * SeqMod
  BY <1>1, <1>2, <1>3, <1>5, SMT
<1> QED BY <1>3, <1>4, <1>6, <1>7, <1>8

\* Rounds of two gaps are counted together.
LEMMA RoundsAdd ==
  ASSUME NEW w \in Nat, NEW k \in Nat, NEW m \in Nat
  PROVE  (w + k) * m = w * m + k * m
  BY SMT

\* Each place of the frame adds at most the rounds of one gap.
LEMMA RoundsBound ==
  ASSUME NEW i \in Nat \ {0}, NEW l \in Nat, NEW w \in Nat, NEW k \in Nat, NEW m \in Nat,
         w <= (i - 1) * m, k <= m
  PROVE  w + k <= (i + l) * m
<1>1. (i - 1) * m + m = i * m
  BY SMT
<1>2. i * m <= (i + l) * m
  BY SMT
<1> QED BY <1>1, <1>2, SMT

\* Rounds is a number.
LEMMA RoundsIsNat ==
  ASSUME AssemblerConstants
  PROVE  Rounds \in Nat
<1>1. MaxGap \in Nat /\ SeqMod \in Nat \ {0}
  BY DEF AssemblerConstants
<1> QED BY <1>1 DEF Rounds

\* A packet keeps the frame in step, whichever of the outcomes it has.
LEMMA OutcomeStep ==
  ASSUME AssemblerConstants, IInv, NEW ok \in BOOLEAN, NEW flag \in {"bad", FlagOf(dev.index)},
         NEW p, Outcome(p, flag), asm' = p.st, out' = p.out, gap' = 0, Advance(p.fr, ok)
  PROVE  IInv'
<1> DEFINE Frames == [Places -> {"zero", "own", "alien"}]
           States == [synced : BOOLEAN, index : Places, expected : 0..(SeqMod - 1)]
           next == (dev.seq + 1) % SeqMod
<1>1. /\ P \in Nat \ {0, 1} /\ SeqMod \in Nat \ {0} /\ MaxGap \in Nat
      /\ dev.index \in Places /\ dev.seq \in 0..(SeqMod - 1)
      /\ asm \in States /\ frame \in Frames /\ gap \in 0..MaxGap
  BY DEF AssemblerConstants, IInv, TypeOK
<1>2. flag \in {"sof", "mof", "eof", "bad"} /\ Outcome(p, flag)
  BY DEF FlagOf
<1>3. /\ asm' = p.st /\ out' = p.out /\ gap' = 0
      /\ Advance(p.fr, ok)
  OBVIOUS
<1>12. \/ flag = "bad"
       \/ flag = FlagOf(dev.index)
  OBVIOUS
<1>4. next \in 0..(SeqMod - 1) /\ (next + 0) % SeqMod = next
  <2>1. next \in 0..(SeqMod - 1)
    <3>1. dev.seq + 1 \in Int
      BY <1>1
    <3> QED BY <1>1, <3>1, Quotient
  <2> HIDE DEF next
  <2>2. next + 0 = next
    BY <2>1, <1>1
  <2> QED BY <2>1, <2>2, <1>1, Small
<1>5. dev' = [index |-> IF dev.index = P - 1 THEN 0 ELSE dev.index + 1, seq |-> next]
  <2>1. (dev.index + 1) % P = IF dev.index = P - 1 THEN 0 ELSE dev.index + 1
    BY <1>1, NextInTurn DEF Places
  <2> QED BY <1>3, <2>1 DEF Advance
<1>6. dev' \in [index : Places, seq : 0..(SeqMod - 1)]
  <2>1. (IF dev.index = P - 1 THEN 0 ELSE dev.index + 1) \in Places
    BY <1>1 DEF Places
  <2> HIDE DEF next
  <2> QED BY <2>1, <1>4, <1>5
<1>7. gap' \in 0..MaxGap /\ intact' \in BOOLEAN
  <2>1. intact \in BOOLEAN
    BY DEF IInv, TypeOK
  <2>2. intact' = (intact /\ ok) \/ intact' = TRUE
    BY <1>3 DEF Advance
  <2>3. intact' \in BOOLEAN
    BY <2>1, <2>2
  <2>4. 0 \in 0..MaxGap
    BY <1>1
  <2> QED BY <1>3, <2>3, <2>4
<1>8. ASSUME p.fr \in Frames
      PROVE  /\ frame' \in Frames
             /\ dev.index < P - 1 => frame' = p.fr
  BY <1>3, <1>8 DEF Advance
<1> HIDE DEF next
<1>9. CASE p.st \in States /\ p.st.synced = FALSE /\ p.out = "none" /\ p.fr \in Frames
  <2>1. asm' \in States /\ asm'.synced = FALSE /\ out' = "none"
    BY <1>3, <1>9
  <2>2. frame' \in Frames
    BY <1>8, <1>9
  <2>3. TypeOK'
    BY <1>6, <1>7, <2>1, <2>2 DEF TypeOK, Places
  <2> QED BY <2>1, <2>3 DEF IInv, InStep, PublishedIsOneFrame
<1>10. ASSUME flag = "sof", NEW fr \in Frames, p = Stored(Started(dev.seq), fr, flag)
       PROVE  IInv'
  <2>1. dev.index = 0
    BY <1>1, <1>12, <1>10 DEF FlagOf, Places
  <2>2. /\ p.st = [synced |-> TRUE, index |-> 1, expected |-> next]
        /\ p.fr = [fr EXCEPT ![0] = "own"] /\ p.out = "none"
    BY <2>1, <1>10 DEF Stored, Started, next
  <2>3. p.fr \in Frames
    BY <1>10, <2>2
  <2>4. dev.index < P - 1 \/ P = 2
    BY <1>1, <2>1
  <2>5. dev' = [index |-> 1, seq |-> next] /\ frame' = p.fr /\ 1 \in Places
    BY <1>1, <1>5, <1>8, <2>1, <2>3 DEF Places
  <2>6. asm' = [synced |-> TRUE, index |-> 1, expected |-> next] /\ out' = "none"
    BY <1>3, <2>2
  <2>7. TypeOK'
    BY <1>4, <1>6, <1>7, <2>3, <2>5, <2>6 DEF TypeOK, Places
  <2>8. Shifted(0)'
    <3>1. 0 * SeqMod = 0 /\ 1 % P = 1
      BY <1>1, Small
    <3>2. (1 + 0 + 0 * SeqMod) % P = 1
      BY <3>1
    <3>3. frame'[0] # "alien"
      BY <1>1, <1>10, <2>2, <2>5 DEF Places
    <3>4. \A i \in 0..(1 - 1) : frame'[i] # "alien"
      BY <3>3
    <3> QED BY <1>3, <2>5, <2>6, <3>2, <3>4 DEF Shifted
  <2>9. InStep'
    <3>1. 0 \in 0..((1 - 1) * Rounds)
      BY RoundsIsNat
    <3> QED BY <1>3, <1>4, <2>5, <2>6, <2>8, <3>1 DEF InStep
  <2> QED BY <2>6, <2>7, <2>9 DEF IInv, PublishedIsOneFrame
<1>11. ASSUME asm.synced, asm.index + Lost \in Places, flag = FlagOf(asm.index + Lost),
              NEW st \in States, NEW fr \in Frames,
              st.synced, st.index = asm.index + Lost, Filled(fr, Lost), p = Stored(st, fr, flag)
       PROVE  IInv'
  <2> DEFINE n == asm.index + Lost
             full == [fr EXCEPT ![n] = IF n = dev.index THEN "own" ELSE "alien"]
  <2>1. /\ asm.index \in Nat \ {0} /\ (asm.expected + gap) % SeqMod = dev.seq
        /\ \E w \in 0..((asm.index - 1) * Rounds) : Shifted(w)
    BY <1>1, <1>11 DEF IInv, InStep, Places
  <2>2. /\ Lost \in 0..(SeqMod - 1) /\ Rounds \in Nat
        /\ \E k \in 0..Rounds : gap = Lost + k * SeqMod
    BY <2>1, GapIsLostAndRounds DEF IInv
  <2>3. PICK w \in 0..((asm.index - 1) * Rounds) : Shifted(w)
    BY <2>1
  <2>4. PICK k \in 0..Rounds : gap = Lost + k * SeqMod
    BY <2>2
  <2> DEFINE both == w + k
  <2>5. /\ w \in Nat /\ k \in Nat /\ both \in Nat /\ both <= n * Rounds
        /\ both * SeqMod = w * SeqMod + k * SeqMod
        /\ w * SeqMod \in Nat /\ k * SeqMod \in Nat /\ both * SeqMod \in Nat
    <3>1. (asm.index - 1) * Rounds \in Nat
      BY <2>1, <2>2
    <3>2. w \in Nat /\ k \in Nat /\ w <= (asm.index - 1) * Rounds /\ k <= Rounds /\ Lost \in Nat
      BY <3>1, <2>2
    <3>3. both <= n * Rounds
      BY <3>2, <2>1, <2>2, RoundsBound
    <3>4. both * SeqMod = w * SeqMod + k * SeqMod
      BY <1>1, <3>2, RoundsAdd
    <3>5. w * SeqMod \in Nat /\ k * SeqMod \in Nat
      BY <1>1, <3>2, SMT
    <3> HIDE DEF n
    <3> QED BY <3>2, <3>3, <3>4, <3>5
  <2>6. /\ n \in Places /\ n \in Nat \ {0} /\ asm.index <= n
    BY <2>1, <2>2, <1>11 DEF Places
  <2>7. (n + both * SeqMod) % P = dev.index
    <3>1. (asm.index + gap + w * SeqMod) % P = dev.index
      BY <2>3 DEF Shifted
    <3>2. asm.index + gap + w * SeqMod = n + both * SeqMod
      BY <2>1, <2>2, <2>4, <2>5
    <3> QED BY <3>1, <3>2
  <2>8. ASSUME both = 0
        PROVE  n = dev.index /\ \A i \in 0..n : full[i] # "alien"
    <3>1. w = 0 /\ k = 0
      BY <2>5, <2>8
    <3>2. gap = Lost
      <4>1. k * SeqMod = 0 /\ Lost \in Nat
        BY <1>1, <2>2, <3>1
      <4> QED BY <2>4, <4>1
    <3>3. n = dev.index
      <4>1. n + both * SeqMod = n
        BY <1>1, <2>6, <2>8
      <4> QED BY <1>1, <2>6, <2>7, <4>1, Small DEF Places
    <3>4. \A i \in 0..(asm.index - 1) : frame[i] # "alien"
      BY <1>1, <2>3, <2>6, <3>1, <3>2 DEF Shifted, Places
    <3>5. ASSUME NEW i \in 0..n
          PROVE  full[i] # "alien"
      <4>1. i \in Places
        BY <1>1, <2>6, <3>5 DEF Places
      <4>2. CASE i = n
        BY <4>1, <4>2, <3>3
      <4>3. CASE i # n
        <5>1. i \in 0..(asm.index - 1) \/ i \in asm.index..(n - 1)
          BY <2>1, <2>6, <3>5, <4>3
        <5>2. full[i] = fr[i]
          BY <4>1, <4>3
        <5>3. fr[i] # "alien"
          <6>1. Filled(fr, Lost)
            BY <1>11
          <6>2. /\ \A j \in 0..(asm.index - 1) : fr[j] = frame[j]
                /\ \A j \in asm.index..(asm.index + Lost - 1) : fr[j] = "zero"
            BY <6>1, Zenon DEF Filled
          <6>3. CASE i \in 0..(asm.index - 1)
            <7>1. fr[i] = frame[i] /\ frame[i] # "alien"
              BY <3>4, <6>2, <6>3
            <7> QED BY <7>1
          <6>4. CASE i \in asm.index..(n - 1)
            <7>1. fr[i] = "zero"
              BY <2>1, <2>2, <6>2, <6>4
            <7> QED BY <7>1
          <6> QED BY <5>1, <6>3, <6>4
        <5> QED BY <5>2, <5>3
      <4> QED BY <4>2, <4>3
    <3> QED BY <3>3, <3>5
  <2>9. /\ p.st = IF flag = "eof" THEN Unsynced
                  ELSE [synced |-> TRUE, index |-> n + 1, expected |-> next]
        /\ p.fr = full
        /\ p.out = IF flag # "eof" \/ n # P - 1 THEN "none"
                   ELSE IF \E i \in Places : full[i] = "alien" THEN "mixed" ELSE "frame"
    BY <1>11 DEF Stored, next
  <2>10. full \in Frames
    BY <1>11
  <2>11. flag = FlagOf(dev.index) /\ flag = FlagOf(n) /\ flag \in {"mof", "eof"}
    BY <1>1, <1>12, <1>11, <2>6 DEF FlagOf, Places
  <2> HIDE DEF full, both
  <2>12. CASE flag = "eof"
    <3>1. n = P - 1 /\ dev.index = P - 1
      BY <1>1, <2>6, <2>11, <2>12 DEF FlagOf
    <3>2. both = 0
      <4>1. SUFFICES ASSUME both # 0 PROVE FALSE
        OBVIOUS
      <4>2. both \in 1..((P - 1) * Rounds)
        <5>1. (P - 1) * Rounds \in Nat
          BY <1>1, <2>2
        <5> QED BY <4>1, <5>1, <2>5, <3>1
      <4>3. (both * SeqMod) % P # 0
        BY <4>2 DEF AssemblerConstants
      <4> DEFINE x == both * SeqMod
                 q == (P - 1 + x) \div P
      <4>4. x \in Nat /\ (P - 1 + x) % P = P - 1
        BY <2>5, <2>7, <3>1
      <4> HIDE DEF x
      <4>5. P - 1 + x \in Int
        BY <1>1, <4>4
      <4>6. q \in Int /\ P - 1 + x = P * q + (P - 1)
        BY <1>1, <4>4, <4>5, Quotient
      <4> HIDE DEF q
      <4>7. x = P * q + 0 /\ 0 \in 0..(P - 1)
        BY <1>1, <4>4, <4>6, SMT
      <4>8. x % P = 0
        BY <1>1, <4>6, <4>7, Remainder
      <4> QED BY <4>3, <4>8 DEF x
    <3>3. \A i \in Places : full[i] # "alien"
      BY <2>8, <3>1, <3>2 DEF Places
    <3>4. p.st = Unsynced /\ p.out = "frame"
      BY <2>9, <2>12, <3>1, <3>3
    <3>5. asm' \in States /\ asm'.synced = FALSE /\ out' = "frame"
      BY <1>1, <1>3, <3>4 DEF Unsynced, Places
    <3>6. frame' \in Frames
      BY <1>8, <2>9, <2>10
    <3>7. TypeOK'
      BY <1>6, <1>7, <3>5, <3>6 DEF TypeOK, Places
    <3> QED BY <3>5, <3>7 DEF IInv, InStep, PublishedIsOneFrame
  <2>13. CASE flag # "eof"
    <3>1. n < P - 1 /\ dev.index < P - 1 /\ n + 1 \in Places
      BY <1>1, <2>6, <2>11, <2>13 DEF FlagOf, Places
    <3>2. asm' = [synced |-> TRUE, index |-> n + 1, expected |-> next] /\ out' = "none"
          /\ frame' = full
      BY <1>3, <1>8, <2>9, <2>10, <2>13, <3>1
    <3>3. dev' = [index |-> dev.index + 1, seq |-> next]
      BY <1>1, <1>5, <3>1 DEF Places
    <3>4. TypeOK'
      BY <1>4, <1>6, <1>7, <2>10, <3>1, <3>2 DEF TypeOK, Places
    <3>5. ((n + 1) + 0 + both * SeqMod) % P = dev.index + 1
      <4>1. n + both * SeqMod \in Nat
        BY <2>5, <2>6
      <4>2. ((n + both * SeqMod) + 1) % P = dev.index + 1
        <5> DEFINE x == n + both * SeqMod
        <5> HIDE DEF x
        <5>1. x \in Nat /\ P \in Nat \ {0} /\ x % P = dev.index
          BY <1>1, <2>7, <4>1 DEF x
        <5>2. dev.index # P - 1
          BY <1>1, <3>1
        <5>3. (x + 1) % P = dev.index + 1
          BY <5>1, <5>2, NextRemainder
        <5> QED BY <5>3 DEF x
      <4>3. (n + 1) + 0 + both * SeqMod = (n + both * SeqMod) + 1
        BY <2>5, <2>6
      <4> QED BY <4>2, <4>3
    <3>6. Shifted(both)'
      <4>1. (asm'.index + gap' + both * SeqMod) % P = dev'.index
        BY <1>3, <3>2, <3>3, <3>5
      <4>2. ASSUME both = 0
            PROVE  \A i \in 0..(asm'.index - 1) : frame'[i] # "alien"
        <5>1. asm'.index - 1 = n
          BY <2>6, <3>2
        <5> QED BY <2>8, <3>2, <4>2, <5>1
      <4> QED BY <4>1, <4>2 DEF Shifted
    <3>7. InStep'
      <4>1. asm'.index - 1 = n /\ asm'.index >= 1
        BY <2>6, <3>2
      <4>2. n * Rounds \in Nat
        BY <2>2, <2>6
      <4>3. both \in 0..((asm'.index - 1) * Rounds)
        BY <2>5, <4>1, <4>2
      <4>4. (asm'.expected + gap') % SeqMod = dev'.seq
        BY <1>3, <1>4, <3>2, <3>3
      <4> QED BY <4>1, <4>3, <4>4, <3>6 DEF InStep
    <3> QED BY <3>2, <3>4, <3>7 DEF IInv, PublishedIsOneFrame
  <2> QED BY <2>12, <2>13
<1> QED BY <1>2, <1>9, <1>10, <1>11 DEF Outcome

\* A received packet keeps the frame in step.
LEMMA ReceiveStep ==
  ASSUME AssemblerConstants, IInv, NEW damage \in {"none", "flag", "long"}, Receive(damage)
  PROVE  IInv'
<1> DEFINE flag == IF damage = "flag" THEN "bad" ELSE FlagOf(dev.index)
           p == Process(flag, damage)
<1>1. flag \in {"sof", "mof", "eof", "bad"} /\ flag \in {"bad", FlagOf(dev.index)}
  BY DEF FlagOf
<1>2. asm' = p.st /\ out' = p.out /\ gap' = 0 /\ Advance(p.fr, damage = "none")
  BY DEF Receive
<1> HIDE DEF flag
<1>3. Outcome(p, flag)
  BY <1>1, ProcessOutcome DEF IInv
<1> HIDE DEF p
<1>4. (damage = "none") \in BOOLEAN
  OBVIOUS
<1> QED BY <1>1, <1>2, <1>3, <1>4, OutcomeStep

\* A lost packet keeps the frame in step: the gap grows with what the device is
\* ahead, and before the end of the device's frame nothing of the buffer is stale.
LEMMA LoseStep ==
  ASSUME AssemblerConstants, IInv, Lose
  PROVE  IInv'
<1> DEFINE next == (dev.seq + 1) % SeqMod
<1>1. /\ P \in Nat \ {0, 1} /\ SeqMod \in Nat \ {0} /\ MaxGap \in Nat
      /\ dev.index \in 0..(P - 1) /\ dev.seq \in 0..(SeqMod - 1)
      /\ asm \in [synced : BOOLEAN, index : Places, expected : 0..(SeqMod - 1)]
      /\ frame \in [Places -> {"zero", "own", "alien"}] /\ gap \in 0..MaxGap /\ intact \in BOOLEAN
  BY DEF AssemblerConstants, IInv, TypeOK, Places
<1>2. /\ gap < MaxGap /\ gap' = gap + 1 /\ asm' = asm /\ out' = "none"
      /\ Advance(frame, FALSE)
  BY DEF Lose
<1>3. /\ next \in 0..(SeqMod - 1)
      /\ next = IF dev.seq = SeqMod - 1 THEN 0 ELSE dev.seq + 1
  <2>1. next = IF dev.seq = SeqMod - 1 THEN 0 ELSE dev.seq + 1
    BY <1>1, NextInTurn
  <2> HIDE DEF next
  <2> QED BY <1>1, <2>1
<1>4. dev' = [index |-> IF dev.index = P - 1 THEN 0 ELSE dev.index + 1, seq |-> next]
  <2>1. (dev.index + 1) % P = IF dev.index = P - 1 THEN 0 ELSE dev.index + 1
    BY <1>1, NextInTurn
  <2> QED BY <1>2, <2>1 DEF Advance
<1> HIDE DEF next
<1>5. /\ frame' \in [Places -> {"zero", "own", "alien"}]
      /\ dev.index < P - 1 => frame' = frame
  BY <1>1, <1>2 DEF Advance
<1>6. TypeOK'
  <2>1. (IF dev.index = P - 1 THEN 0 ELSE dev.index + 1) \in Places
    BY <1>1 DEF Places
  <2>2. dev' \in [index : Places, seq : 0..(SeqMod - 1)]
    BY <2>1, <1>3, <1>4
  <2>3. intact' \in BOOLEAN
    BY <1>1, <1>2 DEF Advance
  <2>4. gap' \in 0..MaxGap
    BY <1>1, <1>2
  <2> QED BY <1>1, <1>2, <1>5, <2>2, <2>3, <2>4 DEF TypeOK, Places
<1>7. InStep'
  <2>1. SUFFICES ASSUME asm.synced
                 PROVE  /\ asm.index >= 1
                        /\ (asm.expected + gap') % SeqMod = dev'.seq
                        /\ \E w \in 0..((asm.index - 1) * Rounds) : Shifted(w)'
    BY <1>2 DEF InStep
  <2>2. asm.index >= 1 /\ asm.index \in 0..(P - 1) /\ asm.expected \in 0..(SeqMod - 1)
        /\ (asm.expected + gap) % SeqMod = dev.seq
    BY <1>1, <2>1 DEF IInv, InStep, Places
  <2>3. (asm.expected + gap') % SeqMod = dev'.seq
    <3>1. asm.expected + gap \in Nat /\ asm.expected + gap' = (asm.expected + gap) + 1
      BY <1>1, <1>2, <2>2
    <3>2. ((asm.expected + gap) + 1) % SeqMod = next
      BY <1>1, <1>3, <2>2, <3>1, NextRemainder
    <3> QED BY <1>4, <3>1, <3>2
  <2>4. PICK w \in 0..((asm.index - 1) * Rounds) : Shifted(w)
    BY <2>1 DEF IInv, InStep
  <2>5. w \in Nat
    <3>1. (asm.index - 1) * Rounds \in Nat
      BY <2>2, RoundsIsNat
    <3> QED BY <3>1
  <2>6. (asm'.index + gap' + w * SeqMod) % P = dev'.index
    <3> DEFINE x == asm.index + gap + w * SeqMod
    <3>1. w * SeqMod \in Nat
      BY <1>1, <2>5, SMT
    <3>2. x \in Nat /\ x % P = dev.index /\ asm'.index + gap' + w * SeqMod = x + 1
      BY <1>1, <1>2, <2>2, <2>4, <3>1 DEF Shifted
    <3> HIDE DEF x
    <3>3. (x + 1) % P = dev'.index
      BY <1>1, <1>4, <3>2, NextRemainder
    <3> QED BY <3>2, <3>3
  <2>7. ASSUME w = 0, asm'.index + gap' < P
        PROVE  \A i \in 0..(asm'.index - 1) : frame'[i] # "alien"
    <3>1. asm.index + gap < P - 1 /\ asm.index + gap \in 0..(P - 1)
      BY <1>1, <1>2, <2>2, <2>7
    <3>2. asm.index + gap + w * SeqMod = asm.index + gap
      BY <1>1, <2>7, <3>1
    <3>3. dev.index = asm.index + gap
      BY <1>1, <2>4, <3>1, <3>2, Small DEF Shifted
    <3>4. frame' = frame
      BY <1>5, <3>1, <3>3
    <3> QED BY <1>1, <1>2, <2>4, <2>7, <3>1, <3>4 DEF Shifted
  <2>8. Shifted(w)'
    BY <2>6, <2>7 DEF Shifted
  <2> QED BY <2>2, <2>3, <2>4, <2>8
<1> QED BY <1>2, <1>6, <1>7 DEF IInv, PublishedIsOneFrame

\* The invariant holds at first.
LEMMA Initial ==
  ASSUME AssemblerConstants, Init
  PROVE  IInv
<1>1. P \in Nat \ {0, 1} /\ SeqMod \in Nat \ {0} /\ MaxGap \in Nat
  BY DEF AssemblerConstants
<1>2. 0 \in Places /\ 0 \in 0..(SeqMod - 1) /\ 0 \in 0..MaxGap
  BY <1>1 DEF Places
<1>3. Zeros \in [Places -> {"zero", "own", "alien"}]
  BY DEF Zeros
<1> QED BY <1>2, <1>3 DEF Init, IInv, TypeOK, InStep, Unsynced, PublishedIsOneFrame

\* restart leaves nothing to be in step with.
LEMMA RestartStep ==
  ASSUME AssemblerConstants, IInv, Restart
  PROVE  IInv'
<1>1. P \in Nat \ {0, 1} /\ SeqMod \in Nat \ {0} /\ MaxGap \in Nat
  BY DEF AssemblerConstants
<1>2. 0 \in Places /\ 0 \in 0..(SeqMod - 1) /\ 0 \in 0..MaxGap
  BY <1>1 DEF Places
<1>3. frame' \in [Places -> {"zero", "own", "alien"}]
  BY DEF IInv, TypeOK, Restart
<1> QED BY <1>2, <1>3 DEF Restart, IInv, TypeOK, InStep, Unsynced, PublishedIsOneFrame

\* The assembler is in step with the device, up to whole rounds of the sequence
\* number, in every state of every behaviour.
THEOREM InStepHolds ==
  ASSUME AssemblerConstants
  PROVE  Spec => []IInv
<1>1. Init => IInv
  BY Initial
<1>2. IInv /\ [Next]_vars => IInv'
  <2>1. CASE UNCHANGED vars
    BY <2>1 DEF vars, IInv, TypeOK, InStep, Shifted, PublishedIsOneFrame
  <2> QED BY <2>1, LoseStep, RestartStep, ReceiveStep DEF Next
<1> QED BY <1>1, <1>2, PTL DEF Spec

\* kinect_usb_camera.cpp:138-139: what is published is of one frame, whatever is
\* lost, damaged or counted round.
THEOREM PublishedIsOneFrameHolds ==
  ASSUME AssemblerConstants
  PROVE  Spec => []PublishedIsOneFrame
<1>1. IInv => PublishedIsOneFrame
  BY DEF IInv
<1> QED BY <1>1, InStepHolds, PTL

-----------------------------------------------------------------------------
(* A frame of which every packet arrives *)

\* As long as the device's frame is intact it is put together in step with it.
Follows ==
  intact /\ dev.index > 0 =>
    /\ asm.synced /\ asm.index = dev.index /\ asm.expected = dev.seq
    /\ \A i \in 0..(dev.index - 1) : frame[i] # "alien"

\* The packet that is expected is stored where the last one ended.
LEMMA ExpectedPacket ==
  ASSUME AssemblerConstants, IInv, Follows, intact, dev.index > 0
  PROVE  Process(FlagOf(dev.index), "none") = Stored(asm, frame, FlagOf(dev.index))
<1> DEFINE flag == FlagOf(dev.index)
           r == Resync(flag)
<1>1. asm.synced /\ asm.index = dev.index /\ asm.expected = dev.seq
  BY DEF Follows
<1>2. (dev.seq - asm.expected) % SeqMod = 0
  <2>1. SeqMod \in Nat \ {0} /\ dev.seq \in 0..(SeqMod - 1)
    BY DEF AssemblerConstants, IInv, TypeOK
  <2>2. dev.seq - asm.expected = 0 /\ 0 \in 0..(SeqMod - 1)
    BY <1>1, <2>1
  <2> QED BY <2>1, <2>2, Small
<1>3. r = [st |-> asm, fr |-> frame, go |-> TRUE]
  BY <1>1, <1>2 DEF Resync
<1> HIDE DEF r
<1>4. Flagged(r, flag) = r
  BY <1>1, <1>3 DEF Flagged
<1>5. Fits(r.st.index, "none")
  BY <1>1, <1>3 DEF Fits
<1>6. Process(flag, "none") = IF ~r.go THEN [st |-> r.st, fr |-> r.fr, out |-> "none"]
                              ELSE IF ~Flagged(r, flag).go \/ ~Fits(r.st.index, "none")
                              THEN [st |-> Unsynced, fr |-> Flagged(r, flag).fr, out |-> "none"]
                              ELSE Stored(Flagged(r, flag).st, Flagged(r, flag).fr, flag)
  BY DEF Process, r
<1> QED BY <1>3, <1>4, <1>5, <1>6

\* The first packet of a frame starts a new frame, unless so many packets were
\* lost that the numbers came round.
LEMMA FirstPacket ==
  ASSUME AssemblerConstants, MaxGap < SeqMod, IInv, dev.index = 0
  PROVE  Process("sof", "none") = Stored(Started(dev.seq), Zeros, "sof")
<1> DEFINE r == Resync("sof")
<1>1. P \in Nat \ {0, 1} /\ SeqMod \in Nat \ {0} /\ MaxGap \in Nat /\ gap \in Nat
  BY DEF AssemblerConstants, IInv, TypeOK
<1>2. asm.synced => Lost # 0 /\ asm.index + Lost >= P
  <2>1. SUFFICES ASSUME asm.synced
                 PROVE  Lost # 0 /\ asm.index + Lost >= P
    OBVIOUS
  <2>2. /\ asm.index \in 1..(P - 1) /\ (asm.expected + gap) % SeqMod = dev.seq
        /\ \E w \in 0..((asm.index - 1) * Rounds) : Shifted(w)
    BY <1>1, <2>1 DEF IInv, TypeOK, InStep, Places
  <2>3. Rounds = 0
    <3>1. MaxGap = SeqMod * 0 + MaxGap /\ MaxGap \in 0..(SeqMod - 1)
      BY <1>1
    <3>2. MaxGap \in Int /\ MaxGap % SeqMod = MaxGap
      BY <1>1, <3>1, Small
    <3>3. Rounds \in Nat /\ MaxGap = SeqMod * Rounds + MaxGap
      BY <1>1, <3>2, Quotient, RoundsIsNat DEF Rounds
    <3>4. SeqMod * Rounds = 0
      BY <1>1, <3>3, SMT
    <3> QED BY <1>1, <3>3, <3>4, SMT
  <2>4. gap = Lost /\ Lost \in Nat
    <3>1. Lost \in 0..(SeqMod - 1) /\ \E k \in 0..Rounds : gap = Lost + k * SeqMod
      BY <2>2, GapIsLostAndRounds DEF IInv
    <3>2. PICK k \in 0..Rounds : gap = Lost + k * SeqMod
      BY <3>1
    <3>3. k = 0 /\ 0 * SeqMod = 0
      BY <1>1, <2>3
    <3> QED BY <1>1, <3>1, <3>2, <3>3
  <2>5. (asm.index + Lost) % P = 0
    <3>1. PICK w \in 0..((asm.index - 1) * Rounds) : Shifted(w)
      BY <2>2
    <3>2. (asm.index - 1) * Rounds = 0
      BY <2>2, <2>3
    <3>3. w = 0 /\ asm.index + gap + 0 * SeqMod = asm.index + Lost
      BY <1>1, <2>2, <2>4, <3>2
    <3> QED BY <3>1, <3>3 DEF Shifted
  <2>6. asm.index + Lost >= P
    <3>1. SUFFICES ASSUME asm.index + Lost < P PROVE FALSE
      BY <1>1, <2>2, <2>4
    <3>2. asm.index + Lost \in 0..(P - 1) /\ asm.index + Lost # 0
      BY <1>1, <2>2, <2>4, <3>1
    <3> QED BY <1>1, <2>5, <3>2, Small
  <2> QED BY <1>1, <2>2, <2>4, <2>6
<1>3. r = [st |-> Started(dev.seq), fr |-> Zeros, go |-> TRUE]
  BY <1>2 DEF Resync, Lost
<1> HIDE DEF r
<1>4. r.st.index = 0
  BY <1>3 DEF Started
<1>5. Flagged(r, "sof") = r
  BY <1>4 DEF Flagged, FlagOf
<1>6. Fits(r.st.index, "none")
  BY <1>1, <1>4 DEF Fits
<1>7. Process("sof", "none") = IF ~r.go THEN [st |-> r.st, fr |-> r.fr, out |-> "none"]
                               ELSE IF ~Flagged(r, "sof").go \/ ~Fits(r.st.index, "none")
                               THEN [st |-> Unsynced, fr |-> Flagged(r, "sof").fr, out |-> "none"]
                               ELSE Stored(Flagged(r, "sof").st, Flagged(r, "sof").fr, "sof")
  BY DEF Process, r
<1> QED BY <1>3, <1>5, <1>6, <1>7

\* Every step keeps an intact frame in step with the device's.
LEMMA FollowsStep ==
  ASSUME AssemblerConstants, MaxGap < SeqMod, IInv, Follows, [Next]_vars
  PROVE  Follows'
<1>1. /\ P \in Nat \ {0, 1} /\ SeqMod \in Nat \ {0}
      /\ dev.index \in 0..(P - 1) /\ dev.seq \in 0..(SeqMod - 1)
      /\ frame \in [Places -> {"zero", "own", "alien"}]
  BY DEF AssemblerConstants, IInv, TypeOK, Places
<1>2. ASSUME NEW fr, NEW ok, Advance(fr, ok)
      PROVE  \/ dev'.index = 0
             \/ /\ dev.index < P - 1 /\ dev'.index = dev.index + 1
                /\ frame' = fr /\ (intact' => intact /\ ok)
  <2>1. (dev.index + 1) % P = IF dev.index = P - 1 THEN 0 ELSE dev.index + 1
    BY <1>1, NextInTurn
  <2>2. dev'.index = (dev.index + 1) % P
    BY <1>2 DEF Advance
  <2>3. CASE dev.index = P - 1
    BY <2>1, <2>2, <2>3
  <2>4. CASE dev.index # P - 1
    <3>1. dev.index < P - 1
      BY <1>1, <2>4
    <3>2. frame' = fr /\ (intact' => intact /\ ok)
      BY <1>2, <3>1 DEF Advance
    <3> QED BY <2>1, <2>2, <2>4, <3>1, <3>2
  <2> QED BY <2>3, <2>4
<1>3. ASSUME NEW fr, Advance(fr, FALSE)
      PROVE  Follows'
  <2>1. dev'.index = 0 \/ ~intact'
    BY <1>2, <1>3
  <2> QED BY <2>1 DEF Follows
<1>4. CASE Restart
  BY <1>4 DEF Restart, Follows
<1>5. CASE UNCHANGED vars
  BY <1>5 DEF vars, Follows
<1>6. ASSUME NEW damage \in {"flag", "long"}, Receive(damage)
      PROVE  Follows'
  <2> DEFINE fr == Process(IF damage = "flag" THEN "bad" ELSE FlagOf(dev.index), damage).fr
  <2>1. Advance(fr, FALSE)
    BY <1>6 DEF Receive
  <2> HIDE DEF fr
  <2> QED BY <1>3, <2>1
<1>8. CASE Lose
  BY <1>3, <1>8 DEF Lose
<1>7. CASE Receive("none")
  <2> DEFINE flag == FlagOf(dev.index)
             p == Process(flag, "none")
  <2>1. asm' = p.st /\ Advance(p.fr, TRUE) /\ dev'.seq = (dev.seq + 1) % SeqMod
    BY <1>7 DEF Receive, Advance
  <2> HIDE DEF p
  <2>2. SUFFICES ASSUME intact', dev'.index > 0
                 PROVE  /\ asm'.synced /\ asm'.index = dev'.index /\ asm'.expected = dev'.seq
                        /\ \A i \in 0..(dev'.index - 1) : frame'[i] # "alien"
    BY DEF Follows
  <2>3. /\ dev.index < P - 1 /\ dev'.index = dev.index + 1 /\ frame' = p.fr /\ intact
    <3>1. \/ dev'.index = 0
          \/ /\ dev.index < P - 1 /\ dev'.index = dev.index + 1
             /\ frame' = p.fr /\ (intact' => intact /\ TRUE)
      BY <1>2, <2>1
    <3> QED BY <2>2, <3>1
  <2>4. CASE dev.index = 0
    <3>1. flag = "sof" /\ p = Stored(Started(dev.seq), Zeros, "sof")
      BY <2>4, FirstPacket DEF FlagOf, p
    <3>2. /\ p.st = [synced |-> TRUE, index |-> 1, expected |-> (dev.seq + 1) % SeqMod]
          /\ p.fr = [Zeros EXCEPT ![0] = "own"]
      BY <2>4, <3>1 DEF Stored, Started
    <3>3. frame'[0] # "alien"
      BY <1>1, <2>3, <3>2 DEF Zeros, Places
    <3>4. dev'.index = 1
      BY <2>3, <2>4
    <3> QED BY <2>1, <3>2, <3>3, <3>4
  <2>5. CASE dev.index > 0
    <3>1. p = Stored(asm, frame, flag) /\ flag # "eof"
      BY <1>1, <2>3, <2>5, ExpectedPacket DEF FlagOf, p
    <3>2. asm.index = dev.index
      BY <2>3, <2>5 DEF Follows
    <3>3. /\ p.st = [synced |-> TRUE, index |-> dev.index + 1, expected |-> (dev.seq + 1) % SeqMod]
          /\ p.fr = [frame EXCEPT ![dev.index] = "own"]
      BY <3>1, <3>2 DEF Stored
    <3>4. ASSUME NEW i \in 0..dev.index
          PROVE  frame'[i] # "alien"
      <4>1. i \in Places
        BY <1>1, <3>4 DEF Places
      <4>2. i # dev.index => frame[i] # "alien"
        BY <1>1, <2>3, <2>5, <3>4 DEF Follows
      <4> QED BY <1>1, <2>3, <3>3, <4>1, <4>2
    <3>5. dev'.index - 1 = dev.index
      BY <1>1, <2>3
    <3> QED BY <2>1, <2>3, <3>3, <3>4, <3>5
  <2> QED BY <1>1, <2>4, <2>5
<1> QED BY <1>4, <1>5, <1>6, <1>7, <1>8 DEF Next

\* Whatever was lost or damaged before, a frame of which every packet arrives is
\* published (process), as long as no gap makes the numbers come round.
THEOREM FullFrameIsPublishedHolds ==
  ASSUME AssemblerConstants, MaxGap < SeqMod
  PROVE  Spec => FullFrameIsPublished
<1>1. Init => Follows
  BY DEF Init, Follows
<1>2. IInv /\ Follows /\ [Next]_vars => Follows'
  BY FollowsStep
<1>3. IInv /\ Follows => [Receive("none") /\ dev.index = P - 1 /\ intact => out' = "frame"]_vars
  <2>1. SUFFICES ASSUME IInv, Follows, Receive("none"), dev.index = P - 1, intact
                 PROVE  out' = "frame"
    OBVIOUS
  <2> DEFINE p == Process(FlagOf(dev.index), "none")
  <2>2. /\ P \in Nat \ {0, 1} /\ dev.index > 0
        /\ frame \in [Places -> {"zero", "own", "alien"}]
    BY <2>1 DEF AssemblerConstants, IInv, TypeOK
  <2>3. FlagOf(dev.index) = "eof"
    BY <2>1, <2>2 DEF FlagOf
  <2>4. p = Stored(asm, frame, "eof") /\ asm.index = P - 1
    BY <2>1, <2>2, <2>3, ExpectedPacket DEF Follows
  <2>5. ~\E i \in Places : [frame EXCEPT ![P - 1] = "own"][i] = "alien"
    BY <2>1, <2>2 DEF Follows, Places
  <2>6. p.out = "frame"
    BY <2>1, <2>4, <2>5 DEF Stored
  <2> QED BY <2>1, <2>6 DEF Receive
<1>4. Spec => [][Receive("none") /\ dev.index = P - 1 /\ intact => out' = "frame"]_vars
  BY <1>1, <1>2, <1>3, InStepHolds, PTL DEF Spec
<1> QED BY <1>4 DEF FullFrameIsPublished

=============================================================================
