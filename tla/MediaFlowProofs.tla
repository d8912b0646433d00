--------------------------- MODULE MediaFlowProofs ---------------------------
(***************************************************************************)
(* What module MediaFlow keeps for any times, sizes and bounds: types, the *)
(* limit of the queue, a quality that does not swing, and losses that are  *)
(* all counted once.                                                       *)
(***************************************************************************)
EXTENDS MediaFlow, TLAPS

\* Frame numbers are residues.
LEMMA Residue ==
  ASSUME NEW a \in Int, NEW n \in Nat, n > 0
  PROVE  a % n \in 0 .. (n - 1)
OBVIOUS

-----------------------------------------------------------------------------
(* The quality *)

\* healthy_for never reaches back behind the last drop.
QualityInv ==
    /\ quality \in Qualities
    /\ remote.quality \in Qualities
    /\ healthy_for \in Unset .. HoldTime
    /\ since_drop \in 0 .. HoldTime
    /\ healthy_for <= since_drop

\* What the queue, the round trips and the report allow is a quality.
LEMMA DesiredTyped ==
  ASSUME remote.quality \in Qualities, NEW rtt, NEW bad
  PROVE  Desired(rtt, bad) \in Qualities
BY DEF Desired, Least, Qualities

\* rr_media_quality keeps the invariant, and raises the quality only when the time
\* since the last drop is over.
LEMMA AdaptStep ==
  ASSUME QualityInv, NEW rtt, Adapt(rtt)
  PROVE  /\ quality' \in Qualities
         /\ healthy_for' \in Unset .. HoldTime
         /\ since_drop' \in 0 .. HoldTime
         /\ healthy_for' <= since_drop'
         /\ quality' > quality => since_drop >= HoldTime
<1> DEFINE bad == IF rtt = "good" THEN Unset ELSE Most(tx_bad_for, 0)
           desired == Desired(rtt, bad)
           healthy == Most(healthy_for, 0)
<1>1. desired \in Qualities
  BY DesiredTyped DEF QualityInv
<1>2. HoldTime \in Nat
  BY MediaFlowAssumption
<1>3. healthy \in 0 .. HoldTime /\ healthy <= since_drop
  BY <1>2 DEF QualityInv, Most, Unset
<1>4. \/ desired < quality /\ quality' = desired /\ healthy_for' = Unset /\ since_drop' = 0
      \/ desired = quality /\ healthy_for' = Unset /\ UNCHANGED <<quality, since_drop>>
      \/ /\ desired > quality
         /\ quality' = IF healthy >= HoldTime THEN Least(quality + 25, desired) ELSE quality
         /\ healthy_for' = IF healthy >= HoldTime THEN 0 ELSE healthy
         /\ UNCHANGED since_drop
  BY DEF Adapt
<1> HIDE DEF bad, desired, healthy
<1> QED
  BY <1>1, <1>2, <1>3, <1>4 DEF QualityInv, Qualities, Least, Unset

\* What the subscriber does may change the report, not the quality.
LEMMA ObserveQuality ==
  ASSUME remote.quality \in Qualities, NEW f, Observe(f)
  PROVE  remote'.quality \in Qualities
BY DEF Observe, Accept, Feedback, Qualities

LEMMA QualityStep ==
  ASSUME QualityInv, [Next]_vars
  PROVE  QualityInv' /\ (quality' > quality => since_drop >= HoldTime)
<1> USE DEF QualityInv
<1>1. CASE \/ Broadcast \/ SendByRtp \/ Lose \/ Calm \/ UNCHANGED vars
  BY <1>1 DEF Broadcast, SendByRtp, Lose, Calm, vars, senderVars, Qualities
<1>2. CASE SendFrame
  <2>1. (\E rtt \in RoundTrips : Adapt(rtt)) /\ UNCHANGED remote
    BY <1>2 DEF SendFrame
  <2> QED
    BY <2>1, AdaptStep
<1>3. CASE Arrive \/ ArriveByRtp
  BY <1>3, ObserveQuality DEF Arrive, ArriveByRtp, senderVars, Qualities
<1>4. CASE Tick
  <2>1. HoldTime \in Nat
    BY MediaFlowAssumption
  <2>2. /\ healthy_for' = Older(healthy_for, HoldTime)
        /\ since_drop' = Older(since_drop, HoldTime)
        /\ remote'.quality = remote.quality
        /\ quality' = quality
    BY <1>4 DEF Tick
  <2> QED
    BY <2>1, <2>2 DEF Older, Least, Unset, Qualities
<1> QED
  BY <1>1, <1>2, <1>3, <1>4 DEF Next

LEMMA QualityInvariant == Spec => []QualityInv
<1>1. Init => QualityInv
  BY MediaFlowAssumption DEF Init, QualityInv, Qualities, Unset
<1>2. QualityInv /\ [Next]_vars => QualityInv'
  BY QualityStep
<1> QED
  BY <1>1, <1>2, PTL DEF Spec

\* The quality is not raised within the holding time of having been lowered, for any
\* holding time and however the queue, the round trips and the reports behave.
THEOREM QualitySteady == Spec => SteadyQuality
<1>1. QualityInv /\ [Next]_vars => [quality' > quality => since_drop >= HoldTime]_vars
  BY QualityStep
<1> QED
  BY <1>1, QualityInvariant, PTL DEF Spec, SteadyQuality

-----------------------------------------------------------------------------
(* Types *)

Frame == [seq : 0 .. (SeqSize - 1), age : Nat]

\* The types, and what the queues hold.
TypeInv ==
    /\ TypeOK
    /\ queue \in Seq(Frame)
    /\ rtp \in Seq(Frame)

LEMMA ObserveTyped ==
  ASSUME TypeInv, NEW f \in Frame, Observe(f)
  PROVE  sequence' \in 0 .. (SeqSize - 1) /\ gaps' \in 0 .. MaxGaps
<1>1. MaxGaps \in Nat
  BY MediaFlowAssumption
<1>2. CASE Newer(sequence, f.seq)
  <2>1. Gap(f) >= 0 /\ Gap(f) \in Int
    BY <1>2 DEF Newer, Gap
  <2>2. Least(gaps + Gap(f), MaxGaps) \in 0 .. MaxGaps
    BY <1>1, <2>1 DEF Least, TypeInv, TypeOK
  <2>3. /\ sequence' = f.seq
        /\ gaps' = 0 \/ gaps' = Least(gaps + Gap(f), MaxGaps)
    BY <1>2 DEF Observe, Accept
  <2> QED
    BY <1>1, <2>2, <2>3 DEF Frame
<1>3. CASE ~Newer(sequence, f.seq)
  BY <1>3 DEF Observe, receiverVars, TypeInv, TypeOK
<1> QED
  BY <1>2, <1>3

\* Taking a frame from a queue, and letting those in it grow older.
LEMMA TailTyped ==
  ASSUME NEW q \in Seq(Frame), q # <<>>
  PROVE  Head(q) \in Frame /\ Tail(q) \in Seq(Frame) /\ Len(Tail(q)) = Len(q) - 1
OBVIOUS

LEMMA OlderFrames ==
  ASSUME NEW q \in Seq(Frame)
  PROVE  /\ [i \in DOMAIN q |-> [q[i] EXCEPT !.age = @ + 1]] \in Seq(Frame)
         /\ Len([i \in DOMAIN q |-> [q[i] EXCEPT !.age = @ + 1]]) = Len(q)
<1> DEFINE p == [i \in DOMAIN q |-> [q[i] EXCEPT !.age = @ + 1]]
<1>1. DOMAIN q = 1 .. Len(q) /\ Len(q) \in Nat
  OBVIOUS
<1>2. ASSUME NEW i \in 1 .. Len(q) PROVE p[i] \in Frame
  <2>1. q[i] \in Frame
    BY <1>1
  <2>2. p[i] = [q[i] EXCEPT !.age = @ + 1]
    BY <1>1
  <2>3. q[i].age + 1 \in Nat
    BY <2>1 DEF Frame
  <2> QED
    BY <2>1, <2>2, <2>3, Zenon DEF Frame
<1> QED
  BY <1>1, <1>2

\* Numbering takes the next residue.
LEMMA NumberTyped ==
  ASSUME TypeInv, Number
  PROVE  next_sequence' \in 0 .. (SeqSize - 1) /\ NextFrame \in Frame
<1>1. SeqSize \in Nat /\ SeqSize > 0
  BY MediaFlowAssumption
<1>2. next_sequence' = (next_sequence + 1) % SeqSize /\ next_sequence \in 0 .. (SeqSize - 1)
  BY DEF Number, TypeInv, TypeOK
<1>3. next_sequence' \in 0 .. (SeqSize - 1)
  BY <1>1, <1>2, Residue
<1> QED
  BY <1>2, <1>3 DEF NextFrame, Frame

\* Live audio is queued only while it fits.
LEMMA EnqueueTyped ==
  ASSUME TypeInv, NextFrame \in Frame, Enqueue
  PROVE  queue' \in Seq(Frame) /\ FrameSize * Len(queue') <= Limit
<1>1. FrameSize \in 1 .. 4
  BY MediaFlowAssumption
<1>2. CASE Queued <= Limit - FrameSize /\ queue' = Append(queue, NextFrame)
  <2>1. queue' \in Seq(Frame) /\ Len(queue') = Len(queue) + 1 /\ Len(queue) \in Nat
    BY <1>2 DEF TypeInv
  <2>2. FrameSize * (Len(queue) + 1) = FrameSize * Len(queue) + FrameSize
    BY <1>1, <2>1
  <2>3. FrameSize * Len(queue) \in Int
    BY <1>1, <2>1
  <2> QED
    BY <1>1, <1>2, <2>1, <2>2, <2>3 DEF Queued, Limit
<1>3. CASE UNCHANGED queue
  BY <1>3 DEF TypeInv, TypeOK, Queued
<1> QED
  BY <1>2, <1>3 DEF Enqueue

LEMMA TypeStep ==
  ASSUME TypeInv, QualityInv', [Next]_vars
  PROVE  TypeInv'
<1>1. quality' \in Qualities /\ remote'.quality \in Qualities
  BY DEF QualityInv
<1>2. CASE Broadcast \/ SendFrame
  <2>1. Number /\ Enqueue /\ UNCHANGED <<rtp, receiverVars, calm>>
    BY <1>2 DEF Broadcast, SendFrame
  <2> QED
    BY <1>1, <2>1, NumberTyped, EnqueueTyped DEF TypeInv, TypeOK, Queued, receiverVars
<1>3. CASE SendByRtp
  <2>1. NextFrame \in Frame /\ next_sequence' \in 0 .. (SeqSize - 1)
    BY <1>3, NumberTyped DEF SendByRtp
  <2>2. rtp' = <<NextFrame>> /\ UNCHANGED <<queue, receiverVars, calm>>
    BY <1>3 DEF SendByRtp
  <2> QED
    BY <1>1, <2>1, <2>2 DEF TypeInv, TypeOK, Queued, receiverVars
<1>4. CASE Arrive
  <2>1. /\ Head(queue) \in Frame /\ queue' \in Seq(Frame)
        /\ Len(queue') = Len(queue) - 1
    BY <1>4, TailTyped DEF Arrive, TypeInv
  <2>2. sequence' \in 0 .. (SeqSize - 1) /\ gaps' \in 0 .. MaxGaps
    BY <1>4, <2>1, ObserveTyped DEF Arrive
  <2>3. Queued' <= Limit
    <3>1. FrameSize \in 1 .. 4 /\ Len(queue) \in Nat
      BY MediaFlowAssumption DEF TypeInv
    <3>2. FrameSize * (Len(queue) - 1) = FrameSize * Len(queue) - FrameSize
      BY <3>1
    <3>3. FrameSize * Len(queue) \in Int
      BY <3>1
    <3> QED
      BY <2>1, <3>1, <3>2, <3>3 DEF Queued, Limit, TypeInv, TypeOK
  <2> QED
    BY <1>1, <1>4, <2>1, <2>2, <2>3 DEF Arrive, TypeInv, TypeOK
<1>5. CASE ArriveByRtp
  <2>1. /\ Head(rtp) \in Frame /\ rtp' \in Seq(Frame)
        /\ Len(rtp') = Len(rtp) - 1 /\ Len(rtp) \in Nat
    BY <1>5, TailTyped DEF ArriveByRtp, TypeInv
  <2>2. sequence' \in 0 .. (SeqSize - 1) /\ gaps' \in 0 .. MaxGaps
    BY <1>5, <2>1, ObserveTyped DEF ArriveByRtp
  <2> QED
    BY <1>1, <1>5, <2>1, <2>2 DEF ArriveByRtp, TypeInv, TypeOK, Queued
<1>6. CASE Lose
  <2>1. rtp' \in Seq(Frame) /\ Len(rtp') = Len(rtp) - 1 /\ Len(rtp) \in Nat
    BY <1>6, TailTyped DEF Lose, TypeInv
  <2> QED
    BY <1>1, <1>6, <2>1 DEF Lose, TypeInv, TypeOK, Queued, receiverVars
<1>7. CASE Tick
  <2>1. /\ queue' \in Seq(Frame) /\ Len(queue') = Len(queue)
        /\ rtp' \in Seq(Frame) /\ Len(rtp') = Len(rtp)
    BY <1>7, OlderFrames DEF Tick, TypeInv
  <2> QED
    BY <1>1, <1>7, <2>1 DEF Tick, TypeInv, TypeOK, Queued
<1>8. CASE Calm
  BY <1>1, <1>8 DEF Calm, TypeInv, TypeOK, Queued, receiverVars
<1>9. CASE UNCHANGED vars
  BY <1>9 DEF vars, senderVars, receiverVars, TypeInv, TypeOK, Queued
<1> QED
  BY <1>2, <1>3, <1>4, <1>5, <1>6, <1>7, <1>8, <1>9 DEF Next

LEMMA TypeInvariant == Spec => []TypeInv
<1>1. Init => TypeInv
  <2> SUFFICES ASSUME Init PROVE TypeInv
    OBVIOUS
  <2>1. FrameSize * Len(queue) = 0 /\ queue \in Seq(Frame) /\ rtp \in Seq(Frame)
    <3>1. queue = <<>> /\ rtp = <<>> /\ Len(queue) = 0
      BY DEF Init
    <3> QED
      BY <3>1, MediaFlowAssumption
  <2>2. SeqSize \in Nat /\ SeqSize > 1 /\ MaxGaps \in Nat
    BY MediaFlowAssumption
  <2>3. Len(rtp) = 0
    BY DEF Init
  <2>4. Queued <= Limit /\ Len(rtp) <= 1
    BY <2>1, <2>3 DEF Queued, Limit
  <2>5. next_sequence \in 0 .. (SeqSize - 1) /\ sequence \in 0 .. (SeqSize - 1)
    BY <2>2 DEF Init
  <2>6. gaps \in 0 .. MaxGaps
    <3>1. gaps = 0
      BY DEF Init
    <3> QED
      BY <2>2, <3>1
  <2>8. calm \in BOOLEAN
    BY Zenon DEF Init
  <2>7. quality \in Qualities /\ remote.quality \in Qualities
    BY DEF Init, Qualities
  <2> QED
    BY <2>1, <2>4, <2>5, <2>6, <2>7, <2>8 DEF TypeInv, TypeOK
<1>2. TypeInv /\ QualityInv' /\ [Next]_vars => TypeInv'
  BY TypeStep
<1> QED
  BY <1>1, <1>2, QualityInvariant, PTL DEF Spec

\* Every reachable state is well typed; in particular the WebSocket never holds more
\* live audio than its limit, for frames of any size and any rates.
THEOREM MediaFlowTypeCorrect == Spec => []TypeOK
<1>1. TypeInv => TypeOK
  BY DEF TypeInv
<1> QED
  BY <1>1, TypeInvariant, PTL

-----------------------------------------------------------------------------
(* The losses *)

Half == SeqSize \div 2

\* The subscriber is less than half of the numbers behind, and every frame under way
\* too; once the network is good there is one at most, the newest, not yet taken.
FlowInv ==
    /\ Behind <= Half - 1
    /\ \A f \in Frames : Advance(f.seq, next_sequence) \in 1 .. Half
    /\ LossesCounted
    /\ ~calm => missing <= MaxMissing
    /\ calm =>
         /\ missing <= MaxMissing + Len(queue) + Len(rtp)
         /\ Len(queue) + Len(rtp) <= 1
         /\ \A f \in Frames : Advance(f.seq, next_sequence) = 1 /\ Behind > 0

\* Residues of numbers that wrapped once at most.
LEMMA Wrapped ==
  ASSUME NEW n \in Nat, n > 0
  PROVE  /\ n % n = 0
         /\ \A a \in 0 .. (n - 1) : a % n = a
         /\ \A a \in (-n) .. (-1) : a % n = a + n
OBVIOUS

LEMMA Sizes ==
  /\ SeqSize \in Nat /\ SeqSize > 4
  /\ Half \in Nat /\ Half >= 2 /\ 2 * Half <= SeqSize /\ SeqSize <= 2 * Half + 1
  /\ FrameSize \in 1 .. 4 /\ MaxGaps \in Nat /\ MaxMissing \in Nat
<1>1. SeqSize \in Nat /\ SeqSize > 2 * (MaxLost + 2) /\ MaxLost \in Nat
  BY MediaFlowAssumption
<1> QED
  BY <1>1, MediaFlowAssumption DEF Half

LEMMA AdvanceIs ==
  ASSUME NEW s \in 0 .. (SeqSize - 1), NEW t \in 0 .. (SeqSize - 1)
  PROVE  Advance(s, t) = IF s <= t THEN t - s ELSE t - s + SeqSize
<1>1. SeqSize \in Nat /\ SeqSize > 0
  BY Sizes
<1>2. CASE s <= t
  <2>1. t - s \in 0 .. (SeqSize - 1)
    BY <1>1, <1>2
  <2> QED
    BY <1>1, <1>2, <2>1, Wrapped DEF Advance
<1>3. CASE ~(s <= t)
  <2>1. t - s \in (-SeqSize) .. (-1)
    BY <1>1, <1>3
  <2> QED
    BY <1>1, <1>3, <2>1, Wrapped DEF Advance
<1> QED
  BY <1>2, <1>3

LEMMA BehindIs ==
  ASSUME NEW s \in 0 .. (SeqSize - 1), NEW t \in 0 .. (SeqSize - 1)
  PROVE  Advance(s, t - 1) = IF s < t THEN t - 1 - s ELSE t - 1 - s + SeqSize
<1>1. SeqSize \in Nat /\ SeqSize > 0
  BY Sizes
<1>2. Advance(s, t - 1) = (t - 1 - s) % SeqSize
  BY DEF Advance
<1>3. CASE s < t
  <2>1. t - 1 - s \in 0 .. (SeqSize - 1)
    BY <1>1, <1>3
  <2> QED
    BY <1>1, <1>2, <1>3, <2>1, Wrapped
<1>4. CASE ~(s < t)
  <2>1. t - 1 - s \in (-SeqSize) .. (-1)
    BY <1>1, <1>4
  <2> QED
    BY <1>1, <1>2, <1>4, <2>1, Wrapped
<1> QED
  BY <1>3, <1>4

\* A frame that is newer than the last accepted divides what the subscriber is behind.
LEMMA FrameBetween ==
  ASSUME TypeOK, NEW f \in Frame, Behind <= Half - 1,
         Advance(f.seq, next_sequence) \in 1 .. Half
  PROVE  /\ Newer(sequence, f.seq) =>
               Behind = Advance(sequence, f.seq) + Advance(f.seq, next_sequence) - 1
         /\ Advance(f.seq, next_sequence) = 1 /\ Behind > 0 => Newer(sequence, f.seq)
<1>1. /\ sequence \in 0 .. (SeqSize - 1)
      /\ next_sequence \in 0 .. (SeqSize - 1)
      /\ f.seq \in 0 .. (SeqSize - 1)
  BY DEF TypeOK, Frame
<1>2. /\ Advance(sequence, f.seq)
           = IF sequence <= f.seq THEN f.seq - sequence ELSE f.seq - sequence + SeqSize
      /\ Advance(f.seq, next_sequence)
           = IF f.seq <= next_sequence THEN next_sequence - f.seq
             ELSE next_sequence - f.seq + SeqSize
  BY <1>1, AdvanceIs
<1>3. Behind = IF sequence < next_sequence THEN next_sequence - 1 - sequence
               ELSE next_sequence - 1 - sequence + SeqSize
  BY <1>1, BehindIs DEF Behind
<1>4. Newer(sequence, f.seq) <=> Advance(sequence, f.seq) \in 1 .. (Half - 1)
  BY DEF Newer, Half
<1> HIDE DEF Half
<1> QED
  BY <1>1, <1>2, <1>3, <1>4, Sizes

\* The frames under way, as a queue is added to, taken from, and grows older.
LEMMA QueueFrames ==
  ASSUME NEW q \in Seq(Frame)
  PROVE  /\ Range(q) \subseteq Frame
         /\ \A f \in Frame : Range(Append(q, f)) = Range(q) \cup {f}
         /\ q # <<>> => Head(q) \in Range(q) /\ Range(Tail(q)) \subseteq Range(q)
         /\ Len(q) \in Nat
         /\ Len(q) = 0 <=> q = <<>>
         /\ q = <<>> <=> Range(q) = {}
<1> USE DEF Range
<1>1. Range(q) \subseteq Frame
  OBVIOUS
<1>2. ASSUME NEW f \in Frame
      PROVE  Range(Append(q, f)) = Range(q) \cup {f}
  <2>1. /\ DOMAIN q = 1 .. Len(q) /\ Len(q) \in Nat
        /\ DOMAIN Append(q, f) = 1 .. (Len(q) + 1)
        /\ \A i \in 1 .. Len(q) : Append(q, f)[i] = q[i]
        /\ Append(q, f)[Len(q) + 1] = f
    OBVIOUS
  <2>2. Range(q) \cup {f} \subseteq Range(Append(q, f))
    <3>1. Len(q) + 1 \in DOMAIN Append(q, f)
      BY <2>1
    <3>2. \A i \in 1 .. Len(q) : i \in DOMAIN Append(q, f)
      BY <2>1
    <3> QED
      BY <2>1, <3>1, <3>2
  <2>3. Range(Append(q, f)) \subseteq Range(q) \cup {f}
    <3>1. \A i \in 1 .. (Len(q) + 1) : i \in 1 .. Len(q) \/ i = Len(q) + 1
      BY <2>1
    <3> QED
      BY <2>1, <3>1
  <2> QED
    BY <2>2, <2>3
<1>3. ASSUME q # <<>>
      PROVE  Head(q) \in Range(q) /\ Range(Tail(q)) \subseteq Range(q)
  <2>1. /\ DOMAIN q = 1 .. Len(q) /\ Len(q) \in Nat /\ Len(q) > 0
        /\ Head(q) = q[1]
        /\ DOMAIN Tail(q) = 1 .. (Len(q) - 1)
        /\ \A i \in 1 .. (Len(q) - 1) : Tail(q)[i] = q[i + 1]
    BY <1>3
  <2>2. \A i \in 1 .. (Len(q) - 1) : i + 1 \in DOMAIN q
    BY <2>1
  <2>3. 1 \in DOMAIN q
    BY <2>1
  <2> QED
    BY <2>1, <2>2, <2>3
<1>4. Len(q) \in Nat /\ (Len(q) = 0 <=> q = <<>>)
  OBVIOUS
<1>5. q = <<>> <=> Range(q) = {}
  <2>1. DOMAIN q = 1 .. Len(q)
    OBVIOUS
  <2>2. Len(q) > 0 => 1 \in DOMAIN q
    BY <1>4, <2>1
  <2> QED
    BY <1>4, <2>1, <2>2
<1> QED
  BY <1>1, <1>2, <1>3, <1>4, <1>5

LEMMA OlderSame ==
  ASSUME NEW q \in Seq(Frame),
         NEW p, p = [i \in DOMAIN q |-> [q[i] EXCEPT !.age = @ + 1]]
  PROVE  \A f \in Range(p) : \E g \in Range(q) : f.seq = g.seq
<1> SUFFICES ASSUME NEW f \in Range(p)
             PROVE  \E g \in Range(q) : f.seq = g.seq
  OBVIOUS
<1>1. PICK i \in DOMAIN p : f = p[i]
  BY Zenon DEF Range
<1>2. i \in DOMAIN q /\ q[i] \in Frame
  BY <1>1
<1>3. p[i].seq = q[i].seq
  BY <1>2 DEF Frame
<1>4. q[i] \in Range(q)
  BY <1>2, Zenon DEF Range
<1> QED
  BY <1>1, <1>3, <1>4, Zenon

\* Numbering a frame, which is put under way or dropped.
LEMMA NumberFlows ==
  ASSUME TypeInv, TypeOK', FlowInv, Number, UNCHANGED <<sequence, gaps, calm>>,
         Frames' = Frames \cup {NextFrame} \/ (Frames' = Frames /\ ~calm),
         calm => Len(queue') + Len(rtp') = 1
  PROVE  FlowInv'
<1>1. /\ next_sequence \in 0 .. (SeqSize - 1)
      /\ next_sequence' \in 0 .. (SeqSize - 1)
      /\ sequence \in 0 .. (SeqSize - 1)
      /\ gaps \in Nat
  BY Sizes DEF TypeInv, TypeOK
<1>2. next_sequence' = IF next_sequence = SeqSize - 1 THEN 0 ELSE next_sequence + 1
  <2>1. next_sequence' = (next_sequence + 1) % SeqSize
    BY DEF Number
  <2>2. CASE next_sequence = SeqSize - 1
    <3>1. next_sequence + 1 = SeqSize
      BY <1>1, <2>2, Sizes
    <3> QED
      BY <2>1, <2>2, <3>1, Sizes, Wrapped
  <2>3. CASE next_sequence # SeqSize - 1
    <3>1. next_sequence + 1 \in 0 .. (SeqSize - 1)
      BY <1>1, <2>3, Sizes
    <3> QED
      BY <2>1, <2>3, <3>1, Sizes, Wrapped
  <2> QED
    BY <2>2, <2>3
<1>3. /\ Behind < Half - 1
      /\ \A f \in Frames : Advance(f.seq, next_sequence) < Half
      /\ IF calm THEN Frames = {} ELSE missing < MaxMissing
      /\ missing' = missing + 1
  BY DEF Number, Distinguishable, Half
<1> HIDE DEF Half
<1>4. Behind \in Nat /\ Behind' = Behind + 1
  <2>0. UNCHANGED sequence /\ sequence' \in 0 .. (SeqSize - 1)
    BY <1>1
  <2>1. Behind = IF sequence < next_sequence THEN next_sequence - 1 - sequence
                 ELSE next_sequence - 1 - sequence + SeqSize
    BY <1>1, BehindIs DEF Behind
  <2>2. Behind' = IF sequence' < next_sequence' THEN next_sequence' - 1 - sequence'
                  ELSE next_sequence' - 1 - sequence' + SeqSize
    BY <1>1, BehindIs DEF Behind
  <2> QED
    BY <1>1, <1>2, <1>3, <2>0, <2>1, <2>2, Sizes
<1>5. NextFrame.seq = next_sequence
  BY DEF NextFrame
<1>6. Advance(next_sequence, next_sequence') = 1
  BY <1>1, <1>2, AdvanceIs, Sizes
<1>7. ASSUME NEW f \in Frames
      PROVE  Advance(f.seq, next_sequence') \in 1 .. Half
  <2>1. f \in Frame
    BY QueueFrames DEF TypeInv, Frames
  <2>2. f.seq \in 0 .. (SeqSize - 1)
    BY <2>1 DEF Frame
  <2>3. Advance(f.seq, next_sequence) \in 1 .. Half /\ Advance(f.seq, next_sequence) < Half
    BY <1>3 DEF FlowInv
  <2>4. Advance(f.seq, next_sequence) = IF f.seq <= next_sequence THEN next_sequence - f.seq
                                        ELSE next_sequence - f.seq + SeqSize
    BY <1>1, <2>2, AdvanceIs
  <2>5. Advance(f.seq, next_sequence') = IF f.seq <= next_sequence' THEN next_sequence' - f.seq
                                         ELSE next_sequence' - f.seq + SeqSize
    BY <1>1, <2>2, AdvanceIs
  <2> QED
    BY <1>1, <1>2, <2>2, <2>3, <2>4, <2>5, Sizes
<1>8. Behind' <= Half - 1
  BY <1>3, <1>4, Sizes
<1>9. \A f \in Frames' : Advance(f.seq, next_sequence') \in 1 .. Half
  BY <1>5, <1>6, <1>7, Sizes
<1>10. LossesCounted' /\ missing \in Nat
  BY <1>1, <1>3, <1>4 DEF LossesCounted, FlowInv
<1>11. ~calm' => missing' <= MaxMissing
  BY <1>3, <1>10, Sizes
<1>12. ASSUME calm'
       PROVE  /\ missing' <= MaxMissing + Len(queue') + Len(rtp')
              /\ Len(queue') + Len(rtp') <= 1
              /\ \A f \in Frames' : Advance(f.seq, next_sequence') = 1 /\ Behind' > 0
  <2>1. Frames = {} /\ calm
    BY <1>3, <1>12
  <2>2. Len(queue) = 0 /\ Len(rtp) = 0
    BY <2>1, QueueFrames DEF Frames, TypeInv
  <2>3. missing <= MaxMissing
    BY <2>1, <2>2, Sizes DEF FlowInv
  <2>4. Frames' \subseteq {NextFrame}
    BY <2>1
  <2>5. Len(queue') + Len(rtp') = 1
    BY <2>1
  <2>6. missing' <= MaxMissing + (Len(queue') + Len(rtp'))
    BY <1>3, <1>10, <2>3, <2>5, Sizes
  <2>7. \A f \in Frames' : Advance(f.seq, next_sequence') = 1 /\ Behind' > 0
    BY <1>4, <1>5, <1>6, <2>4
  <2>8. Len(queue') \in Nat /\ Len(rtp') \in Nat
    BY <2>5 DEF TypeOK
  <2> QED
    BY <2>5, <2>6, <2>7, <2>8, Sizes
<1> QED
  BY <1>8, <1>9, <1>10, <1>11, <1>12 DEF FlowInv, Half

\* What the subscriber accepts, and counts as lost, it is no longer behind.
LEMMA ObserveFlows ==
  ASSUME TypeInv, TypeInv', FlowInv, MaxMissing <= MaxGaps, NEW f \in Frames, Observe(f),
         UNCHANGED <<next_sequence, calm>>, Frames' \subseteq Frames,
         Len(queue') + Len(rtp') = Len(queue) + Len(rtp) - 1
  PROVE  FlowInv'
<1>1. /\ f \in Frame
      /\ gaps \in Nat /\ MaxGaps \in Nat /\ MaxMissing \in Nat
      /\ sequence \in 0 .. (SeqSize - 1) /\ next_sequence \in 0 .. (SeqSize - 1)
      /\ f.seq \in 0 .. (SeqSize - 1)
  <2>1. f \in Frame
    BY QueueFrames DEF TypeInv, Frames
  <2>2. gaps \in Nat /\ MaxGaps \in Nat /\ MaxMissing \in Nat
    BY Sizes DEF TypeInv, TypeOK
  <2>3. sequence \in 0 .. (SeqSize - 1) /\ next_sequence \in 0 .. (SeqSize - 1)
    BY DEF TypeInv, TypeOK
  <2> QED
    BY <2>1, <2>2, <2>3 DEF Frame
<1> DEFINE ahead == Advance(sequence, f.seq)
           left == Advance(f.seq, next_sequence)
<1>2. left \in 1 .. Half
  BY DEF FlowInv
<1>3. /\ Newer(sequence, f.seq) => Behind = ahead + left - 1
      /\ left = 1 /\ Behind > 0 => Newer(sequence, f.seq)
  BY <1>1, <1>2, FrameBetween DEF FlowInv, TypeInv
<1>4. /\ Len(queue) \in Nat /\ Len(rtp) \in Nat
      /\ Len(queue) + Len(rtp) > 0
      /\ Len(queue') \in Nat /\ Len(rtp') \in Nat
  <2>1. Len(queue) \in Nat /\ Len(rtp) \in Nat /\ (queue # <<>> \/ rtp # <<>>)
    BY QueueFrames DEF TypeInv, Frames
  <2>2. Len(queue) > 0 \/ Len(rtp) > 0
    BY <2>1, QueueFrames DEF TypeInv
  <2>3. Len(queue') \in Nat /\ Len(rtp') \in Nat
    BY DEF TypeInv
  <2> QED
    BY <2>1, <2>2, <2>3
<1>5. Behind \in Nat
  <2>1. Behind = IF sequence < next_sequence THEN next_sequence - 1 - sequence
                 ELSE next_sequence - 1 - sequence + SeqSize
    BY <1>1, BehindIs DEF Behind
  <2> QED
    BY <1>1, <2>1, Sizes
<1>6. /\ missing = gaps + Behind
      /\ missing <= MaxMissing + (IF calm THEN 1 ELSE 0)
      /\ calm => Len(queue) + Len(rtp) = 1
  <2>1. missing = gaps + Behind
    BY DEF FlowInv, LossesCounted
  <2>2. CASE calm
    <3>1. missing <= MaxMissing + Len(queue) + Len(rtp) /\ Len(queue) + Len(rtp) <= 1
      BY <2>2 DEF FlowInv
    <3> QED
      BY <1>1, <1>4, <2>1, <2>2, <3>1
  <2>3. CASE ~calm
    BY <1>1, <2>1, <2>3 DEF FlowInv
  <2> QED
    BY <2>1, <2>2, <2>3
<1>7. /\ \A g \in Frames' : Advance(g.seq, next_sequence') \in 1 .. Half
      /\ calm' => Len(queue') + Len(rtp') = 0 /\ Frames' = {}
  <2>1. \A g \in Frames' : Advance(g.seq, next_sequence') \in 1 .. Half
    BY DEF FlowInv
  <2>2. ASSUME calm'
        PROVE  Len(queue') + Len(rtp') = 0 /\ Frames' = {}
    <3>1. Len(queue') + Len(rtp') = 0
      BY <1>4, <1>6, <2>2
    <3>2. Len(queue') = 0 /\ Len(rtp') = 0
      BY <1>4, <3>1
    <3>3. queue' \in Seq(Frame) /\ rtp' \in Seq(Frame)
      BY DEF TypeInv
    <3>4. Range(queue') = {} /\ Range(rtp') = {}
      BY <3>2, <3>3, QueueFrames
    <3> QED
      BY <3>1, <3>4 DEF Frames
  <2> QED
    BY <2>1, <2>2
<1>8. CASE Newer(sequence, f.seq)
  <2>1. ahead \in 1 .. (Half - 1) /\ Behind = ahead + left - 1
    BY <1>3, <1>8 DEF Newer, Half
  <2>2. Gap(f) = ahead - 1
    BY DEF Gap
  <2>3. Least(gaps + Gap(f), MaxGaps) = gaps + ahead - 1
    <3>1. gaps + ahead - 1 <= MaxGaps
      <4> HIDE DEF ahead, left
      <4>1. missing = gaps + (ahead + left - 1) /\ missing <= MaxMissing + 1
        BY <1>1, <1>2, <1>5, <1>6, <2>1, Sizes
      <4>2. left >= 1 /\ left \in Int /\ ahead \in Int /\ MaxMissing <= MaxGaps
        BY <1>2, <2>1, Sizes
      <4>3. gaps \in Int /\ MaxMissing \in Int /\ MaxGaps \in Int
        BY <1>1
      <4> QED
        BY <4>1, <4>2, <4>3
    <3>2. gaps + Gap(f) = gaps + ahead - 1 /\ gaps + ahead - 1 \in Int
      BY <1>1, <2>1, <2>2, Sizes
    <3> QED
      BY <1>1, <3>1, <3>2 DEF Least
  <2>4. /\ sequence' = f.seq
        /\ \/ gaps' = 0 /\ missing' = missing - 1 - (gaps + ahead - 1)
           \/ gaps' = gaps + ahead - 1 /\ missing' = missing - 1
    <3>1. Accept(f)
      BY <1>8 DEF Observe
    <3> HIDE DEF ahead
    <3> QED
      BY <1>1, <1>6, <2>3, <3>1 DEF Accept
  <2>5. Behind' = left - 1
    <3>1. Behind' = Advance(f.seq, next_sequence - 1)
      BY <2>4 DEF Behind
    <3>2. Advance(f.seq, next_sequence - 1)
             = IF f.seq < next_sequence THEN next_sequence - 1 - f.seq
               ELSE next_sequence - 1 - f.seq + SeqSize
      BY <1>1, BehindIs
    <3>3. left = IF f.seq <= next_sequence THEN next_sequence - f.seq
                 ELSE next_sequence - f.seq + SeqSize
      BY <1>1, AdvanceIs
    <3>4. left >= 1 /\ left <= SeqSize - 1
      BY <1>2, Sizes
    <3>5. SeqSize \in Nat
      BY Sizes
    <3>6. f.seq \in Int /\ next_sequence \in Int
      BY <1>1, <3>5
    <3> HIDE DEF left
    <3>7. CASE f.seq < next_sequence
      BY <3>1, <3>2, <3>3, <3>6, <3>7
    <3>8. CASE f.seq > next_sequence
      BY <3>1, <3>2, <3>3, <3>5, <3>6, <3>8
    <3>9. f.seq # next_sequence
      BY <3>3, <3>4, <3>6
    <3> QED
      BY <3>6, <3>7, <3>8, <3>9
  <2> HIDE DEF ahead, left, Half
  <2>6. missing' = gaps' + Behind'
    BY <1>1, <1>2, <1>5, <1>6, <2>1, <2>4, <2>5, Sizes
  <2>7. Behind' <= Half - 1
    BY <1>2, <2>5, Sizes
  <2>8. missing' <= MaxMissing
    BY <1>1, <1>2, <1>5, <1>6, <2>1, <2>4, Sizes
  <2>9. calm' => missing' <= MaxMissing + Len(queue') + Len(rtp')
    BY <1>1, <1>4, <1>7, <2>8
  <2>10. calm' => Len(queue') + Len(rtp') <= 1 /\ Frames' = {}
    BY <1>7
  <2> QED
    BY <1>7, <2>6, <2>7, <2>8, <2>9, <2>10 DEF FlowInv, LossesCounted
<1>9. CASE ~Newer(sequence, f.seq)
  <2>1. UNCHANGED <<sequence, gaps, missing>>
    BY <1>9 DEF Observe, receiverVars
  <2>2. Behind' = Behind
    BY <2>1 DEF Behind
  <2>3. ~calm
    BY <1>3, <1>9 DEF FlowInv
  <2> HIDE DEF left, ahead, Half
  <2> QED
    BY <1>7, <2>1, <2>2, <2>3 DEF FlowInv, LossesCounted
<1> QED
  BY <1>8, <1>9

LEMMA FlowStep ==
  ASSUME TypeInv, TypeInv', FlowInv, MaxMissing <= MaxGaps, [Next]_vars
  PROVE  FlowInv'
<1>0. /\ queue \in Seq(Frame) /\ rtp \in Seq(Frame) /\ TypeOK /\ TypeOK'
      /\ Len(queue) \in Nat /\ Len(rtp) \in Nat
  BY QueueFrames DEF TypeInv
<1>1. CASE Broadcast \/ SendFrame
  <2>1. Number /\ Enqueue /\ UNCHANGED <<rtp, sequence, gaps, calm>>
    BY <1>1 DEF Broadcast, SendFrame, receiverVars
  <2>2. NextFrame \in Frame
    BY <2>1, NumberTyped
  <2>3. CASE Queued <= Limit - FrameSize /\ queue' = Append(queue, NextFrame)
    <3>1. Range(queue') = Range(queue) \cup {NextFrame} /\ Len(queue') = Len(queue) + 1
      BY <1>0, <2>2, <2>3, QueueFrames
    <3>2. Frames' = Frames \cup {NextFrame}
      BY <2>1, <3>1 DEF Frames
    <3>3. calm => Len(queue') + Len(rtp') = 1
      <4>1. calm => queue = <<>> /\ rtp = <<>>
        BY <1>0, <2>1, QueueFrames DEF Number, Frames
      <4> QED
        BY <2>1, <3>1, <4>1
    <3> QED
      BY <1>0, <2>1, <3>2, <3>3, NumberFlows
  <2>4. CASE Queued > Limit - FrameSize /\ UNCHANGED queue
    <3>1. ~calm
      <4>1. calm => queue = <<>>
        BY <1>0, <2>1, QueueFrames DEF Number, Frames
      <4>2. queue = <<>> => Queued = 0
        BY Sizes DEF Queued
      <4> QED
        BY <2>4, <4>1, <4>2, Sizes DEF Limit
    <3>2. Frames' = Frames
      BY <2>1, <2>4 DEF Frames
    <3> QED
      BY <1>0, <2>1, <3>1, <3>2, NumberFlows
  <2> QED
    BY <2>1, <2>3, <2>4 DEF Enqueue
<1>2. CASE SendByRtp
  <2>1. /\ Number /\ rtp = <<>> /\ rtp' = <<NextFrame>>
        /\ UNCHANGED <<queue, sequence, gaps, calm>>
    BY <1>2 DEF SendByRtp, receiverVars
  <2>2. NextFrame \in Frame
    BY <2>1, NumberTyped
  <2>3. Range(rtp) = {} /\ Range(rtp') = {NextFrame} /\ Len(rtp') = 1
    BY <2>1 DEF Range
  <2>4. Frames' = Frames \cup {NextFrame}
    BY <2>1, <2>3 DEF Frames
  <2>5. calm => Len(queue') + Len(rtp') = 1
    <3>1. calm => queue = <<>>
      BY <1>0, <2>1, QueueFrames DEF Number, Frames
    <3> QED
      BY <2>1, <2>3, <3>1
  <2> QED
    BY <1>0, <2>1, <2>4, <2>5, NumberFlows
<1>3. CASE Arrive
  <2>1. /\ queue # <<>> /\ queue' = Tail(queue) /\ Observe(Head(queue))
        /\ UNCHANGED <<next_sequence, rtp, calm>>
    BY <1>3 DEF Arrive
  <2>2. /\ Head(queue) \in Frames /\ Frames' \subseteq Frames
        /\ Len(queue') = Len(queue) - 1
    BY <1>0, <2>1, QueueFrames, TailTyped DEF Frames
  <2>3. Len(queue') + Len(rtp') = Len(queue) + Len(rtp) - 1
    BY <1>0, <2>1, <2>2
  <2> QED
    BY <1>0, <2>1, <2>2, <2>3, ObserveFlows
<1>4. CASE ArriveByRtp
  <2>1. /\ rtp # <<>> /\ rtp' = Tail(rtp) /\ Observe(Head(rtp))
        /\ UNCHANGED <<next_sequence, queue, calm>>
    BY <1>4 DEF ArriveByRtp
  <2>2. /\ Head(rtp) \in Frames /\ Frames' \subseteq Frames
        /\ Len(rtp') = Len(rtp) - 1
    BY <1>0, <2>1, QueueFrames, TailTyped DEF Frames
  <2>3. Len(queue') + Len(rtp') = Len(queue) + Len(rtp) - 1
    BY <1>0, <2>1, <2>2
  <2> QED
    BY <1>0, <2>1, <2>2, <2>3, ObserveFlows
<1>5. CASE Lose
  <2>1. /\ ~calm /\ rtp # <<>> /\ rtp' = Tail(rtp)
        /\ UNCHANGED <<next_sequence, queue, sequence, gaps, missing, calm>>
    BY <1>5 DEF Lose, receiverVars
  <2>2. Frames' \subseteq Frames
    BY <1>0, <2>1, QueueFrames DEF Frames
  <2>3. Behind' = Behind
    BY <2>1 DEF Behind
  <2> QED
    BY <2>1, <2>2, <2>3 DEF FlowInv, LossesCounted
<1>6. CASE Tick
  <2>1. UNCHANGED <<next_sequence, sequence, gaps, missing, calm>>
    BY <1>6 DEF Tick
  <2>2. \A f \in Frames' : \E g \in Frames : f.seq = g.seq
    <3>1. /\ queue' = [i \in DOMAIN queue |-> [queue[i] EXCEPT !.age = @ + 1]]
          /\ rtp' = [i \in DOMAIN rtp |-> [rtp[i] EXCEPT !.age = @ + 1]]
      BY <1>6 DEF Tick
    <3>2. \A f \in Range(queue') : \E g \in Range(queue) : f.seq = g.seq
      BY <1>0, <3>1, OlderSame
    <3>3. \A f \in Range(rtp') : \E g \in Range(rtp) : f.seq = g.seq
      BY <1>0, <3>1, OlderSame
    <3> QED
      BY <3>2, <3>3, Zenon DEF Frames
  <2>3. Len(queue') = Len(queue) /\ Len(rtp') = Len(rtp)
    BY <1>0, <1>6, OlderFrames DEF Tick
  <2>4. Behind' = Behind
    BY <2>1 DEF Behind
  <2> QED
    BY <2>1, <2>2, <2>3, <2>4 DEF FlowInv, LossesCounted
<1>7. CASE Calm
  <2>1. /\ ~calm /\ queue = <<>> /\ rtp = <<>>
        /\ UNCHANGED <<next_sequence, queue, rtp, sequence, gaps, missing>>
    BY <1>7 DEF Calm, receiverVars
  <2>2. Frames' = {} /\ Len(queue') = 0 /\ Len(rtp') = 0
    BY <2>1 DEF Frames, Range
  <2>3. Behind' = Behind
    BY <2>1 DEF Behind
  <2>4. missing' \in Int
    <3>1. gaps \in Int
      BY Sizes DEF TypeInv, TypeOK
    <3>2. sequence \in 0 .. (SeqSize - 1) /\ next_sequence \in 0 .. (SeqSize - 1)
      BY <1>0 DEF TypeOK
    <3>3. Behind \in Int
      BY <3>2, BehindIs, Sizes DEF Behind
    <3> QED
      BY <2>1, <3>1, <3>3 DEF FlowInv, LossesCounted
  <2>5. missing' <= MaxMissing + Len(queue') + Len(rtp') /\ Len(queue') + Len(rtp') <= 1
    BY <2>1, <2>2, <2>4, Sizes DEF FlowInv
  <2> QED
    BY <2>1, <2>2, <2>3, <2>5 DEF FlowInv, LossesCounted
<1>8. CASE UNCHANGED vars
  <2>1. UNCHANGED <<next_sequence, queue, rtp, sequence, gaps, missing, calm>>
    BY <1>8 DEF vars, receiverVars
  <2> QED
    BY <2>1 DEF FlowInv, LossesCounted, Behind, Frames
<1> QED
  BY <1>1, <1>2, <1>3, <1>4, <1>5, <1>6, <1>7, <1>8 DEF Next

\* Every frame numbered is accepted, counted as lost in one report, or still ahead of
\* the subscriber, for any range of numbers and whatever is dropped, lost or
\* overtaken, as long as no more frames are missing between two reports than the
\* code counts up to.
THEOREM LossesAreCounted ==
  ASSUME MaxMissing <= MaxGaps
  PROVE  Spec => []LossesCounted
<1>1. Init => FlowInv
  <2> SUFFICES ASSUME Init PROVE FlowInv
    OBVIOUS
  <2>1. /\ next_sequence = 1 /\ sequence = 0 /\ gaps = 0 /\ missing = 0 /\ calm = FALSE
        /\ queue = <<>> /\ rtp = <<>>
    BY DEF Init
  <2>2. Frames = {}
    BY <2>1 DEF Frames, Range
  <2>3. Behind = 0
    <3>1. 0 \in 0 .. (SeqSize - 1) /\ 1 \in 0 .. (SeqSize - 1)
      BY Sizes
    <3> QED
      BY <2>1, <3>1, BehindIs DEF Behind
  <2> QED
    BY <2>1, <2>2, <2>3, Sizes DEF FlowInv, LossesCounted
<1>2. FlowInv /\ TypeInv /\ TypeInv' /\ [Next]_vars => FlowInv'
  BY FlowStep
<1>3. FlowInv => LossesCounted
  BY DEF FlowInv
<1> QED
  BY <1>1, <1>2, <1>3, TypeInvariant, PTL DEF Spec
=============================================================================
