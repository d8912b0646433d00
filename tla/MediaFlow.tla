------------------------------- MODULE MediaFlow -------------------------------
(***************************************************************************)
(* One audio stream to one subscriber: frames are numbered, dropped before *)
(* a queue that is too full, and sent by the WebSocket or, while it is     *)
(* attached, by RTP, which may lose them; the subscriber notes what is     *)
(* missing and late, and reports it; from the reports, its own queue and   *)
(* the round trips the sender derives the quality to encode with.          *)
(*                                                                         *)
(* Sizes are in quarters of the limit for live audio, times in ticks; both *)
(* clocks tick alike.  A frame number is a residue: it wraps.  A report    *)
(* arrives at once or is lost.  Setup frames, other messages in the queue, *)
(* hints to the program and what the decoder is told are left out.         *)
(***************************************************************************)
EXTENDS Integers, SequencesExt

CONSTANTS
    SeqSize,            \* frame numbers; 2^32 in the code
    FrameSize,          \* of an audio frame, in quarters of the limit
    MaxGaps,            \* 10000
    LateTime,           \* 50 ms
    VeryLateTime,       \* 150 ms
    SustainedTime,      \* 500 ms
    ReportTime,         \* 1 s
    HoldTime,           \* 5 s
    FeedbackTime,       \* 10 s
    MaxDelay,           \* bound: ticks that a frame is under way
    MaxLost,            \* bound: frames that RTP loses in a row
    MaxMissing          \* bound: frames missing before the next report

ASSUME MediaFlowAssumption ==
    /\ SeqSize \in Nat /\ SeqSize > 2 * (MaxLost + 2)
    /\ FrameSize \in 1 .. 4
    /\ {MaxGaps, LateTime, VeryLateTime, SustainedTime, ReportTime, HoldTime,
        FeedbackTime, MaxDelay, MaxLost, MaxMissing} \subseteq Nat

VARIABLES
    next_sequence,      \* media_tx_sequences[stream] of the sender
    queue,              \* the frames in the WebSocket
    rtp,                \* the frames that RTP carries
    quality,
    healthy_for,        \* since healthy_since
    tx_bad_for,         \* since tx_bad_since
    remote,             \* the last report, and its age
    sequence,           \* the subscriber: last frame accepted
    base,               \* arrival_origin - source_origin
    gaps,
    bad_for,            \* since last_bad
    rx_bad_for,         \* since rx_bad_since
    report_for,         \* since report_at
    missing,            \* history: frames numbered, not accepted, not reported
    since_drop,         \* history: ticks since the quality was lowered
    calm                \* history: has the network become good for good?

senderVars == <<quality, healthy_for, tx_bad_for, since_drop>>
receiverVars == <<sequence, base, gaps, bad_for, rx_bad_for, report_for>>
vars == <<next_sequence, queue, rtp, senderVars, remote, receiverVars, missing, calm>>

-----------------------------------------------------------------------------
Unset == -1

Least(a, b) == IF a < b THEN a ELSE b

Most(a, b) == IF a < b THEN b ELSE a

Qualities == {50, 75, 100}

Limit == 4

Queued == FrameSize * Len(queue)

Advance(s, t) == (t - s) % SeqSize

\* Frames numbered after the last one accepted.
Behind == Advance(sequence, next_sequence - 1)

Frames == Range(queue) \cup Range(rtp)

\* Bug: numbers are compared as if they did not wrap.
NewerNumber(s, t) == t > s

\* Newer, by less than half of the numbers.
Newer(s, t) == Advance(s, t) \in 1 .. (SeqSize \div 2 - 1)

\* ... and of those the frames that never arrive.
Lost == Behind - Cardinality({f \in Frames : Newer(sequence, f.seq)})

\* No frame is so old that its number could be taken for a new one.
Distinguishable ==
    /\ Behind < SeqSize \div 2 - 1
    /\ \A f \in Frames : Advance(f.seq, next_sequence) < SeqSize \div 2

-----------------------------------------------------------------------------
(* The sender *)

\* rr_media_quality: what the queue, the round trips (as smoothed over their base,
\* and bad for the given time) and the last report allow.
Desired(rtt, bad) ==
    Least(IF Queued >= Limit \div 2 THEN 50 ELSE IF Queued >= Limit \div 4 THEN 75 ELSE 100,
          Least(IF bad < SustainedTime THEN 100 ELSE IF rtt = "hard" THEN 50 ELSE 75,
                IF remote.age < FeedbackTime THEN remote.quality ELSE 100))

\* Bug: the good time before a drop still counts after it.
AdaptKeepsHealthy(rtt) ==
    LET bad == IF rtt = "good" THEN Unset ELSE Most(tx_bad_for, 0)
        healthy == Most(healthy_for, 0)
    IN  /\ tx_bad_for' = bad
        /\ \/ /\ Desired(rtt, bad) < quality
              /\ quality' = Desired(rtt, bad)
              /\ since_drop' = 0
              /\ UNCHANGED healthy_for
           \/ /\ Desired(rtt, bad) = quality
              /\ healthy_for' = Unset
              /\ UNCHANGED <<quality, since_drop>>
           \/ /\ Desired(rtt, bad) > quality
              /\ quality' = IF healthy >= HoldTime THEN Least(quality + 25, Desired(rtt, bad))
                            ELSE quality
              /\ healthy_for' = IF healthy >= HoldTime THEN 0 ELSE healthy
              /\ UNCHANGED since_drop

\* Bug: the good time begins anew with every frame.
AdaptAnew(rtt) ==
    LET bad == IF rtt = "good" THEN Unset ELSE Most(tx_bad_for, 0)
    IN  /\ tx_bad_for' = bad
        /\ quality' = Least(quality, Desired(rtt, bad))
        /\ since_drop' = IF quality' < quality THEN 0 ELSE since_drop
        /\ healthy_for' = IF Desired(rtt, bad) > quality THEN 0 ELSE Unset

\* Down at once, up by a step when it has been better for long enough.
Adapt(rtt) ==
    LET bad == IF rtt = "good" THEN Unset ELSE Most(tx_bad_for, 0)
        healthy == Most(healthy_for, 0)
    IN  /\ tx_bad_for' = bad
        /\ \/ /\ Desired(rtt, bad) < quality
              /\ quality' = Desired(rtt, bad)
              /\ healthy_for' = Unset
              /\ since_drop' = 0
           \/ /\ Desired(rtt, bad) = quality
              /\ healthy_for' = Unset
              /\ UNCHANGED <<quality, since_drop>>
           \/ /\ Desired(rtt, bad) > quality
              /\ quality' = IF healthy >= HoldTime THEN Least(quality + 25, Desired(rtt, bad))
                            ELSE quality
              /\ healthy_for' = IF healthy >= HoldTime THEN 0 ELSE healthy
              /\ UNCHANGED since_drop

NextFrame == [seq |-> next_sequence, age |-> 0]

\* Every frame is numbered, also one that is then dropped.
Number ==
    /\ Distinguishable
    /\ IF calm THEN Frames = {} ELSE missing < MaxMissing
    /\ next_sequence' = (next_sequence + 1) % SeqSize
    /\ missing' = missing + 1

Enqueue ==
    \/ /\ Queued <= Limit - FrameSize
       /\ queue' = Append(queue, NextFrame)
    \/ /\ Queued > Limit - FrameSize
       /\ Lost < MaxLost
       /\ UNCHANGED queue

\* ws_media_send_frame_filtered, of the library's own channels.
Broadcast ==
    /\ Number
    /\ Enqueue
    /\ UNCHANGED <<rtp, senderVars, remote, receiverVars, calm>>

\* How far the smoothed round trips (rr_media_rtt_sample, of the answers to pings)
\* may be over the shortest one.
RoundTrips == IF calm THEN {"good"} ELSE {"good", "soft", "hard"}

\* ws_send_frame, of a frame that the program encoded and numbered.
SendFrame ==
    /\ Number
    /\ \E rtt \in RoundTrips : Adapt(rtt)
    /\ Enqueue
    /\ UNCHANGED <<rtp, remote, receiverVars, calm>>

\* The program hands the frame to RTP instead.
SendByRtp ==
    /\ Number
    /\ rtp = <<>>
    /\ rtp' = <<NextFrame>>
    /\ UNCHANGED <<queue, senderVars, remote, receiverVars, calm>>

\* rr_media_feedback
Feedback(report) == remote' = [quality |-> report, age |-> 0]

-----------------------------------------------------------------------------
(* The subscriber: rr_media_observe *)

\* Bug: the frame that ends a gap is counted with it.
GapWide(f) == IF Advance(sequence, f.seq) > 1 THEN Advance(sequence, f.seq) ELSE 0

Gap(f) == Advance(sequence, f.seq) - 1

Accept(f) ==
    LET origin == Least(f.age, base)
        excess == f.age - origin
        counted == Least(gaps + Gap(f), MaxGaps)
        bad == IF Gap(f) > 0 \/ excess >= LateTime THEN 0 ELSE bad_for
        rx_bad == IF excess >= LateTime THEN Most(rx_bad_for, 0) ELSE Unset
        due == report_for >= ReportTime
    IN  /\ sequence' = f.seq
        /\ base' = origin
        /\ bad_for' = bad
        /\ rx_bad_for' = rx_bad
        /\ report_for' = IF due THEN 0 ELSE report_for
        /\ gaps' = IF due THEN 0 ELSE counted
        /\ missing' = missing - 1 - (IF due THEN counted ELSE 0)
        /\ \/ /\ due
              /\ Feedback(IF rx_bad >= SustainedTime /\ excess >= VeryLateTime THEN 50
                          ELSE IF bad \in 0 .. (ReportTime - 1) THEN 75 ELSE 100)
           \/ UNCHANGED remote          \* not due, or the report is lost

Observe(f) ==
    IF Newer(sequence, f.seq) THEN Accept(f)
    ELSE UNCHANGED <<receiverVars, remote, missing>>

Arrive ==
    /\ queue # <<>>
    /\ queue' = Tail(queue)
    /\ Observe(Head(queue))
    /\ UNCHANGED <<next_sequence, rtp, senderVars, calm>>

ArriveByRtp ==
    /\ rtp # <<>>
    /\ rtp' = Tail(rtp)
    /\ Observe(Head(rtp))
    /\ UNCHANGED <<next_sequence, queue, senderVars, calm>>

Lose ==
    /\ ~calm
    /\ rtp # <<>>
    /\ Lost < MaxLost \/ ~Newer(sequence, Head(rtp).seq)
    /\ rtp' = Tail(rtp)
    /\ UNCHANGED <<next_sequence, queue, senderVars, remote, receiverVars, missing, calm>>

-----------------------------------------------------------------------------
Older(age, cap) == IF age = Unset THEN Unset ELSE Least(age + 1, cap)

Tick ==
    /\ \A f \in Frames : f.age < MaxDelay /\ ~calm
    /\ queue' = [i \in DOMAIN queue |-> [queue[i] EXCEPT !.age = @ + 1]]
    /\ rtp' = [i \in DOMAIN rtp |-> [rtp[i] EXCEPT !.age = @ + 1]]
    /\ healthy_for' = Older(healthy_for, HoldTime)
    /\ tx_bad_for' = Older(tx_bad_for, SustainedTime)
    /\ remote' = [remote EXCEPT !.age = Older(@, FeedbackTime)]
    /\ bad_for' = Older(bad_for, ReportTime)
    /\ rx_bad_for' = Older(rx_bad_for, SustainedTime)
    /\ report_for' = Least(report_for + 1, ReportTime)
    /\ since_drop' = Older(since_drop, HoldTime)
    /\ UNCHANGED <<next_sequence, quality, sequence, base, gaps, missing, calm>>

\* From here on nothing is lost or late, and round trips are good.
Calm ==
    /\ ~calm
    /\ queue = <<>> /\ rtp = <<>>
    /\ calm' = TRUE
    /\ UNCHANGED <<next_sequence, queue, rtp, senderVars, remote, receiverVars, missing>>

\* The subscriber has just taken its first frame.
Init ==
    /\ next_sequence = 1
    /\ queue = <<>>
    /\ rtp = <<>>
    /\ quality = 100
    /\ healthy_for = Unset
    /\ tx_bad_for = Unset
    /\ remote = [quality |-> 100, age |-> FeedbackTime]
    /\ sequence = 0
    /\ base \in 0 .. MaxDelay
    /\ gaps = 0
    /\ bad_for = Unset
    /\ rx_bad_for = Unset
    /\ report_for = 0
    /\ missing = 0
    /\ since_drop = HoldTime
    /\ calm = FALSE

Next ==
    \/ Broadcast \/ SendFrame \/ SendByRtp
    \/ Arrive \/ ArriveByRtp \/ Lose
    \/ Tick \/ Calm

Spec == Init /\ [][Next]_vars

\* Once the network is good the program goes on sending, the transports deliver,
\* and time passes.
Fairness ==
    /\ SF_vars(calm /\ SendFrame)
    /\ WF_vars(calm /\ Arrive)
    /\ WF_vars(calm /\ ArriveByRtp)
    /\ SF_vars(calm /\ Tick)

FairSpec == Spec /\ Fairness

-----------------------------------------------------------------------------
(* Properties *)

\* Every variable has its type, and the queue holds no more live audio than its
\* limit, whatever else is in it.
TypeOK ==
    /\ next_sequence \in 0 .. (SeqSize - 1)
    /\ sequence \in 0 .. (SeqSize - 1)
    /\ Queued <= Limit
    /\ Len(rtp) <= 1
    /\ quality \in Qualities
    /\ remote.quality \in Qualities
    /\ gaps \in 0 .. MaxGaps
    /\ calm \in BOOLEAN

\* No loss goes uncounted and none is counted twice: every frame numbered since the
\* first is accepted, a gap in one report or in the next one, or newer than the
\* last accepted, wherever it was dropped, lost or overtaken.  (Of more than
\* MaxGaps between two reports the code forgets the rest; the bounds stay below.)
LossesCounted == missing = gaps + Behind

\* The quality does not swing: it is not raised within the holding time of having
\* been lowered, whether the queue, the round trips or a report lowered it.
SteadyQuality ==
    [][quality' > quality => since_drop >= HoldTime]_vars

\* When the network is good for good, the quality returns to the full one, also
\* if reports get lost.
QualityRecovers == <>calm => <>[](quality = 100)

\* ... and the subscriber takes the newest frame again and again, however far the
\* frame numbers have wrapped and whichever way the frames went.
StreamContinues == <>calm => []<>(sequence = (next_sequence - 1) % SeqSize)
=============================================================================
