------------------------------ MODULE RtpProofs ------------------------------
(***************************************************************************)
(* What module Rtp keeps for any addresses, any width of the frame number, *)
(* any pieces in flight and any frames: types, the bound of the ingress    *)
(* queue, that the transport implements the stream of module FrameStream,  *)
(* and that a server willing to send knows where to.                       *)
(*                                                                         *)
(* The inductive invariant is IInv.  Its heart is a distance: frames of    *)
(* the same number are SeqMod apart, and nothing that an end may still put *)
(* together is so far from what it puts together now (NetInv, QueueInv,    *)
(* Assembling).  So equal numbers are equal frames, and a number that      *)
(* looks later is one.                                                     *)
(***************************************************************************)
EXTENDS Rtp, FiniteSetTheorems, TLAPS

-----------------------------------------------------------------------------
(* Numbers of a bounded width *)

\* A number is a multiple of m and a remainder.
LEMMA Division ==
  ASSUME NEW a \in Int, NEW m \in Nat \ {0}
  PROVE  \E q \in Int : a = m * q + (a % m) /\ a % m \in 0 .. m - 1
<1>1. a = m * (a \div m) + (a % m) /\ a \div m \in Int /\ a % m \in 0 .. m - 1
  BY SMT
<1> QED
  BY <1>1

\* Between -m and m there is one multiple of m.
LEMMA Multiples ==
  ASSUME NEW m \in Nat \ {0}, NEW p \in Int, NEW q \in Int
  PROVE  /\ m * p \in Int
         /\ m * (p - q) = m * p - m * q
         /\ m * p < m => p < 1
         /\ -m < m * p => -1 < p
<1>1. m * (p - q) = m * p - m * q
  BY SMT
<1>2. ASSUME p >= 1 PROVE m * p >= m
  BY <1>2
<1>3. ASSUME p <= -1 PROVE m * p <= -m
  BY <1>3
<1> QED
  BY <1>1, <1>2, <1>3

\* Two numbers less than m apart with the same remainder are the same.
LEMMA SameNumber ==
  ASSUME NEW a \in Nat, NEW b \in Nat, NEW m \in Nat \ {0}, a % m = b % m, a < b + m,
         b < a + m
  PROVE a = b
<1>1. PICK p \in Int : a = m * p + (a % m) /\ a % m \in 0 .. m - 1
  <2>1. a \in Int
    OBVIOUS
  <2> QED
    BY <2>1, Division, ZenonT(20)
<1>2. PICK q \in Int : b = m * q + (b % m) /\ b % m \in 0 .. m - 1
  <2>1. b \in Int
    OBVIOUS
  <2> QED
    BY <2>1, Division, ZenonT(20)
<1> DEFINE r == a % m  x == m * p  y == m * q
<1>3. a = x + r /\ b = y + r /\ r \in Nat /\ x \in Int /\ y \in Int
  BY <1>1, <1>2, Multiples
<1>4. m * (p - q) = x - y /\ p - q \in Int
  BY Multiples
<1> HIDE DEF x, y, r
<1>5. -m < m * (p - q) /\ m * (p - q) < m
  BY <1>3, <1>4
<1>6. -1 < p - q /\ p - q < 1
  <2> DEFINE z == p - q
  <2>1. z \in Int /\ -m < m * z /\ m * z < m
     BY <1>5
  <2>2. QED
     <3> HIDE DEF z
     <3>1. -1 < z /\ z < 1
        BY <2>1, Multiples
     <3> QED BY <3>1 DEF z
<1>7. p = q
  BY <1>6
<1> QED BY <1>3, <1>7 DEF x, y

\* A remainder that looks later in the first half of the range is of a later number,
\* if that is not half of the range too early.
LEMMA Later ==
  ASSUME NEW a \in Nat, NEW b \in Nat, NEW m \in Nat \ {0}, NEW d \in Nat, 2 * d < m,
         b < a + d, ((a % m) - (b % m)) % m \in 1 .. ((m - 1) \div 2)
  PROVE a > b
<1>1. PICK p \in Int : a = m * p + (a % m) /\ a % m \in 0 .. m - 1
  <2>1. a \in Int
    OBVIOUS
  <2> QED
    BY <2>1, Division, ZenonT(20)
<1>2. PICK q \in Int : b = m * q + (b % m) /\ b % m \in 0 .. m - 1
  <2>1. b \in Int
    OBVIOUS
  <2> QED
    BY <2>1, Division, ZenonT(20)
<1> DEFINE s == (a % m) - (b % m)
<1>3. s \in Int
  BY <1>1, <1>2
<1>4. PICK k \in Int : s = m * k + (s % m) /\ s % m \in 0 .. m - 1
  <2> HIDE DEF s
  <2> QED BY <1>3, Division
<1> DEFINE r == s % m  x == m * p  y == m * q  z == m * k
<1>5. r >= 1 /\ 2 * r < m /\ r \in Nat
  BY <1>4
<1>6. a - b = (x - y + z) + r /\ x \in Int /\ y \in Int /\ z \in Int
  <2>1. x \in Int /\ y \in Int /\ z \in Int
    BY Multiples
  <2>2. a = x + (a % m) /\ b = y + (b % m) /\ s = z + r /\ a % m \in Int
        /\ b % m \in Int
    BY <1>1, <1>2, <1>4
  <2>3. s = (a % m) - (b % m)
    OBVIOUS
  <2> HIDE DEF x, y, z, s
  <2> QED
    BY <2>1, <2>2, <2>3, <1>5
<1>7. x - y + z = m * (p - (q - k))
  BY Multiples
<1>8. SUFFICES ASSUME a <= b PROVE FALSE
  OBVIOUS
<1>9. p - (q - k) \in Int
  OBVIOUS
<1> DEFINE w == p - (q - k)
<1> HIDE DEF x, y, z, r, s
<1>10. -m < m * w /\ m * w < 0 /\ m * w \in Int
  <2>1. m * w = x - y + z
    BY <1>7
  <2> HIDE DEF w
  <2> QED
    BY <1>5, <1>6, <1>8, <2>1
<1>11. w \in Int
  BY <1>9
<1> HIDE DEF w
<1>12. -1 < w
  BY <1>10, <1>11, Multiples
<1>13. m * w >= 0
  BY <1>11, <1>12
<1> QED
  BY <1>10, <1>13

-----------------------------------------------------------------------------
(* The inductive invariant *)

\* Functions on some numbers.
Partial == UNION {[D -> Nat] : D \in SUBSET Nat}

\* A frame that is put together.
Incoming == [seq : Nat, count : Nat, pieces : Partial, age : Nat, complete : BOOLEAN]

\* The types, with those that TypeOK leaves out.
Types ==
    /\ TypeOK
    /\ sent \in [End -> Nat]
    /\ last \in [End -> Nat]
    /\ rx \in [End -> Incoming]
    /\ \A p \in net : p.kind = "rtp" => p.index <= p.count
    /\ \A i \in DOMAIN queue :
          queue[i].to = "server"
          /\ (queue[i].kind = "rtp" => queue[i].index <= queue[i].count)

\* What e puts together is frame n, the last one that it handed on or a later one.
Assembles(e, n) ==
    /\ last[e] <= n /\ n <= sent[Peer(e)]
    /\ ~have_incoming(e) => n = 0
    /\ have_incoming(e) => rx[e].seq = frame_seq(n)
    /\ rx[e].complete => n = last[e]
    /\ have_incoming(e) /\ ~rx[e].complete =>
          /\ last[e] < n
          /\ DOMAIN rx[e].pieces # {}
          /\ \A i \in DOMAIN rx[e].pieces : rx[e].pieces[i] = n
          /\ rx[e].age <= FrameTime => sent[Peer(e)] < n + SeqMod

\* Pieces in the network are late by fewer frames than MaxDelay, ...
NetInv ==
    \A p \in net : p.kind = "rtp" =>
        p.frame <= sent[Peer(p.to)] /\ sent[Peer(p.to)] < p.frame + MaxDelay

\* Frame n is not that much later than one whose piece waits in the queue.
InReach(n) ==
    \A i \in DOMAIN queue : queue[i].kind = "rtp" => n < queue[i].frame + MaxDelay

\* ... those in the queue were so when they came, and none is older than the numbers
\* tell apart.
QueueInv ==
    \A i \in DOMAIN queue : queue[i].kind = "rtp" =>
        /\ queue[i].frame <= sent["client"]
        /\ sent["client"] < queue[i].frame + SeqMod
        /\ \A j \in DOMAIN queue : i < j /\ queue[j].kind = "rtp" =>
              queue[i].frame < queue[j].frame + MaxDelay

\* The attachment of e is gone for good.
Over(e) == status[e] \in {"detached", "closed"}

\* Some frame is the one e puts together.
Assembling(e) == \E n \in Nat : Assembles(e, n) /\ (e = "server" => InReach(n))

\* The inductive invariant.
IInv ==
    /\ Types
    /\ NetInv
    /\ QueueInv
    /\ \A e \in End : Over(e) \/ Assembling(e)

-----------------------------------------------------------------------------
(* Putting a frame together *)

\* An attachment has two ends.
LEMMA Ends ==
  ASSUME NEW e \in End
  PROVE  Peer(e) \in End /\ Peer(e) # e /\ Peer(Peer(e)) = e
  BY DEF Peer, End

\* The number of a frame is a number.
LEMMA NumberTyped ==
  ASSUME NEW n \in Nat
  PROVE  frame_seq(n) \in Nat
<1>1. n \in Int /\ SeqMod \in Nat \ {0}
  BY RtpAssumption
<1>2. PICK q \in Int : n = SeqMod * q + (n % SeqMod) /\ n % SeqMod \in 0 .. SeqMod - 1
  BY <1>1, Division, ZenonT(20)
<1> QED
  BY <1>1, <1>2 DEF frame_seq

\* An end starts with no frame, which has the type of one.
LEMMA NoFrameTyped == NoFrame \in Incoming
<1>1. <<>> \in [{} -> Nat] /\ DOMAIN <<>> = {}
  OBVIOUS
<1>2. <<>> \in Partial
  BY <1>1 DEF Partial
<1> QED
  BY <1>2 DEF NoFrame, Incoming

\* The frame that a piece is put into has the type of a frame.
LEMMA FrameOfTyped ==
  ASSUME Types, NEW e \in End, NEW p \in Piece
  PROVE  FrameOf(e, p) \in Incoming
<1>1. frame_seq(p.frame) \in Nat /\ p.count \in Nat
  BY NumberTyped DEF Piece
<1>2. [NoFrame EXCEPT !.seq = frame_seq(p.frame), !.count = p.count] \in Incoming
  BY <1>1, NoFrameTyped DEF Incoming
<1> QED
  BY <1>2 DEF FrameOf, Types

\* Pieces of one frame, the first of them included, make that frame.
LEMMA WholeFrame ==
  ASSUME Types, NEW e \in End, NEW pieces, NEW n \in Nat, 0 < n, n <= sent[Peer(e)],
         1 \in DOMAIN pieces, \A i \in DOMAIN pieces : pieces[i] = n
  PROVE  Whole(pieces) = n
<1>1. Peer(e) \in End
  BY Ends
<1>2. sent[Peer(e)] \in 0 .. MaxFrames[Peer(e)]
  BY <1>1 DEF Types, TypeOK
<1>3. \A d \in End : MaxFrames[d] \in Nat
  BY RtpAssumption
<1>4. n <= MaxFrames[Peer(e)]
  BY <1>1, <1>2, <1>3
<1>5. n \in 1 .. MaxFrames["server"] + MaxFrames["client"]
  BY <1>1, <1>3, <1>4 DEF End
<1> QED
  BY <1>5 DEF Whole

\* A piece that is taken in time is of the frame under way, or of a later one.
LEMMA PieceOf ==
  ASSUME Types, NEW e \in End, NEW p \in Piece, NEW n \in Nat,
         Assembles(e, n), Takes(e, p), p.frame <= sent[Peer(e)],
         sent[Peer(e)] < p.frame + SeqMod, n < p.frame + MaxDelay
  PROVE  \/ /\ FrameOf(e, p) = rx[e] /\ have_incoming(e) /\ ~rx[e].complete
            /\ p.frame = n
         \/ /\ FrameOf(e, p) = [NoFrame EXCEPT !.seq = frame_seq(p.frame),
                                                !.count = p.count]
            /\ n < p.frame
<1>1. p.frame \in Nat /\ 0 < p.frame /\ sent[Peer(e)] \in Nat /\ n <= sent[Peer(e)]
      /\ SeqMod \in Nat \ {0} /\ MaxDelay \in Nat /\ 2 * MaxDelay < SeqMod
  BY RtpAssumption, Ends DEF Types, Piece, Assembles
<1>2. CASE ~have_incoming(e)
  BY <1>1, <1>2 DEF FrameOf, Assembles
<1>3. CASE have_incoming(e) /\ frame_seq(p.frame) = rx[e].seq
  <2>1. FrameOf(e, p) = rx[e]
    BY <1>3 DEF FrameOf
  <2>2. ~rx[e].complete /\ rx[e].age <= FrameTime
    BY <2>1 DEF Takes
  <2>3. sent[Peer(e)] < n + SeqMod /\ p.frame % SeqMod = n % SeqMod
    BY <1>3, <2>2 DEF Assembles, frame_seq
  <2>4. p.frame < n + SeqMod /\ n < p.frame + SeqMod
    BY <1>1, <2>3
  <2>5. p.frame = n
    BY <1>1, <2>3, <2>4, SameNumber
  <2> QED
    BY <1>3, <2>1, <2>2, <2>5
<1>4. CASE have_incoming(e) /\ frame_seq(p.frame) # rx[e].seq
  <2>1. After(frame_seq(p.frame), frame_seq(n))
    BY <1>4 DEF Takes, Assembles
  <2>2. p.frame > n
    BY <1>1, <2>1, Later DEF After, frame_seq
  <2> QED
    BY <1>4, <2>2, <1>1 DEF FrameOf
<1> QED
  BY <1>2, <1>3, <1>4

\* An end that takes a piece in time goes on with the frame it puts together, or
\* with that of the piece; it hands on none, or one later than the last.
LEMMA TakePieceStep ==
  ASSUME Types, NEW e \in End, NEW p \in Piece, NEW n \in Nat, p.index <= p.count,
         Assembles(e, n), TakePiece(e, p), p.frame <= sent[Peer(e)],
         sent[Peer(e)] < p.frame + SeqMod, n < p.frame + MaxDelay, sent' = sent
  PROVE  /\ rx' \in [End -> Incoming]
         /\ \A d \in End : DOMAIN rx'[d].pieces \subseteq 1 .. rx'[d].count
         /\ \A d \in End \ {e} : rx'[d] = rx[d] /\ last'[d] = last[d]
         /\ \/ last' = last
            \/ \E m \in (last[e] + 1) .. sent[Peer(e)] : last' = [last EXCEPT ![e] = m]
         /\ \E m \in {n, p.frame} : Assembles(e, m)'
<1> DEFINE f == FrameOf(e, p)
           got == [i \in DOMAIN f.pieces \cup {p.index} |->
                      IF i = p.index THEN p.frame ELSE f.pieces[i]]
           m == p.frame
<1>1. m \in Nat /\ 0 < m /\ sent[Peer(e)] \in Nat /\ last[e] \in Nat /\ last[e] <= n
      /\ p.index \in Nat /\ 1 <= p.index /\ p.count \in Nat /\ p.index \in 1 .. p.count
      /\ SeqMod \in Nat \ {0}
  BY RtpAssumption, Ends DEF Types, Piece, Assembles
<1>2. f \in Incoming
  BY FrameOfTyped
<1>3. /\ f.seq = frame_seq(m) /\ ~f.complete /\ f.count = p.count /\ f.age <= FrameTime
      /\ p.index \notin DOMAIN f.pieces
      /\ DOMAIN f.pieces \subseteq 1 .. f.count
      /\ \A i \in DOMAIN f.pieces : f.pieces[i] = m
      /\ last[e] < m /\ sent[Peer(e)] < m + SeqMod
  <2>0. Takes(e, p)
    BY DEF TakePiece
  <2>1. ~f.complete /\ f.count = p.count /\ f.age <= FrameTime
        /\ p.index \notin DOMAIN f.pieces
    BY <2>0 DEF Takes
  <2>2. CASE f = rx[e] /\ have_incoming(e) /\ ~rx[e].complete /\ m = n
    <3>1. DOMAIN rx[e].pieces \subseteq 1 .. rx[e].count
      BY DEF Types, TypeOK
    <3> HIDE DEF f
    <3> QED
      BY <2>1, <2>2, <3>1 DEF Assembles
  <2>3. CASE f = [NoFrame EXCEPT !.seq = frame_seq(m), !.count = p.count] /\ n < m
    <3>1. f.seq = frame_seq(m) /\ f.pieces = <<>> /\ DOMAIN <<>> = {}
      <4> HIDE DEF f
      <4> QED BY <2>3 DEF NoFrame
    <3> HIDE DEF f
    <3> QED
      BY <2>1, <2>3, <3>1, <1>1
  <2> QED
    BY <2>0, <2>2, <2>3, PieceOf
<1>4. DOMAIN got = DOMAIN f.pieces \cup {p.index} /\ \A i \in DOMAIN got : got[i] = m
  <2> HIDE DEF f
  <2> QED BY <1>3
<1>5. got \in Partial
  <2>1. got \in [DOMAIN got -> Nat]
    BY <1>1, <1>4
  <2>2. DOMAIN got \in SUBSET Nat
    BY <1>1, <1>3, <1>4, <1>2 DEF Incoming
  <2> HIDE DEF got
  <2> QED
    BY <2>1, <2>2 DEF Partial
<1>6. DOMAIN got \subseteq 1 .. f.count /\ f.count \in Nat /\ f.count # 0
      /\ DOMAIN got # {}
  <2> HIDE DEF f, got
  <2> QED BY <1>1, <1>3, <1>4
<1> DEFINE all == Cardinality(DOMAIN got) = f.count
           g == IF all THEN [f EXCEPT !.pieces = <<>>, !.age = 0, !.complete = TRUE]
                ELSE [f EXCEPT !.pieces = got]
<1>7. rx' = [rx EXCEPT ![e] = g]
      /\ last' = IF all THEN [last EXCEPT ![e] = Whole(got)] ELSE last
  BY DEF TakePiece
<1>8. all => Whole(got) = m
  <2>1. IsFiniteSet(1 .. f.count) /\ Cardinality(1 .. f.count) = f.count
    <3> DEFINE c == f.count
    <3> HIDE DEF f
    <3>1. c \in Int /\ 1 \in Int /\ c >= 1
      BY <1>6
    <3> HIDE DEF c
    <3>2. IsFiniteSet(1 .. c) /\ Cardinality(1 .. c) = IF 1 > c THEN 0 ELSE c - 1 + 1
      BY <3>1, FS_Interval
    <3>3. Cardinality(1 .. c) = c
      BY <3>1, <3>2
    <3> QED
      BY <3>2, <3>3 DEF c
  <2>2. all => DOMAIN got = 1 .. f.count
    BY <1>6, <2>1, FS_Subset
  <2>3. all => 1 \in DOMAIN got
    BY <1>6, <2>2
  <2> HIDE DEF got, f, all
  <2> QED
    BY <1>1, <1>3, <1>4, <2>3, WholeFrame
<1> HIDE DEF got, all, f
<1>9. /\ g \in Incoming /\ g.seq = frame_seq(m) /\ g.count = f.count
      /\ g.complete <=> all
      /\ DOMAIN g.pieces \subseteq 1 .. f.count
      /\ ~all => g.pieces = got /\ g.age <= FrameTime
  <2>1. <<>> \in Partial /\ DOMAIN <<>> = {}
    BY NoFrameTyped DEF NoFrame, Incoming
  <2>2. CASE all
    BY <2>1, <2>2, <1>2, <1>3 DEF Incoming
  <2>3. CASE ~all
    BY <2>3, <1>2, <1>3, <1>5, <1>6 DEF Incoming
  <2> QED BY <2>2, <2>3
<1>10. /\ rx' \in [End -> Incoming] /\ rx'[e] = g
       /\ \A d \in End \ {e} : rx'[d] = rx[d]
  <2> HIDE DEF g
  <2> QED BY <1>7, <1>9 DEF Types
<1>11. /\ last' = IF all THEN [last EXCEPT ![e] = m] ELSE last
       /\ last'[e] = IF all THEN m ELSE last[e]
       /\ \A d \in End \ {e} : last'[d] = last[d]
  BY <1>7, <1>8 DEF Types
<1>12. Assembles(e, m)'
  <2> HIDE DEF g
  <2>1. last'[e] <= m /\ m <= sent'[Peer(e)] /\ rx'[e].count # 0
    BY <1>1, <1>3, <1>6, <1>9, <1>10, <1>11
  <2>2. rx'[e].seq = frame_seq(m)
    BY <1>9, <1>10
  <2>3. rx'[e].complete => m = last'[e]
    BY <1>9, <1>10, <1>11
  <2>4. ASSUME ~rx'[e].complete
        PROVE  /\ last'[e] < m
               /\ DOMAIN rx'[e].pieces # {}
               /\ \A i \in DOMAIN rx'[e].pieces : rx'[e].pieces[i] = m
               /\ sent'[Peer(e)] < m + SeqMod
    BY <2>4, <1>3, <1>4, <1>6, <1>9, <1>10, <1>11
  <2> QED
    BY <2>1, <2>2, <2>3, <2>4 DEF Assembles, have_incoming
<1>13. \A d \in End : DOMAIN rx'[d].pieces \subseteq 1 .. rx'[d].count
  <2> HIDE DEF g
  <2> QED BY <1>9, <1>10 DEF Types, TypeOK
<1>14. m \in (last[e] + 1) .. sent[Peer(e)]
  BY <1>1, <1>3
<1> HIDE DEF g
<1> QED
  BY <1>10, <1>11, <1>12, <1>13, <1>14

-----------------------------------------------------------------------------
(* The steps keep the invariant *)

\* The constants as the steps below use them.
LEMMA ConstantsTyped ==
  /\ 1 \in Address /\ Address \subseteq Nat \ {0} /\ NoAddress = 0
  /\ ActiveTime \in Nat \ {0} /\ ProbeTime \in Nat \ {0} /\ IngressDepth \in Nat \ {0}
  /\ MaxPieces \in Nat \ {0} /\ MaxDelay \in Nat \ {0} /\ FrameTime \in Nat
  /\ SeqMod \in Nat \ {0} /\ MaxDelay < SeqMod
  BY RtpAssumption

\* What e puts together stays if its variables and the frames sent to it do.
LEMMA AssemblesKept ==
  ASSUME NEW e \in End, NEW n \in Nat, Assembles(e, n),
         rx'[e] = rx[e], last'[e] = last[e], sent'[Peer(e)] = sent[Peer(e)]
  PROVE  Assembles(e, n)'
  BY DEF Assembles, have_incoming

\* The initial states.
LEMMA InitInv == Init => IInv
<1> SUFFICES ASSUME Init PROVE IInv
  OBVIOUS
<1>1. TypeOK
  <2>1. \A e \in End : MaxFrames[e] \in Nat /\ sent[e] = 0 /\ last[e] = 0
        /\ rx[e] = NoFrame
    BY RtpAssumption DEF Init
  <2>2. \A e \in End : sent[e] \in 0 .. MaxFrames[e] /\ last[e] \in 0 .. sent[Peer(e)]
    BY <2>1, Ends
  <2>3. \A e \in End : DOMAIN rx[e].pieces \subseteq 1 .. rx[e].count
    BY <2>1 DEF NoFrame
  <2>4. queue \in Seq(Probe \cup Piece) /\ Len(queue) <= IngressDepth
    BY ConstantsTyped DEF Init
  <2>5. filtered \in Policies /\ turned \in BOOLEAN
    BY DEF Init
  <2> QED
    BY <2>2, <2>3, <2>4, <2>5, ConstantsTyped DEF TypeOK, Init
<1>2. Types
  BY <1>1, NoFrameTyped DEF Types, Init
<1>3. \A e \in End : Assembles(e, 0)
  <2> TAKE e \in End
  <2>1. sent[Peer(e)] = 0 /\ last[e] = 0 /\ rx[e].count = 0 /\ ~rx[e].complete
    BY Ends DEF Init, NoFrame
  <2> QED
    BY <2>1 DEF Assembles, have_incoming
<1> QED
  BY <1>2, <1>3 DEF IInv, NetInv, QueueInv, Assembling, InReach, Init

\* p is a piece that its number still tells apart from what e puts together.
InTime(e, p) ==
    p.kind = "rtp" =>
        /\ p.index <= p.count
        /\ p.frame <= sent[Peer(e)] /\ sent[Peer(e)] < p.frame + SeqMod
        /\ \A n \in Nat : Assembles(e, n) /\ (e = "server" => InReach(n))
                             => n < p.frame + MaxDelay

\* What handling a packet in time does, whichever end it came to.
LEMMA HandleStep ==
  ASSUME IInv, NEW e \in End, NEW p \in Probe \cup Piece, Handle(e, p), InTime(e, p),
         sent' = sent
  PROVE  /\ address' \in Address \cup {NoAddress} /\ seen' \in [End -> 0 .. ActiveTime]
         /\ filtered' \in Policies /\ turned' \in BOOLEAN
         /\ rx' \in [End -> Incoming] /\ last' \in [End -> Nat]
         /\ \A d \in End : DOMAIN rx'[d].pieces \subseteq 1 .. rx'[d].count
         /\ \A d \in End : last'[d] \in 0 .. sent[Peer(d)]
         /\ \A d \in End \ {e} : rx'[d] = rx[d] /\ last'[d] = last[d]
         /\ \/ last' = last
            \/ \E m \in (last[e] + 1) .. sent[Peer(e)] : last' = [last EXCEPT ![e] = m]
         /\ Over(e) \/ \E m, n \in Nat :
               /\ Assembles(e, m)' /\ Assembles(e, n) /\ (e = "server" => InReach(n))
               /\ m = n \/ (p.kind = "rtp" /\ m = p.frame)
<1> USE DEF IInv
<1>1. \A d \in End : sent[Peer(d)] \in Nat /\ last[d] \in 0 .. sent[Peer(d)]
  BY Ends DEF Types, TypeOK
<1>2. p.at \in Address
  BY DEF Probe, Piece
<1>3. 0 \in 0 .. ActiveTime
  BY ConstantsTyped
<1>4. address' \in Address \cup {NoAddress} /\ seen' \in [End -> 0 .. ActiveTime]
  <2>1. address \in Address \cup {NoAddress} /\ seen \in [End -> 0 .. ActiveTime]
    BY DEF Types, TypeOK
  <2>2. address' \in {address, p.at} /\ seen' \in {seen, [seen EXCEPT ![e] = 0]}
    BY DEF Handle, Refuse, TakeProbe, TakePiece
  <2> QED
    BY <1>2, <1>3, <2>1, <2>2
<1>8. filtered' \in Policies /\ turned' \in BOOLEAN
  <2>1. filtered \in Policies /\ turned \in BOOLEAN
    BY DEF Types, TypeOK
  <2>2. filtered' = filtered /\ turned' \in {turned, e = "client" /\ turned}
    BY DEF Handle, Refuse, TakeProbe, TakePiece, policy
  <2> QED
    BY <2>1, <2>2
<1>5. ASSUME rx' = rx, last' = last
      PROVE  Over(e) \/ \E m, n \in Nat :
               /\ Assembles(e, m)' /\ Assembles(e, n) /\ (e = "server" => InReach(n))
               /\ m = n
  <2>1. SUFFICES ASSUME ~Over(e)
                 PROVE  \E n \in Nat : /\ Assembles(e, n)' /\ Assembles(e, n)
                                       /\ e = "server" => InReach(n)
    OBVIOUS
  <2>2. PICK n \in Nat : Assembles(e, n) /\ (e = "server" => InReach(n))
    BY <2>1 DEF Assembling
  <2>3. Assembles(e, n)'
    BY <2>2, <1>5, AssemblesKept
  <2> QED
    BY <2>2, <2>3
<1>6. CASE rx' = rx /\ last' = last
  BY <1>1, <1>4, <1>5, <1>6, <1>8 DEF Types, TypeOK
<1>7. CASE TakePiece(e, p)
  <2>1. p.kind = "rtp" /\ p \in Piece /\ ~Over(e)
    BY <1>7 DEF TakePiece, Passes, attached, Over, Probe, Piece
  <2>2. PICK n \in Nat : Assembles(e, n) /\ (e = "server" => InReach(n))
    BY <2>1 DEF Assembling
  <2>3. /\ rx' \in [End -> Incoming]
        /\ \A d \in End : DOMAIN rx'[d].pieces \subseteq 1 .. rx'[d].count
        /\ \A d \in End \ {e} : rx'[d] = rx[d] /\ last'[d] = last[d]
        /\ \/ last' = last
           \/ \E m \in (last[e] + 1) .. sent[Peer(e)] : last' = [last EXCEPT ![e] = m]
        /\ \E m \in {n, p.frame} : Assembles(e, m)'
    BY <1>7, <2>1, <2>2, TakePieceStep DEF InTime
  <2>4. p.frame \in Nat
    BY <2>1 DEF Piece
  <2>5. last' \in [End -> Nat] /\ \A d \in End : last'[d] \in 0 .. sent[Peer(d)]
    <3>1. CASE last' = last
      BY <3>1, <1>1 DEF Types
    <3>2. ASSUME NEW m \in (last[e] + 1) .. sent[Peer(e)],
                 last' = [last EXCEPT ![e] = m]
          PROVE  last' \in [End -> Nat]
                 /\ \A d \in End : last'[d] \in 0 .. sent[Peer(d)]
      <4>1. m \in Nat /\ m \in 0 .. sent[Peer(e)]
        BY <1>1
      <4> QED
        BY <3>2, <4>1, <1>1 DEF Types
    <3> QED
      BY <2>3, <3>1, <3>2
  <2>6. \E m, k \in Nat :
               /\ Assembles(e, m)' /\ Assembles(e, k) /\ (e = "server" => InReach(k))
               /\ m = k \/ (p.kind = "rtp" /\ m = p.frame)
    BY <2>1, <2>2, <2>3, <2>4
  <2> QED
    BY <1>4, <1>8, <2>3, <2>5, <2>6
<1> QED
  BY <1>6, <1>7 DEF Handle, Refuse, TakeProbe

\* Attachments that come, are given up or are reset.
LEMMA AttachmentsKeep ==
  ASSUME IInv, NEW e \in End, Attach(e) \/ Invalidate(e) \/ Detach(e) \/ Close(e)
  PROVE  IInv'
<1> USE DEF IInv
<1>1. status \in [End -> {"open", "attached", "invalid", "detached", "closed"}]
  BY DEF Types, TypeOK
<1>2. \/ UNCHANGED <<clientAddress, address, seen, probed, rx>>
      \/ Reset(e) /\ UNCHANGED clientAddress
  BY DEF Attach, Invalidate, Detach, Close
<1>3. UNCHANGED <<sent, net, last, filtered, turned>>
      /\ \A d \in End \ {e} : rx'[d] = rx[d]
  BY DEF Attach, Invalidate, Detach, Close, Reset, Types, wire, policy
<1>4. queue' = queue \/ queue' = <<>>
  BY DEF Attach, Invalidate, Detach, Close, wire
<1>5. \/ rx' = rx
      \/ rx' = [rx EXCEPT ![e] = NoFrame] /\ Over(e)'
  BY <1>1 DEF Attach, Invalidate, Detach, Close, Reset, Over
<1>6. status' \in [End -> {"open", "attached", "invalid", "detached", "closed"}]
      /\ \A d \in End : Over(d) => Over(d)'
  BY <1>1 DEF Attach, Invalidate, Detach, Close, Over
<1>7. rx' \in [End -> Incoming]
      /\ \A d \in End : DOMAIN rx'[d].pieces \subseteq 1 .. rx'[d].count
  <2>1. DOMAIN NoFrame.pieces \subseteq 1 .. NoFrame.count
    BY DEF NoFrame
  <2> QED
    BY <1>5, <2>1, NoFrameTyped DEF Types, TypeOK
<1>8. Types'
  <2>1. address' \in Address \cup {NoAddress} /\ seen' \in [End -> 0 .. ActiveTime]
        /\ probed' \in 0 .. ProbeTime /\ clientAddress' \in Address
    <3>1. NoAddress \in Address \cup {NoAddress} /\ ActiveTime \in 0 .. ActiveTime
          /\ ProbeTime \in 0 .. ProbeTime
      BY ConstantsTyped
    <3>2. address \in Address \cup {NoAddress} /\ seen \in [End -> 0 .. ActiveTime]
          /\ probed \in 0 .. ProbeTime /\ clientAddress \in Address
      BY DEF Types, TypeOK
    <3>3. CASE UNCHANGED <<clientAddress, address, seen, probed, rx>>
      BY <3>2, <3>3
    <3>4. CASE Reset(e) /\ UNCHANGED clientAddress
      BY <3>1, <3>2, <3>4 DEF Reset
    <3> QED
      BY <1>2, <3>3, <3>4
  <2>2. queue' \in Seq(Probe \cup Piece) /\ Len(queue') <= IngressDepth
        /\ \A i \in DOMAIN queue' :
              queue'[i].to = "server"
              /\ (queue'[i].kind = "rtp" => queue'[i].index <= queue'[i].count)
    <3>1. CASE queue' = queue
      BY <3>1 DEF Types, TypeOK
    <3>2. CASE queue' = <<>>
      <4>1. <<>> \in Seq(Probe \cup Piece) /\ Len(<<>>) = 0 /\ DOMAIN <<>> = {}
            /\ 0 <= IngressDepth
        BY ConstantsTyped
      <4> QED
        BY <3>2, <4>1
    <3> QED
      BY <1>4, <3>1, <3>2
  <2> QED
    BY <1>3, <1>6, <1>7, <2>1, <2>2 DEF Types, TypeOK
<1>9. NetInv' /\ QueueInv' /\ \A n : InReach(n) => InReach(n)'
  BY <1>3, <1>4 DEF NetInv, QueueInv, InReach
<1>10. ASSUME NEW d \in End, ~Over(d)' PROVE Assembling(d)'
  <2>1. ~Over(d) /\ rx'[d] = rx[d]
    BY <1>3, <1>5, <1>6, <1>10
  <2>2. PICK n \in Nat : Assembles(d, n) /\ (d = "server" => InReach(n))
    BY <2>1 DEF Assembling
  <2>3. Assembles(d, n)'
    BY <1>3, <2>1, <2>2, AssemblesKept
  <2> QED
    BY <1>9, <2>2, <2>3 DEF Assembling
<1> QED
  BY <1>8, <1>9, <1>10

\* The network moves the client.
LEMMA MoveKeeps ==
  ASSUME IInv, Move
  PROVE  IInv'
<1> USE DEF IInv
<1>1. Types' /\ NetInv' /\ QueueInv' /\ \A n : InReach(n) => InReach(n)'
  BY DEF Move, wire, policy, Types, TypeOK, NetInv, QueueInv, InReach
<1>2. ASSUME NEW e \in End, NEW n \in Nat, Assembles(e, n) PROVE Assembles(e, n)'
  BY <1>2, AssemblesKept DEF Move
<1> QED
  BY <1>1, <1>2 DEF Assembling, Over, Move

\* The filter's owner changes its mind.
LEMMA PolicyKeeps ==
  ASSUME IInv, NEW refused \in Policies, SetPolicy(refused)
  PROVE  IInv'
<1> USE DEF IInv
<1>1. Types' /\ NetInv' /\ QueueInv' /\ \A n : InReach(n) => InReach(n)'
  BY DEF SetPolicy, wire, Types, TypeOK, NetInv, QueueInv, InReach
<1>2. ASSUME NEW e \in End, NEW n \in Nat, Assembles(e, n) PROVE Assembles(e, n)'
  BY <1>2, AssemblesKept DEF SetPolicy
<1> QED
  BY <1>1, <1>2 DEF Assembling, Over, SetPolicy

\* Ages keep within their bound.
LEMMA OlderTyped ==
  ASSUME NEW age \in Nat, NEW limit \in Nat
  PROVE  Older(age, limit) \in 0 .. limit
  BY DEF Older

\* Time passes: a frame in time before was so earlier.
LEMMA TickKeeps ==
  ASSUME IInv, Tick
  PROVE  IInv'
<1> USE DEF IInv
<1>2. seen' \in [End -> 0 .. ActiveTime] /\ probed' \in 0 .. ProbeTime
  <2>1. \A e \in End : seen[e] \in Nat
    BY ConstantsTyped DEF Types, TypeOK
  <2>2. probed \in Nat
    BY ConstantsTyped DEF Types, TypeOK
  <2>3. \A e \in End : Older(seen[e], ActiveTime) \in 0 .. ActiveTime
    BY OlderTyped, <2>1, ConstantsTyped
  <2>4. Older(probed, ProbeTime) \in 0 .. ProbeTime
    BY OlderTyped, <2>2, ConstantsTyped
  <2> QED
    BY <2>3, <2>4 DEF Tick
<1>3. ASSUME NEW e \in End
      PROVE  /\ rx'[e] \in Incoming /\ rx'[e].seq = rx[e].seq
             /\ rx'[e].count = rx[e].count
             /\ rx'[e].pieces = rx[e].pieces /\ (rx'[e].complete <=> rx[e].complete)
             /\ rx'[e].age <= FrameTime => rx[e].age <= FrameTime
  <2>1. rx[e] \in Incoming /\ rx[e].age \in Nat /\ FrameTime \in Nat
    BY ConstantsTyped DEF Types, Incoming
  <2>2. CASE have_incoming(e) /\ ~rx[e].complete
    <3>1. rx'[e] = [rx[e] EXCEPT !.age = Older(rx[e].age, FrameTime + 1)]
      BY <2>2 DEF Tick
    <3>2. Older(rx[e].age, FrameTime + 1) \in Nat
      BY <2>1 DEF Older
    <3>3. Older(rx[e].age, FrameTime + 1) <= FrameTime => rx[e].age <= FrameTime
      BY <2>1 DEF Older
    <3> QED
      BY <2>1, <3>1, <3>2, <3>3 DEF Incoming
  <2>3. CASE ~(have_incoming(e) /\ ~rx[e].complete)
    <3>1. rx'[e] = rx[e]
      BY <2>3 DEF Tick
    <3> QED BY <3>1, <2>1
  <2> QED BY <2>2, <2>3
<1>4. /\ UNCHANGED <<status, clientAddress, address, sent, net, queue, last,
                     filtered, turned>>
      /\ DOMAIN rx' = End /\ rx' = [e \in End |-> rx'[e]]
  BY DEF Tick, wire, policy
<1>5. Types'
  <2>1. rx' \in [End -> Incoming]
    BY <1>3, <1>4
  <2>2. \A e \in End : DOMAIN rx'[e].pieces \subseteq 1 .. rx'[e].count
    BY <1>3 DEF Types, TypeOK
  <2> QED
    BY <1>2, <1>4, <2>1, <2>2 DEF Types, TypeOK
<1>6. NetInv' /\ QueueInv' /\ \A n : InReach(n) => InReach(n)'
  BY <1>4 DEF NetInv, QueueInv, InReach
<1>7. ASSUME NEW e \in End, NEW n \in Nat, Assembles(e, n) PROVE Assembles(e, n)'
  BY <1>3, <1>4, <1>7 DEF Assembles, have_incoming
<1> QED
  BY <1>4, <1>5, <1>6, <1>7 DEF Assembling, Over

\* The client probes.
LEMMA ProbeKeeps ==
  ASSUME IInv, SendProbe
  PROVE  IInv'
<1> USE DEF IInv
<1>1. ProbeTo("server", clientAddress) \subseteq Probe
  BY DEF ProbeTo, Probe, End, Types, TypeOK
<1>2. \A p \in ProbeTo("server", clientAddress) : p.kind = "rtcp"
  BY DEF ProbeTo
<1>3. 0 \in 0 .. ProbeTime
  BY ConstantsTyped
<1>4. Types'
  BY <1>1, <1>2, <1>3 DEF SendProbe, Types, TypeOK, policy
<1>5. NetInv' /\ QueueInv' /\ \A n : InReach(n) => InReach(n)'
  BY <1>2 DEF SendProbe, NetInv, QueueInv, InReach
<1>6. ASSUME NEW e \in End, NEW n \in Nat, Assembles(e, n) PROVE Assembles(e, n)'
  BY <1>6, AssemblesKept DEF SendProbe
<1> QED
  BY <1>4, <1>5, <1>6 DEF Assembling, Over, SendProbe

\* A packet is lost.
LEMMA LoseKeeps ==
  ASSUME IInv, NEW p \in net, Lose(p)
  PROVE  IInv'
<1> USE DEF IInv
<1>1. Types' /\ NetInv' /\ QueueInv' /\ \A n : InReach(n) => InReach(n)'
  BY DEF Lose, policy, Types, TypeOK, NetInv, QueueInv, InReach
<1>2. ASSUME NEW e \in End, NEW n \in Nat, Assembles(e, n) PROVE Assembles(e, n)'
  BY <1>2, AssemblesKept DEF Lose
<1> QED
  BY <1>1, <1>2 DEF Assembling, Over, Lose

\* The packets that wait after a packet came, and after the first was taken.
LEMMA Queued ==
  ASSUME NEW S, NEW q \in Seq(S), NEW x \in S
  PROVE  /\ Append(q, x) \in Seq(S) /\ Len(Append(q, x)) = Len(q) + 1
         /\ DOMAIN Append(q, x) = DOMAIN q \cup {Len(q) + 1}
         /\ DOMAIN q = 1 .. Len(q) /\ Len(q) \in Nat
         /\ \A i \in DOMAIN q : Append(q, x)[i] = q[i]
         /\ Append(q, x)[Len(q) + 1] = x
  OBVIOUS

LEMMA Dequeued ==
  ASSUME NEW S, NEW q \in Seq(S), q # <<>>
  PROVE  /\ Tail(q) \in Seq(S) /\ Len(Tail(q)) = Len(q) - 1 /\ Len(q) \in Nat
         /\ Head(q) \in S /\ Head(q) = q[1] /\ 1 \in DOMAIN q
         /\ \A i \in DOMAIN Tail(q) : i + 1 \in DOMAIN q /\ Tail(q)[i] = q[i + 1]
              /\ i \in Nat /\ i > 0
  OBVIOUS

\* A frame is sent: no number comes around while a piece of it may be taken.
LEMMA SendKeeps ==
  ASSUME IInv, NEW e \in End, NEW count \in 1 .. MaxPieces, NEW part \in 0 .. count,
         Send(e, count, part)
  PROVE  IInv'
<1> USE DEF IInv
<1> DEFINE frame == sent[e] + 1
           Cut == [kind : {"rtp"}, to : {Peer(e)}, at : {Path(e)},
                   frame : {frame}, count : {count}, index : 1 .. part]
<1>1. frame \in Nat /\ 0 < frame /\ sent[e] \in Nat /\ Peer(e) \in End /\ Peer(e) # e
      /\ sent' = [sent EXCEPT ![e] = frame] /\ \A d \in End : sent[d] \in Nat
  BY Ends DEF Types, Send
<1>2. sent' \in [End -> Nat] /\ sent'[e] = frame
      /\ (\A d \in End \ {e} : sent'[d] = sent[d])
      /\ \A d \in End : sent'[d] \in 0 .. MaxFrames[d] /\ sent[d] <= sent'[d]
  <2>1. MaxFrames[e] \in Nat /\ sent[e] < MaxFrames[e]
    BY RtpAssumption DEF Send
  <2>2. \A d \in End : sent[d] \in 0 .. MaxFrames[d]
    BY DEF Types, TypeOK
  <2> QED
    BY <1>1, <2>1, <2>2 DEF Types
<1>3. UNCHANGED <<status, clientAddress, address, seen, probed, rx, queue, last,
                  filtered, turned>>
  BY DEF Send, policy
<1>4. \A d \in End : last'[d] \in 0 .. sent'[Peer(d)]
  <2> TAKE d \in End
  <2>1. last[d] \in 0 .. sent[Peer(d)] /\ Peer(d) \in End
    BY Ends DEF Types, TypeOK
  <2> QED
    BY <1>1, <1>2, <1>3, <2>1
<1>5. \A p \in net' : p \in net \/ (p \in Cut /\ Sendable(e))
  BY DEF Send
<1>6. ASSUME NEW p \in Cut, Sendable(e)
      PROVE  /\ p \in Piece /\ p.kind = "rtp" /\ p.to = Peer(e) /\ p.frame = frame
             /\ p.index <= p.count
  <2>1. Path(e) \in Address
    BY <1>6, RtpAssumption DEF Sendable, Path, Types, TypeOK, End
  <2>2. p.index \in 1 .. MaxPieces /\ p.count \in 1 .. MaxPieces /\ p.index <= p.count
    BY ConstantsTyped
  <2> QED
    BY <1>1, <2>1, <2>2 DEF Piece
<1>7. Types'
  <2>1. net' \subseteq Probe \cup Piece
        /\ \A p \in net' : p.kind = "rtp" => p.index <= p.count
    BY <1>5, <1>6 DEF Types, TypeOK
  <2> QED
    BY <1>2, <1>3, <1>4, <2>1 DEF Types, TypeOK
<1>8. NetInv'
  <2> SUFFICES ASSUME NEW p \in net', p.kind = "rtp"
               PROVE  p.frame <= sent'[Peer(p.to)]
                      /\ sent'[Peer(p.to)] < p.frame + MaxDelay
    BY DEF NetInv
  <2>1. CASE p \in net
    <3>1. p \in Piece /\ p.to \in End /\ p.frame \in Nat /\ MaxDelay \in Nat
      BY <2>1, ConstantsTyped DEF Types, TypeOK, Probe, Piece
    <3>2. p.frame <= sent[Peer(p.to)] /\ sent[Peer(p.to)] < p.frame + MaxDelay
      BY <2>1 DEF NetInv
    <3>3. CASE p.to = Peer(e)
      <4>1. ~(p.frame + MaxDelay <= frame)
        BY <2>1, <3>3 DEF Send
      <4>2. Peer(p.to) = e
        BY <3>3, Ends
      <4> QED
        BY <1>1, <1>2, <3>1, <3>2, <4>1, <4>2
    <3>4. CASE p.to # Peer(e)
      <4>1. Peer(p.to) \in End \ {e}
        BY <3>1, <3>4, Ends
      <4> QED
        BY <1>2, <3>2, <4>1
    <3> QED
      BY <3>3, <3>4
  <2>2. CASE p \in Cut /\ Sendable(e)
    <3>1. p.frame = frame /\ Peer(p.to) = e
      BY <1>6, <2>2, Ends
    <3> QED
      BY <1>1, <1>2, <3>1, ConstantsTyped
  <2> QED
    BY <1>5, <2>1, <2>2
<1>9. \A n \in Pending(Peer(e)) : frame < n + SeqMod
  BY DEF Send
<1>10. QueueInv'
  <2> SUFFICES ASSUME NEW i \in DOMAIN queue, queue[i].kind = "rtp"
               PROVE  queue[i].frame <= sent'["client"]
                      /\ sent'["client"] < queue[i].frame + SeqMod
    BY <1>3 DEF QueueInv
  <2>1. queue[i].frame <= sent["client"] /\ sent["client"] < queue[i].frame + SeqMod
    BY DEF QueueInv
  <2>2. queue[i] \in Piece
    BY DEF Types, TypeOK, Probe, Piece
  <2>3. CASE e = "client"
    <3>1. queue[i].frame \in Pending(Peer(e))
      BY <2>3 DEF Pending, Peer
    <3> QED
      BY <1>1, <1>2, <1>9, <2>1, <2>2, <2>3, <3>1 DEF Piece
  <2>4. CASE e # "client"
    BY <1>2, <2>1, <2>4 DEF End
  <2> QED
    BY <2>3, <2>4
<1>11. ASSUME NEW d \in End, NEW n \in Nat, Assembles(d, n) PROVE Assembles(d, n)'
  <2>1. CASE d = e
    <3>1. sent'[Peer(d)] = sent[Peer(d)]
      BY <1>1, <1>2, <2>1
    <3> QED
      BY <1>3, <1>11, <3>1, AssemblesKept
  <2>2. CASE d # e
    <3>1. d = Peer(e) /\ Peer(d) = e
      BY <2>2, Ends DEF End, Peer
    <3>2. n <= sent'[Peer(d)]
      BY <1>1, <1>2, <1>11, <3>1 DEF Assembles
    <3>3. ASSUME have_incoming(d), ~rx[d].complete, rx[d].age <= FrameTime
          PROVE  sent'[Peer(d)] < n + SeqMod
      <4>1. PICK i \in DOMAIN rx[d].pieces : rx[d].pieces[i] = n
        BY <1>11, <3>3 DEF Assembles
      <4>2. n \in Pending(d)
        BY <3>3, <4>1 DEF Pending
      <4> QED
        BY <1>2, <1>9, <3>1, <4>2
    <3> QED
      BY <1>3, <1>11, <3>2, <3>3 DEF Assembles, have_incoming
  <2> QED
    BY <2>1, <2>2
<1>12. \A n : InReach(n) => InReach(n)'
  BY <1>3 DEF InReach
<1> QED
  BY <1>3, <1>7, <1>8, <1>10, <1>11, <1>12 DEF Assembling, Over

\* The thread takes a packet from the socket.
LEMMA IngressKeeps ==
  ASSUME IInv, NEW p \in net, Ingress(p)
  PROVE  IInv'
<1> USE DEF IInv
<1>1. p \in Probe \cup Piece /\ queue \in Seq(Probe \cup Piece) /\ p.to = "server"
      /\ (p.kind = "rtp" => p.index <= p.count)
      /\ UNCHANGED <<status, clientAddress, address, seen, probed, sent, rx, last,
                     filtered, turned>>
      /\ net' \subseteq net
  BY DEF Ingress, Types, TypeOK, policy
<1>2. ASSUME p.kind = "rtp"
      PROVE  /\ p.frame \in Nat /\ p.frame <= sent["client"]
             /\ sent["client"] < p.frame + MaxDelay
             /\ sent["client"] \in Nat
  BY <1>1, <1>2, Ends DEF NetInv, Types, Probe, Piece, Peer, End
<1>3. NetInv' /\ \A e \in End, n \in Nat : Assembles(e, n) => Assembles(e, n)'
  BY <1>1, AssemblesKept DEF NetInv
<1>4. CASE queue' = queue
  <2>1. Types' /\ QueueInv' /\ \A n : InReach(n) => InReach(n)'
    BY <1>1, <1>4 DEF Types, TypeOK, QueueInv, InReach
  <2> QED
    BY <1>1, <1>3, <2>1 DEF Assembling, Over
<1>5. CASE queue' = Append(queue, p) /\ Len(queue) # IngressDepth
  <2> DEFINE z == Len(queue) + 1
  <2>1. /\ queue' \in Seq(Probe \cup Piece) /\ Len(queue') = Len(queue) + 1
        /\ Len(queue) \in Nat
        /\ DOMAIN queue' = DOMAIN queue \cup {z} /\ DOMAIN queue = 1 .. Len(queue)
        /\ \A i \in DOMAIN queue : queue'[i] = queue[i]
        /\ queue'[z] = p
    BY <1>1, <1>5, Queued
  <2>2. Len(queue') <= IngressDepth
    <3>1. Len(queue) <= IngressDepth /\ IngressDepth \in Nat
          /\ Len(queue) # IngressDepth
      BY <1>5, ConstantsTyped DEF Types, TypeOK
    <3>2. Len(queue') = Len(queue) + 1 /\ Len(queue) \in Nat
      BY <2>1
    <3> HIDE DEF IInv
    <3>3. ASSUME NEW a \in Nat, NEW b \in Nat, a <= b, a # b PROVE a + 1 <= b
      BY <3>3
    <3> QED
      BY <3>1, <3>2, <3>3
  <2>3. \A i \in DOMAIN queue' : queue'[i].to = "server"
                                 /\ (queue'[i].kind = "rtp"
                                          => queue'[i].index <= queue'[i].count)
    BY <1>1, <2>1 DEF Types
  <2>4. Types'
    BY <1>1, <2>1, <2>2, <2>3 DEF Types, TypeOK
  <2>5. ASSUME NEW n \in Nat, n <= sent["client"], InReach(n) PROVE InReach(n)'
    BY <1>2, <2>1, <2>5, ConstantsTyped DEF InReach
  <2>6. QueueInv'
    <3>1. ASSUME NEW i \in DOMAIN queue, queue[i].kind = "rtp"
          PROVE  queue[i].frame \in Nat /\ queue[i].frame <= sent["client"]
                 /\ sent["client"] < queue[i].frame + SeqMod
      BY <3>1 DEF QueueInv, Types, TypeOK, Probe, Piece
    <3>2. p.kind = "rtp" => sent["client"] < p.frame + SeqMod
      BY <1>2, ConstantsTyped
    <3>3. ASSUME NEW i \in DOMAIN queue', queue'[i].kind = "rtp"
          PROVE  /\ queue'[i].frame <= sent["client"]
                 /\ sent["client"] < queue'[i].frame + SeqMod
      BY <1>2, <2>1, <3>1, <3>2, <3>3
    <3>4. ASSUME NEW i \in DOMAIN queue', queue'[i].kind = "rtp",
                 NEW j \in DOMAIN queue', i < j, queue'[j].kind = "rtp"
          PROVE  queue'[i].frame < queue'[j].frame + MaxDelay
      <4>1. i \in DOMAIN queue
        BY <2>1, <3>4
      <4>2. CASE j \in DOMAIN queue
        BY <2>1, <3>4, <4>1, <4>2 DEF QueueInv
      <4>3. CASE j = z
        BY <1>2, <2>1, <3>1, <3>4, <4>1, <4>3, ConstantsTyped
      <4> QED
        BY <2>1, <4>2, <4>3
    <3> QED
      BY <1>1, <3>3, <3>4 DEF QueueInv
  <2>7. ASSUME NEW e \in End, Assembling(e) PROVE Assembling(e)'
    <3>1. PICK n \in Nat : Assembles(e, n) /\ (e = "server" => InReach(n))
      BY <2>7 DEF Assembling
    <3>2. e = "server" => n <= sent["client"]
      BY <3>1 DEF Assembles, Peer
    <3> QED
      BY <1>3, <2>5, <3>1, <3>2 DEF Assembling
  <2> QED
    BY <1>1, <1>3, <2>4, <2>6, <2>7 DEF Over
<1> QED
  BY <1>4, <1>5 DEF Ingress

\* The packets that the ends come to are in time.
LEMMA FirstInTime ==
  ASSUME IInv, queue # <<>>
  PROVE  InTime("server", Head(queue))
<1> DEFINE p == Head(queue)
<1>1. p = queue[1] /\ 1 \in DOMAIN queue
  <2>1. queue \in Seq(Probe \cup Piece)
    BY DEF IInv, Types, TypeOK
  <2> QED
    BY <2>1, Dequeued
<1> HIDE DEF p
<1>2. InTime("server", p)
  BY <1>1 DEF InTime, IInv, Types, QueueInv, InReach, Peer
<1> QED
  BY <1>2 DEF p

LEMMA SentInTime ==
  ASSUME IInv, NEW p \in net, p.to = "client"
  PROVE  InTime("client", p)
<1> SUFFICES ASSUME p.kind = "rtp"
             PROVE  /\ p.index <= p.count
                    /\ p.frame <= sent[Peer("client")]
                    /\ sent[Peer("client")] < p.frame + SeqMod
                    /\ \A n \in Nat : n <= sent[Peer("client")]
                             => n < p.frame + MaxDelay
  BY DEF InTime, Assembles
<1>1. p.frame <= sent[Peer("client")] /\ sent[Peer("client")] < p.frame + MaxDelay
  BY DEF IInv, NetInv
<1>2. p.frame \in Nat /\ sent[Peer("client")] \in Nat /\ p.index <= p.count
  BY Ends DEF IInv, Types, TypeOK, Probe, Piece, End
<1> QED
  BY <1>1, <1>2, ConstantsTyped

\* The server comes to the first packet that waits.
LEMMA ServerPollKeeps ==
  ASSUME IInv, ServerPoll
  PROVE  IInv'
<1> USE DEF IInv
<1> DEFINE p == Head(queue)
<1>1. /\ queue \in Seq(Probe \cup Piece) /\ queue # <<>> /\ Len(queue) <= IngressDepth
      /\ queue' = Tail(queue) /\ "server" \in End
      /\ UNCHANGED <<status, clientAddress, probed, sent>> /\ Handle("server", p)
  BY DEF ServerPoll, Types, TypeOK, End
<1>2. /\ queue' \in Seq(Probe \cup Piece) /\ Len(queue') = Len(queue) - 1
      /\ Len(queue) \in Nat
      /\ p \in Probe \cup Piece /\ p = queue[1] /\ 1 \in DOMAIN queue
      /\ \A i \in DOMAIN queue' :
            i + 1 \in DOMAIN queue /\ queue'[i] = queue[i + 1] /\ i \in Nat /\ i > 0
  <2> HIDE DEF p
  <2> QED BY <1>1, Dequeued DEF p
<1>3. InTime("server", p)
  BY <1>1, FirstInTime
<1>4. /\ address' \in Address \cup {NoAddress} /\ seen' \in [End -> 0 .. ActiveTime]
      /\ filtered' \in Policies /\ turned' \in BOOLEAN
      /\ rx' \in [End -> Incoming] /\ last' \in [End -> Nat]
      /\ \A d \in End : DOMAIN rx'[d].pieces \subseteq 1 .. rx'[d].count
      /\ \A d \in End : last'[d] \in 0 .. sent[Peer(d)]
      /\ \A d \in End \ {"server"} : rx'[d] = rx[d] /\ last'[d] = last[d]
      /\ Over("server") \/ \E m, n \in Nat :
            /\ Assembles("server", m)' /\ Assembles("server", n) /\ InReach(n)
            /\ m = n \/ (p.kind = "rtp" /\ m = p.frame)
  <2> HIDE DEF p
  <2>1. /\ "server" \in End /\ p \in Probe \cup Piece /\ Handle("server", p)
        /\ InTime("server", p) /\ sent' = sent
    BY <1>1, <1>2, <1>3
  <2> HIDE DEF IInv
  <2> QED
    BY <2>1, HandleStep
<1>5. net' \subseteq net \cup ProbeTo("client", p.at)
  BY DEF ServerPoll
<1>6. ProbeTo("client", p.at) \subseteq Probe
      /\ \A x \in ProbeTo("client", p.at) : x.kind = "rtcp"
  <2>1. p.at \in Address
    BY <1>2 DEF Probe, Piece
  <2> HIDE DEF p
  <2> QED BY <2>1 DEF ProbeTo, Probe, End
<1> HIDE DEF p
<1>7. Types'
  <2>1. Len(queue') <= IngressDepth
    BY <1>1, <1>2, ConstantsTyped
  <2>2. \A i \in DOMAIN queue' : queue'[i].to = "server"
                                 /\ (queue'[i].kind = "rtp"
                                          => queue'[i].index <= queue'[i].count)
    BY <1>2 DEF Types
  <2>3. net' \subseteq Probe \cup Piece
        /\ \A x \in net' : x.kind = "rtp" => x.index <= x.count
    BY <1>5, <1>6 DEF Types, TypeOK
  <2> QED
    BY <1>1, <1>2, <1>4, <2>1, <2>2, <2>3 DEF Types, TypeOK
<1>8. NetInv'
  BY <1>1, <1>5, <1>6 DEF NetInv
<1>9. QueueInv'
  <2>1. ASSUME NEW i \in DOMAIN queue', queue'[i].kind = "rtp"
        PROVE  /\ queue'[i].frame <= sent["client"]
               /\ sent["client"] < queue'[i].frame + SeqMod
    BY <1>2, <2>1 DEF QueueInv
  <2>2. ASSUME NEW i \in DOMAIN queue', queue'[i].kind = "rtp",
               NEW j \in DOMAIN queue', i < j, queue'[j].kind = "rtp"
        PROVE  queue'[i].frame < queue'[j].frame + MaxDelay
    <3>1. i + 1 < j + 1 /\ i + 1 \in DOMAIN queue /\ j + 1 \in DOMAIN queue
      BY <1>2, <2>2
    <3> QED
      BY <1>2, <2>2, <3>1 DEF QueueInv
  <2> QED
    BY <1>1, <2>1, <2>2 DEF QueueInv
<1>10. ASSUME NEW n, InReach(n) PROVE InReach(n)'
  BY <1>2, <1>10 DEF InReach
<1>11. ASSUME p.kind = "rtp", NEW m \in Nat, m = p.frame PROVE InReach(m)'
  <2> SUFFICES ASSUME NEW i \in DOMAIN queue', queue'[i].kind = "rtp"
               PROVE  m < queue'[i].frame + MaxDelay
    BY DEF InReach
  <2>1. 1 < i + 1 /\ i + 1 \in DOMAIN queue /\ queue[i + 1].kind = "rtp"
        /\ queue[1].kind = "rtp"
    BY <1>2, <1>11
  <2> QED
    BY <1>2, <1>11, <2>1 DEF QueueInv
<1>12. ASSUME NEW e \in End, ~Over(e)' PROVE Assembling(e)'
  <2>1. ~Over(e)
    BY <1>1, <1>12 DEF Over
  <2>2. CASE e = "server"
    <3>1. PICK m, n \in Nat :
            /\ Assembles("server", m)' /\ Assembles("server", n) /\ InReach(n)
            /\ m = n \/ (p.kind = "rtp" /\ m = p.frame)
      BY <1>4, <2>1, <2>2
    <3>2. InReach(m)'
      BY <1>10, <1>11, <3>1
    <3> QED
      BY <2>2, <3>1, <3>2 DEF Assembling
  <2>3. CASE e # "server"
    <3>1. PICK n \in Nat : Assembles(e, n)
      BY <2>1 DEF Assembling
    <3>2. Assembles(e, n)'
      BY <1>1, <1>4, <2>3, <3>1, AssemblesKept
    <3> QED
      BY <2>3, <3>2 DEF Assembling
  <2> QED
    BY <2>2, <2>3
<1> QED
  BY <1>7, <1>8, <1>9, <1>12

\* The client comes to a packet.
LEMMA ClientPollKeeps ==
  ASSUME IInv, NEW p \in net, ClientPoll(p)
  PROVE  IInv'
<1> USE DEF IInv
<1>1. /\ p \in Probe \cup Piece /\ "client" \in End /\ p.to = "client"
      /\ net' \subseteq net
      /\ UNCHANGED <<status, clientAddress, probed, sent, queue>> /\ Handle("client", p)
  BY DEF ClientPoll, Types, TypeOK, End
<1>2. InTime("client", p)
  BY <1>1, SentInTime
<1>3. /\ address' \in Address \cup {NoAddress} /\ seen' \in [End -> 0 .. ActiveTime]
      /\ filtered' \in Policies /\ turned' \in BOOLEAN
      /\ rx' \in [End -> Incoming] /\ last' \in [End -> Nat]
      /\ \A d \in End : DOMAIN rx'[d].pieces \subseteq 1 .. rx'[d].count
      /\ \A d \in End : last'[d] \in 0 .. sent[Peer(d)]
      /\ \A d \in End \ {"client"} : rx'[d] = rx[d] /\ last'[d] = last[d]
      /\ Over("client") \/ \E m \in Nat : Assembles("client", m)'
  BY <1>1, <1>2, HandleStep
<1>4. Types' /\ NetInv' /\ QueueInv' /\ \A n : InReach(n) => InReach(n)'
  BY <1>1, <1>3 DEF Types, TypeOK, NetInv, QueueInv, InReach
<1>5. ASSUME NEW e \in End, ~Over(e)' PROVE Assembling(e)'
  <2>1. ~Over(e)
    BY <1>1, <1>5 DEF Over
  <2>2. CASE e = "client"
    BY <1>3, <2>1, <2>2 DEF Assembling
  <2>3. CASE e # "client"
    <3>1. PICK n \in Nat : Assembles(e, n) /\ (e = "server" => InReach(n))
      BY <2>1 DEF Assembling
    <3>2. Assembles(e, n)'
      BY <1>1, <1>3, <2>3, <3>1, AssemblesKept
    <3> QED
      BY <1>4, <3>1, <3>2 DEF Assembling
  <2> QED
    BY <2>2, <2>3
<1> QED
  BY <1>4, <1>5

\* Nothing happens.
LEMMA StutterKeeps ==
  ASSUME IInv, UNCHANGED vars
  PROVE  IInv'
<1>1. Types' /\ NetInv' /\ QueueInv' /\ \A n : InReach(n) => InReach(n)'
  BY DEF IInv, vars, wire, policy, Types, TypeOK, NetInv, QueueInv, InReach
<1>2. ASSUME NEW e \in End, NEW n \in Nat, Assembles(e, n) PROVE Assembles(e, n)'
  BY <1>2, AssemblesKept DEF vars
<1> QED
  BY <1>1, <1>2 DEF IInv, Assembling, Over, vars

\* Every step keeps the invariant, ...
LEMMA StepInv == IInv /\ [Next]_vars => IInv'
<1> SUFFICES ASSUME IInv, [Next]_vars PROVE IInv'
  OBVIOUS
<1>1. ASSUME NEW e \in End, Attach(e) \/ Invalidate(e) \/ Detach(e) \/ Close(e)
      PROVE IInv'
  BY <1>1, AttachmentsKeep
<1>2. ASSUME NEW e \in End, NEW count \in 1 .. MaxPieces, NEW part \in 0 .. count,
             Send(e, count, part)
      PROVE  IInv'
  BY <1>2, SendKeeps
<1>3. ASSUME NEW p \in net, Ingress(p) \/ ClientPoll(p) \/ Lose(p) PROVE IInv'
  BY <1>3, IngressKeeps, ClientPollKeeps, LoseKeeps
<1>4. CASE SendProbe \/ ServerPoll \/ Move \/ Tick
  BY <1>4, ProbeKeeps, ServerPollKeeps, MoveKeeps, TickKeeps
<1>5. ASSUME NEW refused \in Policies, SetPolicy(refused) PROVE IInv'
  BY <1>5, PolicyKeeps
<1>6. CASE UNCHANGED vars
  BY <1>6, StutterKeeps
<1> QED
  BY <1>1, <1>2, <1>3, <1>4, <1>5, <1>6 DEF Next

\* ... so it always holds.
LEMMA AlwaysInv == Spec => []IInv
  BY InitInv, StepInv, PTL DEF Spec

\* Every variable has its type; the ingress queue keeps within RR_RTP_INGRESS_DEPTH
\* (rtp.socket.c:86) and no end hands on a frame that was not sent.
THEOREM RtpTypes == Spec => []TypeOK
<1>1. IInv => TypeOK
  BY DEF IInv, Types
<1> QED
  BY <1>1, AlwaysInv, PTL

-----------------------------------------------------------------------------
(* The transport implements the stream of frames. *)

\* A packet in time delivers one frame of the stream, or nothing.
LEMMA PollDelivers ==
  ASSUME IInv, NEW e \in End, NEW p \in Probe \cup Piece, Handle(e, p), InTime(e, p),
         sent' = sent
  PROVE  Stream!Deliver(e) \/ last' = last
<1>1. \/ last' = last
      \/ \E m \in (last[e] + 1) .. sent[Peer(e)] : last' = [last EXCEPT ![e] = m]
  BY HandleStep
<1> QED
  BY <1>1 DEF Stream!Deliver

\* Every step is one of the stream, or leaves it alone.
LEMMA StreamStep ==
  ASSUME IInv, [Next]_vars
  PROVE  [Stream!Next]_<<[e \in End |-> sent[Peer(e)]], last>>
<1> DEFINE put == [e \in End |-> sent[Peer(e)]]
<1>1. CASE UNCHANGED <<sent, last>>
  BY <1>1
<1>2. ASSUME NEW e \in End, NEW count \in 1 .. MaxPieces, NEW part \in 0 .. count,
             Send(e, count, part)
      PROVE  Stream!Put(Peer(e))
  <2>1. sent' = [sent EXCEPT ![e] = sent[e] + 1] /\ sent \in [End -> Nat]
        /\ last' = last
    BY <1>2 DEF Send, IInv, Types
  <2>2. ASSUME NEW d \in End
        PROVE  put'[d] = IF d = Peer(e) THEN put[d] + 1 ELSE put[d]
    BY <2>1, Ends
  <2>3. put' = [put EXCEPT ![Peer(e)] = put[Peer(e)] + 1]
    BY <2>2, Ends
  <2> QED
    BY <2>1, <2>3 DEF Stream!Put
<1>3. CASE ServerPoll
  <2>1. /\ queue # <<>> /\ queue \in Seq(Probe \cup Piece) /\ "server" \in End
        /\ Handle("server", Head(queue)) /\ sent' = sent
    BY <1>3 DEF ServerPoll, IInv, Types, TypeOK, End
  <2>2. Head(queue) \in Probe \cup Piece
    BY <2>1, Dequeued
  <2>3. Stream!Deliver("server") \/ last' = last
    BY <2>1, <2>2, FirstInTime, PollDelivers
  <2> QED
    BY <2>1, <2>3 DEF Stream!Next
<1>4. ASSUME NEW p \in net, ClientPoll(p)
      PROVE  [Stream!Next]_<<put, last>>
  <2>1. /\ p \in Probe \cup Piece /\ p.to = "client" /\ "client" \in End
        /\ Handle("client", p) /\ sent' = sent
    BY <1>4 DEF ClientPoll, IInv, Types, TypeOK, End
  <2>2. Stream!Deliver("client") \/ last' = last
    BY <2>1, SentInTime, PollDelivers
  <2> QED
    BY <2>1, <2>2 DEF Stream!Next
<1>5. ASSUME NEW e \in End, Attach(e) \/ Invalidate(e) \/ Detach(e) \/ Close(e)
      PROVE  UNCHANGED <<sent, last>>
  BY <1>5 DEF Attach, Invalidate, Detach, Close
<1>6. ASSUME NEW p \in net, Ingress(p) \/ Lose(p)
      PROVE  UNCHANGED <<sent, last>>
  BY <1>6 DEF Ingress, Lose
<1>7. CASE SendProbe \/ Move \/ Tick
  BY <1>1, <1>7 DEF SendProbe, Move, Tick
<1>8. ASSUME NEW refused \in Policies, SetPolicy(refused) PROVE UNCHANGED <<sent, last>>
  BY <1>8 DEF SetPolicy
<1>9. CASE UNCHANGED vars
  BY <1>1, <1>9 DEF vars
<1> QED
  BY <1>1, <1>2, <1>3, <1>4, <1>5, <1>6, <1>7, <1>8, <1>9, Ends DEF Next, Stream!Next

\* An end hands on frames of the other end, whole, in order and once, whatever the
\* network does to the pieces and across the wrap of the number (rr_rtp_receive).
THEOREM StreamImplemented == Spec => StreamSpec
<1>1. Init => Stream!Init
  BY Ends DEF Init, Stream!Init
<1>2. IInv /\ [Next]_vars => [Stream!Next]_<<[e \in End |-> sent[Peer(e)]], last>>
  BY StreamStep
<1> QED
  BY <1>1, <1>2, AlwaysInv, PTL DEF Spec, StreamSpec, Stream!Spec

-----------------------------------------------------------------------------
(* A server that is willing to send knows where to. *)

\* Before the server knows the client, nothing but probes is under way to it, and
\* nothing to the client.
Unheard ==
    ~Over("server") /\ address = NoAddress =>
        /\ \A p \in net : p.kind = "rtcp" /\ p.to = "server"
        /\ \A i \in DOMAIN queue : queue[i].kind = "rtcp"
        /\ seen["client"] = ActiveTime
        /\ seen["server"] = ActiveTime

\* The address the server knows passed the filter when it last took a packet, so it
\* is refused only after the filter changed.
PathInv ==
    /\ Unheard
    /\ ~Over("server") => address = NoAddress \/ turned \/ address \notin filtered

\* Every step keeps what the server knows of the client.
LEMMA PathStep ==
  ASSUME IInv, IInv', PathInv, [Next]_vars
  PROVE  PathInv'
<1> USE DEF PathInv
<1>1. /\ "server" \in End /\ "client" \in End /\ Peer("client") = "server"
      /\ Peer("server") = "client"
      /\ status \in [End -> {"open", "attached", "invalid", "detached", "closed"}]
      /\ seen \in [End -> 0 .. ActiveTime] /\ queue \in Seq(Probe \cup Piece)
      /\ net \subseteq Probe \cup Piece
  BY DEF End, Peer, IInv, Types, TypeOK
<1>2. CASE UNCHANGED <<status, address, seen, net, queue, filtered, turned>>
  BY <1>2 DEF Unheard, Over
<1>3. ASSUME NEW e \in End, Attach(e) \/ Invalidate(e) PROVE PathInv'
  BY <1>1, <1>3 DEF Attach, Invalidate, Unheard, Over, wire, policy
<1>4. ASSUME NEW e \in End, Detach(e) \/ Close(e) PROVE PathInv'
  <2>1. CASE e = "server"
    BY <1>1, <1>4, <2>1 DEF Detach, Close, Over, Unheard
  <2>2. CASE e # "server"
    BY <1>1, <1>4, <2>2 DEF Detach, Close, Reset, Over, Unheard, wire, policy
  <2> QED BY <2>1, <2>2
<1>5. ASSUME NEW e \in End, NEW count \in 1 .. MaxPieces, NEW part \in 0 .. count,
             Send(e, count, part)
      PROVE  PathInv'
  <2>1. seen[e] < ActiveTime /\ ActiveTime \in Nat
        /\ UNCHANGED <<status, address, seen, queue, filtered, turned>>
    BY <1>5, ConstantsTyped DEF Send, Active, policy
  <2>2. ~(~Over("server") /\ address = NoAddress)
    BY <1>1, <2>1 DEF Unheard, End
  <2> QED
    BY <2>1, <2>2 DEF Unheard, Over
<1>6. CASE SendProbe
  BY <1>6 DEF SendProbe, ProbeTo, Unheard, Over, policy
<1>7. ASSUME NEW p \in net, Lose(p) PROVE PathInv'
  BY <1>7 DEF Lose, Unheard, Over, policy
<1>8. ASSUME NEW p \in net, Ingress(p) PROVE PathInv'
  <2>1. UNCHANGED <<status, address, seen, filtered, turned>> /\ net' \subseteq net
        /\ (queue' = queue \/ queue' = Append(queue, p))
    BY <1>8 DEF Ingress, policy
  <2>2. ASSUME p.kind = "rtcp", \A i \in DOMAIN queue : queue[i].kind = "rtcp"
        PROVE  \A i \in DOMAIN queue' : queue'[i].kind = "rtcp"
    BY <1>1, <2>1, <2>2, Queued
  <2> QED
    BY <2>1, <2>2 DEF Unheard, Over
<1>9. CASE ServerPoll
  <2> DEFINE p == Head(queue)
  <2>1. /\ UNCHANGED status /\ queue # <<>> /\ Handle("server", p)
        /\ queue' = Tail(queue)
        /\ net' = IF Passes("server", p) /\ p.kind = "rtcp"
                  THEN net \cup ProbeTo("client", p.at) ELSE net
    BY <1>9 DEF ServerPoll
  <2>2. /\ p \in Probe \cup Piece /\ p = queue[1] /\ 1 \in DOMAIN queue
        /\ \A i \in DOMAIN queue' : i + 1 \in DOMAIN queue /\ queue'[i] = queue[i + 1]
    BY <1>1, <2>1, Dequeued
  <2> HIDE DEF p
  <2>3. p.at \in Address /\ p.at # NoAddress
    BY <2>2, ConstantsTyped DEF Probe, Piece
  <2>4. CASE TakeProbe("server", p)
    BY <2>1, <2>3, <2>4 DEF TakeProbe, Passes, Unheard, Over
  <2>5. CASE ~TakeProbe("server", p) /\ Refuse("server", p)
    <3>1. UNCHANGED <<address, seen, filtered, turned>>
      BY <2>5 DEF Refuse, policy
    <3>2. ~(Passes("server", p) /\ p.kind = "rtcp")
      BY <2>5 DEF Refuse
    <3> QED
      BY <2>1, <2>2, <3>1, <3>2 DEF Unheard, Over
  <2>6. CASE TakePiece("server", p)
    <3>1. UNCHANGED <<address, filtered>> /\ p.kind = "rtp" /\ Passes("server", p)
      BY <2>6 DEF TakePiece
    <3>2. ~Over("server") => address # NoAddress
      BY <2>2, <3>1 DEF Unheard
    <3>3. ~Over("server") => address \notin filtered
      BY <3>1, <3>2 DEF Passes
    <3> QED
      BY <2>1, <3>1, <3>2, <3>3 DEF Unheard, Over
  <2> QED
    BY <2>1, <2>4, <2>5, <2>6 DEF Handle
<1>10. ASSUME NEW p \in net, ClientPoll(p) PROVE PathInv'
  <2>1. /\ UNCHANGED <<status, queue>> /\ Handle("client", p) /\ net' \subseteq net
        /\ p.to = "client"
    BY <1>10 DEF ClientPoll
  <2>2. ~(~Over("server") /\ address = NoAddress)
    BY <2>1 DEF Unheard
  <2>3. UNCHANGED <<address, filtered>> /\ (turned => turned')
    <3>1. CASE Refuse("client", p)
      BY <3>1 DEF Refuse, policy
    <3>2. CASE TakeProbe("client", p)
      BY <3>2 DEF TakeProbe
    <3>3. CASE TakePiece("client", p)
      BY <3>3 DEF TakePiece
    <3> QED
      BY <2>1, <3>1, <3>2, <3>3 DEF Handle
  <2> QED
    BY <2>1, <2>2, <2>3 DEF Unheard, Over
<1>11. CASE Tick
  <2>1. ASSUME NEW e \in End, seen[e] = ActiveTime PROVE seen'[e] = ActiveTime
    BY <1>11, <2>1, ConstantsTyped DEF Tick, Older
  <2> QED
    BY <1>1, <1>11, <2>1 DEF Tick, wire, policy, Unheard, Over
<1>12. CASE Move
  BY <1>2, <1>12 DEF Move, wire, policy
<1>13. ASSUME NEW refused \in Policies, SetPolicy(refused) PROVE PathInv'
  BY <1>13 DEF SetPolicy, wire, Unheard, Over
<1>14. CASE UNCHANGED vars
  BY <1>2, <1>14 DEF vars, wire
<1> QED
  BY <1>3, <1>4, <1>5, <1>6, <1>7, <1>8, <1>9, <1>10, <1>11, <1>12, <1>13, <1>14
  DEF Next

\* A server that is willing to send knows the client's address, and the filter lets it
\* through unless it changed since the server last heard from the client
\* (rtp.socket.c:280, 380).
THEOREM ActiveReaches == Spec => []ActiveMeansReachable
<1>1. Init => PathInv
  BY ConstantsTyped DEF Init, PathInv, Unheard, End
<1>2. IInv /\ IInv' /\ PathInv /\ [Next]_vars => PathInv'
  BY PathStep
<1>3. IInv /\ PathInv => ActiveMeansReachable
  <2> SUFFICES ASSUME IInv, PathInv, Active("server")
                 PROVE  address # NoAddress /\ (turned \/ address \notin filtered)
    BY DEF ActiveMeansReachable
  <2>1. ~Over("server") /\ seen["server"] # ActiveTime
    BY ConstantsTyped DEF Active, attached, Over, IInv, Types, TypeOK, End
  <2>2. address # NoAddress
    BY <2>1 DEF PathInv, Unheard
  <2> QED
    BY <2>1, <2>2 DEF PathInv
<1> QED
  BY <1>1, <1>2, <1>3, AlwaysInv, PTL DEF Spec
====
