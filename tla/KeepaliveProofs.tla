--------------------------- MODULE KeepaliveProofs ---------------------------
(* Theorems about the keep-alive, for any times, tries and connections.    *)
EXTENDS Keepalive, TLAPS

-----------------------------------------------------------------------------
(* The inductive invariant *)

\* The age that the first of a series of pings has at least, when its k-th has
\* just been sent.
Patience(k) == (k - 1) * (HTTP_PING_TIMEOUT + 1)

\* A series of pings to a live peer is as old as its attempts make it, and the
\* answer to its first ping is still under way.
AnswerUnderWay ==
    \A c \in Client :
        conn[c] = "open" /\ alive[c] /\ last_ping[c] # NoPing =>
            /\ ping_attempts[c] # 0
            /\ \E age \in in_flight[c] : age >= last_ping[c] + Patience(ping_attempts[c])

\* Attempts are only counted within a series.
NoSeries ==
    \A c \in Client : conn[c] = "open" /\ last_ping[c] = NoPing => ping_attempts[c] = 0

AnswersInTime == \A c \in Client : \A age \in in_flight[c] : age <= Latency

KeptInv == TypeOK /\ AnswerUnderWay /\ NoSeries /\ AnswersInTime /\ LivePeerKept

-----------------------------------------------------------------------------
(* Arithmetic *)

\* Each attempt adds one timeout.
LEMMA PatienceGrows ==
  ASSUME NEW k \in Nat \ {0}
  PROVE  /\ Patience(k) \in Nat
         /\ Patience(k + 1) = Patience(k) + HTTP_PING_TIMEOUT + 1
<1> DEFINE d == HTTP_PING_TIMEOUT + 1
<1>1. d \in Nat
  BY KeepaliveAssumption
<1>2. PICK j \in Nat : k = j + 1
  <2>1. k - 1 \in Nat /\ k = (k - 1) + 1
    OBVIOUS
  <2> QED
    BY <2>1
<1> HIDE DEF d
<1>3. j * d \in Nat /\ (j + 1) * d = j * d + d
  BY <1>1
<1>4. k - 1 = j /\ (k + 1) - 1 = j + 1
  BY <1>2
<1>5. Patience(k) = j * d /\ Patience(k + 1) = (j + 1) * d
  BY <1>4 DEF Patience, d
<1>6. Patience(k + 1) = Patience(k) + d
  BY <1>3, <1>5
<1>7. \A p \in Nat : p + d = p + HTTP_PING_TIMEOUT + 1
  BY KeepaliveAssumption DEF d
<1> QED
  BY <1>3, <1>5, <1>6, <1>7

\* When the last attempt times out, the first ping is older than any answer.
LEMMA PatienceEnds ==
  Patience(HTTP_PING_TRIES) + HTTP_PING_TIMEOUT + 1 > Latency
<1>1. Patience(HTTP_PING_TRIES + 1) = HTTP_PING_TRIES * (HTTP_PING_TIMEOUT + 1)
  <2>1. (HTTP_PING_TRIES + 1) - 1 = HTTP_PING_TRIES
    BY KeepaliveAssumption
  <2> QED
    BY <2>1 DEF Patience
<1>2. Patience(HTTP_PING_TRIES + 1) = Patience(HTTP_PING_TRIES) + HTTP_PING_TIMEOUT + 1
  BY PatienceGrows, KeepaliveAssumption
<1> QED
  BY <1>1, <1>2, KeepaliveAssumption

\* Ages are numbers below NoPing, and grow by at most one.
LEMMA Ages ==
  /\ Horizon \in Nat /\ NoPing = Horizon + 1 /\ NoPing \notin Age /\ 0 \in Age
  /\ \A age \in Age : Older(age) \in Age /\ Older(age) <= age + 1
  /\ \A age \in Age : age < Latency => Older(age) = age + 1
BY KeepaliveAssumption DEF Horizon, NoPing, Age, Older

-----------------------------------------------------------------------------
(* The steps *)

LEMMA KeptInit ==
  ASSUME Init
  PROVE  KeptInv
<1>1. Horizon \in Age /\ 0 \in 0 .. HTTP_PING_TRIES
  BY Ages, KeepaliveAssumption DEF Age
<1>2. TypeOK
  BY <1>1 DEF Init, TypeOK
<1>3. AnswerUnderWay /\ NoSeries /\ AnswersInTime /\ LivePeerKept
  BY DEF Init, AnswerUnderWay, NoSeries, AnswersInTime, LivePeerKept
<1> QED
  BY <1>2, <1>3 DEF KeptInv

\* No live peer is out of attempts.
LEMMA NeverExhausted ==
  ASSUME KeptInv, NEW c \in Client, conn[c] = "open", alive[c], PingOverdue(c)
  PROVE  ping_attempts[c] < HTTP_PING_TRIES
<1>1. /\ ping_attempts[c] \in 1 .. HTTP_PING_TRIES /\ last_ping[c] \in Nat
      /\ last_ping[c] > HTTP_PING_TIMEOUT
  BY Ages DEF KeptInv, TypeOK, AnswerUnderWay, PingOverdue, Age
<1>2. PICK age \in in_flight[c] : age >= last_ping[c] + Patience(ping_attempts[c])
  BY DEF KeptInv, AnswerUnderWay, PingOverdue
<1>3. age \in Nat /\ age <= Latency
  BY DEF KeptInv, TypeOK, AnswersInTime, Age
<1>4. SUFFICES ASSUME ping_attempts[c] = HTTP_PING_TRIES
               PROVE  FALSE
  BY <1>1, KeepaliveAssumption
<1>5. Patience(HTTP_PING_TRIES) \in Nat
  BY PatienceGrows, KeepaliveAssumption
<1> QED
  BY <1>1, <1>2, <1>3, <1>4, <1>5, PatienceEnds, KeepaliveAssumption

\* A visit of the housekeeping pings again, or drops a peer that is gone.
LEMMA ExpireStep ==
  ASSUME KeptInv, NEW c \in Client, ExpireSessions(c)
  PROVE  KeptInv'
<1> USE DEF KeptInv
<1>1. conn[c] = "open" /\ UNCHANGED <<last_heard, alive>>
  BY DEF ExpireSessions
<1>2. CASE PingOverdue(c) /\ ping_attempts[c] >= HTTP_PING_TRIES /\ Kick(c)
  <2>1. ~alive[c]
    <3>1. ping_attempts[c] \in 0 .. HTTP_PING_TRIES
      BY DEF TypeOK
    <3> QED
      BY <1>1, <1>2, <3>1, NeverExhausted, KeepaliveAssumption
  <2> QED
    BY <1>1, <1>2, <2>1
    DEF Kick, TypeOK, AnswerUnderWay, NoSeries, AnswersInTime, LivePeerKept
<1>3. CASE /\ \/ PingOverdue(c) /\ ping_attempts[c] < HTTP_PING_TRIES
              \/ Silent(c)
           /\ SendPing(c)
  <2>1. ping_attempts[c] \in Nat /\ ping_attempts[c] + 1 \in 0 .. HTTP_PING_TRIES
    BY <1>1, <1>3, KeepaliveAssumption DEF TypeOK, NoSeries, Silent
  <2>2. TypeOK'
    BY <1>1, <1>3, <2>1, Ages DEF SendPing, TypeOK
  <2>3. NoSeries' /\ LivePeerKept'
    BY <1>1, <1>3, Ages DEF SendPing, TypeOK, NoSeries, LivePeerKept
  <2>4. AnswersInTime'
    BY <1>1, <1>3, KeepaliveAssumption DEF SendPing, TypeOK, AnswersInTime
  <2>5. AnswerUnderWay'
    <3> SUFFICES ASSUME NEW d \in Client, conn[d] = "open", alive[d],
                        last_ping'[d] # NoPing
                 PROVE  /\ ping_attempts'[d] # 0
                        /\ \E age \in in_flight'[d] :
                              age >= last_ping'[d] + Patience(ping_attempts'[d])
      BY <1>1, <1>3 DEF AnswerUnderWay, SendPing
    <3>1. CASE d # c
      BY <1>3, <3>1 DEF SendPing, TypeOK, AnswerUnderWay
    <3>2. CASE d = c
      <4>1. /\ last_ping'[c] = 0 /\ ping_attempts'[c] = ping_attempts[c] + 1
            /\ in_flight'[c] = in_flight[c] \cup {0}
        BY <1>3, <3>2 DEF SendPing, TypeOK
      <4>2. CASE Silent(c)
        <5>1. ping_attempts[c] = 0
          BY <1>1, <4>2 DEF NoSeries, Silent
        <5>2. Patience(1) = 0
          BY KeepaliveAssumption DEF Patience
        <5> QED
          BY <3>2, <4>1, <5>1, <5>2
      <4>3. CASE PingOverdue(c)
        <5>1. /\ ping_attempts[c] \in Nat \ {0}
              /\ last_ping[c] \in Nat /\ last_ping[c] > HTTP_PING_TIMEOUT
          BY <1>1, <2>1, <3>2, <4>3, Ages DEF TypeOK, AnswerUnderWay, PingOverdue, Age
        <5>2. PICK age \in in_flight[c] :
                     age >= last_ping[c] + Patience(ping_attempts[c])
          BY <1>1, <3>2, <4>3 DEF AnswerUnderWay, PingOverdue
        <5>3. age \in Nat
          BY DEF TypeOK, Age
        <5>4. /\ Patience(ping_attempts[c]) \in Nat
              /\ Patience(ping_attempts[c] + 1)
                    = Patience(ping_attempts[c]) + HTTP_PING_TIMEOUT + 1
          BY <5>1, PatienceGrows
        <5>5. age >= Patience(ping_attempts[c] + 1)
          BY <5>1, <5>2, <5>3, <5>4, KeepaliveAssumption
        <5>6. 0 + Patience(ping_attempts[c] + 1) = Patience(ping_attempts[c] + 1)
          BY <5>4, KeepaliveAssumption
        <5> QED
          BY <3>2, <4>1, <5>1, <5>2, <5>5, <5>6
      <4> QED
        BY <1>3, <4>2, <4>3
    <3> QED
      BY <3>1, <3>2
  <2> QED
    BY <2>2, <2>3, <2>4, <2>5
<1> QED
  BY <1>2, <1>3 DEF ExpireSessions

\* An answer ends the series; none is late.
LEMMA PongStep ==
  ASSUME KeptInv, NEW c \in Client, NEW age \in Age, HandlePong(c, age)
  PROVE  KeptInv'
<1> USE DEF KeptInv
<1>1. ~(age > HTTP_PING_TIME)
  BY KeepaliveAssumption DEF HandlePong, AnswersInTime, Age
<1>2. /\ conn[c] = "open" /\ UNCHANGED <<conn, alive>>
      /\ last_heard' = [last_heard EXCEPT ![c] = 0]
      /\ last_ping' = [last_ping EXCEPT ![c] = NoPing]
      /\ ping_attempts' = [ping_attempts EXCEPT ![c] = 0]
      /\ in_flight' = [in_flight EXCEPT ![c] = @ \ {age}]
  BY <1>1 DEF HandlePong
<1>3. TypeOK'
  BY <1>2, Ages, KeepaliveAssumption DEF TypeOK
<1>4. AnswerUnderWay' /\ NoSeries'
  BY <1>2, Ages DEF TypeOK, AnswerUnderWay, NoSeries
<1>5. AnswersInTime' /\ LivePeerKept'
  BY <1>2 DEF TypeOK, AnswersInTime, LivePeerKept
<1> QED
  BY <1>3, <1>4, <1>5

\* As a second passes, a series and the answer to its first ping age alike.
LEMMA TickStep ==
  ASSUME KeptInv, Tick
  PROVE  KeptInv'
<1> USE DEF KeptInv
<1>1. TypeOK'
  <2>1. last_heard' \in [Client -> Age]
    BY Ages DEF Tick, TypeOK
  <2>2. last_ping' \in [Client -> Age \cup {NoPing}]
    <3>1. \A c \in Client : last_ping[c] # NoPing => Older(last_ping[c]) \in Age
      BY Ages DEF TypeOK
    <3> QED
      BY <3>1 DEF Tick
  <2>3. in_flight' \in [Client -> SUBSET Age]
    <3>1. \A c \in Client : \A age \in in_flight[c] : Older(age) \in Age
      BY Ages DEF TypeOK
    <3> QED
      BY <3>1 DEF Tick
  <2> QED
    BY <2>1, <2>2, <2>3 DEF Tick, TypeOK
<1>2. \A c \in Client : \A age \in in_flight[c] :
         age \in Nat /\ age + 1 <= Latency /\ Older(age) = age + 1
  <2> SUFFICES ASSUME NEW c \in Client, NEW age \in in_flight[c]
               PROVE  age \in Nat /\ age + 1 <= Latency /\ Older(age) = age + 1
    OBVIOUS
  <2>1. age \in Age /\ age \in Nat /\ age < Latency
    BY DEF Tick, TypeOK, Age
  <2> QED
    BY <2>1, Ages, KeepaliveAssumption
<1>3. AnswersInTime'
  BY <1>2 DEF Tick, AnswersInTime
<1>4. NoSeries' /\ LivePeerKept'
  BY Ages DEF Tick, TypeOK, NoSeries, LivePeerKept
<1>5. AnswerUnderWay'
  <2> SUFFICES ASSUME NEW c \in Client, conn[c] = "open", alive[c],
                      last_ping'[c] # NoPing
               PROVE  /\ ping_attempts[c] # 0
                      /\ \E age \in in_flight'[c] :
                            age >= last_ping'[c] + Patience(ping_attempts[c])
    BY DEF Tick, AnswerUnderWay
  <2>1. last_ping[c] # NoPing /\ last_ping[c] \in Age
    BY DEF Tick, TypeOK
  <2>2. /\ last_ping[c] \in Nat /\ last_ping'[c] \in Nat
        /\ last_ping'[c] <= last_ping[c] + 1
    BY <2>1, Ages DEF Tick, Age
  <2>3. ping_attempts[c] \in Nat \ {0}
    BY <2>1 DEF TypeOK, AnswerUnderWay
  <2>4. PICK age \in in_flight[c] : age >= last_ping[c] + Patience(ping_attempts[c])
    BY <2>1 DEF AnswerUnderWay
  <2>5. age + 1 \in in_flight'[c]
    BY <1>2 DEF Tick
  <2>6. Patience(ping_attempts[c]) \in Nat
    BY <2>3, PatienceGrows
  <2>7. age + 1 >= last_ping'[c] + Patience(ping_attempts[c])
    BY <1>2, <2>2, <2>4, <2>6
  <2> QED
    BY <2>3, <2>5, <2>7
<1> QED
  BY <1>1, <1>3, <1>4, <1>5

\* Every step keeps the invariant.
LEMMA KeptNext ==
  ASSUME KeptInv, [Next]_vars
  PROVE  KeptInv'
<1> USE DEF KeptInv
<1>1. ASSUME NEW c \in Client, NEW heard \in {0, Horizon}, Connect(c, heard)
      PROVE  KeptInv'
  BY <1>1, Ages, KeepaliveAssumption
  DEF Connect, TypeOK, AnswerUnderWay, NoSeries, AnswersInTime, LivePeerKept, Age
<1>2. ASSUME NEW c \in Client, Close(c)
      PROVE  KeptInv'
  BY <1>2 DEF Close, TypeOK, AnswerUnderWay, NoSeries, AnswersInTime, LivePeerKept
<1>3. ASSUME NEW c \in Client, HandleMessage(c)
      PROVE  KeptInv'
  BY <1>3, Ages
  DEF HandleMessage, TypeOK, AnswerUnderWay, NoSeries, AnswersInTime, LivePeerKept
<1>4. ASSUME NEW c \in Client, Vanish(c)
      PROVE  KeptInv'
  BY <1>4 DEF Vanish, TypeOK, AnswerUnderWay, NoSeries, AnswersInTime, LivePeerKept
<1>5. CASE UNCHANGED vars
  BY <1>5 DEF vars, TypeOK, AnswerUnderWay, NoSeries, AnswersInTime, LivePeerKept
<1> QED
  BY <1>1, <1>2, <1>3, <1>4, <1>5, ExpireStep, PongStep, TickStep DEF Next

-----------------------------------------------------------------------------
(* Theorems *)

LEMMA Kept == Spec => []KeptInv
BY KeptInit, KeptNext, PTL DEF Spec

\* Every reachable state is well typed; in particular no connection is pinged
\* more often than HTTP_PING_TRIES without an answer (ws_send_ping).
THEOREM KeepaliveTypeCorrect == Spec => []TypeOK
<1>1. KeptInv => TypeOK
  BY DEF KeptInv
<1> QED
  BY <1>1, Kept, PTL

\* The housekeeping (http_expire_sessions) never kicks a peer that answers
\* every ping before the last attempt has timed out.
THEOREM LivePeersKept == Spec => []LivePeerKept
<1>1. KeptInv => LivePeerKept
  BY DEF KeptInv
<1> QED
  BY <1>1, Kept, PTL
=============================================================================
