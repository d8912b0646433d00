------------------------------ MODULE ClientProofs ------------------------------
(***************************************************************************)
(* What the handshake and the login keep for any number of transports,     *)
(* switches and faults: types, answers that count only on the transport    *)
(* they were given on, capabilities before the login, and a flag that      *)
(* stands for a transport.                                                 *)
(*                                                                         *)
(* What is under way is described by the sets of messages that a queue may *)
(* hold; they grow with what the histories note, until the transport's     *)
(* name is used again, when its queues are empty.                          *)
(***************************************************************************)
EXTENDS Client, SequenceTheorems, TLAPS

\* A login is under way only to a server that agreed, or after a crossing; an
\* answer with the transport's own token was given there.
LoginAllowed(k) == acked[k] \/ crossed[k]

ToServer(k) ==
    {m \in [type : {"cap", "hello", "login", "logout"}] : m.type = "login" => LoginAllowed(k)}
    \cup {m \in [type : {"pass"}, token : Conn, nonce : Nat] :
              m.token = k => m.nonce \in answered[k]}

\* The agreement is told only once it was made; a challenge names its transport.
ToClient(k) ==
    {m \in [type : {"upgrade", "other", "hello", "ack", "nak", "authorized", "error"}] :
              m.type = "ack" => acked[k]}
    \cup [type : {"challenge"}, token : {k}, nonce : Nat]

Wires ==
    /\ DOMAIN to_server = Conn
    /\ DOMAIN to_client = Conn
    /\ \A k \in Conn : to_server[k] \in Seq(ToServer(k))
    /\ \A k \in Conn : to_client[k] \in Seq(ToClient(k))

Shapes ==
    /\ acked \in [Conn -> BOOLEAN]
    /\ user \in [Conn -> BOOLEAN]
    /\ nonce \in [Conn -> Nat]
    /\ logged_in \in [Conn -> BOOLEAN]
    /\ answered \in [Conn -> SUBSET Nat]
    /\ crossed \in [Conn -> BOOLEAN]

IInv ==
    /\ TypeOK
    /\ Shapes
    /\ Wires
    /\ OwnChallengeAnswered
    /\ CapabilitiesFirst
    /\ ConnectedMeansOpen

-----------------------------------------------------------------------------
(* Queues *)

\* What the histories of a transport note only grows.
Grows(k) ==
    /\ acked[k] => acked'[k]
    /\ crossed[k] => crossed'[k]
    /\ answered[k] \subseteq answered'[k]

\* A message that may be under way still may be when the histories grow.
LEMMA MessagesStay ==
  ASSUME NEW k \in Conn, Grows(k)
  PROVE  ToServer(k) \subseteq ToServer(k)' /\ ToClient(k) \subseteq ToClient(k)'
<1>1. ToServer(k) \subseteq ToServer(k)'
  BY DEF Grows, ToServer, LoginAllowed
<1>2. ToClient(k) \subseteq ToClient(k)'
  BY DEF Grows, ToClient
<1> QED
  BY <1>1, <1>2

\* A queue stays what it may be, as messages go and come.
LEMMA QueueStays ==
  ASSUME NEW Now, NEW Then, NEW queue \in Seq(Now), NEW next,
         \/ next = <<>>
         \/ /\ Now \subseteq Then
            /\ \/ next = queue
               \/ queue # <<>> /\ next = Tail(queue)
               \/ \E ms \in Seq(Then) : next = queue \o ms
  PROVE  next \in Seq(Then)
<1>1. CASE next = <<>>
  BY <1>1, EmptySeq
<1>2. CASE Now \subseteq Then /\ next = queue
  BY <1>2, SeqMonotonic
<1>3. CASE Now \subseteq Then /\ queue # <<>> /\ next = Tail(queue)
  <2>1. Tail(queue) \in Seq(Now)
    BY <1>3, HeadTailProperties
  <2> QED
    BY <1>3, <2>1, SeqMonotonic
<1>4. ASSUME Now \subseteq Then, NEW ms \in Seq(Then), next = queue \o ms
      PROVE  next \in Seq(Then)
  <2>1. queue \in Seq(Then)
    BY <1>4, SeqMonotonic
  <2> QED
    BY <1>4, <2>1, ConcatProperties
<1> QED
  BY <1>1, <1>2, <1>3, <1>4

\* So the queue to the server holds what it may,
LEMMA ServerQueue ==
  ASSUME Wires, NEW k \in Conn,
         \/ to_server'[k] = <<>>
         \/ /\ Grows(k)
            /\ \/ to_server'[k] = to_server[k]
               \/ to_server[k] # <<>> /\ to_server'[k] = Tail(to_server[k])
               \/ \E ms \in Seq(ToServer(k)') : to_server'[k] = to_server[k] \o ms
  PROVE  to_server'[k] \in Seq(ToServer(k)')
<1>1. to_server[k] \in Seq(ToServer(k))
  BY DEF Wires
<1>2. Grows(k) => ToServer(k) \subseteq ToServer(k)'
  BY MessagesStay
<1> QED
  BY <1>1, <1>2, QueueStays

\* and so does the queue to the client.
LEMMA ClientQueue ==
  ASSUME Wires, NEW k \in Conn,
         \/ to_client'[k] = <<>>
         \/ /\ Grows(k)
            /\ \/ to_client'[k] = to_client[k]
               \/ to_client[k] # <<>> /\ to_client'[k] = Tail(to_client[k])
               \/ \E ms \in Seq(ToClient(k)') : to_client'[k] = to_client[k] \o ms
  PROVE  to_client'[k] \in Seq(ToClient(k)')
<1>1. to_client[k] \in Seq(ToClient(k))
  BY DEF Wires
<1>2. Grows(k) => ToClient(k) \subseteq ToClient(k)'
  BY MessagesStay
<1> QED
  BY <1>1, <1>2, QueueStays

\* What the client takes, and what it leaves.
LEMMA Taken ==
  ASSUME IInv, NEW k \in Conn, NEW type, Takes(k, type)
  PROVE  /\ transport[k] \in {"connecting", "open", "closing"}
         /\ Head(to_client[k]) \in ToClient(k)
         /\ Head(to_client[k]).type = type
         /\ to_client[k] # <<>>
         /\ to_client'[k] = Tail(to_client[k])
         /\ \A j \in Conn : j # k => to_client'[j] = to_client[j]
         /\ DOMAIN to_client' = Conn
         /\ crossed' \in [Conn -> BOOLEAN]
         /\ \A j \in Conn : crossed[j] => crossed'[j]
         /\ conn # k /\ conn # NoConn => crossed'[conn]
<1>1. to_client[k] \in Seq(ToClient(k)) /\ to_client[k] # <<>>
  BY DEF IInv, Wires, Takes
<1>2. Head(to_client[k]) \in ToClient(k)
  BY <1>1, HeadTailProperties
<1>3. /\ transport[k] \in {"connecting", "open", "closing"}
      /\ Head(to_client[k]).type = type
  BY DEF Takes
<1>4. /\ to_client'[k] = Tail(to_client[k])
      /\ \A j \in Conn : j # k => to_client'[j] = to_client[j]
      /\ DOMAIN to_client' = Conn
  BY DEF IInv, Wires, Takes
<1>5. crossed' = [x \in Conn |-> crossed[x] \/ (x = conn /\ x # k)]
  BY DEF Takes
<1>6. crossed' \in [Conn -> BOOLEAN]
  BY <1>5 DEF IInv, Shapes
<1>7. \A j \in Conn : crossed[j] => crossed'[j]
  BY <1>5
<1>8. conn # k /\ conn # NoConn => crossed'[conn]
  BY <1>5 DEF IInv, TypeOK
<1> QED
  BY <1>1, <1>2, <1>3, <1>4, <1>6, <1>7, <1>8

\* What the client sends goes to the record's transport, or is lost.
LEMMA Sent ==
  ASSUME IInv, NEW ms, Sends(ms)
  PROVE  /\ DOMAIN to_server' = Conn
         /\ \A j \in Conn : \/ to_server'[j] = to_server[j]
                            \/ j = conn /\ to_server'[j] = to_server[j] \o ms
BY DEF IInv, TypeOK, Wires, Sends

-----------------------------------------------------------------------------
(* The client's handlers *)

\* What a handler of the client may do: the sessions are as before, a transport
\* does not fall back, and the histories only grow.
Handled(k) ==
    /\ UNCHANGED <<conn, sessionVars, bounds>>
    /\ authenticated' \in BOOLEAN
    /\ transport' \in [Conn -> {"none", "connecting", "open", "closing", "closed"}]
    /\ \A j \in Conn : transport[j] \notin {"none", "closed"}
                          => transport'[j] \notin {"none", "closed"}
    /\ \A j \in Conn : transport[j] \in {"open", "closing"}
                          => transport'[j] \in {"open", "closing"}
    /\ ws_connected' => ws_connected \/ transport'[k] \in {"open", "closing"}
    /\ answered' \in [Conn -> SUBSET Nat]
    /\ \A j \in Conn : answered[j] \subseteq answered'[j]
    /\ DOMAIN to_server' = Conn
    /\ \A j \in Conn : \/ to_server'[j] = to_server[j]
                       \/ \E ms \in Seq(ToServer(j)') : to_server'[j] = to_server[j] \o ms

\* That is enough.
LEMMA HandledKeeps ==
  ASSUME IInv, NEW k \in Conn, NEW type, Takes(k, type), Handled(k)
  PROVE  IInv'
<1>1. /\ to_client[k] # <<>>
      /\ to_client'[k] = Tail(to_client[k])
      /\ \A j \in Conn : j # k => to_client'[j] = to_client[j]
      /\ DOMAIN to_client' = Conn
      /\ crossed' \in [Conn -> BOOLEAN]
      /\ \A j \in Conn : crossed[j] => crossed'[j]
  BY Taken
<1>2. UNCHANGED <<conn, session, acked, user, nonce, issued, logged_in>>
  BY DEF Handled, sessionVars
<1>3. TypeOK'
  BY <1>2 DEF IInv, TypeOK, Handled
<1>4. Shapes'
  BY <1>1, <1>2 DEF IInv, Shapes, Handled
<1>5. \A j \in Conn : Grows(j)
  BY <1>1, <1>2 DEF Handled, Grows
<1>6. \A j \in Conn : to_server'[j] \in Seq(ToServer(j)')
  BY <1>5, ServerQueue DEF IInv, Handled
<1>7. \A j \in Conn : to_client'[j] \in Seq(ToClient(j)')
  BY <1>1, <1>5, ClientQueue DEF IInv
<1>8. Wires'
  BY <1>1, <1>6, <1>7 DEF Wires, Handled
<1>9. OwnChallengeAnswered'
  BY <1>2 DEF IInv, OwnChallengeAnswered, Handled
<1>10. CapabilitiesFirst'
  BY <1>1, <1>2 DEF IInv, CapabilitiesFirst
<1>11. ConnectedMeansOpen'
  BY DEF IInv, ConnectedMeansOpen, Handled
<1> QED
  BY <1>3, <1>4, <1>8, <1>9, <1>10, <1>11 DEF IInv

\* The messages that the client sends are such as may be under way.
LEMMA MessagesSent ==
  ASSUME NEW k \in Conn
  PROVE  /\ <<Msg("cap")>> \in Seq(ToServer(k)')
         /\ <<Msg("logout")>> \in Seq(ToServer(k)')
         /\ LoginAllowed(k)' => <<Msg("hello"), Msg("login")>> \in Seq(ToServer(k)')
         /\ \A j \in Conn, n \in Nat :
               (j = k => n \in answered'[k]) => <<Pass(j, n)>> \in Seq(ToServer(k)')
<1>1. /\ Msg("cap") \in ToServer(k)'
      /\ Msg("logout") \in ToServer(k)'
      /\ Msg("hello") \in ToServer(k)'
      /\ LoginAllowed(k)' => Msg("login") \in ToServer(k)'
  BY DEF ToServer, Msg
<1>2. ASSUME NEW j \in Conn, NEW n \in Nat, j = k => n \in answered'[k]
      PROVE  Pass(j, n) \in ToServer(k)'
  BY <1>2 DEF ToServer, Pass
<1> HIDE DEF ToServer, LoginAllowed, Msg, Pass
<1> QED
  BY <1>1, <1>2

\* Each handler of the client is such a step.
LEMMA ClientHandlesKeep ==
  ASSUME IInv, NEW k \in Conn, ClientHandles(k)
  PROVE  IInv'
<1>0. \A type : Takes(k, type) => transport[k] \in {"connecting", "open", "closing"}
  BY DEF Takes
<1>1. ASSUME Open(k) PROVE IInv'
  <2>1. Takes(k, "upgrade") /\ Sends(<<Msg("cap")>>)
    BY <1>1 DEF Open
  <2>2. /\ DOMAIN to_server' = Conn
        /\ \A j \in Conn : \/ to_server'[j] = to_server[j]
                           \/ \E ms \in Seq(ToServer(j)') : to_server'[j] = to_server[j] \o ms
    BY <2>1, Sent, MessagesSent
  <2>3. Handled(k)
    BY <1>0, <1>1, <2>1, <2>2 DEF Open, Handled, IInv, TypeOK, Shapes
  <2> QED
    BY <2>1, <2>3, HandledKeeps
<1>2. ASSUME Incompatible(k) PROVE IInv'
  <2>1. Takes(k, "other")
    BY <1>2 DEF Incompatible
  <2>2. Handled(k)
    BY <1>0, <1>2, <2>1 DEF Incompatible, Handled, IInv, TypeOK, Shapes, Wires
  <2> QED
    BY <2>1, <2>2, HandledKeeps
<1>3. ASSUME HandleHello(k) \/ HandleAuthorized(k) \/ HandleAuthError(k) PROVE IInv'
  <2>1. PICK type : Takes(k, type)
    BY <1>3 DEF HandleHello, HandleAuthorized, HandleAuthError
  <2>2. /\ UNCHANGED <<conn, ws_connected, transport, sessionVars, to_server, answered, bounds>>
        /\ authenticated' \in {authenticated, TRUE}
    BY <1>3 DEF HandleHello, HandleAuthorized, HandleAuthError, clientVars
  <2>3. Handled(k)
    BY <2>2 DEF Handled, IInv, TypeOK, Shapes, Wires
  <2> QED
    BY <2>1, <2>3, HandledKeeps
<1>4. ASSUME HandleNak(k) PROVE IInv'
  <2>1. Takes(k, "nak")
    BY <1>4 DEF HandleNak
  <2>2. Handled(k)
    BY <1>4 DEF HandleNak, Handled, IInv, TypeOK, Shapes, Wires
  <2> QED
    BY <2>1, <2>2, HandledKeeps
<1>5. ASSUME HandleAck(k) PROVE IInv'
  <2>1. Takes(k, "ack") /\ Sends(<<Msg("hello"), Msg("login")>>)
    BY <1>5 DEF HandleAck
  <2>2. UNCHANGED <<clientVars, sessionVars, answered, bounds>>
    BY <1>5 DEF HandleAck
  <2>3. ASSUME NEW j \in Conn, j = conn PROVE LoginAllowed(j)'
    <3>1. CASE j = k
      <4>1. acked[k]
        BY <2>1, Taken DEF ToClient
      <4> QED
        BY <2>2, <3>1, <4>1 DEF LoginAllowed, sessionVars
    <3>2. CASE j # k
      <4>1. crossed'[conn]
        BY <2>1, <2>3, <3>2, Taken, ClientAssumption
      <4> QED
        BY <2>3, <4>1 DEF LoginAllowed
    <3> QED
      BY <3>1, <3>2
  <2>4. /\ DOMAIN to_server' = Conn
        /\ \A j \in Conn : \/ to_server'[j] = to_server[j]
                           \/ \E ms \in Seq(ToServer(j)') : to_server'[j] = to_server[j] \o ms
    BY <2>1, <2>3, Sent, MessagesSent
  <2>5. Handled(k)
    BY <2>2, <2>4 DEF Handled, clientVars, IInv, TypeOK, Shapes
  <2> QED
    BY <2>1, <2>5, HandledKeeps
<1>6. ASSUME HandleChallenge(k) PROVE IInv'
  <2> DEFINE n == Head(to_client[k]).nonce
  <2>1. Takes(k, "challenge")
    BY <1>6 DEF HandleChallenge
  <2>2. Head(to_client[k]).token = k /\ n \in Nat
    BY <2>1, Taken DEF ToClient
  <2>3. /\ Sends(<<Pass(k, n)>>)
        /\ answered' = IF conn = k
                       THEN [answered EXCEPT ![k] = @ \cup {n}] ELSE answered
        /\ UNCHANGED <<clientVars, sessionVars, bounds>>
    BY <1>6, <2>2 DEF HandleChallenge
  <2> HIDE DEF n
  <2>4. conn \in Conn /\ k = conn => n \in answered'[conn]
    BY <2>3 DEF IInv, Shapes
  <2>5. /\ DOMAIN to_server' = Conn
        /\ \A j \in Conn : \/ to_server'[j] = to_server[j]
                           \/ \E ms \in Seq(ToServer(j)') : to_server'[j] = to_server[j] \o ms
    BY <2>2, <2>3, <2>4, Sent, MessagesSent
  <2>6. answered' \in [Conn -> SUBSET Nat] /\ \A j \in Conn : answered[j] \subseteq answered'[j]
    BY <2>2, <2>3 DEF IInv, Shapes
  <2>7. Handled(k)
    BY <2>3, <2>5, <2>6 DEF Handled, clientVars, IInv, TypeOK
  <2> QED
    BY <2>1, <2>7, HandledKeeps
<1> QED
  BY <1>1, <1>2, <1>3, <1>4, <1>5, <1>6 DEF ClientHandles

-----------------------------------------------------------------------------
(* The server's handlers *)

\* What the server gets, and what it answers, are such as may be under way.
LEMMA ServerWires ==
  ASSUME IInv, NEW k \in Conn, NEW type, Gets(k, type),
         \A j \in Conn : acked[j] => acked'[j],
         UNCHANGED history,
         \/ to_client' = to_client
         \/ \E ms \in Seq(ToClient(k)') : Answers(k, ms)
  PROVE  Wires' /\ Head(to_server[k]) \in ToServer(k)
<1>1. to_server[k] \in Seq(ToServer(k)) /\ to_server[k] # <<>>
  BY DEF IInv, Wires, Gets
<1>2. Head(to_server[k]) \in ToServer(k)
  BY <1>1, HeadTailProperties
<1>3. \A j \in Conn : Grows(j)
  BY DEF Grows, history
<1>4. /\ DOMAIN to_server' = Conn
      /\ to_server'[k] = Tail(to_server[k])
      /\ \A j \in Conn : j # k => to_server'[j] = to_server[j]
  BY DEF IInv, Wires, Gets
<1>5. /\ DOMAIN to_client' = Conn
      /\ \A j \in Conn : \/ to_client'[j] = to_client[j]
                         \/ \E ms \in Seq(ToClient(j)') : to_client'[j] = to_client[j] \o ms
  BY DEF IInv, Wires, Answers
<1>6. \A j \in Conn : to_server'[j] \in Seq(ToServer(j)')
  BY <1>1, <1>3, <1>4, ServerQueue DEF IInv
<1>7. \A j \in Conn : to_client'[j] \in Seq(ToClient(j)')
  BY <1>3, <1>5, ClientQueue DEF IInv
<1> QED
  BY <1>2, <1>4, <1>5, <1>6, <1>7 DEF Wires

\* What the server says.
LEMMA MessagesAnswered ==
  ASSUME NEW k \in Conn
  PROVE  /\ \A type \in {"other", "nak", "authorized", "error"} :
               <<Msg(type)>> \in Seq(ToClient(k)')
         /\ <<Msg("upgrade"), Msg("hello")>> \in Seq(ToClient(k)')
         /\ acked'[k] => <<Msg("ack")>> \in Seq(ToClient(k)')
         /\ \A n \in Nat : <<Challenge(k, n)>> \in Seq(ToClient(k)')
<1>1. /\ \A type \in {"upgrade", "other", "hello", "nak", "authorized", "error"} :
            Msg(type) \in ToClient(k)'
      /\ acked'[k] => Msg("ack") \in ToClient(k)'
  BY DEF ToClient, Msg
<1>2. \A n \in Nat : Challenge(k, n) \in ToClient(k)'
  BY DEF ToClient, Challenge
<1> HIDE DEF ToClient, Msg, Challenge
<1> QED
  BY <1>1, <1>2

\* Each handler of the server keeps the invariant.
LEMMA ServerHandlesKeep ==
  ASSUME IInv, NEW k \in Conn, ServerHandles(k)
  PROVE  IInv'
<1>1. UNCHANGED <<clientVars, history>>
  BY DEF ServerHandles, ServerCap, ServerHello, ServerLogin, ServerPass, ServerLogout
<1>2. ConnectedMeansOpen'
  BY <1>1 DEF IInv, ConnectedMeansOpen, clientVars
<1>3. ASSUME ServerCap(k) PROVE IInv'
  <2>1. /\ acked' \in [Conn -> BOOLEAN]
        /\ \A j \in Conn : acked[j] => acked'[j]
        /\ UNCHANGED <<session, user, nonce, issued, logged_in>>
    BY <1>3 DEF ServerCap, IInv, Shapes
  <2>2. \E ms \in Seq(ToClient(k)') : Answers(k, ms)
    <3>1. CASE Answers(k, <<Msg("nak")>>)
      BY <3>1, MessagesAnswered
    <3>2. CASE Answers(k, <<Msg("ack")>>) /\ acked' = [acked EXCEPT ![k] = TRUE]
      <4>1. acked'[k]
        BY <3>2 DEF IInv, Shapes
      <4> QED
        BY <3>2, <4>1, MessagesAnswered
    <3> QED
      BY <1>3, <3>1, <3>2 DEF ServerCap
  <2>3. Wires'
    BY <1>1, <1>3, <2>1, <2>2, ServerWires DEF ServerCap
  <2> QED
    BY <1>1, <1>2, <2>1, <2>3 DEF IInv, TypeOK, Shapes, OwnChallengeAnswered,
       CapabilitiesFirst, clientVars, history
<1>4. ASSUME ServerHello(k) PROVE IInv'
  <2>1. UNCHANGED <<sessionVars, to_client>> /\ Gets(k, "hello")
    BY <1>4 DEF ServerHello
  <2>2. Wires'
    BY <1>1, <2>1, ServerWires DEF sessionVars
  <2> QED
    BY <1>1, <1>2, <2>1, <2>2 DEF IInv, TypeOK, Shapes, OwnChallengeAnswered,
       CapabilitiesFirst, clientVars, history, sessionVars
<1>5. ASSUME ServerLogin(k) PROVE IInv'
  <2>1. Gets(k, "login") /\ UNCHANGED <<session, acked, logged_in>>
    BY <1>5 DEF ServerLogin
  <2>2. CASE logged_in[k]
    <3>1. UNCHANGED <<user, nonce, issued, to_client>>
      BY <1>5, <2>2 DEF ServerLogin
    <3>2. Wires'
      BY <1>1, <2>1, <3>1, ServerWires
    <3> QED
      BY <1>1, <1>2, <2>1, <3>1, <3>2 DEF IInv, TypeOK, Shapes, OwnChallengeAnswered,
         CapabilitiesFirst, clientVars, history
  <2>3. CASE ~logged_in[k]
    <3>1. /\ user' = [user EXCEPT ![k] = TRUE]
          /\ issued' = [issued EXCEPT ![k] = @ + 1]
          /\ nonce' = [nonce EXCEPT ![k] = issued'[k]]
          /\ Answers(k, <<Challenge(k, issued'[k])>>)
      BY <1>5, <2>3 DEF ServerLogin
    <3>2. issued' \in [Conn -> Nat]
      BY <3>1 DEF IInv, TypeOK
    <3>3. Wires' /\ Head(to_server[k]) \in ToServer(k)
      BY <1>1, <2>1, <3>1, <3>2, MessagesAnswered, ServerWires
    <3>4. LoginAllowed(k)
      BY <2>1, <3>3 DEF Gets, ToServer
    <3>5. /\ user' \in [Conn -> BOOLEAN]
          /\ nonce' \in [Conn -> Nat]
          /\ \A j \in Conn : nonce'[j] \in {0, issued'[j]}
          /\ \A j \in Conn : j # k => /\ user'[j] = user[j]
                                      /\ nonce'[j] = nonce[j]
                                      /\ issued'[j] = issued[j]
      BY <3>1, <3>2 DEF IInv, TypeOK, Shapes
    <3>6. CapabilitiesFirst'
      BY <1>1, <2>1, <3>4, <3>5 DEF IInv, CapabilitiesFirst, LoginAllowed, history
    <3> QED
      BY <1>1, <1>2, <2>1, <2>3, <3>2, <3>3, <3>5, <3>6 DEF IInv, TypeOK, Shapes,
         OwnChallengeAnswered, clientVars, history
  <2> QED
    BY <2>2, <2>3
<1>6. ASSUME ServerPass(k) PROVE IInv'
  <2>1. Gets(k, "pass") /\ UNCHANGED <<acked, user, issued>>
    BY <1>6 DEF ServerPass
  <2>2. \/ to_client' = to_client
        \/ \E ms \in Seq(ToClient(k)') : Answers(k, ms)
    BY <1>6, MessagesAnswered DEF ServerPass, Kick
  <2>3. Wires' /\ Head(to_server[k]) \in ToServer(k)
    BY <1>1, <2>1, <2>2, ServerWires
  <2>4. /\ session' \in [Conn -> {"none", "open", "draining", "closed"}]
        /\ nonce' \in [Conn -> Nat]
        /\ logged_in' \in [Conn -> BOOLEAN]
        /\ \A j \in Conn : j # k => nonce'[j] = nonce[j] /\ logged_in'[j] = logged_in[j]
        /\ nonce'[k] \in {0, nonce[k]}
        /\ logged_in'[k] => \/ logged_in[k] /\ nonce'[k] = nonce[k]
                            \/ RightReply(k) /\ nonce'[k] = 0
    <3>1. CASE logged_in[k]
      BY <1>6, <3>1 DEF ServerPass, IInv, TypeOK, Shapes
    <3>2. CASE ~logged_in[k] /\ RightReply(k)
      <4>1. /\ nonce' = [nonce EXCEPT ![k] = 0]
            /\ logged_in' = [logged_in EXCEPT ![k] = TRUE]
            /\ UNCHANGED session
        BY <1>6, <3>2 DEF ServerPass
      <4> QED
        BY <3>2, <4>1 DEF IInv, TypeOK, Shapes
    <3>3. CASE ~logged_in[k] /\ ~RightReply(k)
      <4>1. /\ nonce' = [nonce EXCEPT ![k] = 0]
            /\ session' = [session EXCEPT ![k] = "draining"]
            /\ UNCHANGED logged_in
        BY <1>6, <3>3 DEF ServerPass, Kick
      <4> QED
        BY <3>3, <4>1 DEF IInv, TypeOK, Shapes
    <3> QED
      BY <3>1, <3>2, <3>3
  <2>5. RightReply(k) => user[k] /\ issued[k] \in answered[k]
    BY <2>1, <2>3 DEF RightReply, Reply, Gets, ToServer, IInv, TypeOK
  <2>6. OwnChallengeAnswered'
    BY <1>1, <2>1, <2>4, <2>5 DEF IInv, OwnChallengeAnswered, history
  <2>7. TypeOK'
    BY <1>1, <2>1, <2>4, <2>5 DEF IInv, TypeOK, clientVars
  <2> QED
    BY <1>1, <1>2, <2>1, <2>3, <2>4, <2>6, <2>7 DEF IInv, Shapes, CapabilitiesFirst, history
<1>7. ASSUME ServerLogout(k) PROVE IInv'
  <2>1. Gets(k, "logout") /\ UNCHANGED <<acked, user, nonce, issued, logged_in>>
    BY <1>7 DEF ServerLogout
  <2>2. \E ms \in Seq(ToClient(k)') : Answers(k, ms)
    BY <1>7, MessagesAnswered DEF ServerLogout, Kick
  <2>3. session' \in [Conn -> {"none", "open", "draining", "closed"}]
    BY <1>7 DEF ServerLogout, Kick, IInv, TypeOK
  <2>4. Wires'
    BY <1>1, <2>1, <2>2, ServerWires
  <2> QED
    BY <1>1, <1>2, <2>1, <2>3, <2>4 DEF IInv, TypeOK, Shapes, OwnChallengeAnswered,
       CapabilitiesFirst, clientVars, history
<1> QED
  BY <1>3, <1>4, <1>5, <1>6, <1>7 DEF ServerHandles

-----------------------------------------------------------------------------
(* Transports *)

\* A transport that is used again starts with empty queues.
LEMMA FreshKeeps ==
  ASSUME IInv, NEW k \in Conn, Fresh(k), Unused(k),
         transport' \in [Conn -> {"none", "connecting", "open", "closing", "closed"}],
         transport'[k] = "connecting",
         \A j \in Conn : j # k => \/ transport'[j] = transport[j]
                                  \/ transport'[j] = "closing",
         conn' = k,
         UNCHANGED <<authenticated, ws_connected>>
  PROVE  IInv'
<1>1. /\ DOMAIN to_server' = Conn
      /\ to_server'[k] = <<>>
      /\ \A j \in Conn : j # k => to_server'[j] = to_server[j]
      /\ DOMAIN to_client' = Conn
      /\ to_client'[k] = <<>>
      /\ \A j \in Conn : j # k => to_client'[j] = to_client[j]
  BY DEF IInv, Wires, Fresh
<1>2. Shapes'
  BY DEF IInv, Shapes, Fresh
<1>3. /\ user'[k] = FALSE
      /\ logged_in'[k] = FALSE
      /\ nonce'[k] = 0
      /\ \A j \in Conn : j # k => /\ acked'[j] = acked[j]
                                  /\ user'[j] = user[j]
                                  /\ nonce'[j] = nonce[j]
                                  /\ issued'[j] = issued[j]
                                  /\ logged_in'[j] = logged_in[j]
                                  /\ answered'[j] = answered[j]
                                  /\ crossed'[j] = crossed[j]
  BY DEF IInv, TypeOK, Shapes, Fresh
<1>4. TypeOK'
  <2>1. /\ session' \in [Conn -> {"none", "open", "draining", "closed"}]
        /\ issued' \in [Conn -> Nat]
    BY DEF IInv, TypeOK, Fresh
  <2> QED
    BY <1>3, <2>1 DEF IInv, TypeOK
<1>5. \A j \in Conn : j # k => Grows(j)
  BY <1>3 DEF Grows
<1>6. \A j \in Conn : to_server'[j] \in Seq(ToServer(j)')
  BY <1>1, <1>5, ServerQueue DEF IInv
<1>7. \A j \in Conn : to_client'[j] \in Seq(ToClient(j)')
  BY <1>1, <1>5, ClientQueue DEF IInv
<1>8. Wires'
  BY <1>1, <1>6, <1>7 DEF Wires
<1>9. OwnChallengeAnswered' /\ CapabilitiesFirst'
  BY <1>3 DEF IInv, OwnChallengeAnswered, CapabilitiesFirst
<1>10. ConnectedMeansOpen'
  BY DEF IInv, ConnectedMeansOpen, Unused
<1> QED
  BY <1>2, <1>4, <1>8, <1>9, <1>10 DEF IInv

\* "disconnected" is followed by a connection, and the user may change servers.
LEMMA ConnectKeeps ==
  ASSUME IInv, NEW k \in Conn, Connect(k) \/ Switch(k)
  PROVE  IInv'
<1>1. Fresh(k) /\ Unused(k) /\ conn' = k /\ UNCHANGED <<authenticated, ws_connected>>
  BY DEF Connect, Switch
<1>2. /\ transport' \in [Conn -> {"none", "connecting", "open", "closing", "closed"}]
      /\ transport'[k] = "connecting"
      /\ \A j \in Conn : j # k => \/ transport'[j] = transport[j]
                                  \/ transport'[j] = "closing"
  BY DEF Connect, Switch, Unused, IInv, TypeOK
<1> QED
  BY <1>1, <1>2, FreshKeeps

\* A logout is a message like others.
LEMMA LogoutKeeps ==
  ASSUME IInv, Logout
  PROVE  IInv'
<1>1. UNCHANGED <<clientVars, sessionVars, to_client, history>> /\ Sends(<<Msg("logout")>>)
  BY DEF Logout
<1>2. \A j \in Conn : Grows(j)
  BY <1>1 DEF Grows, sessionVars, history
<1>3. /\ DOMAIN to_server' = Conn
      /\ \A j \in Conn : \/ to_server'[j] = to_server[j]
                         \/ \E ms \in Seq(ToServer(j)') : to_server'[j] = to_server[j] \o ms
  BY <1>1, Sent, MessagesSent
<1>4. \A j \in Conn : to_server'[j] \in Seq(ToServer(j)')
  BY <1>2, <1>3, ServerQueue DEF IInv
<1>5. \A j \in Conn : to_client'[j] \in Seq(ToClient(j)')
  BY <1>1, <1>2, ClientQueue DEF IInv
<1>6. Wires'
  BY <1>1, <1>3, <1>4, <1>5 DEF IInv, Wires
<1> QED
  BY <1>1, <1>6 DEF IInv, TypeOK, Shapes, OwnChallengeAnswered, CapabilitiesFirst,
     ConnectedMeansOpen, clientVars, sessionVars, history

\* Transports open, close and break.
LEMMA TransportKeeps ==
  ASSUME IInv, NEW k \in Conn, Accept(k) \/ Break(k) \/ ClientClose(k) \/ ServerClose(k)
  PROVE  IInv'
<1>1. UNCHANGED <<acked, user, nonce, issued, logged_in, history>>
  BY DEF Accept, Break, ClientClose, ServerClose, sessionVars, history
<1>2. \A j \in Conn : Grows(j)
  BY <1>1 DEF Grows, history
<1>3. /\ DOMAIN to_server' = Conn
      /\ \A j \in Conn : to_server'[j] = <<>> \/ to_server'[j] = to_server[j]
  BY DEF Accept, Break, ClientClose, ServerClose, wires, IInv, Wires
<1>4. /\ DOMAIN to_client' = Conn
      /\ \A j \in Conn : \/ to_client'[j] = <<>>
                         \/ to_client'[j] = to_client[j]
                         \/ \E ms \in Seq(ToClient(j)') : to_client'[j] = to_client[j] \o ms
  <2>1. CASE \E ms \in Seq(ToClient(k)') : Answers(k, ms)
    BY <2>1 DEF Answers, IInv, Wires
  <2>2. CASE Break(k) \/ to_client' = to_client
    BY <2>2 DEF Break, IInv, Wires
  <2> QED
    BY <2>1, <2>2, MessagesAnswered DEF Accept, ClientClose, ServerClose, wires
<1>5. \A j \in Conn : to_server'[j] \in Seq(ToServer(j)')
  BY <1>2, <1>3, ServerQueue DEF IInv
<1>6. \A j \in Conn : to_client'[j] \in Seq(ToClient(j)')
  BY <1>2, <1>4, ClientQueue DEF IInv
<1>7. Wires'
  BY <1>3, <1>4, <1>5, <1>6 DEF Wires
<1>8. TypeOK' /\ ConnectedMeansOpen'
  <2>1. CASE Accept(k)
    BY <1>1, <2>1 DEF Accept, clientVars, IInv, TypeOK, ConnectedMeansOpen
  <2>2. CASE Break(k)
    BY <1>1, <2>2 DEF Break, IInv, TypeOK, ConnectedMeansOpen
  <2>3. CASE ClientClose(k)
    BY <1>1, <2>3 DEF ClientClose, sessionVars, IInv, TypeOK, ConnectedMeansOpen
  <2>4. CASE ServerClose(k)
    BY <1>1, <2>4 DEF ServerClose, clientVars, IInv, TypeOK, ConnectedMeansOpen
  <2> QED
    BY <2>1, <2>2, <2>3, <2>4
<1> QED
  BY <1>1, <1>7, <1>8 DEF IInv, Shapes, OwnChallengeAnswered, CapabilitiesFirst, history

-----------------------------------------------------------------------------
(* The invariant *)

\* It holds before anything is connected,
LEMMA InitKeeps == Init => IInv
<1> SUFFICES ASSUME Init PROVE IInv
  OBVIOUS
<1>1. Wires
  BY EmptySeq DEF Init, Wires
<1> QED
  BY <1>1, ClientAssumption DEF Init, IInv, TypeOK, Shapes, OwnChallengeAnswered,
     CapabilitiesFirst, ConnectedMeansOpen

\* every step keeps it,
LEMMA NextKeeps == IInv /\ [Next]_vars => IInv'
<1> SUFFICES ASSUME IInv, [Next]_vars PROVE IInv'
  OBVIOUS
<1>1. CASE UNCHANGED vars
  <2>1. UNCHANGED <<clientVars, sessionVars, wires, history>>
    BY <1>1 DEF vars
  <2>2. \A j \in Conn : Grows(j)
    BY <2>1 DEF Grows, sessionVars, history
  <2>3. Wires'
    BY <2>1, <2>2, ServerQueue, ClientQueue DEF IInv, Wires, wires
  <2> QED
    BY <2>1, <2>3 DEF IInv, TypeOK, Shapes, OwnChallengeAnswered, CapabilitiesFirst,
       ConnectedMeansOpen, clientVars, sessionVars, history
<1> QED
  BY <1>1, LogoutKeeps, ConnectKeeps, TransportKeeps, ClientHandlesKeep, ServerHandlesKeep
     DEF Next

\* so it holds throughout.
LEMMA Invariance == Spec => []IInv
  BY InitKeeps, NextKeeps, PTL DEF Spec

-----------------------------------------------------------------------------
(* One step of the handshake at a time *)

\* The messages by which a handshake goes on, and where a queue holds them.
Steps == {"upgrade", "cap", "ack", "login", "challenge", "pass"}

At(queue) == {i \in 1 .. Len(queue) : queue[i].type \in Steps}

OneAtMost(queue) == \A i, j \in At(queue) : i = j

\* What the session of a step under way is waiting for.
Due(k, m) ==
    /\ session[k] # "none"
    /\ ~logged_in[k]
    /\ m.type \in {"challenge", "pass"} => user[k] /\ nonce[k] # 0 /\ m.nonce = nonce[k]
    /\ m.type = "pass" => m.token = k

\* Unless messages of another transport got in, one step is under way at most,
\* in one direction, and it is the one that is due.
Orderly(k) ==
    ~crossed[k] =>
        /\ OneAtMost(to_server[k])
        /\ OneAtMost(to_client[k])
        /\ At(to_server[k]) = {} \/ At(to_client[k]) = {}
        /\ \A i \in At(to_server[k]) : Due(k, to_server[k][i])
        /\ \A i \in At(to_client[k]) : Due(k, to_client[k][i])
        /\ session[k] = "none" => ~logged_in[k]
        /\ ~kicked[k]

OrderInv ==
    /\ IInv
    /\ DOMAIN kicked = Conn
    /\ \A k \in Conn : Orderly(k)

\* The steps in a queue are some of another's, moved up.
NoNewSteps(next, queue) ==
    \E d \in Nat : \A i \in At(next) : i + d \in At(queue) /\ next[i] = queue[i + d]

\* The steps in a queue are steps of ms.
SaidIn(next, ms) == \A i \in At(next) : \E h \in At(ms) : next[i] = ms[h]

\* Taking the head moves the others up,
LEMMA TailSteps ==
  ASSUME NEW S, NEW queue \in Seq(S), queue # <<>>
  PROVE  /\ NoNewSteps(Tail(queue), queue)
         /\ OneAtMost(queue) /\ Head(queue).type \in Steps
               => At(Tail(queue)) = {}
         /\ Head(queue).type \in Steps => 1 \in At(queue) /\ queue[1] = Head(queue)
<1>1. /\ Len(queue) \in Nat /\ Len(queue) >= 1
      /\ Len(Tail(queue)) = Len(queue) - 1
      /\ Head(queue) = queue[1]
      /\ \A i \in 1 .. Len(Tail(queue)) : Tail(queue)[i] = queue[i + 1]
  BY EmptySeq, HeadTailProperties, LenProperties
<1>2. \A i \in At(Tail(queue)) : i + 1 \in At(queue) /\ Tail(queue)[i] = queue[i + 1]
  BY <1>1 DEF At
<1>3. NoNewSteps(Tail(queue), queue)
  BY <1>2 DEF NoNewSteps
<1>4. Head(queue).type \in Steps => 1 \in At(queue)
  BY <1>1 DEF At
<1>5. 0 \notin At(Tail(queue)) /\ At(Tail(queue)) \subseteq Nat
  BY <1>1 DEF At
<1>6. OneAtMost(queue) /\ 1 \in At(queue) => At(Tail(queue)) = {}
  BY <1>2, <1>5 DEF OneAtMost
<1> QED
  BY <1>1, <1>3, <1>4, <1>6

\* nothing is no new step,
LEMMA NoSteps ==
  ASSUME NEW queue
  PROVE  At(<<>>) = {} /\ NoNewSteps(<<>>, queue) /\ NoNewSteps(queue, queue)
<1>1. At(<<>>) = {}
  BY DEF At
<1>2. \A i \in At(queue) : i + 0 = i
  BY DEF At
<1> QED
  BY <1>1, <1>2 DEF NoNewSteps

\* and what is added comes last.
LEMMA MoreSteps ==
  ASSUME NEW S, NEW queue \in Seq(S), NEW T, NEW ms \in Seq(T)
  PROVE  /\ At(ms) = {} => NoNewSteps(queue \o ms, queue)
         /\ At(queue) = {} /\ OneAtMost(ms)
               => OneAtMost(queue \o ms) /\ SaidIn(queue \o ms, ms)
<1>1. queue \in Seq(S \cup T) /\ ms \in Seq(S \cup T)
  BY SeqMonotonic
<1>2. /\ Len(queue) \in Nat /\ Len(ms) \in Nat
      /\ Len(queue \o ms) = Len(queue) + Len(ms)
      /\ \A i \in 1 .. Len(queue \o ms) :
            (queue \o ms)[i] = IF i <= Len(queue) THEN queue[i] ELSE ms[i - Len(queue)]
  BY <1>1, ConcatProperties, LenProperties
<1>3. \A i \in At(queue \o ms) :
        \/ i \in At(queue) /\ (queue \o ms)[i] = queue[i]
        \/ i - Len(queue) \in At(ms) /\ (queue \o ms)[i] = ms[i - Len(queue)]
  BY <1>2 DEF At
<1>4. \A i \in At(queue \o ms) : i \in Nat /\ i + 0 = i
  BY <1>2 DEF At
<1>5. ASSUME At(ms) = {} PROVE NoNewSteps(queue \o ms, queue)
  <2>1. \A i \in At(queue \o ms) : i \in At(queue) /\ (queue \o ms)[i] = queue[i]
    BY <1>3, <1>5
  <2>2. \A i \in At(queue \o ms) :
           i + 0 \in At(queue) /\ (queue \o ms)[i] = queue[i + 0]
    BY <1>4, <2>1
  <2> QED
    BY <2>2 DEF NoNewSteps
<1>6. ASSUME At(queue) = {}, OneAtMost(ms)
      PROVE  OneAtMost(queue \o ms) /\ SaidIn(queue \o ms, ms)
  <2>1. \A i \in At(queue \o ms) : /\ i - Len(queue) \in At(ms)
                                  /\ (queue \o ms)[i] = ms[i - Len(queue)]
    BY <1>3, <1>6
  <2>2. ASSUME NEW i \in At(queue \o ms), NEW j \in At(queue \o ms) PROVE i = j
    <3>1. i - Len(queue) = j - Len(queue)
      BY <1>6, <2>1 DEF OneAtMost
    <3> QED
      BY <1>2, <1>4, <3>1
  <2> QED
    BY <2>1, <2>2 DEF OneAtMost, SaidIn
<1> QED
  BY <1>5, <1>6

\* One place is one step, and none is none.
LEMMA Single ==
  ASSUME NEW queue
  PROVE  /\ At(queue) = {} => OneAtMost(queue)
         /\ \A i : At(queue) = {i} => OneAtMost(queue)
BY DEF OneAtMost

\* The steps of each thing that is said.
LEMMA StepsSaid ==
  /\ At(<<Msg("cap")>>) = {1} /\ At(<<Msg("ack")>>) = {1}
  /\ At(<<Msg("hello"), Msg("login")>>) = {2} /\ At(<<Msg("upgrade"), Msg("hello")>>) = {1}
  /\ \A type \in {"other", "nak", "authorized", "error", "logout"} : At(<<Msg(type)>>) = {}
  /\ \A k, n : At(<<Challenge(k, n)>>) = {1} /\ At(<<Pass(k, n)>>) = {1}
BY DEF At, Steps, Msg, Challenge, Pass

\* A transport keeps its order when nothing new is sent on it and its session is
\* not told anything.
LEMMA QuietKeeps ==
  ASSUME NEW k \in Conn, Orderly(k), crossed[k] => crossed'[k],
         NoNewSteps(to_server'[k], to_server[k]),
         NoNewSteps(to_client'[k], to_client[k]),
         session'[k] = "none" => session[k] = "none",
         user'[k] = user[k], nonce'[k] = nonce[k],
         logged_in'[k] = logged_in[k], kicked'[k] = kicked[k]
  PROVE  Orderly(k)'
<1> SUFFICES ASSUME ~crossed'[k]
             PROVE  /\ OneAtMost(to_server'[k])
                    /\ OneAtMost(to_client'[k])
                    /\ At(to_server'[k]) = {} \/ At(to_client'[k]) = {}
                    /\ \A i \in At(to_server'[k]) : Due(k, to_server[k][i])'
                    /\ \A i \in At(to_client'[k]) : Due(k, to_client[k][i])'
                    /\ session'[k] = "none" => ~logged_in'[k]
                    /\ ~kicked'[k]
  BY DEF Orderly
<1>0. /\ OneAtMost(to_server[k])
      /\ OneAtMost(to_client[k])
      /\ At(to_server[k]) = {} \/ At(to_client[k]) = {}
      /\ \A i \in At(to_server[k]) : Due(k, to_server[k][i])
      /\ \A i \in At(to_client[k]) : Due(k, to_client[k][i])
      /\ session[k] = "none" => ~logged_in[k]
      /\ ~kicked[k]
  BY DEF Orderly
<1>2. ASSUME NEW next, NEW queue, NoNewSteps(next, queue),
             OneAtMost(queue), \A i \in At(queue) : Due(k, queue[i])
      PROVE  /\ OneAtMost(next)
             /\ \A i \in At(next) : Due(k, next[i])
             /\ At(queue) = {} => At(next) = {}
  <2>1. PICK d \in Nat : \A i \in At(next) : i + d \in At(queue) /\ next[i] = queue[i + d]
    BY <1>2 DEF NoNewSteps
  <2>2. ASSUME NEW i \in At(next), NEW j \in At(next) PROVE i = j
    <3>1. i + d = j + d
      BY <1>2, <2>1 DEF OneAtMost
    <3>2. i \in Int /\ j \in Int
      BY DEF At
    <3> QED
      BY <3>1, <3>2
  <2> QED
    BY <1>2, <2>1, <2>2 DEF OneAtMost
<1>3. /\ OneAtMost(to_server'[k])
      /\ \A i \in At(to_server'[k]) : Due(k, to_server'[k][i])
      /\ At(to_server[k]) = {} => At(to_server'[k]) = {}
  BY <1>0, <1>2
<1>4. /\ OneAtMost(to_client'[k])
      /\ \A i \in At(to_client'[k]) : Due(k, to_client'[k][i])
      /\ At(to_client[k]) = {} => At(to_client'[k]) = {}
  BY <1>0, <1>2
<1>5. \A i \in At(to_server'[k]) : Due(k, to_server[k][i])'
  BY <1>3 DEF Due
<1>6. \A i \in At(to_client'[k]) : Due(k, to_client[k][i])'
  BY <1>4 DEF Due
<1> QED
  BY <1>0, <1>3, <1>4, <1>5, <1>6

\* A handler of the client takes one message and says ms, or nothing.
ClientStep(k, type, ms) ==
    /\ Takes(k, type)
    /\ to_server' = to_server \/ Sends(ms)
    /\ UNCHANGED sessionVars

\* It keeps the order if it says one step at most, in turn for a step, and the
\* right one for a challenge.
LEMMA ClientStepOrderly ==
  ASSUME OrderInv, NEW k \in Conn, NEW type, NEW S, NEW ms \in Seq(S),
         ClientStep(k, type, ms),
         At(ms) # {} => type \in Steps,
         OneAtMost(ms),
         \A i \in At(ms) :
            ms[i].type \in {"challenge", "pass"} =>
                /\ type = "challenge"
                /\ ms[i].token = k
                /\ ms[i].nonce = Head(to_client[k]).nonce
  PROVE  \A j \in Conn : Orderly(j)'
<1>1. /\ \A j \in Conn : crossed[j] => crossed'[j]
      /\ conn # k /\ conn # NoConn => crossed'[conn]
      /\ to_client[k] # <<>> /\ to_client'[k] = Tail(to_client[k])
      /\ \A j \in Conn : j # k => to_client'[j] = to_client[j]
      /\ Head(to_client[k]).type = type
  BY Taken DEF ClientStep, OrderInv
<1>2. \A j \in Conn : \/ to_server'[j] = to_server[j]
                      \/ j = conn /\ to_server'[j] = to_server[j] \o ms
  BY Sent DEF ClientStep, OrderInv
<1>3. UNCHANGED <<session, user, nonce, logged_in, kicked>>
  BY DEF ClientStep, sessionVars
<1>4. \A j \in Conn : /\ to_server[j] \in Seq(ToServer(j))
                      /\ to_client[j] \in Seq(ToClient(j))
                      /\ Orderly(j)
  BY DEF OrderInv, IInv, Wires
<1>5. ASSUME NEW j \in Conn, j # k PROVE Orderly(j)'
  <2>1. CASE j = conn
    <3>1. crossed'[j]
      BY <1>1, <1>5, <2>1, ClientAssumption
    <3> QED
      BY <3>1 DEF Orderly
  <2>2. CASE j # conn
    <3>1. to_server'[j] = to_server[j] /\ to_client'[j] = to_client[j]
      BY <1>1, <1>2, <1>5, <2>2
    <3>2. /\ NoNewSteps(to_server'[j], to_server[j])
          /\ NoNewSteps(to_client'[j], to_client[j])
      BY <3>1, NoSteps
    <3> QED
      BY <1>1, <1>3, <1>4, <3>2, QuietKeeps
  <2> QED
    BY <2>1, <2>2
<1>6. CASE to_server'[k] = to_server[k] \/ At(ms) = {}
  <2>1. NoNewSteps(to_server'[k], to_server[k])
    <3>1. CASE to_server'[k] = to_server[k]
      BY <3>1, NoSteps
    <3>2. CASE to_server'[k] = to_server[k] \o ms /\ At(ms) = {}
      BY <1>4, <3>2, MoreSteps
    <3> QED
      BY <1>2, <1>6, <3>1, <3>2
  <2>2. NoNewSteps(to_client'[k], to_client[k])
    BY <1>1, <1>4, TailSteps
  <2>3. Orderly(k)'
    BY <1>1, <1>3, <1>4, <2>1, <2>2, QuietKeeps
  <2> QED
    BY <1>5, <2>3
<1>7. CASE to_server'[k] = to_server[k] \o ms /\ At(ms) # {}
  <2> SUFFICES Orderly(k)'
    BY <1>5
  <2> SUFFICES ASSUME ~crossed'[k] PROVE Orderly(k)'
    BY DEF Orderly
  <2>0. /\ OneAtMost(to_client[k])
        /\ At(to_server[k]) = {} \/ At(to_client[k]) = {}
        /\ \A i \in At(to_client[k]) : Due(k, to_client[k][i])
        /\ ~kicked[k]
    BY <1>1, <1>4 DEF Orderly
  <2>1. 1 \in At(to_client[k]) /\ to_client[k][1] = Head(to_client[k])
    BY <1>1, <1>4, <1>7, TailSteps
  <2>2. At(to_client'[k]) = {}
    BY <1>1, <1>4, <1>7, <2>0, TailSteps
  <2>3. /\ OneAtMost(to_server'[k])
        /\ SaidIn(to_server'[k], ms)
    <3>1. At(to_server[k]) = {}
      BY <2>0, <2>1
    <3>2. to_server[k] \in Seq(ToServer(k)) /\ ms \in Seq(S) /\ OneAtMost(ms)
      BY <1>4
    <3>3. OneAtMost(to_server[k] \o ms) /\ SaidIn(to_server[k] \o ms, ms)
      BY <3>1, <3>2, MoreSteps
    <3> QED
      BY <1>7, <3>3
  <2>4. Due(k, Head(to_client[k]))
    BY <2>0, <2>1
  <2>5. \A i \in At(to_server'[k]) : Due(k, to_server[k][i])'
    BY <1>1, <1>3, <2>3, <2>4 DEF Due, SaidIn
  <2>6. session'[k] # "none" /\ ~kicked'[k]
    BY <1>3, <2>0, <2>4 DEF Due
  <2> QED
    BY <2>2, <2>3, <2>5, <2>6 DEF Orderly, OneAtMost
<1> QED
  BY <1>2, <1>6, <1>7

\* So each handler of the client keeps it.
LEMMA ClientHandlesOrderly ==
  ASSUME OrderInv, NEW k \in Conn, ClientHandles(k)
  PROVE  OrderInv'
<1>0. IInv' /\ UNCHANGED kicked
  BY ClientHandlesKeep DEF OrderInv, ClientHandles, Open, Incompatible, HandleHello,
     HandleAck, HandleNak, HandleChallenge, HandleAuthorized, HandleAuthError, sessionVars
<1> SUFFICES \A j \in Conn : Orderly(j)'
  BY <1>0 DEF OrderInv
<1>1. CASE Open(k)
  <2>1. ClientStep(k, "upgrade", <<Msg("cap")>>)
    BY <1>1 DEF Open, ClientStep
  <2> DEFINE ms == <<Msg("cap")>>
  <2>2. ms[1].type = "cap" /\ "upgrade" \in Steps
    BY DEF Msg, Steps
  <2>3. ms \in Seq({Msg("cap")})
    OBVIOUS
  <2>4. At(ms) = {1} /\ OneAtMost(ms)
    BY StepsSaid, Single
  <2>5. ClientStep(k, "upgrade", ms)
    BY <2>1
  <2> HIDE DEF ms
  <2> QED
    BY <2>2, <2>3, <2>4, <2>5, ClientStepOrderly
<1>2. CASE HandleAck(k)
  <2> DEFINE ms == <<Msg("hello"), Msg("login")>>
  <2>1. ClientStep(k, "ack", ms)
    BY <1>2 DEF HandleAck, ClientStep
  <2>2. ms[2].type = "login" /\ "ack" \in Steps /\ At(ms) = {2}
    BY StepsSaid DEF Msg, Steps
  <2>3. ms \in Seq({Msg("hello"), Msg("login")})
    OBVIOUS
  <2> HIDE DEF ms
  <2> QED
    BY <2>1, <2>2, <2>3, Single, ClientStepOrderly
<1>3. CASE HandleChallenge(k)
  <2> DEFINE m == Pass(Head(to_client[k]).token, Head(to_client[k]).nonce)
  <2>1. ClientStep(k, "challenge", <<m>>)
    BY <1>3 DEF HandleChallenge, ClientStep
  <2>2. Head(to_client[k]).token = k
    <3>1. Takes(k, "challenge")
      BY <1>3 DEF HandleChallenge
    <3> QED
      BY <3>1, Taken DEF ToClient, OrderInv
  <2> DEFINE ms == <<m>>
  <2>3. ms[1].token = k /\ ms[1].nonce = Head(to_client[k]).nonce
    BY <2>2 DEF Pass
  <2>4. At(ms) = {1} /\ OneAtMost(ms) /\ "challenge" \in Steps
    BY StepsSaid, Single DEF Steps
  <2>5. ms \in Seq({m})
    OBVIOUS
  <2>6. ClientStep(k, "challenge", ms)
    BY <2>1
  <2> HIDE DEF ms
  <2> QED
    BY <2>3, <2>4, <2>5, <2>6, ClientStepOrderly
<1>4. CASE Incompatible(k) \/ HandleHello(k) \/ HandleNak(k) \/ HandleAuthorized(k)
             \/ HandleAuthError(k)
  <2>1. PICK type : ClientStep(k, type, <<>>)
    BY <1>4 DEF Incompatible, HandleHello, HandleNak, HandleAuthorized,
       HandleAuthError, ClientStep
  <2> QED
    BY <2>1, NoSteps, Single, EmptySeq, ClientStepOrderly
<1> QED
  BY <1>1, <1>2, <1>3, <1>4 DEF ClientHandles

-----------------------------------------------------------------------------
(* The order on the server's side *)

\* What the server holds of a connection that it does not act for.
SameSession(j) ==
    /\ session'[j] = session[j]
    /\ user'[j] = user[j]
    /\ nonce'[j] = nonce[j]
    /\ logged_in'[j] = logged_in[j]
    /\ kicked'[j] = kicked[j]

\* A handler of the server takes one message and answers ms, or nothing.
ServerStep(k, type, ms) ==
    /\ Gets(k, type)
    /\ to_client' = to_client \/ Answers(k, ms)
    /\ UNCHANGED history
    /\ session'[k] # "none"
    /\ \A j \in Conn \ {k} : SameSession(j)

\* It keeps the order if an answer to a step is the next one due, and nothing
\* else changes the session.
LEMMA ServerStepOrderly ==
  ASSUME OrderInv, NEW k \in Conn, NEW type, NEW S, NEW ms \in Seq(S),
         ServerStep(k, type, ms),
         OneAtMost(ms),
         type \notin Steps =>
            /\ At(ms) = {}
            /\ user'[k] = user[k] /\ nonce'[k] = nonce[k]
            /\ logged_in'[k] = logged_in[k] /\ kicked'[k] = kicked[k],
         type \in Steps /\ ~crossed[k] /\ ~kicked[k] /\ Due(k, Head(to_server[k])) =>
            /\ ~kicked'[k]
            /\ \A i \in At(ms) : Due(k, ms[i])'
  PROVE  \A j \in Conn : Orderly(j)'
<1>1. /\ to_server[k] # <<>> /\ to_server'[k] = Tail(to_server[k])
      /\ \A j \in Conn : j # k => to_server'[j] = to_server[j]
      /\ Head(to_server[k]).type = type
  BY DEF ServerStep, Gets, OrderInv, IInv, Wires
<1>2. /\ \A j \in Conn : j # k => to_client'[j] = to_client[j]
      /\ to_client'[k] = to_client[k] \/ to_client'[k] = to_client[k] \o ms
  BY DEF ServerStep, Answers, OrderInv, IInv, Wires
<1>3. \A j \in Conn : /\ to_server[j] \in Seq(ToServer(j))
                      /\ to_client[j] \in Seq(ToClient(j))
                      /\ Orderly(j)
                      /\ crossed'[j] = crossed[j]
  BY DEF OrderInv, IInv, Wires, ServerStep, history
<1>4. ASSUME NEW j \in Conn, j # k PROVE Orderly(j)'
  <2>1. to_server'[j] = to_server[j] /\ to_client'[j] = to_client[j]
    BY <1>1, <1>2, <1>4
  <2>2. /\ NoNewSteps(to_server'[j], to_server[j])
        /\ NoNewSteps(to_client'[j], to_client[j])
    BY <2>1, NoSteps
  <2>3. SameSession(j)
    BY <1>4 DEF ServerStep
  <2> QED
    BY <1>3, <2>2, <2>3, QuietKeeps DEF SameSession
<1>5. CASE type \notin Steps
  <2>1. NoNewSteps(to_server'[k], to_server[k])
    BY <1>1, <1>3, TailSteps
  <2>2. NoNewSteps(to_client'[k], to_client[k])
    <3>1. CASE to_client'[k] = to_client[k]
      BY <3>1, NoSteps
    <3>2. CASE to_client'[k] = to_client[k] \o ms
      BY <1>3, <1>5, <3>2, MoreSteps
    <3> QED
      BY <1>2, <3>1, <3>2
  <2>3. Orderly(k)'
    BY <1>3, <1>5, <2>1, <2>2, QuietKeeps DEF ServerStep
  <2> QED
    BY <1>4, <2>3
<1>6. CASE type \in Steps
  <2> SUFFICES Orderly(k)'
    BY <1>4
  <2> SUFFICES ASSUME ~crossed'[k] PROVE Orderly(k)'
    BY DEF Orderly
  <2>0. /\ OneAtMost(to_server[k])
        /\ At(to_server[k]) = {} \/ At(to_client[k]) = {}
        /\ \A i \in At(to_server[k]) : Due(k, to_server[k][i])
        /\ ~kicked[k] /\ ~crossed[k]
    BY <1>3 DEF Orderly
  <2>1. 1 \in At(to_server[k]) /\ to_server[k][1] = Head(to_server[k])
    BY <1>1, <1>3, <1>6, TailSteps
  <2>2. At(to_server'[k]) = {} /\ At(to_client[k]) = {}
    BY <1>1, <1>3, <1>6, <2>0, <2>1, TailSteps
  <2>3. Due(k, Head(to_server[k]))
    BY <2>0, <2>1
  <2>4. ~kicked'[k] /\ \A i \in At(ms) : Due(k, ms[i])'
    BY <1>6, <2>0, <2>3
  <2>5. CASE to_client'[k] = to_client[k]
    <3>1. At(to_client'[k]) = {}
      BY <2>2, <2>5
    <3>2. OneAtMost(to_server'[k]) /\ OneAtMost(to_client'[k])
      BY <2>2, <3>1 DEF OneAtMost
    <3>3. session'[k] # "none"
      BY DEF ServerStep
    <3> QED
      BY <2>2, <2>4, <3>1, <3>2, <3>3 DEF Orderly
  <2>6. CASE to_client'[k] = to_client[k] \o ms
    <3>1. to_client[k] \in Seq(ToClient(k))
      BY <1>3
    <3>2. OneAtMost(to_client[k] \o ms) /\ SaidIn(to_client[k] \o ms, ms)
      BY <2>2, <3>1, MoreSteps
    <3>3. OneAtMost(to_client'[k]) /\ SaidIn(to_client'[k], ms)
      BY <2>6, <3>2
    <3>4. \A i \in At(to_client'[k]) : Due(k, to_client[k][i])'
      BY <2>4, <3>3 DEF SaidIn, Due
    <3> QED
      BY <2>2, <2>4, <3>3, <3>4 DEF Orderly, OneAtMost, ServerStep
  <2> QED
    BY <1>2, <2>5, <2>6
<1> QED
  BY <1>5, <1>6

\* Each handler of the server is such a step.
LEMMA ServerHandlesOrderly ==
  ASSUME OrderInv, NEW k \in Conn, ServerHandles(k)
  PROVE  OrderInv'
<1>0. IInv' /\ DOMAIN kicked' = Conn
  BY ServerHandlesKeep DEF OrderInv, ServerHandles, ServerCap, ServerHello, ServerLogin,
     ServerPass, ServerLogout, sessionVars
<1> SUFFICES \A j \in Conn : Orderly(j)'
  BY <1>0 DEF OrderInv
<1>1. \A type : Gets(k, type) => session[k] = "open"
  BY DEF Gets
<1>2. CASE ServerCap(k)
  <2>1. PICK ms \in {<<Msg("ack")>>, <<Msg("nak")>>} : Answers(k, ms)
    BY <1>2 DEF ServerCap
  <2>2. ms \in Seq({Msg("ack"), Msg("nak")})
    BY <<Msg("ack")>> \in Seq({Msg("ack"), Msg("nak")}),
       <<Msg("nak")>> \in Seq({Msg("ack"), Msg("nak")})
  <2>3. OneAtMost(ms) /\ \A i \in At(ms) : ms[i].type = "ack"
    <3>1. CASE ms = <<Msg("ack")>>
      BY <3>1, StepsSaid, Single DEF Msg
    <3>2. CASE ms = <<Msg("nak")>>
      BY <3>2, StepsSaid, Single
    <3> QED
      BY <3>1, <3>2
  <2>4. UNCHANGED <<session, user, nonce, logged_in, kicked>>
    BY <1>2 DEF ServerCap
  <2>5. ServerStep(k, "cap", ms)
    BY <1>1, <1>2, <2>1, <2>4 DEF ServerCap, ServerStep, SameSession
  <2>6. "cap" \in Steps
    BY DEF Steps
  <2>7. Due(k, Head(to_server[k])) => \A i \in At(ms) : Due(k, ms[i])'
    BY <2>3, <2>4 DEF Due
  <2> QED
    BY <2>2, <2>3, <2>4, <2>5, <2>6, <2>7, ServerStepOrderly
<1>3. CASE ServerHello(k)
  <2>1. ServerStep(k, "hello", <<>>) /\ UNCHANGED sessionVars
    BY <1>1, <1>3 DEF ServerHello, ServerStep, SameSession, sessionVars
  <2>2. "hello" \notin Steps /\ At(<<>>) = {} /\ OneAtMost(<<>>)
    BY NoSteps, Single DEF Steps
  <2> QED
    BY <2>1, <2>2, EmptySeq, ServerStepOrderly DEF sessionVars
<1>4. CASE ServerLogin(k)
  <2>1. Gets(k, "login") /\ UNCHANGED <<session, logged_in, kicked, history>>
    BY <1>4 DEF ServerLogin
  <2>2. CASE logged_in[k]
    <3>1. UNCHANGED <<user, nonce, to_client>>
      BY <1>4, <2>2 DEF ServerLogin
    <3>2. ServerStep(k, "login", <<>>)
      BY <1>1, <2>1, <3>1 DEF ServerStep, SameSession
    <3>3. "login" \in Steps /\ At(<<>>) = {} /\ OneAtMost(<<>>)
      BY NoSteps, Single DEF Steps
    <3> QED
      BY <2>1, <3>2, <3>3, EmptySeq, ServerStepOrderly
  <2>3. CASE ~logged_in[k]
    <3>1. /\ user' = [user EXCEPT ![k] = TRUE]
          /\ issued' = [issued EXCEPT ![k] = @ + 1]
          /\ nonce' = [nonce EXCEPT ![k] = issued'[k]]
          /\ Answers(k, <<Challenge(k, issued'[k])>>)
      BY <1>4, <2>3 DEF ServerLogin
    <3>2. PICK n \in Nat \ {0} : n = issued'[k]
      BY <3>1 DEF OrderInv, IInv, TypeOK
    <3> DEFINE ms == <<Challenge(k, n)>>
    <3>3. /\ user'[k] /\ nonce'[k] = n
          /\ \A j \in Conn \ {k} : user'[j] = user[j] /\ nonce'[j] = nonce[j]
      BY <3>1, <3>2 DEF OrderInv, IInv, Shapes
    <3>4. ServerStep(k, "login", ms)
      BY <1>1, <2>1, <3>1, <3>2, <3>3 DEF ServerStep, SameSession
    <3>5. At(ms) = {1} /\ OneAtMost(ms) /\ "login" \in Steps
      BY StepsSaid, Single DEF Steps
    <3>6. ms[1].type = "challenge" /\ ms[1].nonce = n
      BY DEF Challenge
    <3>7. ms \in Seq({Challenge(k, n)})
      OBVIOUS
    <3> HIDE DEF ms
    <3>8. \A i \in At(ms) : Due(k, ms[i])'
      BY <1>1, <2>1, <2>3, <3>3, <3>5, <3>6 DEF Due
    <3> QED
      BY <2>1, <3>4, <3>5, <3>7, <3>8, ServerStepOrderly
  <2> QED
    BY <2>2, <2>3
<1>5. CASE ServerPass(k)
  <2>1. Gets(k, "pass") /\ UNCHANGED <<user, history>>
    BY <1>5 DEF ServerPass
  <2>2. PICK ms \in {<<>>, <<Msg("authorized")>>, <<Msg("error")>>} :
            to_client' = to_client \/ Answers(k, ms)
    BY <1>5 DEF ServerPass, Kick
  <2>3. ms \in Seq({Msg("authorized"), Msg("error")})
    BY EmptySeq, <<Msg("authorized")>> \in Seq({Msg("authorized"), Msg("error")}),
       <<Msg("error")>> \in Seq({Msg("authorized"), Msg("error")})
  <2>4. At(ms) = {} /\ OneAtMost(ms) /\ "pass" \in Steps
    BY StepsSaid, NoSteps, Single DEF Steps
  <2>5. /\ session'[k] # "none"
        /\ \A j \in Conn \ {k} : SameSession(j)
    BY <1>1, <1>5, <2>1 DEF ServerPass, Kick, SameSession, OrderInv, IInv, TypeOK, Shapes
  <2>6. ServerStep(k, "pass", ms)
    BY <2>1, <2>2, <2>5 DEF ServerStep
  <2>7. ASSUME Due(k, Head(to_server[k])), ~kicked[k] PROVE ~kicked'[k]
    <3>1. ~logged_in[k] /\ RightReply(k)
      BY <2>1, <2>7 DEF Due, RightReply, Reply, Gets
    <3> QED
      BY <1>5, <2>7, <3>1 DEF ServerPass
  <2> QED
    BY <2>3, <2>4, <2>6, <2>7, ServerStepOrderly
<1>6. CASE ServerLogout(k)
  <2> DEFINE ms == <<Msg("error")>>
  <2>1. /\ Gets(k, "logout") /\ Answers(k, ms)
        /\ session' = [session EXCEPT ![k] = "draining"]
        /\ UNCHANGED <<user, nonce, logged_in, kicked, history>>
    BY <1>6 DEF ServerLogout, Kick
  <2>2. ServerStep(k, "logout", ms)
    BY <2>1 DEF ServerStep, SameSession, OrderInv, IInv, TypeOK
  <2>3. At(ms) = {} /\ OneAtMost(ms) /\ "logout" \notin Steps
    BY StepsSaid, Single DEF Steps
  <2>4. ms \in Seq({Msg("error")})
    OBVIOUS
  <2> QED
    BY <2>1, <2>2, <2>3, <2>4, ServerStepOrderly
<1> QED
  BY <1>2, <1>3, <1>4, <1>5, <1>6 DEF ServerHandles

-----------------------------------------------------------------------------
(* The order of transports *)

\* A transport that is used again has nothing under way.
LEMMA ConnectOrderly ==
  ASSUME OrderInv, NEW k \in Conn, Connect(k) \/ Switch(k)
  PROVE  OrderInv'
<1>0. IInv'
  BY ConnectKeeps DEF OrderInv
<1>1. Fresh(k)
  BY DEF Connect, Switch
<1>2. DOMAIN kicked' = Conn
  BY <1>1 DEF Fresh, OrderInv
<1>3. ASSUME NEW j \in Conn PROVE Orderly(j)'
  <2>1. CASE j = k
    <3>1. /\ to_server'[k] = <<>> /\ to_client'[k] = <<>>
          /\ ~kicked'[k] /\ ~logged_in'[k]
      BY <1>1 DEF Fresh, OrderInv, IInv, Wires, Shapes
    <3>2. At(to_server'[k]) = {} /\ At(to_client'[k]) = {}
      BY <3>1, NoSteps
    <3> QED
      BY <2>1, <3>1, <3>2 DEF Orderly, OneAtMost
  <2>2. CASE j # k
    <3>1. /\ to_server'[j] = to_server[j] /\ to_client'[j] = to_client[j]
          /\ crossed'[j] = crossed[j] /\ SameSession(j)
      BY <1>1, <2>2 DEF Fresh, OrderInv, IInv, Wires, Shapes, TypeOK, SameSession
    <3>2. /\ NoNewSteps(to_server'[j], to_server[j])
          /\ NoNewSteps(to_client'[j], to_client[j])
      BY <3>1, NoSteps
    <3> QED
      BY <3>1, <3>2, QuietKeeps DEF OrderInv, SameSession
  <2> QED
    BY <2>1, <2>2
<1> QED
  BY <1>0, <1>2, <1>3 DEF OrderInv

\* A logout is no step.
LEMMA LogoutOrderly ==
  ASSUME OrderInv, Logout
  PROVE  OrderInv'
<1> DEFINE ms == <<Msg("logout")>>
<1>1. Sends(ms) /\ UNCHANGED <<sessionVars, to_client, history>>
  BY DEF Logout
<1>2. At(ms) = {} /\ ms \in Seq({Msg("logout")})
  BY StepsSaid
<1> HIDE DEF ms
<1>3. IInv' /\ DOMAIN kicked' = Conn
  BY <1>1, LogoutKeeps DEF OrderInv, sessionVars
<1>4. ASSUME NEW j \in Conn PROVE Orderly(j)'
  <2>1. NoNewSteps(to_server'[j], to_server[j])
    <3>1. CASE to_server'[j] = to_server[j]
      BY <3>1, NoSteps
    <3>2. CASE to_server'[j] = to_server[j] \o ms
      <4>1. to_server[j] \in Seq(ToServer(j))
        BY DEF OrderInv, IInv, Wires
      <4> QED
        BY <1>2, <3>2, <4>1, MoreSteps
    <3> QED
      BY <1>1, <3>1, <3>2, Sent DEF OrderInv
  <2>2. NoNewSteps(to_client'[j], to_client[j])
    BY <1>1, NoSteps
  <2> QED
    BY <1>1, <2>1, <2>2, QuietKeeps DEF OrderInv, sessionVars, history
<1> QED
  BY <1>3, <1>4 DEF OrderInv

\* The session starts with its first step.
LEMMA AcceptOrderly ==
  ASSUME OrderInv, NEW k \in Conn, Accept(k)
  PROVE  OrderInv'
<1>1. IInv' /\ DOMAIN kicked' = Conn
  BY TransportKeeps DEF OrderInv, Accept
<1>2. PICK ms \in {<<Msg("upgrade"), Msg("hello")>>, <<Msg("other")>>} : Answers(k, ms)
  BY DEF Accept
<1>3. /\ ms \in Seq({Msg("upgrade"), Msg("hello"), Msg("other")})
      /\ OneAtMost(ms)
      /\ \A i \in At(ms) : ms[i].type = "upgrade"
  <2> DEFINE Said == {Msg("upgrade"), Msg("hello"), Msg("other")}
  <2>1. CASE ms = <<Msg("upgrade"), Msg("hello")>>
    <3>1. <<Msg("upgrade"), Msg("hello")>> \in Seq(Said)
      OBVIOUS
    <3> QED
      BY <2>1, <3>1, StepsSaid, Single DEF Msg
  <2>2. CASE ms = <<Msg("other")>>
    <3>1. <<Msg("other")>> \in Seq(Said)
      OBVIOUS
    <3> QED
      BY <2>2, <3>1, StepsSaid, Single
  <2> QED
    BY <2>1, <2>2
<1>4. /\ session[k] = "none" /\ session' = [session EXCEPT ![k] = "open"]
      /\ UNCHANGED <<user, nonce, logged_in, kicked, to_server, history>>
  BY DEF Accept
<1>5. ASSUME NEW j \in Conn, j # k PROVE Orderly(j)'
  <2>1. /\ to_server'[j] = to_server[j] /\ to_client'[j] = to_client[j]
        /\ session'[j] = session[j]
    BY <1>2, <1>4, <1>5 DEF Answers, OrderInv, IInv, Wires, TypeOK
  <2>2. /\ NoNewSteps(to_server'[j], to_server[j])
        /\ NoNewSteps(to_client'[j], to_client[j])
    BY <2>1, NoSteps
  <2> QED
    BY <1>4, <2>1, <2>2, QuietKeeps DEF OrderInv, history
<1>6. ASSUME ~crossed'[k] PROVE Orderly(k)'
  <2>1. /\ At(to_server[k]) = {} /\ At(to_client[k]) = {}
        /\ ~logged_in[k] /\ ~kicked[k]
    BY <1>4, <1>6 DEF OrderInv, Orderly, Due, history
  <2>2. to_client[k] \in Seq(ToClient(k)) /\ to_client'[k] = to_client[k] \o ms
    BY <1>2 DEF Answers, OrderInv, IInv, Wires
  <2>3. OneAtMost(to_client[k] \o ms) /\ SaidIn(to_client[k] \o ms, ms)
    BY <1>3, <2>1, <2>2, MoreSteps
  <2>4. OneAtMost(to_client'[k]) /\ SaidIn(to_client'[k], ms)
    BY <2>2, <2>3
  <2>5. session'[k] = "open"
    BY <1>4 DEF OrderInv, IInv, TypeOK
  <2>6. \A i \in At(to_client'[k]) : Due(k, to_client[k][i])'
    BY <1>3, <1>4, <2>1, <2>4, <2>5 DEF SaidIn, Due
  <2>7. At(to_server'[k]) = {} /\ ~kicked'[k]
    BY <1>4, <2>1
  <2> QED
    BY <2>4, <2>5, <2>6, <2>7 DEF Orderly, OneAtMost
<1>7. Orderly(k)'
  BY <1>6 DEF Orderly
<1> QED
  BY <1>1, <1>5, <1>7 DEF OrderInv

\* Transports that close or break, and steps that do nothing, send nothing.
LEMMA CloseOrderly ==
  ASSUME OrderInv, IInv',
         \/ \E k \in Conn : Break(k) \/ ClientClose(k) \/ ServerClose(k)
         \/ UNCHANGED vars
  PROVE  OrderInv'
<1>1. /\ UNCHANGED <<user, nonce, logged_in, kicked, history>>
      /\ \A j \in Conn : /\ to_server'[j] = <<>> \/ to_server'[j] = to_server[j]
                         /\ to_client'[j] = <<>> \/ to_client'[j] = to_client[j]
                         /\ session'[j] = "none" => session[j] = "none"
  <2>1. CASE \E k \in Conn : Break(k)
    BY <2>1 DEF Break, OrderInv, IInv, Wires, TypeOK
  <2>2. CASE \E k \in Conn : ClientClose(k)
    BY <2>2 DEF ClientClose, sessionVars, wires
  <2>3. CASE \E k \in Conn : ServerClose(k)
    BY <2>3 DEF ServerClose, wires, OrderInv, IInv, TypeOK
  <2>4. CASE UNCHANGED vars
    BY <2>4 DEF vars, sessionVars, wires
  <2> QED
    BY <2>1, <2>2, <2>3, <2>4
<1>2. ASSUME NEW j \in Conn PROVE Orderly(j)'
  <2>1. NoNewSteps(to_server'[j], to_server[j]) /\ NoNewSteps(to_client'[j], to_client[j])
    BY <1>1, NoSteps
  <2> QED
    BY <1>1, <2>1, QuietKeeps DEF OrderInv, history
<1> QED
  BY <1>1, <1>2 DEF OrderInv

\* The order holds before anything is connected, and every step keeps it.
LEMMA OrderInductive == Spec => []OrderInv
<1>1. Init => OrderInv
  <2> SUFFICES ASSUME Init PROVE OrderInv
    OBVIOUS
  <2>1. \A k \in Conn : At(to_server[k]) = {} /\ At(to_client[k]) = {}
    BY NoSteps DEF Init
  <2> QED
    BY <2>1, InitKeeps DEF Init, OrderInv, Orderly, OneAtMost
<1>2. OrderInv /\ [Next]_vars => OrderInv'
  <2> SUFFICES ASSUME OrderInv, [Next]_vars PROVE OrderInv'
    OBVIOUS
  <2>1. IInv'
    BY NextKeeps DEF OrderInv
  <2> QED
    BY <2>1, LogoutOrderly, ConnectOrderly, AcceptOrderly, CloseOrderly,
       ClientHandlesOrderly, ServerHandlesOrderly DEF Next
<1> QED
  BY <1>1, <1>2, PTL DEF Spec

-----------------------------------------------------------------------------
(* Theorems *)

\* Every reachable state is well typed, the record names a transport that is
\* there, and who is logged in has an account and no challenge left.
THEOREM ClientTypeCorrect == Spec => []TypeOK
<1>1. IInv => TypeOK
  BY DEF IInv
<1> QED
  BY <1>1, Invariance, PTL

\* A login is by an answer given on the same transport to the last challenge there.
THEOREM LoginsAreOwn == Spec => []OwnChallengeAnswered
<1>1. IInv => OwnChallengeAnswered
  BY DEF IInv
<1> QED
  BY <1>1, Invariance, PTL

\* No login before the capabilities, but for messages of another transport.
THEOREM AgreedBeforeLogin == Spec => []CapabilitiesFirst
<1>1. IInv => CapabilitiesFirst
  BY DEF IInv
<1> QED
  BY <1>1, Invariance, PTL

\* The flag that applications read stands for a transport.
THEOREM FlagMeansTransport == Spec => []ConnectedMeansOpen
<1>1. IInv => ConnectedMeansOpen
  BY DEF IInv
<1> QED
  BY <1>1, Invariance, PTL

\* The server turns a wrong reply away only where another transport got in: by
\* itself a handshake has one step under way at most, and each reply is in turn.
THEOREM NoneTrips == Spec => []OnlyCrossedKicked
<1>1. OrderInv => OnlyCrossedKicked
  BY DEF OrderInv, Orderly, OnlyCrossedKicked
<1> QED
  BY <1>1, OrderInductive, PTL
=============================================================================
