-------------------------------- MODULE Client --------------------------------
(***************************************************************************)
(* The application's side of a connection and the server's answers to it:  *)
(* the upgrade to a WebSocket, the agreement on capabilities, hello, login, *)
(* challenge and reply, and the close, over transports that may break.     *)
(*                                                                         *)
(* The application has one connection record.  It may go over to another   *)
(* transport while the old one is still closing; what still arrives on the *)
(* old one is handled with the same record, and so answered on the new one. *)
(* A token is the name of its transport, a nonce the number of its         *)
(* challenge there.  The account and its password are right, and the       *)
(* server's limits (modules Session and Ptt) are not reached.              *)
(***************************************************************************)
EXTENDS Naturals, Sequences

CONSTANTS
    Conn,           \* transports; a name is used again once both ends are closed
    NoConn,
    MaxSwitches,    \* bound: times the application changes transports or logs out
    MaxFaults       \* bound: transports that break, servers that speak another version

ASSUME ClientAssumption ==
    /\ NoConn \notin Conn
    /\ MaxSwitches \in Nat
    /\ MaxFaults \in Nat

VARIABLES
    conn,           \* cptr->conn
    authenticated,  \* cptr->authenticated, which nothing resets
    ws_connected,   \* a global of the library
    transport,      \* the client's end: none, connecting, open, closing, closed
    session,        \* the server's end: none, open, draining, closed
    to_server,
    to_client,
    acked,          \* has the server agreed to the capabilities?
    user,           \* does the session have an account, cptr->user?
    nonce,          \* the challenge that may be answered, 0 for none
    issued,         \* challenges given to the session
    logged_in,      \* the server's cptr->authenticated
    kicked,         \* history: has the server kicked the session, unasked?
    answered,       \* history: the challenges answered on their own transport
    crossed,        \* history: was a message of another transport handled meanwhile?
    switches,
    faults

clientVars == <<conn, authenticated, ws_connected, transport>>
sessionVars == <<session, acked, user, nonce, issued, logged_in, kicked>>
wires == <<to_server, to_client>>
history == <<answered, crossed>>
bounds == <<switches, faults>>
vars == <<clientVars, sessionVars, wires, history, bounds>>

-----------------------------------------------------------------------------
(* Messages *)

Msg(type) == [type |-> type]

Challenge(k, n) == [type |-> "challenge", token |-> k, nonce |-> n]

Pass(k, n) == [type |-> "pass", token |-> k, nonce |-> n]

\* The client sends on the record's transport, if that still takes anything.
Sends(messages) ==
    to_server' = IF conn # NoConn /\ transport[conn] \in {"connecting", "open"}
                 THEN [to_server EXCEPT ![conn] = @ \o messages] ELSE to_server

\* The client takes the next message of k, and notes if that is not its own.
Takes(k, type) ==
    /\ transport[k] \in {"connecting", "open", "closing"}
    /\ to_client[k] # <<>>
    /\ Head(to_client[k]).type = type
    /\ to_client' = [to_client EXCEPT ![k] = Tail(@)]
    /\ crossed' = [x \in Conn |-> crossed[x] \/ (x = conn /\ x # k)]

Answers(k, messages) ==
    to_client' = [to_client EXCEPT ![k] = @ \o messages]

\* ... and the server the next of the session.
Gets(k, type) ==
    /\ session[k] = "open"
    /\ to_server[k] # <<>>
    /\ Head(to_server[k]).type = type
    /\ to_server' = [to_server EXCEPT ![k] = Tail(@)]

-----------------------------------------------------------------------------
(* The application *)

Unused(k) == transport[k] \in {"none", "closed"} /\ session[k] \in {"none", "closed"}

Fresh(k) ==
    /\ session' = [session EXCEPT ![k] = "none"]
    /\ to_server' = [to_server EXCEPT ![k] = <<>>]
    /\ to_client' = [to_client EXCEPT ![k] = <<>>]
    /\ acked' = [acked EXCEPT ![k] = FALSE]
    /\ user' = [user EXCEPT ![k] = FALSE]
    /\ nonce' = [nonce EXCEPT ![k] = 0]
    /\ issued' = [issued EXCEPT ![k] = 0]
    /\ logged_in' = [logged_in EXCEPT ![k] = FALSE]
    /\ kicked' = [kicked EXCEPT ![k] = FALSE]
    /\ answered' = [answered EXCEPT ![k] = {}]
    /\ crossed' = [crossed EXCEPT ![k] = FALSE]

\* After "disconnected" the application connects again.
Connect(k) ==
    /\ conn = NoConn
    /\ Unused(k)
    /\ conn' = k
    /\ transport' = [transport EXCEPT ![k] = "connecting"]
    /\ Fresh(k)
    /\ UNCHANGED <<authenticated, ws_connected, bounds>>

\* The user goes over to another server.
Switch(k) ==
    /\ conn # NoConn
    /\ Unused(k)
    /\ switches < MaxSwitches
    /\ conn' = k
    /\ transport' = [transport EXCEPT ![k] = "connecting", ![conn] = "closing"]
    /\ Fresh(k)
    /\ switches' = switches + 1
    /\ UNCHANGED <<authenticated, ws_connected, faults>>

Logout ==
    /\ conn # NoConn
    /\ authenticated
    /\ switches < MaxSwitches
    /\ Sends(<<Msg("logout")>>)
    /\ switches' = switches + 1
    /\ UNCHANGED <<clientVars, sessionVars, to_client, history, faults>>

-----------------------------------------------------------------------------
(* http_handler: the client's events *)

\* Bug: the login does not wait for the agreement.
OpenAndLogin(k) ==
    /\ Takes(k, "upgrade")
    /\ transport' = [transport EXCEPT ![k] = IF @ = "connecting" THEN "open" ELSE @]
    /\ ws_connected' = TRUE
    /\ Sends(<<Msg("cap"), Msg("hello"), Msg("login")>>)
    /\ UNCHANGED <<conn, authenticated, sessionVars, answered, bounds>>

\* The server speaks the wire protocol: ask for the capabilities.
Open(k) ==
    /\ Takes(k, "upgrade")
    /\ transport' = [transport EXCEPT ![k] = IF @ = "connecting" THEN "open" ELSE @]
    /\ ws_connected' = TRUE
    /\ Sends(<<Msg("cap")>>)
    /\ UNCHANGED <<conn, authenticated, sessionVars, answered, bounds>>

\* It speaks another: this transport is closed.
Incompatible(k) ==
    /\ Takes(k, "other")
    /\ transport' = [transport EXCEPT ![k] = "closing"]
    /\ UNCHANGED <<conn, authenticated, ws_connected, sessionVars, to_server, answered, bounds>>

\* Bug: the server's hello is answered as its acknowledgement is.
HandleHelloLogin(k) ==
    /\ Takes(k, "hello")
    /\ Sends(<<Msg("hello"), Msg("login")>>)
    /\ UNCHANGED <<clientVars, sessionVars, answered, bounds>>

HandleHello(k) ==
    /\ Takes(k, "hello")
    /\ UNCHANGED <<clientVars, sessionVars, to_server, answered, bounds>>

HandleAck(k) ==
    /\ Takes(k, "ack")
    /\ Sends(<<Msg("hello"), Msg("login")>>)
    /\ UNCHANGED <<clientVars, sessionVars, answered, bounds>>

\* A refusal closes the record's transport, whichever it came from.
HandleNak(k) ==
    /\ Takes(k, "nak")
    /\ transport' = IF conn # NoConn /\ transport[conn] \in {"connecting", "open"}
                    THEN [transport EXCEPT ![conn] = "closing"] ELSE transport
    /\ UNCHANGED <<conn, authenticated, ws_connected, sessionVars, to_server, answered, bounds>>

\* The token is stored and sent back with the password, hashed with the nonce.
HandleChallenge(k) ==
    /\ Takes(k, "challenge")
    /\ Sends(<<Pass(Head(to_client[k]).token, Head(to_client[k]).nonce)>>)
    /\ answered' = IF conn = k
                   THEN [answered EXCEPT ![k] = @ \cup {Head(to_client[k]).nonce}] ELSE answered
    /\ UNCHANGED <<clientVars, sessionVars, bounds>>

HandleAuthorized(k) ==
    /\ Takes(k, "authorized")
    /\ authenticated' = TRUE
    /\ UNCHANGED <<conn, ws_connected, transport, sessionVars, to_server, answered, bounds>>

\* An event for the user interface: the server closes the transport.
HandleAuthError(k) ==
    /\ Takes(k, "error")
    /\ UNCHANGED <<clientVars, sessionVars, to_server, answered, bounds>>

Ended(k) == transport[k] = "closing" \/ (session[k] = "closed" /\ to_client[k] = <<>>)

\* Bug: the close of an old transport takes the new one's record.
ClientCloseAny(k) ==
    /\ transport[k] \in {"connecting", "open", "closing"}
    /\ Ended(k)
    /\ transport' = [transport EXCEPT ![k] = "closed"]
    /\ ws_connected' = FALSE
    /\ conn' = NoConn
    /\ UNCHANGED <<authenticated, sessionVars, wires, history, bounds>>

\* "disconnected" is for the record's own transport; the flag is for any.
ClientClose(k) ==
    /\ transport[k] \in {"connecting", "open", "closing"}
    /\ Ended(k)
    /\ transport' = [transport EXCEPT ![k] = "closed"]
    /\ ws_connected' = FALSE
    /\ conn' = IF conn = k THEN NoConn ELSE conn
    /\ UNCHANGED <<authenticated, sessionVars, wires, history, bounds>>

-----------------------------------------------------------------------------
(* The server *)

\* The upgrade, and the server's hello.
Accept(k) ==
    /\ transport[k] = "connecting"
    /\ session[k] = "none"
    /\ session' = [session EXCEPT ![k] = "open"]
    /\ \/ Answers(k, <<Msg("upgrade"), Msg("hello")>>) /\ UNCHANGED faults
       \/ /\ faults < MaxFaults
          /\ Answers(k, <<Msg("other")>>)
          /\ faults' = faults + 1
    /\ UNCHANGED <<clientVars, acked, user, nonce, issued, logged_in, kicked,
                   to_server, history, switches>>

\* ws_kick_client: the reason, then the close; what still arrives is dropped.
Kick(k) ==
    /\ Answers(k, <<Msg("error")>>)
    /\ session' = [session EXCEPT ![k] = "draining"]

ServerCap(k) ==
    /\ Gets(k, "cap")
    /\ \/ /\ Answers(k, <<Msg("ack")>>)
          /\ acked' = [acked EXCEPT ![k] = TRUE]
          /\ UNCHANGED faults
       \/ /\ faults < MaxFaults
          /\ Answers(k, <<Msg("nak")>>)
          /\ faults' = faults + 1
          /\ UNCHANGED acked
    /\ UNCHANGED <<clientVars, session, user, nonce, issued, logged_in, kicked,
                   history, switches>>

ServerHello(k) ==
    /\ Gets(k, "hello")
    /\ UNCHANGED <<clientVars, sessionVars, to_client, history, bounds>>

\* Each login gives a new challenge; the one before can no longer be answered.
ServerLogin(k) ==
    /\ Gets(k, "login")
    /\ IF logged_in[k]
       THEN UNCHANGED <<user, nonce, issued, to_client>>
       ELSE /\ user' = [user EXCEPT ![k] = TRUE]
            /\ issued' = [issued EXCEPT ![k] = @ + 1]
            /\ nonce' = [nonce EXCEPT ![k] = issued'[k]]
            /\ Answers(k, <<Challenge(k, issued'[k])>>)
    /\ UNCHANGED <<clientVars, session, acked, logged_in, kicked, history, bounds>>

Reply(k) == Head(to_server[k])

\* Bug: the token is not compared.
RightReplyAnyToken(k) == user[k] /\ nonce[k] # 0 /\ Reply(k).nonce = nonce[k]

RightReply(k) ==
    /\ user[k]
    /\ Reply(k).token = k
    /\ nonce[k] # 0
    /\ Reply(k).nonce = nonce[k]

\* A wrong reply is the end of the session.
ServerPass(k) ==
    /\ Gets(k, "pass")
    /\ IF logged_in[k] THEN UNCHANGED <<session, nonce, logged_in, kicked, to_client>>
       ELSE IF RightReply(k)
       THEN /\ nonce' = [nonce EXCEPT ![k] = 0]
            /\ logged_in' = [logged_in EXCEPT ![k] = TRUE]
            /\ Answers(k, <<Msg("authorized")>>)
            /\ UNCHANGED <<session, kicked>>
       ELSE /\ Kick(k)
            /\ nonce' = [nonce EXCEPT ![k] = 0]
            /\ kicked' = [kicked EXCEPT ![k] = TRUE]
            /\ UNCHANGED logged_in
    /\ UNCHANGED <<clientVars, acked, user, issued, history, bounds>>

ServerLogout(k) ==
    /\ Gets(k, "logout")
    /\ Kick(k)
    /\ UNCHANGED <<clientVars, acked, user, nonce, issued, logged_in, kicked, history, bounds>>

ServerClose(k) ==
    /\ session[k] \in {"open", "draining"}
    /\ session[k] = "draining" \/ transport[k] = "closed"
    /\ session' = [session EXCEPT ![k] = "closed"]
    /\ UNCHANGED <<clientVars, acked, user, nonce, issued, logged_in, kicked, wires,
                   history, bounds>>

\* The network: both ends find the transport broken, and what was under way is lost.
Break(k) ==
    /\ transport[k] \in {"connecting", "open"}
    /\ faults < MaxFaults
    /\ faults' = faults + 1
    /\ transport' = [transport EXCEPT ![k] = "closing"]
    /\ session' = [session EXCEPT ![k] = IF @ = "open" THEN "draining" ELSE @]
    /\ to_server' = [to_server EXCEPT ![k] = <<>>]
    /\ to_client' = [to_client EXCEPT ![k] = <<>>]
    /\ UNCHANGED <<conn, authenticated, ws_connected, acked, user, nonce, issued,
                   logged_in, kicked, history, switches>>

-----------------------------------------------------------------------------
Init ==
    /\ conn = NoConn
    /\ authenticated = FALSE
    /\ ws_connected = FALSE
    /\ transport = [k \in Conn |-> "none"]
    /\ session = [k \in Conn |-> "none"]
    /\ to_server = [k \in Conn |-> <<>>]
    /\ to_client = [k \in Conn |-> <<>>]
    /\ acked = [k \in Conn |-> FALSE]
    /\ user = [k \in Conn |-> FALSE]
    /\ nonce = [k \in Conn |-> 0]
    /\ issued = [k \in Conn |-> 0]
    /\ logged_in = [k \in Conn |-> FALSE]
    /\ kicked = [k \in Conn |-> FALSE]
    /\ answered = [k \in Conn |-> {}]
    /\ crossed = [k \in Conn |-> FALSE]
    /\ switches = 0
    /\ faults = 0

ClientHandles(k) ==
    \/ Open(k) \/ Incompatible(k) \/ HandleHello(k) \/ HandleAck(k) \/ HandleNak(k)
    \/ HandleChallenge(k) \/ HandleAuthorized(k) \/ HandleAuthError(k)

ServerHandles(k) ==
    \/ ServerCap(k) \/ ServerHello(k) \/ ServerLogin(k) \/ ServerPass(k) \/ ServerLogout(k)

Next ==
    \/ Logout
    \/ \E k \in Conn :
        \/ Connect(k) \/ Switch(k) \/ Break(k)
        \/ Accept(k) \/ ClientHandles(k) \/ ServerHandles(k)
        \/ ClientClose(k) \/ ServerClose(k)

Spec == Init /\ [][Next]_vars

\* Both event loops run, transports deliver, and the application connects again.
Fairness ==
    /\ WF_vars(\E k \in Conn : Connect(k))
    /\ \A k \in Conn :
        /\ WF_vars(Accept(k))
        /\ WF_vars(ClientHandles(k))
        /\ WF_vars(ServerHandles(k))
        /\ WF_vars(ClientClose(k))
        /\ WF_vars(ServerClose(k))

FairSpec == Spec /\ Fairness

-----------------------------------------------------------------------------
(* Properties *)

\* Every variable has its type.  The record names a transport that is not
\* closed, and a session that is logged in has an account and no challenge left.
TypeOK ==
    /\ conn \in Conn \cup {NoConn}
    /\ authenticated \in BOOLEAN
    /\ transport \in [Conn -> {"none", "connecting", "open", "closing", "closed"}]
    /\ session \in [Conn -> {"none", "open", "draining", "closed"}]
    /\ conn # NoConn => transport[conn] \notin {"none", "closed"}
    /\ issued \in [Conn -> Nat]
    /\ \A k \in Conn : nonce[k] \in {0, issued[k]}
    /\ \A k \in Conn : logged_in[k] => user[k] /\ nonce[k] = 0

\* The flag that applications read is not left set when the last open transport
\* has gone, in whatever order transports open and close.
ConnectedMeansOpen ==
    ws_connected => \E k \in Conn : transport[k] \in {"open", "closing"}

\* A session is logged in only by an answer that the client gave on the same
\* transport to the last challenge there: an answer to another session's
\* challenge, or to one that a second login replaced, never counts.
OwnChallengeAnswered ==
    \A k \in Conn : logged_in[k] => issued[k] \in answered[k]

\* A server that has not agreed to the capabilities is sent no login, unless
\* messages of another transport were handled meanwhile.
CapabilitiesFirst ==
    \A k \in Conn : user[k] => acked[k] \/ crossed[k]

\* The handshake does not trip over itself: the server ends a session for a wrong
\* reply only if messages of another transport got into it.
OnlyCrossedKicked ==
    \A k \in Conn : kicked[k] => crossed[k]

\* Once transports stop breaking and the user stays, the client ends up logged in
\* on the transport that its record names, whatever came from the others.
LoginSucceeds ==
    <>[](conn # NoConn /\ authenticated /\ logged_in[conn])
=============================================================================
