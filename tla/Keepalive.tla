------------------------------ MODULE Keepalive ------------------------------
(***************************************************************************)
(* The keep-alive of WebSocket connections: the periodic housekeeping that *)
(* pings a connection it has not heard from, pings again, and at last      *)
(* kicks it; the pongs, which take time to come back; and the other        *)
(* messages of the peer.                                                   *)
(*                                                                         *)
(* Times are kept as ages, the difference to now: an age that has passed   *)
(* every limit it is compared with stops growing, so the clock needs no    *)
(* bound.  The clock and the housekeeping are steps of their own: the      *)
(* application calls the housekeeping now and then.                        *)
(***************************************************************************)
EXTENDS Naturals, FiniteSets

CONSTANTS
    Client,
    HTTP_PING_TIME,         \* silence after which a ping is sent
    HTTP_PING_TIMEOUT,      \* how long its answer may take
    HTTP_PING_TRIES,
    Latency                 \* how long the slowest live peer takes to answer

ASSUME KeepaliveAssumption ==
    /\ HTTP_PING_TIME \in Nat \ {0}
    /\ HTTP_PING_TIMEOUT \in Nat \ {0}
    /\ HTTP_PING_TRIES \in Nat \ {0}
    /\ Latency \in 0 .. HTTP_PING_TIME
    /\ Latency < HTTP_PING_TRIES * (HTTP_PING_TIMEOUT + 1)

\* No age is compared with more than this.
Horizon == HTTP_PING_TIME + HTTP_PING_TIMEOUT + Latency + 1

NoPing == Horizon + 1       \* last_ping = 0

Age == 0 .. Horizon

VARIABLES
    conn,           \* "none", "open" or "closing"
    last_heard,     \* age of cptr->last_heard
    last_ping,      \* age of cptr->last_ping, or NoPing
    ping_attempts,
    in_flight,      \* ages of the pings, or their answers, under way
    alive           \* external: does the peer still answer?

vars == <<conn, last_heard, last_ping, ping_attempts, in_flight, alive>>

-----------------------------------------------------------------------------
(* Helpers *)

Older(age) == IF age < Horizon THEN age + 1 ELSE age

\* ws_send_ping.  The answer of a peer that is gone is never under way.
SendPing(c) ==
    /\ last_ping' = [last_ping EXCEPT ![c] = 0]
    /\ ping_attempts' = [ping_attempts EXCEPT ![c] = @ + 1]
    /\ in_flight' = [in_flight EXCEPT ![c] = IF alive[c] THEN @ \cup {0} ELSE @]
    /\ UNCHANGED conn

\* The peer is told, and its transport closes by and by.
Kick(c) ==
    /\ conn' = [conn EXCEPT ![c] = "closing"]
    /\ in_flight' = [in_flight EXCEPT ![c] = {}]
    /\ UNCHANGED <<last_ping, ping_attempts>>

PingOverdue(c) == last_ping[c] # NoPing /\ last_ping[c] > HTTP_PING_TIMEOUT

Silent(c) == last_ping[c] = NoPing /\ last_heard[c] >= HTTP_PING_TIME

-----------------------------------------------------------------------------
(* The server *)

\* A native connection counts as heard at once, one of the HTTP server as
\* never heard (last_heard = 0).
Connect(c, heard) ==
    /\ conn[c] = "none"
    /\ conn' = [conn EXCEPT ![c] = "open"]
    /\ last_heard' = [last_heard EXCEPT ![c] = heard]
    /\ last_ping' = [last_ping EXCEPT ![c] = NoPing]
    /\ ping_attempts' = [ping_attempts EXCEPT ![c] = 0]
    /\ alive' = [alive EXCEPT ![c] = TRUE]
    /\ UNCHANGED in_flight

\* The close of the transport, which the server or the peer began.
Close(c) ==
    /\ conn[c] # "none"
    /\ conn' = [conn EXCEPT ![c] = "none"]
    /\ in_flight' = [in_flight EXCEPT ![c] = {}]
    /\ UNCHANGED <<last_heard, last_ping, ping_attempts, alive>>

\* Bug: only the first of a series of pings is counted.
ExpireSessionsUncounted(c) ==
    /\ conn[c] = "open"
    /\ \/ /\ PingOverdue(c)
          /\ ping_attempts[c] >= HTTP_PING_TRIES
          /\ Kick(c)
       \/ /\ PingOverdue(c)
          /\ ping_attempts[c] < HTTP_PING_TRIES
          /\ last_ping' = [last_ping EXCEPT ![c] = 0]
          /\ in_flight' = [in_flight EXCEPT ![c] = IF alive[c] THEN @ \cup {0} ELSE @]
          /\ UNCHANGED <<conn, ping_attempts>>
       \/ /\ Silent(c)
          /\ SendPing(c)
    /\ UNCHANGED <<last_heard, alive>>

\* The housekeeping for one connection: no visit concerns another connection,
\* and a visit to one that is closing changes nothing that is looked at again.
ExpireSessions(c) ==
    /\ conn[c] = "open"
    /\ \/ /\ PingOverdue(c)
          /\ ping_attempts[c] >= HTTP_PING_TRIES
          /\ Kick(c)
       \/ /\ PingOverdue(c)
          /\ ping_attempts[c] < HTTP_PING_TRIES
          /\ SendPing(c)
       \/ /\ Silent(c)
          /\ SendPing(c)
    /\ UNCHANGED <<last_heard, alive>>

\* Bug: the attempts of an earlier silence count for the next.
HandlePongKeepsAttempts(c, age) ==
    /\ conn[c] = "open"
    /\ age \in in_flight[c]
    /\ IF age > HTTP_PING_TIME
       THEN Kick(c) /\ UNCHANGED last_heard
       ELSE /\ last_heard' = [last_heard EXCEPT ![c] = 0]
            /\ last_ping' = [last_ping EXCEPT ![c] = NoPing]
            /\ in_flight' = [in_flight EXCEPT ![c] = @ \ {age}]
            /\ UNCHANGED <<conn, ping_attempts>>
    /\ UNCHANGED alive

\* The answer to a ping sent age ago, which need not be the last one sent.
HandlePong(c, age) ==
    /\ conn[c] = "open"
    /\ age \in in_flight[c]
    /\ IF age > HTTP_PING_TIME
       THEN Kick(c) /\ UNCHANGED last_heard
       ELSE /\ last_heard' = [last_heard EXCEPT ![c] = 0]
            /\ last_ping' = [last_ping EXCEPT ![c] = NoPing]
            /\ ping_attempts' = [ping_attempts EXCEPT ![c] = 0]
            /\ in_flight' = [in_flight EXCEPT ![c] = @ \ {age}]
            /\ UNCHANGED conn
    /\ UNCHANGED alive

\* Any other message but a ping counts as a sign of life, yet leaves a ping
\* unanswered.
HandleMessage(c) ==
    /\ conn[c] = "open"
    /\ alive[c]
    /\ last_heard' = [last_heard EXCEPT ![c] = 0]
    /\ UNCHANGED <<conn, last_ping, ping_attempts, in_flight, alive>>

-----------------------------------------------------------------------------
(* The peer and the clock *)

\* The peer vanishes without closing its transport, with what it had sent.
Vanish(c) ==
    /\ conn[c] = "open"
    /\ alive[c]
    /\ alive' = [alive EXCEPT ![c] = FALSE]
    /\ in_flight' = [in_flight EXCEPT ![c] = {}]
    /\ UNCHANGED <<conn, last_heard, last_ping, ping_attempts>>

\* A second passes.  A live peer answers every ping within Latency.
Tick ==
    /\ \A c \in Client : \A age \in in_flight[c] : age < Latency
    /\ last_heard' = [c \in Client |-> Older(last_heard[c])]
    /\ last_ping' = [c \in Client |->
                        IF last_ping[c] = NoPing THEN NoPing ELSE Older(last_ping[c])]
    /\ in_flight' = [c \in Client |-> {Older(age) : age \in in_flight[c]}]
    /\ UNCHANGED <<conn, ping_attempts, alive>>

-----------------------------------------------------------------------------
Init ==
    /\ conn = [c \in Client |-> "none"]
    /\ last_heard = [c \in Client |-> Horizon]
    /\ last_ping = [c \in Client |-> NoPing]
    /\ ping_attempts = [c \in Client |-> 0]
    /\ in_flight = [c \in Client |-> {}]
    /\ alive = [c \in Client |-> FALSE]

Next ==
    \/ Tick
    \/ \E c \in Client :
          \/ \E heard \in {0, Horizon} : Connect(c, heard)
          \/ Close(c)
          \/ ExpireSessions(c)
          \/ \E age \in Age : HandlePong(c, age)
          \/ HandleMessage(c)
          \/ Vanish(c)

\* The clock runs, the housekeeping is called again and again, and visits every
\* connection; a live peer's answer arrives.
Fairness ==
    /\ WF_vars(Tick)
    /\ \A c \in Client :
          /\ WF_vars(ExpireSessions(c))
          /\ WF_vars(\E age \in Age : HandlePong(c, age))

Spec == Init /\ [][Next]_vars

FairSpec == Spec /\ Fairness

-----------------------------------------------------------------------------
(* Properties *)

\* Every variable has its type; no connection is pinged more than
\* HTTP_PING_TRIES times without an answer.
TypeOK ==
    /\ conn \in [Client -> {"none", "open", "closing"}]
    /\ last_heard \in [Client -> Age]
    /\ last_ping \in [Client -> Age \cup {NoPing}]
    /\ ping_attempts \in [Client -> 0 .. HTTP_PING_TRIES]
    /\ in_flight \in [Client -> SUBSET Age]
    /\ alive \in [Client -> BOOLEAN]

\* A peer that answers every ping before the last of its HTTP_PING_TRIES has
\* timed out is never kicked, whatever order its answers arrive in and however
\* rarely the housekeeping runs.
LivePeerKept == \A c \in Client : alive[c] => conn[c] # "closing"

\* A peer that vanished is kicked in the end.
DeadPeerKicked == \A c \in Client : conn[c] = "open" /\ ~alive[c] ~> conn[c] # "open"
=============================================================================
