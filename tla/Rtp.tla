--------------------------------- MODULE Rtp ---------------------------------
(***************************************************************************)
(* One attachment of the UDP media transport, seen from both of its ends:  *)
(* the server's socket, whose datagrams a thread of its own receives into a *)
(* bounded queue, and the client's.  The client probes; the server answers *)
(* where the last authenticated probe came from.  Frames are cut into      *)
(* pieces that the network may lose, delay and reorder.                    *)
(*                                                                         *)
(* A poll first looks at the attachments and then at the datagrams that    *)
(* wait; its parts are actions here.  Ages stand for the clock: what the   *)
(* code computes as now minus a time stored, no longer counted once it     *)
(* makes no difference.  SRTP (external) lets each packet through once, so *)
(* a copy changes nothing and the network keeps one of each.               *)
(***************************************************************************)
EXTENDS Naturals, Sequences, FiniteSets

CONSTANTS
    Address,        \* where the network may put the client, in this order
    NoAddress,      \* the server has not heard of the client
    Policies,       \* what the server's source filter may refuse: sets of addresses
    ActiveTime,     \* an end that heard nothing for so long does not send
    ProbeTime,      \* the client probes this often
    FrameTime,      \* pieces of a frame that come later than this are refused
    IngressDepth,   \* RR_RTP_INGRESS_DEPTH
    SeqMod,         \* 2^32: the width of the frame sequence number
    Leaving,        \* bound: the ends that may end the attachment
    MaxPieces,      \* bound: pieces of a frame
    MaxFrames,      \* bound: frames that each end sends
    MaxDelay,       \* bound: a piece is late by fewer frames than this
    MaxInFlight     \* bound: pieces in the network

End == {"server", "client"}

ASSUME RtpAssumption ==
    /\ 1 \in Address /\ Address \subseteq Nat \ {0}
    /\ NoAddress = 0
    /\ {ActiveTime, ProbeTime, IngressDepth, MaxPieces, MaxDelay} \subseteq Nat \ {0}
    /\ {FrameTime, MaxInFlight, SeqMod} \subseteq Nat
    /\ Policies # {} /\ Policies \subseteq SUBSET Address
    /\ Leaving \subseteq End
    /\ MaxFrames \in [End -> Nat]
    /\ 2 * MaxDelay < SeqMod    \* the replay window of SRTP: 128 packets, of 2^32

VARIABLES
    status,         \* of the socket and its attachment
    clientAddress,  \* where the client is
    address,        \* where the server thinks it is
    seen,           \* age of last_seen; ActiveTime when it is too old, or none
    probed,         \* age of the client's last_probe; ProbeTime when one is due
    sent,           \* frames each end sent: frame_seq before it is cut to its width
    rx,             \* the frame each end is putting together
    net,            \* packets in the network
    queue,          \* the server's ingress queue
    last,           \* history: the last frame each end handed on
    filtered,       \* the addresses that the source filter refuses now
    turned          \* history: it changed since the server took a packet

wire == <<net, queue>>
policy == <<filtered, turned>>
vars == <<status, clientAddress, address, seen, probed, sent, rx,
          net, queue, last, filtered, turned>>

Probe == [kind : {"rtcp"}, to : End, at : Address]
Piece == [kind : {"rtp"}, to : End, at : Address,
          frame : Nat \ {0}, count : 1 .. MaxPieces, index : 1 .. MaxPieces]

-----------------------------------------------------------------------------
(* Helpers *)

attached(e) == status[e] \in {"attached", "invalid"}

Peer(e) == IF e = "server" THEN "client" ELSE "server"

Active(e) == attached(e) /\ seen[e] < ActiveTime

\* Where e sends: the client knows the server, the server may not know the client.
Path(e) == IF e = "client" THEN clientAddress ELSE address

\* send_packet asks the filter for each packet it sends; the client's only
\* correspondent is the server.
Sendable(e) == e = "server" => Path(e) \notin filtered \cup {NoAddress}

ProbeTo(e, a) == {[kind |-> "rtcp", to |-> e, at |-> a]}

frame_seq(n) == n % SeqMod

\* (int32_t) (a - b) > 0
After(a, b) == (a - b) % SeqMod \in 1 .. ((SeqMod - 1) \div 2)

NoFrame == [seq |-> 0, count |-> 0, pieces |-> <<>>, age |-> 0, complete |-> FALSE]

have_incoming(e) == rx[e].count # 0

\* Bug: the frame under way is kept when a piece of another one comes.
FrameOfAny(e, p) ==
    IF have_incoming(e) /\ ~rx[e].complete THEN rx[e]
    ELSE [NoFrame EXCEPT !.seq = frame_seq(p.frame), !.count = p.count]

\* The frame that p belongs to: the one under way, or a new one in its place.
FrameOf(e, p) ==
    IF have_incoming(e) /\ frame_seq(p.frame) = rx[e].seq THEN rx[e]
    ELSE [NoFrame EXCEPT !.seq = frame_seq(p.frame), !.count = p.count]

\* rr_rtp_receive takes the piece.
Takes(e, p) ==
    LET f == FrameOf(e, p)
    IN  /\ have_incoming(e) =>
               frame_seq(p.frame) = rx[e].seq \/ After(frame_seq(p.frame), rx[e].seq)
        /\ ~f.complete
        /\ f.age <= FrameTime
        /\ f.count = p.count
        /\ p.index \notin DOMAIN f.pieces

\* Frames whose pieces wait in the queue, or are put together and in time: while
\* they do, no end sends as many frames as there are numbers.
Pending(e) ==
    LET f == rx[e]
    IN  {queue[i].frame : i \in {i \in DOMAIN queue : e = "server" /\ queue[i].kind = "rtp"}}
            \cup {f.pieces[i] : i \in {i \in DOMAIN f.pieces : f.age <= FrameTime}}

\* The checks before: the server takes media from the address it knows, if any.
Passes(e, p) ==
    /\ attached(e)
    /\ e = "server" /\ p.kind = "rtp" /\ address # NoAddress => p.at = address
    /\ e = "server" => p.at \notin filtered

\* The frame whose bytes were put together; 0 when they are of several.
Whole(pieces) ==
    IF \E n \in 1 .. MaxFrames["server"] + MaxFrames["client"] :
           \A i \in DOMAIN pieces : pieces[i] = n
    THEN pieces[1] ELSE 0

-----------------------------------------------------------------------------
(* Attachments *)

Attach(e) ==
    /\ status[e] = "open"
    /\ status' = [status EXCEPT ![e] = "attached"]
    /\ UNCHANGED <<clientAddress, address, seen, probed, sent, rx, wire, last,
                   policy>>

\* memset: nothing of the attachment is left.
Reset(e) ==
    /\ seen' = [seen EXCEPT ![e] = ActiveTime]
    /\ rx' = [rx EXCEPT ![e] = NoFrame]
    /\ address' = IF e = "server" THEN NoAddress ELSE address
    /\ probed' = IF e = "client" THEN ProbeTime ELSE probed

\* The owner's session ended: validate() says so to the next poll.
Invalidate(e) ==
    /\ e \in Leaving
    /\ status[e] = "attached"
    /\ status' = [status EXCEPT ![e] = "invalid"]
    /\ UNCHANGED <<clientAddress, address, seen, probed, sent, rx, wire, last,
                   policy>>

Detach(e) ==
    /\ status[e] = "invalid"
    /\ status' = [status EXCEPT ![e] = "detached"]
    /\ Reset(e)
    /\ UNCHANGED <<clientAddress, sent, wire, last, policy>>

\* The thread is joined and its queue freed before the attachments go.
Close(e) ==
    /\ e \in Leaving
    /\ status[e] # "closed"
    /\ status' = [status EXCEPT ![e] = "closed"]
    /\ queue' = IF e = "server" THEN <<>> ELSE queue
    /\ Reset(e)
    /\ UNCHANGED <<clientAddress, sent, net, last, policy>>

-----------------------------------------------------------------------------
(* Sending *)

\* Bug: a client need not have heard of the server before it sends.
SendUnheard(e, count, part) ==
    LET frame == sent[e] + 1
        Cut == [kind : {"rtp"}, to : {Peer(e)}, at : {Path(e)},
                frame : {frame}, count : {count}, index : 1 .. part]
    IN  /\ attached(e)
        /\ sent[e] < MaxFrames[e]
        /\ sent' = [sent EXCEPT ![e] = frame]
        /\ net' = IF Sendable(e) THEN net \cup Cut ELSE net
        /\ UNCHANGED <<status, clientAddress, address, seen, probed, rx,
                       queue, last, policy>>

\* rr_rtp_send stops at the first piece the socket does not take; the number
\* that would be 0 is refused, and its frame is lost.
Send(e, count, part) ==
    LET frame == sent[e] + 1
        Cut == [kind : {"rtp"}, to : {Peer(e)}, at : {Path(e)},
                frame : {frame}, count : {count}, index : 1 .. part]
        Old == {p \in net : p.kind = "rtp" /\ p.to = Peer(e) /\ p.frame + MaxDelay <= frame}
    IN  /\ Active(e)
        /\ sent[e] < MaxFrames[e]
        /\ Old = {}
        /\ \A n \in Pending(Peer(e)) : frame < n + SeqMod
        /\ sent' = [sent EXCEPT ![e] = frame]
        /\ net' = IF frame_seq(frame) # 0 /\ Sendable(e) THEN net \cup Cut ELSE net
        /\ Cardinality({p \in net' : p.kind = "rtp"}) <= MaxInFlight
        /\ UNCHANGED <<status, clientAddress, address, seen, probed, rx,
                       queue, last, policy>>

SendProbe ==
    /\ status["client"] = "attached"
    /\ probed = ProbeTime
    /\ probed' = 0
    /\ net' = net \cup ProbeTo("server", clientAddress)
    /\ UNCHANGED <<status, clientAddress, address, seen, sent, rx, queue,
                   last, policy>>

-----------------------------------------------------------------------------
(* Receiving *)

\* A poll that has let go of invalid attachments comes to its datagrams.
Polls(e) == status[e] \notin {"invalid", "closed"}

Refuse(e, p) ==
    /\ ~Passes(e, p) \/ (p.kind = "rtp" /\ ~Takes(e, p))
    /\ UNCHANGED <<address, seen, rx, last, policy>>

\* Bug: the server stays with the first address it heard from.
TakeFirstProbe(e, p) ==
    /\ p.kind = "rtcp"
    /\ Passes(e, p)
    /\ seen' = [seen EXCEPT ![e] = 0]
    /\ address' = IF e = "server" /\ address = NoAddress THEN p.at ELSE address
    /\ turned' = (e = "client" /\ turned)
    /\ UNCHANGED <<rx, last, filtered>>

\* The server goes to where the probe came from, and answers there.
TakeProbe(e, p) ==
    /\ p.kind = "rtcp"
    /\ Passes(e, p)
    /\ seen' = [seen EXCEPT ![e] = 0]
    /\ address' = IF e = "server" THEN p.at ELSE address
    /\ turned' = (e = "client" /\ turned)
    /\ UNCHANGED <<rx, last, filtered>>

TakePiece(e, p) ==
    LET f == FrameOf(e, p)
        got == [i \in DOMAIN f.pieces \cup {p.index} |->
                   IF i = p.index THEN p.frame ELSE f.pieces[i]]
        all == Cardinality(DOMAIN got) = f.count
    IN  /\ p.kind = "rtp"
        /\ Passes(e, p)
        /\ Takes(e, p)
        /\ seen' = [seen EXCEPT ![e] = 0]
        /\ rx' = [rx EXCEPT ![e] =
                     IF all THEN [f EXCEPT !.pieces = <<>>, !.age = 0, !.complete = TRUE]
                     ELSE [f EXCEPT !.pieces = got]]
        /\ last' = IF all THEN [last EXCEPT ![e] = Whole(got)] ELSE last
        /\ turned' = (e = "client" /\ turned)
        /\ UNCHANGED <<address, filtered>>

Handle(e, p) == Refuse(e, p) \/ TakeProbe(e, p) \/ TakePiece(e, p)

\* The thread: a datagram that finds the queue full is dropped.
Ingress(p) ==
    /\ p \in net /\ p.to = "server"
    /\ status["server"] # "closed"
    /\ net' = net \ {p}
    /\ queue' = IF Len(queue) = IngressDepth THEN queue ELSE Append(queue, p)
    /\ UNCHANGED <<status, clientAddress, address, seen, probed, sent, rx,
                   last, policy>>

\* Bug: only the probe that tells the server an address is answered.
ServerPollAnswersOnce ==
    /\ queue # <<>>
    /\ Polls("server")
    /\ LET p == Head(queue)
       IN  /\ Handle("server", p)
           /\ net' = IF Passes("server", p) /\ p.kind = "rtcp" /\ address # p.at
                     THEN net \cup ProbeTo("client", p.at) ELSE net
    /\ queue' = Tail(queue)
    /\ UNCHANGED <<status, clientAddress, probed, sent>>

ServerPoll ==
    /\ queue # <<>>
    /\ Polls("server")
    /\ LET p == Head(queue)
       IN  /\ Handle("server", p)
           /\ net' = IF Passes("server", p) /\ p.kind = "rtcp"
                     THEN net \cup ProbeTo("client", p.at) ELSE net
    /\ queue' = Tail(queue)
    /\ UNCHANGED <<status, clientAddress, probed, sent>>

\* What was sent to an address the client has left does not reach it.
ClientPoll(p) ==
    /\ p \in net /\ p.to = "client" /\ p.at = clientAddress
    /\ Polls("client")
    /\ Handle("client", p)
    /\ net' = net \ {p}
    /\ UNCHANGED <<status, clientAddress, probed, sent, queue>>

-----------------------------------------------------------------------------
(* The network, the clock and the filter *)

Lose(p) ==
    /\ p \in net
    /\ net' = net \ {p}
    /\ UNCHANGED <<status, clientAddress, address, seen, probed, sent, rx,
                   queue, last, policy>>

Move ==
    /\ clientAddress + 1 \in Address
    /\ clientAddress' = clientAddress + 1
    /\ UNCHANGED <<status, address, seen, probed, sent, rx, wire, last, policy>>

\* Whom the filter lets in may change while a client is attached.
SetPolicy(refused) ==
    /\ refused # filtered
    /\ filtered' = refused
    /\ turned' = TRUE
    /\ UNCHANGED <<status, clientAddress, address, seen, probed, sent, rx,
                   wire, last>>

Older(age, limit) == IF age < limit THEN age + 1 ELSE limit

Tick ==
    /\ seen' = [e \in End |-> Older(seen[e], ActiveTime)]
    /\ probed' = Older(probed, ProbeTime)
    /\ rx' = [e \in End |->
                 IF have_incoming(e) /\ ~rx[e].complete
                 THEN [rx[e] EXCEPT !.age = Older(@, FrameTime + 1)] ELSE rx[e]]
    /\ UNCHANGED <<status, clientAddress, address, sent, wire, last, policy>>

-----------------------------------------------------------------------------
Init ==
    /\ status = [e \in End |-> "open"]
    /\ clientAddress = 1
    /\ address = NoAddress
    /\ seen = [e \in End |-> ActiveTime]
    /\ probed = ProbeTime
    /\ sent = [e \in End |-> 0]
    /\ rx = [e \in End |-> NoFrame]
    /\ net = {}
    /\ queue = <<>>
    /\ last = [e \in End |-> 0]
    /\ filtered \in Policies
    /\ turned = FALSE

Next ==
    \/ \E e \in End :
           \/ Attach(e) \/ Invalidate(e) \/ Detach(e) \/ Close(e)
           \/ \E count \in 1 .. MaxPieces : \E part \in 0 .. count : Send(e, count, part)
    \/ SendProbe \/ ServerPoll \/ Move \/ Tick
    \/ \E p \in net : Ingress(p) \/ ClientPoll(p) \/ Lose(p)
    \/ \E refused \in Policies : SetPolicy(refused)

\* Both programs poll and the clock runs.  The network may lose a probe, but not
\* every one of them for ever, and the thread finds room for one now and then.
Fairness ==
    /\ WF_vars(Tick) /\ WF_vars(SendProbe) /\ WF_vars(ServerPoll)
    /\ SF_vars(\E p \in net : /\ p.kind = "rtcp" /\ p.at = clientAddress
                              /\ Len(queue) < IngressDepth /\ Ingress(p))
    /\ SF_vars(\E p \in net : p.kind = "rtcp" /\ ClientPoll(p))

Spec == Init /\ [][Next]_vars /\ Fairness

-----------------------------------------------------------------------------
(* Properties *)

\* Every variable has its type.  The queue keeps within its depth, however the
\* thread and the polls take turns, and no end hands on a frame not sent yet.
TypeOK ==
    /\ status \in [End -> {"open", "attached", "invalid", "detached", "closed"}]
    /\ clientAddress \in Address
    /\ address \in Address \cup {NoAddress}
    /\ seen \in [End -> 0 .. ActiveTime]
    /\ probed \in 0 .. ProbeTime
    /\ \A e \in End : sent[e] \in 0 .. MaxFrames[e]
    /\ \A e \in End : DOMAIN rx[e].pieces \subseteq 1 .. rx[e].count
    /\ net \subseteq Probe \cup Piece
    /\ queue \in Seq(Probe \cup Piece) /\ Len(queue) <= IngressDepth
    /\ \A e \in End : last[e] \in 0 .. sent[Peer(e)]
    /\ filtered \in Policies /\ turned \in BOOLEAN

\* A server that is willing to send knows where to: no media reaches it before a
\* probe did (rtp.socket.c:380 lets media in while the address is not known).  And
\* the filter that it asks for each packet (rtp.socket.c:280) lets that address
\* through, unless it changed since the server last heard from the client; then
\* rr_rtp_send uses up a number for each frame, and none of them is sent.
ActiveMeansReachable ==
    Active("server") => address # NoAddress /\ (turned \/ address \notin filtered)

\* Whatever the network does to the pieces, and across the wrap of the frame
\* number, an end hands on frames of the other end, whole, in order and once.
Stream == INSTANCE FrameStream WITH put <- [e \in End |-> sent[Peer(e)]], out <- last

StreamSpec == Stream!Spec

BothUp == \A e \in End : status[e] = "attached"

\* The filter lets the client in where it is.
Welcome == clientAddress \notin filtered

\* The server finds the client again after it moved, even if an old probe that
\* was late sent it back to where the client was, or the filter refused it for a
\* while.
PathRecovers == BothUp /\ Welcome ~> ~BothUp \/ ~Welcome \/ address = clientAddress

\* The client's probes are answered: it gets to send.
ClientActivates == BothUp /\ Welcome ~> ~BothUp \/ ~Welcome \/ Active("client")
=============================================================================
