# TLA+ models of librrprotocol

librrprotocol is the protocol library of the RustyRig server and its clients: sessions
and login over WebSockets, an account database, push-to-talk and rig control, chat
rooms, media channels, SDR bridges. It is driven by one event loop (callbacks of the
transport, and a periodic tick) and talks to the application through synchronous events
(`event_emit*`). One thread beside it receives datagrams into a bounded queue. So what
can go wrong is not two threads in one structure; it is the order in which messages of
several connections, timers, account reloads and closes arrive, what is remembered from
one handler to the next, and what one handler changes under another's feet (a kick in
the middle of a message, a slot of the account table that changes hands, a pointer to a
connection that is freed).

One action of a model is one run of a handler. Where a handler calls out and the call
changes state that the rest of the handler reads (the account refresh at the head of
each message), the model has a state in between, in which only that handler may go on.

## Inventory

| Component | Sources | State | Operations | Interacts with |
|---|---|---|---|---|
| Sessions, login | `srv.auth.c`, `srv.client.c`, `srv.http.c`, `cli.main.c` | `http_client_list`, each `rrconn_t` (user, authenticated, nonce, chatname) | accept, login (challenge), pass (reply), logout, kick, close | account table (pointers into it), PTT, rooms, media |
| Account database | `srv.auth.passdb.c`, `auth.h` | `http_users[]` with `sessions`, `is_muted` | load, reload, reconcile live sessions | sessions (kick), PTT (release) |
| Push-to-talk | `srv.rigctl.c`, `srv.ptt.disconnect.c` | `is_ptt`, `ptt_vfo`, `ptt_room`, `noob_cooldown` of each connection | key-down, own release, override, forced release | rooms (VFO masks), accounts (privileges), the rig (events) |
| Rooms and chat | `srv.chat.c`, `srv.chat.whois.c`, `srv.chat.error.c` | `cptr->rooms`, `room_meta[]` | join, part, messages, kick, mute, topic, user administration | PTT, media, application (admission) |
| SDR tuning owner | `srv.chat.c` 646-705 | `sdr_members` list of connection addresses | join, part, query | rig commands |
| Rig commands | `srv.rigctl.c`, `srv.chat.c` 373-622, 1677-1821 | `room_meta[]` masks, authoritative room and mask, `chat_vfo` of each connection | power, frequency, width, mode, swap, split, `!vfo` and typed commands; the application's setters | rooms, SDR owner, accounts, the rig (events) |
| Keep-alive | `srv.session.c`, `srv.ping.c`, `srv.http.c` | `last_heard`, `last_ping`, `ping_attempts` | housekeeping tick, ping, pong | sessions (kick) |
| Callsign lookup | `srv.chat.c` 40-375 | one helper process, one pending request, its asker and deadline | request, poll, stop, restart | chat, the helper |
| Login attempt budget | `srv.auth.c` 169-196 | 128 peers with window and attempts | count | login |
| Media channels | `ws.mediachan.c` | 64 channel slots, subscriptions of each connection, codec choices | add, remove, subscribe, select codec, fan out | rooms, sessions, application |
| Media health | `media.health.c`, senders in `ws.mediachan.c` and `cli.main.c` | flows: last frame, gaps, lateness, reports, quality | number, enqueue, observe, report, adapt | media channels, RTP, ping |
| Binary frames | `binframe.c` | partial log chunks per connection | dispatch, reassemble, purge | media |
| Traffic, latency | `traffic.c`, `latency.c` | counters; one outstanding request | count, request, answer, supersede | client |
| Clients | `cli.*.c`, `ws.auth.c`, `connman.c` | one connection record, `ws_connected`, login state | connect, change transport, capabilities, hello, login, reply, logout, close | server's login, user interface |
| Codec negotiation | `codecneg.c` | none | intersect preference lists | media |
| RTP | `rtp.c`, `rtp.socket.c` | attachment, the client's address, the frame being put together, the ingress queue | attach, probe, send, receive, ingress thread, detach, close | media, the network |
| Bridges | `bridge.ipc.c`, `bridge.media.c`, `bridge.sdr.c`, `cfg.bridge.c` | registered drivers, framing buffers | register, read frame, write frame | media |
| Objects, links | `objects.c`, `link.wire.c` | link phase, object sequence numbers | request, update, hello | other servers |
| Wire format, VFO table, crypto, HTTP, configuration | `wire.c`, `vfo.c`, `crypto.*.c`, `http.*.c`, `cfg.*.c` | little or none | conversions | all |

The transport (`rr_transport_*`, mongoose), the rig, the helper process and the
application that handles the events are outside the repository; a model says what it
takes them to do.

What makes each component correct, and what is hard about it:

- Sessions: each session is counted once in its account's counter and off it once; a
  session keeps the identity it proved; the sessions of a revoked account end. Hard:
  login takes two messages; a kick and the close that follows are two steps; the table
  may be reloaded at any point between.
- Push-to-talk: one talker; the rig keyed on its channel and no other; authority at
  every moment, not only at key-down; every way out of a transmission tells the rig.
- SDR tuning: the longest-present member; always somebody.
- Keep-alive: the dead are dropped, the living are not.
- Rig commands: from a receive room nothing is tuned but what the rig let go of; the
  first rig's room reaches its authoritative VFOs only. Hard: the masks are written from
  three sides, one of them every rig message.
- Callsign lookup: answers go to who asked; the helper's failure blocks nobody. Hard:
  who asked may leave before the answer comes, and the helper may be slow to start.
- Media channels: a listener understands what its channel carries, and whoever changes
  the codec does so to nobody else; who leaves the rooms of a rig loses its channels.
  Hard: a channel is shared, its codec comes about in four ways, a receive channel is
  seen by way of several rooms, and slots are used again.
- Media health: every loss is counted once, quality falls at once and comes back, a
  stream goes on over wrap, loss and a change of transport.
- RTP: frames come out whole, in order and once; the server finds a client that moved.
  Hard: pieces are lost, late and out of order, also across the wrap; the one thread of
  the library fills a bounded queue.
- Clients: the client ends up logged in on the transport its record names. Hard: the old
  transport still delivers while the new one is being set up.

`PROJECT.json` lists under `hazards` each hard spot at its line, with the properties
that cover it or the reason none does.

## Modules

| Module | What it is |
|---|---|
| `Session` | connection list, two-step login, kick, close, account table, reload |
| `MCSession` | account tables for TLC |
| `PttLock` | abstract: a transmitter with one holder |
| `Ptt` | extends `Session` with push-to-talk, rooms and the audio gate; implements `PttLock` |
| `MCPtt` | account tables, masks and grants for TLC |
| `PttProofs` | theorems about `Session` and `Ptt` |
| `Keepalive` | pings, pongs, the housekeeping tick |
| `KeepaliveProofs` | theorems about `Keepalive` |
| `Callsign` | the lookup helper and its one request |
| `CallsignProofs` | theorems about `Callsign` |
| `SdrTuning` | the join-order list of SDR rooms |
| `RigControl` | extends `SdrTuning` with the other rig commands and the table of rooms |
| `MCRigControl` | a rig, its receive room and an SDR for TLC |
| `RigControlProofs` | theorems about `SdrTuning` and `RigControl` |
| `MediaChan` | media channels, rooms, subscriptions, codec selection |
| `MCMediaChan` | a rig with two rooms for TLC |
| `MediaChanProofs` | theorems about `MediaChan` |
| `MediaFlow` | one audio stream: numbers, gaps, reports, quality |
| `MediaFlowProofs` | theorems about `MediaFlow` |
| `FrameStream` | abstract: frames come out whole, in order, at most once |
| `Rtp` | both ends of an RTP attachment; implements `FrameStream` |
| `MCRtp` | numbers of frames for TLC |
| `RtpProofs` | theorems about `Rtp` |
| `Client` | the client's handshake and login, with the server's answers |
| `ClientProofs` | theorems about `Client` |

Operators whose comment starts with "Bug:" are not part of a model: each is a plausible
mistake in the operator after it, and replacing the one by the other must break the
property named in `PROJECT.json`.

### Session

`conn[c]` is `"none"`, `"open"`, `"closing"` (kicked: `ws_kick_client` closed the
transport, but the record stays in the list, authenticated, until `MG_EV_CLOSE`), or
`"evicted"`: kicked by the refresh (`ws_auth_refresh`) of the message that is being
handled, whose handler goes on. `user[c]` is the slot that `cptr->user` points at.
Privileges are looked up as the code does it, through the `uid` stored in the slot, so a
session whose slot was erased (uid 0) is judged as account 0. A reload
(`http_reload_users`) replaces the whole table by any member of `AccountTables`, keeps
the counters and mutes of slots whose name is unchanged, and evicts sessions.

Abstracted: hashes and nonces (a reply is right or wrong; a challenge is outstanding or
not), the file's syntax, the per-address attempt budget, guests' random names, plain
HTTP.

### Ptt

Adds the four fields of a connection, room membership, the VFO masks of rooms, and
`transmitting`, the rig as the events to the application describe it. `KeyDown`,
`OwnRelease` and `OverrideRelease` are the three paths through `ws_handle_rigctl_msg`
for `ptt`, with its gates in the order of the code: own release skips mute and authority
but not the VFO mask; override uses the holder's room and VFO. `ReleasePtt(S)` is
`ws_release_ptt_on_disconnect` for a set of sessions, called by close, mute and reload.
Whether an elmer accepts supervision is free (`denied`), as is the talker of a linked
server. An event to the application is taken to be carried out: a rig that refuses to
stop is not modelled.

`AudioAccepted(c, r, v, denied)` is the gate of `ws_binframe_process_mg` for audio to
transmit, which changes no state; `AudioFromTalker` relates what it lets through to what
the rig is keyed for. A frame may be marked for every VFO (`RR_BINFRAME_VFO_NA`, here
`NoVfo`), and its channel may have no room; the gate compares rooms only if the
transmission has one. Frames of an account with the privilege `media.source` are fanned
out to the listeners of a receive channel before that gate is reached, without the key
and even while the account is muted (`MediaSource`); if there is no receive channel the
application gets them by an event of their own, not the one for the rig. Their check is
the subscription to the channel, which is in `MediaChan`.

### Keepalive

Times are ages, so the clock is unbounded with no bound on the model. The application
decides how often the housekeeping runs; the model lets it run at any time. `Latency` is
how long the slowest live peer takes.

### Callsign

`callsign_lookup_wait_ready` with a timeout either finds the helper ready or stops it,
so between handlers a running helper is a ready one, and the branch of the poll that
waits for a banner is never taken. Whether the banner comes within the 250 ms that a
request waits is up to the machine: `prompt`, which `Pace` changes at any time. A helper
that cannot be spawned is not modelled.

`Client` is a set of connection records, which are used again. Freeing a connection does
not clear `callsign_lookup_client` (`srv.client.c` 276-321), so the answer of a request
whose asker left is sent to a freed record, which the model takes to have no effect, or
to the connection that has the record by then, which the model does. `waiting` is what a
connection is owed, and `asker_left` (history) that the asker of the request under way
is gone. An answer that a crashed helper left in its pipe is read like any other.

### SdrTuning and RigControl

`Client` is a set of addresses; those in `Reused` may be given to a new connection after
a close. Two variables are histories: `earlier`, the pairs of members of a room of which
the one joined before the other, and `tuner`, the last one to tune each receiver. What
`sdr_member_remove` and the walk for the owner leave of the list is `Kept(K)`, the
entries at the places in `K` in their order.

`RigControl` has `room_meta`, whose entries are made on first use and never freed, and
the authoritative mask and room. `Asserted` is what every rig message writes before it
looks at its room (`ws_authoritative_room`); `Admitted` is the gates of
`ws_handle_rigctl_msg`, `Orders` what is left of the commands after them. `rig_order` is
what the step tells the rig. Rights to transmit, mutes and transmissions are free
variables, set at any time: they are the subject of `Session` and `Ptt`, and nothing
here writes them.

### MediaChan

A slot of `media_channels` holds a source (the routing quadruple), a room and a codec;
`channels[c]` is the pair of arrays `rx_channels` and `tx_channels`, which name slots.
As in the code, clearing a slot leaves the subscriptions that name it. A subscription to
a channel without a codec chooses one (`InitialCodec`) and keeps the choice even if the
array of the client is full. A channel that the application adds has the base room of
its source, one that a client makes has none. `agreed` is a history variable: the
subscriptions a client made by its own request to the channel that is there now, with
the capabilities it has now. It leaves out what a slot used again inherits, and what an
unnamed PART forgets to end.

Abstracted: messages to clients, other media than audio (video profiles, fixed modem
formats), frames, feedback, privileges, vetoes of the application, the length limit on
the list of rooms.

### MediaFlow

One stream from one sender to one subscriber. A frame is its number, a residue modulo
`SeqSize`, and its age. There are three senders: `Broadcast` (the library's own
channels, which never adapts), `SendFrame` (which adapts to the queue, the round trips
and the last report) and `SendByRtp`. `Observe` is `rr_media_observe`: the comparison of
numbers, gaps, lateness over the earliest frame seen, and the report once a second,
which is applied at once (`Feedback`) or lost. `missing` and `since_drop` are history
variables.

`calm` stands for the moment from which the network is good; the liveness properties are
about what comes after it. Before it, at most `MaxLost` frames are lost between two that
arrive. A frame is not so old, or so far ahead, that its number could stand for another
(`Distinguishable`): with 2^32 numbers that takes years.

### Rtp and FrameStream

Two ends, of which the client probes and the server answers where the last authenticated
probe came from. A piece carries, for the model only, the number of its frame before it
is cut to its width (`frame_seq`), so that `Whole` can tell whether the bytes put
together are of one frame. The frame number 0 is refused when it comes up
(`rr_rtp_send`), and `After` compares as the code does, by the sign of a difference. The
thread of `rtp.socket.c` is the action `Ingress`, which drops what finds the queue full.
The source filter is a callback of the application, asked for each packet that comes and
each that is sent. `filtered` is what it refuses now, and `SetPolicy` changes that at
any time, also under a client that is attached; `turned` (history) says that it changed
since the server last took a packet.
`SRTP` is external: it lets a packet through once and none that is changed, so that no
frame comes out twice rests on it. A piece is
late by fewer than `MaxDelay` frames, which stands for its replay window. The clock and
the number of frames sent are not related in the model, so `Send` says what their
relation comes to: no end sends as many frames as there are numbers while a piece waits
in the queue or its frame is in time (`Pending`). In the code a frame is in time for 100
ms (`rtp.c` 215), the queue is emptied at every poll, and there are 2^32 numbers.

`FrameStream` has two variables, the number of frames put in and the last one that came
out; `Stream` maps `sent` and `last` to them.

### Client

`conn` is `cptr->conn`; `transport[k]` and `session[k]` are the two ends of transport
`k`, with a queue of messages each way. The actions named `Handle...`, `Open`,
`Incompatible` and `ClientClose` are the branches of `http_handler`,
`ws_txtframe_dispatch` and `ws_handle_client_auth_msg`; `Server...`, `Accept` and `Kick`
are the server's. As in the code, the client answers by way of its record, whichever
transport a message came from; `crossed` (history) notes when the two differ. The
account and its password are right; wrong ones are in `Session`.

## Runs

| Run | Bounds | Shows |
|---|---|---|
| `SessionCounts` | 3 connections, 2 slots: one changes hands or is erased, the other's account is disabled or expires | counter exact where the slot keeps its account, never too high elsewhere; identity |
| `PttRooms` | 2 connections, 2 rigs, noobs, grants and a media source, mutes, kicks, reloads | one talker, rig in step across rooms, audio of the talker only, mutes, stop order, lock refinement |
| `PttLive` | 2 connections, 1 rig whose mask changes, an account is disabled or must change its password | its sessions end, a kicked talker leaves the air; authority and the rig meanwhile |
| `KeepAlive` | the times of `http.h` in seconds, latency 47 | live peers kept, dead ones kicked |
| `CallsignLookup` | 3 connection records, used again; a helper that crashes and is slow at times | answers match, lookups end, retries succeed once the helper starts fast enough |
| `SdrOwner` | 3 addresses, one used again, 2 rooms, list of 5 | there is always an owner; new addresses keep their order; who tuned keeps the receiver |
| `RigControl` | 1 address used again, a rig, its receive room and an SDR, 2 VFOs, a table of 2 | receive rooms tune only what was let go of; the first rig's mapping |
| `MediaChannels` | 2 clients, 2 slots, 2 rooms of one rig, one subscription per direction, a test codec that the server prefers and a real one | shared codecs, revocation by PART, one channel per source, no test signal on the air |
| `MediaFlow` | 8 frame numbers, frames of half the limit, 1 frame lost in a row, 2 missing between reports, scaled times | losses counted once, quality steady and recovering, the stream continues |
| `RtpFrames` | numbers modulo 5, 7 frames of up to 2 pieces, 2 pieces under way, a queue of 2 | `FrameStream` is implemented, across one wrap and two frames of one number |
| `RtpPath` | 2 addresses, of which the filter refuses none, one or the other, and changes; 1 frame each way, a queue of 1, the server may leave | the server knows where to send and may, unless the filter changed; it finds the client again and lets it send |
| `ClientLogin` | 2 transports used again and again, 2 changes or logouts, 1 fault | capabilities first, own challenge, no session tripped up, login in the end |

The type invariants and `ConnectedMeansOpen` are proved, so the runs spend their time on
other properties.

Why the bounds are enough: a property of sessions or push-to-talk relates at most two
sessions of one account and a third party (staff, or a second account), so three
connections and two accounts meet every combination, and the theorems of `PttProofs`
cover any number where `PttRooms` has two; two rooms are the least in which a release
can name the wrong one. A codec is disputed by two listeners, and a slot used again
needs a second channel to differ from the first; a client that takes only the test codec
has no codec in common for a transmit channel, so that branch is met too. `Keepalive`
needs one connection: the housekeeping treats each by itself. Rig commands have no state
of more than one connection but the join order, which `SdrOwner` has with three
addresses; a table of two with three rooms is full. Eight frame numbers let the window
of newer frames be smaller than the gaps are wide and wrap many times; frames of half
the limit make the queue full with two. Two pieces are the least that can be of two
frames. Two addresses are one to move to and one that a late probe leads back to, and
the filter may refuse either of them. Three connection records let one that is used
again ask while two others wait their turn. Two transports are what the client can hold
at once; names are used again. The reserve of two switches lets a transport that was
left be taken up again. The runs with `SYMMETRY` check invariants and action properties
only. `ClientLogin` does not check for deadlock, because once its bounds are used up a
client that is logged in has nothing more to do.

Fairness. A transport that was told to close does close, and a handler returns: `SF` on
the close, because the handler of another connection may disable it in between, and the
event loop visits every connection on each turn. In `Keepalive` the clock runs and the
application calls the housekeeping again and again. In `Callsign` time passes, the tick
polls, and a user who was told to retry does; `RetrySucceeds` is about helpers that from
some time on show their banner within 250 ms. In `Client` both event loops run, messages
in a transport arrive, a closing transport closes, and the application connects again
when it hears "disconnected". In `Rtp` both programs poll and the clock runs; of the
network only that it does not lose every probe for ever, and of the queue that the
thread finds room for one now and then (`SF`): a queue that is full whenever a probe
comes is assumed away. The filter may change its verdict for ever; `PathRecovers` and
`ClientActivates` ask only for what happens while it lets the client in. In `MediaFlow`
only once the network is calm: the program goes on sending, the transports deliver, time
passes. No fairness is assumed of peers, helper answers, logins, or frames of RTP.

## Noted while modelling

What the code does, and the models with it, that a maintainer may want to look at.

Sessions and accounts
- The session limit of an account is checked at the challenge and used up at the reply
  (`srv.auth.c` 306), so two connections between the two pass a limit of one.
- The limit on all sessions is compared with `>` before the new session is counted
  (`srv.auth.c` 297).
- A slot of the account table that changes hands while sessions are counted in it loses
  a count (`srv.client.c` 309); `SessionsCounted` is therefore about slots that kept
  their account.
- The refresh at the head of a message may evict the sender, and the handler goes on
  with its command (`srv.http.c` 331).
- A session whose slot was erased is judged by account 0 (`srv.auth.c` 140), and a
  challenge given before the slot was erased may be answered after it with the password
  of account 0, which no reload evicts before the next: `PttLive` disables the account
  and does not erase it.
- `HTTP_AUTH_TIMEOUT` is compared nowhere, nor is `HTTP_SESSION_LIFETIME`.

Push-to-talk and rig commands
- The cooldown of a noob belongs to a connection, not to the account (`srv.rigctl.c`
  351).
- An account that may key only by a resource grant is keyed, but its audio is dropped:
  the gate for audio does not ask the authorizer (`cli.main.c` 914).
- Swap and split ask for no right to transmit and, like `!vfo`, do not look whether
  another transmits (`srv.rigctl.c` 522).
- A typed command takes its VFO from the mask as it stands before the first rig is
  asserted (`srv.chat.c` 439), so on that rig it may be refused or name another than a
  message would.
- An address used again inherits the place of its predecessor in the join order
  (`srv.chat.c` 684).

Callsign lookup
- A helper whose banner takes longer than 250 ms is stopped and started anew by each
  retry (`srv.chat.c` 133), which then never succeeds. The user is told "still starting;
  please retry shortly" (1287), the log says so too (351), and a comment says of the
  probe that it preserves the helper for a later request (100): true of the poll only,
  which finds none to preserve.
- `callsign_lookup_client` outlives its connection (`srv.client.c` 276-321): an answer
  or the timeout (`srv.chat.c` 310, 331) goes to a freed record or to whoever has it.

Media
- A PART with the empty name leaves the default room but ends no media subscription
  (`srv.chat.c` 782, against `ws.mediachan.c` 543 "PART revokes every subscription in
  that room"); a channel made in the slot of a removed one inherits its subscriptions
  (`ws.mediachan.c` 376); `rrprotocol.h` 29 calls media subscriptions independent of
  rooms, which they are not.
- A client with two transmit channels has one `codec_tx` (`ws.mediachan.c` 1116).
- The library's own fan-out never asks for the quality (`ws.mediachan.c` 612): reports
  act only where the program sends by `ws_send_frame`.
- Lateness is measured against the earliest frame ever (`media.health.c` 190): a drift
  of the clocks, or a path that becomes longer for good, keeps the quality low.
- The numbers of a stream are kept by stream and its flow by codec: a change of codec
  and back counts as a gap. More than 10000 losses between two reports are forgotten; so
  is the flow that was used longest ago when a peer has more streams than slots.
- While the filter refuses the address of a client that was let in before, the server
  goes on numbering frames that `send_packet` does not send, for up to 3 s
  (`rtp.socket.c` 280, 292).
- `rr_rtp_send` refuses the frame number 0 and loses that frame, once in 2^32 (`rtp.c`
  124).

Client
- A message of a transport that was left is handled with the record of the new one
  (`cli.main.c` 384): an acknowledgement of one server makes the client log in to the
  other, and a challenge is answered there, which ends that session. It recovers by
  itself.
- The close or an error of a transport that was left clears `ws_connected` although the
  new one is open (`cli.main.c` 463; the comments at 439 and 465 say a stale close must
  not disturb the new connection).
- `authenticated` is never reset in the client's record.

## Proofs

All theorems hold for every value of the constants that satisfies the modules' named
assumptions.

- `PttProofs`, of `Session`: type correctness; `NoPhantomSessions`, by an inductive
  invariant on sets (the counter of a slot is at most the cardinality of its live
  sessions; what each step adds to or takes from that set, by lemmas on the cardinality
  of finite sets); `SessionsCounted`, by the same count as an equality, for the slots to
  which every table gives the same name, so that no reload moves a session into them;
  `IdentityFixed`, from the fact that an authenticated session has an account and is no
  longer logging in; `SessionNamesAccount`, which needs of every table loaded that a
  slot in use holds its own number as `uid` and that a slot without a name is disabled
  (`UsersWellFormed`): a reload then leaves open just the sessions whose name, charge
  and privileges are still those of one account.
- `PttProofs`, of `Ptt`: `Spec => SessionSpec`, so the theorems on sessions carry over.
  The inductive invariant `IInv` is the type invariant, the well-formedness of the
  table, and `KeySafe`: one talker, the rig follows it, its account is neither muted nor
  without authority. The four are proved together since each needs another: a release
  names the talker's channel only because there is one talker, and a reload silences the
  talker only because it has authority to lose. Steps fall in two kinds, a key-down and
  a release of a set of sessions; `ImplementsLock` is proved on the same split.
  `OverrideStrict` is from a lemma on `CanOverride` for all sets of privileges, and
  `AudioOfTalker` from `IInv`: the gate asks for the fields of a transmission that only
  the talker has, and a talker has a room, so that the gate does compare it.
- `KeepaliveProofs`: type correctness and `LivePeerKept`. The strengthening is that a
  live peer with an unanswered ping has an answer under way as old as the attempts made;
  when the last attempt times out it would be older than `Latency`.
- `CallsignProofs`: type correctness and `AnswersMatch`, for any helper. It is inductive
  with the types: a request is written only when none is pending, whatever ends one
  reads its answer or stops the helper, and the history `asker_left` tells the asker
  from a later user of its record.
- `MediaFlowProofs`: type correctness, which with the queue's limit needs that a frame
  is enqueued only where it fits, and `SteadyQuality`. Its strengthening relates two
  ages: the spell of good time that may raise the quality (`healthy_for`) is never older
  than the last drop (`since_drop`), since the drop ends it. `LossesCounted` is proved
  where a report can name every loss (`MaxMissing <= MaxGaps`; beyond that the code
  forgets some, and it is false). It needs that the numbers of the frames under way,
  seen from the sender's, are in the half of the range that the comparison of numbers
  tells apart, by lemmas on residues.
- `MediaChanProofs`: type correctness with the lengths of the arrays, one channel per
  source, `SubscribersUnderstand`, `PartRevokes`, `TxNeverTest` and `FormatHeld`. The
  inductive invariant says of each subscription that a client made, at once, that it is
  still there, by a room that shows the channel, in a codec that the client takes
  (`Understood`): a selection asks whoever is attached, and only who sees the channel
  is, so understanding needs the rooms; a PART ends what the room showed, so the rooms
  need the subscriptions. The four ways in which a channel gets a codec are four leaves.
- `RigControlProofs`: type correctness with the length of the table, `IndependentTuning`
  and `DefaultRigMapping`. The second is a lemma on the assertion of the first rig:
  whether the table has room or not, what the room maps afterwards is in the
  authoritative mask. It is assumed that SDR rooms, control rooms and receive rooms are
  told apart by their names, as the code's prefixes and patterns do.
- `RigControlProofs`, of `SdrTuning`: `OwnerPresent`, `OldestTunes`, `TunerStays`, and
  `Spec => SdrSpec`, by which the rig commands have them too. One lemma says what
  `Kept(K)` is, by induction on the number of places: its entries are those at the
  places in `K`, each once and in order. The invariant `SdrInv` follows from it for
  every step that thins the list: each member has an entry; a connection at an address
  used for the first time has entries of the rooms it is in and no others; entries of
  two such members are in the order of their joins; and before the entry of who tuned
  last there is no entry of that room, so that nobody who comes back at its address gets
  in front.
- `ClientProofs`: type correctness, `OwnChallengeAnswered`, `CapabilitiesFirst`,
  `ConnectedMeansOpen` and `OnlyCrossedKicked`. The invariant describes what may be
  under way: a queue is a sequence over a set of messages (`ToServer`, `ToClient`) that
  grows with the histories, so taking from it, adding to it and the steps of others keep
  it by three facts on sequences. For `OnlyCrossedKicked` it is joined by `OrderInv`: on
  a transport that no message of another got into, at most one step of the handshake is
  under way, in either direction, and it is the one that the session is waiting for.
- `RtpProofs`: type correctness with the depth of the ingress queue, `StreamSpec` and
  `ActiveMeansReachable`. The frame that an end puts together is the last it handed on
  or a later one, every piece it has is of that frame, and nothing that waits in the
  queue or is under way is so far from it that the two could share a number (`IInv`).
  Two lemmas on residues do the rest: equal numbers less than `SeqMod` apart are equal,
  and a number that `After` takes for later is later. `ActiveMeansReachable` needs that
  before the first probe nothing but probes can be under way, and that a packet that is
  taken comes from where the server sends to and has passed the filter (`PathInv`).

Only model-checked: liveness (`RevokedSessionsEnd`, `KickedTalkerReleases`,
`DeadPeerKicked`, `LookupEnds`, `RetrySucceeds`, `LoginSucceeds`, `PathRecovers`,
`ClientActivates`, `QualityRecovers`, `StreamContinues`), which is out of the prover's
reach. Every safety property that a run checks is proved.

What a proof showed of a model: in an earlier form of `Rtp` a frame could be sent while
a piece waited that was as many frames older as there are numbers, and the two were put
together, which six frames with five numbers were too few to show; hence `Pending`.

## Plan

What could be proved next, as properties of single steps: the measures by which the
liveness of `Keepalive` (attempts and age of the last ping), `Callsign` (time left of
the request) and `Ptt` (sessions of a revoked account) goes down and never up.

## Not modelled

- The table of login attempts (`srv.auth.c` 169-196): `Session` admits or refuses each
  attempt freely.
- Who gets a media frame: routing is by codec, room and direction of a channel in
  `MediaChan`'s state, but frames and the codec a connection remembers are not in it.
- Several streams in the slots of `media.health.c`, video and setup frames, hints to the
  program.
- Log chunks, latency, traffic counters: diagnostics.
- Bridges, links between servers and objects: framing and validation of messages, whose
  state is in the programs at their ends.
- Rooms of several server connections in one client process (the context swap of
  `srv.chat.c`).
- Wire format, codec preference lists, VFO table, cryptography, HTTP service,
  configuration: conversions and parsing, or plain storage.
- Allocation failures.
