------------------------------ MODULE MediaChan ------------------------------
(***************************************************************************)
(* The registry of media channels and who is subscribed to what: channels  *)
(* come and go in the slots of a table; clients subscribe by the index of  *)
(* the slot, negotiate the one codec that a channel has, and lose their    *)
(* subscriptions with the room.                                            *)
(*                                                                         *)
(* Every client here is logged in and has the privileges of its requests,  *)
(* every channel carries audio, every room of a rig maps the VFOs of its   *)
(* sources, and the application denies access to none of them.  The        *)
(* frames, and the codec that each connection remembers for them           *)
(* (codec_rx, codec_tx), are not modelled.                                 *)
(***************************************************************************)
EXTENDS Naturals, Sequences, FiniteSets, FiniteSetsExt, SequencesExt

CONSTANTS
    Client,
    MAX_MEDIA_CHANNELS,
    MAX_CHANNELS,       \* [rx, tx]: MAX_RX_CHANNELS and MAX_TX_CHANNELS
    Source,             \* routing quadruples: subsystem, direction, VFO, rig
    TxSource,           \* those in the direction of the rig
    Room,
    NoRoom,
    BaseRoom,           \* the room that the application gives to a channel of a source
    DefaultRoom,        \* ws_authoritative_room: what the empty name stands for
    RigRooms,           \* the rooms of the rig of a source
    Codec,
    NoCodec,
    Allowed,            \* codecs.allowed after the test mode's additions, in order
    TestCodec,          \* signals for radio RX audio
    Capabilities        \* the sets of codecs that clients advertise

Slot == 1 .. MAX_MEDIA_CHANNELS     \* chan_id

Dir(source) == IF source \in TxSource THEN "tx" ELSE "rx"

ASSUME MediaAssumption ==
    /\ MAX_MEDIA_CHANNELS \in Nat
    /\ MAX_CHANNELS \in [{"rx", "tx"} -> Nat]
    /\ TxSource \subseteq Source
    /\ "free" \notin Source
    /\ NoRoom \notin Room
    /\ BaseRoom \in [Source -> Room]
    /\ DefaultRoom \in Room
    /\ RigRooms \in [Source -> SUBSET Room]
    /\ \A source \in Source : BaseRoom[source] \in RigRooms[source]
    /\ NoCodec \notin Codec
    /\ Allowed \in Seq(Codec)
    /\ TestCodec \subseteq Codec
    /\ Capabilities \subseteq SUBSET Codec

Free == [source |-> "free", room |-> NoRoom, codec |-> NoCodec]     \* uuid[0] == 0

Channel == [source : Source, room : Room \cup {NoRoom}, codec : Codec \cup {NoCodec}]

VARIABLES
    media_channels,
    channels,       \* rx_channels and tx_channels of each connection
    media_codecs,   \* what each connection advertised, {} before it did
    rooms,
    agreed          \* history: the subscriptions each client made by itself, to
                    \* the present channel and with its present capabilities, and
                    \* did not end; not those an unnamed PART should have ended

vars == <<media_channels, channels, media_codecs, rooms, agreed>>

-----------------------------------------------------------------------------
(* Helpers *)

Live == {s \in Slot : media_channels[s] # Free}

\* media_chan_find
Find(source) == {s \in Live : media_channels[s].source = source}

DirOf(s) == Dir(media_channels[s].source)

Subscribed(c, s) == s \in channels[c][DirOf(s)]

\* media_client_in_channel_room: any room of the rig shows what it receives,
\* only the base room what is transmitted.
InChannelRoom(c, channel) ==
    \/ channel.room = NoRoom
    \/ IF channel.source \in TxSource
       THEN channel.room \in rooms[c]
       ELSE rooms[c] \cap RigRooms[channel.source] # {}

Attached(s) == {c \in Client : Subscribed(c, s) /\ InChannelRoom(c, media_channels[s])}

\* media_client_supports_codec: who advertised nothing takes everything.
Supports(c, codec) == media_codecs[c] = {} \/ codec \in media_codecs[c]

\* The codecs a channel may be given, as places in the list: the server's favourite
\* is first.
Common(c, source) ==
    {i \in DOMAIN Allowed :
        /\ Supports(c, Allowed[i])
        /\ source \in TxSource => Allowed[i] \notin TestCodec}

\* Bug: a test signal may become the codec of a transmission.
InitialCodecAny(c, source) ==
    LET common == {i \in DOMAIN Allowed : Supports(c, Allowed[i])}
    IN  IF common = {} THEN NoCodec ELSE Allowed[Min(common)]

\* media_init_channel_codec
InitialCodec(c, source) ==
    IF Common(c, source) = {} THEN NoCodec ELSE Allowed[Min(Common(c, source))]

\* chan_add_to_array
Full(c, dir, s) ==
    s \notin channels[c][dir] /\ Cardinality(channels[c][dir]) >= MAX_CHANNELS[dir]

-----------------------------------------------------------------------------
(* The application *)

NextFree == Min(Slot \ Live)

Made(source, codec) == [source |-> source, room |-> BaseRoom[source], codec |-> codec]

\* Bug: the table is not searched for a channel of the same source.
AddChannelAgain(source, codec) ==
    /\ Slot \ Live # {}
    /\ media_channels' = [media_channels EXCEPT ![NextFree] = Made(source, codec)]
    /\ UNCHANGED <<channels, media_codecs, rooms, agreed>>

\* media_chan_add; a source that has a channel keeps it as it is.
AddChannel(source, codec) ==
    /\ Find(source) = {}
    /\ Slot \ Live # {}
    /\ media_channels' = [media_channels EXCEPT ![NextFree] = Made(source, codec)]
    /\ UNCHANGED <<channels, media_codecs, rooms, agreed>>

\* media_chan_remove: the slot is cleared, and no subscription is.
RemoveChannel(s) ==
    /\ s \in Live
    /\ media_channels' = [media_channels EXCEPT ![s] = Free]
    /\ agreed' = [c \in Client |-> agreed[c] \ {s}]
    /\ UNCHANGED <<channels, media_codecs, rooms>>

-----------------------------------------------------------------------------
(* Connections and rooms *)

\* A connection closes, and its record serves the next one that logs in.
Reconnect(c) ==
    /\ channels' = [channels EXCEPT ![c] = [rx |-> {}, tx |-> {}]]
    /\ media_codecs' = [media_codecs EXCEPT ![c] = {}]
    /\ rooms' = [rooms EXCEPT ![c] = {}]
    /\ agreed' = [agreed EXCEPT ![c] = {}]
    /\ UNCHANGED media_channels

JoinRoom(c, r) ==
    /\ rooms' = [rooms EXCEPT ![c] = @ \cup {r}]
    /\ UNCHANGED <<media_channels, channels, media_codecs, agreed>>

\* Bug: only the channels of that very room are looked for.
RevokedBase(r) == {s \in Live : media_channels[s].room = r}

\* media_part_room: the subscriptions that end as a client parts r.
Revoked(r) ==
    {s \in Live :
        LET channel == media_channels[s]
        IN  /\ channel.room # NoRoom
            /\ \/ r = channel.room
               \/ channel.source \notin TxSource /\ r \in RigRooms[channel.source]}

\* ws_client_part_room; the client need not be in r.
PartRoom(c, r) ==
    /\ rooms' = [rooms EXCEPT ![c] = @ \ {r}]
    /\ channels' = [channels EXCEPT ![c] =
          [dir \in {"rx", "tx"} |-> @[dir] \ {s \in Revoked(r) : DirOf(s) = dir}]]
    /\ agreed' = [agreed EXCEPT ![c] = @ \ Revoked(r)]
    /\ UNCHANGED <<media_channels, media_codecs>>

\* A PART with the empty name leaves the default room, but media_part_room gets
\* the empty name, which no channel has.
PartUnnamed(c) ==
    /\ rooms' = [rooms EXCEPT ![c] = @ \ {DefaultRoom}]
    /\ agreed' = [agreed EXCEPT ![c] = @ \ Revoked(DefaultRoom)]
    /\ UNCHANGED <<media_channels, channels, media_codecs>>

-----------------------------------------------------------------------------
(* ws_handle_mediachan_msg *)

\* media.capab.  A list without a common codec is stored all the same.
Capab(c, codecs) ==
    /\ codecs # {}
    /\ media_codecs' = [media_codecs EXCEPT ![c] = codecs]
    /\ agreed' = [agreed EXCEPT ![c] = {}]
    /\ UNCHANGED <<media_channels, channels, rooms>>

\* The codec a channel has after c asks for it: the first one who does chooses
\* for a channel that has none, even if its own subscription then fails.
Chosen(c, channel) ==
    IF channel.codec = NoCodec THEN InitialCodec(c, channel.source) ELSE channel.codec

\* Bug: the codec of a channel is not compared with what the client takes.
AcceptsAny(c, s, channel) ==
    /\ Chosen(c, channel) # NoCodec
    /\ ~Full(c, Dir(channel.source), s)

\* What a subscription still needs once the client is in the room.
Accepts(c, s, channel) ==
    /\ Chosen(c, channel) # NoCodec
    /\ Supports(c, Chosen(c, channel))
    /\ ~Full(c, Dir(channel.source), s)

\* media.subscribe, from where it has found or made the channel in slot s.
SubscribeTo(c, s, channel) ==
    /\ InChannelRoom(c, channel)
    /\ media_channels' =
          [media_channels EXCEPT ![s] = [channel EXCEPT !.codec = Chosen(c, channel)]]
    /\ IF Accepts(c, s, channel)
       THEN /\ channels' = [channels EXCEPT ![c][Dir(channel.source)] = @ \cup {s}]
            /\ agreed' = [agreed EXCEPT ![c] = @ \cup {s}]
       ELSE UNCHANGED <<channels, agreed>>
    /\ UNCHANGED <<media_codecs, rooms>>

\* By the UUID of the channel, or by a source that has one.
Subscribe(c, s) ==
    /\ s \in Live
    /\ SubscribeTo(c, s, media_channels[s])

\* May a request choose the codec for a channel of the source?
Selectable(c, source, codec) ==
    /\ codec \in Range(Allowed)
    /\ Supports(c, codec)
    /\ source \in TxSource => codec \notin TestCodec

\* By a source that has no channel, from an account that may create channels.
\* Nobody gives the new one a room.
CreateAndSubscribe(c, source, codec) ==
    /\ Find(source) = {}
    /\ Slot \ Live # {}
    /\ codec = NoCodec \/ Selectable(c, source, codec)
    /\ SubscribeTo(c, NextFree, [source |-> source, room |-> NoRoom, codec |-> codec])

\* media.unsubscribe
Unsubscribe(c, s) ==
    /\ s \in Live
    /\ channels' = [channels EXCEPT ![c][DirOf(s)] = @ \ {s}]
    /\ agreed' = [agreed EXCEPT ![c] = @ \ {s}]
    /\ UNCHANGED <<media_channels, media_codecs, rooms>>

\* media.source: a feed needs neither the room nor the codec of its channel.
RegisterSource(c, s) ==
    /\ s \in Live
    /\ ~Full(c, DirOf(s), s)
    /\ channels' = [channels EXCEPT ![c][DirOf(s)] = @ \cup {s}]
    /\ UNCHANGED <<media_channels, media_codecs, rooms, agreed>>

\* Bug: that every listener understands the new codec is taken to be enough.
SelectCodecShared(c, s, codec) ==
    /\ s \in Live
    /\ InChannelRoom(c, media_channels[s])
    /\ Selectable(c, media_channels[s].source, codec)
    /\ \A d \in Attached(s) : Supports(d, codec)
    /\ media_channels' = [media_channels EXCEPT ![s].codec = codec]
    /\ UNCHANGED <<channels, media_codecs, rooms, agreed>>

\* media.codec: a shared channel keeps the codec it has.
SelectCodec(c, s, codec) ==
    /\ s \in Live
    /\ InChannelRoom(c, media_channels[s])
    /\ Selectable(c, media_channels[s].source, codec)
    /\ \A d \in Attached(s) : Supports(d, codec)
    /\ \/ media_channels[s].codec \in {NoCodec, codec}
       \/ Attached(s) \subseteq {c}
    /\ media_channels' = [media_channels EXCEPT ![s].codec = codec]
    /\ UNCHANGED <<channels, media_codecs, rooms, agreed>>

-----------------------------------------------------------------------------
Init ==
    /\ media_channels = [s \in Slot |-> Free]
    /\ channels = [c \in Client |-> [rx |-> {}, tx |-> {}]]
    /\ media_codecs = [c \in Client |-> {}]
    /\ rooms = [c \in Client |-> {}]
    /\ agreed = [c \in Client |-> {}]

Application ==
    \/ \E source \in Source, codec \in (Codec \ TestCodec) \cup {NoCodec} :
          AddChannel(source, codec)
    \/ \E s \in Slot : RemoveChannel(s)

Membership(c) ==
    \/ Reconnect(c)
    \/ \E r \in Room : JoinRoom(c, r) \/ PartRoom(c, r)
    \/ PartUnnamed(c)

Request(c) ==
    \/ \E codecs \in Capabilities : Capab(c, codecs)
    \/ \E source \in Source, codec \in Codec \cup {NoCodec} :
          CreateAndSubscribe(c, source, codec)
    \/ \E s \in Slot :
          \/ Subscribe(c, s)
          \/ Unsubscribe(c, s)
          \/ RegisterSource(c, s)
          \/ \E codec \in Codec : SelectCodec(c, s, codec)

Next == Application \/ \E c \in Client : Membership(c) \/ Request(c)

Spec == Init /\ [][Next]_vars

-----------------------------------------------------------------------------
(* Properties *)

\* Every variable has its type, and no connection has more subscriptions than
\* its arrays hold.
TypeOK ==
    /\ media_channels \in [Slot -> Channel \cup {Free}]
    /\ channels \in [Client -> [rx : SUBSET Slot, tx : SUBSET Slot]]
    /\ \A c \in Client, dir \in {"rx", "tx"} :
         Cardinality(channels[c][dir]) <= MAX_CHANNELS[dir]
    /\ media_codecs \in [Client -> SUBSET Codec]
    /\ rooms \in [Client -> SUBSET Room]
    /\ agreed \in [Client -> SUBSET Slot]

\* However channels come, go and are created by clients, a source never has two.
OneChannelPerSource == \A source \in Source : Cardinality(Find(source)) <= 1

\* Who subscribed to a channel, and did not change its capabilities since,
\* understands what the channel carries, whoever selects its codec.
SubscribersUnderstand ==
    \A c \in Client : \A s \in agreed[c] :
        media_channels[s].codec # NoCodec /\ Supports(c, media_channels[s].codec)

\* ws.mediachan.c:543 "PART revokes every subscription in that room, including
\* manual selections": who leaves the rooms of a channel by name keeps no
\* subscription it made to it, by whichever room of the rig it saw the channel.
PartRevokes ==
    \A c \in Client, s \in Live :
        Subscribed(c, s) /\ s \in agreed[c] => InChannelRoom(c, media_channels[s])

\* Radio transmissions never carry a test signal, whether the application, a
\* creation, the first subscription or a selection gave the channel its codec.
TxNeverTest ==
    \A s \in Live : DirOf(s) = "tx" => media_channels[s].codec \notin TestCodec

\* ws.mediachan.c:1077 "Never change its wire format while another listener is
\* attached": the codec of a channel does not change under two listeners.
FormatHeld ==
    [][\A s \in Live :
          /\ media_channels[s].codec # NoCodec
          /\ media_channels'[s] # Free
          /\ media_channels'[s].codec # media_channels[s].codec
          => Cardinality(Attached(s)) <= 1]_vars
=============================================================================
