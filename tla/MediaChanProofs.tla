---------------------------- MODULE MediaChanProofs ----------------------------
(***************************************************************************)
(* What module MediaChan keeps for any clients, slots, rooms and codecs:   *)
(* types, one channel per source, subscriptions that end with the rooms,   *)
(* listeners that understand their channels, and no test signal on the air. *)
(***************************************************************************)
EXTENDS MediaChan, FiniteSetTheorems, WellFoundedInduction, TLAPS

\* No two channels are of one source.
Distinct ==
    \A s, t \in Live : media_channels[s].source = media_channels[t].source => s = t

\* The subscriptions a client made are there, by a room that shows the channel,
\* in a codec that it takes.
Understood(c, s) ==
    /\ s \in Live
    /\ Subscribed(c, s)
    /\ InChannelRoom(c, media_channels[s])
    /\ media_channels[s].codec # NoCodec
    /\ Supports(c, media_channels[s].codec)

Kept == \A c \in Client : \A s \in agreed[c] : Understood(c, s)

IInv == TypeOK /\ Distinct /\ Kept /\ TxNeverTest

-----------------------------------------------------------------------------
(* Lemmas about operators *)

\* A set of numbers that is not empty has a least one.
LEMMA LeastNumber ==
  ASSUME NEW S \in SUBSET Nat, S # {}
  PROVE  Min(S) \in S
<1> DEFINE Less == {p \in Nat \X Nat : p[1] < p[2]}
<1>1. IsWellFoundedOn(Less, Nat)
  <2>1. Less = OpToRel(<, Nat)
    BY DEF OpToRel
  <2> QED
    BY <2>1, NatLessThanWellFounded
<1>2. \E x \in S : \A y \in S : ~(<<y, x>> \in Less)
  <2> HIDE DEF Less
  <2> QED
    BY <1>1, WFMin
<1>3. PICK x \in S : \A y \in S : ~(<<y, x>> \in Less)
  BY <1>2
<1>4. ASSUME NEW y \in S PROVE x =< y
  <2>1. ~(<<y, x>> \in Less)
    BY <1>3
  <2>2. x \in Nat /\ y \in Nat
    OBVIOUS
  <2>3. ~(y < x)
    BY <2>1, <2>2
  <2> QED
    BY <2>2, <2>3
<1> QED
  BY <1>4 DEF Min

\* A free slot is found if there is one.
LEMMA FreeSlot ==
  ASSUME Slot \ Live # {}
  PROVE  NextFree \in Slot \ Live
<1>1. Slot \ Live \in SUBSET Nat
  BY MediaAssumption DEF Slot
<1> QED
  BY <1>1, LeastNumber DEF NextFree

\* The codec a channel is given is one of the server's that the client takes, and
\* for a transmission no test signal.
LEMMA InitialCodecFits ==
  ASSUME NEW c \in Client, NEW source \in Source, InitialCodec(c, source) # NoCodec
  PROVE  /\ InitialCodec(c, source) \in Codec
         /\ Supports(c, InitialCodec(c, source))
         /\ source \in TxSource => InitialCodec(c, source) \notin TestCodec
<1>1. DOMAIN Allowed \in SUBSET Nat
  BY MediaAssumption
<1>2. Common(c, source) # {} /\ InitialCodec(c, source) = Allowed[Min(Common(c, source))]
  BY DEF InitialCodec
<1>3. Min(Common(c, source)) \in Common(c, source)
  BY <1>1, <1>2, LeastNumber DEF Common
<1>4. Min(Common(c, source)) \in DOMAIN Allowed
  BY <1>3 DEF Common
<1>5. Allowed[Min(Common(c, source))] \in Codec
  BY <1>4, MediaAssumption
<1> QED
  BY <1>2, <1>3, <1>5 DEF Common

\* The direction of a channel is one of the two.
LEMMA DirTyped == \A source : Dir(source) \in {"rx", "tx"}
  BY DEF Dir

\* Slots are never two for one, and sets of them are finite.
LEMMA SlotsFinite ==
  ASSUME NEW S \in SUBSET Slot
  PROVE  IsFiniteSet(S)
<1>1. IsFiniteSet(Slot)
  BY MediaAssumption, FS_Interval DEF Slot
<1> QED
  BY <1>1, FS_Subset

\* An array that has room takes one more.
LEMMA ArrayTakes ==
  ASSUME TypeOK, NEW c \in Client, NEW dir \in {"rx", "tx"}, NEW s \in Slot,
         ~Full(c, dir, s)
  PROVE  Cardinality(channels[c][dir] \cup {s}) <= MAX_CHANNELS[dir]
<1>1. channels[c][dir] \in SUBSET Slot
  BY DEF TypeOK
<1>2. IsFiniteSet(channels[c][dir])
  BY <1>1, SlotsFinite
<1>3. Cardinality(channels[c][dir]) \in Nat /\ MAX_CHANNELS[dir] \in Nat
  BY <1>2, FS_CardinalityType, MediaAssumption
<1>4. Cardinality(channels[c][dir]) <= MAX_CHANNELS[dir]
  BY DEF TypeOK
<1>5. s \notin channels[c][dir] =>
        Cardinality(channels[c][dir] \cup {s}) = Cardinality(channels[c][dir]) + 1
  BY <1>2, FS_AddElement
<1>6. CASE s \in channels[c][dir]
  <2>1. channels[c][dir] \cup {s} = channels[c][dir]
    BY <1>6
  <2> QED
    BY <1>4, <2>1
<1>7. CASE s \notin channels[c][dir]
  <2>1. ~(Cardinality(channels[c][dir]) >= MAX_CHANNELS[dir])
    BY <1>7 DEF Full
  <2>2. Cardinality(channels[c][dir]) + 1 <= MAX_CHANNELS[dir]
    BY <1>3, <2>1
  <2> QED
    BY <1>5, <1>7, <2>2
<1> QED
  BY <1>6, <1>7

\* ... and one that loses some has room.
LEMMA ArrayShrinks ==
  ASSUME TypeOK, NEW c \in Client, NEW dir \in {"rx", "tx"},
         NEW S \in SUBSET channels[c][dir]
  PROVE  Cardinality(S) <= MAX_CHANNELS[dir]
<1>1. IsFiniteSet(channels[c][dir])
  BY SlotsFinite DEF TypeOK
<1>2. Cardinality(S) <= Cardinality(channels[c][dir])
  BY <1>1, FS_Subset
<1>3. /\ Cardinality(S) \in Nat
      /\ Cardinality(channels[c][dir]) \in Nat
      /\ MAX_CHANNELS[dir] \in Nat
  BY <1>1, FS_Subset, FS_CardinalityType, MediaAssumption
<1> QED
  BY <1>2, <1>3 DEF TypeOK

\* A subscription stays understood while its channel stays as it is, its client's
\* arrays and rooms only grow, and the client takes the same codecs.
LEMMA StaysUnderstood ==
  ASSUME NEW c \in Client, NEW s \in Slot, Understood(c, s),
         media_channels'[s] = media_channels[s],
         \A dir \in {"rx", "tx"} : channels[c][dir] \subseteq channels'[c][dir],
         rooms[c] \subseteq rooms'[c],
         media_codecs'[c] = media_codecs[c]
  PROVE  Understood(c, s)'
<1>1. s \in Live'
  BY DEF Understood, Live
<1>2. Subscribed(c, s)'
  BY DirTyped DEF Understood, Subscribed, DirOf
<1>3. InChannelRoom(c, media_channels[s])'
  BY DEF Understood, InChannelRoom
<1> QED
  BY <1>1, <1>2, <1>3 DEF Understood, Supports

\* Steps that leave the table of channels alone keep what is about it only.
LEMMA SameChannels ==
  ASSUME IInv, UNCHANGED media_channels
  PROVE  Distinct' /\ TxNeverTest'
<1>1. Live' = Live
  BY DEF Live
<1> QED
  BY <1>1 DEF IInv, Distinct, TxNeverTest, DirOf

-----------------------------------------------------------------------------
(* The application *)

\* media_chan_add: a new channel takes a slot that nobody counts on.
LEMMA AddKeeps ==
  ASSUME IInv, NEW source \in Source, NEW codec \in (Codec \ TestCodec) \cup {NoCodec},
         AddChannel(source, codec)
  PROVE  IInv'
<1> DEFINE new == NextFree
<1>1. new \in Slot \ Live
  BY FreeSlot DEF AddChannel
<1>2. media_channels' = [media_channels EXCEPT ![new] = Made(source, codec)]
  BY DEF AddChannel
<1> HIDE DEF new
<1>3. Made(source, codec) \in Channel /\ Made(source, codec) # Free
  BY MediaAssumption DEF Made, Channel, Free
<1>4. TypeOK'
  BY <1>1, <1>2, <1>3 DEF IInv, TypeOK, AddChannel
<1>5. Live' = Live \cup {new}
  BY <1>1, <1>2, <1>3 DEF IInv, TypeOK, Live
<1>6. Distinct'
  <2>1. \A t \in Live : media_channels[t].source # source
    BY DEF AddChannel, Find
  <2>2. \A t \in Live : media_channels'[t] = media_channels[t]
    BY <1>1, <1>2 DEF IInv, TypeOK, Live
  <2>3. media_channels'[new].source = source
    BY <1>1, <1>2 DEF Made, IInv, TypeOK
  <2> QED
    BY <1>5, <2>1, <2>2, <2>3 DEF IInv, Distinct
<1>7. Kept'
  <2>1. ASSUME NEW c \in Client, NEW s \in agreed[c] PROVE Understood(c, s)'
    <3>1. Understood(c, s) /\ s \in Slot /\ s # new
      BY <1>1 DEF IInv, Kept, Understood, Live
    <3>2. media_channels'[s] = media_channels[s]
      BY <1>2, <3>1 DEF IInv, TypeOK
    <3> QED
      BY <3>1, <3>2, StaysUnderstood DEF AddChannel
  <2> QED
    BY <2>1 DEF Kept, AddChannel
<1>8. TxNeverTest'
  <2>1. codec \notin TestCodec
    BY MediaAssumption
  <2>2. media_channels'[new].codec = codec
    BY <1>1, <1>2 DEF Made, IInv, TypeOK
  <2>3. \A t \in Live : media_channels'[t] = media_channels[t]
    BY <1>1, <1>2 DEF IInv, TypeOK, Live
  <2> QED
    BY <1>5, <2>1, <2>2, <2>3 DEF IInv, TxNeverTest, DirOf
<1> QED
  BY <1>4, <1>6, <1>7, <1>8 DEF IInv

\* media_chan_remove: the subscriptions left behind agreed on nothing any more.
LEMMA RemoveKeeps ==
  ASSUME IInv, NEW s \in Slot, RemoveChannel(s)
  PROVE  IInv'
<1>1. media_channels' = [media_channels EXCEPT ![s] = Free]
  BY DEF RemoveChannel
<1>2. \A t \in Live' : t \in Live /\ t # s /\ media_channels'[t] = media_channels[t]
  BY <1>1 DEF Live, IInv, TypeOK
<1>3. TypeOK'
  BY <1>1 DEF IInv, TypeOK, RemoveChannel
<1>4. Distinct' /\ TxNeverTest'
  BY <1>2 DEF IInv, Distinct, TxNeverTest, DirOf
<1>5. ASSUME NEW c \in Client, NEW t \in agreed'[c] PROVE Understood(c, t)'
  <2>1. t \in agreed[c] /\ t # s
    BY <1>5 DEF RemoveChannel
  <2>2. Understood(c, t) /\ t \in Slot
    BY <2>1 DEF IInv, Kept, Understood, Live
  <2>3. media_channels'[t] = media_channels[t]
    BY <1>1, <2>1, <2>2 DEF IInv, TypeOK
  <2> QED
    BY <2>2, <2>3, StaysUnderstood DEF RemoveChannel
<1> QED
  BY <1>3, <1>4, <1>5 DEF IInv, Kept

-----------------------------------------------------------------------------
(* Connections and rooms *)

\* A new connection starts with nothing.
LEMMA ReconnectKeeps ==
  ASSUME IInv, NEW c \in Client, Reconnect(c)
  PROVE  IInv'
<1>1. TypeOK'
  <2>1. Cardinality({}) = 0
    BY FS_EmptySet
  <2>2. \A dir \in {"rx", "tx"} : 0 <= MAX_CHANNELS[dir]
    BY MediaAssumption
  <2>3. channels' \in [Client -> [rx : SUBSET Slot, tx : SUBSET Slot]]
    BY DEF IInv, TypeOK, Reconnect
  <2>4. \A d \in Client, dir \in {"rx", "tx"} :
           channels'[d][dir] = IF d = c THEN {} ELSE channels[d][dir]
    <3>1. \A d \in Client : channels'[d] = IF d = c THEN [rx |-> {}, tx |-> {}] ELSE channels[d]
      BY DEF IInv, TypeOK, Reconnect
    <3>2. \A dir \in {"rx", "tx"} : [rx |-> {}, tx |-> {}][dir] = {}
      OBVIOUS
    <3> QED
      BY <3>1, <3>2
  <2>5. \A d \in Client, dir \in {"rx", "tx"} :
           Cardinality(channels'[d][dir]) <= MAX_CHANNELS[dir]
    BY <2>1, <2>2, <2>4 DEF IInv, TypeOK
  <2> QED
    BY <2>3, <2>5 DEF IInv, TypeOK, Reconnect
<1>2. Distinct' /\ TxNeverTest'
  BY SameChannels DEF Reconnect
<1>3. ASSUME NEW d \in Client, NEW s \in agreed'[d] PROVE Understood(d, s)'
  <2>1. d # c /\ s \in agreed[d]
    BY <1>3 DEF IInv, TypeOK, Reconnect
  <2>2. Understood(d, s) /\ s \in Slot
    BY <2>1 DEF IInv, Kept, Understood, Live
  <2>3. channels'[d] = channels[d] /\ rooms'[d] = rooms[d]
        /\ media_codecs'[d] = media_codecs[d]
    BY <2>1 DEF IInv, TypeOK, Reconnect
  <2> QED
    BY <2>2, <2>3, StaysUnderstood DEF Reconnect
<1> QED
  BY <1>1, <1>2, <1>3 DEF IInv, Kept

\* Who joins a room sees more channels.
LEMMA JoinKeeps ==
  ASSUME IInv, NEW c \in Client, NEW r \in Room, JoinRoom(c, r)
  PROVE  IInv'
<1>1. TypeOK'
  BY DEF IInv, TypeOK, JoinRoom
<1>2. Distinct' /\ TxNeverTest'
  BY SameChannels DEF JoinRoom
<1>3. ASSUME NEW d \in Client, NEW s \in agreed'[d] PROVE Understood(d, s)'
  <2>1. Understood(d, s) /\ s \in Slot
    BY <1>3 DEF JoinRoom, IInv, Kept, Understood, Live
  <2>2. rooms[d] \subseteq rooms'[d]
    BY DEF JoinRoom, IInv, TypeOK
  <2> QED
    BY <2>1, <2>2, StaysUnderstood DEF JoinRoom
<1> QED
  BY <1>1, <1>2, <1>3 DEF IInv, Kept

\* Who parts a room still sees, by another, each channel that the part does not
\* revoke.
LEMMA SeenElsewhere ==
  ASSUME IInv, NEW c \in Client, NEW r \in Room, NEW s \in Live \ Revoked(r),
         InChannelRoom(c, media_channels[s]),
         rooms' = [rooms EXCEPT ![c] = @ \ {r}], UNCHANGED media_channels
  PROVE  InChannelRoom(c, media_channels[s])'
<1>1. rooms'[c] = rooms[c] \ {r}
  BY DEF IInv, TypeOK
<1>2. CASE media_channels[s].room = NoRoom
  BY <1>2 DEF InChannelRoom
<1>3. CASE media_channels[s].room # NoRoom /\ media_channels[s].source \in TxSource
  <2>1. media_channels[s].room # r
    BY <1>3 DEF Revoked
  <2> QED
    BY <1>1, <1>3, <2>1 DEF InChannelRoom
<1>4. CASE media_channels[s].room # NoRoom /\ media_channels[s].source \notin TxSource
  <2>1. r \notin RigRooms[media_channels[s].source]
    BY <1>4 DEF Revoked
  <2> QED
    BY <1>1, <1>4, <2>1 DEF InChannelRoom
<1> QED
  BY <1>2, <1>3, <1>4

\* Either part: the arrays lose at most what is revoked.
LEMMA PartKeeps ==
  ASSUME IInv, NEW c \in Client, NEW r \in Room,
         rooms' = [rooms EXCEPT ![c] = @ \ {r}],
         agreed' = [agreed EXCEPT ![c] = @ \ Revoked(r)],
         UNCHANGED <<media_channels, media_codecs>>,
         channels' \in [Client -> [rx : SUBSET Slot, tx : SUBSET Slot]],
         \A d \in Client, dir \in {"rx", "tx"} :
             /\ channels'[d][dir] \subseteq channels[d][dir]
             /\ d # c => channels'[d][dir] = channels[d][dir]
             /\ channels[d][dir] \ Revoked(r) \subseteq channels'[d][dir]
  PROVE  IInv'
<1>1. TypeOK'
  BY ArrayShrinks DEF IInv, TypeOK
<1>2. Distinct' /\ TxNeverTest'
  BY SameChannels
<1>3. ASSUME NEW d \in Client, NEW s \in agreed'[d] PROVE Understood(d, s)'
  <2>1. s \in agreed[d] /\ (d = c => s \notin Revoked(r))
    BY <1>3 DEF IInv, TypeOK
  <2>2. Understood(d, s) /\ s \in Slot
    BY <2>1 DEF IInv, Kept, Understood, Live
  <2>3. CASE d # c
    <3>1. rooms'[d] = rooms[d]
      BY <2>3 DEF IInv, TypeOK
    <3> QED
      BY <2>2, <2>3, <3>1, StaysUnderstood
  <2>4. CASE d = c
    <3>1. InChannelRoom(c, media_channels[s])'
      BY <2>1, <2>2, <2>4, SeenElsewhere DEF Understood
    <3>2. Subscribed(c, s)'
      BY <2>1, <2>2, <2>4, DirTyped DEF Understood, Subscribed, DirOf
    <3> QED
      BY <2>2, <2>4, <3>1, <3>2 DEF Understood, Supports, Live
  <2> QED
    BY <2>3, <2>4
<1> QED
  BY <1>1, <1>2, <1>3 DEF IInv, Kept

\* A PART by name.
LEMMA PartRoomKeeps ==
  ASSUME IInv, NEW c \in Client, NEW r \in Room, PartRoom(c, r)
  PROVE  IInv'
<1>1. channels' = [channels EXCEPT ![c] =
          [dir \in {"rx", "tx"} |-> @[dir] \ {s \in Revoked(r) : DirOf(s) = dir}]]
  BY DEF PartRoom
<1>2. channels' \in [Client -> [rx : SUBSET Slot, tx : SUBSET Slot]]
  BY <1>1 DEF IInv, TypeOK
<1>3. ASSUME NEW d \in Client, NEW dir \in {"rx", "tx"}
      PROVE  /\ channels'[d][dir] \subseteq channels[d][dir]
             /\ d # c => channels'[d][dir] = channels[d][dir]
             /\ channels[d][dir] \ Revoked(r) \subseteq channels'[d][dir]
  BY <1>1 DEF IInv, TypeOK
<1>4. /\ rooms' = [rooms EXCEPT ![c] = @ \ {r}]
      /\ agreed' = [agreed EXCEPT ![c] = @ \ Revoked(r)]
      /\ UNCHANGED <<media_channels, media_codecs>>
  BY DEF PartRoom
<1> QED
  BY <1>2, <1>3, <1>4, PartKeeps

\* A PART with the empty name: its subscriptions stay, but agreed to nothing.
LEMMA PartUnnamedKeeps ==
  ASSUME IInv, NEW c \in Client, PartUnnamed(c)
  PROVE  IInv'
BY PartKeeps, MediaAssumption DEF PartUnnamed, IInv, TypeOK

-----------------------------------------------------------------------------
(* Requests *)

\* media.capab: what the client agreed to before, it agreed to with other codecs.
LEMMA CapabKeeps ==
  ASSUME IInv, NEW c \in Client, NEW codecs \in Capabilities, Capab(c, codecs)
  PROVE  IInv'
<1>1. TypeOK'
  BY MediaAssumption DEF IInv, TypeOK, Capab
<1>2. Distinct' /\ TxNeverTest'
  BY SameChannels DEF Capab
<1>3. ASSUME NEW d \in Client, NEW s \in agreed'[d] PROVE Understood(d, s)'
  <2>1. d # c /\ s \in agreed[d]
    BY <1>3 DEF IInv, TypeOK, Capab
  <2>2. Understood(d, s) /\ s \in Slot
    BY <2>1 DEF IInv, Kept, Understood, Live
  <2>3. media_codecs'[d] = media_codecs[d]
    BY <2>1 DEF IInv, TypeOK, Capab
  <2> QED
    BY <2>2, <2>3, StaysUnderstood DEF Capab
<1> QED
  BY <1>1, <1>2, <1>3 DEF IInv, Kept

\* media.unsubscribe: one subscription less.
LEMMA UnsubscribeKeeps ==
  ASSUME IInv, NEW c \in Client, NEW s \in Slot, Unsubscribe(c, s)
  PROVE  IInv'
<1> DEFINE dir == DirOf(s)
<1>1. dir \in {"rx", "tx"}
  BY DirTyped DEF DirOf
<1>2. channels' = [channels EXCEPT ![c][dir] = @ \ {s}]
  BY DEF Unsubscribe
<1> HIDE DEF dir
<1>3. channels' \in [Client -> [rx : SUBSET Slot, tx : SUBSET Slot]]
  BY <1>1, <1>2 DEF IInv, TypeOK
<1>4. \A d \in Client, way \in {"rx", "tx"} :
        /\ channels'[d][way] \subseteq channels[d][way]
        /\ d # c => channels'[d][way] = channels[d][way]
        /\ channels[d][way] \ {s} \subseteq channels'[d][way]
  BY <1>1, <1>2 DEF IInv, TypeOK
<1>5. TypeOK'
  BY <1>3, <1>4, ArrayShrinks DEF IInv, TypeOK, Unsubscribe
<1>6. Distinct' /\ TxNeverTest'
  BY SameChannels DEF Unsubscribe
<1>7. ASSUME NEW d \in Client, NEW t \in agreed'[d] PROVE Understood(d, t)'
  <2>1. t \in agreed[d] /\ (d = c => t # s)
    BY <1>7 DEF Unsubscribe, IInv, TypeOK
  <2>2. Understood(d, t)
    BY <2>1 DEF IInv, Kept
  <2>3. Subscribed(d, t)'
    <3>1. t \in channels[d][DirOf(t)] /\ DirOf(t) \in {"rx", "tx"}
      BY <2>2, DirTyped DEF Understood, Subscribed, DirOf
    <3>2. t \in channels'[d][DirOf(t)]
      BY <1>4, <2>1, <3>1
    <3> QED
      BY <3>2 DEF Subscribed, DirOf, Unsubscribe
  <2> QED
    BY <2>2, <2>3 DEF Understood, Supports, InChannelRoom, Live, Unsubscribe
<1> QED
  BY <1>5, <1>6, <1>7 DEF IInv, Kept

\* A slot that is added where there is room leaves the arrays within their limits.
LEMMA AddedTyped ==
  ASSUME TypeOK, NEW c \in Client, NEW s \in Slot, NEW dir \in {"rx", "tx"},
         ~Full(c, dir, s), channels' = [channels EXCEPT ![c][dir] = @ \cup {s}]
  PROVE  /\ channels' \in [Client -> [rx : SUBSET Slot, tx : SUBSET Slot]]
         /\ \A d \in Client, way \in {"rx", "tx"} :
              /\ channels[d][way] \subseteq channels'[d][way]
              /\ Cardinality(channels'[d][way]) <= MAX_CHANNELS[way]
         /\ s \in channels'[c][dir]
<1>1. channels' \in [Client -> [rx : SUBSET Slot, tx : SUBSET Slot]]
  BY DEF TypeOK
<1>2. \A d \in Client, way \in {"rx", "tx"} :
        channels'[d][way] = IF d = c /\ way = dir THEN channels[d][way] \cup {s}
                            ELSE channels[d][way]
  BY DEF TypeOK
<1>3. Cardinality(channels[c][dir] \cup {s}) <= MAX_CHANNELS[dir]
  BY ArrayTakes
<1>4. \A d \in Client, way \in {"rx", "tx"} :
        Cardinality(channels[d][way]) <= MAX_CHANNELS[way]
  BY DEF TypeOK
<1>5. ASSUME NEW d \in Client, NEW way \in {"rx", "tx"}
      PROVE  /\ channels[d][way] \subseteq channels'[d][way]
             /\ Cardinality(channels'[d][way]) <= MAX_CHANNELS[way]
  <2>1. CASE d = c /\ way = dir
    <3>1. channels'[d][way] = channels[c][dir] \cup {s}
      BY <1>2, <2>1
    <3> QED
      BY <1>3, <2>1, <3>1
  <2>2. CASE ~(d = c /\ way = dir)
    <3>1. channels'[d][way] = channels[d][way]
      BY <1>2, <2>2
    <3> QED
      BY <1>4, <3>1
  <2> QED
    BY <2>1, <2>2
<1>6. s \in channels'[c][dir]
  <2>1. channels'[c][dir] = channels[c][dir] \cup {s}
    BY <1>2
  <2> QED
    BY <2>1
<1> QED
  BY <1>1, <1>5, <1>6

\* media.source: a feed joins where its array has room.
LEMMA RegisterKeeps ==
  ASSUME IInv, NEW c \in Client, NEW s \in Slot, RegisterSource(c, s)
  PROVE  IInv'
<1>1. DirOf(s) \in {"rx", "tx"}
  BY DirTyped DEF DirOf
<1>2. /\ channels' \in [Client -> [rx : SUBSET Slot, tx : SUBSET Slot]]
      /\ \A d \in Client, way \in {"rx", "tx"} :
            /\ channels[d][way] \subseteq channels'[d][way]
            /\ Cardinality(channels'[d][way]) <= MAX_CHANNELS[way]
  BY <1>1, AddedTyped DEF RegisterSource, IInv
<1>3. TypeOK'
  BY <1>2 DEF IInv, TypeOK, RegisterSource
<1>4. Distinct' /\ TxNeverTest'
  BY SameChannels DEF RegisterSource
<1>5. ASSUME NEW d \in Client, NEW t \in agreed'[d] PROVE Understood(d, t)'
  <2>1. Understood(d, t) /\ t \in Slot
    BY <1>5 DEF RegisterSource, IInv, Kept, Understood, Live
  <2> QED
    BY <1>2, <2>1, StaysUnderstood DEF RegisterSource
<1> QED
  BY <1>3, <1>4, <1>5 DEF IInv, Kept

\* What is chosen for a channel is a codec or none, and on the air no test signal.
LEMMA ChosenFits ==
  ASSUME NEW c \in Client, NEW channel \in Channel,
         channel.source \in TxSource => channel.codec \notin TestCodec
  PROVE  /\ Chosen(c, channel) \in Codec \cup {NoCodec}
         /\ channel.source \in TxSource => Chosen(c, channel) \notin TestCodec
<1>1. channel.source \in Source /\ channel.codec \in Codec \cup {NoCodec}
  BY DEF Channel
<1>2. CASE channel.codec = NoCodec
  <2>1. Chosen(c, channel) = InitialCodec(c, channel.source)
    BY <1>2 DEF Chosen
  <2>2. CASE InitialCodec(c, channel.source) = NoCodec
    BY <2>1, <2>2, MediaAssumption
  <2>3. CASE InitialCodec(c, channel.source) # NoCodec
    BY <1>1, <2>1, <2>3, InitialCodecFits
  <2> QED
    BY <2>2, <2>3
<1>3. CASE channel.codec # NoCodec
  BY <1>1, <1>3 DEF Chosen
<1> QED
  BY <1>2, <1>3

\* A subscription, to a channel that is there or to a new one of a source that
\* has none.
LEMMA SubscribeToKeeps ==
  ASSUME IInv, NEW c \in Client, NEW s \in Slot, NEW channel \in Channel,
         \/ s \in Live /\ channel = media_channels[s]
         \/ s \notin Live /\ Find(channel.source) = {},
         channel.source \in TxSource => channel.codec \notin TestCodec,
         SubscribeTo(c, s, channel)
  PROVE  IInv'
<1> DEFINE new == [channel EXCEPT !.codec = Chosen(c, channel)]
<1>1. /\ new \in Channel
      /\ new.source = channel.source
      /\ new.room = channel.room
      /\ new.codec = Chosen(c, channel)
  BY ChosenFits DEF Channel
<1>2. new # Free
  BY <1>1, MediaAssumption DEF Channel, Free
<1>3. media_channels' = [media_channels EXCEPT ![s] = new]
  BY DEF SubscribeTo
<1>4. channel.codec # NoCodec => new = channel
  BY DEF Chosen, Channel
<1>5. new.source \in TxSource => new.codec \notin TestCodec
  BY <1>1, ChosenFits
<1> HIDE DEF new
<1>6. /\ media_channels'[s] = new
      /\ \A t \in Slot : t # s => media_channels'[t] = media_channels[t]
  BY <1>3 DEF IInv, TypeOK
<1>7. Live' = Live \cup {s}
  BY <1>2, <1>6 DEF Live
<1> DEFINE dir == Dir(channel.source)
<1>8. dir \in {"rx", "tx"}
  BY DirTyped
<1> HIDE DEF dir
<1> DEFINE Arrays ==
             /\ channels' \in [Client -> [rx : SUBSET Slot, tx : SUBSET Slot]]
             /\ \A d \in Client, way \in {"rx", "tx"} :
                   /\ channels[d][way] \subseteq channels'[d][way]
                   /\ Cardinality(channels'[d][way]) <= MAX_CHANNELS[way]
           Agreement ==
             /\ agreed' \in [Client -> SUBSET Slot]
             /\ \A d \in Client : \A t \in agreed'[d] :
                   t \in agreed[d] \/ (d = c /\ t = s /\ Understood(c, s)')
<1>9. Arrays /\ Agreement
  <2>1. CASE Accepts(c, s, channel)
    <3>1. /\ ~Full(c, dir, s)
          /\ channels' = [channels EXCEPT ![c][dir] = @ \cup {s}]
          /\ agreed' = [agreed EXCEPT ![c] = @ \cup {s}]
      BY <2>1 DEF SubscribeTo, Accepts, dir
    <3>2. /\ channels' \in [Client -> [rx : SUBSET Slot, tx : SUBSET Slot]]
          /\ \A d \in Client, way \in {"rx", "tx"} :
                /\ channels[d][way] \subseteq channels'[d][way]
                /\ Cardinality(channels'[d][way]) <= MAX_CHANNELS[way]
          /\ s \in channels'[c][dir]
      BY <1>8, <3>1, AddedTyped DEF IInv
    <3>3. agreed' \in [Client -> SUBSET Slot]
          /\ \A d \in Client : agreed'[d] \subseteq agreed[d] \cup (IF d = c THEN {s} ELSE {})
      BY <3>1 DEF IInv, TypeOK
    <3>4. Understood(c, s)'
      <4>1. InChannelRoom(c, media_channels[s])'
        BY <1>1, <1>6 DEF SubscribeTo, InChannelRoom
      <4>2. Subscribed(c, s)'
        BY <1>1, <1>6, <3>2 DEF Subscribed, DirOf, dir
      <4>3. media_channels'[s].codec # NoCodec /\ Supports(c, media_channels[s].codec)'
        BY <1>1, <1>6, <2>1 DEF Accepts, Supports, SubscribeTo
      <4> QED
        BY <1>7, <4>1, <4>2, <4>3 DEF Understood
    <3>5. Arrays
      BY <3>2
    <3>6. Agreement
      BY <3>3, <3>4
    <3> QED
      BY <3>5, <3>6
  <2>2. CASE ~Accepts(c, s, channel)
    <3>1. channels' = channels /\ agreed' = agreed
      BY <2>2 DEF SubscribeTo
    <3> QED
      BY <3>1 DEF IInv, TypeOK
  <2> QED
    BY <2>1, <2>2
<1>10. TypeOK'
  <2>1. media_channels' \in [Slot -> Channel \cup {Free}]
    BY <1>1, <1>3 DEF IInv, TypeOK
  <2>2. /\ media_codecs' \in [Client -> SUBSET Codec]
        /\ rooms' \in [Client -> SUBSET Room]
    BY DEF IInv, TypeOK, SubscribeTo
  <2>3. \A d \in Client, way \in {"rx", "tx"} :
           Cardinality(channels'[d][way]) <= MAX_CHANNELS[way]
    BY <1>9
  <2> QED
    BY <1>9, <2>1, <2>2, <2>3 DEF TypeOK
<1>11. Distinct'
  <2>1. \A t \in Live : t # s => media_channels[t].source # new.source
    BY <1>1 DEF IInv, Distinct, Find
  <2>2. \A t \in Live' : t # s => t \in Live /\ media_channels'[t] = media_channels[t]
    BY <1>6, <1>7 DEF Live
  <2> QED
    BY <1>6, <2>1, <2>2 DEF IInv, Distinct
<1>12. TxNeverTest'
  BY <1>5, <1>6, <1>7 DEF IInv, TxNeverTest, DirOf, Dir, Live
<1>13. ASSUME NEW d \in Client, NEW t \in agreed'[d] PROVE Understood(d, t)'
  <2>1. CASE t \in agreed[d]
    <3>1. Understood(d, t) /\ t \in Slot
      BY <2>1 DEF IInv, Kept, Understood, Live
    <3>2. media_channels'[t] = media_channels[t]
      BY <1>4, <1>6, <3>1 DEF Understood
    <3> QED
      BY <1>9, <3>1, <3>2, StaysUnderstood DEF SubscribeTo
  <2>2. CASE t \notin agreed[d]
    BY <1>9, <1>13, <2>2
  <2> QED
    BY <2>1, <2>2
<1> QED
  BY <1>10, <1>11, <1>12, <1>13 DEF IInv, Kept

\* media.subscribe to a channel that is there.
LEMMA SubscribeKeeps ==
  ASSUME IInv, NEW c \in Client, NEW s \in Slot, Subscribe(c, s)
  PROVE  IInv'
<1>1. s \in Live /\ SubscribeTo(c, s, media_channels[s])
  BY DEF Subscribe
<1>2. media_channels[s] \in Channel
  BY <1>1 DEF IInv, TypeOK, Live
<1>3. media_channels[s].source \in TxSource => media_channels[s].codec \notin TestCodec
  BY <1>1 DEF IInv, TxNeverTest, DirOf, Dir
<1> QED
  BY <1>1, <1>2, <1>3, SubscribeToKeeps

\* media.subscribe that creates the channel of a source.
LEMMA CreateKeeps ==
  ASSUME IInv, NEW c \in Client, NEW source \in Source, NEW codec \in Codec \cup {NoCodec},
         CreateAndSubscribe(c, source, codec)
  PROVE  IInv'
<1> DEFINE channel == [source |-> source, room |-> NoRoom, codec |-> codec]
<1>1. NextFree \in Slot \ Live
  BY FreeSlot DEF CreateAndSubscribe
<1>2. channel \in Channel /\ channel.source = source /\ channel.codec = codec
  BY DEF Channel
<1>3. source \in TxSource => codec \notin TestCodec
  BY MediaAssumption DEF CreateAndSubscribe, Selectable
<1>4. Find(source) = {} /\ SubscribeTo(c, NextFree, channel)
  BY DEF CreateAndSubscribe
<1> HIDE DEF channel
<1> QED
  BY <1>1, <1>2, <1>3, <1>4, SubscribeToKeeps

\* media.codec: every listener that agreed to the channel was asked.
LEMMA SelectCodecKeeps ==
  ASSUME IInv, NEW c \in Client, NEW s \in Slot, NEW codec \in Codec, SelectCodec(c, s, codec)
  PROVE  IInv'
<1>1. s \in Live /\ media_channels[s] \in Channel
  BY DEF SelectCodec, IInv, TypeOK, Live
<1> DEFINE new == [media_channels[s] EXCEPT !.codec = codec]
<1>2. /\ new \in Channel
      /\ new.source = media_channels[s].source
      /\ new.room = media_channels[s].room
      /\ new.codec = codec
  BY <1>1 DEF Channel
<1>3. new # Free
  BY <1>2, MediaAssumption DEF Channel, Free
<1>4. media_channels' = [media_channels EXCEPT ![s] = new]
  BY DEF SelectCodec
<1> HIDE DEF new
<1>5. /\ media_channels'[s] = new
      /\ \A t \in Slot : t # s => media_channels'[t] = media_channels[t]
  BY <1>4 DEF IInv, TypeOK
<1>6. Live' = Live
  BY <1>1, <1>3, <1>5 DEF Live
<1>7. TypeOK'
  BY <1>2, <1>4 DEF IInv, TypeOK, SelectCodec
<1>8. \A t \in Slot : media_channels'[t].source = media_channels[t].source
  BY <1>2, <1>5
<1>9. Distinct'
  BY <1>6, <1>8 DEF IInv, Distinct, Live
<1>10. TxNeverTest'
  BY <1>2, <1>5, <1>6 DEF IInv, TxNeverTest, DirOf, Dir, Live, SelectCodec, Selectable
<1>11. ASSUME NEW d \in Client, NEW t \in agreed'[d] PROVE Understood(d, t)'
  <2>1. Understood(d, t) /\ t \in Slot
    BY <1>11 DEF SelectCodec, IInv, Kept, Understood, Live
  <2>2. CASE t # s
    BY <1>5, <2>1, <2>2, StaysUnderstood DEF SelectCodec
  <2>3. CASE t = s
    <3>1. d \in Attached(s)
      BY <2>1, <2>3 DEF Understood, Attached
    <3>2. Supports(d, codec) /\ codec # NoCodec
      BY <3>1, MediaAssumption DEF SelectCodec
    <3>3. Subscribed(d, s)'
      BY <1>2, <1>5, <2>1, <2>3 DEF Understood, Subscribed, DirOf, SelectCodec
    <3>4. InChannelRoom(d, media_channels[s])'
      BY <1>2, <1>5, <2>1, <2>3 DEF Understood, InChannelRoom, SelectCodec
    <3> QED
      BY <1>1, <1>2, <1>5, <1>6, <2>3, <3>2, <3>3, <3>4 DEF Understood, Supports, SelectCodec
  <2> QED
    BY <2>2, <2>3
<1> QED
  BY <1>7, <1>9, <1>10, <1>11 DEF IInv, Kept

-----------------------------------------------------------------------------
(* The invariant *)

\* The invariant holds of the empty table,
LEMMA InitKeeps == Init => IInv
<1> SUFFICES ASSUME Init PROVE IInv
  OBVIOUS
<1>1. Live = {}
  BY DEF Init, Live
<1>2. TypeOK
  <2>1. \A dir \in {"rx", "tx"} : MAX_CHANNELS[dir] \in Nat
    BY MediaAssumption
  <2>2. \A c \in Client, dir \in {"rx", "tx"} : channels[c][dir] = {}
    BY DEF Init
  <2>3. \A c \in Client, dir \in {"rx", "tx"} :
           Cardinality(channels[c][dir]) <= MAX_CHANNELS[dir]
    BY <2>1, <2>2, FS_EmptySet
  <2> QED
    BY <2>3 DEF Init, TypeOK
<1> QED
  BY <1>1, <1>2 DEF Init, IInv, Distinct, Kept, TxNeverTest

\* every step keeps it,
LEMMA NextKeeps == IInv /\ [Next]_vars => IInv'
<1> SUFFICES ASSUME IInv, [Next]_vars PROVE IInv'
  OBVIOUS
<1>1. CASE Application
  BY <1>1, AddKeeps, RemoveKeeps DEF Application
<1>2. ASSUME NEW c \in Client, Membership(c) PROVE IInv'
  BY <1>2, ReconnectKeeps, JoinKeeps, PartRoomKeeps, PartUnnamedKeeps DEF Membership
<1>3. ASSUME NEW c \in Client, Request(c) PROVE IInv'
  BY <1>3, CapabKeeps, CreateKeeps, SubscribeKeeps, UnsubscribeKeeps, RegisterKeeps,
     SelectCodecKeeps DEF Request
<1>4. CASE UNCHANGED vars
  BY <1>4 DEF vars, IInv, TypeOK, Distinct, Kept, Understood, TxNeverTest, Live, DirOf,
     Subscribed, InChannelRoom, Supports
<1> QED
  BY <1>1, <1>2, <1>3, <1>4 DEF Next

\* so it holds throughout.
LEMMA Invariance == Spec => []IInv
  BY InitKeeps, NextKeeps, PTL DEF Spec

-----------------------------------------------------------------------------
(* Theorems *)

\* Every reachable state is well typed, the arrays within their limits.
THEOREM MediaTypeCorrect == Spec => []TypeOK
<1>1. IInv => TypeOK
  BY DEF IInv
<1> QED
  BY <1>1, Invariance, PTL

\* A source never has two channels.
THEOREM SourcesHaveOneChannel == Spec => []OneChannelPerSource
<1>1. IInv => OneChannelPerSource
  <2> SUFFICES ASSUME IInv, NEW source \in Source PROVE Cardinality(Find(source)) <= 1
    BY DEF OneChannelPerSource
  <2>1. CASE Find(source) = {}
    BY <2>1, FS_EmptySet
  <2>2. CASE Find(source) # {}
    <3>1. PICK s : s \in Find(source)
      BY <2>2
    <3>2. Find(source) = {s}
      BY <3>1 DEF Find, IInv, Distinct
    <3> QED
      BY <3>2, FS_Singleton
  <2> QED
    BY <2>1, <2>2
<1> QED
  BY <1>1, Invariance, PTL

\* Who subscribed understands the channel, whoever changes its codec.
THEOREM ListenersUnderstand == Spec => []SubscribersUnderstand
<1>1. IInv => SubscribersUnderstand
  BY DEF IInv, Kept, Understood, SubscribersUnderstand
<1> QED
  BY <1>1, Invariance, PTL

\* Who leaves the rooms of a channel keeps no subscription it made to it.
THEOREM RoomsRevoke == Spec => []PartRevokes
<1>1. IInv => PartRevokes
  BY DEF IInv, Kept, Understood, PartRevokes
<1> QED
  BY <1>1, Invariance, PTL

\* Radio transmissions never carry a test signal.
THEOREM NoTestOnAir == Spec => []TxNeverTest
<1>1. IInv => TxNeverTest
  BY DEF IInv
<1> QED
  BY <1>1, Invariance, PTL

\* The codec of a channel does not change under two listeners.
THEOREM FormatIsHeld == Spec => FormatHeld
<1>1. IInv /\ [Next]_vars =>
        [\A s \in Live :
            /\ media_channels[s].codec # NoCodec
            /\ media_channels'[s] # Free
            /\ media_channels'[s].codec # media_channels[s].codec
            => Cardinality(Attached(s)) <= 1]_vars
  <2> SUFFICES ASSUME IInv, [Next]_vars, NEW s \in Live,
                      media_channels[s].codec # NoCodec,
                      media_channels'[s] # Free,
                      media_channels'[s].codec # media_channels[s].codec
               PROVE  Cardinality(Attached(s)) <= 1
    OBVIOUS
  <2>1. s \in Slot /\ media_channels \in [Slot -> Channel \cup {Free}]
    BY DEF IInv, TypeOK, Live
  <2>2. ~UNCHANGED media_channels
    OBVIOUS
  <2>3. ~Application
    <3>1. ASSUME NEW source \in Source, NEW codec \in (Codec \ TestCodec) \cup {NoCodec},
                 AddChannel(source, codec)
          PROVE  FALSE
      <4>1. NextFree # s
        BY <3>1, FreeSlot DEF AddChannel
      <4> QED
        BY <2>1, <3>1, <4>1 DEF AddChannel
    <3>2. ASSUME NEW t \in Slot, RemoveChannel(t) PROVE FALSE
      BY <2>1, <3>2 DEF RemoveChannel
    <3> QED
      BY <3>1, <3>2 DEF Application
  <2>4. \A c \in Client : ~Membership(c)
    BY <2>2 DEF Membership, Reconnect, JoinRoom, PartRoom, PartUnnamed
  <2>5. PICK c \in Client : Request(c)
    BY <2>2, <2>3, <2>4 DEF Next, vars
  <2>6. ASSUME NEW source \in Source, NEW codec \in Codec \cup {NoCodec},
               CreateAndSubscribe(c, source, codec)
        PROVE  FALSE
    <3>1. NextFree # s
      BY <2>6, FreeSlot DEF CreateAndSubscribe
    <3> QED
      BY <2>1, <2>6, <3>1 DEF CreateAndSubscribe, SubscribeTo
  <2>7. ASSUME NEW t \in Slot, Subscribe(c, t) PROVE FALSE
    BY <2>1, <2>7 DEF Subscribe, SubscribeTo, Chosen, Channel, Live
  <2>8. PICK t \in Slot, codec \in Codec : SelectCodec(c, t, codec)
    BY <2>2, <2>5, <2>6, <2>7 DEF Request, Capab, Unsubscribe, RegisterSource
  <2>9. t = s /\ codec # media_channels[s].codec
    BY <2>1, <2>8 DEF SelectCodec, Channel, Live
  <2>10. Attached(s) \subseteq {c}
    BY <2>8, <2>9 DEF SelectCodec
  <2>11. Attached(s) = {} \/ Attached(s) = {c}
    BY <2>10
  <2> QED
    BY <2>11, FS_EmptySet, FS_Singleton
<1> QED
  BY <1>1, Invariance, PTL DEF Spec, FormatHeld

=============================================================================
