------------------------------ MODULE RigControl ------------------------------
(***************************************************************************)
(* The rig commands other than push-to-talk: which VFO of which room a     *)
(* message may tune, switch or exchange.  A rig has a control room, and may *)
(* have receive rooms beside it in which the frequency of a VFO is free     *)
(* once the application has let go of it.  The table of the rooms with VFOs *)
(* is written by the application and, for the room of the first rig, by     *)
(* every rig message.                                                      *)
(*                                                                         *)
(* rig_order is what the step just taken tells the rig: the "rigctl" or    *)
(* "be.vfo.select" event.  Privileges, mutes and transmissions belong to   *)
(* the modules Session and Ptt, and are free here.                         *)
(***************************************************************************)
EXTENDS SdrTuning

CONSTANTS
    BaseRoom,       \* the control rooms of this site, "#site-rigN"
    SubRoom,        \* their receive rooms, "#site-rigN.name"
    RigOf,          \* [SubRoom -> BaseRoom]
    DefaultRig,     \* "#site-rig0"
    Overrides,      \* what the application may call the authoritative room
    NoRoom,
    Vfo,            \* 0 is VFO A
    NoVfo,
    VfoMasks,       \* the masks the application uses
    MAX_ROOMS       \* the length of room_meta: 32

ASSUME RigAssumption ==
    /\ BaseRoom \cup SubRoom \cup Overrides \subseteq Room
    /\ BaseRoom \cap SubRoom = {}
    /\ SdrRoom \cap (BaseRoom \cup SubRoom) = {}
    /\ RigOf \in [SubRoom -> BaseRoom]
    /\ DefaultRig \in BaseRoom
    /\ NoRoom \notin Room
    /\ Vfo \subseteq Nat
    /\ NoVfo \notin Vfo
    /\ VfoMasks \subseteq SUBSET Vfo
    /\ MAX_ROOMS \in Nat \ {0}

VARIABLES
    room_meta,              \* room |-> its masks; an entry is never freed
    authoritative_vfo_mask,
    authoritative_room_override,
    chat_vfo,               \* the VFO that !vfo chose, ...
    chat_vfo_room,          \* ... and for which room
    tx_authority,           \* free: has the account a TX privilege?
    is_muted,               \* free
    is_ptt,                 \* free
    rig_order               \* external: what the rig is told in this step

tableVars == <<room_meta, authoritative_vfo_mask, authoritative_room_override>>
chatVars == <<chat_vfo, chat_vfo_room>>
accountVars == <<tx_authority, is_muted, is_ptt>>
vars == <<sdrVars, tableVars, chatVars, accountVars, rig_order>>

-----------------------------------------------------------------------------
(* The table of rooms *)

Entry == [vfo_mask : SUBSET Vfo, rx_tuning_mask : SUBSET Vfo]

NoOrder == [cmd |-> "none", room |-> NoRoom, vfo |-> NoVfo]

TuneCommand == {"freq", "mode", "width"}

\* room_meta_find with create: a new entry only while there is a slot.
Fits(table, r) == r \in DOMAIN table \/ Cardinality(DOMAIN table) < MAX_ROOMS

VfoMask(table, r) == IF r \in DOMAIN table THEN table[r].vfo_mask ELSE {}

\* The table with the mask of r set, if r has an entry or gets one.
Mapped(table, r, mask) ==
    LET kept == IF r \in DOMAIN table THEN table[r].rx_tuning_mask ELSE {}
    IN  IF Fits(table, r)
        THEN [x \in DOMAIN table \cup {r} |->
                IF x = r THEN [vfo_mask |-> mask, rx_tuning_mask |-> kept] ELSE table[x]]
        ELSE table

\* Bug: the entry of the first rig is only written when it is made.
AssertedOnce(table, mask) ==
    IF authoritative_room_override = NoRoom /\ DefaultRig \notin DOMAIN table
    THEN Mapped(table, DefaultRig, mask) ELSE table

\* ws_authoritative_room, which every rig message calls, whatever room it
\* names: unless another room is authoritative, that of the first rig gets the
\* authoritative mask.
Asserted(table, mask) ==
    IF authoritative_room_override = NoRoom
    THEN Mapped(table, DefaultRig, mask) ELSE table

TxControl(table, r) == r \in BaseRoom \cap DOMAIN table

\* ws_room_same_rig leaves one control room to look at.
BaseOf(r) == IF r \in SubRoom THEN RigOf[r] ELSE r

\* Bug: the VFOs of the room, whether or not the rig has let go of them.
RxTuningMaskAll(table, r) ==
    IF BaseOf(r) \in BaseRoom \cap DOMAIN table THEN VfoMask(table, r) ELSE {}

RxTuningMask(table, r) ==
    IF BaseOf(r) \in BaseRoom \cap DOMAIN table
    THEN table[BaseOf(r)].rx_tuning_mask \cap VfoMask(table, r) ELSE {}

RxTunable(table, r) ==
    IF r \in SdrRoom THEN 0 \in VfoMask(table, r) ELSE RxTuningMask(table, r) # {}

ControlAllowed(table, c, r, frequency) ==
    /\ InRoom(c, r)
    /\ TxControl(table, r) \/ (frequency /\ RxTunable(table, r))

-----------------------------------------------------------------------------
(* What the application writes *)

SetVfoMask(r, mask) ==
    /\ mask # {} => r \in BaseRoom \cup SubRoom \/ (r \in SdrRoom /\ mask = {0})
    /\ Fits(room_meta, r)
    /\ room_meta' = Mapped(room_meta, r, mask)
    /\ rig_order' = NoOrder
    /\ UNCHANGED <<sdrVars, authoritative_vfo_mask, authoritative_room_override,
                   chatVars, accountVars>>

SetRxTuningMask(r, mask) ==
    /\ TxControl(room_meta, r)
    /\ mask \subseteq VfoMask(room_meta, r)
    /\ room_meta' = [room_meta EXCEPT ![r].rx_tuning_mask = mask]
    /\ rig_order' = NoOrder
    /\ UNCHANGED <<sdrVars, authoritative_vfo_mask, authoritative_room_override,
                   chatVars, accountVars>>

\* The room is asserted with the new mask, then given it once more; an
\* override gets it here only.
SetAuthoritativeVfoMask(mask) ==
    /\ authoritative_vfo_mask' = mask
    /\ LET room == IF authoritative_room_override = NoRoom
                   THEN DefaultRig ELSE authoritative_room_override
       IN  room_meta' = Mapped(Asserted(room_meta, mask), room, mask)
    /\ rig_order' = NoOrder
    /\ UNCHANGED <<sdrVars, authoritative_room_override, chatVars, accountVars>>

SetAuthoritativeRoom(r) ==
    /\ authoritative_room_override' = r
    /\ rig_order' = NoOrder
    /\ UNCHANGED <<sdrVars, room_meta, authoritative_vfo_mask, chatVars, accountVars>>

-----------------------------------------------------------------------------
(* Members *)

\* A control room is joined only once it has an entry.
JoinRoom(c, r) ==
    /\ r \in BaseRoom => r \in DOMAIN room_meta
    /\ Join(c, r)
    /\ rig_order' = NoOrder
    /\ UNCHANGED <<tableVars, chatVars, accountVars>>

PartRoom(c, r) ==
    /\ Part(c, r)
    /\ rig_order' = NoOrder
    /\ UNCHANGED <<tableVars, chatVars, accountVars>>

\* The record of a new connection is zeroed.
Arrive(c) ==
    /\ Connect(c)
    /\ chat_vfo' = [chat_vfo EXCEPT ![c] = NoVfo]
    /\ chat_vfo_room' = [chat_vfo_room EXCEPT ![c] = NoRoom]
    /\ is_ptt' = [is_ptt EXCEPT ![c] = FALSE]
    /\ rig_order' = NoOrder
    /\ UNCHANGED <<tableVars, tx_authority, is_muted>>

Leave(c) ==
    /\ Disconnect(c)
    /\ rig_order' = NoOrder
    /\ UNCHANGED <<tableVars, chatVars, accountVars>>

\* Key-downs, releases, mutes and reloads: see the modules Ptt and Session.
AccountsChange(c) ==
    /\ connected[c]
    /\ \/ is_ptt' = [is_ptt EXCEPT ![c] = ~@] /\ UNCHANGED <<tx_authority, is_muted>>
       \/ is_muted' = [is_muted EXCEPT ![c] = ~@] /\ UNCHANGED <<tx_authority, is_ptt>>
       \/ tx_authority' = [tx_authority EXCEPT ![c] = ~@] /\ UNCHANGED <<is_muted, is_ptt>>
    /\ rig_order' = NoOrder
    /\ UNCHANGED <<sdrVars, tableVars, chatVars>>

-----------------------------------------------------------------------------
(* Rig messages *)

\* What the message finds: the table once the first rig is asserted.
Table == Asserted(room_meta, authoritative_vfo_mask)

\* Only the owner passes, and the walk purges the list.
TunesReceiver(cmd, r) == r \in SdrRoom /\ cmd \in TuneCommand

\* The gates of ws_handle_rigctl_msg that every command passes, ...
Admitted(c, cmd, r, v) ==
    /\ connected[c]
    /\ v \in VfoMask(Table, r)
    /\ ~is_muted[c]
    /\ TunesReceiver(cmd, r) => TuningOwner(r) = c
    /\ ControlAllowed(Table, c, r, cmd = "freq" \/ TunesReceiver(cmd, r))
    /\ cmd = "freq" /\ r \notin SdrRoom /\ ~TxControl(Table, r) => v \in RxTuningMask(Table, r)

\* ... and what one that is carried out does.
Orders(c, cmd, r, v) ==
    /\ IF TunesReceiver(cmd, r) THEN Tune(c, r) ELSE UNCHANGED sdrVars
    /\ room_meta' = Table
    /\ rig_order' = [cmd |-> cmd, room |-> r, vfo |-> v]
    /\ UNCHANGED <<authoritative_vfo_mask, authoritative_room_override, chatVars, accountVars>>

Carry(c, cmd, r, v) == Admitted(c, cmd, r, v) /\ Orders(c, cmd, r, v)

\* Numbers and names out of range are refused.
Power(c, r, v) == tx_authority[c] /\ Carry(c, "power", r, v)

Frequency(c, r, v) == tx_authority[c] /\ Carry(c, "freq", r, v)

Width(c, r, v) == tx_authority[c] /\ Carry(c, "width", r, v)

Mode(c, r, v) == tx_authority[c] /\ Carry(c, "mode", r, v)

\* Neither of these asks for a TX privilege, nor whether somebody else transmits.
Swap(c, r, v) == ~is_ptt[c] /\ Carry(c, "swap", r, v)

Split(c, r, v) == ~is_ptt[c] /\ Carry(c, "split", r, v)

TxCommand(c, r, v) ==
    Power(c, r, v) \/ Frequency(c, r, v) \/ Width(c, r, v) \/ Mode(c, r, v)

\* A message that is refused, or that the library does not understand.
Refused(c) ==
    /\ connected[c]
    /\ room_meta' = Table
    /\ \/ UNCHANGED sdrVars
       \/ \E r \in SdrRoom : TuningOwner(r) # c /\ Tune(c, r)
    /\ rig_order' = NoOrder
    /\ UNCHANGED <<authoritative_vfo_mask, authoritative_room_override, chatVars, accountVars>>

\* ws_chat_selected_vfo, before the message asserts the first rig.
Selected(c, r) ==
    LET mask == VfoMask(room_meta, r)
    IN  IF chat_vfo_room[c] = r /\ chat_vfo[c] \in mask THEN chat_vfo[c]
        ELSE IF mask # {} THEN Min(mask) ELSE NoVfo

MayTypeCommands(c) == tx_authority[c] /\ ~is_muted[c]

\* !freq, !mode, !width, !power: a rig message for the VFO selected.
TypedCommand(c, r) ==
    /\ MayTypeCommands(c)
    /\ Selected(c, r) # NoVfo
    /\ TxCommand(c, r, Selected(c, r))

\* !vfo: the choice is remembered for one room, and becomes the rig's where the
\* sender controls it, even while another transmits.
SelectVfo(c, r, v) ==
    /\ MayTypeCommands(c)
    /\ InRoom(c, r)
    /\ v \in VfoMask(room_meta, r)
    /\ ~is_ptt[c]
    /\ chat_vfo' = [chat_vfo EXCEPT ![c] = v]
    /\ chat_vfo_room' = [chat_vfo_room EXCEPT ![c] = r]
    /\ rig_order' = IF ControlAllowed(room_meta, c, r, FALSE)
                    THEN [cmd |-> "select", room |-> r, vfo |-> v] ELSE NoOrder
    /\ UNCHANGED <<sdrVars, tableVars, accountVars>>

-----------------------------------------------------------------------------
Init ==
    /\ SdrInit
    /\ room_meta = [r \in {} |-> [vfo_mask |-> {}, rx_tuning_mask |-> {}]]
    /\ authoritative_vfo_mask \in VfoMasks
    /\ authoritative_room_override = NoRoom
    /\ chat_vfo = [c \in Client |-> NoVfo]
    /\ chat_vfo_room = [c \in Client |-> NoRoom]
    /\ tx_authority = [c \in Client |-> TRUE]
    /\ is_muted = [c \in Client |-> FALSE]
    /\ is_ptt = [c \in Client |-> FALSE]
    /\ rig_order = NoOrder

Application ==
    \/ \E r \in Room, mask \in VfoMasks : SetVfoMask(r, mask) \/ SetRxTuningMask(r, mask)
    \/ \E mask \in VfoMasks : SetAuthoritativeVfoMask(mask)
    \/ \E r \in Overrides : SetAuthoritativeRoom(r)

Message(c) ==
    \/ \E r \in Room : JoinRoom(c, r) \/ PartRoom(c, r)
    \/ \E r \in Room, v \in Vfo :
          TxCommand(c, r, v) \/ Swap(c, r, v) \/ Split(c, r, v) \/ SelectVfo(c, r, v)
    \/ \E r \in Room : TypedCommand(c, r)
    \/ Refused(c)

Next ==
    \/ Application
    \/ \E c \in Client : Arrive(c) \/ Leave(c) \/ AccountsChange(c) \/ Message(c)

Spec == Init /\ [][Next]_vars

-----------------------------------------------------------------------------
(* Properties *)

\* Every variable has its type, and the table its length.
TypeOK ==
    /\ rooms \in [Client -> SUBSET Room]
    /\ DOMAIN room_meta \subseteq Room
    /\ Cardinality(DOMAIN room_meta) <= MAX_ROOMS
    /\ room_meta \in [DOMAIN room_meta -> Entry]
    /\ authoritative_vfo_mask \in SUBSET Vfo
    /\ authoritative_room_override \in Room \cup {NoRoom}
    /\ chat_vfo \in [Client -> Vfo \cup {NoVfo}]
    /\ chat_vfo_room \in [Client -> Room \cup {NoRoom}]
    /\ accountVars \in [Client -> BOOLEAN] \X [Client -> BOOLEAN] \X [Client -> BOOLEAN]

\* srv.rigctl.c:309 "without moving the shared LO": from a receive room nothing
\* but the frequency is set, and only of a VFO that the rig has let go of, which
\* it keeps doing while masks are changed around it.
IndependentTuning ==
    rig_order.room \in SubRoom =>
        /\ rig_order.cmd = "freq"
        /\ rig_order.vfo \in room_meta[RigOf[rig_order.room]].rx_tuning_mask

\* Whatever masks the application sets on the room of the first rig, a message
\* reaches only the VFOs of the authoritative mask there, unless the application
\* made another room authoritative.
DefaultRigMapping ==
    (/\ rig_order.room = DefaultRig
     /\ rig_order.cmd # "select"
     /\ authoritative_room_override = NoRoom)
        => rig_order.vfo \in authoritative_vfo_mask
=============================================================================
