--------------------------------- MODULE Ptt ---------------------------------
(***************************************************************************)
(* Push-to-talk: which session transmits, on which VFO of which room, and  *)
(* every way a transmission ends: its own release, an override by staff or *)
(* a supervisor, a mute, a reload of the accounts, and the close of the    *)
(* connection.  It is composed with the sessions of module Session.        *)
(*                                                                         *)
(* The rig is outside the library: transmitting is what the "rigctl" and   *)
(* "rig.ptt" events tell it, each event taken to be carried out.  Whether  *)
(* an elmer accepts supervision, and the talker of a linked server, are    *)
(* answers of the application, free here.                                  *)
(***************************************************************************)
EXTENDS Session

CONSTANTS
    Room,
    TxControl,          \* the rooms that ws_room_tx_control accepts
    Vfo,
    NoVfo,
    NoRoom,
    NoTalker,           \* nobody transmits: whos_talking returns NULL
    VfoMasks,           \* the masks a rig may give its room
    ResourceGrants      \* <<slot, room>> pairs that the authorizer accepts

ASSUME PttAssumption ==
    /\ TxControl \subseteq Room
    /\ NoVfo \notin Vfo
    /\ NoRoom \notin Room
    /\ NoTalker \notin Client
    /\ VfoMasks \subseteq SUBSET Vfo
    /\ VfoMasks # {}
    /\ ResourceGrants \subseteq Slot \X Room

VARIABLES
    is_ptt,
    ptt_vfo,        \* kept by a forced release, reset by a requested one
    ptt_room,       \* kept by every release
    noob_cooldown,  \* is now < cptr->noob_cooldown?
    rooms,          \* cptr->rooms
    vfo_mask,       \* room_meta[].vfo_mask
    transmitting,   \* external: <<room, VFO>> pairs the rig is keyed on
    remote_talker   \* external: does a linked server have a talker?

keyVars == <<is_ptt, ptt_vfo, ptt_room, transmitting>>
pttVars == <<keyVars, noob_cooldown, rooms, vfo_mask, remote_talker>>
vars == <<sessionVars, pttVars>>

-----------------------------------------------------------------------------
(* Helpers *)

TxPrivilege == {"admin", "owner", "tx", "noob"}

Keyed(c) == authenticated[c] /\ is_ptt[c]

\* whos_talking among the local sessions.
Talkers == {c \in Client : Keyed(c)}

KeyedChannel(c) == <<ptt_room[c], ptt_vfo[c]>>

\* Bug: the requester of a supervised stop may be a noob itself.
CanOverrideNoobs(actor, target) ==
    /\ "owner" \notin target
    /\ \/ "owner" \in actor
       \/ /\ "admin" \notin target
          /\ \/ "admin" \in actor
             \/ "noob" \in target /\ actor \cap {"tx", "elmer"} # {}

\* ws_ptt_can_override on the privileges of the requester and of the holder.
CanOverride(actor, target) ==
    /\ "owner" \notin target
    /\ \/ "owner" \in actor
       \/ /\ "admin" \notin target
          /\ \/ "admin" \in actor
             \/ /\ "noob" \in target
                /\ "noob" \notin actor
                /\ actor \cap {"tx", "elmer"} # {}

PrivsOf(c) == users[users[user[c]].uid].privs

HasTxAuthority(c, r) ==
    HasPriv(c, TxPrivilege) \/ <<user[c], r>> \in ResourceGrants

\* ws_release_ptt_on_disconnect for each member of S that is keyed.
ReleasePtt(S) ==
    /\ is_ptt' = [c \in Client |-> is_ptt[c] /\ c \notin S]
    /\ transmitting' = transmitting \ {KeyedChannel(c) : c \in {x \in S : is_ptt[x]}}
    /\ UNCHANGED <<ptt_vfo, ptt_room>>

-----------------------------------------------------------------------------
(* The ptt command *)

\* Bug: staff take the transmitter over by keying down.
KeyDownTakesOver(c, r, v) ==
    /\ MayCommand(c)
    /\ v \in vfo_mask[r]
    /\ ~is_muted[user[c]]
    /\ r \in rooms[c] \cap TxControl
    /\ HasTxAuthority(c, r)
    /\ is_ptt[c] => KeyedChannel(c) = <<r, v>>
    /\ Talkers \subseteq {c} \/ HasPriv(c, {"admin", "owner"})
    /\ Talkers = {} => ~remote_talker
    /\ ~(HasPriv(c, {"noob"}) /\ noob_cooldown[c])
    /\ is_ptt' = [is_ptt EXCEPT ![c] = TRUE]
    /\ ptt_vfo' = [ptt_vfo EXCEPT ![c] = v]
    /\ ptt_room' = [ptt_room EXCEPT ![c] = r]
    /\ transmitting' = transmitting \cup {<<r, v>>}
    /\ Return
    /\ UNCHANGED <<user, authenticated, nonce, chatname, accountVars,
                   noob_cooldown, rooms, vfo_mask, remote_talker>>

\* A key-down never takes the transmitter over.  One that repeats the request
\* already granted is only acknowledged.
KeyDown(c, r, v) ==
    /\ MayCommand(c)
    /\ v \in vfo_mask[r]
    /\ ~is_muted[user[c]]
    /\ r \in rooms[c] \cap TxControl
    /\ HasTxAuthority(c, r)
    /\ is_ptt[c] => KeyedChannel(c) = <<r, v>>
    /\ Talkers \subseteq {c}
    /\ Talkers = {} => ~remote_talker
    /\ ~(HasPriv(c, {"noob"}) /\ noob_cooldown[c])
    /\ is_ptt' = [is_ptt EXCEPT ![c] = TRUE]
    /\ ptt_vfo' = [ptt_vfo EXCEPT ![c] = v]
    /\ ptt_room' = [ptt_room EXCEPT ![c] = r]
    /\ transmitting' = transmitting \cup {<<r, v>>}
    /\ Return
    /\ UNCHANGED <<user, authenticated, nonce, chatname, accountVars,
                   noob_cooldown, rooms, vfo_mask, remote_talker>>

\* Bug: the release goes to the room the message names.
OwnReleaseElsewhere(c) ==
    /\ MayCommand(c)
    /\ is_ptt[c]
    /\ \E r \in Room :
          /\ ptt_vfo[c] \in vfo_mask[r]
          /\ transmitting' = transmitting \ {<<r, ptt_vfo[c]>>}
    /\ is_ptt' = [is_ptt EXCEPT ![c] = FALSE]
    /\ ptt_vfo' = [ptt_vfo EXCEPT ![c] = NoVfo]
    /\ Return
    /\ UNCHANGED <<user, authenticated, nonce, chatname, accountVars,
                   ptt_room, noob_cooldown, rooms, vfo_mask, remote_talker>>

\* The holder of the transmitter gives it up: neither muting nor the loss of
\* room, privilege or supervision stands in the way, but the VFO must still be
\* mapped to the room.
OwnRelease(c) ==
    /\ MayCommand(c)
    /\ is_ptt[c]
    /\ ptt_vfo[c] \in vfo_mask[ptt_room[c]]
    /\ is_ptt' = [is_ptt EXCEPT ![c] = FALSE]
    /\ ptt_vfo' = [ptt_vfo EXCEPT ![c] = NoVfo]
    /\ transmitting' = transmitting \ {KeyedChannel(c)}
    /\ Return
    /\ UNCHANGED <<user, authenticated, nonce, chatname, accountVars,
                   ptt_room, noob_cooldown, rooms, vfo_mask, remote_talker>>

\* d stops the transmission of h; a noob is then kept off for a while.
OverrideRelease(d, h) ==
    /\ MayCommand(d)
    /\ ~is_ptt[d]
    /\ h \in Talkers
    /\ CanOverride(PrivsOf(d), PrivsOf(h))
    /\ ptt_vfo[h] \in vfo_mask[ptt_room[h]]
    /\ ~is_muted[user[d]]
    /\ is_ptt' = [is_ptt EXCEPT ![h] = FALSE]
    /\ ptt_vfo' = [ptt_vfo EXCEPT ![h] = NoVfo]
    /\ transmitting' = transmitting \ {KeyedChannel(h)}
    /\ noob_cooldown' = [noob_cooldown EXCEPT ![h] = @ \/ HasPriv(h, {"noob"})]
    /\ Return
    /\ UNCHANGED <<user, authenticated, nonce, chatname, accountVars,
                   ptt_room, rooms, vfo_mask, remote_talker>>

CooldownEnds(c) ==
    /\ noob_cooldown[c]
    /\ noob_cooldown' = [noob_cooldown EXCEPT ![c] = FALSE]
    /\ UNCHANGED <<sessionVars, keyVars, rooms, vfo_mask, remote_talker>>

-----------------------------------------------------------------------------
(* Rooms *)

JoinRoom(c, r) ==
    /\ MayCommand(c)
    /\ r \notin rooms[c]
    /\ rooms' = [rooms EXCEPT ![c] = @ \cup {r}]
    /\ Return
    /\ UNCHANGED <<user, authenticated, nonce, chatname, accountVars, keyVars,
                   noob_cooldown, vfo_mask, remote_talker>>

\* Leaving a room does not end a transmission in it.
PartRoom(c, r) ==
    /\ MayCommand(c)
    /\ r \in rooms[c]
    /\ rooms' = [rooms EXCEPT ![c] = @ \ {r}]
    /\ Return
    /\ UNCHANGED <<user, authenticated, nonce, chatname, accountVars, keyVars,
                   noob_cooldown, vfo_mask, remote_talker>>

\* The application maps other VFOs of a rig to its room.
SetVfoMask(r, mask) ==
    /\ vfo_mask[r] # mask
    /\ vfo_mask' = [vfo_mask EXCEPT ![r] = mask]
    /\ UNCHANGED <<sessionVars, keyVars, noob_cooldown, rooms, remote_talker>>

\* The talker of a linked server comes or goes.
RemoteTalk ==
    /\ remote_talker' = ~remote_talker
    /\ UNCHANGED <<sessionVars, keyVars, noob_cooldown, rooms, vfo_mask>>

-----------------------------------------------------------------------------
(* Audio to transmit: ws_binframe_process_mg.  It changes no state of the library; *)
(* what it accepts goes to the rig and to who listens to what the rig transmits.   *)
(* That the session has subscribed to the channel and has its codec is left to     *)
(* module MediaChan.                                                               *)

\* The frames of an account with this privilege are not for the rig, even while it is
\* keyed: they go to the listeners of the receive channel, whoever transmits, or to an
\* event of their own if there is none.
MediaSource(c) == HasPriv(c, {"media.source"})

\* Bug: the channel of the last transmission is enough.
AudioAcceptedUnkeyed(c, r, v, denied) ==
    /\ conn[c] = "open" /\ authenticated[c]
    /\ ~users[user[c]].password_change_required /\ ~Expired(user[c])
    /\ ~MediaSource(c)
    /\ ~is_muted[user[c]]
    /\ HasPriv(c, TxPrivilege)
    /\ HasPriv(c, {"noob"}) => c \notin denied
    /\ ptt_vfo[c] # NoVfo /\ v \in {ptt_vfo[c], NoVfo}
    /\ ptt_room[c] \in {r, NoRoom}
    /\ r \in rooms[c] \cup {NoRoom}

\* A frame for the rig, on a transmit channel of room r, or of no room (NoRoom), and of
\* VFO v, or of every VFO (RR_BINFRAME_VFO_NA, here NoVfo).  Unlike the key-down, a
\* grant for the room does not help.
AudioAccepted(c, r, v, denied) ==
    /\ conn[c] = "open" /\ authenticated[c]
    /\ ~users[user[c]].password_change_required /\ ~Expired(user[c])
    /\ ~MediaSource(c)
    /\ ~is_muted[user[c]]
    /\ HasPriv(c, TxPrivilege)
    /\ HasPriv(c, {"noob"}) => c \notin denied
    /\ is_ptt[c]
    /\ ptt_vfo[c] # NoVfo /\ v \in {ptt_vfo[c], NoVfo}
    /\ ptt_room[c] \in {r, NoRoom}
    /\ r \in rooms[c] \cup {NoRoom}

-----------------------------------------------------------------------------
(* What the session handlers do to a transmission *)

\* Bug: only a session that leaves by itself releases the transmitter.
CloseSessionKicked(c) ==
    /\ Close(c)
    /\ ReleasePtt(IF conn[c] = "open" THEN {c} ELSE {})
    /\ noob_cooldown' = [noob_cooldown EXCEPT ![c] = FALSE]
    /\ rooms' = [rooms EXCEPT ![c] = {}]
    /\ UNCHANGED <<vfo_mask, remote_talker>>

CloseSession(c) ==
    /\ Close(c)
    /\ ReleasePtt(IF user[c] # NoUser /\ chatname[c] # NoName THEN {c} ELSE {})
    /\ noob_cooldown' = [noob_cooldown EXCEPT ![c] = FALSE]
    /\ rooms' = [rooms EXCEPT ![c] = {}]
    /\ UNCHANGED <<vfo_mask, remote_talker>>

\* Bug: only the session that was named loses the transmitter.
MuteAccountOne(d, c) ==
    /\ Mute(d, c)
    /\ ReleasePtt({c})
    /\ UNCHANGED <<noob_cooldown, rooms, vfo_mask, remote_talker>>

\* Every session of the muted account loses the transmitter.
MuteAccount(d, c) ==
    /\ Mute(d, c)
    /\ ReleasePtt({x \in Client : user[x] = user[c]})
    /\ UNCHANGED <<noob_cooldown, rooms, vfo_mask, remote_talker>>

\* Bug: a talker who must change its password goes on.
SilencedIgnoresPassword(table, denied) ==
    Evicted(table) \cup
    {c \in LoggedIn :
        LET account == table[user[c]]
        IN  \/ account.privs \cap TxPrivilege = {}
            \/ "noob" \in account.privs /\ c \in denied}

\* The sessions that a reload takes the transmitter from: those it evicts, and
\* those that lose the privilege, must change their password, or are noobs
\* whose supervision (denied) is over.
Silenced(table, denied) ==
    Evicted(table) \cup
    {c \in LoggedIn :
        LET account == table[user[c]]
        IN  \/ account.privs \cap TxPrivilege = {}
            \/ account.password_change_required
            \/ "noob" \in account.privs /\ c \in denied}

PttReload(table, denied) ==
    /\ ReleasePtt(Silenced(table, denied))
    /\ UNCHANGED <<noob_cooldown, rooms, vfo_mask, remote_talker>>

-----------------------------------------------------------------------------
Init ==
    /\ SessionInit
    /\ is_ptt = [c \in Client |-> FALSE]
    /\ ptt_vfo = [c \in Client |-> NoVfo]
    /\ ptt_room = [c \in Client |-> NoRoom]
    /\ noob_cooldown = [c \in Client |-> FALSE]
    /\ rooms = [c \in Client |-> {}]
    /\ vfo_mask \in [Room -> VfoMasks]
    /\ transmitting = {}
    /\ remote_talker = FALSE

Command(c) ==
    \/ \E r \in Room, v \in Vfo : KeyDown(c, r, v)
    \/ OwnRelease(c)
    \/ \E h \in Client : OverrideRelease(c, h)
    \/ \E r \in Room : JoinRoom(c, r) \/ PartRoom(c, r)
    \/ \E d \in Client : MuteAccount(c, d)

\* What the application, a link or the clock does between two handlers.
Environment ==
    \/ \E c \in Client : CooldownEnds(c)
    \/ \E r \in Room, mask \in VfoMasks : SetVfoMask(r, mask)
    \/ RemoteTalk

AccountsChange ==
    \E table \in AccountTables, denied \in SUBSET Talkers :
        /\ Reload(table) \/ \E c \in Client : RefreshEvicts(c, table)
        /\ PttReload(table, denied)

\* Session steps without a say in push-to-talk.
SessionStep ==
    /\ \/ \E c \in Client : SessionMessage(c)
       \/ /\ Idle
          /\ \/ \E c \in Client : Connect(c) \/ LoginMessage(c)
             \/ \E s \in Slot : ExpirePassword(s)
    /\ UNCHANGED pttVars

Next ==
    \/ \E c \in Client : Command(c)
    \/ SessionStep
    \/ Idle /\ \/ \E c \in Client : CloseSession(c)
               \/ AccountsChange
               \/ Environment

Fairness ==
    \A c \in Client :
        /\ SF_vars(Idle /\ conn[c] = "closing" /\ CloseSession(c))
        /\ WF_vars(HandlerReturns(c) /\ UNCHANGED pttVars)

Spec == Init /\ [][Next]_vars

FairSpec == Spec /\ Fairness

-----------------------------------------------------------------------------
(* Properties *)

\* Every variable has its type.
PttTypeOK ==
    /\ SessionTypeOK
    /\ is_ptt \in [Client -> BOOLEAN]
    /\ ptt_vfo \in [Client -> Vfo \cup {NoVfo}]
    /\ ptt_room \in [Client -> Room \cup {NoRoom}]
    /\ noob_cooldown \in [Client -> BOOLEAN]
    /\ rooms \in [Client -> SUBSET Room]
    /\ vfo_mask \in [Room -> SUBSET Vfo]
    /\ transmitting \in SUBSET (Room \X Vfo)
    /\ remote_talker \in BOOLEAN

\* Two sessions never transmit at once: not of one account, not in different
\* rooms, not while the first is kicked but still connected.
SingleTalker == \A c, d \in Client : Keyed(c) /\ Keyed(d) => c = d

\* The rig is keyed on exactly the room and VFO of the talker: every way a
\* transmission ends tells the rig so, and names the channel that was keyed.
RigFollowsTalker == transmitting = {KeyedChannel(c) : c \in Talkers}

\* Audio for the rig comes only from the session the rig is keyed for, by a channel of
\* the room and of the VFO it is keyed on, or by that of all VFOs of the room: none
\* from a session whose transmission was stopped (it keeps room and VFO), from another
\* session of the account, by way of another room, or of a channel without a room.
AudioFromTalker ==
    \A c \in Client, r \in Room \cup {NoRoom}, v \in Vfo \cup {NoVfo} :
        AudioAccepted(c, r, v, {}) =>
            /\ Talkers = {c}
            /\ \E w \in Vfo : transmitting = {<<r, w>>} /\ v \in {w, NoVfo}

\* A muted account does not transmit, through whichever of its sessions.
MutedNeverKeyed == \A c \in Client : Keyed(c) => ~is_muted[user[c]]

\* Who transmits has the right to, now: the account holds a TX privilege (or a
\* grant for the room) and need not change its password, whatever reloads came
\* after the key-down.
KeyedHasAuthority ==
    \A c \in Client :
        Keyed(c) => /\ HasTxAuthority(c, ptt_room[c])
                    /\ ~users[user[c]].password_change_required

\* The right to stop another session's transmission is a strict order on the
\* sessions logged in: nobody can stop an equal (another session of the same
\* account is one), no two can stop each other, and authority is transitive.
OverrideIsStrict ==
    \A c, d, e \in LoggedIn :
        LET MayStop(x, y) == CanOverride(PrivsOf(x), PrivsOf(y))
        IN  /\ ~MayStop(c, c)
            /\ MayStop(c, d) /\ MayStop(d, e) => MayStop(c, e)

\* A talker that was kicked is off the air sooner or later.
KickedTalkerReleases ==
    \A c \in Client : Keyed(c) /\ conn[c] = "closing" ~> transmitting = {}

\* The holder of the lock of module PttLock.
LockHolder == IF Talkers = {} THEN NoTalker ELSE CHOOSE c \in Talkers : TRUE

Lock == INSTANCE PttLock WITH
    Holder <- Client,
    NoHolder <- NoTalker,
    Channel <- Room \X Vfo,
    holder <- LockHolder,
    on_air <- transmitting

\* Push-to-talk implements the lock: the transmitter is acquired only when free
\* and is never handed over.
ImplementsLock == Lock!LockSpec
=============================================================================
