------------------------------- MODULE PttLock -------------------------------
(***************************************************************************)
(* What push-to-talk promises: the transmitter has at most one holder, it  *)
(* is on the air exactly while it is held, on one VFO of one room, and it  *)
(* passes from one holder to another only through being released.          *)
(***************************************************************************)
CONSTANTS Holder, NoHolder, Channel

VARIABLES
    holder,     \* the session that transmits, or NoHolder
    on_air      \* the channels the rig transmits on

lockVars == <<holder, on_air>>

LockTypeOK ==
    /\ holder \in Holder \cup {NoHolder}
    /\ on_air \in SUBSET Channel

LockInit ==
    /\ holder = NoHolder
    /\ on_air = {}

Acquire(c, channel) ==
    /\ holder = NoHolder
    /\ holder' = c
    /\ on_air' = {channel}

Release ==
    /\ holder # NoHolder
    /\ holder' = NoHolder
    /\ on_air' = {}

LockNext ==
    \/ \E c \in Holder, channel \in Channel : Acquire(c, channel)
    \/ Release

LockSpec == LockInit /\ [][LockNext]_lockVars
=============================================================================
