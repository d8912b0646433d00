------------------------------ MODULE SdrTuning ------------------------------
(***************************************************************************)
(* Membership of rooms, and who may tune the receiver of an SDR room: the  *)
(* member who has been there the longest.  The order of the joins is kept  *)
(* in a list of its own, whose entries name connections by address; an     *)
(* entry goes when its connection leaves the room, but the close of a      *)
(* connection leaves its entries behind until a query of the owner walks   *)
(* past them.                                                              *)
(***************************************************************************)
EXTENDS Naturals, Sequences, FiniteSets, FiniteSetsExt

CONSTANTS
    Client,         \* addresses of connection records
    Reused,         \* those that the allocator hands out again
    NoClient,
    Room,
    SdrRoom,        \* the rooms with a receiver of their own, "#sdr-..."
    MaxMembers      \* bound: entries in the list

ASSUME SdrAssumption ==
    /\ Reused \subseteq Client
    /\ SdrRoom \subseteq Room
    /\ NoClient \notin Client
    /\ MaxMembers \in Nat

VARIABLES
    fresh,          \* addresses that no connection has had
    connected,
    rooms,          \* cptr->rooms
    sdr_members,    \* the list: [client, room], oldest join first
    earlier,        \* history: <<c, d>>, both members of the SDR room, c joined before d
    tuner           \* history: the member that tuned it last, if still there

sdrVars == <<fresh, connected, rooms, sdr_members, earlier, tuner>>

-----------------------------------------------------------------------------
(* Helpers *)

InRoom(c, r) == connected[c] /\ r \in rooms[c]

Members(r) == {c \in Client : InRoom(c, r)}

Live(member) == InRoom(member.client, member.room)

LiveIn(r) == {i \in DOMAIN sdr_members : sdr_members[i].room = r /\ Live(sdr_members[i])}

\* ws_room_sdr_tuning_owner: the answer, ...
TuningOwner(r) ==
    IF LiveIn(r) = {} THEN NoClient ELSE sdr_members[Min(LiveIn(r))].client

\* The n-th of the places in K, and the list with the entries at those places.
Place(K, n) == CHOOSE i \in K : Cardinality({j \in K : j <= i}) = n

Kept(K) == [n \in 1..Cardinality(K) |-> sdr_members[Place(K, n)]]

\* Does the walk for the owner of r end before place i?
Beyond(i, r) == \E j \in LiveIn(r) : j < i

\* Bug: the walk drops the live members of the other rooms too.
PurgeOthers(r) ==
    Kept({i \in DOMAIN sdr_members : i \in LiveIn(r) \/ Beyond(i, r)})

\* Bug: a walk that finds a live member leaves the dead ones before it.
PurgeNone(r) == sdr_members

\* ... and what the walk leaves of the list.
Purged(r) ==
    Kept({i \in DOMAIN sdr_members : Live(sdr_members[i]) \/ Beyond(i, r)})

\* sdr_member_remove
Without(c, r) ==
    Kept({i \in DOMAIN sdr_members : sdr_members[i] # [client |-> c, room |-> r]})

\* The histories once c has left the rooms of S.
Leaves(c, S) ==
    /\ earlier' = [r \in SdrRoom |->
                     {pair \in earlier[r] : r \in S => c \notin {pair[1], pair[2]}}]
    /\ tuner' = [r \in SdrRoom |->
                   IF tuner[r] = c /\ r \in S THEN NoClient ELSE tuner[r]]

-----------------------------------------------------------------------------
(* Actions *)

Connect(c) ==
    /\ ~connected[c]
    /\ c \in fresh \cup Reused
    /\ fresh' = fresh \ {c}
    /\ connected' = [connected EXCEPT ![c] = TRUE]
    /\ UNCHANGED <<rooms, sdr_members, earlier, tuner>>

\* The record is freed; nothing tells the list.
Disconnect(c) ==
    /\ connected[c]
    /\ connected' = [connected EXCEPT ![c] = FALSE]
    /\ rooms' = [rooms EXCEPT ![c] = {}]
    /\ Leaves(c, SdrRoom)
    /\ UNCHANGED <<fresh, sdr_members>>

\* A join that the application admits; another changes nothing.
Join(c, r) ==
    /\ connected[c]
    /\ r \notin rooms[c]
    /\ rooms' = [rooms EXCEPT ![c] = @ \cup {r}]
    /\ IF r \in SdrRoom
       THEN /\ Len(sdr_members) < MaxMembers
            /\ sdr_members' = Append(sdr_members, [client |-> c, room |-> r])
            /\ earlier' = [earlier EXCEPT ![r] = @ \cup {<<d, c>> : d \in Members(r)}]
       ELSE UNCHANGED <<sdr_members, earlier>>
    /\ UNCHANGED <<fresh, connected, tuner>>

\* Bug: who leaves stays in the list.
PartStaysListed(c, r) ==
    /\ connected[c]
    /\ rooms' = [rooms EXCEPT ![c] = @ \ {r}]
    /\ Leaves(c, {r})
    /\ UNCHANGED <<fresh, connected, sdr_members>>

\* A part of a room that c is not in succeeds too.
Part(c, r) ==
    /\ connected[c]
    /\ rooms' = [rooms EXCEPT ![c] = @ \ {r}]
    /\ sdr_members' = Without(c, r)
    /\ Leaves(c, {r})
    /\ UNCHANGED <<fresh, connected>>

\* A member asks to tune: the list is purged, and the owner may.
Tune(c, r) ==
    /\ InRoom(c, r)
    /\ sdr_members' = Purged(r)
    /\ tuner' = [tuner EXCEPT ![r] = IF TuningOwner(r) = c THEN c ELSE @]
    /\ UNCHANGED <<fresh, connected, rooms, earlier>>

-----------------------------------------------------------------------------
SdrInit ==
    /\ fresh = Client
    /\ connected = [c \in Client |-> FALSE]
    /\ rooms = [c \in Client |-> {}]
    /\ sdr_members = <<>>
    /\ earlier = [r \in SdrRoom |-> {}]
    /\ tuner = [r \in SdrRoom |-> NoClient]

SdrNext ==
    \E c \in Client :
        \/ Connect(c)
        \/ Disconnect(c)
        \/ \E r \in Room : Join(c, r) \/ Part(c, r)
        \/ \E r \in SdrRoom : Tune(c, r)

SdrSpec == SdrInit /\ [][SdrNext]_sdrVars

-----------------------------------------------------------------------------
(* Properties *)

\* A room with members has an owner, who is one of them: stale entries and
\* addresses used again never leave a receiver without somebody to tune it.
OwnerPresent ==
    \A r \in SdrRoom : Members(r) # {} => TuningOwner(r) \in Members(r)

\* The members at addresses no other connection has had keep their order:
\* such an owner joined before the others.
OldestTunes ==
    \A r \in SdrRoom, c \in Client \ Reused :
        c \in Members(r) /\ TuningOwner(r) \in Client \ (Reused \cup {c}) =>
            <<TuningOwner(r), c>> \in earlier[r]

\* A receiver does not change hands under its user: the member that tuned it
\* may go on until it leaves, whoever comes, and whoever comes back at the
\* address of an entry that was left behind.
TunerStays ==
    \A r \in SdrRoom : tuner[r] # NoClient => TuningOwner(r) = tuner[r]
=============================================================================
