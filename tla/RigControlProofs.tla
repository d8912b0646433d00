---------------------------- MODULE RigControlProofs ----------------------------
(***************************************************************************)
(* What the rig commands keep for any clients, rooms, VFOs and lengths of  *)
(* the table: types, receive rooms that set nothing but the frequencies    *)
(* the rig let go of, and the mapping of the first rig's room; and for any *)
(* lists of members who owns the tuning of a receiver.                     *)
(***************************************************************************)
EXTENDS RigControl, FiniteSetTheorems, NaturalsInduction, TLAPS

\* A table of rooms within its length.
IsTable(table) ==
    /\ DOMAIN table \subseteq Room
    /\ IsFiniteSet(DOMAIN table)
    /\ Cardinality(DOMAIN table) <= MAX_ROOMS
    /\ table \in [DOMAIN table -> Entry]

IInv ==
    /\ TypeOK
    /\ IsTable(room_meta)
    /\ IndependentTuning
    /\ DefaultRigMapping

-----------------------------------------------------------------------------
(* The table of rooms *)

\* Setting a mask keeps the table within its length.
LEMMA MappedIsTable ==
  ASSUME NEW table, IsTable(table), NEW r \in Room, NEW mask \in SUBSET Vfo
  PROVE  IsTable(Mapped(table, r, mask))
<1> DEFINE kept == IF r \in DOMAIN table THEN table[r].rx_tuning_mask ELSE {}
           new == [vfo_mask |-> mask, rx_tuning_mask |-> kept]
           written == [x \in DOMAIN table \cup {r} |-> IF x = r THEN new ELSE table[x]]
<1>1. CASE ~Fits(table, r)
  BY <1>1 DEF Mapped
<1>2. CASE Fits(table, r)
  <2>1. Mapped(table, r, mask) = written
    BY <1>2 DEF Mapped
  <2>2. kept \in SUBSET Vfo
    BY DEF IsTable, Entry
  <2>3. new \in Entry
    BY <2>2 DEF Entry
  <2> HIDE DEF new
  <2>4. DOMAIN written = DOMAIN table \cup {r}
    OBVIOUS
  <2>5. written \in [DOMAIN written -> Entry]
    BY <2>3 DEF IsTable
  <2>6. IsFiniteSet(DOMAIN table \cup {r})
    BY FS_AddElement DEF IsTable
  <2>7. Cardinality(DOMAIN table \cup {r}) <= MAX_ROOMS
    <3>1. Cardinality(DOMAIN table) \in Nat /\ MAX_ROOMS \in Nat
      BY FS_CardinalityType, RigAssumption DEF IsTable
    <3>2. Cardinality(DOMAIN table \cup {r})
             = IF r \in DOMAIN table THEN Cardinality(DOMAIN table)
               ELSE Cardinality(DOMAIN table) + 1
      BY FS_AddElement DEF IsTable
    <3> QED
      BY <1>2, <3>1, <3>2 DEF IsTable, Fits
  <2> HIDE DEF written
  <2> QED
    BY <2>1, <2>4, <2>5, <2>6, <2>7 DEF IsTable
<1> QED
  BY <1>1, <1>2

\* So does the assertion of the first rig.
LEMMA AssertedIsTable ==
  ASSUME NEW table, IsTable(table), NEW mask \in SUBSET Vfo
  PROVE  IsTable(Asserted(table, mask))
<1>1. DefaultRig \in Room
  BY RigAssumption
<1> QED
  BY <1>1, MappedIsTable DEF Asserted

\* The room of the first rig, once asserted, has no VFO but the mask's.
LEMMA AssertedMask ==
  ASSUME NEW table, NEW mask, authoritative_room_override = NoRoom
  PROVE  VfoMask(Asserted(table, mask), DefaultRig) \subseteq mask
<1>1. Asserted(table, mask) = Mapped(table, DefaultRig, mask)
  BY DEF Asserted
<1>2. CASE Fits(table, DefaultRig)
  <2>1. /\ DefaultRig \in DOMAIN Mapped(table, DefaultRig, mask)
        /\ Mapped(table, DefaultRig, mask)[DefaultRig].vfo_mask = mask
    BY <1>2 DEF Mapped
  <2> QED
    BY <1>1, <2>1 DEF VfoMask
<1>3. CASE ~Fits(table, DefaultRig)
  BY <1>1, <1>3 DEF Mapped, Fits, VfoMask
<1> QED
  BY <1>2, <1>3

-----------------------------------------------------------------------------
(* Steps *)

\* A step that tells the rig nothing keeps what is said of orders.
LEMMA Silent ==
  ASSUME TypeOK', IsTable(room_meta)', rig_order' = NoOrder
  PROVE  IInv'
<1>1. rig_order'.room = NoRoom
  BY DEF NoOrder
<1>2. NoRoom \notin SubRoom /\ NoRoom # DefaultRig
  BY RigAssumption
<1> QED
  BY <1>1, <1>2 DEF IInv, IndependentTuning, DefaultRigMapping

\* The rooms of the connections stay well typed.
LEMMA RoomsTyped ==
  ASSUME IInv, NEW c \in Client,
         \/ UNCHANGED sdrVars
         \/ Connect(c)
         \/ Disconnect(c)
         \/ \E r \in Room : Join(c, r) \/ Part(c, r)
         \/ \E r \in SdrRoom : Tune(c, r)
  PROVE  rooms' \in [Client -> SUBSET Room]
<1>1. rooms \in [Client -> SUBSET Room]
  BY DEF IInv, TypeOK
<1>2. CASE UNCHANGED sdrVars \/ Connect(c) \/ \E r \in SdrRoom : Tune(c, r)
  BY <1>1, <1>2 DEF sdrVars, Connect, Tune
<1>3. CASE Disconnect(c)
  BY <1>1, <1>3 DEF Disconnect
<1>4. ASSUME NEW r \in Room, Join(c, r) \/ Part(c, r)
      PROVE  rooms' \in [Client -> SUBSET Room]
  BY <1>1, <1>4 DEF Join, Part
<1> QED
  BY <1>2, <1>3, <1>4

\* What a rig message finds is a table.
LEMMA TableTyped ==
  ASSUME IInv
  PROVE  IsTable(Table)
BY AssertedIsTable DEF IInv, TypeOK, Table

\* A command that is carried out: from a receive room it is a frequency of a VFO
\* that was let go of, in the first rig's room a VFO of the authoritative mask.
LEMMA CarryKeeps ==
  ASSUME IInv, NEW c \in Client, NEW cmd, NEW r \in Room, NEW v, Carry(c, cmd, r, v)
  PROVE  IInv'
<1>1. /\ room_meta' = Table
      /\ rig_order' = [cmd |-> cmd, room |-> r, vfo |-> v]
      /\ UNCHANGED <<authoritative_vfo_mask, authoritative_room_override, chatVars,
                     accountVars>>
  BY DEF Carry, Orders
<1>2. IsTable(Table)
  BY TableTyped
<1>3. TypeOK'
  <2>1. rooms' \in [Client -> SUBSET Room]
    BY RoomsTyped DEF Carry, Orders, TunesReceiver
  <2> QED
    BY <1>1, <1>2, <2>1 DEF IInv, TypeOK, IsTable, chatVars, accountVars
<1>4. IndependentTuning'
  <2> SUFFICES ASSUME r \in SubRoom
               PROVE  cmd = "freq" /\ v \in Table[RigOf[r]].rx_tuning_mask
    BY <1>1 DEF IndependentTuning
  <2>1. ~TxControl(Table, r) /\ r \notin SdrRoom
    BY RigAssumption DEF TxControl
  <2>2. cmd = "freq" /\ v \in RxTuningMask(Table, r)
    BY <2>1 DEF Carry, Admitted, ControlAllowed, TunesReceiver
  <2> QED
    BY <2>2 DEF RxTuningMask, BaseOf
<1>5. DefaultRigMapping'
  <2> SUFFICES ASSUME r = DefaultRig, authoritative_room_override = NoRoom
               PROVE  v \in authoritative_vfo_mask
    BY <1>1 DEF DefaultRigMapping
  <2>1. v \in VfoMask(Table, DefaultRig)
    BY DEF Carry, Admitted
  <2> QED
    BY <2>1, AssertedMask DEF Table
<1> QED
  BY <1>1, <1>2, <1>3, <1>4, <1>5 DEF IInv

\* The power, the frequency, the width and the mode.
LEMMA TxCommandKeeps ==
  ASSUME IInv, NEW c \in Client, NEW r \in Room, NEW v, TxCommand(c, r, v)
  PROVE  IInv'
BY CarryKeeps DEF TxCommand, Power, Frequency, Width, Mode

\* !vfo: the rig hears of it only from its control room.
LEMMA SelectKeeps ==
  ASSUME IInv, NEW c \in Client, NEW r \in Room, NEW v \in Vfo, SelectVfo(c, r, v)
  PROVE  IInv'
<1>1. TypeOK' /\ IsTable(room_meta)'
  BY DEF IInv, TypeOK, SelectVfo, IsTable, sdrVars, tableVars, accountVars
<1>2. CASE ControlAllowed(room_meta, c, r, FALSE)
  <2>1. rig_order' = [cmd |-> "select", room |-> r, vfo |-> v]
    BY <1>2 DEF SelectVfo
  <2>2. r \notin SubRoom
    BY <1>2, RigAssumption DEF ControlAllowed, TxControl
  <2> QED
    BY <1>1, <2>1, <2>2 DEF IInv, IndependentTuning, DefaultRigMapping
<1>3. CASE ~ControlAllowed(room_meta, c, r, FALSE)
  BY <1>1, <1>3, Silent DEF SelectVfo
<1> QED
  BY <1>2, <1>3

\* What the application writes.
LEMMA ApplicationKeeps ==
  ASSUME IInv, Application
  PROVE  IInv'
<1>1. rig_order' = NoOrder /\ UNCHANGED <<sdrVars, chatVars, accountVars>>
  BY DEF Application, SetVfoMask, SetRxTuningMask, SetAuthoritativeVfoMask,
         SetAuthoritativeRoom
<1> DEFINE Written ==
             /\ IsTable(room_meta)'
             /\ authoritative_vfo_mask' \in SUBSET Vfo
             /\ authoritative_room_override' \in Room \cup {NoRoom}
<1>2. Written
  <2>1. ASSUME NEW r \in Room, NEW mask \in VfoMasks, SetVfoMask(r, mask)
        PROVE  Written
    <3>1. IsTable(Mapped(room_meta, r, mask))
      BY MappedIsTable, RigAssumption DEF IInv
    <3> QED
      BY <2>1, <3>1 DEF SetVfoMask, IInv, TypeOK
  <2>2. ASSUME NEW r \in Room, NEW mask \in VfoMasks, SetRxTuningMask(r, mask)
        PROVE  Written
    <3> DEFINE new == [room_meta[r] EXCEPT !.rx_tuning_mask = mask]
    <3>1. r \in DOMAIN room_meta /\ mask \in SUBSET Vfo
      BY <2>2, RigAssumption DEF SetRxTuningMask, TxControl
    <3>2. new \in Entry
      BY <3>1 DEF IInv, IsTable, Entry
    <3>3. room_meta' = [room_meta EXCEPT ![r] = new]
      BY <2>2 DEF SetRxTuningMask
    <3> HIDE DEF new
    <3>4. /\ DOMAIN room_meta' = DOMAIN room_meta
          /\ room_meta' \in [DOMAIN room_meta -> Entry]
      BY <3>1, <3>2, <3>3 DEF IInv, IsTable
    <3>5. IsTable(room_meta)'
      BY <3>4 DEF IInv, IsTable
    <3> QED
      BY <2>2, <3>5 DEF SetRxTuningMask, IInv, TypeOK
  <2>3. ASSUME NEW mask \in VfoMasks, SetAuthoritativeVfoMask(mask)
        PROVE  Written
    <3> DEFINE room == IF authoritative_room_override = NoRoom
                       THEN DefaultRig ELSE authoritative_room_override
    <3>1. room \in Room /\ mask \in SUBSET Vfo
      BY RigAssumption DEF IInv, TypeOK
    <3>2. IsTable(Asserted(room_meta, mask))
      BY <3>1, AssertedIsTable DEF IInv
    <3>3. IsTable(Mapped(Asserted(room_meta, mask), room, mask))
      BY <3>1, <3>2, MappedIsTable
    <3> QED
      BY <2>3, <3>1, <3>3 DEF SetAuthoritativeVfoMask, IInv, TypeOK
  <2>4. ASSUME NEW r \in Overrides, SetAuthoritativeRoom(r)
        PROVE  Written
    BY <2>4, RigAssumption DEF SetAuthoritativeRoom, IInv, TypeOK, IsTable
  <2> QED
    BY <2>1, <2>2, <2>3, <2>4 DEF Application
<1>3. TypeOK'
  BY <1>1, <1>2 DEF IInv, TypeOK, IsTable, sdrVars, chatVars, accountVars
<1> QED
  BY <1>1, <1>2, <1>3, Silent

\* Members come and go, and are muted, authorized and on the air or not.
LEMMA MembersKeep ==
  ASSUME IInv, NEW c \in Client,
         \/ Arrive(c) \/ Leave(c) \/ AccountsChange(c)
         \/ \E r \in Room : JoinRoom(c, r) \/ PartRoom(c, r)
  PROVE  IInv'
<1>1. rig_order' = NoOrder /\ UNCHANGED tableVars
  BY DEF Arrive, Leave, AccountsChange, JoinRoom, PartRoom
<1>2. rooms' \in [Client -> SUBSET Room]
  BY RoomsTyped DEF Arrive, Leave, AccountsChange, JoinRoom, PartRoom
<1>3. /\ chat_vfo' \in [Client -> Vfo \cup {NoVfo}]
      /\ chat_vfo_room' \in [Client -> Room \cup {NoRoom}]
  BY DEF IInv, TypeOK, Arrive, Leave, AccountsChange, JoinRoom, PartRoom, chatVars
<1>4. /\ tx_authority' \in [Client -> BOOLEAN]
      /\ is_muted' \in [Client -> BOOLEAN]
      /\ is_ptt' \in [Client -> BOOLEAN]
  <2>1. /\ tx_authority \in [Client -> BOOLEAN]
        /\ is_muted \in [Client -> BOOLEAN]
        /\ is_ptt \in [Client -> BOOLEAN]
    BY DEF IInv, TypeOK, accountVars
  <2> QED
    BY <2>1 DEF Arrive, Leave, AccountsChange, JoinRoom, PartRoom, accountVars
<1>5. TypeOK' /\ IsTable(room_meta)'
  BY <1>1, <1>2, <1>3, <1>4 DEF IInv, TypeOK, IsTable, tableVars, accountVars
<1> QED
  BY <1>1, <1>5, Silent

\* A message that is refused asserts the first rig all the same.
LEMMA RefusedKeeps ==
  ASSUME IInv, NEW c \in Client, Refused(c)
  PROVE  IInv'
<1>1. IsTable(room_meta)'
  BY TableTyped DEF Refused
<1>2. rooms' \in [Client -> SUBSET Room]
  BY RoomsTyped DEF Refused
<1>3. TypeOK'
  BY <1>1, <1>2 DEF Refused, IInv, TypeOK, IsTable, chatVars, accountVars
<1> QED
  BY <1>1, <1>3, Silent DEF Refused

-----------------------------------------------------------------------------
(* The invariant *)

\* It holds of the empty table,
LEMMA InitKeeps == Init => IInv
<1> SUFFICES ASSUME Init PROVE IInv
  OBVIOUS
<1>1. DOMAIN room_meta = {}
  BY DEF Init
<1>2. IsTable(room_meta)
  BY <1>1, FS_EmptySet, RigAssumption DEF Init, IsTable
<1>3. TypeOK
  BY <1>1, <1>2, RigAssumption DEF Init, SdrInit, TypeOK, IsTable, accountVars
<1>4. rig_order.room = NoRoom /\ NoRoom \notin SubRoom /\ NoRoom # DefaultRig
  BY RigAssumption DEF Init, NoOrder
<1> QED
  BY <1>2, <1>3, <1>4 DEF IInv, IndependentTuning, DefaultRigMapping

\* every step keeps it,
LEMMA NextKeeps == IInv /\ [Next]_vars => IInv'
<1> SUFFICES ASSUME IInv, [Next]_vars PROVE IInv'
  OBVIOUS
<1>1. CASE Application
  BY <1>1, ApplicationKeeps
<1>2. ASSUME NEW c \in Client, Arrive(c) \/ Leave(c) \/ AccountsChange(c)
      PROVE  IInv'
  BY <1>2, MembersKeep
<1>3. ASSUME NEW c \in Client, Message(c)
      PROVE  IInv'
  <2>1. ASSUME NEW r \in Room, JoinRoom(c, r) \/ PartRoom(c, r) PROVE IInv'
    BY <2>1, MembersKeep
  <2>2. ASSUME NEW r \in Room, NEW v \in Vfo,
               TxCommand(c, r, v) \/ Swap(c, r, v) \/ Split(c, r, v)
        PROVE  IInv'
    BY <2>2, TxCommandKeeps, CarryKeeps DEF Swap, Split
  <2>3. ASSUME NEW r \in Room, NEW v \in Vfo, SelectVfo(c, r, v) PROVE IInv'
    BY <2>3, SelectKeeps
  <2>4. ASSUME NEW r \in Room, TypedCommand(c, r) PROVE IInv'
    BY <2>4, TxCommandKeeps DEF TypedCommand
  <2> QED
    BY <1>3, <2>1, <2>2, <2>3, <2>4, RefusedKeeps DEF Message
<1>4. CASE UNCHANGED vars
  BY <1>4 DEF vars, sdrVars, tableVars, chatVars, accountVars, IInv, TypeOK, IsTable,
     IndependentTuning, DefaultRigMapping
<1> QED
  BY <1>1, <1>2, <1>3, <1>4 DEF Next

\* so it holds throughout.
LEMMA Invariance == Spec => []IInv
  BY InitKeeps, NextKeeps, PTL DEF Spec

-----------------------------------------------------------------------------
(* Who tunes a receiver *)

\* A set of numbers has a least one.
LEMMA LeastNumber ==
  ASSUME NEW S \in SUBSET Nat, S # {}
  PROVE  Min(S) \in S /\ \A y \in S : Min(S) <= y
<1> DEFINE Less == {p \in Nat \X Nat : p[1] < p[2]}
<1>1. IsWellFoundedOn(Less, Nat)
  <2>1. Less = OpToRel(<, Nat)
    BY DEF OpToRel
  <2> QED
    BY <2>1, NatLessThanWellFounded
<1>2. \E x \in S : \A y \in S : ~(<<y, x>> \in Less)
  <2> HIDE DEF Less
  <2> QED
    BY <1>1, WFMin
<1>3. PICK x \in S : \A y \in S : ~(<<y, x>> \in Less)
  BY <1>2
<1>4. ASSUME NEW y \in S
      PROVE  x <= y
  <2>1. x \in Nat /\ y \in Nat
    OBVIOUS
  <2>2. ~(y < x)
    BY <1>3, <2>1
  <2> QED
    BY <2>1, <2>2
<1> QED
  BY <1>4 DEF Min

\* The places of a finite set of numbers are its elements, in order.
LEMMA PlacesInOrder ==
  ASSUME NEW K \in SUBSET Nat, IsFiniteSet(K)
  PROVE  /\ Cardinality(K) \in Nat
         /\ \A n \in 1..Cardinality(K) : Place(K, n) \in K
         /\ \A m, n \in 1..Cardinality(K) : m < n => Place(K, m) < Place(K, n)
         /\ \A i \in K : \E n \in 1..Cardinality(K) : Place(K, n) = i
<1> DEFINE Below(i) == {j \in K : j <= i}
           rank == [i \in K |-> Cardinality(Below(i))]
           N == 1..Cardinality(K)
<1>1. Cardinality(K) \in Nat
  BY FS_CardinalityType
<1>2. \A i \in K : IsFiniteSet(Below(i)) /\ Cardinality(Below(i)) \in Nat
  BY FS_Subset, FS_CardinalityType
<1>3. \A i \in K : rank[i] \in N
  <2> SUFFICES ASSUME NEW i \in K
               PROVE  Cardinality(Below(i)) \in N
    OBVIOUS
  <2>1. Cardinality(Below(i)) <= Cardinality(K)
    BY FS_Subset
  <2>2. Cardinality(Below(i)) # 0
    <3>1. i \in Below(i)
      OBVIOUS
    <3> HIDE DEF Below
    <3> QED
      BY <1>2, <3>1, FS_EmptySet
  <2> HIDE DEF Below
  <2> QED
    BY <1>1, <1>2, <2>1, <2>2
<1>4. \A i, j \in K : i < j => rank[i] < rank[j]
  <2> SUFFICES ASSUME NEW i \in K, NEW j \in K, i < j
               PROVE  Cardinality(Below(i)) < Cardinality(Below(j))
    OBVIOUS
  <2>1. Below(i) \in SUBSET Below(j) /\ Below(i) # Below(j)
    <3>1. j \in Below(j) /\ j \notin Below(i)
      OBVIOUS
    <3>2. i \in Nat /\ j \in Nat /\ \A x \in K : x \in Nat
      OBVIOUS
    <3>3. \A x \in K : x <= i => x <= j
      BY <3>2
    <3>4. Below(i) \subseteq Below(j)
      BY <3>3
    <3> QED
      BY <3>1, <3>4
  <2>2. IsFiniteSet(Below(j)) /\ Cardinality(Below(i)) \in Nat /\ Cardinality(Below(j)) \in Nat
    BY <1>2
  <2> HIDE DEF Below
  <2>3. Cardinality(Below(i)) <= Cardinality(Below(j))
    BY <2>1, <2>2, FS_Subset
  <2>4. Cardinality(Below(i)) # Cardinality(Below(j))
    BY <2>1, <2>2, FS_Subset
  <2> QED
    BY <2>2, <2>3, <2>4
<1>5. IsFiniteSet(N) /\ Cardinality(N) = Cardinality(K)
  <2>1. 0 \in Int /\ 1 \in Int /\ Cardinality(K) \in Int
    BY <1>1
  <2>2. Cardinality(N) = IF 1 > Cardinality(K) THEN 0 ELSE Cardinality(K) - 1 + 1
    BY <2>1, FS_Interval
  <2> QED
    BY <1>1, <2>1, <2>2, FS_Interval
<1>6. rank \in Injection(K, N)
  <2>1. rank \in [K -> N]
    BY <1>3
  <2>2. \A i, j \in K : rank[i] = rank[j] => i = j
    <3> SUFFICES ASSUME NEW i \in K, NEW j \in K, i # j
                 PROVE  rank[i] # rank[j]
      OBVIOUS
    <3>1. i < j \/ j < i
      OBVIOUS
    <3>2. rank[i] \in Nat /\ rank[j] \in Nat
      BY <1>2
    <3> HIDE DEF rank
    <3> QED
      BY <1>4, <3>1, <3>2
  <2> HIDE DEF rank
  <2> QED
    BY <2>1, <2>2 DEF Injection, IsInjective
<1>7. \A n \in N : \E i \in K : rank[i] = n
  <2> HIDE DEF rank, N
  <2>1. rank \in Surjection(K, N)
    BY <1>5, <1>6, FS_Injection
  <2> QED
    BY <2>1 DEF Surjection
<1>8. \A n \in N : Place(K, n) \in K /\ rank[Place(K, n)] = n
  <2> SUFFICES ASSUME NEW n \in N
               PROVE  Place(K, n) \in K /\ rank[Place(K, n)] = n
    OBVIOUS
  <2>1. \E i \in K : Cardinality({j \in K : j <= i}) = n
    BY <1>7
  <2>2. Place(K, n) \in K /\ Cardinality({j \in K : j <= Place(K, n)}) = n
    BY <2>1 DEF Place
  <2> QED
    BY <2>2
<1>9. ASSUME NEW m \in N, NEW n \in N, m < n
      PROVE  Place(K, m) < Place(K, n)
  <2>1. /\ Place(K, m) \in K /\ rank[Place(K, m)] = m
        /\ Place(K, n) \in K /\ rank[Place(K, n)] = n
    BY <1>8
  <2>2. m \in Int /\ n \in Int
    BY <1>1
  <2> HIDE DEF rank, N
  <2>3. CASE Place(K, n) < Place(K, m)
    <3>1. n < m
      BY <1>4, <2>1, <2>3
    <3> QED
      BY <1>9, <2>2, <3>1
  <2>4. CASE Place(K, n) = Place(K, m)
    BY <1>9, <2>1, <2>2, <2>4
  <2>5. Place(K, m) \in Nat /\ Place(K, n) \in Nat
    BY <2>1
  <2> QED
    BY <2>3, <2>4, <2>5
<1>10. ASSUME NEW i \in K
       PROVE  \E n \in N : Place(K, n) = i
  <2>1. rank[i] \in N /\ Place(K, rank[i]) \in K /\ rank[Place(K, rank[i])] = rank[i]
    BY <1>3, <1>8
  <2> HIDE DEF rank, N
  <2>2. Place(K, rank[i]) = i
    BY <1>6, <2>1 DEF Injection, IsInjective
  <2> QED
    BY <2>1, <2>2
<1> HIDE DEF rank
<1> QED
  BY <1>1, <1>8, <1>9, <1>10

-----------------------------------------------------------------------------
(* The list of an SDR room's members *)

Member == [client : Client, room : SdrRoom]

\* Entries of members, in the order of the joins where the addresses are new.
SdrTypes ==
    /\ fresh \subseteq Client
    /\ connected \in [Client -> BOOLEAN]
    /\ rooms \in [Client -> SUBSET Room]
    /\ sdr_members \in Seq(Member)
    /\ DOMAIN earlier = SdrRoom
    /\ DOMAIN tuner = SdrRoom

\* A connection that is gone is in no room, and one still to come has no entry.
NoneUnconnected ==
    /\ \A c \in Client : ~connected[c] => rooms[c] = {}
    /\ \A c \in fresh :
          ~connected[c] /\ \A i \in DOMAIN sdr_members : sdr_members[i].client # c

\* Every member has an entry, ...
MembersListed ==
    \A r \in SdrRoom : \A c \in Members(r) :
        \E i \in DOMAIN sdr_members : sdr_members[i] = [client |-> c, room |-> r]

\* ... and the entry of a connection at a new address is a member's.
NewListed ==
    \A i \in DOMAIN sdr_members :
        LET c == sdr_members[i].client
        IN  c \notin Reused /\ connected[c] => sdr_members[i].room \in rooms[c]

\* Members at new addresses are listed in the order in which they joined.
ListedInOrder ==
    \A i, j \in DOMAIN sdr_members :
        (/\ i < j
         /\ sdr_members[i].room = sdr_members[j].room
         /\ Live(sdr_members[i]) /\ sdr_members[i].client \notin Reused
         /\ Live(sdr_members[j]) /\ sdr_members[j].client \notin Reused)
            => <<sdr_members[i].client, sdr_members[j].client>> \in earlier[sdr_members[i].room]

\* Before the entry of a member that tuned a receiver no other of the room is left,
\* so that nobody who comes back at its address gets in front.
TunerFirst ==
    \A r \in SdrRoom : tuner[r] # NoClient =>
        /\ tuner[r] \in Members(r)
        /\ \E i \in DOMAIN sdr_members :
              /\ sdr_members[i] = [client |-> tuner[r], room |-> r]
              /\ \A j \in DOMAIN sdr_members : j < i => sdr_members[j].room # r

SdrInv ==
    /\ SdrTypes
    /\ NoneUnconnected
    /\ MembersListed
    /\ NewListed
    /\ ListedInOrder
    /\ TunerFirst

\* The new list is that of the entries at the places in K, in their order.
Thins(K) ==
    \E e \in [DOMAIN sdr_members' -> K] :
        /\ \A n \in DOMAIN sdr_members' : sdr_members'[n] = sdr_members[e[n]]
        /\ \A m, n \in DOMAIN sdr_members' : m < n => e[m] < e[n]
        /\ \A i \in K : \E n \in DOMAIN sdr_members' : e[n] = i

\* Keeping the entries at some places does that, ...
LEMMA KeptThins ==
  ASSUME SdrTypes, NEW K \in SUBSET DOMAIN sdr_members, sdr_members' = Kept(K)
  PROVE  sdr_members' \in Seq(Member) /\ Thins(K)
<1> DEFINE e == [n \in 1..Cardinality(K) |-> Place(K, n)]
<1>1. /\ Len(sdr_members) \in Nat
      /\ DOMAIN sdr_members = 1..Len(sdr_members)
      /\ \A i \in DOMAIN sdr_members : sdr_members[i] \in Member
  BY DEF SdrTypes
<1>2. IsFiniteSet(K) /\ K \in SUBSET Nat
  <2>1. IsFiniteSet(1..Len(sdr_members))
    BY <1>1, FS_Interval
  <2> QED
    BY <1>1, <2>1, FS_Subset
<1>3. /\ Cardinality(K) \in Nat
      /\ \A n \in 1..Cardinality(K) : Place(K, n) \in K
      /\ \A m, n \in 1..Cardinality(K) : m < n => Place(K, m) < Place(K, n)
      /\ \A i \in K : \E n \in 1..Cardinality(K) : Place(K, n) = i
  BY <1>2, PlacesInOrder
<1>4. /\ DOMAIN sdr_members' = 1..Cardinality(K)
      /\ \A n \in 1..Cardinality(K) : sdr_members'[n] = sdr_members[Place(K, n)]
      /\ sdr_members' = [n \in 1..Cardinality(K) |-> sdr_members[Place(K, n)]]
  BY DEF Kept
<1>5. sdr_members' \in Seq(Member)
  <2>1. \A n \in 1..Cardinality(K) : sdr_members[Place(K, n)] \in Member
    BY <1>1, <1>3
  <2>2. sdr_members' \in [1..Cardinality(K) -> Member]
    BY <1>4, <2>1
  <2> QED
    BY <1>3, <2>2
<1>6. e \in [DOMAIN sdr_members' -> K]
  BY <1>3, <1>4
<1>7. /\ \A n \in DOMAIN sdr_members' : sdr_members'[n] = sdr_members[e[n]]
      /\ \A m, n \in DOMAIN sdr_members' : m < n => e[m] < e[n]
      /\ \A i \in K : \E n \in DOMAIN sdr_members' : e[n] = i
  BY <1>3, <1>4
<1> HIDE DEF e
<1> QED
  BY <1>5, <1>6, <1>7 DEF Thins

\* ... and so does leaving the list as it is.
LEMMA SameThins ==
  ASSUME sdr_members' = sdr_members
  PROVE  Thins(DOMAIN sdr_members)
<1> DEFINE e == [n \in DOMAIN sdr_members |-> n]
<1>1. /\ e \in [DOMAIN sdr_members' -> DOMAIN sdr_members]
      /\ \A n \in DOMAIN sdr_members' : sdr_members'[n] = sdr_members[e[n]]
      /\ \A m, n \in DOMAIN sdr_members' : m < n => e[m] < e[n]
      /\ \A i \in DOMAIN sdr_members : \E n \in DOMAIN sdr_members' : e[n] = i
  OBVIOUS
<1> HIDE DEF e
<1> QED
  BY <1>1 DEF Thins

\* A step that brings nobody into an SDR room and drops no member's entry keeps
\* the invariant, if who may have tuned keeps the first entry of the room.
LEMMA ThinningKeeps ==
  ASSUME SdrInv, SdrTypes', NoneUnconnected', NEW K \in SUBSET DOMAIN sdr_members, Thins(K),
         \A r \in SdrRoom : \A c \in Client : InRoom(c, r)' => InRoom(c, r),
         \A i \in DOMAIN sdr_members \ K : \A c \in Client, r \in SdrRoom :
            sdr_members[i] = [client |-> c, room |-> r] => ~InRoom(c, r)',
         \A r \in SdrRoom : \A c, d \in Client :
            InRoom(c, r)' /\ InRoom(d, r)' /\ <<c, d>> \in earlier[r] => <<c, d>> \in earlier'[r],
         \A i \in K : \A c \in Client \ Reused, r \in SdrRoom :
            sdr_members[i] = [client |-> c, room |-> r] /\ connected'[c] =>
                connected[c] /\ (r \in rooms[c] => r \in rooms'[c]),
         \A r \in SdrRoom : tuner'[r] # NoClient =>
            /\ tuner'[r] \in Members(r)'
            /\ \E i \in DOMAIN sdr_members :
                  /\ sdr_members[i] = [client |-> tuner'[r], room |-> r]
                  /\ \A j \in K : j < i => sdr_members[j].room # r
  PROVE  SdrInv'
<1>1. /\ Len(sdr_members) \in Nat
      /\ DOMAIN sdr_members = 1..Len(sdr_members)
      /\ \A i \in DOMAIN sdr_members : sdr_members[i] \in Member
  BY DEF SdrInv, SdrTypes
<1>2. PICK e \in [DOMAIN sdr_members' -> K] :
        /\ \A n \in DOMAIN sdr_members' : sdr_members'[n] = sdr_members[e[n]]
        /\ \A m, n \in DOMAIN sdr_members' : m < n => e[m] < e[n]
        /\ \A i \in K : \E n \in DOMAIN sdr_members' : e[n] = i
  BY DEF Thins
<1>3. /\ Len(sdr_members') \in Nat
      /\ DOMAIN sdr_members' = 1..Len(sdr_members')
      /\ \A n \in DOMAIN sdr_members' : sdr_members'[n] \in Member
  BY DEF SdrTypes
<1>4. MembersListed'
  <2> SUFFICES ASSUME NEW r \in SdrRoom, NEW c \in Members(r)'
               PROVE  \E n \in DOMAIN sdr_members' :
                        sdr_members'[n] = [client |-> c, room |-> r]
    BY DEF MembersListed
  <2>1. c \in Client /\ InRoom(c, r)' /\ c \in Members(r)
    BY DEF Members
  <2>2. PICK i \in DOMAIN sdr_members : sdr_members[i] = [client |-> c, room |-> r]
    BY <2>1 DEF SdrInv, MembersListed
  <2>3. i \in K
    BY <2>1, <2>2
  <2>4. PICK n \in DOMAIN sdr_members' : e[n] = i
    BY <1>2, <2>3
  <2> QED
    BY <1>2, <2>2, <2>4
<1>5. NewListed'
  <2> SUFFICES ASSUME NEW n \in DOMAIN sdr_members',
                      sdr_members'[n].client \notin Reused, connected'[sdr_members'[n].client]
               PROVE  sdr_members'[n].room \in rooms'[sdr_members'[n].client]
    BY DEF NewListed
  <2>1. e[n] \in K /\ sdr_members'[n] = sdr_members[e[n]] /\ sdr_members'[n] \in Member
    BY <1>2, <1>3
  <2>2. PICK c \in Client, r \in SdrRoom : sdr_members[e[n]] = [client |-> c, room |-> r]
    BY <2>1 DEF Member
  <2>3. connected[c] /\ (r \in rooms[c] => r \in rooms'[c])
    BY <2>1, <2>2
  <2>4. r \in rooms[c]
    BY <2>1, <2>2, <2>3 DEF SdrInv, NewListed
  <2> QED
    BY <2>1, <2>2, <2>3, <2>4
<1>6. ListedInOrder'
  <2> SUFFICES ASSUME NEW m \in DOMAIN sdr_members', NEW n \in DOMAIN sdr_members', m < n,
                      sdr_members'[m].room = sdr_members'[n].room,
                      Live(sdr_members[m])', sdr_members'[m].client \notin Reused,
                      Live(sdr_members[n])', sdr_members'[n].client \notin Reused
               PROVE  <<sdr_members'[m].client, sdr_members'[n].client>>
                         \in earlier'[sdr_members'[m].room]
    BY DEF ListedInOrder
  <2>1. /\ e[m] \in K /\ sdr_members'[m] = sdr_members[e[m]] /\ sdr_members'[m] \in Member
        /\ e[n] \in K /\ sdr_members'[n] = sdr_members[e[n]] /\ sdr_members'[n] \in Member
        /\ e[m] < e[n]
    BY <1>2, <1>3
  <2>2. PICK c \in Client, r \in SdrRoom : sdr_members[e[m]] = [client |-> c, room |-> r]
    BY <2>1 DEF Member
  <2>3. PICK d \in Client : sdr_members[e[n]] = [client |-> d, room |-> r]
    BY <2>1, <2>2 DEF Member
  <2>4. InRoom(c, r)' /\ InRoom(d, r)'
    BY <2>1, <2>2, <2>3 DEF Live, InRoom
  <2>5. Live(sdr_members[e[m]]) /\ Live(sdr_members[e[n]])
    BY <2>2, <2>3, <2>4 DEF Live
  <2>6. <<c, d>> \in earlier[r]
    BY <2>1, <2>2, <2>3, <2>5 DEF SdrInv, ListedInOrder
  <2> QED
    BY <2>1, <2>2, <2>3, <2>4, <2>6
<1>7. TunerFirst'
  <2> SUFFICES ASSUME NEW r \in SdrRoom, tuner'[r] # NoClient
               PROVE  /\ tuner'[r] \in Members(r)'
                      /\ \E n \in DOMAIN sdr_members' :
                            /\ sdr_members'[n] = [client |-> tuner'[r], room |-> r]
                            /\ \A m \in DOMAIN sdr_members' : m < n => sdr_members'[m].room # r
    BY DEF TunerFirst
  <2>1. PICK i \in DOMAIN sdr_members :
          /\ sdr_members[i] = [client |-> tuner'[r], room |-> r]
          /\ \A j \in K : j < i => sdr_members[j].room # r
    OBVIOUS
  <2>2. tuner'[r] \in Members(r)'
    OBVIOUS
  <2>3. i \in K
    BY <2>1, <2>2 DEF Members
  <2>4. PICK n \in DOMAIN sdr_members' : e[n] = i
    BY <1>2, <2>3
  <2>5. \A m \in DOMAIN sdr_members' : m < n => sdr_members'[m].room # r
    BY <1>2, <2>1, <2>4
  <2> QED
    BY <1>2, <2>1, <2>2, <2>4, <2>5
<1> QED
  BY <1>4, <1>5, <1>6, <1>7 DEF SdrInv

\* The owner is the client of the first live entry of the room.
LEMMA OwnerFirst ==
  ASSUME SdrTypes, NEW r \in SdrRoom
  PROVE  \/ LiveIn(r) = {} /\ TuningOwner(r) = NoClient
         \/ \E i \in LiveIn(r) :
               /\ sdr_members[i] = [client |-> TuningOwner(r), room |-> r]
               /\ TuningOwner(r) \in Members(r)
               /\ \A j \in LiveIn(r) : i <= j
<1>1. CASE LiveIn(r) = {}
  BY <1>1 DEF TuningOwner
<1>2. CASE LiveIn(r) # {}
  <2>1. LiveIn(r) \in SUBSET Nat
    BY DEF LiveIn, SdrTypes
  <2>2. Min(LiveIn(r)) \in LiveIn(r) /\ \A j \in LiveIn(r) : Min(LiveIn(r)) <= j
    BY <1>2, <2>1, LeastNumber
  <2>3. PICK i \in LiveIn(r) : i = Min(LiveIn(r))
    BY <2>2
  <2>4. TuningOwner(r) = sdr_members[i].client
    BY <1>2, <2>3 DEF TuningOwner
  <2>5. sdr_members[i] \in Member /\ sdr_members[i].room = r /\ Live(sdr_members[i])
    BY DEF LiveIn, SdrTypes
  <2>6. sdr_members[i] = [client |-> TuningOwner(r), room |-> r]
    BY <2>4, <2>5 DEF Member
  <2>7. TuningOwner(r) \in Members(r)
    BY <2>4, <2>5 DEF Live, Members, Member
  <2> QED
    BY <2>2, <2>3, <2>6, <2>7
<1> QED
  BY <1>1, <1>2

\* A join of an SDR room: an entry of the newcomer alone is added.
LEMMA JoinReceiver ==
  ASSUME SdrInv, NEW c \in Client, NEW r \in SdrRoom, Join(c, r)
  PROVE  SdrInv'
<1> DEFINE new == [client |-> c, room |-> r]
           last == Len(sdr_members) + 1
<1>1. /\ Len(sdr_members) \in Nat
      /\ DOMAIN sdr_members = 1..Len(sdr_members)
      /\ sdr_members \in Seq(Member)
      /\ \A i \in DOMAIN sdr_members : sdr_members[i] \in Member
      /\ r \in Room
  BY SdrAssumption DEF SdrInv, SdrTypes
<1>2. /\ connected[c] /\ r \notin rooms[c]
      /\ rooms' = [rooms EXCEPT ![c] = @ \cup {r}]
      /\ sdr_members' = Append(sdr_members, new)
      /\ earlier' = [earlier EXCEPT ![r] = @ \cup {<<d, c>> : d \in Members(r)}]
      /\ UNCHANGED <<fresh, connected, tuner>>
  BY DEF Join
<1>3. /\ new \in Member
      /\ sdr_members' \in Seq(Member)
      /\ DOMAIN sdr_members' = 1..last
      /\ sdr_members'[last] = new
      /\ \A i \in DOMAIN sdr_members :
            i \in DOMAIN sdr_members' /\ i # last /\ sdr_members'[i] = sdr_members[i]
      /\ \A i \in DOMAIN sdr_members' : i = last \/ i \in DOMAIN sdr_members
  BY <1>1, <1>2 DEF Member
<1> HIDE DEF new, last
<1>4. SdrTypes'
  BY <1>1, <1>2, <1>3 DEF SdrInv, SdrTypes
<1>5. NoneUnconnected'
  <2>1. ~(c \in fresh)
    BY <1>2 DEF SdrInv, NoneUnconnected
  <2>2. \A i \in DOMAIN sdr_members' : sdr_members'[i].client = sdr_members[i].client \/ i = last
    BY <1>3
  <2>3. sdr_members'[last].client = c
    BY <1>3 DEF new
  <2>4. \A d \in Client : ~connected'[d] => rooms'[d] = {}
    BY <1>2 DEF SdrInv, NoneUnconnected, SdrTypes
  <2>5. ASSUME NEW d \in fresh'
        PROVE  ~connected'[d] /\ \A i \in DOMAIN sdr_members' : sdr_members'[i].client # d
    BY <1>2, <1>3, <2>1, <2>2, <2>3, <2>5 DEF SdrInv, NoneUnconnected
  <2> QED
    BY <2>4, <2>5 DEF NoneUnconnected
<1>6. \A q \in SdrRoom, d \in Client : InRoom(d, q)' <=> InRoom(d, q) \/ (d = c /\ q = r)
  BY <1>2 DEF SdrInv, SdrTypes, InRoom
<1>7. MembersListed'
  <2> SUFFICES ASSUME NEW q \in SdrRoom, NEW d \in Members(q)'
               PROVE  \E i \in DOMAIN sdr_members' :
                        sdr_members'[i] = [client |-> d, room |-> q]
    BY DEF MembersListed
  <2>1. d \in Client /\ InRoom(d, q)'
    BY DEF Members
  <2>2. CASE d = c /\ q = r
    BY <1>1, <1>3, <2>2 DEF new, last
  <2>3. CASE InRoom(d, q)
    <3>1. PICK i \in DOMAIN sdr_members : sdr_members[i] = [client |-> d, room |-> q]
      BY <2>1, <2>3 DEF SdrInv, MembersListed, Members
    <3> QED
      BY <1>3, <3>1
  <2> QED
    BY <1>6, <2>1, <2>2, <2>3
<1>8. NewListed'
  <2> SUFFICES ASSUME NEW i \in DOMAIN sdr_members',
                      sdr_members'[i].client \notin Reused, connected'[sdr_members'[i].client]
               PROVE  sdr_members'[i].room \in rooms'[sdr_members'[i].client]
    BY DEF NewListed
  <2>1. CASE i = last
    BY <1>2, <1>3, <2>1 DEF new, SdrInv, SdrTypes
  <2>2. CASE i \in DOMAIN sdr_members
    <3>1. sdr_members[i].room \in rooms[sdr_members[i].client] /\ sdr_members[i] \in Member
      BY <1>1, <1>2, <1>3, <2>2 DEF SdrInv, NewListed
    <3> QED
      BY <1>2, <1>3, <2>2, <3>1 DEF SdrInv, SdrTypes, Member
  <2> QED
    BY <1>3, <2>1, <2>2
<1>9. ListedInOrder'
  <2> SUFFICES ASSUME NEW i \in DOMAIN sdr_members', NEW j \in DOMAIN sdr_members', i < j,
                      sdr_members'[i].room = sdr_members'[j].room,
                      Live(sdr_members[i])', sdr_members'[i].client \notin Reused,
                      Live(sdr_members[j])', sdr_members'[j].client \notin Reused
               PROVE  <<sdr_members'[i].client, sdr_members'[j].client>>
                         \in earlier'[sdr_members'[i].room]
    BY DEF ListedInOrder
  <2>1. i \in DOMAIN sdr_members
    BY <1>1, <1>3 DEF last
  \* The entry of a new address was live before.
  <2>2. ASSUME NEW k \in DOMAIN sdr_members, sdr_members[k].client \notin Reused,
               Live(sdr_members[k])'
        PROVE  Live(sdr_members[k]) /\ sdr_members[k] # new
    <3>1. PICK d \in Client, q \in SdrRoom : sdr_members[k] = [client |-> d, room |-> q]
      BY <1>1 DEF Member
    <3>2. sdr_members'[k] = sdr_members[k]
      BY <1>3
    <3>3. InRoom(d, q)'
      BY <2>2, <3>1, <3>2 DEF Live, InRoom
    <3>4. ~(d = c /\ q = r)
      BY <1>2, <2>2, <3>1 DEF SdrInv, NewListed
    <3> QED
      BY <1>6, <3>1, <3>3, <3>4 DEF Live, new
  <2>3. Live(sdr_members[i]) /\ sdr_members'[i] = sdr_members[i] /\ sdr_members[i] \in Member
    BY <1>1, <1>3, <2>1, <2>2
  <2>4. PICK d \in Client, q \in SdrRoom : sdr_members[i] = [client |-> d, room |-> q]
    BY <2>3 DEF Member
  <2>5. CASE j = last
    <3>1. q = r /\ sdr_members'[j].client = c
      BY <1>3, <2>3, <2>4, <2>5 DEF new
    <3>2. d \in Members(r)
      BY <2>3, <2>4, <3>1 DEF Live, Members
    <3> QED
      BY <1>2, <2>3, <2>4, <3>1, <3>2 DEF SdrInv, SdrTypes
  <2>6. CASE j \in DOMAIN sdr_members
    <3>1. Live(sdr_members[j]) /\ sdr_members'[j] = sdr_members[j]
      BY <1>3, <2>2, <2>6
    <3>2. <<d, sdr_members[j].client>> \in earlier[q]
      BY <2>1, <2>3, <2>4, <2>6, <3>1 DEF SdrInv, ListedInOrder
    <3>3. earlier[q] \subseteq earlier'[q]
      BY <1>2 DEF SdrInv, SdrTypes
    <3> QED
      BY <2>3, <2>4, <3>1, <3>2, <3>3
  <2> QED
    BY <1>3, <2>5, <2>6
<1>10. TunerFirst'
  <2> SUFFICES ASSUME NEW q \in SdrRoom, tuner'[q] # NoClient
               PROVE  /\ tuner'[q] \in Members(q)'
                      /\ \E i \in DOMAIN sdr_members' :
                            /\ sdr_members'[i] = [client |-> tuner'[q], room |-> q]
                            /\ \A j \in DOMAIN sdr_members' : j < i => sdr_members'[j].room # q
    BY DEF TunerFirst
  <2>1. tuner[q] \in Members(q) /\ tuner'[q] = tuner[q]
    BY <1>2 DEF SdrInv, TunerFirst
  <2>2. PICK i \in DOMAIN sdr_members :
          /\ sdr_members[i] = [client |-> tuner[q], room |-> q]
          /\ \A j \in DOMAIN sdr_members : j < i => sdr_members[j].room # q
    BY <1>2 DEF SdrInv, TunerFirst
  <2>3. tuner'[q] \in Members(q)'
    BY <1>6, <2>1 DEF Members
  <2>4. \A j \in DOMAIN sdr_members' : j < i => sdr_members'[j].room # q
    BY <1>1, <1>3, <2>2 DEF last
  <2> QED
    BY <1>3, <2>1, <2>2, <2>3, <2>4
<1> QED
  BY <1>4, <1>5, <1>7, <1>8, <1>9, <1>10 DEF SdrInv

\* Steps that leave the list and the tuners alone and bring nobody into an SDR room.
LEMMA SameListKeeps ==
  ASSUME SdrInv, SdrTypes', NoneUnconnected', UNCHANGED <<sdr_members, earlier, tuner>>,
         \A r \in SdrRoom : \A c \in Client : InRoom(c, r)' <=> InRoom(c, r),
         \A i \in DOMAIN sdr_members : \A c \in Client \ Reused, r \in SdrRoom :
            sdr_members[i] = [client |-> c, room |-> r] /\ connected'[c] =>
                connected[c] /\ (r \in rooms[c] => r \in rooms'[c])
  PROVE  SdrInv'
<1>1. Thins(DOMAIN sdr_members)
  BY SameThins
<1>2. \A r \in SdrRoom : tuner'[r] # NoClient =>
         /\ tuner'[r] \in Members(r)'
         /\ \E i \in DOMAIN sdr_members :
               /\ sdr_members[i] = [client |-> tuner'[r], room |-> r]
               /\ \A j \in DOMAIN sdr_members : j < i => sdr_members[j].room # r
  BY DEF SdrInv, TunerFirst, Members
<1>3. \A r \in SdrRoom : \A c, d \in Client :
         InRoom(c, r)' /\ InRoom(d, r)' /\ <<c, d>> \in earlier[r] => <<c, d>> \in earlier'[r]
  OBVIOUS
<1> QED
  BY <1>1, <1>2, <1>3, ThinningKeeps

LEMMA ConnectKeeps ==
  ASSUME SdrInv, NEW c \in Client, Connect(c)
  PROVE  SdrInv'
<1>1. /\ ~connected[c] /\ rooms[c] = {} /\ c \in fresh \cup Reused
      /\ fresh' = fresh \ {c}
      /\ connected' = [connected EXCEPT ![c] = TRUE]
      /\ UNCHANGED <<rooms, sdr_members, earlier, tuner>>
  BY DEF Connect, SdrInv, NoneUnconnected
<1>2. SdrTypes' /\ NoneUnconnected'
  BY <1>1 DEF SdrInv, SdrTypes, NoneUnconnected
<1>3. \A r \in SdrRoom : \A d \in Client : InRoom(d, r)' <=> InRoom(d, r)
  BY <1>1 DEF SdrInv, SdrTypes, InRoom
<1>4. ASSUME NEW i \in DOMAIN sdr_members, NEW d \in Client \ Reused, NEW r \in SdrRoom,
             sdr_members[i] = [client |-> d, room |-> r], connected'[d]
      PROVE  connected[d] /\ (r \in rooms[d] => r \in rooms'[d])
  <2>1. d # c
    BY <1>1, <1>4 DEF SdrInv, NoneUnconnected
  <2> QED
    BY <1>1, <1>4, <2>1 DEF SdrInv, SdrTypes
<1> QED
  BY <1>1, <1>2, <1>3, <1>4, SameListKeeps

\* A join of a room without a receiver of its own.
LEMMA JoinOther ==
  ASSUME SdrInv, NEW c \in Client, NEW r \in Room \ SdrRoom, Join(c, r)
  PROVE  SdrInv'
<1>1. /\ connected[c]
      /\ rooms' = [rooms EXCEPT ![c] = @ \cup {r}]
      /\ UNCHANGED <<fresh, connected, sdr_members, earlier, tuner>>
  BY DEF Join
<1>2. SdrTypes' /\ NoneUnconnected'
  BY <1>1 DEF SdrInv, SdrTypes, NoneUnconnected
<1>3. \A q \in SdrRoom : \A d \in Client : InRoom(d, q)' <=> InRoom(d, q)
  BY <1>1 DEF SdrInv, SdrTypes, InRoom
<1>4. \A d \in Client : rooms[d] \subseteq rooms'[d]
  BY <1>1 DEF SdrInv, SdrTypes
<1>5. \A i \in DOMAIN sdr_members : \A d \in Client \ Reused, q \in SdrRoom :
         sdr_members[i] = [client |-> d, room |-> q] /\ connected'[d] =>
             connected[d] /\ (q \in rooms[d] => q \in rooms'[d])
  BY <1>1, <1>4
<1> QED
  BY <1>1, <1>2, <1>3, <1>5, SameListKeeps

\* Who leaves rooms: c, those of S; its entries in K may stay if it is gone.
LEMMA LeavingKeeps ==
  ASSUME SdrInv, SdrTypes', NoneUnconnected', NEW c \in Client, NEW S \in SUBSET SdrRoom,
         Leaves(c, S), NEW K \in SUBSET DOMAIN sdr_members, Thins(K),
         \A i \in DOMAIN sdr_members \ K : \E r \in S :
            sdr_members[i] = [client |-> c, room |-> r],
         \A r \in SdrRoom : \A d \in Client :
            InRoom(d, r)' <=> InRoom(d, r) /\ ~(d = c /\ r \in S),
         \A i \in K : \A d \in Client \ Reused, r \in SdrRoom :
            sdr_members[i] = [client |-> d, room |-> r] /\ connected'[d] =>
                connected[d] /\ (r \in rooms[d] => r \in rooms'[d])
  PROVE  SdrInv'
<1>1. \A i \in DOMAIN sdr_members \ K : \A d \in Client, r \in SdrRoom :
         sdr_members[i] = [client |-> d, room |-> r] => ~InRoom(d, r)'
  <2> SUFFICES ASSUME NEW i \in DOMAIN sdr_members \ K, NEW d \in Client, NEW r \in SdrRoom,
                      sdr_members[i] = [client |-> d, room |-> r]
               PROVE  d = c /\ r \in S
    OBVIOUS
  <2>1. PICK q \in S : sdr_members[i] = [client |-> c, room |-> q]
    OBVIOUS
  <2>2. sdr_members[i].client = d /\ sdr_members[i].room = r
    OBVIOUS
  <2>3. sdr_members[i].client = c /\ sdr_members[i].room = q
    BY <2>1
  <2> QED
    BY <2>2, <2>3
<1>2. \A r \in SdrRoom : \A d, e \in Client :
         InRoom(d, r)' /\ InRoom(e, r)' /\ <<d, e>> \in earlier[r] => <<d, e>> \in earlier'[r]
  <2> SUFFICES ASSUME NEW r \in SdrRoom, NEW d \in Client, NEW e \in Client,
                      InRoom(d, r)', InRoom(e, r)', <<d, e>> \in earlier[r]
               PROVE  <<d, e>> \in earlier'[r]
    OBVIOUS
  <2>1. r \in S => d # c /\ e # c
    OBVIOUS
  <2>2. earlier'[r] = {pair \in earlier[r] : r \in S => c \notin {pair[1], pair[2]}}
    BY DEF Leaves
  <2> QED
    BY <2>1, <2>2
<1>3. \A r \in SdrRoom : tuner'[r] # NoClient =>
         /\ tuner'[r] \in Members(r)'
         /\ \E i \in DOMAIN sdr_members :
               /\ sdr_members[i] = [client |-> tuner'[r], room |-> r]
               /\ \A j \in K : j < i => sdr_members[j].room # r
  <2> SUFFICES ASSUME NEW r \in SdrRoom, tuner'[r] # NoClient
               PROVE  /\ tuner'[r] \in Members(r)'
                      /\ \E i \in DOMAIN sdr_members :
                            /\ sdr_members[i] = [client |-> tuner'[r], room |-> r]
                            /\ \A j \in K : j < i => sdr_members[j].room # r
    OBVIOUS
  <2>1. tuner'[r] = tuner[r] /\ ~(tuner[r] = c /\ r \in S)
    BY DEF Leaves
  <2>2. tuner[r] \in Members(r)
    BY <2>1 DEF SdrInv, TunerFirst
  <2>3. tuner'[r] \in Members(r)'
    BY <2>1, <2>2 DEF Members
  <2> QED
    BY <2>1, <2>3 DEF SdrInv, TunerFirst
<1> QED
  BY <1>1, <1>2, <1>3, ThinningKeeps

LEMMA DisconnectKeeps ==
  ASSUME SdrInv, NEW c \in Client, Disconnect(c)
  PROVE  SdrInv'
<1>1. /\ connected[c]
      /\ connected' = [connected EXCEPT ![c] = FALSE]
      /\ rooms' = [rooms EXCEPT ![c] = {}]
      /\ Leaves(c, SdrRoom)
      /\ UNCHANGED <<fresh, sdr_members>>
  BY DEF Disconnect
<1>2. DOMAIN earlier' = SdrRoom /\ DOMAIN tuner' = SdrRoom
  BY <1>1 DEF Leaves
<1>3. SdrTypes' /\ NoneUnconnected'
  BY <1>1, <1>2 DEF SdrInv, SdrTypes, NoneUnconnected
<1>4. \A r \in SdrRoom : \A d \in Client :
         InRoom(d, r)' <=> InRoom(d, r) /\ ~(d = c /\ r \in SdrRoom)
  BY <1>1 DEF SdrInv, SdrTypes, InRoom
<1>5. \A i \in DOMAIN sdr_members : \A d \in Client \ Reused, r \in SdrRoom :
         sdr_members[i] = [client |-> d, room |-> r] /\ connected'[d] =>
             connected[d] /\ (r \in rooms[d] => r \in rooms'[d])
  BY <1>1 DEF SdrInv, SdrTypes
<1>6. Thins(DOMAIN sdr_members)
  BY <1>1, SameThins
<1> QED
  BY <1>1, <1>3, <1>4, <1>5, <1>6, LeavingKeeps

LEMMA PartKeeps ==
  ASSUME SdrInv, NEW c \in Client, NEW r \in Room, Part(c, r)
  PROVE  SdrInv'
<1> DEFINE mine == [client |-> c, room |-> r]
           K == {i \in DOMAIN sdr_members : sdr_members[i] # mine}
           S == {r} \cap SdrRoom
<1>1. /\ connected[c]
      /\ rooms' = [rooms EXCEPT ![c] = @ \ {r}]
      /\ sdr_members' = Kept(K)
      /\ Leaves(c, {r})
      /\ UNCHANGED <<fresh, connected>>
  BY DEF Part, Without
<1>2. Leaves(c, S)
  BY <1>1 DEF Leaves
<1>3. DOMAIN earlier' = SdrRoom /\ DOMAIN tuner' = SdrRoom
  BY <1>2 DEF Leaves
<1> HIDE DEF K
<1>4. K \in SUBSET DOMAIN sdr_members
  BY DEF K
<1>5. sdr_members' \in Seq(Member) /\ Thins(K)
  BY <1>1, <1>4, KeptThins DEF SdrInv
<1>6. SdrTypes'
  BY <1>1, <1>3, <1>5 DEF SdrInv, SdrTypes
<1>7. NoneUnconnected'
  <2>1. \A d \in Client : ~connected'[d] => rooms'[d] = {}
    BY <1>1 DEF SdrInv, SdrTypes, NoneUnconnected
  <2>2. \A n \in DOMAIN sdr_members' : \E i \in DOMAIN sdr_members : sdr_members'[n] = sdr_members[i]
    BY <1>4, <1>5 DEF Thins
  <2> QED
    BY <1>1, <2>1, <2>2 DEF SdrInv, NoneUnconnected
<1>8. \A q \in SdrRoom : \A d \in Client :
         InRoom(d, q)' <=> InRoom(d, q) /\ ~(d = c /\ q \in S)
  BY <1>1 DEF SdrInv, SdrTypes, InRoom
<1>9. \A i \in DOMAIN sdr_members \ K : \E q \in S :
         sdr_members[i] = [client |-> c, room |-> q]
  <2> SUFFICES ASSUME NEW i \in DOMAIN sdr_members \ K
               PROVE  \E q \in S : sdr_members[i] = [client |-> c, room |-> q]
    OBVIOUS
  <2>1. sdr_members[i] = mine
    BY DEF K
  <2>2. sdr_members[i] \in Member
    BY DEF SdrInv, SdrTypes
  <2>3. r \in SdrRoom
    BY <2>1, <2>2 DEF Member
  <2> QED
    BY <2>1, <2>3
<1>10. ASSUME NEW i \in K, NEW d \in Client \ Reused, NEW q \in SdrRoom,
              sdr_members[i] = [client |-> d, room |-> q], connected'[d]
       PROVE  connected[d] /\ (q \in rooms[d] => q \in rooms'[d])
  <2>1. ~(d = c /\ q = r)
    BY <1>10 DEF K
  <2> QED
    BY <1>1, <1>10, <2>1 DEF SdrInv, SdrTypes
<1>11. S \in SUBSET SdrRoom
  OBVIOUS
<1> HIDE DEF S
<1> QED
  BY <1>2, <1>4, <1>5, <1>6, <1>7, <1>8, <1>9, <1>10, <1>11, LeavingKeeps

\* The walk for the owner leaves every live entry, and before that of the owner no
\* other of the room.
LEMMA TuneKeeps ==
  ASSUME SdrInv, NEW c \in Client, NEW r \in SdrRoom, Tune(c, r)
  PROVE  SdrInv'
<1> DEFINE K == {i \in DOMAIN sdr_members : Live(sdr_members[i]) \/ Beyond(i, r)}
<1>1. /\ InRoom(c, r)
      /\ sdr_members' = Kept(K)
      /\ tuner' = [tuner EXCEPT ![r] = IF TuningOwner(r) = c THEN c ELSE @]
      /\ UNCHANGED <<fresh, connected, rooms, earlier>>
  BY DEF Tune, Purged
<1>2. \A i \in DOMAIN sdr_members : Live(sdr_members[i]) => i \in K
  OBVIOUS
<1>3. \A i \in K : Live(sdr_members[i]) \/ Beyond(i, r)
  OBVIOUS
<1>4. K \in SUBSET DOMAIN sdr_members
  OBVIOUS
<1> HIDE DEF K
<1>5. sdr_members' \in Seq(Member) /\ Thins(K)
  BY <1>1, <1>4, KeptThins DEF SdrInv
<1>6. SdrTypes'
  BY <1>1, <1>5 DEF SdrInv, SdrTypes
<1>7. NoneUnconnected'
  <2>1. \A n \in DOMAIN sdr_members' : \E i \in DOMAIN sdr_members : sdr_members'[n] = sdr_members[i]
    BY <1>4, <1>5 DEF Thins
  <2> QED
    BY <1>1, <2>1 DEF SdrInv, NoneUnconnected
<1>8. \A q \in SdrRoom : \A d \in Client : InRoom(d, q)' <=> InRoom(d, q)
  BY <1>1 DEF InRoom
<1>9. \A i \in DOMAIN sdr_members \ K : \A d \in Client, q \in SdrRoom :
         sdr_members[i] = [client |-> d, room |-> q] => ~InRoom(d, q)'
  BY <1>2, <1>8 DEF Live
<1>10. \A i \in K : \A d \in Client \ Reused, q \in SdrRoom :
         sdr_members[i] = [client |-> d, room |-> q] /\ connected'[d] =>
             connected[d] /\ (q \in rooms[d] => q \in rooms'[d])
  BY <1>1
<1>11. ASSUME NEW q \in SdrRoom, tuner'[q] # NoClient
       PROVE  /\ tuner'[q] \in Members(q)'
              /\ \E i \in DOMAIN sdr_members :
                    /\ sdr_members[i] = [client |-> tuner'[q], room |-> q]
                    /\ \A j \in K : j < i => sdr_members[j].room # q
  <2>1. CASE tuner'[q] = tuner[q]
    <3>1. tuner[q] \in Members(q)'
      BY <1>8, <1>11, <2>1 DEF SdrInv, TunerFirst, Members
    <3> QED
      BY <1>4, <1>11, <2>1, <3>1 DEF SdrInv, TunerFirst
  <2>2. CASE tuner'[q] # tuner[q]
    <3>1. q = r /\ tuner'[q] = c /\ TuningOwner(r) = c
      BY <1>1, <2>2 DEF SdrInv, SdrTypes
    <3>2. TuningOwner(r) # NoClient
      BY <3>1, SdrAssumption
    <3>3. PICK i \in LiveIn(r) :
            /\ sdr_members[i] = [client |-> TuningOwner(r), room |-> r]
            /\ TuningOwner(r) \in Members(r)
            /\ \A j \in LiveIn(r) : i <= j
      BY <3>2, OwnerFirst DEF SdrInv
    <3>4. ASSUME NEW j \in K, j < i
          PROVE  sdr_members[j].room # r
      <4>0. \A k \in DOMAIN sdr_members : k \in Nat
        BY DEF SdrInv, SdrTypes
      <4>1. i \in Nat /\ j \in Nat /\ LiveIn(r) \in SUBSET Nat
        BY <1>4, <4>0 DEF LiveIn
      <4>2. \A k \in LiveIn(r) : ~(k < j) /\ k # j
        BY <3>3, <3>4, <4>1
      <4>3. Live(sdr_members[j])
        BY <1>3, <4>2 DEF Beyond
      <4> QED
        BY <1>4, <4>2, <4>3 DEF LiveIn
    <3>5. i \in DOMAIN sdr_members
      BY DEF LiveIn
    <3>6. c \in Members(r)'
      BY <1>1, <1>8 DEF Members
    <3> QED
      BY <3>1, <3>3, <3>4, <3>5, <3>6
  <2> QED
    BY <2>1, <2>2
<1>12. \A q \in SdrRoom : \A d, e \in Client :
         InRoom(d, q)' /\ InRoom(e, q)' /\ <<d, e>> \in earlier[q] => <<d, e>> \in earlier'[q]
  BY <1>1
<1> QED
  BY <1>4, <1>5, <1>6, <1>7, <1>8, <1>9, <1>10, <1>11, <1>12, ThinningKeeps

LEMMA SdrInvariance == SdrSpec => []SdrInv
<1>1. SdrInit => SdrInv
  BY DEF SdrInit, SdrInv, SdrTypes, NoneUnconnected, MembersListed, NewListed, ListedInOrder,
     TunerFirst, Members, InRoom
<1>2. SdrInv /\ [SdrNext]_sdrVars => SdrInv'
  <2> SUFFICES ASSUME SdrInv, [SdrNext]_sdrVars
               PROVE  SdrInv'
    OBVIOUS
  <2>1. CASE UNCHANGED sdrVars
    BY <2>1 DEF sdrVars, SdrInv, SdrTypes, NoneUnconnected, MembersListed, NewListed,
       ListedInOrder, TunerFirst, Members, InRoom, Live
  <2>2. CASE SdrNext
    <3>1. PICK c \in Client :
            \/ Connect(c)
            \/ Disconnect(c)
            \/ \E r \in Room : Join(c, r) \/ Part(c, r)
            \/ \E r \in SdrRoom : Tune(c, r)
      BY <2>2 DEF SdrNext
    <3>2. CASE Connect(c)
      BY <3>2, ConnectKeeps
    <3>3. CASE Disconnect(c)
      BY <3>3, DisconnectKeeps
    <3>4. ASSUME NEW r \in Room, Join(c, r)
          PROVE  SdrInv'
      BY <3>4, JoinReceiver, JoinOther
    <3>5. ASSUME NEW r \in Room, Part(c, r)
          PROVE  SdrInv'
      BY <3>5, PartKeeps
    <3>6. ASSUME NEW r \in SdrRoom, Tune(c, r)
          PROVE  SdrInv'
      BY <3>6, TuneKeeps
    <3> QED
      BY <3>1, <3>2, <3>3, <3>4, <3>5, <3>6
  <2> QED
    BY <2>1, <2>2
<1> QED
  BY <1>1, <1>2, PTL DEF SdrSpec

\* What the invariant says of the owner.
LEMMA OwnersRight ==
  ASSUME SdrInv
  PROVE  OwnerPresent /\ OldestTunes /\ TunerStays
<1>0. /\ DOMAIN sdr_members \in SUBSET Nat
      /\ \A i \in DOMAIN sdr_members : sdr_members[i] \in Member
  BY DEF SdrInv, SdrTypes
\* A member's entry is among the live ones of its room.
<1>1. ASSUME NEW r \in SdrRoom, NEW c \in Members(r)
      PROVE  \E i \in LiveIn(r) : sdr_members[i] = [client |-> c, room |-> r]
  <2>1. PICK i \in DOMAIN sdr_members : sdr_members[i] = [client |-> c, room |-> r]
    BY DEF SdrInv, MembersListed
  <2> QED
    BY <2>1 DEF LiveIn, Live, Members
<1>2. OwnerPresent
  BY <1>1, OwnerFirst DEF OwnerPresent, SdrInv
<1>3. OldestTunes
  <2> SUFFICES ASSUME NEW r \in SdrRoom, NEW c \in Client \ Reused, c \in Members(r),
                      TuningOwner(r) \in Client \ (Reused \cup {c})
               PROVE  <<TuningOwner(r), c>> \in earlier[r]
    BY DEF OldestTunes
  <2>1. PICK j \in LiveIn(r) : sdr_members[j] = [client |-> c, room |-> r]
    BY <1>1
  <2>2. PICK i \in LiveIn(r) :
          /\ sdr_members[i] = [client |-> TuningOwner(r), room |-> r]
          /\ \A k \in LiveIn(r) : i <= k
    BY <2>1, OwnerFirst DEF SdrInv
  <2>3. i # j
    BY <2>1, <2>2
  <2>4. i \in DOMAIN sdr_members /\ j \in DOMAIN sdr_members /\ i \in Nat /\ j \in Nat
    BY <1>0 DEF LiveIn
  <2>5. i < j
    BY <2>2, <2>3, <2>4
  <2>6. Live(sdr_members[i]) /\ Live(sdr_members[j])
    BY DEF LiveIn
  <2> QED
    BY <2>1, <2>2, <2>4, <2>5, <2>6 DEF SdrInv, ListedInOrder
<1>4. TunerStays
  <2> SUFFICES ASSUME NEW r \in SdrRoom, tuner[r] # NoClient
               PROVE  TuningOwner(r) = tuner[r]
    BY DEF TunerStays
  <2>1. PICK i \in DOMAIN sdr_members :
          /\ sdr_members[i] = [client |-> tuner[r], room |-> r]
          /\ \A j \in DOMAIN sdr_members : j < i => sdr_members[j].room # r
    BY DEF SdrInv, TunerFirst
  <2>2. tuner[r] \in Members(r)
    BY DEF SdrInv, TunerFirst
  <2>3. i \in LiveIn(r)
    BY <2>1, <2>2 DEF LiveIn, Live, Members
  <2>4. PICK k \in LiveIn(r) :
          /\ sdr_members[k] = [client |-> TuningOwner(r), room |-> r]
          /\ \A j \in LiveIn(r) : k <= j
    BY <2>3, OwnerFirst DEF SdrInv
  <2>5. k \in DOMAIN sdr_members /\ k \in Nat /\ i \in Nat
    BY <1>0 DEF LiveIn
  <2>6. ~(k < i)
    BY <2>1, <2>4, <2>5
  <2>7. k = i
    BY <2>3, <2>4, <2>5, <2>6
  <2> QED
    BY <2>1, <2>4, <2>7
<1> QED
  BY <1>2, <1>3, <1>4

-----------------------------------------------------------------------------
(* Theorems *)

\* Every reachable state is well typed, and the table of rooms within its length.
THEOREM RigControlTypeCorrect == Spec => []TypeOK
<1>1. IInv => TypeOK
  BY DEF IInv
<1> QED
  BY <1>1, Invariance, PTL

\* From a receive room nothing but the frequency of a VFO that was let go of is set.
THEOREM ReceiversTuneAlone == Spec => []IndependentTuning
<1>1. IInv => IndependentTuning
  BY DEF IInv
<1> QED
  BY <1>1, Invariance, PTL

\* A message in the first rig's room reaches the VFOs of the authoritative mask.
THEOREM FirstRigMapped == Spec => []DefaultRigMapping
<1>1. IInv => DefaultRigMapping
  BY DEF IInv
<1> QED
  BY <1>1, Invariance, PTL

\* A room with members has one of them as its owner, stale entries or not.
THEOREM OwnersPresent == SdrSpec => []OwnerPresent
BY SdrInvariance, OwnersRight, PTL

\* An owner at a new address joined before the other members at such addresses.
THEOREM OldestOwns == SdrSpec => []OldestTunes
BY SdrInvariance, OwnersRight, PTL

\* Who tuned a receiver owns it until it leaves.
THEOREM TunersStay == SdrSpec => []TunerStays
BY SdrInvariance, OwnersRight, PTL

\* The rig commands, the application and the accounts tune receivers, and change who
\* is a member of which room, as SdrSpec says.
THEOREM RigRefinesSdr == Spec => SdrSpec
<1>1. Init => SdrInit
  BY DEF Init
<1>2. [Next]_vars => [SdrNext]_sdrVars
  <2> SUFFICES ASSUME [Next]_vars
               PROVE  SdrNext \/ UNCHANGED sdrVars
    OBVIOUS
  <2>1. CASE UNCHANGED vars
    BY <2>1 DEF vars
  <2>2. CASE Application
    BY <2>2 DEF Application, SetVfoMask, SetRxTuningMask, SetAuthoritativeVfoMask,
       SetAuthoritativeRoom
  <2>3. ASSUME NEW c \in Client, Arrive(c) \/ Leave(c) \/ AccountsChange(c)
        PROVE  SdrNext \/ UNCHANGED sdrVars
    BY <2>3 DEF Arrive, Leave, AccountsChange, SdrNext
  <2>4. ASSUME NEW c \in Client, Message(c)
        PROVE  SdrNext \/ UNCHANGED sdrVars
    <3>1. ASSUME NEW cmd, NEW r \in Room, NEW v, Carry(c, cmd, r, v)
          PROVE  SdrNext \/ UNCHANGED sdrVars
      BY <3>1 DEF Carry, Orders, TunesReceiver, SdrNext
    <3>2. ASSUME NEW r \in Room, NEW v, TxCommand(c, r, v) \/ Swap(c, r, v) \/ Split(c, r, v)
          PROVE  SdrNext \/ UNCHANGED sdrVars
      BY <3>1, <3>2 DEF TxCommand, Power, Frequency, Width, Mode, Swap, Split
    <3>3. ASSUME NEW r \in Room, JoinRoom(c, r) \/ PartRoom(c, r) \/ TypedCommand(c, r)
          PROVE  SdrNext \/ UNCHANGED sdrVars
      BY <3>2, <3>3 DEF JoinRoom, PartRoom, TypedCommand, SdrNext
    <3>4. ASSUME Refused(c)
          PROVE  SdrNext \/ UNCHANGED sdrVars
      BY <3>4 DEF Refused, SdrNext
    <3>5. ASSUME NEW r \in Room, NEW v \in Vfo, SelectVfo(c, r, v)
          PROVE  SdrNext \/ UNCHANGED sdrVars
      BY <3>5 DEF SelectVfo
    <3> QED
      BY <2>4, <3>2, <3>3, <3>4, <3>5 DEF Message
  <2> QED
    BY <2>1, <2>2, <2>3, <2>4 DEF Next
<1> QED
  BY <1>1, <1>2, PTL DEF Spec, SdrSpec
=============================================================================
