-------------------------------- MODULE MCPtt --------------------------------
(* Small account tables, rooms and connections for model checking Ptt.    *)
EXTENDS Ptt, TLC

Erased ==
    [name |-> NoName, uid |-> 0, enabled |-> FALSE, privs |-> {},
     max_sessions |-> 0, password_expires |-> "never",
     password_change_required |-> FALSE]

Member(name, uid, privs) ==
    [name |-> name, uid |-> uid, enabled |-> TRUE, privs |-> privs,
     max_sessions |-> 2, password_expires |-> "never",
     password_change_required |-> FALSE]

Table(a, b) == 0 :> a @@ 1 :> b

Admin == Member("admin", 0, {"admin"})
Operator == Member("operator", 1, {"tx"})
Noob == Member("operator", 1, {"noob", "tx"})
Listener == Member("operator", 1, {})
Source == Member("operator", 1, {"tx", "media.source"})

\* The operator's account is disabled, or must change its password, but keeps
\* its slot.
DisabledTables ==
    {Table(Admin, Operator), Table(Admin, [Operator EXCEPT !.enabled = FALSE]),
     Table(Admin, [Operator EXCEPT !.password_change_required = TRUE])}

\* The operator is a noob, may only use the rooms it is granted, or is a media source.
SupervisedTables == {Table(Admin, Noob), Table(Admin, Listener), Table(Admin, Source)}

FixedMask == {Vfo}
AnyMask == SUBSET Vfo

NoGrants == {}
OperatorGrants == {1} \X Room

ClientSymmetry == Permutations(Client)
=============================================================================
