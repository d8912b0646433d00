------------------------------ MODULE MCSession ------------------------------
(* Small account tables and connections for model checking Session.       *)
EXTENDS Session, TLC

Member(name, uid, privs, max) ==
    [name |-> name, uid |-> uid, enabled |-> TRUE, privs |-> privs,
     max_sessions |-> max, password_expires |-> "never",
     password_change_required |-> FALSE]

Table(a, b) == 0 :> a @@ 1 :> b

Admin == Member("admin", 0, {"admin"}, 2)
User == Member("user", 1, {"tx"}, 2)
Erased == [Member("", 0, {}, 0) EXCEPT !.enabled = FALSE]

\* Account 0 keeps its slot, but may be disabled or expire; slot 1 is also given
\* to another account, or erased.
ChangingTables ==
    {Table(Admin, User), Table(Admin, [User EXCEPT !.name = "other"]),
     Table(Admin, Erased), Table([Admin EXCEPT !.enabled = FALSE], User),
     Table([Admin EXCEPT !.password_expires = "later"], User)}

ClientSymmetry == Permutations(Client)
=============================================================================
