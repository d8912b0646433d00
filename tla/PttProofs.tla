------------------------------ MODULE PttProofs ------------------------------
(***************************************************************************)
(* What modules Session and Ptt keep for any connections, accounts, tables *)
(* and rooms.                                                              *)
(*                                                                         *)
(* Of Session: types, a session counter that never exceeds the live        *)
(* sessions and is exact for an account that keeps its slot, one account   *)
(* behind the name, the privileges and the charge of an open session, and  *)
(* that a session never changes accounts.                                  *)
(*                                                                         *)
(* Of Ptt: types, one talker at most, the rig in step with the talker, no  *)
(* transmission of a muted account or without authority, the strictness of *)
(* the override hierarchy, and that push-to-talk implements the lock of    *)
(* PttLock.  The inductive invariant is IInv: the properties themselves,   *)
(* plus who a session must be to be keyed (KeyedIsSession) and what an     *)
(* account table looks like (UsersWellFormed).                             *)
(***************************************************************************)
EXTENDS Ptt, FiniteSetTheorems, TLAPS

-----------------------------------------------------------------------------
(* Sessions: types *)


\* Every table that can be loaded has the type of http_users[].
LEMMA TablesTyped == AccountTables \subseteq [Slot -> Account]
  BY SessionAssumption DEF WellFormed

\* Kicking changes the status of connections only within its type.
LEMMA KickTyped ==
  ASSUME NEW S, conn \in [Client -> {"none", "open", "evicted", "closing"}], Kick(S)
  PROVE  conn' \in [Client -> {"none", "open", "evicted", "closing"}]
  BY DEF Kick

\* The initial states are typed.
LEMMA InitTyped == SessionInit => SessionTypeOK
  BY TablesTyped, SessionAssumption DEF SessionInit, SessionTypeOK

\* Messages of logged-in sessions.
LEMMA SessionMessageTyped ==
  ASSUME SessionTypeOK, NEW c \in Client, SessionMessage(c)
  PROVE  SessionTypeOK'
<1>1. CASE Logout(c)
  BY <1>1, KickTyped DEF SessionTypeOK, Logout, accountVars
<1>2. CASE KickExpired(c)
  BY <1>2, KickTyped DEF SessionTypeOK, KickExpired, accountVars
<1>3. CASE \E name \in Name : AdminKick(c, name)
  BY <1>3, KickTyped DEF SessionTypeOK, AdminKick, accountVars
<1>4. CASE \E d \in Client : Unmute(c, d)
  BY <1>4, KickTyped DEF SessionTypeOK, Unmute, Return
<1>5. CASE HandlerReturns(c)
  BY <1>5, KickTyped DEF SessionTypeOK, HandlerReturns, Return, accountVars
<1> QED
  BY <1>1, <1>2, <1>3, <1>4, <1>5 DEF SessionMessage

LEMMA MuteTyped ==
  ASSUME SessionTypeOK, NEW c \in Client, NEW d \in Client, Mute(c, d)
  PROVE  SessionTypeOK'
  BY KickTyped DEF SessionTypeOK, Mute, Return

\* The steps of a login.
LEMMA LoginMessageTyped ==
  ASSUME SessionTypeOK, NEW c \in Client, LoginMessage(c)
  PROVE  SessionTypeOK'
<1>1. CASE \E s \in Slot : LoginChallenge(c, s)
  BY <1>1 DEF SessionTypeOK, LoginChallenge, accountVars
<1>2. CASE \E u \in Slot \cup {NoUser} : LoginRefused(c, u)
  BY <1>2, KickTyped DEF SessionTypeOK, LoginRefused, accountVars
<1>3. CASE PassAccepted(c)
  <2>1. user[c] \in Slot
    BY <1>3 DEF SessionTypeOK, PassAccepted
  <2>2. users[user[c]].uid \in Slot
    BY <2>1 DEF SessionTypeOK, Account
  <2>3. users[users[user[c]].uid].name \in Name \cup {NoName}
    BY <2>2 DEF SessionTypeOK, Account
  <2>4. sessions' \in [Slot -> Nat]
    BY <1>3, <2>1 DEF SessionTypeOK, PassAccepted
  <2> QED
    BY <1>3, <2>3, <2>4 DEF SessionTypeOK, PassAccepted
<1>4. CASE \E compared \in BOOLEAN : PassRefused(c, compared)
  BY <1>4, KickTyped DEF SessionTypeOK, PassRefused, accountVars
<1> QED
  BY <1>1, <1>2, <1>3, <1>4 DEF LoginMessage

LEMMA ConnectTyped ==
  ASSUME SessionTypeOK, NEW c \in Client, Connect(c)
  PROVE  SessionTypeOK'
  BY DEF SessionTypeOK, Connect, accountVars

LEMMA CloseTyped ==
  ASSUME SessionTypeOK, NEW c \in Client, Close(c)
  PROVE  SessionTypeOK'
<1>1. sessions' \in [Slot -> Nat]
  <2>1. CASE authenticated[c] /\ user[c] # NoUser /\ sessions[user[c]] > 0
    <3>1. user[c] \in Slot /\ sessions[user[c]] - 1 \in Nat
      BY <2>1 DEF SessionTypeOK
    <3> QED
      BY <2>1, <3>1 DEF SessionTypeOK, Close
  <2>2. CASE ~(authenticated[c] /\ user[c] # NoUser /\ sessions[user[c]] > 0)
    BY <2>2 DEF SessionTypeOK, Close
  <2> QED
    BY <2>1, <2>2
<1> QED
  BY <1>1 DEF SessionTypeOK, Close

\* The account table changes.
LEMMA LoadTyped ==
  ASSUME SessionTypeOK, NEW table \in AccountTables, Load(table)
  PROVE  /\ users' \in [Slot -> Account]
         /\ sessions' \in [Slot -> Nat]
         /\ is_muted' \in [Slot -> BOOLEAN]
         /\ UNCHANGED <<user, authenticated, nonce, chatname>>
  BY TablesTyped DEF SessionTypeOK, Load, SameAccount

LEMMA ReloadTyped ==
  ASSUME SessionTypeOK, NEW table \in AccountTables, Reload(table)
  PROVE  SessionTypeOK'
  BY LoadTyped, KickTyped DEF SessionTypeOK, Reload

LEMMA RefreshEvictsTyped ==
  ASSUME SessionTypeOK, NEW table \in AccountTables, NEW c \in Client,
         RefreshEvicts(c, table)
  PROVE  SessionTypeOK'
<1>1. conn' \in [Client -> {"none", "open", "evicted", "closing"}]
  BY DEF SessionTypeOK, RefreshEvicts
<1> QED
  BY <1>1, LoadTyped DEF SessionTypeOK, RefreshEvicts

\* An account stays one when its password expires.
LEMMA ExpiredAccount ==
  ASSUME NEW a \in Account
  PROVE  [a EXCEPT !.password_expires = "past"] \in Account
<1> DEFINE b == [a EXCEPT !.password_expires = "past"]
<1>1. b = [name |-> a.name, uid |-> a.uid, enabled |-> a.enabled,
           privs |-> a.privs, max_sessions |-> a.max_sessions,
           password_expires |-> "past",
           password_change_required |-> a.password_change_required]
  BY DEF Account
<1>2. /\ a.name \in Name \cup {NoName} /\ a.uid \in Slot
      /\ a.enabled \in BOOLEAN /\ a.privs \in SUBSET Privilege
      /\ a.max_sessions \in Nat /\ a.password_change_required \in BOOLEAN
  BY DEF Account
<1> QED
  BY <1>1, <1>2 DEF Account

LEMMA ExpirePasswordTyped ==
  ASSUME SessionTypeOK, NEW s \in Slot, ExpirePassword(s)
  PROVE  SessionTypeOK'
<1>1. [users[s] EXCEPT !.password_expires = "past"] \in Account
  BY ExpiredAccount DEF SessionTypeOK
<1>2. users' = [users EXCEPT ![s] = [users[s] EXCEPT !.password_expires = "past"]]
  BY DEF ExpirePassword, SessionTypeOK
<1>3. users' \in [Slot -> Account]
  BY <1>1, <1>2 DEF SessionTypeOK
<1> QED
  BY <1>3 DEF SessionTypeOK, ExpirePassword, connVars

\* Every step of the sessions keeps the types.
LEMMA StepTyped == SessionTypeOK /\ [SessionNext]_sessionVars => SessionTypeOK'
<1> SUFFICES ASSUME SessionTypeOK, [SessionNext]_sessionVars
             PROVE  SessionTypeOK'
  OBVIOUS
<1>1. CASE \E c \in Client : SessionMessage(c)
  BY <1>1, SessionMessageTyped
<1>2. CASE \E c, d \in Client : Mute(c, d)
  BY <1>2, MuteTyped
<1>3. CASE \E c \in Client : LoginMessage(c)
  BY <1>3, LoginMessageTyped
<1>4. CASE \E c \in Client : Connect(c)
  BY <1>4, ConnectTyped
<1>5. CASE \E c \in Client : Close(c)
  BY <1>5, CloseTyped
<1>6. CASE \E table \in AccountTables : Reload(table)
  BY <1>6, ReloadTyped
<1>7. CASE \E table \in AccountTables, c \in Client : RefreshEvicts(c, table)
  BY <1>7, RefreshEvictsTyped
<1>8. CASE \E s \in Slot : ExpirePassword(s)
  BY <1>8, ExpirePasswordTyped
<1>9. CASE UNCHANGED sessionVars
  BY <1>9 DEF SessionTypeOK, sessionVars, connVars, accountVars
<1> QED
  BY <1>1, <1>2, <1>3, <1>4, <1>5, <1>6, <1>7, <1>8, <1>9 DEF SessionNext

\* Every variable of the sessions has its type in every reachable state.
THEOREM SessionTypeCorrect == SessionSpec => []SessionTypeOK
  BY InitTyped, StepTyped, PTL DEF SessionSpec

-----------------------------------------------------------------------------
(* Counting sessions *)

\* The sessions of an account are finitely many.
LEMMA LiveFinite ==
  ASSUME NEW s \in Slot
  PROVE  IsFiniteSet(LiveSessions(s)) /\ Cardinality(LiveSessions(s)) \in Nat
<1>1. LiveSessions(s) \subseteq Client
  BY DEF LiveSessions, LoggedIn
<1>2. IsFiniteSet(LiveSessions(s))
  BY <1>1, FS_Subset, SessionAssumption
<1> QED
  BY <1>2, FS_CardinalityType

\* Steps that leave user and authenticated alone and raise no counter.
LEMMA CountKept ==
  ASSUME SessionTypeOK, SessionTypeOK', NoPhantomSessions,
         UNCHANGED <<user, authenticated>>,
         \A s \in Slot : sessions'[s] <= sessions[s]
  PROVE  NoPhantomSessions'
<1> SUFFICES ASSUME NEW s \in Slot
             PROVE  sessions'[s] <= Cardinality(LiveSessions(s)')
  BY DEF NoPhantomSessions
<1>1. LiveSessions(s)' = LiveSessions(s)
  BY DEF LiveSessions, LoggedIn
<1>2. /\ sessions[s] \in Nat /\ sessions'[s] \in Nat
      /\ sessions[s] <= Cardinality(LiveSessions(s))
      /\ sessions'[s] <= sessions[s]
  BY DEF SessionTypeOK, NoPhantomSessions
<1> QED
  BY <1>1, <1>2, LiveFinite

\* Steps by which a connection that is not logged in changes its user.
LEMMA CountIgnoresLogin ==
  ASSUME SessionTypeOK, NoPhantomSessions, NEW c \in Client, ~authenticated[c],
         \A d \in Client \ {c} : user'[d] = user[d],
         UNCHANGED <<authenticated, sessions>>
  PROVE  NoPhantomSessions'
<1> SUFFICES ASSUME NEW s \in Slot
             PROVE  sessions'[s] <= Cardinality(LiveSessions(s)')
  BY DEF NoPhantomSessions
<1>1. LiveSessions(s)' = LiveSessions(s)
  BY DEF LiveSessions, LoggedIn
<1> QED
  BY <1>1 DEF NoPhantomSessions

\* An accepted reply adds one session and counts it.
LEMMA CountAccepted ==
  ASSUME SessionTypeOK, NoPhantomSessions, NEW c \in Client, PassAccepted(c)
  PROVE  NoPhantomSessions'
<1> SUFFICES ASSUME NEW s \in Slot
             PROVE  sessions'[s] <= Cardinality(LiveSessions(s)')
  BY DEF NoPhantomSessions
<1>1. sessions[s] \in Nat /\ sessions[s] <= Cardinality(LiveSessions(s))
  BY DEF SessionTypeOK, NoPhantomSessions
<1>2. CASE user[c] = s
  <2>1. LiveSessions(s)' = LiveSessions(s) \cup {c} /\ c \notin LiveSessions(s)
    BY <1>2 DEF SessionTypeOK, PassAccepted, LiveSessions, LoggedIn
  <2>2. Cardinality(LiveSessions(s)') = Cardinality(LiveSessions(s)) + 1
    BY <2>1, LiveFinite, FS_AddElement
  <2>3. sessions'[s] = sessions[s] + 1
    BY <1>2 DEF SessionTypeOK, PassAccepted
  <2> QED
    BY <1>1, <2>2, <2>3, LiveFinite
<1>3. CASE user[c] # s
  <2>1. LiveSessions(s)' = LiveSessions(s)
    BY <1>3 DEF SessionTypeOK, PassAccepted, LiveSessions, LoggedIn
  <2>2. sessions'[s] = sessions[s]
    BY <1>3 DEF SessionTypeOK, PassAccepted
  <2> QED
    BY <1>1, <2>1, <2>2
<1> QED
  BY <1>2, <1>3

\* A close takes one session away and counts it out, unless the counter was
\* reset under it.
LEMMA CountClose ==
  ASSUME SessionTypeOK, NoPhantomSessions, NEW c \in Client, Close(c)
  PROVE  NoPhantomSessions'
<1> SUFFICES ASSUME NEW s \in Slot
             PROVE  sessions'[s] <= Cardinality(LiveSessions(s)')
  BY DEF NoPhantomSessions
<1>1. sessions[s] \in Nat /\ sessions[s] <= Cardinality(LiveSessions(s))
  BY DEF SessionTypeOK, NoPhantomSessions
<1>2. LiveSessions(s)' = LiveSessions(s) \ {c}
  BY SessionAssumption DEF SessionTypeOK, Close, LiveSessions, LoggedIn
<1>3. CASE c \in LiveSessions(s)
  <2>1. authenticated[c] /\ user[c] = s /\ user[c] # NoUser
    BY <1>3, SessionAssumption DEF LiveSessions, LoggedIn
  <2>2. Cardinality(LiveSessions(s)') = Cardinality(LiveSessions(s)) - 1
    BY <1>2, <1>3, LiveFinite, FS_RemoveElement
  <2>3. sessions'[s] = IF sessions[s] > 0 THEN sessions[s] - 1 ELSE sessions[s]
    BY <2>1 DEF SessionTypeOK, Close
  <2>4. Cardinality(LiveSessions(s)) # 0
    BY <1>3, LiveFinite, FS_EmptySet
  <2> QED
    BY <1>1, <2>2, <2>3, <2>4, LiveFinite
<1>4. CASE c \notin LiveSessions(s)
  <2>1. sessions'[s] = sessions[s]
    BY <1>4 DEF SessionTypeOK, Close, LiveSessions, LoggedIn
  <2> QED
    BY <1>1, <1>2, <1>4, <2>1
<1> QED
  BY <1>3, <1>4

\* Loading a table keeps or resets each counter.
LEMMA LoadLowersCounters ==
  ASSUME SessionTypeOK, NEW table, Load(table)
  PROVE  \A s \in Slot : sessions'[s] <= sessions[s]
  BY DEF SessionTypeOK, Load

\* Every step keeps the counters within the live sessions.
LEMMA StepCounted ==
  SessionTypeOK /\ NoPhantomSessions /\ [SessionNext]_sessionVars
    => NoPhantomSessions'
<1> SUFFICES ASSUME SessionTypeOK, NoPhantomSessions, [SessionNext]_sessionVars
             PROVE  NoPhantomSessions'
  OBVIOUS
<1>0. SessionTypeOK'
  BY StepTyped
<1>1. CASE UNCHANGED <<user, authenticated, sessions>>
  BY <1>0, <1>1, CountKept DEF SessionTypeOK
<1>2. CASE \E c \in Client : SessionMessage(c)
  BY <1>1, <1>2
     DEF SessionMessage, Logout, KickExpired, AdminKick, Unmute, HandlerReturns,
         accountVars
<1>3. CASE \E c, d \in Client : Mute(c, d)
  BY <1>1, <1>3 DEF Mute
<1>4. ASSUME NEW c \in Client, LoginMessage(c)
      PROVE  NoPhantomSessions'
  <2>1. CASE \E s \in Slot : LoginChallenge(c, s)
    BY <2>1, CountIgnoresLogin DEF LoginChallenge, SessionTypeOK, accountVars
  <2>2. CASE \E u \in Slot \cup {NoUser} : LoginRefused(c, u)
    BY <2>2, CountIgnoresLogin DEF LoginRefused, SessionTypeOK, accountVars
  <2>3. CASE PassAccepted(c)
    BY <2>3, CountAccepted
  <2>4. CASE \E compared \in BOOLEAN : PassRefused(c, compared)
    BY <1>1, <2>4 DEF PassRefused, accountVars
  <2> QED
    BY <1>4, <2>1, <2>2, <2>3, <2>4 DEF LoginMessage
<1>5. CASE \E c \in Client : Connect(c)
  BY <1>1, <1>5 DEF Connect, accountVars
<1>6. CASE \E c \in Client : Close(c)
  BY <1>6, CountClose
<1>7. CASE \E table \in AccountTables :
             Reload(table) \/ \E c \in Client : RefreshEvicts(c, table)
  <2>1. PICK table \in AccountTables : Load(table)
    BY <1>7 DEF Reload, RefreshEvicts
  <2> QED
    BY <1>0, <2>1, LoadLowersCounters, CountKept DEF Load
<1>8. CASE \E s \in Slot : ExpirePassword(s)
  BY <1>1, <1>8 DEF ExpirePassword, connVars
<1>9. CASE UNCHANGED sessionVars
  BY <1>1, <1>9 DEF sessionVars, connVars, accountVars
<1> QED
  BY <1>2, <1>3, <1>4, <1>5, <1>6, <1>7, <1>8, <1>9 DEF SessionNext

\* No account is ever charged for more sessions than it has, whatever the
\* tables and however reloads, kicks and closes interleave.
THEOREM NoPhantoms == SessionSpec => []NoPhantomSessions
<1>1. SessionInit => NoPhantomSessions
  <2> SUFFICES ASSUME SessionInit, NEW s \in Slot
               PROVE  sessions[s] <= Cardinality(LiveSessions(s))
    BY DEF NoPhantomSessions
  <2>1. sessions[s] = 0
    BY DEF SessionInit
  <2> QED
    BY <2>1, LiveFinite
<1> QED
  BY <1>1, InitTyped, StepTyped, StepCounted, PTL DEF SessionSpec

\* An authenticated session keeps its account and its name.
THEOREM IdentityIsFixed == SessionSpec => IdentityFixed
<1> DEFINE Kept == \A c \in Client :
                      authenticated[c] /\ authenticated'[c] =>
                        user'[c] = user[c] /\ chatname'[c] = chatname[c]
<1>1. ASSUME SessionTypeOK, [SessionNext]_sessionVars
      PROVE  Kept
  <2>1. CASE UNCHANGED <<user, chatname>>
    BY <2>1
  <2>2. CASE \E c \in Client : SessionMessage(c)
    BY <2>1, <2>2
       DEF SessionMessage, Logout, KickExpired, AdminKick, Unmute, HandlerReturns
  <2>3. CASE \E c, d \in Client : Mute(c, d)
    BY <2>1, <2>3 DEF Mute
  <2>4. ASSUME NEW c \in Client, LoginMessage(c)
        PROVE  Kept
    <3> SUFFICES ASSUME NEW d \in Client, authenticated[d], authenticated'[d]
                 PROVE  user'[d] = user[d] /\ chatname'[d] = chatname[d]
      OBVIOUS
    <3>1. ~authenticated[c]
      BY <2>4 DEF LoginMessage, LoginChallenge, LoginRefused, PassAccepted, PassRefused
    <3>2. CASE \E s \in Slot : LoginChallenge(c, s)
      BY <1>1, <3>1, <3>2 DEF LoginChallenge, SessionTypeOK
    <3>3. CASE \E u \in Slot \cup {NoUser} : LoginRefused(c, u)
      BY <1>1, <3>1, <3>3 DEF LoginRefused, SessionTypeOK
    <3>4. CASE PassAccepted(c)
      BY <1>1, <3>1, <3>4 DEF PassAccepted, SessionTypeOK
    <3>5. CASE \E compared \in BOOLEAN : PassRefused(c, compared)
      BY <3>5 DEF PassRefused
    <3> QED
      BY <2>4, <3>2, <3>3, <3>4, <3>5 DEF LoginMessage
  <2>5. CASE \E c \in Client : Connect(c)
    BY <2>1, <2>5 DEF Connect
  <2>6. ASSUME NEW c \in Client, Close(c)
        PROVE  Kept
    <3>1. ~authenticated'[c]
      BY <1>1, <2>6 DEF Close, SessionTypeOK
    <3>2. \A d \in Client \ {c} : user'[d] = user[d] /\ chatname'[d] = chatname[d]
      BY <1>1, <2>6 DEF Close, SessionTypeOK
    <3> QED
      BY <3>1, <3>2
  <2>7. CASE \E table \in AccountTables :
               Reload(table) \/ \E c \in Client : RefreshEvicts(c, table)
    BY <2>1, <2>7 DEF Reload, RefreshEvicts, Load
  <2>8. CASE \E s \in Slot : ExpirePassword(s)
    BY <2>1, <2>8 DEF ExpirePassword, connVars
  <2>9. CASE UNCHANGED sessionVars
    BY <2>1, <2>9 DEF sessionVars, connVars
  <2> QED
    BY <1>1, <2>2, <2>3, <2>4, <2>5, <2>6, <2>7, <2>8, <2>9 DEF SessionNext
<1>2. SessionTypeOK /\ [SessionNext]_sessionVars => [Kept]_sessionVars
  BY <1>1
<1> QED
  BY <1>2, InitTyped, StepTyped, PTL DEF SessionSpec, IdentityFixed

-----------------------------------------------------------------------------
(* The account table and the name a session is shown under *)

\* An erased slot is disabled, and a name is stored under the uid of its slot.
UsersWellFormed ==
    \A s \in Slot : IF users[s].name = NoName THEN ~users[s].enabled
                                            ELSE users[s].uid = s

\* A session is one of an account, under a name, and its record is in the list.
SessionShape ==
    \A c \in Client :
        authenticated[c] => conn[c] # "none" /\ user[c] \in Slot /\ chatname[c] # NoName

\* A step leaves the accounts alone, loads a table or lets a password expire.
LEMMA UsersChange ==
  ASSUME [SessionNext]_sessionVars
  PROVE  \/ UNCHANGED users
         \/ \E table \in AccountTables :
               Reload(table) \/ \E c \in Client : RefreshEvicts(c, table)
         \/ \E s \in Slot : ExpirePassword(s)
<1>1. CASE \E c \in Client : SessionMessage(c)
  BY <1>1 DEF SessionMessage, Logout, KickExpired, AdminKick, Unmute,
              HandlerReturns, accountVars
<1>2. CASE \E c, d \in Client : Mute(c, d)
  BY <1>2 DEF Mute
<1>3. CASE \E c \in Client : LoginMessage(c)
  BY <1>3 DEF LoginMessage, LoginChallenge, LoginRefused, PassAccepted,
              PassRefused, accountVars
<1>4. CASE \E c \in Client : Connect(c) \/ Close(c)
  BY <1>4 DEF Connect, Close, accountVars
<1>5. CASE UNCHANGED sessionVars
  BY <1>5 DEF sessionVars, accountVars
<1> QED
  BY <1>1, <1>2, <1>3, <1>4, <1>5 DEF SessionNext

\* When a password expires, nothing else in the table changes.
LEMMA ExpireKeeps ==
  ASSUME SessionTypeOK, NEW s \in Slot, ExpirePassword(s), NEW t \in Slot
  PROVE  /\ users'[t].name = users[t].name
         /\ users'[t].enabled = users[t].enabled
         /\ users'[t].uid = users[t].uid
  BY DEF ExpirePassword, SessionTypeOK, Account

\* The table stays well formed.
LEMMA UsersStep ==
  SessionTypeOK /\ UsersWellFormed /\ [SessionNext]_sessionVars => UsersWellFormed'
<1> SUFFICES ASSUME SessionTypeOK, UsersWellFormed, [SessionNext]_sessionVars
             PROVE  UsersWellFormed'
  OBVIOUS
<1>1. CASE UNCHANGED users
  BY <1>1 DEF UsersWellFormed
<1>2. ASSUME NEW table \in AccountTables, Load(table)
      PROVE  UsersWellFormed'
  BY <1>2, SessionAssumption DEF Load, UsersWellFormed, WellFormed
<1>3. CASE \E s \in Slot : ExpirePassword(s)
  BY <1>3, ExpireKeeps DEF UsersWellFormed
<1> QED
  BY <1>1, <1>2, <1>3, UsersChange DEF Reload, RefreshEvicts

\* What a session is shown under, per connection.
Named(c) ==
    LET charged == users[user[c]]
        judged  == users[charged.uid]
    IN  /\ chatname[c] # NoName
        /\ chatname[c] = judged.name
        /\ judged.enabled
        /\ charged.name # NoName => chatname[c] = charged.name

SessionsInv ==
    /\ SessionTypeOK
    /\ UsersWellFormed
    /\ SessionShape
    /\ SessionNamesAccount

\* Steps that leave identities and accounts alone and open no session again.
LEMMA NamesKept ==
  ASSUME SessionsInv, UNCHANGED <<user, authenticated, chatname, users>>,
         \A c \in Client : /\ conn'[c] = "none" => conn[c] = "none"
                           /\ conn'[c] = "open" => conn[c] = "open" \/ ~authenticated[c]
  PROVE  SessionShape' /\ SessionNamesAccount'
  BY DEF SessionsInv, SessionShape, SessionNamesAccount

\* A kick opens nothing and frees nothing.
LEMMA KickKeeps ==
  ASSUME NEW S, Kick(S), NEW c \in Client
  PROVE  /\ conn'[c] = "none" => conn[c] = "none"
         /\ conn'[c] = "open" => conn[c] = "open"
  BY DEF Kick

\* A connection that is not logged in gets another account, or none.
LEMMA NamesIgnoreLogin ==
  ASSUME SessionsInv, NEW c \in Client, ~authenticated[c],
         \A d \in Client \ {c} : user'[d] = user[d],
         \A d \in Client : /\ conn'[d] = "none" => conn[d] = "none"
                           /\ conn'[d] = "open" => conn[d] = "open",
         UNCHANGED <<authenticated, chatname, users>>
  PROVE  SessionShape' /\ SessionNamesAccount'
<1>1. \A d \in Client : authenticated'[d] => authenticated[d] /\ user'[d] = user[d]
  OBVIOUS
<1> QED
  BY <1>1 DEF SessionsInv, SessionShape, SessionNamesAccount

\* An accepted reply names the account that the uid in the slot leads to.  If
\* the slot holds an account, that is the account of the slot.
LEMMA NamesAccepted ==
  ASSUME SessionsInv, NEW c \in Client, PassAccepted(c)
  PROVE  SessionShape' /\ SessionNamesAccount'
<1> DEFINE uid == users[user[c]].uid
<1>1. user[c] \in Slot /\ uid \in Slot
  BY DEF PassAccepted, SessionsInv, SessionTypeOK, Account
<1>2. /\ users[uid].enabled /\ chatname' = [chatname EXCEPT ![c] = users[uid].name]
      /\ authenticated' = [authenticated EXCEPT ![c] = TRUE]
      /\ conn[c] = "open" /\ UNCHANGED <<conn, user, users>>
  BY DEF PassAccepted
<1>3. users[uid].name # NoName
  BY <1>1, <1>2 DEF SessionsInv, UsersWellFormed
<1>4. users[user[c]].name # NoName => uid = user[c]
  BY <1>1 DEF SessionsInv, UsersWellFormed
<1>5. chatname'[c] = users[uid].name /\ conn'[c] = "open"
  BY <1>2 DEF SessionsInv, SessionTypeOK
<1>6. \A d \in Client \ {c} : /\ chatname'[d] = chatname[d]
                              /\ authenticated'[d] = authenticated[d]
  BY <1>2 DEF SessionsInv, SessionTypeOK
<1>7. SessionShape'
  BY <1>1, <1>2, <1>3, <1>5, <1>6 DEF SessionsInv, SessionShape
<1>8. SessionNamesAccount'
  <2> SUFFICES ASSUME NEW d \in Client, conn'[d] = "open", authenticated'[d]
               PROVE  Named(d)'
    BY DEF SessionNamesAccount, Named
  <2>1. CASE d = c
    BY <1>2, <1>3, <1>4, <1>5, <2>1 DEF Named
  <2>2. CASE d # c
    BY <1>2, <1>6, <2>2 DEF SessionsInv, SessionNamesAccount, Named
  <2> QED
    BY <2>1, <2>2
<1> QED
  BY <1>7, <1>8

\* A session that a new table leaves open keeps its account in its slot.
LEMMA NamesLoad ==
  ASSUME SessionsInv, NEW table \in AccountTables, Load(table),
         \A c \in Client :
            /\ conn'[c] = "none" => conn[c] = "none"
            /\ conn'[c] = "open" => conn[c] = "open" /\ c \notin Evicted(table)
  PROVE  SessionShape' /\ SessionNamesAccount'
<1>1. users' = table /\ UNCHANGED <<user, authenticated, chatname>>
  BY DEF Load
<1>2. SessionShape'
  BY <1>1 DEF SessionsInv, SessionShape
<1>3. SessionNamesAccount'
  <2> SUFFICES ASSUME NEW c \in Client, conn'[c] = "open", authenticated'[c]
               PROVE  Named(c)'
    BY DEF SessionNamesAccount, Named
  <2> DEFINE s == user[c]
  <2>1. conn[c] = "open" /\ authenticated[c] /\ c \notin Evicted(table)
    BY <1>1
  <2>2. s \in Slot /\ Named(c)
    BY <2>1 DEF SessionsInv, SessionShape, SessionNamesAccount, Named
  <2>3. SameAccount(table, s) /\ table[s].enabled
    BY <2>1 DEF Evicted, LoggedIn
  <2>4. chatname[c] = table[s].name /\ table[s].name # NoName
    BY <2>2, <2>3 DEF SameAccount, Named
  <2>5. table[s].uid = s
    BY <2>2, <2>4, SessionAssumption DEF WellFormed
  <2> QED
    BY <1>1, <2>3, <2>4, <2>5 DEF Named
<1> QED
  BY <1>2, <1>3

\* A closed connection is no session.
LEMMA NamesClose ==
  ASSUME SessionsInv, NEW c \in Client, Close(c)
  PROVE  SessionShape' /\ SessionNamesAccount'
<1>1. ~authenticated'[c] /\ users' = users
  BY DEF Close, SessionsInv, SessionTypeOK
<1>2. \A d \in Client \ {c} :
        /\ user'[d] = user[d] /\ authenticated'[d] = authenticated[d]
        /\ chatname'[d] = chatname[d] /\ conn'[d] = conn[d]
  BY DEF Close, SessionsInv, SessionTypeOK
<1>3. SessionShape'
  BY <1>1, <1>2 DEF SessionsInv, SessionShape
<1>4. SessionNamesAccount'
  BY <1>1, <1>2 DEF SessionsInv, SessionNamesAccount
<1> QED
  BY <1>3, <1>4

\* The names survive the expiry of a password: accounts and slots stay.
LEMMA NamesExpire ==
  ASSUME SessionsInv, NEW s \in Slot, ExpirePassword(s)
  PROVE  SessionShape' /\ SessionNamesAccount'
<1>1. UNCHANGED <<conn, user, authenticated, chatname>>
  BY DEF ExpirePassword, connVars
<1>2. SessionShape'
  BY <1>1 DEF SessionsInv, SessionShape
<1>3. SessionNamesAccount'
  <2> SUFFICES ASSUME NEW c \in Client, conn[c] = "open", authenticated[c]
               PROVE  Named(c)'
    BY <1>1 DEF SessionNamesAccount, Named
  <2>1. Named(c) /\ user[c] \in Slot
    BY DEF SessionsInv, SessionNamesAccount, SessionShape, Named
  <2>2. users[user[c]].uid \in Slot
    BY <2>1 DEF SessionsInv, SessionTypeOK, Account
  <2>3. \A t \in Slot : /\ users'[t].name = users[t].name
                        /\ users'[t].enabled = users[t].enabled
                        /\ users'[t].uid = users[t].uid
    BY ExpireKeeps DEF SessionsInv
  <2> QED
    BY <1>1, <2>1, <2>2, <2>3 DEF Named
<1> QED
  BY <1>2, <1>3

\* Every step keeps the names.
LEMMA StepNamed == SessionsInv /\ [SessionNext]_sessionVars => SessionsInv'
<1> SUFFICES ASSUME SessionsInv, [SessionNext]_sessionVars
             PROVE  SessionShape' /\ SessionNamesAccount'
  BY StepTyped, UsersStep DEF SessionsInv
<1>1. CASE \E c \in Client : SessionMessage(c)
  <2>1. UNCHANGED <<user, authenticated, chatname, users>> /\ \E S : Kick(S)
    BY <1>1 DEF SessionMessage, Logout, KickExpired, AdminKick, Unmute,
                HandlerReturns, Return, accountVars
  <2> QED
    BY <2>1, KickKeeps, NamesKept
<1>2. CASE \E c, d \in Client : Mute(c, d)
  BY <1>2, KickKeeps, NamesKept DEF Mute, Return
<1>3. ASSUME NEW c \in Client, LoginMessage(c)
      PROVE  SessionShape' /\ SessionNamesAccount'
  <2>1. CASE \E s \in Slot : LoginChallenge(c, s)
    BY <2>1, NamesIgnoreLogin DEF LoginChallenge, accountVars, SessionsInv, SessionTypeOK
  <2>2. CASE \E u \in Slot \cup {NoUser} : LoginRefused(c, u)
    BY <2>2, KickKeeps, NamesIgnoreLogin
       DEF LoginRefused, accountVars, SessionsInv, SessionTypeOK
  <2>3. CASE PassAccepted(c)
    BY <2>3, NamesAccepted
  <2>4. CASE \E compared \in BOOLEAN : PassRefused(c, compared)
    BY <2>4, KickKeeps, NamesKept DEF PassRefused, accountVars
  <2> QED
    BY <1>3, <2>1, <2>2, <2>3, <2>4 DEF LoginMessage
<1>4. ASSUME NEW c \in Client, Connect(c)
      PROVE  SessionShape' /\ SessionNamesAccount'
  <2>1. ~authenticated[c]
    BY <1>4 DEF Connect, SessionsInv, SessionShape
  <2>2. /\ UNCHANGED <<user, authenticated, chatname, users>>
        /\ \A d \in Client : /\ conn'[d] = "none" => conn[d] = "none"
                             /\ conn'[d] = "open" => conn[d] = "open" \/ ~authenticated[d]
    BY <1>4, <2>1 DEF Connect, accountVars, SessionsInv, SessionTypeOK
  <2> QED
    BY <2>2, NamesKept
<1>5. CASE \E c \in Client : Close(c)
  BY <1>5, NamesClose
<1>6. ASSUME NEW table \in AccountTables, Reload(table)
      PROVE  SessionShape' /\ SessionNamesAccount'
  BY <1>6, NamesLoad DEF Reload, Kick
<1>7. ASSUME NEW table \in AccountTables, NEW c \in Client, RefreshEvicts(c, table)
      PROVE  SessionShape' /\ SessionNamesAccount'
  BY <1>7, NamesLoad DEF RefreshEvicts
<1>8. CASE \E s \in Slot : ExpirePassword(s)
  BY <1>8, NamesExpire
<1>9. CASE UNCHANGED sessionVars
  BY <1>9, NamesKept DEF sessionVars, connVars, accountVars
<1> QED
  BY <1>1, <1>2, <1>3, <1>4, <1>5, <1>6, <1>7, <1>8, <1>9 DEF SessionNext

\* The initial states are of the shape the steps keep.
LEMMA InitNamed == SessionInit => SessionsInv
<1> SUFFICES ASSUME SessionInit PROVE SessionsInv
  OBVIOUS
<1>1. UsersWellFormed
  BY SessionAssumption DEF SessionInit, UsersWellFormed, WellFormed
<1>2. SessionShape /\ SessionNamesAccount
  BY DEF SessionInit, SessionShape, SessionNamesAccount
<1> QED
  BY <1>1, <1>2, InitTyped DEF SessionsInv

\* An open session has one enabled account behind its name and its privileges:
\* the one it is charged to, unless that slot was erased under it.
THEOREM NamesAccount == SessionSpec => []SessionNamesAccount
<1>1. SessionsInv => SessionNamesAccount
  BY DEF SessionsInv
<1> QED
  BY <1>1, InitNamed, StepNamed, PTL DEF SessionSpec

-----------------------------------------------------------------------------
(* The exact count of a slot that keeps its account *)

\* Every table has the same account in the slot.
Keeps(s) == \A old, new \in AccountTables : old[s].name = new[s].name

\* The name in the slot is the one of every table, and a connection is only
\* ever given a slot that holds an account.
KeptNamed ==
    \A s \in Slot :
        Keeps(s) =>
            /\ \A table \in AccountTables : users[s].name = table[s].name
            /\ \A c \in Client : user[c] = s => users[s].name # NoName

CountInv == SessionTypeOK /\ KeptNamed /\ SessionsCounted

\* Names stay, users stay or are given a slot with an account.
LEMMA KeptNamedStep ==
  SessionTypeOK /\ KeptNamed /\ [SessionNext]_sessionVars => KeptNamed'
<1> SUFFICES ASSUME SessionTypeOK, KeptNamed, [SessionNext]_sessionVars,
                    NEW s \in Slot, Keeps(s)
             PROVE  /\ \A table \in AccountTables : users'[s].name = table[s].name
                    /\ \A c \in Client : user'[c] = s => users'[s].name # NoName
  BY DEF KeptNamed, Keeps
<1>1. users'[s].name = users[s].name
  <2>1. CASE \E table \in AccountTables : Load(table)
    BY <2>1 DEF Load, KeptNamed
  <2> QED
    BY <2>1, UsersChange, ExpireKeeps DEF Reload, RefreshEvicts
<1>2. ASSUME NEW c \in Client, user'[c] = s
      PROVE  user[c] = s \/ users[s].name # NoName
  <2>1. CASE \E d \in Client : SessionMessage(d)
    BY <1>2, <2>1 DEF SessionMessage, Logout, KickExpired, AdminKick, Unmute,
                      HandlerReturns
  <2>2. CASE \E d, e \in Client : Mute(d, e)
    BY <1>2, <2>2 DEF Mute
  <2>3. ASSUME NEW d \in Client, LoginMessage(d)
        PROVE  user[c] = s \/ users[s].name # NoName
    <3>1. CASE \E t \in Slot : LoginChallenge(d, t)
      BY <1>2, <3>1 DEF LoginChallenge, SessionTypeOK
    <3>2. CASE \E u \in Slot \cup {NoUser} : LoginRefused(d, u)
      BY <1>2, <3>2, SessionAssumption DEF LoginRefused, SessionTypeOK
    <3>3. CASE PassAccepted(d) \/ \E compared \in BOOLEAN : PassRefused(d, compared)
      BY <1>2, <3>3 DEF PassAccepted, PassRefused
    <3> QED
      BY <2>3, <3>1, <3>2, <3>3 DEF LoginMessage
  <2>4. CASE \E d \in Client : Connect(d)
    BY <1>2, <2>4 DEF Connect
  <2>5. CASE \E d \in Client : Close(d)
    BY <1>2, <2>5, SessionAssumption DEF Close, SessionTypeOK
  <2>6. CASE \E table \in AccountTables :
               Reload(table) \/ \E d \in Client : RefreshEvicts(d, table)
    BY <1>2, <2>6 DEF Reload, RefreshEvicts, Load
  <2>7. CASE \E t \in Slot : ExpirePassword(t)
    BY <1>2, <2>7 DEF ExpirePassword, connVars
  <2>8. CASE UNCHANGED sessionVars
    BY <1>2, <2>8 DEF sessionVars, connVars
  <2> QED
    BY <2>1, <2>2, <2>3, <2>4, <2>5, <2>6, <2>7, <2>8 DEF SessionNext
<1> QED
  BY <1>1, <1>2 DEF KeptNamed

\* The count of one slot, per slot.
Exact(s) == sessions[s] = Cardinality(LiveSessions(s))

\* Steps that touch neither the sessions of the slot nor its counter.
LEMMA ExactKept ==
  ASSUME NEW s \in Slot, Exact(s), LiveSessions(s)' = LiveSessions(s),
         sessions'[s] = sessions[s]
  PROVE  Exact(s)'
  BY DEF Exact

\* An accepted reply is one session and one count more.
LEMMA ExactAccepted ==
  ASSUME SessionTypeOK, NEW c \in Client, PassAccepted(c), NEW s \in Slot, Exact(s)
  PROVE  Exact(s)'
<1>1. CASE user[c] = s
  <2>1. LiveSessions(s)' = LiveSessions(s) \cup {c} /\ c \notin LiveSessions(s)
    BY <1>1 DEF SessionTypeOK, PassAccepted, LiveSessions, LoggedIn
  <2>2. Cardinality(LiveSessions(s)') = Cardinality(LiveSessions(s)) + 1
    BY <2>1, LiveFinite, FS_AddElement
  <2>3. sessions'[s] = sessions[s] + 1
    BY <1>1 DEF SessionTypeOK, PassAccepted
  <2> QED
    BY <2>2, <2>3 DEF Exact
<1>2. CASE user[c] # s
  <2>1. LiveSessions(s)' = LiveSessions(s)
    BY <1>2 DEF SessionTypeOK, PassAccepted, LiveSessions, LoggedIn
  <2>2. sessions'[s] = sessions[s]
    BY <1>2 DEF SessionTypeOK, PassAccepted
  <2> QED
    BY <2>1, <2>2, ExactKept
<1> QED
  BY <1>1, <1>2

\* A close is one session and one count less: the counter is not zero.
LEMMA ExactClose ==
  ASSUME SessionTypeOK, NEW c \in Client, Close(c), NEW s \in Slot, Exact(s)
  PROVE  Exact(s)'
<1>1. LiveSessions(s)' = LiveSessions(s) \ {c}
  BY SessionAssumption DEF SessionTypeOK, Close, LiveSessions, LoggedIn
<1>2. CASE c \in LiveSessions(s)
  <2>1. authenticated[c] /\ user[c] = s /\ user[c] # NoUser
    BY <1>2, SessionAssumption DEF LiveSessions, LoggedIn
  <2>2. Cardinality(LiveSessions(s)') = Cardinality(LiveSessions(s)) - 1
    BY <1>1, <1>2, LiveFinite, FS_RemoveElement
  <2>3. Cardinality(LiveSessions(s)) # 0
    BY <1>2, LiveFinite, FS_EmptySet
  <2>4. sessions'[s] = sessions[s] - 1
    BY <2>1, <2>3, LiveFinite DEF SessionTypeOK, Close, Exact
  <2> QED
    BY <2>2, <2>4 DEF Exact
<1>3. CASE c \notin LiveSessions(s)
  <2>1. sessions'[s] = sessions[s]
    BY <1>3 DEF SessionTypeOK, Close, LiveSessions, LoggedIn
  <2> QED
    BY <1>1, <1>3, <2>1, ExactKept
<1> QED
  BY <1>2, <1>3

\* Loading a table keeps the counter of an account that keeps its slot; a slot
\* that is erased in every table has no sessions.
LEMMA ExactLoad ==
  ASSUME SessionTypeOK, KeptNamed, NEW table \in AccountTables, Load(table),
         NEW s \in Slot, Keeps(s), Exact(s)
  PROVE  Exact(s)'
<1>1. LiveSessions(s)' = LiveSessions(s)
  BY DEF Load, LiveSessions, LoggedIn
<1>2. users[s].name = table[s].name
  BY DEF KeptNamed
<1>3. CASE users[s].name # NoName
  <2>1. sessions'[s] = sessions[s]
    BY <1>2, <1>3 DEF Load, SameAccount
  <2> QED
    BY <1>1, <2>1, ExactKept
<1>4. CASE users[s].name = NoName
  <2>1. sessions'[s] = 0
    BY <1>2, <1>4 DEF Load, SameAccount
  <2>2. LiveSessions(s) = {}
    BY <1>4 DEF KeptNamed, LiveSessions, LoggedIn
  <2> QED
    BY <1>1, <2>1, <2>2, FS_EmptySet DEF Exact
<1> QED
  BY <1>3, <1>4

\* Every step keeps the exact counts.
LEMMA StepExact == CountInv /\ [SessionNext]_sessionVars => CountInv'
<1> SUFFICES ASSUME CountInv, [SessionNext]_sessionVars, NEW s \in Slot, Keeps(s)
             PROVE  Exact(s)'
  BY StepTyped, KeptNamedStep DEF CountInv, SessionsCounted, Keeps, Exact
<1>0. SessionTypeOK /\ KeptNamed /\ Exact(s)
  BY DEF CountInv, SessionsCounted, Keeps, Exact
<1>1. CASE UNCHANGED <<user, authenticated, sessions>>
  BY <1>0, <1>1, ExactKept DEF LiveSessions, LoggedIn
<1>2. CASE \E c \in Client : SessionMessage(c)
  BY <1>1, <1>2
     DEF SessionMessage, Logout, KickExpired, AdminKick, Unmute, HandlerReturns,
         accountVars
<1>3. CASE \E c, d \in Client : Mute(c, d)
  BY <1>1, <1>3 DEF Mute
<1>4. ASSUME NEW c \in Client, LoginMessage(c)
      PROVE  Exact(s)'
  <2>1. CASE PassAccepted(c)
    BY <1>0, <2>1, ExactAccepted
  <2>2. ASSUME ~authenticated[c], \A d \in Client \ {c} : user'[d] = user[d],
               UNCHANGED <<authenticated, sessions>>
        PROVE  Exact(s)'
    BY <1>0, <2>2, ExactKept DEF LiveSessions, LoggedIn
  <2>3. CASE \E t \in Slot : LoginChallenge(c, t)
    BY <1>0, <2>2, <2>3 DEF LoginChallenge, SessionTypeOK, accountVars
  <2>4. CASE \E u \in Slot \cup {NoUser} : LoginRefused(c, u)
    BY <1>0, <2>2, <2>4 DEF LoginRefused, SessionTypeOK, accountVars
  <2>5. CASE \E compared \in BOOLEAN : PassRefused(c, compared)
    BY <1>1, <2>5 DEF PassRefused, accountVars
  <2> QED
    BY <1>4, <2>1, <2>3, <2>4, <2>5 DEF LoginMessage
<1>5. CASE \E c \in Client : Connect(c)
  BY <1>1, <1>5 DEF Connect, accountVars
<1>6. CASE \E c \in Client : Close(c)
  BY <1>0, <1>6, ExactClose
<1>7. CASE \E table \in AccountTables :
             Reload(table) \/ \E c \in Client : RefreshEvicts(c, table)
  BY <1>0, <1>7, ExactLoad DEF Reload, RefreshEvicts
<1>8. CASE \E t \in Slot : ExpirePassword(t)
  BY <1>1, <1>8 DEF ExpirePassword, connVars
<1>9. CASE UNCHANGED sessionVars
  BY <1>1, <1>9 DEF sessionVars, connVars, accountVars
<1> QED
  BY <1>2, <1>3, <1>4, <1>5, <1>6, <1>7, <1>8, <1>9 DEF SessionNext

\* There are no sessions, and no counts, at the start.
LEMMA InitExact == SessionInit => CountInv
<1> SUFFICES ASSUME SessionInit PROVE CountInv
  OBVIOUS
<1>1. KeptNamed
  BY SessionAssumption DEF SessionInit, KeptNamed, Keeps
<1>2. SessionsCounted
  <2> SUFFICES ASSUME NEW s \in Slot PROVE sessions[s] = Cardinality(LiveSessions(s))
    BY DEF SessionsCounted
  <2>1. LiveSessions(s) = {} /\ sessions[s] = 0
    BY DEF SessionInit, LiveSessions, LoggedIn
  <2> QED
    BY <2>1, FS_EmptySet
<1> QED
  BY <1>1, <1>2, InitTyped DEF CountInv

\* Each session of an account that keeps its slot is counted in once and out
\* once, for any tables the other slots go through.
THEOREM CountsExact == SessionSpec => []SessionsCounted
<1>1. CountInv => SessionsCounted
  BY DEF CountInv
<1> QED
  BY <1>1, InitExact, StepExact, PTL DEF SessionSpec


-----------------------------------------------------------------------------
(* The override hierarchy *)

\* CanOverride is a strict order on all sets of privileges.
LEMMA CanOverrideOrder ==
  ASSUME NEW p, NEW q, NEW r
  PROVE  /\ ~CanOverride(p, p)
         /\ CanOverride(p, q) /\ CanOverride(q, r) => CanOverride(p, r)
BY DEF CanOverride

\* No session can stop the transmission of one with equal or higher authority
\* (ws_ptt_can_override), whatever accounts are logged in.
THEOREM OverrideStrict == Spec => []OverrideIsStrict
<1>1. OverrideIsStrict
  BY CanOverrideOrder DEF OverrideIsStrict
<1> QED
  BY <1>1, PTL

-----------------------------------------------------------------------------
(* Every step is a step of the sessions *)

LEMMA ReturnIsSessionStep ==
  ASSUME SessionTypeOK, NEW c \in Client, Handling(c), Return,
         UNCHANGED <<user, authenticated, nonce, chatname, accountVars>>
  PROVE  [SessionNext]_sessionVars
<1>1. CASE conn[c] = "evicted"
  BY <1>1 DEF HandlerReturns, SessionMessage, SessionNext
<1>2. CASE Idle
  <2>1. conn' = conn
    BY <1>2 DEF Return, Kick, Idle, SessionTypeOK
  <2> QED
    BY <2>1 DEF sessionVars, connVars
<1> QED
  BY <1>1, <1>2 DEF Handling

LEMMA PttStepIsSessionStep ==
  SessionTypeOK /\ [Next]_vars => [SessionNext]_sessionVars
<1> SUFFICES ASSUME SessionTypeOK, [Next]_vars
             PROVE  [SessionNext]_sessionVars
  OBVIOUS
<1>1. ASSUME NEW c \in Client, Command(c)
      PROVE  [SessionNext]_sessionVars
  <2>1. CASE \E r \in Room, v \in Vfo : KeyDown(c, r, v)
    BY <2>1, ReturnIsSessionStep DEF KeyDown, MayCommand
  <2>2. CASE OwnRelease(c)
    BY <2>2, ReturnIsSessionStep DEF OwnRelease, MayCommand
  <2>3. CASE \E h \in Client : OverrideRelease(c, h)
    BY <2>3, ReturnIsSessionStep DEF OverrideRelease, MayCommand
  <2>4. CASE \E r \in Room : JoinRoom(c, r) \/ PartRoom(c, r)
    BY <2>4, ReturnIsSessionStep DEF JoinRoom, PartRoom, MayCommand
  <2>5. CASE \E d \in Client : MuteAccount(c, d)
    BY <2>5 DEF MuteAccount, SessionNext
  <2> QED
    BY <1>1, <2>1, <2>2, <2>3, <2>4, <2>5 DEF Command
<1>2. CASE SessionStep
  BY <1>2 DEF SessionStep, SessionNext
<1>3. CASE Idle /\ \E c \in Client : CloseSession(c)
  BY <1>3 DEF CloseSession, SessionNext
<1>4. CASE Idle /\ AccountsChange
  BY <1>4 DEF AccountsChange, SessionNext
<1>5. CASE Environment
  BY <1>5 DEF Environment, CooldownEnds, SetVfoMask, RemoteTalk
<1>6. CASE UNCHANGED vars
  BY <1>6 DEF vars
<1> QED
  BY <1>1, <1>2, <1>3, <1>4, <1>5, <1>6 DEF Next

\* Push-to-talk adds nothing to what sessions do, so what is proved of the
\* sessions alone holds here too.
THEOREM PttComposes == Spec => SessionSpec
<1>1. Init => SessionInit
  BY DEF Init
<1> QED
  BY <1>1, InitTyped, StepTyped, PttStepIsSessionStep, PTL DEF Spec, SessionSpec

-----------------------------------------------------------------------------
(* Types *)

LEMMA ReleaseTyped ==
  ASSUME PttTypeOK, NEW S, ReleasePtt(S)
  PROVE  /\ is_ptt' \in [Client -> BOOLEAN]
         /\ ptt_vfo' \in [Client -> Vfo \cup {NoVfo}]
         /\ ptt_room' \in [Client -> Room \cup {NoRoom}]
         /\ transmitting' \in SUBSET (Room \X Vfo)
  BY DEF PttTypeOK, ReleasePtt

LEMMA PttStepTyped == PttTypeOK /\ [Next]_vars => PttTypeOK'
<1> SUFFICES ASSUME PttTypeOK, [Next]_vars
             PROVE  PttTypeOK'
  OBVIOUS
<1>0. SessionTypeOK'
  BY PttStepIsSessionStep, StepTyped DEF PttTypeOK
<1>1. ASSUME NEW c \in Client, Command(c)
      PROVE  PttTypeOK'
  <2>1. CASE \E r \in Room, v \in Vfo : KeyDown(c, r, v)
    BY <1>0, <2>1 DEF PttTypeOK, KeyDown
  <2>2. CASE OwnRelease(c)
    BY <1>0, <2>2 DEF PttTypeOK, OwnRelease
  <2>3. CASE \E h \in Client : OverrideRelease(c, h)
    <3>1. PICK h \in Client : OverrideRelease(c, h)
      BY <2>3
    <3>2. (noob_cooldown[h] \/ HasPriv(h, {"noob"})) \in BOOLEAN
      BY DEF PttTypeOK
    <3>3. noob_cooldown' \in [Client -> BOOLEAN]
      BY <3>1, <3>2 DEF PttTypeOK, OverrideRelease
    <3> QED
      BY <1>0, <3>1, <3>3 DEF PttTypeOK, OverrideRelease
  <2>4. CASE \E r \in Room : JoinRoom(c, r)
    BY <1>0, <2>4 DEF PttTypeOK, JoinRoom, keyVars
  <2>5. CASE \E r \in Room : PartRoom(c, r)
    BY <1>0, <2>5 DEF PttTypeOK, PartRoom, keyVars
  <2>6. CASE \E d \in Client : MuteAccount(c, d)
    BY <1>0, <2>6, ReleaseTyped DEF PttTypeOK, MuteAccount
  <2> QED
    BY <1>1, <2>1, <2>2, <2>3, <2>4, <2>5, <2>6 DEF Command
<1>2. CASE SessionStep
  BY <1>0, <1>2 DEF PttTypeOK, SessionStep, pttVars, keyVars
<1>3. CASE \E c \in Client : CloseSession(c)
  BY <1>0, <1>3, ReleaseTyped DEF PttTypeOK, CloseSession
<1>4. CASE AccountsChange
  BY <1>0, <1>4, ReleaseTyped DEF PttTypeOK, AccountsChange, PttReload
<1>5. CASE \E c \in Client : CooldownEnds(c)
  BY <1>0, <1>5 DEF PttTypeOK, CooldownEnds, keyVars
<1>6. CASE \E r \in Room, mask \in VfoMasks : SetVfoMask(r, mask)
  BY <1>0, <1>6, PttAssumption DEF PttTypeOK, SetVfoMask, keyVars
<1>7. CASE RemoteTalk
  BY <1>0, <1>7 DEF PttTypeOK, RemoteTalk, keyVars
<1>8. CASE UNCHANGED vars
  BY <1>0, <1>8 DEF PttTypeOK, vars, pttVars, keyVars
<1> QED
  BY <1>1, <1>2, <1>3, <1>4, <1>5, <1>6, <1>7, <1>8 DEF Next, Environment

LEMMA PttInitTyped == Init => PttTypeOK
  BY InitTyped, PttAssumption DEF Init, PttTypeOK

\* Every variable of push-to-talk has its type in every reachable state.
THEOREM PttTypeCorrect == Spec => []PttTypeOK
  BY PttInitTyped, PttStepTyped, PTL DEF Spec

-----------------------------------------------------------------------------
(* The account table and the sessions that can be keyed *)

\* A session is authenticated with an account and a name; only such a session
\* is keyed, and on a channel.
KeyedIsSession ==
    \A c \in Client :
        /\ authenticated[c] => user[c] \in Slot /\ chatname[c] # NoName
        /\ is_ptt[c] => authenticated[c] /\ KeyedChannel(c) \in Room \X Vfo

\* What the steps without a say in push-to-talk leave alone: they log a
\* connection in, at most, and move no session to another account.
LEMMA LoginKeeps ==
  ASSUME SessionTypeOK, UsersWellFormed, NEW c \in Client, LoginMessage(c),
         \A d \in Client : authenticated[d] => user[d] \in Slot /\ chatname[d] # NoName
  PROVE  /\ \A d \in Client :
              authenticated'[d] => user'[d] \in Slot /\ chatname'[d] # NoName
         /\ \A d \in Client : authenticated[d] => authenticated'[d]
         /\ \A d \in Client : authenticated[d] => user'[d] = user[d]
         /\ UNCHANGED <<users, is_muted>>
<1>1. CASE \E s \in Slot : LoginChallenge(c, s)
  BY <1>1 DEF LoginChallenge, SessionTypeOK, accountVars
<1>2. CASE \E u \in Slot \cup {NoUser} : LoginRefused(c, u)
  BY <1>2 DEF LoginRefused, SessionTypeOK, accountVars
<1>3. CASE PassAccepted(c)
  <2>1. user[c] \in Slot /\ users[user[c]].uid \in Slot
    BY <1>3 DEF PassAccepted, SessionTypeOK, Account
  <2>2. users[users[user[c]].uid].name # NoName
    BY <1>3, <2>1 DEF PassAccepted, UsersWellFormed
  <2>3. /\ authenticated' = [authenticated EXCEPT ![c] = TRUE]
        /\ chatname' = [chatname EXCEPT ![c] = users[users[user[c]].uid].name]
        /\ UNCHANGED <<user, users, is_muted>>
    BY <1>3 DEF PassAccepted
  <2> QED
    BY <2>1, <2>2, <2>3 DEF SessionTypeOK
<1>4. CASE \E compared \in BOOLEAN : PassRefused(c, compared)
  BY <1>4 DEF PassRefused, accountVars
<1> QED
  BY <1>1, <1>2, <1>3, <1>4 DEF LoginMessage

-----------------------------------------------------------------------------
(* The inductive invariant *)

KeySafe ==
    /\ KeyedIsSession
    /\ SingleTalker
    /\ RigFollowsTalker
    /\ MutedNeverKeyed
    /\ KeyedHasAuthority

IInv == PttTypeOK /\ UsersWellFormed /\ KeySafe

\* The step takes the transmitter from the members of S, tells the rig, and
\* leaves the others on the channel they are keyed on.
Released(S) ==
    /\ is_ptt' = [c \in Client |-> is_ptt[c] /\ c \notin S]
    /\ transmitting' = transmitting \ {KeyedChannel(c) : c \in {x \in S : is_ptt[x]}}
    /\ \A c \in Client \ S : ptt_vfo'[c] = ptt_vfo[c] /\ ptt_room'[c] = ptt_room[c]

\* c keeps what a talker needs: its login, its account's right, its voice.
KeepsRight(c) ==
    /\ authenticated'[c]
    /\ user'[c] = user[c]
    /\ ~is_muted'[user[c]]
    /\ HasTxAuthority(c, ptt_room[c])'
    /\ ~users'[user[c]].password_change_required

LoginShape ==
    \A c \in Client : authenticated[c] => user[c] \in Slot /\ chatname[c] # NoName

\* A step that only takes the transmitter away keeps the invariant, if those
\* it spares keep their right to it.
LEMMA ReleaseKeepsSafe ==
  ASSUME PttTypeOK, KeySafe, LoginShape', NEW S \in SUBSET Client, Released(S),
         \A c \in Client : is_ptt[c] /\ c \notin S => KeepsRight(c)
  PROVE  KeySafe'
<1>1. \A c \in Client : is_ptt'[c] => is_ptt[c] /\ c \notin S
  BY DEF Released
<1>2. \A c \in Client : Keyed(c)' => Keyed(c) /\ c \notin S
  BY <1>1 DEF Keyed, KeySafe, KeyedIsSession
<1>3. \A c \in Client : Keyed(c) /\ c \notin S =>
          /\ Keyed(c)' /\ KeyedChannel(c)' = KeyedChannel(c)
  BY DEF Keyed, KeyedChannel, Released, KeepsRight
<1>4. KeyedIsSession'
  <2>1. ASSUME NEW c \in Client, is_ptt'[c]
        PROVE  authenticated'[c] /\ KeyedChannel(c)' \in Room \X Vfo
    <3>1. is_ptt[c] /\ c \notin S
      BY <1>1, <2>1
    <3>2. KeyedChannel(c) \in Room \X Vfo
      BY <3>1 DEF KeySafe, KeyedIsSession
    <3>3. KeyedChannel(c)' = KeyedChannel(c)
      BY <3>1 DEF KeyedChannel, Released
    <3> QED
      BY <3>1, <3>2, <3>3 DEF KeepsRight
  <2> QED
    BY <2>1 DEF KeyedIsSession, LoginShape
<1>5. SingleTalker'
  BY <1>2 DEF SingleTalker, KeySafe
<1>6. RigFollowsTalker'
  <2>1. transmitting = {KeyedChannel(c) : c \in Talkers}
    BY DEF KeySafe, RigFollowsTalker
  <2>2. \A c \in Client : is_ptt[c] <=> c \in Talkers
    BY DEF KeySafe, KeyedIsSession, Talkers, Keyed
  <2>3. \A c, d \in Talkers : c = d
    BY DEF KeySafe, SingleTalker, Talkers
  <2>4. Talkers' = Talkers \ S
    BY <1>2, <1>3 DEF Talkers
  <2>5. \A c \in Talkers \ S : KeyedChannel(c)' = KeyedChannel(c)
    BY <1>3 DEF Talkers
  <2>6. CASE Talkers = {}
    BY <2>1, <2>4, <2>6 DEF Released, RigFollowsTalker
  <2>7. CASE Talkers # {}
    <3>1. PICK c \in Client : Talkers = {c}
      BY <2>3, <2>7 DEF Talkers
    <3>2. CASE c \in S
      <4>1. transmitting' = {}
        BY <2>1, <2>2, <3>1, <3>2 DEF Released
      <4> QED
        BY <2>4, <3>1, <3>2, <4>1 DEF RigFollowsTalker
    <3>3. CASE c \notin S
      <4>1. {x \in S : is_ptt[x]} = {}
        BY <2>2, <3>1, <3>3
      <4>2. transmitting' = {KeyedChannel(c)}
        BY <2>1, <3>1, <4>1 DEF Released
      <4>3. Talkers' = {c} /\ KeyedChannel(c)' = KeyedChannel(c)
        BY <2>4, <2>5, <3>1, <3>3
      <4> QED
        BY <4>2, <4>3 DEF RigFollowsTalker
    <3> QED
      BY <3>2, <3>3
  <2> QED
    BY <2>6, <2>7
<1>7. MutedNeverKeyed'
  BY <1>2 DEF MutedNeverKeyed, KeepsRight, Keyed
<1>8. KeyedHasAuthority'
  <2> SUFFICES ASSUME NEW c \in Client, Keyed(c)'
               PROVE  /\ HasTxAuthority(c, ptt_room[c])'
                      /\ ~users'[user'[c]].password_change_required
    BY DEF KeyedHasAuthority
  <2>1. KeepsRight(c)
    BY <1>2 DEF Keyed
  <2> QED
    BY <2>1 DEF KeepsRight
<1> QED
  BY <1>4, <1>5, <1>6, <1>7, <1>8 DEF KeySafe

\* A step that leaves the transmitter alone.
LEMMA UntouchedKeepsSafe ==
  ASSUME PttTypeOK, KeySafe, LoginShape', UNCHANGED keyVars,
         \A c \in Client : is_ptt[c] => KeepsRight(c)
  PROVE  KeySafe'
<1>1. Released({})
  BY DEF Released, keyVars, PttTypeOK
<1> QED
  BY <1>1, ReleaseKeepsSafe

\* Who is keyed has the right to be, and keeps it while its account does not
\* change.
LEMMA KeyedKeepsRight ==
  ASSUME PttTypeOK, KeySafe, NEW c \in Client, is_ptt[c],
         authenticated'[c], user'[c] = user[c], ~is_muted'[user[c]],
         ptt_room'[c] = ptt_room[c], UNCHANGED users
  PROVE  KeepsRight(c)
<1>1. /\ HasTxAuthority(c, ptt_room[c])
      /\ ~users[user[c]].password_change_required
  BY DEF KeySafe, KeyedIsSession, KeyedHasAuthority, Keyed
<1> QED
  BY <1>1 DEF KeepsRight, HasTxAuthority, HasPriv, has_priv

\* A command that changes neither a login nor an account, whatever it does to
\* the transmitter short of keying it.
LEMMA CommandKeepsSafe ==
  ASSUME PttTypeOK, KeySafe, NEW S \in SUBSET Client, Released(S),
         UNCHANGED <<user, authenticated, chatname, users, is_muted>>
  PROVE  KeySafe'
<1>1. LoginShape'
  BY DEF LoginShape, KeySafe, KeyedIsSession
<1>2. ASSUME NEW c \in Client, is_ptt[c], c \notin S
      PROVE  KeepsRight(c)
  <2>1. authenticated[c] /\ ~is_muted[user[c]]
    BY <1>2 DEF KeySafe, KeyedIsSession, MutedNeverKeyed, Keyed
  <2>2. ptt_room'[c] = ptt_room[c]
    BY <1>2 DEF Released
  <2> QED
    BY <1>2, <2>1, <2>2, KeyedKeepsRight
<1> QED
  BY <1>1, <1>2, ReleaseKeepsSafe

\* A key-down makes c the talker, on the channel it asked for.
LEMMA KeyDownKeepsSafe ==
  ASSUME PttTypeOK, KeySafe, NEW c \in Client, NEW r \in Room, NEW v \in Vfo,
         KeyDown(c, r, v)
  PROVE  KeySafe'
<1>1. /\ authenticated[c] /\ user[c] \in Slot /\ chatname[c] # NoName
      /\ UNCHANGED <<user, authenticated, chatname, users, is_muted>>
  BY DEF KeyDown, MayCommand, KeySafe, KeyedIsSession, accountVars
<1>2. /\ is_ptt' = [is_ptt EXCEPT ![c] = TRUE]
      /\ ptt_vfo' = [ptt_vfo EXCEPT ![c] = v]
      /\ ptt_room' = [ptt_room EXCEPT ![c] = r]
      /\ transmitting' = transmitting \cup {<<r, v>>}
      /\ Talkers \subseteq {c}
      /\ is_ptt[c] => KeyedChannel(c) = <<r, v>>
  BY DEF KeyDown
<1>3. \A d \in Client : is_ptt[d] => d = c
  BY <1>2 DEF Talkers, Keyed, KeySafe, KeyedIsSession
<1>4. \A d \in Client : is_ptt'[d] <=> d = c
  BY <1>2, <1>3 DEF PttTypeOK
<1>5. KeyedChannel(c)' = <<r, v>>
  BY <1>2 DEF KeyedChannel, PttTypeOK
<1>6. Talkers' = {c}
  BY <1>1, <1>4 DEF Talkers, Keyed
<1>7. transmitting' = {<<r, v>>}
  <2>1. CASE is_ptt[c]
    <3>1. Talkers = {c}
      BY <1>1, <1>2, <2>1 DEF Talkers, Keyed
    <3> QED
      BY <1>2, <2>1, <3>1 DEF KeySafe, RigFollowsTalker
  <2>2. CASE ~is_ptt[c]
    <3>1. Talkers = {}
      BY <1>2, <2>2 DEF Talkers, Keyed
    <3> QED
      BY <1>2, <3>1 DEF KeySafe, RigFollowsTalker
  <2> QED
    BY <2>1, <2>2
<1>8. KeyedIsSession'
  BY <1>1, <1>4, <1>5 DEF KeySafe, KeyedIsSession
<1>9. SingleTalker'
  BY <1>4 DEF SingleTalker, Keyed
<1>10. RigFollowsTalker'
  BY <1>5, <1>6, <1>7 DEF RigFollowsTalker
<1>11. MutedNeverKeyed'
  <2>1. ~is_muted[user[c]]
    BY DEF KeyDown
  <2> QED
    BY <1>1, <1>4, <2>1 DEF MutedNeverKeyed, Keyed
<1>12. KeyedHasAuthority'
  <2>1. ~users[user[c]].password_change_required /\ HasTxAuthority(c, r)
    BY DEF KeyDown, MayCommand
  <2>2. ptt_room'[c] = r
    BY <1>2 DEF PttTypeOK
  <2>3. HasTxAuthority(c, ptt_room[c])'
    BY <1>1, <2>1, <2>2 DEF HasTxAuthority, HasPriv, has_priv
  <2> QED
    BY <1>1, <1>4, <2>1, <2>3 DEF KeyedHasAuthority, Keyed
<1> QED
  BY <1>8, <1>9, <1>10, <1>11, <1>12 DEF KeySafe

\* The commands of a session.
LEMMA CommandStep ==
  ASSUME PttTypeOK, KeySafe, NEW c \in Client, Command(c)
  PROVE  KeySafe'
<1>1. CASE \E r \in Room, v \in Vfo : KeyDown(c, r, v)
  BY <1>1, KeyDownKeepsSafe
<1>2. CASE OwnRelease(c)
  <2>1. Released({c})
    <3>1. /\ is_ptt[c] /\ is_ptt' = [is_ptt EXCEPT ![c] = FALSE]
          /\ ptt_vfo' = [ptt_vfo EXCEPT ![c] = NoVfo] /\ ptt_room' = ptt_room
          /\ transmitting' = transmitting \ {KeyedChannel(c)}
      BY <1>2 DEF OwnRelease
    <3> QED
      BY <3>1 DEF Released, PttTypeOK
  <2> QED
    BY <1>2, <2>1, CommandKeepsSafe DEF OwnRelease, accountVars
<1>3. CASE \E h \in Client : OverrideRelease(c, h)
  <2>1. PICK h \in Client : OverrideRelease(c, h)
    BY <1>3
  <2>2. Released({h})
    <3>1. /\ is_ptt[h] /\ is_ptt' = [is_ptt EXCEPT ![h] = FALSE]
          /\ ptt_vfo' = [ptt_vfo EXCEPT ![h] = NoVfo] /\ ptt_room' = ptt_room
          /\ transmitting' = transmitting \ {KeyedChannel(h)}
      BY <2>1 DEF OverrideRelease, Talkers, Keyed
    <3> QED
      BY <3>1 DEF Released, PttTypeOK
  <2> QED
    BY <2>1, <2>2, CommandKeepsSafe DEF OverrideRelease, accountVars
<1>4. CASE \E r \in Room : JoinRoom(c, r) \/ PartRoom(c, r)
  <2>1. Released({})
    BY <1>4 DEF JoinRoom, PartRoom, Released, keyVars, PttTypeOK
  <2> QED
    BY <1>4, <2>1, CommandKeepsSafe DEF JoinRoom, PartRoom, accountVars
<1>5. CASE \E d \in Client : MuteAccount(c, d)
  <2>1. PICK d \in Client : MuteAccount(c, d)
    BY <1>5
  <2> DEFINE S == {x \in Client : user[x] = user[d]}
  <2>2. /\ UNCHANGED <<user, authenticated, chatname, users>>
        /\ is_muted' = [is_muted EXCEPT ![user[d]] = TRUE]
    BY <2>1 DEF MuteAccount, Mute
  <2>3. Released(S)
    BY <2>1 DEF MuteAccount, ReleasePtt, Released
  <2>4. LoginShape'
    BY <2>2 DEF LoginShape, KeySafe, KeyedIsSession
  <2>5. ASSUME NEW x \in Client, is_ptt[x], x \notin S
        PROVE  KeepsRight(x)
    <3>1. authenticated[x] /\ ~is_muted[user[x]] /\ user[x] \in Slot
      BY <2>5 DEF KeySafe, KeyedIsSession, MutedNeverKeyed, Keyed
    <3>2. ~is_muted'[user[x]]
      BY <2>2, <2>5, <3>1 DEF PttTypeOK, SessionTypeOK
    <3>3. ptt_room'[x] = ptt_room[x]
      BY <2>3, <2>5 DEF Released
    <3> QED
      BY <2>2, <2>5, <3>1, <3>2, <3>3, KeyedKeepsRight
  <2> QED
    BY <2>3, <2>4, <2>5, ReleaseKeepsSafe
<1> QED
  BY <1>1, <1>2, <1>3, <1>4, <1>5 DEF Command

\* Session steps that have no say in push-to-talk.
LEMMA SessionStepKeepsSafe ==
  ASSUME PttTypeOK, UsersWellFormed, KeySafe, SessionStep
  PROVE  KeySafe'
<1>0. UNCHANGED keyVars
  BY DEF SessionStep, pttVars
<1>1. LoginShape
  BY DEF LoginShape, KeySafe, KeyedIsSession
<1>2. \A c \in Client : is_ptt[c] => authenticated[c] /\ ~is_muted[user[c]] /\ user[c] \in Slot
  BY DEF KeySafe, KeyedIsSession, MutedNeverKeyed, Keyed
<1>3. ASSUME LoginShape', UNCHANGED users,
             \A c \in Client : authenticated[c] =>
                 authenticated'[c] /\ user'[c] = user[c],
             \A s \in Slot : is_muted'[s] => is_muted[s]
      PROVE  KeySafe'
  BY <1>0, <1>2, <1>3, KeyedKeepsRight, UntouchedKeepsSafe DEF keyVars
<1>4. CASE \E c \in Client : SessionMessage(c)
  <2>1. UNCHANGED <<user, authenticated, chatname, users>>
    BY <1>4 DEF SessionMessage, Logout, KickExpired, AdminKick, Unmute,
                HandlerReturns, accountVars
  <2>2. \A s \in Slot : is_muted'[s] => is_muted[s]
    BY <1>4 DEF SessionMessage, Logout, KickExpired, AdminKick, Unmute,
                HandlerReturns, accountVars, PttTypeOK, SessionTypeOK
  <2> QED
    BY <1>1, <1>3, <2>1, <2>2 DEF LoginShape
<1>5. CASE \E c \in Client : Connect(c)
  BY <1>1, <1>3, <1>5 DEF Connect, accountVars, LoginShape
<1>6. CASE \E c \in Client : LoginMessage(c)
  <2>1. PICK c \in Client : LoginMessage(c)
    BY <1>6
  <2>2. /\ LoginShape'
        /\ \A d \in Client : authenticated[d] =>
              authenticated'[d] /\ user'[d] = user[d]
        /\ UNCHANGED <<users, is_muted>>
    BY <1>1, <2>1, LoginKeeps DEF LoginShape, PttTypeOK
  <2> QED
    BY <1>3, <2>2
<1>7. CASE \E s \in Slot : ExpirePassword(s)
  <2>1. PICK s \in Slot : ExpirePassword(s)
    BY <1>7
  <2>2. UNCHANGED <<user, authenticated, chatname, is_muted>>
    BY <2>1 DEF ExpirePassword, connVars
  <2>3. \A t \in Slot :
           /\ users'[t].uid = users[t].uid
           /\ users'[t].privs = users[t].privs
           /\ users'[t].password_change_required = users[t].password_change_required
    BY <2>1 DEF ExpirePassword, PttTypeOK, SessionTypeOK, Account
  <2>4. ASSUME NEW c \in Client, is_ptt[c]
        PROVE  KeepsRight(c)
    <3>1. /\ HasTxAuthority(c, ptt_room[c])
          /\ ~users[user[c]].password_change_required
      BY <1>2, <2>4 DEF KeySafe, KeyedHasAuthority, Keyed
    <3>2. users[user[c]].uid \in Slot
      BY <1>2, <2>4 DEF PttTypeOK, SessionTypeOK, Account
    <3>3. HasTxAuthority(c, ptt_room[c])'
      BY <1>0, <1>2, <2>2, <2>3, <2>4, <3>1, <3>2
         DEF HasTxAuthority, HasPriv, has_priv, keyVars
    <3> QED
      BY <1>2, <2>2, <2>3, <2>4, <3>1, <3>3 DEF KeepsRight
  <2>5. LoginShape'
    BY <1>1, <2>2 DEF LoginShape
  <2> QED
    BY <1>0, <2>4, <2>5, UntouchedKeepsSafe
<1> QED
  BY <1>4, <1>5, <1>6, <1>7 DEF SessionStep

\* A connection that closes gives up the transmitter.
LEMMA CloseKeepsSafe ==
  ASSUME PttTypeOK, KeySafe, NEW c \in Client, CloseSession(c)
  PROVE  KeySafe'
<1> DEFINE S == IF user[c] # NoUser /\ chatname[c] # NoName THEN {c} ELSE {}
<1>1. Released(S)
  BY DEF CloseSession, ReleasePtt, Released
<1>2. /\ user' = [user EXCEPT ![c] = NoUser]
      /\ authenticated' = [authenticated EXCEPT ![c] = FALSE]
      /\ chatname' = [chatname EXCEPT ![c] = NoName]
      /\ UNCHANGED <<users, is_muted>>
  BY DEF CloseSession, Close
<1>3. \A d \in Client : d # c => /\ user'[d] = user[d] /\ chatname'[d] = chatname[d]
                              /\ authenticated'[d] = authenticated[d]
  BY <1>2 DEF PttTypeOK, SessionTypeOK
<1>4. ~authenticated'[c]
  BY <1>2 DEF PttTypeOK, SessionTypeOK
<1>5. LoginShape'
  BY <1>3, <1>4 DEF LoginShape, KeySafe, KeyedIsSession
<1>6. ASSUME NEW d \in Client, is_ptt[d], d \notin S
      PROVE  KeepsRight(d)
  <2>1. authenticated[d] /\ user[d] \in Slot /\ chatname[d] # NoName
    BY <1>6 DEF KeySafe, KeyedIsSession
  <2>2. d # c
    BY <1>6, <2>1, SessionAssumption
  <2>3. ~is_muted[user[d]]
    BY <1>6, <2>1 DEF KeySafe, MutedNeverKeyed, Keyed
  <2>4. ptt_room'[d] = ptt_room[d]
    BY <1>1, <1>6 DEF Released
  <2> QED
    BY <1>2, <1>3, <1>6, <2>1, <2>2, <2>3, <2>4, KeyedKeepsRight
<1> QED
  BY <1>1, <1>5, <1>6, ReleaseKeepsSafe

\* Whoever a reload does not silence has the right to go on.
LEMMA AccountsChangeKeepsSafe ==
  ASSUME PttTypeOK, KeySafe, AccountsChange
  PROVE  KeySafe'
<1>1. PICK table \in AccountTables, denied \in SUBSET Talkers :
           Load(table) /\ PttReload(table, denied)
  BY DEF AccountsChange, Reload, RefreshEvicts
<1> DEFINE S == Silenced(table, denied)
<1>2. /\ UNCHANGED <<user, authenticated, chatname>> /\ users' = table
      /\ \A s \in Slot : is_muted'[s] => is_muted[s]
  BY <1>1 DEF Load, PttTypeOK, SessionTypeOK
<1>3. Released(S) /\ S \in SUBSET Client
  BY <1>1 DEF PttReload, ReleasePtt, Released, Silenced, Evicted, LoggedIn
<1>4. LoginShape'
  BY <1>2 DEF LoginShape, KeySafe, KeyedIsSession
<1>5. ASSUME NEW c \in Client, is_ptt[c], c \notin S
      PROVE  KeepsRight(c)
  <2>1. authenticated[c] /\ user[c] \in Slot /\ ~is_muted[user[c]]
    BY <1>5 DEF KeySafe, KeyedIsSession, MutedNeverKeyed, Keyed
  <2>2. /\ table[user[c]].name # NoName
        /\ table[user[c]].privs \cap TxPrivilege # {}
        /\ ~table[user[c]].password_change_required
    BY <1>5, <2>1 DEF Silenced, Evicted, LoggedIn, SameAccount
  <2>3. table[user[c]].uid = user[c]
    BY <2>1, <2>2, SessionAssumption DEF WellFormed
  <2>4. HasTxAuthority(c, ptt_room[c])'
    BY <1>2, <2>2, <2>3 DEF HasTxAuthority, HasPriv, has_priv
  <2> QED
    BY <1>2, <2>1, <2>2, <2>4 DEF KeepsRight
<1> QED
  BY <1>3, <1>4, <1>5, ReleaseKeepsSafe

\* What happens between handlers, and stuttering.
LEMMA RestKeepsSafe ==
  ASSUME PttTypeOK, KeySafe, Environment \/ UNCHANGED vars
  PROVE  KeySafe'
<1>1. UNCHANGED <<sessionVars, keyVars>>
  BY DEF Environment, CooldownEnds, SetVfoMask, RemoteTalk, vars, pttVars
<1>2. UNCHANGED <<user, authenticated, chatname, users, is_muted>> /\ Released({})
  BY <1>1 DEF sessionVars, connVars, accountVars, keyVars, Released, PttTypeOK
<1> QED
  BY <1>2, CommandKeepsSafe

LEMMA InitSafe == Init => IInv
<1> SUFFICES ASSUME Init
             PROVE  UsersWellFormed /\ KeySafe
  BY PttInitTyped DEF IInv
<1>1. UsersWellFormed
  BY SessionAssumption DEF Init, SessionInit, UsersWellFormed, WellFormed
<1>2. KeySafe
  BY DEF Init, SessionInit, KeySafe, KeyedIsSession, SingleTalker, RigFollowsTalker,
         MutedNeverKeyed, KeyedHasAuthority, Talkers, Keyed
<1> QED
  BY <1>1, <1>2

LEMMA StepSafe == IInv /\ [Next]_vars => IInv'
<1> SUFFICES ASSUME IInv, [Next]_vars
             PROVE  IInv'
  OBVIOUS
<1>1. PttTypeOK'
  BY PttStepTyped DEF IInv
<1>2. UsersWellFormed'
  BY PttStepIsSessionStep, UsersStep DEF IInv, PttTypeOK
<1>3. KeySafe'
  BY CommandStep, SessionStepKeepsSafe, CloseKeepsSafe, AccountsChangeKeepsSafe,
     RestKeepsSafe
     DEF IInv, Next
<1> QED
  BY <1>1, <1>2, <1>3 DEF IInv

LEMMA Inductive == Spec => []IInv
  BY InitSafe, StepSafe, PTL DEF Spec

\* Two sessions never transmit at once.
THEOREM OneTalker == Spec => []SingleTalker
<1>1. IInv => SingleTalker
  BY DEF IInv, KeySafe
<1> QED
  BY <1>1, Inductive, PTL

\* The rig is keyed on the talker's room and VFO, and only there.
THEOREM RigInStep == Spec => []RigFollowsTalker
<1>1. IInv => RigFollowsTalker
  BY DEF IInv, KeySafe
<1> QED
  BY <1>1, Inductive, PTL

\* A muted account does not transmit.
THEOREM MutedSilent == Spec => []MutedNeverKeyed
<1>1. IInv => MutedNeverKeyed
  BY DEF IInv, KeySafe
<1> QED
  BY <1>1, Inductive, PTL

\* Who transmits has the right to, after any reloads.
THEOREM TalkerHasAuthority == Spec => []KeyedHasAuthority
<1>1. IInv => KeyedHasAuthority
  BY DEF IInv, KeySafe
<1> QED
  BY <1>1, Inductive, PTL

-----------------------------------------------------------------------------
(* Push-to-talk implements the lock *)

\* The talker, as the lock sees it.
LEMMA LockView ==
  ASSUME KeySafe
  PROVE  \/ Talkers = {} /\ transmitting = {}
         \/ \E c \in Client : Talkers = {c} /\ transmitting = {KeyedChannel(c)}
<1>1. CASE Talkers = {}
  BY <1>1 DEF KeySafe, RigFollowsTalker
<1>2. CASE Talkers # {}
  <2>1. PICK c \in Client : Talkers = {c}
    BY <1>2 DEF KeySafe, SingleTalker, Talkers
  <2> QED
    BY <2>1 DEF KeySafe, RigFollowsTalker
<1> QED
  BY <1>1, <1>2

\* Audio for the rig (ws_binframe_process_mg) comes from the session the rig is keyed
\* for, by a channel of the room and the VFO it is keyed on or of all VFOs of the room.
\* The gate passes over an empty room of a transmission; a transmission has none.
THEOREM AudioOfTalker == Spec => []AudioFromTalker
<1>1. ASSUME IInv PROVE AudioFromTalker
  <2> SUFFICES ASSUME NEW c \in Client, NEW r \in Room \cup {NoRoom},
                      NEW v \in Vfo \cup {NoVfo}, AudioAccepted(c, r, v, {})
               PROVE  /\ Talkers = {c}
                      /\ \E w \in Vfo : transmitting = {<<r, w>>} /\ v \in {w, NoVfo}
    BY DEF AudioFromTalker
  <2>1. c \in Talkers
    BY DEF AudioAccepted, Talkers, Keyed
  <2>2. Talkers = {c} /\ transmitting = {KeyedChannel(c)}
    BY <1>1, <2>1, LockView DEF IInv
  <2>3. ptt_room[c] \in Room /\ ptt_vfo[c] \in Vfo
    BY <1>1, <2>2 DEF IInv, PttTypeOK, KeyedChannel
  <2>4. ptt_room[c] = r /\ v \in {ptt_vfo[c], NoVfo}
    BY <2>3, PttAssumption DEF AudioAccepted
  <2> QED
    BY <2>2, <2>3, <2>4 DEF KeyedChannel
<1> QED
  BY <1>1, Inductive, PTL

\* A step keys a session down, or only takes the transmitter away.
LEMMA KeyDownOrRelease ==
  ASSUME IInv, [Next]_vars
  PROVE  \/ \E c \in Client, r \in Room, v \in Vfo : KeyDown(c, r, v)
         \/ \E S \in SUBSET Client : Released(S)
<1> USE DEF IInv
<1>1. ASSUME UNCHANGED keyVars
      PROVE  \E S \in SUBSET Client : Released(S)
  <2>1. Released({})
    BY <1>1 DEF Released, keyVars, PttTypeOK
  <2> QED
    BY <2>1
<1>2. ASSUME NEW S \in SUBSET Client, ReleasePtt(S)
      PROVE  \E T \in SUBSET Client : Released(T)
  BY <1>2 DEF ReleasePtt, Released
<1>3. ASSUME NEW c \in Client, Command(c),
             ~ \E r \in Room, v \in Vfo : KeyDown(c, r, v)
      PROVE  \E S \in SUBSET Client : Released(S)
  <2>1. CASE OwnRelease(c)
    <3>1. /\ is_ptt[c] /\ is_ptt' = [is_ptt EXCEPT ![c] = FALSE]
          /\ ptt_vfo' = [ptt_vfo EXCEPT ![c] = NoVfo] /\ ptt_room' = ptt_room
          /\ transmitting' = transmitting \ {KeyedChannel(c)}
      BY <2>1 DEF OwnRelease
    <3>2. Released({c})
      BY <3>1 DEF Released, PttTypeOK
    <3> QED
      BY <3>2
  <2>2. CASE \E h \in Client : OverrideRelease(c, h)
    <3>1. PICK h \in Client : OverrideRelease(c, h)
      BY <2>2
    <3>2. /\ is_ptt[h] /\ is_ptt' = [is_ptt EXCEPT ![h] = FALSE]
          /\ ptt_vfo' = [ptt_vfo EXCEPT ![h] = NoVfo] /\ ptt_room' = ptt_room
          /\ transmitting' = transmitting \ {KeyedChannel(h)}
      BY <3>1 DEF OverrideRelease, Talkers, Keyed
    <3>3. Released({h})
      BY <3>2 DEF Released, PttTypeOK
    <3> QED
      BY <3>3
  <2>3. CASE \E r \in Room : JoinRoom(c, r) \/ PartRoom(c, r)
    <3>1. UNCHANGED keyVars
      BY <2>3 DEF JoinRoom, PartRoom
    <3> QED
      BY <1>1, <3>1
  <2>4. CASE \E d \in Client : MuteAccount(c, d)
    <3>1. PICK d \in Client : ReleasePtt({x \in Client : user[x] = user[d]})
      BY <2>4 DEF MuteAccount
    <3> DEFINE S == {x \in Client : user[x] = user[d]}
    <3>2. S \in SUBSET Client /\ ReleasePtt(S)
      BY <3>1
    <3> HIDE DEF S
    <3> QED
      BY <1>2, <3>2
  <2> QED
    BY <1>3, <2>1, <2>2, <2>3, <2>4 DEF Command
<1>4. CASE SessionStep
  BY <1>1, <1>4 DEF SessionStep, pttVars
<1>5. CASE \E c \in Client : CloseSession(c)
  <2>1. PICK c \in Client :
            ReleasePtt(IF user[c] # NoUser /\ chatname[c] # NoName THEN {c} ELSE {})
    BY <1>5 DEF CloseSession
  <2> DEFINE S == IF user[c] # NoUser /\ chatname[c] # NoName THEN {c} ELSE {}
  <2>2. S \in SUBSET Client /\ ReleasePtt(S)
    BY <2>1
  <2> HIDE DEF S
  <2> QED
    BY <1>2, <2>2
<1>6. CASE AccountsChange
  <2>1. PICK table \in AccountTables, denied \in SUBSET Talkers :
               ReleasePtt(Silenced(table, denied))
    BY <1>6 DEF AccountsChange, PttReload
  <2>2. Silenced(table, denied) \in SUBSET Client
    BY DEF Silenced, Evicted, LoggedIn
  <2> QED
    BY <1>2, <2>1, <2>2
<1>7. CASE Environment
  <2>1. UNCHANGED keyVars
    BY <1>7 DEF Environment, CooldownEnds, SetVfoMask, RemoteTalk
  <2> QED
    BY <1>1, <2>1
<1>8. CASE UNCHANGED vars
  BY <1>1, <1>8 DEF vars, pttVars
<1> QED
  BY <1>3, <1>4, <1>5, <1>6, <1>7, <1>8 DEF Next

\* So the transmitter is acquired from nobody, released, or stays as it is.
LEMMA LockStep ==
  ASSUME IInv, IInv', [Next]_vars
  PROVE  [Lock!LockNext]_Lock!lockVars
<1>1. \/ Talkers = {} /\ transmitting = {} /\ LockHolder = NoTalker
      \/ \E c \in Client : /\ Talkers = {c} /\ LockHolder = c
                          /\ transmitting = {KeyedChannel(c)}
  BY LockView DEF IInv, LockHolder
<1>2. \/ Talkers' = {} /\ transmitting' = {} /\ LockHolder' = NoTalker
      \/ \E c \in Client : /\ Talkers' = {c} /\ LockHolder' = c
                          /\ transmitting' = {KeyedChannel(c)'}
                          /\ KeyedChannel(c)' \in Room \X Vfo
  <2>1. \/ Talkers' = {} /\ transmitting' = {}
        \/ \E c \in Client : Talkers' = {c} /\ transmitting' = {KeyedChannel(c)'}
    <3>1. \A c, d \in Talkers' : c = d
      BY DEF IInv, KeySafe, SingleTalker, Talkers
    <3>2. transmitting' = {KeyedChannel(c)' : c \in Talkers'}
      BY DEF IInv, KeySafe, RigFollowsTalker
    <3>3. CASE Talkers' = {}
      BY <3>2, <3>3
    <3>4. CASE Talkers' # {}
      <4>1. PICK c \in Client : Talkers' = {c}
        BY <3>1, <3>4 DEF Talkers
      <4> QED
        BY <3>2, <4>1
    <3> QED
      BY <3>3, <3>4
  <2>2. \A c \in Talkers' : KeyedChannel(c)' \in Room \X Vfo
    BY DEF IInv, KeySafe, KeyedIsSession, Talkers, Keyed
  <2> QED
    BY <2>1, <2>2 DEF LockHolder
<1>3. \A c, d \in Client : Talkers = {c} /\ Talkers' = {d} =>
          c = d /\ KeyedChannel(d)' = KeyedChannel(c)
  <2> SUFFICES ASSUME NEW c \in Client, NEW d \in Client,
                      Talkers = {c}, Talkers' = {d}
               PROVE  c = d /\ KeyedChannel(d)' = KeyedChannel(c)
    OBVIOUS
  <2>1. is_ptt[c] /\ is_ptt'[d]
    BY DEF Talkers, Keyed
  <2>2. ASSUME NEW e \in Client, NEW r \in Room, NEW v \in Vfo, KeyDown(e, r, v)
        PROVE  c = d /\ KeyedChannel(d)' = KeyedChannel(c)
    <3>1. c = e /\ KeyedChannel(c) = <<r, v>>
      BY <2>1, <2>2 DEF KeyDown
    <3>2. /\ is_ptt' = [is_ptt EXCEPT ![e] = TRUE]
          /\ ptt_vfo' = [ptt_vfo EXCEPT ![e] = v]
          /\ ptt_room' = [ptt_room EXCEPT ![e] = r]
          /\ UNCHANGED authenticated
      BY <2>2 DEF KeyDown
    <3>3. c \in Talkers'
      BY <3>1, <3>2 DEF IInv, PttTypeOK, Talkers, Keyed
    <3>4. KeyedChannel(c)' = <<r, v>>
      BY <3>1, <3>2 DEF IInv, PttTypeOK, KeyedChannel
    <3> QED
      BY <3>1, <3>3, <3>4
  <2>3. ASSUME NEW S \in SUBSET Client, Released(S)
        PROVE  c = d /\ KeyedChannel(d)' = KeyedChannel(c)
    <3>1. is_ptt[d] /\ d \notin S
      BY <2>1, <2>3 DEF Released
    <3>2. d \in Talkers
      BY <3>1 DEF IInv, KeySafe, KeyedIsSession, Talkers, Keyed
    <3>3. KeyedChannel(d)' = KeyedChannel(d)
      BY <2>3, <3>1 DEF Released, KeyedChannel
    <3> QED
      BY <3>2, <3>3
  <2> QED
    BY <2>2, <2>3, KeyDownOrRelease
<1>4. CASE LockHolder = NoTalker /\ LockHolder' # NoTalker
  BY <1>1, <1>2, <1>4, PttAssumption DEF Lock!LockNext, Lock!Acquire
<1>5. CASE LockHolder # NoTalker /\ LockHolder' = NoTalker
  BY <1>1, <1>2, <1>5, PttAssumption DEF Lock!LockNext, Lock!Release
<1>6. CASE UNCHANGED <<LockHolder, transmitting>>
  BY <1>6 DEF Lock!lockVars
<1> QED
  BY <1>1, <1>2, <1>3, <1>4, <1>5, <1>6, PttAssumption

\* Push-to-talk implements the lock: acquired when free, never handed over.
THEOREM PttImplementsLock == Spec => ImplementsLock
<1>1. Init => Lock!LockInit
  BY DEF Init, SessionInit, Lock!LockInit, LockHolder, Talkers, Keyed
<1>2. IInv /\ IInv' /\ [Next]_vars => [Lock!LockNext]_Lock!lockVars
  BY LockStep
<1> QED
  BY <1>1, <1>2, Inductive, PTL DEF Spec, ImplementsLock, Lock!LockSpec
=============================================================================
