------------------------------- MODULE Session -------------------------------
(***************************************************************************)
(* The server's connection list and account table: connect, the two-step   *)
(* login (a challenge, then the reply), logout, kick, close, mute, and the *)
(* reload of the account table with its reconciliation of live sessions.   *)
(*                                                                         *)
(* One action is one handler run of the single-threaded event loop.  A     *)
(* kicked connection stays in the list, and stays authenticated, until its *)
(* transport closes: "closing" is that interval.  The refresh that starts a *)
(* message may itself kick the sender, and the handler then goes on with   *)
(* the message: "evicted" is that interval, and only the sender's handler  *)
(* runs in it.  Every connection here is a WebSocket (is_ws); the budget   *)
(* of auth_peer_allowed and the random names of guests are not modelled.   *)
(***************************************************************************)
EXTENDS Naturals, FiniteSets

CONSTANTS
    Client,             \* connections, reused after they close
    Name,               \* account names
    NoName,             \* the empty name of an erased table slot
    NoUser,             \* a connection without an account: cptr->user == NULL
    HTTP_MAX_USERS,     \* slots of http_users[]
    HTTP_MAX_SESSIONS,  \* "max sessions total"
    AccountTables       \* the tables a (re)load can produce

Slot == 0 .. (HTTP_MAX_USERS - 1)

Privilege == {"owner", "admin", "tx", "elmer", "noob", "media.source"}

\* password_expires: 0 ("never"), a time to come ("later") or one passed ("past").
Account == [name : Name \cup {NoName}, uid : Slot, enabled : BOOLEAN,
            privs : SUBSET Privilege, max_sessions : Nat,
            password_expires : {"never", "later", "past"},
            password_change_required : BOOLEAN]

\* Erased slots are all zeroes, so their uid is 0; a record that was read has
\* the uid of its slot.  No name is in a table twice.
WellFormed(table) ==
    /\ table \in [Slot -> Account]
    /\ \A s \in Slot :
         IF table[s].name = NoName
         THEN table[s].uid = 0 /\ ~table[s].enabled /\ table[s].privs = {}
         ELSE table[s].uid = s
    /\ \A s, t \in Slot :
         table[s].name = table[t].name /\ table[s].name # NoName => s = t

ASSUME SessionAssumption ==
    /\ IsFiniteSet(Client)
    /\ HTTP_MAX_USERS \in Nat \ {0}
    /\ HTTP_MAX_SESSIONS \in Nat
    /\ NoName \notin Name
    /\ NoUser \notin Slot
    /\ AccountTables # {}
    /\ \A table \in AccountTables : WellFormed(table)

VARIABLES
    conn,           \* "none", "open", "evicted" or "closing"
    user,           \* the slot cptr->user points at
    authenticated,
    nonce,          \* is a login challenge outstanding?
    chatname,       \* the name shown to others, set when the reply is accepted
    users,          \* http_users[], without the two counters below
    sessions,       \* http_users[].sessions
    is_muted        \* http_users[].is_muted

connVars == <<conn, user, authenticated, nonce, chatname>>
accountVars == <<users, sessions, is_muted>>
sessionVars == <<connVars, accountVars>>

-----------------------------------------------------------------------------
(* Helpers *)

LoggedIn == {c \in Client : authenticated[c]}

LiveSessions(s) == {c \in LoggedIn : user[c] = s}

has_priv(uid, wanted) == users[uid].privs \cap wanted # {}

\* Privileges are looked up through the uid stored in the slot of the session.
HasPriv(c, wanted) == has_priv(users[user[c]].uid, wanted)

Expired(s) == users[s].password_expires = "past"

\* No handler is under way.
Idle == \A c \in Client : conn[c] # "evicted"

\* A message of c is being handled.
Handling(c) == conn[c] = "evicted" \/ (conn[c] = "open" /\ Idle)

\* What ws_process_dict lets through to the chat and rig control handlers.
MayCommand(c) ==
    /\ Handling(c)
    /\ authenticated[c]
    /\ ~Expired(user[c])
    /\ ~users[user[c]].password_change_required

\* ws_kick_client: the members of S lose their transport; nothing else changes
\* before the close of each is handled.  The handler under way is over.
Kick(S) ==
    conn' = [c \in Client |->
                IF c \in S \/ conn[c] = "evicted" THEN "closing" ELSE conn[c]]

Return == Kick({})

-----------------------------------------------------------------------------
(* Connections *)

Connect(c) ==
    /\ conn[c] = "none"
    /\ conn' = [conn EXCEPT ![c] = "open"]
    /\ nonce' = [nonce EXCEPT ![c] = TRUE]
    /\ UNCHANGED <<user, authenticated, chatname, accountVars>>

\* Bug: the close handler decrements the counter too.
CloseCountsTwice(c) ==
    /\ conn[c] # "none"
    /\ sessions' = IF authenticated[c] /\ user[c] # NoUser
                   THEN [sessions EXCEPT ![user[c]] = IF @ > 1 THEN @ - 2 ELSE 0]
                   ELSE sessions
    /\ conn' = [conn EXCEPT ![c] = "none"]
    /\ user' = [user EXCEPT ![c] = NoUser]
    /\ authenticated' = [authenticated EXCEPT ![c] = FALSE]
    /\ nonce' = [nonce EXCEPT ![c] = FALSE]
    /\ chatname' = [chatname EXCEPT ![c] = NoName]
    /\ UNCHANGED <<users, is_muted>>

\* Bug: a session that was kicked is taken to be counted out already.
CloseForgetsKicked(c) ==
    /\ conn[c] # "none"
    /\ sessions' = IF /\ conn[c] = "open" /\ authenticated[c]
                      /\ user[c] # NoUser /\ sessions[user[c]] > 0
                   THEN [sessions EXCEPT ![user[c]] = @ - 1]
                   ELSE sessions
    /\ conn' = [conn EXCEPT ![c] = "none"]
    /\ user' = [user EXCEPT ![c] = NoUser]
    /\ authenticated' = [authenticated EXCEPT ![c] = FALSE]
    /\ nonce' = [nonce EXCEPT ![c] = FALSE]
    /\ chatname' = [chatname EXCEPT ![c] = NoName]
    /\ UNCHANGED <<users, is_muted>>

\* The transport is gone: the entry is unlinked, its session is counted out
\* and the record is freed.
Close(c) ==
    /\ conn[c] # "none"
    /\ sessions' = IF authenticated[c] /\ user[c] # NoUser /\ sessions[user[c]] > 0
                   THEN [sessions EXCEPT ![user[c]] = @ - 1]
                   ELSE sessions
    /\ conn' = [conn EXCEPT ![c] = "none"]
    /\ user' = [user EXCEPT ![c] = NoUser]
    /\ authenticated' = [authenticated EXCEPT ![c] = FALSE]
    /\ nonce' = [nonce EXCEPT ![c] = FALSE]
    /\ chatname' = [chatname EXCEPT ![c] = NoName]
    /\ UNCHANGED <<users, is_muted>>

\* logout or quit, which an unauthenticated client may send too.
Logout(c) ==
    /\ Handling(c)
    /\ Kick({c})
    /\ UNCHANGED <<user, authenticated, nonce, chatname, accountVars>>

\* Any message of a session whose password has expired.
KickExpired(c) ==
    /\ Handling(c)
    /\ authenticated[c]
    /\ Expired(user[c])
    /\ Kick({c})
    /\ UNCHANGED <<user, authenticated, nonce, chatname, accountVars>>

-----------------------------------------------------------------------------
(* Login *)

\* The limits are looked at when the challenge is requested, and only then.
MayLogin(s) ==
    /\ users[s].enabled
    /\ ~Expired(s)
    /\ Cardinality(LoggedIn) <= HTTP_MAX_SESSIONS
    /\ sessions[s] + 1 <= users[s].max_sessions

\* Bug: an authenticated session may start another login.
LoginChallengeAgain(c, s) ==
    /\ conn[c] = "open"
    /\ users[s].name # NoName
    /\ MayLogin(s)
    /\ user' = [user EXCEPT ![c] = s]
    /\ nonce' = [nonce EXCEPT ![c] = TRUE]
    /\ UNCHANGED <<conn, authenticated, chatname, accountVars>>

LoginChallenge(c, s) ==
    /\ conn[c] = "open"
    /\ ~authenticated[c]
    /\ users[s].name # NoName
    /\ MayLogin(s)
    /\ user' = [user EXCEPT ![c] = s]
    /\ nonce' = [nonce EXCEPT ![c] = TRUE]
    /\ UNCHANGED <<conn, authenticated, chatname, accountVars>>

\* An unknown name, an account that may not log in now, or one whose stored
\* hash is unusable.
LoginRefused(c, u) ==
    /\ conn[c] = "open"
    /\ ~authenticated[c]
    /\ u # NoUser => users[u].name # NoName
    /\ user' = [user EXCEPT ![c] = u]
    /\ Kick({c})
    /\ UNCHANGED <<authenticated, nonce, chatname, accountVars>>

\* The reply is checked against the account that the uid in the slot names;
\* whether it is the right one is up to the client.
PassAccepted(c) ==
    /\ conn[c] = "open"
    /\ ~authenticated[c]
    /\ user[c] # NoUser
    /\ nonce[c]
    /\ LET up == users[users[user[c]].uid]
       IN  /\ up.enabled
           /\ up.password_expires # "past"
           /\ chatname' = [chatname EXCEPT ![c] = up.name]
    /\ nonce' = [nonce EXCEPT ![c] = FALSE]
    /\ authenticated' = [authenticated EXCEPT ![c] = TRUE]
    /\ sessions' = [sessions EXCEPT ![user[c]] = @ + 1]
    /\ UNCHANGED <<conn, user, users, is_muted>>

\* A wrong, stale or incomplete reply, a spent attempt budget, or a listener
\* that denies admission; the challenge is spent if the reply got as far as the
\* comparison.
PassRefused(c, compared) ==
    /\ conn[c] = "open"
    /\ ~authenticated[c]
    /\ compared => user[c] # NoUser /\ nonce[c]
    /\ nonce' = [nonce EXCEPT ![c] = @ /\ ~compared]
    /\ Kick({c})
    /\ UNCHANGED <<user, authenticated, chatname, accountVars>>

-----------------------------------------------------------------------------
(* Commands of staff *)

Staff(d) == MayCommand(d) /\ HasPriv(d, {"admin", "owner"})

\* Every listed session shown under the name is kicked.
AdminKick(d, name) ==
    /\ Staff(d)
    /\ \E c \in Client : chatname[c] = name
    /\ Kick({c \in Client : chatname[c] = name})
    /\ UNCHANGED <<user, authenticated, nonce, chatname, accountVars>>

\* Muting names a listed session c; it is c's account that is muted.
Mute(d, c) ==
    /\ Staff(d)
    /\ chatname[c] # NoName
    /\ is_muted' = [is_muted EXCEPT ![user[c]] = TRUE]
    /\ Return
    /\ UNCHANGED <<user, authenticated, nonce, chatname, users, sessions>>

Unmute(d, c) ==
    /\ Staff(d)
    /\ chatname[c] # NoName
    /\ is_muted' = [is_muted EXCEPT ![user[c]] = FALSE]
    /\ Return
    /\ UNCHANGED <<user, authenticated, nonce, chatname, users, sessions>>

-----------------------------------------------------------------------------
(* The account table *)

SameAccount(table, s) == table[s].name # NoName /\ table[s].name = users[s].name

\* Bug: a slot that now holds another account keeps its sessions.
EvictedIgnoresRename(table) ==
    {c \in LoggedIn :
        \/ table[user[c]].name = NoName
        \/ ~table[user[c]].enabled
        \/ table[user[c]].password_expires = "past"}

\* Bug: a disabled account keeps its sessions.
EvictedIgnoresDisable(table) ==
    {c \in LoggedIn :
        \/ ~SameAccount(table, user[c])
        \/ table[user[c]].password_expires = "past"}

\* http_reconcile_users: the sessions whose account the new table disables,
\* removes, renames or expires.
Evicted(table) ==
    {c \in LoggedIn :
        \/ ~SameAccount(table, user[c])
        \/ ~table[user[c]].enabled
        \/ table[user[c]].password_expires = "past"}

Load(table) ==
    /\ users' = table
    /\ sessions' = [s \in Slot |-> IF SameAccount(table, s) THEN sessions[s] ELSE 0]
    /\ is_muted' = [s \in Slot |-> SameAccount(table, s) /\ is_muted[s]]
    /\ UNCHANGED <<user, authenticated, nonce, chatname>>

Reload(table) ==
    /\ Load(table)
    /\ Kick(Evicted(table))

\* The refresh at the head of a message of c evicts c itself, among others.
\* (A refresh that spares the sender is no different from a reload before the
\* message.)
RefreshEvicts(c, table) ==
    /\ conn[c] = "open"
    /\ c \in Evicted(table)
    /\ Load(table)
    /\ conn' = [x \in Client |-> IF x = c THEN "evicted"
                                 ELSE IF x \in Evicted(table) THEN "closing"
                                 ELSE conn[x]]

\* The rest of that message changes nothing.
HandlerReturns(c) ==
    /\ conn[c] = "evicted"
    /\ Return
    /\ UNCHANGED <<user, authenticated, nonce, chatname, accountVars>>

\* The clock passes the expiry time of a password; nothing else happens then.
ExpirePassword(s) ==
    /\ users[s].password_expires = "later"
    /\ users' = [users EXCEPT ![s].password_expires = "past"]
    /\ UNCHANGED <<connVars, sessions, is_muted>>

-----------------------------------------------------------------------------
SessionInit ==
    /\ conn = [c \in Client |-> "none"]
    /\ user = [c \in Client |-> NoUser]
    /\ authenticated = [c \in Client |-> FALSE]
    /\ nonce = [c \in Client |-> FALSE]
    /\ chatname = [c \in Client |-> NoName]
    /\ users \in AccountTables
    /\ sessions = [s \in Slot |-> 0]
    /\ is_muted = [s \in Slot |-> FALSE]

\* A message of a session, or the rest of it; Mute is listed apart because it
\* also ends transmissions.
SessionMessage(c) ==
    \/ Logout(c)
    \/ KickExpired(c)
    \/ \E name \in Name : AdminKick(c, name)
    \/ \E d \in Client : Unmute(c, d)
    \/ HandlerReturns(c)

LoginMessage(c) ==
    \/ \E s \in Slot : LoginChallenge(c, s)
    \/ \E u \in Slot \cup {NoUser} : LoginRefused(c, u)
    \/ PassAccepted(c)
    \/ \E compared \in BOOLEAN : PassRefused(c, compared)

SessionNext ==
    \/ \E c \in Client : SessionMessage(c) \/ \E d \in Client : Mute(c, d)
    \/ /\ Idle
       /\ \/ \E c \in Client : Connect(c) \/ Close(c) \/ LoginMessage(c)
          \/ \E table \in AccountTables :
                Reload(table) \/ \E c \in Client : RefreshEvicts(c, table)
          \/ \E s \in Slot : ExpirePassword(s)

\* A transport that was told to close does close, and a handler returns.  The
\* event loop visits every connection on each turn, so the handlers of others
\* in between (~Idle) do not put the close off for ever: hence SF.
SessionFairness ==
    \A c \in Client :
        /\ SF_sessionVars(Idle /\ conn[c] = "closing" /\ Close(c))
        /\ WF_sessionVars(HandlerReturns(c))

SessionSpec == SessionInit /\ [][SessionNext]_sessionVars

FairSessionSpec == SessionSpec /\ SessionFairness

-----------------------------------------------------------------------------
(* Properties *)

\* Every variable has its type.
SessionTypeOK ==
    /\ conn \in [Client -> {"none", "open", "evicted", "closing"}]
    /\ user \in [Client -> Slot \cup {NoUser}]
    /\ authenticated \in [Client -> BOOLEAN]
    /\ nonce \in [Client -> BOOLEAN]
    /\ chatname \in [Client -> Name \cup {NoName}]
    /\ users \in [Slot -> Account]
    /\ sessions \in [Slot -> Nat]
    /\ is_muted \in [Slot -> BOOLEAN]

\* The counter of an account never exceeds the sessions it really has, so no
\* departed session ever holds a place in the limit of its account: however
\* kicks, closes and reloads of the table interleave with logins.
NoPhantomSessions == \A s \in Slot : sessions[s] <= Cardinality(LiveSessions(s))

\* The counter of a slot that never changes hands is exact: each session is
\* counted in once and out once, whichever way it ends.
SessionsCounted ==
    \A s \in Slot :
        (\A old, new \in AccountTables : old[s].name = new[s].name) =>
            sessions[s] = Cardinality(LiveSessions(s))

\* An authenticated session that was not kicked is shown under the name of the
\* account whose privileges it has, and that account is enabled.  It is the
\* account the session is charged to unless the slot of that one is erased.
SessionNamesAccount ==
    \A c \in Client :
        conn[c] = "open" /\ authenticated[c] =>
            LET charged == users[user[c]]
                judged  == users[charged.uid]
            IN  /\ chatname[c] # NoName
                /\ chatname[c] = judged.name
                /\ judged.enabled
                /\ charged.name # NoName => chatname[c] = charged.name

\* A session never changes accounts: "reconnect to change accounts".
IdentityFixed ==
    [][\A c \in Client :
          authenticated[c] /\ authenticated'[c] =>
              user'[c] = user[c] /\ chatname'[c] = chatname[c]]_sessionVars

\* The sessions of an account that is disabled come to an end, without any
\* further message from them.
RevokedSessionsEnd ==
    \A c \in Client :
        authenticated[c] /\ ~users[user[c]].enabled ~> ~authenticated[c]
=============================================================================
